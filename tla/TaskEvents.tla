----------------------------- MODULE TaskEvents -----------------------------
(***************************************************************************)
(* Task events on their way to the browser, for one task (one hub key):    *)
(* whoever runs the task records its status and publishes an event on the  *)
(* Redis channel; the Hub of every gateway hands the events it receives to *)
(* the subscriptions of its own SSE streams; a browser reads its stream    *)
(* until a terminal event and reconnects when it ends without one.         *)
(*                                                                         *)
(* The status of the task is a number that grows up to Final; Final stands *)
(* for the terminal states (COMPLETED, FAILED).  An event is the status it *)
(* reports.  Redis Pub/Sub and the network are external: a message reaches *)
(* the gateways connected when it is published, in order, or is lost.      *)
(***************************************************************************)
EXTENDS Integers, Sequences

CONSTANTS
    Gateway,   \* server-go instances
    Stream,    \* browsers watching the task
    Final,     \* the terminal status
    Buffer,    \* subscriberBuffer (64)
    MaxFaults, \* lost connections, publish errors and lost messages that may happen
    None

ASSUME EventsAssumption ==
    /\ Final \in Nat \ {0}
    /\ Buffer \in Nat \ {0, 1}
    /\ MaxFaults \in Nat
    /\ None \notin Nat /\ None \notin Gateway

VARIABLES
    status,     \* what StatusService.Current returns now
    outbox,     \* the event recorded and not yet published, or None
    listening,  \* gateways whose Run is connected to the channel
    channel,    \* messages on their way to each gateway
    pc,         \* browser and handler: off, subscribe, initial, open, done, stopped
    gw,         \* the gateway the stream is connected to
    initial,    \* the status the handler read
    reg,        \* the subscription is in Hub.subs
    buf,        \* Subscription.ch
    seen,       \* the events the browser has seen on this connection
    since,      \* history: the status when the subscription was registered
    missed,     \* history: an event was lost or a subscription dropped since then
    faults      \* faults so far

hubVars == <<reg, buf, missed>>
streamVars == <<pc, gw, initial, seen, since>>
channelVars == <<listening, channel>>
vars == <<status, outbox, channelVars, hubVars, streamVars, faults>>

Init ==
    /\ status = 0 /\ outbox = None /\ faults = 0
    /\ listening = Gateway
    /\ channel = [g \in Gateway |-> <<>>]
    /\ pc = [s \in Stream |-> "off"]
    /\ gw = [s \in Stream |-> None]
    /\ initial = [s \in Stream |-> 0]
    /\ reg = [s \in Stream |-> FALSE]
    /\ buf = [s \in Stream |-> <<>>]
    /\ seen = [s \in Stream |-> {}]
    /\ since = [s \in Stream |-> 0]
    /\ missed = [s \in Stream |-> FALSE]

Fault == faults < MaxFaults /\ faults' = faults + 1

-----------------------------------------------------------------------------
(* Hub *)

Subscribers(g) == {s \in Stream : reg[s] /\ gw[s] = g}

\* Fewer than a buffer of events come between Subscribe's registration and its send of the
\* initial event, the next statement.
NotOverrun(g) == \A s \in Subscribers(g) : pc[s] = "initial" => Len(buf[s]) < Buffer - 1

Slow(g) == {s \in Subscribers(g) : Len(buf[s]) >= Buffer}

\* publishLocal: every subscriber with room gets the event, the others are unregistered.
publishLocal(g, ev) ==
    /\ buf' = [s \in Stream |-> IF s \in Subscribers(g) \ Slow(g)
                               THEN Append(buf[s], ev) ELSE buf[s]]
    /\ reg' = [s \in Stream |-> reg[s] /\ s \notin Slow(g)]

\* An event that some streams do not get.
Miss(S) == missed' = [s \in Stream |-> missed[s] \/ s \in S]
At(G) == {s \in Stream : gw[s] \in G}

-----------------------------------------------------------------------------
(* Publishers: Consumer, Analyzer, Dispatcher and the agent *)

\* Mutant: the event goes out before the status is stored.
RecordLate ==
    /\ outbox = None /\ status < Final
    /\ outbox' = status + 1
    /\ status' = IF status + 1 = Final THEN status ELSE status + 1
    /\ UNCHANGED <<channelVars, hubVars, streamVars, faults>>

\* What Current reads (the result, the active marker, the stage) is stored first.
Record ==
    /\ outbox = None /\ status < Final
    /\ status' = status + 1
    /\ outbox' = status + 1
    /\ UNCHANGED <<channelVars, hubVars, streamVars, faults>>

\* Hub.publish of gateway g: Redis if anybody listens, otherwise the gateway's own subscribers; an
\* error may hide a publication, which the local one then repeats.
publish(g) ==
    /\ outbox # None
    /\ \/ /\ listening # {}
          /\ channel' = [h \in Gateway |-> IF h \in listening
                                           THEN Append(channel[h], outbox) ELSE channel[h]]
          /\ Miss(At(Gateway \ listening))
          /\ UNCHANGED <<reg, buf, faults>>
       \/ /\ listening = {} /\ NotOverrun(g)
          /\ publishLocal(g, outbox) /\ Miss(At(Gateway \ {g}) \union Slow(g))
          /\ UNCHANGED <<channel, faults>>
       \/ /\ Fault /\ NotOverrun(g)
          /\ publishLocal(g, outbox) /\ Miss(At(Gateway \ {g}) \union Slow(g))
          /\ \/ UNCHANGED channel
             \/ channel' = [h \in Gateway |-> IF h \in listening
                                              THEN Append(channel[h], outbox) ELSE channel[h]]
    /\ outbox' = None
    /\ UNCHANGED <<status, listening, streamVars>>

\* TaskEventPublisher._publish of the agent: an error is only logged.
AgentPublishFails ==
    /\ outbox # None /\ outbox # Final /\ Fault
    /\ outbox' = None
    /\ Miss(Stream)
    /\ UNCHANGED <<status, channelVars, reg, buf, streamVars>>

\* Run and HandleMessage.
HandleMessage(g) ==
    /\ channel[g] # <<>> /\ NotOverrun(g)
    /\ publishLocal(g, Head(channel[g])) /\ Miss(Slow(g))
    /\ channel' = [channel EXCEPT ![g] = Tail(@)]
    /\ UNCHANGED <<status, outbox, listening, streamVars, faults>>

\* The Redis connection of a gateway breaks, and is made again.
Disconnected(g) ==
    /\ g \in listening /\ Fault
    /\ listening' = listening \ {g}
    /\ channel' = [channel EXCEPT ![g] = <<>>]
    /\ Miss(At({g}))
    /\ UNCHANGED <<status, outbox, reg, buf, streamVars>>

Reconnected(g) ==
    /\ listening' = listening \union {g}
    /\ UNCHANGED <<status, outbox, channel, hubVars, streamVars, faults>>

-----------------------------------------------------------------------------
(* analysisEvents, transcriptionEvents and streamEvents; taskEvents.js on the other side *)

Goto(s, l) == pc' = [pc EXCEPT ![s] = l]

\* Subscription.Close, the end of streamEvents.
Unregister(s) ==
    /\ reg' = [reg EXCEPT ![s] = FALSE]
    /\ buf' = [buf EXCEPT ![s] = <<>>]
    /\ missed' = [missed EXCEPT ![s] = FALSE]

\* The browser connects to some gateway and its handler reads the status.
ReadStatus(s) ==
    /\ pc[s] = "off"
    /\ \E g \in Gateway : gw' = [gw EXCEPT ![s] = g]
    /\ initial' = [initial EXCEPT ![s] = status]
    /\ seen' = [seen EXCEPT ![s] = {}]
    /\ Goto(s, "subscribe")
    /\ UNCHANGED <<status, outbox, channelVars, hubVars, since, faults>>

\* Subscribe registers the stream ...
Subscribe(s) ==
    /\ pc[s] = "subscribe"
    /\ reg' = [reg EXCEPT ![s] = TRUE]
    /\ since' = [since EXCEPT ![s] = status]
    /\ missed' = [missed EXCEPT ![s] = FALSE]
    /\ Goto(s, "initial")
    /\ UNCHANGED <<status, outbox, channelVars, buf, gw, initial, seen, faults>>

\* Mutant: the channel is made anew with the initial event in it.
QueueInitialResets(s) ==
    /\ pc[s] = "initial"
    /\ buf' = [buf EXCEPT ![s] = <<initial[s]>>]
    /\ Goto(s, "open")
    /\ UNCHANGED <<status, outbox, channelVars, reg, missed, gw, initial, seen, since, faults>>

\* ... and then queues the initial event.
QueueInitial(s) ==
    /\ pc[s] = "initial"
    /\ buf' = [buf EXCEPT ![s] = Append(@, initial[s])]
    /\ Goto(s, "open")
    /\ UNCHANGED <<status, outbox, channelVars, reg, missed, gw, initial, seen, since, faults>>

\* streamEvents writes the next event, consumeStream reads it; both end on a terminal one.
Push(s) ==
    /\ pc[s] = "open" /\ buf[s] # <<>>
    /\ seen' = [seen EXCEPT ![s] = @ \union {Head(buf[s])}]
    /\ IF Head(buf[s]) = Final
       THEN Goto(s, "done") /\ Unregister(s)
       ELSE buf' = [buf EXCEPT ![s] = Tail(@)] /\ UNCHANGED <<pc, reg, missed>>
    /\ UNCHANGED <<status, outbox, channelVars, gw, initial, since, faults>>

\* Mutant: no timer.
TimeoutNever(s) == FALSE /\ UNCHANGED vars

\* The 30 minute timer: by then everything buffered has been written.  The browser reconnects.
Timeout(s) ==
    /\ pc[s] = "open" /\ buf[s] = <<>>
    /\ Goto(s, "off") /\ Unregister(s)
    /\ UNCHANGED <<status, outbox, channelVars, gw, initial, seen, since, faults>>

\* The request fails, the connection breaks or the server shuts down (events in the buffer or on
\* the wire are lost); the browser reconnects.
Disconnect(s) ==
    /\ pc[s] \in {"subscribe", "open"} /\ Fault
    /\ Goto(s, "off") /\ Unregister(s)
    /\ UNCHANGED <<status, outbox, channelVars, gw, initial, seen, since>>

\* stop(): the user leaves, or the answer is one of isTerminalStatus.
Stop(s) ==
    /\ pc[s] \in {"off", "subscribe", "open"}
    /\ Goto(s, "stopped") /\ Unregister(s)
    /\ UNCHANGED <<status, outbox, channelVars, gw, initial, seen, since, faults>>

-----------------------------------------------------------------------------

Events ==
    \/ Record \/ AgentPublishFails
    \/ \E g \in Gateway : publish(g) \/ HandleMessage(g) \/ Disconnected(g) \/ Reconnected(g)

Watch(s) ==
    \/ ReadStatus(s) \/ Subscribe(s) \/ QueueInitial(s) \/ Push(s) \/ Timeout(s)
    \/ Disconnect(s) \/ Stop(s)

Next == Events \/ \E s \in Stream : Watch(s)

Spec == Init /\ [][Next]_vars

\* The task makes progress, handlers and browsers run, the timer fires.  Redis need not
\* reconnect, nor deliver.
FairSpec ==
    /\ Spec /\ WF_vars(Record) /\ WF_vars(\E g \in Gateway : publish(g))
    /\ \A s \in Stream :
         WF_vars(ReadStatus(s) \/ Subscribe(s) \/ QueueInitial(s) \/ Push(s) \/ Timeout(s))

-----------------------------------------------------------------------------
(* Properties *)

TypeOK ==
    /\ status \in 0 .. Final /\ outbox \in 0 .. Final \union {None}
    /\ listening \subseteq Gateway /\ channel \in [Gateway -> Seq(0 .. Final)]
    /\ pc \in [Stream -> {"off", "subscribe", "initial", "open", "done", "stopped"}]
    /\ gw \in [Stream -> Gateway \union {None}]
    /\ initial \in [Stream -> 0 .. Final] /\ since \in [Stream -> 0 .. Final]
    /\ reg \in [Stream -> BOOLEAN] /\ missed \in [Stream -> BOOLEAN]
    /\ buf \in [Stream -> Seq(0 .. Final)] /\ \A s \in Stream : Len(buf[s]) <= Buffer
    /\ seen \in [Stream -> SUBSET (0 .. Final)]
    /\ faults \in 0 .. MaxFaults

\* A browser that is told the end can fetch it: no terminal event overtakes the status it reports,
\* whichever way it takes (result, stage and active marker are stored before Consumer publishes).
EndIsTrue == \A s \in Stream : Final \in seen[s] => status = Final

\* Nothing is on its way to the streams of this gateway.
Quiet(g) == outbox = None /\ channel[g] = <<>>

Told(s, v) == v \in seen[s] \/ \E i \in DOMAIN buf[s] : buf[s][i] = v

\* A subscription does not miss what happens after it was registered, even if that is before its
\* initial event is queued (Subscribe registers first).
NothingMissedSinceSubscribe ==
    \A s \in Stream :
        pc[s] = "open" /\ Quiet(gw[s]) /\ ~missed[s] /\ status > since[s] => Told(s, status)

\* Whatever is lost on the way, and although a stream may be deaf, every browser that keeps
\* watching learns that the task ended: the timer and the reconnection see to it.
EveryBrowserLearnsTheEnd == \A s \in Stream : <>(pc[s] \in {"done", "stopped"})
=============================================================================
