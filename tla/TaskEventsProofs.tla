-------------------------- MODULE TaskEventsProofs --------------------------
(***************************************************************************)
(* What module TaskEvents promises its subscribers, for any number of      *)
(* gateways, browsers, events and faults.                                  *)
(***************************************************************************)
EXTENDS TaskEvents, SequenceTheorems, TLAPS

Elements(q) == {q[i] : i \in DOMAIN q}

\* The end is announced nowhere before it is recorded.
EndInv ==
    /\ outbox = Final => status = Final
    /\ \A g \in Gateway : Final \in Elements(channel[g]) => status = Final
    /\ \A s \in Stream : \/ status = Final
                         \/ /\ initial[s] # Final
                            /\ Final \notin Elements(buf[s])
                            /\ Final \notin seen[s]

\* Where a subscription stands: a handler that has not registered has an empty buffer, one that
\* has not queued its initial event has room for it.
SubscriptionInv ==
    \A s \in Stream :
        /\ pc[s] \notin {"initial", "open"} => ~reg[s] /\ buf[s] = <<>>
        /\ pc[s] = "initial" => Len(buf[s]) < Buffer
        /\ pc[s] # "off" /\ pc[s] # "stopped" => gw[s] \in Gateway
        /\ pc[s] \in {"initial", "open"} => reg[s] \/ missed[s]

\* Every status recorded since the registration is on its way to the stream or has arrived.
OnItsWay(s, v) ==
    v = outbox \/ v \in Elements(channel[gw[s]]) \/ v \in Elements(buf[s]) \/ v \in seen[s]

DeliveryInv ==
    \A s \in Stream : pc[s] \in {"initial", "open"} /\ ~missed[s] =>
        \A v \in since[s] + 1 .. status : OnItsWay(s, v)

\* Appending adds one element.
LEMMA AppendElements ==
    ASSUME NEW S, NEW q \in Seq(S), NEW e \in S
    PROVE  /\ Append(q, e) \in Seq(S)
           /\ Elements(Append(q, e)) = Elements(q) \union {e}
           /\ Len(Append(q, e)) = Len(q) + 1
  <1> DEFINE a == Append(q, e)
  <1>1. a \in Seq(S) /\ Len(a) = Len(q) + 1 /\ DOMAIN a = 1 .. Len(q) + 1 /\ DOMAIN q = 1 .. Len(q)
    OBVIOUS
  <1>2. \A i \in 1 .. Len(q) : a[i] = q[i]
    OBVIOUS
  <1>3. a[Len(q) + 1] = e /\ Len(q) \in Nat
    OBVIOUS
  <1>4. \A i \in DOMAIN a : i \in DOMAIN q \/ i = Len(q) + 1
    BY <1>1, <1>3
  <1>5. \A i \in DOMAIN q : i \in DOMAIN a
    BY <1>1, <1>3
  <1> HIDE DEF a
  <1>6. Elements(a) \subseteq Elements(q) \union {e}
    BY <1>1, <1>2, <1>3, <1>4 DEF Elements
  <1>7. Len(q) + 1 \in DOMAIN a
    BY <1>1, <1>3
  <1>8. Elements(q) \union {e} \subseteq Elements(a)
    BY <1>1, <1>2, <1>3, <1>5, <1>7 DEF Elements
  <1>9. Elements(a) = Elements(q) \union {e}
    BY <1>6, <1>8
  <1> QED  BY <1>1, <1>9 DEF a

\* Taking the head removes no other element.
LEMMA TailElements ==
    ASSUME NEW S, NEW q \in Seq(S), q # <<>>
    PROVE  /\ Head(q) \in S /\ Tail(q) \in Seq(S)
           /\ Elements(q) = Elements(Tail(q)) \union {Head(q)}
           /\ Len(Tail(q)) = Len(q) - 1
  <1>1. Head(q) \in S /\ Tail(q) \in Seq(S) /\ Len(Tail(q)) = Len(q) - 1
    BY HeadTailProperties, EmptySeq
  <1>2. \A i \in DOMAIN q : i = 1 \/ (i - 1 \in DOMAIN Tail(q) /\ Tail(q)[i - 1] = q[i])
    BY <1>1
  <1>3. \A i \in DOMAIN Tail(q) : i + 1 \in DOMAIN q /\ Tail(q)[i] = q[i + 1]
    BY <1>1
  <1>4. Head(q) = q[1] /\ 1 \in DOMAIN q
    BY <1>1
  <1>5. Elements(q) \subseteq Elements(Tail(q)) \union {Head(q)}
    BY <1>2, <1>4 DEF Elements
  <1>6. Elements(Tail(q)) \union {Head(q)} \subseteq Elements(q)
    BY <1>3, <1>4 DEF Elements
  <1> QED  BY <1>1, <1>5, <1>6

\* What publishLocal does to the subscriptions: it adds the event to every subscription of the
\* gateway that has room and takes nothing away.
LEMMA LocalDelivery ==
    ASSUME TypeOK, SubscriptionInv, NEW g \in Gateway, NEW STATE ev, ev \in 0 .. Final,
           NotOverrun(g), publishLocal(g, ev)
    PROVE  /\ buf' \in [Stream -> Seq(0 .. Final)]
           /\ reg' \in [Stream -> BOOLEAN]
           /\ \A s \in Stream :
                /\ Len(buf'[s]) <= Buffer
                /\ Elements(buf[s]) \subseteq Elements(buf'[s])
                /\ Elements(buf'[s]) \subseteq Elements(buf[s]) \union {ev}
                /\ reg'[s] => reg[s]
                /\ reg[s] /\ ~reg'[s] => s \in Slow(g)
                /\ gw[s] = g /\ reg[s] /\ s \notin Slow(g) => ev \in Elements(buf'[s])
                /\ ~reg[s] => buf'[s] = buf[s]
                /\ pc[s] = "initial" => Len(buf'[s]) < Buffer
  <1>1. buf' = [s \in Stream |-> IF s \in Subscribers(g) \ Slow(g)
                                THEN Append(buf[s], ev) ELSE buf[s]]
    BY DEF publishLocal
  <1>2. reg' = [s \in Stream |-> reg[s] /\ s \notin Slow(g)]
    BY DEF publishLocal
  <1>3. \A s \in Stream : buf[s] \in Seq(0 .. Final) /\ Len(buf[s]) <= Buffer /\ Len(buf[s]) \in Nat
    BY DEF TypeOK
  <1>4. \A s \in Stream : /\ Append(buf[s], ev) \in Seq(0 .. Final)
                          /\ Elements(Append(buf[s], ev)) = Elements(buf[s]) \union {ev}
                          /\ Len(Append(buf[s], ev)) = Len(buf[s]) + 1
    BY <1>3, AppendElements
  <1>5. \A s \in Stream : s \in Subscribers(g) <=> reg[s] /\ gw[s] = g
    BY DEF Subscribers
  <1>6. \A s \in Stream : s \in Slow(g) <=> s \in Subscribers(g) /\ Len(buf[s]) >= Buffer
    BY DEF Slow, Subscribers
  <1>7. Buffer \in Nat
    BY EventsAssumption
  <1>8. buf' \in [Stream -> Seq(0 .. Final)]
    BY <1>1, <1>3, <1>4
  <1>9. reg' \in [Stream -> BOOLEAN]
    BY <1>2
  <1>10. ASSUME NEW s \in Stream
         PROVE  /\ Len(buf'[s]) <= Buffer
                /\ Elements(buf[s]) \subseteq Elements(buf'[s])
                /\ Elements(buf'[s]) \subseteq Elements(buf[s]) \union {ev}
                /\ reg'[s] => reg[s]
                /\ reg[s] /\ ~reg'[s] => s \in Slow(g)
                /\ gw[s] = g /\ reg[s] /\ s \notin Slow(g) => ev \in Elements(buf'[s])
                /\ ~reg[s] => buf'[s] = buf[s]
                /\ pc[s] = "initial" => Len(buf'[s]) < Buffer
    <2>1. CASE s \in Subscribers(g) \ Slow(g)
      <3>1. buf'[s] = Append(buf[s], ev) /\ reg[s] /\ gw[s] = g
        BY <1>1, <1>5, <2>1
      <3>2. Len(buf[s]) < Buffer
        BY <1>6, <1>3, <1>7, <2>1
      <3>3. pc[s] = "initial" => Len(buf[s]) < Buffer - 1
        BY <2>1 DEF NotOverrun
      <3>4. reg'[s] <=> reg[s]
        BY <1>2, <2>1 DEF TypeOK
      <3>5. Len(buf'[s]) <= Buffer /\ (pc[s] = "initial" => Len(buf'[s]) < Buffer)
        BY <3>1, <3>2, <3>3, <1>3, <1>4, <1>7
      <3>6. Elements(buf'[s]) = Elements(buf[s]) \union {ev}
        BY <3>1, <1>4
      <3> QED  BY <3>1, <3>4, <3>5, <3>6
    <2>2. CASE s \notin Subscribers(g) \ Slow(g)
      <3>1. buf'[s] = buf[s]
        BY <1>1, <2>2
      <3>2. reg'[s] <=> reg[s] /\ s \notin Slow(g)
        BY <1>2
      <3>3. pc[s] = "initial" => Len(buf[s]) < Buffer
        BY DEF SubscriptionInv
      <3> QED  BY <3>1, <3>2, <3>3, <1>3, <1>5, <2>2
    <2> QED  BY <2>1, <2>2
  <1> QED  BY <1>8, <1>9, <1>10

EventsInv == TypeOK /\ EndInv /\ SubscriptionInv /\ DeliveryInv

\* The constants, as numbers.
LEMMA Numbers == /\ Final \in Nat /\ Final > 0 /\ Final \in 0 .. Final /\ 0 \in 0 .. Final
                 /\ Buffer \in Nat /\ Buffer > 1 /\ MaxFaults \in Nat
                 /\ None \notin 0 .. Final /\ None \notin Gateway
  BY EventsAssumption

\* An empty sequence has no elements.
LEMMA NoElements == Elements(<<>>) = {}
  BY DEF Elements

LEMMA InitiallyEventsInv == Init => EventsInv
  <1> SUFFICES ASSUME Init PROVE EventsInv
    OBVIOUS
  <1>1. TypeOK
    BY Numbers DEF Init, TypeOK
  <1>2. EndInv
    BY Numbers, NoElements DEF Init, EndInv
  <1>3. SubscriptionInv
    BY Numbers DEF Init, SubscriptionInv
  <1>4. DeliveryInv
    BY DEF Init, DeliveryInv
  <1> QED  BY <1>1, <1>2, <1>3, <1>4 DEF EventsInv

LEMMA RecordKeepsInv == EventsInv /\ Record => EventsInv'
  <1> SUFFICES ASSUME EventsInv, Record PROVE EventsInv'
    OBVIOUS
  <1> USE DEF EventsInv
  <1>1. TypeOK'
    BY Numbers DEF Record, TypeOK, channelVars, hubVars, streamVars
  <1>2. EndInv'
    BY Numbers DEF Record, EndInv, TypeOK, channelVars, hubVars, streamVars
  <1>3. SubscriptionInv'
    BY DEF Record, SubscriptionInv, channelVars, hubVars, streamVars
  <1>4. DeliveryInv'
    <2> SUFFICES ASSUME NEW s \in Stream, pc'[s] \in {"initial", "open"}, ~missed'[s],
                        NEW v \in (since[s] + 1 .. status)'
                 PROVE  OnItsWay(s, v)'
      BY DEF DeliveryInv
    <2>1. v \in since[s] + 1 .. status \/ v = outbox'
      BY DEF Record, TypeOK, streamVars
    <2>2. v \in since[s] + 1 .. status => OnItsWay(s, v)
      BY DEF DeliveryInv, Record, streamVars, hubVars
    <2>3. outbox = None
      BY DEF Record
    <2>4. v # None
      BY Numbers DEF TypeOK, Record, streamVars
    <2> QED  BY <2>1, <2>2, <2>3, <2>4 DEF OnItsWay, Record, channelVars, hubVars, streamVars
  <1> QED  BY <1>1, <1>2, <1>3, <1>4

\* Handing an event to the subscribers of one gateway, with or without taking it from a channel,
\* keeps what concerns the subscriptions; the streams of Missing are those that do not get it.
LEMMA LocalDeliveryKeepsInv ==
    ASSUME EventsInv, NEW g \in Gateway, NEW STATE ev, ev \in 0 .. Final,
           ev = Final => status = Final,
           NotOverrun(g), publishLocal(g, ev),
           NEW STATE Missing, Miss(Missing), Slow(g) \subseteq Missing,
           UNCHANGED <<status, listening, streamVars>>,
           channel' \in [Gateway -> Seq(0 .. Final)],
           \A h \in Gateway : Elements(channel'[h]) \subseteq Elements(channel[h]) \union {ev},
           outbox' \in {outbox, None},
           faults' \in 0 .. MaxFaults,
           \A s \in Stream : pc[s] \in {"initial", "open"} /\ s \notin Missing =>
               \A v : v = outbox \/ v \in Elements(channel[gw[s]]) =>
                    v = outbox' \/ v \in Elements(channel'[gw[s]]) \/ (v = ev /\ gw[s] = g)
    PROVE  EventsInv'
  <1> USE DEF EventsInv, streamVars
  <1>1. /\ buf' \in [Stream -> Seq(0 .. Final)]
        /\ reg' \in [Stream -> BOOLEAN]
        /\ \A s \in Stream :
             /\ Len(buf'[s]) <= Buffer
             /\ Elements(buf[s]) \subseteq Elements(buf'[s])
             /\ Elements(buf'[s]) \subseteq Elements(buf[s]) \union {ev}
             /\ reg'[s] => reg[s]
             /\ reg[s] /\ ~reg'[s] => s \in Slow(g)
             /\ gw[s] = g /\ reg[s] /\ s \notin Slow(g) => ev \in Elements(buf'[s])
             /\ ~reg[s] => buf'[s] = buf[s]
             /\ pc[s] = "initial" => Len(buf'[s]) < Buffer
    BY LocalDelivery
  <1>2. missed' \in [Stream -> BOOLEAN]
    BY DEF Miss
  <1>3. \A s \in Stream : missed'[s] <=> missed[s] \/ s \in Missing
    BY DEF Miss
  <1>4. TypeOK'
    BY <1>1, <1>2 DEF TypeOK
  <1>5. EndInv'
    <2>1. CASE status = Final
      BY <2>1 DEF EndInv
    <2>2. CASE status # Final
      <3>1. ev # Final /\ outbox # Final /\ None # Final
        BY <2>2, Numbers DEF EndInv
      <3>2. \A h \in Gateway : Final \notin Elements(channel'[h])
        BY <2>2, <3>1 DEF EndInv
      <3>3. \A s \in Stream : Final \notin Elements(buf'[s])
        BY <2>2, <3>1, <1>1 DEF EndInv
      <3> QED  BY <2>2, <3>1, <3>2, <3>3 DEF EndInv
    <2> QED  BY <2>1, <2>2
  <1>6. SubscriptionInv'
    <2> SUFFICES ASSUME NEW s \in Stream
                 PROVE  /\ pc[s] \notin {"initial", "open"} => ~reg'[s] /\ buf'[s] = <<>>
                        /\ pc[s] = "initial" => Len(buf'[s]) < Buffer
                        /\ pc[s] # "off" /\ pc[s] # "stopped" => gw[s] \in Gateway
                        /\ pc[s] \in {"initial", "open"} => reg'[s] \/ missed'[s]
      BY DEF SubscriptionInv
    <2>1. pc[s] \notin {"initial", "open"} => ~reg[s] /\ buf[s] = <<>>
      BY DEF SubscriptionInv
    <2>2. pc[s] # "off" /\ pc[s] # "stopped" => gw[s] \in Gateway
      BY DEF SubscriptionInv
    <2>3. pc[s] \in {"initial", "open"} => reg[s] \/ missed[s]
      BY DEF SubscriptionInv
    <2> QED  BY <1>1, <1>3, <2>1, <2>2, <2>3
  <1>7. DeliveryInv'
    <2> SUFFICES ASSUME NEW s \in Stream, pc[s] \in {"initial", "open"}, ~missed'[s],
                        NEW v \in since[s] + 1 .. status
                 PROVE  OnItsWay(s, v)'
      BY DEF DeliveryInv
    <2>1. ~missed[s] /\ s \notin Missing
      BY <1>3
    <2>2. OnItsWay(s, v)
      BY <2>1 DEF DeliveryInv
    <2>3. reg[s] /\ s \notin Slow(g)
      BY <2>1 DEF SubscriptionInv
    <2>4. CASE v = outbox \/ v \in Elements(channel[gw[s]])
      <3>1. v = outbox' \/ v \in Elements(channel'[gw[s]]) \/ (v = ev /\ gw[s] = g)
        BY <2>1, <2>4
      <3>2. v = ev /\ gw[s] = g => v \in Elements(buf'[s])
        BY <2>3, <1>1
      <3> QED  BY <3>1, <3>2 DEF OnItsWay
    <2>5. CASE v \in Elements(buf[s]) \/ v \in seen[s]
      BY <2>5, <1>1 DEF OnItsWay
    <2> QED  BY <2>2, <2>4, <2>5 DEF OnItsWay
  <1> QED  BY <1>4, <1>5, <1>6, <1>7

\* A gateway hands the head of its channel on.
LEMMA HandleMessageKeepsInv == ASSUME NEW g \in Gateway PROVE EventsInv /\ HandleMessage(g) => EventsInv'
  <1> SUFFICES ASSUME EventsInv, HandleMessage(g) PROVE EventsInv'
    OBVIOUS
  <1>1. channel \in [Gateway -> Seq(0 .. Final)] /\ channel[g] \in Seq(0 .. Final) /\ channel[g] # <<>>
    BY DEF EventsInv, TypeOK, HandleMessage
  <1>2. /\ Head(channel[g]) \in 0 .. Final /\ Tail(channel[g]) \in Seq(0 .. Final)
        /\ Elements(channel[g]) = Elements(Tail(channel[g])) \union {Head(channel[g])}
    BY <1>1, TailElements
  <1>3. channel' = [channel EXCEPT ![g] = Tail(@)]
    BY DEF HandleMessage
  <1>4. channel' \in [Gateway -> Seq(0 .. Final)]
    BY <1>1, <1>2, <1>3
  <1>5. \A h \in Gateway : /\ h # g => channel'[h] = channel[h]
                           /\ h = g => channel'[h] = Tail(channel[g])
    BY <1>1, <1>3
  <1>6. Head(channel[g]) = Final => status = Final
    BY <1>2 DEF EventsInv, EndInv
  <1>7. \A s \in Stream : pc[s] \in {"initial", "open"} => gw[s] \in Gateway
    BY DEF EventsInv, SubscriptionInv
  <1>8. /\ NotOverrun(g) /\ publishLocal(g, Head(channel[g])) /\ Miss(Slow(g))
        /\ UNCHANGED <<status, listening, streamVars>> /\ outbox' = outbox /\ faults' = faults
    BY DEF HandleMessage
  <1>9. \A h \in Gateway : Elements(channel'[h]) \subseteq Elements(channel[h]) \union {Head(channel[g])}
    BY <1>2, <1>5
  <1>10. \A s \in Stream : pc[s] \in {"initial", "open"} =>
             \A v : v \in Elements(channel[gw[s]]) =>
                 v \in Elements(channel'[gw[s]]) \/ (v = Head(channel[g]) /\ gw[s] = g)
    BY <1>2, <1>5, <1>7
  <1>11. faults' \in 0 .. MaxFaults
    BY <1>8 DEF EventsInv, TypeOK
  <1> DEFINE ev == Head(channel[g])
           Missing == Slow(g)
  <1>12. ev \in 0 .. Final /\ (ev = Final => status = Final) /\ publishLocal(g, ev)
    BY <1>2, <1>6, <1>8
  <1>13. \A h \in Gateway : Elements(channel'[h]) \subseteq Elements(channel[h]) \union {ev}
    BY <1>9
  <1>14. \A s \in Stream : pc[s] \in {"initial", "open"} /\ s \notin Missing =>
             \A v : v = outbox \/ v \in Elements(channel[gw[s]]) =>
                 v = outbox' \/ v \in Elements(channel'[gw[s]]) \/ (v = ev /\ gw[s] = g)
    BY <1>8, <1>10
  <1>15. Miss(Missing) /\ Slow(g) \subseteq Missing /\ outbox' \in {outbox, None}
    BY <1>8
  <1> HIDE DEF ev, Missing
  <1> QED  BY <1>4, <1>8, <1>11, <1>12, <1>13, <1>14, <1>15, LocalDeliveryKeepsInv

\* What a publication does to the channels.
LEMMA ChannelDelivery ==
    ASSUME EventsInv, outbox # None,
           channel' = [h \in Gateway |-> IF h \in listening
                                         THEN Append(channel[h], outbox) ELSE channel[h]]
    PROVE  /\ outbox \in 0 .. Final
           /\ channel' \in [Gateway -> Seq(0 .. Final)]
           /\ \A h \in Gateway : /\ Elements(channel[h]) \subseteq Elements(channel'[h])
                                 /\ Elements(channel'[h]) \subseteq Elements(channel[h]) \union {outbox}
                                 /\ h \in listening => outbox \in Elements(channel'[h])
  <1>1. outbox \in 0 .. Final /\ \A h \in Gateway : channel[h] \in Seq(0 .. Final)
    BY DEF EventsInv, TypeOK
  <1>2. ASSUME NEW h \in Gateway
        PROVE  /\ Append(channel[h], outbox) \in Seq(0 .. Final)
               /\ Elements(Append(channel[h], outbox)) = Elements(channel[h]) \union {outbox}
    <2> DEFINE q == channel[h]
               S == 0 .. Final
    <2>1. q \in Seq(S) /\ outbox \in S
      BY <1>1
    <2> HIDE DEF q, S
    <2>2. Append(q, outbox) \in Seq(S) /\ Elements(Append(q, outbox)) = Elements(q) \union {outbox}
      BY <2>1, AppendElements
    <2> QED  BY <2>2 DEF q, S
  <1> QED  BY <1>1, <1>2

LEMMA PublishKeepsInv == ASSUME NEW g \in Gateway PROVE EventsInv /\ publish(g) => EventsInv'
  <1> SUFFICES ASSUME EventsInv, publish(g) PROVE EventsInv'
    OBVIOUS
  <1>1. /\ outbox # None /\ outbox' = None /\ UNCHANGED <<status, listening, streamVars>>
        /\ outbox \in 0 .. Final /\ (outbox = Final => status = Final)
        /\ channel \in [Gateway -> Seq(0 .. Final)]
    BY DEF publish, EventsInv, TypeOK, EndInv
  <1>2. \A s \in Stream : pc[s] \in {"initial", "open"} => gw[s] \in Gateway
    BY DEF EventsInv, SubscriptionInv
  <1>3. faults \in 0 .. MaxFaults /\ (Fault => faults' \in 0 .. MaxFaults)
    BY Numbers DEF EventsInv, TypeOK, Fault
  <1> DEFINE Broadcast == channel' = [h \in Gateway |-> IF h \in listening
                                                        THEN Append(channel[h], outbox) ELSE channel[h]]
  <1>4. CASE /\ Broadcast /\ Miss(At(Gateway \ listening)) /\ UNCHANGED <<reg, buf, faults>>
    <2> USE DEF streamVars
    <2>1. /\ channel' \in [Gateway -> Seq(0 .. Final)]
          /\ \A h \in Gateway : /\ Elements(channel[h]) \subseteq Elements(channel'[h])
                                /\ Elements(channel'[h]) \subseteq Elements(channel[h]) \union {outbox}
                                /\ h \in listening => outbox \in Elements(channel'[h])
      BY <1>1, <1>4, ChannelDelivery
    <2>2. missed' \in [Stream -> BOOLEAN]
      BY <1>4 DEF Miss
    <2>3. \A s \in Stream : missed'[s] <=> missed[s] \/ s \in At(Gateway \ listening)
      BY <1>4 DEF Miss
    <2>4. TypeOK'
      BY <1>1, <1>4, <2>1, <2>2 DEF EventsInv, TypeOK
    <2>5. EndInv'
      <3>1. CASE status = Final
        BY <3>1, <1>1 DEF EndInv
      <3>2. CASE status # Final
        <4>1. \A h \in Gateway : Final \notin Elements(channel'[h])
          BY <3>2, <1>1, <2>1 DEF EventsInv, EndInv
        <4>2. None # Final
          BY Numbers
        <4> QED  BY <3>2, <4>1, <4>2, <1>1, <1>4 DEF EventsInv, EndInv
      <3> QED  BY <3>1, <3>2
    <2>6. SubscriptionInv'
      BY <1>1, <1>4, <2>3 DEF EventsInv, SubscriptionInv
    <2>7. DeliveryInv'
      <3> SUFFICES ASSUME NEW s \in Stream, pc[s] \in {"initial", "open"}, ~missed'[s],
                          NEW v \in since[s] + 1 .. status
                   PROVE  OnItsWay(s, v)'
        BY <1>1 DEF DeliveryInv
      <3>1. ~missed[s] /\ gw[s] \in Gateway /\ gw[s] \in listening
        BY <1>2, <2>3 DEF At
      <3>2. OnItsWay(s, v)
        BY <3>1 DEF EventsInv, DeliveryInv
      <3> QED  BY <3>1, <3>2, <2>1, <1>1, <1>4 DEF OnItsWay
    <2> QED  BY <2>4, <2>5, <2>6, <2>7 DEF EventsInv
  <1>5. CASE /\ NotOverrun(g) /\ publishLocal(g, outbox) /\ Miss(At(Gateway \ {g}) \union Slow(g))
             /\ faults' \in 0 .. MaxFaults
             /\ Broadcast \/ UNCHANGED channel
    <2> DEFINE ev == outbox
               Missing == At(Gateway \ {g}) \union Slow(g)
    <2>1. /\ channel' \in [Gateway -> Seq(0 .. Final)]
          /\ \A h \in Gateway : /\ Elements(channel[h]) \subseteq Elements(channel'[h])
                                /\ Elements(channel'[h]) \subseteq Elements(channel[h]) \union {outbox}
      <3>1. CASE Broadcast
        BY <1>1, <3>1, ChannelDelivery
      <3>2. CASE UNCHANGED channel
        BY <1>1, <3>2
      <3> QED  BY <1>5, <3>1, <3>2
    <2>2. \A s \in Stream : pc[s] \in {"initial", "open"} /\ s \notin Missing => gw[s] = g
      BY <1>2 DEF At
    <2>3. \A h \in Gateway : Elements(channel'[h]) \subseteq Elements(channel[h]) \union {ev}
      BY <2>1
    <2>4. \A s \in Stream : pc[s] \in {"initial", "open"} /\ s \notin Missing =>
             \A v : v = outbox \/ v \in Elements(channel[gw[s]]) =>
                 v = outbox' \/ v \in Elements(channel'[gw[s]]) \/ (v = ev /\ gw[s] = g)
      <3> SUFFICES ASSUME NEW s \in Stream, pc[s] \in {"initial", "open"}, s \notin Missing,
                          NEW v, v = outbox \/ v \in Elements(channel[gw[s]])
                   PROVE  v = outbox' \/ v \in Elements(channel'[gw[s]]) \/ (v = ev /\ gw[s] = g)
        OBVIOUS
      <3> QED  BY <2>1, <2>2
    <2>5. Miss(Missing) /\ Slow(g) \subseteq Missing /\ publishLocal(g, ev) /\ NotOverrun(g)
      BY <1>5
    <2>6. ev \in 0 .. Final /\ (ev = Final => status = Final)
      BY <1>1
    <2>7. outbox' \in {outbox, None} /\ faults' \in 0 .. MaxFaults
      BY <1>1, <1>5
    <2> HIDE DEF ev, Missing
    <2> QED  BY <1>1, <2>1, <2>3, <2>4, <2>5, <2>6, <2>7, LocalDeliveryKeepsInv
  <1>6. \/ Broadcast /\ Miss(At(Gateway \ listening)) /\ UNCHANGED <<reg, buf, faults>>
        \/ /\ NotOverrun(g) /\ publishLocal(g, outbox) /\ Miss(At(Gateway \ {g}) \union Slow(g))
           /\ faults' \in 0 .. MaxFaults
           /\ Broadcast \/ UNCHANGED channel
    BY <1>3 DEF publish
  <1> QED  BY <1>4, <1>5, <1>6

\* Losing messages only marks the streams they were meant for.
LEMMA LossKeepsInv ==
    ASSUME EventsInv,
           \/ AgentPublishFails
           \/ \E g \in Gateway : Disconnected(g) \/ Reconnected(g)
    PROVE  EventsInv'
  <1> USE DEF streamVars, hubVars, channelVars
  <1>1. CASE AgentPublishFails
    <2>1. missed' \in [Stream -> BOOLEAN] /\ \A s \in Stream : missed'[s]
      BY <1>1 DEF AgentPublishFails, Miss
    <2>2. TypeOK'
      BY <1>1, <2>1, Numbers DEF EventsInv, TypeOK, AgentPublishFails, Fault
    <2>3. EndInv'
      BY <1>1, Numbers DEF EventsInv, EndInv, AgentPublishFails
    <2>4. SubscriptionInv'
      BY <1>1, <2>1 DEF EventsInv, SubscriptionInv, AgentPublishFails
    <2>5. DeliveryInv'
      BY <2>1 DEF DeliveryInv
    <2> QED  BY <2>2, <2>3, <2>4, <2>5 DEF EventsInv
  <1>2. ASSUME NEW g \in Gateway, Disconnected(g) PROVE EventsInv'
    <2>1. /\ missed' \in [Stream -> BOOLEAN]
          /\ \A s \in Stream : missed'[s] <=> missed[s] \/ gw[s] = g
      BY <1>2 DEF Disconnected, Miss, At
    <2>2. /\ channel' \in [Gateway -> Seq(0 .. Final)]
          /\ channel'[g] = <<>> /\ \A h \in Gateway : h # g => channel'[h] = channel[h]
      BY <1>2 DEF Disconnected, EventsInv, TypeOK
    <2>3. TypeOK'
      BY <1>2, <2>1, <2>2, Numbers DEF EventsInv, TypeOK, Disconnected, Fault
    <2>4. EndInv'
      <3>1. \A h \in Gateway : Final \in Elements(channel'[h]) => status = Final
        BY <2>2, NoElements DEF EventsInv, EndInv
      <3> QED  BY <1>2, <3>1 DEF EventsInv, EndInv, Disconnected
    <2>5. SubscriptionInv'
      BY <1>2, <2>1 DEF EventsInv, SubscriptionInv, Disconnected
    <2>6. DeliveryInv'
      <3> SUFFICES ASSUME NEW s \in Stream, pc[s] \in {"initial", "open"}, ~missed'[s],
                          NEW v \in since[s] + 1 .. status
                   PROVE  OnItsWay(s, v)'
        BY <1>2 DEF DeliveryInv, Disconnected
      <3>1. ~missed[s] /\ gw[s] # g /\ gw[s] \in Gateway
        BY <2>1 DEF EventsInv, SubscriptionInv
      <3>2. OnItsWay(s, v) /\ channel'[gw[s]] = channel[gw[s]]
        BY <3>1, <2>2 DEF EventsInv, DeliveryInv
      <3> QED  BY <1>2, <3>2 DEF OnItsWay, Disconnected
    <2> QED  BY <2>3, <2>4, <2>5, <2>6 DEF EventsInv
  <1>3. ASSUME NEW g \in Gateway, Reconnected(g) PROVE EventsInv'
    <2>1. TypeOK'
      BY <1>3 DEF EventsInv, TypeOK, Reconnected
    <2>2. EndInv' /\ SubscriptionInv'
      BY <1>3 DEF EventsInv, EndInv, SubscriptionInv, Reconnected
    <2>3. DeliveryInv'
      BY <1>3 DEF EventsInv, DeliveryInv, OnItsWay, Reconnected
    <2> QED  BY <2>1, <2>2, <2>3 DEF EventsInv
  <1> QED  BY <1>1, <1>2, <1>3

\* Steps of a stream that touch neither the task nor the channels change only their own entries.
LEMMA StreamKeepsInv ==
    ASSUME EventsInv, NEW s \in Stream,
           UNCHANGED <<status, outbox, channelVars>>,
           TypeOK',
           \A t \in Stream : t # s =>
               /\ pc'[t] = pc[t] /\ gw'[t] = gw[t] /\ initial'[t] = initial[t] /\ reg'[t] = reg[t]
               /\ buf'[t] = buf[t] /\ seen'[t] = seen[t] /\ since'[t] = since[t]
               /\ missed'[t] = missed[t],
           \/ status = Final
           \/ initial'[s] # Final /\ Final \notin Elements(buf'[s]) /\ Final \notin seen'[s],
           pc'[s] \notin {"initial", "open"} => ~reg'[s] /\ buf'[s] = <<>>,
           pc'[s] = "initial" => Len(buf'[s]) < Buffer,
           pc'[s] # "off" /\ pc'[s] # "stopped" => gw'[s] \in Gateway,
           pc'[s] \in {"initial", "open"} => reg'[s] \/ missed'[s],
           pc'[s] \in {"initial", "open"} /\ ~missed'[s] =>
               \A v \in since'[s] + 1 .. status :
                   v = outbox \/ v \in Elements(channel[gw'[s]]) \/ v \in Elements(buf'[s])
                     \/ v \in seen'[s]
    PROVE  EventsInv'
  <1> USE DEF channelVars
  <1>1. EndInv'
    BY DEF EventsInv, EndInv
  <1>2. SubscriptionInv'
    <2> SUFFICES ASSUME NEW t \in Stream, t # s
                 PROVE  /\ pc[t] \notin {"initial", "open"} => ~reg[t] /\ buf[t] = <<>>
                        /\ pc[t] = "initial" => Len(buf[t]) < Buffer
                        /\ pc[t] # "off" /\ pc[t] # "stopped" => gw[t] \in Gateway
                        /\ pc[t] \in {"initial", "open"} => reg[t] \/ missed[t]
      BY DEF SubscriptionInv
    <2> QED  BY DEF EventsInv, SubscriptionInv
  <1>3. DeliveryInv'
    <2> SUFFICES ASSUME NEW t \in Stream, (pc[t] \in {"initial", "open"} /\ ~missed[t])',
                        NEW v \in (since[t] + 1 .. status)'
                 PROVE  OnItsWay(t, v)'
      BY DEF DeliveryInv
    <2>1. CASE t = s
      BY <2>1 DEF OnItsWay
    <2>2. CASE t # s
      <3>1. OnItsWay(t, v)
        BY <2>2 DEF EventsInv, DeliveryInv
      <3> QED  BY <2>2, <3>1 DEF OnItsWay
    <2> QED  BY <2>1, <2>2
  <1> QED  BY <1>1, <1>2, <1>3 DEF EventsInv

\* Closing a subscription empties its buffer.
LEMMA UnregisterTypes ==
    ASSUME TypeOK, NEW s \in Stream, Unregister(s)
    PROVE  /\ reg' \in [Stream -> BOOLEAN] /\ missed' \in [Stream -> BOOLEAN]
           /\ buf' \in [Stream -> Seq(0 .. Final)]
           /\ \A t \in Stream : Len(buf'[t]) <= Buffer
  <1>1. reg' \in [Stream -> BOOLEAN] /\ missed' \in [Stream -> BOOLEAN]
    BY DEF Unregister, TypeOK
  <1>2. buf' \in [Stream -> Seq(0 .. Final)]
    BY DEF Unregister, TypeOK
  <1>3. buf'[s] = <<>> /\ \A t \in Stream : t # s => buf'[t] = buf[t]
    BY DEF Unregister, TypeOK
  <1>4. Len(<<>>) <= Buffer
    BY Numbers
  <1>5. \A t \in Stream : Len(buf[t]) <= Buffer
    BY DEF TypeOK
  <1> QED  BY <1>1, <1>2, <1>3, <1>4, <1>5

LEMMA WatchKeepsInv == ASSUME NEW s \in Stream PROVE EventsInv /\ Watch(s) => EventsInv'
  <1> SUFFICES ASSUME EventsInv, Watch(s) PROVE EventsInv'
    OBVIOUS
  <1> USE DEF hubVars
  <1>1. /\ TypeOK /\ buf[s] \in Seq(0 .. Final) /\ initial[s] \in 0 .. Final /\ status \in 0 .. Final
        /\ status = Final \/ (initial[s] # Final /\ Final \notin Elements(buf[s]) /\ Final \notin seen[s])
        /\ pc[s] \notin {"initial", "open"} => ~reg[s] /\ buf[s] = <<>>
        /\ pc[s] = "initial" => Len(buf[s]) < Buffer
        /\ pc[s] # "off" /\ pc[s] # "stopped" => gw[s] \in Gateway
        /\ pc[s] \in {"initial", "open"} => reg[s] \/ missed[s]
        /\ pc[s] \in {"initial", "open"} /\ ~missed[s] =>
              \A v \in since[s] + 1 .. status :
                  v = outbox \/ v \in Elements(channel[gw[s]]) \/ v \in Elements(buf[s]) \/ v \in seen[s]
    BY DEF EventsInv, TypeOK, EndInv, SubscriptionInv, DeliveryInv, OnItsWay
  <1>2. CASE ReadStatus(s)
    <2>1. PICK g \in Gateway : gw' = [gw EXCEPT ![s] = g]
      BY <1>2 DEF ReadStatus
    <2>2. TypeOK'
      BY <1>1, <1>2, <2>1 DEF TypeOK, ReadStatus, Goto, channelVars
    <2>3. /\ pc'[s] = "subscribe" /\ gw'[s] = g /\ initial'[s] = status /\ seen'[s] = {}
          /\ reg'[s] = reg[s] /\ buf'[s] = buf[s]
      BY <1>2, <2>1 DEF ReadStatus, Goto, TypeOK, EventsInv
    <2>4. ~reg[s] /\ buf[s] = <<>>
      BY <1>1, <1>2 DEF ReadStatus
    <2>5. \A t \in Stream : t # s =>
               /\ pc'[t] = pc[t] /\ gw'[t] = gw[t] /\ initial'[t] = initial[t] /\ reg'[t] = reg[t]
               /\ buf'[t] = buf[t] /\ seen'[t] = seen[t] /\ since'[t] = since[t]
               /\ missed'[t] = missed[t]
      BY <1>1, <1>2, <2>1 DEF ReadStatus, Goto, TypeOK
    <2>6. UNCHANGED <<status, outbox, channelVars>>
      BY <1>2 DEF ReadStatus
    <2> QED  BY <2>2, <2>3, <2>4, <2>5, <2>6, NoElements, StreamKeepsInv
  <1>3. CASE Subscribe(s)
    <2>1. TypeOK'
      BY <1>1, <1>3 DEF TypeOK, Subscribe, Goto, channelVars
    <2>2. /\ pc'[s] = "initial" /\ gw'[s] = gw[s] /\ initial'[s] = initial[s] /\ seen'[s] = seen[s]
          /\ reg'[s] /\ buf'[s] = buf[s] /\ since'[s] = status
      BY <1>1, <1>3 DEF Subscribe, Goto, TypeOK
    <2>3. buf[s] = <<>> /\ gw[s] \in Gateway /\ Len(buf[s]) < Buffer
      BY <1>1, <1>3, Numbers DEF Subscribe
    <2>4. \A t \in Stream : t # s =>
               /\ pc'[t] = pc[t] /\ gw'[t] = gw[t] /\ initial'[t] = initial[t] /\ reg'[t] = reg[t]
               /\ buf'[t] = buf[t] /\ seen'[t] = seen[t] /\ since'[t] = since[t]
               /\ missed'[t] = missed[t]
      BY <1>1, <1>3 DEF Subscribe, Goto, TypeOK
    <2>5. UNCHANGED <<status, outbox, channelVars>>
      BY <1>3 DEF Subscribe
    <2>6. \A v : v \notin since'[s] + 1 .. status
      BY <2>2, <1>1, Numbers
    <2> QED  BY <1>1, <2>1, <2>2, <2>3, <2>4, <2>5, <2>6, StreamKeepsInv
  <1>4. CASE QueueInitial(s)
    <2>1. /\ Append(buf[s], initial[s]) \in Seq(0 .. Final)
          /\ Elements(Append(buf[s], initial[s])) = Elements(buf[s]) \union {initial[s]}
          /\ Len(Append(buf[s], initial[s])) = Len(buf[s]) + 1
      BY <1>1, AppendElements
    <2>2. /\ pc'[s] = "open" /\ gw'[s] = gw[s] /\ initial'[s] = initial[s] /\ seen'[s] = seen[s]
          /\ reg'[s] = reg[s] /\ missed'[s] = missed[s] /\ since'[s] = since[s]
          /\ buf'[s] = Append(buf[s], initial[s]) /\ pc[s] = "initial"
      BY <1>1, <1>4 DEF QueueInitial, Goto, TypeOK
    <2>3. Len(buf[s]) < Buffer /\ Len(buf[s]) \in Nat
      BY <1>1, <2>2
    <2>4. \A t \in Stream : t # s =>
               /\ pc'[t] = pc[t] /\ gw'[t] = gw[t] /\ initial'[t] = initial[t] /\ reg'[t] = reg[t]
               /\ buf'[t] = buf[t] /\ seen'[t] = seen[t] /\ since'[t] = since[t]
               /\ missed'[t] = missed[t]
      BY <1>1, <1>4 DEF QueueInitial, Goto, TypeOK
    <2>5. UNCHANGED <<status, outbox, channelVars>>
      BY <1>4 DEF QueueInitial
    <2>6. Len(buf'[s]) <= Buffer
      BY <2>1, <2>2, <2>3, Numbers
    <2>7. buf' \in [Stream -> Seq(0 .. Final)] /\ \A t \in Stream : Len(buf'[t]) <= Buffer
      BY <1>1, <1>4, <2>1, <2>4, <2>6 DEF QueueInitial, TypeOK
    <2>8. TypeOK'
      BY <1>1, <1>4, <2>7 DEF TypeOK, QueueInitial, Goto, channelVars
    <2> QED  BY <1>1, <2>1, <2>2, <2>4, <2>5, <2>8, StreamKeepsInv
  <1>5. CASE Push(s)
    <2>1. pc[s] = "open" /\ buf[s] # <<>>
      BY <1>5 DEF Push
    <2>2. /\ Head(buf[s]) \in 0 .. Final /\ Tail(buf[s]) \in Seq(0 .. Final)
          /\ Elements(buf[s]) = Elements(Tail(buf[s])) \union {Head(buf[s])}
          /\ Len(Tail(buf[s])) = Len(buf[s]) - 1
      BY <1>1, <2>1, TailElements
    <2>3. /\ gw'[s] = gw[s] /\ initial'[s] = initial[s] /\ since'[s] = since[s]
          /\ seen'[s] = seen[s] \union {Head(buf[s])}
          /\ UNCHANGED <<status, outbox, channelVars>>
      BY <1>1, <1>5 DEF Push, TypeOK
    <2>4. \A t \in Stream : t # s =>
               /\ pc'[t] = pc[t] /\ gw'[t] = gw[t] /\ initial'[t] = initial[t] /\ reg'[t] = reg[t]
               /\ buf'[t] = buf[t] /\ seen'[t] = seen[t] /\ since'[t] = since[t]
               /\ missed'[t] = missed[t]
      BY <1>1, <1>5 DEF Push, Goto, Unregister, TypeOK
    <2>5. seen' \in [Stream -> SUBSET (0 .. Final)]
      BY <1>1, <1>5, <2>2 DEF Push, TypeOK
    <2>6. status = Final \/ Final \notin seen'[s]
      BY <1>1, <2>2, <2>3
    <2>7. CASE Head(buf[s]) = Final
      <3>1. pc'[s] = "done" /\ ~reg'[s] /\ buf'[s] = <<>>
        BY <1>1, <1>5, <2>7 DEF Push, Goto, Unregister, TypeOK
      <3>2. TypeOK'
        BY <1>1, <1>5, <2>5, <2>7, UnregisterTypes DEF Push, Goto, TypeOK, channelVars
      <3>3. gw'[s] \in Gateway
        BY <1>1, <2>1, <2>3
      <3>4. \/ status = Final
            \/ initial'[s] # Final /\ Final \notin Elements(buf'[s]) /\ Final \notin seen'[s]
        BY <1>1, <2>3, <2>6, <3>1, NoElements
      <3> QED  BY <2>3, <2>4, <3>1, <3>2, <3>3, <3>4, StreamKeepsInv
    <2>8. CASE Head(buf[s]) # Final
      <3>1. pc'[s] = "open" /\ reg'[s] = reg[s] /\ missed'[s] = missed[s] /\ buf'[s] = Tail(buf[s])
        BY <1>1, <1>5, <2>1, <2>8 DEF Push, TypeOK
      <3>2. Len(buf'[s]) <= Buffer
        BY <1>1, <2>2, <3>1, Numbers DEF TypeOK
      <3>3. buf' \in [Stream -> Seq(0 .. Final)] /\ \A t \in Stream : Len(buf'[t]) <= Buffer
        <4>1. buf' = [buf EXCEPT ![s] = Tail(@)]
          BY <1>5, <2>8 DEF Push
        <4>2. buf' \in [Stream -> Seq(0 .. Final)]
          BY <1>1, <2>2, <4>1 DEF TypeOK
        <4>3. \A t \in Stream : Len(buf[t]) <= Buffer
          BY <1>1 DEF TypeOK
        <4> QED  BY <2>4, <3>2, <4>2, <4>3
      <3>4. TypeOK'
        BY <1>1, <1>5, <2>5, <2>8, <3>3 DEF Push, TypeOK, channelVars
      <3>5. \/ status = Final
            \/ initial'[s] # Final /\ Final \notin Elements(buf'[s]) /\ Final \notin seen'[s]
        BY <1>1, <2>2, <2>3, <2>6, <3>1
      <3>6. ~missed'[s] =>
               \A v \in since'[s] + 1 .. status :
                   v = outbox \/ v \in Elements(channel[gw'[s]]) \/ v \in Elements(buf'[s])
                     \/ v \in seen'[s]
        BY <1>1, <2>1, <2>2, <2>3, <3>1
      <3>7. gw'[s] \in Gateway /\ (reg'[s] \/ missed'[s])
        BY <1>1, <2>1, <2>3, <3>1
      <3> QED  BY <2>3, <2>4, <3>1, <3>4, <3>5, <3>6, <3>7, StreamKeepsInv
    <2> QED  BY <2>7, <2>8
  <1>6. CASE Timeout(s) \/ Disconnect(s) \/ Stop(s)
    <2>1. /\ pc' = [pc EXCEPT ![s] = "off"] \/ pc' = [pc EXCEPT ![s] = "stopped"]
          /\ Unregister(s)
          /\ UNCHANGED <<status, outbox, channelVars, gw, initial, seen, since>>
      BY <1>6 DEF Timeout, Disconnect, Stop, Goto
    <2>2. faults' \in 0 .. MaxFaults
      BY <1>1, <1>6, Numbers DEF Timeout, Disconnect, Stop, Fault, TypeOK
    <2>3. pc'[s] \in {"off", "stopped"} /\ ~reg'[s] /\ buf'[s] = <<>>
      BY <1>1, <2>1 DEF Unregister, TypeOK
    <2>4. TypeOK'
      BY <1>1, <2>1, <2>2, UnregisterTypes DEF TypeOK, channelVars
    <2>5. \A t \in Stream : t # s =>
               /\ pc'[t] = pc[t] /\ gw'[t] = gw[t] /\ initial'[t] = initial[t] /\ reg'[t] = reg[t]
               /\ buf'[t] = buf[t] /\ seen'[t] = seen[t] /\ since'[t] = since[t]
               /\ missed'[t] = missed[t]
      BY <1>1, <2>1 DEF Unregister, TypeOK
    <2>6. \/ status = Final
          \/ initial'[s] # Final /\ Final \notin Elements(buf'[s]) /\ Final \notin seen'[s]
      BY <1>1, <2>1, <2>3, NoElements
    <2> QED  BY <2>1, <2>3, <2>4, <2>5, <2>6, StreamKeepsInv
  <1> QED  BY <1>2, <1>3, <1>4, <1>5, <1>6 DEF Watch

LEMMA StutterKeepsInv == EventsInv /\ UNCHANGED vars => EventsInv'
  BY DEF EventsInv, TypeOK, EndInv, SubscriptionInv, DeliveryInv, OnItsWay, vars, channelVars, hubVars,
         streamVars

\* The whole invariant holds in every reachable state.
LEMMA EventsInvariant == Spec => []EventsInv
  <1>1. EventsInv /\ [Next]_vars => EventsInv'
    BY RecordKeepsInv, PublishKeepsInv, LossKeepsInv, HandleMessageKeepsInv, WatchKeepsInv,
       StutterKeepsInv DEF Next, Events
  <1> QED  BY <1>1, InitiallyEventsInv, PTL DEF Spec

\* Types, and the subscription buffer: publishLocal never overfills it.
THEOREM EventsTypeCorrect == Spec => []TypeOK
  <1>1. EventsInv => TypeOK
    BY DEF EventsInv
  <1> QED  BY <1>1, EventsInvariant, PTL

\* No terminal event overtakes the status it reports.
THEOREM TerminalEventsAreTrue == Spec => []EndIsTrue
  <1>1. EventsInv => EndIsTrue
    BY DEF EventsInv, EndInv, EndIsTrue
  <1> QED  BY <1>1, EventsInvariant, PTL

\* A registered subscription gets every later event, unless Redis or a full buffer lost one.
THEOREM SubscriptionsMissNothing == Spec => []NothingMissedSinceSubscribe
  <1>1. EventsInv => NothingMissedSinceSubscribe
    <2> SUFFICES ASSUME EventsInv, NEW s \in Stream, pc[s] = "open", Quiet(gw[s]), ~missed[s],
                        status > since[s]
                 PROVE  Told(s, status)
      BY DEF NothingMissedSinceSubscribe
    <2>1. status \in since[s] + 1 .. status /\ status # None
      BY Numbers DEF EventsInv, TypeOK
    <2>2. OnItsWay(s, status)
      BY <2>1 DEF EventsInv, DeliveryInv
    <2>3. status # outbox /\ status \notin Elements(channel[gw[s]])
      BY <2>1, NoElements DEF Quiet
    <2> QED  BY <2>2, <2>3 DEF OnItsWay, Told, Elements
  <1> QED  BY <1>1, EventsInvariant, PTL
=============================================================================
