---------------------------- MODULE LinkDownload ----------------------------
(***************************************************************************)
(* Fetching the video behind a link into a temporary file (ytdlp/ytdlp.go, *)
(* ytdlp/bilibili.go): one connection that resumes (fetchFile), or ranges  *)
(* fetched by several goroutines (fetchChunks, fetchRange), both of which  *)
(* move on to other mirrors.                                               *)
(*                                                                         *)
(* Lengths are counted in units.  A mirror answers what it likes, drops a  *)
(* connection anywhere or closes it early, but a 206 carries the bytes     *)
(* that were asked for.  The caller may go away and the deadline of the    *)
(* download may pass at any time.                                          *)
(***************************************************************************)
EXTENDS Integers, Sequences, FiniteSets

CONSTANTS Worker,              \* the goroutines of fetchChunks
          Lengths,             \* how long the video may be
          ChunkSize, MaxDownload,
          Mirrors,             \* how many URLs BilibiliMirrors lists
          RangeStalls, FileStalls  \* 3 and 5 in the code

ASSUME DownloadAssumption ==
  /\ Lengths \subseteq Nat \ {0} /\ {ChunkSize, MaxDownload, Mirrors, RangeStalls} \subseteq Nat \ {0}
  /\ FileStalls \in Nat \ {0, 1} /\ IsFiniteSet(Worker)

VARIABLES at,         \* where Download is; "ended" when it has returned
          length,     \* the video's length
          size,       \* the length playurl announced, 0 if unknown
          data,       \* the temporary file, a unit is a "hole", "right" or "wrong"
          temp,       \* "none", "there", "removed"
          link,       \* fetchFile's loop: bytes so far, mirror, stalls, how the latest transfer went
          next,       \* the start of the next range to hand out
          range,      \* each worker: its step, position, end, mirror, stalls
          errs,       \* the channel of errors
          gone, late, stopped,  \* the caller went away, the deadline passed, cancel was called
          outcome     \* what Download returns

downloadVars == <<at, length, size, data, temp, link, next, range, errs, gone, late, stopped, outcome>>
file == <<data, temp>>
env == <<gone, late, stopped>>

Offset == 0 .. MaxDownload
NoRange == [st |-> "idle", pos |-> 0, end |-> 0, mirror |-> 1, stalls |-> 0, err |-> "none"]

DownloadInit ==
  /\ at = "validate" /\ length \in Lengths /\ size = 0
  /\ data = [o \in Offset |-> "hole"] /\ temp = "none"
  /\ link = [n |-> 0, mirror |-> 1, stalls |-> 0, before |-> 0, err |-> FALSE]
  /\ next = 0 /\ range = [w \in Worker |-> NoRange] /\ errs = <<>>
  /\ gone = FALSE /\ late = FALSE /\ stopped = FALSE /\ outcome = "none"

\* cctx.Err(): what the workers and the requests see.
Dead == gone \/ late \/ stopped
ContextError == IF gone THEN "caller gone" ELSE IF late THEN "deadline" ELSE "stopped"

Min2(a, b) == IF a < b THEN a ELSE b

\* Download returns; an error removes the temporary file where there is one.
Finish(result) == /\ at' = "ended" /\ outcome' = result
                  /\ temp' = IF result # "ok" /\ temp = "there" THEN "removed" ELSE temp

----------------------------------------------------------------------------
(* Which way to download                                                   *)

Before == UNCHANGED <<length, data, link, next, range, errs, env>>
Refuse(reason) == Finish(reason) /\ UNCHANGED size
To(step) == at' = step /\ UNCHANGED <<size, temp, outcome>>

\* ValidatePublicHTTPURL, and where Download sends the link.
ValidatePublicHTTPURL == /\ at = "validate" /\ Before
                         /\ \/ \E reason \in {"invalid argument", "internal"} : Refuse(reason)
                            \/ \E step \in {"ytdlp", "short", "target"} : To(step)

\* Classify: what yt-dlp's log is taken for.
Classify == {"too large", "blocked", "unsupported", "timed out", "internal"}

\* runYtDlp: one process, killed at the deadline or when the caller goes away; it may leave a part of a file.
runYtDlp == /\ at = "ytdlp" /\ UNCHANGED <<length, size, link, next, range, errs, env>>
            /\ at' = "ended"
            /\ \/ /\ ~Dead /\ outcome' = "ok" /\ temp' = "there"
                  /\ data' = [o \in Offset |-> IF o < length THEN "right" ELSE "hole"]
               \/ /\ outcome' \in IF late THEN {"timeout"} ELSE Classify
                  /\ temp' = "removed" /\ UNCHANGED data

\* resolveShortLink: one hop, to a video page.
resolveShortLink == /\ at = "short" /\ Before
                    /\ \/ ~Dead /\ To("target")
                       \/ Refuse("timed out") \/ Refuse("unsupported")

\* BilibiliTarget: a link that is not a video page is refused.
BilibiliTarget == at = "target" /\ Before /\ (To("pages") \/ Refuse("unsupported"))

\* biliGet: the API cannot be reached, refuses, or answers what cannot be read.
biliGet == \E reason \in {"timed out", "blocked", "internal"} : Refuse(reason)

\* pagelist; the title is asked for too, an error leaves the id as the name.
pagelist == at = "pages" /\ Before /\ ((~Dead /\ To("play")) \/ biliGet \/ Refuse("unsupported"))

\* playurl: a single file on the CDN that is not too large, in ranges if it is longer than one; the file is created.
playurl == /\ at = "play" /\ Before
           /\ \/ biliGet \/ Refuse("unsupported")
              \/ ~Dead /\ length > MaxDownload /\ Refuse("too large")
              \/ /\ ~Dead /\ temp' = "there" /\ UNCHANGED outcome
                 /\ \/ size' = 0 /\ at' = "file"
                    \/ size' = length /\ length <= MaxDownload /\ at' = IF length > ChunkSize THEN "feed" ELSE "file"

----------------------------------------------------------------------------
(* fetchFile                                                               *)

FileOnly == UNCHANGED <<length, size, next, range, errs, env>>

\* BilibiliMirrors: the URLs of the video, best first.
BilibiliMirrors == 1 .. Mirrors

\* The next mirror, keeping the bytes already written.
NextMirror == [link EXCEPT !.mirror = @ + 1, !.stalls = 0]

MoreMirrors == link.mirror + 1 \in BilibiliMirrors

\* m units arrive and are written at the end; a body from the start of the video has its own first units.
Receive(m, from) == data' = [o \in Offset |-> IF o \in link.n .. link.n + m - 1
                                              THEN IF o = from + (o - link.n) THEN "right" ELSE "wrong"
                                              ELSE data[o]]

\* Mutant: a body that starts over is appended.
fullBodyAppended == /\ link.n > 0 /\ ~Dead /\ temp' = temp /\ outcome' = outcome
                    /\ \E m \in 1 .. Min2(length, MaxDownload + 1 - link.n) :
                         Receive(m, 0) /\ link' = [link EXCEPT !.n = @ + m, !.before = link.n, !.err = FALSE]
                    /\ at' = "judge"

\* "the server ignored Range: continuing would corrupt the file".
fullBody == /\ link.n > 0 /\ ~Dead /\ UNCHANGED data
            /\ IF MoreMirrors THEN link' = NextMirror /\ UNCHANGED <<at, temp, outcome>>
                              ELSE Finish("timed out") /\ UNCHANGED link

\* No connection, or 5xx or 429.
hiccup == /\ link' = [link EXCEPT !.before = link.n, !.err = TRUE] /\ at' = "judge"
          /\ UNCHANGED <<data, temp, outcome>>

\* Another status: this mirror will not do.
refused == /\ ~Dead /\ UNCHANGED data
           /\ IF MoreMirrors THEN link' = NextMirror /\ UNCHANGED <<at, temp, outcome>>
                             ELSE Finish("blocked") /\ UNCHANGED link

\* A body from where the file ends: all of it, a part of it that the connection drops or closes after, or more than the limit.
body == /\ ~Dead
        /\ \E m \in 0 .. Min2(length, MaxDownload + 1) - link.n, dropped \in BOOLEAN :
             /\ Receive(m, link.n)
             /\ link' = [link EXCEPT !.n = @ + m, !.before = link.n,
                                     !.err = dropped \/ (size > 0 /\ link.n + m < size)]
        /\ IF link'.n > MaxDownload THEN Finish("too large") ELSE at' = "judge" /\ UNCHANGED <<temp, outcome>>

\* One turn of the loop, up to the end of the transfer.
fetchFile == /\ at = "file" /\ FileOnly
             /\ (hiccup \/ refused \/ fullBody \/ body)

\* How the turn ends: the file is complete (closing it may fail), the caller is gone, time is up, the next mirror, giving up, or a pause.
judgeFile ==
  LET stalls == IF link.n > link.before THEN 0 ELSE link.stalls + 1
  IN /\ at = "judge" /\ FileOnly /\ UNCHANGED data
     /\ CASE ~link.err -> (Finish("internal") \/ Finish(IF link.n = 0 THEN "unsupported" ELSE "ok")) /\ UNCHANGED link
          [] link.err /\ gone -> Finish("caller gone") /\ UNCHANGED link
          [] link.err /\ ~gone /\ late -> Finish("timeout") /\ UNCHANGED link
          [] link.err /\ ~Dead /\ stalls >= FileStalls - 1 /\ MoreMirrors ->
               link' = NextMirror /\ at' = "file" /\ UNCHANGED <<temp, outcome>>
          [] link.err /\ ~Dead /\ stalls >= FileStalls /\ ~MoreMirrors -> Finish("timed out") /\ UNCHANGED link
          [] OTHER -> link' = [link EXCEPT !.stalls = stalls] /\ at' = "pause" /\ UNCHANGED <<temp, outcome>>

\* A pause, unless the context ends it.
pauseFile == /\ at = "pause" /\ FileOnly /\ UNCHANGED <<data, link>>
             /\ \/ at' = "file" /\ UNCHANGED <<temp, outcome>>
                \/ Dead /\ Finish("timeout")

----------------------------------------------------------------------------
(* fetchChunks and fetchRange                                              *)

Doing(w, step) == range[w].st = step
Main == UNCHANGED <<at, length, size, temp, link, outcome, gone, late>>

\* The feeder hands a worker the start of a range, or stops when the context ends.
feed == /\ at = "feed" /\ UNCHANGED <<length, size, file, link, errs, env, outcome>>
        /\ \/ /\ next < size /\ UNCHANGED at
              /\ \E w \in Worker :
                   /\ Doing(w, "idle")
                   /\ range' = [range EXCEPT ![w] = [NoRange EXCEPT !.st = "request", !.pos = next,
                                                                    !.end = Min2(next + ChunkSize, size) - 1]]
              /\ next' = next + ChunkSize
           \/ (next >= size \/ Dead) /\ at' = "wait" /\ UNCHANGED <<next, range>>

GivesUp(w, reason) == range' = [range EXCEPT ![w].st = "report", ![w].err = reason]

\* A request for the rest of the range: what arrives is written in place; anything but a 206 brings nothing.
requestRange(w) ==
  LET r == range[w]
  IN /\ Doing(w, "request") /\ Main /\ UNCHANGED <<next, errs, stopped>>
     /\ \/ ~Dead /\ GivesUp(w, "internal") /\ UNCHANGED data  \* WriteAt
        \/ \E k \in 0 .. IF Dead THEN 0 ELSE r.end - r.pos + 1 :
          /\ data' = [o \in Offset |-> IF o \in r.pos .. r.pos + k - 1 THEN "right" ELSE data[o]]
          /\ range' = [range EXCEPT ![w].pos = @ + k,
                                    ![w].stalls = IF k > 0 THEN 0 ELSE @ + 1,
                                    ![w].st = IF k = r.end - r.pos + 1 THEN "idle" ELSE IF k > 0 THEN "again" ELSE "stalled"]

\* After a request that did not finish the range: the context, progress, another mirror or giving up, a pause.
judgeRange(w) ==
  /\ (Doing(w, "again") \/ Doing(w, "stalled")) /\ Main /\ UNCHANGED <<next, data, errs, stopped>>
  /\ CASE Dead -> GivesUp(w, ContextError)
       [] ~Dead /\ Doing(w, "again") -> range' = [range EXCEPT ![w].st = "request"]
       [] ~Dead /\ Doing(w, "stalled") /\ range[w].stalls >= RangeStalls /\ range[w].mirror + 1 \notin BilibiliMirrors -> GivesUp(w, "timed out")
       [] OTHER -> range' = [range EXCEPT ![w].st = "pause",
                              ![w].mirror = IF range[w].stalls >= RangeStalls THEN @ + 1 ELSE @,
                              ![w].stalls = IF @ >= RangeStalls THEN 0 ELSE @]

pauseRange(w) == /\ Doing(w, "pause") /\ Main /\ UNCHANGED <<next, data, errs, stopped>>
                 /\ \/ range' = [range EXCEPT ![w].st = "request"]
                    \/ Dead /\ GivesUp(w, ContextError)

\* Mutant: the others are stopped before the error is there.
reportErrorLast(w) == /\ Main /\ UNCHANGED <<next, data>>
                      /\ \/ Doing(w, "report") /\ stopped' = TRUE /\ range' = [range EXCEPT ![w].st = "cancel"] /\ UNCHANGED errs
                         \/ Doing(w, "cancel") /\ errs' = Append(errs, range[w].err)
                              /\ range' = [range EXCEPT ![w].st = "left"] /\ UNCHANGED stopped

\* Mutant: the others are not stopped.
reportErrorOnly(w) == /\ Main /\ Doing(w, "report") /\ errs' = Append(errs, range[w].err)
                      /\ range' = [range EXCEPT ![w].st = "left"] /\ UNCHANGED <<next, data, stopped>>

\* errs <- err, then cancel(), and the goroutine is over.
reportError(w) == /\ Main /\ UNCHANGED <<next, data>>
                  /\ \/ Doing(w, "report") /\ errs' = Append(errs, range[w].err)
                          /\ range' = [range EXCEPT ![w].st = "cancel"] /\ UNCHANGED stopped
                     \/ Doing(w, "cancel") /\ stopped' = TRUE /\ range' = [range EXCEPT ![w].st = "left"] /\ UNCHANGED errs

AllLeft == \A w \in Worker : range[w].st \in {"idle", "left"}

\* Mutant: the caller does not wait for the goroutines.
fetchChunksAtOnce == /\ at = "wait" /\ UNCHANGED <<length, size, data, link, next, range, errs, env>>
                     /\ Finish(CASE errs # <<>> -> Head(errs) [] errs = <<>> /\ gone -> "caller gone"
                                 [] errs = <<>> /\ ~gone /\ late -> "timeout" [] OTHER -> "ok")

\* wg.Wait, and what there is to report: the first error, the caller, the deadline, or the file.
fetchChunks == /\ at = "wait" /\ AllLeft /\ UNCHANGED <<length, size, data, link, next, range, errs, env>>
               /\ Finish(CASE errs # <<>> -> Head(errs) [] errs = <<>> /\ gone -> "caller gone"
                           [] errs = <<>> /\ ~gone /\ late -> "timeout" [] OTHER -> "ok")

\* Close fails.
closeFails == /\ at = "wait" /\ AllLeft /\ errs = <<>> /\ ~Dead /\ Finish("internal")
              /\ UNCHANGED <<length, size, data, link, next, range, errs, env>>

----------------------------------------------------------------------------
(* The caller and the clock                                                *)

CallerLeaves == /\ at # "ended" /\ ~gone /\ gone' = TRUE
                /\ UNCHANGED <<at, length, size, file, link, next, range, errs, late, stopped, outcome>>

\* The deadline starts with the download itself.
DeadlinePasses == /\ at \in {"ytdlp", "file", "judge", "pause", "feed", "wait"} /\ ~late /\ late' = TRUE
                  /\ UNCHANGED <<at, length, size, file, link, next, range, errs, gone, stopped, outcome>>

Work(w) == requestRange(w) \/ judgeRange(w) \/ pauseRange(w) \/ reportError(w)

Download == \/ ValidatePublicHTTPURL \/ runYtDlp \/ resolveShortLink \/ BilibiliTarget \/ pagelist \/ playurl
            \/ fetchFile \/ judgeFile \/ pauseFile \/ feed \/ fetchChunks \/ closeFails

Done == at = "ended" /\ UNCHANGED downloadVars

DownloadNext == Download \/ (\E w \in Worker : Work(w)) \/ CallerLeaves \/ DeadlinePasses \/ Done

DownloadSpec == DownloadInit /\ [][DownloadNext]_downloadVars

\* Goroutines go on, pauses end and every request returns: its context has a deadline.
FairDownloadSpec == DownloadSpec /\ WF_downloadVars(Download) /\ \A w \in Worker : WF_downloadVars(Work(w))

----------------------------------------------------------------------------
(* Properties                                                              *)

\* A file that is handed on is the whole video and nothing but the video, however often connections dropped, whichever
\* mirrors served which part and whatever the other goroutines did; the length must have been announced.
Whole == outcome = "ok" /\ size > 0 => \A o \in Offset : data[o] = IF o < length THEN "right" ELSE "hole"

\* The reason a user reads is the reason the download failed: "one range gave up everywhere: stop the others" must not
\* surface as the error of the ranges that were stopped, and only a caller who left is told so.
CauseIsReported ==
  /\ outcome # "stopped"
  /\ outcome = "caller gone" => gone
  /\ outcome \in {"deadline", "timeout"} => late \/ gone

\* Nothing is left behind: when Download returns no goroutine writes to the file or will report an error, no more
\* errors were sent than the channel holds, and a failed download has removed its file.
NothingLeft == at = "ended" =>
  /\ \A w \in Worker : range[w].st \in {"idle", "left"}
  /\ Len(errs) <= Cardinality(Worker)
  /\ outcome # "ok" => temp # "there"

\* Every download ends: a feeder is never left with ranges nobody takes, and no mirror can keep one busy for good.
Ends == <>(at = "ended")
=============================================================================
