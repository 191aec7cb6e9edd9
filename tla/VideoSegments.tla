--------------------------- MODULE VideoSegments ---------------------------
(***************************************************************************)
(* What a video context is made of (videocontext/frames.go, service.go,    *)
(* model/dto.go): which key frames of a video are kept, and how pieces of  *)
(* speech and recognised frames become the segments of a context.  Times   *)
(* are in milliseconds.  A piece of speech is known by the time it starts, *)
(* a frame by its time, whether text was recognised in it, and its name;   *)
(* the order of texts within a segment is left out.                        *)
(***************************************************************************)
EXTENDS Integers, FiniteSets

maxKeyFrames == 40
segmentMs == 60000

\* FrameGapSeconds: 20 seconds, or more in a long video.
FrameGapSeconds(durationMs) ==
  LET gap == (durationMs \div (1000 * maxKeyFrames)) + 1 IN IF gap > 20 THEN gap ELSE 20

\* FFmpegFrameArgs: a frame is selected for its scene or its age, but never less than a gap after the last one.
FFmpegSelects(times, durationMs) ==
  /\ times \subseteq 0 .. durationMs
  /\ \A s, t \in times : s < t => t - s >= 1000 * FrameGapSeconds(durationMs)

windowStart(ts) == (ts \div segmentMs) * segmentMs

\* NewVideoSegment: a segment that does not end after its start is refused.
NewVideoSegment(startMs, endMs, transcript, ocrTexts, evidenceFrames) ==
  [startMs |-> startMs, endMs |-> endMs, valid |-> startMs >= 0 /\ endMs > startMs,
   transcript |-> transcript, ocrTexts |-> ocrTexts, evidenceFrames |-> evidenceFrames]

\* Mutant: frames without text make no evidence.
mergeTexts(speech, parts) ==
  LET seen == {f \in parts : f.text}
  IN {NewVideoSegment(k, k + segmentMs, {t \in speech : windowStart(t) = k}, {},
                      {f.frameName : f \in {g \in seen : windowStart(g.timestampMs) = k}}) :
        k \in {windowStart(t) : t \in speech} \cup {windowStart(f.timestampMs) : f \in seen}}

\* merge: one segment per window with speech or a frame; frames without text are evidence too.
merge(speech, parts) ==
  LET In(k) == {f \in parts : windowStart(f.timestampMs) = k}
  IN {NewVideoSegment(k, k + segmentMs, {t \in speech : windowStart(t) = k}, {f \in In(k) : f.text},
                      {f.frameName : f \in In(k)}) :
        k \in {windowStart(t) : t \in speech} \cup {windowStart(f.timestampMs) : f \in parts}}

\* DeleteEvidenceFrames: the frames of all segments.
EvidenceFrames(segments) == UNION {s.evidenceFrames : s \in segments}
=============================================================================
