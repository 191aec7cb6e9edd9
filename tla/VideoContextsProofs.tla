------------------------- MODULE VideoContextsProofs -------------------------
(***************************************************************************)
(* What a build makes of a video, whatever its length and whatever is      *)
(* recognised in it: how many frames are read, and that the segments of a  *)
(* context account for all of them.  And what becomes of these frames: as  *)
(* long as a media exists, nobody removes the frames of its context.       *)
(***************************************************************************)
EXTENDS VideoContexts, FiniteSetTheorems, TLAPS

\* Division by a positive gap leaves a remainder smaller than it.
LEMMA Division ==
  ASSUME NEW n \in Nat, NEW g \in Nat, g > 0
  PROVE  /\ n \div g \in Nat
         /\ g * (n \div g) <= n /\ n < g * (n \div g) + g
  BY SMTT(30)

\* The gap is long enough for the video: forty gaps are longer than the whole.
LEMMA GapIsLongEnough ==
  ASSUME NEW d \in Nat
  PROVE  /\ FrameGapSeconds(d) \in Nat /\ FrameGapSeconds(d) > 0
         /\ d < maxKeyFrames * (1000 * FrameGapSeconds(d))
  BY DEF FrameGapSeconds, maxKeyFrames

\* Frames a gap apart have different quotients.
LEMMA OneFramePerGap ==
  ASSUME NEW g \in Nat, g > 0, NEW s \in Nat, NEW t \in Nat, s < t, t - s >= g
  PROVE  s \div g # t \div g
  <1>1. s \div g \in Nat /\ g * (s \div g) <= s BY Division
  <1>2. t \div g \in Nat /\ t < g * (t \div g) + g BY Division
  <1> QED BY <1>1, <1>2

\* A time before forty gaps have passed lies in one of the first forty.
LEMMA GapOf ==
  ASSUME NEW g \in Nat, g > 0, NEW t \in Nat, t < maxKeyFrames * g
  PROVE  t \div g \in 0 .. maxKeyFrames - 1
  <1>1. t \div g \in Nat /\ g * (t \div g) <= t BY Division
  <1>2. g * (t \div g) < g * maxKeyFrames BY <1>1 DEF maxKeyFrames
  <1>3. t \div g < maxKeyFrames BY <1>1, <1>2 DEF maxKeyFrames
  <1> QED BY <1>1, <1>3 DEF maxKeyFrames

\* OCR reads at most maxKeyFrames frames of a video whose length is known, as the comment on maxKeyFrames promises:
\* frames at least FrameGapSeconds apart never number more than that.
THEOREM FramesAreCapped ==
  ASSUME NEW d \in Nat, NEW times, FFmpegSelects(times, d)
  PROVE  IsFiniteSet(times) /\ Cardinality(times) <= maxKeyFrames
  <1> DEFINE g == 1000 * FrameGapSeconds(d)
             cell == [t \in times |-> t \div g]
             cells == 0 .. maxKeyFrames - 1
  <1>1. g \in Nat /\ g > 0 /\ d < maxKeyFrames * g BY GapIsLongEnough
  <1>2. times \subseteq 0 .. d /\ \A s, t \in times : s < t => t - s >= g BY DEF FFmpegSelects
  <1> HIDE DEF g
  <1>3. cell \in [times -> cells]
    <2> SUFFICES ASSUME NEW t \in times PROVE t \div g \in cells OBVIOUS
    <2>1. t \in Nat /\ t < maxKeyFrames * g BY <1>1, <1>2 DEF maxKeyFrames
    <2> QED BY <1>1, <2>1, GapOf
  <1>4. \A s, t \in times : s # t => cell[s] # cell[t]
    <2> SUFFICES ASSUME NEW s \in times, NEW t \in times, s < t PROVE s \div g # t \div g
      <3>1. \A s, t \in times : s # t => s < t \/ t < s BY <1>2
      <3> QED BY <3>1
    <2>1. s \in Nat /\ t \in Nat /\ t - s >= g BY <1>2
    <2> QED BY <1>1, <2>1, OneFramePerGap
  <1>5. cell \in Injection(times, cells) BY <1>3, <1>4 DEF Injection, IsInjective
  <1>6. IsFiniteSet(cells) /\ Cardinality(cells) = maxKeyFrames
    <2>1. IsFiniteSet(0 .. 39) /\ Cardinality(0 .. 39) = IF 0 > 39 THEN 0 ELSE 39 - 0 + 1
      BY ONLY FS_Interval, 0 \in Int, 39 \in Int, Zenon
    <2> QED BY <2>1 DEF maxKeyFrames
  <1> HIDE DEF cell, cells
  <1>7. IsFiniteSet(times) /\ Cardinality(times) <= Cardinality(cells)
    BY <1>5, <1>6, FS_Injection, Zenon
  <1> QED BY <1>6, <1>7

----------------------------------------------------------------------------
(* Segments                                                                *)

\* A window starts at a multiple of its length, at or before the time it is for.
LEMMA WindowOf ==
  ASSUME NEW ts \in Nat
  PROVE  \E n \in Nat : windowStart(ts) = n * segmentMs
  BY DEF windowStart, segmentMs

\* Every recognised frame, with or without text, is evidence of some segment, and nothing else is: whoever deletes
\* the frames of a context (DeleteEvidenceFrames) deletes all that were uploaded for it.
THEOREM MergeKeepsFrames ==
  ASSUME NEW speech, NEW parts
  PROVE  EvidenceFrames(merge(speech, parts)) = {f.frameName : f \in parts}
  <1> DEFINE In(k) == {f \in parts : windowStart(f.timestampMs) = k}
             keys == {windowStart(t) : t \in speech} \cup {windowStart(f.timestampMs) : f \in parts}
  <1>1. \A s \in merge(speech, parts) : \E k \in keys : s.evidenceFrames = {f.frameName : f \in In(k)}
    BY DEF merge, NewVideoSegment
  <1>2. \A k \in keys : \E s \in merge(speech, parts) : s.evidenceFrames = {f.frameName : f \in In(k)}
    <2> SUFFICES ASSUME NEW k \in keys
                 PROVE  \E s \in merge(speech, parts) : s.evidenceFrames = {f.frameName : f \in In(k)} OBVIOUS
    <2> DEFINE s == NewVideoSegment(k, k + segmentMs, {t \in speech : windowStart(t) = k}, {f \in In(k) : f.text},
                                    {f.frameName : f \in In(k)})
    <2>1. s \in merge(speech, parts) BY DEF merge
    <2>2. s.evidenceFrames = {f.frameName : f \in In(k)} BY DEF NewVideoSegment
    <2> HIDE DEF s
    <2> QED BY <2>1, <2>2
  <1>3. \A f \in parts : windowStart(f.timestampMs) \in keys /\ f \in In(windowStart(f.timestampMs)) OBVIOUS
  <1> HIDE DEF keys
  <1> QED BY <1>1, <1>2, <1>3 DEF EvidenceFrames

\* The segments of a context are never refused for their range, and no two overlap.
THEOREM SegmentsAreDisjoint ==
  ASSUME NEW speech, NEW parts, speech \subseteq Nat, \A f \in parts : f.timestampMs \in Nat
  PROVE  \A s, t \in merge(speech, parts) :
           s.valid /\ (s = t \/ s.endMs <= t.startMs \/ t.endMs <= s.startMs)
  <1> DEFINE Of(k) == NewVideoSegment(k, k + segmentMs, {t \in speech : windowStart(t) = k},
                                      {f \in parts : windowStart(f.timestampMs) = k /\ f.text},
                                      {f.frameName : f \in {g \in parts : windowStart(g.timestampMs) = k}})
             keys == {windowStart(t) : t \in speech} \cup {windowStart(f.timestampMs) : f \in parts}
  <1>1. \A s \in merge(speech, parts) : \E k \in keys : s = Of(k)
    <2>1. \A k : {f \in {g \in parts : windowStart(g.timestampMs) = k} : f.text}
                 = {f \in parts : windowStart(f.timestampMs) = k /\ f.text} OBVIOUS
    <2> QED BY <2>1 DEF merge
  <1>2. \A k \in keys : \E n \in Nat : k = n * segmentMs BY WindowOf
  <1>3. \A k : Of(k).startMs = k /\ Of(k).endMs = k + segmentMs /\ Of(k).valid = (k >= 0 /\ k + segmentMs > k)
    BY DEF NewVideoSegment
  <1> HIDE DEF keys, Of
  <1> SUFFICES ASSUME NEW s \in merge(speech, parts), NEW t \in merge(speech, parts)
               PROVE  s.valid /\ (s = t \/ s.endMs <= t.startMs \/ t.endMs <= s.startMs) OBVIOUS
  <1>4. PICK j \in keys : s = Of(j) BY <1>1
  <1>5. PICK k \in keys : t = Of(k) BY <1>1
  <1>6. PICK m \in Nat : j = m * segmentMs BY <1>2
  <1>7. PICK n \in Nat : k = n * segmentMs BY <1>2
  <1>8. s.valid
    <2>1. j >= 0 /\ j + segmentMs > j BY <1>6 DEF segmentMs
    <2>2. s.valid = (j >= 0 /\ j + segmentMs > j) BY <1>3, <1>4
    <2> QED BY <2>1, <2>2, Zenon
  <1>9. j = k \/ j + segmentMs <= k \/ k + segmentMs <= j BY <1>6, <1>7 DEF segmentMs
  <1> QED BY <1>3, <1>4, <1>5, <1>8, <1>9

----------------------------------------------------------------------------
(* The frames of contexts                                                  *)

Steps == {"idle", "dead", "cache", "query", "fill", "owner", "drop", "lock", "build", "await", "save", "discard",
          "saveCache", "remember", "unlock", "agent", "failed", "frames", "purge", "purgeCache"}
Branch == {"off", "runs", "uploads", "ok", "failed", "late"}
Local == [pc : Steps, med : Media \cup {None}, tgt : Media \cup {None}, why : {"own", "owner", "purge"},
          got : (SUBSET Frame) \cup {None}, second : BOOLEAN, locked : BOOLEAN, asr : Branch, ocr : Branch,
          put : Frame \cup {None}, uploaded : SUBSET Frame, vc : (SUBSET Frame) \cup {None}, ok : BOOLEAN]

Types == /\ rows \subseteq Media
         /\ db \in [Media -> (SUBSET Frame) \cup {None}] /\ cache \in [Media -> (SUBSET Frame) \cup {None}]
         /\ owner \in Media \cup {None} /\ lock \in Process \cup {None}
         /\ frames \subseteq Frame /\ named \subseteq Frame
         /\ w \in [Process -> Local]

Loading == {"cache", "query", "fill"}

\* The frames a build has uploaded and not given away; the frames a process is about to write to the cache or to
\* delete, and the media they are for.
Mine(r) == IF r.pc \in {"await", "save", "discard"} THEN r.uploaded \cup ({r.put} \ {None}) ELSE {}
Held(r) == IF r.pc \in {"fill", "frames"} THEN FramesOf(r.got) ELSE IF r.pc = "saveCache" THEN FramesOf(r.vc) ELSE {}
For(r) == IF r.pc = "saveCache" THEN r.med ELSE r.tgt

\* Where a process is, and what it has there.
Control(r) ==
  /\ r.pc \notin {"idle", "dead"} => r.med \in Media
  /\ r.pc \in Loading => r.tgt \in Media
  /\ r.pc \in Loading \cup {"frames"} /\ r.why = "purge" => r.tgt = r.med
  /\ r.pc = "frames" => r.why = "purge"
  /\ r.pc \in {"owner", "drop", "lock", "build"} \/ (r.pc \in Loading /\ r.why # "purge") => r.uploaded = {}
  /\ r.asr = "runs" \/ r.ocr \in {"runs", "uploads"} => r.pc = "await"
  /\ IF r.ocr = "uploads" THEN r.put \in Frame ELSE r.put = None
  /\ r.pc = "save" => FramesOf(r.vc) \subseteq r.uploaded

ControlInv == \A p \in Process : Control(w[p])

\* Only the artifacts of deleted media are purged.
PurgeInv == \A p \in Process : w[p].pc \in Loading \cup {"frames"} /\ w[p].why = "purge" => w[p].med \notin rows

Belongs(f, m) == \/ f \in FramesOf(db[m]) \/ f \in FramesOf(cache[m])
                 \/ \E p \in Process : For(w[p]) = m /\ f \in Held(w[p])

\* A frame belongs to one media, or to the one build that uploaded it.
OwnershipInv ==
  /\ frames \subseteq named
  /\ \A f \in Frame, m \in Media : Belongs(f, m) => f \in named
  /\ \A f \in Frame, m, n \in Media : Belongs(f, m) /\ Belongs(f, n) => m = n
  /\ \A p \in Process : Mine(w[p]) \subseteq frames
  /\ \A p \in Process, m \in Media : \A f \in Mine(w[p]) : ~Belongs(f, m)
  /\ \A p, q \in Process : p # q => Mine(w[p]) \cap Mine(w[q]) = {}

FramesInv == Types /\ ControlInv /\ PurgeInv /\ OwnershipInv /\ FramesStand

\* What a step of process p may add to what belongs to a media: nothing, or what p has uploaded and gives away.
Given(p, f, m) == \/ Belongs(f, m)
                  \/ f \in Mine(w[p]) /\ m = w[p].med /\ frames' = frames /\ Mine(w'[p]) = {}

\* A step of p keeps the invariant if it gives frames only to the media it works for, and deletes only frames it has
\* uploaded or that belong to media that are gone.
LEMMA StepKeepsOwnership ==
  ASSUME Types, Types', OwnershipInv, FramesStand, NEW p \in Process,
         \A q \in Process : q # p => w'[q] = w[q],
         \A m \in Media, f \in Frame : f \in FramesOf(db'[m]) => f \in FramesOf(db[m]) \/ (f \in Mine(w[p]) /\ Given(p, f, m)),
         \A m \in Media, f \in Frame : f \in FramesOf(cache'[m]) => Given(p, f, m),
         \A m \in Media, f \in Frame : For(w'[p]) = m /\ f \in Held(w'[p]) => Given(p, f, m),
         Mine(w'[p]) \subseteq (Mine(w[p]) \cup (named' \ named)) \cap frames',
         rows' \subseteq rows, named \subseteq named', frames' \subseteq named',
         \A f \in frames \ frames' : \/ f \in Mine(w[p]) /\ f \notin Mine(w'[p])
                                     \/ \E m \in Media \ rows : Belongs(f, m)
  PROVE  OwnershipInv' /\ FramesStand'
  <1>1. \A f \in Frame, m \in Media : Belongs(f, m)' => Given(p, f, m)
    <2> SUFFICES ASSUME NEW f \in Frame, NEW m \in Media, Belongs(f, m)' PROVE Given(p, f, m) OBVIOUS
    <2>1. CASE f \in FramesOf(db'[m]) BY <2>1 DEF Given, Belongs
    <2>2. CASE f \in FramesOf(cache'[m]) BY <2>2
    <2>3. ASSUME NEW q \in Process, For(w'[q]) = m, f \in Held(w'[q]) PROVE Given(p, f, m)
      <3>1. CASE q = p BY <2>3, <3>1
      <3>2. CASE q # p BY <2>3, <3>2 DEF Given, Belongs
      <3> QED BY <3>1, <3>2
    <2> QED BY <2>1, <2>2, <2>3 DEF Belongs, FramesOf
  <1>2. \A q \in Process : Mine(w[q]) \subseteq frames /\ frames \subseteq named BY DEF OwnershipInv
  <1>3. \A q \in Process, f \in Frame, m \in Media : f \in Mine(w[q]) => ~Belongs(f, m) BY DEF OwnershipInv
  <1>4. \A q \in Process, f \in Frame : f \in Mine(w[q]) /\ f \in Mine(w[p]) => q = p BY DEF OwnershipInv
  <1>5. \A q \in Process, f \in Frame : f \in frames \ frames' => f \notin Mine(w'[q])
    BY <1>3, <1>4 DEF Types
  <1>6. \A q \in Process : Mine(w'[q]) \subseteq frames'
    BY <1>2, <1>5 DEF Types
  <1>7. \A f \in Frame, m \in Media : Belongs(f, m)' => f \in named'
    BY <1>1, <1>2 DEF Given, OwnershipInv
  <1>8. \A f \in Frame, m, n \in Media : Belongs(f, m)' /\ Belongs(f, n)' => m = n
    BY <1>1, <1>3 DEF Given, OwnershipInv
  <1>9. \A q \in Process, m \in Media : \A f \in Mine(w'[q]) : ~Belongs(f, m)'
    <2> SUFFICES ASSUME NEW q \in Process, NEW m \in Media, NEW f \in Mine(w'[q]), Given(p, f, m) PROVE FALSE
      BY <1>1, <1>6 DEF Types
    <2>1. f \in Frame BY <1>6 DEF Types
    <2>2. CASE q # p BY <1>3, <1>4, <2>1, <2>2 DEF Given
    <2>3. CASE q = p BY <1>3, <2>1, <2>3 DEF Given, OwnershipInv
    <2> QED BY <2>2, <2>3
  <1>10. \A q, o \in Process : q # o => Mine(w'[q]) \cap Mine(w'[o]) = {}
    <2> SUFFICES ASSUME NEW q \in Process, NEW o \in Process, q # o, NEW f \in Mine(w'[q]), f \in Mine(w'[o]) PROVE FALSE
      OBVIOUS
    <2>1. f \in Frame BY <1>6 DEF Types
    <2>2. CASE q # p /\ o # p BY <2>1, <2>2 DEF OwnershipInv
    <2>3. CASE q = p BY <1>2, <1>4, <2>1, <2>3
    <2>4. CASE o = p BY <1>2, <1>4, <2>1, <2>4
    <2> QED BY <2>2, <2>3, <2>4
  <1>11. FramesStand'
    <2> SUFFICES ASSUME NEW m \in rows', NEW f \in FramesOf(db'[m]) PROVE f \in frames' BY DEF FramesStand, FramesOf
    <2>1. m \in Media /\ m \in rows /\ f \in Frame BY DEF Types, FramesOf
    <2>2. CASE f \in FramesOf(db[m])
      <3>1. f \in frames BY <2>1, <2>2 DEF FramesStand
      <3>2. Belongs(f, m) BY <2>2 DEF Belongs
      <3>3. \A n \in Media : Belongs(f, n) => n = m BY <2>1, <3>2 DEF OwnershipInv
      <3> QED BY <1>3, <2>1, <3>1, <3>2, <3>3
    <2>3. CASE f \in Mine(w[p]) /\ Given(p, f, m) BY <1>2, <1>3, <2>1, <2>3 DEF Given
    <2> QED BY <2>1, <2>2, <2>3
  <1> QED BY <1>6, <1>7, <1>8, <1>9, <1>10, <1>11 DEF OwnershipInv

LEMMA InitFrames == Init => FramesInv
  <1> SUFFICES ASSUME Init PROVE FramesInv OBVIOUS
  <1>1. Types
    <2>1. Idle \in Local BY DEF Idle, Local, Steps, Branch
    <2> QED BY <2>1 DEF Init, Types
  <1>2. \A p \in Process : w[p] = Idle BY DEF Init
  <1>3. ControlInv /\ PurgeInv BY <1>2 DEF Idle, ControlInv, Control, PurgeInv, Loading
  <1>4. \A p \in Process : Mine(w[p]) = {} /\ Held(w[p]) = {} BY <1>2 DEF Mine, Held, Idle
  <1>5. \A m \in Media : FramesOf(db[m]) = {} /\ FramesOf(cache[m]) = {} BY DEF Init, FramesOf
  <1>6. \A f \in Frame, m \in Media : ~Belongs(f, m) BY <1>4, <1>5 DEF Belongs
  <1>7. OwnershipInv BY <1>4, <1>6 DEF OwnershipInv, Init
  <1>8. FramesStand BY <1>1, <1>5 DEF FramesStand, Types
  <1> QED BY <1>1, <1>3, <1>7, <1>8 DEF FramesInv

\* A context made of the frames of a branch refers to those it uploaded, all of them and no others.
LEMMA BuiltFromUploads ==
  ASSUME NEW uploaded \in SUBSET Frame, NEW speech, NEW parts \in Recognised(uploaded)
  PROVE  EvidenceFrames(merge(speech, parts)) \ {None} = uploaded
  <1>1. \A part \in parts : part.frameName \in uploaded \cup {None} BY DEF Recognised
  <1>2. \A f \in uploaded : \E part \in parts : part.frameName = f
    <2> SUFFICES ASSUME NEW f \in uploaded PROVE \E part \in parts : part.frameName = f OBVIOUS
    <2> DEFINE Part(ts, text, name) == [timestampMs |-> ts, text |-> text, frameName |-> name]
    <2>1. PICK at \in [uploaded -> {0, segmentMs}], blank \in SUBSET uploaded, others \in SUBSET {Part(0, TRUE, None)} :
            parts = {Part(at[g], g \notin blank, g) : g \in uploaded} \cup others
      BY DEF Recognised
    <2>2. Part(at[f], f \notin blank, f) \in parts BY <2>1, Zenon
    <2>3. Part(at[f], f \notin blank, f).frameName = f OBVIOUS
    <2> QED BY <2>2, <2>3, Zenon
  <1>3. EvidenceFrames(merge(speech, parts)) = {f.frameName : f \in parts} BY MergeKeepsFrames
  <1> QED BY <1>1, <1>2, <1>3, ContextAssumption

\* What FinishBuild leaves in hand: a context made of uploaded frames, or the frames to discard.
LEMMA FinishBuildResult ==
  ASSUME Types, NEW p \in Process, FinishBuild(p)
  PROVE  /\ w' \in [Process -> Local] /\ \A q \in Process : q # p => w'[q] = w[q]
         /\ w'[p].pc \in {"save", "discard"} /\ w'[p].uploaded \in {w[p].uploaded, {}}
         /\ w'[p].pc = "save" => FramesOf(w'[p].vc) \subseteq w'[p].uploaded
         /\ w'[p].med = w[p].med /\ w'[p].put = w[p].put /\ w'[p].asr = w[p].asr /\ w'[p].ocr = w[p].ocr
         /\ w[p].ocr = "failed" /\ w[p].asr = "ok" => w'[p].uploaded = {}
         /\ w'[p].uploaded = w[p].uploaded \/ (w[p].ocr = "failed" /\ w[p].asr = "ok")
         /\ w'[p].pc = "save" => w'[p].vc = w'[p].uploaded
         /\ w'[p].locked = w[p].locked /\ w'[p].second = w[p].second
  <1> DEFINE kept == IF w[p].ocr = "ok" THEN w[p].uploaded ELSE {}
  <1>1. PICK speech \in IF w[p].asr = "ok" THEN SUBSET {0} ELSE {{}},
             parts \in IF w[p].ocr = "ok" THEN Recognised(kept) ELSE {{}} :
          w' = IF merge(speech, parts) = {}
               THEN [w EXCEPT ![p].pc = "discard", ![p].ok = FALSE,
                              ![p].uploaded = IF w[p].asr = "ok" THEN kept ELSE @]
               ELSE [w EXCEPT ![p].pc = "save", ![p].vc = EvidenceFrames(merge(speech, parts)) \ {None}, ![p].uploaded = kept]
    BY DEF FinishBuild
  <1>2. EvidenceFrames(merge(speech, parts)) \ {None} = kept
    <2>1. CASE w[p].ocr = "ok"
      <3>1. w[p].uploaded \in SUBSET Frame BY DEF Types, Local
      <3> QED BY <1>1, <2>1, <3>1, BuiltFromUploads
    <2>2. CASE w[p].ocr # "ok"
      <3>1. parts = {} BY <1>1, <2>2
      <3>2. EvidenceFrames(merge(speech, parts)) = {f.frameName : f \in parts} BY MergeKeepsFrames
      <3>3. EvidenceFrames(merge(speech, parts)) = {} BY <3>1, <3>2
      <3> QED BY <2>2, <3>3
    <2> QED BY <2>1, <2>2
  <1>3. w \in [Process -> Local] /\ w[p] \in Local /\ kept \subseteq w[p].uploaded /\ w[p].uploaded \subseteq Frame BY DEF Types, Local
  <1>b. w[p].asr \in {"ok", "failed"} /\ w[p].ocr \in {"ok", "failed"} BY DEF FinishBuild
  <1>o. w[p].ocr # "ok" => parts = {} BY <1>1
  <1>a. w[p].asr # "ok" => speech = {} BY <1>1
  <1>e. merge({}, {}) = {} BY DEF merge
  <1>4. CASE merge(speech, parts) = {}
    <2>1. w' = [w EXCEPT ![p].pc = "discard", ![p].ok = FALSE, ![p].uploaded = IF w[p].asr = "ok" THEN kept ELSE @]
      BY <1>1, <1>4
    <2>2. w'[p] = [w[p] EXCEPT !.pc = "discard", !.ok = FALSE, !.uploaded = IF w[p].asr = "ok" THEN kept ELSE @]
      BY <1>3, <2>1
    <2>3. w'[p] \in Local BY <1>3, <2>2 DEF Local, Steps
    <2>4. w' \in [Process -> Local] BY <1>3, <2>1, <2>2, <2>3
    <2> QED BY <1>3, <1>b, <2>1, <2>2, <2>4 DEF Local
  <1>5. CASE merge(speech, parts) # {}
    <2> DEFINE context == EvidenceFrames(merge(speech, parts)) \ {None}
    <2>1. w' = [w EXCEPT ![p].pc = "save", ![p].vc = context, ![p].uploaded = kept] BY <1>1, <1>5
    <2>2. context = kept BY <1>2
    <2> HIDE DEF context
    <2>3. w'[p] = [w[p] EXCEPT !.pc = "save", !.vc = context, !.uploaded = kept] BY <1>3, <2>1
    <2>4. w'[p].vc = context /\ w'[p].uploaded = kept BY <1>3, <2>3 DEF Local
    <2>5. FramesOf(w'[p].vc) \subseteq w'[p].uploaded BY <2>2, <2>4 DEF FramesOf
    <2>6. w'[p] \in Local
      <3>1. context \in SUBSET Frame /\ kept \in SUBSET Frame BY <1>3, <2>2
      <3> HIDE DEF kept
      <3> QED BY <1>3, <2>3, <3>1 DEF Local, Steps
    <2>7. w' \in [Process -> Local] BY <1>3, <2>1, <2>3, <2>6
    <2>8. w[p].ocr # "ok" => w[p].asr = "ok" BY <1>o, <1>a, <1>e, <1>5
    <2> QED BY <1>3, <1>b, <2>1, <2>2, <2>3, <2>5, <2>7, <2>8 DEF Local
  <1> QED BY <1>4, <1>5

\* What a process does with a context it has loaded.
LEMMA LoadedResult ==
  ASSUME w \in [Process -> Local], NEW p \in Process, NEW context \in (SUBSET Frame) \cup {None}, Loaded(p, context)
  PROVE  /\ w' \in [Process -> Local] /\ \A q \in Process : q # p => w'[q] = w[q]
         /\ \A x \in {"med", "tgt", "why", "put", "asr", "ocr", "uploaded"} : w'[p][x] = w[p][x]
         /\ w[p].why = "purge" => w'[p].pc = "frames" /\ w'[p].got = context
         /\ w[p].why # "purge" => /\ w'[p].pc \in {"unlock", "owner", "drop", "save"}
                                  /\ w'[p].pc = "save" => FramesOf(w'[p].vc) = {}
  <1>0. w[p] \in Local /\ w[p].why \in {"own", "owner", "purge"} BY DEF Local
  <1>1. CASE w[p].why = "own"
    <2>1. w' = [w EXCEPT ![p].pc = IF context # None THEN "unlock" ELSE "owner"] BY <1>1 DEF Loaded, OwnContext, Goto
    <2>2. w'[p] \in Local BY <1>0, <2>1 DEF Local, Steps
    <2> QED BY <1>0, <1>1, <2>1, <2>2 DEF Local
  <1>2. CASE w[p].why = "owner"
    <2>1. CASE context = None
      <3>1. w' = [w EXCEPT ![p].pc = "drop"] BY <1>2, <2>1 DEF Loaded, ReuseContext, Goto
      <3>2. w'[p] \in Local BY <1>0, <3>1 DEF Local, Steps
      <3> QED BY <1>0, <1>2, <3>1, <3>2 DEF Local
    <2>2. CASE context # None
      <3>1. w' = [w EXCEPT ![p].pc = "save", ![p].vc = {}] BY <1>2, <2>2 DEF Loaded, ReuseContext, ReusableContext
      <3>2. w'[p] \in Local BY <1>0, <3>1 DEF Local, Steps
      <3> QED BY <1>0, <1>2, <3>1, <3>2 DEF Local, FramesOf
    <2> QED BY <2>1, <2>2
  <1>3. CASE w[p].why = "purge"
    <2>1. w' = [w EXCEPT ![p].pc = "frames", ![p].got = context] BY <1>3 DEF Loaded
    <2>2. w'[p] \in Local BY <1>0, <2>1 DEF Local, Steps
    <2> QED BY <1>0, <1>3, <2>1, <2>2 DEF Local
  <1> QED BY <1>0, <1>1, <1>2, <1>3

\* The variables keep their types.
LEMMA TypesPreserved ==
  ASSUME Types, ControlInv, [Next]_vars
  PROVE  Types'
  <1> USE DEF Types
  <1>0. Idle \in Local BY DEF Idle, Local, Steps, Branch
  <1>1. ASSUME NEW p \in Process, NEW m \in Media, AsyncAnalyze(p, m) \/ DeleteByID(p, m) PROVE Types'
    <2>1. [Idle EXCEPT !.pc = "cache", !.med = m, !.tgt = m] \in Local BY <1>0 DEF Local, Steps
    <2>2. [Idle EXCEPT !.pc = "cache", !.med = m, !.tgt = m, !.why = "purge"] \in Local BY <1>0 DEF Local, Steps
    <2> QED BY <1>1, <2>1, <2>2 DEF AsyncAnalyze, DeleteByID, shared
  <1>2. CASE LeaseExpires BY <1>2 DEF LeaseExpires
  <1>3. CASE UNCHANGED vars BY <1>3 DEF vars, shared
  <1>4. ASSUME NEW p \in Process, TaskStep(p) \/ BranchStep(p) \/ Crash(p) PROVE Types'
    <2>0. w[p] \in Local OBVIOUS
    <2>0a. Control(w[p]) BY DEF ControlInv
    <2> USE DEF shared, Goto, Fail, Load
    <2>1. CASE ReadCache(p)
      <3>1. CASE Loaded(p, cache[w[p].tgt])
        <4>1. cache[w[p].tgt] \in (SUBSET Frame) \cup {None} BY <2>1, <2>0a DEF ReadCache, At, Control, Loading
        <4> QED BY <2>1, <3>1, <4>1, LoadedResult DEF ReadCache
      <3>2. CASE Goto(p, "query") BY <2>1, <3>2, <2>0 DEF ReadCache, Local, Steps
      <3> QED BY <2>1, <3>1, <3>2 DEF ReadCache
    <2>2. CASE FindPayload(p)
      <3>0. db[w[p].tgt] \in (SUBSET Frame) \cup {None} BY <2>2, <2>0a DEF FindPayload, At, Control, Loading
      <3>1. CASE Loaded(p, None) BY <2>2, <3>1, LoadedResult DEF FindPayload
      <3>2. CASE w' = [w EXCEPT ![p].pc = "fill", ![p].got = db[w[p].tgt]]
        BY <2>2, <2>0, <3>0, <3>2 DEF FindPayload, Local, Steps
      <3>3. CASE Fail(p) BY <2>2, <2>0, <3>3 DEF FindPayload, Local, Steps
      <3> QED BY <2>2, <3>1, <3>2, <3>3 DEF FindPayload
    <2>3. CASE FillCache(p)
      <3>1. w[p].got \in (SUBSET Frame) \cup {None} BY <2>0 DEF Local
      <3>2. w' \in [Process -> Local] BY <2>3, <3>1, LoadedResult DEF FillCache
      <3> QED BY <2>3, <3>1, <3>2 DEF FillCache, CacheField
    <2>4. CASE ContextOwner(p) BY <2>4, <2>0 DEF ContextOwner, WithoutReuse, Local, Steps
    <2>5. CASE DropOwner(p) BY <2>5, <2>0 DEF DropOwner, WithoutReuse, Local, Steps
    <2>6. CASE TryLock(p) BY <2>6, <2>0 DEF TryLock, Local, Steps
    <2>7. CASE SaveContext(p) BY <2>7, <2>0 DEF SaveContext, Local, Steps
    <2>8. CASE SaveCache(p) BY <2>8, <2>0 DEF SaveCache, CacheField, Local, Steps
    <2>9. CASE RememberContextOwner(p) BY <2>9, <2>0 DEF RememberContextOwner, Local, Steps
    <2>10. CASE Unlock(p) BY <2>10, <2>0 DEF Unlock, Local, Steps
    <2>11. CASE buildContext(p) BY <2>11, <2>0 DEF buildContext, Build, Local, Steps, Branch
    <2>12. CASE OverBudget(p)
      <3>1. PICK late \in SUBSET ({w[p].put} \ {None}) :
              w' = [w EXCEPT ![p].pc = "discard", ![p].ok = FALSE, ![p].asr = "late", ![p].ocr = "late",
                             ![p].put = None, ![p].uploaded = @ \cup (({w[p].put} \ {None}) \ late)]
        BY <2>12 DEF OverBudget
      <3>2. w[p].uploaded \cup (({w[p].put} \ {None}) \ late) \in SUBSET Frame BY <2>0 DEF Local
      <3> DEFINE u == w[p].uploaded \cup (({w[p].put} \ {None}) \ late)
      <3>3. w' = [w EXCEPT ![p].pc = "discard", ![p].ok = FALSE, ![p].asr = "late", ![p].ocr = "late",
                           ![p].put = None, ![p].uploaded = u] BY <3>1
      <3> HIDE DEF u
      <3>4. w'[p] \in Local
        <4>1. u \in SUBSET Frame BY <3>2 DEF u
        <4>2. w'[p] = [w[p] EXCEPT !.pc = "discard", !.ok = FALSE, !.asr = "late", !.ocr = "late", !.put = None,
                                   !.uploaded = u] BY <3>3
        <4>3. "late" \in Branch /\ "discard" \in Steps BY DEF Branch, Steps
        <4> QED BY <2>0, <4>1, <4>2, <4>3 DEF Local
      <3> QED BY <2>12, <3>3, <3>4 DEF OverBudget
    <2>13. CASE FinishBuild(p)
      <3>1. w' \in [Process -> Local] BY <2>13, FinishBuildResult
      <3> QED BY <2>13, <3>1 DEF FinishBuild, DeleteFrames
    <2>14. CASE DiscardBuild(p) BY <2>14, <2>0 DEF DiscardBuild, DeleteFrames, Local, Steps
    <2>15. CASE Conclude(p) BY <2>15, <2>0, <1>0 DEF Conclude, Local, Steps
    <2>16. CASE FailedTask(p) BY <2>16, <1>0 DEF FailedTask
    <2>17. CASE PurgeRuntimeArtifacts(p) BY <2>17, <2>0 DEF PurgeRuntimeArtifacts, DeleteFrames, Local, Steps
    <2>18. CASE PurgeCheckpoints(p) BY <2>18, <2>0, <1>0 DEF PurgeCheckpoints, Local, Steps
    <2>19. CASE AsrEnds(p) BY <2>19, <2>0 DEF AsrEnds, Transcribe, Local, Branch
    <2>20. CASE UploadFrame(p)
      <3>1. PICK f \in Frame : /\ w' = [w EXCEPT ![p].ocr = "uploads", ![p].put = f]
                               /\ named' = named \cup {f} /\ frames' = frames \cup {f}
        BY <2>20 DEF UploadFrame
      <3>2. w'[p] \in Local BY <2>0, <3>1 DEF Local, Branch
      <3> QED BY <2>20, <3>1, <3>2 DEF UploadFrame
    <2>21. CASE OnUpload(p)
      <3>1. w[p].uploaded \cup {w[p].put} \in SUBSET Frame BY <2>0, <2>0a, <2>21 DEF OnUpload, Control, Local
      <3>2. w'[p] \in Local BY <2>0, <2>21, <3>1 DEF OnUpload, Local, Branch
      <3> QED BY <2>21, <3>2 DEF OnUpload
    <2>22. CASE OcrEnds(p) BY <2>22, <2>0 DEF OcrEnds, Local, Branch
    <2>23. CASE Crash(p)
      <3>1. [Idle EXCEPT !.pc = "dead"] \in Local BY <1>0 DEF Local, Steps
      <3> QED BY <2>23, <3>1 DEF Crash
    <2> QED BY <1>4, <2>1, <2>2, <2>3, <2>4, <2>5, <2>6, <2>7, <2>8, <2>9, <2>10, <2>11, <2>12, <2>13, <2>14, <2>15, <2>16,
            <2>17, <2>18, <2>19, <2>20, <2>21, <2>22, <2>23 DEF TaskStep, BranchStep
  <1> QED BY <1>1, <1>2, <1>3, <1>4 DEF Next

\* A step of p after which p is where it should be.
LEMMA StepKeepsControl ==
  ASSUME ControlInv, PurgeInv, NEW p \in Process, \A q \in Process : q # p => w'[q] = w[q], rows' \subseteq rows,
         Control(w'[p]),
         w'[p].pc \in Loading \cup {"frames"} /\ w'[p].why = "purge" => w'[p].med \notin rows'
  PROVE  ControlInv' /\ PurgeInv'
  <1>1. \A q \in Process : Control(w'[q]) BY DEF ControlInv
  <1>2. \A q \in Process : w'[q].pc \in Loading \cup {"frames"} /\ w'[q].why = "purge" => w'[q].med \notin rows'
    BY DEF PurgeInv
  <1> QED BY <1>1, <1>2 DEF ControlInv, Control, PurgeInv, Loading, FramesOf

\* A step of p that neither stores nor deletes frames and takes no more in hand than belongs to its media.
LEMMA QuietStep ==
  ASSUME FramesInv, Types', NEW p \in Process, \A q \in Process : q # p => w'[q] = w[q],
         Control(w'[p]),
         w'[p].pc \in Loading \cup {"frames"} /\ w'[p].why = "purge" => w'[p].med \notin rows',
         rows' \subseteq rows, frames' = frames, named' = named,
         \A m \in Media : db'[m] \in {db[m], None} /\ cache'[m] \in {cache[m], None},
         Mine(w'[p]) \subseteq Mine(w[p]),
         \A m \in Media, f \in Frame : For(w'[p]) = m /\ f \in Held(w'[p]) => Belongs(f, m)
  PROVE  FramesInv'
  <1>1. ControlInv' /\ PurgeInv' BY StepKeepsControl DEF FramesInv
  <1>2. \A m \in Media, f \in Frame : f \in FramesOf(db'[m]) => f \in FramesOf(db[m]) BY DEF FramesOf
  <1>3. \A m \in Media, f \in Frame : f \in FramesOf(cache'[m]) => Belongs(f, m) BY DEF FramesOf, Belongs
  <1>4. Mine(w'[p]) \subseteq (Mine(w[p]) \cup (named' \ named)) \cap frames' BY DEF FramesInv, OwnershipInv
  <1>5. frames' \subseteq named' BY DEF FramesInv, OwnershipInv
  <1>6. OwnershipInv' /\ FramesStand'
    <2>1. \A m \in Media, f \in Frame : Belongs(f, m) => Given(p, f, m) BY DEF Given
    <2> QED BY <1>2, <1>3, <1>4, <1>5, <2>1, StepKeepsOwnership DEF FramesInv
  <1> QED BY <1>1, <1>6 DEF FramesInv

\* The steps of p that move no frames.
LEMMA QuietSteps ==
  ASSUME FramesInv, Types', NEW p \in Process,
         \/ ContextOwner(p) \/ DropOwner(p) \/ TryLock(p) \/ RememberContextOwner(p) \/ Unlock(p)
         \/ buildContext(p) \/ OverBudget(p) \/ Conclude(p) \/ FailedTask(p) \/ AsrEnds(p)
         \/ OnUpload(p) \/ OcrEnds(p) \/ Crash(p) \/ PurgeCheckpoints(p)
  PROVE  FramesInv'
  <1> DEFINE Quiet == /\ \A q \in Process : q # p => w'[q] = w[q]
                      /\ rows' = rows /\ frames' = frames /\ named' = named
                      /\ \A m \in Media : db'[m] \in {db[m], None} /\ cache'[m] \in {cache[m], None}
             Settled == /\ Control(w'[p])
                        /\ w'[p].pc \in Loading \cup {"frames"} /\ w'[p].why = "purge" => w'[p].med \notin rows'
                        /\ Mine(w'[p]) \subseteq Mine(w[p]) /\ Held(w'[p]) = {}
  <1>0. w \in [Process -> Local] /\ w[p] \in Local /\ Control(w[p]) BY DEF FramesInv, Types, ControlInv
  <1>t. db \in [Media -> (SUBSET Frame) \cup {None}] /\ cache \in [Media -> (SUBSET Frame) \cup {None}] /\ owner \in Media \cup {None}
    BY DEF FramesInv, Types
  <1>q. ASSUME Quiet, Settled PROVE FramesInv' BY <1>q, QuietStep
  <1> HIDE DEF Quiet, Settled
  <1> USE DEF At, Goto, Fail, Load, shared
  <1>1. CASE ContextOwner(p)
    <2>1. Quiet BY <1>1, <1>0, <1>t DEF Quiet, ContextOwner, WithoutReuse
    <2>2. Settled BY <1>1, <1>0, <1>t DEF Settled, Control, Mine, Held, Local, Loading, FramesOf, ContextOwner, WithoutReuse
    <2> QED BY <1>q, <2>1, <2>2
  <1>2. CASE DropOwner(p)
    <2>1. Quiet BY <1>2, <1>0, <1>t DEF Quiet, DropOwner, WithoutReuse
    <2>2. Settled BY <1>2, <1>0, <1>t DEF Settled, Control, Mine, Held, Local, Loading, FramesOf, DropOwner, WithoutReuse
    <2> QED BY <1>q, <2>1, <2>2
  <1>3. CASE TryLock(p)
    <2>1. Quiet BY <1>3, <1>0, <1>t DEF Quiet, TryLock
    <2>2. Settled BY <1>3, <1>0, <1>t DEF Settled, Control, Mine, Held, Local, Loading, FramesOf, TryLock
    <2> QED BY <1>q, <2>1, <2>2
  <1>4. CASE RememberContextOwner(p)
    <2>1. Quiet BY <1>4, <1>0, <1>t DEF Quiet, RememberContextOwner
    <2>2. Settled BY <1>4, <1>0, <1>t DEF Settled, Control, Mine, Held, Local, Loading, FramesOf, RememberContextOwner
    <2> QED BY <1>q, <2>1, <2>2
  <1>5. CASE Unlock(p)
    <2>1. Quiet BY <1>5, <1>0, <1>t DEF Quiet, Unlock
    <2>2. Settled BY <1>5, <1>0, <1>t DEF Settled, Control, Mine, Held, Local, Loading, FramesOf, Unlock
    <2> QED BY <1>q, <2>1, <2>2
  <1>6. CASE buildContext(p)
    <2>1. Quiet BY <1>6, <1>0, <1>t DEF Quiet, buildContext, Build
    <2>2. Settled BY <1>6, <1>0, <1>t DEF Settled, Control, Mine, Held, Local, Loading, FramesOf, buildContext, Build
    <2> QED BY <1>q, <2>1, <2>2
  <1>7. CASE OverBudget(p)
    <2>1. Quiet BY <1>7, <1>0, <1>t DEF Quiet, OverBudget
    <2>2. PICK late \in SUBSET ({w[p].put} \ {None}) :
            w' = [w EXCEPT ![p].pc = "discard", ![p].ok = FALSE, ![p].asr = "late", ![p].ocr = "late",
                           ![p].put = None, ![p].uploaded = @ \cup (({w[p].put} \ {None}) \ late)]
      BY <1>7 DEF OverBudget
    <2>3. /\ w'[p].pc = "discard" /\ w'[p].asr = "late" /\ w'[p].ocr = "late" /\ w'[p].put = None /\ w'[p].med = w[p].med
          /\ w'[p].uploaded = w[p].uploaded \cup (({w[p].put} \ {None}) \ late)
      BY <1>0, <2>2 DEF Local
    <2>4. Control(w'[p]) /\ w'[p].pc \notin Loading \cup {"frames"}
      BY <1>7, <1>0, <2>3 DEF Control, Loading, OverBudget
    <2>5. Mine(w'[p]) \subseteq Mine(w[p]) /\ Held(w'[p]) = {} BY <1>7, <2>3 DEF Mine, Held, OverBudget
    <2>6. Settled BY <2>4, <2>5 DEF Settled
    <2> QED BY <1>q, <2>1, <2>6
  <1>8. CASE Conclude(p)
    <2>1. Quiet BY <1>8, <1>0, <1>t DEF Quiet, Conclude, Idle
    <2>2. Settled BY <1>8, <1>0, <1>t DEF Settled, Control, Mine, Held, Local, Loading, FramesOf, Conclude, Idle
    <2> QED BY <1>q, <2>1, <2>2
  <1>9. CASE FailedTask(p)
    <2>1. Quiet BY <1>9, <1>0, <1>t DEF Quiet, FailedTask, Idle
    <2>2. Settled BY <1>9, <1>0, <1>t DEF Settled, Control, Mine, Held, Local, Loading, FramesOf, FailedTask, Idle
    <2> QED BY <1>q, <2>1, <2>2
  <1>10. CASE AsrEnds(p)
    <2>1. Quiet BY <1>10, <1>0, <1>t DEF Quiet, AsrEnds
    <2>2. PICK outs \in [Segment -> Outcomes] : w' = [w EXCEPT ![p].asr = Transcribe(outs)] BY <1>10 DEF AsrEnds
    <2>3. \A x \in {"pc", "med", "tgt", "why", "got", "put", "ocr", "uploaded", "vc"} : w'[p][x] = w[p][x]
      BY <1>0, <2>2 DEF Local
    <2>4. w[p].pc = "await" BY <1>10, <1>0 DEF AsrEnds, Control
    <2>5. w'[p].asr # "runs" BY <1>0, <2>2 DEF Local, Transcribe
    <2>6. Control(w'[p]) BY <1>0, <2>3, <2>4, <2>5 DEF Control, Loading
    <2>7. Settled BY <2>3, <2>4, <2>6 DEF Settled, Mine, Held, Loading
    <2> QED BY <1>q, <2>1, <2>7
  <1>11. CASE OnUpload(p)
    <2>1. Quiet BY <1>11, <1>0, <1>t DEF Quiet, OnUpload
    <2>2. Settled BY <1>11, <1>0, <1>t DEF Settled, Control, Mine, Held, Local, Loading, FramesOf, OnUpload
    <2> QED BY <1>q, <2>1, <2>2
  <1>12. CASE OcrEnds(p)
    <2>1. Quiet BY <1>12, <1>0, <1>t DEF Quiet, OcrEnds
    <2>2. Settled BY <1>12, <1>0, <1>t DEF Settled, Control, Mine, Held, Local, Loading, FramesOf, OcrEnds
    <2> QED BY <1>q, <2>1, <2>2
  <1>13. CASE Crash(p)
    <2>1. Quiet BY <1>13, <1>0, <1>t DEF Quiet, Crash, Idle
    <2>2. Settled BY <1>13, <1>0, <1>t DEF Settled, Control, Mine, Held, Local, Loading, FramesOf, Crash, Idle
    <2> QED BY <1>q, <2>1, <2>2
  <1>14. CASE PurgeCheckpoints(p)
    <2>1. Quiet BY <1>14, <1>0, <1>t DEF Quiet, PurgeCheckpoints, Idle
    <2>2. Settled BY <1>14, <1>0, <1>t DEF Settled, Control, Mine, Held, Local, Loading, FramesOf, PurgeCheckpoints, Idle
    <2> QED BY <1>q, <2>1, <2>2
  <1> QED BY <1>1, <1>2, <1>3, <1>4, <1>5, <1>6, <1>7, <1>8, <1>9, <1>10, <1>11, <1>12, <1>13, <1>14

\* The loads; the write to the cache that may end one is below.
LEMMA LoadSteps ==
  ASSUME FramesInv, Types', NEW p \in Process, ReadCache(p) \/ FindPayload(p) \/ FillCache(p)
  PROVE  FramesInv'
  <1>0. w \in [Process -> Local] /\ w[p] \in Local /\ Control(w[p]) BY DEF FramesInv, Types, ControlInv
  <1>t. db \in [Media -> (SUBSET Frame) \cup {None}] /\ cache \in [Media -> (SUBSET Frame) \cup {None}]
    BY DEF FramesInv, Types
  <1> DEFINE m == w[p].tgt
  <1>m. w[p].pc \in Loading /\ m \in Media BY <1>0 DEF ReadCache, FindPayload, FillCache, At, Control, Loading
  <1>1. ASSUME NEW context \in (SUBSET Frame) \cup {None}, Loaded(p, context), \A f \in FramesOf(context) : Belongs(f, m)
        PROVE  /\ \A q \in Process : q # p => w'[q] = w[q]
               /\ Control(w'[p])
               /\ w'[p].pc \in Loading \cup {"frames"} /\ w'[p].why = "purge" => w'[p].med \notin rows
               /\ Mine(w'[p]) = {}
               /\ \A n \in Media, f \in Frame : For(w'[p]) = n /\ f \in Held(w'[p]) => Belongs(f, n)
    <2>1. /\ \A q \in Process : q # p => w'[q] = w[q]
          /\ \A x \in {"med", "tgt", "why", "put", "asr", "ocr", "uploaded"} : w'[p][x] = w[p][x]
          /\ w[p].why = "purge" => w'[p].pc = "frames" /\ w'[p].got = context
          /\ w[p].why # "purge" => /\ w'[p].pc \in {"unlock", "owner", "drop", "save"}
                                   /\ w'[p].pc = "save" => FramesOf(w'[p].vc) = {}
      BY <1>0, <1>1, LoadedResult
    <2>2. w[p].why = "purge" => w[p].med \notin rows BY <1>m DEF FramesInv, PurgeInv
    <2>3. w[p].put = None /\ (w[p].why # "purge" => w[p].uploaded = {}) BY <1>0, <1>m DEF Control, Loading
    <2>4. Control(w'[p]) BY <1>0, <1>m, <2>1, <2>3 DEF Control, Loading
    <2>5. Mine(w'[p]) = {} BY <2>1, <2>3 DEF Mine
    <2>6. \A n \in Media, f \in Frame : For(w'[p]) = n /\ f \in Held(w'[p]) => Belongs(f, n)
      BY <1>1, <2>1 DEF For, Held
    <2> QED BY <2>1, <2>2, <2>4, <2>5, <2>6
  <1>2. CASE ReadCache(p)
    <2>0. /\ rows' = rows /\ frames' = frames /\ named' = named /\ db' = db
          /\ \A n \in Media : cache'[n] \in {cache[n], None}
      BY <1>2, <1>t DEF ReadCache
    <2>1. CASE Loaded(p, cache[m])
      <3>1. cache[m] \in (SUBSET Frame) \cup {None} /\ \A f \in FramesOf(cache[m]) : Belongs(f, m)
        BY <1>m, <1>t DEF Belongs
      <3> QED BY <1>1, <2>0, <2>1, <3>1, QuietStep
    <2>2. CASE Goto(p, "query")
      <3>1. /\ \A q \in Process : q # p => w'[q] = w[q]
            /\ w'[p].pc = "query"
            /\ \A x \in {"med", "tgt", "why", "put", "asr", "ocr", "uploaded"} : w'[p][x] = w[p][x]
        BY <1>0, <2>2 DEF Goto, Local
      <3>2. Control(w'[p]) BY <1>0, <1>m, <3>1 DEF Control, Loading
      <3>3. w[p].why = "purge" => w[p].med \notin rows BY <1>m DEF FramesInv, PurgeInv
      <3>4. Mine(w'[p]) = {} /\ Held(w'[p]) = {} BY <3>1 DEF Mine, Held
      <3> QED BY <2>0, <3>1, <3>2, <3>3, <3>4, QuietStep
    <2> QED BY <1>2, <2>1, <2>2 DEF ReadCache
  <1>3. CASE FindPayload(p)
    <2>0. rows' = rows /\ frames' = frames /\ named' = named /\ db' = db /\ cache' = cache
      BY <1>3 DEF FindPayload, shared
    <2>1. CASE Loaded(p, None)
      <3>1. \A f \in FramesOf(None) : Belongs(f, m) BY DEF FramesOf
      <3> QED BY <1>1, <2>0, <2>1, <3>1, QuietStep
    <2>2. CASE w' = [w EXCEPT ![p].pc = "fill", ![p].got = db[w[p].tgt]]
      <3>1. /\ \A q \in Process : q # p => w'[q] = w[q]
            /\ w'[p].pc = "fill" /\ w'[p].got = db[m]
            /\ \A x \in {"med", "tgt", "why", "put", "asr", "ocr", "uploaded"} : w'[p][x] = w[p][x]
        BY <1>0, <2>2 DEF Local
      <3>2. Control(w'[p]) BY <1>0, <1>m, <3>1 DEF Control, Loading
      <3>3. w[p].why = "purge" => w[p].med \notin rows BY <1>m DEF FramesInv, PurgeInv
      <3>4. Mine(w'[p]) = {} BY <3>1 DEF Mine
      <3>5. \A n \in Media, f \in Frame : For(w'[p]) = n /\ f \in Held(w'[p]) => Belongs(f, n)
        BY <3>1 DEF For, Held, Belongs
      <3> QED BY <2>0, <3>1, <3>2, <3>3, <3>4, <3>5, QuietStep
    <2>3. CASE Fail(p) /\ w[p].why # "purge"
      <3>1. /\ \A q \in Process : q # p => w'[q] = w[q]
            /\ w'[p].pc = "unlock"
            /\ \A x \in {"med", "tgt", "why", "put", "asr", "ocr", "uploaded"} : w'[p][x] = w[p][x]
        BY <1>0, <2>3 DEF Fail, Local
      <3>2. Control(w'[p]) BY <1>0, <1>m, <3>1 DEF Control, Loading
      <3>3. Mine(w'[p]) = {} /\ Held(w'[p]) = {} BY <3>1 DEF Mine, Held
      <3> QED BY <2>0, <3>1, <3>2, <3>3, QuietStep DEF Loading
    <2> QED BY <1>3, <2>1, <2>2, <2>3 DEF FindPayload
  <1>4. CASE FillCache(p)
    <2>1. /\ rows' = rows /\ frames' = frames /\ named' = named /\ db' = db
          /\ \A n \in Media : cache'[n] \in {cache[n], None} \/ (n = m /\ cache'[n] = w[p].got)
      BY <1>4, <1>t DEF FillCache, CacheField
    <2>2. \A f \in FramesOf(w[p].got) : Belongs(f, m) BY <1>4 DEF FillCache, At, Belongs, For, Held
    <2>3. w[p].got \in (SUBSET Frame) \cup {None} /\ Loaded(p, w[p].got) BY <1>0, <1>4 DEF FillCache, Local
    <2>4. /\ \A q \in Process : q # p => w'[q] = w[q]
          /\ Control(w'[p])
          /\ w'[p].pc \in Loading \cup {"frames"} /\ w'[p].why = "purge" => w'[p].med \notin rows'
          /\ Mine(w'[p]) = {}
          /\ \A n \in Media, f \in Frame : For(w'[p]) = n /\ f \in Held(w'[p]) => Belongs(f, n)
      BY <1>1, <2>1, <2>2, <2>3
    <2>5. \A n \in Media, f \in Frame : f \in FramesOf(cache'[n]) => Belongs(f, n)
      BY <2>1, <2>2 DEF FramesOf, Belongs
    <2>6. ControlInv' /\ PurgeInv' BY <2>1, <2>4, StepKeepsControl DEF FramesInv
    <2>7. OwnershipInv' /\ FramesStand'
      <3>1. \A n \in Media, f \in Frame : Belongs(f, n) => Given(p, f, n) BY DEF Given
      <3>2. frames' \subseteq named' BY <2>1 DEF FramesInv, OwnershipInv
      <3> QED BY <2>1, <2>4, <2>5, <3>1, <3>2, StepKeepsOwnership DEF FramesInv
    <2> QED BY <2>6, <2>7 DEF FramesInv
  <1> QED BY <1>2, <1>3, <1>4

\* The steps that save a context, or upload or delete frames.
LEMMA FrameSteps ==
  ASSUME FramesInv, Types', NEW p \in Process,
         \/ SaveContext(p) \/ SaveCache(p) \/ UploadFrame(p)
         \/ FinishBuild(p) \/ DiscardBuild(p) \/ PurgeRuntimeArtifacts(p)
  PROVE  FramesInv'
  <1>0. w \in [Process -> Local] /\ w[p] \in Local /\ Control(w[p]) BY DEF FramesInv, Types, ControlInv
  <1>t. db \in [Media -> (SUBSET Frame) \cup {None}] /\ cache \in [Media -> (SUBSET Frame) \cup {None}]
    BY DEF FramesInv, Types
  <1>g. \A n \in Media, f \in Frame : Belongs(f, n) => Given(p, f, n) BY DEF Given
  <1>d. /\ \A n \in Media, f \in Frame : f \in FramesOf(db[n]) => Belongs(f, n)
        /\ \A n \in Media, f \in Frame : f \in FramesOf(cache[n]) => Belongs(f, n)
    BY DEF Belongs
  <1>n. frames \subseteq named /\ Mine(w[p]) \subseteq frames BY DEF FramesInv, OwnershipInv
  <1> USE DEF shared
  <1>1. CASE SaveContext(p)
    <2>0. /\ w[p].pc = "save" /\ w[p].med \in Media /\ FramesOf(w[p].vc) \subseteq w[p].uploaded
          /\ w[p].ocr \notin {"runs", "uploads"} /\ w[p].asr # "runs" /\ w[p].put = None
          /\ rows' = rows /\ cache' = cache /\ frames' = frames /\ named' = named
      BY <1>1, <1>0 DEF SaveContext, At, Control
    <2>1. CASE Goto(p, "saveCache") /\ db' = [db EXCEPT ![w[p].med] = w[p].vc]
      <3>1. /\ \A q \in Process : q # p => w'[q] = w[q]
            /\ w'[p].pc = "saveCache"
            /\ \A x \in {"med", "vc", "put", "asr", "ocr"} : w'[p][x] = w[p][x]
        BY <1>0, <2>1 DEF Goto, Local
      <3>2. Control(w'[p]) /\ w'[p].pc \notin Loading \cup {"frames"} BY <2>0, <3>1 DEF Control, Loading
      <3>3. Mine(w'[p]) = {} BY <3>1 DEF Mine
      <3>4. \A f \in FramesOf(w[p].vc) : f \in Mine(w[p]) /\ Given(p, f, w[p].med) BY <2>0, <3>3 DEF Mine, Given
      <3>5. \A n \in Media, f \in Frame : f \in FramesOf(db'[n]) => f \in FramesOf(db[n]) \/ (f \in Mine(w[p]) /\ Given(p, f, n))
        BY <1>t, <2>0, <2>1, <3>4
      <3>6. \A n \in Media, f \in Frame : For(w'[p]) = n /\ f \in Held(w'[p]) => Given(p, f, n)
        BY <3>1, <3>4 DEF For, Held
      <3>7. ControlInv' /\ PurgeInv' BY <2>0, <3>1, <3>2, StepKeepsControl DEF FramesInv
      <3>8. \A n \in Media, f \in Frame : f \in FramesOf(cache'[n]) => Given(p, f, n) BY <1>g, <1>d, <2>0
      <3>9. OwnershipInv' /\ FramesStand'
        BY <1>n, <2>0, <3>1, <3>3, <3>5, <3>6, <3>8, StepKeepsOwnership DEF FramesInv
      <3> QED BY <3>7, <3>9 DEF FramesInv
    <2>2. CASE w' = [w EXCEPT ![p].pc = "discard", ![p].ok = FALSE] /\ db' = db
      <3>1. /\ \A q \in Process : q # p => w'[q] = w[q]
            /\ w'[p].pc = "discard"
            /\ \A x \in {"med", "put", "asr", "ocr", "uploaded"} : w'[p][x] = w[p][x]
        BY <1>0, <2>2 DEF Local
      <3>2. Control(w'[p]) /\ w'[p].pc \notin Loading \cup {"frames"} BY <2>0, <3>1 DEF Control, Loading
      <3>3. Mine(w'[p]) = Mine(w[p]) /\ Held(w'[p]) = {} BY <2>0, <3>1 DEF Mine, Held
      <3> QED BY <2>0, <2>2, <3>1, <3>2, <3>3, QuietStep
    <2> QED BY <1>1, <2>1, <2>2 DEF SaveContext
  <1>2. CASE SaveCache(p)
    <2>1. /\ w[p].pc = "saveCache" /\ w[p].med \in Media
          /\ w[p].ocr \notin {"runs", "uploads"} /\ w[p].asr # "runs" /\ w[p].put = None
          /\ rows' = rows /\ db' = db /\ frames' = frames /\ named' = named
          /\ \A n \in Media : cache'[n] \in {cache[n], None} \/ (n = w[p].med /\ cache'[n] = w[p].vc)
      BY <1>2, <1>0, <1>t DEF SaveCache, At, Control, CacheField
    <2>2. /\ \A q \in Process : q # p => w'[q] = w[q]
          /\ w'[p].pc \in {"unlock", "remember"}
          /\ \A x \in {"med", "put", "asr", "ocr"} : w'[p][x] = w[p][x]
      BY <1>0, <1>2 DEF SaveCache, Goto, Local
    <2>3. Control(w'[p]) /\ w'[p].pc \notin Loading \cup {"frames"} BY <2>1, <2>2 DEF Control, Loading
    <2>4. Mine(w'[p]) = {} /\ Held(w'[p]) = {} BY <2>2 DEF Mine, Held
    <2>5. \A f \in FramesOf(w[p].vc) : Belongs(f, w[p].med) BY <2>1 DEF Belongs, For, Held
    <2>6. \A n \in Media, f \in Frame : f \in FramesOf(cache'[n]) => Given(p, f, n)
      BY <1>g, <1>d, <2>1, <2>5 DEF FramesOf
    <2>7. ControlInv' /\ PurgeInv' BY <2>1, <2>2, <2>3, StepKeepsControl DEF FramesInv
    <2>8. OwnershipInv' /\ FramesStand'
      BY <1>n, <2>1, <2>2, <2>4, <2>6, StepKeepsOwnership DEF FramesInv
    <2> QED BY <2>7, <2>8 DEF FramesInv
  <1>3. CASE UploadFrame(p)
    <2>1. PICK f \in Frame \ named : /\ named' = named \cup {f} /\ frames' = frames \cup {f}
                                     /\ w' = [w EXCEPT ![p].ocr = "uploads", ![p].put = f]
      BY <1>3 DEF UploadFrame
    <2>2. rows' = rows /\ db' = db /\ cache' = cache /\ w[p].pc = "await" BY <1>3, <1>0 DEF UploadFrame, Control
    <2>3. /\ \A q \in Process : q # p => w'[q] = w[q]
          /\ w'[p].ocr = "uploads" /\ w'[p].put = f
          /\ \A x \in {"pc", "med", "tgt", "uploaded"} : w'[p][x] = w[p][x]
      BY <1>0, <2>1 DEF Local
    <2>4. Control(w'[p]) /\ w'[p].pc \notin Loading \cup {"frames"} BY <1>0, <2>1, <2>2, <2>3 DEF Control, Loading
    <2>5. Mine(w'[p]) \subseteq Mine(w[p]) \cup {f} /\ Held(w'[p]) = {} BY <2>2, <2>3 DEF Mine, Held
    <2>6. ControlInv' /\ PurgeInv' BY <2>2, <2>3, <2>4, StepKeepsControl DEF FramesInv
    <2>7. /\ \A n \in Media, g \in Frame : g \in FramesOf(cache'[n]) => Given(p, g, n)
          /\ \A n \in Media, g \in Frame : g \in FramesOf(db'[n]) => g \in FramesOf(db[n])
      BY <1>g, <1>d, <2>2
    <2>8. /\ Mine(w'[p]) \subseteq (Mine(w[p]) \cup (named' \ named)) \cap frames'
          /\ named \subseteq named' /\ frames' \subseteq named' /\ frames \subseteq frames'
      BY <1>n, <2>1, <2>5
    <2>9. OwnershipInv' /\ FramesStand'
      BY <2>2, <2>3, <2>5, <2>7, <2>8, StepKeepsOwnership DEF FramesInv
    <2> QED BY <2>6, <2>9 DEF FramesInv
  <1>4. CASE FinishBuild(p)
    <2>0. /\ w[p].pc = "await" /\ w[p].asr \in {"ok", "failed"} /\ w[p].ocr \in {"ok", "failed"}
          /\ w[p].put = None /\ w[p].med \in Media
          /\ rows' = rows /\ db' = db /\ cache' = cache /\ named' = named
      BY <1>4, <1>0 DEF FinishBuild, At, Control
    <2>1. /\ \A q \in Process : q # p => w'[q] = w[q]
          /\ w'[p].pc \in {"save", "discard"} /\ w'[p].uploaded \in {w[p].uploaded, {}}
          /\ w'[p].pc = "save" => FramesOf(w'[p].vc) \subseteq w'[p].uploaded
          /\ w'[p].med = w[p].med /\ w'[p].put = w[p].put /\ w'[p].asr = w[p].asr /\ w'[p].ocr = w[p].ocr
          /\ w[p].ocr = "failed" /\ w[p].asr = "ok" => w'[p].uploaded = {}
      BY <1>4, FinishBuildResult DEF FramesInv
    <2>2. Control(w'[p]) /\ w'[p].pc \notin Loading \cup {"frames"} BY <2>0, <2>1 DEF Control, Loading
    <2>3. Mine(w'[p]) = w'[p].uploaded /\ Mine(w[p]) = w[p].uploaded /\ Held(w'[p]) = {} BY <2>0, <2>1 DEF Mine, Held
    <2>4. ControlInv' /\ PurgeInv' BY <2>0, <2>1, <2>2, StepKeepsControl DEF FramesInv
    <2>5. /\ \A n \in Media, g \in Frame : g \in FramesOf(cache'[n]) => Given(p, g, n)
          /\ \A n \in Media, g \in Frame : g \in FramesOf(db'[n]) => g \in FramesOf(db[n])
      BY <1>g, <1>d, <2>0
    <2>6. /\ frames' \subseteq frames
          /\ frames' = frames \/ (frames \ frames' \subseteq w[p].uploaded /\ w'[p].uploaded = {})
      BY <1>4, <2>1 DEF FinishBuild, DeleteFrames
    <2>7. Mine(w'[p]) \subseteq Mine(w[p]) \cap frames' BY <1>n, <2>1, <2>3, <2>6
    <2>8. \A f \in frames \ frames' : f \in Mine(w[p]) /\ f \notin Mine(w'[p]) BY <2>3, <2>6
    <2>9. OwnershipInv' /\ FramesStand'
      <3>1. frames' \subseteq named' /\ named \subseteq named' BY <1>n, <2>0, <2>6
      <3> QED BY <2>0, <2>1, <2>3, <2>5, <2>7, <2>8, <3>1, StepKeepsOwnership DEF FramesInv
    <2> QED BY <2>4, <2>9 DEF FramesInv
  <1>5. CASE DiscardBuild(p) \/ PurgeRuntimeArtifacts(p)
    <2> DEFINE gone == IF w[p].pc = "discard" THEN w[p].uploaded ELSE FramesOf(w[p].got)
    <2>0. /\ w[p].pc \in {"discard", "frames"} /\ w[p].med \in Media
          /\ w[p].ocr \notin {"runs", "uploads"} /\ w[p].asr # "runs" /\ w[p].put = None
          /\ rows' = rows /\ db' = db /\ cache' = cache /\ named' = named
          /\ frames' \subseteq frames /\ frames \ frames' \subseteq gone
      BY <1>5, <1>0 DEF DiscardBuild, PurgeRuntimeArtifacts, DeleteFrames, At, Control
    <2>1. /\ \A q \in Process : q # p => w'[q] = w[q]
          /\ w'[p].pc \in {"unlock", "purge"}
          /\ \A x \in {"med", "put", "asr", "ocr"} : w'[p][x] = w[p][x]
      BY <1>0, <1>5 DEF DiscardBuild, PurgeRuntimeArtifacts, Goto, Local
    <2>2. Control(w'[p]) /\ w'[p].pc \notin Loading \cup {"frames"} BY <2>0, <2>1 DEF Control, Loading
    <2>3. Mine(w'[p]) = {} /\ Held(w'[p]) = {} BY <2>1 DEF Mine, Held
    <2>4. ControlInv' /\ PurgeInv' BY <2>0, <2>1, <2>2, StepKeepsControl DEF FramesInv
    <2>5. /\ \A n \in Media, g \in Frame : g \in FramesOf(cache'[n]) => Given(p, g, n)
          /\ \A n \in Media, g \in Frame : g \in FramesOf(db'[n]) => g \in FramesOf(db[n])
      BY <1>g, <1>d, <2>0
    <2>6. \A f \in frames \ frames' : \/ f \in Mine(w[p]) /\ f \notin Mine(w'[p])
                                      \/ \E n \in Media \ rows : Belongs(f, n)
      <3>1. CASE w[p].pc = "discard" BY <2>0, <2>3, <3>1 DEF Mine
      <3>2. CASE w[p].pc = "frames"
        <4>1. w[p].tgt = w[p].med /\ w[p].why = "purge" BY <1>0, <3>2 DEF Control
        <4>2. w[p].med \in Media \ rows BY <2>0, <3>2, <4>1 DEF FramesInv, PurgeInv
        <4>3. \A f \in FramesOf(w[p].got) : Belongs(f, w[p].med) BY <3>2, <4>1 DEF Belongs, For, Held
        <4> QED BY <2>0, <3>2, <4>2, <4>3
      <3> QED BY <2>0, <3>1, <3>2
    <2>7. OwnershipInv' /\ FramesStand'
      <3>1. frames' \subseteq named' /\ named \subseteq named' BY <1>n, <2>0
      <3> HIDE DEF gone
      <3> QED BY <2>0, <2>1, <2>3, <2>5, <2>6, <3>1, StepKeepsOwnership DEF FramesInv
    <2> QED BY <2>4, <2>7 DEF FramesInv
  <1> QED BY <1>1, <1>2, <1>3, <1>4, <1>5

\* Every step keeps the invariant.
LEMMA NextFrames == FramesInv /\ [Next]_vars => FramesInv'
  <1> SUFFICES ASSUME FramesInv, [Next]_vars PROVE FramesInv' OBVIOUS
  <1>0. Types' BY TypesPreserved DEF FramesInv
  <1>t. w \in [Process -> Local] BY DEF FramesInv, Types
  <1>1. ASSUME NEW p \in Process, NEW m \in Media, AsyncAnalyze(p, m) \/ DeleteByID(p, m) PROVE FramesInv'
    <2>1. /\ \A q \in Process : q # p => w'[q] = w[q]
          /\ rows' \subseteq rows /\ frames' = frames /\ named' = named /\ db' = db /\ cache' = cache
          /\ w'[p].pc = "cache" /\ w'[p].med = m /\ w'[p].tgt = m /\ w'[p].why \in {"own", "purge"}
          /\ w'[p].asr = "off" /\ w'[p].ocr = "off" /\ w'[p].put = None /\ w'[p].uploaded = {}
          /\ w'[p].why = "purge" => m \notin rows'
      BY <1>1, <1>t DEF AsyncAnalyze, DeleteByID, shared, Idle
    <2>2. Control(w'[p]) BY <2>1 DEF Control, Loading
    <2>3. Mine(w'[p]) = {} /\ Held(w'[p]) = {} BY <2>1 DEF Mine, Held
    <2> QED BY <1>0, <2>1, <2>2, <2>3, QuietStep
  <1>2. CASE LeaseExpires \/ UNCHANGED vars
    <2>1. UNCHANGED <<rows, db, cache, frames, named, w>> BY <1>2 DEF LeaseExpires, vars, shared
    <2>2. \A f, m : Belongs(f, m)' <=> Belongs(f, m) BY <2>1 DEF Belongs
    <2>3. ControlInv' /\ PurgeInv' BY <2>1 DEF FramesInv, ControlInv, PurgeInv
    <2>4. OwnershipInv' BY <2>1, <2>2 DEF FramesInv, OwnershipInv
    <2>5. FramesStand' BY <2>1 DEF FramesInv, FramesStand
    <2> QED BY <1>0, <2>3, <2>4, <2>5 DEF FramesInv
  <1>3. ASSUME NEW p \in Process, TaskStep(p) \/ BranchStep(p) \/ Crash(p) PROVE FramesInv'
    BY <1>0, <1>3, QuietSteps, LoadSteps, FrameSteps DEF TaskStep, BranchStep
  <1> QED BY <1>1, <1>2, <1>3 DEF Next

\* The frames of every media that exists are stored, for any number of workers, media, frames and failures, lost
\* leases included: no failed build, reuse of a context or deletion of another copy of the video removes them.
THEOREM FramesAreKept == Spec => []FramesStand
  <1>1. Init => FramesInv BY InitFrames
  <1>2. FramesInv /\ [Next]_vars => FramesInv' BY NextFrames
  <1>3. FramesInv => FramesStand BY DEF FramesInv
  <1> QED BY <1>1, <1>2, <1>3, PTL DEF Spec

----------------------------------------------------------------------------
(* Deleted media, and the frames that are left                             *)

\* A context of a deleted media is purged by somebody who still works for the media and has not passed that point.
PurgeAhead == \A m \in Media \ rows : \/ db[m] = None \/ m \in left
                                      \/ \E p \in Process : w[p].med = m /\ w[p].pc \notin {"idle", "dead", "purgeCache"}

\* A frame is part of a context, in the hands of a build, or left behind; a purge has deleted what it could load.
Accounted == \A f \in frames : (\E m \in Media : f \in FramesOf(db[m])) \/ (\E p \in Process : f \in Mine(w[p])) \/ f \in left
PurgeDone == \A p \in Process : w[p].pc = "purge" => \A f \in FramesOf(w[p].got) : f \in named /\ (f \in frames => f \in left)

----------------------------------------------------------------------------
(* One context for each media                                              *)

\* A process that builds, and one that copies the context of another media.
Builds(r) == r.pc \in {"build", "await"} \/ (r.pc \in {"save", "saveCache", "remember"} /\ r.asr # "off")
Saved(r) == r.pc \in {"saveCache", "remember"} /\ r.asr # "off"
Copies(r) == (r.pc \in Loading /\ r.why = "owner") \/ r.pc = "drop" \/ (r.pc = "save" /\ r.asr = "off")
\* A process that has the context lock: it looks everything up again, and may build.
Holds(r) == r.locked /\ \/ r.pc \in {"owner", "drop"} \/ Builds(r)
                        \/ r.pc \in Loading /\ r.why # "purge"

\* The course of an attempt.
Course(r) ==
  /\ r.pc \in Loading /\ r.why = "own" => r.tgt = r.med
  /\ r.pc = "fill" => r.got # None
  /\ (r.pc \in Loading /\ r.why # "purge") \/ r.pc \in {"owner", "drop", "lock", "build"} => r.asr = "off"
  /\ r.pc \in {"await", "remember"} => r.asr # "off"
  /\ r.locked => r.second
  /\ r.pc = "lock" => ~r.second
  /\ Builds(r) => r.locked
  /\ r.pc \in {"save", "saveCache"} => r.vc # None
  /\ r.pc = "save" => r.vc = r.uploaded
  /\ r.pc = "save" /\ r.asr = "off" => r.uploaded = {}

CourseInv == \A p \in Process : Course(w[p])
LockInv == \A p \in Process : Holds(w[p]) => lock = p
GoneInv == \A p \in Process : w[p].pc \in {"purge", "purgeCache"} => w[p].med \notin rows

\* What a process does fits what is registered and stored: whoever builds has found no other owner, and no context of
\* its own; whoever copies has found an owner; what is about to be cached is what the database has.
Fits(r) ==
  /\ Builds(r) => owner \in {None, r.med}
  /\ Copies(r) => owner \notin {None, r.med}
  /\ Builds(r) /\ ~Saved(r) /\ r.med \in rows => db[r.med] = None
  /\ r.pc = "owner" /\ r.locked /\ r.med \in rows => db[r.med] = None \/ owner \notin {None, r.med}
  /\ r.pc = "fill" /\ r.tgt \in rows => r.got = db[r.tgt]
  /\ r.pc = "saveCache" /\ r.med \in rows => r.vc = db[r.med]

\* A context that is not a copy is registered, or will be.
Known == \A m \in rows : db[m] \in {None, {}} \/ owner = m \/ \E p \in Process : w[p].med = m /\ Saved(w[p])

Agrees == \A m \in rows : cache[m] \in {None, db[m]}

Registered == ownerLost \/ ((\A p \in Process : Fits(w[p])) /\ Known /\ Agrees)

----------------------------------------------------------------------------
(* What each step does to the process that takes it                        *)

Fields == {"med", "tgt", "why", "got", "second", "locked", "asr", "ocr", "put", "uploaded", "vc"}

\* Process p goes to a step of the set, and everything but these fields is as before.
Moves(p, to, but) == /\ w'[p].pc \in to /\ \A x \in Fields \ but : w'[p][x] = w[p][x]
                     /\ \A q \in Process : q # p => w'[q] = w[q]

\* Process p is done, or dead.
Ends(p, to) == /\ w'[p].pc \in to /\ w'[p].locked = FALSE /\ w'[p].second = FALSE
               /\ \A q \in Process : q # p => w'[q] = w[q]

Takes(p, context) ==
  /\ w[p].why = "own" => Moves(p, {IF context # None THEN "unlock" ELSE "owner"}, {})
  /\ w[p].why = "owner" => IF context = None THEN Moves(p, {"drop"}, {}) ELSE Moves(p, {"save"}, {"vc"}) /\ w'[p].vc = {}
  /\ w[p].why = "purge" => Moves(p, {"frames"}, {"got"}) /\ w'[p].got = context

LEMMA LoadedTakes ==
  ASSUME w \in [Process -> Local], NEW p \in Process, NEW context, Loaded(p, context)
  PROVE  Takes(p, context)
  <1>0. w[p] \in Local /\ w[p].why \in {"own", "owner", "purge"} BY DEF Local
  <1>1. CASE w[p].why = "own" BY <1>0, <1>1 DEF Loaded, OwnContext, Goto, Takes, Moves, Fields, Local
  <1>2. CASE w[p].why = "owner"
    BY <1>0, <1>2 DEF Loaded, ReuseContext, ReusableContext, Goto, Takes, Moves, Fields, Local
  <1>3. CASE w[p].why = "purge" BY <1>0, <1>3 DEF Loaded, Takes, Moves, Fields, Local
  <1> QED BY <1>0, <1>1, <1>2, <1>3

\* There is nothing to reuse.
Looks(p) == IF ~w[p].second THEN Moves(p, {"lock"}, {}) ELSE IF w[p].locked THEN Moves(p, {"build"}, {}) ELSE Moves(p, {"unlock"}, {})

LEMMA WithoutReuseLooks ==
  ASSUME w \in [Process -> Local], NEW p \in Process, WithoutReuse(p)
  PROVE  Looks(p)
  BY DEF WithoutReuse, Looks, Goto, Fail, Moves, Fields, Local

\* Frames are deleted, or left behind.
Deletes(gone) == /\ frames' \subseteq frames /\ left \subseteq left'
                 /\ \A f \in frames : f \notin gone => f \in frames'
                 /\ \A f \in gone : f \in frames' => f \in left'

LEMMA DeleteFramesDeletes ==
  ASSUME NEW gone, DeleteFrames(gone)
  PROVE  Deletes(gone)
  BY DEF DeleteFrames, Deletes

LEMMA ReadCacheMoves ==
  ASSUME Types, NEW p \in Process, ReadCache(p)
  PROVE  /\ w[p].pc = "cache"
         /\ \/ cache' = cache /\ cache[w[p].tgt] # None /\ Takes(p, cache[w[p].tgt])
            \/ Moves(p, {"query"}, {}) /\ \A n \in Media : cache'[n] \in {cache[n], None}
         /\ UNCHANGED <<rows, db, owner, ownerLost, lock, frames, named, left>>
  <1>0. w \in [Process -> Local] /\ w[p] \in Local /\ cache \in [Media -> (SUBSET Frame) \cup {None}] BY DEF Types
  <1>1. ASSUME Goto(p, "query") PROVE Moves(p, {"query"}, {}) BY <1>0, <1>1 DEF Goto, Moves, Fields, Local
  <1>2. ASSUME cache' \in {cache, [cache EXCEPT ![w[p].tgt] = None]} PROVE \A n \in Media : cache'[n] \in {cache[n], None}
    BY <1>0, <1>2
  <1>3. ASSUME Loaded(p, cache[w[p].tgt]) PROVE Takes(p, cache[w[p].tgt]) BY <1>0, <1>3, LoadedTakes
  <1> QED BY <1>1, <1>2, <1>3 DEF ReadCache, At

LEMMA FindPayloadMoves ==
  ASSUME Types, NEW p \in Process, FindPayload(p)
  PROVE  /\ w[p].pc = "query"
         /\ \/ db[w[p].tgt] = None /\ Takes(p, None)
            \/ Moves(p, {"fill"}, {"got"}) /\ w'[p].got = db[w[p].tgt] /\ db[w[p].tgt] # None
            \/ w[p].why = "purge" /\ Takes(p, None)
            \/ w[p].why # "purge" /\ Moves(p, {"unlock"}, {})
         /\ UNCHANGED <<shared, left>>
  <1>0. w \in [Process -> Local] /\ w[p] \in Local BY DEF Types
  <1>1. ASSUME w' = [w EXCEPT ![p].pc = "fill", ![p].got = db[w[p].tgt]]
        PROVE  Moves(p, {"fill"}, {"got"}) /\ w'[p].got = db[w[p].tgt]
    BY <1>0, <1>1 DEF Moves, Fields, Local
  <1>2. ASSUME Loaded(p, None) PROVE Takes(p, None) BY <1>0, <1>2, LoadedTakes
  <1>3. ASSUME Fail(p) PROVE Moves(p, {"unlock"}, {}) BY <1>0, <1>3 DEF Fail, Moves, Fields, Local
  <1> QED BY <1>1, <1>2, <1>3 DEF FindPayload, At

LEMMA FillCacheMoves ==
  ASSUME Types, NEW p \in Process, FillCache(p)
  PROVE  /\ w[p].pc = "fill" /\ Takes(p, w[p].got)
         /\ \A n \in Media : cache'[n] \in {cache[n], None} \/ (n = w[p].tgt /\ cache'[n] = w[p].got)
         /\ UNCHANGED <<rows, db, owner, ownerLost, lock, frames, named, left>>
  <1>0. w \in [Process -> Local] /\ w[p] \in Local /\ cache \in [Media -> (SUBSET Frame) \cup {None}] BY DEF Types
  <1>1. Takes(p, w[p].got) BY <1>0, LoadedTakes DEF FillCache
  <1> QED BY <1>0, <1>1 DEF FillCache, CacheField, At

LEMMA SaveContextMoves ==
  ASSUME Types, NEW p \in Process, SaveContext(p)
  PROVE  /\ w[p].pc = "save"
         /\ \/ /\ Moves(p, {"saveCache"}, {}) /\ db' = [db EXCEPT ![w[p].med] = w[p].vc]
               /\ left' = left \cup FramesOf(db[w[p].med])
            \/ Moves(p, {"discard"}, {}) /\ UNCHANGED <<db, left>>
         /\ UNCHANGED <<rows, cache, owner, ownerLost, lock, frames, named>>
  <1>0. w \in [Process -> Local] /\ w[p] \in Local BY DEF Types
  <1>1. ASSUME Goto(p, "saveCache") PROVE Moves(p, {"saveCache"}, {}) BY <1>0, <1>1 DEF Goto, Moves, Fields, Local
  <1>2. ASSUME w' = [w EXCEPT ![p].pc = "discard", ![p].ok = FALSE] PROVE Moves(p, {"discard"}, {})
    BY <1>0, <1>2 DEF Moves, Fields, Local
  <1> QED BY <1>1, <1>2 DEF SaveContext, At

LEMMA SaveCacheMoves ==
  ASSUME Types, NEW p \in Process, SaveCache(p)
  PROVE  /\ w[p].pc = "saveCache"
         /\ Moves(p, {IF w[p].asr = "off" THEN "unlock" ELSE "remember"}, {})
         /\ \A n \in Media : cache'[n] \in {cache[n], None} \/ (n = w[p].med /\ cache'[n] = w[p].vc)
         /\ UNCHANGED <<rows, db, owner, ownerLost, lock, frames, named, left>>
  <1>0. w \in [Process -> Local] /\ w[p] \in Local /\ cache \in [Media -> (SUBSET Frame) \cup {None}] BY DEF Types
  <1>1. Moves(p, {IF w[p].asr = "off" THEN "unlock" ELSE "remember"}, {})
    BY <1>0 DEF SaveCache, Goto, Moves, Fields, Local
  <1> QED BY <1>0, <1>1 DEF SaveCache, CacheField, At

LEMMA OwnerMoves ==
  ASSUME Types, NEW p \in Process
  PROVE  /\ ContextOwner(p) =>
              /\ w[p].pc = "owner"
              /\ \/ /\ owner \notin {None, w[p].med} /\ ownerLost' = ownerLost
                    /\ Moves(p, {"cache"}, {"tgt", "why"}) /\ w'[p].tgt = owner /\ w'[p].why = "owner"
                 \/ owner \in {None, w[p].med} /\ ownerLost' = ownerLost /\ Looks(p)
                 \/ ownerLost' /\ Looks(p)
              /\ UNCHANGED <<rows, db, cache, owner, lock, frames, named, left>>
         /\ DropOwner(p) =>
              /\ w[p].pc = "drop"
              /\ \/ ownerLost' /\ Looks(p)
                 \/ UNCHANGED <<owner, ownerLost>> /\ Moves(p, {"unlock"}, {})
              /\ UNCHANGED <<rows, db, cache, lock, frames, named, left>>
         /\ RememberContextOwner(p) =>
              /\ w[p].pc = "remember" /\ Moves(p, {"unlock"}, {})
              /\ (owner' = w[p].med /\ ownerLost' = ownerLost) \/ ownerLost'
              /\ UNCHANGED <<rows, db, cache, lock, frames, named, left>>
  <1>0. w \in [Process -> Local] /\ w[p] \in Local BY DEF Types
  <1>1. WithoutReuse(p) => Looks(p) BY <1>0, WithoutReuseLooks
  <1>2. ASSUME Load(p, owner, "owner")
        PROVE  Moves(p, {"cache"}, {"tgt", "why"}) /\ w'[p].tgt = owner /\ w'[p].why = "owner"
    BY <1>0, <1>2 DEF Load, Moves, Fields, Local
  <1>3. Goto(p, "unlock") \/ Fail(p) => Moves(p, {"unlock"}, {}) BY <1>0 DEF Goto, Fail, Moves, Fields, Local
  <1> QED BY <1>1, <1>2, <1>3 DEF ContextOwner, DropOwner, RememberContextOwner, At

LEMMA LockMoves ==
  ASSUME Types, NEW p \in Process
  PROVE  /\ TryLock(p) =>
              /\ w[p].pc = "lock"
              /\ \/ /\ Moves(p, {"cache"}, {"tgt", "why", "second", "locked"}) /\ w'[p].tgt = w[p].med /\ w'[p].why = "own"
                    /\ w'[p].second = TRUE
                    /\ \/ w'[p].locked = TRUE /\ lock = None /\ lock' = p
                       \/ w'[p].locked = FALSE /\ lock' = lock
                 \/ Moves(p, {"unlock"}, {}) /\ lock' = lock
              /\ UNCHANGED <<rows, db, cache, owner, ownerLost, frames, named, left>>
         /\ Unlock(p) =>
              /\ w[p].pc = "unlock" /\ Moves(p, {"agent", "failed"}, {}) /\ lock' = (IF lock = p THEN None ELSE lock)
              /\ UNCHANGED <<rows, db, cache, owner, ownerLost, frames, named, left>>
  <1>0. w \in [Process -> Local] /\ w[p] \in Local BY DEF Types
  <1>1. ASSUME NEW got, w' = [w EXCEPT ![p].pc = "cache", ![p].tgt = w[p].med, ![p].why = "own", ![p].second = TRUE,
                                       ![p].locked = got]
        PROVE  /\ Moves(p, {"cache"}, {"tgt", "why", "second", "locked"}) /\ w'[p].tgt = w[p].med /\ w'[p].why = "own"
               /\ w'[p].second = TRUE /\ w'[p].locked = got
    BY <1>0, <1>1 DEF Moves, Fields, Local
  <1>2. Fail(p) => Moves(p, {"unlock"}, {}) BY <1>0 DEF Fail, Moves, Fields, Local
  <1>3. \A to \in {"agent", "failed"} : Goto(p, to) => Moves(p, {"agent", "failed"}, {})
    BY <1>0 DEF Goto, Moves, Fields, Local
  <1>4. TryLock(p) => /\ w[p].pc = "lock"
                      /\ \/ /\ Moves(p, {"cache"}, {"tgt", "why", "second", "locked"}) /\ w'[p].tgt = w[p].med
                            /\ w'[p].why = "own" /\ w'[p].second = TRUE
                            /\ \/ w'[p].locked = TRUE /\ lock = None /\ lock' = p
                               \/ w'[p].locked = FALSE /\ lock' = lock
                         \/ Moves(p, {"unlock"}, {}) /\ lock' = lock
                      /\ UNCHANGED <<rows, db, cache, owner, ownerLost, frames, named, left>>
    BY <1>1, <1>2 DEF TryLock, At
  <1>5. Unlock(p) => /\ w[p].pc = "unlock" /\ Moves(p, {"agent", "failed"}, {}) /\ lock' = (IF lock = p THEN None ELSE lock)
                     /\ UNCHANGED <<rows, db, cache, owner, ownerLost, frames, named, left>>
    BY <1>3 DEF Unlock, At
  <1> QED BY <1>4, <1>5

LEMMA BuildMoves ==
  ASSUME Types, ControlInv, NEW p \in Process
  PROVE  /\ buildContext(p) =>
              /\ w[p].pc = "build" /\ UNCHANGED <<shared, left>>
              /\ \/ Moves(p, {"await"}, {"asr", "ocr"}) /\ w'[p].asr # "off"
                 \/ Moves(p, {"unlock"}, {})
         /\ AsrEnds(p) => /\ w[p].pc = "await" /\ Moves(p, {"await"}, {"asr"}) /\ w'[p].asr # "off" /\ UNCHANGED <<shared, left>>
         /\ OcrEnds(p) => /\ w[p].pc = "await" /\ Moves(p, {"await"}, {"ocr"}) /\ UNCHANGED <<shared, left>>
         /\ UploadFrame(p) => \E f \in Frame \ named :
              /\ w[p].pc = "await" /\ Moves(p, {"await"}, {"ocr", "put"}) /\ w'[p].put = f /\ w[p].put = None
              /\ named' = named \cup {f} /\ frames' = frames \cup {f}
              /\ UNCHANGED <<rows, db, cache, owner, ownerLost, lock, left>>
         /\ OnUpload(p) => /\ w[p].pc = "await" /\ Moves(p, {"await"}, {"ocr", "put", "uploaded"})
                           /\ w'[p].uploaded = w[p].uploaded \cup {w[p].put} /\ UNCHANGED <<shared, left>>
         /\ OverBudget(p) =>
              /\ w[p].pc = "await" /\ Moves(p, {"discard"}, {"asr", "ocr", "put", "uploaded"}) /\ w'[p].asr = "late"
              /\ w[p].uploaded \subseteq w'[p].uploaded /\ left \subseteq left'
              /\ w[p].put # None => w[p].put \in w'[p].uploaded \cup left'
              /\ UNCHANGED shared
  <1>0. w \in [Process -> Local] /\ w[p] \in Local /\ Control(w[p]) BY DEF Types, ControlInv
  <1>1. ASSUME buildContext(p)
        PROVE  /\ w[p].pc = "build" /\ UNCHANGED <<shared, left>>
               /\ \/ Moves(p, {"await"}, {"asr", "ocr"}) /\ w'[p].asr # "off"
                  \/ Moves(p, {"unlock"}, {})
    <2>1. Fail(p) => Moves(p, {"unlock"}, {}) BY <1>0 DEF Fail, Moves, Fields, Local
    <2>2. ASSUME NEW asr \in {"runs", "failed"}, NEW ocr \in {"runs", "failed"},
                 w' = [w EXCEPT ![p].pc = "await", ![p].asr = asr, ![p].ocr = ocr]
          PROVE  Moves(p, {"await"}, {"asr", "ocr"}) /\ w'[p].asr # "off"
      BY <1>0, <2>2 DEF Moves, Fields, Local
    <2> QED BY <1>1, <2>1, <2>2 DEF buildContext, Build, At
  <1>2. ASSUME AsrEnds(p)
        PROVE  w[p].pc = "await" /\ Moves(p, {"await"}, {"asr"}) /\ w'[p].asr # "off" /\ UNCHANGED <<shared, left>>
    <2>1. PICK outs \in [Segment -> Outcomes] : w' = [w EXCEPT ![p].asr = Transcribe(outs)] BY <1>2 DEF AsrEnds
    <2>2. Transcribe(outs) \in {"failed", "ok"} BY DEF Transcribe
    <2>3. w[p].pc = "await" BY <1>0, <1>2 DEF AsrEnds, Control
    <2> QED BY <1>0, <1>2, <2>1, <2>2, <2>3 DEF AsrEnds, Moves, Fields, Local
  <1>3. ASSUME OcrEnds(p)
        PROVE  w[p].pc = "await" /\ Moves(p, {"await"}, {"ocr"}) /\ UNCHANGED <<shared, left>>
    <2>1. w[p].pc = "await" BY <1>0, <1>3 DEF OcrEnds, Control
    <2> QED BY <1>0, <1>3, <2>1 DEF OcrEnds, Moves, Fields, Local
  <1>4. ASSUME UploadFrame(p)
        PROVE  \E f \in Frame \ named :
                 /\ w[p].pc = "await" /\ Moves(p, {"await"}, {"ocr", "put"}) /\ w'[p].put = f /\ w[p].put = None
                 /\ named' = named \cup {f} /\ frames' = frames \cup {f}
                 /\ UNCHANGED <<rows, db, cache, owner, ownerLost, lock, left>>
    <2>1. PICK f \in Frame \ named : /\ named' = named \cup {f} /\ frames' = frames \cup {f}
                                     /\ w' = [w EXCEPT ![p].ocr = "uploads", ![p].put = f]
      BY <1>4 DEF UploadFrame
    <2>2. w[p].pc = "await" /\ w[p].put = None BY <1>0, <1>4 DEF UploadFrame, Control
    <2>3. Moves(p, {"await"}, {"ocr", "put"}) /\ w'[p].put = f BY <1>0, <2>1, <2>2 DEF Moves, Fields, Local
    <2> QED BY <1>4, <2>1, <2>2, <2>3 DEF UploadFrame
  <1>5. ASSUME OnUpload(p)
        PROVE  /\ w[p].pc = "await" /\ Moves(p, {"await"}, {"ocr", "put", "uploaded"})
               /\ w'[p].uploaded = w[p].uploaded \cup {w[p].put} /\ UNCHANGED <<shared, left>>
    <2>1. w[p].pc = "await" BY <1>0, <1>5 DEF OnUpload, Control
    <2> QED BY <1>0, <1>5, <2>1 DEF OnUpload, Moves, Fields, Local
  <1>6. ASSUME OverBudget(p)
        PROVE  /\ w[p].pc = "await" /\ Moves(p, {"discard"}, {"asr", "ocr", "put", "uploaded"}) /\ w'[p].asr = "late"
               /\ w[p].uploaded \subseteq w'[p].uploaded /\ left \subseteq left'
               /\ w[p].put # None => w[p].put \in w'[p].uploaded \cup left'
               /\ UNCHANGED shared
    <2> DEFINE put == {w[p].put} \ {None}
    <2>1. PICK late \in SUBSET put :
            /\ w' = [w EXCEPT ![p].pc = "discard", ![p].ok = FALSE, ![p].asr = "late", ![p].ocr = "late",
                              ![p].put = None, ![p].uploaded = @ \cup (put \ late)]
            /\ left' = left \cup late
      BY <1>6 DEF OverBudget
    <2> DEFINE u == w[p].uploaded \cup (put \ late)
    <2>2. w' = [w EXCEPT ![p].pc = "discard", ![p].ok = FALSE, ![p].asr = "late", ![p].ocr = "late", ![p].put = None,
                         ![p].uploaded = u]
      BY <2>1
    <2> HIDE DEF u
    <2>3. Moves(p, {"discard"}, {"asr", "ocr", "put", "uploaded"}) /\ w'[p].asr = "late" /\ w'[p].uploaded = u
      BY <1>0, <2>2 DEF Moves, Fields, Local
    <2>4. w[p].put # None => w[p].put \in u \cup late BY DEF u
    <2> QED BY <1>6, <2>1, <2>3, <2>4 DEF OverBudget, At, u
  <1> QED BY <1>1, <1>2, <1>3, <1>4, <1>5, <1>6

LEMMA DiscardMoves ==
  ASSUME Types, NEW p \in Process
  PROVE  /\ FinishBuild(p) =>
              /\ w[p].pc = "await" /\ Moves(p, {"save", "discard"}, {"tgt", "why", "got", "uploaded", "vc"})
              /\ \/ w'[p].uploaded = w[p].uploaded /\ frames' = frames /\ left' = left
                 \/ w'[p].uploaded = {} /\ Deletes(w[p].uploaded)
              /\ w'[p].pc = "save" => w'[p].vc = w'[p].uploaded /\ w'[p].vc \in SUBSET Frame
              /\ UNCHANGED <<rows, db, cache, owner, ownerLost, lock, named>>
         /\ DiscardBuild(p) =>
              /\ w[p].pc = "discard" /\ Moves(p, {"unlock"}, {}) /\ Deletes(w[p].uploaded)
              /\ UNCHANGED <<rows, db, cache, owner, ownerLost, lock, named>>
         /\ PurgeRuntimeArtifacts(p) =>
              /\ w[p].pc = "frames" /\ Moves(p, {"purge"}, {}) /\ Deletes(FramesOf(w[p].got))
              /\ UNCHANGED <<rows, db, cache, owner, ownerLost, lock, named>>
  <1>0. w \in [Process -> Local] /\ w[p] \in Local BY DEF Types
  <1>1. ASSUME FinishBuild(p)
        PROVE  /\ w[p].pc = "await" /\ Moves(p, {"save", "discard"}, {"tgt", "why", "got", "uploaded", "vc"})
               /\ \/ w'[p].uploaded = w[p].uploaded /\ frames' = frames /\ left' = left
                  \/ w'[p].uploaded = {} /\ Deletes(w[p].uploaded)
               /\ w'[p].pc = "save" => w'[p].vc = w'[p].uploaded /\ w'[p].vc \in SUBSET Frame
               /\ UNCHANGED <<rows, db, cache, owner, ownerLost, lock, named>>
    <2>1. /\ w' \in [Process -> Local] /\ \A q \in Process : q # p => w'[q] = w[q]
          /\ w'[p].pc \in {"save", "discard"}
          /\ w'[p].med = w[p].med /\ w'[p].put = w[p].put /\ w'[p].asr = w[p].asr /\ w'[p].ocr = w[p].ocr
          /\ w[p].ocr = "failed" /\ w[p].asr = "ok" => w'[p].uploaded = {}
          /\ w'[p].uploaded = w[p].uploaded \/ (w[p].ocr = "failed" /\ w[p].asr = "ok")
          /\ w'[p].pc = "save" => w'[p].vc = w'[p].uploaded
          /\ w'[p].locked = w[p].locked /\ w'[p].second = w[p].second
      BY <1>1, FinishBuildResult
    <2>2. Moves(p, {"save", "discard"}, {"tgt", "why", "got", "uploaded", "vc"}) BY <2>1 DEF Moves, Fields
    <2>3. w'[p].uploaded \in SUBSET Frame BY <2>1 DEF Local
    <2>4. CASE w[p].ocr = "failed" /\ w[p].asr = "ok"
      <3>1. Deletes(w[p].uploaded) BY <1>1, <2>4, DeleteFramesDeletes DEF FinishBuild
      <3> QED BY <1>1, <2>1, <2>2, <2>3, <2>4, <3>1 DEF FinishBuild, At
    <2>5. CASE ~(w[p].ocr = "failed" /\ w[p].asr = "ok")
      BY <1>1, <2>1, <2>2, <2>3, <2>5 DEF FinishBuild, At
    <2> QED BY <2>4, <2>5
  <1>2. Goto(p, "unlock") => Moves(p, {"unlock"}, {}) BY <1>0 DEF Goto, Moves, Fields, Local
  <1>3. Goto(p, "purge") => Moves(p, {"purge"}, {}) BY <1>0 DEF Goto, Moves, Fields, Local
  <1> QED BY <1>1, <1>2, <1>3, DeleteFramesDeletes DEF DiscardBuild, PurgeRuntimeArtifacts, At

LEMMA EndMoves ==
  ASSUME Types, NEW p \in Process
  PROVE  /\ Conclude(p) =>
              /\ w[p].pc = "agent" /\ UNCHANGED <<shared, left>>
              /\ \/ w[p].med \in rows /\ Ends(p, {"idle"})
                 \/ /\ w[p].med \notin rows /\ Moves(p, {"cache"}, {"tgt", "why"})
                    /\ w'[p].tgt = w[p].med /\ w'[p].why = "purge"
                 \/ Moves(p, {"failed"}, {})
         /\ FailedTask(p) =>
              /\ w[p].pc = "failed" /\ Ends(p, {"idle"}) /\ UNCHANGED shared /\ left \subseteq left'
              /\ w[p].med \in rows \/ db[w[p].med] = None \/ w[p].med \in left'
         /\ PurgeCheckpoints(p) =>
              /\ \/ /\ w[p].pc = "purge" /\ Moves(p, {"purgeCache"}, {}) /\ db' = [db EXCEPT ![w[p].med] = None]
                    /\ left' = left \cup (FramesOf(db[w[p].med]) \ FramesOf(w[p].got)) /\ cache' = cache
                 \/ /\ w[p].pc = "purge" /\ Ends(p, {"idle"}) /\ UNCHANGED <<db, cache>>
                    /\ left \subseteq left' /\ w[p].med \in left'
                 \/ /\ w[p].pc = "purgeCache" /\ Ends(p, {"idle"}) /\ UNCHANGED <<db, left>>
                    /\ \A n \in Media : cache'[n] \in {cache[n], None}
              /\ UNCHANGED <<rows, owner, ownerLost, lock, frames, named>>
         /\ Crash(p) =>
              /\ w[p].pc \notin {"idle", "dead"} /\ Ends(p, {"dead"})
              /\ left \cup {w[p].med} \cup w[p].uploaded \cup ({w[p].put} \ {None}) \subseteq left'
              /\ ownerLost \/ (w[p].pc \in {"saveCache", "remember"} /\ w[p].asr # "off") => ownerLost'
              /\ ownerLost' => ownerLost \/ (w[p].pc \in {"saveCache", "remember"} /\ w[p].asr # "off")
              /\ UNCHANGED <<rows, db, cache, owner, lock, frames, named>>
  <1>0. w \in [Process -> Local] /\ w[p] \in Local /\ cache \in [Media -> (SUBSET Frame) \cup {None}] BY DEF Types
  <1>1. w' = [w EXCEPT ![p] = Idle] => Ends(p, {"idle"}) BY <1>0 DEF Ends, Idle
  <1>2. w' = [w EXCEPT ![p] = [Idle EXCEPT !.pc = "dead"]] => Ends(p, {"dead"}) BY <1>0 DEF Ends, Idle
  <1>3. ASSUME Load(p, w[p].med, "purge")
        PROVE  Moves(p, {"cache"}, {"tgt", "why"}) /\ w'[p].tgt = w[p].med /\ w'[p].why = "purge"
    BY <1>0, <1>3 DEF Load, Moves, Fields, Local
  <1>4. Goto(p, "failed") => Moves(p, {"failed"}, {}) BY <1>0 DEF Goto, Moves, Fields, Local
  <1>5. Goto(p, "purgeCache") => Moves(p, {"purgeCache"}, {}) BY <1>0 DEF Goto, Moves, Fields, Local
  <1>6. ASSUME cache' = [cache EXCEPT ![w[p].med] = None] PROVE \A n \in Media : cache'[n] \in {cache[n], None}
    BY <1>0, <1>6
  <1>7. ASSUME Conclude(p)
        PROVE  /\ w[p].pc = "agent" /\ UNCHANGED <<shared, left>>
               /\ \/ w[p].med \in rows /\ Ends(p, {"idle"})
                  \/ /\ w[p].med \notin rows /\ Moves(p, {"cache"}, {"tgt", "why"})
                     /\ w'[p].tgt = w[p].med /\ w'[p].why = "purge"
                  \/ Moves(p, {"failed"}, {})
    BY <1>1, <1>3, <1>4, <1>7 DEF Conclude, At
  <1>8. ASSUME FailedTask(p)
        PROVE  /\ w[p].pc = "failed" /\ Ends(p, {"idle"}) /\ UNCHANGED shared /\ left \subseteq left'
               /\ w[p].med \in rows \/ db[w[p].med] = None \/ w[p].med \in left'
    BY <1>1, <1>8 DEF FailedTask, At
  <1>9. ASSUME PurgeCheckpoints(p)
        PROVE  /\ \/ /\ w[p].pc = "purge" /\ Moves(p, {"purgeCache"}, {}) /\ db' = [db EXCEPT ![w[p].med] = None]
                     /\ left' = left \cup (FramesOf(db[w[p].med]) \ FramesOf(w[p].got)) /\ cache' = cache
                  \/ /\ w[p].pc = "purge" /\ Ends(p, {"idle"}) /\ UNCHANGED <<db, cache>>
                     /\ left \subseteq left' /\ w[p].med \in left'
                  \/ /\ w[p].pc = "purgeCache" /\ Ends(p, {"idle"}) /\ UNCHANGED <<db, left>>
                     /\ \A n \in Media : cache'[n] \in {cache[n], None}
               /\ UNCHANGED <<rows, owner, ownerLost, lock, frames, named>>
    BY <1>1, <1>5, <1>6, <1>9 DEF PurgeCheckpoints, At
  <1>10. ASSUME Crash(p)
         PROVE  /\ w[p].pc \notin {"idle", "dead"} /\ Ends(p, {"dead"})
                /\ left \cup {w[p].med} \cup w[p].uploaded \cup ({w[p].put} \ {None}) \subseteq left'
                /\ ownerLost \/ (w[p].pc \in {"saveCache", "remember"} /\ w[p].asr # "off") => ownerLost'
                /\ ownerLost' => ownerLost \/ (w[p].pc \in {"saveCache", "remember"} /\ w[p].asr # "off")
                /\ UNCHANGED <<rows, db, cache, owner, lock, frames, named>>
    BY <1>2, <1>10 DEF Crash
  <1> QED BY <1>7, <1>8, <1>9, <1>10

\* A process takes up a task or a deletion.
LEMMA StartMoves ==
  ASSUME Types, NEW p \in Process, NEW m \in Media, AsyncAnalyze(p, m) \/ DeleteByID(p, m)
  PROVE  /\ w[p].pc = "idle" /\ w'[p].pc = "cache" /\ w'[p].med = m /\ w'[p].tgt = m
         /\ w'[p].asr = "off" /\ w'[p].uploaded = {} /\ w'[p].locked = FALSE /\ w'[p].second = FALSE
         /\ \A q \in Process : q # p => w'[q] = w[q]
         /\ \/ w'[p].why = "own" /\ rows' = rows
            \/ w'[p].why = "purge" /\ rows' = rows \ {m}
         /\ UNCHANGED <<db, cache, owner, ownerLost, lock, frames, named, left>>
  <1>0. w \in [Process -> Local] BY DEF Types
  <1>1. CASE AsyncAnalyze(p, m)
    <2>1. w' = [w EXCEPT ![p] = [Idle EXCEPT !.pc = "cache", !.med = m, !.tgt = m]] BY <1>1 DEF AsyncAnalyze
    <2>2. w'[p] = [Idle EXCEPT !.pc = "cache", !.med = m, !.tgt = m] BY <1>0, <2>1
    <2>3. /\ w'[p].pc = "cache" /\ w'[p].med = m /\ w'[p].tgt = m /\ w'[p].why = "own"
          /\ w'[p].asr = "off" /\ w'[p].uploaded = {} /\ w'[p].locked = FALSE /\ w'[p].second = FALSE
      BY <2>2 DEF Idle
    <2> QED BY <1>0, <1>1, <2>1, <2>3 DEF AsyncAnalyze, shared, At
  <1>2. CASE DeleteByID(p, m)
    <2>1. w' = [w EXCEPT ![p] = [Idle EXCEPT !.pc = "cache", !.med = m, !.tgt = m, !.why = "purge"]] BY <1>2 DEF DeleteByID
    <2>2. w'[p] = [Idle EXCEPT !.pc = "cache", !.med = m, !.tgt = m, !.why = "purge"] BY <1>0, <2>1
    <2>3. /\ w'[p].pc = "cache" /\ w'[p].med = m /\ w'[p].tgt = m /\ w'[p].why = "purge"
          /\ w'[p].asr = "off" /\ w'[p].uploaded = {} /\ w'[p].locked = FALSE /\ w'[p].second = FALSE
      BY <2>2 DEF Idle
    <2> QED BY <1>0, <1>2, <2>1, <2>3 DEF DeleteByID, At
  <1> QED BY <1>1, <1>2

----------------------------------------------------------------------------
(* A deleted media leaves nothing behind                                   *)

Working(r) == r.pc \notin {"idle", "dead", "purgeCache"}

\* A step of p keeps somebody ahead of the purge, unless the media exists, has no context or is noted as left behind.
LEMMA StepKeepsPurgeAhead ==
  ASSUME PurgeAhead, NEW p \in Process, \A q \in Process : q # p => w'[q] = w[q], rows' = rows, left \subseteq left',
         \A m \in Media : db'[m] \in {db[m], None} \/ (m = w'[p].med /\ Working(w'[p])),
         Working(w[p]) => \/ w'[p].med = w[p].med /\ Working(w'[p])
                          \/ w[p].med \in rows \/ db'[w[p].med] = None \/ w[p].med \in left'
  PROVE  PurgeAhead'
  BY DEF PurgeAhead, Working

LEMMA NextPurgeAhead ==
  ASSUME FramesInv, PurgeAhead, [Next]_vars
  PROVE  PurgeAhead'
  <1>t. Types /\ ControlInv BY DEF FramesInv
  <1>1. ASSUME NEW p \in Process, NEW m \in Media, AsyncAnalyze(p, m) \/ DeleteByID(p, m) PROVE PurgeAhead'
    <2>1. /\ w[p].pc = "idle" /\ w'[p].pc = "cache" /\ w'[p].med = m
          /\ \A q \in Process : q # p => w'[q] = w[q]
          /\ rows' \in {rows, rows \ {m}}
          /\ UNCHANGED <<db, left>>
      BY <1>t, <1>1, StartMoves
    <2> QED BY <2>1 DEF PurgeAhead
  <1>2. CASE LeaseExpires \/ UNCHANGED vars BY <1>2 DEF LeaseExpires, vars, shared, PurgeAhead
  <1>3. ASSUME NEW p \in Process, TaskStep(p) \/ BranchStep(p) \/ Crash(p) PROVE PurgeAhead'
    <2>0. /\ \A q \in Process : q # p => w'[q] = w[q]
          /\ rows' = rows /\ left \subseteq left'
          /\ \A m \in Media : db'[m] \in {db[m], None} \/ (m = w'[p].med /\ Working(w'[p]))
          /\ Working(w[p]) => \/ w'[p].med = w[p].med /\ Working(w'[p])
                              \/ w[p].med \in rows \/ db'[w[p].med] = None \/ w[p].med \in left'
      <3>t. db \in [Media -> (SUBSET Frame) \cup {None}] /\ w[p].why \in {"own", "owner", "purge"} /\ Control(w[p])
        BY <1>t DEF Types, Local, ControlInv
      <3> USE DEF Working, Moves, Fields, Takes, Looks, Ends, Deletes
      <3>1. CASE ReadCache(p) BY <1>t, <3>t, <3>1, ReadCacheMoves
      <3>2. CASE FindPayload(p) BY <1>t, <3>t, <3>2, FindPayloadMoves DEF shared
      <3>3. CASE FillCache(p) BY <1>t, <3>t, <3>3, FillCacheMoves
      <3>4. CASE ContextOwner(p) \/ DropOwner(p) \/ RememberContextOwner(p) BY <1>t, <3>t, <3>4, OwnerMoves
      <3>5. CASE TryLock(p) \/ Unlock(p) BY <1>t, <3>t, <3>5, LockMoves
      <3>6. CASE SaveContext(p) BY <1>t, <3>t, <3>6, SaveContextMoves
      <3>7. CASE SaveCache(p) BY <1>t, <3>t, <3>7, SaveCacheMoves
      <3>8. CASE buildContext(p) \/ OverBudget(p) \/ BranchStep(p)
        BY <1>t, <3>t, <3>8, BuildMoves DEF BranchStep, shared
      <3>9. CASE FinishBuild(p) \/ DiscardBuild(p) \/ PurgeRuntimeArtifacts(p) BY <1>t, <3>t, <3>9, DiscardMoves
      <3>10. CASE Conclude(p) BY <1>t, <3>t, <3>10, EndMoves DEF shared
      <3>11. CASE FailedTask(p) BY <1>t, <3>t, <3>11, EndMoves DEF shared
      <3>12. CASE PurgeCheckpoints(p)
        <4>1. w[p].med \in Media BY <1>t, <3>t, <3>12, EndMoves DEF Control
        <4> QED BY <1>t, <3>t, <3>12, <4>1, EndMoves
      <3>13. CASE Crash(p) BY <1>t, <3>t, <3>13, EndMoves
      <3> QED BY <1>3, <3>1, <3>2, <3>3, <3>4, <3>5, <3>6, <3>7, <3>8, <3>9, <3>10, <3>11, <3>12, <3>13 DEF TaskStep
    <2> QED BY <2>0, StepKeepsPurgeAhead
  <1> QED BY <1>1, <1>2, <1>3 DEF Next

\* A deleted media leaves no context behind once its tasks have ended, unless a failure did: for any number of tasks
\* and media, whichever of them finish, fail or crash while others still save the context of the deleted media.
THEOREM DeletionLeavesNothing == Spec => []DeletedLeavesNothing
  <1>1. Init => FramesInv /\ PurgeAhead BY InitFrames DEF Init, PurgeAhead
  <1>2. FramesInv /\ PurgeAhead /\ [Next]_vars => FramesInv' /\ PurgeAhead' BY NextFrames, NextPurgeAhead
  <1>3. PurgeAhead => DeletedLeavesNothing BY DEF PurgeAhead, DeletedLeavesNothing
  <1> QED BY <1>1, <1>2, <1>3, PTL DEF Spec

----------------------------------------------------------------------------
(* Every frame is accounted for                                            *)

\* A step of p that uploads nothing: what it takes out of a context or out of its hands is deleted or left behind.
LEMMA StepKeepsAccounts ==
  ASSUME Accounted, PurgeDone, NEW p \in Process, \A q \in Process : q # p => w'[q] = w[q],
         frames' \subseteq frames, left \subseteq left', named' = named,
         \A m \in Media : \A f \in FramesOf(db[m]) : f \in frames' => (\E n \in Media : f \in FramesOf(db'[n])) \/ f \in left',
         \A f \in Mine(w[p]) : f \in frames' =>
            f \in Mine(w'[p]) \/ (\E n \in Media : f \in FramesOf(db'[n])) \/ f \in left',
         w'[p].pc = "purge" => \A f \in FramesOf(w'[p].got) : f \in named /\ (f \in frames' => f \in left')
  PROVE  Accounted' /\ PurgeDone'
  <1>1. \A q \in Process, f \in frames' : f \in Mine(w[q]) =>
          (\E o \in Process : f \in Mine(w'[o])) \/ (\E n \in Media : f \in FramesOf(db'[n])) \/ f \in left'
    OBVIOUS
  <1>2. Accounted' BY <1>1 DEF Accounted
  <1>3. PurgeDone' BY DEF PurgeDone
  <1> QED BY <1>2, <1>3

\* Every attempt runs its course.
LEMMA NextCourse ==
  ASSUME FramesInv, CourseInv, [Next]_vars
  PROVE  CourseInv'
  <1>t. Types /\ ControlInv BY DEF FramesInv
  <1>c. \A context \in SUBSET Frame : context # None BY ContextAssumption
  <1>e. {} # None BY <1>c
  <1>1. ASSUME NEW p \in Process, \A q \in Process : q # p => w'[q] = w[q], Course(w'[p]) PROVE CourseInv'
    <2>1. \A q \in Process : Course(w'[q]) BY <1>1 DEF CourseInv
    <2> QED BY <2>1 DEF CourseInv, Course, Builds, Loading
  <1>2. ASSUME NEW p \in Process, NEW m \in Media, AsyncAnalyze(p, m) \/ DeleteByID(p, m) PROVE CourseInv'
    <2>1. /\ w'[p].pc = "cache" /\ w'[p].med = m /\ w'[p].tgt = m
          /\ w'[p].asr = "off" /\ w'[p].locked = FALSE /\ \A q \in Process : q # p => w'[q] = w[q]
      BY <1>t, <1>2, StartMoves
    <2>2. Course(w'[p]) BY <2>1 DEF Course, Builds, Loading
    <2> QED BY <1>1, <2>1, <2>2
  <1>3. CASE LeaseExpires \/ UNCHANGED vars
    <2>1. w' = w BY <1>3 DEF LeaseExpires, vars
    <2> QED BY <2>1 DEF CourseInv
  <1>4. ASSUME NEW p \in Process, TaskStep(p) \/ BranchStep(p) \/ Crash(p) PROVE CourseInv'
    <2>t. w[p].why \in {"own", "owner", "purge"} /\ w[p].locked \in BOOLEAN /\ w[p].second \in BOOLEAN /\ Control(w[p]) /\ Course(w[p])
      BY <1>t DEF Types, Local, ControlInv, CourseInv
    <2> DEFINE OnCourse == Course(w'[p]) /\ \A q \in Process : q # p => w'[q] = w[q]
    <2>l. ASSUME NEW context, Takes(p, context), w[p].pc \in Loading PROVE OnCourse
      <3>1. w[p].why # "purge" => w[p].uploaded = {} /\ w[p].asr = "off" BY <2>t, <2>l DEF Control, Course, Loading
      <3>2. CASE w[p].why = "own" BY <2>t, <2>l, <3>1, <3>2 DEF Takes, Moves, Fields, Course, Builds, Loading
      <3>3. CASE w[p].why = "owner" BY <2>t, <2>l, <1>e, <3>1, <3>3 DEF Takes, Moves, Fields, Course, Builds, Loading
      <3>4. CASE w[p].why = "purge" BY <2>t, <2>l, <3>4 DEF Takes, Moves, Fields, Course, Builds, Loading
      <3> QED BY <2>t, <3>2, <3>3, <3>4
    <2>r. ASSUME Looks(p), w[p].pc \in {"owner", "drop"} PROVE OnCourse
      BY <2>t, <2>r DEF Looks, Moves, Fields, Course, Builds, Loading
    <2>n. ASSUME w'[p].pc \in {"unlock", "failed", "purge", "purgeCache"}, \A q \in Process : q # p => w'[q] = w[q],
                 w'[p].locked = w[p].locked, w'[p].second = w[p].second
          PROVE  OnCourse
      BY <2>t, <2>n DEF Course, Builds, Loading
    <2>i. ASSUME Ends(p, {"idle"}) \/ Ends(p, {"dead"}) PROVE OnCourse BY <2>i DEF Ends, Course, Builds, Loading
    <2> USE DEF Moves, Fields, Course, Builds, Loading
    <2>1. CASE ReadCache(p)
      <3>1. CASE Takes(p, cache[w[p].tgt]) BY <1>t, <1>1, <2>1, <2>l, <3>1, ReadCacheMoves
      <3>2. CASE Moves(p, {"query"}, {})
        <4>1. OnCourse BY <1>t, <2>t, <2>1, <3>2, ReadCacheMoves
        <4> QED BY <1>1, <4>1
      <3> QED BY <1>t, <2>1, <3>1, <3>2, ReadCacheMoves
    <2>2. CASE FindPayload(p)
      <3>1. CASE Takes(p, None) BY <1>t, <1>1, <2>2, <2>l, <3>1, FindPayloadMoves
      <3>2. CASE Moves(p, {"fill"}, {"got"}) /\ w'[p].got # None
        <4>1. OnCourse BY <1>t, <2>t, <2>2, <3>2, FindPayloadMoves
        <4> QED BY <1>1, <4>1
      <3>3. CASE Moves(p, {"unlock"}, {})
        <4>1. OnCourse BY <2>n, <3>3
        <4> QED BY <1>1, <4>1
      <3> QED BY <1>t, <2>2, <3>1, <3>2, <3>3, FindPayloadMoves
    <2>3. CASE FillCache(p) BY <1>t, <1>1, <2>3, <2>l, FillCacheMoves
    <2>4. CASE ContextOwner(p)
      <3>1. CASE Looks(p) BY <1>t, <1>1, <2>4, <2>r, <3>1, OwnerMoves
      <3>2. CASE Moves(p, {"cache"}, {"tgt", "why"}) /\ w'[p].why = "owner"
        <4>1. OnCourse BY <1>t, <2>t, <2>4, <3>2, OwnerMoves
        <4> QED BY <1>1, <4>1
      <3> QED BY <1>t, <2>4, <3>1, <3>2, OwnerMoves
    <2>5. CASE DropOwner(p)
      <3>1. CASE Looks(p) BY <1>t, <1>1, <2>5, <2>r, <3>1, OwnerMoves
      <3>2. CASE Moves(p, {"unlock"}, {})
        <4>1. OnCourse BY <2>n, <3>2
        <4> QED BY <1>1, <4>1
      <3> QED BY <1>t, <2>5, <3>1, <3>2, OwnerMoves
    <2>6. CASE RememberContextOwner(p)
      <3>1. Moves(p, {"unlock"}, {}) BY <1>t, <2>6, OwnerMoves
      <3>2. OnCourse BY <2>n, <3>1
      <3> QED BY <1>1, <3>2
    <2>7. CASE TryLock(p)
      <3>1. OnCourse BY <1>t, <2>t, <2>7, LockMoves
      <3> QED BY <1>1, <3>1
    <2>8. CASE Unlock(p)
      <3>1. OnCourse BY <1>t, <2>t, <2>8, LockMoves
      <3> QED BY <1>1, <3>1
    <2>9. CASE SaveContext(p)
      <3>1. OnCourse BY <1>t, <2>t, <2>9, SaveContextMoves
      <3> QED BY <1>1, <3>1
    <2>10. CASE SaveCache(p)
      <3>1. OnCourse BY <1>t, <2>t, <2>10, SaveCacheMoves
      <3> QED BY <1>1, <3>1
    <2>11. CASE buildContext(p)
      <3>1. OnCourse BY <1>t, <2>t, <2>11, BuildMoves
      <3> QED BY <1>1, <3>1
    <2>12. CASE AsrEnds(p) \/ OcrEnds(p) \/ UploadFrame(p) \/ OnUpload(p) \/ OverBudget(p)
      <3>1. OnCourse BY <1>t, <2>t, <2>12, BuildMoves
      <3> QED BY <1>1, <3>1
    <2>13. CASE FinishBuild(p)
      <3>1. OnCourse BY <1>t, <1>c, <2>t, <2>13, DiscardMoves
      <3> QED BY <1>1, <3>1
    <2>14. CASE DiscardBuild(p) \/ PurgeRuntimeArtifacts(p)
      <3>1. Moves(p, {"unlock"}, {}) \/ Moves(p, {"purge"}, {}) BY <1>t, <2>14, DiscardMoves
      <3>2. OnCourse BY <2>n, <3>1
      <3> QED BY <1>1, <3>2
    <2>15. CASE Conclude(p)
      <3>1. \/ Ends(p, {"idle"}) \/ Moves(p, {"failed"}, {})
            \/ Moves(p, {"cache"}, {"tgt", "why"}) /\ w'[p].why = "purge"
        BY <1>t, <2>15, EndMoves
      <3>2. CASE Moves(p, {"cache"}, {"tgt", "why"}) /\ w'[p].why = "purge"
        <4>1. OnCourse BY <2>t, <3>2
        <4> QED BY <1>1, <4>1
      <3>3. CASE Ends(p, {"idle"}) BY <1>1, <2>i, <3>3
      <3>4. CASE Moves(p, {"failed"}, {})
        <4>1. OnCourse BY <2>n, <3>4
        <4> QED BY <1>1, <4>1
      <3> QED BY <3>1, <3>2, <3>3, <3>4
    <2>16. CASE FailedTask(p) \/ Crash(p)
      <3>1. Ends(p, {"idle"}) \/ Ends(p, {"dead"}) BY <1>t, <2>16, EndMoves
      <3> QED BY <1>1, <2>i, <3>1
    <2>17. CASE PurgeCheckpoints(p)
      <3>1. Ends(p, {"idle"}) \/ Moves(p, {"purgeCache"}, {}) BY <1>t, <2>17, EndMoves
      <3>2. OnCourse BY <2>i, <2>n, <3>1
      <3> QED BY <1>1, <3>2
    <2> QED BY <1>4, <2>1, <2>2, <2>3, <2>4, <2>5, <2>6, <2>7, <2>8, <2>9, <2>10, <2>11, <2>12, <2>13, <2>14, <2>15, <2>16,
            <2>17 DEF TaskStep, BranchStep
  <1> QED BY <1>2, <1>3, <1>4 DEF Next

LEMMA InitCourse == Init => CourseInv
  BY DEF Init, Idle, CourseInv, Course, Builds, Loading

LEMMA NextAccounts ==
  ASSUME FramesInv, CourseInv, Accounted, PurgeDone, [Next]_vars
  PROVE  Accounted' /\ PurgeDone'
  <1>t. Types /\ ControlInv BY DEF FramesInv
  <1>1. ASSUME NEW p \in Process, NEW m \in Media, AsyncAnalyze(p, m) \/ DeleteByID(p, m) PROVE Accounted' /\ PurgeDone'
    <2>1. /\ w[p].pc = "idle" /\ w'[p].pc = "cache"
          /\ \A q \in Process : q # p => w'[q] = w[q]
          /\ UNCHANGED <<db, frames, named, left>>
      BY <1>t, <1>1, StartMoves
    <2>2. Mine(w[p]) = {} BY <2>1 DEF Mine
    <2> QED BY <2>1, <2>2, StepKeepsAccounts
  <1>2. CASE LeaseExpires \/ UNCHANGED vars
    <2>1. UNCHANGED <<db, frames, named, left, w>> BY <1>2 DEF LeaseExpires, vars, shared
    <2>2. Accounted' BY <2>1 DEF Accounted
    <2>3. PurgeDone' BY <2>1 DEF PurgeDone
    <2> QED BY <2>2, <2>3
  <1>3. ASSUME NEW p \in Process, TaskStep(p) \/ BranchStep(p) \/ Crash(p) PROVE Accounted' /\ PurgeDone'
    <2>t. /\ db \in [Media -> (SUBSET Frame) \cup {None}] /\ w[p].why \in {"own", "owner", "purge"} /\ Control(w[p])
          /\ Course(w[p])
      BY <1>t DEF Types, Local, ControlInv, CourseInv
    <2> DEFINE Kept == /\ \A q \in Process : q # p => w'[q] = w[q]
                       /\ frames' = frames /\ named' = named /\ left \subseteq left'
                       /\ w'[p].pc # "purge"
    <2>q. ASSUME Kept, db' = db, \A f \in Mine(w[p]) : f \in Mine(w'[p]) \/ f \in left' PROVE Accounted' /\ PurgeDone'
      BY <2>q, StepKeepsAccounts
    <2>1. CASE \/ ReadCache(p) \/ FindPayload(p) \/ FillCache(p) \/ ContextOwner(p) \/ DropOwner(p)
               \/ RememberContextOwner(p) \/ TryLock(p) \/ Unlock(p) \/ SaveCache(p) \/ buildContext(p)
               \/ Conclude(p) \/ FailedTask(p)
      <3> USE DEF Moves, Fields, Takes, Looks, Ends
      <3> DEFINE Aside == Kept /\ db' = db /\ w[p].pc \notin {"await", "save", "discard"}
      <3>1. CASE ReadCache(p)
        <4>1. Aside BY <1>t, <2>t, <3>1, ReadCacheMoves
        <4> QED BY <2>q, <4>1 DEF Mine
      <3>2. CASE FindPayload(p)
        <4>1. Aside BY <1>t, <2>t, <3>2, FindPayloadMoves DEF shared
        <4> QED BY <2>q, <4>1 DEF Mine
      <3>3. CASE FillCache(p)
        <4>1. Aside BY <1>t, <2>t, <3>3, FillCacheMoves
        <4> QED BY <2>q, <4>1 DEF Mine
      <3>4. CASE ContextOwner(p) \/ DropOwner(p) \/ RememberContextOwner(p)
        <4>1. Aside BY <1>t, <2>t, <3>4, OwnerMoves
        <4> QED BY <2>q, <4>1 DEF Mine
      <3>5. CASE TryLock(p) \/ Unlock(p)
        <4>1. Aside BY <1>t, <2>t, <3>5, LockMoves
        <4> QED BY <2>q, <4>1 DEF Mine
      <3>6. CASE SaveCache(p)
        <4>1. Aside BY <1>t, <2>t, <3>6, SaveCacheMoves
        <4> QED BY <2>q, <4>1 DEF Mine
      <3>7. CASE buildContext(p)
        <4>1. Aside BY <1>t, <2>t, <3>7, BuildMoves DEF shared
        <4> QED BY <2>q, <4>1 DEF Mine
      <3>8. CASE Conclude(p) \/ FailedTask(p)
        <4>1. Aside BY <1>t, <2>t, <3>8, EndMoves DEF shared
        <4> QED BY <2>q, <4>1 DEF Mine
      <3> QED BY <2>1, <3>1, <3>2, <3>3, <3>4, <3>5, <3>6, <3>7, <3>8
    <2>2. CASE SaveContext(p)
      <3>1. CASE Moves(p, {"saveCache"}, {}) /\ db' = [db EXCEPT ![w[p].med] = w[p].vc] /\ left' = left \cup FramesOf(db[w[p].med])
        <4>1. w[p].pc = "save" /\ UNCHANGED <<frames, named>> BY <1>t, <2>2, SaveContextMoves
        <4>2. w[p].med \in Media /\ w[p].put = None /\ w[p].vc = w[p].uploaded /\ w[p].vc # None
          BY <2>t, <4>1 DEF Control, Course
        <4>3. Mine(w[p]) \subseteq FramesOf(db'[w[p].med]) BY <2>t, <3>1, <4>1, <4>2 DEF Mine, FramesOf
        <4>4. \A n \in Media : FramesOf(db[n]) \subseteq FramesOf(db'[n]) \cup left' BY <2>t, <3>1
        <4>5. Kept BY <3>1, <4>1 DEF Moves
        <4> QED BY <4>2, <4>3, <4>4, <4>5, StepKeepsAccounts
      <3>2. CASE Moves(p, {"discard"}, {}) /\ UNCHANGED <<db, left>>
        <4>1. w[p].pc = "save" /\ UNCHANGED <<frames, named>> BY <1>t, <2>2, SaveContextMoves
        <4> QED BY <2>q, <3>2, <4>1 DEF Mine, Moves, Fields
      <3> QED BY <1>t, <2>2, <3>1, <3>2, SaveContextMoves
    <2>3. CASE UploadFrame(p)
      <3>1. PICK f \in Frame \ named :
              /\ w[p].pc = "await" /\ Moves(p, {"await"}, {"ocr", "put"}) /\ w'[p].put = f /\ w[p].put = None
              /\ named' = named \cup {f} /\ frames' = frames \cup {f}
              /\ UNCHANGED <<rows, db, cache, owner, ownerLost, lock, left>>
        BY <1>t, <2>3, BuildMoves
      <3>2. f \in Mine(w'[p]) /\ Mine(w[p]) \subseteq Mine(w'[p])
        BY <3>1, ContextAssumption DEF Mine, Moves, Fields
      <3>3. \A q \in Process : q # p => w'[q] = w[q] BY <3>1 DEF Moves
      <3>4. \A q \in Process : Mine(w[q]) \subseteq Mine(w'[q]) BY <3>2, <3>3
      <3>5. Accounted' BY <3>1, <3>2, <3>4 DEF Accounted
      <3>6. PurgeDone' BY <3>1, <3>3 DEF PurgeDone, Moves
      <3> QED BY <3>5, <3>6
    <2>4. CASE AsrEnds(p) \/ OcrEnds(p) \/ OnUpload(p) \/ OverBudget(p)
      <3>1. Kept /\ db' = db /\ w[p].pc = "await" /\ w'[p].pc \in {"await", "discard"}
        BY <1>t, <2>4, BuildMoves DEF shared, Moves
      <3>2. /\ w[p].uploaded \subseteq w'[p].uploaded
            /\ w[p].put # None => w'[p].put = w[p].put \/ w[p].put \in w'[p].uploaded \cup left'
        BY <1>t, <2>4, BuildMoves DEF Moves, Fields
      <3>3. \A f \in Mine(w[p]) : f \in Mine(w'[p]) \/ f \in left' BY <3>1, <3>2 DEF Mine
      <3> QED BY <2>q, <3>1, <3>3
    <2>5. CASE FinishBuild(p)
      <3>1. /\ w[p].pc = "await" /\ Moves(p, {"save", "discard"}, {"tgt", "why", "got", "uploaded", "vc"})
            /\ \/ w'[p].uploaded = w[p].uploaded /\ frames' = frames /\ left' = left
               \/ w'[p].uploaded = {} /\ Deletes(w[p].uploaded)
            /\ UNCHANGED <<db, named>>
        BY <1>t, <2>5, DiscardMoves
      <3>2. w'[p].put = w[p].put BY <3>1 DEF Moves, Fields
      <3>3. \A f \in Mine(w[p]) : f \in frames' => f \in Mine(w'[p]) \/ f \in left'
        BY <3>1, <3>2 DEF Mine, Moves, Deletes
      <3>4. frames' \subseteq frames /\ left \subseteq left' /\ w'[p].pc # "purge" BY <3>1 DEF Moves, Deletes
      <3> QED BY <3>1, <3>3, <3>4, StepKeepsAccounts DEF Moves
    <2>6. CASE DiscardBuild(p)
      <3>1. w[p].pc = "discard" /\ Moves(p, {"unlock"}, {}) /\ Deletes(w[p].uploaded) /\ UNCHANGED <<db, named>>
        BY <1>t, <2>6, DiscardMoves
      <3>2. w[p].put = None BY <2>t, <3>1 DEF Control
      <3>3. \A f \in Mine(w[p]) : f \in frames' => f \in left' BY <3>1, <3>2 DEF Mine, Deletes
      <3> QED BY <3>1, <3>3, StepKeepsAccounts DEF Moves, Deletes
    <2>7. CASE PurgeRuntimeArtifacts(p)
      <3>1. w[p].pc = "frames" /\ Moves(p, {"purge"}, {}) /\ Deletes(FramesOf(w[p].got)) /\ UNCHANGED <<db, named>>
        BY <1>t, <2>7, DiscardMoves
      <3>2. Mine(w[p]) = {} BY <3>1 DEF Mine
      <3>3. w[p].tgt \in Media /\ w[p].got \in (SUBSET Frame) \cup {None} BY <1>t, <2>t, <3>1 DEF Control, Types, Local
      <3>4. \A f \in FramesOf(w[p].got) : f \in Frame /\ Belongs(f, w[p].tgt) BY <3>1, <3>3 DEF Belongs, For, Held, FramesOf
      <3>5. \A f \in FramesOf(w[p].got) : f \in named BY <3>3, <3>4 DEF FramesInv, OwnershipInv
      <3>6. w'[p].got = w[p].got BY <3>1 DEF Moves, Fields
      <3> QED BY <3>1, <3>2, <3>5, <3>6, StepKeepsAccounts DEF Moves, Deletes
    <2>8. CASE PurgeCheckpoints(p)
      <3>1. CASE /\ w[p].pc = "purge" /\ Moves(p, {"purgeCache"}, {}) /\ db' = [db EXCEPT ![w[p].med] = None]
                 /\ left' = left \cup (FramesOf(db[w[p].med]) \ FramesOf(w[p].got))
        <4>1. Kept BY <1>t, <2>8, <3>1, EndMoves DEF Moves
        <4>2. Mine(w[p]) = {} BY <3>1 DEF Mine
        <4>3. \A f \in FramesOf(w[p].got) : f \in frames => f \in left BY <3>1 DEF PurgeDone
        <4>4. \A n \in Media : \A f \in FramesOf(db[n]) : f \in frames => f \in FramesOf(db'[n]) \/ f \in left'
          BY <2>t, <3>1, <4>3
        <4> QED BY <4>1, <4>2, <4>4, StepKeepsAccounts
      <3>2. CASE w[p].pc \in {"purge", "purgeCache"} /\ Ends(p, {"idle"}) /\ db' = db /\ left \subseteq left'
        <4>1. Kept BY <1>t, <2>8, <3>2, EndMoves DEF Ends
        <4> QED BY <2>q, <3>2, <4>1 DEF Mine
      <3> QED BY <1>t, <2>8, <3>1, <3>2, EndMoves
    <2>9. CASE Crash(p)
      <3>1. Kept /\ db' = db /\ w[p].uploaded \cup ({w[p].put} \ {None}) \subseteq left' BY <1>t, <2>9, EndMoves DEF Ends
      <3> QED BY <2>q, <3>1 DEF Mine
    <2> QED BY <1>3, <2>1, <2>2, <2>3, <2>4, <2>5, <2>6, <2>7, <2>8, <2>9 DEF TaskStep, BranchStep
  <1> QED BY <1>1, <1>2, <1>3 DEF Next

\* Every frame that is stored belongs to a context or to a build in progress, or a failure left it behind: for any
\* number of workers, media, frames and failures.
THEOREM FramesAreExplained == Spec => []FramesExplained
  <1>1. Init => FramesInv /\ CourseInv /\ Accounted /\ PurgeDone
    BY InitFrames, InitCourse DEF Init, Idle, Accounted, PurgeDone
  <1>2. FramesInv /\ CourseInv /\ Accounted /\ PurgeDone /\ [Next]_vars
          => FramesInv' /\ CourseInv' /\ Accounted' /\ PurgeDone'
    BY NextFrames, NextCourse, NextAccounts
  <1>3. Accounted => FramesExplained
    <2>1. \A p \in Process : Mine(w[p]) \subseteq w[p].uploaded \cup {w[p].put} BY DEF Mine
    <2> QED BY <2>1 DEF Accounted, FramesExplained
  <1> QED BY <1>1, <1>2, <1>3, PTL DEF Spec

----------------------------------------------------------------------------
(* A context is built once                                                 *)

\* Holding the lock, as long as no lease is lost: a step of p leaves the others theirs.
LEMMA StepKeepsLock ==
  ASSUME LockInv, NEW p \in Process, \A q \in Process : q # p => w'[q] = w[q],
         lock' = lock \/ lock = None \/ lock = p,
         Holds(w'[p]) => lock' = p \/ (Holds(w[p]) /\ lock' = lock)
  PROVE  LockInv'
  <1>1. \A q \in Process : q # None BY ContextAssumption
  <1>2. \A q \in Process : Holds(w'[q]) => lock' = q
    <2> SUFFICES ASSUME NEW q \in Process, Holds(w'[q]) PROVE lock' = q OBVIOUS
    <2>1. CASE q = p BY <2>1 DEF LockInv
    <2>2. CASE q # p
      <3>1. lock = q BY <2>2 DEF LockInv
      <3> QED BY <1>1, <2>2, <3>1
    <2> QED BY <2>1, <2>2
  <1> QED BY <1>2 DEF LockInv, Holds, Builds, Loading

\* Only artifacts of deleted media are purged, to the end.
LEMMA StepKeepsGone ==
  ASSUME GoneInv, NEW p \in Process, \A q \in Process : q # p => w'[q] = w[q], rows' \subseteq rows,
         w'[p].pc \in {"purge", "purgeCache"} => w'[p].med \notin rows
  PROVE  GoneInv'
  BY DEF GoneInv

LEMMA NextLock ==
  ASSUME "lease" \notin Faults, FramesInv, CourseInv, LockInv, GoneInv, [Next]_vars
  PROVE  LockInv' /\ GoneInv'
  <1>t. Types /\ ControlInv /\ PurgeInv BY DEF FramesInv
  <1>1. ASSUME NEW p \in Process, NEW m \in Media, AsyncAnalyze(p, m) \/ DeleteByID(p, m) PROVE LockInv' /\ GoneInv'
    <2>1. /\ w'[p].pc = "cache" /\ w'[p].locked = FALSE /\ \A q \in Process : q # p => w'[q] = w[q]
          /\ rows' \subseteq rows /\ lock' = lock
      BY <1>t, <1>1, StartMoves
    <2>2. ~Holds(w'[p]) BY <2>1 DEF Holds
    <2> QED BY <2>1, <2>2, StepKeepsLock, StepKeepsGone
  <1>2. CASE LeaseExpires
    <2>1. w' = w /\ rows' = rows /\ w[lock].pc = "dead" BY <1>2 DEF LeaseExpires, At, Fault
    <2>2. \A q \in Process : ~Holds(w[q])
      <3> SUFFICES ASSUME NEW q \in Process, Holds(w[q]) PROVE FALSE OBVIOUS
      <3>1. w[q].pc = "dead" BY <2>1 DEF LockInv
      <3> QED BY <3>1 DEF Holds, Builds, Loading
    <2> QED BY <2>1, <2>2 DEF LockInv, GoneInv
  <1>3. CASE UNCHANGED vars BY <1>3 DEF vars, shared, LockInv, GoneInv
  <1>4. ASSUME NEW p \in Process, TaskStep(p) \/ BranchStep(p) \/ Crash(p) PROVE LockInv' /\ GoneInv'
    <2>t. /\ w[p].why \in {"own", "owner", "purge"} /\ w[p].locked \in BOOLEAN /\ w[p].second \in BOOLEAN
          /\ Control(w[p]) /\ Course(w[p])
      BY <1>t DEF Types, Local, ControlInv, CourseInv
    <2>g. w[p].pc \in {"frames", "purge", "purgeCache"} => w[p].med \notin rows BY <1>t, <2>t DEF GoneInv, PurgeInv, Control
    <2> DEFINE Orderly == /\ \A q \in Process : q # p => w'[q] = w[q]
                          /\ rows' = rows
                          /\ lock' = lock \/ lock = None \/ lock = p
                          /\ Holds(w'[p]) => lock' = p \/ (Holds(w[p]) /\ lock' = lock)
                          /\ w'[p].pc \in {"purge", "purgeCache"} => w'[p].med \notin rows
    <2>0. Orderly
      <3> USE DEF Holds, Builds, Loading, Moves, Fields, Takes, Looks, Ends, Course
      <3>1. CASE ReadCache(p) BY <1>t, <2>t, <3>1, ReadCacheMoves
      <3>2. CASE FindPayload(p) BY <1>t, <2>t, <3>2, FindPayloadMoves DEF shared
      <3>3. CASE FillCache(p) BY <1>t, <2>t, <3>3, FillCacheMoves
      <3>4. CASE ContextOwner(p) \/ DropOwner(p) \/ RememberContextOwner(p) BY <1>t, <2>t, <3>4, OwnerMoves
      <3>5. CASE TryLock(p) \/ Unlock(p) BY <1>t, <2>t, <3>5, LockMoves
      <3>6. CASE SaveContext(p) BY <1>t, <2>t, <3>6, SaveContextMoves
      <3>7. CASE SaveCache(p) BY <1>t, <2>t, <3>7, SaveCacheMoves
      <3>8. CASE buildContext(p) BY <1>t, <2>t, <3>8, BuildMoves DEF shared
      <3>9. CASE OverBudget(p) \/ BranchStep(p) BY <1>t, <2>t, <3>9, BuildMoves DEF BranchStep, shared
      <3>10. CASE FinishBuild(p) BY <1>t, <2>t, <3>10, DiscardMoves
      <3>11. CASE DiscardBuild(p) \/ PurgeRuntimeArtifacts(p) BY <1>t, <2>t, <2>g, <3>11, DiscardMoves
      <3>12. CASE Conclude(p) BY <1>t, <2>t, <3>12, EndMoves DEF shared
      <3>13. CASE FailedTask(p) \/ Crash(p) BY <1>t, <2>t, <3>13, EndMoves DEF shared
      <3>14. CASE PurgeCheckpoints(p) BY <1>t, <2>t, <2>g, <3>14, EndMoves
      <3> QED BY <1>4, <3>1, <3>2, <3>3, <3>4, <3>5, <3>6, <3>7, <3>8, <3>9, <3>10, <3>11, <3>12, <3>13, <3>14 DEF TaskStep
    <2> QED BY <2>0, StepKeepsLock, StepKeepsGone
  <1> QED BY <1>1, <1>2, <1>3, <1>4 DEF Next

\* One process builds at a time, and no other is about to.
LEMMA OneBuilder ==
  ASSUME CourseInv, LockInv, NEW p \in Process, NEW q \in Process, Builds(w[p]), Holds(w[q]) \/ Builds(w[q])
  PROVE  p = q
  <1>1. Holds(w[p]) BY DEF CourseInv, Course, Holds
  <1>2. Holds(w[q]) BY DEF CourseInv, Course, Holds
  <1> QED BY <1>1, <1>2 DEF LockInv

\* A context that is saved replaces none, unless one copy replaces another.
LEMMA SaveReplacesNothing ==
  ASSUME CourseInv, LockInv, \A q \in Process : Fits(w[q]), Known, NEW p \in Process, w[p].pc = "save", w[p].med \in rows
  PROVE  db[w[p].med] \in {None, w[p].vc}
  <1>1. CASE w[p].asr # "off" BY <1>1 DEF Fits, Builds, Saved
  <1>2. CASE w[p].asr = "off"
    <2>1. w[p].vc = {} BY <1>2 DEF CourseInv, Course
    <2>2. owner \notin {None, w[p].med} BY <1>2 DEF Fits, Copies
    <2>3. \A q \in Process : ~(w[q].med = w[p].med /\ Saved(w[q])) BY <2>2 DEF Fits, Saved, Builds
    <2> QED BY <2>1, <2>2, <2>3 DEF Known
  <1> QED BY <1>1, <1>2

\* A step of p that leaves the contexts of existing media and the owner alone.
LEMMA StepKeepsRegistered ==
  ASSUME Registered, NEW p \in Process, \A q \in Process : q # p => w'[q] = w[q], rows' \subseteq rows, rows \subseteq Media,
         ownerLost => ownerLost',
         ~ownerLost => /\ owner' = owner /\ \A m \in rows : db'[m] = db[m]
                       /\ \A m \in rows : cache'[m] \in {cache[m], None, db[m]}
                       /\ Fits(w'[p]) /\ (Saved(w[p]) => Saved(w'[p]) /\ w'[p].med = w[p].med)
  PROVE  Registered'
  <1> SUFFICES ASSUME ~ownerLost PROVE (\A q \in Process : Fits(w[q]))' /\ Known' /\ Agrees' BY DEF Registered
  <1>0. (\A q \in Process : Fits(w[q])) /\ Known /\ Agrees BY DEF Registered
  <1>1. \A q \in Process : Fits(w'[q]) BY <1>0
  <1>2. (\A q \in Process : Fits(w[q]))' BY <1>1 DEF Fits, Builds, Saved, Copies, Loading
  <1>3. Known'
    <2> SUFFICES ASSUME NEW m \in rows' PROVE db'[m] \in {None, {}} \/ owner' = m \/ \E q \in Process : w'[q].med = m /\ Saved(w'[q])
      BY DEF Known, Saved
    <2>1. CASE \E q \in Process : w[q].med = m /\ Saved(w[q]) BY <2>1
    <2> QED BY <1>0, <2>1 DEF Known
  <1>4. Agrees' BY <1>0 DEF Agrees
  <1> QED BY <1>2, <1>3, <1>4

LEMMA NextRegistered ==
  ASSUME FramesInv, CourseInv, LockInv, GoneInv, Registered, [Next]_vars
  PROVE  Registered'
  <1>t. Types /\ ControlInv /\ PurgeInv /\ rows \subseteq Media BY DEF FramesInv, Types
  <1>1. ASSUME NEW p \in Process, NEW m \in Media, AsyncAnalyze(p, m) \/ DeleteByID(p, m) PROVE Registered'
    <2>1. /\ w[p].pc = "idle" /\ w'[p].pc = "cache" /\ w'[p].why # "owner" /\ \A q \in Process : q # p => w'[q] = w[q]
          /\ rows' \subseteq rows /\ UNCHANGED <<db, cache, owner, ownerLost>>
      BY <1>t, <1>1, StartMoves
    <2>2. Fits(w'[p]) /\ ~Saved(w[p]) BY <2>1 DEF Fits, Builds, Copies, Saved, Loading
    <2> QED BY <1>t, <2>1, <2>2, StepKeepsRegistered
  <1>2. CASE LeaseExpires \/ UNCHANGED vars
    <2>1. UNCHANGED <<rows, db, cache, owner, ownerLost, w>> BY <1>2 DEF LeaseExpires, vars, shared
    <2>2. CASE ownerLost BY <2>1, <2>2 DEF Registered
    <2>3. CASE (\A q \in Process : Fits(w[q])) /\ Known /\ Agrees
      <3>1. (\A q \in Process : Fits(w[q]))' BY <2>1, <2>3 DEF Fits
      <3>2. Known' BY <2>1, <2>3 DEF Known
      <3>3. Agrees' BY <2>1, <2>3 DEF Agrees
      <3> QED BY <3>1, <3>2, <3>3 DEF Registered
    <2> QED BY <2>2, <2>3 DEF Registered
  <1>3. ASSUME NEW p \in Process, TaskStep(p) \/ BranchStep(p) \/ Crash(p) PROVE Registered'
    <2>l. CASE ownerLost'  BY <2>l DEF Registered
    <2>k. CASE ~ownerLost' /\ ownerLost
      <3>1. ReadCache(p) \/ FindPayload(p) \/ FillCache(p) => ownerLost' = ownerLost
        BY <1>t, ReadCacheMoves, FindPayloadMoves, FillCacheMoves DEF shared
      <3>2. SaveContext(p) \/ SaveCache(p) => ownerLost' = ownerLost BY <1>t, SaveContextMoves, SaveCacheMoves
      <3>3. TryLock(p) \/ Unlock(p) => ownerLost' = ownerLost BY <1>t, LockMoves
      <3>4. buildContext(p) \/ OverBudget(p) \/ BranchStep(p) => ownerLost' = ownerLost
        BY <1>t, BuildMoves DEF shared, BranchStep
      <3>5. FinishBuild(p) \/ DiscardBuild(p) \/ PurgeRuntimeArtifacts(p) => ownerLost' = ownerLost BY <1>t, DiscardMoves
      <3>6. Conclude(p) \/ FailedTask(p) \/ PurgeCheckpoints(p) => ownerLost' = ownerLost BY <1>t, EndMoves DEF shared
      <3>7. Crash(p) => ownerLost' BY <1>t, <2>k, EndMoves
      <3>8. ContextOwner(p) \/ DropOwner(p) \/ RememberContextOwner(p) => ownerLost' = ownerLost \/ ownerLost'
        BY <1>t, OwnerMoves
      <3> QED BY <1>3, <2>k, <3>1, <3>2, <3>3, <3>4, <3>5, <3>6, <3>7, <3>8 DEF TaskStep
    <2>n. CASE ~ownerLost' /\ ~ownerLost
      <3>0. (\A q \in Process : Fits(w[q])) /\ Known /\ Agrees BY <2>n DEF Registered
      <3>t. /\ db \in [Media -> (SUBSET Frame) \cup {None}] /\ w[p].why \in {"own", "owner", "purge"}
            /\ w[p].locked \in BOOLEAN /\ w[p].second \in BOOLEAN
            /\ Control(w[p]) /\ Course(w[p]) /\ Fits(w[p])
        BY <1>t, <3>0 DEF Types, Local, ControlInv, CourseInv
      <3>l. ASSUME NEW context, Takes(p, context), w[p].pc \in Loading,
                   w[p].why = "own" /\ context = None /\ w[p].tgt \in rows => db[w[p].tgt] = None
            PROVE  Fits(w'[p]) /\ ~Saved(w[p]) /\ \A q \in Process : q # p => w'[q] = w[q]
        <4>1. CASE w[p].why = "own"
          BY <3>t, <3>l, <4>1 DEF Takes, Moves, Fields, Fits, Builds, Copies, Saved, Loading, Course
        <4>2. CASE w[p].why = "owner"
          BY <3>t, <3>l, <4>2 DEF Takes, Moves, Fields, Fits, Builds, Copies, Saved, Loading, Course
        <4>3. CASE w[p].why = "purge"
          BY <3>t, <3>l, <4>3 DEF Takes, Moves, Fields, Fits, Builds, Copies, Saved, Loading, Course
        <4> QED BY <3>t, <4>1, <4>2, <4>3
      <3> DEFINE Quiet == /\ \A q \in Process : q # p => w'[q] = w[q]
                          /\ rows' = rows /\ owner' = owner /\ \A m \in rows : db'[m] = db[m]
                          /\ \A m \in rows : cache'[m] \in {cache[m], None, db[m]}
                 Settled == Fits(w'[p]) /\ (Saved(w[p]) => Saved(w'[p]) /\ w'[p].med = w[p].med)
      <3>q. ASSUME Quiet, Settled PROVE Registered' BY <1>t, <2>n, <3>q, StepKeepsRegistered
      <3>1. CASE ReadCache(p)
        <4>1. w[p].pc \in Loading /\ ownerLost' = ownerLost BY <1>t, <3>1, ReadCacheMoves DEF Loading
        <4>2. CASE cache' = cache /\ cache[w[p].tgt] # None /\ Takes(p, cache[w[p].tgt])
          <5>1. Settled BY <3>l, <4>1, <4>2
          <5>2. Quiet BY <1>t, <3>1, <3>l, <4>1, <4>2, ReadCacheMoves
          <5> QED BY <3>q, <4>1, <5>1, <5>2
        <4>3. CASE Moves(p, {"query"}, {}) /\ \A n \in Media : cache'[n] \in {cache[n], None}
          <5>1. Settled BY <3>t, <4>1, <4>3 DEF Moves, Fields, Fits, Builds, Copies, Saved, Loading
          <5>2. Quiet BY <1>t, <3>1, <4>3, ReadCacheMoves DEF Moves
          <5> QED BY <3>q, <4>1, <5>1, <5>2
        <4> QED BY <1>t, <3>1, <4>2, <4>3, ReadCacheMoves
      <3>2. CASE FindPayload(p)
        <4>1. w[p].pc \in Loading /\ ownerLost' = ownerLost /\ UNCHANGED <<rows, db, cache, owner>>
          BY <1>t, <3>2, FindPayloadMoves DEF Loading, shared
        <4>2. CASE (db[w[p].tgt] = None \/ w[p].why = "purge") /\ Takes(p, None)
          <5>1. Settled /\ \A q \in Process : q # p => w'[q] = w[q] BY <3>l, <4>1, <4>2
          <5> QED BY <3>q, <4>1, <5>1
        <4>3. CASE Moves(p, {"fill"}, {"got"}) /\ w'[p].got = db[w[p].tgt]
          <5>1. Settled BY <3>t, <4>1, <4>3 DEF Moves, Fields, Fits, Builds, Copies, Saved, Loading
          <5> QED BY <3>q, <4>1, <4>3, <5>1 DEF Moves
        <4>4. CASE Moves(p, {"unlock"}, {})
          <5>1. Settled BY <3>t, <4>1, <4>4 DEF Moves, Fits, Builds, Copies, Saved, Loading
          <5> QED BY <3>q, <4>1, <4>4, <5>1 DEF Moves
        <4> QED BY <1>t, <3>2, <4>2, <4>3, <4>4, FindPayloadMoves
      <3>3. CASE FillCache(p)
        <4>1. /\ w[p].pc = "fill" /\ Takes(p, w[p].got)
              /\ \A n \in Media : cache'[n] \in {cache[n], None} \/ (n = w[p].tgt /\ cache'[n] = w[p].got)
              /\ UNCHANGED <<rows, db, owner, ownerLost>>
          BY <1>t, <3>3, FillCacheMoves
        <4>2. w[p].got # None /\ (w[p].tgt \in rows => w[p].got = db[w[p].tgt]) BY <3>t, <4>1 DEF Course, Fits
        <4>3. Settled /\ \A q \in Process : q # p => w'[q] = w[q] BY <3>l, <4>1, <4>2 DEF Loading
        <4>4. \A m \in rows : cache'[m] \in {cache[m], None, db[m]} BY <1>t, <4>1, <4>2
        <4> QED BY <3>q, <4>1, <4>3, <4>4
      <3>4. CASE ContextOwner(p)
        <4>1. w[p].pc = "owner" /\ UNCHANGED <<rows, db, cache, owner>> BY <1>t, <3>4, OwnerMoves
        <4>2. CASE /\ owner \notin {None, w[p].med} /\ ownerLost' = ownerLost
                   /\ Moves(p, {"cache"}, {"tgt", "why"}) /\ w'[p].why = "owner"
          <5>1. Settled BY <4>1, <4>2 DEF Moves, Fields, Fits, Builds, Copies, Saved, Loading
          <5> QED BY <3>q, <4>1, <4>2, <5>1 DEF Moves
        <4>3. CASE owner \in {None, w[p].med} /\ ownerLost' = ownerLost /\ Looks(p)
          <5>1. Settled /\ \A q \in Process : q # p => w'[q] = w[q]
            BY <3>t, <4>1, <4>3 DEF Looks, Moves, Fields, Fits, Builds, Copies, Saved, Loading
          <5> QED BY <3>q, <4>1, <4>3, <5>1
        <4> QED BY <1>t, <2>n, <3>4, <4>2, <4>3, OwnerMoves
      <3>5. CASE DropOwner(p)
        <4>1. w[p].pc = "drop" /\ UNCHANGED <<rows, db, cache, owner, ownerLost>> /\ Moves(p, {"unlock"}, {})
          BY <1>t, <2>n, <3>5, OwnerMoves
        <4>2. Settled BY <4>1 DEF Moves, Fits, Builds, Copies, Saved, Loading
        <4> QED BY <3>q, <4>1, <4>2 DEF Moves
      <3>6. CASE RememberContextOwner(p)
        <4>1. /\ w[p].pc = "remember" /\ Moves(p, {"unlock"}, {}) /\ owner' = w[p].med
              /\ UNCHANGED <<rows, db, cache, ownerLost>>
          BY <1>t, <2>n, <3>6, OwnerMoves
        <4>2. Builds(w[p]) /\ owner \in {None, w[p].med} BY <3>t, <4>1 DEF Builds, Course, Fits
        <4>3. ASSUME NEW q \in Process, q # p PROVE Fits(w[q])'
          <5>1. w'[q] = w[q] /\ Fits(w[q]) BY <3>0, <4>1, <4>3 DEF Moves
          <5>2. ~Builds(w[q]) /\ ~Holds(w[q]) BY <4>2, <4>3, OneBuilder
          <5>3. ~(w[q].pc = "owner" /\ w[q].locked) BY <5>2 DEF Holds
          <5>4. Copies(w[q]) => owner' = owner BY <4>1, <4>2, <5>1 DEF Fits
          <5> QED BY <4>1, <5>1, <5>2, <5>3, <5>4 DEF Fits, Builds, Copies, Saved, Loading
        <4>4. Fits(w[p])' BY <4>1 DEF Moves, Fits, Builds, Copies, Saved, Loading
        <4>5. Known'
          <5> SUFFICES ASSUME NEW m \in rows PROVE db[m] \in {None, {}} \/ owner' = m \/ \E q \in Process : w'[q].med = m /\ Saved(w'[q])
            BY <4>1 DEF Known, Saved
          <5>1. CASE owner = m BY <1>t, <4>1, <4>2, <5>1, ContextAssumption
          <5>2. ASSUME NEW q \in Process, w[q].med = m, Saved(w[q])
                PROVE  owner' = m \/ \E o \in Process : w'[o].med = m /\ Saved(w'[o])
            BY <4>1, <5>2 DEF Moves
          <5> QED BY <3>0, <5>1, <5>2 DEF Known
        <4>6. Agrees' BY <3>0, <4>1 DEF Agrees
        <4> QED BY <4>3, <4>4, <4>5, <4>6 DEF Registered
      <3>7. CASE TryLock(p) \/ Unlock(p)
        <4>1. Quiet /\ ownerLost' = ownerLost BY <1>t, <3>7, LockMoves DEF Moves
        <4>2. Settled BY <1>t, <3>7, LockMoves DEF Moves, Fits, Builds, Copies, Saved, Loading
        <4> QED BY <3>q, <4>1, <4>2
      <3>8. CASE SaveContext(p)
        <4>1. w[p].pc = "save" /\ UNCHANGED <<rows, cache, owner, ownerLost>> BY <1>t, <3>8, SaveContextMoves
        <4>2. CASE Moves(p, {"discard"}, {}) /\ db' = db
          <5>1. Settled BY <4>1, <4>2 DEF Moves, Fits, Builds, Copies, Saved, Loading
          <5> QED BY <3>q, <4>1, <4>2, <5>1 DEF Moves
        <4>3. CASE Moves(p, {"saveCache"}, {}) /\ db' = [db EXCEPT ![w[p].med] = w[p].vc]
          <5> DEFINE m == w[p].med
          <5>1. m \in Media /\ w[p].vc # None BY <3>t, <4>1 DEF Control, Course
          <5>2. \A n \in Media : n # m => db'[n] = db[n] BY <3>t, <4>3
          <5>3. db'[m] = w[p].vc BY <3>t, <4>3, <5>1
          <5>4. m \in rows => db[m] \in {None, w[p].vc} BY <3>0, <4>1, SaveReplacesNothing
          <5>m. w'[p].med = m /\ w'[p].vc = w[p].vc /\ w'[p].asr = w[p].asr /\ w'[p].pc = "saveCache"
                /\ \A q \in Process : q # p => w'[q] = w[q]
            BY <4>3 DEF Moves, Fields
          <5> HIDE DEF m
          <5>5. \A n \in rows : db[n] # None => db'[n] = db[n] BY <1>t, <5>2, <5>3, <5>4
          <5>6. ASSUME NEW q \in Process, q # p PROVE Fits(w[q])'
            <6>1. w'[q] = w[q] /\ Fits(w[q]) /\ Course(w[q]) /\ Control(w[q])
              BY <1>t, <3>0, <5>m, <5>6 DEF CourseInv, ControlInv
            <6>2. Builds(w[q]) /\ ~Saved(w[q]) /\ w[q].med \in rows => w[q].med # m
              <7> SUFFICES ASSUME Builds(w[q]), w[q].med = m PROVE FALSE OBVIOUS
              <7>1. CASE w[p].asr # "off"
                <8>1. Builds(w[p]) BY <4>1, <7>1 DEF Builds
                <8> QED BY <5>6, <8>1, OneBuilder
              <7>2. CASE w[p].asr = "off" BY <3>t, <4>1, <6>1, <7>2 DEF Fits, Copies, m
              <7> QED BY <7>1, <7>2
            <6>3. w[q].pc = "owner" /\ w[q].locked /\ w[q].med = m => owner \notin {None, m}
              <7> SUFFICES ASSUME w[q].pc = "owner", w[q].locked, w[q].med = m PROVE owner \notin {None, m} OBVIOUS
              <7>1. CASE w[p].asr # "off"
                <8>1. Builds(w[p]) /\ Holds(w[q]) BY <4>1, <7>1 DEF Builds, Holds
                <8> QED BY <5>6, <8>1, OneBuilder
              <7>2. CASE w[p].asr = "off" BY <3>t, <4>1, <7>2 DEF Fits, Copies, m
              <7> QED BY <7>1, <7>2
            <6>4. /\ w[q].pc = "fill" /\ w[q].tgt \in rows => w[q].got = db[w[q].tgt] /\ w[q].got # None
                  /\ w[q].pc = "saveCache" /\ w[q].med \in rows => w[q].vc = db[w[q].med] /\ w[q].vc # None
              BY <6>1 DEF Fits, Course
            <6> QED BY <1>t, <4>1, <5>2, <5>5, <6>1, <6>2, <6>3, <6>4 DEF Fits, Builds, Copies, Saved, Loading
          <5>7. Fits(w[p])'
            <6>1. Builds(w'[p]) => owner \in {None, m} BY <3>t, <4>1, <5>m DEF Builds, Fits, m
            <6>2. ~Copies(w'[p]) BY <5>m DEF Copies, Loading
            <6>3. Builds(w'[p]) => Saved(w'[p]) BY <5>m DEF Builds, Saved
            <6> QED BY <4>1, <5>3, <5>m, <6>1, <6>2, <6>3 DEF Fits, Builds, Copies, Saved, Loading
          <5>8. Known'
            <6> SUFFICES ASSUME NEW n \in rows
                         PROVE  db'[n] \in {None, {}} \/ owner = n \/ \E q \in Process : w'[q].med = n /\ Saved(w'[q])
              BY <4>1 DEF Known, Saved
            <6>1. CASE n = m
              <7>1. CASE w[p].asr # "off" BY <5>m, <6>1, <7>1 DEF Saved
              <7>2. CASE w[p].asr = "off" BY <3>t, <4>1, <5>3, <6>1, <7>2 DEF Course
              <7> QED BY <7>1, <7>2
            <6>2. CASE n # m
              <7>1. db'[n] = db[n] BY <1>t, <5>2, <6>2
              <7>2. \A q \in Process : w[q].med = n /\ Saved(w[q]) => q # p BY <6>2 DEF m
              <7> QED BY <3>0, <5>m, <7>1, <7>2 DEF Known
            <6> QED BY <6>1, <6>2
          <5>9. Agrees' BY <3>0, <4>1, <5>5 DEF Agrees
          <5> QED BY <5>6, <5>7, <5>8, <5>9 DEF Registered
        <4> QED BY <1>t, <3>8, <4>2, <4>3, SaveContextMoves
      <3>9. CASE SaveCache(p)
        <4>1. /\ w[p].pc = "saveCache" /\ UNCHANGED <<rows, db, owner, ownerLost>>
              /\ Moves(p, {IF w[p].asr = "off" THEN "unlock" ELSE "remember"}, {})
              /\ \A n \in Media : cache'[n] \in {cache[n], None} \/ (n = w[p].med /\ cache'[n] = w[p].vc)
          BY <1>t, <3>9, SaveCacheMoves
        <4>2. \A n \in rows : cache'[n] \in {cache[n], None, db[n]} BY <1>t, <3>t, <4>1 DEF Fits
        <4>3. Settled BY <3>t, <4>1 DEF Moves, Fields, Fits, Builds, Copies, Saved, Loading
        <4> QED BY <3>q, <4>1, <4>2, <4>3 DEF Moves
      <3>10. CASE buildContext(p) \/ OverBudget(p) \/ BranchStep(p)
        <4>1. Quiet /\ ownerLost' = ownerLost BY <1>t, <3>10, BuildMoves DEF Moves, shared, BranchStep
        <4>2. /\ w[p].pc \in {"build", "await"} /\ w'[p].med = w[p].med
              /\ w'[p].pc \in {"await", "unlock", "discard"}
          BY <1>t, <3>10, BuildMoves DEF Moves, Fields, BranchStep
        <4>3. Settled BY <3>t, <4>2 DEF Fits, Builds, Copies, Saved, Loading
        <4> QED BY <3>q, <4>1, <4>3
      <3>11. CASE FinishBuild(p)
        <4>1. Quiet /\ ownerLost' = ownerLost BY <1>t, <3>11, DiscardMoves DEF Moves
        <4>2. /\ w[p].pc = "await" /\ w'[p].med = w[p].med /\ w'[p].asr = w[p].asr /\ w'[p].pc \in {"save", "discard"}
          BY <1>t, <3>11, DiscardMoves DEF Moves, Fields
        <4>3. Settled BY <3>t, <4>2 DEF Fits, Builds, Copies, Saved, Loading, Course
        <4> QED BY <3>q, <4>1, <4>3
      <3>12. CASE DiscardBuild(p) \/ PurgeRuntimeArtifacts(p)
        <4>1. Quiet /\ ownerLost' = ownerLost BY <1>t, <3>12, DiscardMoves DEF Moves
        <4>2. w[p].pc \in {"discard", "frames"} /\ w'[p].pc \in {"unlock", "purge"} BY <1>t, <3>12, DiscardMoves DEF Moves
        <4>3. Settled BY <4>2 DEF Fits, Builds, Copies, Saved, Loading
        <4> QED BY <3>q, <4>1, <4>3
      <3>13. CASE Conclude(p) \/ FailedTask(p)
        <4>1. Quiet /\ ownerLost' = ownerLost BY <1>t, <3>13, EndMoves DEF Moves, Ends, shared
        <4>2. /\ w[p].pc \in {"agent", "failed"}
              /\ w'[p].pc \in {"idle", "failed"} \/ (w'[p].pc = "cache" /\ w'[p].why = "purge")
          BY <1>t, <3>13, EndMoves DEF Moves, Ends
        <4>3. Settled BY <4>2 DEF Fits, Builds, Copies, Saved, Loading
        <4> QED BY <3>q, <4>1, <4>3
      <3>14. CASE PurgeCheckpoints(p)
        <4>1. w[p].pc \in {"purge", "purgeCache"} /\ w'[p].pc \in {"idle", "purgeCache"} /\ ownerLost' = ownerLost
          BY <1>t, <3>14, EndMoves DEF Moves, Ends
        <4>2. w[p].med \notin rows BY <4>1 DEF GoneInv
        <4>3. Quiet BY <1>t, <3>t, <3>14, <4>2, EndMoves DEF Moves, Ends
        <4>4. Settled BY <4>1 DEF Fits, Builds, Copies, Saved, Loading
        <4> QED BY <3>q, <4>1, <4>3, <4>4
      <3>15. CASE Crash(p)
        <4>1. Quiet /\ w'[p].pc = "dead" /\ ~Saved(w[p]) BY <1>t, <2>n, <3>15, EndMoves DEF Ends, Saved
        <4>2. Settled BY <4>1 DEF Fits, Builds, Copies, Saved, Loading
        <4> QED BY <3>q, <4>1, <4>2
      <3> QED BY <1>3, <3>1, <3>2, <3>3, <3>4, <3>5, <3>6, <3>7, <3>8, <3>9, <3>10, <3>11, <3>12, <3>13, <3>14, <3>15
              DEF TaskStep
    <2> QED BY <2>l, <2>k, <2>n
  <1> QED BY <1>1, <1>2, <1>3 DEF Next

ContextInv == FramesInv /\ CourseInv /\ LockInv /\ GoneInv /\ Registered

LEMMA InitContext == Init => ContextInv
  <1> SUFFICES ASSUME Init PROVE ContextInv OBVIOUS
  <1>1. FramesInv /\ CourseInv BY InitFrames, InitCourse
  <1>2. \A p \in Process : w[p].pc = "idle" BY DEF Init, Idle
  <1>3. LockInv /\ GoneInv BY <1>2 DEF LockInv, GoneInv, Holds, Builds, Loading
  <1>4. \A p \in Process : Fits(w[p]) BY <1>2 DEF Fits, Builds, Copies, Loading
  <1>5. Known /\ Agrees BY <1>1 DEF Init, Known, Agrees, FramesInv, Types
  <1> QED BY <1>1, <1>3, <1>4, <1>5 DEF ContextInv, Registered

LEMMA NextContext ==
  ASSUME "lease" \notin Faults
  PROVE  ContextInv /\ [Next]_vars => ContextInv'
  BY NextFrames, NextCourse, NextLock, NextRegistered DEF ContextInv

\* What LoadContext returns for a media that exists does not depend on whether Redis has it: as long as no worker
\* loses its lease and every builder is registered and found, the cached context is the one in MySQL, for any number
\* of workers and media that load, refill, save and delete at the same time.
THEOREM CacheAlwaysAgrees ==
  ASSUME "lease" \notin Faults
  PROVE  Spec => []CacheAgrees
  <1>1. ContextInv => CacheAgrees BY DEF ContextInv, Registered, Agrees, CacheAgrees
  <1> QED BY <1>1, InitContext, NextContext, PTL DEF Spec

\* The context of a media that exists is never built or copied again, under the same conditions: the context lock, the
\* second look and the registered owner together keep two builds of one content from both being saved.
THEOREM ContextsStand ==
  ASSUME "lease" \notin Faults
  PROVE  Spec => ContextStands
  <1>1. ContextInv /\ [Next]_vars => [\A m \in rows' : db[m] # None => db'[m] = db[m] \/ ownerLost]_vars
    <2> SUFFICES ASSUME ContextInv, Next, NEW m \in rows', db[m] # None, ~ownerLost PROVE db'[m] = db[m] OBVIOUS
    <2>t. /\ Types /\ ControlInv /\ CourseInv /\ LockInv /\ GoneInv /\ Known /\ \A q \in Process : Fits(w[q])
          /\ db \in [Media -> (SUBSET Frame) \cup {None}] /\ rows \subseteq Media
      BY DEF ContextInv, FramesInv, Registered, Types
    <2>1. ASSUME NEW p \in Process, NEW n \in Media, AsyncAnalyze(p, n) \/ DeleteByID(p, n) PROVE db' = db
      BY <2>t, <2>1, StartMoves
    <2>2. CASE LeaseExpires BY <2>2 DEF LeaseExpires
    <2>3. ASSUME NEW p \in Process, TaskStep(p) \/ BranchStep(p) \/ Crash(p) PROVE db'[m] = db[m]
      <3>1. CASE SaveContext(p)
        <4>1. m \in rows /\ w[p].pc = "save" BY <2>t, <3>1, SaveContextMoves
        <4>2. db' = db \/ db' = [db EXCEPT ![w[p].med] = w[p].vc] BY <2>t, <3>1, SaveContextMoves
        <4>3. w[p].med \in rows => db[w[p].med] \in {None, w[p].vc} BY <2>t, <4>1, SaveReplacesNothing
        <4> QED BY <2>t, <4>1, <4>2, <4>3
      <3>2. CASE PurgeCheckpoints(p)
        <4>1. m \in rows /\ w[p].pc \in {"purge", "purgeCache"} BY <2>t, <3>2, EndMoves
        <4>2. w[p].med \notin rows BY <2>t, <4>1 DEF GoneInv
        <4>3. db' = db \/ db' = [db EXCEPT ![w[p].med] = None] BY <2>t, <3>2, EndMoves
        <4> QED BY <2>t, <4>1, <4>2, <4>3
      <3>3. ReadCache(p) \/ FindPayload(p) \/ FillCache(p) \/ SaveCache(p) => db' = db
        BY <2>t, ReadCacheMoves, FindPayloadMoves, FillCacheMoves, SaveCacheMoves DEF shared
      <3>4. ContextOwner(p) \/ DropOwner(p) \/ RememberContextOwner(p) \/ TryLock(p) \/ Unlock(p) => db' = db
        BY <2>t, OwnerMoves, LockMoves
      <3>5. buildContext(p) \/ OverBudget(p) \/ BranchStep(p) => db' = db BY <2>t, BuildMoves DEF shared, BranchStep
      <3>6. FinishBuild(p) \/ DiscardBuild(p) \/ PurgeRuntimeArtifacts(p) => db' = db BY <2>t, DiscardMoves
      <3>7. Conclude(p) \/ FailedTask(p) \/ Crash(p) => db' = db BY <2>t, EndMoves DEF shared
      <3> QED BY <2>3, <3>1, <3>2, <3>3, <3>4, <3>5, <3>6, <3>7 DEF TaskStep
    <2> QED BY <2>1, <2>2, <2>3 DEF Next
  <1> QED BY <1>1, InitContext, NextContext, PTL DEF Spec, ContextStands
=============================================================================
