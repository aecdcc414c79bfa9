--------------------------- MODULE HubVideoProofs ---------------------------
(***************************************************************************)
(* What the encoder hub keeps for any number of devices, size requests and *)
(* encoders. The invariants of the module EncoderHub are not inductive by  *)
(* themselves; HubInv adds who is responsible for every encoder that has   *)
(* not ended, and PictureInv what a device's decoder follows as long as no *)
(* two encoders ran at once. And what VideoStream, with variables of its   *)
(* own, hands to the hub, whatever bytes ffmpeg writes.                    *)
(***************************************************************************)
EXTENDS EncoderHub, Samples, SequenceTheorems, TLAPS

\* The hub's current encoder runs, and no other one does.
CurRuns ==
  /\ NoLostEncoder
  /\ \A e \in Encoders : cur = e => enc[e] = "on"

\* A goroutine that waits for an encoder's end waits for one that was cancelled.
WaitsForCancelled ==
  \A t \in Threads, e \in Encoders :
    held[t] = e => pc[t] = "wait" /\ enc[e] \in {"cancelled", "ended"}

\* Every cancelled encoder is waited for, and by one goroutine only.
CancelledIsWaitedFor ==
  \A e \in Encoders : enc[e] \in {"cancelled", "ended"} => \E t \in Threads : held[t] = e

OneWaiter ==
  \A t, u \in Threads, e \in Encoders : held[t] = e /\ held[u] = e => t = u

\* The subscribers are the sessions between join and leave.
SubscribedInside == \A d \in Devices : d \in subs <=> pc[d] = "in"

\* With nobody subscribed, a goroutine is on its way to stop the current encoder.
EmptyIsBeingStopped ==
  subs = {} /\ cur # None => \E t \in Threads : pc[t] = "stop"

HubInv ==
  /\ TypeOK
  /\ CurRuns
  /\ WaitsForCancelled
  /\ CancelledIsWaitedFor
  /\ OneWaiter
  /\ SubscribedInside
  /\ EmptyIsBeingStopped
  /\ KeyMarkHasOwner

\* An encoder that is not alive has no access unit left, and one whose ffmpeg
\* has produced nothing yet has none either. Parameter sets that went ahead are waiting
\* for the first slice of their keyframe.
NoPicturePending ==
  \A e \in Encoders :
    /\ ~Alive(e) \/ fresh[e] => au[e] = "none" /\ ~ahead[e]
    /\ ahead[e] => au[e] = "none"

\* While no two encoders ran at once, a keyframe about to be written is marked.
KeyframeIsMarked ==
  Gated /\ ~overlap => \A e \in Encoders : Alive(e) /\ au[e] \in Keyframes => nextKey

\* While no two encoders ran at once: one encoder at most, and once its first picture
\* was written, a device that waits has got nothing from it; one that does not follows
\* it, or has not decoded its keyframe but has the parameter sets of the next.
FollowsTheOne ==
  Gated /\ ~overlap =>
    /\ \A e, f \in Encoders : Alive(e) /\ Alive(f) => e = f
    /\ \A e \in Encoders, d \in subs :
         Alive(e) /\ ~fresh[e] /\ au[e] # "first" =>
           IF waiting[d] THEN follows[d] = None
           ELSE /\ follows[d] \in {e, Cold}
                /\ follows[d] = e \/ ahead[e] \/ au[e] = "key" => sets[d] = e

PictureInv ==
  /\ NoPicturePending
  /\ KeyframeIsMarked
  /\ FollowsTheOne
  /\ StartsAtKeyUnlessOverlap

---------------------------------------------------------------------------
(* The state after Init, and the type of every variable after every step.  *)

LEMMA InitHolds == Init => HubInv /\ PictureInv
<1> SUFFICES ASSUME Init PROVE HubInv /\ PictureInv
  OBVIOUS
<1> USE EncoderHubAssumption DEF Init, Threads
<1>1. TypeOK
  BY DEF TypeOK
<1>2. CurRuns /\ WaitsForCancelled /\ CancelledIsWaitedFor /\ OneWaiter
  BY DEF CurRuns, NoLostEncoder, WaitsForCancelled, CancelledIsWaitedFor, OneWaiter
<1>3. SubscribedInside /\ EmptyIsBeingStopped /\ KeyMarkHasOwner
  BY DEF SubscribedInside, EmptyIsBeingStopped, KeyMarkHasOwner
<1>4. PictureInv
  BY DEF PictureInv, NoPicturePending, KeyframeIsMarked, FollowsTheOne,
     StartsAtKeyUnlessOverlap, Alive
<1>5. QED
  BY <1>1, <1>2, <1>3, <1>4 DEF HubInv

LEMMA TypeStep == TypeOK /\ [Next]_vars => TypeOK'
<1> SUFFICES ASSUME TypeOK, [Next]_vars PROVE TypeOK'
  OBVIOUS
<1> USE EncoderHubAssumption DEF TypeOK, Threads, Go, hubVars, encVars, goVars, seenVars, histVars
<1>1. ASSUME NEW d \in Devices, Connected(d) PROVE TypeOK'
  BY <1>1 DEF Connected, ScreenSize
<1>2. ASSUME NEW d \in Devices, Join(d) PROVE TypeOK'
  <2>1. CASE cur = None
    <3>1. PICK e \in Encoders : Start(e, want[d])
      BY <1>2, <2>1 DEF Join, StartLocked
    <3>2. /\ pc' = [pc EXCEPT ![d] = "in"]
          /\ want' = [want EXCEPT ![d] = Native]
          /\ waiting' = [waiting EXCEPT ![d] = Gated]
          /\ Anew(d)
          /\ subs' = subs \cup {d}
          /\ UNCHANGED <<held, display, nextKey>>
      BY <1>2 DEF Join
    <3>3. QED
      BY <3>1, <3>2 DEF Start, Anew
  <2>2. CASE cur # None
    BY <1>2, <2>2 DEF Join, NoStart, Anew
  <2>3. QED
    BY <2>1, <2>2
<1>3. ASSUME NEW d \in Devices, Leave(d) PROVE TypeOK'
  BY <1>3 DEF Leave, Anew
<1>4. ASSUME NEW r \in Displays, NEW s \in Sizes, Request(r, s) PROVE TypeOK'
  BY <1>4 DEF Request
<1>5. ASSUME NEW r \in Displays, RestartAgain(r) PROVE TypeOK'
  BY <1>5 DEF RestartAgain
<1>6. ASSUME NEW r \in Displays, RestartNobody(r) PROVE TypeOK'
  BY <1>6 DEF RestartNobody
<1>7. ASSUME NEW r \in Displays, RestartStart(r) PROVE TypeOK'
  <2>1. PICK e \in Encoders : Start(e, want[r])
    BY <1>7 DEF RestartStart, StartLocked
  <2>2. /\ pc' = [pc EXCEPT ![r] = "idle"]
        /\ want' = [want EXCEPT ![r] = Native]
        /\ waiting' \in [Devices -> BOOLEAN]
        /\ UNCHANGED <<held, display, subs, nextKey, follows, sets>>
    BY <1>7 DEF RestartStart
  <2>3. QED
    BY <2>1, <2>2 DEF Start
<1>8. ASSUME NEW t \in Threads, StopTake(t) PROVE TypeOK'
  BY <1>8 DEF StopTake, AfterStop
<1>9. ASSUME NEW t \in Threads, StopWait(t) PROVE TypeOK'
  BY <1>9 DEF StopWait, AfterStop
<1>10. ASSUME NEW e \in Encoders, NEW k \in Pictures, Picture(e, k) PROVE TypeOK'
  BY <1>10 DEF Picture, Pictures
<1>11. ASSUME NEW e \in Encoders, Slice(e) PROVE TypeOK'
  BY <1>11 DEF Slice
<1>12. ASSUME NEW e \in Encoders, NEW params \in BOOLEAN, Write(e, params) PROVE TypeOK'
  <2>1. \A d \in Devices : Decode(e, au[e], d) \in Encoders \cup {None, Cold, Broken}
    BY DEF Decode
  <2>2. waiting' \in [Devices -> BOOLEAN]
    BY <1>12 DEF Write
  <2>3. follows' \in [Devices -> Encoders \cup {None, Cold, Broken}]
    BY <1>12, <2>1 DEF Write
  <2>4. sets' \in [Devices -> Encoders \cup {None}]
    BY <1>12 DEF Write
  <2>5. QED
    BY <1>12, <2>2, <2>3, <2>4 DEF Write
<1>13. ASSUME NEW e \in Encoders, FfmpegDies(e) PROVE TypeOK'
  BY <1>13 DEF FfmpegDies
<1>14. ASSUME NEW e \in Encoders, Finish(e) PROVE TypeOK'
  BY <1>14 DEF Finish
<1>15. CASE UNCHANGED vars
  BY <1>15 DEF vars
<1>16. QED
  BY <1>1, <1>2, <1>3, <1>4, <1>5, <1>6, <1>7, <1>8, <1>9, <1>10, <1>11, <1>12,
     <1>13, <1>14, <1>15 DEF Next, Session, Restarter, Stopper, Encoder

---------------------------------------------------------------------------
(* Who is responsible for each encoder, step by step. *)

LEMMA HubStep == HubInv /\ [Next]_vars => HubInv'
<1> SUFFICES ASSUME HubInv, [Next]_vars PROVE HubInv'
  OBVIOUS
<1> USE EncoderHubAssumption DEF Threads, Go, hubVars, encVars, goVars, seenVars, histVars,
      CurRuns, NoLostEncoder, WaitsForCancelled, CancelledIsWaitedFor, OneWaiter,
      SubscribedInside, EmptyIsBeingStopped, KeyMarkHasOwner, Alive, Keyframes
<1>0. TypeOK /\ TypeOK'
  BY TypeStep DEF HubInv
<1>1. ASSUME NEW d \in Devices, Connected(d) PROVE HubInv'
  BY <1>0, <1>1 DEF HubInv, TypeOK, Connected
<1>2. ASSUME NEW d \in Devices, Join(d) PROVE HubInv'
  BY <1>0, <1>2 DEF HubInv, TypeOK, Join, StartLocked, Start, NoStart
<1>3. ASSUME NEW d \in Devices, Leave(d) PROVE HubInv'
  BY <1>0, <1>3 DEF HubInv, TypeOK, Leave
<1>4. ASSUME NEW r \in Displays, NEW s \in Sizes, Request(r, s) PROVE HubInv'
  BY <1>0, <1>4 DEF HubInv, TypeOK, Request
<1>5. ASSUME NEW r \in Displays, RestartAgain(r) PROVE HubInv'
  BY <1>0, <1>5 DEF HubInv, TypeOK, RestartAgain
<1>6. ASSUME NEW r \in Displays, RestartNobody(r) PROVE HubInv'
  BY <1>0, <1>6 DEF HubInv, TypeOK, RestartNobody
<1>7. ASSUME NEW r \in Displays, RestartStart(r) PROVE HubInv'
  BY <1>0, <1>7 DEF HubInv, TypeOK, RestartStart, StartLocked, Start
<1>8. ASSUME NEW t \in Threads, StopTake(t) PROVE HubInv'
  BY <1>0, <1>8 DEF HubInv, TypeOK, StopTake, AfterStop
<1>9. ASSUME NEW t \in Threads, StopWait(t) PROVE HubInv'
  BY <1>0, <1>9 DEF HubInv, TypeOK, StopWait, AfterStop
<1>10. ASSUME NEW e \in Encoders, NEW k \in Pictures, Picture(e, k) PROVE HubInv'
  BY <1>0, <1>10 DEF HubInv, TypeOK, Picture
<1>11. ASSUME NEW e \in Encoders, Slice(e) PROVE HubInv'
  BY <1>0, <1>11 DEF HubInv, TypeOK, Slice
<1>12. ASSUME NEW e \in Encoders, NEW params \in BOOLEAN, Write(e, params) PROVE HubInv'
  BY <1>0, <1>12 DEF HubInv, TypeOK, Write
<1>13. ASSUME NEW e \in Encoders, FfmpegDies(e) PROVE HubInv'
  BY <1>0, <1>13 DEF HubInv, TypeOK, FfmpegDies
<1>14. ASSUME NEW e \in Encoders, Finish(e) PROVE HubInv'
  BY <1>0, <1>14 DEF HubInv, TypeOK, Finish
<1>15. CASE UNCHANGED vars
  BY <1>0, <1>15 DEF HubInv, vars
<1>16. QED
  BY <1>1, <1>2, <1>3, <1>4, <1>5, <1>6, <1>7, <1>8, <1>9, <1>10, <1>11, <1>12,
     <1>13, <1>14, <1>15 DEF Next, Session, Restarter, Stopper, Encoder

---------------------------------------------------------------------------
(* What the decoders follow, step by step. *)

LEMMA PictureStep == HubInv /\ PictureInv /\ [Next]_vars => PictureInv'
<1> SUFFICES ASSUME HubInv, PictureInv, [Next]_vars PROVE PictureInv'
  OBVIOUS
<1> USE EncoderHubAssumption DEF Threads, Go, hubVars, encVars, goVars, seenVars, histVars,
      Alive, Keyframes, PictureInv, NoPicturePending, KeyframeIsMarked, FollowsTheOne,
      StartsAtKeyUnlessOverlap
<1>0. TypeOK /\ TypeOK' /\ KeyMarkHasOwner
  BY TypeStep DEF HubInv
<1>1. ASSUME NEW d \in Devices, Connected(d) PROVE PictureInv'
  BY <1>0, <1>1 DEF TypeOK, Connected
<1>2. ASSUME NEW d \in Devices, Join(d) PROVE PictureInv'
  BY <1>0, <1>2 DEF TypeOK, Join, StartLocked, Start, NoStart, Anew
<1>3. ASSUME NEW d \in Devices, Leave(d) PROVE PictureInv'
  BY <1>0, <1>3 DEF TypeOK, Leave, Anew
<1>4. ASSUME NEW r \in Displays, NEW s \in Sizes, Request(r, s) PROVE PictureInv'
  BY <1>0, <1>4 DEF TypeOK, Request
<1>5. ASSUME NEW r \in Displays, RestartAgain(r) PROVE PictureInv'
  BY <1>0, <1>5 DEF TypeOK, RestartAgain
<1>6. ASSUME NEW r \in Displays, RestartNobody(r) PROVE PictureInv'
  BY <1>0, <1>6 DEF TypeOK, RestartNobody
<1>7. ASSUME NEW r \in Displays, RestartStart(r) PROVE PictureInv'
  <2>1. PICK e \in Encoders : Start(e, want[r])
    BY <1>7 DEF RestartStart, StartLocked
  <2>2. UNCHANGED <<subs, follows, sets, au, nextKey>>
    BY <1>7, <2>1 DEF RestartStart, Start
  <2>3. NoPicturePending'
    BY <1>0, <2>1, <2>2 DEF TypeOK, Start
  <2>4. \A d \in subs : waiting'[d] = Gated
    <3>1. waiting' = [d \in Devices |-> IF d \in subs THEN Gated ELSE waiting[d]]
      BY <1>7 DEF RestartStart
    <3>2. subs \subseteq Devices
      BY <1>0 DEF TypeOK
    <3>3. QED
      BY <3>1, <3>2
  <2>5. FollowsTheOne'
    <3>1. ASSUME ~overlap' PROVE \A f \in Encoders : Alive(f)' => f = e
      BY <1>0, <2>1, <3>1 DEF TypeOK, Start
    <3>2. ASSUME Gated PROVE \A d \in subs' : waiting'[d]
      BY <2>2, <2>4, <3>2
    <3>3. fresh'[e]
      BY <1>0, <2>1 DEF TypeOK, Start
    <3>4. QED
      BY <3>1, <3>2, <3>3
  <2>6. StartsAtKeyUnlessOverlap'
    BY <2>1, <2>2 DEF Start
  <2>7. KeyframeIsMarked'
    <3>1. \A f \in Encoders : Alive(f)' /\ f # e => Alive(f)
      BY <1>0, <2>1 DEF TypeOK, Start
    <3>2. au[e] = "none"
      BY <2>1 DEF Start
    <3>3. ~overlap' => ~overlap
      BY <2>1 DEF Start
    <3>4. QED
      BY <2>2, <3>1, <3>2, <3>3
  <2>8. QED
    BY <2>3, <2>5, <2>6, <2>7
<1>8. ASSUME NEW t \in Threads, StopTake(t) PROVE PictureInv'
  <2>1. UNCHANGED <<subs, waiting, au, fresh, ahead, nextKey, follows, sets, overlap>>
    BY <1>8 DEF StopTake
  <2>2. enc' = [e \in Encoders |-> IF e = cur THEN "cancelled" ELSE enc[e]]
    BY <1>8 DEF StopTake
  <2>3. \A e \in Encoders : Alive(e)' <=> Alive(e)
    BY <1>0, <2>2 DEF HubInv, CurRuns
  <2>4. QED
    BY <2>1, <2>3
<1>9. ASSUME NEW t \in Threads, StopWait(t) PROVE PictureInv'
  BY <1>0, <1>9 DEF TypeOK, StopWait, AfterStop
<1>10. ASSUME NEW e \in Encoders, NEW k \in Pictures, Picture(e, k) PROVE PictureInv'
  BY <1>0, <1>10 DEF TypeOK, Picture, Pictures
<1>11. ASSUME NEW e \in Encoders, Slice(e) PROVE PictureInv'
  BY <1>0, <1>11 DEF TypeOK, Slice
<1>12. ASSUME NEW e \in Encoders, NEW params \in BOOLEAN, Write(e, params) PROVE PictureInv'
  <2> USE <1>0, <1>12 DEF TypeOK, Write, Receivers, Pictures
  <2>1. NoPicturePending' /\ KeyframeIsMarked'
    OBVIOUS
  <2>2. ASSUME Gated, ~overlap, NEW d \in subs, d \in Receivers
        PROVE  /\ follows'[d] \in {e, Cold}
               /\ follows'[d] = e \/ params => sets'[d] = e
    <3>1. /\ follows'[d] = Decode(e, au[e], d)
          /\ sets'[d] = IF au[e] = "first" \/ params THEN e ELSE sets[d]
      BY <2>2
    <3>2. CASE au[e] = "first"
      BY <3>1, <3>2 DEF Decode
    <3>3. CASE au[e] = "key"
      <4>1. sets[d] = e \/ follows[d] = None
        BY <2>2, <3>3
      <4>2. QED
        BY <3>1, <3>3, <4>1 DEF Decode
    <3>4. CASE au[e] = "delta"
      <4>1. ~nextKey
        BY <2>2, <3>4 DEF KeyMarkHasOwner
      <4>2. follows[d] \in {e, Cold} /\ (follows[d] = e => sets[d] = e)
        BY <2>2, <3>4, <4>1
      <4>3. QED
        BY <3>1, <3>4, <4>2 DEF Decode
    <3>5. QED
      BY <3>2, <3>3, <3>4
  <2>3. ASSUME Gated, ~overlap, NEW d \in subs, d \notin Receivers
        PROVE  waiting'[d] /\ (au[e] # "first" => follows'[d] = None)
    BY <2>3
  <2>4. FollowsTheOne'
    <3> SUFFICES ASSUME Gated, ~overlap
                 PROVE  FollowsTheOne'
      BY DEF Write
    <3>1. \A f, g \in Encoders : Alive(f)' /\ Alive(g)' => f = g
      BY DEF Write
    <3>2. ~fresh'[e] /\ au'[e] = "none" /\ ahead'[e] = params
      BY DEF Write
    <3>3. ASSUME NEW d \in subs, d \in Receivers
          PROVE  ~waiting'[d] /\ follows'[d] \in {e, Cold} /\ (follows'[d] = e \/ params => sets'[d] = e)
      <4>1. ~waiting'[d]
        BY <3>3
      <4>2. QED
        BY <2>2, <3>3, <4>1
    <3>4. ASSUME NEW d \in subs, d \notin Receivers
          PROVE  waiting'[d] /\ follows'[d] = None
      <4>1. au[e] # "first"
        BY <3>4
      <4>2. QED
        BY <2>3, <3>4, <4>1
    <3>5. subs' = subs /\ Alive(e)'
      BY DEF Write
    <3>6. ASSUME NEW f \in Encoders, NEW d \in subs', Alive(f)', ~fresh'[f], au'[f] # "first"
          PROVE  IF waiting'[d] THEN follows'[d] = None
                 ELSE /\ follows'[d] \in {f, Cold}
                      /\ follows'[d] = f \/ ahead'[f] \/ au'[f] = "key" => sets'[d] = f
      <4>1. f = e
        BY <3>1, <3>5, <3>6
      <4>2. CASE d \in Receivers
        BY <3>2, <3>3, <3>5, <3>6, <4>1, <4>2
      <4>3. CASE d \notin Receivers
        BY <3>4, <3>5, <3>6, <4>3
      <4>4. QED
        BY <4>2, <4>3
    <3>7. QED
      BY ONLY <3>1, <3>6 DEF FollowsTheOne, Alive
  <2>5. StartsAtKeyUnlessOverlap'
    BY <2>2
  <2>6. QED
    BY <2>1, <2>4, <2>5
<1>13. ASSUME NEW e \in Encoders, FfmpegDies(e) PROVE PictureInv'
  BY <1>0, <1>13 DEF TypeOK, FfmpegDies
<1>14. ASSUME NEW e \in Encoders, Finish(e) PROVE PictureInv'
  BY <1>0, <1>14 DEF TypeOK, Finish
<1>15. CASE UNCHANGED vars
  BY <1>0, <1>15 DEF vars
<1>16. QED
  BY <1>1, <1>2, <1>3, <1>4, <1>5, <1>6, <1>7, <1>8, <1>9, <1>10, <1>11, <1>12,
     <1>13, <1>14, <1>15 DEF Next, Session, Restarter, Stopper, Encoder

---------------------------------------------------------------------------
(* The theorems. *)

LEMMA HubInvariant == Spec => [](HubInv /\ PictureInv)
<1>1. (HubInv /\ PictureInv) /\ [Next]_vars => (HubInv /\ PictureInv)'
  BY HubStep, PictureStep
<1>2. QED
  BY InitHolds, <1>1, PTL DEF Spec

\* Every variable keeps its type.
THEOREM TypeCorrect == Spec => []TypeOK
<1>1. HubInv => TypeOK
  BY DEF HubInv
<1>2. QED
  BY HubInvariant, <1>1, PTL

\* join, leave and restart never lose an encoder: the one that runs is always
\* the one the next stop() would cancel.
THEOREM EncoderNeverLost == Spec => []NoLostEncoder
<1>1. HubInv => NoLostEncoder
  BY DEF HubInv, CurRuns
<1>2. QED
  BY HubInvariant, <1>1, PTL

\* The encoder stops when the last device leaves: some goroutine is stopping
\* every encoder that is still alive while nobody is subscribed.
THEOREM StopsWhenLastLeaves == Spec => []StopsWhenEmpty
<1>1. HubInv => StopsWhenEmpty
  BY EncoderHubAssumption DEF HubInv, TypeOK, CurRuns, NoLostEncoder,
     CancelledIsWaitedFor, EmptyIsBeingStopped, StopsWhenEmpty, Alive
<1>2. QED
  BY HubInvariant, <1>1, PTL

\* The keyframe mark is never left over from a keyframe already written.
THEOREM KeyMarkNeverStale == Spec => []KeyMarkHasOwner
<1>1. HubInv => KeyMarkHasOwner
  BY DEF HubInv
<1>2. QED
  BY HubInvariant, <1>1, PTL

\* Gating works whenever stop() was waited for before the next start: what a device got
\* of an encoder begins with a keyframe and goes on from there, and of the keyframes of
\* one encoder at most the first finds it without the parameter sets.
THEOREM GatingWorksUnlessOverlap == Spec => []StartsAtKeyUnlessOverlap
<1>1. PictureInv => StartsAtKeyUnlessOverlap
  BY DEF PictureInv
<1>2. QED
  BY HubInvariant, <1>1, PTL
---------------------------------------------------------------------------
(* EncoderHub implements SharedEncoder. *)

LEMMA InitImplements == Init => Shared!Init
BY DEF Init, Shared!Init, In

\* What a start is to SharedEncoder.
LEMMA StartImplements ==
  ASSUME TypeOK, NEW s, StartLocked(s)
  PROVE  Shared!Started /\ UNCHANGED In("cancelled")
<1>1. PICK e \in Encoders : Start(e, s)
  BY DEF StartLocked
<1>2. /\ enc[e] = "off" /\ cur' = e
      /\ \A f \in Encoders : enc'[f] = IF f = e THEN "on" ELSE enc[f]
  BY <1>1 DEF TypeOK, Start
<1>3. In("cancelled")' = In("cancelled") /\ In("on")' = In("on") \cup {e}
  BY <1>1, <1>2 DEF In
<1>4. e \in Encoders \ (In("on") \cup In("cancelled"))
  BY <1>2 DEF In
<1> QED BY <1>2, <1>3, <1>4 DEF Shared!Started

LEMMA StepImplements == HubInv /\ [Next]_vars => [Shared!Next]_(Shared!vars)
<1> SUFFICES ASSUME HubInv, [Next]_vars PROVE [Shared!Next]_(Shared!vars)
  OBVIOUS
<1> USE EncoderHubAssumption DEF Shared!vars, hubVars, encVars, goVars, seenVars, histVars, Go
<1>0. TypeOK /\ (enc' = enc => UNCHANGED <<In("on"), In("cancelled")>>)
  BY DEF HubInv, In
<1>1. CASE UNCHANGED vars
  BY <1>0, <1>1 DEF vars
<1>2. ASSUME NEW d \in Devices, Join(d) PROVE Shared!Watch(d)
  <2>1. d \notin subs
    BY <1>2 DEF Join, HubInv, SubscribedInside
  <2>2. CASE cur = None
    BY <1>0, <1>2, <2>1, <2>2, StartImplements DEF Join, Shared!Watch
  <2>3. CASE cur # None
    BY <1>0, <1>2, <2>1, <2>3 DEF Join, NoStart, Shared!Watch
  <2> QED BY <2>2, <2>3
<1>3. ASSUME NEW d \in Devices, Leave(d) PROVE Shared!Unwatch(d)
  <2>1. d \in subs
    BY <1>3 DEF Leave, HubInv, SubscribedInside
  <2> QED BY <1>0, <1>3, <2>1 DEF Leave, Shared!Unwatch
<1>4. ASSUME NEW t \in Threads, StopTake(t) PROVE Shared!Stop \/ UNCHANGED Shared!vars
  <2>1. CASE cur = None
    <3>1. enc' = enc
      BY <1>0, <1>4, <2>1 DEF StopTake, TypeOK
    <3> QED BY <1>0, <1>4, <2>1, <3>1 DEF StopTake
  <2>2. CASE cur # None
    <3>1. cur \in Encoders
      BY <1>0, <2>2 DEF TypeOK
    <3>2. \A e \in Encoders : enc'[e] = IF e = cur THEN "cancelled" ELSE enc[e]
      BY <1>4 DEF StopTake
    <3>3. In("cancelled")' = In("cancelled") \cup {cur} /\ In("on")' = In("on") \ {cur}
      BY <3>1, <3>2 DEF In
    <3> QED BY <1>4, <2>2, <3>3 DEF StopTake, Shared!Stop
  <2> QED BY <2>1, <2>2
<1>5. ASSUME NEW t \in Threads, StopWait(t) PROVE UNCHANGED Shared!vars
  <2>1. In("cancelled")' = In("cancelled") /\ In("on")' = In("on")
    BY <1>0, <1>5 DEF StopWait, TypeOK, In
  <2> QED BY <1>5, <2>1 DEF StopWait
<1>6. ASSUME NEW r \in Displays, RestartStart(r) PROVE Shared!Resume
  BY <1>0, <1>6, StartImplements DEF RestartStart, Shared!Resume
<1>7. ASSUME NEW e \in Encoders, Finish(e) PROVE Shared!End(e)
  <2>1. e \in In("cancelled") /\ In("cancelled")' = In("cancelled") \ {e} /\ In("on")' = In("on")
    BY <1>0, <1>7 DEF Finish, TypeOK, In
  <2> QED BY <1>7, <2>1 DEF Finish, Shared!End
<1>8. ASSUME NEW d \in Devices, Connected(d) PROVE UNCHANGED Shared!vars
  BY <1>0, <1>8 DEF Connected
<1>9. ASSUME NEW r \in Displays,
             (\E s \in Sizes : Request(r, s)) \/ RestartAgain(r) \/ RestartNobody(r)
      PROVE  UNCHANGED Shared!vars
  BY <1>0, <1>9 DEF Request, RestartAgain, RestartNobody
<1>10. ASSUME NEW e \in Encoders,
              (\E k \in Pictures : Picture(e, k)) \/ Slice(e)
              \/ (\E params \in BOOLEAN : Write(e, params)) \/ FfmpegDies(e)
       PROVE  UNCHANGED Shared!vars
  BY <1>0, <1>10 DEF Picture, Slice, Write, FfmpegDies
<1> QED BY <1>1, <1>2, <1>3, <1>4, <1>5, <1>6, <1>7, <1>8, <1>9, <1>10
     DEF Next, Session, Restarter, Stopper, Encoder, Shared!Next

\* However joins, leaves and restarts interleave, the devices share one encoder as
\* SharedEncoder says: it is cancelled before another one starts, and nobody
\* starts one when no device watches.
THEOREM OneEncoderOnly == Spec => OneEncoder
BY InitImplements, StepImplements, HubInvariant, PTL DEF Spec, OneEncoder, Shared!Spec

---------------------------------------------------------------------------
(* VideoStream, beside EncoderHub and with variables of its own. Nothing is *)
(* assumed of the bytes ffmpeg writes, nor of where they are cut.           *)

CONSTANTS MaxPictures, MaxSlices, MaxChunk, TrimAt

VARIABLES stream, long, read, buf, start, nals, unit, hasSlice, mark, state

Video == INSTANCE VideoStream WITH au <- unit

\* The sequences are sequences, of whatever the bytes made them of.
VideoTyped ==
  /\ \E S : samples \in Seq(S)
  /\ \E T : unit \in Seq(T) /\ nals \in Seq(T)
  /\ mark \in BOOLEAN /\ hasSlice \in BOOLEAN

HasSlice(u) == \E j \in 1..Len(u) : IsSlice(u[j])

\* The hub's mark and runOnce's auHasSlice are about the access unit that is
\* being collected.
UnitKnown ==
  /\ mark <=> HasKey(unit)
  /\ hasSlice <=> HasSlice(unit)
  /\ OnePicture(unit)

VideoInv == VideoTyped /\ UnitKnown /\ PicturesExact

LEMMA SameUnits ==
  /\ \A n : Video!IsSlice(n) = IsSlice(n) /\ Video!IsKey(n) = IsKey(n) /\ Video!FirstMB(n) = FirstMB(n)
BY DEF Video!IsSlice, IsSlice, Video!IsKey, IsKey, Video!FirstMB, FirstMB

LEMMA Appended ==
  ASSUME NEW S, NEW s \in Seq(S), NEW x
  PROVE  /\ Append(s, x) \in Seq(S \cup {x}) /\ Len(s) \in Nat /\ Len(Append(s, x)) = Len(s) + 1
         /\ Append(s, x)[Len(s) + 1] = x /\ \A i \in 1..Len(s) : Append(s, x)[i] = s[i]
         /\ \A i \in 1..Len(s) : i \in 1..(Len(s) + 1)
<1>1. s \in Seq(S \cup {x})
  BY SeqMonotonic
<1>2. Len(s) \in Nat
  BY LenProperties
<1> QED BY <1>1, <1>2, AppendProperties

LEMMA SampleAdded ==
  ASSUME VideoInv, NEW m, m = mark, samples' = Append(samples, [nals |-> unit, key |-> m])
  PROVE  (\E S : samples' \in Seq(S)) /\ PicturesExact'
<1> DEFINE x == [nals |-> unit, key |-> m]
<1>1. PICK S : samples \in Seq(S)
  BY DEF VideoInv, VideoTyped
<1>2. /\ samples' \in Seq(S \cup {x}) /\ Len(samples) \in Nat /\ Len(samples') = Len(samples) + 1
      /\ samples'[Len(samples) + 1] = x /\ \A i \in 1..Len(samples) : samples'[i] = samples[i]
  BY <1>1, Appended
<1>3. OnePicture(x.nals) /\ (x.key <=> HasKey(x.nals))
  BY DEF VideoInv, UnitKnown
<1>4. \A i \in 1..Len(samples) : OnePicture(samples[i].nals) /\ (samples[i].key <=> HasKey(samples[i].nals))
  BY DEF VideoInv, PicturesExact
<1> HIDE DEF x
<1>5. ASSUME NEW i \in 1..Len(samples')
      PROVE  OnePicture(samples'[i].nals) /\ (samples'[i].key <=> HasKey(samples'[i].nals))
  <2>1. i \in 1..Len(samples) \/ i = Len(samples) + 1
    BY <1>2
  <2> QED BY <1>2, <1>3, <1>4, <2>1
<1> QED BY <1>2, <1>5 DEF PicturesExact

\* What is known of an access unit when a NAL unit is added to it.
LEMMA UnitGrows ==
  ASSUME NEW T, NEW u \in Seq(T), NEW n, OnePicture(u),
         ~(IsSlice(n) /\ FirstMB(n) /\ HasSlice(u))
  PROVE  /\ OnePicture(Append(u, n))
         /\ HasKey(Append(u, n)) <=> HasKey(u) \/ IsKey(n)
         /\ HasSlice(Append(u, n)) <=> HasSlice(u) \/ IsSlice(n)
<1> DEFINE v == Append(u, n)
<1>1. /\ Len(u) \in Nat /\ Len(v) = Len(u) + 1
      /\ v[Len(u) + 1] = n /\ \A i \in 1..Len(u) : v[i] = u[i]
  BY Appended
<1> HIDE DEF v
<1>2. \A i \in 1..Len(v) : i \in 1..Len(u) \/ i = Len(u) + 1
  BY <1>1
<1>3. \A i \in 1..Len(u) : i \in 1..Len(v) /\ v[i] = u[i]
  BY <1>1
<1>4. Len(u) + 1 \in 1..Len(v)
  BY <1>1
<1>5. HasKey(v) <=> HasKey(u) \/ IsKey(n)
  BY <1>1, <1>2, <1>3, <1>4 DEF HasKey
<1>6. HasSlice(v) <=> HasSlice(u) \/ IsSlice(n)
  BY <1>1, <1>2, <1>3, <1>4 DEF HasSlice
<1>7. ASSUME NEW j \in 1..Len(v), NEW k \in 1..Len(v), j < k, IsSlice(v[j])
      PROVE  ~(IsSlice(v[k]) /\ FirstMB(v[k]))
  <2>1. j \in 1..Len(u) /\ IsSlice(u[j])
    BY <1>1, <1>3, <1>7
  <2>2. CASE k \in 1..Len(u)
    BY <1>3, <1>7, <2>1, <2>2 DEF OnePicture
  <2>3. CASE k = Len(u) + 1
    BY <1>1, <2>1, <2>3 DEF HasSlice
  <2> QED BY <1>2, <2>2, <2>3
<1>8. OnePicture(v)
  BY <1>7 DEF OnePicture
<1> QED BY <1>5, <1>6, <1>8 DEF v

LEMMA UnitBegins ==
  ASSUME NEW n
  PROVE  /\ <<n>> \in Seq({n}) /\ OnePicture(<<n>>) /\ (HasKey(<<n>>) <=> IsKey(n))
         /\ HasSlice(<<n>>) <=> IsSlice(n)
<1>1. <<n>> \in Seq({n}) /\ Len(<<n>>) = 1 /\ <<n>>[1] = n /\ 1..1 = {1}
  OBVIOUS
<1>2. HasKey(<<n>>) <=> IsKey(n)
  BY <1>1 DEF HasKey
<1>3. OnePicture(<<n>>)
  BY <1>1 DEF OnePicture
<1>4. HasSlice(<<n>>) <=> IsSlice(n)
  BY <1>1 DEF HasSlice
<1> QED BY <1>1, <1>2, <1>3, <1>4

\* One turn of runOnce's loop.
LEMMA TakeKeeps ==
  ASSUME VideoInv, NEW n, Video!Take(n)
  PROVE  VideoInv'
<1>1. CASE n = <<>>
  BY <1>1 DEF Video!Take, VideoInv, VideoTyped, UnitKnown, PicturesExact, OnePicture, HasKey, HasSlice
<1>2. CASE n # <<>> /\ Video!NewPicture(n)
  <2>1. /\ nals' = Append(nals, n) /\ samples' = Append(samples, [nals |-> unit, key |-> mark])
        /\ (mark' <=> IsKey(n)) /\ mark' \in BOOLEAN
        /\ unit' = <<n>> /\ (hasSlice' <=> IsSlice(n)) /\ hasSlice' \in BOOLEAN
    BY <1>2, SameUnits DEF Video!Take, Video!Collected, Video!FlushMark, Video!Sample, Video!IsKey, Video!IsSlice, IsKey, IsSlice
  <2>2. (\E S : samples' \in Seq(S)) /\ PicturesExact'
    BY <2>1, SampleAdded
  <2>3. UnitKnown'
    BY <2>1, UnitBegins DEF UnitKnown
  <2>4. \E T : unit' \in Seq(T) /\ nals' \in Seq(T)
    <3>1. PICK T : nals \in Seq(T)
      BY DEF VideoInv, VideoTyped
    <3>2. nals' \in Seq(T \cup {n}) /\ <<n>> \in Seq(T \cup {n})
      BY <2>1, <3>1, Appended
    <3> QED BY <2>1, <3>2
  <2> QED BY <2>1, <2>2, <2>3, <2>4 DEF VideoInv, VideoTyped
<1>3. CASE n # <<>> /\ ~Video!NewPicture(n)
  <2>1. /\ nals' = Append(nals, n) /\ samples' = samples
        /\ (mark' <=> mark \/ IsKey(n)) /\ mark' \in BOOLEAN
        /\ unit' = Append(unit, n) /\ (hasSlice' <=> hasSlice \/ IsSlice(n)) /\ hasSlice' \in BOOLEAN
    BY <1>3, SameUnits DEF Video!Take, Video!Collected, Video!IsKey, Video!IsSlice, IsKey, IsSlice
  <2>2. PICK T : unit \in Seq(T) /\ nals \in Seq(T)
    BY DEF VideoInv, VideoTyped
  <2>3. OnePicture(unit) /\ ~(IsSlice(n) /\ FirstMB(n) /\ HasSlice(unit))
    BY <1>3, SameUnits DEF Video!NewPicture, VideoInv, UnitKnown
  <2>4. /\ OnePicture(unit') /\ (HasKey(unit') <=> HasKey(unit) \/ IsKey(n))
        /\ HasSlice(unit') <=> HasSlice(unit) \/ IsSlice(n)
    BY <2>1, <2>2, <2>3, UnitGrows
  <2>5. UnitKnown'
    BY <2>1, <2>4 DEF VideoInv, UnitKnown
  <2>6. unit' \in Seq(T \cup {n}) /\ nals' \in Seq(T \cup {n})
    BY <2>1, <2>2, Appended
  <2>7. PicturesExact' /\ (\E S : samples' \in Seq(S))
    BY <2>1 DEF VideoInv, VideoTyped, PicturesExact
  <2> QED BY <2>1, <2>5, <2>6, <2>7 DEF VideoInv, VideoTyped
<1> QED BY <1>1, <1>2, <1>3

LEMMA VideoInit == Video!Init => VideoInv
<1> SUFFICES ASSUME Video!Init PROVE VideoInv
  OBVIOUS
<1>1. /\ nals = <<>> /\ unit = <<>> /\ samples = <<>> /\ mark = FALSE /\ hasSlice = FALSE
      /\ <<>> \in Seq({}) /\ Len(<<>>) = 0 /\ 1..0 = {}
  BY DEF Video!Init
<1> QED BY <1>1 DEF VideoInv, VideoTyped, UnitKnown, PicturesExact, OnePicture, HasKey, HasSlice

LEMMA VideoStep == VideoInv /\ [Video!Next]_(Video!vars) => VideoInv'
<1> SUFFICES ASSUME VideoInv, [Video!Next]_(Video!vars) PROVE VideoInv'
  OBVIOUS
<1>1. CASE UNCHANGED <<nals, unit, hasSlice, mark, samples>>
  BY <1>1 DEF VideoInv, VideoTyped, UnitKnown, PicturesExact, OnePicture, HasKey, HasSlice
<1>2. CASE \E n : Video!Take(n)
  BY <1>2, TakeKeeps
<1>3. CASE UNCHANGED Video!vars
  BY <1>1, <1>3 DEF Video!vars
<1>4. ASSUME NEW n \in 1..MaxChunk, Video!Read(n) PROVE VideoInv'
  BY <1>1, <1>4 DEF Video!Read
<1>5. CASE Video!Cut
  BY <1>1, <1>2, <1>5 DEF Video!Cut
<1>6. CASE Video!Eof
  BY <1>1, <1>2, <1>6 DEF Video!Eof
<1>7. CASE Video!LastFlush
  <2>1. nals' = nals /\ unit' = <<>> /\ hasSlice' = FALSE
    BY <1>7 DEF Video!LastFlush
  <2>2. CASE unit = <<>>
    <3>1. mark' = mark /\ samples' = samples
      BY <1>7, <2>2 DEF Video!LastFlush
    <3>2. ~hasSlice
      BY <2>2 DEF VideoInv, VideoTyped, UnitKnown, HasSlice
    <3> QED BY <1>1, <2>1, <2>2, <3>1, <3>2 DEF VideoInv, VideoTyped
  <2>3. CASE unit # <<>>
    <3>1. mark' = FALSE /\ samples' = Append(samples, [nals |-> unit, key |-> mark])
      BY <1>7, <2>3 DEF Video!LastFlush, Video!Sample
    <3>2. (\E S : samples' \in Seq(S)) /\ PicturesExact'
      BY <3>1, SampleAdded
    <3>3. <<>> \in Seq({}) /\ Len(<<>>) = 0 /\ 1..0 = {}
      OBVIOUS
    <3>4. UnitKnown'
      BY <2>1, <3>1, <3>3 DEF UnitKnown, OnePicture, HasKey, HasSlice
    <3>5. \E T : unit' \in Seq(T) /\ nals' \in Seq(T)
      BY <2>1 DEF VideoInv, VideoTyped
    <3> QED BY <2>1, <3>1, <3>2, <3>4, <3>5 DEF VideoInv, VideoTyped
  <2> QED BY <2>2, <2>3
<1> QED BY <1>3, <1>4, <1>5, <1>6, <1>7 DEF Video!Next

\* Whatever bytes ffmpeg writes, and wherever they are cut and end, no sample holds a
\* second picture and the hub's mark comes with the samples that have a keyframe.
THEOREM SamplesArePictures == Video!Spec => []PicturesExact
<1>1. VideoInv => PicturesExact
  BY DEF VideoInv
<1> QED BY <1>1, VideoInit, VideoStep, PTL DEF Video!Spec

---------------------------------------------------------------------------
(* The NAL units go into the samples as they are: cut[i] is how many of    *)
(* them are in the first i samples.                                        *)

CutAt(cut, ss, u, ns) ==
  /\ cut[0] = 0
  /\ \A i \in 1..Len(ss) :
       /\ cut[i] = cut[i - 1] + Len(ss[i].nals)
       /\ \A j \in 1..Len(ss[i].nals) : ss[i].nals[j] = ns[cut[i - 1] + j]
  /\ Len(ns) = cut[Len(ss)] + Len(u)
  /\ \A j \in 1..Len(u) : u[j] = ns[cut[Len(ss)] + j]

Kept(ss, u, ns) == \E cut \in [0..Len(ss) -> 0..Len(ns)] : CutAt(cut, ss, u, ns)

\* A flush writes the access unit as a sample and empties it.
LEMMA FlushKept ==
  ASSUME NEW S, NEW ss \in Seq(S), NEW T, NEW u \in Seq(T), NEW ns \in Seq(T), NEW m,
         Kept(ss, u, ns)
  PROVE  Kept(Append(ss, [nals |-> u, key |-> m]), <<>>, ns)
<1> DEFINE x == [nals |-> u, key |-> m]
           tt == Append(ss, x)
<1>1. PICK cut \in [0..Len(ss) -> 0..Len(ns)] : CutAt(cut, ss, u, ns)
  BY DEF Kept
<1>2. /\ Len(ss) \in Nat /\ Len(tt) = Len(ss) + 1 /\ tt[Len(ss) + 1] = x
      /\ \A i \in 1..Len(ss) : tt[i] = ss[i]
  BY Appended
<1>3. Len(ns) \in Nat /\ Len(u) \in Nat /\ x.nals = u
  BY LenProperties
<1> HIDE DEF x, tt
<1> DEFINE dd == [i \in 0..(Len(ss) + 1) |-> IF i = Len(ss) + 1 THEN Len(ns) ELSE cut[i]]
<1>4. dd \in [0..Len(tt) -> 0..Len(ns)]
  BY <1>2, <1>3
<1>5. /\ \A i \in 0..Len(ss) : dd[i] = cut[i]
      /\ dd[Len(ss) + 1] = Len(ns)
  BY <1>2
<1> HIDE DEF dd
<1>6. ASSUME NEW i \in 1..Len(tt)
      PROVE  /\ dd[i] = dd[i - 1] + Len(tt[i].nals)
             /\ \A j \in 1..Len(tt[i].nals) : tt[i].nals[j] = ns[dd[i - 1] + j]
  <2>1. CASE i \in 1..Len(ss)
    <3>1. i \in 0..Len(ss) /\ i - 1 \in 0..Len(ss) /\ tt[i] = ss[i]
      BY <1>2, <2>1
    <3>2. dd[i] = cut[i] /\ dd[i - 1] = cut[i - 1]
      BY <1>5, <3>1
    <3> QED BY <1>1, <2>1, <3>1, <3>2 DEF CutAt
  <2>2. CASE i = Len(ss) + 1
    <3>1. i - 1 = Len(ss) /\ Len(ss) \in 0..Len(ss) /\ tt[i].nals = u
      BY <1>2, <1>3, <2>2
    <3>2. dd[i] = Len(ns) /\ dd[i - 1] = cut[Len(ss)]
      BY <1>5, <2>2, <3>1
    <3> QED BY <1>1, <3>1, <3>2 DEF CutAt
  <2> QED BY <1>2, <2>1, <2>2
<1>7. dd[0] = 0
  BY <1>1, <1>2, <1>5 DEF CutAt
<1>8. Len(<<>>) = 0 /\ 1..0 = {} /\ Len(ns) = dd[Len(tt)] + 0
  BY <1>2, <1>3, <1>5
<1>9. CutAt(dd, tt, <<>>, ns)
  BY <1>6, <1>7, <1>8 DEF CutAt
<1> QED BY <1>4, <1>9 DEF Kept, tt, x

\* A NAL unit is added to the access unit.
LEMMA AddKept ==
  ASSUME NEW S, NEW ss \in Seq(S), NEW T, NEW u \in Seq(T), NEW ns \in Seq(T), NEW n,
         Kept(ss, u, ns)
  PROVE  Kept(ss, Append(u, n), Append(ns, n))
<1> DEFINE v == Append(u, n)
           ms == Append(ns, n)
<1>1. PICK cut \in [0..Len(ss) -> 0..Len(ns)] : CutAt(cut, ss, u, ns)
  BY DEF Kept
<1>2. /\ Len(u) \in Nat /\ Len(v) = Len(u) + 1 /\ v[Len(u) + 1] = n
      /\ \A i \in 1..Len(u) : v[i] = u[i]
  BY Appended
<1>3. /\ Len(ns) \in Nat /\ Len(ms) = Len(ns) + 1 /\ ms[Len(ns) + 1] = n
      /\ \A i \in 1..Len(ns) : ms[i] = ns[i]
  BY Appended
<1>4. Len(ss) \in Nat
  BY LenProperties
<1> HIDE DEF v, ms
<1>5. \A i \in 0..Len(ss) : cut[i] \in 0..Len(ns)
  OBVIOUS
<1>6. cut \in [0..Len(ss) -> 0..Len(ms)]
  <2>1. 0..Len(ns) \subseteq 0..Len(ms)
    BY <1>3
  <2> QED BY <2>1
<1>7. ASSUME NEW i \in 1..Len(ss)
      PROVE  /\ cut[i] = cut[i - 1] + Len(ss[i].nals)
             /\ \A j \in 1..Len(ss[i].nals) : ss[i].nals[j] = ms[cut[i - 1] + j]
  <2>1. /\ cut[i] = cut[i - 1] + Len(ss[i].nals)
        /\ \A j \in 1..Len(ss[i].nals) : ss[i].nals[j] = ns[cut[i - 1] + j]
    BY <1>1 DEF CutAt
  <2>2. cut[i] \in 0..Len(ns) /\ cut[i - 1] \in 0..Len(ns)
    BY <1>4, <1>5
  <2>3. ASSUME NEW j \in 1..Len(ss[i].nals)
        PROVE  ss[i].nals[j] = ms[cut[i - 1] + j]
    <3>1. j \in Int /\ 1 <= j
      OBVIOUS
    <3>2. j <= Len(ss[i].nals)
      OBVIOUS
    <3>3. cut[i - 1] + j \in Int /\ 1 <= cut[i - 1] + j
      BY <2>2, <3>1
    <3>4. cut[i - 1] + j <= Len(ns)
      BY <1>3, <2>1, <2>2, <3>1, <3>2
    <3>5. cut[i - 1] + j \in 1..Len(ns)
      BY <1>3, <3>3, <3>4
    <3> QED BY <1>3, <2>1, <3>5
  <2> QED BY <2>1, <2>3
<1>8. /\ Len(ns) = cut[Len(ss)] + Len(u) /\ cut[Len(ss)] \in 0..Len(ns)
      /\ \A j \in 1..Len(u) : u[j] = ns[cut[Len(ss)] + j]
  BY <1>1, <1>4, <1>5 DEF CutAt
<1>9. Len(ms) = cut[Len(ss)] + Len(v)
  BY <1>2, <1>3, <1>8
<1>10. ASSUME NEW j \in 1..Len(v)
       PROVE  v[j] = ms[cut[Len(ss)] + j]
  <2>1. CASE j \in 1..Len(u)
    <3>1. cut[Len(ss)] + j \in 1..Len(ns)
      BY <1>2, <1>3, <1>8, <2>1
    <3> QED BY <1>2, <1>3, <1>8, <2>1, <3>1
  <2>2. CASE j = Len(u) + 1
    <3>1. cut[Len(ss)] + j = Len(ns) + 1
      BY <1>2, <1>3, <1>8, <2>2
    <3> QED BY <1>2, <1>3, <2>2, <3>1
  <2> QED BY <1>2, <2>1, <2>2
<1>11. cut[0] = 0
  BY <1>1 DEF CutAt
<1>12. CutAt(cut, ss, v, ms)
  BY <1>7, <1>9, <1>10, <1>11 DEF CutAt
<1> QED BY <1>6, <1>12 DEF Kept, v, ms

LEMMA TakeKept ==
  ASSUME VideoInv, Kept(samples, unit, nals), NEW n, Video!Take(n)
  PROVE  Kept(samples, unit, nals)'
<1>1. PICK S, T : samples \in Seq(S) /\ unit \in Seq(T) /\ nals \in Seq(T)
  BY DEF VideoInv, VideoTyped
<1>2. CASE n = <<>>
  BY <1>2 DEF Video!Take, Kept, CutAt
<1>3. CASE n # <<>> /\ Video!NewPicture(n)
  <2>1. /\ nals' = Append(nals, n) /\ samples' = Append(samples, [nals |-> unit, key |-> mark])
        /\ unit' = <<n>>
    BY <1>3 DEF Video!Take, Video!Collected, Video!FlushMark, Video!Sample
  <2>2. Kept(samples', <<>>, nals)
    BY <1>1, <2>1, FlushKept
  <2>3. samples' \in Seq(S \cup {[nals |-> unit, key |-> mark]})
    BY <1>1, <2>1, Appended
  <2>4. <<>> \in Seq(T) /\ Append(<<>>, n) = <<n>>
    OBVIOUS
  <2>5. Kept(samples', Append(<<>>, n), Append(nals, n))
    BY <1>1, <2>2, <2>3, <2>4, AddKept
  <2>6. Kept(samples', unit', nals')
    BY <2>1, <2>4, <2>5
  <2> QED BY <2>6 DEF Kept, CutAt
<1>4. CASE n # <<>> /\ ~Video!NewPicture(n)
  <2>1. nals' = Append(nals, n) /\ samples' = samples /\ unit' = Append(unit, n)
    BY <1>4 DEF Video!Take, Video!Collected
  <2>2. Kept(samples, Append(unit, n), Append(nals, n))
    BY <1>1, AddKept
  <2> QED BY <2>1, <2>2 DEF Kept, CutAt
<1> QED BY <1>2, <1>3, <1>4

LEMMA KeptInit == Video!Init => Kept(samples, unit, nals)
<1> SUFFICES ASSUME Video!Init PROVE Kept(samples, unit, nals)
  OBVIOUS
<1> DEFINE zero == [i \in 0..0 |-> 0]
<1>1. nals = <<>> /\ unit = <<>> /\ samples = <<>> /\ Len(<<>>) = 0 /\ 1..0 = {}
  BY DEF Video!Init
<1>2. zero \in [0..Len(samples) -> 0..Len(nals)] /\ zero[0] = 0
  BY <1>1
<1> HIDE DEF zero
<1>3. CutAt(zero, samples, unit, nals)
  BY <1>1, <1>2 DEF CutAt
<1> QED BY <1>2, <1>3 DEF Kept

LEMMA KeptStep ==
  VideoInv /\ Kept(samples, unit, nals) /\ [Video!Next]_(Video!vars) => Kept(samples, unit, nals)'
<1> SUFFICES ASSUME VideoInv, Kept(samples, unit, nals), [Video!Next]_(Video!vars)
             PROVE  Kept(samples, unit, nals)'
  OBVIOUS
<1>1. CASE UNCHANGED <<nals, unit, samples>>
  BY <1>1 DEF Kept, CutAt
<1>2. CASE \E n : Video!Take(n)
  BY <1>2, TakeKept
<1>3. CASE UNCHANGED Video!vars
  BY <1>1, <1>3 DEF Video!vars
<1>4. ASSUME NEW n \in 1..MaxChunk, Video!Read(n) PROVE Kept(samples, unit, nals)'
  BY <1>1, <1>4 DEF Video!Read
<1>5. CASE Video!Cut
  BY <1>1, <1>2, <1>5 DEF Video!Cut
<1>6. CASE Video!Eof
  BY <1>1, <1>2, <1>6 DEF Video!Eof
<1>7. CASE Video!LastFlush
  <2>1. nals' = nals /\ unit' = <<>>
    BY <1>7 DEF Video!LastFlush
  <2>2. CASE unit = <<>>
    BY <1>1, <1>7, <2>1, <2>2 DEF Video!LastFlush
  <2>3. CASE unit # <<>>
    <3>1. samples' = Append(samples, [nals |-> unit, key |-> mark])
      BY <1>7, <2>3 DEF Video!LastFlush, Video!Sample
    <3>2. PICK S, T : samples \in Seq(S) /\ unit \in Seq(T) /\ nals \in Seq(T)
      BY DEF VideoInv, VideoTyped
    <3>3. Kept(samples', <<>>, nals)
      BY <3>1, <3>2, FlushKept
    <3> QED BY <2>1, <3>3 DEF Kept, CutAt
  <2> QED BY <2>2, <2>3
<1> QED BY <1>3, <1>4, <1>5, <1>6, <1>7 DEF Video!Next

\* Whatever bytes ffmpeg writes, and wherever they are cut and end, the samples and
\* the access unit being collected are the NAL units, in their order: runOnce loses,
\* repeats and changes none.
THEOREM NalsKept == Video!Spec => []Kept(samples, unit, nals)
<1> QED BY VideoInit, VideoStep, KeptInit, KeptStep, PTL DEF Video!Spec
=============================================================================
