------------------------- MODULE CameraVoiceProofs -------------------------
(***************************************************************************)
(* Proofs about the two of nc-host's parts that hand one thing of the desk *)
(* to the newest who asks. Camera, for any sessions: the webcam has one    *)
(* writer, a camera that lost it does not take it back, and the sessions   *)
(* implement Webcam. VoiceRelay, with variables of its own, for any        *)
(* devices, queue and connections: the relay reaches nc-voice.             *)
(***************************************************************************)
EXTENDS Camera, VoiceState, TLAPS

\* A run between take and release.
Active(s) == st[s] \in Running \cup {"failed", "return", "preempted"}

\* Only a session in its writing loop, or past it, has an ffmpeg.
FfmpegInRun == \A s \in ffmpeg : st[s] \in {"write", "ending"}

\* The run that is not cancelled is the one the next camera would cancel, and
\* what the next camera would cancel is a run.
OwnerIsRun ==
  /\ \A s \in Sessions : Active(s) /\ s \notin cancelled => owner = s
  /\ \A s \in Sessions : owner = s => Active(s)

\* A run that found itself preempted is not the newest.
PreemptedIsOld == \A s \in Sessions : st[s] = "preempted" => newest # s

\* Where a camera can be that lost the webcam while it was writing.
OustedStays ==
  \A s \in ousted \ early :
    \/ st[s] \in {"write", "ending"} /\ newest # s
    \/ st[s] \in {"preempted", "ignored", "gone"}
    \/ st[s] = "return" /\ s \in over

IInv == TypeOK /\ FfmpegInRun /\ OwnerIsRun /\ PreemptedIsOld /\ OustedStays

---------------------------------------------------------------------------

LEMMA InitIInv == Init => IInv
BY CameraAssumption
   DEF Init, IInv, TypeOK, FfmpegInRun, OwnerIsRun, PreemptedIsOld, OustedStays, Active, Running

\* The devices.
LEMMA DeviceKeeps ==
  ASSUME IInv, NEW s \in Sessions, CameraOn(s) \/ CameraOff(s) \/ SessionEnds(s)
  PROVE  IInv'
BY DEF IInv, TypeOK, FfmpegInRun, OwnerIsRun, PreemptedIsOld, OustedStays, Active, Running,
       CameraOn, CameraOff, SessionEnds, devVars, ownVars, histVars

\* The newest camera takes the webcam: the only step that makes a camera lose it.
LEMMA TakeKeeps ==
  ASSUME IInv, NEW s \in Sessions, Take(s)
  PROVE  IInv'
<1> USE CameraAssumption DEF Take, Takes, Go, devVars, Running
<1>1. TypeOK'
  BY DEF IInv, TypeOK
<1>2. FfmpegInRun'
  BY DEF IInv, TypeOK, FfmpegInRun
<1>3. OwnerIsRun'
  BY DEF IInv, TypeOK, OwnerIsRun, Active
<1>4. PreemptedIsOld'
  BY DEF IInv, TypeOK, PreemptedIsOld
<1>5. OustedStays'
  <2> SUFFICES ASSUME NEW o \in ousted' \ early'
               PROVE  \/ st'[o] \in {"write", "ending"} /\ newest' # o
                      \/ st'[o] \in {"preempted", "ignored", "gone"}
                      \/ st'[o] = "return" /\ o \in over'
    BY DEF OustedStays
  <2>1. o # s
    BY DEF IInv, TypeOK, OustedStays
  <2>2. CASE o \in ousted
    <3>1. o \notin early
      BY <2>1
    <3> QED BY <2>1, <2>2, <3>1 DEF IInv, TypeOK, OustedStays
  <2>3. CASE o \notin ousted
    <3>1. owner = o /\ o \in Sessions
      BY <2>3 DEF IInv, TypeOK
    <3>2. st[o] \in {"write", "ending", "preempted"}
      BY <3>1 DEF IInv, OwnerIsRun, Active
    <3>3. newest = o
      BY <3>1 DEF IInv, TypeOK
    <3>4. st[o] # "preempted"
      BY <3>1, <3>3 DEF IInv, PreemptedIsOld
    <3> QED BY <2>1, <3>1, <3>2, <3>4 DEF IInv, TypeOK
  <2> QED BY <2>2, <2>3
<1> QED BY <1>1, <1>2, <1>3, <1>4, <1>5 DEF IInv

\* The run of ffmpeg.
LEMMA RunKeeps ==
  ASSUME IInv, NEW s \in Sessions,
         StartFails(s) \/ Start(s) \/ WriteEnds(s) \/ FfmpegKilled(s) \/ FfmpegDies(s) \/ Ended(s)
  PROVE  IInv'
<1> USE CameraAssumption DEF Go, devVars, ownVars, histVars, Running, IInv, TypeOK, FfmpegInRun,
        OwnerIsRun, PreemptedIsOld, OustedStays, Active
<1>1. CASE StartFails(s)
  BY <1>1 DEF StartFails
<1>2. CASE Start(s)
  BY <1>2 DEF Start
<1>3. CASE WriteEnds(s)
  BY <1>3 DEF WriteEnds
<1>4. CASE FfmpegKilled(s)
  BY <1>4 DEF FfmpegKilled
<1>5. CASE FfmpegDies(s)
  BY <1>5 DEF FfmpegDies
<1>6. CASE Ended(s)
  BY <1>6 DEF Ended
<1> QED BY <1>1, <1>2, <1>3, <1>4, <1>5, <1>6

\* What comes after it.
LEMMA AfterKeeps ==
  ASSUME IInv, NEW s \in Sessions, Release(s) \/ Slept(s) \/ Paused(s) \/ TrackEnds(s)
  PROVE  IInv'
<1> USE CameraAssumption DEF Go, devVars, ownVars, histVars, Running, IInv, TypeOK, FfmpegInRun,
        OwnerIsRun, PreemptedIsOld, OustedStays, Active
<1>1. CASE Release(s)
  BY <1>1 DEF Release
<1>2. CASE Slept(s)
  BY <1>2 DEF Slept
<1>3. CASE Paused(s)
  BY <1>3 DEF Paused
<1>4. CASE TrackEnds(s)
  BY <1>4 DEF TrackEnds
<1> QED BY <1>1, <1>2, <1>3, <1>4

LEMMA NextKeeps == IInv /\ [Next]_vars => IInv'
<1> SUFFICES ASSUME IInv, [Next]_vars PROVE IInv'
  OBVIOUS
<1>1. CASE UNCHANGED vars
  BY <1>1 DEF vars, devVars, ownVars, histVars, IInv, TypeOK, FfmpegInRun, OwnerIsRun,
              PreemptedIsOld, OustedStays, Active
<1>2. CASE Next
  BY <1>2, DeviceKeeps, TakeKeeps, RunKeeps, AfterKeeps DEF Next, Camera
<1> QED BY <1>1, <1>2

LEMMA Inductive == Spec => []IInv
BY InitIInv, NextKeeps, PTL DEF Spec

---------------------------------------------------------------------------

\* The variables of the webcam keep their types, for any sessions and codecs.
THEOREM CameraTypeCorrect == Spec => []TypeOK
<1>1. IInv => TypeOK
  BY DEF IInv
<1> QED BY <1>1, Inductive, PTL

\* A camera that lost the webcam while it was writing does not write again before
\* it has paused: playCamera ignores it after errPreempted.
THEOREM NeverTakesBack == Spec => []NoTakingBack
<1>1. IInv => NoTakingBack
  BY DEF IInv, TypeOK, OustedStays, NoTakingBack, Running
<1> QED BY <1>1, Inductive, PTL

\* An ffmpeg that has not been told to stop is the holder's, so two cameras are
\* never both meant to write: camOwner "lets only the newest camera write".
THEOREM OneWriterOnly == Spec => []Desk!OneWriter
<1>1. IInv => Desk!OneWriter
  BY CameraAssumption DEF IInv, TypeOK, FfmpegInRun, OwnerIsRun, Active, Running, Desk!OneWriter
<1> QED BY <1>1, Inductive, PTL

---------------------------------------------------------------------------
(* Camera implements Webcam. *)

LEMMA InitImplements == Init => Desk!Init
BY DEF Init, Desk!Init

LEMMA StepImplements == IInv /\ [Next]_vars => [Desk!Next]_(Desk!vars)
<1> SUFFICES ASSUME IInv, [Next]_vars PROVE [Desk!Next]_(Desk!vars)
  OBVIOUS
<1> USE CameraAssumption DEF Desk!vars, devVars, ownVars, histVars, Go
<1>1. CASE UNCHANGED vars
  BY <1>1 DEF vars
<1>2. ASSUME NEW s \in Sessions, CameraOn(s) \/ CameraOff(s) \/ Slept(s) \/ Paused(s) \/ TrackEnds(s)
             \/ StartFails(s) \/ Ended(s)
      PROVE  UNCHANGED Desk!vars
  BY <1>2 DEF CameraOn, CameraOff, Slept, Paused, TrackEnds, StartFails, Ended
<1>3. ASSUME NEW s \in Sessions, Take(s) PROVE Desk!Claim(s)
  <2>1. s \notin ffmpeg
    BY <1>3 DEF Take, Takes, IInv, FfmpegInRun
  <2>2. "none" \notin ffmpeg
    BY DEF IInv, TypeOK
  <2> QED BY <1>3, <2>1, <2>2 DEF Take, Takes, Desk!Claim
<1>4. ASSUME NEW s \in Sessions, Start(s) PROVE Desk!Open(s)
  <2>1. s \notin ffmpeg
    BY <1>4 DEF Start, IInv, FfmpegInRun
  <2>2. owner = s
    BY <1>4 DEF Start, IInv, OwnerIsRun, Active, Running
  <2> QED BY <1>4, <2>1, <2>2 DEF Start, Desk!Open
<1>5. ASSUME NEW s \in Sessions, WriteEnds(s) \/ SessionEnds(s)
      PROVE  Desk!Tell(s) \/ UNCHANGED Desk!vars
  BY <1>5 DEF WriteEnds, SessionEnds, Desk!Tell
<1>6. ASSUME NEW s \in Sessions, FfmpegKilled(s) \/ FfmpegDies(s) PROVE Desk!Close(s)
  BY <1>6 DEF FfmpegKilled, FfmpegDies, Desk!Close
<1>7. ASSUME NEW s \in Sessions, Release(s) PROVE Desk!GiveBack \/ UNCHANGED Desk!vars
  <2>1. s \notin ffmpeg
    BY <1>7 DEF Release, IInv, FfmpegInRun
  <2>2. (ffmpeg \cap (cancelled \cup over))' = ffmpeg \cap (cancelled \cup over)
    BY <1>7, <2>1 DEF Release
  <2>3. CASE newest = s
    <3>1. owner \notin ffmpeg
      BY <2>1, <2>3 DEF IInv, TypeOK
    <3> QED BY <1>7, <2>2, <2>3, <3>1 DEF Release, Desk!GiveBack
  <2>4. CASE newest # s
    BY <1>7, <2>2, <2>4 DEF Release
  <2> QED BY <2>3, <2>4
<1>8. CASE Next
  BY <1>8, <1>2, <1>3, <1>4, <1>5, <1>6, <1>7 DEF Next, Camera, Desk!Next
<1> QED BY <1>1, <1>8

\* Whatever cameras come, go and fail, the webcam is held and written to as Webcam
\* says: an ffmpeg that has not been told to stop is the holder's.
THEOREM OneWebcamOnly == Spec => OneWebcam
BY InitImplements, StepImplements, Inductive, PTL DEF Spec, OneWebcam, Desk!Spec
---------------------------------------------------------------------------
(* VoiceRelay, beside Camera and with variables of its own. *)

Relay == INSTANCE VoiceRelay

\* A connection of nc-voice that has not ended is the newest one, and the relay
\* goes to it; the handlers that have still to return are of other connections.
NewestReached ==
  /\ voice # 0 => voice = life /\ sub = voice /\ voice \notin ending
  /\ \A v \in ending : v <= life

RelayInv == Relay!VoiceTypeOK /\ NewestReached

\* The types of the recorder's state.
MicOK ==
  /\ isOn \in BOOLEAN /\ once \in BOOLEAN /\ rec \in BOOLEAN /\ stray \in BOOLEAN /\ hearing \in BOOLEAN
  /\ timer \in BOOLEAN /\ dictated \in BOOLEAN /\ torn \in BOOLEAN
  /\ doing \in [Relay!Parts -> {"idle", "set", "run", "kill"} \X BOOLEAN]

LEMMA QueueFacts ==
  ASSUME NEW q \in Seq(Relay!Commands)
  PROVE  /\ Len(q) \in Nat /\ <<>> \in Seq(Relay!Commands) /\ Len(<<>>) = 0
         /\ \A c \in Relay!Commands : Append(q, c) \in Seq(Relay!Commands) /\ Len(Append(q, c)) = Len(q) + 1
         /\ q # <<>> => Tail(q) \in Seq(Relay!Commands) /\ Len(Tail(q)) = Len(q) - 1 /\ Head(q) \in Relay!Commands
OBVIOUS

LEMMA CommandQueues ==
  ASSUME Relay!VoiceAssumption, Relay!VoiceTypeOK, NEW c \in Relay!Commands, Relay!Command(c)
  PROVE  /\ queue' \in Seq(Relay!Commands) /\ Len(queue') <= QueueCap /\ sub' = sub
         /\ (sub = 0 => queue' = <<>>) /\ offLost' \in BOOLEAN
<1>1. queue \in Seq(Relay!Commands) /\ Len(queue) <= QueueCap /\ (sub = 0 => queue = <<>>) /\ offLost \in BOOLEAN
  BY DEF Relay!VoiceTypeOK
<1>2. QueueCap \in Nat
  BY DEF Relay!VoiceAssumption
<1>3. /\ queue' = IF sub # 0 /\ Len(queue) < QueueCap THEN Append(queue, c) ELSE queue
      /\ offLost' = (IF sub # 0 /\ c = "off" THEN Len(queue) >= QueueCap ELSE offLost) /\ sub' = sub
  BY DEF Relay!Command
<1>4. Len(queue) \in Nat /\ Append(queue, c) \in Seq(Relay!Commands) /\ Len(Append(queue, c)) = Len(queue) + 1
  BY <1>1, QueueFacts
<1>5. queue' \in Seq(Relay!Commands) /\ Len(queue') <= QueueCap /\ (sub = 0 => queue' = <<>>)
  BY <1>1, <1>2, <1>3, <1>4
<1>6. offLost' \in BOOLEAN
  <2>1. offLost' = (Len(queue) >= QueueCap) \/ offLost' = offLost
    BY <1>3
  <2>2. CASE offLost' = (Len(queue) >= QueueCap)
    BY <2>2
  <2> QED BY <2>1, <2>2, <1>1
<1> QED BY <1>3, <1>5, <1>6

LEMMA InitRelayInv == Relay!VoiceAssumption /\ Relay!Init => RelayInv
<1> SUFFICES ASSUME Relay!VoiceAssumption, Relay!Init PROVE RelayInv
  OBVIOUS
<1>1. 0 \in 0..MaxLives /\ 0 <= QueueCap
  BY DEF Relay!VoiceAssumption
<1>2. <<>> \in Seq(Relay!Commands) /\ Len(<<>>) = 0
  OBVIOUS
<1>3. Relay!VoiceTypeOK
  <2>1. MicOK
    BY DEF Relay!Init, Relay!RecorderInit, MicOK
  <2> QED BY <1>1, <1>2, <2>1 DEF Relay!Init, Relay!VoiceTypeOK, Relay!Handlers, MicOK
<1>4. NewestReached
  BY DEF Relay!Init, NewestReached
<1> QED BY <1>3, <1>4 DEF RelayInv

\* start and stop, each of their steps, and the end of the process keep the types.
LEMMA RecorderKeeps ==
  /\ \A p \in Relay!Parts, o \in BOOLEAN :
       MicOK /\ Relay!BeginStart(p, o) /\ dictated' \in BOOLEAN => MicOK'
  /\ \A p \in Relay!Parts :
       MicOK /\ Relay!BeginStop(p) /\ hearing' \in BOOLEAN /\ timer' \in BOOLEAN => MicOK'
  /\ Relay!RecorderDies => MicOK'
  /\ \A p \in Relay!Parts :
       MicOK /\ (Relay!SetOn(p) \/ Relay!Run(p) \/ Relay!Kill(p)) => MicOK'
<1>s. ASSUME NEW p \in Relay!Parts, NEW step \in {"idle", "set", "run", "kill"}, NEW o \in BOOLEAN,
             MicOK, Relay!Steps(p, step, o)
      PROVE  doing' \in [Relay!Parts -> {"idle", "set", "run", "kill"} \X BOOLEAN]
  <2>1. <<step, o>> \in {"idle", "set", "run", "kill"} \X BOOLEAN
    OBVIOUS
  <2> QED BY <1>s, <2>1 DEF Relay!Steps, MicOK
<1>1. ASSUME NEW p \in Relay!Parts, NEW o \in BOOLEAN, MicOK, Relay!BeginStart(p, o), dictated' \in BOOLEAN
      PROVE  MicOK'
  <2>1. doing' \in [Relay!Parts -> {"idle", "set", "run", "kill"} \X BOOLEAN]
    <3>1. CASE isOn
      BY <1>1, <3>1 DEF Relay!BeginStart, MicOK
    <3>2. CASE ~isOn
      BY <1>1, <1>s, <3>2 DEF Relay!BeginStart
    <3> QED BY <3>1, <3>2
  <2>2. torn' \in BOOLEAN
    BY <1>1 DEF Relay!BeginStart
  <2>3. /\ isOn' \in BOOLEAN /\ once' \in BOOLEAN /\ rec' \in BOOLEAN /\ stray' \in BOOLEAN
        /\ hearing' \in BOOLEAN /\ timer' \in BOOLEAN
    BY <1>1 DEF Relay!BeginStart, MicOK
  <2> QED BY <1>1, <2>1, <2>2, <2>3 DEF MicOK
<1>2. ASSUME NEW p \in Relay!Parts, MicOK, Relay!BeginStop(p), hearing' \in BOOLEAN, timer' \in BOOLEAN
      PROVE  MicOK'
  <2>1. doing' \in [Relay!Parts -> {"idle", "set", "run", "kill"} \X BOOLEAN]
    <3>1. CASE ~isOn
      BY <1>2, <3>1 DEF Relay!BeginStop, MicOK
    <3>2. CASE isOn
      BY <1>2, <1>s, <3>2 DEF Relay!BeginStop
    <3> QED BY <3>1, <3>2
  <2>2. torn' \in BOOLEAN
    BY <1>2 DEF Relay!BeginStop
  <2>3. /\ isOn' \in BOOLEAN /\ once' \in BOOLEAN /\ rec' \in BOOLEAN /\ stray' \in BOOLEAN
        /\ dictated' \in BOOLEAN
    BY <1>2 DEF Relay!BeginStop, MicOK
  <2> QED BY <1>2, <2>1, <2>2, <2>3 DEF MicOK
<1>3. ASSUME Relay!RecorderDies PROVE MicOK'
  <2>1. <<"idle", FALSE>> \in {"idle", "set", "run", "kill"} \X BOOLEAN
    OBVIOUS
  <2> QED BY <1>3, <2>1 DEF Relay!RecorderDies, MicOK
<1>4. ASSUME NEW p \in Relay!Parts, MicOK, Relay!SetOn(p) \/ Relay!Run(p) \/ Relay!Kill(p) PROVE MicOK'
  <2>1. doing[p][2] \in BOOLEAN
    BY <1>4 DEF MicOK
  <2>2. doing' \in [Relay!Parts -> {"idle", "set", "run", "kill"} \X BOOLEAN]
    BY <1>4, <1>s, <2>1 DEF Relay!SetOn, Relay!Run, Relay!Kill
  <2>3. torn' \in BOOLEAN
    BY <1>4 DEF Relay!SetOn, Relay!Run, Relay!Kill, MicOK
  <2>4. /\ isOn' \in BOOLEAN /\ once' \in BOOLEAN /\ rec' \in BOOLEAN /\ stray' \in BOOLEAN
        /\ hearing' \in BOOLEAN /\ timer' \in BOOLEAN /\ dictated' \in BOOLEAN
    BY <1>4, <2>1 DEF Relay!SetOn, Relay!Run, Relay!Kill, MicOK
  <2> QED BY <2>2, <2>3, <2>4 DEF MicOK
<1> QED BY <1>1, <1>2, <1>3, <1>4

\* So do the steps of nc-voice's own parts.
LEMMA WorkKeeps ==
  ASSUME MicOK,
         \/ \E p \in Relay!Parts : Relay!PartGoesOn(p)
         \/ Relay!WorkerListens \/ Relay!DeviceHeard \/ Relay!SilenceHeard \/ Relay!GivesUp
  PROVE  MicOK'
<1>1. ASSUME NEW p \in Relay!Parts, Relay!SetOn(p) \/ Relay!Run(p) \/ Relay!Kill(p) PROVE MicOK'
  BY <1>1, RecorderKeeps
<1>2. CASE Relay!Asks \/ Relay!Dictates
  BY <1>2, RecorderKeeps DEF Relay!Asks, Relay!Dictates, Relay!Parts, MicOK
<1>3. CASE Relay!Heard
  BY <1>3 DEF Relay!Heard, MicOK
<1>4. CASE Relay!Silence
  BY <1>4, RecorderKeeps DEF Relay!Silence, Relay!Parts, MicOK
<1>5. CASE Relay!GiveUp
  BY <1>5, RecorderKeeps DEF Relay!GiveUp, Relay!Parts, MicOK
<1> QED BY <1>1, <1>2, <1>3, <1>4, <1>5
        DEF Relay!PartGoesOn, Relay!WorkerListens, Relay!DeviceHeard, Relay!SilenceHeard, Relay!GivesUp, Relay!Works

LEMMA NextRelayInv == Relay!VoiceAssumption /\ RelayInv /\ [Relay!Next]_(Relay!vars) => RelayInv'
<1> SUFFICES ASSUME Relay!VoiceAssumption, RelayInv, [Relay!Next]_(Relay!vars) PROVE RelayInv'
  OBVIOUS
<1> USE DEF RelayInv
<1>t. /\ conn \in [Devices -> {"none", "up", "lost", "closed"}] /\ listed \subseteq Devices
      /\ at \in [Relay!Handlers -> {"none", "close", "delete", "nobody", "done"}]
      /\ sub \in 0..MaxLives /\ voice \in 0..MaxLives /\ life \in 0..MaxLives
      /\ ending \subseteq 1..MaxLives
      /\ queue \in Seq(Relay!Commands) /\ Len(queue) <= QueueCap /\ (sub = 0 => queue = <<>>)
      /\ offLost \in BOOLEAN /\ MicOK
  BY DEF Relay!VoiceTypeOK, MicOK
<1>b. MaxLives \in Nat /\ QueueCap \in Nat
  BY DEF Relay!VoiceAssumption
<1>e. <<>> \in Seq(Relay!Commands) /\ Len(<<>>) = 0
  OBVIOUS
\* What the sessions do leaves nc-voice's connections alone.
<1>s. ASSUME conn' \in [Devices -> {"none", "up", "lost", "closed"}], listed' \subseteq Devices,
             at' \in [Relay!Handlers -> {"none", "close", "delete", "nobody", "done"}],
             queue' \in Seq(Relay!Commands), Len(queue') <= QueueCap, sub = 0 => queue' = <<>>, sub' = sub,
             offLost' \in BOOLEAN, UNCHANGED <<Relay!lifeVars, Relay!micVars>>
      PROVE  RelayInv'
  BY <1>t, <1>s DEF Relay!VoiceTypeOK, NewestReached, Relay!lifeVars, Relay!micVars, MicOK
<1>1. ASSUME NEW s \in Devices, Relay!Session(s) PROVE RelayInv'
  <2>1. CASE Relay!Comes(s)
    BY <2>1, <1>t, <1>s DEF Relay!Comes, Relay!relayVars, Relay!Handlers
  <2>2. CASE Relay!Lost(s)
    BY <2>2, <1>t, <1>s DEF Relay!Lost, Relay!relayVars, Relay!Handlers
  <2>3. CASE Relay!Pressed(s)
    <3>1. PICK c \in Relay!Commands : Relay!Command(c)
      BY <2>3 DEF Relay!Pressed
    <3>2. UNCHANGED <<conn, listed, at, Relay!lifeVars, Relay!micVars>>
      BY <2>3 DEF Relay!Pressed, Relay!sessionVars
    <3>3. /\ queue' \in Seq(Relay!Commands) /\ Len(queue') <= QueueCap /\ sub' = sub
          /\ (sub = 0 => queue' = <<>>) /\ offLost' \in BOOLEAN
      BY <3>1, CommandQueues
    <3> QED BY <3>2, <3>3, <1>t, <1>s
  <2> QED BY <1>1, <2>1, <2>2, <2>3 DEF Relay!Session
<1>2. ASSUME NEW h \in Relay!Handlers, Relay!Close(h) PROVE RelayInv'
  <2>1. CASE Relay!PcCloses(h)
    BY <2>1, <1>t, <1>s DEF Relay!PcCloses, Relay!relayVars, Relay!Handlers
  <2>2. CASE Relay!Deletes(h)
    BY <2>2, <1>t, <1>s DEF Relay!Deletes, Relay!relayVars, Relay!Handlers
  <2>3. CASE Relay!NobodyLeft(h)
    <3>1. Relay!Command("off") /\ "off" \in Relay!Commands
      BY <2>3 DEF Relay!NobodyLeft, Relay!Commands
    <3>2. UNCHANGED <<conn, listed, Relay!lifeVars, Relay!micVars>>
      BY <2>3 DEF Relay!NobodyLeft
    <3>3. at' \in [Relay!Handlers -> {"none", "close", "delete", "nobody", "done"}]
      BY <2>3, <1>t DEF Relay!NobodyLeft
    <3>4. /\ queue' \in Seq(Relay!Commands) /\ Len(queue') <= QueueCap /\ sub' = sub
          /\ (sub = 0 => queue' = <<>>) /\ offLost' \in BOOLEAN
      BY <3>1, CommandQueues
    <3> QED BY <3>2, <3>3, <3>4, <1>t, <1>s
  <2> QED BY <1>2, <2>1, <2>2, <2>3 DEF Relay!Close
<1>3. ASSUME NEW v \in ending, Relay!RelayEnds(v) PROVE RelayInv'
  <2>1. /\ ending' = ending \ {v} /\ sub' = (IF sub = v THEN 0 ELSE sub)
        /\ queue' = (IF sub = v THEN <<>> ELSE queue)
        /\ UNCHANGED <<conn, listed, at, offLost, voice, life>> /\ UNCHANGED Relay!micVars
    BY <1>3 DEF Relay!RelayEnds, Relay!sessionVars
  <2>2. Relay!VoiceTypeOK'
    <3>1. MicOK'
      BY <2>1, <1>t DEF MicOK, Relay!micVars
    <3>2. /\ sub' \in 0..MaxLives /\ ending' \subseteq 1..MaxLives /\ (sub' = 0 => queue' = <<>>)
          /\ Len(queue') <= QueueCap /\ queue' \in Seq(Relay!Commands)
      BY <2>1, <1>t, <1>b, <1>e
    <3> QED BY <2>1, <3>1, <3>2, <1>t DEF Relay!VoiceTypeOK, MicOK
  \* The connection that ends is not nc-voice's present one.
  <2>3. NewestReached'
    BY <2>1, <1>t DEF NewestReached
  <2> QED BY <2>2, <2>3
<1>4. CASE Relay!Dials
  <2>1. /\ voice = 0 /\ life < MaxLives /\ life' = life + 1 /\ voice' = life + 1 /\ sub' = life + 1
        /\ queue' = <<>> /\ offLost' = FALSE
        /\ UNCHANGED <<conn, listed, at, ending>> /\ UNCHANGED Relay!micVars
    BY <1>4 DEF Relay!Dials, Relay!sessionVars
  <2>2. life + 1 \in 0..MaxLives
    BY <2>1, <1>t, <1>b
  <2>3. Relay!VoiceTypeOK'
    <3>1. MicOK'
      BY <2>1, <1>t DEF MicOK, Relay!micVars
    <3>2. sub' \in 0..MaxLives /\ voice' \in 0..MaxLives /\ life' \in 0..MaxLives /\ offLost' \in BOOLEAN
      BY <2>1, <2>2
    <3>3. queue' = <<>> /\ 0 <= QueueCap
      BY <2>1, <1>b
    <3>4. Len(queue') <= QueueCap /\ queue' \in Seq(Relay!Commands)
      BY <3>3, <1>e
    <3> QED BY <2>1, <3>1, <3>2, <3>3, <3>4, <1>t DEF Relay!VoiceTypeOK, MicOK
  \* Its number is new.
  <2>4. NewestReached'
    BY <2>1, <1>t, <1>b DEF NewestReached
  <2> QED BY <2>3, <2>4
<1>5. CASE Relay!Dies
  <2>1. /\ voice # 0 /\ voice' = 0 /\ ending' = ending \cup {voice}
        /\ UNCHANGED <<conn, listed, at, sub, queue, offLost, life>>
    BY <1>5 DEF Relay!Dies, Relay!sessionVars, Relay!relayVars
  <2>2. Relay!VoiceTypeOK'
    <3>1. MicOK'
      BY <1>5, RecorderKeeps DEF Relay!Dies
    <3>2. ending' \subseteq 1..MaxLives
      BY <2>1, <1>t, <1>b
    <3>3. voice' \in 0..MaxLives
      BY <2>1, <1>b
    <3> QED BY <2>1, <3>1, <3>2, <3>3, <1>t DEF Relay!VoiceTypeOK, MicOK
  <2>3. NewestReached'
    BY <2>1, <1>t DEF NewestReached
  <2> QED BY <2>2, <2>3
<1>6. CASE Relay!Obeys
  <2>1. /\ queue # <<>> /\ queue' = Tail(queue) /\ sub # 0
        /\ UNCHANGED <<conn, listed, at, sub, offLost, ending, voice, life>>
    BY <1>6 DEF Relay!Obeys, Relay!sessionVars, Relay!lifeVars
  <2>2. /\ Tail(queue) \in Seq(Relay!Commands) /\ Len(Tail(queue)) = Len(queue) - 1
        /\ Len(queue) \in Nat
    BY <2>1, <1>t, QueueFacts
  <2>3. queue' \in Seq(Relay!Commands) /\ Len(queue') <= QueueCap
    BY <2>1, <2>2, <1>t, <1>b
  <2>4. MicOK'
    <3>1. \/ Relay!BeginStop("main") /\ UNCHANGED <<hearing, timer>>
          \/ Relay!BeginStart("main", Head(queue) = "once") /\ UNCHANGED dictated
      BY <1>6 DEF Relay!Obeys
    <3> QED BY <3>1, <1>t, RecorderKeeps DEF MicOK, Relay!Parts
  <2>5. Relay!VoiceTypeOK'
    BY <2>1, <2>3, <2>4, <1>t DEF Relay!VoiceTypeOK, MicOK
  <2>6. NewestReached'
    BY <2>1 DEF NewestReached
  <2> QED BY <2>5, <2>6
<1>7. CASE \/ \E p \in Relay!Parts : Relay!PartGoesOn(p)
           \/ Relay!WorkerListens \/ Relay!DeviceHeard \/ Relay!SilenceHeard \/ Relay!GivesUp
  <2>1. MicOK'
    BY <1>7, <1>t, WorkKeeps
  <2>2. UNCHANGED <<conn, listed, at, sub, queue, offLost, ending, voice, life>>
    BY <1>7 DEF Relay!PartGoesOn, Relay!WorkerListens, Relay!DeviceHeard, Relay!SilenceHeard, Relay!GivesUp,
                Relay!Works, Relay!sessionVars, Relay!relayVars, Relay!lifeVars
  <2> QED BY <2>1, <2>2, <1>t DEF Relay!VoiceTypeOK, MicOK, NewestReached
<1>8. CASE UNCHANGED Relay!vars
  BY <1>8 DEF Relay!VoiceTypeOK, NewestReached, Relay!vars, Relay!sessionVars, Relay!relayVars, Relay!lifeVars, Relay!micVars
<1> QED BY <1>1, <1>2, <1>3, <1>4, <1>5, <1>6, <1>7, <1>8 DEF Relay!Next, Relay!Voice

\* However often nc-voice is restarted and however late nc-host notices, the relay
\* goes to the connection nc-voice has: the end of an earlier one does not clear it.
THEOREM RelayReached == Relay!Spec => []RelayReaches
<1>1. RelayInv => RelayReaches
  BY DEF RelayInv, NewestReached, RelayReaches, Relay!VoiceTypeOK, VoiceTypeOK,
         Relay!Handlers, Handlers, Relay!Commands, Commands, Relay!Parts, Parts
<1>2. Relay!VoiceAssumption
  BY VoiceAssumption DEF Relay!VoiceAssumption
<1>3. Relay!Init => RelayInv
  BY <1>2, InitRelayInv
<1>4. RelayInv /\ [Relay!Next]_(Relay!vars) => RelayInv'
  BY <1>2, NextRelayInv
<1> QED BY <1>1, <1>3, <1>4, PTL DEF Relay!Spec
---------------------------------------------------------------------------
(* The recorder. *)

At(p, step) == doing[p][1] = step

\* Without a tear there is one recorder, and one that runs while Voice.on says that
\* nothing listens is about to be ended: nothing else leaves the microphone open
\* behind the button's back.
NoneLeftBehind == ~torn => ~stray /\ (rec /\ ~isOn => \E p \in Parts : At(p, "kill"))

\* Why: without a tear no part is between its steps while another is, a start finds
\* the recorder before it ended, and a stop finds it started.
RecorderInv ==
  ~torn =>
    /\ ~stray
    /\ \A p, q \in Parts : At(p, "idle") \/ At(q, "idle") \/ p = q
    /\ \A p \in Parts : /\ At(p, "set") => ~isOn /\ ~rec
                        /\ At(p, "run") => isOn /\ ~rec
                        /\ At(p, "kill") => ~isOn
    /\ rec /\ ~isOn => \E p \in Parts : At(p, "kill")

LEMMA PartsSame == Relay!Parts = Parts
BY DEF Relay!Parts, Parts

\* What a step of one part leaves in doing.
LEMMA StepsAt ==
  ASSUME NEW p \in Parts, NEW step, NEW o, MicOK, Relay!Steps(p, step, o)
  PROVE  \A q \in Parts : doing'[q] = IF q = p THEN <<step, o>> ELSE doing[q]
BY PartsSame DEF Relay!Steps, MicOK

LEMMA StartTears ==
  ASSUME NEW p \in Parts, NEW o, MicOK, RecorderInv, Relay!BeginStart(p, o)
  PROVE  RecorderInv'
<1> SUFFICES ASSUME ~torn' PROVE RecorderInv'
  BY DEF RecorderInv
<1>1. ~torn /\ (isOn \/ Relay!Alone(p)) /\ UNCHANGED <<isOn, rec, stray>> /\ At(p, "idle")
  BY DEF Relay!BeginStart, Relay!Idle, At
<1>2. CASE isOn
  BY <1>1, <1>2 DEF Relay!BeginStart, RecorderInv, At
<1>3. CASE ~isOn
  <2>1. \A q \in Parts : q # p => At(q, "idle")
    BY <1>1, <1>3, PartsSame DEF Relay!Alone, Relay!Idle, At
  <2>2. \A q \in Parts : doing'[q] = IF q = p THEN <<"set", o>> ELSE doing[q]
    BY <1>3, StepsAt DEF Relay!BeginStart
  <2>3. ~rec /\ ~stray
    BY <1>1, <1>3, <2>1 DEF RecorderInv, At
  <2>4. \A q \in Parts : IF q = p THEN At(q, "set")' ELSE At(q, "idle")'
    BY <2>1, <2>2 DEF At
  <2> QED BY <1>1, <1>3, <2>3, <2>4 DEF RecorderInv, At
<1> QED BY <1>2, <1>3

LEMMA StopTears ==
  ASSUME NEW p \in Parts, MicOK, RecorderInv, Relay!BeginStop(p)
  PROVE  RecorderInv'
<1> SUFFICES ASSUME ~torn' PROVE RecorderInv'
  BY DEF RecorderInv
<1>1. /\ ~torn /\ isOn' = FALSE /\ UNCHANGED <<rec, stray>> /\ At(p, "idle")
      /\ \A q \in Parts : ~At(q, "set") /\ ~At(q, "run")
  BY PartsSame DEF Relay!BeginStop, Relay!Idle, At
<1>2. CASE ~isOn
  BY <1>1, <1>2 DEF Relay!BeginStop, RecorderInv, At
<1>3. CASE isOn
  <2>1. \A q \in Parts : At(q, "idle")
    <3>1. \A q \in Parts : doing[q][1] \in {"idle", "set", "run", "kill"}
      BY PartsSame DEF MicOK
    <3> QED BY <1>1, <1>3, <3>1 DEF RecorderInv, At
  <2>2. \A q \in Parts : doing'[q] = IF q = p THEN <<"kill", FALSE>> ELSE doing[q]
    BY <1>3, StepsAt DEF Relay!BeginStop
  <2>3. \A q \in Parts : IF q = p THEN At(q, "kill")' ELSE At(q, "idle")'
    BY <2>1, <2>2 DEF At
  <2> QED BY <1>1, <2>3 DEF RecorderInv, At
<1> QED BY <1>2, <1>3

\* The steps after the first.
LEMMA PartMends ==
  ASSUME NEW p \in Parts, MicOK, RecorderInv, Relay!SetOn(p) \/ Relay!Run(p) \/ Relay!Kill(p)
  PROVE  RecorderInv'
<1> SUFFICES ASSUME ~torn' PROVE RecorderInv'
  BY DEF RecorderInv
<1>1. CASE Relay!SetOn(p)
  <2>1. ~torn /\ At(p, "set") /\ isOn' = TRUE /\ UNCHANGED <<rec, stray>>
    BY <1>1 DEF Relay!SetOn, At
  <2>2. ~rec /\ ~stray /\ \A q \in Parts : q # p => At(q, "idle")
    BY <2>1 DEF RecorderInv, At
  <2>3. \A q \in Parts : IF q = p THEN At(q, "run")' ELSE At(q, "idle")'
    <3>1. \A q \in Parts : doing'[q] = IF q = p THEN <<"run", doing[p][2]>> ELSE doing[q]
      <4>1. Relay!Steps(p, "run", doing[p][2])
        BY <1>1 DEF Relay!SetOn
      <4> QED BY <4>1, StepsAt
    <3> QED BY <2>2, <3>1 DEF At
  <2> QED BY <2>1, <2>2, <2>3 DEF RecorderInv, At
<1>2. CASE Relay!Run(p)
  <2>1. ~torn /\ At(p, "run") /\ rec' = TRUE /\ stray' = (stray \/ rec) /\ isOn' = isOn
    BY <1>2 DEF Relay!Run, At
  <2>2. ~rec /\ ~stray /\ isOn /\ \A q \in Parts : q # p => At(q, "idle")
    BY <2>1 DEF RecorderInv, At
  <2>3. \A q \in Parts : At(q, "idle")'
    <3>1. \A q \in Parts : doing'[q] = IF q = p THEN <<"idle", FALSE>> ELSE doing[q]
      <4>1. Relay!Steps(p, "idle", FALSE)
        BY <1>2 DEF Relay!Run
      <4> QED BY <4>1, StepsAt
    <3> QED BY <2>2, <3>1 DEF At
  <2> QED BY <2>1, <2>2, <2>3 DEF RecorderInv, At
<1>3. CASE Relay!Kill(p)
  <2>1. At(p, "kill") /\ rec' = FALSE /\ UNCHANGED <<isOn, stray>>
        /\ (~torn \/ (~isOn /\ ~stray /\ Relay!Alone(p)))
    BY <1>3 DEF Relay!Kill, At
  <2>2. ~stray /\ \A q \in Parts : q # p => At(q, "idle")
    BY <2>1, PartsSame DEF RecorderInv, At, Relay!Alone, Relay!Idle
  <2>3. \A q \in Parts : At(q, "idle")'
    <3>1. \A q \in Parts : doing'[q] = IF q = p THEN <<"idle", FALSE>> ELSE doing[q]
      <4>1. Relay!Steps(p, "idle", FALSE)
        BY <1>3 DEF Relay!Kill
      <4> QED BY <4>1, StepsAt
    <3> QED BY <2>2, <3>1 DEF At
  <2> QED BY <2>1, <2>2, <2>3 DEF RecorderInv, At
<1> QED BY <1>1, <1>2, <1>3

LEMMA NextRecorderInv == RelayInv /\ RecorderInv /\ [Relay!Next]_(Relay!vars) => RecorderInv'
<1> SUFFICES ASSUME RelayInv, RecorderInv, [Relay!Next]_(Relay!vars) PROVE RecorderInv'
  OBVIOUS
<1>m. MicOK
  BY DEF RelayInv, Relay!VoiceTypeOK, MicOK
<1>p. {"main", "worker", "listener", "giveup"} = Parts
  BY DEF Parts
<1>u. UNCHANGED <<isOn, rec, stray, doing, torn>> => RecorderInv'
  BY DEF RecorderInv, At
<1>1. CASE (\E s \in Devices : Relay!Session(s)) \/ (\E h \in Relay!Handlers : Relay!Close(h))
           \/ (\E v \in ending : Relay!RelayEnds(v)) \/ Relay!Dials \/ UNCHANGED Relay!vars
  <2>1. UNCHANGED Relay!micVars
    BY <1>1 DEF Relay!Session, Relay!Comes, Relay!Lost, Relay!Pressed, Relay!Close, Relay!PcCloses, Relay!Deletes,
                Relay!NobodyLeft, Relay!RelayEnds, Relay!Dials, Relay!vars
  <2> QED BY <1>u, <2>1 DEF Relay!micVars
<1>2. CASE Relay!Dies
  BY <1>2, PartsSame DEF Relay!Dies, Relay!RecorderDies, RecorderInv, At
<1>3. CASE Relay!Obeys
  <2>1. "main" \in Parts
    BY <1>p
  <2>2. Relay!BeginStop("main") \/ Relay!BeginStart("main", Head(queue) = "once")
    BY <1>3 DEF Relay!Obeys
  <2> QED BY <2>1, <2>2, <1>m, StartTears, StopTears
<1>4. CASE \E p \in Relay!Parts : Relay!PartGoesOn(p)
  BY <1>4, <1>m, PartsSame, PartMends DEF Relay!PartGoesOn, Relay!Works
<1>5. CASE Relay!WorkerListens
  BY <1>5, <1>m, <1>p, StartTears DEF Relay!WorkerListens, Relay!Works, Relay!Asks, Relay!Dictates
<1>6. CASE Relay!DeviceHeard
  BY <1>6, <1>u DEF Relay!DeviceHeard, Relay!Works, Relay!Heard
<1>7. CASE Relay!SilenceHeard
  BY <1>7, <1>u, <1>m, <1>p, StopTears DEF Relay!SilenceHeard, Relay!Works, Relay!Silence
<1>8. CASE Relay!GivesUp
  BY <1>8, <1>u, <1>m, <1>p, StopTears DEF Relay!GivesUp, Relay!Works, Relay!GiveUp
<1> QED BY <1>1, <1>2, <1>3, <1>4, <1>5, <1>6, <1>7, <1>8 DEF Relay!Next, Relay!Voice

\* start and stop of nc-voice leave no recorder behind that nothing will end, for any
\* devices, commands and questions, as long as no two parts tear each other's steps.
THEOREM RecorderKept == Relay!Spec => []NoneLeftBehind
<1>1. Relay!VoiceAssumption
  BY VoiceAssumption DEF Relay!VoiceAssumption
<1>2. Relay!Init => RelayInv /\ RecorderInv
  BY <1>1, InitRelayInv, PartsSame DEF Relay!Init, Relay!RecorderInit, RecorderInv, At
<1>3. RelayInv /\ RecorderInv /\ [Relay!Next]_(Relay!vars) => RelayInv' /\ RecorderInv'
  BY <1>1, NextRelayInv, NextRecorderInv
<1>4. RecorderInv => NoneLeftBehind
  BY DEF RecorderInv, NoneLeftBehind
<1> QED BY <1>2, <1>3, <1>4, PTL DEF Relay!Spec
=============================================================================
