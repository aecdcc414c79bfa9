------------------------------ MODULE Camera ------------------------------
(***************************************************************************)
(* cmd/nc-host/camera.go: the cameras of the connected devices and the one *)
(* webcam of the desk. Each session has a goroutine (playCamera) that      *)
(* waits for its camera to send and then runs an ffmpeg which writes to    *)
(* the webcam, until the frames stop, the session ends, or a newer camera  *)
(* takes the webcam over. A session runs one ffmpeg at a time, so the run  *)
(* with the newest id is named by its session.                             *)
(***************************************************************************)
EXTENDS Naturals

CONSTANTS
  Sessions,   \* sessions of devices, each with a camera track
  Playable    \* those whose codec ffmpeg is given

ASSUME CameraAssumption == Playable \subseteq Sessions /\ "none" \notin Sessions

VARIABLES
  on,         \* cameras that send frames
  over,       \* sessions that have ended
  st,         \* where each session's goroutine stands
  cancelled,  \* runs whose context is done
  ffmpeg,     \* sessions whose ffmpeg runs
  newest,     \* camOwner.id: the run that took the webcam last
  owner,      \* camOwner.cancel: the run the next one would cancel
  ousted,     \* history: cameras that lost the webcam and have not paused since
  early       \* history: those that had not started ffmpeg yet, or had ended already

devVars   == <<on, over>>
ownVars   == <<newest, owner>>
histVars  == <<ousted, early>>
vars      == <<devVars, st, cancelled, ffmpeg, ownVars, histVars>>

Init ==
  /\ on = {} /\ over = {}
  /\ st = [s \in Sessions |-> "wait"]
  /\ cancelled = {} /\ ffmpeg = {}
  /\ newest = "none" /\ owner = "none"
  /\ ousted = {} /\ early = {}

Go(s, from, to) == st[s] = from /\ st' = [st EXCEPT ![s] = to]
Running == {"taken", "write", "ending"}

---------------------------------------------------------------------------
(* The devices. *)

CameraOn(s) ==
  /\ s \notin on \cup over /\ on' = on \cup {s}
  /\ UNCHANGED <<over, st, cancelled, ffmpeg, ownVars, histVars>>

CameraOff(s) ==
  /\ s \in on /\ on' = on \ {s}
  /\ UNCHANGED <<over, st, cancelled, ffmpeg, ownVars, histVars>>

SessionEnds(s) ==
  /\ s \notin over /\ over' = over \cup {s}
  /\ on' = on \ {s}
  /\ UNCHANGED <<st, cancelled, ffmpeg, ownVars, histVars>>

---------------------------------------------------------------------------
(* playCamera and cameraRun. *)

\* camOwner.take with a new context: the run before is cancelled.
Takes(s, stopped, fresh) ==
  /\ s \in on /\ Go(s, "wait", "taken")
  /\ newest' = s /\ owner' = s
  /\ cancelled' = (cancelled \ fresh) \cup stopped
  /\ ousted' = (ousted \ (early \cap {s})) \cup stopped
  /\ early' = (early \ {s}) \cup {o \in stopped : st[o] \in {"taken", "failed", "return"}}
  /\ UNCHANGED <<devVars, ffmpeg>>

\* Mutants of Take: the run before goes on; one context serves all runs.
TakeSharing(s)  == Takes(s, {}, {s})
TakeOneContext(s) == Takes(s, {owner} \ {"none", s}, {})

\* The first frame.
Take(s) == Takes(s, {owner} \ {"none", s}, {s})

\* A context that is done starts no ffmpeg, and neither does an unknown codec.
StartFails(s) ==
  /\ s \in cancelled \cup over \cup (Sessions \ Playable)
  /\ Go(s, "taken", "failed")
  /\ UNCHANGED <<devVars, cancelled, ffmpeg, ownVars, histVars>>

\* Mutant of Start: any codec is given to ffmpeg.
StartAny(s) ==
  /\ s \notin cancelled \cup over
  /\ Go(s, "taken", "write")
  /\ ffmpeg' = ffmpeg \cup {s}
  /\ UNCHANGED <<devVars, cancelled, ownVars, histVars>>

Start(s) ==
  /\ s \in Playable \ (cancelled \cup over)
  /\ Go(s, "taken", "write")
  /\ ffmpeg' = ffmpeg \cup {s}
  /\ UNCHANGED <<devVars, cancelled, ownVars, histVars>>

\* Mutant of WriteEnds: frames that stop do not end the run.
WriteEndsCancelled(s) ==
  /\ s \notin ffmpeg \/ s \in cancelled \cup over
  /\ Go(s, "write", "ending")
  /\ cancelled' = cancelled \cup {s}
  /\ UNCHANGED <<devVars, ffmpeg, ownVars, histVars>>

\* The writing loop ends: ffmpeg is gone, the context is done, or no frame has
\* come for camIdle. The run is cancelled, ffmpeg's input closed.
WriteEnds(s) ==
  /\ s \notin ffmpeg \/ s \in cancelled \cup over \/ s \notin on
  /\ Go(s, "write", "ending")
  /\ cancelled' = cancelled \cup {s}
  /\ UNCHANGED <<devVars, ffmpeg, ownVars, histVars>>

\* ffmpeg ends when its context is done, or dies by itself.
FfmpegKilled(s) ==
  /\ s \in ffmpeg \cap (cancelled \cup over)
  /\ ffmpeg' = ffmpeg \ {s}
  /\ UNCHANGED <<devVars, st, cancelled, ownVars, histVars>>

FfmpegDies(s) ==
  /\ s \in ffmpeg
  /\ ffmpeg' = ffmpeg \ {s}
  /\ UNCHANGED <<devVars, st, cancelled, ownVars, histVars>>

\* Mutant of Ended: whether a newer camera took over is not looked at.
EndedHeedless(s) ==
  /\ s \notin ffmpeg /\ Go(s, "ending", "return")
  /\ UNCHANGED <<devVars, cancelled, ffmpeg, ownVars, histVars>>

\* <-done, and the reason: errPreempted when another run is the newest.
Ended(s) ==
  /\ s \notin ffmpeg
  /\ Go(s, "ending", IF s \notin over /\ newest # s THEN "preempted" ELSE "return")
  /\ UNCHANGED <<devVars, cancelled, ffmpeg, ownVars, histVars>>

\* The deferred release and cancel, and what playCamera does with the result.
Release(s) ==
  /\ owner' = IF newest = s THEN "none" ELSE owner
  /\ cancelled' = cancelled \cup {s}
  /\ \/ Go(s, "failed", IF s \in Playable THEN "sleep" ELSE "drain")
     \/ Go(s, "return", IF s \in over THEN "gone" ELSE "wait")
     \/ Go(s, "preempted", "ignored")
  /\ UNCHANGED <<devVars, ffmpeg, newest, histVars>>

\* A second after an error.
Slept(s) ==
  /\ Go(s, "sleep", IF s \in over THEN "gone" ELSE "wait")
  /\ UNCHANGED <<devVars, cancelled, ffmpeg, ownVars, histVars>>

\* No frame for camIdle: a camera that was preempted may start anew.
Paused(s) ==
  /\ s \notin on \cup over
  /\ st[s] \in {"wait", "ignored"}
  /\ st' = [st EXCEPT ![s] = "wait"]
  /\ ousted' = ousted \ {s} /\ early' = early \ {s}
  /\ UNCHANGED <<devVars, cancelled, ffmpeg, ownVars>>

\* The track ends with the session.
TrackEnds(s) ==
  /\ s \in over /\ st[s] \in {"wait", "ignored", "drain"}
  /\ st' = [st EXCEPT ![s] = "gone"]
  /\ UNCHANGED <<devVars, cancelled, ffmpeg, ownVars, histVars>>

Camera(s) ==
  \/ Take(s) \/ StartFails(s) \/ Start(s) \/ WriteEnds(s) \/ FfmpegKilled(s) \/ Ended(s)
  \/ Release(s) \/ Slept(s) \/ Paused(s) \/ TrackEnds(s)

Next ==
  \E s \in Sessions :
    Camera(s) \/ FfmpegDies(s) \/ CameraOn(s) \/ CameraOff(s) \/ SessionEnds(s)

\* Goroutines run and killed processes end; nobody has to use a camera.
Fairness == \A s \in Sessions : WF_vars(Camera(s)) /\ WF_vars(FfmpegKilled(s))

Spec == Init /\ [][Next]_vars /\ Fairness

---------------------------------------------------------------------------
(* Properties. *)

TypeOK ==
  /\ on \subseteq Sessions /\ over \subseteq Sessions /\ on \cap over = {}
  /\ st \in [Sessions -> Running \cup
       {"wait", "failed", "return", "preempted", "sleep", "ignored", "drain", "gone"}]
  /\ cancelled \subseteq Sessions /\ ffmpeg \subseteq Playable
  /\ newest \in Sessions \cup {"none"} /\ owner \in {"none", newest}
  /\ early \subseteq ousted /\ ousted \subseteq Sessions

\* Only one camera writes to the webcam, the newest, although the ffmpeg of the one
\* before may still have to end: the sessions and their ffmpegs implement Webcam.
Desk == INSTANCE Webcam WITH
  holder <- owner, writing <- ffmpeg, told <- ffmpeg \cap (cancelled \cup over)

OneWebcam == Desk!Spec

\* A camera that lost the webcam while it was writing does not take it back
\* before it has paused, or two devices would take it from each other for ever.
\* One that lost it before its ffmpeg started does: it has seen an error only.
NoTakingBack ==
  \A s \in Sessions : s \in ousted \ early => st[s] \notin Running \/ newest # s

\* A camera that goes on sending gets the webcam, unless it has lost it to
\* another one or its session ends.
CameraShown ==
  \A s \in Playable :
    (st[s] = "wait" /\ s \in on) ~> (s \in ffmpeg \/ s \notin on \/ s \in ousted)

\* The webcam is given back: with every camera off, no ffmpeg stays.
WebcamFreed == (<>[](on = {})) => <>[](ffmpeg = {} /\ owner = "none")
=============================================================================
