---------------------------- MODULE EncoderHub ----------------------------
(***************************************************************************)
(* cmd/nc-host/hub.go: one capture and encoder shared by every connected   *)
(* device, together with the three kinds of goroutine that drive it:       *)
(*   - a session goroutine per device (main.go, the Connected handler):    *)
(*     read the display's size, join the hub, leave when the session ends; *)
(*   - a "display" handler per size request (main.go, display.go): apply   *)
(*     the request to the screen, then restart the encoder at its size;    *)
(*   - the encoder goroutine itself (capture.go, runOnce): assemble access *)
(*     units from ffmpeg's output and write them to the hub.               *)
(*                                                                         *)
(* Every critical section of hub.mu is one action: none of them waits.     *)
(* What happens between two critical sections is where the interleavings   *)
(* are: leave() decides that the hub is empty and stops the encoder later, *)
(* and stop() gives the encoder up before it has ended.                    *)
(***************************************************************************)
EXTENDS FiniteSets

CONSTANTS
  Devices,   \* session goroutines, one per device
  Displays,  \* goroutines that handle a "display" message
  Encoders,  \* slots for encoder goroutines (a slot is reused once its encoder ended)
  Sizes,     \* screen sizes a device may ask for
  Native,    \* the configured size (captureOpts of the command line)
  Gated,     \* hub.gated: TRUE for the screen, FALSE for the sound
  None,      \* no encoder, no picture, no request yet
  Cold,      \* a device that got its first keyframe without the parameter sets
  Broken     \* one that got a picture of a stream it does not follow, or a second such keyframe

ASSUME EncoderHubAssumption ==
  /\ Devices \cap Displays = {}
  /\ Gated \in BOOLEAN
  /\ Native \in Sizes /\ None \notin Sizes
  /\ None \notin Encoders /\ Cold \notin Encoders /\ Broken \notin Encoders
  /\ None # Cold /\ None # Broken /\ Cold # Broken

Threads    == Devices \cup Displays
Pictures   == {"first", "key", "delta"}
Keyframes  == {"first", "key"}

VARIABLES
  pc,        \* where each goroutine stands
  want,      \* the size a goroutine's captureOpts carry
  held,      \* the encoder whose end a goroutine in stop() waits for
  display,   \* displayControl.last (None: no request applied yet)
  subs,      \* hub.subs
  waiting,   \* hubSub.waiting
  cur,       \* hub.cancel and hub.done: the encoder the hub would stop
  nextKey,   \* hub.nextKey
  enc,       \* each encoder goroutine: off, on, cancelled or ended
  size,      \* the size each encoder runs at
  au,        \* the access unit each encoder has assembled and not yet written
  fresh,     \* no picture read from this ffmpeg yet (its first one is a keyframe)
  ahead,     \* the parameter sets of the next keyframe went with the picture before it
  follows,   \* history: the encoder whose pictures a device's decoder follows
  sets,      \* history: the encoder whose parameter sets it got
  overlap    \* history: some encoder was started before another one had ended

hubVars  == <<subs, waiting, cur, nextKey>>
encVars  == <<enc, size, au, fresh, ahead>>
goVars   == <<pc, want, held>>
seenVars == <<follows, sets>>
histVars == <<seenVars, overlap>>
vars     == <<goVars, display, hubVars, encVars, histVars>>

Init ==
  /\ pc = [t \in Threads |-> "idle"]
  /\ want = [t \in Threads |-> Native]
  /\ held = [t \in Threads |-> None]
  /\ display = None
  /\ subs = {}
  /\ waiting = [d \in Devices |-> FALSE]
  /\ cur = None
  /\ nextKey = FALSE
  /\ enc = [e \in Encoders |-> "off"]
  /\ size = [e \in Encoders |-> Native]
  /\ au = [e \in Encoders |-> "none"]
  /\ fresh = [e \in Encoders |-> FALSE]
  /\ ahead = [e \in Encoders |-> FALSE]
  /\ follows = [d \in Devices |-> None]
  /\ sets = [d \in Devices |-> None]
  /\ overlap = FALSE

Alive(e) == enc[e] \in {"on", "cancelled"}

Go(t, from, to) == pc[t] = from /\ pc' = [pc EXCEPT ![t] = to]

---------------------------------------------------------------------------
(* The hub's own operations. *)

\* startLocked: a new encoder goroutine becomes the hub's current one.
Start(e, s) ==
  /\ enc[e] = "off"
  /\ cur' = e
  /\ enc' = [enc EXCEPT ![e] = "on"]
  /\ size' = [size EXCEPT ![e] = s]
  /\ fresh' = [fresh EXCEPT ![e] = TRUE]
  /\ overlap' = (overlap \/ \E f \in Encoders : Alive(f))
  /\ UNCHANGED <<au, ahead>>

StartLocked(s) == \E e \in Encoders : Start(e, s)

NoStart == UNCHANGED <<cur, encVars, overlap>>

\* A track and a decoder that have seen nothing.
Anew(d) == follows' = [follows EXCEPT ![d] = None] /\ sets' = [sets EXCEPT ![d] = None]

\* Mutant of Join: the new subscriber is not held until a keyframe.
JoinUngated(d) ==
  /\ Go(d, "join", "in")
  /\ subs' = subs \cup {d}
  /\ Anew(d)
  /\ want' = [want EXCEPT ![d] = Native]
  /\ IF cur = None THEN StartLocked(want[d]) ELSE NoStart
  /\ UNCHANGED <<held, display, waiting, nextKey>>

\* join: subscribe, and start the encoder if the hub has none.
Join(d) ==
  /\ Go(d, "join", "in")
  /\ subs' = subs \cup {d}
  /\ waiting' = [waiting EXCEPT ![d] = Gated]
  /\ Anew(d)
  /\ want' = [want EXCEPT ![d] = Native]
  /\ IF cur = None THEN StartLocked(want[d]) ELSE NoStart
  /\ UNCHANGED <<held, display, nextKey>>

\* Mutant of Leave: the last device out does not stop the encoder.
LeaveRunning(d) ==
  /\ Go(d, "in", "idle")
  /\ subs' = subs \ {d}
  /\ waiting' = [waiting EXCEPT ![d] = FALSE]
  /\ Anew(d)
  /\ UNCHANGED <<want, held, display, cur, nextKey, encVars, overlap>>

\* leave: unsubscribe; the last one out goes on to stop the encoder, but only
\* after it has released the lock.
Leave(d) ==
  /\ Go(d, "in", IF subs \ {d} = {} THEN "stop" ELSE "idle")
  /\ subs' = subs \ {d}
  /\ waiting' = [waiting EXCEPT ![d] = FALSE]
  /\ Anew(d)
  /\ UNCHANGED <<want, held, display, cur, nextKey, encVars, overlap>>

\* Where a goroutine goes when its stop() returns.
AfterStop(t) == IF t \in Devices THEN "idle" ELSE "check"

\* Mutant of StopTake: the encoder is taken away but not cancelled.
StopTakeUncancelled(t) ==
  /\ Go(t, "stop", IF cur = None THEN AfterStop(t) ELSE "wait")
  /\ held' = [held EXCEPT ![t] = cur]
  /\ cur' = None
  /\ UNCHANGED <<want, display, subs, waiting, nextKey, encVars, histVars>>

\* stop, first half: take the current encoder away from the hub and cancel it.
StopTake(t) ==
  /\ Go(t, "stop", IF cur = None THEN AfterStop(t) ELSE "wait")
  /\ held' = [held EXCEPT ![t] = cur]
  /\ enc' = [e \in Encoders |-> IF e = cur THEN "cancelled" ELSE enc[e]]
  /\ cur' = None
  /\ UNCHANGED <<want, display, subs, waiting, nextKey, size, au, fresh, ahead, histVars>>

\* stop, second half: <-done. The encoder's goroutine is gone.
StopWait(t) ==
  /\ Go(t, "wait", AfterStop(t))
  /\ \E e \in Encoders :
       /\ held[t] = e
       /\ enc[e] = "ended"
       /\ enc' = [enc EXCEPT ![e] = "off"]
  /\ held' = [held EXCEPT ![t] = None]
  /\ UNCHANGED <<want, display, hubVars, size, au, fresh, ahead, histVars>>

\* restart, after its first stop(): replace an encoder that a device started
\* meanwhile, give up when nobody is left, else start one at the new size and
\* hold everyone until its first keyframe.
RestartAgain(r) ==
  /\ cur # None
  /\ Go(r, "check", "stop")
  /\ UNCHANGED <<want, held, display, hubVars, encVars, histVars>>

RestartNobody(r) ==
  /\ cur = None
  /\ subs = {}
  /\ Go(r, "check", "idle")
  /\ want' = [want EXCEPT ![r] = Native]
  /\ UNCHANGED <<held, display, hubVars, encVars, histVars>>

\* Mutant of RestartStart: no second look at the encoder before starting one.
RestartUnchecked(r) ==
  /\ subs # {}
  /\ Go(r, "check", "idle")
  /\ waiting' = [d \in Devices |-> IF d \in subs THEN Gated ELSE waiting[d]]
  /\ StartLocked(want[r])
  /\ want' = [want EXCEPT ![r] = Native]
  /\ UNCHANGED <<held, display, subs, nextKey, seenVars>>

RestartStart(r) ==
  /\ cur = None
  /\ subs # {}
  /\ Go(r, "check", "idle")
  /\ waiting' = [d \in Devices |-> IF d \in subs THEN Gated ELSE waiting[d]]
  /\ StartLocked(want[r])
  /\ want' = [want EXCEPT ![r] = Native]
  /\ UNCHANGED <<held, display, subs, nextKey, seenVars>>

---------------------------------------------------------------------------
(* The goroutines that use the hub. *)

\* Mutant of ScreenSize: the "last.W > 0" check is dropped.
ScreenSizeUnset == display

\* The size the display variable stands for: main.go takes the configured
\* options until a request has been applied.
ScreenSize == IF display = None THEN Native ELSE display

\* A session reaches the Connected state: its goroutine reads the display's
\* size for its captureOpts, and joins in a later step.
Connected(d) ==
  /\ Go(d, "idle", "join")
  /\ want' = [want EXCEPT ![d] = ScreenSize]
  /\ UNCHANGED <<held, display, hubVars, encVars, histVars>>

\* A "display" message asks for a new size. A repeat of the current size, and a
\* size nc-display refuses, change nothing and reach no restart.
Request(r, s) ==
  /\ s # display
  /\ Go(r, "idle", "stop")
  /\ display' = s
  /\ want' = [want EXCEPT ![r] = s]
  /\ UNCHANGED <<held, hubVars, encVars, histVars>>

---------------------------------------------------------------------------
(* The encoder goroutine: streamVideo and runOnce. *)

\* The first slice of a picture, the access unit before it having been
\* written: a keyframe is announced to the hub before it is written. ffmpeg's
\* first picture is a keyframe with its parameter sets before it in the same
\* access unit; every later keyframe's came with the picture before.
Picture(e, k) ==
  /\ Alive(e)
  /\ au[e] = "none"
  /\ IF fresh[e] THEN k = "first" ELSE k = IF ahead[e] THEN "key" ELSE "delta"
  /\ au' = [au EXCEPT ![e] = k]
  /\ fresh' = [fresh EXCEPT ![e] = FALSE]
  /\ ahead' = [ahead EXCEPT ![e] = FALSE]
  /\ nextKey' = (nextKey \/ k \in Keyframes)
  /\ UNCHANGED <<goVars, display, subs, waiting, cur, enc, size, histVars>>

\* A further slice of the same keyframe announces it again.
Slice(e) ==
  /\ Alive(e)
  /\ au[e] \in Keyframes
  /\ nextKey' = TRUE
  /\ UNCHANGED <<goVars, display, subs, waiting, cur, encVars, histVars>>

\* The devices WriteSample gives the sample to.
Receivers == {d \in subs : ~waiting[d] \/ nextKey}

\* What the decoder of device d makes of a picture of encoder e: it cannot start at
\* a keyframe whose parameter sets it was not given.
Decode(e, k, d) ==
  CASE k = "first" \/ (k = "key" /\ sets[d] = e)           -> e
    [] k = "key" /\ sets[d] # e /\ follows[d] # Cold       -> Cold
    [] k = "delta" /\ follows[d] \in {e, Cold}             -> follows[d]
    [] OTHER                                               -> Broken

\* flush: hub.WriteSample with the access unit assembled so far, and the parameter sets
\* of the next keyframe (params) if that comes next: not being slices, they end no
\* access unit.
Write(e, params) ==
  /\ Alive(e)
  /\ au[e] # "none"
  /\ waiting' = [d \in Devices |-> waiting[d] /\ d \notin Receivers]
  /\ follows' = [d \in Devices |->
                   IF d \in Receivers THEN Decode(e, au[e], d) ELSE follows[d]]
  /\ sets' = [d \in Devices |->
                IF d \in Receivers /\ (au[e] = "first" \/ params) THEN e ELSE sets[d]]
  /\ nextKey' = FALSE
  /\ au' = [au EXCEPT ![e] = "none"]
  /\ ahead' = [ahead EXCEPT ![e] = params]
  /\ UNCHANGED <<goVars, display, subs, cur, enc, size, fresh, overlap>>

\* ffmpeg dies on its own: streamVideo starts another one a second later.
FfmpegDies(e) ==
  /\ enc[e] = "on"
  /\ au[e] = "none"
  /\ fresh' = [fresh EXCEPT ![e] = TRUE]
  /\ ahead' = [ahead EXCEPT ![e] = FALSE]
  /\ UNCHANGED <<goVars, display, hubVars, enc, size, au, histVars>>

\* A cancelled encoder has written what was left and ends: close(done).
Finish(e) ==
  /\ enc[e] = "cancelled"
  /\ au[e] = "none"
  /\ enc' = [enc EXCEPT ![e] = "ended"]
  /\ size' = [size EXCEPT ![e] = Native]
  /\ fresh' = [fresh EXCEPT ![e] = FALSE]
  /\ ahead' = [ahead EXCEPT ![e] = FALSE]
  /\ UNCHANGED <<goVars, display, hubVars, au, histVars>>

---------------------------------------------------------------------------
Session(d) == Connected(d) \/ Join(d) \/ Leave(d)

Restarter(r) ==
  \/ \E s \in Sizes : Request(r, s)
  \/ RestartAgain(r)
  \/ RestartNobody(r)
  \/ RestartStart(r)

Stopper(t) == StopTake(t) \/ StopWait(t)

Encoder(e) ==
  \/ \E k \in Pictures : Picture(e, k)
  \/ Slice(e)
  \/ \E params \in BOOLEAN : Write(e, params)
  \/ FfmpegDies(e)
  \/ Finish(e)

Next ==
  \/ \E d \in Devices : Session(d)
  \/ \E r \in Displays : Restarter(r)
  \/ \E t \in Threads : Stopper(t)
  \/ \E e \in Encoders : Encoder(e)

Spec == Init /\ [][Next]_vars

\* A goroutine inside leave() or stop() is scheduled; an encoder writes what it
\* has, and a killed ffmpeg leaves a finite amount of output in its pipe, so a
\* cancelled encoder that keeps being able to end does end. Devices need not
\* connect or leave, and nobody needs to ask for a size.
Fairness ==
  /\ \A t \in Threads : WF_vars(Stopper(t))
  /\ \A e \in Encoders : WF_vars(\E params \in BOOLEAN : Write(e, params)) /\ SF_vars(Finish(e))

FairSpec == Spec /\ Fairness

---------------------------------------------------------------------------
(* Properties. *)

TypeOK ==
  /\ pc \in [Threads -> {"idle", "join", "in", "stop", "wait", "check"}]
  /\ want \in [Threads -> Sizes]
  /\ held \in [Threads -> Encoders \cup {None}]
  /\ display \in Sizes \cup {None}
  /\ subs \in SUBSET Devices
  /\ waiting \in [Devices -> BOOLEAN]
  /\ cur \in Encoders \cup {None}
  /\ nextKey \in BOOLEAN
  /\ enc \in [Encoders -> {"off", "on", "cancelled", "ended"}]
  /\ size \in [Encoders -> Sizes]
  /\ au \in [Encoders -> Pictures \cup {"none"}]
  /\ fresh \in [Encoders -> BOOLEAN]
  /\ ahead \in [Encoders -> BOOLEAN]
  /\ sets \in [Devices -> Encoders \cup {None}]
  /\ follows \in [Devices -> Encoders \cup {None, Cold, Broken}]
  /\ overlap \in BOOLEAN

\* No encoder is lost: the encoder that runs uncancelled is the one the hub
\* would stop, however joins, leaves and restarts interleave.
NoLostEncoder == \A e \in Encoders : enc[e] = "on" => cur = e

\* "The encoder stops when the last device leaves": while nobody is subscribed,
\* every encoder that has not ended is being stopped by some goroutine.
StopsWhenEmpty ==
  subs = {} =>
    \A e \in Encoders : Alive(e) =>
      \E t \in Threads : held[t] = e \/ (cur = e /\ pc[t] = "stop")

\* A pending keyframe mark belongs to a keyframe some encoder is about to write.
KeyMarkHasOwner == nextKey => \E e \in Encoders : Alive(e) /\ au[e] \in Keyframes

\* hub.go: "a device that joins mid-stream starts at the next keyframe". As long as no
\* two encoders ever ran at once, whatever a device got began with a keyframe, of the
\* new encoder after a restart, and went on from there. But it could not decode that
\* keyframe if it joined mid-stream, its parameter sets having gone with a picture it
\* was not given: the second one it got, at the latest, it could.
StartsAtKeyUnlessOverlap ==
  Gated /\ ~overlap => \A d \in Devices : follows[d] # Broken

\* The encoders that stand so.
In(state) == {e \in Encoders : enc[e] = state}

\* One encoder for everybody: it is never replaced while it runs, never given up
\* without being cancelled, and never started for nobody, although stop() waits
\* outside the lock: joins, leaves and restarts implement SharedEncoder.
Shared == INSTANCE SharedEncoder WITH
  watchers <- subs, live <- cur, running <- In("on"), draining <- In("cancelled")

OneEncoder == Shared!Spec

\* A device that leaves gets out of leave(), whatever the encoder is doing.
LeaveReturns ==
  \A d \in Devices : (pc[d] \in {"stop", "wait"}) ~> (pc[d] = "idle")
=============================================================================
