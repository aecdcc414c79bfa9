------------------------------ MODULE Recorder ------------------------------
(***************************************************************************)
(* nc-voice's recorder: start and stop of class Voice, without a lock and  *)
(* called by the parts of nc-voice (VoiceState), each in the steps others  *)
(* can come between, and the threads that hear and give up. What is said   *)
(* and answered is left out.                                               *)
(***************************************************************************)
EXTENDS VoiceState

micVars == <<isOn, once, rec, stray, hearing, timer, doing, dictated, torn>>

RecorderInit ==
  /\ isOn = FALSE /\ once = FALSE /\ rec = FALSE /\ stray = FALSE /\ hearing = FALSE
  /\ timer = FALSE /\ dictated = FALSE /\ torn = FALSE
  /\ doing = [p \in Parts |-> <<"idle", FALSE>>]

\* The process is killed, and its recorders with it.
RecorderDies ==
  /\ isOn' = FALSE /\ once' = FALSE /\ rec' = FALSE /\ stray' = FALSE /\ hearing' = FALSE
  /\ timer' = FALSE /\ dictated' = FALSE /\ torn' = FALSE
  /\ doing' = [p \in Parts |-> <<"idle", FALSE>>]

\* The code has no lock. Bound: until a stop has mended a tear, the parts do not come
\* between each other's steps a second time.
Idle(p)  == doing[p][1] = "idle"
Alone(p) == \A q \in Parts \ {p} : Idle(q)
OneTear(p) == torn => Alone(p)

Steps(p, step, o) == doing' = [doing EXCEPT ![p] = <<step, o>>]

\* start, as far as its check: nothing more happens if it listens already. It tears
\* what another part is in the middle of.
BeginStart(p, o) ==
  /\ Idle(p) /\ OneTear(p)
  /\ once' = o
  /\ IF isOn THEN UNCHANGED doing ELSE Steps(p, "set", o)
  /\ torn' = (torn \/ (~isOn /\ ~Alone(p)))
  /\ UNCHANGED <<isOn, rec, stray, hearing, timer>>

SetOn(p) ==
  /\ doing[p][1] = "set" /\ Steps(p, "run", doing[p][2])
  /\ isOn' = TRUE
  /\ UNCHANGED <<once, rec, stray, hearing, timer, dictated, torn>>

\* The recorder, its listener and, for one phrase, its give_up.
Run(p) ==
  /\ doing[p][1] = "run" /\ Steps(p, "idle", FALSE)
  /\ rec' = TRUE /\ stray' = (stray \/ rec)
  /\ hearing' = FALSE /\ timer' = doing[p][2]
  /\ UNCHANGED <<isOn, once, dictated, torn>>

\* stop, as far as it says that nothing listens. It tears a start.
BeginStop(p) ==
  /\ Idle(p) /\ OneTear(p)
  /\ isOn' = FALSE
  /\ IF isOn THEN Steps(p, "kill", FALSE) ELSE UNCHANGED doing
  /\ dictated' = FALSE /\ torn' = (torn \/ \E q \in Parts : doing[q][1] \in {"set", "run"})
  /\ UNCHANGED <<once, rec, stray>>

\* It ends the recorder that Voice.rec names by now, which mends a tear when no other
\* runs and none is being started.
Kill(p) ==
  /\ doing[p][1] = "kill" /\ Steps(p, "idle", FALSE)
  /\ rec' = FALSE
  /\ torn' = (torn /\ (isOn \/ stray \/ ~Alone(p)))
  /\ UNCHANGED <<isOn, once, stray, hearing, timer, dictated>>

\* ask: a question listens for one phrase. What the worker does may have been said
\* here or, with nobody connected, on a live stream.
Asks == BeginStart("worker", TRUE) /\ UNCHANGED dictated

\* start_dictation keeps listening; if it listens for more than one phrase already,
\* once is all that it sets, as start does.
Dictates == BeginStart("worker", FALSE) /\ dictated' = TRUE

\* A sound begins, and ends: a phrase, after which a listener for one phrase stops,
\* or a noise.
Heard ==
  /\ rec \/ stray
  /\ ~hearing /\ hearing' = TRUE
  /\ UNCHANGED <<isOn, once, rec, stray, timer, doing, dictated, torn>>

Silence ==
  /\ rec \/ stray
  /\ hearing /\ hearing' = FALSE
  /\ \/ once /\ BeginStop("listener") /\ UNCHANGED timer
     \/ UNCHANGED <<isOn, once, rec, stray, timer, doing, dictated, torn>>

\* give_up looks once.
GiveUp ==
  /\ timer /\ Idle("giveup") /\ timer' = FALSE
  /\ IF isOn /\ ~hearing THEN BeginStop("giveup") /\ UNCHANGED hearing
     ELSE UNCHANGED <<isOn, once, rec, stray, hearing, doing, dictated, torn>>
=============================================================================
