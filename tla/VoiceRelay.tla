---------------------------- MODULE VoiceRelay ----------------------------
(***************************************************************************)
(* Who listens: the button of the devices, the relay of                    *)
(* cmd/nc-host/voice.go with its queue, and the recorder of nc-voice,      *)
(* which has to let go of the microphone when the last device leaves.      *)
(***************************************************************************)
EXTENDS Recorder

sessionVars == <<conn, listed, at>>
relayVars   == <<sub, queue, offLost>>
lifeVars    == <<ending, voice, life>>
vars        == <<sessionVars, relayVars, lifeVars, micVars>>

Init ==
  /\ conn = [s \in Devices |-> "none"] /\ listed = {}
  /\ at = [h \in Handlers |-> "none"]
  /\ sub = 0 /\ queue = <<>> /\ ending = {} /\ voice = 0 /\ life = 0
  /\ offLost = FALSE /\ RecorderInit

---------------------------------------------------------------------------
(* The sessions of the devices. *)

\* The session a device had is over: it may come with a new one.
Ended(s) == \A h \in Handlers : h[1] = s => at[h] = "done"

Comes(s) ==
  /\ conn[s] = "none" \/ Ended(s)
  /\ conn' = [conn EXCEPT ![s] = "up"] /\ listed' = listed \cup {s}
  /\ at' = [h \in Handlers |-> IF h[1] = s THEN "none" ELSE at[h]]
  /\ UNCHANGED <<relayVars, lifeVars, micVars>>

Lost(s) ==
  /\ conn[s] = "up" /\ conn' = [conn EXCEPT ![s] = "lost"]
  /\ at' = [at EXCEPT ![<<s, "lost">>] = "close"]
  /\ UNCHANGED <<listed, relayVars, lifeVars, micVars>>

\* pc.Close starts the handler of the closed state.
PcCloses(h) ==
  LET s == h[1] IN
  /\ at[h] = "close" /\ conn' = [conn EXCEPT ![s] = "closed"]
  /\ at' = [g \in Handlers |-> IF g = h THEN "delete"
                               ELSE IF g = <<s, "closed">> /\ conn[s] = "lost" THEN "close"
                               ELSE at[g]]
  /\ UNCHANGED <<listed, relayVars, lifeVars, micVars>>

\* Whether anybody is left is seen under the lock and acted on after it.
Deletes(h) ==
  /\ at[h] = "delete" /\ listed' = listed \ {h[1]}
  /\ at' = [at EXCEPT ![h] = IF listed' = {} THEN "nobody" ELSE "done"]
  /\ UNCHANGED <<conn, relayVars, lifeVars, micVars>>

\* voiceRelay.command: without nc-voice the device is told so; when the queue is
\* full the command is dropped and nobody is told.
Command(c) ==
  /\ queue' = IF sub # 0 /\ Len(queue) < QueueCap THEN Append(queue, c) ELSE queue
  /\ offLost' = IF sub # 0 /\ c = "off" THEN Len(queue) >= QueueCap ELSE offLost
  /\ UNCHANGED sub

\* A device turns listening on or off; what it sent may be handled until its
\* connection is closed.
Pressed(s) ==
  /\ conn[s] \in {"up", "lost"} /\ \E c \in Commands : Command(c)
  /\ UNCHANGED <<sessionVars, lifeVars, micVars>>

\* Mutant of NobodyLeft: nothing is said to nc-voice.
NobodyLeftSilent(h) ==
  /\ at[h] = "nobody" /\ at' = [at EXCEPT ![h] = "done"]
  /\ UNCHANGED <<conn, listed, relayVars, lifeVars, micVars>>

\* No one to listen to.
NobodyLeft(h) ==
  /\ at[h] = "nobody" /\ at' = [at EXCEPT ![h] = "done"]
  /\ Command("off")
  /\ UNCHANGED <<conn, listed, lifeVars, micVars>>

---------------------------------------------------------------------------
(* nc-voice and its connection. *)

\* handleVoiceCommands: the newest connection replaces the one before.
Dials ==
  /\ voice = 0 /\ life < MaxLives
  /\ life' = life + 1 /\ voice' = life' /\ sub' = life' /\ queue' = <<>> /\ offLost' = FALSE
  /\ UNCHANGED <<sessionVars, ending, micVars>>

\* nc-voice is restarted; nc-host notices later.
Dies ==
  /\ voice # 0 /\ voice' = 0 /\ ending' = ending \cup {voice}
  /\ RecorderDies
  /\ UNCHANGED <<sessionVars, relayVars, life>>

\* Mutant of RelayEnds: it clears whatever connection there is.
RelayEndsUnchecked(v) ==
  /\ v \in ending /\ ending' = ending \ {v}
  /\ sub' = 0 /\ queue' = queue
  /\ UNCHANGED <<sessionVars, offLost, voice, life, micVars>>

RelayEnds(v) ==
  /\ v \in ending /\ ending' = ending \ {v}
  /\ sub' = IF sub = v THEN 0 ELSE sub
  /\ queue' = IF sub = v THEN <<>> ELSE queue
  /\ UNCHANGED <<sessionVars, offLost, voice, life, micVars>>

\* main takes the next command.
Obeys ==
  /\ voice # 0 /\ voice = sub /\ queue # <<>>
  /\ queue' = Tail(queue)
  /\ IF Head(queue) = "off" THEN BeginStop("main") /\ UNCHANGED <<hearing, timer>>
     ELSE BeginStart("main", Head(queue) = "once") /\ UNCHANGED dictated
  /\ UNCHANGED <<sessionVars, sub, offLost, lifeVars>>

\* The steps of nc-voice that need no one but itself; it hears who is connected.
Works(A) == voice # 0 /\ A /\ UNCHANGED <<sessionVars, relayVars, lifeVars>>

PartGoesOn(p) == Works(SetOn(p) \/ Run(p) \/ Kill(p))
WorkerListens == Works(Asks \/ Dictates)
DeviceHeard   == (\E s \in listed : conn[s] = "up") /\ Works(Heard)
SilenceHeard  == Works(Silence)
GivesUp       == Works(GiveUp)

---------------------------------------------------------------------------

Session(s) == Comes(s) \/ Lost(s) \/ Pressed(s)
Close(h)   == PcCloses(h) \/ Deletes(h) \/ NobodyLeft(h)
Voice      ==
  \/ Dials \/ Dies \/ Obeys
  \/ \E p \in Parts : PartGoesOn(p)
  \/ WorkerListens \/ DeviceHeard \/ SilenceHeard \/ GivesUp

Next ==
  \/ \E s \in Devices : Session(s)
  \/ \E h \in Handlers : Close(h)
  \/ \E v \in ending : RelayEnds(v)
  \/ Voice

\* Goroutines and threads run on.
Fairness ==
  /\ \A h \in Handlers : WF_vars(Close(h))
  /\ \A v \in 1..MaxLives : WF_vars(RelayEnds(v))
  /\ \A p \in Parts : WF_vars(PartGoesOn(p))
  /\ WF_vars(Obeys) /\ WF_vars(GivesUp) /\ WF_vars(SilenceHeard)

Spec == Init /\ [][Next]_vars /\ Fairness

---------------------------------------------------------------------------
(* Property. *)

\* closeSession turns voice off when there is "no one to listen to". Once every
\* session has ended nothing goes on listening, not even for the answer to a question
\* asked later, unless that "off" was dropped, a dictation began after it, or a start
\* and a stop of two threads came between each other's steps.
MicCloses ==
  <>[](listed = {}) => []<>(~(rec \/ stray) \/ offLost \/ dictated \/ torn)
=============================================================================
