----------------------------- MODULE VoiceState -----------------------------
(***************************************************************************)
(* The relay of cmd/nc-host/voice.go and nc-voice's recorder: their state, *)
(* and where the relay has to go. VoiceRelay is what happens to them.      *)
(***************************************************************************)
EXTENDS Naturals, Sequences

CONSTANTS
  Devices,    \* devices, each with one session at a time
  QueueCap,   \* commands the relay holds (8 in the code)
  MaxLives    \* connections of nc-voice (bound)

ASSUME VoiceAssumption == {QueueCap, MaxLives} \subseteq Nat \ {0}

\* closeSession runs for the lost connection and again for the one it closed.
Handlers == Devices \X {"lost", "closed"}

\* The threads of nc-voice that turn listening on or off: main for the button, the
\* worker for a question or a dictation, a listener and give_up to end it.
Parts == {"main", "worker", "listener", "giveup"}

VARIABLES
  conn,      \* the peer connection of each session
  listed,    \* host.sessions
  at,        \* where each handler stands
  sub,       \* voiceRelay.sub: the connection of nc-voice it goes to, 0 for nil
  queue,     \* commands on their way to nc-voice
  ending,    \* connections whose handleVoiceCommands has not returned
  voice,     \* the connection nc-voice has, 0 for none
  life,      \* connections it has had
  isOn, once, \* Voice.on, Voice.once
  rec,       \* the recorder Voice.rec names runs
  stray,     \* one runs that Voice.rec no longer names
  hearing,   \* Voice.hearing
  timer,     \* the give_up of the recorder Voice.rec names has still to look
  doing,     \* where each part stands in start or stop, and start's once
  offLost,   \* history: the last "off" for nc-voice was dropped
  dictated,  \* history: a dictation began after the last stop
  torn       \* history: a start, or a stop of a start, came between another part's steps

---------------------------------------------------------------------------
(* Properties. *)

Commands == {"once", "open", "off"}

VoiceTypeOK ==
  /\ conn \in [Devices -> {"none", "up", "lost", "closed"}]
  /\ listed \subseteq Devices
  /\ at \in [Handlers -> {"none", "close", "delete", "nobody", "done"}]
  /\ {sub, voice, life} \subseteq 0..MaxLives /\ ending \subseteq 1..MaxLives
  /\ queue \in Seq(Commands) /\ Len(queue) <= QueueCap /\ (sub = 0 => queue = <<>>)
  /\ {isOn, once, rec, stray, hearing, timer, offLost, dictated, torn} \subseteq BOOLEAN
  /\ doing \in [Parts -> {"idle", "set", "run", "kill"} \X BOOLEAN]

\* While nc-voice is connected, the relay goes to it: the late end of a connection
\* before must not cut it off, which would leave the button without effect.
RelayReaches == VoiceTypeOK /\ (voice # 0 => sub = voice)
=============================================================================
