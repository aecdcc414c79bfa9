--------------------------- MODULE SharedEncoder ---------------------------
(***************************************************************************)
(* What cmd/nc-host/hub.go promises of the encoder its devices share: it   *)
(* is started when no other one runs and only for somebody who watches,    *)
(* and whoever wants another one stops it first. An encoder that has been  *)
(* stopped may drain for a while beside the next one. EncoderHub           *)
(* implements this.                                                        *)
(***************************************************************************)
CONSTANTS Devices, Encoders, None

VARIABLES
  watchers,  \* devices that are given the pictures
  live,      \* the encoder that can be stopped, or None
  running,   \* encoders that were not stopped
  draining   \* encoders that were stopped and have not ended

vars == <<watchers, live, running, draining>>

Init == watchers = {} /\ live = None /\ running = {} /\ draining = {}

Started ==
  \E e \in Encoders \ (running \cup draining) : live' = e /\ running' = running \cup {e}

\* A device that comes finds an encoder, or starts one.
Watch(d) ==
  /\ d \notin watchers /\ watchers' = watchers \cup {d}
  /\ IF live = None THEN Started ELSE UNCHANGED <<live, running>>
  /\ UNCHANGED draining

Unwatch(d) ==
  /\ d \in watchers /\ watchers' = watchers \ {d}
  /\ UNCHANGED <<live, running, draining>>

\* The last one left, or the screen has another size.
Stop ==
  /\ live # None /\ live' = None
  /\ running' = running \ {live} /\ draining' = draining \cup {live}
  /\ UNCHANGED watchers

\* The other size, for those who still watch.
Resume ==
  /\ live = None /\ watchers # {}
  /\ Started
  /\ UNCHANGED <<watchers, draining>>

End(e) ==
  /\ e \in draining /\ draining' = draining \ {e}
  /\ UNCHANGED <<watchers, live, running>>

Next ==
  \/ \E d \in Devices : Watch(d) \/ Unwatch(d)
  \/ Stop \/ Resume
  \/ \E e \in Encoders : End(e)

Spec == Init /\ [][Next]_vars
=============================================================================
