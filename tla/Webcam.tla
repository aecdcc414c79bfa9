------------------------------ MODULE Webcam ------------------------------
(***************************************************************************)
(* What cmd/nc-host/camera.go promises of the desk's one webcam: it has at *)
(* most one holder, only the holder starts to write to it, and one who     *)
(* loses it while writing is told to stop. Camera implements this.         *)
(***************************************************************************)
CONSTANT Sessions

VARIABLES
  holder,   \* the session that has the webcam, or "none"
  writing,  \* sessions that write to it
  told      \* of those, the ones that have been told to stop

vars == <<holder, writing, told>>

Init == holder = "none" /\ writing = {} /\ told = {}

\* The newest camera gets the webcam.
Claim(s) ==
  /\ s \notin writing
  /\ holder' = s /\ told' = told \cup (writing \cap {holder}) /\ UNCHANGED writing

Open(s) ==
  /\ s = holder /\ s \notin writing
  /\ writing' = writing \cup {s} /\ UNCHANGED <<holder, told>>

\* Its session ends, or its frames stop.
Tell(s) == s \in writing /\ told' = told \cup {s} /\ UNCHANGED <<holder, writing>>

\* A writer ends, told or not.
Close(s) ==
  /\ s \in writing
  /\ writing' = writing \ {s} /\ told' = told \ {s} /\ UNCHANGED holder

\* Who does not write any longer may give the webcam back.
GiveBack == holder \notin writing /\ holder' = "none" /\ UNCHANGED <<writing, told>>

Next == GiveBack \/ \E s \in Sessions : Claim(s) \/ Open(s) \/ Tell(s) \/ Close(s)

Spec == Init /\ [][Next]_vars

\* Whoever writes without having been told to stop is the holder.
OneWriter == \A s \in writing \ told : s = holder
=============================================================================
