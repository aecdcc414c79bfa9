------------------------------ MODULE IdleFile ------------------------------
(***************************************************************************)
(* What the idle file has to say of the desk, with the state it is said    *)
(* of. Presence is how cmd/nc-host/main.go keeps it and who acts on it.    *)
(***************************************************************************)
EXTENDS Naturals

CONSTANTS
  Sessions,   \* sessions, each of one peer connection
  Limit,      \* minutes of idleness after which the controller acts
  MaxCrashes  \* crashes of nc-host (bound)

ASSUME PresenceAssumption == Limit \in Nat \ {0} /\ MaxCrashes \in Nat

\* pion runs every handler of a state change in a goroutine of its own; closing
\* the connection is a state change too.
Handlers == Sessions \X {"connected", "lost", "closed"}

VARIABLES
  conn,       \* the peer connection of each session
  listed,     \* host.sessions
  at,         \* where each handler stands
  idleSince,  \* host.idleSince
  line,       \* the line a handler is about to write
  file,       \* the idle file
  booting,    \* nc-host has started and not yet written the file
  crashes,
  verdict,    \* the controller: "stay", "doomed" once it has read, "down"
  lonely,     \* history: time since writeIdle knew somebody to be connected
  newer,      \* history: handlers whose line was composed before another's
  overtaken   \* history: the file was last written with such a line

---------------------------------------------------------------------------
(* Properties. *)

\* The sessions that are connected.
Up == {s \in listed : conn[s] = "up"}

Lines == {l \in [busy : BOOLEAN, age : 0..Limit] : l.busy => l.age = 0}

PresenceTypeOK ==
  /\ conn \in [Sessions -> {"none", "new", "up", "lost", "closed"}]
  /\ listed \subseteq Sessions
  /\ at \in [Handlers -> {"none", "close", "look", "write", "done"}]
  /\ idleSince \in Lines /\ file \in Lines /\ line \in [Handlers -> Lines]
  /\ booting \in BOOLEAN /\ overtaken \in BOOLEAN
  /\ crashes \in 0..MaxCrashes /\ lonely \in 0..Limit
  /\ verdict \in {"stay", "doomed", "down"}
  /\ newer \subseteq Handlers

\* No handler has yet to write what it has seen.
Settled == ~booting /\ \A h \in Handlers : at[h] \in {"none", "done"}

\* main.go on writeIdle: it "records whether anyone is connected, and since when
\* nobody is". What the file says when nothing is under way is true, and never
\* claims a longer idleness than there was, through crashes and sessions that
\* come and go, unless its last line was overtaken on its way.
IdleTold ==
  Settled /\ ~overtaken =>
    /\ file.busy = (Up # {})
    /\ ~file.busy => file.age <= lonely
=============================================================================
