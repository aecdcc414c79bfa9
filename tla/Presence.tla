----------------------------- MODULE Presence -----------------------------
(***************************************************************************)
(* Who is at the desk: the sessions of cmd/nc-host/main.go, the idle file  *)
(* they keep (writeIdle), and the controller that stops a computer nobody  *)
(* uses (infra/droplet.sh autostop).                                       *)
(*                                                                         *)
(* Times are ages that stop at Limit, so the model needs no clock.         *)
(***************************************************************************)
EXTENDS IdleFile

\* idleSince and the line of the file. Busy is the zero time.
Busy == [busy |-> TRUE, age |-> 0]
Idle == [busy |-> FALSE, age |-> 0]

hostVars == <<booting, crashes>>
vars == <<conn, listed, at, idleSince, line, file, hostVars, verdict, lonely, newer, overtaken>>

Init ==
  /\ conn = [s \in Sessions |-> "none"] /\ listed = {}
  /\ at = [h \in Handlers |-> "none"]
  /\ idleSince = Idle /\ line = [h \in Handlers |-> Idle] /\ file = Idle
  /\ booting = FALSE /\ crashes = 0
  /\ verdict = "stay" /\ lonely = 0
  /\ newer = {} /\ overtaken = FALSE

Running == ~booting /\ verdict # "down"

---------------------------------------------------------------------------
(* Sessions. *)

\* handleOffer lists the session before it is connected.
Offered(s) ==
  /\ Running /\ conn[s] = "none"
  /\ conn' = [conn EXCEPT ![s] = "new"] /\ listed' = listed \cup {s}
  /\ UNCHANGED <<at, idleSince, line, file, hostVars, verdict, lonely, newer, overtaken>>

\* Mutant of Connected: nothing is written when a device comes.
ConnectedSilent(s) ==
  /\ Running /\ conn[s] = "new"
  /\ conn' = [conn EXCEPT ![s] = "up"] /\ at' = [at EXCEPT ![<<s, "connected">>] = "done"]
  /\ UNCHANGED <<listed, idleSince, line, file, hostVars, verdict, lonely, newer, overtaken>>

Connected(s) ==
  /\ Running /\ conn[s] = "new"
  /\ conn' = [conn EXCEPT ![s] = "up"] /\ at' = [at EXCEPT ![<<s, "connected">>] = "look"]
  /\ UNCHANGED <<listed, idleSince, line, file, hostVars, verdict, lonely, newer, overtaken>>

\* Disconnected or failed; an offer that cannot be answered ends so too.
Lost(s) ==
  /\ Running /\ conn[s] \in {"new", "up"}
  /\ conn' = [conn EXCEPT ![s] = "lost"] /\ at' = [at EXCEPT ![<<s, "lost">>] = "close"]
  /\ UNCHANGED <<listed, idleSince, line, file, hostVars, verdict, lonely, newer, overtaken>>

\* Mutant of CloseSession: nothing is written when a device goes.
CloseSessionSilent(h) ==
  LET s == h[1] IN
  /\ Running /\ at[h] = "close"
  /\ conn' = [conn EXCEPT ![s] = "closed"] /\ listed' = listed \ {s}
  /\ at' = [at EXCEPT ![h] = "done"]
  /\ UNCHANGED <<idleSince, line, file, hostVars, verdict, lonely, newer, overtaken>>

\* closeSession: the first to close the connection starts the handler of the
\* closed state, which closes the session again. (What is said to nc-voice when
\* nobody is left is in VoiceRelay.)
CloseSession(h) ==
  LET s == h[1] IN
  /\ Running /\ at[h] = "close"
  /\ conn' = [conn EXCEPT ![s] = "closed"] /\ listed' = listed \ {s}
  /\ at' = [g \in Handlers |-> IF g = h THEN "look"
                               ELSE IF g = <<s, "closed">> /\ conn[s] # "closed" THEN "close"
                               ELSE at[g]]
  /\ UNCHANGED <<idleSince, line, file, hostVars, verdict, lonely, newer, overtaken>>

---------------------------------------------------------------------------
(* The idle file. *)

\* Mutant of IdleNow: the zero time is not told from another.
IdleNowKept == IF Up # {} THEN [idleSince EXCEPT !.busy = TRUE] ELSE [idleSince EXCEPT !.busy = FALSE]

IdleNow == IF Up # {} THEN Busy ELSE IF idleSince.busy THEN Idle ELSE idleSince

\* writeIdle composes its line under the lock.
Look(h) ==
  /\ Running /\ at[h] = "look" /\ at' = [at EXCEPT ![h] = "write"]
  /\ idleSince' = IdleNow /\ line' = [line EXCEPT ![h] = IdleNow]
  /\ newer' = {g \in Handlers : at[g] = "write"}
  /\ lonely' = IF Up # {} THEN 0 ELSE lonely
  /\ UNCHANGED <<conn, listed, file, hostVars, verdict, overtaken>>

\* And writes the file after it. A file that is emptied and not yet written tells
\* the controller nothing.
Write(h) ==
  /\ Running /\ at[h] = "write" /\ at' = [at EXCEPT ![h] = "done"]
  /\ file' = line[h] /\ line' = [line EXCEPT ![h] = Idle]
  /\ overtaken' = (h \in newer) /\ newer' = newer \ {h}
  /\ UNCHANGED <<conn, listed, idleSince, hostVars, verdict, lonely>>

\* nc-host dies: its sessions end, the file stays as it is.
Crash ==
  /\ Running /\ crashes < MaxCrashes /\ crashes' = crashes + 1
  /\ conn' = [s \in Sessions |-> IF conn[s] = "none" THEN "none" ELSE "closed"]
  /\ listed' = {} /\ at' = [h \in Handlers |-> IF conn[h[1]] = "none" THEN "none" ELSE "done"]
  /\ idleSince' = Idle /\ line' = [h \in Handlers |-> Idle] /\ newer' = {}
  /\ booting' = TRUE
  /\ UNCHANGED <<file, overtaken, verdict, lonely>>

\* main writes the file before any session can come.
Boots ==
  /\ booting /\ verdict # "down" /\ booting' = FALSE
  /\ file' = idleSince /\ overtaken' = FALSE
  /\ UNCHANGED <<conn, listed, at, idleSince, line, crashes, verdict, lonely, newer>>

\* The controller reads the file; when the desk has been idle for long enough,
\* it runs 'down', whatever happens meanwhile.
Check ==
  /\ verdict = "stay" /\ ~file.busy /\ file.age >= Limit
  /\ verdict' = "doomed"
  /\ UNCHANGED <<conn, listed, at, idleSince, line, file, hostVars, lonely, newer, overtaken>>

Down ==
  /\ verdict = "doomed" /\ verdict' = "down"
  /\ UNCHANGED <<conn, listed, at, idleSince, line, file, hostVars, lonely, newer, overtaken>>

Older(l) == IF l.busy \/ l.age = Limit THEN l ELSE [l EXCEPT !.age = @ + 1]

Known == \E s \in Up : at[<<s, "connected">>] \in {"write", "done"}

Tick ==
  /\ verdict # "down"
  /\ idleSince' = Older(idleSince) /\ file' = Older(file)
  /\ line' = [h \in Handlers |-> IF at[h] = "write" THEN Older(line[h]) ELSE line[h]]
  /\ lonely' = IF Known THEN 0 ELSE IF lonely = Limit THEN Limit ELSE lonely + 1
  /\ UNCHANGED <<conn, listed, at, hostVars, verdict, newer, overtaken>>

---------------------------------------------------------------------------

Device(s) == Offered(s) \/ Connected(s) \/ Lost(s)
Handle(h) == CloseSession(h) \/ Look(h) \/ Write(h)

Next ==
  \/ \E s \in Sessions : Device(s)
  \/ \E h \in Handlers : Handle(h)
  \/ Crash \/ Boots \/ Check \/ Down \/ Tick

\* Goroutines run on, systemd starts nc-host again, the controller looks again and
\* again, time passes.
Fairness ==
  /\ \A h \in Handlers : WF_vars(Handle(h))
  /\ WF_vars(Boots) /\ WF_vars(Check) /\ WF_vars(Down) /\ WF_vars(Tick)

Spec == Init /\ [][Next]_vars /\ Fairness

---------------------------------------------------------------------------
(* Property. *)

\* A desk that everybody has left for good is stopped in the end, unless the file
\* was left with an overtaken line.
EmptyDeskStops ==
  <>[](Up = {}) => <>(verdict = "down") \/ <>[]overtaken
=============================================================================
