----------------------------- MODULE MCPresence -----------------------------
(* TLC instances of Presence. Liveness is checked: no symmetry. nc-host may *)
(* crash while exactly one session has begun, which keeps the number of     *)
(* states within reach; no fairness is asked of a crash.                    *)
EXTENDS Presence, FiniteSets

MCNext == Next /\ (crashes' > crashes => Cardinality({s \in Sessions : conn[s] # "none"}) = 1)

MCSpec == Init /\ [][MCNext]_vars /\ Fairness
=============================================================================
