---------------------------- MODULE MCClipboard ----------------------------
EXTENDS Clipboard

CONSTANTS copied, typed, huge

\* The huge text has two pieces more than the limit.
MCPieces == [n \in {copied, typed, huge, "old"} |->
               IF n = huge THEN 4 ELSE IF n = copied THEN 2 ELSE 1]

\* Any three of: a copy, the two pastes, "clipnow", "clipget".
MCInit == Init /\ Cardinality(budget.todo) + budget.gets <= 3

MCSpec == MCInit /\ [][Next]_vars /\ Fairness
=============================================================================
