---------------------------- MODULE MCFileSend ----------------------------
EXTENDS FileSend

CONSTANTS first, second

\* The half of the first file and the second one add up to the first's size.
MCSize == [r \in {first, second} |-> IF r = first THEN 2 ELSE 1]

\* One device is connected, of either kind: sendings to different devices share
\* nothing but the request they end.
MCInit == Init /\ Cardinality(up) <= 1

MCSpec == MCInit /\ [][Next]_vars /\ Fairness
=============================================================================
