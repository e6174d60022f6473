------------------------------- MODULE MCWab --------------------------------
(***************************************************************************)
(* A small instance of Wab for TLC.                                        *)
(***************************************************************************)
EXTENDS WabInvariant

CONSTANTS d1, d2, b1, x1

\* The producers push any two of the records, and d1 before its equal d2.
\* Pushes are never owed, so this bounds what is asked of the shard and takes
\* nothing from its fairness.
TwoPushed ==
    LET Pushed == {r \in Records : status'[r] # "new"}
    IN  Cardinality(Pushed) <= 2 /\ (d2 \in Pushed => d1 \in Pushed)

MCNext == Next /\ TwoPushed

MCSpec == Init /\ [][MCNext]_vars /\ Progress
=============================================================================
