--------------------------- MODULE DurableBuffer ----------------------------
(***************************************************************************)
(* What the write-ahead buffer promises a producer, without segments,      *)
(* threads or file names.  Every record has an answer (told) and a place.  *)
(* A place only ever gets safer:                                           *)
(*                                                                         *)
(*   nowhere -> volatile -> stable -> done                                 *)
(*                                                                         *)
(* with one exception: a power loss may take a volatile record away.  An   *)
(* ack is given once and only from a place that keeps its promise: stable  *)
(* for the Durable tier, anywhere in the buffer for the Buffered one.      *)
(***************************************************************************)
EXTENDS Naturals

CONSTANTS Records, DurableTier

VARIABLES told, place

Answers == {"new", "queued", "acked", "nacked", "unknown"}
Places == {"nowhere", "volatile", "stable", "done"}

Rank(p) == CASE p = "nowhere" -> 0 [] p = "volatile" -> 1
             [] p = "stable" -> 2 [] p = "done" -> 3

Init ==
    /\ told = [r \in Records |-> "new"]
    /\ place = [r \in Records |-> "nowhere"]

\* A producer is answered once.  A shard that is offline nacks at once.
Answered(r) ==
    \/ told'[r] = told[r]
    \/ told[r] = "new" /\ told'[r] \in {"queued", "nacked"}
    \/ told[r] = "queued" /\ told'[r] \in {"acked", "nacked", "unknown"}

\* The place an ack of r may be given from.
Promise(r) == IF r \in DurableTier THEN "stable" ELSE "volatile"

AckedFrom(r) ==
    told[r] # "acked" /\ told'[r] = "acked" => Rank(place'[r]) >= Rank(Promise(r))

\* Only a record whose push is being served enters the buffer.
Enters(r) == place[r] = "nowhere" /\ place'[r] # "nowhere" => told[r] = "queued"

\* A step of the running daemon, its crash and its recovery included.
Step ==
    /\ told' \in [Records -> Answers] /\ place' \in [Records -> Places]
    /\ \A r \in Records :
         Answered(r) /\ AckedFrom(r) /\ Enters(r) /\ Rank(place'[r]) >= Rank(place[r])

\* A power loss: no ack is given, and what was stable stays.
PowerLoss ==
    /\ told' \in [Records -> Answers] /\ place' \in [Records -> Places]
    /\ \A r \in Records :
         /\ told'[r] = IF told[r] = "queued" THEN "unknown" ELSE told[r]
         /\ place[r] # "volatile" => place'[r] = place[r]
         /\ place'[r] # "done" \/ place[r] = "done"

Next == Step \/ PowerLoss

Spec == Init /\ [][Next]_<<told, place>>
=============================================================================
