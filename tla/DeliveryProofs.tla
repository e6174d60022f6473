--------------------------- MODULE DeliveryProofs ---------------------------
(***************************************************************************)
(* The drain, for every number and length of segments, every sub-batch     *)
(* size, every cap and every number of faults, pauses and panics: cursors  *)
(* and carries never run ahead of what is handled, a confirmed segment is  *)
(* handled whole, and nothing is handled twice without an excuse.          *)
(*                                                                         *)
(* The argument is about one segment at a time (SegmentOk): its records    *)
(* up to the drain's position in it are handled; those of the sub-batch    *)
(* its carry stands for are applied or among the rejects; and what lies    *)
(* beyond both and is handled all the same is excused already.             *)
(***************************************************************************)
EXTENDS Delivery, TLAPS, SequenceTheorems, FiniteSetTheorems

(***************************************************************************)
(* The inductive invariant.                                                *)
(***************************************************************************)
\* The types the induction needs.
Queues == chan \in Seq(Segs) /\ pending \in Seq(Segs) /\ backlog \in Seq(Segs)

Ledger ==
    /\ file \in [Segs -> {"absent", "sealed", "gone", "quarantine"}]
    /\ cursor \in [Segs -> Positions]
    /\ carry \in [Segs -> [through : Positions, rejects : SUBSET AllRecs]]
    /\ owned \in [Segs -> {"none", "Confirm", "Quarantine", "Parked"}]

Hand ==
    /\ seg \in {0} \cup Segs
    /\ through \in Positions /\ readable \in Positions

\* The arms with a segment in hand, and those among them between two attempts,
\* where the ledger has the position.
Holding == {"begin", "open", "read", "commit", "retry", "backoff", "blocked", "held"}
Between == {"begin", "retry", "backoff", "blocked", "held"}

HandInv ==
    /\ seg # 0 <=> arm \in Holding
    /\ seg # 0 => owned[seg] = "none" /\ cursor[seg] <= through
    /\ arm \in Between => cursor[seg] = through
    /\ arm \in {"open", "read", "commit"} => carry[seg] = NoCarry
    /\ arm \in {"read", "commit"} => file[seg] = "sealed"
    /\ arm = "commit" => through < readable

\* How far the drain is in c.
Position(c) == IF c = seg THEN through ELSE cursor[c]

RecordOk(c, i) ==
    /\ i <= Position(c) => <<c, i>> \in Handled
    /\ i <= cursor[c] => <<c, i>> \in Handled
    /\ cursor[c] < i /\ i <= carry[c].through => <<c, i>> \in applied \cup carry[c].rejects
    /\ <<c, i>> \in carry[c].rejects => i <= carry[c].through
    /\ <<c, i>> \in carry[c].rejects \cap Handled => <<c, i>> \in ambiguous
    /\ /\ file[c] = "sealed" /\ owned[c] = "none" /\ <<c, i>> \in Handled
       /\ Position(c) < i /\ carry[c].through < i
       => <<c, i>> \in ambiguous
    /\ file[c] = "absent" => <<c, i>> \notin Handled
    /\ file[c] = "gone" \/ owned[c] = "Confirm" => <<c, i>> \in Handled
    /\ <<c, i>> \in twice => <<c, i>> \in ambiguous

SegmentOk(c) ==
    /\ carry[c].rejects \subseteq Recs(c)
    /\ file[c] = "absent" => carry[c] = NoCarry
    /\ \A i \in 1..SegLen : RecordOk(c, i)

DeliveryInv ==
    /\ Queues /\ Ledger /\ Hand /\ HandInv
    /\ twice \subseteq AllRecs
    /\ \A c \in Segs : SegmentOk(c)

(***************************************************************************)
(* Records, slices and queues.                                             *)
(***************************************************************************)
\* A record is in the slices of its own segment that reach over its index.
LEMMA SliceRecords ==
    ASSUME NEW c, NEW d, NEW a \in Int, NEW b \in Int, NEW i \in Int
    PROVE  <<d, i>> \in Slice(c, a, b) <=> d = c /\ a < i /\ i <= b
BY DEF Slice

\* What is in a slice is a record.
LEMMA SliceIsRecords ==
    ASSUME NEW c \in Segs, NEW a \in Positions, NEW b \in Positions
    PROVE  /\ Slice(c, a, b) \subseteq Recs(c) /\ Slice(c, a, b) \subseteq AllRecs
           /\ \A x \in Slice(c, a, b) : \E i \in 1..SegLen : x = <<c, i>> /\ a < i /\ i <= b
<1>1. SegLen \in Nat
  BY LedgerAssumption
<1>2. ASSUME NEW x \in Slice(c, a, b)
      PROVE  \E i \in 1..SegLen : x = <<c, i>> /\ a < i /\ i <= b
  <2>1. PICK i \in (a + 1)..b : x = <<c, i>>
    BY DEF Slice
  <2> QED BY <1>1, <2>1 DEF Positions
<1>3. Slice(c, a, b) \subseteq Recs(c)
  BY <1>2 DEF Recs
<1> QED BY <1>2, <1>3 DEF AllRecs

\* Every rank below the size of a finite set of numbers is taken, and ranks
\* are ordered as the numbers are.
LEMMA Ranks ==
    ASSUME NEW S \in SUBSET Nat, IsFiniteSet(S)
    PROVE  /\ \A s, u \in S : s < u => Cardinality({t \in S : t < s}) < Cardinality({t \in S : t < u})
           /\ \A k \in 0..(Cardinality(S) - 1) : \E s \in S : Cardinality({t \in S : t < s}) = k
           /\ Cardinality(S) \in Nat
<1> DEFINE Below(s) == {t \in S : t < s}
           N == Cardinality(S)
           rank == [s \in S |-> Cardinality(Below(s))]
<1>1. N \in Nat
  BY FS_CardinalityType
<1>2. ASSUME NEW s \in S PROVE Cardinality(Below(s)) \in 0..(N - 1)
  <2>1. Below(s) \subseteq S /\ Below(s) # S
    OBVIOUS
  <2>2. /\ Cardinality(Below(s)) \in Nat
        /\ Cardinality(Below(s)) <= N /\ Cardinality(Below(s)) # N
    <3> HIDE DEF Below
    <3> QED BY <2>1, FS_Subset, FS_CardinalityType
  <2> QED BY <1>1, <2>2
<1>3. ASSUME NEW s \in S, NEW u \in S, s < u PROVE Cardinality(Below(s)) < Cardinality(Below(u))
  <2>1. Below(s) \subseteq Below(u) /\ Below(u) \subseteq S
    <3>1. \A t \in S : t \in Nat /\ (t < s => t < u)
      BY <1>3
    <3> QED BY <3>1
  <2>2. s \in Below(u) /\ s \notin Below(s)
    BY <1>3
  <2>5. Cardinality(Below(s)) \in Nat /\ Cardinality(Below(u)) \in Nat
    BY <1>2
  <2> HIDE DEF Below
  <2>3. IsFiniteSet(Below(u))
    BY <2>1, FS_Subset
  <2>4. Below(s) # Below(u)
    BY <2>2
  <2>6. Cardinality(Below(s)) <= Cardinality(Below(u)) /\ Cardinality(Below(s)) # Cardinality(Below(u))
    BY <2>1, <2>3, <2>4, FS_Subset
  <2> QED BY <2>5, <2>6
<1>4. rank \in Injection(S, 0..(N - 1))
  <2>1. rank \in [S -> 0..(N - 1)]
    BY <1>2
  <2>2. ASSUME NEW s \in S, NEW u \in S, rank[s] = rank[u] PROVE s = u
    <3>1. s < u \/ u < s \/ s = u
      OBVIOUS
    <3>2. rank[s] \in Nat /\ rank[u] \in Nat
      BY <1>2
    <3> QED BY <1>3, <2>2, <3>1, <3>2
  <2> HIDE DEF rank
  <2> QED BY <2>1, <2>2 DEF Injection, IsInjective
<1>5. IsFiniteSet(0..(N - 1)) /\ Cardinality(0..(N - 1)) = N
  <2>1. N - 1 \in Int
    BY <1>1
  <2> QED BY <1>1, <2>1, FS_Interval
<1>6. rank \in Surjection(S, 0..(N - 1))
  <2> HIDE DEF rank
  <2> QED BY <1>4, <1>5, FS_Injection
<1>7. ASSUME NEW k \in 0..(N - 1) PROVE \E s \in S : Cardinality(Below(s)) = k
  <2>1. PICK s \in S : rank[s] = k
    <3> HIDE DEF rank
    <3> QED BY <1>6 DEF Surjection
  <2> QED BY <2>1
<1> QED BY <1>1, <1>3, <1>7

\* A scan's result is a queue of segments.
LEMMA AscendingType ==
    ASSUME NEW S \in SUBSET Segs
    PROVE  Ascending(S) \in Seq(Segs)
<1> DEFINE Rank(s) == Cardinality({t \in S : t < s})
           q == [i \in 1..Cardinality(S) |-> CHOOSE s \in S : Rank(s) = i - 1]
<1>1. S \in SUBSET Nat /\ IsFiniteSet(S)
  BY LedgerAssumption, FS_Subset
<1>2. /\ \A s, u \in S : s < u => Rank(s) < Rank(u)
      /\ \A k \in 0..(Cardinality(S) - 1) : \E s \in S : Rank(s) = k
      /\ Cardinality(S) \in Nat
  BY <1>1, Ranks
<1> HIDE DEF Rank
<1>3. \A i \in 1..Cardinality(S) : q[i] \in S /\ Rank(q[i]) = i - 1
  <2>1. ASSUME NEW i \in 1..Cardinality(S) PROVE q[i] \in S /\ Rank(q[i]) = i - 1
    <3>1. i - 1 \in 0..(Cardinality(S) - 1)
      BY <1>2
    <3>2. \E s \in S : Rank(s) = i - 1
      BY <1>2, <3>1
    <3> QED BY <3>2
  <2> QED BY <2>1
<1>4. q \in [1..Cardinality(S) -> S]
  BY <1>3
<1>5. \A i, j \in DOMAIN q : i < j => q[i] < q[j]
  <2>1. ASSUME NEW i \in 1..Cardinality(S), NEW j \in 1..Cardinality(S), i < j PROVE q[i] < q[j]
    <3>1. q[i] \in Nat /\ q[j] \in Nat /\ q[i] \in S /\ q[j] \in S
      BY <1>1, <1>3
    <3>2. Rank(q[i]) = i - 1 /\ Rank(q[j]) = j - 1
      BY <1>3
    <3>3. ~(q[j] < q[i]) /\ q[j] # q[i]
      <4> HIDE DEF q
      <4>1. q[j] < q[i] => j - 1 < i - 1
        BY <1>2, <3>1, <3>2
      <4> QED BY <1>2, <2>1, <3>2, <4>1
    <3> HIDE DEF q
    <3> QED BY <3>1, <3>3
  <2> QED BY <2>1
<1>6. Ascending(S) \in [1..Cardinality(S) -> S]
  <2> HIDE DEF q
  <2> QED BY <1>4, <1>5 DEF Ascending
<1> QED BY <1>2, <1>6

\* What the drain does to its queues.
LEMMA QueueSteps ==
    ASSUME Queues
    PROVE  /\ UNCHANGED queueVars => Queues'
           /\ chan # << >> /\ WaitSlice => Queues'
           /\ \A found \in SUBSET Segs : Requeue(found) => Queues'
           /\ \A f, hand, down, bad : Probe(f, hand, down, bad) => Queues'
<1>1. UNCHANGED queueVars => Queues'
  BY DEF queueVars, Queues
<1>2. ASSUME chan # << >>, WaitSlice PROVE Queues'
  <2>1. /\ chan \in Seq(Segs) /\ pending \in Seq(Segs) /\ backlog \in Seq(Segs)
        /\ Head(chan) \in Segs /\ Tail(chan) \in Seq(Segs)
    BY <1>2 DEF Queues
  <2>2. /\ pending \o chan \in Seq(Segs) /\ Append(pending, Head(chan)) \in Seq(Segs)
        /\ << >> \in Seq(Segs)
    BY <2>1
  <2>3. backlog' = backlog
    BY <1>2 DEF WaitSlice
  <2>4. \/ pending' = pending \o chan /\ chan' = << >>
        \/ pending' = Append(pending, Head(chan)) /\ chan' = Tail(chan)
    BY <1>2 DEF WaitSlice
  <2> QED BY <2>1, <2>2, <2>3, <2>4 DEF Queues
<1>3. ASSUME NEW found \in SUBSET Segs, Requeue(found) PROVE Queues'
  <2>1. PICK q \in Seq(Segs) : q = Ascending(found)
    BY AscendingType
  <2> QED BY <1>3, <2>1 DEF Requeue, Queues
<1>4. ASSUME NEW f, NEW hand, NEW down, NEW bad, Probe(f, hand, down, bad) PROVE Queues'
  <2>1. CASE UNCHANGED queueVars
    BY <1>1, <2>1
  <2>2. CASE \E found \in SUBSET Fresh(f, hand) : Requeue(found)
    <3>1. Fresh(f, hand) \subseteq Segs
      BY DEF Fresh
    <3> QED BY <1>3, <2>2, <3>1
  <2> QED BY <1>4, <2>1, <2>2 DEF Probe
<1> QED BY <1>1, <1>2, <1>3, <1>4

(***************************************************************************)
(* One segment at a time.                                                  *)
(***************************************************************************)
\* What is owed for c is done.
Disposed(c) ==
    \/ owned[c] = "Confirm" /\ owned'[c] = "none" /\ file'[c] = "gone"
    \/ owned[c] = "Quarantine" /\ owned'[c] = "none" /\ file'[c] = "quarantine"

\* The step leaves c alone, or only does what is owed for it.
Kept(c) ==
    /\ cursor'[c] = cursor[c] /\ carry'[c] = carry[c]
    /\ (file'[c] = file[c] /\ owned'[c] = owned[c]) \/ Disposed(c)
    /\ Position(c)' = Position(c)
    /\ \A i \in 1..SegLen : /\ <<c, i>> \in applied' <=> <<c, i>> \in applied
                            /\ <<c, i>> \in dead' <=> <<c, i>> \in dead
                            /\ <<c, i>> \in ambiguous' <=> <<c, i>> \in ambiguous
                            /\ <<c, i>> \in twice' <=> <<c, i>> \in twice

\* A segment that is left alone stays as it should be.
LEMMA KeptOk ==
    ASSUME NEW c \in Segs, SegmentOk(c), Kept(c)
    PROVE  SegmentOk(c)'
<1>1. /\ cursor'[c] = cursor[c] /\ carry'[c] = carry[c] /\ Position(c)' = Position(c)
      /\ \/ file'[c] = file[c] /\ owned'[c] = owned[c]
         \/ owned[c] = "Confirm" /\ owned'[c] = "none" /\ file'[c] = "gone"
         \/ owned[c] = "Quarantine" /\ owned'[c] = "none" /\ file'[c] = "quarantine"
  BY DEF Kept, Disposed
<1>2. carry'[c].rejects \subseteq Recs(c) /\ (file'[c] = "absent" => carry'[c] = NoCarry)
  BY <1>1 DEF SegmentOk
<1>3. ASSUME NEW i \in 1..SegLen PROVE RecordOk(c, i)'
  <2>1. RecordOk(c, i)
    BY DEF SegmentOk
  <2>2. /\ <<c, i>> \in applied' <=> <<c, i>> \in applied
        /\ <<c, i>> \in Handled' <=> <<c, i>> \in Handled
        /\ <<c, i>> \in ambiguous' <=> <<c, i>> \in ambiguous
        /\ <<c, i>> \in twice' <=> <<c, i>> \in twice
    BY DEF Kept, Handled
  <2> HIDE DEF Handled, Position
  <2> QED BY <1>1, <2>1, <2>2 DEF RecordOk
<1> QED BY <1>2, <1>3 DEF SegmentOk

\* What is left to show of a step.
LEMMA StepOk ==
    ASSUME DeliveryInv, Queues', Ledger', Hand', HandInv', twice' \subseteq AllRecs,
           \A c \in Segs : Kept(c) \/ SegmentOk(c)'
    PROVE  DeliveryInv'
<1>1. ASSUME NEW c \in Segs PROVE SegmentOk(c)'
  BY KeptOk DEF DeliveryInv
<1> QED BY <1>1 DEF DeliveryInv

\* A step that records nothing and moves the drain nowhere in a segment.
LEMMA QuietStep ==
    ASSUME DeliveryInv, UNCHANGED <<file, cursor, carry, owned>>, UNCHANGED ghostVars,
           Queues', Hand', HandInv', \A c \in Segs : Position(c)' = Position(c)
    PROVE  DeliveryInv'
<1>1. UNCHANGED <<applied, dead, ambiguous, twice>>
  BY DEF ghostVars
<1>2. \A c \in Segs : Kept(c)
  <2> HIDE DEF Position
  <2> QED BY <1>1 DEF Kept
<1>3. Ledger' /\ twice' \subseteq AllRecs
  BY <1>1 DEF DeliveryInv, Ledger
<1> QED BY <1>2, <1>3, StepOk

\* The same, with the hand as it was and the arm among its like.
LEMMA HandKept ==
    ASSUME DeliveryInv, UNCHANGED <<file, cursor, carry, owned>>, UNCHANGED ghostVars, Queues',
           UNCHANGED <<seg, through, readable>>,
           \/ arm' = arm
           \/ arm \notin Holding /\ arm' \notin Holding
           \/ arm \in Between /\ arm' \in Between
    PROVE  DeliveryInv'
<1>1. Hand' /\ \A c \in Segs : Position(c)' = Position(c)
  BY DEF DeliveryInv, Hand, Position
<1>2. HandInv'
  BY DEF DeliveryInv, HandInv, Holding, Between
<1> QED BY <1>1, <1>2, QuietStep

\* The hand is emptied after the ledger got the position, or was empty before.
LEMMA HandEmptied ==
    ASSUME DeliveryInv, UNCHANGED <<file, cursor, carry, owned>>, UNCHANGED ghostVars, Queues',
           EmptyHand, arm' \notin Holding, arm \in Between \/ arm \notin Holding
    PROVE  DeliveryInv'
<1>1. Hand'
  BY LedgerAssumption DEF EmptyHand, Hand, Positions
<1>2. HandInv'
  BY DEF EmptyHand, HandInv, Holding, Between
<1>3. \A c \in Segs : Position(c)' = Position(c)
  <2>1. \A c \in Segs : c # 0
    BY LedgerAssumption
  <2>2. seg = 0 \/ cursor[seg] = through
    BY DEF DeliveryInv, HandInv, Holding, Between
  <2> QED BY <2>1, <2>2 DEF EmptyHand, Position
<1> QED BY <1>1, <1>2, <1>3, QuietStep

\* An admitted segment comes into the empty hand.
LEMMA HandFilled ==
    ASSUME DeliveryInv, UNCHANGED <<file, cursor, carry, owned>>, UNCHANGED ghostVars, Queues',
           arm \notin Holding, NEW c0 \in Segs, Admits(c0), Admit(c0)
    PROVE  DeliveryInv'
<1>1. /\ arm' = "begin" /\ seg' = c0 /\ through' = cursor[c0] /\ readable' = readable
      /\ owned[c0] = "none" /\ seg = 0 /\ c0 # 0
  BY LedgerAssumption DEF Admit, Admits, DeliveryInv, HandInv
<1>2. cursor[c0] \in Positions
  BY DEF DeliveryInv, Ledger
<1>3. Hand'
  BY <1>1, <1>2 DEF DeliveryInv, Hand
<1>4. HandInv'
  <2>1. cursor[c0] \in Nat
    BY <1>2 DEF Positions
  <2> QED BY <1>1, <2>1 DEF HandInv, Holding, Between
<1>5. \A c \in Segs : Position(c)' = Position(c)
  BY <1>1, LedgerAssumption DEF Position
<1> QED BY <1>3, <1>4, <1>5, QuietStep

(***************************************************************************)
(* The flushers, the operator, main and the timers.                        *)
(***************************************************************************)
LEMMA EnvironmentOk ==
    ASSUME DeliveryInv,
           \/ \E c \in Segs : HandOff(c)
           \/ FreeDeadLetter \/ Control \/ PollTimer \/ WaitTimer
           \/ \E c \in Segs : CoolDownEnds(c)
    PROVE  DeliveryInv'
<1>0. Queues /\ Hand
  BY DEF DeliveryInv
<1>1. /\ UNCHANGED <<file, cursor, carry, owned>> /\ UNCHANGED ghostVars
      /\ UNCHANGED <<arm, seg, through, readable, pending, backlog>>
  BY DEF HandOff, FreeDeadLetter, Control, PollTimer, WaitTimer, CoolDownEnds,
         EnvironmentFrame, TimerFrame, ledgerVars, handVars, queueVars
<1>2. Queues'
  <2>1. CASE UNCHANGED chan
    BY <1>0, <1>1, <2>1 DEF Queues
  <2>2. CASE \E c \in Segs : chan' = Append(chan, c)
    BY <1>0, <1>1, <2>2 DEF Queues
  <2> QED BY <2>1, <2>2 DEF HandOff, FreeDeadLetter, Control, PollTimer, WaitTimer, CoolDownEnds,
                           EnvironmentFrame, TimerFrame, queueVars
<1> QED BY <1>0, <1>1, <1>2, HandKept DEF Hand

\* Seal: none of the new segment's records is handled, so none is ahead.
LEMMA SealOk ==
    ASSUME DeliveryInv, NEW c0 \in Segs, Seal(c0)
    PROVE  DeliveryInv'
<1>0. Queues /\ Hand /\ Ledger /\ HandInv /\ twice \subseteq AllRecs /\ SegmentOk(c0)
  BY DEF DeliveryInv
<1>1. /\ UNCHANGED <<cursor, carry, owned, arm, seg, through, readable, pending, backlog, chan>>
      /\ UNCHANGED <<applied, dead, ambiguous, twice>>
      /\ file[c0] = "absent" /\ file' = [file EXCEPT ![c0] = "sealed"]
  BY DEF Seal, EnvironmentFrame, ledgerVars, handVars, ghostVars
<1>2. file'[c0] = "sealed" /\ \A c \in Segs \ {c0} : file'[c] = file[c]
  BY <1>0, <1>1 DEF Ledger
<1>3. Queues' /\ Ledger' /\ Hand' /\ twice' \subseteq AllRecs
  BY <1>0, <1>1 DEF Queues, Ledger, Hand
<1>4. HandInv'
  <2>1. arm \in {"read", "commit"} => file'[seg] = "sealed"
    <3>1. arm \in {"read", "commit"} => seg \in Segs /\ file[seg] = "sealed"
      BY <1>0 DEF HandInv, Hand, Holding
    <3> QED BY <1>2, <3>1
  <2> QED BY <1>0, <1>1, <2>1 DEF HandInv
<1>5. \A c \in Segs \ {c0} : Kept(c)
  BY <1>1, <1>2 DEF Kept, Position
<1>6. SegmentOk(c0)'
  <2>1. ASSUME NEW i \in 1..SegLen PROVE RecordOk(c0, i)'
    <3>1. RecordOk(c0, i) /\ <<c0, i>> \notin Handled
      BY <1>0, <1>1 DEF SegmentOk, RecordOk
    <3> QED BY <1>1, <1>2, <3>1 DEF RecordOk, Handled, Position
  <2> QED BY <1>0, <1>1, <1>2, <2>1 DEF SegmentOk
<1> QED BY <1>3, <1>4, <1>5, <1>6, StepOk

(***************************************************************************)
(* The loop and its waits, which record nothing.                           *)
(***************************************************************************)
LEMMA LoopOk ==
    ASSUME DeliveryInv,
           \/ HeadGoesOn \/ ServeTicket \/ PickPaused \/ PickGoesOn \/ TakeNothing \/ IdleEnds
           \/ BackOff \/ BackoffWaits \/ BackoffPolls \/ BackoffEnds
           \/ BlockedWaits \/ BlockedChecks \/ HeldWaits \/ HeldPolls \/ Respawn
    PROVE  DeliveryInv'
<1>0. Queues /\ Hand
  BY DEF DeliveryInv
<1>1. UNCHANGED <<file, cursor, carry, owned>> /\ UNCHANGED ghostVars
  BY DEF HeadGoesOn, ServeTicket, PickPaused, PickGoesOn, TakeNothing, IdleEnds, BackOff,
         BackoffWaits, BackoffPolls, BackoffEnds, BlockedWaits, BlockedChecks, HeldWaits,
         HeldPolls, Respawn, PickFrame, TakeFrame, RetryFrame, ledgerVars
<1>2. UNCHANGED <<seg, through, readable>>
  BY DEF HeadGoesOn, ServeTicket, PickPaused, PickGoesOn, TakeNothing, IdleEnds, BackOff,
         BackoffWaits, BackoffPolls, BackoffEnds, BlockedWaits, BlockedChecks, HeldWaits,
         HeldPolls, Respawn, handVars
<1>3. \/ arm' = arm
      \/ arm \notin Holding /\ arm' \notin Holding
      \/ arm \in Between /\ arm' \in Between
  BY DEF HeadGoesOn, ServeTicket, PickPaused, PickGoesOn, TakeNothing, IdleEnds, BackOff,
         BackoffWaits, BackoffPolls, BackoffEnds, BlockedWaits, BlockedChecks, HeldWaits,
         HeldPolls, Respawn, PickFrame, Holding, Between
<1>4. Queues'
  <2>1. CASE ServeTicket
    <3>1. Fresh(file, seg) \subseteq Segs
      BY DEF Fresh
    <3>2. UNCHANGED queueVars \/ \E found \in SUBSET Segs : Requeue(found)
      BY <2>1, <3>1 DEF ServeTicket
    <3> QED BY <1>0, <3>2, QueueSteps
  <2>2. CASE ~ServeTicket
    <3>1. \/ UNCHANGED queueVars \/ (chan # << >> /\ WaitSlice)
          \/ \E f, hand, down, bad : Probe(f, hand, down, bad)
      BY <2>2 DEF HeadGoesOn, PickPaused, PickGoesOn, TakeNothing, IdleEnds, BackOff,
         BackoffWaits, BackoffPolls, BackoffEnds, BlockedWaits, BlockedChecks, HeldWaits,
         HeldPolls, Respawn
    <3> QED BY <1>0, <3>1, QueueSteps
  <2> QED BY <2>1, <2>2
<1> QED BY <1>0, <1>1, <1>2, <1>3, <1>4, HandKept DEF Hand

\* A segment is taken, or turned away.
LEMMA TakeOk ==
    ASSUME DeliveryInv, Take \/ IdleReceives
    PROVE  DeliveryInv'
<1>0. Queues /\ Hand
  BY DEF DeliveryInv
<1>1. UNCHANGED <<file, cursor, carry, owned>> /\ UNCHANGED ghostVars /\ arm \in {"take", "idle"}
  BY DEF Take, IdleReceives, TakeFrame, ledgerVars
<1>2. CASE Take
  <2> DEFINE live == pending \o chan
             fromBacklog == backlog # << >> /\ (backlogTurn \/ live = << >>)
             c == IF fromBacklog THEN Head(backlog) ELSE Head(live)
  <2>1. /\ IF fromBacklog
             THEN backlog' = Tail(backlog) /\ UNCHANGED <<pending, chan>>
             ELSE IF pending # << >>
               THEN pending' = Tail(pending) /\ UNCHANGED <<backlog, chan>>
               ELSE chan' = Tail(chan) /\ UNCHANGED <<backlog, pending>>
        /\ IF Admits(c) THEN Admit(c) ELSE UNCHANGED <<arm, handVars>>
        /\ ~NothingLeft
    BY <1>2 DEF Take
  <2>2. /\ backlog \in Seq(Segs) /\ pending \in Seq(Segs) /\ chan \in Seq(Segs)
        /\ live \in Seq(Segs) /\ ~fromBacklog => live # << >>
    <3>1. backlog \in Seq(Segs) /\ pending \in Seq(Segs) /\ chan \in Seq(Segs)
      BY <1>0 DEF Queues
    <3>2. live \in Seq(Segs) /\ (pending # << >> \/ chan # << >> => live # << >>)
      BY <3>1, ConcatProperties
    <3> QED BY <2>1, <3>1, <3>2 DEF NothingLeft
  <2>3. c \in Segs
    BY <2>2
  <2>4. Queues'
    <3>1. \A q \in Seq(Segs) : q # << >> => Tail(q) \in Seq(Segs)
      OBVIOUS
    <3>2. CASE fromBacklog
      <4>1. backlog' = Tail(backlog) /\ UNCHANGED <<pending, chan>> /\ backlog # << >>
        BY <2>1, <3>2
      <4> QED BY <2>2, <3>1, <4>1 DEF Queues
    <3>3. CASE ~fromBacklog /\ pending # << >>
      <4>1. pending' = Tail(pending) /\ UNCHANGED <<backlog, chan>>
        BY <2>1, <3>3
      <4> QED BY <2>2, <3>1, <3>3, <4>1 DEF Queues
    <3>4. CASE ~fromBacklog /\ pending = << >>
      <4>1. chan' = Tail(chan) /\ UNCHANGED <<backlog, pending>>
        BY <2>1, <3>4
      <4>2. chan # << >>
        BY <2>1, <2>2, <3>4 DEF NothingLeft
      <4> QED BY <2>2, <3>1, <4>1, <4>2 DEF Queues
    <3> QED BY <3>2, <3>3, <3>4
  <2> HIDE DEF c, fromBacklog, live
  <2>5. CASE Admits(c)
    BY <1>1, <2>1, <2>3, <2>4, <2>5, HandFilled DEF Holding
  <2>6. CASE ~Admits(c)
    BY <1>0, <1>1, <2>1, <2>4, <2>6, HandKept DEF handVars, Hand
  <2> QED BY <2>5, <2>6
<1>3. CASE IdleReceives
  <2>1. /\ chan # << >> /\ chan' = Tail(chan) /\ UNCHANGED <<pending, backlog>>
        /\ IF Admits(Head(chan)) THEN Admit(Head(chan)) ELSE ToHead
    BY <1>3 DEF IdleReceives
  <2>2. Head(chan) \in Segs /\ Queues'
    BY <1>0, <2>1 DEF Queues
  <2>3. CASE Admits(Head(chan))
    BY <1>1, <2>1, <2>2, <2>3, HandFilled DEF Holding
  <2>4. CASE ~Admits(Head(chan))
    BY <1>1, <2>1, <2>2, <2>4, HandEmptied DEF ToHead, Holding
  <2> QED BY <2>3, <2>4
<1> QED BY <1>2, <1>3

\* A strand, and the end of a hold.
LEMMA PutBackOk ==
    ASSUME DeliveryInv, Strand \/ HeldResumes
    PROVE  DeliveryInv'
<1>0. Queues /\ Hand
  BY DEF DeliveryInv
<1>1. UNCHANGED <<file, cursor, carry, owned>> /\ UNCHANGED ghostVars /\ arm \in {"retry", "held"}
  BY DEF Strand, HeldResumes, RetryFrame
<1>2. CASE Strand
  <2>1. UNCHANGED queueVars /\ ToHead
    BY <1>2 DEF Strand
  <2>2. Queues'
    BY <1>0, <2>1, QueueSteps
  <2> QED BY <1>1, <2>1, <2>2, HandEmptied DEF ToHead, Holding, Between
<1>3. CASE HeldResumes
  <2>1. CASE pending' = <<seg>> \o pending /\ ToHead /\ UNCHANGED <<chan, backlog>>
    <3>1. seg \in Segs
      BY <1>0, <1>1 DEF DeliveryInv, HandInv, Hand, Holding
    <3>2. Queues'
      BY <1>0, <2>1, <3>1 DEF Queues
    <3> QED BY <1>1, <2>1, <3>2, HandEmptied DEF ToHead, Holding, Between
  <2>2. CASE arm' = "begin" /\ UNCHANGED <<queueVars, handVars>>
    <3>1. Queues' /\ UNCHANGED <<seg, through, readable>>
      BY <1>0, <2>2, QueueSteps DEF handVars
    <3> QED BY <1>0, <1>1, <2>2, <3>1, HandKept DEF Between, Hand
  <2> QED BY <1>3, <2>1, <2>2 DEF HeldResumes
<1> QED BY <1>2, <1>3

\* The steps of an attempt that record nothing.
LEMMA AttemptOk ==
    ASSUME DeliveryInv, BeginPlain \/ OpenOk \/ ReadStopsShort \/ GateOpens
    PROVE  DeliveryInv'
<1>0. Queues /\ Hand /\ HandInv
  BY DEF DeliveryInv
<1>1. /\ UNCHANGED <<file, cursor, carry, owned>> /\ UNCHANGED ghostVars
      /\ UNCHANGED <<seg, through>> /\ UNCHANGED queueVars
  BY DEF BeginPlain, OpenOk, ReadStopsShort, GateOpens, BeginFrame, ReadFrame, ledgerVars,
         handVars, ghostVars
<1>2. Queues'
  BY <1>0, <1>1, QueueSteps
<1>3. readable' \in Positions
  <2>1. CASE ReadStopsShort
    <3>1. PICK j \in through..(BatchEnd - 1) : readable' = j
      BY <2>1 DEF ReadStopsShort
    <3>2. /\ through \in Nat /\ SegLen \in Nat /\ BatchSize \in Nat /\ readable = SegLen
          /\ through < SegLen
      BY <1>0, <2>1, LedgerAssumption DEF Hand, Positions, ReadStopsShort
    <3>3. BatchEnd \in Nat /\ BatchEnd <= SegLen
      BY <3>2 DEF BatchEnd
    <3> QED BY <3>1, <3>2, <3>3 DEF Positions
  <2>2. CASE ~ReadStopsShort
    BY <1>0, <2>2 DEF BeginPlain, OpenOk, GateOpens, handVars, Hand
  <2> QED BY <2>1, <2>2
<1>4. Hand' /\ \A c \in Segs : Position(c)' = Position(c)
  BY <1>0, <1>1, <1>3 DEF Hand, Position
<1>5. HandInv'
  BY <1>0, <1>1 DEF HandInv, Holding, Between, BeginPlain, BeginFrame, OpenOk, ReadStopsShort,
                       GateOpens, handVars
<1> QED BY <1>1, <1>2, <1>4, <1>5, QuietStep

(***************************************************************************)
(* Steps that record progress, leave a segment or do what is owed.         *)
(***************************************************************************)
\* The segment in hand, by index.
LEMMA InHand ==
    ASSUME DeliveryInv, arm \in Holding
    PROVE  /\ seg \in Segs /\ seg # 0 /\ SegmentOk(seg) /\ owned[seg] = "none"
           /\ cursor[seg] \in Nat /\ through \in Nat /\ readable \in Nat /\ SegLen \in Nat
           /\ through <= SegLen /\ readable <= SegLen /\ cursor[seg] <= through
           /\ carry[seg] \in [through : Positions, rejects : SUBSET AllRecs]
           /\ carry[seg].through \in Nat /\ Position(seg) = through
<1>1. seg \in Segs /\ seg # 0 /\ owned[seg] = "none" /\ cursor[seg] <= through
  BY DEF DeliveryInv, HandInv, Hand
<1>2. /\ cursor[seg] \in Positions /\ through \in Positions /\ readable \in Positions
      /\ carry[seg] \in [through : Positions, rejects : SUBSET AllRecs] /\ SegmentOk(seg)
  BY <1>1 DEF DeliveryInv, Ledger, Hand
<1> QED BY <1>1, <1>2, LedgerAssumption DEF Positions, Position

\* record_progress brings the cursor up to the position.
LEMMA Progress ==
    ASSUME DeliveryInv, arm \in Holding, RecordProgress(seg, through)
    PROVE  /\ cursor' \in [Segs -> Positions] /\ cursor'[seg] = through
           /\ \A c \in Segs \ {seg} : cursor'[c] = cursor[c]
<1>1. /\ seg \in Segs /\ cursor[seg] \in Nat /\ through \in Nat /\ cursor[seg] <= through
      /\ cursor \in [Segs -> Positions] /\ through \in Positions
  BY InHand DEF DeliveryInv, Ledger, Hand
<1> QED BY <1>1 DEF RecordProgress

\* The ghosts change at most for records of the segment in hand.
Elsewhere ==
    \A x : x \notin Recs(seg) => /\ x \in applied' <=> x \in applied
                                 /\ x \in dead' <=> x \in dead
                                 /\ x \in ambiguous' <=> x \in ambiguous
                                 /\ x \in twice' <=> x \in twice

\* The other segments are left alone.
LEMMA OthersKept ==
    ASSUME NEW c \in Segs, c # seg, seg' = seg \/ seg' = 0, Elsewhere,
           cursor'[c] = cursor[c], carry'[c] = carry[c],
           (file'[c] = file[c] /\ owned'[c] = owned[c]) \/ Disposed(c)
    PROVE  Kept(c)
<1>1. Position(c)' = Position(c)
  <2>1. c # 0
    BY LedgerAssumption
  <2> QED BY <2>1 DEF Position
<1>2. \A i \in 1..SegLen : <<c, i>> \notin Recs(seg)
  BY DEF Recs
<1> HIDE DEF Position, Disposed
<1> QED BY <1>1, <1>2 DEF Kept, Elsewhere

\* retry_dispositions touches only what is owed.
LEMMA Dispositions ==
    ASSUME DeliveryInv, NEW keep, RetryDispositions(keep)
    PROVE  /\ file' \in [Segs -> {"absent", "sealed", "gone", "quarantine"}]
           /\ owned' \in [Segs -> {"none", "Confirm", "Quarantine", "Parked"}]
           /\ \A c \in Segs : (file'[c] = file[c] /\ owned'[c] = owned[c]) \/ Disposed(c)
           /\ \A c \in Segs : owned[c] = "none" => file'[c] = file[c] /\ owned'[c] = "none"
<1>0. Ledger
  BY DEF DeliveryInv
<1>1. \A c \in Segs : file'[c] = IF c \in Owed \ keep
                                   THEN IF owned[c] = "Confirm" THEN "gone" ELSE "quarantine"
                                   ELSE file[c]
  BY DEF RetryDispositions
<1>2. \A c \in Segs : owned'[c] = IF c \in Owed \ keep THEN "none" ELSE owned[c]
  BY DEF RetryDispositions
<1>3. \A c \in Segs : c \in Owed <=> owned[c] \in {"Confirm", "Quarantine"}
  BY DEF Owed
<1>4. \A c \in Segs : (file'[c] = file[c] /\ owned'[c] = owned[c]) \/ Disposed(c)
  BY <1>1, <1>2, <1>3 DEF Disposed
<1>5. \A c \in Segs : owned[c] = "none" => file'[c] = file[c] /\ owned'[c] = "none"
  BY <1>1, <1>2, <1>3
<1>6. file' \in [Segs -> {"absent", "sealed", "gone", "quarantine"}]
  BY <1>0 DEF RetryDispositions, Ledger
<1>7. owned' \in [Segs -> {"none", "Confirm", "Quarantine", "Parked"}]
  BY <1>0 DEF RetryDispositions, Ledger
<1> QED BY <1>4, <1>5, <1>6, <1>7

\* The attempt ends with its progress recorded and nothing else.
LEMMA ProgressOk ==
    ASSUME DeliveryInv,
           \/ SettleBlocked \/ ReadFailsProcess \/ ReadFailsCounted \/ GateHolds
    PROVE  DeliveryInv'
<1>0. Queues /\ Ledger /\ Hand /\ HandInv
  BY DEF DeliveryInv
<1>1. /\ UNCHANGED <<file, carry, owned>> /\ UNCHANGED queueVars
      /\ UNCHANGED <<seg, through>> /\ readable' = SegLen
      /\ RecordProgress(seg, through) /\ arm \in Holding /\ arm' \in Between
  BY DEF SettleBlocked, ReadFailsProcess, ReadFailsCounted, GateHolds, Transient, Blocked,
         BeginFrame, ReadFrame, Holding, Between
<1>2. UNCHANGED <<applied, dead, ambiguous, twice>>
  BY DEF SettleBlocked, ReadFailsProcess, ReadFailsCounted, GateHolds, BeginFrame, ReadFrame, ghostVars
<1>3. /\ cursor' \in [Segs -> Positions] /\ cursor'[seg] = through
      /\ \A c \in Segs \ {seg} : cursor'[c] = cursor[c]
  BY <1>1, Progress
<1>4. /\ seg \in Segs /\ seg # 0 /\ SegmentOk(seg) /\ owned[seg] = "none"
      /\ cursor[seg] \in Nat /\ through \in Nat /\ cursor[seg] <= through
      /\ carry[seg].through \in Nat /\ Position(seg) = through
  BY <1>1, InHand
<1>5. Queues' /\ Ledger' /\ Hand' /\ twice' \subseteq AllRecs
  BY <1>0, <1>1, <1>2, <1>3, QueueSteps, LedgerAssumption DEF DeliveryInv, Ledger, Hand, Positions
<1>6. HandInv'
  BY <1>0, <1>1, <1>3, <1>4 DEF HandInv, Holding, Between
<1>7. \A c \in Segs \ {seg} : Kept(c)
  BY <1>1, <1>2, <1>3, OthersKept DEF Elsewhere
<1>8. SegmentOk(seg)'
  <2>1. Position(seg)' = through
    BY <1>1 DEF Position
  <2>2. ASSUME NEW i \in 1..SegLen PROVE RecordOk(seg, i)'
    <3>1. RecordOk(seg, i) /\ (<<seg, i>> \in Handled' <=> <<seg, i>> \in Handled)
      BY <1>2, <1>4 DEF SegmentOk, Handled
    <3> HIDE DEF Handled, Position
    <3> QED BY <1>1, <1>2, <1>3, <1>4, <2>1, <3>1 DEF RecordOk
  <2> QED BY <1>1, <1>4, <2>2 DEF SegmentOk
<1>9. \A c \in Segs : Kept(c) \/ SegmentOk(c)'
  BY <1>1, <1>7, <1>8
<1> QED BY <1>5, <1>6, <1>9, StepOk

\* A segment leaves the drain: gone, quarantined, owed, parked, or found gone.
LEMMA LeavesOk ==
    ASSUME DeliveryInv, arm \in Holding, NEW why, Leaves(why), UNCHANGED ghostVars,
           UNCHANGED queueVars,
           \/ /\ why = "none"
              /\ \E x \in {"gone", "quarantine"} :
                    /\ file' = [file EXCEPT ![seg] = x]
                    /\ x = "gone" => \A i \in 1..SegLen : <<seg, i>> \in Handled
           \/ /\ why \in {"Confirm", "Quarantine", "Parked"} /\ UNCHANGED file
              /\ why = "Confirm" => \A i \in 1..SegLen : <<seg, i>> \in Handled
           \/ why = "none" /\ UNCHANGED file /\ file[seg] # "sealed"
    PROVE  DeliveryInv'
<1>0. Queues /\ Ledger /\ Hand /\ HandInv /\ twice \subseteq AllRecs
  BY DEF DeliveryInv
<1>1. /\ seg \in Segs /\ seg # 0 /\ SegmentOk(seg) /\ owned[seg] = "none"
      /\ UNCHANGED <<applied, dead, ambiguous, twice>>
  BY InHand DEF ghostVars
<1>2. /\ owned' = [owned EXCEPT ![seg] = why] /\ cursor' = [cursor EXCEPT ![seg] = 0]
      /\ carry' = [carry EXCEPT ![seg] = NoCarry]
      /\ arm' = "head" /\ seg' = 0 /\ through' = 0 /\ readable' = SegLen
  BY DEF Leaves, ForgetAnd, ToHead, EmptyHand
<1>3. /\ owned'[seg] = why /\ cursor'[seg] = 0 /\ carry'[seg] = NoCarry
      /\ \A c \in Segs \ {seg} : owned'[c] = owned[c] /\ cursor'[c] = cursor[c] /\ carry'[c] = carry[c]
  BY <1>0, <1>1, <1>2 DEF Ledger
<1>4. /\ \/ file'[seg] \in {"gone", "quarantine"} \/ file'[seg] = file[seg]
      /\ \A c \in Segs \ {seg} : file'[c] = file[c]
      /\ file' \in [Segs -> {"absent", "sealed", "gone", "quarantine"}]
      /\ file'[seg] = "sealed" => why # "none"
      /\ file'[seg] = "gone" \/ why = "Confirm" =>
           file[seg] = "gone" \/ \A i \in 1..SegLen : <<seg, i>> \in Handled
  BY <1>0, <1>1 DEF Ledger
<1>5. Queues' /\ Hand' /\ twice' \subseteq AllRecs
  BY <1>0, <1>1, <1>2, QueueSteps, LedgerAssumption DEF Hand, Positions
<1>6. Ledger'
  <2>1. NoCarry \in [through : Positions, rejects : SUBSET AllRecs] /\ 0 \in Positions
    BY LedgerAssumption DEF NoCarry, Positions
  <2>2. why \in {"none", "Confirm", "Quarantine", "Parked"}
    OBVIOUS
  <2> QED BY <1>0, <1>2, <1>4, <2>1, <2>2 DEF Ledger
<1>7. HandInv'
  BY <1>2 DEF HandInv, Holding, Between
<1>8. \A c \in Segs \ {seg} : Kept(c)
  BY <1>1, <1>2, <1>3, <1>4, OthersKept DEF Elsewhere
<1>9. PICK s \in Segs : s = seg /\ s # 0
  BY <1>1
<1>10. SegmentOk(s)'
  <2>1. /\ Position(s)' = 0 /\ cursor'[s] = 0 /\ carry'[s].through = 0 /\ carry'[s].rejects = {}
        /\ carry'[s] = NoCarry /\ owned'[s] = why
    BY <1>2, <1>3, <1>9 DEF Position, NoCarry
  <2>2. /\ SegmentOk(s) /\ owned[s] = "none" /\ (file'[s] = "sealed" => why # "none")
        /\ file'[s] \in {"gone", "quarantine"} \/ file'[s] = file[s]
        /\ file'[s] = "gone" \/ why = "Confirm" =>
             file[s] = "gone" \/ \A i \in 1..SegLen : <<s, i>> \in Handled
    BY <1>1, <1>4, <1>9
  <2>3. ASSUME NEW i \in 1..SegLen PROVE RecordOk(s, i)'
    <3>1. RecordOk(s, i) /\ (<<s, i>> \in Handled' <=> <<s, i>> \in Handled)
      BY <1>1, <2>2 DEF SegmentOk, Handled
    <3>2. (<<s, i>> \in twice => <<s, i>> \in ambiguous) /\ UNCHANGED <<twice, ambiguous>>
      BY <1>1, <3>1 DEF RecordOk
    <3>3. /\ file[s] = "absent" => <<s, i>> \notin Handled
          /\ file[s] = "gone" => <<s, i>> \in Handled
      BY <3>1 DEF RecordOk
    <3>4. i \in Nat /\ ~(i <= 0)
      BY LedgerAssumption
    <3> HIDE DEF Handled, Position
    <3> QED BY <2>1, <2>2, <3>1, <3>2, <3>3, <3>4 DEF RecordOk
  <2> QED BY <2>1, <2>3 DEF SegmentOk
<1>11. \A c \in Segs : Kept(c) \/ SegmentOk(c)'
  BY <1>8, <1>9, <1>10
<1> QED BY <1>5, <1>6, <1>7, <1>11, StepOk

LEMMA EndsOk ==
    ASSUME DeliveryInv,
           OpenGone \/ OpenRejected \/ ReadEscalates \/ EndQuarantines \/ EndConfirms \/ EndMismatch
    PROVE  DeliveryInv'
<1>1. arm \in Holding /\ UNCHANGED ghostVars /\ UNCHANGED queueVars
  BY DEF OpenGone, OpenRejected, ReadEscalates, EndQuarantines, EndConfirms, EndMismatch,
         ReadFrame, Holding
<1>2. CASE EndConfirms
  <2>1. \A i \in 1..SegLen : <<seg, i>> \in Handled
    <3>1. /\ SegmentOk(seg) /\ Position(seg) = through /\ through \in Nat /\ SegLen \in Nat
          /\ SegLen <= through
      BY <1>1, <1>2, InHand DEF EndConfirms
    <3> HIDE DEF Handled, Position
    <3> QED BY <3>1 DEF SegmentOk, RecordOk
  <2>2. \/ Leaves("none") /\ file' = [file EXCEPT ![seg] = "gone"]
        \/ Leaves("Confirm") /\ UNCHANGED file
    BY <1>2 DEF EndConfirms
  <2> QED BY <1>1, <2>1, <2>2, LeavesOk
<1>3. CASE OpenGone
  BY <1>1, <1>3, LeavesOk DEF OpenGone
<1>4. CASE OpenRejected \/ ReadEscalates \/ EndQuarantines \/ EndMismatch
  <2>1. \/ Leaves("none") /\ file' = [file EXCEPT ![seg] = "quarantine"]
        \/ Leaves("Quarantine") /\ UNCHANGED file
        \/ Leaves("Parked") /\ UNCHANGED file
    BY <1>4 DEF OpenRejected, ReadEscalates, EndQuarantines, EndMismatch, Quarantine, QuarantineAfterFault
  <2> QED BY <1>1, <2>1, LeavesOk
<1> QED BY <1>2, <1>3, <1>4

\* A sub-batch is a slice of the segment in hand, past the drain's position.
LEMMA BatchRecords ==
    ASSUME DeliveryInv, arm \in {"read", "commit"}
    PROVE  /\ BatchEnd \in Positions /\ BatchEnd \in Nat
           /\ through <= readable => through <= BatchEnd
           /\ Batch \subseteq Recs(seg) /\ Batch \subseteq AllRecs
           /\ \A i \in Nat : <<seg, i>> \in Batch <=> through < i /\ i <= BatchEnd
<1>1. /\ seg \in Segs /\ through \in Nat /\ readable \in Nat /\ SegLen \in Nat /\ BatchSize \in Nat
      /\ through <= SegLen /\ readable <= SegLen
  BY InHand, LedgerAssumption DEF Holding
<1>2. BatchEnd \in Nat /\ BatchEnd <= SegLen /\ (through <= readable => through <= BatchEnd)
  BY <1>1 DEF BatchEnd
<1>3. through \in Positions /\ BatchEnd \in Positions
  BY <1>1, <1>2 DEF Positions
<1> HIDE DEF BatchEnd
<1>4. \A i \in Nat : <<seg, i>> \in Batch <=> through < i /\ i <= BatchEnd
  BY <1>1, <1>2, SliceRecords DEF Batch
<1>5. Batch \subseteq Recs(seg) /\ Batch \subseteq AllRecs
  BY <1>1, <1>3, SliceIsRecords DEF Batch
<1> QED BY <1>2, <1>3, <1>4, <1>5

\* The health poll.
LEMMA PollOk ==
    ASSUME DeliveryInv, Poll
    PROVE  DeliveryInv'
<1>0. Queues /\ Ledger /\ Hand /\ HandInv /\ twice \subseteq AllRecs
  BY DEF DeliveryInv
<1>1. PICK keep, down, bad : RetryDispositions(keep) /\ Probe(file', 0, down, bad)
  BY DEF Poll
<1>2. /\ arm = "poll" /\ arm' = "pick" /\ UNCHANGED <<cursor, carry, seg, through, readable>>
      /\ UNCHANGED <<applied, dead, ambiguous, twice>>
  BY DEF Poll, handVars, ghostVars
<1>3. seg = 0
  BY <1>0, <1>2 DEF HandInv, Holding
<1>4. Queues'
  BY <1>0, <1>1, QueueSteps
<1>5. /\ Ledger' /\ \A c \in Segs : (file'[c] = file[c] /\ owned'[c] = owned[c]) \/ Disposed(c)
  BY <1>0, <1>1, <1>2, Dispositions DEF Ledger
<1>6. Hand' /\ HandInv' /\ twice' \subseteq AllRecs
  BY <1>0, <1>2, <1>3 DEF Hand, HandInv, Holding, Between
<1>7. \A c \in Segs : c # seg
  BY <1>3, LedgerAssumption
<1>8. \A c \in Segs : Kept(c)
  BY <1>2, <1>5, <1>7, OthersKept DEF Elsewhere
<1> QED BY <1>4, <1>5, <1>6, <1>8, StepOk

\* What the drain cannot know of goes to the sink or to dead_letter/, and the
\* cursor is brought up to the position.
LEMMA RecordedOk ==
    ASSUME NEW s \in Segs, SegmentOk(s), owned[s] = "none",
           cursor[s] \in Nat, Position(s) \in Nat, carry[s].through \in Nat,
           cursor[s] <= Position(s),
           NEW app, NEW left, file[s] # "absent" \/ (app = {} /\ left = {}),
           applied' = applied \cup app, dead' = dead \cup left,
           \/ ambiguous' = ambiguous \cup app \cup left
              /\ twice' = twice \cup ((app \cup left) \cap Handled)
           \/ app = {} /\ left = {} /\ UNCHANGED <<ambiguous, twice>>,
           file'[s] = file[s], owned'[s] = "none", carry'[s] = carry[s],
           cursor'[s] = Position(s), Position(s)' = Position(s)
    PROVE  SegmentOk(s)'
<1>1. ASSUME NEW i \in 1..SegLen PROVE RecordOk(s, i)'
  <2>1. RecordOk(s, i) /\ i \in Nat
    BY LedgerAssumption DEF SegmentOk
  <2>2. /\ <<s, i>> \in Handled' <=> <<s, i>> \in Handled \/ <<s, i>> \in app \/ <<s, i>> \in left
        /\ <<s, i>> \in applied => <<s, i>> \in applied'
        /\ <<s, i>> \in ambiguous' <=> <<s, i>> \in ambiguous \/ <<s, i>> \in app \/ <<s, i>> \in left
        /\ <<s, i>> \in twice' =>
             <<s, i>> \in twice \/ <<s, i>> \in app \/ <<s, i>> \in left
        /\ file[s] = "absent" => <<s, i>> \notin app /\ <<s, i>> \notin left
    BY DEF Handled
  <2> HIDE DEF Handled, Position
  <2> QED BY <2>1, <2>2 DEF RecordOk
<1> QED BY <1>1 DEF SegmentOk

\* The drain thread returns.
LEMMA ExitOk ==
    ASSUME DeliveryInv, NEW reason, Exit(reason), NEW app \in SUBSET AllRecs,
           applied' = applied \cup app, dead' = dead,
           \/ ambiguous' = ambiguous \cup app /\ twice' = twice \cup (app \cap Handled)
           \/ app = {} /\ UNCHANGED <<ambiguous, twice>>,
           \/ arm \notin Holding /\ UNCHANGED cursor /\ app = {}
           \/ arm \in Between /\ UNCHANGED cursor /\ app = {}
           \/ /\ arm \in {"read", "commit"} /\ RecordProgress(seg, through)
              /\ app \subseteq Recs(seg)
    PROVE  DeliveryInv'
<1>0. Queues /\ Ledger /\ Hand /\ HandInv /\ twice \subseteq AllRecs
  BY DEF DeliveryInv
<1>1. PICK keep : RetryDispositions(keep)
  BY DEF Exit
<1>2. /\ arm' = "exited" /\ seg' = 0 /\ through' = 0 /\ readable' = SegLen
      /\ UNCHANGED carry /\ UNCHANGED queueVars
  BY DEF Exit, EmptyHand
<1>3. /\ cursor' \in [Segs -> Positions]
      /\ \A c \in Segs \ {seg} : cursor'[c] = cursor[c]
      /\ arm \in Holding => cursor'[seg] = through
  <2>1. CASE UNCHANGED cursor /\ arm \notin {"open", "read", "commit"}
    BY <1>0, <2>1 DEF Ledger, HandInv, Holding, Between
  <2>2. CASE arm \in {"read", "commit"} /\ RecordProgress(seg, through)
    BY <2>2, Progress DEF Holding
  <2> QED BY <2>1, <2>2 DEF Holding, Between
<1>4. /\ file' \in [Segs -> {"absent", "sealed", "gone", "quarantine"}]
      /\ owned' \in [Segs -> {"none", "Confirm", "Quarantine", "Parked"}]
      /\ \A c \in Segs : (file'[c] = file[c] /\ owned'[c] = owned[c]) \/ Disposed(c)
      /\ \A c \in Segs : owned[c] = "none" => file'[c] = file[c] /\ owned'[c] = "none"
  BY <1>1, Dispositions
<1>5. Queues' /\ Ledger'
  BY <1>0, <1>2, <1>3, <1>4, QueueSteps DEF Ledger
<1>6. Hand' /\ HandInv'
  BY <1>2, LedgerAssumption DEF Hand, HandInv, Holding, Between, Positions
<1>7. twice' \subseteq AllRecs
  BY <1>0
<1>8. Elsewhere
  BY DEF Elsewhere, Holding, Between
<1>9. \A c \in Segs \ {seg} : Kept(c)
  BY <1>2, <1>3, <1>4, <1>8, OthersKept
<1>10. ASSUME NEW s \in Segs, s = seg PROVE SegmentOk(s)'
  <2>1. s # 0 /\ arm \in Holding
    BY <1>0, <1>10, LedgerAssumption DEF HandInv
  <2>2. /\ SegmentOk(s) /\ owned[s] = "none" /\ Position(s) = through /\ through \in Nat
        /\ cursor[s] \in Nat /\ cursor[s] <= through /\ carry[s].through \in Nat
    BY <1>10, <2>1, InHand
  <2>3. Position(s)' = through /\ cursor'[s] = through
    BY <1>2, <1>3, <1>10, <2>1 DEF Position
  <2>4. file[s] # "absent" \/ app = {}
    BY <1>0, <1>10 DEF HandInv
  <2>5. file'[s] = file[s] /\ owned'[s] = "none" /\ carry'[s] = carry[s]
    BY <1>2, <1>4, <2>2
  <2>6. /\ dead' = dead \cup {}
        /\ \/ /\ ambiguous' = ambiguous \cup app \cup {}
              /\ twice' = twice \cup ((app \cup {}) \cap Handled)
           \/ app = {} /\ UNCHANGED <<ambiguous, twice>>
    OBVIOUS
  <2> HIDE DEF Position, Handled
  <2> QED BY <2>2, <2>3, <2>4, <2>5, <2>6, RecordedOk
<1>11. \A c \in Segs : Kept(c) \/ SegmentOk(c)'
  BY <1>9, <1>10
<1> QED BY <1>5, <1>6, <1>7, <1>11, StepOk

LEMMA StopsOk ==
    ASSUME DeliveryInv,
           \/ HeadStops \/ PickStops \/ BackoffStops \/ BlockedStops \/ HeldStops
           \/ GateAbandons \/ CommitAbandoned
    PROVE  DeliveryInv'
<1>1. CASE HeadStops \/ PickStops \/ BackoffStops \/ BlockedStops \/ HeldStops
  <2>1. /\ UNCHANGED cursor /\ UNCHANGED ghostVars
        /\ arm \in {"head", "pick", "backoff", "blocked", "held"}
    BY <1>1 DEF HeadStops, PickStops, BackoffStops, BlockedStops, HeldStops, ExitPlain
  <2>2. PICK reason : Exit(reason)
    BY <1>1 DEF HeadStops, PickStops, BackoffStops, BlockedStops, HeldStops, ExitPlain
  <2>3. PICK app \in SUBSET AllRecs : app = {}
    OBVIOUS
  <2>4. applied' = applied \cup app /\ dead' = dead /\ UNCHANGED <<ambiguous, twice>>
    BY <2>1, <2>3 DEF ghostVars
  <2>5. arm \notin Holding \/ arm \in Between
    BY <2>1 DEF Holding, Between
  <2> QED BY <2>1, <2>2, <2>3, <2>4, <2>5, ExitOk
<1>2. CASE GateAbandons
  <2>1. /\ Exit("DeadlineAbandoned") /\ RecordProgress(seg, through) /\ arm \in {"read", "commit"}
        /\ UNCHANGED <<applied, dead, ambiguous, twice>>
    BY <1>2 DEF GateAbandons, ghostVars
  <2>2. PICK app \in SUBSET AllRecs : app = {}
    OBVIOUS
  <2>3. applied' = applied \cup app /\ dead' = dead /\ app \subseteq Recs(seg)
    BY <2>1, <2>2
  <2> QED BY <2>1, <2>2, <2>3, ExitOk
<1>3. CASE CommitAbandoned
  <2>1. PICK app \in SUBSET Batch :
           /\ applied' = applied \cup app /\ ambiguous' = ambiguous \cup app
           /\ twice' = twice \cup (app \cap Handled)
    BY <1>3 DEF CommitAbandoned
  <2>2. /\ Exit("DeadlineAbandoned") /\ RecordProgress(seg, through) /\ arm \in {"read", "commit"}
        /\ dead' = dead
    BY <1>3 DEF CommitAbandoned
  <2>3. app \subseteq Recs(seg) /\ app \in SUBSET AllRecs
    BY <2>1, <2>2, BatchRecords
  <2> QED BY <2>1, <2>2, <2>3, ExitOk
<1> QED BY <1>1, <1>2, <1>3

(***************************************************************************)
(* Carries and commits.                                                    *)
(***************************************************************************)
\* What is left to show of a step that keeps the segment in hand.
LEMMA HandStep ==
    ASSUME DeliveryInv, arm \in Holding, UNCHANGED <<file, owned, seg>>, UNCHANGED queueVars,
           Elsewhere, twice' \subseteq AllRecs,
           cursor' \in [Segs -> Positions], \A c \in Segs \ {seg} : cursor'[c] = cursor[c],
           UNCHANGED carry
             \/ \E k \in [through : Positions, rejects : SUBSET AllRecs] :
                   carry' = [carry EXCEPT ![seg] = k],
           through' \in Positions, readable' \in Positions, HandInv', SegmentOk(seg)'
    PROVE  DeliveryInv'
<1>0. Queues /\ Ledger /\ Hand
  BY DEF DeliveryInv
<1>1. /\ carry' \in [Segs -> [through : Positions, rejects : SUBSET AllRecs]]
      /\ \A c \in Segs \ {seg} : carry'[c] = carry[c]
  BY <1>0 DEF Ledger
<1>2. Queues' /\ Ledger' /\ Hand'
  BY <1>0, <1>1, QueueSteps DEF Ledger, Hand
<1>3. \A c \in Segs \ {seg} : Kept(c)
  BY <1>1, OthersKept
<1>4. \A c \in Segs : Kept(c) \/ SegmentOk(c)'
  BY <1>3
<1> QED BY <1>2, <1>4, StepOk

\* settle_dl_carry writes the rejects: with them its sub-batch is handled.
LEMMA SettleOk ==
    ASSUME DeliveryInv, SettleWritten
    PROVE  DeliveryInv'
<1>1. /\ arm = "begin" /\ arm' = "open" /\ carry[seg] # NoCarry
      /\ UNCHANGED <<file, cursor, owned, seg, readable, applied, ambiguous>> /\ UNCHANGED queueVars
      /\ dead' = dead \cup carry[seg].rejects
      /\ twice' = twice \cup (carry[seg].rejects \cap Handled)
      /\ through' = IF carry[seg].through > through THEN carry[seg].through ELSE through
      /\ carry' = [carry EXCEPT ![seg] = NoCarry]
  BY DEF SettleWritten, BeginFrame, Debt
<1>2. /\ seg \in Segs /\ seg # 0 /\ SegmentOk(seg) /\ owned[seg] = "none"
      /\ cursor[seg] \in Nat /\ through \in Nat /\ readable \in Nat /\ cursor[seg] <= through
      /\ carry[seg] \in [through : Positions, rejects : SUBSET AllRecs]
      /\ carry[seg].through \in Nat /\ Position(seg) = through
  BY <1>1, InHand DEF Holding
<1>3. HandInv /\ Ledger /\ Hand /\ twice \subseteq AllRecs
  BY DEF DeliveryInv
<1>4. /\ carry'[seg] = NoCarry /\ NoCarry \in [through : Positions, rejects : SUBSET AllRecs]
      /\ NoCarry.through = 0 /\ NoCarry.rejects = {} /\ file[seg] # "absent"
      /\ carry[seg].rejects \subseteq Recs(seg)
  BY <1>1, <1>2, <1>3, LedgerAssumption DEF Ledger, NoCarry, Positions, SegmentOk
<1>5. /\ through' \in Positions /\ cursor' \in [Segs -> Positions] /\ readable' \in Positions
      /\ through' \in Nat /\ through <= through' /\ carry[seg].through <= through'
      /\ (through' = through \/ through' = carry[seg].through)
  BY <1>1, <1>2, <1>3, LedgerAssumption DEF Ledger, Hand, Positions
<1>6. HandInv'
  BY <1>1, <1>2, <1>4, <1>5 DEF HandInv, Holding, Between
<1>7. Elsewhere /\ twice' \subseteq AllRecs
  BY <1>1, <1>2, <1>3, <1>4 DEF Elsewhere
<1>8. cursor[seg] = through
  BY <1>1, <1>3 DEF HandInv, Between
<1>9. SegmentOk(seg)'
  <2>1. Position(seg)' = through'
    BY <1>1 DEF Position
  <2>2. ASSUME NEW i \in 1..SegLen PROVE RecordOk(seg, i)'
    <3>1. RecordOk(seg, i) /\ i \in Nat /\ 0 < i
      BY <1>2, LedgerAssumption DEF SegmentOk
    <3>2. /\ <<seg, i>> \in Handled' <=> <<seg, i>> \in Handled \/ <<seg, i>> \in carry[seg].rejects
          /\ <<seg, i>> \in applied => <<seg, i>> \in Handled
          /\ <<seg, i>> \in twice' <=>
               <<seg, i>> \in twice \/ (<<seg, i>> \in carry[seg].rejects /\ <<seg, i>> \in Handled)
          /\ <<seg, i>> \notin carry'[seg].rejects
      BY <1>1, <1>4 DEF Handled
    <3> HIDE DEF Handled, Position
    <3> QED BY <1>1, <1>2, <1>4, <1>5, <1>8, <2>1, <3>1, <3>2 DEF RecordOk
  <2> QED BY <1>1, <1>4, <2>2 DEF SegmentOk
<1> QED BY <1>1, <1>4, <1>5, <1>6, <1>7, <1>9, HandStep DEF Holding

\* A failure the drain cannot see through: excused from here on.
LEMMA FailsOk ==
    ASSUME DeliveryInv, SettleFails \/ CommitFails
    PROVE  DeliveryInv'
<1>1. /\ arm \in {"begin", "commit"} /\ arm' = "retry" /\ readable' = SegLen
      /\ UNCHANGED <<file, carry, owned, seg, through>> /\ UNCHANGED queueVars
      /\ RecordProgress(seg, through)
  BY DEF SettleFails, CommitFails, Transient, BeginFrame, CommitFrame
<1>2. /\ seg \in Segs /\ seg # 0 /\ SegmentOk(seg) /\ owned[seg] = "none"
      /\ cursor[seg] \in Nat /\ through \in Nat /\ cursor[seg] <= through
      /\ carry[seg].through \in Nat /\ Position(seg) = through
      /\ carry[seg] \in [through : Positions, rejects : SUBSET AllRecs]
      /\ cursor' \in [Segs -> Positions] /\ cursor'[seg] = through
      /\ \A c \in Segs \ {seg} : cursor'[c] = cursor[c]
  BY <1>1, InHand, Progress DEF Holding
<1>3. PICK app \in SUBSET Recs(seg), left \in SUBSET Recs(seg) :
         /\ applied' = applied \cup app /\ dead' = dead \cup left
         /\ ambiguous' = ambiguous \cup app \cup left
         /\ twice' = twice \cup ((app \cup left) \cap Handled)
         /\ file[seg] # "absent"
  <2>1. CASE SettleFails
    <3>1. PICK left : /\ left = IF dlReal' = dlReal THEN {} ELSE Debt
                      /\ dead' = dead \cup left /\ ambiguous' = ambiguous \cup left
                      /\ twice' = twice \cup (left \cap Handled)
                      /\ UNCHANGED applied /\ carry[seg] # NoCarry
      BY <2>1 DEF SettleFails, BeginFrame
    <3>2. left \in SUBSET Recs(seg) /\ file[seg] # "absent"
      BY <1>2, <3>1 DEF SegmentOk, Debt
    <3>3. PICK app \in SUBSET Recs(seg) : app = {}
      OBVIOUS
    <3>4. /\ applied' = applied \cup app /\ ambiguous' = ambiguous \cup app \cup left
          /\ twice' = twice \cup ((app \cup left) \cap Handled)
      BY <3>1, <3>3
    <3> QED BY <3>1, <3>2, <3>4
  <2>2. CASE CommitFails
    <3>1. PICK app \in SUBSET Batch : /\ applied' = applied \cup app /\ ambiguous' = ambiguous \cup app
                                      /\ twice' = twice \cup (app \cap Handled) /\ UNCHANGED dead
      BY <2>2 DEF CommitFails
    <3>2. arm = "commit" /\ file[seg] = "sealed"
      BY <2>2 DEF CommitFails, CommitFrame, DeliveryInv, HandInv
    <3>3. app \in SUBSET Recs(seg)
      BY <3>1, <3>2, BatchRecords
    <3>4. PICK left \in SUBSET Recs(seg) : left = {}
      OBVIOUS
    <3>5. /\ dead' = dead \cup left /\ ambiguous' = ambiguous \cup app \cup left
          /\ twice' = twice \cup ((app \cup left) \cap Handled)
      BY <3>1, <3>4
    <3> QED BY <3>1, <3>2, <3>3, <3>5
  <2> QED BY <2>1, <2>2
<1>4. Elsewhere /\ twice' \subseteq AllRecs
  <2>1. Recs(seg) \subseteq AllRecs /\ twice \subseteq AllRecs
    BY <1>2 DEF AllRecs, DeliveryInv
  <2> QED BY <1>3, <2>1 DEF Elsewhere
<1>5. HandInv'
  BY <1>1, <1>2 DEF HandInv, Holding, Between
<1>6. through' \in Positions /\ readable' \in Positions
  BY <1>1, LedgerAssumption DEF DeliveryInv, Hand, Positions
<1>7. SegmentOk(seg)'
  <2>1. PICK s \in Segs : s = seg
    BY <1>2
  <2>2. /\ Position(s)' = Position(s) /\ cursor'[s] = Position(s) /\ Position(s) \in Nat
        /\ file'[s] = file[s] /\ owned'[s] = "none" /\ carry'[s] = carry[s]
        /\ SegmentOk(s) /\ owned[s] = "none" /\ cursor[s] \in Nat /\ carry[s].through \in Nat
        /\ cursor[s] <= Position(s) /\ file[s] # "absent"
    BY <1>1, <1>2, <1>3, <2>1 DEF Position
  <2> HIDE DEF Position, Handled
  <2>3. SegmentOk(s)'
    BY <1>3, <2>2, RecordedOk
  <2> QED BY <1>1, <2>1, <2>3
<1> QED BY <1>1, <1>2, <1>4, <1>5, <1>6, <1>7, HandStep DEF Holding

\* The sink and dead_letter/ between them have the sub-batch.
LEMMA CommitIsOk ==
    ASSUME DeliveryInv, CommitOk
    PROVE  DeliveryInv'
<1>1. PICK rej \in SUBSET Batch : applied' = applied \cup (Batch \ rej) /\ dead' = dead \cup rej
  BY DEF CommitOk
<1>2. /\ arm = "commit" /\ arm' = "read" /\ through' = BatchEnd
      /\ twice' = twice \cup (Batch \cap Handled)
      /\ UNCHANGED <<file, cursor, carry, owned, seg, readable, ambiguous>> /\ UNCHANGED queueVars
  BY DEF CommitOk, CommitFrame, ledgerVars
<1>3. /\ seg \in Segs /\ seg # 0 /\ SegmentOk(seg) /\ owned[seg] = "none"
      /\ cursor[seg] \in Nat /\ through \in Nat /\ readable \in Nat /\ cursor[seg] <= through
      /\ Position(seg) = through
  BY <1>2, InHand DEF Holding
<1>4. HandInv /\ Ledger /\ Hand /\ twice \subseteq AllRecs
  BY DEF DeliveryInv
<1>5. /\ BatchEnd \in Positions /\ BatchEnd \in Nat /\ through <= BatchEnd
      /\ Batch \subseteq Recs(seg) /\ Batch \subseteq AllRecs
      /\ \A i \in Nat : <<seg, i>> \in Batch <=> through < i /\ i <= BatchEnd
  <2>1. through <= readable
    BY <1>2, <1>3, <1>4 DEF HandInv
  <2> QED BY <1>2, <2>1, BatchRecords
<1>6. carry[seg] = NoCarry /\ NoCarry.through = 0 /\ NoCarry.rejects = {} /\ file[seg] = "sealed"
  BY <1>2, <1>4 DEF HandInv, NoCarry
<1> HIDE DEF BatchEnd, Batch
<1>7. HandInv'
  BY <1>2, <1>3, <1>4, <1>5, <1>6 DEF HandInv, Holding, Between
<1>8. Elsewhere /\ twice' \subseteq AllRecs
  BY <1>1, <1>2, <1>4, <1>5 DEF Elsewhere
<1>9. SegmentOk(seg)'
  <2>1. Position(seg)' = BatchEnd
    BY <1>2 DEF Position
  <2>2. ASSUME NEW i \in 1..SegLen PROVE RecordOk(seg, i)'
    <3>1. RecordOk(seg, i) /\ i \in Nat /\ 0 < i
      BY <1>3, LedgerAssumption DEF SegmentOk
    <3>2. <<seg, i>> \in Batch <=> through < i /\ i <= BatchEnd
      BY <1>5, <3>1
    <3>3. /\ <<seg, i>> \in Handled' <=> <<seg, i>> \in Handled \/ <<seg, i>> \in Batch
          /\ <<seg, i>> \in twice' <=>
               <<seg, i>> \in twice \/ (<<seg, i>> \in Batch /\ <<seg, i>> \in Handled)
      BY <1>1, <1>2 DEF Handled
    <3> HIDE DEF Handled, Position
    <3> QED BY <1>2, <1>3, <1>5, <1>6, <2>1, <3>1, <3>2, <3>3 DEF RecordOk
  <2> QED BY <1>2, <1>3, <2>2 DEF SegmentOk
<1>10. through' \in Positions /\ readable' \in Positions /\ cursor' \in [Segs -> Positions]
  BY <1>2, <1>4, <1>5 DEF Hand, Ledger
<1> QED BY <1>2, <1>7, <1>8, <1>9, <1>10, HandStep DEF Holding

\* The sub-batch is at the sink but for its rejects, which the carry keeps, if
\* there is room for them, until dead_letter/ takes them.
LEMMA CarriedOk ==
    ASSUME DeliveryInv, CommitBlocked \/ CommitWriteFails
    PROVE  DeliveryInv'
<1>1. PICK rej \in SUBSET Batch, left \in SUBSET Batch :
         /\ left \subseteq rej
         /\ applied' = applied \cup (Batch \ rej) /\ dead' = dead \cup left
         /\ twice' = twice \cup (((Batch \ rej) \cup left) \cap Handled)
         /\ StoreCarry([through |-> BatchEnd, rejects |-> rej], ambiguous \cup left)
  <2>1. CASE CommitBlocked
    <3>1. PICK rej \in SUBSET Batch :
             /\ applied' = applied \cup (Batch \ rej) /\ UNCHANGED dead
             /\ twice' = twice \cup ((Batch \ rej) \cap Handled)
             /\ StoreCarry([through |-> BatchEnd, rejects |-> rej], ambiguous)
      BY <2>1 DEF CommitBlocked
    <3>2. PICK left \in SUBSET Batch : left = {}
      OBVIOUS
    <3>3. /\ dead' = dead \cup left /\ ambiguous = ambiguous \cup left /\ left \subseteq rej
          /\ twice' = twice \cup (((Batch \ rej) \cup left) \cap Handled)
      BY <3>1, <3>2
    <3> QED BY <3>1, <3>3
  <2>2. CASE CommitWriteFails
    <3>1. PICK rej \in SUBSET Batch :
             LET left == IF dlReal' = dlReal THEN {} ELSE rej
             IN  /\ applied' = applied \cup (Batch \ rej)
                 /\ dead' = dead \cup left
                 /\ twice' = twice \cup (((Batch \ rej) \cup left) \cap Handled)
                 /\ StoreCarry([through |-> BatchEnd, rejects |-> rej], ambiguous \cup left)
      BY <2>2 DEF CommitWriteFails
    <3>2. PICK left \in SUBSET Batch : left = IF dlReal' = dlReal THEN {} ELSE rej
      OBVIOUS
    <3> QED BY <3>1, <3>2
  <2> QED BY <2>1, <2>2
<1>2. /\ arm = "commit" /\ arm' \in {"retry", "blocked"} /\ readable' = SegLen
      /\ UNCHANGED <<file, owned, seg, through>> /\ UNCHANGED queueVars
      /\ RecordProgress(seg, through)
  BY DEF CommitBlocked, CommitWriteFails, CommitFrame, Blocked, Transient
<1>3. /\ seg \in Segs /\ seg # 0 /\ SegmentOk(seg) /\ owned[seg] = "none"
      /\ cursor[seg] \in Nat /\ through \in Nat /\ readable \in Nat /\ cursor[seg] <= through
      /\ Position(seg) = through
      /\ cursor' \in [Segs -> Positions] /\ cursor'[seg] = through
      /\ \A c \in Segs \ {seg} : cursor'[c] = cursor[c]
  BY <1>2, InHand, Progress DEF Holding
<1>4. HandInv /\ Ledger /\ Hand /\ twice \subseteq AllRecs
  BY DEF DeliveryInv
<1>5. /\ BatchEnd \in Positions /\ BatchEnd \in Nat
      /\ Batch \subseteq Recs(seg) /\ Batch \subseteq AllRecs
      /\ \A i \in Nat : <<seg, i>> \in Batch <=> through < i /\ i <= BatchEnd
  BY <1>2, BatchRecords
<1>6. carry[seg] = NoCarry /\ NoCarry.through = 0 /\ NoCarry.rejects = {} /\ file[seg] = "sealed"
  BY <1>2, <1>4 DEF HandInv, NoCarry
<1>7. PICK k \in [through : Positions, rejects : SUBSET AllRecs] :
         /\ carry' = [carry EXCEPT ![seg] = k] /\ k.rejects \subseteq rej
         /\ \/ /\ k.through = BatchEnd /\ k.rejects = rej /\ ambiguous' = ambiguous \cup left
            \/ /\ k.through = 0 /\ k.rejects = {}
               /\ ambiguous' = ambiguous \cup left \cup (Batch \cap Handled')
  <2> DEFINE want == [through |-> BatchEnd, rejects |-> rej]
  <2>1. /\ carry' = [carry EXCEPT ![seg] = Stored(seg, want)]
        /\ ambiguous' = (ambiguous \cup left) \cup
             (IF CarryFits(seg, want) THEN {} ELSE Slice(seg, through, want.through) \cap (applied' \cup dead'))
    BY <1>1 DEF StoreCarry
  <2>2. want.through = BatchEnd /\ want.rejects = rej
    OBVIOUS
  <2>3. want \in [through : Positions, rejects : SUBSET AllRecs]
    BY <1>1, <1>5
  <2>4. NoCarry \in [through : Positions, rejects : SUBSET AllRecs]
    BY LedgerAssumption DEF NoCarry, Positions
  <2> HIDE DEF want
  <2>5. CASE CarryFits(seg, want)
    <3>1. Stored(seg, want) = want /\ ambiguous' = ambiguous \cup left
      BY <2>1, <2>5 DEF Stored
    <3> QED BY <2>1, <2>2, <2>3, <3>1
  <2>6. CASE ~CarryFits(seg, want)
    <3>1. Stored(seg, want) = NoCarry
      BY <2>6 DEF Stored
    <3>2. ambiguous' = ambiguous \cup left \cup (Batch \cap Handled')
      BY <2>1, <2>2, <2>6 DEF Batch, Handled
    <3> QED BY <1>6, <2>1, <2>4, <3>1, <3>2
  <2> QED BY <2>5, <2>6
<1> HIDE DEF BatchEnd, Batch
<1>8. carry'[seg] = k
  BY <1>3, <1>4, <1>7 DEF Ledger
<1>9. HandInv'
  BY <1>2, <1>3 DEF HandInv, Holding, Between
<1>10. Elsewhere /\ twice' \subseteq AllRecs
  <2>1. left \subseteq Batch
    BY <1>1
  <2> QED BY <1>1, <1>4, <1>5, <1>7, <2>1 DEF Elsewhere
<1>11. SegmentOk(seg)'
  <2>1. Position(seg)' = through
    BY <1>2 DEF Position
  <2>2. ASSUME NEW i \in 1..SegLen PROVE RecordOk(seg, i)'
    <3>1. RecordOk(seg, i) /\ i \in Nat /\ 0 < i
      BY <1>3, LedgerAssumption DEF SegmentOk
    <3>2. <<seg, i>> \in Batch <=> through < i /\ i <= BatchEnd
      BY <1>5, <3>1
    <3>3. /\ <<seg, i>> \in Handled' <=>
               \/ <<seg, i>> \in Handled \/ <<seg, i>> \in left
               \/ <<seg, i>> \in Batch /\ <<seg, i>> \notin rej
          /\ <<seg, i>> \in applied' <=>
               <<seg, i>> \in applied \/ (<<seg, i>> \in Batch /\ <<seg, i>> \notin rej)
          /\ <<seg, i>> \in twice' =>
               <<seg, i>> \in twice \/ (<<seg, i>> \in Batch /\ <<seg, i>> \in Handled)
          /\ <<seg, i>> \in left => <<seg, i>> \in rej
          /\ <<seg, i>> \in rej => <<seg, i>> \in Batch
      BY <1>1 DEF Handled
    <3>4. /\ <<seg, i>> \in carry'[seg].rejects => <<seg, i>> \in rej
          /\ \/ /\ carry'[seg].through = BatchEnd /\ carry'[seg].rejects = rej
                /\ <<seg, i>> \in ambiguous' <=> <<seg, i>> \in ambiguous \/ <<seg, i>> \in left
             \/ /\ carry'[seg].through = 0 /\ carry'[seg].rejects = {}
                /\ <<seg, i>> \in ambiguous' <=>
                     \/ <<seg, i>> \in ambiguous \/ <<seg, i>> \in left
                     \/ <<seg, i>> \in Batch /\ <<seg, i>> \in Handled'
      BY <1>7, <1>8
    <3> HIDE DEF Handled, Position
    <3>5. <<seg, i>> \in Batch /\ <<seg, i>> \in Handled => <<seg, i>> \in ambiguous
      BY <1>3, <1>6, <3>1, <3>2 DEF RecordOk
    <3> QED BY <1>2, <1>3, <1>5, <1>6, <2>1, <3>1, <3>2, <3>3, <3>4, <3>5 DEF RecordOk
  <2>3. carry'[seg].rejects \subseteq Recs(seg)
    BY <1>5, <1>7, <1>8
  <2> QED BY <1>2, <1>6, <2>2, <2>3 DEF SegmentOk
<1>12. through' \in Positions /\ readable' \in Positions
  BY <1>2, <1>4, LedgerAssumption DEF Hand, Positions
<1> QED BY <1>2, <1>3, <1>7, <1>9, <1>10, <1>11, <1>12, HandStep DEF Holding

(***************************************************************************)
(* Panics.                                                                 *)
(***************************************************************************)
\* What the ledger has after a panic in an attempt: all it had, or no carry, or
\* nothing and the segment parked.
LEMMA Charged ==
    ASSUME DeliveryInv, arm \in Holding, ChargePanic \/ UNCHANGED ledgerVars
    PROVE  /\ Ledger' \/ file' # file
           /\ \A c \in Segs \ {seg} :
                 cursor'[c] = cursor[c] /\ carry'[c] = carry[c] /\ owned'[c] = owned[c]
           /\ \/ /\ cursor'[seg] = cursor[seg] /\ owned'[seg] = "none"
                 /\ carry'[seg] \in {carry[seg], NoCarry}
              \/ cursor'[seg] = 0 /\ carry'[seg] = NoCarry /\ owned'[seg] = "Parked"
<1>0. Ledger /\ seg \in Segs /\ owned[seg] = "none"
  BY InHand DEF DeliveryInv
<1>1. NoCarry \in [through : Positions, rejects : SUBSET AllRecs] /\ 0 \in Positions
  BY LedgerAssumption DEF NoCarry, Positions
<1>2. CASE UNCHANGED <<cursor, owned>>
           /\ (UNCHANGED carry \/ carry' = [carry EXCEPT ![seg] = NoCarry])
  BY <1>0, <1>1, <1>2 DEF Ledger
<1>3. CASE ForgetAnd(seg, "Parked")
  <2>1. /\ owned' = [owned EXCEPT ![seg] = "Parked"] /\ cursor' = [cursor EXCEPT ![seg] = 0]
        /\ carry' = [carry EXCEPT ![seg] = NoCarry]
    BY <1>3 DEF ForgetAnd
  <2> QED BY <1>0, <1>1, <2>1 DEF Ledger
<1> QED BY <1>2, <1>3 DEF ChargePanic, ledgerVars

LEMMA PanicOk ==
    ASSUME DeliveryInv, Panic
    PROVE  DeliveryInv'
<1>0. Queues /\ Ledger /\ Hand /\ HandInv /\ twice \subseteq AllRecs
  BY DEF DeliveryInv
<1>1. /\ EmptyHand /\ arm' \in {"exited", "respawning"} /\ UNCHANGED <<file, dead>>
      /\ Queues'
  BY <1>0 DEF Panic, Queues
<1>2. PICK app \in SUBSET (IF arm = "commit" THEN Batch ELSE {}) :
         applied' = applied \cup app /\ twice' = twice \cup (app \cap Handled)
  BY DEF Panic
<1>3. CASE ~Attempting
  <2>1. UNCHANGED ledgerVars /\ ambiguous' = ambiguous /\ app = {}
    BY <1>2, <1>3 DEF Panic, Attempting
  <2>2. UNCHANGED ghostVars
    BY <1>1, <1>2, <2>1 DEF ghostVars
  <2>3. arm' \notin Holding /\ (arm \in Between \/ arm \notin Holding)
    BY <1>1, <1>3 DEF Attempting, Holding, Between
  <2> QED BY <1>1, <2>1, <2>2, <2>3, HandEmptied DEF ledgerVars
<1>4. CASE Attempting
  <2>1. arm \in {"begin", "open", "read", "commit"} /\ arm \in Holding
    BY <1>4 DEF Attempting, Holding
  <2>2. /\ seg \in Segs /\ seg # 0 /\ SegmentOk(seg) /\ cursor[seg] \in Nat /\ through \in Nat
        /\ cursor[seg] <= through /\ carry[seg].through \in Nat /\ SegLen \in Nat
        /\ Position(seg) = through
    BY <2>1, InHand
  <2>3. ambiguous' = ambiguous \cup (Slice(seg, cursor[seg], SegLen) \cap Handled')
    BY <1>1, <1>4 DEF Panic, Handled
  <2>4. ChargePanic \/ UNCHANGED ledgerVars
    BY DEF Panic
  <2>5. /\ Ledger'
        /\ \A c \in Segs \ {seg} :
              cursor'[c] = cursor[c] /\ carry'[c] = carry[c] /\ owned'[c] = owned[c]
        /\ \/ /\ cursor'[seg] = cursor[seg] /\ owned'[seg] = "none"
              /\ carry'[seg] \in {carry[seg], NoCarry}
           \/ cursor'[seg] = 0 /\ carry'[seg] = NoCarry /\ owned'[seg] = "Parked"
    BY <1>1, <2>1, <2>4, Charged
  <2>6. /\ app \subseteq Recs(seg) /\ app \subseteq AllRecs
        /\ \A i \in Nat : <<seg, i>> \in app => through < i /\ file[seg] = "sealed"
    <3>1. CASE arm = "commit"
      <4>1. file[seg] = "sealed"
        BY <1>0, <3>1 DEF HandInv
      <4> QED BY <1>2, <3>1, <4>1, BatchRecords
    <3>2. CASE arm # "commit"
      BY <1>2, <3>2
    <3> QED BY <3>1, <3>2
  <2>7. Hand' /\ HandInv' /\ twice' \subseteq AllRecs /\ seg' = 0
    <3>1. Hand'
      BY <1>1, LedgerAssumption DEF EmptyHand, Hand, Positions
    <3> QED BY <1>0, <1>1, <1>2, <2>6, <3>1 DEF EmptyHand, HandInv, Holding, Between
  <2>8. Slice(seg, cursor[seg], SegLen) \subseteq Recs(seg)
    <3>1. cursor[seg] \in Positions /\ SegLen \in Positions
      BY <1>0, <2>2 DEF Ledger, Positions
    <3> QED BY <2>2, <3>1, SliceIsRecords
  <2>9. Elsewhere
    BY <1>1, <1>2, <2>3, <2>6, <2>8 DEF Elsewhere
  <2>10. \A c \in Segs \ {seg} : Kept(c)
    BY <1>1, <2>5, <2>7, <2>9, OthersKept
  <2>11. PICK s \in Segs : s = seg
    BY <2>2
  <2>12. SegmentOk(s)'
    <3>1. Position(s)' = cursor'[s] /\ NoCarry.through = 0 /\ NoCarry.rejects = {}
      BY <2>2, <2>7, <2>11 DEF Position, NoCarry
    <3>2. /\ SegmentOk(s) /\ cursor[s] \in Nat /\ cursor[s] <= through /\ through \in Nat
          /\ carry[s].through \in Nat /\ file'[s] = file[s]
          /\ \/ /\ cursor'[s] = cursor[s] /\ owned'[s] = "none" /\ carry'[s] \in {carry[s], NoCarry}
             \/ cursor'[s] = 0 /\ carry'[s] = NoCarry /\ owned'[s] = "Parked"
      BY <1>1, <2>2, <2>5, <2>11
    <3>3. ASSUME NEW i \in 1..SegLen PROVE RecordOk(s, i)'
      <4>1. RecordOk(s, i) /\ i \in Nat /\ 0 < i /\ i <= SegLen
        BY <2>2, <3>2 DEF SegmentOk
      <4>2. /\ <<s, i>> \in applied => <<s, i>> \in applied'
            /\ <<s, i>> \in Handled' <=> <<s, i>> \in Handled \/ <<s, i>> \in app
            /\ <<s, i>> \in twice' =>
                 <<s, i>> \in twice \/ (<<s, i>> \in app /\ <<s, i>> \in Handled)
        BY <1>1, <1>2 DEF Handled
      <4>3. <<s, i>> \in app => cursor[s] < i /\ file[s] = "sealed"
        BY <2>6, <2>11, <3>2, <4>1
      <4>4. <<s, i>> \in Slice(seg, cursor[seg], SegLen) <=> cursor[s] < i
        BY <2>2, <2>11, <4>1, SliceRecords
      <4>5. <<s, i>> \in ambiguous' <=>
              <<s, i>> \in ambiguous \/ (cursor[s] < i /\ <<s, i>> \in Handled')
        BY <2>3, <4>4
      <4>6. /\ <<s, i>> \in carry'[s].rejects => <<s, i>> \in carry[s].rejects /\ carry'[s] = carry[s]
            /\ i <= carry'[s].through => carry'[s] = carry[s] /\ cursor'[s] = cursor[s]
        BY <3>1, <3>2, <4>1
      <4> HIDE DEF Handled, Position
      <4> QED BY <3>1, <3>2, <4>1, <4>2, <4>3, <4>5, <4>6 DEF RecordOk
    <3>4. carry'[s].rejects \subseteq Recs(s) /\ (file'[s] = "absent" => carry'[s] = NoCarry)
      BY <3>1, <3>2 DEF SegmentOk
    <3> QED BY <3>3, <3>4 DEF SegmentOk
  <2>13. \A c \in Segs : Kept(c) \/ SegmentOk(c)'
    BY <2>10, <2>11, <2>12
  <2> QED BY <1>1, <2>5, <2>7, <2>13, StepOk
<1> QED BY <1>3, <1>4

(***************************************************************************)
(* The induction.                                                          *)
(***************************************************************************)
LEMMA InitOk == Init => DeliveryInv
<1> SUFFICES ASSUME Init PROVE DeliveryInv
  OBVIOUS
<1>1. /\ file = [c \in Segs |-> IF c \in Replay THEN "sealed" ELSE "absent"]
      /\ cursor = [c \in Segs |-> 0] /\ carry = [c \in Segs |-> NoCarry]
      /\ owned = [c \in Segs |-> "none"]
      /\ chan = << >> /\ pending = << >> /\ backlog = Ascending(Replay)
      /\ arm = "head" /\ seg = 0 /\ through = 0 /\ readable = SegLen
      /\ applied = {} /\ dead = {} /\ ambiguous = {} /\ twice = {}
  BY DEF Init, LedgerInit
<1>2. NoCarry \in [through : Positions, rejects : SUBSET AllRecs] /\ 0 \in Positions
      /\ NoCarry.through = 0 /\ NoCarry.rejects = {}
  BY LedgerAssumption DEF NoCarry, Positions
<1>3. Queues
  <2>1. Ascending(Replay) \in Seq(Segs)
    BY AscendingType, DeliveryAssumption
  <2> QED BY <1>1, <2>1 DEF Queues
<1>4. Ledger /\ Hand /\ HandInv /\ twice \subseteq AllRecs
  BY <1>1, <1>2, LedgerAssumption DEF Ledger, Hand, HandInv, Holding, Between, Positions
<1>5. ASSUME NEW c \in Segs PROVE SegmentOk(c)
  <2>1. /\ cursor[c] = 0 /\ carry[c] = NoCarry /\ owned[c] = "none" /\ file[c] # "gone"
        /\ c # 0 /\ Position(c) = 0
    BY <1>1, LedgerAssumption DEF Position
  <2>2. ASSUME NEW i \in 1..SegLen PROVE RecordOk(c, i)
    <3>1. i \in Nat /\ 0 < i /\ <<c, i>> \notin Handled /\ <<c, i>> \notin twice
      BY <1>1, LedgerAssumption DEF Handled
    <3> HIDE DEF Handled, Position
    <3> QED BY <1>2, <2>1, <3>1 DEF RecordOk
  <2> QED BY <1>2, <2>1, <2>2 DEF SegmentOk
<1> QED BY <1>3, <1>4, <1>5 DEF DeliveryInv

LEMMA NextOk == DeliveryInv /\ [Next]_vars => DeliveryInv'
<1> SUFFICES ASSUME DeliveryInv, [Next]_vars PROVE DeliveryInv'
  OBVIOUS
<1>1. CASE UNCHANGED vars
  <2>1. /\ UNCHANGED <<file, cursor, carry, owned, arm, seg, through, readable>>
        /\ UNCHANGED ghostVars /\ UNCHANGED queueVars
    BY <1>1 DEF vars, ledgerVars, handVars
  <2>2. Queues'
    BY <2>1, QueueSteps DEF DeliveryInv
  <2> QED BY <2>1, <2>2, HandKept
<1>2. CASE \E c \in Segs : Seal(c)
  BY <1>2, SealOk
<1>3. CASE \/ \E c \in Segs : HandOff(c)
           \/ FreeDeadLetter \/ Control \/ PollTimer \/ WaitTimer
           \/ \E c \in Segs : CoolDownEnds(c)
  BY <1>3, EnvironmentOk
<1>4. CASE DrainStep
  BY <1>4, LoopOk, TakeOk, PutBackOk, AttemptOk, ProgressOk, EndsOk, PollOk, StopsOk, SettleOk,
     FailsOk, CommitIsOk, CarriedOk DEF DrainStep
<1>5. CASE Panic
  BY <1>5, PanicOk
<1> QED BY <1>1, <1>2, <1>3, <1>4, <1>5 DEF Next

\* The invariant holds in every run of the drain.
THEOREM DeliveryInvariance == Spec => []DeliveryInv
BY InitOk, NextOk, PTL DEF Spec

(***************************************************************************)
(* What it implies.                                                        *)
(***************************************************************************)
\* Slices up to a position are handled when every record in them is.
LEMMA SliceHandled ==
    ASSUME DeliveryInv, NEW c \in Segs, NEW a \in Positions, NEW b \in Positions, NEW S,
           \A i \in 1..SegLen : a < i /\ i <= b => <<c, i>> \in S
    PROVE  Slice(c, a, b) \subseteq S
BY SliceIsRecords

LEMMA CoveredFromInv == DeliveryInv => ProgressIsCovered
<1> SUFFICES ASSUME DeliveryInv PROVE ProgressIsCovered
  OBVIOUS
<1>0. Ledger /\ Hand /\ HandInv /\ 0 \in Positions
  BY LedgerAssumption DEF DeliveryInv, Positions
<1>1. ASSUME NEW c \in Segs
      PROVE  /\ Slice(c, 0, cursor[c]) \subseteq Handled
             /\ Slice(c, cursor[c], carry[c].through) \subseteq applied \cup carry[c].rejects
  <2>1. cursor[c] \in Positions /\ carry[c].through \in Positions
    BY <1>0 DEF Ledger
  <2>2. \A i \in 1..SegLen : RecordOk(c, i)
    BY DEF DeliveryInv, SegmentOk
  <2> HIDE DEF Handled
  <2>3. \A i \in 1..SegLen : 0 < i /\ i <= cursor[c] => <<c, i>> \in Handled
    BY <2>2 DEF RecordOk
  <2>4. \A i \in 1..SegLen : cursor[c] < i /\ i <= carry[c].through =>
                                <<c, i>> \in applied \cup carry[c].rejects
    BY <2>2 DEF RecordOk
  <2> QED BY <1>0, <2>1, <2>3, <2>4, SliceHandled
<1>2. ASSUME seg # 0 PROVE Slice(seg, 0, through) \subseteq Handled
  <2>1. seg \in Segs /\ through \in Positions /\ Position(seg) = through
    BY <1>0, <1>2 DEF Hand, Position
  <2>2. \A i \in 1..SegLen : RecordOk(seg, i)
    BY <2>1 DEF DeliveryInv, SegmentOk
  <2> HIDE DEF Handled, Position
  <2>3. \A i \in 1..SegLen : 0 < i /\ i <= through => <<seg, i>> \in Handled
    BY <2>1, <2>2 DEF RecordOk
  <2> QED BY <1>0, <2>1, <2>3, SliceHandled
<1> HIDE DEF Handled
<1> QED BY <1>1, <1>2 DEF ProgressIsCovered, ProgressIsDurable, CarryCoversBatch

LEMMA NothingLostFromInv == DeliveryInv => NothingLostOrTwice
<1> SUFFICES ASSUME DeliveryInv PROVE NothingLostOrTwice
  OBVIOUS
<1>1. \A c \in Segs : \A i \in 1..SegLen : RecordOk(c, i)
  BY DEF DeliveryInv, SegmentOk
<1> HIDE DEF Handled
<1>2. NothingLost
  <2>1. ASSUME NEW c \in Segs, file[c] = "gone" \/ owned[c] = "Confirm"
        PROVE  Recs(c) \subseteq Handled
    <3>1. \A i \in 1..SegLen : <<c, i>> \in Handled
      BY <1>1, <2>1 DEF RecordOk
    <3> QED BY <3>1 DEF Recs
  <2> QED BY <2>1 DEF NothingLost
<1>3. ASSUME NEW x \in twice PROVE x \in ambiguous
  <2>1. PICK c \in Segs : x \in Recs(c)
    BY DEF DeliveryInv, AllRecs
  <2>2. PICK i \in 1..SegLen : x = <<c, i>>
    BY <2>1 DEF Recs
  <2> QED BY <1>1, <2>2 DEF RecordOk
<1> QED BY <1>2, <1>3 DEF NothingLostOrTwice, DuplicatesExcused

\* record_progress, settle_dl_carry and the panic supervisor skip nothing: what
\* lies before a cursor or before the position of a running attempt is at the
\* sink or in dead_letter/, and a carry accounts for its whole sub-batch.
THEOREM ProgressStaysCovered == Spec => []ProgressIsCovered
BY DeliveryInvariance, CoveredFromInv, PTL

\* confirm_and_delete, done or owed, has every record at the sink or in
\* dead_letter/; and no record is handled twice within a run but for a failed
\* commit, a panic, a failed dead-letter write or a carry that did not fit.
THEOREM NothingLostNorTwice == Spec => []NothingLostOrTwice
BY DeliveryInvariance, NothingLostFromInv, PTL
=============================================================================
