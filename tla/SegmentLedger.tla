--------------------------- MODULE SegmentLedger ----------------------------
(***************************************************************************)
(* What the drain remembers of every segment (drain/ledger.rs) and what it *)
(* knows of dead_letter/ (drain/dead_letter.rs).  The supervisor owns the  *)
(* ledger: a panic of the drain thread does not lose it, a restart of the  *)
(* daemon does.                                                            *)
(*                                                                         *)
(* Sizes are counted in records.  A segment has SegLen of them, all        *)
(* readable unless an attempt finds otherwise.  The (dev, ino) pins are    *)
(* left out: no file is replaced under the drain here.                     *)
(***************************************************************************)
EXTENDS Naturals, FiniteSets, Sequences

CONSTANTS
    Segs,           \* the segments of this run, numbered by age
    SegLen,         \* records in a segment
    BatchSize,      \* Sink::max_batch_size
    DlCap,          \* dead_letter_max_bytes
    CarryMax,       \* DL_CARRY_MAX_BYTES
    StrandLimit     \* LOCAL_READ_STRAND_LIMIT

ASSUME LedgerAssumption ==
    /\ Segs \subseteq Nat \ {0} /\ IsFiniteSet(Segs)
    /\ SegLen \in Nat \ {0} /\ BatchSize \in Nat \ {0}
    /\ DlCap \in Nat /\ CarryMax \in Nat /\ StrandLimit \in Nat \ {0}

VARIABLES
    file,           \* file[c]: "absent" (not sealed yet), "sealed", "gone"
                    \* (confirmed and deleted) or "quarantine"
    cursor,         \* resume_from[c]: records of c durably handled
    carry,          \* dl_carry[c]: rejects an earlier attempt could not write
    cool,           \* segments inside their not_before cool-down
    owned,          \* owned[c]: "none", "Confirm", "Quarantine" or "Parked"
    panics,         \* panic_count[c]
    readFails,      \* local_read_failures[c]
    dlReal,         \* records really in dead_letter/
    dlKnown         \* DeadLetterWriter::total_bytes

ledgerVars == <<cursor, carry, cool, owned, panics, readFails>>
dlVars == <<dlReal, dlKnown>>

Positions == 0..SegLen
Recs(c) == {<<c, i>> : i \in 1..SegLen}
AllRecs == UNION {Recs(c) : c \in Segs}

\* The records of c in positions a+1 .. b.
Slice(c, a, b) == {<<c, i>> : i \in (a + 1)..b}

\* through: where the sub-batch ends; rejects: what it owes dead_letter/.
NoCarry == [through |-> 0, rejects |-> {}]

LedgerTypeOK ==
    /\ file \in [Segs -> {"absent", "sealed", "gone", "quarantine"}]
    /\ cursor \in [Segs -> Positions]
    /\ carry \in [Segs -> [through : Positions, rejects : SUBSET AllRecs]]
    /\ cool \subseteq Segs
    /\ owned \in [Segs -> {"none", "Confirm", "Quarantine", "Parked"}]
    /\ panics \in [Segs -> Nat]
    /\ readFails \in [Segs -> Nat]
    /\ dlReal \in Nat /\ dlKnown \in Nat

LedgerInit(replay) ==
    /\ file = [c \in Segs |-> IF c \in replay THEN "sealed" ELSE "absent"]
    /\ cursor = [c \in Segs |-> 0]
    /\ carry = [c \in Segs |-> NoCarry]
    /\ cool = {}
    /\ owned = [c \in Segs |-> "none"]
    /\ panics = [c \in Segs |-> 0]
    /\ readFails = [c \in Segs |-> 0]
    /\ dlReal = 0 /\ dlKnown = 0

(***************************************************************************)
(* Admission, exclusion, progress.                                         *)
(***************************************************************************)
\* admit: neither owned, nor parked, nor cooling down.
Admits(c) == owned[c] = "none" /\ c \notin cool

\* excludes: the rescan does not touch these.
Excludes(c) == owned[c] # "none" \/ c \in cool

\* record_progress: a prefix of length 0 records nothing.
RecordProgress(c, n) ==
    cursor' = IF n = 0 THEN cursor ELSE [cursor EXCEPT ![c] = n]

\* The records every other segment's carry holds.
OtherCarries(c) == UNION {carry[d].rejects : d \in Segs \ {c}}

\* set_dl_carry: refused when the sum would exceed the bound.
CarryFits(c, k) == Cardinality(OtherCarries(c)) + Cardinality(k.rejects) <= CarryMax

Stored(c, k) == IF CarryFits(c, k) THEN k ELSE NoCarry

\* forget: a segment that is confirmed, quarantined or parked.
ForgetAnd(c, why) ==
    /\ owned' = [owned EXCEPT ![c] = why]
    /\ cursor' = [cursor EXCEPT ![c] = 0]
    /\ carry' = [carry EXCEPT ![c] = NoCarry]
    /\ cool' = cool \ {c}
    /\ panics' = [panics EXCEPT ![c] = 0]
    /\ readFails' = [readFails EXCEPT ![c] = 0]

(***************************************************************************)
(* dead_letter/.                                                           *)
(***************************************************************************)
\* would_exceed_cap, by what the writer knows.
WouldExceedCap(n) == dlKnown + n > DlCap

\* A write larger than the whole cap is made anyway.
MayWrite(n) == ~WouldExceedCap(n) \/ n > DlCap

\* write_records.
DeadLetterWrite(n) == dlReal' = dlReal + n /\ dlKnown' = dlKnown + n

\* A failed write may leave a file the writer does not count.
DeadLetterLeaves(n) == dlReal' \in {dlReal, dlReal + n} /\ UNCHANGED dlKnown

\* rescan, and the scan of open.
DeadLetterRescan == dlKnown' = dlReal /\ UNCHANGED dlReal
=============================================================================
