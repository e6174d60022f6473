------------------------------ MODULE ShardDir ------------------------------
(***************************************************************************)
(* One shard directory of the write-ahead buffer (WAB), as the daemon      *)
(* uses it (wab/segment.rs) and as a POSIX file system keeps it.           *)
(*                                                                         *)
(* A segment is known by its counter: seg_<c>.wab while open,              *)
(* seg_<c>.wab.sealed once sealed, with seg_<c>.wab.confirmed beside it    *)
(* (the sidecar) once the drain has delivered it.  Every entry has two     *)
(* views: what a reader of the directory sees now, and what is on stable   *)
(* storage (suffix D).  fsync of the directory makes the second equal to   *)
(* the first.  File contents have the same split: a sequence of records,   *)
(* of which a prefix is synced.  The bytes of a record, the header, the    *)
(* sentinel and the checksums are abstracted away; the footer keeps the    *)
(* number of records it counts.                                            *)
(***************************************************************************)
EXTENDS Naturals, Sequences, FiniteSets

CONSTANTS
    DurableTier,    \* records pushed at the Durable tier
    BufferedTier,   \* records pushed at the Buffered tier
    Unwritable,     \* records write_record rejects before writing anything
    MaxSegments,    \* bound on segment counters
    SegmentMax,     \* wab_segment_max_bytes, in records
    MaxFaults       \* bound on injected I/O errors and panics

Records == DurableTier \cup BufferedTier \cup Unwritable

Seg == 1..MaxSegments

ASSUME DirAssumption ==
    /\ MaxSegments \in Nat
    /\ SegmentMax \in Nat \ {0}
    /\ MaxFaults \in Nat
    /\ DurableTier \cap BufferedTier = {}
    /\ Unwritable \cap (DurableTier \cup BufferedTier) = {}

VARIABLES
    name,           \* name[c]: "none", "wab" or "sealed", as the process sees it
    nameD,          \* the same on stable storage
    side,           \* counters whose .confirmed sidecar is visible
    sideD,          \* counters whose .confirmed sidecar is on stable storage
    content,        \* content[c]: the records written to the file
    synced,         \* synced[c]: how many of them are on stable storage
    hole,           \* files with a reported (and hence forgotten) writeback error
    footer,         \* footer[c]: the record count of the footer, 0 before one
    quarantined,    \* the files in quarantine/: <<counter, set of records>>
    faults          \* injected faults so far

fileVars == <<content, synced, hole, footer>>
dirVars == <<name, nameD, side, sideD, content, synced, hole, footer,
             quarantined>>

Names == {"none", "wab", "sealed"}

RangeOf(s) == {s[i] : i \in DOMAIN s}

\* The records of c an fsync has put on stable storage.
SyncedRecords(c) == {content[c][i] : i \in 1..synced[c]}

\* A file named after c with c's records, as quarantine/ keeps it.
QuarantineCopy(c) == <<c, RangeOf(content[c])>>

InQuarantine(r) == \E f \in quarantined : r \in f[2]

DirTypeOK ==
    /\ name \in [Seg -> Names]
    /\ nameD \in [Seg -> Names]
    /\ side \subseteq Seg
    /\ sideD \subseteq Seg
    /\ content \in [Seg -> Seq(Records)]
    /\ synced \in [Seg -> Nat]
    /\ hole \subseteq Seg
    /\ footer \in [Seg -> Nat]
    /\ quarantined \subseteq Seg \X SUBSET Records
    /\ faults \in Nat

DirInit ==
    /\ name = [c \in Seg |-> "none"]
    /\ nameD = [c \in Seg |-> "none"]
    /\ side = {}
    /\ sideD = {}
    /\ content = [c \in Seg |-> << >>]
    /\ synced = [c \in Seg |-> 0]
    /\ hole = {}
    /\ footer = [c \in Seg |-> 0]
    /\ quarantined = {}
    /\ faults = 0

(***************************************************************************)
(* Faults are budgeted: each injected I/O error or panic spends one.       *)
(***************************************************************************)
Fault == faults < MaxFaults /\ faults' = faults + 1
NoFault == UNCHANGED faults

(***************************************************************************)
(* File-system operations.                                                 *)
(***************************************************************************)
\* fsync_parent_dir: every entry of the directory, the one just changed
\* included, is on stable storage.
FsyncDir == nameD' = name' /\ sideD' = side'

\* WabSegment::create: O_EXCL create, header, directory fsync.
CreateFile(c) ==
    /\ name' = [name EXCEPT ![c] = "wab"]
    /\ side' = side
    /\ FsyncDir
    /\ content' = [content EXCEPT ![c] = << >>]
    /\ synced' = [synced EXCEPT ![c] = 0]
    /\ hole' = hole \ {c}
    /\ footer' = [footer EXCEPT ![c] = 0]

\* WabSegment::create failing: either nothing was created, or the file is
\* there and its header write or its directory fsync failed.
CreateFileFails(c) ==
    /\ \/ UNCHANGED <<name, fileVars>>
       \/ /\ name' = [name EXCEPT ![c] = "wab"]
          /\ content' = [content EXCEPT ![c] = << >>]
          /\ synced' = [synced EXCEPT ![c] = 0]
          /\ hole' = hole \ {c}
          /\ footer' = [footer EXCEPT ![c] = 0]
    /\ UNCHANGED <<nameD, side, sideD>>

\* A successful fsync of c.  After a writeback error the kernel has dropped
\* the failed pages, so a later fsync of the same file reports success and
\* adds nothing.
SyncedAfterFsync(c) == IF c \in hole THEN synced[c] ELSE Len(content[c])

\* rename(2) of an open segment to its sealed name, not yet durable.
RenameSealed(c) == name' = [name EXCEPT ![c] = "sealed"]

(***************************************************************************)
(* Power loss keeps, for every entry, its stable or its latest version,    *)
(* and of every file at least the synced prefix.                           *)
(***************************************************************************)
LosePower ==
    \E lateNames \in SUBSET {c \in Seg : name[c] # nameD[c]},
       lateSides \in SUBSET ((side \cup sideD) \ (side \cap sideD)),
       cut \in {f \in [Seg -> 0..SegmentMax] :
                    \A c \in Seg : f[c] \in synced[c]..Len(content[c])} :
        /\ name' = [c \in Seg |-> IF c \in lateNames THEN name[c] ELSE nameD[c]]
        /\ nameD' = name'
        /\ side' = (side \cap sideD) \cup lateSides
        /\ sideD' = side'
        /\ content' = [c \in Seg |-> SubSeq(content[c], 1, cut[c])]
        /\ synced' = cut
        /\ hole' = {}
        /\ UNCHANGED <<footer, quarantined>>
=============================================================================
