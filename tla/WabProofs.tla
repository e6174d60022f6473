----------------------------- MODULE WabProofs ------------------------------
(***************************************************************************)
(* The invariant of WabInvariant is inductive, for every value of the      *)
(* constants.  Each lemma of the induction first shows what a step does to *)
(* the directory (KeepsAll, FlusherTouches, DrainTouches) and then, action *)
(* by action, the conjuncts the action can disturb.                        *)
(***************************************************************************)
EXTENDS WabInvariant, TLAPS, SequenceTheorems

-----------------------------------------------------------------------------
(* Every step of Wab keeps the types of its variables. *)

\* The order in which a scan queues what it finds is a sequence of segments.
LEMMA AscendingType ==
    ASSUME NEW S \in SUBSET Seg, NEW q \in Ascending(S)
    PROVE  q \in Seq(Seg)
<1>1. PICK n \in 0..MaxSegments : q \in [1..n -> S]
  BY DEF Ascending
<1>2. n \in Nat
  BY DirAssumption, <1>1
<1> QED BY <1>1, <1>2

\* An empty directory and a daemon that has not started have their types.
LEMMA InitType == Init => TypeOK
<1> SUFFICES ASSUME Init PROVE TypeOK
  OBVIOUS
<1>1. DirTypeOK
  BY DirAssumption DEF Init, DirInit, DirTypeOK, Names
<1>2. FlusherTypeOK
  <2>1. coord \in [Records -> ({0} \cup Seg) \X Nat]
    BY DEF Init, FlusherInit, None
  <2>2. phase \in Phases
    BY DEF Init, FlusherInit, Phases
  <2> QED BY <2>1, <2>2 DEF Init, FlusherInit, FlusherTypeOK
<1>3. DrainTypeOK
  <2>1. edge \in BOOLEAN
    BY Zenon DEF Init, DrainInit
  <2> QED BY <2>1 DEF Init, DrainInit, DrainTypeOK
<1>4. powerLost \in BOOLEAN
  BY Zenon DEF Init
<1> QED BY <1>1, <1>2, <1>3, <1>4 DEF Init, TypeOK

\* Overwriting one value of a function keeps its type, inside or outside the
\* domain.
LEMMA ExceptType ==
    ASSUME NEW S, NEW T, NEW f \in [S -> T], NEW x, NEW v, x \in S => v \in T
    PROVE  [f EXCEPT ![x] = v] \in [S -> T]
OBVIOUS

\* What an fsync covers is a number of records.
LEMMA SyncedType ==
    ASSUME DirTypeOK, NEW c \in Seg
    PROVE  /\ SyncedAfterFsync(c) \in Nat /\ Len(content[c]) \in Nat
           /\ content[c] \in Seq(Records)
BY DEF SyncedAfterFsync, DirTypeOK

\* Answering producers gives every record an answer.
LEMMA ReplyType ==
    ASSUME FlusherTypeOK, NEW rs, NEW a \in {"new", "queued", "acked", "nacked", "unknown"}
    PROVE  Reply(rs, a) \in [Records -> {"new", "queued", "acked", "nacked", "unknown"}]
BY DEF Reply, FlusherTypeOK

\* flush_batch's answer to a failed write_record keeps the writer's types.
LEMMA NackType ==
    ASSUME FlusherTypeOK, batch # << >>,
           NEW why \in {"RecordRejected", "SegmentDropped"}, NackFailedWrite(why)
    PROVE  /\ status' \in [Records -> {"new", "queued", "acked", "nacked", "unknown"}]
           /\ pending' \subseteq Records
           /\ batch' \in Seq(Records)
           /\ lastFail' \in {"none", "RecordRejected", "SegmentDropped"}
BY ReplyType DEF NackFailedWrite, FlusherTypeOK

\* So does the end of hand_off, with the acks a rotation promotes.
LEMMA HandOffEndsType ==
    ASSUME FlusherTypeOK, Sealing /\ cause = "rotation" => batch # << >>, fpc = "handoff",
           HandOffEnds, chan' \in Seq(Seg)
    PROVE  FlusherTypeOK'
<1>1. CASE cause = "rotation"
  <2>1. status' \in [Records -> {"new", "queued", "acked", "nacked", "unknown"}]
    BY <1>1, ReplyType DEF HandOffEnds, PromoteAcks
  <2>2. batch' \in Seq(Records)
    <3>1. batch \in Seq(Records) /\ batch # << >>
      BY <1>1 DEF FlusherTypeOK, Sealing
    <3>2. batch' = Tail(batch)
      BY <1>1 DEF HandOffEnds, PromoteAcks
    <3> QED BY <3>1, <3>2, HeadTailProperties
  <2>3. Head(batch) \in Records
    BY <1>1 DEF FlusherTypeOK, Sealing
  <2>4. promoted' \subseteq Records /\ pending' \subseteq Records
    BY <1>1, <2>3 DEF HandOffEnds, PromoteAcks, FlusherTypeOK
  <2> QED BY <1>1, <2>1, <2>2, <2>4 DEF HandOffEnds, PromoteAcks, FlusherTypeOK
<1>2. CASE cause # "rotation"
  BY <1>2 DEF HandOffEnds, AfterSeal, FlusherTypeOK
<1> QED BY <1>1, <1>2

\* Every step of flusher_thread, flush_batch, ShardWriter and the panic
\* supervisor keeps the types of the directory and of the flusher.
LEMMA FlusherStepType ==
    ASSUME DirTypeOK, FlusherTypeOK, SealingInv, FlusherStep(DrainGone)
    PROVE  DirTypeOK' /\ FlusherTypeOK'
<1> USE DEF dirVars, fileVars, writerVars, Fault, NoFault
<1> DEFINE Answer == {"new", "queued", "acked", "nacked", "unknown"}
<1>0. {"none", "wab", "sealed"} = Names
  BY DEF Names
<1>1. ASSUME NEW r \in Records, Push(r) PROVE DirTypeOK' /\ FlusherTypeOK'
  <2>1. inbox' \in Seq(Records)
    <3>1. inbox \in Seq(Records) /\ (inbox' = inbox \/ inbox' = Append(inbox, r))
      BY <1>1 DEF Push, FlusherTypeOK
    <3> QED BY <3>1
  <2>2. status' \in [Records -> Answer]
    BY <1>1, ReplyType DEF Push
  <2> QED BY <1>1, <2>1, <2>2 DEF Push, DirTypeOK, FlusherTypeOK
<1>2. CASE ScanCounter
  BY <1>2, DirAssumption DEF ScanCounter, DirTypeOK, FlusherTypeOK
<1>3. CASE ScanFails
  BY <1>3, ReplyType DEF ScanFails, DirTypeOK, FlusherTypeOK
<1>4. CASE Receive
  <2>1. PICK n \in 1..Len(inbox) : /\ batch' = SubSeq(inbox, 1, n)
                                   /\ inbox' = SubSeq(inbox, n + 1, Len(inbox))
    BY <1>4 DEF Receive
  <2>2. inbox \in Seq(Records)
    BY DEF FlusherTypeOK
  <2> HIDE DEF FlusherTypeOK
  <2>3. batch' \in Seq(Records)
    BY <2>1, <2>2
  <2>4. inbox' \in Seq(Records)
    BY <2>1, <2>2
  <2> QED BY <1>4, <2>3, <2>4 DEF Receive, DirTypeOK, FlusherTypeOK
<1>5. CASE RejectRecord
  BY <1>5, NackType DEF RejectRecord, DirTypeOK, FlusherTypeOK
<1>6. CASE OpenSegment
  <2>1. DirTypeOK'
    <3>1. name' \in [Seg -> Names] /\ nameD' \in [Seg -> Names]
      BY <1>6, <1>0, ExceptType DEF OpenSegment, CreateFile, FsyncDir, DirTypeOK
    <3>2. content' \in [Seg -> Seq(Records)]
      BY <1>6, ExceptType DEF OpenSegment, CreateFile, DirTypeOK
    <3>3. synced' \in [Seg -> Nat] /\ footer' \in [Seg -> Nat]
      BY <1>6, ExceptType DEF OpenSegment, CreateFile, DirTypeOK
    <3> QED BY <1>6, <3>1, <3>2, <3>3 DEF OpenSegment, CreateFile, FsyncDir, DirTypeOK
  <2>2. FlusherTypeOK'
    BY <1>6 DEF OpenSegment, FlusherTypeOK
  <2> QED BY <2>1, <2>2
<1>7. CASE OpenFails
  <2>1. DirTypeOK'
    <3>1. name' \in [Seg -> Names]
      BY <1>7, <1>0, ExceptType DEF OpenFails, CreateFileFails, DirTypeOK
    <3>2. content' \in [Seg -> Seq(Records)]
      <4>1. content' = content \/ content' = [content EXCEPT ![nextCounter] = << >>]
        BY <1>7 DEF OpenFails, CreateFileFails
      <4>2. [content EXCEPT ![nextCounter] = << >>] \in [Seg -> Seq(Records)]
        BY ExceptType, EmptySeq DEF DirTypeOK
      <4> QED BY <4>1, <4>2 DEF DirTypeOK
    <3>3. synced' \in [Seg -> Nat] /\ footer' \in [Seg -> Nat]
      <4>1. /\ synced' = synced \/ synced' = [synced EXCEPT ![nextCounter] = 0]
            /\ footer' = footer \/ footer' = [footer EXCEPT ![nextCounter] = 0]
        BY <1>7 DEF OpenFails, CreateFileFails
      <4>2. /\ [synced EXCEPT ![nextCounter] = 0] \in [Seg -> Nat]
            /\ [footer EXCEPT ![nextCounter] = 0] \in [Seg -> Nat]
        BY ExceptType DEF DirTypeOK
      <4> QED BY <4>1, <4>2 DEF DirTypeOK
    <3>4. hole' \subseteq Seg
      BY <1>7 DEF OpenFails, CreateFileFails, DirTypeOK
    <3> QED BY <1>7, <3>1, <3>2, <3>3, <3>4 DEF OpenFails, CreateFileFails, DirTypeOK
  <2>2. FlusherTypeOK'
    <3>1. /\ status' \in [Records -> Answer] /\ pending' \subseteq Records
          /\ batch' \in Seq(Records)
          /\ lastFail' \in {"none", "RecordRejected", "SegmentDropped"}
      BY <1>7, NackType DEF OpenFails, Writing
    <3> QED BY <1>7, <3>1 DEF OpenFails, FlusherTypeOK
  <2> QED BY <2>1, <2>2
<1>8. CASE AppendRecord
  <2>0. Head(batch) \in Records /\ Tail(batch) \in Seq(Records) /\ active \in Seg
    BY <1>8 DEF AppendRecord, Writing, FlusherTypeOK
  <2>1. content' \in [Seg -> Seq(Records)]
    BY <1>8, <2>0 DEF AppendRecord, DirTypeOK
  <2>2. coord' \in [Records -> ({0} \cup Seg) \X Nat]
    <3>1. content[active] \in Seq(Records)
      BY <2>0 DEF DirTypeOK
    <3>2. <<active, Len(content[active]) + 1>> \in ({0} \cup Seg) \X Nat
      BY <3>1, <2>0
    <3> QED BY <1>8, <3>2, ExceptType DEF AppendRecord, FlusherTypeOK
  <2>3. DirTypeOK'
    BY <1>8, <2>1 DEF AppendRecord, DirTypeOK
  <2>4. status' \in [Records -> Answer]
    <3>1. \/ status' = status
          \/ status' = Reply({Head(batch)}, "acked")
      BY <1>8 DEF AppendRecord
    <3> QED BY <3>1, ReplyType DEF FlusherTypeOK
  <2>5. pending' \subseteq Records /\ batch' \in Seq(Records)
    BY <1>8, <2>0 DEF AppendRecord, FlusherTypeOK
  <2>6. /\ sealing' \in {0} \cup Seg /\ active' \in {0} \cup Seg
        /\ cause' \in {"rotation", "timed", "shutdown"}
        /\ lastFail' \in {"none", "RecordRejected", "SegmentDropped"}
        /\ fpc' \in {"write", "finalize"}
    BY <1>8, <2>0 DEF AppendRecord, FlusherTypeOK, Writing
  <2> QED BY <1>8, <2>2, <2>3, <2>4, <2>5, <2>6 DEF AppendRecord, FlusherTypeOK
<1>9. CASE AppendFails
  <2>1. /\ status' \in [Records -> Answer] /\ pending' \subseteq Records
        /\ batch' \in Seq(Records)
        /\ lastFail' \in {"none", "RecordRejected", "SegmentDropped"}
    BY <1>9, NackType DEF AppendFails, Writing
  <2> QED BY <1>9, <2>1 DEF AppendFails, DirTypeOK, FlusherTypeOK
<1>10. CASE GroupCommit
  <2>1. synced' \in [Seg -> Nat]
    BY <1>10, SyncedType, ExceptType DEF GroupCommit, DirTypeOK
  <2> QED BY <1>10, <2>1, ReplyType DEF GroupCommit, DirTypeOK, FlusherTypeOK
<1>11. CASE GroupCommitFails
  <2>1. DirTypeOK'
    BY <1>11 DEF GroupCommitFails, DirTypeOK, FlusherTypeOK
  <2>2. status' \in [Records -> Answer]
    BY <1>11 DEF GroupCommitFails, FlusherTypeOK
  <2> QED BY <1>11, <2>1, <2>2 DEF GroupCommitFails, FlusherTypeOK
<1>12. CASE TimedSeal
  BY <1>12 DEF TimedSeal, DirTypeOK, FlusherTypeOK
<1>13. CASE InputClosed
  BY <1>13 DEF InputClosed, DirTypeOK, FlusherTypeOK
<1>14. CASE Finalize
  <2>1. synced' \in [Seg -> Nat] /\ footer' \in [Seg -> Nat]
    BY <1>14, SyncedType, ExceptType DEF Finalize, DirTypeOK
  <2> QED BY <1>14, <2>1 DEF Finalize, DirTypeOK, FlusherTypeOK
<1>15. CASE Rename
  <2>1. name' \in [Seg -> Names]
    BY <1>15, <1>0, ExceptType DEF Rename, RenameSealed, DirTypeOK
  <2> QED BY <1>15, <2>1 DEF Rename, DirTypeOK, FlusherTypeOK
<1>16. CASE SyncRename
  BY <1>16 DEF SyncRename, FsyncDir, DirTypeOK, FlusherTypeOK
<1>17. CASE SealFails
  <2>1. DirTypeOK'
    BY <1>17 DEF SealFails, DirTypeOK, SealingInv, Sealing
  <2>2. CASE cause = "rotation"
    <3>1. batch # << >>
      BY <1>17, <2>2 DEF SealFails, SealingInv, Sealing
    <3> QED BY <1>17, <2>1, <2>2, <3>1, NackType DEF SealFails, FlusherTypeOK
  <2>3. CASE cause # "rotation"
    BY <1>17, <2>1, <2>3 DEF SealFails, AfterSeal, FlusherTypeOK
  <2> QED BY <2>2, <2>3
<1>18. CASE HandOff(DrainGone)
  <2>1. chan' \in Seq(Seg)
    BY <1>18 DEF HandOff, FlusherTypeOK, SealingInv, Sealing
  <2> QED BY <1>18, <2>1, HandOffEndsType
          DEF HandOff, HandOffEnds, SealingInv, DirTypeOK
<1>19. CASE NotHandedOff(DrainGone)
  BY <1>19, HandOffEndsType
  DEF NotHandedOff, HandOffEnds, SealingInv, DirTypeOK, FlusherTypeOK
<1>20. CASE FlusherPanic
  <2>1. status' \in [Records -> Answer]
    BY <1>20, ReplyType DEF FlusherPanic
  <2>2. /\ batch' \in Seq(Records) /\ inbox' \in Seq(Records)
        /\ pending' \subseteq Records /\ promoted' \subseteq Records
    BY <1>20 DEF FlusherPanic, FreshWriter, FlusherTypeOK
  <2>3. fpc' \in {"offline", "scan"} /\ respawns' \in Nat
    BY <1>20 DEF FlusherPanic, FlusherTypeOK
  <2>4. /\ active' \in {0} \cup Seg /\ sealing' \in {0} \cup Seg
        /\ cause' = "timed" /\ nextCounter' \in Nat \ {0} /\ lastFail' = "none"
    BY <1>20 DEF FlusherPanic, FreshWriter
  <2>5. phase' = phase /\ chan' = chan /\ coord' = coord
    BY <1>20 DEF FlusherPanic
  <2>6. FlusherTypeOK'
    BY <2>1, <2>2, <2>3, <2>4, <2>5 DEF FlusherTypeOK
  <2> QED BY <1>20, <2>6 DEF FlusherPanic, DirTypeOK
<1> QED BY <1>1, <1>2, <1>3, <1>4, <1>5, <1>6, <1>7, <1>8, <1>9, <1>10, <1>11,
           <1>12, <1>13, <1>14, <1>15, <1>16, <1>17, <1>18, <1>19, <1>20
        DEF FlusherStep

\* A copy in quarantine/ is a counter and a set of records.
LEMMA QuarantineType ==
    ASSUME DirTypeOK, NEW c \in Seg
    PROVE  QuarantineCopy(c) \in Seg \X SUBSET Records
<1>1. content[c] \in Seq(Records)
  BY DEF DirTypeOK
<1>2. RangeOf(content[c]) \subseteq Records
  BY <1>1 DEF RangeOf
<1> QED BY <1>2 DEF QuarantineCopy

\* The prefix an attempt has handled consists of records of the segment.
LEMMA FirstRecordsType ==
    ASSUME DirTypeOK, NEW c \in Seg, NEW k \in 0..Len(content[c])
    PROVE  FirstRecords(c, k) \subseteq RangeOf(content[c]) /\ FirstRecords(c, k) \subseteq Records
<1>1. content[c] \in Seq(Records)
  BY DEF DirTypeOK
<1> QED BY <1>1 DEF FirstRecords, RangeOf

\* The drain's scan, as the directory sees it.
LEMMA ScanType ==
    ASSUME DirTypeOK, DrainTypeOK, NEW S \in SUBSET Seg, NEW found \in SUBSET Seg,
           ScanSealed(S, found), UNCHANGED fileVars
    PROVE  DirTypeOK' /\ unproven' \subseteq Seg
<1>1. /\ faults' \in Nat /\ unproven' \subseteq Seg
  <2>1. faults' \in Nat
    <3>1. NoFault \/ Fault
      BY Zenon DEF ScanSealed
    <3> QED BY <3>1 DEF Fault, NoFault, DirTypeOK
  <2>2. unproven' = unproven \/ \E c \in S : unproven' = unproven \cup {c}
    BY DEF ScanSealed, Orphans
  <2> QED BY <2>1, <2>2 DEF DrainTypeOK
<1>2. PICK orphans \in SUBSET Seg, corrupt \in SUBSET Seg : DeleteOrphans(orphans, corrupt)
  BY DEF ScanSealed, Orphans
<1>3. name' \in [Seg -> Names] /\ nameD' \in [Seg -> Names]
  BY <1>2 DEF DeleteOrphans, DirTypeOK, Names
<1>4. side' \subseteq Seg /\ sideD' \subseteq Seg
  BY <1>2 DEF DeleteOrphans, DirTypeOK
<1>5. quarantined' \subseteq Seg \X SUBSET Records
  <2>1. \A c \in corrupt : QuarantineCopy(c) \in Seg \X SUBSET Records
    BY QuarantineType
  <2> QED BY <1>2, <2>1 DEF DeleteOrphans, DirTypeOK
<1> QED BY <1>1, <1>3, <1>4, <1>5 DEF DirTypeOK, fileVars

\* recovery::quarantine moves a file and keeps the directory's types.
LEMMA MoveType ==
    ASSUME DirTypeOK, NEW c \in Seg, MoveToQuarantine(c)
    PROVE  name' \in [Seg -> Names] /\ quarantined' \subseteq Seg \X SUBSET Records
<1>1. "none" \in Names
  BY DEF Names
<1>2. name' \in [Seg -> Names]
  BY <1>1, ExceptType DEF MoveToQuarantine, DirTypeOK
<1> QED BY <1>2, QuarantineType DEF MoveToQuarantine, DirTypeOK

\* An attempt's partial delivery.
LEMMA HandledType ==
    ASSUME DirTypeOK, DrainTypeOK, NEW c \in Seg,
           \E k \in 0..Len(content[c]) : handled' = handled \cup FirstRecords(c, k)
    PROVE  handled' \subseteq Records
BY FirstRecordsType DEF DrainTypeOK

\* What a cut-off attempt has handled is part of a sealed segment.
LEMMA ReachType ==
    ASSUME DirTypeOK, InHandInv, NEW k \in 0..InReach
    PROVE  \/ FirstRecords(dseg, k) = {}
           \/ /\ dseg \in Seg /\ name[dseg] = "sealed"
              /\ FirstRecords(dseg, k) \subseteq RangeOf(content[dseg])
              /\ FirstRecords(dseg, k) \subseteq Records
<1>1. CASE dpc = "deliver" /\ name[dseg] = "sealed"
  <2>1. dseg \in Seg /\ k \in 0..Len(content[dseg])
    BY <1>1 DEF InHandInv, InReach
  <2> QED BY <1>1, <2>1, FirstRecordsType
<1>2. CASE ~(dpc = "deliver" /\ name[dseg] = "sealed")
  <2>1. k = 0
    BY <1>2 DEF InReach
  <2> QED BY <2>1 DEF FirstRecords
<1> QED BY <1>1, <1>2

\* Every step of the drain thread, its ledger and its supervisor keeps the
\* types of the directory, of the channel and of the drain.
LEMMA DrainStepType ==
    ASSUME DirTypeOK, FlusherTypeOK, DrainTypeOK, InHandInv, DrainStep
    PROVE  DirTypeOK' /\ FlusherTypeOK' /\ DrainTypeOK'
<1> USE DEF fileVars, panicVars
<1> DEFINE Owed == {"none", "Sidecar", "Delete", "Quarantine", "Parked"}
<1> DEFINE Goal == DirTypeOK' /\ FlusherTypeOK' /\ DrainTypeOK'
<1>0. ASSUME UNCHANGED flusherVars PROVE FlusherTypeOK'
  BY <1>0 DEF flusherVars, writerVars, FlusherTypeOK
<1>00. ASSUME UNCHANGED dirVars, NoFault \/ Fault PROVE DirTypeOK'
  BY <1>00 DEF dirVars, NoFault, Fault, DirTypeOK
<1>1. CASE TakeFromChannel
  <2>1. Head(chan) \in Seg /\ Tail(chan) \in Seq(Seg)
    BY <1>1, HeadTailProperties DEF TakeFromChannel, FlusherTypeOK
  <2>2. DrainTypeOK'
    BY <1>1, <2>1 DEF TakeFromChannel, Admit, DrainTypeOK
  <2>3. FlusherTypeOK'
    BY <1>1, <2>1 DEF TakeFromChannel, writerVars, FlusherTypeOK
  <2> QED BY <1>1, <1>00, <2>2, <2>3 DEF TakeFromChannel
<1>2. CASE TakeFromQueue
  <2>1. Head(todo) \in Seg /\ Tail(todo) \in Seq(Seg)
    BY <1>2, HeadTailProperties DEF TakeFromQueue, DrainTypeOK
  <2>2. DrainTypeOK'
    BY <1>2, <2>1 DEF TakeFromQueue, Admit, DrainTypeOK
  <2> QED BY <1>2, <1>0, <1>00, <2>2 DEF TakeFromQueue
<1>3. CASE SegmentGone
  BY <1>3, <1>0, <1>00 DEF SegmentGone, NextSegment, DrainTypeOK
<1>4. CASE DeliverAll
  <2>1. content[dseg] \in Seq(Records)
    BY <1>4 DEF DeliverAll, InHandInv, DirTypeOK
  <2>2. handled' \subseteq Records
    BY <1>4, <2>1 DEF DeliverAll, RangeOf, DrainTypeOK
  <2> QED BY <1>4, <1>0, <1>00, <2>2 DEF DeliverAll, DrainTypeOK
<1>5. CASE Strand
  <2>1. handled' \subseteq Records
    BY <1>5, HandledType DEF Strand, InHandInv
  <2>2. edge' \in BOOLEAN
    BY <1>5 DEF Strand, DrainTypeOK
  <2> QED BY <1>5, <1>0, <1>00, <2>1, <2>2 DEF Strand, NextSegment, DrainTypeOK
<1>6. CASE Park
  <2>1. owned' \in [Seg -> Owed]
    BY <1>6, ExceptType DEF Park, DrainTypeOK
  <2> QED BY <1>6, <1>0, <1>00, <2>1 DEF Park, NextSegment, DrainTypeOK
<1>7. CASE QuarantineSegment
  <2>1. handled' \subseteq Records
    BY <1>7, HandledType DEF QuarantineSegment, InHandInv
  <2>2. name' \in [Seg -> Names] /\ quarantined' \subseteq Seg \X SUBSET Records
    BY <1>7, MoveType DEF QuarantineSegment, InHandInv
  <2>3. faults' \in Nat
    BY <1>7 DEF QuarantineSegment, Unreadable, Fault, NoFault, DirTypeOK
  <2>4. DirTypeOK'
    BY <1>7, <2>2, <2>3 DEF QuarantineSegment, DirTypeOK
  <2>5. DrainTypeOK'
    BY <1>7, <2>1 DEF QuarantineSegment, NextSegment, DrainTypeOK
  <2> QED BY <1>7, <1>0, <2>4, <2>5 DEF QuarantineSegment
<1>8. CASE QuarantineMoveFails
  <2>1. handled' \subseteq Records
    BY <1>8, HandledType DEF QuarantineMoveFails, InHandInv
  <2>2. owned' \in [Seg -> Owed]
    BY <1>8, ExceptType DEF QuarantineMoveFails, DrainTypeOK
  <2> QED BY <1>8, <1>0, <1>00, <2>1, <2>2 DEF QuarantineMoveFails, NextSegment, DrainTypeOK
<1>9. CASE WriteSidecar
  <2>1. owned' \in [Seg -> Owed]
    BY <1>9, ExceptType DEF WriteSidecar, DrainTypeOK
  <2>2. dpc' \in {"idle", "sidesync"} /\ dseg' \in {0} \cup Seg
    BY <1>9 DEF WriteSidecar, NextSegment, DrainTypeOK
  <2>3. DirTypeOK'
    BY <1>9 DEF WriteSidecar, NoFault, DirTypeOK, InHandInv
  <2> QED BY <1>9, <1>0, <2>1, <2>2, <2>3 DEF WriteSidecar, DrainTypeOK
<1>10. CASE SyncSidecar
  <2>1. DirTypeOK'
    BY <1>10 DEF SyncSidecar, FsyncDir, NoFault, DirTypeOK
  <2> QED BY <1>10, <1>0, <2>1 DEF SyncSidecar, DrainTypeOK
<1>11. CASE SidecarFails
  <2>1. owned' \in [Seg -> Owed]
    BY <1>11, ExceptType DEF SidecarFails, DrainTypeOK
  <2> QED BY <1>11, <1>0, <1>00, <2>1 DEF SidecarFails, NextSegment, DrainTypeOK
<1>12. CASE DeleteSegment
  <2>1. owned' \in [Seg -> Owed]
    BY <1>12, ExceptType DEF DeleteSegment, DrainTypeOK
  <2>2. name' \in [Seg -> Names]
    BY <1>12, ExceptType DEF DeleteSegment, DirTypeOK, Names
  <2>3. DirTypeOK'
    BY <1>12, <2>2 DEF DeleteSegment, NoFault, DirTypeOK
  <2> QED BY <1>12, <1>0, <2>1, <2>3 DEF DeleteSegment, NextSegment, DrainTypeOK
<1>13. CASE DeleteFails
  <2>1. owned' \in [Seg -> Owed]
    BY <1>13, ExceptType DEF DeleteFails, DrainTypeOK
  <2> QED BY <1>13, <1>0, <1>00, <2>1 DEF DeleteFails, NextSegment, DrainTypeOK
<1>14. ASSUME NEW c \in Seg, RetryDisposition(c) PROVE Goal
  <2>1. owned[c] \in {"Sidecar", "Delete", "Quarantine"}
    BY <1>14 DEF RetryDisposition, DrainTypeOK
  <2>2. CASE owned[c] \in {"Sidecar", "Delete"}
    <3>1. UNCHANGED <<name, quarantined, owned>> /\ dseg' = c /\ dpc' \in {"sidecar", "delete"}
      BY <1>14, <2>2 DEF RetryDisposition
    <3>2. DirTypeOK'
      BY <1>14, <3>1 DEF RetryDisposition, NoFault, DirTypeOK
    <3> QED BY <1>14, <1>0, <3>1, <3>2 DEF RetryDisposition, DrainTypeOK
  <2>3. CASE owned[c] = "Quarantine"
    <3>1. /\ MoveToQuarantine(c) /\ UNCHANGED <<dpc, dseg>>
          /\ owned' = [owned EXCEPT ![c] = "none"]
      BY <1>14, <2>3 DEF RetryDisposition
    <3>2. owned' \in [Seg -> Owed]
      BY <3>1, ExceptType DEF DrainTypeOK
    <3>3. DirTypeOK'
      BY <1>14, <3>1, MoveType DEF RetryDisposition, NoFault, DirTypeOK
    <3> QED BY <1>14, <1>0, <3>1, <3>2, <3>3 DEF RetryDisposition, DrainTypeOK
  <2> QED BY <2>1, <2>2, <2>3
<1>15. CASE Rescan \/ OperatorRescan
  <2>1. PICK found \in SUBSET Seg :
          /\ ScanSealed({c \in Seg : owned[c] = "none"}, found)
          /\ \E q \in Ascending(found \ (RangeOf(todo \o chan) \cup {dseg})) :
                todo' = (todo \o chan) \o q
    BY <1>15 DEF Rescan, OperatorRescan, Requeue
  <2>2. DirTypeOK' /\ unproven' \subseteq Seg
    BY <1>15, <2>1, ScanType DEF Rescan, OperatorRescan, Requeue
  <2>3. todo' \in Seq(Seg)
    <3>1. todo \o chan \in Seq(Seg)
      BY ConcatProperties DEF DrainTypeOK, FlusherTypeOK
    <3> QED BY <2>1, <3>1, AscendingType, ConcatProperties
  <2>4. edge' \in BOOLEAN
    BY <1>15, Zenon DEF Rescan, OperatorRescan, DrainTypeOK
  <2>5. DrainTypeOK'
    BY <1>15, <2>2, <2>3, <2>4 DEF Rescan, OperatorRescan, Requeue, DrainTypeOK
  <2>6. FlusherTypeOK'
    <3>1. Requeue
      BY <1>15 DEF Rescan, OperatorRescan
    <3>2. chan' \in Seq(Seg)
      BY <3>1 DEF Requeue
    <3> QED BY <3>1, <3>2 DEF Requeue, writerVars, FlusherTypeOK
  <2> QED BY <2>2, <2>5, <2>6
<1>16. CASE RescanFails
  <2>1. todo' \in Seq(Seg)
    BY <1>16, ConcatProperties DEF RescanFails, DrainTypeOK, FlusherTypeOK
  <2>2. DrainTypeOK'
    BY <1>16, <2>1 DEF RescanFails, DrainTypeOK
  <2>3. FlusherTypeOK'
    BY <1>16 DEF RescanFails, writerVars, FlusherTypeOK
  <2> QED BY <1>16, <1>00, <2>2, <2>3 DEF RescanFails
<1>17. CASE ProbeDown
  <2>1. edge' \in BOOLEAN
    BY <1>17, Zenon DEF ProbeDown
  <2> QED BY <1>17, <1>0, <1>00, <2>1 DEF ProbeDown, DrainTypeOK
<1>18. CASE DrainPanic
  <2>1. edge' \in BOOLEAN
    BY <1>18, Zenon DEF DrainPanic
  <2>2. panicked' \subseteq Seg /\ handled' \subseteq Records
    BY <1>18, ReachType DEF DrainPanic, DrainTypeOK, InHandInv
  <2>3. owned' \in [Seg -> Owed]
    BY <1>18 DEF DrainPanic, DrainTypeOK
  <2>4. drainPanics' \in Nat /\ dpc' \in {"exited", "idle"} /\ dseg' = 0 /\ todo' = << >>
    BY <1>18 DEF DrainPanic, DrainTypeOK
  <2>5. DrainTypeOK'
    BY <1>18, <2>1, <2>2, <2>3, <2>4 DEF DrainPanic, DrainTypeOK
  <2> QED BY <1>18, <1>0, <1>00, <2>5 DEF DrainPanic
<1>19. CASE DrainStops
  <2>1. handled' \subseteq Records
    BY <1>19, ReachType DEF DrainStops, DrainTypeOK
  <2>2. PICK done \in SUBSET Seg, half \in SUBSET Seg :
          /\ owned' = [c \in Seg |-> IF c \in done THEN "none" ELSE owned[c]]
          /\ side' \subseteq side \cup done \cup half
          /\ sideD' = side' \/ sideD' = sideD
          /\ nameD' = name \/ nameD' = nameD
          /\ name' = [c \in Seg |-> IF c \in done THEN "none" ELSE name[c]]
          /\ \E moves \in SUBSET Seg :
               quarantined' = quarantined \cup {QuarantineCopy(c) : c \in moves}
    BY <1>19 DEF DrainStops
  <2>3. owned' \in [Seg -> Owed]
    BY <2>2 DEF DrainTypeOK
  <2>4. name' \in [Seg -> Names] /\ nameD' \in [Seg -> Names]
    BY <2>2 DEF DirTypeOK, Names
  <2>5. side' \subseteq Seg /\ sideD' \subseteq Seg
    BY <2>2 DEF DirTypeOK
  <2>6. quarantined' \subseteq Seg \X SUBSET Records
    BY <2>2, QuarantineType DEF DirTypeOK
  <2>7. DirTypeOK'
    BY <1>19, <2>4, <2>5, <2>6 DEF DrainStops, NoFault, DirTypeOK
  <2>8. DrainTypeOK'
    BY <1>19, <2>1, <2>3 DEF DrainStops, DrainTypeOK
  <2> QED BY <1>19, <1>0, <2>7, <2>8 DEF DrainStops
<1> QED BY <1>1, <1>2, <1>3, <1>4, <1>5, <1>6, <1>7, <1>8, <1>9, <1>10, <1>11, <1>12,
           <1>13, <1>14, <1>15, <1>16, <1>17, <1>18, <1>19
        DEF DrainStep

\* recover_segment's rebuild of a prefix keeps the directory's types.
LEMMA SealPrefixType ==
    ASSUME DirTypeOK, NEW c \in Seg, NEW k \in 0..Len(content[c]), SealPrefix(c, k)
    PROVE  /\ name' \in [Seg -> Names] /\ content' \in [Seg -> Seq(Records)]
           /\ synced' \in [Seg -> Nat] /\ footer' \in [Seg -> Nat]
<1>1. content[c] \in Seq(Records) /\ Len(content[c]) \in Nat
  BY DEF DirTypeOK
<1>2. SubSeq(content[c], 1, k) \in Seq(Records)
  BY <1>1, SubSeqProperties
<1>3. content' \in [Seg -> Seq(Records)]
  BY <1>2 DEF SealPrefix, DirTypeOK
<1>4. synced' \in [Seg -> Nat] /\ footer' \in [Seg -> Nat]
  BY <1>1 DEF SealPrefix, DirTypeOK
<1>5. name' \in [Seg -> Names]
  BY ExceptType DEF SealPrefix, RenameSealed, DirTypeOK, Names
<1> QED BY <1>3, <1>4, <1>5

\* So does its truncation alone.
LEMMA TruncateType ==
    ASSUME DirTypeOK, NEW c \in Seg, NEW k \in 0..Len(content[c]), Truncate(c, k)
    PROVE  content' \in [Seg -> Seq(Records)] /\ synced' \in [Seg -> Nat]
<1>1. content[c] \in Seq(Records) /\ Len(content[c]) \in Nat
  BY DEF DirTypeOK
<1>2. SubSeq(content[c], 1, k) \in Seq(Records)
  BY <1>1, SubSeqProperties
<1>3. content' \in [Seg -> Seq(Records)]
  BY <1>2 DEF Truncate, DirTypeOK
<1>4. synced' \in [Seg -> Nat]
  BY <1>1 DEF Truncate, DirTypeOK
<1> QED BY <1>3, <1>4

\* The end of the process leaves every variable in its type.
LEMMA LoseMemoryType ==
    ASSUME FlusherTypeOK, DrainTypeOK, LoseMemory
    PROVE  FlusherTypeOK' /\ DrainTypeOK' /\ torecover' \subseteq Seg
<1>1. status' \in [Records -> {"new", "queued", "acked", "nacked", "unknown"}]
  BY DEF LoseMemory, FlusherTypeOK
<1>2. FlusherTypeOK'
  <2>1. phase' \in Phases
    BY DEF LoseMemory, Phases
  <2> QED BY <1>1, <2>1 DEF LoseMemory, FreshWriter, FlusherTypeOK
<1>3. edge' \in BOOLEAN
  BY Zenon DEF LoseMemory
<1>4. DrainTypeOK'
  BY <1>3 DEF LoseMemory, DrainTypeOK
<1> QED BY <1>2, <1>4 DEF LoseMemory

\* What a power loss leaves of the directory is a directory.
LEMMA LosePowerType ==
    ASSUME DirTypeOK, LosePower
    PROVE  /\ name' \in [Seg -> Names] /\ nameD' \in [Seg -> Names]
           /\ side' \subseteq Seg /\ sideD' \subseteq Seg
           /\ content' \in [Seg -> Seq(Records)] /\ synced' \in [Seg -> Nat]
           /\ hole' \subseteq Seg /\ footer' = footer /\ quarantined' = quarantined
<1>1. PICK lateNames \in SUBSET {c \in Seg : name[c] # nameD[c]},
           lateSides \in SUBSET ((side \cup sideD) \ (side \cap sideD)),
           cut \in {f \in [Seg -> 0..SegmentMax] :
                        \A c \in Seg : f[c] \in synced[c]..Len(content[c])} :
        /\ name' = [c \in Seg |-> IF c \in lateNames THEN name[c] ELSE nameD[c]]
        /\ nameD' = name'
        /\ side' = (side \cap sideD) \cup lateSides
        /\ sideD' = side'
        /\ content' = [c \in Seg |-> SubSeq(content[c], 1, cut[c])]
        /\ synced' = cut
        /\ hole' = {} /\ footer' = footer /\ quarantined' = quarantined
  BY Zenon DEF LosePower
<1>2. ASSUME NEW c \in Seg PROVE SubSeq(content[c], 1, cut[c]) \in Seq(Records)
  <2>1. content[c] \in Seq(Records) /\ synced[c] \in Nat /\ cut[c] \in Nat
    BY <1>1, DirAssumption DEF DirTypeOK
  <2>2. cut[c] <= Len(content[c])
    BY <1>1, <2>1
  <2> QED BY <2>1, <2>2, SubSeqProperties
<1>3. content' \in [Seg -> Seq(Records)]
  BY <1>1, <1>2
<1>4. name' \in [Seg -> Names] /\ nameD' \in [Seg -> Names]
  BY <1>1 DEF DirTypeOK
<1>5. synced' \in [Seg -> Nat]
  BY <1>1, DirAssumption
<1>6. side' \subseteq Seg /\ sideD' \subseteq Seg
  BY <1>1 DEF DirTypeOK
<1> QED BY <1>1, <1>3, <1>4, <1>5, <1>6

\* Recovery, replay, stop, exit, crash and power loss keep every type.
LEMMA ProcessStepType ==
    ASSUME TypeOK, RecoveryStep \/ ShutdownStep \/ Exit \/ Crash \/ PowerLoss
    PROVE  TypeOK'
<1> USE DEF dirVars, fileVars
<1>0. DirTypeOK /\ FlusherTypeOK /\ DrainTypeOK
  BY DEF TypeOK
<1>1. CASE Start
  <2>1. phase' \in Phases /\ torecover' \subseteq Seg
    BY <1>1 DEF Start, Phases
  <2>2. FlusherTypeOK'
    BY <1>0, <1>1, <2>1 DEF Start, writerVars, FlusherTypeOK
  <2> QED BY <1>0, <1>1, <2>1, <2>2 DEF Start, drainVars, NoFault, TypeOK, DirTypeOK, DrainTypeOK
<1>2. ASSUME NEW c \in Seg, RecoveryFrame(c), DirTypeOK' PROVE TypeOK'
  BY <1>2 DEF RecoveryFrame, flusherVars, writerVars, drainVars, TypeOK, FlusherTypeOK,
              DrainTypeOK
<1>3. ASSUME NEW c \in Seg, RecoverSegment(c) PROVE TypeOK'
  <2>1. Len(content[c]) \in 0..Len(content[c])
    BY <1>0 DEF DirTypeOK
  <2>2. DirTypeOK'
    BY <1>0, <1>3, <2>1, SealPrefixType DEF RecoverSegment, FsyncDir, NoFault, DirTypeOK
  <2> QED BY <1>2, <1>3, <2>2 DEF RecoverSegment
<1>4. ASSUME NEW c \in Seg, RecoverCorrupt(c) PROVE TypeOK'
  <2>0. PICK k \in 0..Len(content[c]) : SealPrefix(c, k)
    BY <1>4 DEF RecoverCorrupt
  <2>2. /\ name' \in [Seg -> Names] /\ content' \in [Seg -> Seq(Records)]
        /\ synced' \in [Seg -> Nat] /\ footer' \in [Seg -> Nat]
    BY <1>0, <2>0, SealPrefixType
  <2>3. quarantined' \subseteq Seg \X SUBSET Records
    BY <1>0, <1>4, QuarantineType DEF RecoverCorrupt, DirTypeOK
  <2>1. DirTypeOK'
    BY <1>0, <1>4, <2>2, <2>3 DEF RecoverCorrupt, FsyncDir, Fault, DirTypeOK
  <2> QED BY <1>2, <1>4, <2>1 DEF RecoverCorrupt
<1>5. ASSUME NEW c \in Seg, RecoverNoHeader(c) PROVE TypeOK'
  <2>1. DirTypeOK'
    BY <1>0, <1>5, MoveType DEF RecoverNoHeader, Fault, NoFault, DirTypeOK
  <2> QED BY <1>2, <1>5, <2>1 DEF RecoverNoHeader
<1>6. ASSUME NEW c \in Seg, RecoverFails(c) PROVE TypeOK'
  <2>1. Len(content[c]) \in 0..Len(content[c])
    BY <1>0 DEF DirTypeOK
  <2>2. CASE UNCHANGED <<name, fileVars, quarantined>>
    <3>1. DirTypeOK'
      BY <1>0, <1>6, <2>2 DEF RecoverFails, Fault, DirTypeOK
    <3> QED BY <1>2, <1>6, <3>1 DEF RecoverFails
  <2>3. CASE SealPrefix(c, Len(content[c])) /\ UNCHANGED <<hole, quarantined>>
    <3>1. DirTypeOK'
      BY <1>0, <1>6, <2>1, <2>3, SealPrefixType DEF RecoverFails, Fault, DirTypeOK
    <3> QED BY <1>2, <1>6, <3>1 DEF RecoverFails
  <2>4. CASE /\ quarantined' = quarantined \cup {QuarantineCopy(c)}
             /\ \E k \in 0..Len(content[c]) : Truncate(c, k)
    <3>1. content' \in [Seg -> Seq(Records)] /\ synced' \in [Seg -> Nat]
      BY <1>0, <2>4, TruncateType
    <3>2. UNCHANGED <<name, hole, footer>>
      BY <2>4 DEF Truncate
    <3>3. quarantined' \subseteq Seg \X SUBSET Records
      BY <1>0, <2>4, QuarantineType DEF DirTypeOK
    <3>4. DirTypeOK'
      BY <1>0, <1>6, <3>1, <3>2, <3>3 DEF RecoverFails, Fault, DirTypeOK
    <3> QED BY <1>2, <1>6, <3>4 DEF RecoverFails
  <2> QED BY <1>6, <2>2, <2>3, <2>4 DEF RecoverFails
<1>7. CASE Replay
  <2>1. PICK found \in SUBSET Seg : ScanSealed(Seg, found) /\ todo' \in Ascending(found)
    BY <1>7 DEF Replay
  <2>2. DirTypeOK' /\ unproven' \subseteq Seg
    BY <1>0, <1>7, <2>1, ScanType DEF Replay
  <2>3. todo' \in Seq(Seg)
    BY <2>1, AscendingType
  <2>4. FlusherTypeOK'
    <3>1. phase' \in Phases
      BY <1>7 DEF Replay, Phases
    <3> QED BY <1>0, <1>7, <3>1 DEF Replay, writerVars, FlusherTypeOK
  <2>5. DrainTypeOK'
    BY <1>0, <1>7, <2>2, <2>3 DEF Replay, DrainTypeOK
  <2> QED BY <1>7, <2>2, <2>4, <2>5 DEF Replay, processVars, TypeOK
<1>8. CASE ShutdownStep
  <2>1. ShutdownFrame /\ phase' \in Phases /\ restarts' \in Nat
    BY <1>8 DEF ShutdownStep, Stop, CloseIngest, RequestStop, ForceStop, CanFail, Phases, TypeOK
  <2>2. FlusherTypeOK'
    BY <1>0, <2>1 DEF ShutdownFrame, writerVars, FlusherTypeOK
  <2> QED BY <1>0, <2>1, <2>2 DEF ShutdownFrame, drainVars, NoFault, TypeOK, DirTypeOK,
                                  DrainTypeOK
<1>9. CASE Exit
  BY <1>0, <1>9, LoseMemoryType DEF Exit, NoFault, TypeOK, DirTypeOK
<1>10. CASE Crash
  BY <1>0, <1>10, LoseMemoryType DEF Crash, CanFail, NoFault, TypeOK, DirTypeOK
<1>11. CASE PowerLoss
  <2>1. DirTypeOK'
    BY <1>0, <1>11, LosePowerType DEF PowerLoss, NoFault, DirTypeOK
  <2>2. powerLost' \in BOOLEAN
    BY <1>11, Zenon DEF PowerLoss
  <2> QED BY <1>0, <1>11, <2>1, <2>2, LoseMemoryType DEF PowerLoss, CanFail, TypeOK
<1> QED BY <1>1, <1>3, <1>4, <1>5, <1>6, <1>7, <1>8, <1>9, <1>10, <1>11
        DEF RecoveryStep

-----------------------------------------------------------------------------
(* The induction *)

(***************************************************************************)
(* What no step may do to a segment: it stays, with its synced prefix, or  *)
(* it is handled, or it is in quarantine/.                                 *)
(***************************************************************************)
Stays(c) ==
    /\ name'[c] # "none"
    /\ nameD[c] # "none" => nameD'[c] # "none"
    /\ synced[c] <= synced'[c]
    /\ \A i \in 1..synced[c] : content'[c][i] = content[c][i]

Kept(c) ==
    \/ Stays(c)
    \/ RangeOf(content[c]) \subseteq handled'
    \/ QuarantineCopy(c) \in quarantined'

KeepsAll ==
    /\ handled \subseteq handled' /\ quarantined \subseteq quarantined'
    /\ \A c \in Seg :
         name[c] # "none" /\ (nameD[c] # "none" \/ phase' # "down") => Kept(c)

\* A record that is safe before a step that keeps every segment is safe after
\* it: the fact every ack rests on.
LEMMA KeepsSafe ==
    ASSUME TypeOK, TypeOK', SyncedPrefix, KeepsAll, NEW r, Safe(r)
    PROVE  Safe(r)'
<1>1. CASE r \in handled
  BY <1>1 DEF KeepsAll, Safe
<1>2. CASE InQuarantine(r)
  BY <1>2 DEF KeepsAll, Safe, InQuarantine
<1>3. CASE OnStableStorage(r)
  <2>1. PICK c \in Seg : /\ name[c] # "none" /\ nameD[c] # "none"
                         /\ r \in SyncedRecords(c)
    BY <1>3 DEF OnStableStorage
  <2>2. PICK i \in 1..synced[c] : r = content[c][i]
    BY <2>1 DEF SyncedRecords
  <2>3. content[c] \in Seq(Records) /\ synced[c] \in Nat /\ synced'[c] \in Nat
    BY DEF TypeOK, DirTypeOK
  <2>4. r \in RangeOf(content[c])
    BY <2>2, <2>3 DEF SyncedPrefix, RangeOf
  <2>5. Kept(c)
    BY <2>1 DEF KeepsAll
  <2>6. CASE Stays(c)
    <3>1. i \in 1..synced'[c] /\ r = content'[c][i]
      BY <2>2, <2>3, <2>6 DEF Stays
    <3>2. OnStableStorage(r)'
      BY <2>1, <2>6, <3>1 DEF Stays, OnStableStorage, SyncedRecords
    <3> QED BY <3>2 DEF Safe
  <2>7. CASE RangeOf(content[c]) \subseteq handled'
    BY <2>4, <2>7 DEF Safe
  <2>8. CASE QuarantineCopy(c) \in quarantined'
    BY <2>4, <2>8 DEF Safe, InQuarantine, QuarantineCopy
  <2> QED BY <2>5, <2>6, <2>7, <2>8 DEF Kept
<1> QED BY <1>1, <1>2, <1>3 DEF Safe

\* A step that leaves the directory alone keeps every segment.
LEMMA UnchangedKeeps ==
    ASSUME TypeOK, UNCHANGED <<name, nameD, content, synced>>,
           handled \subseteq handled', quarantined \subseteq quarantined'
    PROVE  KeepsAll
<1>1. ASSUME NEW c \in Seg, name[c] # "none" PROVE Stays(c)
  BY <1>1 DEF Stays, TypeOK, DirTypeOK
<1> QED BY <1>1 DEF KeepsAll, Kept

(***************************************************************************)
(* The flusher.                                                            *)
(***************************************************************************)
\* What a flusher step never does to the drain's side of the directory.
FlusherTouches ==
    /\ side' = side /\ (sideD' = sideD \/ sideD' = side)
    /\ UNCHANGED drainVars
    /\ \A c \in Seg :
         /\ name[c] = "sealed" \/ c \in side => content'[c] = content[c]
         /\ name[c] = "sealed" => name'[c] = "sealed"

\* The ledger, the sidecars and the segment in the drain's hands do not
\* notice the flusher.
LEMMA FlusherSparesDrain ==
    ASSUME IInv, FlusherTouches
    PROVE  SidecarInv' /\ LedgerInv' /\ InHandInv'
<1> USE DEF IInv, FlusherTouches, drainVars
<1>1. \A c \in Seg : name[c] = "sealed" \/ c \in side => (Delivered(c) => Delivered(c)')
  BY DEF Delivered
<1>2. SidecarInv'
  BY <1>1 DEF SidecarInv, TypeOK, DirTypeOK
<1>3. LedgerInv'
  BY <1>1 DEF LedgerInv
<1>4. InHandInv'
  BY <1>1 DEF InHandInv
<1> QED BY <1>2, <1>3, <1>4

\* The invariant without its type and without the drain's part.
FlusherInv ==
    /\ SyncedPrefix /\ DownIsEmpty /\ ActiveInv /\ SealingInv /\ WaitingInv
    /\ CounterIsFresh /\ DurableAckSafe

\* Steps of the flusher that leave the directory alone: it decides answers,
\* takes a batch, or gives a segment up.
LEMMA FlusherQuietInv ==
    ASSUME IInv, TypeOK', UNCHANGED <<dirVars, drainVars>>,
           \/ \E r \in Records : Push(r)
           \/ ScanCounter \/ ScanFails \/ Receive \/ RejectRecord \/ AppendFails
           \/ TimedSeal \/ InputClosed \/ HandOff(DrainGone)
           \/ NotHandedOff(DrainGone) \/ FlusherPanic
    PROVE  FlusherInv'
<1> USE DEF dirVars, fileVars, writerVars
<1>0. TypeOK
  BY DEF IInv
<1>1. \A r : Safe(r)' <=> Safe(r)
  BY DEF drainVars, Safe, InQuarantine, OnStableStorage, SyncedRecords
<1>2. SyncedPrefix'
  BY DEF IInv, SyncedPrefix
<1>3. DownIsEmpty'
  <2>1. phase' = phase /\ phase \notin {"down", "recovering"}
    BY DEF IInv, DownIsEmpty, Push, ScanCounter, ScanFails, Receive, RejectRecord, AppendFails,
           TimedSeal, InputClosed, HandOff, NotHandedOff, HandOffEnds, FlusherPanic, Writing
  <2> QED BY <2>1 DEF DownIsEmpty
<1>4. ASSUME \A r \in Records : status'[r] = "acked" => status[r] = "acked" \/ r \notin DurableTier
      PROVE  DurableAckSafe'
  <2>1. \A r \in DurableTier : r \in Records
    BY DEF Records
  <2> QED BY <1>1, <1>4, <2>1 DEF IInv, DurableAckSafe, Safe
<1>5. ASSUME NEW r \in Records, Push(r) PROVE FlusherInv'
  <2>1. ActiveInv' /\ SealingInv' /\ CounterIsFresh'
    BY <1>5 DEF IInv, Push, ActiveInv, SealingInv, Sealing, CounterIsFresh
  <2>2. WaitingInv'
    BY <1>1, <1>5 DEF IInv, Push, WaitingInv, Sealing
  <2>3. DurableAckSafe'
    BY <1>4, <1>5 DEF Push, Reply
  <2> QED BY <1>2, <1>3, <2>1, <2>2, <2>3 DEF FlusherInv
<1>6. CASE ScanCounter
  <2>1. active = 0 /\ pending = {}
    BY <1>6 DEF IInv, ScanCounter, ActiveInv, WaitingInv, Sealing
  <2>2. ActiveInv' /\ SealingInv'
    BY <1>6, <2>1 DEF ScanCounter, ActiveInv, SealingInv, Sealing
  <2>3. CounterIsFresh'
    <3>1. PICK n \in 1..(MaxSegments + 1) : nextCounter' = n /\ \A c \in CountersOnDisk : c < n
      BY <1>6 DEF ScanCounter
    <3>2. \A c \in Seg : c >= n => c \notin CountersOnDisk
      BY <3>1, DirAssumption DEF Seg, CountersOnDisk
    <3>3. sideD \subseteq side /\ name' = name /\ side' = side /\ sideD' = sideD
      BY DEF IInv, SidecarInv
    <3> QED BY <3>1, <3>2, <3>3 DEF CounterIsFresh, CountersOnDisk
  <2>4. WaitingInv'
    BY <1>1, <1>6, <2>1 DEF IInv, ScanCounter, WaitingInv, Sealing
  <2> QED BY <1>2, <1>3, <1>4, <1>6, <2>2, <2>3, <2>4 DEF FlusherInv, ScanCounter
<1>7. CASE ScanFails
  <2>1. active = 0 /\ pending = {}
    BY <1>7 DEF IInv, ScanFails, ActiveInv, WaitingInv, Sealing
  <2>2. ActiveInv' /\ SealingInv' /\ CounterIsFresh'
    BY <1>7, <2>1 DEF ScanFails, ActiveInv, SealingInv, Sealing, CounterIsFresh
  <2>3. WaitingInv'
    BY <1>1, <1>7, <2>1 DEF IInv, ScanFails, WaitingInv, Sealing
  <2>4. DurableAckSafe'
    BY <1>4, <1>7 DEF ScanFails, Reply
  <2> QED BY <1>2, <1>3, <2>2, <2>3, <2>4 DEF FlusherInv
<1>8. CASE Receive
  <2>1. ActiveInv' /\ SealingInv' /\ CounterIsFresh'
    BY <1>8 DEF IInv, Receive, ActiveInv, SealingInv, Sealing, CounterIsFresh
  <2>2. WaitingInv'
    BY <1>1, <1>8 DEF IInv, Receive, WaitingInv, Sealing
  <2> QED BY <1>2, <1>3, <1>4, <1>8, <2>1, <2>2 DEF FlusherInv, Receive
<1>9. CASE RejectRecord
  <2>1. ActiveInv' /\ SealingInv' /\ CounterIsFresh'
    BY <1>9 DEF IInv, RejectRecord, ActiveInv, SealingInv, Sealing, CounterIsFresh
  <2>2. fpc = "write" /\ fpc' = fpc /\ pending' = pending /\ active' = active /\ promoted' = promoted
    BY <1>9 DEF RejectRecord, NackFailedWrite
  <2>3. WaitingInv'
    BY <1>1, <2>2 DEF IInv, WaitingInv, Sealing
  <2>4. DurableAckSafe'
    BY <1>4, <1>9 DEF RejectRecord, NackFailedWrite, Reply
  <2> QED BY <1>2, <1>3, <2>1, <2>3, <2>4 DEF FlusherInv
<1>10. CASE AppendFails
  <2>1. ActiveInv' /\ SealingInv' /\ CounterIsFresh'
    BY <1>10 DEF IInv, AppendFails, Writing, ActiveInv, SealingInv, Sealing, CounterIsFresh
  <2>2. fpc = "write" /\ fpc' = fpc /\ pending' = {} /\ promoted' = promoted
    BY <1>10 DEF AppendFails, Writing, NackFailedWrite
  <2>3. WaitingInv'
    BY <1>1, <2>2 DEF IInv, WaitingInv, Sealing
  <2>4. DurableAckSafe'
    BY <1>4, <1>10 DEF AppendFails, NackFailedWrite, Reply
  <2> QED BY <1>2, <1>3, <2>1, <2>3, <2>4 DEF FlusherInv
<1>11. CASE TimedSeal
  <2>1. active \in Seg
    BY <1>0, <1>11 DEF TimedSeal, TypeOK, FlusherTypeOK
  <2>2. ActiveInv' /\ SealingInv' /\ CounterIsFresh'
    BY <1>11, <2>1 DEF IInv, TimedSeal, ActiveInv, SealingInv, Sealing, CounterIsFresh
  <2>3. WaitingInv'
    BY <1>1, <1>11 DEF IInv, TimedSeal, WaitingInv, Sealing
  <2> QED BY <1>2, <1>3, <1>4, <1>11, <2>2, <2>3 DEF FlusherInv, TimedSeal
<1>12. CASE InputClosed
  <2>1. active # 0 => active \in Seg
    BY <1>0 DEF TypeOK, FlusherTypeOK
  <2>2. ActiveInv' /\ SealingInv' /\ CounterIsFresh'
    BY <1>12, <2>1 DEF IInv, InputClosed, ActiveInv, SealingInv, Sealing, CounterIsFresh
  <2>3. WaitingInv'
    BY <1>1, <1>12 DEF IInv, InputClosed, WaitingInv, Sealing
  <2> QED BY <1>2, <1>3, <1>4, <1>12, <2>2, <2>3 DEF FlusherInv, InputClosed
<1>13. ASSUME fpc = "handoff", HandOffEnds PROVE FlusherInv'
  <2>1. active = 0 /\ active' = 0 /\ nextCounter' = nextCounter
    BY <1>13 DEF IInv, ActiveInv, HandOffEnds
  <2>2. fpc' \in {"write", "idle", "exited"}
    BY <1>13 DEF HandOffEnds, PromoteAcks, AfterSeal
  <2>3. ActiveInv' /\ SealingInv' /\ CounterIsFresh'
    BY <1>13, <2>1, <2>2 DEF IInv, ActiveInv, SealingInv, Sealing, CounterIsFresh
  <2>4. WaitingInv'
    <3>1. CASE cause = "rotation"
      <4>1. \A r \in promoted' : r \in promoted \/ r \in pending \cup {Head(batch)}
        BY <1>13, <3>1 DEF HandOffEnds, PromoteAcks
      <4>2. \A r \in promoted' : Safe(r)'
        BY <1>1, <1>13, <3>1, <4>1 DEF IInv, WaitingInv
      <4>3. pending' = {} /\ fpc' = "write"
        BY <1>13, <3>1 DEF HandOffEnds, PromoteAcks
      <4> QED BY <4>2, <4>3 DEF WaitingInv, Sealing
    <3>2. CASE cause # "rotation"
      BY <1>1, <1>13, <3>2 DEF IInv, HandOffEnds, AfterSeal, WaitingInv, Sealing
    <3> QED BY <3>1, <3>2
  <2>5. DurableAckSafe'
    BY <1>4, <1>13 DEF HandOffEnds, PromoteAcks, Reply
  <2> QED BY <1>2, <1>3, <2>3, <2>4, <2>5 DEF FlusherInv
<1>14. CASE FlusherPanic
  <2>1. /\ active' = 0 /\ pending' = {} /\ promoted' = {}
        /\ fpc' \in {"offline", "scan"}
    BY <1>14 DEF FlusherPanic, FreshWriter
  <2>2. DurableAckSafe'
    BY <1>4, <1>14 DEF FlusherPanic, Reply
  <2> QED BY <1>2, <1>3, <2>1, <2>2
          DEF FlusherInv, ActiveInv, SealingInv, Sealing, CounterIsFresh, WaitingInv
<1> QED BY <1>5, <1>6, <1>7, <1>8, <1>9, <1>10, <1>11, <1>12, <1>13, <1>14
        DEF HandOff, NotHandedOff

\* No ack is given early: if every segment is kept, and a record newly acked
\* at the Durable tier is safe, all durable acks are.
LEMMA AcksStaySafe ==
    ASSUME TypeOK, TypeOK', SyncedPrefix, DurableAckSafe, KeepsAll,
           \A r \in DurableTier : status'[r] = "acked" => status[r] = "acked" \/ Safe(r)'
    PROVE  DurableAckSafe'
<1> SUFFICES ASSUME NEW r \in DurableTier, status'[r] = "acked" PROVE Safe(r)'
  BY DEF DurableAckSafe, Safe
<1>1. CASE status[r] = "acked"
  <2>1. Safe(r)
    BY <1>1 DEF DurableAckSafe, Safe
  <2> QED BY <2>1, KeepsSafe
<1> QED BY <1>1

FlusherGoal == KeepsAll /\ FlusherTouches /\ FlusherInv'

\* ensure_open, whether or not the create succeeds: the counter is fresh, so
\* no file of the directory is overwritten.
LEMMA OpenInv ==
    ASSUME IInv, TypeOK', UNCHANGED drainVars, OpenSegment \/ OpenFails
    PROVE  FlusherGoal
<1> USE DEF dirVars, fileVars, writerVars, IInv
<1> DEFINE c0 == nextCounter
<1>0. /\ fpc = "write" /\ fpc' = "write" /\ active = 0 /\ pending = {} /\ pending' = {}
      /\ c0 \in Seg /\ nextCounter' = c0 + 1 /\ promoted' = promoted /\ phase' = phase
  BY DEF OpenSegment, OpenFails, Writing, WaitingInv, NackFailedWrite
<1>1. name[c0] = "none" /\ c0 \notin side /\ c0 \notin sideD
  BY <1>0 DEF CounterIsFresh, TypeOK, FlusherTypeOK
<1>2. /\ side' = side /\ sideD' \in {sideD, side}
      /\ quarantined' = quarantined /\ handled' = handled
      /\ \A c \in Seg \ {c0} : /\ name'[c] = name[c] /\ nameD'[c] \in {name[c], nameD[c]}
                               /\ content'[c] = content[c] /\ synced'[c] = synced[c]
  <2>1. CASE OpenSegment
    BY <2>1 DEF OpenSegment, CreateFile, FsyncDir, drainVars, TypeOK, DirTypeOK
  <2>2. CASE OpenFails
    BY <2>2 DEF OpenFails, CreateFileFails, drainVars, TypeOK, DirTypeOK
  <2> QED BY <2>1, <2>2
<1>3. KeepsAll
  <2>1. ASSUME NEW c \in Seg, name[c] # "none" PROVE Stays(c)
    <3>1. /\ name'[c] = name[c] /\ nameD'[c] \in {name[c], nameD[c]}
          /\ content'[c] = content[c] /\ synced'[c] = synced[c] /\ synced[c] \in Nat
      BY <1>1, <1>2, <2>1 DEF TypeOK, DirTypeOK
    <3> QED BY <2>1, <3>1 DEF Stays
  <2> QED BY <1>2, <2>1 DEF KeepsAll, Kept
<1>4. FlusherTouches
  BY <1>1, <1>2 DEF FlusherTouches
<1>5. SyncedPrefix'
  <2>1. CASE content' = content /\ synced' = synced
    BY <2>1 DEF SyncedPrefix
  <2>2. CASE content'[c0] = << >> /\ synced'[c0] = 0
    BY <1>2, <2>2 DEF SyncedPrefix
  <2> QED BY <1>0, <2>1, <2>2 DEF OpenSegment, CreateFile, OpenFails, CreateFileFails, TypeOK, DirTypeOK
<1>6. DownIsEmpty' /\ SealingInv'
  BY <1>0 DEF DownIsEmpty, SealingInv, Sealing
<1>7. ActiveInv'
  <2>1. CASE OpenSegment
    BY <1>0, <1>1, <2>1 DEF OpenSegment, CreateFile, FsyncDir, ActiveInv, TypeOK, DirTypeOK
  <2>2. CASE OpenFails
    BY <1>0, <2>2 DEF OpenFails, ActiveInv
  <2> QED BY <2>1, <2>2
<1>8. WaitingInv'
  <2>1. \A r \in promoted' : Safe(r)'
    BY <1>0, <1>3, KeepsSafe DEF WaitingInv
  <2> QED BY <1>0, <2>1 DEF WaitingInv, Sealing
<1>9. CounterIsFresh'
  <2>1. \A c \in Seg : c >= c0 + 1 => c >= c0 /\ c # c0
    BY <1>0, DirAssumption DEF Seg
  <2> QED BY <1>0, <1>2, <2>1 DEF CounterIsFresh
<1>10. DurableAckSafe'
  <2>1. \A r \in DurableTier : status'[r] = "acked" => status[r] = "acked"
    BY DEF OpenSegment, OpenFails, NackFailedWrite, Reply, Records
  <2> QED BY <1>3, <2>1, AcksStaySafe
<1> QED BY <1>3, <1>4, <1>5, <1>6, <1>7, <1>8, <1>9, <1>10 DEF FlusherGoal, FlusherInv

\* write_record's append: nothing that was written moves, and the record is
\* in the segment whose fsync or seal its ack will wait for.
LEMMA AppendInv ==
    ASSUME IInv, TypeOK', UNCHANGED drainVars, AppendRecord
    PROVE  FlusherGoal
<1> USE DEF IInv
<1> DEFINE r0 == Head(batch)
<1>0. /\ fpc = "write" /\ batch # << >> /\ active \in Seg /\ active # 0 /\ r0 \in Records
      /\ content[active] \in Seq(Records) /\ synced[active] \in Nat
  BY DEF AppendRecord, Writing, TypeOK, DirTypeOK, FlusherTypeOK
<1>1. /\ UNCHANGED <<name, nameD, side, sideD, synced, hole, quarantined, phase, promoted,
                     nextCounter, handled>>
      /\ content' = [content EXCEPT ![active] = Append(content[active], r0)]
  BY DEF AppendRecord, drainVars
<1>2. /\ content'[active] = Append(content[active], r0)
      /\ \A c \in Seg \ {active} : content'[c] = content[c]
  BY <1>0, <1>1 DEF TypeOK, DirTypeOK
<1>3. /\ Len(content'[active]) = Len(content[active]) + 1
      /\ \A i \in 1..Len(content[active]) : content'[active][i] = content[active][i]
      /\ content'[active][Len(content[active]) + 1] = r0
      /\ DOMAIN content'[active] = 1..(Len(content[active]) + 1)
  BY <1>0, <1>2
<1>4. \A r \in RangeOf(content[active]) \cup {r0} : r \in RangeOf(content'[active])
  <2>1. DOMAIN content[active] = 1..Len(content[active]) /\ Len(content[active]) \in Nat
    BY <1>0
  <2>2. r0 \in RangeOf(content'[active])
    BY <1>3, <2>1 DEF RangeOf
  <2>3. ASSUME NEW i \in DOMAIN content[active]
        PROVE  content[active][i] \in RangeOf(content'[active])
    BY <1>3, <2>1 DEF RangeOf
  <2> QED BY <2>2, <2>3 DEF RangeOf
<1>5. KeepsAll
  <2>1. ASSUME NEW c \in Seg, name[c] # "none" PROVE Stays(c)
    <3>1. CASE c = active
      BY <1>0, <1>1, <1>3, <2>1, <3>1 DEF Stays, SyncedPrefix
    <3>2. CASE c # active
      BY <1>1, <1>2, <2>1, <3>2 DEF Stays, TypeOK, DirTypeOK
    <3> QED BY <3>1, <3>2
  <2> QED BY <1>1, <2>1 DEF KeepsAll, Kept
<1>6. FlusherTouches
  BY <1>0, <1>1, <1>2 DEF FlusherTouches, ActiveInv
<1>7. SyncedPrefix'
  BY <1>0, <1>1, <1>2, <1>3 DEF SyncedPrefix
<1>8. DownIsEmpty'
  BY <1>0, <1>1 DEF DownIsEmpty
<1>9. ActiveInv' /\ SealingInv' /\ CounterIsFresh'
  BY <1>0, <1>1 DEF AppendRecord, ActiveInv, SealingInv, Sealing, CounterIsFresh
<1>10. WaitingInv'
  <2>1. \A r \in promoted' : Safe(r)'
    BY <1>1, <1>5, KeepsSafe DEF WaitingInv
  <2>2. \A r \in pending \cup {r0} : r \in RangeOf(content'[active])
    BY <1>0, <1>4 DEF WaitingInv
  <2>3. CASE ShouldRotate(active)
    <3>1. /\ sealing' = active /\ fpc' = "finalize" /\ cause' = "rotation"
          /\ pending' = pending /\ batch' = batch
      BY <2>3 DEF AppendRecord
    <3> QED BY <2>1, <2>2, <3>1 DEF WaitingInv, Sealing
  <2>4. CASE ~ShouldRotate(active)
    <3>1. active' = active /\ fpc' = "write" /\ pending' \subseteq pending \cup {r0}
      BY <1>0, <2>4 DEF AppendRecord
    <3> QED BY <1>0, <2>1, <2>2, <3>1 DEF WaitingInv, Sealing
  <2> QED BY <2>3, <2>4
<1>11. DurableAckSafe'
  <2>1. \A r \in DurableTier : status'[r] = "acked" => status[r] = "acked"
    BY DEF AppendRecord, Reply, Records
  <2> QED BY <1>5, <2>1, AcksStaySafe
<1> QED BY <1>5, <1>6, <1>7, <1>8, <1>9, <1>10, <1>11 DEF FlusherGoal, FlusherInv

\* The group commit.  On success every waiting record is in the prefix the
\* fsync covers, because its segment has no hole; on failure only records of
\* segments sealed on the way are acked.
LEMMA GroupCommitInv ==
    ASSUME IInv, TypeOK', UNCHANGED drainVars, GroupCommit \/ GroupCommitFails
    PROVE  FlusherGoal
<1> USE DEF IInv
<1>0. /\ fpc = "write" /\ fpc' = "idle" /\ pending' = {} /\ promoted' = {}
      /\ UNCHANGED <<name, nameD, side, sideD, content, quarantined, phase, nextCounter, handled>>
      /\ active' \in {0, active} /\ (active' # 0 => hole' = hole)
  BY DEF GroupCommit, GroupCommitFails, drainVars
<1>1. \A c \in Seg : content[c] \in Seq(Records) /\ Len(content[c]) \in Nat /\ synced[c] \in Nat
  BY DEF TypeOK, DirTypeOK
<1>2. ASSUME GroupCommit, pending # {}
      PROVE  active \in Seg /\ synced' = [synced EXCEPT ![active] = Len(content[active])]
  <2>1. active # 0 /\ active \in Seg
    BY <1>0, <1>2 DEF WaitingInv, TypeOK, FlusherTypeOK
  <2> QED BY <1>2, <2>1 DEF GroupCommit, SyncedAfterFsync, ActiveInv
<1>3. \A c \in Seg : synced'[c] = synced[c] \/ synced'[c] = Len(content[c])
  <2>1. CASE GroupCommit /\ pending # {}
    BY <1>2, <2>1 DEF TypeOK, DirTypeOK
  <2>2. CASE ~(GroupCommit /\ pending # {})
    BY <2>2 DEF GroupCommit, GroupCommitFails
  <2> QED BY <2>1, <2>2
<1>4. KeepsAll
  <2>1. ASSUME NEW c \in Seg, name[c] # "none" PROVE Stays(c)
    BY <1>0, <1>1, <1>3, <2>1 DEF Stays, SyncedPrefix
  <2> QED BY <1>0, <2>1 DEF KeepsAll, Kept
<1>5. FlusherTouches
  BY <1>0 DEF FlusherTouches
<1>6. SyncedPrefix'
  BY <1>0, <1>1, <1>3 DEF SyncedPrefix
<1>7. DownIsEmpty' /\ SealingInv' /\ CounterIsFresh'
  BY <1>0 DEF DownIsEmpty, SealingInv, Sealing, CounterIsFresh
<1>8. ActiveInv'
  BY <1>0 DEF ActiveInv
<1>9. WaitingInv'
  BY <1>0 DEF WaitingInv, Sealing
<1>10. DurableAckSafe'
  <2>1. ASSUME NEW r \in promoted PROVE Safe(r)'
    BY <1>4, <2>1, KeepsSafe DEF WaitingInv
  <2>2. ASSUME GroupCommit, NEW r \in pending PROVE Safe(r)'
    <3>1. /\ active \in Seg /\ active # 0 /\ r \in RangeOf(content[active])
          /\ synced' = [synced EXCEPT ![active] = Len(content[active])]
      BY <1>0, <1>2, <2>2 DEF WaitingInv
    <3>2. synced'[active] = Len(content[active])
      BY <3>1 DEF TypeOK, DirTypeOK
    <3>3. PICK i \in 1..Len(content[active]) : r = content[active][i]
      BY <1>1, <3>1 DEF RangeOf
    <3>0. active' = active
      BY <2>2 DEF GroupCommit
    <3>4. r \in SyncedRecords(active)'
      BY <1>0, <3>0, <3>2, <3>3 DEF SyncedRecords
    <3>5. name'[active] # "none" /\ nameD'[active] # "none"
      BY <1>0, <3>1 DEF ActiveInv
    <3>6. OnStableStorage(r)'
      BY <3>0, <3>1, <3>4, <3>5 DEF OnStableStorage
    <3> QED BY <3>6 DEF Safe
  <2>3. \A r \in DurableTier : status'[r] = "acked" => status[r] = "acked" \/ Safe(r)'
    <3>1. CASE GroupCommit
      BY <2>1, <2>2, <3>1 DEF GroupCommit, Reply, Records
    <3>2. CASE GroupCommitFails
      BY <2>1, <3>2 DEF GroupCommitFails, Records
    <3> QED BY <3>1, <3>2
  <2> QED BY <1>4, <2>3, AcksStaySafe
<1> QED BY <1>4, <1>5, <1>6, <1>7, <1>8, <1>9, <1>10 DEF FlusherGoal, FlusherInv

\* The seal, step by step: the finalize fsync makes the waiting records safe
\* before the rename shows the segment to the drain; a failed seal nacks them.
LEMMA SealInv ==
    ASSUME IInv, TypeOK', UNCHANGED drainVars, Finalize \/ Rename \/ SyncRename \/ SealFails
    PROVE  FlusherGoal
<1> USE DEF IInv, fileVars, writerVars
<1>0. /\ Sealing /\ fpc # "handoff" /\ sealing \in Seg /\ active = 0 /\ active' = 0
      /\ UNCHANGED <<content, side, quarantined, phase, promoted, nextCounter, cause, handled>>
  BY DEF Finalize, Rename, SyncRename, SealFails, SealingInv, Sealing, ActiveInv, drainVars
<1>1. \A c \in Seg : content[c] \in Seq(Records) /\ Len(content[c]) \in Nat /\ synced[c] \in Nat
  BY DEF TypeOK, DirTypeOK
<1>2. DownIsEmpty' /\ ActiveInv'
  BY <1>0 DEF DownIsEmpty, ActiveInv, Sealing
<1>3. CASE Finalize
  <2>1. /\ fpc = "finalize" /\ fpc' = "rename" /\ UNCHANGED <<name, nameD, sideD, status, pending, batch, sealing>>
        /\ synced' = [synced EXCEPT ![sealing] = Len(content[sealing])]
    BY <1>0, <1>3 DEF Finalize, SyncedAfterFsync, SealingInv
  <2>2. \A c \in Seg : synced'[c] = synced[c] \/ synced'[c] = Len(content[c])
    BY <1>0, <2>1 DEF TypeOK, DirTypeOK
  <2>3. KeepsAll
    <3>1. ASSUME NEW c \in Seg, name[c] # "none" PROVE Stays(c)
      BY <1>0, <1>1, <2>1, <2>2, <3>1 DEF Stays, SyncedPrefix
    <3> QED BY <1>0, <3>1 DEF KeepsAll, Kept
  <2>4. FlusherTouches /\ SyncedPrefix'
    BY <1>0, <1>1, <2>1, <2>2 DEF FlusherTouches, SyncedPrefix
  <2>5. SealingInv' /\ CounterIsFresh'
    BY <1>0, <2>1 DEF SealingInv, Sealing, CounterIsFresh
  <2>6. WaitingInv'
    <3>1. \A r \in promoted' : Safe(r)'
      BY <1>0, <2>3, KeepsSafe DEF WaitingInv
    <3>2. ASSUME NEW r \in RangeOf(content[sealing]) PROVE Safe(r)'
      <4>1. synced'[sealing] = Len(content[sealing])
        BY <1>0, <2>1 DEF TypeOK, DirTypeOK
      <4>2. PICK i \in 1..Len(content[sealing]) : r = content[sealing][i]
        BY <1>0, <1>1 DEF RangeOf
      <4>3. r \in SyncedRecords(sealing)'
        BY <1>0, <2>1, <4>1, <4>2 DEF SyncedRecords
      <4>4. OnStableStorage(r)'
        BY <1>0, <2>1, <4>3 DEF OnStableStorage, SealingInv
      <4> QED BY <4>4 DEF Safe
    <3>3. cause = "rotation" => \A r \in pending \cup {Head(batch)} : Safe(r)'
      BY <2>1, <3>2 DEF WaitingInv
    <3> QED BY <1>0, <2>1, <3>1, <3>3 DEF WaitingInv, Sealing
  <2>7. DurableAckSafe'
    BY <2>1, <2>3, AcksStaySafe
  <2> QED BY <1>2, <2>3, <2>4, <2>5, <2>6, <2>7 DEF FlusherGoal, FlusherInv
<1>4. ASSUME KeepsAll, SyncedPrefix', UNCHANGED <<status, pending, batch, sealing>>,
             fpc \in {"rename", "dirsync"}, fpc' \in {"dirsync", "handoff"}
      PROVE  WaitingInv' /\ DurableAckSafe' /\ SealingInv'
  <2>1. \A r : Safe(r) => Safe(r)'
    BY <1>4, KeepsSafe
  <2>2. WaitingInv'
    BY <1>0, <1>4, <2>1 DEF WaitingInv, Sealing
  <2>3. DurableAckSafe'
    BY <1>4, AcksStaySafe
  <2>4. SealingInv'
    BY <1>0, <1>4 DEF SealingInv, Sealing
  <2> QED BY <2>2, <2>3, <2>4
<1>5. CASE Rename
  <2>1. /\ fpc = "rename" /\ fpc' = "dirsync" /\ UNCHANGED <<nameD, sideD, synced, status, pending, batch, sealing>>
        /\ name[sealing] = "wab" /\ name'[sealing] = "sealed"
        /\ \A c \in Seg \ {sealing} : name'[c] = name[c]
    BY <1>0, <1>5 DEF Rename, RenameSealed, SealingInv, TypeOK, DirTypeOK
  <2>2. KeepsAll
    <3>1. ASSUME NEW c \in Seg, name[c] # "none" PROVE Stays(c)
      BY <1>0, <1>1, <2>1, <3>1 DEF Stays
    <3> QED BY <1>0, <3>1 DEF KeepsAll, Kept
  <2>3. FlusherTouches /\ SyncedPrefix'
    BY <1>0, <2>1 DEF FlusherTouches, SyncedPrefix
  <2>4. CounterIsFresh'
    BY <1>0, <2>1 DEF CounterIsFresh
  <2> QED BY <1>2, <1>4, <2>1, <2>2, <2>3, <2>4 DEF FlusherGoal, FlusherInv
<1>6. CASE SyncRename
  <2>1. /\ fpc = "dirsync" /\ fpc' = "handoff" /\ UNCHANGED <<name, synced, status, pending, batch, sealing>>
        /\ nameD' = name /\ sideD' = side
    BY <1>0, <1>6 DEF SyncRename, FsyncDir
  <2>2. KeepsAll
    <3>1. ASSUME NEW c \in Seg, name[c] # "none" PROVE Stays(c)
      BY <1>0, <1>1, <2>1, <3>1 DEF Stays
    <3> QED BY <1>0, <3>1 DEF KeepsAll, Kept
  <2>3. FlusherTouches /\ SyncedPrefix'
    BY <1>0, <2>1 DEF FlusherTouches, SyncedPrefix
  <2>4. CounterIsFresh'
    BY <1>0, <2>1 DEF CounterIsFresh
  <2> QED BY <1>2, <1>4, <2>1, <2>2, <2>3, <2>4 DEF FlusherGoal, FlusherInv
<1>7. CASE SealFails
  <2>1. UNCHANGED <<name, nameD, sideD, synced>> /\ fpc' \in {"write", "idle", "exited"}
    BY <1>7 DEF SealFails, AfterSeal
  <2>2. KeepsAll
    BY <1>0, <2>1, UnchangedKeeps
  <2>3. FlusherTouches /\ SyncedPrefix'
    BY <1>0, <2>1 DEF FlusherTouches, SyncedPrefix
  <2>4. SealingInv' /\ CounterIsFresh'
    BY <1>0, <2>1 DEF SealingInv, Sealing, CounterIsFresh
  <2>5. WaitingInv'
    <3>1. \A r \in promoted' : Safe(r)'
      BY <1>0, <2>2, <2>3, KeepsSafe DEF WaitingInv
    <3>2. pending' = {}
      <4>1. CASE cause = "rotation"
        BY <1>7, <4>1 DEF SealFails, NackFailedWrite
      <4>2. CASE cause # "rotation"
        BY <1>0, <1>7, <4>2 DEF SealFails, WaitingInv, Sealing
      <4> QED BY <4>1, <4>2
    <3> QED BY <2>1, <3>1, <3>2 DEF WaitingInv, Sealing
  <2>6. \A r \in DurableTier : status'[r] = "acked" => status[r] = "acked"
    BY <1>7 DEF SealFails, NackFailedWrite, Reply, Records
  <2>7. DurableAckSafe'
    BY <2>2, <2>3, <2>6, AcksStaySafe
  <2> QED BY <1>2, <2>2, <2>3, <2>4, <2>5, <2>7 DEF FlusherGoal, FlusherInv
<1> QED BY <1>3, <1>5, <1>6, <1>7

\* Every step of the flusher preserves the invariant and keeps every segment.
LEMMA FlusherStepInv ==
    ASSUME IInv, FlusherStep(DrainGone), UNCHANGED <<drainVars, processVars>>
    PROVE  IInv' /\ KeepsAll
<1>1. TypeOK'
  <2>1. DirTypeOK' /\ FlusherTypeOK'
    BY FlusherStepType DEF IInv, TypeOK
  <2> QED BY <2>1 DEF IInv, TypeOK, DrainTypeOK, drainVars, processVars
<1>2. ASSUME KeepsAll, FlusherTouches, FlusherInv' PROVE IInv' /\ KeepsAll
  BY <1>1, <1>2, FlusherSparesDrain DEF IInv, FlusherInv
<1>3. CASE \/ \E r \in Records : Push(r)
           \/ ScanCounter \/ ScanFails \/ Receive \/ RejectRecord \/ AppendFails
           \/ TimedSeal \/ InputClosed \/ HandOff(DrainGone)
           \/ NotHandedOff(DrainGone) \/ FlusherPanic
  <2>1. UNCHANGED dirVars
    BY <1>3 DEF Push, ScanCounter, ScanFails, Receive, RejectRecord, AppendFails, TimedSeal,
                InputClosed, HandOff, NotHandedOff, HandOffEnds, FlusherPanic
  <2>2. KeepsAll
    BY <2>1, UnchangedKeeps DEF IInv, dirVars, fileVars, drainVars
  <2>3. FlusherTouches
    BY <2>1 DEF FlusherTouches, dirVars, fileVars
  <2>4. FlusherInv'
    BY <1>1, <1>3, <2>1, FlusherQuietInv
  <2> QED BY <1>2, <2>2, <2>3, <2>4
<1>4. CASE \/ OpenSegment \/ OpenFails \/ AppendRecord \/ GroupCommit \/ GroupCommitFails
           \/ Finalize \/ Rename \/ SyncRename \/ SealFails
  <2>1. FlusherGoal
    BY <1>1, <1>4, OpenInv, AppendInv, GroupCommitInv, SealInv
  <2> QED BY <1>2, <2>1 DEF FlusherGoal
<1> QED BY <1>3, <1>4 DEF FlusherStep

(***************************************************************************)
(* The drain.                                                              *)
(***************************************************************************)
\* What the drain and the scans may do to the directory: take away a sealed
\* segment that is delivered or goes to quarantine/, and confirm a delivered
\* one.
DirTouches ==
    /\ UNCHANGED fileVars
    /\ handled \subseteq handled' /\ quarantined \subseteq quarantined'
    /\ side' \subseteq side \cup {c \in Seg : name[c] = "sealed" /\ RangeOf(content[c]) \subseteq handled'}
    /\ sideD' \subseteq side'
    /\ \A c \in Seg :
         /\ name'[c] # name[c] =>
              /\ name[c] = "sealed" /\ name'[c] = "none"
              /\ \/ RangeOf(content[c]) \subseteq handled'
                 \/ QuarantineCopy(c) \in quarantined'
         /\ nameD'[c] \in {name[c], nameD[c]}

\* Nothing is lost by it, and every sidecar still stands for delivery.
LEMMA DirTouchesKeeps ==
    ASSUME IInv, TypeOK', DirTouches
    PROVE  KeepsAll /\ SyncedPrefix' /\ SidecarInv'
<1> USE DEF IInv, fileVars
<1>1. KeepsAll
  <2>1. ASSUME NEW c \in Seg, name[c] # "none" PROVE Kept(c)
    <3>1. CASE name'[c] = name[c]
      BY <2>1, <3>1 DEF DirTouches, Kept, Stays, TypeOK, DirTypeOK
    <3> QED BY <3>1 DEF DirTouches, Kept
  <2> QED BY <2>1 DEF DirTouches, KeepsAll
<1>2. SyncedPrefix'
  BY DEF DirTouches, SyncedPrefix
<1>3. SidecarInv'
  BY DEF DirTouches, SidecarInv, Delivered
<1> QED BY <1>1, <1>2, <1>3

DrainFrame == UNCHANGED <<phase, status, fpc, writerVars>>

\* Whatever the drain takes away or confirms, the flusher's part of the
\* invariant and the acks hold.
LEMMA DrainSparesFlusher ==
    ASSUME IInv, TypeOK', DirTouches, DrainFrame
    PROVE  ActiveInv' /\ SealingInv' /\ WaitingInv' /\ CounterIsFresh' /\ DurableAckSafe'
<1> USE DEF IInv, fileVars, writerVars, DrainFrame
<1>1. KeepsAll
  BY DirTouchesKeeps
<1>2. \A r : Safe(r) => Safe(r)'
  BY <1>1, KeepsSafe
<1>3. \A c \in Seg : name[c] = "wab" /\ nameD[c] # "none" =>
                        name'[c] = "wab" /\ nameD'[c] # "none"
  BY DEF DirTouches
<1>4. ActiveInv'
  <2>1. active # 0 => active \in Seg
    BY DEF TypeOK, FlusherTypeOK
  <2> QED BY <1>3, <2>1 DEF DirTouches, ActiveInv
<1>5. SealingInv'
  BY <1>3 DEF DirTouches, SealingInv, Sealing
<1>6. WaitingInv'
  BY <1>2 DEF DirTouches, WaitingInv, Sealing
<1>7. CounterIsFresh'
  BY DEF DirTouches, CounterIsFresh
<1>8. DurableAckSafe'
  BY <1>1, AcksStaySafe
<1> QED BY <1>4, <1>5, <1>6, <1>7, <1>8

\* scan_unconfirmed_sealed deletes only what a sidecar proves delivered, and
\* only among the segments it looks at.
LEMMA ScanTouches ==
    ASSUME IInv, NEW S \in SUBSET Seg, NEW found, ScanSealed(S, found),
           UNCHANGED <<fileVars, handled>>
    PROVE  DirTouches /\ \A c \in Seg \ S : name'[c] = name[c]
<1> USE DEF IInv, fileVars
<1>1. PICK orphans \in SUBSET Orphans(S), corrupt \in SUBSET Orphans(S) :
        DeleteOrphans(orphans, corrupt)
  BY DEF ScanSealed
<1>2. \A c \in orphans \cup corrupt :
         c \in S /\ name[c] = "sealed" /\ RangeOf(content[c]) \subseteq handled
  BY <1>1 DEF Orphans, SidecarInv, Delivered
<1>3. \A c \in Seg : name'[c] = IF c \in orphans \cup corrupt THEN "none" ELSE name[c]
  BY <1>1 DEF DeleteOrphans
<1>4. \A c \in Seg : nameD'[c] \in {name[c], nameD[c]}
  BY <1>1 DEF DeleteOrphans
<1>5. side' \subseteq side /\ sideD' \subseteq side' /\ quarantined \subseteq quarantined'
  BY <1>1 DEF DeleteOrphans, SidecarInv
<1> QED BY <1>2, <1>3, <1>4, <1>5 DEF DirTouches

\* A drain step that leaves the directory alone.
LEMMA DirUntouched ==
    ASSUME IInv, UNCHANGED dirVars, handled \subseteq handled'
    PROVE  DirTouches
BY DEF IInv, SidecarInv, dirVars, fileVars, DirTouches

DrainGoal == DirTouches /\ DrainFrame /\ LedgerInv' /\ InHandInv'

\* The drain's steps that leave the directory alone: what it takes into its
\* hands, and what the ledger comes to owe.
LEMMA DrainQuietInv ==
    ASSUME IInv,
           \/ TakeFromChannel \/ TakeFromQueue \/ SegmentGone \/ DeliverAll
           \/ Strand \/ Park \/ QuarantineMoveFails \/ SidecarFails \/ DeleteFails
           \/ RescanFails \/ ProbeDown \/ DrainPanic
    PROVE  DrainGoal
<1> USE DEF IInv, panicVars
<1>1. UNCHANGED dirVars /\ DrainFrame /\ handled \subseteq handled'
  BY DEF TakeFromChannel, TakeFromQueue, SegmentGone, DeliverAll, Strand, Park,
         QuarantineMoveFails, SidecarFails, DeleteFails, RescanFails, ProbeDown, DrainPanic,
         DrainFrame, flusherVars
<1>2. DirTouches
  BY <1>1, DirUntouched
<1>3. UNCHANGED <<name, content>>
  BY <1>1 DEF dirVars, fileVars
<1>4. \A c : Delivered(c) => Delivered(c)'
  BY <1>1, <1>3 DEF Delivered
<1>5. CASE TakeFromChannel \/ TakeFromQueue
  <2>1. /\ dpc = "idle" /\ owned' = owned
        /\ \E c \in Seg : Admit(c)
    BY <1>5, HeadTailProperties
    DEF TakeFromChannel, TakeFromQueue, TypeOK, FlusherTypeOK, DrainTypeOK
  <2>2. LedgerInv'
    BY <1>3, <1>4, <2>1 DEF LedgerInv
  <2>3. InHandInv'
    BY <2>1 DEF InHandInv, Admit
  <2> QED BY <1>1, <1>2, <2>2, <2>3 DEF DrainGoal
<1>6. CASE SegmentGone \/ Strand
  BY <1>1, <1>2, <1>3, <1>4, <1>6
  DEF SegmentGone, Strand, NextSegment, LedgerInv, InHandInv, DrainGoal
<1>7. CASE DeliverAll
  <2>1. dseg \in Seg /\ dseg' = dseg /\ name[dseg] = "sealed" /\ dpc' = "sidecar" /\ owned' = owned
        /\ RangeOf(content[dseg]) \subseteq handled'
    BY <1>7 DEF DeliverAll, InHandInv
  <2>2. InHandInv'
    BY <1>3, <2>1 DEF InHandInv, Delivered
  <2>3. LedgerInv'
    BY <1>3, <1>4, <2>1 DEF LedgerInv
  <2> QED BY <1>1, <1>2, <2>2, <2>3 DEF DrainGoal
<1>8. ASSUME NEW what, owned' = [owned EXCEPT ![dseg] = what], NextSegment,
             dseg \in Seg, name[dseg] = "sealed",
             what \in {"Sidecar", "Delete"} => Delivered(dseg)
      PROVE  LedgerInv' /\ InHandInv'
  <2>1. /\ owned'[dseg] = what
        /\ \A c \in Seg \ {dseg} : owned'[c] = owned[c]
    BY <1>8 DEF TypeOK, DrainTypeOK
  <2>2. LedgerInv'
    BY <1>3, <1>4, <1>8, <2>1 DEF LedgerInv
  <2> QED BY <1>8, <2>2 DEF InHandInv, NextSegment
<1>9. CASE Park \/ QuarantineMoveFails
  <2>1. /\ dseg \in Seg /\ name[dseg] = "sealed" /\ NextSegment
        /\ \/ owned' = [owned EXCEPT ![dseg] = "Parked"]
           \/ owned' = [owned EXCEPT ![dseg] = "Quarantine"]
    BY <1>9 DEF Park, QuarantineMoveFails, InHandInv
  <2> QED BY <1>1, <1>2, <1>8, <2>1 DEF DrainGoal
<1>10. CASE SidecarFails \/ DeleteFails
  <2>1. /\ dseg \in Seg /\ name[dseg] = "sealed" /\ NextSegment /\ Delivered(dseg)
        /\ \/ owned' = [owned EXCEPT ![dseg] = "Sidecar"]
           \/ owned' = [owned EXCEPT ![dseg] = "Delete"]
    BY <1>10 DEF SidecarFails, DeleteFails, InHandInv
  <2> QED BY <1>1, <1>2, <1>8, <2>1 DEF DrainGoal
<1>11. CASE RescanFails \/ ProbeDown
  BY <1>1, <1>2, <1>3, <1>4, <1>11 DEF RescanFails, ProbeDown, LedgerInv, InHandInv, DrainGoal
<1>12. CASE DrainPanic
  <2>1. \A c \in Seg : owned'[c] = owned[c] \/ owned'[c] = "Parked"
    BY <1>12 DEF DrainPanic, TypeOK, DrainTypeOK
  <2>2. LedgerInv'
    BY <1>3, <1>4, <2>1 DEF LedgerInv
  <2>3. InHandInv'
    BY <1>12 DEF DrainPanic, InHandInv
  <2> QED BY <1>1, <1>2, <2>2, <2>3 DEF DrainGoal
<1> QED BY <1>5, <1>6, <1>7, <1>9, <1>10, <1>11, <1>12

\* One sealed segment goes to quarantine/, and the ledger owes it nothing.
LEMMA MoveTouches ==
    ASSUME IInv, NEW c \in Seg, name[c] = "sealed", MoveToQuarantine(c),
           UNCHANGED <<nameD, side, sideD, fileVars>>, handled \subseteq handled'
    PROVE  DirTouches /\ \A b \in Seg \ {c} : name'[b] = name[b]
<1> USE DEF IInv, fileVars
<1>1. /\ name'[c] = "none" /\ \A b \in Seg \ {c} : name'[b] = name[b]
      /\ quarantined' = quarantined \cup {QuarantineCopy(c)}
  BY DEF MoveToQuarantine, TypeOK, DirTypeOK
<1> QED BY <1>1 DEF DirTouches, SidecarInv

\* The drain's steps that change the directory: quarantine, sidecar, delete,
\* the retry of an owed disposition, the rescan and the drain's way out.
LEMMA DrainMoveInv ==
    ASSUME IInv,
           \/ QuarantineSegment \/ WriteSidecar \/ SyncSidecar \/ DeleteSegment
           \/ \E c \in Seg : RetryDisposition(c)
           \/ Rescan \/ OperatorRescan \/ DrainStops
    PROVE  DrainGoal
<1> USE DEF IInv, panicVars, fileVars
<1>1. CASE QuarantineSegment
  <2>1. /\ dseg \in Seg /\ name[dseg] = "sealed" /\ owned[dseg] = "none"
        /\ MoveToQuarantine(dseg) /\ NextSegment
        /\ UNCHANGED <<nameD, side, sideD, fileVars, owned>> /\ handled \subseteq handled'
    BY <1>1 DEF QuarantineSegment, InHandInv
  <2>2. DirTouches /\ \A c \in Seg \ {dseg} : name'[c] = name[c]
    BY <2>1, MoveTouches
  <2>3. LedgerInv'
    BY <2>1, <2>2 DEF LedgerInv, Delivered
  <2>4. InHandInv' /\ DrainFrame
    BY <1>1, <2>1 DEF QuarantineSegment, NextSegment, InHandInv, DrainFrame, flusherVars
  <2> QED BY <2>2, <2>3, <2>4 DEF DrainGoal
<1>2. CASE WriteSidecar
  <2>1. /\ dseg \in Seg /\ name[dseg] = "sealed" /\ Delivered(dseg)
        /\ side' = side \cup {dseg} /\ dpc' = "sidesync"
        /\ UNCHANGED <<name, nameD, sideD, fileVars, quarantined, handled, owned, dseg>>
    BY <1>2 DEF WriteSidecar, InHandInv
  <2>2. DirTouches
    BY <2>1 DEF DirTouches, SidecarInv, Delivered
  <2>3. LedgerInv' /\ InHandInv'
    BY <2>1 DEF LedgerInv, InHandInv, Delivered
  <2>4. DrainFrame
    BY <1>2 DEF WriteSidecar, DrainFrame, flusherVars
  <2> QED BY <2>2, <2>3, <2>4 DEF DrainGoal
<1>3. CASE SyncSidecar
  <2>1. /\ nameD' = name /\ sideD' = side /\ dpc = "sidesync" /\ dpc' = "delete"
        /\ UNCHANGED <<name, side, fileVars, quarantined, handled, owned, dseg>>
    BY <1>3 DEF SyncSidecar, FsyncDir
  <2>2. DirTouches
    BY <2>1 DEF DirTouches
  <2>3. LedgerInv' /\ InHandInv'
    BY <2>1 DEF LedgerInv, InHandInv, Delivered
  <2>4. DrainFrame
    BY <1>3 DEF SyncSidecar, DrainFrame, flusherVars
  <2> QED BY <2>2, <2>3, <2>4 DEF DrainGoal
<1>4. CASE DeleteSegment
  <2>1. /\ dseg \in Seg /\ name[dseg] = "sealed" /\ Delivered(dseg) /\ NextSegment
        /\ UNCHANGED <<nameD, side, sideD, fileVars, quarantined, handled>>
    BY <1>4 DEF DeleteSegment, InHandInv
  <2>2. /\ name'[dseg] = "none" /\ owned'[dseg] = "none"
        /\ \A c \in Seg \ {dseg} : name'[c] = name[c] /\ owned'[c] = owned[c]
    BY <1>4, <2>1 DEF DeleteSegment, TypeOK, DirTypeOK, DrainTypeOK
  <2>3. DirTouches
    BY <2>1, <2>2 DEF DirTouches, SidecarInv, Delivered
  <2>4. LedgerInv' /\ InHandInv'
    BY <2>1, <2>2 DEF LedgerInv, InHandInv, NextSegment, Delivered
  <2>5. DrainFrame
    BY <1>4 DEF DeleteSegment, DrainFrame, flusherVars
  <2> QED BY <2>3, <2>4, <2>5 DEF DrainGoal
<1>5. ASSUME NEW c \in Seg, RetryDisposition(c) PROVE DrainGoal
  <2>1. /\ owned[c] \in {"Sidecar", "Delete", "Quarantine"} /\ dpc = "idle" /\ DrainFrame
        /\ UNCHANGED <<nameD, side, sideD, fileVars, handled>>
    BY <1>5 DEF RetryDisposition, TypeOK, DrainTypeOK, DrainFrame, flusherVars
  <2>2. name[c] = "sealed"
    BY <2>1 DEF LedgerInv
  <2>3. CASE owned[c] \in {"Sidecar", "Delete"}
    <3>1. /\ UNCHANGED <<name, quarantined, owned>> /\ dseg' = c /\ dpc' \in {"sidecar", "delete"}
          /\ Delivered(c)
      BY <1>5, <2>3 DEF RetryDisposition, LedgerInv
    <3>2. DirTouches
      BY <2>1, <3>1 DEF DirTouches, SidecarInv
    <3>3. LedgerInv'
      BY <2>1, <3>1 DEF LedgerInv, Delivered
    <3>4. InHandInv'
      BY <2>1, <2>2, <3>1 DEF InHandInv, Delivered
    <3> QED BY <2>1, <3>2, <3>3, <3>4 DEF DrainGoal
  <2>4. CASE owned[c] = "Quarantine"
    <3>1. /\ MoveToQuarantine(c) /\ UNCHANGED <<dpc, dseg>>
          /\ owned' = [owned EXCEPT ![c] = "none"]
      BY <1>5, <2>4 DEF RetryDisposition
    <3>2. DirTouches /\ \A b \in Seg \ {c} : name'[b] = name[b]
      BY <2>1, <2>2, <3>1, MoveTouches
    <3>3. owned'[c] = "none" /\ \A b \in Seg \ {c} : owned'[b] = owned[b]
      BY <3>1 DEF TypeOK, DrainTypeOK
    <3>4. LedgerInv' /\ InHandInv'
      BY <2>1, <3>1, <3>2, <3>3 DEF LedgerInv, InHandInv, Delivered
    <3> QED BY <2>1, <3>2, <3>4 DEF DrainGoal
  <2> QED BY <2>1, <2>3, <2>4
<1>6. CASE Rescan \/ OperatorRescan
  <2>1. /\ dpc \in {"idle", "deliver"} /\ DrainFrame
        /\ UNCHANGED <<fileVars, handled, dpc, dseg, owned>>
        /\ \E found \in SUBSET Seg : ScanSealed({c \in Seg : owned[c] = "none"}, found)
    BY <1>6 DEF Rescan, OperatorRescan, Requeue, DrainFrame
  <2>2. DirTouches /\ \A c \in Seg : owned[c] # "none" => name'[c] = name[c]
    BY <2>1, ScanTouches
  <2>3. LedgerInv' /\ InHandInv'
    BY <2>1, <2>2 DEF LedgerInv, InHandInv, Delivered
  <2> QED BY <2>1, <2>2, <2>3 DEF DrainGoal
<1>7. CASE DrainStops
  <2>1. PICK done \in SUBSET {c \in Seg : owned[c] \notin {"none", "Parked"}},
             half \in SUBSET {c \in Seg : owned[c] = "Sidecar" /\ name[c] # "none"},
             confirms \in SUBSET {c \in Seg : owned[c] = "Sidecar" /\ name[c] # "none"} :
          /\ owned' = [c \in Seg |-> IF c \in done THEN "none" ELSE owned[c]]
          /\ side' = side \cup confirms
          /\ sideD' = side' \/ sideD' = sideD
          /\ nameD' = name \/ nameD' = nameD
          /\ name' = [c \in Seg |-> IF c \in done THEN "none" ELSE name[c]]
          /\ quarantined' = quarantined \cup
               {QuarantineCopy(c) : c \in {b \in done : owned[b] = "Quarantine"}}
    BY <1>7 DEF DrainStops
  <2>2. handled \subseteq handled' /\ dpc' = "exited" /\ dseg' = 0 /\ UNCHANGED fileVars /\ DrainFrame
    BY <1>7 DEF DrainStops, DrainFrame, flusherVars
  <2>3. \A c \in done : owned[c] \in {"Sidecar", "Delete", "Quarantine"} /\ name[c] = "sealed"
    BY DEF LedgerInv, TypeOK, DrainTypeOK
  <2>4. \A c \in done : \/ RangeOf(content[c]) \subseteq handled'
                        \/ QuarantineCopy(c) \in quarantined'
    BY <2>1, <2>2, <2>3 DEF LedgerInv, Delivered
  <2>5. \A c \in confirms : name[c] = "sealed" /\ RangeOf(content[c]) \subseteq handled'
    BY <2>2 DEF LedgerInv, Delivered
  <2>6. DirTouches
    BY <2>1, <2>2, <2>3, <2>4, <2>5 DEF DirTouches, SidecarInv
  <2>7. LedgerInv' /\ InHandInv'
    BY <2>1, <2>2 DEF LedgerInv, InHandInv, Delivered
  <2> QED BY <2>2, <2>6, <2>7 DEF DrainGoal
<1> QED BY <1>1, <1>2, <1>3, <1>4, <1>5, <1>6, <1>7

\* Every step of the drain preserves the invariant and keeps every segment.
LEMMA DrainStepInv ==
    ASSUME IInv, DrainStep, UNCHANGED processVars
    PROVE  IInv' /\ KeepsAll
<1>1. TypeOK'
  <2>1. DirTypeOK' /\ FlusherTypeOK' /\ DrainTypeOK'
    BY DrainStepType DEF IInv, TypeOK
  <2> QED BY <2>1 DEF IInv, TypeOK, processVars
<1>2. DrainGoal
  BY DrainQuietInv, DrainMoveInv DEF DrainStep
<1>3. DownIsEmpty'
  <2>1. dpc # "off"
    BY DEF DrainStep, TakeFromChannel, TakeFromQueue, SegmentGone, DeliverAll, Strand, Park,
           QuarantineSegment, QuarantineMoveFails, WriteSidecar, SyncSidecar, SidecarFails,
           DeleteSegment, DeleteFails, RetryDisposition, Rescan, OperatorRescan, Requeue, RescanFails,
           ProbeDown, DrainPanic, DrainStops
  <2> QED BY <1>2, <2>1 DEF IInv, DownIsEmpty, DrainGoal, DrainFrame
<1> QED BY <1>1, <1>2, <1>3, DirTouchesKeeps, DrainSparesFlusher DEF IInv, DrainGoal

(***************************************************************************)
(* Startup, shutdown and failure of the process.                           *)
(***************************************************************************)
\* A prefix of a sequence.
LEMMA PrefixFacts ==
    ASSUME NEW s \in Seq(Records), NEW k \in 0..Len(s)
    PROVE  /\ Len(SubSeq(s, 1, k)) = k
           /\ \A i \in 1..k : SubSeq(s, 1, k)[i] = s[i]
           /\ RangeOf(SubSeq(s, 1, k)) \subseteq RangeOf(s)
<1>1. k \in Nat /\ Len(s) \in Nat /\ DOMAIN s = 1..Len(s)
  OBVIOUS
<1>2. Len(SubSeq(s, 1, k)) = k /\ \A i \in 1..k : SubSeq(s, 1, k)[i] = s[i]
  BY <1>1, SubSeqProperties
<1>3. DOMAIN SubSeq(s, 1, k) = 1..k
  BY <1>1, <1>2, SubSeqProperties
<1> QED BY <1>1, <1>2, <1>3 DEF RangeOf

\* Before the threads run, all that matters is the directory.
LEMMA NoThreadsInv ==
    ASSUME IInv, TypeOK', KeepsAll, SyncedPrefix', SidecarInv',
           phase \in {"down", "recovering"},
           UNCHANGED <<status, active, pending, promoted, owned>>,
           fpc' \in {"off", "scan"}, dpc' \in {"off", "idle"},
           phase' \in {"down", "recovering"} => fpc' = "off" /\ dpc' = "off"
    PROVE  IInv'
<1> USE DEF IInv
<1>1. fpc = "off" /\ \A c \in Seg : owned[c] = "none"
  BY DEF DownIsEmpty
<1>2. active = 0 /\ pending = {}
  BY <1>1 DEF ActiveInv, WaitingInv, Sealing
<1>3. DownIsEmpty' /\ LedgerInv' /\ InHandInv' /\ ActiveInv' /\ SealingInv' /\ CounterIsFresh'
  BY <1>1, <1>2 DEF DownIsEmpty, LedgerInv, InHandInv, ActiveInv, SealingInv, Sealing,
                    CounterIsFresh
<1>4. \A r \in promoted' : Safe(r)'
  BY KeepsSafe DEF WaitingInv
<1>5. WaitingInv'
  BY <1>2, <1>4 DEF WaitingInv, Sealing
<1>6. DurableAckSafe'
  BY AcksStaySafe
<1> QED BY <1>3, <1>5, <1>6

\* The process ends: nothing is promised any more but what is on disk.
LEMMA LoseMemoryInv ==
    ASSUME IInv, TypeOK', KeepsAll, SyncedPrefix', SidecarInv', LoseMemory
    PROVE  IInv'
<1> USE DEF IInv
<1>1. /\ fpc' = "off" /\ dpc' = "off" /\ active' = 0 /\ pending' = {} /\ promoted' = {}
      /\ \A c \in Seg : owned'[c] = "none"
  BY DEF LoseMemory, FreshWriter
<1>2. DownIsEmpty' /\ LedgerInv' /\ InHandInv' /\ ActiveInv' /\ SealingInv' /\ CounterIsFresh'
  BY <1>1 DEF DownIsEmpty, LedgerInv, InHandInv, ActiveInv, SealingInv, Sealing, CounterIsFresh
<1>3. WaitingInv'
  BY <1>1 DEF WaitingInv, Sealing
<1>4. \A r \in DurableTier : status'[r] = "acked" => status[r] = "acked"
  BY DEF LoseMemory, Records
<1>5. DurableAckSafe'
  BY <1>4, AcksStaySafe
<1> QED BY <1>2, <1>3, <1>5

\* Rebuilding and sealing a segment during recovery: all of it, or a prefix
\* once the whole file is in quarantine/.
LEMMA SealPrefixInv ==
    ASSUME IInv, TypeOK', NEW c \in Seg, NEW k \in 0..Len(content[c]), SealPrefix(c, k),
           k = Len(content[c]) \/ QuarantineCopy(c) \in quarantined',
           quarantined \subseteq quarantined', handled' = handled, side' = side,
           \/ nameD' = nameD /\ sideD' = sideD
           \/ nameD' = name' /\ sideD' = side'
    PROVE  KeepsAll /\ SyncedPrefix' /\ SidecarInv'
<1> USE DEF IInv
<1>1. \A b \in Seg : content[b] \in Seq(Records) /\ synced[b] \in Nat /\ Len(content[b]) \in Nat
  BY DEF TypeOK, DirTypeOK
<1>2. /\ content'[c] = SubSeq(content[c], 1, k) /\ name'[c] = "sealed"
      /\ \A b \in Seg \ {c} : content'[b] = content[b] /\ synced'[b] = synced[b] /\ name'[b] = name[b]
      /\ synced'[c] = IF c \in hole THEN (IF synced[c] < k THEN synced[c] ELSE k) ELSE k
  BY DEF SealPrefix, RenameSealed, TypeOK, DirTypeOK
<1>3. /\ Len(content'[c]) = k /\ \A i \in 1..k : content'[c][i] = content[c][i]
      /\ RangeOf(content'[c]) \subseteq RangeOf(content[c])
  BY <1>1, <1>2, PrefixFacts
<1>4. KeepsAll
  <2>1. ASSUME NEW b \in Seg \ {c}, name[b] # "none" PROVE Stays(b)
    BY <1>1, <1>2, <2>1 DEF Stays
  <2>2. ASSUME k = Len(content[c]) PROVE Stays(c)
    <3>1. synced[c] <= k /\ synced[c] <= synced'[c]
      BY <1>1, <1>2, <2>2 DEF SyncedPrefix
    <3>2. \A i \in 1..synced[c] : content'[c][i] = content[c][i]
      BY <1>1, <1>3, <3>1
    <3>3. name'[c] # "none" /\ (nameD[c] # "none" => nameD'[c] # "none")
      BY <1>2
    <3> QED BY <3>1, <3>2, <3>3 DEF Stays
  <2> QED BY <2>1, <2>2 DEF KeepsAll, Kept
<1>5. SyncedPrefix'
  <2>1. synced'[c] <= Len(content'[c])
    BY <1>1, <1>2, <1>3
  <2> QED BY <1>2, <2>1 DEF SyncedPrefix
<1>6. SidecarInv'
  <2>1. \A b \in Seg : RangeOf(content'[b]) \subseteq RangeOf(content[b])
    BY <1>2, <1>3
  <2>2. side \subseteq Seg
    BY DEF TypeOK, DirTypeOK
  <2> QED BY <2>1, <2>2 DEF SidecarInv, Delivered
<1> QED BY <1>4, <1>5, <1>6

\* A rebuild that fails after the truncation has its copy in quarantine/.
LEMMA TruncateInv ==
    ASSUME IInv, NEW c \in Seg, NEW k \in 0..Len(content[c]), Truncate(c, k),
           quarantined' = quarantined \cup {QuarantineCopy(c)},
           UNCHANGED <<handled, nameD, side, sideD>>
    PROVE  KeepsAll /\ SyncedPrefix' /\ SidecarInv'
<1> USE DEF IInv
<1>1. \A b \in Seg : content[b] \in Seq(Records) /\ synced[b] \in Nat /\ Len(content[b]) \in Nat
  BY DEF TypeOK, DirTypeOK
<1>2. /\ content'[c] = SubSeq(content[c], 1, k) /\ name' = name
      /\ \A b \in Seg \ {c} : content'[b] = content[b] /\ synced'[b] = synced[b]
      /\ synced'[c] = IF synced[c] < k THEN synced[c] ELSE k
  BY DEF Truncate, TypeOK, DirTypeOK
<1>3. Len(content'[c]) = k /\ RangeOf(content'[c]) \subseteq RangeOf(content[c])
  BY <1>1, <1>2, PrefixFacts
<1>4. KeepsAll
  <2>1. ASSUME NEW b \in Seg \ {c}, name[b] # "none" PROVE Stays(b)
    BY <1>1, <1>2, <2>1 DEF Stays
  <2> QED BY <2>1 DEF KeepsAll, Kept
<1>5. SyncedPrefix'
  <2>1. synced'[c] <= Len(content'[c])
    BY <1>1, <1>2, <1>3
  <2> QED BY <1>2, <2>1 DEF SyncedPrefix
<1>6. SidecarInv'
  <2>1. \A b \in Seg : RangeOf(content'[b]) \subseteq RangeOf(content[b])
    BY <1>2, <1>3
  <2>2. side \subseteq Seg
    BY DEF TypeOK, DirTypeOK
  <2> QED BY <2>1, <2>2 DEF SidecarInv, Delivered
<1> QED BY <1>4, <1>5, <1>6

\* A power loss keeps every segment both views of the directory have, with
\* its synced prefix.
LEMMA LosePowerInv ==
    ASSUME IInv, TypeOK', LosePower, handled' = handled, phase' = "down"
    PROVE  KeepsAll /\ SyncedPrefix' /\ SidecarInv'
<1> USE DEF IInv
<1>1. PICK lateNames \in SUBSET {c \in Seg : name[c] # nameD[c]},
           lateSides \in SUBSET ((side \cup sideD) \ (side \cap sideD)),
           cut \in {f \in [Seg -> 0..SegmentMax] :
                        \A c \in Seg : f[c] \in synced[c]..Len(content[c])} :
        /\ name' = [c \in Seg |-> IF c \in lateNames THEN name[c] ELSE nameD[c]]
        /\ nameD' = name'
        /\ side' = (side \cap sideD) \cup lateSides
        /\ sideD' = side'
        /\ content' = [c \in Seg |-> SubSeq(content[c], 1, cut[c])]
        /\ synced' = cut
        /\ quarantined' = quarantined
  BY Zenon DEF LosePower
<1>2. ASSUME NEW c \in Seg
      PROVE  /\ content[c] \in Seq(Records) /\ synced[c] \in Nat
             /\ cut[c] \in 0..Len(content[c]) /\ synced[c] <= cut[c]
             /\ content'[c] = SubSeq(content[c], 1, cut[c]) /\ synced'[c] = cut[c]
  <2>1. content[c] \in Seq(Records) /\ synced[c] \in Nat /\ Len(content[c]) \in Nat
    BY DEF TypeOK, DirTypeOK
  <2>2. cut[c] \in synced[c]..Len(content[c])
    BY <1>1
  <2>3. content'[c] = SubSeq(content[c], 1, cut[c]) /\ synced'[c] = cut[c]
    BY <1>1
  <2> QED BY <2>1, <2>2, <2>3
<1>3. ASSUME NEW c \in Seg
      PROVE  /\ Len(content'[c]) = cut[c] /\ \A i \in 1..cut[c] : content'[c][i] = content[c][i]
             /\ RangeOf(content'[c]) \subseteq RangeOf(content[c])
  <2>1. /\ content[c] \in Seq(Records) /\ cut[c] \in 0..Len(content[c])
        /\ content'[c] = SubSeq(content[c], 1, cut[c])
    BY <1>2
  <2>2. /\ Len(SubSeq(content[c], 1, cut[c])) = cut[c]
        /\ \A i \in 1..cut[c] : SubSeq(content[c], 1, cut[c])[i] = content[c][i]
        /\ RangeOf(SubSeq(content[c], 1, cut[c])) \subseteq RangeOf(content[c])
    BY <2>1, PrefixFacts
  <2> QED BY <2>1, <2>2
<1>4. KeepsAll
  <2>1. ASSUME NEW c \in Seg, name[c] # "none", nameD[c] # "none" PROVE Stays(c)
    <3>1. name'[c] # "none" /\ nameD'[c] # "none"
      BY <1>1, <2>1
    <3>2. synced[c] <= synced'[c] /\ \A i \in 1..synced[c] : content'[c][i] = content[c][i]
      BY <1>2, <1>3
    <3> QED BY <3>1, <3>2 DEF Stays
  <2> QED BY <1>1, <2>1 DEF KeepsAll, Kept
<1>5. SyncedPrefix'
  <2>1. ASSUME NEW c \in Seg PROVE synced'[c] <= Len(content'[c])
    BY <1>2, <1>3
  <2> QED BY <2>1 DEF SyncedPrefix
<1>6. SidecarInv'
  <2>1. side' \subseteq side /\ side \subseteq Seg /\ sideD' = side'
    BY <1>1 DEF SidecarInv, TypeOK, DirTypeOK
  <2> QED BY <1>3, <2>1 DEF SidecarInv, Delivered
<1> QED BY <1>4, <1>5, <1>6

\* Startup recovery and replay, stop, exit, crash and power loss preserve the
\* invariant and keep every segment.
LEMMA ProcessStepInv ==
    ASSUME IInv, RecoveryStep \/ ShutdownStep \/ Exit \/ Crash \/ PowerLoss
    PROVE  IInv' /\ KeepsAll
<1> USE DEF fileVars, writerVars
<1>0. TypeOK /\ TypeOK'
  BY ProcessStepType DEF IInv
<1>1. ASSUME UNCHANGED <<dirVars, handled>>
      PROVE  KeepsAll /\ SyncedPrefix' /\ SidecarInv'
  <2>1. KeepsAll
    BY <1>0, <1>1, UnchangedKeeps DEF dirVars
  <2> QED BY <1>1, <2>1 DEF IInv, dirVars, SyncedPrefix, SidecarInv, Delivered
<1>2. CASE Start
  <2>1. /\ UNCHANGED <<dirVars, handled, status, active, pending, promoted, owned, fpc, dpc>>
        /\ phase = "down"
    BY <1>2 DEF Start, drainVars
  <2>2. fpc = "off" /\ dpc = "off"
    BY <2>1 DEF IInv, DownIsEmpty
  <2> QED BY <1>0, <1>1, <2>1, <2>2, NoThreadsInv
<1>3. ASSUME NEW c \in Seg, Recovering(c), RecoveryFrame(c), KeepsAll, SyncedPrefix', SidecarInv'
      PROVE  IInv' /\ KeepsAll
  <2>1. /\ UNCHANGED <<status, active, pending, promoted, owned, fpc, dpc, phase>>
        /\ phase = "recovering"
    BY <1>3 DEF Recovering, RecoveryFrame, flusherVars, drainVars
  <2>2. fpc = "off" /\ dpc = "off"
    BY <2>1 DEF IInv, DownIsEmpty
  <2> QED BY <1>0, <1>3, <2>1, <2>2, NoThreadsInv
<1>4. ASSUME NEW c \in Seg, RecoveryFrame(c) PROVE handled' = handled
  BY <1>4 DEF RecoveryFrame, drainVars
<1>5. \A c \in Seg : Len(content[c]) \in 0..Len(content[c])
  BY <1>0 DEF TypeOK, DirTypeOK
<1>6. ASSUME NEW c \in Seg, RecoverSegment(c) PROVE IInv' /\ KeepsAll
  <2>1. KeepsAll /\ SyncedPrefix' /\ SidecarInv'
    BY <1>0, <1>4, <1>5, <1>6, SealPrefixInv DEF RecoverSegment, FsyncDir
  <2> QED BY <1>3, <1>6, <2>1 DEF RecoverSegment
<1>7. ASSUME NEW c \in Seg, RecoverCorrupt(c) PROVE IInv' /\ KeepsAll
  <2>1. PICK k \in 0..Len(content[c]) : SealPrefix(c, k)
    BY <1>7 DEF RecoverCorrupt
  <2>2. KeepsAll /\ SyncedPrefix' /\ SidecarInv'
    BY <1>0, <1>4, <1>7, <2>1, SealPrefixInv DEF RecoverCorrupt, FsyncDir
  <2> QED BY <1>3, <1>7, <2>2 DEF RecoverCorrupt
<1>8. ASSUME NEW c \in Seg, RecoverNoHeader(c) PROVE IInv' /\ KeepsAll
  <2>1. /\ \A b \in Seg \ {c} : name'[b] = name[b]
        /\ quarantined' = quarantined \cup {QuarantineCopy(c)}
        /\ UNCHANGED <<nameD, side, sideD, content, synced, handled>>
    BY <1>0, <1>4, <1>8 DEF RecoverNoHeader, MoveToQuarantine, TypeOK, DirTypeOK
  <2>2. ASSUME NEW b \in Seg, name[b] # "none" PROVE Kept(b)
    <3>1. CASE b = c
      BY <2>1, <3>1 DEF Kept
    <3>2. CASE b # c
      BY <1>0, <2>1, <2>2, <3>2 DEF Kept, Stays, TypeOK, DirTypeOK
    <3> QED BY <3>1, <3>2
  <2>3. KeepsAll
    BY <2>1, <2>2 DEF KeepsAll
  <2>4. SyncedPrefix' /\ SidecarInv'
    BY <2>1 DEF IInv, SyncedPrefix, SidecarInv, Delivered
  <2> QED BY <1>3, <1>8, <2>3, <2>4 DEF RecoverNoHeader
<1>9. ASSUME NEW c \in Seg, RecoverFails(c) PROVE IInv' /\ KeepsAll
  <2>1. CASE UNCHANGED <<name, fileVars, quarantined>>
    <3>1. KeepsAll /\ SyncedPrefix' /\ SidecarInv'
      BY <1>1, <1>4, <1>9, <2>1 DEF RecoverFails, dirVars
    <3> QED BY <1>3, <1>9, <3>1 DEF RecoverFails
  <2>2. CASE SealPrefix(c, Len(content[c])) /\ UNCHANGED <<hole, quarantined>>
    <3>1. KeepsAll /\ SyncedPrefix' /\ SidecarInv'
      BY <1>0, <1>4, <1>5, <1>9, <2>2, SealPrefixInv DEF RecoverFails
    <3> QED BY <1>3, <1>9, <3>1 DEF RecoverFails
  <2>3. CASE /\ quarantined' = quarantined \cup {QuarantineCopy(c)}
             /\ \E k \in 0..Len(content[c]) : Truncate(c, k)
    <3>1. PICK k \in 0..Len(content[c]) : Truncate(c, k)
      BY <2>3
    <3>2. UNCHANGED <<handled, nameD, side, sideD>>
      BY <1>4, <1>9 DEF RecoverFails
    <3>3. KeepsAll /\ SyncedPrefix' /\ SidecarInv'
      BY <1>0, <2>3, <3>1, <3>2, TruncateInv
    <3> QED BY <1>3, <1>9, <3>3 DEF RecoverFails
  <2> QED BY <1>9, <2>1, <2>2, <2>3 DEF RecoverFails
<1>10. CASE Replay
  <2>1. \E found \in SUBSET Seg : ScanSealed(Seg, found)
    BY <1>10 DEF Replay
  <2>2. DirTouches
    BY <1>10, <2>1, ScanTouches DEF Replay
  <2>3. /\ UNCHANGED <<status, active, pending, promoted, owned>> /\ phase = "recovering"
        /\ phase' = "running" /\ fpc' = "scan" /\ dpc' = "idle"
    BY <1>10 DEF Replay
  <2> QED BY <1>0, <2>2, <2>3, DirTouchesKeeps, NoThreadsInv
<1>11. CASE ShutdownStep
  <2>1. /\ UNCHANGED <<dirVars, status, fpc, writerVars, drainVars>>
        /\ phase' \in {"lameduck", "closing", "stopping"}
        /\ phase \notin {"down", "recovering"}
    BY <1>11 DEF ShutdownStep, Stop, CloseIngest, RequestStop, ForceStop, ShutdownFrame
  <2>2. KeepsAll /\ SyncedPrefix' /\ SidecarInv'
    BY <1>1, <2>1 DEF drainVars
  <2>3. LedgerInv' /\ InHandInv' /\ DownIsEmpty'
    BY <2>1 DEF IInv, LedgerInv, InHandInv, DownIsEmpty, Delivered, dirVars, drainVars
  <2>4. ActiveInv' /\ SealingInv' /\ CounterIsFresh'
    BY <2>1 DEF IInv, ActiveInv, SealingInv, Sealing, CounterIsFresh, dirVars
  <2>5. WaitingInv'
    <3>1. \A r : Safe(r) => Safe(r)'
      BY <1>0, <2>2, KeepsSafe DEF IInv
    <3> QED BY <2>1, <3>1 DEF IInv, WaitingInv, Sealing, dirVars
  <2>6. DurableAckSafe'
    BY <1>0, <2>1, <2>2, AcksStaySafe DEF IInv
  <2> QED BY <1>0, <2>2, <2>3, <2>4, <2>5, <2>6 DEF IInv
<1>12. CASE Exit \/ Crash
  <2>1. UNCHANGED <<dirVars, handled>> /\ LoseMemory
    BY <1>12 DEF Exit, Crash, LoseMemory
  <2> QED BY <1>0, <1>1, <2>1, LoseMemoryInv
<1>13. CASE PowerLoss
  <2>1. KeepsAll /\ SyncedPrefix' /\ SidecarInv'
    BY <1>0, <1>13, LosePowerInv DEF PowerLoss, LoseMemory
  <2> QED BY <1>0, <1>13, <2>1, LoseMemoryInv DEF PowerLoss
<1> QED BY <1>2, <1>6, <1>7, <1>8, <1>9, <1>10, <1>11, <1>12, <1>13 DEF RecoveryStep

(***************************************************************************)
(* The theorems.                                                           *)
(***************************************************************************)
\* The invariant holds initially ...
LEMMA InitInv == Init => IInv
<1> SUFFICES ASSUME Init PROVE IInv
  OBVIOUS
<1>1. TypeOK
  BY InitType
<1>2. SyncedPrefix /\ DownIsEmpty /\ SidecarInv /\ LedgerInv /\ InHandInv
  BY DEF Init, DirInit, FlusherInit, DrainInit, SyncedPrefix, DownIsEmpty, SidecarInv,
         LedgerInv, InHandInv
<1>3. ActiveInv /\ SealingInv /\ WaitingInv /\ CounterIsFresh
  BY DEF Init, FlusherInit, ActiveInv, SealingInv, Sealing, WaitingInv, CounterIsFresh
<1>4. DurableAckSafe
  BY DEF Init, FlusherInit, DurableAckSafe, Records
<1> QED BY <1>1, <1>2, <1>3, <1>4 DEF IInv

\* ... and every step preserves it and keeps every segment.
LEMMA NextInv == IInv /\ Next => IInv' /\ KeepsAll
BY FlusherStepInv, DrainStepInv, ProcessStepInv DEF Next

\* A stuttering step changes nothing the invariant is about.
LEMMA StutterInv == IInv /\ UNCHANGED vars => IInv'
<1> SUFFICES ASSUME IInv, UNCHANGED vars PROVE IInv'
  OBVIOUS
<1> USE DEF vars, dirVars, fileVars, flusherVars, writerVars, drainVars, processVars
<1>1. TypeOK'
  BY DEF IInv, TypeOK, DirTypeOK, FlusherTypeOK, DrainTypeOK
<1>2. SyncedPrefix' /\ DownIsEmpty' /\ SidecarInv' /\ LedgerInv' /\ InHandInv'
  BY DEF IInv, SyncedPrefix, DownIsEmpty, SidecarInv, LedgerInv, InHandInv, Delivered
<1>3. ActiveInv' /\ SealingInv' /\ CounterIsFresh'
  BY DEF IInv, ActiveInv, SealingInv, Sealing, CounterIsFresh
<1>4. \A r : Safe(r)' <=> Safe(r)
  BY DEF Safe, InQuarantine, OnStableStorage, SyncedRecords
<1>5. WaitingInv'
  BY <1>4 DEF IInv, WaitingInv, Sealing
<1>6. DurableAckSafe'
  BY <1>4 DEF IInv, DurableAckSafe, Safe
<1> QED BY <1>1, <1>2, <1>3, <1>5, <1>6 DEF IInv

\* The inductive invariant of the shard: where every record that waits for an
\* ack is, what the ledger and the drain hold, and what the directory keeps.
THEOREM Invariance == Spec => []IInv
<1>1. Init => IInv
  BY InitInv
<1>2. IInv /\ [Next]_vars => IInv'
  BY NextInv, StutterInv
<1> QED BY <1>1, <1>2, PTL DEF Spec

\* Every variable keeps its type.
THEOREM TypeCorrect == Spec => []TypeOK
<1>1. IInv => TypeOK
  BY DEF IInv
<1> QED BY <1>1, Invariance, PTL

\* Never a false ack: what flush_batch acks at the Durable tier is on stable
\* storage, handled or in quarantine/, for any number of records, segments,
\* faults, crashes and power losses.
THEOREM NoFalseAck == Spec => []DurableAckSafe
<1>1. IInv => DurableAckSafe
  BY DEF IInv
<1> QED BY <1>1, Invariance, PTL

\* scan_and_advance_counter is enough: no started flusher opens a segment
\* under a counter a file or a sidecar of the directory still carries.
THEOREM FreshCounters == Spec => []CounterIsFresh
<1>1. IInv => CounterIsFresh
  BY DEF IInv
<1> QED BY <1>1, Invariance, PTL

\* A sidecar, durable or not, stands for delivery: deleting an orphan on the
\* strength of its sidecar loses nothing.
THEOREM SidecarsAreProof == Spec => []SidecarMeansHandled
<1>1. IInv => SidecarMeansHandled
  BY DEF IInv, SidecarInv, SidecarMeansHandled, Delivered
<1> QED BY <1>1, Invariance, PTL

\* No step of the flusher, the drain, the scans, the ledger's retries or the
\* recovery makes a segment disappear before its records are handled or in
\* quarantine/.
THEOREM NothingDropped == Spec => NeverDropUnhandled
<1> DEFINE Kind ==
      \A c \in Seg :
         /\ name[c] # "none" /\ name'[c] = "none"
         /\ nameD[c] # "none" \/ phase' # "down"
         => \A r \in RangeOf(content[c]) : r \in handled' \/ InQuarantine(r)'
<1>1. IInv /\ Next => Kind
  <2> SUFFICES ASSUME IInv, Next, NEW c \in Seg, name[c] # "none", name'[c] = "none",
                      nameD[c] # "none" \/ phase' # "down",
                      NEW r \in RangeOf(content[c])
               PROVE  r \in handled' \/ InQuarantine(r)'
    OBVIOUS
  <2>1. Kept(c)
    BY NextInv DEF KeepsAll
  <2> QED BY <2>1 DEF Kept, Stays, QuarantineCopy, InQuarantine
<1>2. UNCHANGED vars => Kind
  BY DEF vars, dirVars
<1>3. IInv /\ [Next]_vars => [Kind]_vars
  BY <1>1, <1>2
<1> QED BY <1>3, Invariance, PTL DEF Spec, NeverDropUnhandled
=============================================================================
