-------------------------- MODULE WabPromiseProofs --------------------------
(***************************************************************************)
(* What the shard promises, for every value of the constants, on top of    *)
(* the invariant of WabProofs.  It keeps the promise of DurableBuffer:     *)
(* that needs where a record that waits for its answer is (UnansweredInv)  *)
(* and what a power loss can bring back (UndoneInv).  No two records share *)
(* an address: that rests on where a segment's counter stays taken once    *)
(* its file is gone (AddressInv, DeleteInv).  No confirmed segment is      *)
(* delivered again: that rests on which segments may still be on their way *)
(* to the drain (QueueInv, UnsealedInv).                                   *)
(***************************************************************************)
EXTENDS WabProofs

(***************************************************************************)
(* What a step does to the records the shard has.                          *)
(***************************************************************************)
\* No record leaves the shard.
Carries == \A r : Held(r) => Held(r)'

\* A record that comes into the shard is being pushed.
Admits == \A r : Held(r)' => Held(r) \/ status[r] = "queued"

\* Segment by segment: its records stay, or are handled, or are copied.
LEMMA CarriesBySegment ==
    ASSUME handled \subseteq handled', quarantined \subseteq quarantined',
           \A c \in Seg : name[c] # "none" =>
              \/ name'[c] # "none" /\ RangeOf(content[c]) \subseteq RangeOf(content'[c])
              \/ RangeOf(content[c]) \subseteq handled'
              \/ QuarantineCopy(c) \in quarantined'
    PROVE  Carries
<1> SUFFICES ASSUME NEW r, Held(r) PROVE Held(r)'
  BY DEF Carries
<1>1. CASE Done(r)
  BY <1>1 DEF Done, Held, InQuarantine
<1>2. CASE InBuffer(r)
  <2>1. PICK c \in Seg : name[c] # "none" /\ r \in RangeOf(content[c])
    BY <1>2 DEF InBuffer
  <2>2. CASE name'[c] # "none" /\ RangeOf(content[c]) \subseteq RangeOf(content'[c])
    <3>1. InBuffer(r)'
      BY <2>1, <2>2 DEF InBuffer
    <3> QED BY <3>1 DEF Held
  <2>3. CASE RangeOf(content[c]) \subseteq handled'
    BY <2>1, <2>3 DEF Done, Held
  <2>4. CASE QuarantineCopy(c) \in quarantined'
    BY <2>1, <2>4 DEF Done, Held, InQuarantine, QuarantineCopy
  <2> QED BY <2>1, <2>2, <2>3, <2>4
<1> QED BY <1>1, <1>2 DEF Held

\* What is new in the buffer is what is new in a file.
LEMMA AdmitsBySegment ==
    ASSUME \A r \in handled' : r \in handled \/ InBuffer(r),
           \A f \in quarantined' :
              f \in quarantined \/ \E c \in Seg : name[c] # "none" /\ f = QuarantineCopy(c),
           \A c \in Seg : name'[c] # "none" =>
              \A r \in RangeOf(content'[c]) : Held(r) \/ status[r] = "queued"
    PROVE  Admits
<1> SUFFICES ASSUME NEW r, Held(r)' PROVE Held(r) \/ status[r] = "queued"
  BY DEF Admits
<1>1. CASE r \in handled'
  BY <1>1 DEF Held, Done
<1>2. CASE InQuarantine(r)'
  <2>1. PICK f \in quarantined' : r \in f[2]
    BY <1>2 DEF InQuarantine
  <2>2. CASE f \in quarantined
    BY <2>1, <2>2 DEF Held, Done, InQuarantine
  <2>3. CASE \E c \in Seg : name[c] # "none" /\ f = QuarantineCopy(c)
    BY <2>1, <2>3 DEF Held, InBuffer, QuarantineCopy
  <2> QED BY <2>1, <2>2, <2>3
<1>3. CASE InBuffer(r)'
  <2>1. PICK c \in Seg : name'[c] # "none" /\ r \in RangeOf(content'[c])
    BY <1>3 DEF InBuffer
  <2> QED BY <2>1
<1> QED BY <1>1, <1>2, <1>3 DEF Held, Done

PromiseGoal == Carries /\ Admits /\ UndoneInv'

\* A segment the process does not see: it was not seen before, with the same
\* records, or its records are handled or in quarantine/.
LEMMA UndoneBySegment ==
    ASSUME UndoneInv, handled \subseteq handled', quarantined \subseteq quarantined',
           \A c \in Seg : name'[c] = "none" /\ nameD'[c] # "none" =>
              \/ name[c] = "none" /\ nameD[c] # "none" /\ content'[c] = content[c]
              \/ content'[c] = content[c] /\ RangeOf(content[c]) \subseteq handled'
              \/ content'[c] = content[c] /\ QuarantineCopy(c) \in quarantined'
    PROVE  UndoneInv'
<1> SUFFICES ASSUME NEW c \in Seg, name'[c] = "none", nameD'[c] # "none",
                    NEW r \in RangeOf(content'[c])
             PROVE  Done(r)'
  BY DEF UndoneInv
<1>1. CASE name[c] = "none" /\ nameD[c] # "none" /\ content'[c] = content[c]
  <2>1. Done(r)
    BY <1>1 DEF UndoneInv
  <2> QED BY <2>1 DEF Done, InQuarantine
<1>2. CASE content'[c] = content[c] /\ RangeOf(content[c]) \subseteq handled'
  BY <1>2 DEF Done
<1>3. CASE content'[c] = content[c] /\ QuarantineCopy(c) \in quarantined'
  BY <1>3 DEF Done, InQuarantine, QuarantineCopy
<1> QED BY <1>1, <1>2, <1>3

\* A step that leaves the files and the drain's results alone.
LEMMA SameFilesGoal ==
    ASSUME UndoneInv, UNCHANGED <<name, content, handled, quarantined>>,
           \A c \in Seg : nameD'[c] \in {name[c], nameD[c]}
    PROVE  PromiseGoal
<1>1. Carries
  BY CarriesBySegment
<1>2. Admits
  BY AdmitsBySegment DEF Held, InBuffer
<1>3. UndoneInv'
  BY UndoneBySegment
<1> QED BY <1>1, <1>2, <1>3 DEF PromiseGoal

(***************************************************************************)
(* The flusher.                                                            *)
(***************************************************************************)
\* Only an append puts a record into the shard, and its push is not answered.
LEMMA FlusherPromise ==
    ASSUME IInv, UndoneInv, UnansweredInv, FlusherStep(DrainGone), UNCHANGED drainVars
    PROVE  PromiseGoal
<1> USE DEF IInv, fileVars, writerVars
<1>0. handled' = handled
  BY DEF drainVars
<1>1. CASE \/ \E r \in Records : Push(r)
           \/ ScanCounter \/ ScanFails \/ Receive \/ RejectRecord \/ AppendFails
           \/ TimedSeal \/ InputClosed \/ HandOff(DrainGone)
           \/ NotHandedOff(DrainGone) \/ FlusherPanic
  <2>1. UNCHANGED dirVars
    BY <1>1 DEF Push, ScanCounter, ScanFails, Receive, RejectRecord, AppendFails, TimedSeal,
                InputClosed, HandOff, NotHandedOff, HandOffEnds, FlusherPanic
  <2> QED BY <1>0, <2>1, SameFilesGoal DEF dirVars
<1>2. CASE GroupCommit \/ GroupCommitFails \/ Finalize \/ SealFails \/ SyncRename
  <2>1. /\ UNCHANGED <<name, content, quarantined>>
        /\ nameD' = nameD \/ nameD' = name
    BY <1>2 DEF GroupCommit, GroupCommitFails, Finalize, SealFails, SyncRename, FsyncDir
  <2> QED BY <1>0, <2>1, SameFilesGoal
<1>3. CASE Rename
  <2>1. /\ UNCHANGED <<nameD, content, quarantined>>
        /\ name[sealing] = "wab" /\ name'[sealing] = "sealed"
        /\ \A c \in Seg \ {sealing} : name'[c] = name[c]
    BY <1>3 DEF Rename, RenameSealed, SealingInv, Sealing, TypeOK, DirTypeOK
  <2>2. Carries
    BY <1>0, <2>1, CarriesBySegment
  <2>3. Admits
    BY <1>0, <2>1, AdmitsBySegment DEF Held, InBuffer
  <2>4. UndoneInv'
    BY <1>0, <2>1, UndoneBySegment
  <2> QED BY <2>2, <2>3, <2>4 DEF PromiseGoal
<1>4. CASE OpenSegment \/ OpenFails
  <2> DEFINE c0 == nextCounter
  <2>1. c0 \in Seg /\ name[c0] = "none"
    BY <1>4 DEF OpenSegment, OpenFails, Writing, CounterIsFresh, TypeOK, FlusherTypeOK
  <2>2. /\ quarantined' = quarantined
        /\ \A c \in Seg \ {c0} : /\ name'[c] = name[c] /\ nameD'[c] \in {name[c], nameD[c]}
                                 /\ content'[c] = content[c]
        /\ \/ name'[c0] = "none" /\ content'[c0] = content[c0] /\ nameD'[c0] = nameD[c0]
           \/ name'[c0] = "wab" /\ content'[c0] = << >>
    BY <1>4, <2>1 DEF OpenSegment, CreateFile, FsyncDir, OpenFails, CreateFileFails, TypeOK, DirTypeOK
  <2>3. Carries
    BY <1>0, <2>1, <2>2, CarriesBySegment
  <2>4. RangeOf(<< >>) = {}
    BY DEF RangeOf
  <2>5. Admits
    BY <1>0, <2>1, <2>2, <2>4, AdmitsBySegment DEF Held, InBuffer
  <2>6. UndoneInv'
    BY <1>0, <2>1, <2>2, UndoneBySegment
  <2> QED BY <2>3, <2>5, <2>6 DEF PromiseGoal
<1>5. CASE AppendRecord
  <2> DEFINE r0 == Head(batch)
  <2>1. /\ active \in Seg /\ name[active] = "wab" /\ batch # << >> /\ batch \in Seq(Records)
        /\ content[active] \in Seq(Records) /\ r0 \in Records
        /\ UNCHANGED <<name, nameD, quarantined>>
        /\ content' = [content EXCEPT ![active] = Append(content[active], r0)]
    BY <1>5 DEF AppendRecord, Writing, ActiveInv, TypeOK, DirTypeOK, FlusherTypeOK
  <2>2. /\ content'[active] = Append(content[active], r0)
        /\ \A c \in Seg \ {active} : content'[c] = content[c]
    BY <2>1 DEF TypeOK, DirTypeOK
  <2>3. /\ DOMAIN content[active] = 1..Len(content[active])
        /\ DOMAIN content'[active] = 1..(Len(content[active]) + 1)
        /\ Len(content[active]) \in Nat
        /\ \A i \in 1..Len(content[active]) : content'[active][i] = content[active][i]
        /\ content'[active][Len(content[active]) + 1] = r0
    BY <2>1, <2>2
  <2>4. RangeOf(content'[active]) = RangeOf(content[active]) \cup {r0}
    <3>1. ASSUME NEW i \in DOMAIN content'[active]
          PROVE  content'[active][i] \in RangeOf(content[active]) \cup {r0}
      BY <2>3 DEF RangeOf
    <3>2. ASSUME NEW i \in DOMAIN content[active]
          PROVE  content[active][i] \in RangeOf(content'[active])
      BY <2>3 DEF RangeOf
    <3>3. r0 \in RangeOf(content'[active])
      BY <2>3 DEF RangeOf
    <3> QED BY <3>1, <3>2, <3>3 DEF RangeOf
  <2>5. status[r0] = "queued"
    BY <2>1 DEF UnansweredInv, RangeOf
  <2>6. Carries
    BY <1>0, <2>1, <2>2, <2>4, CarriesBySegment
  <2>7. Admits
    BY <1>0, <2>1, <2>2, <2>4, <2>5, AdmitsBySegment DEF Held, InBuffer
  <2>8. UndoneInv'
    BY <1>0, <2>1, <2>2, UndoneBySegment
  <2> QED BY <2>6, <2>7, <2>8 DEF PromiseGoal
<1> QED BY <1>1, <1>2, <1>3, <1>4, <1>5 DEF FlusherStep

(***************************************************************************)
(* The drain and the scans.                                                *)
(***************************************************************************)
\* What is handled or quarantined comes out of a segment of the directory.
FromBuffer ==
    /\ \A r \in handled' : r \in handled \/ InBuffer(r)
    /\ \A f \in quarantined' :
          f \in quarantined \/ \E c \in Seg : name[c] # "none" /\ f = QuarantineCopy(c)

\* A step that takes away only what is delivered or goes to quarantine/.
LEMMA DirTouchesPromise ==
    ASSUME UndoneInv, DirTouches, FromBuffer
    PROVE  PromiseGoal
<1> USE DEF DirTouches, fileVars
<1>1. Carries
  BY CarriesBySegment
<1>2. Admits
  <2>1. \A c \in Seg : name'[c] # "none" => name[c] # "none" /\ content'[c] = content[c]
    OBVIOUS
  <2>2. \A c \in Seg : name'[c] # "none" => \A r \in RangeOf(content'[c]) : Held(r)
    BY <2>1 DEF Held, InBuffer
  <2> QED BY <2>2, AdmitsBySegment DEF FromBuffer
<1>3. UndoneInv'
  <2>1. ASSUME NEW c \in Seg, name'[c] = "none", nameD'[c] # "none"
        PROVE  \/ name[c] = "none" /\ nameD[c] # "none" /\ content'[c] = content[c]
               \/ content'[c] = content[c] /\ RangeOf(content[c]) \subseteq handled'
               \/ content'[c] = content[c] /\ QuarantineCopy(c) \in quarantined'
    BY <2>1
  <2> QED BY <2>1, UndoneBySegment
<1> QED BY <1>1, <1>2, <1>3 DEF PromiseGoal

\* scan_unconfirmed_sealed quarantines only files of the directory.
LEMMA ScanFromBuffer ==
    ASSUME NEW S \in SUBSET Seg, NEW found, ScanSealed(S, found), handled' = handled
    PROVE  FromBuffer
<1>1. PICK orphans \in SUBSET Orphans(S), corrupt \in SUBSET Orphans(S) :
        DeleteOrphans(orphans, corrupt)
  BY DEF ScanSealed
<1>2. quarantined' = quarantined \cup {QuarantineCopy(c) : c \in corrupt}
  BY <1>1 DEF DeleteOrphans
<1>3. \A c \in corrupt : c \in Seg /\ name[c] # "none"
  BY DEF Orphans
<1> QED BY <1>2, <1>3 DEF FromBuffer

\* Every step of the drain keeps what the shard has, and brings nothing in.
LEMMA DrainPromise ==
    ASSUME IInv, UndoneInv, DrainStep
    PROVE  PromiseGoal
<1> USE DEF IInv
<1>1. DirTouches
  BY DrainQuietInv, DrainMoveInv DEF DrainStep, DrainGoal
<1>2. ASSUME NEW c \in Seg, name[c] = "sealed", NEW R, R \subseteq RangeOf(content[c]),
             handled' = handled \cup R,
             \A f \in quarantined' : f \in quarantined \/ f = QuarantineCopy(c)
      PROVE  FromBuffer
  BY <1>2 DEF FromBuffer, InBuffer
<1>3. CASE \/ TakeFromChannel \/ TakeFromQueue \/ SegmentGone \/ Park \/ WriteSidecar
           \/ SyncSidecar \/ SidecarFails \/ DeleteSegment \/ DeleteFails
           \/ RescanFails \/ ProbeDown
  <2>1. UNCHANGED <<handled, quarantined>>
    BY <1>3 DEF TakeFromChannel, TakeFromQueue, SegmentGone, Park, WriteSidecar, SyncSidecar,
                SidecarFails, DeleteSegment, DeleteFails, RescanFails, ProbeDown, dirVars
  <2>2. FromBuffer
    BY <2>1 DEF FromBuffer
  <2> QED BY <1>1, <2>2, DirTouchesPromise
<1>4. CASE DeliverAll \/ Strand \/ QuarantineSegment \/ QuarantineMoveFails
  <2>1. dseg \in Seg /\ name[dseg] = "sealed"
    BY <1>4 DEF DeliverAll, Strand, QuarantineSegment, QuarantineMoveFails, InHandInv
  <2>2. \A f \in quarantined' : f \in quarantined \/ f = QuarantineCopy(dseg)
    BY <1>4 DEF DeliverAll, Strand, QuarantineSegment, QuarantineMoveFails, MoveToQuarantine, dirVars
  <2>3. CASE DeliverAll
    <3>1. handled' = handled \cup RangeOf(content[dseg])
      BY <2>3 DEF DeliverAll
    <3> QED BY <1>1, <1>2, <2>1, <2>2, <3>1, DirTouchesPromise
  <2>4. CASE Strand \/ QuarantineSegment \/ QuarantineMoveFails
    <3>1. PICK k \in 0..Len(content[dseg]) : handled' = handled \cup FirstRecords(dseg, k)
      BY <2>4 DEF Strand, QuarantineSegment, QuarantineMoveFails
    <3>2. FirstRecords(dseg, k) \subseteq RangeOf(content[dseg])
      BY <2>1, FirstRecordsType DEF TypeOK
    <3> QED BY <1>1, <1>2, <2>1, <2>2, <3>1, <3>2, DirTouchesPromise
  <2> QED BY <1>4, <2>3, <2>4
<1>5. ASSUME NEW c \in Seg, RetryDisposition(c) PROVE PromiseGoal
  <2>1. handled' = handled /\ name[c] = "sealed"
    BY <1>5 DEF RetryDisposition, LedgerInv, TypeOK, DrainTypeOK
  <2>2. \A f \in quarantined' : f \in quarantined \/ f = QuarantineCopy(c)
    BY <1>5 DEF RetryDisposition, MoveToQuarantine, TypeOK, DrainTypeOK
  <2>3. FromBuffer
    BY <2>1, <2>2 DEF FromBuffer
  <2> QED BY <1>1, <2>3, DirTouchesPromise
<1>6. CASE Rescan \/ OperatorRescan
  <2>1. /\ handled' = handled
        /\ \E found \in SUBSET Seg : ScanSealed({c \in Seg : owned[c] = "none"}, found)
    BY <1>6 DEF Rescan, OperatorRescan, Requeue
  <2>2. FromBuffer
    BY <2>1, ScanFromBuffer
  <2> QED BY <1>1, <2>2, DirTouchesPromise
<1>7. ASSUME \E k \in 0..InReach : handled' = handled \cup FirstRecords(dseg, k)
      PROVE  \A r \in handled' : r \in handled \/ InBuffer(r)
  <2>1. PICK k \in 0..InReach : handled' = handled \cup FirstRecords(dseg, k)
    BY <1>7
  <2>2. CASE FirstRecords(dseg, k) = {}
    BY <2>1, <2>2
  <2>3. CASE /\ dseg \in Seg /\ name[dseg] = "sealed"
             /\ FirstRecords(dseg, k) \subseteq RangeOf(content[dseg])
    BY <2>1, <2>3 DEF InBuffer
  <2> QED BY <2>1, <2>2, <2>3, ReachType DEF TypeOK
<1>8. CASE DrainPanic
  <2>1. quarantined' = quarantined
    BY <1>8 DEF DrainPanic, dirVars
  <2>2. handled' = handled \/ \E k \in 0..InReach : handled' = handled \cup FirstRecords(dseg, k)
    BY <1>8 DEF DrainPanic
  <2>3. FromBuffer
    BY <1>7, <2>1, <2>2 DEF FromBuffer
  <2> QED BY <1>1, <2>3, DirTouchesPromise
<1>9. CASE DrainStops
  <2>1. \E k \in 0..InReach : handled' = handled \cup FirstRecords(dseg, k)
    BY <1>9 DEF DrainStops
  <2>2. PICK done \in SUBSET {c \in Seg : owned[c] \notin {"none", "Parked"}} :
          quarantined' = quarantined \cup
             {QuarantineCopy(c) : c \in {b \in done : owned[b] = "Quarantine"}}
    BY <1>9 DEF DrainStops
  <2>3. \A c \in done : c \in Seg /\ (owned[c] = "Quarantine" => name[c] # "none")
    BY DEF LedgerInv
  <2>4. FromBuffer
    BY <1>7, <2>1, <2>2, <2>3 DEF FromBuffer
  <2> QED BY <1>1, <2>4, DirTouchesPromise
<1> QED BY <1>3, <1>4, <1>5, <1>6, <1>8, <1>9 DEF DrainStep

(***************************************************************************)
(* Startup, shutdown and failure of the process.                           *)
(***************************************************************************)
\* Recovery cuts a tail off, under either name: all of the segment stays, or
\* all of it is in quarantine/.
LEMMA CutPromise ==
    ASSUME IInv, UndoneInv, NEW c \in Seg, name[c] = "wab", NEW k \in 0..Len(content[c]),
           content' = [content EXCEPT ![c] = SubSeq(content[c], 1, k)], handled' = handled,
           \/ quarantined' = quarantined /\ k = Len(content[c])
           \/ quarantined' = quarantined \cup {QuarantineCopy(c)},
           name'[c] # "none", \A b \in Seg \ {c} : name'[b] = name[b],
           nameD' = nameD \/ nameD' = name'
    PROVE  PromiseGoal
<1> USE DEF IInv
<1>1. content[c] \in Seq(Records) /\ Len(content[c]) \in Nat /\ DOMAIN content[c] = 1..Len(content[c])
  BY DEF TypeOK, DirTypeOK
<1>2. /\ content'[c] = SubSeq(content[c], 1, k)
      /\ \A b \in Seg \ {c} : content'[b] = content[b]
  BY DEF TypeOK, DirTypeOK
<1>3. /\ Len(content'[c]) = k /\ DOMAIN content'[c] = 1..k
      /\ \A i \in 1..k : content'[c][i] = content[c][i]
      /\ RangeOf(content'[c]) \subseteq RangeOf(content[c])
  BY <1>1, <1>2, PrefixFacts, SubSeqProperties
<1>4. k = Len(content[c]) => RangeOf(content[c]) \subseteq RangeOf(content'[c])
  BY <1>1, <1>3 DEF RangeOf
<1>5. Carries
  <2>1. ASSUME NEW b \in Seg, name[b] # "none"
        PROVE  \/ name'[b] # "none" /\ RangeOf(content[b]) \subseteq RangeOf(content'[b])
               \/ QuarantineCopy(b) \in quarantined'
    BY <1>2, <1>4, <2>1
  <2> QED BY <2>1, CarriesBySegment
<1>6. Admits
  <2>1. \A b \in Seg : name'[b] # "none" => \A r \in RangeOf(content'[b]) : Held(r)
    BY <1>2, <1>3 DEF Held, InBuffer
  <2>2. \A f \in quarantined' : f \in quarantined \/ f = QuarantineCopy(c)
    OBVIOUS
  <2> QED BY <2>1, <2>2, AdmitsBySegment
<1>7. UndoneInv'
  <2>1. \A b \in Seg : name'[b] = "none" /\ nameD'[b] # "none" =>
            name[b] = "none" /\ nameD[b] # "none" /\ content'[b] = content[b]
    BY <1>2
  <2> QED BY <2>1, UndoneBySegment
<1> QED BY <1>5, <1>6, <1>7 DEF PromiseGoal

\* Startup recovery, replay, shutdown and a crash of the process keep what
\* the shard has.
LEMMA ProcessPromise ==
    ASSUME IInv, UndoneInv, RecoverInv, RecoveryStep \/ ShutdownStep \/ Exit \/ Crash
    PROVE  PromiseGoal /\ RecoverInv'
<1> USE DEF IInv
<1>1. ASSUME UNCHANGED <<dirVars, handled>> PROVE PromiseGoal
  BY <1>1, SameFilesGoal DEF dirVars
<1>2. CASE Start
  <2>1. UNCHANGED <<dirVars, handled>> /\ torecover' = {c \in Seg : name[c] = "wab"}
    BY <1>2 DEF Start, drainVars
  <2>2. RecoverInv'
    BY <2>1 DEF RecoverInv, dirVars
  <2> QED BY <1>1, <2>1, <2>2
<1>3. ASSUME NEW c \in Seg, Recovering(c), RecoveryFrame(c)
      PROVE  /\ name[c] = "wab" /\ handled' = handled
             /\ (\A b \in Seg \ {c} : name'[b] = name[b]) => RecoverInv'
  <2>1. phase = "recovering" /\ c \in torecover /\ torecover' = torecover \ {c} /\ handled' = handled
    BY <1>3 DEF Recovering, RecoveryFrame, drainVars
  <2> QED BY <2>1 DEF RecoverInv, TypeOK
<1>4. ASSUME NEW c \in Seg, NEW k, SealPrefix(c, k) \/ Truncate(c, k), name[c] = "wab"
      PROVE  /\ content' = [content EXCEPT ![c] = SubSeq(content[c], 1, k)]
             /\ name'[c] # "none" /\ \A b \in Seg \ {c} : name'[b] = name[b]
  BY <1>4 DEF SealPrefix, Truncate, RenameSealed, TypeOK, DirTypeOK
<1>5. \A c \in Seg : Len(content[c]) \in 0..Len(content[c])
  BY DEF TypeOK, DirTypeOK
<1>6. ASSUME NEW c \in Seg, RecoverSegment(c) PROVE PromiseGoal /\ RecoverInv'
  <2>1. /\ SealPrefix(c, Len(content[c])) /\ quarantined' = quarantined /\ nameD' = name'
        /\ Recovering(c) /\ RecoveryFrame(c)
    BY <1>6 DEF RecoverSegment, FsyncDir
  <2> QED BY <1>3, <1>4, <1>5, <2>1, CutPromise
<1>7. ASSUME NEW c \in Seg, RecoverCorrupt(c) PROVE PromiseGoal /\ RecoverInv'
  <2>1. PICK k \in 0..Len(content[c]) : SealPrefix(c, k)
    BY <1>7 DEF RecoverCorrupt
  <2>2. /\ quarantined' = quarantined \cup {QuarantineCopy(c)} /\ nameD' = name'
        /\ Recovering(c) /\ RecoveryFrame(c)
    BY <1>7 DEF RecoverCorrupt, FsyncDir
  <2> QED BY <1>3, <1>4, <2>1, <2>2, CutPromise
<1>8. ASSUME NEW c \in Seg, RecoverNoHeader(c) PROVE PromiseGoal /\ RecoverInv'
  <2>1. /\ \A b \in Seg \ {c} : name'[b] = name[b]
        /\ name'[c] = "none" /\ quarantined' = quarantined \cup {QuarantineCopy(c)}
        /\ UNCHANGED <<nameD, content>> /\ Recovering(c) /\ RecoveryFrame(c)
    BY <1>8 DEF RecoverNoHeader, MoveToQuarantine, fileVars, TypeOK, DirTypeOK
  <2>2. name[c] = "wab" /\ handled' = handled /\ RecoverInv'
    BY <1>3, <2>1
  <2>3. Carries
    BY <2>1, <2>2, CarriesBySegment
  <2>4. Admits
    <3>1. \A b \in Seg : name'[b] # "none" => \A r \in RangeOf(content'[b]) : Held(r)
      BY <2>1 DEF Held, InBuffer
    <3>2. \A f \in quarantined' : f \in quarantined \/ f = QuarantineCopy(c)
      BY <2>1
    <3> QED BY <2>2, <3>1, <3>2, AdmitsBySegment
  <2>5. UndoneInv'
    BY <2>1, <2>2, UndoneBySegment
  <2> QED BY <2>2, <2>3, <2>4, <2>5 DEF PromiseGoal
<1>9. ASSUME NEW c \in Seg, RecoverFails(c) PROVE PromiseGoal /\ RecoverInv'
  <2>1. nameD' = nameD /\ Recovering(c) /\ RecoveryFrame(c)
    BY <1>9 DEF RecoverFails
  <2>2. CASE UNCHANGED <<name, fileVars, quarantined>>
    <3>1. PromiseGoal
      BY <1>3, <2>1, <2>2, SameFilesGoal DEF fileVars
    <3> QED BY <1>3, <2>1, <2>2, <3>1
  <2>3. CASE SealPrefix(c, Len(content[c])) /\ UNCHANGED <<hole, quarantined>>
    BY <1>3, <1>4, <1>5, <2>1, <2>3, CutPromise
  <2>4. CASE /\ quarantined' = quarantined \cup {QuarantineCopy(c)}
             /\ \E k \in 0..Len(content[c]) : Truncate(c, k)
    BY <1>3, <1>4, <2>1, <2>4, CutPromise
  <2> QED BY <1>9, <2>2, <2>3, <2>4 DEF RecoverFails
<1>10. CASE Replay
  <2>1. /\ \E found \in SUBSET Seg : ScanSealed(Seg, found)
        /\ UNCHANGED <<fileVars, handled>> /\ phase' = "running"
    BY <1>10 DEF Replay
  <2>2. DirTouches /\ FromBuffer
    BY <2>1, ScanTouches, ScanFromBuffer
  <2>3. RecoverInv'
    BY <2>1 DEF RecoverInv
  <2> QED BY <2>2, <2>3, DirTouchesPromise
<1>11. CASE ShutdownStep \/ Exit \/ Crash
  <2>1. UNCHANGED <<dirVars, handled>> /\ phase' # "recovering"
    BY <1>11 DEF ShutdownStep, Stop, CloseIngest, RequestStop, ForceStop, ShutdownFrame,
                 drainVars, Exit, Crash, LoseMemory
  <2>2. RecoverInv'
    BY <2>1 DEF RecoverInv
  <2> QED BY <1>1, <2>1, <2>2
<1> QED BY <1>2, <1>6, <1>7, <1>8, <1>9, <1>10, <1>11 DEF RecoveryStep

\* A power loss takes nothing that is handled or in quarantine/, and brings
\* nothing back that was not already there.
LEMMA PowerLossPromise ==
    ASSUME IInv, UndoneInv, PowerLoss
    PROVE  /\ UndoneInv' /\ RecoverInv'
           /\ \A r : Held(r)' => Held(r)
           /\ \A r : Done(r)' <=> Done(r)
<1> USE DEF IInv
<1>1. PICK lateNames \in SUBSET {c \in Seg : name[c] # nameD[c]},
           cut \in {f \in [Seg -> 0..SegmentMax] :
                        \A c \in Seg : f[c] \in synced[c]..Len(content[c])} :
        /\ name' = [c \in Seg |-> IF c \in lateNames THEN name[c] ELSE nameD[c]]
        /\ nameD' = name'
        /\ content' = [c \in Seg |-> SubSeq(content[c], 1, cut[c])]
        /\ quarantined' = quarantined
  BY Zenon DEF PowerLoss, LosePower
<1>2. handled' = handled /\ phase' = "down"
  BY DEF PowerLoss, LoseMemory
<1>3. UndoneInv' /\ RecoverInv'
  BY <1>1, <1>2 DEF UndoneInv, RecoverInv
<1>4. \A r : Done(r)' <=> Done(r)
  BY <1>1, <1>2 DEF Done, InQuarantine
<1>5. ASSUME NEW c \in Seg PROVE RangeOf(content'[c]) \subseteq RangeOf(content[c])
  <2>1. content[c] \in Seq(Records) /\ synced[c] \in Nat /\ Len(content[c]) \in Nat
    BY DEF TypeOK, DirTypeOK
  <2>2. cut[c] \in 0..Len(content[c])
    BY <1>1, <2>1
  <2>3. content'[c] = SubSeq(content[c], 1, cut[c])
    BY <1>1
  <2> QED BY <2>1, <2>2, <2>3, PrefixFacts
<1>6. ASSUME NEW r, InBuffer(r)' PROVE Held(r)
  <2>1. PICK c \in Seg : name'[c] # "none" /\ r \in RangeOf(content'[c])
    BY <1>6 DEF InBuffer
  <2>2. r \in RangeOf(content[c]) /\ (name[c] # "none" \/ nameD[c] # "none")
    BY <1>1, <1>5, <2>1
  <2> QED BY <2>2 DEF Held, InBuffer, UndoneInv
<1> QED BY <1>3, <1>4, <1>6 DEF Held

(***************************************************************************)
(* Who waits for an answer.                                                *)
(***************************************************************************)
\* Sending on the work channel.
LEMMA AppendDistinct ==
    ASSUME NEW s \in Seq(Records), Distinct(s), NEW r \in Records, r \notin RangeOf(s)
    PROVE  Distinct(Append(s, r)) /\ RangeOf(Append(s, r)) = RangeOf(s) \cup {r}
<1>1. /\ DOMAIN s = 1..Len(s) /\ Len(s) \in Nat
      /\ DOMAIN Append(s, r) = 1..(Len(s) + 1)
      /\ \A i \in 1..Len(s) : Append(s, r)[i] = s[i]
      /\ Append(s, r)[Len(s) + 1] = r
  OBVIOUS
<1>2. RangeOf(Append(s, r)) = RangeOf(s) \cup {r}
  BY <1>1 DEF RangeOf
<1>3. Distinct(Append(s, r))
  <2> SUFFICES ASSUME NEW i \in 1..(Len(s) + 1), NEW j \in 1..(Len(s) + 1),
                      Append(s, r)[i] = Append(s, r)[j]
               PROVE  i = j
    BY <1>1 DEF Distinct
  <2>1. CASE i \in 1..Len(s) /\ j \in 1..Len(s)
    BY <1>1, <2>1 DEF Distinct
  <2>2. CASE i = Len(s) + 1 \/ j = Len(s) + 1
    <3>1. \A n \in 1..Len(s) : s[n] # r
      BY <1>1 DEF RangeOf
    <3> QED BY <1>1, <2>2, <3>1
  <2> QED BY <1>1, <2>1, <2>2
<1> QED BY <1>2, <1>3

\* flush_batch is done with the head of its batch.
LEMMA TailDistinct ==
    ASSUME NEW s \in Seq(Records), s # << >>, Distinct(s)
    PROVE  /\ Distinct(Tail(s)) /\ Head(s) \in RangeOf(s)
           /\ RangeOf(Tail(s)) = RangeOf(s) \ {Head(s)}
<1>1. /\ DOMAIN s = 1..Len(s) /\ Len(s) \in Nat \ {0} /\ Head(s) = s[1]
      /\ DOMAIN Tail(s) = 1..(Len(s) - 1)
      /\ \A i \in 1..(Len(s) - 1) : Tail(s)[i] = s[i + 1]
  BY HeadTailProperties
<1>2. Distinct(Tail(s))
  <2> SUFFICES ASSUME NEW i \in 1..(Len(s) - 1), NEW j \in 1..(Len(s) - 1), Tail(s)[i] = Tail(s)[j]
               PROVE  i = j
    BY <1>1 DEF Distinct
  <2>1. i + 1 = j + 1
    BY <1>1 DEF Distinct
  <2> QED BY <1>1, <2>1
<1>3. Head(s) \in RangeOf(s)
  BY <1>1 DEF RangeOf
<1>4. ASSUME NEW r \in RangeOf(Tail(s)) PROVE r \in RangeOf(s) /\ r # Head(s)
  <2>1. PICK i \in 1..(Len(s) - 1) : r = s[i + 1]
    BY <1>1 DEF RangeOf
  <2> QED BY <1>1, <2>1 DEF RangeOf, Distinct
<1>5. ASSUME NEW r \in RangeOf(s), r # Head(s) PROVE r \in RangeOf(Tail(s))
  <2>1. PICK i \in 1..Len(s) : r = s[i]
    BY <1>1 DEF RangeOf
  <2>2. i - 1 \in 1..(Len(s) - 1) /\ Tail(s)[i - 1] = r
    BY <1>1, <1>5, <2>1
  <2> QED BY <1>1, <2>2 DEF RangeOf
<1> QED BY <1>2, <1>3, <1>4, <1>5

\* The flusher receives the first n records of the channel.
LEMMA SplitDistinct ==
    ASSUME NEW s \in Seq(Records), Distinct(s), NEW n \in 1..Len(s)
    PROVE  LET a == SubSeq(s, 1, n)
               b == SubSeq(s, n + 1, Len(s))
           IN  /\ Distinct(a) /\ Distinct(b)
               /\ RangeOf(a) \cap RangeOf(b) = {}
               /\ RangeOf(a) \cup RangeOf(b) \subseteq RangeOf(s)
<1> DEFINE a == SubSeq(s, 1, n)
           b == SubSeq(s, n + 1, Len(s))
<1>1. DOMAIN s = 1..Len(s) /\ Len(s) \in Nat /\ n \in Nat
  OBVIOUS
<1>2. DOMAIN a = 1..n /\ \A i \in 1..n : a[i] = s[i]
  BY <1>1, SubSeqProperties
<1>3. DOMAIN b = 1..(Len(s) - n) /\ \A i \in 1..(Len(s) - n) : b[i] = s[n + i]
  <2>1. n + 1 \in 1..(Len(s) + 1) /\ Len(s) \in n..Len(s)
    BY <1>1
  <2> QED BY <1>1, <2>1, SubSeqProperties
<1>4. Distinct(a)
  BY <1>1, <1>2 DEF Distinct
<1>5. Distinct(b)
  <2> SUFFICES ASSUME NEW i \in 1..(Len(s) - n), NEW j \in 1..(Len(s) - n), b[i] = b[j]
               PROVE  i = j
    BY <1>3 DEF Distinct
  <2>1. n + i = n + j
    BY <1>1, <1>3 DEF Distinct
  <2> QED BY <1>1, <2>1
<1>6. RangeOf(a) \cap RangeOf(b) = {}
  <2>1. \A r \in RangeOf(a) : \E i \in 1..n : r = s[i]
    BY <1>2 DEF RangeOf
  <2>2. \A r \in RangeOf(b) : \E j \in 1..(Len(s) - n) : r = s[n + j]
    BY <1>3 DEF RangeOf
  <2>3. \A i \in 1..n, j \in 1..(Len(s) - n) : s[i] # s[n + j]
    BY <1>1 DEF Distinct
  <2> HIDE DEF a, b
  <2> QED BY <2>1, <2>2, <2>3
<1>7. RangeOf(a) \cup RangeOf(b) \subseteq RangeOf(s)
  BY <1>1, <1>2, <1>3 DEF RangeOf
<1> QED BY <1>4, <1>5, <1>6, <1>7

\* The records that wait have a status.
LEMMA WaitingType ==
    ASSUME TypeOK
    PROVE  RangeOf(inbox) \cup RangeOf(batch) \cup pending \cup promoted \subseteq Records
BY DEF TypeOK, FlusherTypeOK, RangeOf

\* A write that failed: the records it answers no longer wait.
LEMMA NackUnanswered ==
    ASSUME TypeOK, UnansweredInv, batch # << >>, NEW why, NackFailedWrite(why),
           UNCHANGED <<inbox, promoted>>
    PROVE  UnansweredInv'
<1>1. batch \in Seq(Records) /\ batch' = Tail(batch) /\ Distinct(batch)
  BY DEF TypeOK, FlusherTypeOK, NackFailedWrite, UnansweredInv
<1>2. Distinct(batch') /\ RangeOf(batch') = RangeOf(batch) \ {Head(batch)} /\ Head(batch) \in RangeOf(batch)
  BY <1>1, TailDistinct
<1>3. /\ pending' \subseteq pending
      /\ \A r \in Records : r # Head(batch) /\ (r \notin pending \/ r \in pending') => status'[r] = status[r]
  BY DEF NackFailedWrite, Reply
<1> QED BY <1>2, <1>3, WaitingType DEF UnansweredInv

\* A step that answers nobody and moves nobody.
LEMMA SameUnanswered ==
    ASSUME UnansweredInv, UNCHANGED <<status, inbox, batch, pending, promoted>>
    PROVE  UnansweredInv'
BY DEF UnansweredInv

\* Every record that waits is in one place, whatever the flusher does.
LEMMA FlusherUnanswered ==
    ASSUME IInv, UnansweredInv, FlusherStep(DrainGone)
    PROVE  UnansweredInv'
<1> USE DEF IInv, writerVars
<1>0. /\ inbox \in Seq(Records) /\ batch \in Seq(Records)
      /\ RangeOf(inbox) \cup RangeOf(batch) \cup pending \cup promoted \subseteq Records
  BY WaitingType DEF TypeOK, FlusherTypeOK
<1>1. ASSUME NEW r \in Records, Push(r) PROVE UnansweredInv'
  <2>1. /\ r \notin RangeOf(inbox) \cup RangeOf(batch) \cup pending \cup promoted
        /\ UNCHANGED <<batch, pending, promoted>>
        /\ \A s \in Records : s # r => status'[s] = status[s]
    BY <1>0, <1>1 DEF Push, UnansweredInv, Reply
  <2>2. CASE inbox' = inbox
    BY <1>0, <2>1, <2>2 DEF UnansweredInv
  <2>3. CASE inbox' = Append(inbox, r) /\ status'[r] = "queued"
    <3>1. Distinct(inbox') /\ RangeOf(inbox') = RangeOf(inbox) \cup {r}
      BY <1>0, <2>1, <2>3, AppendDistinct DEF UnansweredInv
    <3> QED BY <1>0, <2>1, <2>3, <3>1 DEF UnansweredInv
  <2> QED BY <1>1, <2>2, <2>3 DEF Push, Reply
<1>2. CASE \/ ScanCounter \/ OpenSegment \/ TimedSeal \/ InputClosed \/ Finalize
           \/ Rename \/ SyncRename
  <2>1. UNCHANGED <<status, inbox, batch, pending, promoted>>
    BY <1>2 DEF ScanCounter, OpenSegment, TimedSeal, InputClosed, Finalize, Rename, SyncRename
  <2> QED BY <2>1, SameUnanswered
<1>3. CASE ScanFails
  <2>1. /\ inbox' = << >> /\ UNCHANGED <<batch, pending, promoted>>
        /\ \A r \in Records : r \notin RangeOf(inbox) => status'[r] = status[r]
    BY <1>3 DEF ScanFails, Reply
  <2>2. Distinct(inbox') /\ RangeOf(inbox') = {}
    BY <2>1 DEF Distinct, RangeOf
  <2> QED BY <1>0, <2>1, <2>2 DEF UnansweredInv
<1>4. CASE Receive
  <2>1. PICK n \in 1..Len(inbox) : /\ batch' = SubSeq(inbox, 1, n)
                                   /\ inbox' = SubSeq(inbox, n + 1, Len(inbox))
    BY <1>4 DEF Receive
  <2>2. /\ Distinct(batch') /\ Distinct(inbox') /\ RangeOf(batch') \cap RangeOf(inbox') = {}
        /\ RangeOf(batch') \cup RangeOf(inbox') \subseteq RangeOf(inbox)
    BY <1>0, <2>1, SplitDistinct DEF UnansweredInv
  <2>3. UNCHANGED <<status, pending, promoted>>
    BY <1>4 DEF Receive
  <2> QED BY <2>2, <2>3 DEF UnansweredInv
<1>5. CASE RejectRecord \/ OpenFails \/ AppendFails
  <2>1. /\ batch # << >> /\ UNCHANGED <<inbox, promoted>>
        /\ NackFailedWrite("RecordRejected") \/ NackFailedWrite("SegmentDropped")
    BY <1>5 DEF RejectRecord, OpenFails, AppendFails, Writing
  <2> QED BY <2>1, NackUnanswered
<1>6. CASE AppendRecord
  <2>1. CASE ShouldRotate(active)
    <3>1. UNCHANGED <<status, inbox, batch, pending, promoted>>
      BY <1>6, <2>1 DEF AppendRecord
    <3> QED BY <3>1, SameUnanswered
  <2>2. CASE ~ShouldRotate(active)
    <3>1. /\ batch # << >> /\ batch' = Tail(batch) /\ UNCHANGED <<inbox, promoted>>
          /\ \/ pending' = pending \cup {Head(batch)} /\ status' = status
             \/ /\ pending' = pending
                /\ \A r \in Records : r # Head(batch) => status'[r] = status[r]
      BY <1>6, <2>2 DEF AppendRecord, Writing, Reply
    <3>2. /\ Distinct(batch') /\ RangeOf(batch') = RangeOf(batch) \ {Head(batch)}
          /\ Head(batch) \in RangeOf(batch)
      BY <1>0, <3>1, TailDistinct DEF UnansweredInv
    <3> QED BY <1>0, <3>1, <3>2 DEF UnansweredInv
  <2> QED BY <2>1, <2>2
<1>7. CASE GroupCommit \/ GroupCommitFails
  <2>1. /\ pending' = {} /\ promoted' = {} /\ UNCHANGED <<inbox, batch>>
        /\ \A r \in Records : r \notin pending \cup promoted => status'[r] = status[r]
    BY <1>7 DEF GroupCommit, GroupCommitFails, Reply
  <2> QED BY <1>0, <2>1 DEF UnansweredInv
<1>8. CASE SealFails
  <2>1. UNCHANGED <<inbox, promoted>>
    BY <1>8 DEF SealFails
  <2>2. CASE cause = "rotation"
    <3>1. NackFailedWrite("SegmentDropped") /\ batch # << >>
      BY <1>8, <2>2 DEF SealFails, SealingInv, Sealing
    <3> QED BY <2>1, <3>1, NackUnanswered
  <2>3. CASE cause # "rotation"
    <3>1. UNCHANGED <<status, batch, pending>>
      BY <1>8, <2>3 DEF SealFails
    <3> QED BY <2>1, <3>1, SameUnanswered
  <2> QED BY <2>2, <2>3
<1>9. CASE HandOff(DrainGone) \/ NotHandedOff(DrainGone)
  <2>1. HandOffEnds /\ fpc = "handoff" /\ inbox' = inbox
    BY <1>9 DEF HandOff, NotHandedOff, HandOffEnds
  <2>2. CASE cause = "rotation"
    <3>1. /\ batch # << >> /\ batch' = Tail(batch) /\ pending' = {}
          /\ promoted' = promoted \cup pending \cup ({Head(batch)} \cap DurableTier)
          /\ \A r \in Records : r \notin {Head(batch)} \ DurableTier => status'[r] = status[r]
      BY <2>1, <2>2 DEF HandOffEnds, PromoteAcks, Reply, SealingInv, Sealing
    <3>2. /\ Distinct(batch') /\ RangeOf(batch') = RangeOf(batch) \ {Head(batch)}
          /\ Head(batch) \in RangeOf(batch)
      BY <1>0, <3>1, TailDistinct DEF UnansweredInv
    <3> QED BY <1>0, <2>1, <3>1, <3>2 DEF UnansweredInv
  <2>3. CASE cause # "rotation"
    <3>1. UNCHANGED <<status, batch, pending, promoted>>
      BY <2>1, <2>3 DEF HandOffEnds
    <3> QED BY <2>1, <3>1, SameUnanswered
  <2> QED BY <2>2, <2>3
<1>10. CASE FlusherPanic
  <2>1. /\ batch' = << >> /\ pending' = {} /\ promoted' = {}
        /\ \/ inbox' = << >>
           \/ /\ inbox' = inbox
              /\ \A r \in Records : r \notin RangeOf(batch) \cup pending \cup promoted =>
                    status'[r] = status[r]
    BY <1>10 DEF FlusherPanic, FreshWriter, Reply
  <2>2. RangeOf(<< >>) = {} /\ Distinct(<< >>)
    BY DEF RangeOf, Distinct
  <2> QED BY <1>0, <2>1, <2>2 DEF UnansweredInv
<1> QED BY <1>1, <1>2, <1>3, <1>4, <1>5, <1>6, <1>7, <1>8, <1>9, <1>10 DEF FlusherStep

\* The other threads answer nobody; without memory nobody waits.
LEMMA OthersUnanswered ==
    ASSUME UnansweredInv,
           DrainStep \/ RecoveryStep \/ ShutdownStep \/ Exit \/ Crash \/ PowerLoss
    PROVE  UnansweredInv'
<1> USE DEF writerVars, flusherVars
<1>1. CASE Exit \/ Crash \/ PowerLoss
  <2>1. inbox' = << >> /\ batch' = << >> /\ pending' = {} /\ promoted' = {}
    BY <1>1 DEF Exit, Crash, PowerLoss, LoseMemory, FreshWriter
  <2>2. RangeOf(<< >>) = {} /\ Distinct(<< >>)
    BY DEF RangeOf, Distinct
  <2> QED BY <2>1, <2>2 DEF UnansweredInv
<1>2. CASE DrainStep
  <2>1. UNCHANGED <<status, inbox, batch, pending, promoted>>
    BY <1>2 DEF DrainStep, TakeFromChannel, TakeFromQueue, SegmentGone, DeliverAll, Strand, Park,
           QuarantineSegment, QuarantineMoveFails, WriteSidecar, SyncSidecar, SidecarFails,
           DeleteSegment, DeleteFails, RetryDisposition, Rescan, OperatorRescan, Requeue,
           RescanFails, ProbeDown, DrainPanic, DrainStops
  <2> QED BY <2>1, SameUnanswered
<1>3. CASE RecoveryStep \/ ShutdownStep
  <2>1. UNCHANGED <<status, inbox, batch, pending, promoted>>
    BY <1>3 DEF RecoveryStep, Start, RecoverSegment, RecoverCorrupt, RecoverNoHeader, RecoverFails,
           RecoveryFrame, Replay, ShutdownStep, Stop, CloseIngest, RequestStop, ForceStop,
           ShutdownFrame
  <2> QED BY <2>1, SameUnanswered
<1> QED BY <1>1, <1>2, <1>3

(***************************************************************************)
(* The answers.                                                            *)
(***************************************************************************)
\* What is safe is held.
LEMMA SafeIsHeld ==
    ASSUME TypeOK, SyncedPrefix, NEW r, Safe(r)
    PROVE  Held(r)
<1>1. CASE OnStableStorage(r)
  <2>1. PICK c \in Seg : name[c] # "none" /\ r \in SyncedRecords(c)
    BY <1>1 DEF OnStableStorage
  <2>2. content[c] \in Seq(Records) /\ synced[c] \in Nat /\ synced[c] <= Len(content[c])
    BY DEF TypeOK, DirTypeOK, SyncedPrefix
  <2>3. r \in RangeOf(content[c])
    BY <2>1, <2>2 DEF SyncedRecords, RangeOf
  <2> QED BY <2>1, <2>3 DEF Held, InBuffer
<1> QED BY <1>1 DEF Safe, Held, Done

\* A producer is answered once, and acked only a record the shard has.
Answers ==
    \A r \in Records :
        /\ Promised!Answered(r)
        /\ status'[r] = "acked" => status[r] = "acked" \/ Held(r)'

\* Whatever flush_batch, the seal, the counter scan or a panic answers.
LEMMA FlusherAnswers ==
    ASSUME IInv, UnansweredInv, Carries, FlusherStep(DrainGone)
    PROVE  Answers
<1> USE DEF IInv, writerVars, Promised!Answered
<1>0. /\ RangeOf(inbox) \cup RangeOf(batch) \cup pending \cup promoted \subseteq Records
      /\ \A r \in RangeOf(inbox) \cup RangeOf(batch) \cup pending \cup promoted : status[r] = "queued"
  BY WaitingType DEF UnansweredInv
<1>1. batch # << >> => Head(batch) \in RangeOf(batch)
  BY TailDistinct DEF UnansweredInv, TypeOK, FlusherTypeOK
<1>2. \A r \in promoted : Held(r)'
  BY SafeIsHeld DEF WaitingInv, Carries
<1>3. ASSUME UNCHANGED status PROVE Answers
  BY <1>3 DEF Answers
<1>4. ASSUME NEW rs, rs \subseteq RangeOf(inbox) \cup RangeOf(batch) \cup pending \cup promoted,
             status' = Reply(rs, "nacked")
      PROVE  Answers
  BY <1>0, <1>4 DEF Answers, Reply
<1>5. ASSUME NEW rs, rs \subseteq RangeOf(inbox) \cup RangeOf(batch) \cup pending \cup promoted,
             status' = Reply(rs, "acked"), \A r \in rs : Held(r)'
      PROVE  Answers
  BY <1>0, <1>5 DEF Answers, Reply
<1>6. ASSUME NEW r \in Records, Push(r) PROVE Answers
  BY <1>6 DEF Push, Reply, Answers
<1>7. CASE \/ ScanCounter \/ Receive \/ OpenSegment \/ TimedSeal \/ InputClosed \/ Finalize
           \/ Rename \/ SyncRename
  <2>1. UNCHANGED status
    BY <1>7 DEF ScanCounter, Receive, OpenSegment, TimedSeal, InputClosed, Finalize, Rename, SyncRename
  <2> QED BY <1>3, <2>1
<1>8. CASE ScanFails
  BY <1>4, <1>8 DEF ScanFails
<1>9. ASSUME batch # << >>, NEW why, NackFailedWrite(why) PROVE Answers
  BY <1>1, <1>4, <1>9 DEF NackFailedWrite
<1>10. CASE RejectRecord \/ OpenFails \/ AppendFails
  BY <1>9, <1>10 DEF RejectRecord, OpenFails, AppendFails, Writing
<1>11. CASE AppendRecord
  <2>0. PICK r0 \in Records : r0 = Head(batch) /\ batch # << >>
    BY <1>11 DEF AppendRecord, Writing, TypeOK, FlusherTypeOK
  <2>1. /\ active \in Seg /\ name[active] = "wab"
        /\ content[active] \in Seq(Records) /\ name' = name
        /\ content' = [content EXCEPT ![active] = Append(content[active], r0)]
    BY <1>11, <2>0 DEF AppendRecord, Writing, ActiveInv, TypeOK, DirTypeOK, FlusherTypeOK
  <2>2. PICK a \in Seg : a = active
    BY <2>1
  <2>3. content'[a] = Append(content[a], r0)
    BY <2>1, <2>2 DEF TypeOK, DirTypeOK
  <2>4. r0 \in RangeOf(content'[a])
    <3>1. /\ DOMAIN content'[a] = 1..(Len(content[a]) + 1) /\ Len(content[a]) \in Nat
          /\ content'[a][Len(content[a]) + 1] = r0
      BY <2>1, <2>2, <2>3
    <3> QED BY <3>1 DEF RangeOf
  <2>5. Held(r0)'
    <3>1. name'[a] # "none"
      BY <2>1, <2>2
    <3>2. InBuffer(r0)'
      BY <2>4, <3>1 DEF InBuffer
    <3> QED BY <3>2 DEF Held
  <2>6. status' = status \/ status' = Reply({r0}, "acked")
    BY <1>11, <2>0 DEF AppendRecord
  <2>7. {r0} \subseteq RangeOf(batch)
    BY <1>1, <2>0
  <2>8. CASE status' = Reply({r0}, "acked")
    <3>1. \A r \in {r0} : Held(r)'
      BY <2>5
    <3> QED BY <1>5, <2>7, <2>8, <3>1
  <2> QED BY <1>3, <2>6, <2>8
<1>12. CASE GroupCommit
  <2>1. fpc = "write" /\ status' = Reply(pending \cup promoted, "acked")
    BY <1>12 DEF GroupCommit
  <2>2. ASSUME NEW r \in pending PROVE Held(r)'
    <3>1. active \in Seg /\ name[active] = "wab" /\ r \in RangeOf(content[active])
      BY <2>1 DEF WaitingInv, ActiveInv, TypeOK, FlusherTypeOK
    <3> QED BY <3>1 DEF Carries, Held, InBuffer
  <2> QED BY <1>2, <1>5, <2>1, <2>2
<1>13. CASE GroupCommitFails
  BY <1>0, <1>2, <1>13 DEF GroupCommitFails, Answers
<1>14. CASE SealFails
  <2>1. CASE cause = "rotation"
    <3>1. NackFailedWrite("SegmentDropped") /\ batch # << >>
      BY <1>14, <2>1 DEF SealFails, SealingInv, Sealing
    <3> QED BY <1>9, <3>1
  <2>2. CASE cause # "rotation"
    BY <1>3, <1>14, <2>2 DEF SealFails
  <2> QED BY <2>1, <2>2
<1>15. CASE HandOff(DrainGone) \/ NotHandedOff(DrainGone)
  <2>1. HandOffEnds /\ fpc = "handoff"
    BY <1>15 DEF HandOff, NotHandedOff
  <2>2. CASE cause = "rotation"
    <3>1. batch # << >> /\ status' = Reply({Head(batch)} \ DurableTier, "acked")
      BY <2>1, <2>2 DEF HandOffEnds, PromoteAcks, SealingInv, Sealing
    <3>2. Held(Head(batch))
      BY <2>1, <2>2, SafeIsHeld DEF WaitingInv
    <3>3. \A r \in {Head(batch)} \ DurableTier : Held(r)'
      BY <3>2 DEF Carries
    <3> QED BY <1>1, <1>5, <3>1, <3>3
  <2>3. CASE cause # "rotation"
    BY <1>3, <2>1, <2>3 DEF HandOffEnds
  <2> QED BY <2>2, <2>3
<1>16. CASE FlusherPanic
  BY <1>4, <1>16 DEF FlusherPanic
<1> QED BY <1>6, <1>7, <1>8, <1>10, <1>11, <1>12, <1>13, <1>14, <1>15, <1>16 DEF FlusherStep

\* The other threads answer nobody; a process that goes leaves the unanswered
\* in doubt.
LEMMA OthersAnswer ==
    ASSUME TypeOK, DrainStep \/ RecoveryStep \/ ShutdownStep \/ Exit \/ Crash
    PROVE  Answers
<1> USE DEF writerVars, flusherVars, Promised!Answered
<1>1. CASE Exit \/ Crash
  BY <1>1 DEF Exit, Crash, LoseMemory, Answers
<1>2. CASE DrainStep
  <2>1. UNCHANGED status
    BY <1>2 DEF DrainStep, TakeFromChannel, TakeFromQueue, SegmentGone, DeliverAll, Strand, Park,
           QuarantineSegment, QuarantineMoveFails, WriteSidecar, SyncSidecar, SidecarFails,
           DeleteSegment, DeleteFails, RetryDisposition, Rescan, OperatorRescan, Requeue,
           RescanFails, ProbeDown, DrainPanic, DrainStops
  <2> QED BY <2>1 DEF Answers
<1>3. CASE RecoveryStep \/ ShutdownStep
  <2>1. UNCHANGED status
    BY <1>3 DEF RecoveryStep, Start, RecoverSegment, RecoverCorrupt, RecoverNoHeader, RecoverFails,
           RecoveryFrame, Replay, ShutdownStep, Stop, CloseIngest, RequestStop, ForceStop,
           ShutdownFrame
  <2> QED BY <2>1 DEF Answers
<1> QED BY <1>1, <1>2, <1>3

(***************************************************************************)
(* The theorems.                                                           *)
(***************************************************************************)
\* What a step of the shard other than a power loss does.
KeepsPromise == Carries /\ Admits /\ Answers

\* Every step preserves the invariant of the promise.
LEMMA NextPromise ==
    ASSUME PromiseInv, Next
    PROVE  /\ PromiseInv'
           /\ (KeepsPromise /\ powerLost' = powerLost) \/ PowerLoss
<1> USE DEF PromiseInv
<1>1. IInv' /\ KeepsAll
  BY NextInv
<1>2. ASSUME KeepsPromise, powerLost' = powerLost PROVE AckSurvivesCrash'
  <2> SUFFICES ASSUME ~powerLost', NEW r \in Records, status'[r] = "acked" PROVE Held(r)'
    BY DEF AckSurvivesCrash, Held, Done
  <2>1. status[r] = "acked" \/ Held(r)'
    BY <1>2 DEF KeepsPromise, Answers
  <2>2. CASE status[r] = "acked"
    <3>1. Held(r)
      BY <1>2, <2>2 DEF AckSurvivesCrash, Held, Done
    <3> QED BY <1>2, <3>1 DEF KeepsPromise, Carries
  <2> QED BY <2>1, <2>2
<1>3. CASE FlusherStep(DrainGone) /\ UNCHANGED <<drainVars, processVars>>
  <2>1. PromiseGoal /\ UnansweredInv'
    BY <1>3, FlusherPromise, FlusherUnanswered
  <2>2. Answers
    BY <1>3, <2>1, FlusherAnswers DEF PromiseGoal
  <2>3. RecoverInv'
    <3>1. phase' = phase /\ (phase = "running" \/ phase = "lameduck" \/ fpc # "off")
      BY <1>3 DEF FlusherStep, Push, ScanCounter, ScanFails, Receive, RejectRecord, OpenSegment,
             OpenFails, AppendRecord, AppendFails, GroupCommit, GroupCommitFails, TimedSeal,
             InputClosed, Finalize, Rename, SyncRename, SealFails, HandOff, NotHandedOff,
             HandOffEnds, FlusherPanic, Writing
    <3>2. phase' # "recovering"
      BY <3>1 DEF IInv, DownIsEmpty
    <3> QED BY <3>2 DEF RecoverInv
  <2>4. powerLost' = powerLost
    BY <1>3 DEF processVars
  <2> QED BY <1>1, <1>2, <2>1, <2>2, <2>3, <2>4 DEF PromiseGoal, KeepsPromise
<1>4. CASE DrainStep /\ UNCHANGED processVars
  <2>1. PromiseGoal /\ UnansweredInv' /\ Answers
    BY <1>4, DrainPromise, OthersUnanswered, OthersAnswer DEF IInv
  <2>2. RecoverInv'
    <3>1. DrainFrame /\ dpc # "off"
      <4>1. DrainFrame
        BY <1>4, DrainQuietInv, DrainMoveInv DEF DrainStep, DrainGoal
      <4>2. dpc # "off"
        BY <1>4 DEF DrainStep, TakeFromChannel, TakeFromQueue, SegmentGone, DeliverAll, Strand,
             Park, QuarantineSegment, QuarantineMoveFails, WriteSidecar, SyncSidecar, SidecarFails,
             DeleteSegment, DeleteFails, RetryDisposition, Rescan, OperatorRescan, Requeue,
             RescanFails, ProbeDown, DrainPanic, DrainStops
      <4> QED BY <4>1, <4>2
    <3>2. phase' # "recovering"
      BY <3>1 DEF IInv, DownIsEmpty, DrainFrame
    <3> QED BY <3>2 DEF RecoverInv
  <2>3. powerLost' = powerLost
    BY <1>4 DEF processVars
  <2> QED BY <1>1, <1>2, <2>1, <2>2, <2>3 DEF PromiseGoal, KeepsPromise
<1>5. CASE RecoveryStep \/ ShutdownStep \/ Exit \/ Crash
  <2>1. PromiseGoal /\ RecoverInv' /\ UnansweredInv' /\ Answers
    BY <1>5, ProcessPromise, OthersUnanswered, OthersAnswer DEF IInv
  <2>2. powerLost' = powerLost
    BY <1>5 DEF RecoveryStep, Start, RecoverSegment, RecoverCorrupt, RecoverNoHeader, RecoverFails,
           RecoveryFrame, Replay, ShutdownStep, Stop, CloseIngest, RequestStop, ForceStop,
           ShutdownFrame, Exit, Crash, processVars
  <2> QED BY <1>1, <1>2, <2>1, <2>2 DEF PromiseGoal, KeepsPromise
<1>6. CASE PowerLoss
  <2>1. UndoneInv' /\ RecoverInv' /\ UnansweredInv'
    BY <1>6, PowerLossPromise, OthersUnanswered
  <2>2. AckSurvivesCrash'
    BY <1>6 DEF PowerLoss, AckSurvivesCrash
  <2> QED BY <1>1, <1>6, <2>1, <2>2
<1> QED BY <1>3, <1>4, <1>5, <1>6 DEF Next

\* It holds initially.
LEMMA InitPromise == Init => PromiseInv
<1> SUFFICES ASSUME Init PROVE PromiseInv
  OBVIOUS
<1>1. IInv
  BY InitInv
<1>2. RecoverInv /\ UndoneInv /\ AckSurvivesCrash
  BY DEF Init, DirInit, FlusherInit, RecoverInv, UndoneInv, AckSurvivesCrash
<1>3. UnansweredInv
  BY DEF Init, FlusherInit, UnansweredInv, Distinct, RangeOf
<1> QED BY <1>1, <1>2, <1>3 DEF PromiseInv

\* A stuttering step changes nothing of it.
LEMMA StutterPromise == PromiseInv /\ UNCHANGED vars => PromiseInv'
<1> SUFFICES ASSUME PromiseInv, UNCHANGED vars PROVE PromiseInv'
  OBVIOUS
<1> USE DEF vars, dirVars, flusherVars, writerVars, drainVars, processVars
<1>1. IInv'
  BY StutterInv DEF PromiseInv
<1>2. RecoverInv' /\ UndoneInv' /\ AckSurvivesCrash'
  BY DEF PromiseInv, RecoverInv, UndoneInv, Done, InQuarantine, AckSurvivesCrash, InBuffer
<1>3. UnansweredInv'
  BY DEF PromiseInv, UnansweredInv
<1> QED BY <1>1, <1>2, <1>3 DEF PromiseInv

\* The invariant of the promise: one waiting place for every unanswered
\* record, and nothing that a power loss could bring back unhandled.
THEOREM PromiseInvariance == Spec => []PromiseInv
<1>1. Init => PromiseInv
  BY InitPromise
<1>2. PromiseInv /\ [Next]_vars => PromiseInv'
  BY NextPromise, StutterPromise
<1> QED BY <1>1, <1>2, PTL DEF Spec

\* Whatever flush_batch acks, at either tier, no panic, crash, recovery or
\* restart of the process takes away.
THEOREM AcksSurviveCrashes == Spec => []AckSurvivesCrash
<1>1. PromiseInv => AckSurvivesCrash
  BY DEF PromiseInv
<1> QED BY <1>1, PromiseInvariance, PTL

(***************************************************************************)
(* The refinement.                                                         *)
(***************************************************************************)
\* How safe a record is, in the words of the invariant.
PlaceFacts ==
    \A r : /\ placeOf(r) \in {"nowhere", "volatile", "stable", "done"}
           /\ placeOf(r) = "done" <=> Done(r)
           /\ placeOf(r) \in {"stable", "done"} <=> Safe(r)
           /\ placeOf(r) # "nowhere" <=> Held(r)

\* placeOf agrees with Done, Safe and Held.
LEMMA PlaceRank == IInv => PlaceFacts
BY SafeIsHeld DEF IInv, PlaceFacts, placeOf, Done, Safe, Held

\* The same after a step.
LEMMA PlaceRankNext == IInv' => PlaceFacts'
BY PlaceRank, PTL

\* The empty directory of a daemon that never ran is the empty promise.
LEMMA InitRefines == Init => Promised!Init
<1> SUFFICES ASSUME Init PROVE Promised!Init
  OBVIOUS
<1>1. ASSUME NEW r \in Records PROVE placeOf(r) = "nowhere"
  <2>1. \A c \in Seg : name[c] = "none"
    BY DEF Init, DirInit
  <2>2. handled = {} /\ quarantined = {}
    BY DEF Init, DirInit, DrainInit
  <2> QED BY <2>1, <2>2 DEF placeOf, InQuarantine, OnStableStorage, InBuffer
<1>2. [r \in Records |-> placeOf(r)] = [r \in Records |-> "nowhere"]
  BY <1>1
<1> QED BY <1>2 DEF Promised!Init, Init, FlusherInit

\* Every step of the shard is a step of the promise.
LEMMA NextRefines ==
    ASSUME PromiseInv, Next
    PROVE  Promised!Next
<1> USE DEF PromiseInv
<1>0. PromiseInv' /\ KeepsAll
  BY NextPromise, NextInv
<1>1. /\ status' \in [Records -> Promised!Answers]
      /\ [r \in Records |-> placeOf(r)]' \in [Records -> Promised!Places]
  <2>1. \A r \in Records : placeOf(r)' \in {"nowhere", "volatile", "stable", "done"}
    BY <1>0, PlaceRankNext DEF PlaceFacts
  <2>2. status' \in [Records -> {"new", "queued", "acked", "nacked", "unknown"}]
    BY <1>0 DEF IInv, TypeOK, FlusherTypeOK
  <2> QED BY <2>1, <2>2 DEF Promised!Answers, Promised!Places
<1>2. ASSUME NEW r \in Records
      PROVE  /\ placeOf(r) \in {"nowhere", "volatile", "stable", "done"}
             /\ placeOf(r)' \in {"nowhere", "volatile", "stable", "done"}
             /\ placeOf(r) = "done" <=> Done(r)
             /\ placeOf(r) \in {"stable", "done"} <=> Safe(r)
             /\ placeOf(r) # "nowhere" <=> Held(r)
             /\ placeOf(r)' = "done" <=> Done(r)'
             /\ placeOf(r)' \in {"stable", "done"} <=> Safe(r)'
             /\ placeOf(r)' # "nowhere" <=> Held(r)'
  BY <1>0, PlaceRank, PlaceRankNext DEF PlaceFacts
<1>3. ASSUME NEW r \in Records
      PROVE  (Done(r) => Done(r)') /\ (Safe(r) => Safe(r)')
  <2>1. Done(r) => Done(r)'
    BY <1>0 DEF KeepsAll, Done, InQuarantine
  <2>2. Safe(r) => Safe(r)'
    BY <1>0, KeepsSafe DEF IInv
  <2> QED BY <2>1, <2>2
<1>4. CASE KeepsPromise
  <2>1. ASSUME NEW r \in Records
        PROVE  /\ Promised!Answered(r) /\ Promised!AckedFrom(r) /\ Promised!Enters(r)
               /\ Promised!Rank(placeOf(r)') >= Promised!Rank(placeOf(r))
    <3>1. Promised!Answered(r)
      BY <1>4 DEF KeepsPromise, Answers
    <3>2. Held(r) => Held(r)'
      BY <1>4 DEF KeepsPromise, Carries
    <3>3. Promised!Rank(placeOf(r)') >= Promised!Rank(placeOf(r))
      BY <1>2, <1>3, <3>2 DEF Promised!Rank
    <3>4. Promised!Enters(r)
      BY <1>2, <1>4 DEF KeepsPromise, Admits, Promised!Enters
    <3>5. Promised!AckedFrom(r)
      <4> SUFFICES ASSUME status[r] # "acked", status'[r] = "acked"
                   PROVE  Promised!Rank(placeOf(r)') >= Promised!Rank(Promised!Promise(r))
        BY DEF Promised!AckedFrom
      <4>1. CASE r \in DurableTier
        <5>1. Safe(r)'
          BY <1>0, <4>1 DEF IInv, DurableAckSafe, Safe
        <5> QED BY <1>2, <4>1, <5>1 DEF Promised!Rank, Promised!Promise
      <4>2. CASE r \notin DurableTier
        <5>1. Held(r)'
          BY <1>4 DEF KeepsPromise, Answers
        <5> QED BY <1>2, <4>2, <5>1 DEF Promised!Rank, Promised!Promise
      <4> QED BY <4>1, <4>2
    <3> QED BY <3>1, <3>3, <3>4, <3>5
  <2>2. Promised!Step
    BY <1>1, <2>1 DEF Promised!Step
  <2> QED BY <2>2 DEF Promised!Next
<1>5. CASE PowerLoss
  <2>1. ASSUME NEW r \in Records
        PROVE  /\ status'[r] = IF status[r] = "queued" THEN "unknown" ELSE status[r]
               /\ placeOf(r) # "volatile" => placeOf(r)' = placeOf(r)
               /\ placeOf(r)' # "done" \/ placeOf(r) = "done"
    <3>1. status'[r] = IF status[r] = "queued" THEN "unknown" ELSE status[r]
      BY <1>5 DEF PowerLoss, LoseMemory
    <3>2. (Held(r)' => Held(r)) /\ (Done(r)' <=> Done(r))
      BY <1>5, PowerLossPromise
    <3> QED BY <1>2, <1>3, <3>1, <3>2
  <2>2. Promised!PowerLoss
    BY <1>1, <2>1 DEF Promised!PowerLoss
  <2> QED BY <2>2 DEF Promised!Next
<1> QED BY <1>4, <1>5, NextPromise

\* The shard -- flusher, drain, ledger, scans, recovery, crashes and power
\* losses -- implements what the buffer promises: an answer is given once,
\* an ack only from a place that keeps it, and a place only gets safer,
\* except a volatile one in a power loss.
THEOREM KeepsItsPromise == Spec => ImplementsDurableBuffer
<1>1. Init => Promised!Init
  BY InitRefines
<1>2. PromiseInv /\ [Next]_vars => [Promised!Next]_<<status, [r \in Records |-> placeOf(r)]>>
  <2>1. CASE UNCHANGED vars
    <3>1. ASSUME NEW r PROVE placeOf(r)' = placeOf(r)
      BY <2>1 DEF vars, dirVars, drainVars, placeOf, InQuarantine, OnStableStorage, SyncedRecords, InBuffer
    <3> QED BY <2>1, <3>1 DEF vars, flusherVars
  <2> QED BY <2>1, NextRefines
<1> QED BY <1>1, <1>2, PromiseInvariance, PTL DEF Spec, ImplementsDurableBuffer, Promised!Spec

(***************************************************************************)
(* A delete comes after a durable sidecar.                                 *)
(***************************************************************************)
\* What every step of the flusher leaves to the drain.
LEMMA FlusherLeaves ==
    ASSUME IInv, FlusherStep(DrainGone), UNCHANGED <<drainVars, processVars>>
    PROVE  /\ FlusherTouches /\ quarantined' = quarantined
           /\ sideD \subseteq sideD' /\ sideD' \subseteq side
           /\ \A c \in Seg : name[c] # "none" => name'[c] # "none"
           /\ \A c \in Seg : name[c] # "none" /\ nameD[c] # "none" => nameD'[c] # "none"
<1> USE DEF fileVars, writerVars
<1>0. TypeOK' /\ sideD \subseteq side
  BY FlusherStepInv DEF IInv, SidecarInv
<1>1. CASE \/ \E r \in Records : Push(r)
           \/ ScanCounter \/ ScanFails \/ Receive \/ RejectRecord \/ AppendFails
           \/ TimedSeal \/ InputClosed \/ HandOff(DrainGone)
           \/ NotHandedOff(DrainGone) \/ FlusherPanic
  <2>1. UNCHANGED dirVars
    BY <1>1 DEF Push, ScanCounter, ScanFails, Receive, RejectRecord, AppendFails, TimedSeal,
                InputClosed, HandOff, NotHandedOff, HandOffEnds, FlusherPanic
  <2> QED BY <1>0, <2>1 DEF FlusherTouches, dirVars
<1>2. CASE \/ OpenSegment \/ OpenFails \/ AppendRecord \/ GroupCommit \/ GroupCommitFails
           \/ Finalize \/ Rename \/ SyncRename \/ SealFails
  <2>1. FlusherGoal
    BY <1>0, <1>2, OpenInv, AppendInv, GroupCommitInv, SealInv
  <2>2. quarantined' = quarantined /\ side' = side /\ sideD' \in {sideD, side}
    BY <1>2, <2>1 DEF FlusherGoal, FlusherTouches, OpenSegment, OpenFails, AppendRecord, GroupCommit,
           GroupCommitFails, Finalize, Rename, SyncRename, SealFails
  <2>3. /\ \A c \in Seg : name'[c] \in {name[c], "wab", "sealed"}
        /\ nameD' = nameD \/ nameD' = name'
    BY <1>2 DEF OpenSegment, CreateFile, FsyncDir, OpenFails, CreateFileFails, AppendRecord,
           GroupCommit, GroupCommitFails, Finalize, Rename, RenameSealed, SyncRename, SealFails,
           IInv, TypeOK, DirTypeOK
  <2> QED BY <1>0, <2>1, <2>2, <2>3 DEF FlusherGoal
<1> QED BY <1>1, <1>2 DEF FlusherStep

\* The flusher has no part in a delete.
LEMMA FlusherDelete ==
    ASSUME IInv, DeleteInv, FlusherStep(DrainGone), UNCHANGED <<drainVars, processVars>>
    PROVE  DeleteInv'
BY FlusherLeaves DEF FlusherTouches, drainVars, DeleteInv

\* Each step of the drain: the sidecar, its directory fsync, the delete, and
\* the ledger's retries keep their order.
LEMMA DrainDelete ==
    ASSUME IInv, DeleteInv, DrainStep
    PROVE  DeleteInv'
<1> USE DEF IInv, DeleteInv, dirVars, flusherVars, panicVars
<1>0. sideD \subseteq side /\ owned \in [Seg -> {"none", "Sidecar", "Delete", "Quarantine", "Parked"}]
  BY DEF SidecarInv, TypeOK, DrainTypeOK
<1>1. CASE \/ TakeFromChannel \/ TakeFromQueue \/ SegmentGone \/ DeliverAll \/ Strand
           \/ RescanFails \/ ProbeDown
  BY <1>1 DEF TakeFromChannel, TakeFromQueue, Admit, SegmentGone, DeliverAll, Strand,
              NextSegment, RescanFails, ProbeDown
<1>2. CASE Park \/ QuarantineMoveFails \/ SidecarFails
  BY <1>0, <1>2 DEF Park, QuarantineMoveFails, SidecarFails, NextSegment
<1>3. CASE DeleteFails
  BY <1>0, <1>3 DEF DeleteFails, NextSegment
<1>4. CASE QuarantineSegment
  BY <1>4 DEF QuarantineSegment, NextSegment
<1>5. CASE WriteSidecar
  BY <1>0, <1>5 DEF WriteSidecar, NextSegment
<1>6. CASE SyncSidecar
  BY <1>0, <1>6 DEF SyncSidecar, FsyncDir
<1>7. CASE DeleteSegment
  BY <1>0, <1>7 DEF DeleteSegment, NextSegment
<1>8. ASSUME NEW c \in Seg, RetryDisposition(c) PROVE DeleteInv'
  BY <1>0, <1>8 DEF RetryDisposition
<1>9. CASE Rescan \/ OperatorRescan
  <2>1. /\ dpc \in {"idle", "deliver"} /\ UNCHANGED <<dpc, dseg, owned>>
        /\ \E found \in SUBSET Seg : ScanSealed({c \in Seg : owned[c] = "none"}, found)
    BY <1>9 DEF Rescan, OperatorRescan, Requeue
  <2>2. PICK corrupt \in SUBSET {c \in Seg : owned[c] = "none"} :
          sideD' = sideD \ corrupt \/ sideD' = side \ corrupt
    BY <2>1 DEF ScanSealed, DeleteOrphans, Orphans
  <2> QED BY <1>0, <2>1, <2>2
<1>10. CASE DrainPanic
  BY <1>0, <1>10 DEF DrainPanic
<1>11. CASE DrainStops
  <2>1. PICK done : owned' = [c \in Seg |-> IF c \in done THEN "none" ELSE owned[c]]
    BY <1>11 DEF DrainStops
  <2>2. sideD \subseteq sideD' /\ dpc' = "exited"
    BY <1>0, <1>11 DEF DrainStops
  <2> QED BY <2>1, <2>2
<1> QED BY <1>1, <1>2, <1>3, <1>4, <1>5, <1>6, <1>7, <1>8, <1>9, <1>10, <1>11 DEF DrainStep

\* Recovery, shutdown and failure: without a drain there is no delete.
LEMMA ProcessDelete ==
    ASSUME IInv, DeleteInv, RecoveryStep \/ ShutdownStep \/ Exit \/ Crash \/ PowerLoss
    PROVE  DeleteInv'
<1> USE DEF IInv, DeleteInv
<1>1. CASE Exit \/ Crash \/ PowerLoss
  <2>1. dpc' = "off" /\ \A c \in Seg : owned'[c] = "none"
    BY <1>1 DEF Exit, Crash, PowerLoss, LoseMemory
  <2> QED BY <2>1
<1>2. CASE ShutdownStep
  BY <1>2 DEF ShutdownStep, Stop, CloseIngest, RequestStop, ForceStop, ShutdownFrame, dirVars, drainVars
<1>3. CASE RecoveryStep
  <2>1. owned' = owned /\ dpc' \in {dpc, "idle"} /\ phase \in {"down", "recovering"}
    BY <1>3 DEF RecoveryStep, Start, RecoverSegment, RecoverCorrupt, RecoverNoHeader, RecoverFails,
           Recovering, RecoveryFrame, Replay, drainVars
  <2>2. dpc = "off" /\ \A c \in Seg : owned[c] = "none"
    BY <2>1 DEF DownIsEmpty
  <2> QED BY <2>1, <2>2
<1> QED BY <1>1, <1>2, <1>3

(***************************************************************************)
(* Addresses.                                                              *)
(***************************************************************************)
\* A counter that is taken stays taken.
StaysTaken == quarantined \subseteq quarantined' /\ \A c \in Seg : Taken(c) => Taken(c)'

\* A step that writes no record keeps every address.
LEMMA AddressKept ==
    ASSUME TypeOK, AddressInv, StaysTaken, coord' = coord,
           active' = 0 \/ (active' = active /\ (active \in Seg => content'[active] = content[active]))
    PROVE  AddressInv'
<1>1. \A c : Spent(c) => Spent(c)'
  BY DEF StaysTaken, Spent
<1>2. ASSUME NEW c \in Seg, active' = c PROVE active = c /\ content'[c] = content[c]
  BY <1>2 DEF Seg
<1> QED BY <1>1, <1>2 DEF AddressInv, StaysTaken

\* write_record gives the record the next place of the active segment.
LEMMA AppendAddress ==
    ASSUME IInv, AddressInv, AppendRecord
    PROVE  AddressInv'
<1> USE DEF IInv
<1>1. PICK r0 \in Records, a \in Seg : r0 = Head(batch) /\ a = active /\ a # 0
  BY DEF AppendRecord, Writing, TypeOK, FlusherTypeOK
<1>2. /\ coord' = [coord EXCEPT ![r0] = <<a, Len(content[a]) + 1>>]
      /\ content' = [content EXCEPT ![a] = Append(content[a], r0)]
      /\ UNCHANGED <<name, nameD, sideD, quarantined>>
      /\ active' \in {0, a}
  BY <1>1 DEF AppendRecord
<1>3. /\ coord'[r0] = <<a, Len(content[a]) + 1>>
      /\ \A r \in Records \ {r0} : coord'[r] = coord[r]
      /\ content[a] \in Seq(Records) /\ content'[a] = Append(content[a], r0)
  BY <1>2 DEF TypeOK, DirTypeOK, FlusherTypeOK
<1>4. Len(content'[a]) = Len(content[a]) + 1 /\ Len(content[a]) \in Nat
  BY <1>3
<1>5. name[a] # "none" /\ nameD[a] # "none"
  BY <1>1 DEF ActiveInv
<1>6. \A c : (Spent(c)' <=> Spent(c)) /\ (Taken(c)' <=> Taken(c))
  BY <1>2 DEF Spent, Taken
<1>7. \A r \in Records : coord'[r] # None => coord'[r][1] \in Seg
  BY <1>3 DEF AddressInv
<1>8. ASSUME NEW r \in Records, NEW c \in Seg, coord'[r][1] = c PROVE Taken(c)'
  <2>1. CASE r = r0
    BY <1>3, <1>5, <1>6, <1>8, <2>1 DEF Taken
  <2>2. CASE r # r0
    BY <1>3, <1>6, <1>8, <2>2 DEF AddressInv
  <2> QED BY <2>1, <2>2
<1>9. ASSUME NEW r \in Records, NEW c \in Seg, active' = c, coord'[r][1] = c
      PROVE  Spent(c)' \/ coord'[r][2] <= Len(content'[c])
  <2>1. c = a
    BY <1>2, <1>9 DEF Seg
  <2>2. CASE r = r0
    BY <1>3, <1>4, <2>1, <2>2
  <2>3. CASE r # r0
    <3>1. Spent(c) \/ coord[r][2] <= Len(content[c])
      BY <1>1, <1>3, <1>9, <2>1, <2>3 DEF AddressInv
    <3>2. coord[r][2] \in Nat
      BY DEF TypeOK, FlusherTypeOK
    <3> QED BY <1>3, <1>4, <1>6, <2>1, <2>3, <3>1, <3>2
  <2> QED BY <2>2, <2>3
<1>10. ASSUME NEW r \in Records, NEW s \in Records, NEW c \in Seg, r # s,
              coord'[r] = coord'[s], coord'[r][1] = c
       PROVE  Spent(c)'
  <2>1. ASSUME NEW t \in Records \ {r0}, coord'[t] = coord'[r0] PROVE Spent(a)
    <3>1. coord[t][1] = a /\ coord[t][2] = Len(content[a]) + 1
      BY <1>3, <2>1
    <3>2. Spent(a) \/ coord[t][2] <= Len(content[a])
      BY <1>1, <3>1 DEF AddressInv
    <3> QED BY <1>4, <3>1, <3>2
  <2>2. CASE r = r0 \/ s = r0
    <3>1. Spent(a) /\ c = a
      BY <1>3, <1>10, <2>1, <2>2
    <3> QED BY <1>6, <3>1
  <2>3. CASE r # r0 /\ s # r0
    BY <1>3, <1>6, <1>10, <2>3 DEF AddressInv
  <2> QED BY <2>2, <2>3
<1> QED BY <1>7, <1>8, <1>9, <1>10 DEF AddressInv

\* ensure_open takes a counter that no address can carry, but one of
\* quarantine/.
LEMMA OpenAddress ==
    ASSUME IInv, AddressInv, OpenSegment, StaysTaken
    PROVE  AddressInv'
<1> USE DEF IInv
<1>1. PICK c0 \in Seg : c0 = nextCounter
  BY DEF OpenSegment
<1>2. coord' = coord /\ active' = c0
  BY <1>1 DEF OpenSegment
<1>3. name[c0] = "none" /\ c0 \notin sideD
  BY <1>1 DEF OpenSegment, Writing, CounterIsFresh, TypeOK, FlusherTypeOK
<1>4. \A c : Spent(c) => Spent(c)'
  BY DEF StaysTaken, Spent
<1>5. ASSUME NEW r \in Records, coord[r][1] = c0 PROVE Spent(c0)
  BY <1>3, <1>5 DEF AddressInv, Taken
<1> QED BY <1>2, <1>4, <1>5 DEF AddressInv, StaysTaken

\* Every step of the flusher keeps the addresses.
LEMMA FlusherAddress ==
    ASSUME IInv, AddressInv, FlusherStep(DrainGone), UNCHANGED <<drainVars, processVars>>
    PROVE  AddressInv'
<1> USE DEF IInv, writerVars, dirVars, fileVars
<1>1. StaysTaken
  <2>1. /\ quarantined' = quarantined /\ sideD \subseteq sideD'
        /\ \A c \in Seg : name[c] # "none" => name'[c] # "none"
        /\ \A c \in Seg : name[c] # "none" /\ nameD[c] # "none" => nameD'[c] # "none"
    BY FlusherLeaves
  <2> QED BY <2>1 DEF StaysTaken, Taken, Spent
<1>2. CASE OpenSegment
  BY <1>1, <1>2, OpenAddress
<1>3. CASE AppendRecord
  BY <1>3, AppendAddress
<1>4. CASE OpenFails
  <2>1. coord' = coord /\ active' = 0
    BY <1>4 DEF OpenFails
  <2> QED BY <1>1, <2>1, AddressKept
<1>5. CASE \/ \E r \in Records : Push(r)
           \/ ScanCounter \/ ScanFails \/ Receive \/ RejectRecord \/ AppendFails
           \/ GroupCommit \/ GroupCommitFails \/ TimedSeal \/ InputClosed \/ Finalize \/ Rename
           \/ SyncRename \/ SealFails \/ HandOff(DrainGone) \/ NotHandedOff(DrainGone)
           \/ FlusherPanic
  <2>1. UNCHANGED <<coord, content>> /\ active' \in {0, active}
    BY <1>5 DEF Push, ScanCounter, ScanFails, Receive, RejectRecord, AppendFails, GroupCommit,
           GroupCommitFails, TimedSeal, InputClosed, Finalize, Rename, SyncRename, SealFails,
           HandOff, NotHandedOff, HandOffEnds, FlusherPanic, FreshWriter
  <2> QED BY <1>1, <2>1, AddressKept
<1> QED BY <1>2, <1>3, <1>4, <1>5 DEF FlusherStep

\* A scan deletes behind durable sidecars and quarantines the rest.
LEMMA ScanTaken ==
    ASSUME sideD \subseteq side, NEW S \in SUBSET Seg, NEW found, ScanSealed(S, found)
    PROVE  StaysTaken
<1>1. PICK orphans \in SUBSET Orphans(S), corrupt \in SUBSET Orphans(S) :
        DeleteOrphans(orphans, corrupt)
  BY DEF ScanSealed
<1>2. quarantined \subseteq quarantined' /\ \A c \in corrupt : QuarantineCopy(c) \in quarantined'
  BY <1>1 DEF DeleteOrphans
<1>3. \A c \in corrupt : Spent(c)'
  BY <1>2 DEF Spent, QuarantineCopy
<1>4. \A c \in Seg : /\ c \in sideD => c \in sideD' \/ c \in corrupt
                     /\ c \in orphans => c \in sideD' \/ c \in corrupt
  BY <1>1 DEF DeleteOrphans, Orphans
<1>5. \A c \in Seg : /\ c \notin orphans \cup corrupt => name'[c] = name[c]
                     /\ name[c] # "none" /\ nameD[c] # "none" => nameD'[c] # "none"
  BY <1>1 DEF DeleteOrphans
<1>6. \A c : Spent(c) => Spent(c)'
  BY <1>2 DEF Spent
<1> QED BY <1>2, <1>3, <1>4, <1>5, <1>6 DEF StaysTaken, Taken

\* The drain takes a counter's file away only behind a durable sidecar or
\* into quarantine/.
LEMMA DrainTaken ==
    ASSUME IInv, DeleteInv, DrainStep
    PROVE  StaysTaken
<1> USE DEF IInv, dirVars, fileVars, panicVars
<1>0. DirTouches /\ sideD \subseteq side
  BY DrainQuietInv, DrainMoveInv DEF DrainStep, DrainGoal, SidecarInv
<1>1. ASSUME \A c \in Seg : c \in sideD => c \in sideD' \/ Spent(c)',
             \A c \in Seg : name[c] # "none" /\ name'[c] = "none" => c \in sideD' \/ Spent(c)'
      PROVE  StaysTaken
  BY <1>0, <1>1 DEF DirTouches, StaysTaken, Taken, Spent
<1>2. \A c : QuarantineCopy(c) \in quarantined' => Spent(c)'
  BY DEF QuarantineCopy, Spent
<1>3. CASE \/ TakeFromChannel \/ TakeFromQueue \/ SegmentGone \/ DeliverAll
           \/ Strand \/ Park \/ QuarantineMoveFails \/ SidecarFails \/ DeleteFails
           \/ RescanFails \/ ProbeDown \/ DrainPanic
  <2>1. UNCHANGED <<name, sideD>>
    BY <1>3 DEF TakeFromChannel, TakeFromQueue, SegmentGone, DeliverAll, Strand, Park,
         QuarantineMoveFails, SidecarFails, DeleteFails, RescanFails, ProbeDown, DrainPanic
  <2> QED BY <1>1, <2>1
<1>4. ASSUME NEW c \in Seg, MoveToQuarantine(c), sideD' = sideD PROVE StaysTaken
  <2>1. QuarantineCopy(c) \in quarantined' /\ \A b \in Seg \ {c} : name'[b] = name[b]
    BY <1>4 DEF MoveToQuarantine, TypeOK, DirTypeOK
  <2> QED BY <1>1, <1>2, <1>4, <2>1
<1>5. CASE QuarantineSegment
  BY <1>4, <1>5 DEF QuarantineSegment, InHandInv
<1>6. CASE WriteSidecar
  BY <1>1, <1>6 DEF WriteSidecar
<1>7. CASE SyncSidecar
  BY <1>0, <1>1, <1>7 DEF SyncSidecar, FsyncDir
<1>8. CASE DeleteSegment
  <2>1. /\ dseg \in sideD /\ sideD' = sideD
        /\ name' = [name EXCEPT ![dseg] = "none"]
    BY <1>8 DEF DeleteSegment, DeleteInv
  <2>2. \A c \in Seg : name'[c] # name[c] => c \in sideD'
    BY <2>1 DEF TypeOK, DirTypeOK
  <2> QED BY <1>1, <2>1, <2>2
<1>9. ASSUME NEW c \in Seg, RetryDisposition(c) PROVE StaysTaken
  <2>1. owned[c] \in {"Sidecar", "Delete", "Quarantine"} /\ sideD' = sideD
    BY <1>9 DEF RetryDisposition, TypeOK, DrainTypeOK
  <2>2. CASE owned[c] \in {"Sidecar", "Delete"}
    <3>1. name' = name
      BY <1>9, <2>2 DEF RetryDisposition
    <3> QED BY <1>1, <2>1, <3>1
  <2>3. CASE owned[c] = "Quarantine"
    <3>1. MoveToQuarantine(c)
      BY <1>9, <2>3 DEF RetryDisposition
    <3> QED BY <1>4, <2>1, <3>1
  <2> QED BY <2>1, <2>2, <2>3
<1>10. CASE Rescan \/ OperatorRescan
  <2>1. \E found \in SUBSET Seg : ScanSealed({c \in Seg : owned[c] = "none"}, found)
    BY <1>10 DEF Rescan, OperatorRescan, Requeue
  <2> QED BY <1>0, <2>1, ScanTaken
<1>11. CASE DrainStops
  <2>1. PICK done \in SUBSET {c \in Seg : owned[c] \notin {"none", "Parked"}},
             half \in SUBSET {c \in Seg : owned[c] = "Sidecar" /\ name[c] # "none"} :
          LET confirms == half \cup {c \in done : owned[c] = "Sidecar" /\ name[c] # "none"}
          IN  /\ side' = side \cup confirms
              /\ IF confirms # {} THEN sideD' = side' /\ nameD' = name
                                  ELSE UNCHANGED <<sideD, nameD>>
              /\ name' = [c \in Seg |-> IF c \in done THEN "none" ELSE name[c]]
              /\ quarantined' = quarantined \cup
                   {QuarantineCopy(c) : c \in {b \in done : owned[b] = "Quarantine"}}
    BY <1>11 DEF DrainStops
  <2>2. sideD \subseteq sideD'
    BY <1>0, <2>1
  <2>3. ASSUME NEW c \in Seg, name[c] # "none", name'[c] = "none" PROVE c \in sideD' \/ Spent(c)'
    <3>1. c \in done /\ owned[c] \in {"Sidecar", "Delete", "Quarantine"}
      BY <2>1, <2>3 DEF TypeOK, DrainTypeOK
    <3>2. CASE owned[c] = "Sidecar"
      BY <2>1, <2>3, <3>1, <3>2
    <3>3. CASE owned[c] = "Delete"
      BY <2>2, <3>3 DEF DeleteInv
    <3>4. CASE owned[c] = "Quarantine"
      BY <1>2, <2>1, <3>1, <3>4
    <3> QED BY <3>1, <3>2, <3>3, <3>4
  <2> QED BY <1>1, <2>2, <2>3
<1> QED BY <1>3, <1>5, <1>6, <1>7, <1>8, <1>9, <1>10, <1>11 DEF DrainStep

\* The drain writes no record.
LEMMA DrainAddress ==
    ASSUME IInv, DeleteInv, AddressInv, DrainStep
    PROVE  AddressInv'
<1>1. StaysTaken
  BY DrainTaken
<1>2. DirTouches /\ DrainFrame
  BY DrainQuietInv, DrainMoveInv DEF DrainStep, DrainGoal
<1>3. coord' = coord
  BY DEF DrainStep, TakeFromChannel, TakeFromQueue, SegmentGone, DeliverAll, Strand, Park,
         QuarantineSegment, QuarantineMoveFails, WriteSidecar, SyncSidecar, SidecarFails,
         DeleteSegment, DeleteFails, RetryDisposition, Rescan, OperatorRescan, Requeue,
         RescanFails, ProbeDown, DrainPanic, DrainStops, flusherVars
<1>4. active' = active /\ content' = content
  BY <1>2 DEF DirTouches, DrainFrame, fileVars, writerVars
<1> QED BY <1>1, <1>3, <1>4, AddressKept DEF IInv

\* Startup, shutdown, crash and power loss: the synced part of the directory
\* is enough to keep the counters taken.
LEMMA ProcessAddress ==
    ASSUME IInv, AddressInv, RecoveryStep \/ ShutdownStep \/ Exit \/ Crash \/ PowerLoss
    PROVE  AddressInv'
<1> USE DEF IInv
<1>0. TypeOK /\ sideD \subseteq side
  BY DEF SidecarInv
<1>1. coord' = coord
  BY DEF RecoveryStep, Start, RecoverSegment, RecoverCorrupt, RecoverNoHeader, RecoverFails,
         RecoveryFrame, Replay, ShutdownStep, Stop, CloseIngest, RequestStop, ForceStop,
         ShutdownFrame, Exit, Crash, PowerLoss, LoseMemory, flusherVars
<1>2. ASSUME NEW c \in Seg, Recovering(c), RecoveryFrame(c) PROVE active' = 0
  <2>1. phase = "recovering" /\ active' = active
    BY <1>2 DEF Recovering, RecoveryFrame, flusherVars, writerVars
  <2> QED BY <2>1 DEF DownIsEmpty, ActiveInv
<1>3. CASE Start \/ ShutdownStep
  <2>1. UNCHANGED <<name, nameD, sideD, quarantined, content, active>>
    BY <1>3 DEF Start, ShutdownStep, Stop, CloseIngest, RequestStop, ForceStop, ShutdownFrame,
                dirVars, writerVars
  <2>2. StaysTaken
    BY <2>1 DEF StaysTaken, Taken, Spent
  <2> QED BY <1>0, <1>1, <2>1, <2>2, AddressKept
<1>4. ASSUME NEW c \in Seg, RecoverSegment(c) \/ RecoverCorrupt(c) \/ RecoverFails(c)
      PROVE  AddressInv'
  <2>1. /\ \A b \in Seg : name[b] # "none" => name'[b] # "none"
        /\ nameD' = nameD \/ nameD' = name'
        /\ quarantined \subseteq quarantined' /\ sideD' \in {side, sideD}
    <3>1. name' = name \/ name' = [name EXCEPT ![c] = "sealed"]
      BY <1>4 DEF RecoverSegment, RecoverCorrupt, RecoverFails, SealPrefix, Truncate, RenameSealed
    <3>2. /\ nameD' = nameD \/ nameD' = name'
          /\ quarantined \subseteq quarantined' /\ sideD' \in {side, sideD}
      BY <1>4 DEF RecoverSegment, RecoverCorrupt, RecoverFails, FsyncDir
    <3> QED BY <1>0, <3>1, <3>2 DEF TypeOK, DirTypeOK
  <2>2. StaysTaken
    BY <1>0, <2>1 DEF StaysTaken, Taken, Spent
  <2>3. active' = 0
    BY <1>2, <1>4 DEF RecoverSegment, RecoverCorrupt, RecoverFails
  <2> QED BY <1>0, <1>1, <2>2, <2>3, AddressKept
<1>5. ASSUME NEW c \in Seg, RecoverNoHeader(c) PROVE AddressInv'
  <2>1. /\ \A b \in Seg \ {c} : name'[b] = name[b]
        /\ quarantined' = quarantined \cup {QuarantineCopy(c)}
        /\ UNCHANGED <<nameD, sideD>>
    BY <1>0, <1>5 DEF RecoverNoHeader, MoveToQuarantine, TypeOK, DirTypeOK
  <2>2. Spent(c)'
    <3>1. QuarantineCopy(c) \in quarantined'
      BY <2>1
    <3> QED BY <3>1 DEF Spent, QuarantineCopy
  <2>3. StaysTaken
    BY <2>1, <2>2 DEF StaysTaken, Taken, Spent
  <2>4. active' = 0
    BY <1>2, <1>5 DEF RecoverNoHeader
  <2> QED BY <1>0, <1>1, <2>3, <2>4, AddressKept
<1>6. CASE Replay
  <2>1. \E found \in SUBSET Seg : ScanSealed(Seg, found)
    BY <1>6 DEF Replay
  <2>2. StaysTaken
    BY <1>0, <2>1, ScanTaken
  <2>3. UNCHANGED <<active, content>>
    BY <1>6 DEF Replay, fileVars, writerVars
  <2> QED BY <1>0, <1>1, <2>2, <2>3, AddressKept
<1>7. CASE Exit \/ Crash \/ PowerLoss
  <2>1. active' = 0
    BY <1>7 DEF Exit, Crash, PowerLoss, LoseMemory, FreshWriter
  <2>2. CASE Exit \/ Crash
    <3>1. UNCHANGED <<name, nameD, sideD, quarantined>>
      BY <2>2 DEF Exit, Crash, dirVars
    <3>2. StaysTaken
      BY <3>1 DEF StaysTaken, Taken, Spent
    <3> QED BY <1>0, <1>1, <2>1, <3>2, AddressKept
  <2>3. CASE PowerLoss
    <3>1. /\ \A c \in Seg : name[c] # "none" /\ nameD[c] # "none" => name'[c] # "none"
          /\ nameD' = name' /\ quarantined' = quarantined /\ side \cap sideD \subseteq sideD'
      BY <2>3 DEF PowerLoss, LosePower
    <3>2. StaysTaken
      BY <1>0, <3>1 DEF StaysTaken, Taken, Spent
    <3> QED BY <1>0, <1>1, <2>1, <3>2, AddressKept
  <2> QED BY <1>7, <2>2, <2>3
<1> QED BY <1>3, <1>4, <1>5, <1>6, <1>7 DEF RecoveryStep

\* Everything a record's address rests on.
SegmentAddressInv == IInv /\ DeleteInv /\ AddressInv

\* No record of a fresh directory has an address.
LEMMA InitAddress == Init => SegmentAddressInv
<1> SUFFICES ASSUME Init PROVE SegmentAddressInv
  OBVIOUS
<1>1. IInv
  BY InitInv
<1>2. DeleteInv
  BY DEF Init, DrainInit, DeleteInv
<1>3. \A r \in Records : coord[r] = None /\ coord[r][1] = 0
  BY DEF Init, FlusherInit, None
<1>4. AddressInv
  BY <1>3 DEF AddressInv, Seg
<1> QED BY <1>1, <1>2, <1>4 DEF SegmentAddressInv

\* ... and every step keeps what is known of the addresses.
LEMMA NextAddress == SegmentAddressInv /\ [Next]_vars => SegmentAddressInv'
<1> SUFFICES ASSUME SegmentAddressInv, [Next]_vars PROVE SegmentAddressInv'
  OBVIOUS
<1> USE DEF SegmentAddressInv
<1>1. IInv'
  BY NextInv, StutterInv
<1>2. CASE FlusherStep(DrainGone) /\ UNCHANGED <<drainVars, processVars>>
  BY <1>1, <1>2, FlusherDelete, FlusherAddress
<1>3. CASE DrainStep
  BY <1>1, <1>3, DrainDelete, DrainAddress
<1>4. CASE RecoveryStep \/ ShutdownStep \/ Exit \/ Crash \/ PowerLoss
  BY <1>1, <1>4, ProcessDelete, ProcessAddress
<1>5. CASE UNCHANGED vars
  <2>1. DeleteInv'
    BY <1>5 DEF DeleteInv, vars, dirVars, drainVars
  <2>2. StaysTaken /\ coord' = coord /\ active' = active /\ content' = content
    BY <1>5 DEF StaysTaken, Taken, Spent, vars, dirVars, flusherVars, writerVars
  <2>3. AddressInv'
    BY <2>2, AddressKept DEF IInv
  <2> QED BY <1>1, <2>1, <2>3
<1> QED BY <1>2, <1>3, <1>4, <1>5 DEF Next

\* The address that PushTracked returns, and from which the sink's RecordId
\* is derived, is never given twice -- over any number of restarts, deletes,
\* failed deletes and power losses -- unless its segment went to quarantine/.
THEOREM AddressesAreUnique == Spec => []AddressUniqueUnlessQuarantined
<1>1. SegmentAddressInv => AddressUniqueUnlessQuarantined
  <2> SUFFICES ASSUME AddressInv, NEW r \in Records, NEW s \in Records,
                      r # s, coord[r] = coord[s], coord[r] # None
               PROVE  \E f \in quarantined : f[1] = coord[r][1]
    BY DEF SegmentAddressInv, AddressUniqueUnlessQuarantined
  <2>1. PICK c \in Seg : c = coord[r][1]
    BY DEF AddressInv
  <2> QED BY <2>1 DEF AddressInv, Spent
<1> QED BY <1>1, InitAddress, NextAddress, PTL DEF Spec

(***************************************************************************)
(* What is on its way to the drain.                                        *)
(***************************************************************************)
\* Sending on a channel.
LEMMA AppendRange ==
    ASSUME NEW S, NEW s \in Seq(S), NEW x \in S
    PROVE  RangeOf(Append(s, x)) = RangeOf(s) \cup {x}
<1>1. /\ DOMAIN s = 1..Len(s) /\ Len(s) \in Nat
      /\ DOMAIN Append(s, x) = 1..(Len(s) + 1)
      /\ \A i \in 1..Len(s) : Append(s, x)[i] = s[i]
      /\ Append(s, x)[Len(s) + 1] = x
  OBVIOUS
<1> QED BY <1>1 DEF RangeOf

\* Taking from a queue.
LEMMA TailRange ==
    ASSUME NEW S, NEW s \in Seq(S), s # << >>
    PROVE  Head(s) \in RangeOf(s) /\ Head(s) \in S /\ RangeOf(Tail(s)) \subseteq RangeOf(s)
<1>1. /\ DOMAIN s = 1..Len(s) /\ Len(s) \in Nat \ {0} /\ Head(s) = s[1]
      /\ DOMAIN Tail(s) = 1..(Len(s) - 1)
      /\ \A i \in 1..(Len(s) - 1) : Tail(s)[i] = s[i + 1]
  BY HeadTailProperties
<1>2. Head(s) \in RangeOf(s) /\ Head(s) \in S
  BY <1>1 DEF RangeOf
<1>3. ASSUME NEW x \in RangeOf(Tail(s)) PROVE x \in RangeOf(s)
  <2>1. PICK i \in 1..(Len(s) - 1) : x = s[i + 1]
    BY <1>1 DEF RangeOf
  <2> QED BY <1>1, <2>1 DEF RangeOf
<1> QED BY <1>2, <1>3

\* Moving the channel into the queue.
LEMMA ConcatRange ==
    ASSUME NEW S, NEW s \in Seq(S), NEW t \in Seq(S)
    PROVE  RangeOf(s \o t) = RangeOf(s) \cup RangeOf(t) /\ s \o t \in Seq(S)
<1>1. /\ s \o t \in Seq(S) /\ Len(s \o t) = Len(s) + Len(t)
      /\ Len(s) \in Nat /\ Len(t) \in Nat
      /\ DOMAIN s = 1..Len(s) /\ DOMAIN t = 1..Len(t) /\ DOMAIN (s \o t) = 1..(Len(s) + Len(t))
      /\ \A i \in 1..(Len(s) + Len(t)) :
            (s \o t)[i] = IF i <= Len(s) THEN s[i] ELSE t[i - Len(s)]
  BY ConcatProperties
<1>2. ASSUME NEW x \in RangeOf(s \o t) PROVE x \in RangeOf(s) \cup RangeOf(t)
  <2>1. PICK i \in 1..(Len(s) + Len(t)) : x = (s \o t)[i]
    BY <1>1 DEF RangeOf
  <2>2. CASE i <= Len(s)
    BY <1>1, <2>1, <2>2 DEF RangeOf
  <2>3. CASE ~(i <= Len(s))
    <3>1. i - Len(s) \in 1..Len(t) /\ x = t[i - Len(s)]
      BY <1>1, <2>1, <2>3
    <3> QED BY <1>1, <3>1 DEF RangeOf
  <2> QED BY <2>2, <2>3
<1>3. ASSUME NEW x \in RangeOf(s) PROVE x \in RangeOf(s \o t)
  <2>1. PICK i \in 1..Len(s) : x = s[i]
    BY <1>1 DEF RangeOf
  <2>2. i \in 1..(Len(s) + Len(t)) /\ (s \o t)[i] = x
    BY <1>1, <2>1
  <2> QED BY <1>1, <2>2 DEF RangeOf
<1>4. ASSUME NEW x \in RangeOf(t) PROVE x \in RangeOf(s \o t)
  <2>1. PICK i \in 1..Len(t) : x = t[i]
    BY <1>1 DEF RangeOf
  <2>2. Len(s) + i \in 1..(Len(s) + Len(t)) /\ (s \o t)[Len(s) + i] = x
    BY <1>1, <2>1
  <2> QED BY <1>1, <2>2 DEF RangeOf
<1> QED BY <1>1, <1>2, <1>3, <1>4

\* A step after which no orphan is on its way.
NoOrphanQueued == \A c \in Seg : ~(Orphan(c)' /\ OnItsWay(c)')

\* The flusher makes no orphan, and what it puts on its way is not sealed
\* yet or was already on its way.
LEMMA FlusherQueue ==
    ASSUME IInv, QueueInv, UnsealedInv, FlusherStep(DrainGone), UNCHANGED <<drainVars, processVars>>
    PROVE  QueueInv' /\ UnsealedInv'
<1> USE DEF IInv, dirVars, fileVars, writerVars, drainVars
<1>0. TypeOK /\ FlusherTouches
  BY FlusherLeaves
<1>1. phase' = phase /\ phase \notin {"down", "recovering"}
  BY DEF DownIsEmpty, FlusherStep, Push, ScanCounter, ScanFails, Receive, RejectRecord, OpenSegment,
         OpenFails, AppendRecord, AppendFails, GroupCommit, GroupCommitFails, TimedSeal, InputClosed,
         Finalize, Rename, SyncRename, SealFails, HandOff, NotHandedOff, HandOffEnds, FlusherPanic,
         Writing
<1>2. ASSUME NEW c \in Seg, name'[c] = "sealed" PROVE name[c] = "sealed" \/ c \notin side
  <2>1. CASE Rename
    BY <1>0, <1>2, <2>1 DEF Rename, RenameSealed, UnsealedInv, TypeOK, DirTypeOK
  <2>2. CASE OpenSegment \/ OpenFails
    BY <1>0, <1>2, <2>2 DEF OpenSegment, OpenFails, CreateFile, CreateFileFails, TypeOK, DirTypeOK
  <2>3. CASE ~(Rename \/ OpenSegment \/ OpenFails)
    BY <1>2, <2>3 DEF FlusherStep, Push, ScanCounter, ScanFails, Receive, RejectRecord,
         AppendRecord, AppendFails, GroupCommit, GroupCommitFails, TimedSeal, InputClosed,
         Finalize, SyncRename, SealFails, HandOff, NotHandedOff, HandOffEnds, FlusherPanic
  <2> QED BY <2>1, <2>2, <2>3
<1>3. \A c \in Seg : Orphan(c)' => Orphan(c)
  BY <1>0, <1>2 DEF FlusherTouches, Orphan
<1>4. CASE AppendRecord \/ TimedSeal \/ InputClosed
  <2>1. /\ chan' = chan /\ name' = name
        /\ \/ Sealing' => Sealing /\ sealing' = sealing
           \/ active # 0 /\ sealing' = active
    BY <1>4 DEF AppendRecord, TimedSeal, InputClosed, Sealing, Writing
  <2>2. ASSUME NEW c \in Seg PROVE OnItsWay(c)' => OnItsWay(c) \/ name'[c] = "wab"
    BY <2>1 DEF OnItsWay, ActiveInv
  <2>3. UnsealedInv'
    BY <1>0, <1>4 DEF FlusherTouches, UnsealedInv, AppendRecord, TimedSeal, InputClosed,
         ActiveInv, Writing
  <2>4. drainPanics' = 0 => NoOrphanQueued
    BY <1>3, <2>2 DEF NoOrphanQueued, QueueInv, Orphan
  <2> QED BY <1>1, <2>3, <2>4 DEF QueueInv, NoOrphanQueued
<1>5. CASE HandOff(DrainGone)
  <2>1. sealing \in Seg /\ chan \in Seq(Seg) /\ chan' = Append(chan, sealing)
    BY <1>0, <1>5 DEF HandOff, SealingInv, Sealing, TypeOK, FlusherTypeOK
  <2>2. RangeOf(chan') = RangeOf(chan) \cup {sealing} /\ Sealing
    BY <1>5, <2>1, AppendRange DEF HandOff, Sealing
  <2>3. fpc' \notin {"finalize", "rename", "dirsync", "handoff"}
    BY <1>5 DEF HandOff, HandOffEnds, PromoteAcks, AfterSeal
  <2>4. \A c \in Seg : OnItsWay(c)' => OnItsWay(c)
    BY <2>2, <2>3 DEF OnItsWay, Sealing
  <2> QED BY <1>1, <1>3, <2>3, <2>4 DEF QueueInv, UnsealedInv
<1>6. CASE ~(AppendRecord \/ TimedSeal \/ InputClosed \/ HandOff(DrainGone))
  <2>1. /\ chan' = chan
        /\ Sealing' => Sealing /\ sealing' = sealing
        /\ fpc' \in {"finalize", "rename"} => fpc \in {"finalize", "rename"}
    BY <1>6 DEF FlusherStep, Push, ScanCounter, ScanFails, Receive, RejectRecord, OpenSegment,
         OpenFails, AppendFails, GroupCommit, GroupCommitFails, Finalize, Rename, SyncRename,
         SealFails, AfterSeal, NotHandedOff, HandOffEnds, PromoteAcks, FlusherPanic, FreshWriter,
         Sealing, Writing
  <2>2. \A c \in Seg : OnItsWay(c)' => OnItsWay(c)
    BY <2>1 DEF OnItsWay
  <2>3. UnsealedInv'
    BY <1>0, <2>1 DEF FlusherTouches, UnsealedInv, Sealing
  <2> QED BY <1>1, <1>3, <2>2, <2>3 DEF QueueInv
<1> QED BY <1>4, <1>5, <1>6

\* What a scan finds has no sidecar, or one that proves nothing.
LEMMA ScanFinds ==
    ASSUME NEW S \in SUBSET Seg, NEW found, ScanSealed(S, found)
    PROVE  /\ side' \subseteq side /\ unproven \subseteq unproven'
           /\ \A c \in Seg : name'[c] = "sealed" => name[c] = "sealed"
           /\ \A c \in found : c \notin side \/ c \in unproven'
<1>1. PICK orphans \in SUBSET Orphans(S), corrupt \in SUBSET Orphans(S) :
        DeleteOrphans(orphans, corrupt)
  BY DEF ScanSealed
<1>2. side' \subseteq side /\ \A c \in Seg : name'[c] = "sealed" => name[c] = "sealed"
  BY <1>1 DEF DeleteOrphans
<1>3. unproven \subseteq unproven' /\ \A c \in found : c \notin side \/ c \in unproven'
  BY DEF ScanSealed, Unconfirmed
<1> QED BY <1>2, <1>3

\* The queue a scan fills holds what the scan found.
LEMMA AscendingRange ==
    ASSUME NEW S \in SUBSET Seg, NEW q \in Ascending(S)
    PROVE  q \in Seq(Seg) /\ RangeOf(q) = S
BY AscendingType DEF Ascending

\* The drain: whatever it confirms is in its hands or its ledger's until it
\* is deleted, and no scan queues a confirmed segment.
LEMMA DrainQueue ==
    ASSUME IInv, QueueInv, UnsealedInv, DrainStep
    PROVE  QueueInv' /\ UnsealedInv'
<1> USE DEF IInv, dirVars, fileVars, flusherVars, writerVars, panicVars
<1>0. TypeOK /\ DirTouches /\ DrainFrame
  BY DrainQuietInv, DrainMoveInv DEF DrainStep, DrainGoal
<1>1. UnsealedInv'
  <2>1. fpc' = fpc /\ sealing' = sealing
    BY <1>0 DEF DrainFrame
  <2> QED BY <1>0, <2>1 DEF DirTouches, UnsealedInv, SealingInv
<1>2. phase' = phase /\ phase \notin {"down", "recovering"}
  <2>1. dpc # "off"
    BY DEF DrainStep, TakeFromChannel, TakeFromQueue, SegmentGone, DeliverAll, Strand, Park,
         QuarantineSegment, QuarantineMoveFails, WriteSidecar, SyncSidecar, SidecarFails,
         DeleteSegment, DeleteFails, RetryDisposition, Rescan, OperatorRescan, Requeue,
         RescanFails, ProbeDown, DrainPanic, DrainStops
  <2> QED BY <1>0, <2>1 DEF DrainFrame, DownIsEmpty
<1>3. ASSUME NoOrphanQueued \/ drainPanics' # 0 PROVE QueueInv' /\ UnsealedInv'
  BY <1>1, <1>2, <1>3 DEF QueueInv, NoOrphanQueued
<1>4. ASSUME drainPanics' = drainPanics,
             \A c \in Seg : Orphan(c)' => Orphan(c),
             \A c \in Seg : OnItsWay(c)' => OnItsWay(c) \/ ~Orphan(c)'
      PROVE  QueueInv' /\ UnsealedInv'
  BY <1>3, <1>4 DEF QueueInv, NoOrphanQueued
<1>5. fpc' = fpc /\ sealing' = sealing /\ (Sealing' <=> Sealing)
  BY <1>0 DEF DrainFrame, Sealing
<1>6. chan \in Seq(Seg) /\ todo \in Seq(Seg) /\ RangeOf(<< >>) = {}
  BY <1>0 DEF TypeOK, FlusherTypeOK, DrainTypeOK, RangeOf
<1>7. CASE TakeFromChannel \/ TakeFromQueue
  <2>1. /\ UNCHANGED <<name, side, unproven, owned, drainPanics>> /\ dpc = "idle"
        /\ dpc' \in {"idle", "deliver"}
    BY <1>7 DEF TakeFromChannel, TakeFromQueue, Admit
  <2>2. ASSUME NEW c \in Seg, OnItsWay(c)' PROVE OnItsWay(c)
    <3>1. CASE TakeFromChannel
      <4>1. /\ chan # << >> /\ chan' = Tail(chan) /\ todo' = todo
            /\ dpc' = "deliver" => dseg' = Head(chan)
        BY <2>1, <3>1 DEF TakeFromChannel, Admit
      <4>2. Head(chan) \in RangeOf(chan) /\ RangeOf(Tail(chan)) \subseteq RangeOf(chan)
        BY <1>6, <4>1, TailRange
      <4> QED BY <1>5, <2>2, <4>1, <4>2 DEF OnItsWay
    <3>2. CASE TakeFromQueue
      <4>1. /\ todo # << >> /\ todo' = Tail(todo) /\ chan' = chan
            /\ dpc' = "deliver" => dseg' = Head(todo)
        BY <2>1, <3>2 DEF TakeFromQueue, Admit
      <4>2. Head(todo) \in RangeOf(todo) /\ RangeOf(Tail(todo)) \subseteq RangeOf(todo)
        BY <1>6, <4>1, TailRange
      <4> QED BY <1>5, <2>2, <4>1, <4>2 DEF OnItsWay
    <3> QED BY <1>7, <3>1, <3>2
  <2>3. \A c \in Seg : Orphan(c)' => Orphan(c)
    BY <2>1 DEF Orphan
  <2> QED BY <1>4, <2>1, <2>2, <2>3
<1>8. ASSUME todo' = todo, chan' = chan, drainPanics' = drainPanics, unproven' = unproven,
             dpc' = "deliver" => dpc = "deliver" /\ dseg' = dseg,
             \A c \in Seg : Orphan(c)' => Orphan(c)
      PROVE  QueueInv' /\ UnsealedInv'
  <2>1. \A c \in Seg : OnItsWay(c)' => OnItsWay(c)
    BY <1>5, <1>8 DEF OnItsWay
  <2> QED BY <1>4, <1>8, <2>1
<1>9. CASE SegmentGone \/ DeliverAll \/ Strand \/ ProbeDown
  <2>1. /\ UNCHANGED <<todo, chan, drainPanics, unproven, name, side, owned>>
        /\ dpc \in {"idle", "deliver"} /\ dpc' \in {"idle", "deliver", "sidecar"}
        /\ dpc' = "deliver" => dpc = "deliver" /\ dseg' = dseg
    BY <1>9 DEF SegmentGone, DeliverAll, Strand, ProbeDown, NextSegment
  <2>2. \A c \in Seg : Orphan(c)' => Orphan(c)
    BY <2>1 DEF Orphan
  <2> QED BY <1>8, <2>1, <2>2
<1>10. CASE Park \/ QuarantineMoveFails \/ SidecarFails \/ DeleteFails
  <2>1. /\ UNCHANGED <<todo, chan, drainPanics, unproven, name, side>> /\ dpc' = "idle"
        /\ \E w \in {"Parked", "Quarantine", "Sidecar", "Delete"} : owned' = [owned EXCEPT ![dseg] = w]
    BY <1>10 DEF Park, QuarantineMoveFails, SidecarFails, DeleteFails, NextSegment
  <2>2. ASSUME NEW c \in Seg, Orphan(c)' PROVE Orphan(c)
    <3>1. c # dseg /\ owned'[c] = owned[c]
      BY <1>0, <2>1, <2>2 DEF Orphan, TypeOK, DrainTypeOK
    <3> QED BY <2>1, <2>2, <3>1 DEF Orphan
  <2> QED BY <1>8, <2>1, <2>2
<1>11. CASE QuarantineSegment \/ DeleteSegment
  <2>1. /\ UNCHANGED <<todo, chan, drainPanics, unproven, side>> /\ dpc' = "idle" /\ dseg \in Seg
        /\ name' = [name EXCEPT ![dseg] = "none"]
        /\ owned' = owned \/ owned' = [owned EXCEPT ![dseg] = "none"]
    BY <1>11 DEF QuarantineSegment, DeleteSegment, NextSegment, MoveToQuarantine, InHandInv
  <2>2. ASSUME NEW c \in Seg, Orphan(c)' PROVE Orphan(c)
    <3>1. c # dseg
      BY <1>0, <2>1, <2>2 DEF Orphan, TypeOK, DirTypeOK
    <3>2. name'[c] = name[c] /\ owned'[c] = owned[c]
      BY <1>0, <2>1, <3>1 DEF TypeOK, DirTypeOK, DrainTypeOK
    <3> QED BY <2>1, <2>2, <3>1, <3>2 DEF Orphan
  <2> QED BY <1>8, <2>1, <2>2
<1>12. CASE WriteSidecar
  <2>1. name[dseg] = "sealed"
    BY <1>12 DEF WriteSidecar, InHandInv
  <2>2. /\ UNCHANGED <<todo, chan, drainPanics, unproven, name, owned, dseg>>
        /\ dpc' = "sidesync" /\ side' = side \cup {dseg}
    BY <1>12, <2>1 DEF WriteSidecar
  <2>3. \A c \in Seg : Orphan(c)' => Orphan(c)
    BY <1>12, <2>2 DEF Orphan, WriteSidecar
  <2> QED BY <1>8, <2>2, <2>3
<1>13. CASE SyncSidecar
  <2>1. /\ UNCHANGED <<todo, chan, drainPanics, unproven, name, side, owned, dseg>>
        /\ dpc = "sidesync" /\ dpc' = "delete"
    BY <1>13 DEF SyncSidecar
  <2>2. \A c \in Seg : Orphan(c)' => Orphan(c)
    BY <2>1 DEF Orphan
  <2> QED BY <1>8, <2>1, <2>2
<1>14. ASSUME NEW b \in Seg, RetryDisposition(b) PROVE QueueInv' /\ UnsealedInv'
  <2>1. /\ UNCHANGED <<todo, chan, drainPanics, unproven, side>> /\ dpc = "idle"
        /\ owned[b] \in {"Sidecar", "Delete", "Quarantine"}
    BY <1>0, <1>14 DEF RetryDisposition, TypeOK, DrainTypeOK
  <2>2. CASE owned[b] \in {"Sidecar", "Delete"}
    <3>1. UNCHANGED <<name, owned>> /\ dpc' \in {"sidecar", "delete"}
      BY <1>14, <2>2 DEF RetryDisposition
    <3>2. \A c \in Seg : Orphan(c)' => Orphan(c)
      BY <2>1, <3>1 DEF Orphan
    <3> QED BY <1>8, <2>1, <3>1, <3>2
  <2>3. CASE owned[b] = "Quarantine"
    <3>1. /\ name' = [name EXCEPT ![b] = "none"] /\ owned' = [owned EXCEPT ![b] = "none"]
          /\ UNCHANGED <<dpc, dseg>>
      BY <1>14, <2>3 DEF RetryDisposition, MoveToQuarantine
    <3>2. ASSUME NEW c \in Seg, Orphan(c)' PROVE Orphan(c)
      <4>1. c # b
        BY <1>0, <3>1, <3>2 DEF Orphan, TypeOK, DirTypeOK
      <4>2. name'[c] = name[c] /\ owned'[c] = owned[c]
        BY <1>0, <3>1, <4>1 DEF TypeOK, DirTypeOK, DrainTypeOK
      <4> QED BY <2>1, <3>1, <3>2, <4>2 DEF Orphan
    <3> QED BY <1>8, <2>1, <3>1, <3>2
  <2> QED BY <2>1, <2>2, <2>3
<1>15. CASE Rescan \/ OperatorRescan
  <2>1. Requeue
    BY <1>15 DEF Rescan, OperatorRescan
  <2>2. PICK found \in SUBSET Seg :
          /\ ScanSealed({c \in Seg : owned[c] = "none"}, found)
          /\ \E q \in Ascending(found \ (RangeOf(todo \o chan) \cup {dseg})) :
                todo' = (todo \o chan) \o q
    BY <2>1 DEF Requeue
  <2>3. UNCHANGED <<dpc, dseg, owned, drainPanics>> /\ chan' = << >>
    BY <2>1 DEF Requeue
  <2>4. /\ side' \subseteq side /\ unproven \subseteq unproven'
        /\ \A c \in Seg : name'[c] = "sealed" => name[c] = "sealed"
        /\ \A c \in found : c \notin side \/ c \in unproven'
    BY <2>2, ScanFinds
  <2>5. \A c \in Seg : Orphan(c)' => Orphan(c)
    BY <2>3, <2>4 DEF Orphan
  <2>6. PICK q \in Seq(Seg) : RangeOf(q) \subseteq found /\ todo' = (todo \o chan) \o q
    BY <2>2, AscendingRange
  <2>7. RangeOf(todo') = RangeOf(todo) \cup RangeOf(chan) \cup RangeOf(q)
    <3>1. PICK both \in Seq(Seg) :
            both = todo \o chan /\ RangeOf(both) = RangeOf(todo) \cup RangeOf(chan)
      <4>1. todo \o chan \in Seq(Seg) /\ RangeOf(todo \o chan) = RangeOf(todo) \cup RangeOf(chan)
        BY <1>6, ConcatRange
      <4> QED BY <4>1
    <3>2. RangeOf(both \o q) = RangeOf(both) \cup RangeOf(q)
      BY ConcatRange
    <3> QED BY <2>6, <3>1, <3>2
  <2>8. ASSUME NEW c \in Seg, OnItsWay(c)' PROVE OnItsWay(c) \/ ~Orphan(c)'
    <3>1. CASE c \in found
      BY <2>4, <3>1 DEF Orphan
    <3>2. CASE c \notin found
      BY <1>5, <1>6, <2>3, <2>6, <2>7, <2>8, <3>2 DEF OnItsWay
    <3> QED BY <3>1, <3>2
  <2> QED BY <1>4, <2>3, <2>5, <2>8
<1>16. CASE RescanFails
  <2>1. /\ UNCHANGED <<dpc, dseg, owned, drainPanics, unproven, name, side>>
        /\ chan' = << >> /\ todo' = todo \o chan
    BY <1>16 DEF RescanFails
  <2>2. RangeOf(todo') = RangeOf(todo) \cup RangeOf(chan)
    BY <1>6, <2>1, ConcatRange
  <2>3. \A c \in Seg : OnItsWay(c)' => OnItsWay(c)
    BY <1>5, <1>6, <2>1, <2>2 DEF OnItsWay
  <2>4. \A c \in Seg : Orphan(c)' => Orphan(c)
    BY <2>1 DEF Orphan
  <2> QED BY <1>4, <2>1, <2>3, <2>4
<1>17. CASE DrainPanic
  <2>1. drainPanics' # 0
    BY <1>0, <1>17 DEF DrainPanic, TypeOK, DrainTypeOK
  <2> QED BY <1>3, <2>1
<1>18. CASE DrainStops
  <2>1. PICK done \in SUBSET Seg,
             half \in SUBSET {c \in Seg : owned[c] = "Sidecar" /\ name[c] # "none"} :
          /\ owned' = [c \in Seg |-> IF c \in done THEN "none" ELSE owned[c]]
          /\ side' = side \cup (half \cup {c \in done : owned[c] = "Sidecar" /\ name[c] # "none"})
          /\ name' = [c \in Seg |-> IF c \in done THEN "none" ELSE name[c]]
    BY <1>18 DEF DrainStops
  <2>2. /\ dpc \in {"idle", "deliver"} /\ dpc' = "exited" /\ todo' = << >>
        /\ UNCHANGED <<chan, drainPanics, unproven>>
    BY <1>18 DEF DrainStops
  <2>3. \A c \in Seg : OnItsWay(c)' => OnItsWay(c)
    BY <1>5, <1>6, <2>2 DEF OnItsWay
  <2>4. ASSUME NEW c \in Seg, Orphan(c)' PROVE Orphan(c)
    <3>1. c \notin done /\ owned[c] = "none" /\ name[c] = "sealed" /\ c \in side'
      BY <2>1, <2>4 DEF Orphan
    <3>2. c \in side
      BY <2>1, <3>1
    <3> QED BY <2>2, <2>4, <3>1, <3>2 DEF Orphan
  <2> QED BY <1>4, <2>2, <2>3, <2>4
<1> QED BY <1>7, <1>9, <1>10, <1>11, <1>12, <1>13, <1>14, <1>15, <1>16, <1>17, <1>18 DEF DrainStep

\* Startup, shutdown and failure: queues start empty, and the first scan
\* finds nothing that is confirmed.
LEMMA ProcessQueue ==
    ASSUME IInv, QueueInv, UnsealedInv, RecoveryStep \/ ShutdownStep \/ Exit \/ Crash \/ PowerLoss
    PROVE  QueueInv' /\ UnsealedInv'
<1> USE DEF IInv, drainVars, flusherVars, writerVars, processVars
<1>0. RangeOf(<< >>) = {}
  BY DEF RangeOf
<1>1. CASE Exit \/ Crash \/ PowerLoss
  <2>1. fpc' = "off" /\ dpc' = "off" /\ chan' = << >> /\ todo' = << >>
    BY <1>1 DEF Exit, Crash, PowerLoss, LoseMemory
  <2>2. \A c \in Seg : ~OnItsWay(c)'
    BY <1>0, <2>1 DEF OnItsWay, Sealing
  <2> QED BY <2>1, <2>2 DEF QueueInv, UnsealedInv
<1>2. CASE ShutdownStep
  <2>1. /\ UNCHANGED <<name, side, unproven, owned, dpc, dseg, todo, chan, fpc, sealing, drainPanics>>
        /\ phase' \notin {"down", "recovering"}
    BY <1>2 DEF ShutdownStep, Stop, CloseIngest, RequestStop, ForceStop, ShutdownFrame, dirVars
  <2> QED BY <2>1 DEF QueueInv, UnsealedInv, Orphan, OnItsWay, Sealing
<1>3. CASE \/ Start
           \/ \E c \in Seg : RecoverSegment(c) \/ RecoverCorrupt(c) \/ RecoverNoHeader(c) \/ RecoverFails(c)
  <2>1. phase \in {"down", "recovering"} /\ UNCHANGED <<dpc, todo, chan, fpc, drainPanics>>
    BY <1>3 DEF Start, RecoverSegment, RecoverCorrupt, RecoverNoHeader, RecoverFails, Recovering,
         RecoveryFrame
  <2>2. dpc' = "off" /\ fpc' = "off" /\ chan' = << >> /\ todo' = << >>
    BY <2>1 DEF DownIsEmpty, QueueInv
  <2>3. \A c \in Seg : ~OnItsWay(c)'
    BY <1>0, <2>2 DEF OnItsWay, Sealing
  <2> QED BY <2>2, <2>3 DEF QueueInv, UnsealedInv
<1>4. CASE Replay
  <2>1. PICK found \in SUBSET Seg : ScanSealed(Seg, found) /\ todo' \in Ascending(found)
    BY <1>4 DEF Replay
  <2>2. /\ phase' = "running" /\ fpc' = "scan" /\ dpc' = "idle" /\ chan' = chan
        /\ phase = "recovering"
    BY <1>4 DEF Replay
  <2>3. chan' = << >> /\ RangeOf(todo') = found
    BY <2>1, <2>2 DEF QueueInv, Ascending
  <2>4. side' \subseteq side /\ \A c \in found : c \notin side \/ c \in unproven'
    BY <2>1, ScanFinds
  <2>5. ASSUME NEW c \in Seg, OnItsWay(c)' PROVE ~Orphan(c)'
    <3>1. c \in found
      BY <1>0, <2>2, <2>3, <2>5 DEF OnItsWay, Sealing
    <3> QED BY <2>4, <3>1 DEF Orphan
  <2> QED BY <2>2, <2>5 DEF QueueInv, UnsealedInv
<1> QED BY <1>1, <1>2, <1>3, <1>4 DEF RecoveryStep

\* Everything the queues rest on.
SegmentQueueInv == IInv /\ QueueInv /\ UnsealedInv

\* A daemon that never ran has no queues.
LEMMA InitQueue == Init => SegmentQueueInv
<1> SUFFICES ASSUME Init PROVE SegmentQueueInv
  OBVIOUS
<1>1. UnsealedInv /\ todo = << >> /\ chan = << >> /\ fpc = "off" /\ dpc = "off"
  BY DEF Init, FlusherInit, DrainInit, UnsealedInv
<1>2. RangeOf(<< >>) = {}
  BY DEF RangeOf
<1>3. QueueInv
  BY <1>1, <1>2 DEF QueueInv, OnItsWay, Sealing
<1> QED BY <1>1, <1>3, InitInv DEF SegmentQueueInv

\* ... and no step puts a confirmed segment on its way.
LEMMA NextQueue == SegmentQueueInv /\ [Next]_vars => SegmentQueueInv'
<1> SUFFICES ASSUME SegmentQueueInv, [Next]_vars PROVE SegmentQueueInv'
  OBVIOUS
<1> USE DEF SegmentQueueInv
<1>1. IInv'
  BY NextInv, StutterInv
<1>2. CASE FlusherStep(DrainGone) /\ UNCHANGED <<drainVars, processVars>>
  BY <1>1, <1>2, FlusherQueue
<1>3. CASE DrainStep
  BY <1>1, <1>3, DrainQueue
<1>4. CASE RecoveryStep \/ ShutdownStep \/ Exit \/ Crash \/ PowerLoss
  BY <1>1, <1>4, ProcessQueue
<1>5. CASE UNCHANGED vars
  BY <1>1, <1>5 DEF QueueInv, UnsealedInv, Orphan, OnItsWay, Sealing, vars, dirVars, flusherVars,
       writerVars, drainVars
<1> QED BY <1>2, <1>3, <1>4, <1>5 DEF Next

\* A segment whose sidecar is durable is never delivered again by an
\* incarnation of the drain that has not panicked: whatever stale copy of it
\* the channel, the queue or a rescan could hold, it is deleted, or the
\* ledger owns it, before the drain gets there.
THEOREM ConfirmedStaysConfirmed == Spec => NeverRedeliverConfirmed
<1> DEFINE Kind == dpc # "deliver" /\ dpc' = "deliver" /\ drainPanics = 0 =>
                     ~(dseg' \in sideD \ unproven /\ name[dseg'] = "sealed")
<1>1. SegmentQueueInv /\ Next => Kind
  <2> SUFFICES ASSUME SegmentQueueInv, Next, dpc # "deliver", dpc' = "deliver", drainPanics = 0,
                      dseg' \in sideD \ unproven, name[dseg'] = "sealed"
               PROVE  FALSE
    OBVIOUS
  <2> USE DEF SegmentQueueInv, IInv
  <2>1. TakeFromChannel \/ TakeFromQueue
    <3>1. CASE FlusherStep(DrainGone) /\ UNCHANGED <<drainVars, processVars>>
      BY <3>1 DEF drainVars
    <3>2. CASE RecoveryStep \/ ShutdownStep \/ Exit \/ Crash \/ PowerLoss
      BY <3>2 DEF RecoveryStep, Start, RecoverSegment, RecoverCorrupt, RecoverNoHeader, RecoverFails,
           RecoveryFrame, Replay, ShutdownStep, Stop, CloseIngest, RequestStop, ForceStop,
           ShutdownFrame, Exit, Crash, PowerLoss, LoseMemory, drainVars
    <3>3. ASSUME NEW c \in Seg, RetryDisposition(c) PROVE FALSE
      <4>1. owned[c] \in {"Sidecar", "Delete", "Quarantine"}
        BY <3>3 DEF RetryDisposition, TypeOK, DrainTypeOK
      <4> QED BY <3>3, <4>1 DEF RetryDisposition
    <3>4. CASE DrainStep
      BY <3>3, <3>4 DEF DrainStep, SegmentGone, DeliverAll, Strand, Park, QuarantineSegment,
           QuarantineMoveFails, WriteSidecar, SyncSidecar, SidecarFails, DeleteSegment, DeleteFails,
           Rescan, OperatorRescan, Requeue, RescanFails, ProbeDown, DrainPanic,
           DrainStops, NextSegment
    <3> QED BY <3>1, <3>2, <3>4 DEF Next
  <2>2. chan \in Seq(Seg) /\ todo \in Seq(Seg) /\ sideD \subseteq side
    BY DEF TypeOK, FlusherTypeOK, DrainTypeOK, SidecarInv
  <2>3. PICK q \in {chan, todo} : dpc = "idle" /\ q # << >> /\ Admit(Head(q))
    BY <2>1 DEF TakeFromChannel, TakeFromQueue
  <2>4. Head(q) \in RangeOf(q) /\ Head(q) \in Seg
    BY <2>2, <2>3, TailRange
  <2>5. dseg' = Head(q) /\ owned[Head(q)] = "none"
    BY <2>3 DEF Admit
  <2>6. Orphan(Head(q)) /\ OnItsWay(Head(q))
    BY <2>2, <2>3, <2>4, <2>5 DEF Orphan, OnItsWay
  <2> QED BY <2>4, <2>6 DEF QueueInv
<1>2. UNCHANGED vars => Kind
  BY DEF vars, drainVars
<1>3. SegmentQueueInv /\ [Next]_vars => [Kind]_vars
  BY <1>1, <1>2
<1> QED BY <1>3, InitQueue, NextQueue, PTL DEF Spec, NeverRedeliverConfirmed
=============================================================================
