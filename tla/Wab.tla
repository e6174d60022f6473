-------------------------------- MODULE Wab ---------------------------------
(***************************************************************************)
(* The write-ahead buffer of one shard, end to end: the flusher, the       *)
(* drain, startup recovery and replay, orderly shutdown, process crashes   *)
(* and power losses, over one shard directory.                             *)
(***************************************************************************)
EXTENDS SegmentDrain

CONSTANT MaxRestarts    \* bound on stops, crashes and power losses

ASSUME RestartAssumption == MaxRestarts \in Nat

VARIABLES
    torecover,      \* open segments the recovery pass has not visited yet
    restarts,       \* stops, crashes and power losses so far
    powerLost       \* has power been lost?

processVars == <<torecover, restarts, powerLost>>

vars == <<dirVars, faults, flusherVars, drainVars, processVars>>

TypeOK ==
    /\ DirTypeOK /\ FlusherTypeOK /\ DrainTypeOK
    /\ torecover \subseteq Seg
    /\ restarts \in Nat
    /\ powerLost \in BOOLEAN

Init ==
    /\ DirInit /\ FlusherInit /\ DrainInit
    /\ torecover = {} /\ restarts = 0 /\ powerLost = FALSE

(***************************************************************************)
(* Startup: recover the open segments, list the sealed ones, go.           *)
(***************************************************************************)
Start ==
    /\ phase = "down"
    /\ phase' = "recovering"
    /\ torecover' = {c \in Seg : name[c] = "wab"}
    /\ UNCHANGED <<dirVars, status, inbox, fpc, writerVars, respawns, chan,
                   coord, drainVars, restarts, powerLost>>
    /\ NoFault

Recovering(c) == phase = "recovering" /\ c \in torecover

RecoveryFrame(c) ==
    /\ torecover' = torecover \ {c}
    /\ UNCHANGED <<flusherVars, drainVars, restarts, powerLost>>

\* rebuild and seal: the first k records are kept, the footer is rewritten,
\* the file is fsynced and renamed.
SealPrefix(c, k) ==
    /\ content' = [content EXCEPT ![c] = SubSeq(@, 1, k)]
    /\ synced' = [synced EXCEPT
                    ![c] = IF c \in hole THEN (IF @ < k THEN @ ELSE k) ELSE k]
    /\ footer' = [footer EXCEPT ![c] = k]
    /\ RenameSealed(c)

\* Mutant: the last complete record is taken for a torn one.
RecoverSegmentShort(c) ==
    /\ Recovering(c)
    /\ SealPrefix(c, IF content[c] = << >> THEN 0 ELSE Len(content[c]) - 1)
    /\ side' = side /\ FsyncDir
    /\ UNCHANGED <<hole, quarantined>>
    /\ RecoveryFrame(c)
    /\ NoFault

\* A torn tail is cut off; every complete record is kept.
RecoverSegment(c) ==
    /\ Recovering(c)
    /\ SealPrefix(c, Len(content[c]))
    /\ side' = side /\ FsyncDir
    /\ UNCHANGED <<hole, quarantined>>
    /\ RecoveryFrame(c)
    /\ NoFault

\* Mutant: the corrupt file is not copied to quarantine/ first.
RecoverCorruptNoCopy(c) ==
    /\ Recovering(c) /\ Fault
    /\ \E k \in 0..Len(content[c]) : SealPrefix(c, k)
    /\ side' = side /\ FsyncDir
    /\ UNCHANGED <<hole, quarantined>>
    /\ RecoveryFrame(c)

\* Mid-file corruption after record k: the whole file is first copied to
\* quarantine/, then the prefix is sealed.
RecoverCorrupt(c) ==
    /\ Recovering(c) /\ Fault
    /\ \E k \in 0..Len(content[c]) : SealPrefix(c, k)
    /\ quarantined' = quarantined \cup {QuarantineCopy(c)}
    /\ side' = side /\ FsyncDir
    /\ UNCHANGED hole
    /\ RecoveryFrame(c)

\* The header is short or wrong: the file is moved to quarantine/.  A file
\* without records can lack its header through a crash alone.
RecoverNoHeader(c) ==
    /\ Recovering(c)
    /\ IF content[c] = << >> THEN NoFault ELSE Fault
    /\ MoveToQuarantine(c)
    /\ UNCHANGED <<nameD, side, sideD, fileVars>>
    /\ RecoveryFrame(c)

\* The tail after record k is cut off; nothing else has happened yet.
Truncate(c, k) ==
    /\ content' = [content EXCEPT ![c] = SubSeq(@, 1, k)]
    /\ synced' = [synced EXCEPT ![c] = IF @ < k THEN @ ELSE k]
    /\ UNCHANGED <<name, hole, footer>>

\* Any other error: the segment stays as it is (it is counted as failed and
\* retried by the next start), or is sealed without its directory fsync, or
\* is corrupt and the rebuild fails once the copy is in quarantine/.
RecoverFails(c) ==
    /\ Recovering(c) /\ Fault
    /\ \/ UNCHANGED <<name, fileVars, quarantined>>
       \/ SealPrefix(c, Len(content[c])) /\ UNCHANGED <<hole, quarantined>>
       \/ /\ quarantined' = quarantined \cup {QuarantineCopy(c)}
          /\ \E k \in 0..Len(content[c]) : Truncate(c, k)
    /\ UNCHANGED <<nameD, side, sideD>>
    /\ RecoveryFrame(c)

\* scan_replay, then spawn: the sealed, unconfirmed segments are the drain's
\* first backlog and the flusher starts with its counter scan.
Replay ==
    /\ phase = "recovering" /\ torecover = {}
    /\ \E found \in SUBSET Seg :
          ScanSealed(Seg, found) /\ todo' \in Ascending(found)
    /\ phase' = "running" /\ fpc' = "scan" /\ dpc' = "idle"
    /\ UNCHANGED <<fileVars, status, inbox, writerVars, respawns, chan, coord,
                   dseg, owned, edge, drainPanics, panicked, handled, processVars>>

(***************************************************************************)
(* Shutdown and failure of the process.                                    *)
(***************************************************************************)
\* Everything in memory is gone; producers without an answer learn nothing.
LoseMemory ==
    /\ phase' = "down" /\ fpc' = "off" /\ dpc' = "off"
    /\ FreshWriter
    /\ inbox' = << >> /\ chan' = << >> /\ todo' = << >>
    /\ dseg' = 0 /\ owned' = [c \in Seg |-> "none"] /\ edge' = FALSE
    /\ respawns' = 0 /\ drainPanics' = 0 /\ panicked' = {} /\ torecover' = {}
    /\ unproven' = {}
    /\ status' = [r \in Records |->
                    IF status[r] = "queued" THEN "unknown" ELSE status[r]]
    /\ UNCHANGED <<coord, handled>>

CanFail == restarts < MaxRestarts /\ restarts' = restarts + 1

ShutdownFrame ==
    /\ UNCHANGED <<dirVars, status, inbox, fpc, writerVars, respawns, chan,
                   coord, drainVars, torecover, powerLost>>
    /\ NoFault

FlusherDone == fpc \in {"exited", "offline"}

\* T0, the first signal: the drain absorbs, hand_off gets its budget, and
\* producers are still served (the lame duck).
Stop ==
    /\ phase = "running" /\ CanFail
    /\ phase' = "lameduck"
    /\ ShutdownFrame

\* T1: the listeners and the workers are gone, the flusher's channel closes.
CloseIngest ==
    /\ phase = "lameduck"
    /\ phase' = "closing"
    /\ UNCHANGED restarts
    /\ ShutdownFrame

\* T2: the flusher has been joined; the drain may run until its deadline.
RequestStop ==
    /\ phase = "closing" /\ FlusherDone
    /\ phase' = "stopping"
    /\ UNCHANGED restarts
    /\ ShutdownFrame

\* The second signal: connections are aborted and the deadline is now.
ForceStop ==
    /\ phase \in {"lameduck", "closing"}
    /\ phase' = "stopping"
    /\ UNCHANGED restarts
    /\ ShutdownFrame

ShutdownStep == Stop \/ CloseIngest \/ RequestStop \/ ForceStop

\* T3.
Exit ==
    /\ phase = "stopping" /\ FlusherDone /\ dpc = "exited"
    /\ LoseMemory
    /\ UNCHANGED <<dirVars, restarts, powerLost>>
    /\ NoFault

Crash ==
    /\ phase # "down" /\ CanFail
    /\ LoseMemory
    /\ UNCHANGED <<dirVars, powerLost>>
    /\ NoFault

PowerLoss ==
    /\ CanFail
    /\ LoseMemory
    /\ LosePower
    /\ powerLost' = TRUE
    /\ NoFault

RecoveryStep ==
    \/ Start
    \/ \E c \in Seg : \/ RecoverSegment(c) \/ RecoverCorrupt(c)
                      \/ RecoverNoHeader(c) \/ RecoverFails(c)
    \/ Replay

Next ==
    \/ FlusherStep(DrainGone) /\ UNCHANGED <<drainVars, processVars>>
    \/ DrainStep /\ UNCHANGED processVars
    \/ RecoveryStep
    \/ ShutdownStep \/ Exit \/ Crash \/ PowerLoss

Spec == Init /\ [][Next]_vars

(***************************************************************************)
(* Fairness: each thread keeps running.  What it may not do forever is     *)
(* nothing, as long as a step that is not a fault is open to it.  Faults,  *)
(* pushes, stops and crashes are never owed.  The timed seal is owed by a  *)
(* daemon with wab_segment_max_age or _max_lifetime set.                   *)
(***************************************************************************)
FlusherProgress ==
    /\ \/ ScanCounter \/ Receive \/ RejectRecord \/ OpenSegment \/ AppendRecord
       \/ GroupCommit \/ InputClosed \/ Finalize \/ Rename \/ SyncRename
       \/ HandOff(DrainGone) \/ NotHandedOff(DrainGone)
    /\ UNCHANGED <<drainVars, processVars>>

DrainProgress ==
    /\ \/ TakeFromChannel \/ TakeFromQueue \/ SegmentGone \/ DeliverAll
       \/ QuarantineSegment /\ NoFault
       \/ WriteSidecar \/ SyncSidecar \/ DeleteSegment
       \/ \E c \in Seg : RetryDisposition(c)
       \/ Rescan \/ DrainStops
    /\ UNCHANGED processVars

MainProgress ==
    \/ Start \/ (\E c \in Seg : RecoverSegment(c)) \/ Replay
    \/ CloseIngest \/ RequestStop \/ Exit

Progress ==
    /\ WF_vars(FlusherProgress)
    /\ WF_vars(TimedSeal /\ UNCHANGED <<drainVars, processVars>>)
    /\ WF_vars(DrainProgress)
    /\ WF_vars(MainProgress)

FairSpec == Spec /\ Progress

(***************************************************************************)
(* Properties.                                                             *)
(***************************************************************************)
\* Where the bytes of r are safe from any crash: in a synced prefix of a
\* file both views of the directory have, handled, or in quarantine/.
OnStableStorage(r) ==
    \E c \in Seg : /\ name[c] # "none" /\ nameD[c] # "none"
                   /\ r \in SyncedRecords(c)

InBuffer(r) == \E c \in Seg : name[c] # "none" /\ r \in RangeOf(content[c])

\* The crown invariant ("never a false ack"): a record acked at the Durable
\* tier is on stable storage, or was handled, or waits in quarantine/ --
\* through every interleaving of flush, rotation, failed seal, failed fsync,
\* drain delete, crash, power loss and recovery.
DurableAckSafe ==
    \A r \in DurableTier : status[r] = "acked" =>
        r \in handled \/ InQuarantine(r) \/ OnStableStorage(r)

\* A record acked at either tier is lost by nothing but a power loss.
AckSurvivesCrash ==
    ~powerLost =>
        \A r \in Records : status[r] = "acked" =>
            r \in handled \/ InQuarantine(r) \/ InBuffer(r)

\* A started flusher never opens a segment under a counter that the
\* directory still uses: as an open or sealed segment of the running daemon's
\* view, or as the sidecar of a delivered one in that view or on the disk.
CounterIsFresh ==
    fpc \notin {"off", "scan", "offline", "exited"} =>
        \A c \in Seg : c >= nextCounter =>
            name[c] = "none" /\ c \notin side /\ c \notin sideD

\* A durable sidecar stands for delivery: no record of a segment whose
\* sidecar may be found by a scan is still unhandled.
SidecarMeansHandled ==
    \A c \in side \cup sideD :
        name[c] # "none" \/ nameD[c] # "none" =>
            RangeOf(content[c]) \subseteq handled

\* A record's address (segment, index) -- what PushTracked returns and what
\* the sink's RecordId is derived from -- belongs to one record among those
\* durably acked or handled, unless its segment was quarantined.
AddressUniqueUnlessQuarantined ==
    \A r, s \in Records :
        /\ r # s /\ coord[r] = coord[s] /\ coord[r] # None
        /\ r \in handled \/ (r \in DurableTier /\ status[r] = "acked")
        /\ s \in handled \/ (s \in DurableTier /\ status[s] = "acked")
        => \E f \in quarantined : f[1] = coord[r][1]

\* A segment file disappears from the directory only once every record in it
\* is handled, or into quarantine/.  Only a power loss may take a file, and
\* only one whose directory entry was never fsynced.
NeverDropUnhandled ==
    [][\A c \in Seg :
         /\ name[c] # "none" /\ name'[c] = "none"
         /\ nameD[c] # "none" \/ phase' # "down"
         => \A r \in RangeOf(content[c]) : r \in handled' \/ InQuarantine(r)']_vars

\* Once a segment's sidecar is durable, the drain never starts another
\* delivery of it: not from a stale copy in the channel, not after a failed
\* delete, not when a power loss undoes the delete -- unless a scan could not
\* read the sidecar.  (After a drain panic a
\* stale copy may be opened again; the ledger's cursor, which this module
\* leaves out, is then past its last record.)
NeverRedeliverConfirmed ==
    [][dpc # "deliver" /\ dpc' = "deliver" /\ drainPanics = 0 =>
         ~(dseg' \in sideD \ unproven /\ name[dseg'] = "sealed")]_vars

(***************************************************************************)
(* The buffer implements its promise: DurableBuffer under this mapping.    *)
(***************************************************************************)
placeOf(r) == IF r \in handled \/ InQuarantine(r) THEN "done"
              ELSE IF OnStableStorage(r) THEN "stable"
              ELSE IF InBuffer(r) THEN "volatile"
              ELSE "nowhere"

Promised == INSTANCE DurableBuffer
              WITH told <- status, place <- [r \in Records |-> placeOf(r)]

\* Every behaviour of the shard is one the promise allows: no answer changes,
\* no ack is given early, no place gets worse except a volatile one in a
\* power loss.
ImplementsDurableBuffer == Promised!Spec

(***************************************************************************)
(* Liveness, under FairSpec.                                               *)
(***************************************************************************)
\* The code's own exceptions: what only the next start gets to.  An open
\* segment the writer has dropped, a parked one, and everything once the
\* drain has used up its respawns.
WaitsForRestart(c) ==
    \/ name[c] = "wab" /\ c \notin {active, sealing}
    \/ owned[c] = "Parked"
    \/ dpc = "exited"

\* An acked record does not sit in the buffer: it is handled, or set aside in
\* quarantine/, or is in a segment that waits for a restart -- although a
\* hand-off may fail, a strand may arm no recovery edge, a panic may drop
\* both queues and a disposition may fail.
AckedIsDelivered ==
    <>[](\A r \in Records : status[r] = "acked" =>
            \/ r \in handled \/ InQuarantine(r) \/ powerLost
            \/ phase # "running"
            \/ \E c \in Seg : r \in RangeOf(content[c]) /\ WaitsForRestart(c))

\* Every queued push is answered: no flush waits for ever, although hand_off
\* waits for the drain whenever the channel is full.  A record is pushed once, so
\* in the end none is queued.
EveryPushAnswered == <>[](\A r \in Records : status[r] # "queued")

\* An orderly stop ends, whichever of the two threads gives up first.
StopEnds == phase \in {"lameduck", "closing", "stopping"} ~> phase = "down"
=============================================================================
