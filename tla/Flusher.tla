------------------------------ MODULE Flusher -------------------------------
(***************************************************************************)
(* The WAB flusher of one shard: the thread that owns the shard's          *)
(* ShardWriter, writes batches of records, decides every ack, seals        *)
(* segments and hands them to the drain (wab/mod.rs, wab/segment.rs,       *)
(* wab/handoff.rs), under its panic supervisor.                            *)
(*                                                                         *)
(* write_record and seal are split where a crash, a power loss or the      *)
(* drain can come between two of their system calls: create, append,       *)
(* finalize (footer and fsync), rename, directory fsync, hand-off.         *)
(***************************************************************************)
EXTENDS ShardDir

CONSTANTS
    ChannelCap,     \* DRAIN_CHANNEL_CAPACITY
    MaxRespawns     \* MAX_FLUSHER_RESPAWNS

ASSUME FlusherAssumption == ChannelCap \in Nat \ {0} /\ MaxRespawns \in Nat

VARIABLES
    phase,          \* of the process: one of Phases
    status,         \* status[r]: what the producer of r knows
    inbox,          \* the shard's work channel
    fpc,            \* where the flusher is
    batch,          \* records of the current flush not yet written
    pending,        \* pending_acks: written to the active segment, not synced
    promoted,       \* durable_acks: in a segment sealed during this flush
    active,         \* the active segment's counter, 0 if none
    sealing,        \* the segment being sealed or handed off, 0 if none
    cause,          \* why it is sealed: "rotation", "timed" or "shutdown"
    nextCounter,    \* ShardWriter::next_counter
    lastFail,       \* ShardWriter::last_write_failure
    respawns,       \* the supervisor's attempt counter
    chan,           \* the drain channel
    coord           \* coord[r]: the address the record was written at

writerVars == <<batch, pending, promoted, active, sealing, cause, nextCounter,
                lastFail>>
flusherVars == <<phase, status, inbox, fpc, writerVars, respawns, chan, coord>>

None == <<0, 0>>

Phases == {"down", "recovering", "running",
           "lameduck",      \* T0: shutdown requested, ingest still open
           "closing",       \* T1: ingest closed
           "stopping"}      \* T2, or forced: the drain is told to stop

FlusherTypeOK ==
    /\ phase \in Phases
    /\ status \in [Records -> {"new", "queued", "acked", "nacked", "unknown"}]
    /\ inbox \in Seq(Records)
    /\ fpc \in {"off", "scan", "idle", "write", "finalize", "rename", "dirsync",
                "handoff", "exited", "offline"}
    /\ batch \in Seq(Records)
    /\ pending \subseteq Records
    /\ promoted \subseteq Records
    /\ active \in {0} \cup Seg
    /\ sealing \in {0} \cup Seg
    /\ cause \in {"rotation", "timed", "shutdown"}
    /\ nextCounter \in Nat \ {0}
    /\ lastFail \in {"none", "RecordRejected", "SegmentDropped"}
    /\ respawns \in Nat
    /\ chan \in Seq(Seg)
    /\ coord \in [Records -> ({0} \cup Seg) \X Nat]

FlusherInit ==
    /\ phase = "down"
    /\ status = [r \in Records |-> "new"]
    /\ inbox = << >>
    /\ fpc = "off"
    /\ batch = << >> /\ pending = {} /\ promoted = {}
    /\ active = 0 /\ sealing = 0 /\ cause = "timed"
    /\ nextCounter = 1 /\ lastFail = "none"
    /\ respawns = 0
    /\ chan = << >>
    /\ coord = [r \in Records |-> None]

Reply(rs, answer) == [r \in Records |-> IF r \in rs THEN answer ELSE status[r]]

\* ShardWriter::new_with_store: what a (re)spawned flusher starts from.
FreshWriter ==
    /\ batch' = << >> /\ pending' = {} /\ promoted' = {}
    /\ active' = 0 /\ sealing' = 0 /\ cause' = "timed"
    /\ nextCounter' = 1 /\ lastFail' = "none"

(***************************************************************************)
(* A producer's record reaches the shard.  A shard whose flusher is gone   *)
(* answers with a Nack.                                                    *)
(***************************************************************************)
Push(r) ==
    /\ phase \in {"running", "lameduck"} /\ status[r] = "new"
    /\ IF fpc = "offline"
         THEN status' = Reply({r}, "nacked") /\ UNCHANGED inbox
         ELSE status' = Reply({r}, "queued") /\ inbox' = Append(inbox, r)
    /\ UNCHANGED <<dirVars, phase, fpc, writerVars, respawns, chan, coord>>
    /\ NoFault

(***************************************************************************)
(* Startup of the flusher: the segment counter.                            *)
(***************************************************************************)
\* Mutant: delivered segments no longer count once their file is deleted.
CountersWithoutSidecars == {c \in Seg : name[c] # "none"}
\* Mutant: the open files a dropped segment leaves behind do not count.
CountersWithoutOpen == {c \in Seg : name[c] = "sealed" \/ c \in side}

\* segment_counters: active, sealed and confirmed files all count.
CountersOnDisk == {c \in Seg : name[c] # "none" \/ c \in side}

\* scan_and_advance_counter: one past the highest counter in the directory.
ScanCounter ==
    /\ fpc = "scan"
    /\ \E n \in 1..(MaxSegments + 1) :
         /\ \A c \in CountersOnDisk : c < n
         /\ n = 1 \/ n - 1 \in CountersOnDisk
         /\ nextCounter' = n
    /\ fpc' = "idle"
    /\ UNCHANGED <<dirVars, phase, status, inbox, batch, pending, promoted,
                   active, sealing, cause, lastFail, respawns, chan, coord>>
    /\ NoFault

\* Mutant: the queue of the shard that goes offline is dropped unanswered.
ScanFailsSilently ==
    /\ fpc = "scan" /\ Fault
    /\ fpc' = "offline"
    /\ inbox' = << >>
    /\ UNCHANGED <<dirVars, phase, status, writerVars, respawns, chan, coord>>

\* The scan keeps failing: the shard goes offline without a counter, its
\* queued records are nacked, and there is no respawn.
ScanFails ==
    /\ fpc = "scan" /\ Fault
    /\ fpc' = "offline"
    /\ status' = Reply(RangeOf(inbox), "nacked")
    /\ inbox' = << >>
    /\ UNCHANGED <<dirVars, phase, writerVars, respawns, chan, coord>>

(***************************************************************************)
(* flush_batch.                                                            *)
(***************************************************************************)
Receive ==
    /\ fpc = "idle"
    /\ \E n \in 1..Len(inbox) :
         /\ batch' = SubSeq(inbox, 1, n)
         /\ inbox' = SubSeq(inbox, n + 1, Len(inbox))
    /\ fpc' = "write"
    /\ UNCHANGED <<dirVars, phase, status, pending, promoted, active, sealing,
                   cause, nextCounter, lastFail, respawns, chan, coord>>
    /\ NoFault

\* flush_batch's answer to a failed write_record: the record is nacked, and
\* with it every record waiting in a segment that was dropped.
NackFailedWrite(why) ==
    /\ lastFail' = why
    /\ status' = Reply({Head(batch)} \cup
                       (IF lastFail' = "SegmentDropped" THEN pending ELSE {}),
                       "nacked")
    /\ pending' = IF lastFail' = "SegmentDropped" THEN {} ELSE pending
    /\ batch' = Tail(batch)

\* An empty payload or a compression failure: refused above the segment.
RejectRecord ==
    /\ fpc = "write" /\ batch # << >> /\ Head(batch) \in Unwritable
    /\ NackFailedWrite("RecordRejected")
    /\ UNCHANGED <<dirVars, phase, inbox, fpc, promoted, active, sealing, cause,
                   nextCounter, respawns, chan, coord>>
    /\ NoFault

\* The record at the head of the batch is about to be written.
Writing == fpc = "write" /\ batch # << >> /\ Head(batch) \notin Unwritable

\* ensure_open: the counter moves before the file is created.
OpenSegment ==
    /\ Writing /\ active = 0 /\ nextCounter \in Seg
    /\ nextCounter' = nextCounter + 1
    /\ CreateFile(nextCounter)
    /\ active' = nextCounter
    /\ UNCHANGED <<quarantined, phase, status, inbox, fpc, batch, pending,
                   promoted, sealing, cause, lastFail, respawns, chan, coord>>
    /\ NoFault

OpenFails ==
    /\ Writing /\ active = 0 /\ nextCounter \in Seg /\ Fault
    /\ nextCounter' = nextCounter + 1
    /\ CreateFileFails(nextCounter)
    /\ NackFailedWrite("SegmentDropped")
    /\ UNCHANGED <<quarantined, phase, inbox, fpc, promoted, active, sealing,
                   cause, respawns, chan, coord>>

ShouldRotate(c) == Len(content[c]) + 1 >= SegmentMax

\* The write succeeds.  Unless the segment is full, a Durable record waits
\* for the group fsync and a Buffered one is acked at once; a full segment
\* is taken out of the writer to be sealed.
AppendRecord ==
    LET r == Head(batch)
        rotates == ShouldRotate(active)
    IN  /\ Writing /\ active # 0
        /\ content' = [content EXCEPT ![active] = Append(@, r)]
        /\ coord' = [coord EXCEPT ![r] = <<active, Len(content[active]) + 1>>]
        /\ IF rotates
             THEN /\ sealing' = active /\ active' = 0
                  /\ cause' = "rotation" /\ fpc' = "finalize"
                  /\ UNCHANGED <<status, pending, batch, lastFail>>
             ELSE /\ lastFail' = "none"
                  /\ batch' = Tail(batch)
                  /\ IF r \in DurableTier
                       THEN pending' = pending \cup {r} /\ UNCHANGED status
                       ELSE status' = Reply({r}, "acked") /\ UNCHANGED pending
                  /\ UNCHANGED <<sealing, active, cause, fpc>>
        /\ UNCHANGED <<name, nameD, side, sideD, synced, hole, footer,
                       quarantined, phase, inbox, promoted, nextCounter,
                       respawns, chan>>
        /\ NoFault

\* A failed or short write poisons the segment: it is dropped, unsealed.
AppendFails ==
    /\ Writing /\ active # 0 /\ Fault
    /\ active' = 0
    /\ NackFailedWrite("SegmentDropped")
    /\ UNCHANGED <<dirVars, phase, inbox, fpc, promoted, sealing, cause,
                   nextCounter, respawns, chan, coord>>

\* The end of flush_batch: one group fsync answers for every record still in
\* the active segment, and the records of segments sealed on the way are
\* acked whatever it returns.  With no active segment, fsync_current returns
\* Ok without doing anything.
GroupCommit ==
    /\ fpc = "write" /\ batch = << >>
    /\ synced' = IF pending # {} /\ active # 0
                   THEN [synced EXCEPT ![active] = SyncedAfterFsync(active)]
                   ELSE synced
    /\ status' = Reply(pending \cup promoted, "acked")
    /\ pending' = {} /\ promoted' = {} /\ fpc' = "idle"
    /\ UNCHANGED <<name, nameD, side, sideD, content, hole, footer, quarantined,
                   phase, inbox, batch, active, sealing, cause, nextCounter,
                   lastFail, respawns, chan, coord>>
    /\ NoFault

\* Mutant: the segment whose fsync failed stays active.
GroupCommitFailsKeepsSegment ==
    /\ fpc = "write" /\ batch = << >> /\ pending # {} /\ active # 0 /\ Fault
    /\ hole' = hole \cup {active}
    /\ status' = [r \in Records |-> IF r \in pending THEN "nacked"
                                    ELSE IF r \in promoted THEN "acked"
                                    ELSE status[r]]
    /\ pending' = {} /\ promoted' = {} /\ fpc' = "idle"
    /\ UNCHANGED <<name, nameD, side, sideD, content, synced, footer,
                   quarantined, phase, inbox, batch, active, sealing, cause,
                   nextCounter, lastFail, respawns, chan, coord>>

\* The group fsync fails: the waiting records are nacked and the segment is
\* retired, so that no later fsync of it can succeed over the hole.
GroupCommitFails ==
    /\ fpc = "write" /\ batch = << >> /\ pending # {} /\ active # 0 /\ Fault
    /\ hole' = hole \cup {active}
    /\ active' = 0
    /\ status' = [r \in Records |-> IF r \in pending THEN "nacked"
                                    ELSE IF r \in promoted THEN "acked"
                                    ELSE status[r]]
    /\ pending' = {} /\ promoted' = {} /\ fpc' = "idle"
    /\ UNCHANGED <<name, nameD, side, sideD, content, synced, footer,
                   quarantined, phase, inbox, batch, sealing, cause,
                   nextCounter, lastFail, respawns, chan, coord>>

(***************************************************************************)
(* Sealing, for whichever cause, and the hand-off to the drain.            *)
(***************************************************************************)
\* seal_before_size_threshold: the idle or the lifetime timer is due.
TimedSeal ==
    /\ fpc = "idle" /\ active # 0
    /\ sealing' = active /\ active' = 0 /\ cause' = "timed" /\ fpc' = "finalize"
    /\ UNCHANGED <<dirVars, phase, status, inbox, batch, pending, promoted,
                   nextCounter, lastFail, respawns, chan, coord>>
    /\ NoFault

\* The work channel is closed and empty.
InputClosed ==
    /\ fpc = "idle" /\ phase \in {"closing", "stopping"} /\ inbox = << >>
    /\ IF active # 0
         THEN /\ sealing' = active /\ active' = 0
              /\ cause' = "shutdown" /\ fpc' = "finalize"
         ELSE fpc' = "exited" /\ UNCHANGED <<sealing, active, cause>>
    /\ UNCHANGED <<dirVars, phase, status, inbox, batch, pending, promoted,
                   nextCounter, lastFail, respawns, chan, coord>>
    /\ NoFault

\* finalize_to_disk: sentinel, footer, fsync -- the durability commit point.
Finalize ==
    /\ fpc = "finalize"
    /\ synced' = [synced EXCEPT ![sealing] = SyncedAfterFsync(sealing)]
    /\ footer' = [footer EXCEPT ![sealing] = Len(content[sealing])]
    /\ fpc' = "rename"
    /\ UNCHANGED <<name, nameD, side, sideD, content, hole, quarantined, phase,
                   status, inbox, writerVars, respawns, chan, coord>>
    /\ NoFault

Rename ==
    /\ fpc = "rename"
    /\ RenameSealed(sealing)
    /\ fpc' = "dirsync"
    /\ UNCHANGED <<nameD, side, sideD, fileVars, quarantined, phase, status,
                   inbox, writerVars, respawns, chan, coord>>
    /\ NoFault

SyncRename ==
    /\ fpc = "dirsync"
    /\ name' = name /\ side' = side /\ FsyncDir
    /\ fpc' = "handoff"
    /\ UNCHANGED <<fileVars, quarantined, phase, status, inbox, writerVars,
                   respawns, chan, coord>>
    /\ NoFault

\* Where the flusher continues once a seal that was not a rotation is over.
AfterSeal == fpc' = IF cause = "shutdown" THEN "exited" ELSE "idle"

\* seal() returns Err at the fsync, the rename or the directory fsync.  The
\* segment has already been taken out of the writer.
SealFails ==
    /\ fpc \in {"finalize", "rename", "dirsync"} /\ Fault
    /\ \/ hole' = hole
       \/ fpc = "finalize" /\ hole' = hole \cup {sealing}
    /\ sealing' = 0
    /\ IF cause = "rotation"
         THEN NackFailedWrite("SegmentDropped") /\ fpc' = "write"
         ELSE AfterSeal /\ UNCHANGED <<lastFail, status, pending, batch>>
    /\ UNCHANGED <<name, nameD, side, sideD, content, synced, footer,
                   quarantined, phase, inbox, promoted, active, cause,
                   nextCounter, respawns, chan, coord>>

\* What flush_batch does once hand_off has returned for a rotation: the
\* records waiting for the sealed segment, and the one that filled it, are
\* durable.
PromoteAcks ==
    LET r == Head(batch)
    IN  /\ promoted' = promoted \cup pending \cup ({r} \cap DurableTier)
        /\ pending' = {}
        /\ status' = Reply({r} \ DurableTier, "acked")
        /\ batch' = Tail(batch)
        /\ lastFail' = "none"
        /\ fpc' = "write"

HandOffEnds ==
    /\ sealing' = 0
    /\ IF cause = "rotation"
         THEN PromoteAcks
         ELSE AfterSeal /\ UNCHANGED <<promoted, pending, status, batch, lastFail>>
    /\ UNCHANGED <<dirVars, phase, inbox, active, cause, nextCounter, respawns,
                   coord>>
    /\ NoFault

HandOff(drainGone) ==
    /\ fpc = "handoff" /\ ~drainGone /\ Len(chan) < ChannelCap
    /\ chan' = Append(chan, sealing)
    /\ HandOffEnds

\* Mutant: hand_off does not notice that the drain is gone.
NotHandedOffOnlyWhenFull(drainGone) ==
    /\ fpc = "handoff"
    /\ phase # "running" /\ Len(chan) >= ChannelCap
    /\ HandOffEnds
    /\ UNCHANGED chan

\* The channel stays full for the whole shutdown budget, or the drain's end
\* of it is gone: the segment stays sealed on disk for the next start.
NotHandedOff(drainGone) ==
    /\ fpc = "handoff"
    /\ drainGone \/ (phase # "running" /\ Len(chan) >= ChannelCap)
    /\ HandOffEnds
    /\ UNCHANGED chan

(***************************************************************************)
(* A panic anywhere in the flusher drops the writer and every unresolved   *)
(* ack sender of the flush; batches still in the channel survive.          *)
(***************************************************************************)
FlusherPanic ==
    /\ fpc \notin {"off", "exited", "offline"} /\ Fault
    /\ respawns' = respawns + 1
    /\ LET dropped == RangeOf(batch) \cup pending \cup promoted
           giveUp == respawns' > MaxRespawns
       IN  /\ fpc' = IF giveUp THEN "offline" ELSE "scan"
           /\ status' = Reply(dropped \cup (IF giveUp THEN RangeOf(inbox) ELSE {}),
                              "nacked")
           /\ inbox' = IF giveUp THEN << >> ELSE inbox
    /\ FreshWriter
    /\ UNCHANGED <<dirVars, phase, chan, coord>>

FlusherStep(drainGone) ==
    \/ \E r \in Records : Push(r)
    \/ ScanCounter \/ ScanFails
    \/ Receive \/ RejectRecord \/ OpenSegment \/ OpenFails
    \/ AppendRecord \/ AppendFails \/ GroupCommit \/ GroupCommitFails
    \/ TimedSeal \/ InputClosed \/ Finalize \/ Rename \/ SyncRename \/ SealFails
    \/ HandOff(drainGone) \/ NotHandedOff(drainGone)
    \/ FlusherPanic
=============================================================================
