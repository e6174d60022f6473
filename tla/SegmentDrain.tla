---------------------------- MODULE SegmentDrain ----------------------------
(***************************************************************************)
(* The drain thread as the shard directory sees it: it takes sealed        *)
(* segments from the channel and from its own queues, delivers them, and   *)
(* then confirms and deletes, quarantines or leaves them; its rescan finds *)
(* what no queue holds (drain/mod.rs, drain/confirmed.rs, the disposition  *)
(* part of drain/ledger.rs, scan_unconfirmed_sealed and delete_orphan in   *)
(* wab/mod.rs).                                                            *)
(*                                                                         *)
(* A delivery is one step here: some prefix of the segment's records is    *)
(* handled (committed to the sink, or written to dead_letter/) and the     *)
(* attempt ends in one of the results of process_segment.  pending and     *)
(* backlog are one queue.  Retry pacing, pause and dead-letter space do    *)
(* not touch the directory and are not part of this module.                *)
(***************************************************************************)
EXTENDS Flusher

CONSTANT MaxDrainRespawns   \* MAX_DRAIN_RESPAWNS

ASSUME DrainAssumption == MaxDrainRespawns \in Nat

VARIABLES
    todo,           \* the drain's in-memory queues (pending and backlog)
    dpc,            \* where the drain is
    dseg,           \* the segment in flight, 0 if none
    owned,          \* owned[c]: the disposition the ledger still owes c
    edge,           \* ~prev_health_ok: the next healthy probe rescans
    drainPanics,    \* the drain supervisor's attempt counter
    panicked,       \* segments the ledger has charged one drain panic to
    handled,        \* records the sink or the dead-letter directory has
    unproven        \* segments a scan replays because it cannot read the sidecar

drainVars == <<todo, dpc, dseg, owned, edge, drainPanics, panicked, handled,
               unproven>>
\* what the drain remembers of past trouble
panicVars == <<drainPanics, panicked, unproven>>

DrainTypeOK ==
    /\ todo \in Seq(Seg)
    /\ dpc \in {"off", "idle", "deliver", "sidecar", "sidesync", "delete",
                "exited"}
    /\ dseg \in {0} \cup Seg
    /\ owned \in [Seg -> {"none", "Sidecar", "Delete", "Quarantine", "Parked"}]
    /\ edge \in BOOLEAN
    /\ drainPanics \in Nat
    /\ panicked \subseteq Seg
    /\ handled \subseteq Records
    /\ unproven \subseteq Seg

DrainInit ==
    /\ todo = << >>
    /\ dpc = "off" /\ dseg = 0
    /\ owned = [c \in Seg |-> "none"]
    /\ edge = FALSE
    /\ drainPanics = 0
    /\ panicked = {}
    /\ handled = {}
    /\ unproven = {}

DrainGone == dpc = "exited"

\* The counters in S, each once, in ascending order.
Ascending(S) ==
    {q \in UNION {[1..n -> S] : n \in 0..MaxSegments} :
        /\ RangeOf(q) = S
        /\ \A i, j \in DOMAIN q : i < j => q[i] < q[j]}

FirstRecords(c, k) == {content[c][i] : i \in 1..k}

\* The segment in flight is done with; the head of the loop is next.
NextSegment == dpc' = "idle" /\ dseg' = 0

(***************************************************************************)
(* Admission: a path the ledger owns is dropped, whichever queue it came   *)
(* from.                                                                   *)
(***************************************************************************)
Admit(c) ==
    IF owned[c] = "none"
      THEN dpc' = "deliver" /\ dseg' = c
      ELSE UNCHANGED <<dpc, dseg>>

TakeFromChannel ==
    /\ dpc = "idle" /\ chan # << >>
    /\ Admit(Head(chan))
    /\ chan' = Tail(chan)
    /\ UNCHANGED <<dirVars, phase, status, inbox, fpc, writerVars, respawns,
                   coord, todo, owned, edge, panicVars, handled>>
    /\ NoFault

TakeFromQueue ==
    /\ dpc = "idle" /\ todo # << >>
    /\ Admit(Head(todo))
    /\ todo' = Tail(todo)
    /\ UNCHANGED <<dirVars, flusherVars, owned, edge, panicVars, handled>>
    /\ NoFault

(***************************************************************************)
(* One attempt at the segment in flight.                                   *)
(***************************************************************************)
\* The file is gone (a second copy of a path already dealt with): the
\* attempt confirms nothing, and confirm_and_delete finds nothing to do.
SegmentGone ==
    /\ dpc = "deliver" /\ name[dseg] # "sealed"
    /\ NextSegment
    /\ UNCHANGED <<dirVars, flusherVars, todo, owned, edge, panicVars, handled>>
    /\ NoFault

\* Every record is handled and the count agrees with the footer.
DeliverAll ==
    /\ dpc = "deliver" /\ name[dseg] = "sealed"
    /\ Len(content[dseg]) = footer[dseg]
    /\ handled' = handled \cup RangeOf(content[dseg])
    /\ dpc' = "sidecar"
    /\ UNCHANGED <<dirVars, flusherVars, todo, dseg, owned, edge, panicVars>>
    /\ NoFault

\* The retries are spent, on the sink (which arms the recovery edge) or on a
\* local error (which does not): the segment is left on disk.
Strand ==
    /\ dpc = "deliver" /\ name[dseg] = "sealed" /\ Fault
    /\ \E k \in 0..Len(content[dseg]) :
          handled' = handled \cup FirstRecords(dseg, k)
    /\ edge' \in {edge, TRUE}
    /\ NextSegment
    /\ UNCHANGED <<dirVars, flusherVars, todo, owned, panicVars>>

\* Not deliverable by this binary, or unreadable for want of permission: the
\* segment is set aside until the next start.
Park ==
    /\ dpc = "deliver" /\ name[dseg] = "sealed" /\ Fault
    /\ owned' = [owned EXCEPT ![dseg] = "Parked"]
    /\ NextSegment
    /\ UNCHANGED <<dirVars, flusherVars, todo, edge, panicVars, handled>>

\* recovery::quarantine: the file is renamed into quarantine/.
MoveToQuarantine(c) ==
    /\ name' = [name EXCEPT ![c] = "none"]
    /\ quarantined' = quarantined \cup {QuarantineCopy(c)}

\* The readable prefix is handled and the rest of the segment is not
\* readable: a count that disagrees with the footer, or (an injected fault)
\* corruption or a persistent media error.
Unreadable(k) ==
    IF Len(content[dseg]) # footer[dseg]
      THEN k = Len(content[dseg]) /\ NoFault
      ELSE Fault

QuarantineSegment ==
    /\ dpc = "deliver" /\ name[dseg] = "sealed"
    /\ \E k \in 0..Len(content[dseg]) :
          Unreadable(k) /\ handled' = handled \cup FirstRecords(dseg, k)
    /\ MoveToQuarantine(dseg)
    /\ NextSegment
    /\ UNCHANGED <<nameD, side, sideD, fileVars, flusherVars, todo, owned, edge,
                   panicVars>>

\* Mutant: the ledger records an owed quarantine as an owed delete.
QuarantineMoveFailsOwesDelete ==
    /\ dpc = "deliver" /\ name[dseg] = "sealed" /\ Fault
    /\ \E k \in 0..Len(content[dseg]) :
          handled' = handled \cup FirstRecords(dseg, k)
    /\ owned' = [owned EXCEPT ![dseg] = "Delete"]
    /\ NextSegment
    /\ UNCHANGED <<dirVars, flusherVars, todo, edge, panicVars>>

\* ... and the move fails: the ledger owes it, and nothing else.
QuarantineMoveFails ==
    /\ dpc = "deliver" /\ name[dseg] = "sealed" /\ Fault
    /\ \E k \in 0..Len(content[dseg]) :
          handled' = handled \cup FirstRecords(dseg, k)
    /\ owned' = [owned EXCEPT ![dseg] = "Quarantine"]
    /\ NextSegment
    /\ UNCHANGED <<dirVars, flusherVars, todo, edge, panicVars>>

(***************************************************************************)
(* confirm_and_delete.                                                     *)
(***************************************************************************)
\* The sidecar is complete and fsynced under its temporary name, and renamed.
WriteSidecar ==
    /\ dpc = "sidecar"
    /\ IF name[dseg] = "none"
         THEN /\ NextSegment /\ owned' = [owned EXCEPT ![dseg] = "none"]
              /\ UNCHANGED side
         ELSE /\ side' = side \cup {dseg} /\ dpc' = "sidesync"
              /\ UNCHANGED <<dseg, owned>>
    /\ UNCHANGED <<name, nameD, sideD, fileVars, quarantined, flusherVars, todo,
                   edge, panicVars, handled>>
    /\ NoFault

\* The directory fsync that makes the sidecar durable before the delete.
SyncSidecar ==
    /\ dpc = "sidesync"
    /\ name' = name /\ side' = side /\ FsyncDir
    /\ dpc' = "delete"
    /\ UNCHANGED <<fileVars, quarantined, flusherVars, todo, dseg, owned, edge,
                   panicVars, handled>>
    /\ NoFault

\* SidecarFailed, before the rename or at the directory fsync.
SidecarFails ==
    /\ dpc \in {"sidecar", "sidesync"} /\ Fault
    /\ owned' = [owned EXCEPT ![dseg] = "Sidecar"]
    /\ NextSegment
    /\ UNCHANGED <<dirVars, flusherVars, todo, edge, panicVars, handled>>

\* Mutant: the sidecar is removed together with its segment.
DeleteSegmentAndSidecar ==
    /\ dpc = "delete"
    /\ name' = [name EXCEPT ![dseg] = "none"]
    /\ side' = side \ {dseg}
    /\ owned' = [owned EXCEPT ![dseg] = "none"]
    /\ NextSegment
    /\ UNCHANGED <<nameD, sideD, fileVars, quarantined, flusherVars, todo,
                   edge, panicVars, handled>>
    /\ NoFault

DeleteSegment ==
    /\ dpc = "delete"
    /\ name' = [name EXCEPT ![dseg] = "none"]
    /\ owned' = [owned EXCEPT ![dseg] = "none"]
    /\ NextSegment
    /\ UNCHANGED <<nameD, side, sideD, fileVars, quarantined, flusherVars, todo,
                   edge, panicVars, handled>>
    /\ NoFault

DeleteFails ==
    /\ dpc = "delete" /\ Fault
    /\ owned' = [owned EXCEPT ![dseg] = "Delete"]
    /\ NextSegment
    /\ UNCHANGED <<dirVars, flusherVars, todo, edge, panicVars, handled>>

(***************************************************************************)
(* The health poll: outstanding dispositions, then the rescan.             *)
(***************************************************************************)
\* From T0 on the drain absorbs: no probe, no rescan, no disposition retry.
Absorbing == phase # "running"

\* retry_dispositions: redo the owed step of c, never the delivery.
RetryDisposition(c) ==
    /\ ~Absorbing /\ dpc = "idle" /\ owned[c] \notin {"none", "Parked"}
    /\ CASE owned[c] = "Sidecar" ->
              dpc' = "sidecar" /\ dseg' = c /\ UNCHANGED <<name, quarantined, owned>>
         [] owned[c] = "Delete" ->
              dpc' = "delete" /\ dseg' = c /\ UNCHANGED <<name, quarantined, owned>>
         [] owned[c] = "Quarantine" ->
              /\ MoveToQuarantine(c)
              /\ owned' = [owned EXCEPT ![c] = "none"]
              /\ UNCHANGED <<dpc, dseg>>
    /\ UNCHANGED <<nameD, side, sideD, fileVars, flusherVars, todo, edge,
                   panicVars, handled>>
    /\ NoFault

\* The sealed segments of the directory, in S, that have no sidecar ...
Unconfirmed(S) == {c \in S : name[c] = "sealed" /\ c \notin side}
\* ... and those that have one: delivered, only the delete is missing.
Orphans(S) == {c \in S : name[c] = "sealed" /\ c \in side}

\* delete_orphan: the sidecar is made durable before the segment goes.  The
\* segments in corrupt go to quarantine/ with their sidecars, which prove
\* nothing in either view.
DeleteOrphans(orphans, corrupt) ==
    /\ name' = [c \in Seg |-> IF c \in orphans \cup corrupt THEN "none" ELSE name[c]]
    /\ side' = side \ corrupt
    /\ nameD' = IF orphans = {} THEN nameD ELSE name
    /\ sideD' = (IF orphans = {} THEN sideD ELSE side) \ corrupt
    /\ quarantined' = quarantined \cup {QuarantineCopy(c) : c \in corrupt}

\* Mutant: the scan does not look for sidecars.
ScanSealedBlind(S, found) ==
    /\ found = {c \in S : name[c] = "sealed"}
    /\ DeleteOrphans({}, {})
    /\ UNCHANGED unproven /\ NoFault

\* scan_unconfirmed_sealed over the segments in S: found is to be delivered,
\* orphans are deleted.  Three faults: an orphan's sidecar cannot be read
\* (it is delivered again: its delivery is unproven), is not valid (both
\* files are quarantined), or the orphan cannot be deleted.
ScanSealed(S, found) ==
    \/ /\ found = Unconfirmed(S) /\ DeleteOrphans(Orphans(S), {})
       /\ UNCHANGED unproven /\ NoFault
    \/ \E c \in Orphans(S) :
         /\ Fault
         /\ \/ /\ found = Unconfirmed(S) \cup {c}
               /\ DeleteOrphans(Orphans(S) \ {c}, {})
               /\ unproven' = unproven \cup {c}
            \/ /\ found = Unconfirmed(S)
               /\ \/ DeleteOrphans(Orphans(S) \ {c}, {c})
                  \/ DeleteOrphans(Orphans(S) \ {c}, {})
               /\ UNCHANGED unproven

\* requeue_unconfirmed moves the channel into the queue and appends whatever
\* sealed segment the queue, the ledger and the drain's hands do not have.
\* It also runs while a segment in flight waits for its next attempt.
Requeue ==
    LET queued == todo \o chan
    IN  /\ dpc \in {"idle", "deliver"} /\ ~Absorbing
        /\ \E found \in SUBSET Seg :
             /\ ScanSealed({c \in Seg : owned[c] = "none"}, found)
             /\ \E q \in Ascending(found \ (RangeOf(queued) \cup {dseg})) :
                   todo' = queued \o q
        /\ chan' = << >>
        /\ UNCHANGED <<fileVars, phase, status, inbox, fpc, writerVars, respawns,
                       coord, dpc, dseg, owned, drainPanics, panicked, handled>>

\* Mutant: only a recovery edge triggers the rescan.
RescanOnEdgeOnly == edge /\ Requeue /\ edge' = FALSE

\* A healthy probe rescans on a recovery edge, or with nothing queued.
Rescan == (edge \/ todo = << >>) /\ Requeue /\ edge' = FALSE

\* An operator's retry-stranded ticket rescans whatever the probe says.
OperatorRescan == Requeue /\ UNCHANGED edge

\* The scan fails, or a shard directory cannot be listed: the channel has
\* been moved into the queue, and the edge stays armed if it was.
RescanFails ==
    /\ dpc \in {"idle", "deliver"} /\ ~Absorbing /\ Fault
    /\ todo' = todo \o chan
    /\ chan' = << >>
    /\ UNCHANGED <<dirVars, phase, status, inbox, fpc, writerVars, respawns,
                   coord, dpc, dseg, owned, edge, panicVars, handled>>

\* A probe that finds the sink down arms the recovery edge.
ProbeDown ==
    /\ dpc \in {"idle", "deliver"} /\ ~Absorbing /\ ~edge /\ Fault
    /\ edge' = TRUE
    /\ UNCHANGED <<dirVars, flusherVars, todo, dpc, dseg, owned, panicVars, handled>>

(***************************************************************************)
(* Panics and the end of the drain.                                        *)
(***************************************************************************)
\* How many records of the segment in flight an attempt may have reached when
\* it is cut off: none of a file that is gone.
InReach == IF dpc = "deliver" /\ name[dseg] = "sealed" THEN Len(content[dseg]) ELSE 0

\* The queues die with the incarnation; the ledger is the supervisor's and
\* survives, and the next incarnation starts with the recovery edge armed.
\* A segment in flight for its second panic is parked.
DrainPanic ==
    /\ dpc \notin {"off", "exited"} /\ Fault
    /\ drainPanics' = drainPanics + 1
    /\ dpc' = IF drainPanics' >= MaxDrainRespawns \/ phase = "stopping"
                THEN "exited" ELSE "idle"
    /\ dseg' = 0 /\ todo' = << >> /\ edge' = TRUE
    /\ IF dpc = "deliver" /\ phase # "stopping"
         THEN /\ panicked' = panicked \cup {dseg}
              /\ owned' = [owned EXCEPT ![dseg] =
                             IF dseg \in panicked THEN "Parked" ELSE @]
              /\ \E k \in 0..InReach : handled' = handled \cup FirstRecords(dseg, k)
         ELSE UNCHANGED <<panicked, owned, handled>>
    /\ UNCHANGED <<dirVars, flusherVars, unproven>>

\* stop: the deadline passes at any time (abandoning the segment in flight
\* between two batches), or everything is delivered once the flusher is gone.
\* The way out retries every outstanding disposition once more: done are the
\* ones that now succeed, half the ones that get no further than the sidecar.
DrainStops ==
    /\ phase = "stopping" /\ dpc \in {"idle", "deliver"}
    /\ \E k \in 0..InReach : handled' = handled \cup FirstRecords(dseg, k)
    /\ \E done \in SUBSET {c \in Seg : owned[c] \notin {"none", "Parked"}} :
         \E half \in SUBSET {c \in Seg : owned[c] = "Sidecar" /\ name[c] # "none"} :
         LET confirms == half \cup {c \in done : owned[c] = "Sidecar" /\ name[c] # "none"}
             moves == {c \in done : owned[c] = "Quarantine"}
         IN  /\ owned' = [c \in Seg |-> IF c \in done THEN "none" ELSE owned[c]]
             /\ side' = side \cup confirms
             /\ IF confirms # {} THEN sideD' = side' /\ nameD' = name
                                 ELSE UNCHANGED <<sideD, nameD>>
             /\ name' = [c \in Seg |-> IF c \in done THEN "none" ELSE name[c]]
             /\ quarantined' = quarantined \cup {QuarantineCopy(c) : c \in moves}
    /\ dpc' = "exited" /\ dseg' = 0 /\ todo' = << >>
    /\ UNCHANGED <<fileVars, flusherVars, edge, panicVars>>
    /\ NoFault

DrainStep ==
    \/ TakeFromChannel \/ TakeFromQueue
    \/ SegmentGone \/ DeliverAll \/ Strand \/ Park
    \/ QuarantineSegment \/ QuarantineMoveFails
    \/ WriteSidecar \/ SyncSidecar \/ SidecarFails \/ DeleteSegment \/ DeleteFails
    \/ \E c \in Seg : RetryDisposition(c)
    \/ Rescan \/ OperatorRescan \/ RescanFails \/ ProbeDown \/ DrainPanic \/ DrainStops
=============================================================================
