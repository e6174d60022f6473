------------------------------ MODULE Delivery ------------------------------
(***************************************************************************)
(* The drain's state machine (drain/mod.rs): which segment is taken, one   *)
(* attempt at it in sub-batches, retries, strands, the dead-letter block,  *)
(* pause and hold, operator tickets, the health poll, the panic supervisor *)
(* and the stop -- for one run of the daemon, between a sink that may      *)
(* reject, fail, time out or answer wrongly, an operator, and main.        *)
(*                                                                         *)
(* SegmentDrain has an attempt as one step and the confirm in several;     *)
(* here it is the other way round.                                         *)
(*                                                                         *)
(* Time is abstract: the poll interval, a backoff or a block's check       *)
(* interval, a cool-down and the deadline each end in a step of their own. *)
(* A ticket may therefore not cut a backoff short: it could end anyway.    *)
(***************************************************************************)
EXTENDS DrainControl, SegmentLedger

CONSTANTS
    Replay,             \* the segments the startup replay found
    ChannelCap,         \* DRAIN_CHANNEL_CAPACITY
    MaxRetries,         \* sink_max_retries
    MaxDrainRespawns,   \* max_respawns
    MaxFaults           \* bound on injected failures

ASSUME DeliveryAssumption ==
    /\ Replay \subseteq Segs
    /\ ChannelCap \in Nat \ {0} /\ MaxRetries \in Nat
    /\ MaxDrainRespawns \in Nat \ {0} /\ MaxFaults \in Nat

VARIABLES
    unsent,         \* sealed segments the flusher has not handed off yet
    chan,           \* the drain channel
    pending,        \* live segments taken off the channel
    backlog,        \* the replay list and what rescans found
    backlogTurn,    \* next_queued's alternation
    arm,            \* where the drain is
    seg,            \* the segment in hand, 0 if none
    through,        \* processed / durable_through of the segment in hand
    readable,       \* the records of it this attempt can read
    retries,        \* retries_left; MaxRetries + 1 marks a first attempt
    cause,          \* why the last attempt failed: "sink" or "local"
    needed,         \* what a blocked dead-letter write needs
    prevOk,         \* prev_health_ok
    pollDue,        \* health_poll_interval has passed
    waitOver,       \* the backoff, or the block's check interval, has passed
    pausedSince,    \* the incarnation's paused_since is set
    boardPaused,    \* the board and weir_drain_paused say "paused"
    attempts,       \* the supervisor's panic count
    exitReason,     \* DrainExit::reason
    applied,        \* ghost: records the sink has
    dead,           \* ghost: records dead_letter/ has had
    ambiguous,      \* ghost: records whose handling the drain cannot know of
    twice,          \* ghost: records handled again
    faults          \* injected failures so far

outsideVars == <<controlVars, unsent>>
queueVars == <<chan, pending, backlog, backlogTurn>>
handVars == <<seg, through, readable, retries, cause, needed>>
timerVars == <<pollDue, waitOver>>
boardVars == <<pausedSince, boardPaused>>
exitVars == <<attempts, exitReason>>
ghostVars == <<applied, dead, ambiguous, twice>>

vars == <<controlVars, unsent, file, ledgerVars, dlVars, queueVars, arm, handVars,
          prevOk, timerVars, boardVars, exitVars, ghostVars, faults>>

Attempting == arm \in {"begin", "open", "read", "commit"}

TypeOK ==
    /\ ControlTypeOK /\ LedgerTypeOK
    /\ unsent \subseteq Segs
    /\ chan \in Seq(Segs) /\ pending \in Seq(Segs) /\ backlog \in Seq(Segs)
    /\ backlogTurn \in BOOLEAN
    /\ arm \in {"head", "poll", "pick", "take", "idle", "begin", "open", "read",
                "commit", "retry", "backoff", "blocked", "held", "respawning", "exited"}
    /\ seg \in {0} \cup Segs
    /\ through \in Positions /\ readable \in Positions
    /\ retries \in 0..(MaxRetries + 1)
    /\ cause \in {"sink", "local"}
    /\ needed \in Nat
    /\ {prevOk, pollDue, waitOver, pausedSince, boardPaused} \subseteq BOOLEAN
    /\ attempts \in Nat
    /\ exitReason \in {"none", "Stopped", "DeadlineAbandoned", "GaveUp"}
    /\ {applied, dead, ambiguous, twice} \subseteq SUBSET AllRecs
    /\ faults \in Nat

\* The segments in S, each once, oldest first.
Ascending(S) ==
    CHOOSE q \in [1..Cardinality(S) -> S] :
        \A i, j \in DOMAIN q : i < j => q[i] < q[j]

RangeOf(s) == {s[i] : i \in DOMAIN s}

Init ==
    /\ ControlInit
    /\ LedgerInit(Replay)
    /\ unsent = {} /\ chan = << >> /\ pending = << >>
    /\ backlog = Ascending(Replay) /\ backlogTurn = FALSE
    /\ arm = "head" /\ seg = 0 /\ through = 0 /\ readable = SegLen
    /\ retries = 0 /\ cause = "sink" /\ needed = 0
    /\ prevOk = TRUE /\ pollDue = FALSE /\ waitOver = FALSE
    /\ pausedSince = FALSE /\ boardPaused = FALSE
    /\ attempts = 0 /\ exitReason = "none"
    /\ applied = {} /\ dead = {} /\ ambiguous = {} /\ twice = {}
    /\ faults = 0

\* One injected failure: an I/O error, a failed probe, a sink error, a panic.
Fault == faults < MaxFaults /\ faults' = faults + 1
NoFault == UNCHANGED faults
FaultIf(b) == IF b THEN Fault ELSE NoFault

GaveUp == exitReason = "GaveUp"
Handled == applied \cup dead

(***************************************************************************)
(* The flushers, the operator and main.                                    *)
(***************************************************************************)
EnvironmentFrame ==
    /\ UNCHANGED <<ledgerVars, pending, backlog, backlogTurn, arm, handVars,
                   prevOk, timerVars, boardVars, exitVars, ghostVars>>
    /\ NoFault

\* The flusher seals c, oldest first.  The rescan can see it from here on.
Seal(c) ==
    /\ ~closed /\ file[c] = "absent" /\ unsent = {}
    /\ \A d \in Segs : d < c => file[d] # "absent"
    /\ file' = [file EXCEPT ![c] = "sealed"] /\ unsent' = {c}
    /\ UNCHANGED <<controlVars, dlVars, chan>>
    /\ EnvironmentFrame

\* It hands c off; or c stays on disk, the drain being gone or the hand-off's
\* shutdown budget spent.
HandOff(c) ==
    /\ c \in unsent /\ unsent' = {}
    /\ \/ arm # "exited" /\ Len(chan) < ChannelCap /\ chan' = Append(chan, c)
       \/ (arm = "exited" \/ absorb) /\ UNCHANGED chan
    /\ UNCHANGED <<controlVars, file, dlVars>>
    /\ EnvironmentFrame

\* weir-ctl dl drop, or rm of its files: dead_letter/ is emptied and the writer
\* not told.  (A deleted directory would also reset what the writer knows.)
FreeDeadLetter ==
    /\ dlReal > 0
    /\ dlReal' = 0
    /\ UNCHANGED <<controlVars, unsent, file, dlKnown, chan>>
    /\ EnvironmentFrame

\* T2 comes after the flushers are joined.
Control ==
    /\ ControlStep(GaveUp)
    /\ closed' # closed => unsent = {}
    /\ UNCHANGED <<unsent, file, dlVars, chan>>
    /\ EnvironmentFrame

(***************************************************************************)
(* Timers.                                                                 *)
(***************************************************************************)
TimerFrame ==
    /\ UNCHANGED <<controlVars, unsent, file, dlVars, queueVars, arm, handVars, prevOk,
                   boardVars, exitVars, ghostVars>>
    /\ NoFault

PollTimer ==
    /\ ~pollDue /\ pollDue' = TRUE
    /\ UNCHANGED <<ledgerVars, waitOver>> /\ TimerFrame

WaitTimer ==
    /\ arm \in {"backoff", "blocked"} /\ ~waitOver /\ waitOver' = TRUE
    /\ UNCHANGED <<ledgerVars, pollDue>> /\ TimerFrame

CoolDownEnds(c) ==
    /\ c \in cool /\ cool' = cool \ {c}
    /\ UNCHANGED <<cursor, carry, owned, panics, readFails, timerVars>>
    /\ TimerFrame

(***************************************************************************)
(* Leaving an attempt, the queues, the ledger.                             *)
(***************************************************************************)
\* No segment in hand.
EmptyHand ==
    /\ seg' = 0 /\ through' = 0 /\ readable' = SegLen
    /\ retries' = 0 /\ cause' = "sink" /\ needed' = 0

ToHead == arm' = "head" /\ EmptyHand

\* The other loop and supervisor state.
LoopFrame == UNCHANGED <<prevOk, timerVars, boardVars, exitVars>>

Owed == {c \in Segs : owned[c] \in {"Confirm", "Quarantine"}}

\* retry_dispositions: what is owed is done, but for the segments in keep.
RetryDispositions(keep) ==
    /\ file' = [c \in Segs |->
                  IF c \in Owed \ keep
                    THEN IF owned[c] = "Confirm" THEN "gone" ELSE "quarantine"
                    ELSE file[c]]
    /\ owned' = [c \in Segs |-> IF c \in Owed \ keep THEN "none" ELSE owned[c]]

\* The drain thread returns, after one last try at what the ledger owes.
Exit(reason) ==
    /\ arm' = "exited" /\ exitReason' = reason /\ EmptyHand
    /\ \E keep \in SUBSET Owed : RetryDispositions(keep) /\ FaultIf(keep # {})
    /\ UNCHANGED <<carry, cool, panics, readFails, queueVars, prevOk, timerVars,
                   attempts>>

\* The same, by an arm that recorded nothing.
ExitPlain(reason) ==
    /\ Exit(reason)
    /\ UNCHANGED <<outsideVars, cursor, dlVars, boardVars, ghostVars>>

NothingLeft == pending = << >> /\ backlog = << >> /\ chan = << >>

\* wait_slice: everything in the channel while absorbing, else one segment.
WaitSlice ==
    /\ IF absorb THEN pending' = pending \o chan /\ chan' = << >>
                 ELSE pending' = Append(pending, Head(chan)) /\ chan' = Tail(chan)
    /\ UNCHANGED <<backlog, backlogTurn>>

\* What a scan of the directory f adds, hand being the segment in hand.
Fresh(f, hand) ==
    {c \in Segs : f[c] = "sealed" /\ ~Excludes(c)}
        \ (RangeOf(pending) \cup RangeOf(chan) \cup RangeOf(backlog) \cup {hand})

\* requeue_unconfirmed, the scan having reported the segments in found.
Requeue(found) ==
    /\ pending' = pending \o chan /\ chan' = << >>
    /\ backlog' = backlog \o Ascending(found)
    /\ UNCHANGED backlogTurn

\* Mutant: only a recovery edge rescans, an idle drain does not.
ProbeEdgeOnly(f, hand, down, bad) ==
    IF down \/ prevOk
      THEN prevOk' = ~down /\ UNCHANGED queueVars
      ELSE \E found \in SUBSET Fresh(f, hand) :
              /\ found = Fresh(f, hand) \/ bad
              /\ Requeue(found) /\ prevOk' = (prevOk \/ ~bad)

\* probe_and_resume_stranded_with: a recovery edge, or empty queues, rescan.  A
\* scan that failed or was incomplete keeps the edge.
Probe(f, hand, down, bad) ==
    IF down \/ (prevOk /\ ~(pending = << >> /\ backlog = << >>))
      THEN prevOk' = ~down /\ UNCHANGED queueVars
      ELSE \E found \in SUBSET Fresh(f, hand) :
              /\ found = Fresh(f, hand) \/ bad
              /\ Requeue(found) /\ prevOk' = (prevOk \/ ~bad)

Unpaused == pausedSince' = FALSE /\ boardPaused' = (boardPaused /\ ~pausedSince)
Paused == pausedSince' = TRUE /\ boardPaused' = TRUE

(***************************************************************************)
(* Draining: stop, poll, ticket, pause, next segment.                      *)
(***************************************************************************)
\* stop_exit.
HeadStops ==
    /\ arm = "head" /\ StopRequested
    /\ \/ DeadlinePassed /\ ExitPlain(IF NothingLeft THEN "Stopped" ELSE "DeadlineAbandoned")
       \/ ~DeadlinePassed /\ closed /\ NothingLeft /\ ExitPlain("Stopped")

PollPending == pollDue /\ ~absorb

HeadGoesOn ==
    /\ arm = "head"
    /\ ~(StopRequested /\ (DeadlinePassed \/ (closed /\ NothingLeft)))
    /\ arm' = IF PollPending THEN "poll" ELSE "pick"
    /\ UNCHANGED <<outsideVars, file, ledgerVars, dlVars, queueVars, handVars, ghostVars>>
    /\ LoopFrame /\ NoFault

\* The health poll: owed dispositions, probe and rescan, dead-letter rescan.
Poll ==
    /\ arm = "poll"
    /\ \E keep \in SUBSET Owed, down, bad, stale \in BOOLEAN :
          /\ FaultIf(keep # {} \/ down \/ bad \/ stale)
          /\ RetryDispositions(keep)
          /\ Probe(file', 0, down, bad)
          /\ IF stale THEN UNCHANGED dlVars ELSE DeadLetterRescan
    /\ pollDue' = FALSE /\ arm' = "pick"
    /\ UNCHANGED <<outsideVars, cursor, carry, cool, panics, readFails, handVars, waitOver,
                   boardVars, exitVars, ghostVars>>

\* RequeueService::service: a rescan, skipped while absorbing or so soon after
\* the last one that it is answered from it.
ServeTicket ==
    /\ ticket
    /\ \/ arm = "pick"
       \/ arm = "backoff" /\ ~(DeadlinePassed /\ ~pause)
       \/ arm \in {"blocked", "held"} /\ ~StopRequested
    /\ ticket' = FALSE
    /\ \/ absorb /\ UNCHANGED queueVars /\ NoFault
       \/ tickets > 1 /\ UNCHANGED queueVars /\ NoFault
       \/ /\ ~absorb
          /\ \E found \in SUBSET Fresh(file, seg) :
                Requeue(found) /\ FaultIf(found # Fresh(file, seg))
    /\ UNCHANGED <<absorb, closed, stop, pause, pauses, tickets, unsent, file, ledgerVars,
                   dlVars, arm, handVars, ghostVars>>
    /\ LoopFrame

PickFrame ==
    /\ arm = "pick" /\ ~ticket
    /\ UNCHANGED <<outsideVars, file, ledgerVars, dlVars, ghostVars, prevOk, timerVars>>

PickPaused ==
    /\ PickFrame /\ pause
    /\ ~StopRequested /\ Paused /\ arm' = "head"
    /\ \/ chan = << >> /\ UNCHANGED queueVars
       \/ chan # << >> /\ WaitSlice
    /\ UNCHANGED <<handVars, exitVars>> /\ NoFault

PickStops ==
    /\ arm = "pick" /\ ~ticket /\ pause /\ StopRequested
    /\ ExitPlain("Stopped")

PickGoesOn ==
    /\ PickFrame /\ ~pause
    /\ Unpaused /\ arm' = "take"
    /\ UNCHANGED <<queueVars, handVars, exitVars>> /\ NoFault

\* An admitted segment is attempted, past its cursor.
Admit(c) ==
    /\ arm' = "begin" /\ seg' = c /\ through' = cursor[c]
    /\ retries' = MaxRetries + 1
    /\ UNCHANGED <<readable, cause, needed>>

TakeFrame ==
    /\ UNCHANGED <<outsideVars, file, ledgerVars, dlVars, ghostVars>>
    /\ LoopFrame /\ NoFault

\* next_queued: live segments and the backlog in turn.
Take ==
    /\ arm = "take" /\ ~NothingLeft
    /\ LET live == pending \o chan
           fromBacklog == backlog # << >> /\ (backlogTurn \/ live = << >>)
           c == IF fromBacklog THEN Head(backlog) ELSE Head(live)
       IN  /\ IF fromBacklog
                THEN backlog' = Tail(backlog) /\ UNCHANGED <<pending, chan>>
                ELSE IF pending # << >>
                  THEN pending' = Tail(pending) /\ UNCHANGED <<backlog, chan>>
                  ELSE chan' = Tail(chan) /\ UNCHANGED <<backlog, pending>>
           /\ backlogTurn' = ~fromBacklog
           /\ IF Admits(c) THEN Admit(c) ELSE UNCHANGED <<arm, handVars>>
    /\ TakeFrame

TakeNothing ==
    /\ arm = "take" /\ NothingLeft /\ arm' = "idle"
    /\ UNCHANGED <<queueVars, handVars>> /\ TakeFrame

\* The wait for input: a segment that arrives is admitted at once.
IdleReceives ==
    /\ arm = "idle" /\ chan # << >>
    /\ chan' = Tail(chan) /\ UNCHANGED <<pending, backlog, backlogTurn>>
    /\ IF Admits(Head(chan)) THEN Admit(Head(chan)) ELSE ToHead
    /\ TakeFrame

IdleEnds ==
    /\ arm = "idle" /\ arm' = "head"
    /\ IF absorb /\ chan # << >> THEN WaitSlice ELSE UNCHANGED queueVars
    /\ UNCHANGED handVars /\ TakeFrame

(***************************************************************************)
(* What an attempt's result does (next_state_after_process).               *)
(***************************************************************************)
\* The segment leaves the drain, owed or not.
Leaves(why) == ForgetAnd(seg, why) /\ ToHead

Quarantine ==
    \/ Leaves("none") /\ file' = [file EXCEPT ![seg] = "quarantine"] /\ NoFault
    \/ Leaves("Quarantine") /\ UNCHANGED file /\ Fault

\* The second failure of one step.
QuarantineAfterFault ==
    \/ Leaves("none") /\ file' = [file EXCEPT ![seg] = "quarantine"] /\ Fault
    \/ Leaves("Quarantine") /\ UNCHANGED file
       /\ faults + 1 < MaxFaults /\ faults' = faults + 2

\* ProcessResult::Transient: progress is kept, a retry is used up.
Transient(why) ==
    /\ RecordProgress(seg, through)
    /\ arm' = "retry" /\ cause' = why /\ retries' = retries - 1
    /\ readable' = SegLen
    /\ UNCHANGED <<file, cool, owned, panics, seg, through, needed>>

\* ProcessResult::BlockedDeadLetter.
Blocked(n) ==
    /\ RecordProgress(seg, through)
    /\ arm' = "blocked" /\ needed' = n
    /\ readable' = SegLen /\ retries' = 0 /\ cause' = "sink" /\ waitOver' = FALSE
    /\ UNCHANGED <<file, cool, owned, panics, readFails, seg, through>>

\* store_dl_carry.  What a carry that is not stored covers is committed again.
StoreCarry(k, ambiguousNow) ==
    /\ carry' = [carry EXCEPT ![seg] = Stored(seg, k)]
    /\ ambiguous' = ambiguousNow \cup
                      IF CarryFits(seg, k) THEN {}
                      ELSE Slice(seg, through, k.through) \cap (applied' \cup dead')

(***************************************************************************)
(* The dead-letter carry of an earlier attempt (settle_dl_carry).          *)
(***************************************************************************)
Debt == carry[seg].rejects

BeginFrame ==
    /\ arm = "begin"
    /\ UNCHANGED <<outsideVars, queueVars, prevOk, pollDue, boardVars, exitVars, applied>>

BeginPlain ==
    /\ BeginFrame /\ carry[seg] = NoCarry
    /\ arm' = "open"
    /\ UNCHANGED <<file, ledgerVars, dlVars, handVars, waitOver, dead, ambiguous, twice>>
    /\ NoFault

\* Mutant: the sub-batch is resumed past before its dead-letter write.
SettleBlockedResumes ==
    /\ BeginFrame /\ carry[seg] # NoCarry /\ ~MayWrite(Cardinality(Debt))
    /\ arm' = "open" /\ through' = carry[seg].through
    /\ carry' = [carry EXCEPT ![seg] = NoCarry]
    /\ UNCHANGED <<file, cursor, cool, owned, panics, readFails, dlVars, seg, readable,
                   retries, cause, needed, waitOver, dead, ambiguous, twice>>
    /\ NoFault

SettleWritten ==
    /\ BeginFrame /\ carry[seg] # NoCarry /\ MayWrite(Cardinality(Debt))
    /\ DeadLetterWrite(Cardinality(Debt))
    /\ dead' = dead \cup Debt /\ twice' = twice \cup (Debt \cap Handled)
    /\ arm' = "open"
    /\ through' = IF carry[seg].through > through THEN carry[seg].through ELSE through
    /\ carry' = [carry EXCEPT ![seg] = NoCarry]
    /\ UNCHANGED <<file, cursor, cool, owned, panics, readFails, seg, readable, retries,
                   cause, needed, waitOver, ambiguous>>
    /\ NoFault

SettleBlocked ==
    /\ BeginFrame /\ carry[seg] # NoCarry /\ ~MayWrite(Cardinality(Debt))
    /\ Blocked(Cardinality(Debt))
    /\ UNCHANGED <<carry, dlVars, dead, ambiguous, twice>> /\ NoFault

SettleFails ==
    /\ BeginFrame /\ carry[seg] # NoCarry /\ MayWrite(Cardinality(Debt))
    /\ Transient("local")
    /\ DeadLetterLeaves(Cardinality(Debt))
    /\ LET left == IF dlReal' = dlReal THEN {} ELSE Debt
       IN  /\ dead' = dead \cup left /\ ambiguous' = ambiguous \cup left
           /\ twice' = twice \cup (left \cap Handled)
    /\ UNCHANGED <<carry, readFails, waitOver>> /\ Fault

(***************************************************************************)
(* Reading (process_segment_ctl).                                          *)
(***************************************************************************)
ReadFrame ==
    /\ UNCHANGED <<outsideVars, dlVars, queueVars, ghostVars>>
    /\ LoopFrame

\* An earlier copy of the path was delivered and deleted.
OpenGone ==
    /\ arm = "open" /\ file[seg] # "sealed"
    /\ Leaves("none") /\ UNCHANGED file
    /\ ReadFrame /\ NoFault

OpenOk ==
    /\ arm = "open" /\ file[seg] = "sealed"
    /\ arm' = "read"
    /\ UNCHANGED <<file, ledgerVars, handVars>>
    /\ ReadFrame /\ NoFault

\* A newer format is parked, a corrupt header quarantined.
OpenRejected ==
    /\ arm = "open" /\ file[seg] = "sealed"
    /\ \/ Leaves("Parked") /\ UNCHANGED file /\ Fault
       \/ QuarantineAfterFault
    /\ ReadFrame

\* local_read_limit.
LocalReadLimit == (MaxRetries + 1) * StrandLimit

EscalatesNext == readFails[seg] + 1 >= LocalReadLimit

\* A read error that belongs to the process (EMFILE) is never counted.
ReadFailsProcess ==
    /\ arm \in {"open", "read"} /\ file[seg] = "sealed" /\ readable = SegLen
    /\ Transient("local") /\ UNCHANGED <<carry, readFails>>
    /\ ReadFrame /\ Fault

\* Access and media errors are; whether the first is old enough to escalate is
\* not modelled.
ReadFailsCounted ==
    /\ arm \in {"open", "read"} /\ file[seg] = "sealed" /\ readable = SegLen
    /\ Transient("local")
    /\ readFails' = [readFails EXCEPT ![seg] = @ + 1]
    /\ UNCHANGED carry
    /\ ReadFrame /\ Fault

\* escalate_local_read: access errors park, media errors quarantine.
ReadEscalates ==
    /\ arm \in {"open", "read"} /\ file[seg] = "sealed" /\ readable = SegLen
    /\ EscalatesNext
    /\ \/ Leaves("Parked") /\ UNCHANGED file /\ Fault
       \/ QuarantineAfterFault
    /\ ReadFrame

BatchEnd ==
    IF through + BatchSize < readable THEN through + BatchSize ELSE readable

\* Corruption, or the last chance at a media error, in record j + 1: the prefix
\* is delivered first.
ReadStopsShort ==
    /\ arm = "read" /\ readable = SegLen /\ through < SegLen
    /\ \E j \in through..(BatchEnd - 1) : readable' = j
    /\ UNCHANGED <<file, ledgerVars, arm, seg, through, retries, cause, needed>>
    /\ ReadFrame /\ Fault

\* batch_gate, before every sub-batch.
GateAbandons ==
    /\ arm = "read" /\ through < readable /\ DeadlinePassed
    /\ Exit("DeadlineAbandoned") /\ RecordProgress(seg, through)
    /\ UNCHANGED <<outsideVars, dlVars, boardVars, ghostVars>>

\* Mutant: a hold does not record how far the segment got.
GateHoldsForgetful ==
    /\ arm = "read" /\ through < readable /\ ~DeadlinePassed /\ pause
    /\ UNCHANGED cursor
    /\ arm' = "held" /\ readable' = SegLen
    /\ UNCHANGED <<file, carry, cool, owned, panics, readFails, seg, through, retries,
                   cause, needed>>
    /\ ReadFrame /\ NoFault

GateHolds ==
    /\ arm = "read" /\ through < readable /\ ~DeadlinePassed /\ pause
    /\ RecordProgress(seg, through)
    /\ arm' = "held" /\ readable' = SegLen
    /\ UNCHANGED <<file, carry, cool, owned, panics, readFails, seg, through, retries,
                   cause, needed>>
    /\ ReadFrame /\ NoFault

GateOpens ==
    /\ arm = "read" /\ through < readable /\ ~DeadlinePassed /\ ~pause
    /\ arm' = "commit"
    /\ UNCHANGED <<file, ledgerVars, handVars>>
    /\ ReadFrame /\ NoFault

\* The readable prefix of a damaged segment is delivered.
EndQuarantines ==
    /\ arm = "read" /\ through >= readable /\ readable < SegLen
    /\ Quarantine /\ ReadFrame

\* The footer agrees: sidecar and delete, or they are owed.
EndConfirms ==
    /\ arm = "read" /\ through >= readable /\ readable = SegLen
    /\ \/ Leaves("none") /\ file' = [file EXCEPT ![seg] = "gone"] /\ NoFault
       \/ Leaves("Confirm") /\ UNCHANGED file /\ Fault
    /\ ReadFrame

\* The footer disagrees or is corrupt.
EndMismatch ==
    /\ arm = "read" /\ through >= readable /\ readable = SegLen
    /\ QuarantineAfterFault /\ ReadFrame

(***************************************************************************)
(* One sub-batch at the sink (commit_batch_ctl).                           *)
(***************************************************************************)
Batch == Slice(seg, through, BatchEnd)

CommitFrame ==
    /\ arm = "commit"
    /\ UNCHANGED <<outsideVars, queueVars, prevOk, pollDue, boardVars>>

\* The sink accepts some records and rejects the others (all of them: permanent
\* error); the rejects are written to dead_letter/.
CommitOk ==
    /\ CommitFrame
    /\ \E rej \in SUBSET Batch :
          /\ rej = {} \/ MayWrite(Cardinality(rej))
          /\ DeadLetterWrite(Cardinality(rej))
          /\ applied' = applied \cup (Batch \ rej) /\ dead' = dead \cup rej
    /\ twice' = twice \cup (Batch \cap Handled)
    /\ through' = BatchEnd /\ arm' = "read"
    /\ UNCHANGED <<file, ledgerVars, seg, readable, retries, cause, needed, waitOver,
                   exitVars, ambiguous>>
    /\ NoFault

\* dead_letter/ is full.
CommitBlocked ==
    /\ CommitFrame
    /\ \E rej \in (SUBSET Batch) \ {{}} :
          /\ ~MayWrite(Cardinality(rej))
          /\ Blocked(Cardinality(rej))
          /\ applied' = applied \cup (Batch \ rej)
          /\ twice' = twice \cup ((Batch \ rej) \cap Handled)
          /\ UNCHANGED dead
          /\ StoreCarry([through |-> BatchEnd, rejects |-> rej], ambiguous)
    /\ UNCHANGED <<dlVars, exitVars>> /\ NoFault

\* The dead-letter write fails.
CommitWriteFails ==
    /\ CommitFrame
    /\ \E rej \in (SUBSET Batch) \ {{}} :
          /\ MayWrite(Cardinality(rej))
          /\ DeadLetterLeaves(Cardinality(rej))
          /\ LET left == IF dlReal' = dlReal THEN {} ELSE rej
             IN  /\ applied' = applied \cup (Batch \ rej)
                 /\ dead' = dead \cup left
                 /\ twice' = twice \cup (((Batch \ rej) \cup left) \cap Handled)
                 /\ StoreCarry([through |-> BatchEnd, rejects |-> rej], ambiguous \cup left)
          /\ Transient("local")
    /\ UNCHANGED <<readFails, waitOver, exitVars>> /\ Fault

\* A transient error, a commit timeout or an answer that does not account for
\* every record: the sink may have any of the batch.
CommitFails ==
    /\ CommitFrame
    /\ \E app \in SUBSET Batch :
          /\ applied' = applied \cup app /\ ambiguous' = ambiguous \cup app
          /\ twice' = twice \cup (app \cap Handled)
    /\ Transient("sink")
    /\ UNCHANGED <<carry, readFails, dlVars, dead, waitOver, exitVars>> /\ Fault

\* The stop deadline passes during the commit.
CommitAbandoned ==
    /\ arm = "commit" /\ DeadlinePassed
    /\ \E app \in SUBSET Batch :
          /\ applied' = applied \cup app /\ ambiguous' = ambiguous \cup app
          /\ twice' = twice \cup (app \cap Handled)
    /\ Exit("DeadlineAbandoned") /\ RecordProgress(seg, through)
    /\ UNCHANGED <<outsideVars, dlVars, boardVars, dead>>

(***************************************************************************)
(* RetryingTransient.                                                      *)
(***************************************************************************)
RetryFrame ==
    UNCHANGED <<outsideVars, file, cursor, carry, owned, panics, readFails, dlVars,
                pollDue, exitVars, ghostVars>>

\* Retries used up: a cool-down, and a sink strand arms the recovery edge.
Strand ==
    /\ arm = "retry" /\ retries = 0
    /\ cool' = cool \cup {seg}
    /\ prevOk' = (prevOk /\ cause # "sink")
    /\ ToHead
    /\ RetryFrame /\ UNCHANGED <<queueVars, waitOver, boardVars>> /\ NoFault

BackOff ==
    /\ arm = "retry" /\ retries > 0
    /\ arm' = "backoff" /\ waitOver' = FALSE
    /\ RetryFrame /\ UNCHANGED <<cool, queueVars, handVars, prevOk, boardVars>> /\ NoFault

\* The retry would come after the deadline, or the deadline has passed; or the
\* pause outlives the stop.
BackoffStops ==
    /\ arm = "backoff" /\ StopRequested
    /\ \/ (DeadlinePassed \/ (~pause /\ ~waitOver)) /\ ExitPlain("DeadlineAbandoned")
       \/ pause /\ ExitPlain("Stopped")

\* A pause is noticed or lifted, or a segment arrives.
BackoffWaits ==
    /\ arm = "backoff" /\ ~ticket /\ ~DeadlinePassed
    /\ IF pause THEN ~StopRequested /\ Paused ELSE ~waitOver /\ Unpaused
    /\ IF chan # << >> THEN WaitSlice
                       ELSE UNCHANGED queueVars /\ boardVars' # boardVars
    /\ RetryFrame /\ UNCHANGED <<cool, arm, handVars, prevOk, waitOver>> /\ NoFault

\* Paused, the health poll still runs, without the dispositions.
BackoffPolls ==
    /\ arm = "backoff" /\ pause /\ ~StopRequested /\ ~ticket /\ PollPending
    /\ Paused /\ pollDue' = FALSE
    /\ \E down, bad \in BOOLEAN : FaultIf(down \/ bad) /\ Probe(file, seg, down, bad)
    /\ UNCHANGED <<outsideVars, file, ledgerVars, dlVars, arm, handVars, waitOver,
                   exitVars, ghostVars>>

\* The backoff ends with a probe, and the segment is attempted again.
BackoffEnds ==
    /\ arm = "backoff" /\ waitOver /\ ~pause /\ ~DeadlinePassed /\ ~ticket
    /\ Unpaused /\ arm' = "begin"
    /\ \/ absorb /\ UNCHANGED <<queueVars, prevOk>> /\ NoFault
       \/ /\ ~absorb
          /\ \E down, bad \in BOOLEAN : FaultIf(down \/ bad) /\ Probe(file, seg, down, bad)
    /\ RetryFrame /\ UNCHANGED <<cool, handVars, waitOver>>

(***************************************************************************)
(* BlockedDeadLetterFull.                                                  *)
(***************************************************************************)
BlockedWaits ==
    /\ arm = "blocked" /\ ~StopRequested /\ ~ticket /\ ~waitOver
    /\ chan # << >> /\ WaitSlice
    /\ RetryFrame /\ UNCHANGED <<cool, arm, handVars, prevOk, waitOver, boardVars>> /\ NoFault

\* Every check interval, and at once when stopping: a rescan of dead_letter/, a
\* probe, and the segment is retried if its rejects fit now.
BlockedChecks ==
    /\ arm = "blocked" /\ (StopRequested \/ (waitOver /\ ~ticket))
    /\ \E down, bad, stale \in BOOLEAN :
          /\ FaultIf(down \/ bad \/ stale)
          /\ IF stale THEN UNCHANGED dlVars ELSE DeadLetterRescan
          /\ IF absorb THEN UNCHANGED <<queueVars, prevOk>>
                       ELSE Probe(file, seg, down, bad)
    /\ waitOver' = FALSE
    /\ IF dlKnown' + needed <= DlCap
         THEN /\ arm' = "retry" /\ retries' = MaxRetries /\ cause' = "sink" /\ needed' = 0
              /\ UNCHANGED <<seg, through, readable>>
         ELSE ~StopRequested /\ UNCHANGED <<arm, handVars>>
    /\ UNCHANGED <<outsideVars, file, ledgerVars, pollDue, boardVars, exitVars, ghostVars>>

\* Still blocked when stopping.  (No probe: a stop comes after T0.)
BlockedStops ==
    /\ arm = "blocked" /\ StopRequested
    /\ DeadLetterRescan \/ UNCHANGED dlVars
    /\ dlKnown' + needed > DlCap
    /\ Exit(IF DeadlinePassed THEN "DeadlineAbandoned" ELSE "Stopped")
    /\ UNCHANGED <<outsideVars, cursor, boardVars, ghostVars>>

(***************************************************************************)
(* Held.                                                                   *)
(***************************************************************************)
\* Mutant: a stop waits for the operator to resume.
HeldStopsUnlessPaused ==
    /\ arm = "held" /\ StopRequested /\ ~pause
    /\ Exit("Stopped") /\ Paused
    /\ UNCHANGED <<outsideVars, cursor, dlVars, ghostVars>>

HeldStops ==
    /\ arm = "held" /\ StopRequested
    /\ Exit("Stopped") /\ Paused
    /\ UNCHANGED <<outsideVars, cursor, dlVars, ghostVars>>

HeldWaits ==
    /\ arm = "held" /\ ~StopRequested /\ ~ticket /\ pause
    /\ Paused
    /\ IF chan # << >> THEN WaitSlice
                       ELSE UNCHANGED queueVars /\ boardVars' # boardVars
    /\ RetryFrame /\ UNCHANGED <<cool, arm, handVars, prevOk, waitOver>> /\ NoFault

HeldPolls ==
    /\ arm = "held" /\ ~StopRequested /\ ~ticket /\ pause /\ PollPending
    /\ Paused /\ pollDue' = FALSE
    /\ \E down, bad \in BOOLEAN : FaultIf(down \/ bad) /\ Probe(file, seg, down, bad)
    /\ UNCHANGED <<outsideVars, file, ledgerVars, dlVars, arm, handVars, waitOver,
                   exitVars, ghostVars>>

\* A first attempt goes back to the front of the queue, a retry goes on.
HeldResumes ==
    /\ arm = "held" /\ ~StopRequested /\ ~ticket /\ ~pause
    /\ pausedSince' = FALSE /\ boardPaused' = FALSE
    /\ \/ /\ retries = MaxRetries + 1
          /\ pending' = <<seg>> \o pending /\ backlogTurn' = FALSE
          /\ ToHead /\ UNCHANGED <<chan, backlog>>
       \/ /\ retries <= MaxRetries
          /\ arm' = "begin" /\ UNCHANGED <<queueVars, handVars>>
    /\ RetryFrame /\ UNCHANGED <<cool, prevOk, waitOver>> /\ NoFault

(***************************************************************************)
(* Panics and the supervisor (run_drain_supervised).                       *)
(***************************************************************************)
\* DRAIN_PANIC_PARK_LIMIT.
PanicParkLimit == 2

\* note_drain_panic: the segment of a running attempt is charged.
ChargePanic ==
    IF panics[seg] + 1 >= PanicParkLimit
      THEN ForgetAnd(seg, "Parked")
      ELSE /\ panics' = [panics EXCEPT ![seg] = @ + 1]
           /\ UNCHANGED <<cursor, cool, owned, readFails>>
           \* settle_dl_carry had taken the carry, or had not yet
           /\ \/ UNCHANGED carry
              \/ arm = "begin" /\ carry[seg] # NoCarry
                 /\ carry' = [carry EXCEPT ![seg] = NoCarry]

\* The thread unwinds: its queues and its hand are lost, and what the attempt
\* had not recorded may be delivered again.
Panic ==
    /\ arm \notin {"exited", "respawning"} /\ Fault
    /\ attempts' = attempts + 1
    /\ \E app \in SUBSET (IF arm = "commit" THEN Batch ELSE {}) :
          /\ applied' = applied \cup app
          /\ twice' = twice \cup (app \cap Handled)
    /\ ambiguous' = ambiguous \cup
          (IF Attempting THEN Slice(seg, cursor[seg], SegLen) \cap (applied' \cup dead) ELSE {})
    /\ IF Attempting /\ ~StopRequested THEN ChargePanic ELSE UNCHANGED ledgerVars
    /\ \/ /\ StopRequested /\ arm' = "exited"
          /\ exitReason' = IF DeadlinePassed THEN "DeadlineAbandoned" ELSE "Stopped"
       \/ /\ ~StopRequested /\ attempts + 1 >= MaxDrainRespawns
          /\ arm' = "exited" /\ exitReason' = "GaveUp"
       \/ /\ ~StopRequested /\ attempts + 1 < MaxDrainRespawns
          /\ arm' = "respawning" /\ UNCHANGED exitReason
    /\ pending' = << >> /\ backlog' = << >> /\ backlogTurn' = FALSE
    /\ EmptyHand /\ prevOk' = FALSE /\ waitOver' = FALSE /\ pausedSince' = FALSE
    /\ UNCHANGED <<outsideVars, file, dlVars, chan, pollDue, boardPaused, dead>>

\* A new incarnation scans dead_letter/ and starts its poll interval anew.
Respawn ==
    /\ arm = "respawning" /\ arm' = "head"
    /\ DeadLetterRescan /\ pollDue' = FALSE
    /\ UNCHANGED <<outsideVars, file, ledgerVars, queueVars, handVars, prevOk, waitOver,
                   boardVars, exitVars, ghostVars>>
    /\ NoFault

(***************************************************************************)
(* The specification.                                                      *)
(***************************************************************************)
DrainStep ==
    \/ HeadStops \/ HeadGoesOn \/ Poll \/ ServeTicket
    \/ PickPaused \/ PickStops \/ PickGoesOn
    \/ Take \/ TakeNothing \/ IdleReceives \/ IdleEnds
    \/ BeginPlain \/ SettleWritten \/ SettleBlocked \/ SettleFails
    \/ OpenGone \/ OpenOk \/ OpenRejected
    \/ ReadFailsProcess \/ ReadFailsCounted \/ ReadEscalates \/ ReadStopsShort
    \/ GateAbandons \/ GateHolds \/ GateOpens
    \/ EndQuarantines \/ EndConfirms \/ EndMismatch
    \/ CommitOk \/ CommitBlocked \/ CommitWriteFails \/ CommitFails \/ CommitAbandoned
    \/ Strand \/ BackOff \/ BackoffStops \/ BackoffWaits \/ BackoffPolls \/ BackoffEnds
    \/ BlockedWaits \/ BlockedChecks \/ BlockedStops
    \/ HeldStops \/ HeldWaits \/ HeldPolls \/ HeldResumes
    \/ Respawn

Next ==
    \/ \E c \in Segs : Seal(c) \/ HandOff(c)
    \/ FreeDeadLetter \/ Control
    \/ PollTimer \/ WaitTimer \/ \E c \in Segs : CoolDownEnds(c)
    \/ DrainStep \/ Panic

Spec == Init /\ [][Next]_vars

(***************************************************************************)
(* Fairness.  The drain thread runs, its timeouts expire, and main goes    *)
(* through with a shutdown it has begun.                                   *)
(***************************************************************************)
ThreadFairness ==
    /\ WF_vars(DrainStep)
    /\ WF_vars(PollTimer) /\ WF_vars(WaitTimer)
    /\ \A c \in Segs : WF_vars(CoolDownEnds(c))
    /\ WF_vars(Control /\ (RequestStop \/ DeadlinePasses))

FairSpec == Spec /\ ThreadFairness

\* What only an operator can give: a pause is lifted, a full dead_letter/ emptied.
OperatorFairness ==
    /\ WF_vars(Control /\ RequestResume(GaveUp))
    /\ WF_vars(FreeDeadLetter)

\* For TLC: two of faults, pauses and tickets in all; beside a live segment only
\* faults, the second of them in the retry after the first.  None of these is owed.
Live == {c \in Segs \ Replay : file[c] # "absent"}
Budget ==
    /\ faults' + pauses' + tickets' <= 2
    /\ Live' # {} => pauses' + tickets' = 0
    /\ Live' # {} /\ faults' = 2 =>
          \/ Live' = Live /\ faults' = faults
          \/ Live' = Live /\ arm = "commit" /\ retries <= MaxRetries
BudgetSpec == Init /\ [][Next /\ Budget]_vars /\ ThreadFairness

(***************************************************************************)
(* Properties.                                                             *)
(***************************************************************************)
\* A cursor, and the position of a running attempt, never run ahead of what the
\* sink or dead_letter/ has: record_progress and settle_dl_carry skip nothing.
ProgressIsDurable ==
    /\ \A c \in Segs : Slice(c, 0, cursor[c]) \subseteq Handled
    /\ seg # 0 => Slice(seg, 0, through) \subseteq Handled

\* A carry accounts for its whole sub-batch: what is not among its rejects is
\* already at the sink, so settle_dl_carry may resume past the batch.
CarryCoversBatch ==
    \A c \in Segs :
        Slice(c, cursor[c], carry[c].through) \subseteq applied \cup carry[c].rejects

\* The cursor and the carry together account for every record that is not sent
\* again.
ProgressIsCovered == ProgressIsDurable /\ CarryCoversBatch

\* A segment that confirm_and_delete removed, or is owed that delete, has every
\* record at the sink or in dead_letter/, whatever rejects, blocks, holds,
\* strands, duplicated paths and panics came before.
NothingLost ==
    \A c \in Segs :
        (file[c] = "gone" \/ owned[c] = "Confirm") => Recs(c) \subseteq Handled

\* Within a run no record is delivered or dead-lettered twice, unless the sink
\* failed in the middle of its batch, a panic cut its attempt short, a failed
\* dead-letter write left its file, or its carry did not fit in memory.
DuplicatesExcused == twice \subseteq ambiguous

\* Through dead letters, blocks, holds, strands and panics a record is delivered,
\* and only for a reason twice.
NothingLostOrTwice == NothingLost /\ DuplicatesExcused

\* The drain delivers only while weir_drain_paused and the status board say that
\* it is not paused.
PausedGaugeTruthful == arm = "commit" => ~boardPaused

\* No wait of the drain thread is deaf.  A requested stop ends it, from whatever
\* wait it is in, and a retry-stranded ticket is answered in every state of the
\* drain, also while an operator's pause or a full dead_letter/ lasts.  A stop is
\* never withdrawn and the tickets are bounded, so in the end neither is open.
DrainAnswers == <>[](StopRequested \/ ticket => arm = "exited")

\* Every sealed segment is confirmed, quarantined or parked in the end, unless
\* the daemon is shut down or the drain has given up.
SegmentSettled ==
    <>[](\A c \in Segs : file[c] = "sealed" => owned[c] = "Parked" \/ absorb \/ GaveUp)

\* With an operator who attends to it, a segment sealed behind another, in the
\* channel or found by a rescan, is settled as well, and neither of the two loses a
\* record on the way.
EverySegmentSettledOnce == (OperatorFairness => SegmentSettled) /\ []NothingLostOrTwice
=============================================================================
