---------------------------- MODULE DrainStall ----------------------------
(***************************************************************************)
(* Is the drain alive?  The drain thread's heartbeat, busy signal and       *)
(* commit marker (drain/mod.rs DrainHeartbeat and BusyGuard,                *)
(* drain/publish.rs CommitGuard, status/board.rs DrainCell), the poll task  *)
(* that reads them every 5 s (status/poll.rs WabPoll::tick, DrainLiveness)  *)
(* and the drain_wedged condition that any status request may evaluate at   *)
(* any moment.                                                              *)
(*                                                                         *)
(* Time is in ticks of 5 s and kept as ages, which stop at MaxAge.          *)
(***************************************************************************)
EXTENDS Conditions

CONSTANTS
    HealthPoll,      \* health_poll_interval
    CommitTimeout,   \* commit_timeout, at least health_probe_timeout
    GrowthWarnInterval,  \* WAB_GROWTH_WARN_INTERVAL
    MaxAge           \* bound: ages are not told apart beyond this

\* wedge_grace_ms alone is longer than the tick that a board may be old.
ASSUME StallAssumption ==
    /\ {HealthPoll, CommitTimeout, GrowthWarnInterval, MaxAge} \subseteq Nat
    /\ HealthPoll + WedgeGrace > 1
    /\ MaxAge > HealthPoll + WedgeGrace /\ MaxAge > CommitTimeout + WedgeGrace

MaybeAge == Nat \cup {None}
Readings == [sink_call : BOOLEAN, age : Nat]

\* None is no age, no reading and no part of the evidence.
ASSUME NoneIsNoReading ==
    /\ None \notin Nat \cup Readings
    /\ None \notin [exit : {"running", "gave_up"}, commit : MaybeAge,
                    busy : Readings \cup {None}, progress : MaybeAge]
    /\ None \notin [commit_timeout : Nat, health_poll : Nat]

VARIABLES
    drain,     \* [at, next, outer, blocked, age, hung]: the drain thread; outer is
               \* the kind its guard was created under, age that of its operation
               \* or, once blocked, of the block
    cell,      \* [kind, age]: HeartbeatCells; kind "none" or age None is idle
    moved,     \* has the heartbeat moved since the poll last read it
    stamps,    \* [commit, progress]: DrainCell's ages
    poll,      \* [at, since, torn, frozen, verdict]: the poll task
    seen,      \* DrainLiveness: [first, frozen, logged, logged_age]
    board      \* what the last tick published: [heartbeat, busy, excused, age]

stallVars == <<drain, cell, moved, stamps, poll, seen, board>>

OpKinds == {"sink", "local"}

StallInit ==
    /\ drain = [at |-> "between", next |-> "none", outer |-> "none",
                blocked |-> FALSE, age |-> 0, hung |-> FALSE]
    /\ cell = [kind |-> "none", age |-> None]
    /\ moved = FALSE
    /\ stamps = [commit |-> None, progress |-> None]
    /\ poll = [at |-> "asleep", since |-> None, torn |-> FALSE, frozen |-> 0,
               verdict |-> "none"]
    /\ seen = [first |-> TRUE, frozen |-> 0, logged |-> "none", logged_age |-> 0]
    /\ board = [heartbeat |-> None, busy |-> None, excused |-> TRUE, age |-> 0]

Older(a) == IF a = None THEN None ELSE IF a < MaxAge THEN a + 1 ELSE a
OlderReading(b) == IF b = None THEN None ELSE [sink_call |-> b.sink_call, age |-> Older(b.age)]

\* Ghost: in the middle of a tick the drain went from one operation to another.
Straddled == poll' = [poll EXCEPT !.torn = poll.at \notin {"asleep", "done"}]

-----------------------------------------------------------------------------
(* The drain thread *)

\* wait_slice: a second at most, and every slice bumps the heartbeat.
WaitSlice ==
    /\ drain.at \in {"between", "waiting"} /\ ~drain.blocked
    /\ moved' = TRUE
    /\ drain' = [drain EXCEPT !.at = "waiting"]
    /\ Straddled
    /\ UNCHANGED <<cell, stamps, seen, board>>

\* BusyGuard::new: the kind, then the start.  A sink call nests in the reader loop's
\* SegmentRead guard: the guard keeps the kind that was up.  (So does local I/O,
\* which is not told apart from the read: no verdict looks at its age.)
EnterOp(k, commit) ==
    /\ ~drain.blocked
    /\ \/ drain.at \in {"between", "waiting"}
       \/ drain.at = "busy" /\ cell.kind = "local" /\ k = "sink"
    /\ commit => k = "sink"
    /\ drain' = [drain EXCEPT !.at = "entering", !.age = 0, !.outer = cell.kind,
                              !.next = IF commit THEN "commit" ELSE "call"]
    /\ cell' = [cell EXCEPT !.kind = k]
    /\ Straddled
    /\ UNCHANGED <<moved, stamps, seen, board>>

\* ... and CommitGuard::new for a commit.
StampStart ==
    /\ drain.at = "entering"
    /\ cell' = [cell EXCEPT !.age = 0]
    /\ stamps' = IF drain.next = "commit" THEN [commit |-> 0, progress |-> 0] ELSE stamps
    /\ drain' = [drain EXCEPT !.at = "busy"]
    /\ Straddled
    /\ UNCHANGED <<moved, seen, board>>

\* A commit that returns drops its CommitGuard: one bump.  BusyGuard::drop hands
\* the signal back to the outer kind, timed afresh, or clears it.
LeaveOp ==
    /\ drain.at \in {"busy", "returning"} /\ ~drain.blocked
    /\ stamps' = IF drain.next = "commit" THEN [commit |-> None, progress |-> 0] ELSE stamps
    /\ moved' = (moved \/ drain.next = "commit")
    /\ cell' = [kind |-> drain.outer, age |-> IF drain.outer = "none" THEN None ELSE 0]
    /\ drain' = [drain EXCEPT !.at = IF drain.outer = "none" THEN "between" ELSE "busy",
                              !.next = "none", !.outer = "none", !.age = 0]
    /\ Straddled
    /\ UNCHANGED <<seen, board>>

\* A sink call blocks the OS thread instead of yielding, or the thread is stuck
\* where no guard covers it: nothing inside the drain can end that, though the
\* call may return in the end.
Block ==
    /\ ~drain.blocked
    /\ \/ drain.at = "between"
       \/ drain.at = "busy" /\ cell.kind = "sink"
    /\ drain' = [drain EXCEPT !.blocked = TRUE, !.age = 0, !.hung = FALSE]
    /\ UNCHANGED <<cell, moved, stamps, poll, seen, board>>

Unblock ==
    /\ drain.blocked
    /\ drain.age > CommitTimeout
    /\ drain' = [drain EXCEPT !.blocked = FALSE, !.age = 0, !.hung = FALSE,
                              !.at = IF @ = "busy" THEN "returning" ELSE @]
    /\ Straddled
    /\ UNCHANGED <<cell, moved, stamps, seen, board>>

\* The supervisor gives up: drain_state{stopped}.
GiveUp ==
    /\ drain.at \in {"between", "waiting"} /\ ~drain.blocked
    /\ drain' = [drain EXCEPT !.at = "gone"]
    /\ Straddled
    /\ UNCHANGED <<cell, moved, stamps, seen, board>>

-----------------------------------------------------------------------------
(* The poll task *)

\* busy(): the start first, then the kind; a start of 0 is no operation.
busy(since) == IF since = None \/ cell.kind = "none" THEN None
               ELSE [sink_call |-> cell.kind = "sink", age |-> since]

severity == [none |-> 0, slow_sink_call |-> 1, slow_local_io |-> 2, wedged |-> 3,
             stopped |-> 4]

drain_heartbeat_looks_wedged(frozen) == frozen >= HealthPoll + WedgeGrace

\* Mutant: a frozen heartbeat is a wedge, whatever the drain is busy with.
classify_by_heartbeat(frozen, stopped, b) ==
    CASE ~drain_heartbeat_looks_wedged(frozen) -> "none"
      [] drain_heartbeat_looks_wedged(frozen) /\ stopped -> "stopped"
      [] OTHER -> "wedged"

classify_drain_stall(frozen, stopped, b) ==
    CASE ~drain_heartbeat_looks_wedged(frozen) -> "none"
      [] drain_heartbeat_looks_wedged(frozen) /\ stopped -> "stopped"
      [] drain_heartbeat_looks_wedged(frozen) /\ ~stopped /\ b # None ->
            IF ~b.sink_call THEN "slow_local_io"
            ELSE IF b.age <= CommitTimeout + WedgeGrace THEN "slow_sink_call" ELSE "wedged"
      [] OTHER -> "wedged"

stall_log_is_due(verdict) ==
    \/ seen.logged = "none"
    \/ severity[verdict] > severity[seen.logged]
    \/ seen.logged_age >= GrowthWarnInterval

\* Ghost: the drain stands between two operations, for microseconds.
InTransit == drain.at \in {"between", "entering", "returning"} /\ ~drain.blocked

\* The liveness check runs first in a tick; its reading takes two loads.
TickStarts ==
    /\ poll.at = "asleep"
    /\ poll' = [poll EXCEPT !.at = "reading", !.since = cell.age,
                            !.torn = InTransit]
    /\ UNCHANGED <<drain, cell, moved, stamps, seen, board>>

\* check_drain_liveness and observe: the log line is the verdict's.
Observe ==
    /\ poll.at = "reading"
    /\ IF moved \/ seen.first
       THEN /\ seen' = [seen EXCEPT !.first = FALSE, !.frozen = 0]
            /\ poll' = [poll EXCEPT !.at = "scanning", !.since = None]
       ELSE LET v == classify_drain_stall(seen.frozen, drain.at = "gone", busy(poll.since))
            IN /\ seen' = IF v # "none" /\ stall_log_is_due(v)
                          THEN [seen EXCEPT !.logged = v, !.logged_age = 0] ELSE seen
               /\ poll' = [poll EXCEPT !.at = "scanning", !.since = None,
                                       !.frozen = seen.frozen, !.verdict = v]
    /\ moved' = FALSE
    /\ UNCHANGED <<drain, cell, stamps, board>>

\* The awaited size scan ends, in success or failure; busy() is read again.
ScanEnds ==
    /\ poll.at = "scanning"
    /\ poll' = [poll EXCEPT !.at = "rereading", !.since = cell.age,
                            !.torn = @ \/ InTransit, !.verdict = "none"]
    /\ UNCHANGED <<drain, cell, moved, stamps, seen, board>>

\* heartbeat_changed_ms and drain_busy_*, then the evaluation.
Publish ==
    /\ poll.at = "rereading"
    /\ board' = [heartbeat |-> poll.frozen, busy |-> busy(poll.since),
                 excused |-> poll.torn \/ drain.blocked, age |-> 0]
    /\ poll' = [poll EXCEPT !.at = "done", !.since = None, !.torn = FALSE, !.frozen = 0]
    /\ UNCHANGED <<drain, cell, moved, stamps, seen>>

-----------------------------------------------------------------------------
(* Time *)

\* A tick passes only when nothing that takes microseconds is under way.  A
\* call that yields is ended by its timeout; the poll is on time unless its
\* scan hangs.
Tick ==
    /\ ~InTransit
    /\ drain.at = "busy" /\ ~drain.blocked /\ cell.kind = "sink" => drain.age < CommitTimeout
    /\ poll.at \in {"scanning", "done"}
    /\ drain' = [drain EXCEPT !.age = IF drain.at = "busy" \/ drain.blocked THEN Older(@) ELSE 0,
                              !.hung = drain.blocked /\ (@ \/ poll.at = "scanning")]
    /\ cell' = [cell EXCEPT !.age = Older(@)]
    /\ stamps' = [commit |-> Older(stamps.commit), progress |-> Older(stamps.progress)]
    /\ poll' = IF poll.at = "done" THEN [poll EXCEPT !.at = "asleep"] ELSE poll
    /\ seen' = [seen EXCEPT !.frozen = Older(@),
                            !.logged_age = IF @ < GrowthWarnInterval THEN @ + 1 ELSE @]
    /\ board' = [board EXCEPT !.heartbeat = Older(@), !.age = Older(@),
                              !.busy = OlderReading(@)]
    /\ moved' = (moved \/ drain.at = "waiting")

StallNext == \/ WaitSlice \/ StampStart \/ LeaveOp \/ Block \/ Unblock \/ GiveUp
             \/ \E k \in OpKinds, commit \in BOOLEAN : EnterOp(k, commit)
             \/ TickStarts \/ Observe \/ ScanEnds \/ Publish \/ Tick

StallSpec == StallInit /\ [][StallNext]_stallVars

-----------------------------------------------------------------------------
(* What holds *)

\* The evidence of a status request at this moment.
StallEvidence ==
    LET known == {stamps.progress, board.heartbeat} \ {None} IN
    [drain |-> [exit |-> IF drain.at = "gone" THEN "gave_up" ELSE "running",
                commit |-> stamps.commit, busy |-> board.busy,
                progress |-> IF known = {} THEN None
                             ELSE CHOOSE a \in known : \A b \in known : a <= b],
     config |-> [commit_timeout |-> CommitTimeout, health_poll |-> HealthPoll]]
WedgedNow == drain_wedged(StallEvidence) = Active

\* status/poll.rs, rules.rs drain_wedged: a drain that waits, commits within its
\* timeout, probes or is inside local I/O of any length is never called wedged,
\* by the log or by the condition (which /livez may restart the daemon on).  A
\* tick in the middle of which the drain changed operations is excused, and so is
\* a board older than one tick, which a hung size scan leaves behind.
WedgeIsReal ==
    /\ [][poll.at = "reading" /\ poll'.at = "scanning" /\ poll'.verdict = "wedged"
            => poll.torn \/ drain.blocked]_stallVars
    /\ [](WedgedNow => drain.blocked \/ board.excused \/ board.age > 1)

\* status/poll.rs stall_log_is_due: a blocked drain is named within the larger of
\* the two timeouts, the grace and a tick, by the log line (a milder verdict
\* logged a moment ago does not hold it back) and by the condition.
WedgeIsNamed ==
    LET longer == IF HealthPoll > CommitTimeout THEN HealthPoll ELSE CommitTimeout IN
    drain.blocked /\ ~drain.hung /\ poll.at = "done" /\ drain.age > longer + WedgeGrace
        => seen.logged = "wedged" /\ WedgedNow

\* Both directions: nothing but a blocked drain is called wedged, and a blocked
\* drain is, by the log line and by the condition.
WedgeIsTrue == WedgeIsReal /\ []WedgeIsNamed
=============================================================================
