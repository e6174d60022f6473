----------------------------- MODULE Conditions -----------------------------
(***************************************************************************)
(* The evaluator of weir-status: the catalogue of conditions, one rule per  *)
(* code, the readiness, liveness and startup probes and the exit code.  A   *)
(* second reader, weir-ctl, runs the same rules on evidence it rebuilds     *)
(* from a scrape of the daemon's gauges; Gauges and evidence_from_metrics   *)
(* are the two halves of that conversion.                                   *)
(*                                                                         *)
(* Evidence is a record of sub-records; None stands for Rust's None, "not   *)
(* known".  Every fixed threshold is Limit, in the unit of the ages; an age *)
(* of 0 is this very moment, which a gauge cannot tell from "absent".       *)
(***************************************************************************)
EXTENDS Naturals, FiniteSets

CONSTANT None      \* "not known": a model value

ASSUME NoneIsNoFact == None \notin BOOLEAN /\ None # "serving"

Phases == <<"initializing", "recovering", "handoff", "binding", "serving",
            "shutting_down">>
before_serving(p) == p \notin {"serving", "shutting_down"}

Limit == 2             \* Thresholds::DEFAULT, each of its ages
WedgeGrace == 1        \* wedge_grace_ms
NearCapPercent == 80
SinkFailingConsecutive == 3

Unevaluated == "unevaluated"
Inactive == "inactive"
Active == "active"
Fires(p) == IF p THEN Active ELSE Inactive

\* A rule that reads the sub-records in facts is unevaluated without them.
Needs(facts, outcome) == IF None \in facts THEN Unevaluated ELSE outcome

tri_or(a, b) ==
    IF TRUE \in {a, b} \ {None} THEN TRUE
    ELSE IF None \in {a, b} THEN None ELSE FALSE

\* An optional value that is present and satisfies its comparison.
Over(age)   == age # None /\ age > Limit
AtLeast(age) == age # None /\ age >= Limit

-----------------------------------------------------------------------------
(* The rules, in catalogue order. *)

starting(e) == Needs({e.phase}, Fires(before_serving(e.phase)))

shutting_down(e) == Needs({e.shutting_down}, Fires(e.shutting_down))

\* A closed listener is down unless the daemon is shutting down.
ListenerIsDown(l, e) ==
    CASE l = "failed" -> TRUE
      [] l = "closed" -> IF e.shutting_down = None THEN None
                         ELSE ~e.shutting_down
      [] OTHER        -> FALSE
listener_down(e) ==
    IF e.listeners = None THEN Unevaluated
    ELSE LET down == {ListenerIsDown(l, e) : l \in e.listeners} IN
         IF TRUE \in down \ {None} THEN Active
         ELSE IF None \in down THEN Unevaluated ELSE Inactive

ingest_capable(s) == s.state \in {"up", "respawning"} /\ s.worker

no_live_shard(e) ==
    Needs({e.phase, e.shards},
          Fires(/\ e.phase = "serving"
                /\ \A i \in DOMAIN e.shards : ~ingest_capable(e.shards[i])))

shard_offline(e) ==
    Needs({e.shards, e.shutting_down},
          LET offline == {i \in DOMAIN e.shards : e.shards[i].state = "offline"} IN
          Fires(/\ ~e.shutting_down /\ offline # {}
                /\ offline # DOMAIN e.shards))

\* exited tells a worker that ran from one that has not started yet.
worker_exited(e) ==
    Needs({e.workers, e.shutting_down},
          Fires(/\ ~e.shutting_down
                /\ \E w \in DOMAIN e.workers :
                       ~e.workers[w].running /\ e.workers[w].exited))

\* Mutant: a cap that is not known counts as one that admits.
wab_cap_assumed_open(e) == Fires(e.wab_cap # None /\ e.wab_cap.rejecting)

wab_cap_rejecting(e) == Needs({e.wab_cap}, Fires(e.wab_cap.rejecting))

drain_backpressure(e) ==
    LET blocked == IF e.shards = None THEN None
                   ELSE \E i \in DOMAIN e.shards : AtLeast(e.shards[i].blocked)
        high == IF e.channel = None THEN None ELSE AtLeast(e.channel.high)
        any == tri_or(blocked, high)
    IN Needs({any}, Fires(any))

ack_timeouts_recent(e) ==
    IF e.recent = None THEN Unevaluated
    ELSE Needs({e.recent.ack_timeouts}, Fires(e.recent.ack_timeouts # 0))

\* Why producers saw ACK_TIMEOUT nacks, as the condition's evidence says it.
AckTimeoutCause(e) ==
    IF drain_backpressure(e) = Active THEN "delivery_stalling_ingest"
    ELSE IF e.recent.fsync_failures \notin {None, 0} \/ e.recent.coalesce_slow
    THEN "storage_slow_or_failing" ELSE "flusher_not_completing"

\* Scan times exist only inside the daemon: a scrape cannot say.
wab_scan_stale(e) ==
    IF e.source # "daemon" THEN Unevaluated
    ELSE Needs({e.wab_cap},
               Fires(e.wab_cap.scan_age = None \/ Over(e.wab_cap.scan_age)))

wab_growing_unbounded(e) ==
    IF e.wab_cap = None THEN Unevaluated
    ELSE Needs({e.wab_cap.growing}, Fires(e.wab_cap.growing))

drain_stopped(e) ==
    Needs({e.drain, e.shutting_down},
          Fires(e.drain.exit = "gave_up" /\ ~e.shutting_down))

\* One verdict for the log line and the condition: a commit in flight, or a busy
\* sink call, is a wedge only past commit_timeout + grace, busy local I/O never.
drain_wedged(e) ==
    IF None \in {e.drain, e.config} THEN Unevaluated
    ELSE LET d == e.drain IN
         CASE d.exit # "running" -> Inactive
           [] d.exit = "running" /\ d.commit # None ->
                Needs({e.config.commit_timeout},
                      Fires(d.commit > e.config.commit_timeout + WedgeGrace))
           [] d.exit = "running" /\ d.commit = None /\ d.busy # None ->
                IF ~d.busy.sink_call THEN Inactive
                ELSE Needs({e.config.commit_timeout},
                           Fires(d.busy.age > e.config.commit_timeout + WedgeGrace))
           [] OTHER ->
                Needs({d.progress, e.config.health_poll},
                      Fires(d.progress >= e.config.health_poll + WedgeGrace))

drain_paused(e) == Needs({e.drain}, Fires(e.drain.pause_requested \/ e.drain.paused))

drain_blocked_dead_letter_full(e) ==
    Needs({e.drain}, Fires(e.drain.state = "blocked_dead_letter_full"))

\* Idle since the last success, or since the start when there was none.
delivery_stalled(e) ==
    IF None \in {e.backlog, e.sink, e.drain} THEN Unevaluated
    ELSE IF e.backlog.segments = 0 \/ e.drain.paused \/ e.drain.pause_requested
    THEN Inactive
    ELSE LET idle == IF e.sink.success # None THEN e.sink.success ELSE e.started IN
         Needs({idle}, Fires(AtLeast(idle)))

delivery_lagging(e) == Needs({e.backlog}, Fires(Over(e.backlog.oldest)))

segments_stranded(e) ==
    IF e.recent = None THEN Unevaluated
    ELSE Needs({e.recent.stranded}, Fires(e.recent.stranded # 0))

SinkHealthIs(e, h) ==
    IF e.sink = None THEN Unevaluated
    ELSE Needs({e.sink.health}, Fires(e.sink.health = h))
sink_down(e) == SinkHealthIs(e, "down")
sink_degraded(e) == SinkHealthIs(e, "degraded")

sink_failing(e) ==
    Needs({e.sink}, Fires(/\ e.sink.failures >= SinkFailingConsecutive
                          /\ e.sink.health # "down"))

dead_letter_near_cap(e) ==
    IF None \in {e.backlog, e.config} THEN Unevaluated
    ELSE LET cap == e.config.dead_letter_max IN
         Needs({cap}, Fires(/\ cap # 0
                            /\ e.backlog.dead_letter * 100 >= cap * NearCapPercent))

noop_sink(e) == Needs({e.config}, Fires(e.config.sink_type = "noop"))

\* Ages come from the lag scan; a timed seal makes an old segment impossible.
active_segment_aging(e) ==
    IF None \in {e.shards, e.config, e.backlog} THEN Unevaluated
    ELSE Needs({e.config.max_age, e.config.max_lifetime},
               Fires(/\ e.config.max_age = 0 /\ e.config.max_lifetime = 0
                     /\ \E i \in DOMAIN e.shards : Over(e.shards[i].active)))

fsync_failures_recent(e) ==
    IF e.recent = None THEN Unevaluated
    ELSE Needs({e.recent.fsync_failures}, Fires(e.recent.fsync_failures # 0))

flusher_respawned_recent(e) ==
    IF e.recent = None THEN Unevaluated
    ELSE Needs({e.recent.flusher_panics, e.shards},
               Fires(/\ e.recent.flusher_panics # 0
                     /\ \A i \in DOMAIN e.shards : e.shards[i].state = "up"))

quarantine_nonempty(e) == Needs({e.backlog}, Fires(e.backlog.quarantine # 0))

recovery_incomplete(e) ==
    IF e.recent = None THEN Unevaluated
    ELSE Needs({e.recent.recovery_failed, e.recent.copy_failed},
               Fires(e.recent.recovery_failed # 0 \/ e.recent.copy_failed # 0))

tls_reload_failed(e) == Needs({e.reload}, Fires(e.reload.tls_last_failed))

admin_unavailable(e) ==
    Needs({e.admin}, Fires(e.admin.enabled /\ e.admin.state = "unavailable"))

-----------------------------------------------------------------------------
(* The catalogue and the functions that read it. *)

rule(e) ==
    [starting |-> starting(e), shutting_down |-> shutting_down(e),
     listener_down |-> listener_down(e), no_live_shard |-> no_live_shard(e),
     shard_offline |-> shard_offline(e), worker_exited |-> worker_exited(e),
     wab_cap_rejecting |-> wab_cap_rejecting(e),
     drain_backpressure |-> drain_backpressure(e),
     ack_timeouts_recent |-> ack_timeouts_recent(e),
     wab_scan_stale |-> wab_scan_stale(e),
     wab_growing_unbounded |-> wab_growing_unbounded(e),
     drain_stopped |-> drain_stopped(e), drain_wedged |-> drain_wedged(e),
     drain_paused |-> drain_paused(e),
     drain_blocked_dead_letter_full |-> drain_blocked_dead_letter_full(e),
     delivery_stalled |-> delivery_stalled(e),
     delivery_lagging |-> delivery_lagging(e),
     segments_stranded |-> segments_stranded(e), sink_down |-> sink_down(e),
     sink_degraded |-> sink_degraded(e), sink_failing |-> sink_failing(e),
     dead_letter_near_cap |-> dead_letter_near_cap(e), noop_sink |-> noop_sink(e),
     active_segment_aging |-> active_segment_aging(e),
     fsync_failures_recent |-> fsync_failures_recent(e),
     flusher_respawned_recent |-> flusher_respawned_recent(e),
     quarantine_nonempty |-> quarantine_nonempty(e),
     recovery_incomplete |-> recovery_incomplete(e),
     tls_reload_failed |-> tls_reload_failed(e),
     admin_unavailable |-> admin_unavailable(e)]

CriticalCodes ==
    {"listener_down", "no_live_shard", "shard_offline", "worker_exited",
     "wab_cap_rejecting", "drain_stopped", "drain_wedged",
     "drain_blocked_dead_letter_full", "fsync_failures_recent",
     "recovery_incomplete"}

evaluate(e) == LET r == rule(e) IN {c \in DOMAIN r : r[c] = Active}

LivezChecks == {"listener_down", "no_live_shard", "worker_exited",
                "drain_stopped", "drain_wedged"}

\* /readyz: a missing fact fails the check.
readiness(e) ==
    {starting(e), shutting_down(e), listener_down(e), no_live_shard(e),
     wab_cap_rejecting(e)} = {Inactive}

\* /livez: only the selected checks, only while serving, only on evidence.
liveness(e, checks) ==
    \/ e.phase # "serving"
    \/ LET r == rule(e) IN \A c \in checks : r[c] # Active

exit_code(e) ==
    IF ~readiness(e) THEN 1 ELSE IF evaluate(e) \cap CriticalCodes # {} THEN 3 ELSE 0

-----------------------------------------------------------------------------
(* Through the gauges: what the daemon exports, and what weir-ctl makes of it. *)

\* A gauge cannot say "not known": an absent reading leaves the initial 0.
Num(v) == IF v = None THEN 0 ELSE v
NonZero(v) == IF v = 0 THEN None ELSE v
BusyKinds == {"sink_call", "local_io"}
BusyGauge(d) ==
    [k \in BusyKinds |-> IF d.busy # None /\ d.busy.sink_call = (k = "sink_call")
                         THEN d.busy.age ELSE 0]

\* publish_gauges on a serving daemon, whose topology, sink and drain have
\* reported, with the gauges that the drain, the poll and recovery set themselves.
publish_gauges(e) ==
    [phase |-> e.phase, ready |-> readiness(e), started |-> e.started,
     shard_up |-> [i \in DOMAIN e.shards |->
                       e.shards[i].state \in {"up", "respawning"}],
     blocked |-> [i \in DOMAIN e.shards |-> Num(e.shards[i].blocked)],
     active |-> [i \in DOMAIN e.shards |-> Num(e.shards[i].active)],
     worker_up |-> [w \in DOMAIN e.workers |-> e.workers[w].running],
     rejecting |-> e.wab_cap.rejecting,
     drain_state |-> e.drain.state, paused |-> e.drain.paused,
     commit |-> Num(e.drain.commit), busy |-> BusyGauge(e.drain),
     heartbeat |-> Num(e.drain.heartbeat),
     sink_health |-> IF e.sink.health = None THEN "healthy" ELSE e.sink.health,
     success |-> e.sink.success, failures |-> e.sink.failures,
     backlog |-> [e.backlog EXCEPT !.oldest = Num(e.backlog.oldest)],
     recovery_failed |-> e.recent.recovery_failed,
     copy_failed |-> e.recent.copy_failed, config |-> e.config]

\* Listener states, windows, reload and admin are not exported: they stay unknown,
\* except that a ready daemon has no listener down.
evidence_from_metrics(g) ==
    LET serving == g.phase = "serving"
        owner(i) == i % Cardinality(DOMAIN g.worker_up)
        busy == {k \in BusyKinds : g.busy[k] > 0}
    IN
    [source |-> "metrics", phase |-> g.phase, started |-> g.started,
     shutting_down |-> g.phase = "shutting_down",
     listeners |-> IF g.ready THEN {} ELSE None,
     workers |-> [w \in DOMAIN g.worker_up |->
                      [running |-> g.worker_up[w],
                       exited |-> ~g.worker_up[w] /\ serving]],
     shards |-> [i \in DOMAIN g.shard_up |->
                    [state |-> CASE g.shard_up[i] -> "up"
                                 [] ~g.shard_up[i] /\ before_serving(g.phase) -> "starting"
                                 [] OTHER -> "offline",
                     worker |-> g.worker_up[owner(i)],
                     blocked |-> NonZero(g.blocked[i]),
                     active |-> g.active[i]]],
     wab_cap |-> [rejecting |-> g.rejecting, scan_age |-> None, growing |-> None],
     channel |-> None,
     drain |-> [state |-> g.drain_state, pause_requested |-> g.paused,
                paused |-> g.paused,
                exit |-> CASE g.drain_state # "stopped" -> "running"
                           [] g.drain_state = "stopped" /\ g.phase = "shutting_down"
                                -> "stopped"
                           [] OTHER -> "gave_up",
                commit |-> NonZero(g.commit),
                busy |-> IF busy = {} THEN None
                         ELSE LET k == CHOOSE k \in busy : TRUE IN
                              [sink_call |-> k = "sink_call", age |-> g.busy[k]],
                heartbeat |-> g.heartbeat, progress |-> g.heartbeat],
     sink |-> [health |-> g.sink_health, success |-> g.success,
               failures |-> g.failures],
     backlog |-> [g.backlog EXCEPT !.oldest = NonZero(g.backlog.oldest)],
     recent |-> [ack_timeouts |-> None, fsync_failures |-> None,
                 flusher_panics |-> None, stranded |-> None, coalesce_slow |-> FALSE,
                 recovery_failed |-> g.recovery_failed, copy_failed |-> g.copy_failed],
     reload |-> None, admin |-> None,
     config |-> [g.config EXCEPT !.commit_timeout = None, !.health_poll = None]]
=============================================================================
