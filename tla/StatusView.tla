---------------------------- MODULE StatusView ----------------------------
(***************************************************************************)
(* What the status board says of a serving daemon, as the evidence that    *)
(* /readyz, /livez, the admin document and weir-ctl are all evaluated from  *)
(* (status/render.rs evidence_at).  The daemon starts healthy; each step    *)
(* changes one fact of it.                                                  *)
(***************************************************************************)
EXTENDS Conditions

CONSTANT MaxDeviations     \* bound: facts that differ from a healthy daemon

ASSUME DeviationBound == MaxDeviations \in Nat

VARIABLES
    evidence,     \* the evidence at this moment
    deviations    \* how many facts were changed

viewVars == <<evidence, deviations>>

Ages == 0 .. 3
Shards == {0, 1}
Workers == {0}

Healthy ==
    [source |-> "daemon", phase |-> "serving", started |-> 1, shutting_down |-> FALSE,
     listeners |-> {"bound", "not_configured"},
     workers |-> [w \in Workers |-> [running |-> TRUE, exited |-> FALSE]],
     shards |-> [i \in Shards |-> [state |-> "up", worker |-> TRUE, blocked |-> None,
                                   active |-> None]],
     wab_cap |-> [rejecting |-> FALSE, scan_age |-> 1, growing |-> FALSE],
     channel |-> [high |-> None],
     drain |-> [state |-> "draining", pause_requested |-> FALSE, paused |-> FALSE,
                exit |-> "running", commit |-> None, busy |-> None, heartbeat |-> 1,
                progress |-> 1],
     sink |-> [health |-> "healthy", success |-> 1, failures |-> 0],
     backlog |-> [segments |-> 0, oldest |-> None, dead_letter |-> 0, quarantine |-> 0],
     recent |-> [ack_timeouts |-> 0, fsync_failures |-> 0, flusher_panics |-> 0,
                 stranded |-> 0, coalesce_slow |-> FALSE, recovery_failed |-> 0,
                 copy_failed |-> 0],
     reload |-> [tls_last_failed |-> FALSE],
     admin |-> [enabled |-> TRUE, state |-> "listening"],
     config |-> [commit_timeout |-> 1, health_poll |-> 1, dead_letter_max |-> 5,
                 sink_type |-> "http", max_age |-> 0, max_lifetime |-> 0]]

ViewInit == evidence = Healthy /\ deviations = 0
ViewRests == evidence = None /\ deviations = MaxDeviations

\* One fact changes; shard_evidence derives a shard's worker from the workers.
LifeChanges(e) ==
    {[e EXCEPT !.phase = p, !.shutting_down = (p = "shutting_down")] :
        p \in {Phases[i] : i \in DOMAIN Phases}}
    \cup {[e EXCEPT !.listeners = {l}] : l \in {"pending", "failed", "closed"}}
    \cup {[e EXCEPT !.wab_cap.rejecting = TRUE],
          [e EXCEPT !.wab_cap.scan_age = None], [e EXCEPT !.wab_cap.scan_age = 3],
          [e EXCEPT !.wab_cap.growing = None], [e EXCEPT !.wab_cap.growing = TRUE]}
    \cup {[e EXCEPT !.channel = [high |-> a]] : a \in Ages}
    \cup {[e EXCEPT !.channel = None]}

WorkersDown(e, exited) ==
    [e EXCEPT !.workers = [w \in Workers |-> [running |-> FALSE, exited |-> exited]],
              !.shards = [i \in Shards |-> [e.shards[i] EXCEPT !.worker = FALSE]]]

IngestChanges(e) ==
    {[e EXCEPT !.shards[i].state = s] :
        i \in Shards, s \in {"starting", "respawning", "offline", "stopped"}}
    \cup {[e EXCEPT !.shards[i].blocked = a] : i \in Shards, a \in Ages}
    \cup {[e EXCEPT !.shards[i].active = a] : i \in Shards, a \in Ages}
    \cup {WorkersDown(e, exited) : exited \in BOOLEAN}

DrainBeats(e, a, p) == [e EXCEPT !.drain.heartbeat = a, !.drain.progress = p]

DrainChanges(e) ==
    IF e.drain.exit # "running" THEN {}
    ELSE {[e EXCEPT !.drain.state = s] : s \in {"retrying", "blocked_dead_letter_full"}}
         \cup {[e EXCEPT !.drain.state = "stopped",
                         !.drain.exit = IF e.shutting_down THEN "stopped" ELSE "gave_up"],
               [e EXCEPT !.drain.pause_requested = TRUE],
               [e EXCEPT !.drain.pause_requested = TRUE, !.drain.paused = TRUE]}
         \cup {[e EXCEPT !.drain.commit = a] : a \in Ages}
         \cup {[e EXCEPT !.drain.busy = [sink_call |-> k, age |-> a]] :
                  k \in BOOLEAN, a \in Ages}
         \cup {DrainBeats(e, a, p) : a \in Ages, p \in 0 .. 1}

DeliveryChanges(e) ==
    {[e EXCEPT !.backlog.segments = 1], [e EXCEPT !.backlog.dead_letter = 4],
     [e EXCEPT !.backlog.quarantine = 1]}
    \cup {[e EXCEPT !.backlog.oldest = a] : a \in Ages}
    \cup {[e EXCEPT !.sink.health = h] : h \in {None, "degraded", "down"}}
    \cup {[e EXCEPT !.sink.success = a] : a \in Ages \cup {None}}
    \cup {[e EXCEPT !.sink.failures = n] : n \in 1 .. 3}
    \cup {[e EXCEPT !.started = a] : a \in Ages}
    \cup {[e EXCEPT !.config.dead_letter_max = 0], [e EXCEPT !.config.max_age = 1],
          [e EXCEPT !.config.sink_type = "noop"]}

EventChanges(e) ==
    {[e EXCEPT !.recent[f] = 1] :
        f \in {"ack_timeouts", "fsync_failures", "flusher_panics", "stranded",
               "recovery_failed", "copy_failed"}}
    \cup {[e EXCEPT !.recent.stranded = None],
          [e EXCEPT !.recent.coalesce_slow = TRUE],
          [e EXCEPT !.reload.tls_last_failed = TRUE],
          [e EXCEPT !.admin.state = "unavailable"], [e EXCEPT !.admin.enabled = FALSE]}

ViewNext ==
    /\ deviations < MaxDeviations
    /\ deviations' = deviations + 1
    /\ \/ evidence' \in LifeChanges(evidence)
       \/ evidence' \in IngestChanges(evidence)
       \/ evidence' \in DrainChanges(evidence)
       \/ evidence' \in DeliveryChanges(evidence)
       \/ evidence' \in EventChanges(evidence)

ViewSpec == ViewInit /\ [][ViewNext]_viewVars

-----------------------------------------------------------------------------
(* What the evaluation promises *)

\* What a reader can lack: any of these sub-records (evidence.rs, all Option).
Forgettable == {"phase", "shutting_down", "listeners", "workers", "shards", "wab_cap",
                "channel", "drain", "sink", "backlog", "recent", "reload", "admin",
                "config", "started"}

\* weir-status rules.rs and probe.rs: evidence that is missing never reads as
\* good news: it turns no active condition inactive and makes no daemon ready;
\* and it never orders a restart: it fails no /livez that passed.
ForgettingNeverHeals ==
    \A f \in Forgettable :
        LET e == [evidence EXCEPT ![f] = None]
            verdict == rule(e)
        IN
        /\ \A c \in evaluate(evidence) : verdict[c] # Inactive
        /\ readiness(e) => readiness(evidence)
        /\ liveness(evidence, LivezChecks) => liveness(e, LivezChecks)

\* weir-status exposition.rs: weir-ctl, reading the gauges of a serving daemon,
\* never calls inactive a condition the daemon itself has active, and never
\* calls ready a daemon that is not.  A pause that was asked for and is not in
\* effect has no gauge; shards that only start count as offline, all of them.
ScrapeNeverHealthier ==
    evidence.phase = "serving" =>
        LET scrape == evidence_from_metrics(publish_gauges(evidence))
            verdict == rule(scrape)
        IN
        /\ \A c \in evaluate(evidence) :
              \/ verdict[c] # Inactive
              \/ c = "drain_paused" /\ ~evidence.drain.paused
              \/ c = "shard_offline" /\ verdict.no_live_shard = Active
        /\ readiness(scrape) => readiness(evidence)

\* Neither lost evidence nor the detour by the gauges makes a daemon look better.
StatusNeverFlatters == evidence # None => ForgettingNeverHeals /\ ScrapeNeverHealthier
=============================================================================
