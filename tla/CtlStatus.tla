----------------------------- MODULE CtlStatus -----------------------------
(***************************************************************************)
(* `weir-ctl status` (weir-ctl/src/status.rs): one run asks the admin       *)
(* socket, then GET /status, then /metrics with the disk beside it, then    *)
(* the disk alone, and exits by the verdict of the first that answers.      *)
(* Between two questions the daemon changes, stops, republishes its gauges, *)
(* and its drain seals, confirms and deletes the segments the scan reads.   *)
(***************************************************************************)
EXTENDS StatusView

CONSTANTS
    MaxTurns,     \* bound: changes of the daemon while the run asks
    MaxSegment    \* segments of the wab_dir: 1 .. MaxSegment

ASSUME CtlStatusBounds == MaxTurns \in Nat /\ MaxSegment \in Nat

VARIABLES
    daemon,       \* up, its release, who holds its admin socket, its evidence
    published,    \* the evidence its poll last wrote to the gauges
    files,        \* what each segment's directory entries say
    turns,        \* bound
    run,          \* the status run: mode, position, answer
    scan,         \* the disk scan of the run: the listing and whether it could be had,
                  \* the tallies; began: what the files were then
    witnessed     \* history: the daemon's verdicts since the gauges on display

ctlVars == <<daemon, published, files, turns, run, scan, witnessed>>

Segs == 1 .. MaxSegment
SourceMode == {"auto", "admin", "http", "metrics", "disk"}

\* What the daemon can be: healthy, refusing, delivering nothing, on its way.
Views ==
    {Healthy, [Healthy EXCEPT !.wab_cap.rejecting = TRUE],
     [Healthy EXCEPT !.drain.state = "stopped", !.drain.exit = "gave_up"],
     [Healthy EXCEPT !.phase = "shutting_down", !.shutting_down = TRUE],
     [Healthy EXCEPT !.phase = "recovering", !.listeners = {"pending"}]}

FileStates == {"active", "sealed", "confirmed", "sidecar", "gone"}
Lists(s) == [active |-> {"active"}, sealed |-> {"sealed"},
             confirmed |-> {"sealed", "confirmed"}, sidecar |-> {"confirmed"},
             gone |-> {}][s]

-----------------------------------------------------------------------------
(* The documents: the daemon's two, and the one weir-ctl makes itself. *)

SCHEMA == "weir.status/v1"

\* AdminStatusDoc::build over the evidence, its bounds of 256 shards and 40
\* conditions above what a model reaches.
drain_view(d) == [state |-> d.state, paused |-> d.paused, exit |-> d.exit, paused_by |-> "uid"]
sink_view(s) == [health |-> s.health, failures |-> s.failures, probe_reason |-> "text"]
render_admin_doc(e) ==
    [schema |-> SCHEMA, view |-> "admin", instance |-> "wab_dir",
     ready |-> readiness(e), live |-> liveness(e, LivezChecks),
     conditions |-> {[code |-> c, critical |-> c \in CriticalCodes, detail |-> "text"] :
                        c \in evaluate(e)},
     drain |-> drain_view(e.drain), sink |-> sink_view(e.sink)]

\* The public projection: the same verdict and conditions, without the free text,
\* the identity of the instance and the operator's uid.
public_condition(c) == [code |-> c.code, critical |-> c.critical]
public_drain(d) == [state |-> d.state, paused |-> d.paused, exit |-> d.exit]
public_sink(s) == [health |-> s.health, failures |-> s.failures]
public(doc) ==
    [schema |-> doc.schema, view |-> "public", ready |-> doc.ready, live |-> doc.live,
     conditions |-> {public_condition(c) : c \in doc.conditions},
     drain |-> public_drain(doc.drain), sink |-> public_sink(doc.sink)]

\* What GET /status answers.
public_doc(e) == public(render_admin_doc(e))

\* One exit table for every source: not ready wins over critical.
StatusExit(ready, any_critical) == IF ~ready THEN 1 ELSE IF any_critical THEN 3 ELSE 0
Unreachable == 2

daemon_doc_exit(doc) == StatusExit(doc.ready, \E c \in doc.conditions : c.critical)

\* A 4.0 exposition has no phase, verdict, shard or worker series.
old_evidence(e) ==
    [evidence_from_metrics(publish_gauges(e)) EXCEPT
        !.phase = None, !.shutting_down = None, !.listeners = None, !.workers = None,
        !.shards = None, !.backlog = None]

disk_backlog_evidence(n) ==
    [segments |-> n, oldest |-> None, dead_letter |-> 0, quarantine |-> 0]

\* weir_ready and weir_condition_active as they are; of an older daemon the same
\* rules run here, with the disk's backlog where the scrape has none.
metrics_exit(release, e, undelivered) ==
    IF release = "4.1"
    THEN StatusExit(readiness(e), evaluate(e) \cap CriticalCodes # {})
    ELSE LET o == old_evidence(e)
             b == IF undelivered = None THEN o
                  ELSE [o EXCEPT !.source = "metrics_and_disk",
                                 !.backlog = disk_backlog_evidence(undelivered)]
         IN exit_code(b)

offline_conditions(undelivered, active) ==
    {"daemon_unreachable"} \cup IF undelivered + active = 0 THEN {} ELSE {"recovery_pending"}

-----------------------------------------------------------------------------

NoRun == [mode |-> "auto", at |-> "unasked", code |-> None, source |-> None,
          shown |-> {}, release |-> None, scraped |-> None]
NoScan == [at |-> "idle", listed |-> FALSE, todo |-> {}, sealed |-> 0, undelivered |-> {}, active |-> {},
           began |-> [s \in Segs |-> "gone"]]

CtlRests ==
    /\ daemon = [up |-> FALSE, release |-> "4.1", socket |-> "nobody", evidence |-> Healthy]
    /\ published = Healthy
    /\ files = [s \in Segs |-> "gone"]
    /\ turns = MaxTurns /\ run = NoRun /\ scan = NoScan
    /\ witnessed = {}

ReadyCritical(e) == <<readiness(e), evaluate(e) \cap CriticalCodes # {}>>

CtlInit ==
    /\ daemon \in [up : BOOLEAN, release : {"4.0", "4.1"},
                   socket : {"daemon", "impostor", "nobody"}, evidence : Views]
    /\ daemon.release = "4.0" => daemon.socket # "daemon"
    /\ published = daemon.evidence
    /\ files \in [Segs -> FileStates]
    /\ turns = 0 /\ scan = NoScan
    /\ \E m \in SourceMode : run = [NoRun EXCEPT !.mode = m, !.at = "admin"]
    /\ witnessed = {ReadyCritical(daemon.evidence)}

-----------------------------------------------------------------------------
(* The run *)

want(m) == run.mode \in {"auto", m}

\* StatusOutcome: the document as shown, where it came from, the exit code.
finish(code, source, shown) ==
    run' = [run EXCEPT !.at = "done", !.code = code, !.source = source, !.shown = shown]

Codes(doc) == {c.code : c \in doc.conditions}
Moves(to) == run' = [run EXCEPT !.at = to]

\* A peer that fails the identity check ends the run; anything else is skipped.
AskAdmin ==
    /\ run.at = "admin"
    /\ \/ /\ want("admin") /\ daemon.socket = "impostor"
          /\ finish(Unreachable, "identity", {})
       \/ /\ want("admin") /\ daemon.up /\ daemon.socket = "daemon"
          /\ LET doc == render_admin_doc(daemon.evidence) IN
             finish(daemon_doc_exit(doc), "admin", Codes(doc))
       \/ ~(want("admin") /\ daemon.socket = "impostor") /\ Moves("http")
    /\ UNCHANGED <<daemon, published, files, turns, scan, witnessed>>

\* A 4.0 daemon answers /status with its metrics: not JSON, skipped.
AskHttp ==
    /\ run.at = "http"
    /\ \/ /\ want("http") /\ daemon.up /\ daemon.release = "4.1"
          /\ LET doc == public_doc(daemon.evidence) IN
             finish(daemon_doc_exit(doc), "http", Codes(doc))
       \/ Moves("metrics")
    /\ UNCHANGED <<daemon, published, files, turns, scan, witnessed>>

Scrape ==
    /\ run.at = "metrics"
    /\ \/ /\ want("metrics") /\ daemon.up
          /\ run' = [run EXCEPT !.at = "scrape_disk", !.release = daemon.release,
                                !.scraped = published]
       \/ Moves("disk")
    /\ UNCHANGED <<daemon, published, files, turns, scan, witnessed>>

Scanning == run.at = "scrape_disk" \/ (run.at = "disk" /\ want("disk"))

\* What the run makes of the scan, or of its failure (undelivered = None).
Conclude(undelivered, active) ==
    IF run.at = "scrape_disk"
    THEN finish(metrics_exit(run.release, run.scraped, undelivered), "metrics", {})
    ELSE IF undelivered = None THEN finish(Unreachable, "none", {"daemon_unreachable"})
    ELSE finish(1, "disk", offline_conditions(undelivered, active))

\* The wab_dir cannot be listed, or this mode does not look at it.
ScanRefused ==
    /\ run.at \in {"scrape_disk", "disk"} /\ scan.at = "idle"
    /\ Conclude(None, 0)
    /\ UNCHANGED <<daemon, published, files, turns, scan, witnessed>>

\* scan_shard: one listing, then the files in it one by one.  A shard whose entry
\* in the wab_dir or whose own directory cannot be read is taken for an empty one.
Entries == UNION {{s} \X (Lists(files[s]) \ {"confirmed"}) : s \in Segs}
ListSegments ==
    /\ Scanning /\ scan.at = "idle"
    /\ \E listed \in BOOLEAN :
          scan' = [NoScan EXCEPT !.at = "files", !.listed = listed, !.began = files,
                                 !.todo = IF listed THEN Entries ELSE {}]
    /\ UNCHANGED <<daemon, published, files, turns, run, witnessed>>

NextFile == CHOOSE f \in scan.todo : \A g \in scan.todo : f[1] <= g[1]

\* Mutant: a delivered segment whose delete is pending counts as a backlog.
CheckSidecarNever ==
    /\ scan.at = "files" /\ scan.todo # {} /\ NextFile[2] = "sealed"
    /\ scan' = [scan EXCEPT !.at = "opens", !.sealed = NextFile[1]]
    /\ UNCHANGED <<daemon, published, files, turns, run, witnessed>>

\* A sealed segment with its sidecar was delivered: only the delete is pending.
CheckSidecar ==
    /\ scan.at = "files" /\ scan.todo # {} /\ NextFile[2] = "sealed"
    /\ scan' = IF "confirmed" \in Lists(files[NextFile[1]])
               THEN [scan EXCEPT !.todo = @ \ {NextFile}]
               ELSE [scan EXCEPT !.at = "opens", !.sealed = NextFile[1]]
    /\ UNCHANGED <<daemon, published, files, turns, run, witnessed>>

\* read_sealed_meta: NotFound is skipped, an unreadable segment still counts.
OpenSealed ==
    /\ scan.at = "opens"
    /\ scan' = [scan EXCEPT !.at = "files", !.todo = @ \ {NextFile},
                    !.undelivered = IF "sealed" \in Lists(files[scan.sealed])
                                    THEN @ \cup {scan.sealed} ELSE @]
    /\ UNCHANGED <<daemon, published, files, turns, run, witnessed>>

OpenActive ==
    /\ scan.at = "files" /\ scan.todo # {} /\ NextFile[2] = "active"
    /\ scan' = [scan EXCEPT !.todo = @ \ {NextFile},
                    !.active = IF files[NextFile[1]] = "active"
                               THEN @ \cup {NextFile[1]} ELSE @]
    /\ UNCHANGED <<daemon, published, files, turns, run, witnessed>>

DiskScanEnds ==
    /\ scan.at = "files" /\ scan.todo = {}
    /\ scan' = [scan EXCEPT !.at = "done"]
    /\ Conclude(Cardinality(scan.undelivered), Cardinality(scan.active))
    /\ UNCHANGED <<daemon, published, files, turns, witnessed>>

-----------------------------------------------------------------------------
(* The daemon meanwhile *)

Turns ==
    /\ turns < MaxTurns /\ daemon.up /\ run.at \notin {"unasked", "done"}
    /\ turns' = turns + 1

DaemonChanges(e) ==
    /\ Turns
    /\ daemon' = [daemon EXCEPT !.evidence = e]
    /\ witnessed' = witnessed \cup {ReadyCritical(e)}
    /\ UNCHANGED <<published, files, run, scan>>

DaemonStops ==
    /\ Turns
    /\ daemon' = [daemon EXCEPT !.up = FALSE,
                                !.socket = IF @ = "daemon" THEN "nobody" ELSE @]
    /\ UNCHANGED <<published, files, run, scan, witnessed>>

PollPublishes ==
    /\ Turns /\ published # daemon.evidence
    /\ published' = daemon.evidence
    /\ UNCHANGED <<daemon, files, run, scan, witnessed>>

\* Seal; confirm; delete the segment; drop the sidecar.
SegmentMoves(s) ==
    /\ Turns /\ files[s] # "gone"
    /\ files' = [files EXCEPT ![s] = [active |-> "sealed", sealed |-> "confirmed",
                                      confirmed |-> "sidecar", sidecar |-> "gone"][@]]
    /\ UNCHANGED <<daemon, published, run, scan, witnessed>>

CtlNext ==
    \/ AskAdmin \/ AskHttp \/ Scrape \/ ScanRefused \/ ListSegments
    \/ CheckSidecar \/ OpenSealed \/ OpenActive \/ DiskScanEnds
    \/ \E e \in Views : DaemonChanges(e)
    \/ DaemonStops \/ PollPublishes
    \/ \E s \in Segs : SegmentMoves(s)

CtlSpec == CtlInit /\ [][CtlNext]_ctlVars

-----------------------------------------------------------------------------
(* What an exit code and a report may be taken to mean *)

\* weir-ctl/src/status.rs collect_status and weir-status exit.rs: whichever source
\* answered, and whatever changed between two questions, 0 and 3 say that the
\* daemon was ready, without and with a critical condition, at a moment since the
\* gauges on display were written; 1 says it was not, or that no daemon document
\* could be had; 2 only that nothing answered or that the peer was not the daemon,
\* which no later source may cover up.
ExitIsWitnessed ==
    run.at = "done" =>
        /\ run.code = 0 => <<TRUE, FALSE>> \in witnessed
        /\ run.code = 3 => <<TRUE, TRUE>> \in witnessed
        /\ run.code = 1 => \/ \E v \in witnessed : ~v[1]
                           \/ run.source = "disk" \/ run.release = "4.0"
        /\ (run.code = 2) = (run.source \in {"identity", "none"})
        /\ daemon.socket = "impostor" /\ want("admin") => run.source = "identity"

\* weir-ctl/src/offline.rs scan_shard, racing the writer and the drain over a
\* directory it could list: a sealed segment it leaves out has been delivered by
\* then, and an active one it leaves out has been sealed under its hands (which is
\* then in neither count); it counts no segment that was delivered before it began,
\* however far its clean-up had come, and none twice.
Delivered == {"confirmed", "sidecar", "gone"}
ScanIsHonest ==
    scan.at = "done" =>
        /\ scan.listed => \A s \in Segs :
              /\ scan.began[s] = "sealed" => s \in scan.undelivered \/ files[s] \in Delivered
              /\ scan.began[s] = "active" => s \in scan.active \/ files[s] # "active"
        /\ \A s \in scan.undelivered : scan.began[s] = "sealed"
        /\ \A s \in scan.active : scan.began[s] = "active"

\* What weir-ctl status exits with and what its disk scan counts is so.
ReportIsTrue == ExitIsWitnessed /\ ScanIsHonest
=============================================================================
