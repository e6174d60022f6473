---------------------------- MODULE StatusProofs ----------------------------
(***************************************************************************)
(* Proofs about what an operator is told: weir-ctl status, run against a   *)
(* daemon and a directory that move meanwhile (CtlStatus), and the rules   *)
(* that turn evidence into conditions and probes (Conditions, StatusView). *)
(* The evidence's readings of the drain are DrainStall's.                  *)
(***************************************************************************)
EXTENDS CtlStatus, DrainStall, TLAPS, FiniteSetTheorems, WellFoundedInduction

-----------------------------------------------------------------------------
(* weir-ctl status: the invariant *)

Places == {"unasked", "admin", "http", "metrics", "scrape_disk", "disk", "done"}
Tasks == Segs \X {"active", "sealed"}

\* What the run knows was so at some moment; past the admin socket there is no
\* impostor that it would have to name.
RunInv ==
    /\ run \in [mode : SourceMode, at : Places, code : {None, 0, 1, 2, 3},
                source : {None, "identity", "none", "admin", "http", "metrics", "disk"},
                shown : {run.shown}, release : {None, "4.0", "4.1"}, scraped : {run.scraped}]
    /\ daemon \in [up : BOOLEAN, release : {"4.0", "4.1"},
                   socket : {"daemon", "impostor", "nobody"}, evidence : {daemon.evidence}]
    /\ {ReadyCritical(daemon.evidence), ReadyCritical(published)} \subseteq witnessed
    /\ run.at = "scrape_disk" =>
          /\ ReadyCritical(run.scraped) \in witnessed
          /\ run.release \in {"4.0", "4.1"}
    /\ run.at \in {"http", "metrics", "scrape_disk", "disk"} =>
          ~(daemon.socket = "impostor" /\ want("admin"))
    /\ ExitIsWitnessed

\* What is left of the listing, and that no file of it goes back.
ScanInv ==
    /\ scan \in [at : {"idle", "files", "opens", "done"}, listed : BOOLEAN, todo : SUBSET Tasks,
                 sealed : Nat, undelivered : SUBSET Segs, active : SUBSET Segs,
                 began : [Segs -> FileStates]]
    /\ files \in [Segs -> FileStates]
    /\ scan.at \in {"files", "opens"} => run.at \in {"scrape_disk", "disk"}
    /\ scan.at = "opens" =>
          /\ scan.todo # {} /\ NextFile = <<scan.sealed, "sealed">>
          /\ scan.began[scan.sealed] = "confirmed" => files[scan.sealed] = "gone"
    /\ scan.at # "idle" => \A s \in Segs :
          /\ scan.began[s] = "confirmed" => files[s] \in Delivered
          /\ scan.began[s] = "sealed" => files[s] \in {"sealed"} \cup Delivered
          /\ <<s, "sealed">> \in scan.todo => scan.began[s] \in {"sealed", "confirmed"}
          /\ <<s, "active">> \in scan.todo => scan.began[s] = "active"
          /\ s \in scan.undelivered => scan.began[s] = "sealed"
          /\ s \in scan.active => scan.began[s] = "active"
          /\ scan.listed /\ scan.began[s] = "sealed" =>
                s \in scan.undelivered \/ <<s, "sealed">> \in scan.todo \/ files[s] \in Delivered
          /\ scan.listed /\ scan.began[s] = "active" =>
                s \in scan.active \/ <<s, "active">> \in scan.todo \/ files[s] # "active"
    /\ scan.at = "done" => scan.todo = {}

CtlInv == RunInv /\ ScanInv

-----------------------------------------------------------------------------
(* weir-ctl status: lemmas *)

\* scan_shard takes the listed files in order, so there is a next one.
LEMMA NextFileIsListed ==
    ASSUME NEW T, T \subseteq Tasks, T # {}
    PROVE  /\ \E f \in T : \A g \in T : f[1] <= g[1]
<1> DEFINE N == {f[1] : f \in T}
<1>1. N \subseteq Nat /\ N # {}
  BY CtlStatusBounds DEF Tasks, Segs
<1>2. PICK m \in N : \A n \in N : ~(<<n, m>> \in OpToRel(<, Nat))
  <2> HIDE DEF N
  <2> QED
    BY <1>1, NatLessThanWellFounded, WFMin
<1>3. OpToRel(<, Nat) = {ss \in Nat \X Nat : ss[1] < ss[2]}
  BY Zenon DEF OpToRel
<1>4. \A n \in N : ~(<<n, m>> \in {ss \in Nat \X Nat : ss[1] < ss[2]})
  <2> HIDE DEF N
  <2> QED
    BY <1>2, <1>3, Zenon
<1>5. \A n \in N : m <= n
  <2> HIDE DEF N
  <2> SUFFICES ASSUME NEW n \in N, ~(m <= n)
               PROVE  FALSE
    OBVIOUS
  <2>1. m \in Nat /\ n \in Nat /\ n < m
    BY <1>1
  <2>2. <<n, m>> \in Nat \X Nat /\ <<n, m>>[1] = n /\ <<n, m>>[2] = m
    BY <2>1
  <2> QED
    BY <1>4, <2>1, <2>2
<1>6. PICK f \in T : f[1] = m
  OBVIOUS
<1> QED
  BY <1>5, <1>6

\* One exit table: both documents of a daemon give the exit of its verdict.
LEMMA DocExits ==
    ASSUME NEW e
    PROVE  /\ daemon_doc_exit(render_admin_doc(e)) = StatusExit(ReadyCritical(e)[1], ReadyCritical(e)[2])
           /\ daemon_doc_exit(public_doc(e)) = StatusExit(ReadyCritical(e)[1], ReadyCritical(e)[2])
<1> DEFINE all == {[code |-> c, critical |-> c \in CriticalCodes, detail |-> "text"] : c \in evaluate(e)}
           pub == {public_condition(c) : c \in all}
           some == evaluate(e) \cap CriticalCodes # {}
<1>1. render_admin_doc(e).ready = readiness(e) /\ render_admin_doc(e).conditions = all
  BY DEF render_admin_doc
<1>2. public_doc(e).ready = readiness(e) /\ public_doc(e).conditions = pub
  BY <1>1 DEF public_doc, public
<1>3. (\E c \in all : c.critical) <=> some
  <2> HIDE DEF some
  <2>1. ASSUME NEW c \in all, c.critical PROVE some
    <3>1. PICK k \in evaluate(e) :
             c = [code |-> k, critical |-> k \in CriticalCodes, detail |-> "text"]
      BY <2>1
    <3>2. k \in CriticalCodes
      <4> HIDE DEF all
      <4> QED
        BY <2>1, <3>1
    <3> QED
      BY <3>1, <3>2 DEF some
  <2>2. ASSUME some PROVE \E c \in all : c.critical
    <3>1. PICK c \in evaluate(e) : c \in CriticalCodes
      BY <2>2 DEF some
    <3> DEFINE d == [code |-> c, critical |-> c \in CriticalCodes, detail |-> "text"]
    <3>2. d \in all
      BY <3>1
    <3>3. d.critical
      <4> HIDE DEF all
      <4> QED
        BY <3>1
    <3> HIDE DEF d, all
    <3> QED
      BY <3>2, <3>3
  <2> QED
    BY <2>1, <2>2
<1>4. (\E c \in pub : c.critical) <=> some
  <2>1. \A c \in all : public_condition(c).critical = c.critical
    BY DEF public_condition
  <2> HIDE DEF all
  <2> QED
    BY <1>3, <2>1
<1>5. ReadyCritical(e)[1] = readiness(e) /\ ReadyCritical(e)[2] = some
  BY DEF ReadyCritical
<1> HIDE DEF all, pub, some
<1> QED
  BY <1>1, <1>2, <1>3, <1>4, <1>5 DEF daemon_doc_exit, StatusExit

\* The verdict of a daemon is two truth values.
LEMMA VerdictIsTwo ==
    ASSUME NEW e
    PROVE  /\ ReadyCritical(e) = <<ReadyCritical(e)[1], ReadyCritical(e)[2]>>
           /\ ReadyCritical(e)[1] \in BOOLEAN /\ ReadyCritical(e)[2] \in BOOLEAN
BY DEF ReadyCritical, readiness

\* weir_ready and weir_condition_active as they are; a 4.0 exposition, which has no
\* phase, never makes a ready daemon.
LEMMA MetricsExits ==
    ASSUME NEW e, NEW n
    PROVE  /\ metrics_exit("4.1", e, n) = StatusExit(ReadyCritical(e)[1], ReadyCritical(e)[2])
           /\ metrics_exit("4.0", e, n) = 1
<1>1. metrics_exit("4.1", e, n) = StatusExit(ReadyCritical(e)[1], ReadyCritical(e)[2])
  BY DEF metrics_exit, ReadyCritical
<1> DEFINE g == publish_gauges(e)
           m == evidence_from_metrics(g)
           o == old_evidence(e)
           b == IF n = None THEN o
                  ELSE [o EXCEPT !.source = "metrics_and_disk", !.backlog = disk_backlog_evidence(n)]
<1>2. "phase" \in DOMAIN m
  <2> HIDE DEF g
  <2> QED
    BY DEF evidence_from_metrics
<1>3. o.phase = None /\ "phase" \in DOMAIN o
  <2> HIDE DEF m
  <2>1. o = [m EXCEPT !.phase = None, !.shutting_down = None, !.listeners = None, !.workers = None,
                      !.shards = None, !.backlog = None]
    BY DEF old_evidence, m
  <2> QED
    BY <1>2, <2>1
<1>4. b.phase = None
  <2> HIDE DEF o
  <2> QED
    BY <1>3
<1>5. ~readiness(b)
  <2> HIDE DEF b
  <2>1. starting(b) = "unevaluated"
    BY <1>4 DEF starting, Needs, Unevaluated
  <2> QED
    BY <2>1 DEF readiness, Inactive
<1>6. metrics_exit("4.0", e, n) = exit_code(b)
  <2> HIDE DEF g, m
  <2> QED
    BY DEF metrics_exit
<1> QED
  BY <1>1, <1>5, <1>6 DEF exit_code

-----------------------------------------------------------------------------
(* weir-ctl status: each step *)

\* An answer ends the run by a verdict that was witnessed, or by one of the two
\* codes that claim none.
Justified(code, source) ==
    /\ code \in {0, 1, 2, 3}
    /\ source \in {"identity", "none", "admin", "http", "metrics", "disk"}
    /\ code = 0 => <<TRUE, FALSE>> \in witnessed
    /\ code = 3 => <<TRUE, TRUE>> \in witnessed
    /\ code = 1 => \/ \E v \in witnessed : ~v[1]
                   \/ source = "disk" \/ run.release = "4.0"
    /\ (code = 2) = (source \in {"identity", "none"})
    /\ daemon.socket = "impostor" /\ want("admin") => source = "identity"

LEMMA FinishKeeps ==
    ASSUME RunInv, NEW code, NEW source, NEW shown, Justified(code, source),
           finish(code, source, shown), UNCHANGED <<daemon, published, witnessed>>
    PROVE  RunInv'
<1>1. /\ run'.mode = run.mode /\ run'.at = "done" /\ run'.code = code /\ run'.source = source
      /\ run'.shown = shown /\ run'.release = run.release /\ run'.scraped = run.scraped
      /\ run' = [mode |-> run'.mode, at |-> run'.at, code |-> run'.code, source |-> run'.source,
                 shown |-> run'.shown, release |-> run'.release, scraped |-> run'.scraped]
  BY DEF RunInv, finish
<1>2. run' \in [mode : SourceMode, at : Places, code : {None, 0, 1, 2, 3},
                source : {None, "identity", "none", "admin", "http", "metrics", "disk"},
                shown : {run'.shown}, release : {None, "4.0", "4.1"}, scraped : {run'.scraped}]
  BY <1>1 DEF RunInv, Justified, Places
<1>3. ExitIsWitnessed'
  BY <1>1 DEF Justified, ExitIsWitnessed, want
<1> QED
  BY <1>1, <1>2, <1>3 DEF RunInv

\* A verdict that was witnessed justifies its exit.
LEMMA VerdictJustifies ==
    ASSUME NEW e, ReadyCritical(e) \in witnessed,
           NEW source \in {"admin", "http", "metrics"},
           ~(daemon.socket = "impostor" /\ want("admin"))
    PROVE  Justified(StatusExit(ReadyCritical(e)[1], ReadyCritical(e)[2]), source)
<1> DEFINE v == ReadyCritical(e)
<1>1. v = <<v[1], v[2]>> /\ v[1] \in BOOLEAN /\ v[2] \in BOOLEAN
  BY VerdictIsTwo
<1> HIDE DEF v
<1>2. CASE ~v[1]
  BY <1>2 DEF Justified, StatusExit, v
<1>3. CASE v[1] /\ v[2]
  <2>1. v = <<TRUE, TRUE>>
    BY <1>1, <1>3
  <2> QED
    BY <1>3, <2>1 DEF Justified, StatusExit, v
<1>4. CASE v[1] /\ ~v[2]
  <2>1. v = <<TRUE, FALSE>>
    BY <1>1, <1>4
  <2> QED
    BY <1>4, <2>1 DEF Justified, StatusExit, v
<1> QED
  BY <1>1, <1>2, <1>3, <1>4

LEMMA MovesKeeps ==
    ASSUME RunInv, NEW to \in {"http", "metrics", "disk"}, run.at \notin {"unasked", "done"},
           ~(run.at = "admin" /\ want("admin") /\ daemon.socket = "impostor"),
           Moves(to), UNCHANGED <<daemon, published, witnessed>>
    PROVE  RunInv'
<1>1. /\ run'.mode = run.mode /\ run'.at = to /\ run'.code = run.code /\ run'.source = run.source
      /\ run'.shown = run.shown /\ run'.release = run.release /\ run'.scraped = run.scraped
      /\ run' = [mode |-> run'.mode, at |-> run'.at, code |-> run'.code, source |-> run'.source,
                 shown |-> run'.shown, release |-> run'.release, scraped |-> run'.scraped]
  BY DEF RunInv, Moves
<1>2. run' \in [mode : SourceMode, at : Places, code : {None, 0, 1, 2, 3},
                source : {None, "identity", "none", "admin", "http", "metrics", "disk"},
                shown : {run'.shown}, release : {None, "4.0", "4.1"}, scraped : {run'.scraped}]
  BY <1>1 DEF RunInv, Places
<1>3. ExitIsWitnessed'
  BY <1>1 DEF ExitIsWitnessed
<1>4. run.at \in Places
  BY DEF RunInv
<1> QED
  BY <1>1, <1>2, <1>3, <1>4 DEF RunInv, Places, want

\* Steps of the run that do not touch the scan.
LEMMA ScanUntouched ==
    ASSUME ScanInv, scan.at \notin {"files", "opens"}, UNCHANGED <<scan, files, witnessed>>
    PROVE  ScanInv'
BY DEF ScanInv, NextFile

LEMMA AskAdminKeeps ==
    ASSUME CtlInv, AskAdmin
    PROVE  CtlInv'
<1>1. ScanInv'
  BY ScanUntouched DEF CtlInv, AskAdmin, ScanInv
<1> USE DEF CtlInv
<1>2. CASE want("admin") /\ daemon.socket = "impostor" /\ finish(Unreachable, "identity", {})
  <2>1. Justified(2, "identity")
    BY DEF Justified
  <2> QED
    BY <1>1, <1>2, <2>1, FinishKeeps DEF AskAdmin, Unreachable
<1>3. CASE /\ want("admin") /\ daemon.up /\ daemon.socket = "daemon"
           /\ LET doc == render_admin_doc(daemon.evidence) IN
              finish(daemon_doc_exit(doc), "admin", Codes(doc))
  <2> DEFINE doc == render_admin_doc(daemon.evidence)
  <2>1. finish(daemon_doc_exit(doc), "admin", Codes(doc))
    BY <1>3
  <2>2. Justified(daemon_doc_exit(doc), "admin")
    <3> ReadyCritical(daemon.evidence) \in witnessed
      BY DEF RunInv
    <3> ~(daemon.socket = "impostor" /\ want("admin"))
      BY <1>3
    <3> QED
      BY VerdictJustifies, DocExits
  <2> HIDE DEF doc
  <2> QED
    BY <1>1, <2>1, <2>2, FinishKeeps DEF AskAdmin
<1>4. CASE ~(want("admin") /\ daemon.socket = "impostor") /\ Moves("http")
  BY <1>1, <1>4, MovesKeeps DEF AskAdmin
<1> QED
  BY <1>2, <1>3, <1>4 DEF AskAdmin

LEMMA AskHttpKeeps ==
    ASSUME CtlInv, AskHttp
    PROVE  CtlInv'
<1>1. ScanInv'
  BY ScanUntouched DEF CtlInv, AskHttp, ScanInv
<1> USE DEF CtlInv
<1>2. CASE /\ want("http") /\ daemon.up /\ daemon.release = "4.1"
           /\ LET doc == public_doc(daemon.evidence) IN
              finish(daemon_doc_exit(doc), "http", Codes(doc))
  <2> DEFINE doc == public_doc(daemon.evidence)
  <2>1. finish(daemon_doc_exit(doc), "http", Codes(doc))
    BY <1>2
  <2>2. Justified(daemon_doc_exit(doc), "http")
    <3> ReadyCritical(daemon.evidence) \in witnessed
      BY DEF RunInv
    <3> ~(daemon.socket = "impostor" /\ want("admin"))
      BY DEF RunInv, AskHttp
    <3> QED
      BY VerdictJustifies, DocExits
  <2> HIDE DEF doc
  <2> QED
    BY <1>1, <2>1, <2>2, FinishKeeps DEF AskHttp
<1>3. CASE Moves("metrics")
  BY <1>1, <1>3, MovesKeeps DEF AskHttp
<1> QED
  BY <1>2, <1>3 DEF AskHttp

LEMMA ScrapeKeeps ==
    ASSUME CtlInv, Scrape
    PROVE  CtlInv'
<1>1. ScanInv'
  BY ScanUntouched DEF CtlInv, Scrape, ScanInv
<1> USE DEF CtlInv
<1>2. CASE Moves("disk")
  BY <1>1, <1>2, MovesKeeps DEF Scrape
<1>3. CASE run' = [run EXCEPT !.at = "scrape_disk", !.release = daemon.release, !.scraped = published]
  <2>1. /\ run'.mode = run.mode /\ run'.at = "scrape_disk" /\ run'.code = run.code
        /\ run'.source = run.source /\ run'.shown = run.shown
        /\ run'.release = daemon.release /\ run'.scraped = published
        /\ run' = [mode |-> run'.mode, at |-> run'.at, code |-> run'.code, source |-> run'.source,
                   shown |-> run'.shown, release |-> run'.release, scraped |-> run'.scraped]
    BY <1>3 DEF RunInv
  <2>2. daemon.release \in {"4.0", "4.1"}
    BY DEF RunInv
  <2>3. run' \in [mode : SourceMode, at : Places, code : {None, 0, 1, 2, 3},
                  source : {None, "identity", "none", "admin", "http", "metrics", "disk"},
                  shown : {run'.shown}, release : {None, "4.0", "4.1"}, scraped : {run'.scraped}]
    BY <2>1, <2>2 DEF RunInv, Places
  <2>4. ExitIsWitnessed'
    BY <2>1 DEF ExitIsWitnessed
  <2>5. RunInv'
    BY <2>1, <2>2, <2>3, <2>4 DEF RunInv, Scrape, want
  <2> QED
    BY <1>1, <2>5
<1> QED
  BY <1>2, <1>3 DEF Scrape

\* What the run concludes from a scan or from its failure is justified.
LEMMA ConcludeKeeps ==
    ASSUME RunInv, NEW undelivered, NEW active, run.at \in {"scrape_disk", "disk"},
           Conclude(undelivered, active), UNCHANGED <<daemon, published, witnessed>>
    PROVE  RunInv' /\ run'.at = "done"
<1>0. ~(daemon.socket = "impostor" /\ want("admin"))
  BY DEF RunInv
<1>a. ASSUME NEW code, NEW source, NEW shown, finish(code, source, shown) PROVE run'.at = "done"
  BY <1>a DEF finish, RunInv
<1>1. CASE run.at = "scrape_disk"
  <2> DEFINE code == metrics_exit(run.release, run.scraped, undelivered)
  <2>1. finish(code, "metrics", {})
    BY <1>1 DEF Conclude
  <2>2. Justified(code, "metrics")
    <3>1. CASE run.release = "4.1"
      <4>1. code = StatusExit(ReadyCritical(run.scraped)[1], ReadyCritical(run.scraped)[2])
        BY <3>1, MetricsExits
      <4>2. ReadyCritical(run.scraped) \in witnessed
        BY <1>1 DEF RunInv
      <4> HIDE DEF code
      <4> QED
        BY <1>0, <4>1, <4>2, VerdictJustifies
    <3>2. CASE run.release = "4.0"
      <4>1. code = 1
        BY <3>2, MetricsExits
      <4> QED
        BY <1>0, <3>2, <4>1 DEF Justified
    <3> QED
      BY <1>1, <3>1, <3>2 DEF RunInv
  <2> HIDE DEF code
  <2> QED
    BY <1>a, <2>1, <2>2, FinishKeeps
<1>2. CASE run.at = "disk" /\ undelivered = None
  <2>1. finish(2, "none", {"daemon_unreachable"})
    BY <1>2 DEF Conclude, Unreachable
  <2>2. Justified(2, "none")
    BY <1>0 DEF Justified
  <2> QED
    BY <1>a, <2>1, <2>2, FinishKeeps
<1>3. CASE run.at = "disk" /\ undelivered # None
  <2>1. finish(1, "disk", offline_conditions(undelivered, active))
    BY <1>3 DEF Conclude
  <2>2. Justified(1, "disk")
    BY <1>0 DEF Justified
  <2> QED
    BY <1>a, <2>1, <2>2, FinishKeeps
<1> QED
  BY <1>1, <1>2, <1>3

LEMMA ScanRefusedKeeps ==
    ASSUME CtlInv, ScanRefused
    PROVE  CtlInv'
<1>1. ScanInv'
  BY ScanUntouched DEF CtlInv, ScanRefused
<1>2. RunInv'
  BY ConcludeKeeps DEF CtlInv, ScanRefused
<1> QED
  BY <1>1, <1>2 DEF CtlInv

LEMMA DiskScanEndsKeeps ==
    ASSUME CtlInv, DiskScanEnds
    PROVE  CtlInv'
<1>1. RunInv' /\ run'.at = "done"
  BY ConcludeKeeps DEF CtlInv, ScanInv, DiskScanEnds
<1>2. ScanInv'
  <2>1. /\ scan'.at = "done" /\ scan'.todo = scan.todo /\ scan'.sealed = scan.sealed
        /\ scan'.undelivered = scan.undelivered /\ scan'.active = scan.active
        /\ scan'.began = scan.began /\ scan'.listed = scan.listed
        /\ scan' \in [at : {"idle", "files", "opens", "done"}, listed : BOOLEAN, todo : SUBSET Tasks,
                      sealed : Nat, undelivered : SUBSET Segs, active : SUBSET Segs,
                      began : [Segs -> FileStates]]
    BY DEF CtlInv, ScanInv, DiskScanEnds
  <2> QED
    BY <2>1 DEF CtlInv, ScanInv, DiskScanEnds
<1> QED
  BY <1>1, <1>2 DEF CtlInv

\* Steps of the scan that leave the run alone.
LEMMA RunUntouched ==
    ASSUME RunInv, UNCHANGED <<daemon, published, run>>, witnessed' = witnessed
    PROVE  RunInv'
<1>1. ExitIsWitnessed'
  BY DEF RunInv, ExitIsWitnessed, want
<1> QED
  BY <1>1 DEF RunInv, want

LEMMA ListSegmentsKeeps ==
    ASSUME CtlInv, ListSegments
    PROVE  CtlInv'
<1>1. RunInv'
  BY RunUntouched DEF CtlInv, ListSegments
<1>0. files \in [Segs -> FileStates]
  BY DEF CtlInv, ScanInv
<1>2. \A s \in Segs : /\ "confirmed" # "sealed"
                      /\ <<s, "sealed">> \in Entries <=> files[s] \in {"sealed", "confirmed"}
                      /\ <<s, "active">> \in Entries <=> files[s] = "active"
  BY <1>0 DEF Entries, Lists, FileStates
<1>3. Entries \in SUBSET Tasks
  BY <1>0 DEF Entries, Lists, FileStates, Tasks
<1>4. PICK listed \in BOOLEAN :
         scan' = [NoScan EXCEPT !.at = "files", !.listed = listed, !.began = files,
                                !.todo = IF listed THEN Entries ELSE {}]
  BY DEF ListSegments
<1> DEFINE todo == IF listed THEN Entries ELSE {}
<1>5. todo \in SUBSET Tasks
  BY <1>3
<1> HIDE DEF todo
<1>6. /\ scan'.at = "files" /\ scan'.todo = todo /\ scan'.undelivered = {} /\ scan'.active = {}
      /\ scan'.began = files /\ scan'.listed = listed
      /\ scan' \in [at : {"idle", "files", "opens", "done"}, listed : BOOLEAN, todo : SUBSET Tasks,
                    sealed : Nat, undelivered : SUBSET Segs, active : SUBSET Segs,
                    began : [Segs -> FileStates]]
  BY <1>0, <1>4, <1>5 DEF NoScan, todo
<1>7. \A s \in Segs : /\ <<s, "sealed">> \in todo => files[s] \in {"sealed", "confirmed"}
                      /\ <<s, "active">> \in todo => files[s] = "active"
                      /\ listed /\ files[s] = "sealed" => <<s, "sealed">> \in todo
                      /\ listed /\ files[s] = "active" => <<s, "active">> \in todo
  BY <1>2 DEF todo
<1>8. run.at \in {"scrape_disk", "disk"} /\ files' = files /\ run' = run
  BY DEF ListSegments, Scanning
<1>9. ScanInv'
  BY <1>0, <1>6, <1>7, <1>8 DEF ScanInv, Delivered
<1> QED
  BY <1>1, <1>9 DEF CtlInv

LEMMA CheckSidecarKeeps ==
    ASSUME CtlInv, CheckSidecar
    PROVE  CtlInv'
<1>1. RunInv'
  BY RunUntouched DEF CtlInv, CheckSidecar
<1> USE DEF CtlInv
<1>2. /\ scan \in [at : {"idle", "files", "opens", "done"}, listed : BOOLEAN, todo : SUBSET Tasks,
                   sealed : Nat, undelivered : SUBSET Segs, active : SUBSET Segs,
                   began : [Segs -> FileStates]]
      /\ files \in [Segs -> FileStates]
  BY DEF ScanInv
<1>3. PICK s \in Segs : NextFile = <<s, "sealed">> /\ NextFile \in scan.todo
  <2>1. NextFile \in scan.todo
    <3>1. \E f \in scan.todo : \A g \in scan.todo : f[1] <= g[1]
      BY <1>2, NextFileIsListed DEF CheckSidecar
    <3> QED
      BY <3>1 DEF NextFile
  <2> QED
    BY <1>2, <2>1 DEF CheckSidecar, Tasks
<1>4. files[s] \in FileStates /\ scan.began[s] \in FileStates /\ s \in Nat
  BY <1>2, CtlStatusBounds DEF Segs
<1>5. /\ scan.began[s] \in {"sealed", "confirmed"}
      /\ scan.began[s] = "confirmed" => files[s] \in {"confirmed", "sidecar", "gone"}
  BY <1>3 DEF ScanInv, CheckSidecar, Delivered
<1>6. "confirmed" \in Lists(files[s]) <=> files[s] \in {"confirmed", "sidecar"}
  BY <1>4 DEF Lists, FileStates
<1>7. CASE files[s] \in {"confirmed", "sidecar"}
  <2>1. /\ scan'.at = scan.at /\ scan'.todo = scan.todo \ {<<s, "sealed">>}
        /\ scan'.undelivered = scan.undelivered /\ scan'.active = scan.active
        /\ scan'.began = scan.began /\ scan'.listed = scan.listed
        /\ scan' \in [at : {"idle", "files", "opens", "done"}, listed : BOOLEAN, todo : SUBSET Tasks,
                      sealed : Nat, undelivered : SUBSET Segs, active : SUBSET Segs,
                      began : [Segs -> FileStates]]
    <3>1. scan' = [scan EXCEPT !.todo = @ \ {<<s, "sealed">>}]
      BY <1>3, <1>6, <1>7 DEF CheckSidecar
    <3> QED
      BY <1>2, <3>1
  <2>2. scan.at = "files" /\ files' = files /\ witnessed' = witnessed /\ run' = run
    BY DEF CheckSidecar
  <2>3. \A t \in Segs : /\ <<t, "active">> # <<s, "sealed">>
                        /\ t # s => <<t, "sealed">> # <<s, "sealed">>
    OBVIOUS
  <2>4. files[s] \in Delivered
    BY <1>7 DEF Delivered
  <2>5. ScanInv'
    BY <2>1, <2>2, <2>3, <2>4 DEF ScanInv
  <2> QED
    BY <1>1, <2>5
<1>8. CASE files[s] \notin {"confirmed", "sidecar"}
  <2>1. /\ scan'.at = "opens" /\ scan'.todo = scan.todo /\ scan'.sealed = s
        /\ scan'.undelivered = scan.undelivered /\ scan'.active = scan.active
        /\ scan'.began = scan.began /\ scan'.listed = scan.listed
        /\ scan' \in [at : {"idle", "files", "opens", "done"}, listed : BOOLEAN, todo : SUBSET Tasks,
                      sealed : Nat, undelivered : SUBSET Segs, active : SUBSET Segs,
                      began : [Segs -> FileStates]]
    <3>1. scan' = [scan EXCEPT !.at = "opens", !.sealed = s]
      BY <1>3, <1>6, <1>8 DEF CheckSidecar
    <3> QED
      BY <1>2, <1>4, <3>1
  <2>2. scan.at = "files" /\ files' = files /\ witnessed' = witnessed /\ run' = run
    BY DEF CheckSidecar
  <2>3. scan.began[s] = "confirmed" => files[s] = "gone"
    BY <1>5, <1>8
  <2>4. NextFile' = <<s, "sealed">> /\ scan.todo # {}
    BY <1>3, <2>1 DEF NextFile
  <2>5. ScanInv'
    BY <2>1, <2>2, <2>3, <2>4 DEF ScanInv
  <2> QED
    BY <1>1, <2>5
<1> QED
  BY <1>7, <1>8

LEMMA OpenSealedKeeps ==
    ASSUME CtlInv, OpenSealed
    PROVE  CtlInv'
<1>1. RunInv'
  BY RunUntouched DEF CtlInv, OpenSealed
<1> USE DEF CtlInv
<1>2. /\ scan \in [at : {"idle", "files", "opens", "done"}, listed : BOOLEAN, todo : SUBSET Tasks,
                   sealed : Nat, undelivered : SUBSET Segs, active : SUBSET Segs,
                   began : [Segs -> FileStates]]
      /\ files \in [Segs -> FileStates]
  BY DEF ScanInv
<1> DEFINE s == scan.sealed
<1>3. NextFile = <<s, "sealed">> /\ NextFile \in scan.todo /\ s \in Segs
  <2>1. scan.todo # {} /\ NextFile = <<s, "sealed">>
    BY DEF ScanInv, OpenSealed
  <2>2. NextFile \in scan.todo
    <3>1. \E f \in scan.todo : \A g \in scan.todo : f[1] <= g[1]
      BY <1>2, <2>1, NextFileIsListed
    <3> QED
      BY <3>1 DEF NextFile
  <2> QED
    BY <1>2, <2>1, <2>2 DEF Tasks
<1> HIDE DEF s
<1>4. files[s] \in FileStates /\ scan.began[s] \in FileStates
  BY <1>2, <1>3
<1>5. /\ scan.began[s] \in {"sealed", "confirmed"}
      /\ scan.began[s] = "confirmed" => files[s] = "gone"
      /\ files[s] \in {"sealed"} \cup Delivered
  BY <1>3 DEF ScanInv, OpenSealed, s
<1>6. "sealed" \in Lists(files[s]) <=> files[s] \in {"sealed", "confirmed"}
  BY <1>4 DEF Lists, FileStates
<1> DEFINE more == IF files[s] \in {"sealed", "confirmed"} THEN {s} ELSE {}
<1>7. /\ scan'.at = "files" /\ scan'.todo = scan.todo \ {<<s, "sealed">>}
      /\ scan'.undelivered = scan.undelivered \cup more /\ scan'.active = scan.active
      /\ scan'.began = scan.began /\ scan'.listed = scan.listed
      /\ scan' \in [at : {"idle", "files", "opens", "done"}, listed : BOOLEAN, todo : SUBSET Tasks,
                    sealed : Nat, undelivered : SUBSET Segs, active : SUBSET Segs,
                    began : [Segs -> FileStates]]
  <2>1. scan' = [scan EXCEPT !.at = "files", !.todo = scan.todo \ {<<s, "sealed">>},
                             !.undelivered = scan.undelivered \cup more]
    BY <1>2, <1>3, <1>6 DEF OpenSealed, s
  <2>2. more \in SUBSET Segs
    BY <1>3
  <2> HIDE DEF more
  <2> QED
    BY <1>2, <2>1, <2>2
<1>8. scan.at = "opens" /\ files' = files /\ witnessed' = witnessed /\ run' = run
  BY DEF OpenSealed
<1>9. \A t \in Segs : /\ <<t, "active">> # <<s, "sealed">>
                      /\ t # s => <<t, "sealed">> # <<s, "sealed">>
  OBVIOUS
<1>10. /\ s \in more => scan.began[s] = "sealed"
       /\ s \in more \/ files[s] \in Delivered
       /\ \A t \in more : t = s
  BY <1>5
<1> HIDE DEF more
<1>11. ScanInv'
  BY <1>3, <1>7, <1>8, <1>9, <1>10 DEF ScanInv
<1> QED
  BY <1>1, <1>11

LEMMA OpenActiveKeeps ==
    ASSUME CtlInv, OpenActive
    PROVE  CtlInv'
<1>1. RunInv'
  BY RunUntouched DEF CtlInv, OpenActive
<1> USE DEF CtlInv
<1>2. /\ scan \in [at : {"idle", "files", "opens", "done"}, listed : BOOLEAN, todo : SUBSET Tasks,
                   sealed : Nat, undelivered : SUBSET Segs, active : SUBSET Segs,
                   began : [Segs -> FileStates]]
      /\ files \in [Segs -> FileStates]
  BY DEF ScanInv
<1>3. PICK s \in Segs : NextFile = <<s, "active">> /\ NextFile \in scan.todo
  <2>1. NextFile \in scan.todo
    <3>1. \E f \in scan.todo : \A g \in scan.todo : f[1] <= g[1]
      BY <1>2, NextFileIsListed DEF OpenActive
    <3> QED
      BY <3>1 DEF NextFile
  <2> QED
    BY <1>2, <2>1 DEF OpenActive, Tasks
<1>4. scan.began[s] = "active"
  BY <1>3 DEF ScanInv, OpenActive
<1> DEFINE more == IF files[s] = "active" THEN {s} ELSE {}
<1>5. /\ scan'.at = "files" /\ scan'.todo = scan.todo \ {<<s, "active">>}
      /\ scan'.undelivered = scan.undelivered /\ scan'.active = scan.active \cup more
      /\ scan'.began = scan.began /\ scan'.listed = scan.listed
      /\ scan' \in [at : {"idle", "files", "opens", "done"}, listed : BOOLEAN, todo : SUBSET Tasks,
                    sealed : Nat, undelivered : SUBSET Segs, active : SUBSET Segs,
                    began : [Segs -> FileStates]]
  <2>1. scan' = [scan EXCEPT !.todo = scan.todo \ {<<s, "active">>},
                             !.active = scan.active \cup more]
    BY <1>2, <1>3 DEF OpenActive
  <2>2. more \in SUBSET Segs
    BY <1>3
  <2>3. scan.at = "files"
    BY DEF OpenActive
  <2> HIDE DEF more
  <2> QED
    BY <1>2, <2>1, <2>2, <2>3
<1>6. scan.at = "files" /\ files' = files /\ witnessed' = witnessed /\ run' = run
  BY DEF OpenActive
<1>7. \A t \in Segs : /\ <<t, "sealed">> # <<s, "active">>
                      /\ t # s => <<t, "active">> # <<s, "active">>
  OBVIOUS
<1>8. /\ s \in more => scan.began[s] = "active"
      /\ s \in more \/ files[s] # "active"
      /\ \A t \in more : t = s
  BY <1>4
<1> HIDE DEF more
<1>9. ScanInv'
  BY <1>3, <1>5, <1>6, <1>7, <1>8 DEF ScanInv
<1> QED
  BY <1>1, <1>9

-----------------------------------------------------------------------------
(* weir-ctl status: the daemon meanwhile *)

LEMMA DaemonTurns ==
    ASSUME CtlInv, NEW e, DaemonChanges(e) \/ DaemonStops \/ PollPublishes
    PROVE  CtlInv'
<1> USE DEF CtlInv
<1>1. /\ UNCHANGED <<files, run, scan>> /\ run.at # "done"
      /\ witnessed \subseteq witnessed'
  BY DEF DaemonChanges, DaemonStops, PollPublishes, Turns, ScanInv
<1>2. ScanInv'
  BY <1>1 DEF ScanInv, NextFile
<1>3. /\ {ReadyCritical(daemon'.evidence), ReadyCritical(published')} \subseteq witnessed'
      /\ daemon' \in [up : BOOLEAN, release : {"4.0", "4.1"},
                      socket : {"daemon", "impostor", "nobody"}, evidence : {daemon'.evidence}]
      /\ daemon'.socket = "impostor" => daemon.socket = "impostor"
  <2>1. CASE DaemonChanges(e)
    <3>1. /\ daemon' = [daemon EXCEPT !.evidence = e] /\ published' = published
          /\ witnessed' = witnessed \cup {ReadyCritical(e)}
      BY <2>1 DEF DaemonChanges, ScanInv
    <3> QED
      BY <3>1 DEF RunInv
  <2>2. CASE DaemonStops
    BY <2>2 DEF DaemonStops, RunInv
  <2>3. CASE PollPublishes
    BY <2>3 DEF PollPublishes, RunInv
  <2> QED
    BY <2>1, <2>2, <2>3
<1>4. ExitIsWitnessed'
  BY <1>1 DEF ExitIsWitnessed
<1>5. RunInv'
  BY <1>1, <1>3, <1>4 DEF RunInv, want
<1> QED
  BY <1>2, <1>5

LEMMA SegmentMovesKeeps ==
    ASSUME CtlInv, NEW s \in Segs, SegmentMoves(s)
    PROVE  CtlInv'
<1> USE DEF CtlInv
<1>0. files \in [Segs -> FileStates]
  BY DEF ScanInv
<1>1. UNCHANGED <<daemon, published, run, scan, witnessed>>
  BY DEF SegmentMoves
<1>2. RunInv'
  BY <1>1, RunUntouched
<1>3. /\ files' \in [Segs -> FileStates]
      /\ \A t \in Segs : t # s => files'[t] = files[t]
      /\ files[s] \in {"sealed"} \cup Delivered => files'[s] \in Delivered
      /\ files'[s] # "active" /\ files[s] # "gone"
  <2> DEFINE step == [active |-> "sealed", sealed |-> "confirmed",
                      confirmed |-> "sidecar", sidecar |-> "gone"]
  <2>1. files' = [files EXCEPT ![s] = step[files[s]]] /\ files[s] # "gone" /\ files[s] \in FileStates
    BY <1>0 DEF SegmentMoves
  <2>2. /\ step[files[s]] \in FileStates
        /\ files[s] \in {"sealed"} \cup Delivered => step[files[s]] \in Delivered
        /\ step[files[s]] # "active"
    BY <2>1 DEF FileStates, Delivered
  <2> HIDE DEF step
  <2> QED
    BY <1>0, <2>1, <2>2
<1>4. NextFile' = NextFile
  BY <1>1 DEF NextFile
<1>5. scan.at = "opens" => scan.sealed \in Segs
  <2>1. SUFFICES ASSUME scan.at = "opens" PROVE scan.sealed \in Segs
    OBVIOUS
  <2>2. scan.todo # {} /\ NextFile = <<scan.sealed, "sealed">> /\ scan.todo \subseteq Tasks
    BY <2>1 DEF ScanInv
  <2>3. NextFile \in scan.todo
    <3>1. \E f \in scan.todo : \A g \in scan.todo : f[1] <= g[1]
      BY <2>2, NextFileIsListed
    <3> QED
      BY <3>1 DEF NextFile
  <2> QED
    BY <2>2, <2>3 DEF Tasks
<1>6. ScanInv'
  <2>1. \A t \in Segs : /\ files[t] \in Delivered => files'[t] \in Delivered
                        /\ files[t] \in {"sealed"} \cup Delivered =>
                              files'[t] \in {"sealed"} \cup Delivered
                        /\ files[t] # "active" => files'[t] # "active"
    BY <1>3
  <2>2. scan.at = "opens" /\ scan.began[scan.sealed] = "confirmed" => files'[scan.sealed] = "gone"
    BY <1>3, <1>5 DEF ScanInv
  <2> QED
    BY <1>1, <1>3, <1>4, <2>1, <2>2 DEF ScanInv
<1> QED
  BY <1>2, <1>6

-----------------------------------------------------------------------------
(* weir-ctl status: the theorems *)

\* The invariant of a status run and its scan, for any number of segments and of
\* changes of the daemon between two questions.
THEOREM CtlInvariance == CtlSpec => []CtlInv
<1>1. CtlInit => CtlInv
  <2> SUFFICES ASSUME CtlInit PROVE CtlInv
    OBVIOUS
  <2>1. PICK m \in SourceMode : run = [NoRun EXCEPT !.mode = m, !.at = "admin"]
    BY DEF CtlInit
  <2>2. run = [mode |-> m, at |-> "admin", code |-> None, source |-> None,
               shown |-> {}, release |-> None, scraped |-> None]
    BY <2>1 DEF NoRun
  <2>3. ExitIsWitnessed
    BY <2>2 DEF ExitIsWitnessed
  <2>4. witnessed = {ReadyCritical(daemon.evidence)} /\ published = daemon.evidence
    BY DEF CtlInit
  <2>5. daemon \in [up : BOOLEAN, release : {"4.0", "4.1"},
                    socket : {"daemon", "impostor", "nobody"}, evidence : {daemon.evidence}]
    <3> HIDE DEF Views
    <3> QED
      BY DEF CtlInit
  <2>6. RunInv
    BY <2>2, <2>3, <2>4, <2>5 DEF RunInv, Places
  <2>7. ScanInv
    <3>1. scan = NoScan /\ files \in [Segs -> FileStates]
      BY DEF CtlInit
    <3>2. /\ scan.at = "idle"
          /\ scan \in [at : {"idle", "files", "opens", "done"}, listed : BOOLEAN, todo : SUBSET Tasks,
                       sealed : Nat, undelivered : SUBSET Segs, active : SUBSET Segs,
                       began : [Segs -> FileStates]]
      BY <3>1 DEF NoScan, FileStates
    <3> QED
      BY <3>1, <3>2 DEF ScanInv
  <2> QED
    BY <2>6, <2>7 DEF CtlInv
<1>2. CtlInv /\ [CtlNext]_ctlVars => CtlInv'
  <2> SUFFICES ASSUME CtlInv, [CtlNext]_ctlVars PROVE CtlInv'
    OBVIOUS
  <2>1. CASE UNCHANGED ctlVars
    <3>1. ScanInv'
      BY <2>1 DEF CtlInv, ScanInv, ctlVars, NextFile
    <3>2. RunInv'
      BY <2>1, RunUntouched DEF CtlInv, ctlVars
    <3> QED
      BY <3>1, <3>2 DEF CtlInv
  <2>2. CASE CtlNext
    <3>1. CASE AskAdmin \/ AskHttp \/ Scrape \/ ScanRefused \/ ListSegments
               \/ CheckSidecar \/ OpenSealed \/ OpenActive \/ DiskScanEnds
      BY <3>1, AskAdminKeeps, AskHttpKeeps, ScrapeKeeps, ScanRefusedKeeps, ListSegmentsKeeps,
         CheckSidecarKeeps, OpenSealedKeeps, OpenActiveKeeps, DiskScanEndsKeeps
    <3>2. CASE (\E e \in Views : DaemonChanges(e)) \/ DaemonStops \/ PollPublishes
      <4>1. PICK e : DaemonChanges(e) \/ DaemonStops \/ PollPublishes
        BY <3>2
      <4> QED
        BY <4>1, DaemonTurns
    <3>3. CASE \E s \in Segs : SegmentMoves(s)
      BY <3>3, SegmentMovesKeeps
    <3> QED
      BY <2>2, <3>1, <3>2, <3>3 DEF CtlNext
  <2> QED
    BY <2>1, <2>2
<1> QED
  BY <1>1, <1>2, PTL DEF CtlSpec

\* ReportIsTrue (weir-ctl status.rs collect_status, offline.rs scan_shard): whatever
\* changes between two questions of a status run, however often, its exit code is a
\* verdict the daemon had, and its scan of any number of segments, where they could
\* be listed, leaves out only what was delivered or sealed meanwhile and counts
\* nothing that was delivered before.
THEOREM ReportsAreTrue == CtlSpec => []ReportIsTrue
<1>1. CtlInv => ReportIsTrue
  <2> SUFFICES ASSUME CtlInv PROVE ReportIsTrue
    OBVIOUS
  <2>1. ExitIsWitnessed
    BY DEF CtlInv, RunInv
  <2>2. ScanIsHonest
    <3> SUFFICES ASSUME scan.at = "done"
                 PROVE  /\ scan.listed => \A s \in Segs :
                              /\ scan.began[s] = "sealed" =>
                                    s \in scan.undelivered \/ files[s] \in Delivered
                              /\ scan.began[s] = "active" => s \in scan.active \/ files[s] # "active"
                        /\ \A s \in scan.undelivered : scan.began[s] = "sealed"
                        /\ \A s \in scan.active : scan.began[s] = "active"
      BY DEF ScanIsHonest
    <3>1. scan.todo = {} /\ scan.undelivered \subseteq Segs /\ scan.active \subseteq Segs
      BY DEF CtlInv, ScanInv
    <3> QED
      BY <3>1 DEF CtlInv, ScanInv
  <2> QED
    BY <2>1, <2>2 DEF ReportIsTrue
<1> QED
  BY <1>1, CtlInvariance, PTL

-----------------------------------------------------------------------------
(* The status rules: what forgetting does *)

\* d is e, with some of its facts not known.
Forgets(d, e) ==
    /\ d.source = e.source
    /\ d.phase \in {e.phase, None} /\ d.started \in {e.started, None}
    /\ d.shutting_down \in {e.shutting_down, None} /\ d.listeners \in {e.listeners, None}
    /\ d.workers \in {e.workers, None} /\ d.shards \in {e.shards, None}
    /\ d.wab_cap \in {e.wab_cap, None} /\ d.channel \in {e.channel, None}
    /\ d.drain \in {e.drain, None} /\ d.sink \in {e.sink, None}
    /\ d.backlog \in {e.backlog, None} /\ d.recent \in {e.recent, None}
    /\ d.reload \in {e.reload, None} /\ d.admin \in {e.admin, None}
    /\ d.config \in {e.config, None}

\* A rule keeps its outcome or has none.
Dims(after, before) == after \in {before, "unevaluated"}

LEMMA LifeDims ==
    ASSUME NEW d, NEW e, Forgets(d, e)
    PROVE  /\ Dims(starting(d), starting(e))
           /\ Dims(shutting_down(d), shutting_down(e))
           /\ Dims(no_live_shard(d), no_live_shard(e))
           /\ Dims(shard_offline(d), shard_offline(e))
           /\ Dims(worker_exited(d), worker_exited(e))
           /\ Dims(wab_cap_rejecting(d), wab_cap_rejecting(e))
           /\ Dims(wab_scan_stale(d), wab_scan_stale(e))
<1>1. Dims(starting(d), starting(e))
  BY DEF Forgets, Dims, starting, Needs, Unevaluated
<1>2. Dims(shutting_down(d), shutting_down(e))
  BY DEF Forgets, Dims, shutting_down, Needs, Unevaluated
<1>3. Dims(no_live_shard(d), no_live_shard(e))
  BY DEF Forgets, Dims, no_live_shard, Needs, Unevaluated
<1>4. Dims(shard_offline(d), shard_offline(e))
  BY DEF Forgets, Dims, shard_offline, Needs, Unevaluated
<1>5. Dims(worker_exited(d), worker_exited(e))
  BY DEF Forgets, Dims, worker_exited, Needs, Unevaluated
<1>6. Dims(wab_cap_rejecting(d), wab_cap_rejecting(e))
  BY DEF Forgets, Dims, wab_cap_rejecting, Needs, Unevaluated
<1>7. Dims(wab_scan_stale(d), wab_scan_stale(e))
  BY DEF Forgets, Dims, wab_scan_stale, Needs, Unevaluated
<1> QED
  BY <1>1, <1>2, <1>3, <1>4, <1>5, <1>6, <1>7

LEMMA DeliveryDims ==
    ASSUME NEW d, NEW e, Forgets(d, e)
    PROVE  /\ Dims(ack_timeouts_recent(d), ack_timeouts_recent(e))
           /\ Dims(wab_growing_unbounded(d), wab_growing_unbounded(e))
           /\ Dims(drain_stopped(d), drain_stopped(e))
           /\ Dims(drain_wedged(d), drain_wedged(e))
           /\ Dims(drain_paused(d), drain_paused(e))
           /\ Dims(drain_blocked_dead_letter_full(d), drain_blocked_dead_letter_full(e))
           /\ Dims(delivery_stalled(d), delivery_stalled(e))
           /\ Dims(delivery_lagging(d), delivery_lagging(e))
           /\ Dims(segments_stranded(d), segments_stranded(e))
           /\ Dims(sink_down(d), sink_down(e))
           /\ Dims(sink_degraded(d), sink_degraded(e))
           /\ Dims(sink_failing(d), sink_failing(e))
<1>1. Dims(ack_timeouts_recent(d), ack_timeouts_recent(e))
  BY DEF Forgets, Dims, ack_timeouts_recent, Needs, Unevaluated
<1>2. Dims(wab_growing_unbounded(d), wab_growing_unbounded(e))
  BY DEF Forgets, Dims, wab_growing_unbounded, Needs, Unevaluated
<1>3. Dims(drain_stopped(d), drain_stopped(e))
  BY DEF Forgets, Dims, drain_stopped, Needs, Unevaluated
<1>4. Dims(drain_wedged(d), drain_wedged(e))
  BY DEF Forgets, Dims, drain_wedged, Needs, Unevaluated
<1>5. Dims(drain_paused(d), drain_paused(e))
  BY DEF Forgets, Dims, drain_paused, Needs, Unevaluated
<1>6. Dims(drain_blocked_dead_letter_full(d), drain_blocked_dead_letter_full(e))
  BY DEF Forgets, Dims, drain_blocked_dead_letter_full, Needs, Unevaluated
<1>7. Dims(delivery_stalled(d), delivery_stalled(e))
  BY DEF Forgets, Dims, delivery_stalled, Needs, Unevaluated
<1>8. Dims(delivery_lagging(d), delivery_lagging(e))
  BY DEF Forgets, Dims, delivery_lagging, Needs, Unevaluated
<1>9. Dims(segments_stranded(d), segments_stranded(e))
  BY DEF Forgets, Dims, segments_stranded, Needs, Unevaluated
<1>10. Dims(sink_down(d), sink_down(e))
  BY DEF Forgets, Dims, sink_down, SinkHealthIs, Needs, Unevaluated
<1>11. Dims(sink_degraded(d), sink_degraded(e))
  BY DEF Forgets, Dims, sink_degraded, SinkHealthIs, Needs, Unevaluated
<1>12. Dims(sink_failing(d), sink_failing(e))
  BY DEF Forgets, Dims, sink_failing, Needs, Unevaluated
<1> QED
  BY <1>1, <1>2, <1>3, <1>4, <1>5, <1>6, <1>7, <1>8, <1>9, <1>10, <1>11, <1>12

LEMMA EventDims ==
    ASSUME NEW d, NEW e, Forgets(d, e)
    PROVE  /\ Dims(dead_letter_near_cap(d), dead_letter_near_cap(e))
           /\ Dims(noop_sink(d), noop_sink(e))
           /\ Dims(active_segment_aging(d), active_segment_aging(e))
           /\ Dims(fsync_failures_recent(d), fsync_failures_recent(e))
           /\ Dims(flusher_respawned_recent(d), flusher_respawned_recent(e))
           /\ Dims(quarantine_nonempty(d), quarantine_nonempty(e))
           /\ Dims(recovery_incomplete(d), recovery_incomplete(e))
           /\ Dims(tls_reload_failed(d), tls_reload_failed(e))
           /\ Dims(admin_unavailable(d), admin_unavailable(e))
<1>1. Dims(dead_letter_near_cap(d), dead_letter_near_cap(e))
  BY DEF Forgets, Dims, dead_letter_near_cap, Needs, Unevaluated
<1>2. Dims(noop_sink(d), noop_sink(e))
  BY DEF Forgets, Dims, noop_sink, Needs, Unevaluated
<1>3. Dims(active_segment_aging(d), active_segment_aging(e))
  BY DEF Forgets, Dims, active_segment_aging, Needs, Unevaluated
<1>4. Dims(fsync_failures_recent(d), fsync_failures_recent(e))
  BY DEF Forgets, Dims, fsync_failures_recent, Needs, Unevaluated
<1>5. Dims(flusher_respawned_recent(d), flusher_respawned_recent(e))
  BY DEF Forgets, Dims, flusher_respawned_recent, Needs, Unevaluated
<1>6. Dims(quarantine_nonempty(d), quarantine_nonempty(e))
  BY DEF Forgets, Dims, quarantine_nonempty, Needs, Unevaluated
<1>7. Dims(recovery_incomplete(d), recovery_incomplete(e))
  BY DEF Forgets, Dims, recovery_incomplete, Needs, Unevaluated
<1>8. Dims(tls_reload_failed(d), tls_reload_failed(e))
  BY DEF Forgets, Dims, tls_reload_failed, Needs, Unevaluated
<1>9. Dims(admin_unavailable(d), admin_unavailable(e))
  BY DEF Forgets, Dims, admin_unavailable, Needs, Unevaluated
<1> QED
  BY <1>1, <1>2, <1>3, <1>4, <1>5, <1>6, <1>7, <1>8, <1>9

LEMMA ListenerDims ==
    ASSUME NEW d, NEW e, Forgets(d, e), e.shutting_down \in BOOLEAN
    PROVE  Dims(listener_down(d), listener_down(e))
<1> DEFINE down(x) == {ListenerIsDown(l, x) : l \in x.listeners}
           verdict(ls, down_) == IF ls = None THEN Unevaluated
                                 ELSE IF TRUE \in down_ \ {None} THEN Active
                                 ELSE IF None \in down_ THEN Unevaluated ELSE Inactive
<1>0. /\ listener_down(d) = verdict(d.listeners, down(d))
      /\ listener_down(e) = verdict(e.listeners, down(e))
  BY DEF listener_down
<1>1. CASE d.listeners = None
  BY <1>1 DEF Dims, listener_down, Unevaluated
<1>2. CASE d.listeners # None /\ d.shutting_down = e.shutting_down
  <2>1. d.listeners = e.listeners
    BY <1>2 DEF Forgets
  <2>2. \A l : ListenerIsDown(l, d) = ListenerIsDown(l, e)
    BY <1>2 DEF ListenerIsDown
  <2>3. down(d) = down(e)
    BY <2>1, <2>2
  <2> QED
    BY <1>0, <2>1, <2>3 DEF Dims
<1>3. CASE d.listeners # None /\ d.shutting_down = None
  <2>1. d.listeners = e.listeners
    BY <1>3 DEF Forgets
  <2>2. \A l : ListenerIsDown(l, d) = None \/ ListenerIsDown(l, d) = ListenerIsDown(l, e)
    BY <1>3 DEF ListenerIsDown
  <2>3. CASE None \in down(d) /\ ~(TRUE \in down(d) \ {None})
    BY <2>3 DEF Dims, listener_down, Unevaluated
  <2>4. CASE TRUE \in down(d) \ {None}
    <3>1. PICK l \in d.listeners : ListenerIsDown(l, d) = TRUE /\ TRUE # None
      BY <2>4
    <3>2. TRUE \in down(e) \ {None}
      BY <2>1, <2>2, <3>1
    <3>3. d.listeners # None /\ e.listeners # None
      BY <1>3, <2>1
    <3> HIDE DEF down
    <3> QED
      BY <1>0, <2>4, <3>2, <3>3 DEF Dims
  <2>5. CASE None \notin down(d) /\ ~(TRUE \in down(d) \ {None})
    <3>1. \A l \in d.listeners : ListenerIsDown(l, d) = ListenerIsDown(l, e)
      BY <2>2, <2>5
    <3>2. down(d) = down(e)
      BY <2>1, <3>1
    <3> HIDE DEF down
    <3> QED
      BY <1>0, <2>1, <3>2 DEF Dims
  <2> QED
    BY <2>3, <2>4, <2>5
<1> QED
  BY <1>1, <1>2, <1>3 DEF Forgets

LEMMA BackpressureDims ==
    ASSUME NEW d, NEW e, Forgets(d, e)
    PROVE  Dims(drain_backpressure(d), drain_backpressure(e))
<1> DEFINE blocked(x) == IF x.shards = None THEN None
                         ELSE \E i \in DOMAIN x.shards : AtLeast(x.shards[i].blocked)
           high(x) == IF x.channel = None THEN None ELSE AtLeast(x.channel.high)
<1>1. /\ blocked(d) \in {blocked(e), None} /\ high(d) \in {high(e), None}
      /\ {blocked(d), blocked(e), high(d), high(e)} \subseteq BOOLEAN \cup {None}
  BY DEF Forgets, AtLeast
<1>2. /\ drain_backpressure(d) = Needs({tri_or(blocked(d), high(d))}, Fires(tri_or(blocked(d), high(d))))
      /\ drain_backpressure(e) = Needs({tri_or(blocked(e), high(e))}, Fires(tri_or(blocked(e), high(e))))
  BY DEF drain_backpressure
<1> HIDE DEF blocked, high
<1>3. tri_or(blocked(d), high(d)) \in {None, tri_or(blocked(e), high(e))}
  BY <1>1, NoneIsNoFact DEF tri_or
<1> QED
  BY <1>2, <1>3 DEF Needs, Dims, Unevaluated

AllCodes ==
    {"starting", "shutting_down", "listener_down", "no_live_shard",
     "shard_offline", "worker_exited", "wab_cap_rejecting",
     "drain_backpressure", "ack_timeouts_recent", "wab_scan_stale",
     "wab_growing_unbounded", "drain_stopped", "drain_wedged", "drain_paused",
     "drain_blocked_dead_letter_full", "delivery_stalled", "delivery_lagging",
     "segments_stranded", "sink_down", "sink_degraded", "sink_failing",
     "dead_letter_near_cap", "noop_sink", "active_segment_aging",
     "fsync_failures_recent", "flusher_respawned_recent",
     "quarantine_nonempty", "recovery_incomplete", "tls_reload_failed",
     "admin_unavailable"}

LEMMA RuleIsRecord ==
    ASSUME NEW e
    PROVE  /\ DOMAIN rule(e) = AllCodes
           /\ rule(e)["starting"] = starting(e)
           /\ rule(e)["shutting_down"] = shutting_down(e)
           /\ rule(e)["listener_down"] = listener_down(e)
           /\ rule(e)["no_live_shard"] = no_live_shard(e)
           /\ rule(e)["shard_offline"] = shard_offline(e)
           /\ rule(e)["worker_exited"] = worker_exited(e)
           /\ rule(e)["wab_cap_rejecting"] = wab_cap_rejecting(e)
           /\ rule(e)["drain_backpressure"] = drain_backpressure(e)
           /\ rule(e)["ack_timeouts_recent"] = ack_timeouts_recent(e)
           /\ rule(e)["wab_scan_stale"] = wab_scan_stale(e)
           /\ rule(e)["wab_growing_unbounded"] = wab_growing_unbounded(e)
           /\ rule(e)["drain_stopped"] = drain_stopped(e)
           /\ rule(e)["drain_wedged"] = drain_wedged(e)
           /\ rule(e)["drain_paused"] = drain_paused(e)
           /\ rule(e)["drain_blocked_dead_letter_full"] = drain_blocked_dead_letter_full(e)
           /\ rule(e)["delivery_stalled"] = delivery_stalled(e)
           /\ rule(e)["delivery_lagging"] = delivery_lagging(e)
           /\ rule(e)["segments_stranded"] = segments_stranded(e)
           /\ rule(e)["sink_down"] = sink_down(e)
           /\ rule(e)["sink_degraded"] = sink_degraded(e)
           /\ rule(e)["sink_failing"] = sink_failing(e)
           /\ rule(e)["dead_letter_near_cap"] = dead_letter_near_cap(e)
           /\ rule(e)["noop_sink"] = noop_sink(e)
           /\ rule(e)["active_segment_aging"] = active_segment_aging(e)
           /\ rule(e)["fsync_failures_recent"] = fsync_failures_recent(e)
           /\ rule(e)["flusher_respawned_recent"] = flusher_respawned_recent(e)
           /\ rule(e)["quarantine_nonempty"] = quarantine_nonempty(e)
           /\ rule(e)["recovery_incomplete"] = recovery_incomplete(e)
           /\ rule(e)["tls_reload_failed"] = tls_reload_failed(e)
           /\ rule(e)["admin_unavailable"] = admin_unavailable(e)
BY DEF rule, AllCodes

\* Whatever is forgotten, each condition keeps its outcome or has none.
LEMMA RulesDim ==
    ASSUME NEW d, NEW e, Forgets(d, e), e.shutting_down \in BOOLEAN,
           NEW c \in AllCodes
    PROVE  Dims(rule(d)[c], rule(e)[c])
<1>1. /\ Dims(rule(d)["listener_down"], rule(e)["listener_down"])
      /\ Dims(rule(d)["drain_backpressure"], rule(e)["drain_backpressure"])
  BY ListenerDims, BackpressureDims, RuleIsRecord
<1>2. /\ Dims(rule(d)["starting"], rule(e)["starting"])
      /\ Dims(rule(d)["shutting_down"], rule(e)["shutting_down"])
      /\ Dims(rule(d)["no_live_shard"], rule(e)["no_live_shard"])
      /\ Dims(rule(d)["shard_offline"], rule(e)["shard_offline"])
      /\ Dims(rule(d)["worker_exited"], rule(e)["worker_exited"])
      /\ Dims(rule(d)["wab_cap_rejecting"], rule(e)["wab_cap_rejecting"])
      /\ Dims(rule(d)["wab_scan_stale"], rule(e)["wab_scan_stale"])
  BY LifeDims, RuleIsRecord
<1>3. /\ Dims(rule(d)["ack_timeouts_recent"], rule(e)["ack_timeouts_recent"])
      /\ Dims(rule(d)["wab_growing_unbounded"], rule(e)["wab_growing_unbounded"])
      /\ Dims(rule(d)["drain_stopped"], rule(e)["drain_stopped"])
      /\ Dims(rule(d)["drain_wedged"], rule(e)["drain_wedged"])
      /\ Dims(rule(d)["drain_paused"], rule(e)["drain_paused"])
      /\ Dims(rule(d)["drain_blocked_dead_letter_full"], rule(e)["drain_blocked_dead_letter_full"])
      /\ Dims(rule(d)["delivery_stalled"], rule(e)["delivery_stalled"])
      /\ Dims(rule(d)["delivery_lagging"], rule(e)["delivery_lagging"])
      /\ Dims(rule(d)["segments_stranded"], rule(e)["segments_stranded"])
      /\ Dims(rule(d)["sink_down"], rule(e)["sink_down"])
      /\ Dims(rule(d)["sink_degraded"], rule(e)["sink_degraded"])
      /\ Dims(rule(d)["sink_failing"], rule(e)["sink_failing"])
  BY DeliveryDims, RuleIsRecord
<1>4. /\ Dims(rule(d)["dead_letter_near_cap"], rule(e)["dead_letter_near_cap"])
      /\ Dims(rule(d)["noop_sink"], rule(e)["noop_sink"])
      /\ Dims(rule(d)["active_segment_aging"], rule(e)["active_segment_aging"])
      /\ Dims(rule(d)["fsync_failures_recent"], rule(e)["fsync_failures_recent"])
      /\ Dims(rule(d)["flusher_respawned_recent"], rule(e)["flusher_respawned_recent"])
      /\ Dims(rule(d)["quarantine_nonempty"], rule(e)["quarantine_nonempty"])
      /\ Dims(rule(d)["recovery_incomplete"], rule(e)["recovery_incomplete"])
      /\ Dims(rule(d)["tls_reload_failed"], rule(e)["tls_reload_failed"])
      /\ Dims(rule(d)["admin_unavailable"], rule(e)["admin_unavailable"])
  BY EventDims, RuleIsRecord
<1> QED
  BY <1>1, <1>2, <1>3, <1>4 DEF AllCodes

\* A probe that misses facts is not ready, and is live.
LEMMA ProbesDim ==
    ASSUME NEW d, NEW e, Forgets(d, e), e.shutting_down \in BOOLEAN
    PROVE  /\ \A c \in evaluate(e) : rule(d)[c] # Inactive
           /\ readiness(d) => readiness(e)
           /\ liveness(e, LivezChecks) => liveness(d, LivezChecks)
<1>0. /\ DOMAIN rule(d) = AllCodes /\ DOMAIN rule(e) = AllCodes
      /\ \A c \in AllCodes : rule(d)[c] \in {rule(e)[c], "unevaluated"}
  BY RuleIsRecord, RulesDim DEF Dims
<1>1. \A c \in evaluate(e) : rule(d)[c] # Inactive
  BY <1>0 DEF evaluate, Active, Inactive
<1>2. readiness(d) => readiness(e)
  <2> SUFFICES ASSUME readiness(d) PROVE readiness(e)
    OBVIOUS
  <2> DEFINE five == {"starting", "shutting_down", "listener_down", "no_live_shard", "wab_cap_rejecting"}
  <2>1. \A c \in five : rule(d)[c] = Inactive
    BY RuleIsRecord DEF readiness
  <2>2. \A c \in five : rule(e)[c] = Inactive
    BY <1>0, <2>1 DEF Inactive, AllCodes
  <2> QED
    BY <2>2, RuleIsRecord DEF readiness
<1>3. liveness(e, LivezChecks) => liveness(d, LivezChecks)
  <2> SUFFICES ASSUME liveness(e, LivezChecks), d.phase = "serving" PROVE liveness(d, LivezChecks)
    BY DEF liveness
  <2>1. e.phase = "serving"
    BY NoneIsNoFact DEF Forgets
  <2>2. \A c \in LivezChecks : rule(e)[c] # Active
    BY <2>1 DEF liveness
  <2>3. \A c \in LivezChecks : rule(d)[c] # Active
    BY <1>0, <2>2 DEF LivezChecks, AllCodes, Active
  <2> QED
    BY <2>3 DEF liveness
<1> QED
  BY <1>1, <1>2, <1>3

-----------------------------------------------------------------------------
(* The status rules: what a daemon's evidence is *)

CapFacts == [rejecting : BOOLEAN, scan_age : MaybeAge, growing : BOOLEAN \cup {None}]
DrainFacts ==
    [state : {"draining", "retrying", "blocked_dead_letter_full", "stopped"},
     pause_requested : BOOLEAN, paused : BOOLEAN, exit : {"running", "stopped", "gave_up"},
     commit : MaybeAge, busy : Readings \cup {None}, heartbeat : Nat, progress : Nat]
SinkFacts == [health : {"healthy", "degraded", "down", None}, success : MaybeAge, failures : Nat]
BacklogFacts == [segments : Nat, oldest : MaybeAge, dead_letter : Nat, quarantine : Nat]
RecentFacts ==
    [ack_timeouts : MaybeAge, fsync_failures : MaybeAge, flusher_panics : MaybeAge,
     stranded : MaybeAge, coalesce_slow : BOOLEAN, recovery_failed : MaybeAge,
     copy_failed : MaybeAge]
ConfigFacts == [commit_timeout : Nat, health_poll : Nat, dead_letter_max : Nat,
                sink_type : {"http", "noop"}, max_age : Nat, max_lifetime : Nat]
ShardFacts == [state : {"up", "starting", "respawning", "offline", "stopped"},
               worker : BOOLEAN, blocked : MaybeAge, active : MaybeAge]
WorkerFacts == [running : BOOLEAN, exited : BOOLEAN]

Evidences ==
    [source : {"daemon"}, phase : {Phases[i] : i \in DOMAIN Phases}, started : Nat,
     shutting_down : BOOLEAN,
     listeners : SUBSET {"bound", "not_configured", "pending", "failed", "closed"},
     workers : [Workers -> WorkerFacts], shards : [Shards -> ShardFacts],
     wab_cap : CapFacts, channel : [high : MaybeAge] \cup {None}, drain : DrainFacts,
     sink : SinkFacts, backlog : BacklogFacts, recent : RecentFacts,
     reload : [tls_last_failed : BOOLEAN],
     admin : [enabled : BOOLEAN, state : {"listening", "unavailable"}], config : ConfigFacts]

\* What the parts of one board have to do with one another: shard_evidence takes a
\* shard's worker from the workers, and a drain that left its loop has stopped.
Coherent(e) ==
    /\ e.shutting_down = (e.phase = "shutting_down")
    /\ \A i \in Shards : e.shards[i].worker = e.workers[0].running
    /\ (e.drain.exit = "running") = (e.drain.state # "stopped")

IsView(e) == e \in Evidences /\ Coherent(e)

\* Inductive for the steps of StatusView, however many facts have changed.
ViewInv == IsView(evidence)

-----------------------------------------------------------------------------
(* The status rules: through the gauges *)

\* publish_gauges and evidence_from_metrics, one after the other, on a serving
\* daemon: what is exported comes back, but for ages of 0 and what has no gauge.
Exported(s, e) ==
    /\ s.source = "metrics" /\ s.phase = "serving" /\ s.started = e.started
    /\ s.shutting_down = FALSE /\ (~readiness(e) => s.listeners = None)
    /\ DOMAIN s.workers = Workers
    /\ s.workers[0].running = e.workers[0].running
    /\ s.workers[0].exited = ~e.workers[0].running
    /\ s.wab_cap.rejecting = e.wab_cap.rejecting /\ s.wab_cap.growing = None
    /\ s.channel = None
    /\ s.drain.state = e.drain.state /\ s.drain.pause_requested = e.drain.paused
    /\ s.drain.paused = e.drain.paused
    /\ s.drain.exit = (IF e.drain.state = "stopped" THEN "gave_up" ELSE "running")
    /\ s.drain.commit = NonZero(Num(e.drain.commit))
    /\ s.sink.success = e.sink.success /\ s.sink.failures = e.sink.failures
    /\ s.sink.health = (IF e.sink.health = None THEN "healthy" ELSE e.sink.health)
    /\ s.backlog.segments = e.backlog.segments
    /\ s.backlog.dead_letter = e.backlog.dead_letter
    /\ s.backlog.quarantine = e.backlog.quarantine
    /\ s.backlog.oldest = NonZero(Num(e.backlog.oldest))
    /\ s.recent.ack_timeouts = None /\ s.recent.fsync_failures = None
    /\ s.recent.flusher_panics = None /\ s.recent.stranded = None
    /\ s.recent.recovery_failed = e.recent.recovery_failed
    /\ s.recent.copy_failed = e.recent.copy_failed
    /\ s.reload = None /\ s.admin = None
    /\ s.config.commit_timeout = None /\ s.config.health_poll = None
    /\ s.config.dead_letter_max = e.config.dead_letter_max
    /\ s.config.sink_type = e.config.sink_type
    /\ s.config.max_age = e.config.max_age
    /\ s.config.max_lifetime = e.config.max_lifetime

LEMMA ScrapeFields ==
    ASSUME NEW e \in Evidences, Coherent(e), e.phase = "serving",
           NEW s, s = evidence_from_metrics(publish_gauges(e))
    PROVE  Exported(s, e)
<1> DEFINE g == publish_gauges(e)
<1>1. /\ g.phase = "serving" /\ g.ready = readiness(e) /\ g.started = e.started
      /\ g.worker_up = [w \in DOMAIN e.workers |-> e.workers[w].running]
      /\ g.rejecting = e.wab_cap.rejecting
      /\ g.drain_state = e.drain.state /\ g.paused = e.drain.paused
      /\ g.commit = Num(e.drain.commit) /\ g.heartbeat = Num(e.drain.heartbeat)
      /\ g.sink_health = (IF e.sink.health = None THEN "healthy" ELSE e.sink.health)
      /\ g.success = e.sink.success /\ g.failures = e.sink.failures
      /\ g.backlog = [e.backlog EXCEPT !.oldest = Num(e.backlog.oldest)]
      /\ g.recovery_failed = e.recent.recovery_failed
      /\ g.copy_failed = e.recent.copy_failed /\ g.config = e.config
  BY DEF publish_gauges
<1> HIDE DEF g
<1>2. s = evidence_from_metrics(g)
  BY DEF g
<1>3. /\ s.source = "metrics" /\ s.phase = g.phase /\ s.started = g.started
      /\ s.channel = None /\ s.reload = None /\ s.admin = None
  BY <1>2 DEF evidence_from_metrics
<1>g. s.shutting_down = (g.phase = "shutting_down")
  BY <1>2 DEF evidence_from_metrics
<1>h. ~g.ready => s.listeners = None
  BY <1>2 DEF evidence_from_metrics
<1>a. /\ DOMAIN s.workers = DOMAIN g.worker_up
      /\ \A w \in DOMAIN g.worker_up :
            /\ s.workers[w].running = g.worker_up[w]
            /\ s.workers[w].exited = (~g.worker_up[w] /\ g.phase = "serving")
  BY <1>2 DEF evidence_from_metrics
<1>b. /\ s.wab_cap = [rejecting |-> g.rejecting, scan_age |-> None, growing |-> None]
      /\ s.sink = [health |-> g.sink_health, success |-> g.success, failures |-> g.failures]
  BY <1>2 DEF evidence_from_metrics
<1>c. s.backlog = [g.backlog EXCEPT !.oldest = NonZero(g.backlog.oldest)]
  BY <1>2 DEF evidence_from_metrics
<1>d. /\ s.recent.ack_timeouts = None /\ s.recent.fsync_failures = None
      /\ s.recent.flusher_panics = None /\ s.recent.stranded = None
      /\ s.recent.recovery_failed = g.recovery_failed
      /\ s.recent.copy_failed = g.copy_failed
  BY <1>2 DEF evidence_from_metrics
<1>e. s.config = [g.config EXCEPT !.commit_timeout = None, !.health_poll = None]
  BY <1>2 DEF evidence_from_metrics
<1>f. /\ s.drain.state = g.drain_state /\ s.drain.pause_requested = g.paused
      /\ s.drain.paused = g.paused /\ s.drain.commit = NonZero(g.commit)
      /\ s.drain.exit = (CASE g.drain_state # "stopped" -> "running"
                           [] g.drain_state = "stopped" /\ g.phase = "shutting_down" -> "stopped"
                           [] OTHER -> "gave_up")
  BY <1>2 DEF evidence_from_metrics
<1>4. /\ e.backlog \in BacklogFacts /\ e.config \in ConfigFacts /\ DOMAIN e.workers = Workers
  BY DEF Evidences
<1>5. /\ s.phase = "serving" /\ s.started = e.started /\ s.shutting_down = FALSE
      /\ (~readiness(e) => s.listeners = None)
  BY <1>1, <1>3, <1>g, <1>h
<1>i. /\ DOMAIN s.workers = Workers
      /\ s.workers[0].running = e.workers[0].running
      /\ s.workers[0].exited = ~e.workers[0].running
  BY <1>1, <1>a, <1>4 DEF Workers
<1>6. /\ s.wab_cap.rejecting = e.wab_cap.rejecting /\ s.wab_cap.growing = None
      /\ s.sink.success = e.sink.success /\ s.sink.failures = e.sink.failures
      /\ s.sink.health = (IF e.sink.health = None THEN "healthy" ELSE e.sink.health)
      /\ s.recent.ack_timeouts = None /\ s.recent.fsync_failures = None
      /\ s.recent.flusher_panics = None /\ s.recent.stranded = None
      /\ s.recent.recovery_failed = e.recent.recovery_failed
      /\ s.recent.copy_failed = e.recent.copy_failed
  BY <1>1, <1>b, <1>d
<1>7. /\ s.backlog.segments = e.backlog.segments
      /\ s.backlog.dead_letter = e.backlog.dead_letter
      /\ s.backlog.quarantine = e.backlog.quarantine
      /\ s.backlog.oldest = NonZero(Num(e.backlog.oldest))
  BY <1>1, <1>c, <1>4 DEF BacklogFacts
<1>8. /\ s.config.commit_timeout = None /\ s.config.health_poll = None
      /\ s.config.dead_letter_max = e.config.dead_letter_max
      /\ s.config.sink_type = e.config.sink_type
      /\ s.config.max_age = e.config.max_age
      /\ s.config.max_lifetime = e.config.max_lifetime
  BY <1>1, <1>e, <1>4 DEF ConfigFacts
<1>9. /\ s.drain.state = e.drain.state /\ s.drain.pause_requested = e.drain.paused
      /\ s.drain.paused = e.drain.paused
      /\ s.drain.exit = (IF e.drain.state = "stopped" THEN "gave_up" ELSE "running")
      /\ s.drain.commit = NonZero(Num(e.drain.commit))
  BY <1>1, <1>f
<1> QED
  BY <1>3, <1>5, <1>i, <1>6, <1>7, <1>8, <1>9 DEF Exported

LEMMA ScrapeShards ==
    ASSUME NEW e \in Evidences, Coherent(e), e.phase = "serving",
           NEW s, s = evidence_from_metrics(publish_gauges(e))
    PROVE  /\ DOMAIN s.shards = Shards
           /\ \A i \in Shards :
                /\ s.shards[i].state = (IF e.shards[i].state \in {"up", "respawning"} THEN "up" ELSE "offline")
                /\ s.shards[i].worker = e.shards[i].worker
                /\ s.shards[i].blocked = NonZero(Num(e.shards[i].blocked))
                /\ s.shards[i].active = Num(e.shards[i].active)
<1> DEFINE g == publish_gauges(e)
           owner(i) == i % Cardinality(DOMAIN g.worker_up)
<1>0. DOMAIN e.shards = Shards /\ DOMAIN e.workers = {0}
  BY DEF Evidences, Workers
<1>1. /\ g.shard_up = [i \in DOMAIN e.shards |-> e.shards[i].state \in {"up", "respawning"}]
      /\ g.blocked = [i \in DOMAIN e.shards |-> Num(e.shards[i].blocked)]
      /\ g.active = [i \in DOMAIN e.shards |-> Num(e.shards[i].active)]
      /\ g.worker_up = [w \in DOMAIN e.workers |-> e.workers[w].running]
      /\ g.phase = "serving"
  BY DEF publish_gauges
<1> HIDE DEF g
<1>2. s = evidence_from_metrics(g)
  BY DEF g
<1>3. /\ DOMAIN s.shards = DOMAIN g.shard_up
      /\ \A i \in DOMAIN g.shard_up :
            /\ s.shards[i].state = (CASE g.shard_up[i] -> "up"
                                      [] ~g.shard_up[i] /\ before_serving(g.phase) -> "starting"
                                      [] OTHER -> "offline")
            /\ s.shards[i].worker = g.worker_up[owner(i)]
            /\ s.shards[i].blocked = NonZero(g.blocked[i])
            /\ s.shards[i].active = g.active[i]
  <2> HIDE DEF owner
  <2> QED
    BY <1>2 DEF evidence_from_metrics, owner
<1>4. ~before_serving(g.phase)
  BY <1>1 DEF before_serving
<1>5. \A i \in Shards : owner(i) = 0
  <2>1. Cardinality({0}) = 1
    BY FS_Singleton
  <2>2. DOMAIN g.worker_up = {0}
    BY <1>0, <1>1
  <2>3. \A i \in Shards : i % 1 = 0
    BY DEF Shards
  <2> QED
    BY <2>1, <2>2, <2>3
<1> HIDE DEF owner
<1>6. \A i \in Shards : /\ g.shard_up[i] = (e.shards[i].state \in {"up", "respawning"})
                        /\ g.blocked[i] = Num(e.shards[i].blocked)
                        /\ g.active[i] = Num(e.shards[i].active)
                        /\ g.worker_up[owner(i)] = e.shards[i].worker
  BY <1>0, <1>1, <1>5 DEF Coherent
<1>7. DOMAIN s.shards = Shards
  BY <1>0, <1>1, <1>3
<1>8. ASSUME NEW i \in Shards
      PROVE  /\ s.shards[i].state = (IF e.shards[i].state \in {"up", "respawning"} THEN "up" ELSE "offline")
             /\ s.shards[i].worker = e.shards[i].worker
             /\ s.shards[i].blocked = NonZero(Num(e.shards[i].blocked))
             /\ s.shards[i].active = Num(e.shards[i].active)
  <2>1. i \in DOMAIN g.shard_up
    BY <1>0, <1>1
  <2>2. /\ s.shards[i].worker = e.shards[i].worker
        /\ s.shards[i].blocked = NonZero(Num(e.shards[i].blocked))
        /\ s.shards[i].active = Num(e.shards[i].active)
    BY <1>3, <1>6, <2>1
  <2>3. s.shards[i].state = (CASE g.shard_up[i] -> "up"
                               [] ~g.shard_up[i] /\ before_serving(g.phase) -> "starting"
                               [] OTHER -> "offline")
    BY <1>3, <2>1
  <2>4. g.shard_up[i] = (e.shards[i].state \in {"up", "respawning"})
    BY <1>6
  <2>5. s.shards[i].state = (IF e.shards[i].state \in {"up", "respawning"} THEN "up" ELSE "offline")
    BY <1>4, <2>3, <2>4
  <2> QED
    BY <2>2, <2>5
<1> QED
  BY <1>7, <1>8

\* The two busy gauges: only the kind that is busy is above 0.
LEMMA ScrapeBusy ==
    ASSUME NEW e \in Evidences, Coherent(e), e.phase = "serving",
           NEW s, s = evidence_from_metrics(publish_gauges(e))
    PROVE  /\ e.drain.busy = None => s.drain.busy = None
           /\ e.drain.busy # None /\ e.drain.busy.sink_call =>
                 s.drain.busy = None \/ s.drain.busy.sink_call
<1> DEFINE g == publish_gauges(e)
           kinds == {k \in BusyKinds : g.busy[k] > 0}
<1>1. g.busy = BusyGauge(e.drain)
  BY DEF publish_gauges
<1>2. s.drain.busy = IF kinds = {} THEN None
                     ELSE LET k == CHOOSE k \in kinds : TRUE IN
                          [sink_call |-> k = "sink_call", age |-> g.busy[k]]
  <2> HIDE DEF g
  <2>1. s = evidence_from_metrics(g)
    BY DEF g
  <2> QED
    BY <2>1 DEF evidence_from_metrics
<1>3. ASSUME e.drain.busy = None PROVE kinds = {}
  <2> HIDE DEF g
  <2> QED
    BY <1>1, <1>3 DEF BusyGauge, BusyKinds
<1>4. ASSUME e.drain.busy # None, e.drain.busy.sink_call PROVE kinds \subseteq {"sink_call"}
  <2>1. e.drain.busy.sink_call \in BOOLEAN
    BY <1>4 DEF Evidences, DrainFacts, Readings
  <2> HIDE DEF g
  <2>2. g.busy["local_io"] = 0
    BY <1>1, <1>4, <2>1 DEF BusyGauge, BusyKinds
  <2> QED
    BY <2>2 DEF BusyKinds
<1> HIDE DEF kinds, g
<1>5. ASSUME kinds # {}, kinds \subseteq {"sink_call"} PROVE s.drain.busy.sink_call
  <2> DEFINE k == CHOOSE k \in kinds : TRUE
  <2>1. k = "sink_call"
    BY <1>5
  <2>2. s.drain.busy = [sink_call |-> k = "sink_call", age |-> g.busy[k]]
    BY <1>2, <1>5
  <2> HIDE DEF k
  <2>3. s.drain.busy.sink_call = (k = "sink_call")
    BY <2>2
  <2> QED
    BY <2>1, <2>3
<1> QED
  BY <1>2, <1>3, <1>4, <1>5

\* s is what a scrape makes of e, as far as the rules see it.
Scraped(s, e) ==
    /\ Exported(s, e)
    /\ DOMAIN s.shards = Shards
    /\ \A i \in Shards :
         /\ s.shards[i].state = (IF e.shards[i].state \in {"up", "respawning"} THEN "up" ELSE "offline")
         /\ s.shards[i].worker = e.shards[i].worker
         /\ s.shards[i].blocked = NonZero(Num(e.shards[i].blocked))
         /\ s.shards[i].active = Num(e.shards[i].active)
    /\ e.drain.busy = None => s.drain.busy = None
    /\ e.drain.busy # None /\ e.drain.busy.sink_call =>
          s.drain.busy = None \/ s.drain.busy.sink_call
    /\ e.source = "daemon" /\ e.phase = "serving" /\ e.shutting_down = FALSE
    /\ (e.drain.exit = "running") = (e.drain.state # "stopped")
    /\ e.drain.pause_requested \in BOOLEAN /\ e.drain.paused \in BOOLEAN
    /\ e.drain.commit \in MaybeAge /\ e.backlog.oldest \in MaybeAge
    /\ e.sink.success \in MaybeAge /\ e.sink.failures \in Nat
    /\ e.drain.busy # None => e.drain.busy.sink_call \in BOOLEAN /\ e.drain.busy.age \in Nat
    /\ e.config.commit_timeout \in Nat /\ e.config.health_poll \in Nat
    /\ DOMAIN e.workers = {0} /\ DOMAIN s.workers = {0} /\ e.workers[0].running \in BOOLEAN
    /\ DOMAIN e.shards = Shards
    /\ \A i \in Shards : e.shards[i].blocked \in MaybeAge /\ e.shards[i].active \in MaybeAge

LEMMA ScrapeIsScraped ==
    ASSUME NEW e \in Evidences, Coherent(e), e.phase = "serving"
    PROVE  Scraped(evidence_from_metrics(publish_gauges(e)), e)
<1> DEFINE s == evidence_from_metrics(publish_gauges(e))
<1>1. /\ e.source = "daemon" /\ e.phase = "serving" /\ e.shutting_down = FALSE
      /\ (e.drain.exit = "running") = (e.drain.state # "stopped")
  BY DEF Evidences, Coherent
<1>2. /\ e.drain \in DrainFacts /\ e.sink \in SinkFacts /\ e.backlog \in BacklogFacts
      /\ e.config \in ConfigFacts /\ e.workers \in [Workers -> WorkerFacts]
      /\ e.shards \in [Shards -> ShardFacts]
  BY DEF Evidences
<1>3. /\ e.drain.pause_requested \in BOOLEAN /\ e.drain.paused \in BOOLEAN
      /\ e.drain.commit \in MaybeAge /\ e.backlog.oldest \in MaybeAge
      /\ e.sink.success \in MaybeAge /\ e.sink.failures \in Nat
      /\ e.config.commit_timeout \in Nat /\ e.config.health_poll \in Nat
  BY <1>2 DEF DrainFacts, SinkFacts, BacklogFacts, ConfigFacts
<1>4. e.drain.busy # None => e.drain.busy.sink_call \in BOOLEAN /\ e.drain.busy.age \in Nat
  BY <1>2 DEF DrainFacts, Readings
<1>5. /\ DOMAIN e.workers = {0} /\ e.workers[0].running \in BOOLEAN
      /\ DOMAIN e.shards = Shards
      /\ \A i \in Shards : e.shards[i].blocked \in MaybeAge /\ e.shards[i].active \in MaybeAge
  BY <1>2 DEF Workers, WorkerFacts, ShardFacts
<1> HIDE DEF s
<1>6. s = evidence_from_metrics(publish_gauges(e))
  BY DEF s
<1>7. Exported(s, e)
  BY <1>6, ScrapeFields
<1>8. /\ DOMAIN s.shards = Shards
      /\ \A i \in Shards :
           /\ s.shards[i].state = (IF e.shards[i].state \in {"up", "respawning"} THEN "up" ELSE "offline")
           /\ s.shards[i].worker = e.shards[i].worker
           /\ s.shards[i].blocked = NonZero(Num(e.shards[i].blocked))
           /\ s.shards[i].active = Num(e.shards[i].active)
  BY <1>6, ScrapeShards
<1>9. /\ e.drain.busy = None => s.drain.busy = None
      /\ e.drain.busy # None /\ e.drain.busy.sink_call =>
            s.drain.busy = None \/ s.drain.busy.sink_call
  BY <1>6, ScrapeBusy
<1>10. DOMAIN s.workers = {0}
  BY <1>7 DEF Workers, Exported
<1>11. Scraped(s, e)
  BY <1>1, <1>3, <1>4, <1>5, <1>7, <1>8, <1>9, <1>10 DEF Scraped
<1> QED
  BY <1>6, <1>11

LEMMA LifeScrapes ==
    ASSUME NEW e, NEW s, Scraped(s, e)
    PROVE  /\ starting(e) = Active => starting(s) # Inactive
           /\ shutting_down(e) = Active => shutting_down(s) # Inactive
           /\ wab_cap_rejecting(e) = Active => wab_cap_rejecting(s) # Inactive
           /\ ack_timeouts_recent(e) = Active => ack_timeouts_recent(s) # Inactive
           /\ wab_scan_stale(e) = Active => wab_scan_stale(s) # Inactive
           /\ wab_growing_unbounded(e) = Active => wab_growing_unbounded(s) # Inactive
           /\ drain_stopped(e) = Active => drain_stopped(s) # Inactive
           /\ drain_blocked_dead_letter_full(e) = Active => drain_blocked_dead_letter_full(s) # Inactive
           /\ delivery_stalled(e) = Active => delivery_stalled(s) # Inactive
           /\ delivery_lagging(e) = Active => delivery_lagging(s) # Inactive
           /\ segments_stranded(e) = Active => segments_stranded(s) # Inactive
<1>1. starting(e) = Active => starting(s) # Inactive
  BY DEF Scraped, Exported, starting, Needs, Fires, Active, Inactive, Unevaluated, before_serving
<1>2. shutting_down(e) = Active => shutting_down(s) # Inactive
  BY DEF Scraped, Exported, shutting_down, Needs, Fires, Active, Inactive, Unevaluated
<1>3. wab_cap_rejecting(e) = Active => wab_cap_rejecting(s) # Inactive
  BY DEF Scraped, Exported, wab_cap_rejecting, Needs, Fires, Active, Inactive, Unevaluated
<1>4. ack_timeouts_recent(e) = Active => ack_timeouts_recent(s) # Inactive
  BY DEF Scraped, Exported, ack_timeouts_recent, Needs, Fires, Active, Inactive, Unevaluated
<1>5. wab_scan_stale(e) = Active => wab_scan_stale(s) # Inactive
  BY DEF Scraped, Exported, wab_scan_stale, Needs, Fires, Active, Inactive, Unevaluated
<1>6. wab_growing_unbounded(e) = Active => wab_growing_unbounded(s) # Inactive
  BY DEF Scraped, Exported, wab_growing_unbounded, Needs, Fires, Active, Inactive, Unevaluated
<1>7. drain_stopped(e) = Active => drain_stopped(s) # Inactive
  BY DEF Scraped, Exported, drain_stopped, Needs, Fires, Active, Inactive, Unevaluated
<1>8. drain_blocked_dead_letter_full(e) = Active => drain_blocked_dead_letter_full(s) # Inactive
  BY DEF Scraped, Exported, drain_blocked_dead_letter_full, Needs, Fires, Active, Inactive, Unevaluated
<1>9. delivery_stalled(e) = Active => delivery_stalled(s) # Inactive
  BY DEF Scraped, Exported, delivery_stalled, Needs, Fires, Active, Inactive, Unevaluated, AtLeast, Limit, MaybeAge
<1>10. delivery_lagging(e) = Active => delivery_lagging(s) # Inactive
  BY DEF Scraped, Exported, delivery_lagging, Needs, Fires, Active, Inactive, Unevaluated, Over, Num, NonZero, Limit, MaybeAge
<1>11. segments_stranded(e) = Active => segments_stranded(s) # Inactive
  BY DEF Scraped, Exported, segments_stranded, Needs, Fires, Active, Inactive, Unevaluated
<1> QED
  BY <1>1, <1>2, <1>3, <1>4, <1>5, <1>6, <1>7, <1>8, <1>9, <1>10, <1>11

LEMMA EventScrapes ==
    ASSUME NEW e, NEW s, Scraped(s, e)
    PROVE  /\ sink_down(e) = Active => sink_down(s) # Inactive
           /\ sink_degraded(e) = Active => sink_degraded(s) # Inactive
           /\ sink_failing(e) = Active => sink_failing(s) # Inactive
           /\ dead_letter_near_cap(e) = Active => dead_letter_near_cap(s) # Inactive
           /\ noop_sink(e) = Active => noop_sink(s) # Inactive
           /\ fsync_failures_recent(e) = Active => fsync_failures_recent(s) # Inactive
           /\ flusher_respawned_recent(e) = Active => flusher_respawned_recent(s) # Inactive
           /\ quarantine_nonempty(e) = Active => quarantine_nonempty(s) # Inactive
           /\ recovery_incomplete(e) = Active => recovery_incomplete(s) # Inactive
           /\ tls_reload_failed(e) = Active => tls_reload_failed(s) # Inactive
           /\ admin_unavailable(e) = Active => admin_unavailable(s) # Inactive
<1>1. sink_down(e) = Active => sink_down(s) # Inactive
  BY DEF Scraped, Exported, sink_down, SinkHealthIs, Needs, Fires, Active, Inactive, Unevaluated
<1>2. sink_degraded(e) = Active => sink_degraded(s) # Inactive
  BY DEF Scraped, Exported, sink_degraded, SinkHealthIs, Needs, Fires, Active, Inactive, Unevaluated
<1>3. sink_failing(e) = Active => sink_failing(s) # Inactive
  BY DEF Scraped, Exported, sink_failing, Needs, Fires, Active, Inactive, Unevaluated
<1>4. dead_letter_near_cap(e) = Active => dead_letter_near_cap(s) # Inactive
  BY DEF Scraped, Exported, dead_letter_near_cap, Needs, Fires, Active, Inactive, Unevaluated
<1>5. noop_sink(e) = Active => noop_sink(s) # Inactive
  BY DEF Scraped, Exported, noop_sink, Needs, Fires, Active, Inactive, Unevaluated
<1>6. fsync_failures_recent(e) = Active => fsync_failures_recent(s) # Inactive
  BY DEF Scraped, Exported, fsync_failures_recent, Needs, Fires, Active, Inactive, Unevaluated
<1>7. flusher_respawned_recent(e) = Active => flusher_respawned_recent(s) # Inactive
  BY DEF Scraped, Exported, flusher_respawned_recent, Needs, Fires, Active, Inactive, Unevaluated
<1>8. quarantine_nonempty(e) = Active => quarantine_nonempty(s) # Inactive
  BY DEF Scraped, Exported, quarantine_nonempty, Needs, Fires, Active, Inactive, Unevaluated
<1>9. recovery_incomplete(e) = Active => recovery_incomplete(s) # Inactive
  BY DEF Scraped, Exported, recovery_incomplete, Needs, Fires, Active, Inactive, Unevaluated
<1>10. tls_reload_failed(e) = Active => tls_reload_failed(s) # Inactive
  BY DEF Scraped, Exported, tls_reload_failed, Needs, Fires, Active, Inactive, Unevaluated
<1>11. admin_unavailable(e) = Active => admin_unavailable(s) # Inactive
  BY DEF Scraped, Exported, admin_unavailable, Needs, Fires, Active, Inactive, Unevaluated
<1> QED
  BY <1>1, <1>2, <1>3, <1>4, <1>5, <1>6, <1>7, <1>8, <1>9, <1>10, <1>11

\* The conditions of shards and workers: every shard that is not up counts as
\* offline, so shard_offline may give way to no_live_shard.
LEMMA ShardScrapes ==
    ASSUME NEW e, NEW s, Scraped(s, e)
    PROVE  /\ no_live_shard(e) = Active => no_live_shard(s) # Inactive
           /\ worker_exited(e) = Active => worker_exited(s) # Inactive
           /\ shard_offline(e) = Active =>
                 shard_offline(s) # Inactive \/ no_live_shard(s) = Active
           /\ active_segment_aging(e) = Active => active_segment_aging(s) # Inactive
<1>0. /\ s.phase = "serving" /\ e.phase = "serving" /\ s.shutting_down = FALSE
      /\ e.shutting_down = FALSE
      /\ DOMAIN s.shards = Shards /\ DOMAIN e.shards = Shards
      /\ \A i \in Shards :
            /\ s.shards[i].state = (IF e.shards[i].state \in {"up", "respawning"} THEN "up" ELSE "offline")
            /\ s.shards[i].worker = e.shards[i].worker
            /\ s.shards[i].active = Num(e.shards[i].active)
            /\ e.shards[i].active \in MaybeAge
      /\ DOMAIN e.workers = {0} /\ DOMAIN s.workers = {0} /\ e.workers[0].running \in BOOLEAN
      /\ s.workers[0].running = e.workers[0].running
      /\ s.workers[0].exited = ~e.workers[0].running
      /\ s.config.max_age = e.config.max_age /\ s.config.max_lifetime = e.config.max_lifetime
  BY DEF Scraped, Exported
<1>1. ASSUME no_live_shard(e) = Active PROVE no_live_shard(s) # Inactive
  <2>1. \A i \in Shards : ~ingest_capable(e.shards[i])
    BY <1>0, <1>1 DEF no_live_shard, Needs, Fires, Active, Inactive, Unevaluated
  <2>2. \A i \in Shards : ~ingest_capable(s.shards[i])
    BY <1>0, <2>1 DEF ingest_capable
  <2> QED
    BY <1>0, <2>2 DEF no_live_shard, Needs, Fires, Active, Inactive, Unevaluated
<1>2. ASSUME worker_exited(e) = Active PROVE worker_exited(s) # Inactive
  <2>1. ~e.workers[0].running
    BY <1>0, <1>2 DEF worker_exited, Needs, Fires, Active, Inactive, Unevaluated
  <2> QED
    BY <1>0, <2>1 DEF worker_exited, Needs, Fires, Active, Inactive, Unevaluated
<1>3. ASSUME shard_offline(e) = Active, shard_offline(s) = Inactive PROVE no_live_shard(s) = Active
  <2> DEFINE offline(x) == {i \in DOMAIN x.shards : x.shards[i].state = "offline"}
  <2>1. offline(e) # {}
    BY <1>0, <1>3 DEF shard_offline, Needs, Fires, Active, Inactive, Unevaluated
  <2>2. None # s.shards /\ (offline(s) = {} \/ offline(s) = DOMAIN s.shards)
    BY <1>0, <1>3 DEF shard_offline, Needs, Fires, Active, Inactive, Unevaluated
  <2>3. offline(e) \subseteq offline(s)
    BY <1>0
  <2>4. offline(s) = Shards
    BY <1>0, <2>1, <2>2, <2>3
  <2>5. \A i \in Shards : ~ingest_capable(s.shards[i])
    BY <2>4 DEF ingest_capable
  <2> QED
    BY <1>0, <2>2, <2>5, NoneIsNoFact DEF no_live_shard, Needs, Fires
<1>4. ASSUME active_segment_aging(e) = Active PROVE active_segment_aging(s) # Inactive
  <2>1. /\ e.config.max_age = 0 /\ e.config.max_lifetime = 0
        /\ \E i \in Shards : Over(e.shards[i].active)
    BY <1>0, <1>4 DEF active_segment_aging, Needs, Fires, Active, Inactive, Unevaluated
  <2>2. PICK i \in Shards : Over(e.shards[i].active)
    BY <2>1
  <2>3. Over(s.shards[i].active)
    BY <1>0, <2>2 DEF Over, Num, MaybeAge, Limit
  <2> QED
    BY <1>0, <2>1, <2>3 DEF active_segment_aging, Needs, Fires, Active, Inactive, Unevaluated
<1> QED
  BY <1>1, <1>2, <1>3, <1>4 DEF Inactive

LEMMA DrainScrapes ==
    ASSUME NEW e, NEW s, Scraped(s, e)
    PROVE  /\ drain_wedged(e) = Active => drain_wedged(s) # Inactive
           /\ drain_paused(e) = Active => drain_paused(s) # Inactive \/ ~e.drain.paused
           /\ drain_backpressure(e) = Active => drain_backpressure(s) # Inactive
           /\ listener_down(e) = Active => listener_down(s) # Inactive
<1>1. ASSUME drain_wedged(e) = Active PROVE drain_wedged(s) # Inactive
  <2>0. /\ s.config.commit_timeout = None /\ s.config.health_poll = None
        /\ (e.drain.exit = "running") = (e.drain.state # "stopped")
        /\ s.drain.exit = (IF e.drain.state = "stopped" THEN "gave_up" ELSE "running")
        /\ s.drain.commit = NonZero(Num(e.drain.commit))
        /\ e.drain.commit \in MaybeAge /\ e.config.commit_timeout \in Nat
        /\ e.drain.busy = None => s.drain.busy = None
        /\ e.drain.busy # None /\ e.drain.busy.sink_call =>
              s.drain.busy = None \/ s.drain.busy.sink_call
    BY DEF Scraped, Exported
  <2>1. e.drain.exit = "running"
    BY <1>1 DEF drain_wedged, Active, Inactive, Unevaluated
  <2>2. s.drain.exit = "running"
    BY <2>0, <2>1
  <2>3. \/ e.drain.commit # None /\ e.drain.commit > e.config.commit_timeout + WedgeGrace
        \/ e.drain.commit = None /\ e.drain.busy # None /\ e.drain.busy.sink_call
        \/ e.drain.commit = None /\ e.drain.busy = None
    BY <1>1, <2>1 DEF drain_wedged, Needs, Fires, Active, Inactive, Unevaluated
  <2>4. \/ s.drain.commit # None
        \/ s.drain.commit = None /\ (s.drain.busy = None \/ s.drain.busy.sink_call)
    BY <2>0, <2>3 DEF Num, NonZero, MaybeAge, WedgeGrace
  <2> QED
    BY <2>0, <2>2, <2>4 DEF drain_wedged, Needs, Inactive, Unevaluated
<1>2. drain_paused(e) = Active => drain_paused(s) # Inactive \/ ~e.drain.paused
  BY DEF Scraped, Exported, drain_paused, Needs, Fires, Active, Inactive, Unevaluated
<1>3. ASSUME drain_backpressure(e) = Active PROVE drain_backpressure(s) # Inactive
  <2> DEFINE blocked == IF s.shards = None THEN None
                        ELSE \E i \in DOMAIN s.shards : AtLeast(s.shards[i].blocked)
             any == tri_or(blocked, None)
  <2>1. drain_backpressure(s) = Needs({any}, Fires(any))
    BY DEF drain_backpressure, Scraped, Exported
  <2>2. any \in {TRUE, None}
    BY NoneIsNoFact DEF tri_or
  <2> HIDE DEF any
  <2> QED
    BY <2>1, <2>2 DEF Needs, Fires, Active, Inactive, Unevaluated
<1>4. ASSUME listener_down(e) = Active PROVE listener_down(s) # Inactive
  <2>1. ~readiness(e)
    BY <1>4 DEF readiness, Active, Inactive
  <2>2. s.listeners = None
    BY <2>1 DEF Scraped, Exported
  <2> QED
    BY <2>2 DEF listener_down, Inactive, Unevaluated
<1> QED
  BY <1>1, <1>2, <1>3, <1>4

\* What weir-ctl makes of the gauges is never better than what the daemon says.
LEMMA ScrapeNeverBetter ==
    ASSUME NEW e \in Evidences, Coherent(e), e.phase = "serving",
           NEW s, s = evidence_from_metrics(publish_gauges(e))
    PROVE  /\ \A c \in evaluate(e) :
                 \/ rule(s)[c] # Inactive
                 \/ c = "drain_paused" /\ ~e.drain.paused
                 \/ c = "shard_offline" /\ rule(s).no_live_shard = Active
           /\ readiness(s) => readiness(e)
<1>0. Scraped(s, e)
  BY ScrapeIsScraped
<1>1. ASSUME NEW c \in evaluate(e)
      PROVE  \/ rule(s)[c] # Inactive
             \/ c = "drain_paused" /\ ~e.drain.paused
             \/ c = "shard_offline" /\ rule(s).no_live_shard = Active
  <2>1. c \in AllCodes /\ rule(e)[c] = Active
    BY RuleIsRecord DEF evaluate
  <2>2. /\ rule(e)["starting"] = Active => rule(s)["starting"] # Inactive
        /\ rule(e)["shutting_down"] = Active => rule(s)["shutting_down"] # Inactive
        /\ rule(e)["wab_cap_rejecting"] = Active => rule(s)["wab_cap_rejecting"] # Inactive
        /\ rule(e)["ack_timeouts_recent"] = Active => rule(s)["ack_timeouts_recent"] # Inactive
        /\ rule(e)["wab_scan_stale"] = Active => rule(s)["wab_scan_stale"] # Inactive
        /\ rule(e)["wab_growing_unbounded"] = Active => rule(s)["wab_growing_unbounded"] # Inactive
        /\ rule(e)["drain_stopped"] = Active => rule(s)["drain_stopped"] # Inactive
        /\ rule(e)["drain_blocked_dead_letter_full"] = Active => rule(s)["drain_blocked_dead_letter_full"] # Inactive
        /\ rule(e)["delivery_stalled"] = Active => rule(s)["delivery_stalled"] # Inactive
        /\ rule(e)["delivery_lagging"] = Active => rule(s)["delivery_lagging"] # Inactive
        /\ rule(e)["segments_stranded"] = Active => rule(s)["segments_stranded"] # Inactive
    BY <1>0, LifeScrapes, RuleIsRecord
  <2>3. /\ rule(e)["sink_down"] = Active => rule(s)["sink_down"] # Inactive
        /\ rule(e)["sink_degraded"] = Active => rule(s)["sink_degraded"] # Inactive
        /\ rule(e)["sink_failing"] = Active => rule(s)["sink_failing"] # Inactive
        /\ rule(e)["dead_letter_near_cap"] = Active => rule(s)["dead_letter_near_cap"] # Inactive
        /\ rule(e)["noop_sink"] = Active => rule(s)["noop_sink"] # Inactive
        /\ rule(e)["fsync_failures_recent"] = Active => rule(s)["fsync_failures_recent"] # Inactive
        /\ rule(e)["flusher_respawned_recent"] = Active => rule(s)["flusher_respawned_recent"] # Inactive
        /\ rule(e)["quarantine_nonempty"] = Active => rule(s)["quarantine_nonempty"] # Inactive
        /\ rule(e)["recovery_incomplete"] = Active => rule(s)["recovery_incomplete"] # Inactive
        /\ rule(e)["tls_reload_failed"] = Active => rule(s)["tls_reload_failed"] # Inactive
        /\ rule(e)["admin_unavailable"] = Active => rule(s)["admin_unavailable"] # Inactive
    BY <1>0, EventScrapes, RuleIsRecord
  <2>4. /\ rule(e)["no_live_shard"] = Active => rule(s)["no_live_shard"] # Inactive
        /\ rule(e)["worker_exited"] = Active => rule(s)["worker_exited"] # Inactive
        /\ rule(e)["active_segment_aging"] = Active => rule(s)["active_segment_aging"] # Inactive
    BY <1>0, ShardScrapes, RuleIsRecord
  <2>5. /\ rule(e)["drain_wedged"] = Active => rule(s)["drain_wedged"] # Inactive
        /\ rule(e)["drain_backpressure"] = Active => rule(s)["drain_backpressure"] # Inactive
        /\ rule(e)["listener_down"] = Active => rule(s)["listener_down"] # Inactive
    BY <1>0, DrainScrapes, RuleIsRecord
  <2>6. /\ rule(e)["shard_offline"] = Active =>
              rule(s)["shard_offline"] # Inactive \/ rule(s)["no_live_shard"] = Active
        /\ rule(e)["drain_paused"] = Active => rule(s)["drain_paused"] # Inactive \/ ~e.drain.paused
    BY <1>0, ShardScrapes, DrainScrapes, RuleIsRecord
  <2> QED
    BY <2>1, <2>2, <2>3, <2>4, <2>5, <2>6 DEF AllCodes
<1>2. ASSUME ~readiness(e) PROVE ~readiness(s)
  <2>1. s.listeners = None
    BY <1>0, <1>2 DEF Scraped, Exported
  <2>2. listener_down(s) = "unevaluated"
    BY <2>1 DEF listener_down, Unevaluated
  <2> QED
    BY <2>2 DEF readiness, Inactive
<1> QED
  BY <1>1, <1>2

-----------------------------------------------------------------------------
(* The status rules: a fact changes *)

\* One part of the evidence is replaced by another of its kind.
LEMMA PartPut ==
    ASSUME NEW e, IsView(e)
    PROVE  /\ \A v \in CapFacts : IsView([e EXCEPT !.wab_cap = v])
           /\ \A v \in [high : MaybeAge] \cup {None} : IsView([e EXCEPT !.channel = v])
           /\ \A v \in SUBSET {"bound", "not_configured", "pending", "failed", "closed"} :
                 IsView([e EXCEPT !.listeners = v])
           /\ \A v \in SinkFacts : IsView([e EXCEPT !.sink = v])
           /\ \A v \in BacklogFacts : IsView([e EXCEPT !.backlog = v])
           /\ \A v \in RecentFacts : IsView([e EXCEPT !.recent = v])
           /\ \A v \in ConfigFacts : IsView([e EXCEPT !.config = v])
           /\ \A v \in Nat : IsView([e EXCEPT !.started = v])
           /\ \A v \in [tls_last_failed : BOOLEAN] : IsView([e EXCEPT !.reload = v])
           /\ \A v \in [enabled : BOOLEAN, state : {"listening", "unavailable"}] :
                 IsView([e EXCEPT !.admin = v])
           /\ \A v \in DrainFacts : (v.exit = "running") = (v.state # "stopped") =>
                 IsView([e EXCEPT !.drain = v])
           /\ \A v \in [Shards -> ShardFacts] :
                 (\A i \in Shards : v[i].worker = e.shards[i].worker) =>
                     IsView([e EXCEPT !.shards = v])
<1>1. \A v \in CapFacts : IsView([e EXCEPT !.wab_cap = v])
  BY DEF IsView, Evidences, Coherent
<1>2. \A v \in [high : MaybeAge] \cup {None} : IsView([e EXCEPT !.channel = v])
  BY DEF IsView, Evidences, Coherent
<1>3. \A v \in SUBSET {"bound", "not_configured", "pending", "failed", "closed"} :
         IsView([e EXCEPT !.listeners = v])
  BY DEF IsView, Evidences, Coherent
<1>4. \A v \in SinkFacts : IsView([e EXCEPT !.sink = v])
  BY DEF IsView, Evidences, Coherent
<1>5. \A v \in BacklogFacts : IsView([e EXCEPT !.backlog = v])
  BY DEF IsView, Evidences, Coherent
<1>6. \A v \in RecentFacts : IsView([e EXCEPT !.recent = v])
  BY DEF IsView, Evidences, Coherent
<1>7. \A v \in ConfigFacts : IsView([e EXCEPT !.config = v])
  BY DEF IsView, Evidences, Coherent
<1>8. \A v \in Nat : IsView([e EXCEPT !.started = v])
  BY DEF IsView, Evidences, Coherent
<1>9. \A v \in [tls_last_failed : BOOLEAN] : IsView([e EXCEPT !.reload = v])
  BY DEF IsView, Evidences, Coherent
<1>10. \A v \in [enabled : BOOLEAN, state : {"listening", "unavailable"}] :
         IsView([e EXCEPT !.admin = v])
  BY DEF IsView, Evidences, Coherent
<1>11. \A v \in DrainFacts : (v.exit = "running") = (v.state # "stopped") =>
         IsView([e EXCEPT !.drain = v])
  BY DEF IsView, Evidences, Coherent
<1>12. \A v \in [Shards -> ShardFacts] :
         (\A i \in Shards : v[i].worker = e.shards[i].worker) => IsView([e EXCEPT !.shards = v])
  BY DEF IsView, Evidences, Coherent
<1> QED
  BY <1>1, <1>2, <1>3, <1>4, <1>5, <1>6, <1>7, <1>8, <1>9, <1>10, <1>11, <1>12

LEMMA LifeKeeps ==
    ASSUME NEW e, IsView(e), NEW x \in LifeChanges(e)
    PROVE  IsView(x)
<1>1. e.wab_cap \in CapFacts
  BY DEF IsView, Evidences
<1>2. ASSUME NEW p \in {Phases[i] : i \in DOMAIN Phases},
             x = [e EXCEPT !.phase = p, !.shutting_down = (p = "shutting_down")]
      PROVE  IsView(x)
  <2> HIDE DEF Phases
  <2>1. x.shutting_down = (p = "shutting_down") /\ x.phase = p
    BY <1>2 DEF IsView, Evidences
  <2> QED
    BY <1>2, <2>1 DEF IsView, Evidences, Coherent
<1>3. ASSUME NEW l \in {"pending", "failed", "closed"}, x = [e EXCEPT !.listeners = {l}]
      PROVE  IsView(x)
  <2>1. {l} \in SUBSET {"bound", "not_configured", "pending", "failed", "closed"}
    OBVIOUS
  <2> QED
    BY <1>3, <2>1, PartPut
<1>4. ASSUME NEW v \in CapFacts, x = [e EXCEPT !.wab_cap = v]
      PROVE  IsView(x)
  BY <1>4, PartPut
<1>4a. ASSUME x = [e EXCEPT !.wab_cap.rejecting = TRUE]
      PROVE  IsView(x)
  <2> DEFINE v == [e.wab_cap EXCEPT !.rejecting = TRUE]
  <2>1. v \in CapFacts
    BY <1>1 DEF CapFacts, MaybeAge
  <2>2. x = [e EXCEPT !.wab_cap = v]
    BY <1>4a
  <2> HIDE DEF v
  <2> QED
    BY <1>4, <2>1, <2>2
<1>4b. ASSUME x = [e EXCEPT !.wab_cap.scan_age = None]
      PROVE  IsView(x)
  <2> DEFINE v == [e.wab_cap EXCEPT !.scan_age = None]
  <2>1. v \in CapFacts
    BY <1>1 DEF CapFacts, MaybeAge
  <2>2. x = [e EXCEPT !.wab_cap = v]
    BY <1>4b
  <2> HIDE DEF v
  <2> QED
    BY <1>4, <2>1, <2>2
<1>4c. ASSUME x = [e EXCEPT !.wab_cap.scan_age = 3]
      PROVE  IsView(x)
  <2> DEFINE v == [e.wab_cap EXCEPT !.scan_age = 3]
  <2>1. v \in CapFacts
    BY <1>1 DEF CapFacts, MaybeAge
  <2>2. x = [e EXCEPT !.wab_cap = v]
    BY <1>4c
  <2> HIDE DEF v
  <2> QED
    BY <1>4, <2>1, <2>2
<1>4d. ASSUME x = [e EXCEPT !.wab_cap.growing = None]
      PROVE  IsView(x)
  <2> DEFINE v == [e.wab_cap EXCEPT !.growing = None]
  <2>1. v \in CapFacts
    BY <1>1 DEF CapFacts, MaybeAge
  <2>2. x = [e EXCEPT !.wab_cap = v]
    BY <1>4d
  <2> HIDE DEF v
  <2> QED
    BY <1>4, <2>1, <2>2
<1>4e. ASSUME x = [e EXCEPT !.wab_cap.growing = TRUE]
      PROVE  IsView(x)
  <2> DEFINE v == [e.wab_cap EXCEPT !.growing = TRUE]
  <2>1. v \in CapFacts
    BY <1>1 DEF CapFacts, MaybeAge
  <2>2. x = [e EXCEPT !.wab_cap = v]
    BY <1>4e
  <2> HIDE DEF v
  <2> QED
    BY <1>4, <2>1, <2>2
<1>5. ASSUME NEW a \in Ages, x = [e EXCEPT !.channel = [high |-> a]]
      PROVE  IsView(x)
  <2>1. [high |-> a] \in [high : MaybeAge] \cup {None}
    BY DEF Ages, MaybeAge
  <2> QED
    BY <1>5, <2>1, PartPut
<1>6. ASSUME x = [e EXCEPT !.channel = None]
      PROVE  IsView(x)
  BY <1>6, PartPut
<1>7. \/ \E p \in {Phases[i] : i \in DOMAIN Phases} :
            x = [e EXCEPT !.phase = p, !.shutting_down = (p = "shutting_down")]
      \/ \E l \in {"pending", "failed", "closed"} : x = [e EXCEPT !.listeners = {l}]
      \/ x = [e EXCEPT !.wab_cap.rejecting = TRUE]
      \/ x = [e EXCEPT !.wab_cap.scan_age = None]
      \/ x = [e EXCEPT !.wab_cap.scan_age = 3]
      \/ x = [e EXCEPT !.wab_cap.growing = None]
      \/ x = [e EXCEPT !.wab_cap.growing = TRUE]
      \/ \E a \in Ages : x = [e EXCEPT !.channel = [high |-> a]]
      \/ x = [e EXCEPT !.channel = None]
  BY Zenon DEF LifeChanges
<1> QED
  BY <1>2, <1>3, <1>4a, <1>4b, <1>4c, <1>4d, <1>4e, <1>5, <1>6, <1>7

LEMMA IngestKeeps ==
    ASSUME NEW e, IsView(e), NEW x \in IngestChanges(e)
    PROVE  IsView(x)
<1>1. e.shards \in [Shards -> ShardFacts] /\ e.workers \in [Workers -> WorkerFacts]
  BY DEF IsView, Evidences
<1>2. ASSUME NEW i \in Shards, NEW v \in ShardFacts, v.worker = e.shards[i].worker
      PROVE  IsView([e EXCEPT !.shards = [e.shards EXCEPT ![i] = v]])
  <2>1. /\ [e.shards EXCEPT ![i] = v] \in [Shards -> ShardFacts]
        /\ \A j \in Shards : [e.shards EXCEPT ![i] = v][j].worker = e.shards[j].worker
    BY <1>1, <1>2
  <2> QED
    BY <2>1, PartPut
<1>3. ASSUME NEW i \in Shards, NEW t \in {"starting", "respawning", "offline", "stopped"},
             x = [e EXCEPT !.shards[i].state = t]
      PROVE  IsView(x)
  <2>1. /\ [e.shards[i] EXCEPT !.state = t] \in ShardFacts
        /\ [e.shards[i] EXCEPT !.state = t].worker = e.shards[i].worker
    BY <1>1 DEF ShardFacts
  <2> QED
    BY <1>2, <1>3, <2>1
<1>4. ASSUME NEW i \in Shards, NEW a \in Ages, x = [e EXCEPT !.shards[i].blocked = a]
      PROVE  IsView(x)
  <2>1. /\ [e.shards[i] EXCEPT !.blocked = a] \in ShardFacts
        /\ [e.shards[i] EXCEPT !.blocked = a].worker = e.shards[i].worker
    BY <1>1 DEF ShardFacts, Ages, MaybeAge
  <2> QED
    BY <1>2, <1>4, <2>1
<1>5. ASSUME NEW i \in Shards, NEW a \in Ages, x = [e EXCEPT !.shards[i].active = a]
      PROVE  IsView(x)
  <2>1. /\ [e.shards[i] EXCEPT !.active = a] \in ShardFacts
        /\ [e.shards[i] EXCEPT !.active = a].worker = e.shards[i].worker
    BY <1>1 DEF ShardFacts, Ages, MaybeAge
  <2> QED
    BY <1>2, <1>5, <2>1
<1>6. ASSUME NEW y \in BOOLEAN, x = WorkersDown(e, y)
      PROVE  IsView(x)
  <2> DEFINE ws == [w \in Workers |-> [running |-> FALSE, exited |-> y]]
             ss == [i \in Shards |-> [e.shards[i] EXCEPT !.worker = FALSE]]
  <2>1. /\ ws \in [Workers -> WorkerFacts] /\ ws[0].running = FALSE
        /\ ss \in [Shards -> ShardFacts] /\ \A i \in Shards : ss[i].worker = FALSE
    BY <1>1 DEF WorkerFacts, ShardFacts, Workers
  <2>2. x = [e EXCEPT !.workers = ws, !.shards = ss]
    BY <1>6 DEF WorkersDown
  <2> HIDE DEF ws, ss
  <2>3. x \in Evidences /\ x.workers = ws /\ x.shards = ss
    BY <2>1, <2>2 DEF IsView, Evidences
  <2>4. x.phase = e.phase /\ x.shutting_down = e.shutting_down /\ x.drain = e.drain
    BY <2>2 DEF IsView, Evidences
  <2> QED
    BY <2>1, <2>3, <2>4 DEF IsView, Coherent
<1>7. \/ \E i \in Shards, t \in {"starting", "respawning", "offline", "stopped"} :
            x = [e EXCEPT !.shards[i].state = t]
      \/ \E i \in Shards, a \in Ages : x = [e EXCEPT !.shards[i].blocked = a]
      \/ \E i \in Shards, a \in Ages : x = [e EXCEPT !.shards[i].active = a]
      \/ \E y \in BOOLEAN : x = WorkersDown(e, y)
  BY SMT DEF IngestChanges
<1> QED
  BY <1>3, <1>4, <1>5, <1>6, <1>7

LEMMA DrainKeeps ==
    ASSUME NEW e, IsView(e), NEW x \in DrainChanges(e)
    PROVE  IsView(x)
<1>0. e.drain.exit = "running"
  BY SMT DEF DrainChanges
<1>1. /\ e.drain \in DrainFacts /\ e.drain.exit = "running" /\ e.drain.state # "stopped"
      /\ e.shutting_down \in BOOLEAN
  BY <1>0 DEF IsView, Evidences, Coherent
<1>2. ASSUME NEW v \in DrainFacts, (v.exit = "running") = (v.state # "stopped"),
             x = [e EXCEPT !.drain = v]
      PROVE  IsView(x)
  BY <1>2, PartPut
<1>3. ASSUME NEW t \in {"retrying", "blocked_dead_letter_full"}, x = [e EXCEPT !.drain.state = t]
      PROVE  IsView(x)
  <2> DEFINE v == [e.drain EXCEPT !.state = t]
  <2>1. v \in DrainFacts /\ v.exit = "running" /\ v.state # "stopped" /\ x = [e EXCEPT !.drain = v]
    BY <1>1, <1>3 DEF DrainFacts
  <2> HIDE DEF v
  <2> QED
    BY <1>2, <2>1
<1>4. ASSUME x = [e EXCEPT !.drain.state = "stopped",
                           !.drain.exit = IF e.shutting_down THEN "stopped" ELSE "gave_up"]
      PROVE  IsView(x)
  <2> DEFINE v == [e.drain EXCEPT !.state = "stopped",
                                  !.exit = IF e.shutting_down THEN "stopped" ELSE "gave_up"]
  <2>1. v \in DrainFacts /\ v.exit # "running" /\ v.state = "stopped"
    BY <1>1 DEF DrainFacts
  <2>2. x = [e EXCEPT !.drain = v]
    BY <1>1, <1>4 DEF IsView, Evidences, DrainFacts
  <2> HIDE DEF v
  <2> QED
    BY <1>2, <2>1, <2>2
<1>5. ASSUME x = [e EXCEPT !.drain.pause_requested = TRUE]
      PROVE  IsView(x)
  <2> DEFINE v == [e.drain EXCEPT !.pause_requested = TRUE]
  <2>1. v \in DrainFacts /\ v.exit = "running" /\ v.state # "stopped" /\ x = [e EXCEPT !.drain = v]
    BY <1>1, <1>5 DEF DrainFacts
  <2> HIDE DEF v
  <2> QED
    BY <1>2, <2>1
<1>6. ASSUME x = [e EXCEPT !.drain.pause_requested = TRUE, !.drain.paused = TRUE]
      PROVE  IsView(x)
  <2> DEFINE v == [e.drain EXCEPT !.pause_requested = TRUE, !.paused = TRUE]
  <2>1. v \in DrainFacts /\ v.exit = "running" /\ v.state # "stopped"
    BY <1>1 DEF DrainFacts
  <2>2. x = [e EXCEPT !.drain = v]
    BY <1>1, <1>6 DEF IsView, Evidences, DrainFacts
  <2> HIDE DEF v
  <2> QED
    BY <1>2, <2>1, <2>2
<1>7. ASSUME NEW a \in Ages, x = [e EXCEPT !.drain.commit = a]
      PROVE  IsView(x)
  <2> DEFINE v == [e.drain EXCEPT !.commit = a]
  <2>1. v \in DrainFacts /\ v.exit = "running" /\ v.state # "stopped" /\ x = [e EXCEPT !.drain = v]
    BY <1>1, <1>7 DEF DrainFacts, Ages, MaybeAge
  <2> HIDE DEF v
  <2> QED
    BY <1>2, <2>1
<1>8. ASSUME NEW k \in BOOLEAN, NEW a \in Ages,
             x = [e EXCEPT !.drain.busy = [sink_call |-> k, age |-> a]]
      PROVE  IsView(x)
  <2> DEFINE v == [e.drain EXCEPT !.busy = [sink_call |-> k, age |-> a]]
  <2>1. v \in DrainFacts /\ v.exit = "running" /\ v.state # "stopped" /\ x = [e EXCEPT !.drain = v]
    BY <1>1, <1>8 DEF DrainFacts, Ages, Readings
  <2> HIDE DEF v
  <2> QED
    BY <1>2, <2>1
<1>9. ASSUME NEW a \in Ages, NEW p \in 0 .. 1, x = DrainBeats(e, a, p)
      PROVE  IsView(x)
  <2> DEFINE v == [e.drain EXCEPT !.heartbeat = a, !.progress = p]
  <2>0. a \in Nat /\ p \in Nat
    BY <1>9 DEF Ages
  <2>1. v \in DrainFacts /\ v.exit = "running" /\ v.state # "stopped"
    BY <1>1, <2>0 DEF DrainFacts
  <2>2. x = [e EXCEPT !.drain = v]
    BY <1>1, <1>9 DEF IsView, Evidences, DrainFacts, DrainBeats
  <2> HIDE DEF v
  <2> QED
    BY <1>2, <2>1, <2>2
<1>10. \/ \E t \in {"retrying", "blocked_dead_letter_full"} : x = [e EXCEPT !.drain.state = t]
       \/ x = [e EXCEPT !.drain.state = "stopped",
                        !.drain.exit = IF e.shutting_down THEN "stopped" ELSE "gave_up"]
       \/ x = [e EXCEPT !.drain.pause_requested = TRUE]
       \/ x = [e EXCEPT !.drain.pause_requested = TRUE, !.drain.paused = TRUE]
       \/ \E a \in Ages : x = [e EXCEPT !.drain.commit = a]
       \/ \E k \in BOOLEAN, a \in Ages : x = [e EXCEPT !.drain.busy = [sink_call |-> k, age |-> a]]
       \/ \E a \in Ages, p \in 0 .. 1 : x = DrainBeats(e, a, p)
  BY SMT DEF DrainChanges
<1> QED
  BY <1>3, <1>4, <1>5, <1>6, <1>7, <1>8, <1>9, <1>10

LEMMA DeliveryKeeps ==
    ASSUME NEW e, IsView(e), NEW x \in DeliveryChanges(e)
    PROVE  IsView(x)
<1>1. e.backlog \in BacklogFacts /\ e.sink \in SinkFacts /\ e.config \in ConfigFacts
  BY DEF IsView, Evidences
<1>2. ASSUME x \in {[e EXCEPT !.backlog.segments = 1], [e EXCEPT !.backlog.dead_letter = 4],
                    [e EXCEPT !.backlog.quarantine = 1]}
      PROVE  IsView(x)
  <2>1. {[e.backlog EXCEPT !.segments = 1], [e.backlog EXCEPT !.dead_letter = 4],
         [e.backlog EXCEPT !.quarantine = 1]} \subseteq BacklogFacts
    BY <1>1 DEF BacklogFacts
  <2> QED
    BY <1>2, <2>1, PartPut
<1>3. ASSUME NEW a \in Ages, x = [e EXCEPT !.backlog.oldest = a]
      PROVE  IsView(x)
  <2>1. [e.backlog EXCEPT !.oldest = a] \in BacklogFacts
    BY <1>1 DEF BacklogFacts, Ages, MaybeAge
  <2> QED
    BY <1>3, <2>1, PartPut
<1>4. ASSUME NEW h \in {None, "degraded", "down"}, x = [e EXCEPT !.sink.health = h]
      PROVE  IsView(x)
  <2>1. [e.sink EXCEPT !.health = h] \in SinkFacts
    BY <1>1 DEF SinkFacts
  <2> QED
    BY <1>4, <2>1, PartPut
<1>5. ASSUME NEW a \in Ages \cup {None}, x = [e EXCEPT !.sink.success = a]
      PROVE  IsView(x)
  <2>1. [e.sink EXCEPT !.success = a] \in SinkFacts
    BY <1>1 DEF SinkFacts, Ages, MaybeAge
  <2> QED
    BY <1>5, <2>1, PartPut
<1>6. ASSUME NEW n \in 1 .. 3, x = [e EXCEPT !.sink.failures = n]
      PROVE  IsView(x)
  <2>1. [e.sink EXCEPT !.failures = n] \in SinkFacts
    BY <1>1 DEF SinkFacts
  <2> QED
    BY <1>6, <2>1, PartPut
<1>7. ASSUME NEW a \in Ages, x = [e EXCEPT !.started = a]
      PROVE  IsView(x)
  <2>1. a \in Nat
    BY DEF Ages
  <2> QED
    BY <1>7, <2>1, PartPut
<1>8. ASSUME x \in {[e EXCEPT !.config.dead_letter_max = 0], [e EXCEPT !.config.max_age = 1],
                    [e EXCEPT !.config.sink_type = "noop"]}
      PROVE  IsView(x)
  <2>1. {[e.config EXCEPT !.dead_letter_max = 0], [e.config EXCEPT !.max_age = 1],
         [e.config EXCEPT !.sink_type = "noop"]} \subseteq ConfigFacts
    BY <1>1 DEF ConfigFacts
  <2> QED
    BY <1>8, <2>1, PartPut
<1> QED
  BY <1>2, <1>3, <1>4, <1>5, <1>6, <1>7, <1>8 DEF DeliveryChanges

LEMMA EventKeeps ==
    ASSUME NEW e, IsView(e), NEW x \in EventChanges(e)
    PROVE  IsView(x)
<1>1. /\ e.recent \in RecentFacts /\ e.reload \in [tls_last_failed : BOOLEAN]
      /\ e.admin \in [enabled : BOOLEAN, state : {"listening", "unavailable"}]
  BY DEF IsView, Evidences
<1>2. ASSUME NEW f \in {"ack_timeouts", "fsync_failures", "flusher_panics", "stranded",
                        "recovery_failed", "copy_failed"}, x = [e EXCEPT !.recent[f] = 1]
      PROVE  IsView(x)
  <2>1. [e.recent EXCEPT ![f] = 1] \in RecentFacts
    BY <1>1 DEF RecentFacts, MaybeAge
  <2> QED
    BY <1>2, <2>1, PartPut
<1>3. ASSUME x = [e EXCEPT !.recent.stranded = None]
      PROVE  IsView(x)
  <2> DEFINE v == [e.recent EXCEPT !.stranded = None]
  <2>1. v \in RecentFacts
    BY <1>1 DEF RecentFacts, MaybeAge
  <2>2. x = [e EXCEPT !.recent = v]
    BY <1>3
  <2> HIDE DEF v
  <2> QED
    BY <2>1, <2>2, PartPut
<1>3a. ASSUME x = [e EXCEPT !.recent.coalesce_slow = TRUE]
      PROVE  IsView(x)
  <2> DEFINE v == [e.recent EXCEPT !.coalesce_slow = TRUE]
  <2>1. v \in RecentFacts
    BY <1>1 DEF RecentFacts, MaybeAge
  <2>2. x = [e EXCEPT !.recent = v]
    BY <1>3a
  <2> HIDE DEF v
  <2> QED
    BY <2>1, <2>2, PartPut
<1>4. ASSUME x = [e EXCEPT !.reload.tls_last_failed = TRUE]
      PROVE  IsView(x)
  <2>1. [e.reload EXCEPT !.tls_last_failed = TRUE] \in [tls_last_failed : BOOLEAN]
    BY <1>1
  <2> QED
    BY <1>4, <2>1, PartPut
<1>5. ASSUME x = [e EXCEPT !.admin.state = "unavailable"]
      PROVE  IsView(x)
  <2> DEFINE v == [e.admin EXCEPT !.state = "unavailable"]
  <2>1. v \in [enabled : BOOLEAN, state : {"listening", "unavailable"}]
    BY <1>1
  <2>2. x = [e EXCEPT !.admin = v]
    BY <1>5
  <2> HIDE DEF v
  <2> QED
    BY <2>1, <2>2, PartPut
<1>5a. ASSUME x = [e EXCEPT !.admin.enabled = FALSE]
      PROVE  IsView(x)
  <2> DEFINE v == [e.admin EXCEPT !.enabled = FALSE]
  <2>1. v \in [enabled : BOOLEAN, state : {"listening", "unavailable"}]
    BY <1>1
  <2>2. x = [e EXCEPT !.admin = v]
    BY <1>5a
  <2> HIDE DEF v
  <2> QED
    BY <2>1, <2>2, PartPut
<1>6. \/ \E f \in {"ack_timeouts", "fsync_failures", "flusher_panics", "stranded",
                  "recovery_failed", "copy_failed"} : x = [e EXCEPT !.recent[f] = 1]
      \/ x = [e EXCEPT !.recent.stranded = None]
      \/ x = [e EXCEPT !.recent.coalesce_slow = TRUE]
      \/ x = [e EXCEPT !.reload.tls_last_failed = TRUE]
      \/ x = [e EXCEPT !.admin.state = "unavailable"]
      \/ x = [e EXCEPT !.admin.enabled = FALSE]
  BY Zenon DEF EventChanges
<1> QED
  BY <1>2, <1>3, <1>3a, <1>4, <1>5, <1>5a, <1>6

LEMMA HealthyIsView == IsView(Healthy)
<1>1. "serving" \in {Phases[i] : i \in DOMAIN Phases}
  <2>1. 5 \in DOMAIN Phases /\ Phases[5] = "serving"
    BY DEF Phases
  <2> QED
    BY <2>1
<1>2. Healthy.wab_cap \in CapFacts /\ Healthy.channel \in [high : MaybeAge] \cup {None}
  BY DEF Healthy, CapFacts, MaybeAge
<1>3. Healthy.drain \in DrainFacts
  BY DEF Healthy, DrainFacts, MaybeAge
<1>4. Healthy.sink \in SinkFacts /\ Healthy.backlog \in BacklogFacts
  BY DEF Healthy, SinkFacts, BacklogFacts, MaybeAge
<1>5. Healthy.recent \in RecentFacts
  BY DEF Healthy, RecentFacts, MaybeAge
<1>6. Healthy.config \in ConfigFacts
  BY DEF Healthy, ConfigFacts
<1>7. Healthy.workers \in [Workers -> WorkerFacts] /\ Healthy.workers[0].running = TRUE
  BY DEF Healthy, Workers, WorkerFacts
<1>8. Healthy.shards \in [Shards -> ShardFacts] /\ \A i \in Shards : Healthy.shards[i].worker = TRUE
  BY DEF Healthy, ShardFacts, MaybeAge
<1>9. Healthy \in Evidences
  <2>1. /\ Healthy.source = "daemon" /\ Healthy.phase = "serving" /\ Healthy.started = 1
        /\ Healthy.shutting_down = FALSE /\ Healthy.listeners = {"bound", "not_configured"}
        /\ Healthy.reload = [tls_last_failed |-> FALSE]
        /\ Healthy.admin = [enabled |-> TRUE, state |-> "listening"]
    BY DEF Healthy
  <2>2. Healthy = [source |-> Healthy.source, phase |-> Healthy.phase,
                   started |-> Healthy.started, shutting_down |-> Healthy.shutting_down,
                   listeners |-> Healthy.listeners, workers |-> Healthy.workers,
                   shards |-> Healthy.shards, wab_cap |-> Healthy.wab_cap,
                   channel |-> Healthy.channel, drain |-> Healthy.drain,
                   sink |-> Healthy.sink, backlog |-> Healthy.backlog,
                   recent |-> Healthy.recent, reload |-> Healthy.reload,
                   admin |-> Healthy.admin, config |-> Healthy.config]
    BY DEF Healthy
  <2> HIDE DEF Healthy, Phases
  <2>3. Healthy.phase \in {Phases[i] : i \in DOMAIN Phases}
    BY Zenon, <1>1, <2>1
  <2>4. Healthy.listeners \in SUBSET {"bound", "not_configured", "pending", "failed", "closed"}
    BY Zenon, <2>1
  <2>5. Healthy.source \in {"daemon"} /\ Healthy.started \in Nat /\ Healthy.shutting_down \in BOOLEAN
    BY DEF Healthy
  <2>6. Healthy.reload \in [tls_last_failed : BOOLEAN]
    BY DEF Healthy
  <2>7. Healthy.admin \in [enabled : BOOLEAN, state : {"listening", "unavailable"}]
    BY DEF Healthy
  <2> QED
    BY Zenon, <1>2, <1>3, <1>4, <1>5, <1>6, <1>7, <1>8, <2>2, <2>3, <2>4, <2>5,
              <2>6, <2>7 DEF Evidences
<1>10. Coherent(Healthy)
  <2>1. /\ Healthy.phase = "serving" /\ Healthy.shutting_down = FALSE
        /\ Healthy.drain.exit = "running" /\ Healthy.drain.state = "draining"
    BY DEF Healthy
  <2> HIDE DEF Healthy
  <2> QED
    BY <1>7, <1>8, <2>1 DEF Coherent
<1> QED
  BY <1>9, <1>10 DEF IsView

\* A reader who lacks one part of the evidence.
LEMMA OneForgotten ==
    ASSUME NEW e, IsView(e), NEW f \in Forgettable
    PROVE  Forgets([e EXCEPT ![f] = None], e)
BY DEF IsView, Evidences, Forgettable, Forgets

\* However the facts of a daemon change, one after the other, its evidence stays
\* coherent (render.rs evidence_at).
THEOREM ViewInvariance == ViewSpec => []ViewInv
<1>1. ViewInit => ViewInv
  BY HealthyIsView DEF ViewInit, ViewInv
<1>2. ViewInv /\ [ViewNext]_viewVars => ViewInv'
  <2> SUFFICES ASSUME ViewInv, [ViewNext]_viewVars PROVE IsView(evidence')
    BY DEF ViewInv
  <2>1. IsView(evidence)
    BY DEF ViewInv
  <2>2. CASE UNCHANGED viewVars
    BY <2>1, <2>2 DEF viewVars
  <2>3. CASE evidence' \in LifeChanges(evidence)
    BY <2>1, <2>3, LifeKeeps
  <2>4. CASE evidence' \in IngestChanges(evidence)
    BY <2>1, <2>4, IngestKeeps
  <2>5. CASE evidence' \in DrainChanges(evidence)
    BY <2>1, <2>5, DrainKeeps
  <2>6. CASE evidence' \in DeliveryChanges(evidence)
    BY <2>1, <2>6, DeliveryKeeps
  <2>7. CASE evidence' \in EventChanges(evidence)
    BY <2>1, <2>7, EventKeeps
  <2> QED
    BY <2>2, <2>3, <2>4, <2>5, <2>6, <2>7 DEF ViewNext
<1> QED
  BY <1>1, <1>2, PTL DEF ViewSpec

\* No evidence that is lost, and no detour by the gauges of /metrics, makes any
\* condition of a daemon look inactive that is active, or makes an unready daemon
\* ready, or fails a /livez that passed (rules.rs, probe.rs, exposition.rs).
THEOREM StatusesNeverFlatter == ViewSpec => []StatusNeverFlatters
<1>1. ViewInv => StatusNeverFlatters
  <2> SUFFICES ASSUME ViewInv PROVE StatusNeverFlatters
    OBVIOUS
  <2>1. IsView(evidence) /\ evidence \in Evidences /\ Coherent(evidence)
    BY DEF ViewInv, IsView
  <2>2. evidence.shutting_down \in BOOLEAN
    BY <2>1 DEF Evidences
  <2>3. ASSUME NEW f \in Forgettable, NEW e, e = [evidence EXCEPT ![f] = None]
        PROVE  /\ \A c \in evaluate(evidence) : rule(e)[c] # Inactive
               /\ readiness(e) => readiness(evidence)
               /\ liveness(evidence, LivezChecks) => liveness(e, LivezChecks)
    <3>1. Forgets(e, evidence)
      BY <2>1, <2>3, OneForgotten
    <3> QED
      BY <2>2, <3>1, ProbesDim
  <2>4. ForgettingNeverHeals
    BY Zenon, <2>3 DEF ForgettingNeverHeals
  <2>5. ScrapeNeverHealthier
    BY Zenon, <2>1, ScrapeNeverBetter DEF ScrapeNeverHealthier
  <2> QED
    BY <2>4, <2>5 DEF StatusNeverFlatters
<1> QED
  BY <1>1, ViewInvariance, PTL
=============================================================================
