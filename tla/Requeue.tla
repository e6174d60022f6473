------------------------------ MODULE Requeue ------------------------------
(***************************************************************************)
(* The destructive offline verbs of weir-ctl (main.rs: dl requeue, dl drop, *)
(* quarantine requeue) beside a running daemon: a run lists one directory,  *)
(* reads each segment, pushes its records through the daemon's socket and   *)
(* deletes the file when all were accepted.  Two operators may run at the   *)
(* same time, a run may be killed anywhere, the daemon may refuse a push,   *)
(* die before or after it has the record, and add a segment meanwhile.      *)
(***************************************************************************)
EXTENDS SegmentReaders

CONSTANTS
    Operators,    \* people who run weir-ctl
    MaxRuns       \* bound: runs in all

ASSUME RequeueBounds == IsFiniteSet(Operators) /\ MaxRuns \in Nat

VARIABLES
    store,      \* file -> [where, name, cells, before]; name "gone" once deleted
    run,        \* operator -> the run of weir-ctl under way
    runs,       \* runs so far
    daemonHas,  \* [safe, memory]: records accepted on disk, and in memory only
    report,     \* [exit, listed, told]: of the last run that was not killed, its exit
                \* status and segments; the skipped ranges all runs have printed
    fate        \* ghost: [risked, dropped, untold]: records acked in memory only;
                \* files dropped by hand; files deleted by a run cut short

requeueVars == <<store, run, runs, daemonHas, report, fate>>

Files == {"old", "new"}
Written == [old |-> <<<<1>>, <<0, 2>>, <<2>>>>, new |-> <<<<1, 1>>>>]
Tiers == {"sync", "buffered"}
RequeueVerbs == {"dl_requeue", "dl_drop", "quarantine_requeue"}

NoRun == [pc |-> "idle", verb |-> "dl_requeue", tier |-> "sync", todo |-> {},
          records |-> <<>>, desynced |-> FALSE, listed |-> {}, problem |-> FALSE,
          skipped |-> {}, deleted |-> {}]

SegmentFile(where, name, before, cells) ==
    [where |-> where, name |-> name, cells |-> cells, before |-> before]

RequeueStart(old) ==
    /\ store = [old |-> old,
                new |-> SegmentFile(old.where, "absent", <<>>, <<>>)]
    /\ run = [o \in Operators |-> NoRun]
    /\ daemonHas = [safe |-> {}, memory |-> {}]
    /\ report = [exit |-> 0, listed |-> {}, told |-> {}]
    /\ fate = [risked |-> {}, dropped |-> {}, untold |-> {}]

\* Dead letters (never compressed) and the drain's quarantined segments are sealed
\* files, recovery's quarantined copies active ones; the disk may have damaged the
\* old file.
RequeueInit ==
    /\ \E z \in Compressions, where \in {"dead_letter", "quarantine"},
          sealed \in BOOLEAN :
          LET before == IF sealed THEN SealedSegment(z, Written.old)
                        ELSE ActiveSegment(z, Written.old)
          IN  /\ sealed \/ where = "quarantine"
              /\ z = "none" \/ where = "quarantine"
              /\ \E cells \in Damaged(before) :
                    RequeueStart(SegmentFile(where, "sealed", before, cells))
    /\ runs = 0
RequeueRests ==
    /\ RequeueStart(SegmentFile("dead_letter", "absent", <<>>, <<>>))
    /\ runs = MaxRuns

-----------------------------------------------------------------------------
(* What a run lists and reads *)

\* dl_sealed_segments leaves the file the daemon still writes alone;
\* quarantine_segments takes both extensions.
dl_sealed_segments ==
    {f \in Files : store[f].where = "dead_letter" /\ store[f].name = "sealed"}
quarantine_segments ==
    {f \in Files : store[f].where = "quarantine" /\ store[f].name \in {"sealed", "active"}}

Unreadable == [ok |-> FALSE, records |-> <<>>, desynced |-> FALSE]
Readable(records, desynced) == [ok |-> TRUE, records |-> records, desynced |-> desynced]

\* Mutant: the reader's own end is taken for the end of the segment.
read_unverified(cells) ==
    LET r == SegmentReader(cells) IN
    IF r.end = "clean" THEN Readable(r.records, FALSE) ELSE Unreadable

\* All of a dead-letter segment or none of it: a record that fails, a torn tail
\* or a footer that counts other records than were read.
read_segment_records(cells) ==
    LET r == SegmentReader(cells) IN
    IF r.end = "clean" /\ verify_sealed_segment(cells) = "ok"
    THEN Readable(r.records, FALSE) ELSE Unreadable

\* What a quarantined segment still yields.
quarantine_read(cells) ==
    LET items == RecoveryReader(cells)
        found == SelectSeq(items, LAMBDA i : i.kind = "record")
    IN  IF ~HeaderParses(cells) THEN Unreadable
        ELSE Readable([i \in DOMAIN found |-> found[i].payload],
                      \E i \in DOMAIN items : items[i].kind = "desynced")

-----------------------------------------------------------------------------
(* A run *)

RunAt(o, pc) == run[o].pc = pc
Current(o) == CHOOSE f \in run[o].todo : f = "new" => run[o].todo = {"new"}

\* The listing.  Without --yes a run only reads; quarantine requeue refuses the
\* buffered tier before it looks at anything; a socket that does not connect
\* ends the run.
StartRun(o, verb, tier, yes) ==
    LET listed == IF verb = "quarantine_requeue" THEN quarantine_segments
                  ELSE dl_sealed_segments
        refused == verb = "quarantine_requeue" /\ tier = "buffered"
    IN
    /\ RunAt(o, "idle")
    /\ verb = "dl_drop" => tier = "sync"   \* it has no tier
    /\ runs < MaxRuns
    /\ runs' = runs + 1
    /\ \/ /\ yes /\ ~refused /\ listed # {}
          /\ run' = [run EXCEPT ![o] = [NoRun EXCEPT !.pc = "next", !.verb = verb,
                                             !.tier = tier, !.todo = listed, !.listed = listed]]
          /\ UNCHANGED report
       \/ /\ ~yes \/ refused \/ listed = {}
          /\ report' = [report EXCEPT !.exit = IF refused THEN 1 ELSE 0, !.listed = {}]
          /\ UNCHANGED run
       \/ /\ yes /\ verb # "dl_drop"
          /\ report' = [report EXCEPT !.exit = 1, !.listed = listed]
          /\ UNCHANGED run
    /\ UNCHANGED <<store, daemonHas, fate>>

Problem(o) == [run[o] EXCEPT !.todo = @ \ {Current(o)}, !.pc = "next", !.problem = TRUE]

\* The next file is read to its end before anything is pushed; one that is gone
\* by now, or that does not read, is a problem of the run and left alone.
ReadSegment(o) ==
    LET f == Current(o)
        r == IF store[f].name = "gone" THEN Unreadable
             ELSE IF run[o].verb = "dl_requeue" THEN read_segment_records(store[f].cells)
             ELSE quarantine_read(store[f].cells)
    IN
    /\ RunAt(o, "next") /\ run[o].todo # {} /\ run[o].verb # "dl_drop"
    /\ run' = [run EXCEPT ![o] =
                  IF r.ok THEN [@ EXCEPT !.pc = "pushing", !.records = r.records,
                                         !.desynced = r.desynced]
                  ELSE Problem(o)]
    /\ UNCHANGED <<store, runs, daemonHas, report, fate>>

EndRun(o, exit, printed) ==
    /\ run' = [run EXCEPT ![o] = NoRun]
    /\ report' = [exit |-> exit, listed |-> run[o].listed, told |-> report.told \cup printed]

\* A run that does not get to its report: what it skipped is not printed.
CutShort(o) == [fate EXCEPT !.untold = @ \cup run[o].deleted]

\* push: an ack in the run's tier; or a failure, with the record taken or not,
\* which ends the run with an error and nothing else.
PushRecord(o) ==
    /\ RunAt(o, "pushing") /\ run[o].records # <<>>
    /\ LET r == Head(run[o].records)
           taken == IF run[o].tier = "sync"
                    THEN [daemonHas EXCEPT !.safe = @ \cup {r}]
                    ELSE [daemonHas EXCEPT !.memory = @ \cup {r}]
       IN  \/ /\ daemonHas' = taken
              /\ run' = [run EXCEPT ![o].records = Tail(@)]
              /\ fate' = IF run[o].tier = "sync" THEN fate
                         ELSE [fate EXCEPT !.risked = @ \cup {r}]
              /\ UNCHANGED report
           \/ /\ daemonHas' \in {daemonHas, taken}
              /\ EndRun(o, 1, {})
              /\ fate' = CutShort(o)
    /\ UNCHANGED <<store, runs>>

\* The ranges a forensic read passed over, each the frame of one record.
SkippedRanges(f) ==
    LET items == RecoveryReader(store[f].cells) IN
    {[file |-> f, at |-> items[k].at, len |-> items[k].len] :
        k \in {k \in DOMAIN items : items[k].kind = "skipped"}}

\* A quarantined segment with bytes nobody has read, or without one record that
\* came back, stays.
Keeps(o) ==
    run[o].verb = "quarantine_requeue" /\
        (run[o].desynced \/ quarantine_read(store[Current(o)].cells).records = <<>>)

\* Everything was accepted: the ranges it skipped are kept for the report, whatever
\* becomes of the file; then the delete, which may fail.
SettleSegment(o) ==
    LET f == Current(o)
        skipped == IF run[o].verb = "quarantine_requeue"
                   THEN run[o].skipped \cup SkippedRanges(f) ELSE {}
    IN
    /\ RunAt(o, "pushing") /\ run[o].records = <<>>
    /\ \/ /\ ~Keeps(o) /\ store[f].name # "gone"
          /\ store' = [store EXCEPT ![f].name = "gone"]
          /\ run' = [run EXCEPT ![o].todo = @ \ {f}, ![o].pc = "next",
                               ![o].skipped = skipped, ![o].deleted = @ \cup {f}]
       \/ /\ run' = [run EXCEPT ![o] = [Problem(o) EXCEPT !.skipped = skipped]]
          /\ UNCHANGED store
    /\ UNCHANGED <<runs, daemonHas, report, fate>>

\* dl drop: every listed file, whatever becomes of the others.
DropSegment(o) ==
    LET f == Current(o) IN
    /\ RunAt(o, "next") /\ run[o].todo # {} /\ run[o].verb = "dl_drop"
    /\ \/ /\ store[f].name # "gone"
          /\ store' = [store EXCEPT ![f].name = "gone"]
          /\ fate' = [fate EXCEPT !.dropped = @ \cup {f}]
          /\ run' = [run EXCEPT ![o].todo = @ \ {f}]
       \/ /\ run' = [run EXCEPT ![o] = Problem(o)]
          /\ UNCHANGED <<store, fate>>
    /\ UNCHANGED <<runs, daemonHas, report>>

\* The end of the loop: the report, with every range that was skipped.
FinishRun(o) ==
    /\ RunAt(o, "next") /\ run[o].todo = {}
    /\ EndRun(o, IF run[o].problem THEN 1 ELSE 0, run[o].skipped)
    /\ UNCHANGED <<store, runs, daemonHas, fate>>

KillRun(o) ==
    /\ ~RunAt(o, "idle")
    /\ run' = [run EXCEPT ![o] = NoRun]
    /\ fate' = CutShort(o)
    /\ UNCHANGED <<store, runs, daemonHas, report>>

-----------------------------------------------------------------------------
(* The daemon *)

\* write_records: the bare file first, then the sealed one under its new name;
\* into quarantine/ a file comes by one rename.
AddSegment ==
    LET done == SealedSegment("none", Written.new) IN
    /\ \/ /\ store.new.name = "absent" /\ store.new.where = "dead_letter"
          /\ store' = [store EXCEPT !.new.name = "active", !.new.before = done,
                                    !.new.cells = ActiveSegment("none", <<>>)]
       \/ /\ \/ store.new.name = "active"
             \/ store.new.name = "absent" /\ store.new.where = "quarantine"
          /\ store' = [store EXCEPT !.new.name = "sealed", !.new.before = done,
                                    !.new.cells = done]
    /\ UNCHANGED <<run, runs, daemonHas, report, fate>>

\* What is in memory reaches the disk, or is lost in a crash.
FlushMemory ==
    /\ daemonHas.memory # {}
    /\ \/ daemonHas' = [safe |-> daemonHas.safe \cup daemonHas.memory, memory |-> {}]
       \/ daemonHas' = [daemonHas EXCEPT !.memory = {}]
    /\ UNCHANGED <<store, run, runs, report, fate>>

RequeueNext ==
    \/ \E o \in Operators :
          \/ \E v \in RequeueVerbs, t \in Tiers, yes \in BOOLEAN : StartRun(o, v, t, yes)
          \/ ReadSegment(o) \/ PushRecord(o) \/ SettleSegment(o) \/ DropSegment(o)
          \/ FinishRun(o) \/ KillRun(o)
    \/ AddSegment \/ FlushMemory

-----------------------------------------------------------------------------
(* What holds *)

\* The i-th record's bytes lie in one of the ranges.
Covered(ranges, f, i) ==
    \E g \in ranges :
        g.file = f /\ (g.at .. g.at + 1 + g.len) \cap FrameCells(Written[f], i) # {}

\* ... or the file ends before them.
CutOff(f, i) == \E p \in FrameCells(Written[f], i) : p > Len(store[f].cells)

\* ... or its zeroed length stands where a sentinel would: the last record of an
\* unsealed file, as long as a footer (the reader's stated residual).
LooksLikeFooter(f, i) ==
    \E p \in FrameCells(Written[f], i) :
        /\ p <= Len(store[f].cells) /\ store[f].cells[p].v = 0
        /\ is_sentinel_offset(store[f].cells, p)

\* The ranges the operator has been shown, or a run under way has yet to print.
Shown(f) ==
    report.told \cup UNION {run[o].skipped : o \in {o \in Operators : f \in run[o].deleted}}

\* weir-ctl dl requeue, quarantine requeue: a segment file that is gone took no
\* record with it.  Each was accepted by the daemon (in memory only where a dead
\* letter's requeue asked for that tier), or the operator dropped the file, or the
\* record lay in a range the reader skipped, or cut off the file, or taken for the
\* footer; and the run that deleted the file prints that range, unless a later
\* segment's push fails or the run is killed first: the ranges are printed once,
\* after the loop.  An exit status of 0 says that every listed segment is gone.
RequeueLosesNothing ==
    /\ \A f \in Files : store[f].name = "gone" /\ f \notin fate.dropped =>
          \A i \in DOMAIN Written[f] :
             \/ Written[f][i] \in daemonHas.safe
             \/ store[f].where = "dead_letter" /\ Written[f][i] \in fate.risked
             \/ /\ store[f].where = "quarantine"
                /\ \/ CutOff(f, i) \/ LooksLikeFooter(f, i) \/ Covered(Shown(f), f, i)
                   \/ f \in fate.untold /\ Covered(SkippedRanges(f), f, i)
    /\ report.exit = 0 => \A f \in report.listed : store[f].name = "gone"

\* weir-wab recovery_reader.rs: a forensic read makes no record up, and unless it
\* ends in Desynced every record whose bytes are intact is returned or lies in a
\* skipped range that says so.  (No run writes to the file: it is read as it was
\* before the first.)
RecoveryIsHonest ==
    runs = 0 /\ store.old.name = "sealed" =>
        LET cells == store.old.cells
            items == RecoveryReader(cells)
            returned == {items[k].payload : k \in {k \in DOMAIN items : items[k].kind = "record"}}
            recs == Written.old
        IN  /\ returned \subseteq {recs[i] : i \in DOMAIN recs}
            /\ HeaderParses(cells) /\ (\A k \in DOMAIN items : items[k].kind # "desynced") =>
                  \A i \in DOMAIN recs :
                     Survives(recs, i, store.old.before, cells) =>
                        recs[i] \in returned \/ Covered(SkippedRanges("old"), "old", i)

\* A requeue loses no record, and says which it could not save.
RequeueIsSafe == RequeueLosesNothing /\ RecoveryIsHonest
=============================================================================
