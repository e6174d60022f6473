------------------------------- MODULE Ingest -------------------------------
(***************************************************************************)
(* Ingest as a whole: the accept loop and the connection handlers          *)
(* (socket/mod.rs, socket/connection.rs) on top of the pipeline, and the   *)
(* close of ingest at shutdown (lifecycle.rs, main.rs), phase by phase.    *)
(*                                                                         *)
(* A frame is a run of consecutive records of its connection; a single     *)
(* Push is a frame of one.  The bytes of a frame are left out: it is       *)
(* complete and well-formed, or the handler leaves.                        *)
(***************************************************************************)
EXTENDS IngestPipeline

CONSTANTS
    MaxConns,       \* permits of the connection semaphore
    FrameMax,       \* max_batch_records
    MaxSent         \* bound: records that all connections send together

ASSUME IngestAssumption ==
    MaxConns \in Nat /\ FrameMax \in Nat \ {0} /\ MaxSent \in Nat

VARIABLES
    level,          \* ShutdownLevel: "running" or "graceful"
    phase,          \* main: "serving", "lameduck", "closed", "flushers", "stopped"
    accepted,       \* conn_counter
    conn,           \* conn[c]: the handler of c
    parked,         \* pushes inside spawn_blocking, which an abort does not end
    reply           \* reply[r]: what the producer of r was told

ingestVars == <<level, phase, accepted, conn, parked, reply>>
vars == <<pipeVars, ingestVars>>

\* st: where the handler is; shard: where it is pinned; first..last: the records
\* of the frame in hand; next: the one to queue; waits: those with a receiver.
Handler == [st : {"new", "read", "push", "parked", "await", "ended"}, shard : Shards,
            first : 1..(MaxRecs + 1), last : 0..MaxRecs, next : 1..(MaxRecs + 1),
            waits : SUBSET (1..MaxRecs)]

NewHandler == [st |-> "new", shard |-> 0, first |-> 1, last |-> 0, next |-> 1,
               waits |-> {}]

\* One type invariant for the pipeline and the handlers.
TypeOK ==
    /\ PipelineTypeOK
    /\ level \in {"running", "graceful"}
    /\ phase \in {"serving", "lameduck", "closed", "flushers", "stopped"}
    /\ accepted \in Nat
    /\ conn \in [Conns -> Handler]
    /\ parked \subseteq Recs
    /\ reply \in [Recs -> {"none", "ack", "nack"}]

Init ==
    /\ PipelineInit
    /\ level = "running" /\ phase = "serving" /\ accepted = 0
    /\ conn = [c \in Conns |-> NewHandler]
    /\ parked = {}
    /\ reply = [r \in Recs |-> "none"]

Live == {c \in Conns : conn[c].st \in {"read", "push", "parked", "await"}}
Sent == {r \in Recs : r[2] <= conn[r[1]].last}

(***************************************************************************)
(* Accept loop                                                             *)
(***************************************************************************)

Accept(c) ==
    /\ level = "running" /\ phase = "serving" /\ conn[c].st = "new"
    /\ accepted' = accepted + 1
    /\ conn' = [conn EXCEPT ![c] =
                  IF Capable # {} /\ Cardinality(Live) < MaxConns
                  THEN [@ EXCEPT !.st = "read", !.shard = pick_live(accepted)]
                  ELSE [@ EXCEPT !.st = "ended"]]
    /\ UNCHANGED <<pipeVars, level, phase, parked, reply>>

(***************************************************************************)
(* Connection handler                                                      *)
(***************************************************************************)

\* The top of the loop: the handler leaves between frames during a shutdown.
LoopTop(h) == [h EXCEPT !.st = IF phase = "serving" THEN "read" ELSE "ended",
                        !.first = h.last + 1, !.waits = {}]

\* One answer for the frame h, or a write that fails and ends the handler.
Answer(c, h, durable) ==
    \/ /\ reply' = [r \in Recs |->
                      IF r[1] # c \/ r[2] \notin h.first..h.last THEN reply[r]
                      ELSE IF r[2] \in durable THEN "ack" ELSE "nack"]
       /\ conn' = [conn EXCEPT ![c] = LoopTop(h)]
    \/ /\ conn' = [conn EXCEPT ![c] = [h EXCEPT !.st = "ended"]]
       /\ UNCHANGED reply

\* End of stream, read error, idle timeout, a frame that is refused with a
\* permanent reason, or the shutdown signal during a read.
HandlerLeaves(c) ==
    /\ conn[c].st = "read"
    /\ conn' = [conn EXCEPT ![c].st = "ended"]
    /\ UNCHANGED <<pipeVars, level, phase, accepted, parked, reply>>

\* The read wins over the shutdown signal when both are ready.
ReadFrame(c) ==
    /\ conn[c].st = "read"
    /\ \E k \in 1..FrameMax :
          LET h == [conn[c] EXCEPT !.st = "push", !.last = @ + k, !.next = conn[c].first]
          IN /\ h.last <= MaxRecs /\ Cardinality(Sent) + k <= MaxSent
             /\ \/ conn' = [conn EXCEPT ![c] = h] /\ UNCHANGED reply
                \/ Answer(c, h, {})         \* admission_refusal: the cap, the lock
    /\ UNCHANGED <<pipeVars, level, phase, accepted, parked>>

\* The handler after record h.next got into the queue.
Queued(h) == [h EXCEPT !.next = @ + 1, !.waits = @ \cup {h.next},
                       !.st = IF h.next = h.last THEN "await" ELSE "push"]

\* try_push, or a blocking push of this record only; the handler waits for it.
TryPush(c) ==
    LET h == conn[c] IN
    /\ h.st = "push"
    /\ \/ /\ HasRoom(h.shard)
          /\ Enqueue(<<c, h.next>>, h.shard)
          /\ conn' = [conn EXCEPT ![c] = Queued(h)]
          /\ UNCHANGED parked
       \/ /\ ~HasRoom(h.shard)
          /\ parked' = parked \cup {<<c, h.next>>}
          /\ conn' = [conn EXCEPT ![c].st = "parked"]
          /\ UNCHANGED <<part, ack, inFlight>>
    /\ UNCHANGED <<worker, buffers, chan, shard, panics, level, phase, accepted, reply>>

\* push_timeout finds room, whether or not its handler still lives.
ParkedPush(c) ==
    LET h == conn[c] IN
    /\ HasRoom(h.shard)
    /\ \E i \in 1..MaxRecs :
          /\ <<c, i>> \in parked
          /\ Enqueue(<<c, i>>, h.shard)
          /\ parked' = parked \ {<<c, i>>}
          /\ conn' = [conn EXCEPT ![c] =
                        IF h.st = "parked" /\ h.next = i THEN Queued(h) ELSE h]
    /\ UNCHANGED <<worker, buffers, chan, shard, panics, level, phase, accepted, reply>>

\* Mutant of PushTimesOut and AwaitTimesOut: a wait without a limit.
NeverTimesOut(c) == FALSE /\ conn[c].st = "parked" /\ UNCHANGED vars

\* QUEUE_PUSH_TIMEOUT: the rest of the frame is given up.
PushTimesOut(c) ==
    LET h == conn[c] IN
    /\ ~HasRoom(h.shard)
    /\ \E i \in 1..MaxRecs :
          /\ <<c, i>> \in parked
          /\ parked' = parked \ {<<c, i>>}
          /\ conn' = [conn EXCEPT ![c].st =
                        IF h.st = "parked" /\ h.next = i THEN "await" ELSE @]
    /\ UNCHANGED <<pipeVars, level, phase, accepted, reply>>

Unanswered(c) == {i \in conn[c].waits : ack[<<c, i>>] = "waiting"}
Durable(c) == {i \in conn[c].waits : ack[<<c, i>>] = "durable"}

\* Mutant of AwaitDone: the answer counts the durable records of the frame.
AwaitCounts(c) ==
    /\ conn[c].st = "await" /\ Unanswered(c) = {}
    /\ Answer(c, conn[c], {i \in 1..MaxRecs : i < conn[c].first + Cardinality(Durable(c))})
    /\ UNCHANGED <<pipeVars, level, phase, accepted, parked>>

\* Every receiver has resolved.
AwaitDone(c) ==
    /\ conn[c].st = "await" /\ Unanswered(c) = {}
    /\ Answer(c, conn[c], Durable(c))
    /\ UNCHANGED <<pipeVars, level, phase, accepted, parked>>

\* ACK_TIMEOUT: the receivers are awaited in order, so a record behind the first
\* one that has not resolved is reported as not durable whatever became of it.
AwaitTimesOut(c) ==
    /\ conn[c].st = "await" /\ Unanswered(c) # {}
    /\ Answer(c, conn[c], {i \in Durable(c) : \A j \in Unanswered(c) : i < j})
    /\ UNCHANGED <<pipeVars, level, phase, accepted, parked>>

(***************************************************************************)
(* Shutdown                                                                *)
(***************************************************************************)

\* A second signal forces the shutdown: all it does to ingest is to end
\* drain_connections at once, and that may end at any time here.
request_shutdown ==
    /\ level = "running" /\ level' = "graceful"
    /\ UNCHANGED <<pipeVars, phase, accepted, conn, parked, reply>>

\* The accept loop ends and tells the handlers.
LameDuck ==
    /\ phase = "serving" /\ level # "running"
    /\ phase' = "lameduck"
    /\ UNCHANGED <<pipeVars, level, accepted, conn, parked, reply>>

\* drain_connections: clean, or its timeout or a forced shutdown aborts the rest.
\* Main then gives up its own senders.
drain_connections ==
    /\ phase = "lameduck"
    /\ phase' = "closed"
    /\ conn' = [c \in Conns |-> IF c \in Live THEN [conn[c] EXCEPT !.st = "ended"]
                                ELSE conn[c]]
    /\ UNCHANGED <<pipeVars, level, accepted, parked, reply>>

\* Mutant of SendersGone: pushes that outlive their handler are forgotten.
HandlersGone == phase \notin {"serving", "lameduck"} /\ Live = {}

\* Senders that live: main and the listeners, the handlers, the parked pushes.
SendersGone == phase \notin {"serving", "lameduck"} /\ Live = {} /\ parked = {}

\* Main's bounded wait for the senders before the join only logs; the join itself
\* waits for the workers, and they for the senders.
JoinWorkers ==
    /\ phase = "closed" /\ \A w \in Workers : ~Running(w)
    /\ phase' = "flushers"
    /\ UNCHANGED <<pipeVars, level, accepted, conn, parked, reply>>

\* T2: everything that got into the queue is settled.
JoinFlushers ==
    /\ phase = "flushers" /\ \A s \in Shards : shard[s] # "up"
    /\ phase' = "stopped"
    /\ UNCHANGED <<pipeVars, level, accepted, conn, parked, reply>>

(***************************************************************************)
(* Specification                                                           *)
(***************************************************************************)

HandlerRuns(c) == TryPush(c) \/ ParkedPush(c) \/ PushTimesOut(c) \/ AwaitDone(c) \/ AwaitTimesOut(c)

WorkerRuns(w) ==
    /\ \/ WorkerTakes(w) \/ DrainedDry(w) \/ WindowEnds(w)
       \/ EagerFlush(w) \/ flush_all(w) \/ FlushedAll(w)
       \/ SendersGone /\ WorkerDisconnects(w)
    /\ UNCHANGED ingestVars

FlusherRuns(s) == (flush_batch(s) \/ FlusherExits(s)) /\ UNCHANGED ingestVars

MainRuns == LameDuck \/ drain_connections \/ JoinWorkers \/ JoinFlushers

Next ==
    \/ \E c \in Conns : Accept(c) \/ HandlerLeaves(c) \/ ReadFrame(c) \/ HandlerRuns(c)
    \/ \E w \in Workers : WorkerRuns(w) \/ (WorkerPanics(w) /\ UNCHANGED ingestVars)
    \/ \E s \in Shards : FlusherRuns(s) \/ (FlusherPanics(s) /\ UNCHANGED ingestVars)
    \/ request_shutdown \/ MainRuns

Spec == Init /\ [][Next]_vars

\* The runtime polls every handler, its timers fire, the threads are scheduled.
Scheduled ==
    /\ \A c \in Conns : WF_vars(HandlerRuns(c))
    /\ \A w \in Workers : WF_vars(WorkerRuns(w))
    /\ \A s \in Shards : WF_vars(FlusherRuns(s))
    /\ WF_vars(MainRuns)

FairSpec == Spec /\ Scheduled

\* For TLC: a panic takes the place of a record, and of the connections, which are
\* alike, a given one is accepted first.  Neither records, connections nor panics are
\* ever owed, so this takes nothing from the fairness.
Budget ==
    /\ Cardinality(Sent') + panics' <= MaxSent
    /\ LET first == CHOOSE c \in Conns : TRUE
       IN  accepted' > 0 => conn'[first].st # "new"

BudgetSpec == Init /\ [][Next /\ Budget]_vars /\ Scheduled

(***************************************************************************)
(* Properties                                                              *)
(***************************************************************************)

\* An ack on the wire stands for the flusher's answer to that very record, in
\* frames whose records met with different fates too (handle_push_batch).
NoFalseReply == \A r \in Recs : reply[r] = "ack" => ack[r] = "durable"

\* A flusher gets the records of its shard in the order in which they entered the
\* queue, over all connections (queue.rs, worker.rs): what leaves a shard channel
\* is the oldest of what is in flight for the shard.
ShardOrder ==
    [][\A s \in Shards : Len(chan'[s]) < Len(chan[s]) =>
          IsSuffix(inFlight'[s], inFlight[s])]_vars

\* A connection's records enter the queue in the order in which it sent them: once
\* a record is queued no earlier one follows it, parked pushes and pushes that
\* outlive an aborted handler included.
ConnOrder ==
    [][\A c \in Conns : \A i, j \in 1..MaxRecs :
          i < j /\ ack[<<c, j>>] # "none" /\ ack[<<c, i>>] = "none"
             => ack'[<<c, i>>] = "none"]_vars

\* From the producer's socket to the shard's segment, order is kept.
OrderIsKept == ShardOrder /\ ConnOrder

\* When main starts the drain's budget (T2) every record that entered the queue
\* has been through its flusher; only the partition of a worker that panicked may
\* still hold some.
IngestedIsSettled ==
    phase = "stopped" =>
        \A r \in Recs : ack[r] = "waiting" =>
            \E w \in Workers : worker[w] = "panicked" /\ \E u \in ToSet(part[w]) : u.rec = r

\* A handler that has a frame in hand comes back to its loop or ends: no full
\* partition, dead worker or silent flusher holds it for ever.  The frames sent
\* are bounded, so in the end no handler has one in hand.
FrameAnswered == <>[](\A c \in Conns : conn[c].st \notin {"push", "parked", "await"})

\* Workers and flushers do not block one another: a queued record is answered,
\* unless the worker of its partition has panicked.  A record is queued once.
QueuedIsResolved ==
    <>[](\A r \in Recs : ack[r] = "waiting" =>
            worker[PartitionOf(conn[r[1]].shard)] = "panicked")

\* Neither a handler nor a record waits for ever.
NothingIsLeftWaiting == FrameAnswered /\ QueuedIsResolved

\* A shutdown gets through to the end of the joins, whatever blocked pushes and
\* dead workers it meets.
IngestCloses == level # "running" ~> phase = "stopped"
=============================================================================
