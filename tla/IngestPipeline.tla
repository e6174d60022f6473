--------------------------- MODULE IngestPipeline ---------------------------
(***************************************************************************)
(* The way of a record from the work queue to the flusher's answer: the    *)
(* partitioned queue (queue.rs), the workers and their batch buffers       *)
(* (worker.rs), the shard channels, and the registry that says which shard *)
(* can take records (status/shards.rs).                                    *)
(*                                                                         *)
(* A record is <<c, i>>, the i-th record that connection c sends.  The     *)
(* flusher is reduced to what it does to the batches it receives: it       *)
(* answers every record, or it panics.  Module Flusher opens that step up. *)
(***************************************************************************)
EXTENDS Naturals, FiniteSets, Sequences, SequencesExt

CONSTANTS
    Conns,          \* connections that are ever opened
    MaxRecs,        \* records a connection sends at most
    NShards,        \* shard_count
    NWorkers,       \* worker_count, which is the number of partitions
    PartCap,        \* capacity of a partition
    BatchSize,      \* batch_size
    ChanCap,        \* capacity of a shard channel
    MaxPanics       \* bound: panics of workers and flushers together

ASSUME PipelineAssumption ==
    /\ MaxRecs \in Nat
    /\ NShards \in Nat \ {0} /\ NWorkers \in Nat \ {0}
    /\ PartCap \in Nat \ {0} /\ BatchSize \in Nat \ {0}
    /\ ChanCap \in Nat \ {0} /\ MaxPanics \in Nat

Shards == 0..(NShards - 1)
Workers == 0..(NWorkers - 1)
Recs == Conns \X (1..MaxRecs)

VARIABLES
    part,           \* part[w]: the queue of partition w, records with their shard
    worker,         \* worker[w]: where worker w is
    buffers,        \* buffers[w][s]: what worker w has gathered for shard s
    chan,           \* chan[s]: the batches on their way to the flusher of s
    shard,          \* shard[s]: "up", "offline" or "stopped"
    ack,            \* ack[r]: "none" until r is queued, then its oneshot: "waiting",
                    \* "durable", or "failed" (resolved false, or its sender dropped)
    inFlight,       \* history: inFlight[s], queued and not answered, by age
    panics

pipeVars == <<part, worker, buffers, chan, shard, ack, inFlight, panics>>

WorkerPlaces == {"recv", "drain", "coalesce", "flush", "exited", "panicked"}

PipelineTypeOK ==
    /\ part \in [Workers -> Seq([rec : Recs, shard : Shards])]
    /\ \A w \in Workers : Len(part[w]) <= PartCap
    /\ worker \in [Workers -> WorkerPlaces]
    /\ buffers \in [Workers -> [Shards -> Seq(Recs)]]
    /\ \A w \in Workers, s \in Shards : Len(buffers[w][s]) <= BatchSize
    /\ chan \in [Shards -> Seq(Seq(Recs))]
    /\ \A s \in Shards : Len(chan[s]) <= ChanCap
    /\ shard \in [Shards -> {"up", "offline", "stopped"}]
    /\ ack \in [Recs -> {"none", "waiting", "durable", "failed"}]
    /\ inFlight \in [Shards -> Seq(Recs)]
    /\ panics \in 0..MaxPanics

PipelineInit ==
    /\ part = [w \in Workers |-> <<>>]
    /\ worker = [w \in Workers |-> "recv"]
    /\ buffers = [w \in Workers |-> [s \in Shards |-> <<>>]]
    /\ chan = [s \in Shards |-> <<>>]
    /\ shard = [s \in Shards |-> "up"]
    /\ ack = [r \in Recs |-> "none"]
    /\ inFlight = [s \in Shards |-> <<>>]
    /\ panics = 0

(***************************************************************************)
(* Registry.  Up and Respawning both take records and are one state here.  *)
(***************************************************************************)

Running(w) == worker[w] \notin {"exited", "panicked"}
PartitionOf(s) == s % NWorkers

ingest_capable(s) == shard[s] = "up" /\ Running(PartitionOf(s))

Capable == {s \in Shards : ingest_capable(s)}

\* The (n mod k)-th of the k capable shards; there must be one.
pick_live(n) ==
    CHOOSE s \in Capable :
        Cardinality({t \in Capable : t < s}) = n % Cardinality(Capable)

(***************************************************************************)
(* Queue                                                                   *)
(***************************************************************************)

HasRoom(s) == Len(part[PartitionOf(s)]) < PartCap

\* Mutant of Enqueue: records are spread over the workers.
EnqueueAnywhere(r, s) ==
    /\ part' = [part EXCEPT ![r[2] % NWorkers] = Append(@, [rec |-> r, shard |-> s])]
    /\ ack' = [ack EXCEPT ![r] = "waiting"]
    /\ inFlight' = [inFlight EXCEPT ![s] = Append(@, r)]

Enqueue(r, s) ==
    /\ part' = [part EXCEPT ![PartitionOf(s)] = Append(@, [rec |-> r, shard |-> s])]
    /\ ack' = [ack EXCEPT ![r] = "waiting"]
    /\ inFlight' = [inFlight EXCEPT ![s] = Append(@, r)]

\* What an answer, or the drop of the sending end, does to the oneshots.
Resolve(s, recs, answer) ==
    /\ ack' = [r \in Recs |-> IF r \in recs THEN answer[r] ELSE ack[r]]
    /\ inFlight' = [inFlight EXCEPT ![s] = SelectSeq(@, LAMBDA r : r \notin recs)]

Drop(s, recs) == Resolve(s, recs, [r \in recs |-> "failed"])

(***************************************************************************)
(* Workers                                                                 *)
(***************************************************************************)

\* A buffer that has reached batch_size is flushed before anything else.
Full(w) == {s \in Shards : Len(buffers[w][s]) >= BatchSize}

WorkerTakes(w) ==
    /\ worker[w] \in {"recv", "drain", "coalesce"}
    /\ Full(w) = {} /\ part[w] # <<>>
    /\ LET unit == Head(part[w]) IN
       buffers' = [buffers EXCEPT ![w][unit.shard] = Append(@, unit.rec)]
    /\ part' = [part EXCEPT ![w] = Tail(@)]
    /\ worker' = [worker EXCEPT ![w] = IF @ = "recv" THEN "drain" ELSE @]
    /\ UNCHANGED <<chan, shard, ack, inFlight, panics>>

\* try_recv found nothing.  Whether the window is worth its latency (the last
\* pass saw two records, this one holds a Durable one) is a choice here.
DrainedDry(w) ==
    /\ worker[w] = "drain" /\ Full(w) = {} /\ part[w] = <<>>
    /\ \E next \in {"coalesce", "flush"} : worker' = [worker EXCEPT ![w] = next]
    /\ UNCHANGED <<part, buffers, chan, shard, ack, inFlight, panics>>

WindowEnds(w) ==
    /\ worker[w] = "coalesce" /\ Full(w) = {}
    /\ worker' = [worker EXCEPT ![w] = "flush"]
    /\ UNCHANGED <<part, buffers, chan, shard, ack, inFlight, panics>>

\* A send blocks while the channel is full and fails once the receiver is gone.
flush_shard(w, s) ==
    /\ buffers[w][s] # <<>>
    /\ buffers' = [buffers EXCEPT ![w][s] = <<>>]
    /\ \/ /\ shard[s] = "up" /\ Len(chan[s]) < ChanCap
          /\ chan' = [chan EXCEPT ![s] = Append(@, buffers[w][s])]
          /\ UNCHANGED <<ack, inFlight>>
       \/ /\ shard[s] # "up"
          /\ Drop(s, ToSet(buffers[w][s]))
          /\ UNCHANGED chan
    /\ UNCHANGED <<part, worker, shard, panics>>

EagerFlush(w) ==
    /\ worker[w] \in {"recv", "drain", "coalesce"}
    /\ \E s \in Full(w) : flush_shard(w, s)

\* flush_all goes through the shards in ascending order.
flush_all(w) ==
    /\ worker[w] = "flush"
    /\ \E s \in Shards :
          /\ \A t \in Shards : t < s => buffers[w][t] = <<>>
          /\ flush_shard(w, s)

FlushedAll(w) ==
    /\ worker[w] = "flush"
    /\ \A s \in Shards : buffers[w][s] = <<>>
    /\ worker' = [worker EXCEPT ![w] = "recv"]
    /\ UNCHANGED <<part, buffers, chan, shard, ack, inFlight, panics>>

\* recv reports Disconnected once no sender is left and the partition is empty.
WorkerDisconnects(w) ==
    /\ worker[w] = "recv" /\ part[w] = <<>>
    /\ \A s \in Shards : buffers[w][s] = <<>>
    /\ worker' = [worker EXCEPT ![w] = "exited"]
    /\ UNCHANGED <<part, buffers, chan, shard, ack, inFlight, panics>>

\* Main's QueueReceiver keeps the partition of a dead worker connected, so its
\* records stay where they are, unanswered.
WorkerPanics(w) ==
    /\ Running(w) /\ panics < MaxPanics
    /\ panics' = panics + 1
    /\ worker' = [worker EXCEPT ![w] = "panicked"]
    /\ LET lost == UNION {ToSet(buffers[w][s]) : s \in Shards} IN
       /\ ack' = [r \in Recs |-> IF r \in lost THEN "failed" ELSE ack[r]]
       /\ inFlight' = [s \in Shards |->
                         SelectSeq(inFlight[s], LAMBDA r : r \notin lost)]
    /\ buffers' = [buffers EXCEPT ![w] = [s \in Shards |-> <<>>]]
    /\ UNCHANGED <<part, chan, shard>>

(***************************************************************************)
(* Flushers                                                                *)
(***************************************************************************)

\* flusher_thread puts waiting batches under one fsync until it has batch_size
\* records.
CoalescedBatches(s) ==
    {n \in 1..Len(chan[s]) : Len(FlattenSeq(SubSeq(chan[s], 1, n - 1))) < BatchSize}

\* The records of batches m to n of the channel.
Batched(s, m, n) == UNION {ToSet(chan[s][i]) : i \in m..n}

flush_batch(s) ==
    /\ shard[s] = "up"
    /\ \E n \in CoalescedBatches(s) :
          LET recs == Batched(s, 1, n) IN
          /\ \E answer \in [recs -> {"durable", "failed"}] : Resolve(s, recs, answer)
          /\ chan' = [chan EXCEPT ![s] = SubSeq(@, n + 1, Len(@))]
    /\ UNCHANGED <<part, worker, buffers, shard, panics>>

\* The batches in hand lose the answers they had not got.  A respawned flusher
\* goes on with the channel; one that is not respawned (its respawns are used up
\* or the counter scan fails) drops the channel.
FlusherPanics(s) ==
    /\ shard[s] = "up" /\ panics < MaxPanics
    /\ panics' = panics + 1
    /\ \E n \in {0} \cup CoalescedBatches(s), fate \in {"up", "offline"} :
          LET hand == Batched(s, 1, n)
              rest == SubSeq(chan[s], n + 1, Len(chan[s]))
              lost == IF fate = "offline" THEN Batched(s, n + 1, Len(chan[s])) ELSE {}
          IN /\ \E answer \in [hand -> {"durable", "failed"}] :
                   Resolve(s, hand \cup lost,
                           [r \in hand \cup lost |->
                              IF r \in hand THEN answer[r] ELSE "failed"])
             /\ chan' = [chan EXCEPT ![s] = IF fate = "offline" THEN <<>> ELSE rest]
             /\ shard' = [shard EXCEPT ![s] = fate]
    /\ UNCHANGED <<part, worker, buffers>>

\* The workers own the senders of the shard channels.
FlusherExits(s) ==
    /\ shard[s] = "up" /\ chan[s] = <<>>
    /\ \A w \in Workers : ~Running(w)
    /\ shard' = [shard EXCEPT ![s] = "stopped"]
    /\ UNCHANGED <<part, worker, buffers, chan, ack, inFlight, panics>>
=============================================================================
