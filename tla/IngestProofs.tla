---------------------------- MODULE IngestProofs ----------------------------
(***************************************************************************)
(* Ingest, for every number of connections, shards, workers and records:   *)
(* no false answer on the wire, nothing that entered the queue is left     *)
(* behind at the end of the joins, and a connection's records are queued   *)
(* in the order in which they were sent.                                   *)
(*                                                                         *)
(* All three rest on where a record is between its push and its answer:    *)
(* in one partition, in one worker's buffer or in one batch of a shard     *)
(* channel (PlacesInv, WaitingInv), on what the handler of its connection  *)
(* still has to push (HandlerInv), and on which threads are gone           *)
(* (GoneInv).                                                              *)
(***************************************************************************)
EXTENDS Ingest, TLAPS, SequenceTheorems, FiniteSetTheorems

(***************************************************************************)
(* The inductive invariant.                                                *)
(***************************************************************************)
\* The types the induction needs: all but the history variable, the count of
\* panics and the bounds of the queues.
Units == [rec : Recs, shard : Shards]

PipeType ==
    /\ part \in [Workers -> Seq(Units)]
    /\ worker \in [Workers -> WorkerPlaces]
    /\ buffers \in [Workers -> [Shards -> Seq(Recs)]]
    /\ chan \in [Shards -> Seq(Seq(Recs))]
    /\ shard \in [Shards -> {"up", "offline", "stopped"}]
    /\ ack \in [Recs -> {"none", "waiting", "durable", "failed"}]

HandlerType ==
    /\ accepted \in Nat
    /\ conn \in [Conns -> Handler]
    /\ parked \subseteq Recs
    /\ reply \in [Recs -> {"none", "ack", "nack"}]

\* The records of a queue of units, and of a queue of batches.
RecsOf(q) == {q[i].rec : i \in DOMAIN q}
RecsIn(q) == UNION {ToSet(q[i]) : i \in DOMAIN q}

\* Where r is: in a partition, a buffer, a channel.
AtPart(r) == \E w \in Workers : r \in RecsOf(part[w])
AtBuffer(r) == \E w \in Workers, s \in Shards : r \in ToSet(buffers[w][s])
AtChan(r) == \E s \in Shards : r \in RecsIn(chan[s])

\* No record twice in a queue of units; none in two batches of a channel.
\* (Inside one buffer, or one batch, all records meet the same fate, and how
\* often it holds one does not matter.)
DistinctUnits(q) == \A i, j \in DOMAIN q : q[i].rec = q[j].rec => i = j
DistinctBatches(q) ==
    \A i, j \in DOMAIN q : \A r \in Recs : r \in ToSet(q[i]) /\ r \in ToSet(q[j]) => i = j

\* A record is in one place at a time.
PartInv ==
    /\ \A w \in Workers : DistinctUnits(part[w])
    /\ \A w, v \in Workers, r \in Recs :
          r \in RecsOf(part[w]) /\ r \in RecsOf(part[v]) => w = v

BufferInv ==
    \A w, v \in Workers, s, t \in Shards, r \in Recs :
        r \in ToSet(buffers[w][s]) /\ r \in ToSet(buffers[v][t]) => w = v /\ s = t

ChanInv ==
    /\ \A s \in Shards : DistinctBatches(chan[s])
    /\ \A s, t \in Shards, r \in Recs :
          r \in RecsIn(chan[s]) /\ r \in RecsIn(chan[t]) => s = t

ApartInv ==
    \A r \in Recs : /\ ~(AtPart(r) /\ AtBuffer(r))
                    /\ ~(AtPart(r) /\ AtChan(r))
                    /\ ~(AtBuffer(r) /\ AtChan(r))

PlacesInv == PartInv /\ BufferInv /\ ChanInv /\ ApartInv

\* What is somewhere waits for its answer, and what waits is somewhere.
WaitingInv ==
    \A r \in Recs : ack[r] = "waiting" <=> AtPart(r) \/ AtBuffer(r) \/ AtChan(r)

PipeInv == PipeType /\ PlacesInv /\ WaitingInv

\* The handler of c, and the records it has not queued yet.
HandlerOk(c) ==
    /\ \A i \in 1..MaxRecs : ack[<<c, i>>] # "none" => i <= conn[c].last
    /\ conn[c].st \in {"new", "read"} => conn[c].first = conn[c].last + 1
    /\ conn[c].st \in {"push", "parked"} =>
         /\ conn[c].next <= conn[c].last
         /\ \A i \in 1..MaxRecs : ack[<<c, i>>] # "none" => i < conn[c].next
    /\ \A i \in 1..MaxRecs : <<c, i>> \in parked =>
         /\ i <= conn[c].last
         /\ \A j \in 1..MaxRecs : ack[<<c, j>>] # "none" => j < i
         /\ conn[c].st = "ended" \/ (conn[c].st = "parked" /\ conn[c].next = i)
         /\ \A j \in 1..MaxRecs : <<c, j>> \in parked => j = i

HandlerInv == \A c \in Conns : HandlerOk(c)

\* The threads that are gone, and what they cannot have left behind.
GoneInv ==
    /\ \A w \in Workers : worker[w] = "exited" => SendersGone /\ part[w] = << >>
    /\ \A w \in Workers : ~Running(w) => \A s \in Shards : buffers[w][s] = << >>
    /\ \A s \in Shards : shard[s] # "up" => chan[s] = << >>
    /\ phase \in {"flushers", "stopped"} => \A w \in Workers : ~Running(w)
    /\ phase = "stopped" => \A s \in Shards : shard[s] # "up"

IngestInv ==
    /\ PipeInv /\ HandlerType /\ HandlerInv /\ GoneInv
    /\ NoFalseReply

(***************************************************************************)
(* Routing.                                                                *)
(***************************************************************************)
\* Every rank below the size of a finite set of numbers is taken.
LEMMA RankTaken ==
    ASSUME NEW S \in SUBSET Nat, IsFiniteSet(S), NEW k \in 0..(Cardinality(S) - 1)
    PROVE  \E s \in S : Cardinality({t \in S : t < s}) = k
<1> DEFINE Below(s) == {t \in S : t < s}
           N == Cardinality(S)
           rank == [s \in S |-> Cardinality(Below(s))]
<1>1. N \in Nat
  BY FS_CardinalityType
<1>2. ASSUME NEW s \in S PROVE Cardinality(Below(s)) \in 0..(N - 1)
  <2>1. Below(s) \subseteq S /\ Below(s) # S
    OBVIOUS
  <2>2. /\ Cardinality(Below(s)) \in Nat
        /\ Cardinality(Below(s)) <= N /\ Cardinality(Below(s)) # N
    <3> HIDE DEF Below
    <3> QED BY <2>1, FS_Subset, FS_CardinalityType
  <2> QED BY <1>1, <2>2
<1>3. ASSUME NEW s \in S, NEW u \in S, s < u PROVE Cardinality(Below(s)) # Cardinality(Below(u))
  <2>1. Below(s) \subseteq Below(u) /\ Below(u) \subseteq S
    <3>1. \A t \in S : t \in Nat /\ (t < s => t < u)
      BY <1>3
    <3> QED BY <3>1
  <2>2. s \in Below(u) /\ s \notin Below(s)
    BY <1>3
  <2> HIDE DEF Below
  <2>3. IsFiniteSet(Below(u))
    BY <2>1, FS_Subset
  <2>4. Below(s) # Below(u)
    BY <2>2
  <2> QED BY <2>1, <2>3, <2>4, FS_Subset
<1>4. rank \in Injection(S, 0..(N - 1))
  <2>1. rank \in [S -> 0..(N - 1)]
    BY <1>2
  <2>2. ASSUME NEW s \in S, NEW u \in S, rank[s] = rank[u] PROVE s = u
    <3>1. s < u \/ u < s \/ s = u
      OBVIOUS
    <3> QED BY <1>3, <2>2, <3>1
  <2> HIDE DEF rank
  <2> QED BY <2>1, <2>2 DEF Injection, IsInjective
<1>5. IsFiniteSet(0..(N - 1)) /\ Cardinality(0..(N - 1)) = N
  <2>1. N - 1 \in Int
    BY <1>1
  <2> QED BY <1>1, <2>1, FS_Interval
<1>6. rank \in Surjection(S, 0..(N - 1))
  <2> HIDE DEF rank
  <2> QED BY <1>4, <1>5, FS_Injection
<1>7. PICK s \in S : rank[s] = k
  <2> HIDE DEF rank
  <2> QED BY <1>6 DEF Surjection
<1> QED BY <1>7

\* pick_live finds a shard whenever one is capable.
LEMMA PickLive ==
    ASSUME Capable # {}, NEW n \in Nat
    PROVE  pick_live(n) \in Shards
<1>1. Capable \subseteq Shards /\ Shards \subseteq Nat
  BY DEF Capable, Shards
<1>2. IsFiniteSet(Capable)
  <2>1. IsFiniteSet(Shards)
    BY PipelineAssumption, FS_Interval DEF Shards
  <2> QED BY <1>1, <2>1, FS_Subset
<1>3. Cardinality(Capable) \in Nat \ {0}
  BY <1>2, FS_CardinalityType, FS_EmptySet
<1>4. n % Cardinality(Capable) \in 0..(Cardinality(Capable) - 1)
  BY <1>3
<1>5. \E s \in Capable : Cardinality({t \in Capable : t < s}) = n % Cardinality(Capable)
  BY <1>1, <1>2, <1>4, RankTaken
<1> QED BY <1>1, <1>5 DEF pick_live

\* A shard has a worker.
LEMMA PartitionType == \A s \in Shards : PartitionOf(s) \in Workers
BY PipelineAssumption DEF PartitionOf, Shards, Workers

(***************************************************************************)
(* Queues.                                                                 *)
(***************************************************************************)
\* The oneshots are indexed by connection and number.
LEMMA RecType == \A c \in Conns, i \in 1..MaxRecs : <<c, i>> \in Recs
BY DEF Recs

\* A push on a partition.
LEMMA AppendUnit ==
    ASSUME NEW q \in Seq(Units), NEW u \in Units, DistinctUnits(q), u.rec \notin RecsOf(q)
    PROVE  /\ Append(q, u) \in Seq(Units) /\ DistinctUnits(Append(q, u))
           /\ RecsOf(Append(q, u)) = RecsOf(q) \cup {u.rec}
<1>1. /\ DOMAIN q = 1..Len(q) /\ Len(q) \in Nat
      /\ DOMAIN Append(q, u) = 1..(Len(q) + 1) /\ Append(q, u) \in Seq(Units)
      /\ \A i \in 1..Len(q) : Append(q, u)[i] = q[i]
      /\ Append(q, u)[Len(q) + 1] = u
  OBVIOUS
<1>2. \A i \in 1..Len(q) : q[i].rec # u.rec
  BY <1>1 DEF RecsOf
<1>3. DistinctUnits(Append(q, u))
  BY <1>1, <1>2 DEF DistinctUnits
<1>4. RecsOf(Append(q, u)) = RecsOf(q) \cup {u.rec}
  BY <1>1 DEF RecsOf
<1> QED BY <1>1, <1>3, <1>4

\* A receive from a partition.
LEMMA TailUnit ==
    ASSUME NEW q \in Seq(Units), q # << >>, DistinctUnits(q)
    PROVE  /\ Head(q) \in Units /\ Tail(q) \in Seq(Units) /\ DistinctUnits(Tail(q))
           /\ Head(q).rec \in RecsOf(q)
           /\ RecsOf(Tail(q)) = RecsOf(q) \ {Head(q).rec}
<1>1. /\ DOMAIN q = 1..Len(q) /\ Len(q) \in Nat \ {0} /\ Head(q) = q[1]
      /\ Head(q) \in Units /\ Tail(q) \in Seq(Units)
      /\ DOMAIN Tail(q) = 1..(Len(q) - 1)
      /\ \A i \in 1..(Len(q) - 1) : Tail(q)[i] = q[i + 1]
  BY HeadTailProperties
<1>2. DistinctUnits(Tail(q))
  <2> SUFFICES ASSUME NEW i \in 1..(Len(q) - 1), NEW j \in 1..(Len(q) - 1),
                      Tail(q)[i].rec = Tail(q)[j].rec
               PROVE  i = j
    BY <1>1 DEF DistinctUnits
  <2>1. i + 1 = j + 1
    BY <1>1 DEF DistinctUnits
  <2> QED BY <2>1
<1>3. Head(q).rec \in RecsOf(q)
  BY <1>1 DEF RecsOf
<1>4. ASSUME NEW r \in RecsOf(Tail(q)) PROVE r \in RecsOf(q) /\ r # Head(q).rec
  <2>1. PICK i \in 1..(Len(q) - 1) : r = q[i + 1].rec
    BY <1>1 DEF RecsOf
  <2> QED BY <1>1, <2>1 DEF RecsOf, DistinctUnits
<1>5. ASSUME NEW r \in RecsOf(q), r # Head(q).rec PROVE r \in RecsOf(Tail(q))
  <2>1. PICK i \in 1..Len(q) : r = q[i].rec
    BY <1>1 DEF RecsOf
  <2>2. i - 1 \in 1..(Len(q) - 1) /\ Tail(q)[i - 1].rec = r
    BY <1>1, <1>5, <2>1
  <2> QED BY <1>1, <2>2 DEF RecsOf
<1> QED BY <1>1, <1>2, <1>3, <1>4, <1>5

\* A send on a shard channel.
LEMMA AppendBatch ==
    ASSUME NEW q \in Seq(Seq(Recs)), NEW b \in Seq(Recs), DistinctBatches(q),
           \A r \in ToSet(b) : r \notin RecsIn(q)
    PROVE  /\ Append(q, b) \in Seq(Seq(Recs)) /\ DistinctBatches(Append(q, b))
           /\ RecsIn(Append(q, b)) = RecsIn(q) \cup ToSet(b)
<1>1. /\ DOMAIN q = 1..Len(q) /\ Len(q) \in Nat
      /\ DOMAIN Append(q, b) = 1..(Len(q) + 1) /\ Append(q, b) \in Seq(Seq(Recs))
      /\ \A i \in 1..Len(q) : Append(q, b)[i] = q[i]
      /\ Append(q, b)[Len(q) + 1] = b
  OBVIOUS
<1>2. RecsIn(Append(q, b)) = RecsIn(q) \cup ToSet(b)
  <2>1. ASSUME NEW r PROVE r \in RecsIn(Append(q, b)) <=> \E i \in 1..(Len(q) + 1) : r \in ToSet(Append(q, b)[i])
    BY <1>1 DEF RecsIn
  <2>2. ASSUME NEW r PROVE r \in RecsIn(q) <=> \E i \in 1..Len(q) : r \in ToSet(q[i])
    BY <1>1 DEF RecsIn
  <2>3. 1..(Len(q) + 1) = 1..Len(q) \cup {Len(q) + 1}
    BY <1>1
  <2> QED BY <1>1, <2>1, <2>2, <2>3
<1>3. \A i \in 1..Len(q), r \in ToSet(b) : r \notin ToSet(q[i])
  BY <1>1 DEF RecsIn
<1>4. DistinctBatches(Append(q, b))
  BY <1>1, <1>3 DEF DistinctBatches
<1> QED BY <1>1, <1>2, <1>4

\* The flusher takes the first n batches.
LEMMA CutBatches ==
    ASSUME NEW q \in Seq(Seq(Recs)), DistinctBatches(q), NEW n \in 0..Len(q)
    PROVE  LET rest == SubSeq(q, n + 1, Len(q))
           IN  /\ rest \in Seq(Seq(Recs)) /\ DistinctBatches(rest)
               /\ RecsIn(rest) = RecsIn(q) \ UNION {ToSet(q[i]) : i \in 1..n}
               /\ UNION {ToSet(q[i]) : i \in 1..n} \subseteq RecsIn(q)
<1> DEFINE rest == SubSeq(q, n + 1, Len(q))
           first == UNION {ToSet(q[i]) : i \in 1..n}
<1>1. DOMAIN q = 1..Len(q) /\ Len(q) \in Nat /\ n \in Nat /\ n <= Len(q)
  OBVIOUS
<1>2. \A i \in 1..Len(q) : q[i] \in Seq(Recs) /\ ToSet(q[i]) \subseteq Recs
  BY <1>1 DEF ToSet
<1>3. /\ rest \in Seq(Seq(Recs)) /\ DOMAIN rest = 1..(Len(q) - n)
      /\ \A i \in 1..(Len(q) - n) : rest[i] = q[n + i]
  <2>1. n + 1 \in 1..(Len(q) + 1) /\ Len(q) \in n..Len(q)
    BY <1>1
  <2> QED BY <1>1, <2>1, SubSeqProperties
<1>4. DistinctBatches(rest)
  <2> SUFFICES ASSUME NEW i \in 1..(Len(q) - n), NEW j \in 1..(Len(q) - n), NEW r \in Recs,
                      r \in ToSet(rest[i]), r \in ToSet(rest[j])
               PROVE  i = j
    BY <1>3 DEF DistinctBatches
  <2>1. r \in ToSet(q[n + i]) /\ r \in ToSet(q[n + j]) /\ n + i \in 1..Len(q) /\ n + j \in 1..Len(q)
    BY <1>1, <1>3
  <2>2. n + i = n + j
    BY <1>1, <2>1 DEF DistinctBatches
  <2> QED BY <1>1, <2>2
<1>5. ASSUME NEW r \in RecsIn(rest) PROVE r \in RecsIn(q) /\ r \notin first
  <2>1. PICK j \in 1..(Len(q) - n) : r \in ToSet(q[n + j])
    BY <1>3 DEF RecsIn
  <2>2. n + j \in 1..Len(q) /\ r \in Recs
    BY <1>1, <1>2, <2>1
  <2>3. \A i \in 1..n : i \in 1..Len(q) /\ i # n + j
    BY <1>1
  <2> QED BY <1>1, <2>1, <2>2, <2>3 DEF RecsIn, DistinctBatches
<1>6. ASSUME NEW r \in RecsIn(q), r \notin first PROVE r \in RecsIn(rest)
  <2>1. PICK i \in 1..Len(q) : r \in ToSet(q[i])
    BY <1>1 DEF RecsIn
  <2>2. ~(i \in 1..n)
    BY <1>6, <2>1
  <2>3. i - n \in 1..(Len(q) - n) /\ n + (i - n) = i
    BY <1>1, <2>1, <2>2
  <2>4. r \in ToSet(rest[i - n])
    BY <1>3, <2>1, <2>3
  <2> HIDE DEF rest
  <2> QED BY <1>3, <2>3, <2>4 DEF RecsIn
<1>7. first \subseteq RecsIn(q)
  <2>1. \A i \in 1..n : i \in DOMAIN q
    BY <1>1
  <2> QED BY <2>1 DEF RecsIn
<1> HIDE DEF rest, first
<1>8. RecsIn(rest) = RecsIn(q) \ first
  BY <1>5, <1>6
<1> QED BY <1>3, <1>4, <1>7, <1>8 DEF rest, first

(***************************************************************************)
(* The pipeline: every step moves records from one place to the next, or   *)
(* answers them where they are.                                            *)
(***************************************************************************)
\* What a step of a worker or a flusher does to the oneshots: it resolves some
\* that wait.
Resolves ==
    \A r \in Recs : ack'[r] = ack[r] \/ (ack[r] = "waiting" /\ ack'[r] \in {"durable", "failed"})

\* The records in the places are records.
LEMMA PlaceTypes ==
    ASSUME PipeType
    PROVE  /\ \A w \in Workers : RecsOf(part[w]) \subseteq Recs
           /\ \A w \in Workers, s \in Shards : ToSet(buffers[w][s]) \subseteq Recs
           /\ \A s \in Shards : RecsIn(chan[s]) \subseteq Recs
<1>1. ASSUME NEW q \in Seq(Units) PROVE RecsOf(q) \subseteq Recs
  <2>1. \A u \in Units : u.rec \in Recs
    BY DEF Units
  <2>2. \A i \in DOMAIN q : q[i] \in Units
    OBVIOUS
  <2> QED BY <2>1, <2>2 DEF RecsOf
<1>2. ASSUME NEW q \in Seq(Recs) PROVE ToSet(q) \subseteq Recs
  BY DEF ToSet
<1>3. ASSUME NEW q \in Seq(Seq(Recs)) PROVE RecsIn(q) \subseteq Recs
  BY <1>2 DEF RecsIn
<1> QED BY <1>1, <1>2, <1>3 DEF PipeType

\* Enqueue: a record that was never queued gets into its partition.
LEMMA EnqueuePlaces ==
    ASSUME PipeInv, NEW r \in Recs, NEW s \in Shards, ack[r] = "none",
           Enqueue(r, s), UNCHANGED <<worker, buffers, chan, shard>>
    PROVE  PipeInv' /\ ack' = [ack EXCEPT ![r] = "waiting"]
<1> USE DEF PipeInv, PipeType
<1>1. PICK w0 \in Workers : w0 = PartitionOf(s)
  BY PartitionType
<1>2. PICK u \in Units : u = [rec |-> r, shard |-> s] /\ u.rec = r
  <2>1. [rec |-> r, shard |-> s] \in Units
    BY DEF Units
  <2> QED BY <2>1
<1>3. /\ part' = [part EXCEPT ![w0] = Append(part[w0], u)]
      /\ ack' = [ack EXCEPT ![r] = "waiting"]
  BY <1>1, <1>2 DEF Enqueue
<1>4. ~AtPart(r) /\ ~AtBuffer(r) /\ ~AtChan(r)
  BY DEF WaitingInv
<1>5. /\ Append(part[w0], u) \in Seq(Units) /\ DistinctUnits(Append(part[w0], u))
      /\ RecsOf(Append(part[w0], u)) = RecsOf(part[w0]) \cup {r}
  BY <1>2, <1>4, AppendUnit DEF AtPart, PlacesInv, PartInv
<1>6. /\ part'[w0] = Append(part[w0], u)
      /\ \A w \in Workers \ {w0} : part'[w] = part[w]
  BY <1>3
<1>7. PipeType'
  BY <1>3, <1>5
<1>8. /\ RecsOf(part'[w0]) = RecsOf(part[w0]) \cup {r}
      /\ \A w \in Workers \ {w0} : RecsOf(part'[w]) = RecsOf(part[w])
      /\ \A w \in Workers : DistinctUnits(part'[w])
  BY <1>5, <1>6 DEF PlacesInv, PartInv
<1>9. \A x : (AtPart(x)' <=> AtPart(x) \/ x = r) /\ (AtBuffer(x)' <=> AtBuffer(x)) /\ (AtChan(x)' <=> AtChan(x))
  BY <1>8 DEF AtPart, AtBuffer, AtChan
<1>10. PlacesInv'
  <2>1. PartInv'
    <3>1. \A w \in Workers, x \in Recs :
            x \in RecsOf(part'[w]) <=> x \in RecsOf(part[w]) \/ (x = r /\ w = w0)
      BY <1>8
    <3>2. \A w \in Workers : r \notin RecsOf(part[w])
      BY <1>4 DEF AtPart
    <3>3. \A w, v \in Workers, x \in Recs :
            x \in RecsOf(part[w]) /\ x \in RecsOf(part[v]) => w = v
      BY DEF PlacesInv, PartInv
    <3> HIDE DEF PipeInv
    <3>4. \A w, v \in Workers, x \in Recs :
            x \in RecsOf(part'[w]) /\ x \in RecsOf(part'[v]) => w = v
      BY <3>1, <3>2, <3>3
    <3> QED BY <1>8, <3>4 DEF PartInv
  <2>2. BufferInv' /\ ChanInv'
    BY DEF PlacesInv, BufferInv, ChanInv
  <2>3. ApartInv'
    BY <1>4, <1>9 DEF PlacesInv, ApartInv
  <2> QED BY <2>1, <2>2, <2>3 DEF PlacesInv
<1>11. WaitingInv'
  BY <1>3, <1>4, <1>9 DEF WaitingInv
<1> QED BY <1>3, <1>7, <1>10, <1>11

\* WorkerTakes: from the partition into the buffer of its shard.
LEMMA TakePlaces ==
    ASSUME PipeInv, NEW w0 \in Workers, WorkerTakes(w0)
    PROVE  PipeInv'
<1> USE DEF PipeInv, PipeType
<1>1. /\ part[w0] # << >> /\ part[w0] \in Seq(Units) /\ DistinctUnits(part[w0])
      /\ UNCHANGED <<chan, shard, ack>>
  BY DEF WorkerTakes, PlacesInv, PartInv
<1>2. PICK u \in Units : u = Head(part[w0])
  BY <1>1, TailUnit
<1>3. PICK r \in Recs, s0 \in Shards : r = u.rec /\ s0 = u.shard
  BY DEF Units
<1>4. /\ Tail(part[w0]) \in Seq(Units) /\ DistinctUnits(Tail(part[w0]))
      /\ r \in RecsOf(part[w0]) /\ RecsOf(Tail(part[w0])) = RecsOf(part[w0]) \ {r}
  BY <1>1, <1>2, <1>3, TailUnit
<1>5. /\ part' = [part EXCEPT ![w0] = Tail(part[w0])]
      /\ buffers' = [buffers EXCEPT ![w0][s0] = Append(buffers[w0][s0], r)]
  BY <1>2, <1>3 DEF WorkerTakes
<1>6. worker' \in [Workers -> WorkerPlaces]
  BY DEF WorkerTakes, WorkerPlaces
<1>7. /\ Append(buffers[w0][s0], r) \in Seq(Recs)
      /\ ToSet(Append(buffers[w0][s0], r)) = ToSet(buffers[w0][s0]) \cup {r}
  <2>1. PICK b \in Seq(Recs) : b = buffers[w0][s0]
    OBVIOUS
  <2>2. /\ DOMAIN b = 1..Len(b) /\ Len(b) \in Nat
        /\ DOMAIN Append(b, r) = 1..(Len(b) + 1) /\ Append(b, r) \in Seq(Recs)
        /\ \A i \in 1..Len(b) : Append(b, r)[i] = b[i]
        /\ Append(b, r)[Len(b) + 1] = r
    OBVIOUS
  <2>3. ToSet(Append(b, r)) = ToSet(b) \cup {r}
    <3>1. \A x : x \in ToSet(Append(b, r)) <=> \E i \in 1..(Len(b) + 1) : x = Append(b, r)[i]
      BY <2>2 DEF ToSet
    <3>2. \A x : x \in ToSet(b) <=> \E i \in 1..Len(b) : x = b[i]
      BY <2>2 DEF ToSet
    <3>3. 1..(Len(b) + 1) = 1..Len(b) \cup {Len(b) + 1}
      BY <2>2
    <3> QED BY <2>2, <3>1, <3>2, <3>3
  <2> QED BY <2>1, <2>2, <2>3
<1>8. /\ part'[w0] = Tail(part[w0]) /\ \A w \in Workers \ {w0} : part'[w] = part[w]
      /\ part' \in [Workers -> Seq(Units)]
  BY <1>4, <1>5
<1>9. /\ buffers'[w0][s0] = Append(buffers[w0][s0], r)
      /\ \A w \in Workers, s \in Shards : w # w0 \/ s # s0 => buffers'[w][s] = buffers[w][s]
      /\ buffers' \in [Workers -> [Shards -> Seq(Recs)]]
  BY <1>5, <1>7
<1>10. PipeType'
  BY <1>1, <1>6, <1>8, <1>9
<1>11. AtPart(r) /\ ~AtBuffer(r) /\ ~AtChan(r)
  BY <1>4 DEF AtPart, PlacesInv, ApartInv
<1>12. ASSUME NEW w \in Workers, NEW x \in Recs
       PROVE  x \in RecsOf(part'[w]) <=> x \in RecsOf(part[w]) /\ x # r
  <2>1. CASE w = w0
    BY <1>4, <1>8, <2>1
  <2>2. CASE w # w0
    BY <1>4, <1>8, <2>2 DEF PlacesInv, PartInv
  <2> QED BY <2>1, <2>2
<1>13. ASSUME NEW w \in Workers, NEW s \in Shards, NEW x
       PROVE  x \in ToSet(buffers'[w][s]) <=> x \in ToSet(buffers[w][s]) \/ (x = r /\ w = w0 /\ s = s0)
  BY <1>7, <1>9
<1>14. \A x \in Recs : /\ AtPart(x)' <=> AtPart(x) /\ x # r
                       /\ AtBuffer(x)' <=> AtBuffer(x) \/ x = r
                       /\ AtChan(x)' <=> AtChan(x)
  BY <1>1, <1>12, <1>13 DEF AtPart, AtBuffer, AtChan
<1>15. PlacesInv'
  <2>1. PartInv'
    <3>1. \A w \in Workers : DistinctUnits(part'[w])
      BY <1>4, <1>8 DEF PlacesInv, PartInv
    <3> QED BY <1>12, <3>1 DEF PlacesInv, PartInv
  <2>2. BufferInv'
    <3>1. \A w \in Workers, s \in Shards : r \notin ToSet(buffers[w][s])
      BY <1>11 DEF AtBuffer
    <3>2. BufferInv
      BY DEF PlacesInv
    <3> HIDE DEF PipeInv
    <3> QED BY <1>13, <3>1, <3>2 DEF BufferInv
  <2>3. ChanInv'
    BY <1>1 DEF PlacesInv, ChanInv
  <2>4. ApartInv'
    BY <1>11, <1>14 DEF PlacesInv, ApartInv
  <2> QED BY <2>1, <2>2, <2>3, <2>4 DEF PlacesInv
<1>16. WaitingInv'
  BY <1>1, <1>11, <1>14 DEF WaitingInv
<1> QED BY <1>10, <1>15, <1>16

\* A step that answers some records of the buffers and channels, and takes
\* them out.
LEMMA AnswerPlaces ==
    ASSUME PipeInv, PipeType', part' = part, NEW gone \in SUBSET Recs,
           \A x \in gone : AtBuffer(x) \/ AtChan(x),
           \A w \in Workers, s \in Shards, x \in Recs :
               x \in ToSet(buffers'[w][s]) <=> x \in ToSet(buffers[w][s]) /\ x \notin gone,
           \A s \in Shards, x \in Recs :
               x \in RecsIn(chan'[s]) <=> x \in RecsIn(chan[s]) /\ x \notin gone,
           \A s \in Shards : DistinctBatches(chan'[s]),
           \A x \in Recs : IF x \in gone THEN ack'[x] \in {"durable", "failed"} ELSE ack'[x] = ack[x]
    PROVE  PipeInv' /\ Resolves
<1>1. PlacesInv /\ WaitingInv
  BY DEF PipeInv
<1>2. \A x \in Recs : /\ AtPart(x)' <=> AtPart(x)
                      /\ AtBuffer(x)' <=> AtBuffer(x) /\ x \notin gone
                      /\ AtChan(x)' <=> AtChan(x) /\ x \notin gone
  BY DEF AtPart, AtBuffer, AtChan
<1>3. \A x \in gone : ~AtPart(x) /\ ack[x] = "waiting"
  BY <1>1 DEF PlacesInv, ApartInv, WaitingInv
<1>4. PlacesInv'
  <2>1. PartInv'
    BY <1>1 DEF PlacesInv, PartInv
  <2>2. BufferInv'
    <3>1. BufferInv
      BY <1>1 DEF PlacesInv
    <3> QED BY <3>1 DEF BufferInv
  <2>3. ChanInv'
    <3>1. ChanInv
      BY <1>1 DEF PlacesInv
    <3> QED BY <3>1 DEF ChanInv
  <2>4. ApartInv'
    BY <1>1, <1>2 DEF PlacesInv, ApartInv
  <2> QED BY <2>1, <2>2, <2>3, <2>4 DEF PlacesInv
<1>5. WaitingInv'
  BY <1>1, <1>2, <1>3 DEF WaitingInv
<1>6. Resolves
  BY <1>3 DEF Resolves
<1> QED BY <1>4, <1>5, <1>6 DEF PipeInv

\* flush_shard: the buffer becomes a batch of the channel, or, once the
\* flusher is gone, its records are answered.
LEMMA FlushPlaces ==
    ASSUME PipeInv, NEW w0 \in Workers, NEW s0 \in Shards, flush_shard(w0, s0)
    PROVE  PipeInv' /\ Resolves
<1> USE DEF PipeType
<1>0. PipeType /\ PlacesInv /\ WaitingInv
  BY DEF PipeInv
<1>1. PICK b \in Seq(Recs) : b = buffers[w0][s0] /\ ToSet(b) \subseteq Recs
  BY <1>0, PlaceTypes
<1>2. /\ UNCHANGED <<part, worker, shard>>
      /\ buffers' = [buffers EXCEPT ![w0][s0] = << >>]
  BY DEF flush_shard
<1>3. /\ buffers'[w0][s0] = << >> /\ ToSet(<< >>) = {}
      /\ \A w \in Workers, s \in Shards : w # w0 \/ s # s0 => buffers'[w][s] = buffers[w][s]
      /\ buffers' \in [Workers -> [Shards -> Seq(Recs)]]
  BY <1>0, <1>2 DEF ToSet
<1>4. ASSUME NEW w \in Workers, NEW s \in Shards, NEW x \in Recs
      PROVE  x \in ToSet(buffers'[w][s]) <=> x \in ToSet(buffers[w][s]) /\ x \notin ToSet(b)
  <2>1. CASE w = w0 /\ s = s0
    BY <1>1, <1>3, <2>1
  <2>2. CASE w # w0 \/ s # s0
    BY <1>0, <1>1, <1>3, <2>2 DEF PlacesInv, BufferInv
  <2> QED BY <2>1, <2>2
<1>5. \A x \in ToSet(b) : x \in Recs /\ AtBuffer(x) /\ ~AtPart(x) /\ ~AtChan(x)
  BY <1>0, <1>1 DEF AtBuffer, PlacesInv, ApartInv
<1>6. CASE shard[s0] # "up"
  <2>1. chan' = chan /\ \A x \in Recs : ack'[x] = IF x \in ToSet(b) THEN "failed" ELSE ack[x]
    BY <1>1, <1>6 DEF flush_shard, Drop, Resolve
  <2>2. ack' \in [Recs -> {"none", "waiting", "durable", "failed"}]
    <3>1. ack' = [r \in Recs |-> IF r \in ToSet(b) THEN [t \in ToSet(b) |-> "failed"][r] ELSE ack[r]]
      BY <1>1, <1>6 DEF flush_shard, Drop, Resolve
    <3> QED BY <1>0, <3>1
  <2>3. PipeType'
    BY <1>0, <1>2, <1>3, <2>1, <2>2
  <2>4. \A s \in Shards, x \in Recs : x \in RecsIn(chan[s]) => x \notin ToSet(b)
    BY <1>5 DEF AtChan
  <2>5. \A s \in Shards : DistinctBatches(chan'[s])
    BY <1>0, <2>1 DEF PlacesInv, ChanInv
  <2> HIDE DEF PipeType
  <2> QED BY <1>1, <1>2, <1>4, <1>5, <2>1, <2>3, <2>4, <2>5, AnswerPlaces
<1>7. CASE shard[s0] = "up"
  <2>1. chan' = [chan EXCEPT ![s0] = Append(chan[s0], b)] /\ ack' = ack
    BY <1>1, <1>7 DEF flush_shard
  <2>2. /\ Append(chan[s0], b) \in Seq(Seq(Recs)) /\ DistinctBatches(Append(chan[s0], b))
        /\ RecsIn(Append(chan[s0], b)) = RecsIn(chan[s0]) \cup ToSet(b)
    <3>1. chan[s0] \in Seq(Seq(Recs)) /\ DistinctBatches(chan[s0])
      BY <1>0 DEF PlacesInv, ChanInv
    <3>2. \A r \in ToSet(b) : r \notin RecsIn(chan[s0])
      BY <1>5 DEF AtChan
    <3> QED BY <3>1, <3>2, AppendBatch
  <2>3. /\ chan'[s0] = Append(chan[s0], b) /\ \A s \in Shards \ {s0} : chan'[s] = chan[s]
        /\ chan' \in [Shards -> Seq(Seq(Recs))]
    BY <1>0, <2>1, <2>2
  <2>4. PipeType'
    BY <1>0, <1>2, <1>3, <2>1, <2>3
  <2>5. \A s \in Shards : \A x : x \in RecsIn(chan'[s]) <=> x \in RecsIn(chan[s]) \/ (s = s0 /\ x \in ToSet(b))
    BY <2>2, <2>3
  <2>6. \A x \in Recs : /\ AtPart(x)' <=> AtPart(x)
                        /\ AtBuffer(x)' <=> AtBuffer(x) /\ x \notin ToSet(b)
                        /\ AtChan(x)' <=> AtChan(x) \/ x \in ToSet(b)
    BY <1>2, <1>4, <2>5 DEF AtPart, AtBuffer, AtChan
  <2> HIDE DEF PipeType
  <2>7. PlacesInv'
    <3>1. PartInv'
      BY <1>0, <1>2 DEF PlacesInv, PartInv
    <3>2. BufferInv'
      BY <1>0, <1>4 DEF PlacesInv, BufferInv
    <3>3. ChanInv'
      <4>1. \A s \in Shards : DistinctBatches(chan'[s])
        BY <1>0, <2>2, <2>3 DEF PlacesInv, ChanInv
      <4>2. \A s, t \in Shards, x \in Recs : x \in RecsIn(chan[s]) /\ x \in RecsIn(chan[t]) => s = t
        BY <1>0 DEF PlacesInv, ChanInv
      <4>3. \A s \in Shards, x \in ToSet(b) : x \notin RecsIn(chan[s])
        BY <1>5 DEF AtChan
      <4>4. \A s, t \in Shards, x \in Recs : x \in RecsIn(chan'[s]) /\ x \in RecsIn(chan'[t]) => s = t
        <5> SUFFICES ASSUME NEW s \in Shards, NEW t \in Shards, NEW x \in Recs,
                            x \in RecsIn(chan'[s]), x \in RecsIn(chan'[t])
                     PROVE  s = t
          OBVIOUS
        <5>1. x \in RecsIn(chan[s]) \/ (s = s0 /\ x \in ToSet(b))
          BY <2>5
        <5>2. x \in RecsIn(chan[t]) \/ (t = s0 /\ x \in ToSet(b))
          BY <2>5
        <5> QED BY <4>2, <4>3, <5>1, <5>2
      <4> QED BY <4>1, <4>4 DEF ChanInv
    <3>4. ApartInv'
      BY <1>0, <1>5, <2>6 DEF PlacesInv, ApartInv
    <3> QED BY <3>1, <3>2, <3>3, <3>4 DEF PlacesInv
  <2>8. WaitingInv'
    BY <1>0, <1>5, <2>1, <2>6 DEF WaitingInv
  <2>9. Resolves
    BY <2>1 DEF Resolves
  <2> QED BY <2>4, <2>7, <2>8, <2>9 DEF PipeInv
<1> QED BY <1>6, <1>7

\* A worker that panics drops its buffers, and with them the answers.
LEMMA PanicPlaces ==
    ASSUME PipeInv, NEW w0 \in Workers, WorkerPanics(w0)
    PROVE  PipeInv' /\ Resolves
<1> USE DEF PipeType
<1>0. PipeType /\ PlacesInv
  BY DEF PipeInv
<1> DEFINE lost == UNION {ToSet(buffers[w0][s]) : s \in Shards}
<1>1. /\ UNCHANGED <<part, chan, shard>>
      /\ ack' = [r \in Recs |-> IF r \in lost THEN "failed" ELSE ack[r]]
      /\ buffers' = [buffers EXCEPT ![w0] = [s \in Shards |-> << >>]]
      /\ worker' = [worker EXCEPT ![w0] = "panicked"]
  BY DEF WorkerPanics
<1>2. PipeType'
  BY <1>0, <1>1 DEF WorkerPlaces
<1>3. \A x : x \in lost <=> \E s \in Shards : x \in ToSet(buffers[w0][s])
  OBVIOUS
<1>4. /\ \A x \in Recs : ack'[x] = IF x \in lost THEN "failed" ELSE ack[x]
      /\ \A s \in Shards : buffers'[w0][s] = << >>
      /\ \A w \in Workers \ {w0} : buffers'[w] = buffers[w]
      /\ ToSet(<< >>) = {}
  BY <1>0, <1>1 DEF ToSet
<1> HIDE DEF lost, PipeType
<1>5. lost \subseteq Recs /\ \A x \in lost : AtBuffer(x) /\ ~AtChan(x)
  <2>1. lost \subseteq Recs
    BY <1>0, <1>3, PlaceTypes
  <2> QED BY <1>0, <1>3, <2>1 DEF AtBuffer, PlacesInv, ApartInv
<1>6. ASSUME NEW w \in Workers, NEW s \in Shards, NEW x \in Recs
      PROVE  x \in ToSet(buffers'[w][s]) <=> x \in ToSet(buffers[w][s]) /\ x \notin lost
  <2>1. CASE w = w0
    BY <1>3, <1>4, <2>1
  <2>2. CASE w # w0
    BY <1>0, <1>3, <1>4, <2>2 DEF PlacesInv, BufferInv
  <2> QED BY <2>1, <2>2
<1>7. \A s \in Shards, x \in Recs : x \in RecsIn(chan'[s]) <=> x \in RecsIn(chan[s]) /\ x \notin lost
  BY <1>1, <1>5 DEF AtChan
<1>8. \A s \in Shards : DistinctBatches(chan'[s])
  BY <1>0, <1>1 DEF PlacesInv, ChanInv
<1> QED BY <1>1, <1>2, <1>4, <1>5, <1>6, <1>7, <1>8, AnswerPlaces

\* The flusher's first n batches are answered and leave the channel.
LEMMA CutPlaces ==
    ASSUME PipeInv, NEW s0 \in Shards, NEW n \in 0..Len(chan[s0]),
           UNCHANGED <<part, worker, buffers>>, shard' \in [Shards -> {"up", "offline", "stopped"}],
           chan' = [chan EXCEPT ![s0] = SubSeq(chan[s0], n + 1, Len(chan[s0]))],
           ack' \in [Recs -> {"none", "waiting", "durable", "failed"}],
           \A x \in Recs : IF x \in Batched(s0, 1, n) THEN ack'[x] \in {"durable", "failed"}
                                                      ELSE ack'[x] = ack[x]
    PROVE  PipeInv' /\ Resolves
<1> USE DEF PipeType
<1>0. PipeType /\ PlacesInv
  BY DEF PipeInv
<1>1. PICK q \in Seq(Seq(Recs)) : q = chan[s0] /\ DistinctBatches(q)
  BY <1>0 DEF PlacesInv, ChanInv
<1>2. PICK rest \in Seq(Seq(Recs)), gone \in SUBSET RecsIn(q) :
        /\ rest = SubSeq(q, n + 1, Len(q)) /\ gone = UNION {ToSet(q[i]) : i \in 1..n}
        /\ DistinctBatches(rest) /\ RecsIn(rest) = RecsIn(q) \ gone
  <2>1. n \in 0..Len(q)
    BY <1>1
  <2>2. LET rest == SubSeq(q, n + 1, Len(q))
        IN  /\ rest \in Seq(Seq(Recs)) /\ DistinctBatches(rest)
            /\ RecsIn(rest) = RecsIn(q) \ UNION {ToSet(q[i]) : i \in 1..n}
            /\ UNION {ToSet(q[i]) : i \in 1..n} \subseteq RecsIn(q)
    BY <1>1, <2>1, CutBatches
  <2> QED BY <2>2
<1>3. gone = Batched(s0, 1, n)
  BY <1>1, <1>2 DEF Batched
<1>4. /\ chan'[s0] = rest /\ \A s \in Shards \ {s0} : chan'[s] = chan[s]
      /\ chan' \in [Shards -> Seq(Seq(Recs))]
  BY <1>0, <1>1, <1>2
<1>5. PipeType'
  BY <1>0, <1>4
<1> HIDE DEF PipeType
<1>6. gone \subseteq Recs /\ \A x \in gone : AtChan(x) /\ ~AtBuffer(x)
  <2>1. gone \subseteq Recs
    BY <1>0, <1>1, <1>2, PlaceTypes
  <2> QED BY <1>0, <1>1, <1>2, <2>1 DEF AtChan, PlacesInv, ApartInv
<1>7. ASSUME NEW s \in Shards, NEW x \in Recs
      PROVE  x \in RecsIn(chan'[s]) <=> x \in RecsIn(chan[s]) /\ x \notin gone
  <2>1. CASE s = s0
    BY <1>1, <1>2, <1>4, <2>1
  <2>2. CASE s # s0
    BY <1>0, <1>1, <1>2, <1>4, <2>2 DEF PlacesInv, ChanInv
  <2> QED BY <2>1, <2>2
<1>8. \A w \in Workers, s \in Shards, x \in Recs :
        x \in ToSet(buffers'[w][s]) <=> x \in ToSet(buffers[w][s]) /\ x \notin gone
  BY <1>6 DEF AtBuffer
<1>9. \A s \in Shards : DistinctBatches(chan'[s])
  BY <1>0, <1>2, <1>4 DEF PlacesInv, ChanInv
<1> QED BY <1>3, <1>5, <1>6, <1>7, <1>8, <1>9, AnswerPlaces

\* flush_batch, or a panic in it: what the flusher holds is answered, and
\* with a flusher that does not come back the rest of its channel too.
LEMMA FlusherPlaces ==
    ASSUME PipeInv, NEW s0 \in Shards, flush_batch(s0) \/ FlusherPanics(s0)
    PROVE  /\ PipeInv' /\ Resolves
           /\ UNCHANGED <<part, worker, buffers>>
           /\ \A s \in Shards \ {s0} : chan'[s] = chan[s] /\ shard'[s] = shard[s]
           /\ shard[s0] = "up" /\ (shard'[s0] # "up" => chan'[s0] = << >>)
<1>0. PipeType
  BY DEF PipeInv
<1>1. Len(chan[s0]) \in Nat /\ CoalescedBatches(s0) \subseteq 1..Len(chan[s0])
  <2>1. chan[s0] \in Seq(Seq(Recs))
    BY <1>0 DEF PipeType
  <2> QED BY <2>1 DEF CoalescedBatches
<1>2. UNCHANGED <<part, worker, buffers>> /\ shard[s0] = "up"
  BY DEF flush_batch, FlusherPanics
<1>3. CASE flush_batch(s0)
  <2>1. PICK n \in CoalescedBatches(s0) :
          /\ \E answer \in [Batched(s0, 1, n) -> {"durable", "failed"}] :
                Resolve(s0, Batched(s0, 1, n), answer)
          /\ chan' = [chan EXCEPT ![s0] = SubSeq(chan[s0], n + 1, Len(chan[s0]))]
    BY <1>3 DEF flush_batch
  <2>2. n \in 0..Len(chan[s0]) /\ shard' = shard
    BY <1>1, <1>3, <2>1 DEF flush_batch
  <2>3. PICK answer \in [Batched(s0, 1, n) -> {"durable", "failed"}] :
          ack' = [r \in Recs |-> IF r \in Batched(s0, 1, n) THEN answer[r] ELSE ack[r]]
    BY <2>1 DEF Resolve
  <2>4. /\ ack' \in [Recs -> {"none", "waiting", "durable", "failed"}]
        /\ \A x \in Recs : IF x \in Batched(s0, 1, n) THEN ack'[x] \in {"durable", "failed"}
                                                      ELSE ack'[x] = ack[x]
    BY <1>0, <2>3 DEF PipeType
  <2>5. PipeInv' /\ Resolves
    BY <1>0, <1>2, <2>1, <2>2, <2>4, CutPlaces DEF PipeType
  <2> QED BY <1>0, <1>2, <2>1, <2>2, <2>5 DEF PipeType
<1>4. CASE FlusherPanics(s0)
  <2>1. PICK n \in {0} \cup CoalescedBatches(s0), fate \in {"up", "offline"} :
          LET hand == Batched(s0, 1, n)
              rest == SubSeq(chan[s0], n + 1, Len(chan[s0]))
              lost == IF fate = "offline" THEN Batched(s0, n + 1, Len(chan[s0])) ELSE {}
          IN /\ \E answer \in [hand -> {"durable", "failed"}] :
                   Resolve(s0, hand \cup lost,
                           [r \in hand \cup lost |->
                              IF r \in hand THEN answer[r] ELSE "failed"])
             /\ chan' = [chan EXCEPT ![s0] = IF fate = "offline" THEN << >> ELSE rest]
             /\ shard' = [shard EXCEPT ![s0] = fate]
    BY <1>4 DEF FlusherPanics
  <2>2. n \in 0..Len(chan[s0])
    BY <1>1, <2>1
  <2> DEFINE hand == Batched(s0, 1, n)
             lost == IF fate = "offline" THEN Batched(s0, n + 1, Len(chan[s0])) ELSE {}
             m == IF fate = "offline" THEN Len(chan[s0]) ELSE n
  <2>3. PICK answer \in [hand -> {"durable", "failed"}] :
          ack' = [r \in Recs |-> IF r \in hand \cup lost
                                   THEN [t \in hand \cup lost |->
                                           IF t \in hand THEN answer[t] ELSE "failed"][r]
                                   ELSE ack[r]]
    BY <2>1 DEF Resolve
  <2>4. m \in 0..Len(chan[s0]) /\ hand \cup lost = Batched(s0, 1, m)
    <3>1. CASE fate = "offline"
      <4>1. \A i : i \in 1..Len(chan[s0]) <=> i \in 1..n \/ i \in (n + 1)..Len(chan[s0])
        BY <1>1, <2>2
      <4>2. Batched(s0, 1, n) \cup Batched(s0, n + 1, Len(chan[s0])) = Batched(s0, 1, Len(chan[s0]))
        BY <4>1 DEF Batched
      <4> QED BY <1>1, <3>1, <4>2
    <3>2. CASE fate # "offline"
      BY <2>2, <3>2
    <3> QED BY <3>1, <3>2
  <2>5. chan' = [chan EXCEPT ![s0] = SubSeq(chan[s0], m + 1, Len(chan[s0]))]
    <3>1. chan[s0] \in Seq(Seq(Recs))
      BY <1>0 DEF PipeType
    <3>2. SubSeq(chan[s0], Len(chan[s0]) + 1, Len(chan[s0])) = << >>
      BY <1>1, <3>1
    <3> QED BY <2>1, <3>2
  <2>6. /\ ack' \in [Recs -> {"none", "waiting", "durable", "failed"}]
        /\ \A x \in Recs : IF x \in hand \cup lost THEN ack'[x] \in {"durable", "failed"}
                                                   ELSE ack'[x] = ack[x]
    <3> HIDE DEF hand, lost
    <3> QED BY <1>0, <2>3 DEF PipeType
  <2>7. shard' \in [Shards -> {"up", "offline", "stopped"}]
    BY <1>0, <2>1 DEF PipeType
  <2>8. \A x \in Recs : IF x \in Batched(s0, 1, m) THEN ack'[x] \in {"durable", "failed"}
                                                  ELSE ack'[x] = ack[x]
    BY <2>4, <2>6
  <2>9. \A s \in Shards \ {s0} : chan'[s] = chan[s] /\ shard'[s] = shard[s]
    BY <1>0, <2>1 DEF PipeType
  <2>10. shard'[s0] # "up" => chan'[s0] = << >>
    BY <1>0, <2>1 DEF PipeType
  <2> HIDE DEF hand, lost, m
  <2>11. PipeInv' /\ Resolves
    BY <1>2, <2>4, <2>5, <2>6, <2>7, <2>8, CutPlaces
  <2> QED BY <1>2, <2>9, <2>10, <2>11
<1> QED BY <1>3, <1>4

\* A step that leaves the places and the oneshots alone.
LEMMA SamePlaces ==
    ASSUME PipeInv, UNCHANGED <<part, buffers, chan, ack>>,
           worker' \in [Workers -> WorkerPlaces], shard' \in [Shards -> {"up", "offline", "stopped"}]
    PROVE  PipeInv' /\ Resolves
BY DEF PipeInv, PipeType, PlacesInv, PartInv, BufferInv, ChanInv, ApartInv, WaitingInv,
       AtPart, AtBuffer, AtChan, Resolves

(***************************************************************************)
(* Workers, flushers and main.                                             *)
(***************************************************************************)
\* Resolving a oneshot disturbs no handler and no answer already given.
LEMMA ResolvesKeeps ==
    ASSUME IngestInv, Resolves, UNCHANGED <<accepted, conn, parked, reply>>
    PROVE  HandlerType' /\ HandlerInv' /\ NoFalseReply'
<1>1. HandlerType'
  BY DEF IngestInv, HandlerType
<1>2. NoFalseReply'
  BY DEF IngestInv, NoFalseReply, Resolves
<1>3. \A c \in Conns, i \in 1..MaxRecs : ack'[<<c, i>>] # "none" => ack[<<c, i>>] # "none"
  BY RecType DEF Resolves
<1>4. HandlerInv'
  BY <1>3 DEF IngestInv, HandlerInv, HandlerOk
<1> QED BY <1>1, <1>2, <1>4

\* A worker's step keeps what is known of the threads that are gone.
LEMMA WorkerGone ==
    ASSUME GoneInv, UNCHANGED ingestVars, shard' = shard, NEW w0 \in Workers, Running(w0),
           \A w \in Workers \ {w0} : /\ worker'[w] = worker[w] /\ part'[w] = part[w]
                                     /\ buffers'[w] = buffers[w],
           worker'[w0] = "exited" => SendersGone /\ part'[w0] = << >>,
           Running(w0)' \/ \A s \in Shards : buffers'[w0][s] = << >>,
           \A s \in Shards : shard[s] # "up" => chan'[s] = chan[s]
    PROVE  GoneInv'
<1>1. SendersGone' <=> SendersGone
  BY DEF ingestVars, SendersGone, Live
<1>2. \A w \in Workers \ {w0} : Running(w)' <=> Running(w)
  BY DEF Running
<1>3. \A w \in Workers : worker'[w] = "exited" => SendersGone' /\ part'[w] = << >>
  BY <1>1 DEF GoneInv
<1>4. \A w \in Workers : ~Running(w)' => \A s \in Shards : buffers'[w][s] = << >>
  BY <1>2 DEF GoneInv
<1>5. phase' = phase /\ phase \notin {"flushers", "stopped"}
  BY DEF GoneInv, ingestVars
<1> QED BY <1>3, <1>4, <1>5 DEF GoneInv

\* Every step of a worker.
LEMMA WorkerStepInv ==
    ASSUME IngestInv, NEW w0 \in Workers,
           WorkerRuns(w0) \/ (WorkerPanics(w0) /\ UNCHANGED ingestVars)
    PROVE  IngestInv'
<1>0. PipeInv /\ PipeType /\ GoneInv /\ UNCHANGED ingestVars
  BY DEF IngestInv, PipeInv, WorkerRuns
<1>1. ASSUME PipeInv', Resolves, GoneInv' PROVE IngestInv'
  BY <1>0, <1>1, ResolvesKeeps DEF IngestInv, ingestVars
<1>2. CASE WorkerTakes(w0)
  <2>1. PipeInv' /\ Resolves
    BY <1>0, <1>2, TakePlaces DEF Resolves, WorkerTakes
  <2>2. /\ Running(w0) /\ Running(w0)' /\ worker'[w0] # "exited" /\ UNCHANGED <<shard, chan>>
        /\ \A w \in Workers \ {w0} : /\ worker'[w] = worker[w] /\ part'[w] = part[w]
                                     /\ buffers'[w] = buffers[w]
    BY <1>0, <1>2 DEF WorkerTakes, PipeType, Running
  <2> QED BY <1>0, <1>1, <2>1, <2>2, WorkerGone
<1>3. CASE DrainedDry(w0) \/ WindowEnds(w0) \/ FlushedAll(w0)
  <2>1. /\ UNCHANGED <<part, buffers, chan, shard, ack>>
        /\ \E next \in {"coalesce", "flush", "recv"} : worker' = [worker EXCEPT ![w0] = next]
        /\ Running(w0)
    BY <1>3 DEF DrainedDry, WindowEnds, FlushedAll, Running
  <2>2. /\ worker' \in [Workers -> WorkerPlaces] /\ Running(w0)' /\ worker'[w0] # "exited"
        /\ \A w \in Workers \ {w0} : worker'[w] = worker[w]
    BY <1>0, <2>1 DEF PipeType, WorkerPlaces, Running
  <2>3. PipeInv' /\ Resolves
    BY <1>0, <2>1, <2>2, SamePlaces DEF PipeType
  <2> QED BY <1>0, <1>1, <2>1, <2>2, <2>3, WorkerGone
<1>4. CASE SendersGone /\ WorkerDisconnects(w0)
  <2>1. /\ UNCHANGED <<part, buffers, chan, shard, ack>> /\ worker' = [worker EXCEPT ![w0] = "exited"]
        /\ Running(w0) /\ part[w0] = << >> /\ \A s \in Shards : buffers[w0][s] = << >>
    BY <1>4 DEF WorkerDisconnects, Running
  <2>2. /\ worker' \in [Workers -> WorkerPlaces]
        /\ \A w \in Workers \ {w0} : worker'[w] = worker[w]
    BY <1>0, <2>1 DEF PipeType, WorkerPlaces
  <2>3. PipeInv' /\ Resolves
    BY <1>0, <2>1, <2>2, SamePlaces DEF PipeType
  <2> QED BY <1>0, <1>1, <1>4, <2>1, <2>2, <2>3, WorkerGone
<1>5. CASE EagerFlush(w0) \/ flush_all(w0)
  <2>1. PICK s0 \in Shards : flush_shard(w0, s0)
    BY <1>5 DEF EagerFlush, flush_all, Full
  <2>2. PipeInv' /\ Resolves
    BY <1>0, <2>1, FlushPlaces
  <2>3. /\ UNCHANGED <<worker, part, shard>> /\ Running(w0)
        /\ buffers' = [buffers EXCEPT ![w0][s0] = << >>]
    BY <1>5, <2>1 DEF flush_shard, EagerFlush, flush_all, Running
  <2>4. \A s \in Shards : shard[s] # "up" => chan'[s] = chan[s]
    BY <1>0, <2>1 DEF flush_shard, PipeType
  <2>5. /\ \A w \in Workers \ {w0} : buffers'[w] = buffers[w]
        /\ Running(w0)' /\ worker'[w0] # "exited"
    BY <1>0, <2>3 DEF PipeType, Running
  <2> QED BY <1>0, <1>1, <2>2, <2>3, <2>4, <2>5, WorkerGone
<1>6. CASE WorkerPanics(w0)
  <2>1. PipeInv' /\ Resolves
    BY <1>0, <1>6, PanicPlaces
  <2>2. /\ UNCHANGED <<part, chan, shard>> /\ Running(w0) /\ worker'[w0] # "exited"
        /\ \A w \in Workers \ {w0} : worker'[w] = worker[w] /\ buffers'[w] = buffers[w]
        /\ \A s \in Shards : buffers'[w0][s] = << >>
    BY <1>0, <1>6 DEF WorkerPanics, PipeType
  <2> QED BY <1>0, <1>1, <2>1, <2>2, WorkerGone
<1> QED BY <1>2, <1>3, <1>4, <1>5, <1>6 DEF WorkerRuns

\* Every step of a flusher.
LEMMA FlusherStepInv ==
    ASSUME IngestInv, NEW s0 \in Shards,
           FlusherRuns(s0) \/ (FlusherPanics(s0) /\ UNCHANGED ingestVars)
    PROVE  IngestInv'
<1>0. PipeInv /\ PipeType /\ GoneInv /\ UNCHANGED ingestVars
  BY DEF IngestInv, PipeInv, FlusherRuns
<1>1. /\ PipeInv' /\ Resolves /\ UNCHANGED <<part, worker, buffers>>
      /\ \A s \in Shards \ {s0} : chan'[s] = chan[s] /\ shard'[s] = shard[s]
      /\ shard[s0] = "up" /\ (shard'[s0] # "up" => chan'[s0] = << >>)
  <2>1. CASE flush_batch(s0) \/ FlusherPanics(s0)
    BY <1>0, <2>1, FlusherPlaces
  <2>2. CASE FlusherExits(s0)
    <3>1. /\ UNCHANGED <<part, worker, buffers, chan, ack>> /\ shard[s0] = "up" /\ chan[s0] = << >>
          /\ shard' = [shard EXCEPT ![s0] = "stopped"]
      BY <2>2 DEF FlusherExits
    <3>2. /\ shard' \in [Shards -> {"up", "offline", "stopped"}]
          /\ \A s \in Shards \ {s0} : shard'[s] = shard[s]
      BY <1>0, <3>1 DEF PipeType
    <3> QED BY <1>0, <3>1, <3>2, SamePlaces DEF PipeType
  <2> QED BY <2>1, <2>2 DEF FlusherRuns
<1>2. GoneInv'
  <2>1. (SendersGone' <=> SendersGone) /\ phase' = phase
    BY <1>0 DEF ingestVars, SendersGone, Live
  <2>2. \A w \in Workers : Running(w)' <=> Running(w)
    BY <1>1 DEF Running
  <2>3. \A s \in Shards : shard'[s] # "up" => chan'[s] = << >>
    BY <1>0, <1>1 DEF GoneInv
  <2>4. phase # "stopped"
    BY <1>0, <1>1 DEF GoneInv
  <2> QED BY <1>0, <1>1, <2>1, <2>2, <2>3, <2>4 DEF GoneInv
<1> QED BY <1>0, <1>1, <1>2, ResolvesKeeps DEF IngestInv, ingestVars

(***************************************************************************)
(* Connection handlers.                                                    *)
(***************************************************************************)
\* What is left to show of a step of c0's handler: it stays in order itself, it
\* leaves the records of the others alone, and it runs while senders live.
LEMMA HandlerStep ==
    ASSUME IngestInv, PipeInv', NEW c0 \in Conns, NEW h0 \in Handler,
           conn' = [conn EXCEPT ![c0] = h0], HandlerOk(c0)', ~SendersGone,
           UNCHANGED <<worker, buffers, chan, shard, phase>>, accepted' \in Nat,
           parked' \subseteq Recs, reply' \in [Recs -> {"none", "ack", "nack"}],
           \A c \in Conns \ {c0}, i \in 1..MaxRecs :
              ack'[<<c, i>>] = ack[<<c, i>>] /\ (<<c, i>> \in parked' <=> <<c, i>> \in parked),
           \A r \in Recs : ack[r] = "durable" => ack'[r] = "durable",
           \A r \in Recs : reply'[r] = "ack" => reply[r] = "ack" \/ ack[r] = "durable"
    PROVE  IngestInv'
<1>0. HandlerType /\ HandlerInv /\ GoneInv /\ NoFalseReply
  BY DEF IngestInv
<1>1. conn'[c0] = h0 /\ \A c \in Conns \ {c0} : conn'[c] = conn[c]
  BY <1>0 DEF HandlerType
<1>2. HandlerType'
  BY <1>0 DEF HandlerType
<1>3. HandlerInv'
  <2>1. ASSUME NEW c \in Conns, c # c0 PROVE HandlerOk(c)'
    <3>1. HandlerOk(c) /\ conn'[c] = conn[c]
      BY <1>0, <1>1, <2>1 DEF HandlerInv
    <3>2. \A i \in 1..MaxRecs :
            ack'[<<c, i>>] = ack[<<c, i>>] /\ (<<c, i>> \in parked' <=> <<c, i>> \in parked)
      BY <2>1
    <3> QED BY <3>1, <3>2 DEF HandlerOk
  <2> QED BY <2>1 DEF HandlerInv
<1>4. GoneInv'
  <2>1. \A w \in Workers : worker[w] # "exited"
    BY <1>0 DEF GoneInv
  <2>2. \A w \in Workers : Running(w)' <=> Running(w)
    BY DEF Running
  <2> QED BY <1>0, <2>1, <2>2 DEF GoneInv
<1>5. NoFalseReply'
  BY <1>0 DEF NoFalseReply
<1> QED BY <1>2, <1>3, <1>4, <1>5 DEF IngestInv

\* The steps that leave the pipeline alone and only tell the producer.
LEMMA TellStep ==
    ASSUME IngestInv, NEW c0 \in Conns, NEW h0 \in Handler, ~SendersGone,
           conn' = [conn EXCEPT ![c0] = h0], UNCHANGED <<pipeVars, phase>>,
           parked' \subseteq parked, accepted' \in Nat,
           \A c \in Conns \ {c0}, i \in 1..MaxRecs : <<c, i>> \in parked => <<c, i>> \in parked',
           HandlerOk(c0)', reply' \in [Recs -> {"none", "ack", "nack"}],
           \A r \in Recs : reply'[r] = "ack" => reply[r] = "ack" \/ ack[r] = "durable"
    PROVE  IngestInv'
<1>1. PipeInv /\ PipeType /\ parked \subseteq Recs
  BY DEF IngestInv, PipeInv, HandlerType
<1>2. UNCHANGED <<part, worker, buffers, chan, shard, ack>>
  BY DEF pipeVars
<1>3. PipeInv'
  BY <1>1, <1>2, SamePlaces DEF PipeType
<1> HIDE DEF IngestInv, PipeInv
<1> QED BY <1>1, <1>2, <1>3, HandlerStep

\* A frame is answered, or its producer is gone.
LEMMA AnswerStep ==
    ASSUME IngestInv, NEW c0 \in Conns, NEW h \in Handler, NEW durable, ~SendersGone,
           Answer(c0, h, durable), UNCHANGED <<pipeVars, phase, accepted, parked>>,
           \A i \in 1..MaxRecs : <<c0, i>> \notin parked,
           \A i \in 1..MaxRecs : ack[<<c0, i>>] # "none" => i <= h.last,
           \A i \in durable : ack[<<c0, i>>] = "durable"
    PROVE  IngestInv'
<1>0. HandlerType
  BY DEF IngestInv
<1>1. PICK h0 \in Handler :
        /\ conn' = [conn EXCEPT ![c0] = h0]
        /\ h0.st \in {"read", "ended"} /\ h0.last = h.last
        /\ h0.st = "read" => h0.first = h0.last + 1
  <2>1. h.last \in 0..MaxRecs /\ h.last + 1 \in 1..(MaxRecs + 1)
    BY PipelineAssumption DEF Handler
  <2>2. LoopTop(h) \in Handler /\ [h EXCEPT !.st = "ended"] \in Handler
    BY <2>1 DEF LoopTop, Handler
  <2>3. CASE conn' = [conn EXCEPT ![c0] = LoopTop(h)]
    <3>1. /\ LoopTop(h).st \in {"read", "ended"} /\ LoopTop(h).last = h.last
          /\ LoopTop(h).first = h.last + 1
      BY DEF LoopTop, Handler
    <3> QED BY <2>2, <2>3, <3>1
  <2>4. CASE conn' = [conn EXCEPT ![c0] = [h EXCEPT !.st = "ended"]]
    <3>1. /\ [h EXCEPT !.st = "ended"].st = "ended" /\ [h EXCEPT !.st = "ended"].last = h.last
      BY DEF Handler
    <3> QED BY <2>2, <2>4, <3>1
  <2> QED BY <2>3, <2>4 DEF Answer
<1>2. /\ reply' \in [Recs -> {"none", "ack", "nack"}]
      /\ \A r \in Recs : reply'[r] = "ack" => reply[r] = "ack" \/ ack[r] = "durable"
  <2>1. CASE UNCHANGED reply
    BY <1>0, <2>1 DEF HandlerType
  <2>2. CASE reply' = [r \in Recs |->
                      IF r[1] # c0 \/ r[2] \notin h.first..h.last THEN reply[r]
                      ELSE IF r[2] \in durable THEN "ack" ELSE "nack"]
    <3>1. reply' \in [Recs -> {"none", "ack", "nack"}]
      BY <1>0, <2>2 DEF HandlerType
    <3>2. ASSUME NEW r \in Recs, reply'[r] = "ack", reply[r] # "ack" PROVE ack[r] = "durable"
      <4>1. r[1] = c0 /\ r[2] \in durable
        BY <2>2, <3>2
      <4>2. r = <<r[1], r[2]>>
        BY DEF Recs
      <4> QED BY <4>1, <4>2
    <3> QED BY <3>1, <3>2
  <2> QED BY <2>1, <2>2 DEF Answer
<1>3. conn'[c0] = h0 /\ UNCHANGED ack
  BY <1>0, <1>1 DEF HandlerType, pipeVars
<1>4. HandlerOk(c0)'
  BY <1>1, <1>3 DEF HandlerOk
<1>5. accepted' \in Nat
  BY <1>0 DEF HandlerType
<1> QED BY <1>1, <1>2, <1>4, <1>5, TellStep

\* A record of c0 gets into the queue.
LEMMA QueueStep ==
    ASSUME IngestInv, NEW c0 \in Conns, NEW i0 \in 1..MaxRecs, ack[<<c0, i0>>] = "none",
           Enqueue(<<c0, i0>>, conn[c0].shard), ~SendersGone, NEW h0 \in Handler,
           conn' = [conn EXCEPT ![c0] = h0],
           UNCHANGED <<worker, buffers, chan, shard, phase, accepted, reply>>,
           \A i \in 1..MaxRecs : ack[<<c0, i>>] # "none" => i < i0,
           parked' = parked \ {<<c0, i0>>}, \A i \in 1..MaxRecs : <<c0, i>> \notin parked',
           i0 <= h0.last, h0.st \in {"push", "await", "ended"},
           h0.st = "push" => i0 < h0.next /\ h0.next <= h0.last
    PROVE  IngestInv'
<1>0. PipeInv /\ PipeType /\ HandlerType
  BY DEF IngestInv, PipeInv
<1>1. PICK r0 \in Recs : r0 = <<c0, i0>>
  BY RecType
<1>2. conn[c0].shard \in Shards
  BY <1>0 DEF HandlerType, Handler
<1>3. PipeInv' /\ ack' = [ack EXCEPT ![r0] = "waiting"]
  BY <1>0, <1>1, <1>2, EnqueuePlaces
<1>4. \A c \in Conns, i \in 1..MaxRecs :
        ack'[<<c, i>>] = IF c = c0 /\ i = i0 THEN "waiting" ELSE ack[<<c, i>>]
  <2>1. \A c \in Conns, i \in 1..MaxRecs : <<c, i>> \in Recs /\ (<<c, i>> = r0 <=> c = c0 /\ i = i0)
    BY <1>1, RecType
  <2> QED BY <1>0, <1>3, <2>1 DEF PipeType
<1>5. conn'[c0] = h0
  BY <1>0 DEF HandlerType
<1>6. HandlerOk(c0)'
  <2>1. \A i \in 1..MaxRecs : ack'[<<c0, i>>] # "none" => i <= i0
    BY <1>4
  <2>2. h0.last \in Int /\ h0.next \in Int
    BY DEF Handler
  <2> QED BY <1>5, <2>1, <2>2 DEF HandlerOk
<1>7. \A c \in Conns \ {c0}, i \in 1..MaxRecs :
        ack'[<<c, i>>] = ack[<<c, i>>] /\ (<<c, i>> \in parked' <=> <<c, i>> \in parked)
  BY <1>4
<1>8. \A r \in Recs : ack[r] = "durable" => ack'[r] = "durable"
  BY <1>0, <1>1, <1>3 DEF PipeType
<1>9. /\ accepted' \in Nat /\ parked' \subseteq Recs
      /\ reply' \in [Recs -> {"none", "ack", "nack"}]
      /\ \A r \in Recs : reply'[r] = "ack" => reply[r] = "ack"
  BY <1>0 DEF HandlerType
<1> HIDE DEF IngestInv, PipeInv
<1> QED BY <1>3, <1>6, <1>7, <1>8, <1>9, HandlerStep

\* The handler after its record got in.
LEMMA QueuedOk ==
    ASSUME NEW h \in Handler, h.next <= h.last
    PROVE  /\ Queued(h) \in Handler /\ Queued(h).last = h.last
           /\ Queued(h).st \in {"push", "await"} /\ Queued(h).next = h.next + 1
           /\ Queued(h).st = "push" => h.next + 1 <= h.last
<1>1. h.next \in 1..MaxRecs /\ h.next + 1 \in 1..(MaxRecs + 1) /\ h.last \in 0..MaxRecs
  BY PipelineAssumption DEF Handler
<1>2. h.waits \cup {h.next} \in SUBSET (1..MaxRecs)
  BY <1>1 DEF Handler
<1>3. Queued(h) \in Handler
  BY <1>1, <1>2 DEF Queued, Handler
<1>4. /\ Queued(h).last = h.last /\ Queued(h).next = h.next + 1
      /\ Queued(h).st = IF h.next = h.last THEN "await" ELSE "push"
  BY DEF Queued, Handler
<1> QED BY <1>1, <1>3, <1>4

\* A live handler, or a parked push, is a sender.
LEMMA Senders ==
    ASSUME NEW c \in Conns
    PROVE  /\ conn[c].st \in {"read", "push", "parked", "await"} => ~SendersGone
           /\ \A i \in 1..MaxRecs : <<c, i>> \in parked => ~SendersGone
           /\ phase = "serving" => ~SendersGone
BY DEF SendersGone, Live

\* Accept, and the ways a handler ends or begins a frame.
LEMMA FrameStepInv ==
    ASSUME IngestInv, NEW c0 \in Conns,
           Accept(c0) \/ HandlerLeaves(c0) \/ ReadFrame(c0)
    PROVE  IngestInv'
<1>0. HandlerType /\ HandlerOk(c0) /\ conn[c0] \in Handler
  BY DEF IngestInv, HandlerType, HandlerInv
<1>1. ASSUME NEW h0 \in Handler, conn' = [conn EXCEPT ![c0] = h0], h0.st \in {"read", "ended"},
             h0.last = conn[c0].last, h0.st = "read" => h0.first = h0.last + 1,
             UNCHANGED <<pipeVars, phase, parked, reply>>, accepted' \in Nat, ~SendersGone,
             conn[c0].st \in {"new", "read"}
      PROVE  IngestInv'
  <2>1. conn'[c0] = h0 /\ UNCHANGED ack /\ reply' \in [Recs -> {"none", "ack", "nack"}]
    BY <1>0, <1>1 DEF HandlerType, pipeVars
  <2>2. HandlerOk(c0)'
    BY <1>0, <1>1, <2>1 DEF HandlerOk
  <2> QED BY <1>1, <2>1, <2>2, TellStep
<1>2. CASE Accept(c0)
  <2>1. /\ ~SendersGone /\ accepted' \in Nat /\ UNCHANGED <<pipeVars, phase, parked, reply>>
        /\ conn[c0].st = "new"
    BY <1>0, <1>2, Senders DEF Accept, HandlerType
  <2>2. CASE Capable # {} /\ Cardinality(Live) < MaxConns
    <3>1. PICK s \in Shards : s = pick_live(accepted)
      BY <1>0, <2>2, PickLive DEF HandlerType
    <3>2. conn' = [conn EXCEPT ![c0] = [conn[c0] EXCEPT !.st = "read", !.shard = s]]
      BY <1>2, <2>2, <3>1 DEF Accept
    <3>3. PICK h0 \in Handler : h0 = [conn[c0] EXCEPT !.st = "read", !.shard = s]
      BY <1>0 DEF Handler
    <3>4. h0.st = "read" /\ h0.last = conn[c0].last /\ h0.first = conn[c0].first
      BY <1>0, <3>3 DEF Handler
    <3> QED BY <1>0, <1>1, <2>1, <3>2, <3>3, <3>4 DEF HandlerOk
  <2>3. CASE ~(Capable # {} /\ Cardinality(Live) < MaxConns)
    <3>1. conn' = [conn EXCEPT ![c0] = [conn[c0] EXCEPT !.st = "ended"]]
      BY <1>2, <2>3 DEF Accept
    <3>2. PICK h0 \in Handler : h0 = [conn[c0] EXCEPT !.st = "ended"]
      BY <1>0 DEF Handler
    <3>3. h0.st = "ended" /\ h0.last = conn[c0].last
      BY <1>0, <3>2 DEF Handler
    <3> QED BY <1>1, <2>1, <3>1, <3>2, <3>3
  <2> QED BY <2>2, <2>3
<1>3. CASE HandlerLeaves(c0)
  <2>1. /\ ~SendersGone /\ accepted' \in Nat /\ UNCHANGED <<pipeVars, phase, parked, reply>>
        /\ conn' = [conn EXCEPT ![c0] = [conn[c0] EXCEPT !.st = "ended"]] /\ conn[c0].st = "read"
    BY <1>0, <1>3, Senders DEF HandlerLeaves, HandlerType
  <2>2. PICK h0 \in Handler : h0 = [conn[c0] EXCEPT !.st = "ended"]
    BY <1>0 DEF Handler
  <2>3. h0.st = "ended" /\ h0.last = conn[c0].last
    BY <1>0, <2>2 DEF Handler
  <2> QED BY <1>1, <2>1, <2>2, <2>3
<1>4. CASE ReadFrame(c0)
  <2>1. /\ ~SendersGone /\ UNCHANGED <<pipeVars, phase, parked, accepted>>
        /\ conn[c0].st = "read"
    BY <1>0, <1>4, Senders DEF ReadFrame
  <2>2. PICK k \in 1..FrameMax :
          LET h == [conn[c0] EXCEPT !.st = "push", !.last = @ + k, !.next = conn[c0].first]
          IN /\ h.last <= MaxRecs
             /\ \/ conn' = [conn EXCEPT ![c0] = h] /\ UNCHANGED reply
                \/ Answer(c0, h, {})
    BY <1>4 DEF ReadFrame
  <2> DEFINE h == [conn[c0] EXCEPT !.st = "push", !.last = @ + k, !.next = conn[c0].first]
  <2>3. /\ h.st = "push" /\ h.last = conn[c0].last + k /\ h.next = conn[c0].first
        /\ h.first = conn[c0].first /\ h.shard = conn[c0].shard /\ h.waits = conn[c0].waits
    BY <1>0 DEF Handler
  <2>4. k \in Nat \ {0} /\ conn[c0].last \in Nat /\ conn[c0].first \in Nat
    BY <1>0, IngestAssumption DEF Handler
  <2>5. h.last \in 0..MaxRecs
    BY <2>2, <2>3, <2>4, PipelineAssumption
  <2>6. h \in Handler
    BY <1>0, <2>3, <2>5 DEF Handler
  <2>7. conn[c0].first = conn[c0].last + 1 /\ \A i \in 1..MaxRecs : <<c0, i>> \notin parked
    BY <1>0, <2>1 DEF HandlerOk
  <2>8. \A i \in 1..MaxRecs : ack[<<c0, i>>] # "none" => i < h.next /\ i <= h.last
    BY <1>0, <2>3, <2>4, <2>7 DEF HandlerOk
  <2>9. h.next <= h.last
    BY <2>3, <2>4, <2>7
  <2>10. Answer(c0, h, {}) \/ (conn' = [conn EXCEPT ![c0] = h] /\ UNCHANGED reply)
    BY <2>2
  <2> HIDE DEF h
  <2>11. CASE Answer(c0, h, {})
    BY <2>1, <2>6, <2>7, <2>8, <2>11, AnswerStep
  <2>12. CASE conn' = [conn EXCEPT ![c0] = h] /\ UNCHANGED reply
    <3>1. /\ conn'[c0] = h /\ UNCHANGED <<ack, parked>> /\ accepted' \in Nat
          /\ reply' \in [Recs -> {"none", "ack", "nack"}]
      BY <1>0, <2>1, <2>12 DEF HandlerType, pipeVars
    <3>2. HandlerOk(c0)'
      BY <2>3, <2>7, <2>8, <2>9, <3>1 DEF HandlerOk
    <3> QED BY <2>1, <2>6, <2>12, <3>1, <3>2, TellStep
  <2> QED BY <2>10, <2>11, <2>12
<1> QED BY <1>2, <1>3, <1>4

\* The pushes, and the answers to a frame.
LEMMA HandlerRunsInv ==
    ASSUME IngestInv, NEW c0 \in Conns, HandlerRuns(c0)
    PROVE  IngestInv'
<1>0. HandlerType /\ HandlerOk(c0) /\ conn[c0] \in Handler
  BY DEF IngestInv, HandlerType, HandlerInv
<1>1. PICK h \in Handler : h = conn[c0]
  BY <1>0
<1>2. /\ h.next \in 1..(MaxRecs + 1) /\ h.last \in 0..MaxRecs /\ h.shard \in Shards
      /\ MaxRecs \in Nat /\ h.waits \subseteq 1..MaxRecs
  BY PipelineAssumption DEF Handler
<1>3. CASE TryPush(c0)
  <2>1. /\ h.st = "push" /\ UNCHANGED <<worker, buffers, chan, shard, phase, accepted, reply>>
        /\ ~SendersGone
    BY <1>1, <1>3, Senders DEF TryPush
  <2>2. /\ h.next <= h.last /\ h.next \in 1..MaxRecs
        /\ \A i \in 1..MaxRecs : ack[<<c0, i>>] # "none" => i < h.next
        /\ \A i \in 1..MaxRecs : <<c0, i>> \notin parked
    BY <1>0, <1>1, <1>2, <2>1 DEF HandlerOk
  <2>3. CASE /\ Enqueue(<<c0, h.next>>, h.shard) /\ conn' = [conn EXCEPT ![c0] = Queued(h)]
             /\ UNCHANGED parked
    <3>1. PICK h0 \in Handler :
            /\ h0 = Queued(h) /\ h0.last = h.last /\ h0.st \in {"push", "await"}
            /\ h0.next = h.next + 1 /\ (h0.st = "push" => h0.next <= h0.last)
      BY <2>2, QueuedOk
    <3>2. ack[<<c0, h.next>>] = "none"
      BY <2>2
    <3>3. parked' = parked \ {<<c0, h.next>>}
      BY <2>2, <2>3
    <3>4. \A i \in 1..MaxRecs : <<c0, i>> \notin parked'
      BY <2>2, <2>3
    <3>5. h.next <= h0.last /\ h.next < h0.next
      BY <1>2, <2>2, <3>1
    <3>6. Enqueue(<<c0, h.next>>, conn[c0].shard) /\ conn' = [conn EXCEPT ![c0] = h0]
      BY <1>1, <2>3, <3>1
    <3> QED BY <2>1, <2>2, <3>1, <3>2, <3>3, <3>4, <3>5, <3>6, QueueStep
  <2>4. CASE /\ parked' = parked \cup {<<c0, h.next>>}
             /\ conn' = [conn EXCEPT ![c0].st = "parked"]
             /\ UNCHANGED <<part, ack, inFlight>>
    <3>1. PICK h0 \in Handler : h0 = [h EXCEPT !.st = "parked"]
      BY DEF Handler
    <3>2. /\ h0.st = "parked" /\ h0.last = h.last /\ h0.next = h.next
          /\ conn' = [conn EXCEPT ![c0] = h0] /\ conn'[c0] = h0
      BY <1>0, <1>1, <2>4, <3>1 DEF Handler, HandlerType
    <3>3. \A c \in Conns, i \in 1..MaxRecs :
            <<c, i>> \in parked' <=> <<c, i>> \in parked \/ (c = c0 /\ i = h.next)
      BY <2>4
    <3>4. parked' \subseteq Recs /\ accepted' \in Nat /\ reply' \in [Recs -> {"none", "ack", "nack"}]
      BY <1>0, <2>1, <2>2, <2>4, RecType DEF HandlerType
    <3>5. HandlerOk(c0)'
      <4>1. \A i \in 1..MaxRecs : <<c0, i>> \in parked' => i = h.next
        BY <2>2, <3>3
      <4>2. \A i \in 1..MaxRecs : ack'[<<c0, i>>] # "none" => i < h.next /\ i <= h.last
        BY <1>0, <1>1, <2>2, <2>4 DEF HandlerOk
      <4> QED BY <2>2, <3>2, <4>1, <4>2 DEF HandlerOk
    <3>6. PipeInv'
      <4>1. PipeInv /\ PipeType
        BY DEF IngestInv, PipeInv
      <4> QED BY <2>1, <2>4, <4>1, SamePlaces DEF PipeType
    <3> QED BY <2>1, <2>4, <3>2, <3>3, <3>4, <3>5, <3>6, HandlerStep
  <2> QED BY <1>1, <1>3, <2>3, <2>4 DEF TryPush
<1>4. CASE ParkedPush(c0)
  <2>1. PICK i0 \in 1..MaxRecs :
          /\ <<c0, i0>> \in parked /\ Enqueue(<<c0, i0>>, h.shard)
          /\ parked' = parked \ {<<c0, i0>>}
          /\ conn' = [conn EXCEPT ![c0] = IF h.st = "parked" /\ h.next = i0 THEN Queued(h) ELSE h]
    BY <1>1, <1>4 DEF ParkedPush
  <2>2. UNCHANGED <<worker, buffers, chan, shard, phase, accepted, reply>> /\ ~SendersGone
    BY <1>4, <2>1, Senders DEF ParkedPush
  <2>3. /\ i0 <= h.last /\ \A j \in 1..MaxRecs : ack[<<c0, j>>] # "none" => j < i0
        /\ h.st = "ended" \/ (h.st = "parked" /\ h.next = i0)
        /\ \A j \in 1..MaxRecs : <<c0, j>> \in parked => j = i0
    BY <1>0, <1>1, <2>1 DEF HandlerOk
  <2>4. ack[<<c0, i0>>] = "none" /\ \A i \in 1..MaxRecs : <<c0, i>> \notin parked'
    BY <2>1, <2>3
  <2>5. PICK h0 \in Handler :
          /\ conn' = [conn EXCEPT ![c0] = h0] /\ h0.last = h.last
          /\ h0.st \in {"push", "await", "ended"}
          /\ h0.st = "push" => h0.next = i0 + 1 /\ h0.next <= h0.last
    <3>1. CASE h.st = "parked" /\ h.next = i0
      BY <2>1, <2>3, <3>1, QueuedOk
    <3>2. CASE h.st = "ended"
      BY <2>1, <3>2
    <3> QED BY <2>3, <3>1, <3>2
  <2>6. h0.st = "push" => i0 < h0.next
    BY <2>5
  <2> QED BY <1>1, <2>1, <2>2, <2>3, <2>4, <2>5, <2>6, QueueStep
<1>5. CASE PushTimesOut(c0)
  <2>1. PICK i0 \in 1..MaxRecs :
          /\ <<c0, i0>> \in parked /\ parked' = parked \ {<<c0, i0>>}
          /\ conn' = [conn EXCEPT ![c0].st = IF h.st = "parked" /\ h.next = i0 THEN "await" ELSE @]
    BY <1>1, <1>5 DEF PushTimesOut
  <2>2. UNCHANGED <<pipeVars, phase, accepted, reply>> /\ ~SendersGone
    BY <1>5, <2>1, Senders DEF PushTimesOut
  <2>3. /\ h.st = "ended" \/ (h.st = "parked" /\ h.next = i0)
        /\ \A j \in 1..MaxRecs : <<c0, j>> \in parked => j = i0
        /\ \A j \in 1..MaxRecs : ack[<<c0, j>>] # "none" => j <= h.last
    BY <1>0, <1>1, <2>1 DEF HandlerOk
  <2>4. PICK h0 \in Handler :
          /\ h0 = [h EXCEPT !.st = IF h.st = "parked" /\ h.next = i0 THEN "await" ELSE h.st]
          /\ h0.last = h.last /\ h0.st \in {"await", "ended"}
    <3>1. [h EXCEPT !.st = "await"] \in Handler /\ [h EXCEPT !.st = "await"].last = h.last
          /\ [h EXCEPT !.st = "await"].st = "await"
      BY DEF Handler
    <3>2. [h EXCEPT !.st = h.st] = h
      BY DEF Handler
    <3> QED BY <2>3, <3>1, <3>2
  <2>5. conn' = [conn EXCEPT ![c0] = h0] /\ conn'[c0] = h0
    BY <1>0, <1>1, <2>1, <2>4 DEF HandlerType
  <2>6. /\ accepted' \in Nat /\ reply' \in [Recs -> {"none", "ack", "nack"}] /\ ack' = ack
        /\ \A r \in Recs : reply'[r] = "ack" => reply[r] = "ack"
    BY <1>0, <2>2 DEF HandlerType, pipeVars
  <2>7. \A i \in 1..MaxRecs : <<c0, i>> \notin parked'
    BY <2>1, <2>3
  <2>8. HandlerOk(c0)'
    BY <2>3, <2>4, <2>5, <2>6, <2>7 DEF HandlerOk
  <2>9. \A c \in Conns \ {c0}, i \in 1..MaxRecs : <<c, i>> \in parked => <<c, i>> \in parked'
    BY <2>1
  <2> QED BY <2>1, <2>2, <2>5, <2>6, <2>8, <2>9, TellStep
<1>6. CASE AwaitDone(c0) \/ AwaitTimesOut(c0)
  <2>1. /\ UNCHANGED <<pipeVars, phase, accepted, parked>> /\ h.st = "await" /\ ~SendersGone
    BY <1>1, <1>6, Senders DEF AwaitDone, AwaitTimesOut
  <2>2. PICK durable \in SUBSET Durable(c0) : Answer(c0, h, durable)
    BY <1>1, <1>6 DEF AwaitDone, AwaitTimesOut
  <2>3. \A i \in durable : ack[<<c0, i>>] = "durable"
    BY DEF Durable
  <2>4. /\ \A i \in 1..MaxRecs : <<c0, i>> \notin parked
        /\ \A i \in 1..MaxRecs : ack[<<c0, i>>] # "none" => i <= h.last
    BY <1>0, <1>1, <2>1 DEF HandlerOk
  <2> QED BY <2>1, <2>2, <2>3, <2>4, AnswerStep
<1> QED BY <1>3, <1>4, <1>5, <1>6 DEF HandlerRuns

(***************************************************************************)
(* Main, and the theorems.                                                 *)
(***************************************************************************)
\* The phases of the shutdown: each begins when the threads before it are gone.
LEMMA MainStepInv ==
    ASSUME IngestInv, request_shutdown \/ MainRuns
    PROVE  IngestInv'
<1>0. PipeInv /\ PipeType /\ HandlerType /\ HandlerInv /\ GoneInv /\ NoFalseReply
  BY DEF IngestInv, PipeInv
<1>1. /\ UNCHANGED <<pipeVars, accepted, parked, reply>>
      /\ UNCHANGED <<part, worker, buffers, chan, shard, ack>>
  BY DEF MainRuns, request_shutdown, LameDuck, drain_connections, JoinWorkers, JoinFlushers, pipeVars
<1>2. PipeInv'
  BY <1>0, <1>1, SamePlaces DEF PipeType
<1>3. NoFalseReply'
  BY <1>0, <1>1 DEF NoFalseReply
<1>4. \A w \in Workers : Running(w)' <=> Running(w)
  BY <1>1 DEF Running
<1>5. CASE drain_connections
  <2>1. /\ phase = "lameduck" /\ phase' = "closed"
        /\ conn' = [c \in Conns |-> IF c \in Live THEN [conn[c] EXCEPT !.st = "ended"] ELSE conn[c]]
    BY <1>5 DEF drain_connections
  <2>2. ASSUME NEW c \in Conns
        PROVE  /\ conn'[c] \in Handler /\ conn'[c].last = conn[c].last
               /\ conn'[c] = conn[c] \/ conn'[c].st = "ended"
    <3>1. conn[c] \in Handler
      BY <1>0 DEF HandlerType
    <3>2. /\ [conn[c] EXCEPT !.st = "ended"] \in Handler
          /\ [conn[c] EXCEPT !.st = "ended"].last = conn[c].last
          /\ [conn[c] EXCEPT !.st = "ended"].st = "ended"
      BY <3>1 DEF Handler
    <3> QED BY <2>1, <3>1, <3>2
  <2>3. HandlerType'
    BY <1>0, <1>1, <2>1, <2>2 DEF HandlerType
  <2>4. HandlerInv'
    BY <1>0, <1>1, <2>2 DEF HandlerInv, HandlerOk
  <2>5. \A w \in Workers : worker[w] # "exited"
    BY <1>0, <2>1 DEF GoneInv, SendersGone
  <2>6. GoneInv'
    BY <1>0, <1>1, <1>4, <2>1, <2>5 DEF GoneInv
  <2> QED BY <1>2, <1>3, <2>3, <2>4, <2>6 DEF IngestInv
<1>6. CASE request_shutdown \/ LameDuck \/ JoinWorkers \/ JoinFlushers
  <2>1. UNCHANGED conn
    BY <1>6 DEF request_shutdown, LameDuck, JoinWorkers, JoinFlushers
  <2>2. HandlerType' /\ HandlerInv'
    BY <1>0, <1>1, <2>1 DEF HandlerType, HandlerInv, HandlerOk
  <2>3. SendersGone => SendersGone'
    BY <1>1, <1>6, <2>1 DEF SendersGone, Live, request_shutdown, LameDuck, JoinWorkers, JoinFlushers
  <2>4. /\ phase' \in {"flushers", "stopped"} => \A w \in Workers : ~Running(w)
        /\ phase' = "stopped" => \A s \in Shards : shard[s] # "up"
    BY <1>0, <1>6 DEF GoneInv, request_shutdown, LameDuck, JoinWorkers, JoinFlushers
  <2>5. GoneInv'
    BY <1>0, <1>1, <1>4, <2>3, <2>4 DEF GoneInv
  <2> QED BY <1>2, <1>3, <2>2, <2>5 DEF IngestInv
<1> QED BY <1>5, <1>6 DEF MainRuns

\* A daemon that has just started.
LEMMA IngestInit == Init => IngestInv
<1> SUFFICES ASSUME Init PROVE IngestInv
  OBVIOUS
<1>1. /\ part = [w \in Workers |-> << >>] /\ worker = [w \in Workers |-> "recv"]
      /\ buffers = [w \in Workers |-> [s \in Shards |-> << >>]]
      /\ chan = [s \in Shards |-> << >>] /\ shard = [s \in Shards |-> "up"]
      /\ ack = [r \in Recs |-> "none"]
  BY DEF Init, PipelineInit
<1>2. PipeType
  BY <1>1 DEF PipeType, WorkerPlaces
<1>3. /\ \A x : ~AtPart(x) /\ ~AtBuffer(x) /\ ~AtChan(x)
      /\ \A w \in Workers : RecsOf(part[w]) = {} /\ DistinctUnits(part[w])
      /\ \A w \in Workers, s \in Shards : ToSet(buffers[w][s]) = {}
      /\ \A s \in Shards : RecsIn(chan[s]) = {} /\ DistinctBatches(chan[s])
  <2>1. DOMAIN << >> = {}
    OBVIOUS
  <2>2. /\ RecsOf(<< >>) = {} /\ ToSet(<< >>) = {} /\ RecsIn(<< >>) = {}
        /\ DistinctUnits(<< >>) /\ DistinctBatches(<< >>)
    BY <2>1 DEF RecsOf, ToSet, RecsIn, DistinctUnits, DistinctBatches
  <2> QED BY <1>1, <2>2 DEF AtPart, AtBuffer, AtChan
<1>4. PlacesInv
  BY <1>3 DEF PlacesInv, PartInv, BufferInv, ChanInv, ApartInv
<1>5. WaitingInv
  BY <1>1, <1>3 DEF WaitingInv
<1>6. /\ accepted = 0 /\ conn = [c \in Conns |-> NewHandler] /\ parked = {}
      /\ reply = [r \in Recs |-> "none"] /\ phase = "serving"
  BY DEF Init
<1>7. NewHandler \in Handler
  BY PipelineAssumption DEF NewHandler, Handler, Shards
<1>8. HandlerType
  BY <1>6, <1>7 DEF HandlerType
<1>9. \A c \in Conns, i \in 1..MaxRecs : ack[<<c, i>>] = "none"
  BY <1>1, RecType
<1>10. HandlerInv
  BY <1>6, <1>9 DEF HandlerInv, HandlerOk, NewHandler
<1>11. GoneInv
  BY <1>1, <1>6 DEF GoneInv, Running
<1>12. NoFalseReply
  BY <1>6 DEF NoFalseReply
<1> QED BY <1>2, <1>4, <1>5, <1>8, <1>10, <1>11, <1>12 DEF IngestInv, PipeInv

\* Every step of the ingest side keeps the invariant.
LEMMA IngestNext == IngestInv /\ [Next]_vars => IngestInv'
<1> SUFFICES ASSUME IngestInv, [Next]_vars PROVE IngestInv'
  OBVIOUS
<1>1. CASE Next
  BY <1>1, FrameStepInv, HandlerRunsInv, WorkerStepInv, FlusherStepInv, MainStepInv DEF Next
<1>2. CASE UNCHANGED vars
  <2>1. /\ UNCHANGED <<part, worker, buffers, chan, shard, ack>>
        /\ UNCHANGED <<phase, accepted, conn, parked, reply>>
    BY <1>2 DEF vars, pipeVars, ingestVars
  <2>2. PipeInv'
    <3>1. PipeInv /\ PipeType
      BY DEF IngestInv, PipeInv
    <3> QED BY <2>1, <3>1, SamePlaces DEF PipeType
  <2>3. HandlerType' /\ HandlerInv' /\ NoFalseReply'
    BY <2>1 DEF IngestInv, HandlerType, HandlerInv, HandlerOk, NoFalseReply
  <2>4. GoneInv'
    BY <2>1 DEF IngestInv, GoneInv, SendersGone, Live, Running
  <2> QED BY <2>2, <2>3, <2>4 DEF IngestInv
<1> QED BY <1>1, <1>2

\* The inductive invariant holds in every reachable state: queue.rs, worker.rs,
\* the flusher's batches, the handlers and the shutdown of main.rs together.
THEOREM IngestInvariance == Spec => []IngestInv
BY IngestInit, IngestNext, PTL DEF Spec

\* No producer is told that a record is durable unless the flusher of its shard
\* answered that very record so, whatever frame it was in and whoever panicked
\* or timed out (handle_push_batch).
THEOREM RepliesAreTrue == Spec => []NoFalseReply
<1>1. IngestInv => NoFalseReply
  BY DEF IngestInv
<1> QED BY <1>1, IngestInvariance, PTL

\* When main begins the drain's budget, every record that got into the queue has
\* been answered, but for those in the partition of a worker that panicked (the
\* joins of main.rs; the disconnects of worker.rs and the flusher threads).
THEOREM QueueIsSettled == Spec => []IngestedIsSettled
<1>1. IngestInv => IngestedIsSettled
  <2> SUFFICES ASSUME IngestInv, phase = "stopped", NEW r \in Recs, ack[r] = "waiting"
               PROVE  \E w \in Workers : worker[w] = "panicked" /\ \E u \in ToSet(part[w]) : u.rec = r
    BY DEF IngestedIsSettled
  <2>0. PipeType /\ WaitingInv /\ GoneInv
    BY DEF IngestInv, PipeInv
  <2>1. /\ \A w \in Workers, s \in Shards : buffers[w][s] = << >>
        /\ \A s \in Shards : chan[s] = << >>
        /\ \A w \in Workers : worker[w] = "panicked" \/ part[w] = << >>
    BY <2>0 DEF GoneInv, Running
  <2>2. RecsOf(<< >>) = {} /\ ToSet(<< >>) = {} /\ RecsIn(<< >>) = {}
    <3>1. DOMAIN << >> = {}
      OBVIOUS
    <3> QED BY <3>1 DEF RecsOf, ToSet, RecsIn
  <2>3. AtPart(r)
    BY <2>0, <2>1, <2>2 DEF WaitingInv, AtBuffer, AtChan
  <2>4. PICK w \in Workers : r \in RecsOf(part[w]) /\ worker[w] = "panicked"
    BY <2>1, <2>2, <2>3 DEF AtPart
  <2>5. PICK i \in DOMAIN part[w] : part[w][i].rec = r
    BY <2>4 DEF RecsOf
  <2>6. part[w][i] \in ToSet(part[w])
    BY <2>5 DEF ToSet
  <2> QED BY <2>4, <2>5, <2>6
<1> QED BY <1>1, IngestInvariance, PTL

\* A record is queued, and no later one of its connection has been.
QueuesInOrder ==
    \E c0 \in Conns, i0 \in 1..MaxRecs :
        /\ ack' = [ack EXCEPT ![<<c0, i0>>] = "waiting"]
        /\ \A i \in 1..MaxRecs : ack[<<c0, i>>] # "none" => i < i0

\* What a step does to the oneshots: it resolves some, or it queues one record.
LEMMA AckStep ==
    ASSUME IngestInv, Next
    PROVE  Resolves \/ QueuesInOrder
<1>0. PipeInv /\ PipeType /\ HandlerType /\ HandlerInv
  BY DEF IngestInv, PipeInv
<1>1. UNCHANGED ack => Resolves
  BY DEF Resolves
<1>2. ASSUME NEW c0 \in Conns, Accept(c0) \/ HandlerLeaves(c0) \/ ReadFrame(c0)
      PROVE  UNCHANGED ack
  BY <1>2 DEF Accept, HandlerLeaves, ReadFrame, pipeVars
<1>3. ASSUME NEW c0 \in Conns, HandlerRuns(c0) PROVE UNCHANGED ack \/ QueuesInOrder
  <2>0. HandlerOk(c0) /\ conn[c0] \in Handler
    BY <1>0 DEF HandlerInv, HandlerType
  <2>1. CASE PushTimesOut(c0) \/ AwaitDone(c0) \/ AwaitTimesOut(c0)
    BY <2>1 DEF PushTimesOut, AwaitDone, AwaitTimesOut, pipeVars
  <2>2. CASE TryPush(c0)
    <3>1. conn[c0].st = "push" /\ (UNCHANGED ack \/ ack' = [ack EXCEPT ![<<c0, conn[c0].next>>] = "waiting"])
      BY <2>2 DEF TryPush, Enqueue
    <3>2. conn[c0].next \in 1..MaxRecs
      BY <2>0, <3>1, PipelineAssumption DEF HandlerOk, Handler
    <3>3. \A i \in 1..MaxRecs : ack[<<c0, i>>] # "none" => i < conn[c0].next
      BY <2>0, <3>1 DEF HandlerOk
    <3> QED BY <3>1, <3>2, <3>3 DEF QueuesInOrder
  <2>3. CASE ParkedPush(c0)
    <3>1. PICK i0 \in 1..MaxRecs : <<c0, i0>> \in parked /\ ack' = [ack EXCEPT ![<<c0, i0>>] = "waiting"]
      BY <2>3 DEF ParkedPush, Enqueue
    <3>2. \A i \in 1..MaxRecs : ack[<<c0, i>>] # "none" => i < i0
      BY <2>0, <3>1 DEF HandlerOk
    <3> QED BY <3>1, <3>2 DEF QueuesInOrder
  <2> QED BY <1>3, <2>1, <2>2, <2>3 DEF HandlerRuns
<1>4. ASSUME NEW w0 \in Workers, WorkerRuns(w0) \/ WorkerPanics(w0) PROVE Resolves
  <2>1. CASE WorkerPanics(w0)
    BY <1>0, <2>1, PanicPlaces
  <2>2. CASE EagerFlush(w0) \/ flush_all(w0)
    <3>1. PICK s0 \in Shards : flush_shard(w0, s0)
      BY <2>2 DEF EagerFlush, flush_all, Full
    <3> QED BY <1>0, <3>1, FlushPlaces
  <2>3. CASE WorkerTakes(w0) \/ DrainedDry(w0) \/ WindowEnds(w0) \/ FlushedAll(w0) \/ WorkerDisconnects(w0)
    BY <1>1, <2>3 DEF WorkerTakes, DrainedDry, WindowEnds, FlushedAll, WorkerDisconnects
  <2> QED BY <1>4, <2>1, <2>2, <2>3 DEF WorkerRuns
<1>5. ASSUME NEW s0 \in Shards, FlusherRuns(s0) \/ FlusherPanics(s0) PROVE Resolves
  <2>1. CASE flush_batch(s0) \/ FlusherPanics(s0)
    BY <1>0, <2>1, FlusherPlaces
  <2>2. CASE FlusherExits(s0)
    BY <1>1, <2>2 DEF FlusherExits
  <2> QED BY <1>5, <2>1, <2>2 DEF FlusherRuns
<1>6. CASE request_shutdown \/ MainRuns
  BY <1>1, <1>6 DEF MainRuns, request_shutdown, LameDuck, drain_connections, JoinWorkers, JoinFlushers, pipeVars
<1> QED BY <1>1, <1>2, <1>3, <1>4, <1>5, <1>6 DEF Next

\* A connection's records enter the queue in the order in which it sent them,
\* pushes that were parked and pushes that outlive an aborted handler included
\* (handle_push_batch, push_timeout under spawn_blocking).
THEOREM ConnectionsStayInOrder == Spec => ConnOrder
<1> DEFINE Kept == \A c \in Conns : \A i, j \in 1..MaxRecs :
                     i < j /\ ack[<<c, j>>] # "none" /\ ack[<<c, i>>] = "none"
                        => ack'[<<c, i>>] = "none"
<1>1. ASSUME IngestInv, [Next]_vars PROVE [Kept]_vars
  <2>1. CASE UNCHANGED vars
    BY <2>1
  <2>2. CASE Next
    <3>1. CASE Resolves
      BY <3>1, RecType DEF Resolves
    <3>2. CASE QueuesInOrder
      <4>1. PICK c0 \in Conns, i0 \in 1..MaxRecs :
              /\ ack' = [ack EXCEPT ![<<c0, i0>>] = "waiting"]
              /\ \A i \in 1..MaxRecs : ack[<<c0, i>>] # "none" => i < i0
        BY <3>2 DEF QueuesInOrder
      <4>2. \A c \in Conns, i \in 1..MaxRecs :
              <<c, i>> \in Recs /\ (<<c, i>> = <<c0, i0>> <=> c = c0 /\ i = i0)
        BY RecType
      <4>3. ack \in [Recs -> {"none", "waiting", "durable", "failed"}]
        BY <1>1 DEF IngestInv, PipeInv, PipeType
      <4>4. \A c \in Conns, i \in 1..MaxRecs : ack'[<<c, i>>] = ack[<<c, i>>] \/ (c = c0 /\ i = i0)
        BY <4>1, <4>2, <4>3
      <4>5. \A i, j \in 1..MaxRecs : i < j /\ ack[<<c0, j>>] # "none" => i # i0
        BY <4>1
      <4> QED BY <4>4, <4>5
    <3> QED BY <1>1, <2>2, <3>1, <3>2, AckStep
  <2> QED BY <1>1, <2>1, <2>2
<1>2. []IngestInv /\ [][Next]_vars => [][Kept]_vars
  BY <1>1, PTL
<1> QED BY <1>2, IngestInvariance, PTL DEF Spec, ConnOrder
=============================================================================
