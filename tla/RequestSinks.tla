---------------------------- MODULE RequestSinks ----------------------------
(***************************************************************************)
(* The sinks that deliver a batch by HTTP requests: one POST per record or  *)
(* one NDJSON POST (weir-server/src/sink/http.rs), one INSERT               *)
(* (sink/clickhouse.rs), one object (weir-sink-s3).  Each request carries a *)
(* key that its receiver knows a repetition by: a RecordId, the batch's     *)
(* DedupToken, or the object key (weir-sink-sdk).                           *)
(*                                                                         *)
(* The drain cuts a segment into batches of sink_max_batch_size, sends a    *)
(* batch again after a transient error and starts the segment over after a  *)
(* restart, perhaps with another size.  A request whose answer is lost may  *)
(* have been applied, not at all, or be applied later.                      *)
(***************************************************************************)
EXTENDS Naturals, Sequences, FiniteSets, SinkBodies

CONSTANTS
    SegmentRecords,    \* records of the segment
    BatchSizes,        \* the values sink_max_batch_size takes
    MaxSends           \* bound: commits in all

ASSUME SinkBounds == SegmentRecords \in Nat \ {0} /\ BatchSizes \subseteq Nat \ {0}
                     /\ MaxSends \in Nat

VARIABLES
    setup,     \* [sink, alike, unframable]: the sink, and the payloads
    cursor,    \* [next, size, resized, made]: where the drain is in the segment,
               \* and when the segment was made
    commit,    \* [at, batch, asked, answers, committed, dead]: the call under way
    adrift,    \* requests whose commit is over and that may still arrive
    receiver,  \* [seen, effects, objects]: what the other side has
    settled,   \* [committed, dead]: what the drain was told, over all commits
    gone,      \* what it was told of a buffer that was wiped since
    sends      \* commits so far

sinkVars == <<setup, cursor, commit, adrift, receiver, settled, gone, sends>>

SegRecords == 1 .. SegmentRecords
Sinks == {"http", "ndjson", "clickhouse", "s3", "s3_binary"}

NoCommit == [at |-> "none", batch |-> <<>>, asked |-> <<>>, answers |-> <<>>,
             committed |-> {}, dead |-> {}]
NewReceiver == [seen |-> {}, effects |-> [r \in SegRecords |-> 0], objects |-> <<>>]

SinkStart(setups) ==
    /\ setup \in setups
    /\ \E n \in BatchSizes :
          cursor = [next |-> 1, size |-> n, resized |-> FALSE, made |-> 1]
    /\ commit = NoCommit
    /\ adrift = {}
    /\ receiver = NewReceiver
    /\ settled = [committed |-> {}, dead |-> {}]
    /\ gone = {}

\* alike: every payload of the segment is the same bytes.
SinkInit ==
    /\ SinkStart([sink : Sinks, alike : BOOLEAN, unframable : SUBSET {SegmentRecords}])
    /\ setup.alike => setup.unframable = {}
    /\ sends = 0
SinkRests ==
    /\ setup = [sink |-> "http", alike |-> FALSE, unframable |-> {}]
    /\ cursor = [next |-> 1, size |-> 1, resized |-> FALSE, made |-> 1]
    /\ commit = NoCommit /\ adrift = {} /\ receiver = NewReceiver
    /\ settled = [committed |-> {}, dead |-> {}]
    /\ gone = {}
    /\ sends = MaxSends

-----------------------------------------------------------------------------
(* Keys *)

Bytes(r) == IF setup.alike THEN <<0, 0>> ELSE <<cursor.made, r>>

\* SHA-256 over the coordinate and the bytes, or over the batch's bytes alone:
\* a hash is its input.
RecordId(r) == <<"record", r, Bytes(r)>>
DedupToken(batch) == <<"token", [i \in DOMAIN batch |-> Bytes(batch[i])]>>
\* Mutant: the object is named by its first record's bytes, not by its id.
batch_name_by_content(batch) == <<"object", cursor.made, Bytes(batch[1]), Len(batch)>>

\* Segment names start over in a fresh buffer, so created_at is part of it.
batch_name(batch) == <<"object", cursor.made, RecordId(batch[1]), Len(batch)>>

Key(batch) == CASE setup.sink \in {"s3", "s3_binary"} -> batch_name(batch)
                [] setup.sink \in {"ndjson", "clickhouse"} -> DedupToken(batch)

Framable(batch) ==
    IF setup.sink \in {"ndjson", "s3"}
    THEN SelectSeq(batch, LAMBDA r : r \notin setup.unframable) ELSE batch
Elements(s) == {s[i] : i \in DOMAIN s}

\* The requests of a commit, in order.
RequestsOf(batch) ==
    IF setup.sink = "http"
    THEN [i \in DOMAIN batch |->
             [key |-> RecordId(batch[i]), records |-> {batch[i]}, made |-> cursor.made]]
    ELSE IF Framable(batch) = <<>> THEN <<>>
    ELSE <<[key |-> Key(batch), records |-> Elements(Framable(batch)),
            made |-> cursor.made]>>

-----------------------------------------------------------------------------
(* The receiver *)

\* A repeated key changes nothing, and at S3 it overwrites the object.
Arrives(req) ==
    IF setup.sink \in {"s3", "s3_binary"}
    THEN [receiver EXCEPT !.objects =
             [k \in {req.key} \cup DOMAIN receiver.objects |->
                 IF k = req.key THEN [made |-> req.made, records |-> req.records]
                 ELSE receiver.objects[k]]]
    ELSE IF req.key \in receiver.seen THEN receiver
    ELSE [receiver EXCEPT !.seen = @ \cup {req.key},
                          !.effects = [r \in SegRecords |->
                              receiver.effects[r] + (IF r \in req.records THEN 1 ELSE 0)]]

Objects(made, r) == {k \in DOMAIN receiver.objects : /\ receiver.objects[k].made = made
                                                       /\ r \in receiver.objects[k].records}
Stored(r) == IF setup.sink \in {"s3", "s3_binary"} THEN Cardinality(Objects(cursor.made, r))
             ELSE receiver.effects[r]

-----------------------------------------------------------------------------
(* The drain *)

Least2(a, b) == IF a < b THEN a ELSE b

\* The next batch of the segment, or the same one again.
SendCommit ==
    LET upto == Least2(cursor.next + cursor.size - 1, SegmentRecords)
        batch == [i \in 1 .. upto - cursor.next + 1 |-> cursor.next + i - 1]
    IN
    /\ commit.at = "none"
    /\ cursor.next <= SegmentRecords
    /\ sends < MaxSends
    /\ sends' = sends + 1
    /\ commit' = [at |-> "asked", batch |-> batch, asked |-> RequestsOf(batch),
                  answers |-> [i \in DOMAIN RequestsOf(batch) |-> "waiting"],
                  committed |-> {}, dead |-> Elements(batch) \ Elements(Framable(batch))]
    /\ UNCHANGED <<setup, cursor, adrift, receiver, settled, gone>>

Waiting == {i \in DOMAIN commit.asked : commit.answers[i] = "waiting"}

\* A restart before the segment is confirmed: from its first record, with
\* whatever sink_max_batch_size says now.
Restart ==
    /\ sends > 0 /\ sends < MaxSends
    /\ \E n \in BatchSizes :
          cursor' = [cursor EXCEPT !.next = 1, !.size = n, !.resized = @ \/ n # cursor.size]
    /\ commit' = NoCommit
    /\ adrift' = adrift \cup {commit.asked[i] : i \in Waiting}
    /\ settled' = [committed |-> {}, dead |-> {}]
    /\ UNCHANGED <<setup, receiver, gone, sends>>

\* A daemon starts on an empty wab_dir with the same bucket: the same segment
\* name and record numbers, another time of creation.
FreshBuffer ==
    /\ setup.sink \in {"s3", "s3_binary"}
    /\ sends > 0 /\ sends < MaxSends
    /\ cursor.made = 1
    /\ cursor' = [cursor EXCEPT !.next = 1, !.made = 2]
    /\ commit' = NoCommit
    /\ adrift' = adrift \cup {commit.asked[i] : i \in Waiting}
    /\ settled' = [committed |-> {}, dead |-> {}]
    /\ gone' = settled.committed
    /\ UNCHANGED <<setup, receiver, sends>>

-----------------------------------------------------------------------------
(* The sink *)

\* A 2xx; a status for good (a redirect is one: none is followed); a status to
\* retry, or a transport error on either side of the receiver's work.
Answer(i) ==
    /\ commit.at = "asked"
    /\ commit.answers[i] = "waiting"
    /\ \/ /\ receiver' = Arrives(commit.asked[i])
          /\ \E a \in {"ok", "transient"} : commit' = [commit EXCEPT !.answers[i] = a]
          /\ UNCHANGED adrift
       \/ /\ \E a \in {"permanent", "transient"} :
                commit' = [commit EXCEPT !.answers[i] = a]
          /\ UNCHANGED <<receiver, adrift>>
       \/ /\ commit' = [commit EXCEPT !.answers[i] = "transient"]
          /\ adrift' = adrift \cup {commit.asked[i]}
          /\ UNCHANGED receiver
    /\ UNCHANGED <<setup, cursor, settled, gone, sends>>

\* The answers are taken in batch order.  The first transient one ends the
\* commit, and the requests behind it are dropped where they are.
FirstTransient ==
    \E i \in DOMAIN commit.asked :
        /\ commit.answers[i] = "transient"
        /\ \A j \in 1 .. i - 1 : commit.answers[j] \in {"ok", "permanent"}

CommitFails ==
    /\ commit.at = "asked"
    /\ FirstTransient
    /\ adrift' = adrift \cup {commit.asked[i] : i \in Waiting}
    /\ commit' = NoCommit
    /\ UNCHANGED <<setup, cursor, receiver, settled, gone, sends>>

\* Every answer is in: 2xx is committed; a permanent one is dead-lettered, by
\* the sink for its records or by the drain for the batch (Permanent error).
CommitReturns ==
    /\ commit.at = "asked"
    /\ \A i \in DOMAIN commit.asked : commit.answers[i] \in {"ok", "permanent"}
    /\ LET Of(a) == UNION {commit.asked[i].records :
                             i \in {i \in DOMAIN commit.asked : commit.answers[i] = a}}
       IN  settled' = [committed |-> settled.committed \cup Of("ok"),
                       dead |-> settled.dead \cup commit.dead \cup Of("permanent")]
    /\ commit' = NoCommit
    /\ cursor' = [cursor EXCEPT !.next = @ + Len(commit.batch)]
    /\ UNCHANGED <<setup, adrift, receiver, gone, sends>>

\* A request nobody waits for any more arrives after all.
LateRequest ==
    /\ \E req \in adrift : /\ receiver' = Arrives(req)
                           /\ adrift' = adrift \ {req}
    /\ UNCHANGED <<setup, cursor, commit, settled, gone, sends>>

SinkNext == \/ SendCommit \/ Restart \/ FreshBuffer \/ CommitFails \/ CommitReturns
            \/ LateRequest \/ \E i \in DOMAIN commit.asked : Answer(i)

-----------------------------------------------------------------------------
(* What holds *)

\* A token is a content hash: equal batches share it, by design.
ContentKeyed == setup.sink \in {"ndjson", "clickhouse"}

\* http.rs, clickhouse.rs, weir-sink-s3: what the drain was told is committed is
\* at the receiver and stays there, and every record below the cursor was told
\* of exactly once, whatever was cancelled, repeated or late.  (Where the key is
\* the batch's content, equal batches count as one.)  No buffer's objects are
\* replaced by a later buffer's.
ToldIsStored ==
    /\ \A r \in settled.committed : Stored(r) > 0 \/ (ContentKeyed /\ setup.alike)
    /\ \A r \in gone : Objects(1, r) # {}
    /\ settled.committed \cap settled.dead = {}
    /\ settled.committed \cup settled.dead = 1 .. cursor.next - 1

\* weir-sink-sdk DedupToken, RecordId, weir-sink-s3 key.rs: a receiver that knows
\* a key by its repetition has each record once, through retries, restarts and
\* late requests; per record even when sink_max_batch_size changes.
OneEffect ==
    setup.sink = "http" \/ ~cursor.resized => \A r \in SegRecords : Stored(r) <= 1

\* The drain's view and the receiver's agree, one effect per record, and a body is
\* read as the records it was made of.
SinksTellTheTruth == ToldIsStored /\ OneEffect /\ BodiesAreExact
=============================================================================
