----------------------------- MODULE SinkBodies ------------------------------
(***************************************************************************)
(* The bodies in which the sinks hand a batch over: newline-delimited        *)
(* (weir-server/src/sink/http.rs, weir-sink-s3/src/framing.rs), behind       *)
(* length prefixes (framing.rs), RowBinary (sink/clickhouse.rs), and the     *)
(* parameters of a multi-row INSERT (sink/postgres.rs, mysql.rs).  The other *)
(* side reads a body back by the format's own rules; a record is any bytes.  *)
(*                                                                         *)
(* A record is a sequence of the bytes below; LEB128 has one bit per byte    *)
(* here, and a compressed body is the body it decompresses to.               *)
(***************************************************************************)
EXTENDS Naturals, Sequences, SequencesExt

Newline == 0
Return0D == 1
BodyBytes == {Newline, Return0D, 2}

VARIABLE posted     \* [kind, records, id_column]: the batch a sink is given

bodyVars == <<posted>>

-----------------------------------------------------------------------------
(* The sinks *)

\* record_is_unframable.
record_is_unframable(record) ==
    \E i \in DOMAIN record : record[i] \in {Newline, Return0D}

Joined(records, FrameOf(_)) == FlattenSeq([i \in DOMAIN records |-> FrameOf(records[i])])

NdjsonFrame(record) == Append(record, Newline)
LengthFrame(record) == <<Len(record)>> \o record

\* frame and commit_ndjson: what cannot be a line is dead-lettered, and a body of
\* nothing is not sent.
frame(records, kind) ==
    LET framable == SelectSeq(records, LAMBDA r : ~record_is_unframable(r)) IN
    IF kind = "ndjson"
    THEN [body |-> Joined(framable, NdjsonFrame), committed |-> framable]
    ELSE [body |-> Joined(records, LengthFrame), committed |-> records]

\* An unsigned LEB128 varint: a byte of LebBase or more has another behind it.
LebBase == 2
RECURSIVE write_leb128(_)
write_leb128(n) == IF n \div LebBase = 0 THEN <<n % LebBase>>
                   ELSE <<(n % LebBase) + LebBase>> \o write_leb128(n \div LebBase)

RowFrame(record) == write_leb128(Len(record)) \o record
encode_rowbinary(records) == Joined(records, RowFrame)

\* The statement names the columns, id first, and numbers its parameters row by
\* row; build_params lists them in that order.
build_insert_sql(n) ==
    IF posted.id_column
    THEN [columns |-> <<"id", "payload">>,
          rows |-> [i \in 1 .. n |-> <<2 * (i - 1) + 1, 2 * (i - 1) + 2>>]]
    ELSE [columns |-> <<"payload">>, rows |-> [i \in 1 .. n |-> <<i>>]]

build_params(rows) ==
    LET Of(c, i) == [column |-> c, of |-> i]
        Bound(i) == IF posted.id_column THEN <<Of("id", i), Of("payload", i)>>
                    ELSE <<Of("payload", i)>>
    IN  Joined(rows, Bound)

-----------------------------------------------------------------------------
(* The other side *)

\* A line ends at a newline; a carriage return before it is not part of it.
RECURSIVE ReadLines(_, _)
ReadLines(body, line) ==
    IF body = <<>> THEN <<>>
    ELSE IF Head(body) = Newline THEN <<line>> \o ReadLines(Tail(body), <<>>)
    ELSE ReadLines(Tail(body), IF Head(body) = Return0D THEN line ELSE Append(line, Head(body)))

RECURSIVE ReadLengths(_)
ReadLengths(body) ==
    IF body = <<>> THEN <<>>
    ELSE <<SubSeq(body, 2, 1 + Head(body))>>
             \o ReadLengths(SubSeq(body, 2 + Head(body), Len(body)))

\* A varint: [value, width].
RECURSIVE ReadLeb(_, _)
ReadLeb(body, weight) ==
    IF Head(body) < LebBase THEN [value |-> Head(body) * weight, width |-> 1]
    ELSE LET more == ReadLeb(Tail(body), weight * LebBase) IN
         [value |-> (Head(body) - LebBase) * weight + more.value, width |-> more.width + 1]

RECURSIVE ReadRows(_)
ReadRows(body) ==
    IF body = <<>> THEN <<>>
    ELSE LET n == ReadLeb(body, 1) IN
         <<SubSeq(body, n.width + 1, n.width + n.value)>>
             \o ReadRows(SubSeq(body, n.width + n.value + 1, Len(body)))

\* What a row of the table holds: column -> the parameter bound to its place.
RowOf(sqltext, params, k) ==
    [c \in {sqltext.columns[j] : j \in DOMAIN sqltext.columns} |->
        params[sqltext.rows[k][CHOOSE j \in DOMAIN sqltext.columns : sqltext.columns[j] = c]]]

-----------------------------------------------------------------------------
BodyRecords == (UNION {[1 .. n -> BodyBytes] : n \in 1 .. 2}) \cup {<<2, 2, 2>>}
NoBody == [kind |-> "none", records |-> <<>>, id_column |-> FALSE]

BodyInit ==
    posted \in [kind : {"ndjson", "length", "rowbinary", "sql"},
                records : UNION {[1 .. n -> BodyRecords] : n \in 1 .. 2}, id_column : BOOLEAN]
BodyRests == posted = NoBody

\* The next batch is one longer.
NextBatch ==
    /\ Len(posted.records) = 2
    /\ \E r \in BodyRecords : posted' = [posted EXCEPT !.records = Append(@, r)]

-----------------------------------------------------------------------------
(* What holds *)

Subsequences(n) == {s \in UNION {[1 .. m -> 1 .. n] : m \in 1 .. n} :
                       \A i, j \in DOMAIN s : i < j => s[i] < s[j]}

\* http.rs, framing.rs, clickhouse.rs, postgres.rs, mysql.rs: whatever the bytes,
\* the other side reads the records that are reported committed, each whole and
\* once, the rest is dead-lettered; and a row's id and payload are one record's,
\* for the batch and for every part of it that the fallback inserts.
BodiesAreExact ==
    LET framed == frame(posted.records, posted.kind)
        n == Len(posted.records)
    IN  /\ posted.kind = "ndjson" =>
              /\ ReadLines(framed.body, <<>>) = framed.committed
              /\ framed.committed =
                    SelectSeq(posted.records, LAMBDA r : ~record_is_unframable(r))
        /\ posted.kind = "length" => ReadLengths(framed.body) = posted.records
        /\ posted.kind = "rowbinary" => ReadRows(encode_rowbinary(posted.records)) = posted.records
        /\ posted.kind = "sql" =>
              \A rows \in Subsequences(n) :
                 LET sqltext == build_insert_sql(Len(rows))
                     params == build_params(rows)
                 IN  /\ Len(params) = Len(rows) * Len(sqltext.columns)
                     /\ \A k \in DOMAIN rows :
                           LET row == RowOf(sqltext, params, k) IN
                           \A c \in DOMAIN row : row[c] = [column |-> c, of |-> rows[k]]
=============================================================================
