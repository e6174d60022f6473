-------------------------- MODULE OperationsProofs --------------------------
(***************************************************************************)
(* Proofs about four of Operations' parts whose modules are not recursive:  *)
(* the SQL sinks' commit (SqlSink), the keys and credentials of the S3 sink *)
(* (S3Sink), the configuration (Configuration) and the signals of the       *)
(* drain's liveness with those who read them (DrainStall).                  *)
(***************************************************************************)
EXTENDS SqlSink, S3Sink, Configuration, DrainStall, TLAPS, FiniteSetTheorems, SequenceTheorems

-----------------------------------------------------------------------------
(* The SQL sinks: the invariant *)

SqlPlaces == {"none", "first", "lookup", "remainder", "failed", "bisect", "transient", "done"}
Statements == [at : SqlPlaces, stack : Seq(SUBSET Batch), committed : SUBSET Batch,
               dead : SUBSET Batch, lookup : {"none", "failed"}]

SqlTypeOK ==
    /\ sql \in Config
    /\ sql.unique = "id" => sql.id_column
    /\ stmt \in Statements
    /\ table \in [Batch -> Nat]
    /\ late \in SUBSET Batch
    /\ attempts \in Nat

\* Every record is in exactly one of: committed, dead, a set of the stack.
Sorted(c, d, st) ==
    /\ c \cap d = {}
    /\ \A i \in 1 .. Len(st) : st[i] \cap c = {} /\ st[i] \cap d = {}
    /\ \A i, j \in 1 .. Len(st) : i # j => st[i] \cap st[j] = {}
    /\ \A r \in Batch : r \in c \/ r \in d \/ \E i \in 1 .. Len(st) : r \in st[i]

SortedInv ==
    /\ stmt.at \in {"remainder", "failed", "bisect", "done"} =>
          Sorted(stmt.committed, stmt.dead, stmt.stack)
    /\ stmt.at \in {"none", "transient", "first", "lookup"} => stmt = Stmt(stmt.at)
    /\ stmt.at = "remainder" => Len(stmt.stack) = 1 /\ stmt.dead = {}
    /\ stmt.at = "failed" => stmt.stack # <<>>
    /\ stmt.at = "done" => stmt.stack = <<>>

CommittedInv == \A r \in stmt.committed : InTable(r)

\* insert_mode=plain with a unique id: the table has all of the batch or nothing.
Keyed == sql.mode = "plain" /\ sql.unique = "id"
Stored == \A r \in Batch : table[r] > 0
Absent == \A r \in Batch : table[r] = 0

KeyedInv ==
    Keyed =>
        /\ \/ Stored /\ sql.poison = {}
           \/ Absent /\ late \in {{}, Batch}
        /\ stmt.at \in {"lookup", "failed", "bisect"} => Stored
        /\ stmt.at # "remainder"
        /\ stmt.at \in {"failed", "bisect"} => stmt.lookup = "failed"
        /\ stmt.dead # {} => stmt.lookup = "failed" \/ (Absent /\ sql.poison # {})

SqlInv == SqlTypeOK /\ SortedInv /\ CommittedInv /\ KeyedInv

-----------------------------------------------------------------------------
(* The table only grows *)

\* A statement adds rows to the table and takes none away.
LEMMA TableGrows ==
    ASSUME SqlTypeOK, NEW rows, Applies(rows)
    PROVE  table' \in [Batch -> Nat] /\ \A s \in Batch : table'[s] >= table[s]
<1>1. CASE StmtVerdict(rows) = "ok"
  <2>1. table' = Adds(Inserted(rows))
    BY <1>1 DEF Applies
  <2> QED
    BY <2>1 DEF Adds, SqlTypeOK
<1>2. CASE StmtVerdict(rows) # "ok"
  BY <1>2 DEF Applies, SqlTypeOK
<1> QED
  BY <1>1, <1>2

\* A record whose row is there stays represented.
LEMMA StaysInTable ==
    ASSUME SqlTypeOK, UNCHANGED sql, \A s \in Batch : table'[s] >= table[s],
           table' \in [Batch -> Nat], NEW r \in Batch, InTable(r)
    PROVE  InTable(r)'
BY DEF SqlTypeOK, InTable, Clashes, SameKey

\* What an INSERT that succeeds was given is represented: where ON CONFLICT left
\* a row out, the row it clashed with is there.
LEMMA RowsAreIn ==
    ASSUME SqlTypeOK, UNCHANGED sql, NEW rows \in SUBSET Batch, Applies(rows),
           StmtVerdict(rows) = "ok"
    PROVE  \A r \in rows : InTable(r)'
<1> SUFFICES ASSUME NEW r \in rows
             PROVE  InTable(r)'
  OBVIOUS
<1>1. table' = Adds(Inserted(rows))
  BY DEF Applies
<1>2. \A s \in Inserted(rows) : s \in Batch /\ table'[s] > 0
  BY <1>1 DEF Adds, Inserted, SqlTypeOK
<1>3. table' \in [Batch -> Nat] /\ \A s \in Batch : table'[s] >= table[s]
  BY TableGrows
<1>4. CASE r \in Inserted(rows)
  BY <1>2, <1>4 DEF InTable
<1>5. CASE Clashes(r)
  <2>1. InTable(r)
    BY <1>5 DEF InTable
  <2> QED
    BY <2>1, <1>3, StaysInTable
<1>6. CASE r \notin Inserted(rows) /\ ~Clashes(r)
  <2>1. PICK s \in rows : s < r /\ SameKey(r, s)
    BY <1>6 DEF Inserted
  <2>2. r = 2 /\ s = 1 /\ sql.unique = "payload" /\ sql.twins
    BY <2>1 DEF SameKey, Batch
  <2>3. ~Clashes(s)
    BY <1>6, <2>2 DEF Clashes, SameKey, Batch
  <2>4. \A t \in rows : t < s => ~SameKey(s, t)
    BY <2>2 DEF Batch
  <2>5. s \in Inserted(rows)
    BY <2>1, <2>3, <2>4 DEF Inserted
  <2>6. table'[s] > 0 /\ s \in Batch
    BY <2>5, <1>2
  <2>7. SameKey(r, s)'
    BY <2>2 DEF SameKey
  <2> QED
    BY <2>6, <2>7 DEF InTable, Clashes
<1> QED
  BY <1>4, <1>5, <1>6

\* With a unique id, a statement over the whole batch stores all of it or finds
\* all of it there, and one over a part finds its rows there.
LEMMA KeyedStatement ==
    ASSUME SqlTypeOK, Keyed, UNCHANGED sql, NEW rows \in SUBSET Batch, Applies(rows),
           \/ Stored /\ sql.poison = {}
           \/ Absent /\ rows \in {{}, Batch}
    PROVE  /\ Stored => table' = table
           /\ Absent => \/ Absent'
                        \/ Stored' /\ sql.poison = {} /\ StmtVerdict(rows) = "ok" /\ rows = Batch
<1>1. sql.poison \in SUBSET {BatchRows} /\ sql.mode = "plain" /\ sql.unique = "id"
  BY DEF SqlTypeOK, Config, Keyed
<1>2. CASE rows = {}
  <2>1. Inserted(rows) = {}
    BY <1>1, <1>2 DEF Inserted
  <2>2. Adds({}) = table
    BY DEF Adds, SqlTypeOK
  <2>3. table' = table
    BY <2>1, <2>2 DEF Applies
  <2> QED
    BY <2>3 DEF Absent
<1>3. CASE rows # {} /\ Stored /\ sql.poison = {}
  <2>1. Duplicates(rows)
    BY <1>1, <1>3 DEF Duplicates, Clashes, SameKey, Stored
  <2>2. StmtVerdict(rows) # "ok"
    BY <2>1, <1>1, <1>3 DEF StmtVerdict
  <2>3. table' = table
    BY <2>2 DEF Applies
  <2>4. ~Absent
    BY <1>3 DEF Absent, Stored, SqlTypeOK
  <2> QED
    BY <2>3, <2>4
<1>4. CASE rows = Batch /\ rows # {} /\ Absent
  <2>1. ~Stored
    BY <1>4 DEF Absent, Stored
  <2>2. CASE StmtVerdict(rows) = "ok"
    <3>1. BatchRows \in Batch
      BY SqlBounds DEF Batch
    <3>2. sql.poison = {}
      BY <1>1, <1>4, <2>2, <3>1 DEF StmtVerdict
    <3>3. table' = Adds(Batch)
      BY <2>2, <1>1, <1>4 DEF Applies, Inserted
    <3>4. Stored'
      BY <3>3 DEF Adds, Stored, SqlTypeOK
    <3> QED
      BY <3>2, <3>4, <2>1, <2>2, <1>4
  <2>3. CASE StmtVerdict(rows) # "ok"
    <3>1. table' = table
      BY <2>3 DEF Applies
    <3> QED
      BY <3>1, <2>1, <1>4 DEF Absent
  <2> QED
    BY <2>2, <2>3
<1> QED
  BY <1>2, <1>3, <1>4

-----------------------------------------------------------------------------
(* The stack *)

\* The set on top of the stack is committed, or dead-lettered, ...
LEMMA PopKeepsSorted ==
    ASSUME NEW c \in SUBSET Batch, NEW d \in SUBSET Batch, NEW st \in Seq(SUBSET Batch),
           Sorted(c, d, st), st # <<>>
    PROVE  /\ Head(st) \in SUBSET Batch /\ Tail(st) \in Seq(SUBSET Batch)
           /\ Sorted(c \cup Head(st), d, Tail(st))
           /\ Sorted(c, d \cup Head(st), Tail(st))
<1>1. Len(st) >= 1 /\ Head(st) = st[1] /\ Head(st) \in SUBSET Batch
  OBVIOUS
<1>2. /\ Tail(st) \in Seq(SUBSET Batch) /\ Len(Tail(st)) = Len(st) - 1
      /\ \A i \in 1 .. Len(Tail(st)) : Tail(st)[i] = st[i + 1]
  OBVIOUS
<1> DEFINE T == Tail(st)
           h == st[1]
<1>3. \A i \in 1 .. Len(T) : /\ i + 1 \in 1 .. Len(st) /\ T[i] = st[i + 1]
                             /\ T[i] \cap h = {} /\ T[i] \cap c = {} /\ T[i] \cap d = {}
  BY <1>1, <1>2 DEF Sorted
<1>4. \A i, j \in 1 .. Len(T) : i # j => T[i] \cap T[j] = {}
  BY <1>1, <1>2, <1>3 DEF Sorted
<1>5. \A r \in Batch : r \in c \/ r \in d \/ r \in h \/ \E i \in 1 .. Len(T) : r \in T[i]
  <2> SUFFICES ASSUME NEW r \in Batch, r \notin c, r \notin d, r \notin h
               PROVE  \E i \in 1 .. Len(T) : r \in T[i]
    OBVIOUS
  <2>1. PICK i \in 1 .. Len(st) : r \in st[i]
    BY DEF Sorted
  <2>2. i # 1
    BY <2>1
  <2>3. i - 1 \in 1 .. Len(T) /\ T[i - 1] = st[i]
    BY <1>1, <1>2, <2>2
  <2> QED
    BY <2>1, <2>3
<1>6. h \cap c = {} /\ h \cap d = {} /\ c \cap d = {} /\ h = Head(st)
  BY <1>1 DEF Sorted
<1> HIDE DEF T, h
<1>7. Sorted(c \cup h, d, T) /\ Sorted(c, d \cup h, T)
  BY <1>3, <1>4, <1>5, <1>6 DEF Sorted
<1> QED
  BY <1>1, <1>2, <1>6, <1>7 DEF T

\* Two sets are put on a stack.
LEMMA TwoOnTop ==
    ASSUME NEW S, NEW a \in S, NEW b \in S, NEW T \in Seq(S)
    PROVE  /\ <<a, b>> \o T \in Seq(S) /\ Len(<<a, b>> \o T) = Len(T) + 2
           /\ (<<a, b>> \o T)[1] = a /\ (<<a, b>> \o T)[2] = b
           /\ \A i \in 3 .. Len(T) + 2 : (<<a, b>> \o T)[i] = T[i - 2]
<1>1. <<a, b>> \in Seq(S) /\ Len(<<a, b>>) = 2
  OBVIOUS
<1>2. <<a, b>>[1] = a /\ <<a, b>>[2] = b
  OBVIOUS
<1> DEFINE two == <<a, b>>
<1> HIDE DEF two
<1>3. /\ two \o T \in Seq(S) /\ Len(two \o T) = Len(T) + 2
      /\ (two \o T)[1] = two[1] /\ (two \o T)[2] = two[2]
      /\ \A i \in 3 .. Len(T) + 2 : (two \o T)[i] = T[i - 2]
  BY <1>1 DEF two
<1> QED
  BY <1>2, <1>3 DEF two

\* ... or it is split.
LEMMA SplitKeepsSorted ==
    ASSUME NEW c \in SUBSET Batch, NEW d \in SUBSET Batch, NEW st \in Seq(SUBSET Batch),
           Sorted(c, d, st), st # <<>>, NEW low \in SUBSET Head(st)
    PROVE  /\ <<low, Head(st) \ low>> \o Tail(st) \in Seq(SUBSET Batch)
           /\ Sorted(c, d, <<low, Head(st) \ low>> \o Tail(st))
           /\ <<low, Head(st) \ low>> \o Tail(st) # <<>>
<1>1. Len(st) >= 1 /\ Head(st) = st[1] /\ Head(st) \in SUBSET Batch
  OBVIOUS
<1>2. /\ Tail(st) \in Seq(SUBSET Batch) /\ Len(Tail(st)) = Len(st) - 1
      /\ \A i \in 1 .. Len(Tail(st)) : Tail(st)[i] = st[i + 1]
  OBVIOUS
<1> DEFINE up == Head(st) \ low
           T == Tail(st)
           N == <<low, up>> \o T
<1>3. low \in SUBSET Batch /\ up \in SUBSET Batch
  BY <1>1
<1>4. /\ N \in Seq(SUBSET Batch) /\ Len(N) = Len(T) + 2 /\ N[1] = low /\ N[2] = up
      /\ \A i \in 3 .. Len(T) + 2 : N[i] = T[i - 2]
  <2> HIDE DEF up
  <2> QED
    BY <1>2, <1>3, TwoOnTop
<1>5. Len(N) = Len(st) + 1
  BY <1>2, <1>4
<1>6. \A i \in 3 .. Len(N) : i - 1 \in 2 .. Len(st) /\ N[i] = st[i - 1]
  BY <1>1, <1>2, <1>4, <1>5
<1> HIDE DEF N
<1>7. \A i \in 1 .. Len(N) : i = 1 \/ i = 2 \/ i \in 3 .. Len(N)
  BY <1>1, <1>5
<1>8. low \subseteq st[1] /\ up \subseteq st[1] /\ low \cap up = {} /\ low \cup up = st[1]
  BY <1>1
<1> HIDE DEF up
<1>9. 1 \in 1 .. Len(N) /\ 2 \in 1 .. Len(N) /\ 1 \in 1 .. Len(st)
  BY <1>1, <1>5
<1>10. \A i \in 1 .. Len(N) : N[i] \cap c = {} /\ N[i] \cap d = {}
  <2>1. /\ \A i \in 3 .. Len(N) : N[i] \cap c = {} /\ N[i] \cap d = {}
        /\ st[1] \cap c = {} /\ st[1] \cap d = {}
    BY <1>6, <1>9 DEF Sorted
  <2> QED
    BY <2>1, <1>4, <1>7, <1>8
<1>11. \A i, j \in 1 .. Len(N) : i # j => N[i] \cap N[j] = {}
  <2>1. \A i \in 3 .. Len(N) : N[i] \cap st[1] = {}
    BY <1>6, <1>9 DEF Sorted
  <2>2. ASSUME NEW i \in 3 .. Len(N), NEW j \in 3 .. Len(N), i # j
        PROVE  N[i] \cap N[j] = {}
    <3>1. i - 1 \in 1 .. Len(st) /\ j - 1 \in 1 .. Len(st) /\ i - 1 # j - 1
      BY <1>1, <1>6, <2>2
    <3> QED
      BY <3>1, <1>6 DEF Sorted
  <2> QED
    BY <2>1, <2>2, <1>4, <1>7, <1>8
<1>12. \A r \in Batch : r \in c \/ r \in d \/ \E i \in 1 .. Len(N) : r \in N[i]
  <2> SUFFICES ASSUME NEW r \in Batch, r \notin c, r \notin d
               PROVE  \E i \in 1 .. Len(N) : r \in N[i]
    OBVIOUS
  <2>1. PICK i \in 1 .. Len(st) : r \in st[i]
    BY DEF Sorted
  <2>2. CASE i = 1
    BY <2>1, <2>2, <1>4, <1>8, <1>9
  <2>3. CASE i # 1
    <3>1. i + 1 \in 3 .. Len(N) /\ i + 1 \in 1 .. Len(N)
      BY <2>3, <1>5
    <3>2. N[i + 1] = st[i]
      BY <3>1, <1>6
    <3> QED
      BY <3>1, <3>2, <2>1
  <2> QED
    BY <2>2, <2>3
<1>13. Sorted(c, d, N)
  BY <1>10, <1>11, <1>12 DEF Sorted
<1>14. N # <<>>
  BY <1>1, <1>4, <1>5
<1> QED
  BY <1>4, <1>13, <1>14 DEF N, up, T

\* At its start a commit has sorted nothing; one set holds the whole batch.
LEMMA WholeBatchSorted ==
    /\ <<Batch>> \in Seq(SUBSET Batch) /\ <<Batch>> # <<>> /\ Len(<<Batch>>) = 1
    /\ Sorted({}, {}, <<Batch>>)
    /\ Sorted({}, Batch, <<>>) /\ Sorted(Batch, {}, <<>>)
<1>1. Len(<<Batch>>) = 1 /\ <<Batch>>[1] = Batch /\ <<Batch>> \in Seq(SUBSET Batch)
  OBVIOUS
<1>2. Sorted({}, {}, <<Batch>>)
  BY <1>1 DEF Sorted
<1>3. Sorted({}, Batch, <<>>) /\ Sorted(Batch, {}, <<>>)
  BY DEF Sorted
<1> QED
  BY <1>1, <1>2, <1>3

-----------------------------------------------------------------------------
(* The SQL sinks: one lemma per action *)

\* The fields of a statement that has only moved.
LEMMA PlainStmt ==
    ASSUME NEW at \in SqlPlaces
    PROVE  /\ Stmt(at) \in Statements /\ Stmt(at).at = at /\ Stmt(at).stack = <<>>
           /\ Stmt(at).committed = {} /\ Stmt(at).dead = {} /\ Stmt(at).lookup = "none"
BY DEF Stmt, Statements

\* A commit that begins, ends early or asks for the ids has sorted nothing yet.
LEMMA MovesPlain ==
    ASSUME SqlInv, NEW at \in {"none", "transient", "first", "lookup"}, stmt' = Stmt(at)
    PROVE  stmt' \in Statements /\ SortedInv' /\ CommittedInv' /\ stmt'.at = at
           /\ stmt'.dead = {}
<1>1. at \in SqlPlaces
  BY DEF SqlPlaces
<1>2. /\ stmt' \in Statements /\ stmt'.at = at /\ stmt'.committed = {} /\ stmt'.dead = {}
      /\ stmt' = Stmt(stmt'.at)
  BY <1>1, PlainStmt
<1> QED
  BY <1>2 DEF SortedInv, CommittedInv

\* What the table says of the committed records survives every statement.
LEMMA CommittedStay ==
    ASSUME SqlInv, UNCHANGED sql, NEW rows, Applies(rows) \/ UNCHANGED table
    PROVE  /\ table' \in [Batch -> Nat]
           /\ \A r \in stmt.committed : InTable(r)'
<1>1. SqlTypeOK /\ \A r \in stmt.committed : r \in Batch /\ InTable(r)
  BY DEF SqlInv, SqlTypeOK, Statements, CommittedInv
<1>2. table' \in [Batch -> Nat] /\ \A s \in Batch : table'[s] >= table[s]
  <2>1. CASE Applies(rows)
    BY <1>1, <2>1, TableGrows
  <2>2. CASE UNCHANGED table
    BY <1>1, <2>2 DEF SqlTypeOK
  <2> QED
    BY <2>1, <2>2
<1> QED
  BY <1>1, <1>2, StaysInTable

\* A statement that was given up on.
LEMMA InterruptedKeeps ==
    ASSUME SqlInv, NEW rows \in SUBSET Batch, Interrupted(rows), UNCHANGED <<sql, attempts>>,
           Keyed => (rows = Batch \/ Stored)
    PROVE  SqlInv'
<1>1. "transient" \in {"none", "transient", "first", "lookup"} /\ stmt' = Stmt("transient")
  BY DEF Interrupted
<1>2. stmt' \in Statements /\ SortedInv' /\ CommittedInv' /\ stmt'.at = "transient"
      /\ stmt'.dead = {}
  BY <1>1, MovesPlain
<1>3. (Applies(rows) \/ UNCHANGED table) /\ late' \in SUBSET Batch
      /\ (late' = late \/ (late' = late \cup rows /\ UNCHANGED table))
  BY DEF Interrupted, SqlInv, SqlTypeOK
<1>4. table' \in [Batch -> Nat]
  BY <1>3, CommittedStay
<1>5. SqlTypeOK'
  BY <1>2, <1>3, <1>4 DEF SqlInv, SqlTypeOK
<1>6. KeyedInv'
  <2> SUFFICES ASSUME Keyed'
               PROVE  \/ Stored' /\ sql.poison = {}
                      \/ Absent' /\ late' \in {{}, Batch}
    BY <1>2 DEF KeyedInv
  <2>1. Keyed /\ SqlTypeOK /\ (\/ Stored /\ sql.poison = {}
                               \/ Absent /\ late \in {{}, Batch})
    BY DEF Keyed, KeyedInv, SqlInv
  <2>2. Stored \/ rows = Batch
    BY <2>1
  <2>3. CASE UNCHANGED table
    BY <2>1, <2>2, <2>3, <1>3 DEF Stored, Absent, SqlInv, SqlTypeOK
  <2>4. CASE Applies(rows) /\ late' = late
    <3>1. ~(Stored /\ Absent)
      <4>1. 1 \in Batch
        BY SqlBounds DEF Batch
      <4> QED
        BY <4>1 DEF Stored, Absent
    <3>2. /\ Stored => table' = table
          /\ Absent => Absent' \/ (Stored' /\ sql.poison = {})
      BY <2>1, <2>2, <2>4, <3>1, KeyedStatement
    <3> QED
      BY <2>1, <2>4, <3>2 DEF Stored
  <2> QED
    BY <2>3, <2>4, <1>3
<1> QED
  BY <1>2, <1>5, <1>6 DEF SqlInv

LEMMA SendBatchKeeps ==
    ASSUME SqlInv, SendBatch
    PROVE  SqlInv'
<1>1. "first" \in {"none", "transient", "first", "lookup"} /\ stmt' = Stmt("first")
  BY DEF SendBatch
<1>2. stmt' \in Statements /\ SortedInv' /\ CommittedInv' /\ stmt'.at = "first"
      /\ stmt'.dead = {}
  BY <1>1, MovesPlain
<1>3. SqlTypeOK'
  BY <1>2 DEF SendBatch, SqlInv, SqlTypeOK
<1>4. KeyedInv'
  BY <1>2 DEF SendBatch, SqlInv, KeyedInv, Keyed, Stored, Absent
<1> QED
  BY <1>2, <1>3, <1>4 DEF SqlInv

LEMMA NoConnectionKeeps ==
    ASSUME SqlInv, NoConnection
    PROVE  SqlInv'
<1>1. "transient" \in {"none", "transient", "first", "lookup"} /\ stmt' = Stmt("transient")
  BY DEF NoConnection
<1>2. stmt' \in Statements /\ SortedInv' /\ CommittedInv' /\ stmt'.at = "transient"
      /\ stmt'.dead = {}
  BY <1>1, MovesPlain
<1>3. SqlTypeOK'
  BY <1>2 DEF NoConnection, SqlInv, SqlTypeOK
<1>4. KeyedInv'
  BY <1>2 DEF NoConnection, SqlInv, KeyedInv, Keyed, Stored, Absent
<1> QED
  BY <1>2, <1>3, <1>4 DEF SqlInv

\* The facts about a batch that the cases of FirstInsert share.
LEMMA BatchFacts ==
    ASSUME SqlTypeOK
    PROVE  /\ Batch \in SUBSET Batch /\ 1 \in Batch /\ BatchRows \in Batch
           /\ sql.id_column => per_record_id_hex # <<>>
           /\ ~(Stored /\ Absent)
<1>1. 1 \in Batch /\ BatchRows \in Batch
  BY SqlBounds DEF Batch
<1>2. ASSUME sql.id_column
      PROVE  per_record_id_hex # <<>>
  <2>1. per_record_id_hex = [r \in Batch |-> r]
    BY <1>2 DEF per_record_id_hex
  <2>2. DOMAIN [r \in Batch |-> r] = Batch
    OBVIOUS
  <2>3. DOMAIN <<>> = {}
    OBVIOUS
  <2> QED
    BY <2>1, <2>2, <2>3, <1>1
<1>3. ~(Stored /\ Absent)
  BY <1>1 DEF Stored, Absent
<1> QED
  BY <1>1, <1>2, <1>3

\* With a unique id the first INSERT fails on a duplicate only if all is stored.
LEMMA KeyedVerdict ==
    ASSUME SqlTypeOK, Keyed, Absent
    PROVE  StmtVerdict(Batch) = IF sql.poison = {} THEN "ok" ELSE "permanent"
<1>1. ~Duplicates(Batch)
  BY DEF Duplicates, Clashes, SameKey, Keyed, Absent
<1>2. sql.poison \cap Batch = sql.poison
  BY BatchFacts DEF SqlTypeOK, Config
<1> QED
  BY <1>1, <1>2 DEF StmtVerdict

\* A commit that returns.
LEMMA DoneStmt ==
    ASSUME stmt \in Statements, NEW c \in SUBSET Batch, NEW d \in SUBSET Batch, Done(c, d)
    PROVE  /\ stmt' \in Statements /\ stmt'.at = "done" /\ stmt'.stack = <<>>
           /\ stmt'.committed = c /\ stmt'.dead = d /\ stmt'.lookup = stmt.lookup
<1>1. <<>> \in Seq(SUBSET Batch) /\ "done" \in SqlPlaces
  BY DEF SqlPlaces
<1> QED
  BY <1>1 DEF Done, Statements

LEMMA FirstInsertKeeps ==
    ASSUME SqlInv, FirstInsert
    PROVE  SqlInv'
<1>1. /\ SqlTypeOK /\ stmt = Stmt("first") /\ stmt \in Statements
      /\ UNCHANGED <<sql, attempts>>
  BY DEF SqlInv, SqlTypeOK, SortedInv, FirstInsert
<1>2. stmt.at = "first" /\ stmt.committed = {} /\ stmt.dead = {} /\ stmt.lookup = "none"
      /\ stmt.stack = <<>>
  BY <1>1, PlainStmt DEF SqlPlaces
<1>3. Keyed => (\/ Stored /\ sql.poison = {}
                \/ Absent /\ late \in {{}, Batch})
  BY DEF SqlInv, KeyedInv
<1>4. CASE StmtVerdict(Batch) = "ok" /\ Done(Batch, {}) /\ Applies(Batch) /\ UNCHANGED late
  <2>1. /\ stmt' \in Statements /\ stmt'.at = "done" /\ stmt'.stack = <<>>
        /\ stmt'.committed = Batch /\ stmt'.dead = {}
    BY <1>1, <1>4, DoneStmt
  <2>2. table' \in [Batch -> Nat]
    BY <1>1, <1>4, CommittedStay
  <2>3. SqlTypeOK'
    BY <1>1, <1>4, <2>1, <2>2 DEF SqlTypeOK
  <2>4. SortedInv'
    BY <2>1, WholeBatchSorted DEF SortedInv
  <2>5. CommittedInv'
    BY <1>1, <1>4, <2>1, RowsAreIn DEF CommittedInv
  <2>6. KeyedInv'
    <3> SUFFICES ASSUME Keyed'
                 PROVE  \/ Stored' /\ sql.poison = {}
                        \/ Absent' /\ late' \in {{}, Batch}
      BY <1>1, <2>1 DEF KeyedInv
    <3>1. Keyed
      BY <1>1 DEF Keyed
    <3>2. /\ Stored => table' = table
          /\ Absent => Absent' \/ (Stored' /\ sql.poison = {})
      BY <1>1, <1>3, <1>4, <3>1, KeyedStatement, BatchFacts
    <3> QED
      BY <1>3, <1>4, <3>1, <3>2 DEF Stored
  <2> QED
    BY <2>3, <2>4, <2>5, <2>6 DEF SqlInv
<1>5. CASE StmtVerdict(Batch) = "permanent" /\ Done({}, Batch) /\ UNCHANGED <<table, late>>
  <2>1. /\ stmt' \in Statements /\ stmt'.at = "done" /\ stmt'.stack = <<>>
        /\ stmt'.committed = {} /\ stmt'.dead = Batch
    BY <1>1, <1>5, DoneStmt
  <2>2. SqlTypeOK'
    BY <1>1, <1>5, <2>1 DEF SqlTypeOK
  <2>3. SortedInv'
    BY <2>1, WholeBatchSorted DEF SortedInv
  <2>4. CommittedInv'
    BY <2>1 DEF CommittedInv
  <2>5. KeyedInv'
    <3>1. sql.poison # {}
      BY <1>5 DEF StmtVerdict
    <3> QED
      BY <1>1, <1>3, <1>5, <2>1, <3>1 DEF KeyedInv, Keyed, Stored, Absent
  <2> QED
    BY <2>2, <2>3, <2>4, <2>5 DEF SqlInv
<1>6. CASE /\ StmtVerdict(Batch) = "dup_key" /\ per_record_id_hex # <<>>
           /\ stmt' = [stmt EXCEPT !.at = "lookup"] /\ UNCHANGED <<table, late>>
  <2>1. stmt' = Stmt("lookup")
    BY <1>1, <1>2, <1>6 DEF Stmt, Statements
  <2>2. "lookup" \in {"none", "transient", "first", "lookup"}
    OBVIOUS
  <2>3. stmt' \in Statements /\ SortedInv' /\ CommittedInv' /\ stmt'.at = "lookup"
        /\ stmt'.dead = {}
    BY <2>1, <2>2, MovesPlain
  <2>4. SqlTypeOK'
    BY <1>1, <1>6, <2>3 DEF SqlTypeOK
  <2>5. KeyedInv'
    <3>1. Keyed => Stored
      BY <1>1, <1>3, <1>6, KeyedVerdict
    <3> QED
      BY <1>1, <1>3, <1>6, <2>3, <3>1 DEF KeyedInv, Keyed, Stored, Absent
  <2> QED
    BY <2>3, <2>4, <2>5 DEF SqlInv
<1>7. CASE /\ StmtVerdict(Batch) = "dup_key" /\ per_record_id_hex = <<>>
           /\ stmt' = [stmt EXCEPT !.at = "failed", !.stack = <<Batch>>]
           /\ UNCHANGED <<table, late>>
  <2>1. /\ stmt' \in Statements /\ stmt'.at = "failed" /\ stmt'.stack = <<Batch>>
        /\ stmt'.committed = {} /\ stmt'.dead = {}
    BY <1>1, <1>2, <1>7, WholeBatchSorted DEF Statements, SqlPlaces
  <2>2. SqlTypeOK'
    BY <1>1, <1>7, <2>1 DEF SqlTypeOK
  <2>3. SortedInv'
    BY <2>1, WholeBatchSorted DEF SortedInv
  <2>4. CommittedInv'
    BY <2>1 DEF CommittedInv
  <2>5. ~Keyed'
    BY <1>1, <1>7, BatchFacts DEF Keyed, SqlTypeOK
  <2> QED
    BY <2>2, <2>3, <2>4, <2>5 DEF SqlInv, KeyedInv
<1>8. CASE Interrupted(Batch)
  BY <1>1, <1>8, InterruptedKeeps
<1> QED
  BY <1>4, <1>5, <1>6, <1>7, <1>8 DEF FirstInsert

LEMMA LookupPresentKeeps ==
    ASSUME SqlInv, LookupPresent
    PROVE  SqlInv'
<1> DEFINE present == {r \in Batch : table[r] > 0}
<1>1. /\ SqlTypeOK /\ stmt = Stmt("lookup") /\ stmt \in Statements
      /\ UNCHANGED <<sql, table, late, attempts>>
  BY DEF SqlInv, SqlTypeOK, SortedInv, LookupPresent
<1>2. stmt.at = "lookup" /\ stmt.committed = {} /\ stmt.dead = {} /\ stmt.lookup = "none"
      /\ stmt.stack = <<>>
  BY <1>1, PlainStmt DEF SqlPlaces
<1>3. stmt' \in Statements => SqlTypeOK'
  BY <1>1 DEF SqlTypeOK
<1>4. \A r \in present : InTable(r)'
  BY <1>1 DEF InTable
<1>5. Keyed => Stored /\ sql.poison = {}
  BY <1>1, <1>2, BatchFacts DEF SqlInv, KeyedInv
<1>6. (Keyed' => Keyed) /\ (Stored => Stored')
  BY <1>1 DEF Keyed, Stored
<1>7. CASE present = Batch /\ stmt' = [stmt EXCEPT !.at = "done", !.committed = Batch]
  <2>1. /\ stmt' \in Statements /\ stmt'.at = "done" /\ stmt'.stack = <<>>
        /\ stmt'.committed = Batch /\ stmt'.dead = {}
    BY <1>1, <1>2, <1>7 DEF Statements, SqlPlaces
  <2>2. SortedInv'
    BY <2>1, WholeBatchSorted DEF SortedInv
  <2>3. CommittedInv'
    BY <2>1, <1>4, <1>7 DEF CommittedInv
  <2>4. KeyedInv'
    BY <1>1, <1>5, <1>6, <2>1 DEF KeyedInv
  <2> QED
    BY <1>3, <2>1, <2>2, <2>3, <2>4 DEF SqlInv
<1>8. CASE /\ present # Batch
           /\ stmt' = [stmt EXCEPT !.at = "remainder", !.committed = present,
                                   !.stack = <<Batch \ present>>]
  <2>1. <<Batch \ present>> \in Seq(SUBSET Batch) /\ Len(<<Batch \ present>>) = 1
        /\ <<Batch \ present>>[1] = Batch \ present
    OBVIOUS
  <2>2. present \in SUBSET Batch
    OBVIOUS
  <2>3. /\ stmt' \in Statements /\ stmt'.at = "remainder" /\ stmt'.dead = {}
        /\ stmt'.stack = <<Batch \ present>> /\ stmt'.committed = present
    <3> HIDE DEF present
    <3> QED
      BY <1>1, <1>2, <1>8, <2>1, <2>2 DEF Statements, SqlPlaces
  <2>4. Sorted(present, {}, <<Batch \ present>>)
    <3> HIDE DEF present
    <3> QED
      BY <2>1, <2>2 DEF Sorted
  <2>5. SortedInv'
    BY <2>1, <2>3, <2>4 DEF SortedInv
  <2>6. CommittedInv'
    BY <2>3, <1>4 DEF CommittedInv
  <2>7. KeyedInv'
    BY <1>5, <1>6, <1>8 DEF KeyedInv, Stored
  <2> QED
    BY <1>3, <2>3, <2>5, <2>6, <2>7 DEF SqlInv
<1>9. CASE stmt' = [stmt EXCEPT !.at = "failed", !.lookup = "failed", !.stack = <<Batch>>]
  <2>1. /\ stmt' \in Statements /\ stmt'.at = "failed" /\ stmt'.stack = <<Batch>>
        /\ stmt'.committed = {} /\ stmt'.dead = {} /\ stmt'.lookup = "failed"
    BY <1>1, <1>2, <1>9, WholeBatchSorted DEF Statements, SqlPlaces
  <2>2. SortedInv'
    BY <2>1, WholeBatchSorted DEF SortedInv
  <2>3. CommittedInv'
    BY <2>1 DEF CommittedInv
  <2>4. KeyedInv'
    BY <1>1, <1>5, <1>6, <2>1 DEF KeyedInv
  <2> QED
    BY <1>3, <2>1, <2>2, <2>3, <2>4 DEF SqlInv
<1>10. CASE stmt' = Stmt("transient")
  <2>1. stmt' \in Statements /\ SortedInv' /\ CommittedInv' /\ stmt'.at = "transient"
        /\ stmt'.dead = {}
    BY <1>10, MovesPlain
  <2>2. KeyedInv'
    BY <1>1, <1>5, <1>6, <2>1 DEF KeyedInv
  <2> QED
    BY <1>3, <2>1, <2>2 DEF SqlInv
<1> QED
  BY <1>7, <1>8, <1>9, <1>10 DEF LookupPresent

LEMMA InsertRemainderKeeps ==
    ASSUME SqlInv, InsertRemainder
    PROVE  SqlInv'
<1>1. /\ SqlTypeOK /\ stmt \in Statements /\ stmt.at = "remainder"
      /\ Sorted(stmt.committed, stmt.dead, stmt.stack) /\ Len(stmt.stack) = 1
      /\ stmt.dead = {} /\ UNCHANGED <<sql, attempts>> /\ ~Keyed
  BY DEF SqlInv, SqlTypeOK, SortedInv, KeyedInv, InsertRemainder
<1>2. ~Keyed'
  BY <1>1 DEF Keyed
<1>3. /\ stmt.stack \in Seq(SUBSET Batch) /\ stmt.stack # <<>> /\ Rest \in SUBSET Batch
      /\ Tail(stmt.stack) = <<>> /\ stmt.committed \in SUBSET Batch
  <2>1. stmt.stack \in Seq(SUBSET Batch) /\ stmt.committed \in SUBSET Batch
    BY <1>1 DEF Statements
  <2>2. stmt.stack # <<>>
    BY <1>1
  <2>3. Head(stmt.stack) \in SUBSET Batch
    BY <2>1, <2>2
  <2>4. Tail(stmt.stack) \in Seq(SUBSET Batch) /\ Len(Tail(stmt.stack)) = 0
    BY <1>1, <2>1, <2>2
  <2>5. ASSUME NEW S, NEW T \in Seq(S), Len(T) = 0
        PROVE  T = <<>>
    BY <2>5
  <2>6. Tail(stmt.stack) = <<>>
    BY <2>4, <2>5
  <2> QED
    BY <2>1, <2>2, <2>3, <2>6 DEF Rest
<1>4. CASE /\ StmtVerdict(Rest) = "ok" /\ Done(stmt.committed \cup Rest, {})
           /\ Applies(Rest) /\ UNCHANGED late
  <2>1. stmt.committed \cup Rest \in SUBSET Batch /\ {} \in SUBSET Batch
    BY <1>3
  <2>2. /\ stmt' \in Statements /\ stmt'.at = "done" /\ stmt'.stack = <<>>
        /\ stmt'.committed = stmt.committed \cup Rest /\ stmt'.dead = {}
    BY <1>1, <1>4, <2>1, DoneStmt
  <2>3. Sorted(stmt.committed \cup Rest, {}, <<>>)
    <3>1. stmt.dead \in SUBSET Batch
      BY <1>1
    <3> QED
      BY <1>1, <1>3, <3>1, PopKeepsSorted DEF Rest
  <2>4. /\ table' \in [Batch -> Nat]
        /\ \A r \in stmt.committed : InTable(r)'
    BY <1>1, <1>4, CommittedStay
  <2>5. \A r \in Rest : InTable(r)'
    BY <1>1, <1>3, <1>4, RowsAreIn
  <2>6. SqlTypeOK'
    BY <1>1, <1>4, <2>2, <2>4 DEF SqlTypeOK
  <2>7. SortedInv' /\ CommittedInv'
    BY <2>2, <2>3, <2>4, <2>5 DEF SortedInv, CommittedInv
  <2> QED
    BY <1>2, <2>6, <2>7 DEF SqlInv, KeyedInv
<1>5. CASE stmt' = [stmt EXCEPT !.at = "failed"] /\ UNCHANGED <<table, late>>
  <2>1. /\ stmt' \in Statements /\ stmt'.at = "failed" /\ stmt'.stack = stmt.stack
        /\ stmt'.committed = stmt.committed /\ stmt'.dead = stmt.dead
    BY <1>1, <1>5 DEF Statements, SqlPlaces
  <2>2. \A r \in stmt.committed : InTable(r)'
    BY <1>1, <1>5, CommittedStay
  <2>3. SqlTypeOK'
    BY <1>1, <1>5, <2>1 DEF SqlTypeOK
  <2>4. SortedInv' /\ CommittedInv'
    BY <1>1, <1>3, <2>1, <2>2 DEF SortedInv, CommittedInv
  <2> QED
    BY <1>2, <2>3, <2>4 DEF SqlInv, KeyedInv
<1>6. CASE Interrupted(Rest)
  BY <1>1, <1>3, <1>6, InterruptedKeeps
<1> QED
  BY <1>4, <1>5, <1>6 DEF InsertRemainder

LEMMA OnFailureKeeps ==
    ASSUME SqlInv, OnFailure
    PROVE  SqlInv'
<1>1. /\ SqlTypeOK /\ stmt \in Statements /\ stmt.at = "failed"
      /\ Sorted(stmt.committed, stmt.dead, stmt.stack) /\ stmt.stack # <<>>
      /\ UNCHANGED <<sql, table, late, attempts>>
  BY DEF SqlInv, SqlTypeOK, SortedInv, OnFailure
<1>2. Keyed => stmt.lookup = "failed" /\ Stored /\ sql.poison = {}
  BY <1>1, BatchFacts DEF SqlInv, KeyedInv
<1>3. (Keyed' => Keyed) /\ (Stored => Stored')
  BY <1>1 DEF Keyed, Stored
<1>4. /\ stmt.stack \in Seq(SUBSET Batch) /\ stmt.committed \in SUBSET Batch
      /\ stmt.dead \in SUBSET Batch
  BY <1>1 DEF Statements
<1>5. \A r \in stmt.committed : InTable(r)'
  BY <1>1, CommittedStay
<1>6. /\ Rest \in SUBSET Batch /\ Tail(stmt.stack) \in Seq(SUBSET Batch)
      /\ Sorted(stmt.committed, stmt.dead \cup Rest, Tail(stmt.stack))
  BY <1>1, <1>4, PopKeepsSorted DEF Rest
<1>7. ASSUME NEW d \in SUBSET Batch, NEW st \in Seq(SUBSET Batch),
             Sorted(stmt.committed, d, st),
             stmt' = [stmt EXCEPT !.at = "bisect", !.stack = st, !.dead = d]
      PROVE  SqlInv'
  <2>1. /\ stmt' \in Statements /\ stmt'.at = "bisect" /\ stmt'.stack = st
        /\ stmt'.committed = stmt.committed /\ stmt'.dead = d
        /\ stmt'.lookup = stmt.lookup
    BY <1>1, <1>7 DEF Statements, SqlPlaces
  <2>2. SqlTypeOK'
    BY <1>1, <2>1 DEF SqlTypeOK
  <2>3. SortedInv' /\ CommittedInv'
    BY <1>5, <1>7, <2>1 DEF SortedInv, CommittedInv
  <2>4. KeyedInv'
    BY <1>1, <1>2, <1>3, <2>1 DEF KeyedInv
  <2> QED
    BY <2>2, <2>3, <2>4 DEF SqlInv
<1>8. CASE stmt' = [stmt EXCEPT !.at = "bisect", !.stack = Tail(@), !.dead = @ \cup Rest]
  <2>1. stmt.dead \cup Rest \in SUBSET Batch
    BY <1>4, <1>6
  <2> QED
    BY <1>6, <1>7, <1>8, <2>1
<1>9. CASE stmt' = [stmt EXCEPT !.at = "bisect", !.stack = Split(Rest) \o Tail(@)]
  <2>1. LowerHalf(Rest) \in SUBSET Head(stmt.stack)
    BY DEF LowerHalf, Rest
  <2> DEFINE st == Split(Rest) \o Tail(stmt.stack)
  <2>2. st \in Seq(SUBSET Batch) /\ Sorted(stmt.committed, stmt.dead, st)
    BY <1>1, <1>4, <2>1, SplitKeepsSorted DEF Split, Rest
  <2>3. stmt' = [stmt EXCEPT !.at = "bisect", !.stack = st, !.dead = stmt.dead]
    BY <1>1, <1>9 DEF Statements
  <2> HIDE DEF st
  <2> QED
    BY <1>4, <1>7, <2>2, <2>3
<1> QED
  BY <1>8, <1>9 DEF OnFailure

LEMMA BisectInsertKeeps ==
    ASSUME SqlInv, BisectInsert
    PROVE  SqlInv'
<1>1. /\ SqlTypeOK /\ stmt \in Statements /\ stmt.at = "bisect"
      /\ Sorted(stmt.committed, stmt.dead, stmt.stack) /\ UNCHANGED <<sql, attempts>>
  BY DEF SqlInv, SqlTypeOK, SortedInv, BisectInsert
<1>2. Keyed => stmt.lookup = "failed" /\ Stored /\ sql.poison = {}
  BY <1>1, BatchFacts DEF SqlInv, KeyedInv
<1>3. (Keyed' => Keyed) /\ (table' = table /\ Stored => Stored')
  BY <1>1 DEF Keyed, Stored
<1>4. /\ stmt.stack \in Seq(SUBSET Batch) /\ stmt.committed \in SUBSET Batch
      /\ stmt.dead \in SUBSET Batch
  BY <1>1 DEF Statements
<1>5. CASE stmt.stack = <<>> /\ Done(stmt.committed, stmt.dead) /\ UNCHANGED <<table, late>>
  <2>1. /\ stmt' \in Statements /\ stmt'.at = "done" /\ stmt'.stack = <<>>
        /\ stmt'.committed = stmt.committed /\ stmt'.dead = stmt.dead
        /\ stmt'.lookup = stmt.lookup
    BY <1>1, <1>4, <1>5, DoneStmt
  <2>2. \A r \in stmt.committed : InTable(r)'
    BY <1>1, <1>5, CommittedStay
  <2>3. SqlTypeOK'
    BY <1>1, <1>5, <2>1 DEF SqlTypeOK
  <2>4. SortedInv' /\ CommittedInv'
    BY <1>1, <1>5, <2>1, <2>2 DEF SortedInv, CommittedInv
  <2>5. KeyedInv'
    BY <1>1, <1>2, <1>3, <1>5, <2>1 DEF KeyedInv
  <2> QED
    BY <2>3, <2>4, <2>5 DEF SqlInv
<1>6. CASE stmt.stack # <<>>
  <2>1. /\ Rest \in SUBSET Batch /\ Tail(stmt.stack) \in Seq(SUBSET Batch)
        /\ Sorted(stmt.committed \cup Rest, stmt.dead, Tail(stmt.stack))
    BY <1>1, <1>4, <1>6, PopKeepsSorted DEF Rest
  <2>2. CASE /\ StmtVerdict(Rest) = "ok"
             /\ stmt' = [stmt EXCEPT !.committed = @ \cup Rest, !.stack = Tail(@)]
             /\ Applies(Rest) /\ UNCHANGED late
    <3>0. stmt.committed \cup Rest \in SUBSET Batch
      BY <1>4, <2>1
    <3>1. /\ stmt' \in Statements /\ stmt'.at = "bisect" /\ stmt'.stack = Tail(stmt.stack)
          /\ stmt'.committed = stmt.committed \cup Rest /\ stmt'.dead = stmt.dead
          /\ stmt'.lookup = stmt.lookup
      BY <1>1, <2>1, <2>2, <3>0 DEF Statements, SqlPlaces
    <3>2. /\ table' \in [Batch -> Nat]
          /\ \A r \in stmt.committed : InTable(r)'
      BY <1>1, <2>2, CommittedStay
    <3>3. \A r \in Rest : InTable(r)'
      BY <1>1, <2>1, <2>2, RowsAreIn
    <3>4. SqlTypeOK'
      BY <1>1, <2>2, <3>1, <3>2 DEF SqlTypeOK
    <3>5. SortedInv' /\ CommittedInv'
      BY <2>1, <3>1, <3>2, <3>3 DEF SortedInv, CommittedInv
    <3>6. KeyedInv'
      <4>1. Keyed => table' = table
        BY <1>1, <1>2, <2>1, <2>2, KeyedStatement
      <4> QED
        BY <1>1, <1>2, <1>3, <3>1, <4>1 DEF KeyedInv
    <3> QED
      BY <3>4, <3>5, <3>6 DEF SqlInv
  <2>3. CASE stmt' = [stmt EXCEPT !.at = "failed"] /\ UNCHANGED <<table, late>>
    <3>1. /\ stmt' \in Statements /\ stmt'.at = "failed" /\ stmt'.stack = stmt.stack
          /\ stmt'.committed = stmt.committed /\ stmt'.dead = stmt.dead
          /\ stmt'.lookup = stmt.lookup
      BY <1>1, <2>3 DEF Statements, SqlPlaces
    <3>2. \A r \in stmt.committed : InTable(r)'
      BY <1>1, <2>3, CommittedStay
    <3>3. SqlTypeOK'
      BY <1>1, <2>3, <3>1 DEF SqlTypeOK
    <3>4. SortedInv' /\ CommittedInv'
      BY <1>1, <1>6, <3>1, <3>2 DEF SortedInv, CommittedInv
    <3>5. KeyedInv'
      BY <1>1, <1>2, <1>3, <2>3, <3>1 DEF KeyedInv
    <3> QED
      BY <3>3, <3>4, <3>5 DEF SqlInv
  <2>4. CASE Interrupted(Rest)
    BY <1>1, <1>2, <2>1, <2>4, InterruptedKeeps
  <2> QED
    BY <1>6, <2>2, <2>3, <2>4 DEF BisectInsert
<1> QED
  BY <1>5, <1>6 DEF BisectInsert

LEMMA LateInsertKeeps ==
    ASSUME SqlInv, LateInsert
    PROVE  SqlInv'
<1>1. /\ SqlTypeOK /\ late \in SUBSET Batch /\ late # {} /\ Applies(late) /\ late' = {}
      /\ UNCHANGED <<sql, stmt, attempts>>
  BY DEF SqlInv, SqlTypeOK, LateInsert
<1>2. /\ table' \in [Batch -> Nat]
      /\ \A r \in stmt.committed : InTable(r)'
  BY <1>1, CommittedStay
<1>3. SqlTypeOK'
  BY <1>1, <1>2 DEF SqlTypeOK
<1>4. SortedInv' /\ CommittedInv'
  BY <1>1, <1>2 DEF SqlInv, SortedInv, CommittedInv
<1>5. KeyedInv'
  <2> SUFFICES ASSUME Keyed'
               PROVE  KeyedInv'
    BY DEF KeyedInv
  <2>1. Keyed /\ KeyedInv
    BY <1>1 DEF Keyed, SqlInv
  <2>2. /\ Stored => table' = table
        /\ Absent => Absent' \/ (Stored' /\ sql.poison = {})
    BY <1>1, <2>1, KeyedStatement DEF KeyedInv
  <2>3. CASE Stored /\ sql.poison = {}
    <3>1. Stored' /\ ~Absent
      BY <1>1, <2>2, <2>3, BatchFacts DEF Stored
    <3> QED
      BY <1>1, <2>1, <2>3, <3>1 DEF KeyedInv
  <2>4. CASE Absent
    <3>1. ~Stored
      BY <1>1, <2>4, BatchFacts
    <3>2. Absent' \/ (Stored' /\ sql.poison = {})
      BY <2>2, <2>4
    <3> QED
      BY <1>1, <2>1, <3>1, <3>2 DEF KeyedInv
  <2> QED
    BY <2>1, <2>3, <2>4 DEF KeyedInv
<1> QED
  BY <1>3, <1>4, <1>5 DEF SqlInv

-----------------------------------------------------------------------------
(* The SQL sinks: the theorems *)

\* SqlInv is an invariant of every commit, for any batch and any number of attempts.
THEOREM SqlInvariance == SqlSpec => []SqlInv
<1>1. SqlInit => SqlInv
  <2> SUFFICES ASSUME SqlInit
               PROVE  SqlInv
    OBVIOUS
  <2>1. /\ sql \in Config /\ (sql.unique = "id" => sql.id_column) /\ stmt = Stmt("none")
        /\ table = [r \in Batch |-> 0] /\ late = {} /\ attempts = 0
    BY DEF SqlInit, NoStmt
  <2>2. /\ stmt \in Statements /\ stmt.at = "none" /\ stmt.committed = {} /\ stmt.dead = {}
    BY <2>1, PlainStmt DEF SqlPlaces
  <2>3. SqlTypeOK
    BY <2>1, <2>2 DEF SqlTypeOK
  <2>4. SortedInv /\ CommittedInv
    BY <2>1, <2>2 DEF SortedInv, CommittedInv
  <2>5. KeyedInv
    BY <2>1, <2>2 DEF KeyedInv, Absent
  <2> QED
    BY <2>3, <2>4, <2>5 DEF SqlInv
<1>2. SqlInv /\ [SqlNext]_sqlVars => SqlInv'
  <2> SUFFICES ASSUME SqlInv, [SqlNext]_sqlVars
               PROVE  SqlInv'
    OBVIOUS
  <2>1. CASE SqlNext
    BY <2>1, SendBatchKeeps, NoConnectionKeeps, FirstInsertKeeps, LookupPresentKeeps,
       InsertRemainderKeeps, OnFailureKeeps, BisectInsertKeeps, LateInsertKeeps DEF SqlNext
  <2>2. CASE UNCHANGED sqlVars
    BY <2>2 DEF sqlVars, SqlInv, SqlTypeOK, SortedInv, CommittedInv, KeyedInv, Keyed, Stored,
                Absent, InTable, Clashes, SameKey
  <2> QED
    BY <2>1, <2>2
<1> QED
  BY <1>1, <1>2, PTL DEF SqlSpec

\* sql_common.rs insert_with_dup_fallback: what a commit returns as committed is in
\* the table, what it returns as rejected is everything else, and with a unique id
\* column no record is rejected beside its own row, whatever earlier attempts were
\* interrupted where and whatever the server applies late.
THEOREM SqlCommitsAreTrue == SqlSpec => []SqlIsTrue
<1>1. SqlInv => SqlIsTrue
  <2> SUFFICES ASSUME SqlInv, stmt.at = "done"
               PROVE  SqlIsTrue
    BY DEF SqlIsTrue, SqlCommitIsTrue, SqlNeverBoth
  <2>1. stmt.stack = <<>> /\ Sorted(stmt.committed, stmt.dead, <<>>)
        /\ stmt \in Statements
    BY DEF SqlInv, SortedInv, SqlTypeOK
  <2>2. SqlCommitIsTrue
    <3>1. Len(<<>>) = 0
      OBVIOUS
    <3>2. stmt.committed \subseteq Batch /\ stmt.dead \subseteq Batch
      BY <2>1 DEF Statements
    <3>3. \A r \in Batch : r \in stmt.committed \/ r \in stmt.dead
      BY <2>1, <3>1 DEF Sorted
    <3> QED
      BY <2>1, <3>2, <3>3 DEF SqlCommitIsTrue, SqlInv, CommittedInv, Sorted
  <2>3. SqlNeverBoth
    BY <2>1 DEF SqlNeverBoth, SqlInv, KeyedInv, Keyed, Absent, Statements
  <2> QED
    BY <2>2, <2>3 DEF SqlIsTrue
<1> QED
  BY <1>1, SqlInvariance, PTL

-----------------------------------------------------------------------------
(* The S3 sink: the calendar *)

\* The parts of civil_from_days: the year of a 400-year era, the day of a year
\* that begins in March, the month and the day of the month.
YearOfEra(doe) == (doe - doe \div 1460 + doe \div 36524 - doe \div 146096) \div 365
DayOfYear(doe) ==
    doe - (365 * YearOfEra(doe) + YearOfEra(doe) \div 4 - YearOfEra(doe) \div 100)
MarchMonth(doy) == (5 * doy + 2) \div 153
DayOfMonth(doy) == doy - (153 * MarchMonth(doy) + 2) \div 5 + 1
CivilMonth(doy) == IF MarchMonth(doy) < 10 THEN MarchMonth(doy) + 3 ELSE MarchMonth(doy) - 9
CivilDate(y, doy) == [y |-> IF CivilMonth(doy) <= 2 THEN y + 1 ELSE y,
                      m |-> CivilMonth(doy), d |-> DayOfMonth(doy)]

\* civil_from_days is made of these parts.
LEMMA CivilParts ==
    ASSUME NEW days \in Int, NEW z \in Int, NEW era \in Int, NEW doe \in Int,
           z = days + 719468, era = z \div 146097, doe = z - era * 146097
    PROVE  civil_from_days(days) = CivilDate(YearOfEra(doe) + era * 400, DayOfYear(doe))
BY SMT DEF civil_from_days, CivilDate, CivilMonth, DayOfMonth, MarchMonth, DayOfYear, YearOfEra

\* The days of an era follow each other: a year that ends in a leap February has
\* 366 days, another 365.
LEMMA EraStep ==
    ASSUME NEW doe \in Int, 0 <= doe, doe <= 146095,
           NEW y \in Int, NEW d \in Int, NEW y2 \in Int, NEW d2 \in Int,
           y = (doe - doe \div 1460 + doe \div 36524 - doe \div 146096) \div 365,
           d = doe - (365 * y + y \div 4 - y \div 100),
           y2 = (doe + 1 - (doe + 1) \div 1460 + (doe + 1) \div 36524
                    - (doe + 1) \div 146096) \div 365,
           d2 = doe + 1 - (365 * y2 + y2 \div 4 - y2 \div 100)
    PROVE  \/ y2 = y /\ d2 = d + 1
           \/ y2 = y + 1 /\ d2 = 0 /\ d = 365 /\ IsLeap(y2)
           \/ y2 = y + 1 /\ d2 = 0 /\ d = 364 /\ ~IsLeap(y2)
BY SMTT(60) DEF IsLeap

\* A day of the year is one: the 366th only of a year that ends in a leap February.
LEMMA EraBounds ==
    ASSUME NEW doe \in Int, 0 <= doe, doe <= 146096, NEW y \in Int, NEW d \in Int,
           y = (doe - doe \div 1460 + doe \div 36524 - doe \div 146096) \div 365,
           d = doe - (365 * y + y \div 4 - y \div 100)
    PROVE  0 <= y /\ y <= 399 /\ 0 <= d /\ d <= 365 /\ (d = 365 => IsLeap(y + 1))
BY SMTT(60) DEF IsLeap

\* The days of a year follow each other through its months.
LEMMA MonthStep ==
    ASSUME NEW doy \in Int, 0 <= doy, doy < 365,
           NEW mp \in Int, NEW d \in Int, NEW mp2 \in Int, NEW d2 \in Int,
           mp = (5 * doy + 2) \div 153, d = doy - (153 * mp + 2) \div 5 + 1,
           mp2 = (5 * (doy + 1) + 2) \div 153, d2 = doy + 1 - (153 * mp2 + 2) \div 5 + 1
    PROVE  /\ 0 <= mp /\ mp <= 11 /\ 1 <= d
           /\ \/ mp2 = mp /\ d2 = d + 1
                 /\ d < (IF mp = 1 \/ mp = 3 \/ mp = 6 \/ mp = 8 THEN 30
                         ELSE IF mp = 11 THEN 29 ELSE 31)
                 /\ (mp = 11 /\ d = 28 <=> doy + 1 = 365)
              \/ mp2 = mp + 1 /\ d2 = 1 /\ mp < 11
                 /\ d = (IF mp = 1 \/ mp = 3 \/ mp = 6 \/ mp = 8 THEN 30 ELSE 31)
<1>1. \/ mp = 0 \/ mp = 1 \/ mp = 2 \/ mp = 3 \/ mp = 4 \/ mp = 5 \/ mp = 6
      \/ mp = 7 \/ mp = 8 \/ mp = 9 \/ mp = 10 \/ mp = 11
  OBVIOUS
<1>3. CASE mp = 0
  BY <1>3
<1>4. CASE mp = 1
  BY <1>4
<1>5. CASE mp = 2
  BY <1>5
<1>6. CASE mp = 3
  BY <1>6
<1>7. CASE mp = 4
  BY <1>7
<1>8. CASE mp = 5
  BY <1>8
<1>9. CASE mp = 6
  BY <1>9
<1>10. CASE mp = 7
  BY <1>10
<1>11. CASE mp = 8
  BY <1>11
<1>12. CASE mp = 9
  BY <1>12
<1>13. CASE mp = 10
  BY <1>13
<1>14. CASE mp = 11
  BY <1>14
<1> QED
  BY <1>1, <1>3, <1>4, <1>5, <1>6, <1>7, <1>8, <1>9,
     <1>10, <1>11, <1>12, <1>13, <1>14

\* Within a year a date is followed by the next.
LEMMA NextWithinYear ==
    ASSUME NEW Y \in Int, NEW doy \in Int, 0 <= doy, doy < 365,
           doy + 1 = 365 => IsLeap(Y + 1)
    PROVE  CivilDate(Y, doy + 1) = NextDate(CivilDate(Y, doy))
<1> DEFINE mp == MarchMonth(doy)
           d == DayOfMonth(doy)
           mp2 == MarchMonth(doy + 1)
           d2 == DayOfMonth(doy + 1)
           m == IF mp < 10 THEN mp + 3 ELSE mp - 9
           y == IF m <= 2 THEN Y + 1 ELSE Y
           m2 == IF mp2 < 10 THEN mp2 + 3 ELSE mp2 - 9
           y2 == IF m2 <= 2 THEN Y + 1 ELSE Y
<1>1. mp \in Int /\ d \in Int /\ mp2 \in Int /\ d2 \in Int
  BY DEF MarchMonth, DayOfMonth
<1>2. /\ mp = (5 * doy + 2) \div 153 /\ d = doy - (153 * mp + 2) \div 5 + 1
      /\ mp2 = (5 * (doy + 1) + 2) \div 153 /\ d2 = doy + 1 - (153 * mp2 + 2) \div 5 + 1
  BY DEF MarchMonth, DayOfMonth
<1>3. CivilDate(Y, doy) = [y |-> y, m |-> m, d |-> d]
  BY DEF CivilDate, CivilMonth
<1>4. CivilDate(Y, doy + 1) = [y |-> y2, m |-> m2, d |-> d2]
  BY DEF CivilDate, CivilMonth
<1> HIDE DEF mp, d, mp2, d2
<1>5. /\ 0 <= mp /\ mp <= 11 /\ 1 <= d
      /\ \/ mp2 = mp /\ d2 = d + 1
            /\ d < (IF mp = 1 \/ mp = 3 \/ mp = 6 \/ mp = 8 THEN 30
                    ELSE IF mp = 11 THEN 29 ELSE 31)
            /\ (mp = 11 /\ d = 28 <=> doy + 1 = 365)
         \/ mp2 = mp + 1 /\ d2 = 1 /\ mp < 11
            /\ d = (IF mp = 1 \/ mp = 3 \/ mp = 6 \/ mp = 8 THEN 30 ELSE 31)
  BY <1>1, <1>2, MonthStep
<1>6. m \in Int /\ y \in Int /\ m2 \in Int /\ y2 \in Int /\ 1 <= m /\ m <= 12
  BY <1>1, <1>5
<1>7. DaysIn(y, m) = IF mp = 1 \/ mp = 3 \/ mp = 6 \/ mp = 8 THEN 30
                     ELSE IF mp = 11 THEN (IF IsLeap(y) THEN 29 ELSE 28) ELSE 31
  <2>1. m \in {4, 6, 9, 11} <=> mp = 1 \/ mp = 3 \/ mp = 6 \/ mp = 8
    BY <1>1, <1>5
  <2>2. m = 2 <=> mp = 11
    BY <1>1, <1>5
  <2> HIDE DEF m, y
  <2> QED
    BY <2>1, <2>2, <1>6 DEF DaysIn
<1>8. CASE mp2 = mp /\ d2 = d + 1
  <2>1. m2 = m /\ y2 = y
    BY <1>8
  <2>2. d < DaysIn(y, m)
    <3>1. CASE mp = 11
      <4>1. y = Y + 1
        BY <3>1
      <4>2. d < 28 \/ IsLeap(y)
        BY <1>1, <1>5, <1>8, <3>1, <4>1
      <4> HIDE DEF m, y
      <4> QED
        BY <1>1, <1>5, <1>7, <1>8, <3>1, <4>2
    <3>2. CASE mp # 11
      BY <1>1, <1>5, <1>7, <1>8, <3>2
    <3> QED
      BY <3>1, <3>2
  <2> HIDE DEF m, y, m2, y2
  <2> QED
    BY <1>3, <1>4, <1>8, <2>1, <2>2 DEF NextDate
<1>9. CASE ~(mp2 = mp /\ d2 = d + 1)
  <2>1. mp2 = mp + 1 /\ d2 = 1 /\ mp < 11 /\ d = DaysIn(y, m)
    BY <1>5, <1>7, <1>9
  <2>2. \/ m < 12 /\ m2 = m + 1 /\ y2 = y
        \/ m = 12 /\ m2 = 1 /\ y2 = y + 1
    BY <1>1, <1>5, <2>1
  <2>3. d \in Int /\ ~(d < DaysIn(y, m))
    BY <1>1, <2>1
  <2> HIDE DEF m, y, m2, y2
  <2>4. CASE m < 12 /\ m2 = m + 1 /\ y2 = y
    BY <1>3, <1>4, <2>1, <2>3, <2>4 DEF NextDate
  <2>5. CASE m = 12 /\ m2 = 1 /\ y2 = y + 1
    BY <1>3, <1>4, <2>1, <2>3, <2>5 DEF NextDate
  <2> QED
    BY <2>2, <2>4, <2>5
<1> QED
  BY <1>8, <1>9

\* The last day of February is followed by the first of March.
LEMMA NextIntoMarch ==
    ASSUME NEW Y \in Int, NEW doy \in Int,
           (doy = 365 /\ IsLeap(Y + 1)) \/ (doy = 364 /\ ~IsLeap(Y + 1))
    PROVE  CivilDate(Y + 1, 0) = NextDate(CivilDate(Y, doy))
<1>1. MarchMonth(doy) = 11 /\ DayOfMonth(doy) = doy - 336
  BY DEF MarchMonth, DayOfMonth
<1>2. MarchMonth(0) = 0 /\ DayOfMonth(0) = 1
  BY DEF MarchMonth, DayOfMonth
<1>3. CivilDate(Y, doy) = [y |-> Y + 1, m |-> 2, d |-> doy - 336]
  BY <1>1 DEF CivilDate, CivilMonth
<1>4. CivilDate(Y + 1, 0) = [y |-> Y + 1, m |-> 3, d |-> 1]
  BY <1>2 DEF CivilDate, CivilMonth
<1>5. DaysIn(Y + 1, 2) = doy - 336
  BY DEF DaysIn
<1>6. ~(doy - 336 < DaysIn(Y + 1, 2))
  BY <1>5
<1> QED
  BY <1>3, <1>4, <1>6 DEF NextDate

\* Each day is followed by the calendar's next, for all days.
LEMMA DaysFollow ==
    ASSUME NEW days \in Int
    PROVE  civil_from_days(days + 1) = NextDate(civil_from_days(days))
<1> DEFINE z == days + 719468
           era == z \div 146097
           doe == z - era * 146097
           yo == YearOfEra(doe)
           doy == DayOfYear(doe)
<1>1. z \in Int /\ era \in Int /\ doe \in Int /\ 0 <= doe /\ doe <= 146096
  BY SMT
<1>2. yo \in Int /\ doy \in Int
      /\ yo = (doe - doe \div 1460 + doe \div 36524 - doe \div 146096) \div 365
      /\ doy = doe - (365 * yo + yo \div 4 - yo \div 100)
  <2> HIDE DEF doe
  <2> QED
    BY <1>1, SMT DEF YearOfEra, DayOfYear
<1>3. civil_from_days(days) = CivilDate(yo + era * 400, doy)
  BY <1>1, CivilParts, SMT
<1>4. 0 <= yo /\ yo <= 399 /\ 0 <= doy /\ doy <= 365 /\ (doy = 365 => IsLeap(yo + 1))
  <2> HIDE DEF doe, yo, doy
  <2> QED
    BY <1>1, <1>2, EraBounds, SMT
<1>5. ASSUME NEW k \in Int
      PROVE  IsLeap(k + era * 400) <=> IsLeap(k)
  <2> HIDE DEF era
  <2> QED
    BY <1>1 DEF IsLeap
<1>6. CASE doe <= 146095
  <2> DEFINE yo2 == YearOfEra(doe + 1)
             doy2 == DayOfYear(doe + 1)
  <2>1. (days + 1 + 719468) \div 146097 = era
        /\ doe + 1 = (days + 1 + 719468) - era * 146097
    BY <1>6, SMT
  <2>2. civil_from_days(days + 1) = CivilDate(yo2 + era * 400, doy2)
    <3> DEFINE d1 == days + 1
               z1 == d1 + 719468
               e1 == doe + 1
    <3>1. /\ d1 \in Int /\ z1 \in Int /\ e1 \in Int /\ era \in Int
          /\ z1 = d1 + 719468 /\ era = z1 \div 146097 /\ e1 = z1 - era * 146097
      BY <1>1, <2>1, SMT
    <3> HIDE DEF doe, era, d1, z1, e1
    <3>2. civil_from_days(d1) = CivilDate(YearOfEra(e1) + era * 400, DayOfYear(e1))
      BY <3>1, CivilParts, SMT
    <3> QED
      BY <3>2, SMT DEF d1, e1
  <2>3. yo2 \in Int /\ doy2 \in Int
        /\ yo2 = (doe + 1 - (doe + 1) \div 1460 + (doe + 1) \div 36524
                     - (doe + 1) \div 146096) \div 365
        /\ doy2 = doe + 1 - (365 * yo2 + yo2 \div 4 - yo2 \div 100)
    <3> HIDE DEF doe
    <3> QED
      BY <1>1, SMT DEF YearOfEra, DayOfYear
  <2> HIDE DEF doe, yo, doy, yo2, doy2, era
  <2>4. \/ yo2 = yo /\ doy2 = doy + 1
        \/ yo2 = yo + 1 /\ doy2 = 0 /\ doy = 365 /\ IsLeap(yo2)
        \/ yo2 = yo + 1 /\ doy2 = 0 /\ doy = 364 /\ ~IsLeap(yo2)
    BY <1>1, <1>2, <1>6, <2>3, EraStep, SMT
  <2>5. doy2 <= 365 /\ (doy2 = 365 => IsLeap(yo2 + 1))
    <3> DEFINE e1 == doe + 1
    <3>1. /\ e1 \in Int /\ 0 <= e1 /\ e1 <= 146096 /\ yo2 \in Int /\ doy2 \in Int
          /\ yo2 = (e1 - e1 \div 1460 + e1 \div 36524 - e1 \div 146096) \div 365
          /\ doy2 = e1 - (365 * yo2 + yo2 \div 4 - yo2 \div 100)
      BY <1>1, <1>6, <2>3, SMT
    <3> HIDE DEF e1
    <3>2. 0 <= yo2 /\ yo2 <= 399 /\ 0 <= doy2 /\ doy2 <= 365
          /\ (doy2 = 365 => IsLeap(yo2 + 1))
      BY <3>1, EraBounds, SMT
    <3> QED
      BY <3>2
  <2> DEFINE Y == yo + era * 400
  <2>7. Y \in Int /\ Y + 1 = (yo + 1) + era * 400 /\ yo + 1 \in Int
    BY <1>1, <1>2
  <2>8. IsLeap(Y + 1) <=> IsLeap(yo + 1)
    BY <1>5, <2>7
  <2>9. CASE yo2 = yo /\ doy2 = doy + 1
    <3>1. doy < 365 /\ (doy + 1 = 365 => IsLeap(Y + 1))
      BY <1>2, <2>5, <2>8, <2>9
    <3> HIDE DEF Y
    <3>2. CivilDate(Y, doy + 1) = NextDate(CivilDate(Y, doy))
      BY <1>2, <1>4, <2>7, <3>1, NextWithinYear
    <3> QED
      BY <1>3, <2>2, <2>9, <3>2 DEF Y
  <2>10. CASE ~(yo2 = yo /\ doy2 = doy + 1)
    <3>1. yo2 + era * 400 = Y + 1 /\ doy2 = 0
          /\ ((doy = 365 /\ IsLeap(Y + 1)) \/ (doy = 364 /\ ~IsLeap(Y + 1)))
      <4>1. yo2 = yo + 1 /\ doy2 = 0
        BY <2>4, <2>10
      <4>2. (doy = 365 /\ IsLeap(yo + 1)) \/ (doy = 364 /\ ~IsLeap(yo + 1))
        <5>1. IsLeap(yo2) <=> IsLeap(yo + 1)
          BY <4>1
        <5> QED
          BY <2>4, <2>10, <5>1
      <4>3. yo2 + era * 400 = Y + 1
        BY <2>7, <4>1
      <4> QED
        BY <2>8, <4>1, <4>2, <4>3
    <3> HIDE DEF Y
    <3>2. CivilDate(Y + 1, 0) = NextDate(CivilDate(Y, doy))
      BY <1>2, <2>7, <3>1, NextIntoMarch
    <3> QED
      BY <1>3, <2>2, <3>1, <3>2 DEF Y
  <2> QED
    BY <2>9, <2>10
<1>7. CASE doe = 146096
  <2>1. yo = 399 /\ doy = 365
    <3> HIDE DEF doe
    <3> QED
      BY <1>2, <1>7, SMT
  <2>2. (days + 1 + 719468) \div 146097 = era + 1
        /\ 0 = (days + 1 + 719468) - (era + 1) * 146097
    BY <1>7, SMT
  <2>3. YearOfEra(0) = 0 /\ DayOfYear(0) = 0
    BY SMT DEF YearOfEra, DayOfYear
  <2>4. civil_from_days(days + 1) = CivilDate(YearOfEra(0) + (era + 1) * 400, DayOfYear(0))
    <3>1. era + 1 \in Int /\ days + 1 \in Int /\ days + 1 + 719468 \in Int /\ 0 \in Int
      BY <1>1
    <3> HIDE DEF doe, era
    <3> QED
      BY <2>2, <3>1, CivilParts, SMT
  <2> DEFINE Y == 399 + era * 400
  <2> HIDE DEF doe, yo, doy, era
  <2>5. Y \in Int /\ YearOfEra(0) + (era + 1) * 400 = Y + 1 /\ Y + 1 = 400 + era * 400
    BY <1>1, <2>3
  <2>6. IsLeap(Y + 1)
    <3>1. IsLeap(400)
      BY DEF IsLeap
    <3> QED
      BY <1>5, <2>5, <3>1
  <2> HIDE DEF Y
  <2>7. CivilDate(Y + 1, 0) = NextDate(CivilDate(Y, doy))
    <3>1. doy \in Int /\ ((doy = 365 /\ IsLeap(Y + 1)) \/ (doy = 364 /\ ~IsLeap(Y + 1)))
      BY <1>2, <2>1, <2>6
    <3> QED
      BY <2>5, <3>1, NextIntoMarch
  <2> QED
    BY <1>3, <2>1, <2>3, <2>4, <2>5, <2>7 DEF Y
<1> QED
  BY <1>1, <1>6, <1>7, SMT

\* DatesAreCivil holds of every day there is.
LEMMA DatesAreOfTheCalendar ==
    ASSUME object.day \in Int
    PROVE  DatesAreCivil
<1>1. civil_from_days(0) = [y |-> 1970, m |-> 1, d |-> 1]
  BY SMT DEF civil_from_days
<1>2. (24 * (object.day + 1) - 1) \div 24 = object.day
      /\ (24 * (object.day + 1) - 1) % 24 = 23
  OBVIOUS
<1> QED
  BY <1>1, <1>2, DaysFollow DEF DatesAreCivil, utc_from_unix_nanos

-----------------------------------------------------------------------------
(* The S3 sink: what is signed is what is written *)

PathTexts == Seq(SegmentKinds \cup {"digits", "name", "bucket"})

\* Trimming takes a part of the text, which part only depends on what is empty.
LEMMA Trimmed ==
    ASSUME NEW text \in PathTexts
    PROVE  /\ trim_matches(text) \in PathTexts
           /\ \E m \in Int : \A i \in 1 .. Len(trim_matches(text)) :
                 m + i - 1 \in 1 .. Len(text) /\ trim_matches(text)[i] = text[m + i - 1]
<1> DEFINE leading == {i \in DOMAIN text : \A j \in 1 .. i : text[j] = "empty"}
           trailing == {i \in DOMAIN text : \A j \in i .. Len(text) : text[j] = "empty"}
           S == SegmentKinds \cup {"digits", "name", "bucket"}
           m == 1 + Cardinality(leading)
           n == Len(text) - Cardinality(trailing)
<1>1. DOMAIN text = 1 .. Len(text) /\ Len(text) \in Nat /\ text \in Seq(S)
  BY DEF PathTexts
<1>2. IsFiniteSet(leading) /\ IsFiniteSet(trailing)
  <2>1. IsFiniteSet(1 .. Len(text))
    BY <1>1, FS_Interval
  <2>2. leading \subseteq 1 .. Len(text) /\ trailing \subseteq 1 .. Len(text)
    BY <1>1
  <2> QED
    BY <2>1, <2>2, FS_Subset
<1>3. Cardinality(leading) \in Nat /\ Cardinality(trailing) \in Nat
  BY <1>2, FS_CardinalityType
<1>4. trim_matches(text) = SubSeq(text, m, n)
  BY DEF trim_matches
<1> HIDE DEF leading, trailing, S
<1>5. m \in Int /\ n \in Int /\ m >= 1 /\ n <= Len(text)
  BY <1>1, <1>3
<1> HIDE DEF m, n
<1>6. \A i \in m .. n : i \in 1 .. Len(text) /\ text[i] \in S
  BY <1>1, <1>5
<1>7. /\ SubSeq(text, m, n) \in Seq(S)
      /\ Len(SubSeq(text, m, n)) = IF m <= n THEN n - m + 1 ELSE 0
      /\ \A i \in 1 .. n - m + 1 : SubSeq(text, m, n)[i] = text[m + i - 1]
  BY <1>5, <1>6, SubSeqProperties
<1>8. \A i \in 1 .. Len(SubSeq(text, m, n)) :
          m + i - 1 \in 1 .. Len(text) /\ SubSeq(text, m, n)[i] = text[m + i - 1]
  <2> SUFFICES ASSUME NEW i \in 1 .. Len(SubSeq(text, m, n))
               PROVE  m + i - 1 \in 1 .. Len(text) /\ SubSeq(text, m, n)[i] = text[m + i - 1]
    OBVIOUS
  <2>1. m <= n /\ i \in 1 .. n - m + 1
    BY <1>5, <1>7
  <2> QED
    BY <1>1, <1>5, <1>7, <2>1
<1> QED
  BY <1>4, <1>5, <1>7, <1>8 DEF PathTexts, S

\* A rendered template is trimmed where the template is.
LEMMA RenderTrims ==
    ASSUME NEW text \in Seq(SegmentKinds), NEW t
    PROVE  LET r == render(text, t).path
               a == trim_matches(text)
               b == trim_matches(r)
           IN  /\ r \in PathTexts /\ text \in PathTexts /\ Len(b) = Len(a)
               /\ \A i \in 1 .. Len(a) : b[i] = IF a[i] = "date" THEN "digits" ELSE a[i]
<1> DEFINE r == render(text, t).path
           S == SegmentKinds \cup {"digits", "name", "bucket"}
           f == [i \in DOMAIN text |-> IF text[i] = "date" THEN "digits" ELSE text[i]]
<1>1. DOMAIN text = 1 .. Len(text) /\ Len(text) \in Nat
      /\ \A i \in DOMAIN text : text[i] \in SegmentKinds
  OBVIOUS
<1>2. r = f
  BY DEF render
<1>3. f \in Seq(S) /\ Len(f) = Len(text) /\ DOMAIN f = DOMAIN text
  <2>1. \A i \in 1 .. Len(text) : f[i] \in S
    BY <1>1
  <2>2. DOMAIN f = 1 .. Len(text)
    BY <1>1
  <2>3. f \in [1 .. Len(text) -> S]
    BY <2>1, <2>2, <1>1
  <2> HIDE DEF f
  <2>4. f \in Seq(S)
    BY <1>1, <2>3
  <2> QED
    BY <1>1, <2>2, <2>4
<1>4. text \in Seq(S)
  BY <1>1
<1>5. \A i \in DOMAIN text : f[i] = "empty" <=> text[i] = "empty"
  OBVIOUS
<1> DEFINE L(s) == {i \in DOMAIN s : \A j \in 1 .. i : s[j] = "empty"}
           T(s) == {i \in DOMAIN s : \A j \in i .. Len(s) : s[j] = "empty"}
           m == 1 + Cardinality(L(text))
           n == Len(text) - Cardinality(T(text))
<1> HIDE DEF f
<1>6. L(f) = L(text)
  <2>1. \A i \in DOMAIN text : \A j \in 1 .. i : j \in DOMAIN text
    BY <1>1
  <2> QED
    BY <1>3, <1>5, <2>1
<1>7. T(f) = T(text)
  <2>1. \A i \in DOMAIN text : \A j \in i .. Len(text) : j \in DOMAIN text
    BY <1>1
  <2> QED
    BY <1>3, <1>5, <2>1
<1>8. trim_matches(text) = SubSeq(text, m, n)
  BY DEF trim_matches
<1>9. trim_matches(f) = SubSeq(f, m, n)
  BY <1>3, <1>6, <1>7 DEF trim_matches
<1>10. IsFiniteSet(L(text)) /\ IsFiniteSet(T(text))
  <2>1. IsFiniteSet(1 .. Len(text))
    BY <1>1, FS_Interval
  <2>2. L(text) \subseteq 1 .. Len(text) /\ T(text) \subseteq 1 .. Len(text)
    BY <1>1
  <2> QED
    BY <2>1, <2>2, FS_Subset
<1>11. Cardinality(L(text)) \in Nat /\ Cardinality(T(text)) \in Nat
  BY <1>10, FS_CardinalityType
<1> HIDE DEF L, T
<1>12. m \in Int /\ n \in Int /\ m >= 1 /\ n <= Len(text)
  BY <1>1, <1>11
<1> HIDE DEF m, n, S
<1>13. \A i \in m .. n : i \in DOMAIN text /\ text[i] \in S /\ f[i] \in S
  BY <1>1, <1>3, <1>4, <1>12
<1>14. /\ Len(SubSeq(text, m, n)) = IF m <= n THEN n - m + 1 ELSE 0
       /\ \A i \in 1 .. n - m + 1 : SubSeq(text, m, n)[i] = text[m + i - 1]
  BY <1>12, <1>13, SubSeqProperties
<1>15. /\ Len(SubSeq(f, m, n)) = IF m <= n THEN n - m + 1 ELSE 0
       /\ \A i \in 1 .. n - m + 1 : SubSeq(f, m, n)[i] = f[m + i - 1]
  BY <1>12, <1>13, SubSeqProperties
<1>16. ASSUME NEW i \in 1 .. Len(SubSeq(text, m, n))
       PROVE  SubSeq(f, m, n)[i] = IF SubSeq(text, m, n)[i] = "date" THEN "digits"
                                   ELSE SubSeq(text, m, n)[i]
  <2>1. i \in 1 .. n - m + 1 /\ m + i - 1 \in m .. n
    BY <1>12, <1>14
  <2>2. f[m + i - 1] = IF text[m + i - 1] = "date" THEN "digits" ELSE text[m + i - 1]
    BY <1>13, <2>1 DEF f
  <2> QED
    BY <1>14, <1>15, <2>1, <2>2
<1> QED
  BY <1>2, <1>3, <1>4, <1>8, <1>9, <1>14, <1>15, <1>16 DEF PathTexts, S

\* A component of a path that is signed: nothing a URL parser would rewrite.
Sound == {"word", "digits", "date", "name", "bucket", "badspec", "percent"}

\* What the sink accepts as a prefix or a template is sound once it is trimmed.
LEMMA AcceptedIsSound ==
    ASSUME NEW text \in Seq(SegmentKinds), validate_path_text(text)
    PROVE  trim_matches(text) \in Seq(Sound)
<1> DEFINE a == trim_matches(text)
<1>1. text \in PathTexts
  BY DEF PathTexts
<1>2. a \in PathTexts
  BY <1>1, Trimmed
<1>3. PICK m \in Int : \A i \in 1 .. Len(a) : m + i - 1 \in 1 .. Len(text)
                                              /\ a[i] = text[m + i - 1]
  BY <1>1, Trimmed
<1>4. \A i \in DOMAIN a : a[i] \notin {"empty", "blank", "dot"}
  BY DEF validate_path_text
<1>5. \A i \in DOMAIN text : text[i] # "unsafe"
  BY DEF validate_path_text
<1> HIDE DEF a
<1>6. DOMAIN a = 1 .. Len(a) /\ DOMAIN text = 1 .. Len(text) /\ Len(a) \in Nat
  BY <1>2 DEF PathTexts
<1>7. \A i \in 1 .. Len(a) : a[i] \in Sound
  BY <1>3, <1>4, <1>5, <1>6 DEF SegmentKinds, Sound
<1> QED
  BY <1>2, <1>6, <1>7 DEF PathTexts, a

Objects == [prefix : Seq(SegmentKinds), partition : Seq(SegmentKinds), endpoint : Endpoints,
            path_style : BOOLEAN, day : Int]

\* lib.rs S3Sink::new, key.rs: for any prefix and template, of any length.
LEMMA WrittenAsSigned ==
    ASSUME object \in Objects
    PROVE  SignedIsWritten
<1> SUFFICES ASSUME S3Sink_new(object)
             PROVE  SignedIsWritten
  BY DEF SignedIsWritten
<1> DEFINE t == 24 * object.day
           p == trim_matches(object.prefix)
           r == render(object.partition, t).path
           q == trim_matches(r)
           key == object_key(object.prefix, object.partition, t)
           path == (IF object.path_style THEN <<"bucket">> ELSE <<>>) \o key
<1>1. object.prefix \in Seq(SegmentKinds) /\ object.partition \in Seq(SegmentKinds)
      /\ object.path_style \in BOOLEAN
  BY DEF Objects
<1>2. /\ validate_path_text(object.prefix) /\ validate_path_text(object.partition)
      /\ object.endpoint \notin {"host_path", "no_host"}
  BY DEF S3Sink_new, parse_template
<1>3. p \in Seq(Sound)
  BY <1>1, <1>2, AcceptedIsSound
<1>4. q \in Seq(Sound)
  <2> DEFINE a == trim_matches(object.partition)
  <2>1. a \in Seq(Sound)
    BY <1>1, <1>2, AcceptedIsSound
  <2>2. /\ r \in PathTexts /\ Len(q) = Len(a)
        /\ \A i \in 1 .. Len(a) : q[i] = IF a[i] = "date" THEN "digits" ELSE a[i]
    BY <1>1, RenderTrims
  <2>3. q \in PathTexts
    BY <2>2, Trimmed
  <2> HIDE DEF a, q
  <2>4. \A i \in 1 .. Len(q) : q[i] \in Sound
    BY <2>1, <2>2 DEF Sound
  <2>5. DOMAIN q = 1 .. Len(q) /\ Len(q) \in Nat
    BY <2>3 DEF PathTexts
  <2> QED
    BY <2>3, <2>4, <2>5 DEF PathTexts
<1>5. key = p \o q \o <<"name">>
  BY DEF object_key
<1>6. key \in Seq(Sound)
  <2>1. <<"name">> \in Seq(Sound)
    BY DEF Sound
  <2> HIDE DEF p, q, key
  <2> QED
    BY <1>3, <1>4, <1>5, <2>1
<1>7. path \in Seq(Sound)
  <2>1. <<"bucket">> \in Seq(Sound) /\ <<>> \in Seq(Sound)
    BY DEF Sound
  <2> HIDE DEF key
  <2> QED
    BY <1>6, <2>1
<1>8. resolve(object, key).signed = path
  BY DEF resolve
<1>9. (url_parse(resolve(object, key).url) = resolve(object, key).signed)
          <=> (object.endpoint # "host_mark")
  <2>1. CASE object.endpoint # "host_mark"
    <3>1. resolve(object, key).url = <<>> \o path
      BY <1>2, <2>1 DEF resolve
    <3> HIDE DEF path, key
    <3>2. <<>> \o path = path
      BY <1>7
    <3>3. url_parse(path) = path
      BY <1>7 DEF url_parse, Sound
    <3> QED
      BY <1>8, <2>1, <3>1, <3>2, <3>3
  <2>2. CASE object.endpoint = "host_mark"
    <3>1. resolve(object, key).url = <<"unsafe">> \o path
      BY <2>2 DEF resolve
    <3> HIDE DEF path, key
    <3>2. 1 \in DOMAIN (<<"unsafe">> \o path) /\ (<<"unsafe">> \o path)[1] = "unsafe"
      BY <1>7
    <3>3. url_parse(<<"unsafe">> \o path) = <<"rewritten">>
      BY <3>2 DEF url_parse
    <3>4. path # <<"rewritten">>
      <4>1. \A i \in DOMAIN path : path[i] \in Sound
        BY <1>7
      <4>2. "rewritten" \notin Sound
        BY DEF Sound
      <4>3. DOMAIN <<"rewritten">> = 1 .. 1 /\ <<"rewritten">>[1] = "rewritten"
        OBVIOUS
      <4> QED
        BY <4>1, <4>2, <4>3
    <3> QED
      BY <1>8, <2>2, <3>1, <3>3, <3>4
  <2> QED
    BY <2>1, <2>2
<1> HIDE DEF path
<1>10. \A i \in DOMAIN key : key[i] \notin {"empty", "blank"}
  BY <1>6 DEF Sound
<1> QED
  BY <1>9, <1>10 DEF SignedIsWritten, key

-----------------------------------------------------------------------------
(* Who signs: the credential chain and its cache *)

Identities == {"nobody", "error", "static", "env", "web", "container", "imds"}
Credentials == [who : Identities, expiry : Nat]

\* What is cached is the named identity's; a resolve asks a source only when the
\* cached credential was near its end at the time it was given.
CredInv ==
    /\ host \in Hosts
    /\ now \in Nat
    /\ cached \in Credentials
    /\ cached # Nobody => cached.who = Named
    /\ resolving \in [at : {"idle", "asking"}, now : Nat]
    /\ resolving.at = "asking" =>
          resolving.now <= now /\ (cached = Nobody \/ needs_refresh(cached, resolving.now))
    /\ got \in [cred : Credentials, from : {"source", "cache"}, asked : Nat, handed : Nat]
    /\ SignsAsNamed

\* A host names one of the sources.
LEMMA NamedIsASource ==
    ASSUME host \in Hosts
    PROVE  Named \in Identities \ {"nobody", "error"}
  BY DEF Hosts, Named, Identities

\* resolve_uncached: the source that decides is the one the host names.
LEMMA UncachedIsNamed ==
    ASSUME host \in Hosts, now \in Nat, NEW fresh \in resolve_uncached
    PROVE  fresh \in Credentials /\ fresh.who \in {Named, "error"} /\ fresh # Nobody
<1>1. Never \in Nat /\ Unreadable \in Nat /\ now + Lifetime \in Nat
  BY CredentialBounds DEF Never, Unreadable
<1>2. ASSUME NEW who \in Identities \ {"nobody"}, NEW x \in Nat
      PROVE  Cred(who, x) \in Credentials /\ Cred(who, x).who = who /\ Cred(who, x) # Nobody
  BY DEF Cred, Credentials, Nobody
<1>3. CredError = Cred("error", Unreadable)
  BY DEF CredError, Cred
<1>4. \A who : \A c \in Exchange(who) :
         c = CredError \/ \E x \in Nat : c = Cred(who, x)
  BY <1>1 DEF Exchange, Expiries
<1>5. \/ fresh = CredError
      \/ \E x \in Nat : fresh = Cred(Named, x)
  BY <1>1, <1>4 DEF resolve_uncached, resolve_web_identity, resolve_imdsv2, Named, Hosts
<1>6. Named \in Identities \ {"nobody"} /\ "error" \in Identities \ {"nobody"}
  BY NamedIsASource DEF Identities
<1> QED
  BY <1>1, <1>2, <1>3, <1>5, <1>6

\* A step that leaves the host as it is leaves what it names.
LEMMA NamedStays ==
    ASSUME UNCHANGED host
    PROVE  Named' = Named
  BY DEF Named

\* resolve: a cached credential far from its end is served.
LEMMA UseCachedKeeps ==
    ASSUME CredInv, UseCached
    PROVE  CredInv'
<1>1. /\ host' = host /\ now' = now /\ cached' = cached /\ resolving' = resolving
      /\ got' = [cred |-> cached, from |-> "cache", asked |-> now, handed |-> now]
      /\ cached # Nobody /\ now < MaxTime /\ ~needs_refresh(cached, now)
  BY DEF UseCached, HandOut
<1>2. Named' = Named
  BY <1>1, NamedStays
<1>3. Named \notin {"nobody", "error"}
  BY NamedIsASource DEF CredInv
<1>4. got' \in [cred : Credentials, from : {"source", "cache"}, asked : Nat, handed : Nat]
  BY <1>1 DEF CredInv
<1>5. now < cached.expiry
  BY <1>1, CredentialBounds DEF CredInv, needs_refresh, Never, Credentials
<1>6. SignsAsNamed'
  BY <1>1, <1>2, <1>3, <1>5 DEF CredInv, SignsAsNamed
<1> QED
  BY <1>1, <1>2, <1>4, <1>6 DEF CredInv, needs_refresh

\* resolve: the steps that touch neither the cache nor the answer.
LEMMA AskingKeeps ==
    ASSUME CredInv, BeginRefresh \/ Passes
    PROVE  CredInv'
<1>1. /\ host' = host /\ cached' = cached /\ got' = got
      /\ now' \in Nat
      /\ resolving' = resolving \/ resolving' = [at |-> "asking", now |-> now]
  BY DEF BeginRefresh, Passes, CredInv
<1>2. Named' = Named
  BY <1>1, NamedStays
<1>3. resolving' \in [at : {"idle", "asking"}, now : Nat]
  BY <1>1 DEF CredInv
<1>4. SignsAsNamed'
  BY <1>1, <1>2 DEF CredInv, SignsAsNamed, still_valid, needs_refresh
<1>5. resolving'.at = "asking" =>
          resolving'.now <= now' /\ (cached' = Nobody \/ needs_refresh(cached', resolving'.now))
  <2>1. now \in Nat
    BY DEF CredInv
  <2>2. CASE BeginRefresh
    BY <2>1, <2>2 DEF BeginRefresh, needs_refresh
  <2>3. CASE Passes
    <3>1. now' = now + 1 /\ resolving' = resolving /\ resolving.now \in Nat
      BY <2>3 DEF Passes, CredInv
    <3> QED
      BY <1>1, <2>1, <3>1 DEF CredInv, needs_refresh
  <2> QED
    BY <2>2, <2>3
<1> QED
  BY <1>1, <1>2, <1>3, <1>4, <1>5 DEF CredInv, needs_refresh

\* resolve: the answer of a source, or its error with the cache behind it.
LEMMA EndRefreshKeeps ==
    ASSUME CredInv, EndRefresh
    PROVE  CredInv'
<1>1. PICK fresh \in resolve_uncached :
          IF fresh.who # "error"
          THEN /\ cached' = fresh
               /\ got' = [cred |-> fresh, from |-> "source", asked |-> resolving.now, handed |-> now]
          ELSE /\ UNCHANGED cached
               /\ got' = IF cached # Nobody /\ still_valid(cached, resolving.now)
                         THEN [cred |-> cached, from |-> "cache", asked |-> resolving.now, handed |-> now]
                         ELSE [cred |-> fresh, from |-> "source", asked |-> resolving.now, handed |-> now]
  BY DEF EndRefresh, HandOut
<1>2. /\ host' = host /\ now' = now
      /\ resolving' = [at |-> "idle", now |-> 0]
  BY DEF EndRefresh
<1>3. Named' = Named
  BY <1>2, NamedStays
<1>4. fresh \in Credentials /\ fresh.who \in {Named, "error"} /\ fresh # Nobody
  BY <1>1, UncachedIsNamed DEF CredInv
<1>5. Named \notin {"nobody", "error"}
  BY NamedIsASource DEF CredInv
<1>6. resolving.now \in Nat /\ cached.expiry \in Nat /\ cached.who \in Identities
  BY DEF CredInv, Credentials
<1>7. CASE fresh.who # "error"
  <2>1. /\ cached' = fresh
        /\ got' = [cred |-> fresh, from |-> "source", asked |-> resolving.now, handed |-> now]
    BY <1>1, <1>7
  <2>2. SignsAsNamed'
    BY <1>3, <1>4, <1>5, <1>7, <2>1 DEF SignsAsNamed
  <2> QED
    BY <1>2, <1>3, <1>4, <1>6, <1>7, <2>1, <2>2 DEF CredInv
<1>8. CASE fresh.who = "error" /\ cached # Nobody /\ still_valid(cached, resolving.now)
  <2>1. /\ cached' = cached
        /\ got' = [cred |-> cached, from |-> "cache", asked |-> resolving.now, handed |-> now]
    BY <1>1, <1>8
  <2>2. cached.who = Named /\ resolving.now < cached.expiry
    BY <1>8 DEF CredInv, still_valid
  <2>3. resolving.now <= now /\ now \in Nat /\ needs_refresh(cached, resolving.now)
    BY <1>8 DEF CredInv, EndRefresh
  <2>4. now < cached.expiry \/ resolving.now < now
    BY <1>6, <2>2, <2>3
  <2>5. SignsAsNamed'
    BY <1>3, <1>5, <2>1, <2>2, <2>3, <2>4 DEF SignsAsNamed, needs_refresh
  <2> QED
    BY <1>2, <1>3, <1>6, <2>1, <2>5 DEF CredInv
<1>9. CASE fresh.who = "error" /\ ~(cached # Nobody /\ still_valid(cached, resolving.now))
  <2>1. /\ cached' = cached
        /\ got' = [cred |-> fresh, from |-> "source", asked |-> resolving.now, handed |-> now]
    BY <1>1, <1>9
  <2>2. ~(resolving.now < cached.expiry)
    <3>1. CASE cached = Nobody
      BY <1>6, <3>1 DEF Nobody, Unreadable
    <3>2. CASE cached # Nobody
      BY <1>9, <3>2 DEF still_valid
    <3> QED
      BY <3>1, <3>2
  <2>3. SignsAsNamed'
    BY <1>9, <2>1, <2>2 DEF SignsAsNamed, still_valid
  <2> QED
    BY <1>2, <1>3, <1>4, <1>6, <2>1, <2>3 DEF CredInv
<1> QED
  BY <1>7, <1>8, <1>9

-----------------------------------------------------------------------------
(* The S3 sink *)

\* The objects of the model are among those the lemmas above are about.
LEMMA ObjectsOfInit ==
    ASSUME ObjectInit
    PROVE  object \in Objects
<1>1. Texts \subseteq Seq(SegmentKinds)
  <2>1. ASSUME NEW k \in SegmentKinds
        PROVE  <<"empty", k, "empty">> \in Seq(SegmentKinds)
    BY DEF SegmentKinds
  <2>2. ASSUME NEW n \in 0 .. 2, NEW s \in [1 .. n -> SegmentKinds]
        PROVE  s \in Seq(SegmentKinds)
    OBVIOUS
  <2>3. ASSUME NEW t \in Texts
        PROVE  \/ \E n \in 0 .. 2 : t \in [1 .. n -> SegmentKinds]
               \/ \E k \in SegmentKinds : t = <<"empty", k, "empty">>
    <3>1. \/ t \in UNION {[1 .. n -> SegmentKinds] : n \in 0 .. 2}
          \/ t \in {<<"empty", k, "empty">> : k \in SegmentKinds}
      BY DEF Texts
    <3>2. CASE t \in UNION {[1 .. n -> SegmentKinds] : n \in 0 .. 2}
      <4>1. PICK F \in {[1 .. n -> SegmentKinds] : n \in 0 .. 2} : t \in F
        BY <3>2
      <4>2. \E n \in 0 .. 2 : F = [1 .. n -> SegmentKinds]
        BY <4>1, Zenon
      <4> QED
        BY <4>1, <4>2
    <3>3. CASE t \in {<<"empty", k, "empty">> : k \in SegmentKinds}
      BY <3>3, Zenon
    <3> QED
      BY <3>1, <3>2, <3>3
  <2> QED
    BY <2>1, <2>2, <2>3
<1> QED
  BY <1>1 DEF ObjectInit, Objects

\* Another segment only has another day.
LEMMA NextSegmentStays ==
    ASSUME object \in Objects, NextSegment
    PROVE  object' \in Objects
<1>1. CheckedDays \subseteq Int
  <2> DEFINE D == {-106712, -25567, 0, 10957, 47482, 106350}
  <2>1. D \subseteq Int
    OBVIOUS
  <2>2. CheckedDays = UNION {d - 40 .. d + 400 : d \in D}
    BY DEF CheckedDays
  <2> HIDE DEF D
  <2> QED
    BY <2>1, <2>2, SMT
<1> QED
  BY <1>1 DEF NextSegment, Objects

\* The invariant of the S3 sink holds in every behaviour: the credentials that
\* are cached and served are the named identity's, whatever the sources answer
\* and whenever they fail.
THEOREM S3Invariance == S3Spec => [](CredInv /\ object \in Objects)
<1>1. CredInit => CredInv
  <2> SUFFICES ASSUME CredInit PROVE CredInv
    OBVIOUS
  <2>1. Nobody \in Credentials /\ Nobody.who = "nobody"
    BY DEF Nobody, Credentials, Identities, Unreadable
  <2>2. got.cred = Nobody /\ got.from = "source" /\ got.asked = 0 /\ got.handed = 0
    BY DEF CredInit, NothingYet
  <2>3. SignsAsNamed
    BY <2>1, <2>2 DEF SignsAsNamed
  <2> QED
    BY <2>1, <2>3 DEF CredInit, CredInv, NothingYet
<1>2. ASSUME CredInv, UNCHANGED credVars
      PROVE  CredInv'
  <2>1. UNCHANGED <<host, now, cached, resolving, got>>
    BY <1>2 DEF credVars
  <2>2. Named' = Named
    BY <2>1, NamedStays
  <2> QED
    BY <1>2, <2>1, <2>2 DEF CredInv, SignsAsNamed, still_valid, needs_refresh
<1>3. ASSUME CredInv, CredNext
      PROVE  CredInv'
  BY <1>3, UseCachedKeeps, AskingKeeps, EndRefreshKeeps DEF CredNext
<1>4. ASSUME CredInv, object \in Objects,
             [\/ CredNext /\ UNCHANGED objectVars
              \/ NextSegment /\ UNCHANGED credVars]_<<credVars, objectVars>>
      PROVE  CredInv' /\ (object \in Objects)'
  <2>1. CASE CredNext /\ UNCHANGED objectVars
    BY <1>3, <1>4, <2>1 DEF objectVars
  <2>2. CASE NextSegment /\ UNCHANGED credVars
    BY <1>2, <1>4, <2>2, NextSegmentStays
  <2>3. CASE UNCHANGED <<credVars, objectVars>>
    BY <1>2, <1>4, <2>3 DEF objectVars
  <2> QED
    BY <1>4, <2>1, <2>2, <2>3
<1> QED
  BY <1>1, <1>4, ObjectsOfInit, PTL DEF S3Spec

\* SignsAsConfigured (creds.rs, key.rs, time.rs): a request of the S3 sink is
\* signed by the identity the host names, for the key it writes, under a date of
\* the calendar, for every lifetime, margin and clock.
THEOREM S3SignsAsConfigured == S3Spec => []SignsAsConfigured
<1>1. ASSUME CredInv, object \in Objects
      PROVE  SignsAsConfigured
  <2>1. object.day \in Int
    BY <1>1 DEF Objects
  <2> QED
    BY <1>1, <2>1, WrittenAsSigned, DatesAreOfTheCalendar DEF SignsAsConfigured, CredInv
<1> QED
  BY <1>1, S3Invariance, PTL

-----------------------------------------------------------------------------
(* The configuration: any settings together *)

\* A start with any settings in any layer, and any of the features built in;
\* the starts of ConfigInit have one or two.
AnyConfigInit ==
    /\ build \in SUBSET {"mysql-sink", "s3-sink", "tls"}
    /\ given \in [Layers -> [Keys -> Raw]]
    /\ paths \in Addresses
    /\ file \in {"present", "absent", "unreadable", "malformed"}
    /\ file # "present" => given.file = Nothing
    /\ stage = "args"
    /\ loaded = NotLoaded
AnyConfigSpec == AnyConfigInit /\ [][ConfigNext]_configVars

\* What each step of Config::load leaves for the ones after it.
ConfigInv ==
    /\ paths \in Addresses
    /\ file # "present" => given.file = Nothing
    /\ stage \in {"args", "file", "env", "merge", "loaded", "refused"}
    /\ stage \in {"file", "env", "merge", "loaded"} =>
          \A k \in Keys : given.cli[k] # "unset" => HasFlag(k)
    /\ stage \in {"env", "merge", "loaded"} /\ file = "present" =>
          collect_unknown_key_warnings \subseteq loaded.warned
    /\ stage = "loaded" => /\ validate_path(paths.wab)
                           /\ admin_path_problem
                           /\ loaded.config = [k \in Keys |-> Effective(k)]
    /\ stage # "loaded" => loaded \in [config : {Nothing}, warned : SUBSET Keys]

\* The layers are only read.
LEMMA LayersStay ==
    ASSUME UNCHANGED <<build, given, file, paths>>
    PROVE  /\ \A k : HasFlag(k)' = HasFlag(k) /\ Effective(k)' = Effective(k)
           /\ collect_unknown_key_warnings' = collect_unknown_key_warnings
           /\ validate_path(paths.wab)' = validate_path(paths.wab)
           /\ admin_path_problem' = admin_path_problem
<1>1. build' = build /\ given' = given /\ file' = file /\ paths' = paths
  OBVIOUS
<1>2. \A k : feature_compiled(k)' = feature_compiled(k)
  BY <1>1 DEF feature_compiled
<1>3. \A k : HasField(k)' = HasField(k)
  BY <1>2 DEF HasField
<1>4. \A k : merge(k)' = merge(k)
  BY <1>1, <1>3 DEF merge
<1> QED
  BY <1>1, <1>2, <1>3, <1>4 DEF HasFlag, Effective, collect_unknown_key_warnings,
     validate_path, admin_path_problem

\* Each step of Config::load.
LEMMA LoadKeeps ==
    ASSUME ConfigInv, ConfigNext
    PROVE  ConfigInv'
<1>1. UNCHANGED <<build, given, file, paths>>
  BY DEF ConfigNext, parse_args, read_file, read_env, load, Refuse, Proceed
<1>2. /\ \A k : HasFlag(k)' = HasFlag(k) /\ Effective(k)' = Effective(k)
      /\ collect_unknown_key_warnings' = collect_unknown_key_warnings
      /\ validate_path(paths.wab)' = validate_path(paths.wab)
      /\ admin_path_problem' = admin_path_problem
  BY <1>1, LayersStay
<1>3. /\ paths' \in Addresses
      /\ (file # "present" => given.file = Nothing)'
  BY <1>1 DEF ConfigInv
<1>4. CASE Refuse
  <2>1. stage # "loaded"
    BY DEF ConfigNext, parse_args, read_file, read_env, load
  <2>2. stage' = "refused" /\ loaded' = loaded
    BY <1>4 DEF Refuse
  <2> QED
    BY <1>2, <1>3, <2>1, <2>2 DEF ConfigInv
<1>5. CASE parse_args /\ ~Refuse
  <2>1. /\ stage = "args" /\ stage' = "file" /\ loaded' = loaded /\ given' = given
        /\ \A k \in Keys : given.cli[k] # "unset" => HasFlag(k)
    BY <1>5 DEF parse_args, Proceed
  <2> QED
    BY <1>2, <1>3, <2>1 DEF ConfigInv
<1>6. CASE read_file /\ ~Refuse
  <2>1. /\ stage = "file" /\ stage' = "env" /\ given' = given /\ file' = file
        /\ loaded' = [loaded EXCEPT !.warned =
                         IF file = "present" THEN collect_unknown_key_warnings ELSE {}]
    BY <1>6 DEF read_file, Proceed
  <2>2. collect_unknown_key_warnings \subseteq Keys
    BY DEF collect_unknown_key_warnings
  <2> QED
    BY <1>2, <1>3, <2>1, <2>2 DEF ConfigInv
<1>7. CASE read_env /\ ~Refuse
  <2>1. /\ stage = "env" /\ stage' = "merge" /\ loaded' = loaded /\ given' = given
        /\ file' = file
    BY <1>7 DEF read_env, Proceed
  <2> QED
    BY <1>2, <1>3, <2>1 DEF ConfigInv
<1>8. CASE load /\ ~Refuse
  <2> DEFINE more == advisory_warnings \cup (IF file = "absent" THEN {"config_file"} ELSE {})
  <2>1. /\ stage = "merge" /\ stage' = "loaded" /\ given' = given /\ file' = file
        /\ from_layers
        /\ loaded'.config = [k \in Keys |-> Effective(k)]
        /\ loaded.warned \subseteq loaded'.warned
    BY <1>8 DEF load, Proceed
  <2>2. validate_path(paths.wab) /\ admin_path_problem
    BY <2>1 DEF from_layers
  <2>3. [k \in Keys |-> Effective(k)]' = [k \in Keys |-> Effective(k)]
    BY <1>2
  <2> QED
    BY <1>2, <1>3, <2>1, <2>2, <2>3 DEF ConfigInv
<1> QED
  BY <1>4, <1>5, <1>6, <1>7, <1>8 DEF ConfigNext

\* NoSilentSetting: what the invariant says of a configuration that is loaded.
LEMMA LoadedTellsAll ==
    ASSUME ConfigInv
    PROVE  NoSilentSetting
<1> SUFFICES ASSUME stage = "loaded", NEW l \in Layers, NEW k \in Keys,
                    given[l][k] # "unset",
                    ~(\E h \in Above(l) : given[h][k] # "unset" /\ HasField(k)),
                    k \notin loaded.warned,
                    ~(l = "env" /\ ~HasField(k)),
                    ~(k = "log_level" /\ given[l][k] = "empty")
             PROVE  /\ loaded.config[k] = given[l][k]
                    /\ Disclosure(k) = "shown" => view[k] = given[l][k]
  BY DEF NoSilentSetting
<1>1. l \in {"cli", "env", "file"}
  BY DEF Layers
<1>2. l = "file" => file = "present"
  <2> SUFFICES ASSUME l = "file", file # "present" PROVE FALSE
    OBVIOUS
  <2>1. given.file = Nothing
    BY DEF ConfigInv
  <2> QED
    BY <2>1 DEF Nothing
<1>3. HasField(k)
  <2>1. CASE l = "cli"
    BY <2>1 DEF ConfigInv, HasFlag
  <2>2. CASE l = "file"
    <3>1. k \notin collect_unknown_key_warnings
      BY <1>2, <2>2 DEF ConfigInv
    <3> QED
      BY <2>2, <3>1 DEF collect_unknown_key_warnings, HasField, FEATURE_GATED_SERVER_KEYS
  <2> QED
    BY <1>1, <2>1, <2>2
<1>4. merge(k) = given[l][k]
  BY <1>1, <1>2, <1>3 DEF merge, Above
<1>5. Effective(k) = given[l][k]
  BY <1>4 DEF Effective
<1>6. loaded.config[k] = given[l][k]
  BY <1>5 DEF ConfigInv
<1>7. Disclosure(k) = "shown" => view[k] = given[l][k]
  BY <1>3, <1>6 DEF view
<1> QED
  BY <1>6, <1>7

\* CtlFindsItsDaemon: the two sides derive one path from one directory.
LEMMA SidesMeet ==
    ASSUME ConfigInv
    PROVE  CtlFindsItsDaemon
<1> SUFFICES ASSUME stage = "loaded", paths.ctl # "unnamed"
             PROVE  CtlFindsItsDaemon
  BY DEF CtlFindsItsDaemon
<1> DEFINE same == Canonical[paths.ctl] = Canonical[paths.wab]
           derived == default_socket_path(Canonical[paths.wab])
<1>1. Canonical[paths.wab] # "none"
  BY DEF ConfigInv, validate_path
<1>2. resolve_admin_target.strict
  BY DEF resolve_admin_target
<1>3. ASSUME same, ~paths.explicit, ~paths.ctlExplicit
      PROVE  resolve_admin_target.socket = admin_socket \/ admin_socket \in {"disabled", "unusable"}
  <2>1. resolve_admin_target.socket = IF derived = "none" THEN "default" ELSE derived
    BY <1>1, <1>3 DEF resolve_admin_target
  <2>2. admin_socket \in {"disabled", "unusable"} \/ (admin_socket = derived /\ derived # "none")
    BY <1>3 DEF admin_socket
  <2> QED
    BY <2>1, <2>2
<1> QED
  BY <1>2, <1>3 DEF CtlFindsItsDaemon

\* ConfigurationIsTrue (config/mod.rs load, admin_socket; weir-ctl admin_client.rs):
\* whatever is set, in however many layers, a daemon that starts runs on it, shows
\* it or has warned of it, and weir-ctl looks where it listens.
THEOREM ConfigurationStaysTrue == AnyConfigSpec => []ConfigurationIsTrue
<1>1. AnyConfigInit => ConfigInv
  BY DEF AnyConfigInit, ConfigInv, NotLoaded
<1>2. ASSUME ConfigInv, [ConfigNext]_configVars
      PROVE  ConfigInv'
  <2>1. CASE ConfigNext
    BY <1>2, <2>1, LoadKeeps
  <2>2. CASE UNCHANGED configVars
    <3>1. UNCHANGED <<build, given, file, paths>> /\ stage' = stage /\ loaded' = loaded
      BY <2>2 DEF configVars
    <3>2. /\ \A k : HasFlag(k)' = HasFlag(k) /\ Effective(k)' = Effective(k)
          /\ collect_unknown_key_warnings' = collect_unknown_key_warnings
          /\ validate_path(paths.wab)' = validate_path(paths.wab)
          /\ admin_path_problem' = admin_path_problem
      BY <3>1, LayersStay
    <3>3. [k \in Keys |-> Effective(k)]' = [k \in Keys |-> Effective(k)]
      BY <3>2
    <3> QED
      BY <1>2, <3>1, <3>2, <3>3 DEF ConfigInv
  <2> QED
    BY <1>2, <2>1, <2>2
<1>3. ConfigInv => ConfigurationIsTrue
  BY LoadedTellsAll, SidesMeet DEF ConfigurationIsTrue
<1> QED
  BY <1>1, <1>2, <1>3, PTL DEF AnyConfigSpec

\* The starts that TLC checks are among them.
LEMMA CheckedStarts == ConfigInit => AnyConfigInit
<1> SUFFICES ASSUME ConfigInit PROVE AnyConfigInit
  OBVIOUS
<1>1. Nothing \in [Keys -> Raw]
  BY DEF Nothing, Raw
<1>2. OneSetting \subseteq [Layers -> [Keys -> Raw]]
  <2> SUFFICES ASSUME NEW k \in Keys, NEW v \in [Layers -> Raw]
               PROVE  [l \in Layers |-> [Nothing EXCEPT ![k] = v[l]]] \in [Layers -> [Keys -> Raw]]
    BY DEF OneSetting
  <2>1. ASSUME NEW l \in Layers
        PROVE  [Nothing EXCEPT ![k] = v[l]] \in [Keys -> Raw]
    BY <1>1
  <2> QED
    BY <2>1
<1>3. ASSUME NEW p \in Pairs
      PROVE  TwoSettings(p) \subseteq [Layers -> [Keys -> Raw]]
  <2> DEFINE Few == {"unset", "a", "b", "empty"}
             Two(v) == [l \in Layers |-> IF l = "cli" THEN Nothing
                           ELSE [k \in Keys |-> IF k \in p THEN v[l][k] ELSE "unset"]]
  <2> SUFFICES ASSUME NEW v \in [{"env", "file"} -> [p -> Few]]
               PROVE  Two(v) \in [Layers -> [Keys -> Raw]]
    BY DEF TwoSettings
  <2>1. ASSUME NEW l \in Layers
        PROVE  (IF l = "cli" THEN Nothing
                ELSE [k \in Keys |-> IF k \in p THEN v[l][k] ELSE "unset"]) \in [Keys -> Raw]
    BY <1>1 DEF Layers, Raw
  <2> QED
    BY <2>1
<1>4. UNION {TwoSettings(p) : p \in Pairs} \subseteq [Layers -> [Keys -> Raw]]
  BY <1>3
<1>5. [l \in Layers |-> Nothing] \in [Layers -> [Keys -> Raw]]
  BY <1>1
<1>6. Packaged \in Addresses
  BY DEF Packaged, Addresses, Spellings, Canonical, AdminPathProblem
<1>7. given \in [Layers -> [Keys -> Raw]] /\ paths \in Addresses
  BY <1>2, <1>4, <1>5, <1>6 DEF ConfigInit
<1> QED
  BY <1>7 DEF ConfigInit, AnyConfigInit, Builds

-----------------------------------------------------------------------------
(* Is the drain alive?  The invariant *)

Verdicts == {"none", "slow_sink_call", "slow_local_io", "wedged", "stopped"}
Drains == [at : {"between", "waiting", "entering", "busy", "returning", "gone"},
           next : {"none", "call", "commit"}, outer : {"none", "local"},
           blocked : BOOLEAN, age : Nat, hung : BOOLEAN]
Cells == [kind : {"none", "sink", "local"}, age : MaybeAge]
Stamps == [commit : MaybeAge, progress : MaybeAge]
Polls == [at : {"asleep", "reading", "scanning", "rereading", "done"}, since : MaybeAge,
          torn : BOOLEAN, frozen : Nat, verdict : Verdicts]
Seens == [first : BOOLEAN, frozen : Nat, logged : Verdicts, logged_age : Nat]
Boards == [heartbeat : MaybeAge, busy : Readings \cup {None}, excused : BOOLEAN, age : Nat]

StallTypeOK ==
    /\ drain \in Drains
    /\ cell \in Cells
    /\ moved \in BOOLEAN
    /\ stamps \in Stamps
    /\ poll \in Polls
    /\ seen \in Seens
    /\ board \in Boards
    /\ poll.at # "scanning" => poll.verdict = "none"

\* The busy signal is up exactly in an operation, only a sink call has a commit, and
\* only local I/O holds another operation.
GuardInv ==
    /\ drain.at \in {"between", "waiting", "gone"} => cell.kind = "none" /\ cell.age = None
    /\ drain.at \in {"entering", "busy", "returning"} => cell.kind # "none"
    /\ drain.at \in {"busy", "returning"} => cell.age # None
    /\ drain.at = "entering" => ~drain.blocked /\ drain.age = 0
    /\ drain.next = "commit" =>
          cell.kind = "sink" /\ drain.at \in {"entering", "busy", "returning"}
    /\ stamps.commit # None => drain.next = "commit" /\ drain.at \in {"busy", "returning"}

\* A call that yields ends in time, and every clock shows its age.
AgeInv ==
    drain.at = "busy" /\ ~drain.blocked =>
        /\ cell.age = drain.age
        /\ cell.kind = "sink" => drain.age <= CommitTimeout
        /\ stamps.commit # None => stamps.commit = drain.age

\* A block is no older than any clock, nor than a board that does not excuse it.
BlockInv ==
    /\ drain.blocked =>
        /\ drain.at \in {"between", "busy"}
        /\ drain.at = "busy" => cell.kind = "sink" /\ cell.age >= drain.age
        /\ stamps.commit # None => stamps.commit \in drain.age .. CommitTimeout + drain.age
        /\ stamps.progress # None => stamps.progress >= drain.age
        /\ board.excused \/ board.age >= drain.age
    /\ drain.at = "returning" /\ stamps.commit # None =>
          board.excused \/ board.age > 1 \/ stamps.commit <= CommitTimeout + WedgeGrace

\* A reading in which the drain went nowhere is a reading of what it does.
ReadInv ==
    /\ poll.at \in {"asleep", "reading"} /\ drain.at = "waiting" => moved
    /\ poll.at \in {"reading", "scanning", "rereading"} /\ ~poll.torn => ~InTransit
    /\ poll.at \in {"reading", "rereading"} /\ ~poll.torn => poll.since = cell.age
    /\ poll.at \in {"scanning", "rereading"} /\ ~poll.torn /\ drain.at = "waiting" =>
          poll.frozen = 0
    /\ poll.at \in {"asleep", "reading", "done"} => poll.frozen = 0

\* A board that needs no excuse shows an operation in time or a heart that beat.
BoardInv ==
    ~board.excused =>
        /\ board.heartbeat # None
        /\ board.busy # None =>
              (board.busy.sink_call => board.busy.age <= CommitTimeout + board.age)
        /\ board.busy = None => drain.at = "gone" \/ board.heartbeat <= board.age

Longer == IF HealthPoll > CommitTimeout THEN HealthPoll ELSE CommitTimeout

\* Of a block that no hung scan hides, the poll has seen all but the first tick.
SeenInv ==
    /\ seen.logged = "stopped" => drain.at = "gone"
    /\ drain.blocked /\ drain.age >= 1 /\ poll.at \in {"reading", "rereading"} =>
          poll.since = cell.age
    /\ drain.blocked /\ ~drain.hung =>
        /\ drain.age >= 2 \/ (drain.age = 1 /\ poll.at \notin {"asleep", "reading"}) =>
              ~moved /\ ~seen.first /\ seen.frozen >= drain.age - 1
        /\ drain.age > Longer + WedgeGrace /\ poll.at \in {"scanning", "rereading", "done"} =>
              seen.logged = "wedged"
        /\ drain.age >= 2 /\ poll.at \in {"scanning", "rereading"} =>
              poll.frozen >= drain.age - 1
        /\ drain.age >= 2 /\ poll.at = "done" =>
              /\ board.heartbeat # None /\ board.heartbeat >= drain.age - 1
              /\ drain.at = "busy" => board.busy = [sink_call |-> TRUE, age |-> cell.age]
              /\ drain.at = "between" => board.busy = None

StallInv ==
    StallTypeOK /\ GuardInv /\ AgeInv /\ BlockInv /\ ReadInv /\ BoardInv /\ SeenInv

\* wait_slice: the heartbeat moves.
LEMMA WaitSliceKeeps ==
    ASSUME StallInv, WaitSlice
    PROVE  StallInv'
<1> USE DEF StallInv
<1>1. /\ drain.at \in {"between", "waiting"} /\ ~drain.blocked
      /\ drain'.at = "waiting" /\ drain'.next = drain.next /\ ~drain'.blocked
      /\ drain'.age = drain.age
      /\ poll'.at = poll.at /\ poll'.since = poll.since /\ poll'.frozen = poll.frozen
      /\ poll'.torn = (poll.at \notin {"asleep", "done"})
      /\ moved' /\ cell' = cell /\ stamps' = stamps /\ seen' = seen /\ board' = board
  BY DEF WaitSlice, Straddled, StallTypeOK, Drains, Polls
<1>2. StallTypeOK'
  BY DEF WaitSlice, Straddled, StallTypeOK, Drains, Polls
<1>3. GuardInv'
  BY <1>1 DEF GuardInv
<1>4. AgeInv' /\ BlockInv'
  BY <1>1 DEF AgeInv, BlockInv
<1>5. ReadInv'
  BY <1>1, <1>2 DEF ReadInv, InTransit, StallTypeOK, Polls
<1>6. BoardInv'
  BY <1>1 DEF BoardInv
<1>7. SeenInv'
  BY <1>1 DEF SeenInv
<1> QED
  BY <1>2, <1>3, <1>4, <1>5, <1>6, <1>7

\* BusyGuard::new: the kind of the operation is up before its start.
LEMMA EnterOpKeeps ==
    ASSUME StallInv, NEW k \in OpKinds, NEW commit \in BOOLEAN, EnterOp(k, commit)
    PROVE  StallInv'
<1> USE DEF StallInv
<1>1. /\ drain.at \in {"between", "waiting"} \/ (drain.at = "busy" /\ cell.kind = "local")
      /\ ~drain.blocked
      /\ drain'.at = "entering" /\ ~drain'.blocked /\ drain'.age = 0
      /\ drain'.next = (IF commit THEN "commit" ELSE "call")
      /\ commit => k = "sink"
      /\ cell'.kind = k /\ cell'.age = cell.age
      /\ poll'.at = poll.at /\ poll'.since = poll.since /\ poll'.frozen = poll.frozen
      /\ poll'.torn = (poll.at \notin {"asleep", "done"})
      /\ moved' = moved /\ stamps' = stamps /\ seen' = seen /\ board' = board
  <2>1. /\ drain.at \in {"between", "waiting"} \/ (drain.at = "busy" /\ cell.kind = "local")
        /\ ~drain.blocked /\ (commit => k = "sink")
        /\ moved' = moved /\ stamps' = stamps /\ seen' = seen /\ board' = board
        /\ drain' = [drain EXCEPT !.at = "entering", !.age = 0, !.outer = cell.kind,
                                  !.next = IF commit THEN "commit" ELSE "call"]
        /\ cell' = [cell EXCEPT !.kind = k]
        /\ poll' = [poll EXCEPT !.torn = poll.at \notin {"asleep", "done"}]
    BY DEF EnterOp, Straddled
  <2> QED
    BY <2>1 DEF StallTypeOK, Drains, Polls, Cells
<1>2. StallTypeOK'
  <2>1. cell.kind \in {"none", "local"}
    BY DEF EnterOp, GuardInv
  <2> QED
    BY <2>1 DEF EnterOp, Straddled, StallTypeOK, Drains, Polls, Cells, OpKinds
<1>3. stamps.commit = None /\ k # "none"
  BY <1>1 DEF GuardInv, OpKinds
<1>4. GuardInv'
  BY <1>1, <1>3 DEF GuardInv
<1>5. AgeInv' /\ BlockInv'
  BY <1>1 DEF AgeInv, BlockInv
<1>6. ReadInv'
  BY <1>1, <1>2 DEF ReadInv, InTransit, StallTypeOK, Polls
<1>7. BoardInv'
  BY <1>1 DEF BoardInv
<1>8. SeenInv'
  BY <1>1 DEF SeenInv
<1> QED
  BY <1>2, <1>4, <1>5, <1>6, <1>7, <1>8

\* The start of an operation, and the marker of a commit.
LEMMA StampStartKeeps ==
    ASSUME StallInv, StampStart
    PROVE  StallInv'
<1> USE DEF StallInv
<1>1. /\ drain.at = "entering"
      /\ drain'.at = "busy" /\ drain'.blocked = drain.blocked /\ drain'.age = drain.age
      /\ drain'.next = drain.next
      /\ cell'.kind = cell.kind /\ cell'.age = 0
      /\ poll'.at = poll.at /\ poll'.since = poll.since /\ poll'.frozen = poll.frozen
      /\ poll'.torn = (poll.at \notin {"asleep", "done"})
      /\ stamps' = (IF drain.next = "commit" THEN [commit |-> 0, progress |-> 0] ELSE stamps)
      /\ moved' = moved /\ seen' = seen /\ board' = board
  BY DEF StampStart, Straddled, StallTypeOK, Drains, Polls, Cells
<1>2. StallTypeOK'
  BY DEF StampStart, Straddled, StallTypeOK, Drains, Polls, Cells, Stamps, MaybeAge
<1>3. ~drain.blocked /\ drain.age = 0 /\ stamps.commit = None /\ cell.kind # "none"
  BY <1>1 DEF GuardInv
<1>4. stamps'.commit # None => stamps'.commit = 0 /\ drain.next = "commit"
  BY <1>1, <1>3
<1>5. GuardInv'
  BY <1>1, <1>3, <1>4, NoneIsNoReading DEF GuardInv
<1>6. AgeInv' /\ BlockInv'
  BY <1>1, <1>3, <1>4, StallAssumption DEF AgeInv, BlockInv
<1>7. ReadInv'
  BY <1>1, <1>2 DEF ReadInv, InTransit, StallTypeOK, Polls
<1>8. BoardInv'
  BY <1>1 DEF BoardInv
<1>9. SeenInv'
  BY <1>1, <1>3 DEF SeenInv
<1> QED
  BY <1>2, <1>5, <1>6, <1>7, <1>8, <1>9

\* A commit that returns drops its marker and bumps the heartbeat.
LEMMA LeaveOpKeeps ==
    ASSUME StallInv, LeaveOp
    PROVE  StallInv'
<1> USE DEF StallInv
<1>1. /\ drain.at \in {"busy", "returning"} /\ ~drain.blocked
      /\ drain.outer \in {"none", "local"}
      /\ drain'.at = (IF drain.outer = "none" THEN "between" ELSE "busy")
      /\ ~drain'.blocked /\ drain'.age = 0 /\ drain'.next = "none"
      /\ cell'.kind = drain.outer
      /\ cell'.age = (IF drain.outer = "none" THEN None ELSE 0)
      /\ poll'.at = poll.at /\ poll'.since = poll.since /\ poll'.frozen = poll.frozen
      /\ poll'.torn = (poll.at \notin {"asleep", "done"})
      /\ stamps' = (IF drain.next = "commit" THEN [commit |-> None, progress |-> 0] ELSE stamps)
      /\ seen' = seen /\ board' = board
  BY DEF LeaveOp, Straddled, StallTypeOK, Drains, Polls
<1>2. StallTypeOK'
  BY DEF LeaveOp, Straddled, StallTypeOK, Drains, Polls, Cells, Stamps, MaybeAge
<1>3. stamps'.commit = None
  BY <1>1 DEF GuardInv
<1>4. GuardInv'
  BY <1>1, <1>3, NoneIsNoReading DEF GuardInv
<1>5. AgeInv' /\ BlockInv'
  BY <1>1, <1>3 DEF AgeInv, BlockInv
<1>6. ReadInv'
  BY <1>1, <1>2 DEF ReadInv, InTransit, StallTypeOK, Polls
<1>7. BoardInv'
  BY <1>1 DEF BoardInv
<1>8. SeenInv'
  BY <1>1 DEF SeenInv
<1> QED
  BY <1>2, <1>4, <1>5, <1>6, <1>7, <1>8

\* A call that blocks the thread.
LEMMA BlockKeeps ==
    ASSUME StallInv, Block
    PROVE  StallInv'
<1> USE DEF StallInv
<1>1. /\ ~drain.blocked
      /\ drain.at = "between" \/ (drain.at = "busy" /\ cell.kind = "sink")
      /\ drain'.at = drain.at /\ drain'.blocked /\ drain'.age = 0
      /\ drain'.next = drain.next
      /\ UNCHANGED <<cell, moved, stamps, poll, seen, board>>
  BY DEF Block, StallTypeOK, Drains
<1>2. StallTypeOK'
  BY DEF Block, StallTypeOK, Drains
<1>3. GuardInv'
  BY <1>1 DEF GuardInv
<1>4. AgeInv'
  BY <1>1 DEF AgeInv
<1>5. /\ cell.age \in Nat \/ cell.age = None
      /\ stamps.commit \in Nat \/ stamps.commit = None
      /\ stamps.progress \in Nat \/ stamps.progress = None
      /\ board.age \in Nat /\ drain.age \in Nat
  BY DEF StallTypeOK, Cells, Stamps, Boards, Drains, MaybeAge
<1>6. drain.at = "busy" => cell.age = drain.age /\ drain.age <= CommitTimeout
                           /\ (stamps.commit # None => stamps.commit = drain.age)
  BY <1>1 DEF AgeInv
<1>7. BlockInv'
  BY <1>1, <1>5, <1>6, StallAssumption DEF BlockInv, GuardInv
<1>8. ReadInv'
  BY <1>1 DEF ReadInv, InTransit
<1>9. BoardInv'
  BY <1>1 DEF BoardInv
<1>10. Longer \in Nat
  BY StallAssumption DEF Longer
<1>11. SeenInv'
  BY <1>1, <1>10 DEF SeenInv, WedgeGrace
<1> QED
  BY <1>2, <1>3, <1>4, <1>7, <1>8, <1>9, <1>11

\* The call returns in the end, late.
LEMMA UnblockKeeps ==
    ASSUME StallInv, Unblock
    PROVE  StallInv'
<1> USE DEF StallInv
<1>1. /\ drain.blocked
      /\ drain'.at = (IF drain.at = "busy" THEN "returning" ELSE drain.at)
      /\ ~drain'.blocked /\ drain'.age = 0 /\ drain'.next = drain.next
      /\ poll'.at = poll.at /\ poll'.since = poll.since /\ poll'.frozen = poll.frozen
      /\ poll'.torn = (poll.at \notin {"asleep", "done"})
      /\ UNCHANGED <<cell, moved, stamps, seen, board>>
  BY DEF Unblock, Straddled, StallTypeOK, Drains, Polls
<1>2. StallTypeOK'
  BY DEF Unblock, Straddled, StallTypeOK, Drains, Polls
<1>3. drain.at \in {"between", "busy"}
  BY <1>1 DEF BlockInv
<1>4. GuardInv'
  BY <1>1, <1>3 DEF GuardInv
<1>5. AgeInv'
  BY <1>1, <1>3 DEF AgeInv
<1>6. BlockInv'
  <2>1. /\ stamps.commit \in Nat \/ stamps.commit = None
        /\ board.age \in Nat /\ drain.age \in Nat
    BY DEF StallTypeOK, Stamps, Boards, Drains, MaybeAge
  <2>2. stamps.commit # None => stamps.commit <= CommitTimeout + drain.age
    BY <1>1 DEF BlockInv
  <2>3. board.excused \/ board.age >= drain.age
    BY <1>1 DEF BlockInv
  <2>4. stamps.commit # None =>
            board.excused \/ board.age > 1 \/ stamps.commit <= CommitTimeout + WedgeGrace
    BY <2>1, <2>2, <2>3, StallAssumption DEF WedgeGrace
  <2> QED
    BY <1>1, <2>4 DEF BlockInv
<1>7. ReadInv'
  BY <1>1, <1>2, <1>3 DEF ReadInv, InTransit, StallTypeOK, Polls
<1>8. BoardInv'
  BY <1>1, <1>3 DEF BoardInv
<1>9. SeenInv'
  BY <1>1, <1>3 DEF SeenInv
<1> QED
  BY <1>2, <1>4, <1>5, <1>6, <1>7, <1>8, <1>9

\* The supervisor gives up for good.
LEMMA GiveUpKeeps ==
    ASSUME StallInv, GiveUp
    PROVE  StallInv'
<1> USE DEF StallInv
<1>1. /\ drain.at \in {"between", "waiting"} /\ ~drain.blocked
      /\ drain'.at = "gone" /\ ~drain'.blocked /\ drain'.age = drain.age
      /\ drain'.next = drain.next
      /\ poll'.at = poll.at /\ poll'.since = poll.since /\ poll'.frozen = poll.frozen
      /\ poll'.torn = (poll.at \notin {"asleep", "done"})
      /\ UNCHANGED <<cell, moved, stamps, seen, board>>
  BY DEF GiveUp, Straddled, StallTypeOK, Drains, Polls
<1>2. StallTypeOK'
  BY DEF GiveUp, Straddled, StallTypeOK, Drains, Polls
<1>3. GuardInv'
  BY <1>1 DEF GuardInv
<1>4. AgeInv' /\ BlockInv'
  BY <1>1 DEF AgeInv, BlockInv
<1>5. ReadInv'
  BY <1>1, <1>2 DEF ReadInv, InTransit, StallTypeOK, Polls
<1>6. BoardInv'
  BY <1>1 DEF BoardInv
<1>7. SeenInv'
  BY <1>1 DEF SeenInv
<1> QED
  BY <1>2, <1>3, <1>4, <1>5, <1>6, <1>7

\* A tick starts: the busy signal's start is read.
LEMMA TickStartsKeeps ==
    ASSUME StallInv, TickStarts
    PROVE  StallInv'
<1> USE DEF StallInv
<1>1. /\ poll.at = "asleep"
      /\ poll'.at = "reading" /\ poll'.since = cell.age /\ poll'.frozen = poll.frozen
      /\ poll'.torn = InTransit
      /\ UNCHANGED <<drain, cell, moved, stamps, seen, board>>
  BY DEF TickStarts, StallTypeOK, Polls
<1>2. StallTypeOK'
  BY DEF TickStarts, StallTypeOK, Polls, Cells, InTransit
<1>3. GuardInv' /\ AgeInv' /\ BlockInv' /\ BoardInv'
  BY <1>1 DEF GuardInv, AgeInv, BlockInv, BoardInv
<1>4. ReadInv'
  BY <1>1, <1>2 DEF ReadInv, InTransit
<1>5. SeenInv'
  BY <1>1 DEF SeenInv
<1> QED
  BY <1>2, <1>3, <1>4, <1>5

\* What a blocked drain's frozen heartbeat is called.
LEMMA BlockedIsWedged ==
    ASSUME StallInv, drain.blocked, ~drain.hung, drain.age > Longer + WedgeGrace,
           poll.at = "reading"
    PROVE  classify_drain_stall(seen.frozen, drain.at = "gone", busy(poll.since)) = "wedged"
<1> USE DEF StallInv
<1>1. /\ drain.age \in Nat /\ seen.frozen \in Nat /\ HealthPoll \in Nat /\ CommitTimeout \in Nat
      /\ cell.age \in Nat \/ cell.age = None
  BY StallAssumption DEF StallTypeOK, Drains, Seens, Cells, MaybeAge
<1>2. drain.age > HealthPoll + 1 /\ drain.age > CommitTimeout + 1
  BY <1>1 DEF Longer, WedgeGrace
<1>3. seen.frozen >= drain.age - 1
  BY <1>1, <1>2 DEF SeenInv
<1>4. drain_heartbeat_looks_wedged(seen.frozen)
  BY <1>1, <1>2, <1>3 DEF drain_heartbeat_looks_wedged, WedgeGrace
<1>5. drain.at \in {"between", "busy"} /\ poll.since = cell.age
  BY <1>1, <1>2 DEF SeenInv, BlockInv
<1>6. CASE drain.at = "between"
  <2>1. busy(poll.since) = None
    BY <1>5, <1>6 DEF busy, GuardInv
  <2> QED
    BY <1>4, <1>6, <2>1 DEF classify_drain_stall
<1>7. CASE drain.at = "busy"
  <2>1. cell.kind = "sink" /\ cell.age >= drain.age /\ cell.age # None
    BY <1>7 DEF BlockInv, GuardInv
  <2> DEFINE b == [sink_call |-> TRUE, age |-> cell.age]
  <2>2. busy(poll.since) = b
    BY <1>5, <2>1 DEF busy
  <2>3. b # None
    <3>1. b \in Readings
      BY <1>1, <2>1 DEF Readings
    <3> QED
      BY <3>1, NoneIsNoReading
  <2>4. b.sink_call /\ ~(b.age <= CommitTimeout + WedgeGrace)
    BY <1>1, <1>2, <2>1 DEF WedgeGrace
  <2> HIDE DEF b
  <2> QED
    BY <1>4, <1>7, <2>2, <2>3, <2>4 DEF classify_drain_stall
<1> QED
  BY <1>5, <1>6, <1>7

\* A verdict is one of the five, and only of a drain that is gone is it "stopped".
LEMMA VerdictIs ==
    ASSUME NEW frozen, NEW stopped \in BOOLEAN, NEW b
    PROVE  /\ classify_drain_stall(frozen, stopped, b) \in Verdicts
           /\ classify_drain_stall(frozen, stopped, b) = "stopped" => stopped
<1>1. drain_heartbeat_looks_wedged(frozen) \in BOOLEAN
  BY DEF drain_heartbeat_looks_wedged
<1> QED
  BY <1>1 DEF classify_drain_stall, Verdicts

\* observe: the heartbeat moved, or the drain is called what it is.
LEMMA ObserveKeeps ==
    ASSUME StallInv, Observe
    PROVE  StallInv'
<1> USE DEF StallInv
<1> DEFINE v == classify_drain_stall(seen.frozen, drain.at = "gone", busy(poll.since))
<1>1. /\ poll.at = "reading"
      /\ poll'.at = "scanning" /\ poll'.torn = poll.torn
      /\ moved' = FALSE /\ UNCHANGED <<drain, cell, stamps, board>>
  BY DEF Observe, StallTypeOK, Polls
<1>2. v \in Verdicts /\ (v = "stopped" => drain.at = "gone")
  BY VerdictIs
<1>3. poll.frozen = 0
  BY <1>1 DEF ReadInv
<1>4. CASE moved \/ seen.first
  <2>0. /\ seen' = [seen EXCEPT !.first = FALSE, !.frozen = 0]
        /\ poll' = [poll EXCEPT !.at = "scanning", !.since = None]
    BY <1>4 DEF Observe
  <2>1. /\ ~seen'.first /\ seen'.frozen = 0 /\ seen'.logged = seen.logged
        /\ poll'.frozen = poll.frozen /\ seen' \in Seens /\ poll' \in Polls
    BY <2>0 DEF StallTypeOK, Seens, Polls, MaybeAge
  <2>2. StallTypeOK'
    BY <1>1, <2>1 DEF StallTypeOK
  <2>3. GuardInv' /\ AgeInv' /\ BlockInv' /\ BoardInv'
    BY <1>1 DEF GuardInv, AgeInv, BlockInv, BoardInv
  <2>4. ReadInv'
    BY <1>1, <1>3, <2>1 DEF ReadInv, InTransit
  <2>5. drain.blocked /\ ~drain.hung => drain.age < 2
    BY <1>4 DEF SeenInv, StallTypeOK, Drains
  <2>6. drain.age \in Nat /\ Longer \in Nat
    BY StallAssumption DEF StallTypeOK, Drains, Longer
  <2>7. SeenInv'
    BY <1>1, <2>1, <2>5, <2>6 DEF SeenInv, WedgeGrace
  <2> QED
    BY <2>2, <2>3, <2>4, <2>7
<1>5. CASE ~moved /\ ~seen.first
  <2> HIDE DEF v
  <2>0. /\ poll' = [poll EXCEPT !.at = "scanning", !.since = None,
                                !.frozen = seen.frozen, !.verdict = v]
        /\ seen' = (IF v # "none" /\ stall_log_is_due(v)
                    THEN [seen EXCEPT !.logged = v, !.logged_age = 0] ELSE seen)
    BY <1>5 DEF Observe, v
  <2>1. poll'.frozen = seen.frozen /\ poll' \in Polls
    BY <1>2, <2>0 DEF StallTypeOK, Seens, Polls, MaybeAge
  <2>2. /\ ~seen'.first /\ seen'.frozen = seen.frozen /\ seen' \in Seens
        /\ seen'.logged = IF v # "none" /\ stall_log_is_due(v) THEN v ELSE seen.logged
    BY <1>2, <1>5, <2>0 DEF StallTypeOK, Seens
  <2>3. StallTypeOK'
    BY <1>1, <2>1, <2>2 DEF StallTypeOK
  <2>4. GuardInv' /\ AgeInv' /\ BlockInv' /\ BoardInv'
    BY <1>1 DEF GuardInv, AgeInv, BlockInv, BoardInv
  <2>5. ReadInv'
    BY <1>1, <1>5, <2>1 DEF ReadInv, InTransit
  <2>6. ASSUME drain.blocked, ~drain.hung, drain.age > Longer + WedgeGrace
        PROVE  seen'.logged = "wedged"
    <3>1. v = "wedged"
      BY <1>1, <2>6, BlockedIsWedged DEF v
    <3>2. seen.logged # "stopped"
      BY <2>6 DEF SeenInv, BlockInv
    <3>3. seen.logged \in Verdicts
      BY DEF StallTypeOK, Seens
    <3>4. seen.logged = "wedged" \/ stall_log_is_due("wedged")
      BY <3>2, <3>3 DEF stall_log_is_due, severity, Verdicts
    <3> QED
      BY <2>2, <3>1, <3>4
  <2>7. seen'.logged = "stopped" => drain.at = "gone"
    BY <1>2, <2>2 DEF SeenInv
  <2>8. drain.age \in Nat /\ seen.frozen \in Nat
    BY DEF StallTypeOK, Drains, Seens
  <2>9. SeenInv'
    BY <1>1, <1>5, <2>1, <2>2, <2>6, <2>7, <2>8 DEF SeenInv
  <2> QED
    BY <2>3, <2>4, <2>5, <2>9
<1> QED
  BY <1>4, <1>5 DEF StallTypeOK

\* The scan ends and the busy signal is read once more.
LEMMA ScanEndsKeeps ==
    ASSUME StallInv, ScanEnds
    PROVE  StallInv'
<1> USE DEF StallInv
<1>1. /\ poll.at = "scanning"
      /\ poll'.at = "rereading" /\ poll'.since = cell.age /\ poll'.frozen = poll.frozen
      /\ poll'.torn = (poll.torn \/ InTransit)
      /\ UNCHANGED <<drain, cell, moved, stamps, seen, board>>
  BY DEF ScanEnds, StallTypeOK, Polls
<1>2. StallTypeOK'
  BY DEF ScanEnds, StallTypeOK, Polls, Cells, InTransit, Verdicts
<1>3. GuardInv' /\ AgeInv' /\ BlockInv' /\ BoardInv'
  BY <1>1 DEF GuardInv, AgeInv, BlockInv, BoardInv
<1>4. ReadInv'
  BY <1>1, <1>2 DEF ReadInv, InTransit
<1>5. SeenInv'
  BY <1>1 DEF SeenInv
<1> QED
  BY <1>2, <1>3, <1>4, <1>5

\* busy(): an operation with its age, or nothing.
LEMMA BusyReads ==
    ASSUME StallInv, poll.at = "rereading"
    PROVE  /\ busy(poll.since) \in Readings \cup {None}
           /\ busy(poll.since) # None =>
                 /\ busy(poll.since).age = poll.since
                 /\ busy(poll.since).sink_call <=> cell.kind = "sink"
           /\ cell.kind = "none" \/ poll.since = None <=> busy(poll.since) = None
           /\ cell.kind = "sink" /\ poll.since # None =>
                 busy(poll.since) = [sink_call |-> TRUE, age |-> poll.since]
<1>1. poll.since \in Nat \/ poll.since = None
  BY DEF StallInv, StallTypeOK, Polls, MaybeAge
<1>2. CASE poll.since = None \/ cell.kind = "none"
  BY <1>2 DEF busy
<1>3. CASE poll.since # None /\ cell.kind # "none"
  <2> DEFINE b == [sink_call |-> cell.kind = "sink", age |-> poll.since]
  <2>1. busy(poll.since) = b
    BY <1>3 DEF busy
  <2>2. b \in Readings /\ (b.sink_call <=> cell.kind = "sink") /\ b.age = poll.since
    BY <1>1, <1>3 DEF Readings
  <2>3. cell.kind = "sink" => b = [sink_call |-> TRUE, age |-> poll.since]
    OBVIOUS
  <2>4. b # None
    BY <2>2, NoneIsNoReading
  <2> HIDE DEF b
  <2> QED
    BY <1>3, <2>1, <2>2, <2>3, <2>4
<1> QED
  BY <1>2, <1>3

\* The readings go to the board.
LEMMA PublishKeeps ==
    ASSUME StallInv, Publish
    PROVE  StallInv'
<1> USE DEF StallInv
<1> DEFINE b == busy(poll.since)
<1>1. /\ poll.at = "rereading"
      /\ poll'.at = "done" /\ poll'.frozen = 0
      /\ board'.heartbeat = poll.frozen /\ board'.busy = b
      /\ board'.excused = (poll.torn \/ drain.blocked) /\ board'.age = 0
      /\ UNCHANGED <<drain, cell, moved, stamps, seen>>
  BY DEF Publish, StallTypeOK, Polls
<1>2. /\ b \in Readings \cup {None}
      /\ b # None => b.age = poll.since /\ (b.sink_call <=> cell.kind = "sink")
      /\ cell.kind = "none" \/ poll.since = None <=> b = None
      /\ cell.kind = "sink" /\ poll.since # None => b = [sink_call |-> TRUE, age |-> poll.since]
  BY <1>1, BusyReads
<1> HIDE DEF b
<1>3. /\ poll.frozen \in Nat /\ drain.age \in Nat /\ (cell.age \in Nat \/ cell.age = None)
      /\ CommitTimeout \in Nat
  BY StallAssumption DEF StallTypeOK, Polls, Drains, Cells, MaybeAge
<1>4. StallTypeOK'
  <2>1. board' = [heartbeat |-> poll.frozen, busy |-> b,
                  excused |-> poll.torn \/ drain.blocked, age |-> 0]
    BY DEF Publish, b
  <2>2. board' \in Boards
    BY <1>2, <1>3, <2>1 DEF Boards, MaybeAge, StallTypeOK, Polls, Drains
  <2>3. poll' \in Polls /\ poll'.verdict = "none"
    BY DEF Publish, StallTypeOK, Polls, MaybeAge
  <2> QED
    BY <1>1, <2>2, <2>3 DEF StallTypeOK
<1>5. GuardInv' /\ AgeInv'
  BY <1>1 DEF GuardInv, AgeInv
<1>6. drain.at = "returning" => poll.torn \/ drain.blocked
  BY <1>1 DEF ReadInv, InTransit
<1>7. BlockInv'
  BY <1>1, <1>6 DEF BlockInv
<1>8. ReadInv'
  BY <1>1 DEF ReadInv
<1>9. BoardInv'
  <2> SUFFICES ASSUME ~poll.torn, ~drain.blocked
               PROVE  /\ board'.heartbeat # None
                      /\ b # None => (b.sink_call => b.age <= CommitTimeout + 0)
                      /\ b = None => drain.at = "gone" \/ board'.heartbeat <= 0
    BY <1>1 DEF BoardInv
  <2>1. poll.since = cell.age /\ drain.at \in {"waiting", "busy", "gone"}
    BY <1>1 DEF ReadInv, InTransit, StallTypeOK, Drains
  <2>2. CASE drain.at \in {"waiting", "gone"}
    <3>1. b = None
      BY <1>2, <2>2 DEF GuardInv
    <3>2. drain.at = "waiting" => poll.frozen = 0
      BY <1>1 DEF ReadInv
    <3> QED
      BY <1>1, <1>3, <2>2, <3>1, <3>2, NoneIsNoReading
  <2>3. CASE drain.at = "busy"
    <3>1. cell.age = drain.age /\ (cell.kind = "sink" => drain.age <= CommitTimeout)
          /\ cell.kind # "none"
      BY <2>3 DEF AgeInv, GuardInv
    <3>2. poll.since # None
      BY <1>3, <2>1, <3>1, NoneIsNoReading
    <3>3. b # None
      BY <1>2, <3>1, <3>2
    <3> QED
      BY <1>1, <1>2, <1>3, <2>1, <3>1, <3>3, NoneIsNoReading
  <2> QED
    BY <2>1, <2>2, <2>3
<1>10. SeenInv'
  <2> SUFFICES ASSUME drain.blocked, ~drain.hung, drain.age >= 2
               PROVE  /\ board'.heartbeat # None /\ board'.heartbeat >= drain.age - 1
                      /\ drain.at = "busy" => b = [sink_call |-> TRUE, age |-> cell.age]
                      /\ drain.at = "between" => b = None
    BY <1>1 DEF SeenInv
  <2>1. poll.frozen >= drain.age - 1 /\ poll.since = cell.age
    BY <1>1, <1>3 DEF SeenInv
  <2>2. drain.at = "busy" => cell.kind = "sink" /\ cell.age # None
    BY DEF BlockInv, GuardInv
  <2>3. drain.at = "between" => cell.kind = "none"
    BY DEF GuardInv
  <2> QED
    BY <1>1, <1>2, <1>3, <2>1, <2>2, <2>3, NoneIsNoReading
<1> QED
  BY <1>4, <1>5, <1>7, <1>8, <1>9, <1>10

\* Ages grow by one at most, together, and never overtake one another.
LEMMA AgesGrow ==
    ASSUME NEW a \in MaybeAge
    PROVE  /\ Older(a) \in MaybeAge
           /\ Older(a) = None <=> a = None
           /\ a \in Nat => Older(a) \in Nat /\ Older(a) \in a .. a + 1
           /\ \A b \in Nat, c \in Nat :
                 a \in Nat /\ a <= c + b => Older(a) <= c + Older(b)
           /\ \A b \in Nat : a \in Nat /\ a >= b - 1 => Older(a) >= Older(b) - 1
           /\ \A b \in Nat : a \in Nat /\ a >= b => Older(a) >= Older(b)
<1>1. MaxAge \in Nat /\ None \notin Nat
  BY StallAssumption, NoneIsNoReading
<1> QED
  BY <1>1 DEF Older, MaybeAge

\* A tick of 5 s: every age grows, and the next tick of the poll is due.
LEMMA TickKeeps ==
    ASSUME StallInv, Tick
    PROVE  StallInv'
<1> USE DEF StallInv
<1>1. /\ ~InTransit
      /\ drain.at = "busy" /\ ~drain.blocked /\ cell.kind = "sink" => drain.age < CommitTimeout
      /\ poll.at \in {"scanning", "done"}
      /\ poll' = IF poll.at = "done" THEN [poll EXCEPT !.at = "asleep"] ELSE poll
      /\ moved' = (moved \/ drain.at = "waiting")
  BY DEF Tick
<1>2. /\ drain.age \in Nat /\ cell.age \in MaybeAge
      /\ stamps.commit \in MaybeAge /\ stamps.progress \in MaybeAge
      /\ seen.frozen \in Nat /\ seen.logged_age \in Nat
      /\ board.heartbeat \in MaybeAge /\ board.age \in Nat /\ board.busy \in Readings \cup {None}
      /\ drain.age \in MaybeAge /\ seen.frozen \in MaybeAge /\ board.age \in MaybeAge
      /\ CommitTimeout \in Nat /\ Longer \in Nat /\ None \notin Nat
  BY StallAssumption, NoneIsNoReading
     DEF StallTypeOK, Drains, Cells, Stamps, Seens, Boards, MaybeAge, Longer
<1>3. /\ drain'.at = drain.at /\ drain'.next = drain.next /\ drain'.blocked = drain.blocked
      /\ drain'.age = (IF drain.at = "busy" \/ drain.blocked THEN Older(drain.age) ELSE 0)
      /\ drain'.hung = (drain.blocked /\ (drain.hung \/ poll.at = "scanning"))
  BY DEF Tick, StallTypeOK, Drains
<1>4. cell'.kind = cell.kind /\ cell'.age = Older(cell.age)
  BY DEF Tick, StallTypeOK, Cells
<1>5. stamps'.commit = Older(stamps.commit) /\ stamps'.progress = Older(stamps.progress)
  BY DEF Tick
<1>6. seen'.first = seen.first /\ seen'.frozen = Older(seen.frozen)
      /\ seen'.logged = seen.logged
  BY DEF Tick, StallTypeOK, Seens
<1>7. /\ board'.heartbeat = Older(board.heartbeat) /\ board'.age = Older(board.age)
      /\ board'.excused = board.excused
      /\ board'.busy = OlderReading(board.busy)
  BY DEF Tick, StallTypeOK, Boards
<1>8. StallTypeOK'
  <2>1. drain' \in Drains
    BY <1>2, AgesGrow DEF Tick, StallTypeOK, Drains
  <2>2. cell' \in Cells /\ stamps' \in Stamps
    <3>1. /\ Older(cell.age) \in MaybeAge
          /\ Older(stamps.commit) \in MaybeAge /\ Older(stamps.progress) \in MaybeAge
      BY <1>2, AgesGrow
    <3>2. cell' = [cell EXCEPT !.age = Older(cell.age)]
          /\ stamps' = [commit |-> Older(stamps.commit), progress |-> Older(stamps.progress)]
      BY DEF Tick
    <3> QED
      BY <3>1, <3>2 DEF StallTypeOK, Cells, Stamps
  <2>3. seen' \in Seens
    <3> DEFINE n == IF seen.logged_age < GrowthWarnInterval THEN seen.logged_age + 1
                    ELSE seen.logged_age
    <3>1. Older(seen.frozen) \in Nat /\ n \in Nat
      BY <1>2, AgesGrow, StallAssumption
    <3>2. seen' = [seen EXCEPT !.frozen = Older(seen.frozen), !.logged_age = n]
      BY DEF Tick
    <3> HIDE DEF n
    <3> QED
      BY <3>1, <3>2 DEF StallTypeOK, Seens
  <2>4. poll' \in Polls
    <3>1. poll' = poll \/ poll' = [poll EXCEPT !.at = "asleep"]
      BY <1>1
    <3> QED
      BY <3>1 DEF StallTypeOK, Polls
  <2>5. board'.busy \in Readings \cup {None}
    <3>1. CASE board.busy = None
      BY <1>7, <3>1 DEF OlderReading
    <3>2. CASE board.busy # None
      <4>1. board.busy.sink_call \in BOOLEAN /\ board.busy.age \in Nat
        BY <1>2, <3>2 DEF Readings
      <4>2. Older(board.busy.age) \in Nat
        BY <4>1, AgesGrow DEF MaybeAge
      <4> QED
        BY <1>7, <3>2, <4>1, <4>2 DEF OlderReading, Readings
    <3> QED
      BY <3>1, <3>2
  <2>6. board' \in Boards
    BY <1>2, <1>7, <2>5, AgesGrow DEF Tick, StallTypeOK, Boards
  <2> QED
    BY <1>1, <2>1, <2>2, <2>3, <2>4, <2>6 DEF StallTypeOK
<1>9. GuardInv'
  BY <1>1, <1>2, <1>3, <1>4, <1>5, AgesGrow DEF GuardInv, InTransit
<1>10. AgeInv'
  BY <1>1, <1>2, <1>3, <1>4, <1>5, AgesGrow DEF AgeInv, MaybeAge
<1>11. BlockInv'
  <2>1. CASE drain.blocked
    <3>1. /\ drain.at = "busy" => cell.age >= drain.age /\ cell.age \in Nat
          /\ stamps.commit # None => stamps.commit \in Nat
                /\ drain.age <= stamps.commit /\ stamps.commit <= CommitTimeout + drain.age
          /\ stamps.progress # None => stamps.progress \in Nat /\ stamps.progress >= drain.age
          /\ board.excused \/ board.age >= drain.age
      BY <1>2, <2>1 DEF BlockInv, GuardInv, MaybeAge
    <3>2. drain.at = "busy" => Older(cell.age) >= Older(drain.age)
      BY <1>2, <3>1, AgesGrow
    <3>3. stamps.commit # None => /\ Older(stamps.commit) \in Nat
                                  /\ Older(drain.age) <= Older(stamps.commit)
                                  /\ Older(stamps.commit) <= CommitTimeout + Older(drain.age)
      BY <1>2, <3>1, AgesGrow
    <3>4. stamps.progress # None => Older(stamps.progress) >= Older(drain.age)
      BY <1>2, <3>1, AgesGrow
    <3>5. board.excused \/ Older(board.age) >= Older(drain.age)
      BY <1>2, <3>1, AgesGrow
    <3>6. Older(drain.age) \in Nat /\ drain.at # "returning"
      BY <1>2, <2>1, AgesGrow DEF BlockInv
    <3> QED
      BY <1>2, <1>3, <1>4, <1>5, <1>7, <2>1, <3>2, <3>3, <3>4, <3>5, <3>6, AgesGrow DEF BlockInv
  <2>2. CASE ~drain.blocked
    BY <1>1, <1>3, <2>2 DEF BlockInv, InTransit
  <2> QED
    BY <2>1, <2>2 DEF StallTypeOK, Drains
<1>12. ReadInv'
  <2>1. /\ poll'.at = (IF poll.at = "done" THEN "asleep" ELSE "scanning")
        /\ poll'.torn = poll.torn /\ poll'.frozen = poll.frozen
    BY <1>1 DEF StallTypeOK, Polls
  <2>2. poll.at \in {"scanning", "done"} /\ (drain.at = "waiting" => moved')
    BY <1>1
  <2> QED
    BY <1>3, <2>1, <2>2 DEF ReadInv, InTransit
<1>13. BoardInv'
  <2> SUFFICES ASSUME ~board.excused
               PROVE  /\ board'.heartbeat # None
                      /\ board'.busy # None =>
                            (board'.busy.sink_call => board'.busy.age <= CommitTimeout + board'.age)
                      /\ board'.busy = None => drain.at = "gone" \/ board'.heartbeat <= board'.age
    BY <1>3, <1>7 DEF BoardInv
  <2>1. board.heartbeat \in Nat
    BY <1>2 DEF BoardInv, MaybeAge
  <2>2. board'.heartbeat # None
    BY <1>2, <1>7, <2>1, AgesGrow
  <2>3. CASE board.busy = None
    <3>1. drain.at = "gone" \/ board.heartbeat <= board.age
      BY <2>3 DEF BoardInv
    <3>2. board.heartbeat <= board.age => Older(board.heartbeat) <= Older(board.age)
      BY <1>2, <2>1, AgesGrow
    <3> QED
      BY <1>7, <2>2, <2>3, <3>1, <3>2 DEF OlderReading
  <2>4. CASE board.busy # None
    <3>1. board.busy \in Readings /\ board.busy.age \in Nat /\ board.busy.age \in MaybeAge
      BY <1>2, <2>4 DEF Readings, MaybeAge
    <3>2. board'.busy.sink_call = board.busy.sink_call
          /\ board'.busy.age = Older(board.busy.age) /\ board'.busy \in Readings
      BY <1>7, <2>4, <3>1, AgesGrow DEF OlderReading, Readings
    <3>3. board'.busy # None
      BY <3>2, NoneIsNoReading
    <3>4. board.busy.sink_call => board.busy.age <= CommitTimeout + board.age
      BY <2>4 DEF BoardInv
    <3>5. board.busy.sink_call => Older(board.busy.age) <= CommitTimeout + Older(board.age)
      BY <1>2, <3>1, <3>4, AgesGrow
    <3> QED
      BY <1>7, <2>2, <3>2, <3>3, <3>5
  <2> QED
    BY <2>3, <2>4
<1>14. SeenInv'
  <2>1. poll'.at = (IF poll.at = "done" THEN "asleep" ELSE "scanning")
    BY <1>1 DEF StallTypeOK, Polls
  <2>2. seen'.logged = "stopped" => drain'.at = "gone"
    BY <1>3, <1>6 DEF SeenInv
  <2>3. drain'.blocked /\ ~drain'.hung =>
            drain.blocked /\ ~drain.hung /\ poll.at = "done" /\ poll'.at = "asleep"
    BY <1>1, <1>3, <2>1
  <2>4. poll'.at \in {"asleep", "scanning"}
    BY <2>1
  <2> SUFFICES ASSUME drain.blocked, ~drain.hung, poll.at = "done", drain'.age >= 2
               PROVE  ~moved' /\ ~seen'.first /\ seen'.frozen >= drain'.age - 1
    BY <2>2, <2>3, <2>4 DEF SeenInv
  <2>5. drain'.age = Older(drain.age) /\ drain.age >= 1 /\ drain.at # "waiting"
    BY <1>2, <1>3, AgesGrow DEF BlockInv
  <2>6. ~moved /\ ~seen.first /\ seen.frozen >= drain.age - 1
    BY <1>2, <2>5 DEF SeenInv
  <2>7. Older(seen.frozen) >= Older(drain.age) - 1
    BY <1>2, <2>6, AgesGrow
  <2> QED
    BY <1>1, <1>6, <2>5, <2>6, <2>7
<1> QED
  BY <1>8, <1>9, <1>10, <1>11, <1>12, <1>13, <1>14

\* StallInv is kept by every step.
LEMMA StallStep ==
    ASSUME StallInv, [StallNext]_stallVars
    PROVE  StallInv'
<1>1. CASE UNCHANGED stallVars
  BY <1>1 DEF stallVars, StallInv, StallTypeOK, GuardInv, AgeInv, BlockInv, ReadInv, BoardInv,
     SeenInv, InTransit
<1>2. CASE StallNext
  BY <1>2, WaitSliceKeeps, EnterOpKeeps, StampStartKeeps, LeaveOpKeeps, BlockKeeps, UnblockKeeps,
     GiveUpKeeps, TickStartsKeeps, ObserveKeeps, ScanEndsKeeps, PublishKeeps, TickKeeps
     DEF StallNext
<1> QED
  BY <1>1, <1>2

\* The invariant of the drain's liveness evidence holds in every behaviour.
THEOREM StallInvariance == StallSpec => []StallInv
<1>1. StallInit => StallInv
  <2> SUFFICES ASSUME StallInit PROVE StallInv
    OBVIOUS
  <2>1. StallTypeOK
    BY DEF StallInit, StallTypeOK, Drains, Cells, Stamps, Polls, Seens, Boards, MaybeAge,
       Readings, Verdicts
  <2>2. GuardInv /\ AgeInv /\ BlockInv
    BY DEF StallInit, GuardInv, AgeInv, BlockInv
  <2>3. ReadInv /\ BoardInv /\ SeenInv
    BY DEF StallInit, ReadInv, BoardInv, SeenInv
  <2> QED
    BY <2>1, <2>2, <2>3 DEF StallInv
<1> QED
  BY <1>1, StallStep, PTL DEF StallSpec

\* status/poll.rs: a verdict read in a tick that nothing straddles is true.
LEMMA VerdictIsReal ==
    ASSUME StallInv, [StallNext]_stallVars, poll.at = "reading", poll'.at = "scanning",
           poll'.verdict = "wedged"
    PROVE  poll.torn \/ drain.blocked
<1> USE DEF StallInv
<1> SUFFICES ASSUME ~poll.torn, ~drain.blocked
             PROVE  FALSE
  OBVIOUS
<1> DEFINE v == classify_drain_stall(seen.frozen, drain.at = "gone", busy(poll.since))
<1>1. Observe
  BY DEF StallNext, stallVars, WaitSlice, EnterOp, StampStart, LeaveOp, Block, Unblock, GiveUp,
     TickStarts, ScanEnds, Publish, Tick, Straddled, StallTypeOK, Polls
<1>2. ~moved /\ ~seen.first /\ v = "wedged"
  BY <1>1 DEF Observe, StallTypeOK, Polls
<1>3. poll.since = cell.age /\ drain.at \in {"waiting", "busy", "gone"}
  BY DEF ReadInv, InTransit, StallTypeOK, Drains
<1>4. drain.at # "waiting"
  BY <1>2 DEF ReadInv
<1>5. drain.at # "gone"
  BY <1>2 DEF classify_drain_stall
<1>6. drain.at = "busy"
  BY <1>3, <1>4, <1>5
<1>7. /\ cell.age = drain.age /\ (cell.kind = "sink" => drain.age <= CommitTimeout)
      /\ cell.kind # "none" /\ drain.age \in Nat /\ CommitTimeout \in Nat
      /\ cell.kind \in {"sink", "local"}
  BY <1>6, StallAssumption DEF AgeInv, GuardInv, StallTypeOK, Drains, Cells
<1> DEFINE b == [sink_call |-> cell.kind = "sink", age |-> cell.age]
<1>8. busy(poll.since) = b /\ b # None
  <2>1. cell.age # None
    BY <1>6 DEF GuardInv
  <2>2. b \in Readings
    BY <1>7 DEF Readings
  <2> QED
    BY <1>3, <1>7, <2>1, <2>2, NoneIsNoReading DEF busy
<1>9. b.sink_call <=> cell.kind = "sink"
  OBVIOUS
<1>10. b.age = cell.age
  OBVIOUS
<1> HIDE DEF b
<1>11. b.sink_call => b.age <= CommitTimeout + WedgeGrace
  BY <1>7, <1>9, <1>10 DEF WedgeGrace
<1> QED
  BY <1>2, <1>6, <1>8, <1>11 DEF classify_drain_stall

\* The latest sign of progress is the younger of the ages that are known.
LEMMA LatestIsKnown ==
    ASSUME NEW p, p \in Nat \/ p = None, NEW h \in Nat
    PROVE  \E a \in {p, h} \ {None} : \A b \in {p, h} \ {None} : a <= b
<1>1. h \in {p, h} \ {None}
  BY NoneIsNoReading
<1>2. CASE p = None
  <2>1. \A b \in {p, h} \ {None} : b = h
    BY <1>2
  <2> QED
    BY <1>1, <2>1
<1>3. CASE p \in Nat /\ p <= h
  <2>1. p \in {p, h} \ {None}
    BY <1>3, NoneIsNoReading
  <2>2. \A b \in {p, h} \ {None} : p <= b
    BY <1>3
  <2> QED
    BY <2>1, <2>2
<1>4. CASE p \in Nat /\ h <= p
  <2>1. \A b \in {p, h} \ {None} : h <= b
    BY <1>4
  <2> QED
    BY <1>1, <2>1
<1> QED
  BY <1>2, <1>3, <1>4

\* rules.rs drain_wedged: the same of the condition, whenever it is evaluated.
LEMMA ConditionIsReal ==
    ASSUME StallInv, WedgedNow, ~drain.blocked, ~board.excused, ~(board.age > 1)
    PROVE  FALSE
<1> USE DEF StallInv
<1> DEFINE e == StallEvidence
           progress == e.drain.progress
           known == {stamps.progress, board.heartbeat} \ {None}
<1>1. /\ e.drain.exit = (IF drain.at = "gone" THEN "gave_up" ELSE "running")
      /\ e.drain.commit = stamps.commit /\ e.drain.busy = board.busy
      /\ e.config.commit_timeout = CommitTimeout /\ e.config.health_poll = HealthPoll
      /\ progress = IF known = {} THEN None ELSE CHOOSE a \in known : \A b \in known : a <= b
  BY DEF StallEvidence
<1>2. drain_wedged(e) = Active
  BY DEF WedgedNow
<1>3. /\ CommitTimeout \in Nat /\ HealthPoll \in Nat /\ board.age \in Nat
      /\ HealthPoll + WedgeGrace > 1 /\ WedgeGrace = 1
      /\ stamps.commit \in Nat \/ stamps.commit = None
      /\ stamps.progress \in Nat \/ stamps.progress = None
      /\ board.heartbeat \in Nat /\ board.heartbeat # None
  BY StallAssumption DEF StallTypeOK, Boards, Stamps, MaybeAge, BoardInv, WedgeGrace
<1> HIDE DEF e
<1>4. drain.at # "gone"
  BY <1>1, <1>2 DEF drain_wedged, Active, Inactive, Unevaluated
<1>5. stamps.commit = None
  <2> SUFFICES ASSUME stamps.commit # None PROVE FALSE
    OBVIOUS
  <2>1. stamps.commit > CommitTimeout + WedgeGrace
    BY <1>1, <1>2, <1>4 DEF drain_wedged, Needs, Fires, Active, Inactive, Unevaluated
  <2>2. drain.at \in {"busy", "returning"}
    BY DEF GuardInv
  <2>3. drain.age \in Nat
    BY DEF StallTypeOK, Drains
  <2> QED
    BY <1>3, <2>1, <2>2, <2>3 DEF AgeInv, BlockInv, GuardInv
<1>6. board.busy = None
  <2> SUFFICES ASSUME board.busy # None PROVE FALSE
    OBVIOUS
  <2>1. board.busy.sink_call /\ board.busy.age > CommitTimeout + WedgeGrace
    BY <1>1, <1>2, <1>4, <1>5 DEF drain_wedged, Needs, Fires, Active, Inactive, Unevaluated
  <2>2. board.busy.age \in Nat /\ board.busy.age <= CommitTimeout + board.age
    BY <2>1 DEF BoardInv, StallTypeOK, Boards, Readings
  <2> QED
    BY <1>3, <2>1, <2>2
<1>7. progress # None /\ progress >= HealthPoll + WedgeGrace
  BY <1>1, <1>2, <1>4, <1>5, <1>6 DEF drain_wedged, Needs, Fires, Active, Inactive, Unevaluated
<1>8. \E a \in known : \A b \in known : a <= b
  BY <1>3, LatestIsKnown
<1>9. progress \in known /\ \A b \in known : progress <= b
  BY <1>1, <1>3, <1>8
<1>10. progress <= board.heartbeat /\ progress \in Nat
  BY <1>3, <1>9
<1>11. board.heartbeat <= board.age
  BY <1>4, <1>6 DEF BoardInv
<1> QED
  BY <1>3, <1>7, <1>10, <1>11

\* rules.rs drain_wedged, poll.rs stall_log_is_due: a block is named in time.
LEMMA BlockIsNamed ==
    ASSUME StallInv
    PROVE  WedgeIsNamed
<1> USE DEF StallInv
<1> SUFFICES ASSUME drain.blocked, ~drain.hung, poll.at = "done", drain.age > Longer + WedgeGrace
             PROVE  seen.logged = "wedged" /\ WedgedNow
  BY DEF WedgeIsNamed, Longer
<1> DEFINE e == StallEvidence
           progress == e.drain.progress
           known == {stamps.progress, board.heartbeat} \ {None}
<1>1. /\ e.drain.exit = (IF drain.at = "gone" THEN "gave_up" ELSE "running")
      /\ e.drain.commit = stamps.commit /\ e.drain.busy = board.busy
      /\ e.config.commit_timeout = CommitTimeout /\ e.config.health_poll = HealthPoll
      /\ progress = IF known = {} THEN None ELSE CHOOSE a \in known : \A b \in known : a <= b
  BY DEF StallEvidence
<1>2. /\ CommitTimeout \in Nat /\ HealthPoll \in Nat /\ drain.age \in Nat /\ WedgeGrace = 1
      /\ None \notin Nat
      /\ cell.age \in Nat \/ cell.age = None
      /\ stamps.commit \in Nat \/ stamps.commit = None
      /\ stamps.progress \in Nat \/ stamps.progress = None
      /\ board.heartbeat \in Nat \/ board.heartbeat = None
  BY StallAssumption, NoneIsNoReading
     DEF StallTypeOK, Drains, Cells, Boards, Stamps, MaybeAge, WedgeGrace
<1>3. drain.age > HealthPoll + 1 /\ drain.age > CommitTimeout + 1
  BY <1>2 DEF Longer
<1>4. seen.logged = "wedged"
  BY DEF SeenInv
<1>5. /\ board.heartbeat # None /\ board.heartbeat >= drain.age - 1
      /\ drain.at = "busy" => board.busy = [sink_call |-> TRUE, age |-> cell.age]
      /\ drain.at = "between" => board.busy = None
  BY <1>2, <1>3 DEF SeenInv
<1>6. drain.at \in {"between", "busy"}
  BY DEF BlockInv
<1>7. e.drain # None /\ e.config # None
  <2>1. progress \in MaybeAge
    <3>1. \E a \in known : \A b \in known : a <= b
      BY <1>2, <1>5, LatestIsKnown
    <3> QED
      BY <1>1, <1>2, <3>1 DEF MaybeAge
  <2>2. e.drain = [exit |-> "running", commit |-> stamps.commit, busy |-> board.busy,
                   progress |-> progress]
    BY <1>6 DEF StallEvidence
  <2>3. e.config = [commit_timeout |-> CommitTimeout, health_poll |-> HealthPoll]
    BY DEF StallEvidence
  <2>4. board.busy \in Readings \cup {None} /\ stamps.commit \in MaybeAge
    BY DEF StallTypeOK, Boards, Stamps
  <2> HIDE DEF e
  <2>5. e.drain \in [exit : {"running", "gave_up"}, commit : MaybeAge,
                     busy : Readings \cup {None}, progress : MaybeAge]
    BY <2>1, <2>2, <2>4
  <2>6. e.config \in [commit_timeout : Nat, health_poll : Nat]
    BY <1>2, <2>3
  <2> QED
    BY <2>5, <2>6, NoneIsNoReading
<1> HIDE DEF e
<1>8. CASE stamps.commit # None
  <2>1. stamps.commit > CommitTimeout + WedgeGrace
    BY <1>2, <1>3, <1>8 DEF BlockInv
  <2> QED
    BY <1>1, <1>2, <1>4, <1>6, <1>7, <1>8, <2>1 DEF WedgedNow, e, drain_wedged, Needs, Fires
<1>9. CASE stamps.commit = None /\ drain.at = "busy"
  <2>1. cell.age \in Nat /\ cell.age >= drain.age
    BY <1>2, <1>9 DEF BlockInv, GuardInv
  <2>2. board.busy.sink_call /\ board.busy.age > CommitTimeout + WedgeGrace
    BY <1>2, <1>3, <1>5, <1>9, <2>1
  <2>3. board.busy # None
    <3>1. [sink_call |-> TRUE, age |-> cell.age] \in Readings
      BY <2>1 DEF Readings
    <3>2. board.busy \in Readings
      BY <1>5, <1>9, <3>1
    <3> QED
      BY <3>2, NoneIsNoReading
  <2> QED
    BY <1>1, <1>2, <1>4, <1>7, <1>9, <2>2, <2>3 DEF WedgedNow, e, drain_wedged, Needs, Fires
<1>10. CASE stamps.commit = None /\ drain.at = "between"
  <2>1. \E a \in known : \A b \in known : a <= b
    BY <1>2, <1>5, LatestIsKnown
  <2>2. progress \in known
    BY <1>1, <1>2, <1>5, <2>1
  <2>3. stamps.progress # None => stamps.progress >= drain.age
    BY DEF BlockInv
  <2>4. progress \in Nat /\ progress >= HealthPoll + WedgeGrace
    BY <1>2, <1>3, <1>5, <2>2, <2>3
  <2> QED
    BY <1>1, <1>2, <1>4, <1>5, <1>7, <1>10, <2>4 DEF WedgedNow, e, drain_wedged, Needs, Fires
<1> QED
  BY <1>6, <1>8, <1>9, <1>10

\* WedgeIsTrue (status/poll.rs, drain/mod.rs BusyGuard, rules.rs drain_wedged): for
\* every interval, timeout and interleaving of the drain with the readings of a tick,
\* nothing but a blocked drain is called wedged, and a blocked drain is called so in
\* time, by the log line and by the condition.
THEOREM WedgesAreTrue == StallSpec => WedgeIsTrue
<1>1. ASSUME StallInv, [StallNext]_stallVars
      PROVE  [poll.at = "reading" /\ poll'.at = "scanning" /\ poll'.verdict = "wedged"
                 => poll.torn \/ drain.blocked]_stallVars
  BY <1>1, VerdictIsReal
<1>2. StallInv => (WedgedNow => drain.blocked \/ board.excused \/ board.age > 1)
  BY ConditionIsReal
<1>3. StallInv => WedgeIsNamed
  BY BlockIsNamed
<1> QED
  BY <1>1, <1>2, <1>3, StallInvariance, PTL DEF StallSpec, WedgeIsTrue, WedgeIsReal
=============================================================================
