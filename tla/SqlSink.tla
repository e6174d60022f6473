------------------------------ MODULE SqlSink ------------------------------
(***************************************************************************)
(* One batch at the Postgres or MySQL sink (weir-server/src/sink/           *)
(* sql_common.rs insert_with_dup_fallback, postgres.rs, mysql.rs): a        *)
(* multi-row INSERT, and in insert_mode=plain the way back from a duplicate *)
(* key through an id lookup and a bisection.  The drain sends the batch     *)
(* again after a transient error, and a restart after anything.             *)
(*                                                                         *)
(* A statement is atomic.  One that timed out may have been applied, not at *)
(* all, or be applied later.                                                *)
(***************************************************************************)
EXTENDS Integers, Sequences, FiniteSets

CONSTANTS
    BatchRows,      \* rows of the batch
    MaxAttempts     \* bound: how often the batch is sent

ASSUME SqlBounds == BatchRows \in Nat \ {0} /\ MaxAttempts \in Nat

VARIABLES
    sql,       \* [mode, id_column, unique, poison, twins]: configuration and batch
    stmt,      \* [at, stack, committed, dead, lookup]: where the commit stands
    table,     \* row -> how often it is in the table
    late,      \* rows of a timed-out INSERT that the server still works on
    attempts   \* how often the batch was sent

sqlVars == <<sql, stmt, table, late, attempts>>

Batch == 1 .. BatchRows

\* twins: the first two records of the batch have the same payload.
Config == [mode : {"on_conflict", "plain"}, id_column : BOOLEAN,
           unique : {"none", "id", "payload"}, poison : SUBSET {BatchRows}, twins : BOOLEAN]

\* A commit that has done nothing but get to this place.
Stmt(at) == [at |-> at, stack |-> <<>>, committed |-> {}, dead |-> {}, lookup |-> "none"]
NoStmt == Stmt("none")

SqlRests ==
    /\ sql = [mode |-> "plain", id_column |-> FALSE, unique |-> "none", poison |-> {},
              twins |-> FALSE]
    /\ stmt = NoStmt /\ table = [r \in Batch |-> 0] /\ late = {} /\ attempts = MaxAttempts

\* A unique id needs an id column.
SqlInit ==
    /\ sql \in {c \in Config : c.unique = "id" => c.id_column}
    /\ stmt = NoStmt
    /\ table = [r \in Batch |-> 0]
    /\ late = {}
    /\ attempts = 0

-----------------------------------------------------------------------------
(* The database *)

\* The unique constraint sees the two rows as one.
SameKey(r, s) == \/ sql.unique = "id" /\ r = s
                 \/ sql.unique = "payload" /\ (r = s \/ (sql.twins /\ {r, s} = {1, 2}))

Clashes(r) == \E s \in Batch : table[s] > 0 /\ SameKey(r, s)
Duplicates(rows) == \/ \E r \in rows : Clashes(r)
                    \/ \E r, s \in rows : r # s /\ SameKey(r, s)

\* ON CONFLICT DO NOTHING keeps the first of two equal rows of a statement.
Inserted(rows) ==
    IF sql.mode = "plain" THEN rows
    ELSE {r \in rows : ~Clashes(r) /\ \A s \in rows : s < r => ~SameKey(r, s)}
Adds(rows) == [r \in Batch |-> table[r] + (IF r \in rows THEN 1 ELSE 0)]

\* What the server answers when it gets to the statement.
StmtVerdict(rows) ==
    IF rows \cap sql.poison # {} THEN "permanent"
    ELSE IF sql.mode = "plain" /\ Duplicates(rows) THEN "dup_key"
    ELSE "ok"

Applies(rows) == table' = IF StmtVerdict(rows) = "ok" THEN Adds(Inserted(rows)) ELSE table

\* A transient error, a lost connection, the deadline: the commit ends, and the
\* statement was applied, was not, or will be.
Interrupted(rows) ==
    /\ stmt' = Stmt("transient")
    /\ \/ Applies(rows) /\ UNCHANGED late
       \/ UNCHANGED <<table, late>>
       \/ late' = late \cup rows /\ UNCHANGED table

-----------------------------------------------------------------------------
(* The commit *)

\* One id per record where an id column is configured: the record's number.
per_record_id_hex == IF sql.id_column THEN [r \in Batch |-> r] ELSE <<>>

\* The drain sends the batch: the first time, after a transient error, and
\* after a restart that did not find the confirmation of an earlier success.
SendBatch ==
    /\ attempts < MaxAttempts
    /\ stmt.at \in {"none", "transient", "done"}
    /\ stmt' = Stmt("first")
    /\ attempts' = attempts + 1
    /\ UNCHANGED <<sql, table, late>>

\* The pool has no connection for a statement: nothing is sent, the commit ends.
NoConnection ==
    /\ stmt.at \in {"first", "lookup", "remainder"} \/ (stmt.at = "bisect" /\ stmt.stack # <<>>)
    /\ stmt' = Stmt("transient")
    /\ UNCHANGED <<sql, table, late, attempts>>

Done(committed, dead) ==
    stmt' = [stmt EXCEPT !.at = "done", !.stack = <<>>, !.committed = committed,
                         !.dead = dead]

\* The single INSERT: a permanent error dead-letters the batch, a duplicate key
\* looks the ids up or bisects.
FirstInsert ==
    /\ stmt.at = "first"
    /\ \/ /\ StmtVerdict(Batch) = "ok" /\ Done(Batch, {})
          /\ Applies(Batch) /\ UNCHANGED late
       \/ /\ StmtVerdict(Batch) = "permanent" /\ Done({}, Batch)
          /\ UNCHANGED <<table, late>>
       \/ /\ StmtVerdict(Batch) = "dup_key"
          /\ stmt' = IF per_record_id_hex # <<>> THEN [stmt EXCEPT !.at = "lookup"]
                     ELSE [stmt EXCEPT !.at = "failed", !.stack = <<Batch>>]
          /\ UNCHANGED <<table, late>>
       \/ Interrupted(Batch)
    /\ UNCHANGED <<sql, attempts>>

\* Mutant: the ids that were found stay in what is inserted again.
LookupPresentWhole ==
    /\ stmt.at = "lookup"
    /\ LET present == {r \in Batch : table[r] > 0} IN
       \/ stmt' = IF present = Batch THEN [stmt EXCEPT !.at = "done", !.committed = Batch]
                  ELSE [stmt EXCEPT !.at = "remainder", !.committed = present,
                                    !.stack = <<Batch>>]
       \/ stmt' = [stmt EXCEPT !.at = "failed", !.lookup = "failed", !.stack = <<Batch>>]
       \/ stmt' = Stmt("transient")
    /\ UNCHANGED <<sql, table, late, attempts>>

\* Ids that are present are committed; a lookup that fails for good leaves the
\* whole batch to the bisection.
LookupPresent ==
    /\ stmt.at = "lookup"
    /\ LET present == {r \in Batch : table[r] > 0} IN
       \/ stmt' = IF present = Batch THEN [stmt EXCEPT !.at = "done", !.committed = Batch]
                  ELSE [stmt EXCEPT !.at = "remainder", !.committed = present,
                                    !.stack = <<Batch \ present>>]
       \/ stmt' = [stmt EXCEPT !.at = "failed", !.lookup = "failed", !.stack = <<Batch>>]
       \/ stmt' = Stmt("transient")
    /\ UNCHANGED <<sql, table, late, attempts>>

Rest == Head(stmt.stack)

\* The rest in one statement; if that fails too it is taken apart.
InsertRemainder ==
    /\ stmt.at = "remainder"
    /\ \/ /\ StmtVerdict(Rest) = "ok" /\ Done(stmt.committed \cup Rest, {})
          /\ Applies(Rest) /\ UNCHANGED late
       \/ /\ StmtVerdict(Rest) # "ok" /\ stmt' = [stmt EXCEPT !.at = "failed"]
          /\ UNCHANGED <<table, late>>
       \/ Interrupted(Rest)
    /\ UNCHANGED <<sql, attempts>>

\* on_failure: a single row is dead-lettered, a larger set is split.
LowerHalf(rows) ==
    {r \in rows : Cardinality({s \in rows : s < r}) < Cardinality(rows) \div 2}
Split(rows) == <<LowerHalf(rows), rows \ LowerHalf(rows)>>

OnFailure ==
    /\ stmt.at = "failed"
    /\ stmt' = IF Cardinality(Rest) = 1
               THEN [stmt EXCEPT !.at = "bisect", !.stack = Tail(@), !.dead = @ \cup Rest]
               ELSE [stmt EXCEPT !.at = "bisect", !.stack = Split(Rest) \o Tail(@)]
    /\ UNCHANGED <<sql, table, late, attempts>>

\* The next set of the stack, or the end of it.
BisectInsert ==
    /\ stmt.at = "bisect"
    /\ \/ /\ stmt.stack = <<>>
          /\ Done(stmt.committed, stmt.dead)
          /\ UNCHANGED <<table, late>>
       \/ /\ stmt.stack # <<>>
          /\ \/ /\ StmtVerdict(Rest) = "ok"
                /\ stmt' = [stmt EXCEPT !.committed = @ \cup Rest, !.stack = Tail(@)]
                /\ Applies(Rest) /\ UNCHANGED late
             \/ /\ StmtVerdict(Rest) # "ok"
                /\ stmt' = [stmt EXCEPT !.at = "failed"]
                /\ UNCHANGED <<table, late>>
             \/ Interrupted(Rest)
    /\ UNCHANGED <<sql, attempts>>

\* The server gets to a statement the sink gave up on.
LateInsert ==
    /\ late # {}
    /\ Applies(late)
    /\ late' = {}
    /\ UNCHANGED <<sql, stmt, attempts>>

SqlNext == \/ SendBatch \/ NoConnection \/ FirstInsert \/ LookupPresent \/ InsertRemainder
           \/ OnFailure \/ BisectInsert \/ LateInsert

SqlSpec == SqlInit /\ [][SqlNext]_sqlVars

-----------------------------------------------------------------------------
(* What holds *)

\* A row of this record, or the one an equal record's row stands for.
InTable(r) == table[r] > 0 \/ Clashes(r)

\* sql_common.rs insert_with_dup_fallback: a commit that returns has sorted every
\* record, and what it calls committed is in the table, whatever earlier attempts
\* were interrupted where.
SqlCommitIsTrue ==
    stmt.at = "done" =>
        /\ stmt.committed \cup stmt.dead = Batch
        /\ stmt.committed \cap stmt.dead = {}
        /\ \A r \in stmt.committed : InTable(r)

\* sql_common.rs, insert_mode=plain with a unique id column: a record that any
\* attempt stored is committed, not dead-lettered beside its row, unless the
\* lookup failed.
SqlNeverBoth ==
    stmt.at = "done" /\ sql.mode = "plain" /\ sql.unique = "id" /\ stmt.lookup # "failed" =>
        \A r \in stmt.dead : table[r] = 0

\* What a commit returns is what the table shows.
SqlIsTrue == SqlCommitIsTrue /\ SqlNeverBoth
=============================================================================
