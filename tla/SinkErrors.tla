----------------------------- MODULE SinkErrors -----------------------------
(***************************************************************************)
(* Which answers of a destination each built-in sink retries and which it   *)
(* dead-letters for (weir-server/src/sink/postgres.rs, mysql.rs,            *)
(* clickhouse.rs, http.rs; weir-sink-s3/src/client.rs), and what its health *)
(* probe makes of them: a stranded backlog is tried again only while the    *)
(* probe does not say Down.                                                 *)
(*                                                                         *)
(* The destination goes through faults that hold for every record, and      *)
(* records may be ones it will never take.  One record is one batch here;   *)
(* batches are in SqlSink and RequestSinks.                                 *)
(***************************************************************************)
EXTENDS Naturals, Sequences

CONSTANTS
    Backlog,       \* records to deliver
    RetryBudget,   \* transient answers before the segment is stranded
    MaxBreaks,     \* bound: faults of the destination
    MaxHiccups     \* bound: transient answers of a working destination

ASSUME ErrorBounds ==
    Backlog \in Nat /\ RetryBudget \in Nat \ {0} /\ MaxBreaks \in Nat /\ MaxHiccups \in Nat

VARIABLES
    target,    \* [sink, bad]: the sink, and the records its destination refuses
    fault,     \* what is wrong with the destination
    left,      \* the records not yet settled: the first is tried next
    tries,     \* transient answers to the first since the segment was taken
    stranded,  \* the segment waits for a rescan
    health,    \* the last probe's verdict
    outcome,   \* record -> what became of it
    mishaps    \* [breaks, hiccups] so far

errorVars == <<target, fault, left, tries, stranded, health, outcome, mishaps>>

Stores == {"postgres", "mysql", "clickhouse", "http", "s3"}
\* What can be wrong with a destination: among them that it has no connection
\* left ("full"), is shutting down ("stopping"), has no room ("nospace"), or that
\* the client library fails on its own account ("driver").
Faults ==
    {"outage", "busy", "full", "stopping", "denied", "revoked", "readonly", "nospace",
     "missing", "redirect", "driver"}

ErrorStart(t) ==
    /\ target = t
    /\ fault = "none"
    /\ left = [i \in 1 .. Backlog |-> i]
    /\ tries = 0
    /\ stranded = FALSE
    /\ health = "healthy"
    /\ outcome = [r \in 1 .. Backlog |-> "kept"]

ErrorInit ==
    /\ \E t \in [sink : Stores, bad : SUBSET (1 .. Backlog)] : ErrorStart(t)
    /\ mishaps = [breaks |-> 0, hiccups |-> 0]
ErrorRests ==
    /\ target = [sink |-> "s3", bad |-> {}] /\ fault = "none" /\ left = <<>> /\ tries = 0
    /\ stranded = FALSE /\ health = "healthy"
    /\ outcome = [r \in 1 .. Backlog |-> "stored"]
    /\ mishaps = [breaks |-> MaxBreaks, hiccups |-> MaxHiccups]

-----------------------------------------------------------------------------
(* What a sink makes of an answer *)

\* An answer: of a server that names its error (SQLSTATE, MySQL code), or an
\* HTTP status with, from S3, an error code in the body and perhaps another one
\* quoted in its message.
Server(code) == [kind |-> "server", status |-> 0, code |-> code, quoted |-> "none"]
Status(s) == [kind |-> "http", status |-> s, code |-> "none", quoted |-> "none"]
S3(s, code) == [kind |-> "http", status |-> s, code |-> code, quoted |-> "none"]
Quoting(a, q) == [a EXCEPT !.quoted = q]
\* No answer, a pool without a connection, or a body that cannot be read.
Transport == [kind |-> "transport", status |-> 0, code |-> "none", quoted |-> "none"]
\* mysql_async's Error::Url and Error::Other.
Library == [kind |-> "library", status |-> 0, code |-> "none", quoted |-> "none"]

is_transient_sqlstate(code) ==
    code \in {"40P01", "55P03", "57014", "57P01", "57P02", "57P03", "23505"}
\* Mutant: a value too long for its column is retried.
is_transient_with_data(code) ==
    code \in {"1205", "1213", "1290", "1317", "1062", "1045", "1044", "1142", "1406"}

is_transient_server_code(code) ==
    code \in {"1205", "1213", "1290", "1317", "1062", "1045", "1044", "1142"}

status_is_transient(s) == s >= 500 \/ s \in {408, 429}
classify_status_transient(s) == s \in {408, 429} \/ s >= 500

\* The code outside <Message> goes before one the message quotes.
s3_error_code(a) == IF a.code # "none" THEN a.code ELSE a.quoted

StrandingCodes ==
    {"AccessDenied", "SignatureDoesNotMatch", "ExpiredToken", "TokenRefreshRequired",
     "InvalidAccessKeyId", "RequestTimeTooSkewed", "NoSuchBucket", "SlowDown",
     "InvalidRequest", "RequestTimeout", "BadDigest", "IncompleteBody",
     "XAmzContentSHA256Mismatch", "InvalidBucketName", "InvalidToken",
     "InvalidArgument", "InvalidStorageClass", "KMS.ThrottlingException"}
classify_s3(s, code) ==
    IF code \in StrandingCodes \/ s \notin {400, 411, 413} THEN "transient" ELSE "permanent"

retry(transient) == IF transient THEN "transient" ELSE "permanent"

\* A server error without a code is the connection's.
classify_postgres(a) ==
    CASE a.kind = "transport" -> "transient" [] a.code = "ok" -> "ok"
      [] OTHER -> retry(is_transient_sqlstate(a.code))
\* Of get_conn as of a statement: a refusal to connect is a server error too.
classify_mysql(a) ==
    CASE a.kind = "transport" -> "transient" [] a.kind = "library" -> "permanent"
      [] a.code = "ok" -> "ok"
      [] OTHER -> retry(is_transient_server_code(a.code))

\* A redirect is never followed: neither committed nor retried, except at S3.
commit_clickhouse(a) ==
    CASE a.kind = "transport" -> "transient" [] a.status \in 200 .. 299 -> "ok"
      [] OTHER -> retry(status_is_transient(a.status))
send_and_classify(a) ==
    CASE a.kind = "transport" -> "transient" [] a.status \in 200 .. 299 -> "ok"
      [] OTHER -> retry(classify_status_transient(a.status))
put_object(a) ==
    CASE a.kind = "transport" -> "transient" [] a.status \in 200 .. 299 -> "ok"
      [] OTHER -> classify_s3(a.status, s3_error_code(a))

SinkVerdict(sink, a) ==
    CASE sink = "postgres" -> classify_postgres(a) [] sink = "mysql" -> classify_mysql(a)
      [] sink = "clickhouse" -> commit_clickhouse(a) [] sink = "http" -> send_and_classify(a)
      [] sink = "s3" -> put_object(a)

\* The probes: SELECT 1, HEAD of the URL without credentials, HeadBucket.
probe_health(s) ==
    CASE s \in 200 .. 399 \cup {401, 403, 405, 501} -> "healthy"
      [] s \in 400 .. 499 \ {401, 403, 405} -> "degraded"
      [] OTHER -> "down"
head_bucket_health(s) ==
    CASE s \in 200 .. 299 -> "healthy" [] s \in {400, 403, 404} -> "degraded"
      [] OTHER -> "down"
health_sql(a) == IF a.code = "ok" THEN "healthy" ELSE "down"
health_clickhouse(a) == IF a.status \in 200 .. 299 THEN "healthy" ELSE "down"
Health(sink, a) ==
    IF a.kind = "transport" THEN "down"
    ELSE CASE sink \in {"postgres", "mysql"} -> health_sql(a)
           [] sink = "clickhouse" -> health_clickhouse(a)
           [] sink = "http" -> probe_health(a.status)
           [] sink = "s3" -> head_bucket_health(a.status)

-----------------------------------------------------------------------------
(* What the destinations answer *)

\* To a write of a record it takes, while it works: the write succeeds.  A
\* working destination may still hiccup once in a while.
Accepts(sink) == IF sink \in {"postgres", "mysql"} THEN {Server("ok")} ELSE {Status(200)}
Hiccups(sink) ==
    CASE sink = "postgres" -> {Transport, Server("40P01"), Server("57014")}
      [] sink = "mysql" -> {Transport, Server("1213"), Server("1205")}
      [] sink \in {"clickhouse", "http"} -> {Transport, Status(408)}
      [] sink = "s3" -> {Transport, S3(400, "BadDigest"), S3(400, "RequestTimeout"),
                         Status(500)}
Rejects(sink) ==
    CASE sink = "postgres" -> {Server("22P02"), Server("23502")}
      [] sink = "mysql" -> {Server("1406"), Server("1048")}
      [] sink \in {"clickhouse", "http"} -> {Status(400), Status(413)}
      [] sink = "s3" -> {Quoting(S3(413, "EntityTooLarge"), "SlowDown"), Status(400)}

\* PostgreSQL's refusals to connect (53300, 28P01, 57P03) are the pool's errors.
PostgresUnder(f) ==
    CASE f = "stopping" -> {Transport, Server("57P01"), Server("57P02"), Server("57P03")}
      [] f = "busy" -> {Transport, Server("55P03"), Server("57014")}
      [] f = "revoked" -> {Server("42501")}
      [] f = "readonly" -> {Server("25006")}
      [] f = "nospace" -> {Server("53100")}
      [] f = "missing" -> {Server("42P01")}
      [] OTHER -> {Transport}
MysqlUnder(f) ==
    CASE f = "busy" -> {Server("1205"), Server("1317")}
      [] f = "full" -> {Transport, Server("1040")}
      [] f = "stopping" -> {Transport, Server("1053")}
      [] f = "driver" -> {Library}
      [] f = "nospace" -> {Server("1021"), Server("1114")}
      [] f = "denied" -> {Server("1045")}
      [] f = "revoked" -> {Server("1142"), Server("1044")}
      [] f = "readonly" -> {Server("1290")}
      [] f = "missing" -> {Server("1146")}
      [] OTHER -> {Transport}
HttpUnder(f) ==
    CASE f = "driver" -> {Transport}
      [] f \in {"outage", "stopping"} -> {Transport, Status(503)}
      [] f \in {"busy", "full"} -> {Status(429), Status(503)}
      [] f = "nospace" -> {Status(507)}
      [] f = "denied" -> {Status(401)}
      [] f = "revoked" -> {Status(403)}
      [] f = "readonly" -> {Status(500)}
      [] f = "missing" -> {Status(404)}
      [] f = "redirect" -> {Status(307)}
S3Under(f) ==
    CASE f = "driver" -> {Transport}
      [] f \in {"outage", "stopping", "full"} -> {Transport, Status(503)}
      [] f = "nospace" -> {Status(507)}
      [] f = "busy" -> {S3(503, "SlowDown"), S3(400, "KMS.ThrottlingException")}
      [] f = "denied" -> {Status(403), Quoting(S3(400, "ExpiredToken"), "EntityTooLarge")}
      [] f = "revoked" -> {S3(403, "AccessDenied")}
      [] f = "readonly" -> {S3(400, "InvalidRequest"), S3(400, "InvalidArgument")}
      [] f = "missing" -> {S3(404, "NoSuchBucket"), S3(400, "InvalidBucketName")}
      [] f = "redirect" -> {Status(301), Status(307)}
UnderFault(sink, f) ==
    CASE sink = "postgres" -> PostgresUnder(f)
      [] sink = "mysql" -> MysqlUnder(f)
      [] sink \in {"clickhouse", "http"} -> HttpUnder(f)
      [] sink = "s3" -> S3Under(f)

\* To a probe: endpoints that take writes may not implement or not allow it.
ProbeAnswers ==
    CASE target.sink \in {"postgres", "mysql"} ->
           IF fault \in {"outage", "full", "stopping", "denied", "driver"}
           THEN UnderFault(target.sink, fault) ELSE {Server("ok")}
      [] fault # "none" -> UnderFault(target.sink, fault)
      [] target.sink = "http" -> {Status(200), Status(401), Status(405), Status(501)}
      [] target.sink = "s3" -> {Status(200), Status(400), Status(403), Status(404)}
      [] OTHER -> {Status(200)}

-----------------------------------------------------------------------------
(* The drain and the world *)

Break ==
    /\ mishaps.breaks < MaxBreaks
    /\ fault = "none"
    /\ fault' \in Faults
    /\ mishaps' = [mishaps EXCEPT !.breaks = @ + 1]
    /\ UNCHANGED <<target, left, tries, stranded, health, outcome>>

Mend ==
    /\ fault # "none"
    /\ fault' = "none"
    /\ UNCHANGED <<target, left, tries, stranded, health, outcome, mishaps>>

\* The drain acts on the verdict: settle, dead-letter, or try again until the
\* segment is stranded.
Settle(verdict) ==
    CASE verdict = "ok" ->
           /\ outcome' = [outcome EXCEPT ![left[1]] = "stored"]
           /\ left' = Tail(left) /\ tries' = 0 /\ UNCHANGED stranded
      [] verdict = "permanent" ->
           /\ outcome' = [outcome EXCEPT ![left[1]] =
                 IF fault = "none" THEN "dead" ELSE fault]
           /\ left' = Tail(left) /\ tries' = 0 /\ UNCHANGED stranded
      [] verdict = "transient" ->
           /\ tries' = IF tries + 1 = RetryBudget THEN 0 ELSE tries + 1
           /\ stranded' = (tries + 1 = RetryBudget)
           /\ UNCHANGED <<left, outcome>>

Trying == left # <<>> /\ ~stranded
Commit ==
    /\ Trying
    /\ \E a \in (CASE fault # "none" -> UnderFault(target.sink, fault)
                   [] left[1] \in target.bad -> Rejects(target.sink)
                   [] OTHER -> Accepts(target.sink)) :
          Settle(SinkVerdict(target.sink, a))
    /\ UNCHANGED <<target, fault, health, mishaps>>

Hiccup ==
    /\ Trying
    /\ fault = "none" /\ mishaps.hiccups < MaxHiccups
    /\ \E a \in Hiccups(target.sink) : Settle(SinkVerdict(target.sink, a))
    /\ mishaps' = [mishaps EXCEPT !.hiccups = @ + 1]
    /\ UNCHANGED <<target, fault, health>>

\* A probe, and, when it does not say Down, the rescan of what is stranded.
ProbeAndRescan ==
    /\ stranded
    /\ \E a \in ProbeAnswers : health' = Health(target.sink, a)
    /\ stranded' = (health' = "down")
    /\ UNCHANGED <<target, fault, left, tries, outcome, mishaps>>

ErrorNext == Break \/ Mend \/ Commit \/ Hiccup \/ ProbeAndRescan
ErrorFairness == WF_errorVars(Commit) /\ WF_errorVars(ProbeAndRescan)

-----------------------------------------------------------------------------
(* What holds *)

\* MySQL's refusals to connect whose codes (1040, 1053) the list lacks: the module
\* doc says of them "Connection / pool / IO failures -> transient".
RefusedConnection == {"full", "stopping"}

\* The faults a sink takes for the record's own, as its comments say: a grant, a
\* standby, a full disk or a table at PostgreSQL; a full disk, a table or the
\* library's own error at MySQL; every 3xx and every 4xx but 408 and 429 at
\* ClickHouse and HTTP; none at S3.  And one its comments deny: a refused
\* connection at MySQL.
TakenForARejection(sink) ==
    CASE sink = "postgres" -> {"revoked", "readonly", "nospace", "missing"}
      [] sink = "mysql" -> {"nospace", "missing", "driver"} \cup RefusedConnection
      [] sink \in {"clickhouse", "http"} -> {"denied", "revoked", "missing", "redirect"}
      [] sink = "s3" -> {}

\* client.rs classify ("dead-letter on record-level rejection; strand on
\* connection-level rejection"), mysql.rs is_transient_server_code: a record is
\* displaced only when it is itself refused, or during a fault the sink takes
\* for a rejection.  In an outage, against a busy or a misconfigured server
\* (credentials, or at MySQL and S3 grants and read-only) the backlog is kept.
OnlyRejectedIsDisplaced ==
    \A r \in 1 .. Backlog :
        /\ outcome[r] = "dead" => r \in target.bad
        /\ outcome[r] \in Faults => outcome[r] \in TakenForARejection(target.sink)

\* postgres.rs is_transient_sqlstate ("adding a code here risks an infinite retry
\* loop"), lib.rs health ("the drain never rescans a Down sink"): once the
\* destination works for good, the backlog drains: no rejected record is retried
\* for ever, and no working destination is taken for one that is down.
BacklogDrains == <>[](fault = "none") => <>(left = <<>>)

VerdictsAreRight == []OnlyRejectedIsDisplaced /\ BacklogDrains
=============================================================================
