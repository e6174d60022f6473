------------------------------- MODULE S3Sink -------------------------------
(***************************************************************************)
(* The S3 sink (weir-sink-s3), apart from the requests it shares with the   *)
(* other sinks: where an object goes (key.rs, time.rs, lib.rs, client.rs)   *)
(* and who signs for it (creds.rs).                                         *)
(*                                                                         *)
(* The key is put together from operator text and from the segment's        *)
(* creation time, is signed as a path and sent as a URL, and a URL parser   *)
(* rewrites some paths on the way.  A path text is a sequence of segments,  *)
(* and a segment is the kind of text it is.  Calendar dates are computed as *)
(* the code computes them.                                                  *)
(*                                                                         *)
(* The credential chain has four sources in order, of which a half-         *)
(* configured one must not fall through to a broader identity, and a cache  *)
(* that is refreshed ahead of expiry and outlives a failing refresh.        *)
(* Commits and health probes call it one after the other on the drain's     *)
(* thread; time passes between and during calls.                            *)
(***************************************************************************)
EXTENDS Integers, Sequences, FiniteSets

CONSTANTS
    MaxTime,        \* bound: the clock
    Lifetime,       \* how long a source makes temporary credentials
    RefreshMargin   \* REFRESH_MARGIN_SECS

ASSUME CredentialBounds == {MaxTime, Lifetime, RefreshMargin} \subseteq Nat

VARIABLES
    host,      \* [static, env, web, container, imds]: what is configured here
    now,       \* the clock
    cached,    \* the cached credentials
    resolving, \* [at, now]: the resolve under way and the time it was given
    got        \* what the last resolve returned, [cred, from], the time it was
               \* given and the time it returned: [asked, handed]

credVars == <<host, now, cached, resolving, got>>

VARIABLE object     \* [prefix, partition, endpoint, path_style, day]

objectVars == <<object>>

-----------------------------------------------------------------------------
(* time.rs *)

\* Days since 1970-01-01 to [y, m, d], by the shifted year that starts in March.
civil_from_days(days) ==
    LET z == days + 719468
        era == z \div 146097
        doe == z - era * 146097
        yoe == (doe - doe \div 1460 + doe \div 36524 - doe \div 146096) \div 365
        doy == doe - (365 * yoe + yoe \div 4 - yoe \div 100)
        mp == (5 * doy + 2) \div 153
        d == doy - (153 * mp + 2) \div 5 + 1
        m == IF mp < 10 THEN mp + 3 ELSE mp - 9
        y == yoe + era * 400
    IN  [y |-> IF m <= 2 THEN y + 1 ELSE y, m |-> m, d |-> d]

\* A time is in hours here.  Floored, so that the hour before the epoch is on the
\* day before it.
utc_from_unix_nanos(t) == [date |-> civil_from_days(t \div 24), hour |-> t % 24]

\* Bound: the days whose dates are looked at, a year and more from both ends of
\* an i64 of nanoseconds, from the epoch and from the centuries 1900, 2000, 2100.
CheckedDays == UNION {d - 40 .. d + 400 : d \in {-106712, -25567, 0, 10957, 47482, 106350}}

-----------------------------------------------------------------------------
(* key.rs *)

\* "dot" is . or .., "blank" whitespace, "unsafe" has a control character or one
\* of # ? \ in it; the last three hold a good, an unknown and a bare specifier.
SegmentKinds == {"word", "dot", "empty", "blank", "unsafe", "date", "badspec", "percent"}
Texts == (UNION {[1 .. n -> SegmentKinds] : n \in 0 .. 2})
             \cup {<<"empty", k, "empty">> : k \in SegmentKinds}

\* trim_matches('/'): the empty segments at both ends.
trim_matches(text) ==
    LET leading == {i \in DOMAIN text : \A j \in 1 .. i : text[j] = "empty"}
        trailing == {i \in DOMAIN text : \A j \in i .. Len(text) : text[j] = "empty"}
    IN  SubSeq(text, 1 + Cardinality(leading), Len(text) - Cardinality(trailing))

validate_path_text(text) ==
    LET inner == trim_matches(text) IN
    /\ \A i \in DOMAIN inner : inner[i] \notin {"empty", "blank", "dot"}
    /\ \A i \in DOMAIN text : text[i] # "unsafe"

\* A bare % ends the whole template, or a segment: then / is its specifier.
parse_template(text) ==
    /\ validate_path_text(text)
    /\ \A i \in DOMAIN text : text[i] \notin {"badspec", "percent"}

\* The pieces of a date render as digits: the segment's time, not the clock's.
render(text, created_at) ==
    [path |-> [i \in DOMAIN text |-> IF text[i] = "date" THEN "digits" ELSE text[i]],
     date |-> utc_from_unix_nanos(created_at)]

\* Prefix and partition without their outer slashes, then the object's name.
object_key(prefix, partition, created_at) ==
    trim_matches(prefix) \o trim_matches(render(partition, created_at).path) \o <<"name">>

-----------------------------------------------------------------------------
(* lib.rs S3Sink::new and client.rs Endpoint::resolve *)

\* "host_mark" has one of ? # \ behind its host.
Endpoints == {"default", "host", "host_slash", "host_path", "host_mark", "no_host"}

S3Sink_new(o) ==
    /\ validate_path_text(o.prefix)
    /\ o.endpoint \notin {"host_path", "no_host"}
    /\ parse_template(o.partition)

\* The path that is signed, and the URL: its path is the same text, behind what
\* the endpoint has after its host (a trailing slash is trimmed).
resolve(o, key) ==
    LET path == (IF o.path_style THEN <<"bucket">> ELSE <<>>) \o key
        behind == CASE o.endpoint = "host_path" -> <<"gateway">>
                    [] o.endpoint = "host_mark" -> <<"unsafe">>
                    [] OTHER -> <<>>
    IN  [signed |-> path, url |-> behind \o path]

\* Url::parse makes another path of one with a dot segment (it goes, for ".." with
\* the one before it), a control character (it goes), # or ? (the path ends).
url_parse(path) ==
    IF \E i \in DOMAIN path : path[i] \in {"dot", "unsafe"} THEN <<"rewritten">> ELSE path

-----------------------------------------------------------------------------
NoObject == [prefix |-> <<>>, partition |-> <<>>, endpoint |-> "default",
             path_style |-> FALSE, day |-> 0]

ObjectInit ==
    /\ object \in [prefix : Texts, partition : Texts, endpoint : Endpoints,
                   path_style : BOOLEAN, day : {0}]
    /\ object.endpoint # "host" => object.partition = <<"date">>
ObjectRests == object = NoObject

\* Another segment, of another day.
NextSegment ==
    /\ object.prefix = <<>> /\ object.partition = <<"date">>
    /\ object.endpoint = "host" /\ object.path_style /\ object.day = 0
    /\ \E day \in CheckedDays : object' = [object EXCEPT !.day = day]

-----------------------------------------------------------------------------
(* What holds *)

\* The calendar by its rules.
IsLeap(y) == y % 4 = 0 /\ (y % 100 # 0 \/ y % 400 = 0)
DaysIn(y, m) == IF m \in {4, 6, 9, 11} THEN 30
                ELSE IF m = 2 THEN IF IsLeap(y) THEN 29 ELSE 28
                ELSE 31
NextDate(c) == IF c.d < DaysIn(c.y, c.m) THEN [y |-> c.y, m |-> c.m, d |-> c.d + 1]
               ELSE IF c.m < 12 THEN [y |-> c.y, m |-> c.m + 1, d |-> 1]
               ELSE [y |-> c.y + 1, m |-> 1, d |-> 1]

\* time.rs: each day is followed by the calendar's next, the epoch is
\* 1970-01-01, and a day's last hour is still on that day.
DatesAreCivil ==
    /\ civil_from_days(0) = [y |-> 1970, m |-> 1, d |-> 1]
    /\ civil_from_days(object.day + 1) = NextDate(civil_from_days(object.day))
    /\ utc_from_unix_nanos(24 * (object.day + 1) - 1) =
           [date |-> civil_from_days(object.day), hour |-> 23]

\* lib.rs S3Sink::new, key.rs: a configuration the sink accepts never signs one
\* key and writes another, nor makes a key with an empty component.  S3Sink::new
\* accepts an endpoint with a mark behind its host, and there the two do disagree,
\* which client.rs says they never can: the request asks for another path.
SignedIsWritten ==
    LET key == object_key(object.prefix, object.partition, 24 * object.day)
        r == resolve(object, key)
    IN  S3Sink_new(object) =>
            /\ (url_parse(r.url) = r.signed) <=> (object.endpoint # "host_mark")
            /\ \A i \in DOMAIN key : key[i] \notin {"empty", "blank"}

-----------------------------------------------------------------------------
(* creds.rs *)

\* A source's two settings: both, one of them, none.  An instance has a role,
\* has a metadata service without one, or none of it.
Halves == {"none", "half", "full"}
Hosts == [static : BOOLEAN, env : Halves, web : Halves, container : BOOLEAN,
          imds : {"none", "no_role", "role"}]

\* Expiry: Never is a date past every clock, Unreadable one before it.
Never == MaxTime + Lifetime + 1
Unreadable == 0
Nobody == [who |-> "nobody", expiry |-> Unreadable]
Cred(who, expiry) == [who |-> who, expiry |-> expiry]
CredError == [who |-> "error", expiry |-> Unreadable]
NothingYet == [cred |-> Nobody, from |-> "source", asked |-> 0, handed |-> 0]

CredInit ==
    /\ host \in Hosts
    /\ now = 1
    /\ cached = Nobody
    /\ resolving = [at |-> "idle", now |-> 0]
    /\ got = NothingYet
CredRests ==
    /\ host = [static |-> FALSE, env |-> "none", web |-> "none", container |-> FALSE,
               imds |-> "none"]
    /\ now = MaxTime /\ cached = Nobody
    /\ resolving = [at |-> "idle", now |-> 0] /\ got = NothingYet

needs_refresh(c, t) == c.expiry # Never /\ t + RefreshMargin >= c.expiry
\* Mutant: a credential is good at its very expiry.
still_valid_at_expiry(c, t) == t <= c.expiry

still_valid(c, t) == t < c.expiry

-----------------------------------------------------------------------------
(* resolve_uncached: the first source that applies decides *)

\* expiry_from: a field that does not parse is not "no expiry".
Expiries == {Never, Unreadable, now + Lifetime}

\* STS or the metadata service answers, or not, or with something else.
Exchange(who) == {Cred(who, x) : x \in Expiries} \cup {CredError}

\* No metadata token is "not on EC2"; an error after it is an error.
resolve_imdsv2 ==
    CASE host.imds = "none" -> {CredError}
      [] host.imds = "no_role" -> {CredError}
      [] host.imds = "role" -> Exchange("imds")

\* The token file is read again each time; reading it may fail too.
resolve_web_identity == Exchange("web")

resolve_uncached ==
    CASE host.static -> {Cred("static", Never)}
      [] ~host.static /\ host.env = "full" -> {Cred("env", Never)}
      [] ~host.static /\ host.env # "full" /\ host.web # "none" ->
            IF host.web = "half" THEN {CredError} ELSE resolve_web_identity
      [] OTHER -> IF host.container THEN {CredError} ELSE resolve_imdsv2

-----------------------------------------------------------------------------
(* resolve *)

HandOut(cred, from, asked) == [cred |-> cred, from |-> from, asked |-> asked, handed |-> now]

\* A cached credential that is not near its end is used as it is.
UseCached ==
    /\ resolving.at = "idle" /\ now < MaxTime
    /\ cached # Nobody /\ ~needs_refresh(cached, now)
    /\ got' = HandOut(cached, "cache", now)
    /\ UNCHANGED <<host, now, cached, resolving>>

BeginRefresh ==
    /\ resolving.at = "idle" /\ now < MaxTime
    /\ cached = Nobody \/ needs_refresh(cached, now)
    /\ resolving' = [at |-> "asking", now |-> now]
    /\ UNCHANGED <<host, now, cached, got>>

\* The answer is cached; after an error the cached one serves while it is valid
\* at the time the caller gave.
EndRefresh ==
    /\ resolving.at = "asking"
    /\ \E fresh \in resolve_uncached :
          IF fresh.who # "error"
          THEN /\ cached' = fresh
               /\ got' = HandOut(fresh, "source", resolving.now)
          ELSE /\ UNCHANGED cached
               /\ got' = IF cached # Nobody /\ still_valid(cached, resolving.now)
                         THEN HandOut(cached, "cache", resolving.now)
                         ELSE HandOut(fresh, "source", resolving.now)
    /\ resolving' = [at |-> "idle", now |-> 0]
    /\ UNCHANGED <<host, now>>

\* Also while a source is asked: its timeout is the operator's, not the margin's.
Passes ==
    /\ now < MaxTime
    /\ now' = now + 1
    /\ UNCHANGED <<host, cached, resolving, got>>

CredNext == UseCached \/ BeginRefresh \/ EndRefresh \/ Passes

S3Spec ==
    /\ CredInit /\ ObjectInit
    /\ [][\/ CredNext /\ UNCHANGED objectVars
          \/ NextSegment /\ UNCHANGED credVars]_<<credVars, objectVars>>

-----------------------------------------------------------------------------
(* What holds *)

\* The identity the deployment names.  (Half of the environment's pair counts as
\* unset: only web identity and container roles are refused by halves.)
Named == CASE host.static -> "static"
           [] ~host.static /\ host.env = "full" -> "env"
           [] ~host.static /\ host.env # "full" /\ host.web # "none" -> "web"
           [] OTHER -> IF host.container THEN "container" ELSE "imds"

\* A request is signed as the identity this host names, never as the node instead
\* of it; an error is returned only when the cached credential was of no use; and
\* no resolve begun after the expiry returns the cached credential.  It is expired
\* when it is returned only where a refresh, begun in the margin and before the
\* expiry, failed after it: send (client.rs) read the clock before the refresh, so
\* "still usable right now" (still_valid) is of that moment.
SignsAsNamed ==
    /\ got.cred.who \notin {"nobody", "error"} => got.cred.who = Named
    /\ got.cred.who = "error" => ~still_valid(cached, got.asked)
    /\ got.from = "cache" =>
          /\ got.asked < got.cred.expiry
          /\ \/ got.handed < got.cred.expiry
             \/ got.asked < got.handed /\ needs_refresh(got.cred, got.asked)

\* creds.rs, key.rs, time.rs: a request of the S3 sink is signed by the identity
\* the host names, for the key it writes, under a date of the calendar.
SignsAsConfigured == SignsAsNamed /\ SignedIsWritten /\ DatesAreCivil
=============================================================================
