----------------------------- MODULE StatusHttp -----------------------------
(***************************************************************************)
(* The metrics and health listener (metrics/server.rs, metrics/router.rs).  *)
(* A connection takes a head slot while its request head is read, gives it  *)
(* back, and takes a scrape permit or a probe permit for its answer.  All   *)
(* three are try_acquire: a full pool closes the connection.  Every wait on *)
(* the peer has a deadline, so one that stalls is closed.                   *)
(***************************************************************************)
EXTENDS Naturals, FiniteSets

CONSTANTS
    Peers,           \* connections to the listener, each made once
    HeadSlots, ScrapeSlots, ProbeSlots,
    MaxAcceptErrors  \* bound: accept() failures

ASSUME StatusHttpBounds ==
    /\ {HeadSlots, ScrapeSlots, ProbeSlots} \subseteq Nat \ {0}
    /\ MaxAcceptErrors \in Nat

VARIABLES
    http,          \* each connection: where it is, its request, if the peer reads
    acceptErrors,  \* bound
    acceptor       \* "ready" or "backoff"

httpVars == <<http, acceptErrors, acceptor>>

\* What a request head says; "garbage" does not parse.
HttpRequests == [method : {"GET", "POST"}, path : {"/metrics", "/readyz"}]
Garbage == [method |-> "?", path |-> "?"]
Heads == HttpRequests \cup {Garbage}

\* How a head read ends with something to answer: at the terminator, or at the
\* peer's half-close; at 4096 bytes without one.  Else: no bytes, or an error.
HeadRead == {"complete", "too_large"}

\* Everything but a reserved path gets the metrics, as before the router.
route(head) ==
    IF head.path # "/readyz" THEN "metrics"
    ELSE IF head.method = "GET" THEN "probe" ELSE "method_not_allowed"

\* Mutant: probes draw on the scrape permits.
PoolShared(r) == "scraping"

Pool(r) == IF r = "metrics" THEN "scraping" ELSE "probing"
Slots(at) == [head |-> HeadSlots, scraping |-> ScrapeSlots, probing |-> ProbeSlots][at]

\* The permits of a pool are held by the connections in its phase.
Holders(at) == {p \in Peers : http[p].at = at}
Full(at) == Cardinality(Holders(at)) >= Slots(at)

Fresh == [at |-> "out", head |-> Garbage, read |-> "complete", reads |-> TRUE]
Gone == [Fresh EXCEPT !.at = "closed"]

HttpInit ==
    /\ http = [p \in Peers |-> Fresh]
    /\ acceptErrors = 0 /\ acceptor = "ready"

HttpRests ==
    /\ http = [p \in Peers |-> Gone]
    /\ acceptErrors = MaxAcceptErrors /\ acceptor = "ready"

Goes(p, at) == http' = [http EXCEPT ![p].at = at]
Closes(p) == http' = [http EXCEPT ![p] = Gone]

-----------------------------------------------------------------------------

Connects(p) ==
    /\ http[p].at = "out"
    /\ Goes(p, "queued")
    /\ UNCHANGED <<acceptErrors, acceptor>>

\* A full head pool closes the connection at once.
HttpAccept(p) ==
    /\ acceptor = "ready" /\ http[p].at = "queued"
    /\ IF Full("head") THEN Closes(p) ELSE Goes(p, "head")
    /\ UNCHANGED <<acceptErrors, acceptor>>

\* An accept error never ends the server: it backs off and goes on.
AcceptFails ==
    /\ acceptor = "ready" /\ acceptErrors < MaxAcceptErrors
    /\ acceptor' = "backoff" /\ acceptErrors' = acceptErrors + 1
    /\ UNCHANGED http

BackoffEnds ==
    /\ acceptor = "backoff" /\ acceptor' = "ready"
    /\ UNCHANGED <<http, acceptErrors>>

\* read_head ends by what the peer sent; the head slot is dropped here.
ReadsHead(p) ==
    /\ http[p].at = "head"
    /\ \/ \E h \in Heads, how \in HeadRead, r \in BOOLEAN :
             http' = [http EXCEPT ![p].at = "routed", ![p].head = h, ![p].read = how,
                                  ![p].reads = r]
       \/ Closes(p)
    /\ UNCHANGED <<acceptErrors, acceptor>>

HeadTimesOut(p) ==
    /\ http[p].at = "head"
    /\ Closes(p)
    /\ UNCHANGED <<acceptErrors, acceptor>>

\* The permit of the route's own pool, or the connection is closed.
TakesPermit(p) ==
    /\ http[p].at = "routed"
    /\ LET pool == Pool(route(http[p].head)) IN
       IF Full(pool) THEN Closes(p) ELSE Goes(p, pool)
    /\ UNCHANGED <<acceptErrors, acceptor>>

\* After an oversized head: FIN, then up to 100 ms of what the peer still sends.
Answered(p) ==
    IF http[p].read = "too_large"
    THEN http' = [http EXCEPT ![p] = [Fresh EXCEPT !.at = "discarding"]]
    ELSE Closes(p)

\* The response is rendered from loads alone, and the peer reads it.
WriteEnds(p) ==
    /\ http[p].at \in {"scraping", "probing"} /\ http[p].reads
    /\ Answered(p)
    /\ UNCHANGED <<acceptErrors, acceptor>>

\* SCRAPE_IO_TIMEOUT: the peer stopped reading.
WriteTimesOut(p) ==
    /\ http[p].at \in {"scraping", "probing"} /\ ~http[p].reads
    /\ Answered(p)
    /\ UNCHANGED <<acceptErrors, acceptor>>

DiscardEnds(p) ==
    /\ http[p].at = "discarding"
    /\ Closes(p)
    /\ UNCHANGED <<acceptErrors, acceptor>>

HttpNext ==
    \/ AcceptFails \/ BackoffEnds
    \/ \E p \in Peers :
          \/ Connects(p) \/ HttpAccept(p) \/ ReadsHead(p) \/ HeadTimesOut(p)
          \/ TakesPermit(p) \/ WriteEnds(p) \/ WriteTimesOut(p) \/ DiscardEnds(p)

\* Nothing is assumed of a peer: the timers of the server are what ends a wait.
HttpFairness ==
    /\ WF_httpVars(BackoffEnds)
    /\ \A p \in Peers :
          /\ WF_httpVars(HttpAccept(p)) /\ WF_httpVars(HeadTimesOut(p))
          /\ WF_httpVars(TakesPermit(p)) /\ WF_httpVars(WriteEnds(p))
          /\ WF_httpVars(WriteTimesOut(p)) /\ WF_httpVars(DiscardEnds(p))

-----------------------------------------------------------------------------

\* metrics/server.rs: a storm of one kind costs only its kind.  A probe is turned
\* away only while every probe permit answers a probe, a scrape only while every
\* scrape permit answers a scrape, and no pool is ever overdrawn.
StormsStayApart ==
    [][ \A p \in Peers :
          /\ \A at \in {"head", "scraping", "probing"} :
                Cardinality(Holders(at)') <= Slots(at)
          /\ http[p].at = "routed" /\ http'[p].at = "closed" =>
                LET mine == {q \in Peers : /\ http[q].at \in {"scraping", "probing"}
                                           /\ (route(http[q].head) = "metrics")
                                              = (route(http[p].head) = "metrics")}
                IN Cardinality(mine) =
                     IF route(http[p].head) = "metrics" THEN ScrapeSlots ELSE ProbeSlots
      ]_httpVars

\* metrics/server.rs: a peer that stalls, in its head or over its response, is let
\* go of, and with it its permit: whoever connects is answered or closed.
PeersAreLetGo == \A p \in Peers : http[p].at = "queued" ~> http[p].at = "closed"

\* Scrapers and probers neither starve each other nor hold a slot for ever.
HttpServes == StormsStayApart /\ PeersAreLetGo
=============================================================================
