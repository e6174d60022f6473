----------------------------- MODULE Listeners -----------------------------
(***************************************************************************)
(* The producer listeners: the Unix accept loop (socket/mod.rs serve) and   *)
(* the TCP+mTLS one (socket/tcp.rs run), which share the connection permits *)
(* and the shard router with its one refusal limiter (socket/route.rs).     *)
(* What a connection does once it is open is Ingest's; here it only ends.   *)
(***************************************************************************)
EXTENDS Naturals, FiniteSets

CONSTANTS
    Producers,        \* connections, each made once
    MaxConnections,   \* permits of the shared semaphore
    WarnInterval,     \* NO_LIVE_SHARD_WARN_INTERVAL, in clock steps
    MaxClock,         \* bound: clock steps
    MaxAcceptFaults   \* bound: accept() failures

ASSUME ListenerBounds ==
    /\ {MaxConnections, WarnInterval} \subseteq Nat \ {0}
    /\ {MaxClock, MaxAcceptFaults} \subseteq Nat

VARIABLES
    producer,     \* each connection: its transport and where it is
    permits,      \* free permits
    accepting,    \* each accept loop: "accepting", "backoff", "refusing", "draining",
                  \* "drained"; and the WARN decision it is in the middle of
    live_shards,  \* some shard can take ingest
    stop_level,   \* ShutdownLevel
    clock, next_warn, warned,   \* the limiter: next_ms, and when it said yes
    accept_faults               \* bound

listenerVars == <<producer, permits, accepting, live_shards, stop_level, clock,
                  next_warn, warned, accept_faults>>

Transports == {"unix", "tcp"}
Loop == [at |-> "accepting", now |-> 0, next |-> 0]

ListenerStart ==
    /\ producer = [c \in Producers |-> [at |-> "out", via |-> "unix"]]
    /\ permits = MaxConnections
    /\ live_shards = TRUE
    /\ clock = 0 /\ next_warn = 0 /\ warned = {}

ListenerInit ==
    /\ ListenerStart
    /\ accepting = [t \in Transports |-> Loop]
    /\ stop_level = "running" /\ accept_faults = 0

ListenerRests ==
    /\ ListenerStart
    /\ accepting = [t \in Transports |-> [Loop EXCEPT !.at = "drained"]]
    /\ stop_level = "forced" /\ accept_faults = MaxAcceptFaults

Of(t, places) == {c \in Producers : producer[c].via = t /\ producer[c].at \in places}
Held == {"handshake", "open", "busy"}     \* a handler task owns a permit
Places(c, at) == producer' = [producer EXCEPT ![c].at = at]

\* A handler task that ends drops its permit.
Ends(c) == Places(c, "closed") /\ permits' = permits + 1

-----------------------------------------------------------------------------
(* Accepting *)

\* The kernel queues a connect while the listener is open; afterwards it refuses.
ProducerConnects(c, t) ==
    /\ producer[c].at = "out" /\ accepting[t].at \notin {"draining", "drained"}
    /\ producer' = [producer EXCEPT ![c] = [at |-> "queued", via |-> t]]
    /\ UNCHANGED <<permits, accepting, live_shards, stop_level, clock, next_warn, warned,
                   accept_faults>>

\* The biased select looks at the shutdown level first.
Takes(c, t) ==
    /\ accepting[t].at = "accepting" /\ stop_level = "running"
    /\ producer[c] = [at |-> "queued", via |-> t]

\* Dropped: a peer of another uid, which the Unix loop checks before it picks a
\* shard; a full semaphore; a failed set_nodelay, which gives the permit back.
AcceptRefuses(c, t) ==
    /\ Takes(c, t) /\ (t = "unix" \/ live_shards)
    /\ Places(c, "closed")
    /\ UNCHANGED <<permits, accepting, live_shards, stop_level, clock, next_warn, warned,
                   accept_faults>>

AcceptOpens(c, t) ==
    /\ Takes(c, t) /\ live_shards /\ permits > 0
    /\ permits' = permits - 1
    /\ Places(c, IF t = "tcp" THEN "handshake" ELSE "open")
    /\ UNCHANGED <<accepting, live_shards, stop_level, clock, next_warn, warned,
                   accept_faults>>

\* No shard can take ingest: the stream is dropped, and WarnLimiter::due reads the
\* time and then the next due time.
AcceptNoShard(c, t) ==
    /\ Takes(c, t) /\ ~live_shards
    /\ Places(c, "closed")
    /\ accepting' = [accepting EXCEPT ![t] = [at |-> "refusing", now |-> clock,
                                              next |-> next_warn]]
    /\ UNCHANGED <<permits, live_shards, stop_level, clock, next_warn, warned,
                   accept_faults>>

\* Its compare-exchange: one caller per interval wins, a loser stays quiet.
WarnDue(t) ==
    /\ accepting[t].at = "refusing"
    /\ LET a == accepting[t] IN
       IF a.now >= a.next /\ next_warn = a.next
       THEN next_warn' = a.now + WarnInterval /\ warned' = warned \cup {<<t, a.now>>}
       ELSE UNCHANGED <<next_warn, warned>>
    /\ accepting' = [accepting EXCEPT ![t] = Loop]
    /\ UNCHANGED <<producer, permits, live_shards, stop_level, clock, accept_faults>>

\* Out of descriptors: the entry stays in the kernel's queue, so the loop sleeps.
AcceptExhausted(t) ==
    /\ accepting[t].at = "accepting" /\ stop_level = "running"
    /\ accept_faults < MaxAcceptFaults
    /\ accept_faults' = accept_faults + 1
    /\ accepting' = [accepting EXCEPT ![t].at = "backoff"]
    /\ UNCHANGED <<producer, permits, live_shards, stop_level, clock, next_warn, warned>>

AcceptResumes(t) ==
    /\ accepting[t].at = "backoff"
    /\ accepting' = [accepting EXCEPT ![t] = Loop]
    /\ UNCHANGED <<producer, permits, live_shards, stop_level, clock, next_warn, warned,
                   accept_faults>>

-----------------------------------------------------------------------------
(* A handler's life: the TLS handshake under its deadline, frames, the end. *)

HandshakeDone(c) ==
    /\ producer[c].at = "handshake"
    /\ Places(c, "open")
    /\ UNCHANGED <<permits, accepting, live_shards, stop_level, clock, next_warn, warned,
                   accept_faults>>

\* A bad certificate, the handshake timeout, or the handlers were told to stop.
HandshakeEnds(c) ==
    /\ producer[c].at = "handshake"
    /\ Ends(c)
    /\ UNCHANGED <<accepting, live_shards, stop_level, clock, next_warn, warned,
                   accept_faults>>

FrameArrives(c) ==
    /\ producer[c].at = "open"
    /\ Places(c, "busy")
    /\ UNCHANGED <<permits, accepting, live_shards, stop_level, clock, next_warn, warned,
                   accept_faults>>

FrameAnswers(c) ==
    /\ producer[c].at = "busy"
    /\ Places(c, "open")
    /\ UNCHANGED <<permits, accepting, live_shards, stop_level, clock, next_warn, warned,
                   accept_faults>>

\* The peer leaves, its idle read times out, or the handlers were told to stop.
HandlerEnds(c) ==
    /\ producer[c].at = "open"
    /\ Ends(c)
    /\ UNCHANGED <<accepting, live_shards, stop_level, clock, next_warn, warned,
                   accept_faults>>

-----------------------------------------------------------------------------
(* Shutdown *)

StopAsked(l) ==
    /\ stop_level # l /\ stop_level # "forced"
    /\ stop_level' = l
    /\ UNCHANGED <<producer, permits, accepting, live_shards, clock, next_warn, warned,
                   accept_faults>>

\* Lame duck: the listener is closed before anything is drained, which resets what
\* the kernel had queued; then the handlers are told.
CloseListener(t) ==
    /\ accepting[t].at = "accepting" /\ stop_level # "running"
    /\ accepting' = [accepting EXCEPT ![t].at = "draining"]
    /\ producer' = [c \in Producers |-> IF c \in Of(t, {"queued"})
                                        THEN [producer[c] EXCEPT !.at = "closed"]
                                        ELSE producer[c]]
    /\ UNCHANGED <<permits, live_shards, stop_level, clock, next_warn, warned,
                   accept_faults>>

\* Mutant: the drain has no timeout and aborts nobody.
DrainConnectionsPatiently(t) ==
    /\ accepting[t].at = "draining" /\ Of(t, Held) = {}
    /\ accepting' = [accepting EXCEPT ![t].at = "drained"]
    /\ UNCHANGED <<producer, permits, live_shards, stop_level, clock, next_warn, warned,
                   accept_faults>>

\* drain_connections: all ended; or the timeout, or Forced, aborts what is left and
\* waits for the aborted tasks.
DrainConnections(t) ==
    /\ accepting[t].at = "draining"
    /\ accepting' = [accepting EXCEPT ![t].at = "drained"]
    /\ LET left == Of(t, Held) IN
       /\ permits' = permits + Cardinality(left)
       /\ producer' = [c \in Producers |-> IF c \in left
                                           THEN [producer[c] EXCEPT !.at = "closed"]
                                           ELSE producer[c]]
    /\ UNCHANGED <<live_shards, stop_level, clock, next_warn, warned, accept_faults>>

ShardsChange ==
    /\ stop_level = "running"
    /\ live_shards' = ~live_shards
    /\ UNCHANGED <<producer, permits, accepting, stop_level, clock, next_warn, warned,
                   accept_faults>>

ClockTicks ==
    /\ clock < MaxClock
    /\ clock' = clock + 1
    /\ UNCHANGED <<producer, permits, accepting, live_shards, stop_level, next_warn, warned,
                   accept_faults>>

ListenerNext ==
    \/ \E c \in Producers, t \in Transports :
          \/ ProducerConnects(c, t) \/ AcceptRefuses(c, t) \/ AcceptOpens(c, t)
          \/ AcceptNoShard(c, t)
    \/ \E t \in Transports :
          \/ WarnDue(t) \/ AcceptExhausted(t) \/ AcceptResumes(t)
          \/ CloseListener(t) \/ DrainConnections(t)
    \/ \E c \in Producers :
          \/ HandshakeDone(c) \/ HandshakeEnds(c) \/ FrameArrives(c) \/ FrameAnswers(c)
          \/ HandlerEnds(c)
    \/ \E l \in {"graceful", "forced"} : StopAsked(l)
    \/ ShardsChange \/ ClockTicks

\* The loops run; a handshake has a deadline, a drain has one too.  Nothing is
\* assumed of an open connection: a producer may stay for ever.
ListenerFairness ==
    /\ \A t \in Transports :
          /\ WF_listenerVars(WarnDue(t)) /\ WF_listenerVars(AcceptResumes(t))
          /\ WF_listenerVars(CloseListener(t)) /\ WF_listenerVars(DrainConnections(t))
          /\ \A c \in Producers :
                WF_listenerVars(AcceptRefuses(c, t) \/ AcceptOpens(c, t)
                                \/ AcceptNoShard(c, t))
    /\ \A c \in Producers : WF_listenerVars(HandshakeEnds(c))

-----------------------------------------------------------------------------

\* socket/mod.rs serve, tcp.rs run: every way out of an accepted connection gives
\* its permit back: a permit is free or a live handler of some transport holds it,
\* and both transports together never exceed the limit.
PermitsComeBack ==
    /\ permits + Cardinality({c \in Producers : producer[c].at \in Held}) = MaxConnections
    /\ permits \in 0 .. MaxConnections

\* route.rs WarnLimiter: two accept loops refusing at once never both warn within
\* one interval.
WarnsAreSpaced ==
    \A v, w \in warned :
        v # w => v[2] + WarnInterval <= w[2] \/ w[2] + WarnInterval <= v[2]

\* tcp.rs run: a connection that stalls its handshake does not keep the accept
\* queue or a permit; and a stop ends both listeners with every permit returned,
\* whatever the producers do, also when it comes in the middle of a back-off.
ListenersLetGo ==
    /\ \A c \in Producers :
          producer[c].at = "queued" ~> producer[c].at \in {"open", "busy", "closed"}
    /\ stop_level # "running" ~> /\ \A t \in Transports : accepting[t].at = "drained"
                                 /\ permits = MaxConnections

\* The listeners account for every connection, warn in measure, and end.
ListenersAreSound == []PermitsComeBack /\ []WarnsAreSpaced /\ ListenersLetGo
=============================================================================
