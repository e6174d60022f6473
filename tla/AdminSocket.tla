---------------------------- MODULE AdminSocket ----------------------------
(***************************************************************************)
(* One weir-ctl call and one daemon across the admin socket: the client    *)
(* (weir-ctl/src/admin_client.rs, admin_cmds.rs, deadline.rs), the server  *)
(* (weir-server/src/admin/mod.rs, framing.rs, verbs.rs) and the drain's    *)
(* answer to a retry-stranded ticket (RequeueService in drain/mod.rs).     *)
(* The reload verb goes through Reload.                                    *)
(*                                                                         *)
(* A line is whole or cut; a reply is its outcome.  Deadlines are steps    *)
(* that may be taken at any time.                                          *)
(***************************************************************************)
EXTENDS Reload, FiniteSets

CONSTANTS
    MaxConnections,   \* admin connections served at once
    MaxDrainPanics    \* bound: drain panics inside the ticket service

ASSUME AdminBounds == /\ MaxConnections \in Nat \ {0} /\ MaxDrainPanics \in Nat
                      /\ "free" \notin Admins

VARIABLES
    ctl,        \* admin -> weir-ctl's side: [pc, verb, sent, outcome]
    conn,       \* admin -> the server's side: [pc, ticket, reply]
    guard,      \* the admin holding the mutation guard
    level,      \* the shutdown level the verbs read
    intent,     \* DrainControl: [pause, req, seen]
    mirror,     \* the board's copy of the pause intent
    cells,      \* [paused, observed, last]: what the drain published
    service,    \* the drain's ticket service: [pc, ticket, seen, panics]
    acted       \* ghost: admins whose request changed the daemon

adminVars == <<ctl, conn, guard, level, intent, mirror, cells, service, acted>>

Verbs == {"status", "reload", "drain.pause", "drain.resume", "drain.retry_stranded"}
Mutations == Verbs \ {"status", "reload"}
NoGuard == "free"

NotCalled == [pc |-> "idle", verb |-> "status", sent |-> "nothing", outcome |-> "none"]
NoConn == [pc |-> "none", ticket |-> 0, reply |-> "none"]

\* The TLS files are loaded and nobody rotates them or signals any more.
ReloadSettled ==
    /\ disk = [cert |-> MaxRotations + 1, key |-> MaxRotations + 1]
    /\ startup = [pc |-> "registered", cert |-> MaxRotations + 1]
    /\ served = MaxRotations + 1
    /\ hup = [pending |-> FALSE, sent |-> MaxSignals]
    /\ requests = << >> /\ reloading = NoReload /\ tlsState = "never"
    /\ asker = [a \in Admins |-> NoAsk]
    /\ asked = 0
    /\ missed = [panics |-> 0, last |-> "nothing"]

AdminRests ==
    /\ ctl = [a \in Admins |-> NotCalled]
    /\ conn = [a \in Admins |-> NoConn]
    /\ guard = NoGuard
    /\ level = "running"
    /\ intent = [pause |-> FALSE, req |-> 0, seen |-> 0]
    /\ mirror = FALSE
    /\ cells = [paused |-> FALSE, observed |-> 0, last |-> 0]
    /\ service = [pc |-> "idle", ticket |-> 0, seen |-> 0, panics |-> 0]
    /\ acted = {}

AdminInit == ReloadSettled /\ AdminRests

-----------------------------------------------------------------------------
(* weir-ctl: call, exchange, parse_reply *)

Finish(a, outcome) ==
    ctl' = [ctl EXCEPT ![a].pc = "done", ![a].outcome = outcome]

\* The checks before anything is sent: no socket or no connect is unreachable;
\* its mode, its parent, its peer or a strict wab_dir is an identity error.
BeginCall(a) ==
    /\ ctl[a].pc = "idle"
    /\ \/ \E verb \in Verbs :
             ctl' = [ctl EXCEPT ![a].pc = "connecting", ![a].verb = verb]
       \/ \E why \in {"unreachable", "identity"} : Finish(a, why)
    /\ UNCHANGED <<reloadVars, conn, guard, level, intent, mirror, cells, service, acted>>

\* The kernel queues the connection: the request may be written, or cut short,
\* before the server has accepted or refused it.  A peer that hung up still
\* gets its reply read; any other send error ends the call.
SendRequest(a) ==
    /\ ctl[a].pc = "connecting"
    /\ \/ \E sent \in {"whole", "cut"} :
             /\ sent = "cut" => conn[a].pc = "closed"
             /\ ctl' = [ctl EXCEPT ![a].pc = "reading", ![a].sent = sent]
       \/ ctl' = [ctl EXCEPT ![a].pc = "done", ![a].sent = "cut",
                             ![a].outcome = "unreachable"]
    /\ UNCHANGED <<reloadVars, conn, guard, level, intent, mirror, cells, service, acted>>

\* Mutant: a call without a reply is always reported as unreachable.
NoReplyAsUnreachable(a) ==
    /\ ctl[a].pc = "reading"
    /\ Finish(a, "unreachable")
    /\ UNCHANGED <<reloadVars, conn, guard, level, intent, mirror, cells, service, acted>>

\* No reply line: the deadline, a reset or an EOF.
NoReply(a) ==
    /\ ctl[a].pc = "reading"
    /\ Finish(a, IF ctl[a].sent = "whole" THEN "no_reply" ELSE "unreachable")
    /\ UNCHANGED <<reloadVars, conn, guard, level, intent, mirror, cells, service, acted>>

\* parse_reply: a reply that is not a v1 line is never trusted, an instance that
\* is not the wab_dir's is an identity error, ok: false is a remote error.
ReadReplyLine(a) ==
    /\ ctl[a].pc = "reading"
    /\ conn[a].reply # "none"
    /\ Finish(a, conn[a].reply)
    /\ UNCHANGED <<reloadVars, conn, guard, level, intent, mirror, cells, service, acted>>

UnusableReply(a) ==
    /\ ctl[a].pc = "reading"
    /\ conn[a].reply # "none"
    /\ \E why \in {"identity", "protocol"} : Finish(a, why)
    /\ UNCHANGED <<reloadVars, conn, guard, level, intent, mirror, cells, service, acted>>

\* reload_outcome_exit, drain_run and report_call_error.
exit_code_of(outcome) ==
    CASE outcome \in {"ok", "observed", "applied", "noop"} -> 0
      [] outcome = "not_yet" -> 4
      [] outcome \in {"unreachable", "no_reply", "identity", "protocol"} -> 2
      [] OTHER -> 1

Client(a) == \/ BeginCall(a) \/ SendRequest(a) \/ NoReply(a) \/ ReadReplyLine(a)
             \/ UnusableReply(a)

-----------------------------------------------------------------------------
(* The server: accept_loop, serve_connection, the verbs *)

To(a, pc) == conn' = [conn EXCEPT ![a].pc = pc]
Say(a, reply) == conn' = [conn EXCEPT ![a].pc = "closed", ![a].reply = reply]

Served == {a \in Admins : conn[a].pc \notin {"none", "closed"}}

\* The peer predicate on every accept, then one of the permits; a refusal is one
\* line written without reading, and the end of the connection.  Connections of
\* other peers come and go and hold the permits these calls leave.
AcceptAdmin(a) ==
    /\ conn[a].pc = "none"
    /\ ctl[a].pc \in {"connecting", "reading"} \/ ctl[a].sent # "nothing"
    /\ \/ Say(a, "forbidden")
       \/ \E others \in 0 .. MaxConnections - Cardinality(Served) :
             IF Cardinality(Served) + others < MaxConnections THEN To(a, "open")
             ELSE Say(a, "busy")
    /\ UNCHANGED <<reloadVars, ctl, guard, level, intent, mirror, cells, service, acted>>

\* serve_connection: a whole line is dispatched; a cut one ends in EOF, in the
\* request deadline or over the size limit, and never reaches a verb.
ReadRequest(a) ==
    /\ conn[a].pc = "open"
    /\ \/ /\ ctl[a].sent = "whole"
          /\ To(a, "parsed")
       \/ /\ ctl[a].sent # "whole"
          /\ Say(a, "bad_request") \/ To(a, "closed")
    /\ UNCHANGED <<reloadVars, ctl, guard, level, intent, mirror, cells, service, acted>>

GaveUp == service.pc = "gave_up"

\* dispatch: status renders the board; reload enters its queue; a drain verb is
\* refused from T0 on and once the drain gave up, before it stores anything.
Dispatch(a) ==
    /\ conn[a].pc = "parsed"
    /\ LET verb == ctl[a].verb IN
       \/ /\ verb = "status"
          /\ Say(a, "ok")
          /\ UNCHANGED reloadVars
       \/ /\ verb = "reload"
          /\ AskReload(a)
          /\ To(a, "reloading")
       \/ /\ verb \in Mutations
          /\ \/ level # "running" /\ Say(a, "shutting_down")
             \/ level = "running" /\ GaveUp /\ Say(a, "unavailable")
             \/ level = "running" /\ ~GaveUp /\ To(a, "admitted")
          /\ UNCHANGED reloadVars
    /\ UNCHANGED <<ctl, guard, level, intent, mirror, cells, service, acted>>

\* request_requeue: an unobserved ticket is shared, otherwise a new one.
request_requeue == IF intent.req > intent.seen THEN intent.req ELSE intent.req + 1

\* The mutation guard is held for the stores and released before any wait.
StoreIntent(a) ==
    /\ conn[a].pc = "admitted"
    /\ guard = NoGuard
    /\ acted' = acted \cup {a}
    /\ \/ /\ ctl[a].verb = "drain.retry_stranded"
          /\ intent' = [intent EXCEPT !.req = request_requeue]
          /\ conn' = [conn EXCEPT ![a].pc = "waiting", ![a].ticket = request_requeue]
          /\ UNCHANGED guard
       \/ /\ ctl[a].verb # "drain.retry_stranded"
          /\ intent' = [intent EXCEPT !.pause = ctl[a].verb = "drain.pause"]
          /\ guard' = a
          /\ To(a, "stored")
    /\ UNCHANGED <<reloadVars, ctl, level, mirror, cells, service>>

MirrorIntent(a) ==
    /\ conn[a].pc = "stored"
    /\ mirror' = (ctl[a].verb = "drain.pause")
    /\ guard' = NoGuard
    /\ To(a, "waiting")
    /\ UNCHANGED <<reloadVars, ctl, level, intent, cells, service, acted>>

\* What wait_until polls for.
Observed(a) ==
    CASE ctl[a].verb = "drain.pause"  -> cells.paused
      [] ctl[a].verb = "drain.resume" -> ~cells.paused
      [] OTHER                        -> cells.observed >= conn[a].ticket

\* The reply after the wait, observed or not; a completed retry carries the
\* counts of the last result, if it answers its ticket.
AnswerDrainVerb(a) ==
    /\ conn[a].pc = "waiting"
    /\ \/ /\ Observed(a)
          /\ Say(a, IF ctl[a].verb = "drain.retry_stranded" /\ cells.last < conn[a].ticket
                    THEN "no_counts" ELSE "observed")
       \/ /\ ~Observed(a)
          /\ Say(a, "not_yet")
    /\ UNCHANGED <<reloadVars, ctl, guard, level, intent, mirror, cells, service, acted>>

\* The reload verb's answer; a request that entered the queue may have acted.
AnswerReload(a) ==
    /\ conn[a].pc = "reloading"
    /\ asker[a].pc = "answered"
    /\ Say(a, IF asker[a].outcome \in {"timed_out", "no_answer"} THEN "internal"
              ELSE asker[a].outcome)
    /\ acted' = IF asker[a].outcome = "busy" THEN acted ELSE acted \cup {a}
    /\ UNCHANGED <<reloadVars, ctl, guard, level, intent, mirror, cells, service>>

\* A reply that cannot be written, a panic of the task, or T3's abort: the
\* connection is gone, its guard released, what it stored stays.
DropConnection(a) ==
    /\ conn[a].pc \notin {"none", "closed"}
    /\ level = "raised"
    /\ To(a, "closed")
    /\ guard' = IF guard = a THEN NoGuard ELSE guard
    /\ UNCHANGED <<reloadVars, ctl, level, intent, mirror, cells, service, acted>>

ServeAdmin(a) ==
    \/ AcceptAdmin(a) \/ ReadRequest(a) \/ Dispatch(a) \/ StoreIntent(a)
    \/ MirrorIntent(a) \/ AnswerDrainVerb(a) \/ AnswerReload(a) \/ DropConnection(a)

RaiseLevel ==
    /\ level = "running"
    /\ level' = "raised"
    /\ UNCHANGED <<reloadVars, ctl, conn, guard, intent, mirror, cells, service, acted>>

-----------------------------------------------------------------------------
(* The drain's side *)

\* The drain notices the pause intent, or that it is gone.
ObservePause ==
    /\ service.pc = "idle"
    /\ cells.paused # intent.pause
    /\ cells' = [cells EXCEPT !.paused = intent.pause]
    /\ UNCHANGED <<reloadVars, ctl, conn, guard, level, intent, mirror, service, acted>>

\* RequeueService::service: the ticket is read first; the result is stored on the
\* cells before the observed ticket, and the control learns of it last.
ServiceTicket ==
    /\ \/ /\ service.pc = "idle" /\ intent.req > service.seen
          /\ service' = [service EXCEPT !.pc = "scanned", !.ticket = intent.req]
          /\ UNCHANGED <<cells, intent>>
       \/ /\ service.pc = "scanned"
          /\ cells' = [cells EXCEPT !.last = service.ticket]
          /\ service' = [service EXCEPT !.pc = "stored", !.seen = service.ticket]
          /\ UNCHANGED intent
       \/ /\ service.pc = "stored"
          /\ cells' = [cells EXCEPT !.observed = service.ticket]
          /\ service' = [service EXCEPT !.pc = "published"]
          /\ UNCHANGED intent
       \/ /\ service.pc = "published"
          /\ intent' = [intent EXCEPT !.seen = service.ticket]
          /\ service' = [service EXCEPT !.pc = "idle"]
          /\ UNCHANGED cells
    /\ UNCHANGED <<reloadVars, ctl, conn, guard, level, mirror, acted>>

\* A respawn starts from the control's observed ticket; the last panic that the
\* restart budget allows ends the drain.
DrainPanics ==
    /\ service.pc # "gave_up"
    /\ service.panics < MaxDrainPanics
    /\ \E pc \in {"idle", "gave_up"} :
          service' = [service EXCEPT !.pc = pc, !.seen = intent.seen,
                                     !.panics = @ + 1]
    /\ UNCHANGED <<reloadVars, ctl, conn, guard, level, intent, mirror, cells, acted>>

AdminNext ==
    \/ \E a \in Admins : Client(a) \/ ServeAdmin(a)
    \/ RaiseLevel \/ ObservePause \/ ServiceTicket \/ DrainPanics
    \/ /\ ReloadNext
       /\ UNCHANGED adminVars

AdminSpec == AdminInit /\ [][AdminNext]_<<reloadVars, adminVars>>

-----------------------------------------------------------------------------
\* weir-ctl CallError and report_call_error: a call reported as unreachable, or
\* refused by the daemon (every remote error but internal), changed nothing,
\* then and later; only "no reply", "internal", an untrusted reply or a success
\* can stand for a request that was applied.
RefusedMeansUntouched ==
    \A a \in Admins :
        ctl[a].outcome \in {"unreachable", "busy", "forbidden", "bad_request",
                            "shutting_down", "unavailable"}
            => a \notin acted

\* admin/verbs.rs: a retry-stranded call that is told "completed" always finds
\* the counts of a scan that answered its ticket, through panics and shared
\* tickets; and when no verb is between its two stores, the pause intent on the board
\* is the one the drain obeys.
VerbsTellTheTruth ==
    /\ \A a \in Admins : conn[a].reply # "no_counts"
    /\ guard = NoGuard /\ level = "running" => mirror = intent.pause

\* What an operator is told of a verb is what happened.
AdminIsHonest == RefusedMeansUntouched /\ VerbsTellTheTruth
=============================================================================
