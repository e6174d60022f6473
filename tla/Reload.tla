------------------------------- MODULE Reload -------------------------------
(***************************************************************************)
(* Reloading the TLS material (weir-server/src/reload.rs, socket/tls.rs,   *)
(* main.rs step 6): SIGHUP and the admin verb put requests on one bounded  *)
(* queue, one loop serves them, and main's own load at startup runs beside *)
(* them until it registers the live configuration.                         *)
(*                                                                         *)
(* The material is a certificate file and a key file; an operator rotates  *)
(* them one after the other, so a reader can meet halves of two rotations, *)
(* which rustls refuses.                                                   *)
(***************************************************************************)
EXTENDS Naturals, Sequences

CONSTANTS
    Admins,          \* admin connections that ask for a reload
    QueueDepth,      \* RELOAD_QUEUE_DEPTH
    MaxRotations,    \* bound: rotations of the files
    MaxSignals,      \* bound: SIGHUPs
    MaxPanics        \* bound: reloads that panic

ASSUME ReloadBounds == /\ QueueDepth \in Nat \ {0}
                       /\ {MaxRotations, MaxSignals, MaxPanics} \subseteq Nat
                       /\ "sighup" \notin Admins

VARIABLES
    disk,        \* [cert, key]: which rotation each file is from
    startup,     \* main's load: [pc, cert]
    served,      \* the rotation new connections get; 0 until registered
    hup,         \* [pending, sent]: a SIGHUP the task has not been polled for
    requests,    \* the reload queue
    reloading,   \* the loop's reload: [pc, by, cert]
    tlsState,    \* ReloadCell's TLS state on the board
    asker,       \* admin -> [pc, asked, outcome]
    asked,       \* ghost: the rotation on disk when the last request was made
    missed       \* ghost: [panics, last]: reloads that panicked, and how the last
                 \* request the loop took ended: "reloaded", "panicked", "noop", or
                 \* "raced": a no-op when main had already read the files

reloadVars == <<disk, startup, served, hup, requests, reloading, tlsState, asker,
                asked, missed>>

NoAsk == [pc |-> "idle", asked |-> 0, outcome |-> "none"]
NoReload == [pc |-> "idle", by |-> "nobody", cert |-> 0]
Sighup == "sighup"

ReloadInit ==
    /\ disk = [cert |-> 1, key |-> 1]
    /\ startup = [pc |-> "cert", cert |-> 0]
    /\ served = 0
    /\ hup = [pending |-> FALSE, sent |-> 0]
    /\ requests = << >>
    /\ reloading = NoReload
    /\ tlsState = "never"
    /\ asker = [a \in Admins |-> NoAsk]
    /\ asked = 0
    /\ missed = [panics |-> 0, last |-> "nothing"]

-----------------------------------------------------------------------------
(* The files, and main's load *)

Rotate ==
    /\ \/ /\ disk.cert = disk.key /\ disk.cert <= MaxRotations
          /\ disk' = [disk EXCEPT !.cert = @ + 1]
       \/ /\ disk.key < disk.cert
          /\ disk' = [disk EXCEPT !.key = disk.cert]
    /\ UNCHANGED <<startup, served, hup, requests, reloading, tlsState, asker,
                   asked, missed>>

\* build_server_config: the certificate, then the key, then with_single_cert.
\* A pair that does not match is an error; at startup it ends the process.
LoadTls ==
    /\ \/ /\ startup.pc = "cert"
          /\ startup' = [pc |-> "key", cert |-> disk.cert]
          /\ UNCHANGED served
       \/ /\ startup.pc = "key" /\ disk.key = startup.cert
          /\ startup' = [startup EXCEPT !.pc = "loaded"]
          /\ UNCHANGED served
       \/ /\ startup.pc = "loaded"
          /\ startup' = [startup EXCEPT !.pc = "registered"]
          /\ served' = startup.cert
    /\ UNCHANGED <<disk, hup, requests, reloading, tlsState, asker, asked, missed>>

Registered == startup.pc = "registered"

-----------------------------------------------------------------------------
(* The two triggers *)

SendSighup ==
    /\ hup.sent < MaxSignals
    /\ hup' = [pending |-> TRUE, sent |-> hup.sent + 1]
    /\ asked' = disk.key
    /\ UNCHANGED <<disk, startup, served, requests, reloading, tlsState, asker, missed>>

\* spawn_sighup_task and request_reload: try_send; a full queue drops it.
SighupTask ==
    /\ hup.pending
    /\ hup' = [hup EXCEPT !.pending = FALSE]
    /\ requests' = IF Len(requests) < QueueDepth THEN Append(requests, Sighup)
                   ELSE requests
    /\ UNCHANGED <<disk, startup, served, reloading, tlsState, asker, asked, missed>>

\* The admin verb's first step.
AskReload(a) ==
    /\ asker' = [asker EXCEPT ![a] = [pc |-> "sending", asked |-> disk.key,
                                      outcome |-> "none"]]
    /\ asked' = disk.key
    /\ UNCHANGED <<disk, startup, served, hup, requests, reloading, tlsState, missed>>

\* request_reload_and_wait: room within the enqueue timeout, or dropped.
EnqueueReload(a) ==
    /\ asker[a].pc = "sending"
    /\ \/ /\ Len(requests) < QueueDepth
          /\ requests' = Append(requests, a)
          /\ asker' = [asker EXCEPT ![a].pc = "waiting"]
       \/ /\ Len(requests) >= QueueDepth
          /\ asker' = [asker EXCEPT ![a].pc = "answered", ![a].outcome = "busy"]
          /\ UNCHANGED requests
    /\ UNCHANGED <<disk, startup, served, hup, reloading, tlsState, asked, missed>>

\* The reply timeout; the reload goes on without its caller.
ReloadTimesOut(a) ==
    /\ asker[a].pc = "waiting"
    /\ asker' = [asker EXCEPT ![a].pc = "answered", ![a].outcome = "timed_out"]
    /\ UNCHANGED <<disk, startup, served, hup, requests, reloading, tlsState, asked,
                   missed>>

-----------------------------------------------------------------------------
(* reload_loop *)

\* The answer goes to an admin that still waits; SIGHUP has no reply channel.
Answered(by, outcome) ==
    [a \in Admins |-> IF a = by /\ asker[a].pc = "waiting"
                      THEN [asker[a] EXCEPT !.pc = "answered", !.outcome = outcome]
                      ELSE asker[a]]

\* Reloader::reload before TLS is registered reads nothing.
TakeRequest ==
    /\ reloading.pc = "idle"
    /\ requests # << >>
    /\ requests' = Tail(requests)
    /\ \/ /\ Registered
          /\ reloading' = [pc |-> "cert", by |-> Head(requests), cert |-> 0]
          /\ UNCHANGED <<asker, missed>>
       \/ /\ ~Registered
          /\ asker' = Answered(Head(requests), "noop")
          /\ missed' = [missed EXCEPT !.last = IF startup.pc = "cert" THEN "noop" ELSE "raced"]
          /\ UNCHANGED reloading
    /\ UNCHANGED <<disk, startup, served, hup, tlsState, asked>>

\* ReloadableServerConfig::reload; a file that cannot be read fails it too.
ReadCert ==
    /\ reloading.pc = "cert"
    /\ reloading' = [reloading EXCEPT !.pc = "key", !.cert = disk.cert]
    /\ UNCHANGED <<disk, startup, served, hup, requests, tlsState, asker, asked, missed>>

\* Mutant: a reload that fails is answered and not published.
FinishReloadQuietly ==
    /\ reloading.pc = "key"
    /\ reloading' = NoReload
    /\ \/ /\ disk.key = reloading.cert
          /\ served' = reloading.cert
          /\ tlsState' = "ok"
          /\ asker' = Answered(reloading.by, "applied")
       \/ /\ asker' = Answered(reloading.by, "failed")
          /\ UNCHANGED <<served, tlsState>>
    /\ missed' = [missed EXCEPT !.last = "reloaded"]
    /\ UNCHANGED <<disk, startup, hup, requests, asked>>

\* The swap is one store, after everything parsed; finish publishes the report
\* on the board before it is counted or sent back.
FinishReload ==
    /\ reloading.pc = "key"
    /\ reloading' = NoReload
    /\ \/ /\ disk.key = reloading.cert
          /\ served' = reloading.cert
          /\ tlsState' = "ok"
          /\ asker' = Answered(reloading.by, "applied")
       \/ /\ tlsState' = "failed"
          /\ asker' = Answered(reloading.by, "failed")
          /\ UNCHANGED served
    /\ missed' = [missed EXCEPT !.last = "reloaded"]
    /\ UNCHANGED <<disk, startup, hup, requests, asked>>

\* The panic is caught at the join: the loop goes on, the reply is dropped.
ReloadPanics ==
    /\ reloading.pc # "idle"
    /\ missed.panics < MaxPanics
    /\ missed' = [panics |-> missed.panics + 1, last |-> "panicked"]
    /\ reloading' = NoReload
    /\ asker' = Answered(reloading.by, "no_answer")
    /\ UNCHANGED <<disk, startup, served, hup, requests, tlsState, asked>>

ReloadLoop == TakeRequest \/ ReadCert \/ FinishReload \/ ReloadPanics

ReloadNext ==
    \/ Rotate \/ LoadTls \/ SendSighup \/ SighupTask \/ ReloadLoop
    \/ \E a \in Admins : EnqueueReload(a) \/ ReloadTimesOut(a)

\* The admin socket opens after the material is registered (main.rs step 7); here
\* an admin's request comes as it may from then on.
ReloadScene ==
    \/ ReloadNext
    \/ \E a \in Admins : Registered /\ asker[a].pc = "idle" /\ AskReload(a)

ReloadSpec == ReloadInit /\ [][ReloadScene]_reloadVars

-----------------------------------------------------------------------------
\* Every request made so far was taken or dropped, and the loop is idle.
Quiet ==
    /\ Registered /\ ~hup.pending /\ requests = << >> /\ reloading.pc = "idle"
    /\ \A a \in Admins : asker[a].pc # "sending"

\* reload.rs: once every request was taken, a daemon serves material at least as
\* new as the files were at the last SIGHUP or admin request, dropped and
\* coalesced ones included, or its board says the TLS reload failed; and an
\* admin told "applied" is served what it asked for.  Only a last request that
\* panicked, or was waived after main had read the files (NoopIsAccurate), leaves
\* older material: a reload after it makes up for it.
ReloadCatchesUp ==
    /\ Quiet => \/ served >= asked
                \/ tlsState = "failed"
                \/ missed.last \in {"panicked", "raced"}
    /\ \A a \in Admins : asker[a].outcome = "applied" => served >= asker[a].asked

\* reload.rs NOTE_TLS_NOT_LOADED_YET ("Accurate: the pending load reads the current
\* files"): where the last request was answered with that note, the daemon ends up
\* with material as new as the files were at the request.
NoopIsAccurate == Quiet /\ missed.last \in {"noop", "raced"} => served >= asked
=============================================================================
