------------------------------ MODULE Daemon ------------------------------
(***************************************************************************)
(* Daemons started with the same socket_path, on one wab_dir and metrics   *)
(* port or each on its own (weir-server/src/main.rs, lifecycle.rs,         *)
(* preflight.rs, the lifecycle cell of status/board.rs): the order of      *)
(* main's startup and shutdown steps, with the lock thread (WabLock), the  *)
(* listener's file (SocketFile) and the signal task interleaved.           *)
(*                                                                         *)
(* A signal before the runtime exists has the default disposition and is   *)
(* a Crash here.                                                           *)
(***************************************************************************)
EXTENDS WabLock

CONSTANTS
    MaxNumbers,   \* bound: inode numbers beside the socket
    MaxStarts     \* bound: process starts in all

ASSUME DaemonBounds == /\ MaxNumbers \in Nat \ {0} /\ MaxStarts \in Nat
                       /\ {"stale", "file", "denied"} \cap Daemons = {}

VARIABLES
    sockPath, sock,
    sameDir,      \* do the daemons share the wab_dir
    samePort,     \* do they share the metrics address
    port,         \* the daemon that listens on a shared metrics address
    starts,       \* process starts so far
    main          \* daemon -> [pc, phase, level, raced]

INSTANCE SocketFile WITH Processes <- Daemons

sockVars == <<sockPath, sock>>
daemonVars == <<sameDir, samePort, port, starts, main>>
machineVars == <<lockVars, sockVars, daemonVars>>

\* pc is the last step main finished; phase is the LifecycleCell's; level is
\* "running" or "raised" (Graceful or Forced: a second signal only shortens
\* the bounded waits).
Down == [pc |-> "down", phase |-> "initializing", level |-> "running",
         raced |-> FALSE]

DaemonInit ==
    /\ LockInit
    /\ SocketInit
    /\ sameDir \in BOOLEAN
    /\ ~sameDir => lockPath = 0 /\ fs = [locks |-> TRUE, policy |-> "required"]
    /\ samePort \in BOOLEAN
    /\ port = NoOne
    /\ starts = 0
    /\ main = [d \in Daemons |-> Down]

\* No process, and no start left.
DaemonRests ==
    /\ lockPath = 0
    /\ lockFile = [i \in Inodes |-> [rec |-> NoOne, vet |-> "ok"]]
    /\ flocked = [i \in Inodes |-> NoOne]
    /\ lock = [d \in Daemons |-> LockDown]
    /\ fs = [locks |-> TRUE, policy |-> "required"]
    /\ tampers = MaxTampers
    /\ intruded = [d \in Daemons |-> "no"]
    /\ sockPath = Nothing
    /\ sock = [d \in Daemons |-> NoSocket]
    /\ sameDir = TRUE /\ samePort = TRUE /\ port = NoOne /\ starts = MaxStarts
    /\ main = [d \in Daemons |-> Down]

PortFree == samePort => port = NoOne

Up(d) == main[d].pc # "down"
At(d, pc) == main[d].pc = pc

\* LifecycleCell::enter: a phase published after T0 is refused.
enter(d, phase) == IF main[d].phase = "shutting_down" THEN "shutting_down" ELSE phase
Goto(d, pc, phase) ==
    main' = [main EXCEPT ![d].pc = pc, ![d].phase = enter(d, phase)]

\* Ghost: d took the socket path while others stood between their preflight and
\* their bind.
Racing == {"preflighted", "runtime", "recovered", "delivering", "binding"}
RacedBy(d) == [e \in Daemons |-> IF e # d /\ main[e].pc \in Racing
                                 THEN [main[e] EXCEPT !.raced = TRUE] ELSE main[e]]

\* The process ends: every descriptor goes with it.
Gone(d) ==
    /\ main' = [main EXCEPT ![d] = Down]
    /\ LockExit(d)
    /\ SocketExit(d)
    /\ port' = IF port = d THEN NoOne ELSE port
    /\ UNCHANGED <<sameDir, samePort, starts>>

-----------------------------------------------------------------------------
(* Startup *)

Start(d) ==
    /\ At(d, "down")
    /\ starts < MaxStarts
    /\ starts' = starts + 1
    /\ main' = [main EXCEPT ![d].pc = "locking"]
    /\ UNCHANGED <<lockVars, sockVars, sameDir, samePort, port>>

\* acquire_wab_dir_lock, before anything reads the WAB.  A daemon on a
\* wab_dir of its own finds its lock free and nobody ever touches it.
Lock(d) ==
    /\ At(d, "locking")
    /\ \/ sameDir /\ Acquire(d)
       \/ /\ ~sameDir
          /\ lock[d].pc = "down"
          /\ Step(d, "held")
          /\ UNCHANGED <<lockPath, lockFile, flocked, fs, tampers, intruded>>
    /\ UNCHANGED <<sockVars, daemonVars>>

\* Mutant: the socket path is not looked at before the bind.
PreflightPortOnly(d) ==
    /\ At(d, "locking")
    /\ Owner(d)
    /\ \/ /\ PortFree
          /\ Goto(d, "preflighted", "initializing")
          /\ UNCHANGED <<lockVars, sockVars, sameDir, samePort, port, starts>>
       \/ ~PortFree /\ Gone(d)

\* preflight: the socket path and the metrics address, connect and test-bind
\* only, before recovery.
Preflight(d) ==
    /\ At(d, "locking")
    /\ Owner(d)
    /\ \/ /\ sockPath.num = 0 \/ sockPath.kind # "file"
          /\ probe_socket \in {"absent", "stale"}
          /\ PortFree
          /\ Goto(d, "preflighted", "initializing")
          /\ UNCHANGED <<lockVars, sockVars, sameDir, samePort, port, starts>>
       \/ /\ \/ sockPath.num # 0 /\ sockPath.kind = "file"
             \/ probe_socket \in {"live", "unknown"}
             \/ ~PortFree
          /\ Gone(d)

\* Steps 4-7: the signal task, then the metrics listener's real bind.
OpenRuntime(d) ==
    /\ At(d, "preflighted")
    /\ \/ /\ PortFree
          /\ port' = IF samePort THEN d ELSE port
          /\ Goto(d, "runtime", "initializing")
          /\ UNCHANGED <<lockVars, sockVars, sameDir, samePort, starts>>
       \/ /\ ~PortFree
          /\ Gone(d)

Recover(d) ==
    /\ At(d, "runtime")
    /\ Goto(d, "recovered", "recovering")
    /\ UNCHANGED <<lockVars, sockVars, sameDir, samePort, port, starts>>

\* Steps 9-10: replay list, cap gate, flushers, workers, the drain.
HandOff(d) ==
    /\ At(d, "recovered")
    /\ Goto(d, "delivering", "handoff")
    /\ UNCHANGED <<lockVars, sockVars, sameDir, samePort, port, starts>>

\* A level already raised skips the producer side.
OpenBind(d) ==
    /\ At(d, "delivering")
    /\ \/ main[d].level = "running" /\ Goto(d, "binding", "binding")
       \/ main[d].level # "running" /\ main' = [main EXCEPT ![d].pc = "joins"]
    /\ UNCHANGED <<lockVars, sockVars, sameDir, samePort, port, starts>>

\* bind_all; the level is read again between the binds and the spawns, and a
\* raised one goes through discard_listeners.
Bind(d) ==
    /\ At(d, "binding")
    /\ \/ /\ BindStep(d)
          /\ main' = IF sock'[d].step = "created" THEN RacedBy(d) ELSE main
          /\ UNCHANGED <<lockVars, sameDir, samePort, port, starts>>
       \/ /\ sock[d].step = "bound"
          /\ main' = [main EXCEPT ![d].pc = IF main[d].level = "running"
                                            THEN "spawned" ELSE "lame"]
          /\ UNCHANGED <<lockVars, sockVars, sameDir, samePort, port, starts>>

\* serve's first statement: the only writer of the Serving phase.
EnterServing(d) ==
    /\ At(d, "spawned")
    /\ Goto(d, "serving", "serving")
    /\ UNCHANGED <<lockVars, sockVars, sameDir, samePort, port, starts>>

\* A refusal: the lock's, or a bind's after delivery has begun.
Refused(d) ==
    /\ \/ At(d, "locking") /\ lock[d].pc = "refused"
       \/ At(d, "binding") /\ sock[d].step = "refused"
    /\ Gone(d)

-----------------------------------------------------------------------------
(* Signals and shutdown *)

\* request_shutdown: the phase first, the broadcast after it.
Handled(d) == main[d].pc \notin {"down", "locking", "preflighted"}

BeginShutdown(d) ==
    /\ Handled(d)
    /\ main[d].phase # "shutting_down"
    /\ main' = [main EXCEPT ![d].phase = "shutting_down"]
    /\ UNCHANGED <<lockVars, sockVars, sameDir, samePort, port, starts>>

Broadcast(d) ==
    /\ Handled(d)
    /\ main[d].phase = "shutting_down"
    /\ main[d].level = "running"
    /\ main' = [main EXCEPT ![d].level = "raised"]
    /\ UNCHANGED <<lockVars, sockVars, sameDir, samePort, port, starts>>

\* The accept loop breaks on the level; lame duck: the file, the listener.
LameDuck(d) ==
    \/ /\ At(d, "serving")
       /\ main[d].level # "running"
       /\ main' = [main EXCEPT ![d].pc = "lame"]
       /\ UNCHANGED <<lockVars, sockVars, sameDir, samePort, port, starts>>
    \/ /\ At(d, "lame")
       /\ StatOwn(d) \/ UnlinkOwn(d)
       /\ UNCHANGED <<lockVars, daemonVars>>

\* T1: the bounded connection drain, then the worker and flusher joins.
CloseIngest(d) ==
    /\ At(d, "lame")
    /\ sock[d].step = "closed"
    /\ main' = [main EXCEPT ![d].pc = "joins"]
    /\ UNCHANGED <<lockVars, sockVars, sameDir, samePort, port, starts>>

\* T2: request_stop and wait_for_drain, bounded by its deadline plus a grace.
StopDrain(d) ==
    /\ At(d, "joins")
    /\ main[d].level # "running"
    /\ main' = [main EXCEPT ![d].pc = "stopping"]
    /\ UNCHANGED <<lockVars, sockVars, sameDir, samePort, port, starts>>

\* T3, joined or orphaned: the lock goes with the process, never before it.
Exit(d) == At(d, "stopping") /\ Gone(d)

-----------------------------------------------------------------------------
(* The integrity thread, and what happens to the process *)

\* main spawns the thread only for a lock that is really held.
Integrity(d) ==
    /\ sameDir
    /\ Up(d)
    /\ Check(d)
    /\ UNCHANGED <<sockVars, daemonVars>>

\* apply_lock_integrity: LostToOther exits 3 at once, without a seal.
OwnershipLost(d) == Up(d) /\ lock[d].pc = "lost" /\ Gone(d)

Crash(d) == Up(d) /\ Gone(d)

Interference ==
    \/ sameDir /\ Tamper /\ UNCHANGED <<sockVars, daemonVars>>
    \/ /\ tampers < MaxTampers
       /\ Tampered
       /\ DeleteSocket
       /\ UNCHANGED <<lockPath, lockFile, flocked, lock, fs, daemonVars>>

Main(d) == \/ Lock(d) \/ Preflight(d) \/ OpenRuntime(d) \/ Recover(d) \/ HandOff(d)
           \/ OpenBind(d) \/ Bind(d) \/ EnterServing(d) \/ Refused(d)
           \/ LameDuck(d) \/ CloseIngest(d) \/ StopDrain(d) \/ Exit(d)

DaemonNext ==
    \/ \E d \in Daemons : \/ Start(d) \/ Main(d) \/ Integrity(d) \/ OwnershipLost(d)
                          \/ BeginShutdown(d) \/ Broadcast(d) \/ Crash(d)
    \/ Interference

-----------------------------------------------------------------------------
DaemonSpec == DaemonInit /\ [][DaemonNext]_machineVars

-----------------------------------------------------------------------------
(* What holds *)

\* The daemons of one wab_dir that may touch its segments.
Owners == {d \in Daemons : Owner(d) /\ Up(d)}

\* wab/lock.rs: as long as nobody meddles with the lock file and the
\* filesystem locks, one wab_dir has one daemon, through every crash, restart
\* and refused start: the flock outlives the joins and the file is not unlinked.
SoleOwner ==
    sameDir /\ fs.locks /\ tampers = 0 => Cardinality(Owners) <= 1

\* wab/lock.rs check_lock_slot: once another daemon's record is in the file at
\* the path, no check begun since calls the directory ours, even when the
\* intruder has exited by then, as long as nobody meddles again.
CertifiesAlone ==
    [][\A d \in Daemons : Certifies(d) => intruded[d] # "checking"]_machineVars

\* main.rs, socket/mod.rs: a daemon that reports serving accepts at its path,
\* unless its file was deleted by hand or it bound inside another's window;
\* no shutdown or later start takes the file away.
ServingIsReachable ==
    \A d \in Daemons :
        main[d].phase = "serving" => /\ sock[d].open
                                     /\ sockPath.kind = d \/ sock[d].excused

\* preflight.rs: a daemon is refused after delivery has begun only if another
\* took the path since its preflight, or inside its bind its file was taken away.
LateRefusalIsARace ==
    [][\A d \in Daemons :
          At(d, "binding") /\ sock[d].step # "refused" /\ sock'[d].step = "refused"
              => main[d].raced \/ sock[d].excused]_machineVars

\* A wab_dir and a socket_path each have at most one daemon, which keeps both.
OneDaemon == SoleOwner /\ ServingIsReachable

\* No check certifies a directory another daemon took, and no daemon that began to
\* deliver is refused an address its preflight could have seen taken.
StartsAreSafe == CertifiesAlone /\ LateRefusalIsARace
=============================================================================
