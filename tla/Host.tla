-------------------------------- MODULE Host --------------------------------
(***************************************************************************)
(* The parts of a host that processes and operators meet on: the daemons    *)
(* and their lock and socket files (Daemon), the TLS reload (Reload), the   *)
(* admin socket with its verbs and the reload they ask for (AdminSocket)    *)
(* and the operators' requeue (Requeue).                                    *)
(*                                                                         *)
(* A behaviour is one part's: the others rest, since no step of one reads   *)
(* or writes a variable of another.                                         *)
(***************************************************************************)
EXTENDS Daemon, AdminSocket, Requeue, TLC

CONSTANT Scenes     \* the parts a run lets move

VARIABLE scene      \* the part this behaviour is about

hostVars == <<scene, machineVars, reloadVars, adminVars, requeueVars>>

ASSUME ScenesAssumption == Scenes \subseteq {"daemon", "reload", "admin", "requeue"}

\* Daemons, admins and operators are interchangeable: no definition names one.
Interchangeable == Permutations(Daemons) \cup Permutations(Admins)
                   \cup Permutations(Operators)

\* Two admins at once, or one of them and a drain that panics.
AdminBudget == service.panics > 0 => \E a \in Admins : ctl[a].pc = "idle"

\* Two daemons of one configuration, or two that share only the socket path;
\* DaemonSpec, which the proofs are about, has the other two layouts as well.
SharedOrApart == samePort = sameDir

HostInit ==
    /\ scene \in Scenes
    /\ IF scene = "daemon" THEN DaemonInit /\ SharedOrApart ELSE DaemonRests
    /\ CASE scene = "reload" -> ReloadInit /\ AdminRests
         [] scene = "admin" -> ReloadSettled /\ AdminInit
         [] OTHER -> ReloadSettled /\ AdminRests
    /\ IF scene = "requeue" THEN RequeueInit ELSE RequeueRests

OthersRest ==
    /\ UNCHANGED scene
    /\ IF scene = "daemon" THEN TRUE ELSE UNCHANGED machineVars
    /\ IF scene \in {"reload", "admin"} THEN TRUE ELSE UNCHANGED reloadVars
    /\ IF scene = "admin" THEN TRUE ELSE UNCHANGED adminVars
    /\ IF scene = "requeue" THEN TRUE ELSE UNCHANGED requeueVars

HostNext ==
    /\ \/ scene = "daemon" /\ DaemonNext
       \/ scene = "reload" /\ ReloadScene
       \/ scene = "admin" /\ AdminNext
       \/ scene = "requeue" /\ RequeueNext
    /\ OthersRest

HostSpec == HostInit /\ [][HostNext]_hostVars
=============================================================================
