------------------------------ MODULE Services -------------------------------
(***************************************************************************)
(* The parts whose promise is that something ends: the size cap             *)
(* (WabCap), the sinks' verdicts (SinkErrors), the HTTP server (StatusHttp) *)
(* and the accept loops (Listeners), each with the fairness its code gives. *)
(*                                                                         *)
(* A behaviour is one part's: the others rest, since no step of one reads   *)
(* or writes a variable of another.                                         *)
(***************************************************************************)
EXTENDS WabCap, SinkErrors, StatusHttp, Listeners

CONSTANT Scenes     \* the parts a run lets move

VARIABLE scene      \* the part this behaviour is about

ServicesParts ==
    {"cap", "errors", "http", "listeners"}
ASSUME ScenesAssumption == Scenes \subseteq ServicesParts

servicesVars ==
    <<scene, capVars, errorVars, httpVars, listenerVars>>

ServicesInit ==
    /\ scene \in Scenes
    /\ IF scene = "cap" THEN CapInit ELSE CapRests
    /\ IF scene = "errors" THEN ErrorInit ELSE ErrorRests
    /\ IF scene = "http" THEN HttpInit ELSE HttpRests
    /\ IF scene = "listeners" THEN ListenerInit ELSE ListenerRests

OthersRest ==
    /\ UNCHANGED scene
    /\ IF scene = "cap" THEN TRUE ELSE UNCHANGED capVars
    /\ IF scene = "errors" THEN TRUE ELSE UNCHANGED errorVars
    /\ IF scene = "http" THEN TRUE ELSE UNCHANGED httpVars
    /\ IF scene = "listeners" THEN TRUE ELSE UNCHANGED listenerVars

ServicesNext ==
    /\ \/ scene = "cap" /\ CapNext
       \/ scene = "errors" /\ ErrorNext
       \/ scene = "http" /\ HttpNext
       \/ scene = "listeners" /\ ListenerNext
    /\ OthersRest

ServicesSpec ==
    /\ ServicesInit
    /\ [][ServicesNext]_servicesVars
    /\ CapFairness /\ ErrorFairness /\ HttpFairness /\ ListenerFairness
=============================================================================
