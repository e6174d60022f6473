----------------------------- MODULE Operations ------------------------------
(***************************************************************************)
(* The parts that judge, encode and carry: the status document and its      *)
(* gauges (StatusView), weir-ctl status (CtlStatus), the wire codec and the *)
(* client on it (Wire, Client), the sinks (SqlSink, RequestSinks,           *)
(* SinkBodies, S3Sink), the configuration (Configuration),                 *)
(* the attestation chain (Attest) and the drain's heartbeat with its        *)
(* readers (DrainStall).                                                    *)
(*                                                                         *)
(* A behaviour is one part's: the others rest, since no step of one reads   *)
(* or writes a variable of another.                                         *)
(***************************************************************************)
EXTENDS CtlStatus, Client, SqlSink, RequestSinks, S3Sink, Configuration,
        Attest, DrainStall

CONSTANT Scenes     \* the parts a run lets move

VARIABLE scene      \* the part this behaviour is about

OperationsParts ==
    {"view", "ctl", "codec", "client", "sql", "request", "bodies", "creds",
     "object", "config", "attest", "stall"}
ASSUME ScenesAssumption == Scenes \subseteq OperationsParts

operationsVars ==
    <<scene, viewVars, ctlVars, codecVars, clientVars, sqlVars, sinkVars,
      bodyVars, credVars, objectVars, configVars, attestVars, stallVars>>

OperationsInit ==
    /\ scene \in Scenes
    /\ IF scene = "view" THEN ViewInit ELSE ViewRests
    /\ IF scene = "ctl" THEN CtlInit ELSE CtlRests
    /\ IF scene = "codec" THEN CodecInit ELSE CodecRests
    /\ IF scene = "client" THEN ClientInit ELSE ClientRests
    /\ IF scene = "sql" THEN SqlInit ELSE SqlRests
    /\ IF scene = "request" THEN SinkInit ELSE SinkRests
    /\ IF scene = "bodies" THEN BodyInit ELSE BodyRests
    /\ IF scene = "creds" THEN CredInit ELSE CredRests
    /\ IF scene = "object" THEN ObjectInit ELSE ObjectRests
    /\ IF scene = "config" THEN ConfigInit ELSE ConfigRests
    /\ IF scene = "attest" THEN AttestInit ELSE AttestRests
    /\ StallInit

\* With one seal run three segments meet every pair of mishaps; with two runs
\* the segments and the mishaps share what is left.
AttestBudget == next_counter + Cardinality(past) + 2 * seals <= MaxCounter + 5

OthersRest ==
    /\ UNCHANGED scene
    /\ IF scene = "view" THEN TRUE ELSE UNCHANGED viewVars
    /\ IF scene = "ctl" THEN TRUE ELSE UNCHANGED ctlVars
    /\ IF scene = "codec" THEN TRUE ELSE UNCHANGED codecVars
    /\ IF scene = "client" THEN TRUE ELSE UNCHANGED clientVars
    /\ IF scene = "sql" THEN TRUE ELSE UNCHANGED sqlVars
    /\ IF scene = "request" THEN TRUE ELSE UNCHANGED sinkVars
    /\ IF scene = "bodies" THEN TRUE ELSE UNCHANGED bodyVars
    /\ IF scene = "creds" THEN TRUE ELSE UNCHANGED credVars
    /\ IF scene = "object" THEN TRUE ELSE UNCHANGED objectVars
    /\ IF scene = "config" THEN TRUE ELSE UNCHANGED configVars
    /\ IF scene = "attest" THEN TRUE ELSE UNCHANGED attestVars
    /\ IF scene = "stall" THEN TRUE ELSE UNCHANGED stallVars

OperationsNext ==
    /\ \/ scene = "view" /\ ViewNext
       \/ scene = "ctl" /\ CtlNext
       \/ scene = "codec" /\ Skew
       \/ scene = "client" /\ ClientNext
       \/ scene = "sql" /\ SqlNext
       \/ scene = "request" /\ SinkNext
       \/ scene = "bodies" /\ NextBatch
       \/ scene = "creds" /\ CredNext
       \/ scene = "object" /\ NextSegment
       \/ scene = "config" /\ ConfigNext
       \/ scene = "attest" /\ AttestNext
       \/ scene = "stall" /\ StallNext
    /\ OthersRest

OperationsSpec ==
    /\ OperationsInit
    /\ [][OperationsNext]_operationsVars
=============================================================================
