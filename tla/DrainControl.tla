---------------------------- MODULE DrainControl ----------------------------
(***************************************************************************)
(* The intents the drain obeys (drain/control.rs), and who sets them: the  *)
(* operator through the admin verbs (admin/verbs.rs) and main's shutdown   *)
(* sequence (lifecycle.rs).  They are atomics outside the drain thread, so *)
(* they change between any two of its steps and survive its panics.        *)
(*                                                                         *)
(* A retry-stranded request made while a ticket is unobserved folds into   *)
(* it, so the two ticket counters are one Boolean here.  The deadline only *)
(* moves earlier; time is the step DeadlinePasses.                         *)
(***************************************************************************)
EXTENDS Naturals

CONSTANTS MaxPauses,    \* bound on pause requests
          MaxTickets    \* bound on retry-stranded requests

ASSUME ControlAssumption == MaxPauses \in Nat /\ MaxTickets \in Nat

VARIABLES
    absorb,     \* T0: no probes, no rescans, empty the channel
    closed,     \* input_closed: every flusher has been joined
    stop,       \* "no", "requested" (deadline ahead) or "due" (deadline passed)
    pause,      \* the operator's pause intent
    ticket,     \* a retry-stranded ticket is unobserved
    pauses,     \* pause requests so far
    tickets     \* tickets issued so far

controlVars == <<absorb, closed, stop, pause, ticket, pauses, tickets>>

ControlTypeOK ==
    /\ absorb \in BOOLEAN /\ closed \in BOOLEAN
    /\ stop \in {"no", "requested", "due"}
    /\ pause \in BOOLEAN /\ ticket \in BOOLEAN
    /\ pauses \in 0..MaxPauses /\ tickets \in 0..MaxTickets

ControlInit ==
    /\ absorb = FALSE /\ closed = FALSE /\ stop = "no"
    /\ pause = FALSE /\ ticket = FALSE /\ pauses = 0 /\ tickets = 0

StopRequested == stop # "no"
DeadlinePassed == stop = "due"

(***************************************************************************)
(* The admin verbs, refused from T0 on and once the drain has given up.  A *)
(* verb that passed the check before T0 may still land after it.           *)
(***************************************************************************)
RequestPause(gaveUp) ==
    /\ stop = "no" /\ ~gaveUp /\ pauses < MaxPauses
    /\ pause' = TRUE /\ pauses' = pauses + 1
    /\ UNCHANGED <<absorb, closed, stop, ticket, tickets>>

RequestResume(gaveUp) ==
    /\ stop = "no" /\ ~gaveUp /\ pause
    /\ pause' = FALSE
    /\ UNCHANGED <<absorb, closed, stop, ticket, pauses, tickets>>

RequestRequeue(gaveUp) ==
    /\ stop = "no" /\ ~gaveUp /\ ~ticket /\ tickets < MaxTickets
    /\ ticket' = TRUE /\ tickets' = tickets + 1
    /\ UNCHANGED <<absorb, closed, stop, pause, pauses>>

(***************************************************************************)
(* Shutdown: T0, T2 after the flushers are joined, and the second signal.  *)
(***************************************************************************)
BeginShutdown ==
    /\ ~absorb
    /\ absorb' = TRUE
    /\ UNCHANGED <<closed, stop, pause, ticket, pauses, tickets>>

RequestStop ==
    /\ absorb /\ ~closed
    /\ closed' = TRUE
    /\ stop' = IF stop = "due" THEN "due" ELSE "requested"
    /\ UNCHANGED <<absorb, pause, ticket, pauses, tickets>>

ForceStop ==
    /\ absorb /\ stop # "due"
    /\ stop' = "due"
    /\ UNCHANGED <<absorb, closed, pause, ticket, pauses, tickets>>

DeadlinePasses ==
    /\ stop = "requested"
    /\ stop' = "due"
    /\ UNCHANGED <<absorb, closed, pause, ticket, pauses, tickets>>

ControlStep(gaveUp) ==
    \/ RequestPause(gaveUp) \/ RequestResume(gaveUp) \/ RequestRequeue(gaveUp)
    \/ BeginShutdown \/ RequestStop \/ ForceStop \/ DeadlinePasses
=============================================================================
