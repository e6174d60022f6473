---------------------------- MODULE WabInvariant ----------------------------
(***************************************************************************)
(* The inductive invariant behind Wab's safety properties, in named parts. *)
(***************************************************************************)
EXTENDS Wab

\* r can be lost by nothing the model contains.
Safe(r) == r \in handled \/ InQuarantine(r) \/ OnStableStorage(r)

Delivered(c) == RangeOf(content[c]) \subseteq handled

\* Nothing is synced that was not written.
SyncedPrefix == \A c \in Seg : synced[c] <= Len(content[c])

\* Without threads there is no memory.
DownIsEmpty ==
    phase \in {"down", "recovering"} =>
        /\ fpc = "off" /\ dpc = "off"
        /\ \A c \in Seg : owned[c] = "none"

\* A sidecar is durable only while it is visible, and stands for delivery.
SidecarInv == sideD \subseteq side /\ \A c \in side : Delivered(c)

\* What the ledger owes is owed to a sealed file; a confirm or a delete is
\* owed to a delivered one.
LedgerInv ==
    \A c \in Seg :
        /\ owned[c] \in {"Sidecar", "Delete", "Quarantine"} => name[c] = "sealed"
        /\ owned[c] \in {"Sidecar", "Delete"} => Delivered(c)

\* The segment in the drain's hands.
InHandInv ==
    /\ dpc = "deliver" => dseg \in Seg /\ owned[dseg] = "none"
    /\ dpc \in {"sidecar", "sidesync", "delete"} =>
         dseg \in Seg /\ name[dseg] = "sealed" /\ Delivered(dseg)

\* The active segment: its directory entry is durable, no fsync of it has
\* failed, and its counter carries no sidecar.
ActiveInv ==
    active # 0 =>
        /\ fpc \in {"idle", "write"}
        /\ name[active] = "wab" /\ nameD[active] # "none"
        /\ active \notin hole /\ active \notin side

Sealing == fpc \in {"finalize", "rename", "dirsync", "handoff"}

\* The segment being sealed, up to the rename that shows it to the drain.
SealingInv ==
    /\ Sealing => sealing \in Seg
    /\ fpc \in {"finalize", "rename"} =>
         name[sealing] = "wab" /\ nameD[sealing] # "none"
    /\ fpc = "finalize" => sealing \notin hole
    /\ Sealing /\ cause = "rotation" => batch # << >>

\* Where the records that wait for an ack are.  Until the group fsync or the
\* finalize they are in the active segment or the one being sealed; then
\* they are safe.
WaitingInv ==
    /\ fpc = "write" /\ pending # {} => active # 0
    /\ fpc = "write" => \A r \in pending : r \in RangeOf(content[active])
    /\ fpc = "finalize" /\ cause = "rotation" =>
         \A r \in pending \cup {Head(batch)} : r \in RangeOf(content[sealing])
    /\ fpc \in {"rename", "dirsync", "handoff"} /\ cause = "rotation" =>
         \A r \in pending \cup {Head(batch)} : Safe(r)
    /\ fpc # "write" /\ ~(Sealing /\ cause = "rotation") => pending = {}
    /\ \A r \in promoted : Safe(r)

\* Everything the producers' acks rest on.
IInv ==
    /\ TypeOK
    /\ SyncedPrefix /\ DownIsEmpty /\ SidecarInv /\ LedgerInv /\ InHandInv
    /\ ActiveInv /\ SealingInv /\ WaitingInv
    /\ CounterIsFresh
    /\ DurableAckSafe

(***************************************************************************)
(* What the promise to the producers (DurableBuffer) needs besides IInv.   *)
(***************************************************************************)
Done(r) == r \in handled \/ InQuarantine(r)

\* r is lost by nothing but a power loss.
Held(r) == Done(r) \/ InBuffer(r)

\* Recovery visits open segments, each once.
RecoverInv == phase = "recovering" => \A c \in torecover : name[c] = "wab"

\* A power loss may undo a delete or a move that was never fsynced; what
\* comes back has been handled or is in quarantine/.
UndoneInv ==
    \A c \in Seg : name[c] = "none" /\ nameD[c] # "none" =>
        \A r \in RangeOf(content[c]) : Done(r)

Distinct(s) == \A i, j \in DOMAIN s : s[i] = s[j] => i = j

\* A record whose push is not answered yet is in one place at a time: the
\* work channel, the current batch, or one of the two sets of waiting acks.
UnansweredInv ==
    /\ Distinct(inbox) /\ Distinct(batch)
    /\ RangeOf(inbox) \cap RangeOf(batch) = {}
    /\ (RangeOf(inbox) \cup RangeOf(batch)) \cap (pending \cup promoted) = {}
    /\ pending \cap promoted = {}
    /\ \A r \in RangeOf(inbox) \cup RangeOf(batch) \cup pending \cup promoted :
          status[r] = "queued"

PromiseInv == IInv /\ RecoverInv /\ UndoneInv /\ UnansweredInv /\ AckSurvivesCrash

(***************************************************************************)
(* What the addresses of records need besides IInv.                        *)
(***************************************************************************)
\* Some file of counter c is in quarantine/.
Spent(c) == \E f \in quarantined : f[1] = c

\* Counter c is not given out again, or names a file of quarantine/.
Taken(c) == Spent(c) \/ c \in sideD \/ (name[c] # "none" /\ nameD[c] # "none")

\* The segment of an address is still there, or leaves its counter taken.
AddressInv ==
    /\ \A r \in Records : coord[r] # None => coord[r][1] \in Seg
    /\ \A r \in Records, c \in Seg : coord[r][1] = c => Taken(c)
    /\ \A r \in Records, c \in Seg :
          active = c /\ coord[r][1] = c => Spent(c) \/ coord[r][2] <= Len(content[c])
    /\ \A r, s \in Records, c \in Seg :
          r # s /\ coord[r] = coord[s] /\ coord[r][1] = c => Spent(c)

\* A delete, in hand or owed, comes after a durable sidecar.
DeleteInv ==
    /\ dpc = "sidesync" => dseg \in side
    /\ dpc = "delete" => dseg \in sideD
    /\ \A c \in Seg : owned[c] = "Delete" => c \in sideD

(***************************************************************************)
(* What the queues of the drain need besides IInv.                         *)
(***************************************************************************)
\* Confirmed and not deleted, and neither the drain nor its ledger is at it.
Orphan(c) ==
    /\ name[c] = "sealed" /\ c \in side \ unproven /\ owned[c] = "none"
    /\ ~(dpc \in {"sidesync", "delete"} /\ dseg = c)

\* A copy of segment c is on its way to the drain.
OnItsWay(c) ==
    \/ c \in RangeOf(todo) \cup RangeOf(chan)
    \/ dpc = "deliver" /\ dseg = c
    \/ Sealing /\ sealing = c

\* No orphan is; and a process that is not up has no queues.
QueueInv ==
    /\ phase \in {"down", "recovering"} => todo = << >> /\ chan = << >>
    /\ drainPanics = 0 => \A c \in Seg : ~(Orphan(c) /\ OnItsWay(c))

\* The segment being sealed has no sidecar before its rename.
UnsealedInv == fpc \in {"finalize", "rename"} => sealing \notin side
=============================================================================
