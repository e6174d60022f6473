------------------------------- MODULE WabCap -------------------------------
(***************************************************************************)
(* The wab_max_bytes cap: the check of the configured value (config/mod.rs  *)
(* from_layers), wab/cap.rs, its two callers (over_wab_cap of               *)
(* socket/connection.rs on every push, the poll task of status/poll.rs      *)
(* every 5 s) and startup_cap_gate, over the bytes they are about: each     *)
(* shard's open segment, which only a write seals, and the sealed ones,     *)
(* which the drain deletes.  A segment whose write, fsync or seal failed is *)
(* dropped as it is: its bytes count and nobody takes it before a restart.  *)
(* A caller of evaluate has its byte count in hand, loads the shared flag   *)
(* and stores it, and the others run in between; a record admitted before   *)
(* the flag rose is still written.                                          *)
(*                                                                         *)
(* Timed seals are off, as they are by default: they would only help.       *)
(***************************************************************************)
EXTENDS Naturals, FiniteSets

LOCAL INSTANCE FiniteSetsExt

CONSTANTS
    Connections,   \* connection tasks
    Poll,          \* the poll task
    CapShards,     \* shards there can be
    Caps,          \* values of wab_max_bytes an operator may set
    SegmentMax,    \* wab_segment_max_bytes
    RecordSize,    \* bytes of a record
    MaxSealed,     \* bound: sealed segments on disk
    MaxRetired     \* bound: segments dropped open after an I/O error

ASSUME CapAssumption ==
    /\ Poll \notin Connections
    /\ Caps \subseteq Nat /\ {SegmentMax, RecordSize, MaxSealed} \subseteq Nat \ {0}
    /\ MaxRetired \in Nat
    /\ RecordSize < SegmentMax

VARIABLES
    wab_max_bytes, \* the configured cap, 0 for none
    active,        \* shard in use -> bytes of its open segment
    sealed,        \* sealed segments on disk
    retired,       \* [n, bytes]: the .wab files the writer has dropped
    wab_bytes_now, \* the last size a scan stored
    rejecting,     \* wab_cap_rejecting, shared by every connection
    started,       \* startup_cap_gate has run
    scanned,       \* has a scan succeeded
    caller         \* caller -> [pc, bytes, was]

capVars == <<wab_max_bytes, active, sealed, retired, wab_bytes_now, rejecting, started,
             scanned, caller>>
byteVars == <<active, sealed, retired>>

Callers == Connections \cup {Poll}
low_water(cap) == (cap \div 10) * 9

\* Mutant: the floor is one open segment, however many shards there are.
cap_clears_one_segment(cap, shards) == cap = 0 \/ low_water(cap) > SegmentMax

\* from_layers: the level a rejecting cap releases at must lie above what the
\* drain cannot take away, a full open segment per shard.
cap_clears_floor(cap, shards) == cap = 0 \/ low_water(cap) > SegmentMax * shards

CallerIdle == [pc |-> "idle", bytes |-> 0, was |-> FALSE]

\* Recovery has sealed what was open.
CapStart ==
    /\ \E shards \in SUBSET CapShards \ {{}} :
          /\ cap_clears_floor(wab_max_bytes, Cardinality(shards))
          /\ active = [s \in shards |-> 0]
    /\ retired = [n |-> 0, bytes |-> 0]
    /\ wab_bytes_now = 0
    /\ rejecting = FALSE
    /\ started = FALSE
    /\ scanned = FALSE
    /\ caller = [c \in Callers |-> CallerIdle]
CapInit == /\ wab_max_bytes \in Caps
           /\ sealed \in 0 .. MaxSealed
           /\ CapStart
CapRests == /\ wab_max_bytes = 0 /\ sealed = 0 /\ active = [s \in CapShards |-> 0]
            /\ retired = [n |-> 0, bytes |-> 0]
            /\ wab_bytes_now = 0 /\ rejecting = FALSE /\ started = TRUE /\ scanned = TRUE
            /\ caller = [c \in Callers |-> [CallerIdle EXCEPT !.pc = "ended"]]

\* A write seals the segment it fills, so this is what a sealed one holds.
SealedSize == CHOOSE n \in {RecordSize * k : k \in 1 .. SegmentMax} :
                  n >= SegmentMax /\ n - RecordSize < SegmentMax
OpenBytes == MapThenSumSet(LAMBDA s : active[s], DOMAIN active)
compute_wab_bytes_on_disk == SealedSize * sealed + OpenBytes + retired.bytes

-----------------------------------------------------------------------------
(* The flag *)

\* The answer of evaluate for the flag it loaded.
Hysteresis(bytes, was) ==
    /\ wab_max_bytes # 0
    /\ bytes >= IF was THEN low_water(wab_max_bytes) ELSE wab_max_bytes

\* Once, before any listener exists; a scan that fails raises the flag.
startup_cap_gate ==
    /\ ~started
    /\ started' = TRUE
    /\ \/ /\ wab_bytes_now' = compute_wab_bytes_on_disk
          /\ scanned' = TRUE
          /\ rejecting' = Hysteresis(compute_wab_bytes_on_disk, rejecting)
       \/ /\ rejecting' = (wab_max_bytes > 0)
          /\ UNCHANGED <<wab_bytes_now, scanned>>
    /\ UNCHANGED <<wab_max_bytes, byteVars, caller>>

Loaded(bytes) == [pc |-> "loaded", bytes |-> bytes, was |-> FALSE]

\* A tick's scan: a failure leaves size and flag as they are.
ScanWab ==
    /\ started
    /\ caller[Poll].pc = "idle"
    /\ wab_bytes_now' = compute_wab_bytes_on_disk
    /\ scanned' = TRUE
    /\ caller' = [caller EXCEPT ![Poll] = Loaded(compute_wab_bytes_on_disk)]
    /\ UNCHANGED <<wab_max_bytes, byteVars, rejecting, started>>

ScanFails == started /\ caller[Poll].pc = "idle" /\ UNCHANGED capVars

\* A push: over_wab_cap loads the size.
PushArrives(c) ==
    /\ started
    /\ caller[c].pc = "idle"
    /\ caller' = [caller EXCEPT ![c] = Loaded(wab_bytes_now)]
    /\ UNCHANGED <<wab_max_bytes, byteVars, wab_bytes_now, rejecting, started, scanned>>

LoadFlag(c) ==
    /\ caller[c].pc = "loaded"
    /\ caller' = [caller EXCEPT ![c].pc = "decided", ![c].was = rejecting]
    /\ UNCHANGED <<wab_max_bytes, byteVars, wab_bytes_now, rejecting, started, scanned>>

\* The store, when the answer differs from the flag that was loaded; a push under
\* the cap goes on to its shard.
StoreFlag(c) ==
    /\ caller[c].pc = "decided"
    /\ LET now == Hysteresis(caller[c].bytes, caller[c].was) IN
       /\ rejecting' = IF now # caller[c].was THEN now ELSE rejecting
       /\ caller' = [caller EXCEPT ![c] = IF c = Poll \/ now THEN CallerIdle
                                          ELSE [CallerIdle EXCEPT !.pc = "admitted"]]
    /\ UNCHANGED <<wab_max_bytes, byteVars, wab_bytes_now, started, scanned>>

-----------------------------------------------------------------------------
(* The bytes *)

\* ShardWriter drops the open segment with this many bytes in it.
Retire(s, bytes) ==
    /\ retired.n < MaxRetired
    /\ retired' = [n |-> retired.n + 1, bytes |-> retired.bytes + bytes]
    /\ active' = [active EXCEPT ![s] = 0]
    /\ UNCHANGED sealed

\* ShardWriter::write_record and fsync_current: the write that fills the segment
\* seals it; a failed write, without the record, and a failed fsync or seal, with
\* it, drop the segment.
WriteRecord(c, s) ==
    LET bytes == active[s] + RecordSize IN
    /\ caller[c].pc = "admitted"
    /\ sealed < MaxSealed
    /\ \/ /\ bytes < SegmentMax
          /\ active' = [active EXCEPT ![s] = bytes]
          /\ UNCHANGED <<sealed, retired>>
       \/ /\ bytes >= SegmentMax
          /\ active' = [active EXCEPT ![s] = 0]
          /\ sealed' = sealed + 1
          /\ UNCHANGED retired
       \/ Retire(s, active[s])
       \/ Retire(s, bytes)
    /\ caller' = [caller EXCEPT ![c] = CallerIdle]
    /\ UNCHANGED <<wab_max_bytes, wab_bytes_now, rejecting, started, scanned>>

\* The drain delivers a sealed segment and deletes it.
DeliverSealed ==
    /\ started
    /\ sealed > 0
    /\ sealed' = sealed - 1
    /\ UNCHANGED <<wab_max_bytes, active, retired, wab_bytes_now, rejecting, started, scanned,
                   caller>>

CapNext == \/ startup_cap_gate \/ ScanWab \/ ScanFails \/ DeliverSealed
           \/ \E c \in Connections : PushArrives(c) \/ \E s \in DOMAIN active : WriteRecord(c, s)
           \/ \E c \in Callers : LoadFlag(c) \/ StoreFlag(c)

\* The poll ticks every 5 s and a scan works in the end; a caller that has loaded
\* goes on to its store.
CapFairness == /\ WF_capVars(startup_cap_gate)
               /\ WF_capVars(ScanWab)
               /\ \A c \in Callers : WF_capVars(LoadFlag(c) \/ StoreFlag(c))

-----------------------------------------------------------------------------
(* What holds *)

\* wab/cap.rs: with a sink that delivers, a rejecting daemon admits again, though
\* while it rejects nothing is written and so nothing seals; unless the segments
\* dropped after I/O errors and the open ones hold it at the low-water mark.
CapReleases ==
    WF_capVars(DeliverSealed) =>
        []<>(~rejecting \/ (retired.n > 0
                            /\ retired.bytes + OpenBytes >= low_water(wab_max_bytes)))

\* config/mod.rs ("the cap must clear the un-drainable floor [...] or it wedges
\* ingest permanently", "this check exists to guarantee that mark is reachable"): a
\* cap that the configuration accepts never wedges ingest while the sink delivers.
CapNeverWedges == WF_capVars(DeliverSealed) => []<>~rejecting

\* wab/cap.rs: once the directory stays below the low-water mark the flag goes
\* down for good, and once it stays at the cap it goes up for good, without
\* traffic and whatever a push with an older size stores in between.
CapSettles ==
    wab_max_bytes # 0 =>
        LET bytes == compute_wab_bytes_on_disk IN
        /\ <>[](bytes < low_water(wab_max_bytes)) => <>[]~rejecting
        /\ <>[](started /\ bytes >= wab_max_bytes) => <>[]rejecting

\* status/poll.rs startup_cap_gate: after a start whose size scan failed, pushes
\* are refused until a scan succeeds.
FailClosedUntilScan == started /\ ~scanned /\ wab_max_bytes > 0 => rejecting

\* The cap lets go once the drain has done what it can, and is left neither standing
\* nor down against the directory.
CapWorks == CapReleases /\ CapSettles
=============================================================================
