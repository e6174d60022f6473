------------------------------- MODULE Attest -------------------------------
(***************************************************************************)
(* weir-ctl attest: the hash chain over the sealed segments of one shard    *)
(* (weir-attest) and the two commands that build and check it, while the    *)
(* daemon goes on sealing, delivering and quarantining segments.            *)
(*                                                                         *)
(* The hash is ideal: a head is the term it was computed from, so two heads *)
(* are equal only when everything they commit to is.                        *)
(***************************************************************************)
EXTENDS Integers, Sequences, FiniteSets

CONSTANTS
    MaxCounter,      \* segment counters the model follows
    MaxSeals,        \* bound on runs of attest seal
    MaxMishaps       \* bound on the kinds of mishap in one behaviour

\* The two timers of docs/monitoring.md; neither overlaps with itself.
Tools == {"seal", "verify"}

VARIABLES
    dir,             \* sealed segments on disk: counter -> its file or NoFile
    attest,          \* .attest sidecars: counter -> sidecar, Torn or NoFile
    confirmed,       \* counters with a .confirmed tombstone
    next_counter,    \* ShardWriter's, rescanned at a start
    tool,            \* the run of each command
    seals,           \* seal runs started so far
    past             \* what has happened to the shard that a chain can show

attestVars == <<dir, attest, confirmed, next_counter, tool, seals, past>>

Counters == 1 .. MaxCounter
NoFile == [is |-> "nothing"]
ORIGIN == <<>>                    \* ChainHead::ORIGIN
Unknown == <<"none">>             \* no head: Option::None

\* A file is told apart by which segment it was written as and what was done
\* to its records since.
SealedFile(made) == [is |-> "sealed", made |-> made, text |-> "written"]
Torn == [is |-> "torn"]
OnDisk(c) == dir[c] # NoFile
Unsound(c) == dir[c] = NoFile \/ dir[c].text = "corrupt"

\* chain_origin commits to the predecessor's head, the header and the name,
\* chain_step to every record of the file in turn.
chain_origin(prev, file, c) == <<prev, c, file.made>>
chain_head(prev, file, c) == chain_origin(prev, file, c) \o <<file.text>>
chain_segment(prev, c) ==
    [is |-> "sidecar", prev_head |-> prev, head |-> chain_head(prev, dir[c], c)]

\* Sidecar::decode: length, magic, version and CRC are checked before a field
\* is believed, so a torn file never decodes.
Decodable(c) == attest[c].is = "sidecar"

-----------------------------------------------------------------------------
(* The daemon, as far as the chain can see it *)

AttestRests ==
    /\ dir = [c \in Counters |-> NoFile]
    /\ attest = [c \in Counters |-> NoFile]
    /\ confirmed = {}
    /\ next_counter = 1
    /\ tool = [t \in Tools |-> [pc |-> "idle"]]
    /\ seals = 0
    /\ past = {}

AttestInit == AttestRests

\* A segment is sealed under the next counter.
Seals ==
    /\ next_counter <= MaxCounter
    /\ dir' = [dir EXCEPT ![next_counter] = SealedFile("reused" \in past)]
    /\ next_counter' = next_counter + 1
    /\ UNCHANGED <<attest, confirmed, tool, seals, past>>

\* Mishaps are remembered by kind.
Mishap(kinds) == past' = past \cup kinds /\ Cardinality(past') <= MaxMishaps
If(b, kind) == IF b THEN {kind} ELSE {}

\* A segment leaves the directory: a segment older than it may still be there
\* (stranded or parked), and its .attest sidecar always is.
Leaves(c, how) ==
    /\ OnDisk(c)
    /\ dir' = [dir EXCEPT ![c] = NoFile]
    /\ Mishap(how \cup If(\E o \in Counters : o < c /\ OnDisk(o), "gap"))
    /\ UNCHANGED <<attest, next_counter, tool, seals>>

\* confirm_and_delete leaves a tombstone, the move to quarantine/ does not.
Reclaims(c) == Leaves(c, {}) /\ confirmed' = confirmed \cup {c}
Quarantines(c) == Leaves(c, {"quarantined"}) /\ UNCHANGED confirmed

\* A restart: segment_counters reads active, sealed and confirmed files only,
\* so the names of quarantined segments come back.
NextFree ==
    LET used == confirmed \cup {c \in Counters : OnDisk(c)} IN
    IF used = {} THEN 1 ELSE 1 + CHOOSE c \in used : \A o \in used : o <= c
DaemonRestarts ==
    /\ next_counter' = NextFree
    /\ next_counter' # next_counter
    /\ "reused" \notin past
    /\ Mishap({"reused"})
    /\ UNCHANGED <<dir, attest, confirmed, tool, seals>>

\* The records of an attested segment change under valid checksums, or rot.
Verifying == tool["verify"].pc # "idle"
Changes(c, text) ==
    /\ OnDisk(c) /\ dir[c].text = "written" /\ Decodable(c) /\ ~Verifying
    /\ text \notin past
    /\ dir' = [dir EXCEPT ![c].text = text]
    /\ Mishap({text})
    /\ UNCHANGED <<attest, confirmed, next_counter, tool, seals>>

\* Somebody removes a sidecar: the torn one a crash left, or a good one.
RemovesSidecar(c) ==
    /\ attest[c] # NoFile /\ OnDisk(c) /\ ~Verifying
    /\ "unchained" \notin past
    /\ attest' = [attest EXCEPT ![c] = NoFile]
    /\ Mishap(If(attest[c] # Torn, "unchained"))
    /\ UNCHANGED <<dir, confirmed, next_counter, tool, seals>>

-----------------------------------------------------------------------------
(* weir-ctl: both commands walk the names that were there when they began *)

sealed_segments_in ==
    LET names == {c \in Counters : OnDisk(c)}
    IN [i \in 1 .. Cardinality(names) |->
            CHOOSE c \in names : Cardinality({o \in names : o < c}) = i - 1]

\* The evidence a verify starts from: a changed segment with its own sidecar,
\* or one whose sidecar is gone but whose neighbours' are not.
Evidence(list, i) ==
    LET c == list[i] IN
    /\ dir[c].text = "changed"
    /\ \/ Decodable(c) /\ attest[c].head # chain_head(attest[c].prev_head, dir[c], c)
       \/ /\ attest[c] = NoFile
          /\ i > 1 /\ i < Len(list)
          /\ Decodable(list[i - 1]) /\ Decodable(list[i + 1])
          /\ attest[list[i + 1]].prev_head # ORIGIN
          /\ attest[list[i + 1]].prev_head # chain_head(attest[list[i - 1]].head, dir[c], c)

Begins(t) ==
    /\ tool[t].pc = "idle"
    /\ t = "seal" => seals < MaxSeals
    /\ seals' = seals + IF t = "seal" THEN 1 ELSE 0
    /\ tool' = [tool EXCEPT ![t] =
        [pc |-> "walk", list |-> sealed_segments_in, at |-> 1,
         head |-> IF t = "seal" THEN ORIGIN ELSE Unknown,
         errors |-> 0, failures |-> 0, chain_origins |-> 0, missing |-> 0,
         owed |-> t = "verify" /\ \E i \in DOMAIN sealed_segments_in :
                                      Evidence(sealed_segments_in, i)]]
    /\ UNCHANGED <<dir, attest, confirmed, next_counter, past>>

Running(t, pc) ==
    /\ tool[t].pc = pc
    /\ UNCHANGED <<dir, confirmed, next_counter, seals>>
Standing(t) == tool[t].list[tool[t].at]
More(t) == tool[t].at <= Len(tool[t].list)
Ends(t) == tool' = [tool EXCEPT ![t] = [pc |-> "idle"]]

\* cmd_attest_seal: a recorded head is taken over, a sidecar that does not
\* decode or a segment that does not verify ends the whole run.
SealMeetsSidecar ==
    /\ Running("seal", "walk") /\ More("seal")
    /\ attest[Standing("seal")] # NoFile
    /\ IF Decodable(Standing("seal"))
       THEN tool' = [tool EXCEPT !["seal"].head = attest[Standing("seal")].head,
                                 !["seal"].at = @ + 1]
       ELSE Ends("seal")
    /\ UNCHANGED <<attest, past>>
\* write_sidecar_durably truncates the file it opens, so another process can
\* find it empty until the bytes are there.
SealChains ==
    /\ Running("seal", "walk") /\ More("seal")
    /\ attest[Standing("seal")] = NoFile
    /\ IF Unsound(Standing("seal"))
       THEN Ends("seal") /\ UNCHANGED <<attest, past>>
       ELSE LET sidecar == chain_segment(tool["seal"].head, Standing("seal")) IN
            /\ tool' = [tool EXCEPT !["seal"].pc = "opened", !["seal"].head = sidecar.head,
                                    !["seal"].owed = sidecar]
            /\ attest' = [attest EXCEPT ![Standing("seal")] = Torn]
            /\ Mishap(If(Verifying, "crossed"))
SidecarWritten ==
    /\ Running("seal", "opened")
    /\ attest' = [attest EXCEPT ![Standing("seal")] = tool["seal"].owed]
    /\ tool' = [tool EXCEPT !["seal"].pc = "walk", !["seal"].at = @ + 1]
    /\ UNCHANGED past
SealDies ==
    /\ tool["seal"].pc # "idle"
    /\ Ends("seal")
    /\ UNCHANGED <<dir, attest, confirmed, next_counter, seals, past>>
SealEnds == Running("seal", "walk") /\ ~More("seal") /\ Ends("seal") /\ UNCHANGED <<attest, past>>

\* cmd_attest_verify, first half of its turn at a segment: count the origin,
\* hold the recorded predecessor to the head that was observed, and carry the
\* head on; a segment without a sidecar is chained again to find its head.
DeclaresOrigin(c) == Decodable(c) /\ attest[c].prev_head = ORIGIN
BrokenLink(c) ==
    /\ tool["verify"].head # Unknown
    /\ Decodable(c) /\ ~DeclaresOrigin(c)
    /\ attest[c].prev_head # tool["verify"].head
\* Mutant: a segment without a sidecar loses the head.
AdvanceForgets(head, c) == IF Decodable(c) THEN attest[c].head ELSE Unknown

Advance(head, c) ==
    CASE Decodable(c) -> attest[c].head
      [] ~Decodable(c) /\ head = Unknown -> Unknown
      [] OTHER -> IF Unsound(c) THEN Unknown ELSE chain_segment(head, c).head
AdvanceFails(head, c) == ~Decodable(c) /\ head # Unknown /\ Unsound(c)
One(b) == IF b THEN 1 ELSE 0
VerifyLinks ==
    LET c == Standing("verify") IN
    /\ Running("verify", "walk") /\ More("verify")
    /\ tool' = [tool EXCEPT
        !["verify"].pc = "content",
        !["verify"].chain_origins = @ + One(tool["verify"].head = Unknown \/ DeclaresOrigin(c)),
        !["verify"].failures = @ + One(BrokenLink(c)),
        !["verify"].errors = @ + One(AdvanceFails(tool["verify"].head, c)),
        !["verify"].head = Advance(tool["verify"].head, c)]
    /\ UNCHANGED <<attest, past>>

\* Second half: verify_segment against the segment's own sidecar.
Verdict(c) ==
    CASE attest[c] = NoFile -> "MissingSidecar"
      [] attest[c] # NoFile /\ (~Decodable(c) \/ Unsound(c)) -> "error"
      [] OTHER -> IF attest[c].head = chain_head(attest[c].prev_head, dir[c], c)
                  THEN "Verified" ELSE "Diverged"
VerifyContent ==
    /\ Running("verify", "content")
    /\ tool' = [tool EXCEPT
        !["verify"].pc = "walk", !["verify"].at = @ + 1,
        !["verify"].failures = @ + One(Verdict(Standing("verify")) = "Diverged"),
        !["verify"].missing = @ + One(Verdict(Standing("verify")) = "MissingSidecar"),
        !["verify"].errors = @ + One(Verdict(Standing("verify")) = "error")]
    /\ UNCHANGED <<attest, past>>

\* metrics_body: a missing sidecar is no failure, what could not be checked is.
metrics_body(run) ==
    [is |-> "whole", segments |-> Len(run.list),
     verify_failures |-> run.failures + run.errors, chain_origins |-> run.chain_origins,
     missing_sidecar |-> run.missing]

Finished == tool["verify"].pc = "walk" /\ ~More("verify")

\* write_metrics_file replaces the file as a whole or fails, which is one more
\* error of the run.
verify_exit(run, written) ==
    CASE run.errors > 0 \/ ~written -> 2
      [] run.errors = 0 /\ written /\ run.failures > 0 -> 1
      [] OTHER -> 0

\* A behaviour is followed to the end of the first verify; segments made while it
\* runs are not in its list.
AttestNext ==
    /\ ~Finished
    /\ \/ ~Verifying /\ (Seals \/ DaemonRestarts)
       \/ \E c \in Counters : Reclaims(c)
       \/ \E c \in Counters : Quarantines(c)
       \/ \E c \in Counters, text \in {"changed", "corrupt"} : Changes(c, text)
       \/ \E c \in Counters : RemovesSidecar(c)
       \/ \E t \in Tools : Begins(t)
       \/ SealMeetsSidecar \/ SealChains \/ SidecarWritten
       \/ SealEnds \/ SealDies
       \/ VerifyLinks \/ VerifyContent

AttestSpec == AttestInit /\ [][AttestNext]_attestVars

-----------------------------------------------------------------------------
(* Properties *)

Exits(code) == Finished /\ verify_exit(tool["verify"], TRUE) = code

\* cmd_attest_verify says "tampered" (exit 1) only of a shard to which more
\* happened than new segments, retention or quarantine of the oldest ones,
\* interrupted seal runs and removed torn sidecars: a segment or a good sidecar
\* was changed, a segment left from behind an older one (QuarantineIsNoFailure),
\* the name of a quarantined segment was given again, or a seal run chained
\* segments under the verify.
OrdinaryLifeIsNotTampering == Exits(1) => ~(past \subseteq {"quarantined"})

\* docs/monitoring.md weir_attest_chain_origins ("one whose predecessor was
\* quarantined [...] Never counted as a failure"), attest.rs ("what keeps a
\* quarantine gap from failing the run"): a shard to which nothing happened but
\* quarantines never fails a verify.
QuarantineIsNoFailure ==
    confirmed = {} /\ past \subseteq {"quarantined", "gap"} => ~Exits(1)

\* A changed segment is never reported clean while its own sidecar, or the
\* sidecars of both its neighbours, can show the change: removing the one
\* next to the segment does not hide it.
ChangeIsSeen == Finished /\ tool["verify"].owed => ~Exits(0)

\* metrics_body: the gauges of a run say what its exit code says, and a shard that
\* nobody ever sealed does not look clean.
GaugesAgree ==
    LET gauges == metrics_body(tool["verify"]) IN
    Finished =>
        /\ gauges.verify_failures = 0 <=> Exits(0)
        /\ seals = 0 => gauges.missing_sidecar = gauges.segments

\* The chain raises no false alarm and misses no change, and its gauges say so.
ChainIsSound == OrdinaryLifeIsNotTampering /\ ChangeIsSeen /\ GaugesAgree
=============================================================================
