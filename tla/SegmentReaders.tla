--------------------------- MODULE SegmentReaders ---------------------------
(***************************************************************************)
(* The segment file format of weir-wab and its three readers: SegmentReader *)
(* (lib.rs), which stops at the first problem; verify_sealed_segment, which *)
(* holds a sealed file to its footer; and RecoveryReader                    *)
(* (recovery_reader.rs), which goes on behind a corrupt record.             *)
(*                                                                         *)
(* A file is a sequence of cells.  A cell is a header, a length, a record   *)
(* checksum, a payload byte, the sentinel or half of the footer, but a      *)
(* reader only knows where it stands: v is the number it finds there, c the *)
(* bytes of which the cell is the checksum (an ideal one, so a changed cell *)
(* matches nothing).                                                        *)
(***************************************************************************)
EXTENDS Integers, Sequences, FiniteSets

StoredCap == 2               \* max_stored_record_bytes, in cells
MAX_CONSECUTIVE_SKIPS == 3
SentinelLen == 1
FooterLen == 2

Cell(v) == [v |-> v, c |-> <<>>]
Values(cells) == [i \in DOMAIN cells |-> cells[i].v]

\* Part of a length field that the end of the file cut off.
Stray == Cell(-1)

\* parse_segment_header: a version with its flags; v1 stores plaintext, v2 may
\* hold zstd frames; anything else is refused.
Compressions == {"none", "zstd"}
build_segment_header(compression) == Cell(IF compression = "none" THEN 1 ELSE 2)
HeaderParses(cells) == Len(cells) > 0 /\ cells[1].v \in {1, 2}
compression_of(cells) == IF cells[1].v = 1 THEN "none" ELSE "zstd"

\* A zstd frame with this byte does not decompress, whatever its checksum says.
BadFrameByte == 2
Decodes(compression, stored) ==
    compression = "none" \/ \A i \in DOMAIN stored : stored[i] # BadFrameByte

RECURSIVE Frames(_)
Frames(records) ==
    IF records = <<>> THEN <<>>
    ELSE <<Cell(Len(records[1])), [v |-> records[1][1], c |-> records[1]]>>
         \o [i \in DOMAIN records[1] |-> Cell(records[1][i])] \o Frames(Tail(records))

RECURSIVE DataBytes(_)
DataBytes(records) ==
    IF records = <<>> THEN 0 ELSE Len(records[1]) + DataBytes(Tail(records))

\* The active file, and what seal() makes of it: the sentinel, then the footer
\* with the count, the checksum of all before the sentinel and the byte total.
ActiveSegment(compression, records) ==
    <<build_segment_header(compression)>> \o Frames(records)
build_segment_footer(before, records) ==
    <<[v |-> Len(records), c |-> Values(before)], Cell(DataBytes(records))>>
SealedSegment(compression, records) ==
    LET before == ActiveSegment(compression, records) IN
    before \o <<Cell(0)>> \o build_segment_footer(before, records)

-----------------------------------------------------------------------------
(* What is found at a position *)

Whole(cells) == IF cells[Len(cells)] = Stray THEN Len(cells) - 1 ELSE Len(cells)
Payload(cells, pos) == [i \in 1 .. cells[pos].v |-> cells[pos + 1 + i].v]
NextFrame(cells, pos) == pos + 2 + cells[pos].v

FrameAt(cells, pos) ==
    CASE pos > Whole(cells) -> IF Whole(cells) = Len(cells) THEN "eof" ELSE "partial"
      [] pos <= Whole(cells) /\ cells[pos].v = 0 -> "sentinel"
      [] pos <= Whole(cells) /\ cells[pos].v > StoredCap -> "oversized"
      [] OTHER -> IF NextFrame(cells, pos) - 1 > Whole(cells) THEN "short"
                  ELSE IF cells[pos + 1].c # Payload(cells, pos) THEN "bad_crc"
                  ELSE "good"

-----------------------------------------------------------------------------
(* SegmentReader: the good records before the first problem *)

RECURSIVE ReadFrom(_, _, _)
ReadFrom(cells, pos, out) ==
    LET f == FrameAt(cells, pos) IN
    CASE f = "good" ->
            IF Decodes(compression_of(cells), Payload(cells, pos))
            THEN ReadFrom(cells, NextFrame(cells, pos), Append(out, Payload(cells, pos)))
            ELSE [records |-> out, end |-> "error"]
      [] f = "sentinel" -> [records |-> out, end |-> "clean"]
      [] f \in {"eof", "partial"} -> [records |-> out, end |-> "torn"]
      [] OTHER -> [records |-> out, end |-> "error"]

SegmentReader(cells) ==
    IF HeaderParses(cells) THEN ReadFrom(cells, 2, <<>>)
    ELSE [records |-> <<>>, end |-> "unreadable"]

-----------------------------------------------------------------------------
(* verify_sealed_segment *)

\* The footer after a sentinel at pos, for what was walked before it.
FooterVerdict(cells, pos, walked, bytes) ==
    IF pos + FooterLen > Len(cells) THEN "MissingFooter"
    ELSE IF cells[pos + 1].c # Values(SubSeq(cells, 1, pos - 1)) THEN "CrcMismatch"
    ELSE IF cells[pos + 1].v # walked \/ cells[pos + 2].v # bytes THEN "FooterMismatch"
    ELSE IF Len(cells) > pos + FooterLen THEN "TrailingBytes" ELSE "ok"

RECURSIVE VerifyFrom(_, _, _, _)
VerifyFrom(cells, pos, walked, bytes) ==
    LET f == FrameAt(cells, pos) IN
    CASE f = "good" -> VerifyFrom(cells, NextFrame(cells, pos), walked + 1,
                                  bytes + cells[pos].v)
      [] f = "sentinel" -> FooterVerdict(cells, pos, walked, bytes)
      [] f \in {"eof", "partial"} -> "NoSentinel"
      [] OTHER -> "BadRecord"

verify_sealed_segment(cells) ==
    IF HeaderParses(cells) THEN VerifyFrom(cells, 2, 0, 0) ELSE "Header"

-----------------------------------------------------------------------------
(* RecoveryReader: the items of a forensic read, the end of it included *)

Item(kind, at, len, payload) ==
    [kind |-> kind, at |-> at, len |-> len, payload |-> payload]
Desync(at) == <<Item("desynced", at, 0, <<>>)>>

\* Where a sentinel can sit: before a footer, or at the very end.
is_sentinel_offset(cells, at) ==
    Len(cells) - at \in {0, FooterLen}

RECURSIVE RecoverFrom(_, _, _)
RecoverFrom(cells, pos, skips) ==
    LET f == FrameAt(cells, pos)
        len == cells[pos].v
        rest(n) == RecoverFrom(cells, NextFrame(cells, pos), n)
    IN
    CASE f = "good" ->
            <<IF Decodes(compression_of(cells), Payload(cells, pos))
              THEN Item("record", pos, len, Payload(cells, pos))
              ELSE Item("skipped", pos, len, <<>>)>> \o rest(0)
      [] f = "bad_crc" ->
            <<Item("skipped", pos, len, <<>>)>>
            \o (IF skips + 1 >= MAX_CONSECUTIVE_SKIPS THEN Desync(pos) ELSE rest(skips + 1))
      [] f = "eof" -> <<>>
      [] f = "sentinel" -> IF is_sentinel_offset(cells, pos) THEN <<>> ELSE Desync(pos)
      [] OTHER -> Desync(pos)

RecoveryReader(cells) ==
    IF HeaderParses(cells) THEN RecoverFrom(cells, 2, 0) ELSE <<>>

-----------------------------------------------------------------------------
(* Damage, and what survives it *)

\* One cell overwritten, its number or its checksum; the tail cut off, between
\* two cells or inside one; something appended.
Damaged(cells) ==
    {[cells EXCEPT ![i].v = v] : i \in DOMAIN cells, v \in 0 .. StoredCap + 1}
    \cup {[cells EXCEPT ![i].c = <<-1>>] : i \in {i \in DOMAIN cells : cells[i].c # <<>>}}
    \cup {SubSeq(cells, 1, n) : n \in 1 .. Len(cells)}
    \cup {Append(SubSeq(cells, 1, n), Stray) : n \in 1 .. Len(cells) - 1}
    \cup {Append(cells, Cell(v)) : v \in 0 .. 1}

\* Where the frame of the i-th record was written.
FrameCells(records, i) ==
    LET from == 2 + Len(Frames(SubSeq(records, 1, i - 1))) IN
    from .. from + 1 + Len(records[i])

\* The i-th record's bytes as they were written.
Survives(records, i, before, cells) ==
    \A p \in FrameCells(records, i) : p <= Len(cells) /\ cells[p] = before[p]
=============================================================================
