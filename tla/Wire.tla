-------------------------------- MODULE Wire --------------------------------
(***************************************************************************)
(* The wire protocol of weir-core that the client and the daemon share:    *)
(* the frame (envelope.rs) with its types, tiers and reasons, the record    *)
(* coordinate (coordinate.rs) and the two batch encodings (batch.rs), which *)
(* carry their own lengths inside a frame whose CRC says nothing about them.*)
(*                                                                         *)
(* Every field is one byte here, whatever its width.  Inside a batch a byte *)
(* is a number below ByteSize with BitsPerByte bits, and a record is its    *)
(* bytes.                                                                   *)
(***************************************************************************)
EXTENDS Integers, Sequences, FiniteSets

BitsPerByte == 2
ByteSize == 4

\* MAX_BATCH_RECORDS_HARD_CAP and MAX_PAYLOAD_HARD_CAP.
RecordsHardCap == 3
PayloadHardCap == 2

\* A decoder answers a value, or its error.
Ok(v) == [err |-> "none", value |-> v]
Err(reason) == [err |-> reason, value |-> <<>>]

-----------------------------------------------------------------------------
(* The bytes that stand for a type, a tier and a reason *)

MessageTypes == <<"Push", "Ack", "Nack", "HealthCheck", "HealthCheckResponse",
                  "PushTracked", "AckTracked", "PushBatch", "AckBatch">>
Requests == {"Push", "PushTracked", "PushBatch", "HealthCheck"}

\* 0x0A is unassigned.
NackReasons == <<"BadMagic", "VersionMismatch", "BadHeaderCrc", "PayloadTooLarge",
                 "BadPayloadCrc", "InternalError", "EmptyPayload", "UnknownMessage",
                 "ReservedFlagsSet", "unassigned", "BadBatchFraming">>

ByteOf(table, name) == CHOOSE b \in DOMAIN table : table[b] = name

message_type_try_from(byte) ==
    IF byte \in DOMAIN MessageTypes THEN Ok(MessageTypes[byte])
    ELSE Err("UnknownMessageType")
nack_reason_try_from(byte) ==
    IF byte \in DOMAIN NackReasons \ {ByteOf(NackReasons, "unassigned")}
    THEN Ok(NackReasons[byte]) ELSE Err("UnknownNack")

\* The retired tier 0x02 is read as Durable and never written.
Tiers == {"Durable", "Buffered"}
RetiredTier == 2
durability_byte(tier) == IF tier = "Durable" THEN 1 ELSE 3
durability_try_from(byte) == CASE byte \in {1, RetiredTier} -> Ok("Durable")
                               [] byte = 3 -> Ok("Buffered")
                               [] OTHER -> Err("UnknownDurability")

-----------------------------------------------------------------------------
(* A frame: magic, version, type, tier, flags, length and CRC, then the payload
   and its CRC.  A CRC tells any one changed byte, and here no more. *)

Magic == 7
WIRE_VERSION == 1
HEADER_LEN == 7
FrameBytes == 0 .. 12

RECURSIVE SumOf(_)
SumOf(s) == IF s = <<>> THEN 0 ELSE Head(s) + SumOf(Tail(s))
Crc(s) == SumOf(s) % 16

Sealed(fields) == Append(fields, Crc(fields))
header_encode(h, len) ==
    Sealed(<<Magic, WIRE_VERSION, ByteOf(MessageTypes, h.message_type),
             durability_byte(h.durability), 0, len>>)

\* Magic, version and CRC before any field is parsed; then the first bad field.
header_decode(buf) ==
    LET message_type == message_type_try_from(buf[3])
        durability == durability_try_from(buf[4])
    IN  CASE buf[1] # Magic -> Err("BadMagic")
          [] buf[1] = Magic /\ buf[2] # WIRE_VERSION -> Err("VersionMismatch")
          [] buf[1] = Magic /\ buf[2] = WIRE_VERSION /\ buf[7] # Crc(SubSeq(buf, 1, 6)) ->
                Err("HeaderCrcMismatch")
          [] OTHER ->
                IF message_type.err # "none" THEN message_type
                ELSE IF durability.err # "none" THEN durability
                ELSE IF buf[5] # 0 THEN Err("ReservedFlagsSet")
                ELSE Ok([message_type |-> message_type.value,
                         durability |-> durability.value, payload_len |-> buf[6]])

\* Envelope::new takes the length from the payload.
envelope_encode(e) == header_encode(e, Len(e.payload)) \o Sealed(e.payload)

\* Exactly one frame, its length held against the cap before the payload is touched.
envelope_decode(buf) ==
    LET h == header_decode(SubSeq(buf, 1, HEADER_LEN))
        frame_len == HEADER_LEN + h.value.payload_len + 1
        payload == SubSeq(buf, HEADER_LEN + 1, frame_len - 1)
    IN  IF Len(buf) < HEADER_LEN THEN Err("TruncatedFrame")
        ELSE IF h.err # "none" THEN h
        ELSE IF h.value.payload_len > PayloadHardCap THEN Err("PayloadTooLarge")
        ELSE IF Len(buf) < frame_len THEN Err("TruncatedFrame")
        ELSE IF Len(buf) > frame_len THEN Err("TrailingBytes")
        ELSE IF buf[frame_len] # Crc(payload) THEN Err("PayloadCrcMismatch")
        ELSE Ok([message_type |-> h.value.message_type,
                 durability |-> h.value.durability, payload |-> payload])

\* The reason the daemon answers a header with that it could not decode.
nack_for_decode_error(err) ==
    CASE err \in {"BadMagic", "VersionMismatch", "ReservedFlagsSet"} -> err
      [] err = "HeaderCrcMismatch" -> "BadHeaderCrc"
      [] err \in {"UnknownMessageType", "UnknownDurability"} -> "UnknownMessage"

\* send_nack: the reason, and for a version the daemon's own.
nack_payload(reason) ==
    <<ByteOf(NackReasons, reason)>>
        \o (IF reason = "VersionMismatch" THEN <<WIRE_VERSION>> ELSE <<>>)

\* nack_error: a version without its second byte is still a reason.
nack_error_of(payload) ==
    IF payload = <<>> THEN Err("Protocol") ELSE nack_reason_try_from(payload[1])

-----------------------------------------------------------------------------
(* PushBatch body: version, count, then each record with its length *)

Version == 1

RECURSIVE Framed(_)
Framed(records) ==
    IF records = <<>> THEN <<>>
    ELSE <<Len(records[1])>> \o records[1] \o Framed(Tail(records))

encode_batch_body(records) == <<Version, Len(records)>> \o Framed(records)

Least(a, b) == IF a < b THEN a ELSE b

\* The scan from the cursor (bytes already consumed) with the records so far.
RECURSIVE ScanBatch(_, _, _, _, _)
ScanBatch(body, cursor, out, declared, record_cap) ==
    LET len == body[cursor + 1]
        from == cursor + 1
    IN  CASE cursor >= Len(body) ->
                IF Len(out) = declared THEN Ok(out) ELSE Err("BadBatchFraming")
          [] cursor < Len(body) /\ len = 0 -> Err("EmptyPayload")
          [] cursor < Len(body) /\ len > record_cap -> Err("PayloadTooLarge")
          [] cursor < Len(body) /\ len \in 1 .. record_cap ->
                IF from + len > Len(body) \/ Len(out) = declared
                THEN Err("BadBatchFraming")
                ELSE ScanBatch(body, from + len,
                               Append(out, SubSeq(body, from + 1, from + len)),
                               declared, record_cap)

decode_batch_body(body, max_records, max_record_len) ==
    CASE Len(body) < 2 -> Err("BadBatchFraming")
      [] Len(body) >= 2 /\ (body[1] # Version \/ body[2] = 0) -> Err("BadBatchFraming")
      [] Len(body) >= 2 /\ body[1] = Version /\ body[2] > 0 ->
            IF body[2] > Least(max_records, RecordsHardCap) THEN Err("PayloadTooLarge")
            ELSE ScanBatch(body, 2, <<>>, body[2], Least(max_record_len, PayloadHardCap))

-----------------------------------------------------------------------------
(* AckBatch payload: version, count, then one bit for each record *)

DivCeil(n) == (n + BitsPerByte - 1) \div BitsPerByte

\* bitmap_bit: the byte, from 0, and the mask's exponent.
bitmap_bit(i) == <<i \div BitsPerByte, i % BitsPerByte>>
BitSet(byte, exponent) == (byte \div 2 ^ exponent) % 2 = 1

encode_ack_batch(accepted) ==
    LET n == Len(accepted)
        Bit(b, e) == LET i == b * BitsPerByte + e IN
                     IF i < n /\ accepted[i + 1] THEN 2 ^ e ELSE 0
    IN  <<Version, n>> \o [b \in 1 .. DivCeil(n) |-> Bit(b - 1, 0) + Bit(b - 1, 1)]

\* Mutant: the padding bits of the last byte are not looked at.
decode_ack_padded(payload, expected) ==
    IF \/ Len(payload) < 2
       \/ payload[1] # Version
       \/ payload[2] = 0
       \/ payload[2] # expected
       \/ Len(payload) # 2 + DivCeil(payload[2])
    THEN Err("Protocol")
    ELSE Ok([i \in 1 .. expected |->
                BitSet(payload[3 + bitmap_bit(i - 1)[1]], bitmap_bit(i - 1)[2])])

decode_ack_batch(payload, expected) ==
    IF \/ Len(payload) < 2
       \/ payload[1] # Version
       \/ payload[2] = 0
       \/ payload[2] # expected
       \/ Len(payload) # 2 + DivCeil(payload[2])
       \/ \* padding bits of the last byte
          /\ payload[2] % BitsPerByte # 0
          /\ payload[Len(payload)] \div 2 ^ (payload[2] % BitsPerByte) # 0
    THEN Err("Protocol")
    ELSE Ok([i \in 1 .. expected |->
                BitSet(payload[3 + bitmap_bit(i - 1)[1]], bitmap_bit(i - 1)[2])])

-----------------------------------------------------------------------------
(* AckTracked payload: version, index, record id, the name's length, the name.
   Index and id are a byte each, and one byte value is no UTF-8. *)

COORDINATE_VERSION == 1
COORDINATE_FIXED_LEN == 4
MAX_SEGMENT_NAME_LEN == 2
NotUtf8 == 3

new_coordinate(segment, index, record_id) ==
    IF Len(segment) > MAX_SEGMENT_NAME_LEN THEN Err("SegmentTooLong")
    ELSE Ok([segment |-> segment, index |-> index, record_id |-> record_id])

encode_coordinate(c) ==
    <<COORDINATE_VERSION, c.index, c.record_id, Len(c.segment)>> \o c.segment

decode_coordinate(buf) ==
    LET segment == SubSeq(buf, COORDINATE_FIXED_LEN + 1, Len(buf)) IN
    IF Len(buf) < COORDINATE_FIXED_LEN THEN Err("Truncated")
    ELSE IF buf[1] # COORDINATE_VERSION THEN Err("UnsupportedVersion")
    ELSE IF buf[4] > MAX_SEGMENT_NAME_LEN THEN Err("SegmentTooLong")
    ELSE IF Len(buf) # COORDINATE_FIXED_LEN + buf[4] THEN Err("LengthMismatch")
    ELSE IF \E i \in DOMAIN segment : segment[i] = NotUtf8 THEN Err("SegmentNotUtf8")
    ELSE Ok([segment |-> segment, index |-> buf[2], record_id |-> buf[3]])

-----------------------------------------------------------------------------
(* A body on its way, whole or with one byte changed, dropped or added under a
   CRC that was computed afterwards, as by an encoder of another version. *)

VARIABLES
    sent,     \* what was encoded: [batch] or [outcome]
    body      \* the bytes that arrive

codecVars == <<sent, body>>

Records == UNION {[1 .. n -> 0 .. 1] : n \in 1 .. PayloadHardCap}
Batches == UNION {[1 .. n -> Records] : n \in 1 .. RecordsHardCap}
Outcomes == UNION {[1 .. n -> BOOLEAN] : n \in 1 .. RecordsHardCap}

Frames == [message_type : {MessageTypes[b] : b \in DOMAIN MessageTypes},
           durability : Tiers, payload : {<<>>, <<1>>, <<1, 2>>}]
\* What the daemon could name a record: a name over the cap is never sent.
Coordinates == {c \in {new_coordinate(s, i, 1) :
                          s \in UNION {[1 .. n -> 0 .. 1] : n \in 0 .. 3}, i \in 1 .. 2} :
                    c.err = "none"}

NothingSent == [kind |-> "none", value |-> <<>>]
CodecRests == sent = NothingSent /\ body = <<>>

EncodedAs(kind, v) == CASE kind = "batch" -> encode_batch_body(v)
                        [] kind = "outcome" -> encode_ack_batch(v)
                        [] kind = "coordinate" -> encode_coordinate(v)
                        [] kind = "frame" -> envelope_encode(v)
                        [] kind = "nack" -> nack_payload(v)
CodecInit ==
    /\ \/ \E b \in Batches : sent = [kind |-> "batch", value |-> b]
       \/ \E o \in Outcomes : sent = [kind |-> "outcome", value |-> o]
       \/ \E c \in Coordinates : sent = [kind |-> "coordinate", value |-> c.value]
       \/ \E f \in Frames : sent = [kind |-> "frame", value |-> f]
       \/ \E b \in DOMAIN NackReasons \ {ByteOf(NackReasons, "unassigned")} :
             sent = [kind |-> "nack", value |-> NackReasons[b]]
    /\ body = EncodedAs(sent.kind, sent.value)

Encoded == EncodedAs(sent.kind, sent.value)

\* The bytes a place of the body may show instead.
SkewBytes == IF sent.kind \in {"frame", "nack"} THEN FrameBytes ELSE 0 .. ByteSize - 1

\* Another encoder's header field, under a CRC of its own.
OtherHeaders ==
    IF sent.kind # "frame" THEN {}
    ELSE {Sealed([SubSeq(body, 1, HEADER_LEN - 1) EXCEPT ![i] = b])
              \o SubSeq(body, HEADER_LEN + 1, Len(body)) :
          i \in 1 .. HEADER_LEN - 1, b \in FrameBytes}

Skew ==
    /\ sent # NothingSent
    /\ body = Encoded
    /\ body' \in {[body EXCEPT ![i] = b] : i \in DOMAIN body, b \in SkewBytes}
                \cup {SubSeq(body, 1, n) : n \in 0 .. Len(body)}
                \cup {Append(body, b) : b \in SkewBytes}
                \cup OtherHeaders
    /\ UNCHANGED sent

-----------------------------------------------------------------------------
(* What holds *)

\* Under every pair of caps the batch decoders take exactly the encodings of
\* batches within the caps, back to the records that were sent.
BatchesAreExact ==
    /\ sent.kind = "batch" =>
         \A records \in 1 .. RecordsHardCap, len \in 1 .. PayloadHardCap :
            LET d == decode_batch_body(body, records, len)
                Fits(b) == Len(b) <= records /\ \A i \in DOMAIN b : Len(b[i]) <= len
            IN  /\ d.err = "none" => encode_batch_body(d.value) = body /\ Fits(d.value)
                /\ body = Encoded /\ Fits(sent.value) => d = Ok(sent.value)
    /\ sent.kind = "outcome" =>
         \A n \in 1 .. RecordsHardCap :
            LET d == decode_ack_batch(body, n) IN
            /\ d.err = "none" => encode_ack_batch(d.value) = body /\ Len(d.value) = n
            /\ body = Encoded /\ Len(sent.value) = n => d = Ok(sent.value)

\* A coordinate is read as what was sent or not at all.
CoordinatesAreExact ==
    sent.kind = "coordinate" =>
        LET d == decode_coordinate(body) IN
        /\ d.err = "none" => encode_coordinate(d.value) = body
        /\ body = Encoded => d = Ok(sent.value)

\* A frame is read as what was sent; one damaged byte is never read at all; and
\* what another encoder sealed is read only if this one writes the same bytes,
\* the retired tier apart.
FramesAreExact ==
    sent.kind = "frame" =>
        LET d == envelope_decode(body)
            damaged == {i \in DOMAIN body : body[i] # Encoded[i]}
        IN  /\ body = Encoded => d = Ok(sent.value)
            /\ Len(body) # Len(Encoded) \/ Cardinality(damaged) = 1 => d.err # "none"
            /\ d.err = "none" =>
                  \/ envelope_encode(d.value) = body
                  \/ /\ body[4] = RetiredTier /\ d.value.durability = "Durable"
                     /\ envelope_encode(d.value) =
                            Sealed([SubSeq(body, 1, HEADER_LEN - 1) EXCEPT ![4] = 1])
                                \o SubSeq(body, HEADER_LEN + 1, Len(body))

\* A reason arrives as it was sent, also without a version's second byte.
NacksAreExact ==
    sent.kind = "nack" =>
        LET d == nack_error_of(body) IN
        /\ d.err = "none" => nack_payload(d.value)[1] = body[1]
        /\ body # <<>> /\ body[1] = Encoded[1] => d = Ok(sent.value)

\* weir-core/src/batch.rs, coordinate.rs, envelope.rs, nack.rs: no count, length,
\* truncation, padding bit, version or retired byte is read two ways: what
\* decodes is what was encoded.
CodecIsExact ==
    BatchesAreExact /\ CoordinatesAreExact /\ FramesAreExact /\ NacksAreExact
=============================================================================
