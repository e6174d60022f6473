------------------------------- MODULE Client -------------------------------
(***************************************************************************)
(* WeirClient of weir-client over one connection, with the daemon's end of  *)
(* it (socket/connection.rs): requests and replies travel as whole frames,  *)
(* either end may close, and a read or a write of the client may fail at    *)
(* any point of a frame.  A read that failed leaves what it had not taken   *)
(* on the stream.                                                           *)
(*                                                                         *)
(* A request carries an id that the wire does not: replies are matched by   *)
(* position only, which is what the poisoning is for.                       *)
(***************************************************************************)
EXTENDS Wire

CONSTANTS MaxCalls      \* bound: calls on the client

ASSUME ClientBounds == MaxCalls \in Nat

VARIABLES
    client,    \* [poisoned, closed_after_nack, call, last]
    calls,     \* calls so far, the id of the newest one
    upstream,  \* request frames the daemon has not read
    replies,   \* reply frames the client has not read
    peer,      \* [build, open]: the daemon's build and its end of the connection
    durable    \* ids -> the records of that request the daemon made durable

clientVars == <<client, calls, upstream, replies, peer, durable>>

Ids == 1 .. MaxCalls
BatchLen == 2
RecordsOf(kind) == CASE kind \in {"Push", "PushTracked"} -> {1}
                     [] kind = "PushBatch" -> 1 .. BatchLen
                     [] kind = "HealthCheck" -> {}

\* What a caller passes: the payload, and the tier or the default tier.
Payloads == {"fits", "empty", "over_hard_cap", "over_daemon_cap"}

NoCall == [id |-> 0, kind |-> "none", payload |-> "fits", state |-> "idle"]
NoResult == [id |-> 0, kind |-> "none", err |-> "none", nack |-> "none", accepted |-> {}]

\* from_parts: a fresh connection.
from_parts == [poisoned |-> FALSE, closed_after_nack |-> FALSE, call |-> NoCall,
               last |-> NoResult]

ClientRests ==
    /\ client = from_parts
    /\ calls = 0
    /\ upstream = <<>> /\ replies = <<>>
    /\ peer = [build |-> "current", open |-> TRUE]
    /\ durable = [i \in Ids |-> {}]

\* "older" knows neither PushTracked nor PushBatch, "other_version" no header.
ClientInit ==
    /\ client = from_parts
    /\ calls = 0
    /\ upstream = <<>> /\ replies = <<>>
    /\ \E b \in {"current", "older", "other_version"} : peer = [build |-> b, open |-> TRUE]
    /\ durable = [i \in Ids |-> {}]

is_poisoned == client.poisoned \/ client.closed_after_nack

\* ClientError::is_recoverable.
is_recoverable(r) ==
    \/ r.err \in {"PayloadTooLarge", "NoDefaultDurability", "EmptyPayload"}
    \/ r.err = "Nack" /\ r.nack = "InternalError"

-----------------------------------------------------------------------------
(* How a call ends *)

Result(err, nack, accepted) ==
    [id |-> client.call.id, kind |-> client.call.kind, err |-> err, nack |-> nack,
     accepted |-> accepted]

\* The call returns; the flags only ever rise.
Return(result, poisons, closes) ==
    client' = [poisoned |-> client.poisoned \/ poisons,
               closed_after_nack |-> client.closed_after_nack \/ closes,
               call |-> NoCall, last |-> result]

\* nack_error: the first byte of the payload, and for a version the second.
nack_error(frame) == IF frame.nack = "none" THEN "Protocol"
                     ELSE IF frame.nack = "VersionMismatch" THEN "VersionMismatch"
                     ELSE "Nack"

\* surface_nack and note_nack: an empty Nack is a desync, and every reason but
\* InternalError ends the connection.
surface_nack(frame) ==
    LET err == nack_error(frame) IN
    Return(Result(err, frame.nack, {}), err = "Protocol",
           err # "Protocol" /\ frame.nack # "InternalError")

\* The reply types a request can succeed with; the request fixes the shape.
Success(kind) == CASE kind = "Push" -> "Ack"
                   [] kind = "PushTracked" -> "AckTracked"
                   [] kind = "PushBatch" -> "AckBatch"
                   [] kind = "HealthCheck" -> "HealthCheckResponse"

-----------------------------------------------------------------------------
(* The client *)

\* What push refuses before it writes a byte.
LocalRefusal(payload) == CASE payload = "empty" -> "EmptyPayload"
                           [] payload = "over_hard_cap" -> "PayloadTooLarge"
                           [] OTHER -> "none"

\* push, push_tracked, push_batch, health_check and the _default forms: the
\* default tier, ensure_usable, the local guards, then the frame.
Call(kind, payload, tier) ==
    LET ends(err) == client' = [client EXCEPT !.last =
                        [NoResult EXCEPT !.id = calls + 1, !.kind = kind, !.err = err]]
        sends == client' = [client EXCEPT !.last = NoResult, !.call =
                        [id |-> calls + 1, kind |-> kind, payload |-> payload,
                         state |-> "writing"]]
    IN
    /\ client.call = NoCall
    /\ calls < MaxCalls
    /\ calls' = calls + 1
    /\ kind = "HealthCheck" => payload = "fits"
    /\ kind \in {"PushBatch", "HealthCheck"} => tier = "given"
    /\ CASE tier = "unset" -> ends("NoDefaultDurability")
         [] tier = "given" /\ is_poisoned -> ends("Protocol")
         [] tier = "given" /\ ~is_poisoned /\ LocalRefusal(payload) # "none" ->
               ends(LocalRefusal(payload))
         [] OTHER -> sends
    /\ UNCHANGED <<upstream, replies, peer, durable>>

Frame(whole) == [id |-> client.call.id, kind |-> client.call.kind,
                 payload |-> client.call.payload, whole |-> whole]

\* write_all succeeds: into the kernel's buffer, whoever still reads there.
WriteFrame ==
    /\ client.call.state \in {"writing", "part_sent"}
    /\ client' = [client EXCEPT !.call.state = "reading"]
    /\ upstream' = IF ~peer.open THEN upstream
                   ELSE IF client.call.state = "writing" THEN Append(upstream, Frame(TRUE))
                   ELSE [i \in DOMAIN upstream |-> [upstream[i] EXCEPT !.whole = TRUE]]
    /\ UNCHANGED <<calls, replies, peer, durable>>

\* It fails after part of the frame: the peer has closed, or a timeout.
\* send_frame then looks for a Nack; health_check does not.
WriteFails ==
    /\ client.call.state \in {"writing", "part_sent"}
    /\ IF client.call.kind = "HealthCheck"
       THEN Return(Result("Io", "none", {}), TRUE, FALSE)
       ELSE client' = [client EXCEPT !.call.state = "recovering"]
    /\ UNCHANGED <<calls, upstream, replies, peer, durable>>

\* Half of a frame is with the daemon while the client still writes.
WritePart ==
    /\ client.call.state = "writing"
    /\ peer.open
    /\ upstream' = Append(upstream, Frame(FALSE))
    /\ client' = [client EXCEPT !.call.state = "part_sent"]
    /\ UNCHANGED <<calls, replies, peer, durable>>

\* read_response in the middle of send_frame's recovery: a Nack is surfaced,
\* anything else is the write error.
ReadAfterWriteError ==
    LET nacked == IF replies = <<>> THEN FALSE
                  ELSE Head(replies).type = "Nack" /\ Head(replies).whole
    IN
    /\ client.call.state = "recovering"
    /\ \/ /\ nacked
          /\ Return(Result(nack_error(Head(replies)), Head(replies).nack, {}), FALSE, TRUE)
          /\ replies' = Tail(replies)
       \/ /\ ~nacked
          /\ Return(Result("Io", "none", {}), TRUE, FALSE)
          /\ replies' = IF replies = <<>> THEN replies ELSE Tail(replies)
    /\ UNCHANGED <<calls, upstream, peer, durable>>

\* The reply at the head of the stream, whoever it was meant for.
ReadReply ==
    /\ client.call.state = "reading"
    /\ replies # <<>> /\ Head(replies).whole
    /\ LET frame == Head(replies)
           kind == client.call.kind
       IN  \/ /\ frame.type = Success(kind)
              /\ \/ frame.sound /\ Return(Result("none", "none", frame.accepted), FALSE, FALSE)
                 \/ ~frame.sound /\ Return(Result("Protocol", "none", {}), TRUE, FALSE)
           \/ /\ frame.type = "Nack" /\ kind # "PushBatch"
              /\ surface_nack(frame)
           \/ /\ frame.type # Success(kind)
              /\ frame.type # "Nack" \/ kind = "PushBatch"
              /\ Return(Result("Protocol", frame.nack, {}), TRUE, FALSE)
    /\ replies' = Tail(replies)
    /\ UNCHANGED <<calls, upstream, peer, durable>>

\* Mutant: a read that fails leaves the client usable.
ReadFailsUnpoisoned ==
    /\ client.call.state = "reading"
    /\ \/ replies # <<>> /\ replies' = Tail(replies)
       \/ UNCHANGED replies
    /\ Return(Result("Io", "none", {}), FALSE, FALSE)
    /\ UNCHANGED <<calls, upstream, peer, durable>>

\* read_response_inner fails: a header that does not decode, an oversized
\* payload or a wrong CRC; a timeout before or inside the reply; end of stream.
\* What was read of a reply is gone, the rest of the stream is not.
ReadFails ==
    /\ client.call.state = "reading"
    /\ \/ replies # <<>> /\ replies' = Tail(replies)
       \/ UNCHANGED replies
    /\ Return(Result("Io", "none", {}), TRUE, FALSE)
    /\ UNCHANGED <<calls, upstream, peer, durable>>

\* The caller drops a poisoned client and connects again.
Reconnect ==
    /\ client.call = NoCall /\ is_poisoned
    /\ client' = from_parts
    /\ upstream' = <<>> /\ replies' = <<>>
    /\ peer' = [peer EXCEPT !.open = TRUE]
    /\ UNCHANGED <<calls, durable>>

-----------------------------------------------------------------------------
(* The daemon *)

Reply(type, nack, accepted, sound) ==
    [type |-> type, nack |-> nack, accepted |-> accepted, sound |-> sound,
     whole |-> TRUE]

\* A header that does not decode, a message type this build lacks, a payload
\* over its cap: Nack and close, the payload unread.
Refuses(req) ==
    IF peer.build = "other_version" THEN nack_for_decode_error("VersionMismatch")
    ELSE IF peer.build = "older" /\ req.kind \in {"PushTracked", "PushBatch"}
    THEN nack_for_decode_error("UnknownMessageType")
    ELSE IF req.payload = "over_daemon_cap" THEN "PayloadTooLarge" ELSE "none"

RefuseFrame ==
    /\ upstream # <<>> /\ peer.open
    /\ Refuses(Head(upstream)) # "none"
    /\ replies' = Append(replies, Reply("Nack", Refuses(Head(upstream)), {}, TRUE))
    /\ peer' = [peer EXCEPT !.open = FALSE]
    /\ upstream' = Tail(upstream)
    /\ UNCHANGED <<client, calls, durable>>

\* The admission refusal or a transient failure of one record: Nack, keep open.
\* The record may become durable all the same.
NackFrame ==
    /\ upstream # <<>> /\ peer.open
    /\ Head(upstream).whole /\ Head(upstream).kind # "HealthCheck"
    /\ Refuses(Head(upstream)) = "none"
    /\ replies' = Append(replies, Reply("Nack", "InternalError", {}, TRUE))
    /\ \/ /\ Head(upstream).kind # "PushBatch"
          /\ durable' = [durable EXCEPT ![Head(upstream).id] = RecordsOf(Head(upstream).kind)]
       \/ UNCHANGED durable
    /\ upstream' = Tail(upstream)
    /\ UNCHANGED <<client, calls, peer>>

\* handle_push, handle_push_batch and the health check: what is acknowledged is
\* durable.  A later build's coordinate or outcome may not decode here.
AckFrame ==
    /\ upstream # <<>> /\ peer.open
    /\ Head(upstream).whole
    /\ Refuses(Head(upstream)) = "none"
    /\ \E done \in SUBSET RecordsOf(Head(upstream).kind), sound \in BOOLEAN :
          \E accepted \in SUBSET done :
             /\ Head(upstream).kind # "PushBatch" =>
                   accepted = RecordsOf(Head(upstream).kind)
             /\ ~sound => Head(upstream).kind \in {"PushTracked", "PushBatch"}
             /\ durable' = [durable EXCEPT ![Head(upstream).id] = done]
             /\ replies' = Append(replies,
                              Reply(Success(Head(upstream).kind), "none", accepted, sound))
    /\ upstream' = Tail(upstream)
    /\ UNCHANGED <<client, calls, peer>>

\* Shutdown, a crash, an idle or write timeout: the connection ends, in the
\* middle of a reply perhaps.
DaemonCloses ==
    /\ peer.open
    /\ peer' = [peer EXCEPT !.open = FALSE]
    /\ \/ UNCHANGED replies
       \/ /\ replies # <<>>
          /\ replies' = [replies EXCEPT ![Len(replies)].whole = FALSE]
    /\ UNCHANGED <<client, calls, upstream, durable>>

ClientNext ==
    \/ \E k \in Requests, p \in Payloads, t \in {"given", "unset"} : Call(k, p, t)
    \/ WriteFrame \/ WritePart \/ WriteFails \/ ReadAfterWriteError
    \/ ReadReply \/ ReadFails \/ Reconnect
    \/ RefuseFrame \/ NackFrame \/ AckFrame \/ DaemonCloses

-----------------------------------------------------------------------------
(* What holds *)

\* weir-client: a call that succeeds was answered by the daemon for that very
\* request: the records it reports durable are, whatever timeouts, half-read
\* replies and closed connections came before.
NoFalseAck ==
    client.last.err = "none" =>
        client.last.accepted \subseteq (IF client.last.id = 0 THEN {}
                                        ELSE durable[client.last.id])

\* weir-client is_poisoned: after a failed call it is true exactly when that
\* call's error is not recoverable.  (A _default call without a default tier
\* fails before it looks at the connection, and says nothing about it.)
PoisonedMeansReconnect ==
    client.last.err \notin {"none", "NoDefaultDurability"}
        => (is_poisoned <=> ~is_recoverable(client.last))

\* An Ok is the daemon's word, and an error says whether the client can go on.
ClientIsHonest == NoFalseAck /\ PoisonedMeansReconnect
=============================================================================
