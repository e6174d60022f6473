---------------------------- MODULE AdminProofs -----------------------------
(***************************************************************************)
(* The admin socket and the reload it asks for, for every number of        *)
(* operators, every queue depth and every number of rotations, signals,    *)
(* panics and connections: no rotation asked for is missed in silence, and *)
(* what an operator is told of a verb is what happened.                    *)
(***************************************************************************)
EXTENDS AdminSocket, SequenceTheorems, TLAPS

(***************************************************************************)
(* The reload: somebody always owes the rotation that was asked for.       *)
(***************************************************************************)
Outcomes == {"none", "busy", "timed_out", "noop", "applied", "failed", "no_answer"}

Requesters == Admins \cup {Sighup}
AskTypes == [pc : {"idle", "sending", "waiting", "answered"}, asked : Nat, outcome : Outcomes]

Misses == [panics : Nat, last : {"nothing", "reloaded", "panicked", "noop", "raced"}]

ReloadTypes ==
    /\ disk \in [cert : Nat, key : Nat]
    /\ startup \in [pc : {"cert", "key", "loaded", "registered"}, cert : Nat]
    /\ served \in Nat /\ asked \in Nat
    /\ hup \in [pending : BOOLEAN, sent : Nat]
    /\ missed \in Misses
    /\ reloading \in [pc : {"idle", "cert", "key"}, by : Requesters \cup {"nobody"}, cert : Nat]
    /\ asker \in [Admins -> AskTypes]
    /\ requests \in Seq(Requesters)

\* No file, no server and no request is ahead of the disk.
DiskLeads ==
    /\ disk.key <= disk.cert /\ asked <= disk.key
    /\ startup.cert <= disk.cert /\ served <= disk.cert
    /\ \A a \in Admins : asker[a].asked <= disk.key
    /\ reloading.pc = "key" => reloading.cert <= disk.cert /\ served <= reloading.cert

\* A request that no reload has been started for.
Waits == hup.pending \/ requests # << >> \/ \E a \in Admins : asker[a].pc = "sending"

\* What has read the certificate before the last request came, or main before
\* it registers, leaves a request waiting.
ReadersOwe ==
    /\ reloading.pc = "key" => reloading.cert >= asked \/ Waits
    /\ startup.pc \in {"key", "loaded"} => startup.cert >= asked \/ Waits \/ missed.last = "raced"
    /\ startup.pc # "registered" => served = 0 /\ reloading.pc = "idle"
    /\ /\ Registered
       => \/ served >= asked \/ tlsState = "failed" \/ missed.last \in {"panicked", "raced"}
          \/ Waits \/ reloading.pc # "idle"

\* A queued or running request's caller has asked, and is answered from a
\* certificate read after that.
CallersServed ==
    /\ \A i \in 1..Len(requests) :
          requests[i] \in Admins => asker[requests[i]].pc \in {"waiting", "answered"}
    /\ \A a \in Admins :
          /\ reloading.pc # "idle" /\ reloading.by = a => asker[a].pc \in {"waiting", "answered"}
          /\ reloading.pc = "key" /\ reloading.by = a => reloading.cert >= asker[a].asked
          /\ asker[a].pc \in {"idle", "sending", "waiting"} => asker[a].outcome = "none"
          /\ asker[a].outcome = "applied" => served >= asker[a].asked

ReloadInv == ReloadTypes /\ DiskLeads /\ ReadersOwe /\ CallersServed
USE DEF Sighup, NoAsk, NoReload, Outcomes, AskTypes, Misses

\* A request joins the queue.
LEMMA Joins ==
    ASSUME NEW q \in Seq(Requesters), NEW x \in Requesters
    PROVE  /\ Append(q, x) \in Seq(Requesters) /\ Append(q, x) # << >>
           /\ \A i \in 1..Len(Append(q, x)) :
                 Append(q, x)[i] = x \/ (i \in 1..Len(q) /\ Append(q, x)[i] = q[i])
<1>1. Append(q, x) \in Seq(Requesters) /\ Append(q, x) # << >>
    BY AppendProperties
<1>2. ASSUME NEW i \in 1..Len(Append(q, x))
      PROVE  Append(q, x)[i] = x \/ (i \in 1..Len(q) /\ Append(q, x)[i] = q[i])
    OBVIOUS
<1> QED
    BY <1>1, <1>2

\* The loop takes a request off the queue.
LEMMA Leaves ==
    ASSUME NEW q \in Seq(Requesters), q # << >>
    PROVE  /\ Tail(q) \in Seq(Requesters) /\ 1 \in 1..Len(q) /\ Head(q) = q[1]
           /\ Head(q) \in Requesters
           /\ \A i \in 1..Len(Tail(q)) : i + 1 \in 1..Len(q) /\ Tail(q)[i] = q[i + 1]
<1>1. Len(q) \in Nat \ {0} /\ Head(q) = q[1]
    BY EmptySeq
<1> QED
    BY <1>1, HeadTailProperties

LEMMA ReloadStarts == ReloadInit => ReloadInv
<1> SUFFICES ASSUME ReloadInit PROVE ReloadInv
    OBVIOUS
<1> USE DEF ReloadInit
<1>1. ReloadTypes
    BY EmptySeq DEF ReloadTypes
<1>2. DiskLeads /\ ReadersOwe
    BY DEF DiskLeads, ReadersOwe, Registered
<1>3. CallersServed
    BY EmptySeq DEF CallersServed
<1> QED
    BY <1>1, <1>2, <1>3 DEF ReloadInv

LEMMA SettledStarts == ReloadSettled => ReloadInv
<1> SUFFICES ASSUME ReloadSettled PROVE ReloadInv
    OBVIOUS
<1> USE ReloadBounds DEF ReloadSettled
<1>1. ReloadTypes
    BY EmptySeq DEF ReloadTypes
<1>2. DiskLeads /\ ReadersOwe
    BY DEF DiskLeads, ReadersOwe, Registered
<1>3. CallersServed
    BY EmptySeq DEF CallersServed
<1> QED
    BY <1>1, <1>2, <1>3 DEF ReloadInv

LEMMA RotateKeeps == ReloadInv /\ Rotate => ReloadInv'
<1> SUFFICES ASSUME ReloadInv, Rotate PROVE ReloadInv'
    OBVIOUS
<1> USE DEF ReloadInv, Rotate
<1>1. ReloadTypes' /\ DiskLeads'
    BY DEF ReloadTypes, DiskLeads
<1>2. ReadersOwe' /\ CallersServed'
    BY DEF ReadersOwe, CallersServed, Waits, Registered
<1> QED
    BY <1>1, <1>2

LEMMA LoadTlsKeeps == ReloadInv /\ LoadTls => ReloadInv'
<1> SUFFICES ASSUME ReloadInv, LoadTls PROVE ReloadInv'
    OBVIOUS
<1> USE DEF ReloadInv, LoadTls
<1>1. ReloadTypes' /\ DiskLeads'
    BY DEF ReloadTypes, DiskLeads, ReadersOwe
<1>2. Waits' = Waits /\ served' >= served
    BY DEF ReloadTypes, ReadersOwe, Waits
<1>3. ReadersOwe'
    BY <1>2 DEF ReloadTypes, DiskLeads, ReadersOwe, Registered
<1>4. CallersServed'
    BY <1>2 DEF ReloadTypes, CallersServed
<1> QED
    BY <1>1, <1>3, <1>4

LEMMA SendSighupKeeps == ReloadInv /\ SendSighup => ReloadInv'
<1> SUFFICES ASSUME ReloadInv, SendSighup PROVE ReloadInv'
    OBVIOUS
<1> USE DEF ReloadInv, SendSighup
<1>1. ReloadTypes' /\ DiskLeads' /\ Waits'
    BY DEF ReloadTypes, DiskLeads, Waits
<1>2. ReadersOwe' /\ CallersServed'
    BY <1>1 DEF ReadersOwe, CallersServed
<1> QED
    BY <1>1, <1>2

LEMMA SighupTaskKeeps == ReloadInv /\ SighupTask => ReloadInv'
<1> SUFFICES ASSUME ReloadInv, SighupTask PROVE ReloadInv'
    OBVIOUS
<1> USE DEF ReloadInv, SighupTask
<1>1. requests \in Seq(Requesters) /\ Sighup \in Requesters /\ Sighup \notin Admins
    BY ReloadBounds DEF ReloadTypes, Requesters
<1>2. /\ requests' \in Seq(Requesters) /\ requests' # << >>
      /\ \A i \in 1..Len(requests') :
            requests'[i] \in Admins => i \in 1..Len(requests) /\ requests'[i] = requests[i]
    BY <1>1, Joins, ReloadBounds
<1>3. ReloadTypes' /\ DiskLeads' /\ Waits'
    BY <1>2 DEF ReloadTypes, DiskLeads, Waits
<1>4. ReadersOwe' /\ CallersServed'
    BY <1>2, <1>3 DEF ReadersOwe, CallersServed, Registered
<1> QED
    BY <1>3, <1>4

LEMMA AskReloadKeeps ==
    ASSUME NEW a \in Admins, ReloadInv, asker[a].pc = "idle", AskReload(a)
    PROVE  ReloadInv'
<1> USE DEF ReloadInv, AskReload
<1>1. ReloadTypes' /\ DiskLeads' /\ Waits'
    BY DEF ReloadTypes, DiskLeads, Waits
<1>2. ReadersOwe'
    BY <1>1 DEF ReadersOwe, Registered
<1>3. CallersServed'
    BY DEF ReloadTypes, CallersServed
<1> QED
    BY <1>1, <1>2, <1>3

\* One admin's call moves on; what it asked for stays.
AskerMoves(a, pc, outcome) ==
    /\ asker' \in [Admins -> AskTypes]
    /\ \A b \in Admins \ {a} : asker'[b] = asker[b]
    /\ asker'[a].pc = pc /\ asker'[a].outcome = outcome /\ asker'[a].asked = asker[a].asked

LEMMA AskerSteps ==
    ASSUME NEW a \in Admins, asker \in [Admins -> AskTypes], NEW c \in AskTypes,
           asker' = [asker EXCEPT ![a] = c], c.asked = asker[a].asked
    PROVE  AskerMoves(a, c.pc, c.outcome)
<1> HIDE DEF AskTypes
<1> QED
    BY DEF AskerMoves

LEMMA AskerEnqueues ==
    ASSUME NEW a \in Admins, asker \in [Admins -> AskTypes]
    PROVE  asker' = [asker EXCEPT ![a].pc = "waiting"]
               => AskerMoves(a, "waiting", asker[a].outcome)
<1> DEFINE c == [asker[a] EXCEPT !.pc = "waiting"]
<1>1. asker[a] \in AskTypes
    OBVIOUS
<1>2. /\ c \in AskTypes /\ c.pc = "waiting" /\ c.outcome = asker[a].outcome
      /\ c.asked = asker[a].asked
    BY <1>1
<1>3. asker' = [asker EXCEPT ![a].pc = "waiting"]
        => asker' = [asker EXCEPT ![a] = c]
    OBVIOUS
<1> HIDE DEF c, AskTypes, Outcomes
<1>4. asker' = [asker EXCEPT ![a] = c] => AskerMoves(a, "waiting", asker[a].outcome)
    BY <1>2, AskerSteps
<1> QED
    BY <1>3, <1>4

LEMMA AskerAnswered ==
    ASSUME NEW a \in Admins, asker \in [Admins -> AskTypes], NEW outcome \in Outcomes
    PROVE  asker' = [asker EXCEPT ![a].pc = "answered", ![a].outcome = outcome]
               => AskerMoves(a, "answered", outcome)
<1> DEFINE c == [asker[a] EXCEPT !.pc = "answered", !.outcome = outcome]
<1>1. asker[a] \in AskTypes
    OBVIOUS
<1>2. /\ c \in AskTypes /\ c.pc = "answered" /\ c.outcome = outcome
      /\ c.asked = asker[a].asked
    BY <1>1
<1>3. asker' = [asker EXCEPT ![a].pc = "answered", ![a].outcome = outcome]
        => asker' = [asker EXCEPT ![a] = c]
    OBVIOUS
<1> HIDE DEF c, AskTypes, Outcomes
<1>4. asker' = [asker EXCEPT ![a] = c] => AskerMoves(a, "answered", outcome)
    BY <1>2, AskerSteps
<1> QED
    BY <1>3, <1>4

LEMMA EnqueueReloadKeeps ==
    ASSUME NEW a \in Admins, ReloadInv, EnqueueReload(a)
    PROVE  ReloadInv'
<1> USE DEF ReloadInv
<1>1. requests \in Seq(Requesters) /\ a \in Requesters
    BY DEF ReloadTypes, Requesters
<1>2. /\ requests' \in Seq(Requesters) /\ requests' # << >>
      /\ \A i \in 1..Len(requests') :
            requests'[i] = a \/ (i \in 1..Len(requests) /\ requests'[i] = requests[i])
  <2>1. CASE requests' = Append(requests, a)
    BY <1>1, <2>1, Joins
  <2>2. CASE requests' = requests /\ Len(requests) >= QueueDepth
    BY <1>1, <2>2, ReloadBounds
  <2> QED
    BY <2>1, <2>2 DEF EnqueueReload
<1>3. AskerMoves(a, "waiting", "none") \/ AskerMoves(a, "answered", "busy")
  <2>0. asker \in [Admins -> AskTypes]
    BY DEF ReloadTypes
  <2>1. asker[a].outcome = "none"
    BY DEF EnqueueReload, CallersServed
  <2> QED
    BY <2>0, <2>1, AskerEnqueues, AskerAnswered DEF EnqueueReload
<1>4. UNCHANGED <<disk, startup, served, hup, reloading, tlsState, asked, missed>>
    BY DEF EnqueueReload
<1>5. ReloadTypes'
    BY <1>2, <1>3, <1>4 DEF ReloadTypes, AskerMoves
<1>6. DiskLeads'
    BY <1>3, <1>4 DEF DiskLeads, AskerMoves
<1>7. Waits'
    BY <1>2 DEF Waits
<1>8. ReadersOwe'
    BY <1>4, <1>7 DEF ReadersOwe, Registered
<1>9. CallersServed'
  <2>1. asker'[a].pc \in {"waiting", "answered"} /\ asker'[a].outcome # "applied"
        /\ (asker'[a].pc = "waiting" => asker'[a].outcome = "none")
        /\ asker'[a].asked = asker[a].asked
    BY <1>3 DEF AskerMoves
  <2>2. \A b \in Admins \ {a} : asker'[b] = asker[b]
    BY <1>3 DEF AskerMoves
  <2>3. ASSUME NEW i \in 1..Len(requests'), requests'[i] \in Admins
        PROVE  asker'[requests'[i]].pc \in {"waiting", "answered"}
    BY <1>2, <2>1, <2>2, <2>3 DEF CallersServed
  <2> HIDE DEF ReloadInv
  <2>4. CallersServed
    BY DEF ReloadInv
  <2> QED
    BY <1>4, <2>1, <2>2, <2>3, <2>4 DEF CallersServed
<1> QED
    BY <1>5, <1>6, <1>8, <1>9

LEMMA ReloadTimesOutKeeps ==
    ASSUME NEW a \in Admins, ReloadInv, ReloadTimesOut(a)
    PROVE  ReloadInv'
<1> USE DEF ReloadInv
<1>1. AskerMoves(a, "answered", "timed_out") /\ asker[a].pc = "waiting"
    BY AskerAnswered DEF ReloadTimesOut, ReloadTypes
<1>2. UNCHANGED <<disk, startup, served, hup, requests, reloading, tlsState, asked, missed>>
    BY DEF ReloadTimesOut
<1>3. ReloadTypes' /\ DiskLeads'
    BY <1>1, <1>2 DEF ReloadTypes, DiskLeads, AskerMoves
<1>4. Waits' <=> Waits
    BY <1>1, <1>2 DEF Waits, AskerMoves
<1>5. ReadersOwe'
    BY <1>2, <1>4 DEF ReadersOwe, Registered
<1>6. CallersServed'
    BY <1>1, <1>2 DEF CallersServed, AskerMoves
<1> QED
    BY <1>3, <1>5, <1>6

\* What an answer to by changes: nothing that a step of the loop depends on.
LEMMA AnswersOnly ==
    ASSUME NEW by, NEW outcome \in Outcomes, ReloadInv, asker' = Answered(by, outcome)
    PROVE  /\ asker' \in [Admins -> AskTypes]
           /\ \A a \in Admins :
                 \/ asker'[a] = asker[a]
                 \/ /\ a = by /\ asker[a].pc = "waiting" /\ asker'[a].pc = "answered"
                    /\ asker'[a].outcome = outcome /\ asker'[a].asked = asker[a].asked
<1> USE DEF ReloadInv, ReloadTypes
<1>1. ASSUME NEW a \in Admins
      PROVE  asker'[a] = IF a = by /\ asker[a].pc = "waiting"
                         THEN [asker[a] EXCEPT !.pc = "answered", !.outcome = outcome]
                         ELSE asker[a]
    BY DEF Answered
<1>2. ASSUME NEW a \in Admins
      PROVE  /\ asker'[a] \in AskTypes
             /\ asker[a].pc = "waiting" /\ a = by
                  => /\ asker'[a].pc = "answered" /\ asker'[a].outcome = outcome
                     /\ asker'[a].asked = asker[a].asked
  <2>1. asker[a] \in AskTypes
    OBVIOUS
  <2> HIDE DEF ReloadInv, ReloadTypes
  <2> QED
    BY <1>1, <2>1
<1>3. asker' \in [Admins -> AskTypes]
    BY <1>2 DEF Answered
<1> HIDE DEF ReloadInv, ReloadTypes, Outcomes, AskTypes
<1> QED
    BY <1>1, <1>2, <1>3

LEMMA TakeRequestKeeps == ReloadInv /\ TakeRequest => ReloadInv'
<1> SUFFICES ASSUME ReloadInv, TakeRequest PROVE ReloadInv'
    OBVIOUS
<1>1. /\ requests' \in Seq(Requesters) /\ 1 \in 1..Len(requests)
      /\ Head(requests) = requests[1] /\ Head(requests) \in Requesters
      /\ \A i \in 1..Len(requests') : i + 1 \in 1..Len(requests) /\ requests'[i] = requests[i + 1]
    BY Leaves DEF ReloadInv, ReloadTypes, TakeRequest
<1>2. CASE Registered
  <2> USE <1>2 DEF ReloadInv, TakeRequest
  <2>1. asker' = asker /\ missed' = missed
        /\ reloading' = [pc |-> "cert", by |-> Head(requests), cert |-> 0]
    OBVIOUS
  <2>2. ReloadTypes' /\ DiskLeads'
    BY <1>1, <2>1 DEF ReloadTypes, DiskLeads
  <2>3. ReadersOwe'
    BY <2>1 DEF ReadersOwe, Registered
  <2>4. CallersServed'
    <3>1. ASSUME NEW i \in 1..Len(requests'), requests'[i] \in Admins
          PROVE  asker'[requests'[i]].pc \in {"waiting", "answered"}
      BY <1>1, <2>1, <3>1 DEF CallersServed
    <3>2. reloading'.by \in Admins => asker'[reloading'.by].pc \in {"waiting", "answered"}
      BY <1>1, <2>1 DEF CallersServed
    <3> QED
      BY <2>1, <3>1, <3>2 DEF CallersServed
  <2> QED
    BY <2>2, <2>3, <2>4
<1>3. CASE ~Registered
  <2>1. asker' = Answered(Head(requests), "noop") /\ reloading' = reloading
    BY <1>3 DEF TakeRequest
  <2>2. /\ asker' \in [Admins -> AskTypes]
        /\ \A a \in Admins :
              \/ asker'[a] = asker[a]
              \/ /\ asker'[a].asked = asker[a].asked
                 /\ asker'[a].pc = "answered" /\ asker'[a].outcome = "noop"
    BY <2>1, AnswersOnly
  <2> USE <1>3 DEF ReloadInv, TakeRequest
  <2>3. ReloadTypes' /\ DiskLeads'
    BY <1>1, <2>1, <2>2 DEF ReloadTypes, DiskLeads
  <2>4. ReadersOwe'
    BY <2>1 DEF ReloadTypes, ReadersOwe, Registered
  <2>5. reloading'.pc = "idle"
    BY <2>1 DEF ReadersOwe, Registered
  <2>6. CallersServed'
    <3>1. ASSUME NEW i \in 1..Len(requests'), requests'[i] \in Admins
          PROVE  asker'[requests'[i]].pc \in {"waiting", "answered"}
      BY <1>1, <2>2, <3>1 DEF CallersServed
    <3>2. ASSUME NEW a \in Admins
          PROVE  /\ asker'[a].pc \in {"idle", "sending", "waiting"} => asker'[a].outcome = "none"
                 /\ asker'[a].outcome = "applied" => served' >= asker'[a].asked
      BY <2>2, <3>2 DEF CallersServed
    <3> QED
      BY <2>5, <3>1, <3>2 DEF CallersServed
  <2> QED
    BY <2>3, <2>4, <2>6
<1> QED
    BY <1>2, <1>3

LEMMA ReadCertKeeps == ReloadInv /\ ReadCert => ReloadInv'
<1> SUFFICES ASSUME ReloadInv, ReadCert PROVE ReloadInv'
    OBVIOUS
<1> USE DEF ReloadInv, ReadCert
<1>0. ReloadTypes'
    BY DEF ReloadTypes
<1>1. DiskLeads'
    BY DEF ReloadTypes, DiskLeads
<1>2. reloading'.cert >= asked
    BY DEF ReloadTypes, DiskLeads
<1>3. ReadersOwe'
    BY <1>2 DEF ReloadTypes, ReadersOwe, Registered, Waits
<1>4. CallersServed'
    BY DEF ReloadTypes, DiskLeads, CallersServed
<1> QED
    BY <1>0, <1>1, <1>3, <1>4

\* What the end of a reload leaves of the invariant, whatever its outcome.
LEMMA ReloadEnds ==
    ASSUME NEW outcome \in Outcomes, ReloadInv, reloading.pc # "idle", reloading' = NoReload,
           asker' = Answered(reloading.by, outcome),
           served' \in Nat, served' >= served, served' <= disk.cert,
           UNCHANGED <<disk, startup, hup, requests, asked>>,
           missed' \in Misses,
           outcome = "applied" => reloading.pc = "key" /\ served' = reloading.cert
    PROVE  /\ ReloadTypes' /\ DiskLeads' /\ CallersServed' /\ (Waits' <=> Waits) /\ Registered'
<1>1. /\ asker' \in [Admins -> AskTypes]
      /\ \A a \in Admins :
            \/ asker'[a] = asker[a]
            \/ /\ a = reloading.by /\ asker[a].pc = "waiting" /\ asker'[a].pc = "answered"
               /\ asker'[a].outcome = outcome /\ asker'[a].asked = asker[a].asked
    BY AnswersOnly
<1> USE DEF ReloadInv
<1>2. ReloadTypes'
    BY <1>1 DEF ReloadTypes
<1>3. DiskLeads'
    BY <1>1 DEF DiskLeads
<1>4. Waits' <=> Waits
    BY <1>1 DEF Waits
<1>5. Registered'
    BY DEF ReadersOwe, Registered
<1>6. CallersServed'
  <2>1. ASSUME NEW i \in 1..Len(requests'), requests'[i] \in Admins
        PROVE  asker'[requests'[i]].pc \in {"waiting", "answered"}
    BY <1>1, <2>1 DEF CallersServed
  <2>2. ASSUME NEW a \in Admins
        PROVE  asker'[a].pc \in {"idle", "sending", "waiting"} => asker'[a].outcome = "none"
    BY <1>1, <2>2 DEF CallersServed
  <2>3. ASSUME NEW a \in Admins, asker'[a].outcome = "applied"
        PROVE  served' >= asker'[a].asked
    BY <1>1, <2>3 DEF CallersServed, ReloadTypes
  <2> QED
    BY <2>1, <2>2, <2>3 DEF CallersServed
<1> QED
    BY <1>2, <1>3, <1>4, <1>5, <1>6

LEMMA FinishReloadKeeps == ReloadInv /\ FinishReload => ReloadInv'
<1> SUFFICES ASSUME ReloadInv, FinishReload PROVE ReloadInv'
    OBVIOUS
<1> USE DEF ReloadInv, FinishReload
<1>1. CASE /\ disk.key = reloading.cert /\ served' = reloading.cert
           /\ asker' = Answered(reloading.by, "applied")
  <2>1. served' \in Nat /\ served' >= served /\ served' <= disk.cert
    BY <1>1 DEF ReloadTypes, DiskLeads
  <2>2. ReloadTypes' /\ DiskLeads' /\ CallersServed' /\ (Waits' <=> Waits) /\ Registered'
    BY <1>1, <2>1, ReloadEnds DEF ReloadTypes
  <2>3. ReadersOwe'
    BY <1>1, <2>2 DEF ReadersOwe, Registered
  <2> QED
    BY <2>2, <2>3
<1>2. CASE served' = served /\ tlsState' = "failed" /\ asker' = Answered(reloading.by, "failed")
  <2>1. served' \in Nat /\ served' >= served /\ served' <= disk.cert
    BY <1>2 DEF ReloadTypes, DiskLeads
  <2>2. ReloadTypes' /\ DiskLeads' /\ CallersServed' /\ (Waits' <=> Waits) /\ Registered'
    BY <1>2, <2>1, ReloadEnds DEF ReloadTypes
  <2>3. ReadersOwe'
    BY <1>2, <2>2 DEF ReadersOwe, Registered
  <2> QED
    BY <2>2, <2>3
<1> QED
    BY <1>1, <1>2

LEMMA ReloadPanicsKeeps == ReloadInv /\ ReloadPanics => ReloadInv'
<1> SUFFICES ASSUME ReloadInv, ReloadPanics PROVE ReloadInv'
    OBVIOUS
<1> USE DEF ReloadInv, ReloadPanics
<1>1. served' \in Nat /\ served' >= served /\ served' <= disk.cert
    BY DEF ReloadTypes, DiskLeads
<1>2. missed' \in Misses /\ missed'.last = "panicked"
    BY DEF ReloadTypes
<1>3. ReloadTypes' /\ DiskLeads' /\ CallersServed' /\ (Waits' <=> Waits) /\ Registered'
    BY <1>1, <1>2, ReloadEnds
<1>4. ReadersOwe'
    BY <1>2, <1>3 DEF ReadersOwe, Registered
<1> QED
    BY <1>3, <1>4

LEMMA ReloadNextKeeps == ReloadInv /\ ReloadNext => ReloadInv'
    BY RotateKeeps, LoadTlsKeeps, SendSighupKeeps, SighupTaskKeeps, EnqueueReloadKeeps,
       ReloadTimesOutKeeps, TakeRequestKeeps, ReadCertKeeps, FinishReloadKeeps,
       ReloadPanicsKeeps DEF ReloadNext, ReloadLoop

LEMMA ReloadStutters == ReloadInv /\ UNCHANGED reloadVars => ReloadInv'
    BY DEF reloadVars, ReloadInv, ReloadTypes, DiskLeads, ReadersOwe, CallersServed, Waits,
           Registered

LEMMA ReloadInvCatchesUp == ReloadInv => ReloadCatchesUp
    BY DEF ReloadInv, ReloadCatchesUp, Quiet, ReadersOwe, CallersServed, Waits, Registered

\* reload.rs: no rotation that SIGHUP or an admin asked for is missed in silence,
\* however deep the queue and however requests, reloads and main's own load fall.
THEOREM ReloadsCatchUp == ReloadSpec => []ReloadCatchesUp
<1>1. ReloadInv /\ [ReloadScene]_reloadVars => ReloadInv'
    BY ReloadNextKeeps, AskReloadKeeps, ReloadStutters DEF ReloadScene
<1> QED
    BY ReloadStarts, <1>1, ReloadInvCatchesUp, PTL DEF ReloadSpec

(***************************************************************************)
(* The admin socket.                                                       *)
(***************************************************************************)
Refusals == {"unreachable", "busy", "forbidden", "bad_request", "shutting_down", "unavailable"}
Replies == (Refusals \ {"unreachable"}) \cup Outcomes
           \cup {"ok", "observed", "not_yet", "no_counts", "internal"}

CtlTypes == [pc : {"idle", "connecting", "reading", "done"}, verb : Verbs,
             sent : {"nothing", "cut", "whole"},
             outcome : Replies \cup {"unreachable", "no_reply", "identity", "protocol"}]
ConnTypes == [pc : {"none", "open", "parsed", "admitted", "stored", "waiting", "reloading",
                    "closed"},
              ticket : Nat, reply : Replies]

AdminTypes ==
    /\ ctl \in [Admins -> CtlTypes] /\ conn \in [Admins -> ConnTypes]
    /\ guard \in Admins \cup {NoGuard}
    /\ level \in {"running", "raised"}
    /\ intent \in [pause : BOOLEAN, req : Nat, seen : Nat]
    /\ mirror \in BOOLEAN
    /\ cells \in [paused : BOOLEAN, observed : Nat, last : Nat]
    /\ service \in [pc : {"idle", "scanned", "stored", "published", "gave_up"}, ticket : Nat,
                    seen : Nat, panics : Nat]
    /\ acted \subseteq Admins

\* The counts on the cells are at least as new as the ticket they are shown for.
TicketInv ==
    /\ cells.observed <= cells.last /\ cells.last <= intent.req
    /\ service.pc = "scanned" => cells.last <= service.ticket /\ service.ticket <= intent.req
    /\ service.pc \in {"stored", "published"} => cells.last = service.ticket
    /\ \A a \in Admins : conn[a].reply # "no_counts"

\* Between the two stores of a pause or a resume its verb holds the guard, and
\* the intent is that verb's.
GuardInv ==
    /\ \A a \in Admins : /\ conn[a].pc = "stored" <=> guard = a
                         /\ guard = a => intent.pause = (ctl[a].verb = "drain.pause")
    /\ guard = NoGuard /\ level = "running" => mirror = intent.pause

\* A call that acted was sent whole, its connection is past its refusals, and
\* what weir-ctl reported as a refusal is what the server wrote, or was never sent.
CallInv(a) ==
    /\ ctl[a].pc \in {"idle", "connecting"} => ctl[a].sent = "nothing"
    /\ ctl[a].pc = "idle" => conn[a].pc = "none"
    /\ ctl[a].pc # "done" => ctl[a].outcome = "none"
    /\ conn[a].pc \in {"parsed", "admitted", "stored", "waiting", "reloading"} \/ a \in acted
           => ctl[a].sent = "whole"
    /\ conn[a].reply # "none" => conn[a].pc = "closed"
    /\ a \in acted => conn[a].pc \in {"stored", "waiting", "closed"}
                      /\ conn[a].reply \notin Refusals
    /\ ctl[a].outcome \in Refusals
           => \/ ctl[a].outcome = "unreachable" /\ ctl[a].sent # "whole"
              \/ ctl[a].outcome = conn[a].reply
    /\ conn[a].pc \in {"none", "open", "parsed"} => asker[a].pc = "idle"

CallsInv == \A a \in Admins : CallInv(a)

AdminInv == ReloadInv /\ AdminTypes /\ TicketInv /\ GuardInv /\ CallsInv

USE DEF NoGuard, NotCalled, NoConn

LEMMA AdminStarts == AdminInit => AdminInv
<1> SUFFICES ASSUME AdminInit PROVE AdminInv
    OBVIOUS
<1>1. ReloadInv
    BY SettledStarts DEF AdminInit
<1>2. \A a \in Admins : asker[a].pc = "idle"
    BY DEF AdminInit, ReloadSettled
<1> USE DEF AdminInit, AdminRests
<1>3. NotCalled \in CtlTypes /\ NoConn \in ConnTypes
    BY DEF CtlTypes, ConnTypes, Verbs, Replies
<1>4. AdminTypes
    BY <1>3 DEF AdminTypes
<1>5. TicketInv
    BY DEF TicketInv
<1>7. \A a \in Admins : conn[a].pc # "stored" /\ guard # a
    BY AdminBounds
<1>8. GuardInv
    BY <1>7 DEF GuardInv
<1>6. CallsInv
    BY <1>2 DEF CallsInv, CallInv, Refusals
<1> QED
    BY <1>1, <1>4, <1>5, <1>6, <1>8 DEF AdminInv

\* A step that changes nothing of the reload keeps what CallInv knows of it.
LEMMA ReloadRests == ReloadInv /\ UNCHANGED reloadVars => ReloadInv' /\ asker' = asker
<1>1. UNCHANGED reloadVars => asker' = asker
    BY DEF reloadVars
<1> QED
    BY ReloadStutters, <1>1

\* A step of one call leaves the others' calls alone.
LEMMA OthersKeep ==
    ASSUME NEW a \in Admins, CallsInv, CallInv(a)',
           \A b \in Admins \ {a} : /\ ctl'[b] = ctl[b] /\ conn'[b] = conn[b]
                                   /\ asker'[b] = asker[b] /\ (b \in acted' <=> b \in acted)
    PROVE  CallsInv'
<1>1. ASSUME NEW b \in Admins, b # a PROVE CallInv(b)'
    BY <1>1 DEF CallsInv, CallInv
<1> QED
    BY <1>1 DEF CallsInv

\* A step of weir-ctl alone.
LEMMA CtlStep ==
    ASSUME NEW a \in Admins, AdminInv, NEW c \in CtlTypes, ctl' = [ctl EXCEPT ![a] = c],
           UNCHANGED <<reloadVars, conn, guard, level, intent, mirror, cells, service, acted>>,
           c.verb = ctl[a].verb \/ conn[a].pc = "none",
           CallInv(a)'
    PROVE  AdminInv'
<1>1. ReloadInv' /\ asker' = asker
    BY ReloadRests DEF AdminInv
<1>2. /\ \A b \in Admins \ {a} : ctl'[b] = ctl[b]
      /\ ctl'[a] = c /\ ctl' \in [Admins -> CtlTypes]
    BY DEF AdminInv, AdminTypes
<1>3. AdminTypes'
    BY <1>2 DEF AdminInv, AdminTypes
<1>4. TicketInv'
    BY DEF AdminInv, TicketInv
<1>5. GuardInv'
    BY <1>2 DEF AdminInv, GuardInv
<1>6. CallsInv'
    BY <1>1, <1>2, OthersKeep DEF AdminInv
<1> QED
    BY <1>1, <1>3, <1>4, <1>5, <1>6 DEF AdminInv

\* A step of a connection that neither takes nor holds the guard.
LEMMA ConnStep ==
    ASSUME NEW a \in Admins, AdminInv, NEW c \in ConnTypes, conn' = [conn EXCEPT ![a] = c],
           UNCHANGED <<reloadVars, ctl, guard, level, intent, mirror, cells, service>>,
           acted' \in {acted, acted \cup {a}},
           conn[a].pc # "stored", c.pc # "stored", c.reply # "no_counts",
           CallInv(a)'
    PROVE  AdminInv'
<1>1. ReloadInv' /\ asker' = asker
    BY ReloadRests DEF AdminInv
<1>2. /\ \A b \in Admins \ {a} : conn'[b] = conn[b]
      /\ conn'[a] = c /\ conn' \in [Admins -> ConnTypes]
    BY DEF AdminInv, AdminTypes
<1>3. AdminTypes'
    BY <1>2 DEF AdminInv, AdminTypes
<1>4. TicketInv'
    BY <1>2 DEF AdminInv, TicketInv
<1>5. GuardInv'
    BY <1>2 DEF AdminInv, GuardInv
<1>6. CallsInv'
    BY <1>1, <1>2, OthersKeep DEF AdminInv
<1> QED
    BY <1>1, <1>3, <1>4, <1>5, <1>6 DEF AdminInv

LEMMA BeginCallKeeps ==
    ASSUME NEW a \in Admins, AdminInv, BeginCall(a)
    PROVE  AdminInv'
<1>1. ctl \in [Admins -> CtlTypes] /\ ctl[a] \in CtlTypes /\ CallInv(a) /\ ReloadInv
    BY DEF AdminInv, AdminTypes, CallsInv
<1>2. asker' = asker /\ conn' = conn /\ acted' = acted
    BY <1>1, ReloadRests DEF BeginCall
<1>3. PICK c \in CtlTypes : /\ ctl' = [ctl EXCEPT ![a] = c]
                            /\ \/ c.pc = "connecting" /\ c.outcome = "none"
                               \/ c.pc = "done" /\ c.outcome \in {"unreachable", "identity"}
                            /\ c.sent = "nothing"
  <2>1. ctl[a].pc = "idle" /\ ctl[a].sent = "nothing" /\ ctl[a].outcome = "none"
    BY <1>1 DEF BeginCall, CallInv
  <2>2. ASSUME NEW verb \in Verbs,
               ctl' = [ctl EXCEPT ![a].pc = "connecting", ![a].verb = verb]
        PROVE  \E c \in CtlTypes : /\ ctl' = [ctl EXCEPT ![a] = c]
                            /\ c.pc = "connecting" /\ c.outcome = "none" /\ c.sent = "nothing"
    <3> DEFINE c == [ctl[a] EXCEPT !.pc = "connecting", !.verb = verb]
    <3>1. c \in CtlTypes /\ c.pc = "connecting" /\ c.outcome = "none" /\ c.sent = "nothing"
      BY <1>1, <2>1 DEF CtlTypes
    <3>2. ctl' = [ctl EXCEPT ![a] = c]
      BY <1>1, <2>2 DEF CtlTypes
    <3> QED
      BY <3>1, <3>2
  <2>3. ASSUME NEW why \in {"unreachable", "identity"}, Finish(a, why)
        PROVE  \E c \in CtlTypes : /\ ctl' = [ctl EXCEPT ![a] = c]
                            /\ c.pc = "done" /\ c.outcome = why /\ c.sent = "nothing"
    <3> DEFINE c == [ctl[a] EXCEPT !.pc = "done", !.outcome = why]
    <3>1. c \in CtlTypes /\ c.pc = "done" /\ c.outcome = why /\ c.sent = "nothing"
      BY <1>1, <2>1 DEF CtlTypes
    <3>2. ctl' = [ctl EXCEPT ![a] = c]
      BY <1>1, <2>3 DEF CtlTypes, Finish
    <3> QED
      BY <3>1, <3>2
  <2> QED
    BY <2>2, <2>3 DEF BeginCall
<1>4. ctl'[a] = c
    BY <1>1, <1>3
<1>5. conn[a].pc = "none" /\ ctl[a].pc = "idle"
    BY <1>1 DEF BeginCall, CallInv
<1>6. CallInv(a)'
    BY <1>1, <1>2, <1>3, <1>4, <1>5 DEF CallInv, Refusals
<1> QED
    BY <1>3, <1>5, <1>6, CtlStep DEF BeginCall

\* The end of a call, with an outcome that is no refusal, or one that CallInv allows.
LEMMA FinishKeeps ==
    ASSUME NEW a \in Admins, AdminInv, ctl[a].pc \in {"connecting", "reading"},
           NEW sent \in {"nothing", "cut", "whole"},
           NEW outcome \in Replies \cup {"unreachable", "no_reply", "identity", "protocol"},
           ctl' = [ctl EXCEPT ![a].pc = "done", ![a].sent = sent, ![a].outcome = outcome],
           UNCHANGED <<reloadVars, conn, guard, level, intent, mirror, cells, service, acted>>,
           ctl[a].sent = "whole" => sent = "whole",
           outcome \in Refusals => \/ outcome = "unreachable" /\ sent # "whole"
                                   \/ outcome = conn[a].reply
    PROVE  AdminInv'
<1> DEFINE c == [ctl[a] EXCEPT !.pc = "done", !.sent = sent, !.outcome = outcome]
<1>1. ctl \in [Admins -> CtlTypes] /\ ctl[a] \in CtlTypes /\ CallInv(a) /\ ReloadInv
    BY DEF AdminInv, AdminTypes, CallsInv
<1>2. asker' = asker /\ conn' = conn /\ acted' = acted
    BY <1>1, ReloadRests
<1>3. /\ c \in CtlTypes /\ c.pc = "done" /\ c.sent = sent /\ c.outcome = outcome
      /\ c.verb = ctl[a].verb
    BY <1>1 DEF CtlTypes
<1>4. ctl' = [ctl EXCEPT ![a] = c]
    BY <1>1 DEF CtlTypes
<1>5. ctl'[a] = c
    BY <1>1, <1>4
<1> HIDE DEF c
<1>6. CallInv(a)'
    BY <1>1, <1>2, <1>3, <1>5 DEF CallInv
<1> QED
    BY <1>3, <1>4, <1>6, CtlStep

\* A call that reads keeps what it sent when it ends.
LEMMA FinishReading ==
    ASSUME NEW a \in Admins, AdminInv, ctl[a].pc = "reading",
           NEW outcome \in Replies \cup {"unreachable", "no_reply", "identity", "protocol"},
           Finish(a, outcome),
           UNCHANGED <<reloadVars, conn, guard, level, intent, mirror, cells, service, acted>>,
           outcome \in Refusals => \/ outcome = "unreachable" /\ ctl[a].sent # "whole"
                                   \/ outcome = conn[a].reply
    PROVE  AdminInv'
<1>1. ctl \in [Admins -> CtlTypes] /\ ctl[a] \in CtlTypes
    BY DEF AdminInv, AdminTypes
<1>2. ctl[a].sent \in {"nothing", "cut", "whole"}
    BY <1>1 DEF CtlTypes
<1>3. ctl' = [ctl EXCEPT ![a].pc = "done", ![a].sent = ctl[a].sent, ![a].outcome = outcome]
    BY <1>1 DEF CtlTypes, Finish
<1> QED
    BY <1>2, <1>3, FinishKeeps

LEMMA SendRequestKeeps ==
    ASSUME NEW a \in Admins, AdminInv, SendRequest(a)
    PROVE  AdminInv'
<1>1. ctl \in [Admins -> CtlTypes] /\ ctl[a] \in CtlTypes /\ CallInv(a) /\ ReloadInv
    BY DEF AdminInv, AdminTypes, CallsInv
<1>2. asker' = asker /\ conn' = conn /\ acted' = acted
    BY <1>1, ReloadRests DEF SendRequest
<1>3. ASSUME NEW sent \in {"whole", "cut"}, sent = "cut" => conn[a].pc = "closed",
             ctl' = [ctl EXCEPT ![a].pc = "reading", ![a].sent = sent]
      PROVE  AdminInv'
  <2> DEFINE c == [ctl[a] EXCEPT !.pc = "reading", !.sent = sent]
  <2>1. /\ c \in CtlTypes /\ c.pc = "reading" /\ c.sent = sent /\ c.outcome = ctl[a].outcome
        /\ c.verb = ctl[a].verb
    BY <1>1 DEF CtlTypes
  <2>2. ctl' = [ctl EXCEPT ![a] = c]
    BY <1>1, <1>3 DEF CtlTypes
  <2>3. ctl'[a] = c
    BY <1>1, <2>2
  <2> HIDE DEF c
  <2>4. ctl[a].pc = "connecting" /\ ctl[a].outcome = "none" /\ a \notin acted
    BY <1>1 DEF SendRequest, CallInv
  <2>5. CallInv(a)'
    BY <1>1, <1>2, <1>3, <2>1, <2>3, <2>4 DEF CallInv, Refusals
  <2> QED
    BY <2>1, <2>2, <2>5, CtlStep DEF SendRequest
<1>4. CASE ctl' = [ctl EXCEPT ![a].pc = "done", ![a].sent = "cut", ![a].outcome = "unreachable"]
  <2>1. ctl[a].pc = "connecting" /\ ctl[a].sent # "whole"
    BY <1>1 DEF SendRequest, CallInv
  <2> QED
    BY <1>4, <2>1, FinishKeeps DEF SendRequest
<1> QED
    BY <1>3, <1>4 DEF SendRequest

LEMMA ClientKeeps ==
    ASSUME NEW a \in Admins, AdminInv, Client(a)
    PROVE  AdminInv'
<1>1. conn[a].reply \in Replies /\ "unreachable" \notin Replies
    BY DEF AdminInv, AdminTypes, ConnTypes, Replies, Refusals
<1>2. CASE NoReply(a)
  <2>1. CASE ctl[a].sent = "whole"
    BY <1>2, <2>1, FinishReading DEF NoReply, Refusals
  <2>2. CASE ctl[a].sent # "whole"
    BY <1>2, <2>2, FinishReading DEF NoReply
  <2> QED
    BY <2>1, <2>2
<1>3. CASE ReadReplyLine(a)
    BY <1>1, <1>3, FinishReading DEF ReadReplyLine
<1>4. CASE UnusableReply(a)
    BY <1>4, FinishReading DEF UnusableReply, Refusals
<1> QED
    BY <1>2, <1>3, <1>4, BeginCallKeeps, SendRequestKeeps DEF Client

\* The last step of a connection: its reply, which is no refusal if it acted.
LEMMA SayKeeps ==
    ASSUME NEW a \in Admins, AdminInv, NEW reply \in Replies, reply # "no_counts", Say(a, reply),
           conn[a].pc \notin {"closed", "stored"}, ctl[a].pc # "idle",
           UNCHANGED <<reloadVars, ctl, guard, level, intent, mirror, cells, service>>,
           acted' \in {acted, acted \cup {a}},
           a \in acted' => reply \notin Refusals /\ ctl[a].sent = "whole"
    PROVE  AdminInv'
<1> DEFINE c == [conn[a] EXCEPT !.pc = "closed", !.reply = reply]
<1>1. conn \in [Admins -> ConnTypes] /\ conn[a] \in ConnTypes /\ CallInv(a) /\ ReloadInv
    BY DEF AdminInv, AdminTypes, CallsInv
<1>2. asker' = asker /\ ctl' = ctl
    BY <1>1, ReloadRests
<1>3. c \in ConnTypes /\ c.pc = "closed" /\ c.reply = reply
    BY <1>1 DEF ConnTypes
<1>4. conn' = [conn EXCEPT ![a] = c]
    BY <1>1 DEF ConnTypes, Say
<1>5. conn'[a] = c
    BY <1>1, <1>4
<1> HIDE DEF c
<1>6. conn[a].reply = "none"
    BY <1>1 DEF CallInv
<1>7. CallInv(a)'
    BY <1>1, <1>2, <1>3, <1>5, <1>6 DEF CallInv, Refusals
<1> QED
    BY <1>3, <1>4, <1>7, ConnStep

\* A step of a connection that goes on.
LEMMA ToKeeps ==
    ASSUME NEW a \in Admins, AdminInv, NEW pc \in {"open", "parsed", "admitted", "closed"},
           To(a, pc), conn[a].pc \notin {"closed", "stored"}, ctl[a].pc # "idle",
           UNCHANGED <<reloadVars, ctl, guard, level, intent, mirror, cells, service, acted>>,
           pc \in {"parsed", "admitted"} => ctl[a].sent = "whole",
           pc # "closed" => a \notin acted,
           pc \in {"open", "parsed"} => asker[a].pc = "idle"
    PROVE  AdminInv'
<1> DEFINE c == [conn[a] EXCEPT !.pc = pc]
<1>1. conn \in [Admins -> ConnTypes] /\ conn[a] \in ConnTypes /\ CallInv(a) /\ ReloadInv
    BY DEF AdminInv, AdminTypes, CallsInv
<1>2. asker' = asker /\ ctl' = ctl /\ acted' = acted
    BY <1>1, ReloadRests
<1>3. c \in ConnTypes /\ c.pc = pc /\ c.reply = conn[a].reply
    BY <1>1 DEF ConnTypes
<1>4. conn' = [conn EXCEPT ![a] = c]
    BY <1>1 DEF ConnTypes, To
<1>5. conn'[a] = c
    BY <1>1, <1>4
<1> HIDE DEF c
<1>6. conn[a].reply = "none"
    BY <1>1 DEF CallInv
<1>7. CallInv(a)'
    BY <1>1, <1>2, <1>3, <1>5, <1>6 DEF CallInv, Refusals
<1> QED
    BY <1>3, <1>4, <1>6, <1>7, ConnStep

LEMMA AcceptAdminKeeps ==
    ASSUME NEW a \in Admins, AdminInv, AcceptAdmin(a)
    PROVE  AdminInv'
<1>1. CallInv(a)
    BY DEF AdminInv, CallsInv
<1>2. ctl[a].pc # "idle" /\ conn[a].pc = "none" /\ a \notin acted /\ asker[a].pc = "idle"
    BY <1>1 DEF AcceptAdmin, CallInv
<1>3. ASSUME NEW reply \in {"forbidden", "busy"}, Say(a, reply) PROVE AdminInv'
    BY <1>2, <1>3, SayKeeps DEF AcceptAdmin, Replies, Refusals
<1>4. CASE To(a, "open")
    BY <1>2, <1>4, ToKeeps DEF AcceptAdmin
<1> QED
    BY <1>3, <1>4 DEF AcceptAdmin

LEMMA ReadRequestKeeps ==
    ASSUME NEW a \in Admins, AdminInv, ReadRequest(a)
    PROVE  AdminInv'
<1>1. CallInv(a)
    BY DEF AdminInv, CallsInv
<1>2. ctl[a].pc # "idle" /\ conn[a].pc = "open" /\ a \notin acted /\ asker[a].pc = "idle"
    BY <1>1 DEF ReadRequest, CallInv
<1>3. CASE ctl[a].sent = "whole" /\ To(a, "parsed")
    BY <1>2, <1>3, ToKeeps DEF ReadRequest
<1>4. CASE Say(a, "bad_request")
    BY <1>2, <1>4, SayKeeps DEF ReadRequest, Replies, Refusals
<1>5. CASE To(a, "closed")
    BY <1>2, <1>5, ToKeeps DEF ReadRequest
<1> QED
    BY <1>3, <1>4, <1>5 DEF ReadRequest

LEMMA DispatchKeeps ==
    ASSUME NEW a \in Admins, AdminInv, Dispatch(a)
    PROVE  AdminInv'
<1>1. CallInv(a) /\ ReloadInv /\ conn \in [Admins -> ConnTypes] /\ conn[a] \in ConnTypes
    BY DEF AdminInv, AdminTypes, CallsInv
<1>2. /\ ctl[a].pc # "idle" /\ conn[a].pc = "parsed" /\ a \notin acted /\ asker[a].pc = "idle"
      /\ ctl[a].sent = "whole" /\ conn[a].reply = "none"
    BY <1>1 DEF Dispatch, CallInv
<1>3. UNCHANGED <<ctl, guard, level, intent, mirror, cells, service, acted>>
    BY DEF Dispatch
<1>4. ASSUME NEW reply \in {"ok", "shutting_down", "unavailable"}, Say(a, reply),
             UNCHANGED reloadVars
      PROVE  AdminInv'
    BY <1>2, <1>3, <1>4, SayKeeps DEF Replies, Refusals
<1>5. CASE To(a, "admitted") /\ UNCHANGED reloadVars
    BY <1>2, <1>3, <1>5, ToKeeps
<1>6. CASE AskReload(a) /\ To(a, "reloading")
  <2>1. ReloadInv'
    BY <1>1, <1>2, <1>6, AskReloadKeeps
  <2>2. /\ conn' \in [Admins -> ConnTypes] /\ conn'[a].pc = "reloading"
        /\ conn'[a].reply = "none" /\ \A b \in Admins \ {a} : conn'[b] = conn[b]
    BY <1>1, <1>2, <1>6 DEF To, ConnTypes
  <2>3. \A b \in Admins \ {a} : asker'[b] = asker[b]
    BY <1>1, <1>6 DEF AskReload, ReloadInv, ReloadTypes
  <2>4. AdminTypes'
    BY <1>3, <2>2 DEF AdminInv, AdminTypes
  <2>5. TicketInv'
    BY <1>3, <2>2 DEF AdminInv, TicketInv
  <2>6. GuardInv'
    BY <1>2, <1>3, <2>2 DEF AdminInv, GuardInv
  <2>7. CallInv(a)'
    BY <1>1, <1>2, <1>3, <2>2 DEF CallInv, Refusals
  <2>8. CallsInv'
    BY <1>3, <2>2, <2>3, <2>7, OthersKeep DEF AdminInv
  <2> QED
    BY <2>1, <2>4, <2>5, <2>6, <2>8 DEF AdminInv
<1> QED
    BY <1>4, <1>5, <1>6 DEF Dispatch

LEMMA StoreIntentKeeps ==
    ASSUME NEW a \in Admins, AdminInv, StoreIntent(a)
    PROVE  AdminInv'
<1>1. CallInv(a) /\ ReloadInv /\ conn \in [Admins -> ConnTypes] /\ conn[a] \in ConnTypes
    BY DEF AdminInv, AdminTypes, CallsInv
<1>2. /\ ctl[a].pc # "idle" /\ conn[a].pc = "admitted" /\ ctl[a].sent = "whole"
      /\ conn[a].reply = "none" /\ guard = NoGuard /\ acted' = acted \cup {a}
      /\ UNCHANGED <<reloadVars, ctl, level, mirror, cells, service>>
    BY <1>1 DEF StoreIntent, CallInv
<1>3. ReloadInv' /\ asker' = asker
    BY <1>1, <1>2, ReloadRests
<1>4. \A b \in Admins : conn[b].pc # "stored" /\ guard # b
    BY <1>2, AdminBounds DEF AdminInv, GuardInv
<1>5. intent \in [pause : BOOLEAN, req : Nat, seen : Nat] /\ acted' \subseteq Admins
    BY <1>2 DEF AdminInv, AdminTypes
<1>6. CASE /\ intent' = [intent EXCEPT !.req = request_requeue]
           /\ conn' = [conn EXCEPT ![a].pc = "waiting", ![a].ticket = request_requeue]
           /\ guard' = guard
  <2>1. /\ intent' \in [pause : BOOLEAN, req : Nat, seen : Nat]
        /\ intent'.pause = intent.pause /\ intent'.req >= intent.req
        /\ request_requeue \in Nat
    BY <1>5, <1>6 DEF request_requeue
  <2>2. /\ conn' \in [Admins -> ConnTypes] /\ conn'[a].pc = "waiting"
        /\ conn'[a].reply = "none" /\ \A b \in Admins \ {a} : conn'[b] = conn[b]
    BY <1>1, <1>2, <1>6, <2>1 DEF ConnTypes
  <2>3. AdminTypes'
    BY <1>2, <1>5, <1>6, <2>1, <2>2 DEF AdminInv, AdminTypes
  <2>4. TicketInv'
    BY <1>2, <1>5, <2>1, <2>2 DEF AdminInv, AdminTypes, TicketInv
  <2>5. GuardInv'
    BY <1>2, <1>4, <1>6, <2>1, <2>2 DEF AdminInv, GuardInv
  <2>6. CallInv(a)'
    BY <1>1, <1>2, <1>3, <2>2 DEF CallInv, Refusals
  <2>7. CallsInv'
    BY <1>2, <1>3, <2>2, <2>6, OthersKeep DEF AdminInv
  <2> QED
    BY <1>3, <2>3, <2>4, <2>5, <2>7 DEF AdminInv
<1>7. CASE /\ intent' = [intent EXCEPT !.pause = ctl[a].verb = "drain.pause"]
           /\ guard' = a /\ To(a, "stored")
  <2>1. /\ intent' \in [pause : BOOLEAN, req : Nat, seen : Nat]
        /\ intent'.pause = (ctl[a].verb = "drain.pause")
        /\ intent'.req = intent.req /\ intent'.seen = intent.seen
    BY <1>5, <1>7
  <2>2. /\ conn' \in [Admins -> ConnTypes] /\ conn'[a].pc = "stored"
        /\ conn'[a].reply = "none" /\ \A b \in Admins \ {a} : conn'[b] = conn[b]
    BY <1>1, <1>2, <1>7 DEF ConnTypes, To
  <2>3. AdminTypes'
    BY <1>2, <1>5, <1>7, <2>1, <2>2 DEF AdminInv, AdminTypes
  <2>4. TicketInv'
    BY <1>2, <2>1, <2>2 DEF AdminInv, TicketInv
  <2>5. GuardInv'
    BY <1>2, <1>4, <1>7, <2>1, <2>2, AdminBounds DEF GuardInv
  <2>6. CallInv(a)'
    BY <1>1, <1>2, <1>3, <2>2 DEF CallInv, Refusals
  <2>7. CallsInv'
    BY <1>2, <1>3, <2>2, <2>6, OthersKeep DEF AdminInv
  <2> QED
    BY <1>3, <2>3, <2>4, <2>5, <2>7 DEF AdminInv
<1> QED
    BY <1>6, <1>7 DEF StoreIntent

LEMMA MirrorIntentKeeps ==
    ASSUME NEW a \in Admins, AdminInv, MirrorIntent(a)
    PROVE  AdminInv'
<1>1. CallInv(a) /\ ReloadInv /\ conn \in [Admins -> ConnTypes] /\ conn[a] \in ConnTypes
    BY DEF AdminInv, AdminTypes, CallsInv
<1>2. /\ conn[a].pc = "stored" /\ ctl[a].sent = "whole" /\ conn[a].reply = "none"
      /\ guard' = NoGuard /\ mirror' = (ctl[a].verb = "drain.pause")
      /\ UNCHANGED <<reloadVars, ctl, level, intent, cells, service, acted>>
    BY <1>1 DEF MirrorIntent, CallInv
<1>3. ReloadInv' /\ asker' = asker
    BY <1>1, <1>2, ReloadRests
<1>4. guard = a /\ intent.pause = (ctl[a].verb = "drain.pause")
    BY <1>2 DEF AdminInv, GuardInv
<1>5. /\ conn' \in [Admins -> ConnTypes] /\ conn'[a].pc = "waiting"
      /\ conn'[a].reply = "none" /\ \A b \in Admins \ {a} : conn'[b] = conn[b]
    BY <1>1, <1>2 DEF MirrorIntent, ConnTypes, To
<1>6. AdminTypes'
    BY <1>2, <1>5 DEF AdminInv, AdminTypes
<1>7. TicketInv'
    BY <1>2, <1>5 DEF AdminInv, TicketInv
<1>8. \A b \in Admins : conn'[b].pc # "stored" /\ guard' # b
    BY <1>2, <1>4, <1>5, AdminBounds DEF AdminInv, GuardInv
<1>9. GuardInv'
    BY <1>2, <1>4, <1>8 DEF GuardInv
<1>10. CallInv(a)'
    BY <1>1, <1>2, <1>3, <1>5 DEF CallInv, Refusals
<1>11. CallsInv'
    BY <1>2, <1>3, <1>5, <1>10, OthersKeep DEF AdminInv
<1> QED
    BY <1>3, <1>6, <1>7, <1>9, <1>11 DEF AdminInv

LEMMA AnswerDrainVerbKeeps ==
    ASSUME NEW a \in Admins, AdminInv, AnswerDrainVerb(a)
    PROVE  AdminInv'
<1>1. CallInv(a) /\ conn[a] \in ConnTypes
    BY DEF AdminInv, AdminTypes, CallsInv
<1>2. ctl[a].pc # "idle" /\ conn[a].pc = "waiting" /\ ctl[a].sent = "whole"
    BY <1>1 DEF AnswerDrainVerb, CallInv
<1>3. conn[a].ticket \in Nat /\ cells.observed \in Nat /\ cells.last \in Nat
      /\ cells.observed <= cells.last
    BY <1>1 DEF ConnTypes, AdminInv, AdminTypes, TicketInv
<1>4. Observed(a) /\ ctl[a].verb = "drain.retry_stranded" => ~(cells.last < conn[a].ticket)
    BY <1>3 DEF Observed
<1>5. Say(a, "observed") \/ Say(a, "not_yet")
    BY <1>4 DEF AnswerDrainVerb
<1>6. {"observed", "not_yet"} \subseteq Replies \ Refusals
    BY DEF Replies, Refusals
<1> QED
    BY <1>2, <1>5, <1>6, SayKeeps DEF AnswerDrainVerb

LEMMA AnswerReloadKeeps ==
    ASSUME NEW a \in Admins, AdminInv, AnswerReload(a)
    PROVE  AdminInv'
<1>1. CallInv(a) /\ asker[a].outcome \in Outcomes
    BY DEF AdminInv, CallsInv, ReloadInv, ReloadTypes
<1>2. ctl[a].pc # "idle" /\ conn[a].pc = "reloading" /\ ctl[a].sent = "whole" /\ a \notin acted
    BY <1>1 DEF AnswerReload, CallInv
<1>3. PICK reply \in Replies : /\ Say(a, reply) /\ reply # "no_counts"
                               /\ reply \in Refusals => asker[a].outcome = "busy"
    BY <1>1 DEF AnswerReload, Replies, Refusals
<1> QED
    BY <1>2, <1>3, SayKeeps DEF AnswerReload

LEMMA DropConnectionKeeps ==
    ASSUME NEW a \in Admins, AdminInv, DropConnection(a)
    PROVE  AdminInv'
<1>1. CallInv(a) /\ ReloadInv /\ conn \in [Admins -> ConnTypes] /\ conn[a] \in ConnTypes
    BY DEF AdminInv, AdminTypes, CallsInv
<1>2. /\ conn[a].pc \notin {"none", "closed"} /\ conn[a].reply = "none" /\ ctl[a].pc # "idle"
      /\ level = "raised" /\ guard' = (IF guard = a THEN NoGuard ELSE guard)
      /\ UNCHANGED <<reloadVars, ctl, level, intent, mirror, cells, service, acted>>
    BY <1>1 DEF DropConnection, CallInv
<1>3. ReloadInv' /\ asker' = asker
    BY <1>1, <1>2, ReloadRests
<1>4. /\ conn' \in [Admins -> ConnTypes] /\ conn'[a].pc = "closed"
      /\ conn'[a].reply = "none" /\ \A b \in Admins \ {a} : conn'[b] = conn[b]
    BY <1>1, <1>2 DEF DropConnection, ConnTypes, To
<1>5. AdminTypes'
    BY <1>2, <1>4 DEF AdminInv, AdminTypes
<1>6. TicketInv'
    BY <1>2, <1>4 DEF AdminInv, TicketInv
<1>7. GuardInv'
    BY <1>2, <1>4, AdminBounds DEF AdminInv, GuardInv
<1>8. CallInv(a)'
    BY <1>1, <1>2, <1>3, <1>4 DEF CallInv, Refusals
<1>9. CallsInv'
    BY <1>2, <1>3, <1>4, <1>8, OthersKeep DEF AdminInv
<1> QED
    BY <1>3, <1>5, <1>6, <1>7, <1>9 DEF AdminInv

LEMMA ServeAdminKeeps ==
    ASSUME NEW a \in Admins, AdminInv, ServeAdmin(a)
    PROVE  AdminInv'
    BY AcceptAdminKeeps, ReadRequestKeeps, DispatchKeeps, StoreIntentKeeps, MirrorIntentKeeps,
       AnswerDrainVerbKeeps, AnswerReloadKeeps, DropConnectionKeeps DEF ServeAdmin

\* No step of the reload begins a call of its own.
LEMMA IdleStaysIdle ==
    ASSUME ReloadInv, ReloadNext, NEW b \in Admins, asker[b].pc = "idle"
    PROVE  asker'[b].pc = "idle"
<1>1. asker \in [Admins -> AskTypes]
    BY DEF ReloadInv, ReloadTypes
<1>2. ASSUME NEW a \in Admins, EnqueueReload(a) \/ ReloadTimesOut(a)
      PROVE  asker'[b].pc = "idle"
    BY <1>1, <1>2 DEF EnqueueReload, ReloadTimesOut
<1>3. ASSUME NEW by, NEW outcome, asker' = Answered(by, outcome)
      PROVE  asker'[b].pc = "idle"
    BY <1>3 DEF Answered
<1>4. CASE asker' = asker
    BY <1>4
<1> QED
    BY <1>2, <1>3, <1>4 DEF ReloadNext, Rotate, LoadTls, SendSighup, SighupTask, ReloadLoop,
       TakeRequest, ReadCert, FinishReload, ReloadPanics

\* The drain, the shutdown level and the reload leave every call where it is.
LEMMA CallsRest ==
    ASSUME CallsInv, UNCHANGED <<ctl, conn, acted>>,
           \A a \in Admins : asker[a].pc = "idle" => asker'[a].pc = "idle"
    PROVE  CallsInv'
    BY DEF CallsInv, CallInv

LEMMA ReloadStepKeeps == AdminInv /\ ReloadNext /\ UNCHANGED adminVars => AdminInv'
<1> SUFFICES ASSUME AdminInv, ReloadNext, UNCHANGED adminVars PROVE AdminInv'
    OBVIOUS
<1>1. ReloadInv'
    BY ReloadNextKeeps DEF AdminInv
<1>2. UNCHANGED <<ctl, conn, guard, level, intent, mirror, cells, service, acted>>
    BY DEF adminVars
<1>3. AdminTypes' /\ TicketInv' /\ GuardInv'
    BY <1>2 DEF AdminInv, AdminTypes, TicketInv, GuardInv
<1>4. CallsInv'
    BY <1>2, IdleStaysIdle, CallsRest DEF AdminInv
<1> QED
    BY <1>1, <1>3, <1>4 DEF AdminInv

LEMMA DrainSideKeeps ==
    ASSUME AdminInv, RaiseLevel \/ ObservePause \/ ServiceTicket \/ DrainPanics
    PROVE  AdminInv'
<1>1. /\ UNCHANGED <<reloadVars, ctl, conn, guard, mirror, acted>>
      /\ intent'.pause = intent.pause /\ intent'.req = intent.req
      /\ level = "raised" => level' = "raised"
    BY DEF RaiseLevel, ObservePause, ServiceTicket, DrainPanics, AdminInv, AdminTypes
<1>2. ReloadInv' /\ asker' = asker
    BY <1>1, ReloadRests DEF AdminInv
<1>3. AdminTypes'
  <2>1. level' \in {"running", "raised"} /\ intent' \in [pause : BOOLEAN, req : Nat, seen : Nat]
    BY DEF RaiseLevel, ObservePause, ServiceTicket, DrainPanics, AdminInv, AdminTypes
  <2>2. cells' \in [paused : BOOLEAN, observed : Nat, last : Nat]
    BY DEF RaiseLevel, ObservePause, ServiceTicket, DrainPanics, AdminInv, AdminTypes
  <2>3. service' \in [pc : {"idle", "scanned", "stored", "published", "gave_up"}, ticket : Nat,
                      seen : Nat, panics : Nat]
    <3>1. CASE ServiceTicket
      BY <3>1 DEF ServiceTicket, AdminInv, AdminTypes
    <3>2. CASE DrainPanics
      <4>1. /\ service \in [pc : {"idle", "scanned", "stored", "published", "gave_up"},
                            ticket : Nat, seen : Nat, panics : Nat]
            /\ intent.seen \in Nat
        BY DEF AdminInv, AdminTypes
      <4>2. PICK pc \in {"idle", "gave_up"} :
               service' = [service EXCEPT !.pc = pc, !.seen = intent.seen, !.panics = @ + 1]
        BY <3>2 DEF DrainPanics
      <4>3. pc \in {"idle", "scanned", "stored", "published", "gave_up"}
        OBVIOUS
      <4>4. service.panics + 1 \in Nat
        BY <4>1
      <4> QED
        BY <4>1, <4>2, <4>3, <4>4
    <3>3. CASE service' = service
      BY <3>3 DEF AdminInv, AdminTypes
    <3> QED
      BY <3>1, <3>2, <3>3 DEF RaiseLevel, ObservePause
  <2> QED
    BY <1>1, <2>1, <2>2, <2>3 DEF AdminInv, AdminTypes
<1>4. TicketInv'
  <2>0. /\ service \in [pc : {"idle", "scanned", "stored", "published", "gave_up"},
                        ticket : Nat, seen : Nat, panics : Nat]
        /\ cells \in [paused : BOOLEAN, observed : Nat, last : Nat]
        /\ intent.req \in Nat /\ TicketInv
    BY DEF AdminInv, AdminTypes
  <2> USE <1>1, <2>0 DEF TicketInv
  <2>1. CASE ServiceTicket
    <3>1. CASE service.pc = "idle"
      <4>1. /\ cells' = cells /\ service'.pc = "scanned" /\ service'.ticket = intent.req
        BY <2>1, <3>1 DEF ServiceTicket
      <4> QED
        BY <3>1, <4>1
    <3>4. CASE service.pc = "published"
      <4>1. cells' = cells /\ service'.pc = "idle"
        BY <2>1, <3>4 DEF ServiceTicket
      <4> QED
        BY <3>4, <4>1
    <3>2. CASE service.pc = "scanned"
      <4>1. /\ cells'.last = service.ticket /\ cells'.observed = cells.observed
            /\ service'.pc = "stored" /\ service'.ticket = service.ticket
        BY <2>1, <3>2 DEF ServiceTicket
      <4> QED
        BY <3>2, <4>1
    <3>3. CASE service.pc = "stored"
      <4>1. /\ cells'.last = cells.last /\ cells'.observed = service.ticket
            /\ service'.pc = "published" /\ service'.ticket = service.ticket
        BY <2>1, <3>3 DEF ServiceTicket
      <4> QED
        BY <3>3, <4>1
    <3> QED
      BY <2>1, <3>1, <3>2, <3>3, <3>4 DEF ServiceTicket
  <2>2. CASE DrainPanics
    BY <2>2 DEF DrainPanics
  <2>3. CASE RaiseLevel \/ ObservePause
    BY <2>3 DEF RaiseLevel, ObservePause
  <2> QED
    BY <2>1, <2>2, <2>3
<1>5. GuardInv'
    BY <1>1, <1>3 DEF AdminInv, AdminTypes, GuardInv
<1>6. CallsInv'
    BY <1>1, <1>2, CallsRest DEF AdminInv
<1> QED
    BY <1>2, <1>3, <1>4, <1>5, <1>6 DEF AdminInv

LEMMA AdminStutters == AdminInv /\ UNCHANGED <<reloadVars, adminVars>> => AdminInv'
<1> SUFFICES ASSUME AdminInv, UNCHANGED reloadVars, UNCHANGED adminVars PROVE AdminInv'
    OBVIOUS
<1>1. ReloadInv' /\ asker' = asker
    BY ReloadRests DEF AdminInv
<1>2. UNCHANGED <<ctl, conn, guard, level, intent, mirror, cells, service, acted>>
    BY DEF adminVars
<1>3. AdminTypes' /\ TicketInv' /\ GuardInv'
    BY <1>2 DEF AdminInv, AdminTypes, TicketInv, GuardInv
<1>4. CallsInv'
    BY <1>1, <1>2, CallsRest DEF AdminInv
<1> QED
    BY <1>1, <1>3, <1>4 DEF AdminInv

\* The invariant on which both results about the admin socket rest.
THEOREM AdminInvariance == AdminSpec => []AdminInv
<1>1. AdminInv /\ [AdminNext]_<<reloadVars, adminVars>> => AdminInv'
    BY ClientKeeps, ServeAdminKeeps, DrainSideKeeps, ReloadStepKeeps, AdminStutters DEF AdminNext
<1> QED
    BY AdminStarts, <1>1, PTL DEF AdminSpec

\* weir-ctl and admin/verbs.rs: what an operator is told of a verb is what
\* happened, for every number of calls, connections, tickets and drain panics.
THEOREM OperatorsAreToldTheTruth == AdminSpec => []AdminIsHonest
<1>1. AdminInv => RefusedMeansUntouched
  <2> SUFFICES ASSUME AdminInv, NEW a \in Admins, ctl[a].outcome \in Refusals
               PROVE  a \notin acted
    BY DEF RefusedMeansUntouched, Refusals
  <2>1. CallInv(a)
    BY DEF AdminInv, CallsInv
  <2> QED
    BY <2>1 DEF CallInv
<1>2. AdminInv => VerbsTellTheTruth
    BY DEF AdminInv, TicketInv, GuardInv, VerbsTellTheTruth
<1> QED
    BY AdminInvariance, <1>1, <1>2, PTL DEF AdminIsHonest
=============================================================================
