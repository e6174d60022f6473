---------------------------- MODULE DaemonProofs ----------------------------
(***************************************************************************)
(* Proofs about the daemons of one host (Daemon, with WabLock and          *)
(* SocketFile), for every set of daemons, every number of starts, inodes   *)
(* and tamperings: one wab_dir and one socket_path have one daemon, and    *)
(* no start or check goes on past evidence of another.                     *)
(***************************************************************************)
EXTENDS Daemon, TLAPS, FiniteSetTheorems

-----------------------------------------------------------------------------
(* The types *)

LockPcs == {"down", "opened", "vetted", "flocked", "held", "unguarded", "statted",
            "reflocked", "found", "proven", "refused", "lost"}
Locks == [pc : LockPcs, fd : 0 .. MaxInodes, seen : 0 .. MaxInodes, alias : BOOLEAN]
LockFiles == [rec : Daemons \cup {NoOne, Earlier}, vet : Vets]

LockTypeOK ==
    /\ lockPath \in 0 .. MaxInodes
    /\ lockFile \in [Inodes -> LockFiles]
    /\ flocked \in [Inodes -> Daemons \cup {NoOne}]
    /\ lock \in [Daemons -> Locks]
    /\ fs \in [locks : BOOLEAN, policy : {"required", "best_effort"}]
    /\ tampers \in Nat
    /\ intruded \in [Daemons -> {"no", "since", "checking"}]
    /\ sameDir \in BOOLEAN

SockSteps == {"none", "statted", "stale", "checked", "clear", "created", "snapped",
              "bound", "leaving", "closed", "refused"}
Socks == [step : SockSteps, first : 0 .. MaxNumbers, num : 0 .. MaxNumbers,
          open : BOOLEAN, excused : BOOLEAN]
Entries == [num : 0 .. MaxNumbers, kind : Daemons \cup {"stale", "file", "denied"}]

MainPcs == {"down", "locking", "preflighted", "runtime", "recovered", "delivering",
            "binding", "spawned", "serving", "lame", "joins", "stopping"}
Phase == {"initializing", "recovering", "handoff", "binding", "serving", "shutting_down"}
Mains == [pc : MainPcs, phase : Phase, level : {"running", "raised"}, raced : BOOLEAN]

SocketTypeOK ==
    /\ sockPath \in Entries
    /\ sock \in [Daemons -> Socks]
    /\ samePort \in BOOLEAN
    /\ port \in Daemons \cup {NoOne}
    /\ starts \in Nat
    /\ main \in [Daemons -> Mains]

DaemonTypeOK == LockTypeOK /\ SocketTypeOK

-----------------------------------------------------------------------------
(* The lock *)

\* A daemon on a wab_dir of its own is never contended for its lock, and one
\* that shares the directory has a file open from OpenLock on.
Descriptor(d) ==
    /\ ~sameDir => lock[d].pc \in {"down", "held"}
    /\ sameDir /\ lock[d].pc # "down" => lock[d].fd \in Inodes
    /\ lock[d].pc \in {"found", "proven"} => lock[d].seen \in Inodes

\* While nobody meddles, every process has the one file at the path open, an
\* owner has its flock, and no check finds another file or a missing one.
Undisturbed == sameDir /\ fs.locks /\ tampers = 0

OwnFlock(d) ==
    /\ lock[d].pc # "down" => lock[d].fd = lockPath
    /\ lock[d].pc \in Owning \cup {"flocked"} => flocked[lock[d].fd] = d
    /\ lock[d].pc \notin {"unguarded", "found", "proven"}
    /\ lock[d].pc \in {"statted", "reflocked"} => lock[d].seen # 0

\* The evidence of an intruder is in the file at the path, which is not the one
\* its victim holds, and a check begun since has that file in view.
InView(d) ==
    /\ lock[d].pc # "proven"
    /\ lock[d].pc \in {"statted", "reflocked", "found"} => lock[d].seen = lockPath

Proof(d) ==
    /\ lock[d].pc \in Owning \cup {"lost"}
    /\ lockPath \in Inodes
    /\ lockPath # lock[d].fd
    /\ lockFile[lockPath].rec \notin {NoOne, d}
    /\ intruded[d] = "checking" => InView(d)

Descriptors == \A d \in Daemons : Descriptor(d)
FlockIsTheOwners == Undisturbed => \A d \in Daemons : OwnFlock(d)
EvidenceStands == \A d \in Daemons : intruded[d] # "no" => Proof(d)

LockInv == Descriptors /\ FlockIsTheOwners /\ EvidenceStands

-----------------------------------------------------------------------------
(* The socket file and the order of main *)

\* The phase, the level and the step of the bind agree with where main stands.
InOrder(d) ==
    /\ main[d].phase = "serving" => main[d].pc = "serving"
    /\ main[d].level # "running" => main[d].phase = "shutting_down"
    /\ main[d].pc \in {"spawned", "serving"} => sock[d].step = "bound"
    /\ main[d].pc = "lame" => sock[d].step \in {"bound", "leaving", "closed"}
    /\ main[d].pc \notin {"binding", "spawned", "serving", "lame", "joins", "stopping"} =>
           sock[d].step = "none"
    /\ sock[d].open <=> sock[d].step \in {"created", "snapped", "bound", "leaving"}

\* An open listener that is not excused has its file at the path, and nobody
\* else is in a window from which it would take that file away.
Plain(d) == sock[d].open /\ ~sock[d].excused
Harmless(e) == /\ sock[e].step \notin Trusting
               /\ sock[e].open => sock[e].num # sockPath.num
AtThePath(d) ==
    /\ sockPath.kind = d
    /\ sock[d].step \in {"snapped", "bound", "leaving"} => sockPath.num = sock[d].num
    /\ \A e \in Daemons \ {d} : Harmless(e)

\* What a preflight saw of the path lasts until another daemon takes it.
Bindable == sockPath.kind \notin {"file", "denied"}
Unraced(d) ==
    /\ \A e \in Daemons \ {d} : sockPath.kind = e => ~sock[e].open
    /\ sock[d].step \in {"statted", "stale", "checked"} =>
           sockPath.num \in {0, sock[d].first}
    /\ sock[d].step = "clear" => sockPath.num = 0
Lasting(d) ==
    /\ main[d].pc \notin {"down", "locking"} => Bindable
    /\ main[d].pc \in Racing /\ ~main[d].raced => Unraced(d)

MainInOrder == \A d \in Daemons : InOrder(d)
FileIsTheListeners == \A d \in Daemons : Plain(d) => AtThePath(d)
PreflightLasts == /\ sockPath.num = 0 => sockPath.kind = "stale"
                  /\ \A d \in Daemons : Lasting(d)

SocketInv == MainInOrder /\ FileIsTheListeners /\ PreflightLasts

DaemonInv == DaemonTypeOK /\ LockInv /\ SocketInv

-----------------------------------------------------------------------------
(* Steps of the lock's thread: what they leave of the record *)

\* Every daemon but d keeps its lock record.
OtherLocksKeep(d) == \A e \in Daemons \ {d} : lock'[e] = lock[e]

\* A number that is not in use is an inode nobody holds.
LEMMA FreshIsUnused ==
    ASSUME Unused # {}
    PROVE  /\ Fresh \in Inodes
           /\ Fresh # lockPath
           /\ \A d \in Daemons : lock[d].fd # Fresh /\ lock[d].seen # Fresh
BY DEF Fresh, Unused

LEMMA StepTo ==
    ASSUME LockTypeOK, NEW d \in Daemons, NEW p \in LockPcs, Step(d, p)
    PROVE  /\ lock' \in [Daemons -> Locks]
           /\ lock'[d].pc = p /\ lock'[d].fd = lock[d].fd /\ lock'[d].seen = lock[d].seen
           /\ OtherLocksKeep(d)
BY DEF LockTypeOK, Locks, Step, OtherLocksKeep

LEMMA StepWithSeen ==
    ASSUME LockTypeOK, NEW d \in Daemons, NEW p \in LockPcs, NEW s \in 0 .. MaxInodes,
           \/ lock' = [lock EXCEPT ![d].pc = p, ![d].seen = s]
           \/ lock' = [lock EXCEPT ![d].pc = p, ![d].seen = s, ![d].alias = TRUE]
    PROVE  /\ lock' \in [Daemons -> Locks]
           /\ lock'[d].pc = p /\ lock'[d].fd = lock[d].fd /\ lock'[d].seen = s
           /\ OtherLocksKeep(d)
BY DEF LockTypeOK, Locks, OtherLocksKeep

LEMMA StepToHeld ==
    ASSUME LockTypeOK, NEW d \in Daemons,
           \/ lock' = [lock EXCEPT ![d].pc = "held", ![d].seen = 0]
           \/ lock' = [lock EXCEPT ![d].pc = "held", ![d].seen = 0, ![d].alias = TRUE]
    PROVE  /\ lock' \in [Daemons -> Locks]
           /\ lock'[d].pc = "held" /\ lock'[d].fd = lock[d].fd
           /\ OtherLocksKeep(d)
<1>1. 0 \in 0 .. MaxInodes /\ "held" \in LockPcs
  BY LockBounds DEF LockPcs
<1> QED BY <1>1, StepWithSeen

LEMMA StepToFile ==
    ASSUME LockTypeOK, NEW d \in Daemons, NEW p \in LockPcs, NEW i \in 0 .. MaxInodes,
           lock' = [lock EXCEPT ![d] = [LockDown EXCEPT !.pc = p, !.fd = i]]
    PROVE  /\ lock' \in [Daemons -> Locks]
           /\ lock'[d].pc = p /\ lock'[d].fd = i /\ lock'[d].seen = 0
           /\ OtherLocksKeep(d)
<1>0. LockDown \in Locks /\ LockDown.seen = 0
  BY LockBounds DEF Locks, LockPcs, LockDown
<1>1. PICK r \in Locks : r = LockDown /\ r.seen = 0
  BY <1>0
<1> DEFINE c == [r EXCEPT !.pc = p, !.fd = i]
<1>2. c \in Locks /\ c.pc = p /\ c.fd = i /\ c.seen = 0
  BY <1>1 DEF Locks
<1>3. lock' = [lock EXCEPT ![d] = c]
  BY <1>1
<1> HIDE DEF c
<1>4. lock' \in [Daemons -> Locks] /\ lock'[d] = c /\ OtherLocksKeep(d)
  BY <1>2, <1>3 DEF LockTypeOK, OtherLocksKeep
<1> QED BY <1>2, <1>4

LEMMA StepDown ==
    ASSUME LockTypeOK, NEW d \in Daemons, lock' = [lock EXCEPT ![d] = LockDown]
    PROVE  /\ lock' \in [Daemons -> Locks]
           /\ lock'[d].pc = "down"
           /\ OtherLocksKeep(d)
BY LockBounds DEF LockTypeOK, Locks, LockPcs, LockDown, OtherLocksKeep

-----------------------------------------------------------------------------
(* The lock's invariant *)

LockOK == LockTypeOK /\ LockInv

\* A daemon whose record, and what it is about, stays as it is keeps its part.
LEMMA OtherKeeps ==
    ASSUME NEW e \in Daemons, lock'[e] = lock[e], UNCHANGED sameDir
    PROVE  /\ Descriptor(e) => Descriptor(e)'
           /\ /\ OwnFlock(e) /\ UNCHANGED lockPath
              /\ lock[e].pc \in Owning \cup {"flocked"} =>
                    flocked'[lock[e].fd] = flocked[lock[e].fd]
              => OwnFlock(e)'
           /\ /\ Proof(e) /\ UNCHANGED <<lockPath, intruded>>
              /\ lockFile'[lockPath].rec \notin {NoOne, e}
              => Proof(e)'
BY DEF Descriptor, OwnFlock, Proof, InView

\* Who is down has nothing to keep, and nothing to prove.
LEMMA DownKeeps ==
    ASSUME NEW e \in Daemons, lock'[e].pc = "down"
    PROVE  Descriptor(e)' /\ OwnFlock(e)'
BY DEF Descriptor, OwnFlock, Owning

LEMMA OpenLockKeeps ==
    ASSUME LockOK, sameDir, UNCHANGED sameDir, NEW d \in Daemons, OpenLock(d)
    PROVE  LockOK'
<1> DEFINE i == IF lockPath # 0 THEN lockPath ELSE Fresh
<1>1. /\ i \in Inodes /\ lockPath' = i /\ lockPath \in 0 .. MaxInodes
      /\ lock' = [lock EXCEPT ![d] = [LockDown EXCEPT !.pc = "opened", !.fd = i]]
      /\ lockPath # 0 => i = lockPath /\ lockFile' = lockFile
      /\ lockPath = 0 => lockFile' = NewFile(NoOne, "ok")
      /\ UNCHANGED <<flocked, fs, tampers, intruded>>
      /\ lock[d].pc = "down"
  <2>1. lockPath \in 0 .. MaxInodes /\ lock[d].pc = "down"
    BY DEF OpenLock, LockOK, LockTypeOK
  <2>2. CASE lockPath # 0
    BY <2>1, <2>2, LockBounds DEF OpenLock, Inodes
  <2>3. CASE lockPath = 0
    BY <2>1, <2>3, FreshIsUnused DEF OpenLock
  <2> QED BY <2>2, <2>3
<1> HIDE DEF i
<1>2. /\ lock' \in [Daemons -> Locks]
      /\ lock'[d].pc = "opened" /\ lock'[d].fd = i /\ lock'[d].seen = 0
      /\ OtherLocksKeep(d)
  <2>1. i \in 0 .. MaxInodes /\ "opened" \in LockPcs
    BY <1>1, LockBounds DEF Inodes, LockPcs
  <2> QED BY <1>1, <2>1, StepToFile DEF LockOK
<1>3. LockTypeOK'
  <2>1. lockFile' \in [Inodes -> LockFiles]
    <3>1. CASE lockPath # 0
      BY <1>1, <3>1 DEF LockOK, LockTypeOK
    <3>2. CASE lockPath = 0
      BY <1>1, <3>2 DEF LockOK, LockTypeOK, NewFile, LockFiles, Vets
    <3> QED BY <3>1, <3>2
  <2>2. lockPath' \in 0 .. MaxInodes
    BY <1>1, LockBounds DEF Inodes
  <2> QED BY <1>1, <1>2, <2>1, <2>2 DEF LockOK, LockTypeOK
<1>4. Descriptors'
  <2>1. Descriptor(d)'
    BY <1>1, <1>2 DEF Descriptor
  <2> QED BY <2>1, <1>2, OtherKeeps DEF LockOK, LockInv, Descriptors, OtherLocksKeep
<1>5. FlockIsTheOwners'
  <2> SUFFICES ASSUME Undisturbed, NEW e \in Daemons
               PROVE  OwnFlock(e)'
    BY <1>1 DEF FlockIsTheOwners, Undisturbed
  <2>1. CASE e = d
    BY <1>2, <1>1, <2>1 DEF Owning, OwnFlock
  <2>2. CASE e # d /\ lockPath # 0
    BY <1>2, <1>1, <2>2, OtherKeeps DEF LockOK, LockInv, FlockIsTheOwners, OtherLocksKeep
  <2>3. CASE e # d /\ lockPath = 0
    <3>1. lock[e].pc = "down"
      <4>1. OwnFlock(e) /\ Descriptor(e)
        BY DEF LockOK, LockInv, FlockIsTheOwners, Descriptors
      <4> QED BY <4>1, <2>3, LockBounds DEF OwnFlock, Descriptor, Undisturbed, Inodes
    <3> QED BY <3>1, <1>2, <2>3, DownKeeps DEF OtherLocksKeep
  <2> QED BY <2>1, <2>2, <2>3
<1>6. EvidenceStands'
  <2> SUFFICES ASSUME NEW e \in Daemons, intruded[e] # "no"
               PROVE  Proof(e)'
    BY <1>1 DEF EvidenceStands
  <2>1. Proof(e)
    BY DEF LockOK, LockInv, EvidenceStands
  <2>2. e # d /\ lockPath # 0
    BY <2>1, <1>1, LockBounds DEF Proof, Owning, Inodes
  <2>3. lock'[e] = lock[e]
    BY <2>2, <1>2 DEF OtherLocksKeep
  <2>4. lockFile'[lockPath].rec \notin {NoOne, e} /\ UNCHANGED <<lockPath, intruded>>
    BY <1>1, <2>1, <2>2 DEF Proof
  <2> QED BY <2>1, <2>3, <2>4, OtherKeeps
<1> QED BY <1>3, <1>4, <1>5, <1>6 DEF LockOK, LockInv

\* The invariant of a step that moves d's thread and at most a flock.
LEMMA ThreadMoves ==
    ASSUME LockOK, UNCHANGED <<sameDir, lockPath, lockFile, fs, tampers, intruded>>,
           NEW d \in Daemons, lock' \in [Daemons -> Locks], OtherLocksKeep(d),
           flocked' \in [Inodes -> Daemons \cup {NoOne}],
           Undisturbed =>
               \A e \in Daemons \ {d} : lock[e].pc \in Owning \cup {"flocked"} =>
                   flocked'[lock[e].fd] = flocked[lock[e].fd],
           Descriptor(d)', Undisturbed => OwnFlock(d)', intruded[d] # "no" => Proof(d)'
    PROVE  LockOK'
<1>1. LockTypeOK'
  BY DEF LockOK, LockTypeOK
<1>2. Descriptors'
  BY OtherKeeps DEF LockOK, LockInv, Descriptors, OtherLocksKeep
<1>3. FlockIsTheOwners'
  <2> SUFFICES ASSUME Undisturbed, NEW e \in Daemons
               PROVE  OwnFlock(e)'
    BY DEF FlockIsTheOwners, Undisturbed
  <2>1. CASE e = d
    BY <2>1
  <2>2. CASE e # d
    BY <2>2, OtherKeeps DEF LockOK, LockInv, FlockIsTheOwners, OtherLocksKeep
  <2> QED BY <2>1, <2>2
<1>4. EvidenceStands'
  <2> SUFFICES ASSUME NEW e \in Daemons, intruded[e] # "no"
               PROVE  Proof(e)'
    BY DEF EvidenceStands
  <2>1. Proof(e)
    BY DEF LockOK, LockInv, EvidenceStands
  <2>2. lockFile'[lockPath].rec \notin {NoOne, e}
    BY <2>1 DEF Proof
  <2>3. CASE e = d
    BY <2>3
  <2>4. CASE e # d
    BY <2>1, <2>2, <2>4, OtherKeeps DEF OtherLocksKeep
  <2> QED BY <2>3, <2>4
<1> QED BY <1>1, <1>2, <1>3, <1>4 DEF LockOK, LockInv

\* Taking a free flock takes it from nobody.
LEMMA FlockTaken ==
    ASSUME LockOK, NEW d \in Daemons, NEW i \in Inodes, flocked[i] \in {NoOne, d},
           flocked' = [flocked EXCEPT ![i] = d]
    PROVE  /\ flocked' \in [Inodes -> Daemons \cup {NoOne}]
           /\ flocked'[i] = d
           /\ Undisturbed =>
                \A e \in Daemons \ {d} : lock[e].pc \in Owning \cup {"flocked"} =>
                    flocked'[lock[e].fd] = flocked[lock[e].fd]
<1>1. flocked' \in [Inodes -> Daemons \cup {NoOne}] /\ flocked'[i] = d
  BY DEF LockOK, LockTypeOK
<1>2. ASSUME Undisturbed, NEW e \in Daemons \ {d}, lock[e].pc \in Owning \cup {"flocked"}
      PROVE  flocked'[lock[e].fd] = flocked[lock[e].fd]
  <2>1. lock[e].fd \in Inodes /\ flocked[lock[e].fd] = e
    <3>1. OwnFlock(e) /\ Descriptor(e)
      BY <1>2 DEF LockOK, LockInv, FlockIsTheOwners, Descriptors
    <3> QED BY <3>1, <1>2 DEF OwnFlock, Descriptor, Undisturbed, Owning
  <2>2. lock[e].fd # i
    BY <2>1, LockBounds DEF NoOne
  <2> QED BY <2>1, <2>2 DEF LockOK, LockTypeOK
<1> QED BY <1>1, <1>2

\* What the invariant says of one daemon.
LEMMA AboutOne ==
    ASSUME LockOK, NEW d \in Daemons
    PROVE  /\ Descriptor(d)
           /\ Undisturbed => OwnFlock(d)
           /\ intruded[d] # "no" => Proof(d)
BY DEF LockOK, LockInv, Descriptors, FlockIsTheOwners, EvidenceStands

LEMMA VetLockKeeps ==
    ASSUME LockOK, sameDir, UNCHANGED sameDir, NEW d \in Daemons, VetLock(d)
    PROVE  LockOK'
<1>1. PICK p \in {"vetted", "refused"} : Step(d, p)
  BY DEF VetLock
<1>2. /\ lock' \in [Daemons -> Locks] /\ OtherLocksKeep(d)
      /\ lock'[d].pc = p /\ lock'[d].fd = lock[d].fd
  <2>1. p \in LockPcs
    BY DEF LockPcs
  <2> QED BY <1>1, <2>1, StepTo DEF LockOK
<1>3. /\ lock[d].pc = "opened" /\ UNCHANGED <<lockPath, lockFile, flocked, fs, tampers, intruded>>
      /\ flocked \in [Inodes -> Daemons \cup {NoOne}]
  BY DEF VetLock, LockOK, LockTypeOK
<1>4. Descriptor(d)' /\ (Undisturbed => OwnFlock(d)') /\ intruded[d] = "no"
  BY <1>2, <1>3, AboutOne DEF Descriptor, OwnFlock, Proof, Owning
<1> QED BY <1>2, <1>3, <1>4, ThreadMoves

LEMMA TakeLockKeeps ==
    ASSUME LockOK, sameDir, UNCHANGED sameDir, NEW d \in Daemons, TakeLock(d)
    PROVE  LockOK'
<1> DEFINE i == lock[d].fd
<1>1. /\ lock[d].pc = "vetted" /\ UNCHANGED <<lockPath, lockFile, fs, tampers, intruded>>
      /\ flocked \in [Inodes -> Daemons \cup {NoOne}]
  BY DEF TakeLock, LockOK, LockTypeOK
<1>2. i \in Inodes /\ intruded[d] = "no"
  BY <1>1, AboutOne DEF Descriptor, Proof, Owning
<1>3. CASE UNCHANGED flocked /\ Step(d, "refused")
  <2>1. /\ lock' \in [Daemons -> Locks] /\ OtherLocksKeep(d)
        /\ lock'[d].pc = "refused" /\ lock'[d].fd = lock[d].fd
    BY <1>3, StepTo DEF LockOK, LockPcs
  <2>2. Descriptor(d)' /\ (Undisturbed => OwnFlock(d)')
    BY <2>1, <1>1, <1>2, AboutOne DEF Descriptor, OwnFlock, Owning
  <2> QED BY <2>1, <2>2, <1>1, <1>2, <1>3, ThreadMoves
<1>4. CASE ~fs.locks /\ UNCHANGED flocked /\ Step(d, "unguarded")
  <2>1. /\ lock' \in [Daemons -> Locks] /\ OtherLocksKeep(d)
        /\ lock'[d].pc = "unguarded" /\ lock'[d].fd = lock[d].fd
    BY <1>4, StepTo DEF LockOK, LockPcs
  <2>2. Descriptor(d)' /\ ~Undisturbed
    BY <2>1, <1>1, <1>2, <1>4 DEF Descriptor, Undisturbed
  <2> QED BY <2>1, <2>2, <1>1, <1>2, <1>4, ThreadMoves
<1>5. CASE /\ flocked[i] \in {NoOne, d} /\ Step(d, "flocked")
           /\ flocked' = [flocked EXCEPT ![i] = d]
  <2>1. /\ lock' \in [Daemons -> Locks] /\ OtherLocksKeep(d)
        /\ lock'[d].pc = "flocked" /\ lock'[d].fd = lock[d].fd
    BY <1>5, StepTo DEF LockOK, LockPcs
  <2>2. /\ flocked' \in [Inodes -> Daemons \cup {NoOne}]
        /\ flocked'[i] = d
        /\ Undisturbed =>
              \A e \in Daemons \ {d} : lock[e].pc \in Owning \cup {"flocked"} =>
                  flocked'[lock[e].fd] = flocked[lock[e].fd]
    BY <1>2, <1>5, FlockTaken
  <2>3. Descriptor(d)' /\ (Undisturbed => OwnFlock(d)')
    BY <2>1, <2>2, <1>1, <1>2, AboutOne DEF Descriptor, OwnFlock, Owning
  <2> QED BY <2>1, <2>2, <2>3, <1>1, <1>2, ThreadMoves
<1> QED BY <1>3, <1>4, <1>5 DEF TakeLock

\* The same for a step that also changes what is recorded.
LEMMA RecordMoves ==
    ASSUME LockOK, LockTypeOK', UNCHANGED sameDir, NEW d \in Daemons, OtherLocksKeep(d),
           Descriptor(d)', \A e \in Daemons : intruded'[e] # "no" => Proof(e)',
           Undisturbed' =>
               /\ Undisturbed /\ UNCHANGED lockPath /\ OwnFlock(d)'
               /\ \A e \in Daemons \ {d} : lock[e].pc \in Owning \cup {"flocked"} =>
                     flocked'[lock[e].fd] = flocked[lock[e].fd]
    PROVE  LockOK'
<1>1. Descriptors'
  BY OtherKeeps DEF LockOK, LockInv, Descriptors, OtherLocksKeep
<1>2. FlockIsTheOwners'
  <2> SUFFICES ASSUME Undisturbed', NEW e \in Daemons
               PROVE  OwnFlock(e)'
    BY DEF FlockIsTheOwners
  <2>1. CASE e = d
    BY <2>1
  <2>2. CASE e # d
    BY <2>2, OtherKeeps DEF LockOK, LockInv, FlockIsTheOwners, OtherLocksKeep
  <2> QED BY <2>1, <2>2
<1> QED BY <1>1, <1>2 DEF LockOK, LockInv, EvidenceStands

\* Where a tampering starts the evidence afresh there is nothing to keep but
\* the descriptors.
LEMMA TamperedKeeps ==
    ASSUME LockOK, Tampered
    PROVE  /\ tampers' \in Nat /\ ~Undisturbed'
           /\ intruded' \in [Daemons -> {"no", "since", "checking"}]
           /\ \A e \in Daemons : intruded'[e] = "no"
BY DEF LockOK, LockTypeOK, Tampered, Undisturbed

LEMMA WriteRecordKeeps ==
    ASSUME LockOK, sameDir, UNCHANGED sameDir, NEW d \in Daemons, WriteRecord(d)
    PROVE  LockOK'
<1> DEFINE i == lock[d].fd
<1>1. /\ lock[d].pc = "flocked" /\ UNCHANGED <<lockPath, flocked, fs>>
      /\ Step(d, "held")
  BY DEF WriteRecord
<1>2. i \in Inodes /\ intruded[d] = "no" /\ (Undisturbed => OwnFlock(d))
  BY <1>1, AboutOne DEF Descriptor, Proof, Owning
<1>3. /\ lock' \in [Daemons -> Locks] /\ OtherLocksKeep(d)
      /\ lock'[d].pc = "held" /\ lock'[d].fd = lock[d].fd
  BY <1>1, StepTo DEF LockOK, LockPcs
<1>4. Descriptor(d)' /\ (Undisturbed => OwnFlock(d)')
  BY <1>1, <1>2, <1>3 DEF Descriptor, OwnFlock, Owning
<1>5. CASE /\ lockFile' = [lockFile EXCEPT ![i].rec = d]
           /\ intruded' = Intrudes(d) /\ UNCHANGED tampers
  <2>1. /\ lockFile' \in [Inodes -> LockFiles]
        /\ lockFile'[i].rec = d
        /\ \A j \in Inodes : j # i => lockFile'[j].rec = lockFile[j].rec
    BY <1>2, <1>5 DEF LockOK, LockTypeOK, LockFiles
  <2>2. intruded' \in [Daemons -> {"no", "since", "checking"}]
    BY <1>5 DEF LockOK, LockTypeOK, Intrudes
  <2>3. LockTypeOK'
    BY <1>1, <1>3, <1>5, <2>1, <2>2 DEF LockOK, LockTypeOK
  <2>4. ASSUME NEW e \in Daemons, intruded'[e] # "no"
        PROVE  Proof(e)'
    <3>1. e # d
      BY <1>2, <1>5, <2>4 DEF Intrudes
    <3>2. lock'[e] = lock[e] /\ e # NoOne /\ d # NoOne
      BY <1>3, <3>1, LockBounds DEF OtherLocksKeep, NoOne
    <3>3. CASE intruded[e] # "no"
      <4>1. Proof(e) /\ intruded'[e] = intruded[e]
        BY <1>5, <3>3, AboutOne DEF Intrudes
      <4>2. lockFile'[lockPath].rec \notin {NoOne, e}
        BY <2>1, <3>1, <3>2, <4>1 DEF Proof
      <4> QED BY <4>1, <4>2, <3>2, <1>1 DEF Proof, InView
    <3>4. CASE intruded[e] = "no"
      <4>1. /\ Owner(e) /\ lockPath = i /\ lock[e].fd # i /\ intruded'[e] = "since"
        BY <1>5, <2>4, <3>4 DEF Intrudes
      <4> QED BY <4>1, <3>1, <3>2, <2>1, <1>1, <1>2 DEF Proof, Owner
    <3> QED BY <3>3, <3>4
  <2>5. Undisturbed' => Undisturbed
    BY <1>1, <1>5 DEF Undisturbed
  <2> QED BY <1>1, <1>3, <1>4, <2>3, <2>4, <2>5, RecordMoves
<1>6. CASE Tampered /\ lockFile' = [lockFile EXCEPT ![i].rec = NoOne]
  <2>1. lockFile' \in [Inodes -> LockFiles]
    BY <1>2, <1>6 DEF LockOK, LockTypeOK, LockFiles
  <2>2. LockTypeOK'
    BY <1>1, <1>3, <1>6, <2>1, TamperedKeeps DEF LockOK, LockTypeOK
  <2> QED BY <1>3, <1>4, <1>6, <2>2, TamperedKeeps, RecordMoves
<1> QED BY <1>5, <1>6 DEF WriteRecord

LEMMA StatPathKeeps ==
    ASSUME LockOK, sameDir, UNCHANGED sameDir, NEW d \in Daemons, StatPath(d)
    PROVE  LockOK'
<1>1. /\ lock[d].pc = "held" /\ UNCHANGED <<lockPath, lockFile, flocked, fs, tampers>>
      /\ intruded' = [intruded EXCEPT ![d] = IF @ = "since" THEN "checking" ELSE @]
      /\ lock[d].fd \in Inodes /\ lockPath \in 0 .. MaxInodes
  BY AboutOne DEF StatPath, Descriptor, LockOK, LockTypeOK
<1>2. PICK s \in 0 .. MaxInodes :
          /\ lock' = [lock EXCEPT ![d].pc = "statted", ![d].seen = s]
          /\ \/ s = lockPath
             \/ lockPath = lock[d].fd /\ s \in Inodes
  <2>1. CASE lock' = [lock EXCEPT ![d].pc = "statted", ![d].seen = lockPath]
    BY <1>1, <2>1
  <2>2. CASE /\ lockPath = lock[d].fd /\ Unused # {}
             /\ lock' = [lock EXCEPT ![d].pc = "statted", ![d].seen = Fresh]
    <3>1. Fresh \in Inodes /\ Fresh \in 0 .. MaxInodes
      BY <2>2, FreshIsUnused, LockBounds DEF Inodes
    <3> QED BY <2>2, <3>1
  <2> QED BY <2>1, <2>2 DEF StatPath
<1>3. /\ lock' \in [Daemons -> Locks] /\ OtherLocksKeep(d)
      /\ lock'[d].pc = "statted" /\ lock'[d].fd = lock[d].fd /\ lock'[d].seen = s
  BY <1>2, StepWithSeen DEF LockOK, LockPcs
<1>4. intruded' \in [Daemons -> {"no", "since", "checking"}]
  BY <1>1 DEF LockOK, LockTypeOK
<1>5. LockTypeOK'
  BY <1>1, <1>3, <1>4 DEF LockOK, LockTypeOK
<1>6. Descriptor(d)'
  BY <1>1, <1>3 DEF Descriptor
<1>7. ASSUME Undisturbed
      PROVE  OwnFlock(d)'
  <2>1. lock[d].fd = lockPath /\ flocked[lock[d].fd] = d
    BY <1>1, <1>7, AboutOne DEF OwnFlock, Owning
  <2>2. s # 0
    BY <1>1, <1>2, <2>1, LockBounds DEF Inodes
  <2> QED BY <1>1, <1>3, <2>1, <2>2 DEF OwnFlock, Owning
<1>8. ASSUME NEW e \in Daemons, intruded'[e] # "no"
      PROVE  Proof(e)'
  <2>1. Proof(e)
    BY <1>1, <1>8, AboutOne DEF LockOK, LockTypeOK
  <2>2. CASE e = d
    <3>1. s = lockPath
      BY <1>2, <2>1, <2>2 DEF Proof
    <3> QED BY <2>1, <2>2, <3>1, <1>1, <1>3 DEF Proof, InView, Owning
  <2>3. CASE e # d
    <3>1. lock'[e] = lock[e] /\ intruded'[e] = intruded[e]
      BY <1>1, <1>3, <2>3 DEF OtherLocksKeep, LockOK, LockTypeOK
    <3> QED BY <3>1, <2>1, <1>1 DEF Proof, InView
  <2> QED BY <2>2, <2>3
<1>9. Undisturbed' => Undisturbed
  BY <1>1 DEF Undisturbed
<1> QED BY <1>1, <1>3, <1>5, <1>6, <1>7, <1>8, <1>9, RecordMoves

LEMMA ReflockKeeps ==
    ASSUME LockOK, sameDir, UNCHANGED sameDir, NEW d \in Daemons, Reflock(d)
    PROVE  LockOK'
<1> DEFINE i == lock[d].fd
<1>1. /\ lock[d].pc = "statted" /\ UNCHANGED <<lockPath, lockFile, fs, tampers, intruded>>
      /\ flocked \in [Inodes -> Daemons \cup {NoOne}]
  BY DEF Reflock, LockOK, LockTypeOK
<1>2. /\ i \in Inodes
      /\ Undisturbed => OwnFlock(d)
      /\ intruded[d] # "no" => Proof(d)
  BY <1>1, AboutOne DEF Descriptor
<1>3. CASE flocked[i] \notin {NoOne, d} /\ Step(d, "lost") /\ UNCHANGED flocked
  <2>1. /\ lock' \in [Daemons -> Locks] /\ OtherLocksKeep(d)
        /\ lock'[d].pc = "lost" /\ lock'[d].fd = lock[d].fd
    BY <1>3, StepTo DEF LockOK, LockPcs
  <2>2. Descriptor(d)' /\ ~Undisturbed
    BY <2>1, <1>1, <1>2, <1>3 DEF Descriptor, OwnFlock, Owning
  <2>3. intruded[d] # "no" => Proof(d)'
    BY <2>1, <1>1, <1>2 DEF Proof, InView, Owning
  <2> QED BY <2>1, <2>2, <2>3, <1>1, <1>3, ThreadMoves
<1>4. CASE flocked[i] \in {NoOne, d} /\ flocked' = [flocked EXCEPT ![i] = d]
  <2>1. /\ flocked' \in [Inodes -> Daemons \cup {NoOne}]
        /\ flocked'[i] = d
        /\ Undisturbed =>
              \A e \in Daemons \ {d} : lock[e].pc \in Owning \cup {"flocked"} =>
                  flocked'[lock[e].fd] = flocked[lock[e].fd]
    BY <1>2, <1>4, FlockTaken
  <2>2. CASE lock' = [lock EXCEPT ![d].pc = "held", ![d].seen = 0]
    <3>1. /\ lock' \in [Daemons -> Locks] /\ OtherLocksKeep(d)
          /\ lock'[d].pc = "held" /\ lock'[d].fd = lock[d].fd
      BY <2>2, StepToHeld DEF LockOK
    <3>2. Descriptor(d)' /\ (Undisturbed => OwnFlock(d)')
      BY <3>1, <2>1, <1>1, <1>2 DEF Descriptor, OwnFlock, Owning
    <3>3. intruded[d] # "no" => Proof(d)'
      BY <3>1, <1>1, <1>2 DEF Proof, InView, Owning
    <3> QED BY <3>1, <3>2, <3>3, <2>1, <1>1, ThreadMoves
  <2>3. CASE Step(d, "reflocked")
    <3>1. /\ lock' \in [Daemons -> Locks] /\ OtherLocksKeep(d)
          /\ lock'[d].pc = "reflocked" /\ lock'[d].fd = lock[d].fd
          /\ lock'[d].seen = lock[d].seen
      BY <2>3, StepTo DEF LockOK, LockPcs
    <3>2. Descriptor(d)' /\ (Undisturbed => OwnFlock(d)')
      BY <3>1, <2>1, <1>1, <1>2 DEF Descriptor, OwnFlock, Owning
    <3>3. intruded[d] # "no" => Proof(d)'
      BY <3>1, <1>1, <1>2 DEF Proof, InView, Owning
    <3> QED BY <3>1, <3>2, <3>3, <2>1, <1>1, ThreadMoves
  <2> QED BY <1>4, <2>2, <2>3, <1>1 DEF Reflock
<1> QED BY <1>3, <1>4 DEF Reflock

\* Back to the next tick with the descriptor it had.
LEMMA RetryKeeps ==
    ASSUME LockOK, sameDir, UNCHANGED <<sameDir, lockPath, lockFile, flocked, fs, tampers, intruded>>,
           NEW d \in Daemons, lock[d].pc = "reflocked",
           lock' \in [Daemons -> Locks], OtherLocksKeep(d),
           lock'[d].pc = "held", lock'[d].fd = lock[d].fd
    PROVE  LockOK'
<1>1. Descriptor(d)' /\ (Undisturbed => OwnFlock(d)')
  BY AboutOne DEF Descriptor, OwnFlock, Owning
<1>2. intruded[d] # "no" => Proof(d)'
  BY AboutOne DEF Proof, InView, Owning
<1>3. flocked' \in [Inodes -> Daemons \cup {NoOne}]
  BY DEF LockOK, LockTypeOK
<1> QED BY <1>1, <1>2, <1>3, ThreadMoves

LEMMA OpenAgainKeeps ==
    ASSUME LockOK, sameDir, UNCHANGED sameDir, NEW d \in Daemons, OpenAgain(d)
    PROVE  LockOK'
<1>1. /\ lock[d].pc = "reflocked" /\ UNCHANGED <<flocked, fs, tampers, intruded>>
      /\ lockPath \in 0 .. MaxInodes
      /\ lock[d].fd \in Inodes /\ (Undisturbed => OwnFlock(d))
      /\ intruded[d] # "no" => Proof(d)
  BY AboutOne DEF OpenAgain, LockOK, LockTypeOK, Descriptor
<1>2. CASE /\ lock[d].seen = 0 /\ lockPath = 0 /\ Unused # {}
           /\ lockPath' = Fresh /\ lockFile' = NewFile(NoOne, "ok")
           /\ lock' = [lock EXCEPT ![d].pc = "found", ![d].seen = Fresh]
  <2>1. Fresh \in Inodes /\ Fresh \in 0 .. MaxInodes
    BY <1>2, FreshIsUnused, LockBounds DEF Inodes
  <2>2. /\ lock' \in [Daemons -> Locks] /\ OtherLocksKeep(d)
        /\ lock'[d].pc = "found" /\ lock'[d].fd = lock[d].fd /\ lock'[d].seen = Fresh
    BY <1>2, <2>1, StepWithSeen DEF LockOK, LockPcs
  <2>3. lockFile' \in [Inodes -> LockFiles]
    BY <1>2 DEF LockOK, LockTypeOK, NewFile, LockFiles, Vets
  <2>4. LockTypeOK'
    BY <1>1, <1>2, <2>1, <2>2, <2>3 DEF LockOK, LockTypeOK
  <2>5. Descriptor(d)' /\ ~Undisturbed'
    BY <1>1, <1>2, <2>1, <2>2 DEF Descriptor, OwnFlock, Undisturbed
  <2>6. \A e \in Daemons : intruded'[e] = "no"
    BY <1>1, <1>2, AboutOne, LockBounds DEF Proof, Inodes
  <2> QED BY <2>2, <2>4, <2>5, <2>6, RecordMoves
<1>3. CASE /\ UNCHANGED <<lockPath, lockFile>>
           /\ \/ lock' = [lock EXCEPT ![d].pc = "held", ![d].seen = 0]
              \/ lock' = [lock EXCEPT ![d].pc = "held", ![d].seen = 0, ![d].alias = TRUE]
  <2>1. /\ lock' \in [Daemons -> Locks] /\ OtherLocksKeep(d)
        /\ lock'[d].pc = "held" /\ lock'[d].fd = lock[d].fd
    BY <1>3, StepToHeld DEF LockOK
  <2> QED BY <2>1, <1>1, <1>3, RetryKeeps
<1>4. CASE /\ lockPath \notin {0, lock[d].fd} /\ UNCHANGED <<lockPath, lockFile>>
           /\ lock' = [lock EXCEPT ![d].pc = "found", ![d].seen = lockPath]
  <2>1. /\ lock' \in [Daemons -> Locks] /\ OtherLocksKeep(d)
        /\ lock'[d].pc = "found" /\ lock'[d].fd = lock[d].fd /\ lock'[d].seen = lockPath
    BY <1>1, <1>4, StepWithSeen DEF LockOK, LockPcs
  <2>2. lockPath \in Inodes
    BY <1>1, <1>4, LockBounds DEF Inodes
  <2>3. Descriptor(d)' /\ ~Undisturbed
    BY <1>1, <1>4, <2>1, <2>2 DEF Descriptor, OwnFlock
  <2>4. intruded[d] # "no" => Proof(d)'
    BY <1>1, <1>4, <2>1 DEF Proof, InView, Owning
  <2>5. flocked' \in [Inodes -> Daemons \cup {NoOne}]
    BY <1>1 DEF LockOK, LockTypeOK
  <2> QED BY <2>1, <2>3, <2>4, <2>5, <1>1, <1>4, ThreadMoves
<1> QED BY <1>2, <1>3, <1>4 DEF OpenAgain

LEMMA ProveOwnerKeeps ==
    ASSUME LockOK, sameDir, UNCHANGED sameDir, NEW d \in Daemons, ProveOwner(d)
    PROVE  LockOK'
<1> DEFINE i == lock[d].seen
<1>1. /\ lock[d].pc = "found" /\ UNCHANGED <<lockPath, lockFile, fs, tampers, intruded>>
      /\ flocked \in [Inodes -> Daemons \cup {NoOne}]
  BY DEF ProveOwner, LockOK, LockTypeOK
<1>2. /\ i \in Inodes /\ lock[d].fd \in Inodes /\ ~Undisturbed
      /\ intruded[d] # "no" => Proof(d)
  BY <1>1, AboutOne DEF Descriptor, OwnFlock
<1>3. CASE Step(d, "lost") /\ UNCHANGED flocked
  <2>1. /\ lock' \in [Daemons -> Locks] /\ OtherLocksKeep(d)
        /\ lock'[d].pc = "lost" /\ lock'[d].fd = lock[d].fd
    BY <1>3, StepTo DEF LockOK, LockPcs
  <2>2. Descriptor(d)'
    BY <2>1, <1>1, <1>2 DEF Descriptor
  <2>3. intruded[d] # "no" => Proof(d)'
    BY <2>1, <1>1, <1>2 DEF Proof, InView, Owning
  <2> QED BY <2>1, <2>2, <2>3, <1>1, <1>2, <1>3, ThreadMoves
<1>4. CASE /\ lockFile[i].rec \in {NoOne, d} /\ Step(d, "proven")
           /\ flocked' = [flocked EXCEPT ![i] = d]
  <2>1. /\ lock' \in [Daemons -> Locks] /\ OtherLocksKeep(d)
        /\ lock'[d].pc = "proven" /\ lock'[d].fd = lock[d].fd /\ lock'[d].seen = i
    BY <1>4, StepTo DEF LockOK, LockPcs
  <2>2. flocked' \in [Inodes -> Daemons \cup {NoOne}]
    BY <1>1, <1>4
  <2>3. Descriptor(d)'
    BY <2>1, <1>1, <1>2 DEF Descriptor
  <2>4. intruded[d] # "no" => Proof(d)'
    <3>1. intruded[d] # "checking"
      BY <1>1, <1>2, <1>4 DEF Proof, InView
    <3> QED BY <3>1, <2>1, <1>1, <1>2 DEF Proof, Owning
  <2> QED BY <2>1, <2>2, <2>3, <2>4, <1>1, <1>2, ThreadMoves
<1> QED BY <1>3, <1>4 DEF ProveOwner

LEMMA RelockKeeps ==
    ASSUME LockOK, sameDir, UNCHANGED sameDir, NEW d \in Daemons, Relock(d)
    PROVE  LockOK'
<1> DEFINE i == lock[d].seen
           old == lock[d].fd
<1>1. /\ lock[d].pc = "proven" /\ UNCHANGED <<lockPath, fs, tampers>>
      /\ flocked \in [Inodes -> Daemons \cup {NoOne}]
  BY DEF Relock, LockOK, LockTypeOK
<1>2. /\ i \in Inodes /\ old \in Inodes /\ ~Undisturbed /\ ~Undisturbed'
      /\ intruded[d] # "no" => Proof(d)
  BY <1>1, AboutOne DEF Descriptor, OwnFlock, Undisturbed
<1>3. CASE /\ flocked' = [flocked EXCEPT ![i] = NoOne] /\ UNCHANGED <<lockFile, intruded>>
           /\ lock' = [lock EXCEPT ![d].pc = "held", ![d].seen = 0]
  <2>1. /\ lock' \in [Daemons -> Locks] /\ OtherLocksKeep(d)
        /\ lock'[d].pc = "held" /\ lock'[d].fd = old
    BY <1>3, StepToHeld DEF LockOK
  <2>2. flocked' \in [Inodes -> Daemons \cup {NoOne}]
    BY <1>1, <1>3
  <2>3. Descriptor(d)'
    BY <2>1, <1>1, <1>2 DEF Descriptor
  <2>4. intruded[d] # "no" => Proof(d)'
    BY <2>1, <1>1, <1>2, <1>3 DEF Proof, InView, Owning
  <2> QED BY <2>1, <2>2, <2>3, <2>4, <1>1, <1>2, <1>3, ThreadMoves
<1>4. CASE /\ lockFile' = [lockFile EXCEPT ![i].rec = d]
           /\ flocked' = [flocked EXCEPT ![old] = IF @ = d THEN NoOne ELSE @]
           /\ lock' = [lock EXCEPT ![d] = [LockDown EXCEPT !.pc = "held", !.fd = i]]
           /\ intruded' = [intruded EXCEPT ![d] = "no"]
  <2>1. /\ lock' \in [Daemons -> Locks] /\ OtherLocksKeep(d)
        /\ lock'[d].pc = "held" /\ lock'[d].fd = i
    <3>1. i \in 0 .. MaxInodes /\ "held" \in LockPcs
      BY <1>2, LockBounds DEF Inodes, LockPcs
    <3> QED BY <1>4, <3>1, StepToFile DEF LockOK
  <2>2. flocked' \in [Inodes -> Daemons \cup {NoOne}]
    BY <1>1, <1>2, <1>4
  <2>3. /\ lockFile' \in [Inodes -> LockFiles]
        /\ lockFile'[i].rec = d
        /\ \A j \in Inodes : j # i => lockFile'[j].rec = lockFile[j].rec
    BY <1>2, <1>4 DEF LockOK, LockTypeOK, LockFiles
  <2>4. intruded' \in [Daemons -> {"no", "since", "checking"}]
    BY <1>4 DEF LockOK, LockTypeOK
  <2>5. LockTypeOK'
    BY <1>1, <2>1, <2>2, <2>3, <2>4 DEF LockOK, LockTypeOK
  <2>6. Descriptor(d)'
    BY <2>1, <1>1, <1>2 DEF Descriptor
  <2>7. ASSUME NEW e \in Daemons, intruded'[e] # "no"
        PROVE  Proof(e)'
    <3>1. e # d /\ intruded'[e] = intruded[e]
      BY <1>4, <2>7 DEF LockOK, LockTypeOK
    <3>2. lock'[e] = lock[e] /\ d # NoOne
      BY <2>1, <3>1, LockBounds DEF OtherLocksKeep, NoOne
    <3>3. Proof(e)
      BY <2>7, <3>1, AboutOne
    <3>4. lockFile'[lockPath].rec \notin {NoOne, e}
      BY <2>3, <3>1, <3>2, <3>3 DEF Proof
    <3> QED BY <3>1, <3>2, <3>3, <3>4, <1>1 DEF Proof, InView
  <2> QED BY <1>2, <2>1, <2>5, <2>6, <2>7, RecordMoves
<1> QED BY <1>3, <1>4 DEF Relock

LEMMA LockExitKeeps ==
    ASSUME LockOK, UNCHANGED sameDir, NEW d \in Daemons, LockExit(d)
    PROVE  LockOK'
<1>1. /\ lock' \in [Daemons -> Locks] /\ lock'[d].pc = "down" /\ OtherLocksKeep(d)
      /\ UNCHANGED <<lockPath, fs, tampers>>
  BY StepDown DEF LockExit, LockOK
<1>2. flocked' \in [Inodes -> Daemons \cup {NoOne}]
  BY DEF LockExit, LockOK, LockTypeOK
<1>3. /\ lockFile' \in [Inodes -> LockFiles]
      /\ \A i \in Inodes : lockFile'[i].rec \in {lockFile[i].rec, Earlier}
  BY DEF LockExit, LockOK, LockTypeOK, LockFiles
<1>4. /\ intruded' \in [Daemons -> {"no", "since", "checking"}]
      /\ intruded'[d] = "no"
      /\ \A e \in Daemons \ {d} : intruded'[e] = intruded[e]
  BY DEF LockExit, LockOK, LockTypeOK
<1>5. LockTypeOK'
  BY <1>1, <1>2, <1>3, <1>4 DEF LockOK, LockTypeOK
<1>6. Descriptor(d)' /\ OwnFlock(d)'
  BY <1>1, DownKeeps
<1>7. ASSUME NEW e \in Daemons, intruded'[e] # "no"
      PROVE  Proof(e)'
  <2>1. e # d /\ intruded'[e] = intruded[e]
    BY <1>4, <1>7
  <2>2. lock'[e] = lock[e] /\ Proof(e)
    BY <1>1, <1>7, <2>1, AboutOne DEF OtherLocksKeep
  <2>3. Earlier \notin {NoOne, e}
    BY LockBounds DEF Earlier, NoOne
  <2>4. lockFile'[lockPath].rec \notin {NoOne, e}
    BY <1>3, <2>2, <2>3 DEF Proof
  <2> QED BY <1>1, <2>1, <2>2, <2>4 DEF Proof, InView
<1>8. ASSUME Undisturbed, NEW e \in Daemons \ {d}, lock[e].pc \in Owning \cup {"flocked"}
      PROVE  flocked'[lock[e].fd] = flocked[lock[e].fd]
  <2>1. lock[e].fd \in Inodes /\ flocked[lock[e].fd] = e
    BY <1>8, AboutOne DEF OwnFlock, Descriptor, Undisturbed, Owning
  <2> QED BY <2>1 DEF LockExit
<1>9. Undisturbed' => Undisturbed
  BY <1>1 DEF Undisturbed
<1> QED BY <1>1, <1>5, <1>6, <1>7, <1>8, <1>9, RecordMoves

\* Somebody meddles with the lock file, the lease or the socket file.
LEMMA TamperKeeps ==
    ASSUME LockOK, UNCHANGED <<sameDir, lock, fs>>, Tampered,
           lockPath' \in 0 .. MaxInodes, lockFile' \in [Inodes -> LockFiles],
           flocked' \in [Inodes -> Daemons \cup {NoOne}]
    PROVE  LockOK'
<1>1. LockTypeOK'
  BY TamperedKeeps DEF LockOK, LockTypeOK
<1>2. Descriptors'
  BY DEF LockOK, LockInv, Descriptors, Descriptor
<1> QED BY <1>1, <1>2, TamperedKeeps DEF LockOK, LockInv, FlockIsTheOwners, EvidenceStands

LEMMA InterferenceKeeps ==
    ASSUME LockOK, UNCHANGED sameDir, Interference
    PROVE  LockOK'
<1>0. /\ lockPath \in 0 .. MaxInodes /\ lockFile \in [Inodes -> LockFiles]
      /\ flocked \in [Inodes -> Daemons \cup {NoOne}]
  BY DEF LockOK, LockTypeOK
<1>1. CASE DeleteLock
  <2>1. lockPath' \in 0 .. MaxInodes
    BY <1>1, LockBounds DEF DeleteLock
  <2> QED BY <1>0, <1>1, <2>1, TamperKeeps DEF DeleteLock
<1>2. CASE ReplaceLock
  <2>1. Fresh \in Inodes /\ Fresh \in 0 .. MaxInodes /\ lockPath \in Inodes
    BY <1>0, <1>2, FreshIsUnused, LockBounds DEF ReplaceLock, Inodes
  <2>2. PICK vet \in Vets, rec \in {NoOne, lockFile[lockPath].rec} :
           lockFile' = NewFile(rec, vet)
    BY <1>2 DEF ReplaceLock
  <2>3. rec \in Daemons \cup {NoOne, Earlier}
    BY <1>0, <2>1, <2>2 DEF LockFiles
  <2>4. lockFile' \in [Inodes -> LockFiles]
    BY <1>0, <2>1, <2>2, <2>3 DEF NewFile, LockFiles
  <2> QED BY <1>0, <1>2, <2>1, <2>4, TamperKeeps DEF ReplaceLock
<1>3. CASE LoseLease
  <2>1. flocked' \in [Inodes -> Daemons \cup {NoOne}]
    BY <1>0, <1>3 DEF LoseLease
  <2> QED BY <1>0, <1>3, <2>1, TamperKeeps DEF LoseLease
<1>4. CASE Tampered /\ UNCHANGED <<lockPath, lockFile, flocked, lock, fs>>
  BY <1>0, <1>4, TamperKeeps
<1> QED BY <1>1, <1>2, <1>3, <1>4 DEF Interference, Tamper

\* What a step of the machine is to the lock.
LEMMA LockSteps ==
    ASSUME DaemonNext
    PROVE  /\ UNCHANGED sameDir
           /\ \/ \E d \in Daemons : LockExit(d)
              \/ \E d \in Daemons : sameDir /\ (Acquire(d) \/ Check(d))
              \/ \E d \in Daemons :
                    /\ ~sameDir /\ lock[d].pc = "down" /\ Step(d, "held")
                    /\ UNCHANGED <<lockPath, lockFile, flocked, fs, tampers, intruded>>
              \/ Interference
              \/ UNCHANGED lockVars
<1>1. CASE Interference
  BY <1>1 DEF Interference, daemonVars
<1>2. ASSUME NEW d \in Daemons, Start(d)
      PROVE  UNCHANGED sameDir /\ UNCHANGED lockVars
  BY <1>2 DEF Start
<1>3. ASSUME NEW d \in Daemons, Lock(d)
      PROVE  /\ UNCHANGED sameDir
             /\ \/ sameDir /\ Acquire(d)
                \/ /\ ~sameDir /\ lock[d].pc = "down" /\ Step(d, "held")
                   /\ UNCHANGED <<lockPath, lockFile, flocked, fs, tampers, intruded>>
  BY <1>3 DEF Lock, daemonVars
<1>4. ASSUME NEW d \in Daemons, Main(d), ~Lock(d)
      PROVE  UNCHANGED sameDir /\ (LockExit(d) \/ UNCHANGED lockVars)
  <2>1. CASE Preflight(d) \/ OpenRuntime(d) \/ Recover(d) \/ HandOff(d) \/ OpenBind(d)
    BY <2>1 DEF Preflight, OpenRuntime, Recover, HandOff, OpenBind, Gone
  <2>2. CASE Bind(d) \/ EnterServing(d) \/ Refused(d)
    BY <2>2 DEF Bind, EnterServing, Refused, Gone
  <2>3. CASE LameDuck(d) \/ CloseIngest(d) \/ StopDrain(d) \/ Exit(d)
    BY <2>3 DEF LameDuck, CloseIngest, StopDrain, Exit, Gone, daemonVars
  <2> QED BY <1>4, <2>1, <2>2, <2>3 DEF Main
<1>5. ASSUME NEW d \in Daemons, Integrity(d)
      PROVE  UNCHANGED sameDir /\ sameDir /\ Check(d)
  BY <1>5 DEF Integrity, daemonVars
<1>6. ASSUME NEW d \in Daemons, OwnershipLost(d) \/ Crash(d)
      PROVE  UNCHANGED sameDir /\ LockExit(d)
  BY <1>6 DEF OwnershipLost, Crash, Gone
<1>7. ASSUME NEW d \in Daemons, BeginShutdown(d) \/ Broadcast(d)
      PROVE  UNCHANGED sameDir /\ UNCHANGED lockVars
  BY <1>7 DEF BeginShutdown, Broadcast
<1> QED BY <1>1, <1>2, <1>3, <1>4, <1>5, <1>6, <1>7 DEF DaemonNext

LEMMA OwnDirKeeps ==
    ASSUME LockOK, UNCHANGED sameDir, ~sameDir, NEW d \in Daemons,
           lock[d].pc = "down", Step(d, "held"),
           UNCHANGED <<lockPath, lockFile, flocked, fs, tampers, intruded>>
    PROVE  LockOK'
<1>1. /\ lock' \in [Daemons -> Locks] /\ OtherLocksKeep(d)
      /\ lock'[d].pc = "held"
  BY StepTo DEF LockOK, LockPcs
<1>2. Descriptor(d)' /\ ~Undisturbed /\ intruded[d] = "no"
  BY <1>1, AboutOne DEF Descriptor, Undisturbed, Proof, Owning
<1>3. flocked' \in [Inodes -> Daemons \cup {NoOne}]
  BY DEF LockOK, LockTypeOK
<1> QED BY <1>1, <1>2, <1>3, ThreadMoves

\* The lock's invariant is inductive.
LEMMA LockStart == DaemonInit => LockOK
<1> SUFFICES ASSUME DaemonInit
             PROVE  LockOK
  OBVIOUS
<1>1. /\ lock \in [Daemons -> Locks] /\ \A d \in Daemons : lock[d].pc = "down"
  BY LockBounds DEF DaemonInit, LockInit, LockDown, Locks, LockPcs
<1>2. lockFile \in [Inodes -> LockFiles]
  BY DEF DaemonInit, LockInit, LockFiles, Vets
<1>3. lockPath \in 0 .. MaxInodes
  BY LockBounds DEF DaemonInit, LockInit
<1>4. LockTypeOK
  BY <1>1, <1>2, <1>3 DEF DaemonInit, LockInit, LockTypeOK
<1>5. Descriptors /\ FlockIsTheOwners
  BY <1>1 DEF Descriptors, Descriptor, FlockIsTheOwners, OwnFlock, Owning
<1>6. EvidenceStands
  BY DEF DaemonInit, LockInit, EvidenceStands
<1> QED BY <1>4, <1>5, <1>6 DEF LockOK, LockInv

LEMMA LockKept == LockOK /\ [DaemonNext]_machineVars => LockOK'
<1> SUFFICES ASSUME LockOK, [DaemonNext]_machineVars
             PROVE  LockOK'
  OBVIOUS
<1>1. ASSUME UNCHANGED lockVars, UNCHANGED sameDir
      PROVE  LockOK'
  BY <1>1 DEF LockOK, LockTypeOK, LockInv, Descriptors, Descriptor, FlockIsTheOwners,
              OwnFlock, EvidenceStands, Proof, InView, Undisturbed, lockVars
<1>2. CASE UNCHANGED machineVars
  BY <1>1, <1>2 DEF machineVars, daemonVars
<1>3. CASE DaemonNext
  <2>1. UNCHANGED sameDir
    BY <1>3, LockSteps
  <2>2. ASSUME NEW d \in Daemons, sameDir, Acquire(d)
        PROVE  LockOK'
    BY <2>1, <2>2, OpenLockKeeps, VetLockKeeps, TakeLockKeeps, WriteRecordKeeps DEF Acquire
  <2>3. ASSUME NEW d \in Daemons, sameDir, Check(d)
        PROVE  LockOK'
    BY <2>1, <2>3, StatPathKeeps, ReflockKeeps, OpenAgainKeeps, ProveOwnerKeeps, RelockKeeps
       DEF Check
  <2> QED BY <1>1, <1>3, <2>1, <2>2, <2>3, LockSteps, LockExitKeeps, OwnDirKeeps,
             InterferenceKeeps
<1> QED BY <1>2, <1>3

-----------------------------------------------------------------------------
(* What the lock promises *)

\* Any two owners hold the flock of the one file at the path.
LEMMA OneOwner == LockOK => SoleOwner
<1> SUFFICES ASSUME LockOK, sameDir, fs.locks, tampers = 0
             PROVE  Cardinality(Owners) <= 1
  BY DEF SoleOwner
<1>1. ASSUME NEW d \in Owners
      PROVE  d \in Daemons /\ lock[d].fd = lockPath /\ flocked[lockPath] = d
  <2>1. d \in Daemons /\ lock[d].pc \in Owning
    BY <1>1 DEF Owners, Owner
  <2> QED BY <2>1, AboutOne DEF Undisturbed, OwnFlock, Owning
<1>2. CASE Owners = {}
  BY <1>2, FS_EmptySet
<1>3. CASE Owners # {}
  <2>1. PICK d \in Owners : TRUE
    BY <1>3
  <2>2. Owners = {d}
    BY <1>1, <2>1
  <2> QED BY <2>2, FS_Singleton
<1> QED BY <1>2, <1>3

\* A step of one daemon's thread leaves the others'.
LEMMA OthersKeep ==
    ASSUME LockOK, NEW e \in Daemons, Acquire(e) \/ Check(e) \/ LockExit(e)
    PROVE  OtherLocksKeep(e)
<1>0. lock \in [Daemons -> Locks]
  BY DEF LockOK, LockTypeOK
<1>1. CASE Acquire(e)
  BY <1>0, <1>1 DEF Acquire, OpenLock, VetLock, TakeLock, WriteRecord, Step, OtherLocksKeep
<1>2. CASE Check(e)
  BY <1>0, <1>2 DEF Check, StatPath, Reflock, OpenAgain, ProveOwner, Relock, Step, OtherLocksKeep
<1>3. CASE LockExit(e)
  BY <1>0, <1>3 DEF LockExit, OtherLocksKeep
<1> QED BY <1>1, <1>2, <1>3

\* A check that certifies is a re-flock of the file it saw, or a Relock.
LEMMA CertifyingStep ==
    ASSUME LockOK, [DaemonNext]_machineVars, NEW d \in Daemons, Certifies(d)
    PROVE  \/ lock[d].pc = "statted" /\ lock[d].seen = lock[d].fd
           \/ lock[d].pc = "proven"
<1>1. /\ lock[d].pc \in {"statted", "proven"} /\ lock'[d].pc = "held"
      /\ lock \in [Daemons -> Locks]
  BY DEF Certifies, LockOK, LockTypeOK
<1>2. lock'[d] # lock[d]
  BY <1>1
<1>3. DaemonNext
  BY <1>2 DEF machineVars, lockVars
<1>4. ~UNCHANGED lockVars /\ ~Interference
  BY <1>2 DEF lockVars, Interference, Tamper, DeleteLock, ReplaceLock, LoseLease
<1>5. ASSUME NEW e \in Daemons, lock[e].pc = "down", Step(e, "held")
      PROVE  FALSE
  BY <1>1, <1>2, <1>5 DEF Step
<1>6. ASSUME NEW e \in Daemons, LockExit(e)
      PROVE  FALSE
  BY <1>1, <1>2, <1>6, OthersKeep, StepDown DEF OtherLocksKeep, LockExit, LockOK
<1>7. ASSUME NEW e \in Daemons, Acquire(e)
      PROVE  FALSE
  <2>1. e = d
    BY <1>2, <1>7, OthersKeep DEF OtherLocksKeep
  <2> QED BY <1>1, <1>7, <2>1 DEF Acquire, OpenLock, VetLock, TakeLock, WriteRecord
<1>8. ASSUME NEW e \in Daemons, Check(e)
      PROVE  \/ lock[d].pc = "statted" /\ lock[d].seen = lock[d].fd
             \/ lock[d].pc = "proven"
  <2>1. e = d
    BY <1>2, <1>8, OthersKeep DEF OtherLocksKeep
  <2>2. CASE lock[d].pc = "statted"
    <3>1. Reflock(d)
      BY <1>8, <2>1, <2>2 DEF Check, StatPath, OpenAgain, ProveOwner, Relock
    <3>2. lock[d].seen # lock[d].fd => lock'[d].pc \in {"lost", "reflocked"}
      BY <1>1, <3>1 DEF Reflock, Step, Locks
    <3> QED BY <1>1, <2>2, <3>2
  <2> QED BY <1>1, <2>2
<1> QED BY <1>3, <1>4, <1>5, <1>6, <1>7, <1>8, LockSteps

\* Neither step can be taken with the intruder's file in view.
LEMMA EvidenceIsSeen ==
    ASSUME LockOK, [DaemonNext]_machineVars, NEW d \in Daemons, Certifies(d)
    PROVE  intruded[d] # "checking"
<1> SUFFICES ASSUME intruded[d] = "checking"
             PROVE  FALSE
  OBVIOUS
<1>1. Proof(d) /\ InView(d)
  BY AboutOne DEF Proof
<1> QED BY <1>1, CertifyingStep DEF Proof, InView

-----------------------------------------------------------------------------
(* Steps of main and of the listener: what they leave of the records *)

SocketOK == SocketTypeOK /\ SocketInv

\* Every daemon but d keeps its main thread, or its socket.
OtherMainsKeep(d) == \A e \in Daemons \ {d} : main'[e] = main[e]
OtherSocksKeep(d) == \A e \in Daemons \ {d} : sock'[e] = sock[e]

LEMMA GotoSteps ==
    ASSUME SocketTypeOK, NEW d \in Daemons, NEW p \in MainPcs, NEW ph \in Phase, Goto(d, p, ph)
    PROVE  /\ main' \in [Daemons -> Mains]
           /\ main'[d].pc = p /\ main'[d].level = main[d].level
           /\ main'[d].raced = main[d].raced
           /\ main'[d].phase = IF main[d].phase = "shutting_down" THEN "shutting_down" ELSE ph
           /\ OtherMainsKeep(d)
<1>1. enter(d, ph) \in Phase
  BY DEF enter, Phase
<1> QED BY <1>1 DEF SocketTypeOK, Mains, Goto, enter, OtherMainsKeep

LEMMA PcSteps ==
    ASSUME SocketTypeOK, NEW d \in Daemons, NEW p \in MainPcs,
           main' = [main EXCEPT ![d].pc = p]
    PROVE  /\ main' \in [Daemons -> Mains]
           /\ main'[d].pc = p /\ main'[d].level = main[d].level
           /\ main'[d].raced = main[d].raced /\ main'[d].phase = main[d].phase
           /\ OtherMainsKeep(d)
BY DEF SocketTypeOK, Mains, OtherMainsKeep

LEMMA SockStepTo ==
    ASSUME SocketTypeOK, NEW d \in Daemons, NEW s \in SockSteps, SockStep(d, s)
    PROVE  /\ sock' \in [Daemons -> Socks] /\ OtherSocksKeep(d)
           /\ sock'[d].step = s /\ sock'[d].num = sock[d].num
           /\ sock'[d].open = sock[d].open /\ sock'[d].excused = sock[d].excused
           /\ sock'[d].first = sock[d].first
BY DEF SocketTypeOK, Socks, SockStep, OtherSocksKeep

\* A number is noted: the one first seen, or the identity.
LEMMA SockNotesFirst ==
    ASSUME SocketTypeOK, NEW d \in Daemons, NEW s \in SockSteps, NEW n \in 0 .. MaxNumbers,
           sock' = [sock EXCEPT ![d].step = s, ![d].first = n]
    PROVE  /\ sock' \in [Daemons -> Socks] /\ OtherSocksKeep(d)
           /\ sock'[d].step = s /\ sock'[d].first = n /\ sock'[d].open = sock[d].open
BY DEF SocketTypeOK, Socks, OtherSocksKeep

LEMMA SockNotesNum ==
    ASSUME SocketTypeOK, NEW d \in Daemons, NEW s \in SockSteps, NEW n \in 0 .. MaxNumbers,
           sock' = [sock EXCEPT ![d].step = s, ![d].num = n]
    PROVE  /\ sock' \in [Daemons -> Socks] /\ OtherSocksKeep(d)
           /\ sock'[d].step = s /\ sock'[d].num = n
           /\ sock'[d].open = sock[d].open /\ sock'[d].excused = sock[d].excused
BY DEF SocketTypeOK, Socks, OtherSocksKeep

LEMMA SockBecomes ==
    ASSUME SocketTypeOK, NEW d \in Daemons, NEW c \in Socks, sock' = [sock EXCEPT ![d] = c]
    PROVE  sock' \in [Daemons -> Socks] /\ OtherSocksKeep(d) /\ sock'[d] = c
BY DEF SocketTypeOK, OtherSocksKeep

\* The listener is dropped.
LEMMA SockCloses ==
    ASSUME SocketTypeOK, NEW d \in Daemons, NEW s \in SockSteps,
           sock' = [sock EXCEPT ![d].step = s, ![d].open = FALSE]
    PROVE  /\ sock' \in [Daemons -> Socks] /\ OtherSocksKeep(d)
           /\ sock'[d].step = s /\ ~sock'[d].open
BY DEF SocketTypeOK, Socks, OtherSocksKeep

\* What the invariant says of one daemon.
LEMMA AboutSocket ==
    ASSUME SocketOK, NEW d \in Daemons
    PROVE  /\ InOrder(d) /\ (Plain(d) => AtThePath(d)) /\ Lasting(d)
           /\ main[d] \in Mains /\ sock[d] \in Socks
BY DEF SocketOK, SocketTypeOK, SocketInv, MainInOrder, FileIsTheListeners, PreflightLasts

\* A step of d's main thread, with no socket changed.
LEMMA MainMoves ==
    ASSUME SocketOK, UNCHANGED <<sockPath, sock, samePort>>, NEW d \in Daemons,
           port' \in Daemons \cup {NoOne}, starts' \in Nat,
           main' \in [Daemons -> Mains], OtherMainsKeep(d), InOrder(d)', Lasting(d)'
    PROVE  SocketOK'
<1>1. SocketTypeOK'
  BY DEF SocketOK, SocketTypeOK
<1>2. MainInOrder'
  BY DEF SocketOK, SocketInv, MainInOrder, InOrder, OtherMainsKeep
<1>3. FileIsTheListeners'
  BY DEF SocketOK, SocketInv, FileIsTheListeners, Plain, AtThePath, Harmless
<1>4. PreflightLasts'
  <2>1. ASSUME NEW e \in Daemons \ {d}
        PROVE  Lasting(e)'
    BY <2>1, AboutSocket DEF Lasting, Bindable, Unraced, OtherMainsKeep
  <2>2. \A e \in Daemons : Lasting(e)'
    BY <2>1
  <2> QED BY <2>2 DEF SocketOK, SocketInv, PreflightLasts
<1> QED BY <1>1, <1>2, <1>3, <1>4 DEF SocketOK, SocketInv

\* A step of d's listener, with the path as it was.
LEMMA SockMoves ==
    ASSUME SocketOK, UNCHANGED <<sockPath, main, samePort, port, starts>>, NEW d \in Daemons,
           sock' \in [Daemons -> Socks], OtherSocksKeep(d), sock'[d].open => sock[d].open,
           InOrder(d)', Plain(d)' => AtThePath(d)', Lasting(d)',
           \A e \in Daemons \ {d} : Plain(e) => Harmless(d)'
    PROVE  SocketOK'
<1>1. SocketTypeOK'
  BY DEF SocketOK, SocketTypeOK
<1>2. MainInOrder'
  BY DEF SocketOK, SocketInv, MainInOrder, InOrder, OtherSocksKeep
<1>3. FileIsTheListeners'
  <2> SUFFICES ASSUME NEW e \in Daemons \ {d}, Plain(e)'
               PROVE  AtThePath(e)'
    BY DEF FileIsTheListeners
  <2>1. sock'[e] = sock[e] /\ Plain(e)
    BY DEF OtherSocksKeep, Plain
  <2>2. AtThePath(e) /\ Harmless(d)'
    BY <2>1, AboutSocket
  <2>3. ASSUME NEW x \in Daemons \ {e}
        PROVE  Harmless(x)'
    BY <2>2, <2>3 DEF AtThePath, Harmless, OtherSocksKeep
  <2> QED BY <2>1, <2>2, <2>3 DEF AtThePath
<1>4. PreflightLasts'
  <2>1. ASSUME NEW e \in Daemons \ {d}
        PROVE  Lasting(e)'
    <3>1. Lasting(e) /\ sock'[e] = sock[e] /\ main'[e] = main[e]
      BY AboutSocket DEF OtherSocksKeep
    <3>2. \A x \in Daemons : sock'[x].open => sock[x].open
      BY DEF OtherSocksKeep
    <3>3. Unraced(e) => Unraced(e)'
      BY <3>1, <3>2 DEF Unraced
    <3> QED BY <3>1, <3>3 DEF Lasting, Bindable
  <2>2. \A e \in Daemons : Lasting(e)'
    BY <2>1
  <2> QED BY <2>2 DEF SocketOK, SocketInv, PreflightLasts
<1> QED BY <1>1, <1>2, <1>3, <1>4 DEF SocketOK, SocketInv

\* The path is cleared, and only excused listeners remain.
LEMMA PathCleared ==
    ASSUME SocketOK, UNCHANGED <<main, samePort, port, starts>>, sockPath' = Nothing,
           sock' \in [Daemons -> Socks], MainInOrder', \A e \in Daemons : ~Plain(e)'
    PROVE  SocketOK'
<1>1. sockPath' \in Entries /\ sockPath'.num = 0 /\ sockPath'.kind = "stale"
  BY DaemonBounds DEF Nothing, Entries
<1>2. SocketTypeOK'
  BY <1>1 DEF SocketOK, SocketTypeOK
<1>3. FileIsTheListeners'
  BY DEF FileIsTheListeners
<1>4. \A e \in Daemons : Lasting(e)'
  BY <1>1, DaemonBounds DEF Lasting, Bindable, Unraced
<1> QED BY <1>1, <1>2, <1>3, <1>4 DEF SocketOK, SocketInv, PreflightLasts

-----------------------------------------------------------------------------
(* The invariant of main and the socket, action by action *)

\* Past its preflight main never goes back into the race.
LEMMA MainGoesOn ==
    ASSUME SocketOK, UNCHANGED <<sockPath, sock, samePort, starts>>, NEW d \in Daemons,
           port' \in Daemons \cup {NoOne}, main' \in [Daemons -> Mains], OtherMainsKeep(d),
           main[d].pc \notin {"down", "locking"}, InOrder(d)',
           main'[d].pc \in Racing => main[d].pc \in Racing /\ main'[d].raced = main[d].raced
    PROVE  SocketOK'
<1>1. Lasting(d)'
  BY AboutSocket DEF Lasting, Bindable, Unraced
<1>2. starts' \in Nat
  BY DEF SocketOK, SocketTypeOK
<1> QED BY <1>1, <1>2, MainMoves

LEMMA StartKeeps ==
    ASSUME SocketOK, NEW d \in Daemons, Start(d)
    PROVE  SocketOK'
<1>1. /\ main[d].pc = "down" /\ UNCHANGED <<sockPath, sock, samePort, port>>
      /\ main' = [main EXCEPT ![d].pc = "locking"]
      /\ port' \in Daemons \cup {NoOne} /\ starts' \in Nat
  BY DEF Start, At, sockVars, SocketOK, SocketTypeOK
<1>2. /\ main' \in [Daemons -> Mains] /\ OtherMainsKeep(d)
      /\ main'[d].pc = "locking" /\ main'[d].level = main[d].level
      /\ main'[d].phase = main[d].phase
  BY <1>1, PcSteps DEF SocketOK, MainPcs
<1>3. InOrder(d)' /\ Lasting(d)'
  BY <1>1, <1>2, AboutSocket DEF InOrder, Lasting, Racing
<1> QED BY <1>1, <1>2, <1>3, MainMoves

\* What the probe and the look at the entry's kind tell a preflight.
LEMMA ProbeIsClear ==
    ASSUME SocketOK, sockPath.num = 0 \/ sockPath.kind # "file",
           probe_socket \in {"absent", "stale"}
    PROVE  Bindable /\ \A e \in Daemons : sockPath.kind = e => ~sock[e].open
<1>1. sockPath.num = 0 => sockPath.kind = "stale"
  BY DEF SocketOK, SocketInv, PreflightLasts
<1>2. CASE sockPath.num = 0
  BY <1>1, <1>2, DaemonBounds DEF Bindable
<1>3. CASE sockPath.num # 0
  <2>1. sockPath.kind # "denied"
    BY <1>3 DEF probe_socket
  <2>2. ~(sockPath.kind \in Daemons /\ sock[sockPath.kind].open)
    BY <1>3, <2>1 DEF probe_socket
  <2> QED BY <1>3, <2>1, <2>2 DEF Bindable
<1> QED BY <1>2, <1>3

LEMMA PreflightPasses ==
    ASSUME SocketOK, NEW d \in Daemons, At(d, "locking"),
           sockPath.num = 0 \/ sockPath.kind # "file",
           probe_socket \in {"absent", "stale"}, Goto(d, "preflighted", "initializing"),
           UNCHANGED <<sockPath, sock, samePort, port, starts>>
    PROVE  SocketOK'
<1>1. /\ main' \in [Daemons -> Mains] /\ OtherMainsKeep(d)
      /\ main'[d].pc = "preflighted" /\ main'[d].level = main[d].level
      /\ main'[d].phase = IF main[d].phase = "shutting_down" THEN "shutting_down"
                          ELSE "initializing"
  BY GotoSteps DEF SocketOK, MainPcs, Phase
<1>2. sock[d].step = "none" /\ main[d].pc = "locking"
  BY AboutSocket DEF InOrder, At
<1>3. InOrder(d)'
  BY <1>1, <1>2, AboutSocket DEF InOrder
<1>4. Lasting(d)'
  BY <1>1, <1>2, ProbeIsClear DEF Lasting, Bindable, Unraced
<1>5. port' \in Daemons \cup {NoOne} /\ starts' \in Nat
  BY DEF SocketOK, SocketTypeOK
<1> QED BY <1>1, <1>3, <1>4, <1>5, MainMoves

\* The steps of startup that enter a phase.
LEMMA GotoKeeps ==
    ASSUME SocketOK, UNCHANGED <<sockPath, sock, samePort, starts>>, NEW d \in Daemons,
           port' \in Daemons \cup {NoOne}, NEW p \in MainPcs, NEW ph \in Phase,
           Goto(d, p, ph), ph = "serving" <=> p = "serving",
           \/ main[d].pc \in Racing \ {"binding"} /\ p \in Racing
           \/ main[d].pc = "spawned" /\ p = "serving"
    PROVE  SocketOK'
<1>1. /\ main' \in [Daemons -> Mains] /\ OtherMainsKeep(d)
      /\ main'[d].pc = p /\ main'[d].level = main[d].level
      /\ main'[d].raced = main[d].raced
      /\ main'[d].phase = IF main[d].phase = "shutting_down" THEN "shutting_down" ELSE ph
  BY GotoSteps DEF SocketOK
<1>2. InOrder(d)'
  <2>1. CASE main[d].pc \in Racing \ {"binding"} /\ p \in Racing
    BY <1>1, <2>1, AboutSocket DEF InOrder, Racing
  <2>2. CASE main[d].pc = "spawned" /\ p = "serving"
    BY <1>1, <2>2, AboutSocket DEF InOrder
  <2> QED BY <2>1, <2>2
<1>3. /\ main[d].pc \notin {"down", "locking"}
      /\ p \in Racing => main[d].pc \in Racing
  BY DEF Racing
<1> QED BY <1>1, <1>2, <1>3, MainGoesOn

\* The other steps of main past startup: only the pc, or only phase and level.
LEMMA PcKeeps ==
    ASSUME SocketOK, UNCHANGED <<sockPath, sock, samePort, port, starts>>, NEW d \in Daemons,
           NEW p \in MainPcs, main' = [main EXCEPT ![d].pc = p],
           \/ main[d].pc = "delivering" /\ p = "joins"
           \/ main[d].pc = "binding" /\ sock[d].step = "bound" /\ p \in {"spawned", "lame"}
           \/ main[d].pc = "serving" /\ main[d].level # "running" /\ p = "lame"
           \/ main[d].pc = "lame" /\ p = "joins"
           \/ main[d].pc = "joins" /\ p = "stopping"
    PROVE  SocketOK'
<1>1. /\ main' \in [Daemons -> Mains] /\ OtherMainsKeep(d)
      /\ main'[d].pc = p /\ main'[d].level = main[d].level
      /\ main'[d].phase = main[d].phase
  BY PcSteps DEF SocketOK
<1>2. InOrder(d)'
  BY <1>1, AboutSocket DEF InOrder
<1>3. main[d].pc \notin {"down", "locking"} /\ p \notin Racing
  BY DEF Racing
<1>4. port' \in Daemons \cup {NoOne}
  BY DEF SocketOK, SocketTypeOK
<1> QED BY <1>1, <1>2, <1>3, <1>4, MainGoesOn

LEMMA SignalKeeps ==
    ASSUME SocketOK, NEW d \in Daemons, BeginShutdown(d) \/ Broadcast(d)
    PROVE  SocketOK'
<1>1. /\ main[d].pc \notin {"down", "locking"}
      /\ UNCHANGED <<sockPath, sock, samePort, port, starts>>
      /\ port' \in Daemons \cup {NoOne}
  BY DEF BeginShutdown, Broadcast, Handled, sockVars, SocketOK, SocketTypeOK
<1>2. /\ main' \in [Daemons -> Mains] /\ OtherMainsKeep(d)
      /\ main'[d].pc = main[d].pc /\ main'[d].raced = main[d].raced
      /\ main'[d].phase = "shutting_down"
  BY DEF BeginShutdown, Broadcast, SocketOK, SocketTypeOK, Mains, Phase, OtherMainsKeep
<1>3. InOrder(d)'
  BY <1>1, <1>2, AboutSocket DEF InOrder
<1> QED BY <1>1, <1>2, <1>3, MainGoesOn

\* The process is gone: its socket, if it is still there, is stale.
LEMMA GoneKeeps ==
    ASSUME SocketOK, NEW d \in Daemons, Gone(d)
    PROVE  SocketOK'
<1>1. /\ main' \in [Daemons -> Mains] /\ OtherMainsKeep(d)
      /\ main'[d].pc = "down" /\ main'[d].level = "running" /\ main'[d].phase = "initializing"
  BY DEF Gone, SocketOK, SocketTypeOK, OtherMainsKeep, Down, Mains, MainPcs, Phase
<1>2. /\ sock' \in [Daemons -> Socks] /\ OtherSocksKeep(d)
      /\ sock'[d].step = "none" /\ ~sock'[d].open
  BY DaemonBounds DEF Gone, SocketExit, SocketOK, SocketTypeOK, OtherSocksKeep, NoSocket,
                      Socks, SockSteps
<1>3. /\ sockPath' \in Entries /\ sockPath'.num = sockPath.num
      /\ sockPath'.kind = IF sockPath.kind = d THEN "stale" ELSE sockPath.kind
  BY DEF Gone, SocketExit, SocketOK, SocketTypeOK, Entries
<1>4. SocketTypeOK'
  BY <1>1, <1>2, <1>3 DEF Gone, SocketOK, SocketTypeOK
<1>5. MainInOrder'
  <2>1. InOrder(d)'
    BY <1>1, <1>2 DEF InOrder
  <2>2. ASSUME NEW e \in Daemons \ {d}
        PROVE  InOrder(e)'
    BY <1>1, <1>2, AboutSocket DEF InOrder, OtherMainsKeep, OtherSocksKeep
  <2> QED BY <2>1, <2>2 DEF MainInOrder
<1>6. FileIsTheListeners'
  <2> SUFFICES ASSUME NEW e \in Daemons, Plain(e)'
               PROVE  AtThePath(e)'
    BY DEF FileIsTheListeners
  <2>1. e # d /\ sock'[e] = sock[e]
    BY <1>2 DEF Plain, OtherSocksKeep
  <2>2. AtThePath(e)
    BY <2>1, AboutSocket DEF Plain
  <2>3. sockPath'.kind = e /\ sockPath'.num = sockPath.num
    BY <1>3, <2>1, <2>2 DEF AtThePath
  <2>4. ASSUME NEW x \in Daemons \ {e}
        PROVE  Harmless(x)'
    BY <1>2, <1>3, <2>2, <2>4 DEF AtThePath, Harmless, OtherSocksKeep, Trusting
  <2> QED BY <2>1, <2>2, <2>3, <2>4 DEF AtThePath
<1>7. \A e \in Daemons : Lasting(e)'
  <2>1. ASSUME NEW e \in Daemons \ {d}
        PROVE  Lasting(e)'
    <3>1. Lasting(e) /\ sock'[e] = sock[e] /\ main'[e] = main[e]
      BY <1>1, <1>2, AboutSocket DEF OtherSocksKeep, OtherMainsKeep
    <3>2. \A x \in Daemons : sock'[x].open => sock[x].open
      BY <1>2 DEF OtherSocksKeep
    <3>3. \A x \in Daemons : sockPath'.kind = x => sockPath.kind = x
      BY <1>3, DaemonBounds
    <3>4. Unraced(e) => Unraced(e)'
      BY <1>3, <3>1, <3>2, <3>3 DEF Unraced
    <3>5. Bindable => Bindable'
      BY <1>3 DEF Bindable
    <3> QED BY <3>1, <3>4, <3>5 DEF Lasting
  <2>2. Lasting(d)'
    BY <1>1 DEF Lasting, Racing
  <2> QED BY <2>1, <2>2
<1> QED BY <1>3, <1>4, <1>5, <1>6, <1>7 DEF SocketOK, SocketInv, PreflightLasts

-----------------------------------------------------------------------------
(* bind_hardened and remove_own_socket, step by step *)

\* What d's bind keeps when it has no listener yet, and when it has.
Binding(d) == At(d, "binding") /\ UNCHANGED <<samePort, port, starts>>

\* A bind that is refused leaves nothing open.
LEMMA RefuseKeeps ==
    ASSUME SocketOK, UNCHANGED <<sockPath, main>>, NEW d \in Daemons, Binding(d), Refuse(d)
    PROVE  SocketOK'
<1>1. /\ sock' \in [Daemons -> Socks] /\ OtherSocksKeep(d)
      /\ sock'[d].step = "refused" /\ ~sock'[d].open
  BY SockCloses DEF Refuse, SocketOK, SockSteps
<1>2. InOrder(d)' /\ ~Plain(d)' /\ Harmless(d)'
  BY <1>1, AboutSocket DEF InOrder, Plain, Harmless, Trusting, Binding, At
<1>3. Lasting(d)'
  BY <1>1, AboutSocket DEF Lasting, Bindable, Unraced, OtherSocksKeep
<1> QED BY <1>1, <1>2, <1>3, SockMoves DEF Binding

\* A bind that goes on without a listener.
LEMMA LookKeeps ==
    ASSUME SocketOK, UNCHANGED <<sockPath, main>>, NEW d \in Daemons, Binding(d),
           NEW s \in {"statted", "stale", "checked", "clear"},
           sock' \in [Daemons -> Socks], OtherSocksKeep(d),
           sock'[d].step = s, ~sock'[d].open,
           s \in {"stale", "checked"} => \A e \in Daemons \ {d} : ~Plain(e),
           main[d].raced \/
               /\ s \in {"statted", "stale", "checked"} => sockPath.num \in {0, sock'[d].first}
               /\ s = "clear" => sockPath.num = 0
    PROVE  SocketOK'
<1>1. InOrder(d)' /\ ~Plain(d)'
  BY AboutSocket DEF InOrder, Plain, Binding, At
<1>2. \A e \in Daemons \ {d} : Plain(e) => Harmless(d)'
  BY DEF Harmless, Trusting
<1>3. Lasting(d)'
  BY AboutSocket DEF Lasting, Bindable, Unraced, OtherSocksKeep
<1> QED BY <1>1, <1>2, <1>3, SockMoves DEF Binding

\* The looks: at what a bind does, and at what may refuse it.
LEMMA NoListenerYet ==
    ASSUME SocketOK, NEW d \in Daemons, Binding(d),
           sock[d].step \in {"none", "statted", "stale", "checked", "clear"}
    PROVE  /\ ~sock[d].open /\ ~Plain(d) /\ Bindable
           /\ main[d].raced \/ Unraced(d)
BY AboutSocket DEF InOrder, Plain, Lasting, Binding, At, Racing

LEMMA StatKeeps ==
    ASSUME SocketOK, UNCHANGED main, NEW d \in Daemons, Binding(d), StatSocket(d)
    PROVE  SocketOK' /\ sock'[d].step # "refused"
<1>1. sock[d].step = "none" /\ UNCHANGED sockPath /\ ~sock[d].open /\ Bindable
  BY NoListenerYet DEF StatSocket
<1>2. CASE sockPath.num = 0 /\ SockStep(d, "clear")
  <2>1. /\ sock' \in [Daemons -> Socks] /\ OtherSocksKeep(d)
        /\ sock'[d].step = "clear" /\ ~sock'[d].open
    BY <1>1, <1>2, SockStepTo DEF SocketOK, SockSteps
  <2> QED BY <1>1, <1>2, <2>1, LookKeeps
<1>3. CASE /\ sockPath.num # 0
           /\ sock' = [sock EXCEPT ![d].step = "statted", ![d].first = sockPath.num]
  <2>1. /\ sock' \in [Daemons -> Socks] /\ OtherSocksKeep(d)
        /\ sock'[d].step = "statted" /\ ~sock'[d].open /\ sock'[d].first = sockPath.num
    <3>1. "statted" \in SockSteps /\ SocketTypeOK
      BY DEF SocketOK, SockSteps
    <3>2. PICK n \in 0 .. MaxNumbers : n = sockPath.num
      BY <3>1 DEF SocketTypeOK, Entries
    <3>3. sock' = [sock EXCEPT ![d].step = "statted", ![d].first = n]
      BY <1>3, <3>2
    <3>4. /\ sock' \in [Daemons -> Socks] /\ OtherSocksKeep(d)
          /\ sock'[d].step = "statted" /\ sock'[d].open = sock[d].open /\ sock'[d].first = n
      BY <3>1, <3>3, SockNotesFirst
    <3> QED BY <1>1, <3>2, <3>4
  <2> QED BY <1>1, <2>1, LookKeeps
<1> QED BY <1>1, <1>2, <1>3 DEF StatSocket, Bindable

\* A probe never calls a listener's file stale, so it ends no plain listener.
LEMMA StaleIsNobodys ==
    ASSUME SocketOK, probe_socket = "stale"
    PROVE  \A e \in Daemons : ~Plain(e)
<1> SUFFICES ASSUME NEW e \in Daemons, Plain(e)
             PROVE  FALSE
  OBVIOUS
<1>1. sockPath.kind = e /\ sock[e].open
  BY AboutSocket DEF AtThePath, Plain
<1>2. e \notin {"stale", "denied"} /\ (sockPath.num = 0 => sockPath.kind = "stale")
  BY DaemonBounds DEF SocketOK, SocketInv, PreflightLasts
<1> QED BY <1>1, <1>2 DEF probe_socket

LEMMA ProbeKeeps ==
    ASSUME SocketOK, UNCHANGED main, NEW d \in Daemons, Binding(d), ProbeSocket(d)
    PROVE  SocketOK' /\ (sock'[d].step = "refused" => main[d].raced)
<1>1. /\ sock[d].step = "statted" /\ UNCHANGED sockPath /\ ~sock[d].open /\ Bindable
      /\ main[d].raced \/ Unraced(d)
  BY NoListenerYet DEF ProbeSocket
<1>2. CASE probe_socket = "absent" /\ SockStep(d, "clear")
  <2>1. /\ sock' \in [Daemons -> Socks] /\ OtherSocksKeep(d)
        /\ sock'[d].step = "clear" /\ ~sock'[d].open
    BY <1>1, <1>2, SockStepTo DEF SocketOK, SockSteps
  <2>2. sockPath.num = 0
    BY <1>2 DEF probe_socket
  <2> QED BY <1>1, <2>1, <2>2, LookKeeps
<1>3. CASE probe_socket = "stale" /\ SockStep(d, "stale")
  <2>1. /\ sock' \in [Daemons -> Socks] /\ OtherSocksKeep(d)
        /\ sock'[d].step = "stale" /\ ~sock'[d].open /\ sock'[d].first = sock[d].first
    BY <1>1, <1>3, SockStepTo DEF SocketOK, SockSteps
  <2>2. \A e \in Daemons \ {d} : ~Plain(e)
    BY <1>3, StaleIsNobodys
  <2>3. main[d].raced \/ sockPath.num \in {0, sock'[d].first}
    BY <1>1, <2>1 DEF Unraced
  <2> QED BY <1>1, <2>1, <2>2, <2>3, LookKeeps
<1>4. CASE probe_socket \in {"live", "unknown"} /\ Refuse(d)
  <2>1. main[d].raced
    <3>1. sockPath.kind # "denied"
      BY <1>1 DEF Bindable
    <3>2. PICK e \in Daemons : sockPath.kind = e /\ sock[e].open
      BY <1>4, <3>1 DEF probe_socket
    <3> QED BY <1>1, <3>2 DEF Unraced
  <2> QED BY <1>1, <1>4, <2>1, RefuseKeeps
<1> QED BY <1>2, <1>3, <1>4 DEF ProbeSocket

LEMMA RecheckKeeps ==
    ASSUME SocketOK, UNCHANGED main, NEW d \in Daemons, Binding(d), RecheckSocket(d)
    PROVE  SocketOK' /\ (sock'[d].step = "refused" => main[d].raced)
<1>1. /\ sock[d].step = "stale" /\ UNCHANGED sockPath /\ ~sock[d].open
      /\ main[d].raced \/ Unraced(d)
  BY NoListenerYet DEF RecheckSocket
<1>2. CASE sockPath.num = 0 /\ SockStep(d, "clear")
  <2>1. /\ sock' \in [Daemons -> Socks] /\ OtherSocksKeep(d)
        /\ sock'[d].step = "clear" /\ ~sock'[d].open
    BY <1>1, <1>2, SockStepTo DEF SocketOK, SockSteps
  <2> QED BY <1>1, <1>2, <2>1, LookKeeps
<1>3. CASE sockPath.num = sock[d].first /\ SockStep(d, "checked")
  <2>1. /\ sock' \in [Daemons -> Socks] /\ OtherSocksKeep(d)
        /\ sock'[d].step = "checked" /\ ~sock'[d].open /\ sock'[d].first = sock[d].first
    BY <1>1, <1>3, SockStepTo DEF SocketOK, SockSteps
  <2>2. \A e \in Daemons \ {d} : ~Plain(e)
    BY <1>1, AboutSocket DEF AtThePath, Harmless, Trusting
  <2> QED BY <1>1, <1>3, <2>1, <2>2, LookKeeps
<1>4. CASE sockPath.num \notin {0, sock[d].first} /\ Refuse(d)
  <2>1. main[d].raced
    BY <1>1, <1>4 DEF Unraced
  <2> QED BY <1>1, <1>4, <2>1, RefuseKeeps
<1> QED BY <1>2, <1>3, <1>4 DEF RecheckSocket

\* Unlinking by name: in a trusting window nobody else has a plain listener.
LEMMA UnlinkKeeps ==
    ASSUME SocketOK, UNCHANGED <<main, samePort, port, starts>>, NEW d \in Daemons,
           sock[d].step \in Trusting, sockPath' = Nothing,
           sock' \in [Daemons -> Socks], OtherSocksKeep(d), ~sock'[d].open, InOrder(d)'
    PROVE  SocketOK'
<1>1. MainInOrder'
  BY AboutSocket DEF MainInOrder, InOrder, OtherSocksKeep
<1>2. ASSUME NEW e \in Daemons
      PROVE  ~Plain(e)'
  <2>1. CASE e = d
    BY <2>1 DEF Plain
  <2>2. CASE e # d
    BY <2>2, AboutSocket DEF Plain, AtThePath, Harmless, OtherSocksKeep
  <2> QED BY <2>1, <2>2
<1> QED BY <1>1, <1>2, PathCleared

LEMMA UnlinkStaleKeeps ==
    ASSUME SocketOK, UNCHANGED main, NEW d \in Daemons, Binding(d), UnlinkStale(d)
    PROVE  SocketOK' /\ sock'[d].step # "refused"
<1>1. sock[d].step = "checked" /\ sockPath' = Nothing /\ ~sock[d].open
  BY NoListenerYet DEF UnlinkStale
<1>2. /\ sock' \in [Daemons -> Socks] /\ OtherSocksKeep(d)
      /\ sock'[d].step = "clear" /\ ~sock'[d].open
  BY <1>1, SockStepTo DEF UnlinkStale, SocketOK, SockSteps
<1>3. InOrder(d)'
  BY <1>2, AboutSocket DEF InOrder, Binding, At
<1> QED BY <1>1, <1>2, <1>3, UnlinkKeeps DEF Binding, Trusting

LEMMA RacedBySteps ==
    ASSUME SocketTypeOK, NEW d \in Daemons, main' = RacedBy(d)
    PROVE  /\ main' \in [Daemons -> Mains] /\ main'[d] = main[d]
           /\ \A e \in Daemons : /\ main'[e].pc = main[e].pc /\ main'[e].phase = main[e].phase
                                 /\ main'[e].level = main[e].level
           /\ \A e \in Daemons \ {d} : main'[e].pc \in Racing => main'[e].raced
<1>1. ASSUME NEW e \in Daemons
      PROVE  /\ main'[e] \in Mains
             /\ main'[e].pc = main[e].pc /\ main'[e].phase = main[e].phase
             /\ main'[e].level = main[e].level
             /\ e # d /\ main[e].pc \in Racing => main'[e].raced
  BY DEF SocketTypeOK, RacedBy, Mains
<1>2. main' \in [Daemons -> Mains] /\ main'[d] = main[d]
  BY <1>1 DEF RacedBy
<1> QED BY <1>1, <1>2

\* A socket is created where nothing was: with a number nobody has pinned, and
\* everybody between preflight and bind has been raced.
LEMMA CreateKeeps ==
    ASSUME SocketOK, NEW d \in Daemons, Binding(d), sock[d].step = "clear",
           sockPath.num = 0, NEW i \in Numbers \ Pinned,
           sockPath' = [num |-> i, kind |-> d],
           sock' = [sock EXCEPT ![d].step = "created", ![d].open = TRUE,
                      ![d].excused = \E e \in Daemons \ {d} : sock[e].step \in Trusting],
           main' = RacedBy(d)
    PROVE  SocketOK'
<1>1. /\ main' \in [Daemons -> Mains] /\ main'[d] = main[d]
      /\ \A e \in Daemons : /\ main'[e].pc = main[e].pc /\ main'[e].phase = main[e].phase
                            /\ main'[e].level = main[e].level
      /\ \A e \in Daemons \ {d} : main'[e].pc \in Racing => main'[e].raced
  BY RacedBySteps DEF SocketOK
<1>2. /\ i \in 0 .. MaxNumbers /\ i # 0
      /\ \A e \in Daemons : sock[e].open => sock[e].num # i
  BY DaemonBounds DEF Numbers, Pinned
<1>3. sockPath' \in Entries /\ sockPath'.num = i /\ sockPath'.kind = d
  BY <1>2 DEF Entries
<1> DEFINE x == \E e \in Daemons \ {d} : sock[e].step \in Trusting
<1>4. x \in BOOLEAN /\ sock' = [sock EXCEPT ![d].step = "created", ![d].open = TRUE,
                                           ![d].excused = x]
  OBVIOUS
<1>5. ~x => \A e \in Daemons \ {d} : sock[e].step \notin Trusting
  OBVIOUS
<1> HIDE DEF x
<1>6. /\ sock' \in [Daemons -> Socks] /\ OtherSocksKeep(d)
      /\ sock'[d].step = "created" /\ sock'[d].open /\ sock'[d].excused = x
  <2> DEFINE c == [sock[d] EXCEPT !.step = "created", !.open = TRUE, !.excused = x]
  <2>1. /\ sock \in [Daemons -> Socks] /\ sock' = [sock EXCEPT ![d] = c]
        /\ "created" \in SockSteps
    BY <1>4 DEF SocketOK, SocketTypeOK, SockSteps
  <2>2. c \in Socks
    <3>1. CASE x = TRUE
      BY <2>1, <3>1 DEF Socks
    <3>2. CASE x = FALSE
      BY <2>1, <3>2 DEF Socks
    <3> QED BY <1>4, <3>1, <3>2
  <2>3. c.step = "created" /\ c.open = TRUE /\ c.excused = x
    BY <2>1 DEF Socks
  <2> HIDE DEF c
  <2>4. sock' \in [Daemons -> Socks] /\ OtherSocksKeep(d) /\ sock'[d] = c
    BY <2>1, <2>2, SockBecomes DEF SocketOK
  <2> QED BY <2>3, <2>4
<1>7. SocketTypeOK'
  BY <1>1, <1>3, <1>6 DEF SocketOK, SocketTypeOK, Binding
<1>8. MainInOrder'
  <2>1. InOrder(d)'
    BY <1>1, <1>6, AboutSocket DEF InOrder, Binding, At
  <2>2. ASSUME NEW e \in Daemons \ {d}
        PROVE  InOrder(e)'
    BY <1>1, <1>6, AboutSocket DEF InOrder, OtherSocksKeep
  <2> QED BY <2>1, <2>2 DEF MainInOrder
<1>9. FileIsTheListeners'
  <2>1. Plain(d)' => AtThePath(d)'
    <3> SUFFICES ASSUME Plain(d)'
                 PROVE  AtThePath(d)'
      OBVIOUS
    <3>1. ~x
      BY <1>6 DEF Plain
    <3>2. ASSUME NEW e \in Daemons \ {d}
          PROVE  Harmless(e)'
      BY <1>2, <1>3, <1>5, <1>6, <3>1 DEF Harmless, OtherSocksKeep
    <3> QED BY <1>3, <1>6, <3>2 DEF AtThePath
  <2>2. ASSUME NEW e \in Daemons \ {d}
        PROVE  ~Plain(e)'
    <3>1. sockPath.kind = "stale" /\ e # "stale"
      BY DaemonBounds DEF SocketOK, SocketInv, PreflightLasts
    <3> QED BY <1>6, <3>1, AboutSocket DEF Plain, AtThePath, OtherSocksKeep
  <2> QED BY <2>1, <2>2 DEF FileIsTheListeners
<1>10. ASSUME NEW e \in Daemons
       PROVE  Lasting(e)'
  <2>1. Bindable'
    BY <1>3, DaemonBounds DEF Bindable
  <2>2. CASE e = d
    BY <1>3, <1>6, <2>1, <2>2 DEF Lasting, Unraced
  <2>3. CASE e # d
    BY <1>1, <2>1, <2>3 DEF Lasting
  <2> QED BY <2>2, <2>3
<1> QED BY <1>2, <1>3, <1>7, <1>8, <1>9, <1>10 DEF SocketOK, SocketInv, PreflightLasts

\* A step of a bind that has its listener.
LEMMA SnapKeeps ==
    ASSUME SocketOK, UNCHANGED main, NEW d \in Daemons, Binding(d), SnapSocket(d)
    PROVE  SocketOK' /\ (sock'[d].step = "refused" => sock[d].excused)
<1>1. /\ sock[d].step = "created" /\ UNCHANGED sockPath /\ sock[d].open
      /\ Plain(d) => AtThePath(d)
      /\ sockPath.num = 0 => sockPath.kind = "stale"
  BY AboutSocket DEF SnapSocket, InOrder, SocketOK, SocketInv, PreflightLasts
<1>2. CASE sock' = [sock EXCEPT ![d].step = "snapped", ![d].num = sockPath.num]
  <2>1. /\ sock' \in [Daemons -> Socks] /\ OtherSocksKeep(d)
        /\ sock'[d].step = "snapped" /\ sock'[d].num = sockPath.num
        /\ sock'[d].open = sock[d].open /\ sock'[d].excused = sock[d].excused
    <3>1. "snapped" \in SockSteps /\ SocketTypeOK
      BY DEF SocketOK, SockSteps
    <3>2. PICK n \in 0 .. MaxNumbers : n = sockPath.num
      BY <3>1 DEF SocketTypeOK, Entries
    <3>3. sock' = [sock EXCEPT ![d].step = "snapped", ![d].num = n]
      BY <1>2, <3>2
    <3>4. /\ sock' \in [Daemons -> Socks] /\ OtherSocksKeep(d)
          /\ sock'[d].step = "snapped" /\ sock'[d].num = n
          /\ sock'[d].open = sock[d].open /\ sock'[d].excused = sock[d].excused
      BY <3>1, <3>3, SockNotesNum
    <3> QED BY <3>2, <3>4
  <2>2. InOrder(d)'
    BY <1>1, <2>1, AboutSocket DEF InOrder, Binding, At
  <2>3. Plain(d)' => AtThePath(d)'
    BY <1>1, <2>1 DEF Plain, AtThePath, Harmless, OtherSocksKeep
  <2>4. Lasting(d)'
    BY <1>1, <2>1, AboutSocket DEF Lasting, Bindable, Unraced, OtherSocksKeep
  <2>5. \A e \in Daemons \ {d} : ~Plain(e)
    BY <1>1, AboutSocket DEF AtThePath, Harmless, Trusting
  <2>6. SocketOK'
    BY <1>1, <2>1, <2>2, <2>3, <2>4, <2>5, SockMoves DEF Binding
  <2> QED BY <2>1, <2>6
<1>3. CASE (sockPath.num = 0 \/ sockPath.kind = "file") /\ Refuse(d)
  <2>1. sock[d].excused
    BY <1>1, <1>3, DaemonBounds DEF Plain, AtThePath
  <2> QED BY <1>1, <1>3, <2>1, RefuseKeeps
<1> QED BY <1>2, <1>3 DEF SnapSocket

LEMMA PinKeeps ==
    ASSUME SocketOK, UNCHANGED main, NEW d \in Daemons, Binding(d), PinSocket(d)
    PROVE  SocketOK' /\ (sock'[d].step = "refused" => sock[d].excused)
<1>1. /\ sock[d].step = "snapped" /\ UNCHANGED sockPath /\ sock[d].open
      /\ Plain(d) => AtThePath(d)
  BY AboutSocket DEF PinSocket, InOrder
<1>2. CASE sockPath.num = sock[d].num /\ SockStep(d, "bound")
  <2>1. /\ sock' \in [Daemons -> Socks] /\ OtherSocksKeep(d)
        /\ sock'[d].step = "bound" /\ sock'[d].num = sock[d].num
        /\ sock'[d].open = sock[d].open /\ sock'[d].excused = sock[d].excused
    BY <1>2, SockStepTo DEF SocketOK, SockSteps
  <2>2. InOrder(d)'
    BY <1>1, <2>1, AboutSocket DEF InOrder, Binding, At
  <2>3. Plain(d)' => AtThePath(d)'
    BY <1>1, <2>1 DEF Plain, AtThePath, Harmless, OtherSocksKeep
  <2>4. Lasting(d)'
    BY <1>1, <2>1, AboutSocket DEF Lasting, Bindable, Unraced, OtherSocksKeep
  <2>5. ASSUME NEW e \in Daemons \ {d}, Plain(e)
        PROVE  Harmless(d)'
    BY <1>1, <2>1, <2>5, AboutSocket DEF AtThePath, Harmless, Trusting
  <2>6. SocketOK'
    BY <1>1, <2>1, <2>2, <2>3, <2>4, <2>5, SockMoves DEF Binding
  <2> QED BY <2>1, <2>6
<1>3. CASE sockPath.num # sock[d].num /\ Refuse(d)
  <2>1. sock[d].excused
    BY <1>1, <1>3 DEF Plain, AtThePath
  <2> QED BY <1>1, <1>3, <2>1, RefuseKeeps
<1> QED BY <1>2, <1>3 DEF PinSocket

\* A bind keeps the invariant, and is refused only after a race or a removal.
LEMMA BindKeeps ==
    ASSUME SocketOK, NEW d \in Daemons, Binding(d), BindStep(d),
           main' = IF sock'[d].step = "created" THEN RacedBy(d) ELSE main
    PROVE  SocketOK' /\ (sock'[d].step = "refused" => main[d].raced \/ sock[d].excused)
<1>1. CASE BindSocket(d)
  <2>1. CASE /\ sockPath.num = 0
             /\ \E i \in Numbers \ Pinned :
                  /\ sockPath' = [num |-> i, kind |-> d]
                  /\ sock' = [sock EXCEPT ![d].step = "created", ![d].open = TRUE,
                       ![d].excused = \E e \in Daemons \ {d} : sock[e].step \in Trusting]
    <3>1. sock'[d].step = "created"
      BY <2>1 DEF SocketOK, SocketTypeOK, Socks
    <3> QED BY <1>1, <2>1, <3>1, CreateKeeps DEF BindSocket
  <2>2. CASE sockPath.num # 0 /\ Refuse(d) /\ UNCHANGED sockPath
    <3>1. sock'[d].step = "refused"
      BY <2>2 DEF Refuse, SocketOK, SocketTypeOK, Socks
    <3>2. main[d].raced
      BY <1>1, <2>2, NoListenerYet DEF BindSocket, Unraced
    <3> QED BY <2>2, <3>1, <3>2, RefuseKeeps
  <2> QED BY <1>1, <2>1, <2>2 DEF BindSocket
<1>2. CASE ~BindSocket(d)
  <2>1. sock'[d].step # "created"
    BY <1>2 DEF BindStep, StatSocket, ProbeSocket, RecheckSocket, UnlinkStale, SnapSocket,
                PinSocket, SockStep, Refuse, SocketOK, SocketTypeOK, Socks
  <2> QED BY <1>2, <2>1, StatKeeps, ProbeKeeps, RecheckKeeps, UnlinkStaleKeeps, SnapKeeps,
             PinKeeps DEF BindStep
<1> QED BY <1>1, <1>2

\* The lame duck unlinks its own file only: another's has another number.
LEMMA LameDuckKeeps ==
    ASSUME SocketOK, UNCHANGED <<main, samePort, port, starts>>, NEW d \in Daemons,
           At(d, "lame"), StatOwn(d) \/ UnlinkOwn(d)
    PROVE  SocketOK' /\ sock'[d].step # "refused"
<1>1. main[d].pc = "lame" /\ (Plain(d) => AtThePath(d))
  BY AboutSocket DEF At
<1>2. CASE sock[d].step = "bound" /\ names_our_socket(d) /\ SockStep(d, "leaving")
           /\ UNCHANGED sockPath
  <2>1. /\ sock' \in [Daemons -> Socks] /\ OtherSocksKeep(d)
        /\ sock'[d].step = "leaving" /\ sock'[d].num = sock[d].num
        /\ sock'[d].open = sock[d].open /\ sock'[d].excused = sock[d].excused
    BY <1>2, SockStepTo DEF SocketOK, SockSteps
  <2>2. InOrder(d)' /\ sock[d].open
    BY <1>1, <1>2, <2>1, AboutSocket DEF InOrder
  <2>3. Plain(d)' => AtThePath(d)'
    BY <1>1, <1>2, <2>1 DEF Plain, AtThePath, Harmless, OtherSocksKeep
  <2>4. Lasting(d)'
    BY <1>1, <1>2, <2>1, AboutSocket DEF Lasting, Bindable, Racing
  <2>5. \A e \in Daemons \ {d} : ~Plain(e)
    BY <1>2, <2>2, AboutSocket DEF AtThePath, Harmless, names_our_socket
  <2>6. SocketOK'
    BY <1>2, <2>1, <2>2, <2>3, <2>4, <2>5, SockMoves
  <2> QED BY <2>1, <2>6
<1>3. CASE UNCHANGED sockPath /\ sock' = [sock EXCEPT ![d].step = "closed", ![d].open = FALSE]
  <2>1. /\ sock' \in [Daemons -> Socks] /\ OtherSocksKeep(d)
        /\ sock'[d].step = "closed" /\ ~sock'[d].open
    BY <1>3, SockCloses DEF SocketOK, SockSteps
  <2>2. InOrder(d)' /\ ~Plain(d)' /\ Harmless(d)'
    BY <1>1, <2>1, AboutSocket DEF InOrder, Plain, Harmless, Trusting
  <2>3. Lasting(d)'
    BY <1>1, <1>3, AboutSocket DEF Lasting, Bindable, Racing
  <2>4. SocketOK'
    BY <1>3, <2>1, <2>2, <2>3, SockMoves
  <2> QED BY <2>1, <2>4
<1>4. CASE UnlinkOwn(d)
  <2>1. /\ sock' \in [Daemons -> Socks] /\ OtherSocksKeep(d)
        /\ sock'[d].step = "closed" /\ ~sock'[d].open
    BY <1>4, SockCloses DEF UnlinkOwn, SocketOK, SockSteps
  <2>2. InOrder(d)'
    BY <1>1, <2>1, AboutSocket DEF InOrder
  <2>3. sock[d].step \in Trusting /\ sockPath' = Nothing
    BY <1>4 DEF UnlinkOwn, Trusting
  <2>4. SocketOK'
    BY <2>1, <2>2, <2>3, UnlinkKeeps
  <2> QED BY <2>1, <2>4
<1> QED BY <1>2, <1>3, <1>4 DEF StatOwn

LEMMA DeleteSocketKeeps ==
    ASSUME SocketOK, UNCHANGED <<main, samePort, port, starts>>, DeleteSocket
    PROVE  SocketOK' /\ \A d \in Daemons : sock'[d].step = sock[d].step
<1>1. ASSUME NEW d \in Daemons
      PROVE  /\ sock'[d] \in Socks /\ sock'[d].step = sock[d].step
             /\ sock'[d].open = sock[d].open
             /\ sockPath.kind = d => sock'[d].excused
             /\ sockPath.kind # d => sock'[d] = sock[d]
  BY DEF DeleteSocket, SocketOK, SocketTypeOK, Socks
<1>2. sock' \in [Daemons -> Socks] /\ sockPath' = Nothing
  BY <1>1 DEF DeleteSocket
<1>3. MainInOrder'
  BY <1>1, AboutSocket DEF MainInOrder, InOrder
<1>4. \A e \in Daemons : ~Plain(e)'
  BY <1>1, AboutSocket DEF Plain, AtThePath
<1>5. SocketOK'
  BY <1>2, <1>3, <1>4, PathCleared
<1> QED BY <1>1, <1>5

-----------------------------------------------------------------------------
(* The steps of the machine *)

\* No daemon past its preflight is refused but by a race or a removal.
LateOnlyByRace ==
    \A d \in Daemons :
        At(d, "binding") /\ sock[d].step # "refused" /\ sock'[d].step = "refused"
            => main[d].raced \/ sock[d].excused

LEMMA GoneIsNoRefusal ==
    ASSUME SocketOK, NEW d \in Daemons, Gone(d)
    PROVE  LateOnlyByRace
<1>1. sock' = [sock EXCEPT ![d] = NoSocket] /\ NoSocket.step = "none"
  BY DEF Gone, SocketExit, NoSocket
<1>2. \A e \in Daemons : sock'[e].step \in {sock[e].step, "none"}
  BY <1>1 DEF SocketOK, SocketTypeOK
<1> QED BY <1>2 DEF LateOnlyByRace

LEMMA MainKeeps ==
    ASSUME SocketOK, NEW d \in Daemons, Main(d)
    PROVE  SocketOK' /\ LateOnlyByRace
<1>0. port \in Daemons \cup {NoOne}
  BY DEF SocketOK, SocketTypeOK
<1>1. ASSUME UNCHANGED sock
      PROVE  LateOnlyByRace
  BY <1>1 DEF LateOnlyByRace
<1>2. ASSUME UNCHANGED <<sockVars, daemonVars>>
      PROVE  SocketOK'
  BY <1>2 DEF sockVars, daemonVars, SocketOK, SocketTypeOK, SocketInv, MainInOrder, InOrder,
              FileIsTheListeners, Plain, AtThePath, Harmless, PreflightLasts, Lasting,
              Bindable, Unraced
<1>3. CASE Lock(d)
  BY <1>1, <1>2, <1>3 DEF Lock, sockVars
<1>4. CASE Preflight(d)
  BY <1>1, <1>4, GoneKeeps, GoneIsNoRefusal, PreflightPasses DEF Preflight, sockVars
<1>5. CASE OpenRuntime(d)
  <2>1. CASE Gone(d)
    BY <2>1, GoneKeeps, GoneIsNoRefusal
  <2>2. CASE ~Gone(d)
    <3>1. /\ main[d].pc = "preflighted" /\ Goto(d, "runtime", "initializing")
          /\ UNCHANGED <<sockPath, sock, samePort, starts>>
          /\ port' \in Daemons \cup {NoOne}
      BY <1>0, <1>5, <2>2 DEF OpenRuntime, At, sockVars
    <3> QED BY <1>1, <3>1, GotoKeeps DEF MainPcs, Phase, Racing
  <2> QED BY <2>1, <2>2
<1>6. CASE Recover(d)
  <2>1. /\ main[d].pc = "runtime" /\ Goto(d, "recovered", "recovering")
        /\ UNCHANGED <<sockPath, sock, samePort, port, starts>>
    BY <1>6 DEF Recover, At, sockVars
  <2> QED BY <1>0, <1>1, <2>1, GotoKeeps DEF MainPcs, Phase, Racing
<1>7. CASE HandOff(d)
  <2>1. /\ main[d].pc = "recovered" /\ Goto(d, "delivering", "handoff")
        /\ UNCHANGED <<sockPath, sock, samePort, port, starts>>
    BY <1>7 DEF HandOff, At, sockVars
  <2> QED BY <1>0, <1>1, <2>1, GotoKeeps DEF MainPcs, Phase, Racing
<1>8. CASE OpenBind(d)
  <2>1. /\ main[d].pc = "delivering"
        /\ UNCHANGED <<sockPath, sock, samePort, port, starts>>
    BY <1>8 DEF OpenBind, At, sockVars
  <2>2. CASE Goto(d, "binding", "binding")
    BY <1>0, <1>1, <2>1, <2>2, GotoKeeps DEF MainPcs, Phase, Racing
  <2>3. CASE main' = [main EXCEPT ![d].pc = "joins"]
    BY <1>1, <2>1, <2>3, PcKeeps DEF MainPcs
  <2> QED BY <1>8, <2>2, <2>3 DEF OpenBind
<1>9. CASE Bind(d)
  <2>1. CASE /\ BindStep(d) /\ Binding(d)
             /\ main' = IF sock'[d].step = "created" THEN RacedBy(d) ELSE main
    <3>1. OtherSocksKeep(d)
      BY <2>1 DEF BindStep, StatSocket, ProbeSocket, RecheckSocket, UnlinkStale, BindSocket,
                  SnapSocket, PinSocket, SockStep, Refuse, SocketOK, SocketTypeOK,
                  OtherSocksKeep
    <3>2. SocketOK' /\ (sock'[d].step = "refused" => main[d].raced \/ sock[d].excused)
      BY <2>1, BindKeeps
    <3> QED BY <3>1, <3>2 DEF LateOnlyByRace, OtherSocksKeep
  <2>2. CASE /\ main[d].pc = "binding" /\ sock[d].step = "bound"
             /\ main' = [main EXCEPT ![d].pc = IF main[d].level = "running"
                                               THEN "spawned" ELSE "lame"]
             /\ UNCHANGED <<sockPath, sock, samePort, port, starts>>
    <3>1. PICK p \in {"spawned", "lame"} : main' = [main EXCEPT ![d].pc = p]
      BY <2>2
    <3>2. p \in MainPcs
      BY <3>1 DEF MainPcs
    <3> QED BY <1>1, <2>2, <3>1, <3>2, PcKeeps
  <2> QED BY <1>9, <2>1, <2>2 DEF Bind, Binding, At, sockVars
<1>10. CASE EnterServing(d)
  <2>1. /\ main[d].pc = "spawned" /\ Goto(d, "serving", "serving")
        /\ UNCHANGED <<sockPath, sock, samePort, port, starts>>
    BY <1>10 DEF EnterServing, At, sockVars
  <2> QED BY <1>0, <1>1, <2>1, GotoKeeps DEF MainPcs, Phase
<1>11. CASE Refused(d) \/ Exit(d)
  BY <1>11, GoneKeeps, GoneIsNoRefusal DEF Refused, Exit
<1>12. CASE LameDuck(d)
  <2>1. CASE /\ main[d].pc = "serving" /\ main[d].level # "running"
             /\ main' = [main EXCEPT ![d].pc = "lame"]
             /\ UNCHANGED <<sockPath, sock, samePort, port, starts>>
    BY <1>1, <2>1, PcKeeps DEF MainPcs
  <2>2. CASE /\ At(d, "lame") /\ (StatOwn(d) \/ UnlinkOwn(d))
             /\ UNCHANGED <<main, samePort, port, starts>>
    <3>1. OtherSocksKeep(d)
      BY <2>2 DEF StatOwn, UnlinkOwn, SockStep, SocketOK, SocketTypeOK, OtherSocksKeep
    <3>2. SocketOK' /\ sock'[d].step # "refused"
      BY <2>2, LameDuckKeeps
    <3> QED BY <3>1, <3>2 DEF LateOnlyByRace, OtherSocksKeep
  <2> QED BY <1>12, <2>1, <2>2 DEF LameDuck, At, sockVars, daemonVars
<1>13. CASE CloseIngest(d)
  <2>1. /\ main[d].pc = "lame" /\ main' = [main EXCEPT ![d].pc = "joins"]
        /\ UNCHANGED <<sockPath, sock, samePort, port, starts>>
    BY <1>13 DEF CloseIngest, At, sockVars
  <2> QED BY <1>1, <2>1, PcKeeps DEF MainPcs
<1>14. CASE StopDrain(d)
  <2>1. /\ main[d].pc = "joins" /\ main' = [main EXCEPT ![d].pc = "stopping"]
        /\ UNCHANGED <<sockPath, sock, samePort, port, starts>>
    BY <1>14 DEF StopDrain, At, sockVars
  <2> QED BY <1>1, <2>1, PcKeeps DEF MainPcs
<1> QED BY <1>3, <1>4, <1>5, <1>6, <1>7, <1>8, <1>9, <1>10, <1>11, <1>12, <1>13, <1>14
        DEF Main

\* The socket's invariant is inductive, and no step refuses a daemon late
\* without a race.
LEMMA SocketKept == SocketOK /\ [DaemonNext]_machineVars => SocketOK' /\ LateOnlyByRace
<1> SUFFICES ASSUME SocketOK, [DaemonNext]_machineVars
             PROVE  SocketOK' /\ LateOnlyByRace
  OBVIOUS
<1>1. ASSUME UNCHANGED <<sockVars, daemonVars>>
      PROVE  SocketOK' /\ LateOnlyByRace
  BY <1>1 DEF sockVars, daemonVars, SocketOK, SocketTypeOK, SocketInv, MainInOrder, InOrder,
              FileIsTheListeners, Plain, AtThePath, Harmless, PreflightLasts, Lasting,
              Bindable, Unraced, LateOnlyByRace
<1>2. CASE UNCHANGED machineVars
  BY <1>1, <1>2 DEF machineVars
<1>3. ASSUME NEW d \in Daemons, Start(d)
      PROVE  SocketOK' /\ LateOnlyByRace
  BY <1>3, StartKeeps DEF Start, sockVars, LateOnlyByRace
<1>4. ASSUME NEW d \in Daemons, Integrity(d)
      PROVE  SocketOK' /\ LateOnlyByRace
  BY <1>1, <1>4 DEF Integrity
<1>5. ASSUME NEW d \in Daemons, OwnershipLost(d) \/ Crash(d)
      PROVE  SocketOK' /\ LateOnlyByRace
  BY <1>5, GoneKeeps, GoneIsNoRefusal DEF OwnershipLost, Crash
<1>6. ASSUME NEW d \in Daemons, BeginShutdown(d) \/ Broadcast(d)
      PROVE  SocketOK' /\ LateOnlyByRace
  BY <1>6, SignalKeeps DEF BeginShutdown, Broadcast, sockVars, LateOnlyByRace
<1>7. CASE Interference
  <2>1. CASE UNCHANGED <<sockVars, daemonVars>>
    BY <1>1, <2>1
  <2>2. CASE DeleteSocket /\ UNCHANGED daemonVars
    BY <2>2, DeleteSocketKeeps DEF daemonVars, LateOnlyByRace
  <2> QED BY <1>7, <2>1, <2>2 DEF Interference
<1> QED BY <1>2, <1>3, <1>4, <1>5, <1>6, <1>7, MainKeeps DEF DaemonNext

LEMMA SocketStart == DaemonInit => SocketOK
<1> SUFFICES ASSUME DaemonInit
             PROVE  SocketOK
  OBVIOUS
<1>1. /\ main \in [Daemons -> Mains]
      /\ \A d \in Daemons : /\ main[d].pc = "down" /\ main[d].level = "running"
                            /\ main[d].phase = "initializing"
  BY DEF DaemonInit, Down, Mains, MainPcs, Phase
<1>2. /\ sock \in [Daemons -> Socks]
      /\ \A d \in Daemons : sock[d].step = "none" /\ ~sock[d].open
  BY DaemonBounds DEF DaemonInit, SocketInit, NoSocket, Socks, SockSteps
<1>3. sockPath \in Entries /\ (sockPath.num = 0 => sockPath.kind = "stale")
  BY DaemonBounds DEF DaemonInit, SocketInit, Nothing, Entries
<1>4. SocketTypeOK
  BY <1>1, <1>2, <1>3 DEF DaemonInit, SocketTypeOK
<1>5. MainInOrder
  BY <1>1, <1>2 DEF MainInOrder, InOrder
<1>6. FileIsTheListeners
  BY <1>2 DEF FileIsTheListeners, Plain
<1>7. PreflightLasts
  BY <1>1, <1>3 DEF PreflightLasts, Lasting, Racing
<1> QED BY <1>4, <1>5, <1>6, <1>7 DEF SocketOK, SocketInv

\* A daemon that reports serving has its listener open at the path.
LEMMA ServingListens == SocketOK => ServingIsReachable
<1> SUFFICES ASSUME SocketOK, NEW d \in Daemons, main[d].phase = "serving"
             PROVE  sock[d].open /\ (sockPath.kind = d \/ sock[d].excused)
  BY DEF ServingIsReachable
<1>1. sock[d].open
  BY AboutSocket DEF InOrder
<1> QED BY <1>1, AboutSocket DEF Plain, AtThePath

-----------------------------------------------------------------------------
(* The theorems *)

\* DaemonInv is the lock's invariant and the socket's.
LEMMA InvIsBoth == DaemonInv <=> LockOK /\ SocketOK
BY DEF DaemonInv, DaemonTypeOK, LockOK, SocketOK

\* The inductive invariant of the daemons holds in every reachable state.
THEOREM DaemonInvariant == DaemonSpec => []DaemonInv
<1>1. DaemonInit => DaemonInv
  BY LockStart, SocketStart, InvIsBoth
<1>2. DaemonInv /\ [DaemonNext]_machineVars => DaemonInv'
  <2>1. DaemonInv' <=> LockOK' /\ SocketOK'
    BY DEF DaemonInv, DaemonTypeOK, LockOK, SocketOK
  <2> QED BY <2>1, LockKept, SocketKept, InvIsBoth
<1> QED BY <1>1, <1>2, PTL DEF DaemonSpec

\* Type correctness of the lock file, the socket file and main's record, through
\* every crash, restart and tampering.
THEOREM DaemonTypeCorrect == DaemonSpec => []DaemonTypeOK
<1>1. DaemonInv => DaemonTypeOK
  BY DEF DaemonInv
<1> QED BY <1>1, DaemonInvariant, PTL

\* wab/lock.rs, socket/mod.rs: for any number of daemons and starts, one wab_dir has
\* one owner while nobody meddles with its lock file, and a daemon that reports
\* serving accepts at its path.
THEOREM OneDaemonEach == DaemonSpec => []OneDaemon
<1>1. DaemonInv => OneDaemon
  BY InvIsBoth, OneOwner, ServingListens DEF OneDaemon
<1> QED BY <1>1, DaemonInvariant, PTL

\* wab/lock.rs check_lock_slot, preflight.rs: no check calls the directory ours with an
\* intruder's record in view, and no daemon past its preflight is refused its socket
\* path but by one that raced it there, or by a removal of the file it made.
THEOREM StartsNeverTrespass == DaemonSpec => StartsAreSafe
<1> DEFINE Alone == \A d \in Daemons : Certifies(d) => intruded[d] # "checking"
           Late == \A d \in Daemons :
                     At(d, "binding") /\ sock[d].step # "refused" /\ sock'[d].step = "refused"
                        => main[d].raced \/ sock[d].excused
<1>1. DaemonInv /\ [DaemonNext]_machineVars => [Alone]_machineVars
  BY InvIsBoth, EvidenceIsSeen
<1>2. DaemonInv /\ [DaemonNext]_machineVars => [Late]_machineVars
  BY InvIsBoth, SocketKept DEF LateOnlyByRace
<1>3. DaemonSpec => [][Alone]_machineVars
  BY <1>1, DaemonInvariant, PTL DEF DaemonSpec
<1>4. DaemonSpec => [][Late]_machineVars
  BY <1>2, DaemonInvariant, PTL DEF DaemonSpec
<1> QED BY <1>3, <1>4 DEF StartsAreSafe, CertifiesAlone, LateRefusalIsARace
=============================================================================
