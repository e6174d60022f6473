------------------------------ MODULE WabLock ------------------------------
(***************************************************************************)
(* Exclusive ownership of a wab_dir (weir-server/src/wab/lock.rs): an      *)
(* flock on <wab_dir>/.weir.lock taken once at startup and kept until the  *)
(* process is gone, and the once-a-second integrity thread of main.rs that *)
(* notices the file being deleted or replaced under the lock.              *)
(*                                                                         *)
(* A lock file is an inode number; lockPath is the inode the path names    *)
(* (0: nothing there).  Every syscall that another process can get in      *)
(* between is a step of its own: open, vet, flock, write at acquisition;   *)
(* lstat, re-flock, open, flock and read, vet and write at a check.        *)
(* Inodes are never reused: a held descriptor keeps its inode allocated.   *)
(***************************************************************************)
EXTENDS Naturals, FiniteSets

CONSTANTS
    Daemons,      \* processes started on the same wab_dir
    MaxInodes,    \* bound: lock files that ever exist
    MaxTampers    \* bound: deletions, replacements, lost leases, failed writes

ASSUME LockBounds == /\ IsFiniteSet(Daemons)
                     /\ {"no_one", "earlier"} \cap Daemons = {}
                     /\ MaxInodes \in Nat \ {0}
                     /\ MaxTampers \in Nat

VARIABLES
    lockPath,     \* inode at .weir.lock, 0 when the path is missing
    lockFile,     \* inode -> [rec: whose holder record, vet: what fstat shows]
    flocked,      \* inode -> the daemon whose description holds the flock
    lock,         \* daemon -> [pc, fd, seen, alias]
    fs,           \* [locks, policy]: can the filesystem lock, wab_dir_lock
    tampers,      \* faults so far
    intruded      \* ghost: daemon -> has another recorded itself during its ownership

lockVars == <<lockPath, lockFile, flocked, lock, fs, tampers, intruded>>

Inodes == 1 .. MaxInodes
NoOne == "no_one"

\* HolderInfo identifies one start (pid and started_unix): a record is its
\* writer's own while that process lives, and an earlier holder's afterwards.
Earlier == "earlier"

\* LockError::Unsafe: one link and our uid, or the file is never written.
Vets == {"ok", "hard_linked", "foreign_owner"}

\* Where the lock's one thread of control stands: main at acquisition, then
\* the integrity thread, which main spawns only for LockOutcome::Held.
\*   "down"                                  no process
\*   "opened", "vetted", "flocked"           inside try_lock_path
\*   "held", "unguarded"                     LockOutcome
\*   "statted", "reflocked", "found", "proven"   inside check_lock_slot
\*   "refused", "lost"                       exit 1, exit 3

\* A daemon that acquired the directory and has not proved it lost it.
Owning == {"held", "unguarded", "statted", "reflocked", "found", "proven"}
Owner(d) == lock[d].pc \in Owning

LockDown == [pc |-> "down", fd |-> 0, seen |-> 0, alias |-> FALSE]

LockInit ==
    /\ lockPath \in {0, 1}
    /\ lockFile = [i \in Inodes |-> [rec |-> IF i = lockPath THEN Earlier ELSE NoOne,
                                     vet |-> "ok"]]
    /\ flocked = [i \in Inodes |-> NoOne]
    /\ lock = [d \in Daemons |-> LockDown]
    /\ fs \in [locks : BOOLEAN, policy : {"required", "best_effort"}]
    /\ tampers = 0
    /\ intruded = [d \in Daemons |-> "no"]

\* An inode number nothing names or holds.
Unused == {i \in Inodes : /\ i # lockPath
                          /\ \A d \in Daemons : lock[d].fd # i /\ lock[d].seen # i
                          /\ flocked[i] = NoOne}
Fresh == CHOOSE i \in Unused : TRUE
NewFile(rec, vet) == [lockFile EXCEPT ![Fresh] = [rec |-> rec, vet |-> vet]]

Step(d, pc) == lock' = [lock EXCEPT ![d].pc = pc]

\* Once d's record is in the file at the path, every other owner that holds
\* another file has an intruder, and the next check it begins can see it.
Intrudes(d) ==
    [e \in Daemons |->
        IF /\ e # d /\ Owner(e) /\ intruded[e] = "no"
           /\ lockPath = lock[d].fd /\ lock[e].fd # lock[d].fd
        THEN "since" ELSE intruded[e]]

-----------------------------------------------------------------------------
(* Acquisition: acquire_wab_dir_lock / try_lock_path. *)

\* open_lock_path(OpenOrCreate): the file of the previous run, or a new one.
OpenLock(d) ==
    /\ lock[d].pc = "down"
    /\ \/ /\ lockPath # 0
          /\ lock' = [lock EXCEPT ![d] = [LockDown EXCEPT !.pc = "opened",
                                                          !.fd = lockPath]]
          /\ UNCHANGED <<lockPath, lockFile>>
       \/ /\ lockPath = 0
          /\ Unused # {}
          /\ lock' = [lock EXCEPT ![d] = [LockDown EXCEPT !.pc = "opened",
                                                          !.fd = Fresh]]
          /\ lockPath' = Fresh
          /\ lockFile' = NewFile(NoOne, "ok")
    /\ UNCHANGED <<flocked, fs, tampers, intruded>>

\* vet_lock_file, before the flock: a refused contender never locks the file.
VetLock(d) ==
    /\ lock[d].pc = "opened"
    /\ Step(d, IF lockFile[lock[d].fd].vet = "ok" THEN "vetted" ELSE "refused")
    /\ UNCHANGED <<lockPath, lockFile, flocked, fs, tampers, intruded>>

\* Mutant: contention passes for a filesystem that cannot lock.
TakeLockAnyErrno(d) ==
    /\ lock[d].pc = "vetted"
    /\ LET i == lock[d].fd
           free == fs.locks /\ flocked[i] \in {NoOne, d}
       IN  \/ /\ ~free
              /\ Step(d, IF fs.policy = "best_effort" THEN "unguarded" ELSE "refused")
              /\ UNCHANGED flocked
           \/ /\ free
              /\ Step(d, "flocked")
              /\ flocked' = [flocked EXCEPT ![i] = d]
    /\ UNCHANGED <<lockPath, lockFile, fs, tampers, intruded>>

\* take_lock and classify_flock_errno: contention is refused under both
\* policies; a filesystem that cannot lock is refused only when Required.
TakeLock(d) ==
    /\ lock[d].pc = "vetted"
    /\ LET i == lock[d].fd IN
       \/ /\ ~fs.locks
          /\ Step(d, IF fs.policy = "best_effort" THEN "unguarded" ELSE "refused")
          /\ UNCHANGED flocked
       \/ /\ fs.locks
          /\ flocked[i] \notin {NoOne, d}
          /\ Step(d, "refused")
          /\ UNCHANGED flocked
       \/ /\ fs.locks
          /\ flocked[i] \in {NoOne, d}
          /\ Step(d, "flocked")
          /\ flocked' = [flocked EXCEPT ![i] = d]
    /\ UNCHANGED <<lockPath, lockFile, fs, tampers, intruded>>

\* A tampering starts the evidence afresh: what an intruder left may be gone.
Tampered == /\ tampers' = tampers + 1
            /\ intruded' = [d \in Daemons |-> "no"]

\* write_record, only once the lock is held.  A failed write does not give
\* the lock back: the file is left empty (set_len(0) came first), and with it
\* goes what was recorded there.
WriteRecord(d) ==
    /\ lock[d].pc = "flocked"
    /\ \/ /\ lockFile' = [lockFile EXCEPT ![lock[d].fd].rec = d]
          /\ intruded' = Intrudes(d)
          /\ UNCHANGED tampers
       \/ /\ tampers < MaxTampers
          /\ Tampered
          /\ lockFile' = [lockFile EXCEPT ![lock[d].fd].rec = NoOne]
    /\ Step(d, "held")
    /\ UNCHANGED <<lockPath, flocked, fs>>

Acquire(d) == OpenLock(d) \/ VetLock(d) \/ TakeLock(d) \/ WriteRecord(d)

-----------------------------------------------------------------------------
(* The integrity thread: check_wab_dir_lock / check_lock_slot. *)

\* lstat of the path.  It may report another id than fstat of the same file
\* (an overlayfs copy-up) until the check has learnt that id as an alias.
StatPath(d) ==
    /\ lock[d].pc = "held"
    /\ \/ lock' = [lock EXCEPT ![d].pc = "statted", ![d].seen = lockPath]
       \/ /\ ~lock[d].alias
          /\ lockPath = lock[d].fd
          /\ Unused # {}
          /\ lock' = [lock EXCEPT ![d].pc = "statted", ![d].seen = Fresh]
    /\ intruded' = [intruded EXCEPT ![d] = IF @ = "since" THEN "checking" ELSE @]
    /\ UNCHANGED <<lockPath, lockFile, flocked, fs, tampers>>

\* Re-flock the held description: a no-op while the lock is ours, contention
\* (LostToOther) once a lost lease let somebody else take it.  Then classify:
\* the path still shows the held file, or it is missing or another one.
Reflock(d) ==
    /\ lock[d].pc = "statted"
    /\ LET i == lock[d].fd
           ours == lock[d].seen = i
       IN  \/ /\ flocked[i] \notin {NoOne, d}
              /\ Step(d, "lost")
              /\ UNCHANGED flocked
           \/ /\ flocked[i] \in {NoOne, d}
              /\ flocked' = [flocked EXCEPT ![i] = d]
              /\ IF ours
                 THEN lock' = [lock EXCEPT ![d].pc = "held", ![d].seen = 0]
                 ELSE Step(d, "reflocked")
    /\ UNCHANGED <<lockPath, lockFile, fs, tampers, intruded>>

\* recreate_lock's open: O_EXCL when the path was missing (a file put there
\* since is never adopted), otherwise the existing file.  A failure is an
\* Error verdict, retried on the next tick; the held file after all is an
\* alias (SameFile).  "seen" becomes the inode opened.
OpenAgain(d) ==
    /\ lock[d].pc = "reflocked"
    /\ LET missing == lock[d].seen = 0
           retry == lock' = [lock EXCEPT ![d].pc = "held", ![d].seen = 0]
       IN  \/ /\ missing /\ lockPath = 0 /\ Unused # {}
              /\ lockPath' = Fresh
              /\ lockFile' = NewFile(NoOne, "ok")
              /\ lock' = [lock EXCEPT ![d].pc = "found", ![d].seen = Fresh]
           \/ /\ \/ missing /\ lockPath # 0
                 \/ ~missing /\ lockPath = 0
              /\ retry
              /\ UNCHANGED <<lockPath, lockFile>>
           \/ /\ ~missing /\ lockPath = lock[d].fd
              /\ lock' = [lock EXCEPT ![d].pc = "held", ![d].seen = 0,
                                      ![d].alias = TRUE]
              /\ UNCHANGED <<lockPath, lockFile>>
           \/ /\ ~missing /\ lockPath \notin {0, lock[d].fd}
              /\ lock' = [lock EXCEPT ![d].pc = "found", ![d].seen = lockPath]
              /\ UNCHANGED <<lockPath, lockFile>>
    /\ UNCHANGED <<flocked, fs, tampers, intruded>>

\* take_lock, then read_holder BEFORE any write: somebody holding the new
\* file, or a record that names another daemon, proves a second owner.
ProveOwner(d) ==
    /\ lock[d].pc = "found"
    /\ LET i == lock[d].seen IN
       \/ /\ flocked[i] \notin {NoOne, d}
          /\ Step(d, "lost")
          /\ UNCHANGED flocked
       \/ /\ flocked[i] \in {NoOne, d}
          /\ lockFile[i].rec \notin {NoOne, d}
          /\ Step(d, "lost")
          /\ UNCHANGED flocked
       \/ /\ flocked[i] \in {NoOne, d}
          /\ lockFile[i].rec \in {NoOne, d}
          /\ Step(d, "proven")
          /\ flocked' = [flocked EXCEPT ![i] = d]
    /\ UNCHANGED <<lockPath, lockFile, fs, tampers, intruded>>

\* vet_lock_file gates only the write.  An unsafe file is left as it is and
\* the lock just taken on it is dropped with the descriptor (Error); a safe
\* one gets our record and replaces the old descriptor (Relocked): a new hold,
\* with the record of anybody who came in since the proof overwritten.
Relock(d) ==
    /\ lock[d].pc = "proven"
    /\ LET i == lock[d].seen
           old == lock[d].fd
       IN  \/ /\ lockFile[i].vet # "ok"
              /\ flocked' = [flocked EXCEPT ![i] = NoOne]
              /\ lock' = [lock EXCEPT ![d].pc = "held", ![d].seen = 0]
              /\ UNCHANGED <<lockFile, intruded>>
           \/ /\ lockFile[i].vet = "ok"
              /\ lockFile' = [lockFile EXCEPT ![i].rec = d]
              /\ flocked' = [flocked EXCEPT ![old] = IF @ = d THEN NoOne ELSE @]
              /\ lock' = [lock EXCEPT ![d] = [LockDown EXCEPT !.pc = "held",
                                                              !.fd = i]]
              /\ intruded' = [intruded EXCEPT ![d] = "no"]
    /\ UNCHANGED <<lockPath, fs, tampers>>

Check(d) == StatPath(d) \/ Reflock(d) \/ OpenAgain(d) \/ ProveOwner(d) \/ Relock(d)

-----------------------------------------------------------------------------
(* The process and its surroundings. *)

\* The process is gone: the kernel closes its descriptors, and only that
\* releases the flock.  Nothing ever unlinks the file.  Its record stays, and
\* is an earlier holder's to every later start, this daemon's own included.
LockExit(d) ==
    /\ lock' = [lock EXCEPT ![d] = LockDown]
    /\ flocked' = [i \in Inodes |-> IF flocked[i] = d THEN NoOne ELSE flocked[i]]
    /\ lockFile' = [i \in Inodes |-> IF lockFile[i].rec = d
                                     THEN [lockFile[i] EXCEPT !.rec = Earlier]
                                     ELSE lockFile[i]]
    /\ intruded' = [intruded EXCEPT ![d] = "no"]
    /\ UNCHANGED <<lockPath, fs, tampers>>

\* An operator deletes the lock file, or puts another in its place: an empty
\* one, a copy of the record, another user's, or a second hard link.
DeleteLock ==
    /\ tampers < MaxTampers
    /\ lockPath # 0
    /\ lockPath' = 0
    /\ Tampered
    /\ UNCHANGED <<lockFile, flocked, lock, fs>>

ReplaceLock ==
    /\ tampers < MaxTampers
    /\ lockPath # 0
    /\ Unused # {}
    /\ \E vet \in Vets, rec \in {NoOne, lockFile[lockPath].rec} :
          lockFile' = NewFile(rec, vet)
    /\ lockPath' = Fresh
    /\ Tampered
    /\ UNCHANGED <<flocked, lock, fs>>

\* Where flock is emulated with POSIX locks a lease can expire.
LoseLease ==
    /\ tampers < MaxTampers
    /\ \E i \in Inodes : /\ flocked[i] # NoOne
                         /\ flocked' = [flocked EXCEPT ![i] = NoOne]
    /\ Tampered
    /\ UNCHANGED <<lockPath, lockFile, lock, fs>>

Tamper == DeleteLock \/ ReplaceLock \/ LoseLease

-----------------------------------------------------------------------------
(* What the lock promises. *)

\* A check's verdict is Ok or Relocked: the daemon goes on acking.
Certifies(d) ==
    /\ lock'[d].pc = "held"
    /\ \/ lock[d].pc = "statted"
       \/ lock[d].pc = "proven" /\ lock'[d].fd # lock[d].fd
=============================================================================
