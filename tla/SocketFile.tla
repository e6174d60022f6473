---------------------------- MODULE SocketFile ----------------------------
(***************************************************************************)
(* The file of a Unix listener (weir-server/src/socket/mod.rs): the        *)
(* hardened bind that replaces only a stale socket, and the shutdown that  *)
(* unlinks only the file this process bound.  Each system call another     *)
(* process can get in between is a step: stat, probe, re-check, unlink,    *)
(* bind, stat, pin; stat, unlink.                                          *)
(*                                                                         *)
(* An entry at the path is an inode number and what it is.  A number is    *)
(* used again once nothing names or pins the inode, so equal numbers do    *)
(* not mean the same file.                                                 *)
(***************************************************************************)
EXTENDS Naturals, FiniteSets

CONSTANTS
    Processes,    \* processes configured with the same socket_path
    MaxNumbers    \* bound: inode numbers of the parent directory's filesystem

VARIABLES
    sockPath,     \* [num, kind]: the entry at socket_path; num 0 is no entry
    sock          \* process -> [step, first, num, open, excused]

Numbers == 1 .. MaxNumbers

\* The kind of an entry: a process (its socket, live while its listener is
\* open), "stale" (a socket nobody listens on), "file" (a regular file) or
\* "denied" (a socket whose probe is refused permission).
Nothing == [num |-> 0, kind |-> "stale"]

\* "first" is the number seen before the probe, "num" the bound identity.
NoSocket == [step |-> "none", first |-> 0, num |-> 0, open |-> FALSE,
             excused |-> FALSE]

SocketInit ==
    /\ sockPath \in {Nothing} \cup {[num |-> 1, kind |-> k] :
                                       k \in {"stale", "file", "denied"}}
    /\ sock = [d \in Processes |-> NoSocket]

\* connect_probe's verdict; only an ECONNREFUSED is proof of staleness, and a
\* regular file refuses a connect as a dead socket does.
probe_socket ==
    CASE sockPath.num = 0 -> "absent"
      [] sockPath.kind = "denied" -> "unknown"
      [] sockPath.kind \in Processes /\ sock[sockPath.kind].open -> "live"
      [] OTHER -> "stale"

\* O_PATH pins, held from bind_hardened until the process or listener is gone.
Pinned == {sock[e].num : e \in {e \in Processes : sock[e].open}}

SockStep(d, step) == sock' = [sock EXCEPT ![d].step = step]

\* An error out of the bind drops the listener; what it created stays behind.
Refuse(d) == sock' = [sock EXCEPT ![d].step = "refused", ![d].open = FALSE]

-----------------------------------------------------------------------------
(* bind_hardened *)

\* remove_stale_socket_at_startup's first fstatat: only a socket goes on.
StatSocket(d) ==
    /\ sock[d].step = "none"
    /\ \/ sockPath.num = 0 /\ SockStep(d, "clear")
       \/ /\ sockPath.num # 0 /\ sockPath.kind = "file"
          /\ Refuse(d)
       \/ /\ sockPath.num # 0 /\ sockPath.kind # "file"
          /\ sock' = [sock EXCEPT ![d].step = "statted", ![d].first = sockPath.num]
    /\ UNCHANGED sockPath

ProbeSocket(d) ==
    /\ sock[d].step = "statted"
    /\ \/ probe_socket = "absent" /\ SockStep(d, "clear")
       \/ probe_socket = "stale" /\ SockStep(d, "stale")
       \/ probe_socket \in {"live", "unknown"} /\ Refuse(d)
    /\ UNCHANGED sockPath

\* The entry must still be the number first seen.
RecheckSocket(d) ==
    /\ sock[d].step = "stale"
    /\ \/ sockPath.num = 0 /\ SockStep(d, "clear")
       \/ sockPath.num = sock[d].first /\ SockStep(d, "checked")
       \/ sockPath.num \notin {0, sock[d].first} /\ Refuse(d)
    /\ UNCHANGED sockPath

\* unlinkat by name: whatever is there now; an entry already gone is fine.
UnlinkStale(d) ==
    /\ sock[d].step = "checked"
    /\ sockPath' = Nothing
    /\ SockStep(d, "clear")

\* The windows the code documents: between the look at the path that a process
\* trusts and the step it takes by name (probe to unlink, bind to snapshot at
\* startup, stat to unlink at shutdown).
Trusting == {"stale", "checked", "created", "leaving"}

\* bind(2) creates the entry or fails with EADDRINUSE.  A process that creates
\* it inside such a window of another is excused from being reachable: that one
\* may still take the new file for the old.
BindSocket(d) ==
    /\ sock[d].step = "clear"
    /\ \/ /\ sockPath.num = 0
          /\ \E i \in Numbers \ Pinned :
                /\ sockPath' = [num |-> i, kind |-> d]
                /\ sock' = [sock EXCEPT ![d].step = "created", ![d].open = TRUE,
                     ![d].excused = \E e \in Processes \ {d} : sock[e].step \in Trusting]
       \/ /\ sockPath.num # 0
          /\ Refuse(d)
          /\ UNCHANGED sockPath

\* The snapshot that becomes the identity: it must be a socket.
SnapSocket(d) ==
    /\ sock[d].step = "created"
    /\ \/ /\ sockPath.num # 0 /\ sockPath.kind # "file"
          /\ sock' = [sock EXCEPT ![d].step = "snapped", ![d].num = sockPath.num]
       \/ /\ sockPath.num = 0 \/ sockPath.kind = "file"
          /\ Refuse(d)
    /\ UNCHANGED sockPath

\* The late-swap stat and the O_PATH pin both insist on the same number.
PinSocket(d) ==
    /\ sock[d].step = "snapped"
    /\ \/ sockPath.num = sock[d].num /\ SockStep(d, "bound")
       \/ sockPath.num # sock[d].num /\ Refuse(d)
    /\ UNCHANGED sockPath

BindStep(d) == \/ StatSocket(d) \/ ProbeSocket(d) \/ RecheckSocket(d) \/ UnlinkStale(d)
               \/ BindSocket(d) \/ SnapSocket(d) \/ PinSocket(d)

-----------------------------------------------------------------------------
(* remove_own_socket, while the listener is still open *)

names_our_socket(d) == sockPath.num = sock[d].num /\ sockPath.kind # "file"

\* Identity, not liveness.  A file that is not ours is left, and the listener
\* closes either way.
StatOwn(d) ==
    /\ sock[d].step = "bound"
    /\ \/ names_our_socket(d) /\ SockStep(d, "leaving")
       \/ /\ ~names_our_socket(d)
          /\ sock' = [sock EXCEPT ![d].step = "closed", ![d].open = FALSE]
    /\ UNCHANGED sockPath

UnlinkOwn(d) ==
    /\ sock[d].step = "leaving"
    /\ sockPath' = Nothing
    /\ sock' = [sock EXCEPT ![d].step = "closed", ![d].open = FALSE]

\* The process is gone and its socket with it; the file stays, stale.
SocketExit(d) ==
    /\ sock' = [sock EXCEPT ![d] = NoSocket]
    /\ sockPath' = IF sockPath.kind = d THEN [sockPath EXCEPT !.kind = "stale"]
                   ELSE sockPath

\* An operator removes the socket file: its owner, if it lives, is excused.
DeleteSocket ==
    /\ sockPath.num # 0
    /\ sockPath' = Nothing
    /\ sock' = [d \in Processes |-> IF sockPath.kind = d
                                    THEN [sock[d] EXCEPT !.excused = TRUE]
                                    ELSE sock[d]]
=============================================================================
