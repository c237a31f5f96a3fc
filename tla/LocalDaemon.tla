---------------------------- MODULE LocalDaemon -----------------------------
(***************************************************************************)
(* logact_local_server: daemons starting, serving, stopping and crashing   *)
(* on one Unix-domain socket path over one SQLite database, next to other  *)
(* programs that do not take the daemon lock.  A socket file is named by   *)
(* the process that bound it; it answers while that process listens.      *)
(***************************************************************************)
EXTENDS Naturals, FiniteSets

CONSTANTS
    Daemons,      \* runs of run_server
    Others,       \* programs that bind the path when it is free
    None,
    MaxCrashes,
    MaxPolicy     \* policy versions an operator installs

ASSUME DaemonAssumption ==
    /\ MaxCrashes \in Nat /\ MaxPolicy \in Nat
    /\ Daemons \cap Others = {}
    /\ {None, "file"} \cap (Daemons \cup Others) = {}
    /\ None \notin {"file", "private", "open", "symlink"}

VARIABLES
    dir,      \* the socket's parent: None, "private", "open" or "symlink"
    path,     \* None, "file", or the process whose bind created the socket
    lock,     \* the daemon whose open file holds the lock, or None
    policy,   \* the policy register in the database, None before bootstrap
    pc,       \* process -> where it is
    crashes

vars == <<dir, path, lock, policy, pc, crashes>>

Procs == Daemons \cup Others

Init ==
    /\ dir \in {None, "private", "open", "symlink"}
    /\ path \in IF dir = None THEN {None} ELSE {None, "file"}
    /\ lock = None /\ policy = None
    /\ pc = [p \in Procs |-> "off"]
    /\ crashes = 0

Goto(p, where) == pc' = [pc EXCEPT ![p] = where]

(* A process that ends, by itself or not, closes its files.               *)
Exit(p) ==
    /\ Goto(p, "off")
    /\ lock' = IF lock = p THEN None ELSE lock

Listening == {p \in Procs : pc[p] \in {"bound", "serving"}}

-----------------------------------------------------------------------------
(* ensure_private_parent_directory, before the database and again before   *)
(* the socket: inspect, create when missing, inspect again.                *)

InspectDirectory(d) ==
    /\ pc[d] \in {"off", "db"}
    /\ Goto(d, CASE dir = None /\ pc[d] = "off" -> "mkdir"
                 [] dir # None /\ pc[d] = "off" -> "check"
                 [] OTHER                       -> "recheck")
    /\ UNCHANGED <<dir, path, lock, policy, crashes>>

(* Mutant: a directory somebody else created meanwhile is trusted.         *)
MkdirTrusts(d) ==
    /\ pc[d] = "mkdir"
    /\ dir' = IF dir = None THEN "private" ELSE dir
    /\ Goto(d, "bootstrap")
    /\ UNCHANGED <<path, lock, policy, crashes>>

(* A directory that appeared meanwhile is not an error here.               *)
CreateDirectory(d) ==
    /\ pc[d] = "mkdir"
    /\ dir' = IF dir = None THEN "private" ELSE dir
    /\ Goto(d, "check")
    /\ UNCHANGED <<path, lock, policy, crashes>>

PrivateDirectory == dir = "private"

CheckDirectory(d) ==
    /\ pc[d] \in {"check", "recheck"}
    /\ IF PrivateDirectory
       THEN /\ Goto(d, IF pc[d] = "check" THEN "bootstrap" ELSE "locking")
            /\ lock' = lock
       ELSE Exit(d)
    /\ UNCHANGED <<dir, path, policy, crashes>>

-----------------------------------------------------------------------------
(* initialize_policy_register: the register is read, then created with a   *)
(* conditional put if it was absent.                                       *)

ReadPolicy(d) ==
    /\ pc[d] = "bootstrap"
    /\ Goto(d, IF policy = None THEN "insert" ELSE "db")
    /\ UNCHANGED <<dir, path, lock, policy, crashes>>

(* Mutant: the bootstrap policy is written unconditionally.                *)
Overwrite(d) ==
    /\ pc[d] = "insert"
    /\ policy' = 0
    /\ Goto(d, "db")
    /\ UNCHANGED <<dir, path, lock, crashes>>

InsertPolicy(d) ==
    /\ pc[d] = "insert"
    /\ policy' = IF policy = None THEN 0 ELSE policy
    /\ Goto(d, "db")
    /\ UNCHANGED <<dir, path, lock, crashes>>

-----------------------------------------------------------------------------
(* prepare_private_unix_socket and bind_socket.                            *)

(* Mutant: a taken lock is ignored.                                        *)
LockAnyway(d) ==
    /\ pc[d] = "locking"
    /\ lock' = d /\ Goto(d, "stat")
    /\ UNCHANGED <<dir, path, policy, crashes>>

TryLock(d) ==
    /\ pc[d] = "locking"
    /\ IF lock = None THEN lock' = d /\ Goto(d, "stat") ELSE Exit(d)
    /\ UNCHANGED <<dir, path, policy, crashes>>

InspectSocket(d) ==
    /\ pc[d] = "stat"
    /\ CASE path = None   -> Goto(d, "bind") /\ lock' = lock
         [] path = "file" -> Exit(d)
         [] OTHER         -> Goto(d, "probe") /\ lock' = lock
    /\ UNCHANGED <<dir, path, policy, crashes>>

(* Mutant: a socket left behind stops the daemon.                          *)
RefuseSocket(d) ==
    /\ pc[d] = "probe"
    /\ Exit(d)
    /\ UNCHANGED <<dir, path, policy, crashes>>

(* Mutant: any socket is taken for stale.                                  *)
AssumeStale(d) ==
    /\ pc[d] = "probe"
    /\ Goto(d, "unlink")
    /\ UNCHANGED <<dir, path, lock, policy, crashes>>

(* Connect to it: only a refused connection shows that it is stale.        *)
ProbeSocket(d) ==
    /\ pc[d] = "probe"
    /\ IF path \in Listening \cup {None} THEN Exit(d) ELSE Goto(d, "unlink") /\ lock' = lock
    /\ UNCHANGED <<dir, path, policy, crashes>>

RemoveStale(d) ==
    /\ pc[d] = "unlink"
    /\ path' = None
    /\ Goto(d, "bind")
    /\ UNCHANGED <<dir, lock, policy, crashes>>

BindSocket(d) ==
    /\ pc[d] = "bind"
    /\ IF path = None
       THEN path' = d /\ Goto(d, "bound") /\ lock' = lock
       ELSE path' = path /\ Exit(d)
    /\ UNCHANGED <<dir, policy, crashes>>

(* chmod 600, or close the listener, remove the socket and fail.           *)
RestrictSocket(d) ==
    /\ pc[d] = "bound"
    /\ \/ Goto(d, "serving") /\ UNCHANGED <<path, lock>>
       \/ Exit(d) /\ path' = None
    /\ UNCHANGED <<dir, policy, crashes>>

-----------------------------------------------------------------------------
(* run_server after the listener is bound.                                 *)

(* Shutdown signal or server error: the listener closes first.             *)
Shutdown(d) ==
    /\ pc[d] = "serving"
    /\ Goto(d, "cleanup")
    /\ UNCHANGED <<dir, path, lock, policy, crashes>>

RemoveSocket(d) ==
    /\ pc[d] = "cleanup"
    /\ path' = None
    /\ Exit(d)
    /\ UNCHANGED <<dir, policy, crashes>>

Crash(d) ==
    /\ pc[d] # "off" /\ crashes < MaxCrashes
    /\ Exit(d)
    /\ crashes' = crashes + 1
    /\ UNCHANGED <<dir, path, policy>>

-----------------------------------------------------------------------------
(* The environment.  Other programs bind the path only when it is free and *)
(* remove the socket they bound; somebody may create the directory; an     *)
(* operator installs policies.                                             *)

OtherBinds(o) ==
    /\ pc[o] = "off" /\ path = None /\ dir # None
    /\ path' = o /\ Goto(o, "serving")
    /\ UNCHANGED <<dir, lock, policy, crashes>>

OtherStops(o) ==
    /\ pc[o] = "serving"
    /\ path' \in {path, None} /\ Goto(o, "off")
    /\ UNCHANGED <<dir, lock, policy, crashes>>

OtherMkdir ==
    /\ dir = None /\ dir' \in {"private", "open"}
    /\ UNCHANGED <<path, lock, policy, pc, crashes>>

InstallPolicy ==
    /\ dir # None
    /\ \E v \in (IF policy = None THEN 1 ELSE policy + 1) .. MaxPolicy : policy' = v
    /\ UNCHANGED <<dir, path, lock, pc, crashes>>

(* The service manager starts the daemon again whenever it has ended.      *)
Step(d) ==
    \/ InspectDirectory(d) \/ CreateDirectory(d) \/ CheckDirectory(d)
    \/ ReadPolicy(d) \/ InsertPolicy(d)
    \/ TryLock(d) \/ InspectSocket(d) \/ ProbeSocket(d) \/ RemoveStale(d)
    \/ BindSocket(d) \/ RestrictSocket(d) \/ RemoveSocket(d)

Next ==
    \/ \E d \in Daemons : Step(d) \/ Shutdown(d) \/ Crash(d)
    \/ \E o \in Others : OtherBinds(o) \/ OtherStops(o)
    \/ OtherMkdir \/ InstallPolicy

Spec == Init /\ [][Next]_vars

(* The operating system runs a started daemon, and its service manager     *)
(* starts it again.                                                        *)
FairSpec == Spec /\ \A d \in Daemons : WF_vars(Step(d))

-----------------------------------------------------------------------------
(* A daemon that has bound the path stays reachable through it until it    *)
(* stops: no other start, stop or crash removes or replaces its socket     *)
(* (the daemon lock of prepare_private_unix_socket).  Hence at most one    *)
(* daemon serves.                                                          *)
ServedSocketReachable ==
    \A d \in Daemons : pc[d] \in {"bound", "serving"} => path = d

(* Starting and stopping daemons never remove a plain file or the socket   *)
(* of a live program that does not know the lock ("a live listener and     *)
(* unexpected filesystem entries are preserved").                          *)
LeavesForeignPath ==
    path = "file" \/ path \in (Others \cap Listening)
      => path' = path \/ \E o \in Others : pc[o] # pc'[o]

(* The database and the socket are only ever created in a directory closed *)
(* to other users, even when the directory appears while the daemon is     *)
(* creating it (the second look of ensure_private_parent_directory).       *)
StateIsPrivate ==
    \A d \in Daemons : pc[d] \notin {"off", "mkdir", "check"} => dir = "private"

(* A start never replaces a policy an operator has installed.              *)
LeavesPolicy == policy # None => policy' >= policy

(* A daemon keeps to its own: it creates its files in a private directory  *)
(* only, and its start destroys neither a plain file, nor the socket of a  *)
(* live program that ignores the lock, nor a policy an operator installed. *)
KeepsToItsOwn == [][StateIsPrivate' /\ LeavesForeignPath /\ LeavesPolicy]_vars

(* A socket left by a crash does not keep the daemon down: it is replaced  *)
(* as long as the service manager keeps starting the daemon.               *)
Stale == /\ path \in Procs \ Listening
         /\ dir = "private"

StaleSocketReplaced == Stale ~> ~Stale

=============================================================================
