------------------------- MODULE LocalDaemonProofs --------------------------
(***************************************************************************)
(* A bound daemon stays reachable, and keeps to its own, for any number of *)
(* daemons, of other programs and of crashes; and what a hook process      *)
(* reports is what happened, for any number of processes.                  *)
(*                                                                         *)
(* Reachability is not inductive by itself.  What keeps it is that a       *)
(* daemon past the lock holds it until it has removed its socket, that a   *)
(* program that listens is the one the path names, and that the socket a   *)
(* daemon is about to remove has nobody listening.                         *)
(***************************************************************************)
EXTENDS LocalInstall, Sequences, FiniteSetTheorems, TLAPS

Places == {"off", "mkdir", "check", "recheck", "bootstrap", "insert", "db", "locking",
           "stat", "probe", "unlink", "bind", "bound", "serving", "cleanup"}

Types == pc \in [Procs -> Places]

PastLock == {"stat", "probe", "unlink", "bind", "bound", "serving", "cleanup"}

LockIsHeld == \A d \in Daemons : pc[d] \in PastLock => lock = d

PathNamesListener ==
    /\ \A d \in Daemons : pc[d] \in {"bound", "serving", "cleanup"} => path = d
    /\ \A o \in Others : pc[o] = "off" \/ (pc[o] = "serving" /\ path = o)

StaleIsUnused ==
    \A d \in Daemons : pc[d] = "unlink" => path # None /\ path \notin Listening

SocketInv == Types /\ LockIsHeld /\ PathNamesListener /\ StaleIsUnused

LEMMA InitSocketInv == Init => SocketInv
BY SMT DEF Init, SocketInv, Types, Places, LockIsHeld, PastLock, PathNamesListener,
    StaleIsUnused, Procs

LEMMA DaemonStepKeepsInv ==
    ASSUME SocketInv, NEW d \in Daemons, Step(d) \/ Shutdown(d) \/ Crash(d)
    PROVE  SocketInv'
<1> USE DaemonAssumption DEF SocketInv, Types, Places, LockIsHeld, PastLock, PathNamesListener,
        StaleIsUnused, Procs, Goto, Exit, Listening
<1>1. CASE InspectDirectory(d) \/ CreateDirectory(d) \/ CheckDirectory(d)
    BY <1>1 DEF InspectDirectory, CreateDirectory, CheckDirectory
<1>2. CASE ReadPolicy(d) \/ InsertPolicy(d)
    BY <1>2 DEF ReadPolicy, InsertPolicy
<1>3. CASE TryLock(d)
    BY <1>3 DEF TryLock
<1>4. CASE InspectSocket(d)
    BY <1>4 DEF InspectSocket
<1>5. CASE ProbeSocket(d)
    BY <1>5 DEF ProbeSocket
<1>6. CASE RemoveStale(d)
    BY <1>6 DEF RemoveStale
<1>7. CASE BindSocket(d)
    BY <1>7 DEF BindSocket
<1>8. CASE RestrictSocket(d)
    BY <1>8 DEF RestrictSocket
<1>9. CASE Shutdown(d) \/ RemoveSocket(d)
    BY <1>9 DEF Shutdown, RemoveSocket
<1>10. CASE Crash(d)
    BY <1>10 DEF Crash
<1>. QED  BY <1>1, <1>2, <1>3, <1>4, <1>5, <1>6, <1>7, <1>8, <1>9, <1>10 DEF Step

LEMMA OtherStepKeepsInv ==
    ASSUME SocketInv, NEW o \in Others, OtherBinds(o) \/ OtherStops(o)
    PROVE  SocketInv'
<1> USE DaemonAssumption DEF SocketInv, Types, Places, LockIsHeld, PastLock, PathNamesListener,
        StaleIsUnused, Procs, Goto, Listening
<1>1. CASE OtherBinds(o)
    BY <1>1 DEF OtherBinds
<1>2. CASE OtherStops(o)
    BY <1>2 DEF OtherStops
<1>. QED  BY <1>1, <1>2

LEMMA NextKeepsSocketInv == SocketInv /\ [Next]_vars => SocketInv'
<1> SUFFICES ASSUME SocketInv, [Next]_vars PROVE SocketInv'
    OBVIOUS
<1>1. CASE \E d \in Daemons : Step(d) \/ Shutdown(d) \/ Crash(d)
    BY <1>1, DaemonStepKeepsInv
<1>2. CASE \E o \in Others : OtherBinds(o) \/ OtherStops(o)
    BY <1>2, OtherStepKeepsInv
<1>3. CASE OtherMkdir \/ InstallPolicy \/ UNCHANGED vars
    BY <1>3 DEF OtherMkdir, InstallPolicy, vars, SocketInv, Types, LockIsHeld,
        PathNamesListener, StaleIsUnused, Listening
<1>. QED  BY <1>1, <1>2, <1>3 DEF Next

(* A daemon that has bound the path stays reachable through it until it    *)
(* stops (prepare_private_unix_socket, bind_socket, run_server).           *)
THEOREM DaemonReachable == Spec => []ServedSocketReachable
<1>1. SocketInv => ServedSocketReachable
    BY DEF SocketInv, PathNamesListener, ServedSocketReachable
<1>. QED  BY InitSocketInv, NextKeepsSocketInv, <1>1, PTL DEF Spec

-----------------------------------------------------------------------------

(* The daemon goes on past its look at the path only if that is no file.   *)
FileSeen == \A d \in Daemons : pc[d] \in {"probe", "unlink"} => path # "file"

LEMMA NextKeepsFileSeen == SocketInv /\ FileSeen /\ [Next]_vars => FileSeen'
<1> SUFFICES ASSUME SocketInv, FileSeen, [Next]_vars PROVE FileSeen'
    OBVIOUS
<1> USE DaemonAssumption DEF SocketInv, Types, Places, FileSeen, Procs, Goto, Exit
<1>1. CASE \E d \in Daemons : Step(d) \/ Shutdown(d) \/ Crash(d)
  <2>1. PICK d \in Daemons : Step(d) \/ Shutdown(d) \/ Crash(d)
      BY <1>1
  <2>2. CASE InspectSocket(d) \/ ProbeSocket(d) \/ RemoveStale(d) \/ BindSocket(d)
      BY <2>2 DEF InspectSocket, ProbeSocket, RemoveStale, BindSocket
  <2>3. CASE InspectDirectory(d) \/ CreateDirectory(d) \/ CheckDirectory(d)
             \/ ReadPolicy(d) \/ InsertPolicy(d) \/ TryLock(d)
      BY <2>3 DEF InspectDirectory, CreateDirectory, CheckDirectory, ReadPolicy, InsertPolicy,
          TryLock
  <2>4. CASE RestrictSocket(d) \/ Shutdown(d) \/ RemoveSocket(d) \/ Crash(d)
      BY <2>4 DEF RestrictSocket, Shutdown, RemoveSocket, Crash
  <2>. QED  BY <2>1, <2>2, <2>3, <2>4 DEF Step
<1>2. CASE \E o \in Others : OtherBinds(o) \/ OtherStops(o)
    BY <1>2 DEF OtherBinds, OtherStops
<1>3. CASE OtherMkdir \/ InstallPolicy \/ UNCHANGED vars
    BY <1>3 DEF OtherMkdir, InstallPolicy, vars
<1>. QED  BY <1>1, <1>2, <1>3 DEF Next

LEMMA ForeignPathStep == SocketInv /\ FileSeen /\ [Next]_vars => [LeavesForeignPath]_vars
<1> SUFFICES ASSUME SocketInv, FileSeen, Next, path = "file" \/ path \in (Others \cap Listening),
                    path' # path
             PROVE  \E o \in Others : pc[o] # pc'[o]
    BY DEF LeavesForeignPath
<1> USE DaemonAssumption DEF SocketInv, Types, Places, LockIsHeld, PastLock, PathNamesListener,
        StaleIsUnused, FileSeen, Procs
<1>1. \A d \in Daemons : ~(Step(d) \/ Shutdown(d) \/ Crash(d))
  <2> SUFFICES ASSUME NEW d \in Daemons, Step(d) \/ Shutdown(d) \/ Crash(d) PROVE FALSE
      OBVIOUS
  <2>1. RemoveStale(d) \/ BindSocket(d) \/ RestrictSocket(d) \/ RemoveSocket(d)
      BY DEF Step, InspectDirectory, CreateDirectory, CheckDirectory, ReadPolicy, InsertPolicy,
          TryLock, InspectSocket, ProbeSocket, Shutdown, Crash
  <2>2. CASE RemoveStale(d)
      BY <2>2 DEF RemoveStale
  <2>3. CASE BindSocket(d)
      BY <2>3 DEF BindSocket
  <2>4. CASE RestrictSocket(d) \/ RemoveSocket(d)
    <3>1. path = d
        BY <2>4 DEF RestrictSocket, RemoveSocket
    <3>. QED  BY <3>1
  <2>. QED  BY <2>1, <2>2, <2>3, <2>4
<1>2. PICK o \in Others : OtherBinds(o) \/ OtherStops(o)
    BY <1>1 DEF Next, OtherMkdir, InstallPolicy
<1>3. pc[o] # pc'[o]
    BY <1>2 DEF OtherBinds, OtherStops, Goto
<1>. QED  BY <1>3

-----------------------------------------------------------------------------

PrivateInv == Types /\ StateIsPrivate

LEMMA NextKeepsPrivate == PrivateInv /\ [Next]_vars => PrivateInv'
<1> SUFFICES ASSUME PrivateInv, [Next]_vars PROVE PrivateInv'
    OBVIOUS
<1> USE DaemonAssumption DEF PrivateInv, Types, Places, StateIsPrivate, Procs
<1>1. CASE \E d \in Daemons : Step(d) \/ Shutdown(d) \/ Crash(d)
  <2>1. PICK d \in Daemons : Step(d) \/ Shutdown(d) \/ Crash(d)
      BY <1>1
  <2>2. CASE InspectDirectory(d) \/ CreateDirectory(d)
      BY <2>2 DEF InspectDirectory, CreateDirectory, Goto
  <2>3. CASE CheckDirectory(d)
      BY <2>3 DEF CheckDirectory, PrivateDirectory, Goto, Exit
  <2>4. CASE ~(InspectDirectory(d) \/ CreateDirectory(d) \/ CheckDirectory(d))
    <3>1. dir' = dir /\ \/ pc[d] \notin {"off", "mkdir", "check"} /\ \E w \in Places : Goto(d, w)
                        \/ Goto(d, "off")
        BY <2>1, <2>4 DEF Step, ReadPolicy, InsertPolicy, TryLock, InspectSocket, ProbeSocket,
            RemoveStale, BindSocket, RestrictSocket, RemoveSocket, Shutdown, Crash, Exit
    <3>. QED  BY <3>1 DEF Goto
  <2>. QED  BY <2>2, <2>3, <2>4
<1>2. CASE \E o \in Others : OtherBinds(o) \/ OtherStops(o)
    BY <1>2 DEF OtherBinds, OtherStops, Goto
<1>3. CASE OtherMkdir \/ InstallPolicy \/ UNCHANGED vars
    BY <1>3 DEF OtherMkdir, InstallPolicy, vars
<1>. QED  BY <1>1, <1>2, <1>3 DEF Next

LEMMA InitPrivate == Init => PrivateInv
BY DaemonAssumption DEF Init, PrivateInv, Types, Places, StateIsPrivate, Procs

(* The database and the socket are only created in a private directory     *)
(* (ensure_private_parent_directory).                                      *)
THEOREM DaemonStatePrivate == Spec => []StateIsPrivate
<1>1. PrivateInv => StateIsPrivate
    BY DEF PrivateInv
<1>. QED  BY <1>1, InitPrivate, NextKeepsPrivate, PTL DEF Spec

-----------------------------------------------------------------------------

PolicyTyped == policy = None \/ policy \in Nat

LEMMA PolicyStep == PolicyTyped /\ [Next]_vars => PolicyTyped' /\ [LeavesPolicy]_vars
<1> SUFFICES ASSUME PolicyTyped, [Next]_vars PROVE PolicyTyped' /\ [LeavesPolicy]_vars
    OBVIOUS
<1>1. CASE UNCHANGED policy
    BY <1>1 DEF PolicyTyped, LeavesPolicy
<1>2. CASE \E d \in Daemons : InsertPolicy(d)
    BY <1>2 DEF PolicyTyped, LeavesPolicy, InsertPolicy
<1>3. CASE InstallPolicy
    BY <1>3, DaemonAssumption DEF PolicyTyped, LeavesPolicy, InstallPolicy
<1>4. UNCHANGED policy \/ (\E d \in Daemons : InsertPolicy(d)) \/ InstallPolicy
    BY DEF Next, Step, InspectDirectory, CreateDirectory, CheckDirectory, ReadPolicy, TryLock,
        InspectSocket, ProbeSocket, RemoveStale, BindSocket, RestrictSocket, RemoveSocket,
        Shutdown, Crash, OtherBinds, OtherStops, OtherMkdir, vars
<1>. QED  BY <1>1, <1>2, <1>3, <1>4

(* A daemon keeps to its own: its files are private, a plain file or the   *)
(* socket of a live program that does not know the lock is left alone, and *)
(* a start never replaces an installed policy (prepare_private_unix_socket *)
(* and the conditional insert of the bootstrap).                           *)
THEOREM DaemonKeepsToItsOwn == Spec => KeepsToItsOwn
<1>1. Init => FileSeen /\ PolicyTyped
    BY DEF Init, FileSeen, Procs, PolicyTyped
<1>2. SocketInv /\ FileSeen /\ PrivateInv /\ PolicyTyped /\ [Next]_vars
        => [StateIsPrivate' /\ LeavesForeignPath /\ LeavesPolicy]_vars
    BY ForeignPathStep, NextKeepsPrivate, PolicyStep DEF PrivateInv
<1>. QED  BY InitSocketInv, NextKeepsSocketInv, NextKeepsFileSeen, InitPrivate, NextKeepsPrivate,
             PolicyStep, <1>1, <1>2, PTL DEF Spec, KeepsToItsOwn

-----------------------------------------------------------------------------
(* AgentBusId: what Display writes, Parse reads back.                      *)

(* Hooks counts with the operators of its own FiniteSets.                  *)
LEMMA SameCardinality == \A S : Hook!Cardinality(S) = Cardinality(S)
BY Zenon DEF Cardinality, Hook!Cardinality, IsFiniteSet, Hook!IsFiniteSet

(* The m-th of n increasing numbers is the one with m up to it.            *)
Increasing(n, d) == \A a, b \in 1 .. n : a < b => d[a] < d[b]

Members(n, d) == {d[a] : a \in 1 .. n}

Rank(S, k) == Cardinality({j \in S : j <= k})

LEMMA Enumerated ==
    ASSUME NEW n \in Nat, NEW d \in [1 .. n -> Nat], Increasing(n, d),
           NEW at, at = Members(n, d)
    PROVE  /\ n > 0 => Cardinality(at) = n
           /\ \A m \in 1 .. n : \A k \in at : Rank(at, k) = m <=> k = d[m]
<1> USE DEF Increasing, Members, Rank
<1>0. \A a, b \in 1 .. n : d[a] <= d[b] <=> a <= b
    <2>1. ASSUME NEW a \in 1 .. n, NEW b \in 1 .. n PROVE d[a] <= d[b] <=> a <= b
        <3>1. d[a] \in Nat /\ d[b] \in Nat /\ a \in Nat /\ b \in Nat
            OBVIOUS
        <3>2. (a < b => d[a] < d[b]) /\ (b < a => d[b] < d[a]) /\ (a = b => d[a] = d[b])
            OBVIOUS
        <3> QED BY <3>1, <3>2
    <2> QED BY <2>1
<1>1. ASSUME NEW m \in 1 .. n PROVE Cardinality({j \in at : j <= d[m]}) = m
    <2>1. PICK T : T = {j \in at : j <= d[m]}
        OBVIOUS
    <2>2. PICK f : f = [a \in 1 .. m |-> d[a]]
        OBVIOUS
    <2>3. \A a \in 1 .. m : a \in 1 .. n /\ a <= m
        OBVIOUS
    <2>4. f \in [1 .. m -> T]
        BY <1>0, <2>1, <2>2, <2>3
    <2>5. \A a, b \in 1 .. m : f[a] = f[b] => a = b
        <3>1. ASSUME NEW a \in 1 .. m, NEW b \in 1 .. m, f[a] = f[b] PROVE a = b
            <4>1. d[a] = d[b] /\ d[a] \in Nat
                BY <2>2, <2>3, <3>1
            <4>2. a <= b /\ b <= a
                BY <1>0, <2>3, <4>1
            <4> QED BY <4>2
        <3> QED BY <3>1
    <2>6. \A j \in T : \E a \in 1 .. m : f[a] = j
        <3>1. ASSUME NEW j \in T PROVE \E a \in 1 .. m : f[a] = j
            <4>1. PICK a \in 1 .. n : j = d[a]
                BY <2>1
            <4>2. a <= m
                BY <1>0, <2>1, <4>1
            <4>3. a \in 1 .. m
                BY <4>2
            <4> QED BY <2>2, <4>1, <4>3
        <3> QED BY <3>1
    <2>7. DOMAIN f = 1 .. m
        BY <2>2
    <2>8. ExistsBijection(1 .. m, T)
        <3>1. f \in Injection(1 .. m, T)
            BY <2>4, <2>5, <2>7 DEF Injection, IsInjective
        <3>2. f \in Surjection(1 .. m, T)
            BY <2>4, <2>6 DEF Surjection
        <3> QED BY <3>1, <3>2 DEF ExistsBijection, Bijection
    <2>9. IsFiniteSet(1 .. m) /\ Cardinality(1 .. m) = m
        BY FS_Interval
    <2>10. Cardinality(T) = m
        BY <2>8, <2>9, FS_Bijection
    <2> QED BY <2>1, <2>10
<1>2. ASSUME n > 0 PROVE Cardinality(at) = n
    <2>1. n \in 1 .. n
        BY <1>2
    <2>2. {j \in at : j <= d[n]} = at
        BY <1>0, <2>1
    <2> QED BY <1>1, <2>1, <2>2
<1>3. ASSUME NEW m \in 1 .. n, NEW k \in at
      PROVE  Cardinality({j \in at : j <= k}) = m <=> k = d[m]
    <2>1. PICK b \in 1 .. n : k = d[b]
        OBVIOUS
    <2>2. Cardinality({j \in at : j <= k}) = b
        BY <1>1, <2>1
    <2>3. d[b] = d[m] <=> b = m
        <3>1. d[b] \in Nat /\ d[m] \in Nat /\ (d[b] <= d[m] <=> b <= m) /\ (d[m] <= d[b] <=> m <= b)
            BY <1>0
        <3> QED BY <3>1
    <2> QED BY <2>1, <2>2, <2>3
<1> QED BY <1>2, <1>3

(* Splitting at dots that are known.                                       *)
From(d, m) == IF m = 1 THEN 0 ELSE d[m - 1]

To(s, n, d, m) == IF m = n + 1 THEN Len(s) + 1 ELSE d[m]

Split(s, n, d, parts) ==
    /\ Len(parts) = n + 1
    /\ \A m \in 1 .. (n + 1) : parts[m] = SubSeq(s, From(d, m) + 1, To(s, n, d, m) - 1)

LEMMA SplitParts ==
    ASSUME NEW T, NEW s \in Seq(T), NEW n \in Nat \ {0}, NEW d \in [1 .. n -> Nat],
           Increasing(n, d), {k \in 1 .. Len(s) : s[k] = "."} = Members(n, d)
    PROVE  Split(s, n, d, Hook!SplitAtDots(s))
<1>1. PICK at : at = {k \in 1 .. Len(s) : s[k] = "."}
    OBVIOUS
<1>2. at = Members(n, d)
    BY <1>1
<1>3. /\ Cardinality(at) = n
      /\ \A m \in 1 .. n : \A k \in at : Rank(at, k) = m <=> k = d[m]
    <2>1. n \in Nat /\ n > 0
        OBVIOUS
    <2>2. /\ n > 0 => Cardinality(at) = n
          /\ \A m \in 1 .. n : \A k \in at : Rank(at, k) = m <=> k = d[m]
        BY <1>2, <2>1, Enumerated
    <2> QED BY <2>1, <2>2
<1>4. /\ Hook!Cardinality(at) = n
      /\ \A m \in 1 .. n : \A k \in at : Hook!Cardinality({j \in at : j <= k}) = m <=> k = d[m]
    BY <1>3, SameCardinality DEF Rank
<1>5. ASSUME NEW m \in 1 .. n
      PROVE  (CHOOSE k \in at : Hook!Cardinality({j \in at : j <= k}) = m) = d[m]
    <2>1. d[m] \in at
        BY <1>2 DEF Members
    <2>2. \A k \in at : Hook!Cardinality({j \in at : j <= k}) = m <=> k = d[m]
        BY <1>4
    <2> QED BY <2>1, <2>2
<1> DEFINE nth(i) == IF i = 0 THEN 0
                     ELSE IF i > Hook!Cardinality(at) THEN Len(s) + 1
                     ELSE CHOOSE k \in at : Hook!Cardinality({j \in at : j <= k}) = i
<1>6. \A m \in 1 .. (n + 1) : /\ nth(m - 1) = From(d, m)
                              /\ nth(m) = To(s, n, d, m)
    <2>1. ASSUME NEW m \in 1 .. n PROVE nth(m) = d[m]
        <3>1. m # 0 /\ ~ (m > n)
            OBVIOUS
        <3>2. nth(m) = CHOOSE k \in at : Hook!Cardinality({j \in at : j <= k}) = m
            BY <1>4, <3>1, Zenon
        <3> QED BY <1>5, <3>2
    <2>2. nth(0) = 0 /\ nth(n + 1) = Len(s) + 1
        BY <1>4
    <2> HIDE DEF nth
    <2>3. ASSUME NEW m \in 1 .. (n + 1) PROVE nth(m - 1) = From(d, m)
        <3>1. CASE m = 1
            BY <2>2, <3>1 DEF From
        <3>2. CASE m # 1
            <4>1. m - 1 \in 1 .. n
                BY <3>2
            <4> QED BY <2>1, <3>2, <4>1 DEF From
        <3> QED BY <3>1, <3>2
    <2>4. ASSUME NEW m \in 1 .. (n + 1) PROVE nth(m) = To(s, n, d, m)
        BY <2>1, <2>2 DEF To
    <2> QED BY <2>3, <2>4
<1>7. Hook!SplitAtDots(s) = [m \in 1 .. (n + 1) |-> SubSeq(s, nth(m - 1) + 1, nth(m) - 1)]
    BY <1>1, <1>4 DEF Hook!SplitAtDots
<1> HIDE DEF nth
<1>8. PICK parts : parts = Hook!SplitAtDots(s)
    OBVIOUS
<1>9. /\ DOMAIN parts = 1 .. (n + 1)
      /\ \A m \in 1 .. (n + 1) : parts[m] = SubSeq(s, nth(m - 1) + 1, nth(m) - 1)
    BY <1>7, <1>8, Zenon
<1>10. Len(parts) = n + 1
    <2>1. PICK v : v = [m \in 1 .. (n + 1) |-> SubSeq(s, nth(m - 1) + 1, nth(m) - 1)]
        OBVIOUS
    <2>2. n + 1 \in Nat
        OBVIOUS
    <2>3. Len(v) = n + 1
        BY <2>1, <2>2
    <2> QED BY <1>7, <1>8, <2>1, <2>3, Zenon
<1>11. ASSUME NEW m \in 1 .. (n + 1)
       PROVE  parts[m] = SubSeq(s, From(d, m) + 1, To(s, n, d, m) - 1)
    BY <1>6, <1>9, Zenon
<1>12. Split(s, n, d, parts)
    BY <1>10, <1>11, Zenon DEF Split
<1> QED BY <1>8, <1>12, Zenon

(* Two sequences one after the other.                                      *)
Join(x, y, z) ==
    /\ Len(z) = Len(x) + Len(y)
    /\ \A k \in 1 .. Len(x) : z[k] = x[k]
    /\ \A k \in 1 .. Len(y) : z[Len(x) + k] = y[k]

LEMMA Joined ==
    ASSUME NEW T, NEW x \in Seq(T), NEW y \in Seq(T), NEW z, z = x \o y
    PROVE  z \in Seq(T) /\ Join(x, y, z)
BY DEF Join

LEMMA Extracted ==
    ASSUME NEW T, NEW x \in Seq(T), NEW y \in Seq(T), NEW o \in Nat, o + Len(y) <= Len(x),
           \A k \in 1 .. Len(y) : x[o + k] = y[k]
    PROVE  SubSeq(x, o + 1, o + Len(y)) = y
<1>1. PICK z : z = SubSeq(x, o + 1, o + Len(y))
    OBVIOUS
<1>2. z \in Seq(T) /\ Len(z) = Len(y) /\ \A k \in 1 .. Len(y) : z[k] = x[o + k]
    BY <1>1
<1>3. \A k \in 1 .. Len(y) : z[k] = y[k]
    BY <1>2
<1>4. z = y
    BY <1>2, <1>3
<1> QED BY <1>1, <1>4

(* An id of the main thread, harness.user.session, and how an id goes on.  *)
Dotted(h, u, s, x) ==
    /\ Len(x) = Len(u) + Len(s) + 3
    /\ x[1] = h /\ x[2] = "." /\ x[Len(u) + 3] = "."
    /\ \A k \in 1 .. Len(u) : x[2 + k] = u[k]
    /\ \A k \in 1 .. Len(s) : x[Len(u) + 3 + k] = s[k]

LEMMA MainThreadId ==
    ASSUME NEW T, "." \in T, NEW h \in T, NEW u \in Seq(T), NEW s \in Seq(T),
           NEW x, x = <<h>> \o Hook!Dot \o u \o Hook!Dot \o s
    PROVE  x \in Seq(T) /\ Dotted(h, u, s, x)
<1>1. PICK a : a = <<h>> \o <<".">>
    OBVIOUS
<1>2. PICK b : b = a \o u
    OBVIOUS
<1>3. PICK c : c = b \o <<".">>
    OBVIOUS
<1>4. x = c \o s
    BY <1>1, <1>2, <1>3 DEF Hook!Dot
<1>5. a \in Seq(T) /\ Len(a) = 2 /\ a[1] = h /\ a[2] = "."
    BY <1>1
<1>6. /\ b \in Seq(T) /\ Len(b) = Len(u) + 2 /\ b[1] = h /\ b[2] = "."
      /\ \A k \in 1 .. Len(u) : b[2 + k] = u[k]
    <2>1. b \in Seq(T) /\ Join(a, u, b)
        BY <1>2, <1>5, Joined
    <2>2. 1 \in 1 .. 2 /\ 2 \in 1 .. 2 /\ Len(u) \in Nat
        OBVIOUS
    <2> QED BY <1>5, <2>1, <2>2 DEF Join
<1>7. /\ c \in Seq(T) /\ Len(c) = Len(u) + 3 /\ c[1] = h /\ c[2] = "." /\ c[Len(u) + 3] = "."
      /\ \A k \in 1 .. Len(u) : c[2 + k] = u[k]
    <2>1. PICK y : y = <<".">>
        OBVIOUS
    <2>3. y \in Seq(T) /\ Len(y) = 1 /\ y[1] = "." /\ Len(u) \in Nat
        BY <2>1
    <2>10. c \in Seq(T) /\ Join(b, y, c)
        BY <1>3, <1>6, <2>1, <2>3, Joined
    <2>2. /\ c \in Seq(T) /\ Len(c) = Len(b) + Len(y)
          /\ \A k \in 1 .. Len(b) : c[k] = b[k]
          /\ \A k \in 1 .. Len(y) : c[Len(b) + k] = y[k]
        BY <2>10 DEF Join
    <2>4. \A k \in 1 .. Len(u) : 2 + k \in 1 .. Len(b)
        BY <1>6, <2>3
    <2>5. 1 \in 1 .. Len(b) /\ 2 \in 1 .. Len(b) /\ 1 \in 1 .. Len(y) /\ Len(b) + 1 = Len(u) + 3
        BY <1>6, <2>3
    <2>6. c[Len(b) + 1] = "."
        BY <2>2, <2>3, <2>5
    <2>7. c[1] = h /\ c[2] = "."
        BY <1>6, <2>2, <2>5
    <2>8. \A k \in 1 .. Len(u) : c[2 + k] = u[k]
        BY <1>6, <2>2, <2>4
    <2>9. Len(c) = Len(u) + 3
        BY <1>6, <2>2, <2>3
    <2> QED BY <2>2, <2>5, <2>6, <2>7, <2>8, <2>9
<1>8. /\ x \in Seq(T) /\ Len(x) = Len(c) + Len(s)
      /\ \A k \in 1 .. Len(c) : x[k] = c[k]
      /\ \A k \in 1 .. Len(s) : x[Len(c) + k] = s[k]
    <2>1. x \in Seq(T) /\ Join(c, s, x)
        BY <1>4, <1>7, Joined
    <2> QED BY <2>1 DEF Join
<1>9. Len(u) \in Nat /\ Len(s) \in Nat
    OBVIOUS
<1>10. /\ 1 \in 1 .. Len(c) /\ 2 \in 1 .. Len(c) /\ Len(u) + 3 \in 1 .. Len(c)
       /\ \A k \in 1 .. Len(u) : 2 + k \in 1 .. Len(c)
    BY <1>7, <1>9
<1>11. x[1] = h /\ x[2] = "." /\ x[Len(u) + 3] = "." /\ \A k \in 1 .. Len(u) : x[2 + k] = u[k]
    BY <1>7, <1>8, <1>10
<1>12. Len(x) = Len(u) + Len(s) + 3 /\ \A k \in 1 .. Len(s) : x[Len(u) + 3 + k] = s[k]
    BY <1>7, <1>8, <1>9
<1> QED BY <1>8, <1>11, <1>12 DEF Dotted

(* Where an index of harness.user.session falls.                           *)
LEMMA Places3 ==
    ASSUME NEW p \in Nat, NEW q \in Nat, NEW k \in 1 .. (p + q + 3)
    PROVE  \/ k \in {1, 2, p + 3}
           \/ \E j \in 1 .. p : k = 2 + j
           \/ \E j \in 1 .. q : k = p + 3 + j
<1>1. CASE k <= 2
    BY <1>1
<1>2. CASE k > 2 /\ k < p + 3
    <2>1. k - 2 \in 1 .. p /\ k = 2 + (k - 2)
        BY <1>2
    <2> QED BY <2>1
<1>3. CASE k = p + 3
    BY <1>3
<1>4. CASE k > p + 3
    <2>1. k - p - 3 \in 1 .. q /\ k = p + 3 + (k - p - 3)
        BY <1>4
    <2> QED BY <2>1
<1> QED BY <1>1, <1>2, <1>3, <1>4

NoDots(v) == \A k \in 1 .. Len(v) : v[k] # "."

LEMMA ParseMainThread ==
    ASSUME NEW T, "." \in T, NEW h \in T, h # ".", NEW u \in Seq(T), NEW s \in Seq(T),
           NoDots(u), NoDots(s), NEW x, x = <<h>> \o Hook!Dot \o u \o Hook!Dot \o s
    PROVE  Hook!Parse(x) = [harness |-> h, user |-> u, session |-> s, sub |-> None]
<1>1. /\ x \in Seq(T) /\ Len(x) = Len(u) + Len(s) + 3
      /\ x[1] = h /\ x[2] = "." /\ x[Len(u) + 3] = "."
      /\ \A k \in 1 .. Len(u) : x[2 + k] = u[k]
      /\ \A k \in 1 .. Len(s) : x[Len(u) + 3 + k] = s[k]
    <2>1. x \in Seq(T) /\ Dotted(h, u, s, x)
        BY MainThreadId
    <2> QED BY <2>1 DEF Dotted
<1>2. PICK p, q \in Nat : p = Len(u) /\ q = Len(s)
    OBVIOUS
<1>3. PICK d : d = [a \in 1 .. 2 |-> IF a = 1 THEN 2 ELSE p + 3]
    OBVIOUS
<1>4. d \in [1 .. 2 -> Nat] /\ d[1] = 2 /\ d[2] = p + 3
    BY <1>2, <1>3
<1>5. Increasing(2, d)
    BY <1>2, <1>4 DEF Increasing
<1>6. {k \in 1 .. Len(x) : x[k] = "."} = {2, p + 3}
    <2>1. ASSUME NEW k \in 1 .. Len(x), x[k] = "." PROVE k \in {2, p + 3}
        <3>1. k \in 1 .. (p + q + 3)
            BY <1>1, <1>2
        <3>2. ASSUME NEW j \in 1 .. p PROVE x[2 + j] # "."
            BY <1>1, <1>2 DEF NoDots
        <3>3. ASSUME NEW j \in 1 .. q PROVE x[p + 3 + j] # "."
            BY <1>1, <1>2 DEF NoDots
        <3>4. \/ k \in {1, 2, p + 3}
              \/ \E j \in 1 .. p : k = 2 + j
              \/ \E j \in 1 .. q : k = p + 3 + j
            BY <1>2, <3>1, Places3
        <3> QED BY <1>1, <2>1, <3>2, <3>3, <3>4
    <2>2. 2 \in 1 .. Len(x) /\ p + 3 \in 1 .. Len(x) /\ x[2] = "." /\ x[p + 3] = "."
        BY <1>1, <1>2
    <2> QED BY <2>1, <2>2
<1>7. Members(2, d) = {2, p + 3}
    BY <1>4 DEF Members
<1>8. PICK parts : parts = Hook!SplitAtDots(x)
    OBVIOUS
<1>9. Split(x, 2, d, parts)
    <2>1. PICK n \in Nat \ {0} : n = 2
        OBVIOUS
    <2>2. /\ d \in [1 .. n -> Nat] /\ Increasing(n, d)
          /\ {k \in 1 .. Len(x) : x[k] = "."} = Members(n, d)
        BY <1>4, <1>5, <1>6, <1>7, <2>1, Zenon
    <2>3. Split(x, n, d, parts)
        BY <1>1, <1>8, <2>2, SplitParts
    <2> QED BY <2>1, <2>3
<1>10. parts[1] = SubSeq(x, 0 + 1, 2 - 1) /\ parts[2] = SubSeq(x, 2 + 1, (p + 3) - 1)
       /\ parts[3] = SubSeq(x, (p + 3) + 1, (Len(x) + 1) - 1) /\ Len(parts) = 3
    <2>1. 1 \in 1 .. (2 + 1) /\ 2 \in 1 .. (2 + 1) /\ 3 \in 1 .. (2 + 1)
        OBVIOUS
    <2>2. From(d, 1) = 0 /\ From(d, 2) = 2 /\ From(d, 3) = p + 3
        BY <1>4 DEF From
    <2>3. To(x, 2, d, 1) = 2 /\ To(x, 2, d, 2) = p + 3 /\ To(x, 2, d, 3) = Len(x) + 1
        BY <1>4 DEF To
    <2>4. /\ Len(parts) = 2 + 1
          /\ \A m \in 1 .. (2 + 1) : parts[m] = SubSeq(x, From(d, m) + 1, To(x, 2, d, m) - 1)
        BY <1>9, Zenon DEF Split
    <2>5. parts[1] = SubSeq(x, 0 + 1, 2 - 1)
        BY <2>1, <2>2, <2>3, <2>4, Zenon
    <2>6. parts[2] = SubSeq(x, 2 + 1, (p + 3) - 1)
        BY <2>1, <2>2, <2>3, <2>4, Zenon
    <2>7. parts[3] = SubSeq(x, (p + 3) + 1, (Len(x) + 1) - 1)
        BY <2>1, <2>2, <2>3, <2>4, Zenon
    <2>8. Len(parts) = 3
        BY <2>4
    <2> QED BY <2>5, <2>6, <2>7, <2>8
<1>11. parts[1] = <<h>>
    <2>1. SubSeq(x, 0 + 1, 0 + Len(<<h>>)) = <<h>>
        <3>1. PICK y : y = <<h>>
            OBVIOUS
        <3>2. /\ y \in Seq(T) /\ Len(y) = 1 /\ 0 + Len(y) <= Len(x)
              /\ \A k \in 1 .. Len(y) : x[0 + k] = y[k]
            BY <1>1, <1>2, <3>1
        <3>3. SubSeq(x, 0 + 1, 0 + Len(y)) = y
            BY <1>1, <3>2, Extracted
        <3> QED BY <3>1, <3>3
    <2>2. 0 + Len(<<h>>) = 2 - 1
        OBVIOUS
    <2> QED BY <1>10, <2>1, <2>2
<1>12. parts[2] = u
    <2>1. SubSeq(x, 2 + 1, 2 + Len(u)) = u
        BY <1>1, <1>2, Extracted
    <2>2. 2 + Len(u) = (p + 3) - 1
        BY <1>2
    <2> QED BY <1>10, <2>1, <2>2
<1>13. parts[3] = s
    <2>1. SubSeq(x, (p + 3) + 1, (p + 3) + Len(s)) = s
        <3>1. PICK o \in Nat : o = p + 3
            BY <1>2
        <3>2. o + Len(s) <= Len(x) /\ \A k \in 1 .. Len(s) : x[o + k] = s[k]
            BY <1>1, <1>2, <3>1
        <3>3. SubSeq(x, o + 1, o + Len(s)) = s
            BY <1>1, <3>2, Extracted
        <3> QED BY <3>1, <3>3
    <2>2. (Len(x) + 1) - 1 = (p + 3) + Len(s)
        BY <1>1, <1>2
    <2> QED BY <1>10, <2>1, <2>2
<1> QED BY <1>8, <1>10, <1>11, <1>12, <1>13 DEF Hook!Parse
(* An id of a subagent goes on with .agent.sub.                            *)
Suffix(w, z) ==
    /\ Len(z) = Len(w) + 3
    /\ z[1] = "." /\ z[2] = "agent" /\ z[3] = "."
    /\ \A k \in 1 .. Len(w) : z[3 + k] = w[k]

LEMMA SubagentSuffix ==
    ASSUME NEW T, "." \in T, "agent" \in T, NEW w \in Seq(T),
           NEW z, z = Hook!Dot \o <<"agent">> \o Hook!Dot \o w
    PROVE  z \in Seq(T) /\ Suffix(w, z)
<1>1. PICK a : a = <<".">> \o <<"agent">>
    OBVIOUS
<1>2. PICK b : b = a \o <<".">>
    OBVIOUS
<1>3. z = b \o w
    BY <1>1, <1>2 DEF Hook!Dot
<1>4. a \in Seq(T) /\ Len(a) = 2 /\ a[1] = "." /\ a[2] = "agent"
    BY <1>1
<1>5. b \in Seq(T) /\ Len(b) = 3 /\ b[1] = "." /\ b[2] = "agent" /\ b[3] = "."
    <2>1. PICK y : y = <<".">>
        OBVIOUS
    <2>2. y \in Seq(T) /\ Len(y) = 1 /\ y[1] = "."
        BY <2>1
    <2>3. b \in Seq(T) /\ Join(a, y, b)
        BY <1>2, <1>4, <2>1, <2>2, Joined
    <2>4. 1 \in 1 .. 2 /\ 2 \in 1 .. 2 /\ 1 \in 1 .. 1 /\ 2 + 1 = 3
        OBVIOUS
    <2> QED BY <1>4, <2>2, <2>3, <2>4 DEF Join
<1>6. z \in Seq(T) /\ Join(b, w, z)
    BY <1>3, <1>5, Joined
<1>7. 1 \in 1 .. 3 /\ 2 \in 1 .. 3 /\ 3 \in 1 .. 3 /\ Len(w) \in Nat
    OBVIOUS
<1> QED BY <1>5, <1>6, <1>7 DEF Join, Suffix

SubDotted(h, u, s, w, x) ==
    /\ Len(x) = Len(u) + Len(s) + Len(w) + 6
    /\ x[1] = h /\ x[2] = "." /\ x[Len(u) + 3] = "."
    /\ x[Len(u) + Len(s) + 4] = "." /\ x[Len(u) + Len(s) + 5] = "agent"
    /\ x[Len(u) + Len(s) + 6] = "."
    /\ \A k \in 1 .. Len(u) : x[2 + k] = u[k]
    /\ \A k \in 1 .. Len(s) : x[Len(u) + 3 + k] = s[k]
    /\ \A k \in 1 .. Len(w) : x[Len(u) + Len(s) + 6 + k] = w[k]

LEMMA SubagentId ==
    ASSUME NEW T, "." \in T, "agent" \in T, NEW h \in T, NEW u \in Seq(T), NEW s \in Seq(T),
           NEW w \in Seq(T), NEW x,
           x = <<h>> \o Hook!Dot \o u \o Hook!Dot \o s
                 \o (Hook!Dot \o <<"agent">> \o Hook!Dot \o w)
    PROVE  x \in Seq(T) /\ SubDotted(h, u, s, w, x)
<1>1. PICK y : y = <<h>> \o Hook!Dot \o u \o Hook!Dot \o s
    OBVIOUS
<1>2. PICK z : z = Hook!Dot \o <<"agent">> \o Hook!Dot \o w
    OBVIOUS
<1>3. x = y \o z
    BY <1>1, <1>2, Zenon
<1>4. y \in Seq(T) /\ Dotted(h, u, s, y)
    BY <1>1, MainThreadId
<1>5. z \in Seq(T) /\ Suffix(w, z)
    BY <1>2, SubagentSuffix
<1>6. x \in Seq(T) /\ Join(y, z, x)
    BY <1>3, <1>4, <1>5, Joined
<1>7. PICK p, q, r \in Nat : p = Len(u) /\ q = Len(s) /\ r = Len(w)
    OBVIOUS
<1>8. /\ Len(y) = p + q + 3 /\ Len(z) = r + 3
      /\ \A k \in 1 .. (p + q + 3) : x[k] = y[k]
      /\ \A k \in 1 .. (r + 3) : x[(p + q + 3) + k] = z[k]
    BY <1>4, <1>5, <1>6, <1>7 DEF Join, Dotted, Suffix
<1>9. Len(x) = p + q + r + 6
    BY <1>6, <1>8 DEF Join
<1>10. x[1] = h /\ x[2] = "." /\ x[p + 3] = "."
    <2>1. 1 \in 1 .. (p + q + 3) /\ 2 \in 1 .. (p + q + 3) /\ p + 3 \in 1 .. (p + q + 3)
        OBVIOUS
    <2> QED BY <1>4, <1>7, <1>8, <2>1 DEF Dotted
<1>11. \A k \in 1 .. p : x[2 + k] = u[k]
    <2>1. \A k \in 1 .. p : 2 + k \in 1 .. (p + q + 3)
        OBVIOUS
    <2> QED BY <1>4, <1>7, <1>8, <2>1 DEF Dotted
<1>12. \A k \in 1 .. q : x[p + 3 + k] = s[k]
    <2>1. \A k \in 1 .. q : p + 3 + k \in 1 .. (p + q + 3)
        OBVIOUS
    <2> QED BY <1>4, <1>7, <1>8, <2>1 DEF Dotted
<1>13. x[p + q + 4] = "." /\ x[p + q + 5] = "agent" /\ x[p + q + 6] = "."
    <2>1. 1 \in 1 .. (r + 3) /\ 2 \in 1 .. (r + 3) /\ 3 \in 1 .. (r + 3)
        OBVIOUS
    <2>2. z[1] = "." /\ z[2] = "agent" /\ z[3] = "."
        BY <1>5 DEF Suffix
    <2>3. x[(p + q + 3) + 1] = "." /\ x[(p + q + 3) + 2] = "agent" /\ x[(p + q + 3) + 3] = "."
        BY <1>8, <2>1, <2>2
    <2>4. (p + q + 3) + 1 = p + q + 4 /\ (p + q + 3) + 2 = p + q + 5 /\ (p + q + 3) + 3 = p + q + 6
        OBVIOUS
    <2> QED BY <2>3, <2>4
<1>14. \A k \in 1 .. r : x[p + q + 6 + k] = w[k]
    <2>1. ASSUME NEW k \in 1 .. r PROVE x[p + q + 6 + k] = w[k]
        <3>1. 3 + k \in 1 .. (r + 3) /\ (p + q + 3) + (3 + k) = p + q + 6 + k
            OBVIOUS
        <3>2. z[3 + k] = w[k]
            BY <1>5, <1>7 DEF Suffix
        <3> QED BY <1>8, <3>1, <3>2
    <2> QED BY <2>1
<1>15. SubDotted(h, u, s, w, x)
    BY <1>7, <1>9, <1>10, <1>11, <1>12, <1>13, <1>14 DEF SubDotted
<1> QED BY <1>6, <1>15

(* Where an index of harness.user.session.agent.sub falls.                 *)
LEMMA Places5 ==
    ASSUME NEW p \in Nat, NEW q \in Nat, NEW r \in Nat, NEW k \in 1 .. (p + q + r + 6)
    PROVE  \/ k \in {1, 2, p + 3, p + q + 4, p + q + 5, p + q + 6}
           \/ \E j \in 1 .. p : k = 2 + j
           \/ \E j \in 1 .. q : k = p + 3 + j
           \/ \E j \in 1 .. r : k = p + q + 6 + j
<1>1. CASE k <= p + q + 3
    <2>1. k \in 1 .. (p + q + 3)
        BY <1>1
    <2> QED BY <2>1, Places3
<1>2. CASE k > p + q + 3 /\ k <= p + q + 6
    BY <1>2
<1>3. CASE k > p + q + 6
    <2>1. k - p - q - 6 \in 1 .. r /\ k = p + q + 6 + (k - p - q - 6)
        BY <1>3
    <2> QED BY <2>1
<1> QED BY <1>1, <1>2, <1>3

LEMMA ParseSubagent ==
    ASSUME NEW T, "." \in T, "agent" \in T, NEW h \in T, h # ".",
           NEW u \in Seq(T), NEW s \in Seq(T), NEW w \in Seq(T),
           NoDots(u), NoDots(s), NoDots(w), NEW x,
           x = <<h>> \o Hook!Dot \o u \o Hook!Dot \o s
                 \o (Hook!Dot \o <<"agent">> \o Hook!Dot \o w)
    PROVE  Hook!Parse(x) = [harness |-> h, user |-> u, session |-> s, sub |-> w]
<1>0. x \in Seq(T) /\ SubDotted(h, u, s, w, x)
    BY SubagentId
<1>2. PICK p, q, r \in Nat : p = Len(u) /\ q = Len(s) /\ r = Len(w)
    OBVIOUS
<1>1. /\ Len(x) = p + q + r + 6
      /\ x[1] = h /\ x[2] = "." /\ x[p + 3] = "."
      /\ x[p + q + 4] = "." /\ x[p + q + 5] = "agent" /\ x[p + q + 6] = "."
      /\ \A k \in 1 .. p : x[2 + k] = u[k]
      /\ \A k \in 1 .. q : x[p + 3 + k] = s[k]
      /\ \A k \in 1 .. r : x[p + q + 6 + k] = w[k]
    BY <1>0, <1>2 DEF SubDotted
<1>3. PICK d : d = [a \in 1 .. 4 |-> IF a = 1 THEN 2 ELSE IF a = 2 THEN p + 3
                                     ELSE IF a = 3 THEN p + q + 4 ELSE p + q + 6]
    OBVIOUS
<1>4. d \in [1 .. 4 -> Nat] /\ d[1] = 2 /\ d[2] = p + 3 /\ d[3] = p + q + 4 /\ d[4] = p + q + 6
    BY <1>2, <1>3
<1>5. Increasing(4, d)
    <2>1. 1 .. 4 = {1, 2, 3, 4}
        OBVIOUS
    <2> QED BY <1>2, <1>4, <2>1 DEF Increasing
<1>6. {k \in 1 .. Len(x) : x[k] = "."} = {2, p + 3, p + q + 4, p + q + 6}
    <2>1. ASSUME NEW k \in 1 .. Len(x), x[k] = "." PROVE k \in {2, p + 3, p + q + 4, p + q + 6}
        <3>1. k \in 1 .. (p + q + r + 6)
            BY <1>1
        <3>2. ASSUME NEW j \in 1 .. p PROVE x[2 + j] # "."
            BY <1>1, <1>2 DEF NoDots
        <3>3. ASSUME NEW j \in 1 .. q PROVE x[p + 3 + j] # "."
            BY <1>1, <1>2 DEF NoDots
        <3>4. ASSUME NEW j \in 1 .. r PROVE x[p + q + 6 + j] # "."
            BY <1>1, <1>2 DEF NoDots
        <3>5. \/ k \in {1, 2, p + 3, p + q + 4, p + q + 5, p + q + 6}
              \/ \E j \in 1 .. p : k = 2 + j
              \/ \E j \in 1 .. q : k = p + 3 + j
              \/ \E j \in 1 .. r : k = p + q + 6 + j
            <4>1. p \in Nat /\ q \in Nat /\ r \in Nat
                BY <1>2
            <4> QED BY <3>1, <4>1, Places5
        <3> QED BY <1>1, <2>1, <3>2, <3>3, <3>4, <3>5
    <2>2. /\ 2 \in 1 .. Len(x) /\ p + 3 \in 1 .. Len(x) /\ p + q + 4 \in 1 .. Len(x)
          /\ p + q + 6 \in 1 .. Len(x)
        <3>1. PICK l : l = Len(x) /\ l = p + q + r + 6
            BY <1>1
        <3>2. /\ 2 \in 1 .. l /\ p + 3 \in 1 .. l /\ p + q + 4 \in 1 .. l /\ p + q + 6 \in 1 .. l
            <4>1. p \in Nat /\ q \in Nat /\ r \in Nat
                BY <1>2
            <4> QED BY <3>1, <4>1
        <3> QED BY <3>1, <3>2, Zenon
    <2> QED BY <1>1, <2>1, <2>2
<1>7. Members(4, d) = {2, p + 3, p + q + 4, p + q + 6}
    <2>1. 1 .. 4 = {1, 2, 3, 4}
        OBVIOUS
    <2> QED BY <1>4, <2>1 DEF Members
<1>8. PICK parts : parts = Hook!SplitAtDots(x)
    OBVIOUS
<1>9. Split(x, 4, d, parts)
    <2>1. PICK n \in Nat \ {0} : n = 4
        OBVIOUS
    <2>2. /\ d \in [1 .. n -> Nat] /\ Increasing(n, d)
          /\ {k \in 1 .. Len(x) : x[k] = "."} = Members(n, d)
        BY <1>4, <1>5, <1>6, <1>7, <2>1, Zenon
    <2>3. Split(x, n, d, parts)
        BY <1>0, <1>8, <2>2, SplitParts
    <2> QED BY <2>1, <2>3
<1>10. /\ Len(parts) = 5 /\ parts[1] = SubSeq(x, 0 + 1, 2 - 1)
       /\ parts[2] = SubSeq(x, 2 + 1, (p + 3) - 1)
       /\ parts[3] = SubSeq(x, (p + 3) + 1, (p + q + 4) - 1)
       /\ parts[4] = SubSeq(x, (p + q + 4) + 1, (p + q + 6) - 1)
       /\ parts[5] = SubSeq(x, (p + q + 6) + 1, (Len(x) + 1) - 1)
    <2>1. /\ 1 \in 1 .. (4 + 1) /\ 2 \in 1 .. (4 + 1) /\ 3 \in 1 .. (4 + 1)
          /\ 4 \in 1 .. (4 + 1) /\ 5 \in 1 .. (4 + 1)
        OBVIOUS
    <2>2. /\ From(d, 1) = 0 /\ From(d, 2) = 2 /\ From(d, 3) = p + 3 /\ From(d, 4) = p + q + 4
          /\ From(d, 5) = p + q + 6
        BY <1>4 DEF From
    <2>3. /\ To(x, 4, d, 1) = 2 /\ To(x, 4, d, 2) = p + 3 /\ To(x, 4, d, 3) = p + q + 4
          /\ To(x, 4, d, 4) = p + q + 6 /\ To(x, 4, d, 5) = Len(x) + 1
        BY <1>4 DEF To
    <2>4. /\ Len(parts) = 4 + 1
          /\ \A m \in 1 .. (4 + 1) : parts[m] = SubSeq(x, From(d, m) + 1, To(x, 4, d, m) - 1)
        BY <1>9, Zenon DEF Split
    <2>5. parts[1] = SubSeq(x, 0 + 1, 2 - 1)
        BY <2>1, <2>2, <2>3, <2>4, Zenon
    <2>6. parts[2] = SubSeq(x, 2 + 1, (p + 3) - 1)
        BY <2>1, <2>2, <2>3, <2>4, Zenon
    <2>7. parts[3] = SubSeq(x, (p + 3) + 1, (p + q + 4) - 1)
        BY <2>1, <2>2, <2>3, <2>4, Zenon
    <2>8. parts[4] = SubSeq(x, (p + q + 4) + 1, (p + q + 6) - 1)
        BY <2>1, <2>2, <2>3, <2>4, Zenon
    <2>9. parts[5] = SubSeq(x, (p + q + 6) + 1, (Len(x) + 1) - 1)
        BY <2>1, <2>2, <2>3, <2>4, Zenon
    <2>10. Len(parts) = 5
        BY <2>4
    <2> QED BY <2>5, <2>6, <2>7, <2>8, <2>9, <2>10
<1>11. parts[1] = <<h>>
    <2>1. PICK y : y = <<h>>
        OBVIOUS
    <2>2. /\ y \in Seq(T) /\ Len(y) = 1 /\ 0 + Len(y) <= Len(x)
          /\ \A k \in 1 .. Len(y) : x[0 + k] = y[k]
        BY <1>1, <1>2, <2>1
    <2>3. SubSeq(x, 0 + 1, 0 + Len(y)) = y
        BY <1>0, <2>2, Extracted
    <2>4. 0 + Len(y) = 2 - 1
        BY <2>2
    <2> QED BY <1>10, <2>1, <2>3, <2>4
<1>12. parts[2] = u
    <2>1. SubSeq(x, 2 + 1, 2 + Len(u)) = u
        <3>1. PICK o \in Nat : o = 2
            OBVIOUS
        <3>2. o + Len(u) <= Len(x)
            BY <1>1, <1>2, <3>1
        <3>3. \A k \in 1 .. Len(u) : x[o + k] = u[k]
            BY <1>1, <1>2, <3>1, Zenon
        <3>4. SubSeq(x, o + 1, o + Len(u)) = u
            BY <1>0, <3>2, <3>3, Extracted
        <3> QED BY <3>1, <3>4
    <2>2. 2 + Len(u) = (p + 3) - 1
        BY <1>2
    <2> QED BY <1>10, <2>1, <2>2
<1>13. parts[3] = s
    <2>1. PICK o \in Nat : o = p + 3
        BY <1>2
    <2>2. o + Len(s) <= Len(x)
        BY <1>1, <1>2, <2>1
    <2>5. \A k \in 1 .. Len(s) : x[o + k] = s[k]
        BY <1>1, <1>2, <2>1, Zenon
    <2>3. SubSeq(x, o + 1, o + Len(s)) = s
        BY <1>0, <2>2, <2>5, Extracted
    <2>4. o + Len(s) = (p + q + 4) - 1
        BY <1>2, <2>1
    <2> QED BY <1>10, <2>1, <2>3, <2>4
<1>14. parts[4] = <<"agent">>
    <2>1. PICK y : y = <<"agent">>
        OBVIOUS
    <2>2. PICK o \in Nat : o = p + q + 4
        BY <1>2
    <2>3. o + 1 = p + q + 5
        BY <1>2, <2>2
    <2>4. y \in Seq(T) /\ Len(y) = 1 /\ y[1] = "agent"
        BY <2>1
    <2>7. x[o + 1] = "agent"
        BY <1>1, <2>3, Zenon
    <2>8. o + Len(y) <= Len(x)
        BY <1>1, <1>2, <2>2, <2>4
    <2>9. \A k \in 1 .. Len(y) : x[o + k] = y[k]
        <3>1. 1 .. Len(y) = {1}
            BY <2>4
        <3> QED BY <2>4, <2>7, <3>1, Zenon
    <2>5. SubSeq(x, o + 1, o + Len(y)) = y
        BY <1>0, <2>4, <2>8, <2>9, Extracted
    <2>6. o + Len(y) = (p + q + 6) - 1
        BY <1>2, <2>2, <2>4
    <2> QED BY <1>10, <2>1, <2>2, <2>5, <2>6
<1>15. parts[5] = w
    <2>1. PICK o \in Nat : o = p + q + 6
        BY <1>2
    <2>2. o + Len(w) <= Len(x)
        BY <1>1, <1>2, <2>1
    <2>5. \A k \in 1 .. Len(w) : x[o + k] = w[k]
        BY <1>1, <1>2, <2>1, Zenon
    <2>3. SubSeq(x, o + 1, o + Len(w)) = w
        BY <1>0, <2>2, <2>5, Extracted
    <2>4. o + Len(w) = (Len(x) + 1) - 1
        BY <1>1, <1>2, <2>1
    <2> QED BY <1>10, <2>1, <2>3, <2>4
<1>16. Len(parts) = 5 /\ Len(parts) # 3
    BY <1>10
<1>17. parts[1][1] = h
    BY <1>11
<1> QED BY <1>8, <1>12, <1>13, <1>14, <1>15, <1>16, <1>17, Zenon DEF Hook!Parse

(* Display is undone by Parse on what try_new accepts.                     *)
LEMMA ParseDisplay ==
    ASSUME Hook!HooksAssumption, NEW i \in Inputs, Hook!ValidIdentity(Hook!Identity(i))
    PROVE  Hook!Parse(Hook!Display(Hook!Identity(i))) = Hook!Identity(i)
<1>1. PICK j : j = Hook!Identity(i)
    OBVIOUS
<1>2. PICK S, T : S = STRING /\ T = S \cup Hook!Harnesses \cup {".", "agent"}
    OBVIOUS
<1>3. /\ "." \in T /\ "agent" \in T /\ i.harness \in T /\ i.harness # "."
      /\ i.user \in Seq(T) /\ i.session \in Seq(T) /\ i.sub \in Seq(T) \cup {None}
    <2>1. /\ i.harness \in Hook!Harnesses
          /\ i.user \in Seq(S) /\ i.session \in Seq(S) /\ i.sub \in Seq(S) \cup {None}
        BY <1>2, Zenon DEF Hook!HooksAssumption
    <2>2. S \subseteq T
        BY <1>2
    <2>3. ASSUME NEW x \in Seq(S) PROVE x \in Seq(T)
        BY <2>2
    <2>4. i.harness \in T /\ i.harness # "."
        BY <1>2, <2>1 DEF Hook!Harnesses
    <2>5. "." \in T /\ "agent" \in T
        BY <1>2
    <2> QED BY <2>1, <2>3, <2>4, <2>5
<1>4. PICK w : w = IF i.sub = <<>> THEN None ELSE i.sub
    OBVIOUS
<1>5. j = [harness |-> i.harness, user |-> i.user, session |-> i.session, sub |-> w]
    BY <1>1, <1>4, Zenon DEF Hook!Identity
<1>6. j.harness = i.harness /\ j.user = i.user /\ j.session = i.session /\ j.sub = w
    BY <1>5
<1>7. NoDots(i.user) /\ NoDots(i.session) /\ (w # None => NoDots(w))
    BY <1>1, <1>6 DEF Hook!ValidIdentity, Hook!EnsureComponent, NoDots
<1>8. PICK x : x = Hook!Display(j)
    OBVIOUS
<1>9. CASE w = None
    <2>1. x = <<i.harness>> \o Hook!Dot \o i.user \o Hook!Dot \o i.session \o <<>>
        BY <1>6, <1>8, <1>9, Zenon DEF Hook!Display
    <2>2. PICK y : y = <<i.harness>> \o Hook!Dot \o i.user \o Hook!Dot \o i.session
        OBVIOUS
    <2>3. y \in Seq(T)
        BY <1>3, <2>2, MainThreadId
    <2>4. x = y
        BY <2>1, <2>2, <2>3
    <2>5. Hook!Parse(y) = [harness |-> i.harness, user |-> i.user, session |-> i.session, sub |-> None]
        BY <1>3, <1>7, <2>2, ParseMainThread
    <2> QED BY <1>1, <1>5, <1>8, <1>9, <2>4, <2>5, Zenon
<1>10. CASE w # None
    <2>1. w \in Seq(T) /\ NoDots(w)
        BY <1>3, <1>4, <1>7, <1>10
    <2>2. x = <<i.harness>> \o Hook!Dot \o i.user \o Hook!Dot \o i.session
                \o (Hook!Dot \o <<"agent">> \o Hook!Dot \o w)
        BY <1>6, <1>8, <1>10, Zenon DEF Hook!Display
    <2>3. Hook!Parse(x) = [harness |-> i.harness, user |-> i.user, session |-> i.session, sub |-> w]
        <3>1. PICK h, u, s : h = i.harness /\ u = i.user /\ s = i.session
            OBVIOUS
        <3>2. /\ "." \in T /\ "agent" \in T /\ h \in T /\ h # "."
              /\ u \in Seq(T) /\ s \in Seq(T) /\ w \in Seq(T)
            BY <1>3, <2>1, <3>1, Zenon
        <3>3. NoDots(u) /\ NoDots(s) /\ NoDots(w)
            BY <1>7, <2>1, <3>1, Zenon
        <3>4. x = <<h>> \o Hook!Dot \o u \o Hook!Dot \o s
                    \o (Hook!Dot \o <<"agent">> \o Hook!Dot \o w)
            BY <2>2, <3>1, Zenon
        <3>5. Hook!Parse(x) = [harness |-> h, user |-> u, session |-> s, sub |-> w]
            BY <3>2, <3>3, <3>4, ParseSubagent, ZenonT(60)
        <3> QED BY <3>1, <3>5, Zenon
    <2> QED BY <1>1, <1>5, <1>8, <2>3, Zenon
<1> QED BY <1>9, <1>10

-----------------------------------------------------------------------------
(* Hooks.                                                                  *)

BusIds == {None} \cup {Hook!Display(Hook!Identity(i)) : i \in Inputs}
            \cup {Hook!Identity(i).session : i \in Inputs}

HookState ==
    [pc : {"off", "stdin", "dispatch", "exit"}, input : Inputs \cup {None}, id : BusIds,
     rpc : {"none", "sent", "served", "refused"}, reply : {None, "yes", "no"},
     answer : {None, "yes", "no", "error"}, enforced : {"pending", "on", "off"},
     code : {None, 0, 1}, out : {None, "ask", "deny"}, tool : {"waiting", "ran", "stopped"}]

(* The bus id of a harness's process displays what try_new accepted.       *)
IdFits(r) ==
    r.id # None /\ r.input.harness # "manual" =>
        /\ r.id = Hook!Display(Hook!Identity(r.input))
        /\ Hook!ValidIdentity(Hook!Identity(r.input))

(* A process's answer is the server's reply, and what it ends with fits it. *)
ProcessFits(r) ==
    /\ r \in HookState
    /\ r.pc # "off" => r.input \in Inputs
    /\ r.pc \in {"off", "stdin"} => r.rpc = "none" /\ r.id = None
    /\ IdFits(r)
    /\ r.answer \in {"yes", "no"} => r.rpc = "served" /\ r.answer = r.reply
    /\ r.code = 0 => r.pc = "exit" /\ r.answer \in {"yes", "no"}
    /\ r.pc = "exit" <=> r.code # None
    /\ r.code = 0 /\ r.input.harness = "manual" => r.answer = "yes"
    /\ r.code = 0 /\ r.input.harness # "manual" =>
         r.enforced # "pending" /\ r.out = Hook!OutputOf(r)
    /\ r.tool = "ran" => r.pc = "exit" /\ r.out = None

(* The entry a served request has left.                                    *)
EntryOf(e, r) ==
    /\ r.rpc = "served" /\ e.id = r.id
    /\ r.reply = IF e.ok THEN "yes" ELSE "no"
    /\ ~ e.ok => Hook!Request(r.input.event) = "intention"

HooksInv ==
    /\ DOMAIN hook = Hooks
    /\ \A h \in Hooks : ProcessFits(hook[h])
    /\ \A e \in bus : e.h \in Hooks /\ EntryOf(e, hook[e.h])
    /\ \A h \in Hooks : hook[h].rpc = "served" => \E e \in bus : e.h = h
    /\ Hook!OneEntryPerHook

(* A step of one process that leaves no entry: it still fits, and its      *)
(* request is no further than it was.                                      *)
LEMMA OwnStep ==
    ASSUME HooksInv, NEW h \in Hooks, NEW r, Hook!Set(h, r), UNCHANGED bus, ProcessFits(r),
           r.rpc = "served" <=> hook[h].rpc = "served",
           r.rpc = "served" => r.id = hook[h].id /\ r.reply = hook[h].reply
                               /\ r.input = hook[h].input
    PROVE  HooksInv'
<1>1. /\ DOMAIN hook' = Hooks /\ hook'[h] = r
      /\ \A g \in Hooks : g # h => hook'[g] = hook[g]
    BY DEF HooksInv, Hook!Set
<1>2. \A g \in Hooks : ProcessFits(hook'[g])
    BY <1>1 DEF HooksInv
<1>3. \A e \in bus : EntryOf(e, hook'[e.h])
    <2> SUFFICES ASSUME NEW e \in bus PROVE EntryOf(e, hook'[e.h])
        OBVIOUS
    <2>1. e.h \in Hooks /\ EntryOf(e, hook[e.h])
        BY DEF HooksInv
    <2>2. CASE e.h = h
        BY <1>1, <2>1, <2>2 DEF EntryOf
    <2> QED BY <1>1, <2>1, <2>2
<1>4. \A g \in Hooks : hook'[g].rpc = "served" => \E e \in bus : e.h = g
    BY <1>1 DEF HooksInv
<1>5. Hook!OneEntryPerHook' /\ \A e \in bus : e.h \in Hooks
    BY DEF HooksInv, Hook!OneEntryPerHook
<1> QED BY <1>1, <1>2, <1>3, <1>4, <1>5 DEF HooksInv

LEMMA ServeKeeps ==
    ASSUME HooksInv, NEW h \in Hooks, Hook!Serve(h)
    PROVE  HooksInv'
<1>1. PICK s \in HookState : s = hook[h] /\ ProcessFits(s) /\ s.rpc = "sent"
    BY DEF HooksInv, ProcessFits, Hook!Serve
<1>2. PICK e, r :
        /\ bus' = bus \cup {e} /\ e.h = h /\ e.id = s.id
        /\ ~ e.ok => Hook!Request(s.input.event) = "intention"
        /\ Hook!Set(h, r) /\ r = [s EXCEPT !.rpc = "served", !.reply = IF e.ok THEN "yes" ELSE "no"]
    <2>0. PICK n : \E ok \in IF Hook!Request(s.input.event) = "intention" THEN BOOLEAN ELSE {TRUE} :
            /\ bus' = bus \cup {[id |-> s.id, h |-> h, n |-> n, ok |-> ok]}
            /\ Hook!Set(h, [s EXCEPT !.rpc = "served", !.reply = IF ok THEN "yes" ELSE "no"])
        BY <1>1 DEF Hook!Serve
    <2>1. PICK ok \in IF Hook!Request(s.input.event) = "intention" THEN BOOLEAN ELSE {TRUE} :
            /\ bus' = bus \cup {[id |-> s.id, h |-> h, n |-> n, ok |-> ok]}
            /\ Hook!Set(h, [s EXCEPT !.rpc = "served", !.reply = IF ok THEN "yes" ELSE "no"])
        BY <2>0
    <2>2. ~ ok => Hook!Request(s.input.event) = "intention"
        BY <2>1
    <2>3. PICK e : e = [id |-> s.id, h |-> h, n |-> n, ok |-> ok]
        OBVIOUS
    <2>4. e.h = h /\ e.id = s.id /\ (e.ok <=> ok)
        BY <2>3
    <2>5. e.ok = ok
        BY <2>3
    <2> QED BY <2>1, <2>2, <2>3, <2>4, <2>5
<1>3. /\ r \in HookState /\ r.rpc = "served" /\ r.reply = (IF e.ok THEN "yes" ELSE "no")
      /\ r.pc = s.pc /\ r.input = s.input /\ r.id = s.id /\ r.answer = s.answer
      /\ r.enforced = s.enforced /\ r.code = s.code /\ r.out = s.out /\ r.tool = s.tool
    BY <1>2 DEF HookState
<1>4. s.answer \notin {"yes", "no"} /\ s.code # 0 /\ s.pc \notin {"off", "stdin"}
    BY <1>1 DEF ProcessFits
<1>5. ProcessFits(r)
    BY <1>1, <1>3, <1>4 DEF ProcessFits, IdFits
<1>6. /\ DOMAIN hook' = Hooks /\ hook'[h] = r
      /\ \A g \in Hooks : g # h => hook'[g] = hook[g]
    BY <1>2 DEF HooksInv, Hook!Set
<1>7. \A f \in bus : f.h \in Hooks /\ f.h # h /\ EntryOf(f, hook[f.h])
    BY <1>1 DEF HooksInv, EntryOf
<1>8. EntryOf(e, r)
    BY <1>2, <1>3 DEF EntryOf
<1>9. \A f \in bus' : f.h \in Hooks /\ EntryOf(f, hook'[f.h])
    BY <1>2, <1>6, <1>7, <1>8
<1>10. Hook!OneEntryPerHook'
    BY <1>2, <1>7 DEF HooksInv, Hook!OneEntryPerHook
<1>11. \A g \in Hooks : hook'[g].rpc = "served" => \E f \in bus' : f.h = g
    BY <1>2, <1>6 DEF HooksInv
<1>12. \A g \in Hooks : ProcessFits(hook'[g])
    BY <1>5, <1>6 DEF HooksInv
<1> QED BY <1>6, <1>9, <1>10, <1>11, <1>12 DEF HooksInv

LEMMA HooksInvInit == ASSUME Hook!HooksAssumption PROVE Hook!Init => HooksInv
<1> SUFFICES ASSUME Hook!Init PROVE HooksInv
    OBVIOUS
<1>1. None # 0 /\ None \notin {"yes", "no", "error"}
    BY DEF Hook!HooksAssumption
<1>2. Hook!Fresh \in HookState
    BY DEF Hook!Fresh, HookState, BusIds
<1>3. ProcessFits(Hook!Fresh) /\ Hook!Fresh.rpc = "none"
    BY <1>1, <1>2 DEF Hook!Fresh, ProcessFits, IdFits
<1> QED BY <1>3 DEF Hook!Init, HooksInv, Hook!OneEntryPerHook

(* What a process does by itself.                                          *)
LEMMA ProcessKeeps ==
    ASSUME Hook!HooksAssumption, HooksInv, NEW h \in Hooks,
           \/ \E i \in Inputs : Hook!Start(h, i)
           \/ Hook!Proceed(h) \/ Hook!Receive(h) \/ Hook!Enforce(h)
    PROVE  HooksInv'
<1>1. PICK s \in HookState : s = hook[h] /\ ProcessFits(s)
    BY DEF HooksInv, ProcessFits
<1>2. None \notin {"ask", "deny", "yes", "no", "error"} /\ None \notin {0, 1}
    BY DEF Hook!HooksAssumption
<1>3. CASE \E i \in Inputs : Hook!Start(h, i)
    <2>1. PICK i \in Inputs : Hook!Start(h, i)
        BY <1>3
    <2>2. UNCHANGED bus /\ s.pc = "off"
        BY <1>1, <2>1 DEF Hook!Start
    <2>3. CASE Hook!Set(h, [s EXCEPT !.pc = "stdin", !.input = i])
        <3>1. PICK r \in HookState : r = [s EXCEPT !.pc = "stdin", !.input = i]
            BY DEF HookState
        <3>2. ProcessFits(r) /\ r.rpc = "none" /\ s.rpc = "none"
            BY <1>1, <2>2, <3>1 DEF ProcessFits, HookState, IdFits
        <3> QED BY <1>1, <2>2, <2>3, <3>1, <3>2, OwnStep
    <2>4. CASE Hook!Set(h, [Hook!Failed(s) EXCEPT !.input = i])
        <3>1. PICK r \in HookState : r = [Hook!Failed(s) EXCEPT !.input = i]
            BY DEF HookState, Hook!Failed
        <3>2. ProcessFits(r) /\ r.rpc = "none" /\ s.rpc = "none"
            BY <1>1, <1>2, <2>2, <3>1 DEF ProcessFits, HookState, Hook!Failed, IdFits
        <3> QED BY <1>1, <2>2, <2>4, <3>1, <3>2, OwnStep
    <2> QED BY <1>1, <2>1, <2>3, <2>4 DEF Hook!Start
<1>4. ASSUME s.pc \in {"stdin", "dispatch"}, s.code # 0, Hook!Set(h, Hook!Failed(s)), UNCHANGED bus
      PROVE  HooksInv'
    <2>1. PICK r \in HookState : r = Hook!Failed(s)
        BY DEF HookState, Hook!Failed
    <2>2. ProcessFits(r) /\ r.rpc = s.rpc /\ r.id = s.id /\ r.reply = s.reply /\ r.input = s.input
        BY <1>1, <1>2, <1>4, <2>1 DEF ProcessFits, HookState, Hook!Failed, IdFits
    <2> QED BY <1>1, <1>4, <2>1, <2>2, OwnStep
<1>5. CASE Hook!Prepare(h)
    <2>1. s.pc = "stdin" /\ s.rpc = "none" /\ UNCHANGED bus /\ s.input \in Inputs /\ s.code # 0
        BY <1>1, <1>5 DEF Hook!Prepare, ProcessFits
    <2>2. ASSUME NEW id \in BusIds, NEW e \in {"on", s.enforced},
                 \/ s.input.harness = "manual"
                 \/ /\ id = Hook!Display(Hook!Identity(s.input))
                    /\ Hook!ValidIdentity(Hook!Identity(s.input)),
                 Hook!Set(h, [s EXCEPT !.pc = "dispatch", !.id = id, !.enforced = e])
          PROVE  HooksInv'
        <3>1. PICK r \in HookState : r = [s EXCEPT !.pc = "dispatch", !.id = id, !.enforced = e]
            BY DEF HookState
        <3>2. ProcessFits(r) /\ r.rpc = "none"
            <4>1. /\ r.pc = "dispatch" /\ r.id = id /\ r.enforced = e /\ r.input = s.input
                  /\ r.rpc = s.rpc /\ r.reply = s.reply /\ r.answer = s.answer
                  /\ r.code = s.code /\ r.out = s.out /\ r.tool = s.tool
                BY <3>1 DEF HookState
            <4>2. IdFits(r)
                BY <2>2, <4>1 DEF IdFits
            <4> QED BY <1>1, <2>1, <3>1, <4>1, <4>2 DEF ProcessFits
        <3> QED BY <1>1, <2>1, <2>2, <3>1, <3>2, OwnStep
    <2>3. \/ Hook!Set(h, Hook!Failed(s))
          \/ /\ Hook!ValidIdentity(Hook!Identity(s.input))
             /\ Hook!Set(h, [s EXCEPT !.pc = "dispatch", !.id = Hook!Display(Hook!Identity(s.input))])
          \/ /\ s.input.harness = "manual"
             /\ Hook!Set(h, [s EXCEPT !.pc = "dispatch", !.id = Hook!Identity(s.input).session,
                                      !.enforced = "on"])
        BY <1>1, <1>5 DEF Hook!Prepare
    <2>4. Hook!Display(Hook!Identity(s.input)) \in BusIds /\ Hook!Identity(s.input).session \in BusIds
        BY <2>1 DEF BusIds
    <2>5. \A id : [s EXCEPT !.pc = "dispatch", !.id = id]
                    = [s EXCEPT !.pc = "dispatch", !.id = id, !.enforced = s.enforced]
        BY DEF HookState
    <2> QED BY <1>4, <2>1, <2>2, <2>3, <2>4, <2>5
<1>6. ASSUME s.pc = "dispatch", UNCHANGED bus, NEW r \in HookState, Hook!Set(h, r),
             r.pc = "dispatch", r.input = s.input, r.id = s.id, r.reply = s.reply,
             r.code = s.code, r.tool = s.tool, r.out = s.out,
             r.rpc = "served" <=> s.rpc = "served",
             r.answer = s.answer \/ r.answer = "error" \/ (r.answer = s.reply /\ r.rpc = "served")
      PROVE  HooksInv'
    <2>1. s.code # 0 /\ s.tool # "ran"
        BY <1>1, <1>6 DEF ProcessFits
    <2>2. ProcessFits(r)
        BY <1>1, <1>6, <2>1 DEF ProcessFits, IdFits
    <2> QED BY <1>1, <1>6, <2>2, OwnStep
<1>7. CASE Hook!Dispatch(h) \/ Hook!FailRpc(h) \/ Hook!Receive(h) \/ Hook!Enforce(h)
    <2>1. s.pc = "dispatch" /\ UNCHANGED bus
        BY <1>1, <1>7 DEF Hook!Dispatch, Hook!FailRpc, Hook!Receive, Hook!Enforce
    <2>2. CASE Hook!Dispatch(h)
        <3>1. PICK r \in HookState : r = [s EXCEPT !.rpc = "sent"]
            BY DEF HookState
        <3>2. Hook!Set(h, r) /\ s.rpc = "none"
            BY <1>1, <2>2, <3>1 DEF Hook!Dispatch
        <3> QED BY <1>6, <2>1, <3>1, <3>2 DEF HookState
    <2>3. CASE Hook!FailRpc(h)
        <3>1. PICK r \in HookState : r = [s EXCEPT !.answer = "error"]
            BY DEF HookState
        <3>2. PICK t \in HookState : t = [s EXCEPT !.answer = "error", !.rpc = "refused"]
            BY DEF HookState
        <3>3. Hook!Set(h, r) \/ (s.rpc = "sent" /\ Hook!Set(h, t))
            BY <1>1, <2>3, <3>1, <3>2 DEF Hook!FailRpc
        <3>4. CASE Hook!Set(h, r)
            BY <1>6, <2>1, <3>1, <3>4 DEF HookState
        <3>5. CASE s.rpc = "sent" /\ Hook!Set(h, t)
            <4>1. /\ t.pc = s.pc /\ t.input = s.input /\ t.id = s.id /\ t.reply = s.reply
                  /\ t.code = s.code /\ t.tool = s.tool /\ t.out = s.out
                  /\ t.answer = "error" /\ t.rpc = "refused"
                BY <3>2 DEF HookState
            <4>2. t.rpc = "served" <=> s.rpc = "served"
                BY <3>5, <4>1
            <4> QED BY <1>6, <2>1, <3>5, <4>1, <4>2
        <3> QED BY <3>3, <3>4, <3>5
    <2>4. CASE Hook!Receive(h)
        <3>1. PICK r \in HookState : r = [s EXCEPT !.answer = s.reply]
            BY DEF HookState
        <3>2. Hook!Set(h, r) /\ s.rpc = "served"
            BY <1>1, <2>4, <3>1 DEF Hook!Receive
        <3> QED BY <1>6, <2>1, <3>1, <3>2 DEF HookState
    <2>5. CASE Hook!Enforce(h)
        <3>1. PICK e \in {"on", "off"} : Hook!Set(h, [s EXCEPT !.enforced = e])
            BY <1>1, <2>5 DEF Hook!Enforce
        <3>2. PICK r \in HookState : r = [s EXCEPT !.enforced = e]
            BY DEF HookState
        <3> QED BY <1>6, <2>1, <3>1, <3>2 DEF HookState
    <2> QED BY <1>7, <2>2, <2>3, <2>4, <2>5
<1>8. CASE Hook!JoinFails(h)
    <2>1. s.pc = "dispatch" /\ UNCHANGED bus /\ Hook!Set(h, Hook!Failed(s)) /\ s.code # 0
        BY <1>1, <1>8 DEF Hook!JoinFails, ProcessFits
    <2> QED BY <1>4, <2>1
<1>9. CASE Hook!Join(h)
    <2>1. /\ s.pc = "dispatch" /\ s.answer \in {"yes", "no"} /\ s.enforced # "pending"
          /\ s.input.harness # "manual" /\ s.input \in Inputs /\ UNCHANGED bus
          /\ s.code # 0 /\ s.tool # "ran"
        BY <1>1, <1>9 DEF Hook!Join, ProcessFits
    <2>2. CASE Hook!Set(h, Hook!Failed(s))
        BY <1>4, <2>1, <2>2
    <2>3. CASE Hook!Set(h, [s EXCEPT !.pc = "exit", !.code = 0, !.out = Hook!OutputOf(s)])
        <3>1. Hook!OutputOf(s) \in {None, "ask", "deny"}
            BY <2>1 DEF Hook!OutputOf, Hook!ClaudeOutput, Hook!CodexOutput, Hook!MuseOutput,
                Hook!HooksAssumption, Hook!Harnesses
        <3>2. PICK r \in HookState :
                r = [s EXCEPT !.pc = "exit", !.code = 0, !.out = Hook!OutputOf(s)]
            BY <3>1 DEF HookState
        <3>3. /\ r.pc = "exit" /\ r.code = 0 /\ r.out = Hook!OutputOf(s) /\ r.input = s.input
              /\ r.id = s.id /\ r.rpc = s.rpc /\ r.reply = s.reply /\ r.answer = s.answer
              /\ r.enforced = s.enforced /\ r.tool = s.tool
            BY <3>2 DEF HookState
        <3>4. Hook!OutputOf(r) = Hook!OutputOf(s)
            BY <3>3 DEF Hook!OutputOf, Hook!ClaudeOutput, Hook!CodexOutput, Hook!MuseOutput
        <3>5. ProcessFits(r)
            BY <1>1, <1>2, <2>1, <3>3, <3>4 DEF ProcessFits, IdFits
        <3> QED BY <1>1, <2>1, <2>3, <3>2, <3>3, <3>5, OwnStep
    <2> QED BY <1>1, <1>9, <2>2, <2>3 DEF Hook!Join
<1>10. CASE Hook!ManualDone(h)
    <2>1. /\ s.pc = "dispatch" /\ s.answer \in {"yes", "no"} /\ s.input.harness = "manual"
          /\ UNCHANGED bus /\ s.tool # "ran" /\ s.input \in Inputs
        BY <1>1, <1>10 DEF Hook!ManualDone, ProcessFits
    <2>2. PICK r \in HookState : r = [s EXCEPT !.pc = "exit", !.code = IF s.answer = "yes" THEN 0 ELSE 1]
        BY DEF HookState
    <2>3. Hook!Set(h, r)
        BY <1>1, <1>10, <2>2 DEF Hook!ManualDone
    <2>4. ProcessFits(r) /\ r.rpc = s.rpc /\ r.id = s.id /\ r.reply = s.reply /\ r.input = s.input
        BY <1>1, <1>2, <2>1, <2>2 DEF ProcessFits, HookState, IdFits
    <2> QED BY <1>1, <2>1, <2>3, <2>4, OwnStep
<1>11. CASE Hook!Harness(h)
    <2>1. s.pc = "exit" /\ UNCHANGED bus /\ s.tool = "waiting"
        BY <1>1, <1>11 DEF Hook!Harness
    <2>2. PICK r \in HookState : r = [s EXCEPT !.tool = IF s.out = None THEN "ran" ELSE "stopped"]
        BY DEF HookState
    <2>3. Hook!Set(h, r)
        BY <1>1, <1>11, <2>2 DEF Hook!Harness
    <2>4. /\ r.rpc = s.rpc /\ r.id = s.id /\ r.reply = s.reply /\ r.input = s.input /\ r.pc = s.pc
          /\ r.answer = s.answer /\ r.enforced = s.enforced /\ r.code = s.code /\ r.out = s.out
          /\ r.tool = "ran" => s.out = None
        BY <2>2 DEF HookState
    <2>5. Hook!OutputOf(r) = Hook!OutputOf(s)
        BY <2>4 DEF Hook!OutputOf, Hook!ClaudeOutput, Hook!CodexOutput, Hook!MuseOutput
    <2>6. ProcessFits(r)
        BY <1>1, <2>1, <2>4, <2>5 DEF ProcessFits, IdFits
    <2> QED BY <1>1, <2>1, <2>3, <2>4, <2>6, OwnStep
<1> QED BY <1>3, <1>5, <1>7, <1>8, <1>9, <1>10, <1>11 DEF Hook!Proceed

(* However requests time out and late answers arrive: a process leaves at  *)
(* most one entry, its bus id parses back to its identity, one that        *)
(* reports success has its entry on its own bus, and a tool whose          *)
(* intention was rejected runs only after a reported failure or without    *)
(* enforcement (AgentBusId, dispatch and the outputs of hooks.rs).         *)
THEOREM HooksReportWhatHappened ==
    ASSUME Hook!HooksAssumption
    PROVE  Hook!Spec => []ReportsAreTrue
<1>1. Hook!Init => HooksInv
    BY HooksInvInit
<1>2. HooksInv /\ [Hook!Next]_(Hook!vars) => HooksInv'
    <2> SUFFICES ASSUME HooksInv, [Hook!Next]_(Hook!vars) PROVE HooksInv'
        OBVIOUS
    <2>1. CASE UNCHANGED Hook!vars
        BY <2>1 DEF Hook!vars, HooksInv, Hook!OneEntryPerHook
    <2>2. CASE \E h \in Hooks : Hook!Serve(h)
        BY <2>2, ServeKeeps
    <2>3. CASE \E h \in Hooks : \/ \E i \in Inputs : Hook!Start(h, i)
                                \/ Hook!Proceed(h) \/ Hook!Receive(h) \/ Hook!Enforce(h)
        BY <2>3, ProcessKeeps
    <2> QED BY <2>1, <2>2, <2>3 DEF Hook!Next, Hook!Quiet
<1>3. HooksInv => ReportsAreTrue
    <2> SUFFICES ASSUME HooksInv
                 PROVE  /\ Hook!OneEntryPerHook /\ Hook!IdRoundTrips
                        /\ Hook!SuccessIsRecorded /\ Hook!RejectionHonoured
        BY DEF ReportsAreTrue
    <2>1. Hook!SuccessIsRecorded
        BY DEF Hook!SuccessIsRecorded, HooksInv, ProcessFits, EntryOf
    <2>2. ASSUME NEW h \in Hooks, NEW e \in bus, e.h = h, ~ e.ok, hook[h].tool = "ran",
                 hook[h].code # 1, hook[h].enforced # "off"
          PROVE  FALSE
        <3>1. PICK s \in HookState : s = hook[h] /\ ProcessFits(s)
            BY DEF HooksInv, ProcessFits
        <3>2. /\ s.code = 0 /\ s.answer \in {"yes", "no"} /\ s.answer = s.reply
              /\ s.out = None /\ s.input \in Inputs
            BY <2>2, <3>1 DEF ProcessFits, HookState
        <3>3. EntryOf(e, s)
            BY <2>2, <3>1 DEF HooksInv
        <3>4. s.answer = "no" /\ Hook!Request(s.input.event) = "intention"
            BY <2>2, <3>2, <3>3 DEF EntryOf
        <3>5. s.input.harness # "manual" /\ s.enforced = "on" /\ Hook!OutputOf(s) = None
            BY <2>2, <3>1, <3>2, <3>4 DEF ProcessFits, HookState
        <3>6. s.input.harness \in {"claude", "codex", "muse"} /\ None \notin {"ask", "deny"}
            BY <3>2, <3>5 DEF Hook!HooksAssumption, Hook!Harnesses
        <3> QED BY <3>4, <3>5, <3>6 DEF Hook!OutputOf, Hook!ClaudeOutput, Hook!CodexOutput, Hook!MuseOutput
    <2>3. ASSUME NEW h \in Hooks, hook[h].id # None, hook[h].input.harness # "manual"
          PROVE  Hook!Parse(hook[h].id) = Hook!Identity(hook[h].input)
        <3>1. PICK s \in HookState : s = hook[h] /\ ProcessFits(s)
            BY DEF HooksInv, ProcessFits
        <3>2. s.pc # "off" /\ s.input \in Inputs
            BY <2>3, <3>1 DEF ProcessFits
        <3>3. /\ s.id = Hook!Display(Hook!Identity(s.input))
              /\ Hook!ValidIdentity(Hook!Identity(s.input))
            BY <2>3, <3>1 DEF ProcessFits, IdFits
        <3>4. PICK i \in Inputs : i = s.input
            BY <3>2
        <3>5. Hook!Parse(Hook!Display(Hook!Identity(i))) = Hook!Identity(i)
            BY <3>3, <3>4, ParseDisplay
        <3> QED BY <3>1, <3>3, <3>4, <3>5, Zenon
    <2> QED BY <2>1, <2>2, <2>3 DEF HooksInv, Hook!RejectionHonoured, Hook!IdRoundTrips
<1> QED BY <1>1, <1>2, <1>3, PTL DEF Hook!Spec

=============================================================================
