-------------------------- MODULE ConditionalSpace --------------------------
(***************************************************************************)
(* A conditional-write space: addresses with versioned values, written by  *)
(* compare-and-swap, in memory (with expiry), in SQLite or in DynamoDB.    *)
(* The write-once spaces are its clients that expect an empty address.     *)
(*                                                                         *)
(* A request takes effect at one instant after it was sent.  SQLite runs   *)
(* it on a blocking pool and DynamoDB on a server, so it may take effect   *)
(* after its caller is gone; the DynamoDB client may send a put again when *)
(* its answer is lost.  `installed` and `answered` are history.            *)
(***************************************************************************)
EXTENDS Integers, FiniteSets

CONSTANTS
    Clients,
    Size,         \* addresses are 0 .. Size-1
    Ttl,          \* lifetime of an entry in memory, in ticks; 0: it does not expire
    MaxWrites,    \* bound on write requests
    MaxClock,     \* bound on the clock
    MaxFaults     \* bound on conflicts, lost answers and abandoned calls

SpaceAssumption ==
    /\ Size \in Nat /\ MaxWrites \in Nat /\ MaxClock \in Nat /\ MaxFaults \in Nat
    /\ Ttl \in Nat

Addresses == 0 .. (Size - 1)
Absent    == -1     \* no entry: as a version, "expect an empty address"

VARIABLES
    backend,     \* which space this is; it does not change
    space,       \* address -> entry; `write` is the request that wrote it
    clock,
    seen,        \* what each client has read of each address
    call,        \* each client's request in flight
    writes,      \* requests made so far
    installed,   \* effects: the write, and the write it replaced
    answered,    \* write -> answer
    faults

vars == <<backend, space, clock, seen, call, writes, installed, answered, faults>>

NoEntry == [version |-> Absent, write |-> 0, at |-> 0]
NoCall  == [pc |-> "idle", write |-> 0, addr |-> 0, expected |-> Absent, base |-> 0]

Init ==
    /\ backend \in {"memory", "sqlite", "dynamo"}
    /\ space = [a \in Addresses |-> NoEntry]
    /\ clock = 0
    /\ seen = [c \in Clients |-> [a \in Addresses |-> NoEntry]]
    /\ call = [c \in Clients |-> NoCall]
    /\ writes = 0
    /\ installed = {}
    /\ answered = {}
    /\ faults = 0

-----------------------------------------------------------------------------
(* Expiry: an entry past its lifetime is treated as absent.                *)

Lifetime == IF backend = "memory" THEN Ttl ELSE 0

IsLive(a) == space[a] # NoEntry /\ (Lifetime = 0 \/ clock < space[a].at + Lifetime)

Existing(a) == IF IsLive(a) THEN space[a] ELSE NoEntry

Tick ==
    /\ Lifetime > 0 /\ clock < MaxClock
    /\ clock' = clock + 1
    /\ UNCHANGED <<backend, space, seen, call, writes, installed, answered, faults>>

-----------------------------------------------------------------------------
(* tail: memory scans the last `window` addresses below the highest live   *)
(* one; the databases fetch the `window` highest rows.                     *)

Live == {a \in Addresses : IsLive(a)}

End(S) == IF S = {} THEN 0 ELSE (CHOOSE a \in S : \A b \in S : b <= a) + 1

WindowStart(end, window) == IF end < window THEN 0 ELSE end - window

FirstMissing(written, from, end) ==
    LET missing == {a \in from .. (end - 1) : a \notin written}
    IN  IF missing = {} THEN end ELSE CHOOSE a \in missing : \A b \in missing : a <= b

ScanTail(window) ==
    FirstMissing(Live, WindowStart(End(Live), window), End(Live))

(* Mutant: the query returns one row too few.                              *)
RowsTailShort(window) ==
    LET rows == {a \in Live : Cardinality({b \in Live : b > a}) < window - 1}
    IN  FirstMissing(rows, WindowStart(End(rows), window), End(rows))

RowsTail(window) ==
    LET rows == {a \in Live : Cardinality({b \in Live : b > a}) < window}
    IN  FirstMissing(rows, WindowStart(End(rows), window), End(rows))

-----------------------------------------------------------------------------
(* Operations.                                                             *)

Read(c, a) ==
    /\ call[c].pc = "idle"
    /\ seen' = [seen EXCEPT ![c][a] = Existing(a)]
    /\ UNCHANGED <<backend, space, clock, call, writes, installed, answered, faults>>

(* A conditional write expects the version its caller has read.            *)
Write(c, a) ==
    /\ call[c].pc = "idle" /\ writes < MaxWrites
    /\ writes' = writes + 1
    /\ call' = [call EXCEPT ![c] =
         [pc |-> "sent", write |-> writes + 1, addr |-> a,
          expected |-> seen[c][a].version, base |-> seen[c][a].write]]
    /\ UNCHANGED <<backend, space, clock, seen, installed, answered, faults>>

(* WriteOnceSpace: the address must be empty, whatever was read.           *)
WriteOnce(c, a) ==
    /\ call[c].pc = "idle" /\ writes < MaxWrites
    /\ seen[c][a] # NoEntry
    /\ writes' = writes + 1
    /\ call' = [call EXCEPT ![c] =
         [pc |-> "sent", write |-> writes + 1, addr |-> a, expected |-> Absent, base |-> 0]]
    /\ UNCHANGED <<backend, space, clock, seen, installed, answered, faults>>

(* Mutant: any write that expects a version is an unconditional update.    *)
UpdatesAny(a, expected) == expected # Absent \/ Existing(a).version = Absent

Matches(a, expected) == Existing(a).version = expected

(* Mutant: the version is not advanced by an update.                       *)
SameVersion(expected) == IF expected = Absent THEN 0 ELSE expected

NextVersion(expected) == IF expected = Absent THEN 0 ELSE expected + 1

NewEntry(req) ==
    [version |-> NextVersion(req.expected), write |-> req.write, at |-> clock]

(* Mutant: only an inserted row counts as a success.                       *)
CountInserted(req) == Existing(req.addr) = NoEntry /\ Matches(req.addr, req.expected)

Succeeds(req) == Matches(req.addr, req.expected)

Perform(c) ==
    LET req == call[c] IN
    /\ IF Matches(req.addr, req.expected)
       THEN /\ space' = [space EXCEPT ![req.addr] = NewEntry(req)]
            /\ installed' = installed \cup
                 {[write |-> req.write, addr |-> req.addr, base |-> req.base,
                   replaced |-> Existing(req.addr).write]}
       ELSE UNCHANGED <<space, installed>>
    /\ call' = [call EXCEPT ![c].pc =
         IF req.pc = "abandoned" THEN "gone" ELSE IF Succeeds(req) THEN "true" ELSE "false"]

Execute(c) ==
    /\ call[c].pc \in {"sent", "abandoned"}
    /\ Perform(c)
    /\ UNCHANGED <<backend, clock, seen, writes, answered, faults>>

(* SQLITE_BUSY, or a request the server never sees: an error, no effect.   *)
WriteError(c) ==
    /\ backend # "memory" /\ faults < MaxFaults
    /\ faults' = faults + 1
    /\ call[c].pc = "sent"
    /\ call' = [call EXCEPT ![c] = NoCall]
    /\ UNCHANGED <<backend, space, clock, seen, writes, installed, answered>>

(* The caller goes away; the request does not.                             *)
Abandon(c) ==
    /\ backend # "memory" /\ faults < MaxFaults
    /\ faults' = faults + 1
    /\ call[c].pc = "sent"
    /\ call' = [call EXCEPT ![c].pc = "abandoned"]
    /\ UNCHANGED <<backend, space, clock, seen, writes, installed, answered>>

(* The answer is lost and the DynamoDB client sends the put again.         *)
Resend(c) ==
    /\ backend = "dynamo" /\ faults < MaxFaults
    /\ faults' = faults + 1
    /\ call[c].pc \in {"true", "false"}
    /\ call' = [call EXCEPT ![c].pc = "sent"]
    /\ UNCHANGED <<backend, space, clock, seen, writes, installed, answered>>

Return(c) ==
    /\ call[c].pc \in {"true", "false", "gone"}
    /\ answered' = IF call[c].pc = "gone" THEN answered
                   ELSE answered \cup {[write |-> call[c].write, ok |-> call[c].pc = "true"]}
    /\ call' = [call EXCEPT ![c] = NoCall]
    /\ UNCHANGED <<backend, space, clock, seen, writes, installed, faults>>

Next ==
    \/ Tick
    \/ \E c \in Clients :
         \/ \E a \in Addresses : Read(c, a) \/ Write(c, a) \/ WriteOnce(c, a)
         \/ Execute(c) \/ WriteError(c) \/ Abandon(c) \/ Resend(c) \/ Return(c)

Spec == Init /\ [][Next]_vars

-----------------------------------------------------------------------------
(* A write answered true took effect, and no write takes effect twice,     *)
(* although requests are sent again or outlive their callers.              *)
TrueMeansInstalledOnce ==
    /\ \A r \in answered : r.ok => \E e \in installed : e.write = r.write
    /\ \A e1, e2 \in installed : e1.write = e2.write => e1 = e2

(* No lost update: an effect replaces exactly the value its caller had     *)
(* read.  Versions restart at 0 after an expiry, so this is stated for     *)
(* spaces whose entries do not expire.                                     *)
NoBlindOverwrite ==
    Lifetime = 0 => \A e \in installed : e.replaced = e.base

(* "Returns `false` on version mismatch; the existing value is unchanged": *)
(* a write answered false has not taken effect, unless a client library    *)
(* sent it again.                                                          *)
RefusedHasNoEffect ==
    backend # "dynamo" =>
      \A r \in answered : ~ r.ok => \A e \in installed : e.write # r.write

(* tail, scanned or queried, is the first address that is not live         *)
(* whenever all gaps lie in the window, whatever has expired.              *)
TailIsContiguous ==
    \A window \in 1 .. Size :
      /\ RowsTail(window) = ScanTail(window)
      /\ (\A a \in 0 .. (End(Live) - 1) : a \notin Live => a >= End(Live) - window)
           => ScanTail(window) = FirstMissing(Live, 0, End(Live))

=============================================================================
