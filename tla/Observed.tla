------------------------------ MODULE Observed ------------------------------
(***************************************************************************)
(* The observable wrappers around the bus, the write-once space, the       *)
(* storage, the applicators and the commit service, and the error          *)
(* conversions of CommitServiceV1 below the last of them.  Calls overlap,  *)
(* fail, and are dropped by their callers while the inner call runs.       *)
(* Latencies and the text of rows are left out.                            *)
(***************************************************************************)
EXTENDS Naturals, FiniteSets

CONSTANTS
    Calls,
    Layers      \* the wrappers in use

ObservedAssumption ==
    /\ IsFiniteSet(Calls)
    /\ Layers \subseteq {"agent_bus", "write_once_space", "storage", "applicator", "commit_service"}

VARIABLES
    call,       \* call -> pc, method and what it returned
    counter,    \* method and counter name -> AgentBusMetrics counter
    rows        \* published rows: call, method, success, error code

vars == <<call, counter, rows>>

BusErrors     == {"PositionNotFound", "InvalidArgument", "Timeout", "Unavailable", "Internal"}
TailErrors    == {"BackendUnavailable", "ZeroWindowSize"}
StorageErrors == {"TransactionConflict", "Timeout", "BackendUnavailable", "InternalError"}
WriteErrors   == StorageErrors \cup {"AddressAlreadyExists"}
ApplyPlain    == {"StalePosition", "MissingHeader", "InvalidEngineState", "MalformedPolicy",
                  "DeprecatedOperation", "Concurrency", "Backend"}

BusMethods == {"append", "poll", "read_next", "check_tail", "blocking_poll"}

Methods(layer) ==
    CASE layer = "agent_bus"        -> BusMethods
      [] layer = "write_once_space" -> {"tail", "write", "read"}
      [] layer = "storage"          -> {"get", "put"}
      [] layer = "applicator"       -> {"apply"}
      [] layer = "commit_service"   -> {"commit_intention", "create_bus"}

AllMethods == UNION {Methods(l) : l \in Layers}
Names == {"num_calls", "num_errors", "num_misses", "num_conflicts", "num_cas_rejections"}

Ok(kind)  == [ok |-> TRUE, layer |-> "none", kind |-> kind]
Err(layer, kind) == [ok |-> FALSE, layer |-> layer, kind |-> kind]
Errs(layer, kinds) == {Err(layer, k) : k \in kinds}

(* EngineError, by what raised it: the bus or the storage, met directly or *)
(* while playing the log, or the engine itself.                            *)
EngineErrors ==
    Errs("bus", BusErrors) \cup Errs("storage", StorageErrors)
      \cup Errs("playback bus", BusErrors) \cup Errs("playback storage", StorageErrors)
      \cup Errs("playback", ApplyPlain)
      \cup Errs("engine", {"BusDataLoss", "InvalidEngineState", "PolicyProvider", "Internal"})

(* What the wrapped call may return.                                       *)
Results(m) ==
    CASE m \in BusMethods -> {Ok("done")} \cup Errs("bus", BusErrors)
      [] m = "tail"       -> {Ok("done")} \cup Errs("space", TailErrors)
      [] m = "write"      -> {Ok("done")} \cup Errs("space", WriteErrors)
      [] m = "read"       -> {Ok("hit"), Ok("miss")} \cup Errs("space", WriteErrors)
      [] m = "get"        -> {Ok("hit"), Ok("miss")} \cup Errs("storage", StorageErrors)
      [] m = "put"        -> {Ok("applied"), Ok("rejected")} \cup Errs("storage", StorageErrors)
      [] m = "apply"      -> {Ok("done")} \cup Errs("playback bus", BusErrors)
                               \cup Errs("playback storage", StorageErrors) \cup Errs("playback", ApplyPlain)
      [] m \in {"commit_intention", "create_bus"} -> {Ok("done")} \cup EngineErrors

Init ==
    /\ call = [c \in Calls |-> [pc |-> "idle", m |-> "none", inner |-> Ok("none"), result |-> Ok("none")]]
    /\ counter = [m \in AllMethods |-> [n \in Names |-> 0]]
    /\ rows = {}

-----------------------------------------------------------------------------
(* CommitServiceV1: the category under which an engine error is reported.  *)

FromBus(kind) == IF kind = "PositionNotFound" THEN "BusDataLoss" ELSE kind

FromStorage(kind) ==
    CASE kind = "TransactionConflict" -> "Concurrency"
      [] kind = "Timeout"             -> "Timeout"
      [] kind = "BackendUnavailable"  -> "Unavailable"
      [] kind = "InternalError"       -> "Internal"

(* Mutant: storage failures met in playback are all internal errors.       *)
PlaybackIsInternal(e) ==
    IF e.layer = "playback bus" THEN FromBus(e.kind) ELSE "Internal"

FromApply(e) ==
    CASE e.layer = "playback bus"     -> IF e.kind = "InvalidArgument" THEN "Internal" ELSE FromBus(e.kind)
      [] e.layer = "playback storage" -> FromStorage(e.kind)
      [] e.layer = "playback"         -> IF e.kind = "Concurrency" THEN "Concurrency" ELSE "Internal"

FromEngine(e) ==
    CASE e.layer = "bus"     -> FromBus(e.kind)
      [] e.layer = "storage" -> FromStorage(e.kind)
      [] e.layer = "engine"  -> IF e.kind = "BusDataLoss" THEN "BusDataLoss" ELSE "Internal"
      [] OTHER               -> FromApply(e)

(* What the wrapper gets from the layer below it.                          *)
Below(m, r) ==
    IF m \in {"commit_intention", "create_bus"} /\ ~r.ok THEN Err("commit", FromEngine(r)) ELSE r

-----------------------------------------------------------------------------
(* The counters a finished call increments, by method.                     *)

ErrorOnly(r) == IF r.ok THEN {} ELSE {"num_errors"}

AppendCounters(r)   == ErrorOnly(r)
PollCounters(r)     == ErrorOnly(r)
TailCounters(r)     == ErrorOnly(r)
BlockingCounters(r) == ErrorOnly(r)
SpaceTailCounters(r) == ErrorOnly(r)

(* Mutant: a conflict is an error as well.                                 *)
WriteCountsBoth(r) ==
    IF r.ok THEN {} ELSE IF r.kind = "AddressAlreadyExists" THEN {"num_conflicts", "num_errors"}
    ELSE {"num_errors"}

WriteCounters(r) ==
    IF r.ok THEN {} ELSE IF r.kind = "AddressAlreadyExists" THEN {"num_conflicts"} ELSE {"num_errors"}

ReadCounters(r) == ErrorOnly(r) \cup (IF r = Ok("miss") THEN {"num_misses"} ELSE {})

GetCounters(r) == ErrorOnly(r) \cup (IF r = Ok("miss") THEN {"num_misses"} ELSE {})

PutCounters(r) == ErrorOnly(r) \cup (IF r = Ok("rejected") THEN {"num_cas_rejections"} ELSE {})

ApplyCounters(r)  == ErrorOnly(r)
CommitCounters(r) == ErrorOnly(r)

Counters(m, r) ==
    CASE m = "append"                -> AppendCounters(r)
      [] m \in {"poll", "read_next"} -> PollCounters(r)
      [] m = "check_tail"            -> TailCounters(r)
      [] m = "tail"                  -> SpaceTailCounters(r)
      [] m = "blocking_poll"         -> BlockingCounters(r)
      [] m = "write"                 -> WriteCounters(r)
      [] m = "read"                  -> ReadCounters(r)
      [] m = "get"                   -> GetCounters(r)
      [] m = "put"                   -> PutCounters(r)
      [] m = "apply"                 -> ApplyCounters(r)
      [] m = "commit_intention"      -> CommitCounters(r)

(* The error code of a row: each layer's own table of its error kinds.     *)
BusCode(r)     == <<"Bus", r.kind>>
SpaceCode(r)   == <<r.kind>>
StorageCode(r) == <<r.kind>>
CommitCode(r)  == <<"Commit", r.kind>>

(* Mutant: the nested bus and storage kinds share one code.                *)
ApplyCodeFlat(r) == <<"Apply", r.kind>>

ApplyCode(r) ==
    CASE r.layer = "playback bus"     -> <<"Bus", r.kind>>
      [] r.layer = "playback storage" -> <<"Storage", r.kind>>
      [] OTHER                        -> <<r.kind>>

Code(m, r) ==
    IF r.ok THEN <<>>
    ELSE CASE m \in BusMethods  -> BusCode(r)
           [] m \in {"tail", "write", "read"} -> SpaceCode(r)
           [] m \in {"get", "put"}     -> StorageCode(r)
           [] m = "apply"              -> ApplyCode(r)
           [] m = "commit_intention"   -> CommitCode(r)

Bump(m, names) == [counter EXCEPT ![m] = [n \in Names |-> @[n] + IF n \in names THEN 1 ELSE 0]]

-----------------------------------------------------------------------------
(* A call begins: it is counted and handed on.                             *)
Begin(c, m) ==
    /\ call[c].pc = "idle"
    /\ call' = [call EXCEPT ![c].pc = "inner", ![c].m = m]
    /\ counter' = IF m = "create_bus" THEN counter ELSE Bump(m, {"num_calls"})
    /\ UNCHANGED rows

(* The bus wrapper refuses a request without a valid bus id itself.        *)
RejectBusId(c, m) ==
    /\ m \in BusMethods /\ call[c].pc = "idle"
    /\ call' = [call EXCEPT ![c].pc = "refused", ![c].m = m, ![c].result = Err("bus", "InvalidArgument")]
    /\ counter' = Bump(m, {"num_calls"})
    /\ UNCHANGED rows

(* Mutant: an error returns before its row is written.                     *)
RowOnSuccess(c, r) ==
    IF r.ok THEN rows \cup {[c |-> c, m |-> call[c].m, ok |-> TRUE, code |-> <<>>, of |-> r]} ELSE rows

LogRow(c, r) == rows \cup {[c |-> c, m |-> call[c].m, ok |-> r.ok, code |-> Code(call[c].m, r), of |-> r]}

(* The inner call returns; the wrapper counts it, logs it and returns it.  *)
Complete(c) ==
    /\ call[c].pc = "inner"
    /\ \E inner \in Results(call[c].m) :
         LET r == Below(call[c].m, inner)
         IN  /\ call' = [call EXCEPT ![c].pc = "returned", ![c].inner = inner, ![c].result = r]
             /\ IF call[c].m = "create_bus"
                THEN UNCHANGED <<counter, rows>>
                ELSE /\ counter' = Bump(call[c].m, Counters(call[c].m, r))
                     /\ rows' = LogRow(c, r)

(* The caller drops the future: nothing after the await runs.              *)
Drop(c) ==
    /\ call[c].pc = "inner"
    /\ call' = [call EXCEPT ![c].pc = "dropped"]
    /\ UNCHANGED <<counter, rows>>

AllOver == /\ \A c \in Calls : call[c].pc \in {"returned", "refused", "dropped"}
           /\ UNCHANGED vars

Next ==
    \/ \E c \in Calls, m \in AllMethods : Begin(c, m) \/ RejectBusId(c, m)
    \/ \E c \in Calls : Complete(c) \/ Drop(c)
    \/ AllOver

Spec == Init /\ [][Next]_vars

-----------------------------------------------------------------------------
Of(m, pcs) == {c \in Calls : call[c].m = m /\ call[c].pc \in pcs}
RowsOf(m) == {r \in rows : r.m = m}

(* The books of every method balance at any moment, overlapping and        *)
(* dropped calls included: a counted call has its row, still runs, was     *)
(* dropped or was refused by the wrapper.                                  *)
CallsAccountedFor ==
    \A m \in AllMethods \ {"create_bus"} :
       counter[m]["num_calls"] = Cardinality(RowsOf(m)) + Cardinality(Of(m, {"inner", "dropped", "refused"}))

(* Counters and rows tell the same story: as many unsuccessful rows as     *)
(* errors and conflicts, each counted under one name.                      *)
CountersMatchRows ==
    \A m \in AllMethods :
       Cardinality({r \in RowsOf(m) : ~r.ok}) = counter[m]["num_errors"] + counter[m]["num_conflicts"]

(* The error code of a row tells which error it was: two errors with one   *)
(* code are the same error.                                                *)
CodesIdentifyErrors == \A r, s \in rows : r.m = s.m /\ r.code = s.code /\ ~r.ok => r.of = s.of

(* A timeout, an outage, a conflict or a data loss keeps its category      *)
(* whichever way through engine and playback it takes: callers decide by   *)
(* it whether to try again.                                                *)
Category(kind) ==
    CASE kind = "Timeout" -> "Timeout"
      [] kind \in {"Unavailable", "BackendUnavailable"} -> "Unavailable"
      [] kind \in {"TransactionConflict", "Concurrency"} -> "Concurrency"
      [] kind \in {"PositionNotFound", "BusDataLoss"} -> "BusDataLoss"

RetryableCategoriesKept ==
    \A c \in Calls :
       /\ call[c].pc = "returned" /\ call[c].m = "commit_intention"
       /\ call[c].inner.kind \in {"Timeout", "Unavailable", "BackendUnavailable", "TransactionConflict",
                                  "Concurrency", "PositionNotFound", "BusDataLoss"}
       => call[c].result.kind = Category(call[c].inner.kind)

=============================================================================
