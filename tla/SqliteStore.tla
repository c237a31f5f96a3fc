---------------------------- MODULE SqliteStore -----------------------------
(***************************************************************************)
(* SqliteStorage under the engine's retries: drives fold the entries of a  *)
(* bus, in order, into one stored state, each by reading the row and       *)
(* putting its successor.                                                  *)
(*                                                                         *)
(* A put is a job on the blocking pool.  It takes its connection's mutex,  *)
(* then the write lock of the database file, which connections share with  *)
(* the bus, or gives up at the busy timeout.  The job goes on when its     *)
(* caller is dropped.  `done`, `told` and `panicked` are history.          *)
(***************************************************************************)
EXTENDS Integers, Sequences, FiniteSets

CONSTANTS
    Drives,
    Conns, ConnOf,       \* the connection of each drive
    Processes, ProcessOf,\* the process of each connection
    Bus,                 \* another writer of the file: the bus's own connection
    Free,                \* a lock nobody holds
    Last,                \* entries 0 .. Last
    MaxRetries,          \* RetryConfig::max_retries
    MaxFaults            \* bound on panics, dropped callers and crashes

ASSUME StoreAssumption ==
    /\ ConnOf \in [Drives -> Conns] /\ ProcessOf \in [Conns -> Processes]
    /\ Bus \notin Conns /\ Free \notin Conns \cup {Bus}
    /\ Last \in Nat /\ MaxRetries \in Nat /\ MaxFaults \in Nat

NoRow == -1

VARIABLES
    row,        \* the stored position and value: the entries folded into it
    jobs,       \* put jobs, queued, running or with a result nobody took
    mutex,      \* connection -> id of the job that holds it
    poisoned,   \* connections whose mutex was dropped by a panic
    writer,     \* who holds the file's write lock
    drive,      \* each drive's place: entry, retries of the current entry
    attempts,   \* drive -> puts made, which number its jobs
    done, told, panicked,
    faults

store == <<row, jobs, mutex, poisoned, writer>>
history == <<done, told, panicked>>
vars == <<store, drive, attempts, history, faults>>

Start == [pc |-> "load", entry |-> 0, retries |-> 0, casRetried |-> FALSE]

Init ==
    /\ row = [position |-> NoRow, value |-> <<>>]
    /\ jobs = {}
    /\ mutex = [c \in Conns |-> Free]
    /\ poisoned = {}
    /\ writer = Free
    /\ drive = [d \in Drives |-> Start]
    /\ attempts = [d \in Drives |-> 0]
    /\ done = {} /\ told = {} /\ panicked = {}
    /\ faults = 0

Conn(j) == ConnOf[j.id[1]]

-----------------------------------------------------------------------------
(* The drives: apply_tolerating_stale, with the state owner's load.        *)

(* The entry is settled; the next one has a retry budget of its own.       *)
NextEntry(d) ==
    [Start EXCEPT !.entry = drive[d].entry + 1,
                  !.pc = IF drive[d].entry = Last THEN "end" ELSE "load"]

Failed(d) == [drive[d] EXCEPT !.pc = "failed"]

(* get, then the put of the successor state unless the entry is stale.     *)
Load(d) ==
    LET entry == drive[d].entry
        put   == [id |-> <<d, attempts[d] + 1>>, stage |-> "queued", live |-> TRUE,
                  expected |-> row.position, position |-> entry,
                  value |-> Append(row.value, entry)]
    IN
    /\ drive[d].pc = "load" /\ mutex[ConnOf[d]] = Free
    /\ IF ConnOf[d] \in poisoned
       THEN drive' = [drive EXCEPT ![d] = Failed(d)] /\ UNCHANGED <<jobs, attempts>>
       ELSE IF row.position >= entry
       THEN drive' = [drive EXCEPT ![d] = NextEntry(d)] /\ UNCHANGED <<jobs, attempts>>
       ELSE /\ jobs' = jobs \cup {put}
            /\ attempts' = [attempts EXCEPT ![d] = @ + 1]
            /\ drive' = [drive EXCEPT ![d].pc = "wait"]
    /\ UNCHANGED <<row, mutex, poisoned, writer, history, faults>>

Results == {"true", "false", "conflict", "error"}

(* Mutant: a conflict is taken for a write that happened.                  *)
AfterLenient(d, result) ==
    CASE result \in {"true", "conflict"} -> NextEntry(d)
      [] result = "false" /\ ~ drive[d].casRetried /\ drive[d].retries < MaxRetries ->
           [drive[d] EXCEPT !.pc = "load", !.retries = @ + 1, !.casRetried = TRUE]
      [] OTHER -> Failed(d)

(* into_apply_result and ConcurrencyRetryPolicy: one retry of a rejected   *)
(* put, MaxRetries in all, none after any other error.                     *)
After(d, result) ==
    CASE result = "true" -> NextEntry(d)
      [] result = "false" /\ ~ drive[d].casRetried /\ drive[d].retries < MaxRetries ->
           [drive[d] EXCEPT !.pc = "load", !.retries = @ + 1, !.casRetried = TRUE]
      [] result = "conflict" /\ drive[d].retries < MaxRetries ->
           [drive[d] EXCEPT !.pc = "load", !.retries = @ + 1]
      [] OTHER -> Failed(d)

(* The caller takes the result of its job.                                 *)
Answer(d) ==
    /\ drive[d].pc = "wait"
    /\ \E j \in jobs :
         /\ j.id = <<d, attempts[d]>> /\ j.stage \in Results
         /\ jobs' = jobs \ {j}
         /\ told' = told \cup {[id |-> j.id, answer |-> j.stage]}
         /\ drive' = [drive EXCEPT ![d] = After(d, j.stage)]
    /\ UNCHANGED <<row, mutex, poisoned, writer, attempts, done, panicked, faults>>

(* The caller is dropped and its job is not; another drive starts.         *)
Drop(d) ==
    /\ drive[d].pc = "wait" /\ faults < MaxFaults
    /\ faults' = faults + 1
    /\ drive' = [drive EXCEPT ![d] = Start]
    /\ jobs' = {IF j.id = <<d, attempts[d]>> THEN [j EXCEPT !.live = FALSE] ELSE j :
                  j \in {k \in jobs : k.id # <<d, attempts[d]>> \/ k.stage \notin Results}}
    /\ UNCHANGED <<row, mutex, poisoned, writer, attempts, history>>

-----------------------------------------------------------------------------
(* The jobs: SqliteDb::run around the statement of SqliteStorage::put.     *)

(* A job ends: its result waits for the caller, if there is one.           *)
Ended(j, result) ==
    (jobs \ {j}) \cup (IF j.live THEN {[j EXCEPT !.stage = result]} ELSE {})

Lock(j) ==
    /\ j.stage = "queued" /\ mutex[Conn(j)] = Free
    /\ IF Conn(j) \in poisoned
       THEN jobs' = Ended(j, "error") /\ UNCHANGED mutex
       ELSE /\ jobs' = (jobs \ {j}) \cup {[j EXCEPT !.stage = "running"]}
            /\ mutex' = [mutex EXCEPT ![Conn(j)] = j.id]
    /\ UNCHANGED <<row, poisoned, writer, drive, attempts, history, faults>>

Begin(j) ==
    /\ j.stage = "running" /\ writer = Free
    /\ writer' = Conn(j)
    /\ jobs' = (jobs \ {j}) \cup {[j EXCEPT !.stage = "writing"]}
    /\ UNCHANGED <<row, mutex, poisoned, drive, attempts, history, faults>>

(* Mutant: a busy database is reported as a position that does not match.  *)
BusyIsRejection == "false"

(* storage_error: SQLITE_BUSY is a transaction conflict.                   *)
BusyResult == "conflict"

(* The write lock is not free before the busy timeout.                     *)
Busy(j) ==
    /\ j.stage = "running" /\ writer # Free
    /\ jobs' = Ended(j, BusyResult)
    /\ mutex' = [mutex EXCEPT ![Conn(j)] = Free]
    /\ UNCHANGED <<row, poisoned, writer, drive, attempts, history, faults>>

(* Mutant: an update that does not look at the stored position.            *)
UpdateAny(j) == j.expected = NoRow => row.position = NoRow

(* INSERT ... ON CONFLICT DO NOTHING, or UPDATE ... WHERE position = ?4.   *)
RowChanges(j) ==
    IF j.expected = NoRow THEN row.position = NoRow
    ELSE j.position > j.expected /\ row.position = j.expected

Commit(j) ==
    /\ j.stage = "writing"
    /\ row' = IF RowChanges(j) THEN [position |-> j.position, value |-> j.value] ELSE row
    /\ jobs' = Ended(j, IF RowChanges(j) THEN "true" ELSE "false")
    /\ done' = done \cup {[id |-> j.id, ok |-> RowChanges(j)]}
    /\ mutex' = [mutex EXCEPT ![Conn(j)] = Free]
    /\ writer' = Free
    /\ UNCHANGED <<poisoned, drive, attempts, told, panicked, faults>>

(* Mutants: the guard is dropped by the unwinding, or not at all.          *)
Poison(j) == mutex' = [mutex EXCEPT ![Conn(j)] = Free] /\ poisoned' = poisoned \cup {Conn(j)}
Leak(j)   == UNCHANGED <<mutex, poisoned>>

(* The guard is dropped before the panic goes on.                          *)
Release(j) == mutex' = [mutex EXCEPT ![Conn(j)] = Free] /\ UNCHANGED poisoned

(* The operation panics, or fails with another error; nothing is written.  *)
Panic(j) ==
    /\ j.stage \in {"running", "writing"} /\ faults < MaxFaults
    /\ faults' = faults + 1
    /\ Release(j)
    /\ writer' = IF j.stage = "writing" THEN Free ELSE writer
    /\ jobs' = Ended(j, "error")
    /\ panicked' = panicked \cup {j.id}
    /\ UNCHANGED <<row, drive, attempts, done, told>>

(* The bus writes to the same file.                                        *)
BusWrite ==
    /\ writer \in {Free, Bus}
    /\ writer' = IF writer = Free THEN Bus ELSE Free
    /\ UNCHANGED <<row, jobs, mutex, poisoned, drive, attempts, history, faults>>

(* A process dies: its jobs and locks go, what was committed stays.        *)
Crash(p) ==
    LET dies(c) == ProcessOf[c] = p IN
    /\ faults < MaxFaults /\ faults' = faults + 1
    /\ \E d \in Drives : dies(ConnOf[d]) /\ drive[d].pc # "end"
    /\ jobs' = {j \in jobs : ~ dies(Conn(j))}
    /\ mutex' = [c \in Conns |-> IF dies(c) THEN Free ELSE mutex[c]]
    /\ poisoned' = {c \in poisoned : ~ dies(c)}
    /\ writer' = IF writer \in Conns /\ dies(writer) THEN Free ELSE writer
    /\ drive' = [d \in Drives |-> IF dies(ConnOf[d]) THEN Start ELSE drive[d]]
    /\ UNCHANGED <<row, attempts, history>>

Step(j) == Lock(j) \/ Begin(j) \/ Busy(j) \/ Commit(j)

Next ==
    \/ \E d \in Drives : Load(d) \/ Answer(d) \/ Drop(d)
    \/ \E j \in jobs : Step(j) \/ Panic(j)
    \/ BusWrite
    \/ \E p \in Processes : Crash(p)

Spec == Init /\ [][Next]_vars

(* An executor polls a drive that is ready, and the blocking pool runs     *)
(* every job; nothing is assumed of the bus.                               *)
FairSpec ==
    /\ Spec
    /\ \A d \in Drives : WF_vars(Load(d) \/ Answer(d))
    /\ \A c \in Conns : WF_vars(\E j \in jobs : Conn(j) = c /\ Step(j))

-----------------------------------------------------------------------------
(* Every entry is folded into the stored state once and in order, although *)
(* drives race, are dropped with puts under way, or die.                   *)
FoldedInOrder == row.value = [i \in 1 .. (row.position + 1) |-> i - 1]

(* "a rejected CAS means a competing write has already completed, so a     *)
(* single immediate retry should reconcile with it": when a drive reads    *)
(* again after a rejection, its entry is settled.                          *)
RejectionSettles ==
    \A d \in Drives :
      drive[d].pc = "load" /\ drive[d].casRetried => row.position >= drive[d].entry

(* "one failed operation does not poison the shared connection": only the  *)
(* put that failed is answered with an error, and a drive fails only on    *)
(* the answer to a put of its own.                                         *)
PanicIsolated ==
    /\ \A t \in told : t.answer = "error" => t.id \in panicked
    /\ \A d \in Drives :
         drive[d].pc = "failed" => <<d, attempts[d]>> \in {t.id : t \in told}

(* The put a job carries, and those that may still take effect.            *)
PutOf(j) ==
    [id |-> j.id, expected |-> j.expected, position |-> j.position, value |-> j.value]

OpenPuts == {PutOf(j) : j \in {k \in jobs : k.stage \notin Results}}

Storage == INSTANCE CasStorage WITH slot <- row, open <- OpenPuts, done <- done, told <- told

(* SqliteStorage keeps the promise of Storage: each put takes effect at    *)
(* most once and atomically, and a conflict is certain.                    *)
ImplementsStorage == Storage!Spec

=============================================================================
