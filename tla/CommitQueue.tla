----------------------------- MODULE CommitQueue ----------------------------
(***************************************************************************)
(* BufferingCommitService: commit_intention calls of a bus wait for each   *)
(* other on a fair mutex; the mutexes are kept in a bounded LRU cache.     *)
(* Callers may drop a call while it is queued or active.  `evicted`        *)
(* and `order` are history.                                                *)
(***************************************************************************)
EXTENDS Integers, Sequences, FiniteSets, SequencesExt

CONSTANTS
    Calls, Buses,
    MaxCached    \* MAX_CACHED_BUSES

QueueAssumption == MaxCached \in Nat \ {0}

VARIABLES
    cache,     \* <<bus, mutex>>, least recently used first
    waiting,   \* mutex -> its calls in order; the first one holds the lock
    call,      \* call -> pc, bus, mutex
    evicted,   \* buses whose mutex was evicted while calls still used it
    order      \* the calls in the order they asked for their mutex

vars == <<cache, waiting, call, evicted, order>>

Init ==
    /\ cache = <<>>
    /\ waiting = <<>>
    /\ call = [c \in Calls |-> [pc |-> "idle", bus |-> CHOOSE b \in Buses : TRUE, mutex |-> 0]]
    /\ evicted = {}
    /\ order = <<>>

Has(b) == \E i \in DOMAIN cache : cache[i][1] = b

(* get_or_insert: the entry becomes the most recently used; a new one may  *)
(* push the least recently used out.                                       *)
GetOrInsert(b) ==
    IF Has(b)
    THEN LET i == CHOOSE i \in DOMAIN cache : cache[i][1] = b
         IN  Append(RemoveAt(cache, i), cache[i])
    ELSE Append(IF Len(cache) = MaxCached THEN Tail(cache) ELSE cache,
                <<b, Len(waiting) + 1>>)

(* Mutant: the newest waiter is served first.                              *)
EnqueueFirst(q, c) == IF q = <<>> THEN <<c>> ELSE <<Head(q), c>> \o Tail(q)

(* The mutex is fair.                                                      *)
Enqueue(q, c) == Append(q, c)

(* run: find the mutex and queue for it.                                   *)
Submit(c, b) ==
    /\ call[c].pc = "idle"
    /\ cache' = GetOrInsert(b)
    /\ LET mutex == Last(cache')[2]
           old == IF mutex > Len(waiting) THEN <<>> ELSE waiting[mutex]
           gone == {cache[i] : i \in DOMAIN cache} \ {cache'[i] : i \in DOMAIN cache'} IN
       /\ waiting' = [m \in 1 .. (IF mutex > Len(waiting) THEN mutex ELSE Len(waiting)) |->
                        IF m = mutex THEN Enqueue(old, c) ELSE waiting[m]]
       /\ call' = [call EXCEPT ![c] = [pc |-> "queued", bus |-> b, mutex |-> mutex]]
       /\ evicted' = evicted \cup {e[1] : e \in {x \in gone : waiting[x[2]] # <<>>}}
    /\ order' = Append(order, c)

(* Mutant: the guard is dropped before the commit is awaited.              *)
StartUnguarded(c) ==
    /\ call[c].pc = "queued"
    /\ LET q == waiting[call[c].mutex] IN
       \A i \in DOMAIN q : (\E j \in DOMAIN q : q[j] = c /\ i < j) => call[q[i]].pc = "active"
    /\ call' = [call EXCEPT ![c].pc = "active"]
    /\ UNCHANGED <<cache, waiting, evicted, order>>

(* The lock is granted to the first in line, which starts its commit.      *)
Start(c) ==
    /\ call[c].pc = "queued" /\ Head(waiting[call[c].mutex]) = c
    /\ call' = [call EXCEPT ![c].pc = "active"]
    /\ UNCHANGED <<cache, waiting, evicted, order>>

Place(c) == CHOOSE i \in DOMAIN waiting[call[c].mutex] : waiting[call[c].mutex][i] = c

Leave(c) == [waiting EXCEPT ![call[c].mutex] = RemoveAt(@, Place(c))]

Finish(c) ==
    /\ call[c].pc = "active"
    /\ waiting' = Leave(c)
    /\ call' = [call EXCEPT ![c].pc = "done"]
    /\ UNCHANGED <<cache, evicted, order>>

(* Mutant: a dropped waiter keeps its place in the line.                   *)
KeepPlace(c) == IF call[c].pc = "queued" THEN waiting ELSE Leave(c)

Release(c) == Leave(c)

(* "Dropping a queued or active call releases its place."                  *)
Drop(c) ==
    /\ call[c].pc \in {"queued", "active"}
    /\ waiting' = Release(c)
    /\ call' = [call EXCEPT ![c].pc = "dropped"]
    /\ UNCHANGED <<cache, evicted, order>>

Next ==
    \E c \in Calls : (\E b \in Buses : Submit(c, b)) \/ Start(c) \/ Finish(c) \/ Drop(c)

(* The executor polls a woken call, and a commit comes to an end (Engine). *)
Fairness == \A c \in Calls : WF_vars(Start(c)) /\ WF_vars(Finish(c))

Spec == Init /\ [][Next]_vars /\ Fairness

-----------------------------------------------------------------------------
Active(b) == {c \in Calls : call[c].pc = "active" /\ call[c].bus = b}

(* Commits of a bus overlap only after its mutex was evicted in use.       *)
OverlapOnlyAfterEviction ==
    \A b \in Buses : Cardinality(Active(b)) > 1 => b \in evicted

(* First come, first served: a call that started was not overtaken by a    *)
(* later one of its mutex, nor did it overtake one that still waits.       *)
FirstComeFirstServed ==
    \A i, j \in DOMAIN order :
      (i < j /\ call[order[i]].mutex = call[order[j]].mutex
             /\ call[order[i]].pc = "queued") => call[order[j]].pc \in {"queued", "dropped"}

(* Nobody waits for ever: callers that go away pass the lock on.           *)
EveryoneServed == \A c \in Calls : call[c].pc = "queued" ~> call[c].pc # "queued"

=============================================================================
