---------------------------- MODULE StorageCache ----------------------------
(***************************************************************************)
(* CachingStorage: a cache of acknowledged checkpoint writes in front of   *)
(* the engine's compare-and-swap storage, shared by the tasks of one       *)
(* process.  A put takes effect and is answered later, in separate steps;  *)
(* other processes write the storage directly.                             *)
(*                                                                         *)
(* `acked`, `superseded` and `served` are history.                         *)
(***************************************************************************)
EXTENDS Integers, SequencesExt, FiniteSetsExt

CONSTANTS
    Tasks, Keys,
    Ttl,             \* freshness bound, in ticks
    MaxEntries,      \* limits of the cache; zero disables it
    MaxValueBytes,
    Sizes,           \* value sizes
    MaxEntryBytes,   \* MAX_ENTRY_VALUE_BYTES
    MaxWrites,       \* bound on puts
    MaxClock         \* bound on the clock

CacheAssumption ==
    /\ Ttl \in Nat /\ MaxEntries \in Nat /\ MaxValueBytes \in Nat
    /\ Sizes \subseteq Nat /\ MaxEntryBytes \in Nat
    /\ MaxWrites \in Nat /\ MaxClock \in Nat

VARIABLES
    store,       \* key -> its checkpoint in the backing storage
    cache,       \* values, least recently used first, and the count of their bytes
    known,       \* task -> key -> position it last learned
    call,        \* each task's operation in flight
    clock, writes,
    acked,       \* key -> writes acknowledged since a put of it last began or failed
    superseded,  \* write -> when the storage replaced it; NotYet
    served       \* writes returned from the cache, with the times they were

vars == <<store, cache, known, call, clock, writes, acked, superseded, served>>

NotYet  == -1
NoValue == [write |-> 0, position |-> 0, size |-> 0]
NoCall  == [op |-> "none"]

Init ==
    /\ store = [k \in Keys |-> NoValue]
    /\ cache = [values |-> <<>>, bytes |-> 0]
    /\ known = [t \in Tasks |-> [k \in Keys |-> 0]]
    /\ call = [t \in Tasks |-> NoCall]
    /\ clock = 0 /\ writes = 0
    /\ acked = [k \in Keys |-> {}]
    /\ superseded = [w \in 1 .. MaxWrites |-> NotYet]
    /\ served = <<>>

-----------------------------------------------------------------------------
(* The cache: a value with its key and the time it expires.                *)

Cached(c, k) == {i \in DOMAIN c.values : c.values[i].key = k}

SizeOf(values) ==
    LET upto[n \in 0 .. Len(values)] ==
          IF n = 0 THEN 0 ELSE upto[n - 1] + values[n].value.size
    IN  upto[Len(values)]

(* Cache::get: the value leaves the cache, and its bytes the count.        *)
Pop(c, i) == [values |-> RemoveAt(c.values, i), bytes |-> c.bytes - c.values[i].value.size]

Without(c, k) == IF Cached(c, k) = {} THEN c ELSE Pop(c, CHOOSE i \in Cached(c, k) : TRUE)

(* Least recently used values go until the new one fits.                   *)
MakeRoom(c, size) ==
    LET BytesLeft(m) == c.bytes - SizeOf(SubSeq(c.values, 1, m))
        n == Min({m \in 0 .. Len(c.values) : BytesLeft(m) + size <= MaxValueBytes})
    IN  [values |-> SubSeq(c.values, n + 1, Len(c.values)), bytes |-> BytesLeft(n)]

(* Mutant: the bytes of the value push evicts stay counted.                *)
PushLeak(c, e) ==
    [values |-> Append(IF Len(c.values) = MaxEntries THEN Tail(c.values) ELSE c.values, e),
     bytes  |-> c.bytes + e.value.size]

(* push evicts the least recently used value when the cache is full.       *)
Push(c, e) ==
    LET full == Len(c.values) = MaxEntries IN
    [values |-> Append(IF full THEN Tail(c.values) ELSE c.values, e),
     bytes  |-> c.bytes + e.value.size - (IF full THEN Head(c.values).value.size ELSE 0)]

Bypass(size) ==
    \/ MaxEntries = 0 \/ MaxValueBytes = 0
    \/ size > MaxValueBytes \/ size > MaxEntryBytes

Insert(c, e) ==
    IF \E i \in Cached(c, e.key) : c.values[i].value.position >= e.value.position
    THEN c
    ELSE IF Bypass(e.value.size) THEN Without(c, e.key)
    ELSE Push(MakeRoom(Without(c, e.key), e.value.size), e)

-----------------------------------------------------------------------------
(* Mutant: a hit leaves the value in the cache.                            *)
TakePeek(k) == cache

Take(k) == Without(cache, k)

(* get: consume the cached value; a fresh one is the answer.               *)
GetHit(t, k) ==
    /\ call[t] = NoCall
    /\ \E i \in Cached(cache, k) :
         /\ clock < cache.values[i].expires
         /\ known' = [known EXCEPT ![t][k] = cache.values[i].value.position]
         /\ served' = Append(served, [write |-> cache.values[i].value.write, at |-> clock])
    /\ cache' = Take(k)
    /\ UNCHANGED <<store, call, clock, writes, acked, superseded>>

GetMiss(t, k) ==
    /\ call[t] = NoCall
    /\ \A i \in Cached(cache, k) : clock >= cache.values[i].expires
    /\ cache' = Without(cache, k)
    /\ call' = [call EXCEPT ![t] = [op |-> "get", key |-> k]]
    /\ UNCHANGED <<store, known, clock, writes, acked, superseded, served>>

GetInner(t) ==
    /\ call[t].op = "get"
    /\ known' = [known EXCEPT ![t][call[t].key] = store[call[t].key].position]
    /\ call' = [call EXCEPT ![t] = NoCall]
    /\ UNCHANGED <<store, cache, clock, writes, acked, superseded, served>>

(* Mutant: the cached value stays until the put is answered.               *)
InvalidateLater(k) == cache

Invalidate(k) == Without(cache, k)

(* put: invalidate, note the deadline, call the storage.                   *)
PutBegin(t, k) ==
    /\ call[t] = NoCall /\ writes < MaxWrites
    /\ writes' = writes + 1
    /\ cache' = Invalidate(k)
    /\ \E size \in Sizes :
         call' = [call EXCEPT ![t] =
           [op |-> "put", key |-> k, expected |-> known[t][k], expires |-> clock + Ttl,
            value |-> [write |-> writes + 1, position |-> known[t][k] + 1, size |-> size]]]
    /\ acked' = [acked EXCEPT ![k] = {}]
    /\ UNCHANGED <<store, known, clock, superseded, served>>

(* The backing storage compares the position and swaps.                    *)
Swap(k, value) ==
    /\ store' = [store EXCEPT ![k] = value]
    /\ superseded' = IF store[k].write = 0 THEN superseded
                     ELSE [superseded EXCEPT ![store[k].write] = clock]

PutEffect(t) ==
    /\ call[t].op = "put"
    /\ LET ok == store[call[t].key].position = call[t].expected IN
       /\ IF ok THEN Swap(call[t].key, call[t].value) ELSE UNCHANGED <<store, superseded>>
       /\ \E lost \in BOOLEAN :
            call' = [call EXCEPT ![t].op =
                       IF lost THEN "failed" ELSE IF ok THEN "true" ELSE "false"]
    /\ UNCHANGED <<cache, known, clock, writes, acked, served>>

(* Mutant: the deadline counts from the answer.                            *)
FromAnswer(t) == clock + Ttl

Deadline(t) == call[t].expires

PutAcknowledged(t) ==
    /\ call[t].op = "true"
    /\ LET k == call[t].key IN
       /\ cache' = Insert(cache, [key |-> k, value |-> call[t].value, expires |-> Deadline(t)])
       /\ known' = [known EXCEPT ![t][k] = call[t].value.position]
       /\ acked' = [acked EXCEPT ![k] = @ \cup {call[t].value.write}]
    /\ call' = [call EXCEPT ![t] = NoCall]
    /\ UNCHANGED <<store, clock, writes, superseded, served>>

(* A refused put, or an error that leaves its outcome unknown.             *)
PutUnconfirmed(t) ==
    /\ call[t].op \in {"false", "failed"}
    /\ cache' = Without(cache, call[t].key)
    /\ acked' = [acked EXCEPT ![call[t].key] = {}]
    /\ call' = [call EXCEPT ![t] = NoCall]
    /\ UNCHANGED <<store, known, clock, writes, superseded, served>>

(* Another process checkpoints.                                            *)
ExternalPut(k) ==
    /\ writes < MaxWrites
    /\ writes' = writes + 1
    /\ Swap(k, [write |-> writes + 1, position |-> store[k].position + 1, size |-> 0])
    /\ UNCHANGED <<cache, known, call, clock, acked, served>>

Tick ==
    /\ clock < MaxClock
    /\ clock' = clock + 1
    /\ UNCHANGED <<store, cache, known, call, writes, acked, superseded, served>>

Next ==
    \/ \E t \in Tasks :
         \/ \E k \in Keys : GetHit(t, k) \/ GetMiss(t, k) \/ PutBegin(t, k)
         \/ GetInner(t) \/ PutEffect(t) \/ PutAcknowledged(t) \/ PutUnconfirmed(t)
    \/ \E k \in Keys : ExternalPut(k)
    \/ Tick

Spec == Init /\ [][Next]_vars

-----------------------------------------------------------------------------
(* The byte count is that of the values cached, both limits hold and no    *)
(* key is cached twice, whatever is inserted, consumed and evicted.        *)
WithinLimits ==
    /\ cache.bytes = SizeOf(cache.values) /\ cache.bytes <= MaxValueBytes
    /\ Len(cache.values) <= MaxEntries
    /\ \A i, j \in DOMAIN cache.values : cache.values[i].key = cache.values[j].key => i = j

(* "Freshness bound measured from the start of a write": a value served    *)
(* from the cache was still the stored one less than Ttl before.           *)
ServedIsFresh ==
    \A i \in DOMAIN served :
      LET s == superseded[served[i].write] IN s = NotYet \/ served[i].at - s < Ttl

(* "one optimistic engine read": no acknowledged write is served twice.    *)
ServedOnce ==
    \A i, j \in DOMAIN served : served[i].write = served[j].write => i = j

(* "invalidate unconfirmed values": what is cached was acknowledged after  *)
(* the last put of its key began and after the last failed one returned.   *)
CachedIsConfirmed ==
    \A i \in DOMAIN cache.values : cache.values[i].value.write \in acked[cache.values[i].key]

=============================================================================
