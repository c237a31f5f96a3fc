----------------------------- MODULE SpaceCache -----------------------------
(***************************************************************************)
(* CachingWriteOnceSpace: clones sharing one LRU cache in front of a       *)
(* write-once space.  Without expiry, confirmed writes and positive reads  *)
(* are cached for good; when the backing entries expire, only confirmed    *)
(* writes are, until a deadline counted from the start of the write.       *)
(*                                                                         *)
(* A backing call takes effect and is answered in separate steps.  `stale` *)
(* is history: a cache hit returned something the space did not hold.      *)
(***************************************************************************)
EXTENDS Integers, SequencesExt, FiniteSetsExt

CONSTANTS
    Clones, Addresses,
    Ttl,             \* lifetime of backing entries in ticks; 0: no expiry
    MaxEntries,      \* limits of the cache; zero disables it
    MaxValueBytes,
    MaxEntryBytes,
    Sizes,           \* value sizes
    MaxWrites, MaxClock

SpaceCacheAssumption ==
    /\ Ttl \in Nat /\ MaxEntries \in Nat /\ MaxValueBytes \in Nat /\ MaxEntryBytes \in Nat
    /\ Sizes \subseteq Nat /\ MaxWrites \in Nat /\ MaxClock \in Nat

VARIABLES
    space,     \* address -> backing entry
    values,    \* cached values, least recently used first
    bytes,     \* value_bytes
    call,      \* each clone's call in flight
    clock, writes,
    stale

vars == <<space, values, bytes, call, clock, writes, stale>>

Nothing == [write |-> 0, size |-> 0, at |-> 0]
NoCall  == [op |-> "none"]

Init ==
    /\ space = [a \in Addresses |-> Nothing]
    /\ values = <<>> /\ bytes = 0
    /\ call = [c \in Clones |-> NoCall]
    /\ clock = 0 /\ writes = 0
    /\ stale = FALSE

(* The backing space's view of an address: external, see ConditionalSpace. *)
Stored(a) == IF Ttl = 0 \/ clock < space[a].at + Ttl THEN space[a] ELSE Nothing

-----------------------------------------------------------------------------
SizeOf(vs) ==
    LET upto[n \in 0 .. Len(vs)] ==
          IF n = 0 THEN 0 ELSE upto[n - 1] + vs[n].value.size
    IN  upto[Len(vs)]

CachedAt(a) == {i \in DOMAIN values : values[i].addr = a}

Servable(a) == {i \in CachedAt(a) : Ttl = 0 \/ clock < values[i].expires}

(* Any lookup of a cached key, expired or not, makes it the most recent.   *)
Touched(a) ==
    IF CachedAt(a) = {} THEN values
    ELSE LET hit == CHOOSE i \in CachedAt(a) : TRUE
         IN  Append(RemoveAt(values, hit), values[hit])

(* Mutant: a key that is cached already is pushed again.                   *)
CachesTwice(a, value) ==
    /\ MaxEntries > 0 /\ MaxValueBytes > 0
    /\ value.size <= MaxValueBytes /\ value.size <= MaxEntryBytes

Cacheable(a, value) ==
    /\ MaxEntries > 0 /\ MaxValueBytes > 0 /\ MaxEntryBytes > 0
    /\ value.size <= MaxValueBytes /\ value.size <= MaxEntryBytes
    /\ \A i \in DOMAIN values : values[i].addr # a

(* Cache::insert: evict until the value fits, then push.                   *)
Insert(a, value, expires) ==
    IF ~ Cacheable(a, value) THEN UNCHANGED <<values, bytes>>
    ELSE LET n    == Min({m \in 0 .. Len(values) :
                       bytes - SizeOf(SubSeq(values, 1, m)) + value.size <= MaxValueBytes})
             kept == SubSeq(values, n + 1, Len(values))
             full == Len(kept) = MaxEntries
         IN  /\ values' = Append(IF full THEN Tail(kept) ELSE kept,
                                 [addr |-> a, value |-> value, expires |-> expires])
             /\ bytes' = bytes - SizeOf(SubSeq(values, 1, n)) + value.size
                           - (IF full THEN Head(kept).value.size ELSE 0)

-----------------------------------------------------------------------------
ReadHit(c, a) ==
    /\ call[c] = NoCall
    /\ \E i \in Servable(a) :
         stale' = (stale \/ values[i].value.write # Stored(a).write)
    /\ values' = Touched(a)
    /\ UNCHANGED <<space, bytes, call, clock, writes>>

ReadMiss(c, a) ==
    /\ call[c] = NoCall
    /\ Servable(a) = {}
    /\ values' = Touched(a)
    /\ call' = [call EXCEPT ![c] = [op |-> "read", addr |-> a]]
    /\ UNCHANGED <<space, bytes, clock, writes, stale>>

ReadInner(c) ==
    /\ call[c].op = "read"
    /\ LET a == call[c].addr IN
       call' = [call EXCEPT ![c] = IF Stored(a) = Nothing THEN NoCall
                                   ELSE [op |-> "found", addr |-> a, value |-> Stored(a)]]
    /\ UNCHANGED <<space, values, bytes, clock, writes, stale>>

ReadsPopulate == Ttl = 0

ReadFound(c) ==
    /\ call[c].op = "found"
    /\ IF ReadsPopulate THEN Insert(call[c].addr, call[c].value, clock + Ttl)
       ELSE UNCHANGED <<values, bytes>>
    /\ call' = [call EXCEPT ![c] = NoCall]
    /\ UNCHANGED <<space, clock, writes, stale>>

WriteBegin(c, a) ==
    /\ call[c] = NoCall /\ writes < MaxWrites
    /\ writes' = writes + 1
    /\ \E size \in Sizes :
         call' = [call EXCEPT ![c] =
           [op |-> "write", addr |-> a, expires |-> clock + Ttl,
            value |-> [write |-> writes + 1, size |-> size, at |-> 0]]]
    /\ UNCHANGED <<space, values, bytes, clock, stale>>

(* The backing write: refused, or done; its answer may still be an error.  *)
WriteEffect(c) ==
    /\ call[c].op = "write"
    /\ LET a == call[c].addr IN
       IF Stored(a) = Nothing
       THEN /\ space' = [space EXCEPT ![a] = [call[c].value EXCEPT !.at = clock]]
            /\ \E op \in {"ok", "error"} : call' = [call EXCEPT ![c].op = op]
       ELSE /\ call' = [call EXCEPT ![c].op = "error"]
            /\ UNCHANGED space
    /\ UNCHANGED <<values, bytes, clock, writes, stale>>

(* Mutant: the deadline counts from the answer of the write.               *)
FromAnswer(c) == clock + Ttl

Deadline(c) == call[c].expires

WriteReturn(c) ==
    /\ call[c].op \in {"ok", "error"}
    /\ IF call[c].op = "ok" THEN Insert(call[c].addr, call[c].value, Deadline(c))
       ELSE UNCHANGED <<values, bytes>>
    /\ call' = [call EXCEPT ![c] = NoCall]
    /\ UNCHANGED <<space, clock, writes, stale>>

Tick ==
    /\ clock < MaxClock
    /\ clock' = clock + 1
    /\ UNCHANGED <<space, values, bytes, call, writes, stale>>

Next ==
    \/ \E c \in Clones :
         \/ \E a \in Addresses : ReadHit(c, a) \/ ReadMiss(c, a) \/ WriteBegin(c, a)
         \/ ReadInner(c) \/ ReadFound(c) \/ WriteEffect(c) \/ WriteReturn(c)
    \/ Tick

Spec == Init /\ [][Next]_vars

-----------------------------------------------------------------------------
(* "Caches confirmed immutable values": a hit returns what the backing     *)
(* space holds at that moment, although addresses expire and are written   *)
(* again while answers are delayed.                                        *)
HitIsStored == ~ stale

(* The byte count is exact, the limits hold and no key is cached twice.    *)
CacheWithinLimits ==
    /\ bytes = SizeOf(values) /\ bytes <= MaxValueBytes /\ Len(values) <= MaxEntries
    /\ \A i, j \in DOMAIN values : values[i].addr = values[j].addr => i = j

=============================================================================
