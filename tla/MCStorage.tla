----------------------------- MODULE MCStorage ------------------------------
(***************************************************************************)
(* The parts of the storage stack: drives of two processes ("store") or of *)
(* one connection ("shared"), the conditional-write spaces ("sqlite",      *)
(* "dynamo", "memory"), the checkpoint cache ("race", "limits") and the    *)
(* space cache ("expiry", "pages").  A behaviour is about one of them; the *)
(* others stay as they began.                                              *)
(***************************************************************************)
EXTENDS StorageStack, TLC

CONSTANTS d1, d2, d3, c1, c2, p1, p2, k1, k2, k3

(* Two drives of one connection and one of another process.                *)
MCConnOf == [d \in Drives |-> IF d = d3 THEN c2 ELSE c1]
MCProcessOf == [c \in Conns |-> IF c = c2 THEN p2 ELSE p1]

VARIABLE part

spaceVars  == <<backend, space, clock, seen, request, writes, installed, answered, lost>>
cacheVars  == <<kept, cache, known, call, time, puts, acked, superseded, served>>
valuesVars == <<backing, values, bytes, access, ticks, stores, stale>>

(* Each part with the inputs its question needs.                           *)
Shared == INSTANCE SqliteStore WITH Last <- 0

Database == INSTANCE ConditionalSpace WITH
            Size <- 1, Ttl <- 0, MaxWrites <- 4, MaxClock <- 0, MaxFaults <- MaxLost,
            call <- request, faults <- lost

Race   == INSTANCE StorageCache WITH
            Keys <- {k1}, Sizes <- {1}, MaxClock <- MaxTime,
            Ttl <- CheckpointTtl, MaxEntries <- MaxCheckpoints, MaxValueBytes <- MaxCheckpointBytes,
            MaxEntryBytes <- MaxCheckpointSize, MaxWrites <- MaxPuts,
            store <- kept, clock <- time, writes <- puts
Limits == INSTANCE StorageCache WITH
            Tasks <- {CHOOSE t \in Tasks : TRUE}, Sizes <- CheckpointSizes, MaxClock <- 1,
            Ttl <- CheckpointTtl, MaxEntries <- MaxCheckpoints, MaxValueBytes <- MaxCheckpointBytes,
            MaxEntryBytes <- MaxCheckpointSize, MaxWrites <- MaxPuts,
            store <- kept, clock <- time, writes <- puts

Expiry == INSTANCE SpaceCache WITH
            Addresses <- {k1}, Sizes <- {1}, Ttl <- ValueTtl, MaxClock <- MaxTicks,
            MaxEntries <- MaxValues, MaxEntryBytes <- MaxValueSize, MaxWrites <- MaxStores,
            space <- backing, call <- access, clock <- ticks, writes <- stores
Pages  == INSTANCE SpaceCache WITH
            Addresses <- CachedPlaces,
            Sizes <- ValueSizes, Ttl <- 0, MaxClock <- 0,
            MaxEntries <- MaxValues, MaxEntryBytes <- MaxValueSize, MaxWrites <- MaxStores,
            space <- backing, call <- access, clock <- ticks, writes <- stores

ASSUME StorageConstants ==
    /\ Space!SpaceAssumption /\ Database!SpaceAssumption
    /\ Checkpoints!CacheAssumption /\ Race!CacheAssumption /\ Limits!CacheAssumption
    /\ Values!SpaceCacheAssumption /\ Expiry!SpaceCacheAssumption /\ Pages!SpaceCacheAssumption

AllVars == <<part, vars, spaceVars, cacheVars, valuesVars>>

Backends == {"sqlite", "dynamo", "memory"}

InitStorage ==
    /\ part \in {"store", "shared", "race", "limits", "expiry", "pages"} \cup Backends
    /\ Init
    /\ Space!Init /\ backend = (IF part \in Backends THEN part ELSE "sqlite")
    /\ Checkpoints!Init
    /\ Values!Init

StoreStays  == UNCHANGED <<part, spaceVars, cacheVars, valuesVars>>
SpaceStays  == UNCHANGED <<part, vars, cacheVars, valuesVars>>
CacheStays  == UNCHANGED <<part, vars, spaceVars, valuesVars>>
ValuesStay  == UNCHANGED <<part, vars, spaceVars, cacheVars>>

NextStorage ==
    \/ part = "store" /\ Next /\ drive'[d2] = drive[d2] /\ StoreStays
    \/ part = "shared" /\ Shared!Next /\ drive'[d3] = drive[d3] /\ StoreStays
    \/ part \in {"sqlite", "dynamo"} /\ Database!Next /\ SpaceStays
    \/ part = "memory" /\ Space!Next /\ SpaceStays
    \/ part = "race" /\ Race!Next /\ CacheStays
    \/ part = "limits" /\ Limits!Next /\ CacheStays
    \/ part = "expiry" /\ Expiry!Next /\ ValuesStay
    \/ part = "pages" /\ Pages!Next /\ ValuesStay

SpecStorage == InitStorage /\ [][NextStorage]_AllVars

Symmetry == Permutations(Clients) \cup Permutations(Tasks) \cup Permutations({k2, k3})

=============================================================================
