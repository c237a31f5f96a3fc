---------------------------- MODULE StorageStack ----------------------------
(***************************************************************************)
(* Where the system keeps its state: SqliteStorage under the engine's      *)
(* retries (SqliteStore), the conditional-write spaces below the bus       *)
(* (Space), and the caches in front of both (Checkpoints, Values).         *)
(***************************************************************************)
EXTENDS SqliteStore

CONSTANTS
    \* the spaces
    Clients, Size, SpaceTtl, MaxSpaceWrites, MaxSpaceClock, MaxLost,
    \* the checkpoint cache
    Tasks, Keys, CheckpointTtl, MaxCheckpoints, MaxCheckpointBytes, CheckpointSizes,
    MaxCheckpointSize, MaxPuts, MaxTime,
    \* the space cache
    Clones, CachedPlaces, ValueTtl, MaxValues, MaxValueBytes, MaxValueSize, ValueSizes,
    MaxStores, MaxTicks

VARIABLES
    backend, space, clock, seen, request, writes, installed, answered, lost,
    kept, cache, known, call, time, puts, acked, superseded, served,
    backing, values, bytes, access, ticks, stores, stale

Space == INSTANCE ConditionalSpace WITH
           Ttl <- SpaceTtl, MaxWrites <- MaxSpaceWrites, MaxClock <- MaxSpaceClock,
           MaxFaults <- MaxLost, call <- request, faults <- lost

Checkpoints == INSTANCE StorageCache WITH
                 Ttl <- CheckpointTtl, MaxEntries <- MaxCheckpoints,
                 MaxValueBytes <- MaxCheckpointBytes, Sizes <- CheckpointSizes,
                 MaxEntryBytes <- MaxCheckpointSize, MaxWrites <- MaxPuts, MaxClock <- MaxTime,
                 store <- kept, clock <- time, writes <- puts

Values == INSTANCE SpaceCache WITH
            Addresses <- CachedPlaces,
            Ttl <- ValueTtl, MaxEntries <- MaxValues, MaxEntryBytes <- MaxValueSize,
            Sizes <- ValueSizes, MaxWrites <- MaxStores, MaxClock <- MaxTicks,
            space <- backing, call <- access, clock <- ticks, writes <- stores

-----------------------------------------------------------------------------
(* What the storage answers is what happened, although requests are sent   *)
(* again or outlive their callers: an error only to the put that met it;   *)
(* a rejection only when the entry is settled, so that one retry suffices; *)
(* true for a write that took effect, once and over the very value its     *)
(* caller had read; false, except where a client library resends, for one  *)
(* that did not; as tail the first address that is not live.               *)
AnswersAreTrue ==
    /\ PanicIsolated
    /\ RejectionSettles
    /\ Space!TrueMeansInstalledOnce
    /\ Space!NoBlindOverwrite
    /\ Space!RefusedHasNoEffect
    /\ Space!TailIsContiguous

(* A cache serves what is stored: a checkpoint that was confirmed after    *)
(* the last put of its key began, less than Ttl old and to one read only;  *)
(* a value the backing space holds at that moment.                         *)
CachesServeStored ==
    /\ Checkpoints!CachedIsConfirmed
    /\ Checkpoints!ServedIsFresh
    /\ Checkpoints!ServedOnce
    /\ Values!HitIsStored

(* The byte counts of the caches are exact, their limits hold and no key   *)
(* is cached twice.                                                        *)
CachesWithinLimits == Checkpoints!WithinLimits /\ Values!CacheWithinLimits

=============================================================================
