------------------------------- MODULE Engine -------------------------------
(***************************************************************************)
(* BaseEngine on one bus: any number of drives (propose_intention calls)   *)
(* and of create_bus calls share a log and two kinds of compare-and-swap   *)
(* slots, the engine checkpoint and one slot per FirstBooleanWins decider. *)
(* Each action is what a call does between two of its awaits.              *)
(*                                                                         *)
(* The log and the slots are linearizable and the log is append-only.  A   *)
(* call that fails, times out or crashes stops at any await (Fail); an     *)
(* ambiguous timeout is the effect followed by Fail.                       *)
(*                                                                         *)
(* `replay` is a history variable: replay[p + 1] is the engine state that  *)
(* the log's entries 0 .. p-1 determine.  No action reads it.              *)
(***************************************************************************)
EXTENDS EnginePolicy, FiniteSets

CONSTANTS
    Drives,           \* propose_intention calls
    Creators,         \* create_bus calls
    Kinds,            \* the kinds of intention the drives propose
    Supported,        \* the voter configs that a call's node validates and builds
    ExternalEntries,  \* what other bus clients may append
    MaxExternal,      \* bound on those appends
    MaxFaults,        \* bound on failed calls and storage conflicts
    MaxRetries        \* RetryConfig::max_retries

Calls == Drives \cup Creators

ASSUME CallsAssumption ==
    Drives \cap Creators = {} /\ Kinds \subseteq {"string", "group"}

ASSUME VotersAssumption == IsFiniteSet(VoterIds)

ASSUME BoundsAssumption ==
    MaxExternal \in Nat /\ MaxFaults \in Nat /\ MaxRetries \in Nat

(* Nodes run different builds and factories: what one supports, another    *)
(* may refuse.  A factory builds the configs it validates and no other.    *)
ASSUME SupportedAssumption == Supported \in [Calls -> SUBSET Configs]

(* Decisions and policy batches in the log are the engine's own, except    *)
(* for batches that no node can read.                                      *)
ASSUME ExternalAssumption ==
    /\ ExternalEntries \subseteq
         (IntentionEntry \cup VoteEntry \cup LegacyEntry \cup BatchEntry)
    /\ \A e \in ExternalEntries : e.type = "PolicyBatch" => Broken(e)

VARIABLES
    log,           \* the bus
    replay,        \* history: replay[p + 1] is the state before entry p
    engineSlot,    \* stored engine state and its position
    deciderSlots,  \* stored FirstBooleanWins states, by decider id
    published,     \* how many revisions the policy provider has
    pc,            \* where each call is
    ctx,           \* each call's locals
    external,      \* external appends so far
    faults         \* failures and conflicts so far

vars == <<log, replay, engineSlot, deciderSlots, published, pc, ctx,
          external, faults>>

-----------------------------------------------------------------------------
(* State.                                                                  *)

Cursor == Positions \cup {MaxLog}

Snapshot == [position : Positions \cup {NoPosition}, state : EngineState]

EmptySnapshot == [position |-> NoPosition, state |-> InitState]

(* `last` is the code's Option<Payload>: a sequence of at most one entry.  *)
DeciderSlot ==
    [position : Positions \cup {NoPosition},
     pending  : Positions \cup {NoPosition},
     last     : {<<>>} \cup {<<e>> : e \in DecisionEntry}]

EmptyDecider ==
    [position |-> NoPosition, pending |-> NoPosition, last |-> <<>>]

(* ConcurrencyRetryPolicy together with the count kept by retry().         *)
Retry == [cas : BOOLEAN, n : 0 .. MaxRetries]

FreshRetry == [cas |-> FALSE, n |-> 0]

Context ==
    [snap     : Snapshot,
     version  : Versions \cup {NoVersion},
     first    : Positions \cup {NoPosition},
     prop     : Positions \cup {NoPosition},
     pos      : Cursor,
     known    : Positions \cup {NoPosition},
     out      : Seq(VoteEntry \cup DecisionEntry),
     decider  : DeciderSlot,
     retry    : Retry,
     dretry   : Retry]

FreshContext ==
    [snap    |-> EmptySnapshot, version |-> NoVersion, first |-> NoPosition,
     prop    |-> NoPosition, pos |-> 0, known |-> NoPosition, out |-> <<>>,
     decider |-> EmptyDecider, retry |-> FreshRetry, dretry |-> FreshRetry]

(* How a call ends: an outcome, or an error to its caller.                 *)
Outcomes == {"Commit", "Abort"}
Terminal == Outcomes \cup
    {"Created", "PolicyError", "PlanError", "BusDataLoss", "Stopped",
     "Concurrency", "Failed"}

Steps == {"idle", "policy", "batch", "intend", "scan", "force",
          "save", "append", "reload",
          "create", "createAppend", "createSave"}

EntryAt(p) == log[p + 1]

(* The engine state in force when entry p is applied.                      *)
StateAt(p) == replay[p + 1]

Larger(a, b) == IF a >= b THEN a ELSE b

Init ==
    /\ log = <<>>
    /\ replay = <<InitState>>
    /\ engineSlot = EmptySnapshot
    /\ deciderSlots = [id \in Positions |-> EmptyDecider]
    /\ published = 1
    /\ pc = [c \in Calls |-> IF c \in Drives THEN "idle" ELSE "create"]
    /\ ctx = [c \in Calls |-> FreshContext]
    /\ external = 0
    /\ faults = 0

-----------------------------------------------------------------------------
(* The bus and the storage.                                                *)

AppendEntry(e) ==
    /\ Len(log) < MaxLog
    /\ log' = Append(log, e)
    /\ replay' = Append(replay, ReplayStep(replay[Len(replay)], e, Len(log)))

(* Mutant: the storage does not compare the expected position.             *)
BlindPut(slot, expected, position) == TRUE

(* Storage::put accepts a write.                                           *)
CasAccepts(slot, expected, position) ==
    /\ slot.position = expected
    /\ slot.position = NoPosition \/ position > slot.position

(* ConcurrencyRetryPolicy::decide inside retry(): whether another attempt  *)
(* follows a rejected CAS or a transaction conflict.                       *)
RetriesRejection(r) == ~ r.cas /\ r.n < MaxRetries
RetriesConflict(r)  == r.n < MaxRetries

AfterRejection(r) == [cas |-> TRUE, n |-> r.n + 1]
AfterConflict(r)  == [cas |-> r.cas, n |-> r.n + 1]

(* A call returns at entry `pos`: its locals are dropped.                  *)
Return(c, result, pos) ==
    /\ pc' = [pc EXCEPT ![c] = result]
    /\ ctx' = [ctx EXCEPT ![c] =
                 [FreshContext EXCEPT !.prop = ctx[c].prop, !.pos = pos]]

-----------------------------------------------------------------------------
(* The environment.                                                        *)

Publish ==
    /\ published < NumVersions
    /\ published' = published + 1
    /\ UNCHANGED <<log, replay, engineSlot, deciderSlots, pc, ctx, external, faults>>

ExternalAppend(e) ==
    /\ external < MaxExternal
    /\ external' = external + 1
    /\ AppendEntry(e)
    /\ UNCHANGED <<engineSlot, deciderSlots, published, pc, ctx, faults>>

(* The call is dropped, or an operation it awaits returns an error.        *)
Fail(c) ==
    /\ pc[c] \notin Terminal \cup {"idle", "create"}
    /\ faults < MaxFaults
    /\ faults' = faults + 1
    /\ Return(c, "Failed", ctx[c].pos)
    /\ UNCHANGED <<log, replay, engineSlot, deciderSlots, published, external>>

-----------------------------------------------------------------------------
(* create_bus: append the initial policy, checkpoint it on a fresh bus.    *)

InitialBatch(version) == Plan(InitState, Absent, version)

(* A provider built with the node's check hands over no revision with a    *)
(* config the node does not support; one built without it hands over all.  *)
ProviderRefuses(c, version) ==
    ~ Builds(Supported[c], PolicyOf[version]) /\ Return(c, "PolicyError", ctx[c].pos)

CreateReadPolicy(c) ==
    /\ pc[c] = "create"
    /\ \E v \in 0 .. (published - 1) :
         \/ ProviderRefuses(c, v)
         \/ /\ ctx' = [ctx EXCEPT ![c].version = v]
            /\ pc' = [pc EXCEPT ![c] = "createAppend"]
    /\ UNCHANGED <<log, replay, engineSlot, deciderSlots, published, external, faults>>

(* Mutant: create_bus checkpoints wherever its batch landed.               *)
AnyAppend(position) == TRUE

FirstOnBus(position) == position = 0

(* The first batch on the bus is applied at once: the creator's own node   *)
(* may refuse what it has just appended.                                   *)
CreateAppend(c) ==
    LET batch   == InitialBatch(ctx[c].version)
        refused == RefusedBy(Supported[c], InitState, batch) IN
    /\ pc[c] = "createAppend"
    /\ AppendEntry(batch)
    /\ IF ~ FirstOnBus(Len(log)) THEN Return(c, "Created", ctx[c].pos)
       ELSE IF refused THEN Return(c, "Stopped", Len(log))
       ELSE pc' = [pc EXCEPT ![c] = "createSave"] /\ UNCHANGED ctx
    /\ UNCHANGED <<engineSlot, deciderSlots, published, external, faults>>

(* A rejected write is ignored: the batch is in the log.                   *)
CreateSave(c) ==
    /\ pc[c] = "createSave"
    /\ engineSlot' =
         IF CasAccepts(engineSlot, NoPosition, 0)
           THEN [position |-> 0,
                 state |-> ApplyPolicyBatch(InitState, InitialBatch(ctx[c].version), 0)]
           ELSE engineSlot
    /\ Return(c, "Created", ctx[c].pos)
    /\ UNCHANGED <<log, replay, deciderSlots, published, external, faults>>

(* So is a failed one.                                                     *)
CreateSaveFails(c) ==
    /\ pc[c] = "createSave"
    /\ faults < MaxFaults
    /\ faults' = faults + 1
    /\ Return(c, "Created", ctx[c].pos)
    /\ UNCHANGED <<log, replay, engineSlot, deciderSlots, published, external>>

-----------------------------------------------------------------------------
(* propose_intention, up to its append.                                    *)

LoadSnapshot(d) ==
    /\ pc[d] = "idle"
    /\ ctx' = [ctx EXCEPT ![d].snap = engineSlot]
    /\ pc' = [pc EXCEPT ![d] = "policy"]
    /\ UNCHANGED <<log, replay, engineSlot, deciderSlots, published, external, faults>>

(* The provider may return any revision it has published.                  *)
ReadPolicy(d) ==
    LET st == ctx[d].snap.state IN
    /\ pc[d] = "policy"
    /\ \E v \in 0 .. (published - 1) :
         \/ ProviderRefuses(d, v)
         \/ IF PlanNeeded(st, v) /\ PlanFails(st, v)
              THEN Return(d, "PlanError", ctx[d].pos)
              ELSE /\ ctx' = [ctx EXCEPT ![d].version = v]
                   /\ pc' = [pc EXCEPT ![d] = IF PlanNeeded(st, v)
                                                THEN "batch" ELSE "intend"]
    /\ UNCHANGED <<log, replay, engineSlot, deciderSlots, published, external, faults>>

AppendPolicy(d) ==
    LET st == ctx[d].snap.state IN
    /\ pc[d] = "batch"
    /\ AppendEntry(Plan(st, st.decider.policy, ctx[d].version))
    /\ ctx' = [ctx EXCEPT ![d].first = Len(log)]
    /\ pc' = [pc EXCEPT ![d] = "intend"]
    /\ UNCHANGED <<engineSlot, deciderSlots, published, external, faults>>

FirstAppend(d) == IF ctx[d].first = NoPosition THEN Len(log) ELSE ctx[d].first

(* Mutant: playback resumes at the checkpoint instead of after it.         *)
ResumeAtCheckpoint(s) == s.position

ResumeAt(s) == s.position + 1

AppendIntention(d) ==
    /\ pc[d] = "intend"
    /\ \E kind \in Kinds :
         AppendEntry(Intention(ctx[d].version, kind))
    /\ IF FirstAppend(d) <= ctx[d].snap.position
         THEN Return(d, "BusDataLoss", ctx[d].pos)
         ELSE /\ ctx' = [ctx EXCEPT ![d].prop  = Len(log),
                                    ![d].known = Len(log),
                                    ![d].pos   = ResumeAt(ctx[d].snap)]
              /\ pc' = [pc EXCEPT ![d] = "scan"]
    /\ UNCHANGED <<engineSlot, deciderSlots, published, external, faults>>

-----------------------------------------------------------------------------
(* sync_and_apply: the loop over the log.  A drive reads up to `known`,    *)
(* which it moves to the tail when it has consumed that much.              *)

(* What the loop stops at: the proposal's own decision, or an entry to     *)
(* apply.  It passes over decisions for other intentions and over entries  *)
(* behind its snapshot without an await.                                   *)
Attention(d) ==
    {i \in ctx[d].pos .. ctx[d].known :
       \/ IsDecision(EntryAt(i)) /\ EntryAt(i).intention = ctx[d].prop
       \/ RequiresApplication(EntryAt(i)) /\ i > ctx[d].snap.position}

Reaches(d, i) ==
    /\ pc[d] = "scan"
    /\ i \in Attention(d)
    /\ \A j \in Attention(d) : i <= j

(* What the drive has consumed, and whether that is the whole log.         *)
Consumed(d) == Larger(ctx[d].pos, ctx[d].known + 1)

(* Mutant: no tail is read, the drive trusts the last one it knows.        *)
KnownIsTail(d) == TRUE

(* Mutant: a drained log is polled again instead of decided.               *)
NeverDrained(d) == FALSE

Drained(d) == Consumed(d) >= Len(log)

CheckTail(d) ==
    /\ pc[d] = "scan"
    /\ Attention(d) = {}
    /\ ctx' = [ctx EXCEPT ![d].pos   = Consumed(d),
                          ![d].known = IF Drained(d) THEN @ ELSE Len(log) - 1,
                          ![d].retry = FreshRetry]
    /\ pc' = [pc EXCEPT ![d] = IF Drained(d) THEN "force" ELSE "scan"]
    /\ UNCHANGED <<log, replay, engineSlot, deciderSlots, published, external, faults>>

(* Mutant: the forced abort is answered without reading what preceded it.  *)
ForceAbortAndReturn(d) ==
    /\ pc[d] = "force"
    /\ AppendEntry(Decision(ctx[d].prop, FALSE, "drained"))
    /\ Return(d, "Abort", Len(log))
    /\ UNCHANGED <<engineSlot, deciderSlots, published, external, faults>>

ForceAbort(d) ==
    /\ pc[d] = "force"
    /\ AppendEntry(Decision(ctx[d].prop, FALSE, "drained"))
    /\ ctx' = [ctx EXCEPT ![d].known = Larger(@, Len(log))]
    /\ pc' = [pc EXCEPT ![d] = "scan"]
    /\ UNCHANGED <<engineSlot, deciderSlots, published, external, faults>>

ReadOutcome(d) ==
    \E i \in Attention(d) :
        /\ Reaches(d, i)
        /\ IsDecision(EntryAt(i))
        /\ Return(d, EntryAt(i).type, i)
        /\ UNCHANGED <<log, replay, engineSlot, deciderSlots, published, external, faults>>

-----------------------------------------------------------------------------
(* apply_entry_once, step 1: the decider, then the voters.                 *)

(* What the stateless deciders answer.                                     *)
DefaultDecision(st, e, p) ==
    IF e.type # "Intention" THEN <<>>
    ELSE IF st.decider.policy = "OnByDefault" THEN <<Decision(p, TRUE, "default")>>
    ELSE IF st.decider.policy = "OffByDefault" THEN <<Decision(p, FALSE, "default")>>
    ELSE <<>>

ConsultsSlot(st, e) ==
    /\ st.decider.policy = "FirstBooleanWins"
    /\ e.type \in {"Intention", "Vote"}
    /\ ~ PolicyConstraintFailure(st, e)

(* StatelessVoterAdapter votes on string intentions; its answer may differ *)
(* from one evaluation to the next.                                        *)
VoterOutputs(st, e, p) ==
    IF e.type = "Intention" /\ e.kind = "string"
      THEN {[i \in 1 .. Cardinality(Installed(st)) |-> Vote(p, b[i])] :
              b \in [1 .. Cardinality(Installed(st)) -> {"true", "false"}]}
      ELSE {<<>>}

(* A new entry starts with fresh retry budgets; another attempt at the     *)
(* same entry keeps them.                                                  *)
Budget(d, i, r) == IF i = ctx[d].pos THEN r ELSE FreshRetry

(* The drive holds entry i's outputs: the decider's, then the voters'.     *)
Hold(d, i, decision) ==
    /\ \E votes \in VoterOutputs(ctx[d].snap.state, EntryAt(i), i) :
         ctx' = [ctx EXCEPT ![d].pos = i, ![d].out = decision \o votes,
                            ![d].decider = EmptyDecider,
                            ![d].retry = Budget(d, i, @), ![d].dretry = FreshRetry]
    /\ pc' = [pc EXCEPT ![d] = "append"]

(* The voters are built after the decider was applied and saved: on a node *)
(* that cannot build one of them its output is left to another drive.      *)
Produce(d, i, decision) ==
    \/ Builds(Supported[d], ctx[d].snap.state) /\ Hold(d, i, decision)
    \/ ~ Builds(Supported[d], ctx[d].snap.state) /\ Return(d, "Stopped", i)

RejectIntention(d) ==
    \E i \in Attention(d) :
        /\ Reaches(d, i)
        /\ PolicyConstraintFailure(ctx[d].snap.state, EntryAt(i))
        /\ ctx' = [ctx EXCEPT ![d].pos = i, ![d].retry = Budget(d, i, @),
                              ![d].out = <<Decision(i, FALSE, "constraint")>>]
        /\ pc' = [pc EXCEPT ![d] = "append"]
        /\ UNCHANGED <<log, replay, engineSlot, deciderSlots, published, external, faults>>

(* The deciders without state, and entries no decider takes.               *)
ApplyStateless(d) ==
    LET st == ctx[d].snap.state IN
    \E i \in Attention(d) :
        /\ Reaches(d, i)
        /\ RequiresApplication(EntryAt(i))
        /\ ~ PolicyConstraintFailure(st, EntryAt(i))
        /\ ~ ConsultsSlot(st, EntryAt(i))
        /\ Produce(d, i, DefaultDecision(st, EntryAt(i), i))
        /\ UNCHANGED <<log, replay, engineSlot, deciderSlots, published, external, faults>>

(* Mutant: an undecided intention keeps the pending slot.                  *)
KeepsFirst(slot, e, p) ==
    LET decides == /\ e.type = "Vote"
                   /\ slot.pending = e.intention
                   /\ e.vote # "other" IN
    [position |-> p,
     pending  |-> IF e.type = "Intention" /\ slot.pending = NoPosition THEN p
                  ELSE IF decides THEN NoPosition ELSE slot.pending,
     last     |-> IF decides
                    THEN <<Decision(e.intention, e.vote = "true", "vote")>>
                    ELSE <<>>]

(* FirstBooleanWinsApplicator::apply: the transition on one entry.         *)
FirstBooleanWins(slot, e, p) ==
    LET decides == /\ e.type = "Vote"
                   /\ slot.pending = e.intention
                   /\ e.vote # "other" IN
    [position |-> p,
     pending  |-> IF e.type = "Intention" THEN p
                  ELSE IF decides THEN NoPosition ELSE slot.pending,
     last     |-> IF decides
                    THEN <<Decision(e.intention, e.vote = "true", "vote")>>
                    ELSE <<>>]

DeciderId(d) == ctx[d].snap.state.decider.id

(* Mutant: the stored payload is not returned on re-delivery.              *)
ForgetsOutput(slot, i) == <<>>

(* Stale: nothing is produced.  The last entry again: its stored payload.  *)
Redelivered(slot, i) == IF i = slot.position THEN slot.last ELSE <<>>

LoadDecider(d) ==
    LET slot == deciderSlots[DeciderId(d)] IN
    \E i \in Attention(d) :
        /\ Reaches(d, i)
        /\ ConsultsSlot(ctx[d].snap.state, EntryAt(i))
        /\ IF i > slot.position
             THEN /\ ctx' = [ctx EXCEPT ![d].pos = i, ![d].decider = slot,
                                        ![d].retry = Budget(d, i, @)]
                  /\ pc' = [pc EXCEPT ![d] = "save"]
             ELSE Produce(d, i, Redelivered(slot, i))
        /\ UNCHANGED <<log, replay, engineSlot, deciderSlots, published, external, faults>>

SaveDecider(d) ==
    LET p   == ctx[d].pos
        new == FirstBooleanWins(ctx[d].decider, EntryAt(p), p) IN
    /\ pc[d] = "save"
    /\ CasAccepts(deciderSlots[DeciderId(d)], ctx[d].decider.position, p)
    /\ deciderSlots' = [deciderSlots EXCEPT ![DeciderId(d)] = new]
    /\ Produce(d, p, new.last)
    /\ UNCHANGED <<log, replay, engineSlot, published, external, faults>>

RetryDecider(d, again, r) ==
    /\ IF again
         THEN /\ ctx' = [ctx EXCEPT ![d].decider = EmptyDecider, ![d].dretry = r]
              /\ pc' = [pc EXCEPT ![d] = "scan"]
         ELSE Return(d, "Concurrency", ctx[d].pos)
    /\ UNCHANGED <<log, replay, engineSlot, deciderSlots, published, external>>

DeciderRejected(d) ==
    /\ pc[d] = "save"
    /\ ~ CasAccepts(deciderSlots[DeciderId(d)], ctx[d].decider.position, ctx[d].pos)
    /\ RetryDecider(d, RetriesRejection(ctx[d].dretry), AfterRejection(ctx[d].dretry))
    /\ UNCHANGED faults

DeciderConflict(d) ==
    /\ pc[d] = "save"
    /\ faults < MaxFaults
    /\ faults' = faults + 1
    /\ RetryDecider(d, RetriesConflict(ctx[d].dretry), AfterConflict(ctx[d].dretry))

-----------------------------------------------------------------------------
(* Steps 2 and 3: append the outputs, then advance the checkpoint.         *)

AppendOutput(d) ==
    /\ pc[d] = "append"
    /\ ctx[d].out # <<>>
    /\ AppendEntry(Head(ctx[d].out))
    /\ ctx' = [ctx EXCEPT ![d].out = Tail(@), ![d].known = Larger(@, Len(log))]
    /\ UNCHANGED <<engineSlot, deciderSlots, published, pc, external, faults>>

Unapplied(d) == pc[d] = "append" /\ ctx[d].out = <<>>

StopPlayback(d) ==
    /\ Unapplied(d)
    /\ Unplayable(Supported[d], ctx[d].snap.state, EntryAt(ctx[d].pos))
    /\ Return(d, "Stopped", ctx[d].pos)
    /\ UNCHANGED <<log, replay, engineSlot, deciderSlots, published, external, faults>>

Saving(d) ==
    /\ Unapplied(d)
    /\ ~ Unplayable(Supported[d], ctx[d].snap.state, EntryAt(ctx[d].pos))

SaveCheckpoint(d) ==
    LET p   == ctx[d].pos
        new == [position |-> p,
                state |-> ReplayStep(ctx[d].snap.state, EntryAt(p), p)] IN
    /\ Saving(d)
    /\ CasAccepts(engineSlot, ctx[d].snap.position, p)
    /\ engineSlot' = new
    /\ ctx' = [ctx EXCEPT ![d].snap = new, ![d].pos = p + 1, ![d].retry = FreshRetry]
    /\ pc' = [pc EXCEPT ![d] = "scan"]
    /\ UNCHANGED <<log, replay, deciderSlots, published, external, faults>>

RetryApply(d, again, r) ==
    /\ IF again
         THEN /\ ctx' = [ctx EXCEPT ![d].retry = r]
              /\ pc' = [pc EXCEPT ![d] = "reload"]
         ELSE Return(d, "Concurrency", ctx[d].pos)
    /\ UNCHANGED <<log, replay, engineSlot, deciderSlots, published, external>>

CheckpointRejected(d) ==
    /\ Saving(d)
    /\ ~ CasAccepts(engineSlot, ctx[d].snap.position, ctx[d].pos)
    /\ RetryApply(d, RetriesRejection(ctx[d].retry), AfterRejection(ctx[d].retry))
    /\ UNCHANGED faults

CheckpointConflict(d) ==
    /\ Saving(d)
    /\ faults < MaxFaults
    /\ faults' = faults + 1
    /\ RetryApply(d, RetriesConflict(ctx[d].retry), AfterConflict(ctx[d].retry))

(* Mutant: the next attempt reuses the snapshot that was rejected.         *)
RetryWithoutReload(d) ==
    /\ pc[d] = "reload"
    /\ pc' = [pc EXCEPT ![d] = "scan"]
    /\ UNCHANGED <<log, replay, engineSlot, deciderSlots, published, ctx, external, faults>>

(* The next attempt starts from the stored checkpoint.                     *)
Reload(d) ==
    /\ pc[d] = "reload"
    /\ ctx' = [ctx EXCEPT ![d].snap = engineSlot]
    /\ pc' = [pc EXCEPT ![d] = "scan"]
    /\ UNCHANGED <<log, replay, engineSlot, deciderSlots, published, external, faults>>

-----------------------------------------------------------------------------

Create(c) == CreateReadPolicy(c) \/ CreateAppend(c) \/ CreateSave(c)

Propose(d) ==
    \/ LoadSnapshot(d) \/ ReadPolicy(d) \/ AppendPolicy(d) \/ AppendIntention(d)
    \/ CheckTail(d) \/ ForceAbort(d) \/ ReadOutcome(d)
    \/ RejectIntention(d) \/ ApplyStateless(d) \/ LoadDecider(d)
    \/ SaveDecider(d) \/ DeciderRejected(d)
    \/ AppendOutput(d) \/ StopPlayback(d)
    \/ SaveCheckpoint(d) \/ CheckpointRejected(d) \/ Reload(d)

Conflict(d) == DeciderConflict(d) \/ CheckpointConflict(d)

Next ==
    \/ Publish
    \/ \E e \in ExternalEntries : ExternalAppend(e)
    \/ \E c \in Creators : Create(c) \/ CreateSaveFails(c)
    \/ \E d \in Drives : Propose(d) \/ Conflict(d)
    \/ \E c \in Calls : Fail(c)

Spec == Init /\ [][Next]_vars

(* A call that is not dropped keeps being polled by its executor.          *)
FairSpec == Spec /\ \A d \in Drives : WF_vars(Propose(d))

-----------------------------------------------------------------------------
(* Properties.                                                             *)

(* Type correctness: the log is bounded, its replay has one state more     *)
(* than it has entries, and every slot and local holds what the code's     *)
(* types allow.                                                            *)
TypeOK ==
    /\ log \in Seq(Entry) /\ Len(log) <= MaxLog
    /\ replay \in Seq(EngineState) /\ Len(replay) = Len(log) + 1
    /\ engineSlot \in Snapshot
    /\ deciderSlots \in [Positions -> DeciderSlot]
    /\ published \in 1 .. NumVersions
    /\ pc \in [Calls -> Steps \cup Terminal]
    /\ ctx \in [Calls -> Context]
    /\ external \in 0 .. MaxExternal
    /\ faults \in 0 .. MaxFaults

(* The stored checkpoint is what replaying the log up to its position      *)
(* gives, whoever wrote it: create_bus, a drive with a fresh snapshot, or  *)
(* one that re-drove entries from a stale snapshot.                        *)
CheckpointIsReplay ==
    /\ engineSlot.position < Len(log)
    /\ engineSlot.state = StateAt(engineSlot.position + 1)

LogPositions == 0 .. (Len(log) - 1)

IsIntention(p) == p \in LogPositions /\ EntryAt(p).type = "Intention"

(* The positions that hold a decision for the intention at p.              *)
DecisionsFor(p) ==
    {i \in LogPositions : IsDecision(EntryAt(i)) /\ EntryAt(i).intention = p}

(* The FirstBooleanWins decider in force at p still waits for p's votes    *)
(* when it reaches q: no policy installed another decider, no later        *)
(* intention took its one pending slot, no boolean vote answered p.        *)
AwaitsVote(p, q) ==
    /\ IsIntention(p) /\ p < q
    /\ ~ PolicyConstraintFailure(StateAt(p), EntryAt(p))
    /\ StateAt(p).decider.policy = "FirstBooleanWins"
    /\ StateAt(q).decider = StateAt(p).decider
    /\ \A r \in (p + 1) .. (q - 1) :
         /\ IsIntention(r) => PolicyConstraintFailure(StateAt(r), EntryAt(r))
         /\ EntryAt(r).type = "Vote" /\ EntryAt(r).vote # "other"
              => EntryAt(r).intention # p

(* The boolean vote that decides p under FirstBooleanWins, if the log has  *)
(* one.                                                                    *)
DecidingVotes(p) ==
    {q \in LogPositions : /\ EntryAt(q).type = "Vote"
                          /\ EntryAt(q).intention = p
                          /\ EntryAt(q).vote # "other"
                          /\ AwaitsVote(p, q)}

(* The decisions that the log's own contents determine for p, each with    *)
(* the position of the entry that determines it.                           *)
Verdicts(p) ==
    IF ~ IsIntention(p) THEN {}
    ELSE IF PolicyConstraintFailure(StateAt(p), EntryAt(p))
      THEN {<<p, Decision(p, FALSE, "constraint")>>}
    ELSE IF StateAt(p).decider.policy = "FirstBooleanWins"
      THEN {<<q, Decision(p, EntryAt(q).vote = "true", "vote")>> : q \in DecidingVotes(p)}
    ELSE {<<p, Decision(p, StateAt(p).decider.policy = "OnByDefault", "default")>>}

(* Soundness of decisions: a decision in the log is the verdict of the log *)
(* before it, or the abort forced on a drained log, which only ever hits   *)
(* an intention that waits for votes, never one that a stateless decider   *)
(* or the policy constraint settles.  No drive commits an intention under  *)
(* a policy older than its proposer asked for, by a second vote, by a vote *)
(* for a replaced decider, or twice with different outcomes.               *)
DecisionsFollowLog ==
    \A i \in LogPositions : IsDecision(EntryAt(i)) =>
        LET p == EntryAt(i).intention
        IN  IF EntryAt(i).reason = "drained"
              THEN /\ IsIntention(p) /\ p < i
                   /\ ~ PolicyConstraintFailure(StateAt(p), EntryAt(p))
                   /\ StateAt(p).decider.policy = "FirstBooleanWins"
              ELSE \E v \in Verdicts(p) : v[1] < i /\ v[2] = EntryAt(i)

(* Completeness of decisions: once the checkpoint has passed the entry     *)
(* that determines a verdict, the decision is in the log, although the     *)
(* decider is saved, the output appended and the checkpoint advanced by    *)
(* three separate writes of calls that may fail between any two of them.   *)
CheckpointedVerdictsLogged ==
    \A p \in LogPositions : \A v \in Verdicts(p) :
        v[1] <= engineSlot.position =>
            \E i \in DecisionsFor(p) : EntryAt(i) = v[2]

(* A proposal's answer is the first decision for it in the log: every      *)
(* reader of the log agrees with the proposer, also when the forced abort  *)
(* raced with a decision.                                                  *)
OutcomeIsFirstDecision ==
    \A d \in Drives : pc[d] \in Outcomes =>
        /\ ctx[d].pos \in DecisionsFor(ctx[d].prop)
        /\ EntryAt(ctx[d].pos).type = pc[d]
        /\ \A i \in DecisionsFor(ctx[d].prop) : ctx[d].pos <= i

(* An applied version identifies the whole policy: batches are differences *)
(* planned from possibly stale snapshots, and yet the replayed decider and *)
(* voters are the provider's for that version.                             *)
PolicyFaithful ==
    \A p \in 0 .. Len(log) :
        StateAt(p).version # NoVersion =>
            /\ StateAt(p).decider.policy = PolicyOf[StateAt(p).version].decider
            /\ StateAt(p).voters = PolicyOf[StateAt(p).version].voters

(* One immediate retry after a rejected CAS is enough: without storage     *)
(* conflicts a drive never gives up because of competing drives.           *)
SingleCasRetrySuffices ==
    faults = 0 /\ MaxRetries > 0 => \A d \in Drives : pc[d] # "Concurrency"

(* An applicable entry that stops every node: a standalone operation, or a *)
(* batch with a missing operation or an unrecognized decider policy.       *)
StopsAllNodes(p) ==
    \/ EntryAt(p).type = "Legacy"
    \/ /\ EntryAt(p).type = "PolicyBatch" /\ Broken(EntryAt(p))
       /\ ShouldApplyPolicyBatch(StateAt(p), EntryAt(p))

(* The policy in force before or after entry p has a voter that the call's *)
(* node does not support.                                                  *)
LacksVoterAt(c, p) ==
    \E q \in {p, p + 1} : ~ Builds(Supported[c], StateAt(q))

(* Playback stops only for a cause in the log: at an entry that stops      *)
(* every node, or because this node does not support a voter that the log  *)
(* installs there, never because a batch planned from a stale snapshot     *)
(* does not fit the state it is applied to.  In return the checkpoint      *)
(* passes no entry that stops every node, and holds only voters that one   *)
(* of the calls could build.                                               *)
PlaybackStopsForCause ==
    /\ \A c \in Calls : pc[c] = "Stopped" =>
         StopsAllNodes(ctx[c].pos) \/ LacksVoterAt(c, ctx[c].pos)
    /\ \A p \in LogPositions : StopsAllNodes(p) => engineSlot.position < p
    /\ engineSlot.position # NoPosition =>
         \E c \in Calls : Builds(Supported[c], engineSlot.state)

(* A write of the checkpoint moves it forward and never to an older policy.*)
CheckpointAdvances ==
    [][/\ engineSlot'.position > engineSlot.position
       /\ engineSlot'.state.version >= engineSlot.state.version]_engineSlot

(* propose_intention always returns: with an outcome, or with an error.    *)
ProposalsReturn == \A d \in Drives : pc[d] # "idle" ~> pc[d] \in Terminal

=============================================================================
