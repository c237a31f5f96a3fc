---------------------------- MODULE EngineProofs ----------------------------
(***************************************************************************)
(* Proofs about Engine for every number of drives, creators, voters,       *)
(* policy revisions, external appends, faults and retries.                 *)
(***************************************************************************)
EXTENDS Engine, FiniteSetTheorems, TLAPS

USE DEF NoPosition, NoVersion

-----------------------------------------------------------------------------
(* What the operators return.                                              *)

(* The initial engine state and a call's first locals have their types.    *)
LEMMA FreshTypes ==
    /\ InitState \in EngineState
    /\ EmptySnapshot \in Snapshot
    /\ EmptyDecider \in DeciderSlot
    /\ FreshRetry \in Retry
    /\ FreshContext \in Context
<1>1. InitState \in EngineState
  BY DEF InitState, EngineState, DeciderSpec, DeciderPolicies, VoterMap
<1>2. EmptySnapshot \in Snapshot
  BY <1>1 DEF EmptySnapshot, Snapshot
<1>3. EmptyDecider \in DeciderSlot
  BY DEF EmptyDecider, DeciderSlot
<1>4. FreshRetry \in Retry
  BY BoundsAssumption DEF FreshRetry, Retry
<1>5. FreshContext \in Context
  BY <1>2, <1>3, <1>4, MaxLogAssumption DEF FreshContext, Context, Cursor, Positions
<1> QED BY <1>1, <1>2, <1>3, <1>4, <1>5

(* Planning from a state yields a policy batch that any node can read.     *)
LEMMA PlanType ==
    ASSUME NEW st \in EngineState, NEW current, NEW v \in Versions
    PROVE  Plan(st, current, v) \in BatchEntry /\ ~ Broken(Plan(st, current, v))
<1> DEFINE b == Plan(st, current, v)
<1>1. PolicyOf[v] \in PolicyState
  BY PolicyOfAssumption
<1>2. b \in BatchEntry
  BY <1>1 DEF Plan, BatchEntry, PolicyState, VoterMap, EngineState
<1>3. b.decider # Unrecognized
  BY <1>1, ConfigsAssumption DEF Plan, PolicyState
<1>4. ASSUME NEW u \in VoterIds
      PROVE  b.ops[u] # Missing
  <2>1. PolicyOf[v].voters[u] \in Configs \cup {Absent}
    BY <1>1 DEF PolicyState, VoterMap
  <2>2. b.ops[u] = IF PolicyOf[v].voters[u] = st.voters[u] THEN Keep
                   ELSE IF PolicyOf[v].voters[u] = Absent THEN Remove
                   ELSE PolicyOf[v].voters[u]
    BY DEF Plan
  <2> QED BY <2>1, <2>2, ConfigsAssumption
<1> QED BY <1>2, <1>3, <1>4 DEF Broken

(* Applying a readable batch keeps the engine state well-formed.           *)
LEMMA ReadableType ==
    ASSUME NEW st \in EngineState, NEW b \in BatchEntry, ~ Broken(b), NEW p \in Positions
    PROVE  ApplyPolicyBatch(st, b, p) \in EngineState
<1>1. \A v \in VoterIds : b.ops[v] \in Configs \cup {Keep, Remove}
  BY DEF Broken, BatchEntry
<1>2. b.decider \in DeciderPolicies \cup {Keep}
  BY DEF Broken, BatchEntry
<1> QED BY <1>1, <1>2 DEF BatchEntry, ApplyPolicyBatch, EngineState, DeciderSpec, VoterMap

(* Replaying an entry keeps the engine state well-formed.                  *)
LEMMA ReplayStepType ==
    ASSUME NEW st \in EngineState, NEW e \in Entry, NEW p \in Positions
    PROVE  ReplayStep(st, e, p) \in EngineState
<1>1. CASE e.type = "PolicyBatch"
  <2>1. e \in BatchEntry
    BY <1>1 DEF Entry, IntentionEntry, VoteEntry, DecisionEntry, LegacyEntry
  <2>2. ~ Broken(e) => ApplyPolicyBatch(st, e, p) \in EngineState
    BY <2>1, ReadableType
  <2>3. ShouldApplyPolicyBatch(st, e) /\ ~ Malformed(st, e) => ~ Broken(e)
    BY <1>1 DEF Malformed
  <2> QED BY <2>2, <2>3 DEF ReplayStep
<1>2. CASE e.type # "PolicyBatch"
  BY <1>2 DEF ReplayStep
<1> QED BY <1>1, <1>2

(* The deterministic decider transition on a readable entry.               *)
LEMMA FirstBooleanWinsType ==
    ASSUME NEW slot \in DeciderSlot, NEW e \in Entry, NEW p \in Positions
    PROVE  FirstBooleanWins(slot, e, p) \in DeciderSlot
<1>1. e.type = "Vote" => e \in VoteEntry
  BY DEF Entry, IntentionEntry, DecisionEntry, BatchEntry, LegacyEntry
<1> QED BY <1>1 DEF FirstBooleanWins, DeciderSlot, VoteEntry, Decision, DecisionEntry

(* Voters answer with votes.                                               *)
LEMMA VoterOutputsType ==
    ASSUME NEW st \in EngineState, NEW e, NEW p \in Positions,
           NEW votes \in VoterOutputs(st, e, p)
    PROVE  votes \in Seq(VoteEntry \cup DecisionEntry)
<1> DEFINE n == Cardinality(Installed(st))
<1>1. n \in Nat
  BY VotersAssumption, FS_Subset, FS_CardinalityType DEF Installed
<1>2. ASSUME NEW b \in [1 .. n -> {"true", "false"}]
      PROVE  [i \in 1 .. n |-> Vote(p, b[i])] \in Seq(VoteEntry \cup DecisionEntry)
  <2>1. \A i \in 1 .. n : Vote(p, b[i]) \in VoteEntry \cup DecisionEntry
    BY <1>2 DEF Vote, VoteEntry
  <2> HIDE DEF n
  <2> QED BY <1>1, <2>1
<1>3. CASE e.type = "Intention" /\ e.kind = "string"
  <2>1. PICK b \in [1 .. n -> {"true", "false"}] :
               votes = [i \in 1 .. n |-> Vote(p, b[i])]
    BY <1>3 DEF VoterOutputs
  <2>2. [i \in 1 .. n |-> Vote(p, b[i])] \in Seq(VoteEntry \cup DecisionEntry)
    BY <1>2
  <2> QED BY ONLY <2>1, <2>2
<1>4. CASE ~ (e.type = "Intention" /\ e.kind = "string")
  <2>1. votes = <<>>
    BY <1>4, Zenon DEF VoterOutputs
  <2> QED BY ONLY <2>1
<1> QED BY <1>3, <1>4

-----------------------------------------------------------------------------
(* Type correctness.                                                       *)

(* A drive between its append and its answer.                              *)
Playing == {"scan", "force", "save", "append", "reload"}

(* Every position a call holds lies inside the log, and the version it     *)
(* plans with is one the provider published.                               *)
CallBounds ==
    \A c \in Calls :
        /\ ctx[c].snap.position < Len(log)
        /\ ctx[c].known < Len(log)
        /\ ctx[c].pos <= Len(log)
        /\ pc[c] \in {"save", "append"} => ctx[c].pos < Len(log)
        /\ pc[c] \in {"batch", "createAppend", "createSave"} =>
             ctx[c].version \in Versions
        /\ pc[c] = "createSave" => Len(log) > 0
        /\ pc[c] \in Playing => ctx[c].prop \in Positions

SlotBounds == engineSlot.position < Len(log)

TypeInv == TypeOK /\ SlotBounds /\ CallBounds

(* What an append does to the log and its replay.                          *)
LEMMA AppendEffect ==
    ASSUME TypeOK, NEW e \in Entry, AppendEntry(e)
    PROVE  /\ log' \in Seq(Entry)
           /\ Len(log') = Len(log) + 1
           /\ Len(log) < MaxLog
           /\ \A p \in 0 .. (Len(log) - 1) : EntryAt(p)' = EntryAt(p)
           /\ log'[Len(log) + 1] = e
           /\ replay' \in Seq(EngineState)
           /\ Len(replay') = Len(log') + 1
           /\ \A p \in 0 .. Len(log) : StateAt(p)' = StateAt(p)
           /\ replay'[Len(log) + 2] = ReplayStep(replay[Len(log) + 1], e, Len(log))
<1>1. /\ log \in Seq(Entry) /\ Len(log) \in Nat /\ Len(log) < MaxLog
      /\ replay \in Seq(EngineState) /\ Len(replay) = Len(log) + 1
  BY MaxLogAssumption DEF TypeOK, AppendEntry
<1>2. Len(log) \in Positions
  BY <1>1, MaxLogAssumption DEF Positions
<1> DEFINE st == ReplayStep(replay[Len(replay)], e, Len(log))
<1>3. st \in EngineState
  <2>1. replay[Len(replay)] \in EngineState
    BY <1>1
  <2> QED BY <2>1, <1>2, ReplayStepType
<1>4. log' = Append(log, e) /\ replay' = Append(replay, st)
  BY DEF AppendEntry
<1> HIDE DEF st
<1>5. /\ log' \in Seq(Entry) /\ Len(log') = Len(log) + 1
      /\ \A p \in 0 .. (Len(log) - 1) : log'[p + 1] = log[p + 1]
      /\ log'[Len(log) + 1] = e
  BY <1>1, <1>4
<1>6. /\ replay' \in Seq(EngineState) /\ Len(replay') = Len(replay) + 1
      /\ \A p \in 0 .. Len(log) : replay'[p + 1] = replay[p + 1]
      /\ replay'[Len(log) + 2] = st
  BY <1>1, <1>3, <1>4
<1> QED BY <1>1, <1>5, <1>6 DEF EntryAt, StateAt, st

(* One call moves to `step` with locals r, while the log may grow.         *)
LEMMA CallMoves ==
    ASSUME TypeInv, NEW c \in Calls, NEW step \in Steps \cup Terminal, NEW r \in Context,
           Len(log') \in Nat, Len(log) <= Len(log'),
           pc' = [pc EXCEPT ![c] = step], ctx' = [ctx EXCEPT ![c] = r],
           r.snap.position < Len(log'), r.known < Len(log'), r.pos <= Len(log'),
           step \in {"save", "append"} => r.pos < Len(log'),
           step \in {"batch", "createAppend", "createSave"} => r.version \in Versions,
           step = "createSave" => Len(log') > 0,
           step \in Playing => r.prop \in Positions
    PROVE  /\ pc' \in [Calls -> Steps \cup Terminal]
           /\ ctx' \in [Calls -> Context]
           /\ CallBounds'
<1>1. pc \in [Calls -> Steps \cup Terminal] /\ ctx \in [Calls -> Context]
  BY DEF TypeInv, TypeOK
<1>2. pc' \in [Calls -> Steps \cup Terminal] /\ ctx' \in [Calls -> Context]
  BY <1>1
<1>3. ASSUME NEW k \in Calls
      PROVE  /\ ctx'[k].snap.position < Len(log')
             /\ ctx'[k].known < Len(log')
             /\ ctx'[k].pos <= Len(log')
             /\ pc'[k] \in {"save", "append"} => ctx'[k].pos < Len(log')
             /\ pc'[k] \in {"batch", "createAppend", "createSave"} =>
                  ctx'[k].version \in Versions
             /\ pc'[k] = "createSave" => Len(log') > 0
             /\ pc'[k] \in Playing => ctx'[k].prop \in Positions
  <2>1. CASE k = c
    BY <1>1, <2>1
  <2>2. CASE k # c
    <3>1. pc'[k] = pc[k] /\ ctx'[k] = ctx[k]
      BY <1>1, <2>2
    <3>2. /\ ctx[k].known \in Int /\ ctx[k].pos \in Int /\ Len(log) \in Nat
          /\ ctx[k].snap.position \in Int
      <4>1. ctx[k] \in Context /\ ctx[k].snap \in Snapshot /\ Len(log) \in Nat
        BY <1>1 DEF Context, TypeInv, TypeOK
      <4> QED BY <4>1, MaxLogAssumption DEF Context, Snapshot, Cursor, Positions
    <3> QED BY <3>1, <3>2 DEF TypeInv, CallBounds
  <2> QED BY <2>1, <2>2
<1> QED BY <1>2, <1>3 DEF CallBounds

(* A call that returns keeps only where it ended.                          *)
LEMMA ReturnMoves ==
    ASSUME TypeInv, NEW c \in Calls, NEW result \in Terminal, NEW pos \in Cursor,
           Len(log') \in Nat, Len(log) <= Len(log'), pos <= Len(log'),
           Return(c, result, pos)
    PROVE  /\ pc' \in [Calls -> Steps \cup Terminal]
           /\ ctx' \in [Calls -> Context]
           /\ CallBounds'
<1> DEFINE r == [FreshContext EXCEPT !.prop = ctx[c].prop, !.pos = pos]
<1>1. ctx[c] \in Context
  BY DEF TypeInv, TypeOK
<1>2. r \in Context
  BY <1>1, FreshTypes DEF Context
<1>3. r.snap.position = -1 /\ r.known = -1 /\ r.pos = pos
  BY DEF FreshContext, EmptySnapshot
<1>4. pc' = [pc EXCEPT ![c] = result] /\ ctx' = [ctx EXCEPT ![c] = r]
  BY DEF Return
<1>5. /\ result \in Steps \cup Terminal
      /\ result \in {"save", "append"} => r.pos < Len(log')
      /\ result \in {"batch", "createAppend", "createSave"} => r.version \in Versions
      /\ result # "createSave" /\ result \notin Playing
  BY DEF Terminal, Outcomes, Playing
<1>6. r.snap.position < Len(log') /\ r.known < Len(log') /\ r.pos <= Len(log')
  BY <1>3
<1> HIDE DEF r
<1> QED BY <1>2, <1>4, <1>5, <1>6, CallMoves DEF Playing

(* The decider's and the voters' outputs are held by the drive.            *)
LEMMA HoldMoves ==
    ASSUME TypeInv, NEW d \in Drives, NEW i \in Positions, i < Len(log),
           NEW decision \in {<<>>} \cup {<<e>> : e \in DecisionEntry},
           Hold(d, i, decision), log' = log, pc[d] \in Playing
    PROVE  /\ pc' \in [Calls -> Steps \cup Terminal]
           /\ ctx' \in [Calls -> Context]
           /\ CallBounds'
<1>1. ctx[d] \in Context /\ d \in Calls /\ ctx \in [Calls -> Context]
  BY DEF TypeInv, TypeOK, Calls
<1>2. PICK votes \in VoterOutputs(ctx[d].snap.state, EntryAt(i), i) :
        ctx' = [ctx EXCEPT ![d].pos = i, ![d].out = decision \o votes,
                           ![d].decider = EmptyDecider,
                           ![d].retry = Budget(d, i, @), ![d].dretry = FreshRetry]
  BY DEF Hold
<1>3. votes \in Seq(VoteEntry \cup DecisionEntry)
  BY <1>1, VoterOutputsType DEF Context, Snapshot
<1>4. decision \in Seq(VoteEntry \cup DecisionEntry)
  <2>1. CASE decision = <<>>
    BY ONLY <2>1
  <2>2. CASE \E e \in DecisionEntry : decision = <<e>>
    BY ONLY <2>2
  <2> QED BY <2>1, <2>2
<1>5. decision \o votes \in Seq(VoteEntry \cup DecisionEntry)
  BY <1>3, <1>4
<1>6. Budget(d, i, ctx[d].retry) \in Retry
  BY <1>1, FreshTypes DEF Budget, Context
<1> DEFINE r == [ctx[d] EXCEPT !.pos = i, !.out = decision \o votes,
                               !.decider = EmptyDecider,
                               !.retry = Budget(d, i, @), !.dretry = FreshRetry]
<1>7. /\ r \in Context /\ r.pos = i /\ r.known = ctx[d].known /\ r.snap = ctx[d].snap
      /\ r.prop = ctx[d].prop
  BY <1>1, <1>5, <1>6, FreshTypes DEF Context, Cursor
<1>8. ctx' = [ctx EXCEPT ![d] = r]
  BY <1>1, <1>2
<1>9. pc' = [pc EXCEPT ![d] = "append"] /\ "append" \in Steps
  BY DEF Hold, Steps
<1>10. /\ Len(log') \in Nat /\ Len(log) <= Len(log')
       /\ r.snap.position < Len(log') /\ r.known < Len(log')
       /\ r.pos < Len(log') /\ r.pos <= Len(log') /\ r.prop \in Positions
  BY <1>1, <1>7 DEF TypeInv, TypeOK, CallBounds, Positions
<1> HIDE DEF r
<1> QED BY <1>1, <1>7, <1>8, <1>9, <1>10, CallMoves DEF Playing

(* They are held, or the drive stops there.                                *)
LEMMA ProduceMoves ==
    ASSUME TypeInv, NEW d \in Drives, NEW i \in Positions, i < Len(log),
           NEW decision \in {<<>>} \cup {<<e>> : e \in DecisionEntry},
           Produce(d, i, decision), log' = log, pc[d] \in Playing
    PROVE  /\ pc' \in [Calls -> Steps \cup Terminal]
           /\ ctx' \in [Calls -> Context]
           /\ CallBounds'
<1>1. CASE Hold(d, i, decision)
  BY <1>1, HoldMoves
<1>2. CASE Return(d, "Stopped", i)
  <2>1. d \in Calls /\ "Stopped" \in Terminal /\ i \in Cursor
    BY DEF Calls, Terminal, Cursor
  <2>2. Len(log') \in Nat /\ Len(log) <= Len(log') /\ i <= Len(log')
    BY DEF TypeInv, TypeOK, Positions
  <2> QED BY <1>2, <2>1, <2>2, ReturnMoves
<1> QED BY <1>1, <1>2 DEF Produce

(* The checkpoint stays within a log that only grows.                      *)
LEMMA SlotKept ==
    ASSUME TypeInv, Len(log') \in Nat, Len(log) <= Len(log'), engineSlot' = engineSlot
    PROVE  SlotBounds'
<1>1. engineSlot.position \in Int /\ Len(log) \in Nat
  BY MaxLogAssumption DEF TypeInv, TypeOK, Snapshot, Positions
<1> QED BY <1>1 DEF TypeInv, SlotBounds

(* Calls that do not move stay within a log that only grows.               *)
LEMMA CallsKeep ==
    ASSUME TypeInv, Len(log') \in Nat, Len(log) <= Len(log'), UNCHANGED <<pc, ctx>>
    PROVE  CallBounds'
<1> SUFFICES ASSUME NEW k \in Calls
             PROVE  /\ ctx[k].snap.position < Len(log')
                    /\ ctx[k].known < Len(log')
                    /\ ctx[k].pos <= Len(log')
                    /\ pc[k] \in {"save", "append"} => ctx[k].pos < Len(log')
                    /\ pc[k] \in {"batch", "createAppend", "createSave"} =>
                         ctx[k].version \in Versions
                    /\ pc[k] = "createSave" => Len(log') > 0
                    /\ pc[k] \in Playing => ctx[k].prop \in Positions
  BY DEF CallBounds
<1>1. /\ ctx[k].known \in Int /\ ctx[k].pos \in Int /\ Len(log) \in Nat
      /\ ctx[k].snap.position \in Int
  BY MaxLogAssumption DEF TypeInv, TypeOK, Context, Snapshot, Cursor, Positions
<1> QED BY <1>1 DEF TypeInv, CallBounds

(* What a drive stops at is an entry of the log it has read.               *)
LEMMA AttentionBounds ==
    ASSUME TypeInv, NEW d \in Drives, NEW i \in Attention(d)
    PROVE  /\ i \in Positions /\ i < Len(log)
           /\ ctx[d].pos <= i /\ i <= ctx[d].known
           /\ EntryAt(i) \in Entry
<1>1. /\ ctx[d] \in Context /\ ctx[d].known < Len(log)
      /\ log \in Seq(Entry) /\ Len(log) \in Nat /\ Len(log) <= MaxLog
  BY DEF TypeInv, TypeOK, CallBounds, Calls
<1>2. i \in ctx[d].pos .. ctx[d].known
  BY DEF Attention
<1>3. ctx[d].pos \in 0 .. MaxLog /\ ctx[d].known \in Int
  BY <1>1, MaxLogAssumption DEF Context, Cursor, Positions
<1> QED BY <1>1, <1>2, <1>3, MaxLogAssumption DEF Positions, EntryAt

(* The environment and create_bus keep the types.                          *)
LEMMA TypeStepEnvironment ==
    ASSUME TypeInv,
           \/ Publish
           \/ \E e \in ExternalEntries : ExternalAppend(e)
           \/ \E c \in Creators : Create(c)
           \/ \E c \in Calls : Fail(c) \/ CreateSaveFails(c)
    PROVE  TypeInv'
<1> USE DEF TypeInv
<1>0. /\ Len(log) \in Nat /\ Len(log) <= MaxLog
      /\ pc \in [Calls -> Steps \cup Terminal] /\ ctx \in [Calls -> Context]
  BY DEF TypeOK
<1>1. CASE Publish
  <2>1. published' \in 1 .. NumVersions
    BY <1>1, VersionsAssumption DEF Publish, TypeOK
  <2>2. CallBounds'
    BY <1>0, <1>1, CallsKeep DEF Publish
  <2> QED BY <1>1, <2>1, <2>2 DEF Publish, TypeOK, SlotBounds
<1>2. ASSUME NEW e \in ExternalEntries, ExternalAppend(e)
      PROVE  TypeInv'
  <2>1. e \in Entry
    BY ExternalAssumption DEF Entry
  <2>2. /\ log' \in Seq(Entry) /\ Len(log') = Len(log) + 1 /\ Len(log) < MaxLog
        /\ replay' \in Seq(EngineState) /\ Len(replay') = Len(log') + 1
    BY <1>2, <2>1, AppendEffect DEF ExternalAppend
  <2>3. CallBounds'
    BY <1>0, <1>2, <2>2, CallsKeep DEF ExternalAppend
  <2>4. external' \in 0 .. MaxExternal
    BY <1>2, BoundsAssumption DEF ExternalAppend, TypeOK
  <2> QED BY <1>0, <1>2, <2>2, <2>3, <2>4, MaxLogAssumption DEF ExternalAppend, TypeOK, SlotBounds, Snapshot, Positions
<1>3. ASSUME NEW c \in Calls, Fail(c) \/ CreateSaveFails(c)
      PROVE  TypeInv'
  <2>1. faults' \in 0 .. MaxFaults
    BY <1>3, BoundsAssumption DEF Fail, CreateSaveFails, TypeOK
  <2>2. ctx[c].pos \in Cursor /\ ctx[c].pos <= Len(log)
    BY <1>0 DEF Context, CallBounds
  <2>3. PICK result \in {"Failed", "Created"} : Return(c, result, ctx[c].pos)
    BY <1>3 DEF Fail, CreateSaveFails
  <2>4. log' = log /\ Len(log') \in Nat /\ Len(log) <= Len(log') /\ ctx[c].pos <= Len(log')
    BY <1>0, <1>3, <2>2 DEF Fail, CreateSaveFails
  <2> result \in Terminal
    BY DEF Terminal
  <2>5. pc' \in [Calls -> Steps \cup Terminal] /\ ctx' \in [Calls -> Context] /\ CallBounds'
    BY <2>2, <2>3, <2>4, ReturnMoves
  <2> QED BY <1>3, <2>1, <2>5 DEF Fail, CreateSaveFails, TypeOK, SlotBounds
<1>4. ASSUME NEW c \in Creators, CreateReadPolicy(c)
      PROVE  TypeInv'
  <2>0. c \in Calls /\ log' = log
    BY <1>4 DEF Calls, CreateReadPolicy
  <2>a. CASE Return(c, "PolicyError", ctx[c].pos)
    <3>1. "PolicyError" \in Terminal /\ ctx[c].pos \in Cursor /\ ctx[c].pos <= Len(log)
      BY <1>0, <2>0 DEF Terminal, Context, CallBounds
    <3>2. Len(log') \in Nat /\ Len(log) <= Len(log') /\ ctx[c].pos <= Len(log')
      BY <1>0, <2>0, <3>1
    <3>3. pc' \in [Calls -> Steps \cup Terminal] /\ ctx' \in [Calls -> Context] /\ CallBounds'
      BY <2>0, <2>a, <3>1, <3>2, ReturnMoves
    <3> QED BY <1>4, <3>3 DEF CreateReadPolicy, TypeOK, SlotBounds
  <2> SUFFICES ASSUME ~ Return(c, "PolicyError", ctx[c].pos)
               PROVE  TypeInv'
    BY <2>a
  <2>1. PICK v \in 0 .. (published - 1) : /\ ctx' = [ctx EXCEPT ![c].version = v]
                                         /\ pc' = [pc EXCEPT ![c] = "createAppend"]
    BY <1>4 DEF CreateReadPolicy, ProviderRefuses
  <2>2. v \in Versions
    BY VersionsAssumption DEF TypeOK, Versions
  <2> DEFINE r == [ctx[c] EXCEPT !.version = v]
  <2>3. /\ r \in Context /\ r.known = ctx[c].known /\ r.pos = ctx[c].pos
        /\ r.version = v /\ r.snap = ctx[c].snap
    BY <1>0, <2>0, <2>2 DEF Context
  <2>4. ctx' = [ctx EXCEPT ![c] = r] /\ pc' = [pc EXCEPT ![c] = "createAppend"] /\ log' = log
    BY <1>4, <2>1 DEF CreateReadPolicy
  <2>5. /\ r.snap.position < Len(log') /\ r.known < Len(log') /\ r.pos <= Len(log')
        /\ "createAppend" \in Steps
        /\ Len(log') \in Nat /\ Len(log) <= Len(log') /\ r.version \in Versions
    BY <1>0, <2>0, <2>2, <2>3, <2>4 DEF CallBounds, Steps
  <2> HIDE DEF r
  <2>6. pc' \in [Calls -> Steps \cup Terminal] /\ ctx' \in [Calls -> Context] /\ CallBounds'
    BY <2>0, <2>3, <2>4, <2>5, CallMoves DEF Playing
  <2> QED BY <1>4, <2>6 DEF CreateReadPolicy, TypeOK, SlotBounds
<1>5. ASSUME NEW c \in Creators, CreateAppend(c)
      PROVE  TypeInv'
  <2>0. c \in Calls
    BY DEF Calls
  <2>1. /\ ctx[c].version \in Versions /\ ctx[c].known < Len(log) /\ ctx[c].pos <= Len(log)
        /\ ctx[c].snap.position < Len(log)
    BY <1>5, <2>0 DEF CreateAppend, CallBounds
  <2>2. InitialBatch(ctx[c].version) \in Entry
    BY <2>1, PlanType, FreshTypes DEF InitialBatch, Entry
  <2>3. /\ log' \in Seq(Entry) /\ Len(log') = Len(log) + 1 /\ Len(log) < MaxLog
        /\ replay' \in Seq(EngineState) /\ Len(replay') = Len(log') + 1
    BY <1>5, <2>2, AppendEffect DEF CreateAppend
  <2>4. /\ ctx[c] \in Context /\ ctx[c].pos \in Cursor /\ ctx[c].pos \in Int
        /\ ctx[c].known \in Int /\ ctx[c].snap.position \in Int
    BY <1>0, <2>0, MaxLogAssumption DEF Context, Snapshot, Cursor, Positions
  <2>5. pc' \in [Calls -> Steps \cup Terminal] /\ ctx' \in [Calls -> Context] /\ CallBounds'
    <3>1. CASE /\ pc' = [pc EXCEPT ![c] = "createSave"]
               /\ UNCHANGED ctx
      <4>1. pc' = [pc EXCEPT ![c] = "createSave"] /\ ctx' = [ctx EXCEPT ![c] = ctx[c]]
        BY <1>0, <1>5, <3>1 DEF CreateAppend
      <4>2. /\ "createSave" \in Steps /\ ctx[c].known < Len(log') /\ ctx[c].pos <= Len(log')
            /\ ctx[c].snap.position < Len(log') /\ Len(log') > 0 /\ Len(log') \in Nat /\ Len(log) <= Len(log')
        BY <1>0, <2>1, <2>3, <2>4 DEF Steps
      <4> QED BY <2>0, <2>1, <2>4, <4>1, <4>2, CallMoves DEF Playing
    <3>2. ASSUME NEW result \in {"Created", "Stopped"}, NEW pos \in {ctx[c].pos, Len(log)},
                 Return(c, result, pos)
          PROVE  /\ pc' \in [Calls -> Steps \cup Terminal]
                 /\ ctx' \in [Calls -> Context]
                 /\ CallBounds'
      <4>1. result \in Terminal /\ pos \in Cursor
        BY <1>0, <2>3, <2>4, MaxLogAssumption DEF Terminal, Cursor, Positions
      <4>2. Len(log') \in Nat /\ Len(log) <= Len(log') /\ pos <= Len(log')
        BY <1>0, <2>1, <2>3, <2>4
      <4> QED BY <2>0, <3>2, <4>1, <4>2, ReturnMoves
    <3> QED BY <1>5, <3>1, <3>2 DEF CreateAppend
  <2> QED BY <1>0, <1>5, <2>3, <2>5, MaxLogAssumption DEF CreateAppend, TypeOK, SlotBounds, Snapshot, Positions
<1>6. ASSUME NEW c \in Creators, CreateSave(c)
      PROVE  TypeInv'
  <2>0. c \in Calls /\ log' = log
    BY <1>6 DEF Calls, CreateSave
  <2>1. ctx[c].version \in Versions /\ ctx[c].pos <= Len(log) /\ ctx[c].pos \in Cursor
    BY <1>0, <1>6, <2>0 DEF CreateSave, CallBounds, Context
  <2>2. InitialBatch(ctx[c].version) \in BatchEntry /\ ~ Broken(InitialBatch(ctx[c].version))
    BY <2>1, PlanType, FreshTypes DEF InitialBatch
  <2>3. ApplyPolicyBatch(InitState, InitialBatch(ctx[c].version), 0) \in EngineState
    <3>1. InitState \in EngineState /\ 0 \in Positions
      BY FreshTypes, MaxLogAssumption DEF Positions
    <3> QED BY <2>2, <3>1, ReadableType
  <2>4. engineSlot' \in Snapshot
    BY <1>6, <2>3, MaxLogAssumption DEF CreateSave, Snapshot, TypeOK, Positions
  <2>5. pc' \in [Calls -> Steps \cup Terminal] /\ ctx' \in [Calls -> Context] /\ CallBounds'
    <3>1. Return(c, "Created", ctx[c].pos) /\ "Created" \in Terminal
      BY <1>6 DEF CreateSave, Terminal
    <3>2. Len(log') \in Nat /\ Len(log) <= Len(log') /\ ctx[c].pos <= Len(log')
      BY <1>0, <2>0, <2>1
    <3> QED BY <2>0, <2>1, <3>1, <3>2, ReturnMoves
  <2>6. SlotBounds'
    BY <1>0, <1>6, <2>0 DEF CreateSave, SlotBounds, CallBounds
  <2> QED BY <1>6, <2>4, <2>5, <2>6 DEF CreateSave, TypeOK
<1> QED BY <1>1, <1>2, <1>3, <1>4, <1>5, <1>6 DEF Create

(* What the type invariant says of one drive, spelled out for the provers. *)
DriveFacts(d) ==
    /\ Len(log) \in Nat /\ Len(log) <= MaxLog /\ d \in Calls
    /\ pc \in [Calls -> Steps \cup Terminal] /\ ctx \in [Calls -> Context]
    /\ ctx[d] \in Context /\ ctx[d].snap \in Snapshot
    /\ ctx[d].snap.state \in EngineState
    /\ ctx[d].snap.position \in Int /\ ctx[d].snap.position >= -1
    /\ ctx[d].snap.position < Len(log)
    /\ ctx[d].known \in Int /\ ctx[d].known >= -1 /\ ctx[d].known < Len(log)
    /\ ctx[d].pos \in Nat /\ ctx[d].pos \in Cursor /\ ctx[d].pos <= Len(log)
    /\ pc[d] \in Playing => ctx[d].prop \in Positions

(* They follow from the type invariant.                                    *)
LEMMA DriveLocals ==
    ASSUME TypeInv, NEW d \in Drives
    PROVE  DriveFacts(d)
<1>1. /\ Len(log) \in Nat /\ Len(log) <= MaxLog /\ d \in Calls
      /\ pc \in [Calls -> Steps \cup Terminal] /\ ctx \in [Calls -> Context]
      /\ ctx[d] \in Context
  BY DEF TypeInv, TypeOK, Calls
<1>2. ctx[d].snap \in Snapshot /\ ctx[d].known \in Positions \cup {-1} /\ ctx[d].pos \in Cursor
  BY <1>1 DEF Context
<1>3. /\ ctx[d].snap.position < Len(log) /\ ctx[d].known < Len(log) /\ ctx[d].pos <= Len(log)
      /\ pc[d] \in Playing => ctx[d].prop \in Positions
  BY <1>1 DEF TypeInv, CallBounds
<1>4. ctx[d].snap.state \in EngineState /\ ctx[d].snap.position \in Positions \cup {-1}
  BY <1>2 DEF Snapshot
<1> QED BY <1>1, <1>2, <1>3, <1>4, MaxLogAssumption DEF DriveFacts, Cursor, Positions

(* propose_intention up to its append keeps the types.                     *)
LEMMA TypeStepStart ==
    ASSUME TypeInv, NEW d \in Drives,
           \/ LoadSnapshot(d) \/ ReadPolicy(d) \/ AppendPolicy(d) \/ AppendIntention(d)
    PROVE  TypeInv'
<1> DEFINE Goal == /\ pc' \in [Calls -> Steps \cup Terminal]
                   /\ ctx' \in [Calls -> Context]
                   /\ CallBounds'
<1>0. DriveFacts(d)
  BY DriveLocals
<1> USE DEF DriveFacts
<1>1. CASE LoadSnapshot(d)
  <2> DEFINE r == [ctx[d] EXCEPT !.snap = engineSlot]
  <2>1. r \in Context /\ r.known = ctx[d].known /\ r.pos = ctx[d].pos /\ r.snap = engineSlot
    BY <1>0 DEF Context, TypeInv, TypeOK
  <2>2. ctx' = [ctx EXCEPT ![d] = r] /\ pc' = [pc EXCEPT ![d] = "policy"] /\ log' = log
    BY <1>0, <1>1 DEF LoadSnapshot
  <2>3. /\ "policy" \in Steps /\ Len(log') \in Nat /\ Len(log) <= Len(log')
        /\ r.snap.position < Len(log') /\ r.known < Len(log') /\ r.pos <= Len(log')
    BY <1>0, <2>1, <2>2 DEF Steps, TypeInv, SlotBounds
  <2> HIDE DEF r
  <2>4. Goal
    BY <1>0, <2>1, <2>2, <2>3, CallMoves DEF Playing
  <2> QED BY <1>1, <2>4 DEF LoadSnapshot, TypeInv, TypeOK, SlotBounds
<1>2. CASE ReadPolicy(d)
  <2> DEFINE st == ctx[d].snap.state
  <2>1. PICK v \in 0 .. (published - 1) :
          \/ \E result \in {"PolicyError", "PlanError"} : Return(d, result, ctx[d].pos)
          \/ \E step \in {"batch", "intend"} :
               ctx' = [ctx EXCEPT ![d].version = v] /\ pc' = [pc EXCEPT ![d] = step]
    BY <1>2 DEF ReadPolicy, ProviderRefuses
  <2>2. v \in Versions /\ log' = log /\ Len(log') \in Nat /\ Len(log) <= Len(log')
    BY <1>0, <1>2, VersionsAssumption DEF TypeInv, TypeOK, Versions, ReadPolicy
  <2>3. Goal
    <3>1. ASSUME NEW result \in {"PolicyError", "PlanError"}, Return(d, result, ctx[d].pos)
          PROVE  Goal
      <4>1. result \in Terminal /\ ctx[d].pos <= Len(log')
        BY <1>0, <2>2 DEF Terminal
      <4> QED BY <1>0, <2>2, <3>1, <4>1, ReturnMoves
    <3>2. ASSUME NEW step \in {"batch", "intend"},
                 ctx' = [ctx EXCEPT ![d].version = v], pc' = [pc EXCEPT ![d] = step]
          PROVE  Goal
      <4> DEFINE r == [ctx[d] EXCEPT !.version = v]
      <4>1. /\ r \in Context /\ r.known = ctx[d].known /\ r.pos = ctx[d].pos
            /\ r.version = v /\ r.snap = ctx[d].snap
        BY <1>0, <2>2 DEF Context
      <4>2. ctx' = [ctx EXCEPT ![d] = r]
        BY <1>0, <3>2
      <4>3. /\ step \in Steps /\ r.known < Len(log') /\ r.pos <= Len(log')
            /\ r.snap.position < Len(log')
            /\ step \notin {"save", "append"} /\ r.version \in Versions
        BY <1>0, <2>2, <4>1 DEF Steps
      <4> HIDE DEF r
      <4> QED BY <1>0, <2>2, <3>2, <4>1, <4>2, <4>3, CallMoves DEF Playing
    <3> QED BY <2>1, <3>1, <3>2
  <2> QED BY <1>2, <2>3 DEF ReadPolicy, TypeInv, TypeOK, SlotBounds
<1>3. CASE AppendPolicy(d)
  <2> DEFINE e == Plan(ctx[d].snap.state, ctx[d].snap.state.decider.policy, ctx[d].version)
  <2>1. ctx[d].version \in Versions
    BY <1>0, <1>3 DEF AppendPolicy, TypeInv, CallBounds
  <2>2. e \in Entry
    BY <1>0, <2>1, PlanType DEF Entry
  <2>3. AppendEntry(e)
    BY <1>3 DEF AppendPolicy
  <2>4. /\ log' \in Seq(Entry) /\ Len(log') = Len(log) + 1 /\ Len(log) < MaxLog
        /\ replay' \in Seq(EngineState) /\ Len(replay') = Len(log') + 1
    <3> HIDE DEF e
    <3> QED BY <2>2, <2>3, AppendEffect DEF TypeInv
  <2> DEFINE r == [ctx[d] EXCEPT !.first = Len(log)]
  <2>5. r \in Context /\ r.known = ctx[d].known /\ r.pos = ctx[d].pos /\ r.snap = ctx[d].snap
    <3>1. Len(log) \in Positions
      BY <1>0, <2>4, MaxLogAssumption DEF Positions
    <3> QED BY <1>0, <3>1 DEF Context
  <2>6. ctx' = [ctx EXCEPT ![d] = r] /\ pc' = [pc EXCEPT ![d] = "intend"]
    BY <1>0, <1>3 DEF AppendPolicy
  <2>7. /\ "intend" \in Steps /\ Len(log') \in Nat /\ Len(log) <= Len(log')
        /\ r.snap.position < Len(log') /\ r.known < Len(log') /\ r.pos <= Len(log')
    BY <1>0, <2>4, <2>5 DEF Steps
  <2> HIDE DEF r
  <2>8. Goal
    BY <1>0, <2>5, <2>6, <2>7, CallMoves DEF Playing
  <2>9. Len(log') <= MaxLog
    BY <1>0, <2>4, MaxLogAssumption
  <2>10. SlotBounds'
    BY <1>0, <1>3, <2>4, SlotKept DEF AppendPolicy
  <2> QED BY <1>3, <2>4, <2>8, <2>9, <2>10 DEF AppendPolicy, TypeInv, TypeOK
<1>4. CASE AppendIntention(d)
  <2>1. PICK kind \in Kinds : AppendEntry(Intention(ctx[d].version, kind))
    BY <1>4 DEF AppendIntention
  <2>2. Intention(ctx[d].version, kind) \in Entry
    BY <1>0, CallsAssumption DEF Intention, IntentionEntry, Entry, Context
  <2>3. /\ log' \in Seq(Entry) /\ Len(log') = Len(log) + 1 /\ Len(log) < MaxLog
        /\ replay' \in Seq(EngineState) /\ Len(replay') = Len(log') + 1
    BY <2>1, <2>2, AppendEffect DEF TypeInv
  <2>4. Len(log') \in Nat /\ Len(log) <= Len(log') /\ Len(log') <= MaxLog
    BY <1>0, <2>3, MaxLogAssumption
  <2>5. Goal
    <3>1. CASE FirstAppend(d) <= ctx[d].snap.position
      <4>1. Return(d, "BusDataLoss", ctx[d].pos) /\ "BusDataLoss" \in Terminal
        BY <1>4, <3>1 DEF AppendIntention, Terminal
      <4>2. ctx[d].pos <= Len(log')
        BY <1>0, <2>4
      <4> QED BY <1>0, <2>4, <4>1, <4>2, ReturnMoves
    <3>2. CASE ~ (FirstAppend(d) <= ctx[d].snap.position)
      <4> DEFINE r == [ctx[d] EXCEPT !.prop = Len(log), !.known = Len(log),
                                     !.pos = ResumeAt(ctx[d].snap)]
      <4>1. ResumeAt(ctx[d].snap) \in Cursor /\ ResumeAt(ctx[d].snap) <= Len(log')
        BY <1>0, <2>3, MaxLogAssumption DEF ResumeAt, Cursor, Positions
      <4>2. /\ r \in Context /\ r.known = Len(log) /\ r.pos = ResumeAt(ctx[d].snap)
            /\ r.snap = ctx[d].snap /\ r.prop \in Positions
        <5>1. Len(log) \in Positions
          BY <1>0, <2>3, MaxLogAssumption DEF Positions
        <5> QED BY <1>0, <4>1, <5>1 DEF Context
      <4>3. ctx' = [ctx EXCEPT ![d] = r] /\ pc' = [pc EXCEPT ![d] = "scan"]
        BY <1>0, <1>4, <3>2 DEF AppendIntention
      <4>4. /\ "scan" \in Steps /\ r.known < Len(log') /\ r.pos <= Len(log')
            /\ r.snap.position < Len(log')
        BY <1>0, <2>3, <4>1, <4>2 DEF Steps
      <4> HIDE DEF r
      <4> QED BY <1>0, <2>4, <4>2, <4>3, <4>4, CallMoves DEF Playing
    <3> QED BY <3>1, <3>2
  <2>6. SlotBounds'
    BY <1>4, <2>4, SlotKept DEF AppendIntention
  <2> QED BY <1>4, <2>3, <2>4, <2>5, <2>6 DEF AppendIntention, TypeInv, TypeOK
<1> QED BY <1>1, <1>2, <1>3, <1>4

(* Reading the log, producing outputs and consulting the decider keep the  *)
(* types.                                                                  *)
LEMMA TypeStepRead ==
    ASSUME TypeInv, NEW d \in Drives,
           \/ CheckTail(d) \/ ForceAbort(d) \/ ReadOutcome(d) \/ RejectIntention(d)
           \/ ApplyStateless(d) \/ LoadDecider(d) \/ SaveDecider(d)
    PROVE  TypeInv'
<1> DEFINE Goal == /\ pc' \in [Calls -> Steps \cup Terminal]
                   /\ ctx' \in [Calls -> Context]
                   /\ CallBounds'
<1>0. DriveFacts(d)
  BY DriveLocals
<1> USE DEF DriveFacts
<1>1. CASE CheckTail(d)
  <2> DEFINE k == IF Drained(d) THEN ctx[d].known ELSE Len(log) - 1
             r == [ctx[d] EXCEPT !.pos = Consumed(d), !.known = k, !.retry = FreshRetry]
             step == IF Drained(d) THEN "force" ELSE "scan"
  <2>1. /\ Consumed(d) \in Cursor /\ Consumed(d) <= Len(log)
        /\ k \in Positions \cup {-1} /\ k < Len(log)
    BY <1>0, MaxLogAssumption DEF Consumed, Larger, Drained, Cursor, Positions
  <2>2. /\ r \in Context /\ r.known = k /\ r.pos = Consumed(d) /\ r.snap = ctx[d].snap
        /\ r.prop \in Positions
    <3>1. ctx[d].prop \in Positions
      BY <1>0, <1>1 DEF CheckTail, Playing
    <3> QED BY <1>0, <2>1, <3>1, FreshTypes DEF Context
  <2>3. ctx' = [ctx EXCEPT ![d] = r] /\ pc' = [pc EXCEPT ![d] = step] /\ log' = log
    BY <1>0, <1>1 DEF CheckTail
  <2>4. /\ step \in Steps /\ step \in {"force", "scan"}
        /\ Len(log') \in Nat /\ Len(log) <= Len(log')
        /\ r.snap.position < Len(log') /\ r.known < Len(log') /\ r.pos <= Len(log')
    BY <1>0, <2>1, <2>2, <2>3 DEF Steps
  <2> HIDE DEF r, step
  <2>5. Goal
    BY <1>0, <2>2, <2>3, <2>4, CallMoves DEF Playing
  <2> QED BY <1>1, <2>5 DEF CheckTail, TypeInv, TypeOK, SlotBounds
<1>2. CASE ForceAbort(d)
  <2> DEFINE e == Decision(ctx[d].prop, FALSE, "drained")
  <2>1. ctx[d].prop \in Positions
    BY <1>0, <1>2 DEF ForceAbort, Playing
  <2>2. e \in Entry
    BY <2>1 DEF Decision, DecisionEntry, Entry
  <2>3. AppendEntry(e)
    BY <1>2 DEF ForceAbort
  <2>4. /\ log' \in Seq(Entry) /\ Len(log') = Len(log) + 1 /\ Len(log) < MaxLog
        /\ replay' \in Seq(EngineState) /\ Len(replay') = Len(log') + 1
    <3> HIDE DEF e
    <3> QED BY <2>2, <2>3, AppendEffect DEF TypeInv
  <2> DEFINE k == Larger(ctx[d].known, Len(log))
             r == [ctx[d] EXCEPT !.known = k]
  <2>5. k \in Positions /\ k < Len(log') /\ Len(log') <= MaxLog
    BY <1>0, <2>4, MaxLogAssumption DEF Larger, Positions
  <2>6. /\ r \in Context /\ r.known = k /\ r.pos = ctx[d].pos /\ r.snap = ctx[d].snap
        /\ r.prop \in Positions
    BY <1>0, <2>1, <2>5 DEF Context
  <2>7. ctx' = [ctx EXCEPT ![d] = r] /\ pc' = [pc EXCEPT ![d] = "scan"]
    BY <1>0, <1>2 DEF ForceAbort
  <2>8. /\ "scan" \in Steps /\ Len(log') \in Nat /\ Len(log) <= Len(log')
        /\ r.snap.position < Len(log') /\ r.known < Len(log') /\ r.pos <= Len(log')
    BY <1>0, <2>4, <2>5, <2>6 DEF Steps
  <2> HIDE DEF r
  <2>9. Goal
    BY <1>0, <2>6, <2>7, <2>8, CallMoves DEF Playing
  <2>10. SlotBounds'
    BY <1>2, <2>8, SlotKept DEF ForceAbort
  <2> QED BY <1>2, <2>4, <2>5, <2>9, <2>10 DEF ForceAbort, TypeInv, TypeOK
<1>3. CASE ReadOutcome(d)
  <2>1. PICK i \in Attention(d) :
          /\ IsDecision(EntryAt(i)) /\ Return(d, EntryAt(i).type, i) /\ log' = log
    BY <1>3 DEF ReadOutcome
  <2>2. /\ EntryAt(i).type \in Terminal /\ i \in Cursor
        /\ Len(log') \in Nat /\ Len(log) <= Len(log') /\ i <= Len(log')
    BY <1>0, <2>1, AttentionBounds DEF IsDecision, Terminal, Outcomes, Cursor, Positions
  <2>3. Goal
    BY <1>0, <2>1, <2>2, ReturnMoves
  <2> QED BY <1>3, <2>3 DEF ReadOutcome, TypeInv, TypeOK, SlotBounds
<1>4. CASE RejectIntention(d)
  <2>1. PICK i \in Attention(d) :
          /\ ctx' = [ctx EXCEPT ![d].pos = i, ![d].retry = Budget(d, i, @),
                                ![d].out = <<Decision(i, FALSE, "constraint")>>]
          /\ pc' = [pc EXCEPT ![d] = "append"] /\ log' = log /\ pc[d] = "scan"
    BY <1>4 DEF RejectIntention, Reaches
  <2>2. i \in Positions /\ i < Len(log)
    BY AttentionBounds
  <2>3. <<Decision(i, FALSE, "constraint")>> \in Seq(VoteEntry \cup DecisionEntry)
    BY <2>2 DEF Decision, DecisionEntry
  <2>4. Budget(d, i, ctx[d].retry) \in Retry
    BY <1>0, FreshTypes DEF Budget, Context
  <2> DEFINE r == [ctx[d] EXCEPT !.pos = i, !.retry = Budget(d, i, @),
                                 !.out = <<Decision(i, FALSE, "constraint")>>]
  <2>5. /\ r \in Context /\ r.pos = i /\ r.known = ctx[d].known /\ r.snap = ctx[d].snap
        /\ r.prop \in Positions
    <3>1. ctx[d].prop \in Positions
      BY <1>0, <2>1 DEF Playing
    <3> QED BY <1>0, <2>2, <2>3, <2>4, <3>1 DEF Context, Cursor
  <2>6. ctx' = [ctx EXCEPT ![d] = r]
    BY <1>0, <2>1
  <2>7. /\ "append" \in Steps /\ Len(log') \in Nat /\ Len(log) <= Len(log')
        /\ r.snap.position < Len(log') /\ r.known < Len(log')
        /\ r.pos <= Len(log') /\ r.pos < Len(log')
    BY <1>0, <2>1, <2>2, <2>5, MaxLogAssumption DEF Steps, Positions
  <2> HIDE DEF r
  <2>8. Goal
    BY <1>0, <2>1, <2>5, <2>6, <2>7, CallMoves DEF Playing
  <2> QED BY <1>4, <2>8 DEF RejectIntention, TypeInv, TypeOK, SlotBounds
<1>5. CASE ApplyStateless(d)
  <2> DEFINE st == ctx[d].snap.state
  <2>1. PICK i \in Attention(d) :
          /\ Produce(d, i, DefaultDecision(st, EntryAt(i), i)) /\ log' = log
          /\ pc[d] \in Playing
    BY <1>5 DEF ApplyStateless, Reaches, Playing
  <2>2. i \in Positions /\ i < Len(log)
    BY AttentionBounds
  <2>3. DefaultDecision(st, EntryAt(i), i) \in {<<>>} \cup {<<e>> : e \in DecisionEntry}
    BY <2>2 DEF DefaultDecision, Decision, DecisionEntry
  <2>4. Goal
    BY <2>1, <2>2, <2>3, ProduceMoves
  <2> QED BY <1>5, <2>4 DEF ApplyStateless, TypeInv, TypeOK, SlotBounds
<1>6. CASE LoadDecider(d)
  <2> DEFINE slot == deciderSlots[DeciderId(d)]
  <2>1. PICK i \in Attention(d) :
          /\ ConsultsSlot(ctx[d].snap.state, EntryAt(i)) /\ log' = log /\ pc[d] \in Playing
          /\ IF i > slot.position
               THEN /\ ctx' = [ctx EXCEPT ![d].pos = i, ![d].decider = slot,
                                          ![d].retry = Budget(d, i, @)]
                    /\ pc' = [pc EXCEPT ![d] = "save"]
               ELSE Produce(d, i, Redelivered(slot, i))
    BY <1>6 DEF LoadDecider, Reaches, Playing
  <2>2. i \in Positions /\ i < Len(log)
    BY AttentionBounds
  <2>3. slot \in DeciderSlot
    BY <1>0, <2>1 DEF ConsultsSlot, DeciderId, EngineState, DeciderSpec, TypeInv, TypeOK
  <2>4. Goal
    <3>1. CASE i > slot.position
      <4>1. Budget(d, i, ctx[d].retry) \in Retry
        BY <1>0, FreshTypes DEF Budget, Context
      <4> DEFINE r == [ctx[d] EXCEPT !.pos = i, !.decider = slot, !.retry = Budget(d, i, @)]
      <4>2. /\ r \in Context /\ r.pos = i /\ r.known = ctx[d].known /\ r.snap = ctx[d].snap
            /\ r.prop \in Positions
        BY <1>0, <2>1, <2>2, <2>3, <4>1 DEF Context, Cursor
      <4>3. ctx' = [ctx EXCEPT ![d] = r] /\ pc' = [pc EXCEPT ![d] = "save"]
        BY <1>0, <2>1, <3>1
      <4>4. /\ "save" \in Steps /\ Len(log') \in Nat /\ Len(log) <= Len(log')
            /\ r.snap.position < Len(log') /\ r.known < Len(log')
            /\ r.pos <= Len(log') /\ r.pos < Len(log')
        BY <1>0, <2>1, <2>2, <4>2, MaxLogAssumption DEF Steps, Positions
      <4> HIDE DEF r
      <4> QED BY <1>0, <4>2, <4>3, <4>4, CallMoves DEF Playing
    <3>2. CASE ~ (i > slot.position)
      <4>1. Redelivered(slot, i) \in {<<>>} \cup {<<e>> : e \in DecisionEntry}
        BY <2>3 DEF Redelivered, DeciderSlot
      <4> QED BY <2>1, <2>2, <3>2, <4>1, ProduceMoves
    <3> QED BY <3>1, <3>2
  <2> QED BY <1>6, <2>4 DEF LoadDecider, TypeInv, TypeOK, SlotBounds
<1>7. CASE SaveDecider(d)
  <2> DEFINE p == ctx[d].pos
             new == FirstBooleanWins(ctx[d].decider, EntryAt(p), p)
  <2>1. /\ pc[d] = "save" /\ pc[d] \in Playing /\ log' = log /\ Produce(d, p, new.last)
        /\ deciderSlots' = [deciderSlots EXCEPT ![DeciderId(d)] = new]
    BY <1>7 DEF SaveDecider, Playing
  <2>2. p \in Positions /\ p < Len(log) /\ EntryAt(p) \in Entry
    <3>1. p < Len(log)
      BY <1>0, <2>1 DEF TypeInv, CallBounds
    <3>2. log \in Seq(Entry)
      BY DEF TypeInv, TypeOK
    <3> QED BY <1>0, <3>1, <3>2, MaxLogAssumption DEF EntryAt, Positions
  <2>3. new \in DeciderSlot
    BY <1>0, <2>2, FirstBooleanWinsType DEF Context
  <2>4. new.last \in {<<>>} \cup {<<e>> : e \in DecisionEntry}
    BY <2>3 DEF DeciderSlot
  <2> HIDE DEF new, p
  <2>5. Goal
    BY <2>1, <2>2, <2>4, ProduceMoves
  <2>6. deciderSlots' \in [Positions -> DeciderSlot]
    BY <2>1, <2>3 DEF TypeInv, TypeOK
  <2> QED BY <1>7, <2>5, <2>6 DEF SaveDecider, TypeInv, TypeOK, SlotBounds
<1> QED BY <1>1, <1>2, <1>3, <1>4, <1>5, <1>6, <1>7

(* Another attempt within the retry budget, or giving up, after a rejected *)
(* or conflicting write.                                                   *)
LEMMA RetryBounds ==
    ASSUME NEW r \in Retry
    PROVE  /\ RetriesRejection(r) => AfterRejection(r) \in Retry
           /\ RetriesConflict(r) => AfterConflict(r) \in Retry
BY BoundsAssumption DEF Retry, RetriesRejection, RetriesConflict, AfterRejection, AfterConflict

(* Appending outputs, advancing the checkpoint and retrying keep the types.*)
LEMMA TypeStepWrite ==
    ASSUME TypeInv, NEW d \in Drives,
           \/ DeciderRejected(d) \/ DeciderConflict(d) \/ AppendOutput(d) \/ StopPlayback(d)
           \/ SaveCheckpoint(d) \/ CheckpointRejected(d) \/ CheckpointConflict(d) \/ Reload(d)
    PROVE  TypeInv'
<1> DEFINE Goal == /\ pc' \in [Calls -> Steps \cup Terminal]
                   /\ ctx' \in [Calls -> Context]
                   /\ CallBounds'
<1>0. DriveFacts(d)
  BY DriveLocals
<1> USE DEF DriveFacts
<1>1. CASE DeciderRejected(d) \/ DeciderConflict(d)
  <2>1. /\ pc[d] = "save" /\ faults' \in 0 .. MaxFaults /\ log' = log
        /\ UNCHANGED <<replay, engineSlot, deciderSlots, published, external>>
    BY <1>1, BoundsAssumption
    DEF DeciderRejected, DeciderConflict, RetryDecider, TypeInv, TypeOK
  <2>2. /\ Len(log') \in Nat /\ Len(log) <= Len(log') /\ ctx[d].pos <= Len(log')
        /\ ctx[d].dretry \in Retry
    BY <1>0, <2>1 DEF Context
  <2>3. \/ Return(d, "Concurrency", ctx[d].pos)
        \/ \E q \in Retry : /\ ctx' = [ctx EXCEPT ![d].decider = EmptyDecider, ![d].dretry = q]
                            /\ pc' = [pc EXCEPT ![d] = "scan"]
    BY <1>1, <2>2, RetryBounds DEF DeciderRejected, DeciderConflict, RetryDecider
  <2>4. CASE Return(d, "Concurrency", ctx[d].pos)
    <3>1. "Concurrency" \in Terminal
      BY DEF Terminal
    <3>2. Goal
      BY <1>0, <2>2, <2>4, <3>1, ReturnMoves
    <3> QED BY <2>1, <3>2 DEF TypeInv, TypeOK, SlotBounds
  <2>5. ASSUME NEW q \in Retry,
               ctx' = [ctx EXCEPT ![d].decider = EmptyDecider, ![d].dretry = q],
               pc' = [pc EXCEPT ![d] = "scan"]
        PROVE  TypeInv'
    <3> DEFINE r == [ctx[d] EXCEPT !.decider = EmptyDecider, !.dretry = q]
    <3>1. /\ r \in Context /\ r.pos = ctx[d].pos /\ r.known = ctx[d].known
          /\ r.snap = ctx[d].snap /\ r.prop \in Positions
      <4>1. ctx[d].prop \in Positions
        BY <1>0, <2>1 DEF Playing
      <4> QED BY <1>0, <4>1, FreshTypes DEF Context
    <3>2. ctx' = [ctx EXCEPT ![d] = r]
      BY <1>0, <2>5
    <3>3. /\ "scan" \in Steps /\ r.snap.position < Len(log')
          /\ r.known < Len(log') /\ r.pos <= Len(log')
      BY <1>0, <2>1, <3>1 DEF Steps
    <3> HIDE DEF r
    <3>4. Goal
      BY <1>0, <2>2, <2>5, <3>1, <3>2, <3>3, CallMoves DEF Playing
    <3> QED BY <2>1, <3>4 DEF TypeInv, TypeOK, SlotBounds
  <2> QED BY <2>3, <2>4, <2>5
<1>2. CASE AppendOutput(d)
  <2>1. ctx[d].out \in Seq(VoteEntry \cup DecisionEntry) /\ ctx[d].out # <<>>
    BY <1>0, <1>2 DEF AppendOutput, Context
  <2>2. /\ Head(ctx[d].out) \in Entry
        /\ Tail(ctx[d].out) \in Seq(VoteEntry \cup DecisionEntry)
    BY <2>1 DEF Entry
  <2>3. AppendEntry(Head(ctx[d].out)) /\ pc' = pc /\ pc[d] = "append"
    BY <1>2 DEF AppendOutput
  <2>4. /\ log' \in Seq(Entry) /\ Len(log') = Len(log) + 1 /\ Len(log) < MaxLog
        /\ replay' \in Seq(EngineState) /\ Len(replay') = Len(log') + 1
    BY <2>2, <2>3, AppendEffect DEF TypeInv
  <2> DEFINE k == Larger(ctx[d].known, Len(log))
             r == [ctx[d] EXCEPT !.out = Tail(ctx[d].out), !.known = k]
  <2>5. k \in Positions /\ k < Len(log') /\ Len(log') <= MaxLog
    BY <1>0, <2>4, MaxLogAssumption DEF Larger, Positions
  <2>6. /\ r \in Context /\ r.known = k /\ r.pos = ctx[d].pos /\ r.snap = ctx[d].snap
        /\ r.prop \in Positions
    <3>1. ctx[d].prop \in Positions
      BY <1>0, <2>3 DEF Playing
    <3> QED BY <1>0, <2>2, <2>5, <3>1 DEF Context
  <2>7. ctx' = [ctx EXCEPT ![d] = r] /\ pc' = [pc EXCEPT ![d] = "append"]
    BY <1>0, <1>2, <2>3 DEF AppendOutput
  <2>8. /\ "append" \in Steps /\ Len(log') \in Nat /\ Len(log) <= Len(log')
        /\ r.snap.position < Len(log') /\ r.known < Len(log')
        /\ r.pos <= Len(log') /\ r.pos < Len(log')
    BY <1>0, <2>4, <2>5, <2>6 DEF Steps
  <2> HIDE DEF r
  <2>9. Goal
    BY <1>0, <2>6, <2>7, <2>8, CallMoves DEF Playing
  <2>10. SlotBounds'
    BY <1>2, <2>8, SlotKept DEF AppendOutput
  <2> QED BY <1>2, <2>4, <2>5, <2>9, <2>10 DEF AppendOutput, TypeInv, TypeOK
<1>3. CASE StopPlayback(d)
  <2>1. Return(d, "Stopped", ctx[d].pos) /\ log' = log /\ "Stopped" \in Terminal
    BY <1>3 DEF StopPlayback, Terminal
  <2>2. Len(log') \in Nat /\ Len(log) <= Len(log') /\ ctx[d].pos <= Len(log')
    BY <1>0, <2>1
  <2>3. Goal
    BY <1>0, <2>1, <2>2, ReturnMoves
  <2> QED BY <1>3, <2>3 DEF StopPlayback, TypeInv, TypeOK, SlotBounds
<1>4. CASE SaveCheckpoint(d)
  <2> DEFINE p == ctx[d].pos
             st == ReplayStep(ctx[d].snap.state, EntryAt(p), p)
             new == [position |-> p, state |-> st]
             r == [ctx[d] EXCEPT !.snap = new, !.pos = p + 1, !.retry = FreshRetry]
  <2>1. /\ pc[d] = "append" /\ log' = log /\ engineSlot' = new
        /\ pc' = [pc EXCEPT ![d] = "scan"] /\ ctx' = [ctx EXCEPT ![d] = r]
    BY <1>0, <1>4 DEF SaveCheckpoint, Saving, Unapplied
  <2>2. p \in Positions /\ p < Len(log) /\ EntryAt(p) \in Entry
    <3>1. p < Len(log)
      BY <1>0, <2>1 DEF TypeInv, CallBounds
    <3>2. log \in Seq(Entry)
      BY DEF TypeInv, TypeOK
    <3> QED BY <1>0, <3>1, <3>2, MaxLogAssumption DEF EntryAt, Positions
  <2>3. st \in EngineState
    BY <1>0, <2>2, ReplayStepType
  <2> HIDE DEF st
  <2>4. new \in Snapshot /\ new.position < Len(log)
    BY <2>2, <2>3 DEF Snapshot
  <2>5. p + 1 \in Cursor /\ p + 1 <= Len(log')
    BY <1>0, <2>1, <2>2, MaxLogAssumption DEF Cursor, Positions
  <2>6. /\ r \in Context /\ r.known = ctx[d].known /\ r.pos = p + 1 /\ r.snap = new
        /\ r.prop \in Positions
    <3>1. ctx[d].prop \in Positions
      BY <1>0, <2>1 DEF Playing
    <3> HIDE DEF new, p
    <3> QED BY <1>0, <2>4, <2>5, <3>1, FreshTypes DEF Context
  <2>7. /\ "scan" \in Steps /\ Len(log') \in Nat /\ Len(log) <= Len(log')
        /\ r.snap.position < Len(log') /\ r.known < Len(log') /\ r.pos <= Len(log')
    BY <1>0, <2>1, <2>4, <2>5, <2>6 DEF Steps
  <2> HIDE DEF r, new
  <2>8. Goal
    BY <1>0, <2>1, <2>6, <2>7, CallMoves DEF Playing
  <2>9. engineSlot' \in Snapshot /\ SlotBounds'
    BY <2>1, <2>4 DEF SlotBounds
  <2> QED BY <1>4, <2>8, <2>9 DEF SaveCheckpoint, TypeInv, TypeOK
<1>5. CASE CheckpointRejected(d) \/ CheckpointConflict(d)
  <2>1. /\ pc[d] = "append" /\ faults' \in 0 .. MaxFaults /\ log' = log
        /\ UNCHANGED <<replay, engineSlot, deciderSlots, published, external>>
    BY <1>5, BoundsAssumption
    DEF CheckpointRejected, CheckpointConflict, RetryApply, Saving, Unapplied, TypeInv, TypeOK
  <2>2. /\ Len(log') \in Nat /\ Len(log) <= Len(log') /\ ctx[d].pos <= Len(log')
        /\ ctx[d].retry \in Retry
    BY <1>0, <2>1 DEF Context
  <2>3. \/ Return(d, "Concurrency", ctx[d].pos)
        \/ \E q \in Retry : /\ ctx' = [ctx EXCEPT ![d].retry = q]
                            /\ pc' = [pc EXCEPT ![d] = "reload"]
    BY <1>5, <2>2, RetryBounds DEF CheckpointRejected, CheckpointConflict, RetryApply
  <2>4. CASE Return(d, "Concurrency", ctx[d].pos)
    <3>1. "Concurrency" \in Terminal
      BY DEF Terminal
    <3>2. Goal
      BY <1>0, <2>2, <2>4, <3>1, ReturnMoves
    <3> QED BY <2>1, <3>2 DEF TypeInv, TypeOK, SlotBounds
  <2>5. ASSUME NEW q \in Retry,
               ctx' = [ctx EXCEPT ![d].retry = q], pc' = [pc EXCEPT ![d] = "reload"]
        PROVE  TypeInv'
    <3> DEFINE r == [ctx[d] EXCEPT !.retry = q]
    <3>1. /\ r \in Context /\ r.pos = ctx[d].pos /\ r.known = ctx[d].known
          /\ r.snap = ctx[d].snap /\ r.prop \in Positions
      <4>1. ctx[d].prop \in Positions
        BY <1>0, <2>1 DEF Playing
      <4> QED BY <1>0, <4>1 DEF Context
    <3>2. ctx' = [ctx EXCEPT ![d] = r]
      BY <1>0, <2>5
    <3>3. /\ "reload" \in Steps /\ r.snap.position < Len(log')
          /\ r.known < Len(log') /\ r.pos <= Len(log')
      BY <1>0, <2>1, <3>1 DEF Steps
    <3> HIDE DEF r
    <3>4. Goal
      BY <1>0, <2>2, <2>5, <3>1, <3>2, <3>3, CallMoves DEF Playing
    <3> QED BY <2>1, <3>4 DEF TypeInv, TypeOK, SlotBounds
  <2> QED BY <2>3, <2>4, <2>5
<1>6. CASE Reload(d)
  <2> DEFINE r == [ctx[d] EXCEPT !.snap = engineSlot]
  <2>1. /\ r \in Context /\ r.pos = ctx[d].pos /\ r.known = ctx[d].known
        /\ r.snap = engineSlot /\ r.prop \in Positions
    <3>1. ctx[d].prop \in Positions
      BY <1>0, <1>6 DEF Reload, Playing
    <3> QED BY <1>0, <3>1 DEF Context, TypeInv, TypeOK
  <2>2. ctx' = [ctx EXCEPT ![d] = r] /\ pc' = [pc EXCEPT ![d] = "scan"] /\ log' = log
    BY <1>0, <1>6 DEF Reload
  <2>3. /\ "scan" \in Steps /\ Len(log') \in Nat /\ Len(log) <= Len(log')
        /\ r.snap.position < Len(log') /\ r.known < Len(log') /\ r.pos <= Len(log')
    BY <1>0, <2>1, <2>2 DEF Steps, TypeInv, SlotBounds
  <2> HIDE DEF r
  <2>4. Goal
    BY <1>0, <2>1, <2>2, <2>3, CallMoves DEF Playing
  <2> QED BY <1>6, <2>4 DEF Reload, TypeInv, TypeOK, SlotBounds
<1> QED BY <1>1, <1>2, <1>3, <1>4, <1>5, <1>6

(* The type invariant and its bounds hold initially.                       *)
LEMMA TypeInit == Init => TypeInv
<1> SUFFICES ASSUME Init PROVE TypeInv
  OBVIOUS
<1>1. log = <<>> /\ replay = <<InitState>> /\ engineSlot = EmptySnapshot
  BY DEF Init
<1>2. /\ log \in Seq(Entry) /\ Len(log) = 0 /\ Len(log) <= MaxLog
      /\ replay \in Seq(EngineState) /\ Len(replay) = Len(log) + 1
  BY <1>1, FreshTypes, MaxLogAssumption
<1>3. engineSlot \in Snapshot /\ deciderSlots \in [Positions -> DeciderSlot]
  BY FreshTypes DEF Init
<1>4. published \in 1 .. NumVersions /\ external \in 0 .. MaxExternal /\ faults \in 0 .. MaxFaults
  BY VersionsAssumption, BoundsAssumption DEF Init
<1>5. pc \in [Calls -> Steps \cup Terminal] /\ ctx \in [Calls -> Context]
  BY FreshTypes DEF Init, Steps
<1>6. SlotBounds
  BY <1>1, <1>2 DEF SlotBounds, EmptySnapshot
<1>7. CallBounds
  BY <1>2 DEF CallBounds, Init, FreshContext, EmptySnapshot, Playing
<1> QED BY <1>2, <1>3, <1>4, <1>5, <1>6, <1>7 DEF TypeInv, TypeOK

(* Every step keeps the type invariant and its bounds.                     *)
LEMMA TypeStep == TypeInv /\ [Next]_vars => TypeInv'
<1> SUFFICES ASSUME TypeInv, [Next]_vars PROVE TypeInv'
  OBVIOUS
<1>1. CASE \/ Publish
           \/ \E e \in ExternalEntries : ExternalAppend(e)
           \/ \E c \in Creators : Create(c) \/ CreateSaveFails(c)
           \/ \E c \in Calls : Fail(c)
  <2>1. \A c \in Creators : c \in Calls
    BY DEF Calls
  <2> QED BY <1>1, <2>1, TypeStepEnvironment
<1>2. ASSUME NEW d \in Drives, Propose(d) \/ Conflict(d)
      PROVE  TypeInv'
  BY <1>2, TypeStepStart, TypeStepRead, TypeStepWrite DEF Propose, Conflict
<1>3. CASE UNCHANGED vars
  BY <1>3 DEF vars, TypeInv, TypeOK, SlotBounds, CallBounds, Playing
<1> QED BY <1>1, <1>2, <1>3 DEF Next

(* Type correctness of the engine: whatever calls run, fail and interleave,*)
(* the bus, the stored states and every call's locals stay well-formed.    *)
THEOREM TypeCorrect == Spec => []TypeOK
<1>1. TypeInv => TypeOK
  BY DEF TypeInv
<1> QED BY <1>1, TypeInit, TypeStep, PTL DEF Spec

-----------------------------------------------------------------------------
(* The checkpoint is the replay of the log.                                *)
(*                                                                         *)
(* CheckpointIsReplay is not inductive: a drive writes the state it        *)
(* computed from its own snapshot, so what every drive holds must be tied  *)
(* to the log as well.  Its snapshot is the replay up to the snapshot's    *)
(* position, and every entry between that and the one it is applying is a  *)
(* decision, which changes no state.                                       *)

(* Only decisions between a and b.                                         *)
Quiet(a, b) == \A j \in a .. (b - 1) : IsDecision(EntryAt(j))

ReplayChain ==
    /\ StateAt(0) = InitState
    /\ \A p \in LogPositions : StateAt(p + 1) = ReplayStep(StateAt(p), EntryAt(p), p)

ReplayQuiet ==
    \A a, b \in 0 .. Len(log) : a <= b /\ Quiet(a, b) => StateAt(a) = StateAt(b)

SnapshotValid(s) ==
    /\ s.state = StateAt(s.position + 1)
    /\ s.position <= engineSlot.position

CallValid(c) ==
    /\ SnapshotValid(ctx[c].snap)
    /\ pc[c] \in Playing => Quiet(ctx[c].snap.position + 1, ctx[c].pos)
    /\ pc[c] \in {"save", "append"} => ctx[c].snap.position < ctx[c].pos
    /\ pc[c] = "createSave" => EntryAt(0) = InitialBatch(ctx[c].version)

ReplayInv ==
    /\ TypeInv
    /\ ReplayChain
    /\ ReplayQuiet
    /\ CheckpointIsReplay
    /\ \A c \in Calls : CallValid(c)

(* The log and its replay only grow.                                       *)
Extends ==
    /\ Len(log') \in Nat /\ Len(log) <= Len(log')
    /\ \A p \in 0 .. (Len(log) - 1) : EntryAt(p)' = EntryAt(p)
    /\ \A p \in 0 .. Len(log) : StateAt(p)' = StateAt(p)

(* A decision leaves the engine state alone.                               *)
LEMMA DecisionsAreQuiet ==
    ASSUME NEW st, NEW e, NEW p, IsDecision(e)
    PROVE  ReplayStep(st, e, p) = st
BY DEF IsDecision, ReplayStep

(* An append extends the history and keeps its two facts.                  *)
LEMMA HistoryStep ==
    ASSUME TypeInv, TypeInv', ReplayChain, ReplayQuiet,
           UNCHANGED <<log, replay>> \/ (\E e : AppendEntry(e))
    PROVE  Extends /\ ReplayChain' /\ ReplayQuiet'
<1>1. CASE UNCHANGED <<log, replay>>
  <2>1. Len(log) \in Nat
    BY DEF TypeInv, TypeOK
  <2> QED BY <1>1, <2>1
          DEF Extends, ReplayChain, ReplayQuiet, Quiet, EntryAt, StateAt, LogPositions
<1>2. ASSUME NEW e, AppendEntry(e)
      PROVE  Extends /\ ReplayChain' /\ ReplayQuiet'
  <2>0. log \in Seq(Entry) /\ log' \in Seq(Entry) /\ Len(log) \in Nat
    BY DEF TypeInv, TypeOK
  <2>1. e \in Entry
    <3>1. log' = Append(log, e)
      BY <1>2 DEF AppendEntry
    <3>2. log'[Len(log) + 1] = e /\ Len(log) + 1 \in 1 .. Len(log')
      BY <2>0, <3>1
    <3>3. log'[Len(log) + 1] \in Entry
      BY <2>0, <3>2
    <3> QED BY <3>2, <3>3
  <2>4. PICK n \in Nat : n = Len(log)
    BY <2>0
  <2>2. /\ Len(log') = n + 1
        /\ \A p \in 0 .. (n - 1) : EntryAt(p)' = EntryAt(p)
        /\ \A p \in 0 .. n : StateAt(p)' = StateAt(p)
        /\ EntryAt(n)' = e
        /\ StateAt(n + 1)' = ReplayStep(StateAt(n), e, n)
    BY <1>2, <2>0, <2>1, <2>4, AppendEffect DEF TypeInv, EntryAt, StateAt
  <2>3. Extends
    BY <2>0, <2>2, <2>4 DEF Extends
  <2>5. ReplayChain'
    <3>1. StateAt(0)' = InitState
      BY <2>2, <2>4 DEF ReplayChain
    <3>2. ASSUME NEW p \in 0 .. n
          PROVE  StateAt(p + 1)' = ReplayStep(StateAt(p)', EntryAt(p)', p)
      <4>1. CASE p = n
        BY <2>2, <2>4, <4>1
      <4>2. CASE p < n
        <5>1. p \in LogPositions /\ p \in 0 .. (n - 1) /\ p + 1 \in 0 .. n
          BY <2>4, <4>2 DEF LogPositions
        <5>2. StateAt(p + 1) = ReplayStep(StateAt(p), EntryAt(p), p)
          BY <5>1 DEF ReplayChain
        <5> QED BY <2>2, <5>1, <5>2
      <4> QED BY <2>4, <4>1, <4>2
    <3>3. LogPositions' = 0 .. n
      BY <2>2, <2>4 DEF LogPositions
    <3> QED BY <3>1, <3>2, <3>3 DEF ReplayChain
  <2>6. ReplayQuiet'
    <3>1. SUFFICES ASSUME NEW a \in 0 .. (n + 1), NEW b \in 0 .. (n + 1), a <= b,
                          Quiet(a, b)'
                   PROVE  StateAt(a)' = StateAt(b)'
      BY <2>2 DEF ReplayQuiet
    <3>2. \A j \in a .. (b - 1) : IsDecision(EntryAt(j)')
      BY <3>1 DEF Quiet, IsDecision
    <3>3. ASSUME NEW m \in 0 .. n, a <= m, m <= b
          PROVE  StateAt(a)' = StateAt(m)'
      <4>1. Quiet(a, m)
        <5>1. ASSUME NEW j \in a .. (m - 1)
              PROVE  IsDecision(EntryAt(j))
          <6>1. j \in a .. (b - 1) /\ j \in 0 .. (n - 1)
            BY <2>4, <3>3
          <6> QED BY <2>2, <3>2, <6>1
        <5> QED BY <5>1 DEF Quiet
      <4>2. a \in 0 .. n
        BY <2>4, <3>3
      <4>3. StateAt(a) = StateAt(m)
        BY <2>4, <3>3, <4>1, <4>2 DEF ReplayQuiet
      <4> QED BY <2>2, <4>2, <4>3
    <3>4. CASE b <= n
      <4>1. b \in 0 .. n /\ a <= b /\ b <= b
        BY <2>4, <3>1, <3>4
      <4> QED BY ONLY <3>3, <4>1
    <3>5. CASE b = n + 1 /\ a <= n
      <4>1. n \in a .. (b - 1)
        BY <2>4, <3>5
      <4>2. IsDecision(e)
        BY <2>2, <3>2, <4>1
      <4>3. StateAt(n + 1)' = StateAt(n)'
        BY <2>2, <2>4, <4>2, DecisionsAreQuiet
      <4>4. StateAt(a)' = StateAt(n)'
        BY <2>4, <3>3, <3>5
      <4> QED BY <3>5, <4>3, <4>4
    <3>6. CASE a = n + 1 /\ b = n + 1
      BY <3>6
    <3> QED BY <2>4, <3>4, <3>5, <3>6
  <2> QED BY <2>3, <2>5, <2>6
<1> QED BY <1>1, <1>2

(* Every step leaves the log alone or appends one entry.                   *)
LEMMA LogSteps ==
    ASSUME Next
    PROVE  UNCHANGED <<log, replay>> \/ (\E e : AppendEntry(e))
<1>1. ASSUME NEW c, Create(c) \/ CreateSaveFails(c) \/ Fail(c)
      PROVE  UNCHANGED <<log, replay>> \/ (\E e : AppendEntry(e))
  BY <1>1 DEF Create, CreateReadPolicy, CreateAppend, CreateSave, CreateSaveFails, Fail
<1>2. ASSUME NEW d, Propose(d) \/ Conflict(d)
      PROVE  UNCHANGED <<log, replay>> \/ (\E e : AppendEntry(e))
  BY <1>2 DEF Propose, Conflict, LoadSnapshot, ReadPolicy, AppendPolicy, AppendIntention,
       CheckTail, ForceAbort, ReadOutcome, RejectIntention, ApplyStateless, LoadDecider,
       SaveDecider, DeciderRejected, DeciderConflict, RetryDecider, AppendOutput,
       StopPlayback, SaveCheckpoint, CheckpointRejected, CheckpointConflict, RetryApply, Reload
<1> QED BY <1>1, <1>2 DEF Next, Publish, ExternalAppend

(* A snapshot that was valid, the checkpoint and the empty snapshot are    *)
(* valid after a step.                                                     *)
LEMMA SnapshotStep ==
    ASSUME ReplayInv, ReplayChain', CheckpointIsReplay', Extends, TypeInv',
           engineSlot.position <= engineSlot'.position, NEW c \in Calls,
           ctx'[c].snap \in {ctx[c].snap, engineSlot, engineSlot', EmptySnapshot}
    PROVE  SnapshotValid(ctx[c].snap)'
<1>0. /\ engineSlot \in Snapshot /\ engineSlot' \in Snapshot
      /\ Len(log) \in Nat /\ engineSlot.position < Len(log)
      /\ engineSlot.state = StateAt(engineSlot.position + 1)
      /\ (engineSlot.state = StateAt(engineSlot.position + 1))'
  BY DEF ReplayInv, TypeInv, TypeOK, SlotBounds, CheckpointIsReplay
<1>1. /\ engineSlot.position \in Int /\ engineSlot.position >= -1
      /\ engineSlot'.position \in Int /\ engineSlot'.position >= -1
  BY <1>0, MaxLogAssumption DEF Snapshot, Positions
<1>2. ASSUME NEW s \in Snapshot, s.state = StateAt(s.position + 1),
             s.position < Len(log), s.position <= engineSlot.position, ctx'[c].snap = s
      PROVE  SnapshotValid(ctx[c].snap)'
  <2>1. PICK p \in 0 .. Len(log) : p = s.position + 1
    BY <1>0, <1>2, MaxLogAssumption DEF Snapshot, Positions
  <2>2. StateAt(p)' = StateAt(p) /\ s.position \in Int
    BY <2>1, <1>2, MaxLogAssumption DEF Extends, Snapshot, Positions
  <2>3. s.state = replay'[s.position + 2]
    BY <1>2, <2>1, <2>2 DEF StateAt
  <2>4. ctx'[c].snap.state = replay'[(ctx'[c].snap.position + 1) + 1]
    BY <1>2, <2>2, <2>3
  <2> QED BY <1>1, <1>2, <2>2, <2>4 DEF SnapshotValid, StateAt
<1>3. CASE ctx'[c].snap = ctx[c].snap
  <2>1. ctx[c].snap \in Snapshot /\ ctx[c].snap.position < Len(log)
    BY DEF ReplayInv, TypeInv, TypeOK, CallBounds, Context
  <2>2. SnapshotValid(ctx[c].snap)
    BY DEF ReplayInv, CallValid
  <2> QED BY <1>2, <1>3, <2>1, <2>2 DEF SnapshotValid
<1>4. CASE ctx'[c].snap = engineSlot
  BY <1>0, <1>1, <1>2, <1>4
<1>5. CASE ctx'[c].snap = engineSlot'
  BY <1>0, <1>1, <1>5 DEF SnapshotValid, StateAt
<1>6. CASE ctx'[c].snap = EmptySnapshot
  <2>1. EmptySnapshot.position = -1 /\ EmptySnapshot.state = InitState
    BY DEF EmptySnapshot
  <2>2. replay'[1] = InitState
    BY DEF ReplayChain, StateAt
  <2> QED BY <1>1, <1>6, <2>1, <2>2 DEF SnapshotValid, StateAt
<1> QED BY <1>3, <1>4, <1>5, <1>6

(* A range of decisions stays one while the log grows.                     *)
LEMMA QuietKept ==
    ASSUME Extends, NEW a \in Nat, NEW b \in Nat, b <= Len(log), Len(log) \in Nat, Quiet(a, b)
    PROVE  Quiet(a, b)'
<1>1. ASSUME NEW j \in a .. (b - 1)
      PROVE  IsDecision(EntryAt(j)')
  <2>1. j \in 0 .. (Len(log) - 1)
    OBVIOUS
  <2> QED BY <2>1 DEF Quiet, Extends
<1> QED BY <1>1 DEF Quiet, IsDecision

(* Calls that do not move stay valid.                                      *)
LEMMA OtherValid ==
    ASSUME ReplayInv, ReplayChain', CheckpointIsReplay', Extends, TypeInv',
           engineSlot.position <= engineSlot'.position, NEW c \in Calls,
           pc'[c] = pc[c], ctx'[c] = ctx[c]
    PROVE  CallValid(c)'
<1>1. SnapshotValid(ctx[c].snap)'
  BY SnapshotStep
<1>2. /\ CallValid(c) /\ ctx[c] \in Context /\ ctx[c].snap \in Snapshot
      /\ ctx[c].pos <= Len(log) /\ ctx[c].snap.position < Len(log) /\ Len(log) \in Nat
  BY DEF ReplayInv, TypeInv, TypeOK, CallBounds, Context
<1>3. pc[c] \in Playing => Quiet(ctx[c].snap.position + 1, ctx[c].pos)'
  <2>0. ctx[c].snap.position \in Positions \cup {NoPosition} /\ ctx[c].pos \in Cursor
    BY <1>2 DEF Context, Snapshot
  <2>1. ctx[c].snap.position + 1 \in Nat /\ ctx[c].pos \in Nat
    BY <2>0, MaxLogAssumption DEF Cursor, Positions
  <2> PICK a \in Nat, b \in Nat : a = ctx[c].snap.position + 1 /\ b = ctx[c].pos
    BY <2>1
  <2>2. pc[c] \in Playing => Quiet(a, b)
    BY <1>2 DEF CallValid
  <2>3. pc[c] \in Playing => Quiet(a, b)'
    BY <1>2, <2>2, QuietKept
  <2> QED BY <2>3 DEF Quiet
<1>4. pc[c] = "createSave" => EntryAt(0)' = InitialBatch(ctx[c].version)
  <2>1. pc[c] = "createSave" => 0 \in 0 .. (Len(log) - 1)
    BY <1>2 DEF ReplayInv, TypeInv, CallBounds
  <2> QED BY <1>2, <2>1 DEF CallValid, Extends
<1> QED BY <1>1, <1>2, <1>3, <1>4 DEF CallValid, Quiet, EntryAt

(* A step of one call leaves the others where they are.                    *)
LEMMA OthersKeep ==
    ASSUME TypeInv, NEW d \in Calls,
           \/ Propose(d) \/ Conflict(d) \/ Create(d) \/ CreateSaveFails(d) \/ Fail(d),
           NEW c \in Calls, c # d
    PROVE  pc'[c] = pc[c] /\ ctx'[c] = ctx[c]
<1>0. pc \in [Calls -> Steps \cup Terminal] /\ ctx \in [Calls -> Context]
  BY DEF TypeInv, TypeOK
<1>1. CASE Create(d) \/ CreateSaveFails(d) \/ Fail(d)
  BY <1>0, <1>1 DEF Create, CreateReadPolicy, ProviderRefuses, CreateAppend, CreateSave,
       CreateSaveFails, Fail, Return
<1>2. CASE \/ LoadSnapshot(d) \/ AppendPolicy(d) \/ CheckTail(d) \/ ForceAbort(d)
           \/ AppendOutput(d) \/ SaveCheckpoint(d) \/ Reload(d)
  BY <1>0, <1>2 DEF LoadSnapshot, AppendPolicy, CheckTail, ForceAbort, AppendOutput,
       SaveCheckpoint, Reload
<1>3. CASE ReadPolicy(d) \/ AppendIntention(d) \/ ReadOutcome(d) \/ StopPlayback(d)
  BY <1>0, <1>3 DEF ReadPolicy, ProviderRefuses, AppendIntention, ReadOutcome, StopPlayback,
       Return
<1>4. CASE RejectIntention(d)
  BY <1>0, <1>4 DEF RejectIntention
<1>5. CASE \E i, decision : Produce(d, i, decision)
  <2>1. CASE \E i, decision : Hold(d, i, decision)
    BY <1>0, <2>1 DEF Hold
  <2>2. CASE \E i : Return(d, "Stopped", i)
    BY <1>0, <2>2 DEF Return
  <2> QED BY <1>5, <2>1, <2>2 DEF Produce
<1>6. CASE LoadDecider(d) /\ ~ (\E i, decision : Produce(d, i, decision))
  BY <1>0, <1>6 DEF LoadDecider
<1>7. CASE ApplyStateless(d) \/ SaveDecider(d)
  BY <1>5, <1>7 DEF ApplyStateless, SaveDecider
<1>8. CASE \/ DeciderRejected(d) \/ CheckpointRejected(d) \/ Conflict(d)
  BY <1>0, <1>8 DEF DeciderRejected, CheckpointRejected, Conflict, DeciderConflict,
       CheckpointConflict, RetryDecider, RetryApply, Return
<1> QED BY <1>1, <1>2, <1>3, <1>4, <1>5, <1>6, <1>7, <1>8 DEF Propose

(* Where a step takes the call that makes it: out of playback, ...         *)
Leaves(c) ==
    /\ pc'[c] \notin Playing \cup {"createSave"}
    /\ ctx'[c].snap \in {ctx[c].snap, engineSlot, EmptySnapshot}

(* ... on at the same entry, ...                                           *)
Stays(c) ==
    /\ pc[c] \in Playing /\ pc'[c] \in Playing
    /\ pc'[c] \in {"save", "append"} => pc[c] \in {"save", "append"}
    /\ ctx'[c].snap = ctx[c].snap /\ ctx'[c].pos = ctx[c].pos

(* ... on to a later one, past entries it need not stop at, ...            *)
Jumps(c) ==
    /\ pc[c] = "scan" /\ pc'[c] \in Playing
    /\ ctx'[c].snap = ctx[c].snap
    /\ ctx'[c].pos \in ctx[c].pos .. Consumed(c)
    /\ \A j \in Attention(c) : ctx'[c].pos <= j
    /\ pc'[c] \in {"save", "append"} => ctx[c].snap.position < ctx'[c].pos

(* ... on at the same entry with the stored checkpoint, ...                *)
Reloads(c) ==
    /\ pc[c] \in Playing /\ pc'[c] = "scan"
    /\ ctx'[c].snap = engineSlot /\ ctx'[c].pos = ctx[c].pos

(* ... or to the entry after its snapshot.                                 *)
Resumes(c) ==
    /\ pc'[c] = "scan"
    /\ ctx'[c].snap \in {ctx[c].snap, engineSlot'}
    /\ ctx'[c].pos = ctx'[c].snap.position + 1

(* A call that returns leaves playback.                                    *)
LEMMA ReturnLeaves ==
    ASSUME TypeInv, NEW c \in Calls, NEW result \in Terminal, NEW pos, Return(c, result, pos)
    PROVE  Leaves(c)
<1>1. pc'[c] = result /\ ctx'[c].snap = EmptySnapshot
  BY DEF TypeInv, TypeOK, Return, FreshContext
<1> QED BY <1>1 DEF Leaves, Terminal, Outcomes, Playing

(* A drive's step before playback.                                         *)
LEMMA StartMoves ==
    ASSUME TypeInv, NEW d \in Drives,
           \/ LoadSnapshot(d) \/ ReadPolicy(d) \/ AppendPolicy(d) \/ AppendIntention(d)
    PROVE  Leaves(d) \/ Resumes(d)
<1>0. DriveFacts(d)
  BY DriveLocals
<1> USE DEF DriveFacts
<1>1. CASE LoadSnapshot(d)
  <2>1. pc'[d] = "policy" /\ ctx'[d].snap = engineSlot
    BY <1>0, <1>1 DEF LoadSnapshot, Context
  <2> QED BY <2>1 DEF Leaves, Playing
<1>2. CASE ReadPolicy(d)
  <2>1. CASE Return(d, "PlanError", ctx[d].pos) \/ Return(d, "PolicyError", ctx[d].pos)
    <3>1. "PlanError" \in Terminal /\ "PolicyError" \in Terminal
      BY DEF Terminal
    <3> QED BY <1>0, <2>1, <3>1, ReturnLeaves
  <2>2. CASE ~ Return(d, "PlanError", ctx[d].pos) /\ ~ Return(d, "PolicyError", ctx[d].pos)
    <3>1. pc'[d] \in {"batch", "intend"} /\ ctx'[d].snap = ctx[d].snap
      BY <1>0, <1>2, <2>2 DEF ReadPolicy, ProviderRefuses, Context
    <3> QED BY <3>1 DEF Leaves, Playing
  <2> QED BY <2>1, <2>2
<1>3. CASE AppendPolicy(d)
  <2>1. pc'[d] = "intend" /\ ctx'[d].snap = ctx[d].snap
    BY <1>0, <1>3 DEF AppendPolicy, Context
  <2> QED BY <2>1 DEF Leaves, Playing
<1>4. CASE AppendIntention(d)
  <2>1. CASE Return(d, "BusDataLoss", ctx[d].pos)
    <3>1. "BusDataLoss" \in Terminal
      BY DEF Terminal
    <3> QED BY <1>0, <2>1, <3>1, ReturnLeaves
  <2>2. CASE ~ Return(d, "BusDataLoss", ctx[d].pos)
    <3>1. /\ pc'[d] = "scan" /\ ctx'[d].snap = ctx[d].snap
          /\ ctx'[d].pos = ctx[d].snap.position + 1
      BY <1>0, <1>4, <2>2 DEF AppendIntention, Context, ResumeAt
    <3> QED BY <3>1 DEF Resumes
  <2> QED BY <2>1, <2>2
<1> QED BY <1>1, <1>2, <1>3, <1>4

(* A drive that does not hold the outputs stops.                           *)
LEMMA ProduceLeaves ==
    ASSUME TypeInv, NEW d \in Drives, NEW i, NEW decision, Produce(d, i, decision)
    PROVE  Leaves(d) \/ Hold(d, i, decision)
<1>1. "Stopped" \in Terminal /\ d \in Calls
  BY DEF Terminal, Calls
<1> QED BY <1>1, ReturnLeaves DEF Produce

(* A drive's step while it reads the log.                                  *)
LEMMA ReadMoves ==
    ASSUME TypeInv, NEW d \in Drives,
           \/ CheckTail(d) \/ ForceAbort(d) \/ ReadOutcome(d)
           \/ RejectIntention(d) \/ ApplyStateless(d) \/ LoadDecider(d)
    PROVE  Leaves(d) \/ Stays(d) \/ Jumps(d)
<1>0. DriveFacts(d)
  BY DriveLocals
<1> USE DEF DriveFacts
<1>1. CASE CheckTail(d)
  <2>1. /\ pc[d] = "scan" /\ pc'[d] \in {"scan", "force"} /\ Attention(d) = {}
        /\ ctx'[d].snap = ctx[d].snap /\ ctx'[d].pos = Consumed(d)
    BY <1>0, <1>1 DEF CheckTail, Context
  <2>2. Consumed(d) \in ctx[d].pos .. Consumed(d)
    BY <1>0 DEF Consumed, Larger
  <2> QED BY <2>1, <2>2 DEF Jumps, Playing
<1>2. CASE ForceAbort(d)
  <2>1. /\ pc[d] = "force" /\ pc'[d] = "scan"
        /\ ctx'[d].snap = ctx[d].snap /\ ctx'[d].pos = ctx[d].pos
    BY <1>0, <1>2 DEF ForceAbort, Context
  <2> QED BY <2>1 DEF Stays, Playing
<1>3. CASE ReadOutcome(d)
  <2>1. PICK i : IsDecision(EntryAt(i)) /\ Return(d, EntryAt(i).type, i)
    BY <1>3 DEF ReadOutcome
  <2>2. EntryAt(i).type \in Terminal
    BY <2>1 DEF IsDecision, Terminal, Outcomes
  <2> QED BY <1>0, <2>1, <2>2, ReturnLeaves
<1>4. ASSUME NEW i \in Attention(d), Reaches(d, i), ctx'[d].pos = i,
             ctx'[d].snap = ctx[d].snap, pc'[d] \in {"save", "append"},
             RequiresApplication(EntryAt(i))
      PROVE  Jumps(d)
  <2>1. ctx[d].pos <= i /\ i <= ctx[d].known /\ i \in Nat
    BY AttentionBounds DEF Positions
  <2>2. i \in ctx[d].pos .. Consumed(d)
    BY <1>0, <2>1 DEF Consumed, Larger
  <2>3. i > ctx[d].snap.position
    BY <1>4 DEF Attention, RequiresApplication
  <2> QED BY <1>0, <1>4, <2>2, <2>3 DEF Jumps, Reaches, Playing
<1>5. ASSUME NEW i, NEW decision, Produce(d, i, decision), ~ Leaves(d)
      PROVE  ctx'[d].pos = i /\ ctx'[d].snap = ctx[d].snap /\ pc'[d] = "append"
  <2>1. Hold(d, i, decision)
    BY <1>5, ProduceLeaves
  <2> QED BY <1>0, <2>1 DEF Hold, Context
<1>6. CASE RejectIntention(d)
  <2>1. PICK i \in Attention(d) :
          /\ Reaches(d, i) /\ PolicyConstraintFailure(ctx[d].snap.state, EntryAt(i))
          /\ ctx' = [ctx EXCEPT ![d].pos = i, ![d].retry = Budget(d, i, @),
                                ![d].out = <<Decision(i, FALSE, "constraint")>>]
          /\ pc' = [pc EXCEPT ![d] = "append"]
    BY <1>6 DEF RejectIntention
  <2>2. ctx'[d].pos = i /\ ctx'[d].snap = ctx[d].snap /\ pc'[d] = "append"
    BY <1>0, <2>1 DEF Context
  <2>3. RequiresApplication(EntryAt(i))
    BY <2>1 DEF PolicyConstraintFailure, RequiresApplication, IsDecision
  <2> QED BY <1>4, <2>1, <2>2, <2>3
<1>7. CASE ApplyStateless(d)
  BY <1>4, <1>5, <1>7 DEF ApplyStateless
<1>8. CASE LoadDecider(d)
  <2>0. SUFFICES ASSUME ~ Leaves(d)
                 PROVE  Jumps(d)
    OBVIOUS
  <2>1. PICK i \in Attention(d) :
          /\ Reaches(d, i) /\ ConsultsSlot(ctx[d].snap.state, EntryAt(i))
          /\ \/ /\ ctx' = [ctx EXCEPT ![d].pos = i,
                                      ![d].decider = deciderSlots[DeciderId(d)],
                                      ![d].retry = Budget(d, i, @)]
                /\ pc' = [pc EXCEPT ![d] = "save"]
             \/ Produce(d, i, Redelivered(deciderSlots[DeciderId(d)], i))
    BY <1>8 DEF LoadDecider
  <2>2. ctx'[d].pos = i /\ ctx'[d].snap = ctx[d].snap /\ pc'[d] \in {"save", "append"}
    <3>1. CASE Produce(d, i, Redelivered(deciderSlots[DeciderId(d)], i))
      BY <1>5, <2>0, <3>1
    <3>2. CASE ~ Produce(d, i, Redelivered(deciderSlots[DeciderId(d)], i))
      BY <1>0, <2>1, <3>2 DEF Context
    <3> QED BY <3>1, <3>2
  <2>3. RequiresApplication(EntryAt(i))
    BY <2>1 DEF ConsultsSlot, RequiresApplication, IsDecision
  <2> QED BY <1>4, <2>1, <2>2, <2>3
<1> QED BY <1>1, <1>2, <1>3, <1>6, <1>7, <1>8

(* A drive's step while it writes: decider, outputs, checkpoint.           *)
LEMMA WriteMoves ==
    ASSUME TypeInv, NEW d \in Drives,
           \/ SaveDecider(d) \/ DeciderRejected(d) \/ AppendOutput(d) \/ StopPlayback(d)
           \/ SaveCheckpoint(d) \/ CheckpointRejected(d) \/ Reload(d) \/ Conflict(d)
    PROVE  Leaves(d) \/ Stays(d) \/ Reloads(d) \/ Resumes(d)
<1>0. DriveFacts(d)
  BY DriveLocals
<1> USE DEF DriveFacts
<1>1. "Concurrency" \in Terminal /\ "Stopped" \in Terminal
  BY DEF Terminal
<1>2. CASE SaveDecider(d)
  <2>1. PICK decision : pc[d] = "save" /\ Produce(d, ctx[d].pos, decision)
    BY <1>2 DEF SaveDecider
  <2>2. CASE Hold(d, ctx[d].pos, decision)
    <3>1. ctx'[d].pos = ctx[d].pos /\ ctx'[d].snap = ctx[d].snap /\ pc'[d] = "append"
      BY <1>0, <2>2 DEF Hold, Context
    <3> QED BY <2>1, <3>1 DEF Stays, Playing
  <2> QED BY <2>1, <2>2, ProduceLeaves
<1>3. CASE DeciderRejected(d) \/ DeciderConflict(d)
  <2>1. PICK again, r : pc[d] = "save" /\ RetryDecider(d, again, r)
    BY <1>3 DEF DeciderRejected, DeciderConflict
  <2>2. CASE Return(d, "Concurrency", ctx[d].pos)
    BY <1>0, <1>1, <2>2, ReturnLeaves
  <2>3. CASE ~ Return(d, "Concurrency", ctx[d].pos)
    <3>1. ctx'[d].pos = ctx[d].pos /\ ctx'[d].snap = ctx[d].snap /\ pc'[d] = "scan"
      BY <1>0, <2>1, <2>3 DEF RetryDecider, Context
    <3> QED BY <2>1, <3>1 DEF Stays, Playing
  <2> QED BY <2>2, <2>3
<1>4. CASE AppendOutput(d)
  <2>1. /\ pc[d] = "append" /\ pc'[d] = "append"
        /\ ctx'[d].pos = ctx[d].pos /\ ctx'[d].snap = ctx[d].snap
    BY <1>0, <1>4 DEF AppendOutput, Context
  <2> QED BY <2>1 DEF Stays, Playing
<1>5. CASE StopPlayback(d)
  BY <1>0, <1>1, <1>5, ReturnLeaves DEF StopPlayback
<1>6. CASE SaveCheckpoint(d)
  <2>1. /\ pc'[d] = "scan" /\ ctx'[d].snap = engineSlot'
        /\ ctx'[d].pos = ctx[d].pos + 1 /\ engineSlot'.position = ctx[d].pos
    BY <1>0, <1>6 DEF SaveCheckpoint, Context
  <2> QED BY <2>1 DEF Resumes
<1>7. CASE CheckpointRejected(d) \/ CheckpointConflict(d)
  <2>1. PICK again, r : pc[d] = "append" /\ RetryApply(d, again, r)
    BY <1>7 DEF CheckpointRejected, CheckpointConflict, Saving, Unapplied
  <2>2. CASE Return(d, "Concurrency", ctx[d].pos)
    BY <1>0, <1>1, <2>2, ReturnLeaves
  <2>3. CASE ~ Return(d, "Concurrency", ctx[d].pos)
    <3>1. ctx'[d].pos = ctx[d].pos /\ ctx'[d].snap = ctx[d].snap /\ pc'[d] = "reload"
      BY <1>0, <2>1, <2>3 DEF RetryApply, Context
    <3> QED BY <2>1, <3>1 DEF Stays, Playing
  <2> QED BY <2>2, <2>3
<1>8. CASE Reload(d)
  <2>1. /\ pc[d] = "reload" /\ pc'[d] = "scan"
        /\ ctx'[d].pos = ctx[d].pos /\ ctx'[d].snap = engineSlot
    BY <1>0, <1>8 DEF Reload, Context
  <2> QED BY <2>1 DEF Reloads, Playing
<1> QED BY <1>2, <1>3, <1>4, <1>5, <1>6, <1>7, <1>8 DEF Conflict

(* What a scanning drive passes over without stopping are decisions, or    *)
(* entries its snapshot already covers.                                    *)
LEMMA QuietJump ==
    ASSUME TypeInv, NEW d \in Calls, Quiet(ctx[d].snap.position + 1, ctx[d].pos),
           NEW m \in Nat, m \in ctx[d].pos .. Consumed(d),
           \A j \in Attention(d) : m <= j
    PROVE  Quiet(ctx[d].snap.position + 1, m) /\ m <= Len(log)
<1>0. /\ ctx[d].pos \in Nat /\ ctx[d].known \in Int /\ ctx[d].snap.position \in Int
      /\ ctx[d].known < Len(log) /\ ctx[d].pos <= Len(log) /\ Len(log) \in Nat
  <2>1. ctx[d] \in Context /\ ctx[d].snap \in Snapshot
    BY DEF TypeInv, TypeOK, Context
  <2> QED BY <2>1, MaxLogAssumption
          DEF Context, Snapshot, Cursor, Positions, TypeInv, TypeOK, CallBounds
<1>1. m <= Len(log)
  BY <1>0 DEF Consumed, Larger
<1>2. ASSUME NEW j \in (ctx[d].snap.position + 1) .. (m - 1)
      PROVE  IsDecision(EntryAt(j))
  <2>1. CASE j < ctx[d].pos
    BY <1>0, <2>1 DEF Quiet
  <2>2. CASE j >= ctx[d].pos
    <3>1. j \in ctx[d].pos .. ctx[d].known /\ j > ctx[d].snap.position
      BY <1>0, <2>2 DEF Consumed, Larger
    <3>2. j \notin Attention(d)
      BY <1>0, <3>1
    <3> QED BY <3>1, <3>2 DEF Attention, RequiresApplication
  <2> QED BY <1>0, <2>1, <2>2
<1> QED BY <1>1, <1>2 DEF Quiet

(* The call that moves stays valid.                                        *)
LEMMA MoverValid ==
    ASSUME ReplayInv, ReplayChain', CheckpointIsReplay', Extends, TypeInv',
           engineSlot.position <= engineSlot'.position, NEW c \in Calls,
           Leaves(c) \/ Stays(c) \/ Jumps(c) \/ Reloads(c) \/ Resumes(c)
    PROVE  CallValid(c)'
<1>1. SnapshotValid(ctx[c].snap)'
  <2>1. ctx'[c].snap \in {ctx[c].snap, engineSlot, engineSlot', EmptySnapshot}
    BY DEF Leaves, Stays, Jumps, Reloads, Resumes
  <2> QED BY <2>1, SnapshotStep
<1>2. /\ TypeInv /\ CallValid(c) /\ ctx[c].snap \in Snapshot /\ ctx'[c].snap \in Snapshot
      /\ engineSlot \in Snapshot /\ ctx[c].pos \in Cursor /\ ctx'[c].pos \in Cursor
      /\ ctx[c].pos <= Len(log) /\ ctx[c].snap.position < Len(log) /\ Len(log) \in Nat
      /\ engineSlot.position < Len(log)
  BY DEF ReplayInv, TypeInv, TypeOK, CallBounds, SlotBounds, Context
<1>3. /\ ctx[c].snap.position \in Int /\ ctx[c].snap.position >= -1
      /\ engineSlot.position \in Int /\ engineSlot.position >= -1
      /\ ctx[c].pos \in Nat
  BY <1>2, MaxLogAssumption DEF Snapshot, Cursor, Positions
<1>4. PICK a \in Nat, b \in Nat : a = ctx'[c].snap.position + 1 /\ b = ctx'[c].pos
  <2>1. ctx'[c].snap.position \in Positions \cup {-1}
    BY <1>2 DEF Snapshot
  <2>2. ctx'[c].snap.position + 1 \in Nat /\ ctx'[c].pos \in Nat
    BY <1>2, <2>1, MaxLogAssumption DEF Cursor, Positions
  <2> QED BY <2>2
<1>5. SUFFICES ASSUME ~ Leaves(c)
               PROVE  /\ pc'[c] # "createSave"
                      /\ Quiet(a, b)'
                      /\ pc'[c] \in {"save", "append"} => ctx'[c].snap.position < b
  <2>1. CASE Leaves(c)
    BY <1>1, <2>1 DEF Leaves, CallValid, Playing
  <2>2. CASE ~ Leaves(c)
    BY <1>1, <1>4, <2>2 DEF CallValid, Quiet
  <2> QED BY <2>1, <2>2
<1>6. CASE Stays(c)
  <2>1. a = ctx[c].snap.position + 1 /\ b = ctx[c].pos
    BY <1>4, <1>6 DEF Stays
  <2>2. Quiet(a, b)
    BY <1>2, <1>6, <2>1 DEF CallValid, Stays
  <2>3. Quiet(a, b)'
    BY <1>2, <2>1, <2>2, QuietKept
  <2> QED BY <1>2, <1>6, <2>1, <2>3 DEF CallValid, Stays, Playing
<1>7. CASE Jumps(c)
  <2>1. a = ctx[c].snap.position + 1 /\ b \in ctx[c].pos .. Consumed(c)
    BY <1>4, <1>7 DEF Jumps
  <2>2. Quiet(ctx[c].snap.position + 1, ctx[c].pos)
    BY <1>2, <1>7 DEF CallValid, Jumps, Playing
  <2>3. \A j \in Attention(c) : b <= j
    BY <1>4, <1>7 DEF Jumps
  <2>4. Quiet(a, b) /\ b <= Len(log)
    BY <1>2, <2>1, <2>2, <2>3, QuietJump
  <2>5. Quiet(a, b)'
    BY <1>2, <2>4, QuietKept
  <2> QED BY <1>4, <1>7, <2>5 DEF Jumps, Playing
<1>8. CASE Reloads(c)
  <2>1. a = engineSlot.position + 1 /\ b = ctx[c].pos /\ pc'[c] = "scan"
    BY <1>4, <1>8 DEF Reloads
  <2>2. Quiet(ctx[c].snap.position + 1, b) /\ ctx[c].snap.position <= engineSlot.position
    BY <1>2, <1>8, <2>1 DEF CallValid, SnapshotValid, Reloads
  <2>3. Quiet(a, b)
    BY <1>3, <2>1, <2>2 DEF Quiet
  <2>4. Quiet(a, b)'
    BY <1>2, <2>1, <2>3, QuietKept
  <2> QED BY <2>1, <2>4
<1>9. CASE Resumes(c)
  <2>1. a = b /\ pc'[c] = "scan"
    BY <1>4, <1>9 DEF Resumes
  <2> QED BY <2>1 DEF Quiet
<1> QED BY <1>5, <1>6, <1>7, <1>8, <1>9

(* The checkpoint a drive writes is the replay up to its position.         *)
LEMMA SaveValid ==
    ASSUME ReplayInv, NEW d \in Drives, SaveCheckpoint(d)
    PROVE  CheckpointIsReplay' /\ engineSlot.position <= engineSlot'.position
<1>0. DriveFacts(d) /\ TypeInv /\ CallValid(d)
  BY DriveLocals DEF ReplayInv, Calls
<1>1. /\ pc[d] = "append" /\ log' = log /\ replay' = replay
      /\ engineSlot' = [position |-> ctx[d].pos,
                        state |-> ReplayStep(ctx[d].snap.state, EntryAt(ctx[d].pos), ctx[d].pos)]
      /\ ctx[d].snap.position = engineSlot.position
  BY DEF SaveCheckpoint, Saving, Unapplied, CasAccepts
<1>2. PICK a \in 0 .. Len(log), p \in 0 .. (Len(log) - 1) :
        a = ctx[d].snap.position + 1 /\ p = ctx[d].pos /\ a <= p
  BY <1>0, <1>1 DEF DriveFacts, CallValid, TypeInv, CallBounds
<1>3. Quiet(a, p) /\ ctx[d].snap.state = StateAt(a)
  BY <1>0, <1>1, <1>2 DEF CallValid, SnapshotValid, Playing
<1>4. StateAt(a) = StateAt(p)
  BY <1>2, <1>3 DEF ReplayInv, ReplayQuiet
<1>5. ReplayStep(StateAt(p), EntryAt(p), p) = StateAt(p + 1)
  BY <1>2 DEF ReplayInv, ReplayChain, LogPositions
<1>6. engineSlot'.position = p /\ engineSlot'.state = StateAt(p + 1)
  BY <1>1, <1>2, <1>3, <1>4, <1>5
<1>7. (engineSlot.state = StateAt(engineSlot.position + 1))'
  BY <1>1, <1>6 DEF StateAt
<1>8. engineSlot'.position < Len(log') /\ engineSlot.position <= engineSlot'.position
  BY <1>0, <1>1, <1>2, <1>6 DEF DriveFacts
<1> QED BY <1>7, <1>8 DEF CheckpointIsReplay

(* The empty state is a state to which every initial batch applies.        *)
LEMMA InitialBatchApplies ==
    ASSUME NEW v \in Versions
    PROVE  /\ ReplayStep(InitState, InitialBatch(v), 0)
                = ApplyPolicyBatch(InitState, InitialBatch(v), 0)
           /\ InitialBatch(v).type = "PolicyBatch"
           /\ ShouldApplyPolicyBatch(InitState, InitialBatch(v))
           /\ ~ Malformed(InitState, InitialBatch(v))
<1>1. /\ InitialBatch(v).type = "PolicyBatch" /\ InitialBatch(v).expected = NoVersion
      /\ InitState.version = NoVersion
  BY DEF InitialBatch, Plan, InitState
<1>2. ASSUME NEW k \in VoterIds
      PROVE  InitialBatch(v).ops[k] # Remove
  <2>1. InitState.voters[k] = Absent /\ PolicyOf[v].voters[k] \in Configs \cup {Absent}
    BY PolicyOfAssumption DEF InitState, PolicyState, VoterMap
  <2>2. InitialBatch(v).ops[k] =
          IF PolicyOf[v].voters[k] = InitState.voters[k] THEN Keep
          ELSE IF PolicyOf[v].voters[k] = Absent THEN Remove
          ELSE PolicyOf[v].voters[k]
    BY DEF InitialBatch, Plan
  <2> QED BY <2>1, <2>2, ConfigsAssumption
<1>3. ~ Broken(InitialBatch(v))
  BY PlanType, FreshTypes DEF InitialBatch
<1> QED BY <1>1, <1>2, <1>3 DEF ReplayStep, ShouldApplyPolicyBatch, Malformed

(* So is the one create_bus writes.                                        *)
LEMMA CreateValid ==
    ASSUME ReplayInv, NEW c \in Calls, CreateSave(c)
    PROVE  CheckpointIsReplay' /\ engineSlot.position <= engineSlot'.position
<1>0. /\ TypeInv /\ CallValid(c) /\ pc[c] = "createSave" /\ log' = log /\ replay' = replay
      /\ Len(log) \in Nat /\ engineSlot \in Snapshot
  BY DEF ReplayInv, CreateSave, TypeInv, TypeOK
<1>1. engineSlot.position \in Int
  BY <1>0, MaxLogAssumption DEF Snapshot, Positions
<1>2. CASE ~ CasAccepts(engineSlot, NoPosition, 0)
  <2>1. engineSlot' = engineSlot
    BY <1>2 DEF CreateSave
  <2> QED BY <1>0, <1>1, <2>1 DEF ReplayInv, CheckpointIsReplay, StateAt
<1>3. CASE CasAccepts(engineSlot, NoPosition, 0)
  <2>1. PICK v \in Versions : v = ctx[c].version
    BY <1>0 DEF TypeInv, CallBounds
  <2>2. /\ engineSlot'.position = 0
        /\ engineSlot'.state = ApplyPolicyBatch(InitState, InitialBatch(v), 0)
    BY <1>3, <2>1 DEF CreateSave
  <2>3. 0 \in LogPositions /\ Len(log) > 0
    BY <1>0 DEF TypeInv, CallBounds, LogPositions
  <2>4. StateAt(1) = ReplayStep(InitState, InitialBatch(v), 0)
    BY <1>0, <2>1, <2>3 DEF ReplayInv, ReplayChain, CallValid
  <2>5. engineSlot'.state = StateAt(1) /\ engineSlot.position = -1
    BY <1>3, <2>2, <2>4, InitialBatchApplies DEF CasAccepts
  <2>6. (engineSlot'.position + 1) + 1 = 2 /\ engineSlot'.state = replay'[2]
    BY <1>0, <2>2, <2>5 DEF StateAt
  <2>7. (engineSlot.state = StateAt(engineSlot.position + 1))'
    BY <2>6 DEF StateAt
  <2> QED BY <1>0, <2>2, <2>3, <2>5, <2>7 DEF CheckpointIsReplay
<1> QED BY <1>2, <1>3

(* Only two actions write the checkpoint.                                  *)
LEMMA SlotWriters ==
    ASSUME Next
    PROVE  \/ engineSlot' = engineSlot
           \/ \E c \in Calls : CreateSave(c)
           \/ \E d \in Drives : SaveCheckpoint(d)
<1>1. ASSUME NEW c \in Calls, Create(c) \/ CreateSaveFails(c) \/ Fail(c)
      PROVE  engineSlot' = engineSlot \/ CreateSave(c)
  BY <1>1 DEF Create, CreateReadPolicy, CreateAppend, CreateSaveFails, Fail
<1>2. ASSUME NEW d \in Drives, Propose(d) \/ Conflict(d)
      PROVE  engineSlot' = engineSlot \/ SaveCheckpoint(d)
  BY <1>2 DEF Propose, Conflict, LoadSnapshot, ReadPolicy, AppendPolicy, AppendIntention,
       CheckTail, ForceAbort, ReadOutcome, RejectIntention, ApplyStateless, LoadDecider,
       SaveDecider, DeciderRejected, DeciderConflict, RetryDecider, AppendOutput,
       StopPlayback, CheckpointRejected, CheckpointConflict, RetryApply, Reload
<1> QED BY <1>1, <1>2 DEF Next, Publish, ExternalAppend, Calls

(* The checkpoint after any step is the replay up to its position.         *)
LEMMA SlotStep ==
    ASSUME ReplayInv, Next, Extends
    PROVE  CheckpointIsReplay' /\ engineSlot.position <= engineSlot'.position
<1>0. Len(log) \in Nat /\ engineSlot \in Snapshot
  BY DEF ReplayInv, TypeInv, TypeOK
<1>1. CASE engineSlot' = engineSlot
  <2>1. PICK q \in 0 .. Len(log) : q = engineSlot.position + 1
    BY <1>0, MaxLogAssumption DEF ReplayInv, CheckpointIsReplay, Snapshot, Positions
  <2>2. engineSlot.state = StateAt(q) /\ StateAt(q)' = StateAt(q)
    BY <2>1 DEF ReplayInv, CheckpointIsReplay, Extends
  <2>3. (engineSlot.state = StateAt(engineSlot.position + 1))'
    BY <1>1, <2>1, <2>2 DEF StateAt
  <2>4. engineSlot.position \in Int /\ engineSlot.position < Len(log)
    BY <1>0, MaxLogAssumption DEF ReplayInv, CheckpointIsReplay, Snapshot, Positions
  <2> QED BY <1>0, <1>1, <2>3, <2>4 DEF CheckpointIsReplay, Extends
<1> QED BY <1>1, SlotWriters, SaveValid, CreateValid

(* A step of create_bus leaves that call valid.                            *)
LEMMA CreatorValid ==
    ASSUME ReplayInv, ReplayChain', CheckpointIsReplay', Extends, TypeInv',
           engineSlot.position <= engineSlot'.position, NEW c \in Calls,
           Create(c) \/ CreateSaveFails(c) \/ Fail(c)
    PROVE  CallValid(c)'
<1>0. /\ TypeInv /\ pc \in [Calls -> Steps \cup Terminal] /\ ctx \in [Calls -> Context]
      /\ ctx[c] \in Context
  BY DEF ReplayInv, TypeInv, TypeOK
<1>1. {"Created", "Failed", "Stopped", "PolicyError"} \subseteq Terminal
  BY DEF Terminal
<1>2. CASE CreateReadPolicy(c)
  <2>1. CASE ~ Return(c, "PolicyError", ctx[c].pos)
    <3>1. pc'[c] = "createAppend" /\ ctx'[c].snap = ctx[c].snap
      BY <1>0, <1>2, <2>1 DEF CreateReadPolicy, ProviderRefuses, Context
    <3> QED BY <3>1, MoverValid DEF Leaves, Playing
  <2>2. CASE Return(c, "PolicyError", ctx[c].pos)
    BY <1>0, <1>1, <2>2, ReturnLeaves, MoverValid
  <2> QED BY <2>1, <2>2
<1>3. ASSUME NEW result \in Terminal, NEW pos, Return(c, result, pos)
      PROVE  CallValid(c)'
  <2>1. Leaves(c)
    BY <1>0, <1>3, ReturnLeaves
  <2> QED BY <2>1, MoverValid
<1>4. CASE /\ CreateAppend(c)
           /\ ~ Return(c, "Created", ctx[c].pos) /\ ~ Return(c, "Stopped", Len(log))
  <2>1. /\ AppendEntry(InitialBatch(ctx[c].version)) /\ Len(log) = 0
        /\ pc' = [pc EXCEPT ![c] = "createSave"] /\ ctx' = ctx
    BY <1>4 DEF CreateAppend, FirstOnBus
  <2>2. pc'[c] = "createSave" /\ ctx'[c].snap = ctx[c].snap
    BY <1>0, <2>1
  <2>3. SnapshotValid(ctx[c].snap)'
    BY <2>2, SnapshotStep
  <2>4. log' = Append(log, InitialBatch(ctx[c].version)) /\ log \in Seq(Entry)
    BY <2>1 DEF AppendEntry, ReplayInv, TypeInv, TypeOK
  <2>5. log'[1] = InitialBatch(ctx[c].version)
    <3> DEFINE e == InitialBatch(ctx[c].version)
    <3> HIDE DEF e
    <3>1. log' = Append(log, e)
      BY <2>4 DEF e
    <3>2. log'[1] = e
      BY <2>1, <2>4, <3>1
    <3> QED BY <3>2 DEF e
  <2>6. (EntryAt(0) = InitialBatch(ctx[c].version))'
    <3>1. log'[0 + 1] = InitialBatch(ctx[c].version)
      BY <2>5
    <3> QED BY <2>1, <3>1 DEF EntryAt, InitialBatch
  <2> QED BY <2>2, <2>3, <2>6 DEF CallValid, Playing
<1> QED BY <1>1, <1>2, <1>3, <1>4 DEF Create, CreateAppend, CreateSave, CreateSaveFails, Fail

(* The inductive invariant holds initially.                                *)
LEMMA ReplayInit == Init => ReplayInv
<1> SUFFICES ASSUME Init PROVE ReplayInv
  OBVIOUS
<1>1. /\ log = <<>> /\ replay = <<InitState>> /\ engineSlot = EmptySnapshot
      /\ \A c \in Calls : ctx[c] = FreshContext /\ pc[c] \in {"idle", "create"}
      /\ Len(log) = 0
  BY DEF Init
<1>2. TypeInv
  BY TypeInit
<1>3. StateAt(0) = InitState
  BY <1>1 DEF StateAt
<1>4. ReplayChain
  BY <1>1, <1>3 DEF ReplayChain, LogPositions
<1>5. ReplayQuiet
  BY <1>1 DEF ReplayQuiet
<1>6. SnapshotValid(EmptySnapshot) /\ CheckpointIsReplay
  <2>1. EmptySnapshot.position = -1 /\ EmptySnapshot.state = InitState
    BY DEF EmptySnapshot
  <2> QED BY <1>1, <1>3, <2>1 DEF SnapshotValid, CheckpointIsReplay
<1>7. ASSUME NEW c \in Calls
      PROVE  CallValid(c)
  BY <1>1, <1>6, <1>7 DEF CallValid, FreshContext, Playing
<1> QED BY <1>2, <1>4, <1>5, <1>6, <1>7 DEF ReplayInv

(* Every step keeps it.                                                    *)
LEMMA ReplayInvStep ==
    ASSUME ReplayInv, [Next]_vars
    PROVE  ReplayInv' /\ (engineSlot.position <= engineSlot'.position)
<1>1. CASE UNCHANGED vars
  <2>1. engineSlot.position \in Int
    BY MaxLogAssumption DEF ReplayInv, TypeInv, TypeOK, Snapshot, Positions
  <2>2. TypeInv'
    BY <1>1, TypeStep DEF ReplayInv
  <2> QED BY <1>1, <2>1, <2>2 DEF vars, ReplayInv, ReplayChain, ReplayQuiet, Quiet, EntryAt,
             StateAt, LogPositions, CheckpointIsReplay, CallValid, SnapshotValid
<1>2. CASE Next
  <2>1. TypeInv /\ TypeInv'
    BY <1>2, TypeStep DEF ReplayInv
  <2>2. Extends /\ ReplayChain' /\ ReplayQuiet'
    BY <1>2, <2>1, LogSteps, HistoryStep DEF ReplayInv
  <2>3. CheckpointIsReplay' /\ engineSlot.position <= engineSlot'.position
    BY <1>2, <2>2, SlotStep
  <2>4. ASSUME NEW c \in Calls, pc'[c] = pc[c], ctx'[c] = ctx[c]
        PROVE  CallValid(c)'
    BY <2>1, <2>2, <2>3, <2>4, OtherValid
  <2>5. CASE Publish \/ \E e \in ExternalEntries : ExternalAppend(e)
    BY <2>1, <2>2, <2>3, <2>4, <2>5 DEF Publish, ExternalAppend, ReplayInv
  <2>6. ASSUME NEW d \in Calls, Create(d) \/ CreateSaveFails(d) \/ Fail(d)
        PROVE  \A c \in Calls : CallValid(c)'
    BY <2>1, <2>2, <2>3, <2>4, <2>6, CreatorValid, OthersKeep
  <2>7. ASSUME NEW d \in Drives, Propose(d) \/ Conflict(d)
        PROVE  \A c \in Calls : CallValid(c)'
    <3>1. d \in Calls
      BY DEF Calls
    <3>2. Leaves(d) \/ Stays(d) \/ Jumps(d) \/ Reloads(d) \/ Resumes(d)
      BY <2>1, <2>7, StartMoves, ReadMoves, WriteMoves DEF Propose
    <3>3. CallValid(d)'
      BY <2>1, <2>2, <2>3, <3>1, <3>2, MoverValid
    <3> QED BY <2>1, <2>4, <2>7, <3>1, <3>3, OthersKeep
  <2>8. \A c \in Calls : CallValid(c)'
    BY <1>2, <2>4, <2>5, <2>6, <2>7 DEF Next, Publish, ExternalAppend, Calls
  <2> QED BY <2>1, <2>2, <2>3, <2>8 DEF ReplayInv
<1> QED BY <1>1, <1>2

(* The stored checkpoint is, in every run, the replay of the log up to its *)
(* position: competing, stale, failed and retried writers of the engine    *)
(* state never store anything the log does not determine.                  *)
THEOREM CheckpointCorrect == Spec => []CheckpointIsReplay
<1>1. ReplayInv /\ [Next]_vars => ReplayInv'
  BY ReplayInvStep
<1>2. ReplayInv => CheckpointIsReplay
  BY DEF ReplayInv
<1> QED BY <1>1, <1>2, ReplayInit, PTL DEF Spec

(* Replaying an entry never moves the applied policy to an older version.  *)
LEMMA VersionGrows ==
    ASSUME NEW st \in EngineState, NEW e \in Entry, NEW p
    PROVE  ReplayStep(st, e, p).version >= st.version
<1>1. st.version \in Int /\ st.version >= -1
  BY VersionsAssumption DEF EngineState, Versions
<1>2. CASE /\ e.type = "PolicyBatch" /\ ShouldApplyPolicyBatch(st, e) /\ ~ Malformed(st, e)
  <2>1. e \in BatchEntry
    BY <1>2 DEF Entry, IntentionEntry, VoteEntry, DecisionEntry, LegacyEntry
  <2>2. e.new \in Int /\ e.new >= 0
    BY <2>1, VersionsAssumption DEF BatchEntry, Versions
  <2>3. ReplayStep(st, e, p).version = e.new
    BY <1>2 DEF ReplayStep, ApplyPolicyBatch
  <2> QED BY <1>1, <1>2, <2>2, <2>3 DEF ShouldApplyPolicyBatch
<1>3. CASE ~ (e.type = "PolicyBatch" /\ ShouldApplyPolicyBatch(st, e) /\ ~ Malformed(st, e))
  <2>1. ReplayStep(st, e, p) = st
    BY <1>3 DEF ReplayStep
  <2> QED BY <1>1, <2>1
<1> QED BY <1>2, <1>3

(* Every write of the engine's checkpoint, by a drive or by create_bus,    *)
(* moves it forward in the log and never back to an older policy version.  *)
THEOREM CheckpointMonotone == Spec => CheckpointAdvances
<1> DEFINE Forward == /\ engineSlot'.position > engineSlot.position
                      /\ engineSlot'.state.version >= engineSlot.state.version
<1>1. ASSUME ReplayInv, NEW d \in Drives, SaveCheckpoint(d)
      PROVE  Forward
  <2>1. DriveFacts(d) /\ TypeInv /\ CallValid(d) /\ engineSlot \in Snapshot
    BY <1>1, DriveLocals DEF ReplayInv, Calls, TypeInv, TypeOK
  <2>2. /\ pc[d] = "append"
        /\ engineSlot' = [position |-> ctx[d].pos,
                          state |-> ReplayStep(ctx[d].snap.state, EntryAt(ctx[d].pos), ctx[d].pos)]
        /\ ctx[d].snap.position = engineSlot.position
    BY <1>1 DEF SaveCheckpoint, Saving, Unapplied, CasAccepts
  <2>3. ctx[d].snap.state = engineSlot.state
    BY <1>1, <2>1, <2>2 DEF ReplayInv, CheckpointIsReplay, CallValid, SnapshotValid
  <2>4. EntryAt(ctx[d].pos) \in Entry
    <3>1. ctx[d].pos < Len(log) /\ ctx[d].pos \in Nat /\ log \in Seq(Entry)
      BY <2>1, <2>2 DEF DriveFacts, TypeInv, CallBounds, TypeOK
    <3> QED BY <3>1 DEF EntryAt
  <2>5. ReplayStep(ctx[d].snap.state, EntryAt(ctx[d].pos), ctx[d].pos).version
          >= ctx[d].snap.state.version
    BY <2>1, <2>4, VersionGrows DEF DriveFacts
  <2>6. ctx[d].snap.position < ctx[d].pos
    BY <2>1, <2>2 DEF CallValid
  <2> QED BY <2>1, <2>2, <2>3, <2>5, <2>6 DEF DriveFacts
<1>2. ASSUME ReplayInv, NEW c \in Calls, CreateSave(c), engineSlot' # engineSlot
      PROVE  Forward
  <2>1. /\ pc[c] = "createSave" /\ CasAccepts(engineSlot, NoPosition, 0)
        /\ engineSlot'.position = 0
        /\ engineSlot'.state.version = ctx[c].version
    BY <1>2 DEF CreateSave, ApplyPolicyBatch, InitialBatch, Plan
  <2>2. engineSlot.position = -1 /\ ctx[c].version \in Versions
    BY <1>2, <2>1 DEF CasAccepts, ReplayInv, TypeInv, CallBounds
  <2>3. engineSlot.state = InitState
    BY <1>2, <2>2 DEF ReplayInv, ReplayChain, CheckpointIsReplay
  <2>4. engineSlot.state.version = -1
    BY <2>3 DEF InitState
  <2> QED BY <2>1, <2>2, <2>4, VersionsAssumption DEF Versions
<1>3. ReplayInv /\ [Next]_vars => [Forward]_engineSlot
  <2> SUFFICES ASSUME ReplayInv, [Next]_vars, engineSlot' # engineSlot
               PROVE  Forward
    OBVIOUS
  <2>1. Next
    BY DEF vars
  <2> QED BY <1>1, <1>2, <2>1, SlotWriters
<1>4. ReplayInv /\ [Next]_vars => ReplayInv'
  BY ReplayInvStep
<1> QED BY <1>3, <1>4, ReplayInit, PTL DEF Spec, CheckpointAdvances

-----------------------------------------------------------------------------
(* What the engine decides: which policy is in force, where playback       *)
(* stops, and that the decisions in the log are, soundly and completely,   *)
(* the verdicts of the log.                                                *)

(* The policy in force.                                                    *)
(*                                                                         *)
(* A batch is a difference planned from a snapshot.  It is applied only to *)
(* a state with the version it was planned from, and a version stands for  *)
(* one policy, so that the difference fits.                                *)

(* The state is the initial one, or the provider's policy for its version. *)
Faithful(st) ==
    IF st.version = NoVersion
      THEN st = InitState
      ELSE /\ st.decider.policy = PolicyOf[st.version].decider
           /\ st.voters = PolicyOf[st.version].voters

(* The batch takes a faithful state to the policy of its new version.      *)
Planned(b) ==
    \E st \in EngineState :
        /\ Faithful(st)
        /\ \E current \in {Absent, st.decider.policy} : b = Plan(st, current, b.new)

BatchesPlanned ==
    \A p \in LogPositions :
        EntryAt(p).type = "PolicyBatch" => Planned(EntryAt(p)) \/ Broken(EntryAt(p))

StatesFaithful == \A p \in 0 .. Len(log) : Faithful(StateAt(p))

(* A call that stopped has a cause in the log.                             *)
StoppedForCause(c) ==
    pc[c] = "Stopped" =>
        /\ ctx[c].pos \in LogPositions
        /\ StopsAllNodes(ctx[c].pos) \/ LacksVoterAt(c, ctx[c].pos)

(* A call about to write a checkpoint that installs voters has built those *)
(* of the state before, and its node supports those the batch adds.        *)
BuildsFirst(c) ==
    /\ pc[c] = "append" /\ EntryAt(ctx[c].pos).type = "PolicyBatch" =>
         Builds(Supported[c], ctx[c].snap.state)
    /\ pc[c] = "createSave" =>
         ~ RefusedBy(Supported[c], InitState, InitialBatch(ctx[c].version))

SomeBuilds(st) == \E c \in Calls : Builds(Supported[c], st)

PolicyInv ==
    /\ ReplayInv
    /\ BatchesPlanned
    /\ StatesFaithful
    /\ \A p \in LogPositions : StopsAllNodes(p) => engineSlot.position < p
    /\ engineSlot.position # NoPosition => SomeBuilds(engineSlot.state)
    /\ \A c \in Calls : StoppedForCause(c) /\ BuildsFirst(c)

(* A planned batch that applies to a faithful state removes only voters    *)
(* the state has, and leads to a faithful state.                           *)
LEMMA PlannedApplies ==
    ASSUME NEW st \in EngineState, Faithful(st), NEW b \in BatchEntry, Planned(b),
           ShouldApplyPolicyBatch(st, b), NEW p
    PROVE  ~ Malformed(st, b) /\ Faithful(ApplyPolicyBatch(st, b, p))
<1>1. PICK base, current :
        /\ base \in EngineState /\ Faithful(base)
        /\ current \in {Absent, base.decider.policy}
        /\ b = Plan(base, current, b.new)
  BY DEF Planned
<1>2. base.version = st.version
  BY <1>1 DEF Plan, ShouldApplyPolicyBatch
<1>3. base.voters = st.voters /\ base.decider.policy = st.decider.policy
  BY <1>1, <1>2 DEF Faithful
<1>4. PICK v \in Versions : v = b.new
  BY DEF BatchEntry
<1>5. /\ PolicyOf[v] \in PolicyState /\ PolicyOf[v].decider \in DeciderPolicies
      /\ PolicyOf[v].voters \in VoterMap /\ st.voters \in VoterMap
  BY PolicyOfAssumption DEF PolicyState, EngineState
<1>6. /\ b.ops = [k \in VoterIds |->
                     IF PolicyOf[v].voters[k] = st.voters[k] THEN Keep
                     ELSE IF PolicyOf[v].voters[k] = Absent THEN Remove
                     ELSE PolicyOf[v].voters[k]]
      /\ b.decider = IF current = PolicyOf[v].decider THEN Keep ELSE PolicyOf[v].decider
  BY <1>1, <1>3, <1>4 DEF Plan
<1>7. ASSUME NEW k \in VoterIds
      PROVE  /\ b.ops[k] = Remove => st.voters[k] # Absent
             /\ ApplyPolicyBatch(st, b, p).voters[k] = PolicyOf[v].voters[k]
  <2>1. PolicyOf[v].voters[k] \in Configs \cup {Absent} /\ st.voters[k] \in Configs \cup {Absent}
    BY <1>5 DEF VoterMap
  <2> QED BY <1>6, <2>1, ConfigsAssumption DEF ApplyPolicyBatch
<1>8. ApplyPolicyBatch(st, b, p).voters = PolicyOf[v].voters
  <2>1. ApplyPolicyBatch(st, b, p).voters =
          [k \in VoterIds |-> ApplyPolicyBatch(st, b, p).voters[k]]
    BY DEF ApplyPolicyBatch
  <2>2. PolicyOf[v].voters = [k \in VoterIds |-> PolicyOf[v].voters[k]]
    BY <1>5 DEF VoterMap
  <2> QED BY <1>7, <2>1, <2>2
<1>9. ApplyPolicyBatch(st, b, p).decider.policy = PolicyOf[v].decider
  BY <1>1, <1>3, <1>5, <1>6, ConfigsAssumption DEF ApplyPolicyBatch
<1>10. ApplyPolicyBatch(st, b, p).version = v /\ v # -1
  BY <1>4, VersionsAssumption DEF ApplyPolicyBatch, Versions
<1>11. ~ Malformed(st, b)
  <2>1. ~ Broken(b)
    BY <1>1, <1>4, PlanType
  <2> QED BY <1>7, <2>1 DEF Malformed
<1> QED BY <1>8, <1>9, <1>10, <1>11 DEF Faithful

(* What the calls append: decisions come from a drive that forces an abort *)
(* or appends its outputs, batches are planned or broken.                  *)
Appended(e) ==
    \/ e.type \in {"Intention", "Vote", "Legacy"}
    \/ e.type = "PolicyBatch" /\ (Planned(e) \/ Broken(e))
    \/ \E d \in Drives :
         \/ pc[d] = "force" /\ e = Decision(ctx[d].prop, FALSE, "drained")
         \/ pc[d] = "append" /\ ctx[d].out # <<>> /\ e = Head(ctx[d].out)

(* Every step leaves the log alone or appends such an entry.               *)
LEMMA StepAppends ==
    ASSUME ReplayInv, StatesFaithful, Next
    PROVE  \/ UNCHANGED <<log, replay>>
           \/ \E e \in Entry : AppendEntry(e) /\ Appended(e)
<1> DEFINE Goal == \/ UNCHANGED <<log, replay>>
                   \/ \E e \in Entry : AppendEntry(e) /\ Appended(e)
<1>0. TypeInv
  BY DEF ReplayInv
<1>1. ASSUME NEW st \in EngineState, Faithful(st), NEW v \in Versions,
             NEW current \in {Absent, st.decider.policy}, AppendEntry(Plan(st, current, v))
      PROVE  Goal
  <2>1. Plan(st, current, v) \in BatchEntry
    BY PlanType
  <2>2. PICK b \in BatchEntry : b = Plan(st, current, v)
    BY <2>1
  <2>3. b.new = v /\ b.type = "PolicyBatch"
    BY <2>2 DEF Plan
  <2>4. Planned(b)
    BY <1>1, <2>2, <2>3 DEF Planned
  <2> QED BY <1>1, <2>2, <2>3, <2>4 DEF Appended, Entry
<1>2. ASSUME NEW e \in IntentionEntry \cup VoteEntry \cup LegacyEntry, AppendEntry(e)
      PROVE  Goal
  BY <1>2 DEF Appended, Entry, IntentionEntry, VoteEntry, LegacyEntry
<1>3. ASSUME NEW e \in ExternalEntries, ExternalAppend(e)
      PROVE  Goal
  <2>1. AppendEntry(e)
    BY <1>3 DEF ExternalAppend
  <2>2. CASE e \in BatchEntry
    <3>1. e.type = "PolicyBatch" /\ Broken(e)
      BY <2>2, ExternalAssumption DEF BatchEntry
    <3> QED BY <2>1, <2>2, <3>1 DEF Appended, Entry
  <2>3. CASE e \notin BatchEntry
    BY <1>2, <2>1, <2>3, ExternalAssumption
  <2> QED BY <2>2, <2>3
<1>4. ASSUME NEW c \in Calls, Create(c) \/ CreateSaveFails(c) \/ Fail(c)
      PROVE  Goal
  <2>1. CASE CreateAppend(c)
    <3>1. ctx[c].version \in Versions /\ AppendEntry(Plan(InitState, Absent, ctx[c].version))
      BY <1>0, <2>1 DEF CreateAppend, InitialBatch, TypeInv, CallBounds
    <3>2. Faithful(InitState)
      BY DEF Faithful, InitState
    <3> QED BY <1>1, <3>1, <3>2, FreshTypes
  <2> QED BY <1>4, <2>1 DEF Create, CreateReadPolicy, CreateSave, CreateSaveFails, Fail
<1>5. ASSUME NEW d \in Drives, Propose(d) \/ Conflict(d)
      PROVE  Goal
  <2>0. DriveFacts(d) /\ CallValid(d)
    BY <1>0, DriveLocals DEF ReplayInv, Calls
  <2>1. CASE AppendPolicy(d)
    <3>1. PICK st \in EngineState : st = ctx[d].snap.state
      BY <2>0 DEF DriveFacts
    <3>2. Faithful(st)
      <4>1. PICK a \in 0 .. Len(log) : a = ctx[d].snap.position + 1
        BY <2>0 DEF DriveFacts
      <4> QED BY <2>0, <3>1, <4>1 DEF StatesFaithful, CallValid, SnapshotValid
    <3>3. ctx[d].version \in Versions /\ AppendEntry(Plan(st, st.decider.policy, ctx[d].version))
      BY <1>0, <2>0, <2>1, <3>1 DEF AppendPolicy, TypeInv, CallBounds, DriveFacts
    <3> QED BY <1>1, <3>2, <3>3
  <2>2. CASE AppendIntention(d)
    <3>1. PICK kind \in Kinds : AppendEntry(Intention(ctx[d].version, kind))
      BY <2>2 DEF AppendIntention
    <3>2. Intention(ctx[d].version, kind) \in IntentionEntry
      BY <2>0, CallsAssumption DEF Intention, IntentionEntry, DriveFacts, Context
    <3> QED BY <1>2, <3>1, <3>2
  <2>3. CASE ForceAbort(d)
    <3>1. /\ pc[d] = "force" /\ ctx[d].prop \in Positions
          /\ AppendEntry(Decision(ctx[d].prop, FALSE, "drained"))
      BY <2>0, <2>3 DEF ForceAbort, DriveFacts, Playing
    <3>2. Decision(ctx[d].prop, FALSE, "drained") \in DecisionEntry
      BY <3>1 DEF Decision, DecisionEntry
    <3> QED BY <3>1, <3>2 DEF Appended, Entry
  <2>4. CASE AppendOutput(d)
    <3>1. /\ pc[d] = "append" /\ ctx[d].out # <<>>
          /\ AppendEntry(Head(ctx[d].out))
      BY <2>4 DEF AppendOutput
    <3>2. Head(ctx[d].out) \in VoteEntry \cup DecisionEntry
      BY <2>0, <3>1 DEF DriveFacts, Context
    <3> QED BY <3>1, <3>2 DEF Appended, Entry
  <2> QED BY <1>5, <2>1, <2>2, <2>3, <2>4 DEF Propose, Conflict, LoadSnapshot, ReadPolicy,
       CheckTail, ReadOutcome, RejectIntention, ApplyStateless, LoadDecider,
       SaveDecider, DeciderRejected, DeciderConflict, RetryDecider,
       StopPlayback, SaveCheckpoint, CheckpointRejected, CheckpointConflict, RetryApply, Reload
<1> QED BY <1>3, <1>4, <1>5 DEF Next, Publish, Calls

(* What an append adds to the log and its replay.                          *)
LEMMA NewEntry ==
    ASSUME TypeInv, NEW e \in Entry, AppendEntry(e), NEW n \in Nat, n = Len(log)
    PROVE  /\ n \in Positions /\ Len(log') = n + 1
           /\ EntryAt(n)' = e
           /\ StateAt(n + 1)' = ReplayStep(StateAt(n), e, n)
           /\ \A p \in 0 .. (n - 1) : EntryAt(p)' = EntryAt(p)
           /\ \A p \in 0 .. n : StateAt(p)' = StateAt(p)
           /\ StateAt(n) \in EngineState
<1>1. /\ Len(log') = n + 1 /\ n < MaxLog
      /\ log'[n + 1] = e
      /\ replay'[n + 2] = ReplayStep(replay[n + 1], e, n)
      /\ \A p \in 0 .. (n - 1) : EntryAt(p)' = EntryAt(p)
      /\ \A p \in 0 .. n : StateAt(p)' = StateAt(p)
  BY AppendEffect DEF TypeInv
<1>2. replay[n + 1] \in EngineState
  <2>1. replay \in Seq(EngineState) /\ Len(replay) = n + 1
    BY DEF TypeInv, TypeOK
  <2> QED BY <2>1
<1>3. (n + 1) + 1 = n + 2
  OBVIOUS
<1> QED BY <1>1, <1>2, <1>3, MaxLogAssumption DEF EntryAt, StateAt, Positions

(* At most one call moves, and never one that has returned.                *)
LEMMA Movers ==
    ASSUME TypeInv, Next
    PROVE  \/ UNCHANGED <<pc, ctx>>
           \/ \E d \in Calls :
                /\ pc[d] \notin Terminal
                /\ \A c \in Calls \ {d} : pc'[c] = pc[c] /\ ctx'[c] = ctx[c]
                /\ \/ d \in Drives /\ (Propose(d) \/ Conflict(d))
                   \/ Create(d) \/ CreateSaveFails(d) \/ Fail(d)
<1>1. CASE Publish \/ \E e \in ExternalEntries : ExternalAppend(e)
  BY <1>1 DEF Publish, ExternalAppend
<1>2. ASSUME NEW d \in Calls, Create(d) \/ CreateSaveFails(d) \/ Fail(d)
      PROVE  /\ pc[d] \notin Terminal
             /\ \A c \in Calls \ {d} : pc'[c] = pc[c] /\ ctx'[c] = ctx[c]
  <2>1. pc[d] \notin Terminal
    BY <1>2 DEF Create, CreateReadPolicy, CreateAppend, CreateSave, CreateSaveFails, Fail,
         Terminal, Outcomes
  <2> QED BY <1>2, <2>1, OthersKeep
<1>3. ASSUME NEW d \in Drives, Propose(d) \/ Conflict(d)
      PROVE  /\ pc[d] \notin Terminal
             /\ \A c \in Calls \ {d} : pc'[c] = pc[c] /\ ctx'[c] = ctx[c]
  <2>1. pc[d] \notin Terminal
    BY <1>3 DEF Propose, Conflict, LoadSnapshot, ReadPolicy, AppendPolicy, AppendIntention,
       CheckTail, ForceAbort, ReadOutcome, RejectIntention, ApplyStateless, LoadDecider, Reaches,
       SaveDecider, DeciderRejected, DeciderConflict, AppendOutput, Unapplied, Saving,
       StopPlayback, SaveCheckpoint, CheckpointRejected, CheckpointConflict, Reload,
       Terminal, Outcomes
  <2> QED BY <1>3, <2>1, OthersKeep DEF Calls
<1> QED BY <1>1, <1>2, <1>3 DEF Next, Calls

(* A drive at an entry computes with the state in force there.             *)
LEMMA StateInForce ==
    ASSUME ReplayInv, NEW d \in Drives, NEW p \in LogPositions,
           ctx[d].snap.position < p, Quiet(ctx[d].snap.position + 1, p)
    PROVE  ctx[d].snap.state = StateAt(p)
<1>1. DriveFacts(d) /\ CallValid(d)
  BY DriveLocals DEF ReplayInv, Calls
<1>2. PICK a \in 0 .. Len(log) : a = ctx[d].snap.position + 1
  BY <1>1 DEF DriveFacts
<1>3. ctx[d].snap.state = StateAt(a)
  BY <1>1, <1>2 DEF CallValid, SnapshotValid
<1>4. a <= p /\ p \in 0 .. Len(log) /\ Quiet(a, p)
  BY <1>1, <1>2 DEF LogPositions, DriveFacts
<1> QED BY <1>3, <1>4 DEF ReplayInv, ReplayQuiet

(* That is so while it writes.                                             *)
LEMMA WritesInForce ==
    ASSUME ReplayInv, NEW d \in Drives, pc[d] \in {"save", "append"}
    PROVE  /\ ctx[d].pos \in LogPositions /\ ctx[d].snap.position < ctx[d].pos
           /\ ctx[d].snap.state = StateAt(ctx[d].pos)
           /\ Quiet(ctx[d].snap.position + 1, ctx[d].pos)
<1>1. DriveFacts(d) /\ CallValid(d) /\ d \in Calls
  BY DriveLocals DEF ReplayInv, Calls
<1>2. ctx[d].pos \in LogPositions
  BY <1>1 DEF DriveFacts, ReplayInv, TypeInv, CallBounds, LogPositions
<1>3. ctx[d].snap.position < ctx[d].pos /\ Quiet(ctx[d].snap.position + 1, ctx[d].pos)
  BY <1>1 DEF CallValid, Playing
<1> QED BY <1>2, <1>3, StateInForce

(* The policies in the log and along its replay stay as planned.           *)
LEMMA PolicyHistory ==
    ASSUME ReplayInv, BatchesPlanned, StatesFaithful, Next
    PROVE  BatchesPlanned' /\ StatesFaithful'
<1>0. TypeInv
  BY DEF ReplayInv
<1>1. CASE UNCHANGED <<log, replay>>
  BY <1>1 DEF BatchesPlanned, StatesFaithful, LogPositions, EntryAt, StateAt
<1>2. ASSUME NEW e \in Entry, AppendEntry(e), Appended(e)
      PROVE  BatchesPlanned' /\ StatesFaithful'
  <2>1. PICK n \in Nat : n = Len(log)
    BY <1>0 DEF TypeInv, TypeOK
  <2>2. /\ Len(log') = n + 1 /\ EntryAt(n)' = e
        /\ StateAt(n + 1)' = ReplayStep(StateAt(n), e, n)
        /\ \A p \in 0 .. (n - 1) : EntryAt(p)' = EntryAt(p)
        /\ \A p \in 0 .. n : StateAt(p)' = StateAt(p)
        /\ StateAt(n) \in EngineState
    BY <1>0, <1>2, <2>1, NewEntry
  <2>3. e.type = "PolicyBatch" => e \in BatchEntry /\ (Planned(e) \/ Broken(e))
    <3>1. e.type = "PolicyBatch" => e \in BatchEntry
      BY DEF Entry, IntentionEntry, VoteEntry, DecisionEntry, LegacyEntry
    <3>2. ASSUME e.type = "PolicyBatch"
          PROVE  Planned(e) \/ Broken(e)
      <4>1. ASSUME NEW d \in Drives, pc[d] = "append", ctx[d].out # <<>>, e = Head(ctx[d].out)
            PROVE  FALSE
        <5>1. ctx[d].out \in Seq(VoteEntry \cup DecisionEntry)
          BY <1>0, DriveLocals DEF DriveFacts, Context
        <5>2. e \in VoteEntry \cup DecisionEntry
          BY <4>1, <5>1
        <5> QED BY <3>2, <5>2 DEF VoteEntry, DecisionEntry
      <4> QED BY <1>2, <3>2, <4>1 DEF Appended, Decision
    <3> QED BY <3>1, <3>2
  <2>4. Faithful(ReplayStep(StateAt(n), e, n))
    <3>1. Faithful(StateAt(n))
      BY <2>1 DEF StatesFaithful
    <3>2. CASE e.type = "PolicyBatch" /\ ShouldApplyPolicyBatch(StateAt(n), e) /\ ~ Broken(e)
      <4>1. ~ Malformed(StateAt(n), e) /\ Faithful(ApplyPolicyBatch(StateAt(n), e, n))
        BY <2>2, <2>3, <3>1, <3>2, PlannedApplies
      <4> QED BY <3>2, <4>1 DEF ReplayStep
    <3>3. CASE ~ (e.type = "PolicyBatch" /\ ShouldApplyPolicyBatch(StateAt(n), e) /\ ~ Broken(e))
      BY <3>1, <3>3 DEF ReplayStep, Malformed
    <3> QED BY <3>2, <3>3
  <2>5. BatchesPlanned'
    <3>1. ASSUME NEW p \in 0 .. n, EntryAt(p)'.type = "PolicyBatch"
          PROVE  Planned(EntryAt(p)') \/ Broken(EntryAt(p)')
      BY <2>1, <2>2, <2>3, <3>1 DEF BatchesPlanned, LogPositions
    <3>2. LogPositions' = 0 .. n
      BY <2>1, <2>2 DEF LogPositions
    <3> QED BY <3>1, <3>2 DEF BatchesPlanned, Planned, Broken
  <2>6. StatesFaithful'
    <3>1. ASSUME NEW p \in 0 .. (n + 1)
          PROVE  Faithful(StateAt(p)')
      BY <2>1, <2>2, <2>4 DEF StatesFaithful
    <3> QED BY <2>2, <3>1 DEF StatesFaithful, Faithful
  <2> QED BY <2>5, <2>6
<1> QED BY <1>1, <1>2, StepAppends

(* A batch in the log that does not fit the state it applies to is broken. *)
LEMMA MalformedIsBroken ==
    ASSUME ReplayInv, BatchesPlanned, StatesFaithful, NEW p \in LogPositions,
           Malformed(StateAt(p), EntryAt(p))
    PROVE  Broken(EntryAt(p))
<1>1. EntryAt(p) \in Entry /\ StateAt(p) \in EngineState
  <2>1. log \in Seq(Entry) /\ replay \in Seq(EngineState) /\ Len(replay) = Len(log) + 1
    BY DEF ReplayInv, TypeInv, TypeOK
  <2> QED BY <2>1 DEF LogPositions, EntryAt, StateAt
<1>2. Faithful(StateAt(p))
  BY DEF StatesFaithful, LogPositions
<1>3. EntryAt(p).type = "PolicyBatch" /\ ShouldApplyPolicyBatch(StateAt(p), EntryAt(p))
  BY DEF Malformed
<1>4. EntryAt(p) \in BatchEntry
  BY <1>1, <1>3 DEF Entry, IntentionEntry, VoteEntry, DecisionEntry, LegacyEntry
<1>5. Planned(EntryAt(p)) \/ Broken(EntryAt(p))
  BY <1>3 DEF BatchesPlanned
<1> QED BY <1>1, <1>2, <1>3, <1>4, <1>5, PlannedApplies

(* A node refuses a batch only if the batch installs a voter that the node *)
(* cannot build.                                                           *)
LEMMA RefusedLacks ==
    ASSUME NEW st, NEW e, NEW p, NEW configs, RefusedBy(configs, st, e), ~ Malformed(st, e)
    PROVE  ~ Builds(configs, ReplayStep(st, e, p))
<1>1. PICK v \in VoterIds : e.ops[v] \in Configs \ configs
  BY DEF RefusedBy
<1>2. e.ops[v] \notin {Keep, Remove, Absent}
  BY <1>1, ConfigsAssumption
<1>3. ReplayStep(st, e, p).voters[v] = e.ops[v]
  BY <1>2 DEF RefusedBy, ReplayStep, ApplyPolicyBatch
<1> QED BY <1>1, <1>2, <1>3 DEF Builds, Installed

(* A node that builds the voters in force and supports those a batch adds  *)
(* builds the voters after it.                                             *)
LEMMA AcceptedBuilds ==
    ASSUME NEW st \in EngineState, NEW e \in BatchEntry, NEW p, NEW configs,
           Builds(configs, st), ~ RefusedBy(configs, st, e), ~ Malformed(st, e)
    PROVE  Builds(configs, ReplayStep(st, e, p))
<1>1. CASE ~ ShouldApplyPolicyBatch(st, e)
  BY <1>1 DEF ReplayStep
<1>2. CASE ShouldApplyPolicyBatch(st, e)
  <2>1. /\ e.type = "PolicyBatch" /\ ~ Broken(e)
        /\ ReplayStep(st, e, p) = ApplyPolicyBatch(st, e, p)
    BY <1>2 DEF BatchEntry, Malformed, ReplayStep
  <2>2. ASSUME NEW v \in VoterIds, ApplyPolicyBatch(st, e, p).voters[v] # Absent
        PROVE  ApplyPolicyBatch(st, e, p).voters[v] \in configs
    <3>1. e.ops[v] \in Configs \cup {Keep, Remove}
      BY <2>1 DEF Broken, BatchEntry
    <3>2. CASE e.ops[v] = Keep
      <4>1. ApplyPolicyBatch(st, e, p).voters[v] = st.voters[v]
        BY <3>2 DEF ApplyPolicyBatch
      <4> QED BY <2>2, <4>1 DEF Builds, Installed
    <3>3. CASE e.ops[v] \notin {Keep, Remove}
      <4>1. ApplyPolicyBatch(st, e, p).voters[v] = e.ops[v]
        BY <3>3 DEF ApplyPolicyBatch
      <4>2. e.ops[v] \in configs
        BY <1>2, <2>1, <3>1, <3>3 DEF RefusedBy
      <4> QED BY <4>1, <4>2
    <3>4. CASE e.ops[v] = Remove
      BY <2>2, <3>4, ConfigsAssumption DEF ApplyPolicyBatch
    <3> QED BY <3>2, <3>3, <3>4
  <2> QED BY <2>1, <2>2 DEF Builds, Installed
<1> QED BY <1>1, <1>2

(* Nothing is installed in the empty state.                                *)
LEMMA EmptyBuilds == \A configs : Builds(configs, InitState)
BY DEF Builds, Installed, InitState

(* The checkpoint stays in front of the entries that stop every node.      *)
LEMMA StopAhead ==
    ASSUME PolicyInv, Next, Extends, NEW p \in LogPositions', StopsAllNodes(p)'
    PROVE  engineSlot'.position < p
<1>0. /\ TypeInv /\ ReplayInv /\ Len(log) \in Nat /\ engineSlot \in Snapshot
      /\ engineSlot.position < Len(log)
  BY DEF PolicyInv, ReplayInv, TypeInv, TypeOK, SlotBounds
<1>1. engineSlot.position \in Int /\ p \in Nat
  BY <1>0, MaxLogAssumption DEF Snapshot, Positions, LogPositions, Extends
<1>2. engineSlot.position < p /\ (p < Len(log) => p \in LogPositions /\ StopsAllNodes(p))
  <2>1. ASSUME p < Len(log)
        PROVE  p \in LogPositions /\ StopsAllNodes(p)
    <3>1. p \in LogPositions /\ p \in 0 .. Len(log)
      BY <1>0, <1>1, <2>1 DEF LogPositions
    <3>2. EntryAt(p)' = EntryAt(p) /\ StateAt(p)' = StateAt(p)
      BY <3>1 DEF Extends, LogPositions
    <3> QED BY <3>1, <3>2 DEF StopsAllNodes
  <2>2. CASE p < Len(log)
    BY <2>1, <2>2 DEF PolicyInv
  <2>3. CASE p >= Len(log)
    BY <1>0, <1>1, <2>3
  <2> QED BY <1>0, <1>1, <2>1, <2>2, <2>3
<1>3. ASSUME NEW c \in Calls, CreateSave(c)
      PROVE  engineSlot'.position < p
  <2>1. CASE CasAccepts(engineSlot, NoPosition, 0)
    <3>1. /\ EntryAt(0) = InitialBatch(ctx[c].version) /\ log' = log /\ Len(log) > 0
          /\ ctx[c].version \in Versions
      BY <1>0, <1>3 DEF ReplayInv, CallValid, CreateSave, TypeInv, CallBounds
    <3>2. EntryAt(0).type = "PolicyBatch" /\ ~ Broken(EntryAt(0))
      <4>1. InitialBatch(ctx[c].version).type = "PolicyBatch"
        BY DEF InitialBatch, Plan
      <4>2. ~ Broken(InitialBatch(ctx[c].version))
        BY <3>1, PlanType, FreshTypes DEF InitialBatch
      <4> QED BY <3>1, <4>1, <4>2
    <3>3. ~ StopsAllNodes(0)
      BY <3>2 DEF StopsAllNodes
    <3>4. p # 0
      BY <1>0, <1>2, <3>1, <3>3
    <3>5. engineSlot'.position = 0
      BY <1>3, <2>1 DEF CreateSave
    <3> QED BY <1>1, <3>4, <3>5
  <2>2. CASE ~ CasAccepts(engineSlot, NoPosition, 0)
    BY <1>2, <1>3, <2>2 DEF CreateSave
  <2> QED BY <2>1, <2>2
<1>4. ASSUME NEW d \in Drives, SaveCheckpoint(d)
      PROVE  engineSlot'.position < p
  <2>1. /\ pc[d] = "append" /\ log' = log /\ engineSlot'.position = ctx[d].pos
        /\ ctx[d].snap.position = engineSlot.position
        /\ EntryAt(ctx[d].pos).type # "Legacy"
        /\ ~ Malformed(ctx[d].snap.state, EntryAt(ctx[d].pos))
    BY <1>4 DEF SaveCheckpoint, Saving, Unapplied, Unplayable, CasAccepts
  <2>2. PICK q \in Nat : q = ctx[d].pos
    BY <1>0, DriveLocals DEF DriveFacts
  <2>3. Quiet(engineSlot.position + 1, q) /\ ctx[d].snap.state = StateAt(q)
    BY <1>0, <2>1, <2>2, WritesInForce
  <2>4. ~ StopsAllNodes(q)
    BY <2>1, <2>2, <2>3 DEF StopsAllNodes, Malformed
  <2>5. p \in LogPositions /\ StopsAllNodes(p)
    BY <1>0, <1>1, <1>2, <2>1 DEF LogPositions
  <2>6. ~ IsDecision(EntryAt(p)) /\ p # q
    BY <2>4, <2>5 DEF StopsAllNodes, IsDecision
  <2>7. ~ (p \in (engineSlot.position + 1) .. (q - 1))
    BY <2>3, <2>6 DEF Quiet
  <2> QED BY <1>1, <1>2, <2>1, <2>2, <2>6, <2>7
<1> QED BY <1>2, <1>3, <1>4, SlotWriters

(* The voters of a checkpoint are within the reach of its writer.          *)
LEMMA CheckpointBuilds ==
    ASSUME PolicyInv, Next, engineSlot'.position # NoPosition
    PROVE  SomeBuilds(engineSlot'.state)
<1>0. ReplayInv /\ TypeInv
  BY DEF PolicyInv, ReplayInv
<1>1. CASE engineSlot' = engineSlot
  BY <1>1 DEF PolicyInv
<1>2. ASSUME NEW c \in Calls, CreateSave(c), engineSlot' # engineSlot
      PROVE  SomeBuilds(engineSlot'.state)
  <2>1. PICK v \in Versions : v = ctx[c].version /\ pc[c] = "createSave"
    BY <1>0, <1>2 DEF CreateSave, TypeInv, CallBounds
  <2>2. engineSlot'.state = ReplayStep(InitState, InitialBatch(v), 0)
    BY <1>2, <2>1, InitialBatchApplies DEF CreateSave
  <2>3. ~ RefusedBy(Supported[c], InitState, InitialBatch(v))
    BY <2>1 DEF PolicyInv, BuildsFirst
  <2>4. InitialBatch(v) \in BatchEntry
    BY PlanType, FreshTypes DEF InitialBatch
  <2>5. Builds(Supported[c], ReplayStep(InitState, InitialBatch(v), 0))
    BY <2>3, <2>4, EmptyBuilds, FreshTypes, InitialBatchApplies, AcceptedBuilds
  <2> QED BY <2>2, <2>5 DEF SomeBuilds
<1>3. ASSUME NEW d \in Drives, SaveCheckpoint(d)
      PROVE  SomeBuilds(engineSlot'.state)
  <2>0. d \in Calls /\ DriveFacts(d) /\ CallValid(d)
    BY <1>0, DriveLocals DEF Calls, ReplayInv
  <2>1. /\ pc[d] = "append" /\ ctx[d].snap.position = engineSlot.position
        /\ ~ RefusedBy(Supported[d], ctx[d].snap.state, EntryAt(ctx[d].pos))
        /\ ~ Malformed(ctx[d].snap.state, EntryAt(ctx[d].pos))
        /\ engineSlot'.state = ReplayStep(ctx[d].snap.state, EntryAt(ctx[d].pos), ctx[d].pos)
    BY <1>3 DEF SaveCheckpoint, Saving, Unapplied, Unplayable, CasAccepts
  <2>2. EntryAt(ctx[d].pos) \in Entry
    <3>1. ctx[d].pos < Len(log) /\ ctx[d].pos \in Nat /\ log \in Seq(Entry)
      BY <1>0, <2>0, <2>1 DEF DriveFacts, TypeInv, CallBounds, TypeOK
    <3> QED BY <3>1 DEF EntryAt
  <2>3. CASE EntryAt(ctx[d].pos).type = "PolicyBatch"
    <3>1. EntryAt(ctx[d].pos) \in BatchEntry
      BY <2>2, <2>3 DEF Entry, IntentionEntry, VoteEntry, DecisionEntry, LegacyEntry
    <3>2. Builds(Supported[d], ctx[d].snap.state)
      BY <2>0, <2>1, <2>3 DEF PolicyInv, BuildsFirst
    <3>3. Builds(Supported[d], engineSlot'.state)
      BY <2>0, <2>1, <3>1, <3>2, AcceptedBuilds DEF DriveFacts
    <3> QED BY <2>0, <3>3 DEF SomeBuilds
  <2>4. CASE EntryAt(ctx[d].pos).type # "PolicyBatch"
    <3>1. engineSlot'.state = ctx[d].snap.state
      BY <2>1, <2>4 DEF ReplayStep
    <3>2. ctx[d].snap.state = engineSlot.state
      BY <1>0, <2>0, <2>1 DEF ReplayInv, CheckpointIsReplay, CallValid, SnapshotValid
    <3>3. CASE engineSlot.position = NoPosition
      <4>1. engineSlot.state = InitState
        BY <1>0, <3>3 DEF ReplayInv, ReplayChain, CheckpointIsReplay
      <4> QED BY <2>0, <3>1, <3>2, <4>1, EmptyBuilds DEF SomeBuilds
    <3>4. CASE engineSlot.position # NoPosition
      BY <3>1, <3>2, <3>4 DEF PolicyInv
    <3> QED BY <3>3, <3>4
  <2> QED BY <2>3, <2>4
<1> QED BY <1>1, <1>2, <1>3, SlotWriters

(* A drive that applies entry i has its voters built, or stops because one *)
(* of those in force is beyond its node.                                   *)
LEMMA ProduceBuilds ==
    ASSUME PolicyInv, NEW d \in Drives, NEW i \in LogPositions, NEW decision,
           Produce(d, i, decision), ctx[d].snap.state = StateAt(i), Extends
    PROVE  /\ pc'[d] \in {"append", "Stopped"}
           /\ pc'[d] = "Stopped" => ctx'[d].pos = i /\ LacksVoterAt(d, i)'
           /\ pc'[d] = "append" => Builds(Supported[d], ctx'[d].snap.state)
<1>0. /\ pc \in [Calls -> Steps \cup Terminal] /\ ctx \in [Calls -> Context] /\ d \in Calls
      /\ ctx[d] \in Context /\ Len(log) \in Nat
  BY DEF PolicyInv, ReplayInv, TypeInv, TypeOK, Calls
<1>1. CASE Builds(Supported[d], ctx[d].snap.state) /\ Hold(d, i, decision)
  <2>1. pc'[d] = "append" /\ ctx'[d].snap = ctx[d].snap
    BY <1>0, <1>1 DEF Hold, Context
  <2> QED BY <1>1, <2>1
<1>2. CASE ~ Builds(Supported[d], ctx[d].snap.state) /\ Return(d, "Stopped", i)
  <2>1. pc'[d] = "Stopped" /\ ctx'[d].pos = i
    BY <1>0, <1>2 DEF Return, FreshContext
  <2>2. i \in 0 .. Len(log)
    BY <1>0 DEF LogPositions
  <2>3. StateAt(i)' = StateAt(i)
    BY <2>2 DEF Extends
  <2>4. ~ Builds(Supported[d], StateAt(i)')
    BY <1>2, <2>3
  <2>5. LacksVoterAt(d, i)'
    BY <2>4 DEF LacksVoterAt, Builds, Installed
  <2> QED BY <2>1, <2>5
<1> QED BY <1>1, <1>2 DEF Produce

(* What a drive does that applies an entry: from the scan the state in     *)
(* force there is its snapshot's, and so it is after a decider's save.     *)
LEMMA Applies ==
    ASSUME PolicyInv, NEW d \in Drives, ApplyStateless(d) \/ LoadDecider(d) \/ SaveDecider(d)
    PROVE  \/ \E i \in LogPositions : \E decision :
                Produce(d, i, decision) /\ ctx[d].snap.state = StateAt(i)
           \/ pc'[d] = "save"
<1>0. ReplayInv /\ TypeInv /\ DriveFacts(d) /\ CallValid(d)
  BY DriveLocals DEF PolicyInv, ReplayInv, Calls
<1>1. ASSUME NEW i \in Attention(d), Reaches(d, i), RequiresApplication(EntryAt(i))
      PROVE  i \in LogPositions /\ ctx[d].snap.state = StateAt(i)
  <2>1. /\ i \in LogPositions /\ i \in Nat /\ ctx[d].pos <= i /\ i <= ctx[d].known
        /\ i > ctx[d].snap.position
    BY <1>0, <1>1, AttentionBounds DEF LogPositions, Positions, DriveFacts, Attention,
         RequiresApplication
  <2>2. i \in ctx[d].pos .. Consumed(d)
    BY <1>0, <2>1 DEF Consumed, Larger, DriveFacts
  <2>3. Quiet(ctx[d].snap.position + 1, ctx[d].pos)
    BY <1>0, <1>1 DEF CallValid, Reaches, Playing
  <2>4. Quiet(ctx[d].snap.position + 1, i)
    BY <1>0, <1>1, <2>1, <2>2, <2>3, QuietJump DEF Reaches, DriveFacts
  <2> QED BY <1>0, <2>1, <2>4, StateInForce
<1>2. CASE ApplyStateless(d)
  BY <1>1, <1>2 DEF ApplyStateless
<1>3. CASE LoadDecider(d)
  <2>1. PICK i \in Attention(d) :
          /\ Reaches(d, i) /\ ConsultsSlot(ctx[d].snap.state, EntryAt(i))
          /\ \/ pc' = [pc EXCEPT ![d] = "save"]
             \/ Produce(d, i, Redelivered(deciderSlots[DeciderId(d)], i))
    BY <1>3 DEF LoadDecider
  <2>2. RequiresApplication(EntryAt(i))
    BY <2>1 DEF ConsultsSlot, RequiresApplication, IsDecision
  <2> QED BY <1>0, <1>1, <2>1, <2>2 DEF DriveFacts
<1>4. CASE SaveDecider(d)
  BY <1>0, <1>4, WritesInForce DEF SaveDecider
<1> QED BY <1>2, <1>3, <1>4

(* The other steps of a drive neither stop it nor have it hold outputs.    *)
LEMMA OtherSteps ==
    ASSUME TypeInv, NEW c \in Drives, Propose(c) \/ Conflict(c), ~ StopPlayback(c),
           ~ (ApplyStateless(c) \/ LoadDecider(c) \/ SaveDecider(c))
    PROVE  /\ pc'[c] # "Stopped"
           /\ \/ pc'[c] \notin {"append", "createSave"}
              \/ RejectIntention(c) \/ AppendOutput(c)
<1>0. pc \in [Calls -> Steps \cup Terminal] /\ c \in Calls
  BY DEF TypeInv, TypeOK, Calls
<1>1. CASE ReadOutcome(c)
  BY <1>0, <1>1 DEF ReadOutcome, Return, IsDecision
<1>2. CASE \/ DeciderRejected(c) \/ CheckpointRejected(c) \/ Conflict(c)
  BY <1>0, <1>2 DEF DeciderRejected, CheckpointRejected, Conflict, DeciderConflict,
     CheckpointConflict, RetryDecider, RetryApply, Return
<1>3. CASE \/ LoadSnapshot(c) \/ ReadPolicy(c) \/ AppendPolicy(c) \/ AppendIntention(c)
  BY <1>0, <1>3 DEF LoadSnapshot, ReadPolicy, ProviderRefuses, AppendPolicy, AppendIntention,
     Return
<1>4. CASE \/ CheckTail(c) \/ ForceAbort(c) \/ SaveCheckpoint(c) \/ Reload(c)
  BY <1>0, <1>4 DEF CheckTail, ForceAbort, SaveCheckpoint, Reload
<1>5. CASE RejectIntention(c) \/ AppendOutput(c)
  <2>1. pc'[c] = "append"
    BY <1>0, <1>5 DEF RejectIntention, AppendOutput
  <2> QED BY <1>5, <2>1
<1> QED BY <1>1, <1>2, <1>3, <1>4, <1>5 DEF Propose

(* Nor do those of create_bus, its append apart, or a failure.             *)
LEMMA OtherCreates ==
    ASSUME TypeInv, NEW c \in Calls, Create(c) \/ CreateSaveFails(c) \/ Fail(c), ~ CreateAppend(c)
    PROVE  pc'[c] \notin {"Stopped", "append", "createSave"}
<1>1. pc \in [Calls -> Steps \cup Terminal]
  BY DEF TypeInv, TypeOK
<1> QED BY <1>1 DEF Create, CreateReadPolicy, ProviderRefuses, CreateSave, CreateSaveFails,
      Fail, Return

(* A call that stops has a cause in the log, and the others keep theirs.   *)
LEMMA StopsForCause ==
    ASSUME PolicyInv, Next, Extends, ReplayInv', NEW c \in Calls
    PROVE  StoppedForCause(c)'
<1>0. /\ TypeInv /\ ReplayInv /\ Len(log) \in Nat /\ Len(log') \in Nat /\ Len(log) <= Len(log')
      /\ pc \in [Calls -> Steps \cup Terminal] /\ ctx \in [Calls -> Context]
  BY DEF PolicyInv, ReplayInv, TypeInv, TypeOK, Extends
<1>1. ASSUME NEW p \in LogPositions, StopsAllNodes(p) \/ LacksVoterAt(c, p)
      PROVE  p \in LogPositions' /\ (StopsAllNodes(p)' \/ LacksVoterAt(c, p)')
  <2>1. p \in LogPositions' /\ p \in 0 .. Len(log) /\ p + 1 \in 0 .. Len(log)
    BY <1>0 DEF LogPositions
  <2>2. /\ EntryAt(p)' = EntryAt(p) /\ StateAt(p)' = StateAt(p)
        /\ StateAt(p + 1)' = StateAt(p + 1)
    BY <2>1 DEF Extends, LogPositions
  <2>3. StopsAllNodes(p) => StopsAllNodes(p)'
    BY <2>2 DEF StopsAllNodes
  <2>4. ASSUME NEW q \in {p, p + 1}, ~ Builds(Supported[c], StateAt(q))
        PROVE  LacksVoterAt(c, p)'
    <3>1. StateAt(q)' = StateAt(q)
      BY <2>2
    <3>2. ~ Builds(Supported[c], StateAt(q)')
      BY <2>4, <3>1
    <3> QED BY <3>2 DEF LacksVoterAt, Builds, Installed
  <2> QED BY <1>1, <2>1, <2>3, <2>4 DEF LacksVoterAt
<1>2. CASE pc'[c] = pc[c] /\ ctx'[c] = ctx[c]
  <2> SUFFICES ASSUME pc[c] = "Stopped"
               PROVE  StoppedForCause(c)'
    BY <1>2 DEF StoppedForCause
  <2>1. PICK p \in LogPositions : p = ctx[c].pos /\ (StopsAllNodes(p) \/ LacksVoterAt(c, p))
    BY DEF PolicyInv, StoppedForCause
  <2>2. p \in LogPositions' /\ (StopsAllNodes(p)' \/ LacksVoterAt(c, p)')
    BY <1>1, <2>1
  <2>3. ctx'[c].pos = p
    BY <1>2, <2>1
  <2> QED BY <2>2, <2>3 DEF StoppedForCause, StopsAllNodes, LacksVoterAt, EntryAt, StateAt
<1>3. CASE c \in Drives /\ StopPlayback(c)
  <2>1. /\ pc[c] = "append" /\ Return(c, "Stopped", ctx[c].pos)
        /\ Unplayable(Supported[c], ctx[c].snap.state, EntryAt(ctx[c].pos))
    BY <1>3 DEF StopPlayback, Unapplied
  <2>2. PICK p \in LogPositions : p = ctx[c].pos /\ ctx[c].snap.state = StateAt(p)
    BY <1>0, <1>3, <2>1, WritesInForce
  <2>3. ctx'[c].pos = p
    BY <1>0, <2>1, <2>2 DEF Return, FreshContext
  <2>4. CASE EntryAt(p).type = "Legacy" \/ Malformed(StateAt(p), EntryAt(p))
    <3>1. StopsAllNodes(p)
      BY <1>0, <2>4, MalformedIsBroken DEF PolicyInv, StopsAllNodes, Malformed
    <3>2. p \in LogPositions' /\ (StopsAllNodes(p)' \/ LacksVoterAt(c, p)')
      BY <1>1, <3>1
    <3> QED BY <2>3, <3>2 DEF StoppedForCause, StopsAllNodes, LacksVoterAt, EntryAt, StateAt
  <2>5. CASE RefusedBy(Supported[c], StateAt(p), EntryAt(p)) /\ ~ Malformed(StateAt(p), EntryAt(p))
    <3>1. StateAt(p + 1) = ReplayStep(StateAt(p), EntryAt(p), p)
      BY <1>0 DEF ReplayInv, ReplayChain
    <3>2. LacksVoterAt(c, p)
      BY <2>5, <3>1, RefusedLacks DEF LacksVoterAt
    <3>3. p \in LogPositions' /\ (StopsAllNodes(p)' \/ LacksVoterAt(c, p)')
      BY <1>1, <3>2
    <3> QED BY <2>3, <3>3 DEF StoppedForCause, StopsAllNodes, LacksVoterAt, EntryAt, StateAt
  <2> QED BY <2>1, <2>2, <2>4, <2>5 DEF Unplayable
<1>4. CASE c \in Drives /\ (ApplyStateless(c) \/ LoadDecider(c) \/ SaveDecider(c))
  <2> SUFFICES ASSUME pc'[c] = "Stopped"
               PROVE  StoppedForCause(c)'
    BY DEF StoppedForCause
  <2>1. PICK i \in LogPositions : \E decision :
          Produce(c, i, decision) /\ ctx[c].snap.state = StateAt(i)
    BY <1>4, Applies
  <2>2. ctx'[c].pos = i /\ LacksVoterAt(c, i)'
    BY <1>4, <2>1, ProduceBuilds
  <2>3. i \in LogPositions'
    BY <1>0 DEF LogPositions
  <2> QED BY <2>2, <2>3 DEF StoppedForCause, LacksVoterAt, StateAt
<1>5. CASE CreateAppend(c)
  <2> SUFFICES ASSUME pc'[c] = "Stopped"
               PROVE  StoppedForCause(c)'
    BY DEF StoppedForCause
  <2>1. PICK v \in Versions : v = ctx[c].version
    BY <1>0, <1>5 DEF CreateAppend, TypeInv, CallBounds
  <2>2. /\ AppendEntry(InitialBatch(v)) /\ Len(log) = 0 /\ ctx'[c].pos = 0
        /\ RefusedBy(Supported[c], InitState, InitialBatch(v))
    BY <1>0, <1>5, <2>1 DEF CreateAppend, FirstOnBus, Return, FreshContext
  <2>3. InitialBatch(v) \in Entry
    BY PlanType, FreshTypes DEF InitialBatch, Entry
  <2>4. Len(log') = 1 /\ StateAt(1)' = ReplayStep(StateAt(0), InitialBatch(v), 0)
    <3>1. PICK e \in Entry : e = InitialBatch(v)
      BY <2>3
    <3>2. PICK n \in Nat : n = Len(log) /\ n = 0
      BY <2>2
    <3>3. Len(log') = n + 1 /\ StateAt(n + 1)' = ReplayStep(StateAt(n), e, n)
      BY <1>0, <2>2, <3>1, <3>2, NewEntry
    <3>4. Len(log') = 1 /\ StateAt(1)' = ReplayStep(StateAt(0), e, 0)
      BY ONLY <3>2, <3>3
    <3> QED BY <3>1, <3>4
  <2>5. ~ Builds(Supported[c], StateAt(1)')
    BY <1>0, <2>2, <2>4, InitialBatchApplies, RefusedLacks DEF ReplayInv, ReplayChain
  <2>6. LacksVoterAt(c, 0)' /\ 0 \in LogPositions'
    BY <2>4, <2>5 DEF LacksVoterAt, Builds, Installed, LogPositions
  <2> QED BY <2>2, <2>6 DEF StoppedForCause, LacksVoterAt, StateAt
<1>6. CASE pc'[c] # "Stopped"
  BY <1>6 DEF StoppedForCause
<1>7. ASSUME Create(c) \/ CreateSaveFails(c) \/ Fail(c), ~ CreateAppend(c)
      PROVE  pc'[c] # "Stopped"
  BY <1>0, <1>7, OtherCreates
<1>8. ASSUME c \in Drives, Propose(c) \/ Conflict(c), ~ StopPlayback(c),
             ~ (ApplyStateless(c) \/ LoadDecider(c) \/ SaveDecider(c))
      PROVE  pc'[c] # "Stopped"
  BY <1>0, <1>8, OtherSteps
<1> QED BY <1>0, <1>2, <1>3, <1>4, <1>5, <1>6, <1>7, <1>8, Movers

(* A call holds what its node can build before it writes a checkpoint.     *)
LEMMA HoldersBuild ==
    ASSUME PolicyInv, Next, Extends, ReplayInv', NEW c \in Calls
    PROVE  BuildsFirst(c)'
<1>0. /\ TypeInv /\ ReplayInv /\ Len(log) \in Nat
      /\ pc \in [Calls -> Steps \cup Terminal] /\ ctx \in [Calls -> Context]
      /\ BuildsFirst(c)
  BY DEF PolicyInv, ReplayInv, TypeInv, TypeOK
<1>1. CASE pc'[c] = pc[c] /\ ctx'[c] = ctx[c]
  <2>1. ASSUME pc[c] = "append"
        PROVE  EntryAt(ctx[c].pos)' = EntryAt(ctx[c].pos)
    <3>1. PICK p \in 0 .. (Len(log) - 1) : p = ctx[c].pos
      <4>1. ctx[c].pos \in Nat /\ ctx[c].pos < Len(log)
        BY <1>0, <2>1, MaxLogAssumption DEF Context, Cursor, Positions, TypeInv, CallBounds
      <4> QED BY <1>0, <4>1
    <3>2. EntryAt(p)' = EntryAt(p)
      BY DEF Extends
    <3> QED BY <1>1, <3>1, <3>2 DEF EntryAt
  <2> QED BY <1>0, <1>1, <2>1
          DEF BuildsFirst, Builds, Installed, RefusedBy, InitialBatch, Plan
<1>2. CASE CreateAppend(c)
  <2>1. pc'[c] \in {"Created", "Stopped"} \/ (ctx' = ctx /\ pc'[c] = "createSave")
    BY <1>0, <1>2 DEF CreateAppend, Return
  <2>2. pc'[c] = "createSave" => ~ RefusedBy(Supported[c], InitState, InitialBatch(ctx[c].version))
    BY <1>0, <1>2 DEF CreateAppend, Return
  <2>3. pc'[c] = "createSave" => ~ RefusedBy(Supported[c], InitState, InitialBatch(ctx'[c].version))
    BY <2>1, <2>2
  <2> QED BY <2>1, <2>3 DEF BuildsFirst, Builds, Installed, RefusedBy, InitialBatch, Plan
<1>3. CASE c \in Drives /\ (ApplyStateless(c) \/ LoadDecider(c) \/ SaveDecider(c))
  <2>1. CASE pc'[c] = "save"
    BY <2>1 DEF BuildsFirst
  <2>2. CASE \E i \in LogPositions : \E decision :
               Produce(c, i, decision) /\ ctx[c].snap.state = StateAt(i)
    <3>1. /\ pc'[c] \in {"append", "Stopped"}
          /\ pc'[c] = "append" => Builds(Supported[c], ctx'[c].snap.state)
      BY <1>3, <2>2, ProduceBuilds
    <3> QED BY <3>1 DEF BuildsFirst, Builds, Installed
  <2> QED BY <1>3, <2>1, <2>2, Applies
<1>4. CASE c \in Drives /\ RejectIntention(c)
  <2>1. PICK i \in Attention(c) :
          /\ PolicyConstraintFailure(ctx[c].snap.state, EntryAt(i))
          /\ pc'[c] = "append" /\ ctx'[c].pos = i /\ log' = log
    BY <1>0, <1>4 DEF RejectIntention, Context
  <2>2. (EntryAt(ctx[c].pos).type # "PolicyBatch")'
    BY <2>1 DEF EntryAt, PolicyConstraintFailure
  <2> QED BY <2>1, <2>2 DEF BuildsFirst
<1>5. CASE c \in Drives /\ AppendOutput(c)
  <2>1. /\ pc[c] = "append" /\ pc'[c] = "append"
        /\ ctx'[c].pos = ctx[c].pos /\ ctx'[c].snap = ctx[c].snap
    BY <1>0, <1>5 DEF AppendOutput, Context
  <2>2. PICK p \in 0 .. (Len(log) - 1) : p = ctx[c].pos
    <3>1. ctx[c].pos \in Nat /\ ctx[c].pos < Len(log)
      BY <1>0, <2>1, MaxLogAssumption DEF Context, Cursor, Positions, TypeInv, CallBounds
    <3> QED BY <1>0, <3>1
  <2>3. EntryAt(p)' = EntryAt(p)
    BY DEF Extends
  <2>4. EntryAt(ctx[c].pos)' = EntryAt(ctx[c].pos)
    BY <2>1, <2>2, <2>3 DEF EntryAt
  <2> QED BY <1>0, <2>1, <2>4 DEF BuildsFirst, Builds, Installed
<1>6. CASE pc'[c] \notin {"append", "createSave"}
  BY <1>6 DEF BuildsFirst
<1>7. ASSUME Create(c) \/ CreateSaveFails(c) \/ Fail(c), ~ CreateAppend(c)
      PROVE  pc'[c] \notin {"append", "createSave"}
  BY <1>0, <1>7, OtherCreates
<1>8. ASSUME c \in Drives, Propose(c) \/ Conflict(c), ~ StopPlayback(c),
             ~ (ApplyStateless(c) \/ LoadDecider(c) \/ SaveDecider(c)),
             ~ RejectIntention(c), ~ AppendOutput(c)
      PROVE  pc'[c] \notin {"append", "createSave"}
  BY <1>0, <1>8, OtherSteps
<1>9. ASSUME c \in Drives, StopPlayback(c)
      PROVE  pc'[c] \notin {"append", "createSave"}
  BY <1>0, <1>9 DEF StopPlayback, Return
<1> QED BY <1>0, <1>1, <1>2, <1>3, <1>4, <1>5, <1>6, <1>7, <1>8, <1>9, Movers

(* The policy invariant holds initially and is kept by every step.         *)
LEMMA PolicyInit == Init => PolicyInv
<1> SUFFICES ASSUME Init PROVE PolicyInv
  OBVIOUS
<1>1. ReplayInv
  BY ReplayInit
<1>2. log = <<>> /\ Len(log) = 0 /\ \A c \in Calls : pc[c] \in {"idle", "create"}
  BY DEF Init
<1>3. LogPositions = {}
  BY <1>2 DEF LogPositions
<1>4. StatesFaithful
  <2>1. StateAt(0) = InitState /\ Faithful(InitState)
    BY <1>1 DEF ReplayInv, ReplayChain, Faithful, InitState
  <2> QED BY <1>2, <2>1 DEF StatesFaithful
<1>5. engineSlot.position = NoPosition
  BY DEF Init, EmptySnapshot
<1> QED BY <1>1, <1>2, <1>3, <1>4, <1>5 DEF PolicyInv, BatchesPlanned, StoppedForCause, BuildsFirst

LEMMA PolicyStep == PolicyInv /\ [Next]_vars => PolicyInv'
<1> SUFFICES ASSUME PolicyInv, [Next]_vars PROVE PolicyInv'
  OBVIOUS
<1>1. ReplayInv' /\ ReplayInv
  BY ReplayInvStep DEF PolicyInv
<1>2. CASE Next
  <2>1. Extends
    BY <1>1, <1>2, LogSteps, HistoryStep DEF ReplayInv
  <2>2. BatchesPlanned' /\ StatesFaithful'
    BY <1>1, <1>2, PolicyHistory DEF PolicyInv
  <2>3. ASSUME NEW p \in LogPositions', StopsAllNodes(p)'
        PROVE  engineSlot'.position < p
    BY <1>2, <2>1, <2>3, StopAhead
  <2>4. engineSlot'.position # NoPosition => SomeBuilds(engineSlot'.state)
    BY <1>2, CheckpointBuilds
  <2>5. \A c \in Calls : StoppedForCause(c)' /\ BuildsFirst(c)'
    BY <1>1, <1>2, <2>1, StopsForCause, HoldersBuild
  <2> QED BY <1>1, <2>2, <2>3, <2>4, <2>5 DEF PolicyInv, SomeBuilds, Builds, Installed
<1>3. CASE UNCHANGED vars
  BY <1>1, <1>3 DEF vars, PolicyInv, BatchesPlanned, StatesFaithful, LogPositions, EntryAt, StateAt,
       StoppedForCause, BuildsFirst, StopsAllNodes, LacksVoterAt, SomeBuilds
<1> QED BY <1>2, <1>3

(* A version names one policy: whatever stale snapshots the batches in the *)
(* log were planned from, the replayed decider and voters are those the    *)
(* provider published for the version in force.                            *)
THEOREM PolicyIsFaithful == Spec => []PolicyFaithful
<1>1. PolicyInv => PolicyFaithful
  BY DEF PolicyInv, StatesFaithful, Faithful, PolicyFaithful
<1> QED BY <1>1, PolicyInit, PolicyStep, PTL DEF Spec

(* Playback stops only for a cause in the log: at an entry that stops every*)
(* node, which no checkpoint passes, or at a policy with a voter that the  *)
(* node of the stopped call does not support, never at a planned batch for *)
(* the state it is applied to.  All voters of a checkpoint are supported   *)
(* by the node of some call.                                               *)
THEOREM PlaybackStops == Spec => []PlaybackStopsForCause
<1>1. PolicyInv => PlaybackStopsForCause
  BY DEF PolicyInv, StoppedForCause, SomeBuilds, PlaybackStopsForCause
<1> QED BY <1>1, PolicyInit, PolicyStep, PTL DEF Spec

-----------------------------------------------------------------------------
(* Decisions.                                                              *)
(*                                                                         *)
(* Three separate writes carry a decision: the decider's slot, the log and *)
(* the checkpoint.  The invariant says what each of them, and each call    *)
(* between two of them, knows of the verdicts of the log.                  *)

(* Along the replay a decider is replaced by one with a larger id.         *)
DeciderIds ==
    \A a, b \in 0 .. Len(log) :
        /\ StateAt(a).decider.id < a
        /\ a <= b => StateAt(a).decider.id <= StateAt(b).decider.id
        /\ StateAt(a).decider.id = StateAt(b).decider.id =>
             StateAt(a).decider = StateAt(b).decider

(* Entry r goes through the slot of the decider in force.                  *)
Consults(r) == ConsultsSlot(StateAt(r), EntryAt(r))

SlotOf(r) == deciderSlots[StateAt(r).decider.id]

Refused(p) == PolicyConstraintFailure(StateAt(p), EntryAt(p))

Voted(p) == StateAt(p).decider.policy = "FirstBooleanWins"

(* Entry q settles the intention at x with decision e.                     *)
Settles(q, x, e) ==
    /\ IsIntention(x)
    /\ \/ q = x /\ Refused(x) /\ e = Decision(x, FALSE, "constraint")
       \/ /\ q = x /\ ~ Refused(x) /\ ~ Voted(x)
          /\ e = Decision(x, StateAt(x).decider.policy = "OnByDefault", "default")
       \/ /\ ~ Refused(x) /\ Voted(x) /\ q \in DecidingVotes(x)
          /\ e = Decision(x, EntryAt(q).vote = "true", "vote")

Logged(e) == \E i \in LogPositions : EntryAt(i) = e

(* What entry q settles is in the log.                                     *)
SettledLogged(q) == \A x \in LogPositions : \A e \in DecisionEntry : Settles(q, x, e) => Logged(e)

(* A slot is the decider's run over the entries up to its position.        *)
ExactAt(s, id) ==
    /\ s.position < Len(log) /\ s.pending <= s.position
    /\ s.position # NoPosition =>
         Consults(s.position) /\ StateAt(s.position).decider.id = id
    /\ \A x \in LogPositions : s.pending = x <=> AwaitsVote(x, s.position + 1)
    /\ \A x \in LogPositions : s.position \in DecidingVotes(x) =>
         s.last = <<Decision(x, EntryAt(s.position).vote = "true", "vote")>>
    /\ s.last # <<>> => \E x \in LogPositions : s.position \in DecidingVotes(x)

SlotExact(id) == ExactAt(deciderSlots[id], id)

(* The slot runs ahead of the checkpoint by at most the entry at hand, ... *)
SlotBehind(id) ==
    \A i \in LogPositions :
        RequiresApplication(EntryAt(i)) /\ i < deciderSlots[id].position =>
            i <= engineSlot.position

(* ... and never lags behind it.                                           *)
SlotsCover ==
    \A r \in LogPositions :
        Consults(r) /\ r <= engineSlot.position => r <= SlotOf(r).position

(* A call about to write s's successor at entry p.                         *)
SaveReady(p, s) ==
    /\ Consults(p)
    /\ s.position < p /\ s.position <= SlotOf(p).position
    /\ s.position = SlotOf(p).position => s = SlotOf(p)
    /\ \A r \in LogPositions :
         r < p /\ Consults(r) /\ StateAt(r).decider.id = StateAt(p).decider.id =>
             r <= s.position

(* The slot has been written for entry p.                                  *)
SlotDone(p) == Consults(p) => p <= SlotOf(p).position

(* The outputs held for entry p: every decision among them is one that p   *)
(* settles, and whatever p settles is among them or in the log.            *)
Outputs(p, out) ==
    /\ \A k \in 1 .. Len(out) : IsDecision(out[k]) => Settles(p, out[k].intention, out[k])
    /\ \A x \in LogPositions : \A e \in DecisionEntry :
         Settles(p, x, e) => Logged(e) \/ \E k \in 1 .. Len(out) : out[k] = e

(* The intention at x has no decision before p.                            *)
Undecided(x, p) == IsIntention(x) /\ \A i \in DecisionsFor(x) : p <= i

(* The decision at p is the first for x.                                   *)
Answered(x, p, result) ==
    /\ p \in DecisionsFor(x) /\ EntryAt(p).type = result
    /\ \A i \in DecisionsFor(x) : p <= i

CallDecides(c) ==
    /\ pc[c] \in {"save", "append"} => RequiresApplication(EntryAt(ctx[c].pos))
    /\ pc[c] = "save" => SaveReady(ctx[c].pos, ctx[c].decider)
    /\ pc[c] = "append" => SlotDone(ctx[c].pos) /\ Outputs(ctx[c].pos, ctx[c].out)
    /\ pc[c] \in Playing => Undecided(ctx[c].prop, ctx[c].pos)
    /\ pc[c] = "force" => ~ Refused(ctx[c].prop) /\ Voted(ctx[c].prop)
    /\ pc[c] \in Outcomes => Answered(ctx[c].prop, ctx[c].pos, pc[c])

DecisionInv ==
    /\ PolicyInv
    /\ DeciderIds
    /\ \A id \in Positions : SlotExact(id) /\ SlotBehind(id)
    /\ SlotsCover
    /\ \A q \in LogPositions : q <= engineSlot.position => SettledLogged(q)
    /\ DecisionsFollowLog
    /\ \A c \in Calls : CallDecides(c)

-----------------------------------------------------------------------------
(* Facts about the log and its replay.                                     *)

(* Entries and states have their types.                                    *)
LEMMA AtTypes ==
    ASSUME TypeInv
    PROVE  /\ Len(log) \in Nat /\ Len(log) <= MaxLog
           /\ \A p \in LogPositions : EntryAt(p) \in Entry /\ p \in Positions
           /\ \A p \in 0 .. Len(log) : /\ StateAt(p) \in EngineState
                                       /\ StateAt(p).decider.id \in Positions \cup {-1}
                                       /\ StateAt(p).decider.id \in Int
           /\ \A p \in 0 .. Len(log) : Voted(p) => StateAt(p).decider.id \in Positions
<1>1. /\ log \in Seq(Entry) /\ replay \in Seq(EngineState) /\ Len(replay) = Len(log) + 1
      /\ Len(log) \in Nat /\ Len(log) <= MaxLog
  BY DEF TypeInv, TypeOK
<1>2. \A p \in LogPositions : EntryAt(p) \in Entry /\ p \in Positions
  BY <1>1, MaxLogAssumption DEF LogPositions, EntryAt, Positions
<1>3. \A p \in 0 .. Len(log) : StateAt(p) \in EngineState
  BY <1>1 DEF StateAt
<1>4. ASSUME NEW p \in 0 .. Len(log)
      PROVE  /\ StateAt(p).decider.id \in Positions \cup {-1}
             /\ Voted(p) => StateAt(p).decider.id \in Positions
  <2>1. StateAt(p).decider \in DeciderSpec
    BY <1>3 DEF EngineState
  <2> QED BY <2>1 DEF DeciderSpec, Voted
<1> QED BY <1>1, <1>2, <1>3, <1>4, MaxLogAssumption DEF Positions

(* Deciders keep their order as the log grows.                             *)
LEMMA DeciderIdsStep ==
    ASSUME TypeInv, DeciderIds, NEW e \in Entry, AppendEntry(e)
    PROVE  DeciderIds'
<1>1. PICK n \in Nat : n = Len(log)
  BY DEF TypeInv, TypeOK
<1>2. /\ n \in Positions /\ Len(log') = n + 1
      /\ StateAt(n + 1)' = ReplayStep(StateAt(n), e, n)
      /\ \A p \in 0 .. n : StateAt(p)' = StateAt(p)
  BY <1>1, NewEntry
<1> DEFINE D(p) == StateAt(p)'.decider
<1>3. D(n + 1) = StateAt(n).decider \/ D(n + 1).id = n
  BY <1>2 DEF ReplayStep, ApplyPolicyBatch
<1>4. \A p \in 0 .. n : D(p) = StateAt(p).decider /\ StateAt(p).decider.id \in Int
  BY <1>1, <1>2, AtTypes
<1>5. \A a, b \in 0 .. n :
        /\ D(a).id < a
        /\ a <= b => D(a).id <= D(b).id
        /\ D(a).id = D(b).id => D(a) = D(b)
  BY <1>1, <1>4 DEF DeciderIds
<1>6. \A a \in 0 .. n : D(a).id \in Int
  BY <1>4
<1>7. D(n) = StateAt(n).decider
  BY <1>4
<1> HIDE DEF D
<1>8. \A a, b \in 0 .. (n + 1) :
        /\ D(a).id < a
        /\ a <= b => D(a).id <= D(b).id
        /\ D(a).id = D(b).id => D(a) = D(b)
  <2> SUFFICES ASSUME NEW a \in 0 .. (n + 1), NEW b \in 0 .. (n + 1)
               PROVE  /\ D(a).id < a
                      /\ a <= b => D(a).id <= D(b).id
                      /\ D(a).id = D(b).id => D(a) = D(b)
    OBVIOUS
  <2>1. CASE D(n + 1) = D(n)
    BY <1>5, <1>6, <2>1
  <2>2. CASE D(n + 1).id = n
    BY <1>5, <1>6, <2>2
  <2> QED BY <1>3, <1>7, <2>1, <2>2
<1> QED BY <1>2, <1>8 DEF DeciderIds, D

(* Between two states with the same decider nothing replaced it.           *)
LEMMA SameDecider ==
    ASSUME TypeInv, DeciderIds, NEW a \in 0 .. Len(log), NEW b \in 0 .. Len(log),
           NEW r \in 0 .. Len(log), a <= r, r <= b,
           StateAt(a).decider.id = StateAt(b).decider.id
    PROVE  StateAt(r).decider = StateAt(a).decider /\ StateAt(r).decider = StateAt(b).decider
<1>1. /\ StateAt(a).decider.id \in Int /\ StateAt(b).decider.id \in Int
      /\ StateAt(r).decider.id \in Int
  BY AtTypes
<1>2. StateAt(a).decider.id <= StateAt(r).decider.id /\ StateAt(r).decider.id <= StateAt(b).decider.id
  BY DEF DeciderIds
<1> QED BY <1>1, <1>2 DEF DeciderIds

(* An intention that awaits a vote, and a vote, go through the slot.       *)
LEMMA ConsultsWhen ==
    ASSUME NEW r \in LogPositions, Voted(r)
    PROVE  /\ IsIntention(r) => (Consults(r) <=> ~ Refused(r))
           /\ EntryAt(r).type = "Vote" => Consults(r)
           /\ Consults(r) => IsIntention(r) \/ EntryAt(r).type = "Vote"
BY DEF Voted, Consults, ConsultsSlot, Refused, PolicyConstraintFailure, IsIntention

LEMMA ConsultsMeans ==
    ASSUME NEW r, Consults(r)
    PROVE  /\ Voted(r) /\ ~ Refused(r) /\ RequiresApplication(EntryAt(r))
           /\ EntryAt(r).type \in {"Intention", "Vote"}
BY DEF Voted, Consults, ConsultsSlot, Refused, RequiresApplication, IsDecision

(* An entry that is no batch leaves the state alone.                       *)
LEMMA ConsultsKeeps ==
    ASSUME ReplayChain, NEW r \in LogPositions, Consults(r)
    PROVE  StateAt(r + 1) = StateAt(r)
<1>1. StateAt(r + 1) = ReplayStep(StateAt(r), EntryAt(r), r)
  BY DEF ReplayChain
<1>2. EntryAt(r).type # "PolicyBatch"
  BY ConsultsMeans
<1> QED BY <1>1, <1>2 DEF ReplayStep

(* The slot's pending intention is the one that awaits a vote at the next  *)
(* entry the decider is given, wherever that is.                           *)
LEMMA PendingAt ==
    ASSUME ReplayInv, DeciderIds, NEW id \in Positions, NEW s \in DeciderSlot, ExactAt(s, id),
           NEW p \in LogPositions, s.position < p, StateAt(p).decider.id = id,
           \A r \in LogPositions :
             r < p /\ Consults(r) /\ StateAt(r).decider.id = id => r <= s.position,
           NEW x \in LogPositions
    PROVE  s.pending = x <=> AwaitsVote(x, p)
<1>0. /\ TypeInv /\ ReplayChain /\ Len(log) \in Nat /\ x \in Nat /\ p \in Nat
      /\ s.position \in Int /\ s.position >= -1 /\ s.pending \in Int
      /\ LogPositions = 0 .. (Len(log) - 1)
  BY AtTypes, MaxLogAssumption DEF ReplayInv, LogPositions, DeciderSlot, Positions
<1>1. ASSUME s.pending = x
      PROVE  AwaitsVote(x, p)
  <2>1. x <= s.position /\ s.position \in LogPositions
    BY <1>0, <1>1 DEF ExactAt
  <2>2. Consults(s.position) /\ StateAt(s.position).decider.id = id
    BY <1>0, <2>1 DEF ExactAt
  <2>3. AwaitsVote(x, s.position + 1)
    BY <1>1 DEF ExactAt
  <2>4. StateAt(s.position + 1).decider.id = id
    BY <1>0, <2>1, <2>2, ConsultsKeeps
  <2>5. StateAt(p).decider = StateAt(x).decider
    <3>1. StateAt(x).decider.id = id
      BY <2>3, <2>4 DEF AwaitsVote
    <3> QED BY <1>0, <3>1 DEF DeciderIds
  <2>6. Voted(x) /\ ~ Refused(x) /\ IsIntention(x)
    BY <2>3 DEF AwaitsVote, Voted, Refused
  <2>7. ASSUME NEW r \in (x + 1) .. (p - 1)
        PROVE  /\ IsIntention(r) => Refused(r)
               /\ EntryAt(r).type = "Vote" /\ EntryAt(r).vote # "other" => EntryAt(r).intention # x
    <3>1. CASE r <= s.position
      <4>1. r \in (x + 1) .. ((s.position + 1) - 1)
        BY <1>0, <2>7, <3>1
      <4> QED BY <2>3, <4>1 DEF AwaitsVote, Refused
    <3>2. CASE r > s.position
      <4>1. r \in LogPositions /\ r \in 0 .. Len(log) /\ x \in 0 .. Len(log) /\ p \in 0 .. Len(log)
            /\ x <= r /\ r <= p
        BY <1>0, <2>7
      <4>2. StateAt(r).decider = StateAt(x).decider
        BY <1>0, <2>5, <4>1, SameDecider
      <4>3. ~ Consults(r)
        BY <1>0, <2>5, <2>7, <3>2, <4>1, <4>2
      <4>4. Voted(r)
        BY <2>6, <4>2 DEF Voted
      <4> QED BY <4>1, <4>3, <4>4, ConsultsWhen
    <3> QED BY <1>0, <3>1, <3>2
  <2>8. x < p
    BY <1>0, <2>1
  <2> QED BY <2>5, <2>6, <2>7, <2>8 DEF AwaitsVote, Voted, Refused
<1>2. ASSUME AwaitsVote(x, p)
      PROVE  s.pending = x
  <2>1. /\ IsIntention(x) /\ x < p /\ ~ Refused(x) /\ Voted(x)
        /\ StateAt(p).decider = StateAt(x).decider
    BY <1>2 DEF AwaitsVote, Refused, Voted
  <2>2. x <= s.position
    BY <2>1, ConsultsWhen
  <2>3. /\ s.position + 1 \in 0 .. Len(log) /\ x \in 0 .. Len(log) /\ p \in 0 .. Len(log)
        /\ x <= s.position + 1 /\ s.position + 1 <= p
    BY <1>0, <2>2
  <2>4. StateAt(s.position + 1).decider = StateAt(x).decider
    BY <1>0, <2>1, <2>3, SameDecider
  <2>5. \A r \in (x + 1) .. ((s.position + 1) - 1) : r \in (x + 1) .. (p - 1)
    BY <1>0
  <2>6. AwaitsVote(x, s.position + 1)
    BY <1>0, <1>2, <2>1, <2>2, <2>4, <2>5 DEF AwaitsVote, Refused, Voted
  <2> QED BY <2>6 DEF ExactAt
<1> QED BY <1>1, <1>2

(* What awaits a vote after an entry the decider was given.                *)
LEMMA AwaitsNext ==
    ASSUME ReplayInv, DeciderIds, NEW p \in LogPositions, Consults(p), NEW x \in LogPositions
    PROVE  AwaitsVote(x, p + 1) <=>
             \/ x = p /\ IsIntention(p)
             \/ /\ AwaitsVote(x, p) /\ EntryAt(p).type = "Vote"
                /\ EntryAt(p).vote # "other" => EntryAt(p).intention # x
<1>0. /\ TypeInv /\ ReplayChain /\ Len(log) \in Nat /\ x \in Nat /\ p \in Nat
      /\ LogPositions = 0 .. (Len(log) - 1)
  BY AtTypes DEF ReplayInv, LogPositions
<1>1. /\ Voted(p) /\ ~ Refused(p) /\ EntryAt(p).type \in {"Intention", "Vote"}
      /\ StateAt(p + 1) = StateAt(p)
  BY <1>0, ConsultsMeans, ConsultsKeeps
<1>2. CASE x = p
  <2>1. ~ AwaitsVote(x, p)
    BY <1>0, <1>2 DEF AwaitsVote
  <2>2. IsIntention(p) => AwaitsVote(p, p + 1)
    BY <1>0, <1>1 DEF AwaitsVote, Voted, Refused
  <2>3. AwaitsVote(p, p + 1) => IsIntention(p)
    BY DEF AwaitsVote
  <2> QED BY <1>2, <2>1, <2>2, <2>3
<1>3. CASE x > p
  BY <1>0, <1>3 DEF AwaitsVote
<1>4. CASE x < p
  <2>1. \A r : r \in (x + 1) .. ((p + 1) - 1) <=> r = p \/ r \in (x + 1) .. (p - 1)
    BY <1>0, <1>4
  <2>2. IsIntention(p) <=> EntryAt(p).type = "Intention"
    BY DEF IsIntention
  <2> QED BY <1>0, <1>1, <1>4, <2>1, <2>2 DEF AwaitsVote, Refused
<1> QED BY <1>0, <1>2, <1>3, <1>4

(* The decider's transition on the next entry it is given keeps its slot   *)
(* exact.                                                                  *)
LEMMA SlotRuns ==
    ASSUME ReplayInv, DeciderIds, NEW id \in Positions, NEW s \in DeciderSlot, ExactAt(s, id),
           NEW p \in LogPositions, s.position < p, StateAt(p).decider.id = id, Consults(p),
           \A r \in LogPositions :
             r < p /\ Consults(r) /\ StateAt(r).decider.id = id => r <= s.position
    PROVE  ExactAt(FirstBooleanWins(s, EntryAt(p), p), id)
<1> DEFINE e == EntryAt(p)
           decides == e.type = "Vote" /\ s.pending = e.intention /\ e.vote # "other"
           new == FirstBooleanWins(s, e, p)
<1>0. /\ Len(log) \in Nat /\ p \in Nat /\ p < Len(log) /\ e \in Entry
      /\ s.position \in Int /\ s.pending \in Int /\ s.pending <= s.position
      /\ LogPositions = 0 .. (Len(log) - 1)
  BY AtTypes, MaxLogAssumption DEF ReplayInv, LogPositions, DeciderSlot, Positions, ExactAt
<1>1. e.type \in {"Intention", "Vote"} /\ (IsIntention(p) <=> e.type = "Intention")
  BY ConsultsMeans DEF IsIntention
<1>2. \A x \in LogPositions : s.pending = x <=> AwaitsVote(x, p)
  BY PendingAt
<1>3. \A x \in LogPositions :
        AwaitsVote(x, p + 1) <=>
             \/ x = p /\ IsIntention(p)
             \/ /\ AwaitsVote(x, p) /\ e.type = "Vote"
                /\ e.vote # "other" => e.intention # x
  BY AwaitsNext
<1>4. /\ new.position = p
      /\ new.pending = IF e.type = "Intention" THEN p ELSE IF decides THEN -1 ELSE s.pending
      /\ new.last = IF decides THEN <<Decision(e.intention, e.vote = "true", "vote")>> ELSE <<>>
  BY DEF FirstBooleanWins
<1>5. \A x \in LogPositions :
        p \in DecidingVotes(x) <=>
            e.type = "Vote" /\ e.intention = x /\ e.vote # "other" /\ AwaitsVote(x, p)
  BY DEF DecidingVotes
<1>6. decides => e.intention \in LogPositions
  <2>1. e.type = "Vote" => e.intention \in Positions
    BY <1>0 DEF Entry, IntentionEntry, VoteEntry, DecisionEntry, BatchEntry, LegacyEntry
  <2> QED BY <1>0, <2>1, MaxLogAssumption DEF Positions
<1> HIDE DEF e, new
<1>7. new.position < Len(log) /\ new.pending <= new.position
  BY <1>0, <1>4
<1>8. \A x \in LogPositions : new.pending = x <=> AwaitsVote(x, new.position + 1)
  <2> SUFFICES ASSUME NEW x \in LogPositions
               PROVE  new.pending = x <=> AwaitsVote(x, p + 1)
    BY <1>4
  <2>1. x # -1
    BY <1>0
  <2>2. CASE e.type = "Intention"
    BY <1>1, <1>3, <1>4, <2>2
  <2>3. CASE e.type = "Vote" /\ decides
    BY <1>1, <1>2, <1>3, <1>4, <2>1, <2>3
  <2>4. CASE e.type = "Vote" /\ ~ decides
    BY <1>1, <1>2, <1>3, <1>4, <2>4
  <2> QED BY <1>1, <2>2, <2>3, <2>4
<1>9. \A x \in LogPositions : p \in DecidingVotes(x) =>
        new.last = <<Decision(x, e.vote = "true", "vote")>>
  BY <1>2, <1>4, <1>5
<1>10. new.last # <<>> => \E x \in LogPositions : p \in DecidingVotes(x)
  BY <1>2, <1>4, <1>5, <1>6
<1> QED BY <1>4, <1>7, <1>8, <1>9, <1>10 DEF ExactAt, e, new

-----------------------------------------------------------------------------
(* What was true of the log stays true while it grows.                     *)

LEMMA EntryKept ==
    ASSUME TypeInv, Extends, NEW x \in LogPositions
    PROVE  /\ x \in LogPositions' /\ x \in 0 .. Len(log)
           /\ EntryAt(x)' = EntryAt(x) /\ StateAt(x)' = StateAt(x)
           /\ IsIntention(x)' <=> IsIntention(x)
           /\ Refused(x)' <=> Refused(x)
           /\ Voted(x)' <=> Voted(x)
           /\ Consults(x)' <=> Consults(x)
<1>1. Len(log) \in Nat /\ Len(log') \in Nat /\ Len(log) <= Len(log')
  BY DEF TypeInv, TypeOK, Extends
<1>2. x \in LogPositions' /\ x \in 0 .. Len(log)
  BY <1>1 DEF LogPositions
<1>3. EntryAt(x)' = EntryAt(x) /\ StateAt(x)' = StateAt(x)
  BY <1>2 DEF Extends, LogPositions
<1> QED BY <1>2, <1>3 DEF IsIntention, Refused, Voted, Consults, PolicyConstraintFailure, ConsultsSlot

LEMMA AwaitsKept ==
    ASSUME TypeInv, Extends, NEW x \in LogPositions, NEW q \in 0 .. Len(log)
    PROVE  AwaitsVote(x, q)' <=> AwaitsVote(x, q)
<1>1. Len(log) \in Nat /\ LogPositions = 0 .. (Len(log) - 1)
  BY DEF TypeInv, TypeOK, LogPositions
<1>2. StateAt(q)' = StateAt(q)
  BY DEF Extends
<1>3. ASSUME NEW r \in (x + 1) .. (q - 1)
      PROVE  /\ EntryAt(r)' = EntryAt(r)
             /\ IsIntention(r)' <=> IsIntention(r)
             /\ Refused(r)' <=> Refused(r)
  BY <1>1, EntryKept
<1>4. /\ IsIntention(x)' <=> IsIntention(x)
      /\ Refused(x)' <=> Refused(x)
      /\ StateAt(x)' = StateAt(x)
  BY EntryKept
<1> QED BY <1>2, <1>3, <1>4 DEF AwaitsVote, Refused

LEMMA DecidingKept ==
    ASSUME TypeInv, Extends, NEW x \in LogPositions, NEW q \in LogPositions
    PROVE  (q \in DecidingVotes(x))' <=> q \in DecidingVotes(x)
<1>1. q \in LogPositions' /\ EntryAt(q)' = EntryAt(q) /\ q \in 0 .. Len(log)
  BY EntryKept
<1>2. AwaitsVote(x, q)' <=> AwaitsVote(x, q)
  BY <1>1, AwaitsKept
<1> QED BY <1>1, <1>2 DEF DecidingVotes

LEMMA SettlesKept ==
    ASSUME TypeInv, Extends, NEW x \in LogPositions, NEW q \in LogPositions, NEW e
    PROVE  Settles(q, x, e)' <=> Settles(q, x, e)
<1>1. /\ EntryAt(q)' = EntryAt(q) /\ StateAt(x)' = StateAt(x)
      /\ IsIntention(x)' <=> IsIntention(x)
      /\ Refused(x)' <=> Refused(x)
      /\ Voted(x)' <=> Voted(x)
  BY EntryKept
<1>2. (q \in DecidingVotes(x))' <=> q \in DecidingVotes(x)
  BY DecidingKept
<1> QED BY <1>1, <1>2 DEF Settles

(* What settles an intention comes no earlier than the intention.          *)
LEMMA SettlesLate ==
    ASSUME NEW q, NEW x, NEW e, Settles(q, x, e), Len(log) \in Nat
    PROVE  /\ q \in LogPositions /\ x \in LogPositions /\ x <= q
           /\ e = Decision(x, FALSE, e.reason) \/ e = Decision(x, TRUE, e.reason)
           /\ IsDecision(e) /\ e.intention = x /\ e.reason \in {"constraint", "default", "vote"}
<1>1. x \in LogPositions /\ x \in Nat
  BY DEF Settles, IsIntention, LogPositions
<1>2. q = x \/ q \in DecidingVotes(x)
  BY DEF Settles
<1>3. q \in DecidingVotes(x) => q \in LogPositions /\ x < q
  BY DEF DecidingVotes, AwaitsVote
<1>4. q \in LogPositions /\ x <= q
  BY <1>1, <1>2, <1>3 DEF LogPositions
<1>5. PICK b \in BOOLEAN, reason \in {"constraint", "default", "vote"} : e = Decision(x, b, reason)
  BY DEF Settles
<1> QED BY <1>1, <1>4, <1>5 DEF Decision, IsDecision

(* So an entry settles nothing new when the log grows.                     *)
LEMMA SettlesOld ==
    ASSUME TypeInv, Extends, NEW q \in LogPositions, NEW x, NEW e, Settles(q, x, e)'
    PROVE  x \in LogPositions /\ Settles(q, x, e)
<1>1. Len(log) \in Nat /\ Len(log') \in Nat
  BY DEF TypeInv, TypeOK, Extends
<1>2. (x \in LogPositions)' /\ x <= q
  <2>1. x \in LogPositions'
    BY DEF Settles, IsIntention
  <2>2. (q \in DecidingVotes(x))' => x < q
    BY DEF DecidingVotes, AwaitsVote
  <2>3. (q = x \/ q \in DecidingVotes(x))'
    BY DEF Settles
  <2> QED BY <1>1, <2>1, <2>2, <2>3 DEF LogPositions
<1>3. x \in LogPositions
  BY <1>1, <1>2 DEF LogPositions
<1> QED BY <1>3, SettlesKept

LEMMA LoggedKept ==
    ASSUME TypeInv, Extends, NEW e, Logged(e)
    PROVE  Logged(e)'
<1>1. PICK i \in LogPositions : EntryAt(i) = e
  BY DEF Logged
<1>2. i \in LogPositions' /\ EntryAt(i)' = e
  BY <1>1, EntryKept
<1> QED BY <1>2 DEF Logged

(* An exact slot stays exact.                                              *)
LEMMA ExactKept ==
    ASSUME TypeInv, Extends, NEW id, NEW s \in DeciderSlot, ExactAt(s, id)
    PROVE  ExactAt(s, id)'
<1>0. /\ Len(log) \in Nat /\ Len(log') \in Nat /\ Len(log) <= Len(log')
      /\ s.position \in Int /\ s.position >= -1 /\ s.pending \in Int
      /\ s.position < Len(log) /\ s.pending <= s.position
  BY MaxLogAssumption DEF TypeInv, TypeOK, Extends, ExactAt, DeciderSlot, Positions
<1>1. s.position # -1 => s.position \in LogPositions
  BY <1>0 DEF LogPositions
<1>2. s.position # -1 => Consults(s.position)' /\ StateAt(s.position)'.decider.id = id
  BY <1>1, EntryKept DEF ExactAt
<1>3. \A x \in LogPositions' \ LogPositions :
        /\ s.pending # x /\ ~ AwaitsVote(x, s.position + 1)'
        /\ ~ (s.position \in DecidingVotes(x))'
  BY <1>0 DEF LogPositions, AwaitsVote, DecidingVotes
<1>4. \A x \in LogPositions : s.pending = x <=> AwaitsVote(x, s.position + 1)'
  <2>1. s.position + 1 \in 0 .. Len(log)
    BY <1>0
  <2> QED BY <2>1, AwaitsKept DEF ExactAt
<1>5. \A x \in LogPositions : (s.position \in DecidingVotes(x))' <=> s.position \in DecidingVotes(x)
  <2>1. CASE s.position = -1
    BY <1>0, <2>1 DEF DecidingVotes, LogPositions
  <2>2. CASE s.position # -1
    BY <1>1, <2>2, DecidingKept
  <2> QED BY <2>1, <2>2
<1>6. s.position # -1 => EntryAt(s.position)' = EntryAt(s.position)
  BY <1>1, EntryKept
<1>7. \A x \in LogPositions : s.position \in DecidingVotes(x) => s.position # -1
  BY DEF DecidingVotes, LogPositions
<1>8. \A x \in LogPositions' : (s.position \in DecidingVotes(x))' =>
        s.last = <<Decision(x, EntryAt(s.position)'.vote = "true", "vote")>>
  BY <1>3, <1>5, <1>6, <1>7 DEF ExactAt
<1>9. s.last # <<>> => \E x \in LogPositions' : (s.position \in DecidingVotes(x))'
  BY <1>5, EntryKept DEF ExactAt
<1>10. \A x \in LogPositions' : s.pending = x <=> AwaitsVote(x, s.position + 1)'
  BY <1>3, <1>4
<1> QED BY <1>0, <1>2, <1>8, <1>9, <1>10 DEF ExactAt

-----------------------------------------------------------------------------
(* Slots, checkpoint and log after a step.                                 *)

(* The decision invariant rests on the replay invariant.                   *)
LEMMA DecisionBase ==
    ASSUME DecisionInv
    PROVE  /\ TypeInv /\ ReplayInv /\ PolicyInv /\ DeciderIds /\ ReplayChain /\ StatesFaithful
           /\ Len(log) \in Nat /\ LogPositions = 0 .. (Len(log) - 1)
           /\ engineSlot.position \in Int /\ engineSlot.position >= -1
           /\ engineSlot.position < Len(log)
           /\ \A id \in Positions : /\ deciderSlots[id] \in DeciderSlot
                                    /\ deciderSlots[id].position \in Int
                                    /\ deciderSlots[id].position >= -1
<1>1. TypeInv /\ ReplayInv /\ PolicyInv /\ DeciderIds /\ ReplayChain /\ StatesFaithful
  BY DEF DecisionInv, PolicyInv, ReplayInv
<1>2. /\ engineSlot \in Snapshot /\ engineSlot.position < Len(log)
      /\ deciderSlots \in [Positions -> DeciderSlot]
  BY <1>1 DEF TypeInv, TypeOK, SlotBounds
<1>3. Len(log) \in Nat /\ LogPositions = 0 .. (Len(log) - 1)
  BY <1>1, AtTypes DEF LogPositions
<1>4. \A id \in Positions : /\ deciderSlots[id] \in DeciderSlot
                            /\ deciderSlots[id].position \in Positions \cup {-1}
  BY <1>2 DEF DeciderSlot
<1> QED BY <1>1, <1>2, <1>3, <1>4, MaxLogAssumption DEF Snapshot, Positions

(* Every write moves a slot forward.                                       *)
SlotsGrow ==
    \A id \in Positions :
        \/ deciderSlots'[id] = deciderSlots[id]
        \/ deciderSlots[id].position < deciderSlots'[id].position

(* What the compare-and-swap of a slot finds and writes.                   *)
LEMMA SaveSlot ==
    ASSUME DecisionInv, NEW d \in Drives, SaveDecider(d),
           NEW p, p = ctx[d].pos, NEW id, id = StateAt(p).decider.id,
           NEW s, s = deciderSlots[id]
    PROVE  /\ log' = log /\ replay' = replay /\ engineSlot' = engineSlot
           /\ p \in LogPositions /\ id \in Positions /\ Consults(p)
           /\ s \in DeciderSlot /\ s.position < p
           /\ \A r \in LogPositions :
                r < p /\ Consults(r) /\ StateAt(r).decider.id = id => r <= s.position
           /\ deciderSlots' = [deciderSlots EXCEPT ![id] = FirstBooleanWins(s, EntryAt(p), p)]
           /\ Produce(d, p, FirstBooleanWins(s, EntryAt(p), p).last)
           /\ ExactAt(FirstBooleanWins(s, EntryAt(p), p), id)
<1>0. /\ ReplayInv /\ TypeInv /\ DeciderIds /\ d \in Calls /\ CallDecides(d)
      /\ Len(log) \in Nat /\ LogPositions = 0 .. (Len(log) - 1)
  BY DecisionBase DEF DecisionInv, Calls
<1>1. pc[d] = "save" /\ SaveReady(ctx[d].pos, ctx[d].decider)
  BY <1>0 DEF SaveDecider, CallDecides
<1>2. p \in LogPositions /\ ctx[d].snap.state = StateAt(p)
  BY <1>0, <1>1, WritesInForce
<1>3. DeciderId(d) = id
  BY <1>2 DEF DeciderId
<1>4. Consults(p) /\ id \in Positions
  BY <1>0, <1>1, <1>2, ConsultsMeans, AtTypes DEF SaveReady
<1>5. s \in DeciderSlot /\ SlotExact(id)
  BY <1>4, DecisionBase DEF DecisionInv
<1>6. ctx[d].decider.position = s.position
  BY <1>3 DEF SaveDecider, CasAccepts
<1>7. ctx[d].decider = s
  BY <1>1, <1>6 DEF SaveReady, SlotOf
<1>8. /\ s.position < p
      /\ \A r \in LogPositions :
           r < p /\ Consults(r) /\ StateAt(r).decider.id = id => r <= s.position
  BY <1>1, <1>6 DEF SaveReady
<1>9. ExactAt(FirstBooleanWins(s, EntryAt(p), p), id)
  BY <1>0, <1>2, <1>4, <1>5, <1>8, SlotRuns DEF SlotExact
<1> QED BY <1>2, <1>3, <1>4, <1>5, <1>7, <1>8, <1>9 DEF SaveDecider

(* Only one action writes a slot.                                          *)
LEMMA DeciderWriters ==
    ASSUME Next
    PROVE  deciderSlots' = deciderSlots \/ \E d \in Drives : SaveDecider(d)
<1>1. ASSUME NEW c \in Calls, Create(c) \/ CreateSaveFails(c) \/ Fail(c)
      PROVE  deciderSlots' = deciderSlots
  BY <1>1 DEF Create, CreateReadPolicy, CreateAppend, CreateSave, CreateSaveFails, Fail
<1>2. ASSUME NEW d \in Drives, Propose(d) \/ Conflict(d)
      PROVE  deciderSlots' = deciderSlots \/ SaveDecider(d)
  BY <1>2 DEF Propose, Conflict, LoadSnapshot, ReadPolicy, AppendPolicy, AppendIntention,
       CheckTail, ForceAbort, ReadOutcome, RejectIntention, ApplyStateless, LoadDecider,
       DeciderRejected, DeciderConflict, RetryDecider, AppendOutput,
       StopPlayback, SaveCheckpoint, CheckpointRejected, CheckpointConflict, RetryApply, Reload
<1> QED BY <1>1, <1>2 DEF Next, Publish, ExternalAppend, Calls

(* The slots after a step.                                                 *)
LEMMA SlotsStep ==
    ASSUME DecisionInv, Next, Extends, engineSlot.position <= engineSlot'.position,
           engineSlot'.position \in Int
    PROVE  SlotsGrow /\ \A id \in Positions : SlotExact(id)' /\ SlotBehind(id)'
<1>0. /\ TypeInv /\ ReplayInv /\ Len(log) \in Nat /\ LogPositions = 0 .. (Len(log) - 1)
      /\ engineSlot.position \in Int /\ Len(log') \in Nat /\ Len(log) <= Len(log')
      /\ \A id \in Positions : /\ deciderSlots[id] \in DeciderSlot
                               /\ deciderSlots[id].position \in Int
      /\ deciderSlots \in [Positions -> DeciderSlot]
      /\ \A id \in Positions : SlotExact(id) /\ SlotBehind(id)
  BY DecisionBase DEF Extends, TypeInv, TypeOK, DecisionInv
<1>1. ASSUME NEW id \in Positions, deciderSlots'[id] = deciderSlots[id]
      PROVE  SlotExact(id)' /\ SlotBehind(id)'
  <2>1. PICK s \in DeciderSlot : s = deciderSlots[id] /\ s.position \in Int
    BY <1>0
  <2>2. ExactAt(s, id) /\ ExactAt(s, id)'
    BY <1>0, <2>1, ExactKept DEF SlotExact
  <2>3. ASSUME NEW i \in LogPositions', RequiresApplication(EntryAt(i)'), i < s.position
        PROVE  i <= engineSlot'.position
    <3>1. i \in LogPositions
      BY <1>0, <2>1, <2>2, <2>3 DEF ExactAt, LogPositions
    <3>2. EntryAt(i)' = EntryAt(i)
      BY <1>0, <3>1, EntryKept
    <3>3. i <= engineSlot.position
      BY <1>0, <2>1, <2>3, <3>1, <3>2 DEF SlotBehind
    <3> QED BY <1>0, <3>1, <3>3
  <2>4. SlotBehind(id)'
    BY <1>1, <2>1, <2>3 DEF SlotBehind, RequiresApplication, IsDecision
  <2>5. SlotExact(id)'
    BY <1>1, <2>1, <2>2 DEF SlotExact, ExactAt
  <2> QED BY <2>4, <2>5
<1>2. ASSUME NEW d \in Drives, SaveDecider(d)
      PROVE  SlotsGrow /\ \A id \in Positions : SlotExact(id)' /\ SlotBehind(id)'
  <2>1. PICK p, k, s : p = ctx[d].pos /\ k = StateAt(p).decider.id /\ s = deciderSlots[k]
    OBVIOUS
  <2>2. /\ log' = log /\ replay' = replay /\ engineSlot' = engineSlot
        /\ p \in LogPositions /\ k \in Positions
        /\ s \in DeciderSlot /\ s.position < p
        /\ deciderSlots' = [deciderSlots EXCEPT ![k] = FirstBooleanWins(s, EntryAt(p), p)]
        /\ ExactAt(FirstBooleanWins(s, EntryAt(p), p), k)
    BY <1>2, <2>1, SaveSlot
  <2>3. EntryAt(p) \in Entry /\ p \in Positions
    BY <1>0, <2>2, AtTypes
  <2>4. PICK new \in DeciderSlot : new = FirstBooleanWins(s, EntryAt(p), p)
    BY <2>2, <2>3, FirstBooleanWinsType
  <2>5. new.position = p
    BY <2>4 DEF FirstBooleanWins
  <2>6. deciderSlots'[k] = new /\ \A id \in Positions \ {k} : deciderSlots'[id] = deciderSlots[id]
    BY <1>0, <2>2, <2>4
  <2>7. SlotExact(k)'
    <3>1. ExactAt(new, k) /\ ExactAt(new, k)'
      BY <1>0, <2>2, <2>4, ExactKept
    <3> QED BY <2>6, <3>1 DEF SlotExact, ExactAt
  <2>8. SlotBehind(k)'
    <3>1. pc[d] = "save"
      BY <1>2 DEF SaveDecider
    <3>2. Quiet(ctx[d].snap.position + 1, p) /\ ctx[d].snap.position <= engineSlot.position
      BY <1>0, <2>1, <3>1, WritesInForce DEF ReplayInv, CallValid, SnapshotValid, Calls
    <3>3. ctx[d].snap.position \in Int
      BY <1>0, DriveLocals DEF DriveFacts
    <3>4. ASSUME NEW i \in LogPositions, ~ IsDecision(EntryAt(i)), i < p
          PROVE  i <= engineSlot.position
      BY <1>0, <2>2, <3>2, <3>3, <3>4 DEF Quiet
    <3> QED BY <2>2, <2>5, <2>6, <3>4 DEF SlotBehind, RequiresApplication, LogPositions, EntryAt
  <2>9. SlotsGrow
    BY <2>1, <2>2, <2>5, <2>6 DEF SlotsGrow
  <2> QED BY <1>1, <2>6, <2>7, <2>8, <2>9
<1>3. CASE deciderSlots' = deciderSlots
  BY <1>1, <1>3 DEF SlotsGrow
<1> QED BY <1>2, <1>3, DeciderWriters

(* The entry that settles an intention is an intention or a vote.          *)
LEMMA SettlesEntry ==
    ASSUME NEW q, NEW x, NEW e, Settles(q, x, e)
    PROVE  EntryAt(q).type \in {"Intention", "Vote"}
BY DEF Settles, IsIntention, DecidingVotes

(* What a write of the checkpoint covers: of intentions and votes, only    *)
(* the entry whose outputs the writer has appended.                        *)
LEMMA NewlyCheckpointed ==
    ASSUME DecisionInv, Next, NEW r, r \in LogPositions', engineSlot.position < r,
           r <= engineSlot'.position, EntryAt(r)'.type \in {"Intention", "Vote"}
    PROVE  \E d \in Drives : /\ pc[d] = "append" /\ ctx[d].out = <<>> /\ r = ctx[d].pos
                             /\ log' = log /\ replay' = replay /\ deciderSlots' = deciderSlots
<1>0. ReplayInv /\ engineSlot.position \in Int /\ Len(log) \in Nat
  BY DecisionBase
<1>1. ASSUME NEW c \in Calls, CreateSave(c)
      PROVE  FALSE
  <2>1. EntryAt(0) = InitialBatch(ctx[c].version) /\ log' = log
    BY <1>0, <1>1 DEF ReplayInv, CallValid, CreateSave
  <2>2. engineSlot' = engineSlot \/ (engineSlot'.position = 0 /\ engineSlot.position = -1)
    BY <1>1 DEF CreateSave, CasAccepts
  <2>3. r \in Nat
    BY <1>0, <2>1 DEF LogPositions
  <2>4. r = 0
    BY <1>0, <2>2, <2>3
  <2> QED BY <2>1, <2>4 DEF EntryAt, InitialBatch, Plan
<1>2. ASSUME NEW d \in Drives, SaveCheckpoint(d)
      PROVE  /\ pc[d] = "append" /\ ctx[d].out = <<>> /\ r = ctx[d].pos
             /\ log' = log /\ replay' = replay /\ deciderSlots' = deciderSlots
  <2>1. /\ pc[d] = "append" /\ ctx[d].out = <<>> /\ log' = log /\ replay' = replay
        /\ deciderSlots' = deciderSlots
        /\ engineSlot'.position = ctx[d].pos /\ ctx[d].snap.position = engineSlot.position
    BY <1>2 DEF SaveCheckpoint, Saving, Unapplied, CasAccepts
  <2>2. Quiet(engineSlot.position + 1, ctx[d].pos) /\ ctx[d].pos \in LogPositions
    BY <1>0, <2>1, WritesInForce
  <2>3. ~ IsDecision(EntryAt(r))
    BY <2>1 DEF EntryAt, IsDecision
  <2>4. r \in Nat /\ ctx[d].pos \in Nat
    BY <1>0, <2>1, <2>2 DEF LogPositions
  <2>5. ~ (r \in (engineSlot.position + 1) .. (ctx[d].pos - 1))
    BY <2>2, <2>3 DEF Quiet
  <2>6. r = ctx[d].pos
    BY <1>0, <2>1, <2>4, <2>5
  <2> QED BY <2>1, <2>6
<1>3. engineSlot' # engineSlot
  BY <1>0 DEF LogPositions
<1> QED BY <1>1, <1>2, <1>3, SlotWriters

(* Slots stay ahead of the checkpoint.                                     *)
LEMMA CoverStep ==
    ASSUME DecisionInv, Next, Extends, SlotsGrow, TypeInv'
    PROVE  SlotsCover'
<1>0. /\ TypeInv /\ ReplayInv /\ Len(log) \in Nat /\ LogPositions = 0 .. (Len(log) - 1)
      /\ engineSlot.position \in Int /\ engineSlot.position < Len(log)
      /\ \A id \in Positions : deciderSlots[id].position \in Int
      /\ \A id \in Positions : deciderSlots'[id].position \in Int
      /\ Len(log') \in Nat
  <2>1. \A id \in Positions : deciderSlots'[id] \in DeciderSlot
    BY DEF TypeInv, TypeOK
  <2> QED BY <2>1, DecisionBase, MaxLogAssumption DEF Extends, DeciderSlot, Positions
<1> SUFFICES ASSUME NEW r \in LogPositions', Consults(r)', r <= engineSlot'.position
             PROVE  r <= SlotOf(r)'.position
  BY DEF SlotsCover
<1>1. ASSUME r \in LogPositions, r <= SlotOf(r).position, Consults(r)
      PROVE  r <= SlotOf(r)'.position
  <2>1. StateAt(r)' = StateAt(r) /\ r \in 0 .. Len(log)
    BY <1>0, <1>1, EntryKept
  <2>2. PICK id \in Positions : id = StateAt(r).decider.id
    BY <1>0, <1>1, <2>1, ConsultsMeans, AtTypes
  <2>3. r <= deciderSlots'[id].position
    BY <1>0, <1>1, <2>2 DEF SlotOf, SlotsGrow
  <2> QED BY <2>1, <2>2, <2>3 DEF SlotOf
<1>2. CASE r <= engineSlot.position
  <2>1. r \in LogPositions
    BY <1>0, <1>2 DEF LogPositions
  <2>2. Consults(r)
    BY <1>0, <2>1, EntryKept
  <2>3. r <= SlotOf(r).position
    BY <1>2, <2>1, <2>2 DEF DecisionInv, SlotsCover
  <2> QED BY <1>1, <2>1, <2>2, <2>3
<1>3. CASE r > engineSlot.position
  <2>1. EntryAt(r)'.type \in {"Intention", "Vote"}
    BY DEF Consults, ConsultsSlot
  <2>2. PICK d \in Drives : /\ pc[d] = "append" /\ r = ctx[d].pos
                            /\ log' = log /\ replay' = replay /\ deciderSlots' = deciderSlots
    BY <1>0, <1>3, <2>1, NewlyCheckpointed
  <2>3. CallDecides(d) /\ r \in LogPositions /\ Consults(r)
    BY <2>2 DEF DecisionInv, Calls, LogPositions, Consults, StateAt, EntryAt
  <2>4. r <= SlotOf(r).position
    BY <2>2, <2>3 DEF CallDecides, SlotDone
  <2> QED BY <1>1, <2>3, <2>4
<1> QED BY <1>0, <1>2, <1>3 DEF LogPositions

(* What the checkpoint has passed is decided.                              *)
LEMMA VerdictsStep ==
    ASSUME DecisionInv, Next, Extends, TypeInv', NEW q \in LogPositions', q <= engineSlot'.position
    PROVE  SettledLogged(q)'
<1>0. /\ TypeInv /\ Len(log) \in Nat /\ LogPositions = 0 .. (Len(log) - 1)
      /\ engineSlot.position \in Int /\ engineSlot.position < Len(log) /\ Len(log') \in Nat
  BY DecisionBase DEF Extends
<1> SUFFICES ASSUME NEW x \in LogPositions', NEW e \in DecisionEntry, Settles(q, x, e)'
             PROVE  Logged(e)'
  BY DEF SettledLogged
<1>1. CASE q <= engineSlot.position
  <2>1. q \in LogPositions
    BY <1>0, <1>1 DEF LogPositions
  <2>2. x \in LogPositions /\ Settles(q, x, e)
    BY <1>0, <2>1, SettlesOld
  <2>3. Logged(e)
    BY <1>1, <2>1, <2>2 DEF DecisionInv, SettledLogged
  <2> QED BY <1>0, <2>3, LoggedKept
<1>2. CASE q > engineSlot.position
  <2>1. EntryAt(q)'.type \in {"Intention", "Vote"}
    BY DEF Settles, IsIntention, DecidingVotes
  <2>2. PICK d \in Drives : /\ pc[d] = "append" /\ ctx[d].out = <<>> /\ q = ctx[d].pos
                            /\ log' = log /\ replay' = replay
    BY <1>0, <1>2, <2>1, NewlyCheckpointed
  <2>3. q \in LogPositions
    BY <2>2 DEF LogPositions
  <2>4. x \in LogPositions /\ Settles(q, x, e)
    BY <1>0, <2>3, SettlesOld
  <2>5. Logged(e)
    <3>1. Outputs(ctx[d].pos, ctx[d].out) /\ Len(ctx[d].out) = 0
      BY <2>2 DEF DecisionInv, CallDecides, Calls
    <3> QED BY <2>2, <2>4, <3>1 DEF Outputs
  <2> QED BY <1>0, <2>5, LoggedKept
<1> QED BY <1>0, <1>1, <1>2 DEF LogPositions

(* The verdicts for an intention are what the entries of the log settle.   *)
LEMMA VerdictsAre ==
    ASSUME NEW p
    PROVE  /\ \A q, e : Settles(q, p, e) => <<q, e>> \in Verdicts(p)
           /\ \A v \in Verdicts(p) : v = <<v[1], v[2]>> /\ Settles(v[1], p, v[2])
<1>1. CASE ~ IsIntention(p)
  BY <1>1 DEF Verdicts, Settles
<1>2. CASE IsIntention(p) /\ Refused(p)
  <2> DEFINE D == Decision(p, FALSE, "constraint")
  <2>1. Verdicts(p) = {<<p, D>>}
    BY <1>2 DEF Verdicts, Refused
  <2>2. \A q, e : Settles(q, p, e) <=> q = p /\ e = D
    BY <1>2 DEF Settles
  <2> HIDE DEF D
  <2> QED BY <2>1, <2>2
<1>3. CASE IsIntention(p) /\ ~ Refused(p) /\ Voted(p)
  <2> DEFINE D(q) == Decision(p, EntryAt(q).vote = "true", "vote")
  <2>3. Verdicts(p) = {<<q, D(q)>> : q \in DecidingVotes(p)}
    BY <1>3 DEF Verdicts, Refused, Voted
  <2>4. \A q, e : Settles(q, p, e) <=> q \in DecidingVotes(p) /\ e = D(q)
    BY <1>3 DEF Settles
  <2> HIDE DEF D
  <2>5. ASSUME NEW v \in Verdicts(p)
        PROVE  v = <<v[1], v[2]>> /\ Settles(v[1], p, v[2])
    <3>1. PICK q \in DecidingVotes(p) : v = <<q, D(q)>>
      BY <2>3
    <3> QED BY <2>4, <3>1
  <2> QED BY <2>3, <2>4, <2>5
<1>4. CASE IsIntention(p) /\ ~ Refused(p) /\ ~ Voted(p)
  <2> DEFINE D == Decision(p, StateAt(p).decider.policy = "OnByDefault", "default")
  <2>1. Verdicts(p) = {<<p, D>>}
    BY <1>4 DEF Verdicts, Refused, Voted
  <2>2. \A q, e : Settles(q, p, e) <=> q = p /\ e = D
    BY <1>4 DEF Settles
  <2> HIDE DEF D
  <2> QED BY <2>1, <2>2
<1> QED BY <1>1, <1>2, <1>3, <1>4

(* The decision at i follows from the log before it.                       *)
Sound(i) ==
    LET p == EntryAt(i).intention IN
    IsDecision(EntryAt(i)) =>
        IF EntryAt(i).reason = "drained"
          THEN IsIntention(p) /\ p < i /\ ~ Refused(p) /\ Voted(p)
          ELSE \E q : q < i /\ Settles(q, p, EntryAt(i))

AllSound == \A i \in LogPositions : Sound(i)

LEMMA FollowsIff == DecisionsFollowLog <=> AllSound
<1>1. ASSUME NEW i, NEW p, NEW e
      PROVE  (\E v \in Verdicts(p) : v[1] < i /\ v[2] = e) <=> \E q : q < i /\ Settles(q, p, e)
  <2>1. ASSUME NEW v \in Verdicts(p), v[1] < i, v[2] = e
        PROVE  \E q : q < i /\ Settles(q, p, e)
    BY <2>1, VerdictsAre
  <2>2. ASSUME NEW q, q < i, Settles(q, p, e)
        PROVE  \E v \in Verdicts(p) : v[1] < i /\ v[2] = e
    <3>1. <<q, e>> \in Verdicts(p)
      BY <2>2, VerdictsAre
    <3> QED BY <2>2, <3>1
  <2> QED BY <2>1, <2>2
<1> QED BY <1>1 DEF DecisionsFollowLog, AllSound, Sound, Refused, Voted

LEMMA FollowsIffNext == DecisionsFollowLog' <=> AllSound'
BY FollowsIff, PTL

(* A sound decision stays sound, and concerns an earlier intention.        *)
LEMMA SoundKept ==
    ASSUME TypeInv, Extends, NEW i \in LogPositions, Sound(i)
    PROVE  Sound(i)' /\ (IsDecision(EntryAt(i)) => EntryAt(i).intention < i)
<1>0. Len(log) \in Nat /\ LogPositions = 0 .. (Len(log) - 1) /\ EntryAt(i)' = EntryAt(i)
  BY EntryKept DEF TypeInv, TypeOK, LogPositions
<1> SUFFICES ASSUME IsDecision(EntryAt(i))
             PROVE  Sound(i)' /\ EntryAt(i).intention < i
  BY <1>0 DEF Sound, IsDecision
<1> PICK p : p = EntryAt(i).intention
  OBVIOUS
<1>1. CASE EntryAt(i).reason = "drained"
  <2>1. IsIntention(p) /\ p < i /\ ~ Refused(p) /\ Voted(p)
    BY <1>1 DEF Sound
  <2>2. p \in LogPositions
    BY <2>1 DEF IsIntention
  <2>3. IsIntention(p)' /\ ~ Refused(p)' /\ Voted(p)'
    BY <2>1, <2>2, EntryKept
  <2> QED BY <1>0, <1>1, <2>1, <2>3 DEF Sound
<1>2. CASE EntryAt(i).reason # "drained"
  <2>1. PICK q : q < i /\ Settles(q, p, EntryAt(i))
    BY <1>2 DEF Sound
  <2>2. q \in LogPositions /\ p \in LogPositions /\ p <= q
    BY <1>0, <2>1, SettlesLate
  <2>3. Settles(q, p, EntryAt(i))'
    <3>1. PICK e : e = EntryAt(i)
      OBVIOUS
    <3>2. Settles(q, p, e)'
      BY <2>1, <2>2, <3>1, SettlesKept
    <3> QED BY <1>0, <3>1, <3>2 DEF Settles
  <2>4. p < i
    BY <1>0, <2>1, <2>2
  <2> QED BY <1>0, <1>2, <2>1, <2>3, <2>4 DEF Sound
<1> QED BY <1>1, <1>2

(* Every decision a step appends is sound.                                 *)
LEMMA DecisionsStep ==
    ASSUME DecisionInv, Next, Extends
    PROVE  DecisionsFollowLog'
<1>0. /\ TypeInv /\ ReplayInv /\ StatesFaithful /\ Len(log) \in Nat
      /\ LogPositions = 0 .. (Len(log) - 1)
      /\ \A i \in LogPositions : Sound(i)
  BY DecisionBase, FollowsIff DEF DecisionInv, AllSound
<1>1. \A i \in LogPositions : Sound(i)'
  BY <1>0, SoundKept
<1>2. CASE UNCHANGED <<log, replay>>
  BY <1>1, <1>2, FollowsIffNext DEF LogPositions, AllSound
<1>3. ASSUME NEW e \in Entry, AppendEntry(e), Appended(e)
      PROVE  \A i \in LogPositions' : Sound(i)'
  <2>1. PICK n \in Nat : n = Len(log)
    BY <1>0
  <2>2. Len(log') = n + 1 /\ EntryAt(n)' = e
    BY <1>0, <1>3, <2>1, NewEntry
  <2>3. Sound(n)'
    <3> SUFFICES ASSUME IsDecision(e)
                 PROVE  Sound(n)'
      BY <2>2 DEF Sound, IsDecision
    <3>1. ASSUME NEW d \in Drives, pc[d] = "force", e = Decision(ctx[d].prop, FALSE, "drained")
          PROVE  Sound(n)'
      <4>1. PICK p : p = ctx[d].prop
        OBVIOUS
      <4>2. IsIntention(p) /\ ~ Refused(p) /\ Voted(p)
        BY <3>1, <4>1 DEF DecisionInv, CallDecides, Undecided, Playing, Calls
      <4>3. p \in LogPositions /\ p < n
        BY <1>0, <2>1, <4>2 DEF IsIntention
      <4>4. IsIntention(p)' /\ ~ Refused(p)' /\ Voted(p)'
        BY <1>0, <4>2, <4>3, EntryKept
      <4>5. e.reason = "drained" /\ e.intention = p
        BY <3>1, <4>1 DEF Decision
      <4> QED BY <2>2, <4>3, <4>4, <4>5 DEF Sound
    <3>2. ASSUME NEW d \in Drives, pc[d] = "append", ctx[d].out # <<>>, e = Head(ctx[d].out)
          PROVE  Sound(n)'
      <4>1. DriveFacts(d) /\ Outputs(ctx[d].pos, ctx[d].out)
        BY <1>0, <3>2, DriveLocals DEF DecisionInv, CallDecides, Calls
      <4>2. ctx[d].out \in Seq(VoteEntry \cup DecisionEntry)
        BY <4>1 DEF DriveFacts, Context
      <4>3. 1 \in 1 .. Len(ctx[d].out) /\ e = ctx[d].out[1]
        BY <3>2, <4>2
      <4>4. PICK q : q = ctx[d].pos
        OBVIOUS
      <4>5. Settles(q, e.intention, e)
        BY <4>1, <4>3, <4>4 DEF Outputs
      <4>6. /\ q \in LogPositions /\ e.intention \in LogPositions
            /\ e.reason \in {"constraint", "default", "vote"}
        BY <1>0, <4>5, SettlesLate
      <4>7. Settles(q, e.intention, e)'
        BY <1>0, <4>5, <4>6, SettlesKept
      <4>8. q < n
        BY <1>0, <2>1, <4>6
      <4>9. Settles(q, EntryAt(n).intention, EntryAt(n))'
        BY <2>2, <4>7 DEF Settles
      <4> QED BY <2>2, <4>6, <4>8, <4>9 DEF Sound
    <3>3. e.type \notin {"Intention", "Vote", "Legacy", "PolicyBatch"}
      BY DEF IsDecision
    <3> QED BY <1>3, <3>1, <3>2, <3>3 DEF Appended
  <2> QED BY <1>0, <1>1, <2>1, <2>2, <2>3 DEF LogPositions
<1>4. \A i \in LogPositions' : Sound(i)'
  BY <1>0, <1>1, <1>2, <1>3, StepAppends DEF LogPositions
<1> QED BY <1>4, FollowsIffNext DEF AllSound
-----------------------------------------------------------------------------
(* What a call knows stays true while others move.                         *)

LEMMA SaveReadyKept ==
    ASSUME DecisionInv, Extends, SlotsGrow, NEW p \in LogPositions, NEW s \in DeciderSlot,
           SaveReady(p, s), \A id \in Positions : deciderSlots'[id].position \in Int
    PROVE  SaveReady(p, s)'
<1>0. /\ TypeInv /\ Len(log) \in Nat /\ LogPositions = 0 .. (Len(log) - 1) /\ p \in Nat
      /\ \A id \in Positions : deciderSlots[id].position \in Int
      /\ s.position \in Int
  BY DecisionBase, MaxLogAssumption DEF DeciderSlot, Positions
<1>1. Consults(p)' /\ Consults(p) /\ StateAt(p)' = StateAt(p) /\ p \in 0 .. Len(log)
  BY <1>0, EntryKept DEF SaveReady
<1>2. PICK id \in Positions : id = StateAt(p).decider.id
  BY <1>0, <1>1, ConsultsMeans, AtTypes
<1>3. SlotOf(p) = deciderSlots[id] /\ SlotOf(p)' = deciderSlots'[id]
  BY <1>1, <1>2 DEF SlotOf
<1>4. /\ s.position <= deciderSlots'[id].position
      /\ s.position = deciderSlots'[id].position => s = deciderSlots'[id]
  BY <1>0, <1>2, <1>3 DEF SaveReady, SlotsGrow
<1>5. ASSUME NEW r \in LogPositions', r < p, Consults(r)',
             StateAt(r)'.decider.id = StateAt(p)'.decider.id
      PROVE  r <= s.position
  <2>1. r \in LogPositions
    BY <1>0, <1>5 DEF LogPositions, Extends
  <2>2. Consults(r) /\ StateAt(r)' = StateAt(r)
    BY <1>0, <1>5, <2>1, EntryKept
  <2> QED BY <1>1, <1>5, <2>1, <2>2 DEF SaveReady
<1> QED BY <1>1, <1>3, <1>4, <1>5 DEF SaveReady

LEMMA SlotDoneKept ==
    ASSUME DecisionInv, Extends, SlotsGrow, NEW p \in LogPositions, SlotDone(p),
           \A id \in Positions : deciderSlots'[id].position \in Int
    PROVE  SlotDone(p)'
<1>0. TypeInv /\ Len(log) \in Nat /\ LogPositions = 0 .. (Len(log) - 1) /\ p \in Nat
      /\ \A id \in Positions : deciderSlots[id].position \in Int
  BY DecisionBase
<1> SUFFICES ASSUME Consults(p)'
             PROVE  p <= SlotOf(p)'.position
  BY DEF SlotDone
<1>1. Consults(p) /\ StateAt(p)' = StateAt(p) /\ p \in 0 .. Len(log)
  BY <1>0, EntryKept
<1>2. PICK id \in Positions : id = StateAt(p).decider.id
  BY <1>0, <1>1, ConsultsMeans, AtTypes
<1>3. SlotOf(p) = deciderSlots[id] /\ SlotOf(p)' = deciderSlots'[id]
  BY <1>1, <1>2 DEF SlotOf
<1> QED BY <1>0, <1>1, <1>2, <1>3 DEF SlotDone, SlotsGrow

LEMMA OutputsKept ==
    ASSUME TypeInv, Extends, NEW p \in LogPositions, NEW out, Outputs(p, out)
    PROVE  Outputs(p, out)'
<1>1. ASSUME NEW k \in 1 .. Len(out), IsDecision(out[k])
      PROVE  Settles(p, out[k].intention, out[k])'
  <2>1. PICK x, e : x = out[k].intention /\ e = out[k]
    OBVIOUS
  <2>2. Settles(p, x, e)
    BY <1>1, <2>1 DEF Outputs
  <2>3. x \in LogPositions
    BY <2>2 DEF Settles, IsIntention
  <2>4. Settles(p, x, e)'
    BY <2>2, <2>3, SettlesKept
  <2> QED BY <2>1, <2>4
<1>2. ASSUME NEW x \in LogPositions', NEW e \in DecisionEntry, Settles(p, x, e)'
      PROVE  Logged(e)' \/ \E k \in 1 .. Len(out) : out[k] = e
  <2>1. x \in LogPositions /\ Settles(p, x, e)
    BY <1>2, SettlesOld
  <2>2. Logged(e) \/ \E k \in 1 .. Len(out) : out[k] = e
    BY <2>1 DEF Outputs
  <2> QED BY <2>2, LoggedKept
<1> QED BY <1>1, <1>2 DEF Outputs, IsDecision

LEMMA UndecidedKept ==
    ASSUME TypeInv, Extends, NEW x, NEW p \in Nat, p <= Len(log), Undecided(x, p)
    PROVE  Undecided(x, p)'
<1>0. Len(log) \in Nat /\ LogPositions = 0 .. (Len(log) - 1) /\ x \in LogPositions
  BY DEF TypeInv, TypeOK, LogPositions, Undecided, IsIntention
<1>1. IsIntention(x)'
  BY <1>0, EntryKept DEF Undecided
<1>2. ASSUME NEW i \in DecisionsFor(x)'
      PROVE  p <= i
  <2>1. i \in LogPositions' /\ IsDecision(EntryAt(i)') /\ EntryAt(i)'.intention = x /\ i \in Nat
    BY DEF DecisionsFor, LogPositions, IsDecision, Extends
  <2>2. CASE i < Len(log)
    <3>1. i \in LogPositions
      BY <1>0, <2>1, <2>2
    <3>2. i \in DecisionsFor(x)
      BY <2>1, <3>1, EntryKept DEF DecisionsFor
    <3> QED BY <3>2 DEF Undecided
  <2> QED BY <1>0, <2>1, <2>2
<1> QED BY <1>1, <1>2 DEF Undecided

LEMMA AnsweredKept ==
    ASSUME TypeInv, Extends, NEW x, NEW p, NEW result, Answered(x, p, result)
    PROVE  Answered(x, p, result)'
<1>0. Len(log) \in Nat /\ LogPositions = 0 .. (Len(log) - 1) /\ p \in LogPositions
  BY DEF TypeInv, TypeOK, LogPositions, Answered, DecisionsFor
<1>1. EntryAt(p)' = EntryAt(p) /\ p \in LogPositions'
  BY <1>0, EntryKept
<1>2. p \in DecisionsFor(x)' /\ EntryAt(p)'.type = result
  BY <1>1 DEF Answered, DecisionsFor, IsDecision
<1>3. ASSUME NEW i \in DecisionsFor(x)'
      PROVE  p <= i
  <2>1. i \in LogPositions' /\ IsDecision(EntryAt(i)') /\ EntryAt(i)'.intention = x /\ i \in Nat
    BY DEF DecisionsFor, LogPositions, IsDecision, Extends
  <2>2. CASE i < Len(log)
    <3>1. i \in LogPositions
      BY <1>0, <2>1, <2>2
    <3>2. i \in DecisionsFor(x)
      BY <2>1, <3>1, EntryKept DEF DecisionsFor
    <3> QED BY <3>2 DEF Answered
  <2> QED BY <1>0, <2>1, <2>2
<1> QED BY <1>2, <1>3 DEF Answered
(* Where a call lands.                                                     *)
LEMMA Lands ==
    ASSUME NEW c, NEW step, step = pc'[c], NEW p, p = ctx'[c].pos, NEW x, x = ctx'[c].prop
    PROVE  /\ step \notin Playing \cup Outcomes => CallDecides(c)'
           /\ step \in {"scan", "reload"} /\ Undecided(x, p)' => CallDecides(c)'
           /\ step = "force" /\ Undecided(x, p)' /\ ~ Refused(x)' /\ Voted(x)' => CallDecides(c)'
           /\ step \in Outcomes /\ Answered(x, p, step)' => CallDecides(c)'
           /\ /\ step = "save" /\ Undecided(x, p)' /\ RequiresApplication(EntryAt(p))'
              /\ \E s : s = ctx'[c].decider /\ SaveReady(p, s)'
              => CallDecides(c)'
           /\ /\ step = "append" /\ Undecided(x, p)' /\ RequiresApplication(EntryAt(p))'
              /\ SlotDone(p)'
              /\ \E out : out = ctx'[c].out /\ Outputs(p, out)'
              => CallDecides(c)'
BY DEF CallDecides, Playing, Outcomes, EntryAt, RequiresApplication, IsDecision
(* A call that does not move keeps what it knows.                          *)
LEMMA CallKept ==
    ASSUME DecisionInv, Extends, SlotsGrow, TypeInv', NEW c \in Calls,
           pc'[c] = pc[c], ctx'[c] = ctx[c]
    PROVE  CallDecides(c)'
<1>0. /\ TypeInv /\ Len(log) \in Nat /\ LogPositions = 0 .. (Len(log) - 1) /\ CallDecides(c)
      /\ \A id \in Positions : deciderSlots'[id].position \in Int
  <2>1. \A id \in Positions : deciderSlots'[id] \in DeciderSlot
    BY DEF TypeInv, TypeOK
  <2> QED BY <2>1, DecisionBase, MaxLogAssumption DEF DecisionInv, DeciderSlot, Positions
<1>1. PICK p, x, step, s, out : /\ p = ctx[c].pos /\ x = ctx[c].prop /\ step = pc[c]
                                /\ s = ctx[c].decider /\ out = ctx[c].out
  OBVIOUS
<1>2. /\ ctx[c] \in Context /\ p \in Nat /\ p <= Len(log) /\ s \in DeciderSlot
      /\ step \in {"save", "append"} => p \in LogPositions
  <2>1. ctx[c] \in Context /\ p <= Len(log) /\ (step \in {"save", "append"} => p < Len(log))
    BY <1>0, <1>1 DEF TypeInv, TypeOK, CallBounds
  <2>2. p \in Cursor /\ s \in DeciderSlot
    BY <1>1, <2>1 DEF Context
  <2>3. p \in Nat
    BY <2>2, MaxLogAssumption DEF Cursor, Positions
  <2> QED BY <1>0, <2>1, <2>2, <2>3
<1>3. step \in Playing => Undecided(x, p)'
  BY <1>0, <1>1, <1>2, UndecidedKept DEF CallDecides
<1>4. CASE step \notin Playing \cup Outcomes
  BY <1>1, <1>4, Lands
<1>5. CASE step \in Outcomes
  <2>1. Answered(x, p, step)'
    BY <1>0, <1>1, <1>5, AnsweredKept DEF CallDecides
  <2> QED BY <1>1, <1>5, <2>1, Lands
<1>6. CASE step \in {"scan", "reload"}
  BY <1>1, <1>3, <1>6, Lands DEF Playing
<1>7. CASE step = "force"
  <2>1. x \in LogPositions /\ ~ Refused(x) /\ Voted(x)
    BY <1>0, <1>1, <1>7 DEF CallDecides, Undecided, IsIntention, Playing
  <2>2. ~ Refused(x)' /\ Voted(x)'
    BY <1>0, <2>1, EntryKept
  <2> QED BY <1>1, <1>3, <1>7, <2>2, Lands DEF Playing
<1>8. CASE step = "save"
  <2>1. RequiresApplication(EntryAt(p)) /\ SaveReady(p, s)
    BY <1>0, <1>1, <1>8 DEF CallDecides
  <2>2. SaveReady(p, s)'
    BY <1>0, <1>2, <1>8, <2>1, SaveReadyKept
  <2>3. RequiresApplication(EntryAt(p))'
    BY <1>0, <1>2, <1>8, <2>1, EntryKept DEF RequiresApplication, IsDecision
  <2> QED BY <1>1, <1>3, <1>8, <2>2, <2>3, Lands DEF Playing
<1>9. CASE step = "append"
  <2>1. RequiresApplication(EntryAt(p)) /\ SlotDone(p) /\ Outputs(p, out)
    BY <1>0, <1>1, <1>9 DEF CallDecides
  <2>2. SlotDone(p)' /\ Outputs(p, out)'
    BY <1>0, <1>2, <1>9, <2>1, SlotDoneKept, OutputsKept
  <2>3. RequiresApplication(EntryAt(p))'
    BY <1>0, <1>2, <1>9, <2>1, EntryKept DEF RequiresApplication, IsDecision
  <2> QED BY <1>1, <1>3, <1>9, <2>2, <2>3, Lands DEF Playing
<1> QED BY <1>4, <1>5, <1>6, <1>7, <1>8, <1>9 DEF Playing

-----------------------------------------------------------------------------
(* What a call learns by its own step.                                     *)

(* A drive passes over no decision for its intention.                      *)
LEMMA UndecidedJump ==
    ASSUME TypeInv, NEW d \in Drives, NEW x, x = ctx[d].prop, Undecided(x, ctx[d].pos),
           NEW m \in Nat, m \in ctx[d].pos .. Consumed(d), \A j \in Attention(d) : m <= j
    PROVE  Undecided(x, m)
<1>0. DriveFacts(d)
  BY DriveLocals
<1>1. ASSUME NEW i \in DecisionsFor(x)
      PROVE  m <= i
  <2>1. /\ i \in Nat /\ ctx[d].pos <= i /\ IsDecision(EntryAt(i)) /\ EntryAt(i).intention = x
    BY <1>0, <1>1 DEF DecisionsFor, LogPositions, Undecided, DriveFacts
  <2>2. CASE i <= ctx[d].known
    <3>1. i \in Attention(d)
      BY <1>0, <2>1, <2>2 DEF Attention, DriveFacts
    <3> QED BY <3>1
  <2>3. CASE i > ctx[d].known
    BY <1>0, <2>1, <2>3 DEF Consumed, Larger, DriveFacts
  <2> QED BY <1>0, <2>1, <2>2, <2>3 DEF DriveFacts
<1> QED BY <1>1 DEF Undecided

(* What a drive that reaches entry i knows of it.                          *)
LEMMA ReachedEntry ==
    ASSUME DecisionInv, NEW d \in Drives, NEW i \in Attention(d), Reaches(d, i)
    PROVE  /\ i \in LogPositions /\ i \in Positions /\ i \in Nat
           /\ Undecided(ctx[d].prop, i)
           /\ IsDecision(EntryAt(i)) => EntryAt(i).intention = ctx[d].prop
           /\ RequiresApplication(EntryAt(i)) =>
                /\ ctx[d].snap.position < i /\ ctx[d].snap.state = StateAt(i)
                /\ Quiet(ctx[d].snap.position + 1, i)
<1>0. TypeInv /\ ReplayInv /\ DriveFacts(d) /\ d \in Calls /\ CallDecides(d) /\ CallValid(d)
  BY DecisionBase, DriveLocals DEF DecisionInv, Calls, ReplayInv
<1>1. /\ i \in Positions /\ i < Len(log) /\ ctx[d].pos <= i /\ i <= ctx[d].known
  BY <1>0, AttentionBounds
<1>2. i \in LogPositions /\ i \in Nat /\ i \in ctx[d].pos .. Consumed(d)
  BY <1>0, <1>1, MaxLogAssumption DEF LogPositions, Positions, Consumed, Larger, DriveFacts
<1>3. pc[d] = "scan" /\ \A j \in Attention(d) : i <= j
  BY DEF Reaches
<1>4. Undecided(ctx[d].prop, i)
  BY <1>0, <1>2, <1>3, UndecidedJump DEF CallDecides, Playing
<1>5. IsDecision(EntryAt(i)) => EntryAt(i).intention = ctx[d].prop
  BY DEF Attention, RequiresApplication
<1>6. ASSUME RequiresApplication(EntryAt(i))
      PROVE  /\ ctx[d].snap.position < i /\ ctx[d].snap.state = StateAt(i)
             /\ Quiet(ctx[d].snap.position + 1, i)
  <2>1. ctx[d].snap.position < i
    BY <1>0, <1>2, <1>6 DEF Attention, RequiresApplication, DriveFacts
  <2>2. Quiet(ctx[d].snap.position + 1, ctx[d].pos)
    BY <1>0, <1>3 DEF CallValid, Playing
  <2>3. Quiet(ctx[d].snap.position + 1, i)
    BY <1>0, <1>2, <1>3, <2>2, QuietJump
  <2>4. ctx[d].snap.state = StateAt(i)
    BY <1>0, <1>2, <2>1, <2>3, StateInForce
  <2> QED BY <2>1, <2>3, <2>4
<1> QED BY <1>1, <1>2, <1>4, <1>5, <1>6
(* Voters answer with votes only.                                          *)
LEMMA VotersVote ==
    ASSUME NEW st \in EngineState, NEW e, NEW p \in Positions,
           NEW votes \in VoterOutputs(st, e, p)
    PROVE  votes \in Seq(VoteEntry)
<1> DEFINE n == Cardinality(Installed(st))
<1>1. n \in Nat
  BY VotersAssumption, FS_Subset, FS_CardinalityType DEF Installed
<1>2. ASSUME NEW b \in [1 .. n -> {"true", "false"}]
      PROVE  [i \in 1 .. n |-> Vote(p, b[i])] \in Seq(VoteEntry)
  <2>1. \A i \in 1 .. n : Vote(p, b[i]) \in VoteEntry
    BY <1>2 DEF Vote, VoteEntry
  <2> HIDE DEF n
  <2> QED BY <1>1, <2>1
<1>3. CASE e.type = "Intention" /\ e.kind = "string"
  <2>1. PICK b \in [1 .. n -> {"true", "false"}] :
               votes = [i \in 1 .. n |-> Vote(p, b[i])]
    BY <1>3 DEF VoterOutputs
  <2>2. [i \in 1 .. n |-> Vote(p, b[i])] \in Seq(VoteEntry)
    BY <1>2
  <2> QED BY ONLY <2>1, <2>2
<1>4. CASE ~ (e.type = "Intention" /\ e.kind = "string")
  <2>1. votes = <<>>
    BY <1>4, Zenon DEF VoterOutputs
  <2> QED BY ONLY <2>1
<1> QED BY <1>3, <1>4

(* Votes after the decision change nothing.                                *)
LEMMA WithVotes ==
    ASSUME NEW p, NEW decision \in Seq(DecisionEntry), NEW votes \in Seq(VoteEntry),
           Outputs(p, decision)
    PROVE  Outputs(p, decision \o votes)
<1>0. PICK n \in Nat : n = Len(decision)
  OBVIOUS
<1>1. PICK out : n = Len(decision) /\ out = decision \o votes
  BY <1>0
<1>2. /\ Len(out) = n + Len(votes) /\ Len(votes) \in Nat
      /\ \A k \in 1 .. n : k \in 1 .. Len(out) /\ out[k] = decision[k]
      /\ \A k \in 1 .. Len(out) : k > n => out[k] \in VoteEntry
  BY <1>1
<1>3. ASSUME NEW k \in 1 .. Len(out), IsDecision(out[k])
      PROVE  Settles(p, out[k].intention, out[k])
  <2>1. k \in 1 .. n
    BY <1>2, <1>3 DEF VoteEntry, IsDecision
  <2>2. out[k] = decision[k]
    BY <1>2, <2>1
  <2> QED BY <1>1, <1>3, <2>1, <2>2 DEF Outputs
<1>4. ASSUME NEW x \in LogPositions, NEW e \in DecisionEntry, Settles(p, x, e)
      PROVE  Logged(e) \/ \E k \in 1 .. Len(out) : out[k] = e
  BY <1>1, <1>2, <1>4 DEF Outputs
<1>5. Outputs(p, out)
  BY <1>3, <1>4 DEF Outputs
<1> QED BY <1>1, <1>5

(* What the decisions of apply_entry_once are: refused by the constraint,  *)
(* by default, ...                                                         *)
LEMMA RefusedOutput ==
    ASSUME TypeInv, NEW i \in LogPositions, Refused(i)
    PROVE  SlotDone(i) /\ Outputs(i, <<Decision(i, FALSE, "constraint")>>)
<1>0. i \in Positions /\ IsIntention(i)
  BY AtTypes DEF Refused, PolicyConstraintFailure, IsIntention
<1>1. PICK e : e = Decision(i, FALSE, "constraint")
  OBVIOUS
<1>2. e \in DecisionEntry /\ e.intention = i
  BY <1>0, <1>1 DEF Decision, DecisionEntry
<1>3. Settles(i, i, e)
  BY <1>0, <1>1 DEF Settles
<1>4. ASSUME NEW x \in LogPositions, NEW f \in DecisionEntry, Settles(i, x, f)
      PROVE  f = e
  <2>1. i \notin DecidingVotes(x)
    BY <1>0 DEF DecidingVotes, IsIntention
  <2> QED BY <1>1, <1>4, <2>1 DEF Settles
<1>5. Outputs(i, <<e>>)
  BY <1>2, <1>3, <1>4 DEF Outputs
<1>6. SlotDone(i)
  BY ConsultsMeans DEF SlotDone
<1> QED BY <1>1, <1>5, <1>6

LEMMA DefaultOutput ==
    ASSUME TypeInv, NEW i \in LogPositions, ~ Refused(i), ~ Consults(i)
    PROVE  /\ SlotDone(i)
           /\ DefaultDecision(StateAt(i), EntryAt(i), i) \in Seq(DecisionEntry)
           /\ Outputs(i, DefaultDecision(StateAt(i), EntryAt(i), i))
<1>0. i \in Positions /\ i \in 0 .. Len(log) /\ Len(log) \in Nat
  BY AtTypes DEF LogPositions
<1>1. StateAt(i).decider.policy \in DeciderPolicies
  BY <1>0, AtTypes DEF EngineState, DeciderSpec, DeciderPolicies
<1>2. SlotDone(i)
  BY DEF SlotDone
<1>3. ASSUME NEW x, i \in DecidingVotes(x)
      PROVE  FALSE
  <2>1. EntryAt(i).type = "Vote" /\ AwaitsVote(x, i)
    BY <1>3 DEF DecidingVotes
  <2>2. Voted(i)
    BY <2>1 DEF AwaitsVote, Voted
  <2> QED BY <2>1, <2>2, ConsultsWhen
<1>4. CASE IsIntention(i)
  <2>1. ~ Voted(i)
    BY <1>4, ConsultsWhen
  <2> DEFINE e == Decision(i, StateAt(i).decider.policy = "OnByDefault", "default")
  <2>2. DefaultDecision(StateAt(i), EntryAt(i), i) = <<e>>
    BY <1>1, <1>4, <2>1 DEF DefaultDecision, Decision, Voted, IsIntention, DeciderPolicies
  <2>3. e \in DecisionEntry /\ e.intention = i
    BY <1>0 DEF Decision, DecisionEntry
  <2>4. Settles(i, i, e)
    BY <1>4, <2>1 DEF Settles
  <2>5. \A x \in LogPositions : \A f \in DecisionEntry : Settles(i, x, f) => f = e
    BY <1>3 DEF Settles
  <2> HIDE DEF e
  <2> QED BY <1>2, <2>2, <2>3, <2>4, <2>5 DEF Outputs
<1>5. CASE ~ IsIntention(i)
  <2>1. DefaultDecision(StateAt(i), EntryAt(i), i) = <<>>
    BY <1>5 DEF DefaultDecision, IsIntention
  <2>2. \A x \in LogPositions : \A f \in DecisionEntry : ~ Settles(i, x, f)
    BY <1>3, <1>5 DEF Settles
  <2> QED BY <1>2, <2>1, <2>2 DEF Outputs
<1> QED BY <1>4, <1>5

(* ... or by the slot, after its write or when it is read back.            *)
LEMMA SlotOutput ==
    ASSUME TypeInv, DeciderIds, NEW id \in Positions, NEW s \in DeciderSlot, ExactAt(s, id),
           s.position \in LogPositions
    PROVE  s.last \in Seq(DecisionEntry) /\ Outputs(s.position, s.last)
<1>0. PICK q \in LogPositions : q = s.position
  OBVIOUS
<1>1. Consults(q) /\ Voted(q) /\ ~ Refused(q) /\ Len(log) \in Nat
  <2>1. q # -1
    BY AtTypes DEF LogPositions
  <2>2. Consults(q)
    BY <1>0, <2>1 DEF ExactAt
  <2> QED BY <2>2, ConsultsMeans, AtTypes
<1>2. s.last = <<>> \/ \E e \in DecisionEntry : s.last = <<e>>
  BY DEF DeciderSlot
<1>3. ASSUME NEW x \in LogPositions, q \in DecidingVotes(x)
      PROVE  Settles(q, x, Decision(x, EntryAt(q).vote = "true", "vote"))
  <2>1. AwaitsVote(x, q)
    BY <1>3 DEF DecidingVotes
  <2> QED BY <1>3, <2>1 DEF AwaitsVote, Settles, Refused, Voted
<1>4. ASSUME NEW x \in LogPositions, NEW e, Settles(q, x, e)
      PROVE  s.last = <<e>>
  <2>1. q # x \/ (~ Refused(x) /\ Voted(x))
    BY <1>1
  <2>2. q \in DecidingVotes(x) /\ e = Decision(x, EntryAt(q).vote = "true", "vote")
    BY <1>1, <1>4, <2>1 DEF Settles
  <2> QED BY <1>0, <2>2 DEF ExactAt
<1>5. ASSUME NEW e \in DecisionEntry, s.last = <<e>>
      PROVE  Settles(q, e.intention, e)
  <2>1. s.last # <<>>
    BY <1>5
  <2>2. PICK x \in LogPositions : q \in DecidingVotes(x)
    BY <1>0, <2>1 DEF ExactAt
  <2>3. Settles(q, x, Decision(x, EntryAt(q).vote = "true", "vote"))
    BY <1>3, <2>2
  <2>4. s.last = <<Decision(x, EntryAt(q).vote = "true", "vote")>>
    BY <1>0, <2>2 DEF ExactAt
  <2>5. e = Decision(x, EntryAt(q).vote = "true", "vote")
    BY <1>5, <2>4
  <2>6. e.intention = x
    BY <2>5 DEF Decision
  <2> QED BY <2>3, <2>5, <2>6
<1>6. CASE s.last = <<>>
  <2>1. \A x \in LogPositions : \A e \in DecisionEntry : ~ Settles(q, x, e)
    BY <1>4, <1>6
  <2> QED BY <1>0, <1>6, <2>1 DEF Outputs
<1>7. ASSUME NEW e \in DecisionEntry, s.last = <<e>>
      PROVE  s.last \in Seq(DecisionEntry) /\ Outputs(q, s.last)
  <2>1. Settles(q, e.intention, e)
    BY <1>5, <1>7
  <2>2. \A x \in LogPositions : \A f \in DecisionEntry : Settles(q, x, f) => f = e
    BY <1>4, <1>7
  <2> QED BY <1>7, <2>1, <2>2 DEF Outputs
<1> QED BY <1>0, <1>2, <1>6, <1>7
(* A drive that takes entry i's outputs is ready to append them.           *)
LEMMA Produced ==
    ASSUME DecisionInv, TypeInv', Extends, NEW d \in Drives, NEW i \in LogPositions,
           NEW decision \in Seq(DecisionEntry), Produce(d, i, decision),
           ctx[d].snap.state = StateAt(i), Undecided(ctx[d].prop, i),
           RequiresApplication(EntryAt(i)), Outputs(i, decision), SlotDone(i)'
    PROVE  CallDecides(d)'
<1>0. /\ TypeInv /\ DriveFacts(d) /\ i \in Positions /\ i \in Nat /\ i <= Len(log)
  BY DecisionBase, DriveLocals, AtTypes DEF LogPositions
<1> SUFFICES ASSUME Hold(d, i, decision)
             PROVE  CallDecides(d)'
  <2>1. ASSUME Return(d, "Stopped", i)
        PROVE  CallDecides(d)'
    <3>1. pc'[d] = "Stopped"
      BY <1>0, <2>1 DEF Return, DriveFacts
    <3> QED BY <3>1, Lands DEF Playing, Outcomes
  <2> QED BY <2>1 DEF Produce
<1>1. PICK votes \in VoterOutputs(ctx[d].snap.state, EntryAt(i), i) :
        ctx' = [ctx EXCEPT ![d].pos = i, ![d].out = decision \o votes,
                           ![d].decider = EmptyDecider,
                           ![d].retry = Budget(d, i, @), ![d].dretry = FreshRetry]
  BY DEF Hold
<1>2. votes \in Seq(VoteEntry)
  BY <1>0, VotersVote DEF DriveFacts
<1>3. PICK out, x : out = decision \o votes /\ x = ctx[d].prop
  OBVIOUS
<1>4. /\ ctx'[d].pos = i /\ ctx'[d].out = out /\ ctx'[d].prop = x /\ pc'[d] = "append"
  <2>1. pc' = [pc EXCEPT ![d] = "append"]
    BY DEF Hold
  <2> QED BY <1>0, <1>1, <1>3, <2>1 DEF DriveFacts, Context
<1>5. Outputs(i, out)'
  BY <1>0, <1>2, <1>3, WithVotes, OutputsKept
<1>6. Undecided(x, i)'
  BY <1>0, <1>3, UndecidedKept
<1>7. RequiresApplication(EntryAt(i))'
  BY <1>0, EntryKept DEF RequiresApplication, IsDecision
<1> QED BY <1>4, <1>5, <1>6, <1>7, Lands

(* A drive that reads.                                                     *)
LEMMA ReadDecides ==
    ASSUME DecisionInv, TypeInv', Extends, SlotsGrow, NEW d \in Drives,
           ReadOutcome(d) \/ RejectIntention(d) \/ ApplyStateless(d) \/ LoadDecider(d)
    PROVE  CallDecides(d)'
<1>0. /\ TypeInv /\ ReplayInv /\ DriveFacts(d) /\ DeciderIds
      /\ \A id \in Positions : deciderSlots'[id].position \in Int
  <2>1. \A id \in Positions : deciderSlots'[id] \in DeciderSlot
    BY DEF TypeInv, TypeOK
  <2> QED BY <2>1, DecisionBase, DriveLocals, MaxLogAssumption DEF DeciderSlot, Positions
<1>1. PICK i \in Attention(d) :
        /\ Reaches(d, i)
        /\ \/ IsDecision(EntryAt(i)) /\ Return(d, EntryAt(i).type, i)
           \/ /\ PolicyConstraintFailure(ctx[d].snap.state, EntryAt(i))
              /\ ctx' = [ctx EXCEPT ![d].pos = i, ![d].retry = Budget(d, i, @),
                                    ![d].out = <<Decision(i, FALSE, "constraint")>>]
              /\ pc' = [pc EXCEPT ![d] = "append"]
           \/ /\ RequiresApplication(EntryAt(i))
              /\ ~ PolicyConstraintFailure(ctx[d].snap.state, EntryAt(i))
              /\ ~ ConsultsSlot(ctx[d].snap.state, EntryAt(i))
              /\ Produce(d, i, DefaultDecision(ctx[d].snap.state, EntryAt(i), i))
           \/ /\ ConsultsSlot(ctx[d].snap.state, EntryAt(i))
              /\ i > deciderSlots[DeciderId(d)].position
              /\ ctx' = [ctx EXCEPT ![d].pos = i, ![d].decider = deciderSlots[DeciderId(d)],
                                    ![d].retry = Budget(d, i, @)]
              /\ pc' = [pc EXCEPT ![d] = "save"]
           \/ /\ ConsultsSlot(ctx[d].snap.state, EntryAt(i))
              /\ ~ i > deciderSlots[DeciderId(d)].position
              /\ Produce(d, i, Redelivered(deciderSlots[DeciderId(d)], i))
  BY DEF ReadOutcome, RejectIntention, ApplyStateless, LoadDecider
<1>2. PICK x : x = ctx[d].prop
  OBVIOUS
<1>3. /\ i \in LogPositions /\ i \in Positions /\ i \in Nat /\ i <= Len(log)
      /\ Undecided(x, i)
      /\ IsDecision(EntryAt(i)) => EntryAt(i).intention = x
      /\ RequiresApplication(EntryAt(i)) =>
           /\ ctx[d].snap.position < i /\ ctx[d].snap.state = StateAt(i)
           /\ Quiet(ctx[d].snap.position + 1, i)
  BY <1>0, <1>1, <1>2, ReachedEntry DEF LogPositions, DriveFacts
<1>4. Undecided(x, i)'
  BY <1>0, <1>3, UndecidedKept
<1>5. CASE IsDecision(EntryAt(i)) /\ Return(d, EntryAt(i).type, i)
  <2>1. PICK result : result = EntryAt(i).type
    OBVIOUS
  <2>2. i \in DecisionsFor(x)
    BY <1>3, <1>5 DEF DecisionsFor
  <2>3. Answered(x, i, result)
    BY <1>3, <2>1, <2>2 DEF Answered, Undecided
  <2>4. pc'[d] = result /\ ctx'[d].pos = i /\ ctx'[d].prop = x
    BY <1>0, <1>2, <1>5, <2>1 DEF Return, FreshContext, DriveFacts
  <2>5. Answered(x, i, result)'
    BY <1>0, <2>3, AnsweredKept
  <2>6. result \in Outcomes
    BY <1>5, <2>1 DEF IsDecision, Outcomes
  <2> QED BY <2>4, <2>5, <2>6, Lands
<1>6. ASSUME PolicyConstraintFailure(ctx[d].snap.state, EntryAt(i))
      PROVE  RequiresApplication(EntryAt(i)) /\ Refused(i)
  <2>1. RequiresApplication(EntryAt(i))
    BY <1>6 DEF PolicyConstraintFailure, RequiresApplication, IsDecision
  <2> QED BY <1>3, <1>6, <2>1 DEF Refused
<1>7. ASSUME PolicyConstraintFailure(ctx[d].snap.state, EntryAt(i)),
             ctx' = [ctx EXCEPT ![d].pos = i, ![d].retry = Budget(d, i, @),
                                ![d].out = <<Decision(i, FALSE, "constraint")>>],
             pc' = [pc EXCEPT ![d] = "append"]
      PROVE  CallDecides(d)'
  <2>1. PICK out : out = <<Decision(i, FALSE, "constraint")>>
    OBVIOUS
  <2>2. SlotDone(i)' /\ Outputs(i, out)'
    BY <1>0, <1>3, <1>6, <1>7, <2>1, RefusedOutput, OutputsKept, SlotDoneKept
  <2>3. RequiresApplication(EntryAt(i))'
    BY <1>0, <1>3, <1>6, <1>7, EntryKept DEF RequiresApplication, IsDecision
  <2>4. ctx'[d].pos = i /\ ctx'[d].out = out /\ ctx'[d].prop = x /\ pc'[d] = "append"
    BY <1>0, <1>2, <1>7, <2>1 DEF DriveFacts, Context
  <2> QED BY <1>4, <2>2, <2>3, <2>4, Lands
<1>8. ASSUME RequiresApplication(EntryAt(i)),
             ~ PolicyConstraintFailure(ctx[d].snap.state, EntryAt(i)),
             ~ ConsultsSlot(ctx[d].snap.state, EntryAt(i)),
             Produce(d, i, DefaultDecision(ctx[d].snap.state, EntryAt(i), i))
      PROVE  CallDecides(d)'
  <2>1. ctx[d].snap.state = StateAt(i) /\ ~ Refused(i) /\ ~ Consults(i)
    BY <1>3, <1>8 DEF Refused, Consults
  <2>2. PICK decision \in Seq(DecisionEntry) :
          /\ decision = DefaultDecision(StateAt(i), EntryAt(i), i)
          /\ Outputs(i, decision) /\ SlotDone(i)
    BY <1>0, <1>3, <2>1, DefaultOutput
  <2>3. SlotDone(i)'
    BY <1>0, <1>3, <2>2, SlotDoneKept
  <2>4. Produce(d, i, decision)
    BY <1>8, <2>1, <2>2
  <2> QED BY <1>2, <1>3, <1>8, <2>1, <2>2, <2>3, <2>4, Produced
<1>9. ASSUME ConsultsSlot(ctx[d].snap.state, EntryAt(i)), NEW s, s = deciderSlots[DeciderId(d)],
             \/ /\ i > s.position
                /\ ctx' = [ctx EXCEPT ![d].pos = i, ![d].decider = s, ![d].retry = Budget(d, i, @)]
                /\ pc' = [pc EXCEPT ![d] = "save"]
             \/ ~ i > s.position /\ Produce(d, i, Redelivered(s, i))
      PROVE  CallDecides(d)'
  <2>1. RequiresApplication(EntryAt(i))
    BY <1>9 DEF ConsultsSlot, RequiresApplication, IsDecision
  <2>2. /\ ctx[d].snap.position < i /\ ctx[d].snap.state = StateAt(i)
        /\ Quiet(ctx[d].snap.position + 1, i) /\ Consults(i)
    BY <1>3, <1>9, <2>1 DEF Consults
  <2>3. PICK id \in Positions : id = StateAt(i).decider.id
    BY <1>0, <1>3, <2>2, ConsultsMeans, AtTypes DEF LogPositions
  <2>4. /\ s = deciderSlots[id] /\ SlotOf(i) = s /\ s \in DeciderSlot /\ s.position \in Int
        /\ s.position >= -1
        /\ ExactAt(s, id) /\ SlotBehind(id)
    BY <1>9, <2>2, <2>3, DecisionBase DEF DeciderId, SlotOf, SlotExact, DecisionInv
  <2>5. RequiresApplication(EntryAt(i))'
    BY <1>0, <1>3, <2>1, EntryKept DEF RequiresApplication, IsDecision
  <2>6. CASE i > s.position
    <3>1. ctx'[d].pos = i /\ ctx'[d].decider = s /\ ctx'[d].prop = x /\ pc'[d] = "save"
      BY <1>0, <1>2, <1>9, <2>6 DEF DriveFacts, Context
    <3>2. ASSUME NEW r \in LogPositions, r < i, Consults(r),
                 StateAt(r).decider.id = StateAt(i).decider.id
          PROVE  r <= s.position
      <4>1. ~ IsDecision(EntryAt(r)) /\ r \in Nat
        BY <1>0, <3>2, ConsultsMeans DEF RequiresApplication, LogPositions, DriveFacts
      <4>2. r <= ctx[d].snap.position
        BY <1>0, <1>3, <2>2, <3>2, <4>1 DEF Quiet, DriveFacts
      <4>3. ctx[d].snap.position <= engineSlot.position /\ engineSlot.position \in Int
        BY <1>0, DecisionBase DEF ReplayInv, CallValid, SnapshotValid, DriveFacts
      <4>4. r <= engineSlot.position
        BY <1>0, <4>1, <4>2, <4>3 DEF DriveFacts
      <4>5. r <= SlotOf(r).position
        BY <3>2, <4>4 DEF DecisionInv, SlotsCover
      <4> QED BY <2>3, <2>4, <3>2, <4>5 DEF SlotOf
    <3>3. SaveReady(i, s)
      BY <2>2, <2>4, <2>6, <3>2 DEF SaveReady
    <3>4. SaveReady(i, s)'
      BY <1>0, <1>3, <2>4, <3>3, SaveReadyKept
    <3> QED BY <1>4, <2>5, <3>1, <3>4, Lands
  <2>7. CASE ~ i > s.position
    <3>1. SlotDone(i)'
      <4>1. SlotDone(i)
        BY <1>3, <2>4, <2>7 DEF SlotDone
      <4> QED BY <1>0, <1>3, <4>1, SlotDoneKept
    <3>2. PICK decision : decision = Redelivered(s, i)
      OBVIOUS
    <3>3. decision \in Seq(DecisionEntry) /\ Outputs(i, decision)
      <4>1. CASE i = s.position
        BY <1>0, <1>3, <2>4, <3>2, <4>1, SlotOutput DEF Redelivered
      <4>2. CASE i # s.position
        <5>1. i <= engineSlot.position
          BY <1>3, <2>1, <2>4, <2>7, <4>2 DEF SlotBehind
        <5>2. SettledLogged(i)
          BY <1>3, <5>1 DEF DecisionInv
        <5>3. decision = <<>>
          BY <3>2, <4>2 DEF Redelivered
        <5> QED BY <5>2, <5>3 DEF SettledLogged, Outputs
      <4> QED BY <4>1, <4>2
    <3>4. Produce(d, i, decision)
      BY <1>9, <2>7, <3>2
    <3> QED BY <1>2, <1>3, <2>1, <2>2, <3>1, <3>3, <3>4, Produced
  <2> QED BY <2>6, <2>7
<1> QED BY <1>1, <1>5, <1>7, <1>8, <1>9
(* A drive that appends its intention, or has drained the log.             *)
LEMMA AppendDecides ==
    ASSUME DecisionInv, Extends, TypeInv', NEW d \in Drives, AppendIntention(d)
    PROVE  CallDecides(d)'
<1>0. TypeInv /\ DriveFacts(d) /\ LogPositions = 0 .. (Len(log) - 1)
  BY DecisionBase, DriveLocals
<1>1. CASE pc'[d] = "BusDataLoss"
  BY <1>1, Lands DEF Playing, Outcomes
<1>2. CASE pc'[d] # "BusDataLoss"
  <2>1. PICK n \in Nat : n = Len(log)
    BY <1>0 DEF DriveFacts
  <2>2. PICK kind \in Kinds : AppendEntry(Intention(ctx[d].version, kind))
    BY DEF AppendIntention
  <2>3. PICK e \in Entry : e = Intention(ctx[d].version, kind) /\ e.type = "Intention"
    <3>1. Intention(ctx[d].version, kind) \in IntentionEntry
      BY <1>0, CallsAssumption DEF Intention, IntentionEntry, DriveFacts, Context
    <3> QED BY <3>1 DEF Entry, Intention
  <2>4. /\ Len(log') = n + 1 /\ EntryAt(n)' = e
        /\ \A p \in 0 .. (n - 1) : EntryAt(p)' = EntryAt(p)
    BY <1>0, <2>1, <2>2, <2>3, NewEntry
  <2>5. ASSUME NEW p
        PROVE  Undecided(n, p)'
    <3>1. IsIntention(n)'
      BY <2>1, <2>3, <2>4 DEF IsIntention, LogPositions
    <3>2. ASSUME NEW i \in DecisionsFor(n)'
          PROVE  FALSE
      <4>1. i \in 0 .. n /\ IsDecision(EntryAt(i)') /\ EntryAt(i)'.intention = n
        BY <2>4 DEF DecisionsFor, LogPositions, IsDecision
      <4>2. i # n
        BY <2>3, <2>4, <4>1 DEF IsDecision
      <4>3. i \in LogPositions /\ EntryAt(i)' = EntryAt(i)
        BY <1>0, <2>1, <2>4, <4>1, <4>2
      <4>4. Sound(i)
        BY <4>3, FollowsIff DEF DecisionInv, AllSound
      <4>5. EntryAt(i).intention < i
        BY <1>0, <4>1, <4>3, <4>4, SoundKept
      <4> QED BY <4>1, <4>3, <4>5
    <3> QED BY <3>1, <3>2 DEF Undecided
  <2>6. /\ pc' = [pc EXCEPT ![d] = "scan"]
        /\ ctx' = [ctx EXCEPT ![d].prop  = Len(log), ![d].known = Len(log),
                              ![d].pos   = ResumeAt(ctx[d].snap)]
    BY <1>0, <1>2 DEF AppendIntention, Return, DriveFacts
  <2>7. pc'[d] = "scan" /\ ctx'[d].prop = n
    BY <1>0, <2>1, <2>6 DEF DriveFacts, Context
  <2> QED BY <2>5, <2>7, Lands
<1> QED BY <1>1, <1>2

LEMMA TailDecides ==
    ASSUME DecisionInv, Extends, TypeInv', NEW d \in Drives, CheckTail(d)
    PROVE  CallDecides(d)'
<1>0. /\ TypeInv /\ ReplayInv /\ DriveFacts(d) /\ LogPositions = 0 .. (Len(log) - 1)
      /\ CallDecides(d) /\ CallValid(d) /\ engineSlot.position \in Int
  BY DecisionBase, DriveLocals DEF DecisionInv, ReplayInv, Calls
<1>1. /\ pc[d] = "scan" /\ Attention(d) = {}
      /\ pc' = [pc EXCEPT ![d] = IF Drained(d) THEN "force" ELSE "scan"]
      /\ ctx' = [ctx EXCEPT ![d].pos   = Consumed(d),
                            ![d].known = IF Drained(d) THEN @ ELSE Len(log) - 1,
                            ![d].retry = FreshRetry]
  BY DEF CheckTail
<1>2. PICK m \in Nat : m = Consumed(d)
  BY <1>0 DEF Consumed, Larger, DriveFacts
<1> PICK x : x = ctx[d].prop
  OBVIOUS
<1>3. m \in ctx[d].pos .. Consumed(d) /\ m <= Len(log)
  BY <1>0, <1>2 DEF Consumed, Larger, DriveFacts
<1>4. Undecided(x, m)
  BY <1>0, <1>1, <1>2, <1>3, UndecidedJump DEF CallDecides, Playing
<1>5. Undecided(x, m)'
  BY <1>0, <1>3, <1>4, UndecidedKept
<1>6. ctx'[d].pos = m /\ ctx'[d].prop = x
  BY <1>0, <1>1, <1>2 DEF DriveFacts, Context
<1>7. CASE ~ Drained(d)
  <2>1. pc'[d] = "scan"
    BY <1>0, <1>1, <1>7 DEF DriveFacts
  <2> QED BY <1>5, <1>6, <2>1, Lands
<1>8. CASE Drained(d)
  <2>1. pc'[d] = "force" /\ m = Len(log)
    BY <1>0, <1>1, <1>2, <1>3, <1>8 DEF DriveFacts, Drained
  <2>2. x \in LogPositions /\ IsIntention(x)
    BY <1>4 DEF Undecided, IsIntention
  <2>3. x <= engineSlot.position
    <3>1. Quiet(ctx[d].snap.position + 1, ctx[d].pos)
      BY <1>0, <1>1 DEF CallValid, Playing
    <3>2. Quiet(ctx[d].snap.position + 1, m)
      BY <1>0, <1>1, <1>3, <3>1, QuietJump DEF Calls
    <3>3. ~ IsDecision(EntryAt(x))
      BY <2>2 DEF IsIntention, IsDecision
    <3>4. x <= ctx[d].snap.position
      BY <1>0, <2>1, <2>2, <3>2, <3>3 DEF Quiet, DriveFacts
    <3> QED BY <1>0, <2>2, <3>4 DEF CallValid, SnapshotValid, DriveFacts
  <2>4. ASSUME NEW e \in DecisionEntry, Settles(x, x, e)
        PROVE  FALSE
    <3>1. Logged(e)
      BY <2>2, <2>3, <2>4 DEF DecisionInv, SettledLogged
    <3>2. IsDecision(e) /\ e.intention = x
      BY <2>4 DEF Settles, Decision, IsDecision
    <3>3. PICK i \in LogPositions : EntryAt(i) = e
      BY <3>1 DEF Logged
    <3>4. m <= i
      BY <1>4, <3>2, <3>3 DEF Undecided, DecisionsFor
    <3> QED BY <1>0, <2>1, <3>3, <3>4 DEF DriveFacts
  <2>5. ~ Refused(x) /\ Voted(x)
    <3>1. x \in Positions
      BY <1>0, <2>2, AtTypes
    <3>2. CASE Refused(x)
      <4>1. PICK e \in DecisionEntry : e = Decision(x, FALSE, "constraint")
        BY <3>1 DEF Decision, DecisionEntry
      <4> QED BY <2>2, <2>4, <3>2, <4>1 DEF Settles
    <3>3. CASE ~ Refused(x) /\ ~ Voted(x)
      <4> DEFINE f == Decision(x, StateAt(x).decider.policy = "OnByDefault", "default")
      <4>1. f \in DecisionEntry
        BY <3>1 DEF Decision, DecisionEntry
      <4>2. Settles(x, x, f)
        BY <2>2, <3>3 DEF Settles
      <4> HIDE DEF f
      <4> QED BY <2>4, <4>1, <4>2
    <3> QED BY <3>2, <3>3
  <2>6. ~ Refused(x)' /\ Voted(x)'
    BY <1>0, <2>2, <2>5, EntryKept
  <2> QED BY <1>5, <1>6, <2>1, <2>6, Lands
<1> QED BY <1>7, <1>8

(* A drive that stays at its entry, or gives up.                           *)
LEMMA StayDecides ==
    ASSUME DecisionInv, Extends, TypeInv', NEW d \in Drives,
           \/ ForceAbort(d) \/ DeciderRejected(d) \/ StopPlayback(d) \/ CheckpointRejected(d)
           \/ Reload(d) \/ Conflict(d)
    PROVE  CallDecides(d)'
<1>0. /\ TypeInv /\ DriveFacts(d) /\ CallDecides(d)
  BY DecisionBase, DriveLocals DEF DecisionInv, Calls
<1> USE DEF DriveFacts
<1>1. \/ pc'[d] \in {"Concurrency", "Stopped"}
      \/ /\ pc'[d] \in {"scan", "reload"} /\ pc[d] \in Playing
         /\ ctx'[d].pos = ctx[d].pos /\ ctx'[d].prop = ctx[d].prop
  <2>1. CASE ForceAbort(d)
    BY <1>0, <2>1 DEF ForceAbort, Context, Playing
  <2>5. CASE Reload(d)
    BY <1>0, <2>5 DEF Reload, Context, Playing
  <2>2. CASE StopPlayback(d)
    BY <1>0, <2>2 DEF StopPlayback, Return
  <2>3. CASE DeciderRejected(d) \/ DeciderConflict(d)
    BY <1>0, <2>3 DEF DeciderRejected, DeciderConflict, RetryDecider, Return, Context, Playing
  <2>4. CASE CheckpointRejected(d) \/ CheckpointConflict(d)
    BY <1>0, <2>4 DEF CheckpointRejected, CheckpointConflict, RetryApply, Return, Context, Playing,
         Saving, Unapplied
  <2> QED BY <2>1, <2>2, <2>3, <2>4, <2>5 DEF Conflict
<1>2. CASE pc'[d] \in {"Concurrency", "Stopped"}
  BY <1>2, Lands DEF Playing, Outcomes
<1>3. CASE /\ pc'[d] \in {"scan", "reload"} /\ pc[d] \in Playing
           /\ ctx'[d].pos = ctx[d].pos /\ ctx'[d].prop = ctx[d].prop
  <2>0. PICK p \in Nat : p = ctx[d].pos
    BY <1>0
  <2>1. PICK x : x = ctx[d].prop /\ p = ctx[d].pos
    BY <2>0
  <2>2. Undecided(x, p)
    BY <1>0, <1>3, <2>1 DEF CallDecides
  <2>3. Undecided(x, p)'
    BY <1>0, <2>1, <2>2, UndecidedKept
  <2> QED BY <1>3, <2>1, <2>3, Lands
<1> QED BY <1>1, <1>2, <1>3
(* A drive that writes: the slot, ...                                      *)
LEMMA SaveDecides ==
    ASSUME DecisionInv, Extends, TypeInv', NEW d \in Drives, SaveDecider(d)
    PROVE  CallDecides(d)'
<1>0. /\ TypeInv /\ ReplayInv /\ DriveFacts(d) /\ DeciderIds /\ CallDecides(d) /\ pc[d] = "save"
      /\ deciderSlots \in [Positions -> DeciderSlot]
  BY DecisionBase, DriveLocals DEF DecisionInv, Calls, SaveDecider, TypeInv, TypeOK
<1>1. PICK p : p = ctx[d].pos
  OBVIOUS
<1>2. PICK id : id = StateAt(p).decider.id
  OBVIOUS
<1>3. PICK s : s = deciderSlots[id]
  OBVIOUS
<1>4. /\ log' = log /\ replay' = replay
      /\ p \in LogPositions /\ id \in Positions /\ Consults(p)
      /\ s \in DeciderSlot /\ s.position < p
      /\ \A r \in LogPositions :
           r < p /\ Consults(r) /\ StateAt(r).decider.id = id => r <= s.position
      /\ deciderSlots' = [deciderSlots EXCEPT ![id] = FirstBooleanWins(s, EntryAt(p), p)]
  BY <1>1, <1>2, <1>3, SaveSlot
<1>5. PICK new \in DeciderSlot : new = FirstBooleanWins(s, EntryAt(p), p)
  BY <1>0, <1>4, FirstBooleanWinsType, AtTypes
<1>6. new.position = p
  BY <1>5 DEF FirstBooleanWins
<1>7. ExactAt(new, id)
  <2>1. ExactAt(s, id)
    BY <1>3, <1>4 DEF DecisionInv, SlotExact
  <2> QED BY <1>0, <1>2, <1>4, <1>5, <2>1, SlotRuns
<1>8. new.last \in Seq(DecisionEntry) /\ Outputs(p, new.last)
  BY <1>0, <1>4, <1>6, <1>7, SlotOutput
<1>9. SlotDone(p)'
  <2>1. StateAt(p)'.decider.id = id /\ deciderSlots'[id] = new
    BY <1>0, <1>2, <1>4, <1>5 DEF StateAt
  <2>2. p \in Nat
    BY <1>0, <1>1 DEF DriveFacts
  <2> QED BY <1>6, <2>1, <2>2 DEF SlotDone, SlotOf
<1>10. RequiresApplication(EntryAt(p)) /\ Undecided(ctx[d].prop, p)
  BY <1>0, <1>1 DEF CallDecides, Playing
<1>11. ctx[d].snap.state = StateAt(p)
  BY <1>0, <1>1, WritesInForce
<1>12. Produce(d, p, new.last)
  <2>1. /\ CasAccepts(deciderSlots[DeciderId(d)], ctx[d].decider.position, p)
        /\ Produce(d, p, FirstBooleanWins(ctx[d].decider, EntryAt(p), p).last)
    BY <1>1 DEF SaveDecider
  <2>2. s.position = ctx[d].decider.position /\ SlotOf(p) = s
    BY <1>2, <1>3, <1>11, <2>1 DEF CasAccepts, DeciderId, SlotOf
  <2>3. ctx[d].decider = s
    BY <1>0, <1>1, <2>2 DEF CallDecides, SaveReady
  <2> QED BY <1>5, <2>1, <2>3
<1> QED BY <1>4, <1>8, <1>9, <1>10, <1>11, <1>12, Produced

(* ... an output, ...                                                      *)
LEMMA OutputDecides ==
    ASSUME DecisionInv, Extends, SlotsGrow, TypeInv', NEW d \in Drives, AppendOutput(d)
    PROVE  CallDecides(d)'
<1>0. /\ TypeInv /\ ReplayInv /\ DriveFacts(d) /\ CallDecides(d) /\ pc[d] = "append"
      /\ ctx[d].out # <<>> /\ AppendEntry(Head(ctx[d].out)) /\ pc' = pc
      /\ \A id \in Positions : deciderSlots'[id].position \in Int
  <2>1. \A id \in Positions : deciderSlots'[id] \in DeciderSlot
    BY DEF TypeInv, TypeOK
  <2> QED BY <2>1, DecisionBase, DriveLocals, MaxLogAssumption
           DEF DeciderSlot, Positions, DecisionInv, Calls, AppendOutput
<1>1. PICK out \in Seq(VoteEntry \cup DecisionEntry) : out = ctx[d].out /\ out # <<>>
  BY <1>0 DEF DriveFacts, Context
<1>2. PICK x, p, rest : x = ctx[d].prop /\ p = ctx[d].pos /\ rest = Tail(out)
  OBVIOUS
<1>3. ctx'[d].pos = p /\ ctx'[d].prop = x /\ ctx'[d].out = rest /\ pc'[d] = "append"
  BY <1>0, <1>1, <1>2 DEF DriveFacts, Context, AppendOutput
<1>4. /\ p \in LogPositions /\ p \in Nat /\ p <= Len(log)
      /\ RequiresApplication(EntryAt(p)) /\ Undecided(x, p)
      /\ SlotDone(p) /\ Outputs(p, out)
  BY <1>0, <1>1, <1>2, WritesInForce DEF CallDecides, Playing, DriveFacts
<1>5. Undecided(x, p)' /\ SlotDone(p)' /\ Outputs(p, out)'
  BY <1>0, <1>4, UndecidedKept, SlotDoneKept, OutputsKept
<1>6. RequiresApplication(EntryAt(p))'
  BY <1>0, <1>4, EntryKept DEF RequiresApplication, IsDecision
<1>7. /\ Len(out) \in Nat /\ Len(rest) = Len(out) - 1
      /\ \A k \in 1 .. Len(rest) : k + 1 \in 1 .. Len(out) /\ rest[k] = out[k + 1]
      /\ \A k \in 1 .. Len(out) : k # 1 => k - 1 \in 1 .. Len(rest) /\ rest[k - 1] = out[k]
  BY <1>1, <1>2
<1>8. Logged(out[1])'
  <2>1. PICK n \in Nat : n = Len(log)
    BY <1>0 DEF DriveFacts
  <2>2. PICK e \in Entry : e = Head(ctx[d].out) /\ e = out[1]
    <3>1. out[1] \in VoteEntry \cup DecisionEntry /\ Head(ctx[d].out) = out[1]
      BY <1>1
    <3> QED BY <3>1 DEF Entry
  <2>3. Len(log') = n + 1 /\ EntryAt(n)' = e
    BY <1>0, <2>1, <2>2, NewEntry
  <2> QED BY <2>1, <2>2, <2>3 DEF Logged, LogPositions
<1>9. Outputs(p, rest)'
  <2>1. ASSUME NEW k \in 1 .. Len(rest), IsDecision(rest[k])
        PROVE  Settles(p, rest[k].intention, rest[k])'
    <3>1. PICK j \in 1 .. Len(out) : rest[k] = out[j]
      BY <1>7
    <3>2. Settles(p, out[j].intention, out[j])'
      BY <1>5, <2>1, <3>1 DEF Outputs, IsDecision
    <3> QED BY <3>1, <3>2
  <2>2. ASSUME NEW y \in LogPositions', NEW e \in DecisionEntry, Settles(p, y, e)'
        PROVE  Logged(e)' \/ \E k \in 1 .. Len(rest) : rest[k] = e
    <3>1. Logged(e)' \/ \E k \in 1 .. Len(out) : out[k] = e
      BY <1>5, <2>2 DEF Outputs
    <3>2. ASSUME NEW k \in 1 .. Len(out), out[k] = e
          PROVE  Logged(e)' \/ \E j \in 1 .. Len(rest) : rest[j] = e
      BY <1>7, <1>8, <3>2
    <3> QED BY <3>1, <3>2
  <2> QED BY <2>1, <2>2 DEF Outputs, IsDecision
<1> QED BY <1>3, <1>5, <1>6, <1>9, Lands

(* ... or the checkpoint.                                                  *)
LEMMA CheckpointDecides ==
    ASSUME DecisionInv, Extends, TypeInv', NEW d \in Drives, SaveCheckpoint(d)
    PROVE  CallDecides(d)'
<1>0. /\ TypeInv /\ ReplayInv /\ DriveFacts(d) /\ CallDecides(d) /\ pc[d] = "append"
  BY DecisionBase, DriveLocals DEF DecisionInv, Calls, SaveCheckpoint, Saving, Unapplied
<1>1. PICK p \in LogPositions : p = ctx[d].pos
  BY <1>0, WritesInForce
<1>2. PICK x : x = ctx[d].prop
  OBVIOUS
<1>3. ctx'[d].pos = p + 1 /\ ctx'[d].prop = x /\ pc'[d] = "scan" /\ p + 1 \in Nat /\ p + 1 <= Len(log)
  BY <1>0, <1>1, <1>2 DEF DriveFacts, Context, SaveCheckpoint, LogPositions
<1>4. RequiresApplication(EntryAt(p)) /\ Undecided(x, p)
  BY <1>0, <1>1, <1>2 DEF CallDecides, Playing
<1>5. Undecided(x, p + 1)
  <2>1. ASSUME NEW i \in DecisionsFor(x)
        PROVE  p + 1 <= i
    <3>1. p <= i /\ p # i /\ i \in Nat /\ p \in Nat
      BY <1>0, <1>1, <1>4 DEF Undecided, DecisionsFor, RequiresApplication, LogPositions, DriveFacts
    <3> QED BY <3>1
  <2> QED BY <1>4, <2>1 DEF Undecided
<1>6. Undecided(x, p + 1)'
  BY <1>0, <1>3, <1>5, UndecidedKept
<1> QED BY <1>3, <1>6, Lands
(* Every call keeps what it knows.                                         *)
LEMMA CallsDecide ==
    ASSUME DecisionInv, Next, Extends, SlotsGrow, TypeInv', NEW c \in Calls
    PROVE  CallDecides(c)'
<1>0. TypeInv /\ pc \in [Calls -> Steps \cup Terminal] /\ ctx \in [Calls -> Context]
  BY DecisionBase DEF TypeInv, TypeOK
<1>1. CASE pc'[c] = pc[c] /\ ctx'[c] = ctx[c]
  BY <1>1, CallKept
<1>2. CASE Create(c) \/ CreateSaveFails(c) \/ Fail(c)
  <2>1. pc'[c] \in {"createAppend", "createSave", "Created", "Failed", "Stopped", "PolicyError"}
    BY <1>0, <1>2 DEF Create, CreateReadPolicy, ProviderRefuses, CreateAppend, CreateSave,
         CreateSaveFails, Fail, Return
  <2> QED BY <2>1, Lands DEF Playing, Outcomes
<1>3. ASSUME c \in Drives, LoadSnapshot(c) \/ ReadPolicy(c) \/ AppendPolicy(c)
      PROVE  CallDecides(c)'
  <2>1. pc'[c] \in {"policy", "PolicyError", "PlanError", "batch", "intend"}
    BY <1>0, <1>3 DEF LoadSnapshot, ReadPolicy, ProviderRefuses, AppendPolicy, Return
  <2> QED BY <2>1, Lands DEF Playing, Outcomes
<1>4. ASSUME c \in Drives, Propose(c) \/ Conflict(c)
      PROVE  CallDecides(c)'
  BY <1>3, <1>4, AppendDecides, TailDecides, StayDecides, ReadDecides, SaveDecides,
     OutputDecides, CheckpointDecides DEF Propose
<1> QED BY <1>0, <1>1, <1>2, <1>4, Movers

LEMMA DecisionInit == Init => DecisionInv
<1> SUFFICES ASSUME Init PROVE DecisionInv
  OBVIOUS
<1>1. PolicyInv /\ StateAt(0) = InitState
  BY PolicyInit DEF PolicyInv, ReplayInv, ReplayChain
<1>2. /\ Len(log) = 0 /\ LogPositions = {} /\ 0 .. Len(log) = {0}
      /\ \A c \in Calls : pc[c] \in {"idle", "create"}
      /\ \A id \in Positions : deciderSlots[id] = EmptyDecider
  BY DEF Init, LogPositions
<1>3. DeciderIds
  BY <1>1, <1>2 DEF DeciderIds, InitState
<1>4. \A id \in Positions : SlotExact(id) /\ SlotBehind(id)
  BY <1>2 DEF SlotExact, SlotBehind, ExactAt, EmptyDecider
<1>5. \A c \in Calls : CallDecides(c)
  BY <1>2 DEF CallDecides, Playing, Outcomes
<1> QED BY <1>1, <1>2, <1>3, <1>4, <1>5 DEF DecisionInv, SlotsCover, DecisionsFollowLog

LEMMA DecisionStep == DecisionInv /\ [Next]_vars => DecisionInv'
<1> SUFFICES ASSUME DecisionInv, [Next]_vars PROVE DecisionInv'
  OBVIOUS
<1>0. PolicyInv /\ ReplayInv /\ TypeInv /\ DeciderIds
  BY DecisionBase
<1>1. PolicyInv'
  BY <1>0, PolicyStep
<1>2. CASE Next
  <2>0. TypeInv'
    BY <1>1 DEF PolicyInv, ReplayInv
  <2>1. Extends
    BY <1>0, <1>2, <2>0, LogSteps, HistoryStep DEF ReplayInv
  <2>2. TypeInv' /\ engineSlot.position <= engineSlot'.position
    BY <1>0, <1>2, <2>0, <2>1, SlotStep
  <2>3. engineSlot'.position \in Int
    <3>1. engineSlot' \in Snapshot
      BY <2>2 DEF TypeInv, TypeOK
    <3> QED BY <3>1, MaxLogAssumption DEF Snapshot, Positions
  <2>4. DeciderIds'
    <3>1. CASE UNCHANGED <<log, replay>>
      BY <1>0, <3>1 DEF DeciderIds, StateAt
    <3>2. ASSUME NEW e \in Entry, AppendEntry(e)
          PROVE  DeciderIds'
      BY <1>0, <3>2, DeciderIdsStep
    <3> QED BY <1>0, <1>2, <3>1, <3>2, StepAppends DEF PolicyInv
  <2>5. SlotsGrow /\ \A id \in Positions : SlotExact(id)' /\ SlotBehind(id)'
    BY <1>2, <2>1, <2>2, <2>3, SlotsStep
  <2>6. SlotsCover'
    BY <1>2, <2>1, <2>2, <2>5, CoverStep
  <2>7. \A q \in LogPositions' : q <= engineSlot'.position => SettledLogged(q)'
    BY <1>2, <2>1, <2>2, VerdictsStep
  <2>8. DecisionsFollowLog'
    BY <1>2, <2>1, DecisionsStep
  <2>9. \A c \in Calls : CallDecides(c)'
    BY <1>2, <2>1, <2>2, <2>5, CallsDecide
  <2> QED BY <1>1, <2>4, <2>5, <2>6, <2>7, <2>8, <2>9 DEF DecisionInv
<1>3. CASE UNCHANGED vars
  <2>0. /\ Extends /\ SlotsGrow /\ TypeInv' /\ LogPositions' = LogPositions
        /\ deciderSlots' = deciderSlots /\ engineSlot' = engineSlot
        /\ \A id \in Positions : deciderSlots[id] \in DeciderSlot
    BY <1>0, <1>1, <1>3, DecisionBase
       DEF vars, Extends, EntryAt, StateAt, LogPositions, SlotsGrow, PolicyInv, ReplayInv
  <2>1. DeciderIds'
    BY <1>0, <1>3 DEF vars, DeciderIds, StateAt
  <2>2. \A id \in Positions : SlotExact(id)' /\ SlotBehind(id)'
    <3>1. ASSUME NEW id \in Positions, NEW s, s = deciderSlots[id]
          PROVE  ExactAt(s, id)'
      BY <1>0, <2>0, <3>1, ExactKept DEF DecisionInv, SlotExact
    <3>2. \A id \in Positions : SlotBehind(id)'
      BY <1>3 DEF vars, DecisionInv, SlotBehind, LogPositions, EntryAt
    <3> QED BY <2>0, <3>1, <3>2 DEF SlotExact
  <2>3. SlotsCover'
    BY <1>3 DEF vars, DecisionInv, SlotsCover, LogPositions, Consults, SlotOf, StateAt, EntryAt
  <2>4. ASSUME NEW q \in LogPositions', q <= engineSlot'.position
        PROVE  SettledLogged(q)'
    BY <1>0, <2>0, <2>4, SettlesOld, LoggedKept DEF DecisionInv, SettledLogged
  <2>5. DecisionsFollowLog'
    <3>1. AllSound
      BY FollowsIff DEF DecisionInv
    <3>2. AllSound'
      BY <1>0, <2>0, <3>1, SoundKept DEF AllSound
    <3> QED BY <3>2, FollowsIffNext
  <2>6. \A c \in Calls : CallDecides(c)'
    BY <1>3, <2>0, CallKept DEF vars
  <2> QED BY <1>1, <2>1, <2>2, <2>3, <2>4, <2>5, <2>6 DEF DecisionInv
<1> QED BY <1>2, <1>3
(* A decision in the log is the verdict of the log before it, or the abort *)
(* that a drained log forces on an intention that waits for votes.         *)
THEOREM DecisionsSound == Spec => []DecisionsFollowLog
<1>1. DecisionInv => DecisionsFollowLog
  BY DEF DecisionInv
<1> QED BY <1>1, DecisionInit, DecisionStep, PTL DEF Spec

(* The checkpoint never passes an entry whose decision is not in the log,  *)
(* although slot, log and checkpoint are written separately by calls that  *)
(* may stop between any two writes.                                        *)
THEOREM DecisionsComplete == Spec => []CheckpointedVerdictsLogged
<1>1. ASSUME DecisionInv
      PROVE  CheckpointedVerdictsLogged
  <2> SUFFICES ASSUME NEW p \in LogPositions, NEW v \in Verdicts(p),
                      v[1] <= engineSlot.position
               PROVE  \E i \in DecisionsFor(p) : EntryAt(i) = v[2]
    BY DEF CheckpointedVerdictsLogged
  <2>1. PICK q, e : q = v[1] /\ e = v[2] /\ Settles(q, p, e)
    BY VerdictsAre
  <2>2. Len(log) \in Nat /\ TypeInv
    BY <1>1, DecisionBase
  <2>3. q \in LogPositions /\ IsDecision(e) /\ e.intention = p
    BY <2>1 DEF Settles, IsIntention, DecidingVotes, Decision, IsDecision
  <2>4. e \in DecisionEntry
    BY <2>1, <2>2, AtTypes DEF Settles, Decision, DecisionEntry
  <2>5. Logged(e)
    BY <1>1, <2>1, <2>3, <2>4 DEF DecisionInv, SettledLogged
  <2> QED BY <2>1, <2>3, <2>5 DEF Logged, DecisionsFor
<1>2. DecisionInv => CheckpointedVerdictsLogged
  BY <1>1
<1> QED BY <1>2, DecisionInit, DecisionStep, PTL DEF Spec

(* A proposal's answer is the first decision for it in the log, also when  *)
(* the forced abort raced with a decision.                                 *)
THEOREM OutcomesAgree == Spec => []OutcomeIsFirstDecision
<1>1. DecisionInv => OutcomeIsFirstDecision
  BY DEF DecisionInv, CallDecides, Answered, OutcomeIsFirstDecision, Calls
<1> QED BY <1>1, DecisionInit, DecisionStep, PTL DEF Spec
-----------------------------------------------------------------------------
(* Retry budgets.  A rejected write means that another call has dealt with *)
(* the entry, so that the second attempt does not write again.             *)

(* The checkpoint has passed the entry that the call retries.              *)
CheckpointPassed(c) ==
    \/ pc[c] = "reload" /\ ctx[c].pos <= engineSlot.position
    \/ pc[c] = "scan" /\ ctx[c].pos <= ctx[c].snap.position

(* The slot has been written for the entry that the call retries.          *)
SlotPassed(c) ==
    /\ pc[c] = "scan" /\ ctx[c].pos <= ctx[c].known /\ ctx[c].snap.position < ctx[c].pos
    /\ ConsultsSlot(ctx[c].snap.state, EntryAt(ctx[c].pos))
    /\ ctx[c].pos <= deciderSlots[DeciderId(c)].position

Budgets(c) ==
    /\ pc[c] = "save" => ctx[c].pos <= ctx[c].known
    /\ faults = 0 /\ MaxRetries > 0 =>
         /\ pc[c] # "Concurrency"
         /\ ctx[c].retry = FreshRetry \/ CheckpointPassed(c)
         /\ ctx[c].dretry = FreshRetry \/ SlotPassed(c)

RetryInv ==
    /\ DecisionInv
    /\ engineSlot.position # NoPosition => RequiresApplication(EntryAt(engineSlot.position))
    /\ \A c \in Calls : Budgets(c)

(* Faults are only counted up.                                             *)
LEMMA FaultsGrow ==
    ASSUME Next, faults \in Nat
    PROVE  /\ faults' = 0 => faults = 0
           /\ \A d \in Calls : DeciderConflict(d) \/ CheckpointConflict(d) => faults' # 0
<1>1. faults' \in {faults, faults + 1}
  <2>1. ASSUME NEW c, Create(c) \/ CreateSaveFails(c) \/ Fail(c)
        PROVE  faults' \in {faults, faults + 1}
    BY <2>1 DEF Create, CreateReadPolicy, CreateAppend, CreateSave, CreateSaveFails, Fail
  <2>2. ASSUME NEW d, Propose(d) \/ Conflict(d)
        PROVE  faults' \in {faults, faults + 1}
    BY <2>2 DEF Propose, Conflict, LoadSnapshot, ReadPolicy, AppendPolicy, AppendIntention,
       CheckTail, ForceAbort, ReadOutcome, RejectIntention, ApplyStateless, LoadDecider,
       SaveDecider, DeciderRejected, DeciderConflict, RetryDecider, AppendOutput,
       StopPlayback, SaveCheckpoint, CheckpointRejected, CheckpointConflict, RetryApply, Reload
  <2> QED BY <2>1, <2>2 DEF Next, Publish, ExternalAppend
<1> QED BY <1>1 DEF DeciderConflict, CheckpointConflict

(* The engine's checkpoint stays at an entry it applied.                   *)
LEMMA AppliedStep ==
    ASSUME RetryInv, Next, Extends, TypeInv', engineSlot'.position # -1
    PROVE  RequiresApplication(EntryAt(engineSlot.position))'
<1>0. /\ DecisionInv /\ TypeInv /\ ReplayInv /\ Len(log) \in Nat
      /\ LogPositions = 0 .. (Len(log) - 1)
      /\ engineSlot.position \in Int /\ engineSlot.position >= -1 /\ engineSlot.position < Len(log)
  BY DecisionBase DEF RetryInv
<1>1. CASE engineSlot' = engineSlot
  <2>1. PICK p \in LogPositions : p = engineSlot.position /\ RequiresApplication(EntryAt(p))
    BY <1>0, <1>1 DEF RetryInv
  <2>2. EntryAt(p)' = EntryAt(p)
    BY <1>0, EntryKept
  <2> QED BY <1>1, <2>1, <2>2 DEF RequiresApplication, IsDecision, EntryAt
<1>2. ASSUME NEW c \in Calls, CreateSave(c), engineSlot' # engineSlot
      PROVE  RequiresApplication(EntryAt(engineSlot.position))'
  <2>1. EntryAt(0) = InitialBatch(ctx[c].version) /\ log' = log
    BY <1>0, <1>2 DEF ReplayInv, CallValid, CreateSave
  <2>2. engineSlot'.position = 0
    BY <1>2 DEF CreateSave
  <2> QED BY <2>1, <2>2 DEF EntryAt, InitialBatch, Plan, RequiresApplication, IsDecision
<1>3. ASSUME NEW d \in Drives, SaveCheckpoint(d)
      PROVE  RequiresApplication(EntryAt(engineSlot.position))'
  <2>1. /\ pc[d] = "append" /\ log' = log /\ engineSlot'.position = ctx[d].pos
    BY <1>3 DEF SaveCheckpoint, Saving, Unapplied
  <2>2. RequiresApplication(EntryAt(ctx[d].pos))
    BY <1>0, <2>1 DEF DecisionInv, CallDecides, Calls
  <2> QED BY <2>1, <2>2 DEF EntryAt, RequiresApplication, IsDecision
<1> QED BY <1>1, <1>2, <1>3, SlotWriters

(* A call that does not move keeps its budgets.                            *)
LEMMA BudgetsKept ==
    ASSUME RetryInv, Extends, SlotsGrow, TypeInv', engineSlot.position <= engineSlot'.position,
           engineSlot'.position \in Int, faults' = 0 => faults = 0,
           NEW c \in Calls, pc'[c] = pc[c], ctx'[c] = ctx[c]
    PROVE  Budgets(c)'
<1>0. /\ DecisionInv /\ TypeInv /\ ReplayInv /\ Len(log) \in Nat
      /\ LogPositions = 0 .. (Len(log) - 1) /\ engineSlot.position \in Int /\ Budgets(c)
      /\ \A id \in Positions : deciderSlots[id].position \in Int
      /\ \A id \in Positions : deciderSlots'[id].position \in Int
  <2>1. \A id \in Positions : deciderSlots'[id] \in DeciderSlot
    BY DEF TypeInv, TypeOK
  <2> QED BY <2>1, DecisionBase, MaxLogAssumption DEF RetryInv, DeciderSlot, Positions
<1>1. /\ ctx[c] \in Context /\ ctx[c].pos \in Nat /\ ctx[c].known < Len(log) /\ ctx[c].known \in Int
      /\ ctx[c].snap.state \in EngineState
  <2>1. ctx[c] \in Context /\ ctx[c].known < Len(log)
    BY <1>0 DEF TypeInv, TypeOK, CallBounds
  <2>2. ctx[c].pos \in Cursor /\ ctx[c].known \in Positions \cup {-1} /\ ctx[c].snap \in Snapshot
    BY <2>1 DEF Context
  <2> QED BY <2>1, <2>2, MaxLogAssumption DEF Cursor, Positions, Snapshot
<1>2. CheckpointPassed(c) => CheckpointPassed(c)'
  BY <1>0, <1>1 DEF CheckpointPassed
<1>3. ASSUME SlotPassed(c)
      PROVE  SlotPassed(c)'
  <2>1. PICK p \in LogPositions : p = ctx[c].pos
    BY <1>0, <1>1, <1>3 DEF SlotPassed
  <2>2. EntryAt(p)' = EntryAt(p)
    BY <1>0, EntryKept
  <2>3. PICK st \in EngineState : st = ctx[c].snap.state
    BY <1>1
  <2>4. ConsultsSlot(st, EntryAt(p))
    BY <1>3, <2>1, <2>3 DEF SlotPassed
  <2>5. ConsultsSlot(st, EntryAt(p)')
    BY <2>2, <2>4
  <2>6. PICK id \in Positions : id = st.decider.id
    BY <2>3, <2>4 DEF ConsultsSlot, EngineState, DeciderSpec
  <2>7. p <= deciderSlots'[id].position
    <3>1. p <= deciderSlots[id].position
      BY <1>3, <2>1, <2>3, <2>6 DEF SlotPassed, DeciderId
    <3> QED BY <1>0, <2>6, <3>1 DEF SlotsGrow
  <2> QED BY <1>3, <2>1, <2>3, <2>5, <2>6, <2>7 DEF SlotPassed, DeciderId, EntryAt
<1> QED BY <1>0, <1>2, <1>3 DEF Budgets
(* A call with fresh budgets satisfies them anywhere but at a save.        *)
LEMMA FreshBudgets ==
    ASSUME NEW c, ctx'[c].retry = FreshRetry, ctx'[c].dretry = FreshRetry,
           pc'[c] # "Concurrency", pc'[c] # "save"
    PROVE  Budgets(c)'
BY DEF Budgets

(* So does a call that returns.                                            *)
LEMMA ReturnBudgets ==
    ASSUME TypeInv, NEW c \in Calls, NEW result, NEW pos, Return(c, result, pos),
           result \notin {"Concurrency", "save"}
    PROVE  Budgets(c)'
<1>1. pc'[c] = result /\ ctx'[c] = [FreshContext EXCEPT !.prop = ctx[c].prop, !.pos = pos]
  BY DEF Return, TypeInv, TypeOK
<1>2. ctx'[c].retry = FreshRetry /\ ctx'[c].dretry = FreshRetry
  BY <1>1 DEF FreshContext
<1> QED BY <1>1, <1>2, FreshBudgets

(* A drive that reads starts an entry with fresh budgets.                  *)
LEMMA ReadBudgets ==
    ASSUME RetryInv, Next, faults' = 0 => faults = 0, NEW d \in Drives,
           ReadOutcome(d) \/ RejectIntention(d) \/ ApplyStateless(d) \/ LoadDecider(d)
    PROVE  Budgets(d)'
<1>0. /\ DecisionInv /\ TypeInv /\ DriveFacts(d) /\ d \in Calls /\ Budgets(d)
  BY DecisionBase, DriveLocals DEF RetryInv, Calls
<1>1. CASE ReadOutcome(d)
  <2>1. PICK i : IsDecision(EntryAt(i)) /\ Return(d, EntryAt(i).type, i)
    BY <1>1 DEF ReadOutcome
  <2> QED BY <1>0, <2>1, ReturnBudgets DEF IsDecision
<1>2. CASE RejectIntention(d) \/ ApplyStateless(d) \/ LoadDecider(d)
  <2>1. PICK i \in Attention(d) :
          /\ Reaches(d, i) /\ RequiresApplication(EntryAt(i))
          /\ \/ /\ PolicyConstraintFailure(ctx[d].snap.state, EntryAt(i))
                /\ ctx' = [ctx EXCEPT ![d].pos = i, ![d].retry = Budget(d, i, @),
                                      ![d].out = <<Decision(i, FALSE, "constraint")>>]
                /\ pc' = [pc EXCEPT ![d] = "append"]
             \/ \E decision : Produce(d, i, decision)
             \/ /\ ConsultsSlot(ctx[d].snap.state, EntryAt(i))
                /\ i > deciderSlots[DeciderId(d)].position
                /\ ctx' = [ctx EXCEPT ![d].pos = i, ![d].decider = deciderSlots[DeciderId(d)],
                                      ![d].retry = Budget(d, i, @)]
                /\ pc' = [pc EXCEPT ![d] = "save"]
    BY <1>2 DEF RejectIntention, ApplyStateless, LoadDecider, ConsultsSlot,
         PolicyConstraintFailure, RequiresApplication, IsDecision
  <2>2. /\ i \in Nat /\ ctx[d].pos <= i /\ i <= ctx[d].known /\ pc[d] = "scan"
        /\ ctx[d].snap.position < i /\ \A j \in Attention(d) : i <= j
    <3>1. i \in Positions /\ ctx[d].pos <= i /\ i <= ctx[d].known
      BY <1>0, AttentionBounds
    <3>2. ctx[d].snap.position < i
      BY <1>0, <2>1, ReachedEntry
    <3> QED BY <2>1, <3>1, <3>2, MaxLogAssumption DEF Reaches, Positions
  <2>3. ASSUME faults = 0, MaxRetries > 0
        PROVE  /\ Budget(d, i, ctx[d].retry) = FreshRetry
               /\ ctx[d].dretry # FreshRetry =>
                    /\ ~ PolicyConstraintFailure(ctx[d].snap.state, EntryAt(i))
                    /\ i <= deciderSlots[DeciderId(d)].position
    <3>1. i = ctx[d].pos => ctx[d].retry = FreshRetry
      BY <1>0, <2>2, <2>3 DEF Budgets, CheckpointPassed, DriveFacts
    <3>2. ASSUME SlotPassed(d)
          PROVE  i = ctx[d].pos
      <4>1. RequiresApplication(EntryAt(ctx[d].pos))
        BY <3>2 DEF SlotPassed, ConsultsSlot, RequiresApplication, IsDecision
      <4>2. ctx[d].pos \in Attention(d)
        BY <1>0, <3>2, <4>1 DEF SlotPassed, Attention, DriveFacts
      <4>3. i <= ctx[d].pos
        BY <2>2, <4>2
      <4> QED BY <1>0, <2>2, <4>3 DEF DriveFacts
    <3>3. ctx[d].dretry # FreshRetry => SlotPassed(d)
      BY <1>0, <2>3 DEF Budgets
    <3> QED BY <3>1, <3>2, <3>3 DEF Budget, SlotPassed, ConsultsSlot
  <2>4. ASSUME NEW decision, Produce(d, i, decision)
        PROVE  Budgets(d)'
    <3>1. CASE Hold(d, i, decision)
      <4>1. /\ pc'[d] = "append" /\ ctx'[d].dretry = FreshRetry
            /\ ctx'[d].retry = Budget(d, i, ctx[d].retry)
        BY <1>0, <3>1 DEF Hold, DriveFacts, Context
      <4> QED BY <2>3, <4>1 DEF Budgets
    <3>2. CASE Return(d, "Stopped", i)
      BY <1>0, <3>2, ReturnBudgets DEF DriveFacts
    <3> QED BY <2>4, <3>1, <3>2 DEF Produce
  <2>5. ASSUME PolicyConstraintFailure(ctx[d].snap.state, EntryAt(i)),
               ctx' = [ctx EXCEPT ![d].pos = i, ![d].retry = Budget(d, i, @),
                                  ![d].out = <<Decision(i, FALSE, "constraint")>>],
               pc' = [pc EXCEPT ![d] = "append"]
        PROVE  Budgets(d)'
    <3>1. /\ pc'[d] = "append" /\ ctx'[d].dretry = ctx[d].dretry
          /\ ctx'[d].retry = Budget(d, i, ctx[d].retry)
      BY <1>0, <2>5 DEF DriveFacts, Context
    <3> QED BY <2>3, <2>5, <3>1 DEF Budgets
  <2>6. ASSUME ConsultsSlot(ctx[d].snap.state, EntryAt(i)),
               i > deciderSlots[DeciderId(d)].position,
               ctx' = [ctx EXCEPT ![d].pos = i, ![d].decider = deciderSlots[DeciderId(d)],
                                  ![d].retry = Budget(d, i, @)],
               pc' = [pc EXCEPT ![d] = "save"]
        PROVE  Budgets(d)'
    <3>1. /\ pc'[d] = "save" /\ ctx'[d].dretry = ctx[d].dretry /\ ctx'[d].pos = i
          /\ ctx'[d].known = ctx[d].known
          /\ ctx'[d].retry = Budget(d, i, ctx[d].retry)
      BY <1>0, <2>6 DEF DriveFacts, Context
    <3>2. DeciderId(d) \in Positions
      BY <1>0, <2>6 DEF ConsultsSlot, DeciderId, DriveFacts, EngineState, DeciderSpec
    <3>3. deciderSlots[DeciderId(d)].position \in Int
      BY <1>0, <3>2, DecisionBase
    <3> QED BY <2>2, <2>3, <2>6, <3>1, <3>3 DEF Budgets
  <2> QED BY <2>1, <2>4, <2>5, <2>6
<1> QED BY <1>1, <1>2
(* A rejected write of the checkpoint: another call has passed the entry.  *)
LEMMA RejectedCheckpoint ==
    ASSUME RetryInv, NEW d \in Drives, CheckpointRejected(d)
    PROVE  ctx[d].pos <= engineSlot.position
<1>0. /\ DecisionInv /\ ReplayInv /\ DriveFacts(d) /\ CallValid(d)
      /\ engineSlot.position \in Int /\ engineSlot.position >= -1 /\ pc[d] = "append"
  BY DecisionBase, DriveLocals
     DEF RetryInv, ReplayInv, Calls, CheckpointRejected, Saving, Unapplied
<1>1. ctx[d].snap.position <= engineSlot.position
  BY <1>0 DEF CallValid, SnapshotValid
<1>2. Quiet(ctx[d].snap.position + 1, ctx[d].pos) /\ ctx[d].snap.position < ctx[d].pos
  BY <1>0, WritesInForce
<1>3. CASE engineSlot.position = ctx[d].snap.position
  BY <1>0, <1>2, <1>3 DEF CheckpointRejected, CasAccepts, DriveFacts
<1>4. CASE engineSlot.position > ctx[d].snap.position
  <2>1. ~ IsDecision(EntryAt(engineSlot.position))
    BY <1>0, <1>4 DEF RetryInv, RequiresApplication, DriveFacts
  <2> QED BY <1>0, <1>2, <1>4, <2>1 DEF Quiet, DriveFacts
<1> QED BY <1>0, <1>1, <1>3, <1>4 DEF DriveFacts

(* A rejected write of the slot: another call has written it for the entry.*)
LEMMA RejectedSlot ==
    ASSUME RetryInv, NEW d \in Drives, DeciderRejected(d)
    PROVE  /\ ctx[d].pos <= deciderSlots[DeciderId(d)].position
           /\ ctx[d].snap.position < ctx[d].pos
           /\ ConsultsSlot(ctx[d].snap.state, EntryAt(ctx[d].pos))
<1>0. /\ DecisionInv /\ TypeInv /\ ReplayInv /\ DriveFacts(d) /\ pc[d] = "save" /\ CallDecides(d)
  BY DecisionBase, DriveLocals DEF RetryInv, DecisionInv, Calls, DeciderRejected
<1>1. PICK p \in LogPositions : p = ctx[d].pos
  BY <1>0, WritesInForce
<1>2. PICK s \in DeciderSlot : s = ctx[d].decider
  BY <1>0 DEF DriveFacts, Context
<1>3. SaveReady(p, s) /\ p \in Nat /\ s.position \in Int /\ p \in 0 .. Len(log)
  <2>1. SaveReady(p, s)
    BY <1>0, <1>1, <1>2 DEF CallDecides
  <2> QED BY <1>0, <1>1, <1>2, <2>1, MaxLogAssumption
          DEF DriveFacts, DeciderSlot, Positions, LogPositions
<1>4. ctx[d].snap.state = StateAt(p) /\ ctx[d].snap.position < p /\ Consults(p)
  BY <1>0, <1>1, <1>3, WritesInForce DEF SaveReady
<1>5. PICK id \in Positions : id = StateAt(p).decider.id
  BY <1>0, <1>3, <1>4, ConsultsMeans, AtTypes
<1>6. PICK t \in DeciderSlot : t = deciderSlots[id] /\ t.position \in Int /\ t.position >= -1
  BY <1>0, <1>5, DecisionBase
<1>7. /\ s.position < p /\ s.position <= t.position
      /\ ~ CasAccepts(t, s.position, p) /\ deciderSlots[DeciderId(d)] = t
  <2>1. deciderSlots[DeciderId(d)] = t
    BY <1>4, <1>5, <1>6 DEF DeciderId
  <2> QED BY <1>1, <1>2, <1>3, <1>5, <1>6, <2>1 DEF SaveReady, SlotOf, DeciderRejected
<1>8. p <= t.position
  <2>1. CASE t.position = s.position
    BY <1>3, <1>6, <1>7, <2>1 DEF CasAccepts
  <2>2. CASE t.position > s.position
    <3> SUFFICES ASSUME t.position < p
                 PROVE  FALSE
      BY <1>3, <1>6
    <3>1. ExactAt(t, id)
      BY <1>0, <1>6 DEF DecisionInv, SlotExact
    <3>2. t.position \in LogPositions /\ t.position # -1
      <4>1. LogPositions = 0 .. (Len(log) - 1) /\ Len(log) \in Nat /\ s.position >= -1
        BY <1>0, <1>2, DecisionBase, MaxLogAssumption DEF DeciderSlot, Positions
      <4> QED BY <1>1, <1>3, <1>6, <2>2, <4>1
    <3>3. Consults(t.position) /\ StateAt(t.position).decider.id = id
      BY <3>1, <3>2 DEF ExactAt
    <3>4. t.position <= s.position
      BY <1>3, <1>5, <3>2, <3>3 DEF SaveReady
    <3> QED BY <1>3, <1>6, <2>2, <3>4
  <2> QED BY <1>3, <1>6, <1>7, <2>1, <2>2
<1>9. ConsultsSlot(ctx[d].snap.state, EntryAt(ctx[d].pos))
  BY <1>1, <1>4 DEF Consults
<1> QED BY <1>1, <1>4, <1>7, <1>8, <1>9
(* A drive's other steps keep its budgets.                                 *)
LEMMA DriveBudgets ==
    ASSUME RetryInv, Next, TypeInv', NEW d \in Drives, Propose(d) \/ Conflict(d),
           faults' = 0 => faults = 0,
           DeciderConflict(d) \/ CheckpointConflict(d) => faults' # 0
    PROVE  Budgets(d)'
<1>0. /\ DecisionInv /\ TypeInv /\ DriveFacts(d) /\ d \in Calls /\ Budgets(d)
  BY DecisionBase, DriveLocals DEF RetryInv, Calls
<1> USE DEF DriveFacts
<1>1. ASSUME faults' = 0, MaxRetries > 0, pc[d] \notin {"scan", "reload"}
      PROVE  ctx[d].retry = FreshRetry /\ ctx[d].dretry = FreshRetry
  BY <1>0, <1>1 DEF Budgets, CheckpointPassed, SlotPassed
<1>2. CASE LoadSnapshot(d) \/ ReadPolicy(d)
  <2>1. \/ \E result \in {"PlanError", "PolicyError"} : \E pos : Return(d, result, pos)
        \/ /\ pc'[d] \in {"policy", "batch", "intend"} /\ pc[d] \in {"idle", "policy"}
           /\ ctx'[d].retry = ctx[d].retry /\ ctx'[d].dretry = ctx[d].dretry
    BY <1>0, <1>2 DEF LoadSnapshot, ReadPolicy, ProviderRefuses, Context
  <2>2. ASSUME NEW result \in {"PlanError", "PolicyError"}, NEW pos, Return(d, result, pos)
        PROVE  Budgets(d)'
    BY <1>0, <2>2, ReturnBudgets
  <2> QED BY <1>1, <2>1, <2>2 DEF Budgets
<1>3. CASE AppendPolicy(d)
  <2>1. /\ pc'[d] = "intend" /\ pc[d] = "batch"
        /\ ctx'[d].retry = ctx[d].retry /\ ctx'[d].dretry = ctx[d].dretry
    BY <1>0, <1>3 DEF AppendPolicy, Context
  <2> QED BY <1>1, <2>1 DEF Budgets
<1>4. CASE AppendIntention(d)
  <2>1. \/ \E pos : Return(d, "BusDataLoss", pos)
        \/ /\ pc'[d] = "scan" /\ pc[d] = "intend"
           /\ ctx'[d].retry = ctx[d].retry /\ ctx'[d].dretry = ctx[d].dretry
    BY <1>0, <1>4 DEF AppendIntention, Context
  <2>2. ASSUME NEW pos, Return(d, "BusDataLoss", pos)
        PROVE  Budgets(d)'
    BY <1>0, <2>2, ReturnBudgets
  <2> QED BY <1>1, <2>1, <2>2 DEF Budgets
<1>5. CASE CheckTail(d)
  <2>1. /\ pc'[d] \in {"scan", "force"} /\ pc[d] = "scan" /\ Attention(d) = {}
        /\ ctx'[d].retry = FreshRetry /\ ctx'[d].dretry = ctx[d].dretry
    BY <1>0, <1>5 DEF CheckTail, Context
  <2>2. ~ SlotPassed(d)
    <3>1. SlotPassed(d) => ctx[d].pos \in Attention(d)
      BY <1>0 DEF SlotPassed, Attention, ConsultsSlot, RequiresApplication, IsDecision
    <3> QED BY <2>1, <3>1
  <2> QED BY <1>0, <2>1, <2>2 DEF Budgets
<1>6. CASE ForceAbort(d) \/ AppendOutput(d)
  <2>1. /\ pc'[d] \in {"scan", "append"} /\ pc[d] \in {"force", "append"}
        /\ ctx'[d].retry = ctx[d].retry /\ ctx'[d].dretry = ctx[d].dretry
    <3>1. CASE ForceAbort(d)
      BY <1>0, <3>1 DEF ForceAbort, Context
    <3>2. CASE AppendOutput(d)
      BY <1>0, <3>2 DEF AppendOutput, Context
    <3> QED BY <1>6, <3>1, <3>2
  <2> QED BY <1>1, <2>1 DEF Budgets
<1>7. CASE ReadOutcome(d) \/ RejectIntention(d) \/ ApplyStateless(d) \/ LoadDecider(d)
  BY <1>7, ReadBudgets
<1>8. CASE SaveDecider(d)
  <2>1. PICK decision : Produce(d, ctx[d].pos, decision) /\ pc[d] = "save"
    BY <1>8 DEF SaveDecider
  <2>2. CASE Hold(d, ctx[d].pos, decision)
    <3>1. /\ pc'[d] = "append" /\ ctx'[d].dretry = FreshRetry
          /\ ctx'[d].retry = Budget(d, ctx[d].pos, ctx[d].retry)
      BY <1>0, <2>2 DEF Hold, Context
    <3> QED BY <1>1, <2>1, <3>1 DEF Budgets, Budget
  <2>3. CASE Return(d, "Stopped", ctx[d].pos)
    BY <1>0, <2>3, ReturnBudgets
  <2> QED BY <2>1, <2>2, <2>3 DEF Produce
<1>9. CASE StopPlayback(d)
  BY <1>0, <1>9, ReturnBudgets DEF StopPlayback
<1>10. CASE SaveCheckpoint(d)
  <2>1. /\ pc'[d] = "scan" /\ pc[d] = "append"
        /\ ctx'[d].retry = FreshRetry /\ ctx'[d].dretry = ctx[d].dretry
    BY <1>0, <1>10 DEF SaveCheckpoint, Saving, Unapplied, Context
  <2> QED BY <1>1, <2>1 DEF Budgets
<1>11. CASE Reload(d)
  <2>1. /\ pc'[d] = "scan" /\ pc[d] = "reload" /\ ctx'[d].snap = engineSlot
        /\ ctx'[d].pos = ctx[d].pos
        /\ ctx'[d].retry = ctx[d].retry /\ ctx'[d].dretry = ctx[d].dretry
    BY <1>0, <1>11 DEF Reload, Context
  <2> QED BY <1>0, <2>1 DEF Budgets, CheckpointPassed, SlotPassed
<1>12. CASE DeciderRejected(d) /\ faults' = 0 /\ MaxRetries > 0
  <2>1. /\ pc[d] = "save" /\ ctx[d].retry = FreshRetry /\ ctx[d].dretry = FreshRetry
    BY <1>1, <1>12 DEF DeciderRejected
  <2>2. RetriesRejection(ctx[d].dretry)
    BY <1>12, <2>1 DEF RetriesRejection, FreshRetry
  <2>3. /\ pc'[d] = "scan" /\ log' = log /\ deciderSlots' = deciderSlots
        /\ ctx'[d].retry = FreshRetry /\ ctx'[d].pos = ctx[d].pos
        /\ ctx'[d].known = ctx[d].known /\ ctx'[d].snap = ctx[d].snap
    BY <1>0, <1>12, <2>1, <2>2 DEF DeciderRejected, RetryDecider, Context
  <2>4. /\ ctx[d].pos <= deciderSlots[DeciderId(d)].position
        /\ ctx[d].snap.position < ctx[d].pos /\ ctx[d].pos <= ctx[d].known
        /\ ConsultsSlot(ctx[d].snap.state, EntryAt(ctx[d].pos))
    BY <1>0, <1>12, <2>1, RejectedSlot DEF Budgets
  <2> QED BY <2>3, <2>4 DEF Budgets, SlotPassed, DeciderId, EntryAt
<1>13. CASE CheckpointRejected(d) /\ faults' = 0 /\ MaxRetries > 0
  <2>1. pc[d] = "append" /\ ctx[d].retry = FreshRetry /\ ctx[d].dretry = FreshRetry
    BY <1>1, <1>13 DEF CheckpointRejected, Saving, Unapplied
  <2>2. RetriesRejection(ctx[d].retry)
    BY <1>13, <2>1 DEF RetriesRejection, FreshRetry
  <2>3. /\ pc'[d] = "reload" /\ engineSlot' = engineSlot
        /\ ctx'[d].dretry = FreshRetry /\ ctx'[d].pos = ctx[d].pos
    BY <1>0, <1>13, <2>1, <2>2 DEF CheckpointRejected, RetryApply, Context
  <2>4. ctx[d].pos <= engineSlot.position
    BY <1>13, RejectedCheckpoint
  <2> QED BY <2>3, <2>4 DEF Budgets, CheckpointPassed
<1>14. ASSUME \/ DeciderRejected(d) \/ CheckpointRejected(d) \/ Conflict(d),
              ~ (faults' = 0 /\ MaxRetries > 0)
       PROVE  Budgets(d)'
  <2>1. pc'[d] \in {"scan", "reload", "Concurrency"}
    BY <1>0, <1>14 DEF DeciderRejected, CheckpointRejected, Conflict, DeciderConflict,
       CheckpointConflict, RetryDecider, RetryApply, Return
  <2> QED BY <1>14, <2>1 DEF Budgets
<1> QED BY <1>2, <1>3, <1>4, <1>5, <1>6, <1>7, <1>8, <1>9, <1>10, <1>11, <1>12, <1>13, <1>14
        DEF Propose, Conflict

LEMMA RetryInit == Init => RetryInv
<1> SUFFICES ASSUME Init PROVE RetryInv
  OBVIOUS
<1>1. DecisionInv /\ engineSlot.position = -1
  BY DecisionInit DEF Init, EmptySnapshot
<1>2. ASSUME NEW c \in Calls
      PROVE  Budgets(c)
  BY DEF Init, Budgets, FreshContext
<1> QED BY <1>1, <1>2 DEF RetryInv

LEMMA RetryStep == RetryInv /\ [Next]_vars => RetryInv'
<1> SUFFICES ASSUME RetryInv, [Next]_vars PROVE RetryInv'
  OBVIOUS
<1>0. /\ DecisionInv /\ ReplayInv /\ TypeInv /\ faults \in Nat
      /\ pc \in [Calls -> Steps \cup Terminal] /\ ctx \in [Calls -> Context]
  BY DecisionBase, BoundsAssumption DEF RetryInv, TypeInv, TypeOK
<1>1. DecisionInv' /\ TypeInv'
  <2>1. DecisionInv'
    BY <1>0, DecisionStep
  <2> QED BY <2>1 DEF DecisionInv, PolicyInv, ReplayInv
<1>2. CASE Next
  <2>1. Extends /\ engineSlot.position <= engineSlot'.position
    BY <1>0, <1>1, <1>2, LogSteps, HistoryStep, SlotStep DEF ReplayInv
  <2>2. engineSlot'.position \in Int
    <3>1. engineSlot' \in Snapshot
      BY <1>1 DEF TypeInv, TypeOK
    <3> QED BY <3>1, MaxLogAssumption DEF Snapshot, Positions
  <2>3. SlotsGrow
    BY <1>0, <1>2, <2>1, <2>2, SlotsStep
  <2>4. engineSlot'.position # -1 => RequiresApplication(EntryAt(engineSlot.position))'
    BY <1>1, <1>2, <2>1, AppliedStep
  <2>5. ASSUME NEW c \in Calls
        PROVE  Budgets(c)'
    <3>1. CASE pc'[c] = pc[c] /\ ctx'[c] = ctx[c]
      BY <1>0, <1>1, <1>2, <2>1, <2>2, <2>3, <3>1, FaultsGrow, BudgetsKept
    <3>2. CASE Create(c) \/ CreateSaveFails(c) \/ Fail(c)
      <4>1. CASE /\ CreateReadPolicy(c) \/ CreateAppend(c)
                 /\ pc'[c] \in {"createAppend", "createSave"}
        <5>1. /\ pc[c] \in {"create", "createAppend"} /\ pc'[c] \in {"createAppend", "createSave"}
              /\ ctx'[c].retry = ctx[c].retry /\ ctx'[c].dretry = ctx[c].dretry
          BY <1>0, <4>1 DEF CreateReadPolicy, ProviderRefuses, CreateAppend, Return, Context
        <5>2. Budgets(c) /\ (faults' = 0 => faults = 0)
          BY <1>0, <1>2, FaultsGrow DEF RetryInv
        <5> QED BY <5>1, <5>2 DEF Budgets, CheckpointPassed, SlotPassed
      <4>2. CASE \E result \in {"Created", "Failed", "Stopped", "PolicyError"}, pos \in Nat :
                   Return(c, result, pos)
        BY <1>0, <4>2, ReturnBudgets
      <4>3. pc \in [Calls -> Steps \cup Terminal] /\ ctx[c].pos \in Nat /\ Len(log) \in Nat
        BY <1>0, MaxLogAssumption DEF TypeInv, TypeOK, Context, Cursor, Positions
      <4> QED BY <3>2, <4>1, <4>2, <4>3
              DEF Create, CreateReadPolicy, ProviderRefuses, CreateAppend, CreateSave,
                  CreateSaveFails, Fail
    <3>3. ASSUME c \in Drives, Propose(c) \/ Conflict(c)
          PROVE  Budgets(c)'
      BY <1>0, <1>1, <1>2, <3>3, FaultsGrow, DriveBudgets
    <3> QED BY <1>0, <1>2, <3>1, <3>2, <3>3, Movers
  <2> QED BY <1>1, <2>4, <2>5 DEF RetryInv
<1>3. CASE UNCHANGED vars
  <2>1. \A c \in Calls : Budgets(c)'
    BY <1>3 DEF vars, RetryInv, Budgets, CheckpointPassed, SlotPassed, DeciderId, EntryAt
  <2> QED BY <1>1, <1>3, <2>1 DEF vars, RetryInv, EntryAt, RequiresApplication, IsDecision
<1> QED BY <1>2, <1>3

(* Without storage conflicts one retry after a rejected compare-and-swap   *)
(* is enough, however many drives and creators compete.                    *)
THEOREM OneRetryIsEnough == Spec => []SingleCasRetrySuffices
<1>1. RetryInv => SingleCasRetrySuffices
  BY DEF RetryInv, Budgets, SingleCasRetrySuffices, Calls
<1> QED BY <1>1, RetryInit, RetryStep, PTL DEF Spec

=============================================================================
