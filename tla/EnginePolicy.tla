---------------------------- MODULE EnginePolicy ----------------------------
(***************************************************************************)
(* The data of the v1 commit engine and the pure functions on it: bus      *)
(* entries, the per-bus engine state, policy planning (policy.rs) and the  *)
(* deterministic transition that one log entry makes on the engine state   *)
(* (base_engine.rs).  Log positions are 0-based, as in the code; position  *)
(* -1 stands for the code's `None`.                                        *)
(***************************************************************************)
EXTENDS Integers, Sequences

CONSTANTS
    VoterIds,      \* stable voter ids a policy may install
    Configs,       \* voter configurations
    Absent,        \* model value: the voter is not installed
    Keep,          \* model value: the batch leaves this part alone
    Remove,        \* model value: the batch removes the voter
    Missing,       \* model value: a voter operation without its operation
    Unrecognized,  \* model value: a decider policy no enum names
    NumVersions,   \* how many policy revisions the provider ever publishes
    PolicyOf,      \* the provider's revision -> policy state
    MaxLog         \* capacity of the log

NoPosition == -1
NoVersion  == -1

Positions == 0 .. (MaxLog - 1)
Versions  == 0 .. (NumVersions - 1)

DeciderPolicies == {"OnByDefault", "OffByDefault", "FirstBooleanWins"}

VoterMap == [VoterIds -> Configs \cup {Absent}]

(* The provider's complete desired policy for one revision.                *)
PolicyState == [decider : DeciderPolicies, voters : VoterMap]

ASSUME MaxLogAssumption == MaxLog \in Nat \ {0}

ASSUME VersionsAssumption == NumVersions \in Nat \ {0}

(* One version never identifies different policy states (PolicyProvider).  *)
ASSUME PolicyOfAssumption == PolicyOf \in [Versions -> PolicyState]

ASSUME ConfigsAssumption ==
    /\ Configs \cap {Absent, Keep, Remove, Missing} = {}
    /\ Keep # Remove /\ Absent # Keep /\ Absent # Remove
    /\ Missing \notin {Absent, Keep, Remove}
    /\ DeciderPolicies \cap {Absent, Keep, Unrecognized} = {}
    /\ Unrecognized # Keep

-----------------------------------------------------------------------------
(* Bus entries.                                                            *)

IntentionEntry ==
    [type : {"Intention"}, constraint : {"none", "minimum", "required"},
     version : Versions \cup {NoVersion}, kind : {"string", "group"}]

VoteEntry ==
    [type : {"Vote"}, intention : Positions, vote : {"true", "false", "other"}]

DecisionEntry ==
    [type : {"Commit", "Abort"}, intention : Positions,
     reason : {"default", "vote", "constraint", "drained"}]

BatchEntry ==
    [type : {"PolicyBatch"}, expected : Versions \cup {NoVersion},
     new : Versions, decider : DeciderPolicies \cup {Keep, Unrecognized},
     ops : [VoterIds -> Configs \cup {Keep, Remove, Missing}]]

(* No node can read all of the batch; plan() writes no such batch.         *)
Broken(b) ==
    b.decider = Unrecognized \/ \E v \in VoterIds : b.ops[v] = Missing

(* A standalone AddVoter, RemoveVoter or DeciderPolicy entry.              *)
LegacyEntry == [type : {"Legacy"}]

Entry == IntentionEntry \cup VoteEntry \cup DecisionEntry
            \cup BatchEntry \cup LegacyEntry

Intention(minimum, kind) ==
    [type |-> "Intention", constraint |-> "minimum", version |-> minimum,
     kind |-> kind]
Vote(p, b) == [type |-> "Vote", intention |-> p, vote |-> b]
Decision(p, approved, reason) ==
    [type |-> IF approved THEN "Commit" ELSE "Abort",
     intention |-> p, reason |-> reason]

IsDecision(e) == e.type \in {"Commit", "Abort"}

(* Commit and Abort entries change no state machine of the engine.         *)
RequiresApplication(e) == ~ IsDecision(e)

-----------------------------------------------------------------------------
(* Per-bus engine state.  An unconfigured decider is OnByDefault with no id. *)

DeciderSpec ==
    [policy : DeciderPolicies, id : Positions]
        \cup [policy : {"OnByDefault"}, id : {NoPosition}]

EngineState ==
    [version : Versions \cup {NoVersion}, decider : DeciderSpec, voters : VoterMap]

InitState ==
    [version |-> NoVersion,
     decider |-> [policy |-> "OnByDefault", id |-> NoPosition],
     voters  |-> [v \in VoterIds |-> Absent]]

(* Installed voters.                                                       *)
Installed(st) == {v \in VoterIds : st.voters[v] # Absent}

-----------------------------------------------------------------------------
(* policy.rs: the difference that takes `state` to the desired revision.   *)

PlanNeeded(st, version) == st.version = NoVersion \/ version > st.version

(* A voter's config may not change while it stays installed.               *)
PlanFails(st, version) ==
    \E v \in VoterIds :
        /\ st.voters[v] # Absent
        /\ PolicyOf[version].voters[v] # Absent
        /\ st.voters[v] # PolicyOf[version].voters[v]

(* `current` is the decider policy in force; create_bus plans against an   *)
(* empty policy, whose decider differs from every desired one (Absent).    *)
Plan(st, current, version) ==
    [type     |-> "PolicyBatch",
     expected |-> st.version,
     new      |-> version,
     decider  |-> IF current = PolicyOf[version].decider
                    THEN Keep ELSE PolicyOf[version].decider,
     ops      |-> [v \in VoterIds |->
                     IF PolicyOf[version].voters[v] = st.voters[v] THEN Keep
                     ELSE IF PolicyOf[version].voters[v] = Absent THEN Remove
                     ELSE PolicyOf[version].voters[v]]]

-----------------------------------------------------------------------------
(* base_engine.rs: one entry's effect on the engine state.                 *)

(* Mutant: only the versions' order is compared, not the planned base.     *)
AppliesAnyNewer(st, b) == b.new > st.version

ShouldApplyPolicyBatch(st, b) ==
    /\ st.version = b.expected
    /\ b.expected = NoVersion \/ b.new > b.expected

(* A batch that no node can apply to the state: it is broken, or removes a *)
(* voter the state does not have.                                          *)
Malformed(st, e) ==
    /\ e.type = "PolicyBatch"
    /\ ShouldApplyPolicyBatch(st, e)
    /\ \/ Broken(e)
       \/ \E v \in VoterIds : e.ops[v] = Remove /\ st.voters[v] = Absent

ApplyPolicyBatch(st, b, position) ==
    [version |-> b.new,
     decider |-> IF b.decider = Keep THEN st.decider
                 ELSE [policy |-> b.decider, id |-> position],
     voters  |-> [v \in VoterIds |->
                    IF b.ops[v] = Keep THEN st.voters[v]
                    ELSE IF b.ops[v] = Remove THEN Absent
                    ELSE b.ops[v]]]

(* VoterFactory: whether a node with these configs builds every voter of   *)
(* the state (create_voter).                                               *)
Builds(configs, st) == \A v \in Installed(st) : st.voters[v] \in configs

(* Mutant: the configs of a batch are taken as they come.                  *)
RefusesNothing(configs, st, e) == FALSE

(* A batch that adds a voter whose config the node's factory rejects       *)
(* (validate_config).                                                      *)
RefusedBy(configs, st, e) ==
    /\ e.type = "PolicyBatch"
    /\ ShouldApplyPolicyBatch(st, e)
    /\ \E v \in VoterIds : e.ops[v] \in Configs \ configs

(* Mutant: standalone policy operations are passed over.                   *)
PassesLegacy(configs, st, e) == Malformed(st, e) \/ RefusedBy(configs, st, e)

(* A node stops playback at these entries without moving the cursor.       *)
Unplayable(configs, st, e) ==
    e.type = "Legacy" \/ Malformed(st, e) \/ RefusedBy(configs, st, e)

(* The state that the log determines, whichever nodes can play it.         *)
ReplayStep(st, e, position) ==
    IF /\ e.type = "PolicyBatch"
       /\ ShouldApplyPolicyBatch(st, e)
       /\ ~ Malformed(st, e)
    THEN ApplyPolicyBatch(st, e, position)
    ELSE st

(* The policy version an intention asks for, against the applied one.      *)
PolicyConstraintFailure(st, e) ==
    /\ e.type = "Intention"
    /\ \/ e.constraint = "required" /\ st.version # e.version
       \/ /\ e.constraint = "minimum"
          /\ st.version = NoVersion \/ st.version < e.version

=============================================================================
