--------------------------- MODULE PolicyRegister ---------------------------
(***************************************************************************)
(* The durable policy register: one compare-and-swap cell holding the      *)
(* desired policy and its generation.  Nodes install a default policy when *)
(* they start (bootstrap_policy_register_if_absent, with the retry loop),  *)
(* administrators read and replace it (set_policy), and nodes look it up   *)
(* through the synchronous provider.                                       *)
(*                                                                         *)
(* A storage put takes effect or not, and its answer says so, says that it *)
(* conflicted with an unfinished transaction (no effect), or is lost.      *)
(* `installed`, `looked` and `acked` are history.                          *)
(***************************************************************************)
EXTENDS Integers, FiniteSets

CONSTANTS
    Nodes, Admins,
    Policies,      \* well-formed policies
    Supported,     \* node -> policies whose runtime types it can construct
    Malformed,     \* states that fail validate_policy_state
    MaxGeneration, \* i64::MAX
    MaxRetries,    \* retries of the bootstrap
    MaxFaults      \* bound on conflicts and lost answers

RegisterAssumption ==
    /\ Supported \in [Nodes -> SUBSET Policies]
    /\ Policies \cap Malformed = {}
    /\ MaxGeneration \in Nat /\ MaxRetries \in Nat /\ MaxFaults \in Nat

VARIABLES
    register,   \* generation and policy; Absent
    boot,       \* node -> its bootstrap
    admin,      \* admin -> its read-modify-write
    faults,
    installed,  \* every <<generation, policy, writer>> that took effect
    looked,     \* every <<generation, policy>> a provider returned
    acked       \* <<generation, policy, writer>> of the set_policy calls answered Ok

vars == <<register, boot, admin, faults, installed, looked, acked>>

NoGeneration == -1
Absent == [generation |-> NoGeneration, policy |-> "none"]

Init ==
    /\ register = Absent
    /\ boot = [n \in Nodes |-> [pc |-> "idle", retries |-> 0, policy |-> "none"]]
    /\ admin = [a \in Admins |-> [pc |-> "idle", expected |-> NoGeneration, policy |-> "none"]]
    /\ faults = 0
    /\ installed = {} /\ looked = {} /\ acked = {}

-----------------------------------------------------------------------------
(* Mutant: the generation wraps instead of reporting an overflow.          *)
WrappedVersion(expected) ==
    IF expected = NoGeneration \/ expected = MaxGeneration THEN {0} ELSE {expected + 1}

(* The next generation; none when it would overflow.                       *)
NewVersion(expected) ==
    IF expected = NoGeneration THEN {0}
    ELSE IF expected = MaxGeneration THEN {} ELSE {expected + 1}

(* Mutant: an initial policy is written whatever the register holds.       *)
PutAny(expected) == expected = NoGeneration \/ register.generation = expected

PutMatches(expected) == register.generation = expected

(* Storage::put of `policy`, with its possible answers.                    *)
Put(w, policy, expected, new, answer) ==
    \/ /\ answer = "true" /\ PutMatches(expected)
       /\ register' = [generation |-> new, policy |-> policy]
       /\ installed' = installed \cup {<<new, policy, w>>}
       /\ UNCHANGED faults
    \/ /\ answer = "false" /\ ~ PutMatches(expected)
       /\ UNCHANGED <<register, installed, faults>>
    \/ /\ answer = "conflict" /\ faults < MaxFaults
       /\ faults' = faults + 1
       /\ UNCHANGED <<register, installed>>
    \/ /\ answer = "lost" /\ faults < MaxFaults
       /\ faults' = faults + 1
       /\ \/ UNCHANGED <<register, installed>>
          \/ /\ PutMatches(expected)
             /\ register' = [generation |-> new, policy |-> policy]
             /\ installed' = installed \cup {<<new, policy, w>>}

Answers == {"true", "false", "conflict", "lost"}

-----------------------------------------------------------------------------
(* bootstrap_policy_register_if_absent.                                    *)

BootBegin(n, policy) ==
    /\ boot[n].pc = "idle" /\ policy \in Supported[n]
    /\ boot' = [boot EXCEPT ![n] = [pc |-> "try", retries |-> 0, policy |-> policy]]
    /\ UNCHANGED <<register, admin, faults, installed, looked, acked>>

(* Mutant: a transaction conflict means that another node was faster.      *)
ConflictMeansPresent(answer, retries) ==
    CASE answer = "true" -> "installed"
      [] answer \in {"false", "conflict"} -> "present"
      [] OTHER -> "failed"

(* Mutant: a rejected put is retried until it succeeds.                    *)
RetriesRejection(answer, retries) ==
    CASE answer = "true" -> "installed"
      [] answer = "false" -> "try"
      [] OTHER -> "failed"

(* What an attempt's answer leads to: only conflicts are retried.          *)
AfterAttempt(answer, retries) ==
    CASE answer = "true" -> "installed"
      [] answer = "false" -> "present"
      [] answer = "conflict" /\ retries < MaxRetries -> "try"
      [] OTHER -> "failed"

BootAttempt(n) ==
    /\ boot[n].pc = "try"
    /\ \E answer \in Answers :
         /\ Put(n, boot[n].policy, NoGeneration, 0, answer)
         /\ LET pc == AfterAttempt(answer, boot[n].retries) IN
            boot' = [boot EXCEPT ![n].pc = pc,
                                 ![n].retries = IF answer = "conflict" THEN @ + 1 ELSE @]
    /\ UNCHANGED <<admin, looked, acked>>

-----------------------------------------------------------------------------
(* set_policy by an administrator who has read the register.               *)

AdminRead(a) ==
    /\ admin[a].pc = "idle"
    /\ register.policy \notin Malformed
    /\ admin' = [admin EXCEPT ![a].pc = "read", ![a].expected = register.generation]
    /\ UNCHANGED <<register, boot, faults, installed, looked, acked>>

ValidState(state) == state \notin Malformed

SetPolicy(a, state) ==
    /\ admin[a].pc = "read"
    /\ ValidState(state)
    /\ \E new \in NewVersion(admin[a].expected), answer \in Answers :
         /\ Put(a, state, admin[a].expected, new, answer)
         /\ acked' = IF answer = "true" THEN acked \cup {<<new, state, a>>} ELSE acked
    /\ admin' = [admin EXCEPT ![a].pc = "idle"]
    /\ UNCHANGED <<boot, looked>>

(* MalformedPolicy or GenerationOverflow: nothing is written.              *)
SetPolicyInvalid(a, state) ==
    /\ admin[a].pc = "read"
    /\ ~ ValidState(state) \/ NewVersion(admin[a].expected) = {}
    /\ admin' = [admin EXCEPT ![a].pc = "idle"]
    /\ UNCHANGED <<register, boot, faults, installed, looked, acked>>

-----------------------------------------------------------------------------
(* The provider: a node reads the policy once its bootstrap has succeeded. *)
Lookup(n) ==
    /\ boot[n].pc \in {"installed", "present"}
    /\ register # Absent /\ ValidState(register.policy)
    /\ register.policy \in Supported[n]
    /\ looked' = looked \cup {<<register.generation, register.policy>>}
    /\ UNCHANGED <<register, boot, admin, faults, installed, acked>>

(* The node restarts and bootstraps again.                                 *)
Restart(n) ==
    /\ boot[n].pc \in {"installed", "present", "failed"}
    /\ boot' = [boot EXCEPT ![n].pc = "idle"]
    /\ UNCHANGED <<register, admin, faults, installed, looked, acked>>

Next ==
    \/ \E n \in Nodes :
         \/ \E policy \in Policies : BootBegin(n, policy)
         \/ BootAttempt(n) \/ Lookup(n) \/ Restart(n)
    \/ \E a \in Admins :
         \/ AdminRead(a)
         \/ \E state \in Policies \cup Malformed : SetPolicy(a, state) \/ SetPolicyInvalid(a, state)

(* A bootstrap in progress goes on: retry awaits each attempt in turn.     *)
Fairness == \A n \in Nodes : WF_vars(BootAttempt(n))

Spec == Init /\ [][Next]_vars /\ Fairness

-----------------------------------------------------------------------------
(* One policy per generation: whoever looks a generation up, before or     *)
(* after restarts and conflicting writers, gets the same policy.           *)
GenerationsAgree ==
    \A x, y \in installed \cup {<<l[1], l[2], "reader">> : l \in looked} :
      x[1] = y[1] => x[2] = y[2]

(* An acknowledged set_policy took effect at the generation it returned,   *)
(* and no other write ever took that generation.                           *)
AckedIsUnique ==
    \A s \in acked : {e \in installed : e[1] = s[1]} = {s}

(* A bootstrap that succeeded, as winner or not, leaves a register that    *)
(* this code can read.                                                     *)
BootstrapInitialises ==
    \A n \in Nodes : boot[n].pc \in {"installed", "present"} =>
      register # Absent /\ register.policy \notin Malformed

(* The three together.                                                     *)
OnePolicyPerGeneration ==
    GenerationsAgree /\ AckedIsUnique /\ BootstrapInitialises

(* Every bootstrap returns: conflicts are retried a bounded number of      *)
(* times.                                                                  *)
BootstrapReturns ==
    \A n \in Nodes : boot[n].pc = "try" ~> boot[n].pc # "try"

=============================================================================
