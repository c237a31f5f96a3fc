---------------------------- MODULE PolicyProofs ----------------------------
(***************************************************************************)
(* Theorems about what carries a policy to a decision, for any number of   *)
(* calls, nodes, administrators, policies and faults.  InMemCommit: no     *)
(* intention is decided twice, and none is approved under an older policy  *)
(* than its caller's.  PolicyRegister: a generation of the durable policy  *)
(* has one writer and one policy.                                          *)
(***************************************************************************)
EXTENDS PolicyPath, TLAPS

-----------------------------------------------------------------------------
(* PolicyRegister.                                                         *)

Generations == {Register!NoGeneration} \cup Nat

Writes == Nat \X DesiredPolicies \X (Nodes \cup Admins)

RegisterTypes ==
    /\ register = Register!Absent \/ register \in [generation : Nat, policy : DesiredPolicies]
    /\ boot \in [Nodes -> [pc : {"idle", "try", "installed", "present", "failed"},
                           retries : Nat, policy : DesiredPolicies \cup {"none"}]]
    /\ admin \in [Admins -> [pc : {"idle", "read"}, expected : Generations, policy : {"none"}]]
    /\ installed \subseteq Writes /\ acked \subseteq Writes /\ looked \subseteq Nat \X DesiredPolicies

(* The register holds the newest generation written; the generations only  *)
(* grow, so each was written once, whoever was told so.                    *)
RegisterInv ==
    /\ RegisterTypes
    /\ \A n \in Nodes : boot[n].pc = "try" => boot[n].policy \in DesiredPolicies
    /\ \A n \in Nodes : boot[n].pc \in {"installed", "present"} => register # Register!Absent
    /\ \A e \in installed : e[1] <= register.generation
    /\ register # Register!Absent =>
         \E w \in Nodes \cup Admins : <<register.generation, register.policy, w>> \in installed
    /\ \A x, y \in installed : x[1] = y[1] => x = y
    /\ \A l \in looked : \E w \in Nodes \cup Admins : <<l[1], l[2], w>> \in installed
    /\ acked \subseteq installed

(* A put writes a newer generation, or nothing.                            *)
LEMMA PutKeeps ==
    ASSUME RegisterInv, NEW w \in Nodes \cup Admins, NEW policy \in DesiredPolicies,
           NEW expected \in Generations, NEW new \in Nat,
           expected < new, NEW answer \in Register!Answers,
           Register!Put(w, policy, expected, new, answer)
    PROVE  /\ register' = Register!Absent \/ register' \in [generation : Nat, policy : DesiredPolicies]
           /\ installed' \subseteq Writes /\ installed \subseteq installed'
           /\ \A e \in installed' : e[1] <= register'.generation
           /\ register' # Register!Absent =>
                \E x \in Nodes \cup Admins :
                  <<register'.generation, register'.policy, x>> \in installed'
           /\ \A x, y \in installed' : x[1] = y[1] => x = y
           /\ register # Register!Absent => register' # Register!Absent
           /\ answer = "true" => register' # Register!Absent /\ <<new, policy, w>> \in installed'
           /\ answer = "false" /\ expected = Register!NoGeneration => register' # Register!Absent
<1>1. CASE UNCHANGED <<register, installed>>
    <2>1. answer = "true" => /\ register' = [generation |-> new, policy |-> policy]
                             /\ installed' = installed \cup {<<new, policy, w>>}
        BY DEF Register!Put
    <2>2. answer = "false" => register.generation # expected
        BY DEF Register!Put, Register!PutMatches
    <2>3. [generation |-> new, policy |-> policy] # Register!Absent
        BY DEF Register!Absent, Register!NoGeneration
    <2>4. <<new, policy, w>> \in installed \cup {<<new, policy, w>>}
        OBVIOUS
    <2>5. answer = "true" => register' # Register!Absent /\ <<new, policy, w>> \in installed'
        BY <2>1, <2>3, <2>4
    <2>6. answer = "false" /\ expected = Register!NoGeneration => register' # Register!Absent
        BY <1>1, <2>2 DEF Register!Absent
    <2> HIDE DEF Register!Put
    <2> QED BY <1>1, <2>5, <2>6 DEF RegisterInv, RegisterTypes
<1>2. CASE /\ register' = [generation |-> new, policy |-> policy]
           /\ installed' = installed \cup {<<new, policy, w>>}
           /\ register.generation = expected
    <2> DEFINE e == <<new, policy, w>>
    <2>1. register'.generation = new /\ register'.policy = policy
        BY <1>2
    <2>2. register' \in [generation : Nat, policy : DesiredPolicies] /\ register' # Register!Absent
        BY <1>2 DEF Register!Absent, Register!NoGeneration
    <2>3. e \in Writes /\ e[1] = new
        BY DEF Writes
    <2>4. \A x \in installed : x[1] <= expected /\ x[1] \in Nat
        BY <1>2 DEF RegisterInv, RegisterTypes, Writes
    <2>5. \A x \in installed : x[1] < new /\ x[1] # new
        BY <2>4 DEF Generations, Register!NoGeneration
    <2>6. e \in installed' /\ \A x \in installed' : x \in installed \/ x = e
        BY <1>2
    <2>7. \A x, y \in installed' : x[1] = y[1] => x = y
        BY <2>3, <2>5, <2>6 DEF RegisterInv
    <2>8. \A x \in installed' : x[1] <= register'.generation
        BY <2>1, <2>3, <2>4, <2>5, <2>6
    <2>9. installed' \subseteq Writes /\ installed \subseteq installed'
        BY <1>2, <2>3 DEF RegisterInv, RegisterTypes
    <2> QED BY <2>1, <2>2, <2>6, <2>7, <2>8, <2>9
<1> QED BY <1>1, <1>2 DEF Register!Put, Register!PutMatches

LEMMA RegisterInvInit == Register!Init => RegisterInv
BY DEF Register!Init, RegisterInv, RegisterTypes, Register!Absent, Register!NoGeneration, Generations

(* A bootstrap's attempt.                                                  *)
LEMMA AttemptKeeps ==
    ASSUME RegisterInv, NEW n \in Nodes, Register!BootAttempt(n)
    PROVE  RegisterInv'
<1>1. PICK answer \in Register!Answers :
        /\ Register!Put(n, boot[n].policy, Register!NoGeneration, 0, answer)
        /\ boot' = [boot EXCEPT ![n].pc = Register!AfterAttempt(answer, boot[n].retries),
                                ![n].retries = IF answer = "conflict" THEN @ + 1 ELSE @]
    BY DEF Register!BootAttempt
<1>2. boot[n].policy \in DesiredPolicies /\ boot[n].pc = "try"
    BY DEF Register!BootAttempt, RegisterInv
<1>3. /\ register' = Register!Absent \/ register' \in [generation : Nat, policy : DesiredPolicies]
      /\ installed' \subseteq Writes /\ installed \subseteq installed'
      /\ \A e \in installed' : e[1] <= register'.generation
      /\ register' # Register!Absent =>
           \E x \in Nodes \cup Admins :
             <<register'.generation, register'.policy, x>> \in installed'
      /\ \A x, y \in installed' : x[1] = y[1] => x = y
      /\ register # Register!Absent => register' # Register!Absent
      /\ answer \in {"true", "false"} => register' # Register!Absent
    <2>1. Register!NoGeneration \in Generations /\ 0 \in Nat /\ Register!NoGeneration < 0 /\ n \in Nodes \cup Admins
        BY DEF Generations, Register!NoGeneration
    <2> QED BY <1>1, <1>2, <2>1, PutKeeps
<1>4. PICK pc \in {"try", "installed", "present", "failed"} :
        /\ pc = Register!AfterAttempt(answer, boot[n].retries)
        /\ pc \in {"installed", "present"} => answer \in {"true", "false"}
    BY DEF Register!AfterAttempt
<1>5. PICK k \in Nat : k = IF answer = "conflict" THEN boot[n].retries + 1 ELSE boot[n].retries
    BY DEF RegisterInv, RegisterTypes
<1>6. boot' = [boot EXCEPT ![n].pc = pc, ![n].retries = k]
    BY <1>1, <1>4, <1>5
<1>7. /\ boot' \in [Nodes -> [pc : {"idle", "try", "installed", "present", "failed"},
                              retries : Nat, policy : DesiredPolicies \cup {"none"}]]
      /\ boot'[n].pc = pc /\ boot'[n].policy = boot[n].policy
      /\ \A m \in Nodes : m # n => boot'[m] = boot[m]
    <2> DEFINE B == [pc : {"idle", "try", "installed", "present", "failed"},
                     retries : Nat, policy : DesiredPolicies \cup {"none"}]
    <2>1. boot \in [Nodes -> B] /\ boot[n] \in B
        BY DEF RegisterInv, RegisterTypes
    <2>2. PICK b \in B : b = [boot[n] EXCEPT !.pc = pc, !.retries = k]
        <3>1. \A x \in B : [x EXCEPT !.pc = pc, !.retries = k] \in B
            OBVIOUS
        <3> QED BY <2>1, <3>1
    <2>3. b.pc = pc /\ b.policy = boot[n].policy
        BY <2>1, <2>2
    <2> HIDE DEF B
    <2>4. boot' = [boot EXCEPT ![n] = b]
        BY <1>6, <2>1, <2>2
    <2>5. boot' \in [Nodes -> B] /\ boot'[n] = b /\ \A m \in Nodes : m # n => boot'[m] = boot[m]
        BY <2>1, <2>4
    <2> QED BY <2>3, <2>5 DEF B
<1>8. \A m \in Nodes : boot'[m].pc = "try" => boot'[m].policy \in DesiredPolicies
    BY <1>2, <1>7 DEF RegisterInv
<1>9. \A m \in Nodes : boot'[m].pc \in {"installed", "present"} => register' # Register!Absent
    BY <1>3, <1>4, <1>7 DEF RegisterInv
<1>10. UNCHANGED <<admin, looked, acked>>
    BY DEF Register!BootAttempt
<1> QED BY <1>3, <1>7, <1>8, <1>9, <1>10 DEF RegisterInv, RegisterTypes

(* An administrator's write.                                               *)
LEMMA SetPolicyKeeps ==
    ASSUME Register!RegisterAssumption, RegisterInv, NEW a \in Admins,
           NEW state \in DesiredPolicies \cup Malformed, Register!SetPolicy(a, state)
    PROVE  RegisterInv'
<1>1. PICK new \in Register!NewVersion(admin[a].expected), answer \in Register!Answers :
        /\ Register!Put(a, state, admin[a].expected, new, answer)
        /\ acked' = IF answer = "true" THEN acked \cup {<<new, state, a>>} ELSE acked
    BY DEF Register!SetPolicy
<1>2. state \in DesiredPolicies
    BY DEF Register!SetPolicy, Register!ValidState
<1>3. PICK expected \in Generations : expected = admin[a].expected
    BY DEF RegisterInv, RegisterTypes
<1>4. new \in Nat /\ expected < new
    BY <1>3 DEF Register!NewVersion, Generations, Register!NoGeneration
<1>5. /\ register' = Register!Absent \/ register' \in [generation : Nat, policy : DesiredPolicies]
      /\ installed' \subseteq Writes /\ installed \subseteq installed'
      /\ \A e \in installed' : e[1] <= register'.generation
      /\ register' # Register!Absent =>
           \E x \in Nodes \cup Admins :
             <<register'.generation, register'.policy, x>> \in installed'
      /\ \A x, y \in installed' : x[1] = y[1] => x = y
      /\ register # Register!Absent => register' # Register!Absent
      /\ answer = "true" => <<new, state, a>> \in installed'
    <2>1. a \in Nodes \cup Admins /\ Register!Put(a, state, expected, new, answer)
        BY <1>1, <1>3
    <2> QED BY <1>2, <1>4, <2>1, PutKeeps
<1>6. acked' \subseteq installed' /\ acked' \subseteq Writes
    BY <1>1, <1>5 DEF RegisterInv
<1>7. admin' \in [Admins -> [pc : {"idle", "read"}, expected : Generations, policy : {"none"}]]
    BY DEF Register!SetPolicy, RegisterInv, RegisterTypes
<1>8. UNCHANGED <<boot, looked>>
    BY DEF Register!SetPolicy
<1> QED BY <1>5, <1>6, <1>7, <1>8 DEF RegisterInv, RegisterTypes

LEMMA RegisterInvNext ==
    ASSUME Register!RegisterAssumption, RegisterInv, [Register!Next]_(Register!vars)
    PROVE  RegisterInv'
<1>1. CASE UNCHANGED Register!vars
    BY <1>1 DEF Register!vars, RegisterInv, RegisterTypes
<1>2. ASSUME NEW n \in Nodes, NEW policy \in DesiredPolicies, Register!BootBegin(n, policy) PROVE RegisterInv'
    <2>1. /\ boot' \in [Nodes -> [pc : {"idle", "try", "installed", "present", "failed"},
                                  retries : Nat, policy : DesiredPolicies \cup {"none"}]]
          /\ boot'[n] = [pc |-> "try", retries |-> 0, policy |-> policy]
          /\ \A m \in Nodes : m # n => boot'[m] = boot[m]
        BY <1>2 DEF Register!BootBegin, RegisterInv, RegisterTypes
    <2>2. /\ \A m \in Nodes : boot'[m].pc = "try" => boot'[m].policy \in DesiredPolicies
          /\ \A m \in Nodes : boot'[m].pc \in {"installed", "present"} => register # Register!Absent
        BY <2>1 DEF RegisterInv
    <2> QED BY <1>2, <2>1, <2>2 DEF Register!BootBegin, RegisterInv, RegisterTypes
<1>3. ASSUME NEW n \in Nodes, Register!Lookup(n) PROVE RegisterInv'
    <2>1. register \in [generation : Nat, policy : DesiredPolicies]
        BY <1>3 DEF Register!Lookup, RegisterInv, RegisterTypes
    <2>2. PICK l \in Nat \X DesiredPolicies : l = <<register.generation, register.policy>>
        BY <2>1
    <2>3. looked' = looked \cup {l} /\ \E w \in Nodes \cup Admins : <<l[1], l[2], w>> \in installed
        BY <1>3, <2>2 DEF Register!Lookup, RegisterInv
    <2> QED BY <1>3, <2>3 DEF Register!Lookup, RegisterInv, RegisterTypes
<1>4. ASSUME NEW n \in Nodes, Register!Restart(n) PROVE RegisterInv'
    <2>1. /\ boot' \in [Nodes -> [pc : {"idle", "try", "installed", "present", "failed"},
                                  retries : Nat, policy : DesiredPolicies \cup {"none"}]]
          /\ boot'[n].pc = "idle"
          /\ \A m \in Nodes : m # n => boot'[m] = boot[m]
        BY <1>4 DEF Register!Restart, RegisterInv, RegisterTypes
    <2> QED BY <1>4, <2>1 DEF Register!Restart, RegisterInv, RegisterTypes
<1>5. ASSUME NEW a \in Admins, Register!AdminRead(a) PROVE RegisterInv'
    <2>1. PICK g \in Generations : g = register.generation
        BY DEF RegisterInv, RegisterTypes, Register!Absent, Generations
    <2>2. admin' \in [Admins -> [pc : {"idle", "read"}, expected : Generations, policy : {"none"}]]
        BY <1>5, <2>1 DEF Register!AdminRead, RegisterInv, RegisterTypes
    <2> QED BY <1>5, <2>2 DEF Register!AdminRead, RegisterInv, RegisterTypes
<1>6. ASSUME NEW a \in Admins, NEW state, Register!SetPolicyInvalid(a, state) PROVE RegisterInv'
    BY <1>6 DEF Register!SetPolicyInvalid, RegisterInv, RegisterTypes
<1> QED BY <1>1, <1>2, <1>3, <1>4, <1>5, <1>6, AttemptKeeps, SetPolicyKeeps DEF Register!Next

LEMMA RegisterInvImplies ==
    ASSUME Register!RegisterAssumption, RegisterInv
    PROVE  Register!OnePolicyPerGeneration
<1>1. Register!GenerationsAgree
    <2> DEFINE seen == installed \cup {<<l[1], l[2], "reader">> : l \in looked}
    <2>1. ASSUME NEW x \in seen PROVE \E e \in installed : e[1] = x[1] /\ e[2] = x[2]
        <3>1. CASE x \in installed
            BY <3>1
        <3>2. CASE x \notin installed
            <4>1. PICK l \in looked : x = <<l[1], l[2], "reader">>
                BY <3>2
            <4>2. PICK w \in Nodes \cup Admins : <<l[1], l[2], w>> \in installed
                BY DEF RegisterInv
            <4>3. x[1] = l[1] /\ x[2] = l[2]
                BY <4>1
            <4> QED BY <4>2, <4>3
        <3> QED BY <3>1, <3>2
    <2>2. \A x, y \in seen : x[1] = y[1] => x[2] = y[2]
        <3> SUFFICES ASSUME NEW x \in seen, NEW y \in seen, x[1] = y[1] PROVE x[2] = y[2]
            OBVIOUS
        <3>1. PICK e \in installed : e[1] = x[1] /\ e[2] = x[2]
            BY <2>1
        <3>2. PICK f \in installed : f[1] = y[1] /\ f[2] = y[2]
            BY <2>1
        <3>3. e = f
            BY <3>1, <3>2 DEF RegisterInv
        <3> QED BY <3>1, <3>2, <3>3
    <2> QED BY <2>2 DEF Register!GenerationsAgree
<1>2. Register!AckedIsUnique
    BY DEF RegisterInv, Register!AckedIsUnique
<1>3. Register!BootstrapInitialises
    BY DEF RegisterInv, RegisterTypes, Register!RegisterAssumption, Register!BootstrapInitialises
<1> QED BY <1>1, <1>2, <1>3 DEF Register!OnePolicyPerGeneration

(* A generation has one writer and one policy, an acknowledged set_policy  *)
(* is that writer's, and a bootstrap that returned left a readable policy: *)
(* the compare-and-swap on generations (policy_register.rs) leaves no room *)
(* for a second one, whatever answers are lost.                            *)
THEOREM OneWriterPerGeneration ==
    ASSUME Register!RegisterAssumption PROVE Register!Spec => []OnePolicyPerGeneration
<1>1. Register!Init => RegisterInv
    BY RegisterInvInit
<1>2. RegisterInv /\ [Register!Next]_(Register!vars) => RegisterInv'
    BY RegisterInvNext
<1>3. RegisterInv => OnePolicyPerGeneration
    BY RegisterInvImplies DEF OnePolicyPerGeneration
<1> QED BY <1>1, <1>2, <1>3, PTL DEF Register!Spec
-----------------------------------------------------------------------------
(* InMemCommit.                                                            *)

Outcomes == {"commit", "abort"}

BusEntries ==
    [t : {"batch"}, exp : Nat \cup {None}, new : Nat, pol : Policies \cup {"on", None}]
    \cup [t : {"intention"}, con : {"minimum", "none", "required"}, v : Nat]
    \cup [t : {"vote"}, id : Nat, val : {"yes", "no", "other"}]
    \cup [t : Outcomes, id : Nat]

ReplayState ==
    [next : Nat, v : Nat \cup {None}, pol : Policies \cup {"on", None}, pending : Nat \cup {None}]

CallState ==
    [pc : {"idle", "reading", "replay", "done"}, kind : {"commit", "create"},
     want : [v : Nat, pol : Policies \cup {"on"}], at : Nat, cursor : Nat,
     result : {None, "internal", "ok", "data loss"} \cup Outcomes]

InMemTypes ==
    /\ log \in Seq(BusEntries)
    /\ provider \in [v : Nat, pol : Policies]
    /\ cache \in Nat \cup {None}
    /\ rs \in ReplayState /\ rs.next <= Len(log)
    /\ call \in [Calls -> CallState]
    /\ running \in Calls \cup {None}

Undecided(i) == \A k \in 1 .. Len(log) : Decides(log[k]) # i

(* Decisions are about what replay has reached, one each; the intention    *)
(* that awaits a vote has none.                                            *)
DecisionsFit ==
    /\ \A k \in 1 .. Len(log) : log[k].t \in Outcomes => log[k].id < rs.next
    /\ DecidedOnce
    /\ rs.pending # None => rs.pending < rs.next /\ Undecided(rs.pending)

(* The call that runs replays from where replay stands, and has not passed *)
(* its decision.                                                           *)
RunnerFits ==
    running # None =>
      /\ call[running].pc = "replay" /\ call[running].cursor = rs.next
      /\ call[running].at < Len(log)
      /\ \A k \in 1 .. rs.next : Decides(log[k]) # call[running].at

OnceInv == InMemTypes /\ DecisionsFit /\ RunnerFits

-----------------------------------------------------------------------------
LEMMA EntryKinds ==
    ASSUME InMemAssumption, NEW e \in BusEntries
    PROVE  /\ e.t \in {"batch", "intention", "vote"} \cup Outcomes
           /\ e.t = "batch" => e.exp \in Nat \cup {None} /\ e.new \in Nat /\ e.pol \in Policies \cup {"on", None}
           /\ e.t = "intention" => e.v \in Nat /\ e.con \in {"minimum", "none", "required"}
           /\ e.t = "vote" => e.id \in Nat
           /\ e.t \in Outcomes => e.id \in Nat
           /\ e.t \in Outcomes => Decides(e) = e.id
           /\ e.t \notin Outcomes => Decides(e) = None
           /\ Decides(e) \in Nat => e.t \in Outcomes
<1>1. CASE e \in [t : {"batch"}, exp : Nat \cup {None}, new : Nat, pol : Policies \cup {"on", None}]
    BY <1>1 DEF Outcomes, Decides, InMemAssumption
<1>2. CASE e \in [t : {"intention"}, con : {"minimum", "none", "required"}, v : Nat]
    BY <1>2 DEF Outcomes, Decides, InMemAssumption
<1>3. CASE e \in [t : {"vote"}, id : Nat, val : {"yes", "no", "other"}]
    BY <1>3 DEF Outcomes, Decides, InMemAssumption
<1>4. CASE e \in [t : Outcomes, id : Nat]
    BY <1>4 DEF Outcomes, Decides
<1> QED BY <1>1, <1>2, <1>3, <1>4 DEF BusEntries

LEMMA NewEntries ==
    /\ \A id \in Nat, ok \in BOOLEAN :
         /\ Decision(id, ok) \in BusEntries /\ Decision(id, ok).t \in Outcomes
         /\ Decision(id, ok).id = id /\ (Decision(id, ok).t = "commit" => ok)
    /\ \A exp \in Nat \cup {None}, new \in Nat, pol \in Policies \cup {"on", None} :
         /\ Batch(exp, new, pol) \in BusEntries
         /\ Batch(exp, new, pol).t = "batch" /\ Batch(exp, new, pol).exp = exp
         /\ Batch(exp, new, pol).new = new
    /\ \A con \in {"minimum", "none", "required"}, v \in Nat :
         /\ Intention(con, v) \in BusEntries /\ Intention(con, v).t = "intention"
         /\ Intention(con, v).con = con /\ Intention(con, v).v = v
    /\ \A id \in Nat, val \in {"yes", "no", "other"} :
         Vote(id, val) \in BusEntries /\ Vote(id, val).t = "vote"
<1>1. ASSUME NEW id \in Nat, NEW ok \in BOOLEAN
      PROVE  /\ Decision(id, ok) \in BusEntries /\ Decision(id, ok).t \in Outcomes
             /\ Decision(id, ok).id = id /\ (Decision(id, ok).t = "commit" => ok)
    <2>1. CASE ok = TRUE
        BY <2>1 DEF Decision, BusEntries, Outcomes
    <2>2. CASE ok = FALSE
        BY <2>2 DEF Decision, BusEntries, Outcomes
    <2> QED BY <2>1, <2>2
<1>2. \A exp \in Nat \cup {None}, new \in Nat, pol \in Policies \cup {"on", None} :
         /\ Batch(exp, new, pol) \in BusEntries
         /\ Batch(exp, new, pol).t = "batch" /\ Batch(exp, new, pol).exp = exp
         /\ Batch(exp, new, pol).new = new
    BY DEF Batch, BusEntries
<1>3. \A con \in {"minimum", "none", "required"}, v \in Nat :
         /\ Intention(con, v) \in BusEntries /\ Intention(con, v).t = "intention"
         /\ Intention(con, v).con = con /\ Intention(con, v).v = v
    BY DEF Intention, BusEntries
<1>4. \A id \in Nat, val \in {"yes", "no", "other"} :
         Vote(id, val) \in BusEntries /\ Vote(id, val).t = "vote"
    BY DEF Vote, BusEntries
<1> QED BY <1>1, <1>2, <1>3, <1>4

(* What process_entry makes of the entry replay has reached.               *)
Unmoved(s, t) == t.v = s.v /\ t.pol = s.pol

StepQuiet(s, e, t, out) ==
    /\ e.t # "intention" /\ out = <<>> /\ t.pending \in {s.pending, None}
    /\ \/ e.t = "batch" /\ Applies(s, e) /\ t.v = e.new
       \/ ~ (e.t = "batch" /\ Applies(s, e)) /\ Unmoved(s, t)

StepWaits(s, e, p, t, out) ==
    e.t = "intention" /\ out = <<>> /\ t.pending = p /\ Unmoved(s, t)

StepDecides(s, e, p, t, out) ==
    /\ e.t = "intention" /\ t.pending = s.pending /\ Unmoved(s, t)
    /\ \E d \in BusEntries : /\ out = <<d>> /\ d.t \in Outcomes /\ d.id = p
                             /\ d.t = "commit" => Valid(s, e) /\ s.pol = "on"

StepVotes(s, e, t, out) ==
    /\ e.t = "vote" /\ s.pending = e.id /\ t.pending = None /\ Unmoved(s, t)
    /\ \E d \in BusEntries : out = <<d>> /\ d.t \in Outcomes /\ d.id = e.id

LEMMA EntryProcessed ==
    ASSUME InMemAssumption, NEW s \in ReplayState, NEW e \in BusEntries, NEW p \in Nat
    PROVE  \E t \in ReplayState, out \in Seq(BusEntries) :
             /\ ProcessEntry(s, e, p) = [s |-> t, out |-> out] /\ t.next = s.next
             /\ \/ StepQuiet(s, e, t, out) \/ StepWaits(s, e, p, t, out)
                \/ StepDecides(s, e, p, t, out) \/ StepVotes(s, e, t, out)
<1>0. <<>> \in Seq(BusEntries) /\ \A d \in BusEntries : <<d>> \in Seq(BusEntries)
    OBVIOUS
<1>1. CASE e.t = "batch"
    <2>1. ProcessEntry(s, e, p) = ProcessBatch(s, e)
        BY <1>1 DEF ProcessEntry
    <2>2. CASE ~ Applies(s, e)
        <3>1. ProcessEntry(s, e, p) = [s |-> s, out |-> <<>>]
            BY <2>1, <2>2 DEF ProcessBatch, Quiet
        <3>2. StepQuiet(s, e, s, <<>>)
            BY <1>1, <2>2 DEF StepQuiet, Unmoved
        <3> QED BY <1>0, <3>1, <3>2
    <2>3. CASE Applies(s, e)
        <3>1. e.new \in Nat /\ e.pol \in Policies \cup {"on", None}
            BY <1>1, EntryKinds
        <3>2. PICK pol \in Policies \cup {"on", None} : pol = IF e.pol = None THEN s.pol ELSE e.pol
            BY <3>1 DEF ReplayState
        <3>3. PICK w \in Nat \cup {None} : w = (IF e.pol = None THEN s.pending ELSE None)
            BY DEF ReplayState
        <3>4. PICK t \in ReplayState : t = [s EXCEPT !.v = e.new, !.pol = pol, !.pending = w]
            <4>1. [s EXCEPT !.v = e.new, !.pol = pol, !.pending = w] \in ReplayState
                BY <3>1 DEF ReplayState
            <4> QED BY <4>1
        <3>5. t.v = e.new /\ t.pending = w /\ t.next = s.next
            BY <3>4 DEF ReplayState
        <3>6. ProcessEntry(s, e, p) = [s |-> t, out |-> <<>>]
            BY <2>1, <2>3, <3>2, <3>3, <3>4 DEF ProcessBatch, Quiet
        <3>7. StepQuiet(s, e, t, <<>>)
            BY <1>1, <2>3, <3>3, <3>5 DEF StepQuiet
        <3> QED BY <1>0, <3>5, <3>6, <3>7
    <2> QED BY <2>2, <2>3
<1>2. CASE e.t = "intention"
    <2>1. ProcessEntry(s, e, p) = ProcessIntention(s, e, p)
        BY <1>2 DEF ProcessEntry
    <2>2. CASE Valid(s, e) /\ s.pol = "first"
        <3>1. PICK t \in ReplayState : t = [s EXCEPT !.pending = p]
            <4>1. [s EXCEPT !.pending = p] \in ReplayState
                BY DEF ReplayState
            <4> QED BY <4>1
        <3>2. t.next = s.next /\ t.pending = p /\ t.v = s.v /\ t.pol = s.pol
            BY <3>1 DEF ReplayState
        <3>3. ProcessEntry(s, e, p) = [s |-> t, out |-> <<>>]
            BY <2>1, <2>2, <3>1 DEF ProcessIntention, Quiet
        <3>4. StepWaits(s, e, p, t, <<>>)
            BY <1>2, <3>2 DEF StepWaits, Unmoved
        <3> QED BY <1>0, <3>2, <3>3, <3>4
    <2>3. CASE ~ (Valid(s, e) /\ s.pol = "first")
        <3> DEFINE d == Decision(p, Valid(s, e) /\ s.pol = "on")
        <3>1. d \in BusEntries /\ d.t \in Outcomes /\ d.id = p
              /\ (d.t = "commit" => Valid(s, e) /\ s.pol = "on")
            <4>1. (Valid(s, e) /\ s.pol = "on") \in BOOLEAN
                OBVIOUS
            <4> QED BY <4>1, NewEntries, Zenon
        <3>2. ProcessEntry(s, e, p) = [s |-> s, out |-> <<d>>]
            BY <2>1, <2>3 DEF ProcessIntention
        <3> HIDE DEF d
        <3>3. StepDecides(s, e, p, s, <<d>>)
            BY <1>2, <3>1 DEF StepDecides, Unmoved
        <3> QED BY <1>0, <3>1, <3>2, <3>3
    <2> QED BY <2>2, <2>3
<1>3. CASE e.t = "vote"
    <2>1. ProcessEntry(s, e, p) = ProcessVote(s, e)
        BY <1>3 DEF ProcessEntry
    <2>2. CASE s.pending = e.id /\ e.val \in {"yes", "no"}
        <3> DEFINE d == Decision(e.id, e.val = "yes")
        <3>1. d \in BusEntries /\ d.t \in Outcomes /\ d.id = e.id
            <4>1. e.id \in Nat /\ (e.val = "yes") \in BOOLEAN
                BY <1>3, EntryKinds
            <4> QED BY <4>1, NewEntries, Zenon
        <3>2. PICK t \in ReplayState : t = [s EXCEPT !.pending = None]
            <4>1. [s EXCEPT !.pending = None] \in ReplayState
                BY DEF ReplayState
            <4> QED BY <4>1
        <3>3. t.next = s.next /\ t.pending = None /\ t.v = s.v /\ t.pol = s.pol
            BY <3>2 DEF ReplayState
        <3>4. ProcessEntry(s, e, p) = [s |-> t, out |-> <<d>>]
            BY <2>1, <2>2, <3>2 DEF ProcessVote
        <3> HIDE DEF d
        <3>5. StepVotes(s, e, t, <<d>>)
            BY <1>3, <2>2, <3>1, <3>3 DEF StepVotes, Unmoved
        <3> QED BY <1>0, <3>1, <3>3, <3>4, <3>5
    <2>3. CASE ~ (s.pending = e.id /\ e.val \in {"yes", "no"})
        <3>1. ProcessEntry(s, e, p) = [s |-> s, out |-> <<>>]
            BY <2>1, <2>3 DEF ProcessVote, Quiet
        <3>2. StepQuiet(s, e, s, <<>>)
            BY <1>3 DEF StepQuiet, Unmoved
        <3> QED BY <1>0, <3>1, <3>2
    <2> QED BY <2>2, <2>3
<1>4. CASE e.t \in Outcomes
    <2>1. PICK w \in {s.pending, None} : w = (IF s.pending = e.id THEN None ELSE s.pending)
        OBVIOUS
    <2>2. PICK t \in ReplayState : t = [s EXCEPT !.pending = w]
        <3>1. w \in Nat \cup {None}
            BY <2>1 DEF ReplayState
        <3>2. [s EXCEPT !.pending = w] \in ReplayState
            BY <3>1 DEF ReplayState
        <3> QED BY <3>2
    <2>3. t.next = s.next /\ t.pending = w /\ t.v = s.v /\ t.pol = s.pol
        BY <2>2 DEF ReplayState
    <2>4. ProcessEntry(s, e, p) = [s |-> t, out |-> <<>>]
        BY <1>4, <2>1, <2>2 DEF ProcessEntry, Quiet, Outcomes
    <2>5. StepQuiet(s, e, t, <<>>)
        BY <1>4, <2>1, <2>3 DEF StepQuiet, Unmoved, Outcomes
    <2> QED BY <1>0, <2>3, <2>4, <2>5
<1> QED BY <1>1, <1>2, <1>3, <1>4, EntryKinds
-----------------------------------------------------------------------------
(* The log grows.                                                          *)
LEMMA Grown ==
    ASSUME InMemTypes, NEW e \in BusEntries, log' = Append(log, e)
    PROVE  /\ Len(log) \in Nat /\ Len(log') = Len(log) + 1 /\ log' \in Seq(BusEntries)
           /\ \A k \in 1 .. Len(log) : log'[k] = log[k] /\ log[k] \in BusEntries
           /\ log'[Len(log) + 1] = e
           /\ \A k \in 1 .. Len(log') : k \in 1 .. Len(log) \/ k = Len(log) + 1
BY DEF InMemTypes

LEMMA InLog ==
    ASSUME InMemTypes
    PROVE  Len(log) \in Nat /\ \A k \in 1 .. Len(log) : log[k] \in BusEntries
BY DEF InMemTypes

(* Entries that decide nothing.                                            *)
PlainGrowth ==
    /\ log' \in Seq(BusEntries) /\ Len(log) \in Nat /\ Len(log') \in Nat /\ Len(log) <= Len(log')
    /\ \A k \in 1 .. Len(log) : log'[k] = log[k]
    /\ \A k \in 1 .. Len(log') : k \in 1 .. Len(log) \/ log'[k].t \notin Outcomes

LEMMA PlainEntries ==
    ASSUME InMemAssumption, InMemTypes, DecisionsFit, PlainGrowth, UNCHANGED rs
    PROVE  DecisionsFit' /\ rs'.next <= Len(log')
<1>1. \A k \in 1 .. Len(log') : k \in 1 .. Len(log) \/ Decides(log'[k]) = None
    BY EntryKinds DEF PlainGrowth
<1>2. \A k \in 1 .. Len(log') : log'[k].t \in Outcomes => log'[k].id < rs'.next
    BY DEF DecisionsFit, PlainGrowth
<1>3. DecidedOnce'
    BY <1>1 DEF DecisionsFit, DecidedOnce, PlainGrowth
<1>4. rs'.pending # None => rs'.pending < rs'.next /\ Undecided(rs.pending)'
    BY <1>1 DEF DecisionsFit, Undecided, PlainGrowth
<1>5. rs'.next <= Len(log')
    BY DEF InMemTypes, ReplayState, PlainGrowth
<1> QED BY <1>2, <1>3, <1>4, <1>5 DEF DecisionsFit

LEMMA PlainOne ==
    ASSUME InMemTypes, NEW e \in BusEntries, e.t \notin Outcomes, log' = Append(log, e)
    PROVE  PlainGrowth
BY Grown DEF PlainGrowth

LEMMA PlainNone ==
    ASSUME InMemTypes, UNCHANGED log
    PROVE  PlainGrowth
BY DEF PlainGrowth, InMemTypes

(* A decision on what has none.                                            *)
LEMMA FreshDecision ==
    ASSUME InMemAssumption, InMemTypes, DecisionsFit, NEW d \in BusEntries, d.t \in Outcomes,
           Undecided(d.id), log' = Append(log, d),
           rs' \in ReplayState, rs.next <= rs'.next, d.id < rs'.next,
           rs'.pending = None \/ (rs'.pending = rs.pending /\ rs.pending # d.id)
    PROVE  DecisionsFit'
<1>1. Decides(d) = d.id /\ d.id \in Nat
    BY EntryKinds
<1>2. \A k \in 1 .. Len(log) : log[k].t \in Outcomes => log[k].id \in Nat
    BY InLog, EntryKinds
<1>3. \A k \in 1 .. Len(log') : log'[k].t \in Outcomes => log'[k].id < rs'.next
    BY <1>2, Grown DEF DecisionsFit, InMemTypes, ReplayState
<1>4. DecidedOnce'
    <2> SUFFICES ASSUME NEW i \in 1 .. Len(log'), NEW j \in 1 .. Len(log'),
                        Decides(log'[i]) # None, Decides(log'[i]) = Decides(log'[j])
                 PROVE  i = j
        BY DEF DecidedOnce
    <2>1. \A k \in 1 .. Len(log) : Decides(log'[k]) = Decides(log[k]) /\ Decides(log[k]) # d.id
        BY Grown DEF Undecided
    <2>2. Decides(log'[Len(log) + 1]) = d.id
        BY <1>1, Grown
    <2>3. CASE i \in 1 .. Len(log) /\ j \in 1 .. Len(log)
        BY <2>1, <2>3 DEF DecisionsFit, DecidedOnce
    <2> QED BY <2>1, <2>2, <2>3, Grown
<1>5. rs'.pending # None => rs'.pending < rs'.next /\ Undecided(rs.pending)'
    <2> HAVE rs'.pending # None
    <2>1. rs'.pending = rs.pending /\ rs.pending # d.id /\ rs.pending < rs.next /\ Undecided(rs.pending)
        BY DEF DecisionsFit
    <2>2. rs.pending \in Nat
        BY <2>1 DEF InMemTypes, ReplayState
    <2>3. rs'.pending < rs'.next
        BY <2>1, <2>2 DEF InMemTypes, ReplayState
    <2>4. \A k \in 1 .. Len(log') : Decides(log'[k]) # rs'.pending
        BY <1>1, <2>1, Grown DEF Undecided
    <2> QED BY <2>3, <2>4 DEF Undecided
<1> QED BY <1>3, <1>4, <1>5 DEF DecisionsFit

(* What one entry of the replay loop does.                                 *)
LEMMA Replayed ==
    ASSUME InMemAssumption, OnceInv, NEW c \in Calls, ReplayEntry(c)
    PROVE  /\ running = c /\ call[c].cursor = rs.next /\ rs.next \in Nat /\ rs.next < Len(log)
           /\ log[rs.next + 1] \in BusEntries
           /\ \E t \in ReplayState, out \in Seq(BusEntries) :
                /\ log' = log \o out /\ t.next = rs.next
                /\ rs' = [t EXCEPT !.next = rs.next + 1]
                /\ \/ StepQuiet(rs, log[rs.next + 1], t, out)
                   \/ StepWaits(rs, log[rs.next + 1], rs.next, t, out)
                   \/ StepDecides(rs, log[rs.next + 1], rs.next, t, out)
                   \/ StepVotes(rs, log[rs.next + 1], t, out)
           /\ rs' \in ReplayState /\ rs'.next = rs.next + 1
           /\ IF Decides(log[rs.next + 1]) = call[c].at
              THEN Finish(c, log[rs.next + 1].t) /\ running' = None
              ELSE call' = [call EXCEPT ![c].cursor = rs.next + 1] /\ running' = running
           /\ UNCHANGED <<base, provider, cache>>
<1>1. running = c /\ c # None
    BY DEF ReplayEntry, InMemAssumption
<1>2. call[c].cursor = rs.next /\ rs \in ReplayState /\ rs.next \in Nat
    BY <1>1 DEF OnceInv, RunnerFits, InMemTypes, ReplayState
<1>3. rs.next < Len(log)
    BY <1>2 DEF ReplayEntry
<1>4. PICK e \in BusEntries : e = log[rs.next + 1]
    BY <1>2, <1>3 DEF OnceInv, InMemTypes
<1>5. PICK t \in ReplayState, out \in Seq(BusEntries) :
        /\ ProcessEntry(rs, e, rs.next) = [s |-> t, out |-> out] /\ t.next = rs.next
        /\ \/ StepQuiet(rs, e, t, out) \/ StepWaits(rs, e, rs.next, t, out)
           \/ StepDecides(rs, e, rs.next, t, out) \/ StepVotes(rs, e, t, out)
    BY <1>2, EntryProcessed
<1>6. rs.next >= rs.next
    BY <1>2
<1>7. /\ log' = log \o ProcessEntry(rs, e, rs.next).out
      /\ rs' = [ProcessEntry(rs, e, rs.next).s EXCEPT !.next = rs.next + 1]
      /\ IF Decides(e) = call[c].at
         THEN Finish(c, e.t) /\ running' = None
         ELSE call' = [call EXCEPT ![c].cursor = rs.next + 1] /\ running' = running
      /\ UNCHANGED <<base, provider, cache>>
    BY <1>2, <1>4, <1>6 DEF ReplayEntry
<1>8. log' = log \o out /\ rs' = [t EXCEPT !.next = rs.next + 1]
    BY <1>5, <1>7
<1>9. rs' \in ReplayState /\ rs'.next = rs.next + 1
    <2>1. PICK n \in Nat : n = rs.next + 1
        BY <1>2
    <2>2. [t EXCEPT !.next = n] \in ReplayState /\ [t EXCEPT !.next = n].next = n
        BY DEF ReplayState
    <2> QED BY <1>8, <2>1, <2>2
<1> QED BY <1>1, <1>2, <1>3, <1>4, <1>5, <1>7, <1>8, <1>9

(* The log after an entry that appends nothing, or one decision.           *)
LEMMA Appended ==
    ASSUME InMemTypes
    PROVE  log \o <<>> = log /\ \A d \in BusEntries : log \o <<d>> = Append(log, d)
BY DEF InMemTypes

LEMMA ReplayKeepsOnce ==
    ASSUME InMemAssumption, OnceInv, NEW c \in Calls, ReplayEntry(c)
    PROVE  OnceInv'
<1> DEFINE p == rs.next
           e == log[p + 1]
<1>1. /\ running = c /\ call[c].cursor = p /\ p \in Nat /\ p < Len(log) /\ e \in BusEntries
      /\ rs' \in ReplayState /\ rs'.next = p + 1
      /\ IF Decides(e) = call[c].at
         THEN Finish(c, e.t) /\ running' = None
         ELSE call' = [call EXCEPT ![c].cursor = p + 1] /\ running' = running
      /\ UNCHANGED <<base, provider, cache>>
    BY Replayed
<1>2. PICK t \in ReplayState, out \in Seq(BusEntries) :
        /\ log' = log \o out /\ t.next = p /\ rs' = [t EXCEPT !.next = p + 1]
        /\ \/ StepQuiet(rs, e, t, out) \/ StepWaits(rs, e, p, t, out)
           \/ StepDecides(rs, e, p, t, out) \/ StepVotes(rs, e, t, out)
    BY Replayed
<1>3. InMemTypes /\ DecisionsFit /\ RunnerFits /\ Len(log) \in Nat
    BY InLog DEF OnceInv
<1>4. rs'.pending = t.pending
    BY <1>2 DEF ReplayState
<1>5. rs \in ReplayState /\ rs.pending \in Nat \cup {None} /\ None \notin Nat
    BY <1>3 DEF InMemTypes, ReplayState, InMemAssumption
<1> HIDE DEF p, e
<1>6. /\ DecisionsFit' /\ log' \in Seq(BusEntries) /\ Len(log') >= Len(log)
      /\ \A k \in 1 .. Len(log) : log'[k] = log[k]
    <2>1. CASE StepQuiet(rs, e, t, out)
        <3>1. log' = log /\ rs'.pending \in {rs.pending, None}
            BY <1>2, <1>3, <1>4, <2>1, Appended DEF StepQuiet
        <3>2. \A k \in 1 .. Len(log) : log[k].t \in Outcomes => log[k].id \in Nat
            BY <1>3, InLog, EntryKinds
        <3>3. \A k \in 1 .. Len(log) : log[k].t \in Outcomes => log[k].id < rs'.next
            BY <1>1, <1>3, <3>2 DEF DecisionsFit, p
        <3>4. rs'.pending # None => rs'.pending < rs'.next /\ Undecided(rs'.pending)
            BY <1>1, <1>3, <1>5, <3>1 DEF DecisionsFit, p
        <3> QED BY <1>3, <3>1, <3>3, <3>4 DEF DecisionsFit, DecidedOnce, Undecided, InMemTypes
    <2>2. CASE StepWaits(rs, e, p, t, out)
        <3>1. log' = log /\ rs'.pending = p
            BY <1>2, <1>3, <1>4, <2>2, Appended DEF StepWaits
        <3>2. \A k \in 1 .. Len(log) : log[k].t \in Outcomes => log[k].id \in Nat
            BY <1>3, InLog, EntryKinds
        <3>3. \A k \in 1 .. Len(log) : log[k].t \in Outcomes => log[k].id < rs'.next /\ log[k].id # p
            BY <1>1, <1>3, <3>2 DEF DecisionsFit, p
        <3>4. Undecided(p)
            BY <1>1, <1>3, <1>5, <3>3, InLog, EntryKinds DEF Undecided
        <3> QED BY <1>1, <1>3, <3>1, <3>3, <3>4 DEF DecisionsFit, DecidedOnce, Undecided, InMemTypes
    <2>3. CASE StepDecides(rs, e, p, t, out)
        <3>1. PICK d \in BusEntries : out = <<d>> /\ d.t \in Outcomes /\ d.id = p
            BY <2>3 DEF StepDecides
        <3>2. log' = Append(log, d) /\ rs'.pending = rs.pending
            BY <1>2, <1>3, <1>4, <2>3, <3>1, Appended DEF StepDecides
        <3>3. \A k \in 1 .. Len(log) : log[k].t \in Outcomes => log[k].id \in Nat
            BY <1>3, InLog, EntryKinds
        <3>4. \A k \in 1 .. Len(log) : log[k].t \in Outcomes => log[k].id # p
            BY <1>1, <1>3, <3>3 DEF DecisionsFit, p
        <3>5. Undecided(p)
            BY <1>1, <1>3, <1>5, <3>4, InLog, EntryKinds DEF Undecided
        <3>6. rs.pending # p
            BY <1>1, <1>3, <1>5 DEF DecisionsFit, p
        <3>7. rs.next <= rs'.next /\ p < rs'.next
            BY <1>1 DEF p
        <3>8. DecisionsFit'
            BY <1>1, <1>3, <3>1, <3>2, <3>5, <3>6, <3>7, FreshDecision
        <3> QED BY <1>3, <3>2, <3>8, Grown
    <2>4. CASE StepVotes(rs, e, t, out)
        <3>1. PICK d \in BusEntries : out = <<d>> /\ d.t \in Outcomes /\ d.id = e.id
            BY <2>4 DEF StepVotes
        <3>2. /\ log' = Append(log, d) /\ rs'.pending = None /\ rs.pending = e.id /\ e.id \in Nat
            BY <1>1, <1>2, <1>3, <1>4, <2>4, <3>1, Appended, EntryKinds DEF StepVotes
        <3>3. Undecided(e.id) /\ e.id < rs.next
            BY <1>3, <1>5, <3>2 DEF DecisionsFit
        <3>4. rs.next <= rs'.next /\ e.id < rs'.next
            BY <1>1, <3>2, <3>3 DEF p
        <3>5. DecisionsFit'
            BY <1>1, <1>3, <3>1, <3>2, <3>3, <3>4, FreshDecision
        <3> QED BY <1>3, <3>2, <3>5, Grown
    <2> QED BY <1>2, <2>1, <2>2, <2>3, <2>4
<1>7. PICK n \in Nat : n = p + 1 /\ n <= Len(log') /\ n <= Len(log)
    BY <1>1, <1>3, <1>6
<1>8. call' \in [Calls -> CallState] /\ running' \in Calls \cup {None}
    <2>1. CASE Decides(e) = call[c].at
        <3>1. e.t \in Outcomes
            <4>1. call[c].at \in Nat
                BY <1>3 DEF InMemTypes, CallState
            <4> QED BY <1>1, <2>1, <4>1, EntryKinds
        <3>2. call' = [call EXCEPT ![c].pc = "done", ![c].result = e.t] /\ running' = None
            BY <1>1, <2>1 DEF Finish
        <3>3. PICK x \in CallState : x = [call[c] EXCEPT !.pc = "done", !.result = e.t]
            <4>1. \A y \in CallState : [y EXCEPT !.pc = "done", !.result = e.t] \in CallState
                BY <3>1 DEF CallState
            <4> QED BY <1>3, <4>1 DEF InMemTypes
        <3>4. call' = [call EXCEPT ![c] = x]
            BY <1>3, <3>2, <3>3 DEF InMemTypes
        <3> QED BY <1>3, <3>2, <3>4 DEF InMemTypes
    <2>2. CASE Decides(e) # call[c].at
        <3>1. call' = [call EXCEPT ![c].cursor = n] /\ running' = running
            BY <1>1, <1>7, <2>2
        <3>2. PICK x \in CallState : x = [call[c] EXCEPT !.cursor = n]
            <4>1. \A y \in CallState : [y EXCEPT !.cursor = n] \in CallState
                BY DEF CallState
            <4> QED BY <1>3, <4>1 DEF InMemTypes
        <3>3. call' = [call EXCEPT ![c] = x]
            BY <1>3, <3>1, <3>2 DEF InMemTypes
        <3> QED BY <1>3, <3>1, <3>3 DEF InMemTypes
    <2> QED BY <2>1, <2>2
<1>9. InMemTypes'
    BY <1>1, <1>3, <1>6, <1>7, <1>8 DEF InMemTypes
<1>10. RunnerFits'
    <2>1. CASE Decides(e) = call[c].at
        BY <1>1, <2>1 DEF RunnerFits
    <2>2. CASE Decides(e) # call[c].at
        <3>1. call' = [call EXCEPT ![c].cursor = n] /\ running' = c
            BY <1>1, <1>7, <2>2
        <3>2. PICK x \in CallState : x = call[c]
            BY <1>3 DEF InMemTypes
        <3>3. call'[c] = [x EXCEPT !.cursor = n]
            BY <1>3, <3>1, <3>2 DEF InMemTypes
        <3>4. call'[c].cursor = n /\ call'[c].at = x.at /\ call'[c].pc = x.pc
            BY <3>3 DEF CallState
        <3>5. /\ x.pc = "replay" /\ x.at < Len(log) /\ x.at \in Nat
              /\ \A k \in 1 .. p : Decides(log[k]) # x.at
            BY <1>1, <1>3, <3>2 DEF RunnerFits, InMemAssumption, p, CallState
        <3>6. \A k \in 1 .. n : Decides(log'[k]) # x.at
            <4> SUFFICES ASSUME NEW k \in 1 .. n PROVE Decides(log'[k]) # x.at
                OBVIOUS
            <4>1. k \in 1 .. Len(log) /\ log'[k] = log[k]
                BY <1>3, <1>6, <1>7
            <4>2. k \in 1 .. p \/ k = p + 1
                BY <1>1, <1>7
            <4> QED BY <2>2, <3>2, <3>5, <4>1, <4>2 DEF e
        <3>7. x.at < Len(log')
            BY <1>3, <1>6, <3>5
        <3> QED BY <1>1, <1>7, <3>1, <3>4, <3>5, <3>6, <3>7 DEF RunnerFits
    <2> QED BY <2>1, <2>2
<1> QED BY <1>6, <1>9, <1>10 DEF OnceInv
LEMMA DrainedKeepsOnce ==
    ASSUME InMemAssumption, OnceInv, NEW c \in Calls, Drained(c)
    PROVE  OnceInv'
<1>1. InMemTypes /\ DecisionsFit /\ RunnerFits /\ Len(log) \in Nat /\ None \notin Nat
    BY InLog DEF OnceInv, InMemAssumption
<1>2. running = c /\ c # None
    BY DEF Drained, InMemAssumption
<1>3. PICK x \in CallState : x = call[c]
    BY <1>1 DEF InMemTypes
<1>4. /\ x.pc = "replay" /\ x.cursor = rs.next /\ x.at < Len(log) /\ x.at \in Nat
      /\ rs.next = Len(log) /\ \A k \in 1 .. rs.next : Decides(log[k]) # x.at
    <2>1. /\ x.pc = "replay" /\ x.cursor = rs.next /\ x.at < Len(log)
          /\ \A k \in 1 .. rs.next : Decides(log[k]) # x.at
        BY <1>1, <1>2, <1>3 DEF RunnerFits
    <2>2. x.at \in Nat /\ rs.next \in Nat /\ rs.next <= Len(log)
        BY <1>1 DEF InMemTypes, CallState, ReplayState
    <2>3. rs.next >= Len(log)
        BY <1>3, <2>1 DEF Drained
    <2> QED BY <1>1, <2>1, <2>2, <2>3
<1>5. PICK d \in BusEntries : d = Decision(x.at, FALSE) /\ d.t \in Outcomes /\ d.id = x.at
    BY <1>4, NewEntries
<1>6. log' = Append(log, d) /\ UNCHANGED <<base, provider, cache, call, running>>
    BY <1>3, <1>5 DEF Drained
<1>7. /\ rs' \in ReplayState /\ rs'.next = rs.next
      /\ rs'.pending = None \/ (rs'.pending = rs.pending /\ rs.pending # x.at)
    <2>1. rs \in ReplayState
        BY <1>1 DEF InMemTypes
    <2>2. CASE rs.pending = x.at
        <3>1. rs' = [rs EXCEPT !.pending = None]
            BY <1>3, <2>2 DEF Drained
        <3> QED BY <2>1, <3>1 DEF ReplayState
    <2>3. CASE rs.pending # x.at
        BY <1>3, <2>1, <2>3 DEF Drained
    <2> QED BY <2>2, <2>3
<1>8. Undecided(x.at)
    BY <1>4 DEF Undecided
<1>9. rs.next <= rs'.next /\ x.at < rs'.next
    BY <1>1, <1>4, <1>7
<1>10. DecisionsFit'
    BY <1>1, <1>5, <1>6, <1>7, <1>8, <1>9, FreshDecision
<1>11. InMemTypes'
    BY <1>1, <1>4, <1>6, <1>7, Grown DEF InMemTypes
<1>12. RunnerFits'
    BY <1>1, <1>2, <1>3, <1>4, <1>6, <1>7, Grown DEF RunnerFits
<1> QED BY <1>10, <1>11, <1>12 DEF OnceInv

(* commit_intention: a batch if the policy is newer, and the intention.    *)
LEMMA Committed ==
    ASSUME InMemAssumption, InMemTypes, NEW c \in Calls, CommitIntention(c)
    PROVE  \E x \in CallState :
             /\ x = call[c] /\ PlainGrowth
             /\ \/ /\ cache \in Nat /\ ~ (x.want.v > cache) /\ cache' = cache
                   /\ log' = Append(log, Intention("minimum", x.want.v))
                \/ /\ cache = None \/ x.want.v > cache
                   /\ cache' = x.want.v
                   /\ log' = Append(Append(log, Batch(cache, x.want.v, x.want.pol)),
                                    Intention("minimum", x.want.v))
             /\ Len(log') \in Nat \ {0} /\ log'[Len(log')] = Intention("minimum", x.want.v)
             /\ Len(log) < Len(log')
             /\ rs.next \in Nat /\ rs.next <= Len(log') - 1
             /\ call' \in [Calls -> CallState] /\ call'[c].want = x.want
             /\ call'[c].pc = "replay" /\ call'[c].at = Len(log') - 1 /\ call'[c].cursor = rs.next
             /\ running' = c /\ UNCHANGED <<base, provider, rs>>
<1>1. Len(log) \in Nat /\ None \notin Nat /\ log \in Seq(BusEntries)
    BY InLog DEF InMemAssumption, InMemTypes
<1>2. PICK x \in CallState : x = call[c]
    BY DEF InMemTypes
<1>3. /\ x.want.v \in Nat /\ x.want.pol \in Policies \cup {"on", None}
      /\ cache \in Nat \cup {None} /\ rs.next \in Nat /\ rs.next <= Len(log)
    BY DEF CallState, InMemTypes, ReplayState
<1>4. PICK i \in BusEntries : i = Intention("minimum", x.want.v) /\ i.t \notin Outcomes
    BY <1>3, NewEntries DEF Outcomes
<1>5. PICK b \in BusEntries : b = Batch(cache, x.want.v, x.want.pol) /\ b.t \notin Outcomes
    BY <1>3, NewEntries DEF Outcomes
<1>6. PICK l, h : l = Reconcile(x.want).log /\ h = Reconcile(x.want).cache
    OBVIOUS
<1>7. \/ ~ (cache = None \/ x.want.v > cache) /\ l = log /\ h = cache
      \/ (cache = None \/ x.want.v > cache) /\ l = Append(log, b) /\ h = x.want.v
    BY <1>5, <1>6 DEF Reconcile
<1>8. /\ l \in Seq(BusEntries) /\ Len(l) \in Nat /\ Len(log) <= Len(l)
      /\ \A k \in 1 .. Len(log) : l[k] = log[k]
      /\ \A k \in 1 .. Len(l) : k \in 1 .. Len(log) \/ l[k].t \notin Outcomes
    <2>1. CASE l = log
        BY <1>1, <2>1
    <2>2. CASE l = Append(log, b)
        BY <1>1, <1>5, <2>2
    <2> QED BY <1>7, <2>1, <2>2
<1>9. /\ log' = Append(l, i) /\ cache' = h
      /\ call' = [call EXCEPT ![c].pc = "replay", ![c].at = Len(l),
                    ![c].cursor = IF rs.next < Len(l) THEN rs.next ELSE Len(l)]
      /\ running' = c /\ running = None /\ UNCHANGED <<base, provider, rs>>
    BY <1>2, <1>4, <1>6 DEF CommitIntention
<1>10. /\ log' \in Seq(BusEntries) /\ Len(log') = Len(l) + 1 /\ log'[Len(l) + 1] = i
       /\ \A k \in 1 .. Len(l) : log'[k] = l[k]
    BY <1>8, <1>9
<1>11. PlainGrowth
    <2>1. \A k \in 1 .. Len(log) : log'[k] = log[k]
        BY <1>1, <1>8, <1>10
    <2>2. \A k \in 1 .. Len(log') : k \in 1 .. Len(log) \/ log'[k].t \notin Outcomes
        <3> SUFFICES ASSUME NEW k \in 1 .. Len(log') PROVE k \in 1 .. Len(log) \/ log'[k].t \notin Outcomes
            OBVIOUS
        <3>1. k \in 1 .. Len(l) \/ k = Len(l) + 1
            BY <1>8, <1>10
        <3> QED BY <1>4, <1>8, <1>10, <3>1
    <2> QED BY <1>1, <1>8, <1>10, <2>1, <2>2 DEF PlainGrowth
<1>12. PICK n \in Nat : n = Len(l)
    BY <1>8
<1>13. call' = [call EXCEPT ![c].pc = "replay", ![c].at = n, ![c].cursor = rs.next]
    <2>1. (IF rs.next < Len(l) THEN rs.next ELSE Len(l)) = rs.next
        BY <1>1, <1>3, <1>8
    <2> QED BY <1>9, <1>12, <2>1
<1>14. PICK y \in CallState : y = [x EXCEPT !.pc = "replay", !.at = n, !.cursor = rs.next]
    <2>1. [x EXCEPT !.pc = "replay", !.at = n, !.cursor = rs.next] \in CallState
        BY <1>3 DEF CallState
    <2> QED BY <2>1
<1>15. y.pc = "replay" /\ y.at = n /\ y.cursor = rs.next /\ y.want = x.want
    BY <1>14 DEF CallState
<1>16. call' = [call EXCEPT ![c] = y]
    BY <1>2, <1>13, <1>14 DEF InMemTypes
<1>17. call' \in [Calls -> CallState] /\ call'[c] = y
    BY <1>16 DEF InMemTypes
<1>18. n = Len(log') - 1 /\ rs.next <= Len(log') - 1 /\ Len(log') \in Nat \ {0} /\ Len(log) < Len(log')
       /\ log'[Len(log')] = i
    BY <1>1, <1>3, <1>8, <1>10, <1>12
<1>19. \/ cache \in Nat /\ ~ (x.want.v > cache) /\ cache' = cache /\ log' = Append(log, i)
       \/ /\ cache = None \/ x.want.v > cache
          /\ cache' = x.want.v /\ log' = Append(Append(log, b), i)
    BY <1>3, <1>7, <1>9
<1> QED BY <1>2, <1>3, <1>4, <1>5, <1>9, <1>11, <1>15, <1>17, <1>18, <1>19

LEMMA CommitKeepsOnce ==
    ASSUME InMemAssumption, OnceInv, NEW c \in Calls, CommitIntention(c)
    PROVE  OnceInv'
<1>1. InMemTypes /\ DecisionsFit /\ None \notin Nat /\ Len(log) \in Nat
    BY InLog DEF OnceInv, InMemAssumption
<1>2. /\ PlainGrowth /\ cache' \in Nat \cup {None}
      /\ Len(log') \in Nat \ {0} /\ Len(log) < Len(log') /\ rs.next \in Nat /\ rs.next <= Len(log') - 1
      /\ call' \in [Calls -> CallState]
      /\ call'[c].pc = "replay" /\ call'[c].at = Len(log') - 1 /\ call'[c].cursor = rs.next
      /\ running' = c /\ UNCHANGED <<base, provider, rs>>
    <2>1. \A x \in CallState : x.want.v \in Nat
        BY DEF CallState
    <2> QED BY <1>1, <2>1, Committed
<1>3. DecisionsFit' /\ rs'.next <= Len(log')
    BY <1>1, <1>2, PlainEntries
<1>4. InMemTypes'
    BY <1>1, <1>2, <1>3 DEF InMemTypes, PlainGrowth
<1>5. \A k \in 1 .. rs.next : Decides(log'[k]) # call'[c].at
    <2> SUFFICES ASSUME NEW k \in 1 .. rs.next PROVE Decides(log'[k]) # call'[c].at
        OBVIOUS
    <2>1. k \in 1 .. Len(log) /\ log'[k] = log[k]
        BY <1>1, <1>2 DEF InMemTypes, PlainGrowth, ReplayState
    <2>2. log[k] \in BusEntries
        BY <1>1, <2>1, InLog
    <2>3. CASE log[k].t \in Outcomes
        <3>1. Decides(log[k]) = log[k].id /\ log[k].id \in Nat /\ log[k].id < rs.next
            BY <1>1, <2>1, <2>2, <2>3, EntryKinds DEF DecisionsFit
        <3> QED BY <1>2, <2>1, <3>1
    <2>4. CASE log[k].t \notin Outcomes
        BY <1>1, <1>2, <2>1, <2>2, <2>4, EntryKinds
    <2> QED BY <2>3, <2>4
<1>6. RunnerFits'
    BY <1>2, <1>5 DEF RunnerFits
<1> QED BY <1>3, <1>4, <1>6 DEF OnceInv

(* Steps of calls that do not run, and of the environment.                 *)
LEMMA OthersKeepOnce ==
    ASSUME InMemAssumption, OnceInv, PlainGrowth, UNCHANGED rs,
           provider' \in [v : Nat, pol : Policies], cache' \in Nat \cup {None},
           call' \in [Calls -> CallState],
           \/ running' = None
           \/ UNCHANGED running /\ running \in Calls /\ call'[running] = call[running]
    PROVE  OnceInv'
<1>1. InMemTypes /\ DecisionsFit /\ RunnerFits
    BY DEF OnceInv
<1>2. DecisionsFit' /\ rs'.next <= Len(log')
    BY <1>1, PlainEntries
<1>3. InMemTypes'
    BY <1>1, <1>2 DEF InMemTypes, PlainGrowth
<1>4. RunnerFits'
    <2>1. CASE running' = None
        BY <2>1 DEF RunnerFits
    <2>2. CASE /\ UNCHANGED running /\ running \in Calls /\ running # None
               /\ call'[running] = call[running]
        <3>1. \A k \in 1 .. rs.next : k \in 1 .. Len(log) /\ log'[k] = log[k]
            BY <1>1 DEF PlainGrowth, InMemTypes, ReplayState
        <3>2. PICK x \in CallState : x = call[running]
            BY <1>1, <2>2 DEF InMemTypes
        <3>3. x.at \in Nat /\ x.at < Len(log) /\ x.at < Len(log')
            <4>1. x.at \in Nat
                BY DEF CallState
            <4>2. x.at < Len(log)
                BY <1>1, <2>2, <3>2 DEF RunnerFits
            <4>3. Len(log) \in Nat /\ Len(log') \in Nat /\ Len(log) <= Len(log')
                BY DEF PlainGrowth
            <4> QED BY <4>1, <4>2, <4>3
        <3> QED BY <1>1, <2>2, <3>1, <3>2, <3>3 DEF RunnerFits
    <2> QED BY <2>1, <2>2
<1> QED BY <1>2, <1>3, <1>4 DEF OnceInv
(* Which steps those are.                                                  *)
LEMMA PlainSteps ==
    ASSUME InMemAssumption, OnceInv,
           \/ \E c \in Calls : Begin(c, "commit") \/ Begin(c, "create") \/ RejectPolicy(c)
                               \/ CreateBus(c) \/ DataLoss(c)
           \/ ProviderMoves \/ ClientAppend \/ Expire \/ UNCHANGED vars
    PROVE  /\ PlainGrowth /\ UNCHANGED rs
           /\ provider' \in [v : Nat, pol : Policies] /\ cache' \in Nat \cup {None}
           /\ call' \in [Calls -> CallState]
           /\ \/ running' = None
              \/ UNCHANGED running /\ running \in Calls /\ call'[running] = call[running]
<1>1. InMemTypes /\ Len(log) \in Nat /\ None \notin Calls
    BY InLog DEF OnceInv, InMemAssumption
<1>2. running \in Calls => call[running].pc = "replay"
    BY <1>1 DEF OnceInv, RunnerFits
<1>3. \A r \in {"internal", "ok", "data loss"}, c \in Calls :
        Finish(c, r) => call' \in [Calls -> CallState]
    <2> SUFFICES ASSUME NEW r \in {"internal", "ok", "data loss"}, NEW c \in Calls, Finish(c, r)
                 PROVE  call' \in [Calls -> CallState]
        OBVIOUS
    <2>1. PICK y \in CallState : y = [call[c] EXCEPT !.pc = "done", !.result = r]
        <3>1. \A x \in CallState : [x EXCEPT !.pc = "done", !.result = r] \in CallState
            BY DEF CallState
        <3> QED BY <1>1, <3>1 DEF InMemTypes
    <2>2. call' = [call EXCEPT ![c] = y]
        BY <1>1, <2>1 DEF InMemTypes, Finish
    <2> QED BY <1>1, <2>2 DEF InMemTypes
<1>4. ASSUME NEW c \in Calls, Begin(c, "commit") \/ Begin(c, "create")
      PROVE  /\ PlainGrowth /\ UNCHANGED <<log, rs, provider, cache, running>>
             /\ call' \in [Calls -> CallState] /\ (running \in Calls => call'[running] = call[running])
    <2>1. PICK kind \in {"commit", "create"} : Begin(c, kind)
        BY <1>4
    <2>2. PICK w \in [v : Nat, pol : Policies \cup {"on"}] : w = provider
        BY <1>1 DEF InMemTypes
    <2>3. PICK y \in CallState : y = [call[c] EXCEPT !.pc = "reading", !.kind = kind, !.want = w]
        <3>1. \A x \in CallState : [x EXCEPT !.pc = "reading", !.kind = kind, !.want = w] \in CallState
            BY DEF CallState
        <3> QED BY <1>1, <3>1 DEF InMemTypes
    <2>4. call' = [call EXCEPT ![c] = y]
        BY <1>1, <2>1, <2>2, <2>3 DEF InMemTypes, Begin
    <2>5. UNCHANGED <<log, rs, provider, cache, running>> /\ call[c].pc = "idle"
        BY <2>1 DEF Begin
    <2>6. running # c
        BY <1>2, <2>5
    <2> QED BY <1>1, <2>4, <2>5, <2>6, PlainNone DEF InMemTypes
<1>5. CASE \E c \in Calls : Begin(c, "commit") \/ Begin(c, "create")
    <2>1. /\ PlainGrowth /\ UNCHANGED <<log, rs, provider, cache, running>>
          /\ call' \in [Calls -> CallState] /\ (running \in Calls => call'[running] = call[running])
        BY <1>4, <1>5
    <2> QED BY <1>1, <1>2, <2>1 DEF InMemTypes
<1>6. CASE \E c \in Calls : RejectPolicy(c)
    BY <1>1, <1>3, <1>6, PlainNone DEF RejectPolicy, InMemTypes
<1>7. CASE \E c \in Calls : CreateBus(c)
    <2>1. PICK c \in Calls : CreateBus(c)
        BY <1>7
    <2>2. PICK x \in CallState : x = call[c]
        BY <1>1 DEF InMemTypes
    <2>3. x.want.v \in Nat /\ x.want.pol \in Policies \cup {"on", None}
        BY DEF CallState
    <2>4. PICK b \in BusEntries : b = Batch(None, x.want.v, x.want.pol) /\ b.t \notin Outcomes
        <3>1. None \in Nat \cup {None} /\ "batch" \notin Outcomes
            BY DEF Outcomes
        <3>2. PICK v \in Nat, pol \in Policies \cup {"on", None} : v = x.want.v /\ pol = x.want.pol
            BY <2>3
        <3>3. Batch(None, v, pol) \in BusEntries /\ Batch(None, v, pol).t = "batch"
            BY <3>1 DEF Batch, BusEntries
        <3> QED BY <3>1, <3>2, <3>3
    <2>5. PlainGrowth
        BY <1>1, <2>1, <2>2, <2>4, PlainOne DEF CreateBus
    <2>6. cache' \in Nat \cup {None}
        BY <1>1, <2>1, <2>2, <2>3 DEF CreateBus, InMemTypes
    <2> QED BY <1>1, <1>3, <2>1, <2>5, <2>6 DEF CreateBus, InMemTypes
<1>8. CASE \E c \in Calls : DataLoss(c)
    BY <1>1, <1>3, <1>8, PlainNone DEF DataLoss, InMemTypes
<1>9. CASE ProviderMoves
    <2>1. PICK pol \in Policies : provider' = [v |-> provider.v + 1, pol |-> pol]
        BY <1>9 DEF ProviderMoves
    <2>2. provider' \in [v : Nat, pol : Policies]
        BY <1>1, <2>1 DEF InMemTypes
    <2> QED BY <1>1, <1>9, <2>2, PlainNone DEF ProviderMoves, InMemTypes
<1>10. CASE ClientAppend
    <2>1. PICK e \in ClientEntries : log' = Append(log, e)
        BY <1>10 DEF ClientAppend
    <2>2. e \in BusEntries /\ e.t \notin Outcomes
        <3>1. CASE e \in {Intention("none", 0), Intention("required", 0)}
            BY <3>1, NewEntries DEF Outcomes
        <3>2. CASE \E p \in {q \in 0 .. (Len(log) - 1) : log[q + 1].t = "intention"},
                      val \in {"yes", "no", "other"} : e = Vote(p, val)
            BY <1>1, <3>2, NewEntries DEF Outcomes
        <3>3. CASE \E exp \in Versions, new \in Versions : e = Batch(exp, new, None)
            <4>1. Versions \subseteq Nat
                BY DEF Versions, InMemAssumption
            <4> QED BY <3>3, <4>1, NewEntries DEF Outcomes
        <3> QED BY <3>1, <3>2, <3>3 DEF ClientEntries
    <2> QED BY <1>1, <1>10, <2>1, <2>2, PlainOne DEF ClientAppend, InMemTypes
<1>11. CASE Expire
    BY <1>1, <1>11, PlainNone DEF Expire, InMemTypes
<1>12. CASE UNCHANGED vars
    BY <1>1, <1>12, PlainNone DEF vars, InMemTypes
<1> QED BY <1>5, <1>6, <1>7, <1>8, <1>9, <1>10, <1>11, <1>12

LEMMA OnceInvInit == InMemAssumption /\ Init => OnceInv
<1> SUFFICES ASSUME InMemAssumption, Init PROVE OnceInv
    OBVIOUS
<1>1. Idle \in CallState
    BY DEF Idle, CallState
<1>2. InMemTypes
    BY <1>1 DEF Init, InMemTypes, ReplayState
<1>3. Len(log) = 0
    BY DEF Init
<1> QED BY <1>2, <1>3 DEF Init, OnceInv, DecisionsFit, DecidedOnce, RunnerFits
LEMMA OnceInvNext ==
    ASSUME InMemAssumption, OnceInv, [Next]_vars
    PROVE  OnceInv'
<1>1. CASE \E c \in Calls : ReplayEntry(c)
    BY <1>1, ReplayKeepsOnce
<1>2. CASE \E c \in Calls : Drained(c)
    BY <1>2, DrainedKeepsOnce
<1>3. CASE \E c \in Calls : CommitIntention(c)
    BY <1>3, CommitKeepsOnce
<1>4. CASE \/ \E c \in Calls : Begin(c, "commit") \/ Begin(c, "create") \/ RejectPolicy(c)
                               \/ CreateBus(c) \/ DataLoss(c)
           \/ ProviderMoves \/ ClientAppend \/ Expire \/ UNCHANGED vars
    BY <1>4, PlainSteps, OthersKeepOnce
<1> QED BY <1>1, <1>2, <1>3, <1>4 DEF Next, Resume, Replay, AllDone

(* No intention is decided twice: process_entry decides an intention once, *)
(* when it is reached or when its vote is, and the abort of a drained log  *)
(* withdraws it first (InMemCommitService).                                *)
THEOREM NoSecondDecision == ASSUME InMemAssumption PROVE Spec => []DecidedOnce
<1>1. Init => OnceInv
    BY OnceInvInit
<1>2. OnceInv /\ [Next]_vars => OnceInv'
    BY OnceInvNext
<1>3. OnceInv => DecidedOnce
    BY DEF OnceInv, DecisionsFit
<1> QED BY <1>1, <1>2, <1>3, PTL DEF Spec
-----------------------------------------------------------------------------
(* Which policy a commit is decided under.                                 *)

(* The batches that take effect: the first entry, and those that say which *)
(* version they replace.  VersionAt: the version after k entries.          *)
PolicyBatch(l, i) == l[i].t = "batch" /\ (i = 1 \/ l[i].exp # None)

VersionAt(l, k, v) ==
    \/ k = 0 /\ v = None
    \/ \E i \in 1 .. k : /\ PolicyBatch(l, i) /\ l[i].new = v
                         /\ \A j \in 1 .. k : j > i => ~ PolicyBatch(l, j)

Chained(l) ==
    /\ Len(l) > 0 => PolicyBatch(l, 1) /\ l[1].exp = None
    /\ \A i \in 1 .. Len(l) : i > 1 /\ PolicyBatch(l, i)
         => VersionAt(l, i - 1, l[i].exp) /\ l[i].new > l[i].exp

(* The service alone appends batches, and it created the bus.              *)
PolicyFits ==
    /\ Chained(log)
    /\ VersionAt(log, rs.next, rs.v) /\ VersionAt(log, Len(log), cache)
    /\ running # None => cache \in Nat /\ cache >= call[running].want.v

(* Nothing but decisions follows the intention of the call that runs, and  *)
(* replay still stands at the policy that approved it.                     *)
ApprovalFits ==
    running # None =>
      /\ log[call[running].at + 1] = Intention("minimum", call[running].want.v)
      /\ \A k \in 1 .. Len(log) : k > call[running].at + 1 => log[k].t \in Outcomes
      /\ \A k \in 1 .. Len(log) : log[k].t = "commit" /\ log[k].id = call[running].at
           => rs.v # None /\ rs.v >= call[running].want.v /\ rs.pol = "on"

FreshInv == OnceInv /\ ApprovalFits /\ (ServiceOnly => PolicyFits)

(* The log only grows, so what it shows of the clients it showed before.   *)
LEMMA ServiceWasAlone ==
    ASSUME Len(log) \in Nat, Len(log') \in Nat, Len(log) <= Len(log'),
           \A k \in 1 .. Len(log) : log'[k] = log[k], ServiceOnly'
    PROVE  ServiceOnly
BY DEF ServiceOnly

LEMMA VersionUnique ==
    ASSUME NEW l, NEW k \in Nat, NEW v, NEW w, VersionAt(l, k, v), VersionAt(l, k, w)
    PROVE  v = w
<1>1. CASE k = 0
    BY <1>1 DEF VersionAt
<1>2. CASE k # 0
    <2>1. PICK i \in 1 .. k : /\ PolicyBatch(l, i) /\ l[i].new = v
                              /\ \A n \in 1 .. k : n > i => ~ PolicyBatch(l, n)
        BY <1>2 DEF VersionAt
    <2>2. PICK j \in 1 .. k : /\ PolicyBatch(l, j) /\ l[j].new = w
                              /\ \A n \in 1 .. k : n > j => ~ PolicyBatch(l, n)
        BY <1>2 DEF VersionAt
    <2>3. ~ (j > i) /\ ~ (i > j)
        BY <2>1, <2>2
    <2>4. i = j
        BY <2>3
    <2> QED BY <2>1, <2>2, <2>4
<1> QED BY <1>1, <1>2

LEMMA VersionKept ==
    ASSUME NEW l, NEW m, NEW k \in Nat, NEW v, \A i \in 1 .. k : m[i] = l[i], VersionAt(l, k, v)
    PROVE  VersionAt(m, k, v)
BY DEF VersionAt, PolicyBatch

LEMMA VersionRuns ==
    ASSUME NEW l, NEW k \in Nat \ {0}, NEW n \in Nat, k <= n, NEW v, VersionAt(l, k, v),
           \A j \in 1 .. n : j > k => ~ PolicyBatch(l, j)
    PROVE  VersionAt(l, n, v)
<1>1. PICK i \in 1 .. k : /\ PolicyBatch(l, i) /\ l[i].new = v
                          /\ \A j \in 1 .. k : j > i => ~ PolicyBatch(l, j)
    BY DEF VersionAt
<1>2. i \in 1 .. n /\ \A j \in 1 .. n : j > i => ~ PolicyBatch(l, j)
    <2> SUFFICES ASSUME NEW j \in 1 .. n, j > i PROVE ~ PolicyBatch(l, j)
        OBVIOUS
    <2>1. j \in 1 .. k \/ j > k
        OBVIOUS
    <2> QED BY <1>1, <2>1
<1> QED BY <1>1, <1>2 DEF VersionAt

LEMMA VersionMoves ==
    ASSUME NEW l, NEW k \in Nat, PolicyBatch(l, k + 1)
    PROVE  VersionAt(l, k + 1, l[k + 1].new)
<1>1. k + 1 \in 1 .. (k + 1) /\ \A j \in 1 .. (k + 1) : ~ (j > k + 1)
    OBVIOUS
<1> QED BY <1>1 DEF VersionAt

LEMMA VersionIsNumber ==
    ASSUME InMemAssumption, NEW l \in Seq(BusEntries), NEW k \in Nat, k <= Len(l), NEW v, VersionAt(l, k, v)
    PROVE  IF k = 0 THEN v = None ELSE v \in Nat
<1>1. CASE k = 0
    BY <1>1 DEF VersionAt
<1>2. CASE k # 0
    <2>1. PICK i \in 1 .. k : PolicyBatch(l, i) /\ l[i].new = v
        BY <1>2 DEF VersionAt
    <2>2. l[i] \in BusEntries
        OBVIOUS
    <2> QED BY <1>2, <2>1, <2>2, EntryKinds DEF PolicyBatch
<1> QED BY <1>1, <1>2

LEMMA ChainKept ==
    ASSUME InMemAssumption, NEW l \in Seq(BusEntries), NEW e \in BusEntries, NEW m, m = Append(l, e),
           Chained(l)
    PROVE  \A i \in 1 .. Len(l) : i > 1 /\ PolicyBatch(m, i)
             => VersionAt(m, i - 1, m[i].exp) /\ m[i].new > m[i].exp
<1> SUFFICES ASSUME NEW i \in 1 .. Len(l), i > 1, PolicyBatch(m, i)
             PROVE  VersionAt(m, i - 1, m[i].exp) /\ m[i].new > m[i].exp
    OBVIOUS
<1>1. \A j \in 1 .. i : m[j] = l[j]
    OBVIOUS
<1>2. i \in 1 .. i /\ i - 1 \in Nat /\ 1 .. (i - 1) \subseteq 1 .. i
    OBVIOUS
<1>3. PolicyBatch(l, i) /\ m[i] = l[i]
    BY <1>1, <1>2 DEF PolicyBatch
<1>4. VersionAt(l, i - 1, l[i].exp) /\ l[i].new > l[i].exp
    BY <1>3 DEF Chained
<1>5. VersionAt(m, i - 1, l[i].exp)
    BY <1>1, <1>2, <1>4, VersionKept
<1> QED BY <1>3, <1>4, <1>5

(* An entry that moves no version, and a batch that replaces the last.     *)
LEMMA ChainPasses ==
    ASSUME InMemAssumption, NEW l \in Seq(BusEntries), NEW e \in BusEntries, NEW m, m = Append(l, e),
           Chained(l), Len(l) > 0, NEW v, VersionAt(l, Len(l), v),
           e.t # "batch" \/ e.exp = None
    PROVE  Chained(m) /\ VersionAt(m, Len(m), v)
<1>1. PICK n \in Nat : n = Len(l) /\ n > 0 /\ Len(m) = n + 1 /\ m[n + 1] = e
    OBVIOUS
<1>2. \A j \in 1 .. n : m[j] = l[j]
    BY <1>1
<1>3. ~ PolicyBatch(m, n + 1)
    BY <1>1 DEF PolicyBatch
<1>4. VersionAt(m, n, v)
    BY <1>1, <1>2, VersionKept
<1>5. VersionAt(m, n + 1, v)
    <2>1. \A j \in 1 .. (n + 1) : j > n => j = n + 1
        OBVIOUS
    <2>2. n \in Nat \ {0} /\ n + 1 \in Nat /\ n <= n + 1
        BY <1>1
    <2> QED BY <1>3, <1>4, <2>1, <2>2, VersionRuns
<1>6. PolicyBatch(m, 1) /\ m[1].exp = None
    <2>1. m[1] = l[1]
        BY <1>1, <1>2
    <2> QED BY <2>1 DEF Chained, PolicyBatch
<1>7. \A i \in 1 .. (n + 1) : i \in 1 .. n \/ i = n + 1
    OBVIOUS
<1> QED BY <1>1, <1>3, <1>5, <1>6, <1>7, ChainKept DEF Chained

LEMMA ChainMoves ==
    ASSUME InMemAssumption, NEW l \in Seq(BusEntries), NEW e \in BusEntries, NEW m, m = Append(l, e),
           Chained(l), VersionAt(l, Len(l), e.exp),
           e.t = "batch", e.exp # None => e.new > e.exp
    PROVE  Chained(m) /\ VersionAt(m, Len(m), e.new)
<1>1. PICK n \in Nat : n = Len(l) /\ Len(m) = n + 1 /\ m[n + 1] = e
    OBVIOUS
<1>2. \A j \in 1 .. n : m[j] = l[j]
    BY <1>1
<1>3. IF n = 0 THEN e.exp = None ELSE e.exp \in Nat
    BY <1>1, VersionIsNumber
<1>4. PolicyBatch(m, n + 1)
    BY <1>1, <1>3 DEF PolicyBatch, InMemAssumption
<1>5. VersionAt(m, n + 1, e.new)
    BY <1>1, <1>4, VersionMoves
<1>6. PolicyBatch(m, 1) /\ m[1].exp = None
    <2>1. CASE n = 0
        BY <1>1, <1>3, <1>4, <2>1
    <2>2. CASE n # 0
        <3>1. m[1] = l[1] /\ Len(l) > 0
            BY <1>1, <1>2, <2>2
        <3> QED BY <3>1 DEF Chained, PolicyBatch
    <2> QED BY <2>1, <2>2
<1>7. n + 1 > 1 => VersionAt(m, n, e.exp) /\ e.new > e.exp
    <2>1. VersionAt(m, n, e.exp)
        BY <1>1, <1>2, VersionKept
    <2>2. n # 0 => e.exp # None
        BY <1>3 DEF InMemAssumption
    <2> QED BY <2>1, <2>2
<1>8. \A i \in 1 .. (n + 1) : i \in 1 .. n \/ i = n + 1
    OBVIOUS
<1>9. \A i \in 1 .. (n + 1) : i > 1 /\ PolicyBatch(m, i)
         => VersionAt(m, i - 1, m[i].exp) /\ m[i].new > m[i].exp
    <2>1. (n + 1) - 1 = n
        OBVIOUS
    <2> QED BY <1>1, <1>7, <1>8, <2>1, ChainKept
<1> QED BY <1>1, <1>5, <1>6, <1>9 DEF Chained
-----------------------------------------------------------------------------
(* What one entry of the replay loop does to the policy and appends.       *)
LEMMA ReplayMoves ==
    ASSUME InMemAssumption, OnceInv, NEW c \in Calls, ReplayEntry(c)
    PROVE  LET e == log[rs.next + 1] IN
           /\ \/ log' = log
              \/ \E d \in BusEntries :
                   /\ log' = Append(log, d) /\ d.t \in Outcomes /\ d.id \in Nat
                   /\ \/ /\ e.t = "intention" /\ d.id = rs.next
                         /\ d.t = "commit" => Valid(rs, e) /\ rs.pol = "on"
                      \/ e.t = "vote" /\ d.id < rs.next
           /\ \/ e.t = "batch" /\ Applies(rs, e) /\ rs'.v = e.new
              \/ ~ (e.t = "batch" /\ Applies(rs, e)) /\ rs'.v = rs.v /\ rs'.pol = rs.pol
<1> DEFINE e == log[rs.next + 1]
<1>1. rs.next \in Nat /\ e \in BusEntries /\ InMemTypes /\ DecisionsFit
    BY Replayed DEF OnceInv
<1>2. PICK t \in ReplayState, out \in Seq(BusEntries) :
        /\ log' = log \o out /\ t.next = rs.next /\ rs' = [t EXCEPT !.next = rs.next + 1]
        /\ \/ StepQuiet(rs, e, t, out) \/ StepWaits(rs, e, rs.next, t, out)
           \/ StepDecides(rs, e, rs.next, t, out) \/ StepVotes(rs, e, t, out)
    BY Replayed
<1>3. rs'.v = t.v /\ rs'.pol = t.pol
    BY <1>2 DEF ReplayState
<1> HIDE DEF e
<1>4. CASE StepQuiet(rs, e, t, out)
    <2>1. log' = log
        BY <1>1, <1>2, <1>4, Appended DEF StepQuiet
    <2> QED BY <1>3, <1>4, <2>1 DEF StepQuiet, Unmoved, e
<1>5. CASE StepWaits(rs, e, rs.next, t, out)
    <2>1. log' = log
        BY <1>1, <1>2, <1>5, Appended DEF StepWaits
    <2> QED BY <1>3, <1>5, <2>1 DEF StepWaits, Unmoved, e
<1>6. CASE StepDecides(rs, e, rs.next, t, out)
    <2>1. PICK d \in BusEntries : /\ out = <<d>> /\ d.t \in Outcomes /\ d.id = rs.next
                                  /\ d.t = "commit" => Valid(rs, e) /\ rs.pol = "on"
        BY <1>6 DEF StepDecides
    <2>2. log' = Append(log, d)
        BY <1>1, <1>2, <2>1, Appended
    <2>3. e.t = "intention" /\ rs'.v = rs.v /\ rs'.pol = rs.pol
        BY <1>3, <1>6 DEF StepDecides, Unmoved
    <2> QED BY <1>1, <2>1, <2>2, <2>3 DEF e
<1>7. CASE StepVotes(rs, e, t, out)
    <2>1. PICK d \in BusEntries : out = <<d>> /\ d.t \in Outcomes /\ d.id = e.id
        BY <1>7 DEF StepVotes
    <2>2. log' = Append(log, d)
        BY <1>1, <1>2, <2>1, Appended
    <2>3. e.t = "vote" /\ rs.pending = e.id /\ rs'.v = rs.v /\ rs'.pol = rs.pol
        BY <1>3, <1>7 DEF StepVotes, Unmoved
    <2>4. d.id \in Nat /\ d.id < rs.next
        BY <1>1, <2>1, <2>3, EntryKinds DEF DecisionsFit, InMemAssumption
    <2> QED BY <2>1, <2>2, <2>3, <2>4 DEF e
<1> QED BY <1>2, <1>4, <1>5, <1>6, <1>7

LEMMA ReplayKeepsApproval ==
    ASSUME InMemAssumption, OnceInv, ApprovalFits, NEW c \in Calls, ReplayEntry(c)
    PROVE  ApprovalFits'
<1> DEFINE p == rs.next
           e == log[p + 1]
<1>1. /\ running = c /\ p \in Nat /\ p < Len(log) /\ e \in BusEntries /\ c # None
      /\ IF Decides(e) = call[c].at
         THEN Finish(c, e.t) /\ running' = None
         ELSE call' = [call EXCEPT ![c].cursor = p + 1] /\ running' = running
    BY Replayed DEF InMemAssumption
<1>2. PICK x \in CallState : x = call[c]
    BY DEF OnceInv, InMemTypes
<1>3. /\ \/ log' = log
         \/ \E d \in BusEntries :
              /\ log' = Append(log, d) /\ d.t \in Outcomes /\ d.id \in Nat
              /\ \/ /\ e.t = "intention" /\ d.id = p
                    /\ d.t = "commit" => Valid(rs, e) /\ rs.pol = "on"
                 \/ e.t = "vote" /\ d.id < p
      /\ \/ e.t = "batch" /\ Applies(rs, e)
         \/ rs'.v = rs.v /\ rs'.pol = rs.pol
    BY ReplayMoves
<1>4. InMemTypes /\ Len(log) \in Nat
    BY InLog DEF OnceInv
<1>5. /\ x.at \in Nat /\ x.at < Len(log) /\ x.want.v \in Nat
      /\ log[x.at + 1] = Intention("minimum", x.want.v)
      /\ \A k \in 1 .. Len(log) : k > x.at + 1 => log[k].t \in Outcomes
      /\ \A k \in 1 .. Len(log) : log[k].t = "commit" /\ log[k].id = x.at
           => rs.v # None /\ rs.v >= x.want.v /\ rs.pol = "on"
    <2>1. x.at \in Nat /\ x.want.v \in Nat
        BY DEF CallState
    <2> QED BY <1>1, <1>2, <2>1 DEF ApprovalFits, OnceInv, RunnerFits
<1>6. \A k \in 1 .. Len(log) : log[k].t = "commit" => log[k].id \in Nat /\ log[k].id < p
    BY <1>4, InLog, EntryKinds DEF OnceInv, DecisionsFit, Outcomes, p
<1>7. CASE Decides(e) = call[c].at
    BY <1>1, <1>7 DEF ApprovalFits
<1>8. CASE Decides(e) # call[c].at
    <2>1. running' = c /\ call'[c].at = x.at /\ call'[c].want = x.want
        <3>1. call' = [call EXCEPT ![c].cursor = p + 1] /\ running' = c
            BY <1>1, <1>8
        <3>2. call'[c] = [x EXCEPT !.cursor = p + 1]
            BY <1>2, <1>4, <3>1 DEF InMemTypes
        <3> QED BY <3>1, <3>2 DEF CallState
    <2> HIDE DEF e, p
    <2>2. /\ Len(log') \in Nat /\ \A k \in 1 .. Len(log) : log'[k] = log[k]
          /\ \A k \in 1 .. Len(log') : k \in 1 .. Len(log) \/ log'[k].t \in Outcomes
        BY <1>3, <1>4, Grown
    <2>3. log'[x.at + 1] = Intention("minimum", x.want.v)
        BY <1>4, <1>5, <2>2
    <2>4. \A k \in 1 .. Len(log') : k > x.at + 1 => log'[k].t \in Outcomes
        BY <1>5, <2>2
    <2>5. ASSUME NEW k \in 1 .. Len(log'), log'[k].t = "commit", log'[k].id = x.at
          PROVE  rs'.v # None /\ rs'.v >= x.want.v /\ rs'.pol = "on"
        <3>1. CASE k \in 1 .. Len(log)
            <4>1. log[k].t = "commit" /\ log[k].id = x.at /\ x.at < p
                BY <1>6, <2>2, <2>5, <3>1
            <4>2. p + 1 \in 1 .. Len(log) /\ p + 1 > x.at + 1
                BY <1>1, <1>4, <1>5, <4>1
            <4>3. e.t \in Outcomes
                BY <1>5, <4>2 DEF e
            <4>4. rs'.v = rs.v /\ rs'.pol = rs.pol
                BY <1>3, <4>3 DEF Outcomes
            <4> QED BY <1>5, <3>1, <4>1, <4>4
        <3>2. CASE k \notin 1 .. Len(log)
            <4>1. PICK d \in BusEntries :
                    /\ log' = Append(log, d) /\ d.t \in Outcomes /\ d.id \in Nat
                    /\ \/ /\ e.t = "intention" /\ d.id = p
                          /\ d.t = "commit" => Valid(rs, e) /\ rs.pol = "on"
                       \/ e.t = "vote" /\ d.id < p
                BY <1>3, <3>2
            <4>2. log'[k] = d
                BY <1>4, <3>2, <4>1, Grown
            <4>3. CASE e.t = "vote" /\ d.id < p
                <5>1. p + 1 \in 1 .. Len(log) /\ p + 1 > x.at + 1
                    BY <1>1, <1>4, <1>5, <2>5, <4>2, <4>3
                <5> QED BY <1>5, <4>3, <5>1 DEF Outcomes, e
            <4>4. CASE /\ e.t = "intention" /\ d.id = p
                       /\ d.t = "commit" => Valid(rs, e) /\ rs.pol = "on"
                <5>1. e = Intention("minimum", x.want.v)
                    BY <1>5, <2>5, <4>2, <4>4 DEF e
                <5>2. e.con = "minimum" /\ e.v = x.want.v /\ Valid(rs, e) /\ rs.pol = "on"
                    BY <2>5, <4>2, <4>4, <5>1 DEF Intention
                <5>3. rs.v # None /\ rs.v >= x.want.v
                    BY <5>2 DEF Valid
                <5>4. rs'.v = rs.v /\ rs'.pol = rs.pol
                    BY <1>3, <4>4
                <5> QED BY <5>2, <5>3, <5>4
            <4> QED BY <4>1, <4>3, <4>4
        <3> QED BY <3>1, <3>2
    <2> QED BY <2>1, <2>3, <2>4, <2>5 DEF ApprovalFits
<1> QED BY <1>7, <1>8

(* A decision appended moves no version.                                   *)
LEMMA DecisionKeepsVersions ==
    ASSUME InMemAssumption, InMemTypes, Chained(log), VersionAt(log, Len(log), cache),
           NEW k \in Nat \ {0}, k <= Len(log), NEW v, VersionAt(log, k, v),
           \/ log' = log
           \/ \E d \in BusEntries : log' = Append(log, d) /\ d.t # "batch"
    PROVE  /\ Chained(log') /\ VersionAt(log', k, v) /\ VersionAt(log', Len(log'), cache)
<1>1. log \in Seq(BusEntries) /\ Len(log) \in Nat /\ Len(log) > 0
    BY DEF InMemTypes
<1>2. CASE log' = log
    BY <1>2
<1>3. CASE \E d \in BusEntries : log' = Append(log, d) /\ d.t # "batch"
    <2>1. PICK d \in BusEntries : log' = Append(log, d) /\ d.t # "batch"
        BY <1>3
    <2>2. PICK l, h, m : l = log /\ h = cache /\ m = log' /\ l \in Seq(BusEntries)
        BY <1>1
    <2>3. Chained(m) /\ VersionAt(m, Len(m), h)
        BY <1>1, <2>1, <2>2, ChainPasses
    <2>4. \A i \in 1 .. k : m[i] = l[i]
        BY <2>1, <2>2
    <2>5. VersionAt(m, k, v)
        BY <2>2, <2>4, VersionKept
    <2> QED BY <2>2, <2>3, <2>5
<1> QED BY <1>2, <1>3

LEMMA ReplayKeepsPolicy ==
    ASSUME InMemAssumption, OnceInv, PolicyFits, NEW c \in Calls, ReplayEntry(c)
    PROVE  PolicyFits'
<1> DEFINE p == rs.next
           e == log[p + 1]
<1>1. /\ running = c /\ p \in Nat /\ p < Len(log) /\ e \in BusEntries /\ c # None
      /\ rs'.next = p + 1 /\ UNCHANGED cache
      /\ IF Decides(e) = call[c].at
         THEN Finish(c, e.t) /\ running' = None
         ELSE call' = [call EXCEPT ![c].cursor = p + 1] /\ running' = running
    BY Replayed DEF InMemAssumption
<1>2. /\ \/ log' = log
         \/ \E d \in BusEntries : log' = Append(log, d) /\ d.t # "batch"
      /\ \/ e.t = "batch" /\ Applies(rs, e) /\ rs'.v = e.new
         \/ ~ (e.t = "batch" /\ Applies(rs, e)) /\ rs'.v = rs.v
    BY ReplayMoves DEF Outcomes
<1>3. InMemTypes /\ Len(log) \in Nat /\ log \in Seq(BusEntries)
    BY InLog DEF OnceInv, InMemTypes
<1>4. Chained(log) /\ VersionAt(log, p, rs.v) /\ VersionAt(log, Len(log), cache)
    BY DEF PolicyFits
<1>5. IF p = 0 THEN rs.v = None ELSE rs.v \in Nat
    BY <1>1, <1>3, <1>4, VersionIsNumber
<1> HIDE DEF p, e
<1>6. VersionAt(log, p + 1, rs'.v)
    <2>1. CASE PolicyBatch(log, p + 1)
        <3>1. e.t = "batch" /\ (e.exp # None => e.new > e.exp) /\ e.exp = rs.v
            <4>1. CASE p = 0
                BY <1>1, <1>4, <1>5, <2>1, <4>1 DEF Chained, PolicyBatch, e
            <4>2. CASE p # 0
                <5>1. p + 1 \in 1 .. Len(log) /\ p + 1 > 1 /\ (p + 1) - 1 = p
                    BY <1>1, <1>3, <4>2
                <5>2. VersionAt(log, p, e.exp) /\ e.new > e.exp
                    BY <1>4, <2>1, <5>1 DEF Chained, e
                <5>3. e.exp = rs.v
                    BY <1>1, <1>4, <5>2, VersionUnique
                <5> QED BY <2>1, <5>2, <5>3 DEF PolicyBatch, e
            <4> QED BY <4>1, <4>2
        <3>2. Applies(rs, e)
            BY <3>1 DEF Applies
        <3>3. rs'.v = e.new
            BY <1>2, <3>1, <3>2
        <3> QED BY <1>1, <2>1, <3>3, VersionMoves DEF e
    <2>2. CASE ~ PolicyBatch(log, p + 1)
        <3>1. p # 0
            BY <1>1, <1>3, <1>4, <2>2 DEF Chained
        <3>2. e.t = "batch" => e.exp = None
            BY <2>2 DEF PolicyBatch, e
        <3>3. rs.v # None
            BY <1>5, <3>1 DEF InMemAssumption
        <3>4. rs'.v = rs.v
            BY <1>2, <3>2, <3>3 DEF Applies
        <3>5. p \in Nat \ {0} /\ p + 1 \in Nat /\ p <= p + 1
            BY <1>1, <3>1
        <3>6. \A j \in 1 .. (p + 1) : j > p => j = p + 1
            BY <1>1
        <3> QED BY <1>4, <2>2, <3>4, <3>5, <3>6, VersionRuns
    <2> QED BY <2>1, <2>2
<1>7. PICK k, v : k = p + 1 /\ v = rs'.v /\ k \in Nat \ {0} /\ k <= Len(log)
    BY <1>1, <1>3
<1>8. Chained(log') /\ VersionAt(log', k, v) /\ VersionAt(log', Len(log'), cache)
    BY <1>2, <1>3, <1>4, <1>6, <1>7, DecisionKeepsVersions
<1>9. running' # None => cache' \in Nat /\ cache' >= call'[running'].want.v
    <2>1. CASE Decides(e) = call[c].at
        BY <1>1, <2>1
    <2>2. CASE Decides(e) # call[c].at
        <3>1. call' = [call EXCEPT ![c].cursor = p + 1] /\ running' = c
            BY <1>1, <2>2
        <3>2. call'[c].want = call[c].want
            <4>1. PICK x \in CallState : x = call[c]
                BY <1>3 DEF InMemTypes
            <4>2. call'[c] = [x EXCEPT !.cursor = p + 1]
                BY <1>3, <3>1, <4>1 DEF InMemTypes
            <4> QED BY <4>1, <4>2 DEF CallState
        <3> QED BY <1>1, <3>1, <3>2 DEF PolicyFits
    <2> QED BY <2>1, <2>2
<1> QED BY <1>1, <1>7, <1>8, <1>9 DEF PolicyFits

LEMMA DrainedKeepsFresh ==
    ASSUME InMemAssumption, FreshInv, NEW c \in Calls, Drained(c)
    PROVE  ApprovalFits' /\ (ServiceOnly => PolicyFits)'
<1>1. InMemTypes /\ Len(log) \in Nat /\ running = c /\ c # None
    BY InLog DEF FreshInv, OnceInv, InMemAssumption, Drained
<1>2. PICK x \in CallState : x = call[c]
    BY <1>1 DEF InMemTypes
<1>3. x.at \in Nat /\ x.at < Len(log) /\ x.cursor = rs.next /\ rs.next \in Nat /\ x.want.v \in Nat
    BY <1>1, <1>2 DEF FreshInv, OnceInv, RunnerFits, CallState, InMemTypes, ReplayState
<1>4. PICK d \in BusEntries : d = Decision(x.at, FALSE) /\ d.t = "abort" /\ d.t \in Outcomes
    <2>1. Decision(x.at, FALSE) \in BusEntries
        BY <1>3, NewEntries
    <2> QED BY <2>1 DEF Decision, Outcomes
<1>5. log' = Append(log, d) /\ UNCHANGED <<cache, call, running>>
    BY <1>2, <1>4 DEF Drained
<1>6. rs'.v = rs.v /\ rs'.pol = rs.pol /\ rs'.next = rs.next
    BY <1>1 DEF Drained, InMemTypes, ReplayState
<1>7. ApprovalFits'
    <2>1. log'[x.at + 1] = log[x.at + 1]
        <3>1. x.at + 1 \in 1 .. Len(log)
            BY <1>1, <1>3
        <3> QED BY <1>1, <1>5, <3>1, Grown
    <2>2. \A k \in 1 .. Len(log') : (k \in 1 .. Len(log) /\ log'[k] = log[k]) \/ log'[k] = d
        BY <1>1, <1>5, Grown
    <2>3. \A k \in 1 .. Len(log) :
            /\ k > x.at + 1 => log[k].t \in Outcomes
            /\ log[k].t = "commit" /\ log[k].id = x.at
                 => rs.v # None /\ rs.v >= x.want.v /\ rs.pol = "on"
        BY <1>1, <1>2 DEF FreshInv, ApprovalFits
    <2>4. log[x.at + 1] = Intention("minimum", x.want.v)
        BY <1>1, <1>2 DEF FreshInv, ApprovalFits
    <2>5. \A k \in 1 .. Len(log') :
            /\ k > x.at + 1 => log'[k].t \in Outcomes
            /\ log'[k].t = "commit" /\ log'[k].id = x.at
                 => rs'.v # None /\ rs'.v >= x.want.v /\ rs'.pol = "on"
        BY <1>4, <1>6, <2>2, <2>3
    <2>6. running' = c /\ call'[running'] = x
        BY <1>1, <1>2, <1>5
    <2> QED BY <2>1, <2>4, <2>5, <2>6 DEF ApprovalFits
<1>8. ASSUME ServiceOnly' PROVE PolicyFits'
    <2>1. PolicyFits
        <3>1. d \in BusEntries /\ log' = Append(log, d)
            BY <1>4, <1>5
        <3> QED BY <1>1, <1>8, <3>1, Grown, ServiceWasAlone DEF FreshInv
    <2>2. rs.next = Len(log)
        BY <1>1, <1>2, <1>3 DEF InMemTypes, Drained
    <2>3. PICK k, v : k = rs.next /\ v = rs.v /\ k \in Nat \ {0} /\ k <= Len(log)
        BY <1>1, <1>3, <2>2
    <2>4. Chained(log) /\ VersionAt(log, k, v) /\ VersionAt(log, Len(log), cache)
        BY <2>1, <2>3 DEF PolicyFits
    <2>5. Chained(log') /\ VersionAt(log', k, v) /\ VersionAt(log', Len(log'), cache)
        <3>1. d.t # "batch"
            BY <1>4
        <3> QED BY <1>1, <1>5, <2>3, <2>4, <3>1, DecisionKeepsVersions
    <2> QED BY <1>5, <1>6, <2>1, <2>3, <2>5 DEF PolicyFits
<1> QED BY <1>7, <1>8

LEMMA CommitKeepsFresh ==
    ASSUME InMemAssumption, FreshInv, NEW c \in Calls, CommitIntention(c)
    PROVE  ApprovalFits' /\ (ServiceOnly => PolicyFits)'
<1>1. InMemTypes /\ log \in Seq(BusEntries) /\ Len(log) \in Nat /\ None \notin Nat /\ c # None
    BY InLog DEF FreshInv, OnceInv, InMemTypes, InMemAssumption
<1>2. PICK x \in CallState :
        /\ x = call[c] /\ PlainGrowth
        /\ \/ /\ cache \in Nat /\ ~ (x.want.v > cache) /\ cache' = cache
              /\ log' = Append(log, Intention("minimum", x.want.v))
           \/ /\ cache = None \/ x.want.v > cache
              /\ cache' = x.want.v
              /\ log' = Append(Append(log, Batch(cache, x.want.v, x.want.pol)),
                               Intention("minimum", x.want.v))
        /\ Len(log') \in Nat \ {0} /\ log'[Len(log')] = Intention("minimum", x.want.v)
        /\ Len(log) < Len(log')
        /\ rs.next \in Nat /\ rs.next <= Len(log') - 1
        /\ call'[c].want = x.want /\ call'[c].at = Len(log') - 1
        /\ running' = c /\ UNCHANGED rs
    BY <1>1, Committed
<1>3. x.want.v \in Nat /\ x.want.pol \in Policies \cup {"on", None} /\ cache \in Nat \cup {None}
    BY <1>1 DEF CallState, InMemTypes
<1>4. ApprovalFits'
    <2>1. \A k \in 1 .. Len(log) : log[k].t = "commit" => log[k].id \in Nat /\ log[k].id < rs.next
        BY <1>1, InLog, EntryKinds DEF FreshInv, OnceInv, DecisionsFit, Outcomes
    <2>2. \A k \in 1 .. Len(log') : log'[k].t = "commit" => log'[k].id \in Nat /\ log'[k].id < rs.next
        BY <1>2, <2>1 DEF PlainGrowth, Outcomes
    <2>3. PICK n \in Nat : n = Len(log') - 1 /\ Len(log') = n + 1
        BY <1>2
    <2>4. \A k \in 1 .. Len(log') : ~ (k > n + 1) /\ ~ (log'[k].t = "commit" /\ log'[k].id = n)
        BY <1>2, <2>2, <2>3
    <2>5. log'[n + 1] = Intention("minimum", x.want.v) /\ call'[c].at = n /\ call'[c].want = x.want
        BY <1>2, <2>3
    <2> QED BY <1>2, <2>4, <2>5 DEF ApprovalFits
<1>5. ASSUME ServiceOnly' PROVE PolicyFits'
    <2>1. PolicyFits
        BY <1>2, <1>5, ServiceWasAlone DEF FreshInv, PlainGrowth
    <2>2. PICK l, h, m, k, v : /\ l = log /\ h = cache /\ m = log' /\ k = rs.next /\ v = rs.v
                               /\ l \in Seq(BusEntries) /\ k \in Nat /\ k <= Len(l)
        BY <1>1 DEF InMemTypes, ReplayState
    <2>3. Chained(l) /\ VersionAt(l, k, v) /\ VersionAt(l, Len(l), h) /\ Len(l) \in Nat
        BY <1>1, <2>1, <2>2 DEF PolicyFits
    <2>4. PICK i \in BusEntries : i = Intention("minimum", x.want.v) /\ i.t # "batch"
        BY <1>3, NewEntries
    <2>5. PICK b \in BusEntries : /\ b = Batch(cache, x.want.v, x.want.pol)
                                  /\ b.t = "batch" /\ b.exp = cache /\ b.new = x.want.v
        BY <1>3, NewEntries
    <2>6. VersionAt(m, k, v)
        <3>1. \A j \in 1 .. k : m[j] = l[j]
            BY <1>2, <2>2, <2>3 DEF PlainGrowth
        <3> QED BY <2>2, <2>3, <3>1, VersionKept
    <2>7. CASE /\ cache \in Nat /\ ~ (x.want.v > cache) /\ cache' = cache
               /\ log' = Append(log, Intention("minimum", x.want.v))
        <3>1. Len(l) > 0
            BY <1>1, <2>2, <2>3, <2>7, VersionIsNumber
        <3>2. m = Append(l, i)
            BY <2>2, <2>4, <2>7
        <3>3. Chained(m) /\ VersionAt(m, Len(m), h)
            BY <2>2, <2>3, <2>4, <3>1, <3>2, ChainPasses
        <3>4. cache' \in Nat /\ cache' >= x.want.v
            BY <1>3, <2>7
        <3> QED BY <1>2, <2>2, <2>6, <2>7, <3>3, <3>4 DEF PolicyFits
    <2>8. CASE /\ cache = None \/ x.want.v > cache
               /\ cache' = x.want.v
               /\ log' = Append(Append(log, Batch(cache, x.want.v, x.want.pol)),
                                Intention("minimum", x.want.v))
        <3>0. PICK q : q = Append(l, b)
            OBVIOUS
        <3>1. q = Append(l, b) /\ q \in Seq(BusEntries) /\ Len(q) > 0
            BY <2>2, <2>3, <3>0
        <3>2. m = Append(q, i)
            BY <2>2, <2>4, <2>5, <2>8, <3>1
        <3>3. VersionAt(l, Len(l), b.exp) /\ (b.exp # None => b.new > b.exp)
            BY <2>2, <2>3, <2>5, <2>8
        <3>4. Chained(q) /\ VersionAt(q, Len(q), b.new)
            <4>1. b.t = "batch" /\ l \in Seq(BusEntries) /\ Chained(l)
                BY <2>2, <2>3, <2>5
            <4> QED BY <3>0, <3>3, <4>1, ChainMoves
        <3>5. Chained(m) /\ VersionAt(m, Len(m), b.new)
            BY <2>4, <3>1, <3>2, <3>4, ChainPasses
        <3>6. cache' = b.new /\ cache' \in Nat /\ cache' >= x.want.v
            BY <1>3, <2>5, <2>8
        <3> QED BY <1>2, <2>2, <2>6, <3>5, <3>6 DEF PolicyFits
    <2> QED BY <1>2, <2>7, <2>8
<1> QED BY <1>4, <1>5

(* Steps of calls that do not run, and of the environment.                 *)
LEMMA PlainKeepsFresh ==
    ASSUME InMemAssumption, FreshInv,
           \/ \E c \in Calls : Begin(c, "commit") \/ Begin(c, "create") \/ RejectPolicy(c)
                               \/ CreateBus(c) \/ DataLoss(c)
           \/ ProviderMoves \/ ClientAppend \/ Expire \/ UNCHANGED vars
    PROVE  ApprovalFits' /\ (ServiceOnly => PolicyFits)'
<1>1. InMemTypes /\ log \in Seq(BusEntries) /\ Len(log) \in Nat /\ None \notin Nat /\ None \notin Calls
    BY InLog DEF FreshInv, OnceInv, InMemTypes, InMemAssumption
<1>2. /\ UNCHANGED rs /\ PlainGrowth
      /\ running' = None \/ (UNCHANGED running /\ running \in Calls /\ call'[running] = call[running])
    BY PlainSteps DEF FreshInv
<1>3. \/ UNCHANGED <<log, cache>>
      \/ running' = None
    BY DEF Begin, RejectPolicy, CreateBus, DataLoss, ProviderMoves, ClientAppend, Expire, vars
<1>4. ApprovalFits'
    <2>1. CASE running' = None
        BY <2>1 DEF ApprovalFits
    <2>2. CASE UNCHANGED <<log, cache>> /\ UNCHANGED running /\ call'[running] = call[running]
        BY <1>2, <2>2 DEF FreshInv, ApprovalFits
    <2> QED BY <1>2, <1>3, <2>1, <2>2
<1>5. ASSUME ServiceOnly' PROVE PolicyFits'
    <2>1. PolicyFits
        BY <1>2, <1>5, ServiceWasAlone DEF FreshInv, PlainGrowth
    <2>2. CASE UNCHANGED <<log, cache>>
        BY <1>2, <2>1, <2>2 DEF PolicyFits
    <2>3. PICK l, h, m, k, v : /\ l = log /\ h = cache /\ m = log' /\ k = rs.next /\ v = rs.v
                               /\ l \in Seq(BusEntries) /\ k \in Nat /\ k <= Len(l)
        BY <1>1 DEF InMemTypes, ReplayState
    <2>4. Chained(l) /\ VersionAt(l, k, v) /\ VersionAt(l, Len(l), h) /\ Len(l) \in Nat
        BY <1>1, <2>1, <2>3 DEF PolicyFits
    <2>5. \A e \in BusEntries : m = Append(l, e) => VersionAt(m, k, v)
        <3> SUFFICES ASSUME NEW e \in BusEntries, m = Append(l, e) PROVE VersionAt(m, k, v)
            OBVIOUS
        <3>1. \A j \in 1 .. k : m[j] = l[j]
            BY <2>3, <2>4
        <3> QED BY <2>3, <2>4, <3>1, VersionKept
    <2>6. CASE \E c \in Calls : CreateBus(c)
        <3>1. PICK c \in Calls : CreateBus(c)
            BY <2>6
        <3>2. PICK x \in CallState : x = call[c]
            BY <1>1 DEF InMemTypes
        <3>3. PICK w \in Nat, pol \in Policies \cup {"on", None} : w = x.want.v /\ pol = x.want.pol
            BY DEF CallState
        <3>4. PICK b \in BusEntries : /\ b = Batch(None, w, pol)
                                      /\ b.t = "batch" /\ b.exp = None /\ b.new = w
            <4>1. Batch(None, w, pol) \in BusEntries
                BY DEF Batch, BusEntries
            <4> QED BY <4>1 DEF Batch
        <3>5. /\ m = Append(l, b) /\ running' = None
              /\ cache' = IF Len(l) = 0 /\ h = None THEN w ELSE h
            BY <1>1, <2>3, <3>1, <3>2, <3>3, <3>4 DEF CreateBus
        <3>6. IF Len(l) = 0 THEN h = None ELSE h \in Nat
            BY <2>3, <2>4, VersionIsNumber
        <3>7. CASE Len(l) = 0
            <4>1. cache' = b.new /\ VersionAt(l, Len(l), b.exp)
                BY <2>4, <3>4, <3>5, <3>6, <3>7
            <4>2. Chained(m) /\ VersionAt(m, Len(m), b.new)
                BY <2>3, <2>4, <3>4, <3>5, <4>1, ChainMoves
            <4> QED BY <1>2, <2>3, <2>5, <3>5, <4>1, <4>2 DEF PolicyFits
        <3>8. CASE Len(l) # 0
            <4>1. cache' = h /\ Len(l) > 0
                BY <2>4, <3>5, <3>8
            <4>2. Chained(m) /\ VersionAt(m, Len(m), h)
                BY <2>3, <2>4, <3>4, <3>5, <4>1, ChainPasses
            <4> QED BY <1>2, <2>3, <2>5, <3>5, <4>1, <4>2 DEF PolicyFits
        <3> QED BY <3>7, <3>8
    <2>7. CASE ClientAppend
        <3>1. PICK e \in ClientEntries : log' = Append(log, e)
            BY <2>7 DEF ClientAppend
        <3>2. /\ e \in BusEntries /\ (e.t = "batch" => e.pol = None)
            <4>1. CASE e \in {Intention("none", 0), Intention("required", 0)}
                BY <4>1, NewEntries
            <4>2. CASE \E p \in {q \in 0 .. (Len(log) - 1) : log[q + 1].t = "intention"},
                          val \in {"yes", "no", "other"} : e = Vote(p, val)
                BY <1>1, <4>2, NewEntries
            <4>3. CASE \E exp \in Versions, new \in Versions : e = Batch(exp, new, None)
                <5>1. PICK exp \in Nat, new \in Nat : e = Batch(exp, new, None)
                    BY <4>3 DEF Versions, InMemAssumption
                <5>2. e.pol = None
                    BY <5>1 DEF Batch
                <5> QED BY <5>1, <5>2, NewEntries
            <4> QED BY <4>1, <4>2, <4>3 DEF ClientEntries
        <3>3. e.t # "batch" /\ Len(l) > 0 /\ running' = None /\ cache' = cache
            <4>1. /\ Len(log') = Len(log) + 1 /\ log'[Len(log) + 1] = e
                  /\ Len(log) + 1 \in 1 .. Len(log')
                BY <1>1, <3>1, <3>2
            <4>2. e.t # "batch" /\ Len(log) + 1 > 1
                BY <1>5, <3>2, <4>1 DEF ServiceOnly
            <4> QED BY <1>1, <2>3, <2>7, <4>2 DEF ClientAppend
        <3>4. Chained(m) /\ VersionAt(m, Len(m), h)
            BY <2>3, <2>4, <3>1, <3>2, <3>3, ChainPasses
        <3> QED BY <1>2, <2>3, <2>5, <3>1, <3>2, <3>3, <3>4 DEF PolicyFits
    <2>8. \/ UNCHANGED <<log, cache>> \/ (\E c \in Calls : CreateBus(c)) \/ ClientAppend
        BY DEF Begin, RejectPolicy, DataLoss, ProviderMoves, Expire, vars
    <2> QED BY <2>2, <2>6, <2>7, <2>8
<1> QED BY <1>4, <1>5

LEMMA FreshInvInit == InMemAssumption /\ Init => FreshInv
<1> SUFFICES ASSUME InMemAssumption, Init PROVE FreshInv
    OBVIOUS
<1>1. OnceInv /\ ApprovalFits
    BY OnceInvInit DEF Init, ApprovalFits
<1>2. Chained(log) /\ VersionAt(log, rs.next, rs.v) /\ VersionAt(log, Len(log), cache)
    BY DEF Init, Chained, VersionAt
<1> QED BY <1>1, <1>2 DEF FreshInv, PolicyFits, Init

LEMMA FreshInvNext ==
    ASSUME InMemAssumption, FreshInv, [Next]_vars
    PROVE  FreshInv'
<1>1. OnceInv' /\ OnceInv
    BY OnceInvNext DEF FreshInv
<1>2. ApprovalFits' /\ (ServiceOnly => PolicyFits)'
    <2>1. CASE \E c \in Calls : ReplayEntry(c)
        <3>1. PICK c \in Calls : ReplayEntry(c)
            BY <2>1
        <3>2. ServiceOnly' => ServiceOnly
            <4>1. InMemTypes /\ Len(log) \in Nat
                BY <1>1, InLog DEF OnceInv
            <4>2. log' = log \/ \E d \in BusEntries : log' = Append(log, d)
                BY <1>1, <3>1, ReplayMoves
            <4>3. /\ Len(log') \in Nat /\ Len(log) <= Len(log')
                  /\ \A k \in 1 .. Len(log) : log'[k] = log[k]
                BY <4>1, <4>2, Grown
            <4> QED BY <4>1, <4>3, ServiceWasAlone
        <3> QED BY <1>1, <3>1, <3>2, ReplayKeepsApproval, ReplayKeepsPolicy DEF FreshInv
    <2>2. CASE \E c \in Calls : Drained(c)
        BY <2>2, DrainedKeepsFresh
    <2>3. CASE \E c \in Calls : CommitIntention(c)
        BY <2>3, CommitKeepsFresh
    <2>4. CASE \/ \E c \in Calls : Begin(c, "commit") \/ Begin(c, "create") \/ RejectPolicy(c)
                                   \/ CreateBus(c) \/ DataLoss(c)
               \/ ProviderMoves \/ ClientAppend \/ Expire \/ UNCHANGED vars
        BY <2>4, PlainKeepsFresh
    <2> QED BY <2>1, <2>2, <2>3, <2>4 DEF Next, Resume, Replay, AllDone
<1> QED BY <1>1, <1>2 DEF FreshInv

(* Only the replay loop returns an outcome.                                *)
LEMMA OutcomesAreReplayed ==
    ASSUME InMemAssumption, OnceInv, Next, NEW c \in Calls,
           call[c].pc # "done", call'[c].pc = "done", call'[c].result \in Outcomes
    PROVE  /\ ReplayEntry(c) /\ running = c /\ Decides(log[rs.next + 1]) = call[c].at
           /\ call'[c].result = log[rs.next + 1].t
<1>1. InMemTypes /\ call \in [Calls -> CallState]
    BY DEF OnceInv, InMemTypes
<1>2. \A d \in Calls, r \in {"internal", "ok", "data loss"} \cup Outcomes : Finish(d, r) => IF d = c THEN call'[c].result = r ELSE call'[c] = call[c]
    BY <1>1 DEF Finish, CallState
<1>3. \A d \in Calls, kind \in {"commit", "create"} : ~ Begin(d, kind)
    <2> SUFFICES ASSUME NEW d \in Calls, NEW kind \in {"commit", "create"}, Begin(d, kind) PROVE FALSE
        OBVIOUS
    <2>1. CASE d = c
        BY <1>1, <2>1 DEF Begin, CallState
    <2>2. CASE d # c
        BY <1>1, <2>2 DEF Begin
    <2> QED BY <2>1, <2>2
<1>4. \A d \in Calls : ~ RejectPolicy(d) /\ ~ CreateBus(d) /\ ~ DataLoss(d)
    <2> SUFFICES ASSUME NEW d \in Calls, RejectPolicy(d) \/ CreateBus(d) \/ DataLoss(d) PROVE FALSE
        OBVIOUS
    <2>1. PICK r \in {"internal", "ok", "data loss"} : Finish(d, r)
        BY DEF RejectPolicy, CreateBus, DataLoss
    <2>2. r \notin Outcomes
        BY DEF Outcomes
    <2> QED BY <1>2, <2>1, <2>2
<1>5. \A d \in Calls : ~ CommitIntention(d)
    <2> SUFFICES ASSUME NEW d \in Calls, CommitIntention(d) PROVE FALSE
        OBVIOUS
    <2>1. call'[d].pc = "replay"
        BY <1>1, Committed
    <2>2. d # c => call'[c] = call[c]
        BY <1>1 DEF CommitIntention
    <2> QED BY <2>1, <2>2
<1>6. \A d \in Calls : ~ Drained(d)
    BY DEF Drained
<1>7. ~ ProviderMoves /\ ~ ClientAppend /\ ~ Expire /\ ~ AllDone
    BY DEF ProviderMoves, ClientAppend, Expire, AllDone
<1>8. PICK d \in Calls : ReplayEntry(d)
    BY <1>3, <1>4, <1>5, <1>6, <1>7 DEF Next, Resume, Replay
<1>9. /\ running = d
      /\ IF Decides(log[rs.next + 1]) = call[d].at
         THEN Finish(d, log[rs.next + 1].t)
         ELSE call' = [call EXCEPT ![d].cursor = rs.next + 1]
    BY <1>8, Replayed
<1>10. Decides(log[rs.next + 1]) = call[d].at
    <2> SUFFICES ASSUME call' = [call EXCEPT ![d].cursor = rs.next + 1] PROVE FALSE
        BY <1>9
    <2>1. call'[c].pc = call[c].pc
        BY <1>1 DEF CallState
    <2> QED BY <2>1
<1>11. d = c /\ call'[c].result = log[rs.next + 1].t
    <2>1. call[d].at \in Nat /\ log[rs.next + 1] \in BusEntries
        BY <1>1, <1>8, Replayed DEF CallState
    <2>2. log[rs.next + 1].t \in Outcomes
        BY <1>10, <2>1, EntryKinds
    <2>3. PICK r \in Outcomes : r = log[rs.next + 1].t
        BY <2>2
    <2> QED BY <1>2, <1>9, <1>10, <2>3
<1> QED BY <1>8, <1>9, <1>10, <1>11

LEMMA StepsAreFresh ==
    ASSUME InMemAssumption, FreshInv, Next
    PROVE  Fresh
<1>1. ASSUME NEW c \in Calls, call[c].pc # "done", call'[c].pc = "done", call'[c].result \in Outcomes
      PROVE  /\ call'[c].result = "commit"
                  => rs'.v # None /\ rs'.v >= call[c].want.v /\ rs'.pol = "on"
             /\ ServiceOnly => rs'.v # None /\ rs'.v >= call[c].want.v
    <2> DEFINE p == rs.next
               e == log[p + 1]
    <2>1. /\ ReplayEntry(c) /\ running = c /\ Decides(e) = call[c].at /\ call'[c].result = e.t
          /\ OnceInv /\ InMemTypes /\ c # None /\ None \notin Nat
        BY <1>1, OutcomesAreReplayed DEF FreshInv, OnceInv, InMemAssumption
    <2>2. p \in Nat /\ p < Len(log) /\ Len(log) \in Nat /\ e \in BusEntries
        BY <2>1, Replayed, InLog
    <2>3. PICK x \in CallState : x = call[c]
        BY <2>1 DEF InMemTypes
    <2>4. x.at \in Nat /\ x.want.v \in Nat
        BY DEF CallState
    <2>5. e.t \in Outcomes /\ e.id = x.at
        BY <2>1, <2>2, <2>3, <2>4, EntryKinds
    <2>6. rs'.v = rs.v /\ rs'.pol = rs.pol
        <3>1. e.t # "batch"
            BY <2>5 DEF Outcomes
        <3> QED BY <2>1, <3>1, ReplayMoves
    <2>7. p + 1 \in 1 .. Len(log) /\ x.at < p
        BY <2>1, <2>2, <2>5 DEF OnceInv, DecisionsFit
    <2>8. call'[c].result = "commit" => rs.v # None /\ rs.v >= x.want.v /\ rs.pol = "on"
        BY <2>1, <2>3, <2>5, <2>7 DEF FreshInv, ApprovalFits
    <2>9. ASSUME ServiceOnly PROVE rs.v # None /\ rs.v >= x.want.v
        <3>1. /\ VersionAt(log, p, rs.v) /\ VersionAt(log, Len(log), cache)
              /\ cache \in Nat /\ cache >= x.want.v
            BY <2>1, <2>3, <2>9 DEF FreshInv, PolicyFits
        <3> HIDE DEF p, e
        <3>2. \A j \in 1 .. Len(log) : j > p => ~ PolicyBatch(log, j)
            <4> SUFFICES ASSUME NEW j \in 1 .. Len(log), j > p PROVE ~ PolicyBatch(log, j)
                OBVIOUS
            <4>1. j > x.at + 1
                BY <2>2, <2>4, <2>7
            <4>2. log[j].t \in Outcomes
                BY <2>1, <2>3, <4>1 DEF FreshInv, ApprovalFits
            <4> QED BY <4>2 DEF PolicyBatch, Outcomes
        <3>3. p \in Nat \ {0} /\ p <= Len(log)
            BY <2>2, <2>4, <2>7
        <3>4. VersionAt(log, Len(log), rs.v)
            BY <2>2, <3>1, <3>2, <3>3, VersionRuns
        <3>5. rs.v = cache
            BY <2>2, <3>1, <3>4, VersionUnique
        <3> QED BY <2>1, <3>1, <3>5
    <2> QED BY <2>3, <2>6, <2>8, <2>9
<1>2. ApprovingFresh
    BY <1>1 DEF ApprovingFresh, Outcomes
<1>3. ServiceOnly => Adopting
    BY <1>1 DEF Adopting, Outcomes
<1> QED BY <1>2, <1>3 DEF Fresh

(* A commit is approved only under an ON_BY_DEFAULT policy at least as new *)
(* as the one its provider read returned, on any bus; and where the        *)
(* service alone appends policy batches to a bus it created, every outcome *)
(* comes after that policy was adopted (reconcile_policy and the version   *)
(* constraint of commit_intention).                                        *)
THEOREM FreshPolicies == ASSUME InMemAssumption PROVE Spec => CommitsUseNewestPolicy
<1>1. Init => FreshInv
    BY FreshInvInit
<1>2. FreshInv /\ [Next]_vars => FreshInv'
    BY FreshInvNext
<1>3. FreshInv /\ [Next]_vars => [Fresh]_vars
    BY StepsAreFresh
<1> QED BY <1>1, <1>2, <1>3, PTL DEF Spec, CommitsUseNewestPolicy

=============================================================================
