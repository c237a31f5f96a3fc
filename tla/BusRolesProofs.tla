--------------------------- MODULE BusRolesProofs ---------------------------
(***************************************************************************)
(* Theorems about AppServer and BusReaders.                                *)
(*                                                                         *)
(* The roles (BusRoles), for any number of deciders, voters, gates and     *)
(* clients, any page size and any number of faults: every decision in the  *)
(* log is the one that the log before it implies, and what a role has      *)
(* played it has dealt with.                                               *)
(*                                                                         *)
(* The mailbox (Mail), for any size of buffer and page: mail arrives once, *)
(* in order and as what it was sent, unless newer mail took its room.      *)
(*                                                                         *)
(* The voters (Voting), for any configs, intentions and answers: a vote is *)
(* what the config in force says.                                          *)
(*                                                                         *)
(* The readers (Simple, Cli), for any number of them, any filters, page    *)
(* sizes, lifetimes and commands: a reader of the in-memory bus gets the   *)
(* entries it asked for in order, and the CLI shows its range without a    *)
(* gap.                                                                    *)
(***************************************************************************)
EXTENDS AppServer, BusReaders, FiniteSetTheorems, SequenceTheorems, WellFoundedInduction, TLAPS

Policies == {"on"} \cup {e.policy : e \in Clients}
Configs  == {"none"} \cup {e.config : e \in Clients}

Entries ==
    Clients \cup {StringIntention}
    \cup {Vote(p, value, v, config) :
            p \in Nat, value \in {"true", "false"}, v \in Voters, config \in Configs}
    \cup {Decision(p, commit) : p \in Nat, commit \in BOOLEAN}

DeciderState ==
    [pc : {"poll", "play", "append", "down"}, pos : Nat, upto : Nat, policy : Policies,
     waiting : SUBSET Nat, pending : [intention : Int, commit : BOOLEAN]]

VoterState ==
    [pc : {"poll", "append", "down"}, pos : Nat, at : Int, upto : Nat,
     config : Configs, value : {"true", "false"}]

GateState ==
    [pc : {"idle", "wait", "approved", "rejected", "timed_out"}, id : Int, next : Nat]

RolesTypes ==
    /\ log \in Seq(Entries)
    /\ decider \in [Deciders -> DeciderState]
    /\ voter \in [Voters -> VoterState]
    /\ gate \in [Gates -> GateState]

-----------------------------------------------------------------------------
(* Least and greatest positions.                                           *)

LEMMA LeastOf ==
    ASSUME NEW S \in SUBSET Nat, S # {}
    PROVE  Least(S) \in S /\ \A q \in S : Least(S) <= q
<1> DEFINE less == OpToRel(<, Nat)
<1>1. IsWellFoundedOn(less, Nat)
    BY NatLessThanWellFounded
<1>2. \A m, n \in Nat : m < n => <<m, n>> \in less
    BY DEF OpToRel
<1> HIDE DEF less
<1>3. PICK n \in S : \A m \in S : ~ (<<m, n>> \in less)
    BY <1>1, WFMin
<1>4. \A m \in S : ~ (m < n)
    BY <1>2, <1>3, Zenon
<1>5. \A m \in S : n <= m
    BY <1>4
<1> QED BY <1>5 DEF Least

LEMMA LeastIs ==
    ASSUME NEW S \in SUBSET Nat, NEW p \in S, \A q \in S : p <= q
    PROVE  Least(S) = p
<1>1. Least(S) \in S /\ Least(S) <= p
    BY LeastOf
<1>2. p <= Least(S)
    BY <1>1
<1>3. Least(S) \in Nat /\ p \in Nat
    BY <1>1
<1> QED BY <1>1, <1>2, <1>3

Greatest(S) == CHOOSE p \in S : \A q \in S : q <= p

LEMMA GreatestIs ==
    ASSUME NEW S \in SUBSET Nat, NEW p \in S, \A q \in S : q <= p
    PROVE  Greatest(S) = p
<1>1. Greatest(S) \in S /\ \A q \in S : q <= Greatest(S)
    BY DEF Greatest
<1>2. Greatest(S) <= p /\ p <= Greatest(S) /\ Greatest(S) \in Nat /\ p \in Nat
    BY <1>1
<1> QED BY <1>2

(* A bounded set of positions has a greatest one.                          *)
LEMMA GreatestOf ==
    ASSUME NEW n \in Nat, NEW S \in SUBSET (0 .. (n - 1)), S # {}
    PROVE  Greatest(S) \in S /\ \A q \in S : q <= Greatest(S)
<1> DEFINE T == {n - p : p \in S}
<1>1. T \in SUBSET Nat /\ T # {}
    OBVIOUS
<1>2. PICK p \in S : Least(T) = n - p
    BY <1>1, LeastOf
<1>3. \A q \in S : n - p <= n - q
    BY <1>1, <1>2, LeastOf
<1>4. \A q \in S : q <= p
    BY <1>3
<1> QED BY <1>4 DEF Greatest

-----------------------------------------------------------------------------
(* What the log says, and that it says the same when it has grown.         *)

LEMMA LogFacts ==
    ASSUME RolesTypes
    PROVE  /\ LogTail \in Nat /\ Taken \subseteq Nat
           /\ \A p \in Taken : At(p) \in Entries
           /\ \A p : p \in Taken <=> p \in Nat /\ p < LogTail
BY DEF RolesTypes, LogTail, Taken, At

Extends ==
    /\ LogTail \in Nat /\ LogTail' \in Nat /\ LogTail <= LogTail'
    /\ \A p \in Taken : At(p)' = At(p)

LEMMA SameLog ==
    ASSUME RolesTypes, UNCHANGED log
    PROVE  Extends /\ LogTail' = LogTail
BY LogFacts DEF Extends, LogTail, At

LEMMA LogAppended ==
    ASSUME RolesTypes, NEW e \in Entries, log' = Append(log, e)
    PROVE  /\ Extends /\ LogTail' = LogTail + 1
           /\ log' \in Seq(Entries) /\ log'[LogTail + 1] = e
           /\ Taken' = Taken \cup {LogTail}
<1>1. /\ Len(log') = Len(log) + 1 /\ Len(log) \in Nat /\ log'[Len(log) + 1] = e
      /\ log' \in Seq(Entries) /\ \A i \in 1 .. Len(log) : log'[i] = log[i]
    BY DEF RolesTypes
<1> QED BY <1>1 DEF Extends, LogTail, At, Taken

LEMMA OfStays ==
    ASSUME Extends, NEW types
    PROVE  /\ Of(types) \subseteq Nat /\ Of(types)' \subseteq Nat
           /\ \A p \in Nat : p < LogTail => (p \in Of(types)' <=> p \in Of(types))
           /\ Of(types) \subseteq Of(types)'
<1>1. /\ \A p : p \in Taken <=> p \in Nat /\ p < LogTail
      /\ \A p : p \in Taken' <=> p \in Nat /\ p < LogTail'
    BY DEF Extends, Taken
<1>2. \A p \in Taken : p \in Taken' /\ At(p)' = At(p)
    BY <1>1 DEF Extends
<1>3. /\ \A p : p \in Of(types) <=> p \in Taken /\ At(p).type \in types
      /\ \A p : p \in Of(types)' <=> p \in Taken' /\ At(p)'.type \in types
    BY DEF Of, At
<1> QED BY <1>1, <1>2, <1>3

PoliciesBefore(p) == {q \in Of({"decider_policy"}) : q < p}

LEMMA PolicyIs ==
    ASSUME NEW p
    PROVE  PolicyFor(p) = IF PoliciesBefore(p) = {} THEN "on"
                          ELSE At(Greatest(PoliciesBefore(p))).policy
BY DEF PolicyFor, PoliciesBefore, Greatest

LEMMA PolicyStays ==
    ASSUME Extends, NEW p \in Nat, p <= LogTail
    PROVE  PolicyFor(p)' = PolicyFor(p)
<1>1. PoliciesBefore(p)' = PoliciesBefore(p)
    BY OfStays DEF PoliciesBefore, Extends
<1>2. CASE PoliciesBefore(p) = {}
    BY <1>1, <1>2 DEF PolicyFor, PoliciesBefore
<1>3. CASE PoliciesBefore(p) # {}
    <2>1. PoliciesBefore(p) \in SUBSET (0 .. (LogTail - 1)) /\ LogTail \in Nat
        BY DEF PoliciesBefore, Of, Taken, Extends
    <2>2. PICK g \in PoliciesBefore(p) : g = Greatest(PoliciesBefore(p))
        BY <1>3, <2>1, GreatestOf
    <2>3. g = Greatest(PoliciesBefore(p))' /\ g \in Taken
        BY <1>1, <2>1, <2>2 DEF Greatest, Taken
    <2>4. At(g)' = At(g)
        BY <2>3 DEF Extends
    <2>5. PolicyFor(p) = At(g).policy
        BY <1>3, <2>2, PolicyIs
    <2>6. PolicyFor(p)' = At(g)'.policy
        <3>1. PolicyFor(p)' = At(Greatest(PoliciesBefore(p)))'.policy
            BY <1>1, <1>3 DEF PolicyFor, PoliciesBefore, Greatest
        <3> QED BY <2>3, <3>1 DEF At
    <2> QED BY <2>4, <2>5, <2>6
<1> QED BY <1>2, <1>3

(* The policy in force one entry later.                                    *)
LEMMA PolicyNext ==
    ASSUME RolesTypes, NEW p \in Taken
    PROVE  PolicyFor(p + 1) = IF At(p).type = "decider_policy" THEN At(p).policy ELSE PolicyFor(p)
<1>1. p \in Nat /\ Of({"decider_policy"}) \subseteq Nat
    BY LogFacts DEF Of
<1>2. CASE At(p).type = "decider_policy"
    <2>1. p \in PoliciesBefore(p + 1) /\ \A q \in PoliciesBefore(p + 1) : q <= p
        BY <1>1, <1>2 DEF PoliciesBefore, Of
    <2>2. PoliciesBefore(p + 1) \in SUBSET Nat
        BY <1>1 DEF PoliciesBefore
    <2>3. Greatest(PoliciesBefore(p + 1)) = p
        BY <2>1, <2>2, GreatestIs
    <2> QED BY <1>2, <2>1, <2>3, PolicyIs
<1>3. CASE At(p).type # "decider_policy"
    <2>1. PoliciesBefore(p + 1) = PoliciesBefore(p)
        BY <1>1, <1>3 DEF PoliciesBefore, Of
    <2> QED BY <1>3, <2>1, PolicyIs
<1> QED BY <1>2, <1>3

ConfigsBefore(p) == {q \in Of({"voter_policy"}) : q < p /\ At(q).config # "absent"}

LEMMA ConfigIs ==
    ASSUME NEW p
    PROVE  ConfigFor(p) = IF ConfigsBefore(p) = {} THEN "none"
                          ELSE At(Greatest(ConfigsBefore(p))).config
BY DEF ConfigFor, ConfigsBefore, Greatest

LEMMA ConfigStays ==
    ASSUME Extends, NEW p \in Nat, p <= LogTail
    PROVE  ConfigFor(p)' = ConfigFor(p)
<1>1. ConfigsBefore(p)' = ConfigsBefore(p)
    BY OfStays DEF ConfigsBefore, Extends, Of, Taken
<1>2. CASE ConfigsBefore(p) = {}
    BY <1>1, <1>2 DEF ConfigFor, ConfigsBefore
<1>3. CASE ConfigsBefore(p) # {}
    <2>1. ConfigsBefore(p) \in SUBSET (0 .. (LogTail - 1)) /\ LogTail \in Nat
        BY DEF ConfigsBefore, Of, Taken, Extends
    <2>2. PICK g \in ConfigsBefore(p) : g = Greatest(ConfigsBefore(p))
        BY <1>3, <2>1, GreatestOf
    <2>3. g = Greatest(ConfigsBefore(p))' /\ g \in Taken
        BY <1>1, <2>1, <2>2 DEF Greatest, Taken
    <2>4. At(g)' = At(g)
        BY <2>3 DEF Extends
    <2>5. ConfigFor(p) = At(g).config
        BY <1>3, <2>2, ConfigIs
    <2>6. ConfigFor(p)' = At(g)'.config
        <3>1. ConfigFor(p)' = At(Greatest(ConfigsBefore(p)))'.config
            BY <1>1, <1>3 DEF ConfigFor, ConfigsBefore, Greatest
        <3> QED BY <2>3, <3>1 DEF At
    <2> QED BY <2>4, <2>5, <2>6
<1> QED BY <1>2, <1>3

(* The configuration in force, when no voter policy lies in between ...    *)
LEMMA ConfigSame ==
    ASSUME NEW p \in Nat, NEW n \in Nat, p <= n, Of({"voter_policy"}) \subseteq Nat,
           \A q \in Of({"voter_policy"}) : ~ (p <= q /\ q < n)
    PROVE  ConfigFor(n) = ConfigFor(p)
<1>1. ConfigsBefore(n) = ConfigsBefore(p)
    BY DEF ConfigsBefore
<1> QED BY <1>1, ConfigIs

(* ... and right after one.                                                *)
LEMMA ConfigNext ==
    ASSUME RolesTypes, NEW p \in Of({"voter_policy"})
    PROVE  ConfigFor(p + 1) = ProcessVoterPolicy(ConfigFor(p), At(p).config)
<1>1. p \in Nat /\ Of({"voter_policy"}) \subseteq Nat
    BY LogFacts DEF Of
<1>2. CASE At(p).config # "absent"
    <2>1. p \in ConfigsBefore(p + 1) /\ \A q \in ConfigsBefore(p + 1) : q <= p
        BY <1>1, <1>2 DEF ConfigsBefore
    <2>2. ConfigsBefore(p + 1) \in SUBSET Nat
        BY <1>1 DEF ConfigsBefore
    <2>3. Greatest(ConfigsBefore(p + 1)) = p
        BY <2>1, <2>2, GreatestIs
    <2> QED BY <1>2, <2>1, <2>3, ConfigIs DEF ProcessVoterPolicy
<1>3. CASE At(p).config = "absent"
    <2>1. ConfigsBefore(p + 1) = ConfigsBefore(p)
        BY <1>1, <1>3 DEF ConfigsBefore
    <2> QED BY <1>3, <2>1, ConfigIs DEF ProcessVoterPolicy
<1> QED BY <1>2, <1>3

(* Votes on an intention.                                                  *)
BallotsOn(p, n) ==
    {q \in Of({"vote"}) : p < q /\ q < n /\ At(q).intention = p /\ IsBoolean(At(q))}

Undecided(p) == PolicyFor(p) \notin {"on", "off"}

LEMMA VerdictIs ==
    ASSUME NEW p, NEW n
    PROVE  LogVerdict(p, n) =
             IF ~ Undecided(p) THEN {PolicyFor(p) = "on"}
             ELSE IF BallotsOn(p, n) = {} THEN {} ELSE ApplyVote(At(Least(BallotsOn(p, n))))
BY DEF LogVerdict, Undecided, BallotsOn

(* There is a verdict as soon as there is a vote.                          *)
LEMMA VerdictEmpty ==
    ASSUME RolesTypes, NEW p, NEW n
    PROVE  LogVerdict(p, n) = {} <=> Undecided(p) /\ BallotsOn(p, n) = {}
<1>1. CASE ~ Undecided(p) \/ BallotsOn(p, n) = {}
    BY <1>1, VerdictIs
<1>2. CASE Undecided(p) /\ BallotsOn(p, n) # {}
    <2>1. BallotsOn(p, n) \in SUBSET Nat
        BY LogFacts DEF BallotsOn, Of
    <2>2. Least(BallotsOn(p, n)) \in BallotsOn(p, n)
        BY <1>2, <2>1, LeastOf
    <2>3. ApplyVote(At(Least(BallotsOn(p, n)))) # {}
        BY <2>2 DEF BallotsOn, ApplyVote
    <2> QED BY <1>2, <2>3, VerdictIs
<1> QED BY <1>1, <1>2

(* The first vote decides: more log does not change a verdict.             *)
LEMMA VerdictLasts ==
    ASSUME RolesTypes, NEW p \in Nat, NEW n \in Nat, NEW m \in Nat, n <= m,
           LogVerdict(p, n) # {}
    PROVE  LogVerdict(p, m) = LogVerdict(p, n)
<1>1. CASE ~ Undecided(p)
    BY <1>1, VerdictIs
<1>2. CASE Undecided(p)
    <2>1. BallotsOn(p, n) # {}
        BY <1>2, VerdictEmpty
    <2>2. BallotsOn(p, n) \in SUBSET Nat /\ BallotsOn(p, m) \in SUBSET Nat
        BY LogFacts DEF BallotsOn, Of
    <2>3. PICK l \in BallotsOn(p, n) : l = Least(BallotsOn(p, n)) /\ \A q \in BallotsOn(p, n) : l <= q
        BY <2>1, <2>2, LeastOf
    <2>4. l \in BallotsOn(p, m) /\ l < n
        BY <2>2 DEF BallotsOn
    <2>5. \A q \in BallotsOn(p, m) : q \in BallotsOn(p, n) \/ n <= q
        BY <2>2 DEF BallotsOn
    <2>6. \A q \in BallotsOn(p, m) : l <= q
        BY <2>2, <2>3, <2>4, <2>5
    <2>7. Least(BallotsOn(p, m)) = l
        BY <2>2, <2>4, <2>6, LeastIs
    <2> QED BY <1>2, <2>1, <2>3, <2>4, <2>7, VerdictIs
<1> QED BY <1>1, <1>2

(* The verdict one entry later.                                            *)
LEMMA VerdictNext ==
    ASSUME RolesTypes, NEW p \in Nat, NEW n \in Taken, LogVerdict(p, n) = {}
    PROVE  LogVerdict(p, n + 1) =
             IF p < n /\ At(n).type = "vote" /\ At(n).intention = p THEN ApplyVote(At(n)) ELSE {}
<1>1. n \in Nat /\ Of({"vote"}) \subseteq Nat
    BY LogFacts DEF Of
<1>2. Undecided(p) /\ BallotsOn(p, n) = {}
    BY VerdictEmpty
<1>3. CASE p < n /\ At(n).type = "vote" /\ At(n).intention = p /\ IsBoolean(At(n))
    <2>1. n \in BallotsOn(p, n + 1)
        BY <1>1, <1>3 DEF BallotsOn, Of
    <2>2. \A q \in BallotsOn(p, n + 1) : n <= q
        BY <1>1, <1>2 DEF BallotsOn
    <2>3. BallotsOn(p, n + 1) \in SUBSET Nat
        BY <1>1 DEF BallotsOn
    <2>4. Least(BallotsOn(p, n + 1)) = n
        BY <2>1, <2>2, <2>3, LeastIs
    <2> QED BY <1>2, <1>3, <2>1, <2>4, VerdictIs
<1>4. CASE ~ (p < n /\ At(n).type = "vote" /\ At(n).intention = p /\ IsBoolean(At(n)))
    <2>1. \A q \in BallotsOn(p, n + 1) : q = n
        BY <1>1, <1>2 DEF BallotsOn
    <2>2. n \notin BallotsOn(p, n + 1)
        BY <1>4 DEF BallotsOn, Of
    <2>3. BallotsOn(p, n + 1) = {}
        BY <2>1, <2>2
    <2>4. LogVerdict(p, n + 1) = {}
        BY <1>2, <2>3, VerdictIs
    <2> QED BY <1>4, <2>4 DEF ApplyVote
<1> QED BY <1>3, <1>4

LEMMA VerdictStays ==
    ASSUME RolesTypes, Extends, NEW p \in Nat, p <= LogTail, NEW n \in Nat, n <= LogTail
    PROVE  LogVerdict(p, n)' = LogVerdict(p, n)
<1>1. PolicyFor(p)' = PolicyFor(p)
    BY PolicyStays
<1>2. BallotsOn(p, n)' = BallotsOn(p, n)
    <2>1. \A q \in Nat : q < n => (q \in Of({"vote"})' <=> q \in Of({"vote"}))
        BY OfStays DEF Extends
    <2>2. \A q \in Of({"vote"}) : At(q)' = At(q)
        BY DEF Extends, Of
    <2>3. Of({"vote"}) \subseteq Nat /\ Of({"vote"})' \subseteq Nat
        BY OfStays
    <2>4. \A q : q \in BallotsOn(p, n) <=>
            q \in Of({"vote"}) /\ p < q /\ q < n /\ At(q).intention = p /\ IsBoolean(At(q))
        BY DEF BallotsOn
    <2>5. \A q : q \in BallotsOn(p, n)' <=>
            q \in Of({"vote"})' /\ p < q /\ q < n /\ At(q)'.intention = p /\ IsBoolean(At(q)')
        BY DEF BallotsOn, At, IsBoolean
    <2>6. \A q : q \in BallotsOn(p, n)' <=> q \in BallotsOn(p, n)
        BY <2>1, <2>2, <2>3, <2>4, <2>5
    <2> QED BY <2>6
<1>3. CASE ~ Undecided(p) \/ BallotsOn(p, n) = {}
    BY <1>1, <1>2, <1>3 DEF LogVerdict, Undecided, BallotsOn
<1>4. CASE Undecided(p) /\ BallotsOn(p, n) # {}
    <2>1. BallotsOn(p, n) \in SUBSET Nat
        BY LogFacts DEF BallotsOn, Of
    <2>2. PICK l \in BallotsOn(p, n) : l = Least(BallotsOn(p, n))
        BY <1>4, <2>1, LeastOf
    <2>3. l = Least(BallotsOn(p, n))' /\ l \in Taken
        BY <1>2, <2>2 DEF Least, BallotsOn, Of
    <2>4. At(l)' = At(l)
        BY <2>3 DEF Extends
    <2>5. LogVerdict(p, n) = ApplyVote(At(l))
        BY <1>4, <2>2, VerdictIs
    <2>6. LogVerdict(p, n)' = ApplyVote(At(Least(BallotsOn(p, n))))'
        BY <1>1, <1>2, <1>4 DEF LogVerdict, Undecided, BallotsOn
    <2> QED BY <2>3, <2>4, <2>5, <2>6 DEF At, ApplyVote, IsBoolean
<1> QED BY <1>3, <1>4

-----------------------------------------------------------------------------
FirstFew(found, limit) == {p \in found : Cardinality({q \in found : q < p}) < limit}

(* The first few of a set of positions: all of it, or all up to the last.  *)
LEMMA FirstFewFacts ==
    ASSUME NEW n \in Nat, NEW found \in SUBSET (0 .. (n - 1)), NEW limit \in Nat \ {0}
    PROVE  LET page == FirstFew(found, limit)
           IN  IF Cardinality(page) = limit
               THEN Greatest(page) \in found /\ page = {p \in found : p <= Greatest(page)}
               ELSE page = found
<1> DEFINE Low(p) == {q \in found : q < p}
           page == FirstFew(found, limit)
<1>0. page = {p \in found : Cardinality(Low(p)) < limit}
    BY DEF FirstFew
<1>1. IsFiniteSet(0 .. (n - 1))
    BY FS_Interval
<1>2. IsFiniteSet(found)
    BY <1>1, FS_Subset
<1>3. \A p : IsFiniteSet(Low(p)) /\ Cardinality(Low(p)) \in Nat
    BY <1>2, FS_Subset, FS_CardinalityType
<1>4. IsFiniteSet(page) /\ Cardinality(page) \in Nat /\ page \in SUBSET (0 .. (n - 1))
    BY <1>0, <1>2, FS_Subset, FS_CardinalityType
<1>5. \A p, q \in found : p <= q => Cardinality(Low(p)) <= Cardinality(Low(q))
    <2> SUFFICES ASSUME NEW p \in found, NEW q \in found, p <= q
                 PROVE  Cardinality(Low(p)) <= Cardinality(Low(q))
        OBVIOUS
    <2>1. Low(p) \subseteq Low(q)
        <3>1. \A q1 \in found : q1 \in Nat
            OBVIOUS
        <3>2. \A q1 \in Low(p) : q1 \in found /\ q1 < p
            OBVIOUS
        <3>3. \A q1 \in found : q1 < q => q1 \in Low(q)
            OBVIOUS
        <3> HIDE DEF Low
        <3>4. SUFFICES ASSUME NEW q1 \in Low(p) PROVE q1 \in Low(q)
            OBVIOUS
        <3>5. q1 \in Nat /\ p \in Nat /\ q \in Nat /\ q1 < p
            BY <3>1, <3>2
        <3> QED BY <3>2, <3>3, <3>5
    <2> QED BY <1>3, <2>1, FS_Subset
<1>6. /\ \A p \in found : p \in Nat /\ p < n
      /\ \A p, q : q \in Low(p) <=> q \in found /\ q < p
      /\ \A p : p \in page <=> p \in found /\ Cardinality(Low(p)) < limit
    <2>1. \A p \in found : p \in Nat /\ p < n
        OBVIOUS
    <2> QED BY <1>0, <2>1
<1> HIDE DEF Low, page
<1>7. \A p, q \in found : p <= q /\ q \in page => p \in page
    <2> SUFFICES ASSUME NEW p \in found, NEW q \in found, p <= q, q \in page PROVE p \in page
        OBVIOUS
    <2>1. Cardinality(Low(p)) <= Cardinality(Low(q)) /\ Cardinality(Low(q)) < limit
        BY <1>5, <1>6
    <2>2. Cardinality(Low(p)) < limit
        BY <1>3, <2>1
    <2> QED BY <1>6, <2>2
<1>8. CASE Cardinality(page) = limit
    <2>1. page # {}
        BY <1>8, FS_EmptySet
    <2>2. Greatest(page) \in page /\ \A q \in page : q <= Greatest(page)
        BY <1>4, <2>1, GreatestOf
    <2>3. \A p \in found : p <= Greatest(page) <=> p \in page
        BY <1>6, <1>7, <2>2
    <2>4. page = {p \in found : p <= Greatest(page)}
        BY <1>6, <2>3
    <2>5. Greatest(page) \in found
        BY <1>6, <2>2
    <2> QED BY <1>8, <2>4, <2>5 DEF page
<1>9. CASE Cardinality(page) # limit
    <2>0. page \subseteq found
        BY <1>6
    <2> SUFFICES ASSUME found \ page # {} PROVE FALSE
        <3>1. page # found => found \ page # {}
            BY <2>0
        <3> QED BY <1>9, <3>1 DEF page
    <2>1. found \ page \in SUBSET Nat
        BY <1>6
    <2>2. PICK p \in found \ page : \A q \in found \ page : p <= q
        BY <2>1, LeastOf
    <2>3. p \in Nat /\ p \in found /\ p \notin page
        BY <1>6
    <2>4. \A q \in page : q \in Low(p)
        <3> SUFFICES ASSUME NEW q \in page PROVE q < p
            BY <1>6
        <3>1. q \in found /\ q \in Nat
            BY <1>6
        <3> QED BY <1>7, <2>3, <3>1
    <2>5. \A q \in Low(p) : q \in page
        <3> SUFFICES ASSUME NEW q \in Low(p), q \notin page PROVE FALSE
            OBVIOUS
        <3>1. q \in found \ page /\ q < p /\ q \in Nat
            BY <1>6
        <3>2. p <= q
            BY <2>2, <3>1
        <3> QED BY <2>3, <3>1, <3>2
    <2>6. page = Low(p)
        BY <2>4, <2>5
    <2>7. Cardinality(page) >= limit
        BY <1>3, <1>6, <2>3, <2>6
    <2>8. page # {}
        BY <2>7, FS_EmptySet
    <2>9. PICK g \in page : g = Greatest(page) /\ \A q \in page : q <= g
        BY <1>4, <2>8, GreatestOf
    <2>10. g \in found /\ g \in Nat /\ g < p /\ Cardinality(Low(g)) < limit
        BY <1>6, <2>4
    <2>11. \A q \in Low(g) : q \in page
        BY <1>6, <2>3, <2>6, <2>10
    <2>12. \A q \in page : q \in Low(g) \/ q = g
        BY <1>6, <2>9, <2>10
    <2>13. g \notin Low(g)
        <3>1. ~ (g < g)
            BY <2>10
        <3> QED BY <1>6, <3>1
    <2>14. page = Low(g) \cup {g}
        BY <2>11, <2>12
    <2>15. Cardinality(page) = Cardinality(Low(g)) + 1
        BY <1>3, <2>13, <2>14, FS_AddElement
    <2> QED BY <1>3, <1>4, <1>9, <2>7, <2>10, <2>15
<1> QED BY <1>8, <1>9 DEF page

(* A page holds the matching entries up to the position it is left at.     *)
LEMMA PageFacts ==
    ASSUME RolesTypes, NEW start \in Nat, start <= LogTail, NEW types, NEW limit \in Nat \ {0}
    PROVE  /\ NextStart(start, types, limit) \in Nat
           /\ NextStart(start, types, limit) <= LogTail
           /\ start <= NextStart(start, types, limit)
           /\ start < LogTail => start < NextStart(start, types, limit)
           /\ Matching(start, types, limit) =
                {p \in Of(types) : start <= p /\ p < NextStart(start, types, limit)}
<1> DEFINE found == {p \in Of(types) : p >= start}
           page == Matching(start, types, limit)
           end == NextStart(start, types, limit)
<1>1. LogTail \in Nat /\ Taken = 0 .. (LogTail - 1) /\ Of(types) \subseteq Taken
    BY LogFacts DEF Taken, Of
<1>2. found \in SUBSET (0 .. (LogTail - 1))
    BY <1>1
<1>3. page = FirstFew(found, limit)
    BY DEF Matching, FirstFew
<1>4. end = IF Cardinality(page) = limit THEN Greatest(page) + 1 ELSE LogTail
    BY DEF NextStart, Greatest
<1>5. \A p : p \in found <=> p \in Of(types) /\ p \in Nat /\ start <= p /\ p < LogTail
    BY <1>1
<1> HIDE DEF page, end, found
<1>6. CASE Cardinality(page) = limit
    <2>1. PICK g \in found : g = Greatest(page) /\ page = {p \in found : p <= g} /\ end = g + 1
        BY <1>1, <1>2, <1>3, <1>4, <1>6, FirstFewFacts
    <2>2. g \in Nat /\ start <= g /\ g < LogTail /\ end \in Nat
        BY <1>5, <2>1
    <2>3. \A p \in Nat : p <= g <=> p < end
        BY <2>1, <2>2
    <2>4. page = {p \in Of(types) : start <= p /\ p < end}
        BY <1>1, <1>5, <2>1, <2>2, <2>3
    <2>5. end <= LogTail /\ start <= end /\ start < end
        <3>1. end = g + 1
            BY <2>1
        <3> QED BY <1>1, <2>2, <3>1
    <2> QED BY <2>2, <2>4, <2>5 DEF page, end
<1>7. CASE Cardinality(page) # limit
    <2>1. page = found /\ end = LogTail
        BY <1>1, <1>2, <1>3, <1>4, <1>7, FirstFewFacts
    <2>2. page = {p \in Of(types) : start <= p /\ p < LogTail}
        BY <1>1, <1>5, <2>1
    <2> QED BY <1>1, <2>1, <2>2 DEF page, end
<1> QED BY <1>6, <1>7

(* A page of one entry holds the first that matches.                       *)
LEMMA PageOfOne ==
    ASSUME RolesTypes, NEW start \in Nat, start <= LogTail, NEW types,
           Matching(start, types, 1) # {}
    PROVE  \E p \in Of(types) :
             /\ p = Least(Matching(start, types, 1)) /\ start <= p /\ p \in Taken
             /\ NextStart(start, types, 1) = p + 1
             /\ \A q \in Of(types) : ~ (start <= q /\ q < p)
<1> DEFINE page == Matching(start, types, 1)
           end == NextStart(start, types, 1)
<1>1. 1 \in Nat \ {0}
    OBVIOUS
<1>2. /\ end \in Nat /\ end <= LogTail
      /\ page = {p \in Of(types) : start <= p /\ p < end}
    BY <1>1, PageFacts
<1>3. Of(types) \subseteq Nat /\ Of(types) \subseteq Taken /\ Taken = 0 .. (LogTail - 1) /\ LogTail \in Nat
    BY LogFacts DEF Of, Taken
<1>4. page \in SUBSET Nat /\ page \in SUBSET (0 .. (LogTail - 1))
    BY <1>2, <1>3
<1>5. PICK p \in page : p = Least(page) /\ \A q \in page : p <= q
    BY <1>4, LeastOf
<1>6. \A q \in Of(types) : ~ (start <= q /\ q < p)
    BY <1>2, <1>3, <1>5
<1>7. page = {p}
    <2> SUFFICES ASSUME NEW q \in page, q # p PROVE FALSE
        OBVIOUS
    <2> DEFINE found == {x \in Of(types) : x >= start}
               low == {x \in found : x < q}
    <2>1. Cardinality(low) < 1
        BY DEF Matching
    <2>2. p \in low
        BY <1>2, <1>3, <1>5
    <2>3. IsFiniteSet(0 .. (LogTail - 1))
        BY <1>3, FS_Interval
    <2>4. IsFiniteSet(low)
        BY <1>3, <2>3, FS_Subset
    <2> HIDE DEF low
    <2>5. Cardinality(low) \in Nat /\ Cardinality(low) # 0
        BY <2>2, <2>4, FS_CardinalityType, FS_EmptySet
    <2> QED BY <2>1, <2>5
<1>8. Cardinality(page) = 1
    BY <1>7, FS_Singleton
<1>9. Greatest(page) = p
    BY <1>4, <1>7, GreatestIs
<1>10. end = p + 1
    BY <1>8, <1>9 DEF NextStart, Greatest
<1> QED BY <1>2, <1>3, <1>5, <1>6, <1>10

-----------------------------------------------------------------------------
(* Deciders.                                                               *)

(* The intentions that the first k entries leave open.                     *)
OpenAt(k) == {p \in Of({"intention"}) : p < k /\ LogVerdict(p, k) = {}}

(* The entries a decider has played: the one it is appending a decision    *)
(* for is among them.                                                      *)
Played(s) == IF s.pc = "append" THEN s.pos + 1 ELSE s.pos

(* What a decider is about to append is the verdict of what it has played, *)
(* and of nothing less.                                                    *)
PendingFits(s) ==
    /\ s.pending.intention \in Of({"intention"})
    /\ s.pending.intention <= s.pos
    /\ s.pending.intention < s.pos => LogVerdict(s.pending.intention, s.pos) = {}
    /\ LogVerdict(s.pending.intention, s.pos + 1) = {s.pending.commit}
    /\ At(s.pos).type # "decider_policy"

(* A decider is in step with the log, and owes it only these decisions.    *)
DeciderOwes(s, owed) ==
    /\ s.pos <= s.upto /\ s.upto <= LogTail
    /\ s.pc \in {"play", "append"} => s.pos < s.upto
    /\ s.policy = PolicyFor(s.pos)
    /\ s.waiting = OpenAt(Played(s))
    /\ s.pc = "append" => PendingFits(s)
    /\ \A p \in Of({"intention"}) : p < Played(s) /\ LogVerdict(p, Played(s)) # {} =>
         DecisionsOn(p) # {} \/ p \in owed

DeciderFits(s) == DeciderOwes(s, IF s.pc = "append" THEN {s.pending.intention} ELSE {})

(* An intention's verdict when it is reached is its policy's.              *)
LEMMA VerdictOnArrival ==
    ASSUME RolesTypes, NEW p \in Taken
    PROVE  LogVerdict(p, p + 1) = Register(PolicyFor(p))
<1>1. p \in Nat /\ Of({"vote"}) \subseteq Nat
    BY LogFacts DEF Of
<1>2. BallotsOn(p, p + 1) = {}
    BY <1>1 DEF BallotsOn
<1> QED BY <1>2, VerdictIs DEF Register, Undecided

(* A verdict is a single value.                                            *)
LEMMA OneValue ==
    ASSUME NEW s, NEW p, VerdictAt(s, p) # {}
    PROVE  VerdictAt(s, p) = {TRUE} \/ VerdictAt(s, p) = {FALSE}
<1>1. VerdictAt(s, p) \in {Register(s.policy), ApplyVote(At(p)), {}}
    BY DEF VerdictAt
<1>2. Register(s.policy) \in {{TRUE}, {FALSE}, {}}
    BY Zenon DEF Register
<1>3. ApplyVote(At(p)) \in {{TRUE}, {FALSE}, {}}
    <2>1. CASE At(p).value = "true"
        BY <2>1, Zenon DEF ApplyVote
    <2>2. CASE At(p).value # "true"
        BY <2>2, Zenon DEF ApplyVote
    <2> QED BY <2>1, <2>2
<1> QED BY <1>1, <1>2, <1>3, Zenon

(* The entry at p settles nothing ...                                      *)
NothingNew(j, p) ==
    j < p + 1 /\ LogVerdict(j, p + 1) # {} => j < p /\ LogVerdict(j, p) # {}

LEMMA NoVerdict ==
    ASSUME RolesTypes, NEW s \in DeciderState, NEW p \in Taken,
           s.policy = PolicyFor(p), s.waiting = OpenAt(p), VerdictAt(s, p) = {}
    PROVE  \A j \in Of({"intention"}) : NothingNew(j, p)
<1> DEFINE e == At(p)
<1>1. p \in Nat /\ Of({"intention"}) \subseteq Nat
    BY LogFacts DEF Of
<1> SUFFICES ASSUME NEW j \in Of({"intention"}), j < p + 1, LogVerdict(j, p + 1) # {},
                    ~ (j < p /\ LogVerdict(j, p) # {})
             PROVE  FALSE
    BY DEF NothingNew
<1>2. CASE j = p
    <2>1. e.type = "intention"
        BY <1>2 DEF Of
    <2> QED BY <1>2, <2>1, VerdictOnArrival DEF VerdictAt
<1>3. CASE j # p
    <2>1. j \in Nat /\ j < p /\ LogVerdict(j, p) = {}
        BY <1>1, <1>3
    <2>2. e.type = "vote" /\ e.intention = j /\ ApplyVote(e) # {}
        BY <2>1, VerdictNext
    <2>3. j \in s.waiting
        BY <2>1 DEF OpenAt
    <2> QED BY <2>2, <2>3 DEF VerdictAt
<1> QED BY <1>2, <1>3

(* ... or one intention, that was open.                                    *)
LEMMA SomeVerdict ==
    ASSUME RolesTypes, NEW s \in DeciderState, NEW p \in Taken,
           s.policy = PolicyFor(p), s.waiting = OpenAt(p), VerdictAt(s, p) # {}
    PROVE  /\ Subject(p) \in Of({"intention"}) /\ Subject(p) <= p
           /\ Subject(p) < p => LogVerdict(Subject(p), p) = {}
           /\ LogVerdict(Subject(p), p + 1) = VerdictAt(s, p)
           /\ At(p).type # "decider_policy"
           /\ \A j \in Of({"intention"}) : j # Subject(p) => NothingNew(j, p)
<1> DEFINE e == At(p)
<1>1. p \in Nat /\ Of({"intention"}) \subseteq Nat
    BY LogFacts DEF Of
<1>2. CASE e.type = "intention"
    <2>1. VerdictAt(s, p) = LogVerdict(p, p + 1) /\ Subject(p) = p /\ p \in Of({"intention"})
        BY <1>2, VerdictOnArrival DEF VerdictAt, Subject, Of
    <2>2. \A j \in Of({"intention"}) : j # p => NothingNew(j, p)
        BY <1>1, <1>2, VerdictNext DEF NothingNew
    <2> QED BY <1>1, <1>2, <2>1, <2>2
<1>3. CASE e.type = "vote" /\ e.intention \in s.waiting
    <2>1. VerdictAt(s, p) = ApplyVote(e) /\ Subject(p) = e.intention
        BY <1>3 DEF VerdictAt, Subject
    <2>2. /\ Subject(p) \in Of({"intention"}) /\ Subject(p) < p
          /\ LogVerdict(Subject(p), p) = {} /\ Subject(p) \in Nat
        BY <1>1, <1>3, <2>1 DEF OpenAt
    <2>3. LogVerdict(Subject(p), p + 1) = VerdictAt(s, p)
        BY <1>3, <2>1, <2>2, VerdictNext
    <2>4. p \notin Of({"intention"})
        BY <1>3 DEF Of
    <2>5. \A j \in Of({"intention"}) : j # Subject(p) => NothingNew(j, p)
        BY <1>1, <2>1, <2>4, VerdictNext DEF NothingNew
    <2> QED BY <1>1, <1>3, <2>2, <2>3, <2>5
<1>4. e.type = "intention" \/ (e.type = "vote" /\ e.intention \in s.waiting)
    BY DEF VerdictAt
<1> QED BY <1>2, <1>3, <1>4

(* Policies and configurations in the log are clients'.                    *)
LEMMA PolicyEntries ==
    ASSUME NEW e \in Entries
    PROVE  /\ e.type = "decider_policy" => e.policy \in Policies
           /\ e.type = "voter_policy" => e.config \in Configs
<1>1. CASE e \in Clients
    BY <1>1 DEF Policies, Configs
<1>2. CASE e = StringIntention
    BY <1>2 DEF StringIntention
<1>3. CASE \E p \in Nat, value \in {"true", "false"}, v \in Voters, config \in Configs :
             e = Vote(p, value, v, config)
    BY <1>3 DEF Vote
<1>4. CASE \E p \in Nat, commit \in BOOLEAN : e = Decision(p, commit)
    <2>1. e.type \in {"commit", "abort"}
        BY <1>4 DEF Decision
    <2> QED BY <2>1
<1> QED BY <1>1, <1>2, <1>3, <1>4 DEF Entries

(* process_entry keeps a decider in step with the log.                     *)
LEMMA EntryPlayed ==
    ASSUME RolesTypes, NEW s \in DeciderState, s.pc \in {"poll", "play"}, s.pos < s.upto,
           DeciderFits(s)
    PROVE  ProcessEntry(s) \in DeciderState /\ DeciderFits(ProcessEntry(s))
<1> DEFINE p == s.pos
           V == VerdictAt(s, p)
           b == Subject(p)
           r == ProcessEntry(s)
<1>1. /\ p \in Nat /\ s.upto \in Nat /\ p < s.upto /\ s.upto <= LogTail /\ p \in Taken
      /\ LogTail \in Nat /\ Of({"intention"}) \subseteq Nat
    BY LogFacts DEF DeciderState, DeciderFits, DeciderOwes, Of
<1>2. /\ s.policy = PolicyFor(p) /\ s.waiting = OpenAt(p)
      /\ \A j \in Of({"intention"}) : j < p /\ LogVerdict(j, p) # {} => DecisionsOn(j) # {}
    BY DEF DeciderFits, DeciderOwes, Played
<1>4. \A j \in Of({"intention"}) : j < p /\ LogVerdict(j, p) # {} => LogVerdict(j, p + 1) # {}
    BY <1>1, VerdictLasts
<1>5. \A j : j \in OpenAt(p) <=> j \in Of({"intention"}) /\ j < p /\ LogVerdict(j, p) = {}
    BY DEF OpenAt
<1>6. \A j : j \in OpenAt(p + 1) <=> j \in Of({"intention"}) /\ j < p + 1 /\ LogVerdict(j, p + 1) = {}
    BY DEF OpenAt
<1>7. PolicyFor(p + 1) = IF At(p).type = "decider_policy" THEN At(p).policy ELSE PolicyFor(p)
    BY <1>1, PolicyNext
<1>8. At(p).type = "decider_policy" => At(p).policy \in Policies
    BY <1>1, LogFacts, PolicyEntries
<1>9. CASE V = {}
    <2> DEFINE t == Track(s, p, V)
    <2>0. \A j \in Of({"intention"}) : NothingNew(j, p)
        BY <1>1, <1>2, <1>9, NoVerdict
    <2>1. /\ t \in DeciderState /\ t.upto = s.upto
          /\ t.policy = IF At(p).type = "decider_policy" THEN At(p).policy ELSE s.policy
          /\ t.waiting = IF At(p).type = "intention" THEN s.waiting \cup {p} ELSE s.waiting
        <3>1. CASE At(p).type = "decider_policy"
            <4>1. t = [s EXCEPT !.policy = At(p).policy]
                BY <1>9, <3>1 DEF Track
            <4>2. PICK q \in Policies : q = At(p).policy
                BY <1>8, <3>1
            <4>3. t = [s EXCEPT !.policy = q]
                BY <4>1, <4>2
            <4>4. t \in DeciderState /\ t.upto = s.upto /\ t.policy = q /\ t.waiting = s.waiting
                BY <4>3 DEF DeciderState
            <4> QED BY <3>1, <4>2, <4>4
        <3>2. CASE At(p).type = "intention"
            <4>1. t = [s EXCEPT !.waiting = s.waiting \cup {p}]
                BY <1>9, <3>2 DEF Track
            <4> QED BY <1>1, <3>2, <4>1 DEF DeciderState
        <3>3. CASE At(p).type \notin {"decider_policy", "intention"}
            <4>1. t = s
                BY <1>9, <3>3 DEF Track
            <4> QED BY <3>3, <4>1
        <3> QED BY <3>1, <3>2, <3>3
    <2>2. r = Resume([t EXCEPT !.pos = p + 1])
        BY <1>9 DEF ProcessEntry
    <2> HIDE DEF t
    <2>3. /\ r \in DeciderState /\ r.pos = p + 1 /\ r.upto = s.upto
          /\ r.policy = t.policy /\ r.waiting = t.waiting
          /\ r.pc \in {"play", "poll"} /\ (r.pc = "play" => p + 1 < s.upto)
        <3>0. PICK n \in Nat : n = p + 1
            BY <1>1
        <3>1. PICK u \in DeciderState : u = [t EXCEPT !.pos = n]
            <4>1. [t EXCEPT !.pos = n] \in DeciderState
                BY <2>1 DEF DeciderState
            <4> QED BY <4>1
        <3>2. /\ u.pos = p + 1 /\ u.upto = s.upto /\ u.policy = t.policy /\ u.waiting = t.waiting
            BY <2>1, <3>0, <3>1 DEF DeciderState
        <3>3. r = Resume(u)
            BY <2>2, <3>0, <3>1
        <3> HIDE DEF r, p
        <3> QED BY <3>2, <3>3 DEF Resume, DeciderState
    <2> HIDE DEF r
    <2>4. r.waiting = OpenAt(p + 1)
        <3>1. \A j \in Of({"intention"}) : j < p + 1 <=> j < p \/ j = p
            BY <1>1
        <3>2. p \in Of({"intention"}) <=> At(p).type = "intention"
            BY <1>1 DEF Of
        <3>3. p \in Of({"intention"}) => LogVerdict(p, p + 1) = {}
            BY <1>1, <2>0 DEF NothingNew
        <3>4. \A j : j \in r.waiting <=> j \in OpenAt(p) \/ (j = p /\ At(p).type = "intention")
            BY <1>2, <2>1, <2>3
        <3>5. \A j : j \in r.waiting <=> j \in OpenAt(p + 1)
            BY <1>4, <1>5, <1>6, <2>0, <3>1, <3>2, <3>3, <3>4 DEF NothingNew
        <3> QED BY <3>5
    <2>5. r.policy = PolicyFor(p + 1)
        BY <1>2, <1>7, <2>1, <2>3
    <2>6. \A j \in Of({"intention"}) : j < p + 1 /\ LogVerdict(j, p + 1) # {} => DecisionsOn(j) # {}
        BY <1>2, <2>0 DEF NothingNew
    <2>7. Played(r) = p + 1 /\ r.pc # "append"
        BY <2>3 DEF Played
    <2>8. DeciderFits(r)
        <3> HIDE DEF p
        <3> QED BY <1>1, <2>3, <2>4, <2>5, <2>6, <2>7 DEF DeciderFits, DeciderOwes
    <2> QED BY <2>3, <2>8 DEF r
<1>10. CASE V # {}
    <2>0. /\ b \in Of({"intention"}) /\ b <= p
          /\ b < p => LogVerdict(b, p) = {}
          /\ LogVerdict(b, p + 1) = V
          /\ At(p).type # "decider_policy"
          /\ \A j \in Of({"intention"}) : j # b => NothingNew(j, p)
        BY <1>1, <1>2, <1>10, SomeVerdict
    <2>1. b \in Nat
        BY <1>1, <2>0
    <2>2. Track(s, p, V) = [s EXCEPT !.waiting = s.waiting \ {b}]
        <3>1. At(p).type # "decider_policy" /\ ~ (At(p).type = "intention" /\ V = {})
            BY <1>10, <2>0
        <3> QED BY <1>10, <3>1 DEF Track
    <2>3. r = [[s EXCEPT !.waiting = s.waiting \ {b}] EXCEPT !.pc = "append",
                 !.pending = [intention |-> b, commit |-> TRUE \in V]]
        BY <1>10, <2>2 DEF ProcessEntry
    <2>4. \E c \in BOOLEAN : V = {c} /\ c = (TRUE \in V)
        <3>1. CASE V = {TRUE}
            BY <3>1, Zenon
        <3>2. CASE V = {FALSE}
            <4>1. (TRUE \in V) = FALSE
                BY <3>2
            <4> QED BY <3>2, <4>1, Zenon
        <3> QED BY <1>10, <3>1, <3>2, OneValue
    <2>5. PICK c \in BOOLEAN : V = {c} /\ c = (TRUE \in V)
        BY <2>4
    <2>6. PICK w \in SUBSET Nat : w = s.waiting \ {b}
        BY DEF DeciderState
    <2>7. PICK x \in [intention : Int, commit : BOOLEAN] : x = [intention |-> b, commit |-> c]
        <3>1. b \in Int
            BY <2>1
        <3> HIDE DEF b
        <3>2. [intention |-> b, commit |-> c] \in [intention : Int, commit : BOOLEAN]
            BY <3>1
        <3> QED BY <3>2
    <2>8. r = [[s EXCEPT !.waiting = w] EXCEPT !.pc = "append", !.pending = x]
        <3>1. x = [intention |-> b, commit |-> TRUE \in V]
            BY <2>5, <2>7, Zenon
        <3> QED BY <2>3, <2>6, <3>1, Zenon
    <2> HIDE DEF b, V, r
    <2>9. /\ r \in DeciderState /\ r.pos = p /\ r.upto = s.upto /\ r.pc = "append"
          /\ r.policy = s.policy /\ r.waiting = w /\ r.pending = x
        BY <2>8 DEF DeciderState
    <2>10. r.pending.intention = b /\ r.pending.commit = c
        BY <2>7, <2>9
    <2>11. r.waiting = OpenAt(p + 1)
        <3>1. \A j \in Of({"intention"}) : j < p + 1 <=> j < p \/ j = p
            BY <1>1
        <3>2. \A j : j \in r.waiting <=> j \in OpenAt(p) /\ j # b
            BY <1>2, <2>6, <2>9
        <3>3. LogVerdict(b, p + 1) # {}
            BY <1>10, <2>0
        <3>4. ASSUME NEW j, j \in OpenAt(p + 1) PROVE j \in r.waiting
            <4>1. j \in Of({"intention"}) /\ j < p + 1 /\ LogVerdict(j, p + 1) = {} /\ j # b
                BY <1>6, <3>3, <3>4
            <4>2. j # p
                <5> SUFFICES ASSUME j = p PROVE FALSE
                    OBVIOUS
                <5>1. At(p).type = "intention"
                    BY <4>1 DEF Of
                <5>2. b = p
                    BY <5>1 DEF Subject, b
                <5> QED BY <4>1, <5>2
            <4> QED BY <1>4, <1>5, <3>1, <3>2, <4>1, <4>2
        <3>5. ASSUME NEW j, j \in r.waiting PROVE j \in OpenAt(p + 1)
            <4>1. j \in Of({"intention"}) /\ j < p /\ LogVerdict(j, p) = {} /\ j # b
                BY <1>5, <3>2, <3>5
            <4>2. j < p + 1
                BY <3>1, <4>1
            <4> QED BY <1>6, <2>0, <4>1, <4>2 DEF NothingNew
        <3> QED BY <3>4, <3>5
    <2>12. PendingFits(r)
        <3> HIDE DEF p
        <3> QED BY <2>0, <2>5, <2>9, <2>10 DEF PendingFits
    <2>13. \A j \in Of({"intention"}) : j < p + 1 /\ LogVerdict(j, p + 1) # {} =>
             DecisionsOn(j) # {} \/ j = b
        BY <1>2, <2>0 DEF NothingNew
    <2>14. Played(r) = p + 1
        BY <2>9 DEF Played
    <2>15. DeciderFits(r)
        <3> HIDE DEF p
        <3> QED BY <1>1, <1>2, <2>9, <2>10, <2>11, <2>12, <2>13, <2>14 DEF DeciderFits, DeciderOwes
    <2> QED BY <2>9, <2>15 DEF r
<1> QED BY <1>9, <1>10

(* A started decider is in step.                                           *)
LEMMA FreshDeciderFits ==
    ASSUME RolesTypes, NEW pc \in {"poll", "down"}
    PROVE  /\ [FreshDecider EXCEPT !.pc = pc] \in DeciderState
           /\ DeciderFits([FreshDecider EXCEPT !.pc = pc])
<1> DEFINE s == [FreshDecider EXCEPT !.pc = pc]
<1>1. /\ s \in DeciderState /\ s.pc = pc /\ s.pos = 0 /\ s.upto = 0
      /\ s.policy = "on" /\ s.waiting = {}
    <2>1. FreshDecider.pending \in [intention : Int, commit : BOOLEAN] /\ "on" \in Policies
        BY DEF FreshDecider, None, Policies
    <2> QED BY <2>1 DEF FreshDecider, DeciderState
<1>2. /\ LogTail \in Nat /\ \A types : Of(types) \subseteq Nat
    BY LogFacts DEF Of
<1>3. PoliciesBefore(0) = {}
    BY <1>2 DEF PoliciesBefore
<1>4. PolicyFor(0) = "on" /\ OpenAt(0) = {}
    BY <1>2, <1>3, PolicyIs DEF OpenAt
<1>5. Played(s) = 0
    BY <1>1 DEF Played
<1> HIDE DEF s
<1>6. DeciderFits(s)
    BY <1>1, <1>2, <1>4, <1>5 DEF DeciderFits, DeciderOwes
<1> QED BY <1>1, <1>6 DEF s

(* The state of a decider that has appended its decision.                  *)
Settled(s) == Resume([s EXCEPT !.pos = @ + 1, !.pending = FreshDecider.pending])

LEMMA SettledOwes ==
    ASSUME RolesTypes, NEW s \in DeciderState, s.pc = "append", DeciderFits(s)
    PROVE  /\ Settled(s) \in DeciderState /\ Settled(s).pc # "append"
           /\ DeciderOwes(Settled(s), {s.pending.intention})
<1> DEFINE p == s.pos
           r == Settled(s)
<1>1. /\ p \in Nat /\ s.upto \in Nat /\ p < s.upto /\ s.upto <= LogTail /\ LogTail \in Nat
      /\ p \in Taken
    BY LogFacts DEF DeciderState, DeciderFits, DeciderOwes
<1>2. PICK n \in Nat : n = p + 1
    BY <1>1
<1>3. PICK x \in [intention : Int, commit : BOOLEAN] : x = FreshDecider.pending
    <2>1. FreshDecider.pending \in [intention : Int, commit : BOOLEAN]
        BY DEF FreshDecider, None
    <2> QED BY <2>1
<1>4. PICK u \in DeciderState : u = [s EXCEPT !.pos = n, !.pending = x]
    <2>1. [s EXCEPT !.pos = n, !.pending = x] \in DeciderState
        BY DEF DeciderState
    <2> QED BY <2>1
<1>5. u.pos = n /\ u.upto = s.upto /\ u.policy = s.policy /\ u.waiting = s.waiting
    BY <1>4 DEF DeciderState
<1>6. r = Resume(u)
    BY <1>2, <1>3, <1>4 DEF Settled
<1> HIDE DEF r
<1>7. /\ r \in DeciderState /\ r.pos = n /\ r.upto = s.upto /\ r.policy = s.policy
      /\ r.waiting = s.waiting /\ r.pc \in {"play", "poll"} /\ (r.pc = "play" => n < s.upto)
    BY <1>5, <1>6 DEF Resume, DeciderState
<1>8. Played(r) = n /\ Played(s) = n
    BY <1>2, <1>7 DEF Played
<1>9. PolicyFor(n) = s.policy
    BY <1>1, <1>2, PolicyNext DEF DeciderFits, DeciderOwes, PendingFits
<1>10. DeciderOwes(r, {s.pending.intention})
    BY <1>1, <1>2, <1>7, <1>8, <1>9 DEF DeciderFits, DeciderOwes
<1> QED BY <1>7, <1>10 DEF r

LEMMA AtStays ==
    ASSUME Extends, NEW types
    PROVE  \A p \in Of(types) : p \in Nat /\ p < LogTail /\ At(p)' = At(p)
BY DEF Extends, Of, Taken

LEMMA DecisionsStay ==
    ASSUME Extends, NEW b
    PROVE  DecisionsOn(b) \subseteq DecisionsOn(b)'
<1>1. \A q : q \in DecisionsOn(b) <=> q \in Of(GateTypes) /\ At(q).intention = b
    BY DEF DecisionsOn
<1>2. \A q : q \in DecisionsOn(b)' <=> q \in Of(GateTypes)' /\ At(q)'.intention = b
    BY DEF DecisionsOn, At
<1> QED BY <1>1, <1>2, AtStays, OfStays

LEMMA OpenStays ==
    ASSUME RolesTypes, Extends, NEW k \in Nat, k <= LogTail
    PROVE  OpenAt(k)' = OpenAt(k)
<1>1. \A p \in Nat : p < k => LogVerdict(p, k)' = LogVerdict(p, k)
    BY VerdictStays DEF Extends
<1>2. \A p \in Nat : p < k => (p \in Of({"intention"})' <=> p \in Of({"intention"}))
    BY OfStays DEF Extends
<1>3. Of({"intention"}) \subseteq Nat /\ Of({"intention"})' \subseteq Nat
    BY OfStays
<1>4. \A p : p \in OpenAt(k)' <=> p \in Of({"intention"})' /\ p < k /\ LogVerdict(p, k)' = {}
    BY DEF OpenAt
<1>5. \A p : p \in OpenAt(k) <=> p \in Of({"intention"}) /\ p < k /\ LogVerdict(p, k) = {}
    BY DEF OpenAt
<1> QED BY <1>1, <1>2, <1>3, <1>4, <1>5

(* A decider in step stays so while the log grows.                         *)
LEMMA DeciderStays ==
    ASSUME RolesTypes, Extends, NEW s \in DeciderState, NEW owed, DeciderOwes(s, owed)
    PROVE  DeciderOwes(s, owed)'
<1>1. /\ s.pos \in Nat /\ s.upto \in Nat /\ LogTail \in Nat /\ LogTail' \in Nat
      /\ s.pos <= s.upto /\ s.upto <= LogTail /\ LogTail <= LogTail'
    BY DEF DeciderState, DeciderOwes, Extends
<1>2. PICK k \in Nat : k = Played(s) /\ k <= LogTail
    BY <1>1 DEF Played, DeciderOwes
<1>3. PolicyFor(s.pos)' = PolicyFor(s.pos)
    BY <1>1, PolicyStays
<1>4. OpenAt(k)' = OpenAt(k)
    BY <1>2, OpenStays
<1>5. s.pc = "append" => PendingFits(s)'
    <2> HAVE s.pc = "append"
    <2>1. PendingFits(s) /\ s.pos < LogTail
        BY <1>1 DEF DeciderOwes
    <2>2. PICK b \in Nat : b = s.pending.intention /\ b \in Of({"intention"}) /\ b < LogTail
        BY <2>1, AtStays DEF PendingFits
    <2>3. b \in Of({"intention"})'
        BY <2>2, OfStays
    <2>4. LogVerdict(b, s.pos)' = LogVerdict(b, s.pos)
        BY <1>1, <2>1, <2>2, VerdictStays
    <2>5. LogVerdict(b, s.pos + 1)' = LogVerdict(b, s.pos + 1)
        <3>1. s.pos + 1 \in Nat /\ s.pos + 1 <= LogTail /\ b <= LogTail
            BY <1>1, <2>1, <2>2
        <3> QED BY <3>1, VerdictStays
    <2>6. At(s.pos)' = At(s.pos)
        BY <1>1, <2>1 DEF Extends, Taken
    <2> QED BY <2>1, <2>2, <2>3, <2>4, <2>5, <2>6 DEF PendingFits
<1>6. ASSUME NEW p \in Of({"intention"})', p < k, LogVerdict(p, k)' # {}
      PROVE  DecisionsOn(p)' # {} \/ p \in owed
    <2>1. p \in Nat /\ p < LogTail /\ p <= LogTail
        BY <1>1, <1>2, <1>6, OfStays
    <2>2. p \in Of({"intention"}) /\ LogVerdict(p, k) # {}
        BY <1>2, <1>6, <2>1, OfStays, VerdictStays
    <2>3. DecisionsOn(p) # {} \/ p \in owed
        BY <1>2, <1>6, <2>2 DEF DeciderOwes
    <2> QED BY <2>3, DecisionsStay
<1> QED BY <1>1, <1>2, <1>3, <1>4, <1>5, <1>6 DEF DeciderOwes, Played
-----------------------------------------------------------------------------
(* Voters.                                                                 *)

VotedBelow(v, n) ==
    \A p \in Of({"intention"}) : p < n /\ At(p) = StringIntention =>
      \E q \in Of({"vote"}) : At(q).intention = p /\ At(q).by = v

(* A voter has voted below its cursor and holds the configuration in force *)
(* there; what it is about to vote on is the next entry it looks for.      *)
VoterFits(v, s) ==
    /\ s.pos <= LogTail
    /\ s.config = ConfigFor(s.pos)
    /\ VotedBelow(v, s.pos)
    /\ s.pc = "append" =>
         /\ s.at \in Of({"intention"}) /\ s.pos <= s.at /\ s.upto = s.at + 1
         /\ \A q \in Of(VoterTypes) : ~ (s.pos <= q /\ q < s.at)

LEMMA VotedStays ==
    ASSUME Extends, NEW v, NEW n \in Nat, n <= LogTail, VotedBelow(v, n)
    PROVE  VotedBelow(v, n)'
<1> SUFFICES ASSUME NEW p \in Of({"intention"})', p < n, At(p)' = StringIntention
             PROVE  \E q \in Of({"vote"})' : At(q)'.intention = p /\ At(q)'.by = v
    BY DEF VotedBelow, StringIntention
<1>1. p \in Nat /\ p < LogTail
    BY OfStays DEF Extends
<1>2. p \in Of({"intention"}) /\ At(p) = StringIntention
    BY <1>1, OfStays, AtStays
<1>3. PICK q \in Of({"vote"}) : At(q).intention = p /\ At(q).by = v
    BY <1>2 DEF VotedBelow
<1>4. q \in Of({"vote"})' /\ At(q)' = At(q)
    BY OfStays, AtStays
<1> QED BY <1>3, <1>4

LEMMA VoterStays ==
    ASSUME RolesTypes, Extends, NEW v, NEW s \in VoterState, VoterFits(v, s)
    PROVE  VoterFits(v, s)'
<1>1. s.pos \in Nat /\ s.pos <= LogTail /\ LogTail \in Nat /\ LogTail' \in Nat /\ LogTail <= LogTail'
    BY DEF VoterState, VoterFits, Extends
<1>2. ConfigFor(s.pos)' = ConfigFor(s.pos) /\ VotedBelow(v, s.pos)'
    BY <1>1, ConfigStays, VotedStays DEF VoterFits
<1>3. s.pc = "append" =>
         /\ s.at \in Of({"intention"})' /\ s.pos <= s.at /\ s.upto = s.at + 1
         /\ \A q \in Of(VoterTypes)' : ~ (s.pos <= q /\ q < s.at)
    <2> HAVE s.pc = "append"
    <2>1. /\ s.at \in Of({"intention"}) /\ s.pos <= s.at /\ s.upto = s.at + 1
          /\ \A q \in Of(VoterTypes) : ~ (s.pos <= q /\ q < s.at)
        BY DEF VoterFits
    <2>2. s.at \in Nat /\ s.at < LogTail /\ s.at \in Of({"intention"})'
        BY <2>1, AtStays, OfStays
    <2>3. \A q \in Of(VoterTypes)' : q \in Nat /\ (q < LogTail => q \in Of(VoterTypes))
        BY OfStays
    <2>4. \A q \in Of(VoterTypes)' : q < s.at => q < LogTail
        BY <1>1, <2>2, <2>3
    <2> QED BY <2>1, <2>2, <2>3, <2>4
<1> QED BY <1>1, <1>2, <1>3 DEF VoterFits

LEMMA FreshVoterFits ==
    ASSUME RolesTypes, NEW v, NEW pc \in {"poll", "down"}
    PROVE  /\ [FreshVoter EXCEPT !.pc = pc] \in VoterState
           /\ VoterFits(v, [FreshVoter EXCEPT !.pc = pc])
<1> DEFINE s == [FreshVoter EXCEPT !.pc = pc]
<1>1. s \in VoterState /\ s.pc = pc /\ s.pos = 0 /\ s.config = "none"
    BY DEF FreshVoter, VoterState, None, Configs
<1>2. LogTail \in Nat /\ \A types : Of(types) \subseteq Nat
    BY LogFacts DEF Of
<1>3. ConfigsBefore(0) = {} /\ VotedBelow(v, 0)
    BY <1>2 DEF ConfigsBefore, VotedBelow
<1>4. ConfigFor(0) = "none"
    BY <1>3, ConfigIs
<1> HIDE DEF s
<1>5. VoterFits(v, s)
    BY <1>1, <1>2, <1>3, <1>4 DEF VoterFits
<1> QED BY <1>1, <1>5 DEF s

(* A voter that moves past entries it has nothing to vote on.              *)
LEMMA VoterMoves ==
    ASSUME RolesTypes, NEW v, NEW s \in VoterState, VoterFits(v, s),
           NEW n \in Nat, s.pos <= n, n <= LogTail, NEW t \in VoterState,
           t.pos = n, t.pc = "poll", t.config = ConfigFor(n),
           \A p \in Of({"intention"}) : s.pos <= p /\ p < n => At(p) # StringIntention
    PROVE  VoterFits(v, t)
<1>1. s.pos \in Nat /\ Of({"intention"}) \subseteq Nat
    BY LogFacts DEF VoterState, Of
<1>2. \A p \in Of({"intention"}) : p < n /\ At(p) = StringIntention => p < s.pos
    BY <1>1
<1>3. VotedBelow(v, n)
    BY <1>2 DEF VotedBelow, VoterFits
<1> QED BY <1>3 DEF VoterFits

LEMMA VoterTypesSplit ==
    /\ Of({"intention"}) \subseteq Of(VoterTypes)
    /\ Of({"voter_policy"}) \subseteq Of(VoterTypes)
    /\ \A p \in Of(VoterTypes) : p \in Of({"voter_policy"}) \/ p \in Of({"intention"})
    /\ \A p \in Of({"voter_policy"}) : p \notin Of({"intention"})
BY DEF Of, VoterTypes

(* PollAndVote.                                                            *)
LEMMA VoterPolls ==
    ASSUME RolesTypes, NEW v \in Voters,
           VoterFits(v, voter[v]), NEW isSafe \in {"true", "false"}, PollAndVote(v, isSafe)
    PROVE  voter'[v] \in VoterState /\ VoterFits(v, voter'[v])
<1> DEFINE self == voter[v]
           found == Matching(self.pos, VoterTypes, 1)
           end == NextStart(self.pos, VoterTypes, 1)
           p == Least(found)
           after ==
             CASE found = {} -> [self EXCEPT !.pos = end]
               [] found # {} /\ At(p).type = "voter_policy" ->
                    [self EXCEPT !.pos = end, !.config = ProcessVoterPolicy(@, At(p).config)]
               [] found # {} /\ At(p) = GroupIntention -> [self EXCEPT !.pos = p + 1]
               [] OTHER ->
                    [self EXCEPT !.pc = "append", !.at = p, !.upto = end, !.value = isSafe]
<1>1. PICK s \in VoterState : s = self
    BY DEF RolesTypes
<1>2. /\ s.pc = "poll" /\ s.pos < LogTail /\ voter'[v] = after /\ s.pos \in Nat /\ LogTail \in Nat
    BY <1>1, LogFacts DEF PollAndVote, RolesTypes, VoterState
<1>3. /\ end \in Nat /\ end <= LogTail /\ s.pos <= end
      /\ found = {q \in Of(VoterTypes) : s.pos <= q /\ q < end}
    <2>1. 1 \in Nat \ {0} /\ s.pos <= LogTail
        BY <1>2
    <2> QED BY <1>1, <1>2, <2>1, PageFacts
<1>4. VoterFits(v, s)
    BY <1>1
<1>5. Of(VoterTypes) \subseteq Nat /\ Of({"intention"}) \subseteq Nat /\ Of({"voter_policy"}) \subseteq Nat
    BY LogFacts DEF Of
<1> HIDE DEF found, end, p
<1>6. CASE found = {}
    <2>1. PICK n \in Nat : n = end
        BY <1>3
    <2>2. voter'[v] = [s EXCEPT !.pos = n]
        BY <1>1, <1>2, <1>6, <2>1
    <2>3. PICK t \in VoterState : t = [s EXCEPT !.pos = n]
        <3>1. [s EXCEPT !.pos = n] \in VoterState
            BY DEF VoterState
        <3> QED BY <3>1
    <2>4. t.pos = n /\ t.pc = "poll" /\ t.config = s.config
        BY <1>2, <2>3 DEF VoterState
    <2>5. \A q \in Of(VoterTypes) : ~ (s.pos <= q /\ q < n)
        BY <1>3, <1>6, <2>1
    <2>6. ConfigFor(n) = s.config
        <3>1. \A q \in Of({"voter_policy"}) : ~ (s.pos <= q /\ q < n)
            BY <2>5, VoterTypesSplit
        <3>2. ConfigFor(n) = ConfigFor(s.pos)
            BY <1>2, <1>3, <1>5, <2>1, <3>1, ConfigSame
        <3> QED BY <1>4, <3>2 DEF VoterFits
    <2>7. \A q \in Of({"intention"}) : s.pos <= q /\ q < n => At(q) # StringIntention
        BY <2>5, VoterTypesSplit
    <2>8. VoterFits(v, t)
        BY <1>3, <1>4, <2>1, <2>4, <2>6, <2>7, VoterMoves
    <2> QED BY <2>2, <2>3, <2>8
<1>7. CASE found # {}
    <2>1. /\ p \in Of(VoterTypes) /\ s.pos <= p /\ p \in Taken /\ end = p + 1
          /\ \A q \in Of(VoterTypes) : ~ (s.pos <= q /\ q < p)
        BY <1>1, <1>2, <1>7, PageOfOne DEF found, end, p
    <2>2. p \in Nat /\ p < LogTail /\ end <= LogTail
        BY <1>3, <1>5, <2>1, LogFacts
    <2>3. ConfigFor(p) = s.config
        <3>1. \A q \in Of({"voter_policy"}) : ~ (s.pos <= q /\ q < p)
            BY <2>1, VoterTypesSplit
        <3>2. ConfigFor(p) = ConfigFor(s.pos)
            BY <1>2, <1>5, <2>1, <2>2, <3>1, ConfigSame
        <3> QED BY <1>4, <3>2 DEF VoterFits
    <2>4. \A q \in Of({"intention"}) : s.pos <= q /\ q < end => q = p
        <3>1. \A q \in Of({"intention"}) : ~ (s.pos <= q /\ q < p)
            BY <2>1, VoterTypesSplit
        <3> QED BY <1>5, <2>1, <2>2, <3>1
    <2>5. PICK n \in Nat : n = end /\ n = p + 1 /\ s.pos <= n /\ n <= LogTail
        BY <1>3, <2>1, <2>2
    <2>6. CASE At(p).type = "voter_policy"
        <3>1. p \in Of({"voter_policy"}) /\ p \notin Of({"intention"})
            BY <2>1, <2>6, VoterTypesSplit DEF Of
        <3>2. ConfigFor(n) = ProcessVoterPolicy(s.config, At(p).config)
            BY <2>3, <2>5, <3>1, ConfigNext
        <3>3. ProcessVoterPolicy(s.config, At(p).config) \in Configs
            BY <2>1, <2>6, LogFacts, PolicyEntries DEF ProcessVoterPolicy, VoterState
        <3>4. PICK c \in Configs : c = ProcessVoterPolicy(s.config, At(p).config)
            BY <3>3
        <3>5. At(p) # GroupIntention
            BY <2>6 DEF GroupIntention
        <3>6. voter'[v] = [s EXCEPT !.pos = n, !.config = c]
            BY <1>1, <1>2, <1>7, <2>5, <2>6, <3>4, <3>5
        <3>7. PICK t \in VoterState : t = [s EXCEPT !.pos = n, !.config = c]
            <4>1. [s EXCEPT !.pos = n, !.config = c] \in VoterState
                BY DEF VoterState
            <4> QED BY <4>1
        <3>8. t.pos = n /\ t.pc = "poll" /\ t.config = c
            BY <1>2, <3>7 DEF VoterState
        <3>9. \A q \in Of({"intention"}) : s.pos <= q /\ q < n => At(q) # StringIntention
            BY <2>4, <2>5, <3>1
        <3>10. VoterFits(v, t)
            BY <1>4, <2>5, <3>2, <3>4, <3>8, <3>9, VoterMoves
        <3> QED BY <3>6, <3>7, <3>10
    <2>7. CASE At(p) = GroupIntention
        <3>1. At(p).type = "intention" /\ At(p) # StringIntention
            <4>1. GroupIntention.kind # StringIntention.kind
                BY DEF GroupIntention, StringIntention
            <4> QED BY <2>7, <4>1 DEF GroupIntention
        <3>2. p \notin Of({"voter_policy"})
            BY <3>1 DEF Of
        <3>3. ConfigFor(n) = s.config
            <4>1. \A q \in Of({"voter_policy"}) : ~ (p <= q /\ q < n)
                BY <1>5, <2>2, <2>5, <3>2
            <4> QED BY <1>5, <2>2, <2>3, <2>5, <4>1, ConfigSame
        <3>4. voter'[v] = [s EXCEPT !.pos = n]
            BY <1>1, <1>2, <1>7, <2>5, <2>7, <3>1
        <3>5. PICK t \in VoterState : t = [s EXCEPT !.pos = n]
            <4>1. [s EXCEPT !.pos = n] \in VoterState
                BY DEF VoterState
            <4> QED BY <4>1
        <3>6. t.pos = n /\ t.pc = "poll" /\ t.config = s.config
            BY <1>2, <3>5 DEF VoterState
        <3>7. \A q \in Of({"intention"}) : s.pos <= q /\ q < n => At(q) # StringIntention
            BY <2>4, <2>5, <3>1
        <3>8. VoterFits(v, t)
            BY <1>4, <2>5, <3>3, <3>6, <3>7, VoterMoves
        <3> QED BY <3>4, <3>5, <3>8
    <2>8. CASE At(p).type # "voter_policy" /\ At(p) # GroupIntention
        <3>1. p \in Of({"intention"})
            BY <2>1, <2>8, VoterTypesSplit DEF Of
        <3>2. PICK m \in Nat : m = p
            BY <2>2
        <3>3. voter'[v] = [s EXCEPT !.pc = "append", !.at = m, !.upto = n, !.value = isSafe]
            BY <1>1, <1>2, <1>7, <2>5, <2>8, <3>2
        <3>4. PICK t \in VoterState :
                t = [s EXCEPT !.pc = "append", !.at = m, !.upto = n, !.value = isSafe]
            <4>0. m \in Int /\ n \in Nat
                OBVIOUS
            <4>1. [s EXCEPT !.pc = "append", !.at = m, !.upto = n, !.value = isSafe] \in VoterState
                BY <4>0 DEF VoterState
            <4> QED BY <4>1
        <3>5. t.pos = s.pos /\ t.config = s.config /\ t.at = m /\ t.upto = n
            BY <3>4 DEF VoterState
        <3>6. VoterFits(v, t)
            BY <1>4, <2>1, <2>5, <3>1, <3>2, <3>5 DEF VoterFits
        <3> QED BY <3>3, <3>4, <3>6
    <2> QED BY <2>6, <2>7, <2>8
<1> QED BY <1>6, <1>7
-----------------------------------------------------------------------------
(* Gates.                                                                  *)

(* A waiting gate has read no decision on its intention; an answer is one. *)
GateFits(s) ==
    /\ s.pc = "wait" =>
         /\ s.id \in Nat /\ s.id < s.next /\ s.next <= LogTail
         /\ \A q \in DecisionsOn(s.id) : s.next <= q
    /\ s.pc \in {"approved", "rejected"} =>
         \E q \in DecisionsOn(s.id) : (At(q).type = "commit") <=> (s.pc = "approved")

LEMMA GateStays ==
    ASSUME RolesTypes, Extends, NEW s \in GateState, GateFits(s)
    PROVE  GateFits(s)'
<1>1. \A q : q \in DecisionsOn(s.id) <=> q \in Of(GateTypes) /\ At(q).intention = s.id
    BY DEF DecisionsOn
<1>2. \A q : q \in DecisionsOn(s.id)' <=> q \in Of(GateTypes)' /\ At(q)'.intention = s.id
    BY DEF DecisionsOn, At
<1>3. \A q \in DecisionsOn(s.id)' : q \in Nat /\ (q < LogTail => q \in DecisionsOn(s.id))
    BY <1>1, <1>2, OfStays, AtStays
<1>4. s.pc = "wait" =>
         /\ s.id \in Nat /\ s.id < s.next /\ s.next <= LogTail'
         /\ \A q \in DecisionsOn(s.id)' : s.next <= q
    BY <1>3 DEF GateFits, GateState, Extends
<1>5. s.pc \in {"approved", "rejected"} =>
         \E q \in DecisionsOn(s.id)' : (At(q)'.type = "commit") <=> (s.pc = "approved")
    BY <1>1, AtStays, DecisionsStay DEF GateFits
<1> QED BY <1>4, <1>5 DEF GateFits

(* GatePoll.                                                               *)
LEMMA GatePolls ==
    ASSUME RolesAssumption, RolesTypes, NEW g \in Gates, GateFits(gate[g]), GatePoll(g)
    PROVE  gate'[g] \in GateState /\ GateFits(gate'[g])
<1>1. PICK s \in GateState : s = gate[g]
    BY DEF RolesTypes
<1> DEFINE page == Matching(s.next, GateTypes, GatePage)
           end == NextStart(s.next, GateTypes, GatePage)
           mine == {p \in page : At(p).intention = s.id}
<1>2. /\ s.pc = "wait" /\ s.next < LogTail /\ s.next \in Nat /\ s.id \in Nat /\ LogTail \in Nat
      /\ s.id < s.next /\ \A q \in DecisionsOn(s.id) : s.next <= q
    BY <1>1, LogFacts DEF GatePoll, GateFits, GateState
<1>3. gate'[g] = IF mine # {}
                 THEN [s EXCEPT !.pc = IF At(Least(mine)).type = "commit"
                                       THEN "approved" ELSE "rejected"]
                 ELSE [s EXCEPT !.next = end]
    BY <1>1 DEF GatePoll, RolesTypes, GateCursor
<1>4. /\ end \in Nat /\ end <= LogTail /\ s.next <= end
      /\ page = {p \in Of(GateTypes) : s.next <= p /\ p < end}
    BY <1>2, PageFacts DEF RolesAssumption
<1>5. Of(GateTypes) \subseteq Nat
    BY LogFacts DEF Of
<1> HIDE DEF end, page
<1>6. \A p : p \in mine <=> p \in DecisionsOn(s.id) /\ s.next <= p /\ p < end
    BY <1>4 DEF DecisionsOn
<1> HIDE DEF mine
<1>7. CASE mine # {}
    <2>1. mine \in SUBSET Nat
        BY <1>5, <1>6 DEF DecisionsOn
    <2>2. PICK q \in DecisionsOn(s.id) : q = Least(mine)
        BY <1>6, <1>7, <2>1, LeastOf
    <2>3. PICK a \in {"approved", "rejected"} :
            gate'[g] = [s EXCEPT !.pc = a] /\ ((At(q).type = "commit") <=> (a = "approved"))
        <3>1. CASE At(q).type = "commit"
            BY <1>3, <1>7, <2>2, <3>1
        <3>2. CASE At(q).type # "commit"
            BY <1>3, <1>7, <2>2, <3>2
        <3> QED BY <3>1, <3>2
    <2>4. PICK t \in GateState : t = [s EXCEPT !.pc = a]
        <3>1. [s EXCEPT !.pc = a] \in GateState
            BY DEF GateState
        <3> QED BY <3>1
    <2>5. t.pc = a /\ t.id = s.id
        BY <2>4 DEF GateState
    <2>6. GateFits(t)
        BY <2>3, <2>5 DEF GateFits
    <2> QED BY <2>3, <2>4, <2>6
<1>8. CASE mine = {}
    <2>1. PICK n \in Nat : n = end
        BY <1>4
    <2>2. PICK t \in GateState : t = [s EXCEPT !.next = n]
        <3>1. [s EXCEPT !.next = n] \in GateState
            BY DEF GateState
        <3> QED BY <3>1
    <2>3. t.pc = "wait" /\ t.id = s.id /\ t.next = n
        BY <1>2, <2>2 DEF GateState
    <2>4. \A q \in DecisionsOn(s.id) : q \in Nat /\ n <= q
        BY <1>2, <1>4, <1>5, <1>6, <1>8, <2>1 DEF DecisionsOn
    <2>5. GateFits(t)
        BY <1>2, <1>4, <2>1, <2>3, <2>4 DEF GateFits
    <2> QED BY <1>3, <1>8, <2>1, <2>2, <2>5
<1> QED BY <1>7, <1>8

-----------------------------------------------------------------------------
(* The log.                                                                *)
(* A decision appended at n is about what precedes it and is what the log  *)
(* implies; a vote, under the configuration the log implies.               *)
DecisionSound(e, n) ==
    /\ e.intention \in Nat /\ e.intention < n
    /\ LogVerdict(e.intention, n) = {e.type = "commit"}

VoteSound(e, n) ==
    /\ e.intention \in Nat /\ e.intention < n
    /\ e.under = ConfigFor(e.intention)

LogFits ==
    /\ \A q \in Of(GateTypes) : DecisionSound(At(q), q)
    /\ \A q \in Of({"vote"}) : At(q).by \in Voters => VoteSound(At(q), q)

LEMMA DecisionStaysSound ==
    ASSUME RolesTypes, Extends, NEW e, NEW n \in Nat, n <= LogTail, DecisionSound(e, n)
    PROVE  DecisionSound(e, n)'
<1>1. PICK i \in Nat : i = e.intention /\ i < n
    BY DEF DecisionSound
<1>2. LogVerdict(i, n)' = LogVerdict(i, n)
    BY <1>1, VerdictStays DEF Extends
<1> QED BY <1>1, <1>2 DEF DecisionSound

LEMMA VoteStaysSound ==
    ASSUME RolesTypes, Extends, NEW e, NEW n \in Nat, n <= LogTail, VoteSound(e, n)
    PROVE  VoteSound(e, n)'
<1>1. PICK i \in Nat : i = e.intention /\ i < n
    BY DEF VoteSound
<1>2. ConfigFor(i)' = ConfigFor(i)
    BY <1>1, ConfigStays DEF Extends
<1> QED BY <1>1, <1>2 DEF VoteSound

(* What the log holds stays sound.                                         *)
LEMMA LogStays ==
    ASSUME RolesTypes, Extends, LogFits
    PROVE  /\ \A q \in Of(GateTypes)' : q < LogTail => DecisionSound(At(q), q)'
           /\ \A q \in Of({"vote"})' : q < LogTail /\ At(q)'.by \in Voters => VoteSound(At(q), q)'
<1>1. ASSUME NEW q \in Of(GateTypes)', q < LogTail
      PROVE  DecisionSound(At(q), q)'
    <2>1. q \in Of(GateTypes) /\ q \in Nat /\ LogTail \in Nat
        BY <1>1, OfStays DEF Extends
    <2>2. PICK e : e = At(q) /\ e = At(q)'
        BY <2>1, AtStays
    <2>3. DecisionSound(e, q)
        BY <2>1, <2>2 DEF LogFits
    <2>4. DecisionSound(e, q)'
        BY <1>1, <2>1, <2>3, DecisionStaysSound
    <2> QED BY <2>2, <2>4 DEF DecisionSound, LogVerdict, PolicyFor, Of, At
<1>2. ASSUME NEW q \in Of({"vote"})', q < LogTail, At(q)'.by \in Voters
      PROVE  VoteSound(At(q), q)'
    <2>1. q \in Of({"vote"}) /\ q \in Nat /\ LogTail \in Nat
        BY <1>2, OfStays DEF Extends
    <2>2. PICK e : e = At(q) /\ e = At(q)'
        BY <2>1, AtStays
    <2>3. VoteSound(e, q)
        BY <1>2, <2>1, <2>2 DEF LogFits
    <2>4. VoteSound(e, q)'
        BY <1>2, <2>1, <2>3, VoteStaysSound
    <2> QED BY <2>2, <2>4 DEF VoteSound
<1> QED BY <1>1, <1>2

LEMMA LogGrows ==
    ASSUME RolesTypes, LogFits, NEW e \in Entries, log' = Append(log, e),
           e.type \in GateTypes => DecisionSound(e, LogTail),
           e.type = "vote" /\ e.by \in Voters => VoteSound(e, LogTail)
    PROVE  LogFits'
<1>1. Extends /\ LogTail' = LogTail + 1 /\ log'[LogTail + 1] = e
    BY LogAppended
<1>2. PICK l \in Nat : l = LogTail
    BY LogFacts
<1>3. At(l)' = e
    BY <1>1, <1>2 DEF At
<1>4. \A types : \A q \in Of(types)' : q \in Nat /\ (q = l \/ q < LogTail)
    BY <1>1, <1>2 DEF Of, Taken
<1>5. \A types : l \in Of(types)' => e.type \in types
    BY <1>3 DEF Of
<1>6. ASSUME NEW q \in Of(GateTypes)', q = l PROVE DecisionSound(At(q), q)'
    <2>1. DecisionSound(e, l)
        BY <1>2, <1>5, <1>6
    <2>2. DecisionSound(e, l)'
        BY <1>1, <1>2, <2>1, DecisionStaysSound
    <2> QED BY <1>3, <1>6, <2>2 DEF DecisionSound
<1>7. ASSUME NEW q \in Of({"vote"})', q = l, At(q)'.by \in Voters PROVE VoteSound(At(q), q)'
    <2>1. VoteSound(e, l)
        BY <1>2, <1>3, <1>5, <1>7
    <2>2. VoteSound(e, l)'
        BY <1>1, <1>2, <2>1, VoteStaysSound
    <2> QED BY <1>3, <1>7, <2>2 DEF VoteSound
<1> QED BY <1>1, <1>4, <1>6, <1>7, LogStays DEF LogFits

LEMMA LogSame ==
    ASSUME RolesTypes, LogFits, UNCHANGED log
    PROVE  LogFits'
<1>1. Extends /\ LogTail' = LogTail
    BY SameLog
<1>2. \A types : \A q \in Of(types)' : q < LogTail
    BY <1>1, LogFacts DEF Of, Taken
<1> QED BY <1>1, <1>2, LogStays DEF LogFits

(* Decisions on one intention agree.                                       *)
LEMMA DecisionsAgree ==
    ASSUME RolesTypes, LogFits, NEW i, NEW p \in DecisionsOn(i), NEW q \in DecisionsOn(i)
    PROVE  (At(p).type = "commit") <=> (At(q).type = "commit")
<1>1. /\ p \in Nat /\ q \in Nat /\ p \in Of(GateTypes) /\ q \in Of(GateTypes)
      /\ At(p).intention = i /\ At(q).intention = i
    BY LogFacts DEF DecisionsOn, Of
<1>2. /\ i \in Nat /\ LogVerdict(i, p) = {At(p).type = "commit"}
      /\ LogVerdict(i, q) = {At(q).type = "commit"}
    BY <1>1 DEF LogFits, DecisionSound
<1>3. LogVerdict(i, p) # {} /\ LogVerdict(i, q) # {}
    BY <1>2
<1>4. LogVerdict(i, p) = LogVerdict(i, q)
    <2>1. CASE p <= q
        BY <1>1, <1>2, <1>3, <2>1, VerdictLasts
    <2>2. CASE q <= p
        BY <1>1, <1>2, <1>3, <2>2, VerdictLasts
    <2> QED BY <1>1, <2>1, <2>2
<1> QED BY <1>2, <1>4, Zenon
-----------------------------------------------------------------------------
(* The inductive invariant.                                                *)

RolesInv ==
    /\ RolesTypes /\ LogFits
    /\ \A d \in Deciders : DeciderFits(decider[d])
    /\ \A v \in Voters : VoterFits(v, voter[v])
    /\ \A g \in Gates : GateFits(gate[g])

(* A role that a step leaves alone.                                        *)
LEMMA OthersStay ==
    ASSUME RolesInv, Extends
    PROVE  /\ \A d \in Deciders : decider'[d] = decider[d] => DeciderFits(decider[d])'
           /\ \A v \in Voters : voter'[v] = voter[v] => VoterFits(v, voter[v])'
           /\ \A g \in Gates : gate'[g] = gate[g] => GateFits(gate[g])'
<1>1. ASSUME NEW d \in Deciders, decider'[d] = decider[d] PROVE DeciderFits(decider[d])'
    <2>1. PICK s \in DeciderState : s = decider[d] /\ DeciderFits(s)
        BY DEF RolesInv, RolesTypes
    <2>2. DeciderFits(s)'
        BY <2>1, DeciderStays DEF DeciderFits, RolesInv
    <2> QED BY <1>1, <2>1, <2>2 DEF DeciderFits, DeciderOwes, Played, PendingFits
<1>2. ASSUME NEW v \in Voters, voter'[v] = voter[v] PROVE VoterFits(v, voter[v])'
    <2>1. PICK s \in VoterState : s = voter[v] /\ VoterFits(v, s)
        BY DEF RolesInv, RolesTypes
    <2>2. VoterFits(v, s)'
        BY <2>1, VoterStays DEF RolesInv
    <2> QED BY <1>2, <2>1, <2>2 DEF VoterFits
<1>3. ASSUME NEW g \in Gates, gate'[g] = gate[g] PROVE GateFits(gate[g])'
    <2>1. PICK s \in GateState : s = gate[g] /\ GateFits(s)
        BY DEF RolesInv, RolesTypes
    <2>2. GateFits(s)'
        BY <2>1, GateStays DEF RolesInv
    <2> QED BY <1>3, <2>1, <2>2 DEF GateFits
<1> QED BY <1>1, <1>2, <1>3

LEMMA NoRoleChanges ==
    ASSUME RolesInv, Extends, log' \in Seq(Entries), LogFits', UNCHANGED <<decider, voter, gate>>
    PROVE  RolesInv'
BY OthersStay DEF RolesInv, RolesTypes

LEMMA DeciderChanges ==
    ASSUME RolesInv, Extends, log' \in Seq(Entries), LogFits',
           NEW d \in Deciders, NEW r \in DeciderState, decider' = [decider EXCEPT ![d] = r],
           DeciderFits(r)', UNCHANGED <<voter, gate>>
    PROVE  RolesInv'
<1>1. /\ decider'[d] = r /\ decider' \in [Deciders -> DeciderState]
      /\ \A x \in Deciders : x # d => decider'[x] = decider[x]
    BY DEF RolesInv, RolesTypes
<1>2. DeciderFits(decider[d])'
    BY <1>1 DEF DeciderFits, DeciderOwes, Played, PendingFits
<1> QED BY <1>1, <1>2, OthersStay DEF RolesInv, RolesTypes

LEMMA VoterChanges ==
    ASSUME RolesInv, Extends, log' \in Seq(Entries), LogFits',
           NEW v \in Voters, NEW r \in VoterState, voter' = [voter EXCEPT ![v] = r],
           VoterFits(v, r)', UNCHANGED <<decider, gate>>
    PROVE  RolesInv'
<1>1. /\ voter'[v] = r /\ voter' \in [Voters -> VoterState]
      /\ \A x \in Voters : x # v => voter'[x] = voter[x]
    BY DEF RolesInv, RolesTypes
<1>2. VoterFits(v, voter[v])'
    BY <1>1 DEF VoterFits
<1> QED BY <1>1, <1>2, OthersStay DEF RolesInv, RolesTypes

LEMMA GateChanges ==
    ASSUME RolesInv, Extends, log' \in Seq(Entries), LogFits',
           NEW g \in Gates, NEW r \in GateState, gate' = [gate EXCEPT ![g] = r],
           GateFits(r)', UNCHANGED <<decider, voter>>
    PROVE  RolesInv'
<1>1. /\ gate'[g] = r /\ gate' \in [Gates -> GateState]
      /\ \A x \in Gates : x # g => gate'[x] = gate[x]
    BY DEF RolesInv, RolesTypes
<1>2. GateFits(gate[g])'
    BY <1>1 DEF GateFits
<1> QED BY <1>1, <1>2, OthersStay DEF RolesInv, RolesTypes

(* The log of a step that appends nothing.                                 *)
LEMMA QuietLog ==
    ASSUME RolesInv, UNCHANGED log
    PROVE  Extends /\ log' \in Seq(Entries) /\ LogFits'
BY SameLog, LogSame DEF RolesInv, RolesTypes

(* Deciders' steps.                                                        *)
LEMMA DeciderPolls ==
    ASSUME RolesAssumption, RolesInv, NEW d \in Deciders, PollAndDecide(d)
    PROVE  RolesInv'
<1>1. PICK s \in DeciderState : s = decider[d] /\ DeciderFits(s)
    BY DEF RolesInv, RolesTypes
<1>2. PICK end : /\ end = NextStart(s.pos, DeciderTypes, DeciderPage)
                 /\ decider' = [decider EXCEPT ![d] = ProcessEntry([s EXCEPT !.upto = end])]
    BY <1>1 DEF PollAndDecide
<1>3. s.pc = "poll" /\ s.pos < LogTail /\ s.pos \in Nat /\ LogTail \in Nat /\ RolesTypes
    BY <1>1, LogFacts DEF PollAndDecide, DeciderState, RolesInv
<1>4. end \in Nat /\ end <= LogTail /\ s.pos < end
    BY <1>2, <1>3, PageFacts DEF RolesAssumption
<1>5. PICK t \in DeciderState : t = [s EXCEPT !.upto = end]
    <2>1. [s EXCEPT !.upto = end] \in DeciderState
        BY <1>4 DEF DeciderState
    <2> QED BY <2>1
<1>6. /\ t.pc = "poll" /\ t.pos = s.pos /\ t.upto = end /\ t.policy = s.policy
      /\ t.waiting = s.waiting
    BY <1>3, <1>5 DEF DeciderState
<1>7. DeciderFits(t)
    BY <1>1, <1>3, <1>4, <1>6 DEF DeciderFits, DeciderOwes, Played
<1>8. PICK r \in DeciderState : r = ProcessEntry(t) /\ DeciderFits(r)
    BY <1>3, <1>4, <1>6, <1>7, EntryPlayed
<1>9. Extends /\ log' \in Seq(Entries) /\ LogFits'
    BY QuietLog DEF PollAndDecide
<1>10. DeciderFits(r)'
    BY <1>3, <1>8, <1>9, DeciderStays DEF DeciderFits
<1> QED BY <1>2, <1>5, <1>8, <1>9, <1>10, DeciderChanges DEF PollAndDecide

LEMMA DeciderPlays ==
    ASSUME RolesInv, NEW d \in Deciders, PlayEntry(d)
    PROVE  RolesInv'
<1>1. PICK s \in DeciderState : s = decider[d] /\ DeciderFits(s) /\ s.pc = "play" /\ RolesTypes
    BY DEF RolesInv, RolesTypes, PlayEntry
<1>2. s.pos < s.upto
    BY <1>1 DEF DeciderFits, DeciderOwes
<1>3. PICK r \in DeciderState : r = ProcessEntry(s) /\ DeciderFits(r)
    BY <1>1, <1>2, EntryPlayed
<1>4. Extends /\ log' \in Seq(Entries) /\ LogFits'
    BY QuietLog DEF PlayEntry
<1>5. DeciderFits(r)'
    BY <1>1, <1>3, <1>4, DeciderStays DEF DeciderFits
<1> QED BY <1>1, <1>3, <1>4, <1>5, DeciderChanges DEF PlayEntry

(* A decision that a decider is about to append is sound at any later tail. *)
LEMMA DecisionLogged ==
    ASSUME RolesInv, NEW s \in DeciderState, DeciderFits(s), s.pc = "append",
           log' = Append(log, Decision(s.pending.intention, s.pending.commit))
    PROVE  /\ Extends /\ log' \in Seq(Entries) /\ LogFits'
           /\ DecisionsOn(s.pending.intention)' # {}
<1>1. PICK b \in Nat : b = s.pending.intention
    BY LogFacts DEF DeciderFits, DeciderOwes, PendingFits, Of, RolesInv
<1>2. PICK c \in BOOLEAN : c = s.pending.commit
    BY DEF DeciderState
<1>3. PICK e : e = Decision(b, c)
    OBVIOUS
<1>4. e \in Entries
    BY <1>3 DEF Entries
<1>5. e.type \in GateTypes /\ e.intention = b /\ ((e.type = "commit") <=> c)
    <2>1. CASE c = TRUE
        BY <1>3, <2>1 DEF Decision, GateTypes
    <2>2. CASE c = FALSE
        BY <1>3, <2>2 DEF Decision, GateTypes
    <2> QED BY <2>1, <2>2
<1>6. /\ s.pos \in Nat /\ s.pos < LogTail /\ b <= s.pos /\ LogTail \in Nat /\ RolesTypes
      /\ LogVerdict(b, s.pos + 1) = {c}
    BY <1>1, <1>2, LogFacts DEF DeciderFits, DeciderOwes, PendingFits, DeciderState, RolesInv
<1>7. LogVerdict(b, LogTail) = {c}
    <2>0. c \in LogVerdict(b, s.pos + 1)
        BY <1>6, Zenon
    <2>1. LogVerdict(b, s.pos + 1) # {} /\ s.pos + 1 \in Nat /\ s.pos + 1 <= LogTail
        BY <1>6, <2>0
    <2> QED BY <1>6, <2>1, VerdictLasts
<1>8. LogVerdict(b, LogTail) = {e.type = "commit"}
    <2>1. c = (e.type = "commit")
        BY <1>5
    <2> QED BY <1>7, <2>1, Zenon
<1>9. DecisionSound(e, LogTail)
    BY <1>5, <1>6, <1>8 DEF DecisionSound
<1>10. log' = Append(log, e)
    BY <1>1, <1>2, <1>3
<1>11. e.type # "vote"
    BY <1>5 DEF GateTypes
<1>12. LogFits'
    BY <1>4, <1>6, <1>9, <1>10, <1>11, LogGrows DEF RolesInv
<1>13. Extends /\ LogTail' = LogTail + 1 /\ log'[LogTail + 1] = e /\ log' \in Seq(Entries)
    BY <1>4, <1>6, <1>10, LogAppended
<1>14. PICK l \in Nat : l = LogTail
    BY <1>6
<1>15. At(l)' = e /\ l \in Taken'
    <2>1. At(l)' = e
        BY <1>13, <1>14 DEF At
    <2>2. LogTail' = l + 1
        BY <1>13, <1>14
    <2>3. l \in Taken'
        BY <2>2 DEF Taken
    <2> QED BY <2>1, <2>3
<1>16. l \in DecisionsOn(b)'
    BY <1>5, <1>15 DEF DecisionsOn, Of
<1> QED BY <1>1, <1>12, <1>13, <1>16

LEMMA DeciderAppends ==
    ASSUME RolesInv, NEW d \in Deciders, AppendDecision(d)
    PROVE  RolesInv'
<1>1. PICK s \in DeciderState : s = decider[d] /\ DeciderFits(s) /\ s.pc = "append" /\ RolesTypes
    BY DEF RolesInv, RolesTypes, AppendDecision
<1>2. /\ log' = Append(log, Decision(s.pending.intention, s.pending.commit))
      /\ decider' = [decider EXCEPT ![d] = Settled(s)]
    BY <1>1 DEF AppendDecision, Settled
<1>3. /\ Extends /\ log' \in Seq(Entries) /\ LogFits'
      /\ DecisionsOn(s.pending.intention)' # {}
    BY <1>1, <1>2, DecisionLogged
<1>4. PICK r \in DeciderState : /\ r = Settled(s) /\ r.pc # "append"
                                /\ DeciderOwes(r, {s.pending.intention})
    BY <1>1, SettledOwes
<1>5. DeciderOwes(r, {s.pending.intention})'
    BY <1>1, <1>3, <1>4, DeciderStays
<1>6. DeciderFits(r)'
    BY <1>3, <1>4, <1>5 DEF DeciderFits, DeciderOwes
<1> QED BY <1>2, <1>3, <1>4, <1>6, DeciderChanges DEF AppendDecision

LEMMA DeciderEnds ==
    ASSUME RolesInv, NEW d \in Deciders,
           AppendFails(d) \/ DeciderStops(d) \/ StartDecider(d)
    PROVE  RolesInv'
<1>1. PICK s \in DeciderState : s = decider[d] /\ DeciderFits(s) /\ RolesTypes
    BY DEF RolesInv, RolesTypes
<1>2. PICK pc \in {"poll", "down"} :
        decider' = [decider EXCEPT ![d] = [FreshDecider EXCEPT !.pc = pc]]
    <2>1. \A x \in DeciderState : x.pc = "poll" => x = [x EXCEPT !.pc = "poll"]
        BY DEF DeciderState
    <2>2. FreshDecider.pending \in [intention : Int, commit : BOOLEAN] /\ "on" \in Policies
        BY DEF FreshDecider, None, Policies
    <2>3. FreshDecider \in DeciderState /\ FreshDecider.pc = "poll"
        BY <2>2 DEF FreshDecider, DeciderState
    <2>4. FreshDecider = [FreshDecider EXCEPT !.pc = "poll"]
        BY <2>1, <2>3
    <2> QED BY <2>4 DEF AppendFails, DeciderStops, StartDecider, Stopped
<1>3. PICK r \in DeciderState : r = [FreshDecider EXCEPT !.pc = pc] /\ DeciderFits(r)
    BY <1>1, FreshDeciderFits
<1>4. Extends /\ log' \in Seq(Entries) /\ LogFits'
    <2>1. CASE UNCHANGED log
        BY <2>1, QuietLog
    <2>2. CASE AppendFails(d) /\ ~ UNCHANGED log
        BY <1>1, <2>2, DecisionLogged DEF AppendFails
    <2> QED BY <2>1, <2>2 DEF DeciderStops, StartDecider
<1>5. DeciderFits(r)'
    BY <1>1, <1>3, <1>4, DeciderStays DEF DeciderFits
<1> QED BY <1>2, <1>3, <1>4, <1>5, DeciderChanges DEF AppendFails, DeciderStops, StartDecider
(* Voters' steps.                                                          *)
LEMMA VoterPollsKeeps ==
    ASSUME RolesInv, NEW v \in Voters, NEW isSafe \in {"true", "false"}, PollAndVote(v, isSafe)
    PROVE  RolesInv'
<1>1. RolesTypes /\ VoterFits(v, voter[v])
    BY DEF RolesInv
<1>2. PICK r \in VoterState : r = voter'[v] /\ VoterFits(v, r)
    BY <1>1, VoterPolls
<1>3. voter' = [voter EXCEPT ![v] = r]
    BY <1>1, <1>2 DEF PollAndVote, RolesTypes
<1>4. Extends /\ log' \in Seq(Entries) /\ LogFits'
    BY QuietLog DEF PollAndVote
<1>5. VoterFits(v, r)'
    BY <1>1, <1>2, <1>4, VoterStays
<1> QED BY <1>2, <1>3, <1>4, <1>5, VoterChanges DEF PollAndVote

(* The vote that a voter is about to append.                               *)
LEMMA VoteLogged ==
    ASSUME RolesInv, NEW v \in Voters, NEW s \in VoterState, VoterFits(v, s), s.pc = "append",
           log' = Append(log, Vote(s.at, s.value, v, s.config))
    PROVE  /\ Extends /\ log' \in Seq(Entries) /\ LogFits'
           /\ s.at \in Nat /\ s.at < LogTail /\ ConfigFor(s.at) = s.config
           /\ \E q \in Of({"vote"})' : At(q)'.intention = s.at /\ At(q)'.by = v
<1>1. /\ s.at \in Of({"intention"}) /\ s.pos <= s.at /\ s.pos \in Nat /\ RolesTypes
      /\ \A q \in Of(VoterTypes) : ~ (s.pos <= q /\ q < s.at)
    BY DEF VoterFits, VoterState, RolesInv
<1>2. s.at \in Nat /\ s.at < LogTail /\ LogTail \in Nat /\ Of({"voter_policy"}) \subseteq Nat
    BY <1>1, LogFacts DEF Of
<1>3. ConfigFor(s.at) = s.config
    <2>1. \A q \in Of({"voter_policy"}) : ~ (s.pos <= q /\ q < s.at)
        BY <1>1, VoterTypesSplit
    <2>2. ConfigFor(s.at) = ConfigFor(s.pos)
        BY <1>1, <1>2, <2>1, ConfigSame
    <2> QED BY <2>2 DEF VoterFits
<1>4. PICK e : e = Vote(s.at, s.value, v, s.config)
    OBVIOUS
<1>5. e \in Entries
    BY <1>2, <1>4 DEF Entries, VoterState
<1>6. e.type = "vote" /\ e.intention = s.at /\ e.by = v /\ e.under = s.config
    BY <1>4 DEF Vote
<1>7. VoteSound(e, LogTail)
    BY <1>2, <1>3, <1>6 DEF VoteSound
<1>8. LogFits'
    BY <1>1, <1>4, <1>5, <1>6, <1>7, LogGrows DEF GateTypes, RolesInv
<1>9. Extends /\ LogTail' = LogTail + 1 /\ log'[LogTail + 1] = e /\ log' \in Seq(Entries)
    BY <1>1, <1>4, <1>5, LogAppended
<1>10. PICK l \in Nat : l = LogTail
    BY <1>2
<1>11. At(l)' = e
    BY <1>9, <1>10 DEF At
<1>12. LogTail' = l + 1
    BY <1>9, <1>10
<1>13. l \in Taken'
    BY <1>12 DEF Taken
<1>14. l \in Of({"vote"})'
    BY <1>6, <1>11, <1>13 DEF Of
<1> QED BY <1>2, <1>3, <1>6, <1>8, <1>9, <1>11, <1>14

LEMMA VoterAppends ==
    ASSUME RolesInv, NEW v \in Voters, AppendVote(v)
    PROVE  RolesInv'
<1>1. PICK s \in VoterState : s = voter[v] /\ VoterFits(v, s) /\ s.pc = "append" /\ RolesTypes
    BY DEF RolesInv, RolesTypes, AppendVote
<1>2. log' = Append(log, Vote(s.at, s.value, v, s.config))
    BY <1>1 DEF AppendVote, BallotOf
<1>3. /\ Extends /\ log' \in Seq(Entries) /\ LogFits'
      /\ s.at \in Nat /\ s.at < LogTail /\ ConfigFor(s.at) = s.config
      /\ \E q \in Of({"vote"})' : At(q)'.intention = s.at /\ At(q)'.by = v
    BY <1>1, <1>2, VoteLogged
<1>4. /\ s.pos \in Nat /\ s.upto \in Nat /\ s.upto = s.at + 1 /\ s.pos <= s.at
      /\ s.at \in Of({"intention"}) /\ LogTail \in Nat
      /\ \A q \in Of(VoterTypes) : ~ (s.pos <= q /\ q < s.at)
    BY <1>1, LogFacts DEF VoterFits, VoterState
<1>5. PICK r \in VoterState : r = [s EXCEPT !.pc = "poll", !.pos = s.upto, !.at = None]
    <2>1. None \in Int
        BY DEF None
    <2>2. [s EXCEPT !.pc = "poll", !.pos = s.upto, !.at = None] \in VoterState
        BY <1>4, <2>1 DEF VoterState
    <2> QED BY <2>2
<1>6. r.pc = "poll" /\ r.pos = s.upto /\ r.config = s.config
    BY <1>5 DEF VoterState
<1>7. voter' = [voter EXCEPT ![v] = r]
    BY <1>1, <1>5 DEF AppendVote, RolesTypes
<1>8. ConfigFor(s.upto) = s.config
    <2>1. Of({"voter_policy"}) \subseteq Nat
        BY <1>1, LogFacts DEF Of
    <2>2. s.at \notin Of({"voter_policy"})
        BY <1>4, VoterTypesSplit
    <2>3. \A q \in Of({"voter_policy"}) : ~ (s.at <= q /\ q < s.upto)
        BY <1>3, <1>4, <2>1, <2>2
    <2>4. ConfigFor(s.upto) = ConfigFor(s.at)
        BY <1>3, <1>4, <2>1, <2>3, ConfigSame
    <2> QED BY <1>3, <2>4
<1>9. ConfigFor(s.upto)' = s.config /\ s.upto <= LogTail /\ s.upto <= LogTail'
    <2>1. s.upto <= LogTail
        BY <1>3, <1>4
    <2> QED BY <1>3, <1>4, <1>8, <2>1, ConfigStays DEF Extends
<1>10. VotedBelow(v, s.upto)'
    <2>1. VotedBelow(v, s.pos)'
        BY <1>1, <1>3, <1>4, VotedStays DEF VoterFits
    <2> SUFFICES ASSUME NEW p \in Of({"intention"})', p < s.upto, At(p)' = StringIntention
                 PROVE  \E q \in Of({"vote"})' : At(q)'.intention = p /\ At(q)'.by = v
        BY DEF VotedBelow, StringIntention
    <2>2. p \in Nat /\ p < LogTail /\ p \in Of({"intention"})
        BY <1>3, <1>4, <1>9, OfStays
    <2>3. ~ (s.pos <= p /\ p < s.at)
        BY <1>4, <2>2, VoterTypesSplit
    <2>4. p < s.pos \/ p = s.at
        BY <1>3, <1>4, <2>2, <2>3
    <2>5. CASE p < s.pos
        BY <2>1, <2>5 DEF VotedBelow, StringIntention
    <2> QED BY <1>3, <2>4, <2>5
<1>11. VoterFits(v, r)'
    BY <1>6, <1>9, <1>10 DEF VoterFits
<1> QED BY <1>3, <1>7, <1>11, VoterChanges DEF AppendVote

LEMMA VoterEnds ==
    ASSUME RolesInv, NEW v \in Voters,
           AppendVoteFails(v) \/ VoterStops(v) \/ StartVoter(v)
    PROVE  RolesInv'
<1>1. PICK s \in VoterState : s = voter[v] /\ VoterFits(v, s) /\ RolesTypes
    BY DEF RolesInv, RolesTypes
<1>2. Extends /\ log' \in Seq(Entries) /\ LogFits'
    <2>1. CASE UNCHANGED log
        BY <2>1, QuietLog
    <2>2. CASE AppendVoteFails(v) /\ ~ UNCHANGED log
        <3>1. log' = Append(log, Vote(s.at, s.value, v, s.config)) /\ s.pc = "append"
            BY <1>1, <2>2 DEF AppendVoteFails, BallotOf
        <3> QED BY <1>1, <3>1, VoteLogged
    <2> QED BY <2>1, <2>2 DEF VoterStops, StartVoter
<1>3. UNCHANGED <<decider, gate>>
    BY DEF AppendVoteFails, VoterStops, StartVoter
<1>4. CASE AppendVoteFails(v)
    <2>1. PICK r \in VoterState : r = [s EXCEPT !.pc = "poll", !.at = None]
        <3>1. None \in Int
            BY DEF None
        <3>2. [s EXCEPT !.pc = "poll", !.at = None] \in VoterState
            BY <3>1 DEF VoterState
        <3> QED BY <3>2
    <2>2. r.pc = "poll" /\ r.pos = s.pos /\ r.config = s.config
        BY <2>1 DEF VoterState
    <2>3. voter' = [voter EXCEPT ![v] = r]
        BY <1>1, <1>4, <2>1 DEF AppendVoteFails, RolesTypes
    <2>4. VoterFits(v, r)
        BY <1>1, <2>2 DEF VoterFits
    <2>5. VoterFits(v, r)'
        BY <1>1, <1>2, <2>4, VoterStays
    <2> QED BY <1>2, <1>3, <2>3, <2>5, VoterChanges
<1>5. CASE VoterStops(v)
    <2>1. PICK r \in VoterState : r = [FreshVoter EXCEPT !.pc = "down"] /\ VoterFits(v, r)
        BY <1>1, FreshVoterFits
    <2>2. VoterFits(v, r)'
        BY <1>1, <1>2, <2>1, VoterStays
    <2>3. voter' = [voter EXCEPT ![v] = r]
        BY <1>5, <2>1 DEF VoterStops, Stopped
    <2> QED BY <1>2, <1>3, <2>2, <2>3, VoterChanges
<1>6. CASE StartVoter(v)
    <2>1. PICK r \in VoterState : r = [s EXCEPT !.pc = "poll"]
        <3>1. [s EXCEPT !.pc = "poll"] \in VoterState
            BY DEF VoterState
        <3> QED BY <3>1
    <2>2. r.pc = "poll" /\ r.pos = s.pos /\ r.config = s.config
        BY <2>1 DEF VoterState
    <2>3. voter' = [voter EXCEPT ![v] = r]
        BY <1>1, <1>6, <2>1 DEF StartVoter, RolesTypes
    <2>4. VoterFits(v, r)
        BY <1>1, <2>2 DEF VoterFits
    <2>5. VoterFits(v, r)'
        BY <1>1, <1>2, <2>4, VoterStays
    <2> QED BY <1>2, <1>3, <2>3, <2>5, VoterChanges
<1> QED BY <1>4, <1>5, <1>6

(* Gates' and clients' steps.                                              *)
LEMMA GateAppends ==
    ASSUME RolesInv, NEW g \in Gates, GateAppend(g)
    PROVE  RolesInv'
<1>1. RolesTypes /\ LogFits
    BY DEF RolesInv
<1>2. PICK l \in Nat : l = LogTail
    BY <1>1, LogFacts
<1>3. StringIntention \in Entries /\ StringIntention.type = "intention"
    BY DEF Entries, StringIntention
<1>4. /\ Extends /\ LogTail' = l + 1 /\ log' \in Seq(Entries)
      /\ log'[l + 1] = StringIntention
    BY <1>1, <1>2, <1>3, LogAppended DEF GateAppend
<1>5. LogFits'
    BY <1>1, <1>3, LogGrows DEF GateAppend, GateTypes
<1>6. PICK r \in GateState : r = [pc |-> "wait", id |-> l, next |-> l + 1]
    <2>1. [pc |-> "wait", id |-> l, next |-> l + 1] \in GateState
        BY DEF GateState
    <2> QED BY <2>1
<1>7. r.pc = "wait" /\ r.id = l /\ r.next = l + 1
    BY <1>6
<1>8. DecisionsOn(l)' = {}
    <2> SUFFICES ASSUME NEW q \in Of(GateTypes)', At(q)'.intention = l PROVE FALSE
        BY DEF DecisionsOn
    <2>1. DecisionSound(At(q), q)'
        BY <1>5 DEF LogFits
    <2>2. At(q)'.intention < q
        BY <2>1 DEF DecisionSound
    <2>3. q \in Nat /\ q < l + 1
        BY <1>4 DEF Of, Taken
    <2> QED BY <2>2, <2>3
<1>9. GateFits(r)'
    BY <1>4, <1>7, <1>8 DEF GateFits
<1>10. gate' = [gate EXCEPT ![g] = r]
    BY <1>2, <1>6 DEF GateAppend
<1> QED BY <1>4, <1>5, <1>9, <1>10, GateChanges DEF GateAppend

LEMMA GateMoves ==
    ASSUME RolesAssumption, RolesInv, NEW g \in Gates, GatePoll(g) \/ GateGivesUp(g)
    PROVE  RolesInv'
<1>1. RolesTypes /\ GateFits(gate[g])
    BY DEF RolesInv
<1>2. Extends /\ log' \in Seq(Entries) /\ LogFits'
    BY QuietLog DEF GatePoll, GateGivesUp
<1>3. PICK r \in GateState : r = gate'[g] /\ GateFits(r)
    <2>1. CASE GatePoll(g)
        BY <1>1, <2>1, GatePolls
    <2>2. CASE GateGivesUp(g)
        <3>1. PICK s \in GateState : s = gate[g]
            BY <1>1 DEF RolesTypes
        <3>2. PICK r \in GateState : r = [s EXCEPT !.pc = "timed_out"]
            <4>1. [s EXCEPT !.pc = "timed_out"] \in GateState
                BY DEF GateState
            <4> QED BY <4>1
        <3>3. r = gate'[g] /\ r.pc = "timed_out"
            BY <1>1, <2>2, <3>1, <3>2 DEF GateGivesUp, RolesTypes, GateState
        <3>4. GateFits(r)
            BY <3>3 DEF GateFits
        <3> QED BY <3>3, <3>4
    <2> QED BY <2>1, <2>2
<1>4. gate' = [gate EXCEPT ![g] = r]
    BY <1>1, <1>3 DEF GatePoll, GateGivesUp, RolesTypes
<1>5. GateFits(r)'
    BY <1>1, <1>2, <1>3, GateStays
<1> QED BY <1>2, <1>4, <1>5, GateChanges DEF GatePoll, GateGivesUp

LEMMA ClientAppends ==
    ASSUME RolesAssumption, RolesInv, NEW e \in Clients, ClientAppend(e)
    PROVE  RolesInv'
<1>1. RolesTypes /\ LogFits /\ e \in Entries
    BY DEF RolesInv, Entries
<1>2. e.type \notin GateTypes /\ ~ (e.type = "vote" /\ e.by \in Voters)
    BY DEF RolesAssumption, GateTypes
<1>3. LogFits'
    BY <1>1, <1>2, LogGrows DEF ClientAppend
<1>4. Extends /\ log' \in Seq(Entries)
    BY <1>1, LogAppended DEF ClientAppend
<1> QED BY <1>3, <1>4, NoRoleChanges DEF ClientAppend

-----------------------------------------------------------------------------

LEMMA RolesInvInit == Init => RolesInv
<1> SUFFICES ASSUME Init PROVE RolesInv
    OBVIOUS
<1>1. FreshGate \in GateState /\ FreshGate.pc = "idle"
    BY DEF FreshGate, GateState, None
<1>2. FreshVoter \in VoterState
    BY DEF FreshVoter, VoterState, None, Configs
<1>3. FreshDecider \in DeciderState
    <2>1. FreshDecider.pending \in [intention : Int, commit : BOOLEAN] /\ "on" \in Policies
        BY DEF FreshDecider, None, Policies
    <2> QED BY <2>1 DEF FreshDecider, DeciderState
<1>4. RolesTypes
    BY <1>1, <1>2, <1>3 DEF Init, RolesTypes
<1>5. LogFits
    <2>1. LogTail = 0
        BY DEF Init, LogTail
    <2>2. \A types : Of(types) = {}
        BY <2>1 DEF Of, Taken
    <2> QED BY <2>2 DEF LogFits
<1>6. FreshVoter = [FreshVoter EXCEPT !.pc = "poll"]
    BY DEF FreshVoter
<1>7. FreshDecider = [FreshDecider EXCEPT !.pc = "poll"]
    <2>1. \A x \in DeciderState : x.pc = "poll" => x = [x EXCEPT !.pc = "poll"]
        BY DEF DeciderState
    <2>2. FreshDecider.pc = "poll"
        BY DEF FreshDecider
    <2> QED BY <1>3, <2>1, <2>2
<1>8. \A d \in Deciders : DeciderFits(decider[d])
    BY <1>4, <1>7, FreshDeciderFits DEF Init
<1>9. \A v \in Voters : VoterFits(v, voter[v])
    BY <1>4, <1>6, FreshVoterFits DEF Init
<1>10. \A g \in Gates : GateFits(gate[g])
    BY <1>1 DEF Init, GateFits
<1> QED BY <1>4, <1>5, <1>8, <1>9, <1>10 DEF RolesInv

LEMMA RolesInvNext ==
    ASSUME RolesAssumption, RolesInv, [Next]_vars
    PROVE  RolesInv'
<1>1. CASE UNCHANGED vars
    BY <1>1, QuietLog, NoRoleChanges DEF vars
<1>2. CASE \E d \in Deciders : DeciderStep(d)
    BY <1>2, DeciderPolls, DeciderPlays, DeciderAppends DEF DeciderStep
<1>3. CASE \E v \in Voters : VoterStep(v)
    BY <1>3, VoterPollsKeeps, VoterAppends DEF VoterStep
<1>4. CASE \E g \in Gates : GateAppend(g) \/ GatePoll(g)
    BY <1>4, GateAppends, GateMoves
<1>5. CASE \E e \in Clients : ClientAppend(e)
    BY <1>5, ClientAppends
<1>6. CASE Fault
    BY <1>6, DeciderEnds, VoterEnds, GateMoves DEF Fault
<1>7. CASE Restart
    BY <1>7, DeciderEnds, VoterEnds DEF Restart
<1> QED BY <1>1, <1>2, <1>3, <1>4, <1>5, <1>6, <1>7 DEF Next

LEMMA RolesInvImplies ==
    ASSUME RolesInv
    PROVE  DecisionsAreLogVerdicts /\ PlayedMeansDone
<1>1. RolesTypes /\ LogFits
    BY DEF RolesInv
<1>2. DecisionsAreLogVerdicts
    BY <1>1 DEF LogFits, DecisionSound, DecisionsAreLogVerdicts
<1>3. PlayedMeansDecided
    <2> SUFFICES ASSUME NEW d \in Deciders, NEW p \in Of({"intention"}),
                        p < decider[d].pos, LogVerdict(p, decider[d].pos) # {}
                 PROVE  DecisionsOn(p) # {}
        BY DEF PlayedMeansDecided
    <2>1. PICK s \in DeciderState : s = decider[d] /\ DeciderFits(s)
        BY DEF RolesInv, RolesTypes
    <2>2. p \in Nat /\ s.pos \in Nat
        BY <1>1, <2>1, LogFacts DEF Of, DeciderState
    <2>3. CASE s.pc # "append"
        BY <2>1, <2>3 DEF DeciderFits, DeciderOwes, Played
    <2>4. CASE s.pc = "append"
        <3>1. PendingFits(s)
            BY <2>1, <2>4 DEF DeciderFits, DeciderOwes
        <3>2. p # s.pending.intention
            BY <2>1, <3>1 DEF PendingFits
        <3>3. LogVerdict(p, s.pos + 1) # {}
            <4>1. s.pos + 1 \in Nat /\ s.pos <= s.pos + 1
                BY <2>2
            <4> QED BY <1>1, <2>1, <2>2, <4>1, VerdictLasts
        <3>4. p < s.pos + 1
            BY <2>1, <2>2
        <3> QED BY <2>1, <2>4, <3>2, <3>3, <3>4 DEF DeciderFits, DeciderOwes, Played
    <2> QED BY <2>3, <2>4
<1>4. PlayedMeansVoted
    BY DEF RolesInv, VoterFits, VotedBelow, PlayedMeansVoted
<1>5. VotesUnderLogPolicy
    BY <1>1 DEF LogFits, VoteSound, VotesUnderLogPolicy
<1>6. GatesSeeDecisions
    <2> SUFFICES ASSUME NEW g \in Gates
                 PROVE  /\ gate[g].pc = "wait" =>
                             \A q \in DecisionsOn(gate[g].id) : q >= gate[g].next
                        /\ gate[g].pc \in {"approved", "rejected"} =>
                             /\ DecisionsOn(gate[g].id) # {}
                             /\ \A q \in DecisionsOn(gate[g].id) :
                                  (At(q).type = "commit") <=> (gate[g].pc = "approved")
        BY DEF GatesSeeDecisions
    <2>1. PICK s \in GateState : s = gate[g] /\ GateFits(s)
        BY DEF RolesInv, RolesTypes
    <2>2. s.pc = "wait" => \A q \in DecisionsOn(s.id) : q >= s.next
        BY <1>1, <2>1, LogFacts DEF GateFits, GateState, DecisionsOn, Of
    <2>3. s.pc \in {"approved", "rejected"} =>
             /\ DecisionsOn(s.id) # {}
             /\ \A q \in DecisionsOn(s.id) : (At(q).type = "commit") <=> (s.pc = "approved")
        BY <1>1, <2>1, DecisionsAgree DEF GateFits
    <2> QED BY <2>1, <2>2, <2>3
<1> QED BY <1>2, <1>3, <1>4, <1>5, <1>6 DEF PlayedMeansDone

(* Every Commit and Abort that any decider appends, before or after any    *)
(* restart, is the one the log before it implies: process_intention and    *)
(* process_vote are a function of the log (decider.rs).                    *)
THEOREM DecisionsAreTheLogs == ASSUME RolesAssumption PROVE Spec => []DecisionsAreLogVerdicts
<1>1. Init => RolesInv
    BY RolesInvInit
<1>2. RolesInv /\ [Next]_vars => RolesInv'
    BY RolesInvNext
<1>3. RolesInv => DecisionsAreLogVerdicts
    BY RolesInvImplies
<1> QED BY <1>1, <1>2, <1>3, PTL DEF Spec

(* What a role has played it has dealt with: deciders' decisions and       *)
(* voters' votes are in the log, votes are under the log's policy, and a   *)
(* gate neither misses a decision nor answers otherwise.                   *)
THEOREM RolesKeepUp == ASSUME RolesAssumption PROVE Spec => []PlayedMeansDone
<1>1. Init => RolesInv
    BY RolesInvInit
<1>2. RolesInv /\ [Next]_vars => RolesInv'
    BY RolesInvNext
<1>3. RolesInv => PlayedMeansDone
    BY RolesInvImplies
<1> QED BY <1>1, <1>2, <1>3, PTL DEF Spec

-----------------------------------------------------------------------------
(* The mailbox.                                                            *)

MailEntries == [position : Nat, inReplyTo : BOOLEAN]
MailReplies == [position : Nat, kind : {"reply", "message"}]

IsReply(p) == mailLog[p + 1] = "reply"

Delivered(p) == \E i \in 1 .. Len(delivered) : delivered[i].position = p

Buffers(buffer, p) == \E i \in 1 .. Len(buffer) : buffer[i].position = p

LaterMails(p, n) == {q \in Mail!Mails : p < q /\ q < n}

(* The log, the cursor and what callers received.                          *)
MailFits ==
    /\ mailLog \in Seq(Mail!Kinds \cup {"other"})
    /\ next \in Nat /\ next <= Len(mailLog)
    /\ delivered \in Seq(MailReplies)
    /\ \A i \in 1 .. Len(delivered) :
         /\ delivered[i].position < next
         /\ (delivered[i].kind = "reply") <=> IsReply(delivered[i].position)
    /\ \A i, j \in 1 .. Len(delivered) : i < j => delivered[i].position < delivered[j].position

(* A buffer that holds what it should of the mails before position n.      *)
Holds(buffer, n) ==
    /\ buffer \in Seq(MailEntries) /\ Len(buffer) <= MaxMailBuffer
    /\ \A i \in 1 .. Len(buffer) :
         /\ buffer[i].position \in Mail!Mails /\ buffer[i].position < n
         /\ buffer[i].inReplyTo = IsReply(buffer[i].position)
    /\ \A i, j \in 1 .. Len(buffer) : i < j => buffer[i].position < buffer[j].position
    /\ \A i \in 1 .. Len(delivered), j \in 1 .. Len(buffer) :
         delivered[i].position < buffer[j].position

(* Each mail before n went somewhere, or gave way to newer ones.           *)
Keeps(buffer, n) ==
    \A p \in Mail!Mails : p < n =>
        \/ Buffers(buffer, p) \/ Delivered(p) \/ p \in abandoned
        \/ Cardinality(LaterMails(p, n)) >= MaxMailBuffer

MailInv == MailFits /\ Holds(mail, next) /\ Keeps(mail, next)

LEMMA MailsAre ==
    ASSUME mailLog \in Seq(Mail!Kinds \cup {"other"})
    PROVE  /\ Len(mailLog) \in Nat
           /\ \A p : p \in Mail!Mails <=> p \in Nat /\ p < Len(mailLog) /\ mailLog[p + 1] \in Mail!Kinds
           /\ \A n \in Nat : IsFiniteSet({q \in Mail!Mails : q < n})
           /\ IsFiniteSet(Mail!Mails)
<1>1. Len(mailLog) \in Nat
    OBVIOUS
<1>2. Mail!Mails = {p \in 0 .. (Len(mailLog) - 1) : mailLog[p + 1] \in Mail!Kinds}
    BY DEF Mail!Mails
<1>3. IsFiniteSet(0 .. (Len(mailLog) - 1))
    BY <1>1, FS_Interval
<1>4. IsFiniteSet(Mail!Mails)
    BY <1>2, <1>3, FS_Subset
<1>5. \A n \in Nat : {q \in Mail!Mails : q < n} \subseteq Mail!Mails
    OBVIOUS
<1> QED BY <1>1, <1>2, <1>4, <1>5, FS_Subset

LEMMA LaterFacts ==
    ASSUME mailLog \in Seq(Mail!Kinds \cup {"other"}), NEW p \in Nat, NEW n \in Nat, NEW m \in Nat, n <= m
    PROVE  /\ IsFiniteSet(LaterMails(p, n)) /\ Cardinality(LaterMails(p, n)) \in Nat
           /\ Cardinality(LaterMails(p, m)) \in Nat
           /\ Cardinality(LaterMails(p, n)) <= Cardinality(LaterMails(p, m))
<1>1. \A q \in Mail!Mails : q \in Nat
    BY MailsAre
<1>2. LaterMails(p, n) \subseteq LaterMails(p, m)
    BY <1>1 DEF LaterMails
<1>3. LaterMails(p, m) \subseteq Mail!Mails
    BY DEF LaterMails
<1>4. IsFiniteSet(LaterMails(p, m))
    BY <1>3, MailsAre, FS_Subset
<1> QED BY <1>2, <1>4, FS_Subset, FS_CardinalityType

(* A full buffer of mails after p leaves MaxMailBuffer of them after it.   *)
LEMMA FullMeansLater ==
    ASSUME MaxMailBuffer \in Nat, mailLog \in Seq(Mail!Kinds \cup {"other"}),
           NEW buffer, NEW n \in Nat, NEW p \in Nat,
           \A i \in 1 .. MaxMailBuffer :
             buffer[i].position \in Mail!Mails /\ p < buffer[i].position /\ buffer[i].position < n,
           \A i, j \in 1 .. MaxMailBuffer : i < j => buffer[i].position < buffer[j].position
    PROVE  Cardinality(LaterMails(p, n)) >= MaxMailBuffer
<1> DEFINE f == [i \in 1 .. MaxMailBuffer |-> buffer[i].position]
           S == 1 .. MaxMailBuffer
           T == LaterMails(p, n)
<1>1. \A q \in Mail!Mails : q \in Nat
    BY MailsAre
<1>2. f \in [S -> T]
    BY DEF LaterMails
<1>3. \A i, j \in S : i # j => f[i] # f[j]
    <2> SUFFICES ASSUME NEW i \in S, NEW j \in S, i # j PROVE f[i] # f[j]
        OBVIOUS
    <2>1. i < j \/ j < i
        OBVIOUS
    <2>2. f[i] = buffer[i].position /\ f[j] = buffer[j].position /\ f[i] \in Nat /\ f[j] \in Nat
        BY <1>1
    <2>3. f[i] < f[j] \/ f[j] < f[i]
        BY <2>1, <2>2
    <2> QED BY <2>2, <2>3
<1>4. f \in Injection(S, T)
    BY <1>2, <1>3 DEF Injection, IsInjective
<1>5. IsFiniteSet(T) /\ Cardinality(T) \in Nat
    <2>1. n <= n
        OBVIOUS
    <2> QED BY <2>1, LaterFacts
<1>6. Cardinality(S) = MaxMailBuffer
    BY FS_Interval
<1>7. Cardinality(S) <= Cardinality(T)
    BY <1>4, <1>5, FS_Injection
<1> QED BY <1>5, <1>6, <1>7

LEMMA NotAMail ==
    ASSUME MailFits, NEW n \in Nat, next <= n, n < Len(mailLog), NEW buffer,
           Holds(buffer, n), Keeps(buffer, n), n \notin Mail!Mails
    PROVE  Holds(buffer, n + 1) /\ Keeps(buffer, n + 1)
<1>1. \A q \in Mail!Mails : q \in Nat /\ (q < n + 1 <=> q < n)
    BY MailsAre DEF MailFits
<1>2. Holds(buffer, n + 1)
    BY <1>1 DEF Holds
<1>3. Keeps(buffer, n + 1)
    <2>1. \A p : LaterMails(p, n + 1) = LaterMails(p, n)
        BY <1>1 DEF LaterMails
    <2> QED BY <1>1, <2>1 DEF Keeps
<1> QED BY <1>2, <1>3

LEMMA Pushed ==
    ASSUME MaxMailBuffer \in Nat \ {0}, MailFits, NEW n \in Nat, next <= n, n < Len(mailLog), NEW buffer,
           Holds(buffer, n), Keeps(buffer, n), n \in Mail!Mails
    PROVE  LET pushed == Mail!PushBack(buffer, Mail!MailLogEntry(n))
           IN  Holds(pushed, n + 1) /\ Keeps(pushed, n + 1)
<1> DEFINE entry == Mail!MailLogEntry(n)
           full == Len(buffer) >= MaxMailBuffer
           rest == IF full THEN Tail(buffer) ELSE buffer
           pushed == Mail!PushBack(buffer, entry)
           shift == IF full THEN 1 ELSE 0
<1>1. entry \in MailEntries /\ entry.position = n /\ entry.inReplyTo = IsReply(n)
    BY DEF Mail!MailLogEntry, MailEntries, IsReply
<1>2. /\ buffer \in Seq(MailEntries) /\ Len(buffer) \in Nat /\ Len(buffer) <= MaxMailBuffer
      /\ \A i \in 1 .. Len(buffer) :
         /\ buffer[i].position \in Mail!Mails /\ buffer[i].position < n /\ buffer[i].position \in Nat
         /\ buffer[i].inReplyTo = IsReply(buffer[i].position)
    <2>1. \A p \in Mail!Mails : p \in Nat
        BY MailsAre DEF MailFits
    <2>2. buffer \in Seq(MailEntries) /\ Len(buffer) \in Nat
        BY DEF Holds
    <2> QED BY <2>1, <2>2 DEF Holds
<1>3. full => buffer # <<>>
    BY <1>2
<1>4. pushed = Append(rest, entry)
    BY DEF Mail!PushBack
<1>5. /\ rest \in Seq(MailEntries) /\ Len(rest) = Len(buffer) - shift
      /\ \A i \in 1 .. Len(rest) : rest[i] = buffer[i + shift]
    <2>1. CASE full
        BY <1>2, <1>3, <2>1, HeadTailProperties
    <2>2. CASE ~full
        BY <1>2, <2>2
    <2> QED BY <2>1, <2>2
<1> HIDE DEF entry, rest, pushed
<1>6. /\ pushed \in Seq(MailEntries) /\ Len(pushed) = Len(buffer) + 1 - shift
      /\ \A i \in 1 .. Len(rest) : pushed[i] = rest[i]
      /\ pushed[Len(pushed)] = entry
    <2>1. Len(rest) \in Nat
        BY <1>5
    <2> QED BY <1>1, <1>4, <1>5, <2>1, AppendProperties
<1>7. shift \in Nat /\ Len(pushed) \in Nat /\ Len(pushed) >= 1 /\ Len(pushed) <= MaxMailBuffer
    BY <1>2, <1>6
<1> HIDE DEF shift
<1>8. \A i \in 1 .. Len(pushed) :
        /\ i # Len(pushed) => i + shift \in 1 .. Len(buffer) /\ pushed[i] = buffer[i + shift]
        /\ i = Len(pushed) => pushed[i] = entry
    BY <1>2, <1>5, <1>6, <1>7
<1>9. \A i \in 1 .. Len(pushed) :
        /\ pushed[i].position \in Mail!Mails /\ pushed[i].position < n + 1
        /\ i # Len(pushed) => pushed[i].position < n
        /\ i = Len(pushed) => pushed[i].position = n
        /\ pushed[i].inReplyTo = IsReply(pushed[i].position)
    <2> SUFFICES ASSUME NEW i \in 1 .. Len(pushed)
                 PROVE  /\ pushed[i].position \in Mail!Mails /\ pushed[i].position < n + 1
                        /\ i # Len(pushed) => pushed[i].position < n
                        /\ i = Len(pushed) => pushed[i].position = n
                        /\ pushed[i].inReplyTo = IsReply(pushed[i].position)
        OBVIOUS
    <2>1. CASE i = Len(pushed)
        BY <1>1, <1>8, <2>1
    <2>2. CASE i # Len(pushed)
        BY <1>2, <1>8, <2>2
    <2> QED BY <2>1, <2>2
<1>10. \A i, j \in 1 .. Len(pushed) : i < j => pushed[i].position < pushed[j].position
    <2> SUFFICES ASSUME NEW i \in 1 .. Len(pushed), NEW j \in 1 .. Len(pushed), i < j
                 PROVE  pushed[i].position < pushed[j].position
        OBVIOUS
    <2>1. i # Len(pushed)
        BY <1>7
    <2>2. CASE j = Len(pushed)
        BY <1>9, <2>1, <2>2
    <2>3. CASE j # Len(pushed)
        <3>1. i + shift \in 1 .. Len(buffer) /\ j + shift \in 1 .. Len(buffer) /\ i + shift < j + shift
            BY <1>7, <1>8, <2>1, <2>3
        <3>2. buffer[i + shift].position < buffer[j + shift].position
            BY <3>1 DEF Holds
        <3> QED BY <1>8, <2>1, <2>3, <3>2
    <2> QED BY <2>2, <2>3
<1>11. \A i \in 1 .. Len(delivered), j \in 1 .. Len(pushed) : delivered[i].position < pushed[j].position
    <2> SUFFICES ASSUME NEW i \in 1 .. Len(delivered), NEW j \in 1 .. Len(pushed)
                 PROVE  delivered[i].position < pushed[j].position
        OBVIOUS
    <2>1. CASE j = Len(pushed)
        <3>1. delivered[i].position < next /\ delivered[i].position \in Nat /\ next \in Nat
            <4>1. delivered[i] \in MailReplies
                BY DEF MailFits
            <4> QED BY <4>1 DEF MailFits, MailReplies
        <3> QED BY <1>9, <2>1, <3>1
    <2>2. CASE j # Len(pushed)
        <3>1. j + shift \in 1 .. Len(buffer)
            BY <1>8, <2>2
        <3>2. delivered[i].position < buffer[j + shift].position
            BY <3>1 DEF Holds
        <3> QED BY <1>8, <2>2, <3>2
    <2> QED BY <2>1, <2>2
<1>12. Holds(pushed, n + 1)
    BY <1>6, <1>7, <1>9, <1>10, <1>11 DEF Holds
<1>13. Keeps(pushed, n + 1)
    <2> SUFFICES ASSUME NEW p \in Mail!Mails, p < n + 1
                 PROVE  \/ Buffers(pushed, p) \/ Delivered(p) \/ p \in abandoned
                        \/ Cardinality(LaterMails(p, n + 1)) >= MaxMailBuffer
        BY DEF Keeps
    <2>1. p \in Nat /\ mailLog \in Seq(Mail!Kinds \cup {"other"})
        BY MailsAre DEF MailFits
    <2>2. CASE p = n
        <3>1. Len(pushed) \in 1 .. Len(pushed) /\ pushed[Len(pushed)].position = p
            BY <1>7, <1>9, <2>2
        <3> QED BY <3>1 DEF Buffers
    <2>3. CASE p # n /\ Delivered(p)
        BY <2>3
    <2>4. CASE p # n /\ p \in abandoned
        BY <2>4
    <2>5. CASE p # n /\ Cardinality(LaterMails(p, n)) >= MaxMailBuffer
        <3>1. n + 1 \in Nat /\ n <= n + 1
            OBVIOUS
        <3>2. /\ Cardinality(LaterMails(p, n)) \in Nat /\ Cardinality(LaterMails(p, n + 1)) \in Nat
              /\ Cardinality(LaterMails(p, n)) <= Cardinality(LaterMails(p, n + 1))
            BY <2>1, <3>1, LaterFacts
        <3> QED BY <2>5, <3>2
    <2>6. CASE Buffers(buffer, p)
        <3>1. PICK i \in 1 .. Len(buffer) : buffer[i].position = p
            BY <2>6 DEF Buffers
        <3>2. CASE i > shift
            <4>1. i - shift \in 1 .. Len(pushed) /\ i - shift # Len(pushed) /\ (i - shift) + shift = i
                BY <1>2, <1>6, <1>7, <3>2
            <4>2. pushed[i - shift].position = p
                BY <1>8, <3>1, <4>1
            <4> QED BY <4>1, <4>2 DEF Buffers
        <3>3. CASE ~ (i > shift)
            <4>1. full /\ i = 1 /\ shift = 1
                BY <1>2, <1>7, <3>3 DEF shift
            <4>2. Len(pushed) = MaxMailBuffer
                BY <1>2, <1>6, <1>7, <4>1
            <4>3. \A k \in 1 .. MaxMailBuffer : p < pushed[k].position
                <5> SUFFICES ASSUME NEW k \in 1 .. MaxMailBuffer PROVE p < pushed[k].position
                    OBVIOUS
                <5>1. CASE k = Len(pushed)
                    BY <1>2, <1>9, <3>1, <4>2, <5>1
                <5>2. CASE k # Len(pushed)
                    <6>1. k + shift \in 1 .. Len(buffer) /\ pushed[k] = buffer[k + shift] /\ i < k + shift
                        BY <1>8, <4>1, <4>2, <5>2
                    <6>2. buffer[i].position < buffer[k + shift].position
                        BY <6>1 DEF Holds
                    <6> QED BY <3>1, <6>1, <6>2
                <5> QED BY <5>1, <5>2
            <4>4. \A k \in 1 .. MaxMailBuffer :
                    pushed[k].position \in Mail!Mails /\ p < pushed[k].position /\ pushed[k].position < n + 1
                BY <1>9, <4>2, <4>3
            <4>5. \A k, l \in 1 .. MaxMailBuffer : k < l => pushed[k].position < pushed[l].position
                BY <1>10, <4>2
            <4>6. n + 1 \in Nat
                OBVIOUS
            <4> QED BY <2>1, <4>4, <4>5, <4>6, FullMeansLater
        <3> QED BY <3>2, <3>3
    <2>7. p # n => p < n
        BY <2>1
    <2> QED BY <2>2, <2>3, <2>4, <2>5, <2>6, <2>7 DEF Keeps
<1> QED BY <1>12, <1>13 DEF pushed, entry

LEMMA MailCounts == \A S : Mail!Cardinality(S) = Cardinality(S)
BY Zenon DEF Cardinality, Mail!Cardinality, IsFiniteSet, Mail!IsFiniteSet

LEMMA MailPage ==
    ASSUME MailFits, MailPollLimit \in Nat \ {0}
    PROVE  /\ Mail!NextStart \in Nat /\ next <= Mail!NextStart /\ Mail!NextStart <= Len(mailLog)
           /\ Mail!Page = {p \in Mail!Mails : next <= p /\ p < Mail!NextStart}
<1> DEFINE found == {p \in Mail!Mails : p >= next}
           page == Mail!Page
           end == Mail!NextStart
<1>1. Len(mailLog) \in Nat /\ next \in Nat /\ next <= Len(mailLog)
    BY DEF MailFits
<1>2. \A p \in Mail!Mails : p \in Nat /\ p < Len(mailLog)
    BY MailsAre DEF MailFits
<1>3. found \in SUBSET (0 .. (Len(mailLog) - 1))
    BY <1>1, <1>2
<1>4. page = FirstFew(found, MailPollLimit)
    <2>1. page = {p \in found : Mail!Cardinality({q \in found : q < p}) < MailPollLimit}
        BY Zenon DEF Mail!Page
    <2>2. \A p : Mail!Cardinality({q \in found : q < p}) = Cardinality({q \in found : q < p})
        BY MailCounts
    <2> HIDE DEF found, page
    <2>3. \A p : p \in page <=> p \in FirstFew(found, MailPollLimit)
        BY <2>1, <2>2, Zenon DEF FirstFew
    <2> QED BY <2>1, <2>3 DEF FirstFew
<1>5. end = IF Cardinality(page) = MailPollLimit THEN Greatest(page) + 1 ELSE Len(mailLog)
    <2>1. end = IF Mail!Cardinality(Mail!Page) = MailPollLimit THEN Greatest(Mail!Page) + 1 ELSE Len(mailLog)
        BY Zenon DEF Mail!NextStart, Greatest
    <2>2. Mail!Cardinality(Mail!Page) = Cardinality(Mail!Page)
        BY MailCounts
    <2> QED BY <2>1, <2>2, Zenon
<1>6. \A p : p \in found <=> p \in Mail!Mails /\ next <= p
    BY <1>1, <1>2
<1> HIDE DEF page, end, found
<1>7. CASE Cardinality(page) = MailPollLimit
    <2>1. PICK g \in found : g = Greatest(page) /\ page = {p \in found : p <= g} /\ end = g + 1
        BY <1>1, <1>3, <1>4, <1>5, <1>7, FirstFewFacts
    <2>2. g \in Nat /\ next <= g /\ g < Len(mailLog)
        BY <1>2, <1>6
    <2>3. end = g + 1
        BY <2>1
    <2>4. page = {p \in Mail!Mails : next <= p /\ p < end}
        <3>1. \A p \in Mail!Mails : p <= g <=> p < end
            BY <1>2, <2>2, <2>3
        <3> QED BY <1>6, <2>1, <3>1
    <2>5. end \in Nat /\ next <= end /\ end <= Len(mailLog)
        BY <1>1, <2>2, <2>3
    <2> QED BY <2>4, <2>5 DEF page, end
<1>8. CASE Cardinality(page) # MailPollLimit
    <2>1. page = found /\ end = Len(mailLog)
        BY <1>1, <1>3, <1>4, <1>5, <1>8, FirstFewFacts
    <2>2. page = {p \in Mail!Mails : next <= p /\ p < end}
        BY <1>2, <1>6, <2>1
    <2> QED BY <1>1, <2>1, <2>2 DEF page, end
<1> QED BY <1>7, <1>8

MailScan(upto) ==
    upto = [p \in next .. Len(mailLog) |->
             IF p = next THEN mail
             ELSE IF p - 1 \in Mail!Page THEN Mail!PushBack(upto[p - 1], Mail!MailLogEntry(p - 1))
             ELSE upto[p - 1]]

LEMMA ScanExists ==
    ASSUME MailFits
    PROVE  \E upto : MailScan(upto)
<1> DEFINE Step(p, before) ==
             IF p - 1 \in Mail!Page THEN Mail!PushBack(before, Mail!MailLogEntry(p - 1)) ELSE before
           Good(n, f) == f = [p \in next .. n |-> IF p = next THEN mail ELSE Step(p, f[p - 1])]
           Bad == {n \in next .. Len(mailLog) : ~ \E f : Good(n, f)}
<1>1. next \in Nat /\ Len(mailLog) \in Nat /\ next <= Len(mailLog)
    BY DEF MailFits
<1> HIDE DEF Step
<1>2. Bad = {}
    <2> SUFFICES ASSUME Bad # {} PROVE FALSE
        OBVIOUS
    <2>1. Bad \in SUBSET Nat
        BY <1>1
    <2>2. PICK n \in Bad : \A m \in Bad : n <= m
        BY <2>1, LeastOf
    <2>3. n \in Nat /\ next <= n /\ n <= Len(mailLog)
        BY <1>1
    <2>4. CASE n = next
        <3> DEFINE f == [p \in next .. next |-> mail]
        <3>1. f = [p \in next .. next |-> IF p = next THEN mail ELSE Step(p, f[p - 1])]
            BY <1>1
        <3>2. Good(n, f)
            BY <2>4, <3>1
        <3> QED BY <3>2
    <2>5. CASE n # next
        <3>1. n - 1 \in Nat /\ n - 1 \in next .. Len(mailLog) /\ ~ (n <= n - 1)
            BY <1>1, <2>3, <2>5
        <3>2. PICK g : Good(n - 1, g)
            BY <2>2, <3>1
        <3> DEFINE f == [p \in next .. n |-> IF p = n THEN Step(n, g[n - 1]) ELSE g[p]]
        <3>3. \A p \in next .. n : f[p] = IF p = next THEN mail ELSE Step(p, f[p - 1])
            <4> SUFFICES ASSUME NEW p \in next .. n
                         PROVE  f[p] = IF p = next THEN mail ELSE Step(p, f[p - 1])
                OBVIOUS
            <4>1. CASE p = n
                <5>1. n - 1 \in next .. n /\ n - 1 # n
                    BY <2>3, <3>1
                <5> QED BY <2>5, <4>1, <5>1
            <4>2. CASE p # n
                <5>1. p \in next .. (n - 1) /\ (p # next => p - 1 \in next .. n /\ p - 1 # n)
                    BY <1>1, <2>3, <4>2
                <5>2. g[p] = IF p = next THEN mail ELSE Step(p, g[p - 1])
                    BY <3>2, <5>1
                <5> QED BY <4>2, <5>1, <5>2
            <4> QED BY <4>1, <4>2
        <3>4. f = [p \in next .. n |-> f[p]]
            OBVIOUS
        <3> HIDE DEF f
        <3>5. Good(n, f)
            BY <3>3, <3>4
        <3> QED BY <3>5
    <2> QED BY <2>4, <2>5
<1>3. Len(mailLog) \in next .. Len(mailLog)
    BY <1>1
<1>4. PICK f : Good(Len(mailLog), f)
    BY <1>2, <1>3
<1> QED BY <1>4 DEF MailScan, Step

(* A poll leaves the mailbox with what it should hold up to the new cursor.*)
LEMMA PollKeepsMail ==
    ASSUME MaxMailBuffer \in Nat \ {0}, MailPollLimit \in Nat \ {0}, MailInv
    PROVE  Holds(Mail!Buffered, Mail!NextStart) /\ Keeps(Mail!Buffered, Mail!NextStart)
<1> DEFINE end == Mail!NextStart
           To(k) == IF k <= end THEN k ELSE end
<1>1. /\ next \in Nat /\ Len(mailLog) \in Nat /\ next <= Len(mailLog)
      /\ end \in Nat /\ next <= end /\ end <= Len(mailLog)
      /\ Mail!Page = {p \in Mail!Mails : next <= p /\ p < end}
    BY MailPage DEF MailInv, MailFits
<1>2. PICK upto : MailScan(upto) /\ Mail!Buffered = upto[Len(mailLog)]
    <2>1. PICK f : f = CHOOSE upto : MailScan(upto)
        OBVIOUS
    <2>2. MailScan(f)
        BY <2>1, ScanExists DEF MailInv
    <2>3. Mail!Buffered = f[Len(mailLog)]
        BY <2>1, Zenon DEF Mail!Buffered, MailScan
    <2> QED BY <2>2, <2>3
<1>3. /\ upto[next] = mail
      /\ \A k \in (next + 1) .. Len(mailLog) :
           upto[k] = IF k - 1 \in Mail!Page
                     THEN Mail!PushBack(upto[k - 1], Mail!MailLogEntry(k - 1)) ELSE upto[k - 1]
    BY <1>1, <1>2 DEF MailScan
<1> HIDE DEF end
<1> DEFINE Fine(k) == Holds(upto[k], To(k)) /\ Keeps(upto[k], To(k))
           Bad == {k \in next .. Len(mailLog) : ~ Fine(k)}
<1>4. Bad = {}
    <2> SUFFICES ASSUME Bad # {} PROVE FALSE
        OBVIOUS
    <2>1. Bad \in SUBSET Nat
        BY <1>1
    <2>2. PICK k \in Bad : \A l \in Bad : k <= l
        BY <2>1, LeastOf
    <2>3. k \in Nat /\ next <= k /\ k <= Len(mailLog) /\ ~ Fine(k)
        BY <1>1
    <2>4. k # next
        BY <1>1, <1>3, <2>3 DEF MailInv
    <2>5. PICK n \in Nat : n = k - 1 /\ k = n + 1 /\ next <= n /\ n < Len(mailLog)
        <3>1. k - 1 \in Nat /\ k = (k - 1) + 1 /\ next <= k - 1 /\ k - 1 < Len(mailLog)
            BY <1>1, <2>3, <2>4
        <3> QED BY <3>1
    <2>6. n \in next .. Len(mailLog) /\ ~ (k <= n) /\ k \in (next + 1) .. Len(mailLog)
        BY <1>1, <2>3, <2>5
    <2>7. Fine(n)
        BY <2>2, <2>6
    <2>8. upto[k] = IF n \in Mail!Page THEN Mail!PushBack(upto[n], Mail!MailLogEntry(n)) ELSE upto[n]
        BY <1>3, <2>5, <2>6
    <2>9. MailFits
        BY DEF MailInv
    <2>10. CASE n < end
        <3>1. To(n) = n /\ To(k) = n + 1
            BY <1>1, <2>5, <2>10
        <3>2. n \in Mail!Page <=> n \in Mail!Mails
            BY <1>1, <2>5, <2>10
        <3>3. Holds(upto[n], n) /\ Keeps(upto[n], n)
            BY <2>7, <3>1
        <3>4. CASE n \in Mail!Mails
            <4>1. upto[k] = Mail!PushBack(upto[n], Mail!MailLogEntry(n))
                BY <2>8, <3>2, <3>4
            <4> QED BY <2>3, <2>5, <2>9, <3>1, <3>3, <3>4, <4>1, Pushed
        <3>5. CASE n \notin Mail!Mails
            <4>1. upto[k] = upto[n]
                BY <2>8, <3>2, <3>5
            <4> QED BY <2>3, <2>5, <2>9, <3>1, <3>3, <3>5, <4>1, NotAMail
        <3> QED BY <3>4, <3>5
    <2>11. CASE ~ (n < end)
        <3>1. To(n) = end /\ To(k) = end
            BY <1>1, <2>5, <2>11
        <3>2. upto[k] = upto[n]
            BY <1>1, <2>5, <2>8, <2>11
        <3> QED BY <2>3, <2>7, <3>1, <3>2
    <2> QED BY <2>10, <2>11
<1>5. Len(mailLog) \in next .. Len(mailLog) /\ To(Len(mailLog)) = end
    BY <1>1
<1>6. Fine(Len(mailLog))
    BY <1>4, <1>5
<1> QED BY <1>2, <1>5, <1>6 DEF end

LEMMA MailInvInit == ASSUME MaxMailBuffer \in Nat PROVE Mail!Init => MailInv
<1> SUFFICES ASSUME Mail!Init PROVE MailInv
    OBVIOUS
<1>1. MailFits
    BY DEF Mail!Init, MailFits
<1>2. Mail!Mails = {}
    BY DEF Mail!Init, Mail!Mails
<1>3. Holds(mail, next) /\ Keeps(mail, next)
    BY <1>2 DEF Mail!Init, Holds, Keeps
<1> QED BY <1>1, <1>3 DEF MailInv

LEMMA SendMailKeeps ==
    ASSUME MaxMailBuffer \in Nat, MailInv, NEW kind \in Mail!Kinds \cup {"other"}, Mail!SendMail(kind)
    PROVE  MailInv'
<1>1. /\ mailLog' = Append(mailLog, kind)
      /\ UNCHANGED <<next, mail, delivered, abandoned, losses>>
    BY DEF Mail!SendMail
<1>2. /\ mailLog \in Seq(Mail!Kinds \cup {"other"}) /\ next \in Nat /\ next <= Len(mailLog)
      /\ Len(mailLog) \in Nat
    BY DEF MailInv, MailFits
<1>3. /\ mailLog' \in Seq(Mail!Kinds \cup {"other"}) /\ Len(mailLog') = Len(mailLog) + 1
      /\ \A i \in 1 .. Len(mailLog) : mailLog'[i] = mailLog[i]
    BY <1>1, <1>2
<1>4. \A p \in Nat : p < next => (IsReply(p)' <=> IsReply(p))
    <2> SUFFICES ASSUME NEW p \in Nat, p < next PROVE IsReply(p)' <=> IsReply(p)
        OBVIOUS
    <2>1. p + 1 \in 1 .. Len(mailLog)
        BY <1>2
    <2> QED BY <1>3, <2>1 DEF IsReply
<1>5. \A p : p \in Mail!Mails <=> p \in Nat /\ p < Len(mailLog) /\ mailLog[p + 1] \in Mail!Kinds
    BY <1>2, MailsAre
<1>6. \A p : p \in Mail!Mails' <=> p \in Nat /\ p < Len(mailLog') /\ mailLog'[p + 1] \in Mail!Kinds
    BY <1>3 DEF Mail!Mails, Mail!Kinds
<1>7. \A p \in Nat : p < next => (p \in Mail!Mails' <=> p \in Mail!Mails)
    <2> SUFFICES ASSUME NEW p \in Nat, p < next PROVE p \in Mail!Mails' <=> p \in Mail!Mails
        OBVIOUS
    <2>1. p + 1 \in 1 .. Len(mailLog) /\ p < Len(mailLog) /\ p < Len(mailLog')
        BY <1>2, <1>3
    <2> QED BY <1>3, <1>5, <1>6, <2>1
<1>8. MailFits'
    <2>1. \A i \in 1 .. Len(delivered) :
            /\ delivered[i].position \in Nat /\ delivered[i].position < next
            /\ (delivered[i].kind = "reply") <=> IsReply(delivered[i].position)
        <3>1. \A i \in 1 .. Len(delivered) : delivered[i] \in MailReplies
            BY DEF MailInv, MailFits
        <3> QED BY <3>1 DEF MailInv, MailFits, MailReplies
    <2>2. \A i \in 1 .. Len(delivered) :
            (delivered[i].kind = "reply") <=> mailLog'[delivered[i].position + 1] = "reply"
        BY <1>4, <2>1 DEF IsReply
    <2>3. next <= Len(mailLog')
        BY <1>2, <1>3
    <2> QED BY <1>1, <1>2, <1>3, <2>1, <2>2, <2>3 DEF MailInv, MailFits, IsReply, MailReplies, Mail!Kinds
<1>9. \A i \in 1 .. Len(mail) :
        /\ mail[i].position \in Mail!Mails /\ mail[i].position \in Nat /\ mail[i].position < next
        /\ mail[i].inReplyTo = IsReply(mail[i].position)
    BY <1>5 DEF MailInv, Holds
<1>10. Holds(mail, next)'
    <2>1. \A i \in 1 .. Len(mail) :
            /\ mail[i].position \in Mail!Mails' /\ mail[i].position < next
            /\ mail[i].inReplyTo = IsReply(mail[i].position)'
        <3> SUFFICES ASSUME NEW i \in 1 .. Len(mail)
                     PROVE  /\ mail[i].position \in Mail!Mails' /\ mail[i].position < next
                            /\ mail[i].inReplyTo = IsReply(mail[i].position)'
            OBVIOUS
        <3>1. PICK p \in Nat : p = mail[i].position
            BY <1>9
        <3>2. /\ p \in Mail!Mails' /\ p < next /\ (IsReply(p)' <=> IsReply(p))
              /\ mail[i].inReplyTo = IsReply(p)
            BY <1>4, <1>7, <1>9, <3>1
        <3>3. IsReply(p)' = IsReply(p)
            BY <3>2 DEF IsReply
        <3>4. mail' = mail
            BY <1>1
        <3>5. IsReply(mail[i].position)' = IsReply(p)'
            BY <3>1, <3>4 DEF IsReply
        <3>6. mail[i].inReplyTo = IsReply(mail[i].position)'
            BY <3>2, <3>3, <3>5
        <3> QED BY <3>1, <3>2, <3>6
    <2> QED BY <1>1, <2>1 DEF MailInv, Holds, IsReply, MailEntries
<1>11. Keeps(mail, next)'
    <2>1. \A p : LaterMails(p, next)' = LaterMails(p, next)
        <3> SUFFICES ASSUME NEW p PROVE LaterMails(p, next)' = LaterMails(p, next)
            OBVIOUS
        <3>1. \A q : q \in LaterMails(p, next) <=> q \in Mail!Mails /\ q \in Nat /\ p < q /\ q < next
            BY <1>5 DEF LaterMails
        <3>2. \A q : q \in LaterMails(p, next)' <=> q \in Mail!Mails' /\ q \in Nat /\ p < q /\ q < next
            BY <1>1, <1>6 DEF LaterMails
        <3>3. \A q : q \in LaterMails(p, next)' <=> q \in LaterMails(p, next)
            BY <1>7, <3>1, <3>2
        <3> QED BY <3>3 DEF LaterMails
    <2>2. \A p \in Mail!Mails' : p < next => p \in Mail!Mails
        BY <1>6, <1>7
    <2>3. \A p \in Mail!Mails' : p < next =>
            \/ Buffers(mail, p) \/ Delivered(p) \/ p \in abandoned
            \/ Cardinality(LaterMails(p, next)) >= MaxMailBuffer
        BY <2>2 DEF MailInv, Keeps
    <2>4. \A p \in Mail!Mails' : p < next =>
            \/ Buffers(mail, p)' \/ Delivered(p)' \/ p \in abandoned'
            \/ Cardinality(LaterMails(p, next)') >= MaxMailBuffer
        BY <1>1, <2>1, <2>3 DEF Buffers, Delivered
    <2> QED BY <1>1, <2>4 DEF Keeps, LaterMails
<1> QED BY <1>8, <1>10, <1>11 DEF MailInv

LEMMA PollKeeps ==
    ASSUME MaxMailBuffer \in Nat \ {0}, MailPollLimit \in Nat \ {0}, MailInv, Mail!PollAndReceive
    PROVE  MailInv'
<1>1. /\ mail' = Mail!Buffered /\ next' = Mail!NextStart
      /\ UNCHANGED <<mailLog, delivered, abandoned, losses>>
    BY DEF Mail!PollAndReceive
<1>2. PICK buffer, end : buffer = Mail!Buffered /\ end = Mail!NextStart
    OBVIOUS
<1>3. Holds(buffer, end) /\ Keeps(buffer, end)
    BY <1>2, PollKeepsMail
<1>4. end \in Nat /\ next \in Nat /\ next <= end /\ end <= Len(mailLog)
    BY <1>2, MailPage DEF MailInv, MailFits
<1>5. mail' = buffer /\ next' = end
    BY <1>1, <1>2
<1>6. MailFits'
    <2>1. \A i \in 1 .. Len(delivered) : delivered[i] \in MailReplies
        BY DEF MailInv, MailFits
    <2>2. \A i \in 1 .. Len(delivered) : delivered[i].position \in Nat /\ delivered[i].position < next
        BY <2>1 DEF MailInv, MailFits, MailReplies
    <2>3. \A i \in 1 .. Len(delivered) : delivered[i].position < end
        BY <1>4, <2>2
    <2> QED BY <1>1, <1>4, <1>5, <2>3 DEF MailInv, MailFits, IsReply, Mail!Kinds, MailReplies
<1>7. Holds(mail, next)'
    BY <1>1, <1>3, <1>5 DEF Holds, IsReply, Mail!Mails, Mail!Kinds, MailEntries
<1>8. Keeps(mail, next)'
    BY <1>1, <1>3, <1>5 DEF Keeps, Buffers, Delivered, LaterMails, Mail!Mails, Mail!Kinds
<1> QED BY <1>6, <1>7, <1>8 DEF MailInv

LEMMA CheckMailKeeps ==
    ASSUME MaxMailBuffer \in Nat, MailInv, Mail!CheckMail
    PROVE  MailInv'
<1> DEFINE sends == [i \in DOMAIN mail |-> Mail!AsResponse(mail[i])]
<1>1. /\ delivered' = delivered \o sends /\ mail' = <<>>
      /\ UNCHANGED <<mailLog, next, abandoned, losses>>
    BY DEF Mail!CheckMail
<1>2. /\ mail \in Seq(MailEntries) /\ Len(mail) \in Nat /\ DOMAIN mail = 1 .. Len(mail)
      /\ delivered \in Seq(MailReplies) /\ Len(delivered) \in Nat
      /\ \A i \in 1 .. Len(mail) : mail[i] \in MailEntries
    BY DEF MailInv, MailFits, Holds
<1>3. \A i \in 1 .. Len(mail) :
        /\ Mail!AsResponse(mail[i]) \in MailReplies
        /\ Mail!AsResponse(mail[i]).position = mail[i].position
        /\ (Mail!AsResponse(mail[i]).kind = "reply") <=> mail[i].inReplyTo
    <2> SUFFICES ASSUME NEW i \in 1 .. Len(mail)
                 PROVE  /\ Mail!AsResponse(mail[i]) \in MailReplies
                        /\ Mail!AsResponse(mail[i]).position = mail[i].position
                        /\ (Mail!AsResponse(mail[i]).kind = "reply") <=> mail[i].inReplyTo
        OBVIOUS
    <2>1. PICK p \in Nat, b \in BOOLEAN : p = mail[i].position /\ b = mail[i].inReplyTo
        BY <1>2 DEF MailEntries
    <2>2. Mail!AsResponse(mail[i]) = [position |-> p, kind |-> IF b THEN "reply" ELSE "message"]
        BY <2>1 DEF Mail!AsResponse
    <2>3. Mail!AsResponse(mail[i]) \in MailReplies
        BY <2>2 DEF MailReplies
    <2>4. /\ Mail!AsResponse(mail[i]).position = p
          /\ (Mail!AsResponse(mail[i]).kind = "reply") <=> b
        BY <2>2
    <2> QED BY <2>1, <2>3, <2>4
<1>4. /\ sends \in Seq(MailReplies) /\ Len(sends) = Len(mail)
      /\ \A i \in 1 .. Len(mail) :
           /\ sends[i].position = mail[i].position
           /\ (sends[i].kind = "reply") <=> mail[i].inReplyTo
    <2>1. sends \in [1 .. Len(mail) -> MailReplies]
        BY <1>2, <1>3
    <2>2. sends \in Seq(MailReplies) /\ Len(sends) = Len(mail)
        BY <1>2, <2>1
    <2> QED BY <1>2, <1>3, <2>2
<1> HIDE DEF sends
<1>5. /\ delivered' \in Seq(MailReplies) /\ Len(delivered') = Len(delivered) + Len(mail)
      /\ \A i \in 1 .. Len(delivered) : delivered'[i] = delivered[i]
      /\ \A i \in 1 .. Len(mail) : delivered'[Len(delivered) + i] = sends[i]
    <2>1. \A i \in 1 .. (Len(delivered) + Len(mail)) :
            delivered'[i] = IF i <= Len(delivered) THEN delivered[i] ELSE sends[i - Len(delivered)]
        BY <1>1, <1>2, <1>4, ConcatProperties
    <2>2. delivered' \in Seq(MailReplies) /\ Len(delivered') = Len(delivered) + Len(mail)
        <3>1. delivered \o sends \in Seq(MailReplies)
            BY <1>2, <1>4
        <3>2. Len(delivered \o sends) = Len(delivered) + Len(sends)
            BY <1>2, <1>4
        <3> QED BY <1>1, <1>4, <3>1, <3>2
    <2>3. ASSUME NEW i \in 1 .. Len(mail) PROVE delivered'[Len(delivered) + i] = sends[i]
        <3>1. /\ Len(delivered) + i \in 1 .. (Len(delivered) + Len(mail))
              /\ ~ (Len(delivered) + i <= Len(delivered)) /\ (Len(delivered) + i) - Len(delivered) = i
            BY <1>2
        <3> QED BY <2>1, <3>1
    <2>4. \A i \in 1 .. Len(delivered) : i \in 1 .. (Len(delivered) + Len(mail)) /\ i <= Len(delivered)
        BY <1>2
    <2> QED BY <2>1, <2>2, <2>3, <2>4
<1>6. \A i \in 1 .. Len(delivered') :
        \/ i \in 1 .. Len(delivered)
        \/ i - Len(delivered) \in 1 .. Len(mail) /\ i = Len(delivered) + (i - Len(delivered))
    BY <1>2, <1>5
<1>7. MailFits'
    <2>1. ASSUME NEW i \in 1 .. Len(delivered')
          PROVE  /\ delivered'[i].position < next
                 /\ (delivered'[i].kind = "reply") <=> IsReply(delivered'[i].position)
        <3>1. CASE i \in 1 .. Len(delivered)
            BY <1>5, <3>1 DEF MailInv, MailFits
        <3>2. CASE i \notin 1 .. Len(delivered)
            <4>1. PICK k \in 1 .. Len(mail) : i = Len(delivered) + k
                BY <1>6, <3>2
            <4>2. delivered'[i] = sends[k]
                BY <1>5, <4>1
            <4>3. mail[k].position < next /\ mail[k].inReplyTo = IsReply(mail[k].position)
                BY DEF MailInv, Holds
            <4> QED BY <1>4, <4>2, <4>3
        <3> QED BY <3>1, <3>2
    <2>2. ASSUME NEW i \in 1 .. Len(delivered'), NEW j \in 1 .. Len(delivered'), i < j
          PROVE  delivered'[i].position < delivered'[j].position
        <3>1. CASE j \in 1 .. Len(delivered)
            <4>1. i \in 1 .. Len(delivered)
                BY <1>2, <2>2, <3>1
            <4> QED BY <1>5, <2>2, <3>1, <4>1 DEF MailInv, MailFits
        <3>2. CASE j \notin 1 .. Len(delivered)
            <4>1. PICK k \in 1 .. Len(mail) : j = Len(delivered) + k
                BY <1>6, <3>2
            <4>2. delivered'[j].position = mail[k].position
                BY <1>4, <1>5, <4>1
            <4>3. CASE i \in 1 .. Len(delivered)
                BY <1>5, <4>2, <4>3 DEF MailInv, Holds
            <4>4. CASE i \notin 1 .. Len(delivered)
                <5>1. PICK l \in 1 .. Len(mail) : i = Len(delivered) + l
                    BY <1>6, <4>4
                <5>2. l < k
                    BY <1>2, <2>2, <4>1, <5>1
                <5>3. delivered'[i].position = mail[l].position
                    BY <1>4, <1>5, <5>1
                <5> QED BY <4>2, <5>2, <5>3 DEF MailInv, Holds
            <4> QED BY <4>3, <4>4
        <3> QED BY <3>1, <3>2
    <2> QED BY <1>1, <1>5, <2>1, <2>2 DEF MailInv, MailFits, IsReply, Mail!Kinds, MailReplies
<1>8. Holds(mail, next)'
    BY <1>1 DEF Holds
<1>9. Keeps(mail, next)'
    <2>1. ASSUME NEW p \in Mail!Mails, p < next
          PROVE  \/ Delivered(p)' \/ p \in abandoned
                 \/ Cardinality(LaterMails(p, next)) >= MaxMailBuffer
        <3>1. CASE Buffers(mail, p)
            <4>1. PICK k \in 1 .. Len(mail) : mail[k].position = p
                BY <3>1 DEF Buffers
            <4>2. Len(delivered) + k \in 1 .. Len(delivered') /\ delivered'[Len(delivered) + k].position = p
                <5>1. Len(delivered) + k \in 1 .. Len(delivered')
                    BY <1>2, <1>5
                <5>2. delivered'[Len(delivered) + k] = sends[k] /\ sends[k].position = p
                    BY <1>4, <1>5, <4>1
                <5> QED BY <5>1, <5>2
            <4> QED BY <4>2 DEF Delivered
        <3>2. CASE Delivered(p)
            <4>1. PICK i \in 1 .. Len(delivered) : delivered[i].position = p
                BY <3>2 DEF Delivered
            <4>2. i \in 1 .. Len(delivered') /\ delivered'[i].position = p
                BY <1>2, <1>5, <4>1
            <4> QED BY <4>2 DEF Delivered
        <3> QED BY <2>1, <3>1, <3>2 DEF MailInv, Keeps
    <2> QED BY <1>1, <2>1 DEF Keeps, LaterMails, Mail!Mails, Mail!Kinds
<1> QED BY <1>7, <1>8, <1>9 DEF MailInv

LEMMA AbandonKeeps ==
    ASSUME MaxMailBuffer \in Nat, MailInv, Mail!CheckMailAbandoned
    PROVE  MailInv'
<1>1. /\ abandoned' = abandoned \cup {mail[i].position : i \in DOMAIN mail} /\ mail' = <<>>
      /\ UNCHANGED <<mailLog, next, delivered>>
    BY DEF Mail!CheckMailAbandoned
<1>2. DOMAIN mail = 1 .. Len(mail)
    BY DEF MailInv, Holds
<1>3. MailFits'
    BY <1>1 DEF MailInv, MailFits, IsReply, Mail!Kinds, MailReplies
<1>4. Holds(mail, next)'
    BY <1>1 DEF Holds
<1>5. Keeps(mail, next)'
    <2>1. ASSUME NEW p \in Mail!Mails, p < next
          PROVE  \/ Delivered(p) \/ p \in abandoned'
                 \/ Cardinality(LaterMails(p, next)) >= MaxMailBuffer
        <3>1. CASE Buffers(mail, p)
            BY <1>1, <1>2, <3>1 DEF Buffers
        <3> QED BY <1>1, <2>1, <3>1 DEF MailInv, Keeps
    <2> QED BY <1>1, <2>1 DEF Keeps, Delivered, LaterMails, Mail!Mails, Mail!Kinds
<1> QED BY <1>3, <1>4, <1>5 DEF MailInv

LEMMA RestartKeeps ==
    ASSUME MaxMailBuffer \in Nat, MailInv, Mail!Restart
    PROVE  MailInv'
<1>1. next' = 0 /\ mail' = <<>> /\ delivered' = <<>> /\ UNCHANGED mailLog
    BY DEF Mail!Restart
<1>2. MailFits'
    BY <1>1 DEF MailInv, MailFits, Mail!Kinds
<1>3. Holds(mail, next)'
    BY <1>1 DEF Holds
<1>4. \A p \in Mail!Mails : ~ (p < 0)
    BY MailsAre DEF MailInv, MailFits
<1>5. Keeps(mail, next)'
    BY <1>1, <1>4 DEF Keeps, Mail!Mails, Mail!Kinds
<1> QED BY <1>2, <1>3, <1>5 DEF MailInv

LEMMA MailInvNext ==
    ASSUME Mail!MailboxAssumption
    PROVE  MailInv /\ [Mail!Next]_(Mail!vars) => MailInv'
<1> SUFFICES ASSUME MailInv, [Mail!Next]_(Mail!vars) PROVE MailInv'
    OBVIOUS
<1>1. MaxMailBuffer \in Nat \ {0} /\ MaxMailBuffer \in Nat /\ MailPollLimit \in Nat \ {0}
    BY DEF Mail!MailboxAssumption
<1>2. CASE UNCHANGED Mail!vars
    <2>1. UNCHANGED <<mailLog, next, mail, delivered, abandoned>>
        BY <1>2 DEF Mail!vars
    <2>2. MailFits'
        BY <2>1 DEF MailInv, MailFits, IsReply, Mail!Kinds, MailReplies
    <2>3. Holds(mail, next)'
        BY <2>1 DEF MailInv, Holds, IsReply, Mail!Mails, Mail!Kinds, MailEntries
    <2>4. Keeps(mail, next)'
        BY <2>1 DEF MailInv, Keeps, Buffers, Delivered, LaterMails, Mail!Mails, Mail!Kinds
    <2> QED BY <2>2, <2>3, <2>4 DEF MailInv
<1>3. ASSUME NEW kind \in Mail!Kinds \cup {"other"}, Mail!SendMail(kind) PROVE MailInv'
    BY <1>1, <1>3, SendMailKeeps
<1>4. CASE Mail!PollAndReceive
    BY <1>1, <1>4, PollKeeps
<1>5. CASE Mail!CheckMail
    BY <1>1, <1>5, CheckMailKeeps
<1>6. CASE Mail!CheckMailAbandoned
    BY <1>1, <1>6, AbandonKeeps
<1>7. CASE Mail!Restart
    BY <1>1, <1>7, RestartKeeps
<1> QED BY <1>2, <1>3, <1>4, <1>5, <1>6, <1>7 DEF Mail!Next

LEMMA MailInvImplies == MailInv => MailArrives
<1> SUFFICES ASSUME MailInv PROVE MailArrives
    OBVIOUS
<1>1. /\ mail \in Seq(MailEntries) /\ Len(mail) \in Nat /\ DOMAIN mail = 1 .. Len(mail)
      /\ delivered \in Seq(MailReplies) /\ Len(delivered) \in Nat
      /\ DOMAIN delivered = 1 .. Len(delivered)
      /\ \A i \in 1 .. Len(mail) : mail[i] \in MailEntries
      /\ \A i \in 1 .. Len(delivered) : delivered[i] \in MailReplies
    BY DEF MailInv, MailFits, Holds
<1>2. /\ \A i \in 1 .. Len(mail) : mail[i].position \in Nat
      /\ \A i \in 1 .. Len(delivered) : delivered[i].position \in Nat
    BY <1>1 DEF MailEntries, MailReplies
<1>3. Mail!MailOnceInOrder
    <2> DEFINE a == [i \in DOMAIN delivered |-> delivered[i].position]
               b == [i \in DOMAIN mail |-> mail[i].position]
               all == a \o b
    <2>1. /\ a \in Seq(Nat) /\ Len(a) = Len(delivered) /\ b \in Seq(Nat) /\ Len(b) = Len(mail)
          /\ \A i \in 1 .. Len(delivered) : a[i] = delivered[i].position
          /\ \A i \in 1 .. Len(mail) : b[i] = mail[i].position
        <3>1. a \in [1 .. Len(delivered) -> Nat] /\ b \in [1 .. Len(mail) -> Nat]
            BY <1>1, <1>2
        <3> QED BY <1>1, <3>1
    <2> HIDE DEF a, b
    <2>2. /\ DOMAIN all = 1 .. (Len(delivered) + Len(mail))
          /\ \A i \in 1 .. Len(delivered) : all[i] = delivered[i].position
          /\ \A i \in 1 .. Len(mail) : all[Len(delivered) + i] = mail[i].position
        <3>1. /\ all \in Seq(Nat) /\ Len(all) = Len(delivered) + Len(mail)
              /\ \A i \in 1 .. (Len(delivered) + Len(mail)) :
                   all[i] = IF i <= Len(delivered) THEN a[i] ELSE b[i - Len(delivered)]
            <4>1. all \in Seq(Nat)
                BY <2>1
            <4>2. Len(all) = Len(delivered) + Len(mail)
                BY <2>1
            <4>3. \A i \in 1 .. (Len(a) + Len(b)) :
                   all[i] = IF i <= Len(a) THEN a[i] ELSE b[i - Len(a)]
                BY <2>1, ConcatProperties
            <4> HIDE DEF all
            <4> QED BY <2>1, <4>1, <4>2, <4>3
        <3>2. DOMAIN all = 1 .. (Len(delivered) + Len(mail))
            BY <3>1
        <3>3. ASSUME NEW i \in 1 .. Len(mail) PROVE all[Len(delivered) + i] = mail[i].position
            <4>1. /\ Len(delivered) + i \in 1 .. (Len(delivered) + Len(mail))
                  /\ ~ (Len(delivered) + i <= Len(delivered)) /\ (Len(delivered) + i) - Len(delivered) = i
                BY <1>1
            <4> QED BY <2>1, <3>1, <4>1
        <3>4. ASSUME NEW i \in 1 .. Len(delivered) PROVE all[i] = delivered[i].position
            <4>1. i \in 1 .. (Len(delivered) + Len(mail)) /\ i <= Len(delivered)
                BY <1>1
            <4> QED BY <2>1, <3>1, <4>1
        <3> QED BY <3>2, <3>3, <3>4
    <2> HIDE DEF all
    <2>3. ASSUME NEW i \in DOMAIN all, NEW j \in DOMAIN all, i < j PROVE all[i] < all[j]
        <3>1. CASE j \in 1 .. Len(delivered)
            <4>1. i \in 1 .. Len(delivered)
                BY <1>1, <2>2, <2>3, <3>1
            <4> QED BY <2>2, <2>3, <3>1, <4>1 DEF MailInv, MailFits
        <3>2. CASE j \notin 1 .. Len(delivered)
            <4>1. PICK k \in 1 .. Len(mail) : j = Len(delivered) + k
                <5>1. j - Len(delivered) \in 1 .. Len(mail) /\ j = Len(delivered) + (j - Len(delivered))
                    BY <1>1, <2>2, <3>2
                <5> QED BY <5>1
            <4>2. CASE i \in 1 .. Len(delivered)
                BY <2>2, <4>1, <4>2 DEF MailInv, Holds
            <4>3. CASE i \notin 1 .. Len(delivered)
                <5>1. PICK l \in 1 .. Len(mail) : i = Len(delivered) + l
                    <6>1. i - Len(delivered) \in 1 .. Len(mail) /\ i = Len(delivered) + (i - Len(delivered))
                        BY <1>1, <2>2, <4>3
                    <6> QED BY <6>1
                <5>2. l < k
                    BY <1>1, <2>3, <4>1, <5>1
                <5> QED BY <2>2, <4>1, <5>1, <5>2 DEF MailInv, Holds
            <4> QED BY <4>2, <4>3
        <3> QED BY <3>1, <3>2
    <2> QED BY <2>3 DEF Mail!MailOnceInOrder, all, a, b
<1>4. Mail!OnlyOverflowLoses
    <2> SUFFICES ASSUME NEW p \in Mail!Mails, p < next
                 PROVE  \/ \E i \in DOMAIN mail : mail[i].position = p
                        \/ \E i \in DOMAIN delivered : delivered[i].position = p
                        \/ p \in abandoned
                        \/ Mail!Cardinality({q \in Mail!Mails : p < q /\ q < next}) >= MaxMailBuffer
        BY DEF Mail!OnlyOverflowLoses
    <2>1. \/ Buffers(mail, p) \/ Delivered(p) \/ p \in abandoned
          \/ Cardinality(LaterMails(p, next)) >= MaxMailBuffer
        BY DEF MailInv, Keeps
    <2>2. Mail!Cardinality(LaterMails(p, next)) = Cardinality(LaterMails(p, next))
        BY MailCounts
    <2> QED BY <1>1, <2>1, <2>2 DEF Buffers, Delivered, LaterMails
<1>5. Mail!RepliesStayReplies
    BY <1>1 DEF Mail!RepliesStayReplies, MailInv, MailFits, IsReply
<1> QED BY <1>3, <1>4, <1>5 DEF MailArrives

(* Whatever arrives, is polled, drained, abandoned or restarted, and with  *)
(* any size of buffer and page: mail is received once, in order and as     *)
(* what it was sent, and a mail is lost only to a full buffer of newer     *)
(* ones (mailbox.rs).                                                      *)
THEOREM MailKeepsItsPromise ==
    ASSUME Mail!MailboxAssumption PROVE Mail!Spec => []MailArrives
<1>1. Mail!Init => MailInv
    BY MailInvInit DEF Mail!MailboxAssumption
<1>2. MailInv /\ [Mail!Next]_(Mail!vars) => MailInv'
    BY MailInvNext
<1>3. MailInv => MailArrives
    BY MailInvImplies
<1> QED BY <1>1, <1>2, <1>3, PTL DEF Mail!Spec

-----------------------------------------------------------------------------
(* The voters.                                                             *)

(* A voter that votes as the config that is in force for it says.          *)
Serves(v, config) ==
    \/ config \in Voting!LlmConfig /\ v = Voting!LlmVoter(config.prompt)
    \/ /\ config \in Voting!RuleConfig /\ v.kind = "rule_based"
       /\ \A bus \in BusIds, text \in Texts :
            Voting!EvaluateRules(v, bus, text) = Voting!ConfigAllows(config, bus, text)

VotesFit == Voting!VoteFollowsConfig /\ Voting!LlmPromptIsCurrent /\ Voting!LlmFailsClosed

(* What was installed was validated, and what was built is of its kind.    *)
FactoryFits ==
    /\ register # Voting!None => Voting!Validates(register)
    /\ instance # Voting!None => register # Voting!None /\ instance.kind = register.kind

VotersInv ==
    /\ file \in Seq(Voting!RuleConfig \cup Voting!LlmConfig)
    /\ DOMAIN accepted = DOMAIN voters
    /\ \A i \in DOMAIN voters : Serves(voters[i], accepted[i])
    /\ VotesFit
    /\ FactoryFits

LEMMA SubjectHits ==
    ASSUME NEW subject \in Voting!Subject({"exact", "prefix", "missing"}),
           subject.kind # "missing", NEW bus \in Voting!Text
    PROVE  Voting!SubjectMatches(subject, bus) <=>
             /\ Len(subject.id) <= Len(bus)
             /\ SubSeq(bus, 1, Len(subject.id)) = subject.id
             /\ subject.kind = "prefix" \/ Len(subject.id) = Len(bus)
<1>1. /\ subject.id \in Seq(STRING) /\ bus \in Seq(STRING) /\ subject.kind \in {"exact", "prefix"}
    BY DEF Voting!Subject, Voting!Text
<1>2. PICK id \in Seq(STRING) : id = subject.id
    BY <1>1
<1>3. SubSeq(id, 1, Len(id)) = id /\ SubSeq(bus, 1, Len(bus)) = bus /\ Len(id) \in Nat /\ Len(bus) \in Nat
    BY <1>1, SubSeqFull
<1>4. CASE subject.kind = "exact"
    <2>1. Voting!SubjectMatches(subject, bus) <=> bus = id
        BY <1>2, <1>4 DEF Voting!SubjectMatches
    <2>2. bus = id <=> /\ Len(id) <= Len(bus) /\ SubSeq(bus, 1, Len(id)) = id /\ Len(id) = Len(bus)
        <3>1. ASSUME bus = id
              PROVE  Len(id) <= Len(bus) /\ SubSeq(bus, 1, Len(id)) = id /\ Len(id) = Len(bus)
            BY <1>3, <3>1
        <3>2. ASSUME SubSeq(bus, 1, Len(id)) = id, Len(id) = Len(bus) PROVE bus = id
            BY <1>3, <3>2, Zenon
        <3> QED BY <3>1, <3>2
    <2> QED BY <1>2, <1>4, <2>1, <2>2
<1>5. CASE subject.kind = "prefix"
    <2>1. Voting!SubjectMatches(subject, bus) <=> Voting!IsPrefix(id, bus)
        BY <1>2, <1>5 DEF Voting!SubjectMatches
    <2>2. Voting!IsPrefix(id, bus) <=> Len(id) <= Len(bus) /\ SubSeq(id, 1, Len(id)) = SubSeq(bus, 1, Len(id))
        BY DEF Voting!IsPrefix
    <2> QED BY <1>2, <1>3, <1>5, <2>1, <2>2
<1> QED BY <1>1, <1>4, <1>5

LEMMA SubstringIs ==
    ASSUME NEW text \in Voting!Text, NEW pattern \in Voting!Text
    PROVE  Voting!HasSubstring(text, pattern) <=>
             \E i, j \in 0 .. Len(text) : i <= j /\ SubSeq(text, i + 1, j) = pattern
<1>1. /\ text \in Seq(STRING) /\ pattern \in Seq(STRING) /\ Len(text) \in Nat /\ Len(pattern) \in Nat
      /\ \A i \in 1 .. Len(text) : text[i] \in STRING
    BY DEF Voting!Text
<1>2. ASSUME NEW i \in 0 .. (Len(text) - Len(pattern)), SubSeq(text, i + 1, i + Len(pattern)) = pattern
      PROVE  \E k, j \in 0 .. Len(text) : k <= j /\ SubSeq(text, k + 1, j) = pattern
    <2>1. i \in 0 .. Len(text) /\ i + Len(pattern) \in 0 .. Len(text) /\ i <= i + Len(pattern)
        BY <1>1
    <2> QED BY <1>2, <2>1
<1>3. ASSUME NEW i \in 0 .. Len(text), NEW j \in 0 .. Len(text), i <= j, SubSeq(text, i + 1, j) = pattern
      PROVE  \E k \in 0 .. (Len(text) - Len(pattern)) : SubSeq(text, k + 1, k + Len(pattern)) = pattern
    <2>1. \A k \in (i + 1) .. j : text[k] \in STRING
        BY <1>1
    <2>2. i + 1 \in Int /\ j \in Int
        BY <1>1
    <2>3. Len(pattern) = IF i + 1 <= j THEN j - (i + 1) + 1 ELSE 0
        BY <1>3, <2>1, <2>2, SubSeqProperties
    <2>4. j = i + Len(pattern) /\ i \in 0 .. (Len(text) - Len(pattern))
        BY <1>1, <1>3, <2>2, <2>3
    <2> QED BY <1>3, <2>4
<1> QED BY <1>2, <1>3 DEF Voting!HasSubstring

(* A converted rule matches what the rule that was sent says.              *)
LEMMA RuleHitsSame ==
    ASSUME NEW raw \in Voting!ProtoRule, NEW bus \in Voting!Text, NEW text \in Voting!Text, NEW rule,
           rule.pattern = raw.pattern, rule.subjects = raw.subjects,
           rule.match = IF raw.match \in {"exact", "regex"} THEN raw.match ELSE "substring",
           \A i \in DOMAIN raw.subjects : raw.subjects[i].kind # "missing"
    PROVE  Voting!RuleMatches(rule, bus, text) <=> Voting!RuleHits(raw, bus, text)
<1>1. /\ raw.pattern \in Voting!Text
      /\ \A i \in DOMAIN raw.subjects :
           raw.subjects[i] \in Voting!Subject({"exact", "prefix", "missing"})
    BY DEF Voting!ProtoRule
<1> DEFINE On == raw.subjects = <<>> \/ \E i \in DOMAIN raw.subjects : Voting!SubjectMatches(raw.subjects[i], bus)
           Says == \/ raw.match = "exact" /\ text = raw.pattern
                   \/ raw.match = "regex" /\ <<raw.pattern, text>> \in RegexMatches
                   \/ raw.match \notin {"exact", "regex"} /\ Voting!HasSubstring(text, raw.pattern)
<1>2. Voting!RuleMatches(rule, bus, text) <=> On /\ Says
    <2>1. CASE raw.match = "exact"
        <3>1. rule.match = "exact"
            BY <2>1
        <3> QED BY <2>1, <3>1 DEF Voting!RuleMatches
    <2>2. CASE raw.match = "regex"
        <3>1. rule.match = "regex"
            BY <2>2
        <3> QED BY <2>2, <3>1 DEF Voting!RuleMatches
    <2>3. CASE raw.match \notin {"exact", "regex"}
        <3>1. rule.match = "substring"
            BY <2>3
        <3> QED BY <2>3, <3>1 DEF Voting!RuleMatches
    <2> QED BY <2>1, <2>2, <2>3
<1>3. On <=> \/ raw.subjects = <<>>
             \/ \E i \in DOMAIN raw.subjects :
                  /\ Len(raw.subjects[i].id) <= Len(bus)
                  /\ SubSeq(bus, 1, Len(raw.subjects[i].id)) = raw.subjects[i].id
                  /\ raw.subjects[i].kind = "prefix" \/ Len(raw.subjects[i].id) = Len(bus)
    <2>1. \A i \in DOMAIN raw.subjects :
            Voting!SubjectMatches(raw.subjects[i], bus) <=>
              /\ Len(raw.subjects[i].id) <= Len(bus)
              /\ SubSeq(bus, 1, Len(raw.subjects[i].id)) = raw.subjects[i].id
              /\ raw.subjects[i].kind = "prefix" \/ Len(raw.subjects[i].id) = Len(bus)
        BY <1>1, SubjectHits
    <2> QED BY <2>1
<1>4. Voting!HasSubstring(text, raw.pattern) <=>
        \E i, j \in 0 .. Len(text) : i <= j /\ SubSeq(text, i + 1, j) = raw.pattern
    BY <1>1, SubstringIs
<1> QED BY <1>2, <1>3, <1>4 DEF Voting!RuleHits

(* What is built from a config, sent as a message or read from the file.   *)
LEMMA BuiltAsConfigured ==
    ASSUME NEW config \in Voting!RuleConfig, NEW built,
           built = config \/ built = Voting!IntoInitialConfig(config),
           Voting!Accepts(built)
    PROVE  \A bus \in Voting!Text, text \in Voting!Text :
             Voting!EvaluateRules(Voting!RuleVoter(built), bus, text)
               = Voting!ConfigAllows(config, bus, text)
<1> SUFFICES ASSUME NEW bus \in Voting!Text, NEW text \in Voting!Text
             PROVE  Voting!EvaluateRules(Voting!RuleVoter(built), bus, text)
                      = Voting!ConfigAllows(config, bus, text)
    OBVIOUS
<1>1. /\ config.kind = "rule_based" /\ config.rules \in Seq(Voting!ProtoRule)
      /\ \A i \in DOMAIN config.rules : config.rules[i] \in Voting!ProtoRule
    BY DEF Voting!RuleConfig
<1>2. /\ DOMAIN built.rules = DOMAIN config.rules
      /\ built.default = "allow" <=> config.default = "allow"
      /\ \A i \in DOMAIN config.rules :
           /\ built.rules[i].pattern = config.rules[i].pattern
           /\ built.rules[i].action = config.rules[i].action
           /\ built.rules[i].subjects = config.rules[i].subjects
           /\ \/ built.rules[i].match = config.rules[i].match
              \/ built.rules[i].match = "substring" /\ config.rules[i].match = "absent"
    <2>1. CASE built = config
        BY <2>1
    <2>2. CASE built = Voting!IntoInitialConfig(config)
        <3>1. built = [kind |-> "rule_based",
                       default |-> IF config.default = "absent" THEN "deny" ELSE config.default,
                       rules |-> [i \in DOMAIN config.rules |-> Voting!RuleEntryToProto(config.rules[i])]]
            BY <1>1, <2>2 DEF Voting!IntoInitialConfig
        <3>2. \A i \in DOMAIN config.rules : built.rules[i] = Voting!RuleEntryToProto(config.rules[i])
            BY <3>1
        <3>3. ASSUME NEW i \in DOMAIN config.rules
              PROVE  /\ built.rules[i].pattern = config.rules[i].pattern
                     /\ built.rules[i].action = config.rules[i].action
                     /\ built.rules[i].subjects = config.rules[i].subjects
                     /\ \/ built.rules[i].match = config.rules[i].match
                        \/ built.rules[i].match = "substring" /\ config.rules[i].match = "absent"
            <4>1. PICK entry \in Voting!ProtoRule : entry = config.rules[i]
                BY <1>1
            <4>2. built.rules[i] = [entry EXCEPT !.match = IF @ = "absent" THEN "substring" ELSE @]
                BY <3>2, <4>1 DEF Voting!RuleEntryToProto
            <4> QED BY <4>1, <4>2 DEF Voting!ProtoRule
        <3> QED BY <3>1, <3>3
    <2> QED BY <2>1, <2>2
<1> DEFINE v == Voting!RuleVoter(built)
<1>3. /\ DOMAIN v.rules = DOMAIN config.rules
      /\ v.default = "allow" <=> config.default = "allow"
      /\ \A i \in DOMAIN config.rules : v.rules[i] = Voting!RuleFromProto(built.rules[i])
    BY <1>2 DEF Voting!RuleVoter, Voting!ActionFromProto
<1> HIDE DEF v
<1>4. ASSUME NEW i \in DOMAIN config.rules
      PROVE  /\ v.rules[i].action = IF config.rules[i].action = "allow" THEN "allow" ELSE "deny"
             /\ Voting!RuleMatches(v.rules[i], bus, text)
                  <=> Voting!RuleHits(config.rules[i], bus, text)
    <2>1. PICK raw \in Voting!ProtoRule : raw = config.rules[i]
        BY <1>1
    <2>2. PICK rule : rule = v.rules[i]
        OBVIOUS
    <2>3. rule = [pattern |-> built.rules[i].pattern,
                  action |-> Voting!ActionFromProto(built.rules[i].action),
                  match |-> IF built.rules[i].match \in {"exact", "regex"} THEN built.rules[i].match
                            ELSE "substring",
                  subjects |-> built.rules[i].subjects]
        BY <1>3, <2>2 DEF Voting!RuleFromProto
    <2>4. /\ rule.pattern = raw.pattern /\ rule.subjects = raw.subjects
          /\ rule.action = IF raw.action = "allow" THEN "allow" ELSE "deny"
        BY <1>2, <2>1, <2>3 DEF Voting!ActionFromProto
    <2>5. rule.match = IF raw.match \in {"exact", "regex"} THEN raw.match ELSE "substring"
        BY <1>2, <2>1, <2>3
    <2>6. \A j \in DOMAIN raw.subjects : raw.subjects[j].kind # "missing"
        <3>1. Voting!HasRule(built.rules[i])
            BY <1>2 DEF Voting!Accepts
        <3> QED BY <1>2, <2>1, <3>1 DEF Voting!HasRule
    <2>7. Voting!RuleMatches(rule, bus, text) <=> Voting!RuleHits(raw, bus, text)
        BY <2>4, <2>5, <2>6, RuleHitsSame
    <2> QED BY <2>1, <2>2, <2>4, <2>7
<1>5. Voting!EvaluateRules(v, bus, text) <=>
        /\ ~ \E i \in DOMAIN v.rules :
               v.rules[i].action = "deny" /\ Voting!RuleMatches(v.rules[i], bus, text)
        /\ \/ \E i \in DOMAIN v.rules :
                v.rules[i].action = "allow" /\ Voting!RuleMatches(v.rules[i], bus, text)
           \/ v.default = "allow"
    BY DEF Voting!EvaluateRules
<1>6. Voting!ConfigAllows(config, bus, text) <=>
        /\ \A i \in DOMAIN config.rules :
             Voting!RuleHits(config.rules[i], bus, text) => config.rules[i].action = "allow"
        /\ \/ \E i \in DOMAIN config.rules : Voting!RuleHits(config.rules[i], bus, text)
           \/ config.default = "allow"
    BY DEF Voting!ConfigAllows
<1>7. Voting!EvaluateRules(v, bus, text) <=> Voting!ConfigAllows(config, bus, text)
    BY <1>3, <1>4, <1>5, <1>6
<1>8. Voting!EvaluateRules(v, bus, text) = Voting!ConfigAllows(config, bus, text)
    BY <1>7 DEF Voting!EvaluateRules, Voting!ConfigAllows
<1> QED BY <1>8 DEF v

(* A config is accepted if, and only if, it is legal.                      *)
LEMMA AcceptsTheLegal ==
    ASSUME NEW config \in Voting!RuleConfig
    PROVE  Voting!Accepts(config) <=> Voting!Legal(config)
<1>1. \A i \in DOMAIN config.rules :
        /\ Voting!RuleFromProto(config.rules[i]).subjects = config.rules[i].subjects
        /\ Voting!RuleFromProto(config.rules[i]).pattern = config.rules[i].pattern
        /\ Voting!RuleFromProto(config.rules[i]).match = "regex" <=> config.rules[i].match = "regex"
    BY DEF Voting!RuleFromProto
<1> QED BY <1>1 DEF Voting!Accepts, Voting!Legal, Voting!HasRule, Voting!Compiles

LEMMA MinIs ==
    ASSUME NEW S \in SUBSET Nat, S # {}
    PROVE  Voting!Min(S) \in S /\ \A q \in S : Voting!Min(S) <= q
<1>1. PICK p \in S : \A q \in S : p <= q
    BY LeastOf
<1> QED BY <1>1 DEF Voting!Min

LEMMA MaxIs ==
    ASSUME NEW n \in Nat, NEW S \in SUBSET (1 .. n), S # {}
    PROVE  Voting!Max(S) \in S /\ \A q \in S : q <= Voting!Max(S)
<1>1. S \in SUBSET (0 .. ((n + 1) - 1)) /\ n + 1 \in Nat
    OBVIOUS
<1>2. PICK p \in S : \A q \in S : p >= q
    BY <1>1, GreatestOf
<1>3. Voting!Max(S) \in S /\ \A q \in S : Voting!Max(S) >= q
    BY <1>2 DEF Voting!Max
<1> QED BY <1>3

(* A safe answer: its first verdict is the word true.                      *)
LEMMA SafeAnswer ==
    ASSUME NEW a \in Seq(STRING), Voting!ParseSafety(a)
    PROVE  \E i, j, k \in DOMAIN a :
             /\ i < j /\ j < k
             /\ a[i] = "<safe>" /\ a[j] = "true" /\ a[k] = "</safe>"
             /\ \A n \in 1 .. (i - 1) : a[n] # "<safe>"
             /\ \A n \in (i + 1) .. (k - 1) : n # j => a[n] = "blank"
<1>1. Len(a) \in Nat /\ DOMAIN a = 1 .. Len(a) /\ \A n \in 1 .. Len(a) : a[n] \in STRING
    OBVIOUS
<1>2. PICK start : start = Voting!Find(a, "<safe>", 1)
    OBVIOUS
<1>3. PICK end : end = Voting!Find(a, "</safe>", start)
    OBVIOUS
<1>4. PICK inner : inner = SubSeq(a, start + 1, end - 1)
    OBVIOUS
<1>5. start # 0 /\ end # 0 /\ Voting!Trim(inner) = <<"true">>
    BY <1>2, <1>3, <1>4 DEF Voting!ParseSafety
<1>6. start \in 1 .. Len(a) /\ a[start] = "<safe>" /\ \A n \in 1 .. (start - 1) : a[n] # "<safe>"
    <2> DEFINE at == {n \in 1 .. Len(a) : a[n] = "<safe>"}
    <2>1. start = IF at = {} THEN 0 ELSE Voting!Min(at)
        BY <1>2 DEF Voting!Find
    <2>2. at # {} /\ start = Voting!Min(at)
        BY <1>5, <2>1
    <2>3. at \in SUBSET Nat
        OBVIOUS
    <2>4. start \in at /\ \A q \in at : start <= q
        BY <2>2, <2>3, MinIs
    <2>5. ASSUME NEW n \in 1 .. (start - 1), a[n] = "<safe>" PROVE FALSE
        <3>1. n \in at /\ ~ (start <= n)
            BY <1>1, <2>4, <2>5
        <3> QED BY <2>4, <3>1
    <2> QED BY <2>4, <2>5
<1>7. end \in start .. Len(a) /\ a[end] = "</safe>"
    <2> DEFINE at == {n \in start .. Len(a) : a[n] = "</safe>"}
    <2>1. end = IF at = {} THEN 0 ELSE Voting!Min(at)
        BY <1>3 DEF Voting!Find
    <2>2. at # {} /\ end = Voting!Min(at)
        BY <1>5, <2>1
    <2>3. at \in SUBSET Nat
        BY <1>6
    <2>4. end \in at
        BY <2>2, <2>3, MinIs
    <2> QED BY <2>4
<1>8. end # start /\ start < end
    BY <1>6, <1>7
<1>9. /\ inner \in Seq(STRING) /\ Len(inner) \in Nat /\ DOMAIN inner = 1 .. Len(inner)
      /\ Len(inner) = end - 1 - start
      /\ \A n \in 1 .. Len(inner) : inner[n] = a[start + n]
    <2>1. \A n \in (start + 1) .. (end - 1) : a[n] \in STRING
        BY <1>1, <1>6, <1>7
    <2>2. start + 1 \in Int /\ end - 1 \in Int
        BY <1>6, <1>7
    <2>3. /\ inner \in Seq(STRING)
          /\ Len(inner) = IF start + 1 <= end - 1 THEN (end - 1) - (start + 1) + 1 ELSE 0
          /\ \A n \in 1 .. ((end - 1) - (start + 1) + 1) : inner[n] = a[(start + 1) + n - 1]
        BY <1>4, <2>1, <2>2, SubSeqProperties
    <2>4. Len(inner) = end - 1 - start
        BY <1>6, <1>7, <1>8, <2>3
    <2>5. ASSUME NEW n \in 1 .. Len(inner) PROVE inner[n] = a[start + n]
        <3>1. n \in 1 .. ((end - 1) - (start + 1) + 1) /\ (start + 1) + n - 1 = start + n
            BY <1>6, <1>7, <1>8, <2>4
        <3>2. inner[n] = a[(start + 1) + n - 1]
            BY <2>3, <3>1
        <3> QED BY <3>1, <3>2
    <2> QED BY <2>3, <2>4, <2>5
<1>10. PICK m \in 1 .. Len(inner) :
         inner[m] = "true" /\ \A n \in 1 .. Len(inner) : n # m => inner[n] = "blank"
    <2> DEFINE kept == {n \in DOMAIN inner : inner[n] # "blank"}
    <2>1. Voting!Trim(inner) = IF kept = {} THEN <<>> ELSE SubSeq(inner, Voting!Min(kept), Voting!Max(kept))
        BY DEF Voting!Trim
    <2>2. kept # {}
        BY <1>5, <2>1
    <2>3. kept \in SUBSET Nat /\ kept \in SUBSET (1 .. Len(inner))
        BY <1>9
    <2>4. PICK lo \in kept : lo = Voting!Min(kept) /\ \A q \in kept : lo <= q
        BY <2>2, <2>3, MinIs
    <2>5. PICK hi \in kept : hi = Voting!Max(kept) /\ \A q \in kept : q <= hi
        BY <1>9, <2>2, <2>3, MaxIs
    <2>6. lo \in 1 .. Len(inner) /\ hi \in 1 .. Len(inner) /\ lo <= hi
        BY <2>3, <2>4, <2>5
    <2>7. SubSeq(inner, lo, hi) = <<"true">>
        BY <1>5, <2>1, <2>2, <2>4, <2>5
    <2>8. \A n \in lo .. hi : inner[n] \in STRING
        BY <1>9, <2>6
    <2>9. /\ Len(SubSeq(inner, lo, hi)) = IF lo <= hi THEN hi - lo + 1 ELSE 0
          /\ \A n \in 1 .. (hi - lo + 1) : SubSeq(inner, lo, hi)[n] = inner[lo + n - 1]
        <3>1. lo \in Int /\ hi \in Int
            BY <2>6
        <3> QED BY <2>8, <3>1, SubSeqProperties
    <2>10. hi = lo
        BY <2>6, <2>7, <2>9
    <2>11. inner[lo] = "true"
        <3>1. 1 \in 1 .. (hi - lo + 1) /\ lo + 1 - 1 = lo
            BY <2>6, <2>10
        <3>2. SubSeq(inner, lo, hi)[1] = inner[lo]
            BY <2>9, <3>1
        <3> QED BY <2>7, <3>2
    <2>12. ASSUME NEW n \in 1 .. Len(inner), n # lo PROVE inner[n] = "blank"
        <3> SUFFICES ASSUME inner[n] # "blank" PROVE FALSE
            OBVIOUS
        <3>1. n \in kept
            BY <1>9
        <3>2. lo <= n /\ n <= hi
            BY <2>4, <2>5, <3>1
        <3> QED BY <2>6, <2>10, <2>12, <3>2
    <2> QED BY <2>6, <2>11, <2>12
<1>11. PICK j : j = start + m
    OBVIOUS
<1>12. j \in 1 .. Len(a) /\ start < j /\ j < end /\ end \in 1 .. Len(a) /\ a[j] = "true"
    BY <1>1, <1>6, <1>7, <1>9, <1>10, <1>11
<1>13. ASSUME NEW n \in (start + 1) .. (end - 1), n # j PROVE a[n] = "blank"
    <2>1. n - start \in 1 .. Len(inner) /\ n - start # m /\ start + (n - start) = n
        BY <1>6, <1>7, <1>9, <1>11, <1>13
    <2> QED BY <1>9, <1>10, <2>1
<1> QED BY <1>1, <1>6, <1>7, <1>12, <1>13

LEMMA VotersInvInit == ASSUME Voting!VotersAssumption PROVE Voting!Init => VotersInv
<1> SUFFICES ASSUME Voting!Init PROVE VotersInv
    OBVIOUS
<1>1. file \in Seq(Voting!RuleConfig \cup Voting!LlmConfig)
    BY DEF Voting!Init, Voting!VotersAssumption
<1>2. voters = <<>> /\ accepted = <<>> /\ vote = [kind |-> "none"]
      /\ register = Voting!None /\ instance = Voting!None
    BY DEF Voting!Init, Voting!None
<1>3. vote.kind = "none"
    BY <1>2
<1>4. VotesFit
    BY <1>3 DEF VotesFit, Voting!VoteFollowsConfig, Voting!LlmPromptIsCurrent, Voting!LlmFailsClosed
<1> QED BY <1>1, <1>2, <1>4 DEF VotersInv, FactoryFits

LEMMA NoVote ==
    ASSUME vote' = Voting!None
    PROVE  VotesFit'
<1>1. vote'.kind = "none"
    BY DEF Voting!None
<1> QED BY <1>1 DEF VotesFit, Voting!VoteFollowsConfig, Voting!LlmPromptIsCurrent, Voting!LlmFailsClosed

LEMMA SameVote ==
    ASSUME VotesFit, UNCHANGED vote
    PROVE  VotesFit'
BY DEF VotesFit, Voting!VoteFollowsConfig, Voting!LlmPromptIsCurrent, Voting!LlmFailsClosed

LEMMA SameFactory ==
    ASSUME FactoryFits, UNCHANGED <<register, instance>>
    PROVE  FactoryFits'
<1>1. register' = register /\ instance' = instance
    OBVIOUS
<1>2. (register # Voting!None)' <=> register # Voting!None
    BY <1>1 DEF Voting!None
<1>3. (instance # Voting!None)' <=> instance # Voting!None
    BY <1>1 DEF Voting!None
<1>4. Voting!Validates(register)' <=> Voting!Validates(register)
    BY <1>1 DEF Voting!Validates, Voting!Accepts, Voting!HasRule, Voting!Compiles, Voting!RuleFromProto,
                Voting!ValidBusId, Voting!ValidIdChars, Voting!ActionFromProto
<1> QED BY <1>1, <1>2, <1>3, <1>4 DEF FactoryFits

LEMMA StartKeepsVoters ==
    ASSUME Voting!VotersAssumption, VotersInv, Voting!Start
    PROVE  VotersInv'
<1> DEFINE configs == [i \in DOMAIN file |-> Voting!IntoInitialConfig(file[i])]
           built == \A i \in DOMAIN configs : Voting!Builds(configs[i])
<1>1. /\ voters' = IF built THEN [i \in DOMAIN configs |-> Voting!BuildVoter(configs[i])] ELSE <<>>
      /\ accepted' = IF built THEN file ELSE <<>>
      /\ file' = <<>>
      /\ UNCHANGED <<vote, register, instance>>
    BY DEF Voting!Start
<1>2. file \in Seq(Voting!RuleConfig \cup Voting!LlmConfig)
    BY DEF VotersInv
<1>3. \A t \in Texts \cup BusIds : t \in Voting!Text
    BY DEF Voting!VotersAssumption
<1>4. VotesFit' /\ FactoryFits'
    BY <1>1, SameVote, SameFactory DEF VotersInv, VotesFit, FactoryFits
<1>5. file' \in Seq(Voting!RuleConfig \cup Voting!LlmConfig)
    BY <1>1
<1>6. ASSUME built, NEW i \in DOMAIN file
      PROVE  Serves(Voting!BuildVoter(configs[i]), file[i])
    <2>1. PICK config \in Voting!RuleConfig \cup Voting!LlmConfig : config = file[i]
        BY <1>2
    <2>2. configs[i] = Voting!IntoInitialConfig(config) /\ Voting!Builds(configs[i])
        BY <1>6, <2>1
    <2>3. CASE config \in Voting!LlmConfig
        <3>1. config.kind = "llm"
            BY <2>3 DEF Voting!LlmConfig
        <3>2. configs[i] = config
            BY <2>2, <3>1 DEF Voting!IntoInitialConfig
        <3>3. Voting!BuildVoter(configs[i]) = Voting!LlmVoter(config.prompt)
            BY <3>1, <3>2 DEF Voting!BuildVoter
        <3> QED BY <2>1, <2>3, <3>3 DEF Serves
    <2>4. CASE config \in Voting!RuleConfig
        <3>1. config.kind = "rule_based"
            BY <2>4 DEF Voting!RuleConfig
        <3>2. configs[i].kind = "rule_based"
            BY <2>2, <3>1 DEF Voting!IntoInitialConfig
        <3>3. Voting!BuildVoter(configs[i]) = Voting!RuleVoter(configs[i])
            BY <3>2 DEF Voting!BuildVoter
        <3>4. Voting!Accepts(configs[i])
            BY <2>2, <3>2 DEF Voting!Builds
        <3>5. \A bus \in Voting!Text, text \in Voting!Text :
                Voting!EvaluateRules(Voting!RuleVoter(configs[i]), bus, text)
                  = Voting!ConfigAllows(config, bus, text)
            BY <2>2, <2>4, <3>4, BuiltAsConfigured
        <3>6. Voting!RuleVoter(configs[i]).kind = "rule_based"
            BY DEF Voting!RuleVoter
        <3> QED BY <1>3, <2>1, <2>4, <3>3, <3>5, <3>6 DEF Serves
    <2> QED BY <2>3, <2>4
<1>7. CASE built
    <2>1. /\ voters' = [i \in DOMAIN file |-> Voting!BuildVoter(configs[i])] /\ accepted' = file
          /\ DOMAIN voters' = DOMAIN accepted'
        BY <1>1, <1>7
    <2>2. \A i \in DOMAIN voters' : Serves(voters'[i], accepted'[i])
        BY <1>6, <1>7, <2>1
    <2>3. (\A i \in DOMAIN voters : Serves(voters[i], accepted[i]))'
        BY <2>2 DEF Serves
    <2> QED BY <1>4, <1>5, <2>1, <2>3 DEF VotersInv, VotesFit, FactoryFits
<1>8. CASE ~built
    <2>1. voters' = <<>> /\ accepted' = <<>>
        BY <1>1, <1>8
    <2>2. (\A i \in DOMAIN voters : Serves(voters[i], accepted[i]))'
        BY <2>1
    <2>3. DOMAIN voters' = DOMAIN accepted'
        BY <2>1
    <2> QED BY <1>4, <1>5, <2>2, <2>3 DEF VotersInv, VotesFit, FactoryFits
<1> QED BY <1>7, <1>8

(* A voter and its accepted config change together.                        *)
LEMMA VoterReplaced ==
    ASSUME VotersInv, NEW i \in DOMAIN voters, NEW v, NEW config, Serves(v, config),
           voters' = [voters EXCEPT ![i] = v], accepted' = [accepted EXCEPT ![i] = config],
           vote' = Voting!None, UNCHANGED <<phase, file, register, instance>>
    PROVE  VotersInv'
<1>1. VotesFit' /\ FactoryFits'
    BY NoVote, SameFactory DEF VotersInv, FactoryFits
<1>2. /\ DOMAIN voters' = DOMAIN voters /\ DOMAIN accepted' = DOMAIN voters
      /\ \A j \in DOMAIN voters : voters'[j] = IF j = i THEN v ELSE voters[j]
      /\ \A j \in DOMAIN voters : accepted'[j] = IF j = i THEN config ELSE accepted[j]
    BY DEF VotersInv
<1>3. \A j \in DOMAIN voters' : Serves(voters'[j], accepted'[j])
    BY <1>2 DEF VotersInv
<1>4. (\A j \in DOMAIN voters : Serves(voters[j], accepted[j]))'
    BY <1>3 DEF Serves
<1>5. file' \in Seq(Voting!RuleConfig \cup Voting!LlmConfig)
    BY DEF VotersInv
<1> QED BY <1>1, <1>2, <1>4, <1>5 DEF VotersInv, VotesFit, FactoryFits

LEMMA SameVoters ==
    ASSUME VotersInv, UNCHANGED <<file, voters, accepted>>, VotesFit', FactoryFits'
    PROVE  VotersInv'
<1>1. \A j \in DOMAIN voters' : Serves(voters'[j], accepted'[j])
    BY DEF VotersInv
<1>2. (\A j \in DOMAIN voters : Serves(voters[j], accepted[j]))'
    BY <1>1 DEF Serves
<1>3. file' \in Seq(Voting!RuleConfig \cup Voting!LlmConfig) /\ DOMAIN accepted' = DOMAIN voters'
    BY DEF VotersInv
<1> QED BY <1>2, <1>3 DEF VotersInv, VotesFit, FactoryFits

LEMMA ApplyRulesKeepsVoters ==
    ASSUME Voting!VotersAssumption, VotersInv, NEW i \in DOMAIN voters, NEW config \in RuleConfigs,
           Voting!ApplyRules(i, config)
    PROVE  VotersInv'
<1>1. config \in Voting!RuleConfig /\ \A t \in Texts \cup BusIds : t \in Voting!Text
    BY DEF Voting!VotersAssumption
<1>2. /\ voters' = IF Voting!Accepts(config) THEN [voters EXCEPT ![i] = Voting!RuleVoter(config)] ELSE voters
      /\ accepted' = IF Voting!Legal(config) THEN [accepted EXCEPT ![i] = config] ELSE accepted
      /\ vote' = Voting!None
      /\ UNCHANGED <<phase, file, register, instance>>
    BY DEF Voting!ApplyRules
<1>3. CASE Voting!Accepts(config)
    <2>1. Voting!Legal(config)
        BY <1>1, <1>3, AcceptsTheLegal
    <2>2. \A bus \in BusIds, text \in Texts :
            Voting!EvaluateRules(Voting!RuleVoter(config), bus, text)
              = Voting!ConfigAllows(config, bus, text)
        BY <1>1, <1>3, BuiltAsConfigured
    <2>3. Voting!RuleVoter(config).kind = "rule_based"
        BY DEF Voting!RuleVoter
    <2>4. Serves(Voting!RuleVoter(config), config)
        BY <1>1, <2>2, <2>3 DEF Serves
    <2> QED BY <1>2, <1>3, <2>1, <2>4, VoterReplaced
<1>4. CASE ~ Voting!Accepts(config)
    <2>1. ~ Voting!Legal(config)
        BY <1>1, <1>4, AcceptsTheLegal
    <2>2. VotesFit' /\ FactoryFits'
        BY <1>2, NoVote, SameFactory DEF VotersInv, FactoryFits
    <2> QED BY <1>2, <1>4, <2>1, <2>2, SameVoters
<1> QED BY <1>3, <1>4

LEMMA ApplyLlmKeepsVoters ==
    ASSUME Voting!VotersAssumption, VotersInv, NEW i \in DOMAIN voters, NEW prompt \in Prompts,
           Voting!ApplyLlm(i, prompt)
    PROVE  VotersInv'
<1> DEFINE config == [kind |-> "llm", prompt |-> prompt]
<1>1. prompt \in Voting!Text
    BY DEF Voting!VotersAssumption
<1>2. config \in Voting!LlmConfig /\ config.prompt = prompt
    BY <1>1 DEF Voting!LlmConfig
<1>3. /\ voters' = [voters EXCEPT ![i] = Voting!LlmVoter(prompt)]
      /\ accepted' = [accepted EXCEPT ![i] = config]
      /\ vote' = Voting!None
      /\ UNCHANGED <<phase, file, register, instance>>
    BY DEF Voting!ApplyLlm, Voting!Override
<1> HIDE DEF config
<1>4. Serves(Voting!LlmVoter(prompt), config)
    BY <1>2 DEF Serves
<1> QED BY <1>3, <1>4, VoterReplaced

LEMMA EvaluateByRulesKeepsVoters ==
    ASSUME Voting!VotersAssumption, VotersInv, NEW i \in DOMAIN voters, NEW bus \in BusIds, NEW text \in Texts,
           Voting!EvaluateByRules(i, bus, text)
    PROVE  VotersInv'
<1>1. /\ voters[i].kind = "rule_based"
      /\ vote' = [kind |-> "rule_based", basis |-> accepted[i], bus |-> bus, text |-> text,
                  safe |-> Voting!EvaluateRules(voters[i], bus, text)]
      /\ UNCHANGED <<phase, file, voters, accepted, register, instance>>
    BY DEF Voting!EvaluateByRules
<1>2. Serves(voters[i], accepted[i])
    BY DEF VotersInv
<1>3. Voting!LlmVoter(accepted[i].prompt).kind = "llm"
    BY DEF Voting!LlmVoter
<1>4. Voting!EvaluateRules(voters[i], bus, text) = Voting!ConfigAllows(accepted[i], bus, text)
    BY <1>1, <1>2, <1>3 DEF Serves
<1>5. /\ vote'.kind = "rule_based" /\ vote'.basis = accepted[i] /\ vote'.bus = bus /\ vote'.text = text
      /\ vote'.safe = Voting!EvaluateRules(voters[i], bus, text)
    BY <1>1
<1>6. vote'.safe = Voting!ConfigAllows(vote'.basis, vote'.bus, vote'.text)
    BY <1>4, <1>5
<1>7. VotesFit'
    BY <1>5, <1>6 DEF VotesFit, Voting!VoteFollowsConfig, Voting!LlmPromptIsCurrent, Voting!LlmFailsClosed
<1>8. FactoryFits'
    BY <1>1, SameFactory DEF VotersInv, FactoryFits
<1> QED BY <1>1, <1>7, <1>8, SameVoters

LEMMA EvaluateByLlmKeepsVoters ==
    ASSUME Voting!VotersAssumption, VotersInv, NEW i \in DOMAIN voters, NEW outcome \in Voting!Outcomes,
           Voting!EvaluateByLlm(i, outcome)
    PROVE  VotersInv'
<1>1. /\ voters[i].kind = "llm"
      /\ vote' = [kind |-> "llm", basis |-> accepted[i], prompt |-> voters[i].prompt,
                  outcome |-> outcome, safe |-> Voting!EvaluateWithLlm(outcome)]
      /\ UNCHANGED <<phase, file, voters, accepted, register, instance>>
    BY DEF Voting!EvaluateByLlm
<1>2. Serves(voters[i], accepted[i])
    BY DEF VotersInv
<1>3. voters[i].prompt = accepted[i].prompt
    BY <1>1, <1>2 DEF Serves, Voting!LlmVoter
<1>4. /\ vote'.kind = "llm" /\ vote'.basis = accepted[i] /\ vote'.prompt = voters[i].prompt
      /\ vote'.outcome = outcome /\ vote'.safe = Voting!EvaluateWithLlm(outcome)
    BY <1>1
<1>5. outcome.answer \in Seq(STRING)
    <2>1. CASE \E a \in Answers : outcome = [error |-> "ok", answer |-> a]
        BY <2>1 DEF Voting!VotersAssumption
    <2>2. CASE \E e \in Voting!Failures : outcome = [error |-> e, answer |-> <<>>]
        <3>1. outcome.answer = <<>>
            BY <2>2
        <3> QED BY <3>1
    <2>3. \/ \E a \in Answers : outcome = [error |-> "ok", answer |-> a]
          \/ \E e \in Voting!Failures : outcome = [error |-> e, answer |-> <<>>]
        BY DEF Voting!Outcomes
    <2> QED BY <2>1, <2>2, <2>3
<1>6. Voting!LlmFailsClosed'
    <2>1. CASE ~ Voting!EvaluateWithLlm(outcome)
        BY <1>4, <2>1 DEF Voting!LlmFailsClosed
    <2>2. CASE Voting!EvaluateWithLlm(outcome)
        <3>1. PICK a \in Seq(STRING) : a = outcome.answer /\ Voting!ParseSafety(a) /\ outcome.error = "ok"
            BY <1>5, <2>2 DEF Voting!EvaluateWithLlm
        <3>2. \E j, k, l \in DOMAIN a :
                /\ j < k /\ k < l
                /\ a[j] = "<safe>" /\ a[k] = "true" /\ a[l] = "</safe>"
                /\ \A n \in 1 .. (j - 1) : a[n] # "<safe>"
                /\ \A n \in (j + 1) .. (l - 1) : n # k => a[n] = "blank"
            BY <3>1, SafeAnswer
        <3>3. vote'.outcome.answer = a /\ vote'.outcome.error = "ok"
            BY <1>4, <3>1
        <3> QED BY <3>2, <3>3 DEF Voting!LlmFailsClosed
    <2> QED BY <2>1, <2>2
<1>7. VotesFit'
    BY <1>3, <1>4, <1>6 DEF VotesFit, Voting!VoteFollowsConfig, Voting!LlmPromptIsCurrent
<1>8. FactoryFits'
    BY <1>1, SameFactory DEF VotersInv, FactoryFits
<1> QED BY <1>1, <1>7, <1>8, SameVoters

LEMMA ValidateKeepsVoters ==
    ASSUME VotersInv, NEW config \in FactoryConfigs, Voting!ValidateConfig(config)
    PROVE  VotersInv'
<1>1. /\ register = Voting!None /\ Voting!Validates(config) /\ register' = config
      /\ UNCHANGED <<phase, file, voters, accepted, vote, instance>>
    BY DEF Voting!ValidateConfig
<1>2. instance' = Voting!None
    BY <1>1 DEF VotersInv, FactoryFits
<1>3. Voting!Validates(register')
    BY <1>1
<1>4. FactoryFits'
    BY <1>2, <1>3 DEF FactoryFits, Voting!None, Voting!Validates, Voting!Accepts, Voting!HasRule,
                      Voting!Compiles, Voting!RuleFromProto, Voting!ActionFromProto,
                      Voting!ValidBusId, Voting!ValidIdChars
<1>5. VotesFit'
    BY <1>1, SameVote DEF VotersInv, VotesFit
<1> QED BY <1>1, <1>4, <1>5, SameVoters

LEMMA CreateKeepsVoters ==
    ASSUME VotersInv, Voting!CreateVoter
    PROVE  VotersInv'
<1>1. /\ register # Voting!None
      /\ instance' = CASE register.kind = "llm" -> Voting!LlmVoter(register.prompt)
                       [] register.kind = "rule_based" /\ Voting!Accepts(register) -> Voting!RuleVoter(register)
                       [] OTHER -> [kind |-> "error"]
      /\ UNCHANGED <<phase, file, voters, accepted, vote, register>>
    BY DEF Voting!CreateVoter
<1>2. \/ register.kind = "llm"
      \/ register.kind = "rule_based" /\ Voting!Accepts(register)
    BY <1>1 DEF VotersInv, FactoryFits, Voting!Validates
<1>3. ASSUME register.kind = "llm" PROVE instance'.kind = register.kind
    <2>1. instance' = Voting!LlmVoter(register.prompt)
        BY <1>1, <1>3
    <2>2. instance'.kind = register.kind
        BY <1>3, <2>1 DEF Voting!LlmVoter
    <2> QED BY <2>2
<1>4. ASSUME register.kind # "llm" PROVE instance'.kind = register.kind
    <2>1. register.kind = "rule_based" /\ Voting!Accepts(register)
        BY <1>2, <1>4
    <2>2. instance' = Voting!RuleVoter(register)
        BY <1>1, <2>1
    <2> QED BY <2>1, <2>2 DEF Voting!RuleVoter
<1>5. instance'.kind = register.kind
    BY <1>3, <1>4
<1>6. FactoryFits'
    <2>1. Voting!Validates(register)
        BY <1>1 DEF VotersInv, FactoryFits
    <2>2. register' = register /\ (register # Voting!None)'
        BY <1>1 DEF Voting!None
    <2>3. register' = register
        BY <1>1
    <2>4. Voting!Validates(register)' <=> Voting!Validates(register)
        BY <2>3 DEF Voting!Validates, Voting!Accepts, Voting!HasRule, Voting!Compiles,
             Voting!RuleFromProto, Voting!ActionFromProto, Voting!ValidBusId, Voting!ValidIdChars
    <2> QED BY <1>5, <2>1, <2>2, <2>4 DEF FactoryFits
<1>7. VotesFit'
    BY <1>1, SameVote DEF VotersInv, VotesFit
<1> QED BY <1>1, <1>6, <1>7, SameVoters

LEMMA VotersInvNext ==
    ASSUME Voting!VotersAssumption
    PROVE  VotersInv /\ [Voting!Next]_(Voting!vars) => VotersInv'
<1> SUFFICES ASSUME VotersInv, [Voting!Next]_(Voting!vars) PROVE VotersInv'
    OBVIOUS
<1>1. CASE UNCHANGED Voting!vars
    <2>1. UNCHANGED <<file, voters, accepted>> /\ UNCHANGED vote /\ UNCHANGED <<register, instance>>
        BY <1>1 DEF Voting!vars
    <2> QED BY <2>1, SameVote, SameFactory, SameVoters DEF VotersInv, VotesFit, FactoryFits
<1>2. CASE Voting!Start
    BY <1>2, StartKeepsVoters
<1>3. ASSUME NEW i \in DOMAIN voters, NEW c \in RuleConfigs, Voting!ApplyRules(i, c) PROVE VotersInv'
    BY <1>3, ApplyRulesKeepsVoters
<1>4. ASSUME NEW i \in DOMAIN voters, NEW p \in Prompts, Voting!ApplyLlm(i, p) PROVE VotersInv'
    BY <1>4, ApplyLlmKeepsVoters
<1>5. ASSUME NEW i \in DOMAIN voters, NEW b \in BusIds, NEW t \in Texts, Voting!EvaluateByRules(i, b, t)
      PROVE  VotersInv'
    BY <1>5, EvaluateByRulesKeepsVoters
<1>6. ASSUME NEW i \in DOMAIN voters, NEW o \in Voting!Outcomes, Voting!EvaluateByLlm(i, o) PROVE VotersInv'
    BY <1>6, EvaluateByLlmKeepsVoters
<1>7. ASSUME NEW c \in FactoryConfigs, Voting!ValidateConfig(c) PROVE VotersInv'
    BY <1>7, ValidateKeepsVoters
<1>8. CASE Voting!CreateVoter
    BY <1>8, CreateKeepsVoters
<1> QED BY <1>1, <1>2, <1>3, <1>4, <1>5, <1>6, <1>7, <1>8 DEF Voting!Next

LEMMA VotersInvImplies == VotersInv => VotersFollowConfig
BY DEF VotersInv, VotesFit, FactoryFits, VotersFollowConfig, Voting!ValidatedConfigsBuild

(* Whatever configs, overrides, intentions and answers come: a rule-based  *)
(* vote is what the last legal config says, for every spelling of it; an   *)
(* LLM vote is under the latest override and safe only on an answer whose  *)
(* first verdict is the word true; and what the factory validated it can   *)
(* build (voters/rule-based, voters/llm, the voter factory).               *)
THEOREM VotersObeyTheirConfigs ==
    ASSUME Voting!VotersAssumption PROVE Voting!Spec => []VotersFollowConfig
<1>1. Voting!Init => VotersInv
    BY VotersInvInit
<1>2. VotersInv /\ [Voting!Next]_(Voting!vars) => VotersInv'
    BY VotersInvNext
<1>3. VotersInv => VotersFollowConfig
    BY VotersInvImplies
<1> QED BY <1>1, <1>2, <1>3, PTL DEF Voting!Spec

-----------------------------------------------------------------------------
(* Sets of positions in order: the rank of a member is the number of       *)
(* smaller ones.                                                           *)

Rank(S, p) == Cardinality({q \in S : q < p})

LEMMA PositionsAreFinite ==
    ASSUME NEW n \in Nat, NEW S \in SUBSET (0 .. (n - 1))
    PROVE  /\ IsFiniteSet(S) /\ Cardinality(S) \in Nat
           /\ \A p : /\ IsFiniteSet({q \in S : q < p}) /\ IsFiniteSet({q \in S : q <= p})
                     /\ Rank(S, p) \in Nat /\ Cardinality({q \in S : q <= p}) \in Nat
<1>1. IsFiniteSet(0 .. (n - 1))
    BY FS_Interval
<1>2. \A T \in SUBSET (0 .. (n - 1)) : IsFiniteSet(T) /\ Cardinality(T) \in Nat
    BY <1>1, FS_Subset, FS_CardinalityType
<1>3. \A p : {q \in S : q < p} \in SUBSET (0 .. (n - 1)) /\ {q \in S : q <= p} \in SUBSET (0 .. (n - 1))
    OBVIOUS
<1> QED BY <1>2, <1>3 DEF Rank

LEMMA SizeOfUnion ==
    ASSUME NEW A, NEW B, IsFiniteSet(A), IsFiniteSet(B), A \cap B = {}
    PROVE  Cardinality(A \cup B) = Cardinality(A) + Cardinality(B)
<1>1. Cardinality(A \cup B) = Cardinality(A) + Cardinality(B) - Cardinality(A \cap B)
    BY FS_Union
<1>2. Cardinality(A \cap B) = 0
    BY FS_EmptySet
<1>3. Cardinality(A) \in Nat /\ Cardinality(B) \in Nat
    BY FS_CardinalityType
<1> QED BY <1>1, <1>2, <1>3

(* A member is one more than those before it.                              *)
LEMMA RankNext ==
    ASSUME NEW n \in Nat, NEW S \in SUBSET (0 .. (n - 1)), NEW p \in S
    PROVE  Cardinality({q \in S : q <= p}) = Rank(S, p) + 1
<1> DEFINE low == {q \in S : q < p}
<1>0. \A q \in S : q \in Nat
    OBVIOUS
<1>1. {q \in S : q <= p} = low \cup {p} /\ p \notin low
    <2>1. \A q \in S : q <= p <=> q < p \/ q = p
        BY <1>0
    <2>2. ~ (p < p)
        BY <1>0
    <2> QED BY <2>1, <2>2
<1>2. IsFiniteSet(low)
    BY PositionsAreFinite
<1> HIDE DEF low
<1>3. Cardinality(low \cup {p}) = Cardinality(low) + 1
    BY <1>1, <1>2, FS_AddElement
<1> QED BY <1>1, <1>3 DEF Rank, low

LEMMA RankGrows ==
    ASSUME NEW n \in Nat, NEW S \in SUBSET (0 .. (n - 1)), NEW p \in S, NEW q \in S, p < q
    PROVE  Rank(S, p) < Rank(S, q)
<1> DEFINE upto == {x \in S : x <= p}
           low  == {x \in S : x < q}
<1>1. upto \subseteq low
    <2>1. \A x \in S : x \in Nat
        OBVIOUS
    <2>2. \A x \in S : x <= p => x < q
        BY <2>1
    <2> QED BY <2>2
<1>2. IsFiniteSet(low) /\ Rank(S, p) \in Nat /\ Rank(S, q) \in Nat
    BY PositionsAreFinite
<1>3. Cardinality(upto) <= Cardinality(low)
    BY <1>1, <1>2, FS_Subset
<1>4. Cardinality(upto) = Rank(S, p) + 1
    BY RankNext
<1>5. Cardinality(low) = Rank(S, q)
    BY DEF Rank
<1> HIDE DEF upto, low
<1> QED BY <1>2, <1>3, <1>4, <1>5

LEMMA RankSmall ==
    ASSUME NEW n \in Nat, NEW S \in SUBSET (0 .. (n - 1)), NEW p \in S
    PROVE  Rank(S, p) < Cardinality(S)
<1>1. Cardinality({q \in S : q <= p}) <= Cardinality(S)
    BY PositionsAreFinite, FS_Subset
<1>2. Rank(S, p) \in Nat /\ Cardinality(S) \in Nat
    BY PositionsAreFinite
<1>3. Cardinality({q \in S : q <= p}) = Rank(S, p) + 1
    BY RankNext
<1> QED BY <1>1, <1>2, <1>3

(* Every rank below the size is somebody's: the least member with enough   *)
(* members up to it.                                                       *)
LEMMA RankExists ==
    ASSUME NEW n \in Nat, NEW S \in SUBSET (0 .. (n - 1)), NEW i \in 1 .. Cardinality(S)
    PROVE  \E p \in S : Rank(S, p) = i - 1
<1> DEFINE Upto(p) == {q \in S : q <= p}
           T == {p \in S : Cardinality(Upto(p)) >= i}
<1>1. IsFiniteSet(S) /\ Cardinality(S) \in Nat
    BY PositionsAreFinite
<1>2. i \in Nat /\ 1 <= i /\ i <= Cardinality(S) /\ \A q \in S : q \in Nat
    BY <1>1
<1>3. S # {}
    BY <1>2, FS_EmptySet
<1>4. PICK g \in S : \A q \in S : q <= g
    BY <1>3, GreatestOf
<1>5. Upto(g) = S
    BY <1>4
<1>6. g \in T /\ T \in SUBSET Nat
    <2>1. Cardinality(Upto(g)) >= i
        BY <1>1, <1>2, <1>5
    <2>2. T \in SUBSET Nat
        BY <1>2
    <2> QED BY <1>4, <2>1, <2>2
<1>7. PICK p \in T : \A q \in T : p <= q
    BY <1>6, LeastOf
<1>8. p \in S /\ p \in Nat /\ Cardinality(Upto(p)) >= i
    BY <1>7
<1>9. Cardinality(Upto(p)) = Rank(S, p) + 1 /\ Rank(S, p) \in Nat
    BY <1>8, RankNext, PositionsAreFinite
<1>10. CASE Rank(S, p) = i - 1
    BY <1>8, <1>10
<1>11. CASE Rank(S, p) # i - 1
    <2> DEFINE low == {q \in S : q < p}
    <2>1. Cardinality(low) >= i
        BY <1>2, <1>8, <1>9, <1>11 DEF Rank
    <2>2. low # {}
        BY <1>2, <2>1, FS_EmptySet
    <2>3. low \in SUBSET (0 .. (n - 1))
        OBVIOUS
    <2>4. PICK h \in low : \A q \in low : q <= h
        BY <2>2, <2>3, GreatestOf
    <2>5. h \in S /\ h < p /\ h \in Nat
        BY <1>2, <2>4
    <2>6. \A q \in S : q <= h <=> q < p
        BY <1>2, <1>8, <2>4, <2>5
    <2>7. Upto(h) = low
        BY <2>6
    <2>8. h \in T
        BY <2>1, <2>5, <2>7
    <2>9. p <= h
        BY <1>7, <2>8
    <2> QED BY <1>8, <2>5, <2>9
<1> QED BY <1>10, <1>11

-----------------------------------------------------------------------------
(* InOrder.                                                                *)

(* SimpleBus counts with the operators of its own FiniteSets.              *)
LEMMA SimpleCounts == \A S : Simple!Cardinality(S) = Cardinality(S)
BY DEF Cardinality, Simple!Cardinality, IsFiniteSet, Simple!IsFiniteSet

LEMMA InOrderAt ==
    ASSUME NEW n \in Nat, NEW S \in SUBSET (0 .. (n - 1))
    PROVE  /\ Simple!InOrder(S) \in Seq(Nat) /\ Len(Simple!InOrder(S)) = Cardinality(S)
           /\ \A i \in 1 .. Cardinality(S) :
                Simple!InOrder(S)[i] \in S /\ Rank(S, Simple!InOrder(S)[i]) = i - 1
<1> DEFINE f == Simple!InOrder(S)
           At_(i) == CHOOSE p \in S : Simple!Cardinality({q \in S : q < p}) = i - 1
<1>1. f = [i \in 1 .. Simple!Cardinality(S) |-> At_(i)]
    BY DEF Simple!InOrder
<1>0. Simple!Cardinality(S) = Cardinality(S)
    BY SimpleCounts
<1>2. \A i \in 1 .. Cardinality(S) : At_(i) \in S /\ Rank(S, At_(i)) = i - 1
    <2> SUFFICES ASSUME NEW i \in 1 .. Cardinality(S)
                 PROVE  At_(i) \in S /\ Rank(S, At_(i)) = i - 1
        OBVIOUS
    <2>1. PICK p \in S : Rank(S, p) = i - 1
        BY RankExists
    <2>2. Simple!Cardinality({q \in S : q < p}) = i - 1
        BY <2>1, SimpleCounts DEF Rank
    <2>3. At_(i) \in S /\ Simple!Cardinality({q \in S : q < At_(i)}) = i - 1
        BY <2>2
    <2> QED BY <2>3, SimpleCounts DEF Rank
<1>3. Cardinality(S) \in Nat
    BY PositionsAreFinite
<1> HIDE DEF f, At_
<1>4. \A i \in 1 .. Cardinality(S) : f[i] = At_(i)
    BY <1>0, <1>1
<1>5. \A i \in 1 .. Cardinality(S) : f[i] \in S /\ Rank(S, f[i]) = i - 1
    BY <1>2, <1>4
<1>6. f \in [1 .. Cardinality(S) -> Nat]
    <2>1. \A p \in S : p \in Nat
        OBVIOUS
    <2> QED BY <1>0, <1>1, <1>4, <1>5, <2>1
<1>7. f \in Seq(Nat) /\ Len(f) = Cardinality(S)
    BY <1>3, <1>6
<1> QED BY <1>5, <1>7 DEF f

(* The members of a set of positions up to a position come before the      *)
(* others.                                                                 *)
LEMMA InOrderJoin ==
    ASSUME NEW n \in Nat, NEW m \in Nat, m <= n,
           NEW A \in SUBSET (0 .. (m - 1)), NEW B \in SUBSET (m .. (n - 1))
    PROVE  Simple!InOrder(A \cup B) = Simple!InOrder(A) \o Simple!InOrder(B)
<1> DEFINE U == A \cup B
           a == Cardinality(A)
           b == Cardinality(B)
           f == Simple!InOrder(A)
           g == Simple!InOrder(B)
           h == Simple!InOrder(U)
<1>1. A \in SUBSET (0 .. (n - 1)) /\ B \in SUBSET (0 .. (n - 1)) /\ U \in SUBSET (0 .. (n - 1))
    OBVIOUS
<1>2. /\ \A p \in A : p \in Nat /\ p < m
      /\ \A p \in B : p \in Nat /\ m <= p
      /\ \A p : p \in U <=> p \in A \/ p \in B
    OBVIOUS
<1>3. A \cap B = {}
    BY <1>2
<1>4. /\ IsFiniteSet(A) /\ IsFiniteSet(B) /\ a \in Nat /\ b \in Nat
      /\ \A p : Rank(A, p) \in Nat /\ Rank(B, p) \in Nat /\ IsFiniteSet({q \in B : q < p})
    BY <1>1, PositionsAreFinite
<1>5. Cardinality(U) = a + b
    BY <1>3, <1>4, SizeOfUnion
<1>6. \A p \in A : Rank(U, p) = Rank(A, p)
    <2> SUFFICES ASSUME NEW p \in A PROVE {q \in U : q < p} = {q \in A : q < p}
        BY DEF Rank
    <2>1. \A q \in B : ~ (q < p)
        BY <1>2
    <2> QED BY <1>2, <2>1
<1>7. \A p \in B : Rank(U, p) = a + Rank(B, p)
    <2> SUFFICES ASSUME NEW p \in B PROVE Rank(U, p) = a + Rank(B, p)
        OBVIOUS
    <2>1. \A q \in A : q < p
        BY <1>2
    <2>2. {q \in U : q < p} = A \cup {q \in B : q < p}
        BY <1>2, <2>1
    <2>3. A \cap {q \in B : q < p} = {}
        BY <1>3
    <2>4. Cardinality(A \cup {q \in B : q < p}) = a + Cardinality({q \in B : q < p})
        BY <1>4, <2>3, SizeOfUnion
    <2> QED BY <2>2, <2>4 DEF Rank
<1> HIDE DEF U, a, b
<1>8. /\ f \in Seq(Nat) /\ Len(f) = a /\ \A i \in 1 .. a : f[i] \in A /\ Rank(A, f[i]) = i - 1
      /\ g \in Seq(Nat) /\ Len(g) = b /\ \A i \in 1 .. b : g[i] \in B /\ Rank(B, g[i]) = i - 1
      /\ h \in Seq(Nat) /\ Len(h) = a + b
      /\ \A i \in 1 .. (a + b) : h[i] \in U /\ Rank(U, h[i]) = i - 1
    BY <1>1, <1>5, InOrderAt DEF a, b
<1>9. \A p, q \in U : Rank(U, p) = Rank(U, q) => p = q
    <2> SUFFICES ASSUME NEW p \in U, NEW q \in U, p < q PROVE Rank(U, p) # Rank(U, q)
        <3>1. \A p, q \in U : p \in Nat /\ q \in Nat
            BY <1>2
        <3> QED BY <3>1
    <2>1. Rank(U, p) < Rank(U, q) /\ Rank(U, p) \in Nat /\ Rank(U, q) \in Nat
        BY <1>1, RankGrows, PositionsAreFinite
    <2> QED BY <2>1
<1> HIDE DEF f, g, h
<1>. a \in Nat /\ b \in Nat
    BY <1>4 DEF a, b
<1>10. f \o g \in Seq(Nat) /\ Len(f \o g) = a + b
    BY <1>8
<1>11. ASSUME NEW i \in 1 .. (a + b) PROVE (f \o g)[i] = h[i]
    <2>0. i \in Nat /\ 1 <= i /\ i <= a + b
        OBVIOUS
    <2>1. CASE i <= a
        <3>1. i \in 1 .. a /\ (f \o g)[i] = f[i]
            BY <1>8, <2>1
        <3>2. f[i] \in U /\ Rank(U, f[i]) = i - 1
            BY <1>2, <1>6, <1>8, <3>1
        <3> QED BY <1>8, <1>9, <3>1, <3>2
    <2>2. CASE i > a
        <3>1. i - a \in 1 .. b /\ (f \o g)[i] = g[i - a]
            <4>1. i - a \in Nat /\ 1 <= i - a /\ i - a <= b
                BY <2>0, <2>2
            <4>2. a < i /\ i <= Len(f) + Len(g)
                BY <1>8, <2>0, <2>2
            <4>3. f \in Seq(Nat) /\ Len(f) = a /\ g \in Seq(Nat) /\ Len(g) = b
                BY <1>8
            <4>4. (f \o g)[i] = g[i - a]
                BY <2>0, <4>2, <4>3
            <4> QED BY <4>1, <4>4
        <3>2. g[i - a] \in U /\ Rank(U, g[i - a]) = i - 1
            <4>1. g[i - a] \in B /\ Rank(B, g[i - a]) = (i - a) - 1
                BY <1>8, <3>1
            <4>2. Rank(U, g[i - a]) = a + ((i - a) - 1)
                BY <1>7, <4>1
            <4> QED BY <1>2, <4>1, <4>2
        <3> QED BY <1>8, <1>9, <3>1, <3>2
    <2>3. i <= a \/ i > a
        BY <2>0
    <2> QED BY <2>1, <2>2, <2>3
<1>12. f \o g = h
    BY <1>8, <1>10, <1>11, SeqEqual
<1> QED BY <1>12 DEF f, g, h, U

-----------------------------------------------------------------------------
(* The readers of the in-memory bus.                                       *)

ReaderState ==
    [pc : {"idle", "wait", "read"}, cursor : Nat, tail : Nat, deadline : Nat,
     got : Seq(Nat), complete : BOOLEAN]

SimpleTypes ==
    /\ entries \in Seq([type : Types, at : Nat])
    /\ clock \in Nat
    /\ reader \in [Readers -> ReaderState]

(* The matching positions of [from, to).                                   *)
Matches(r, from, to) == {p \in from .. (to - 1) : Simple!Match(r, p)}

(* A reader has got what is below its cursor, and reads up to a tail that  *)
(* was reached.                                                            *)
ReaderFits(r) ==
    /\ reader[r].cursor <= Len(entries)
    /\ reader[r].got = Simple!InOrder(Matches(r, 0, reader[r].cursor))
    /\ How[r] = "poll" => reader[r].pc = "idle"
    /\ reader[r].pc = "read" => reader[r].cursor <= reader[r].tail /\ reader[r].tail <= Len(entries)

SimpleInv == SimpleTypes /\ \A r \in Readers : ReaderFits(r)

Live(p) == EntryTtl = 0 \/ clock < entries[p + 1].at + EntryTtl

(* A page holds the matching entries up to its last one; if it is not full *)
(* it holds all.                                                           *)
LEMMA ReaderPage ==
    ASSUME NEW r, NEW start \in Nat, NEW end \in Nat, NEW max \in Nat \ {0},
           NEW page, page = Simple!Page(r, start, end, max)
    PROVE  /\ page \subseteq Matches(r, start, end)
           /\ page # {} => Simple!Max(page) \in page /\ page = Matches(r, start, Simple!Max(page) + 1)
           /\ Simple!Cardinality(page) = max => page # {}
           /\ Simple!Cardinality(page) # max => page = Matches(r, start, end)
<1> DEFINE found == Matches(r, start, end)
           last == Simple!Max(page)
           few == FirstFew(found, max)
<1>1. \A p : p \in found <=> p \in Nat /\ start <= p /\ p < end /\ Simple!Match(r, p)
    BY DEF Matches
<1>2. found \in SUBSET (0 .. (end - 1))
    BY DEF Matches
<1>3. page = few
    <2>1. \A p \in start .. (end - 1) :
            {q \in found : q < p} = {q \in start .. (p - 1) : Simple!Match(r, q)}
        <3> HIDE DEF found
        <3> TAKE p \in start .. (end - 1)
        <3>1. p \in Int /\ p < end
            OBVIOUS
        <3>2. \A q : q \in start .. (p - 1) <=> q \in Nat /\ start <= q /\ q < p
            BY <3>1
        <3> QED BY <1>1, <3>1, <3>2
    <2>2. \A p : p \in page <=> p \in found /\ Simple!Cardinality({q \in start .. (p - 1) : Simple!Match(r, q)}) < max
        BY DEF Simple!Page, Matches
    <2>3. \A p : p \in few <=> p \in found /\ Cardinality({q \in found : q < p}) < max
        BY DEF FirstFew
    <2>4. \A p \in found : p \in start .. (end - 1)
        BY DEF Matches
    <2> HIDE DEF few, found
    <2>5. \A p : p \in page <=> p \in few
        BY <2>1, <2>2, <2>3, <2>4, SimpleCounts
    <2>6. page \subseteq found /\ few \subseteq found
        BY <2>2, <2>3
    <2> QED BY <2>5, <2>6
<1>4. IF Cardinality(few) = max
      THEN Greatest(few) \in found /\ few = {p \in found : p <= Greatest(few)}
      ELSE few = found
    BY <1>2, FirstFewFacts
<1>5. few \subseteq found
    BY DEF FirstFew
<1>6. Simple!Cardinality(page) = Cardinality(few)
    BY <1>3, SimpleCounts
<1> HIDE DEF found, few
<1>7. Cardinality(few) = max => few # {}
    BY FS_EmptySet
<1>8. ASSUME few # {} PROVE last \in page /\ page = Matches(r, start, last + 1)
    <2>1. few \in SUBSET (0 .. (end - 1))
        BY <1>2, <1>5
    <2>2. PICK g \in few : g = Greatest(few) /\ \A q \in few : q <= g
        BY <1>8, <2>1, GreatestOf
    <2>3. g \in Nat /\ g \in found /\ start <= g /\ g < end /\ \A q \in few : q \in Nat
        BY <1>1, <1>5
    <2>4. last \in few /\ last = g
        <3>1. \E x \in page : \A y \in page : x >= y
            BY <1>3, <2>2, <2>3
        <3>2. last \in page /\ \A y \in page : last >= y
            BY <3>1 DEF Simple!Max
        <3> HIDE DEF last
        <3>3. last \in few /\ last \in Nat /\ last <= g /\ last >= g
            BY <1>3, <2>2, <2>3, <3>2
        <3> QED BY <2>3, <3>3
    <2>5. \A p : p \in few <=> p \in found /\ p <= g
        BY <1>4, <1>5, <2>2, <2>3
    <2>6. \A p : p \in Matches(r, start, g + 1) <=> p \in Nat /\ start <= p /\ p <= g /\ Simple!Match(r, p)
        BY <2>3 DEF Matches
    <2>7. \A p : p \in few <=> p \in Matches(r, start, g + 1)
        BY <1>1, <2>3, <2>5, <2>6
    <2>8. few = Matches(r, start, g + 1)
        BY <2>7 DEF Matches
    <2> HIDE DEF last
    <2> QED BY <1>3, <2>4, <2>8
<1> QED BY <1>3, <1>4, <1>5, <1>6, <1>7, <1>8 DEF found

(* What a reader has got and a page that goes on from there.               *)
LEMMA PageJoins ==
    ASSUME NEW r, NEW start \in Nat, NEW end \in Nat, start <= end
    PROVE  Simple!InOrder(Matches(r, 0, end))
             = Simple!InOrder(Matches(r, 0, start)) \o Simple!InOrder(Matches(r, start, end))
<1>1. Matches(r, 0, start) \in SUBSET (0 .. (start - 1)) /\ Matches(r, start, end) \in SUBSET (start .. (end - 1))
    BY DEF Matches
<1>2. Matches(r, 0, end) = Matches(r, 0, start) \cup Matches(r, start, end)
    <2>1. \A p : p \in 0 .. (end - 1) <=> p \in 0 .. (start - 1) \/ p \in start .. (end - 1)
        OBVIOUS
    <2> QED BY <2>1 DEF Matches
<1> DEFINE A == Matches(r, 0, start)
           B == Matches(r, start, end)
<1> HIDE DEF A, B
<1>3. A \in SUBSET (0 .. (start - 1)) /\ B \in SUBSET (start .. (end - 1))
    BY <1>1 DEF A, B
<1>4. \A X \in SUBSET (0 .. (start - 1)), Y \in SUBSET (start .. (end - 1)) :
        Simple!InOrder(X \cup Y) = Simple!InOrder(X) \o Simple!InOrder(Y)
    BY InOrderJoin
<1>5. Simple!InOrder(A \cup B) = Simple!InOrder(A) \o Simple!InOrder(B)
    BY <1>3, <1>4
<1> QED BY <1>2, <1>5 DEF A, B

(* Only a page with live entries adds to what a reader has got.            *)
Delivers(r) ==
    \E end \in Nat :
        /\ reader[r].cursor <= end
        /\ \A p \in Matches(r, reader[r].cursor, end) : Live(p)
        /\ reader'[r].got = reader[r].got \o Simple!InOrder(Matches(r, reader[r].cursor, end))

LEMMA DeliversLive ==
    ASSUME SimpleInv, NEW r \in Readers, Delivers(r)
    PROVE  \A i \in (Len(reader[r].got) + 1) .. Len(reader'[r].got) :
             EntryTtl = 0 \/ clock < entries[reader'[r].got[i] + 1].at + EntryTtl
<1> DEFINE got == reader[r].got
           start == reader[r].cursor
<1>1. start \in Nat /\ got \in Seq(Nat)
    BY DEF SimpleInv, SimpleTypes, ReaderState
<1>2. PICK end \in Nat :
        /\ start <= end
        /\ \A p \in Matches(r, start, end) : Live(p)
        /\ reader'[r].got = got \o Simple!InOrder(Matches(r, start, end))
    BY DEF Delivers
<1> DEFINE S == Matches(r, start, end)
           more == Simple!InOrder(S)
<1>3. S \in SUBSET (0 .. (end - 1))
    BY <1>1 DEF Matches
<1>4. more \in Seq(Nat) /\ \A i \in 1 .. Len(more) : more[i] \in S
    BY <1>3, InOrderAt
<1> HIDE DEF got, S, more
<1>5. reader'[r].got = got \o more
    BY <1>2 DEF more, S
<1>6. ASSUME NEW i \in (Len(got) + 1) .. Len(got \o more) PROVE (got \o more)[i] \in S
    <2>0. Len(got) \in Nat /\ Len(more) \in Nat /\ Len(got \o more) = Len(got) + Len(more)
        BY <1>1, <1>4 DEF got
    <2>1. i \in Nat /\ Len(got) < i /\ i <= Len(got) + Len(more)
        BY <2>0
    <2>2. i - Len(got) \in 1 .. Len(more)
        BY <2>0, <2>1
    <2>3. (got \o more)[i] = more[i - Len(got)]
        BY <1>1, <1>4, <2>0, <2>1 DEF got
    <2> QED BY <1>4, <2>2, <2>3
<1> QED BY <1>2, <1>5, <1>6 DEF Live, got, S

(* A reader moves: what it has got stays what is below its cursor.         *)
ReaderMoves(r) ==
    /\ UNCHANGED <<entries, clock>>
    /\ reader' \in [Readers -> ReaderState]
    /\ \A s \in Readers \ {r} : reader'[s] = reader[s]

LEMMA MoveKeepsInv ==
    ASSUME SimpleInv, NEW r \in Readers, ReaderMoves(r), ReaderFits(r)',
           Delivers(r) \/ reader'[r].got = reader[r].got
    PROVE  SimpleInv' /\ Simple!NoExpiredDelivery
<1>1. ASSUME NEW s \in Readers \ {r} PROVE ReaderFits(s)'
    BY <1>1 DEF ReaderMoves, SimpleInv, ReaderFits, Matches, Simple!Match
<1>2. SimpleInv'
    BY <1>1 DEF ReaderMoves, SimpleInv, SimpleTypes
<1>3. ASSUME NEW s \in Readers, reader'[s].got = reader[s].got
      PROVE  \A i \in (Len(reader[s].got) + 1) .. Len(reader'[s].got) : FALSE
    <2>1. reader[s].got \in Seq(Nat)
        BY DEF SimpleInv, SimpleTypes, ReaderState
    <2> QED BY <1>3, <2>1
<1>4. Simple!NoExpiredDelivery
    <2> SUFFICES ASSUME NEW s \in Readers
                 PROVE  \A i \in (Len(reader[s].got) + 1) .. Len(reader'[s].got) :
                          EntryTtl = 0 \/ clock < entries[reader'[s].got[i] + 1].at + EntryTtl
        BY DEF Simple!NoExpiredDelivery
    <2>1. CASE reader'[s].got = reader[s].got
        BY <1>3, <2>1
    <2>2. CASE reader'[s].got # reader[s].got
        <3>1. s = r /\ Delivers(r)
            BY <2>2 DEF ReaderMoves
        <3> QED BY <3>1, DeliversLive
    <2> QED BY <2>1, <2>2
<1> QED BY <1>2, <1>4

LEMMA FitsAfter ==
    ASSUME NEW r \in Readers, UNCHANGED entries, NEW n \in Nat, n <= Len(entries),
           reader'[r].cursor = n, reader'[r].got = Simple!InOrder(Matches(r, 0, n)),
           How[r] = "poll" => reader'[r].pc = "idle",
           reader'[r].pc = "read" => n <= reader'[r].tail /\ reader'[r].tail <= Len(entries)
    PROVE  ReaderFits(r)'
BY DEF ReaderFits, Matches, Simple!Match

(* A page of a poll, and what the answer says of completeness.             *)
LEMMA PollReads ==
    ASSUME Simple!SimpleBusAssumption, SimpleInv, NEW r \in Readers, Simple!Poll(r)
    PROVE  /\ SimpleInv' /\ Simple!NoExpiredDelivery
           /\ reader'[r].complete <=>
                \A p \in reader'[r].cursor .. (Len(entries) - 1) : ~ Simple!Match(r, p)
<1> DEFINE start == reader[r].cursor
           max   == Simple!PollLimit(r)
           page  == Simple!Page(r, start, Len(entries), max)
           last  == Simple!Max(page)
           next_ == IF page = {} THEN start ELSE last + 1
<1>1. max \in Nat \ {0}
    BY DEF Simple!SimpleBusAssumption, Simple!PollLimit
<1>2. /\ start \in Nat /\ Len(entries) \in Nat /\ start <= Len(entries)
      /\ reader[r] \in ReaderState /\ reader[r].pc = "idle"
      /\ reader[r].got = Simple!InOrder(Matches(r, 0, start)) /\ reader[r].got \in Seq(Nat)
    <2>1. reader[r] \in ReaderState /\ entries \in Seq([type : Types, at : Nat]) /\ ReaderFits(r)
        BY DEF SimpleInv, SimpleTypes
    <2>2. How[r] = "poll"
        BY DEF Simple!Poll
    <2>3. Len(entries) \in Nat
        BY <2>1
    <2> QED BY <2>1, <2>2, <2>3 DEF ReaderFits, ReaderState
<1>3. /\ \A p \in Simple!PollScan(r, start, max) : Live(p)
      /\ reader' = [reader EXCEPT ![r].got = @ \o Simple!InOrder(page),
                                  ![r].cursor = IF page = {} THEN @ ELSE last + 1,
                                  ![r].complete = Simple!Complete(r, start, max)]
      /\ UNCHANGED <<entries, clock>>
    BY DEF Simple!Poll, Simple!IsLive, Live
<1>4. /\ page \subseteq Matches(r, start, Len(entries))
      /\ page # {} => last \in page /\ page = Matches(r, start, last + 1)
      /\ Simple!Cardinality(page) = max => page # {}
      /\ Simple!Cardinality(page) # max => page = Matches(r, start, Len(entries))
    <2> HIDE DEF max
    <2>1. page = Simple!Page(r, start, Len(entries), max)
        OBVIOUS
    <2> HIDE DEF page
    <2> QED BY <1>1, <1>2, <2>1, ReaderPage
<1>5. \A p \in page : Live(p)
    <2> SUFFICES ASSUME NEW p \in page PROVE p \in Simple!PollScan(r, start, max)
        BY <1>3
    <2>1. /\ p \in start .. (Len(entries) - 1)
          /\ Simple!Cardinality({q \in start .. (p - 1) : Simple!Match(r, q)}) < max
        BY DEF Simple!Page
    <2>2. {q \in start .. (p - 1) : Simple!Match(r, q)} \in SUBSET (0 .. (p - 1)) /\ p \in Nat
        BY <1>2, <2>1
    <2>3. Simple!Cardinality({q \in start .. (p - 1) : Simple!Match(r, q)}) \in Nat
        BY <2>2, PositionsAreFinite, SimpleCounts
    <2>4. Simple!Cardinality({q \in start .. (p - 1) : Simple!Match(r, q)}) <= max
        BY <1>1, <2>1, <2>3
    <2> QED BY <2>1, <2>4 DEF Simple!PollScan
<1>6. Simple!Complete(r, start, max) \in BOOLEAN
    BY DEF Simple!Complete
<1>7. /\ next_ \in Nat /\ start <= next_ /\ next_ <= Len(entries)
      /\ page = Matches(r, start, next_)
    <2>1. CASE page = {}
        <3>1. Matches(r, start, start) = {}
            BY <1>2 DEF Matches
        <3> QED BY <1>2, <2>1, <3>1
    <2>2. CASE page # {}
        <3>1. last \in Matches(r, start, Len(entries)) /\ page = Matches(r, start, last + 1)
            BY <1>4, <2>2
        <3> HIDE DEF last
        <3>2. last \in Nat /\ start <= last /\ last < Len(entries)
            BY <1>2, <3>1 DEF Matches
        <3> HIDE DEF page
        <3> QED BY <1>2, <2>2, <3>1, <3>2
    <2> QED BY <2>1, <2>2
<1>8. /\ reader'[r].got = reader[r].got \o Simple!InOrder(page)
      /\ reader'[r].cursor = next_ /\ reader'[r].complete = Simple!Complete(r, start, max)
      /\ reader'[r].pc = "idle" /\ reader'[r].tail = reader[r].tail
      /\ reader'[r].deadline = reader[r].deadline
      /\ reader'[r] \in ReaderState /\ ReaderMoves(r)
    <2>1. Simple!InOrder(page) \in Seq(Nat)
        <3>1. page \in SUBSET (0 .. (Len(entries) - 1))
            BY <1>2, <1>4 DEF Matches
        <3> QED BY <1>2, <3>1, InOrderAt
    <2> DEFINE q == [reader[r] EXCEPT !.got = reader[r].got \o Simple!InOrder(page),
                                      !.cursor = next_,
                                      !.complete = Simple!Complete(r, start, max)]
    <2>2. reader \in [Readers -> ReaderState]
        BY DEF SimpleInv, SimpleTypes
    <2> HIDE DEF page, last, max
    <2>3. reader' = [reader EXCEPT ![r] = q]
        BY <1>3, <2>2
    <2>4. q \in ReaderState
        <3>1. reader[r].got \o Simple!InOrder(page) \in Seq(Nat)
            BY <1>2, <2>1
        <3> HIDE DEF next_
        <3> QED BY <1>2, <1>6, <1>7, <3>1 DEF ReaderState
    <2>5. /\ q.got = reader[r].got \o Simple!InOrder(page) /\ q.cursor = next_
          /\ q.complete = Simple!Complete(r, start, max)
          /\ q.pc = "idle" /\ q.tail = reader[r].tail /\ q.deadline = reader[r].deadline
        BY <1>2 DEF ReaderState
    <2> HIDE DEF q
    <2> QED BY <1>3, <2>2, <2>3, <2>4, <2>5 DEF ReaderMoves
<1> HIDE DEF next_, page, last, max
<1>9. ReaderFits(r)'
    <2>1. Simple!InOrder(Matches(r, 0, next_)) = reader[r].got \o Simple!InOrder(page)
        BY <1>2, <1>7, PageJoins
    <2>2. reader'[r].cursor = next_ /\ reader'[r].got = Simple!InOrder(Matches(r, 0, next_))
        BY <1>2, <1>8, <2>1
    <2> QED BY <1>3, <1>7, <1>8, <2>2, FitsAfter
<1>10. Delivers(r)
    BY <1>5, <1>7, <1>8 DEF Delivers
<1>11. SimpleInv' /\ Simple!NoExpiredDelivery
    BY <1>8, <1>9, <1>10, MoveKeepsInv
<1>12. Simple!Complete(r, start, max) <=> \A p \in next_ .. (Len(entries) - 1) : ~ Simple!Match(r, p)
    <2>1. Simple!Complete(r, start, max)
            <=> \A p \in start .. (Len(entries) - 1) : Simple!Match(r, p) => p \in page
        BY DEF Simple!Complete, page
    <2>2. \A p : p \in page <=> p \in Nat /\ start <= p /\ p < next_ /\ Simple!Match(r, p)
        BY <1>2, <1>7 DEF Matches
    <2>3. \A p : p \in start .. (Len(entries) - 1) <=> p \in Nat /\ start <= p /\ p < Len(entries)
        BY <1>2
    <2>4. \A p : p \in next_ .. (Len(entries) - 1) <=> p \in Nat /\ next_ <= p /\ p < Len(entries)
        BY <1>2, <1>7
    <2> QED BY <1>2, <1>7, <2>1, <2>2, <2>3, <2>4
<1> QED BY <1>8, <1>11, <1>12

LEMMA ReadNextReads ==
    ASSUME Simple!SimpleBusAssumption, SimpleInv, NEW r \in Readers, Simple!ReadNext(r)
    PROVE  SimpleInv' /\ Simple!NoExpiredDelivery
<1> DEFINE start == reader[r].cursor
           end   == reader[r].tail
           max   == PageSize[r]
           page  == Simple!Page(r, start, end, max)
           last  == Simple!Max(page)
           next_ == Simple!NextStart(r, start, end, max)
<1>1. max \in Nat \ {0}
    BY DEF Simple!SimpleBusAssumption
<1>2. /\ start \in Nat /\ end \in Nat /\ start <= end /\ end <= Len(entries)
      /\ Len(entries) \in Nat /\ reader[r] \in ReaderState
      /\ reader[r].got = Simple!InOrder(Matches(r, 0, start)) /\ reader[r].got \in Seq(Nat)
    <2>1. reader[r] \in ReaderState /\ entries \in Seq([type : Types, at : Nat]) /\ ReaderFits(r)
        BY DEF SimpleInv, SimpleTypes
    <2>2. reader[r].pc = "read"
        BY DEF Simple!ReadNext
    <2>3. Len(entries) \in Nat
        BY <2>1
    <2> QED BY <2>1, <2>2, <2>3 DEF ReaderFits, ReaderState
<1>3. /\ \A p \in Simple!ReadScan(r, start, end, max) : Live(p)
      /\ reader' = [reader EXCEPT ![r].got = @ \o Simple!InOrder(page),
                                  ![r].cursor = next_, ![r].pc = "idle"]
      /\ UNCHANGED <<entries, clock>>
    BY DEF Simple!ReadNext, Simple!IsLive, Live
<1>4. /\ page \subseteq Matches(r, start, end)
      /\ page # {} => last \in page /\ page = Matches(r, start, last + 1)
      /\ Simple!Cardinality(page) = max => page # {}
      /\ Simple!Cardinality(page) # max => page = Matches(r, start, end)
    BY <1>1, <1>2, ReaderPage
<1>5. /\ next_ = IF Simple!Cardinality(page) = max THEN last + 1 ELSE end
      /\ Simple!ReadScan(r, start, end, max) =
           IF Simple!Cardinality(page) = max THEN start .. last ELSE start .. (end - 1)
    BY DEF Simple!NextStart, Simple!ReadScan
<1> HIDE DEF last, next_
<1>6. /\ next_ \in Nat /\ start <= next_ /\ next_ <= end
      /\ page = Matches(r, start, next_) /\ \A p \in page : Live(p)
    <2>1. CASE Simple!Cardinality(page) = max
        <3>1. last \in Matches(r, start, end) /\ page = Matches(r, start, last + 1)
            BY <1>4, <2>1
        <3>2. last \in Nat /\ start <= last /\ last < end
            BY <1>2, <3>1 DEF Matches
        <3>3. \A p \in page : p \in start .. last
            BY <1>2, <3>1, <3>2 DEF Matches
        <3> HIDE DEF page
        <3>4. next_ = last + 1
            BY <1>5, <2>1
        <3> QED BY <1>2, <1>3, <1>5, <2>1, <3>1, <3>2, <3>3, <3>4
    <2>2. CASE Simple!Cardinality(page) # max
        <3>1. page = Matches(r, start, end) /\ next_ = end
            BY <1>4, <1>5, <2>2
        <3>2. \A p \in page : p \in start .. (end - 1)
            BY <3>1 DEF Matches
        <3> HIDE DEF page
        <3> QED BY <1>2, <1>3, <1>5, <2>2, <3>1, <3>2
    <2> QED BY <2>1, <2>2
<1>7. /\ reader'[r].got = reader[r].got \o Simple!InOrder(page)
      /\ reader'[r].cursor = next_ /\ reader'[r].pc = "idle"
      /\ ReaderMoves(r)
    <2>1. Simple!InOrder(page) \in Seq(Nat)
        <3>1. page \in SUBSET (0 .. (end - 1))
            BY <1>2, <1>4 DEF Matches
        <3> QED BY <1>2, <3>1, InOrderAt
    <2> DEFINE q == [reader[r] EXCEPT !.got = reader[r].got \o Simple!InOrder(page),
                                      !.cursor = next_, !.pc = "idle"]
    <2>2. reader \in [Readers -> ReaderState]
        BY DEF SimpleInv, SimpleTypes
    <2> HIDE DEF page
    <2>3. reader' = [reader EXCEPT ![r] = q]
        BY <1>3, <2>2
    <2>4. q \in ReaderState
        <3>1. reader[r].got \o Simple!InOrder(page) \in Seq(Nat)
            BY <1>2, <2>1
        <3> QED BY <1>2, <1>6, <3>1 DEF ReaderState
    <2>5. /\ q.got = reader[r].got \o Simple!InOrder(page) /\ q.cursor = next_
          /\ q.pc = "idle"
        BY <1>2 DEF ReaderState
    <2> HIDE DEF q
    <2> QED BY <1>3, <2>2, <2>3, <2>4, <2>5 DEF ReaderMoves
<1> HIDE DEF page
<1>8. ReaderFits(r)'
    <2>1. Simple!InOrder(Matches(r, 0, next_)) = reader[r].got \o Simple!InOrder(page)
        BY <1>2, <1>6, PageJoins
    <2>2. next_ <= Len(entries)
        BY <1>2, <1>6
    <2>3. reader'[r].got = Simple!InOrder(Matches(r, 0, next_))
        BY <1>2, <1>7, <2>1
    <2> QED BY <1>3, <1>6, <1>7, <2>2, <2>3, FitsAfter
<1>9. Delivers(r)
    BY <1>6, <1>7 DEF Delivers
<1> QED BY <1>7, <1>8, <1>9, MoveKeepsInv

(* The steps of a read that deliver nothing.                               *)
LEMMA WaitsOn ==
    ASSUME Simple!SimpleBusAssumption, SimpleInv, NEW r \in Readers,
           \/ Simple!CheckTail(r) \/ Simple!ReadExpired(r) \/ Simple!BlockBegin(r)
           \/ Simple!BlockFound(r) \/ Simple!BlockTimeout(r)
    PROVE  SimpleInv' /\ Simple!NoExpiredDelivery
<1>1. /\ reader \in [Readers -> ReaderState] /\ reader[r] \in ReaderState
      /\ entries \in Seq([type : Types, at : Nat]) /\ clock \in Nat /\ ReaderFits(r)
    BY DEF SimpleInv, SimpleTypes
<1>2. Len(entries) \in Nat /\ Timeout \in Nat
    BY <1>1 DEF Simple!SimpleBusAssumption
<1>3. PICK q \in ReaderState :
        /\ reader' = [reader EXCEPT ![r] = q] /\ UNCHANGED <<entries, clock>>
        /\ q.got = reader[r].got /\ q.cursor = reader[r].cursor
        /\ How[r] = "poll" => q.pc = "idle"
        /\ q.pc = "read" => q.cursor <= q.tail /\ q.tail <= Len(entries)
    <2>1. CASE Simple!CheckTail(r)
        <3> DEFINE q == [reader[r] EXCEPT !.pc = "read", !.tail = Len(entries)]
        <3>1. reader' = [reader EXCEPT ![r] = q] /\ UNCHANGED <<entries, clock>> /\ How[r] = "read"
            BY <1>1, <2>1 DEF Simple!CheckTail, Simple!Tail_
        <3>2. q \in ReaderState /\ q.got = reader[r].got /\ q.cursor = reader[r].cursor
              /\ q.pc = "read" /\ q.tail = Len(entries)
            BY <1>1, <1>2 DEF ReaderState
        <3>3. How[r] # "poll" /\ reader[r].cursor <= Len(entries)
            BY <1>1, <3>1 DEF ReaderFits
        <3> HIDE DEF q
        <3>4. q.cursor <= q.tail /\ q.tail <= Len(entries)
            BY <1>2, <3>2, <3>3
        <3> QED BY <3>1, <3>2, <3>3, <3>4
    <2>2. CASE Simple!ReadExpired(r) \/ Simple!BlockTimeout(r)
        <3> DEFINE q == [reader[r] EXCEPT !.pc = "idle"]
        <3>1. reader' = [reader EXCEPT ![r] = q] /\ UNCHANGED <<entries, clock>>
            BY <1>1, <2>2 DEF Simple!ReadExpired, Simple!BlockTimeout
        <3>2. q \in ReaderState /\ q.got = reader[r].got /\ q.cursor = reader[r].cursor
              /\ q.pc = "idle"
            BY <1>1 DEF ReaderState
        <3> HIDE DEF q
        <3> QED BY <3>1, <3>2
    <2>3. CASE Simple!BlockBegin(r)
        <3> DEFINE q == [reader[r] EXCEPT !.pc = "wait", !.deadline = clock + Timeout]
        <3>1. reader' = [reader EXCEPT ![r] = q] /\ UNCHANGED <<entries, clock>> /\ How[r] = "block"
            BY <1>1, <2>3 DEF Simple!BlockBegin
        <3>3. clock + Timeout \in Nat
            BY <1>1, <1>2
        <3>2. q \in ReaderState /\ q.got = reader[r].got /\ q.cursor = reader[r].cursor
              /\ q.pc = "wait"
            BY <1>1, <3>3 DEF ReaderState
        <3> HIDE DEF q
        <3> QED BY <3>1, <3>2
    <2>4. CASE Simple!BlockFound(r)
        <3> DEFINE q == [reader[r] EXCEPT !.pc = "read", !.tail = Len(entries)]
        <3>1. reader' = [reader EXCEPT ![r] = q] /\ UNCHANGED <<entries, clock>>
              /\ reader[r].pc = "wait"
            BY <1>1, <2>4 DEF Simple!BlockFound, Simple!Tail_
        <3>2. q \in ReaderState /\ q.got = reader[r].got /\ q.cursor = reader[r].cursor
              /\ q.pc = "read" /\ q.tail = Len(entries)
            BY <1>1, <1>2 DEF ReaderState
        <3>3. How[r] # "poll" /\ reader[r].cursor <= Len(entries)
            BY <1>1, <3>1 DEF ReaderFits
        <3> HIDE DEF q
        <3>4. q.cursor <= q.tail /\ q.tail <= Len(entries)
            BY <1>2, <3>2, <3>3
        <3> QED BY <3>1, <3>2, <3>3, <3>4
    <2> QED BY <2>1, <2>2, <2>3, <2>4
<1>4. ReaderMoves(r) /\ reader'[r] = q
    BY <1>1, <1>3 DEF ReaderMoves
<1>5. reader[r].cursor \in Nat /\ reader[r].cursor <= Len(entries)
      /\ reader[r].got = Simple!InOrder(Matches(r, 0, reader[r].cursor))
    BY <1>1 DEF ReaderFits, ReaderState
<1>6. ReaderFits(r)'
    BY <1>3, <1>4, <1>5, FitsAfter
<1> QED BY <1>3, <1>4, <1>6, MoveKeepsInv

LEMMA SimpleGrows ==
    ASSUME SimpleInv, (\E type \in Types : Simple!AppendEntry(type)) \/ Simple!Tick
    PROVE  SimpleInv' /\ Simple!NoExpiredDelivery
<1>1. entries \in Seq([type : Types, at : Nat]) /\ clock \in Nat
      /\ reader \in [Readers -> ReaderState]
    BY DEF SimpleInv, SimpleTypes
<1>2. /\ entries' \in Seq([type : Types, at : Nat]) /\ clock' \in Nat /\ reader' = reader
      /\ Len(entries) \in Nat /\ Len(entries') \in Nat /\ Len(entries) <= Len(entries')
      /\ \A i \in 1 .. Len(entries) : entries'[i] = entries[i]
    <2>1. ASSUME NEW type \in Types, Simple!AppendEntry(type)
          PROVE  /\ entries' = Append(entries, [type |-> type, at |-> clock])
                 /\ clock' = clock /\ reader' = reader
        BY <2>1 DEF Simple!AppendEntry
    <2>2. ASSUME Simple!Tick PROVE entries' = entries /\ clock' = clock + 1 /\ reader' = reader
        BY <2>2 DEF Simple!Tick
    <2>3. CASE \E type \in Types : Simple!AppendEntry(type)
        <3>1. PICK type \in Types : Simple!AppendEntry(type)
            BY <2>3
        <3>2. [type |-> type, at |-> clock] \in [type : Types, at : Nat]
            BY <1>1
        <3> DEFINE e == [type |-> type, at |-> clock]
        <3>3. entries' = Append(entries, e) /\ clock' = clock /\ reader' = reader
            BY <2>1, <3>1
        <3> HIDE DEF e
        <3>4. e \in [type : Types, at : Nat]
            BY <3>2 DEF e
        <3> QED BY <1>1, <3>3, <3>4
    <2>4. CASE Simple!Tick
        BY <1>1, <2>2, <2>4
    <2> QED BY <2>3, <2>4
<1>3. ASSUME NEW r \in Readers PROVE ReaderFits(r)'
    <2>1. ReaderFits(r) /\ reader[r] \in ReaderState
        BY <1>1 DEF SimpleInv
    <2> DEFINE n == reader[r].cursor
               S == {p \in 0 .. (n - 1) : Simple!Match(r, p)}
               T == {p \in 0 .. (n - 1) : Simple!Match(r, p)'}
    <2>2. n \in Nat /\ n <= Len(entries)
        BY <2>1 DEF ReaderFits, ReaderState
    <2>3. \A p \in 0 .. (n - 1) : Simple!Match(r, p)' <=> Simple!Match(r, p)
        <3> TAKE p \in 0 .. (n - 1)
        <3>1. p + 1 \in 1 .. Len(entries)
            BY <1>2, <2>2
        <3> QED BY <1>2, <3>1 DEF Simple!Match
    <2>4. S = T
        BY <2>3
    <2>5. Matches(r, 0, n) = S
        BY DEF Matches
    <2>6. Matches(r, 0, n)' = T
        BY <1>2 DEF Matches, Simple!Match
    <2>7. reader'[r] = reader[r]
        BY <1>2
    <2> HIDE DEF S, T
    <2>8. reader[r].got = Simple!InOrder(S)
        BY <2>1, <2>5 DEF ReaderFits
    <2>9. (reader[r].got = Simple!InOrder(Matches(r, 0, n)))'
        BY <2>4, <2>6, <2>7, <2>8
    <2>10. reader[r].tail \in Nat
        BY <2>1 DEF ReaderState
    <2>11. /\ How[r] = "poll" => reader[r].pc = "idle"
           /\ reader[r].pc = "read" => n <= reader[r].tail /\ reader[r].tail <= Len(entries)
        BY <2>1 DEF ReaderFits
    <2> QED BY <1>2, <2>2, <2>7, <2>9, <2>10, <2>11 DEF ReaderFits
<1>4. SimpleInv'
    BY <1>1, <1>2, <1>3 DEF SimpleInv, SimpleTypes
<1>5. \A r \in Readers : Len(reader'[r].got) = Len(reader[r].got) /\ Len(reader[r].got) \in Nat
    BY <1>1, <1>2 DEF ReaderState
<1>6. Simple!NoExpiredDelivery
    BY <1>5 DEF Simple!NoExpiredDelivery
<1> QED BY <1>4, <1>6

LEMMA SimpleStep ==
    ASSUME Simple!SimpleBusAssumption, SimpleInv, [Simple!Next]_(Simple!vars)
    PROVE  /\ SimpleInv' /\ Simple!NothingSkipped'
           /\ Simple!CompleteMeansAll /\ Simple!NoExpiredDelivery
<1>1. Simple!CompleteMeansAll
    BY PollReads DEF Simple!CompleteMeansAll
<1>2. ASSUME UNCHANGED Simple!vars PROVE SimpleInv' /\ Simple!NoExpiredDelivery
    <2>1. UNCHANGED <<entries, clock, reader>>
        BY <1>2 DEF Simple!vars
    <2>2. SimpleInv'
        BY <2>1 DEF SimpleInv, SimpleTypes, ReaderFits, Matches, Simple!Match
    <2>3. \A r \in Readers : Len(reader[r].got) \in Nat /\ reader'[r] = reader[r]
        BY <2>1 DEF SimpleInv, SimpleTypes, ReaderState
    <2>4. \A r \in Readers : \A i \in (Len(reader[r].got) + 1) .. Len(reader'[r].got) : FALSE
        BY <2>3
    <2>5. Simple!NoExpiredDelivery
        BY <2>4, Zenon DEF Simple!NoExpiredDelivery
    <2> QED BY <2>2, <2>5
<1>3. ASSUME Simple!Next PROVE SimpleInv' /\ Simple!NoExpiredDelivery
    <2>1. ASSUME (\E type \in Types : Simple!AppendEntry(type)) \/ Simple!Tick
          PROVE  SimpleInv' /\ Simple!NoExpiredDelivery
        BY <2>1, SimpleGrows
    <2>2. ASSUME NEW r \in Readers, Simple!Poll(r) PROVE SimpleInv' /\ Simple!NoExpiredDelivery
        BY <2>2, PollReads
    <2>3. ASSUME NEW r \in Readers, Simple!ReadNext(r)
          PROVE  SimpleInv' /\ Simple!NoExpiredDelivery
        BY <2>3, ReadNextReads
    <2>4. ASSUME NEW r \in Readers,
                 \/ Simple!CheckTail(r) \/ Simple!ReadExpired(r) \/ Simple!BlockBegin(r)
                 \/ Simple!BlockFound(r) \/ Simple!BlockTimeout(r)
          PROVE  SimpleInv' /\ Simple!NoExpiredDelivery
        BY <2>4, WaitsOn
    <2>5. \/ (\E type \in Types : Simple!AppendEntry(type)) \/ Simple!Tick
          \/ \E r \in Readers :
               \/ Simple!Poll(r) \/ Simple!ReadNext(r)
               \/ Simple!CheckTail(r) \/ Simple!ReadExpired(r) \/ Simple!BlockBegin(r)
               \/ Simple!BlockFound(r) \/ Simple!BlockTimeout(r)
        BY <1>3, Zenon DEF Simple!Next, Simple!Goes
    <2> QED BY <2>1, <2>2, <2>3, <2>4, <2>5, Zenon
<1>4. SimpleInv' /\ Simple!NoExpiredDelivery
    BY <1>2, <1>3
<1>5. SimpleInv => Simple!NothingSkipped
    BY DEF SimpleInv, ReaderFits, Simple!NothingSkipped, Matches
<1>6. SimpleInv' => Simple!NothingSkipped'
    BY DEF SimpleInv, ReaderFits, Simple!NothingSkipped, Matches
<1> QED BY <1>1, <1>4, <1>6

LEMMA SimpleInit == Simple!Init => SimpleInv
<1> SUFFICES ASSUME Simple!Init PROVE SimpleInv
    OBVIOUS
<1>1. /\ entries = <<>> /\ clock = 0
      /\ reader = [r \in Readers |-> [pc |-> "idle", cursor |-> 0, tail |-> 0,
                                      deadline |-> 0, got |-> <<>>, complete |-> FALSE]]
    BY DEF Simple!Init
<1>2. SimpleTypes
    BY <1>1 DEF SimpleTypes, ReaderState
<1>3. Simple!InOrder({}) = <<>>
    <2>1. {} \in SUBSET (0 .. (0 - 1))
        OBVIOUS
    <2>2. Simple!InOrder({}) \in Seq(Nat) /\ Len(Simple!InOrder({})) = Cardinality({})
        BY <2>1, InOrderAt
    <2>3. Cardinality({}) = 0
        BY FS_EmptySet
    <2> QED BY <2>2, <2>3, EmptySeq
<1>4. ASSUME NEW r \in Readers PROVE ReaderFits(r)
    <2>1. Matches(r, 0, 0) = {}
        BY DEF Matches
    <2>2. reader[r].cursor = 0 /\ reader[r].got = <<>> /\ reader[r].pc = "idle"
        BY <1>1
    <2>3. Len(entries) = 0 /\ Matches(r, 0, reader[r].cursor) = {}
        BY <1>1, <2>1, <2>2
    <2>4. reader[r].cursor <= Len(entries)
        BY <2>2, <2>3
    <2>5. reader[r].got = Simple!InOrder(Matches(r, 0, reader[r].cursor))
        BY <1>3, <2>2, <2>3
    <2> QED BY <2>2, <2>4, <2>5 DEF ReaderFits
<1> QED BY <1>2, <1>4 DEF SimpleInv

-----------------------------------------------------------------------------
(* The CLI.                                                                *)

CliSteps == {"prompt", "append", "check_tail", "read", "follow", "exited"}

CliTypes ==
    /\ cliLog \in [CliBuses -> Nat] /\ agent_bus_id \in CliBuses
    /\ step \in CliSteps /\ cmd \in Cli!Commands \cup {Cli!NoCommand}
    /\ cursor \in Int /\ tail \in Nat /\ remaining \in Int
    /\ shown \in Seq(Int) /\ floor \in Nat

(* Where the last n entries begin.                                         *)
Back(n) == IF tail - n > 0 THEN tail - n ELSE 0

(* While a command reads or follows, what it has shown ends at its cursor. *)
Shown == \A i \in 1 .. Len(shown) : shown[i] = cursor - Len(shown) + i - 1

RangeFits ==
    /\ floor <= tail
    /\ cmd.kind \in {"poll", "tail"}
    /\ cmd.kind = "poll" =>
         cursor = cmd.start + Len(shown) /\ remaining = cmd.limit - Len(shown)
    /\ cmd.kind = "tail" =>
         /\ cursor = Back(Cli!TailCount(cmd.args)) + Len(shown)
         /\ remaining = Cli!TailCount(cmd.args) - Len(shown)
    /\ Len(shown) > 0 => cursor <= tail /\ remaining >= 0

CliInv ==
    /\ CliTypes
    /\ \A i \in 1 .. (Len(shown) - 1) : shown[i + 1] = shown[i] + 1
    /\ step \in {"append", "check_tail"} => shown = <<>>
    /\ step = "append" => cmd.kind \in {"intention", "decider-policy", "voter-policy"}
    /\ step = "check_tail" =>
         floor <= cliLog[agent_bus_id] /\ cmd.kind \in {"poll", "tail", "check-tail"}
    /\ step \in {"read", "follow"} => Shown
    /\ step = "read" => RangeFits

(* The count of a tail command is a number that was typed, or the default. *)
LEMMA TailCountType ==
    ASSUME Cli!BusCliAssumption, NEW args \in Cli!TailArgs
    PROVE  Cli!TailCount(args) \in Int
<1>1. \A w \in Cli!Words : w.n \in Int
    BY DEF Cli!Words, Cli!Word, Cli!BusCliAssumption
<1>2. /\ DOMAIN args \in {{}, {1}, {1, 2}} /\ \A i \in DOMAIN args : args[i] \in Cli!Words
    <2>1. CASE args = <<>>
        BY <2>1
    <2>2. ASSUME NEW w \in Cli!Words, args = <<w>>
          PROVE  DOMAIN args \in {{}, {1}, {1, 2}} /\ \A i \in DOMAIN args : args[i] \in Cli!Words
        <3>1. DOMAIN args = {1} /\ args[1] = w
            BY <2>2
        <3> QED BY <3>1
    <2>3. ASSUME NEW v \in Cli!Words, NEW w \in Cli!Words, args = <<v, w>>
          PROVE  DOMAIN args \in {{}, {1}, {1, 2}} /\ \A i \in DOMAIN args : args[i] \in Cli!Words
        <3>1. DOMAIN args = {1, 2} /\ args[1] = v /\ args[2] = w
            BY <2>3
        <3> QED BY <3>1
    <2> QED BY <2>1, <2>2, <2>3 DEF Cli!TailArgs
<1> DEFINE numbers == {i \in DOMAIN args : args[i].kind = "n"}
<1>3. CASE numbers = {}
    BY <1>3 DEF Cli!TailCount, Cli!BusCliAssumption
<1>4. CASE numbers # {}
    <2>1. \E i \in numbers : \A j \in numbers : j <= i
        <3>1. numbers \subseteq {1, 2}
            BY <1>2
        <3> HIDE DEF numbers
        <3>2. CASE 2 \in numbers
            BY <3>1, <3>2
        <3>3. CASE 2 \notin numbers
            <4>1. numbers = {1}
                BY <1>4, <3>1, <3>3
            <4> QED BY <4>1
        <3> QED BY <3>2, <3>3
    <2>2. PICK i \in numbers : i = CHOOSE k \in numbers : \A j \in numbers : j <= k
        BY <2>1
    <2>3. Cli!TailCount(args) = args[i].n
        BY <1>4, <2>2 DEF Cli!TailCount
    <2> QED BY <1>1, <1>2, <2>3
<1> QED BY <1>3, <1>4

LEMMA CommandFields ==
    ASSUME Cli!BusCliAssumption, NEW c \in Cli!Commands \cup {Cli!NoCommand}
    PROVE  /\ c.kind = "poll" => c.start \in Int /\ c.limit \in Int
           /\ c.kind = "tail" => Cli!TailCount(c.args) \in Int
           /\ c.kind # "none" => c.kind \in {"intention", "decider-policy", "voter-policy",
                                             "poll", "tail", "check-tail"}
<1>1. CASE c \in [kind : {"tail"}, args : Cli!TailArgs]
    BY <1>1, TailCountType
<1>2. CASE c \in [kind : {"poll"}, start : Starts, limit : Counts]
    BY <1>2 DEF Cli!BusCliAssumption
<1>3. CASE c \in [kind : {"intention", "decider-policy", "voter-policy"}, valid : BOOLEAN]
    BY <1>3
<1>4. CASE c \in [kind : {"check-tail"}]
    BY <1>4
<1>5. CASE c = Cli!NoCommand
    BY <1>5 DEF Cli!NoCommand
<1> QED BY <1>1, <1>2, <1>3, <1>4, <1>5 DEF Cli!Commands

(* A page goes on where the last one ended.                                *)
LEMMA ShowsPage ==
    ASSUME CliTypes, Shown, NEW n \in Nat \ {0},
           shown' = shown \o Cli!Positions(cursor, n), cursor' = cursor + n
    PROVE  /\ shown' \in Seq(Int) /\ Len(shown') = Len(shown) + n /\ Shown'
           /\ \A i \in 1 .. (Len(shown') - 1) : shown'[i + 1] = shown'[i] + 1
<1> DEFINE more == Cli!Positions(cursor, n)
<1>1. cursor \in Int /\ shown \in Seq(Int) /\ Len(shown) \in Nat
    BY DEF CliTypes
<1>2. more \in Seq(Int) /\ Len(more) = n /\ \A i \in 1 .. n : more[i] = cursor + i - 1
    BY <1>1 DEF Cli!Positions
<1>0. shown' = shown \o more
    OBVIOUS
<1> HIDE DEF more
<1>3. shown' \in Seq(Int) /\ Len(shown') = Len(shown) + n
    <2>1. shown \o more \in Seq(Int) /\ Len(shown \o more) = Len(shown) + Len(more)
        BY <1>1, <1>2, ConcatProperties
    <2> QED BY <1>0, <1>2, <2>1
<1>4. ASSUME NEW i \in 1 .. Len(shown') PROVE shown'[i] = cursor' - Len(shown') + i - 1
    <2>0. i \in Nat /\ 1 <= i /\ i <= Len(shown) + n
        BY <1>1, <1>3
    <2>1. cursor' - Len(shown') = cursor - Len(shown)
        BY <1>1, <1>3
    <2>2. CASE i <= Len(shown)
        <3>1. i \in 1 .. Len(shown) /\ shown'[i] = shown[i]
            BY <1>0, <1>1, <1>2, <2>0, <2>2
        <3> QED BY <2>1, <3>1 DEF Shown
    <2>3. CASE i > Len(shown)
        <3>1. i - Len(shown) \in 1 .. n
            BY <1>1, <2>0, <2>3
        <3>2. shown'[i] = more[i - Len(shown)]
            BY <1>0, <1>1, <1>2, <2>0, <2>3
        <3> QED BY <1>1, <1>2, <2>0, <2>1, <3>1, <3>2
    <2> QED BY <1>1, <2>0, <2>2, <2>3
<1>5. Shown'
    BY <1>4 DEF Shown
<1>6. ASSUME NEW i \in 1 .. (Len(shown') - 1) PROVE shown'[i + 1] = shown'[i] + 1
    <2>1. i \in 1 .. Len(shown') /\ i + 1 \in 1 .. Len(shown') /\ i \in Nat
        BY <1>1, <1>3
    <2>2. cursor' \in Int /\ Len(shown') \in Nat
        BY <1>1, <1>3
    <2>3. shown'[i] = cursor' - Len(shown') + i - 1
        BY <1>4, <2>1
    <2>4. shown'[i + 1] = cursor' - Len(shown') + (i + 1) - 1
        BY <1>4, <2>1
    <2> QED BY <2>1, <2>2, <2>3, <2>4
<1> QED BY <1>3, <1>5, <1>6

LEMMA RangeSeen ==
    ASSUME Cli!BusCliAssumption, CliInv
    PROVE  Cli!ShownWithoutGaps /\ Cli!RangeIsShown
<1> DEFINE k == Len(shown)
<1>1. /\ shown \in Seq(Int) /\ k \in Nat /\ cursor \in Int /\ tail \in Nat /\ remaining \in Int
      /\ cmd \in Cli!Commands \cup {Cli!NoCommand}
    BY DEF CliInv, CliTypes
<1>2. ASSUME step \in {"read", "follow"}, shown # <<>> PROVE cursor = shown[Len(shown)] + 1
    <2>1. k \in 1 .. k
        BY <1>1, <1>2, EmptySeq
    <2>2. shown[k] = cursor - k + k - 1
        BY <1>2, <2>1 DEF CliInv, Shown
    <2> QED BY <1>1, <2>2
<1>3. Cli!ShownWithoutGaps
    BY <1>2 DEF CliInv, Cli!ShownWithoutGaps
<1>4. ASSUME step = "read", ~ Cli!MoreToRead
      PROVE  /\ tail >= floor
             /\ cmd.kind = "tail" /\ Cli!TailCount(cmd.args) >= 0 =>
                  k = (IF tail < Cli!TailCount(cmd.args) THEN tail ELSE Cli!TailCount(cmd.args))
             /\ cmd.kind = "poll" /\ k < cmd.limit =>
                  \A p \in 0 .. (tail - 1) : p >= cmd.start => \E i \in DOMAIN shown : shown[i] = p
    <2>1. RangeFits /\ Shown /\ (cursor >= tail \/ remaining <= 0)
        BY <1>1, <1>4 DEF CliInv, Cli!MoreToRead
    <2>2. tail >= floor
        BY <1>1, <2>1 DEF RangeFits, CliInv, CliTypes
    <2>3. ASSUME cmd.kind = "tail", Cli!TailCount(cmd.args) >= 0
          PROVE  k = (IF tail < Cli!TailCount(cmd.args) THEN tail ELSE Cli!TailCount(cmd.args))
        <3>1. PICK n \in Int : n = Cli!TailCount(cmd.args)
            BY <1>1, <2>3, CommandFields
        <3>2. /\ cursor = (IF tail - n > 0 THEN tail - n ELSE 0) + k /\ remaining = n - k
              /\ n >= 0 /\ (k > 0 => cursor <= tail /\ remaining >= 0)
            BY <2>1, <2>3, <3>1 DEF RangeFits, Back
        <3> HIDE DEF k
        <3>3. k = IF tail < n THEN tail ELSE n
            BY <1>1, <2>1, <3>2
        <3> QED BY <3>1, <3>3
    <2>4. ASSUME cmd.kind = "poll", k < cmd.limit,
                 NEW p \in 0 .. (tail - 1), p >= cmd.start
          PROVE  \E i \in DOMAIN shown : shown[i] = p
        <3>1. cmd.start \in Int /\ cmd.limit \in Int
            BY <1>1, <2>4, CommandFields
        <3>2. cursor = cmd.start + k /\ remaining = cmd.limit - k
            BY <2>1, <2>4 DEF RangeFits
        <3>3. cursor >= tail
            BY <1>1, <2>1, <2>4, <3>1, <3>2
        <3> DEFINE i == p - cmd.start + 1
        <3>4. i \in 1 .. k
            BY <1>1, <2>4, <3>1, <3>2, <3>3
        <3>5. shown[i] = cursor - k + i - 1
            BY <2>1, <3>4 DEF Shown
        <3>6. shown[i] = p
            BY <1>1, <3>1, <3>2, <3>5
        <3> QED BY <1>1, <3>4, <3>6
    <2> QED BY <2>2, <2>3, <2>4
<1>5. Cli!RangeIsShown
    BY <1>4 DEF Cli!RangeIsShown
<1> QED BY <1>3, <1>5

LEMMA CliInit == Cli!Init => CliInv
<1> SUFFICES ASSUME Cli!Init PROVE CliInv
    OBVIOUS
<1>1. Len(shown) = 0 /\ shown = <<>> /\ shown \in Seq(Int) /\ step = "prompt"
    BY DEF Cli!Init
<1>2. CliTypes
    BY <1>1 DEF Cli!Init, CliTypes, CliSteps
<1> QED BY <1>1, <1>2 DEF CliInv

(* Steps at the prompt, and steps that end a command.                      *)
LEMMA CliIdles ==
    ASSUME CliInv,
           \/ \E b \in CliBuses : Cli!OtherAppends(b) \/ Cli!SetId(b)
           \/ Cli!Quit \/ Cli!AppendEntry \/ Cli!RequestFails \/ Cli!KeyPressed
    PROVE  CliInv'
<1>0. CliTypes
    BY DEF CliInv
<1>1. ASSUME NEW b \in CliBuses, Cli!OtherAppends(b) PROVE CliInv'
    <2>1. /\ UNCHANGED <<agent_bus_id, step, cmd, cursor, tail, remaining, shown, floor>>
          /\ cliLog' \in [CliBuses -> Nat] /\ cliLog[agent_bus_id] \in Nat
          /\ cliLog'[agent_bus_id] \in Nat /\ cliLog[agent_bus_id] <= cliLog'[agent_bus_id]
        BY <1>0, <1>1 DEF Cli!OtherAppends, Cli!reading, CliTypes
    <2>2. CliTypes'
        BY <1>0, <2>1 DEF CliTypes
    <2>3. step = "check_tail" => floor <= cliLog'[agent_bus_id]
        BY <1>0, <2>1 DEF CliInv, CliTypes
    <2> QED BY <2>1, <2>2, <2>3 DEF CliInv, Shown, RangeFits, Back, Cli!TailCount
<1>2. ASSUME NEW b \in CliBuses, Cli!SetId(b) PROVE CliInv'
    <2>1. /\ UNCHANGED <<cliLog, step, cursor, tail, remaining, floor>>
          /\ agent_bus_id' = b /\ shown' = <<>> /\ cmd' = Cli!NoCommand /\ step = "prompt"
        BY <1>2 DEF Cli!SetId, Cli!reading
    <2>2. CliTypes' /\ Len(shown') = 0
        BY <1>0, <2>1 DEF CliTypes
    <2> QED BY <2>1, <2>2 DEF CliInv
<1>3. ASSUME Cli!Quit \/ Cli!AppendEntry \/ Cli!RequestFails \/ Cli!KeyPressed PROVE CliInv'
    <2>1. /\ UNCHANGED <<agent_bus_id, cmd, cursor, tail, remaining, shown, floor>>
          /\ cliLog' \in [CliBuses -> Nat] /\ step' \in {"prompt", "exited"}
        BY <1>0, <1>3 DEF Cli!Quit, Cli!AppendEntry, Cli!RequestFails, Cli!KeyPressed, Cli!Ends,
                          Cli!reading, CliTypes
    <2>2. CliTypes'
        BY <1>0, <2>1 DEF CliTypes, CliSteps
    <2> QED BY <2>1, <2>2 DEF CliInv
<1> QED BY <1>1, <1>2, <1>3

LEMMA CliEnters ==
    ASSUME Cli!BusCliAssumption, CliInv, NEW c \in Cli!Commands, Cli!Enter(c)
    PROVE  CliInv'
<1>0. CliTypes
    BY DEF CliInv
<1>1. /\ UNCHANGED <<cliLog, agent_bus_id, cursor, tail, remaining>>
      /\ cmd' = c /\ shown' = <<>> /\ floor' = cliLog[agent_bus_id]
      /\ step' \in {"append", "check_tail", "prompt", "exited"}
      /\ step' = "append" => c.kind \in {"intention", "decider-policy", "voter-policy"}
      /\ step' = "check_tail" => c.kind \notin {"intention", "decider-policy", "voter-policy"}
    BY DEF Cli!Enter, Cli!IsAppend, Cli!Ends, Cli!Tail_, Cli!reading
<1>2. CliTypes' /\ Len(shown') = 0
    BY <1>0, <1>1 DEF CliTypes, CliSteps
<1>3. c.kind \in {"intention", "decider-policy", "voter-policy", "poll", "tail", "check-tail"}
    BY DEF Cli!Commands
<1>4. floor' <= cliLog'[agent_bus_id']
    BY <1>0, <1>1 DEF CliTypes
<1> QED BY <1>1, <1>2, <1>3, <1>4 DEF CliInv

LEMMA CliFindsEnd ==
    ASSUME Cli!BusCliAssumption, CliInv, Cli!FindEndPosition
    PROVE  CliInv'
<1>0. CliTypes /\ step = "check_tail" /\ shown = <<>> /\ floor <= cliLog[agent_bus_id]
      /\ cmd.kind \in {"poll", "tail", "check-tail"}
    BY DEF CliInv, Cli!FindEndPosition
<1>1. /\ UNCHANGED <<cliLog, agent_bus_id, cmd, shown, floor>>
      /\ tail' = cliLog[agent_bus_id] /\ tail' \in Nat
    BY <1>0 DEF Cli!FindEndPosition, Cli!Tail_, CliTypes
<1>2. /\ cmd.kind = "poll" => cmd.start \in Int /\ cmd.limit \in Int
      /\ cmd.kind = "tail" => Cli!TailCount(cmd.args) \in Int
    BY <1>0, CommandFields DEF CliTypes
<1>3. Len(shown') = 0 /\ shown' = <<>>
    BY <1>0, <1>1
<1>4. CASE cmd.kind = "check-tail"
    <2>1. step' \in {"prompt", "exited"} /\ UNCHANGED <<cursor, remaining>>
        BY <1>4 DEF Cli!FindEndPosition, Cli!Ends
    <2>2. CliTypes'
        BY <1>0, <1>1, <2>1 DEF CliTypes, CliSteps
    <2> QED BY <1>3, <2>1, <2>2 DEF CliInv
<1>5. CASE cmd.kind = "poll"
    <2>1. step' = "read" /\ cursor' = cmd.start /\ remaining' = cmd.limit
        BY <1>5 DEF Cli!FindEndPosition
    <2>2. CliTypes'
        BY <1>0, <1>1, <1>2, <1>5, <2>1 DEF CliTypes, CliSteps
    <2>3. RangeFits' /\ Shown'
        BY <1>0, <1>1, <1>2, <1>3, <1>5, <2>1 DEF RangeFits, Shown
    <2> QED BY <1>3, <2>1, <2>2, <2>3 DEF CliInv
<1>6. CASE cmd.kind = "tail"
    <2>1. /\ step' = "read" /\ remaining' = Cli!TailCount(cmd.args)
          /\ cursor' = Cli!StartOfTail(Cli!TailCount(cmd.args))
        BY <1>6 DEF Cli!FindEndPosition
    <2>2. cursor' = IF tail' - Cli!TailCount(cmd.args) > 0
                    THEN tail' - Cli!TailCount(cmd.args) ELSE 0
        BY <1>1, <2>1 DEF Cli!StartOfTail, Cli!Tail_
    <2>3. cursor' \in Int /\ remaining' \in Int
        BY <1>1, <1>2, <1>6, <2>1, <2>2
    <2>4. CliTypes'
        BY <1>0, <1>1, <2>1, <2>3 DEF CliTypes, CliSteps
    <2>5. (Cli!TailCount(cmd.args))' = Cli!TailCount(cmd.args)
        BY <1>1 DEF Cli!TailCount
    <2>6. RangeFits'
        BY <1>0, <1>1, <1>2, <1>3, <1>6, <2>1, <2>2, <2>3, <2>5 DEF RangeFits, Back
    <2>7. Shown'
        BY <1>3 DEF Shown
    <2> QED BY <1>3, <2>1, <2>4, <2>6, <2>7 DEF CliInv
<1> QED BY <1>0, <1>4, <1>5, <1>6

LEMMA CliReads ==
    ASSUME Cli!BusCliAssumption, CliInv, NEW n \in 1 .. CliPage,
           Cli!ReadNext(n) \/ Cli!FollowPage(n)
    PROVE  CliInv'
<1>1. CliTypes /\ Shown /\ n \in Nat \ {0} /\ step' = step /\ step \in {"read", "follow"}
    BY DEF CliInv, Cli!ReadNext, Cli!FollowPage, Cli!reading, Cli!BusCliAssumption
<1>2. /\ UNCHANGED <<cliLog, agent_bus_id, cmd, tail, floor>>
      /\ shown' = shown \o Cli!Positions(cursor, n) /\ cursor' = cursor + n
    BY DEF Cli!ReadNext, Cli!FollowPage, Cli!reading
<1>3. /\ shown' \in Seq(Int) /\ Len(shown') = Len(shown) + n /\ Shown'
      /\ \A i \in 1 .. (Len(shown') - 1) : shown'[i + 1] = shown'[i] + 1
    BY <1>1, <1>2, ShowsPage
<1>4. /\ cursor \in Int /\ tail \in Nat /\ remaining \in Int /\ Len(shown) \in Nat
      /\ cursor' \in Int
    BY <1>1, <1>2 DEF CliTypes
<1>5. CASE Cli!ReadNext(n)
    <2>1. step = "read" /\ remaining' = remaining - n /\ n <= tail - cursor /\ n <= remaining
        BY <1>5 DEF Cli!ReadNext
    <2>2. RangeFits
        BY <2>1 DEF CliInv
    <2>3. /\ cmd.kind = "poll" => cmd.start \in Int /\ cmd.limit \in Int
          /\ cmd.kind = "tail" => Cli!TailCount(cmd.args) \in Int
        BY <1>1, CommandFields DEF CliTypes
    <2>4. (Cli!TailCount(cmd.args))' = Cli!TailCount(cmd.args)
        BY <1>2 DEF Cli!TailCount
    <2>5. RangeFits'
        <3>1. floor' <= tail' /\ cmd'.kind \in {"poll", "tail"}
            BY <1>2, <2>2 DEF RangeFits
        <3>0. /\ Len(shown') = Len(shown) + n /\ cursor' = cursor + n /\ remaining' = remaining - n
              /\ Len(shown) \in Int /\ n \in Int /\ cursor \in Int /\ remaining \in Int
            BY <1>1, <1>2, <1>3, <1>4, <2>1
        <3>2. cmd.kind = "poll" => cursor' = cmd.start + Len(shown') /\ remaining' = cmd.limit - Len(shown')
            <4> SUFFICES ASSUME cmd.kind = "poll"
                         PROVE  cursor' = cmd.start + Len(shown') /\ remaining' = cmd.limit - Len(shown')
                OBVIOUS
            <4>1. PICK s \in Int : s = cmd.start
                BY <2>3
            <4>2. PICK k \in Int : k = cmd.limit
                BY <2>3
            <4>3. cursor = s + Len(shown) /\ remaining = k - Len(shown)
                BY <2>2, <4>1, <4>2 DEF RangeFits
            <4>4. cursor' = s + Len(shown') /\ remaining' = k - Len(shown')
                BY <3>0, <4>3
            <4> QED BY <4>1, <4>2, <4>4
        <3>3. cmd.kind = "tail" =>
                /\ cursor' = Back(Cli!TailCount(cmd.args)) + Len(shown')
                /\ remaining' = Cli!TailCount(cmd.args) - Len(shown')
            <4> SUFFICES ASSUME cmd.kind = "tail"
                         PROVE  /\ cursor' = Back(Cli!TailCount(cmd.args)) + Len(shown')
                                /\ remaining' = Cli!TailCount(cmd.args) - Len(shown')
                OBVIOUS
            <4>1. PICK k \in Int : k = Cli!TailCount(cmd.args)
                BY <2>3
            <4>2. Back(k) \in Int /\ cursor = Back(k) + Len(shown) /\ remaining = k - Len(shown)
                BY <1>4, <2>2, <4>1 DEF RangeFits, Back
            <4>3. cursor' = Back(k) + Len(shown') /\ remaining' = k - Len(shown')
                BY <3>0, <4>2
            <4> QED BY <4>1, <4>3
        <3>4. cursor' <= tail' /\ remaining' >= 0
            BY <1>1, <1>2, <1>4, <2>1
        <3>5. (Back(Cli!TailCount(cmd.args)))' = Back(Cli!TailCount(cmd.args))
            BY <1>2, <2>4 DEF Back
        <3> QED BY <1>2, <2>4, <3>1, <3>2, <3>3, <3>4, <3>5 DEF RangeFits
    <2>6. CliTypes'
        BY <1>1, <1>2, <1>3, <1>4, <2>1 DEF CliTypes
    <2> QED BY <1>1, <1>3, <2>1, <2>5, <2>6 DEF CliInv
<1>6. CASE Cli!FollowPage(n)
    <2>1. step = "follow" /\ remaining' = remaining
        BY <1>6 DEF Cli!FollowPage
    <2>2. CliTypes'
        BY <1>1, <1>2, <1>3, <1>4, <2>1 DEF CliTypes
    <2> QED BY <1>1, <1>3, <2>1, <2>2 DEF CliInv
<1> QED BY <1>5, <1>6

(* The range ends at the tail it was read up to, where follow mode begins. *)
LEMMA CliEndsRange ==
    ASSUME Cli!BusCliAssumption, CliInv, Cli!EntriesShown
    PROVE  CliInv'
<1>1. /\ CliTypes /\ Shown /\ RangeFits /\ step = "read"
      /\ cursor >= tail \/ remaining <= 0
      /\ UNCHANGED <<cliLog, agent_bus_id, cmd, tail, remaining, shown, floor>>
      /\ \/ cmd.kind = "tail" /\ step' = "follow" /\ cursor' = tail
         \/ step' \in {"prompt", "exited"} /\ cursor' = cursor
    BY DEF CliInv, CliTypes, Cli!EntriesShown, Cli!MoreToRead, Cli!FollowFrom, Cli!Ends
<1>2. /\ cursor \in Int /\ tail \in Nat /\ remaining \in Int /\ Len(shown) \in Nat
    BY <1>1 DEF CliTypes
<1>3. CliTypes'
    BY <1>1, <1>2 DEF CliTypes, CliSteps
<1>4. ASSUME step' = "follow" PROVE Shown'
    <2>1. PICK k \in Nat : k = Len(shown)
        BY <1>2
    <2>2. CASE k = 0
        BY <1>1, <2>1, <2>2 DEF Shown
    <2>3. CASE k > 0
        <3>1. PICK n \in Int : n = Cli!TailCount(cmd.args)
            BY <1>1, <1>4, CommandFields DEF CliTypes
        <3>2. /\ cursor = (IF tail - n > 0 THEN tail - n ELSE 0) + k /\ remaining = n - k
              /\ cursor <= tail /\ remaining >= 0
            BY <1>1, <1>4, <2>1, <2>3, <3>1 DEF RangeFits, Back
        <3>3. cursor = tail
            BY <1>1, <1>2, <2>1, <2>3, <3>2
        <3>4. cursor' = cursor
            BY <1>1, <3>3
        <3> QED BY <1>1, <3>4 DEF Shown
    <2> QED BY <2>1, <2>2, <2>3
<1> QED BY <1>1, <1>3, <1>4 DEF CliInv

LEMMA CliStep ==
    ASSUME Cli!BusCliAssumption, CliInv, [Cli!Next]_(Cli!vars)
    PROVE  CliInv' /\ Cli!ShownWithoutGaps' /\ Cli!RangeIsShown'
<1>1. CliInv'
    <2>1. ASSUME UNCHANGED Cli!vars PROVE CliInv'
        <3>1. UNCHANGED <<cliLog, agent_bus_id, step, cmd, cursor, tail, remaining, shown, floor>>
            BY <2>1 DEF Cli!vars
        <3>2. CliTypes' = CliTypes /\ Shown' = Shown
            BY <3>1 DEF CliTypes, Shown
        <3>3. (Cli!TailCount(cmd.args))' = Cli!TailCount(cmd.args)
            BY <3>1 DEF Cli!TailCount
        <3>4. (Back(Cli!TailCount(cmd.args)))' = Back(Cli!TailCount(cmd.args))
            BY <3>1, <3>3 DEF Back
        <3>5. RangeFits' = RangeFits
            BY <3>1, <3>3, <3>4 DEF RangeFits
        <3> QED BY <3>1, <3>2, <3>5 DEF CliInv
    <2>2. ASSUME \/ \E b \in CliBuses : Cli!OtherAppends(b) \/ Cli!SetId(b)
                 \/ Cli!Quit \/ Cli!AppendEntry \/ Cli!RequestFails \/ Cli!KeyPressed
          PROVE  CliInv'
        BY <2>2, CliIdles
    <2>3. ASSUME NEW c \in Cli!Commands, Cli!Enter(c) PROVE CliInv'
        BY <2>3, CliEnters
    <2>4. ASSUME Cli!FindEndPosition PROVE CliInv'
        BY <2>4, CliFindsEnd
    <2>5. ASSUME Cli!EntriesShown PROVE CliInv'
        BY <2>5, CliEndsRange
    <2>6. ASSUME NEW n \in 1 .. CliPage, Cli!ReadNext(n) \/ Cli!FollowPage(n) PROVE CliInv'
        BY <2>6, CliReads
    <2> QED BY <2>1, <2>2, <2>3, <2>4, <2>5, <2>6, Zenon DEF Cli!Next, Cli!Reply
<1>2. CliInv => Cli!ShownWithoutGaps /\ Cli!RangeIsShown
    BY RangeSeen
<1>3. (CliInv => Cli!ShownWithoutGaps /\ Cli!RangeIsShown)'
    BY <1>1, RangeSeen, PTL
<1> QED BY <1>1, <1>3

(* A reader of the in-memory bus gets the matching entries below its       *)
(* cursor, in order and none expired, however it pages and whatever is     *)
(* appended in between; and the CLI shows a range, and what follows it,    *)
(* without a gap or a repetition.                                          *)
THEOREM ReadersAreServed ==
    ASSUME Simple!SimpleBusAssumption, Cli!BusCliAssumption
    PROVE  Simple!Spec /\ Cli!Spec => ReadersGetTheirRange
<1> DEFINE A == /\ Simple!NothingSkipped' /\ Simple!CompleteMeansAll /\ Simple!NoExpiredDelivery
                /\ Cli!ShownWithoutGaps' /\ Cli!RangeIsShown'
<1>1. /\ Simple!Init => SimpleInv
      /\ Cli!Init => CliInv
    BY SimpleInit, CliInit
<1>2. SimpleInv /\ CliInv /\ [Simple!Next]_(Simple!vars) /\ [Cli!Next]_(Cli!vars)
        => SimpleInv' /\ CliInv' /\ A
    BY SimpleStep, CliStep
<1> HIDE DEF A
<1>3. Simple!Spec /\ Cli!Spec => [][A]_<<simpleVars, cliVars>>
    BY <1>1, <1>2, PTL DEF Simple!Spec, Cli!Spec
<1> QED BY <1>3, PTL DEF ReadersGetTheirRange, A

=============================================================================
