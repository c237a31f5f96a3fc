------------------------------ MODULE MCEngine ------------------------------
(***************************************************************************)
(* Engine on small instances.  Every behaviour plays one part, chosen in   *)
(* the initial state: what the policy provider publishes, what the calls   *)
(* propose and what the environment may do.  The parts share one set of    *)
(* constants; `Within` keeps a behaviour inside the bounds of its part.    *)
(***************************************************************************)
EXTENDS Engine, TLC

CONSTANTS v1, c1, c2, c3, d1, d2, k1, k2

VARIABLE part

NoVoters == [v \in VoterIds |-> Absent]
AllWith(c) == [v \in VoterIds |-> c]

On      == [decider |-> "OnByDefault", voters |-> NoVoters]
Off     == [decider |-> "OffByDefault", voters |-> NoVoters]
Voting  == [decider |-> "FirstBooleanWins", voters |-> AllWith(c1)]
Changed == [decider |-> "FirstBooleanWins", voters |-> AllWith(c2)]
Async   == [decider |-> "FirstBooleanWins", voters |-> NoVoters]

Foreign == [decider |-> "FirstBooleanWins", voters |-> AllWith(c3)]

(* Each part reads a stretch of these revisions.                           *)
Revisions ==
    [v \in Versions |->
       <<On, Voting, Off, Async, Changed, Foreign>>[v + 1]]

(* Only the node of d1 supports c2, and none supports c3.                  *)
SupportedConfigs == [c \in Calls |-> IF c = d1 THEN {c1, c2} ELSE {c1}]

(* Votes of asynchronous voters for the intention at p, some of them early *)
(* or unreadable.                                                          *)
AsyncVotes(p) == {Vote(p, b) : b \in {"true", "false", "other"}}

(* An intention another client appended with an exact version constraint.  *)
RequiresFirst ==
    [type |-> "Intention", constraint |-> "required", version |-> 1, kind |-> "string"]

(* A batch from another client that no node can read.                      *)
BrokenBatch(expected, new, decider, op) ==
    [type |-> "PolicyBatch", expected |-> expected, new |-> new,
     decider |-> decider, ops |-> AllWith(op)]

NoOperation == BrokenBatch(NoVersion, 1, "OnByDefault", Missing)
NoDecider   == BrokenBatch(1, 2, Unrecognized, Keep)

LegacyOnly == {[type |-> "Legacy"], RequiresFirst, NoDecider}

FromOthers == AsyncVotes(1) \cup AsyncVotes(2) \cup LegacyOnly \cup {NoOperation}

(* The revisions a part reads, and its bounds.                             *)
Part(from, to, tail, drives, kind, entries, appends, failures) ==
    [from |-> from, to |-> to, tail |-> tail, drives |-> drives, kind |-> kind,
     entries |-> entries, appends |-> appends, failures |-> failures]

Parts ==
    [race     |-> Part(1, 1, 7, 2, "string", {}, 0, 0),
     faults   |-> Part(1, 1, 6, 2, "string", {}, 0, 1),
     create   |-> Part(0, 1, 7, 1, "string", {}, 0, 1),
     policy   |-> Part(1, 2, 6, 2, "string", {}, 0, 0),
     nodes    |-> Part(3, 5, 6, 2, "string", {}, 0, 0),
     legacy   |-> Part(1, 1, 5, 2, "string", LegacyOnly, 1, 0),
     votes    |-> Part(3, 3, 7, 1, "group", AsyncVotes(1) \cup {NoOperation}, 3, 0),
     external |-> Part(3, 3, 6, 2, "group", {Vote(2, b) : b \in {"true", "false"}}, 1, 0)]

Moving(calls, rest) == {c \in calls : pc[c] # rest}

(* create_bus is played in two parts; elsewhere the bus exists.  The part  *)
(* about nodes has any two of the calls.  Only there do the drives differ: *)
(* in the other parts d1 is the first to append its intention, which loses *)
(* no behaviour but for their names.                                       *)
Within ==
    LET here == Parts[part] IN
    /\ Len(log) <= here.tail
    /\ published <= here.to + 1
    /\ \A c \in Calls : ctx[c].version \in {NoVersion} \cup (here.from .. here.to)
    /\ Cardinality(Moving(Drives, "idle")) <= here.drives
    /\ IF part = "nodes"
         THEN Cardinality(Moving(Drives, "idle") \cup Moving(Creators, "create")) <= 2
         ELSE /\ Moving(Creators, "create") = {} \/ part = "create"
              /\ ctx[d2].prop # NoPosition => ctx[d1].prop # NoPosition
    /\ external <= here.appends
    /\ faults <= here.failures

(* What the step appended belongs to the part.                             *)
AppendsWithin ==
    LET here == Parts[part]
        e    == log'[Len(log')] IN
    IF external' # external THEN e \in here.entries
    ELSE log' # log /\ e.type = "Intention" => e.kind = here.kind

InitEngine == part \in DOMAIN Parts /\ Init

NextEngine ==
    /\ Next
    /\ UNCHANGED part
    /\ published > Parts[part].from \/ published' > published
    /\ Within'
    /\ AppendsWithin

SpecEngine == InitEngine /\ [][NextEngine]_<<vars, part>>

Symmetry == Permutations(Creators)

=============================================================================
