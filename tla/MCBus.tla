------------------------------- MODULE MCBus --------------------------------
(***************************************************************************)
(* Buses and their readers: WriteOnceAgentBus ("log"), the in-memory bus   *)
(* ("simple"), the bus CLI as a reader ("cli") and, where progress is      *)
(* checked, a gate that waits for a voter and a decider ("roles").  A      *)
(* behaviour is about one of them; the others stay as they began.          *)
(***************************************************************************)
EXTENDS WriteOnceBus, BusReaders, TLC

CONSTANTS
    Parts,
    a1, a2, a3, r1, h1, h2,
    Poller, Pager                \* readers of the in-memory bus

(* a1 and r1 share a handle; the other appends have one of their own.      *)
TwoHandles == [c \in Calls |-> IF c \in {a1, r1} THEN h1 ELSE h2]

AllOrFirst == {Appends, {a1}, {}}
NoFilter   == {Appends}

(* One reader of each kind, with a filter and a page size of its own.      *)
ReaderHow    == [r \in Readers |-> IF r = Poller THEN "poll"
                                   ELSE IF r = Pager THEN "read" ELSE "block"]
ReaderFilter == [r \in Readers |-> IF r = Poller THEN {"x"}
                                   ELSE IF r = Pager THEN {"x", "y"} ELSE {"y"}]
ReaderPage   == [r \in Readers |-> IF r = Pager THEN 1 ELSE 2]

(* Numbers typed by the user.                                              *)
TypedCounts == {-1, 0, 2}
TypedStarts == {-1, 2}

VARIABLES
    part,
    log, decider, voter, gate, sent, failures

rolesVars == <<log, decider, voter, gate, sent, failures>>

Roles == INSTANCE BusRoles WITH
           Deciders <- {"d"}, Voters <- {"v"}, Gates <- {"g"}, Stoppable <- {},
           Clients <- {[type |-> "decider_policy", policy |-> "first"]},
           DeciderPage <- 2, GatePage <- 1, MaxLog <- 6, MaxFaults <- 1, faults <- failures

ASSUME BusConstants ==
    Simple!SimpleBusAssumption /\ Cli!BusCliAssumption /\ Roles!RolesAssumption

AllVars == <<part, vars, simpleVars, cliVars, rolesVars>>

InitBus ==
    /\ part \in Parts
    /\ Init /\ Simple!Init /\ Cli!Init /\ Roles!Init
    /\ part # "cli" => repl

LogStays    == UNCHANGED <<part, simpleVars, cliVars, rolesVars>>
SimpleStays == UNCHANGED <<part, vars, cliVars, rolesVars>>
CliStays    == UNCHANGED <<part, vars, simpleVars, rolesVars>>
RolesStay   == UNCHANGED <<part, vars, simpleVars, cliVars>>

NextBus ==
    \/ part = "log" /\ Next /\ LogStays
    \/ part = "simple" /\ Simple!Next /\ SimpleStays
    \/ part = "cli" /\ Cli!Next /\ CliStays
    \/ part = "roles" /\ Roles!Next /\ RolesStay

SpecBus == InitBus /\ [][NextBus]_AllVars

(* The fairness of every part (see the modules).                           *)
FairSpecBus ==
    /\ SpecBus
    /\ \A c \in Appends : WF_AllVars(part = "log" /\ AppendStep(c) /\ LogStays)
    /\ WF_AllVars(part = "simple" /\ Simple!Tick /\ SimpleStays)
    /\ \A r \in Readers : WF_AllVars(part = "simple" /\ Simple!Goes(r) /\ SimpleStays)
    /\ WF_AllVars(part = "cli" /\ Cli!Reply /\ CliStays)
    /\ WF_AllVars(part = "roles" /\ Roles!DeciderStep("d") /\ RolesStay)
    /\ WF_AllVars(part = "roles" /\ Roles!VoterStep("v") /\ RolesStay)
    /\ WF_AllVars(part = "roles" /\ Roles!GatePoll("g") /\ RolesStay)

(* a2 and a3 differ in nothing, and neither do the buses of the CLI.       *)
Symmetry == Permutations({a2, a3}) \cup Permutations(CliBuses)

-----------------------------------------------------------------------------
(* Whoever waits on a bus gets on: a blocking poll returns on new entries  *)
(* or at its deadline, follow mode shows every entry unless it ends first, *)
(* and a gated intention is decided although votes are lost and retried.   *)
WaitersGetOn ==
    /\ Simple!BlockingPollReturns
    /\ Cli!FollowCatchesUp
    /\ Roles!GatesAnswered

=============================================================================
