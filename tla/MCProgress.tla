----------------------------- MODULE MCProgress -----------------------------
(***************************************************************************)
(* Progress of the commit engine: two proposals and a late vote, whose     *)
(* slots are compare-and-swap registers ("engine"), and two drives over    *)
(* one connection of the SQLite storage, whose puts are jobs that wait for *)
(* locks ("storage").  A behaviour is about one of them.                   *)
(***************************************************************************)
EXTENDS Engine

CONSTANTS v1, c1, d1, d2

VARIABLES part, row, jobs, mutex, poisoned, writer, drive, attempts, done, told,
          panicked, accidents

storeVars == <<row, jobs, mutex, poisoned, writer, drive, attempts, done, told,
               panicked, accidents>>

NoVoters == [v \in VoterIds |-> Absent]
Async    == [decider |-> "FirstBooleanWins", voters |-> NoVoters]

OnlyAsync == [v \in Versions |-> Async]

AllSupported == [c \in Calls |-> Configs]

OneVote == {Vote(1, "true")}

Store == INSTANCE SqliteStore WITH
           Conns <- {"c"}, ConnOf <- [d \in Drives |-> "c"],
           Processes <- {"p"}, ProcessOf <- [c \in {"c"} |-> "p"],
           Bus <- "bus", Free <- "free", Last <- 0, MaxFaults <- 1, faults <- accidents

AllVars == <<part, vars, storeVars>>

InitProgress ==
    /\ part \in {"engine", "storage"}
    /\ Init /\ Store!Init

EngineStays == UNCHANGED <<part, vars>>
StoreStays  == UNCHANGED <<part, storeVars>>

NextProgress ==
    \/ part = "engine" /\ Next /\ StoreStays
    \/ part = "storage" /\ Store!Next /\ EngineStays

(* The fairness of either part (see the modules).                          *)
FairSpecProgress ==
    /\ InitProgress /\ [][NextProgress]_AllVars
    /\ \A d \in Drives :
         /\ WF_AllVars(part = "engine" /\ Propose(d) /\ StoreStays)
         /\ WF_AllVars(/\ part = "storage" /\ EngineStays
                       /\ Store!Load(d) \/ Store!Answer(d))
    /\ WF_AllVars(part = "storage" /\ EngineStays /\ \E j \in jobs : Store!Step(j))

(* Every drive of the storage comes to an end, whatever panics, crashes or *)
(* stays busy.                                                             *)
DrivesEnd ==
    \A d \in Drives :
        part = "storage" /\ drive[d].pc = "load" ~> drive[d].pc \in {"end", "failed"}

=============================================================================
