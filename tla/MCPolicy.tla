------------------------------ MODULE MCPolicy ------------------------------
(***************************************************************************)
(* Policies on their way to a decision: the in-memory commit service next  *)
(* to clients that append intentions and votes ("closed") or any entry at  *)
(* any time ("foreign"), and the durable policy register ("register").  A  *)
(* behaviour is about one of them; the others stay as they began.          *)
(***************************************************************************)
EXTENDS PolicyPath

CONSTANTS plain, fancy

VARIABLES part

registerVars == <<register, boot, admin, faults, installed, looked, acked>>

(* The module's own constants allow anything on the bus, in a short log.   *)
Closed == INSTANCE InMemCommit WITH
            Policies <- {"on", "first", "bad"}, Early <- FALSE, Batches <- FALSE,
            MaxLog <- 5

(* One node cannot run the fancy policy.                                   *)
Limited == CHOOSE n \in Nodes : TRUE

MCSupported == [n \in Nodes |-> IF n = Limited THEN {plain} ELSE {plain, fancy}]

ASSUME PolicyConstants ==
    Closed!InMemAssumption /\ InMemAssumption /\ Register!RegisterAssumption

AllVars == <<part, vars, registerVars>>

InitPolicy ==
    /\ part \in {"closed", "foreign", "register"}
    /\ IF part = "foreign" THEN Init ELSE Closed!Init
    /\ Register!Init
    /\ part = "register" => provider.pol = "on"

NextPolicy ==
    \/ part = "closed" /\ Closed!Next /\ UNCHANGED <<part, registerVars>>
    \/ part = "foreign" /\ Next /\ UNCHANGED <<part, registerVars>>
    \/ part = "register" /\ Register!Next /\ UNCHANGED <<part, vars>>

SpecPolicy == InitPolicy /\ [][NextPolicy]_AllVars

=============================================================================
