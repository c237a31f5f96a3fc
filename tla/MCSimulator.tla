----------------------------- MODULE MCSimulator -----------------------------
(***************************************************************************)
(* Simulator on small instances: tasks and sleeps over two calls of run    *)
(* ("sleep"), or tasks that meet at a barrier again and again ("barrier"). *)
(***************************************************************************)
EXTENDS Simulator

CONSTANT MaxSleepIterations   \* iterations of a run in the part "sleep"

VARIABLE part

InitSimulator == Init /\ part \in {"sleep", "barrier"}

(* In the part "barrier" every poll takes the same time.                   *)
Within ==
    IF part = "sleep"
      THEN iterations <= MaxSleepIterations /\ arrivals = 0
      ELSE runs <= 1 /\ sleeps = {} /\ elapsed <= turns

NextSimulator == Next /\ UNCHANGED part /\ Within'

SpecSimulator == InitSimulator /\ [][NextSimulator]_<<vars, part>>

=============================================================================
