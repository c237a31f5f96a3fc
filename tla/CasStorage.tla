---------------------------- MODULE CasStorage ------------------------------
(***************************************************************************)
(* What a Storage promises for one key: a value with a position, written   *)
(* by compare-and-swap.  A put takes effect at most once, at one instant   *)
(* after it was made, and is answered with what it did then.  An answer    *)
(* that reports a conflict is certain: the put has no effect and never     *)
(* will.  Any other error leaves the caller in doubt.                      *)
(***************************************************************************)
EXTENDS Integers, FiniteSets

VARIABLES
    slot,    \* the value and its position
    open,    \* puts that may still take effect
    done,    \* puts that have met the slot, and whether they matched
    told     \* what callers were answered

vars == <<slot, open, done, told>>

NoRow == -1      \* position of a key that does not exist, and None as `expected`

Ids(S) == {x.id : x \in S}

Init ==
    /\ slot = [position |-> NoRow, value |-> <<>>]
    /\ open = {} /\ done = {} /\ told = {}

Matches(put) ==
    /\ slot.position = put.expected
    /\ put.position > slot.position

Invoke ==
    \E put \in open' \ open :
      /\ put.id \notin Ids(open) \cup Ids(done) \cup Ids(told)
      /\ open' = open \cup {put}
      /\ UNCHANGED <<slot, done, told>>

TakeEffect ==
    \E put \in open :
      /\ open' = open \ {put}
      /\ done' = done \cup {[id |-> put.id, ok |-> Matches(put)]}
      /\ slot' = IF Matches(put) THEN [position |-> put.position, value |-> put.value]
                 ELSE slot
      /\ UNCHANGED told

(* A put that fails, or whose process crashes, before it takes effect.     *)
Vanish ==
    /\ open' \subseteq open
    /\ UNCHANGED <<slot, done, told>>

Answer ==
    \E id \in Ids(told') \ Ids(told), answer \in {"true", "false", "conflict", "error"} :
      /\ told' = told \cup {[id |-> id, answer |-> answer]}
      /\ answer = "true" => [id |-> id, ok |-> TRUE] \in done
      /\ answer = "false" => [id |-> id, ok |-> FALSE] \in done
      /\ answer = "conflict" => id \notin Ids(open) \cup Ids(done)
      /\ UNCHANGED <<slot, open, done>>

Next == Invoke \/ TakeEffect \/ Vanish \/ Answer

Spec == Init /\ [][Next]_vars

=============================================================================
