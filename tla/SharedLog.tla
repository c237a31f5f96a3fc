----------------------------- MODULE SharedLog ------------------------------
(***************************************************************************)
(* What an AgentBus promises to its appenders: a log to which every append *)
(* call adds its payload at most once, atomically and at the end, between  *)
(* its invocation and its answer.  The answer is the payload's position.   *)
(* An append that ends in an error may have taken effect, or take effect   *)
(* later; the caller cannot tell.                                          *)
(***************************************************************************)
EXTENDS Naturals, Sequences

CONSTANT Appends    \* append calls; a call stands for its payload

VARIABLES
    log,       \* the payloads, in order
    status,    \* where each call is, for its caller
    answer     \* the position each call was answered with, as a sequence

vars == <<log, status, answer>>

Logged(c) == \E i \in DOMAIN log : log[i] = c

Init ==
    /\ log = <<>>
    /\ status = [c \in Appends |-> "idle"]
    /\ answer = [c \in Appends |-> <<>>]

Invoke(c) ==
    /\ status[c] = "idle"
    /\ status' = [status EXCEPT ![c] = "pending"]
    /\ UNCHANGED <<log, answer>>

TakeEffect(c) ==
    /\ status[c] \in {"pending", "failed"}
    /\ ~ Logged(c)
    /\ log' = Append(log, c)
    /\ UNCHANGED <<status, answer>>

Answer(c) ==
    /\ status[c] = "pending"
    /\ \E i \in DOMAIN log :
         log[i] = c /\ answer' = [answer EXCEPT ![c] = <<i - 1>>]
    /\ status' = [status EXCEPT ![c] = "ok"]
    /\ UNCHANGED log

Error(c) ==
    /\ status[c] = "pending"
    /\ status' = [status EXCEPT ![c] = "failed"]
    /\ UNCHANGED <<log, answer>>

Next == \E c \in Appends : Invoke(c) \/ TakeEffect(c) \/ Answer(c) \/ Error(c)

Spec == Init /\ [][Next]_vars

=============================================================================
