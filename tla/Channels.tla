------------------------------ MODULE Channels ------------------------------
(***************************************************************************)
(* Channel-backed front ends: callers send requests with a one-shot reply  *)
(* sender to a worker that owns the single-threaded service.               *)
(*   "bus"     ChanneledAgentBus: a queue per method, every call spawned   *)
(*   "commit"  ChanneledCommitService: one queue, every call spawned       *)
(*   "space"   ChanneledWriteOnceSpace: one queue, calls run in the worker *)
(*   "app"     the application server's worker: gates are spawned, appends *)
(*             and polls run in the worker                                 *)
(* With Remote the service is itself a gRPC client of another server whose *)
(* handler is such a front end (the http backend): requests and answers    *)
(* can get lost on the way, and errors travel as status codes.  Callers of *)
(* the application server are always behind its own handler, which has one *)
(* code for every error.                                                   *)
(*                                                                         *)
(* A method either changes the log ("append"), reads it ("read") or waits  *)
(* for an entry that comes after its start ("wait": blocking_poll, gate,   *)
(* commit_intention).                                                      *)
(***************************************************************************)
EXTENDS Integers, Sequences, FiniteSets

CONSTANTS
    Calls,      \* identities of calls
    Frontend,   \* "bus", "commit", "space" or "app"
    Remote,
    MaxFaults   \* bound on lost messages, panics and callers that go away

ChannelsAssumption ==
    /\ Frontend \in {"bus", "commit", "space", "app"}
    /\ Remote \in BOOLEAN /\ MaxFaults \in Nat

VARIABLES
    call,     \* call -> pc, method, entries there were at its start, answer
    queue,    \* method group -> calls not yet taken by the worker
    worker,   \* "loop", "dead", or the call it is awaiting
    log,      \* the calls whose append took effect
    faults

vars == <<call, queue, worker, log, faults>>

Methods == IF Frontend = "space" THEN {"append", "read"} ELSE {"append", "read", "wait"}
Errors  == {"invalid_argument", "timeout", "unavailable", "internal"} \cup
           (IF Frontend = "commit" THEN {"bus_data_loss", "concurrency"} ELSE {"position_not_found"})
NoAnswer == [kind |-> "none"]

Init ==
    /\ call = [c \in Calls |-> [pc |-> "idle", method |-> "none", from |-> 0,
                                reported |-> NoAnswer, answer |-> NoAnswer]]
    /\ queue = [m \in Methods |-> <<>>]
    /\ worker = "loop"
    /\ log = <<>>
    /\ faults = 0

Terminated == [kind |-> "error", class |-> IF Frontend \in {"commit", "space"}
                                           THEN "unavailable" ELSE "internal"]

(* The bus has a channel per method, the others one for all.               *)
Group(m) == IF Frontend = "bus" THEN m ELSE "append"

-----------------------------------------------------------------------------
(* The caller: send, or fail at once when the worker's receiver is gone.   *)
Send(c, m) ==
    /\ call[c].pc = "idle"
    /\ IF worker = "dead"
       THEN /\ call' = [call EXCEPT ![c] = [@ EXCEPT !.pc = "done", !.method = m,
                                                     !.answer = Terminated]]
            /\ UNCHANGED queue
       ELSE /\ call' = [call EXCEPT ![c] = [@ EXCEPT !.pc = "queued", !.method = m]]
            /\ queue' = [queue EXCEPT ![Group(m)] = Append(@, c)]
    /\ UNCHANGED <<worker, log, faults>>

(* The caller's future is dropped; the request stays where it is.          *)
Drop(c) ==
    /\ faults < MaxFaults
    /\ faults' = faults + 1
    /\ call[c].pc \in {"queued", "running"}
    /\ call' = [call EXCEPT ![c].answer = [kind |-> "dropped"]]
    /\ call[c].answer = NoAnswer
    /\ UNCHANGED <<queue, worker, log>>

-----------------------------------------------------------------------------
(* Mutant: the worker awaits every call before it takes the next.          *)
NeverSpawned(m) == FALSE

(* Which calls run in a task of their own.                                 *)
Spawned(m) == Frontend \in {"bus", "commit"} \/ (Frontend = "app" /\ m = "wait")

(* select_biased: appends first, then reads, then waits.                   *)
Ready == {m \in Methods : queue[m] # <<>>}

Chosen ==
    IF "append" \in Ready THEN "append" ELSE IF "read" \in Ready THEN "read" ELSE "wait"

Dispatch ==
    /\ worker = "loop" /\ Ready # {}
    /\ LET c == Head(queue[Chosen]) IN
       /\ queue' = [queue EXCEPT ![Chosen] = Tail(@)]
       /\ call' = [call EXCEPT ![c].pc = "running", ![c].from = Len(log)]
       /\ worker' = IF Spawned(call[c].method) THEN "loop" ELSE c
    /\ UNCHANGED <<log, faults>>

-----------------------------------------------------------------------------
(* Errors over a hop: a status code on the server, an error on the client. *)

StatusCode(class) ==
    CASE class = "position_not_found" -> "NotFound"
      [] class = "invalid_argument"   -> "InvalidArgument"
      [] class = "timeout"            -> "DeadlineExceeded"
      [] class = "unavailable"        -> "Unavailable"
      [] class = "internal"           -> "Internal"

(* Mutant: a deadline is reported as an internal error.                    *)
NoDeadline(code) ==
    CASE code = "NotFound"        -> "position_not_found"
      [] code = "InvalidArgument" -> "invalid_argument"
      [] code = "Unavailable"     -> "unavailable"
      [] OTHER                    -> "internal"

FromStatus(code) ==
    CASE code = "NotFound"         -> "position_not_found"
      [] code = "InvalidArgument"  -> "invalid_argument"
      [] code = "DeadlineExceeded" -> "timeout"
      [] code \in {"ResourceExhausted", "Unavailable"} -> "unavailable"
      [] OTHER                     -> "internal"

CommitStatus(class) ==
    CASE class = "bus_data_loss" -> "DataLoss"
      [] class = "concurrency"   -> "Aborted"
      [] OTHER                   -> StatusCode(class)

CommitError(code) ==
    CASE code = "DataLoss" -> "bus_data_loss"
      [] code = "Aborted"  -> "concurrency"
      [] OTHER             -> FromStatus(code)

(* The class that comes back from the service.                             *)
Carried(class) ==
    IF ~ Remote THEN class
    ELSE IF Frontend = "commit" THEN CommitError(CommitStatus(class))
    ELSE FromStatus(StatusCode(class))

(* The class the front end's handler hands on: the application server's    *)
(* makes every error an internal one.                                      *)
HandedOn(class) == IF Frontend = "app" THEN "internal" ELSE class

OverHops(answer) ==
    IF answer.kind # "error" THEN answer
    ELSE [answer EXCEPT !.class = HandedOn(Carried(@))]

(* What the caller is told; a dropped caller's receiver is gone and the    *)
(* answer with it.                                                         *)
Told(c, reported) ==
    IF call[c].answer = NoAnswer THEN OverHops(reported) ELSE call[c].answer

(* Mutant: the answer goes to the call that was taken first.               *)
ReplyInOrder(c, reported) ==
    LET running == {d \in Calls : call[d].pc = "running"}
        first == CHOOSE d \in running : \A e \in running : call[d].from <= call[e].from
    IN  /\ call' = [call EXCEPT ![first] =
              [@ EXCEPT !.pc = "done", !.reported = reported, !.answer = Told(first, reported)]]
        /\ worker' = IF worker = first THEN "loop" ELSE worker

(* The answer goes to the call's own reply sender.                         *)
ReplyTo(c, reported) ==
    /\ call' = [call EXCEPT ![c] =
         [@ EXCEPT !.pc = "done", !.reported = reported, !.answer = Told(c, reported)]]
    /\ worker' = IF worker = c THEN "loop" ELSE worker

Running(c, m) == call[c].pc = "running" /\ call[c].method = m

RunAppend(c) ==
    /\ Running(c, "append")
    /\ log' = Append(log, c)
    /\ ReplyTo(c, [kind |-> "position", value |-> Len(log) + 1])
    /\ UNCHANGED <<queue, faults>>

RunRead(c) ==
    /\ Running(c, "read")
    /\ ReplyTo(c, [kind |-> "tail", value |-> Len(log)])
    /\ UNCHANGED <<queue, log, faults>>

RunWait(c) ==
    /\ Running(c, "wait") /\ Len(log) > call[c].from
    /\ ReplyTo(c, [kind |-> "tail", value |-> Len(log)])
    /\ UNCHANGED <<queue, log, faults>>

(* The service reports an error, before or after its effect.               *)
RunError(c) ==
    /\ call[c].pc = "running" /\ faults < MaxFaults
    /\ faults' = faults + 1
    /\ \E class \in Errors : ReplyTo(c, [kind |-> "error", class |-> class])
    /\ log' \in {log} \cup (IF call[c].method = "append" THEN {Append(log, c)} ELSE {})
    /\ UNCHANGED queue

(* Mutant: the client sends the request again when the answer is lost.     *)
LostAndResent(c) ==
    /\ Remote /\ Running(c, "append") /\ faults < MaxFaults
    /\ faults' = faults + 1
    /\ log' = Append(log, c)
    /\ UNCHANGED <<call, queue, worker>>

(* The request or its answer is lost between the servers.                  *)
Lost(c) ==
    /\ Remote /\ call[c].pc = "running" /\ faults < MaxFaults
    /\ faults' = faults + 1
    /\ ReplyTo(c, [kind |-> "error", class |-> "unavailable"])
    /\ log' \in {log} \cup (IF call[c].method = "append" THEN {Append(log, c)} ELSE {})
    /\ UNCHANGED queue

(* Calls whose reply senders go with the worker.                           *)
OrphanedBy(c) == call[c].pc \in {"queued", "running"}

(* A panic: of a task, its sender is dropped; of the worker, every sender. *)
Panic(c) ==
    /\ call[c].pc = "running" /\ faults < MaxFaults
    /\ faults' = faults + 1
    /\ LET orphans == IF worker = c THEN {d \in Calls : OrphanedBy(d)} ELSE {c} IN
       call' = [d \in Calls |->
                  IF d \in orphans
                  THEN [call[d] EXCEPT !.pc = "done", !.reported = Terminated,
                                       !.answer = IF @ = NoAnswer THEN Terminated ELSE @]
                  ELSE call[d]]
    /\ worker' = IF worker = c THEN "dead" ELSE worker
    /\ queue' = IF worker = c THEN [m \in Methods |-> <<>>] ELSE queue
    /\ UNCHANGED log

Run(c) == RunAppend(c) \/ RunRead(c) \/ RunWait(c)

Next ==
    \/ \E c \in Calls :
         \/ \E m \in Methods : Send(c, m)
         \/ Drop(c)
         \/ Run(c)
         \/ RunError(c) \/ Lost(c) \/ Panic(c)
    \/ Dispatch

(* The runtime polls the worker and every task that can go on.             *)
Fairness ==
    /\ WF_vars(Dispatch)
    /\ \A c \in Calls : WF_vars(Run(c))

Spec == Init /\ [][Next]_vars /\ Fairness

-----------------------------------------------------------------------------
(* An append is answered with the position of its own entry, although      *)
(* calls overlap and finish in any order.                                  *)
AnswersAreOwn ==
    \A c \in Calls : call[c].answer.kind = "position" => log[call[c].answer.value] = c

(* No call takes effect twice, whatever is lost or dropped on the way.     *)
EffectAtMostOnce ==
    \A i, j \in DOMAIN log : log[i] = log[j] => i = j

(* A caller that is still there is told of an error exactly when the       *)
(* service met one, and of its class, which survives every hop but the     *)
(* application server's: behind that, every error is an internal one.      *)
ErrorClassKept ==
    \A c \in Calls : call[c].reported # NoAnswer /\ call[c].answer.kind # "dropped" =>
      call[c].answer = IF call[c].reported.kind = "error"
                       THEN [call[c].reported EXCEPT !.class = IF Frontend = "app" THEN "internal" ELSE @]
                       ELSE call[c].reported

(* No call takes effect twice, and what its caller is told is about that   *)
(* effect: the position of its own entry, or the error the service met.    *)
AnsweredForOneEffect == EffectAtMostOnce /\ AnswersAreOwn /\ ErrorClassKept

(* Every call is answered: a waiting call does not keep the append it      *)
(* waits for from running, and no caller hangs on a dead worker.           *)
EveryCallReturns ==
    \A c \in Calls :
      call[c].pc = "queued" ~> (call[c].pc = "done" \/ (Running(c, "wait") /\ Len(log) = call[c].from))

=============================================================================
