------------------------------- MODULE Hooks --------------------------------
(***************************************************************************)
(* logact-oss-hook: one process per hook event of an agent harness (or per *)
(* manual command), each sending at most one request to the local server   *)
(* and answering its harness through its exit code and standard output.    *)
(* Every wait is bounded by a timeout.  Identifiers are sequences of       *)
(* tokens, among them the separator "." and the word "agent".              *)
(***************************************************************************)
EXTENDS Naturals, Sequences, FiniteSets

CONSTANTS
    Hooks,      \* processes
    Inputs,     \* what a harness may start one with
    None

VARIABLES
    hook,   \* process -> its state
    bus     \* the entries on all buses: bus id, process, decision

vars == <<hook, bus>>

Harnesses == {"claude", "codex", "muse", "manual"}

(* EventKind, and the events each harness's HookEvent offers.              *)
EventKind == {"SessionStart", "UserPromptSubmit", "PreToolUse", "PostToolUse",
              "PostToolUseFailure", "Stop", "StopFailure"}

ClaudeEvents == EventKind
CodexEvents  == EventKind \ {"PostToolUseFailure", "StopFailure"}
MuseEvents   == EventKind \ {"PostToolUseFailure", "StopFailure"}
ManualEvents == {"SessionStart", "UserPromptSubmit", "PreToolUse", "PostToolUse", "Stop"}

EventsOf(harness) ==
    CASE harness = "claude" -> ClaudeEvents
      [] harness = "codex"  -> CodexEvents
      [] harness = "muse"   -> MuseEvents
      [] harness = "manual" -> ManualEvents

HooksAssumption ==
    /\ \A i \in Inputs :
         /\ i.harness \in Harnesses /\ i.event \in EventsOf(i.harness)
         /\ i.user \in Seq(STRING) /\ i.session \in Seq(STRING)
         /\ i.sub \in Seq(STRING) \cup {None}
    /\ None \notin {"ask", "deny", "yes", "no", "error"} /\ None \notin Nat

Fresh == [pc |-> "off", input |-> None, id |-> None, rpc |-> "none", reply |-> None,
          answer |-> None, enforced |-> "pending", code |-> None, out |-> None, tool |-> "waiting"]

Init == hook = [h \in Hooks |-> Fresh] /\ bus = {}

-----------------------------------------------------------------------------
(* AgentBusId.                                                             *)

(* Mutant: a component may contain the separator.                          *)
NonEmpty(value) == value # <<>>

EnsureComponent(value) == value # <<>> /\ \A k \in 1 .. Len(value) : value[k] # "."

Dot == <<".">>

Display(i) ==
    <<i.harness>> \o Dot \o i.user \o Dot \o i.session
      \o (IF i.sub = None THEN <<>> ELSE Dot \o <<"agent">> \o Dot \o i.sub)

(* The parts between the separators, as str::split returns them.           *)
SplitAtDots(s) ==
    LET at == {k \in 1 .. Len(s) : s[k] = "."}
        nth(n) == IF n = 0 THEN 0
                  ELSE IF n > Cardinality(at) THEN Len(s) + 1
                  ELSE CHOOSE k \in at : Cardinality({j \in at : j <= k}) = n
    IN  [n \in 1 .. Cardinality(at) + 1 |-> SubSeq(s, nth(n - 1) + 1, nth(n) - 1)]

(* The namespace is a single token here, since the harness fixes it.       *)
Parse(raw) ==
    LET p == SplitAtDots(raw)
        id(sub) == [harness |-> p[1][1], user |-> p[2], session |-> p[3], sub |-> sub]
    IN  IF Len(p) = 3 THEN id(None)
        ELSE IF Len(p) = 5 /\ p[4] = <<"agent">> THEN id(p[5])
        ELSE None

(* An empty subagent id stands for the main thread.                        *)
Identity(i) == [harness |-> i.harness, user |-> i.user, session |-> i.session,
                sub |-> IF i.sub = <<>> THEN None ELSE i.sub]

ValidIdentity(i) ==
    /\ EnsureComponent(i.user) /\ EnsureComponent(i.session)
    /\ IF i.sub = None THEN TRUE ELSE EnsureComponent(i.sub)

-----------------------------------------------------------------------------
(* One process.  Exit code 1 is a failure the harness ignores.             *)

Set(h, r) == hook' = [hook EXCEPT ![h] = r]

Failed(r) == [r EXCEPT !.pc = "exit", !.code = 1]

(* The process starts and connects to the server's socket.                 *)
Start(h, i) ==
    /\ hook[h].pc = "off"
    /\ \/ Set(h, [hook[h] EXCEPT !.pc = "stdin", !.input = i])
       \/ Set(h, [Failed(hook[h]) EXCEPT !.input = i])        \* connection refused or timed out
    /\ UNCHANGED bus

(* prepare: the payload arrives and parses, or one of it does not happen   *)
(* within STDIN_READ_TIMEOUT.  A manual command has all it needs.          *)
Prepare(h) ==
    /\ hook[h].pc = "stdin"
    /\ LET i == Identity(hook[h].input)
       IN  \/ /\ hook[h].input.harness # "manual" /\ ValidIdentity(i)
              /\ Set(h, [hook[h] EXCEPT !.pc = "dispatch", !.id = Display(i)])
           \/ /\ hook[h].input.harness = "manual"
              /\ Set(h, [hook[h] EXCEPT !.pc = "dispatch", !.id = i.session, !.enforced = "on"])
           \/ /\ hook[h].input.harness # "manual"
              /\ Set(h, Failed(hook[h]))
    /\ UNCHANGED bus

(* dispatch: the request its event stands for.                             *)
Request(event) ==
    CASE event = "SessionStart"     -> "create_bus"
      [] event = "UserPromptSubmit" -> "agent_input"
      [] event = "PreToolUse"       -> "intention"
      [] event \in {"PostToolUse", "PostToolUseFailure"} -> "action_output"
      [] event \in {"Stop", "StopFailure"} -> "agent_output"

Dispatch(h) ==
    /\ hook[h].pc = "dispatch" /\ hook[h].rpc = "none"
    /\ Set(h, [hook[h] EXCEPT !.rpc = "sent"])
    /\ UNCHANGED bus

(* The server executes the request; its reply may be lost or come too late.*)
Serve(h) ==
    /\ hook[h].rpc = "sent"
    /\ \E approved \in IF Request(hook[h].input.event) = "intention" THEN BOOLEAN ELSE {TRUE} :
          /\ bus' = bus \cup {[id |-> hook[h].id, h |-> h, n |-> Cardinality(bus), ok |-> approved]}
          /\ Set(h, [hook[h] EXCEPT !.rpc = "served", !.reply = IF approved THEN "yes" ELSE "no"])

Receive(h) ==
    /\ hook[h].pc = "dispatch" /\ hook[h].rpc = "served" /\ hook[h].answer = None
    /\ Set(h, [hook[h] EXCEPT !.answer = hook[h].reply])
    /\ UNCHANGED bus

(* Mutant: a failed request is sent again.                                 *)
RetryRpc(h) ==
    /\ hook[h].pc = "dispatch" /\ hook[h].rpc # "none" /\ hook[h].answer = None
    /\ Set(h, [hook[h] EXCEPT !.rpc = "sent"])
    /\ UNCHANGED bus

(* The request fails: the server refused it, the answer was lost, or the   *)
(* request timeout ended the wait while the server went on.                *)
FailRpc(h) ==
    /\ hook[h].pc = "dispatch" /\ hook[h].rpc # "none" /\ hook[h].answer = None
    /\ \/ Set(h, [hook[h] EXCEPT !.answer = "error"])
       \/ hook[h].rpc = "sent" /\ Set(h, [hook[h] EXCEPT !.answer = "error", !.rpc = "refused"])
    /\ UNCHANGED bus

Enforce(h) ==
    /\ hook[h].pc = "dispatch" /\ hook[h].enforced = "pending"
    /\ \E e \in {"on", "off"} : Set(h, [hook[h] EXCEPT !.enforced = e])
    /\ UNCHANGED bus

-----------------------------------------------------------------------------
(* What the harness is told: nothing, or to ask the user or to deny.       *)

(* Mutant: the test of `approved` is the wrong way round.                  *)
OutputInverted(r) ==
    IF r.enforced = "on" /\ r.answer = "yes" /\ Request(r.input.event) = "intention" THEN "ask" ELSE None

ClaudeOutput(r) ==
    IF r.enforced = "on" /\ r.answer = "no" /\ Request(r.input.event) = "intention" THEN "ask" ELSE None

CodexOutput(r) ==
    IF r.enforced = "on" /\ r.answer = "no" /\ Request(r.input.event) = "intention" THEN "deny" ELSE None

MuseOutput(r) ==
    IF r.enforced = "on" /\ r.answer = "no" /\ Request(r.input.event) = "intention" THEN "deny" ELSE None

OutputOf(r) ==
    CASE r.input.harness = "claude" -> ClaudeOutput(r)
      [] r.input.harness = "codex"  -> CodexOutput(r)
      [] r.input.harness = "muse"   -> MuseOutput(r)

(* Mutant: a failed dispatch is waited out together with enforcement.      *)
JoinWaits(h) ==
    /\ hook[h].pc = "dispatch" /\ hook[h].answer = "error" /\ hook[h].enforced # "pending"
    /\ Set(h, Failed(hook[h]))
    /\ UNCHANGED bus

(* Mutant: the process reports success although its request failed.        *)
ReportSuccess(h) ==
    /\ hook[h].pc = "dispatch" /\ hook[h].answer # None /\ hook[h].enforced # "pending"
    /\ Set(h, [hook[h] EXCEPT !.pc = "exit", !.code = 0])
    /\ UNCHANGED bus

(* try_join: a failed dispatch returns at once.                            *)
JoinFails(h) ==
    /\ hook[h].pc = "dispatch" /\ hook[h].answer = "error"
    /\ Set(h, Failed(hook[h]))
    /\ UNCHANGED bus

(* Both are there: write the output, which may fail, and exit.             *)
Join(h) ==
    /\ hook[h].pc = "dispatch" /\ hook[h].answer \in {"yes", "no"}
    /\ hook[h].enforced # "pending" /\ hook[h].input.harness # "manual"
    /\ LET out == OutputOf(hook[h])
       IN  \/ Set(h, [hook[h] EXCEPT !.pc = "exit", !.code = 0, !.out = out])
           \/ out # None /\ Set(h, Failed(hook[h]))
    /\ UNCHANGED bus

(* A manual command fails when its intention is rejected.                  *)
ManualDone(h) ==
    /\ hook[h].pc = "dispatch" /\ hook[h].input.harness = "manual"
    /\ hook[h].answer \in {"yes", "no"}
    /\ Set(h, [hook[h] EXCEPT !.pc = "exit", !.code = IF hook[h].answer = "yes" THEN 0 ELSE 1])
    /\ UNCHANGED bus

(* The harness runs the tool unless a successful hook said otherwise.      *)
Harness(h) ==
    /\ hook[h].pc = "exit" /\ hook[h].tool = "waiting"
    /\ Set(h, [hook[h] EXCEPT !.tool = IF hook[h].out = None THEN "ran" ELSE "stopped"])
    /\ UNCHANGED bus

Proceed(h) ==
    \/ Prepare(h) \/ Dispatch(h) \/ FailRpc(h) \/ JoinFails(h) \/ Join(h) \/ ManualDone(h) \/ Harness(h)

Quiet == /\ \A h \in Hooks : hook[h].tool # "waiting"
         /\ UNCHANGED vars

Next ==
    \/ \E h \in Hooks, i \in Inputs : Start(h, i)
    \/ \E h \in Hooks : Proceed(h) \/ Serve(h) \/ Receive(h) \/ Enforce(h)
    \/ Quiet

Spec == Init /\ [][Next]_vars

(* Timers fire and the process runs on; neither the server nor the         *)
(* enforcement check is assumed to answer.                                 *)
FairSpec == Spec /\ \A h \in Hooks : WF_vars(Proceed(h))

-----------------------------------------------------------------------------
(* However requests time out and late answers arrive, a process leaves at  *)
(* most one entry behind: nothing on this path repeats a request.          *)
OneEntryPerHook == \A e, f \in bus : e.h = f.h => e = f

(* Parsing the bus id of a hook gives its identity back, so sessions,      *)
(* users, harnesses and subagents never share a bus: what try_new accepts  *)
(* is displayed unambiguously.                                             *)
IdRoundTrips ==
    \A h \in Hooks :
       hook[h].id # None /\ hook[h].input.harness # "manual"
         => Parse(hook[h].id) = Identity(hook[h].input)

(* A tool whose intention was rejected runs only if its hook reported a    *)
(* failure or enforcement was off: the gate fails open, never silently.    *)
RejectionHonoured ==
    \A h \in Hooks, e \in bus :
       e.h = h /\ ~e.ok /\ hook[h].tool = "ran"
         => hook[h].code = 1 \/ hook[h].enforced = "off"

(* A process that reports success has its entry on its own bus.            *)
SuccessIsRecorded ==
    \A h \in Hooks : hook[h].code = 0 => \E e \in bus : e.h = h /\ e.id = hook[h].id

(* Once its request has failed a hook ends, whether or not the enforcement *)
(* check ever answers.                                                     *)
FailureReturns == \A h \in Hooks : hook[h].answer = "error" ~> hook[h].pc = "exit"

=============================================================================
