------------------------------ MODULE MCLocal -------------------------------
(***************************************************************************)
(* The local installation: daemons that start, stop and crash, and the     *)
(* hook processes of the harnesses.  A behaviour is about one part of it;  *)
(* the other part stays as it began.                                       *)
(***************************************************************************)
EXTENDS LocalInstall

VARIABLES part

(* Identities chosen to collide if separators were let through.            *)
In(harness, event, session, sub) ==
    [harness |-> harness, event |-> event, user |-> <<"u">>, session |-> session, sub |-> sub]

Tricky == <<"s", ".", "agent", ".", "a">>

MCInputs ==
    {In(x, "PreToolUse", <<"s">>, None) : x \in {"claude", "codex", "muse"}}
      \cup {In("claude", "StopFailure", <<"s">>, <<"a">>),
            In("claude", "PreToolUse", Tricky, None),
            In("claude", "PostToolUse", <<>>, <<>>),
            In("manual", "Stop", <<"claude", ".", "u", ".", "s">>, None)}

hookVars == <<hook, bus>>

ASSUME HookInputs == Hook!HooksAssumption

AllVars == <<part, vars, hookVars>>

InitLocal ==
    /\ part \in {"daemons", "hooks"} /\ Init /\ Hook!Init
    /\ part = "hooks" => dir = None

NextLocal ==
    \/ part = "daemons" /\ Next /\ UNCHANGED <<part, hookVars>>
    \/ part = "hooks" /\ Hook!Next /\ UNCHANGED <<part, vars>>

(* The fairness of both parts: the operating system runs a started daemon  *)
(* and its service manager starts it again; a hook's timers fire.          *)
SpecLocal ==
    /\ InitLocal /\ [][NextLocal]_AllVars
    /\ \A d \in Daemons : WF_AllVars(part = "daemons" /\ Step(d) /\ UNCHANGED <<part, hookVars>>)
    /\ \A h \in Hooks : WF_AllVars(part = "hooks" /\ Hook!Proceed(h) /\ UNCHANGED <<part, vars>>)

-----------------------------------------------------------------------------
(* The machine gets on after a failure: a stale socket is replaced, and a  *)
(* hook whose request failed ends, although neither the server nor the     *)
(* enforcement check answers.                                              *)
FailuresPass == StaleSocketReplaced /\ Hook!FailureReturns

=============================================================================
