---------------------------- MODULE InMemCommit -----------------------------
(***************************************************************************)
(* InMemCommitService: a commit service that decides inline on a local     *)
(* bus.  A call suspends only while the policy provider answers; from then *)
(* on it appends and replays in one go, since the in-memory bus never      *)
(* waits.  `running` is the call in its replay loop, during which nobody   *)
(* else moves and no time passes.  Positions count from 0.                 *)
(***************************************************************************)
EXTENDS Integers, Sequences, FiniteSets

CONSTANTS
    Calls,          \* concurrent create_bus and commit_intention calls
    None,
    Policies,       \* what the provider may hold; "bad" is rejected
    Early,          \* TRUE: bus clients may append before the bus is created
    Batches,        \* TRUE: bus clients may append policy batches
    Expiring,       \* TRUE: the bus was built with_ttl
    MaxVersion, MaxLog

InMemAssumption ==
    /\ Policies \subseteq {"on", "off", "first", "bad"}
    /\ {Early, Batches, Expiring} \subseteq BOOLEAN
    /\ None \notin Calls \cup Int
    /\ MaxVersion \in Nat /\ MaxLog \in Nat

VARIABLES
    log,       \* the bus
    base,      \* entries before this position have expired
    provider,  \* version and policy a provider read returns
    cache,     \* policy_state: version applied last, or None
    rs,        \* replay_state: next_position, policy version, policy, pending
    call,      \* call -> pc, kind, policy it read, position, cursor, result
    running    \* the call that holds the thread, or None

vars == <<log, base, provider, cache, rs, call, running>>

Batch(exp, new, pol) == [t |-> "batch", exp |-> exp, new |-> new, pol |-> pol]
Intention(con, v)    == [t |-> "intention", con |-> con, v |-> v]
Vote(id, val)        == [t |-> "vote", id |-> id, val |-> val]
Decision(id, ok)     == [t |-> IF ok THEN "commit" ELSE "abort", id |-> id]

Idle == [pc |-> "idle", kind |-> "commit", want |-> [v |-> 0, pol |-> "on"],
         at |-> 0, cursor |-> 0, result |-> None]

Init ==
    /\ log = <<>> /\ base = 0
    /\ provider \in [v : {0}, pol : Policies]
    /\ cache = None
    /\ rs = [next |-> 0, v |-> None, pol |-> "on", pending |-> None]
    /\ call = [c \in Calls |-> Idle]
    /\ running = None

-----------------------------------------------------------------------------
(* ReplayState::process_entry: the next replay state and its output.       *)

Applies(s, e) ==
    /\ e.exp = s.v
    /\ e.exp = None \/ e.new > e.exp

(* Mutant: the policy version constraint of an intention is not looked at. *)
AlwaysValid(s, e) == TRUE

Valid(s, e) ==
    CASE e.con = "required" -> s.v = e.v
      [] e.con = "minimum"  -> s.v # None /\ s.v >= e.v
      [] OTHER              -> TRUE

Quiet(s) == [s |-> s, out |-> <<>>]

ProcessBatch(s, e) ==
    IF ~Applies(s, e) THEN Quiet(s)
    ELSE Quiet([s EXCEPT !.v = e.new,
                         !.pol = IF e.pol = None THEN s.pol ELSE e.pol,
                         !.pending = IF e.pol = None THEN @ ELSE None])

ProcessIntention(s, e, p) ==
    IF Valid(s, e) /\ s.pol = "first"
    THEN Quiet([s EXCEPT !.pending = p])
    ELSE [s |-> s, out |-> <<Decision(p, Valid(s, e) /\ s.pol = "on")>>]

(* Mutant: a vote that decides leaves its intention pending.               *)
VoteKeepsPending(s, e) ==
    IF s.pending = e.id /\ e.val \in {"yes", "no"}
    THEN [s |-> s, out |-> <<Decision(e.id, e.val = "yes")>>]
    ELSE Quiet(s)

ProcessVote(s, e) ==
    IF s.pending = e.id /\ e.val \in {"yes", "no"}
    THEN [s |-> [s EXCEPT !.pending = None], out |-> <<Decision(e.id, e.val = "yes")>>]
    ELSE Quiet(s)

ProcessEntry(s, e, p) ==
    CASE e.t = "batch"     -> ProcessBatch(s, e)
      [] e.t = "intention" -> ProcessIntention(s, e, p)
      [] e.t = "vote"      -> ProcessVote(s, e)
      [] OTHER             -> Quiet([s EXCEPT !.pending = IF @ = e.id THEN None ELSE @])

-----------------------------------------------------------------------------
(* The calls.  Every call starts with a provider read.                     *)

Begin(c, kind) ==
    /\ call[c].pc = "idle"
    /\ call' = [call EXCEPT ![c].pc = "reading", ![c].kind = kind, ![c].want = provider]
    /\ UNCHANGED <<log, base, provider, cache, rs, running>>

Finish(c, result) == call' = [call EXCEPT ![c].pc = "done", ![c].result = result]

(* The read failed, or get_decider_policy rejects the policy it returned.  *)
RejectPolicy(c) ==
    /\ running = None /\ call[c].pc = "reading"
    /\ call[c].want.pol = "bad"
    /\ Finish(c, "internal")
    /\ UNCHANGED <<log, base, provider, cache, rs, running>>

CreateBus(c) ==
    /\ running = None /\ call[c].pc = "reading" /\ call[c].kind = "create"
    /\ call[c].want.pol # "bad"
    /\ log' = Append(log, Batch(None, call[c].want.v, call[c].want.pol))
    /\ cache' = IF Len(log) = 0 /\ cache = None THEN call[c].want.v ELSE cache
    /\ Finish(c, "ok")
    /\ UNCHANGED <<base, provider, rs, running>>

(* Mutant: a batch is appended as if no policy had been applied.           *)
ReconcileFromNothing(want) ==
    IF cache = None \/ want.v > cache
    THEN [log |-> Append(log, Batch(None, want.v, want.pol)), cache |-> want.v]
    ELSE [log |-> log, cache |-> cache]

(* reconcile_policy, once the provider has answered.                       *)
Reconcile(want) ==
    IF cache = None \/ want.v > cache
    THEN [log |-> Append(log, Batch(cache, want.v, want.pol)), cache |-> want.v]
    ELSE [log |-> log, cache |-> cache]

(* commit_intention up to its replay loop.                                 *)
CommitIntention(c) ==
    /\ running = None /\ call[c].pc = "reading" /\ call[c].kind = "commit"
    /\ call[c].want.pol # "bad"
    /\ LET r == Reconcile(call[c].want)
           p == Len(r.log)
       IN  /\ log' = Append(r.log, Intention("minimum", call[c].want.v))
           /\ cache' = r.cache
           /\ call' = [call EXCEPT ![c].pc = "replay", ![c].at = p,
                                   ![c].cursor = IF rs.next < p THEN rs.next ELSE p]
    /\ running' = c
    /\ UNCHANGED <<base, provider, rs>>

(* The intention a decision is about, None for any other entry.            *)
Decides(e) == IF e.t \in {"commit", "abort"} THEN e.id ELSE None

(* One entry of the replay loop: process it unless another call did, then  *)
(* return if it decides this call's intention.                             *)
ReplayEntry(c) ==
    LET p == call[c].cursor
        e == log[p + 1]
        step == IF p >= rs.next THEN ProcessEntry(rs, e, p) ELSE Quiet(rs)
    IN  /\ running = c /\ p < Len(log) /\ p >= base
        /\ log' = log \o step.out
        /\ rs' = IF p >= rs.next THEN [step.s EXCEPT !.next = p + 1] ELSE rs
        /\ IF Decides(e) = call[c].at
           THEN Finish(c, e.t) /\ running' = None
           ELSE /\ call' = [call EXCEPT ![c].cursor = p + 1]
                /\ running' = running
        /\ UNCHANGED <<base, provider, cache>>

(* Mutant: the drained log is polled again without an abort.               *)
DrainWaits(c) ==
    /\ running = c /\ call[c].cursor >= Len(log)
    /\ UNCHANGED vars

(* The log is drained and the intention is undecided.                      *)
Drained(c) ==
    /\ running = c /\ call[c].cursor >= Len(log)
    /\ log' = Append(log, Decision(call[c].at, FALSE))
    /\ rs' = IF rs.pending = call[c].at THEN [rs EXCEPT !.pending = None] ELSE rs
    /\ UNCHANGED <<base, provider, cache, call, running>>

(* read_next meets an expired entry: BusDataLoss.                          *)
DataLoss(c) ==
    /\ running = c /\ call[c].cursor < base
    /\ Finish(c, "data loss")
    /\ running' = None
    /\ UNCHANGED <<log, base, provider, cache, rs>>

-----------------------------------------------------------------------------
(* The environment: the provider moves on, other clients of agent_bus()    *)
(* append intentions, votes and policy batches, and entries expire.        *)

ProviderMoves ==
    /\ running = None /\ provider.v < MaxVersion
    /\ \E pol \in Policies : provider' = [v |-> provider.v + 1, pol |-> pol]
    /\ UNCHANGED <<log, base, cache, rs, call, running>>

Versions == 0 .. MaxVersion

ClientEntries ==
    {Intention("none", 0), Intention("required", 0)}
      \cup {Vote(p, val) : p \in {q \in 0 .. (Len(log) - 1) : log[q + 1].t = "intention"},
                           val \in {"yes", "no", "other"}}
      \cup (IF Batches THEN {Batch(exp, new, None) : exp \in Versions, new \in Versions} ELSE {})

ClientAppend ==
    /\ running = None /\ Len(log) < MaxLog
    /\ Early \/ log # <<>>
    /\ \E e \in ClientEntries : log' = Append(log, e)
    /\ UNCHANGED <<base, provider, cache, rs, call, running>>

Expire ==
    /\ Expiring /\ running = None
    /\ base < Len(log) /\ base' = base + 1
    /\ UNCHANGED <<log, provider, cache, rs, call, running>>

AllDone == /\ \A c \in Calls : call[c].pc = "done"
           /\ UNCHANGED vars

Resume(c) == RejectPolicy(c) \/ CreateBus(c) \/ CommitIntention(c)

Replay(c) == ReplayEntry(c) \/ Drained(c) \/ DataLoss(c)

Next ==
    \/ \E c \in Calls : Begin(c, "commit") \/ Begin(c, "create") \/ Resume(c) \/ Replay(c)
    \/ ProviderMoves \/ ClientAppend \/ Expire \/ AllDone

(* A call that has its provider's answer is polled again, and runs on.     *)
Spec == Init /\ [][Next]_vars

FairSpec == Spec /\ \A c \in Calls : WF_vars(Resume(c)) /\ WF_vars(Replay(c))

-----------------------------------------------------------------------------
(* However calls, votes and forced aborts interleave, no intention is      *)
(* decided twice: process_entry answers an intention or the vote for it,   *)
(* and the abort of a drained log withdraws it first.                      *)
DecidedOnce ==
    \A i, j \in 1 .. Len(log) :
       Decides(log[i]) # None /\ Decides(log[i]) = Decides(log[j]) => i = j

(* A commit is approved only under an ON_BY_DEFAULT policy at least as new *)
(* as the one its provider read returned, whatever else is on the bus      *)
(* (the MinimumPolicyVersion constraint of intention_to_payload).          *)
ApprovingFresh ==
    \A c \in Calls : call[c].pc # "done" /\ call'[c].pc = "done" /\ call'[c].result = "commit"
       => rs'.v # None /\ rs'.v >= call[c].want.v /\ rs'.pol = "on"

(* "Adopts a returned PolicyState when its version is newer" (the module's *)
(* doc comment): a commit that gets an outcome leaves the replay state at  *)
(* or above the version its provider read returned.                        *)
Adopting ==
    \A c \in Calls : call[c].pc # "done" /\ call'[c].pc = "done"
                     /\ call'[c].result \in {"commit", "abort"}
       => rs'.v # None /\ rs'.v >= call[c].want.v

(* The service created the bus, and every policy batch on it is its own:   *)
(* the batches of other clients carry no decider policy.                   *)
ServiceOnly ==
    \A i \in 1 .. Len(log) : IF log[i].t = "batch" THEN log[i].pol # None ELSE i > 1

(* A commit is decided under the policy its provider read returned, or a   *)
(* newer one: approvals on any bus, and every outcome, the abort included, *)
(* where nobody but the service sets policies.                             *)
Fresh == ApprovingFresh /\ (ServiceOnly => Adopting)

CommitsUseNewestPolicy == [][Fresh]_vars

(* Every commit adopts (see Adopting).                                     *)
AdoptsNewer == [][Adopting]_vars

(* Every commit gets an outcome or an error, even when its policy waits    *)
(* for a vote nobody casts.                                                *)
CommitsReturn == \A c \in Calls : call[c].pc \in {"reading", "replay"} ~> call[c].pc = "done"

=============================================================================
