------------------------------ MODULE BusRoles ------------------------------
(***************************************************************************)
(* The roles of an application server around one bus: Deciders, VoterLoops *)
(* and gate checks.  Each polls the shared log with a cursor of its own and *)
(* appends to it; an action is what a role does between two awaits, or     *)
(* what a decider does with one entry of its page.                         *)
(*                                                                         *)
(* A decider or a voter may crash at any await and is started again at     *)
(* position 0 (build_and_spawn, decider_service).  A failed append may     *)
(* have taken effect.  `by` and `under` on votes are history: who voted,   *)
(* and under which VoterPolicy entry.                                      *)
(***************************************************************************)
EXTENDS Integers, Sequences, FiniteSets

CONSTANTS
    Deciders,     \* Decider instances on the bus
    Voters,       \* VoterLoops
    Gates,        \* gate_check calls
    Clients,      \* what other clients may append, each at most once
    DeciderPage,  \* max_entries of a decider's poll
    GatePage,     \* max_entries of a gate's poll
    Stoppable,    \* the kinds of role that crashes and timeouts may end
    MaxLog,       \* bound on the log
    MaxFaults     \* bound on crashes and failed calls

(* Only deciders decide, and nobody votes in a voter's name.               *)
RolesAssumption ==
    /\ DeciderPage \in Nat \ {0} /\ GatePage \in Nat \ {0}
    /\ MaxLog \in Nat /\ MaxFaults \in Nat
    /\ \A e \in Clients :
         /\ e.type \notin {"commit", "abort"}
         /\ e.type = "vote" => e.by \notin Voters

VARIABLES log, decider, voter, gate, sent, faults

vars == <<log, decider, voter, gate, sent, faults>>

-----------------------------------------------------------------------------
(* The log.  Positions start at 0.                                         *)

Positions == 0 .. (MaxLog - 1)
None      == -1

LogTail    == Len(log)
At(p)   == log[p + 1]
Taken   == 0 .. (LogTail - 1)
HasRoom == LogTail < MaxLog

Of(types) == {p \in Taken : At(p).type \in types}

Least(S) == CHOOSE p \in S : \A q \in S : p <= q

StringIntention == [type |-> "intention", kind |-> "string"]
GroupIntention  == [type |-> "intention", kind |-> "group"]

Vote(p, value, v, config) ==
    [type |-> "vote", intention |-> p, value |-> value, by |-> v, under |-> config]

Decision(p, commit) ==
    [type |-> IF commit THEN "commit" ELSE "abort", intention |-> p]

(* The matching positions a blocking_poll returns from `start`, and the    *)
(* position it tells the caller to continue at.                            *)
Matching(start, types, limit) ==
    LET found == {p \in Of(types) : p >= start}
    IN  {p \in found : Cardinality({q \in found : q < p}) < limit}

NextStart(start, types, limit) ==
    LET page == Matching(start, types, limit)
    IN  IF Cardinality(page) = limit
        THEN (CHOOSE p \in page : \A q \in page : q <= p) + 1
        ELSE LogTail

-----------------------------------------------------------------------------
(* The vote trackers.  A verdict is a set: empty while there is none.      *)

Register(policy) ==
    CASE policy = "on"  -> {TRUE}
      [] policy = "off" -> {FALSE}
      [] OTHER          -> {}

IsBoolean(vote) == vote.value \in {"true", "false"}

ApplyVote(vote) == IF IsBoolean(vote) THEN {vote.value = "true"} ELSE {}

(* What a decider reads and what makes it move on.                         *)
DeciderTypes ==
    {"intention", "vote", "decider_policy", "voter_policy", "commit", "abort"}
VoterTypes == {"intention", "voter_policy"}
GateTypes  == {"commit", "abort"}

FreshDecider ==
    [pc |-> "poll", pos |-> 0, upto |-> 0, policy |-> "on", waiting |-> {},
     pending |-> [intention |-> None, commit |-> FALSE]]

FreshVoter ==
    [pc |-> "poll", pos |-> 0, at |-> None, upto |-> 0, config |-> "none", value |-> "false"]

FreshGate == [pc |-> "idle", id |-> None, next |-> 0]

Stopped(r) == [r EXCEPT !.pc = "down"]

Init ==
    /\ log = <<>>
    /\ decider = [d \in Deciders |-> FreshDecider]
    /\ voter = [v \in Voters |-> FreshVoter]
    /\ gate = [g \in Gates |-> FreshGate]
    /\ sent = {}
    /\ faults = 0

-----------------------------------------------------------------------------
(* Decider.                                                                *)

(* What entry p makes a decider conclude, and of which intention.          *)
VerdictAt(self, p) ==
    LET e == At(p) IN
    CASE e.type = "intention" -> Register(self.policy)
      [] e.type = "vote" /\ e.intention \in self.waiting -> ApplyVote(e)
      [] OTHER -> {}

Subject(p) == IF At(p).type = "vote" THEN At(p).intention ELSE p

(* Mutant: decision_made is never set.                                     *)
TrackWithoutMark(self, p, verdict) ==
    CASE At(p).type = "decider_policy" -> [self EXCEPT !.policy = At(p).policy]
      [] At(p).type = "intention" /\ verdict = {} ->
            [self EXCEPT !.waiting = @ \cup {p}]
      [] OTHER -> self

Track(self, p, verdict) ==
    CASE At(p).type = "decider_policy" -> [self EXCEPT !.policy = At(p).policy]
      [] At(p).type = "intention" /\ verdict = {} ->
            [self EXCEPT !.waiting = @ \cup {p}]
      [] verdict # {} -> [self EXCEPT !.waiting = @ \ {Subject(p)}]
      [] OTHER -> self

(* The rest of the page, or the next poll.                                 *)
Resume(self) == [self EXCEPT !.pc = IF self.pos < self.upto THEN "play" ELSE "poll"]

(* process_entry up to its append, which is its only await.                *)
ProcessEntry(self) ==
    LET p       == self.pos
        verdict == VerdictAt(self, p)
        tracked == Track(self, p, verdict)
    IN  IF verdict = {}
        THEN Resume([tracked EXCEPT !.pos = p + 1])
        ELSE [tracked EXCEPT !.pc = "append",
                !.pending = [intention |-> Subject(p), commit |-> TRUE \in verdict]]

(* A page, and its first entry.                                            *)
PollAndDecide(d) ==
    LET self == decider[d] IN
    /\ self.pc = "poll"
    /\ LogTail > self.pos
    /\ \E end \in {NextStart(self.pos, DeciderTypes, DeciderPage)} :
         decider' = [decider EXCEPT ![d] = ProcessEntry([self EXCEPT !.upto = end])]
    /\ UNCHANGED <<log, voter, gate, sent, faults>>

(* The page's next entry.                                                  *)
PlayEntry(d) ==
    /\ decider[d].pc = "play"
    /\ decider' = [decider EXCEPT ![d] = ProcessEntry(decider[d])]
    /\ UNCHANGED <<log, voter, gate, sent, faults>>

AppendDecision(d) ==
    LET self == decider[d] IN
    /\ self.pc = "append"
    /\ HasRoom
    /\ log' = Append(log, Decision(self.pending.intention, self.pending.commit))
    /\ decider' = [decider EXCEPT ![d] =
         Resume([self EXCEPT !.pos = @ + 1, !.pending = FreshDecider.pending])]
    /\ UNCHANGED <<voter, gate, sent, faults>>

(* Mutant: a failed append is polled for again on the same Decider.        *)
AppendFailsAndRetries(d) ==
    /\ decider[d].pc = "append"
    /\ faults < MaxFaults
    /\ faults' = faults + 1
    /\ decider' = [decider EXCEPT ![d].pc = "poll"]
    /\ UNCHANGED <<log, voter, gate, sent>>

(* A failed call ends run(); so does the stop signal or a crash.           *)
AppendFails(d) ==
    /\ "decider" \in Stoppable
    /\ decider[d].pc = "append"
    /\ faults < MaxFaults
    /\ faults' = faults + 1
    /\ \/ log' = log
       \/ HasRoom /\ log' = Append(log, Decision(decider[d].pending.intention,
                                                 decider[d].pending.commit))
    /\ decider' = [decider EXCEPT ![d] = Stopped(FreshDecider)]
    /\ UNCHANGED <<voter, gate, sent>>

DeciderStops(d) ==
    /\ "decider" \in Stoppable
    /\ decider[d].pc \in {"poll", "append"}
    /\ faults < MaxFaults
    /\ faults' = faults + 1
    /\ decider' = [decider EXCEPT ![d] = Stopped(FreshDecider)]
    /\ UNCHANGED <<log, voter, gate, sent>>

StartDecider(d) ==
    /\ decider[d].pc = "down"
    /\ decider' = [decider EXCEPT ![d] = FreshDecider]
    /\ UNCHANGED <<log, voter, gate, sent, faults>>

-----------------------------------------------------------------------------
(* VoterLoop.  Its pages hold one entry.                                   *)

ProcessVoterPolicy(old, new) == IF new = "absent" THEN old ELSE new

(* Voter::evaluate answers anything; asked again, it may answer otherwise. *)
PollAndVote(v, isSafe) ==
    LET self  == voter[v]
        found == Matching(self.pos, VoterTypes, 1)
        end   == NextStart(self.pos, VoterTypes, 1)
        p     == Least(found)
        after ==
          CASE found = {} -> [self EXCEPT !.pos = end]
            [] found # {} /\ At(p).type = "voter_policy" ->
                 [self EXCEPT !.pos = end, !.config = ProcessVoterPolicy(@, At(p).config)]
            [] found # {} /\ At(p) = GroupIntention -> [self EXCEPT !.pos = p + 1]
            [] OTHER ->
                 [self EXCEPT !.pc = "append", !.at = p, !.upto = end, !.value = isSafe] IN
    /\ self.pc = "poll"
    /\ LogTail > self.pos
    /\ voter' = [voter EXCEPT ![v] = after]
    /\ UNCHANGED <<log, decider, gate, sent, faults>>

BallotOf(v) == Vote(voter[v].at, voter[v].value, v, voter[v].config)

AppendVote(v) ==
    /\ voter[v].pc = "append"
    /\ HasRoom
    /\ log' = Append(log, BallotOf(v))
    /\ voter' = [voter EXCEPT ![v].pc = "poll", ![v].pos = voter[v].upto, ![v].at = None]
    /\ UNCHANGED <<decider, gate, sent, faults>>

(* Mutant: a vote that could not be appended is given up.                  *)
GiveUpVote(v) ==
    /\ voter[v].pc = "append"
    /\ faults < MaxFaults
    /\ faults' = faults + 1
    /\ voter' = [voter EXCEPT ![v].pc = "poll", ![v].pos = voter[v].upto, ![v].at = None]
    /\ UNCHANGED <<log, decider, gate, sent>>

(* FailedAgentBusCall: sleep and poll again from the same cursor.          *)
AppendVoteFails(v) ==
    /\ voter[v].pc = "append"
    /\ faults < MaxFaults
    /\ faults' = faults + 1
    /\ log' = log \/ (HasRoom /\ log' = Append(log, BallotOf(v)))
    /\ voter' = [voter EXCEPT ![v].pc = "poll", ![v].at = None]
    /\ UNCHANGED <<decider, gate, sent>>

(* Mutant: the voter outlives its loop and keeps its policy.               *)
VoterOutlivesLoop(v) ==
    /\ faults < MaxFaults
    /\ faults' = faults + 1
    /\ voter' = [voter EXCEPT ![v] = [Stopped(FreshVoter) EXCEPT !.config = voter[v].config]]
    /\ UNCHANGED <<log, decider, gate, sent>>

VoterStops(v) ==
    /\ "voter" \in Stoppable
    /\ voter[v].pc # "down"
    /\ faults < MaxFaults
    /\ faults' = faults + 1
    /\ voter' = [voter EXCEPT ![v] = Stopped(FreshVoter)]
    /\ UNCHANGED <<log, decider, gate, sent>>

StartVoter(v) ==
    /\ voter[v].pc = "down"
    /\ voter' = [voter EXCEPT ![v].pc = "poll"]
    /\ UNCHANGED <<log, decider, gate, sent, faults>>

-----------------------------------------------------------------------------
(* gate_check_for_bus.                                                     *)

GateAppend(g) ==
    /\ gate[g].pc = "idle"
    /\ HasRoom
    /\ log' = Append(log, StringIntention)
    /\ gate' = [gate EXCEPT ![g] = [pc |-> "wait", id |-> LogTail, next |-> LogTail + 1]]
    /\ UNCHANGED <<decider, voter, sent, faults>>

(* Mutant: the gate continues at the tail after a page that was full.      *)
GateCursorAtTail(self) == LogTail

GateCursor(self) == NextStart(self.next, GateTypes, GatePage)

GatePoll(g) ==
    LET self == gate[g]
        page == Matching(self.next, GateTypes, GatePage)
        mine == {p \in page : At(p).intention = self.id} IN
    /\ self.pc = "wait"
    /\ LogTail > self.next
    /\ gate' = [gate EXCEPT ![g] =
         IF mine # {}
         THEN [self EXCEPT !.pc = IF At(Least(mine)).type = "commit"
                                  THEN "approved" ELSE "rejected"]
         ELSE [self EXCEPT !.next = GateCursor(self)]]
    /\ UNCHANGED <<log, decider, voter, sent, faults>>

(* The deadline passes, or a call fails: the caller learns no decision.    *)
GateGivesUp(g) ==
    /\ "gate" \in Stoppable
    /\ gate[g].pc = "wait"
    /\ faults < MaxFaults
    /\ faults' = faults + 1
    /\ gate' = [gate EXCEPT ![g].pc = "timed_out"]
    /\ UNCHANGED <<log, decider, voter, sent>>

-----------------------------------------------------------------------------
(* Other clients of the bus (AppServerService::append).                    *)

ClientAppend(e) ==
    /\ e \notin sent
    /\ HasRoom
    /\ sent' = sent \cup {e}
    /\ log' = Append(log, e)
    /\ UNCHANGED <<decider, voter, gate, faults>>

DeciderStep(d) ==
    PollAndDecide(d) \/ PlayEntry(d) \/ AppendDecision(d)

VoterStep(v) ==
    (\E isSafe \in {"true", "false"} : PollAndVote(v, isSafe)) \/ AppendVote(v)

Fault ==
    \/ \E d \in Deciders : AppendFails(d) \/ DeciderStops(d)
    \/ \E v \in Voters : AppendVoteFails(v) \/ VoterStops(v)
    \/ \E g \in Gates : GateGivesUp(g)

Restart ==
    \/ \E d \in Deciders : StartDecider(d)
    \/ \E v \in Voters : StartVoter(v)

Next ==
    \/ \E d \in Deciders : DeciderStep(d)
    \/ \E v \in Voters : VoterStep(v)
    \/ \E g \in Gates : GateAppend(g) \/ GatePoll(g)
    \/ \E e \in Clients : ClientAppend(e)
    \/ Fault
    \/ Restart

Spec == Init /\ [][Next]_vars

(* The loops are tasks of one executor, each scheduled again and again.    *)
Fairness ==
    /\ \A d \in Deciders : WF_vars(DeciderStep(d))
    /\ \A v \in Voters : WF_vars(VoterStep(v))
    /\ \A g \in Gates : WF_vars(GatePoll(g))

-----------------------------------------------------------------------------
(* Reference: what the first n entries of the log say of intention p.      *)

PolicyFor(p) ==
    LET before == {q \in Of({"decider_policy"}) : q < p}
    IN  IF before = {} THEN "on"
        ELSE At(CHOOSE q \in before : \A r \in before : r <= q).policy

LogVerdict(p, n) ==
    IF PolicyFor(p) \in {"on", "off"} THEN {PolicyFor(p) = "on"}
    ELSE LET ballots == {q \in Of({"vote"}) : /\ p < q /\ q < n
                                              /\ At(q).intention = p
                                              /\ IsBoolean(At(q))}
         IN  IF ballots = {} THEN {} ELSE ApplyVote(At(Least(ballots)))

DecisionsOn(p) == {q \in Of(GateTypes) : At(q).intention = p}

ConfigFor(p) ==
    LET before == {q \in Of({"voter_policy"}) : q < p /\ At(q).config # "absent"}
    IN  IF before = {} THEN "none"
        ELSE At(CHOOSE q \in before : \A r \in before : r <= q).config

-----------------------------------------------------------------------------
(* Every Commit and Abort is what the log before it says: the policy in    *)
(* force at the intention, or the first boolean vote after it.  So all     *)
(* deciders, and a decider before and after a restart, decide alike        *)
(* however often they decide (decider.rs, process_intention/process_vote). *)
DecisionsAreLogVerdicts ==
    \A q \in Of(GateTypes) :
      LogVerdict(At(q).intention, q) = {At(q).type = "commit"}

(* A running decider leaves no decision behind: every intention that the   *)
(* entries it has played settle has a decision in the log (run() ends on a *)
(* failed append because decision_made is set before it).                  *)
PlayedMeansDecided ==
    \A d \in Deciders : decider[d].pc # "down" =>
      \A p \in Of({"intention"}) :
        p < decider[d].pos /\ LogVerdict(p, decider[d].pos) # {}
          => DecisionsOn(p) # {}

(* A running voter has voted on every string intention below its cursor,   *)
(* also when an append failed and the intention was evaluated again.       *)
PlayedMeansVoted ==
    \A v \in Voters : voter[v].pc # "down" =>
      \A p \in Of({"intention"}) :
        p < voter[v].pos /\ At(p) = StringIntention =>
          \E q \in Of({"vote"}) : At(q).intention = p /\ At(q).by = v

(* A vote is cast under the VoterPolicy that precedes its intention in the *)
(* log, whatever has been appended since and after any restart.            *)
VotesUnderLogPolicy ==
    \A q \in Of({"vote"}) :
      At(q).by \in Voters => At(q).under = ConfigFor(At(q).intention)

(* A gate's answer is the decision in the log, and a gate that is waiting  *)
(* has not paged past one.                                                 *)
GatesSeeDecisions ==
    \A g \in Gates :
      /\ gate[g].pc = "wait" => \A q \in DecisionsOn(gate[g].id) : q >= gate[g].next
      /\ gate[g].pc \in {"approved", "rejected"} =>
           /\ DecisionsOn(gate[g].id) # {}
           /\ \A q \in DecisionsOn(gate[g].id) :
                (At(q).type = "commit") <=> (gate[g].pc = "approved")

(* What a role has played it has dealt with.                               *)
PlayedMeansDone ==
    PlayedMeansDecided /\ PlayedMeansVoted /\ VotesUnderLogPolicy /\ GatesSeeDecisions

(* Every gated intention is decided although votes are lost and retried,   *)
(* as long as decider and voters keep running.                             *)
GatesAnswered ==
    \A g \in Gates :
      (gate[g].pc = "wait") ~> (gate[g].pc \in {"approved", "rejected", "timed_out"})

=============================================================================
