------------------------------- MODULE BusCli -------------------------------
(***************************************************************************)
(* The bus CLI: its commands, one at a time, and the interactive mode with *)
(* its current bus, next to other clients that append to the same buses.   *)
(*                                                                         *)
(* A step is what the CLI does up to its next request to the bus, or the   *)
(* bus answering one.  `log` is the number of entries of each bus, `shown` *)
(* the positions printed by the command at hand, `refused` that it printed *)
(* an error about its line, `floor` the tail of its bus when it began.     *)
(***************************************************************************)
EXTENDS Integers, Sequences, FiniteSets

CONSTANTS
    Buses,           \* buses that set-id can name
    Counts,          \* numbers typed by the user, as n or limit
    Starts,          \* start positions typed by the user
    DefaultTail,     \* default of tail's n
    MaxPage,         \* entries of one answer of the bus
    MaxLog           \* bound on the entries of a bus

BusCliAssumption ==
    /\ Counts \subseteq Int /\ Starts \subseteq Int
    /\ DefaultTail \in Nat /\ MaxPage \in Nat \ {0} /\ MaxLog \in Nat

VARIABLES log, agent_bus_id, repl, step, cmd, cursor, tail, remaining, shown, refused, floor

vars == <<log, agent_bus_id, repl, step, cmd, cursor, tail, remaining, shown, refused, floor>>
reading == <<cursor, tail, remaining>>

(* The words of a tail command are "-f", a number or something else.       *)
Word(kind, n) == [kind |-> kind, n |-> n]
Words == {Word("-f", 0), Word("other", 0)} \cup {Word("n", n) : n \in Counts}
TailArgs == {<<>>} \cup {<<w>> : w \in Words} \cup {<<v, w>> : v, w \in Words}

Commands ==
    [kind : {"intention", "decider-policy", "voter-policy"}, valid : BOOLEAN]
        \cup [kind : {"poll"}, start : Starts, limit : Counts]
        \cup [kind : {"tail"}, args : TailArgs]
        \cup [kind : {"check-tail"}]

NoCommand == [kind |-> "none"]

Init ==
    /\ log = [b \in Buses |-> 0] /\ agent_bus_id \in Buses /\ repl \in BOOLEAN
    /\ step = "prompt" /\ cmd = NoCommand /\ cursor = 0 /\ tail = 0 /\ remaining = 0
    /\ shown = <<>> /\ refused = FALSE /\ floor = 0

Tail_ == log[agent_bus_id]

(* Another client's append.                                                *)
OtherAppends(b) ==
    /\ log[b] < MaxLog
    /\ log' = [log EXCEPT ![b] = @ + 1]
    /\ UNCHANGED <<agent_bus_id, repl, step, cmd, reading, shown, refused, floor>>

(* A command ends: the prompt comes back, or the program exits.            *)
Ends == step' = IF repl THEN "prompt" ELSE "exited"

-----------------------------------------------------------------------------
(* The line.                                                               *)

(* Arguments of tail: the last number counts, and an argument that is      *)
(* neither is complained about and skipped.                                *)
HasFollow(args) == \E i \in DOMAIN args : args[i].kind = "-f"
HasBadWord(args) == \E i \in DOMAIN args : args[i].kind = "other"
TailCount(args) ==
    LET numbers == {i \in DOMAIN args : args[i].kind = "n"}
    IN  IF numbers = {} THEN DefaultTail
        ELSE args[CHOOSE i \in numbers : \A j \in numbers : j <= i].n

IsAppend(c) == c.kind \in {"intention", "decider-policy", "voter-policy"}

(* An argument is missing, or a policy is unknown.                         *)
Complains(c) ==
    \/ IsAppend(c) /\ ~c.valid
    \/ c.kind = "tail" /\ HasBadWord(c.args)

Enter(c) ==
    /\ step = "prompt" /\ c.kind # (IF repl THEN "check-tail" ELSE "tail")
    /\ cmd' = c /\ shown' = <<>> /\ floor' = Tail_ /\ refused' = Complains(c)
    /\ IF IsAppend(c)
       THEN IF c.valid THEN step' = "append" ELSE Ends
       ELSE step' = "check_tail"
    /\ UNCHANGED <<log, agent_bus_id, repl, reading>>

SetId(b) ==
    /\ step = "prompt" /\ repl
    /\ agent_bus_id' = b /\ cmd' = NoCommand /\ shown' = <<>> /\ refused' = FALSE
    /\ UNCHANGED <<log, repl, step, reading, floor>>

Quit ==
    /\ step = "prompt" /\ repl
    /\ step' = "exited"
    /\ UNCHANGED <<log, agent_bus_id, repl, cmd, reading, shown, refused, floor>>

-----------------------------------------------------------------------------
(* Requests.                                                               *)

AppendEntry ==
    /\ step = "append" /\ Tail_ < MaxLog
    /\ log' = [log EXCEPT ![agent_bus_id] = @ + 1]
    /\ Ends
    /\ UNCHANGED <<agent_bus_id, repl, cmd, reading, shown, refused, floor>>

(* The bus refuses a request: the command gives up with an error.          *)
RequestFails ==
    /\ step \in {"append", "check_tail", "read", "follow"}
    /\ Ends
    /\ UNCHANGED <<log, agent_bus_id, repl, cmd, reading, shown, refused, floor>>

(* Mutant: the last n entries are one short.                               *)
StartOneLate(n) == IF Tail_ - n + 1 > 0 THEN Tail_ - n + 1 ELSE 0

(* find_tail: n entries back from the tail.                                *)
StartOfTail(n) == IF Tail_ - n > 0 THEN Tail_ - n ELSE 0

(* find_end_position, for check-tail, poll and tail.                       *)
FindEndPosition ==
    /\ step = "check_tail"
    /\ tail' = Tail_
    /\ CASE cmd.kind = "check-tail" -> Ends /\ UNCHANGED <<cursor, remaining>>
         [] cmd.kind = "poll" ->
              step' = "read" /\ cursor' = cmd.start /\ remaining' = cmd.limit
         [] cmd.kind = "tail" ->
              /\ step' = "read" /\ remaining' = TailCount(cmd.args)
              /\ cursor' = StartOfTail(TailCount(cmd.args))
    /\ UNCHANGED <<log, agent_bus_id, repl, cmd, shown, refused, floor>>

Positions(from, n) == [i \in 1 .. n |-> from + i - 1]

MoreToRead == cursor < tail /\ remaining > 0

(* One read_next of read_range: some of the entries below the tail.  The   *)
(* bus refuses a position before the log.                                  *)
ReadNext(n) ==
    /\ step = "read" /\ MoreToRead /\ cursor >= 0
    /\ n <= tail - cursor /\ n <= remaining
    /\ shown' = shown \o Positions(cursor, n)
    /\ cursor' = cursor + n /\ remaining' = remaining - n
    /\ UNCHANGED <<log, agent_bus_id, repl, step, cmd, tail, refused, floor>>

(* Mutant: follow starts at the tail of now.                               *)
FollowFromNow == Tail_

(* tail_follow starts where find_tail's entries ended.                     *)
FollowFrom == tail

(* The range is printed; -f goes on to follow.                             *)
EntriesShown ==
    /\ step = "read" /\ ~MoreToRead
    /\ IF cmd.kind = "tail" /\ HasFollow(cmd.args)
       THEN step' = "follow" /\ cursor' = FollowFrom
       ELSE Ends /\ UNCHANGED cursor
    /\ UNCHANGED <<log, agent_bus_id, repl, cmd, tail, remaining, shown, refused, floor>>

(* Mutant: the position stays where follow mode began.                     *)
FollowInPlace(n) ==
    /\ step = "follow" /\ n <= Tail_ - cursor
    /\ shown' = Positions(cursor, n)
    /\ UNCHANGED <<log, agent_bus_id, repl, step, cmd, reading, refused, floor>>

(* A blocking_poll answers with a page; one that times out changes         *)
(* nothing.                                                                *)
FollowPage(n) ==
    /\ step = "follow" /\ n <= Tail_ - cursor
    /\ shown' = shown \o Positions(cursor, n)
    /\ cursor' = cursor + n
    /\ UNCHANGED <<log, agent_bus_id, repl, step, cmd, tail, remaining, refused, floor>>

KeyPressed ==
    /\ step = "follow"
    /\ Ends
    /\ UNCHANGED <<log, agent_bus_id, repl, cmd, reading, shown, refused, floor>>

Reply == FindEndPosition \/ EntriesShown \/ \E n \in 1 .. MaxPage : ReadNext(n) \/ FollowPage(n)

Next ==
    \/ \E b \in Buses : OtherAppends(b) \/ SetId(b)
    \/ \E c \in Commands : Enter(c)
    \/ Quit \/ AppendEntry \/ RequestFails \/ Reply \/ KeyPressed

Spec == Init /\ [][Next]_vars

(* The bus answers, so the CLI goes on; nobody is obliged to press a key.  *)
FairSpec == Spec /\ WF_vars(Reply)

-----------------------------------------------------------------------------

(* What a command prints has no gap and no repetition, however the bus     *)
(* pages its answers and whoever appends in between, also across the seam  *)
(* between the last n entries and the ones that follow.                    *)
ShownWithoutGaps ==
    /\ \A i \in 1 .. (Len(shown) - 1) : shown[i + 1] = shown[i] + 1
    /\ step \in {"read", "follow"} /\ shown # <<>> => cursor = shown[Len(shown)] + 1

(* tail without -f shows the last n entries of a log that has at least     *)
(* what was in it when the command was entered; poll shows up to limit     *)
(* entries from its start.                                                 *)
RangeIsShown ==
    step = "read" /\ ~MoreToRead =>
        /\ tail >= floor
        /\ cmd.kind = "tail" /\ TailCount(cmd.args) >= 0 =>
             Len(shown) = (IF tail < TailCount(cmd.args) THEN tail ELSE TailCount(cmd.args))
        /\ cmd.kind = "poll" /\ Len(shown) < cmd.limit =>
             \A p \in 0 .. (tail - 1) : p >= cmd.start => \E i \in DOMAIN shown : shown[i] = p

(* Follow mode shows every entry in the end, unless it ends first.         *)
FollowCatchesUp ==
    \A b \in Buses, p \in 0 .. (MaxLog - 1) :
        step = "follow" /\ agent_bus_id = b /\ p >= cursor /\ p < log[b]
            ~> step # "follow" \/ cursor > p

(* "Error: invalid argument" is the answer to a tail command with one: it  *)
(* reads nothing.                                                          *)
RefusedLineDoesNothing == refused => shown = <<>>

=============================================================================
