---------------------------- MODULE WriteOnceBus ----------------------------
(***************************************************************************)
(* WriteOnceAgentBus on one bus id: append and read calls that go through  *)
(* several bus instances (handles) share a write-once address space.  A    *)
(* handle remembers, as a hint, the position its next append should try.   *)
(*                                                                         *)
(* The space is linearizable and keeps what is written.  A request whose   *)
(* caller gave up may still take effect (Lost, LateWrite).  An append call *)
(* stands for its payload.                                                 *)
(***************************************************************************)
EXTENDS Integers, Sequences, FiniteSets

CONSTANTS
    Appends,      \* append calls
    Reads,        \* poll, read_next, read_range, blocking_poll, check_tail
    Handles,      \* bus instances
    HandleOf,     \* the instance each call goes through
    Filters,      \* payload filters of reads; Appends is "no filter"
    Limits,       \* max_entries of reads
    MaxPoll,      \* MAX_POLL_ENTRIES
    Capacity,     \* bound on addresses
    Empty,        \* model value: nothing is written at an address
    MaxFaults     \* bound on failures, conflicts and forgotten hints

Calls     == Appends \cup Reads
Addresses == 0 .. (Capacity - 1)

ASSUME BusCallsAssumption ==
    /\ Appends \cap Reads = {}
    /\ HandleOf \in [Calls -> Handles]
    /\ Filters \subseteq SUBSET Appends

ASSUME BusBoundsAssumption ==
    /\ Capacity \in Nat /\ MaxFaults \in Nat /\ MaxPoll \in Nat \ {0}
    /\ Limits \subseteq Nat
    /\ Empty \notin [position : Addresses, payload : Appends]

VARIABLES
    space,     \* the write-once space: address -> entry or Empty
    next,      \* each handle's next_positions hint; 0 when it has none
    pc,        \* where each call is
    at,        \* the position each call is trying, or has reached
    request,   \* what each read asked for, and what was acknowledged then
    out,       \* the entries each read has collected
    faults

vars == <<space, next, pc, at, request, out, faults>>

-----------------------------------------------------------------------------
(* State.                                                                  *)

BusEntry == [position : Addresses, payload : Appends]

AppendSteps == {"idle", "write", "tail", "ack", "lost", "Ok", "Failed"}
ReadSteps   == {"idle", "tail", "read", "Done", "More", "NotFound", "Failed"}

ReadOps == {"poll", "read_next", "read_range", "blocking_poll", "check_tail"}

Request ==
    [op : ReadOps, start : 0 .. Capacity, end : 0 .. Capacity, limit : Limits \cup {0},
     filter : Filters \cup {{}}, acked : SUBSET Addresses]

NoRequest ==
    [op |-> "poll", start |-> 0, end |-> 0, limit |-> 0, filter |-> {}, acked |-> {}]

Written == {a \in Addresses : space[a] # Empty}

(* One after the highest address of a set.                                 *)
EndOf(S) ==
    IF S = {} THEN 0 ELSE (CHOOSE a \in S : \A b \in S : b <= a) + 1

(* TailableSpace::tail with a window of one.                               *)
SpaceTail == EndOf(Written)

(* Positions that appends have been answered with.                         *)
Acked == {at[c] : c \in {x \in Appends : pc[x] = "Ok"}}

Init ==
    /\ space = [a \in Addresses |-> Empty]
    /\ next = [h \in Handles |-> 0]
    /\ pc = [c \in Calls |-> "idle"]
    /\ at = [c \in Calls |-> 0]
    /\ request = [r \in Reads |-> NoRequest]
    /\ out = [r \in Reads |-> <<>>]
    /\ faults = 0

Fault == faults < MaxFaults /\ faults' = faults + 1

Goto(c, step) == pc' = [pc EXCEPT ![c] = step]

-----------------------------------------------------------------------------
(* append.                                                                 *)

AppendStart(c) ==
    /\ pc[c] = "idle"
    /\ at' = [at EXCEPT ![c] = next[HandleOf[c]]]
    /\ Goto(c, "write")
    /\ UNCHANGED <<space, next, request, out, faults>>

(* The entry is serialized for the position it is written at.              *)
SerializeEntry(c) == [position |-> at[c], payload |-> c]

(* Ok, or AddressAlreadyExists.                                            *)
Write(c) ==
    /\ pc[c] = "write"
    /\ at[c] \in Addresses
    /\ IF space[at[c]] = Empty
         THEN /\ space' = [space EXCEPT ![at[c]] = SerializeEntry(c)]
              /\ Goto(c, "ack")
         ELSE /\ Goto(c, "tail")
              /\ UNCHANGED space
    /\ UNCHANGED <<next, at, request, out, faults>>

(* TransactionConflict: the slot is treated as taken.                      *)
WriteConflict(c) ==
    /\ pc[c] = "write"
    /\ Fault
    /\ Goto(c, "tail")
    /\ UNCHANGED <<space, next, at, request, out>>

NextHint(c) == at[c] + 1

Acknowledge(c) ==
    /\ pc[c] = "ack"
    /\ next' = [next EXCEPT ![HandleOf[c]] = NextHint(c)]
    /\ Goto(c, "Ok")
    /\ UNCHANGED <<space, at, request, out, faults>>

(* Mutant: the taken position is tried again.                              *)
SamePosition(c) == at[c]

RetryPosition(c) == SpaceTail

FindTail(c) ==
    /\ pc[c] = "tail"
    /\ at' = [at EXCEPT ![c] = RetryPosition(c)]
    /\ Goto(c, "write")
    /\ UNCHANGED <<space, next, request, out, faults>>

(* Mutant: a timed-out write is retried like a conflict.                   *)
RetriesTimeout(c) ==
    /\ pc[c] = "ack"
    /\ Fault
    /\ Goto(c, "tail")
    /\ UNCHANGED <<space, next, at, request, out>>

(* The write took effect, or the tail could not be read, and the caller    *)
(* gets an error.                                                          *)
AppendFails(c) ==
    /\ pc[c] \in {"ack", "tail"}
    /\ Fault
    /\ Goto(c, "Failed")
    /\ UNCHANGED <<space, next, at, request, out>>

(* A timeout, or the caller is dropped, with the write still in flight.    *)
Lose(c) ==
    /\ pc[c] = "write"
    /\ Fault
    /\ Goto(c, "lost")
    /\ UNCHANGED <<space, next, at, request, out>>

LateWrite(c) ==
    /\ pc[c] = "lost"
    /\ at[c] \in Addresses
    /\ space' = IF space[at[c]] = Empty
                  THEN [space EXCEPT ![at[c]] = SerializeEntry(c)]
                  ELSE space
    /\ Goto(c, "Failed")
    /\ UNCHANGED <<next, at, request, out, faults>>

(* The LRU cache evicts the hint, or the process restarts.                 *)
Forget(h) ==
    /\ next[h] # 0
    /\ Fault
    /\ next' = [next EXCEPT ![h] = 0]
    /\ UNCHANGED <<space, pc, at, request, out>>

-----------------------------------------------------------------------------
(* Reads.  `at` is the position to read next, request.end the position to  *)
(* stop at.                                                                *)

(* Any other request is answered without reading an entry.                 *)
ValidRequest(q) ==
    /\ q.op \in {"read_next", "read_range", "blocking_poll"} => q.limit > 0 /\ q.filter # {}
    /\ q.op \in {"read_next", "read_range"} => q.start <= q.end

ReadStart(r) ==
    /\ pc[r] = "idle"
    /\ \E op \in ReadOps, start \in 0 .. Capacity, end \in 0 .. Capacity,
          limit \in Limits, filter \in Filters :
         LET q == [op |-> op, start |-> start, end |-> end, limit |-> limit,
                   filter |-> filter, acked |-> Acked] IN
         /\ op \in {"poll", "blocking_poll", "check_tail"} => end = 0
         /\ op = "check_tail" => start = 0
         /\ ValidRequest(q)
         /\ request' = [request EXCEPT ![r] = q]
         /\ at' = [at EXCEPT ![r] = start]
         /\ Goto(r, IF op \in {"read_next", "read_range"} THEN "read"
                    ELSE IF op = "poll" /\ filter = {} THEN "Done"
                    ELSE "tail")
    /\ UNCHANGED <<space, next, out, faults>>

(* Mutant: the tail is the handle's hint.                                  *)
HintIsTail(r) == next[HandleOf[r]]

ReadTail(r) == SpaceTail

CheckTail(r) ==
    /\ pc[r] = "tail"
    /\ request[r].op = "check_tail"
    /\ request' = [request EXCEPT ![r].end = ReadTail(r)]
    /\ Goto(r, "Done")
    /\ UNCHANGED <<space, next, at, out, faults>>

(* poll also refreshes its handle's hint.                                  *)
PollTail(r) ==
    /\ pc[r] = "tail"
    /\ request[r].op = "poll"
    /\ request' = [request EXCEPT ![r].end = ReadTail(r)]
    /\ next' = [next EXCEPT ![HandleOf[r]] = ReadTail(r)]
    /\ Goto(r, "read")
    /\ UNCHANGED <<space, at, out, faults>>

(* blocking_poll asks again until there is something to read.              *)
BlockingTail(r) ==
    /\ pc[r] = "tail"
    /\ request[r].op = "blocking_poll"
    /\ ReadTail(r) > request[r].start
    /\ request' = [request EXCEPT ![r].end = ReadTail(r)]
    /\ Goto(r, "read")
    /\ UNCHANGED <<space, next, at, out, faults>>

(* Its deadline passes.                                                    *)
BlockingTimeout(r) ==
    /\ pc[r] = "tail"
    /\ request[r].op = "blocking_poll"
    /\ ReadTail(r) <= request[r].start
    /\ request' = [request EXCEPT ![r].end = request[r].start]
    /\ Goto(r, "Done")
    /\ UNCHANGED <<space, next, at, out, faults>>

(* read_range asks for page after page, the others for one page.           *)
Page(q) ==
    IF q.op = "read_range" \/ q.limit <= MaxPoll THEN q.limit ELSE MaxPoll

Full(r, entries) == Len(entries) >= Page(request[r])

Wanted(r) == space[at[r]] # Empty /\ space[at[r]].payload \in request[r].filter

Advance(r) == at' = [at EXCEPT ![r] = @ + 1]

ReadMissing(r) ==
    /\ pc[r] = "read"
    /\ at[r] < request[r].end
    /\ at[r] \notin Written
    /\ Goto(r, "NotFound")
    /\ UNCHANGED <<space, next, at, request, out, faults>>

ReadFiltered(r) ==
    /\ pc[r] = "read"
    /\ at[r] < request[r].end /\ at[r] \in Written
    /\ ~ Wanted(r)
    /\ Advance(r)
    /\ UNCHANGED <<space, next, pc, request, out, faults>>

(* poll stops in front of an entry it has no room for.                     *)
PollFull(r) ==
    /\ pc[r] = "read"
    /\ at[r] < request[r].end /\ at[r] \in Written
    /\ Wanted(r)
    /\ request[r].op = "poll" /\ Full(r, out[r])
    /\ Goto(r, "More")
    /\ UNCHANGED <<space, next, at, request, out, faults>>

(* Mutant: poll's rule, which leaves a full page unnoticed.                *)
NeverFull(r, entries) == FALSE

(* The others stop right after the entry that fills the page.              *)
StopsAfter(r, entries) == request[r].op # "poll" /\ Full(r, entries)

ReadWanted(r) ==
    LET entries == Append(out[r], space[at[r]]) IN
    /\ pc[r] = "read"
    /\ at[r] < request[r].end /\ at[r] \in Written
    /\ Wanted(r)
    /\ ~ (request[r].op = "poll" /\ Full(r, out[r]))
    /\ out' = [out EXCEPT ![r] = entries]
    /\ Advance(r)
    /\ Goto(r, IF StopsAfter(r, entries) THEN "More" ELSE "read")
    /\ UNCHANGED <<space, next, request, faults>>

ReadEnd(r) ==
    /\ pc[r] = "read"
    /\ at[r] >= request[r].end
    /\ Goto(r, "Done")
    /\ UNCHANGED <<space, next, at, request, out, faults>>

ReadFails(r) ==
    /\ pc[r] \in {"tail", "read"}
    /\ Fault
    /\ Goto(r, "Failed")
    /\ UNCHANGED <<space, next, at, request, out>>

-----------------------------------------------------------------------------

AppendStep(c) == AppendStart(c) \/ Write(c) \/ Acknowledge(c) \/ FindTail(c)

AppendFault(c) == WriteConflict(c) \/ AppendFails(c) \/ Lose(c)

ReadStep(r) ==
    \/ ReadStart(r)
    \/ CheckTail(r) \/ PollTail(r) \/ BlockingTail(r) \/ BlockingTimeout(r)
    \/ ReadMissing(r) \/ ReadFiltered(r) \/ PollFull(r) \/ ReadWanted(r) \/ ReadEnd(r)

Next ==
    \/ \E c \in Appends : AppendStep(c) \/ AppendFault(c) \/ LateWrite(c)
    \/ \E r \in Reads : ReadStep(r) \/ ReadFails(r)
    \/ \E h \in Handles : Forget(h)

Spec == Init /\ [][Next]_vars

(* A call's executor keeps polling it, and deadlines pass.                 *)
FairSpec ==
    /\ Spec
    /\ \A c \in Appends : WF_vars(AppendStep(c))
    /\ \A r \in Reads : WF_vars(ReadStep(r))

-----------------------------------------------------------------------------
(* Properties.                                                             *)

(* Type correctness: hints and cursors stay within the address space.      *)
TypeOK ==
    /\ space \in [Addresses -> BusEntry \cup {Empty}]
    /\ next \in [Handles -> 0 .. Capacity]
    /\ pc \in [Calls -> AppendSteps \cup ReadSteps]
    /\ at \in [Calls -> 0 .. Capacity]
    /\ request \in [Reads -> Request]
    /\ out \in [Reads -> Seq(BusEntry)]
    /\ faults \in 0 .. MaxFaults

(* The log has no holes and every entry carries its own position, although *)
(* appends start from hints that are stale, forgotten or refreshed by a    *)
(* concurrent poll.  TAIL_WINDOW_SIZE = 1 relies on it.                    *)
Contiguous ==
    \A a \in Written : space[a].position = a /\ \A b \in 0 .. a : b \in Written

(* The shared log that the space represents.                               *)
LogOf == [i \in 1 .. SpaceTail |-> space[i - 1].payload]

StatusOf(c) ==
    CASE pc[c] = "idle" -> "idle"
      [] pc[c] \in {"write", "tail", "ack"} -> "pending"
      [] pc[c] \in {"lost", "Failed"} -> "failed"
      [] pc[c] = "Ok" -> "ok"

Log == INSTANCE SharedLog WITH
    log <- LogOf,
    status <- [c \in Appends |-> StatusOf(c)],
    answer <- [c \in Appends |-> IF pc[c] = "Ok" THEN <<at[c]>> ELSE <<>>]

(* The bus is an atomic shared log to its appenders: each call adds its    *)
(* payload once, at the end, before it is answered with that position.     *)
ImplementsSharedLog == Log!Spec

(* The tail a read works with covers every append that was answered before *)
(* the read was made, through whichever handle, and a read that stays      *)
(* within those never fails to find an entry.                              *)
ReadsCoverAcked ==
    \A r \in Reads :
        /\ /\ request[r].op \notin {"read_next", "read_range"}
           /\ request[r].filter # {}
           /\ pc[r] \in {"read", "Done", "More"}
           => \A a \in request[r].acked : a < request[r].end
        /\ pc[r] = "NotFound" =>
             /\ request[r].op \in {"read_next", "read_range"}
             /\ \E a \in 0 .. (request[r].end - 1) : a \notin request[r].acked

(* The wanted entries in a range of the log.                               *)
WantedIn(r, from, to) ==
    {space[a] : a \in {b \in from .. (to - 1) : space[b].payload \in request[r].filter}}

(* A read has collected those of a range, each once and in order.          *)
Collected(r, from, to) ==
    /\ {out[r][i] : i \in 1 .. Len(out[r])} = WantedIn(r, from, to)
    /\ \A i, j \in 1 .. Len(out[r]) : i < j => out[r][i].position < out[r][j].position

(* Paging neither skips nor repeats an entry: what a read returns is what  *)
(* the log holds between its start and the position it returns, and a read *)
(* that says it is complete has left nothing it was asked for behind.      *)
PagesAreExact ==
    \A r \in Reads :
        /\ pc[r] \in {"read", "More"} /\ at[r] <= SpaceTail /\ request[r].start <= at[r] =>
             Collected(r, request[r].start, at[r])
        /\ pc[r] = "Done" /\ request[r].op # "check_tail" /\ request[r].start <= request[r].end =>
             Collected(r, request[r].start, request[r].end)
        /\ pc[r] \in {"Done", "More"} => Len(out[r]) <= Page(request[r])

(* Every append returns: losing a slot means another append took it.       *)
AppendsReturn == \A c \in Appends : pc[c] = "write" ~> pc[c] \in {"Ok", "Failed", "lost"}

=============================================================================
