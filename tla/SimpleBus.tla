----------------------------- MODULE SimpleBus ------------------------------
(***************************************************************************)
(* InMemoryAgentBus: a growing vector of entries per bus, which may expire *)
(* but keep their positions.  Readers page through one bus by poll, by     *)
(* check_tail and read_next, or by blocking_poll, each with a filter.      *)
(* Positions count from 0; entry p is log[p + 1].                          *)
(***************************************************************************)
EXTENDS Integers, Sequences, FiniteSets, FiniteSetsExt

CONSTANTS
    Types,         \* payload types
    Readers,
    How,           \* reader -> "poll", "read" or "block"
    Filter,        \* reader -> the payload types it asks for
    PageSize,      \* reader -> its max_entries
    MaxPollEntries,\* MAX_POLL_ENTRIES
    Timeout,       \* of a blocking poll, in ticks
    Ttl,           \* lifetime of an entry in ticks; 0: no expiry
    MaxLog, MaxClock

SimpleBusAssumption ==
    /\ How \in [Readers -> {"poll", "read", "block"}]
    /\ Filter \in [Readers -> SUBSET Types]
    /\ PageSize \in [Readers -> Nat \ {0}] /\ MaxPollEntries \in Nat \ {0}
    /\ Timeout \in Nat /\ Ttl \in Nat /\ MaxLog \in Nat /\ MaxClock \in Nat

VARIABLES
    log,      \* entries: payload type and time of the append
    clock,
    reader    \* reader -> pc, cursor, tail it saw, deadline, what it has got

vars == <<log, clock, reader>>

Init ==
    /\ log = <<>>
    /\ clock = 0
    /\ reader = [r \in Readers |-> [pc |-> "idle", cursor |-> 0, tail |-> 0,
                                    deadline |-> 0, got |-> <<>>, complete |-> FALSE]]

-----------------------------------------------------------------------------
Tail_(l) == Len(l)     \* get_tail

(* Mutant: expired entries are still readable.                            *)
LiveAlways(p) == TRUE

IsLive(p) == Ttl = 0 \/ clock < log[p + 1].at + Ttl

Match(r, p) == log[p + 1].type \in Filter[r]

(* The first `max` matching positions of [start, end).                     *)
Page(r, start, end, max) ==
    {p \in start .. (end - 1) :
       Match(r, p) /\ Cardinality({q \in start .. (p - 1) : Match(r, q)}) < max}

InOrder(S) == [i \in 1 .. Cardinality(S) |-> CHOOSE p \in S : Cardinality({q \in S : q < p}) = i - 1]

(* The entries looked at before the scan stops: a read stops at the last   *)
(* entry of a full page, a poll at the first one that does not fit.        *)
ReadScan(r, start, end, max) ==
    LET page == Page(r, start, end, max)
    IN  IF Cardinality(page) = max THEN start .. Max(page) ELSE start .. (end - 1)

PollScan(r, start, max) ==
    {p \in start .. (Len(log) - 1) :
       Cardinality({q \in start .. (p - 1) : Match(r, q)}) <= max}

-----------------------------------------------------------------------------
AppendEntry(type) ==
    /\ Len(log) < MaxLog
    /\ log' = Append(log, [type |-> type, at |-> clock])
    /\ UNCHANGED <<clock, reader>>

Tick ==
    /\ clock < MaxClock
    /\ clock' = clock + 1
    /\ UNCHANGED <<log, reader>>

(* poll: at most MAX_POLL_ENTRIES; the caller goes on after the last entry.*)
PollLimit(r) == IF PageSize[r] < MaxPollEntries THEN PageSize[r] ELSE MaxPollEntries

(* Mutant: a full page counts as complete.                                 *)
CompleteIfAny(r, start, max) == Page(r, start, Len(log), max) # {}

Complete(r, start, max) ==
    \A p \in start .. (Len(log) - 1) : Match(r, p) => p \in Page(r, start, Len(log), max)

Poll(r) ==
    LET start == reader[r].cursor
        max   == PollLimit(r)
        page  == Page(r, start, Len(log), max) IN
    /\ How[r] = "poll"
    /\ \A p \in PollScan(r, start, max) : IsLive(p)
    /\ reader' = [reader EXCEPT ![r].got = @ \o InOrder(page),
                                ![r].cursor = IF page = {} THEN @ ELSE Max(page) + 1,
                                ![r].complete = Complete(r, start, max)]
    /\ UNCHANGED <<log, clock>>

(* check_tail, then read_next up to that tail.                             *)
CheckTail(r) ==
    /\ How[r] = "read" /\ reader[r].pc = "idle"
    /\ reader' = [reader EXCEPT ![r].pc = "read", ![r].tail = Tail_(log)]
    /\ UNCHANGED <<log, clock>>

(* Mutant: the next page starts at the end although this one was full.     *)
NextAtEnd(r, start, end, max) == end

NextStart(r, start, end, max) ==
    LET page == Page(r, start, end, max)
    IN  IF Cardinality(page) = max THEN Max(page) + 1 ELSE end

ReadNext(r) ==
    LET start == reader[r].cursor
        end   == reader[r].tail
        max   == PageSize[r] IN
    /\ reader[r].pc = "read"
    /\ \A p \in ReadScan(r, start, end, max) : IsLive(p)
    /\ reader' = [reader EXCEPT ![r].got = @ \o InOrder(Page(r, start, end, max)),
                                ![r].cursor = NextStart(r, start, end, max),
                                ![r].pc = "idle"]
    /\ UNCHANGED <<log, clock>>

(* PositionNotFound: an expired entry is in the way; the cursor stays.     *)
ReadExpired(r) ==
    /\ reader[r].pc = "read"
    /\ \E p \in ReadScan(r, reader[r].cursor, reader[r].tail, PageSize[r]) : ~ IsLive(p)
    /\ reader' = [reader EXCEPT ![r].pc = "idle"]
    /\ UNCHANGED <<log, clock>>

(* blocking_poll: wait for the tail to pass the cursor, or time out.       *)
BlockBegin(r) ==
    /\ How[r] = "block" /\ reader[r].pc = "idle"
    /\ clock + Timeout <= MaxClock      \* bound: the deadline can be reached
    /\ reader' = [reader EXCEPT ![r].pc = "wait", ![r].deadline = clock + Timeout]
    /\ UNCHANGED <<log, clock>>

BlockFound(r) ==
    /\ reader[r].pc = "wait" /\ Tail_(log) > reader[r].cursor
    /\ reader' = [reader EXCEPT ![r].pc = "read", ![r].tail = Tail_(log)]
    /\ UNCHANGED <<log, clock>>

(* Mutant: the deadline is not looked at while the log is quiet.           *)
NoDeadline(r) == FALSE

Expired(r) == clock >= reader[r].deadline

BlockTimeout(r) ==
    /\ reader[r].pc = "wait" /\ Tail_(log) <= reader[r].cursor /\ Expired(r)
    /\ reader' = [reader EXCEPT ![r].pc = "idle"]
    /\ UNCHANGED <<log, clock>>

(* What a call that was made does next.                                    *)
Goes(r) == ReadNext(r) \/ ReadExpired(r) \/ BlockFound(r) \/ BlockTimeout(r)

Next ==
    \/ \E type \in Types : AppendEntry(type)
    \/ Tick
    \/ \E r \in Readers :
         Poll(r) \/ CheckTail(r) \/ BlockBegin(r) \/ Goes(r)

(* Time passes, and the executor polls a call that can go on.              *)
Fairness ==
    /\ WF_vars(Tick)
    /\ \A r \in Readers : WF_vars(Goes(r))

Spec == Init /\ [][Next]_vars /\ Fairness

-----------------------------------------------------------------------------
(* A reader misses nothing, repeats nothing and reorders nothing: it has   *)
(* got exactly the matching entries below its cursor, whichever way it     *)
(* reads and whatever was appended between its tail check and its read.    *)
NothingSkipped ==
    \A r \in Readers :
      reader[r].got = InOrder({p \in 0 .. (reader[r].cursor - 1) : Match(r, p)})

(* complete: no matching entry was left at the time of the poll; entries   *)
(* appended since are all that is missing.                                 *)
CompleteMeansAll ==
    \A r \in Readers : Poll(r) =>
      (reader'[r].complete <=> \A p \in reader'[r].cursor .. (Len(log) - 1) : ~ Match(r, p))

(* An expired entry is never delivered: the call fails instead.            *)
NoExpiredDelivery ==
    \A r \in Readers : \A i \in (Len(reader[r].got) + 1) .. Len(reader'[r].got) :
      Ttl = 0 \/ clock < log[reader'[r].got[i] + 1].at + Ttl

(* A blocking poll returns: on new entries or at its deadline.             *)
BlockingPollReturns ==
    \A r \in Readers : (reader[r].pc = "wait") ~> (reader[r].pc = "idle")

=============================================================================
