------------------------- MODULE WriteOnceBusProofs -------------------------
(***************************************************************************)
(* Theorems about WriteOnceBus, for any number of calls, handles, faults   *)
(* and addresses: the log has no holes, reads cover what was acknowledged, *)
(* and the bus implements the abstract shared log.                         *)
(***************************************************************************)
EXTENDS WriteOnceBus, SequenceTheorems, TLAPS

(* The written addresses are an initial segment.                           *)
Packed == \E n \in 0 .. Capacity : Written = 0 .. (n - 1)

Positioned == \A a \in Written : space[a].position = a

(* Nobody is ahead of the tail: no hint and no append.                     *)
HintsBehind == \A h \in Handles : next[h] <= SpaceTail

AppendsBehind ==
    \A c \in Appends :
        /\ at[c] <= SpaceTail
        /\ pc[c] \in {"ack", "Ok"} => at[c] < SpaceTail /\ space[at[c]].payload = c

(* A call whose payload is in the space is past its write.                 *)
WrittenOnce ==
    \A a \in Written : pc[space[a].payload] \in {"ack", "Ok", "Failed"}

(* A read that works with a tail knows one that was reached, and that      *)
(* covers the acknowledged positions.                                      *)
KnowsTail(r) ==
    /\ request[r].op \notin {"read_next", "read_range"}
    /\ request[r].filter # {}
    /\ pc[r] \in {"read", "Done", "More"}

ReadBehind(r) ==
    /\ \A a \in request[r].acked : a < SpaceTail
    /\ KnowsTail(r) => \A a \in request[r].acked : a < request[r].end
    /\ pc[r] = "read" /\ request[r].op \notin {"read_next", "read_range"} =>
         request[r].end <= SpaceTail /\ request[r].filter # {}
    /\ pc[r] = "tail" =>
         /\ request[r].op \notin {"read_next", "read_range"}
         /\ request[r].filter # {} \/ request[r].op = "check_tail"
    /\ pc[r] = "NotFound" =>
         /\ request[r].op \in {"read_next", "read_range"}
         /\ \E a \in 0 .. (request[r].end - 1) : a \notin request[r].acked

ReadsBehind == \A r \in Reads : ReadBehind(r)

BusInv ==
    /\ TypeOK
    /\ Packed
    /\ Positioned
    /\ HintsBehind
    /\ AppendsBehind
    /\ WrittenOnce
    /\ ReadsBehind

-----------------------------------------------------------------------------

(* One after the highest address of an initial segment is its length.      *)
LEMMA TopOfSegment ==
    ASSUME NEW S, NEW n \in Nat, S = 0 .. (n - 1)
    PROVE  EndOf(S) = n
<1>1. CASE n = 0
    <2>1. S = {}
        BY <1>1
    <2> QED BY <2>1, <1>1 DEF EndOf
<1>2. CASE n # 0
    <2> DEFINE Top(a) == a \in S /\ \A b \in S : b <= a
    <2>1. Top(n - 1) /\ S # {}
        BY <1>2
    <2>2. \A a : Top(a) => a = n - 1
        BY <1>2
    <2>3. (CHOOSE a \in S : \A b \in S : b <= a) = n - 1
        BY <2>1, <2>2
    <2> QED BY <2>1, <2>3 DEF EndOf
<1> QED BY <1>1, <1>2

(* So a packed space is written exactly below its tail.                    *)
LEMMA BelowTail ==
    ASSUME Packed
    PROVE  SpaceTail \in 0 .. Capacity /\ Written = 0 .. (SpaceTail - 1)
<1> PICK n \in 0 .. Capacity : Written = 0 .. (n - 1)
    BY DEF Packed
<1>1. SpaceTail = n
    BY TopOfSegment, BusBoundsAssumption DEF SpaceTail
<1> QED BY <1>1

(* A write below or at the tail of a packed space that finds its address   *)
(* empty extends the space by one.                                         *)
LEMMA WriteExtends ==
    ASSUME TypeOK, Packed, NEW c \in Appends,
           at[c] \in Addresses, at[c] <= SpaceTail, space[at[c]] = Empty,
           space' = [space EXCEPT ![at[c]] = SerializeEntry(c)]
    PROVE  /\ at[c] = SpaceTail
           /\ SpaceTail' = SpaceTail + 1
           /\ Written' = 0 .. SpaceTail
           /\ Packed'
           /\ space' \in [Addresses -> BusEntry \cup {Empty}]
           /\ space'[at[c]] = [position |-> at[c], payload |-> c]
           /\ \A a \in Written : space'[a] = space[a]
<1> USE BusBoundsAssumption
<1>1. /\ SpaceTail \in 0 .. Capacity
      /\ Written = 0 .. (SpaceTail - 1)
    BY BelowTail
<1>2. at[c] = SpaceTail
    BY <1>1 DEF Written, Addresses
<1>3. SerializeEntry(c) \in BusEntry /\ SerializeEntry(c) # Empty
    BY DEF SerializeEntry, BusEntry
<1>4. space' \in [Addresses -> BusEntry \cup {Empty}]
    BY <1>3 DEF TypeOK
<1>5. space'[at[c]] = SerializeEntry(c) /\ \A a \in Addresses \ {at[c]} : space'[a] = space[a]
    BY DEF TypeOK
<1>6. Written' = Written \cup {at[c]}
    BY <1>3, <1>5 DEF Written, Addresses
<1>7. Written' = 0 .. SpaceTail
    BY <1>1, <1>2, <1>6
<1>8. SpaceTail + 1 \in 0 .. Capacity
    BY <1>1, <1>2 DEF Addresses
<1>9. SpaceTail' = SpaceTail + 1
    <2> DEFINE n == SpaceTail + 1
    <2>1. n \in 0 .. Capacity /\ Written' = 0 .. (n - 1)
        BY <1>1, <1>7, <1>8
    <2> HIDE DEF n
    <2>2. SpaceTail' = n
        BY <2>1, TopOfSegment DEF SpaceTail
    <2> QED BY <2>2 DEF n
<1>10. Packed'
    BY <1>1, <1>7, <1>8 DEF Packed
<1>11. \A a \in Written : space'[a] = space[a]
    BY <1>1, <1>2, <1>5 DEF Written
<1> QED BY <1>2, <1>4, <1>5, <1>7, <1>9, <1>10, <1>11 DEF SerializeEntry

-----------------------------------------------------------------------------
(* BusInv is inductive.                                                    *)

LEMMA BusInvInit == Init => BusInv
<1> SUFFICES ASSUME Init PROVE BusInv
    OBVIOUS
<1> USE BusBoundsAssumption, BusCallsAssumption DEF Init
<1>1. Written = {}
    BY DEF Written
<1>2. SpaceTail = 0
    BY <1>1 DEF SpaceTail, EndOf
<1>3. Packed /\ Positioned /\ WrittenOnce
    <2>1. 0 \in 0 .. Capacity /\ Written = 0 .. (0 - 1)
        BY <1>1
    <2> QED BY <1>1, <2>1 DEF Packed, Positioned, WrittenOnce
<1>4. HintsBehind /\ AppendsBehind
    BY <1>2 DEF HintsBehind, AppendsBehind, Calls
<1>5. ReadsBehind
    BY DEF ReadsBehind, ReadBehind, KnowsTail, NoRequest, Calls
<1>6. TypeOK
    BY DEF TypeOK, Request, NoRequest, ReadOps, AppendSteps, ReadSteps
<1> QED BY <1>3, <1>4, <1>5, <1>6 DEF BusInv

(* A step that leaves the space alone.                                     *)
LEMMA SameSpace ==
    ASSUME UNCHANGED space
    PROVE  /\ SpaceTail' = SpaceTail /\ Written' = Written
           /\ Packed => Packed'
           /\ Positioned => Positioned'
BY DEF SpaceTail, Written, Packed, Positioned

(* What every step of an append call has to preserve, when the space stays *)
(* as it is.                                                               *)
LEMMA AppendQuiet ==
    ASSUME BusInv, UNCHANGED <<space, request, out>>, NEW c \in Appends,
           NEW step \in AppendSteps, Goto(c, step),
           NEW p \in 0 .. Capacity, at' = [at EXCEPT ![c] = p], p <= SpaceTail,
           next' \in [Handles -> 0 .. Capacity],
           \A h \in Handles : next'[h] <= SpaceTail,
           faults' \in 0 .. MaxFaults,
           step \in {"ack", "Ok"} => p = at[c] /\ pc[c] = "ack",
           pc[c] \in {"ack", "Ok", "Failed"} => step \in {"ack", "Ok", "Failed"}
    PROVE  BusInv'
<1> USE BusBoundsAssumption, BusCallsAssumption DEF Goto, Calls
<1>1. SpaceTail' = SpaceTail /\ Written' = Written /\ Packed' /\ Positioned'
    BY SameSpace DEF BusInv
<1>2. TypeOK'
    BY DEF BusInv, TypeOK
<1>3. HintsBehind'
    BY <1>1 DEF HintsBehind
<1>4. AppendsBehind'
    BY <1>1 DEF BusInv, TypeOK, AppendsBehind
<1>5. WrittenOnce'
    BY <1>1 DEF BusInv, TypeOK, WrittenOnce, Written, BusEntry
<1>6. \A r \in Reads : pc'[r] = pc[r]
    BY DEF BusInv, TypeOK
<1>7. ReadsBehind'
    BY <1>1, <1>6 DEF BusInv, ReadsBehind, ReadBehind, KnowsTail
<1> QED BY <1>1, <1>2, <1>3, <1>4, <1>5, <1>7 DEF BusInv

(* An entry reaches the space.                                             *)
LEMMA AppendWrites ==
    ASSUME BusInv, UNCHANGED <<next, at, request, out, faults>>, NEW c \in Appends,
           pc[c] \in {"write", "lost"}, at[c] \in Addresses, space[at[c]] = Empty,
           space' = [space EXCEPT ![at[c]] = SerializeEntry(c)],
           NEW step \in {"ack", "Failed"}, Goto(c, step)
    PROVE  BusInv'
<1> USE BusBoundsAssumption, BusCallsAssumption DEF Goto, Calls
<1>1. at[c] <= SpaceTail /\ TypeOK /\ Packed
    BY DEF BusInv, AppendsBehind
<1>2. /\ at[c] = SpaceTail
      /\ SpaceTail' = SpaceTail + 1
      /\ Written' = 0 .. SpaceTail
      /\ Packed'
      /\ space' \in [Addresses -> BusEntry \cup {Empty}]
      /\ space'[at[c]] = [position |-> at[c], payload |-> c]
      /\ \A a \in Written : space'[a] = space[a]
    BY <1>1, WriteExtends
<1>3. SpaceTail \in 0 .. Capacity /\ Written = 0 .. (SpaceTail - 1)
    BY <1>1, BelowTail
<1>4. Written' = Written \cup {at[c]}
    BY <1>2, <1>3
<1>5. TypeOK'
    BY <1>1, <1>2 DEF TypeOK, AppendSteps
<1>6. Positioned'
    BY <1>2, <1>4 DEF BusInv, Positioned
<1>7. HintsBehind'
    BY <1>1, <1>2, <1>3 DEF BusInv, HintsBehind, TypeOK
<1>8. AppendsBehind'
    <2> SUFFICES ASSUME NEW x \in Appends
                 PROVE  /\ at[x] <= SpaceTail'
                        /\ pc'[x] \in {"ack", "Ok"} =>
                             at[x] < SpaceTail' /\ space'[at[x]].payload = x
        BY DEF AppendsBehind
    <2>1. at[x] \in 0 .. Capacity /\ at[x] <= SpaceTail
        BY <1>1 DEF BusInv, AppendsBehind, TypeOK
    <2>2. CASE x = c
        BY <2>1, <2>2, <1>2, <1>3
    <2>3. CASE x # c
        <3>1. pc'[x] = pc[x]
            BY <2>3, <1>1 DEF TypeOK
        <3>2. pc[x] \in {"ack", "Ok"} => at[x] \in Written /\ space[at[x]].payload = x
            BY <2>1, <1>3 DEF BusInv, AppendsBehind
        <3> QED BY <3>1, <3>2, <2>1, <1>2, <1>3
    <2> QED BY <2>2, <2>3
<1>9. WrittenOnce'
    <2> SUFFICES ASSUME NEW a \in Written'
                 PROVE  pc'[space'[a].payload] \in {"ack", "Ok", "Failed"}
        BY DEF WrittenOnce
    <2>1. CASE a = at[c]
        BY <2>1, <1>1, <1>2 DEF TypeOK
    <2>2. CASE a \in Written
        <3>1. space[a] \in BusEntry
            BY <2>2, <1>1 DEF TypeOK, Written
        <3>2. space[a].payload \in Appends /\ pc[space[a].payload] \in {"ack", "Ok", "Failed"}
            BY <3>1, <2>2 DEF BusInv, WrittenOnce, BusEntry
        <3> QED BY <3>2, <2>2, <1>1, <1>2 DEF TypeOK
    <2> QED BY <2>1, <2>2, <1>4
<1>10. ReadsBehind'
    <2>1. \A r \in Reads : pc'[r] = pc[r] /\ request[r] \in Request
        BY <1>1 DEF TypeOK
    <2> QED BY <2>1, <1>2, <1>3 DEF BusInv, ReadsBehind, ReadBehind, KnowsTail, Request, Addresses
<1> QED BY <1>2, <1>5, <1>6, <1>7, <1>8, <1>9, <1>10 DEF BusInv

LEMMA AppendKeepsInv ==
    ASSUME BusInv, NEW c \in Appends, AppendStep(c) \/ AppendFault(c) \/ LateWrite(c)
    PROVE  BusInv'
<1> USE BusBoundsAssumption, BusCallsAssumption
<1>1. /\ SpaceTail \in 0 .. Capacity
      /\ HandleOf[c] \in Handles /\ c \in Calls
      /\ next \in [Handles -> 0 .. Capacity] /\ \A h \in Handles : next[h] <= SpaceTail
      /\ at \in [Calls -> 0 .. Capacity] /\ at[c] <= SpaceTail
      /\ faults \in 0 .. MaxFaults
    BY BelowTail DEF BusInv, TypeOK, HintsBehind, AppendsBehind, Calls
<1>2. ASSUME UNCHANGED at PROVE at' = [at EXCEPT ![c] = at[c]]
    BY <1>1, <1>2
<1>3. CASE AppendStart(c)
    <2> DEFINE p == next[HandleOf[c]]
    <2>1. p \in 0 .. Capacity /\ p <= SpaceTail /\ at' = [at EXCEPT ![c] = p]
        BY <1>1, <1>3 DEF AppendStart
    <2> HIDE DEF p
    <2> QED BY <1>1, <1>3, <2>1, AppendQuiet DEF AppendStart, AppendSteps
<1>4. CASE Write(c)
    <2>1. CASE space[at[c]] = Empty
        BY <1>4, <2>1, AppendWrites DEF Write
    <2>2. CASE space[at[c]] # Empty
        BY <1>1, <1>2, <1>4, <2>2, AppendQuiet DEF Write, AppendSteps
    <2> QED BY <2>1, <2>2
<1>5. CASE Acknowledge(c)
    <2>1. at[c] < SpaceTail
        BY <1>5 DEF Acknowledge, BusInv, AppendsBehind
    <2>2. /\ next' \in [Handles -> 0 .. Capacity]
          /\ \A h \in Handles : next'[h] <= SpaceTail
        BY <1>1, <1>5, <2>1 DEF Acknowledge, NextHint
    <2> QED BY <1>1, <1>2, <1>5, <2>2, AppendQuiet DEF Acknowledge, AppendSteps
<1>6. CASE FindTail(c)
    <2> DEFINE p == SpaceTail
    <2>1. p \in 0 .. Capacity /\ p <= SpaceTail /\ at' = [at EXCEPT ![c] = p]
        BY <1>1, <1>6 DEF FindTail, RetryPosition
    <2> HIDE DEF p
    <2> QED BY <1>1, <1>6, <2>1, AppendQuiet DEF FindTail, AppendSteps
<1>7. CASE WriteConflict(c)
    BY <1>1, <1>2, <1>7, AppendQuiet DEF WriteConflict, Fault, AppendSteps
<1>8. CASE AppendFails(c)
    BY <1>1, <1>2, <1>8, AppendQuiet DEF AppendFails, Fault, AppendSteps
<1>9. CASE Lose(c)
    BY <1>1, <1>2, <1>9, AppendQuiet DEF Lose, Fault, AppendSteps
<1>10. CASE LateWrite(c)
    <2>1. CASE space[at[c]] = Empty
        BY <1>10, <2>1, AppendWrites DEF LateWrite
    <2>2. CASE space[at[c]] # Empty
        BY <1>1, <1>2, <1>10, <2>2, AppendQuiet DEF LateWrite, AppendSteps
    <2> QED BY <2>1, <2>2
<1> QED BY <1>3, <1>4, <1>5, <1>6, <1>7, <1>8, <1>9, <1>10 DEF AppendStep, AppendFault

-----------------------------------------------------------------------------
(* Reads change no append and not the space.                               *)

LEMMA ReadQuiet ==
    ASSUME BusInv, UNCHANGED space, NEW r \in Reads,
           next' \in [Handles -> 0 .. Capacity],
           \A h \in Handles : next'[h] <= SpaceTail,
           faults' \in 0 .. MaxFaults,
           NEW step \in ReadSteps, pc' = [pc EXCEPT ![r] = step],
           NEW p \in 0 .. Capacity, at' = [at EXCEPT ![r] = p],
           NEW q \in Request, request' = [request EXCEPT ![r] = q],
           NEW es \in Seq(BusEntry), out' = [out EXCEPT ![r] = es],
           ReadBehind(r)'
    PROVE  BusInv'
<1> USE BusBoundsAssumption, BusCallsAssumption DEF Calls
<1>1. SpaceTail' = SpaceTail /\ Written' = Written /\ Packed' /\ Positioned'
    BY SameSpace DEF BusInv
<1>2. TypeOK'
    BY DEF BusInv, TypeOK
<1>3. HintsBehind'
    BY <1>1 DEF HintsBehind
<1>4. \A c \in Appends : pc'[c] = pc[c] /\ at'[c] = at[c]
    BY DEF BusInv, TypeOK
<1>5. AppendsBehind'
    BY <1>1, <1>4 DEF BusInv, AppendsBehind
<1>6. WrittenOnce'
    BY <1>1, <1>4 DEF BusInv, TypeOK, WrittenOnce, Written, BusEntry
<1>7. \A x \in Reads \ {r} : pc'[x] = pc[x] /\ request'[x] = request[x]
    BY DEF BusInv, TypeOK
<1>8. \A x \in Reads \ {r} : ReadBehind(x)'
    BY <1>1, <1>7 DEF BusInv, ReadsBehind, ReadBehind, KnowsTail
<1>9. ReadsBehind'
    BY <1>8 DEF ReadsBehind, ReadBehind
<1> QED BY <1>1, <1>2, <1>3, <1>5, <1>6, <1>9 DEF BusInv

LEMMA ReadKeepsInv ==
    ASSUME BusInv, NEW r \in Reads, ReadStep(r) \/ ReadFails(r)
    PROVE  BusInv'
<1> USE BusBoundsAssumption, BusCallsAssumption
<1>1. /\ SpaceTail \in 0 .. Capacity /\ Written = 0 .. (SpaceTail - 1)
      /\ HandleOf[r] \in Handles /\ r \in Calls
      /\ next \in [Handles -> 0 .. Capacity] /\ \A h \in Handles : next[h] <= SpaceTail
      /\ at \in [Calls -> 0 .. Capacity] /\ pc \in [Calls -> AppendSteps \cup ReadSteps]
      /\ request \in [Reads -> Request] /\ out \in [Reads -> Seq(BusEntry)]
      /\ faults \in 0 .. MaxFaults
      /\ ReadBehind(r)
    BY BelowTail DEF BusInv, TypeOK, HintsBehind, Calls, ReadsBehind, ReadBehind
<1>2. /\ request[r] \in Request /\ out[r] \in Seq(BusEntry) /\ at[r] \in 0 .. Capacity
      /\ request = [request EXCEPT ![r] = request[r]]
      /\ out = [out EXCEPT ![r] = out[r]]
      /\ at = [at EXCEPT ![r] = at[r]]
      /\ pc = [pc EXCEPT ![r] = pc[r]]
    BY <1>1
<1>3. UNCHANGED space /\ SpaceTail' = SpaceTail
    BY SameSpace DEF ReadStep, ReadFails, ReadStart, CheckTail, PollTail, BlockingTail,
       BlockingTimeout, ReadMissing, ReadFiltered, PollFull, ReadWanted, ReadEnd
<1>4. CASE ReadStart(r)
    <2> PICK op \in ReadOps, start \in 0 .. Capacity, end \in 0 .. Capacity,
             limit \in Limits, filter \in Filters :
         LET q == [op |-> op, start |-> start, end |-> end, limit |-> limit,
                   filter |-> filter, acked |-> Acked] IN
         /\ op \in {"poll", "blocking_poll", "check_tail"} => end = 0
         /\ op = "check_tail" => start = 0
         /\ ValidRequest(q)
         /\ request' = [request EXCEPT ![r] = q]
         /\ at' = [at EXCEPT ![r] = start]
         /\ Goto(r, IF op \in {"read_next", "read_range"} THEN "read"
                    ELSE IF op = "poll" /\ filter = {} THEN "Done"
                    ELSE "tail")
        BY <1>4 DEF ReadStart
    <2> DEFINE q == [op |-> op, start |-> start, end |-> end, limit |-> limit,
                     filter |-> filter, acked |-> Acked]
               step == IF op \in {"read_next", "read_range"} THEN "read"
                       ELSE IF op = "poll" /\ filter = {} THEN "Done"
                       ELSE "tail"
    <2>1. \A a \in Acked : a \in Addresses /\ a < SpaceTail
        BY <1>1 DEF Acked, BusInv, AppendsBehind, Addresses, Calls
    <2>2. q \in Request /\ step \in ReadSteps
        BY <2>1 DEF Request, ReadSteps
    <2>3. /\ request' = [request EXCEPT ![r] = q] /\ request'[r] = q
          /\ pc' = [pc EXCEPT ![r] = step] /\ pc'[r] = step
          /\ out' = [out EXCEPT ![r] = out[r]]
          /\ at' = [at EXCEPT ![r] = start]
          /\ next' = next /\ faults' = faults
        BY <1>1, <1>2, <1>4 DEF ReadStart, Goto
    <2>4. ReadBehind(r)'
        BY <2>1, <2>3, <1>3 DEF ReadBehind, KnowsTail, ValidRequest, ReadOps
    <2> HIDE DEF q, step
    <2> QED BY <1>1, <1>2, <1>3, <2>2, <2>3, <2>4, ReadQuiet
<1>5. CASE CheckTail(r)
    <2> DEFINE q == [request[r] EXCEPT !.end = SpaceTail]
    <2>1. q \in Request
        BY <1>1, <1>2 DEF Request
    <2>2. /\ request' = [request EXCEPT ![r] = q] /\ request'[r] = q
          /\ pc' = [pc EXCEPT ![r] = "Done"] /\ pc'[r] = "Done"
        BY <1>1, <1>5 DEF CheckTail, Goto, ReadTail
    <2>3. ReadBehind(r)'
        BY <1>1, <1>2, <1>3, <2>2 DEF ReadBehind, KnowsTail, Request
    <2> HIDE DEF q
    <2> QED BY <1>1, <1>2, <1>3, <1>5, <2>1, <2>2, <2>3, ReadQuiet DEF CheckTail, ReadSteps
<1>6. CASE PollTail(r)
    <2> DEFINE q == [request[r] EXCEPT !.end = SpaceTail]
    <2>1. q \in Request
        BY <1>1, <1>2 DEF Request
    <2>2. /\ request' = [request EXCEPT ![r] = q] /\ request'[r] = q
          /\ pc' = [pc EXCEPT ![r] = "read"] /\ pc'[r] = "read"
        BY <1>1, <1>6 DEF PollTail, Goto, ReadTail
    <2>3. /\ next' \in [Handles -> 0 .. Capacity]
          /\ \A h \in Handles : next'[h] <= SpaceTail
        BY <1>1, <1>6 DEF PollTail, ReadTail
    <2>4. ReadBehind(r)'
        BY <1>1, <1>2, <1>3, <1>6, <2>2 DEF PollTail, ReadBehind, KnowsTail, Request
    <2> HIDE DEF q
    <2> QED BY <1>1, <1>2, <1>3, <1>6, <2>1, <2>2, <2>3, <2>4, ReadQuiet DEF PollTail, ReadSteps
<1>7. CASE BlockingTail(r)
    <2> DEFINE q == [request[r] EXCEPT !.end = SpaceTail]
    <2>1. q \in Request
        BY <1>1, <1>2 DEF Request
    <2>2. /\ request' = [request EXCEPT ![r] = q] /\ request'[r] = q
          /\ pc' = [pc EXCEPT ![r] = "read"] /\ pc'[r] = "read"
        BY <1>1, <1>7 DEF BlockingTail, Goto, ReadTail
    <2>3. ReadBehind(r)'
        BY <1>1, <1>2, <1>3, <1>7, <2>2 DEF BlockingTail, ReadBehind, KnowsTail, Request
    <2> HIDE DEF q
    <2> QED BY <1>1, <1>2, <1>3, <1>7, <2>1, <2>2, <2>3, ReadQuiet DEF BlockingTail, ReadSteps
<1>8. CASE BlockingTimeout(r)
    <2> DEFINE q == [request[r] EXCEPT !.end = request[r].start]
    <2>1. q \in Request /\ q.acked = request[r].acked /\ q.end = request[r].start
        BY <1>1, <1>2 DEF Request
    <2>2. /\ request' = [request EXCEPT ![r] = q] /\ request'[r] = q
          /\ pc' = [pc EXCEPT ![r] = "Done"] /\ pc'[r] = "Done"
        BY <1>1, <1>8 DEF BlockingTimeout, Goto
    <2>3. \A a \in request[r].acked : a < request[r].start
        BY <1>1, <1>2, <1>8 DEF BlockingTimeout, ReadBehind, ReadTail, Request, Addresses
    <2> HIDE DEF q
    <2>4. ReadBehind(r)'
        BY <1>1, <1>3, <2>1, <2>2, <2>3 DEF ReadBehind, KnowsTail
    <2> QED BY <1>1, <1>2, <1>3, <1>8, <2>1, <2>2, <2>4, ReadQuiet DEF BlockingTimeout, ReadSteps
<1>9. CASE ReadMissing(r)
    <2>1. request' = request /\ pc' = [pc EXCEPT ![r] = "NotFound"] /\ pc'[r] = "NotFound"
        BY <1>1, <1>9 DEF ReadMissing, Goto
    <2>2. request[r].op \in {"read_next", "read_range"}
        BY <1>1, <1>2, <1>9 DEF ReadMissing, ReadBehind, Request
    <2>3. at[r] \in 0 .. (request[r].end - 1) /\ at[r] \notin request[r].acked
        BY <1>1, <1>2, <1>9 DEF ReadMissing, ReadBehind, Request
    <2>4. ReadBehind(r)'
        BY <1>1, <1>3, <2>1, <2>2, <2>3 DEF ReadBehind, KnowsTail
    <2> QED BY <1>1, <1>2, <1>3, <1>9, <2>1, <2>4, ReadQuiet DEF ReadMissing, ReadSteps
<1>10. CASE ReadFiltered(r)
    <2>1. /\ request' = request /\ pc' = pc /\ pc[r] = "read"
          /\ at' = [at EXCEPT ![r] = at[r] + 1]
        BY <1>1, <1>10 DEF ReadFiltered, Advance
    <2>2. at[r] + 1 \in 0 .. Capacity
        BY <1>2, <1>10 DEF ReadFiltered, Request
    <2>3. ReadBehind(r)'
        BY <1>1, <1>3, <2>1 DEF ReadBehind, KnowsTail
    <2> DEFINE p == at[r] + 1
    <2>4. /\ next' = next /\ faults' = faults /\ "read" \in ReadSteps
          /\ request' = [request EXCEPT ![r] = request[r]]
          /\ out' = [out EXCEPT ![r] = out[r]]
          /\ pc' = [pc EXCEPT ![r] = "read"]
          /\ p \in 0 .. Capacity /\ at' = [at EXCEPT ![r] = p]
        BY <1>2, <1>10, <2>1, <2>2 DEF ReadFiltered, ReadSteps
    <2> HIDE DEF p
    <2> QED BY <1>1, <1>2, <1>3, <2>3, <2>4, ReadQuiet
<1>11. CASE PollFull(r)
    <2>1. request' = request /\ pc' = [pc EXCEPT ![r] = "More"] /\ pc'[r] = "More"
        BY <1>1, <1>11 DEF PollFull, Goto
    <2>2. ReadBehind(r)'
        BY <1>1, <1>3, <1>11, <2>1 DEF PollFull, ReadBehind, KnowsTail
    <2> QED BY <1>1, <1>2, <1>3, <1>11, <2>1, <2>2, ReadQuiet DEF PollFull, ReadSteps
<1>12. CASE ReadWanted(r)
    <2> DEFINE es   == Append(out[r], space[at[r]])
               step == IF StopsAfter(r, es) THEN "More" ELSE "read"
    <2>1. /\ request' = request /\ pc' = [pc EXCEPT ![r] = step] /\ pc'[r] = step
          /\ at' = [at EXCEPT ![r] = at[r] + 1] /\ out' = [out EXCEPT ![r] = es]
        BY <1>1, <1>12 DEF ReadWanted, Advance, Goto
    <2>2. at[r] + 1 \in 0 .. Capacity
        BY <1>2, <1>12 DEF ReadWanted, Request
    <2>3. space[at[r]] \in BusEntry
        BY <1>12 DEF ReadWanted, Written, BusInv, TypeOK
    <2>4. es \in Seq(BusEntry) /\ step \in ReadSteps /\ step \in {"read", "More"}
        BY <1>2, <2>3 DEF ReadSteps
    <2> HIDE DEF es, step
    <2>5. ReadBehind(r)'
        BY <1>1, <1>3, <1>12, <2>1, <2>4 DEF ReadWanted, ReadBehind, KnowsTail
    <2> DEFINE p == at[r] + 1
    <2>6. /\ next' = next /\ faults' = faults
          /\ request' = [request EXCEPT ![r] = request[r]]
          /\ p \in 0 .. Capacity /\ at' = [at EXCEPT ![r] = p]
        BY <1>2, <1>12, <2>1, <2>2 DEF ReadWanted
    <2> HIDE DEF p
    <2> QED BY <1>1, <1>2, <1>3, <2>1, <2>4, <2>5, <2>6, ReadQuiet
<1>13. CASE ReadEnd(r)
    <2>1. request' = request /\ pc' = [pc EXCEPT ![r] = "Done"] /\ pc'[r] = "Done"
        BY <1>1, <1>13 DEF ReadEnd, Goto
    <2>2. ReadBehind(r)'
        BY <1>1, <1>3, <1>13, <2>1 DEF ReadEnd, ReadBehind, KnowsTail
    <2> QED BY <1>1, <1>2, <1>3, <1>13, <2>1, <2>2, ReadQuiet DEF ReadEnd, ReadSteps
<1>14. CASE ReadFails(r)
    <2>1. request' = request /\ pc' = [pc EXCEPT ![r] = "Failed"] /\ pc'[r] = "Failed"
        BY <1>1, <1>14 DEF ReadFails, Goto
    <2>2. ReadBehind(r)'
        BY <1>1, <1>3, <2>1 DEF ReadBehind, KnowsTail
    <2>3. /\ next' = next /\ faults' \in 0 .. MaxFaults /\ "Failed" \in ReadSteps
          /\ request' = [request EXCEPT ![r] = request[r]]
          /\ out' = [out EXCEPT ![r] = out[r]]
          /\ at' = [at EXCEPT ![r] = at[r]]
        BY <1>1, <1>2, <1>14, <2>1 DEF ReadFails, Fault, ReadSteps
    <2> QED BY <1>1, <1>2, <1>3, <2>1, <2>2, <2>3, ReadQuiet
<1> QED BY <1>4, <1>5, <1>6, <1>7, <1>8, <1>9, <1>10, <1>11, <1>12, <1>13, <1>14 DEF ReadStep

LEMMA ForgetKeepsInv ==
    ASSUME BusInv, NEW h \in Handles, Forget(h)
    PROVE  BusInv'
<1> USE BusBoundsAssumption, BusCallsAssumption
<1>1. SpaceTail \in 0 .. Capacity
    BY BelowTail DEF BusInv
<1>2. /\ UNCHANGED <<space, pc, at, request, out>>
      /\ next' = [next EXCEPT ![h] = 0] /\ faults' \in 0 .. MaxFaults
    BY DEF Forget, Fault, BusInv, TypeOK
<1>3. SpaceTail' = SpaceTail /\ Written' = Written /\ Packed' /\ Positioned'
    BY <1>2, SameSpace DEF BusInv
<1>4. TypeOK'
    BY <1>2 DEF BusInv, TypeOK
<1>5. HintsBehind'
    BY <1>1, <1>2, <1>3 DEF BusInv, TypeOK, HintsBehind
<1>6. AppendsBehind' /\ WrittenOnce' /\ ReadsBehind'
    BY <1>2, <1>3 DEF BusInv, AppendsBehind, WrittenOnce, ReadsBehind, ReadBehind, KnowsTail
<1> QED BY <1>3, <1>4, <1>5, <1>6 DEF BusInv

(* Every step preserves the invariant.                                     *)
LEMMA BusInvStep == BusInv /\ [Next]_vars => BusInv'
<1> SUFFICES ASSUME BusInv, [Next]_vars PROVE BusInv'
    OBVIOUS
<1>1. CASE UNCHANGED vars
    <2>1. SpaceTail' = SpaceTail /\ Written' = Written /\ Packed' /\ Positioned'
        BY <1>1, SameSpace DEF vars, BusInv
    <2> QED BY <1>1, <2>1 DEF vars, BusInv, TypeOK, HintsBehind, AppendsBehind, WrittenOnce,
               ReadsBehind, ReadBehind, KnowsTail
<1>2. CASE Next
    BY <1>2, AppendKeepsInv, ReadKeepsInv, ForgetKeepsInv DEF Next
<1> QED BY <1>1, <1>2

LEMMA BusInvariant == Spec => []BusInv
BY BusInvInit, BusInvStep, PTL DEF Spec

-----------------------------------------------------------------------------

(* Type correctness of the bus: hints and cursors stay within the address  *)
(* space.                                                                  *)
THEOREM BusTypeCorrect == Spec => []TypeOK
<1>1. BusInv => TypeOK
    BY DEF BusInv
<1> QED BY <1>1, BusInvariant, PTL

(* The log of append never has a hole, whatever hints its instances start  *)
(* from and whatever fails.                                                *)
THEOREM NoHoles == Spec => []Contiguous
<1>1. BusInv => Contiguous
    <2> SUFFICES ASSUME BusInv PROVE Contiguous
        OBVIOUS
    <2>1. SpaceTail \in 0 .. Capacity /\ Written = 0 .. (SpaceTail - 1)
        BY BelowTail DEF BusInv
    <2> QED BY <2>1, BusBoundsAssumption DEF BusInv, Positioned, Contiguous
<1> QED BY <1>1, BusInvariant, PTL

(* A read covers every append that was answered before it was made, through *)
(* whichever instance, and does not fail on a position within those.       *)
THEOREM AckedIsRead == Spec => []ReadsCoverAcked
<1>1. BusInv => ReadsCoverAcked
    BY DEF BusInv, ReadsBehind, ReadBehind, KnowsTail, ReadsCoverAcked
<1> QED BY <1>1, BusInvariant, PTL

-----------------------------------------------------------------------------
(* What reads return.                                                      *)

(* A read that is under way has collected what it wants of the written     *)
(* range from its start to its cursor; the cursor leaves its start only to *)
(* stay within the end.                                                    *)
Covered(r, from, to) ==
    (\A a \in from .. (to - 1) : a \in Written) /\ Collected(r, from, to)

HasRoom(r) ==
    IF request[r].op = "poll" THEN Len(out[r]) <= Page(request[r])
                              ELSE Len(out[r]) < Page(request[r])

PageExact(r) ==
    /\ pc[r] \in {"idle", "tail"} => out[r] = <<>>
    /\ pc[r] = "tail" =>
         /\ at[r] = request[r].start
         /\ request[r].op = "blocking_poll" => request[r].limit > 0
    /\ pc[r] \in {"read", "More"} =>
         /\ request[r].start <= at[r]
         /\ Covered(r, request[r].start, at[r])
    /\ pc[r] = "read" =>
         /\ at[r] = request[r].start \/ at[r] <= request[r].end
         /\ HasRoom(r)
    /\ pc[r] = "Done" /\ request[r].op # "check_tail" /\ request[r].start <= request[r].end =>
         Covered(r, request[r].start, request[r].end)
    /\ pc[r] \in {"Done", "More"} => Len(out[r]) <= Page(request[r])

PageInv == \A r \in Reads : PageExact(r)

(* An empty range has nothing to collect.                                  *)
LEMMA NothingYet ==
    ASSUME NEW r \in Reads, NEW p \in Nat, NEW q \in Nat, q <= p, out[r] = <<>>
    PROVE  Covered(r, p, q)
<1>1. p .. (q - 1) = {}
    OBVIOUS
<1>2. WantedIn(r, p, q) = {}
    BY <1>1 DEF WantedIn
<1>3. Len(out[r]) = 0
    OBVIOUS
<1>4. {out[r][i] : i \in 1 .. Len(out[r])} = {}
    BY <1>3
<1> QED BY <1>1, <1>2, <1>3, <1>4 DEF Covered, Collected

(* What a read has collected stays right when the space only grows.        *)
LEMMA CoveredStays ==
    ASSUME NEW r \in Reads, NEW p \in Nat, NEW q \in Nat, Covered(r, p, q),
           Written \subseteq Written', \A a \in Written : space'[a] = space[a],
           out'[r] = out[r], request'[r].filter = request[r].filter
    PROVE  Covered(r, p, q)'
<1>1. \A a \in p .. (q - 1) : a \in Written /\ a \in Written' /\ space'[a] = space[a]
    BY DEF Covered
<1>2. WantedIn(r, p, q)' = WantedIn(r, p, q)
    BY <1>1 DEF WantedIn
<1> QED BY <1>1, <1>2 DEF Covered, Collected

(* The cursor passes an entry that the read does not want ...              *)
LEMMA CoveredPasses ==
    ASSUME NEW r \in Reads, NEW p \in Nat, NEW q \in Nat, p <= q, Covered(r, p, q),
           q \in Written, space[q].payload \notin request[r].filter
    PROVE  Covered(r, p, q + 1)
<1>1. p .. ((q + 1) - 1) = (p .. (q - 1)) \cup {q}
    OBVIOUS
<1>2. WantedIn(r, p, q + 1) = WantedIn(r, p, q)
    BY <1>1 DEF WantedIn
<1> QED BY <1>1, <1>2 DEF Covered, Collected

(* ... or collects it, behind the others.                                  *)
LEMMA CoveredExtends ==
    ASSUME BusInv, NEW r \in Reads, NEW p \in Nat, NEW q \in Nat, p <= q, Covered(r, p, q),
           q \in Written, space[q].payload \in request[r].filter,
           out'[r] = Append(out[r], space[q]), UNCHANGED space,
           request'[r].filter = request[r].filter
    PROVE  Covered(r, p, q + 1)'
<1> DEFINE es == out[r]
           fs == out'[r]
           e  == space[q]
<1>1. p .. ((q + 1) - 1) = (p .. (q - 1)) \cup {q}
    OBVIOUS
<1>2. /\ es \in Seq(BusEntry) /\ e \in BusEntry
      /\ Len(es) \in Nat /\ Len(fs) = Len(es) + 1 /\ fs[Len(es) + 1] = e
      /\ \A i \in 1 .. Len(es) : fs[i] = es[i] /\ es[i] \in BusEntry
    BY DEF BusInv, TypeOK, Written
<1>3. Written' = Written
    BY DEF Written
<1>4. WantedIn(r, p, q + 1)' = WantedIn(r, p, q) \cup {e}
    BY <1>1 DEF WantedIn
<1>5. {fs[i] : i \in 1 .. Len(fs)} = {es[i] : i \in 1 .. Len(es)} \cup {e}
    <2>1. 1 .. Len(fs) = (1 .. Len(es)) \cup {Len(es) + 1}
        BY <1>2
    <2> HIDE DEF es, fs, e
    <2> QED BY <1>2, <2>1
<1>6. \A i \in 1 .. Len(es) : es[i].position < q
    <2> TAKE i \in 1 .. Len(es)
    <2>1. es[i] \in WantedIn(r, p, q)
        BY DEF Covered, Collected
    <2>2. PICK a \in p .. (q - 1) : es[i] = space[a]
        BY <2>1 DEF WantedIn
    <2>3. a \in Written
        BY DEF Covered
    <2>4. space[a].position = a
        BY <2>3 DEF BusInv, Positioned
    <2> QED BY <2>2, <2>4
<1>7. e.position = q
    BY DEF BusInv, Positioned
<1>8. \A i, j \in 1 .. Len(es) : i < j => es[i].position < es[j].position
    BY DEF Covered, Collected
<1> HIDE DEF es, fs, e
<1>9. \A i, j \in 1 .. Len(fs) : i < j => fs[i].position < fs[j].position
    <2> SUFFICES ASSUME NEW i \in 1 .. Len(fs), NEW j \in 1 .. Len(fs), i < j
                 PROVE  fs[i].position < fs[j].position
        OBVIOUS
    <2>1. i \in 1 .. Len(es)
        BY <1>2
    <2>2. CASE j \in 1 .. Len(es)
        BY <2>1, <2>2, <1>2, <1>8
    <2>3. CASE j = Len(es) + 1
        BY <2>1, <2>3, <1>2, <1>6, <1>7
    <2> QED BY <2>2, <2>3, <1>2
<1>10. \A a \in p .. ((q + 1) - 1) : a \in Written'
    BY <1>1, <1>3 DEF Covered
<1>11. {es[i] : i \in 1 .. Len(es)} = WantedIn(r, p, q)
    BY DEF Covered, Collected, es
<1> QED BY <1>4, <1>5, <1>9, <1>10, <1>11 DEF Covered, Collected, fs

(* The space only grows.                                                   *)
LEMMA SpaceGrows ==
    ASSUME BusInv, [Next]_vars
    PROVE  Written \subseteq Written' /\ \A a \in Written : space'[a] = space[a]
<1>1. CASE UNCHANGED space
    BY <1>1 DEF Written
<1>2. ASSUME NEW c \in Appends, at[c] \in Addresses, space[at[c]] = Empty,
             space' = [space EXCEPT ![at[c]] = SerializeEntry(c)]
      PROVE  Written \subseteq Written' /\ \A a \in Written : space'[a] = space[a]
    BY <1>2 DEF BusInv, TypeOK, Written
<1>3. \/ UNCHANGED space
      \/ \E c \in Appends :
            /\ at[c] \in Addresses /\ space[at[c]] = Empty
            /\ space' = [space EXCEPT ![at[c]] = SerializeEntry(c)]
    BY DEF Next, vars, AppendStep, AppendFault, AppendStart, Write, Acknowledge, FindTail,
       WriteConflict, AppendFails, Lose, LateWrite, ReadStep, ReadFails, ReadStart, CheckTail,
       PollTail, BlockingTail, BlockingTimeout, ReadMissing, ReadFiltered, PollFull, ReadWanted,
       ReadEnd, Forget
<1> QED BY <1>1, <1>2, <1>3

(* A step that is not the read's.                                          *)
LEMMA PageStays ==
    ASSUME BusInv, [Next]_vars, NEW r \in Reads, PageExact(r), pc'[r] = pc[r],
           at'[r] = at[r], out'[r] = out[r], request'[r] = request[r]
    PROVE  PageExact(r)'
<1>1. /\ request[r].start \in Nat /\ request[r].end \in Nat /\ at[r] \in Nat
    BY BusBoundsAssumption DEF BusInv, TypeOK, Request, Calls
<1>2. \A p, q \in Nat : Covered(r, p, q) => Covered(r, p, q)'
    BY SpaceGrows, CoveredStays
<1> QED BY <1>1, <1>2 DEF PageExact, HasRoom, Page

(* Who may ask for an entry has room for one.                              *)
LEMMA PageIsNat ==
    ASSUME NEW q \in Request
    PROVE  Page(q) \in Nat /\ (q.limit > 0 => Page(q) > 0)
<1>1. q.limit \in Limits \cup {0}
    BY DEF Request
<1>2. Limits \subseteq Nat /\ MaxPoll \in Nat \ {0}
    BY BusBoundsAssumption
<1>3. q.limit \in Nat
    <2>1. 0 \in Nat /\ Limits \subseteq Nat
        BY <1>2
    <2> QED BY <1>1, <2>1, Zenon
<1> QED BY <1>2, <1>3 DEF Page

LEMMA ReadKeepsPages ==
    ASSUME BusInv, NEW r \in Reads, PageExact(r), ReadStep(r) \/ ReadFails(r)
    PROVE  PageExact(r)'
<1> USE BusBoundsAssumption, BusCallsAssumption
<1>1. /\ r \in Calls /\ at \in [Calls -> 0 .. Capacity]
      /\ pc \in [Calls -> AppendSteps \cup ReadSteps]
      /\ request \in [Reads -> Request] /\ out \in [Reads -> Seq(BusEntry)]
    BY DEF BusInv, TypeOK, Calls
<1>2. /\ request[r] \in Request /\ out[r] \in Seq(BusEntry) /\ at[r] \in Nat
      /\ request[r].start \in Nat /\ request[r].end \in Nat /\ Len(out[r]) \in Nat
      /\ Page(request[r]) \in Nat
    <2>1. request[r] \in Request /\ out[r] \in Seq(BusEntry) /\ at[r] \in 0 .. Capacity
        BY <1>1
    <2>2. request[r].start \in 0 .. Capacity /\ request[r].end \in 0 .. Capacity
        BY <2>1 DEF Request
    <2> QED BY <2>1, <2>2, PageIsNat
<1>3. UNCHANGED space /\ Written' = Written
    BY SameSpace DEF ReadStep, ReadFails, ReadStart, CheckTail, PollTail, BlockingTail,
       BlockingTimeout, ReadMissing, ReadFiltered, PollFull, ReadWanted, ReadEnd
<1>4. ASSUME NEW p \in Nat, NEW q \in Nat, Covered(r, p, q),
             out'[r] = out[r], request'[r].filter = request[r].filter
      PROVE  Covered(r, p, q)'
    BY <1>3, <1>4, CoveredStays
<1>5. SpaceTail \in Nat
    BY BelowTail DEF BusInv
<1>6. CASE ReadStart(r)
    <2> PICK op \in ReadOps, start \in 0 .. Capacity, end \in 0 .. Capacity,
             limit \in Limits, filter \in Filters :
         LET q == [op |-> op, start |-> start, end |-> end, limit |-> limit,
                   filter |-> filter, acked |-> Acked] IN
         /\ op \in {"poll", "blocking_poll", "check_tail"} => end = 0
         /\ op = "check_tail" => start = 0
         /\ ValidRequest(q)
         /\ request' = [request EXCEPT ![r] = q]
         /\ at' = [at EXCEPT ![r] = start]
         /\ Goto(r, IF op \in {"read_next", "read_range"} THEN "read"
                    ELSE IF op = "poll" /\ filter = {} THEN "Done"
                    ELSE "tail")
        BY <1>6 DEF ReadStart
    <2> DEFINE q == [op |-> op, start |-> start, end |-> end, limit |-> limit,
                     filter |-> filter, acked |-> Acked]
               step == IF op \in {"read_next", "read_range"} THEN "read"
                       ELSE IF op = "poll" /\ filter = {} THEN "Done"
                       ELSE "tail"
    <2>1. /\ request'[r] = q /\ pc'[r] = step /\ at'[r] = start
          /\ out'[r] = out[r] /\ out[r] = <<>>
        BY <1>1, <1>6 DEF ReadStart, Goto, PageExact
    <2>2. q.op = op /\ q.start = start /\ q.end = end /\ q.limit = limit
        OBVIOUS
    <2>3. /\ step \in {"read", "Done", "tail"} /\ Len(out'[r]) = 0
          /\ start \in Nat /\ end \in Nat /\ limit \in Nat
        <3>1. limit \in Nat
            OBVIOUS
        <3>2. step \in {"read", "Done", "tail"}
            OBVIOUS
        <3> QED BY <2>1, <3>1, <3>2
    <2>4. \A a, b \in Nat : b <= a => Covered(r, a, b)'
        <3> SUFFICES ASSUME NEW a \in Nat, NEW b \in Nat, b <= a PROVE Covered(r, a, b)'
            OBVIOUS
        <3>1. Covered(r, a, b)
            BY <2>1, NothingYet
        <3>2. a .. (b - 1) = {}
            OBVIOUS
        <3>3. WantedIn(r, a, b)' = {} /\ WantedIn(r, a, b) = {}
            BY <3>2 DEF WantedIn
        <3> QED BY <3>1, <3>2, <3>3, <2>1 DEF Covered, Collected
    <2>5. step = "Done" => op = "poll" /\ end = 0
        OBVIOUS
    <2>6. step = "read" => op \in {"read_next", "read_range"} /\ limit > 0
        BY DEF ValidRequest
    <2>7. step = "tail" /\ op = "blocking_poll" => limit > 0
        BY DEF ValidRequest
    <2>8. Page(q) \in Nat /\ (limit > 0 => Page(q) > 0)
        BY <2>3 DEF Page
    <2> HIDE DEF q, step
    <2> QED BY <2>1, <2>2, <2>3, <2>4, <2>5, <2>6, <2>7, <2>8 DEF PageExact, HasRoom
<1>7. CASE CheckTail(r)
    <2>1. /\ pc'[r] = "Done" /\ out'[r] = <<>> /\ request'[r].op = "check_tail"
          /\ Page(request'[r]) = Page(request[r])
        BY <1>1, <1>2, <1>7 DEF CheckTail, Goto, PageExact, Page, Request
    <2> QED BY <2>1, <1>2 DEF PageExact
<1>8. CASE PollTail(r) \/ BlockingTail(r)
    <2>1. /\ pc[r] = "tail" /\ pc'[r] = "read" /\ out'[r] = out[r] /\ out[r] = <<>>
          /\ at'[r] = request[r].start /\ at[r] = request[r].start
          /\ request'[r] = [request[r] EXCEPT !.end = SpaceTail]
          /\ request[r].op = "blocking_poll" => request[r].limit > 0
          /\ request[r].op \in {"poll", "blocking_poll"}
        BY <1>1, <1>2, <1>8 DEF PollTail, BlockingTail, Goto, PageExact, ReadTail
    <2>2. /\ request'[r].op = request[r].op /\ request'[r].filter = request[r].filter
          /\ request'[r].start = request[r].start
          /\ Page(request'[r]) = Page(request[r])
        BY <1>2, <2>1 DEF Page, Request
    <2>3. Covered(r, request[r].start, request[r].start)'
        BY <1>2, <1>4, <2>1, <2>2, NothingYet
    <2>4. Len(out'[r]) = 0 /\ (request[r].op # "poll" => Page(request[r]) > 0)
        BY <1>2, <2>1, PageIsNat
    <2> QED BY <1>2, <2>1, <2>2, <2>3, <2>4 DEF PageExact, HasRoom
<1>9. CASE BlockingTimeout(r)
    <2>1. /\ pc'[r] = "Done" /\ out'[r] = out[r] /\ out[r] = <<>>
          /\ request'[r] = [request[r] EXCEPT !.end = request[r].start]
        BY <1>1, <1>2, <1>9 DEF BlockingTimeout, Goto, PageExact
    <2>2. /\ request'[r].filter = request[r].filter
          /\ request'[r].start = request[r].start /\ request'[r].end = request[r].start
          /\ Page(request'[r]) = Page(request[r])
        BY <1>2, <2>1 DEF Page, Request
    <2>3. Covered(r, request[r].start, request[r].start)'
        BY <1>2, <1>4, <2>1, <2>2, NothingYet
    <2> QED BY <1>2, <2>1, <2>2, <2>3 DEF PageExact
<1>10. CASE ReadMissing(r) \/ ReadFails(r)
    <2>1. pc'[r] \in {"NotFound", "Failed"}
        BY <1>1, <1>10 DEF ReadMissing, ReadFails, Goto
    <2> QED BY <2>1 DEF PageExact
<1>11. CASE ReadFiltered(r)
    <2>1. /\ pc[r] = "read" /\ pc'[r] = "read" /\ out'[r] = out[r] /\ request'[r] = request[r]
          /\ at'[r] = at[r] + 1 /\ at[r] < request[r].end /\ at[r] \in Written
          /\ space[at[r]].payload \notin request[r].filter
        BY <1>1, <1>2, <1>11 DEF ReadFiltered, Advance, Wanted, Written
    <2>2. request[r].start <= at[r] /\ Covered(r, request[r].start, at[r])
        BY <2>1 DEF PageExact
    <2>3. PICK p, q \in Nat : p = request[r].start /\ q = at[r]
        BY <1>2
    <2>4. Covered(r, p, q + 1)
        BY <2>1, <2>2, <2>3, CoveredPasses
    <2>5. Covered(r, p, q + 1)'
        BY <1>4, <2>1, <2>4
    <2> QED BY <1>2, <2>1, <2>2, <2>3, <2>5 DEF PageExact, HasRoom
<1>12. CASE PollFull(r)
    <2>1. /\ pc[r] = "read" /\ pc'[r] = "More" /\ out'[r] = out[r] /\ request'[r] = request[r]
          /\ at'[r] = at[r] /\ request[r].op = "poll"
        BY <1>1, <1>12 DEF PollFull, Goto
    <2>2. /\ request[r].start <= at[r] /\ Covered(r, request[r].start, at[r])
          /\ Len(out[r]) <= Page(request[r])
        BY <2>1 DEF PageExact, HasRoom
    <2> QED BY <1>2, <1>4, <2>1, <2>2 DEF PageExact
<1>13. CASE ReadWanted(r)
    <2> DEFINE es == Append(out[r], space[at[r]])
    <2>1. /\ pc[r] = "read" /\ out'[r] = es /\ request'[r] = request[r]
          /\ at'[r] = at[r] + 1 /\ at[r] < request[r].end /\ at[r] \in Written
          /\ space[at[r]].payload \in request[r].filter
          /\ pc'[r] = IF StopsAfter(r, es) THEN "More" ELSE "read"
          /\ ~ (request[r].op = "poll" /\ Full(r, out[r]))
        BY <1>1, <1>2, <1>13 DEF ReadWanted, Advance, Wanted, Written, Goto
    <2>2. request[r].start <= at[r] /\ Covered(r, request[r].start, at[r]) /\ HasRoom(r)
        BY <2>1 DEF PageExact
    <2> PICK p, q \in Nat : p = request[r].start /\ q = at[r]
        BY <1>2
    <2>3. Covered(r, p, q + 1)'
        BY <1>3, <2>1, <2>2, CoveredExtends
    <2>4. Len(es) = Len(out[r]) + 1
        BY <2>1, <1>2 DEF BusInv, TypeOK, Written
    <2> HIDE DEF es
    <2>5. Len(es) <= Page(request[r])
        BY <1>2, <2>1, <2>2, <2>4 DEF HasRoom, Full
    <2>6. pc'[r] = "read" /\ request[r].op # "poll" => Len(es) < Page(request[r])
        BY <1>2, <2>1, <2>4 DEF StopsAfter, Full
    <2>7. pc'[r] \in {"read", "More"} /\ request[r].start <= at[r] + 1 /\ at[r] + 1 <= request[r].end
        BY <1>2, <2>1, <2>2
    <2> QED BY <1>2, <2>1, <2>3, <2>4, <2>5, <2>6, <2>7 DEF PageExact, HasRoom
<1>14. CASE ReadEnd(r)
    <2>1. /\ pc[r] = "read" /\ pc'[r] = "Done" /\ out'[r] = out[r] /\ request'[r] = request[r]
          /\ at'[r] = at[r] /\ at[r] >= request[r].end
        BY <1>1, <1>14 DEF ReadEnd, Goto
    <2>2. /\ request[r].start <= at[r] /\ Covered(r, request[r].start, at[r]) /\ HasRoom(r)
          /\ at[r] = request[r].start \/ at[r] <= request[r].end
        BY <2>1 DEF PageExact
    <2>3. Len(out[r]) <= Page(request[r])
        BY <1>2, <2>2 DEF HasRoom
    <2>4. request[r].start <= request[r].end => at[r] = request[r].end
        BY <1>2, <2>1, <2>2
    <2>5. Covered(r, request[r].start, at[r])'
        BY <1>2, <1>4, <2>1, <2>2
    <2> QED BY <2>1, <2>3, <2>4, <2>5 DEF PageExact
<1> QED BY <1>6, <1>7, <1>8, <1>9, <1>10, <1>11, <1>12, <1>13, <1>14 DEF ReadStep

LEMMA PageInvInit == Init => PageInv
BY DEF Init, PageInv, PageExact, Calls

LEMMA PageInvStep == BusInv /\ PageInv /\ [Next]_vars => PageInv'
<1> SUFFICES ASSUME BusInv, PageInv, [Next]_vars, NEW r \in Reads PROVE PageExact(r)'
    BY DEF PageInv
<1>1. PageExact(r)
    BY DEF PageInv
<1>2. CASE ReadStep(r) \/ ReadFails(r)
    BY <1>1, <1>2, ReadKeepsPages
<1>3. ASSUME NEW x \in Reads, x # r, ReadStep(x) \/ ReadFails(x)
      PROVE  pc'[r] = pc[r] /\ at'[r] = at[r] /\ out'[r] = out[r] /\ request'[r] = request[r]
    <2>1. r \in Calls /\ TypeOK
        BY DEF BusInv, Calls
    <2>2. CASE ReadStart(x)
        BY <1>3, <2>1, <2>2 DEF TypeOK, Goto, Advance, ReadStart
    <2>3. CASE CheckTail(x)
        BY <1>3, <2>1, <2>3 DEF TypeOK, Goto, Advance, CheckTail
    <2>4. CASE PollTail(x)
        BY <1>3, <2>1, <2>4 DEF TypeOK, Goto, Advance, PollTail
    <2>5. CASE BlockingTail(x)
        BY <1>3, <2>1, <2>5 DEF TypeOK, Goto, Advance, BlockingTail
    <2>6. CASE BlockingTimeout(x)
        BY <1>3, <2>1, <2>6 DEF TypeOK, Goto, Advance, BlockingTimeout
    <2>7. CASE ReadMissing(x)
        BY <1>3, <2>1, <2>7 DEF TypeOK, Goto, Advance, ReadMissing
    <2>8. CASE ReadFiltered(x)
        BY <1>3, <2>1, <2>8 DEF TypeOK, Goto, Advance, ReadFiltered
    <2>9. CASE PollFull(x)
        BY <1>3, <2>1, <2>9 DEF TypeOK, Goto, Advance, PollFull
    <2>10. CASE ReadWanted(x)
        BY <1>3, <2>1, <2>10 DEF TypeOK, Goto, Advance, ReadWanted
    <2>11. CASE ReadEnd(x)
        BY <1>3, <2>1, <2>11 DEF TypeOK, Goto, Advance, ReadEnd
    <2>12. CASE ReadFails(x)
        BY <1>3, <2>1, <2>12 DEF TypeOK, Goto, Advance, ReadFails
    <2> QED BY <1>3, <2>2, <2>3, <2>4, <2>5, <2>6, <2>7, <2>8, <2>9, <2>10, <2>11, <2>12 DEF ReadStep
<1>4. ASSUME NEW c \in Appends, AppendStep(c) \/ AppendFault(c) \/ LateWrite(c)
      PROVE  pc'[r] = pc[r] /\ at'[r] = at[r] /\ out'[r] = out[r] /\ request'[r] = request[r]
    BY <1>4, BusCallsAssumption DEF BusInv, TypeOK, Calls, Goto, AppendStep, AppendFault,
       AppendStart, Write, Acknowledge, FindTail, WriteConflict, AppendFails, Lose, LateWrite
<1>5. \/ ReadStep(r) \/ ReadFails(r)
      \/ /\ pc'[r] = pc[r] /\ at'[r] = at[r]
         /\ out'[r] = out[r] /\ request'[r] = request[r]
    BY <1>3, <1>4 DEF Next, vars, Forget
<1> QED BY <1>1, <1>2, <1>5, PageStays

(* What a read returns is what the log holds between its start and the     *)
(* position it returns, in order and each entry once; "complete" leaves    *)
(* nothing behind, and no page exceeds its limit (poll, read_next,         *)
(* read_range, blocking_poll).                                             *)
THEOREM PagesExact == Spec => []PagesAreExact
<1>1. PageInv => PagesAreExact
    BY DEF PageInv, PageExact, Covered, PagesAreExact
<1> QED BY <1>1, BusInvariant, PageInvInit, PageInvStep, PTL DEF Spec

-----------------------------------------------------------------------------
(* The bus implements SharedLog.                                           *)

Statuses == [c \in Appends |-> StatusOf(c)]

Answers == [c \in Appends |-> IF pc[c] = "Ok" THEN <<at[c]>> ELSE <<>>]

LEMMA RefinesInit == Init => Log!Init
<1> SUFFICES ASSUME Init PROVE Log!Init
    OBVIOUS
<1>1. SpaceTail = 0
    BY DEF Init, SpaceTail, EndOf, Written
<1>2. LogOf = <<>>
    BY <1>1 DEF LogOf
<1>3. \A c \in Appends : pc[c] = "idle"
    BY DEF Init, Calls
<1>4. Statuses = [c \in Appends |-> "idle"]
    BY <1>3 DEF Statuses, StatusOf
<1>5. Answers = [c \in Appends |-> <<>>]
    BY <1>3 DEF Answers
<1> QED BY <1>2, <1>4, <1>5 DEF Log!Init, Statuses, Answers

(* A step that leaves the space, and what callers see of appends, alone.   *)
LEMMA RefinesQuiet ==
    ASSUME UNCHANGED space,
           \A c \in Appends : /\ StatusOf(c)' = StatusOf(c)
                              /\ pc'[c] = "Ok" <=> pc[c] = "Ok"
                              /\ pc[c] = "Ok" => at'[c] = at[c]
    PROVE  UNCHANGED Log!vars
<1>1. LogOf' = LogOf
    BY DEF LogOf, SpaceTail, Written
<1>2. Statuses' = Statuses
    BY DEF Statuses
<1>3. Answers' = Answers
    BY DEF Answers
<1> QED BY <1>1, <1>2, <1>3 DEF Log!vars, Statuses, Answers

(* A step of one append changes what callers see of that append only.      *)
LEMMA RefinesOne ==
    ASSUME BusInv, NEW c \in Appends, NEW step \in AppendSteps, Goto(c, step),
           \A x \in Appends \ {c} : at'[x] = at[x]
    PROVE  /\ Statuses' = [Statuses EXCEPT ![c] = StatusOf(c)']
           /\ Answers' = [Answers EXCEPT ![c] = IF step = "Ok" THEN <<at'[c]>> ELSE <<>>]
           /\ pc'[c] = step
<1>1. pc'[c] = step /\ \A x \in Appends \ {c} : pc'[x] = pc[x]
    BY DEF BusInv, TypeOK, Goto, Calls
<1>2. \A x \in Appends \ {c} : StatusOf(x)' = StatusOf(x)
    BY <1>1 DEF StatusOf
<1> QED BY <1>1, <1>2 DEF Statuses, Answers

LEMMA AppendByCases ==
    ASSUME NEW S, NEW s \in Seq(S), NEW e \in S
    PROVE  Append(s, e) =
             [i \in 1 .. (Len(s) + 1) |-> IF i = Len(s) + 1 THEN e ELSE s[i]]
<1> DEFINE t == Append(s, e)
<1>1. t \in Seq(S) /\ Len(t) = Len(s) + 1
    OBVIOUS
<1>2. \A i \in 1 .. (Len(s) + 1) : t[i] = IF i = Len(s) + 1 THEN e ELSE s[i]
    OBVIOUS
<1> HIDE DEF t
<1>3. t = [i \in 1 .. Len(t) |-> t[i]]
    <2>1. t \in [1 .. Len(t) -> S]
        BY <1>1, LenProperties
    <2> QED BY <2>1
<1>4. t = [i \in 1 .. (Len(s) + 1) |-> IF i = Len(s) + 1 THEN e ELSE s[i]]
    BY <1>1, <1>2, <1>3
<1> QED BY <1>4 DEF t

(* A write that reaches the space is the append's atomic effect.           *)
LEMMA RefinesWrite ==
    ASSUME BusInv, UNCHANGED at, NEW c \in Appends,
           at[c] \in Addresses, space[at[c]] = Empty,
           space' = [space EXCEPT ![at[c]] = SerializeEntry(c)],
           \/ pc[c] = "write" /\ Goto(c, "ack")
           \/ pc[c] = "lost" /\ Goto(c, "Failed")
    PROVE  Log!TakeEffect(c)
<1> USE BusBoundsAssumption, BusCallsAssumption
<1>1. TypeOK /\ Packed /\ at[c] <= SpaceTail
    BY DEF BusInv, AppendsBehind
<1>2. /\ at[c] = SpaceTail
      /\ SpaceTail' = SpaceTail + 1
      /\ space'[at[c]] = [position |-> at[c], payload |-> c]
      /\ \A a \in Written : space'[a] = space[a]
    BY <1>1, WriteExtends
<1>3. SpaceTail \in 0 .. Capacity /\ Written = 0 .. (SpaceTail - 1)
    BY <1>1, BelowTail
<1>4. \A i \in 1 .. SpaceTail :
         /\ space[i - 1].payload \in Appends
         /\ space'[i - 1] = space[i - 1]
         /\ space[i - 1].payload # c
    <2> SUFFICES ASSUME NEW a \in Written
                 PROVE  /\ space[a].payload \in Appends
                        /\ space'[a] = space[a]
                        /\ space[a].payload # c
        BY <1>3
    <2>1. space[a] \in BusEntry
        BY <1>1 DEF TypeOK, Written
    <2>2. pc[space[a].payload] \in {"ack", "Ok", "Failed"}
        BY DEF BusInv, WrittenOnce
    <2> QED BY <1>2, <2>1, <2>2 DEF BusEntry
<1>5. LogOf \in Seq(Appends) /\ Len(LogOf) = SpaceTail
      /\ \A i \in 1 .. SpaceTail : LogOf[i] = space[i - 1].payload
    BY <1>3, <1>4 DEF LogOf
<1>6. LogOf' = [i \in 1 .. (SpaceTail + 1) |-> space'[i - 1].payload]
    BY <1>2 DEF LogOf
<1>7. LogOf' = Append(LogOf, c)
    <2>1. \A i \in 1 .. (SpaceTail + 1) :
            space'[i - 1].payload = IF i = SpaceTail + 1 THEN c ELSE LogOf[i]
        BY <1>2, <1>3, <1>4, <1>5
    <2>2. Append(LogOf, c) = [i \in 1 .. (SpaceTail + 1) |->
                                IF i = SpaceTail + 1 THEN c ELSE LogOf[i]]
        BY <1>5, AppendByCases
    <2> QED BY <1>6, <2>1, <2>2
<1>8. ~ Log!Logged(c)
    BY <1>3, <1>4, <1>5 DEF Log!Logged
<1>9. Statuses' = Statuses /\ Answers' = Answers /\ Statuses[c] \in {"pending", "failed"}
    <2>1. PICK step \in {"ack", "Failed"} :
            /\ pc' = [pc EXCEPT ![c] = step]
            /\ pc[c] = IF step = "ack" THEN "write" ELSE "lost"
        BY DEF Goto
    <2>3. pc'[c] = step /\ \A x \in Appends \ {c} : pc'[x] = pc[x]
        BY <1>1, <2>1 DEF TypeOK, Calls
    <2>4. StatusOf(c)' = StatusOf(c)
        BY <2>1, <2>3 DEF StatusOf
    <2>5. \A x \in Appends : /\ StatusOf(x)' = StatusOf(x)
                             /\ pc'[x] = "Ok" <=> pc[x] = "Ok"
        BY <2>1, <2>3, <2>4 DEF StatusOf
    <2>2. StatusOf(c) \in {"pending", "failed"}
        BY DEF StatusOf
    <2> QED BY <2>2, <2>5 DEF Statuses, Answers
<1> QED BY <1>7, <1>8, <1>9 DEF Log!TakeEffect, Statuses, Answers

LEMMA RefinesAppend ==
    ASSUME BusInv, NEW c \in Appends, AppendStep(c) \/ AppendFault(c) \/ LateWrite(c)
    PROVE  [Log!Next]_(Log!vars)
<1> USE BusBoundsAssumption, BusCallsAssumption
<1>1. /\ TypeOK /\ c \in Calls /\ at \in [Calls -> 0 .. Capacity]
      /\ pc \in [Calls -> AppendSteps \cup ReadSteps] /\ \A x \in Appends : x \in Calls
    BY DEF BusInv, TypeOK, Calls
<1>2. ASSUME UNCHANGED space PROVE LogOf' = LogOf
    BY <1>2 DEF LogOf, SpaceTail, Written
<1>3. CASE AppendStart(c)
    <2>1. /\ Statuses' = [Statuses EXCEPT ![c] = StatusOf(c)']
          /\ Answers' = [Answers EXCEPT ![c] = <<>>] /\ pc'[c] = "write"
        BY <1>1, <1>3, RefinesOne DEF AppendStart, AppendSteps
    <2>2. StatusOf(c) = "idle" /\ StatusOf(c)' = "pending"
        BY <1>3, <2>1 DEF AppendStart, StatusOf
    <2>3. Answers' = Answers
        BY <1>3, <2>1 DEF AppendStart, Answers
    <2>4. Log!Invoke(c)
        BY <1>2, <1>3, <2>1, <2>2, <2>3 DEF AppendStart, Log!Invoke, Statuses, Answers
    <2> QED BY <2>4 DEF Log!Next
<1>4. CASE Write(c)
    <2>1. CASE space[at[c]] = Empty
        <3>1. Log!TakeEffect(c)
            BY <1>4, <2>1, RefinesWrite DEF Write
        <3> QED BY <3>1 DEF Log!Next
    <2>2. CASE space[at[c]] # Empty
        BY <1>1, <1>4, <2>2, RefinesQuiet DEF Write, Goto, StatusOf
    <2> QED BY <2>1, <2>2
<1>5. CASE Acknowledge(c)
    <2>1. /\ Statuses' = [Statuses EXCEPT ![c] = StatusOf(c)']
          /\ Answers' = [Answers EXCEPT ![c] = <<at[c]>>] /\ pc'[c] = "Ok"
        BY <1>1, <1>5, RefinesOne DEF Acknowledge, AppendSteps
    <2>2. StatusOf(c) = "pending" /\ StatusOf(c)' = "ok"
        BY <1>5, <2>1 DEF Acknowledge, StatusOf
    <2>3. at[c] < SpaceTail /\ space[at[c]].payload = c
        BY <1>5 DEF Acknowledge, BusInv, AppendsBehind
    <2>4. SpaceTail \in 0 .. Capacity
        BY BelowTail DEF BusInv
    <2> DEFINE i == at[c] + 1
    <2>5. i \in DOMAIN LogOf /\ LogOf[i] = c /\ i - 1 = at[c]
        BY <1>1, <2>3, <2>4 DEF LogOf
    <2> HIDE DEF i
    <2>6. Log!Answer(c)
        BY <1>2, <1>5, <2>1, <2>2, <2>5 DEF Acknowledge, Log!Answer, Statuses, Answers
    <2> QED BY <2>6 DEF Log!Next
<1>6. CASE FindTail(c)
    BY <1>1, <1>6, RefinesQuiet DEF FindTail, Goto, StatusOf
<1>7. CASE WriteConflict(c)
    BY <1>1, <1>7, RefinesQuiet DEF WriteConflict, Goto, StatusOf
<1>8. CASE AppendFails(c) \/ Lose(c)
    <2>1. PICK step \in {"Failed", "lost"} :
            /\ Goto(c, step) /\ UNCHANGED <<space, at>>
            /\ pc[c] \in {"ack", "tail", "write"}
        BY <1>8 DEF AppendFails, Lose
    <2>2. /\ Statuses' = [Statuses EXCEPT ![c] = StatusOf(c)']
          /\ Answers' = [Answers EXCEPT ![c] = <<>>] /\ pc'[c] = step
        BY <1>1, <2>1, RefinesOne DEF AppendSteps
    <2>3. StatusOf(c) = "pending" /\ StatusOf(c)' = "failed"
        BY <2>1, <2>2 DEF StatusOf
    <2>4. Answers' = Answers
        BY <2>1, <2>2 DEF Answers
    <2>5. Log!Error(c)
        BY <1>2, <2>1, <2>2, <2>3, <2>4 DEF Log!Error, Statuses, Answers
    <2> QED BY <2>5 DEF Log!Next
<1>9. CASE LateWrite(c)
    <2>1. CASE space[at[c]] = Empty
        <3>1. Log!TakeEffect(c)
            BY <1>9, <2>1, RefinesWrite DEF LateWrite
        <3> QED BY <3>1 DEF Log!Next
    <2>2. CASE space[at[c]] # Empty
        BY <1>1, <1>9, <2>2, RefinesQuiet DEF LateWrite, Goto, StatusOf
    <2> QED BY <2>1, <2>2
<1> QED BY <1>3, <1>4, <1>5, <1>6, <1>7, <1>8, <1>9 DEF AppendStep, AppendFault

LEMMA RefinesStep == BusInv /\ [Next]_vars => [Log!Next]_(Log!vars)
<1> SUFFICES ASSUME BusInv, [Next]_vars PROVE [Log!Next]_(Log!vars)
    OBVIOUS
<1> USE BusCallsAssumption
<1>1. CASE UNCHANGED vars
    BY <1>1, RefinesQuiet DEF vars, StatusOf
<1>2. ASSUME NEW r \in Reads, ReadStep(r) \/ ReadFails(r)
      PROVE  [Log!Next]_(Log!vars)
    <2>1. /\ UNCHANGED space
          /\ \A x \in Calls \ {r} : pc'[x] = pc[x] /\ at'[x] = at[x]
        BY <1>2 DEF BusInv, TypeOK, ReadStep, ReadFails, ReadStart, CheckTail, PollTail,
           BlockingTail, BlockingTimeout, ReadMissing, ReadFiltered, PollFull, ReadWanted,
           ReadEnd, Goto, Advance, Calls
    <2>2. \A x \in Appends : pc'[x] = pc[x] /\ at'[x] = at[x]
        BY <2>1 DEF Calls
    <2>3. \A x \in Appends : StatusOf(x)' = StatusOf(x)
        BY <2>2 DEF StatusOf
    <2> QED BY <2>1, <2>2, <2>3, RefinesQuiet
<1>3. ASSUME NEW h \in Handles, Forget(h)
      PROVE  [Log!Next]_(Log!vars)
    BY <1>3, RefinesQuiet DEF Forget, StatusOf
<1> QED BY <1>1, <1>2, <1>3, RefinesAppend DEF Next

(* append implements the atomic shared log: every call adds its payload at *)
(* most once, at the end, and is answered with that position; one that     *)
(* fails may still take effect.                                            *)
THEOREM Implements == Spec => ImplementsSharedLog
<1>1. Spec => Log!Spec
    BY RefinesInit, RefinesStep, BusInvariant, PTL DEF Spec, Log!Spec
<1> QED BY <1>1 DEF ImplementsSharedLog

=============================================================================
