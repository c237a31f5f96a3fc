-------------------------- MODULE SimulatorProofs ---------------------------
(***************************************************************************)
(* Sleeps fire on time and in order, no wake-up is lost and a barrier      *)
(* releases those it counted, for every jitter, every duration and any     *)
(* number of tasks.                                                        *)
(*                                                                         *)
(* For sleeps the invariant puts the clock between what has fired and what *)
(* is pending: no fired deadline is after it, no pending one before it.  A *)
(* new sleep is due at or after the clock and numbered last, so it cannot  *)
(* come before a fired one; an event moves the clock at most to the next   *)
(* deadline.                                                               *)
(*                                                                         *)
(* For wake-ups it says that a task is registered with every channel it    *)
(* waits for and that has not been sent, and that a channel has at most    *)
(* one waker, none once it has been sent.                                  *)
(***************************************************************************)
EXTENDS Simulator, WellFoundedInduction, TLAPS

SleepTypes ==
    /\ elapsed \in Nat /\ next_sequence \in Nat /\ turns \in Nat
    /\ sleeps \subseteq SleepRecords /\ fired \subseteq SleepRecords

NumbersUsed == \A s \in sleeps \cup fired : s.seq < next_sequence

NumbersDiffer ==
    /\ \A a, b \in sleeps : a.seq = b.seq => a = b
    /\ \A a \in fired, b \in sleeps : a.seq # b.seq

ClockBetween ==
    /\ \A s \in sleeps : elapsed <= s.target
    /\ \A s \in fired : s.target <= elapsed

SleepInv == SleepTypes /\ NumbersUsed /\ NumbersDiffer /\ ClockBetween /\ SleepsFireInOrder

LEMMA InitSleepInv == Init => SleepInv
BY SMT DEF Init, SleepInv, SleepTypes, NumbersUsed, NumbersDiffer, ClockBetween,
           SleepsFireInOrder, SleepRecords

(* A new sleep is due at or after the clock, with a number of its own.     *)
LEMMA SleepKeepsInv ==
    ASSUME SleepInv, NEW d \in Durations, Sleep(d)
    PROVE  SleepInv'
<1> DEFINE new == [seq |-> next_sequence, target |-> elapsed + d, born |-> elapsed, turn |-> turns]
<1>1. sleeps' = sleeps \cup {new} /\ next_sequence' = next_sequence + 1
      /\ UNCHANGED <<fired, elapsed, turns>>
    BY DEF Sleep, SpawnAfter, history
<1>2. d \in Nat
    BY SimulatorAssumption
<1>3. new \in SleepRecords /\ new.seq = next_sequence /\ new.target = elapsed + d
    BY <1>2 DEF SleepInv, SleepTypes, SleepRecords
<1>. HIDE DEF new
<1>4. SleepTypes'
    BY <1>1, <1>3 DEF SleepInv, SleepTypes
<1>5. NumbersUsed'
    BY <1>1, <1>3 DEF SleepInv, SleepTypes, NumbersUsed, SleepRecords
<1>6. NumbersDiffer'
    BY <1>1, <1>3 DEF SleepInv, SleepTypes, NumbersUsed, NumbersDiffer, SleepRecords
<1>7. ClockBetween'
    BY <1>1, <1>2, <1>3 DEF SleepInv, SleepTypes, ClockBetween, SleepRecords
<1>8. SleepsFireInOrder'
    BY <1>1, <1>2, <1>3 DEF SleepInv, SleepTypes, NumbersUsed, ClockBetween,
                            SleepsFireInOrder, SleepRecords
<1>. QED  BY <1>4, <1>5, <1>6, <1>7, <1>8 DEF SleepInv

(* The sleep that fires is the earliest: the clock moves to its deadline,  *)
(* which no pending one precedes.                                          *)
LEMMA RunSleepKeepsInv ==
    ASSUME SleepInv, RunSleep
    PROVE  SleepInv' /\ \A s \in fired' \ fired : elapsed' = s.target
<1>1. PICK s \in sleeps :
          /\ NextSleep(s)
          /\ sleeps' = sleeps \ {s} /\ fired' = fired \cup {s}
          /\ elapsed' = AdvanceTo(s.target)
    BY DEF RunSleep
<1>2. next_sequence' = next_sequence /\ turns' = turns
    BY DEF RunSleep
<1>3. s \in SleepRecords /\ s.target \in Nat /\ s.seq \in Nat
    BY DEF SleepInv, SleepTypes, SleepRecords
<1>4. elapsed' = s.target
    BY <1>1, <1>3 DEF AdvanceTo, SleepInv, SleepTypes, ClockBetween
<1>5. \A r \in sleeps : s.target < r.target \/ (s.target = r.target /\ s.seq <= r.seq)
    BY <1>1 DEF NextSleep, Before
<1>6. SleepTypes'
    BY <1>1, <1>2, <1>3, <1>4 DEF SleepInv, SleepTypes
<1>7. NumbersUsed'
    BY <1>1, <1>2 DEF SleepInv, NumbersUsed
<1>8. NumbersDiffer'
    BY <1>1 DEF SleepInv, NumbersDiffer
<1>9. ClockBetween'
    BY <1>1, <1>3, <1>4, <1>5 DEF SleepInv, SleepTypes, ClockBetween, SleepRecords
<1>10. SleepsFireInOrder'
    BY <1>1, <1>3, <1>5 DEF SleepInv, SleepTypes, NumbersDiffer, SleepsFireInOrder, SleepRecords
<1>. QED  BY <1>1, <1>4, <1>6, <1>7, <1>8, <1>9, <1>10 DEF SleepInv

LEMMA LeastNumber ==
    ASSUME NEW T \in SUBSET Nat, T # {}
    PROVE  \E n \in T : \A m \in T : n <= m
<1> DEFINE less == OpToRel(<, Nat)
<1>1. IsWellFoundedOn(less, Nat)
    BY NatLessThanWellFounded
<1>2. \A m, n \in Nat : m < n => <<m, n>> \in less
    BY DEF OpToRel
<1>. HIDE DEF less
<1>3. PICK n \in T : \A m \in T : ~ (<<m, n>> \in less)
    BY <1>1, WFMin
<1>4. \A m \in T : ~ (m < n)
    BY <1>2, <1>3, Zenon
<1>5. \A m \in T : n <= m
    BY <1>4
<1>. QED  BY <1>5

(* The heap has a top: among the earliest deadlines the lowest number.     *)
LEMMA NextSleepExists ==
    ASSUME sleeps \subseteq SleepRecords, sleeps # {}
    PROVE  \E s \in sleeps : NextSleep(s)
<1> DEFINE targets == {s.target : s \in sleeps}
<1>1. targets \in SUBSET Nat /\ targets # {}
    BY DEF SleepRecords
<1>2. PICK n \in targets : \A m \in targets : n <= m
    BY <1>1, LeastNumber
<1> DEFINE due == {s \in sleeps : s.target = n}
<1> DEFINE numbers == {s.seq : s \in due}
<1>3. numbers \in SUBSET Nat /\ numbers # {}
    BY <1>2 DEF SleepRecords
<1>4. PICK k \in numbers : \A m \in numbers : k <= m
    BY <1>3, LeastNumber
<1>5. PICK s \in due : s.seq = k
    BY <1>4
<1>6. \A r \in sleeps : s.target < r.target \/ (s.target = r.target /\ s.seq <= r.seq)
  <2> TAKE r \in sleeps
  <2>1. r.target \in Nat /\ s.target \in Nat
      BY DEF SleepRecords
  <2>2. s.target = n /\ n <= r.target
      BY <1>2
  <2>3. CASE r.target = n
      BY <2>3, <2>2, <1>4, <1>5
  <2>4. CASE r.target # n
      BY <2>4, <2>1, <2>2
  <2>. QED  BY <2>3, <2>4
<1>. QED  BY <1>6 DEF NextSleep, Before

(* An event is taken at or before the next deadline.                       *)
LEMMA RunEventKeepsInv ==
    ASSUME SleepInv, NEW t \in Tasks, NEW j \in Jitter, RunEvent(t, j)
    PROVE  SleepInv' /\ fired' = fired
<1>1. elapsed' = AdvanceTo(elapsed + j) /\ turns' = turns + 1
      /\ UNCHANGED <<sleeps, fired, next_sequence>>
    BY DEF RunEvent, NextEventTime
<1>2. j \in Nat
    BY SimulatorAssumption
<1>3. elapsed' = elapsed + j
    BY <1>1, <1>2 DEF AdvanceTo, SleepInv, SleepTypes
<1>4. \A s \in sleeps : elapsed + j <= s.target
  <2> SUFFICES ASSUME NEW s \in sleeps PROVE elapsed + j <= s.target
      OBVIOUS
  <2>1. PICK r \in sleeps : NextSleep(r)
      BY NextSleepExists DEF SleepInv, SleepTypes
  <2>2. elapsed + j <= r.target
      BY <1>2, <2>1 DEF RunEvent, EventIsNext, NextEventTime, SleepInv, SleepTypes, SleepRecords
  <2>3. r.target <= s.target
      BY <2>1 DEF NextSleep, Before, SleepInv, SleepTypes, SleepRecords
  <2>. QED  BY <1>2, <2>2, <2>3 DEF SleepInv, SleepTypes, SleepRecords
<1>5. SleepTypes'
    BY <1>1, <1>2, <1>3 DEF SleepInv, SleepTypes
<1>6. ClockBetween'
    BY <1>1, <1>2, <1>3, <1>4 DEF SleepInv, SleepTypes, ClockBetween, SleepRecords
<1>7. (NumbersUsed /\ NumbersDiffer /\ SleepsFireInOrder)'
    BY <1>1 DEF SleepInv, NumbersUsed, NumbersDiffer, SleepsFireInOrder
<1>. QED  BY <1>1, <1>5, <1>6, <1>7 DEF SleepInv

(* The other steps leave the sleeps and the clock alone.                   *)
LEMMA RestKeepsInv ==
    ASSUME SleepInv, UNCHANGED <<elapsed, turns, sleeps, fired>>,
           next_sequence' \in {next_sequence, next_sequence + 1}
    PROVE  SleepInv' /\ fired' = fired
<1>1. SleepTypes'
    BY DEF SleepInv, SleepTypes
<1>2. NumbersUsed'
    BY DEF SleepInv, SleepTypes, NumbersUsed, SleepRecords
<1>3. (NumbersDiffer /\ ClockBetween /\ SleepsFireInOrder)'
    BY DEF SleepInv, NumbersDiffer, ClockBetween, SleepsFireInOrder
<1>. QED  BY <1>1, <1>2, <1>3 DEF SleepInv

LEMMA NextKeepsInv ==
    ASSUME SleepInv, [Next]_vars
    PROVE  SleepInv' /\ (vars' # vars => \A s \in fired' \ fired : elapsed' = s.target)
<1>1. CASE UNCHANGED vars
    BY <1>1, RestKeepsInv DEF vars, queues, history
<1>2. CASE Spawn
  <2>1. UNCHANGED <<elapsed, turns, sleeps, fired>> /\ next_sequence' = next_sequence + 1
      BY <1>2 DEF Spawn, SpawnNamed, history
  <2>. QED  BY <2>1, RestKeepsInv
<1>3. CASE \E d \in Durations : Sleep(d)
  <2>1. fired' = fired
      BY <1>3 DEF Sleep, history
  <2>. QED  BY <1>3, <2>1, SleepKeepsInv
<1>4. CASE RunStarts \/ RunPanics \/ RunReturns
  <2>1. UNCHANGED <<elapsed, turns, sleeps, fired, next_sequence>>
      BY <1>4 DEF RunStarts, RunPanics, RunReturns, queues, history
  <2>. QED  BY <2>1, RestKeepsInv
<1>5. CASE RunSleep
    BY <1>5, RunSleepKeepsInv
<1>6. CASE \E t \in Tasks, j \in Jitter : RunEvent(t, j)
    BY <1>6, RunEventKeepsInv
<1>7. CASE (\E c, d \in receivers : Await(c, d)) \/ YieldNow \/ BarrierWait \/ Finish
  <2>1. UNCHANGED <<elapsed, turns, sleeps, fired, next_sequence>>
      BY <1>7 DEF Await, YieldNow, BarrierWait, Finish, history
  <2>. QED  BY <2>1, RestKeepsInv
<1>. QED  BY <1>1, <1>2, <1>3, <1>4, <1>5, <1>6, <1>7 DEF Next

LEMMA SleepInvHolds == Spec => []SleepInv
<1>1. SleepInv /\ [Next]_vars => SleepInv'
    BY NextKeepsInv
<1>. QED  BY InitSleepInv, <1>1, PTL DEF Spec

(* Sleeps fire in the order of their deadlines, and of their start where   *)
(* deadlines are equal (Ord for Task, next_sleep_time, spawn_after).       *)
THEOREM SleepsInOrder == Spec => []SleepsFireInOrder
<1>1. SleepInv => SleepsFireInOrder
    BY DEF SleepInv
<1>. QED  BY SleepInvHolds, <1>1, PTL

(* A sleep fires at its deadline, whatever the jitter of events (run,      *)
(* next_event_time, advance_to).                                           *)
THEOREM SleepsOnTime == Spec => SleepsFireOnTime
<1>1. SleepInv /\ [Next]_vars => [\A s \in fired' \ fired : elapsed' = s.target]_vars
    BY NextKeepsInv
<1>. QED  BY SleepInvHolds, <1>1, PTL DEF Spec, SleepsFireOnTime

(* Every event taken while a sleep is pending has moved the clock.         *)
Paced == 0 \notin Jitter => \A s \in sleeps : turns - s.turn <= elapsed - s.born

LEMMA NextKeepsPace ==
    ASSUME SleepInv, SleepInv', Paced, [Next]_vars
    PROVE  Paced'
<1> SUFFICES ASSUME 0 \notin Jitter, NEW s \in sleeps'
             PROVE  turns' - s.turn <= elapsed' - s.born
    BY DEF Paced
<1>1. elapsed \in Nat /\ turns \in Nat
    BY DEF SleepInv, SleepTypes
<1>2. CASE \E d \in Durations : Sleep(d)
  <2>1. PICK d \in Durations : Sleep(d)
      BY <1>2
  <2>2. elapsed' = elapsed /\ turns' = turns
      BY <2>1 DEF Sleep, history
  <2>3. CASE s \in sleeps
      BY <2>2, <2>3 DEF Paced
  <2>4. CASE s \notin sleeps
    <3>1. s.born = elapsed /\ s.turn = turns
        BY <2>1, <2>4 DEF Sleep, SpawnAfter
    <3>. QED  BY <1>1, <2>2, <3>1
  <2>. QED  BY <2>3, <2>4
<1>3. CASE RunSleep
  <2>1. PICK r \in sleeps : sleeps' = sleeps \ {r} /\ elapsed' = AdvanceTo(r.target)
      BY <1>3 DEF RunSleep
  <2>2. turns' = turns /\ s \in sleeps
      BY <1>3, <2>1 DEF RunSleep
  <2>3. r \in SleepRecords /\ s \in SleepRecords
      BY <2>2 DEF SleepInv, SleepTypes
  <2>4. elapsed <= elapsed' /\ elapsed' \in Nat
      BY <1>1, <2>1, <2>3 DEF AdvanceTo, SleepRecords
  <2>5. turns - s.turn <= elapsed - s.born
      BY <2>2 DEF Paced
  <2>. QED  BY <1>1, <2>2, <2>3, <2>4, <2>5 DEF SleepRecords
<1>4. CASE \E t \in Tasks, j \in Jitter : RunEvent(t, j)
  <2>1. PICK t \in Tasks, j \in Jitter : RunEvent(t, j)
      BY <1>4
  <2>2. j \in Nat /\ j # 0
      BY SimulatorAssumption
  <2>3. elapsed' = elapsed + j /\ turns' = turns + 1 /\ s \in sleeps
      BY <1>1, <2>1, <2>2 DEF RunEvent, NextEventTime, AdvanceTo
  <2>4. turns - s.turn <= elapsed - s.born
      BY <2>3 DEF Paced
  <2>. QED  BY <1>1, <2>2, <2>3, <2>4 DEF SleepInv, SleepTypes, SleepRecords
<1>5. CASE UNCHANGED <<elapsed, turns, sleeps>>
    BY <1>5 DEF Paced
<1>6. \/ \E d \in Durations : Sleep(d)
      \/ RunSleep
      \/ \E t \in Tasks, j \in Jitter : RunEvent(t, j)
      \/ UNCHANGED <<elapsed, turns, sleeps>>
    BY DEF Next, vars, queues, history, Spawn, SpawnNamed, RunStarts, RunPanics, RunReturns,
           Await, YieldNow, BarrierWait, Finish
<1>. QED  BY <1>2, <1>3, <1>4, <1>5, <1>6

(* With a positive jitter no task can hold a sleep back for more events    *)
(* than its duration has clock units (next_event_time's warning).          *)
THEOREM StarvationIsBounded == Spec => []StarvationBounded
<1>1. Init => Paced
    BY DEF Init, Paced
<1>2. SleepInv /\ SleepInv' /\ Paced /\ [Next]_vars => Paced'
    BY NextKeepsPace
<1>3. SleepInv /\ Paced => StarvationBounded
  <2> SUFFICES ASSUME SleepInv, Paced, 0 \notin Jitter, NEW s \in sleeps
               PROVE  turns - s.turn <= s.target - s.born
      BY DEF StarvationBounded
  <2>1. turns - s.turn <= elapsed - s.born /\ elapsed <= s.target
      BY DEF Paced, SleepInv, ClockBetween
  <2>. QED  BY <2>1 DEF SleepInv, SleepTypes, SleepRecords
<1>. QED  BY SleepInvHolds, <1>1, <1>2, <1>3, PTL DEF Spec

-----------------------------------------------------------------------------
(* Barriers.                                                               *)

BarrierInv ==
    /\ arrivals \in Nat /\ senders \in Seq(Tasks)
    /\ phase = "poll" => running \in Tasks
    /\ arrived = arrivals % BarrierSize /\ Len(senders) = arrived

LEMMA RestOfGroup ==
    ASSUME NEW k \in Nat, NEW b \in Nat \ {0}, NEW a \in 0 .. (b - 1)
    PROVE  (b * k + a) % b = a
BY SMT

(* The count of a group, one arrival later.                                *)
LEMMA NextOfGroup ==
    ASSUME NEW n \in Nat, NEW b \in Nat \ {0}
    PROVE  /\ n % b \in 0 .. (b - 1)
           /\ (n + 1) % b = IF (n % b) + 1 = b THEN 0 ELSE (n % b) + 1
<1>1. n % b \in 0 .. (b - 1) /\ n \div b \in Nat /\ n = b * (n \div b) + (n % b)
    BY SMT
<1>2. PICK k, a \in Nat : k = n \div b /\ a = n % b
    BY <1>1
<1>3. CASE a + 1 = b
  <2>1. n + 1 = b * (k + 1) + 0
      BY <1>1, <1>2, <1>3
  <2>2. (b * (k + 1) + 0) % b = 0
      BY RestOfGroup
  <2>. QED  BY <1>1, <1>2, <1>3, <2>1, <2>2
<1>4. CASE a + 1 # b
  <2>1. a + 1 \in 0 .. (b - 1) /\ n + 1 = b * k + (a + 1)
      BY <1>1, <1>2, <1>4
  <2>2. (b * k + (a + 1)) % b = a + 1
      BY <2>1, RestOfGroup
  <2>. QED  BY <1>1, <1>2, <1>4, <2>1, <2>2
<1>. QED  BY <1>3, <1>4

LEMMA BarrierKeepsInv ==
    ASSUME BarrierInv, BarrierWait
    PROVE  BarrierInv'
<1> USE SimulatorAssumption
<1>1. /\ arrived \in 0 .. (BarrierSize - 1)
      /\ (arrivals + 1) % BarrierSize = IF arrived + 1 = BarrierSize THEN 0 ELSE arrived + 1
  <2>1. BarrierSize \in Nat \ {0} /\ arrivals \in Nat /\ arrived = arrivals % BarrierSize
      BY DEF BarrierInv
  <2>. QED  BY <2>1, NextOfGroup, Zenon
<1>2. /\ arrivals' = arrivals + 1 /\ arrived' = CountAfter(arrived + 1) /\ running \in Tasks
      /\ \/ arrived + 1 = BarrierSize /\ senders' = <<>> /\ UNCHANGED <<phase, running>>
         \/ arrived + 1 # BarrierSize /\ senders' = Append(senders, running) /\ phase' = "loop"
    BY DEF BarrierWait, BarrierInv, Pending
<1>3. arrivals' \in Nat /\ arrived' = arrivals' % BarrierSize
    BY <1>1, <1>2 DEF BarrierInv, CountAfter
<1>4. senders' \in Seq(Tasks) /\ Len(senders') = arrived'
  <2>1. senders \in Seq(Tasks) /\ Len(senders) = arrived
      BY DEF BarrierInv
  <2>2. CASE arrived + 1 = BarrierSize
    <3>1. senders' = <<>> /\ arrived' = 0
        BY <1>2, <2>2 DEF CountAfter
    <3>. QED  BY <3>1
  <2>3. CASE arrived + 1 # BarrierSize
    <3>1. senders' = Append(senders, running) /\ arrived' = arrived + 1
        BY <1>2, <2>3 DEF CountAfter
    <3>. QED  BY <1>2, <2>1, <3>1
  <2>. QED  BY <2>2, <2>3
<1>5. phase' = "poll" => running' \in Tasks
    BY <1>2
<1>. QED  BY <1>3, <1>4, <1>5 DEF BarrierInv

LEMMA NextKeepsBarrier ==
    ASSUME BarrierInv, [Next]_vars
    PROVE  BarrierInv'
<1>1. CASE BarrierWait
    BY <1>1, BarrierKeepsInv
<1>2. CASE UNCHANGED <<barrier, phase, running>>
    BY <1>2 DEF BarrierInv, barrier
<1>3. CASE UNCHANGED barrier /\ phase' # "poll"
    BY <1>3 DEF BarrierInv, barrier
<1>4. CASE \E t \in Tasks, j \in Jitter : RunEvent(t, j)
    BY <1>4 DEF RunEvent, BarrierInv, barrier
<1>5. ASSUME Next PROVE BarrierWait \/ UNCHANGED <<barrier, phase, running>>
                        \/ (UNCHANGED barrier /\ phase' # "poll")
                        \/ \E t \in Tasks, j \in Jitter : RunEvent(t, j)
    BY <1>5 DEF Next, Spawn, Sleep, RunStarts, RunPanics, RunReturns, RunSleep, Await, Pending,
                YieldNow, Finish, barrier
<1>. QED  BY <1>1, <1>2, <1>3, <1>4, <1>5 DEF vars

-----------------------------------------------------------------------------
(* Wake-ups.                                                               *)

Channel == {"done", "gate", "yield"} \X Nat

(* Gates and yields are their task's own.                                  *)
Owned(c, t) == c[1] # "done" => c[2] = t

ChannelTypes ==
    /\ wakes \in Seq(Tasks)
    /\ waits \in [Tasks -> SUBSET Channel]
    /\ receivers \subseteq {"done"} \X Nat
    /\ wakers \subseteq Channel \X Tasks
    /\ next_sequence \in Nat
    /\ blocked \subseteq Tasks
    /\ phase = "poll" => running \in Tasks /\ waits[running] = {}

(* A task is registered with every channel it waits for and that has not   *)
(* been sent.                                                              *)
Registered ==
    \A t \in Tasks : \A c \in waits[t] :
        /\ Owned(c, t)
        /\ c \notin sent => <<c, t>> \in wakers

(* A channel has at most one waker, and none once it has been sent.        *)
WakersSound ==
    /\ \A w \in wakers : w[1] \notin sent /\ Owned(w[1], w[2]) /\ w[1][1] # "yield"
    /\ \A v, w \in wakers : v[1] = w[1] => v[2] = w[2]

WakeInv == ChannelTypes /\ Registered /\ WakersSound /\ NoLostWake

LEMMA TasksAreNat == Tasks \subseteq Nat
BY SimulatorAssumption DEF Tasks

LEMMA ElementsOfConcat ==
    ASSUME NEW s \in Seq(Tasks), NEW r \in Seq(Tasks)
    PROVE  /\ s \o r \in Seq(Tasks)
           /\ Elements(s) \subseteq Elements(s \o r) /\ Elements(r) \subseteq Elements(s \o r)
<1>1. s \o r \in Seq(Tasks) /\ Len(s \o r) = Len(s) + Len(r) /\ Len(s) \in Nat /\ Len(r) \in Nat
    OBVIOUS
<1>2. \A i \in 1 .. Len(s) : i \in 1 .. Len(s \o r) /\ (s \o r)[i] = s[i]
    BY <1>1
<1>3. \A i \in 1 .. Len(r) : i + Len(s) \in 1 .. Len(s \o r) /\ (s \o r)[i + Len(s)] = r[i]
    BY <1>1
<1>. QED  BY <1>1, <1>2, <1>3 DEF Elements

LEMMA ElementsOfOne ==
    ASSUME NEW t \in Tasks
    PROVE  <<t>> \in Seq(Tasks) /\ t \in Elements(<<t>>)
<1>1. <<t>> \in Seq(Tasks) /\ Len(<<t>>) = 1 /\ <<t>>[1] = t
    OBVIOUS
<1>. QED  BY <1>1 DEF Elements

LEMMA ElementsOfAppend ==
    ASSUME NEW s \in Seq(Tasks), NEW t \in Tasks
    PROVE  /\ Append(s, t) \in Seq(Tasks)
           /\ Elements(s) \subseteq Elements(Append(s, t)) /\ t \in Elements(Append(s, t))
<1>1. /\ Append(s, t) \in Seq(Tasks) /\ Len(Append(s, t)) = Len(s) + 1 /\ Len(s) \in Nat
      /\ Append(s, t)[Len(s) + 1] = t
      /\ \A i \in 1 .. Len(s) : Append(s, t)[i] = s[i]
    OBVIOUS
<1>2. /\ Len(s) + 1 \in 1 .. Len(Append(s, t))
      /\ \A i \in 1 .. Len(s) : i \in 1 .. Len(Append(s, t))
    BY <1>1
<1>. QED  BY <1>1, <1>2 DEF Elements

(* A send wakes the task that is registered with the channel.              *)
LEMMA SendWakes ==
    ASSUME WakersSound, NEW c, NEW t \in Tasks, <<c, t>> \in wakers
    PROVE  t \in Elements(WokenBy(c))
<1> DEFINE u == CHOOSE x \in Tasks : <<c, x>> \in wakers
<1>1. u \in Tasks /\ <<c, u>> \in wakers
    OBVIOUS
<1>2. <<c, u>>[1] = c /\ <<c, u>>[2] = u /\ <<c, t>>[1] = c /\ <<c, t>>[2] = t
    OBVIOUS
<1>3. u = t
    BY <1>1, <1>2 DEF WakersSound
<1>4. WokenBy(c) = <<u>>
    BY DEF WokenBy
<1>. QED  BY <1>3, <1>4, ElementsOfOne

LEMMA WokenByType ==
    ASSUME NEW c
    PROVE  WokenBy(c) \in Seq(Tasks)
<1>1. CASE \E t \in Tasks : <<c, t>> \in wakers
  <2> DEFINE u == CHOOSE x \in Tasks : <<c, x>> \in wakers
  <2>1. u \in Tasks
      BY <1>1
  <2>2. WokenBy(c) = <<u>>
      BY <1>1 DEF WokenBy
  <2>. QED  BY <2>1, <2>2
<1>2. CASE ~ \E t \in Tasks : <<c, t>> \in wakers
    BY <1>2 DEF WokenBy
<1>. QED  BY <1>1, <1>2

LEMMA InitWakeInv == Init => WakeInv
<1> SUFFICES ASSUME Init PROVE WakeInv
    OBVIOUS
<1>1. ChannelTypes
    BY DEF Init, ChannelTypes
<1>2. Registered /\ WakersSound /\ NoLostWake
    BY DEF Init, Registered, WakersSound, NoLostWake
<1>. QED  BY <1>1, <1>2 DEF WakeInv

(* Steps that leave what tasks wait for alone.                             *)
LEMMA QuietKeepsWakes ==
    ASSUME WakeInv, UNCHANGED <<waits, sent, wakers, blocked, wakes>>,
           receivers' \in {receivers, receivers \cup {<<"done", next_sequence>>}},
           next_sequence' \in {next_sequence, next_sequence + 1},
           phase' = "poll" => UNCHANGED <<phase, running>>
    PROVE  WakeInv'
<1>1. ChannelTypes'
    BY DEF WakeInv, ChannelTypes
<1>2. Registered' /\ WakersSound' /\ NoLostWake'
    BY DEF WakeInv, Registered, WakersSound, NoLostWake, Owned
<1>. QED  BY <1>1, <1>2 DEF WakeInv

(* run returns: no blocked task has been woken.                            *)
LEMMA ReturnKeepsWakes ==
    ASSUME WakeInv, RunReturns
    PROVE  WakeInv'
<1>1. /\ UNCHANGED <<waits, sent, wakers, blocked, receivers, next_sequence>>
      /\ phase' = "idle" /\ wakes' = <<>> /\ Woken = {}
    BY DEF RunReturns, channels, Ready
<1>2. ChannelTypes'
    BY <1>1 DEF WakeInv, ChannelTypes
<1>3. Registered' /\ WakersSound'
    BY <1>1 DEF WakeInv, Registered, WakersSound, Owned
<1>4. \A t \in blocked : waits[t] \cap sent = {}
    BY <1>1 DEF WakeInv, NoLostWake, Woken
<1>5. NoLostWake'
    BY <1>1, <1>4 DEF NoLostWake
<1>. QED  BY <1>2, <1>3, <1>5 DEF WakeInv

(* A sleep ends and wakes who waits for it; the others that were woken are *)
(* blocked no more.                                                        *)
LEMMA SleepKeepsWakes ==
    ASSUME WakeInv, RunSleep
    PROVE  WakeInv'
<1>1. PICK s \in sleeps :
        /\ sent' = sent \cup {<<"done", s.seq>>}
        /\ wakers' = {w \in wakers : w[1] # <<"done", s.seq>>}
        /\ wakes' = WokenBy(<<"done", s.seq>>)
    BY DEF RunSleep
<1>2. UNCHANGED <<waits, receivers, phase, running, next_sequence>> /\ blocked' = blocked \ Woken
    BY DEF RunSleep
<1>3. PICK c : c = <<"done", s.seq>>
    OBVIOUS
<1>4. sent' = sent \cup {c} /\ wakers' = {w \in wakers : w[1] # c} /\ wakes' = WokenBy(c)
    BY <1>1, <1>3
<1>5. ChannelTypes'
    BY <1>2, <1>4, WokenByType DEF WakeInv, ChannelTypes
<1>6. Registered'
    BY <1>2, <1>4 DEF WakeInv, Registered, Owned
<1>7. WakersSound'
    BY <1>4 DEF WakeInv, WakersSound, Owned
<1>8. NoLostWake'
  <2> SUFFICES ASSUME NEW t \in blocked', waits[t] \cap sent' # {} PROVE t \in Elements(wakes')
      BY <1>2 DEF NoLostWake
  <2>1. t \in Tasks /\ waits[t] \cap sent = {}
      BY <1>2 DEF WakeInv, NoLostWake, Woken, ChannelTypes
  <2>2. c \in waits[t] /\ c \notin sent
      BY <1>4, <2>1
  <2>3. <<c, t>> \in wakers
      BY <2>1, <2>2 DEF WakeInv, Registered
  <2>. QED  BY <1>4, <2>1, <2>3, SendWakes DEF WakeInv
<1>. QED  BY <1>5, <1>6, <1>7, <1>8 DEF WakeInv

(* A ready task is polled.                                                 *)
LEMMA EventKeepsWakes ==
    ASSUME WakeInv, NEW t \in Tasks, NEW j \in Jitter, RunEvent(t, j)
    PROVE  WakeInv'
<1>1. /\ wakes' = <<>> /\ blocked \ Woken \subseteq blocked' /\ blocked' \subseteq (blocked \ Woken) \cup {t}
      /\ UNCHANGED <<sent, next_sequence>>
    BY DEF RunEvent, channels
<1>2. \A u \in blocked \ Woken : waits[u] \cap sent = {}
    BY DEF WakeInv, NoLostWake, Woken
<1>3. CASE waits[t] # {} /\ waits[t] \cap sent = {}
  <2>1. UNCHANGED <<phase, running, channels>>
      BY <1>3 DEF RunEvent
  <2>2. ChannelTypes'
      BY <1>1, <2>1 DEF WakeInv, ChannelTypes, channels
  <2>3. Registered' /\ WakersSound'
      BY <2>1 DEF WakeInv, Registered, WakersSound, Owned, channels
  <2>4. NoLostWake'
      BY <1>1, <1>2, <1>3, <2>1 DEF NoLostWake, channels
  <2>. QED  BY <2>2, <2>3, <2>4 DEF WakeInv
<1>4. CASE ~ (waits[t] # {} /\ waits[t] \cap sent = {})
  <2>1. /\ phase' = "poll" /\ running' = t /\ waits' = [waits EXCEPT ![t] = {}]
        /\ blocked' = blocked \ Woken
      BY <1>4 DEF RunEvent
  <2>2. PICK dropped \in SUBSET waits[t] :
          receivers' = receivers \ dropped /\ wakers' = {w \in wakers : w[1] \notin dropped}
      BY <1>4 DEF RunEvent
  <2>3. waits'[t] = {} /\ \A u \in Tasks \ {t} : waits'[u] = waits[u]
      BY <2>1 DEF WakeInv, ChannelTypes
  <2>4. ChannelTypes'
      BY <1>1, <2>1, <2>2, <2>3 DEF WakeInv, ChannelTypes
  <2>5. Registered'
    <3> SUFFICES ASSUME NEW u \in Tasks, NEW c \in waits'[u]
                 PROVE  Owned(c, u) /\ (c \notin sent => <<c, u>> \in wakers')
        BY <1>1 DEF Registered, Owned
    <3>1. u # t /\ c \in waits[u]
        BY <2>3
    <3>2. Owned(c, u) /\ (c \notin sent => <<c, u>> \in wakers)
        BY <3>1 DEF WakeInv, Registered
    <3>3. c \notin sent => c \notin dropped
      <4> SUFFICES ASSUME c \notin sent, c \in dropped PROVE FALSE
          OBVIOUS
      <4>1. <<c, t>> \in wakers /\ <<c, u>> \in wakers
          BY <3>2 DEF WakeInv, Registered
      <4>2. <<c, t>>[1] = <<c, u>>[1] /\ <<c, t>>[2] = t /\ <<c, u>>[2] = u
          OBVIOUS
      <4>. QED  BY <3>1, <4>1, <4>2 DEF WakeInv, WakersSound
    <3>. QED  BY <2>2, <3>2, <3>3
  <2>6. WakersSound'
      BY <1>1, <2>2 DEF WakeInv, WakersSound, Owned
  <2>7. NoLostWake'
      BY <1>1, <1>2, <2>1, <2>3 DEF NoLostWake, WakeInv, ChannelTypes
  <2>. QED  BY <2>4, <2>5, <2>6, <2>7 DEF WakeInv
<1>. QED  BY <1>3, <1>4

(* The polled task awaits channels nobody else is registered with.         *)
LEMMA AwaitKeepsWakes ==
    ASSUME WakeInv, NEW c \in receivers, NEW d \in receivers, Await(c, d)
    PROVE  WakeInv'
<1> DEFINE t == running
           awaited == {c, d}
<1>1. t \in Tasks /\ waits[t] = {} /\ phase = "poll"
    BY DEF Await, WakeInv, ChannelTypes
<1>2. awaited \subseteq receivers /\ awaited \subseteq Channel /\ \A a \in awaited : a[1] = "done"
    BY DEF WakeInv, ChannelTypes, Channel
<1>3. \A a \in awaited, w \in wakers : w[1] = a => w[2] = t
    BY DEF Await, Awaitable
<1>4. UNCHANGED <<sent, wakes, next_sequence>>
    BY DEF Await
<1>5. CASE awaited \cap sent = {}
  <2>1. /\ waits' = [waits EXCEPT ![t] = awaited] /\ blocked' = blocked \cup {t}
        /\ phase' = "loop" /\ receivers' = receivers
        /\ wakers' = wakers \cup {<<a, t>> : a \in awaited}
      BY <1>5 DEF Await, Pending
  <2>2. waits'[t] = awaited /\ \A u \in Tasks \ {t} : waits'[u] = waits[u]
      BY <1>1, <2>1 DEF WakeInv, ChannelTypes
  <2>3. waits' \in [Tasks -> SUBSET Channel]
      BY <1>1, <1>2, <2>1 DEF WakeInv, ChannelTypes
  <2>4. \A w \in wakers' : w \in wakers \/ \E a \in awaited : w = <<a, t>> /\ w[1] = a /\ w[2] = t
      BY <2>1
  <2>5. wakers' \subseteq Channel \X Tasks
      BY <1>1, <1>2, <2>1 DEF WakeInv, ChannelTypes
  <2> HIDE DEF t, awaited
  <2>6. ChannelTypes'
      BY <1>1, <1>4, <2>1, <2>3, <2>5 DEF WakeInv, ChannelTypes
  <2>7. Registered'
    <3> SUFFICES ASSUME NEW u \in Tasks, NEW a \in waits'[u]
                 PROVE  Owned(a, u) /\ (a \notin sent => <<a, u>> \in wakers')
        BY <1>4 DEF Registered, Owned
    <3>1. CASE u = t
        BY <3>1, <1>2, <2>1, <2>2 DEF Owned
    <3>2. CASE u # t
        BY <3>2, <2>1, <2>2 DEF WakeInv, Registered
    <3>. QED  BY <3>1, <3>2
  <2>8. WakersSound'
    <3>1. \A w \in wakers' : w[1] \notin sent /\ Owned(w[1], w[2]) /\ w[1][1] # "yield"
        BY <1>2, <1>5, <2>4 DEF WakeInv, WakersSound, Owned
    <3>2. \A v, w \in wakers' : v[1] = w[1] => v[2] = w[2]
        BY <1>3, <2>4 DEF WakeInv, WakersSound
    <3>. QED  BY <1>4, <3>1, <3>2 DEF WakersSound, Owned
  <2>9. NoLostWake'
      BY <1>4, <1>5, <2>1, <2>2 DEF WakeInv, NoLostWake, ChannelTypes
  <2>. QED  BY <2>6, <2>7, <2>8, <2>9 DEF WakeInv
<1>6. CASE awaited \cap sent # {}
  <2>1. /\ UNCHANGED <<phase, running, blocked, waits>> /\ receivers' \subseteq receivers
        /\ wakers' = {w \in wakers : w[1] \notin awaited}
      BY <1>6 DEF Await
  <2> HIDE DEF t, awaited
  <2>2. ChannelTypes'
      BY <1>4, <2>1 DEF WakeInv, ChannelTypes
  <2>3. Registered'
    <3> SUFFICES ASSUME NEW u \in Tasks, NEW a \in waits[u]
                 PROVE  Owned(a, u) /\ (a \notin sent => <<a, u>> \in wakers')
        BY <1>4, <2>1 DEF Registered, Owned
    <3>1. Owned(a, u) /\ (a \notin sent => <<a, u>> \in wakers) /\ u # t
        BY <1>1 DEF WakeInv, Registered
    <3>2. <<a, u>>[1] = a /\ <<a, u>>[2] = u
        OBVIOUS
    <3>3. <<a, u>> \in wakers => a \notin awaited
        BY <1>3, <3>1, <3>2
    <3>. QED  BY <2>1, <3>1, <3>2, <3>3
  <2>4. WakersSound'
      BY <1>4, <2>1 DEF WakeInv, WakersSound, Owned
  <2>5. NoLostWake'
      BY <1>4, <2>1 DEF WakeInv, NoLostWake
  <2>. QED  BY <2>2, <2>3, <2>4, <2>5 DEF WakeInv
<1>. QED  BY <1>5, <1>6

(* The polled task wakes itself.                                           *)
LEMMA YieldKeepsWakes ==
    ASSUME WakeInv, YieldNow
    PROVE  WakeInv'
<1>1. running \in Tasks
    BY DEF YieldNow, WakeInv, ChannelTypes
<1>2. PICK t \in Tasks, c \in Channel : t = running /\ c = <<"yield", t>>
    BY <1>1, TasksAreNat DEF Channel
<1>3. c[1] = "yield" /\ c[2] = t
    BY <1>2
<1>4. /\ waits' = [waits EXCEPT ![t] = {c}] /\ blocked' = blocked \cup {t}
      /\ phase' = "loop" /\ wakes' = Append(wakes, t) /\ sent' = sent \cup {c}
      /\ UNCHANGED <<receivers, wakers, next_sequence>>
    BY <1>2 DEF YieldNow, Pending
<1>5. waits'[t] = {c} /\ \A u \in Tasks \ {t} : waits'[u] = waits[u]
    BY <1>4 DEF WakeInv, ChannelTypes
<1>6. /\ wakes' \in Seq(Tasks)
      /\ Elements(wakes) \subseteq Elements(wakes') /\ t \in Elements(wakes')
    BY <1>4, ElementsOfAppend DEF WakeInv, ChannelTypes
<1>7. ChannelTypes'
    BY <1>4, <1>6 DEF WakeInv, ChannelTypes
<1>8. Registered'
  <2> SUFFICES ASSUME NEW u \in Tasks, NEW a \in waits'[u]
               PROVE  Owned(a, u) /\ (a \notin sent' => <<a, u>> \in wakers')
      BY DEF Registered, Owned
  <2>1. CASE u = t
      BY <2>1, <1>3, <1>4, <1>5 DEF Owned
  <2>2. CASE u # t
      BY <2>2, <1>4, <1>5 DEF WakeInv, Registered
  <2>. QED  BY <2>1, <2>2
<1>9. WakersSound'
    BY <1>3, <1>4 DEF WakeInv, WakersSound, Owned
<1>10. NoLostWake'
  <2> SUFFICES ASSUME NEW u \in blocked', waits'[u] \cap sent' # {} PROVE u \in Elements(wakes')
      BY DEF NoLostWake
  <2>1. CASE u = t
      BY <1>6, <2>1
  <2>2. CASE u # t
    <3>1. u \in blocked /\ u \in Tasks /\ waits'[u] = waits[u]
        BY <1>4, <1>5, <2>2 DEF WakeInv, ChannelTypes
    <3>2. c \notin waits[u]
        BY <1>3, <2>2, <3>1 DEF WakeInv, Registered, Owned
    <3>. QED  BY <1>4, <1>6, <3>1, <3>2 DEF WakeInv, NoLostWake
  <2>. QED  BY <2>1, <2>2
<1>. QED  BY <1>7, <1>8, <1>9, <1>10 DEF WakeInv

(* The barrier wakes those it lets pass.                                   *)
LEMMA BarrierKeepsWakes ==
    ASSUME WakeInv, BarrierInv, BarrierWait
    PROVE  WakeInv'
<1>1. running \in Tasks
    BY DEF BarrierWait, WakeInv, ChannelTypes
<1>2. PICK t \in Tasks, c \in Channel : t = running /\ c = <<"gate", t>>
    BY <1>1, TasksAreNat DEF Channel
<1>3. c[1] = "gate" /\ c[2] = t
    BY <1>2
<1>4. CASE arrived + 1 = BarrierSize
  <2> DEFINE gates == {<<"gate", s>> : s \in Elements(senders)}
  <2>1. /\ sent' = sent \cup gates /\ wakers' = {w \in wakers : w[1] \notin gates}
        /\ wakes' = wakes \o senders
        /\ UNCHANGED <<phase, running, blocked, waits, receivers, next_sequence>>
      BY <1>4 DEF BarrierWait
  <2>2. \A g \in gates : g[1] = "gate" /\ g[2] \in Elements(senders)
      OBVIOUS
  <2> HIDE DEF gates
  <2>3. /\ wakes' \in Seq(Tasks)
        /\ Elements(wakes) \subseteq Elements(wakes') /\ Elements(senders) \subseteq Elements(wakes')
      BY <2>1, ElementsOfConcat DEF WakeInv, ChannelTypes, BarrierInv
  <2>4. ChannelTypes'
      BY <2>1, <2>3 DEF WakeInv, ChannelTypes
  <2>5. Registered'
      BY <2>1 DEF WakeInv, Registered, Owned
  <2>6. WakersSound'
      BY <2>1 DEF WakeInv, WakersSound, Owned
  <2>7. NoLostWake'
    <3> SUFFICES ASSUME NEW u \in blocked, waits[u] \cap sent' # {} PROVE u \in Elements(wakes')
        BY <2>1 DEF NoLostWake
    <3>1. CASE waits[u] \cap sent # {}
        BY <2>3, <3>1 DEF WakeInv, NoLostWake
    <3>2. CASE waits[u] \cap gates # {}
      <4>1. PICK g \in waits[u] : g \in gates
          BY <3>2
      <4>2. g[2] = u
          BY <2>2, <4>1 DEF WakeInv, ChannelTypes, Registered, Owned
      <4>. QED  BY <2>2, <2>3, <4>1, <4>2
    <3>. QED  BY <2>1, <3>1, <3>2
  <2>. QED  BY <2>4, <2>5, <2>6, <2>7 DEF WakeInv
<1>5. CASE arrived + 1 # BarrierSize
  <2>1. /\ sent' = sent \ {c} /\ wakers' = wakers \cup {<<c, t>>}
        /\ waits' = [waits EXCEPT ![t] = {c}] /\ blocked' = blocked \cup {t} /\ phase' = "loop"
        /\ UNCHANGED <<wakes, receivers, next_sequence>>
      BY <1>2, <1>5 DEF BarrierWait, Pending
  <2>2. waits'[t] = {c} /\ \A u \in Tasks \ {t} : waits'[u] = waits[u] /\ c \notin waits[u]
      BY <1>3, <2>1 DEF WakeInv, ChannelTypes, Registered, Owned
  <2>3. ChannelTypes'
      BY <2>1 DEF WakeInv, ChannelTypes
  <2>4. Registered'
    <3> SUFFICES ASSUME NEW u \in Tasks, NEW a \in waits'[u]
                 PROVE  Owned(a, u) /\ (a \notin sent' => <<a, u>> \in wakers')
        BY DEF Registered, Owned
    <3>1. CASE u = t
        BY <3>1, <1>3, <2>1, <2>2 DEF Owned
    <3>2. CASE u # t
        BY <3>2, <2>1, <2>2 DEF WakeInv, Registered
    <3>. QED  BY <3>1, <3>2
  <2>5. WakersSound'
    <3>1. <<c, t>>[1] = c /\ <<c, t>>[2] = t
        OBVIOUS
    <3>2. \A w \in wakers : w[1] = c => w[2] = t
        BY <1>3 DEF WakeInv, WakersSound, Owned
    <3>3. \A w \in wakers' : w \in wakers \/ (w[1] = c /\ w[2] = t)
        BY <2>1, <3>1
    <3>4. \A w \in wakers' : w[1] \notin sent' /\ Owned(w[1], w[2]) /\ w[1][1] # "yield"
        BY <1>3, <2>1, <3>3 DEF WakeInv, WakersSound, Owned
    <3>5. \A v, w \in wakers' : v[1] = w[1] => v[2] = w[2]
        BY <3>2, <3>3 DEF WakeInv, WakersSound
    <3>. QED  BY <3>4, <3>5 DEF WakersSound, Owned
  <2>6. NoLostWake'
      BY <2>1, <2>2 DEF WakeInv, NoLostWake, ChannelTypes
  <2>. QED  BY <2>3, <2>4, <2>5, <2>6 DEF WakeInv
<1>. QED  BY <1>4, <1>5

(* A task ends and wakes who waits for it.                                 *)
LEMMA FinishKeepsWakes ==
    ASSUME WakeInv, Finish
    PROVE  WakeInv'
<1>1. PICK t \in Tasks, c \in Channel : t = running /\ c = <<"done", t>>
    BY TasksAreNat DEF Finish, WakeInv, ChannelTypes, Channel
<1>2. /\ sent' = sent \cup {c} /\ wakes' = wakes \o WokenBy(c)
      /\ receivers' \subseteq receivers /\ wakers' = {w \in wakers : w[1] # c /\ w[2] # t}
      /\ phase' = "loop" /\ waits[t] = {}
      /\ UNCHANGED <<blocked, waits, next_sequence>>
    BY <1>1 DEF Finish, WakeInv, ChannelTypes
<1>3. /\ wakes' \in Seq(Tasks) /\ Elements(wakes) \subseteq Elements(wakes')
      /\ Elements(WokenBy(c)) \subseteq Elements(wakes')
    BY <1>2, WokenByType, ElementsOfConcat DEF WakeInv, ChannelTypes
<1>4. ChannelTypes'
    BY <1>2, <1>3 DEF WakeInv, ChannelTypes
<1>5. Registered'
  <2> SUFFICES ASSUME NEW u \in Tasks, NEW a \in waits[u]
               PROVE  Owned(a, u) /\ (a \notin sent' => <<a, u>> \in wakers')
      BY <1>2 DEF Registered, Owned
  <2>1. Owned(a, u) /\ (a \notin sent => <<a, u>> \in wakers) /\ u # t
      BY <1>2 DEF WakeInv, Registered
  <2>2. <<a, u>>[1] = a /\ <<a, u>>[2] = u
      OBVIOUS
  <2>. QED  BY <1>2, <2>1, <2>2
<1>6. WakersSound'
    BY <1>2 DEF WakeInv, WakersSound, Owned
<1>7. NoLostWake'
  <2> SUFFICES ASSUME NEW u \in blocked, waits[u] \cap sent' # {} PROVE u \in Elements(wakes')
      BY <1>2 DEF NoLostWake
  <2>1. CASE waits[u] \cap sent # {}
      BY <1>3, <2>1 DEF WakeInv, NoLostWake
  <2>2. CASE waits[u] \cap sent = {}
    <3>1. u \in Tasks /\ c \in waits[u] /\ c \notin sent
        BY <1>2, <2>2 DEF WakeInv, ChannelTypes
    <3>2. <<c, u>> \in wakers
        BY <3>1 DEF WakeInv, Registered
    <3>. QED  BY <1>3, <3>1, <3>2, SendWakes DEF WakeInv
  <2>. QED  BY <2>1, <2>2
<1>. QED  BY <1>4, <1>5, <1>6, <1>7 DEF WakeInv

LEMMA NextKeepsWakes ==
    ASSUME WakeInv, BarrierInv, [Next]_vars
    PROVE  WakeInv'
<1>1. CASE UNCHANGED vars
    BY <1>1, QuietKeepsWakes DEF vars, queues, channels
<1>2. CASE Spawn \/ \E d \in Durations : Sleep(d)
  <2>1. /\ UNCHANGED <<waits, sent, wakers, blocked, wakes, phase, running>>
        /\ receivers' = receivers \cup {<<"done", next_sequence>>}
        /\ next_sequence' = next_sequence + 1
      BY <1>2 DEF Spawn, Sleep, SpawnNamed, SpawnAfter, NewHandle
  <2>. QED  BY <2>1, QuietKeepsWakes
<1>3. CASE RunStarts \/ RunPanics
  <2>1. /\ UNCHANGED <<waits, sent, wakers, blocked, wakes, receivers, next_sequence>>
        /\ phase' # "poll"
      BY <1>3 DEF RunStarts, RunPanics, queues, channels
  <2>. QED  BY <2>1, QuietKeepsWakes
<1>4. CASE RunReturns
    BY <1>4, ReturnKeepsWakes
<1>5. CASE RunSleep
    BY <1>5, SleepKeepsWakes
<1>6. CASE \E t \in Tasks, j \in Jitter : RunEvent(t, j)
    BY <1>6, EventKeepsWakes
<1>7. CASE \E c, d \in receivers : Await(c, d)
    BY <1>7, AwaitKeepsWakes
<1>8. CASE YieldNow
    BY <1>8, YieldKeepsWakes
<1>9. CASE BarrierWait
    BY <1>9, BarrierKeepsWakes
<1>10. CASE Finish
    BY <1>10, FinishKeepsWakes
<1>. QED  BY <1>1, <1>2, <1>3, <1>4, <1>5, <1>6, <1>7, <1>8, <1>9, <1>10 DEF Next

(* No task stays blocked with its wake-up sent, the barrier releases whole *)
(* groups, and a sleep is held back by a bounded number of events (the     *)
(* run loop, its wakers, SimulatorBarrier::wait).                          *)
THEOREM EveryTaskGetsOn == Spec => []TasksGetOn
<1>1. Init => BarrierInv
    BY SimulatorAssumption DEF Init, BarrierInv
<1>2. BarrierInv /\ [Next]_vars => BarrierInv'
    BY NextKeepsBarrier
<1>3. WakeInv /\ BarrierInv /\ [Next]_vars => WakeInv'
    BY NextKeepsWakes
<1>4. WakeInv /\ BarrierInv /\ StarvationBounded => TasksGetOn
    BY DEF WakeInv, BarrierInv, BarrierReleasesGroups, TasksGetOn
<1>. QED  BY InitWakeInv, StarvationIsBounded, <1>1, <1>2, <1>3, <1>4, PTL DEF Spec

=============================================================================
