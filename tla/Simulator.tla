----------------------------- MODULE Simulator ------------------------------
(***************************************************************************)
(* The deterministic executor the tests run on: one thread polls tasks,    *)
(* either a ready one after some jitter or the earliest sleep, moves the   *)
(* clock to it, and parks a task that is pending until it is woken.        *)
(*                                                                         *)
(* A poll is a stretch of the steps of `running`.  What a task waits for   *)
(* are oneshot channels: <<"done", s>> is sent when task s finishes (a     *)
(* spawned task's handle, or the timer of a sleep), <<"gate", t>> when a   *)
(* barrier lets t pass, <<"yield", t>> when t yields to the others.  A     *)
(* task may wait for several (select) and drop, or keep, those that lost.  *)
(*                                                                         *)
(* `fired`, `turns` and `arrivals` record history for the properties.      *)
(***************************************************************************)
EXTENDS Integers, Sequences, FiniteSets

CONSTANTS
    Jitter,          \* jitter_distribution's support, in clock units
    Durations,       \* durations of sleeps
    BarrierSize,     \* n of SimulatorBarrier
    MaxIterations,   \* MAX_ITERATIONS
    MaxTasks,        \* bound on tasks and sleeps
    MaxArrivals,     \* bound on barrier waits
    MaxRuns          \* bound on calls of run

ASSUME SimulatorAssumption ==
    /\ Jitter \subseteq Nat /\ Durations \subseteq Nat
    /\ BarrierSize \in Nat \ {0} /\ MaxIterations \in Nat
    /\ MaxTasks \in Nat /\ MaxArrivals \in Nat /\ MaxRuns \in Nat

VARIABLES
    phase, running, iterations, runs,
    events, sleeps, blocked, wakes, next_sequence, elapsed,
    waits, sent, receivers, wakers,
    senders, arrived,
    fired, turns, arrivals

queues == <<events, sleeps, blocked, wakes, next_sequence>>
channels == <<waits, sent, receivers, wakers>>
barrier == <<senders, arrived, arrivals>>
history == <<fired, turns>>
vars == <<phase, running, iterations, runs, queues, elapsed, channels, barrier, history>>

Tasks == 0 .. (MaxTasks - 1)
NoTask == -1
Elements(s) == {s[i] : i \in 1 .. Len(s)}

Init ==
    /\ phase = "idle" /\ running = NoTask /\ iterations = 0 /\ runs = 0
    /\ events = {} /\ sleeps = {} /\ blocked = {} /\ wakes = <<>>
    /\ next_sequence = 0 /\ elapsed = 0
    /\ waits = [t \in Tasks |-> {}]
    /\ sent = {} /\ receivers = {} /\ wakers = {}
    /\ senders = <<>> /\ arrived = 0 /\ arrivals = 0
    /\ fired = {} /\ turns = 0

-----------------------------------------------------------------------------
(* Spawning: from outside of a run, or by the task that is polled.         *)

MaySpawn == phase \in {"idle", "poll"} /\ next_sequence < MaxTasks

(* The executor's spawn and spawn_after.                                   *)
SpawnNamed ==
    /\ next_sequence' = next_sequence + 1
    /\ events' = events \cup {next_sequence}
    /\ UNCHANGED sleeps

SpawnAfter(duration) ==
    /\ next_sequence' = next_sequence + 1
    /\ sleeps' = sleeps \cup {[seq |-> next_sequence, target |-> elapsed + duration,
                               born |-> elapsed, turn |-> turns]}
    /\ UNCHANGED events

(* The task's completion is sent to whoever holds the receiver.            *)
NewHandle == receivers' = receivers \cup {<<"done", next_sequence>>}

Spawn ==
    /\ MaySpawn /\ SpawnNamed /\ NewHandle
    /\ UNCHANGED <<phase, running, iterations, runs, blocked, wakes, elapsed,
                   waits, sent, wakers, barrier, history>>

(* Environment::sleep: a task that sends when its time has come.           *)
Sleep(duration) ==
    /\ MaySpawn /\ SpawnAfter(duration) /\ NewHandle
    /\ UNCHANGED <<phase, running, iterations, runs, blocked, wakes, elapsed,
                   waits, sent, wakers, barrier, history>>

-----------------------------------------------------------------------------
(* One iteration of run.                                                   *)

RunStarts ==
    /\ phase = "idle" /\ runs < MaxRuns
    /\ phase' = "loop" /\ iterations' = 0 /\ runs' = runs + 1
    /\ UNCHANGED <<running, queues, elapsed, channels, barrier, history>>

(* Panic of the loop that exceeds MAX_ITERATIONS.                          *)
RunPanics ==
    /\ phase = "loop" /\ iterations >= MaxIterations
    /\ phase' = "panicked"
    /\ UNCHANGED <<running, iterations, runs, queues, elapsed, channels, barrier, history>>

Turn == phase = "loop" /\ iterations < MaxIterations

(* The wake queue is drained; a woken task that is not blocked is ready    *)
(* already, or has finished.                                               *)
Woken == blocked \cap Elements(wakes)
Ready == events \cup Woken

(* Mutant: sleeps that are due together fire in no particular order.       *)
BeforeByTime(a, b) == a.target <= b.target

(* Ord for Task.                                                           *)
Before(a, b) == a.target < b.target \/ (a.target = b.target /\ a.seq <= b.seq)

(* peek of the heap.                                                       *)
NextSleep(s) == s \in sleeps /\ \A r \in sleeps : Before(s, r)

(* The clock never goes backwards.                                         *)
AdvanceTo(time) == IF time > elapsed THEN time ELSE elapsed

(* Mutant: events are taken at the current time.                           *)
EventNow(jitter) == elapsed

NextEventTime(jitter) == elapsed + jitter

RunReturns ==
    /\ Turn /\ Ready = {} /\ sleeps = {}
    /\ phase' = "idle" /\ wakes' = <<>>
    /\ UNCHANGED <<running, iterations, runs, events, sleeps, blocked, next_sequence,
                   elapsed, channels, barrier, history>>

(* Mutant: the sender does not wake the task that polls its receiver.      *)
WokenByNobody(c) == <<>>

(* A oneshot send wakes the one task that has polled the receiver.         *)
WokenBy(c) ==
    IF \E t \in Tasks : <<c, t>> \in wakers
    THEN << CHOOSE t \in Tasks : <<c, t>> \in wakers >>
    ELSE <<>>

(* An event wins over a sleep that is due at the same time.                *)
SleepIsNext(s) == Ready = {} \/ \E j \in Jitter : s.target < NextEventTime(j)

RunSleep ==
    /\ Turn
    /\ \E s \in sleeps :
         /\ NextSleep(s) /\ SleepIsNext(s)
         /\ sleeps' = sleeps \ {s} /\ fired' = fired \cup {s}
         /\ elapsed' = AdvanceTo(s.target)
         /\ sent' = sent \cup {<<"done", s.seq>>}
         /\ wakers' = {w \in wakers : w[1] # <<"done", s.seq>>}
         /\ wakes' = WokenBy(<<"done", s.seq>>)
    /\ events' = Ready /\ blocked' = blocked \ Woken
    /\ iterations' = iterations + 1
    /\ UNCHANGED <<phase, running, runs, next_sequence, waits, receivers, barrier, turns>>

EventIsNext(jitter) == \A s \in sleeps : NextSleep(s) => s.target >= NextEventTime(jitter)

(* A ready task is polled: its future resumes, or is still pending when a  *)
(* channel it no longer waits for woke it.                                 *)
RunEvent(t, jitter) ==
    /\ Turn /\ t \in Ready
    /\ EventIsNext(jitter)
    /\ elapsed' = AdvanceTo(NextEventTime(jitter)) /\ turns' = turns + 1
    /\ wakes' = <<>> /\ events' = Ready \ {t}
    /\ IF waits[t] # {} /\ waits[t] \cap sent = {}
       THEN /\ blocked' = (blocked \ Woken) \cup {t}
            /\ iterations' = iterations + 1
            /\ UNCHANGED <<phase, running, channels>>
       ELSE /\ blocked' = blocked \ Woken
            /\ phase' = "poll" /\ running' = t
            /\ waits' = [waits EXCEPT ![t] = {}]
            /\ \E dropped \in {waits[t], waits[t] \cap sent} :
                 /\ receivers' = receivers \ dropped
                 /\ wakers' = {w \in wakers : w[1] \notin dropped}
            /\ UNCHANGED <<iterations, sent>>
    /\ UNCHANGED <<runs, sleeps, next_sequence, barrier, fired>>

-----------------------------------------------------------------------------
(* The task that is polled.                                                *)

(* poll returns Pending with wakers registered on what the task awaits.    *)
Pending(t, awaited) ==
    /\ waits' = [waits EXCEPT ![t] = awaited]
    /\ blocked' = blocked \cup {t}
    /\ phase' = "loop" /\ running' = NoTask /\ iterations' = iterations + 1

(* Receivers the task may poll: nobody else is polling them.               *)
Awaitable(t) == {c \in receivers : \A w \in wakers : w[1] = c => w[2] = t}

(* Await of a handle or a sleep, or of whichever of two comes first.       *)
Await(c, d) ==
    LET t == running
        awaited == {c, d}
        dropped == IF awaited \cap sent = {} THEN {} ELSE awaited
    IN  /\ phase = "poll" /\ awaited \subseteq Awaitable(t)
        /\ receivers' = receivers \ dropped
        /\ IF dropped = {}
           THEN /\ Pending(t, awaited)
                /\ wakers' = wakers \cup {<<a, t>> : a \in awaited}
           ELSE /\ wakers' = {w \in wakers : w[1] \notin dropped}
                /\ UNCHANGED <<phase, running, iterations, blocked, waits>>
        /\ UNCHANGED <<runs, events, sleeps, wakes, next_sequence, elapsed, sent,
                       barrier, history>>

(* The task wakes itself and returns Pending.                              *)
YieldNow ==
    LET c == <<"yield", running>>
    IN  /\ phase = "poll"
        /\ Pending(running, {c})
        /\ wakes' = Append(wakes, running) /\ sent' = sent \cup {c}
        /\ UNCHANGED <<runs, events, sleeps, next_sequence, elapsed, receivers, wakers,
                       barrier, history>>

(* Mutant: the barrier keeps its count when it opens.                      *)
CountKept(n) == n

(* The number of arrivals the barrier counts after the n-th.               *)
CountAfter(n) == IF n = BarrierSize THEN 0 ELSE n

(* SimulatorBarrier::wait: the last to arrive releases the others in their *)
(* order and goes on.                                                      *)
BarrierWait ==
    LET t == running
        gates == {<<"gate", s>> : s \in Elements(senders)}
    IN  /\ phase = "poll" /\ arrivals < MaxArrivals
        /\ arrivals' = arrivals + 1
        /\ arrived' = CountAfter(arrived + 1)
        /\ IF arrived + 1 = BarrierSize
           THEN /\ sent' = sent \cup gates
                /\ wakers' = {w \in wakers : w[1] \notin gates}
                /\ wakes' = wakes \o senders /\ senders' = <<>>
                /\ UNCHANGED <<phase, running, iterations, blocked, waits>>
           ELSE /\ senders' = Append(senders, t)
                /\ sent' = sent \ {<<"gate", t>>}
                /\ wakers' = wakers \cup {<<<<"gate", t>>, t>>}
                /\ Pending(t, {<<"gate", t>>})
                /\ UNCHANGED wakes
        /\ UNCHANGED <<runs, events, sleeps, next_sequence, elapsed, receivers, history>>

(* The future is ready: its wrapper sends the result to the handle.        *)
Finish ==
    LET c == <<"done", running>>
    IN  /\ phase = "poll"
        /\ sent' = sent \cup {c}
        /\ wakes' = wakes \o WokenBy(c)
        /\ receivers' = {r \in receivers : <<r, running>> \notin wakers}
        /\ wakers' = {w \in wakers : w[1] # c /\ w[2] # running}
        /\ phase' = "loop" /\ running' = NoTask /\ iterations' = iterations + 1
        /\ UNCHANGED <<runs, events, sleeps, blocked, next_sequence, elapsed, waits,
                       barrier, history>>

Next ==
    \/ Spawn
    \/ \E d \in Durations : Sleep(d)
    \/ RunStarts \/ RunPanics \/ RunReturns \/ RunSleep
    \/ \E t \in Tasks, j \in Jitter : RunEvent(t, j)
    \/ \E c, d \in receivers : Await(c, d)
    \/ YieldNow \/ BarrierWait \/ Finish

Spec == Init /\ [][Next]_vars

-----------------------------------------------------------------------------
(* A sleep: its number, its deadline, and the clock and the number of      *)
(* events when it was started.                                             *)
SleepRecords == [seq : Nat, target : Nat, born : Nat, turn : Nat]

(* No wake-up is lost: a blocked task whose channel has been sent is in    *)
(* the wake queue, so run never returns while a task could go on.          *)
NoLostWake ==
    \A t \in blocked : waits[t] \cap sent # {} => t \in Elements(wakes)

(* Sleeps fire in the order of their deadlines, those with the same        *)
(* deadline in the order they were started: a fired sleep comes before     *)
(* every pending one, however late that was started.                       *)
SleepsFireInOrder ==
    \A a \in fired, b \in sleeps : a.target < b.target \/ (a.target = b.target /\ a.seq < b.seq)

(* A sleep fires at the very time it was asked for: simulated time never   *)
(* passes a pending deadline, whatever the events' jitter.                 *)
SleepsFireOnTime ==
    [][\A s \in fired' \ fired : elapsed' = s.target]_vars

(* Tasks that keep running cannot hold a sleep back: with a positive       *)
(* jitter at most as many events are taken while it is pending as there    *)
(* are clock units in its duration.                                        *)
StarvationBounded ==
    0 \notin Jitter => \A s \in sleeps : turns - s.turn <= s.target - s.born

(* The barrier releases whole groups: those it holds are the arrivals that *)
(* do not fill a group, over any number of reuses.                         *)
BarrierReleasesGroups ==
    Len(senders) = arrivals % BarrierSize

(* Every task gets on: none blocks for good with its wake-up sent, a       *)
(* barrier lets its tasks go in whole groups however often it is used, and *)
(* ready tasks hold a sleep back only for a bounded number of events.      *)
TasksGetOn == NoLostWake /\ BarrierReleasesGroups /\ StarvationBounded

=============================================================================
