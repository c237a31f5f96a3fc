---------------------------- MODULE ServiceProofs ---------------------------
(***************************************************************************)
(* Theorems about Channels, for every front end, number of calls and       *)
(* number of lost messages, panics and callers that go away, about         *)
(* Observed, for every set of wrappers and every finite set of calls, and  *)
(* about CommitQueue, for every number of calls, buses and cached mutexes. *)
(***************************************************************************)
EXTENDS CommitPath, FiniteSetTheorems, TLAPS

Dropped == [kind |-> "dropped"]

Answers ==
    {NoAnswer, Dropped} \cup [kind : {"position", "tail"}, value : Nat]
      \cup [kind : {"error"}, class : Errors]

CallType ==
    [pc : {"idle", "queued", "running", "done"}, method : Methods \cup {"none"},
     from : Nat, reported : Answers, answer : Answers]

(* What a caller is told of what the service reported.                     *)
ToldOf(r) ==
    IF r.kind = "error" THEN [r EXCEPT !.class = IF Frontend = "app" THEN "internal" ELSE @]
    ELSE r

(* A call has no answer before it is done, unless its caller has gone, and *)
(* an entry of the log belongs to a call that is done.                     *)
CallFits(c) ==
    /\ call[c].pc = "idle" => call[c].answer = NoAnswer
    /\ call[c].pc \in {"queued", "running"} => call[c].answer \in {NoAnswer, Dropped}
    /\ call[c].pc # "done" => /\ call[c].reported = NoAnswer
                              /\ \A i \in DOMAIN log : log[i] # c
    /\ call[c].answer.kind = "position" =>
         /\ call[c].answer.value \in DOMAIN log
         /\ log[call[c].answer.value] = c
    /\ call[c].reported # NoAnswer =>
         call[c].answer = Dropped \/ call[c].answer = ToldOf(call[c].reported)

(* A queued call is in its queue once.                                     *)
QueueFits ==
    /\ \A m \in Methods : \A i \in DOMAIN queue[m] : call[queue[m][i]].pc = "queued"
    /\ \A m, n \in Methods : \A i \in DOMAIN queue[m], j \in DOMAIN queue[n] :
         queue[m][i] = queue[n][j] => m = n /\ i = j

ChannelTypes ==
    /\ call \in [Calls -> CallType]
    /\ queue \in [Methods -> Seq(Calls)]
    /\ log \in Seq(Calls)

ChannelInv ==
    ChannelTypes /\ EffectAtMostOnce /\ QueueFits /\ \A c \in Calls : CallFits(c)

LEMMA AnswerKinds ==
    /\ NoAnswer.kind = "none" /\ Dropped.kind = "dropped" /\ NoAnswer # Dropped
    /\ Terminated \in Answers /\ Terminated.kind = "error" /\ Terminated # NoAnswer
    /\ NoAnswer \in Answers /\ Dropped \in Answers
<1>1. Terminated.class \in Errors
    BY DEF Terminated, Errors
<1>2. Terminated \in [kind : {"error"}, class : Errors]
    BY <1>1 DEF Terminated
<1>3. NoAnswer.kind = "none" /\ Dropped.kind = "dropped" /\ Terminated.kind = "error"
    BY DEF NoAnswer, Dropped, Terminated
<1> QED BY <1>2, <1>3 DEF Answers

LEMMA MethodNames ==
    /\ "append" \in Methods /\ Methods \subseteq {"append", "read", "wait"}
    /\ \A m \in Methods : Group(m) \in Methods
BY DEF Methods, Group

LEMMA ChannelInit == Init => ChannelInv
<1> SUFFICES ASSUME Init PROVE ChannelInv
    OBVIOUS
<1>1. [pc |-> "idle", method |-> "none", from |-> 0, reported |-> NoAnswer, answer |-> NoAnswer]
        \in CallType
    BY AnswerKinds DEF CallType
<1>2. ChannelTypes
    BY <1>1 DEF Init, ChannelTypes
<1>3. EffectAtMostOnce /\ QueueFits
    BY DEF Init, EffectAtMostOnce, QueueFits
<1>4. \A c \in Calls : CallFits(c)
    BY AnswerKinds DEF Init, CallFits
<1> QED BY <1>2, <1>3, <1>4 DEF ChannelInv

(* The status codes lose no class of error.                                *)
LEMMA HopKeepsClass == \A class \in Errors : Carried(class) = class
<1>1. \A class \in {"invalid_argument", "timeout", "unavailable", "internal", "position_not_found"} :
        FromStatus(StatusCode(class)) = class /\ StatusCode(class) \notin {"DataLoss", "Aborted"}
    BY DEF FromStatus, StatusCode
<1>2. \A class \in {"invalid_argument", "timeout", "unavailable", "internal"} :
        CommitError(CommitStatus(class)) = FromStatus(StatusCode(class))
    BY <1>1 DEF CommitStatus, CommitError
<1>3. \A class \in {"bus_data_loss", "concurrency"} : CommitError(CommitStatus(class)) = class
    BY DEF CommitStatus, CommitError
<1>4. Frontend = "commit" => \A class \in Errors : CommitError(CommitStatus(class)) = class
    BY <1>1, <1>2, <1>3 DEF Errors
<1>5. Frontend # "commit" => \A class \in Errors : FromStatus(StatusCode(class)) = class
    BY <1>1 DEF Errors
<1> QED BY <1>4, <1>5 DEF Carried

(* A hop changes no answer but an error, and that as its handler does.     *)
LEMMA HopTells == \A r \in Answers : OverHops(r) = ToldOf(r) /\ ToldOf(r) \in Answers
<1> SUFFICES ASSUME NEW r \in Answers PROVE OverHops(r) = ToldOf(r) /\ ToldOf(r) \in Answers
    OBVIOUS
<1>1. CASE r.kind # "error"
    BY <1>1 DEF OverHops, ToldOf
<1>2. CASE r.kind = "error"
    <2>1. r \in [kind : {"error"}, class : Errors]
        BY <1>2, AnswerKinds DEF Answers
    <2>2. PICK k : k = IF Frontend = "app" THEN "internal" ELSE r.class
        OBVIOUS
    <2>3. Carried(r.class) = r.class /\ k \in Errors /\ HandedOn(Carried(r.class)) = k
        BY <2>1, <2>2, HopKeepsClass DEF HandedOn, Errors
    <2>4. OverHops(r) = [r EXCEPT !.class = k]
        BY <1>2, <2>3 DEF OverHops
    <2>5. ToldOf(r) = [r EXCEPT !.class = k]
        BY <1>2, <2>2 DEF ToldOf
    <2>6. [r EXCEPT !.class = k] \in [kind : {"error"}, class : Errors]
        BY <2>1, <2>3
    <2> QED BY <2>4, <2>5, <2>6 DEF Answers
<1> QED BY <1>1, <1>2

(* What is told is of the kind of what was reported.                       *)
LEMMA ToldKinds ==
    ASSUME NEW r \in Answers
    PROVE  /\ r.kind # "error" => ToldOf(r) = r
           /\ r.kind = "error" => ToldOf(r).kind = "error"
<1>1. CASE r.kind = "error"
    <2>1. r \in [kind : {"error"}, class : Errors]
        BY <1>1, AnswerKinds DEF Answers
    <2>2. PICK k : k = IF Frontend = "app" THEN "internal" ELSE r.class
        OBVIOUS
    <2>3. ToldOf(r) = [r EXCEPT !.class = k]
        BY <1>1, <2>2 DEF ToldOf
    <2> QED BY <1>1, <2>1, <2>3
<1> QED BY <1>1 DEF ToldOf

(* A dead worker's callers are told of it whatever the front end.          *)
LEMMA TerminatedTold == ToldOf(Terminated) = Terminated
<1>1. PICK k : k = Terminated.class
    OBVIOUS
<1>2. Terminated = [kind |-> "error", class |-> k] /\ (Frontend = "app" => k = "internal")
    BY <1>1 DEF Terminated
<1> QED BY <1>2 DEF ToldOf

-----------------------------------------------------------------------------
(* The log after a call's effect.                                          *)
LEMMA LogGrows ==
    ASSUME log \in Seq(Calls), NEW c \in Calls, log' = Append(log, c)
    PROVE  /\ log' \in Seq(Calls) /\ DOMAIN log' = DOMAIN log \cup {Len(log) + 1}
           /\ Len(log) + 1 \notin DOMAIN log
           /\ \A i \in DOMAIN log : log'[i] = log[i]
           /\ log'[Len(log) + 1] = c /\ Len(log) + 1 \in Nat
OBVIOUS

(* One call changes, its effect apart; it leaves its queue, or was in none. *)
LEMMA OneCallChanges ==
    ASSUME ChannelInv, NEW c \in Calls, NEW q \in CallType, call' = [call EXCEPT ![c] = q],
           queue' \in [Methods -> Seq(Calls)], QueueFits',
           \/ log' = log
           \/ log' = Append(log, c) /\ call[c].pc = "running" /\ q.pc = "done",
           CallFits(c)'
    PROVE  ChannelInv'
<1>1. /\ call \in [Calls -> CallType] /\ log \in Seq(Calls)
      /\ call' \in [Calls -> CallType]
      /\ call'[c] = q /\ \A d \in Calls : d # c => call'[d] = call[d]
    BY DEF ChannelInv, ChannelTypes
<1>2. CASE log' = log
    <2>1. ASSUME NEW d \in Calls PROVE CallFits(d)'
        BY <1>1, <1>2 DEF ChannelInv, CallFits
    <2> QED BY <1>1, <1>2, <2>1 DEF ChannelInv, ChannelTypes, EffectAtMostOnce
<1>3. CASE log' = Append(log, c) /\ call[c].pc = "running" /\ q.pc = "done"
    <2>1. /\ log' \in Seq(Calls) /\ DOMAIN log' = DOMAIN log \cup {Len(log) + 1}
          /\ \A i \in DOMAIN log : log'[i] = log[i]
          /\ log'[Len(log) + 1] = c
        BY <1>1, <1>3, LogGrows
    <2>2. \A i \in DOMAIN log : log[i] # c
        BY <1>3 DEF ChannelInv, CallFits
    <2>3. EffectAtMostOnce'
        BY <2>1, <2>2 DEF ChannelInv, EffectAtMostOnce
    <2>4. ASSUME NEW d \in Calls PROVE CallFits(d)'
        <3>1. CASE d = c
            BY <3>1
        <3>2. CASE d # c
            <4>1. call'[d] = call[d] /\ CallFits(d)
                BY <1>1, <3>2 DEF ChannelInv
            <4>2. call[d].pc # "done" => \A i \in DOMAIN log' : log'[i] # d
                BY <2>1, <3>2, <4>1 DEF CallFits
            <4> QED BY <2>1, <4>1, <4>2 DEF CallFits
        <3> QED BY <3>1, <3>2
    <2> QED BY <1>1, <2>1, <2>3, <2>4 DEF ChannelInv, ChannelTypes
<1> QED BY <1>2, <1>3

(* A running call is done: it is told what the service reported, if it is  *)
(* still there to be told.                                                 *)
LEMMA Replies ==
    ASSUME ChannelInv, NEW c \in Calls, call[c].pc = "running",
           NEW r \in Answers, r.kind \in {"position", "tail", "error"}, ReplyTo(c, r),
           queue' = queue,
           log' = log \/ log' = Append(log, c),
           r.kind = "position" => log' = Append(log, c) /\ r.value = Len(log) + 1
    PROVE  ChannelInv'
<1>1. /\ call \in [Calls -> CallType] /\ log \in Seq(Calls) /\ call[c] \in CallType
      /\ queue \in [Methods -> Seq(Calls)]
    BY DEF ChannelInv, ChannelTypes
<1>2. call[c].answer \in {NoAnswer, Dropped}
    BY DEF ChannelInv, CallFits
<1>3. PICK a \in {ToldOf(r), Dropped} : a = Told(c, r)
    BY <1>2, HopTells DEF Told
<1>4. PICK q \in CallType :
        /\ call' = [call EXCEPT ![c] = q] /\ q.pc = "done" /\ q.reported = r /\ q.answer = a
    <2>1. PICK q : q = [call[c] EXCEPT !.pc = "done", !.reported = r, !.answer = a]
        OBVIOUS
    <2>2. q \in CallType /\ q.pc = "done" /\ q.reported = r /\ q.answer = a
        BY <1>1, <1>3, <2>1, AnswerKinds, HopTells DEF CallType
    <2>3. call' = [call EXCEPT ![c] = q]
        BY <1>3, <2>1 DEF ReplyTo
    <2> QED BY <2>2, <2>3
<1>5. call'[c] = q /\ \A d \in Calls : d # c => call'[d] = call[d]
    BY <1>1, <1>4
<1>6. QueueFits'
    <2>1. ASSUME NEW m \in Methods, NEW i \in DOMAIN queue[m] PROVE call'[queue[m][i]].pc = "queued"
        <3>1. queue[m][i] \in Calls /\ call[queue[m][i]].pc = "queued"
            BY <1>1 DEF ChannelInv, QueueFits
        <3> QED BY <1>5, <3>1
    <2> QED BY <2>1 DEF ChannelInv, QueueFits
<1>7. CallFits(c)'
    <2>1. r # NoAnswer /\ (a = Dropped \/ a = ToldOf(r)) /\ (a.kind = "position" => a = r)
        BY <1>3, AnswerKinds, ToldKinds
    <2>2. a.kind = "position" => a.value \in DOMAIN log' /\ log'[a.value] = c
        BY <1>1, <2>1, LogGrows
    <2> QED BY <1>4, <1>5, <2>1, <2>2 DEF CallFits
<1> QED BY <1>1, <1>4, <1>6, <1>7, OneCallChanges

-----------------------------------------------------------------------------
(* One lemma per action.                                                   *)

LEMMA SendKeeps == ASSUME ChannelInv, NEW c \in Calls, NEW m \in Methods, Send(c, m) PROVE ChannelInv'
<1>1. /\ call \in [Calls -> CallType] /\ call[c] \in CallType /\ call[c].pc = "idle"
      /\ queue \in [Methods -> Seq(Calls)] /\ log' = log /\ Group(m) \in Methods
    BY MethodNames DEF ChannelInv, ChannelTypes, Send
<1>2. /\ call[c].answer = NoAnswer /\ call[c].reported = NoAnswer
      /\ \A i \in DOMAIN log : log[i] # c
    BY <1>1 DEF ChannelInv, CallFits
<1>3. \A n \in Methods : \A i \in DOMAIN queue[n] : queue[n][i] \in Calls /\ queue[n][i] # c
    BY <1>1 DEF ChannelInv, QueueFits
<1>4. CASE worker = "dead"
    <2>1. PICK q \in CallType :
            /\ call' = [call EXCEPT ![c] = q] /\ q.pc = "done" /\ q.reported = NoAnswer
            /\ q.answer = Terminated
        <3>1. PICK q : q = [call[c] EXCEPT !.pc = "done", !.method = m, !.answer = Terminated]
            OBVIOUS
        <3>2. q \in CallType /\ q.pc = "done" /\ q.reported = NoAnswer /\ q.answer = Terminated
            BY <1>1, <1>2, <3>1, AnswerKinds DEF CallType
        <3> QED BY <1>4, <3>1, <3>2 DEF Send
    <2>2. call'[c] = q /\ (\A d \in Calls : d # c => call'[d] = call[d]) /\ queue' = queue
        BY <1>1, <1>4, <2>1 DEF Send
    <2>3. QueueFits'
        BY <1>3, <2>2 DEF ChannelInv, QueueFits
    <2>4. CallFits(c)'
        BY <2>1, <2>2, AnswerKinds DEF CallFits
    <2> QED BY <1>1, <2>1, <2>2, <2>3, <2>4, OneCallChanges
<1>5. CASE worker # "dead"
    <2>1. PICK q \in CallType :
            /\ call' = [call EXCEPT ![c] = q] /\ q.pc = "queued" /\ q.reported = NoAnswer
            /\ q.answer = NoAnswer
        <3>1. PICK q : q = [call[c] EXCEPT !.pc = "queued", !.method = m]
            OBVIOUS
        <3>2. q \in CallType /\ q.pc = "queued" /\ q.reported = NoAnswer /\ q.answer = NoAnswer
            BY <1>1, <1>2, <3>1 DEF CallType
        <3> QED BY <1>5, <3>1, <3>2 DEF Send
    <2>2. call'[c] = q /\ \A d \in Calls : d # c => call'[d] = call[d]
        BY <1>1, <2>1
    <2>3. PICK g \in Methods : queue' = [queue EXCEPT ![g] = Append(queue[g], c)]
        BY <1>1, <1>5 DEF Send
    <2>4. /\ queue' \in [Methods -> Seq(Calls)] /\ queue[g] \in Seq(Calls)
          /\ queue'[g] = Append(queue[g], c)
          /\ \A n \in Methods : n # g => queue'[n] = queue[n]
        BY <1>1, <2>3
    <2>5. /\ DOMAIN queue'[g] = DOMAIN queue[g] \cup {Len(queue[g]) + 1}
          /\ \A i \in DOMAIN queue[g] : queue'[g][i] = queue[g][i]
          /\ queue'[g][Len(queue[g]) + 1] = c
        BY <2>4
    <2>6. \A n \in Methods : \A i \in DOMAIN queue'[n] :
            \/ i \in DOMAIN queue[n] /\ queue'[n][i] = queue[n][i]
            \/ n = g /\ i = Len(queue[g]) + 1 /\ queue'[n][i] = c
        BY <2>4, <2>5
    <2>7. QueueFits'
        <3>1. \A n \in Methods : \A i \in DOMAIN queue'[n] : call'[queue'[n][i]].pc = "queued"
            BY <1>3, <2>1, <2>2, <2>6 DEF ChannelInv, QueueFits
        <3>2. \A k, n \in Methods : \A i \in DOMAIN queue'[k], j \in DOMAIN queue'[n] :
                queue'[k][i] = queue'[n][j] => k = n /\ i = j
            BY <1>3, <2>6 DEF ChannelInv, QueueFits
        <3> QED BY <3>1, <3>2 DEF QueueFits
    <2>8. CallFits(c)'
        BY <1>1, <1>2, <2>1, <2>2, AnswerKinds DEF CallFits
    <2> QED BY <1>1, <2>1, <2>4, <2>7, <2>8, OneCallChanges
<1> QED BY <1>4, <1>5

(* The queues stay, and so does the place of every call.                   *)
LEMMA QueueStays ==
    ASSUME ChannelInv, queue' = queue, \A c \in Calls : call'[c].pc = call[c].pc
    PROVE  QueueFits'
<1>1. \A m \in Methods : \A i \in DOMAIN queue[m] : queue[m][i] \in Calls
    BY DEF ChannelInv, ChannelTypes
<1> QED BY <1>1 DEF ChannelInv, QueueFits

LEMMA DropKeeps == ASSUME ChannelInv, NEW c \in Calls, Drop(c) PROVE ChannelInv'
<1>1. /\ call \in [Calls -> CallType] /\ call[c] \in CallType
      /\ call[c].pc \in {"queued", "running"} /\ call[c].answer = NoAnswer
      /\ queue \in [Methods -> Seq(Calls)] /\ queue' = queue /\ log' = log
    BY DEF ChannelInv, ChannelTypes, Drop
<1>2. PICK q \in CallType :
        /\ call' = [call EXCEPT ![c] = q] /\ q.pc = call[c].pc /\ q.reported = call[c].reported
        /\ q.answer = Dropped
    <2>1. PICK q : q = [call[c] EXCEPT !.answer = Dropped]
        OBVIOUS
    <2>2. q \in CallType /\ q.pc = call[c].pc /\ q.reported = call[c].reported /\ q.answer = Dropped
        BY <1>1, <2>1, AnswerKinds DEF CallType
    <2>3. call' = [call EXCEPT ![c] = q]
        BY <1>1, <2>1 DEF Drop, Dropped
    <2> QED BY <2>2, <2>3
<1>3. call'[c] = q /\ \A d \in Calls : d # c => call'[d] = call[d]
    BY <1>1, <1>2
<1>4. QueueFits'
    BY <1>1, <1>2, <1>3, QueueStays
<1>5. CallFits(c)'
    BY <1>1, <1>2, <1>3, AnswerKinds DEF ChannelInv, CallFits
<1> QED BY <1>1, <1>2, <1>4, <1>5, OneCallChanges

LEMMA DispatchKeeps == ASSUME ChannelInv, Dispatch PROVE ChannelInv'
<1>1. PICK g \in Methods : g = Chosen /\ queue[g] # <<>>
    BY MethodNames DEF Dispatch, Chosen, Ready
<1>2. /\ call \in [Calls -> CallType] /\ queue \in [Methods -> Seq(Calls)]
      /\ log \in Seq(Calls) /\ log' = log /\ queue[g] \in Seq(Calls)
    BY DEF ChannelInv, ChannelTypes, Dispatch
<1>3. PICK c \in Calls :
        /\ c = Head(queue[g]) /\ queue' = [queue EXCEPT ![g] = Tail(queue[g])]
        /\ call' = [call EXCEPT ![c].pc = "running", ![c].from = Len(log)]
    <2>1. Head(queue[g]) \in Calls
        BY <1>1, <1>2
    <2> QED BY <1>1, <2>1, Zenon DEF Dispatch
<1>4. /\ 1 \in DOMAIN queue[g] /\ c = queue[g][1]
      /\ queue'[g] = Tail(queue[g]) /\ \A n \in Methods : n # g => queue'[n] = queue[n]
      /\ queue' \in [Methods -> Seq(Calls)]
      /\ \A i \in DOMAIN Tail(queue[g]) :
           i + 1 \in DOMAIN queue[g] /\ Tail(queue[g])[i] = queue[g][i + 1] /\ i \in Nat /\ i # 0
    BY <1>1, <1>2, <1>3
<1>5. call[c].pc = "queued" /\ call[c] \in CallType
    BY <1>2, <1>4 DEF ChannelInv, QueueFits
<1>6. PICK q \in CallType :
        /\ call' = [call EXCEPT ![c] = q] /\ q.pc = "running" /\ q.reported = call[c].reported
        /\ q.answer = call[c].answer
    <2>1. PICK q : q = [call[c] EXCEPT !.pc = "running", !.from = Len(log)]
        OBVIOUS
    <2>2. /\ q \in CallType /\ q.pc = "running" /\ q.reported = call[c].reported
          /\ q.answer = call[c].answer
        <3>1. Len(log) \in Nat
            BY <1>2
        <3> QED BY <1>5, <2>1, <3>1 DEF CallType
    <2>3. call' = [call EXCEPT ![c] = q]
        BY <1>2, <1>3, <1>5, <2>1 DEF CallType
    <2> QED BY <2>2, <2>3
<1>7. call'[c] = q /\ \A d \in Calls : d # c => call'[d] = call[d]
    BY <1>2, <1>6
<1>8. \A m \in Methods : \A i \in DOMAIN queue'[m] :
        \E j \in DOMAIN queue[m] : /\ queue'[m][i] = queue[m][j] /\ queue[m][j] # c
                                   /\ j = IF m = g THEN i + 1 ELSE i
    <2> SUFFICES ASSUME NEW m \in Methods, NEW i \in DOMAIN queue'[m]
                 PROVE  \E j \in DOMAIN queue[m] : /\ queue'[m][i] = queue[m][j] /\ queue[m][j] # c
                                                   /\ j = IF m = g THEN i + 1 ELSE i
        OBVIOUS
    <2>1. CASE m = g
        <3>1. i + 1 \in DOMAIN queue[g] /\ queue'[g][i] = queue[g][i + 1] /\ i + 1 # 1
            BY <1>4, <2>1
        <3>2. queue[g][i + 1] # c
            BY <1>4, <3>1 DEF ChannelInv, QueueFits
        <3> QED BY <2>1, <3>1, <3>2
    <2>2. CASE m # g
        <3>1. queue'[m] = queue[m]
            BY <1>4, <2>2
        <3>2. queue[m][i] # c
            BY <1>4, <2>2, <3>1 DEF ChannelInv, QueueFits
        <3> QED BY <2>2, <3>1, <3>2
    <2> QED BY <2>1, <2>2
<1>9. QueueFits'
    <2>1. ASSUME NEW m \in Methods, NEW i \in DOMAIN queue'[m] PROVE call'[queue'[m][i]].pc = "queued"
        <3>1. PICK j \in DOMAIN queue[m] : queue'[m][i] = queue[m][j] /\ queue[m][j] # c
            BY <1>8
        <3> QED BY <1>2, <1>7, <3>1 DEF ChannelInv, QueueFits
    <2>2. ASSUME NEW m \in Methods, NEW n \in Methods, NEW i \in DOMAIN queue'[m],
                 NEW j \in DOMAIN queue'[n], queue'[m][i] = queue'[n][j]
          PROVE  m = n /\ i = j
        <3>1. i \in Int /\ j \in Int
            BY <1>4
        <3>2. PICK x \in DOMAIN queue[m] : queue'[m][i] = queue[m][x] /\ x = IF m = g THEN i + 1 ELSE i
            BY <1>8
        <3>3. PICK y \in DOMAIN queue[n] : queue'[n][j] = queue[n][y] /\ y = IF n = g THEN j + 1 ELSE j
            BY <1>8
        <3>4. m = n /\ x = y
            <4>1. queue[m][x] = queue[n][y]
                BY <2>2, <3>2, <3>3
            <4> QED BY <4>1, Zenon DEF ChannelInv, QueueFits
        <3> QED BY <3>1, <3>2, <3>3, <3>4
    <2> QED BY <2>1, <2>2 DEF QueueFits
<1>10. CallFits(c)'
    BY <1>2, <1>5, <1>6, <1>7, AnswerKinds DEF ChannelInv, CallFits
<1> QED BY <1>2, <1>4, <1>6, <1>9, <1>10, OneCallChanges

LEMMA RunKeeps == ASSUME ChannelInv, NEW c \in Calls, Run(c) PROVE ChannelInv'
<1>1. Len(log) \in Nat /\ Len(log) + 1 \in Nat
    BY DEF ChannelInv, ChannelTypes
<1>2. CASE RunAppend(c)
    <2>1. PICK r \in Answers :
            r = [kind |-> "position", value |-> Len(log) + 1]
        BY <1>1 DEF Answers
    <2> QED BY <1>2, <2>1, Replies DEF RunAppend, Running
<1>3. CASE RunRead(c) \/ RunWait(c)
    <2>1. PICK r \in Answers : r = [kind |-> "tail", value |-> Len(log)]
        BY <1>1 DEF Answers
    <2> QED BY <1>3, <2>1, Replies DEF RunRead, RunWait, Running
<1> QED BY <1>2, <1>3 DEF Run

LEMMA ErrorKeeps == ASSUME ChannelInv, NEW c \in Calls, RunError(c) \/ Lost(c) PROVE ChannelInv'
<1>1. PICK class \in Errors : ReplyTo(c, [kind |-> "error", class |-> class])
    BY DEF RunError, Lost, Errors
<1>2. PICK r \in Answers : r = [kind |-> "error", class |-> class]
    BY DEF Answers
<1>3. call[c].pc = "running" /\ queue' = queue /\ (log' = log \/ log' = Append(log, c))
    BY DEF RunError, Lost
<1> QED BY <1>1, <1>2, <1>3, Replies

(* The calls that go with a panic are told so, the rest stays.             *)
LEMMA PanicKeeps == ASSUME ChannelInv, NEW c \in Calls, Panic(c) PROVE ChannelInv'
<1>1. /\ call \in [Calls -> CallType] /\ call[c].pc = "running"
      /\ queue \in [Methods -> Seq(Calls)] /\ log \in Seq(Calls) /\ log' = log
    BY DEF ChannelInv, ChannelTypes, Panic
<1>2. PICK orphans :
        /\ orphans = IF worker = c THEN {d \in Calls : OrphanedBy(d)} ELSE {c}
        /\ call' = [d \in Calls |->
                     IF d \in orphans
                     THEN [call[d] EXCEPT !.pc = "done", !.reported = Terminated,
                                  !.answer = IF @ = NoAnswer THEN Terminated ELSE @]
                     ELSE call[d]]
    BY DEF Panic
<1>3. \A d \in orphans : d \in Calls /\ call[d].pc \in {"queued", "running"}
    BY <1>1, <1>2 DEF OrphanedBy
<1>4. ASSUME NEW d \in orphans
      PROVE  /\ call'[d] \in CallType /\ call'[d].pc = "done"
             /\ call'[d].reported = Terminated /\ call'[d].answer \in {Terminated, Dropped}
    <2>1. call[d] \in CallType /\ call[d].answer \in {NoAnswer, Dropped}
        BY <1>1, <1>3 DEF ChannelInv, CallFits
    <2>2. PICK a \in {Terminated, Dropped} :
            a = IF call[d].answer = NoAnswer THEN Terminated ELSE call[d].answer
        BY <2>1
    <2>3. call'[d] = [call[d] EXCEPT !.pc = "done", !.reported = Terminated, !.answer = a]
        BY <1>2, <1>3, <2>1, <2>2 DEF CallType
    <2> QED BY <2>1, <2>3, AnswerKinds DEF CallType
<1>5. \A d \in Calls : d \notin orphans => call'[d] = call[d]
    BY <1>2
<1>6. call' \in [Calls -> CallType]
    <2>1. \A d \in Calls : call'[d] \in CallType
        BY <1>1, <1>4, <1>5
    <2>2. call' = [d \in Calls |-> call'[d]]
        BY <1>2
    <2> QED BY <2>1, <2>2
<1>7. QueueFits' /\ queue' \in [Methods -> Seq(Calls)]
    <2>1. CASE worker = c
        <3>1. queue' = [m \in Methods |-> <<>>]
            BY <2>1 DEF Panic
        <3>2. \A m \in Methods : queue'[m] = <<>> /\ DOMAIN queue'[m] = {}
            BY <3>1
        <3> QED BY <3>1, <3>2 DEF QueueFits
    <2>2. CASE worker # c
        <3>1. queue' = queue /\ orphans = {c}
            BY <1>2, <2>2 DEF Panic
        <3>2. \A m \in Methods : \A i \in DOMAIN queue[m] :
                queue[m][i] \in Calls /\ call[queue[m][i]].pc = "queued" /\ queue[m][i] # c
            BY <1>1 DEF ChannelInv, QueueFits
        <3> QED BY <1>1, <1>5, <3>1, <3>2 DEF ChannelInv, QueueFits
    <2> QED BY <2>1, <2>2
<1>8. ASSUME NEW d \in Calls PROVE CallFits(d)'
    <2>1. CASE d \in orphans
        BY <1>4, <2>1, AnswerKinds, TerminatedTold DEF CallFits
    <2>2. CASE d \notin orphans
        BY <1>1, <1>5, <2>2 DEF ChannelInv, CallFits
    <2> QED BY <2>1, <2>2
<1> QED BY <1>1, <1>6, <1>7, <1>8 DEF ChannelInv, ChannelTypes, EffectAtMostOnce

LEMMA ChannelStep == ChannelInv /\ [Next]_vars => ChannelInv'
<1> SUFFICES ASSUME ChannelInv, [Next]_vars PROVE ChannelInv'
    OBVIOUS
<1>1. CASE UNCHANGED vars
    BY <1>1 DEF vars, ChannelInv, ChannelTypes, EffectAtMostOnce, QueueFits, CallFits
<1> QED BY <1>1, SendKeeps, DropKeeps, DispatchKeeps, RunKeeps, ErrorKeeps, PanicKeeps DEF Next

(* Whatever is lost, dropped or panics between a caller and the service,   *)
(* and in whatever order calls finish: a call takes effect at most once,   *)
(* an append is answered with the position of its own entry, and a caller  *)
(* is told of an error when there was one, by its class or, behind the     *)
(* application server, as an internal error.                               *)
THEOREM CallsAreHonest == Spec => []AnsweredForOneEffect
<1>1. ChannelInv => ErrorClassKept
    BY AnswerKinds DEF ChannelInv, CallFits, ErrorClassKept, ToldOf
<1>2. ChannelInv => AnsweredForOneEffect
    BY <1>1 DEF ChannelInv, CallFits, AnsweredForOneEffect, AnswersAreOwn
<1> QED BY <1>2, ChannelInit, ChannelStep, PTL DEF Spec

-----------------------------------------------------------------------------
(* Observed.                                                               *)

(* What a wrapper reports for a call of method m.                          *)
Reported(m) == {Wrapper!Below(m, inner) : inner \in Wrapper!Results(m)}

KnownMethods ==
    {"append", "poll", "read_next", "check_tail", "blocking_poll", "tail", "write", "read",
     "get", "put", "apply", "commit_intention", "create_bus"}

LEMMA MethodsKnown ==
    ASSUME Wrapper!ObservedAssumption
    PROVE  Wrapper!AllMethods \subseteq KnownMethods
<1>1. \A l \in Layers : Wrapper!Methods(l) \subseteq KnownMethods
    BY DEF Wrapper!ObservedAssumption, Wrapper!Methods, Wrapper!BusMethods, KnownMethods
<1> QED BY <1>1 DEF Wrapper!AllMethods

LEMMA OkFields ==
    ASSUME NEW kind
    PROVE  /\ Wrapper!Ok(kind).ok = TRUE /\ Wrapper!Ok(kind).layer = "none"
           /\ Wrapper!Ok(kind).kind = kind
BY DEF Wrapper!Ok

LEMMA ErrFields ==
    ASSUME NEW layer, NEW kind
    PROVE  /\ Wrapper!Err(layer, kind).ok = FALSE /\ Wrapper!Err(layer, kind).layer = layer
           /\ Wrapper!Err(layer, kind).kind = kind
BY DEF Wrapper!Err

(* Results are successes of a kind, or errors that are told by their layer *)
(* and kind.                                                               *)
IsOk(r)  == r.ok = TRUE /\ r.layer = "none"
IsErr(r) == r.ok = FALSE /\ r = Wrapper!Err(r.layer, r.kind)

LEMMA ErrsFields ==
    ASSUME NEW layer, NEW kinds, NEW r \in Wrapper!Errs(layer, kinds)
    PROVE  IsErr(r) /\ r.layer = layer /\ r.kind \in kinds
<1>1. PICK k \in kinds : r = Wrapper!Err(layer, k)
    BY DEF Wrapper!Errs
<1> QED BY <1>1 DEF IsErr, Wrapper!Err

LEMMA EngineErrorFields ==
    ASSUME NEW e \in Wrapper!EngineErrors
    PROVE  /\ IsErr(e)
           /\ \/ e.layer \in {"bus", "playback bus"} /\ e.kind \in Wrapper!BusErrors
              \/ e.layer \in {"storage", "playback storage"} /\ e.kind \in Wrapper!StorageErrors
              \/ e.layer = "playback" /\ e.kind \in Wrapper!ApplyPlain
              \/ /\ e.layer = "engine"
                 /\ e.kind \in {"BusDataLoss", "InvalidEngineState", "PolicyProvider", "Internal"}
<1>2. \/ e \in Wrapper!Errs("bus", Wrapper!BusErrors)
      \/ e \in Wrapper!Errs("playback bus", Wrapper!BusErrors)
      \/ e \in Wrapper!Errs("storage", Wrapper!StorageErrors)
      \/ e \in Wrapper!Errs("playback storage", Wrapper!StorageErrors)
      \/ e \in Wrapper!Errs("playback", Wrapper!ApplyPlain)
      \/ e \in Wrapper!Errs("engine", {"BusDataLoss", "InvalidEngineState", "PolicyProvider", "Internal"})
    BY DEF Wrapper!EngineErrors
<1>3. ASSUME NEW layer \in {"bus", "playback bus"}, e \in Wrapper!Errs(layer, Wrapper!BusErrors)
      PROVE  IsErr(e) /\ e.layer \in {"bus", "playback bus"} /\ e.kind \in Wrapper!BusErrors
    BY <1>3, ErrsFields
<1>4. ASSUME NEW layer \in {"storage", "playback storage"},
             e \in Wrapper!Errs(layer, Wrapper!StorageErrors)
      PROVE  /\ IsErr(e) /\ e.layer \in {"storage", "playback storage"}
             /\ e.kind \in Wrapper!StorageErrors
    BY <1>4, ErrsFields
<1>5. ASSUME e \in Wrapper!Errs("playback", Wrapper!ApplyPlain)
      PROVE  IsErr(e) /\ e.layer = "playback" /\ e.kind \in Wrapper!ApplyPlain
    BY <1>5, ErrsFields
<1>6. ASSUME e \in Wrapper!Errs("engine", {"BusDataLoss", "InvalidEngineState", "PolicyProvider", "Internal"})
      PROVE  /\ IsErr(e) /\ e.layer = "engine"
             /\ e.kind \in {"BusDataLoss", "InvalidEngineState", "PolicyProvider", "Internal"}
    BY <1>6, ErrsFields
<1> QED BY <1>2, <1>3, <1>4, <1>5, <1>6

(* What the wrappers meet: the layers whose errors a method returns.       *)
LEMMA ResultFields ==
    ASSUME NEW m \in KnownMethods, NEW r \in Wrapper!Results(m)
    PROVE  /\ IsOk(r) \/ IsErr(r)
           /\ m \in Wrapper!BusMethods /\ ~ IsOk(r) => r.layer = "bus"
           /\ m \in {"tail", "write", "read"} /\ ~ IsOk(r) => r.layer = "space"
           /\ m \in {"get", "put"} /\ ~ IsOk(r) => r.layer = "storage"
           /\ m = "apply" /\ ~ IsOk(r) =>
                \/ r.layer = "playback bus"
                \/ r.layer = "playback storage"
                \/ r.layer = "playback"
           /\ m \in {"commit_intention", "create_bus"} /\ ~ IsOk(r) => r \in Wrapper!EngineErrors
<1>1. CASE m \in Wrapper!BusMethods
    <2>1. r = Wrapper!Ok("done") \/ r \in Wrapper!Errs("bus", Wrapper!BusErrors)
        BY <1>1 DEF Wrapper!Results, Wrapper!BusMethods
    <2> QED BY <1>1, <2>1, OkFields, ErrsFields DEF Wrapper!BusMethods, IsOk
<1>2. CASE m \in {"tail", "write", "read"}
    <2>1. \/ r \in {Wrapper!Ok("done"), Wrapper!Ok("hit"), Wrapper!Ok("miss")}
          \/ r \in Wrapper!Errs("space", Wrapper!TailErrors)
          \/ r \in Wrapper!Errs("space", Wrapper!WriteErrors)
        BY <1>2 DEF Wrapper!Results, Wrapper!BusMethods
    <2> QED BY <1>2, <2>1, OkFields, ErrsFields DEF Wrapper!BusMethods, IsOk
<1>3. CASE m \in {"get", "put"}
    <2>1. \/ r \in {Wrapper!Ok("hit"), Wrapper!Ok("miss"), Wrapper!Ok("applied"), Wrapper!Ok("rejected")}
          \/ r \in Wrapper!Errs("storage", Wrapper!StorageErrors)
        BY <1>3 DEF Wrapper!Results, Wrapper!BusMethods
    <2> QED BY <1>3, <2>1, OkFields, ErrsFields DEF Wrapper!BusMethods, IsOk
<1>4. CASE m = "apply"
    <2>1. \/ r = Wrapper!Ok("done")
          \/ r \in Wrapper!Errs("playback bus", Wrapper!BusErrors)
          \/ r \in Wrapper!Errs("playback storage", Wrapper!StorageErrors)
          \/ r \in Wrapper!Errs("playback", Wrapper!ApplyPlain)
        BY <1>4 DEF Wrapper!Results, Wrapper!BusMethods
    <2> QED BY <1>4, <2>1, OkFields, ErrsFields DEF Wrapper!BusMethods, IsOk
<1>5. CASE m \in {"commit_intention", "create_bus"}
    <2>1. r = Wrapper!Ok("done") \/ r \in Wrapper!EngineErrors
        BY <1>5 DEF Wrapper!Results, Wrapper!BusMethods
    <2> QED BY <1>5, <2>1, OkFields, EngineErrorFields DEF Wrapper!BusMethods, IsOk
<1> QED BY <1>1, <1>2, <1>3, <1>4, <1>5 DEF KnownMethods, Wrapper!BusMethods

RowMethods == KnownMethods \ {"create_bus"}

LEMMA ReportFields ==
    ASSUME NEW m \in RowMethods, NEW r \in Reported(m)
    PROVE  /\ IsOk(r) \/ IsErr(r)
           /\ m \in Wrapper!BusMethods /\ ~ IsOk(r) => r.layer = "bus"
           /\ m \in {"tail", "write", "read"} /\ ~ IsOk(r) => r.layer = "space"
           /\ m \in {"get", "put"} /\ ~ IsOk(r) => r.layer = "storage"
           /\ m = "apply" /\ ~ IsOk(r) =>
                \/ r.layer = "playback bus"
                \/ r.layer = "playback storage"
                \/ r.layer = "playback"
           /\ m = "commit_intention" /\ ~ IsOk(r) => r.layer = "commit"
<1>1. PICK inner \in Wrapper!Results(m) : r = Wrapper!Below(m, inner)
    BY DEF Reported
<1>2. m \in KnownMethods /\ m # "create_bus"
    BY DEF RowMethods
<1>3. CASE m # "commit_intention" \/ IsOk(inner)
    <2>1. r = inner
        BY <1>1, <1>2, <1>3 DEF Wrapper!Below, IsOk
    <2> QED BY <1>2, <1>3, <2>1, ResultFields
<1>4. CASE m = "commit_intention" /\ ~ IsOk(inner)
    <2>1. IsErr(inner)
        BY <1>2, <1>4, ResultFields
    <2>2. r = Wrapper!Err("commit", Wrapper!FromEngine(inner))
        BY <1>1, <1>4, <2>1 DEF Wrapper!Below, IsErr
    <2>3. IsErr(r) /\ r.layer = "commit"
        BY <2>2 DEF IsErr, Wrapper!Err
    <2> QED BY <1>4, <2>3 DEF Wrapper!BusMethods
<1> QED BY <1>3, <1>4

LEMMA SameTuple ==
    /\ \A a, b, c, d : <<a, b>> = <<c, d>> => a = c /\ b = d
    /\ \A a, b : <<a>> = <<b>> => a = b
    /\ \A a, b, c : <<a, b>> # <<c>> /\ <<a, b>> # <<>> /\ <<c>> # <<>>
<1>1. \A a, b, c, d : <<a, b>> = <<c, d>> => a = c /\ b = d
    OBVIOUS
<1>2. \A a, b : <<a>> = <<b>> => a = b
    OBVIOUS
<1>3. \A a, b, c : Len(<<a, b>>) = 2 /\ Len(<<c>>) = 1
    OBVIOUS
<1>4. Len(<<>>) = 0
    OBVIOUS
<1> QED BY <1>1, <1>2, <1>3, <1>4

LEMMA SameApply ==
    ASSUME NEW v, NEW k, NEW t, NEW x, NEW y,
           \/ x = "playback bus" /\ v = <<"Bus", k>>
           \/ x = "playback storage" /\ v = <<"Storage", k>>
           \/ x = "playback" /\ v = <<k>>,
           \/ y = "playback bus" /\ v = <<"Bus", t>>
           \/ y = "playback storage" /\ v = <<"Storage", t>>
           \/ y = "playback" /\ v = <<t>>
    PROVE  k = t /\ x = y
<1>1. "Bus" # "Storage"
    OBVIOUS
<1>2. \A a, b : <<"Bus", a>> # <<"Storage", b>>
    BY <1>1, SameTuple, Zenon
<1>3. CASE x = "playback bus" /\ v = <<"Bus", k>>
    <2>1. y = "playback bus" /\ v = <<"Bus", t>>
        BY <1>2, <1>3, SameTuple, Zenon
    <2> QED BY <1>3, <2>1, SameTuple, Zenon
<1>4. CASE x = "playback storage" /\ v = <<"Storage", k>>
    <2>1. y = "playback storage" /\ v = <<"Storage", t>>
        BY <1>2, <1>4, SameTuple, Zenon
    <2> QED BY <1>4, <2>1, SameTuple, Zenon
<1>5. CASE x = "playback" /\ v = <<k>>
    <2>1. y = "playback" /\ v = <<t>>
        BY <1>5, SameTuple, Zenon
    <2> QED BY <1>5, <2>1, SameTuple, Zenon
<1> QED BY <1>3, <1>4, <1>5

(* No two errors of a method share a code.                                 *)
LEMMA CodesTell ==
    ASSUME NEW m \in RowMethods, NEW r \in Reported(m), NEW s \in Reported(m),
           Wrapper!Code(m, r) = Wrapper!Code(m, s), r.ok = FALSE
    PROVE  r = s
<1>1. IsErr(r) /\ (IsOk(s) \/ IsErr(s)) /\ m \in KnownMethods /\ m # "create_bus"
    BY ReportFields DEF IsOk, RowMethods
<1>7. IsOk(s) => Wrapper!Code(m, s) = <<>>
    BY DEF Wrapper!Code, IsOk
<1>2. CASE m \in Wrapper!BusMethods
    <2>1. \A x \in Reported(m) : IsErr(x) => x.layer = "bus" /\ Wrapper!Code(m, x) = <<"Bus", x.kind>>
        BY <1>2, ReportFields DEF Wrapper!Code, Wrapper!BusCode, IsErr, IsOk, Wrapper!BusMethods
    <2> QED BY <1>1, <1>7, <2>1, SameTuple DEF IsErr
<1>3. CASE m \in {"tail", "write", "read"}
    <2>1. \A x \in Reported(m) : IsErr(x) => x.layer = "space" /\ Wrapper!Code(m, x) = <<x.kind>>
        BY <1>3, ReportFields DEF Wrapper!Code, Wrapper!SpaceCode, IsErr, IsOk, Wrapper!BusMethods
    <2> QED BY <1>1, <1>7, <2>1, SameTuple DEF IsErr
<1>4. CASE m \in {"get", "put"}
    <2>1. \A x \in Reported(m) : IsErr(x) => x.layer = "storage" /\ Wrapper!Code(m, x) = <<x.kind>>
        BY <1>4, ReportFields DEF Wrapper!Code, Wrapper!StorageCode, IsErr, IsOk, Wrapper!BusMethods
    <2> QED BY <1>1, <1>7, <2>1, SameTuple DEF IsErr
<1>5. CASE m = "commit_intention"
    <2>1. \A x \in Reported(m) : IsErr(x) => x.layer = "commit" /\ Wrapper!Code(m, x) = <<"Commit", x.kind>>
        BY <1>5, ReportFields DEF Wrapper!Code, Wrapper!CommitCode, IsErr, IsOk, Wrapper!BusMethods
    <2> QED BY <1>1, <1>7, <2>1, SameTuple DEF IsErr
<1>6. CASE m = "apply"
    <2>1. \A x \in Reported(m) : IsErr(x) =>
            \/ x.layer = "playback bus" /\ Wrapper!Code(m, x) = <<"Bus", x.kind>>
            \/ x.layer = "playback storage" /\ Wrapper!Code(m, x) = <<"Storage", x.kind>>
            \/ x.layer = "playback" /\ Wrapper!Code(m, x) = <<x.kind>>
        BY <1>6, ReportFields DEF Wrapper!Code, Wrapper!ApplyCode, IsErr, IsOk, Wrapper!BusMethods
    <2>2. ~ IsOk(s)
        <3>1. Wrapper!Code(m, r) # <<>>
            BY <1>1, <2>1, SameTuple, Zenon
        <3> QED BY <1>7, <3>1
    <2>3. r.kind = s.kind /\ r.layer = s.layer
        <3>1. IsErr(s)
            BY <1>1, <2>2
        <3>6. \/ s.layer = "playback bus" /\ Wrapper!Code(m, r) = <<"Bus", s.kind>>
              \/ s.layer = "playback storage" /\ Wrapper!Code(m, r) = <<"Storage", s.kind>>
              \/ s.layer = "playback" /\ Wrapper!Code(m, r) = <<s.kind>>
            BY <2>1, <3>1
        <3>7. \/ r.layer = "playback bus" /\ Wrapper!Code(m, r) = <<"Bus", r.kind>>
              \/ r.layer = "playback storage" /\ Wrapper!Code(m, r) = <<"Storage", r.kind>>
              \/ r.layer = "playback" /\ Wrapper!Code(m, r) = <<r.kind>>
            BY <1>1, <2>1
        <3>8. PICK v, k, t, x, y :
                /\ v = Wrapper!Code(m, r) /\ k = r.kind /\ t = s.kind
                /\ x = r.layer /\ y = s.layer
            OBVIOUS
        <3>9. /\ \/ x = "playback bus" /\ v = <<"Bus", k>>
                 \/ x = "playback storage" /\ v = <<"Storage", k>>
                 \/ x = "playback" /\ v = <<k>>
              /\ \/ y = "playback bus" /\ v = <<"Bus", t>>
                 \/ y = "playback storage" /\ v = <<"Storage", t>>
                 \/ y = "playback" /\ v = <<t>>
            BY <3>6, <3>7, <3>8
        <3>10. k = t /\ x = y
            BY <3>9, SameApply
        <3> QED BY <3>8, <3>10
    <2> QED BY <1>1, <2>2, <2>3 DEF IsErr
<1> QED BY <1>1, <1>2, <1>3, <1>4, <1>5, <1>6 DEF KnownMethods, Wrapper!BusMethods

(* An error is counted under one name, a success under neither.            *)
LEMMA CountersOnce ==
    ASSUME NEW m \in RowMethods, NEW r \in Reported(m)
    PROVE  /\ "num_calls" \notin Wrapper!Counters(m, r)
           /\ r.ok = TRUE => "num_errors" \notin Wrapper!Counters(m, r)
                             /\ "num_conflicts" \notin Wrapper!Counters(m, r)
           /\ r.ok = FALSE => "num_errors" \in Wrapper!Counters(m, r)
                              <=> "num_conflicts" \notin Wrapper!Counters(m, r)
<1>1. r.ok \in BOOLEAN /\ m \in KnownMethods /\ m # "create_bus"
    BY ReportFields DEF IsOk, IsErr, RowMethods
<1>2. Wrapper!Counters(m, r) \in
        {Wrapper!ErrorOnly(r), Wrapper!WriteCounters(r),
         Wrapper!ErrorOnly(r) \cup {"num_misses"}, Wrapper!ErrorOnly(r) \cup {"num_cas_rejections"}}
    BY <1>1 DEF KnownMethods, Wrapper!Counters, Wrapper!AppendCounters, Wrapper!PollCounters,
        Wrapper!TailCounters, Wrapper!SpaceTailCounters, Wrapper!BlockingCounters,
        Wrapper!ReadCounters, Wrapper!GetCounters, Wrapper!PutCounters, Wrapper!ApplyCounters,
        Wrapper!CommitCounters
<1>3. \A S \in {Wrapper!ErrorOnly(r), Wrapper!ErrorOnly(r) \cup {"num_misses"},
                Wrapper!ErrorOnly(r) \cup {"num_cas_rejections"}} :
        /\ "num_calls" \notin S /\ "num_conflicts" \notin S
        /\ "num_errors" \in S <=> r.ok = FALSE
    BY <1>1 DEF Wrapper!ErrorOnly
<1>4. /\ "num_calls" \notin Wrapper!WriteCounters(r)
      /\ r.ok = TRUE => Wrapper!WriteCounters(r) = {}
      /\ r.ok = FALSE => Wrapper!WriteCounters(r) \in {{"num_conflicts"}, {"num_errors"}}
    BY <1>1 DEF Wrapper!WriteCounters
<1> QED BY <1>1, <1>2, <1>3, <1>4

(* The categories of what a caller may retry.                              *)
LEMMA CategoriesKept ==
    ASSUME NEW e \in Wrapper!EngineErrors,
           e.kind \in {"Timeout", "Unavailable", "BackendUnavailable", "TransactionConflict",
                       "Concurrency", "PositionNotFound", "BusDataLoss"}
    PROVE  Wrapper!FromEngine(e) = Wrapper!Category(e.kind)
<1>1. CASE e.layer \in {"bus", "playback bus"} /\ e.kind \in Wrapper!BusErrors
    BY <1>1 DEF Wrapper!FromEngine, Wrapper!FromApply, Wrapper!FromBus, Wrapper!Category,
        Wrapper!BusErrors
<1>2. CASE e.layer \in {"storage", "playback storage"} /\ e.kind \in Wrapper!StorageErrors
    BY <1>2 DEF Wrapper!FromEngine, Wrapper!FromApply, Wrapper!FromStorage, Wrapper!Category,
        Wrapper!StorageErrors
<1>3. CASE e.layer = "playback" /\ e.kind \in Wrapper!ApplyPlain
    BY <1>3 DEF Wrapper!FromEngine, Wrapper!FromApply, Wrapper!Category, Wrapper!ApplyPlain
<1>4. CASE e.layer = "engine"
           /\ e.kind \in {"BusDataLoss", "InvalidEngineState", "PolicyProvider", "Internal"}
    BY <1>4 DEF Wrapper!FromEngine, Wrapper!Category
<1> QED BY <1>1, <1>2, <1>3, <1>4, EngineErrorFields

-----------------------------------------------------------------------------
Unlogged == {"inner", "dropped", "refused"}

Outcomes ==
    {Wrapper!Ok("none"), Wrapper!Err("bus", "InvalidArgument")}
      \cup (UNION {Wrapper!Results(m) : m \in KnownMethods})
      \cup (UNION {Reported(m) : m \in KnownMethods})

WrappedCall ==
    [pc : {"idle", "inner", "refused", "returned", "dropped"}, m : KnownMethods \cup {"none"},
     inner : Outcomes, result : Outcomes]

WrapperTypes ==
    /\ wrapped \in [Wrapped -> WrappedCall]
    /\ counter \in [Wrapper!AllMethods -> [Wrapper!Names -> Nat]]
    /\ IsFiniteSet(rows)

(* A call that returned has the result of its method.                      *)
ReturnsFit ==
    \A c \in Wrapped :
      /\ wrapped[c].pc # "idle" => wrapped[c].m \in Wrapper!AllMethods
      /\ wrapped[c].pc = "returned" =>
           /\ wrapped[c].inner \in Wrapper!Results(wrapped[c].m)
           /\ wrapped[c].result = Wrapper!Below(wrapped[c].m, wrapped[c].inner)

(* A row tells how its call returned.                                      *)
RowsFit ==
    \A r \in rows :
      /\ r.c \in Wrapped /\ wrapped[r.c].pc = "returned"
      /\ r.m \in RowMethods /\ r.of \in Reported(r.m)
      /\ r.ok = r.of.ok /\ r.code = Wrapper!Code(r.m, r.of)

Failed(m) == {r \in Wrapper!RowsOf(m) : ~ r.ok}

BookedCalls(m) ==
    counter[m]["num_calls"] = Cardinality(Wrapper!RowsOf(m)) + Cardinality(Wrapper!Of(m, Unlogged))

BookedErrors(m) ==
    Cardinality(Failed(m)) = counter[m]["num_errors"] + counter[m]["num_conflicts"]

WrapperInv ==
    /\ WrapperTypes /\ ReturnsFit /\ RowsFit
    /\ \A m \in Wrapper!AllMethods \ {"create_bus"} : BookedCalls(m)
    /\ \A m \in Wrapper!AllMethods : BookedErrors(m)

(* Observed counts with the operators of its own FiniteSets.               *)
LEMMA SameCounting ==
    /\ \A S : Wrapper!IsFiniteSet(S) = IsFiniteSet(S)
    /\ \A S : Wrapper!Cardinality(S) = Cardinality(S)
BY DEF IsFiniteSet, Wrapper!IsFiniteSet, Cardinality, Wrapper!Cardinality

LEMMA BooksAreBalanced ==
    WrapperInv => Wrapper!CallsAccountedFor /\ Wrapper!CountersMatchRows
BY SameCounting DEF WrapperInv, BookedCalls, BookedErrors, Failed, Unlogged,
   Wrapper!CallsAccountedFor, Wrapper!CountersMatchRows

LEMMA WrapperInit == ASSUME Wrapper!ObservedAssumption, Wrapper!Init PROVE WrapperInv
<1>1. [pc |-> "idle", m |-> "none", inner |-> Wrapper!Ok("none"), result |-> Wrapper!Ok("none")]
        \in WrappedCall
    BY DEF WrappedCall, Outcomes
<1>2. IsFiniteSet({}) /\ Cardinality({}) = 0
    BY FS_EmptySet
<1>3. WrapperTypes
    BY <1>1, <1>2 DEF Wrapper!Init, WrapperTypes
<1>4. ReturnsFit /\ RowsFit
    BY DEF Wrapper!Init, ReturnsFit, RowsFit
<1>5. \A m : /\ Wrapper!RowsOf(m) = {} /\ Failed(m) = {}
             /\ Wrapper!Of(m, Unlogged) = {}
    BY DEF Wrapper!Init, Wrapper!RowsOf, Wrapper!Of, Unlogged, Failed
<1>6. \A m \in Wrapper!AllMethods :
        counter[m]["num_calls"] = 0 /\ counter[m]["num_errors"] = 0 /\ counter[m]["num_conflicts"] = 0
    BY DEF Wrapper!Init, Wrapper!Names
<1>7. \A m \in Wrapper!AllMethods : BookedCalls(m) /\ BookedErrors(m)
    BY <1>2, <1>5, <1>6 DEF BookedCalls, BookedErrors
<1> QED BY <1>3, <1>4, <1>7 DEF WrapperInv

(* The sets that are counted are finite.                                   *)
LEMMA BooksFinite ==
    ASSUME Wrapper!ObservedAssumption, WrapperInv, NEW m
    PROVE  /\ IsFiniteSet(Wrapper!RowsOf(m)) /\ Cardinality(Wrapper!RowsOf(m)) \in Nat
           /\ IsFiniteSet(Wrapper!Of(m, Unlogged)) /\ Cardinality(Wrapper!Of(m, Unlogged)) \in Nat
           /\ IsFiniteSet(Failed(m))
           /\ Cardinality(Failed(m)) \in Nat
<1>1. Wrapper!RowsOf(m) \subseteq rows /\ Failed(m) \subseteq rows
    BY DEF Wrapper!RowsOf, Failed
<1>2. Wrapper!Of(m, Unlogged) \subseteq Wrapped
    BY DEF Wrapper!Of
<1>3. IsFiniteSet(rows) /\ IsFiniteSet(Wrapped)
    BY SameCounting DEF WrapperInv, WrapperTypes, Wrapper!ObservedAssumption
<1> QED BY <1>1, <1>2, <1>3, FS_Subset, FS_CardinalityType

(* What a step adds to the counters.                                       *)
LEMMA BumpFields ==
    ASSUME WrapperInv, NEW m \in Wrapper!AllMethods, NEW names, counter' = Wrapper!Bump(m, names)
    PROVE  /\ counter' \in [Wrapper!AllMethods -> [Wrapper!Names -> Nat]]
           /\ \A n \in Wrapper!Names : /\ n \in names => counter'[m][n] = counter[m][n] + 1
                                       /\ n \notin names => counter'[m][n] = counter[m][n]
           /\ \A k \in Wrapper!AllMethods : k # m => counter'[k] = counter[k]
<1>1. counter \in [Wrapper!AllMethods -> [Wrapper!Names -> Nat]]
    BY DEF WrapperInv, WrapperTypes
<1>2. \A n \in Wrapper!Names : counter[m][n] + (IF n \in names THEN 1 ELSE 0) \in Nat
    BY <1>1
<1>3. PICK b : b = [n \in Wrapper!Names |-> counter[m][n] + IF n \in names THEN 1 ELSE 0]
    OBVIOUS
<1>4. b \in [Wrapper!Names -> Nat]
    BY <1>2, <1>3
<1>5. counter' = [counter EXCEPT ![m] = b]
    BY <1>3 DEF Wrapper!Bump
<1>6. \A n \in Wrapper!Names : b[n] = counter[m][n] + IF n \in names THEN 1 ELSE 0
    BY <1>3
<1>7. \A n \in Wrapper!Names : counter[m][n] \in Nat
    BY <1>1
<1> QED BY <1>1, <1>4, <1>5, <1>6, <1>7

(* The rows stay, and so do the calls that have them.                      *)
LEMMA RowsStay ==
    ASSUME WrapperInv, NEW c \in Wrapped, wrapped[c].pc # "returned", rows' = rows,
           \A d \in Wrapped : d # c => wrapped'[d] = wrapped[d]
    PROVE  /\ RowsFit'
           /\ \A m : Wrapper!RowsOf(m)' = Wrapper!RowsOf(m) /\ Failed(m)' = Failed(m)
<1>1. RowsFit'
    BY DEF WrapperInv, RowsFit
<1> QED BY <1>1 DEF Wrapper!RowsOf, Failed

LEMMA CallBegins ==
    ASSUME Wrapper!ObservedAssumption, WrapperInv, NEW c \in Wrapped, NEW m \in Wrapper!AllMethods,
           NEW q \in WrappedCall, wrapped[c].pc = "idle", wrapped' = [wrapped EXCEPT ![c] = q],
           q.m = m, q.pc \in {"inner", "refused"}, rows' = rows,
           \/ m = "create_bus" /\ counter' = counter
           \/ counter' = Wrapper!Bump(m, {"num_calls"})
    PROVE  WrapperInv'
<1>1. /\ wrapped \in [Wrapped -> WrappedCall] /\ wrapped' \in [Wrapped -> WrappedCall]
      /\ wrapped'[c] = q /\ \A d \in Wrapped : d # c => wrapped'[d] = wrapped[d]
    BY DEF WrapperInv, WrapperTypes
<1>2. /\ RowsFit'
      /\ \A k : Wrapper!RowsOf(k)' = Wrapper!RowsOf(k) /\ Failed(k)' = Failed(k)
    BY <1>1, RowsStay
<1>3. ReturnsFit'
    BY <1>1 DEF WrapperInv, ReturnsFit
<1>4. {"num_calls", "num_errors", "num_conflicts"} \subseteq Wrapper!Names
    BY DEF Wrapper!Names
<1>5. /\ counter' \in [Wrapper!AllMethods -> [Wrapper!Names -> Nat]]
      /\ \A k \in Wrapper!AllMethods :
           /\ counter'[k]["num_errors"] = counter[k]["num_errors"]
           /\ counter'[k]["num_conflicts"] = counter[k]["num_conflicts"]
           /\ k # m => counter'[k]["num_calls"] = counter[k]["num_calls"]
           /\ k # "create_bus" /\ k = m => counter'[k]["num_calls"] = counter[k]["num_calls"] + 1
    <2>1. CASE counter' = counter /\ m = "create_bus"
        BY <2>1 DEF WrapperInv, WrapperTypes
    <2>2. CASE counter' = Wrapper!Bump(m, {"num_calls"})
        BY <1>4, <2>2, BumpFields
    <2> QED BY <2>1, <2>2
<1>6. Wrapper!Of(m, Unlogged)' = Wrapper!Of(m, Unlogged) \cup {c} /\ c \notin Wrapper!Of(m, Unlogged)
    BY <1>1 DEF Wrapper!Of, Unlogged
<1>7. \A k : k # m => Wrapper!Of(k, Unlogged)' = Wrapper!Of(k, Unlogged)
    BY <1>1 DEF Wrapper!Of, Unlogged
<1>8. Cardinality(Wrapper!Of(m, Unlogged)') = Cardinality(Wrapper!Of(m, Unlogged)) + 1
    BY <1>6, BooksFinite, FS_AddElement
<1>9. ASSUME NEW k \in Wrapper!AllMethods \ {"create_bus"} PROVE BookedCalls(k)'
    <2>1. BookedCalls(k) /\ counter[k]["num_calls"] \in Nat
        BY <1>4 DEF WrapperInv, WrapperTypes
    <2>2. Cardinality(Wrapper!RowsOf(k)) \in Nat /\ Cardinality(Wrapper!Of(k, Unlogged)) \in Nat
        BY BooksFinite
    <2>3. CASE k = m
        BY <1>2, <1>5, <1>8, <2>1, <2>2, <2>3 DEF BookedCalls
    <2>4. CASE k # m
        BY <1>2, <1>5, <1>7, <2>1, <2>4 DEF BookedCalls
    <2> QED BY <2>3, <2>4
<1>10. ASSUME NEW k \in Wrapper!AllMethods PROVE BookedErrors(k)'
    BY <1>2, <1>5 DEF WrapperInv, BookedErrors
<1> QED BY <1>1, <1>2, <1>3, <1>5, <1>9, <1>10 DEF WrapperInv, WrapperTypes

LEMMA BeginKeeps ==
    ASSUME Wrapper!ObservedAssumption, WrapperInv, NEW c \in Wrapped, NEW m \in Wrapper!AllMethods,
           Wrapper!Begin(c, m) \/ Wrapper!RejectBusId(c, m)
    PROVE  WrapperInv'
<1>1. /\ wrapped \in [Wrapped -> WrappedCall] /\ wrapped[c] \in WrappedCall
      /\ wrapped[c].pc = "idle" /\ rows' = rows /\ m \in KnownMethods
    BY MethodsKnown DEF WrapperInv, WrapperTypes, Wrapper!Begin, Wrapper!RejectBusId
<1>2. CASE Wrapper!Begin(c, m)
    <2>1. PICK q : q = [wrapped[c] EXCEPT !.pc = "inner", !.m = m]
        OBVIOUS
    <2>2. q \in WrappedCall /\ q.pc = "inner" /\ q.m = m
        BY <1>1, <2>1 DEF WrappedCall
    <2>3. wrapped' = [wrapped EXCEPT ![c] = q]
        BY <1>1, <1>2, <2>1 DEF Wrapper!Begin, WrappedCall
    <2>4. \/ m = "create_bus" /\ counter' = counter
          \/ counter' = Wrapper!Bump(m, {"num_calls"})
        BY <1>2 DEF Wrapper!Begin
    <2> QED BY <1>1, <2>2, <2>3, <2>4, CallBegins
<1>3. CASE Wrapper!RejectBusId(c, m)
    <2>1. PICK q : q = [wrapped[c] EXCEPT !.pc = "refused", !.m = m,
                                          !.result = Wrapper!Err("bus", "InvalidArgument")]
        OBVIOUS
    <2>2. q \in WrappedCall /\ q.pc = "refused" /\ q.m = m
        <3>1. Wrapper!Err("bus", "InvalidArgument") \in Outcomes
            BY DEF Outcomes
        <3> QED BY <1>1, <2>1, <3>1 DEF WrappedCall
    <2>3. wrapped' = [wrapped EXCEPT ![c] = q]
        BY <1>1, <1>3, <2>1 DEF Wrapper!RejectBusId, WrappedCall
    <2> QED BY <1>1, <1>3, <2>2, <2>3, CallBegins DEF Wrapper!RejectBusId
<1> QED BY <1>2, <1>3

LEMMA WrapperDropKeeps ==
    ASSUME Wrapper!ObservedAssumption, WrapperInv, NEW c \in Wrapped, Wrapper!Drop(c)
    PROVE  WrapperInv'
<1>1. /\ wrapped \in [Wrapped -> WrappedCall] /\ wrapped[c] \in WrappedCall
      /\ wrapped[c].pc = "inner" /\ rows' = rows /\ counter' = counter
    BY DEF WrapperInv, WrapperTypes, Wrapper!Drop
<1>2. /\ wrapped' \in [Wrapped -> WrappedCall] /\ wrapped'[c].pc = "dropped"
      /\ wrapped'[c].m = wrapped[c].m
      /\ \A d \in Wrapped : d # c => wrapped'[d] = wrapped[d]
    <2>1. PICK q : q = [wrapped[c] EXCEPT !.pc = "dropped"]
        OBVIOUS
    <2>2. q \in WrappedCall /\ q.pc = "dropped" /\ q.m = wrapped[c].m
        BY <1>1, <2>1 DEF WrappedCall
    <2>3. wrapped' = [wrapped EXCEPT ![c] = q]
        BY <1>1, <2>1 DEF Wrapper!Drop
    <2> QED BY <1>1, <2>2, <2>3
<1>3. /\ RowsFit'
      /\ \A k : Wrapper!RowsOf(k)' = Wrapper!RowsOf(k) /\ Failed(k)' = Failed(k)
    BY <1>1, <1>2, RowsStay
<1>4. \A k : Wrapper!Of(k, Unlogged)' = Wrapper!Of(k, Unlogged)
    BY <1>1, <1>2 DEF Wrapper!Of, Unlogged
<1>5. ReturnsFit'
    BY <1>1, <1>2 DEF WrapperInv, ReturnsFit
<1>6. WrapperTypes'
    BY <1>1, <1>2 DEF WrapperInv, WrapperTypes
<1>7. (\A m \in Wrapper!AllMethods \ {"create_bus"} : BookedCalls(m)')
      /\ \A m \in Wrapper!AllMethods : BookedErrors(m)'
    BY <1>1, <1>3, <1>4 DEF WrapperInv, BookedCalls, BookedErrors
<1> QED BY <1>3, <1>5, <1>6, <1>7 DEF WrapperInv

(* The row of a call that returns is a new one, and its error, if it is    *)
(* one, is counted with it.                                                *)
LEMMA CompleteKeeps ==
    ASSUME Wrapper!ObservedAssumption, WrapperInv, NEW c \in Wrapped, Wrapper!Complete(c)
    PROVE  WrapperInv'
<1>1. /\ wrapped \in [Wrapped -> WrappedCall] /\ wrapped[c] \in WrappedCall
      /\ wrapped[c].pc = "inner"
    BY DEF WrapperInv, WrapperTypes, Wrapper!Complete
<1>2. PICK m \in Wrapper!AllMethods : m = wrapped[c].m /\ m \in KnownMethods
    BY <1>1, MethodsKnown DEF WrapperInv, ReturnsFit
<1>3. PICK inner \in Wrapper!Results(m), r \in Reported(m) :
        /\ r = Wrapper!Below(m, inner)
        /\ wrapped' = [wrapped EXCEPT ![c].pc = "returned", ![c].inner = inner, ![c].result = r]
        /\ IF m = "create_bus" THEN UNCHANGED <<counter, rows>>
           ELSE counter' = Wrapper!Bump(m, Wrapper!Counters(m, r)) /\ rows' = Wrapper!LogRow(c, r)
    <2>1. PICK inner \in Wrapper!Results(m) :
            LET r == Wrapper!Below(m, inner)
            IN  /\ wrapped' = [wrapped EXCEPT ![c].pc = "returned", ![c].inner = inner,
                                              ![c].result = r]
                /\ IF m = "create_bus" THEN UNCHANGED <<counter, rows>>
                   ELSE counter' = Wrapper!Bump(m, Wrapper!Counters(m, r))
                        /\ rows' = Wrapper!LogRow(c, r)
        BY <1>2, Zenon DEF Wrapper!Complete
    <2>2. Wrapper!Below(m, inner) \in Reported(m)
        BY DEF Reported
    <2> QED BY <2>1, <2>2, Zenon
<1>4. /\ wrapped' \in [Wrapped -> WrappedCall] /\ wrapped'[c].pc = "returned"
      /\ wrapped'[c].m = m /\ wrapped'[c].inner = inner /\ wrapped'[c].result = r
      /\ \A d \in Wrapped : d # c => wrapped'[d] = wrapped[d]
    <2>1. PICK q : q = [wrapped[c] EXCEPT !.pc = "returned", !.inner = inner, !.result = r]
        OBVIOUS
    <2>2. inner \in Outcomes /\ r \in Outcomes
        <3>1. \A x \in Wrapper!Results(m) : x \in UNION {Wrapper!Results(k) : k \in KnownMethods}
            BY <1>2
        <3>2. \A x \in Reported(m) : x \in UNION {Reported(k) : k \in KnownMethods}
            BY <1>2
        <3> QED BY <3>1, <3>2 DEF Outcomes
    <2>3. /\ q \in WrappedCall /\ q.pc = "returned" /\ q.m = m /\ q.inner = inner
          /\ q.result = r
        BY <1>1, <1>2, <2>1, <2>2 DEF WrappedCall
    <2>4. wrapped' = [wrapped EXCEPT ![c] = q]
        BY <1>1, <1>3, <2>1 DEF WrappedCall
    <2> QED BY <1>1, <2>3, <2>4
<1>5. ReturnsFit'
    BY <1>2, <1>3, <1>4 DEF WrapperInv, ReturnsFit
<1>6. /\ c \in Wrapper!Of(m, Unlogged)
      /\ Wrapper!Of(m, Unlogged)' = Wrapper!Of(m, Unlogged) \ {c}
      /\ \A k : k # m => Wrapper!Of(k, Unlogged)' = Wrapper!Of(k, Unlogged)
    BY <1>1, <1>2, <1>4 DEF Wrapper!Of, Unlogged
<1>7. CASE m = "create_bus"
    <2>1. counter' = counter /\ rows' = rows
        BY <1>3, <1>7
    <2>2. /\ RowsFit'
          /\ \A k : Wrapper!RowsOf(k)' = Wrapper!RowsOf(k) /\ Failed(k)' = Failed(k)
        BY <1>1, <1>4, <2>1, RowsStay
    <2>3. WrapperTypes'
        BY <1>4, <2>1 DEF WrapperInv, WrapperTypes
    <2>4. (\A k \in Wrapper!AllMethods \ {"create_bus"} : BookedCalls(k)')
          /\ \A k \in Wrapper!AllMethods : BookedErrors(k)'
        BY <1>6, <1>7, <2>1, <2>2 DEF WrapperInv, BookedCalls, BookedErrors
    <2> QED BY <1>5, <2>2, <2>3, <2>4 DEF WrapperInv
<1>8. CASE m # "create_bus"
    <2>1. m \in RowMethods /\ r.ok \in BOOLEAN
        BY <1>2, <1>8, ReportFields DEF RowMethods, IsOk, IsErr
    <2>2. PICK row :
            /\ rows' = rows \cup {row}
            /\ row.c = c /\ row.m = m /\ row.ok = r.ok /\ row.code = Wrapper!Code(m, r) /\ row.of = r
        <3>1. PICK row : row = [c |-> c, m |-> m, ok |-> r.ok, code |-> Wrapper!Code(m, r), of |-> r]
            OBVIOUS
        <3> QED BY <1>2, <1>3, <1>8, <3>1 DEF Wrapper!LogRow
    <2>3. row \notin rows
        BY <1>1, <2>2 DEF WrapperInv, RowsFit
    <2>4. RowsFit'
        <3>1. ASSUME NEW t \in rows PROVE t.c # c /\ t.c \in Wrapped /\ wrapped'[t.c] = wrapped[t.c]
            BY <1>1, <1>4 DEF WrapperInv, RowsFit
        <3>2. ASSUME NEW t \in rows'
              PROVE  /\ t.c \in Wrapped /\ wrapped'[t.c].pc = "returned"
                     /\ t.m \in RowMethods /\ t.of \in Reported(t.m)
                     /\ t.ok = t.of.ok /\ t.code = Wrapper!Code(t.m, t.of)
            <4>1. CASE t \in rows
                BY <3>1, <4>1 DEF WrapperInv, RowsFit
            <4>2. CASE t = row
                BY <1>4, <2>1, <2>2, <4>2
            <4> QED BY <2>2, <4>1, <4>2
        <3> QED BY <3>2 DEF RowsFit, Reported
    <2>5. IsFiniteSet(rows')
        BY <2>2, FS_AddElement DEF WrapperInv, WrapperTypes
    <2>6. {"num_calls", "num_errors", "num_conflicts"} \subseteq Wrapper!Names
        BY DEF Wrapper!Names
    <2>7. /\ counter' \in [Wrapper!AllMethods -> [Wrapper!Names -> Nat]]
          /\ counter'[m]["num_calls"] = counter[m]["num_calls"]
          /\ r.ok = TRUE => /\ counter'[m]["num_errors"] = counter[m]["num_errors"]
                            /\ counter'[m]["num_conflicts"] = counter[m]["num_conflicts"]
          /\ r.ok = FALSE =>
               counter'[m]["num_errors"] + counter'[m]["num_conflicts"]
                 = counter[m]["num_errors"] + counter[m]["num_conflicts"] + 1
          /\ \A k \in Wrapper!AllMethods : k # m => counter'[k] = counter[k]
        <3>1. counter' = Wrapper!Bump(m, Wrapper!Counters(m, r))
            BY <1>3, <1>8
        <3>2. /\ counter' \in [Wrapper!AllMethods -> [Wrapper!Names -> Nat]]
              /\ \A n \in Wrapper!Names :
                   /\ n \in Wrapper!Counters(m, r) => counter'[m][n] = counter[m][n] + 1
                   /\ n \notin Wrapper!Counters(m, r) => counter'[m][n] = counter[m][n]
              /\ \A k \in Wrapper!AllMethods : k # m => counter'[k] = counter[k]
            BY <3>1, BumpFields
        <3>3. counter[m]["num_errors"] \in Nat /\ counter[m]["num_conflicts"] \in Nat
            BY <2>6 DEF WrapperInv, WrapperTypes
        <3>4. r.ok = FALSE =>
               counter'[m]["num_errors"] + counter'[m]["num_conflicts"]
                 = counter[m]["num_errors"] + counter[m]["num_conflicts"] + 1
            <4>1. r.ok = FALSE => ("num_errors" \in Wrapper!Counters(m, r)
                                     <=> "num_conflicts" \notin Wrapper!Counters(m, r))
                BY <2>1, CountersOnce
            <4>2. "num_errors" \in Wrapper!Names /\ "num_conflicts" \in Wrapper!Names
                BY <2>6
            <4>3. PICK e \in Nat, f \in Nat :
                    e = counter[m]["num_errors"] /\ f = counter[m]["num_conflicts"]
                BY <3>3
            <4>5. PICK x, y :
                    x = counter'[m]["num_errors"] /\ y = counter'[m]["num_conflicts"]
                OBVIOUS
            <4>4. r.ok = FALSE => \/ x = e + 1 /\ y = f
                                  \/ x = e /\ y = f + 1
                BY <3>2, <4>1, <4>2, <4>3, <4>5
            <4> QED BY <4>3, <4>4, <4>5
        <3> QED BY <2>1, <2>6, <3>2, <3>4, CountersOnce
    <2>8. /\ Wrapper!RowsOf(m)' = Wrapper!RowsOf(m) \cup {row} /\ row \notin Wrapper!RowsOf(m)
          /\ \A k : k # m => Wrapper!RowsOf(k)' = Wrapper!RowsOf(k)
        BY <2>2, <2>3 DEF Wrapper!RowsOf
    <2>9. /\ r.ok = FALSE => Failed(m)' = Failed(m) \cup {row} /\ row \notin Failed(m)
          /\ r.ok = TRUE => Failed(m)' = Failed(m)
          /\ \A k : k # m => Failed(k)' = Failed(k)
        BY <2>2, <2>8 DEF Failed
    <2>10. /\ Cardinality(Wrapper!RowsOf(m)') = Cardinality(Wrapper!RowsOf(m)) + 1
           /\ Cardinality(Wrapper!RowsOf(m)) \in Nat
        BY <2>8, BooksFinite, FS_AddElement
    <2>11. /\ Cardinality(Wrapper!Of(m, Unlogged)') = Cardinality(Wrapper!Of(m, Unlogged)) - 1
           /\ Cardinality(Wrapper!Of(m, Unlogged)) \in Nat
        BY <1>6, BooksFinite, FS_RemoveElement
    <2>12. r.ok = FALSE => Cardinality(Failed(m)') = Cardinality(Failed(m)) + 1
        BY <2>9, BooksFinite, FS_AddElement
    <2>13. ASSUME NEW k \in Wrapper!AllMethods \ {"create_bus"} PROVE BookedCalls(k)'
        <3>1. BookedCalls(k)
            BY DEF WrapperInv
        <3>2. CASE k = m
            BY <2>7, <2>10, <2>11, <3>1, <3>2 DEF BookedCalls
        <3>3. CASE k # m
            BY <1>6, <2>7, <2>8, <3>1, <3>3 DEF BookedCalls
        <3> QED BY <3>2, <3>3
    <2>14. ASSUME NEW k \in Wrapper!AllMethods PROVE BookedErrors(k)'
        <3>1. BookedErrors(k)
            BY DEF WrapperInv
        <3>2. CASE k = m
            BY <2>1, <2>7, <2>9, <2>12, <3>1, <3>2 DEF BookedErrors
        <3>3. CASE k # m
            BY <2>7, <2>9, <3>1, <3>3 DEF BookedErrors
        <3> QED BY <3>2, <3>3
    <2> QED BY <1>4, <1>5, <2>4, <2>5, <2>7, <2>13, <2>14 DEF WrapperInv, WrapperTypes
<1> QED BY <1>7, <1>8

LEMMA WrapperStep ==
    ASSUME Wrapper!ObservedAssumption, WrapperInv, [Wrapper!Next]_Wrapper!vars
    PROVE  WrapperInv'
<1>1. CASE UNCHANGED Wrapper!vars
    <2>1. wrapped' = wrapped /\ counter' = counter /\ rows' = rows
        BY <1>1 DEF Wrapper!vars
    <2> QED BY <2>1 DEF WrapperInv, WrapperTypes, ReturnsFit, RowsFit, BookedCalls, BookedErrors,
                Failed, Wrapper!RowsOf, Wrapper!Of
<1> QED BY <1>1, BeginKeeps, CompleteKeeps, WrapperDropKeeps DEF Wrapper!Next, Wrapper!AllOver

(* With any number of overlapping calls, some of them dropped: every       *)
(* counted call is accounted for and every error has its row (the counters *)
(* and rows of the observable wrappers).                                   *)
THEOREM BooksAreKept ==
    ASSUME Wrapper!ObservedAssumption PROVE Wrapper!Spec => []BooksBalance
<1>1. Wrapper!Init => WrapperInv
    BY WrapperInit
<1>2. WrapperInv /\ [Wrapper!Next]_Wrapper!vars => WrapperInv'
    BY WrapperStep
<1>3. WrapperInv => BooksBalance
    BY BooksAreBalanced DEF BooksBalance
<1> QED BY <1>1, <1>2, <1>3, PTL DEF Wrapper!Spec

(* A row's code tells which error it was, through all wrappers, and what a *)
(* caller may retry stays recognisable behind the conversions of           *)
(* CommitServiceV1.                                                        *)
THEOREM ErrorsAreTold ==
    ASSUME Wrapper!ObservedAssumption PROVE Wrapper!Spec => []ErrorsKeepTheirClass
<1>1. WrapperInv => Wrapper!CodesIdentifyErrors
    <2> SUFFICES ASSUME WrapperInv, NEW r \in rows, NEW s \in rows,
                        r.m = s.m, r.code = s.code, ~ r.ok
                 PROVE  r.of = s.of
        BY DEF Wrapper!CodesIdentifyErrors
    <2>1. /\ r.m \in RowMethods /\ r.of \in Reported(r.m) /\ s.of \in Reported(r.m)
          /\ r.ok = r.of.ok /\ Wrapper!Code(r.m, r.of) = Wrapper!Code(r.m, s.of)
        BY DEF WrapperInv, RowsFit
    <2>2. r.of.ok = FALSE
        BY <2>1, ReportFields DEF IsOk, IsErr
    <2> QED BY <2>1, <2>2, CodesTell
<1>2. WrapperInv => Wrapper!RetryableCategoriesKept
    <2> SUFFICES ASSUME WrapperInv, NEW c \in Wrapped,
                        wrapped[c].pc = "returned", wrapped[c].m = "commit_intention",
                        wrapped[c].inner.kind \in
                          {"Timeout", "Unavailable", "BackendUnavailable", "TransactionConflict",
                           "Concurrency", "PositionNotFound", "BusDataLoss"}
                 PROVE  wrapped[c].result.kind = Wrapper!Category(wrapped[c].inner.kind)
        BY DEF Wrapper!RetryableCategoriesKept
    <2>1. /\ wrapped[c].inner \in Wrapper!Results("commit_intention")
          /\ wrapped[c].result = Wrapper!Below("commit_intention", wrapped[c].inner)
        BY DEF WrapperInv, ReturnsFit
    <2>2. wrapped[c].inner = Wrapper!Ok("done") \/ wrapped[c].inner \in Wrapper!EngineErrors
        BY <2>1 DEF Wrapper!Results, Wrapper!BusMethods
    <2>3. wrapped[c].inner \in Wrapper!EngineErrors
        BY <2>2 DEF Wrapper!Ok
    <2>4. wrapped[c].result.kind = Wrapper!FromEngine(wrapped[c].inner)
        <3>1. wrapped[c].inner.ok = FALSE
            BY <2>3, EngineErrorFields DEF IsErr
        <3>2. wrapped[c].result = Wrapper!Err("commit", Wrapper!FromEngine(wrapped[c].inner))
            BY <2>1, <3>1 DEF Wrapper!Below
        <3>3. PICK k : k = Wrapper!FromEngine(wrapped[c].inner)
            OBVIOUS
        <3>4. wrapped[c].result = Wrapper!Err("commit", k) /\ Wrapper!Err("commit", k).kind = k
            <4>1. Wrapper!Err("commit", k).kind = k
                BY DEF Wrapper!Err
            <4>2. wrapped[c].result = Wrapper!Err("commit", k)
                BY <3>2, <3>3, Zenon
            <4> QED BY <4>1, <4>2
        <3> QED BY <3>3, <3>4
    <2> QED BY <2>3, <2>4, CategoriesKept
<1>3. Wrapper!Init => WrapperInv
    BY WrapperInit
<1>4. WrapperInv /\ [Wrapper!Next]_Wrapper!vars => WrapperInv'
    BY WrapperStep
<1>5. WrapperInv => ErrorsKeepTheirClass
    BY <1>1, <1>2 DEF ErrorsKeepTheirClass
<1> QED BY <1>3, <1>4, <1>5, PTL DEF Wrapper!Spec

-----------------------------------------------------------------------------
(* CommitQueue.                                                            *)

AnyBus == Buses \cup {CHOOSE b \in Buses : TRUE}

QueuedCall ==
    [pc : {"idle", "queued", "active", "done", "dropped"}, bus : AnyBus, mutex : Nat]

LineTypes ==
    /\ mutexes \in Seq(Buses \X Nat)
    /\ waiting \in Seq(Seq(Queued))
    /\ queued \in [Queued -> QueuedCall]
    /\ order \in Seq(Queued)

InLine(c) == queued[c].pc \in {"queued", "active"}

(* The lines hold the calls that wait or run, each once, in the line of    *)
(* its mutex; a call that runs is the first of its line.                   *)
LinesFit ==
    /\ \A c \in Queued : InLine(c) =>
         /\ queued[c].mutex \in DOMAIN waiting
         /\ \E p \in DOMAIN waiting[queued[c].mutex] : waiting[queued[c].mutex][p] = c
    /\ \A m \in DOMAIN waiting : \A p \in DOMAIN waiting[m] :
         InLine(waiting[m][p]) /\ queued[waiting[m][p]].mutex = m
    /\ \A m \in DOMAIN waiting : \A p, q \in DOMAIN waiting[m] :
         waiting[m][p] = waiting[m][q] => p = q
    /\ \A c \in Queued : queued[c].pc = "active" => waiting[queued[c].mutex][1] = c

(* A line is in the order in which its calls came.                         *)
OrderFits ==
    /\ \A i \in DOMAIN order : queued[order[i]].pc # "idle"
    /\ \A i, j \in DOMAIN order : order[i] = order[j] => i = j
    /\ \A m \in DOMAIN waiting : \A p, q \in DOMAIN waiting[m] : \A i, j \in DOMAIN order :
         p < q /\ order[i] = waiting[m][p] /\ order[j] = waiting[m][q] => i < j

(* The cache has one mutex for a bus, and has it as long as calls use it,  *)
(* unless it was evicted.                                                  *)
MutexesFit ==
    /\ \A i \in DOMAIN mutexes : mutexes[i][2] \in DOMAIN waiting
    /\ \A i, j \in DOMAIN mutexes : mutexes[i][1] = mutexes[j][1] => i = j
    /\ \A c \in Queued : InLine(c) /\ queued[c].bus \notin evicted =>
         \E i \in DOMAIN mutexes : mutexes[i] = <<queued[c].bus, queued[c].mutex>>

QueueInv ==
    LineTypes /\ LinesFit /\ OrderFits /\ MutexesFit /\ Queue!FirstComeFirstServed

LEMMA QueueInit == Queue!Init => QueueInv
<1> SUFFICES ASSUME Queue!Init PROVE QueueInv
    OBVIOUS
<1>1. [pc |-> "idle", bus |-> CHOOSE b \in Buses : TRUE, mutex |-> 0] \in QueuedCall
    BY DEF QueuedCall, AnyBus
<1>2. mutexes = <<>> /\ waiting = <<>> /\ order = <<>>
    BY DEF Queue!Init
<1>3. mutexes \in Seq(Buses \X Nat) /\ waiting \in Seq(Seq(Queued)) /\ order \in Seq(Queued)
    BY <1>2
<1>4. queued \in [Queued -> QueuedCall]
    BY <1>1, Zenon DEF Queue!Init
<1>5. LineTypes
    BY <1>3, <1>4 DEF LineTypes
<1>6. \A c \in Queued : queued[c].pc = "idle"
    BY DEF Queue!Init
<1>7. LinesFit /\ OrderFits /\ MutexesFit /\ Queue!FirstComeFirstServed
    BY <1>6 DEF Queue!Init, LinesFit, OrderFits, MutexesFit, InLine, Queue!FirstComeFirstServed
<1> QED BY <1>7, <1>5 DEF QueueInv

(* The places of a sequence are numbers.                                   *)
LEMMA PlacesAreNat == ASSUME NEW T, NEW s \in Seq(T) PROVE \A k \in DOMAIN s : k \in Nat
OBVIOUS

(* A sequence without the element at a place.                              *)
LEMMA RemoveAtFields ==
    ASSUME NEW T, NEW s \in Seq(T), NEW i \in DOMAIN s, NEW t, t = Queue!RemoveAt(s, i)
    PROVE  /\ t \in Seq(T) /\ Len(t) = Len(s) - 1
           /\ \A k \in DOMAIN t : t[k] = IF k < i THEN s[k] ELSE s[k + 1]
<1>1. i \in 1 .. Len(s) /\ Len(s) \in Nat
    OBVIOUS
<1>2. PICK u : u = SubSeq(s, 1, i - 1)
    OBVIOUS
<1>3. u \in Seq(T) /\ Len(u) = i - 1 /\ \A k \in 1 .. (i - 1) : u[k] = s[k]
    BY <1>1, <1>2
<1>4. PICK v : v = SubSeq(s, i + 1, Len(s))
    OBVIOUS
<1>5. v \in Seq(T) /\ Len(v) = Len(s) - i /\ \A k \in 1 .. (Len(s) - i) : v[k] = s[k + i]
    BY <1>1, <1>4
<1>6. t = u \o v
    BY <1>2, <1>4 DEF Queue!RemoveAt
<1>7. t \in Seq(T) /\ Len(t) = Len(s) - 1
    BY <1>1, <1>3, <1>5, <1>6
<1>8. ASSUME NEW k \in DOMAIN t PROVE t[k] = IF k < i THEN s[k] ELSE s[k + 1]
    <2>1. k \in 1 .. (Len(s) - 1)
        BY <1>7
    <2>2. CASE k < i
        BY <1>1, <1>3, <1>5, <1>6, <2>1, <2>2
    <2>3. CASE ~ (k < i)
        <3>1. t[k] = v[k - (i - 1)]
            BY <1>1, <1>3, <1>5, <1>6, <2>1, <2>3
        <3>2. k - (i - 1) \in 1 .. (Len(s) - i) /\ k - (i - 1) + i = k + 1
            BY <1>1, <2>1, <2>3
        <3> QED BY <1>5, <2>3, <3>1, <3>2
    <2> QED BY <2>2, <2>3
<1> QED BY <1>7, <1>8
(* get_or_insert: the entry of the bus is the last one, buses stay apart,  *)
(* and what it adds is a mutex that nobody has asked for.                  *)
LEMMA GetOrInsertFields ==
    ASSUME LineTypes, MutexesFit, Queue!QueueAssumption, NEW b \in Buses,
           NEW t, t = Queue!GetOrInsert(b)
    PROVE  /\ t \in Seq(Buses \X Nat) /\ Len(t) > 0 /\ t[Len(t)][1] = b
           /\ t[Len(t)][2] \in 1 .. (Len(waiting) + 1)
           /\ \A k \in DOMAIN t : k # Len(t) => \E j \in DOMAIN mutexes : t[k] = mutexes[j]
           /\ \A k, l \in DOMAIN t : t[k][1] = t[l][1] => k = l
<1> USE DEF LineTypes
<1>1. CASE Queue!Has(b)
    <2>1. PICK i : i = CHOOSE x \in DOMAIN mutexes : mutexes[x][1] = b
        OBVIOUS
    <2>2. i \in DOMAIN mutexes /\ mutexes[i][1] = b
        BY <1>1, <2>1, Zenon DEF Queue!Has
    <2>3. PICK r : r = Queue!RemoveAt(mutexes, i)
        OBVIOUS
    <2>4. /\ r \in Seq(Buses \X Nat) /\ Len(r) = Len(mutexes) - 1
          /\ \A k \in DOMAIN r : r[k] = IF k < i THEN mutexes[k] ELSE mutexes[k + 1]
        <3>1. PICK T, s : T = Buses \X Nat /\ s = mutexes
            OBVIOUS
        <3>2. s \in Seq(T) /\ i \in DOMAIN s /\ r = Queue!RemoveAt(s, i)
            BY <2>2, <2>3, <3>1
        <3>3. /\ r \in Seq(T) /\ Len(r) = Len(s) - 1
              /\ \A k \in DOMAIN r : r[k] = IF k < i THEN s[k] ELSE s[k + 1]
            BY <3>2, RemoveAtFields
        <3> QED BY <3>1, <3>3
    <2>5. t = Append(r, mutexes[i])
        BY <1>1, <2>1, <2>3, Zenon DEF Queue!GetOrInsert
    <2>6. mutexes[i] \in Buses \X Nat
        BY <2>2
    <2>7. /\ t \in Seq(Buses \X Nat) /\ Len(t) = Len(r) + 1 /\ t[Len(t)] = mutexes[i]
          /\ \A k \in DOMAIN t : k # Len(t) => k \in DOMAIN r /\ t[k] = r[k]
        BY <2>4, <2>5, <2>6
    <2>8. mutexes[i][2] \in 1 .. Len(waiting)
        BY <2>2 DEF MutexesFit
    <2>9. DOMAIN mutexes = 1 .. Len(mutexes) /\ Len(mutexes) \in Nat /\ i \in 1 .. Len(mutexes)
        BY <2>2
    <2>10. ASSUME NEW k \in DOMAIN t, k # Len(t)
           PROVE  \E j \in DOMAIN mutexes : t[k] = mutexes[j] /\ j # i /\ j = IF k < i THEN k ELSE k + 1
        <3>1. k \in DOMAIN r /\ t[k] = r[k]
            BY <2>7, <2>10
        <3>2. k \in 1 .. (Len(mutexes) - 1)
            BY <2>4, <3>1
        <3>3. CASE k < i
            <4>1. k \in DOMAIN mutexes
                BY <2>9, <3>2
            <4>2. k # i
                BY <2>9, <3>2, <3>3
            <4>3. t[k] = mutexes[k]
                BY <2>4, <3>1, <3>3
            <4> QED BY <3>3, <4>1, <4>2, <4>3
        <3>4. CASE ~ (k < i)
            <4>1. k + 1 \in DOMAIN mutexes /\ k + 1 # i
                BY <2>9, <3>2, <3>4
            <4>2. t[k] = mutexes[k + 1]
                BY <2>4, <3>1, <3>4
            <4> QED BY <3>4, <4>1, <4>2
        <3> QED BY <3>3, <3>4
    <2>11. ASSUME NEW k \in DOMAIN t, NEW l \in DOMAIN t, t[k][1] = t[l][1] PROVE k = l
        <3>1. \A x, y \in DOMAIN mutexes : mutexes[x][1] = mutexes[y][1] => x = y
            BY DEF MutexesFit
        <3>2. CASE k # Len(t) /\ l # Len(t)
            <4>1. PICK x \in DOMAIN mutexes : t[k] = mutexes[x] /\ x = IF k < i THEN k ELSE k + 1
                BY <2>10, <3>2
            <4>2. PICK y \in DOMAIN mutexes : t[l] = mutexes[y] /\ y = IF l < i THEN l ELSE l + 1
                BY <2>10, <3>2
            <4>3. x = y
                BY <2>11, <3>1, <4>1, <4>2
            <4>4. k \in Nat /\ l \in Nat
                BY <2>7, PlacesAreNat, Zenon
            <4> QED BY <2>9, <4>1, <4>2, <4>3, <4>4
        <3>3. CASE k = Len(t) /\ l # Len(t)
            <4>1. PICK y \in DOMAIN mutexes : t[l] = mutexes[y] /\ y # i
                BY <2>10, <3>3
            <4> QED BY <2>2, <2>7, <2>11, <3>1, <3>3, <4>1
        <3>4. CASE k # Len(t) /\ l = Len(t)
            <4>1. PICK x \in DOMAIN mutexes : t[k] = mutexes[x] /\ x # i
                BY <2>10, <3>4
            <4> QED BY <2>2, <2>7, <2>11, <3>1, <3>4, <4>1
        <3> QED BY <3>2, <3>3, <3>4
    <2>12. Len(t) > 0 /\ t[Len(t)][2] \in 1 .. (Len(waiting) + 1)
        <3>1. Len(t) = Len(mutexes) /\ Len(waiting) \in Nat
            BY <2>4, <2>7, <2>9
        <3>2. t[Len(t)][2] \in 1 .. Len(waiting)
            BY <2>7, <2>8
        <3> QED BY <2>9, <3>1, <3>2
    <2> QED BY <2>2, <2>7, <2>10, <2>11, <2>12
<1>2. CASE ~ Queue!Has(b)
    <2>1. PICK r : r = IF Len(mutexes) = MaxCached THEN Tail(mutexes) ELSE mutexes
        OBVIOUS
    <2>2. t = Append(r, <<b, Len(waiting) + 1>>)
        BY <1>2, <2>1, Zenon DEF Queue!GetOrInsert
    <2>3. Len(waiting) \in Nat /\ MaxCached \in Nat /\ MaxCached # 0 /\ Len(mutexes) \in Nat
        BY DEF Queue!QueueAssumption
    <2>4. PICK d \in {0, 1} : /\ r \in Seq(Buses \X Nat)
                              /\ \A k \in DOMAIN r : k + d \in DOMAIN mutexes /\ r[k] = mutexes[k + d]
        <3>1. CASE Len(mutexes) = MaxCached
            <4>1. r = Tail(mutexes) /\ mutexes # <<>>
                BY <2>1, <2>3, <3>1
            <4>2. r \in Seq(Buses \X Nat) /\ \A k \in DOMAIN r : k + 1 \in DOMAIN mutexes /\ r[k] = mutexes[k + 1]
                BY <4>1
            <4> QED BY <4>2
        <3>2. CASE Len(mutexes) # MaxCached
            <4>1. r = mutexes
                BY <2>1, <3>2
            <4>2. \A k \in DOMAIN r : k + 0 = k
                BY <4>1
            <4> QED BY <4>1, <4>2
        <3> QED BY <3>1, <3>2
    <2>5. <<b, Len(waiting) + 1>> \in Buses \X Nat
        BY <2>3
    <2>6. /\ t \in Seq(Buses \X Nat) /\ Len(t) = Len(r) + 1 /\ t[Len(t)] = <<b, Len(waiting) + 1>>
          /\ \A k \in DOMAIN t : k # Len(t) => k \in DOMAIN r /\ t[k] = r[k]
        BY <2>2, <2>4, <2>5
    <2>7. ASSUME NEW k \in DOMAIN t, k # Len(t)
          PROVE  k + d \in DOMAIN mutexes /\ t[k] = mutexes[k + d]
        BY <2>4, <2>6, <2>7
    <2>8. \A x \in DOMAIN mutexes : mutexes[x][1] # b
        BY <1>2 DEF Queue!Has
    <2>9. ASSUME NEW k \in DOMAIN t, NEW l \in DOMAIN t, t[k][1] = t[l][1] PROVE k = l
        <3>1. \A x, y \in DOMAIN mutexes : mutexes[x][1] = mutexes[y][1] => x = y
            BY DEF MutexesFit
        <3>2. k \in Nat /\ l \in Nat
            BY <2>6, PlacesAreNat, Zenon
        <3>3. CASE k # Len(t) /\ l # Len(t)
            <4>1. k + d = l + d
                BY <2>7, <2>9, <3>1, <3>3
            <4> QED BY <3>2, <4>1
        <3>4. CASE k = Len(t) \/ l = Len(t)
            BY <2>6, <2>7, <2>8, <2>9, <3>4
        <3> QED BY <3>3, <3>4
    <2>10. Len(t) > 0 /\ t[Len(t)][1] = b /\ t[Len(t)][2] \in 1 .. (Len(waiting) + 1)
        BY <2>3, <2>4, <2>6
    <2> QED BY <2>6, <2>7, <2>9, <2>10
<1> QED BY <1>1, <1>2
LEMMA QueueSubmit ==
    ASSUME QueueInv, Queue!QueueAssumption, NEW c \in Queued, NEW b \in Buses, Queue!Submit(c, b)
    PROVE  QueueInv'
<1> USE DEF QueueInv
<1>1. PICK t : t = Queue!GetOrInsert(b)
    OBVIOUS
<1>2. /\ t \in Seq(Buses \X Nat) /\ Len(t) > 0 /\ t[Len(t)][1] = b
      /\ t[Len(t)][2] \in 1 .. (Len(waiting) + 1)
      /\ \A k \in DOMAIN t : k # Len(t) => \E j \in DOMAIN mutexes : t[k] = mutexes[j]
      /\ \A k, l \in DOMAIN t : t[k][1] = t[l][1] => k = l
    BY <1>1, GetOrInsertFields
<1>3. PICK mutex : mutex = t[Len(t)][2]
    OBVIOUS
<1>4. mutexes' = t /\ Queue!Last(mutexes') = t[Len(t)]
    BY <1>1 DEF Queue!Submit, Queue!Last
<1>5. PICK old : old = IF mutex > Len(waiting) THEN <<>> ELSE waiting[mutex]
    OBVIOUS
<1>6. PICK n : n = IF mutex > Len(waiting) THEN mutex ELSE Len(waiting)
    OBVIOUS
<1>7. /\ queued[c].pc = "idle"
      /\ waiting' = [m \in 1 .. n |-> IF m = mutex THEN Append(old, c) ELSE waiting[m]]
      /\ queued' = [queued EXCEPT ![c] = [pc |-> "queued", bus |-> b, mutex |-> mutex]]
      /\ order' = Append(order, c)
    BY <1>3, <1>4, <1>5, <1>6 DEF Queue!Submit, Queue!Enqueue
<1>8. \A e : (\E i \in DOMAIN mutexes : e = mutexes[i]) /\ waiting[e[2]] # <<>>
             /\ (\A i \in DOMAIN t : e # t[i]) => e[1] \in evicted'
    BY <1>4 DEF Queue!Submit
<1>9. evicted \subseteq evicted'
    BY DEF Queue!Submit
<1>10. Len(waiting) \in Nat /\ DOMAIN waiting = 1 .. Len(waiting)
    BY DEF LineTypes
<1>11. mutex \in 1 .. (Len(waiting) + 1)
    BY <1>2, <1>3
<1>12. /\ Len(waiting) \in Nat /\ mutex \in 1 .. (Len(waiting) + 1) /\ mutex \in 1 .. n
       /\ n \in Nat /\ Len(waiting) <= n /\ (n # mutex => n = Len(waiting))
       /\ \A m \in 1 .. n : m # mutex => m \in 1 .. Len(waiting)
       /\ DOMAIN waiting = 1 .. Len(waiting)
    BY <1>2, <1>3, <1>6 DEF LineTypes
<1>13. \A m \in DOMAIN waiting : waiting[m] \in Seq(Queued)
    BY DEF LineTypes
<1>14. \A m \in DOMAIN waiting : ~ (m > Len(waiting))
    BY <1>10
<1>15. n \in Nat /\ Len(waiting) <= n
    <2>1. CASE mutex > Len(waiting)
        <3>1. n = mutex
            BY <1>6, <2>1
        <3> QED BY <1>10, <1>11, <2>1, <3>1
    <2>2. CASE ~ (mutex > Len(waiting))
        <3>1. n = Len(waiting)
            BY <1>6, <2>2
        <3> QED BY <1>10, <3>1
    <2> QED BY <2>1, <2>2
<1>16. \A m \in DOMAIN waiting : m \in 1 .. n
    BY <1>10, <1>15
<1>17. /\ old \in Seq(Queued)
       /\ \A p \in DOMAIN old : /\ mutex \in DOMAIN waiting
                                /\ p \in DOMAIN waiting[mutex] /\ old[p] = waiting[mutex][p]
    <2>1. CASE mutex > Len(waiting)
        BY <1>5, <2>1
    <2>2. CASE ~ (mutex > Len(waiting))
        <3>1. mutex \in DOMAIN waiting
            BY <1>10, <1>11, <2>2
        <3>2. old = waiting[mutex]
            BY <1>5, <2>2
        <3> QED BY <1>13, <3>1, <3>2
    <2> QED BY <2>1, <2>2
<1>18. PICK line : line = Append(old, c)
    OBVIOUS
<1>19. /\ line \in Seq(Queued) /\ Len(line) = Len(old) + 1 /\ line[Len(line)] = c
       /\ DOMAIN line = 1 .. Len(line) /\ Len(old) \in Nat
       /\ \A p \in DOMAIN line : p # Len(line) => p \in DOMAIN old /\ line[p] = old[p]
       /\ \A p \in DOMAIN old : p \in DOMAIN line /\ line[p] = old[p]
    BY <1>17, <1>18
<1>20. /\ DOMAIN waiting' = 1 .. n /\ waiting'[mutex] = line
       /\ \A m \in 1 .. n : m # mutex => waiting'[m] = waiting[m]
    BY <1>7, <1>12, <1>18
<1>21. waiting' \in Seq(Seq(Queued))
    <2>1. ASSUME NEW m \in 1 .. n PROVE waiting'[m] \in Seq(Queued)
        <3>1. CASE m = mutex
            BY <1>19, <1>20, <3>1
        <3>2. CASE m # mutex
            BY <1>12, <1>20, <1>13, <3>2
        <3> QED BY <3>1, <3>2
    <2>2. waiting' = [m \in 1 .. n |-> waiting'[m]]
        BY <1>7, <1>20
    <2> QED BY <1>12, <2>1, <2>2
<1>22. /\ queued'[c] = [pc |-> "queued", bus |-> b, mutex |-> mutex]
       /\ \A d \in Queued : d # c => queued'[d] = queued[d]
    BY <1>7 DEF LineTypes
<1>23. LineTypes'
    <2>1. [pc |-> "queued", bus |-> b, mutex |-> mutex] \in QueuedCall
        <3>1. mutex \in Nat
            BY <1>10, <1>11
        <3> QED BY <3>1 DEF QueuedCall, AnyBus
    <2>2. queued' \in [Queued -> QueuedCall]
        BY <1>7, <2>1, Zenon DEF LineTypes
    <2>3. order' \in Seq(Queued)
        BY <1>7 DEF LineTypes
    <2> QED BY <1>2, <1>4, <1>21, <2>2, <2>3 DEF LineTypes
<1>24. \A p \in DOMAIN old : old[p] \in Queued /\ old[p] # c /\ InLine(old[p]) /\ queued[old[p]].mutex = mutex
    BY <1>7, <1>17 DEF LinesFit, InLine
<1>25. \A m \in DOMAIN waiting : \A p \in DOMAIN waiting[m] : waiting[m][p] \in Queued /\ waiting[m][p] # c
    <2>1. ASSUME NEW m \in DOMAIN waiting, NEW p \in DOMAIN waiting[m]
          PROVE  waiting[m][p] \in Queued /\ waiting[m][p] # c
        <3>1. waiting[m][p] \in Queued
            BY <1>13
        <3>2. InLine(waiting[m][p])
            BY DEF LinesFit
        <3> QED BY <1>7, <3>1, <3>2 DEF InLine
    <2> QED BY <2>1
<1>26. InLine(c)' /\ (\A d \in Queued : d # c => InLine(d)' = InLine(d))
    BY <1>22 DEF InLine
<1>27. LinesFit'
    <2>1. ASSUME NEW d \in Queued, InLine(d)'
          PROVE  /\ queued'[d].mutex \in DOMAIN waiting'
                 /\ \E p \in DOMAIN waiting'[queued'[d].mutex] : waiting'[queued'[d].mutex][p] = d
        <3>1. CASE d = c
            BY <1>12, <1>19, <1>20, <1>22, <3>1
        <3>2. CASE d # c
            <4>1. PICK m : m = queued[d].mutex
                OBVIOUS
            <4>2. m \in DOMAIN waiting /\ \E p \in DOMAIN waiting[m] : waiting[m][p] = d
                BY <1>26, <2>1, <3>2, <4>1 DEF LinesFit
            <4>3. m \in DOMAIN waiting' /\ queued'[d].mutex = m
                BY <1>12, <1>20, <1>22, <3>2, <4>1, <4>2
            <4>4. CASE m = mutex
                <5>1. old = waiting[mutex]
                    BY <1>5, <1>14, <4>2, <4>4
                <5> QED BY <1>19, <1>20, <4>2, <4>3, <4>4, <5>1
            <4>5. CASE m # mutex
                <5>1. waiting'[m] = waiting[m]
                    BY <1>20, <4>3, <4>5
                <5> QED BY <4>2, <4>3, <5>1
            <4> QED BY <4>4, <4>5
        <3> QED BY <3>1, <3>2
    <2>2. ASSUME NEW m \in DOMAIN waiting', NEW p \in DOMAIN waiting'[m]
          PROVE  /\ queued'[waiting'[m][p]].pc \in {"queued", "active"}
                 /\ queued'[waiting'[m][p]].mutex = m
        <3>1. CASE m = mutex
            <4>1. p \in DOMAIN line /\ waiting'[m][p] = line[p]
                BY <1>20, <2>2, <3>1
            <4>2. CASE p = Len(line)
                BY <1>19, <1>22, <3>1, <4>1, <4>2
            <4>3. CASE p # Len(line)
                <5>1. p \in DOMAIN old /\ line[p] = old[p]
                    BY <1>19, <4>1, <4>3
                <5>2. PICK e : e = old[p]
                    OBVIOUS
                <5>3. e \in Queued /\ e # c /\ InLine(e) /\ queued[e].mutex = mutex
                    BY <1>24, <5>1, <5>2
                <5>4. InLine(e)' /\ queued'[e].mutex = mutex
                    BY <1>22, <1>26, <5>3
                <5> QED BY <3>1, <4>1, <5>1, <5>2, <5>4 DEF InLine
            <4> QED BY <4>2, <4>3
        <3>2. CASE m # mutex
            <4>1. m \in DOMAIN waiting /\ waiting'[m] = waiting[m] /\ p \in DOMAIN waiting[m]
                BY <1>12, <1>20, <2>2, <3>2
            <4>2. PICK e : e = waiting[m][p]
                OBVIOUS
            <4>3. e \in Queued /\ e # c /\ InLine(e) /\ queued[e].mutex = m
                BY <1>25, <4>1, <4>2 DEF LinesFit
            <4>4. InLine(e)' /\ queued'[e].mutex = m
                BY <1>22, <1>26, <4>3
            <4> QED BY <4>1, <4>2, <4>4 DEF InLine
        <3> QED BY <3>1, <3>2
    <2>3. ASSUME NEW m \in DOMAIN waiting', NEW p \in DOMAIN waiting'[m], NEW q \in DOMAIN waiting'[m],
                 waiting'[m][p] = waiting'[m][q]
          PROVE  p = q
        <3>1. CASE m = mutex
            <4>1. p \in DOMAIN line /\ q \in DOMAIN line /\ line[p] = line[q]
                BY <1>20, <2>3, <3>1
            <4>2. CASE p # Len(line) /\ q # Len(line)
                <5>1. p \in DOMAIN old /\ q \in DOMAIN old /\ old[p] = old[q]
                    BY <1>19, <4>1, <4>2
                <5> QED BY <1>17, <5>1 DEF LinesFit
            <4>3. CASE p = Len(line) \/ q = Len(line)
                BY <1>19, <1>24, <4>1, <4>3
            <4> QED BY <4>2, <4>3
        <3>2. CASE m # mutex
            BY <1>12, <1>20, <2>3, <3>2 DEF LinesFit
        <3> QED BY <3>1, <3>2
    <2>4. ASSUME NEW d \in Queued, queued'[d].pc = "active" PROVE waiting'[queued'[d].mutex][1] = d
        <3>1. d # c /\ queued'[d] = queued[d]
            BY <1>22, <2>4
        <3>2. PICK m : m = queued[d].mutex
            OBVIOUS
        <3>3. m \in DOMAIN waiting /\ waiting[m][1] = d /\ \E p \in DOMAIN waiting[m] : waiting[m][p] = d
            BY <2>4, <3>1, <3>2 DEF LinesFit, InLine
        <3>4. 1 \in DOMAIN waiting[m]
            BY <3>3 DEF LineTypes
        <3>5. CASE m = mutex
            <4>1. old = waiting[mutex]
                BY <1>5, <1>14, <3>3, <3>5
            <4> QED BY <1>19, <1>20, <3>1, <3>2, <3>3, <3>4, <3>5, <4>1
        <3>6. CASE m # mutex
            <4>1. m \in 1 .. n
                BY <1>16, <3>3
            <4> QED BY <1>20, <3>1, <3>2, <3>3, <3>6, <4>1
        <3> QED BY <3>5, <3>6
    <2> QED BY <2>1, <2>2, <2>3, <2>4 DEF LinesFit, InLine
<1>28. /\ Len(order) \in Nat /\ DOMAIN order = 1 .. Len(order) /\ DOMAIN order' = 1 .. (Len(order) + 1)
       /\ order'[Len(order) + 1] = c
       /\ \A i \in DOMAIN order' : i # Len(order) + 1 => i \in DOMAIN order /\ order'[i] = order[i]
       /\ \A i \in DOMAIN order : order[i] \in Queued /\ order[i] # c
    BY <1>7 DEF LineTypes, OrderFits
<1>29. OrderFits'
    <2>1. ASSUME NEW i \in DOMAIN order' PROVE queued'[order'[i]].pc # "idle"
        BY <1>22, <1>28 DEF OrderFits
    <2>2. ASSUME NEW i \in DOMAIN order', NEW j \in DOMAIN order', order'[i] = order'[j] PROVE i = j
        BY <1>28, <2>2 DEF OrderFits
    <2>3. ASSUME NEW m \in DOMAIN waiting', NEW p \in DOMAIN waiting'[m], NEW q \in DOMAIN waiting'[m],
                 NEW i \in DOMAIN order', NEW j \in DOMAIN order',
                 p < q, order'[i] = waiting'[m][p], order'[j] = waiting'[m][q]
          PROVE  i < j
        <3>1. CASE m = mutex
            <4>1. p \in DOMAIN line /\ q \in DOMAIN line /\ order'[i] = line[p] /\ order'[j] = line[q]
                BY <1>20, <2>3, <3>1
            <4>2. p # Len(line)
                BY <1>19, <2>3, <4>1
            <4>3. p \in DOMAIN old /\ order'[i] = old[p] /\ old[p] # c
                BY <1>19, <1>24, <4>1, <4>2
            <4>4. i \in DOMAIN order /\ order[i] = old[p] /\ i < Len(order) + 1
                BY <1>28, <4>3
            <4>5. CASE q = Len(line)
                <5>1. j = Len(order) + 1
                    BY <1>19, <1>28, <4>1, <4>5
                <5> QED BY <4>4, <5>1
            <4>6. CASE q # Len(line)
                <5>1. q \in DOMAIN old /\ order'[j] = old[q] /\ old[q] # c
                    BY <1>19, <1>24, <4>1, <4>6
                <5>2. j \in DOMAIN order /\ order[j] = old[q]
                    BY <1>28, <5>1
                <5> QED BY <1>17, <2>3, <4>3, <4>4, <5>1, <5>2 DEF OrderFits
            <4> QED BY <4>5, <4>6
        <3>2. CASE m # mutex
            <4>1. m \in DOMAIN waiting /\ waiting'[m] = waiting[m]
                BY <1>12, <1>20, <2>3, <3>2
            <4>2. i \in DOMAIN order /\ j \in DOMAIN order /\ order[i] = waiting[m][p] /\ order[j] = waiting[m][q]
                BY <1>25, <1>28, <2>3, <4>1
            <4> QED BY <2>3, <4>1, <4>2 DEF OrderFits
        <3> QED BY <3>1, <3>2
    <2> QED BY <2>1, <2>2, <2>3 DEF OrderFits
<1>30. MutexesFit'
    <2>1. ASSUME NEW i \in DOMAIN mutexes' PROVE mutexes'[i][2] \in DOMAIN waiting'
        <3>1. CASE i = Len(t)
            BY <1>3, <1>4, <1>12, <1>20, <3>1
        <3>2. CASE i # Len(t)
            <4>1. PICK j \in DOMAIN mutexes : t[i] = mutexes[j]
                BY <1>2, <1>4, <2>1, <3>2
            <4>2. mutexes[j][2] \in DOMAIN waiting
                BY DEF MutexesFit
            <4>3. mutexes[j][2] \in 1 .. n
                BY <1>16, <4>2
            <4> QED BY <1>4, <1>20, <4>1, <4>3
        <3> QED BY <3>1, <3>2
    <2>2. ASSUME NEW i \in DOMAIN mutexes', NEW j \in DOMAIN mutexes', mutexes'[i][1] = mutexes'[j][1]
          PROVE  i = j
        BY <1>2, <1>4, <2>2
    <2>3. ASSUME NEW d \in Queued, InLine(d)', queued'[d].bus \notin evicted'
          PROVE  \E i \in DOMAIN mutexes' : mutexes'[i] = <<queued'[d].bus, queued'[d].mutex>>
        <3>1. CASE d = c
            <4>1. t[Len(t)] = <<b, mutex>> /\ Len(t) \in DOMAIN t
                BY <1>2, <1>3
            <4> QED BY <1>4, <1>22, <3>1, <4>1
        <3>2. CASE d # c
            <4>1. InLine(d) /\ queued'[d] = queued[d] /\ queued[d].bus \notin evicted
                BY <1>9, <1>22, <1>26, <2>3, <3>2
            <4>2. PICK i \in DOMAIN mutexes : mutexes[i] = <<queued[d].bus, queued[d].mutex>>
                BY <4>1 DEF MutexesFit
            <4>3. PICK e : e = mutexes[i]
                OBVIOUS
            <4>4. e[1] = queued[d].bus /\ e[2] = queued[d].mutex
                BY <4>2, <4>3
            <4>5. waiting[e[2]] # <<>>
                BY <4>1, <4>4 DEF LinesFit, LineTypes
            <4>6. \E k \in DOMAIN t : e = t[k]
                BY <1>8, <2>3, <4>1, <4>3, <4>4, <4>5
            <4> QED BY <1>4, <4>1, <4>2, <4>3, <4>6
        <3> QED BY <3>1, <3>2
    <2> QED BY <2>1, <2>2, <2>3 DEF MutexesFit
<1>31. Queue!FirstComeFirstServed'
    <2>1. ASSUME NEW i \in DOMAIN order', NEW j \in DOMAIN order', i < j,
                 queued'[order'[i]].mutex = queued'[order'[j]].mutex, queued'[order'[i]].pc = "queued"
          PROVE  queued'[order'[j]].pc \in {"queued", "dropped"}
        <3>1. i \in DOMAIN order /\ order'[i] = order[i] /\ order[i] \in Queued /\ order[i] # c
            BY <1>28, <2>1
        <3>2. CASE j = Len(order) + 1
            BY <1>22, <1>28, <3>2
        <3>3. CASE j # Len(order) + 1
            <4>1. j \in DOMAIN order /\ order'[j] = order[j] /\ order[j] \in Queued /\ order[j] # c
                BY <1>28, <2>1, <3>3
            <4>2. queued'[order[i]] = queued[order[i]] /\ queued'[order[j]] = queued[order[j]]
                BY <1>22, <3>1, <4>1
            <4> QED BY <2>1, <3>1, <4>1, <4>2 DEF Queue!FirstComeFirstServed
        <3> QED BY <3>2, <3>3
    <2> QED BY <2>1 DEF Queue!FirstComeFirstServed
<1> QED BY <1>23, <1>27, <1>29, <1>30, <1>31
LEMMA QueueStart ==
    ASSUME QueueInv, NEW c \in Queued, Queue!Start(c)
    PROVE  QueueInv'
<1> USE DEF QueueInv
<1>1. /\ queued[c].pc = "queued" /\ Head(waiting[queued[c].mutex]) = c
      /\ queued' = [queued EXCEPT ![c].pc = "active"]
      /\ UNCHANGED <<mutexes, waiting, evicted, order>>
    BY DEF Queue!Start
<1>2. /\ queued'[c].pc = "active" /\ queued'[c].bus = queued[c].bus /\ queued'[c].mutex = queued[c].mutex
      /\ \A d \in Queued : d # c => queued'[d] = queued[d]
      /\ queued' \in [Queued -> QueuedCall]
    <2>1. queued[c] \in QueuedCall
        BY DEF LineTypes
    <2> QED BY <1>1, <2>1 DEF LineTypes, QueuedCall
<1>3. LineTypes'
    BY <1>1, <1>2 DEF LineTypes
<1>4. /\ \A d \in Queued : InLine(d)' = InLine(d)
      /\ \A d \in Queued : queued'[d].mutex = queued[d].mutex /\ queued'[d].bus = queued[d].bus
    BY <1>1, <1>2 DEF InLine
<1>5. \A m \in DOMAIN waiting : \A p \in DOMAIN waiting[m] : waiting[m][p] \in Queued
    BY DEF LineTypes
<1>6. /\ queued[c].mutex \in DOMAIN waiting /\ 1 \in DOMAIN waiting[queued[c].mutex]
      /\ waiting[queued[c].mutex][1] = c
    <2>1. /\ queued[c].mutex \in DOMAIN waiting
          /\ \E p \in DOMAIN waiting[queued[c].mutex] : waiting[queued[c].mutex][p] = c
        BY <1>1 DEF LinesFit, InLine
    <2>2. PICK q : q = waiting[queued[c].mutex]
        OBVIOUS
    <2>3. q \in Seq(Queued)
        BY <2>1, <2>2 DEF LineTypes
    <2>4. q # <<>> /\ Head(q) = c
        BY <1>1, <2>1, <2>2
    <2>5. 1 \in DOMAIN q /\ q[1] = c
        BY <2>3, <2>4
    <2> QED BY <2>1, <2>2, <2>5
<1>7. LinesFit'
    <2>1. ASSUME NEW d \in Queued, InLine(d)'
          PROVE  /\ queued'[d].mutex \in DOMAIN waiting'
                 /\ \E p \in DOMAIN waiting'[queued'[d].mutex] : waiting'[queued'[d].mutex][p] = d
        BY <1>1, <1>4, <2>1 DEF LinesFit
    <2>2. ASSUME NEW m \in DOMAIN waiting', NEW p \in DOMAIN waiting'[m]
          PROVE  /\ queued'[waiting'[m][p]].pc \in {"queued", "active"}
                 /\ queued'[waiting'[m][p]].mutex = m
        <3>1. PICK e : e = waiting[m][p]
            OBVIOUS
        <3>2. e \in Queued /\ InLine(e) /\ queued[e].mutex = m
            BY <1>1, <1>5, <2>2, <3>1 DEF LinesFit
        <3>3. InLine(e)' /\ queued'[e].mutex = m
            BY <1>4, <3>2
        <3> QED BY <1>1, <3>1, <3>3 DEF InLine
    <2>3. \A m \in DOMAIN waiting' : \A p, q \in DOMAIN waiting'[m] :
            waiting'[m][p] = waiting'[m][q] => p = q
        BY <1>1 DEF LinesFit
    <2>4. ASSUME NEW d \in Queued, queued'[d].pc = "active" PROVE waiting'[queued'[d].mutex][1] = d
        <3>1. CASE d = c
            BY <1>1, <1>4, <1>6, <3>1
        <3>2. CASE d # c
            BY <1>1, <1>2, <2>4, <3>2 DEF LinesFit
        <3> QED BY <3>1, <3>2
    <2> QED BY <2>1, <2>2, <2>3, <2>4 DEF LinesFit, InLine
<1>8. \A i \in DOMAIN order : order[i] \in Queued
    BY DEF LineTypes
<1>9. OrderFits'
    <2>1. \A i \in DOMAIN order' : queued'[order'[i]].pc # "idle"
        BY <1>1, <1>2, <1>8 DEF OrderFits
    <2> QED BY <1>1, <2>1 DEF OrderFits
<1>10. MutexesFit'
    BY <1>1, <1>4 DEF MutexesFit
<1>11. Queue!FirstComeFirstServed'
    <2>1. ASSUME NEW i \in DOMAIN order', NEW j \in DOMAIN order', i < j,
                 queued'[order'[i]].mutex = queued'[order'[j]].mutex, queued'[order'[i]].pc = "queued"
          PROVE  queued'[order'[j]].pc \in {"queued", "dropped"}
        <3>1. PICK x, y : x = order[i] /\ y = order[j]
            OBVIOUS
        <3>2. x \in Queued /\ y \in Queued /\ order'[i] = x /\ order'[j] = y /\ i \in DOMAIN order /\ j \in DOMAIN order
            BY <1>1, <1>8, <2>1, <3>1
        <3>3. x # c /\ queued[x].pc = "queued" /\ queued[x].mutex = queued[y].mutex
            BY <1>2, <1>4, <2>1, <3>2
        <3>4. CASE y = c
            <4>1. PICK m : m = queued[c].mutex
                OBVIOUS
            <4>2. PICK p \in DOMAIN waiting[m] : waiting[m][p] = x
                BY <3>2, <3>3, <3>4, <4>1 DEF LinesFit, InLine
            <4>3. m \in DOMAIN waiting /\ 1 \in DOMAIN waiting[m] /\ waiting[m][1] = c
                BY <1>6, <4>1
            <4>4. 1 < p
                <5>1. waiting[m] \in Seq(Queued)
                    BY <4>3 DEF LineTypes
                <5>2. p # 1
                    BY <3>3, <4>2, <4>3
                <5> QED BY <5>1, <5>2
            <4>5. order[j] = waiting[m][1] /\ order[i] = waiting[m][p]
                BY <3>1, <3>4, <4>2, <4>3
            <4>6. j < i
                BY <3>2, <4>2, <4>3, <4>4, <4>5 DEF OrderFits
            <4>7. i \in Nat /\ j \in Nat
                BY <3>2 DEF LineTypes
            <4> QED BY <2>1, <4>6, <4>7
        <3>5. CASE y # c
            BY <1>2, <2>1, <3>1, <3>2, <3>3, <3>5 DEF Queue!FirstComeFirstServed
        <3> QED BY <3>4, <3>5
    <2> QED BY <2>1 DEF Queue!FirstComeFirstServed
<1> QED BY <1>3, <1>7, <1>9, <1>10, <1>11

(* A call leaves its line, because it has ended or was dropped.            *)
LEMMA QueueLeave ==
    ASSUME QueueInv, NEW c \in Queued, InLine(c), NEW how \in {"done", "dropped"},
           how = "done" => queued[c].pc = "active",
           waiting' = Queue!Leave(c), queued' = [queued EXCEPT ![c].pc = how],
           UNCHANGED <<mutexes, evicted, order>>
    PROVE  QueueInv'
<1> USE DEF QueueInv
<1>1. /\ queued'[c].pc = how /\ queued'[c].bus = queued[c].bus /\ queued'[c].mutex = queued[c].mutex
      /\ \A d \in Queued : d # c => queued'[d] = queued[d]
      /\ queued' \in [Queued -> QueuedCall]
    <2>1. queued[c] \in QueuedCall
        BY DEF LineTypes
    <2> QED BY <2>1 DEF LineTypes, QueuedCall
<1>2. PICK mutex : mutex = queued[c].mutex
    OBVIOUS
<1>3. PICK s : s = waiting[mutex]
    OBVIOUS
<1>4. PICK k : k = CHOOSE i \in DOMAIN s : s[i] = c
    OBVIOUS
<1>5. mutex \in DOMAIN waiting /\ s \in Seq(Queued) /\ k \in DOMAIN s /\ s[k] = c
    <2>1. mutex \in DOMAIN waiting /\ \E p \in DOMAIN s : s[p] = c
        BY <1>2, <1>3 DEF LinesFit
    <2>2. s \in Seq(Queued)
        BY <1>3, <2>1 DEF LineTypes
    <2>3. k \in DOMAIN s /\ s[k] = c
        BY <1>4, <2>1, Zenon
    <2> QED BY <2>1, <2>2, <2>3
<1>6. PICK t : t = Queue!RemoveAt(s, k)
    OBVIOUS
<1>7. /\ t \in Seq(Queued) /\ Len(t) = Len(s) - 1
      /\ \A p \in DOMAIN t : t[p] = IF p < k THEN s[p] ELSE s[p + 1]
    BY <1>5, <1>6, RemoveAtFields
<1>8. /\ waiting' = [waiting EXCEPT ![mutex] = t]
    BY <1>2, <1>3, <1>4, <1>6 DEF Queue!Leave, Queue!Place
<1>9. /\ DOMAIN waiting' = DOMAIN waiting /\ waiting'[mutex] = t
      /\ \A m \in DOMAIN waiting : m # mutex => waiting'[m] = waiting[m]
    BY <1>5, <1>8
<1>10. waiting' \in Seq(Seq(Queued))
    BY <1>5, <1>7, <1>8 DEF LineTypes
<1>11. LineTypes'
    BY <1>1, <1>10 DEF LineTypes
(* Where an element of the shorter line was, and where one of the longer   *)
(* line other than c now is.                                               *)
<1>12. PICK was : was = [p \in DOMAIN t |-> IF p < k THEN p ELSE p + 1]
    OBVIOUS
<1>13. /\ DOMAIN s = 1 .. Len(s) /\ DOMAIN t = 1 .. (Len(s) - 1) /\ Len(s) \in Nat /\ k \in 1 .. Len(s)
    BY <1>5, <1>7
<1>14. \A p \in DOMAIN t : was[p] \in DOMAIN s /\ was[p] # k /\ was[p] \in Nat
    BY <1>12, <1>13
<1>15. \A p, q \in DOMAIN t : p < q => was[p] < was[q]
    BY <1>12, <1>13
<1>16. \A p \in DOMAIN t : t[p] = s[was[p]]
    BY <1>7, <1>12
<1>17. \A p \in DOMAIN s : p # k => \E q \in DOMAIN t : was[q] = p
    <2>1. ASSUME NEW p \in DOMAIN s, p # k PROVE \E q \in DOMAIN t : was[q] = p
        <3>1. CASE p < k
            <4>1. p \in DOMAIN t
                BY <1>13, <3>1
            <4> QED BY <1>12, <3>1, <4>1
        <3>2. CASE ~ (p < k)
            <4>1. p - 1 \in DOMAIN t /\ ~ (p - 1 < k) /\ (p - 1) + 1 = p
                BY <1>13, <2>1, <3>2
            <4> QED BY <1>12, <4>1
        <3> QED BY <3>1, <3>2
    <2> QED BY <2>1
<1>18. \A p, q \in DOMAIN s : s[p] = s[q] => p = q
    BY <1>3, <1>5 DEF LinesFit
<1>19. \A p \in DOMAIN t : t[p] # c /\ t[p] \in Queued
    <2>1. ASSUME NEW p \in DOMAIN t PROVE t[p] # c /\ t[p] \in Queued
        <3>1. s[was[p]] # s[k] /\ s[was[p]] \in Queued
            BY <1>5, <1>14, <1>18
        <3> QED BY <1>5, <1>16, <3>1
    <2> QED BY <2>1
<1>20. /\ ~ InLine(c)'
       /\ \A d \in Queued : d # c => InLine(d)' = InLine(d)
       /\ \A d \in Queued : queued'[d].mutex = queued[d].mutex /\ queued'[d].bus = queued[d].bus
    BY <1>1 DEF InLine
<1>21. \A m \in DOMAIN waiting : \A p \in DOMAIN waiting[m] :
         waiting[m][p] \in Queued /\ InLine(waiting[m][p]) /\ queued[waiting[m][p]].mutex = m
    <2>1. ASSUME NEW m \in DOMAIN waiting, NEW p \in DOMAIN waiting[m] PROVE waiting[m][p] \in Queued
        <3>1. waiting[m] \in Seq(Queued)
            BY DEF LineTypes
        <3> QED BY <3>1
    <2> QED BY <2>1 DEF LinesFit
<1>22. LinesFit'
    <2>1. ASSUME NEW d \in Queued, InLine(d)'
          PROVE  /\ queued'[d].mutex \in DOMAIN waiting'
                 /\ \E p \in DOMAIN waiting'[queued'[d].mutex] : waiting'[queued'[d].mutex][p] = d
        <3>1. PICK m : m = queued[d].mutex
            OBVIOUS
        <3>2. d # c /\ InLine(d) /\ queued'[d].mutex = m
            BY <1>20, <2>1, <3>1
        <3>3. m \in DOMAIN waiting /\ \E p \in DOMAIN waiting[m] : waiting[m][p] = d
            BY <3>1, <3>2 DEF LinesFit
        <3>4. CASE m = mutex
            <4>1. PICK p \in DOMAIN s : s[p] = d
                BY <1>3, <3>3, <3>4
            <4>2. PICK q \in DOMAIN t : was[q] = p
                BY <1>5, <1>17, <3>2, <4>1
            <4>3. t[q] = d
                BY <1>16, <4>1, <4>2
            <4> QED BY <1>9, <3>2, <3>3, <3>4, <4>3
        <3>5. CASE m # mutex
            BY <1>9, <3>2, <3>3, <3>5
        <3> QED BY <3>4, <3>5
    <2>2. ASSUME NEW m \in DOMAIN waiting', NEW p \in DOMAIN waiting'[m]
          PROVE  /\ queued'[waiting'[m][p]].pc \in {"queued", "active"}
                 /\ queued'[waiting'[m][p]].mutex = m
        <3>1. PICK e : e = waiting'[m][p]
            OBVIOUS
        <3>2. e \in Queued /\ e # c /\ InLine(e) /\ queued[e].mutex = m
            <4>1. CASE m = mutex
                <5>1. p \in DOMAIN t /\ e = t[p]
                    BY <1>9, <2>2, <3>1, <4>1
                <5>2. was[p] \in DOMAIN waiting[mutex] /\ e = waiting[mutex][was[p]]
                    BY <1>3, <1>14, <1>16, <5>1
                <5>3. e # c
                    BY <1>19, <5>1
                <5>4. e \in Queued /\ InLine(e) /\ queued[e].mutex = mutex
                    BY <1>5, <1>21, <5>2
                <5> QED BY <4>1, <5>3, <5>4
            <4>2. CASE m # mutex
                <5>1. m \in DOMAIN waiting /\ p \in DOMAIN waiting[m] /\ e = waiting[m][p]
                    BY <1>9, <2>2, <3>1, <4>2
                <5>2. e \in Queued /\ InLine(e) /\ queued[e].mutex = m
                    BY <1>21, <5>1
                <5> QED BY <1>2, <4>2, <5>2
            <4> QED BY <4>1, <4>2
        <3>3. InLine(e)' /\ queued'[e].mutex = m
            BY <1>20, <3>2
        <3> QED BY <3>1, <3>3 DEF InLine
    <2>3. ASSUME NEW m \in DOMAIN waiting', NEW p \in DOMAIN waiting'[m], NEW q \in DOMAIN waiting'[m],
                 waiting'[m][p] = waiting'[m][q]
          PROVE  p = q
        <3>1. CASE m = mutex
            <4>1. p \in DOMAIN t /\ q \in DOMAIN t /\ t[p] = t[q]
                BY <1>9, <2>3, <3>1
            <4>2. was[p] = was[q]
                BY <1>14, <1>16, <1>18, <4>1
            <4>3. p \in Nat /\ q \in Nat /\ was[p] \in Nat
                BY <1>13, <1>14, <4>1
            <4>4. ~ (was[p] < was[q]) /\ ~ (was[q] < was[p])
                BY <4>2, <4>3
            <4> QED BY <1>15, <4>1, <4>3, <4>4
        <3>2. CASE m # mutex
            BY <1>9, <2>3, <3>2 DEF LinesFit
        <3> QED BY <3>1, <3>2
    <2>4. ASSUME NEW d \in Queued, queued'[d].pc = "active" PROVE waiting'[queued'[d].mutex][1] = d
        <3>1. d # c /\ queued[d].pc = "active" /\ queued'[d].mutex = queued[d].mutex
            BY <1>1, <2>4
        <3>2. PICK m : m = queued[d].mutex
            OBVIOUS
        <3>3. m \in DOMAIN waiting /\ waiting[m][1] = d /\ \E p \in DOMAIN waiting[m] : waiting[m][p] = d
            BY <3>1, <3>2 DEF LinesFit, InLine
        <3>4. CASE m = mutex
            <4>1. s[1] = d /\ 1 # k /\ 1 \in DOMAIN s
                <5>1. s[1] = d /\ Len(s) > 0
                    BY <1>3, <1>13, <3>3, <3>4
                <5> QED BY <1>5, <1>13, <3>1, <5>1
            <4>2. 1 < k /\ 1 \in DOMAIN t
                BY <1>13, <4>1
            <4>3. t[1] = d
                BY <1>7, <4>1, <4>2
            <4> QED BY <1>9, <3>1, <3>2, <3>4, <4>3
        <3>5. CASE m # mutex
            BY <1>9, <3>1, <3>2, <3>3, <3>5
        <3> QED BY <3>4, <3>5
    <2> QED BY <2>1, <2>2, <2>3, <2>4 DEF LinesFit, InLine
<1>23. \A i \in DOMAIN order : order[i] \in Queued
    BY DEF LineTypes
<1>24. OrderFits'
    <2>1. \A i \in DOMAIN order' : queued'[order'[i]].pc # "idle"
        BY <1>1, <1>23 DEF OrderFits
    <2>2. ASSUME NEW m \in DOMAIN waiting', NEW p \in DOMAIN waiting'[m], NEW q \in DOMAIN waiting'[m],
                 NEW i \in DOMAIN order, NEW j \in DOMAIN order,
                 p < q, order[i] = waiting'[m][p], order[j] = waiting'[m][q]
          PROVE  i < j
        <3>1. CASE m = mutex
            <4>1. p \in DOMAIN t /\ q \in DOMAIN t /\ order[i] = t[p] /\ order[j] = t[q]
                BY <1>9, <2>2, <3>1
            <4>2. was[p] < was[q] /\ was[p] \in DOMAIN waiting[mutex] /\ was[q] \in DOMAIN waiting[mutex]
                BY <1>3, <1>14, <1>15, <2>2, <4>1
            <4>3. order[i] = waiting[mutex][was[p]] /\ order[j] = waiting[mutex][was[q]]
                BY <1>3, <1>16, <4>1
            <4> QED BY <1>5, <4>2, <4>3 DEF OrderFits
        <3>2. CASE m # mutex
            BY <1>9, <2>2, <3>2 DEF OrderFits
        <3> QED BY <3>1, <3>2
    <2>3. \A i, j \in DOMAIN order' : order'[i] = order'[j] => i = j
        BY DEF OrderFits
    <2> QED BY <2>1, <2>2, <2>3 DEF OrderFits
<1>25. MutexesFit'
    BY <1>9, <1>20 DEF MutexesFit
<1>26. Queue!FirstComeFirstServed'
    <2>1. ASSUME NEW i \in DOMAIN order, NEW j \in DOMAIN order, i < j,
                 queued'[order[i]].mutex = queued'[order[j]].mutex, queued'[order[i]].pc = "queued"
          PROVE  queued'[order[j]].pc \in {"queued", "dropped"}
        <3>1. PICK x, y : x = order[i] /\ y = order[j]
            OBVIOUS
        <3>2. x \in Queued /\ y \in Queued
            BY <1>23, <3>1
        <3>3. x # c /\ queued[x].pc = "queued" /\ queued[x].mutex = queued[y].mutex
            BY <1>1, <1>20, <2>1, <3>1, <3>2
        <3>4. queued[y].pc \in {"queued", "dropped"}
            BY <2>1, <3>1, <3>3 DEF Queue!FirstComeFirstServed
        <3> QED BY <1>1, <3>1, <3>2, <3>4
    <2> QED BY <2>1 DEF Queue!FirstComeFirstServed
<1> QED BY <1>11, <1>22, <1>24, <1>25, <1>26

(* CommitQueue counts with the operators of its own FiniteSets.            *)
LEMMA SameCardinality == \A S : Queue!Cardinality(S) = Cardinality(S)
BY Zenon DEF Cardinality, Queue!Cardinality, IsFiniteSet, Queue!IsFiniteSet

(* While the mutex of a bus is cached the calls of the bus share it, and   *)
(* only the first of a line runs.                                          *)
LEMMA OneAtATime == QueueInv => Queue!OverlapOnlyAfterEviction
<1> SUFFICES ASSUME QueueInv, NEW b \in Buses, b \notin evicted
             PROVE  ~ (Queue!Cardinality(Queue!Active(b)) > 1)
    BY DEF Queue!OverlapOnlyAfterEviction
<1> USE DEF QueueInv
<1>1. \A c, d \in Queue!Active(b) : c = d
    <2>1. ASSUME NEW c \in Queue!Active(b), NEW d \in Queue!Active(b) PROVE c = d
        <3>1. /\ c \in Queued /\ queued[c].pc = "active" /\ queued[c].bus = b /\ InLine(c)
              /\ d \in Queued /\ queued[d].pc = "active" /\ queued[d].bus = b /\ InLine(d)
            BY DEF Queue!Active, InLine
        <3>2. PICK i \in DOMAIN mutexes : mutexes[i] = <<b, queued[c].mutex>>
            BY <3>1 DEF MutexesFit
        <3>3. PICK j \in DOMAIN mutexes : mutexes[j] = <<b, queued[d].mutex>>
            BY <3>1 DEF MutexesFit
        <3>4. mutexes[i][1] = mutexes[j][1]
            BY <3>2, <3>3
        <3>5. i = j
            BY <3>4 DEF MutexesFit
        <3>6. queued[c].mutex = queued[d].mutex
            BY <3>2, <3>3, <3>5
        <3> QED BY <3>1, <3>6 DEF LinesFit
    <2> QED BY <2>1
<1>2. PICK S : S = Queue!Active(b)
    OBVIOUS
<1>3. Cardinality(S) \in {0, 1}
    <2>1. CASE S = {}
        BY <2>1, FS_EmptySet
    <2>2. CASE S # {}
        <3>1. PICK x : x \in S
            BY <2>2
        <3>2. S = {x}
            BY <1>1, <1>2, <3>1
        <3> QED BY <3>2, FS_Singleton
    <2> QED BY <2>1, <2>2
<1> QED BY <1>2, <1>3, SameCardinality

(* A finished or dropped call releases its place, whoever is behind it.    *)
LEMMA QueueStep ==
    ASSUME QueueInv, Queue!QueueAssumption, [Queue!Next]_Queue!vars
    PROVE  QueueInv'
<1>1. CASE UNCHANGED Queue!vars
    BY <1>1 DEF Queue!vars, QueueInv, LineTypes, LinesFit, OrderFits, MutexesFit, InLine,
                Queue!FirstComeFirstServed
<1>2. ASSUME NEW c \in Queued, NEW b \in Buses, Queue!Submit(c, b) PROVE QueueInv'
    BY <1>2, QueueSubmit
<1>3. ASSUME NEW c \in Queued, Queue!Start(c) PROVE QueueInv'
    BY <1>3, QueueStart
<1>4. ASSUME NEW c \in Queued, Queue!Finish(c) PROVE QueueInv'
    BY <1>4, QueueLeave DEF Queue!Finish, InLine
<1>5. ASSUME NEW c \in Queued, Queue!Drop(c) PROVE QueueInv'
    BY <1>5, QueueLeave DEF Queue!Drop, Queue!Release, InLine
<1> QED BY <1>1, <1>2, <1>3, <1>4, <1>5 DEF Queue!Next

(* BufferingCommitService (buffering.rs): for every number of calls, buses *)
(* and cached mutexes, whoever drops a call and whenever, two commits of a *)
(* bus run at the same time only after its mutex was evicted from the      *)
(* cache while calls used it, and a call never starts before one that      *)
(* asked for the same mutex earlier and still waits.                       *)
THEOREM CommitsTakeTurns ==
    ASSUME Queue!QueueAssumption
    PROVE  Queue!Spec => []CommitsInTurn
<1>1. Queue!Init => QueueInv
    BY QueueInit
<1>2. QueueInv /\ [Queue!Next]_Queue!vars => QueueInv'
    BY QueueStep
<1>3. QueueInv => CommitsInTurn
    BY OneAtATime DEF QueueInv, CommitsInTurn
<1> QED BY <1>1, <1>2, <1>3, PTL DEF Queue!Spec

=============================================================================
