--------------------------- MODULE StorageProofs ----------------------------
(***************************************************************************)
(* Theorems about SqliteStore, for every number of drives, connections,    *)
(* processes, entries, retries and faults, about ConditionalSpace, for     *)
(* every backend, number of clients, addresses, requests and lost answers, *)
(* and about the caches, for every lifetime, limit and size of values.     *)
(*                                                                         *)
(* What a sequence of values weighs is a recursion over the sequence; the  *)
(* facts about it are proved by the least place at which they would fail.  *)
(***************************************************************************)
EXTENDS StorageStack, FiniteSetTheorems, SequenceTheorems, WellFoundedInduction, TLAPS

Folded(n) == [i \in 1 .. (n + 1) |-> i - 1]

JobType ==
    [id : Drives \X Nat, stage : Results \cup {"queued", "running", "writing"},
     live : BOOLEAN, expected : Int, position : Int, value : Seq(Int)]

(* What a drive is about to do rests on what it has read: it is never more *)
(* than one entry ahead of the row, and reads again after a rejection only *)
(* when the row has its entry.                                             *)
DriveOK(d) ==
    /\ drive[d].entry <= row.position + 1
    /\ drive[d].pc \in {"load", "wait"} /\ drive[d].casRetried =>
         row.position >= drive[d].entry

(* A job carries the successor of a state the row has had, and a result    *)
(* of a put that met the row means that the row has the job's entry.       *)
JobOK(j) ==
    /\ j.expected <= row.position
    /\ j.position = j.expected + 1
    /\ j.value = Folded(j.position)
    /\ j.stage \in {"true", "false"} => row.position >= j.position

(* A drive waits for the job that carries its current number, and that job *)
(* is about its entry.                                                     *)
NumberOK(j) ==
    /\ j.id[2] <= attempts[j.id[1]]
    /\ drive[j.id[1]].pc = "wait" /\ j.id[2] = attempts[j.id[1]] =>
         j.position = drive[j.id[1]].entry

StoreTypes ==
    /\ row \in [position : Int, value : Seq(Int)] /\ row.position >= -1
    /\ drive \in [Drives -> [pc : {"load", "wait", "end", "failed"}, entry : Nat,
                             retries : Nat, casRetried : BOOLEAN]]
    /\ attempts \in [Drives -> Nat]
    /\ jobs \subseteq JobType

FoldInv ==
    /\ StoreTypes
    /\ row.value = Folded(row.position)
    /\ \A d \in Drives : DriveOK(d)
    /\ \A j \in jobs : JobOK(j) /\ NumberOK(j)

-----------------------------------------------------------------------------
(* The successor of a folded state is the next folded state.               *)
LEMMA FoldNext ==
    ASSUME NEW n \in Int, n >= -1
    PROVE  /\ Append(Folded(n), n + 1) = Folded(n + 1)
           /\ Folded(n) \in Seq(Int)
<1>1. Folded(n) \in Seq(Int) /\ Len(Folded(n)) = n + 1
  <2>1. n + 1 \in Nat
    OBVIOUS
  <2>2. \A i \in 1 .. (n + 1) : i - 1 \in Int
    OBVIOUS
  <2> QED  BY <2>1, <2>2 DEF Folded
<1>2. Folded(n + 1) = [i \in 1 .. (n + 2) |-> i - 1]
  BY DEF Folded
<1>3. Append(Folded(n), n + 1) = [i \in 1 .. (n + 2) |-> IF i = n + 2 THEN n + 1 ELSE Folded(n)[i]]
  BY <1>1
<1>4. \A i \in 1 .. (n + 2) : (IF i = n + 2 THEN n + 1 ELSE Folded(n)[i]) = i - 1
  BY DEF Folded
<1> QED  BY <1>1, <1>2, <1>3, <1>4

LEMMA FoldInit == Init => FoldInv
<1> SUFFICES ASSUME Init PROVE FoldInv
  OBVIOUS
<1>1. StoreTypes
  BY DEF Init, StoreTypes, Start, NoRow
<1>2. row.value = Folded(row.position)
  <2>1. <<>> = [i \in 1 .. 0 |-> i - 1]
    OBVIOUS
  <2> QED  BY <2>1 DEF Init, Folded, NoRow
<1>3. \A d \in Drives : DriveOK(d)
  BY DEF Init, DriveOK, Start, NoRow
<1> QED  BY <1>1, <1>2, <1>3 DEF FoldInv, Init

-----------------------------------------------------------------------------
(* A job after a step is a job before it, perhaps in another stage, but    *)
(* not with the result of a statement.                                     *)
SamePut(k, j) ==
    /\ k.id = j.id /\ k.expected = j.expected
    /\ k.position = j.position /\ k.value = j.value

CarriedOn(k, j) == SamePut(k, j) /\ (k.stage = j.stage \/ k.stage \notin {"true", "false"})

(* A step that leaves the row alone, starts drives over or not, and moves  *)
(* jobs without running their statement.                                   *)
LEMMA JobsCarryOn ==
    ASSUME FoldInv, row' = row, attempts' = attempts,
           DOMAIN drive' = Drives, drive' = [d \in Drives |-> drive'[d]],
           \A d \in Drives : drive'[d] = drive[d] \/ drive'[d] = Start,
           jobs' \subseteq JobType,
           \A k \in jobs' : \E j \in jobs : CarriedOn(k, j)
    PROVE  FoldInv'
<1>1. StoreTypes'
  <2>1. \A d \in Drives : drive'[d] \in [pc : {"load", "wait", "end", "failed"}, entry : Nat,
                                         retries : Nat, casRetried : BOOLEAN]
    <3> TAKE d \in Drives
    <3>1. CASE drive'[d] = drive[d]
      BY <3>1 DEF FoldInv, StoreTypes
    <3>2. CASE drive'[d] = Start
      BY <3>2 DEF Start
    <3> QED  BY <3>1, <3>2
  <2> QED  BY <2>1 DEF FoldInv, StoreTypes
<1>2. (row.value = Folded(row.position))'
  BY DEF FoldInv, Folded
<1>3. ASSUME NEW d \in Drives PROVE DriveOK(d)'
  BY DEF FoldInv, DriveOK, Start, StoreTypes
<1>4. ASSUME NEW k \in jobs' PROVE JobOK(k)' /\ NumberOK(k)'
  <2>1. PICK j \in jobs : CarriedOn(k, j)
    OBVIOUS
  <2>2. JobOK(j) /\ NumberOK(j) /\ j \in JobType /\ k \in JobType
    BY DEF FoldInv, StoreTypes
  <2>3. JobOK(k)'
    BY <2>1, <2>2 DEF JobOK, CarriedOn, SamePut, Folded
  <2>4. j.id[1] \in Drives
    BY <2>2 DEF JobType
  <2>5. NumberOK(k)'
    BY <2>1, <2>2, <2>4 DEF NumberOK, CarriedOn, SamePut, Start
  <2> QED  BY <2>3, <2>5
<1> QED  BY <1>1, <1>2, <1>3, <1>4 DEF FoldInv

LEMMA RestageType ==
    ASSUME NEW j \in JobType, NEW s \in Results \cup {"queued", "running", "writing"}
    PROVE  [j EXCEPT !.stage = s] \in JobType /\ [j EXCEPT !.stage = s].stage = s
           /\ SamePut([j EXCEPT !.stage = s], j)
BY DEF JobType, SamePut

(* Jobs that end without running their statement.                          *)
LEMMA EndedCarryOn ==
    ASSUME FoldInv, NEW j \in jobs, NEW s \in {"conflict", "error"}, jobs' = Ended(j, s)
    PROVE  jobs' \subseteq JobType /\ \A k \in jobs' : \E i \in jobs : CarriedOn(k, i)
<1>1. j \in JobType /\ s \in Results /\ jobs \subseteq JobType
  BY DEF FoldInv, StoreTypes, Results
<1>2. [j EXCEPT !.stage = s] \in JobType /\ CarriedOn([j EXCEPT !.stage = s], j)
  BY <1>1, RestageType DEF CarriedOn
<1>3. \A k \in jobs' : k \in jobs \/ k = [j EXCEPT !.stage = s]
  BY DEF Ended
<1>4. \A k \in jobs : CarriedOn(k, k)
  BY DEF CarriedOn, SamePut
<1> QED  BY <1>1, <1>2, <1>3, <1>4

LEMMA MovedCarryOn ==
    ASSUME FoldInv, NEW j \in jobs, NEW s \in {"running", "writing"},
           jobs' = (jobs \ {j}) \cup {[j EXCEPT !.stage = s]}
    PROVE  jobs' \subseteq JobType /\ \A k \in jobs' : \E i \in jobs : CarriedOn(k, i)
<1>1. j \in JobType /\ jobs \subseteq JobType
  BY DEF FoldInv, StoreTypes
<1>2. [j EXCEPT !.stage = s] \in JobType /\ CarriedOn([j EXCEPT !.stage = s], j)
  BY <1>1, RestageType DEF CarriedOn
<1>4. \A k \in jobs : CarriedOn(k, k)
  BY DEF CarriedOn, SamePut
<1> QED  BY <1>1, <1>2, <1>4

LEMMA DrivesStay ==
    ASSUME FoldInv, drive' = drive
    PROVE  /\ DOMAIN drive' = Drives /\ drive' = [d \in Drives |-> drive'[d]]
           /\ \A d \in Drives : drive'[d] = drive[d] \/ drive'[d] = Start
BY DEF FoldInv, StoreTypes

-----------------------------------------------------------------------------
(* One lemma per action.                                                   *)

LEMMA FoldLock == ASSUME FoldInv, NEW j \in jobs, Lock(j) PROVE FoldInv'
<1>1. jobs' \subseteq JobType /\ \A k \in jobs' : \E i \in jobs : CarriedOn(k, i)
  BY EndedCarryOn, MovedCarryOn DEF Lock
<1> QED  BY <1>1, JobsCarryOn, DrivesStay DEF Lock

LEMMA FoldBegin == ASSUME FoldInv, NEW j \in jobs, Begin(j) PROVE FoldInv'
<1>1. jobs' \subseteq JobType /\ \A k \in jobs' : \E i \in jobs : CarriedOn(k, i)
  BY MovedCarryOn DEF Begin
<1> QED  BY <1>1, JobsCarryOn, DrivesStay DEF Begin

LEMMA FoldBusy == ASSUME FoldInv, NEW j \in jobs, Busy(j) PROVE FoldInv'
<1>1. jobs' \subseteq JobType /\ \A k \in jobs' : \E i \in jobs : CarriedOn(k, i)
  BY EndedCarryOn DEF Busy, BusyResult
<1> QED  BY <1>1, JobsCarryOn, DrivesStay DEF Busy

LEMMA FoldPanic == ASSUME FoldInv, NEW j \in jobs, Panic(j) PROVE FoldInv'
<1>1. jobs' \subseteq JobType /\ \A k \in jobs' : \E i \in jobs : CarriedOn(k, i)
  BY EndedCarryOn DEF Panic
<1> QED  BY <1>1, JobsCarryOn, DrivesStay DEF Panic

(* A step that leaves the jobs alone, or takes some away.                  *)
LEMMA FewerCarryOn ==
    ASSUME FoldInv, jobs' \subseteq jobs
    PROVE  jobs' \subseteq JobType /\ \A k \in jobs' : \E i \in jobs : CarriedOn(k, i)
BY DEF FoldInv, StoreTypes, CarriedOn, SamePut

LEMMA FoldBus == ASSUME FoldInv, BusWrite PROVE FoldInv'
BY FewerCarryOn, JobsCarryOn, DrivesStay DEF BusWrite

LEMMA FoldCrash == ASSUME FoldInv, NEW p \in Processes, Crash(p) PROVE FoldInv'
<1>1. jobs' \subseteq jobs /\ row' = row /\ attempts' = attempts
  BY DEF Crash
<1>2. drive' = [d \in Drives |-> IF ProcessOf[ConnOf[d]] = p THEN Start ELSE drive[d]]
  BY DEF Crash
<1> QED  BY <1>1, <1>2, FewerCarryOn, JobsCarryOn

LEMMA FoldDrop == ASSUME FoldInv, NEW d \in Drives, Drop(d) PROVE FoldInv'
<1>1. row' = row /\ attempts' = attempts /\ drive' = [drive EXCEPT ![d] = Start]
  BY DEF Drop
<1>2. ASSUME NEW k \in jobs' PROVE k \in JobType /\ \E j \in jobs : CarriedOn(k, j)
  <2>1. PICK j \in jobs : k = j \/ k = [j EXCEPT !.live = FALSE]
    BY DEF Drop
  <2>2. j \in JobType
    BY DEF FoldInv, StoreTypes
  <2>3. k \in JobType /\ CarriedOn(k, j)
    BY <2>1, <2>2 DEF JobType, CarriedOn, SamePut
  <2> QED  BY <2>3
<1>3. drive \in [Drives -> [pc : {"load", "wait", "end", "failed"}, entry : Nat,
                            retries : Nat, casRetried : BOOLEAN]]
  BY DEF FoldInv, StoreTypes
<1> QED  BY <1>1, <1>2, <1>3, JobsCarryOn

AfterCommit(k, i, j) ==
    SamePut(k, i) /\ (k.stage = i.stage \/ (i = j /\ k.stage \in {"true", "false"}))

(* The statement: it changes the row only to the successor of the row.     *)
LEMMA FoldCommit == ASSUME FoldInv, NEW j \in jobs, Commit(j) PROVE FoldInv'
<1>1. /\ j \in JobType /\ JobOK(j) /\ jobs \subseteq JobType /\ StoreTypes
      /\ row.position \in Int /\ row.position >= -1
  BY DEF FoldInv, StoreTypes
<1>2. drive' = drive /\ attempts' = attempts
  BY DEF Commit
<1>3. /\ row' = IF RowChanges(j) THEN [position |-> j.position, value |-> j.value] ELSE row
      /\ jobs' = Ended(j, IF RowChanges(j) THEN "true" ELSE "false")
  BY DEF Commit
<1>4. RowChanges(j) => j.expected = row.position
  BY DEF RowChanges
<1>5. ~ RowChanges(j) => row.position >= j.position
  BY <1>1 DEF RowChanges, JobOK, JobType
<1>6. /\ row' \in [position : Int, value : Seq(Int)]
      /\ row'.position >= row.position
      /\ row'.position >= j.position
      /\ row'.value = Folded(row'.position)
  BY <1>1, <1>3, <1>4, <1>5 DEF JobOK, JobType, StoreTypes, FoldInv
<1>7. ASSUME NEW k \in jobs'
      PROVE  k \in JobType /\ \E i \in jobs : AfterCommit(k, i, j)
  <2> DEFINE s == IF RowChanges(j) THEN "true" ELSE "false"
  <2>1. k \in jobs \/ k = [j EXCEPT !.stage = s]
    BY <1>3 DEF Ended
  <2>2. CASE k \in jobs
    BY <2>2, <1>1 DEF AfterCommit, SamePut
  <2>4. s \in {"true", "false"} /\ s \in Results
    BY DEF Results
  <2> HIDE DEF s
  <2>3. CASE k \notin jobs
    BY <2>1, <2>3, <2>4, <1>1, RestageType DEF AfterCommit
  <2> QED  BY <2>2, <2>3
<1>8. StoreTypes'
  BY <1>1, <1>2, <1>6, <1>7 DEF StoreTypes
<1>9. ASSUME NEW d \in Drives PROVE DriveOK(d)'
  BY <1>1, <1>2, <1>6 DEF FoldInv, DriveOK, StoreTypes
<1>10. ASSUME NEW k \in jobs' PROVE JobOK(k)' /\ NumberOK(k)'
  <2>1. PICK i \in jobs : AfterCommit(k, i, j)
    BY <1>7
  <2>2. JobOK(i) /\ NumberOK(i) /\ i \in JobType /\ k \in JobType
    BY <1>1, <1>7 DEF FoldInv
  <2>3. JobOK(k)'
    <3>1. k.expected <= row'.position /\ k.position = k.expected + 1
      BY <2>1, <2>2, <1>1, <1>6 DEF JobOK, AfterCommit, SamePut, JobType
    <3>2. k.stage \in {"true", "false"} => row'.position >= k.position
      BY <2>1, <2>2, <1>1, <1>6 DEF JobOK, AfterCommit, SamePut, JobType
    <3>3. k.value = Folded(k.position)
      BY <2>1, <2>2 DEF JobOK, AfterCommit, SamePut
    <3> QED  BY <3>1, <3>2, <3>3 DEF JobOK, Folded
  <2>4. NumberOK(k)'
    BY <2>1, <2>2, <1>2 DEF NumberOK, AfterCommit, SamePut
  <2> QED  BY <2>3, <2>4
<1>11. (row.value = Folded(row.position))'
  BY <1>6 DEF Folded
<1> QED  BY <1>8, <1>9, <1>10, <1>11 DEF FoldInv

DriveType == [pc : {"load", "wait", "end", "failed"}, entry : Nat,
              retries : Nat, casRetried : BOOLEAN]

(* A drive leaves "wait", or stays out of it, and the other drives, the    *)
(* row and the numbering stay as they are.                                 *)
LEMMA OneDriveMoves ==
    ASSUME FoldInv, NEW d \in Drives, NEW r \in DriveType,
           row' = row, attempts' = attempts, jobs' \subseteq jobs,
           drive' = [drive EXCEPT ![d] = r], r.pc # "wait",
           r.entry <= row.position + 1,
           r.pc = "load" /\ r.casRetried => row.position >= r.entry
    PROVE  FoldInv'
<1>1. StoreTypes'
  BY DEF FoldInv, StoreTypes, DriveType
<1>2. (row.value = Folded(row.position))'
  BY DEF FoldInv, Folded
<1>3. ASSUME NEW e \in Drives PROVE DriveOK(e)'
  BY DEF FoldInv, StoreTypes, DriveOK, DriveType
<1>4. ASSUME NEW k \in jobs' PROVE JobOK(k)' /\ NumberOK(k)'
  <2>1. k \in JobType /\ JobOK(k) /\ NumberOK(k) /\ k.id[1] \in Drives
    BY DEF FoldInv, StoreTypes, JobType
  <2>2. JobOK(k)'
    BY <2>1 DEF JobOK, Folded
  <2>3. NumberOK(k)'
    BY <2>1 DEF NumberOK, FoldInv, StoreTypes
  <2> QED  BY <2>2, <2>3
<1> QED  BY <1>1, <1>2, <1>3, <1>4 DEF FoldInv

(* The fields of a drive's possible next places.                           *)
LEMMA NextEntryFields ==
    ASSUME NEW d \in Drives, drive[d] \in DriveType
    PROVE  /\ NextEntry(d) \in DriveType /\ NextEntry(d).pc # "wait"
           /\ NextEntry(d).entry = drive[d].entry + 1 /\ ~ NextEntry(d).casRetried
<1> DEFINE p == IF drive[d].entry = Last THEN "end" ELSE "load"
<1>1. NextEntry(d) = [Start EXCEPT !.entry = drive[d].entry + 1, !.pc = p]
  BY DEF NextEntry
<1>2. p \in {"load", "end"}
  OBVIOUS
<1>3. drive[d].entry + 1 \in Nat
  BY DEF DriveType
<1>4. Start \in DriveType /\ ~ Start.casRetried
  BY DEF DriveType, Start
<1> HIDE DEF p
<1> QED  BY <1>1, <1>2, <1>3, <1>4 DEF DriveType

LEMMA RetryFields ==
    ASSUME NEW d \in Drives, drive[d] \in DriveType, NEW c \in BOOLEAN
    PROVE  LET r == [drive[d] EXCEPT !.pc = "load", !.retries = @ + 1, !.casRetried = c]
           IN  /\ r \in DriveType /\ r.pc = "load"
               /\ r.entry = drive[d].entry /\ r.casRetried = c
<1> DEFINE n == drive[d].retries + 1
<1>1. n \in Nat
  BY DEF DriveType
<1>2. [drive[d] EXCEPT !.pc = "load", !.retries = @ + 1, !.casRetried = c]
        = [drive[d] EXCEPT !.pc = "load", !.retries = n, !.casRetried = c]
  BY DEF DriveType
<1> HIDE DEF n
<1> QED  BY <1>1, <1>2 DEF DriveType

LEMMA BackoffFields ==
    ASSUME NEW d \in Drives, drive[d] \in DriveType
    PROVE  LET r == [drive[d] EXCEPT !.pc = "load", !.retries = @ + 1]
           IN  /\ r \in DriveType /\ r.pc = "load"
               /\ r.entry = drive[d].entry /\ r.casRetried = drive[d].casRetried
<1> DEFINE n == drive[d].retries + 1
<1>1. n \in Nat
  BY DEF DriveType
<1>2. [drive[d] EXCEPT !.pc = "load", !.retries = @ + 1]
        = [drive[d] EXCEPT !.pc = "load", !.retries = n]
  BY DEF DriveType
<1> HIDE DEF n
<1> QED  BY <1>1, <1>2 DEF DriveType

LEMMA FailedFields ==
    ASSUME NEW d \in Drives, drive[d] \in DriveType
    PROVE  /\ Failed(d) \in DriveType /\ Failed(d).pc = "failed"
           /\ Failed(d).entry = drive[d].entry
BY DEF DriveType, Failed

LEMMA FoldAnswer == ASSUME FoldInv, NEW d \in Drives, Answer(d) PROVE FoldInv'
<1>1. PICK j \in jobs : /\ j.id = <<d, attempts[d]>> /\ j.stage \in Results
                        /\ jobs' = jobs \ {j}
                        /\ drive' = [drive EXCEPT ![d] = After(d, j.stage)]
  BY DEF Answer
<1>2. /\ drive[d].pc = "wait" /\ row' = row /\ attempts' = attempts
  BY DEF Answer
<1>3. /\ JobOK(j) /\ NumberOK(j) /\ DriveOK(d) /\ drive[d] \in DriveType
      /\ row.position \in Int
  BY DEF FoldInv, StoreTypes, DriveType
<1>4. j.position = drive[d].entry
  BY <1>1, <1>2, <1>3 DEF NumberOK, FoldInv, StoreTypes, JobType
<1>5. j.stage \in {"true", "false"} => row.position >= drive[d].entry
  BY <1>3, <1>4 DEF JobOK
<1> DEFINE r == After(d, j.stage)
<1>6. /\ r \in DriveType /\ r.pc # "wait" /\ r.entry <= row.position + 1
      /\ r.pc = "load" /\ r.casRetried => row.position >= r.entry
  <2>1. CASE j.stage = "true"
    <3>1. r = NextEntry(d)
      BY <2>1 DEF After
    <3>2. drive[d].entry \in Nat
      BY <1>3 DEF DriveType
    <3> HIDE DEF r
    <3> QED  BY <3>1, <3>2, <2>1, <1>3, <1>5, NextEntryFields
  <2>2. CASE j.stage = "false"
    <3>1. r = [drive[d] EXCEPT !.pc = "load", !.retries = @ + 1, !.casRetried = TRUE]
          \/ r = Failed(d)
      BY <2>2 DEF After
    <3> HIDE DEF r
    <3> QED  BY <3>1, <2>2, <1>3, <1>5, RetryFields, FailedFields DEF DriveOK
  <2>3. CASE j.stage \in {"conflict", "error"}
    <3>1. r = [drive[d] EXCEPT !.pc = "load", !.retries = @ + 1] \/ r = Failed(d)
      BY <2>3 DEF After
    <3> HIDE DEF r
    <3>3. CASE r = Failed(d)
      BY <3>3, <1>3, FailedFields DEF DriveOK
    <3>4. CASE r = [drive[d] EXCEPT !.pc = "load", !.retries = @ + 1]
      <4>1. /\ r \in DriveType /\ r.pc = "load" /\ r.entry = drive[d].entry
            /\ r.casRetried = drive[d].casRetried
        BY <3>4, <1>3, BackoffFields
      <4> QED  BY <4>1, <1>2, <1>3 DEF DriveOK
    <3> QED  BY <3>1, <3>3, <3>4
  <2> QED  BY <2>1, <2>2, <2>3, <1>1 DEF Results
<1> HIDE DEF r
<1>7. drive' = [drive EXCEPT ![d] = r]
  BY <1>1 DEF r
<1> QED  BY <1>1, <1>2, <1>6, <1>7, OneDriveMoves

(* The put that a drive makes carries the successor of what it read.       *)
LEMMA FoldLoad == ASSUME FoldInv, NEW d \in Drives, Load(d) PROVE FoldInv'
<1> DEFINE entry == drive[d].entry
           put == [id |-> <<d, attempts[d] + 1>>, stage |-> "queued", live |-> TRUE,
                   expected |-> row.position, position |-> entry,
                   value |-> Append(row.value, entry)]
<1>1. /\ DriveOK(d) /\ drive[d] \in DriveType /\ drive[d].pc = "load"
      /\ row.position \in Int /\ row.position >= -1 /\ entry \in Nat
      /\ row' = row /\ row.value = Folded(row.position)
  BY DEF FoldInv, StoreTypes, DriveType, Load
<1>2. CASE drive' = [drive EXCEPT ![d] = Failed(d)] /\ UNCHANGED <<jobs, attempts>>
  <2>1. /\ Failed(d) \in DriveType /\ Failed(d).pc = "failed"
        /\ Failed(d).entry <= row.position + 1
    BY <1>1, FailedFields DEF DriveOK
  <2> QED  BY <2>1, <1>1, <1>2, OneDriveMoves
<1>3. CASE /\ row.position >= entry
           /\ drive' = [drive EXCEPT ![d] = NextEntry(d)] /\ UNCHANGED <<jobs, attempts>>
  <2>1. /\ NextEntry(d) \in DriveType /\ NextEntry(d).pc # "wait"
        /\ NextEntry(d).entry <= row.position + 1 /\ ~ NextEntry(d).casRetried
    BY <1>1, <1>3, NextEntryFields
  <2> QED  BY <2>1, <1>1, <1>3, OneDriveMoves
<1>4. CASE /\ row.position < entry
           /\ jobs' = jobs \cup {put}
           /\ attempts' = [attempts EXCEPT ![d] = @ + 1]
           /\ drive' = [drive EXCEPT ![d].pc = "wait"]
  <2>1. entry = row.position + 1 /\ ~ drive[d].casRetried
    BY <1>1, <1>4 DEF DriveOK
  <2>2. Append(row.value, entry) = Folded(entry) /\ Folded(entry) \in Seq(Int)
    <3>1. Append(Folded(row.position), row.position + 1) = Folded(row.position + 1)
      BY <1>1, FoldNext
    <3>2. Folded(row.position + 1) \in Seq(Int)
      BY <1>1, FoldNext
    <3> QED  BY <3>1, <3>2, <2>1, <1>1
  <2>10. PICK p : p = put
    OBVIOUS
  <2>11. /\ p.id = <<d, attempts[d] + 1>> /\ p.stage = "queued" /\ p.live = TRUE
         /\ p.expected = row.position /\ p.position = entry
         /\ p.value = Append(row.value, entry)
    BY <2>10
  <2>3. p \in JobType
    <3>1. attempts[d] + 1 \in Nat
      BY DEF FoldInv, StoreTypes
    <3>2. Append(row.value, entry) \in Seq(Int)
      BY <2>2
    <3> QED  BY <3>1, <3>2, <2>10, <1>1 DEF JobType
  <2>4. /\ drive' = [drive EXCEPT ![d] = [drive[d] EXCEPT !.pc = "wait"]]
        /\ [drive[d] EXCEPT !.pc = "wait"] \in DriveType
    BY <1>1, <1>4 DEF DriveType
  <2>5. StoreTypes'
    <3>1. jobs' \subseteq JobType
      BY <2>3, <2>10, <1>4 DEF FoldInv, StoreTypes
    <3>2. attempts' \in [Drives -> Nat]
      BY <1>4 DEF FoldInv, StoreTypes
    <3>3. drive' \in [Drives -> DriveType]
      BY <2>4 DEF FoldInv, StoreTypes, DriveType
    <3> QED  BY <3>1, <3>2, <3>3, <1>1 DEF FoldInv, StoreTypes, DriveType
  <2>6. ASSUME NEW e \in Drives PROVE DriveOK(e)'
    BY <2>1, <2>4, <1>1 DEF FoldInv, StoreTypes, DriveOK, DriveType
  <2>7. ASSUME NEW k \in jobs PROVE JobOK(k)' /\ NumberOK(k)'
    <3>1. /\ k \in JobType /\ JobOK(k) /\ NumberOK(k)
          /\ k.id[1] \in Drives /\ k.id[2] \in Nat
      BY DEF FoldInv, StoreTypes, JobType
    <3>2. JobOK(k)'
      BY <3>1, <1>1 DEF JobOK, Folded
    <3>3. NumberOK(k)'
      <4>1. CASE k.id[1] = d
        BY <4>1, <3>1, <1>4 DEF NumberOK, FoldInv, StoreTypes
      <4>2. CASE k.id[1] # d
        BY <4>2, <3>1, <1>4, <2>4 DEF NumberOK, FoldInv, StoreTypes
      <4> QED  BY <4>1, <4>2
    <3> QED  BY <3>2, <3>3
  <2>8. JobOK(p)' /\ NumberOK(p)'
    <3>1. JobOK(p)'
      BY <2>1, <2>2, <2>11, <1>1 DEF JobOK, Folded
    <3>3. attempts'[d] = attempts[d] + 1 /\ attempts[d] \in Nat /\ drive'[d].entry = entry
      BY <1>1, <1>4, <2>4 DEF FoldInv, StoreTypes, DriveType
    <3>4. NumberOK(p)'
      BY <2>11, <3>3 DEF NumberOK
    <3> QED  BY <3>1, <3>4
  <2>9. (row.value = Folded(row.position))'
    BY <1>1 DEF Folded
  <2>12. jobs' = jobs \cup {p}
    BY <2>10, <1>4
  <2> QED  BY <2>5, <2>6, <2>7, <2>8, <2>9, <2>12 DEF FoldInv
<1> QED  BY <1>2, <1>3, <1>4, <1>1 DEF Load

LEMMA FoldStep == ASSUME FoldInv, [Next]_vars PROVE FoldInv'
<1>1. CASE UNCHANGED vars
  <2>1. jobs' \subseteq jobs /\ row' = row /\ attempts' = attempts /\ drive' = drive
    BY <1>1 DEF vars, store
  <2> QED  BY <2>1, FewerCarryOn, JobsCarryOn, DrivesStay
<1>2. CASE Next
  BY <1>2, FoldLoad, FoldAnswer, FoldDrop, FoldLock, FoldBegin, FoldBusy, FoldCommit,
     FoldPanic, FoldBus, FoldCrash DEF Next, Step
<1> QED  BY <1>1, <1>2

-----------------------------------------------------------------------------
(* Whatever races, is dropped, panics or crashes, the stored state has     *)
(* every entry up to its position, once and in order.                      *)
THEOREM FoldsInOrder == Spec => []FoldedInOrder
<1>1. FoldInv => FoldedInOrder
  BY DEF FoldInv, FoldedInOrder, Folded
<1> QED  BY <1>1, FoldInit, FoldStep, PTL DEF Spec

(* A drive that reads again after a rejected put finds its entry settled,  *)
(* which is why ConcurrencyRetryPolicy allows one such retry.              *)
THEOREM RejectionIsSettled == Spec => []RejectionSettles
<1>1. FoldInv => RejectionSettles
  BY DEF FoldInv, RejectionSettles, DriveOK
<1> QED  BY <1>1, FoldInit, FoldStep, PTL DEF Spec

-----------------------------------------------------------------------------
(* The refinement.  What the promise says of a put is what its job's stage *)
(* says, and no two jobs carry the same number.                            *)
JobsDiffer == \A j, k \in jobs : j.id = k.id => j = k

Known(id) == id \in Drives \X Nat /\ id[2] <= attempts[id[1]]

RecordsKnown ==
    /\ \A x \in done : Known(x.id)
    /\ \A x \in told : Known(x.id)

StageOK(j) ==
    /\ j.stage = "true" => [id |-> j.id, ok |-> TRUE] \in done
    /\ j.stage = "false" => [id |-> j.id, ok |-> FALSE] \in done
    /\ j.stage \notin {"true", "false"} => \A x \in done : x.id # j.id
    /\ \A x \in told : x.id # j.id

PromiseInv == FoldInv /\ JobsDiffer /\ RecordsKnown /\ \A j \in jobs : StageOK(j)

LEMMA PromiseInit == Init => PromiseInv
BY FoldInit DEF Init, PromiseInv, JobsDiffer, RecordsKnown

(* Steps that neither run a statement nor answer anybody.                  *)
LEMMA PromiseKept ==
    ASSUME PromiseInv, FoldInv', attempts' = attempts, done' = done, told' = told,
           JobsDiffer', \A k \in jobs' : \E j \in jobs : CarriedOn(k, j)
                                          /\ (k = j \/ k.stage = j.stage
                                              \/ j.stage \notin Results)
    PROVE  PromiseInv'
<1>1. RecordsKnown'
  BY DEF PromiseInv, RecordsKnown, Known
<1>2. ASSUME NEW k \in jobs' PROVE StageOK(k)'
  <2>1. PICK j \in jobs : CarriedOn(k, j)
                          /\ (k = j \/ k.stage = j.stage \/ j.stage \notin Results)
    OBVIOUS
  <2>2. StageOK(j)
    BY DEF PromiseInv
  <2> QED  BY <2>1, <2>2 DEF StageOK, CarriedOn, SamePut, Results
<1> QED  BY <1>1, <1>2 DEF PromiseInv

(* A job that moves on keeps its number, and so does one that ends.        *)
LEMMA MovedPromise ==
    ASSUME PromiseInv, NEW j \in jobs, j.stage \notin Results,
           NEW s \in {"running", "writing", "conflict", "error"},
           FoldInv', attempts' = attempts, done' = done, told' = told,
           \/ jobs' = (jobs \ {j}) \cup {[j EXCEPT !.stage = s]}
           \/ jobs' = jobs \ {j}
    PROVE  PromiseInv'
<1>1. j \in JobType /\ jobs \subseteq JobType /\ JobsDiffer
  BY DEF PromiseInv, FoldInv, StoreTypes
<1>2. /\ SamePut([j EXCEPT !.stage = s], j) /\ [j EXCEPT !.stage = s].stage = s
      /\ CarriedOn([j EXCEPT !.stage = s], j)
  BY <1>1, RestageType DEF Results, CarriedOn
<1>3. JobsDiffer'
  BY <1>1, <1>2 DEF JobsDiffer, SamePut
<1>4. \A k \in jobs' : \E i \in jobs : CarriedOn(k, i)
                                       /\ (k = i \/ k.stage = i.stage \/ i.stage \notin Results)
  <2>1. \A k \in jobs : CarriedOn(k, k)
    BY DEF CarriedOn, SamePut
  <2> QED  BY <2>1, <1>2
<1> QED  BY <1>3, <1>4, PromiseKept

LEMMA PromiseStep == ASSUME PromiseInv, [Next]_vars PROVE PromiseInv'
<1>1. FoldInv' /\ FoldInv /\ jobs \subseteq JobType /\ JobsDiffer
  BY FoldStep DEF PromiseInv, FoldInv, StoreTypes
<1>2. \A k \in jobs : CarriedOn(k, k)
  BY DEF CarriedOn, SamePut
<1>3. ASSUME jobs' \subseteq jobs, attempts' = attempts, done' = done, told' = told
      PROVE  PromiseInv'
  BY <1>1, <1>2, <1>3, PromiseKept DEF JobsDiffer
<1>4. ASSUME NEW j \in jobs, Lock(j) PROVE PromiseInv'
  BY <1>1, <1>4, MovedPromise DEF Lock, Ended, Results, history
<1>5. ASSUME NEW j \in jobs, Begin(j) PROVE PromiseInv'
  BY <1>1, <1>5, MovedPromise DEF Begin, Results, history
<1>6. ASSUME NEW j \in jobs, Busy(j) PROVE PromiseInv'
  BY <1>1, <1>6, MovedPromise DEF Busy, BusyResult, Ended, Results, history
<1>7. ASSUME NEW j \in jobs, Panic(j) PROVE PromiseInv'
  BY <1>1, <1>7, MovedPromise DEF Panic, Ended, Results
<1>8. ASSUME NEW j \in jobs, Commit(j) PROVE PromiseInv'
  <2> DEFINE s == IF RowChanges(j) THEN "true" ELSE "false"
  <2>1. /\ j \in JobType /\ StageOK(j) /\ j.stage = "writing"
        /\ attempts' = attempts /\ told' = told
        /\ done' = done \cup {[id |-> j.id, ok |-> RowChanges(j)]}
    BY <1>1, <1>8 DEF Commit, PromiseInv
  <2>2. jobs' = jobs \ {j} \/ jobs' = (jobs \ {j}) \cup {[j EXCEPT !.stage = s]}
    BY <1>8 DEF Commit, Ended
  <2>3. RowChanges(j) \in BOOLEAN /\ (s = "true" <=> RowChanges(j)) /\ s \in {"true", "false"}
    BY DEF RowChanges
  <2> HIDE DEF s
  <2>4. /\ [j EXCEPT !.stage = s].id = j.id /\ [j EXCEPT !.stage = s].stage = s
    BY <2>1 DEF JobType
  <2>5. JobsDiffer'
    BY <1>1, <2>2, <2>4 DEF JobsDiffer
  <2>6. RecordsKnown'
    <3>1. Known(j.id)
      BY <1>1, <2>1 DEF FoldInv, NumberOK, JobType, Known
    <3> QED  BY <3>1, <2>1 DEF PromiseInv, RecordsKnown, Known
  <2>7. ASSUME NEW k \in jobs' PROVE StageOK(k)'
    <3>1. CASE k \in jobs /\ k # j
      <4>1. k.id # j.id /\ StageOK(k)
        BY <3>1, <1>1 DEF JobsDiffer, PromiseInv
      <4> QED  BY <4>1, <2>1 DEF StageOK
    <3>2. CASE k = [j EXCEPT !.stage = s]
      <4>1. k.id = j.id /\ k.stage = s
        BY <3>2, <2>4
      <4>2. [id |-> j.id, ok |-> RowChanges(j)] \in done'
        BY <2>1
      <4>3. s = "true" => [id |-> j.id, ok |-> TRUE] \in done'
        BY <4>2, <2>3
      <4>4. s = "false" => [id |-> j.id, ok |-> FALSE] \in done'
        BY <4>2, <2>3
      <4> QED  BY <4>1, <4>3, <4>4, <2>1, <2>3 DEF StageOK
    <3> QED  BY <3>1, <3>2, <2>2
  <2> QED  BY <1>1, <2>5, <2>6, <2>7 DEF PromiseInv
<1>9. ASSUME BusWrite PROVE PromiseInv'
  BY <1>3, <1>9 DEF BusWrite, history
<1>10. ASSUME NEW p \in Processes, Crash(p) PROVE PromiseInv'
  BY <1>3, <1>10 DEF Crash, history
<1>11. ASSUME NEW d \in Drives, Drop(d) PROVE PromiseInv'
  <2>1. attempts' = attempts /\ done' = done /\ told' = told
    BY <1>11 DEF Drop, history
  <2>2. ASSUME NEW k \in jobs'
        PROVE \E j \in jobs : /\ k.id = j.id /\ k.stage = j.stage /\ CarriedOn(k, j)
                              /\ k = IF j.id = <<d, attempts[d]>> THEN [j EXCEPT !.live = FALSE]
                                     ELSE j
    <3>1. PICK j \in jobs : k = IF j.id = <<d, attempts[d]>> THEN [j EXCEPT !.live = FALSE] ELSE j
      BY <1>11 DEF Drop
    <3>2. j \in JobType
      BY <1>1
    <3>3. k.id = j.id /\ k.stage = j.stage /\ CarriedOn(k, j)
      BY <3>1, <3>2 DEF JobType, CarriedOn, SamePut
    <3> QED  BY <3>1, <3>3
  <2> DEFINE Dropped(j) == IF j.id = <<d, attempts[d]>> THEN [j EXCEPT !.live = FALSE] ELSE j
  <2>4. \A k \in jobs' : \E j \in jobs : k.id = j.id /\ k = Dropped(j)
    BY <2>2
  <2> HIDE DEF Dropped
  <2>5. ASSUME NEW k1 \in jobs', NEW k2 \in jobs', k1.id = k2.id PROVE k1 = k2
    <3>1. PICK j1 \in jobs : k1.id = j1.id /\ k1 = Dropped(j1)
      BY <2>4
    <3>2. PICK j2 \in jobs : k2.id = j2.id /\ k2 = Dropped(j2)
      BY <2>4
    <3>3. j1 = j2
      BY <3>1, <3>2, <2>5, <1>1 DEF JobsDiffer
    <3> QED  BY <3>1, <3>2, <3>3
  <2>3. JobsDiffer'
    BY <2>5 DEF JobsDiffer
  <2> QED  BY <2>1, <2>2, <2>3, <1>1, PromiseKept
<1>12. ASSUME NEW d \in Drives, Answer(d) PROVE PromiseInv'
  <2>1. PICK j \in jobs : /\ jobs' = jobs \ {j}
                          /\ told' = told \cup {[id |-> j.id, answer |-> j.stage]}
    BY <1>12 DEF Answer
  <2>2. attempts' = attempts /\ done' = done
    BY <1>12 DEF Answer
  <2>3. Known(j.id)
    BY <1>1 DEF FoldInv, NumberOK, JobType, Known
  <2>4. RecordsKnown'
    BY <2>1, <2>2, <2>3 DEF PromiseInv, RecordsKnown, Known
  <2>5. ASSUME NEW k \in jobs' PROVE StageOK(k)'
    <3>1. k \in jobs /\ k.id # j.id /\ StageOK(k)
      BY <2>1, <1>1 DEF JobsDiffer, PromiseInv
    <3> QED  BY <3>1, <2>1, <2>2 DEF StageOK
  <2>6. JobsDiffer'
    BY <2>1, <1>1 DEF JobsDiffer
  <2> QED  BY <1>1, <2>4, <2>5, <2>6 DEF PromiseInv
<1>13. ASSUME NEW d \in Drives, Load(d) PROVE PromiseInv'
  <2>1. CASE jobs' = jobs /\ attempts' = attempts
    BY <2>1, <1>3, <1>13 DEF Load, history
  <2>2. ASSUME NEW p, p.id = <<d, attempts[d] + 1>>, p.stage = "queued",
               jobs' = jobs \cup {p}, attempts' = [attempts EXCEPT ![d] = @ + 1]
        PROVE  PromiseInv'
    <3>1. done' = done /\ told' = told /\ attempts \in [Drives -> Nat]
      BY <1>1, <1>13 DEF Load, history, FoldInv, StoreTypes
    <3>2. \A id : Known(id) => Known(id)' /\ id # p.id
      BY <2>2, <3>1 DEF Known
    <3>3. \A j \in jobs : Known(j.id)
      BY <1>1 DEF FoldInv, NumberOK, JobType, Known
    <3>4. JobsDiffer'
      BY <2>2, <3>2, <3>3, <1>1 DEF JobsDiffer
    <3>5. RecordsKnown'
      BY <3>1, <3>2 DEF PromiseInv, RecordsKnown
    <3>6. StageOK(p)'
      BY <2>2, <3>1, <3>2 DEF PromiseInv, RecordsKnown, StageOK
    <3>7. \A j \in jobs : StageOK(j)'
      BY <3>1 DEF PromiseInv, StageOK
    <3> QED  BY <2>2, <3>4, <3>5, <3>6, <3>7, <1>1 DEF PromiseInv
  <2> QED  BY <2>1, <2>2, <1>13 DEF Load
<1>14. CASE UNCHANGED vars
  BY <1>3, <1>14 DEF vars, store, history
<1> QED
  BY <1>4, <1>5, <1>6, <1>7, <1>8, <1>9, <1>10, <1>11, <1>12, <1>13, <1>14 DEF Next, Step

-----------------------------------------------------------------------------
(* How steps change the open puts.                                         *)

LEMMA OpenShrinks ==
    ASSUME NEW j \in jobs, jobs' = jobs \ {j} \/ (\E k : jobs' = (jobs \ {j}) \cup {k}
                                                          /\ k.stage \in Results)
    PROVE  OpenPuts' \subseteq OpenPuts
BY DEF OpenPuts, PutOf

LEMMA OpenIds ==
    ASSUME NEW id, \A j \in jobs : j.stage \notin Results => j.id # id
    PROVE  \A put \in OpenPuts : put.id # id
BY DEF OpenPuts, PutOf

LEMMA ByVanish ==
    ASSUME OpenPuts' \subseteq OpenPuts, row' = row, done' = done, told' = told
    PROVE  Storage!Next
BY DEF Storage!Next, Storage!Vanish

(* A statement runs: TakeEffect.                                           *)
LEMMA CommitTakesEffect ==
    ASSUME PromiseInv, NEW j \in jobs, Commit(j)
    PROVE  Storage!TakeEffect
<1>1. /\ j \in JobType /\ JobOK(j) /\ JobsDiffer /\ j.stage = "writing"
      /\ row \in [position : Int, value : Seq(Int)] /\ row.position >= -1
  BY DEF PromiseInv, FoldInv, StoreTypes, Commit
<1>2. PICK p : p = PutOf(j)
  OBVIOUS
<1>3. p \in OpenPuts /\ p.id = j.id /\ p.expected = j.expected /\ p.position = j.position
      /\ p.value = j.value
  BY <1>1, <1>2 DEF OpenPuts, PutOf, Results
<1>4. RowChanges(j) <=> Storage!Matches(p)
  BY <1>1, <1>3 DEF RowChanges, Storage!Matches, JobOK, JobType, NoRow
<1>5. OpenPuts' = OpenPuts \ {p}
  <2>1. \A k \in jobs' : k.stage \notin Results => k \in jobs /\ k # j
    BY <1>1 DEF Commit, Ended, Results, JobType
  <2>2. \A k \in jobs : k # j => k \in jobs' /\ k.id # j.id
    BY <1>1 DEF Commit, Ended, JobsDiffer
  <2>3. \A k \in jobs : k # j => PutOf(k) # p
    BY <2>2, <1>3 DEF PutOf
  <2> QED  BY <2>1, <2>2, <2>3, <1>2 DEF OpenPuts, PutOf
<1>6. /\ done' = done \cup {[id |-> p.id, ok |-> Storage!Matches(p)]}
      /\ row' = IF Storage!Matches(p) THEN [position |-> p.position, value |-> p.value] ELSE row
      /\ told' = told
  <2>1. RowChanges(j) \in BOOLEAN /\ Storage!Matches(p) \in BOOLEAN
    BY DEF RowChanges, Storage!Matches
  <2>2. RowChanges(j) = Storage!Matches(p)
    BY <2>1, <1>4
  <2> QED  BY <2>2, <1>3 DEF Commit
<1> QED  BY <1>3, <1>5, <1>6 DEF Storage!TakeEffect

(* A job that moves on carries the same put.                               *)
LEMMA OpenStays ==
    ASSUME FoldInv, NEW j \in jobs, j.stage \notin Results,
           NEW s \in {"running", "writing"}, jobs' = (jobs \ {j}) \cup {[j EXCEPT !.stage = s]}
    PROVE  OpenPuts' \subseteq OpenPuts
<1>1. j \in JobType
  BY DEF FoldInv, StoreTypes
<1>2. PICK k : k = [j EXCEPT !.stage = s]
  OBVIOUS
<1>3. PutOf(k) = PutOf(j)
  BY <1>1, <1>2 DEF PutOf, JobType
<1>4. jobs' = (jobs \ {j}) \cup {k}
  BY <1>2
<1> QED  BY <1>3, <1>4 DEF OpenPuts, PutOf

(* A job that ends without its statement takes its put with it.            *)
LEMMA OpenEnds ==
    ASSUME FoldInv, NEW j \in jobs, NEW s \in Results, jobs' = Ended(j, s)
    PROVE  OpenPuts' \subseteq OpenPuts
<1>1. PICK k : k = [j EXCEPT !.stage = s]
  OBVIOUS
<1>2. k.stage \in Results
  BY <1>1 DEF FoldInv, StoreTypes, JobType
<1>3. jobs' = jobs \ {j} \/ jobs' = (jobs \ {j}) \cup {k}
  BY <1>1 DEF Ended
<1> QED  BY <1>2, <1>3, OpenShrinks

LEMMA StepKeepsPromise == ASSUME PromiseInv, [Next]_vars PROVE [Storage!Next]_(Storage!vars)
<1>1. FoldInv /\ jobs \subseteq JobType /\ JobsDiffer /\ RecordsKnown
  BY DEF PromiseInv, FoldInv, StoreTypes
<1>2. ASSUME OpenPuts' \subseteq OpenPuts, row' = row, done' = done, told' = told
      PROVE  Storage!Next
  BY <1>2, ByVanish
<1>3. ASSUME jobs' \subseteq jobs PROVE OpenPuts' \subseteq OpenPuts
  BY <1>3 DEF OpenPuts, PutOf
<1>4. ASSUME NEW j \in jobs, Lock(j) PROVE Storage!Next
  BY <1>1, <1>2, <1>4, OpenStays, OpenEnds DEF Lock, Results, history
<1>5. ASSUME NEW j \in jobs, Begin(j) PROVE Storage!Next
  BY <1>1, <1>2, <1>5, OpenStays DEF Begin, Results, history
<1>6. ASSUME NEW j \in jobs, Busy(j) PROVE Storage!Next
  BY <1>1, <1>2, <1>6, OpenEnds DEF Busy, BusyResult, Results, history
<1>7. ASSUME NEW j \in jobs, Panic(j) PROVE Storage!Next
  BY <1>1, <1>2, <1>7, OpenEnds DEF Panic, Results
<1>8. ASSUME NEW j \in jobs, Commit(j) PROVE Storage!Next
  BY <1>8, CommitTakesEffect DEF Storage!Next
<1>9. ASSUME BusWrite PROVE Storage!Next
  BY <1>2, <1>3, <1>9 DEF BusWrite, history
<1>10. ASSUME NEW p \in Processes, Crash(p) PROVE Storage!Next
  BY <1>2, <1>3, <1>10 DEF Crash, history
<1>11. ASSUME NEW d \in Drives, Drop(d) PROVE Storage!Next
  <2>1. ASSUME NEW k \in jobs' PROVE \E j \in jobs : PutOf(k) = PutOf(j) /\ k.stage = j.stage
    <3>1. PICK j \in jobs : k = j \/ k = [j EXCEPT !.live = FALSE]
      BY <1>11 DEF Drop
    <3>2. j \in JobType
      BY <1>1
    <3>3. PutOf(k) = PutOf(j) /\ k.stage = j.stage
      BY <3>1, <3>2 DEF PutOf, JobType
    <3> QED  BY <3>3
  <2>2. OpenPuts' \subseteq OpenPuts
    <3> SUFFICES ASSUME NEW q \in OpenPuts' PROVE q \in OpenPuts
      OBVIOUS
    <3>1. PICK k \in jobs' : k.stage \notin Results /\ q = PutOf(k)
      BY DEF OpenPuts, PutOf
    <3>2. PICK j \in jobs : PutOf(k) = PutOf(j) /\ k.stage = j.stage
      BY <2>1
    <3> QED  BY <3>1, <3>2 DEF OpenPuts
  <2> QED  BY <2>2, <1>2, <1>11 DEF Drop, history
<1>12. ASSUME NEW d \in Drives, Answer(d) PROVE Storage!Next
  <2>1. PICK j \in jobs : /\ j.stage \in Results /\ jobs' = jobs \ {j}
                          /\ told' = told \cup {[id |-> j.id, answer |-> j.stage]}
    BY <1>12 DEF Answer
  <2>2. row' = row /\ done' = done
    BY <1>12 DEF Answer
  <2>3. StageOK(j)
    BY DEF PromiseInv
  <2>4. OpenPuts' = OpenPuts
    BY <2>1 DEF OpenPuts, PutOf
  <2>5. \A put \in OpenPuts : put.id # j.id
    BY <2>1, <1>1, OpenIds DEF JobsDiffer
  <2>6. j.id \in Storage!Ids(told') \ Storage!Ids(told)
    <3>1. PICK t : t = [id |-> j.id, answer |-> j.stage]
      OBVIOUS
    <3>2. t \in told' /\ t.id = j.id
      BY <3>1, <2>1
    <3>3. \A x \in told : x.id # j.id
      BY <2>3 DEF StageOK
    <3> QED  BY <3>2, <3>3 DEF Storage!Ids
  <2>7. /\ j.stage = "true" => [id |-> j.id, ok |-> TRUE] \in done
        /\ j.stage = "false" => [id |-> j.id, ok |-> FALSE] \in done
        /\ j.stage = "conflict" => j.id \notin Storage!Ids(OpenPuts) \cup Storage!Ids(done)
    BY <2>3, <2>5 DEF StageOK, Storage!Ids
  <2> QED  BY <2>1, <2>2, <2>4, <2>6, <2>7 DEF Storage!Next, Storage!Answer, Results
<1>13. ASSUME NEW d \in Drives, Load(d) PROVE Storage!Next
  <2>1. CASE jobs' = jobs
    BY <2>1, <1>2, <1>3, <1>13 DEF Load, history
  <2>2. ASSUME NEW p, p.id = <<d, attempts[d] + 1>>, p.stage = "queued", jobs' = jobs \cup {p}
        PROVE  Storage!Next
    <3>1. done' = done /\ told' = told /\ row' = row /\ attempts \in [Drives -> Nat]
      BY <1>1, <1>13 DEF Load, history, FoldInv, StoreTypes
    <3>2. \A id : Known(id) => id # p.id
      BY <2>2, <3>1 DEF Known
    <3>3. \A j \in jobs : j.id # p.id
      BY <1>1, <3>2 DEF FoldInv, NumberOK, JobType, Known
    <3>4. PICK put : put = PutOf(p)
      OBVIOUS
    <3>5. put.id = p.id
      BY <3>4 DEF PutOf
    <3>6. OpenPuts' = OpenPuts \cup {put}
      BY <2>2, <3>4 DEF OpenPuts, PutOf, Results
    <3>7. \A q \in OpenPuts : q.id # p.id
      BY <3>3, OpenIds
    <3>8. put.id \notin Storage!Ids(OpenPuts) \cup Storage!Ids(done) \cup Storage!Ids(told)
      BY <3>2, <3>5, <3>7, <1>1 DEF RecordsKnown, Storage!Ids
    <3>9. put \in OpenPuts' \ OpenPuts
      BY <3>5, <3>6, <3>7
    <3> QED  BY <3>1, <3>6, <3>8, <3>9 DEF Storage!Next, Storage!Invoke
  <2> QED  BY <2>1, <2>2, <1>13 DEF Load
<1>14. CASE UNCHANGED vars
  BY <1>2, <1>3, <1>14 DEF vars, store, history
<1> QED
  BY <1>4, <1>5, <1>6, <1>7, <1>8, <1>9, <1>10, <1>11, <1>12, <1>13, <1>14 DEF Next, Step

(* SqliteStorage implements the promise of Storage: a put takes effect at  *)
(* most once and atomically, is answered with what it did, and a conflict  *)
(* means that it never will.                                               *)
THEOREM KeepsStoragePromise == Spec => ImplementsStorage
<1>1. Init => Storage!Init
  BY DEF Init, Storage!Init, OpenPuts, PutOf, NoRow, Storage!NoRow
<1> QED
  BY <1>1, PromiseInit, PromiseStep, StepKeepsPromise, PTL
     DEF Spec, ImplementsStorage, Storage!Spec
-----------------------------------------------------------------------------
(* No connection is ever poisoned, and an error stands for a panic of the  *)
(* very put it answers.                                                    *)
IsolationInv ==
    /\ poisoned = {}
    /\ \A j \in jobs : j.stage = "error" => j.id \in panicked
    /\ PanicIsolated

(* Steps that answer nobody and fail nothing.                              *)
LEMMA IsolationKept ==
    ASSUME IsolationInv, poisoned' = {}, told' = told, panicked \subseteq panicked',
           \A j \in jobs' : j.stage = "error" => j.id \in panicked' \/ j \in jobs,
           \A d \in Drives : drive'[d].pc = "failed" =>
             drive[d].pc = "failed" /\ attempts'[d] = attempts[d]
    PROVE  IsolationInv'
BY DEF IsolationInv, PanicIsolated

LEMMA IsolationStep == ASSUME FoldInv, IsolationInv, [Next]_vars PROVE IsolationInv'
<1>1. /\ jobs \subseteq JobType /\ poisoned = {} /\ attempts \in [Drives -> Nat]
      /\ drive \in [Drives -> [pc : {"load", "wait", "end", "failed"}, entry : Nat,
                               retries : Nat, casRetried : BOOLEAN]]
  BY DEF FoldInv, StoreTypes, IsolationInv
<1>2. \A j \in jobs : \A s : [j EXCEPT !.stage = s].stage = s /\ [j EXCEPT !.stage = s].id = j.id
  BY <1>1 DEF JobType
<1>3. CASE UNCHANGED vars
  BY <1>3, IsolationKept DEF vars, store, history, IsolationInv
<1>4. ASSUME NEW j \in jobs, Step(j) PROVE IsolationInv'
  <2>1. \A i \in jobs' : i.stage = "error" => i \in jobs
    <3>1. ASSUME NEW s, jobs' = Ended(j, s) \/ jobs' = (jobs \ {j}) \cup {[j EXCEPT !.stage = s]},
                 s # "error"
          PROVE  \A i \in jobs' : i.stage = "error" => i \in jobs
      <4>1. \A i \in jobs' : i \in jobs \/ i = [j EXCEPT !.stage = s]
        BY <3>1 DEF Ended
      <4>2. [j EXCEPT !.stage = s].stage = s
        BY <1>2
      <4> QED BY <3>1, <4>1, <4>2
    <3> QED BY <1>1, <1>4, <3>1 DEF Step, Lock, Begin, Busy, BusyResult, Commit
  <2>2. UNCHANGED <<poisoned, told, panicked, drive, attempts>>
    BY <1>4 DEF Step, Lock, Begin, Busy, Commit, history
  <2> QED BY <1>1, <2>1, <2>2, IsolationKept
<1>5. ASSUME NEW j \in jobs, Panic(j) PROVE IsolationInv'
  <2>1. \A i \in jobs' : i.stage = "error" => i.id \in panicked' \/ i \in jobs
    <3>1. \A i \in jobs' : i \in jobs \/ i = [j EXCEPT !.stage = "error"]
      BY <1>5 DEF Panic, Ended
    <3>2. panicked' = panicked \cup {j.id}
      BY <1>5 DEF Panic
    <3> QED BY <1>2, <3>1, <3>2
  <2>2. UNCHANGED <<poisoned, told, drive, attempts>> /\ panicked \subseteq panicked'
    BY <1>5 DEF Panic, Release
  <2> QED BY <1>1, <2>1, <2>2, IsolationKept
<1>6. CASE BusWrite
  BY <1>1, <1>6, IsolationKept DEF BusWrite, history
<1>7. ASSUME NEW p \in Processes, Crash(p) PROVE IsolationInv'
  <2>1. \A d \in Drives : drive'[d].pc = "failed" => drive[d].pc = "failed"
    BY <1>7 DEF Crash, Start
  <2> QED BY <1>1, <1>7, <2>1, IsolationKept DEF Crash, history
<1>8. ASSUME NEW d \in Drives, Drop(d) PROVE IsolationInv'
  <2>1. \A i \in jobs' : i.stage = "error" => i \in jobs
    <3> SUFFICES ASSUME NEW i \in jobs', i.stage = "error" PROVE i \in jobs
      OBVIOUS
    <3>1. PICK j \in jobs : /\ j.id # <<d, attempts[d]>> \/ j.stage \notin Results
                            /\ i = IF j.id = <<d, attempts[d]>> THEN [j EXCEPT !.live = FALSE] ELSE j
      BY <1>8 DEF Drop
    <3>2. [j EXCEPT !.live = FALSE].stage = j.stage
      BY <1>1 DEF JobType
    <3> QED BY <3>1, <3>2 DEF Results
  <2>2. \A e \in Drives : drive'[e].pc = "failed" => drive[e].pc = "failed"
    BY <1>1, <1>8 DEF Drop, Start
  <2> QED BY <1>1, <1>8, <2>1, <2>2, IsolationKept DEF Drop, history
<1>9. ASSUME NEW d \in Drives, Answer(d) PROVE IsolationInv'
  <2>1. PICK j \in jobs : /\ j.id = <<d, attempts[d]>> /\ jobs' = jobs \ {j}
                          /\ told' = told \cup {[id |-> j.id, answer |-> j.stage]}
                          /\ drive' = [drive EXCEPT ![d] = After(d, j.stage)]
    BY <1>9 DEF Answer
  <2>2. UNCHANGED <<poisoned, panicked, attempts>>
    BY <1>9 DEF Answer
  <2>3. \A t \in told' : t.answer = "error" => t.id \in panicked'
    BY <2>1, <2>2 DEF IsolationInv, PanicIsolated
  <2>4. ASSUME NEW e \in Drives, drive'[e].pc = "failed"
        PROVE  <<e, attempts'[e]>> \in {t.id : t \in told'}
    <3>1. CASE e = d
      <4>1. [id |-> j.id, answer |-> j.stage] \in told' /\ <<e, attempts'[e]>> = j.id
        BY <2>1, <2>2, <3>1
      <4> QED BY <4>1
    <3>2. CASE e # d
      BY <1>1, <2>1, <2>2, <2>4, <3>2 DEF IsolationInv, PanicIsolated
    <3> QED BY <3>1, <3>2
  <2> QED BY <2>1, <2>2, <2>3, <2>4 DEF IsolationInv, PanicIsolated
<1>10. ASSUME NEW d \in Drives, Load(d) PROVE IsolationInv'
  <2>1. UNCHANGED <<poisoned, told, panicked>>
    BY <1>10 DEF Load, history
  <2>2. \A j \in jobs' : j.stage = "error" => j \in jobs
    BY <1>10 DEF Load
  <2>3. /\ \A e \in Drives : e # d => drive'[e] = drive[e] /\ attempts'[e] = attempts[e]
        /\ drive'[d].pc # "failed"
    BY <1>1, <1>10 DEF Load, NextEntry, Start
  <2> QED BY <1>1, <2>1, <2>2, <2>3, IsolationKept
<1> QED BY <1>3, <1>4, <1>5, <1>6, <1>7, <1>8, <1>9, <1>10 DEF Next

LEMMA PanicsStayIsolated == Spec => []PanicIsolated
<1>1. Init => IsolationInv
  BY DEF Init, IsolationInv, PanicIsolated, Start
<1>2. IsolationInv => PanicIsolated
  BY DEF IsolationInv
<1> QED BY <1>1, <1>2, FoldInit, FoldStep, IsolationStep, PTL DEF Spec
-----------------------------------------------------------------------------
(* ConditionalSpace.                                                       *)

SpaceEntry == [version : Int, write : Nat, at : Nat]

SpaceRequest ==
    [pc : {"idle", "sent", "abandoned", "true", "false", "gone"}, write : Nat,
     addr : Int, expected : Int, base : Nat]

SpaceTypes ==
    /\ space \in [Space!Addresses -> SpaceEntry]
    /\ seen \in [Clients -> [Space!Addresses -> SpaceEntry]]
    /\ request \in [Clients -> SpaceRequest]
    /\ writes \in Nat /\ clock \in Nat

(* Requests are numbered as they are made, and a number is used up by its  *)
(* answer.                                                                 *)
NumbersFit ==
    /\ \A e \in installed : e.write \in Nat /\ e.write <= writes
    /\ \A r \in answered : r.write \in Nat /\ r.write <= writes
    /\ \A c \in Clients : request[c].pc # "idle" =>
         /\ request[c].addr \in Space!Addresses /\ request[c].write <= writes
         /\ \A r \in answered : r.write # request[c].write
    /\ \A c, d \in Clients :
         request[c].pc # "idle" /\ request[d].pc # "idle" /\ request[c].write = request[d].write => c = d

(* A version an address has had, with the write that made it.              *)
Past(v, w, a) ==
    /\ -1 <= v /\ v <= space[a].version
    /\ v = space[a].version => w = space[a].write

NoExpiry == Space!Lifetime = 0

(* Where entries do not expire, versions only grow: what was read is past, *)
(* and a request that has taken effect cannot match again.                 *)
VersionsFit ==
    NoExpiry =>
      /\ \A a \in Space!Addresses : Past(-1, 0, a)
      /\ \A c \in Clients, a \in Space!Addresses : Past(seen[c][a].version, seen[c][a].write, a)
      /\ \A c \in Clients : request[c].pc # "idle" =>
           /\ Past(request[c].expected, request[c].base, request[c].addr)
           /\ \A e \in installed : e.write = request[c].write
                => space[request[c].addr].version > request[c].expected

(* Only the DynamoDB client executes a request twice.                      *)
EffectsFit ==
    /\ \A c \in Clients : request[c].pc = "true" => \E e \in installed : e.write = request[c].write
    /\ backend # "dynamo" =>
         \A c \in Clients : request[c].pc \in {"sent", "abandoned", "false"} =>
           \A e \in installed : e.write # request[c].write

SpacePromises ==
    /\ Space!TrueMeansInstalledOnce /\ Space!NoBlindOverwrite
    /\ Space!RefusedHasNoEffect

SpaceInv == SpaceTypes /\ NumbersFit /\ VersionsFit /\ EffectsFit /\ SpacePromises

LEMMA SpaceInvInit == Space!Init => SpaceInv
<1> SUFFICES ASSUME Space!Init PROVE SpaceInv
    OBVIOUS
<1>1. Space!NoEntry \in SpaceEntry /\ Space!NoCall \in SpaceRequest /\ Space!NoCall.pc = "idle"
    BY DEF Space!NoEntry, Space!NoCall, SpaceEntry, SpaceRequest, Space!Absent
<1>2. SpaceTypes
    BY <1>1 DEF SpaceTypes, Space!Init
<1>3. NumbersFit /\ EffectsFit
    BY <1>1 DEF NumbersFit, EffectsFit, Space!Init
<1>4. VersionsFit
    BY <1>1 DEF VersionsFit, Past, Space!Init, Space!NoEntry, Space!Absent
<1>5. SpacePromises
    BY DEF SpacePromises, Space!TrueMeansInstalledOnce, Space!NoBlindOverwrite,
           Space!RefusedHasNoEffect, Space!Init
<1> QED BY <1>2, <1>3, <1>4, <1>5 DEF SpaceInv

(* Neither the space nor what has happened to it changes, and at most one  *)
(* request moves, as another client's view of it may.                      *)
LEMMA SpaceStays ==
    ASSUME SpaceInv, UNCHANGED <<space, installed, answered, writes, backend>>, clock' \in Nat,
           seen' \in [Clients -> [Space!Addresses -> SpaceEntry]],
           NoExpiry => \A c \in Clients, a \in Space!Addresses :
                        Past(seen'[c][a].version, seen'[c][a].write, a),
           request' \in [Clients -> SpaceRequest],
           \A c \in Clients : request'[c].pc # "idle" =>
             /\ request[c].pc # "idle" /\ request'[c].write = request[c].write
             /\ request'[c].addr = request[c].addr /\ request'[c].expected = request[c].expected
             /\ request'[c].base = request[c].base
             /\ request'[c].pc = "true" => request[c].pc = "true"
             /\ backend # "dynamo" /\ request'[c].pc \in {"sent", "abandoned", "false"}
                  => request[c].pc \in {"sent", "abandoned", "false"}
    PROVE  SpaceInv'
<1>1. SpaceTypes'
    BY DEF SpaceInv, SpaceTypes
<1>2. NumbersFit'
    BY DEF SpaceInv, NumbersFit
<1>3. \A v, w, a : Past(v, w, a)' <=> Past(v, w, a)
    BY DEF Past
<1>4. VersionsFit'
    BY DEF SpaceInv, VersionsFit, Past, NoExpiry, Space!Lifetime
<1>5. EffectsFit'
    BY DEF SpaceInv, EffectsFit
<1>6. SpacePromises'
    BY DEF NoExpiry, Space!Lifetime, SpaceInv, SpacePromises, Space!TrueMeansInstalledOnce, Space!NoBlindOverwrite,
           Space!RefusedHasNoEffect
<1> QED BY <1>1, <1>2, <1>4, <1>5, <1>6 DEF SpaceInv

LEMMA NewRequest ==
    ASSUME SpaceInv, NEW c \in Clients, NEW a \in Space!Addresses, NEW q \in SpaceRequest,
           request[c].pc = "idle", writes' = writes + 1, request' = [request EXCEPT ![c] = q],
           q.pc = "sent", q.write = writes + 1, q.addr = a,
           NoExpiry => Past(q.expected, q.base, a),
           UNCHANGED <<space, clock, seen, installed, answered, backend>>
    PROVE  SpaceInv'
<1>1. SpaceTypes /\ SpaceTypes'
    BY DEF SpaceInv, SpaceTypes
<1>2. request'[c] = q /\ \A d \in Clients : d # c => request'[d] = request[d]
    BY <1>1 DEF SpaceTypes
<1>3. /\ writes \in Nat /\ writes' = writes + 1
      /\ \A d \in Clients : request[d].pc # "idle" => request[d].write <= writes /\ request[d].write \in Nat
    BY <1>1 DEF SpaceInv, SpaceTypes, NumbersFit, SpaceRequest
<1>4. /\ \A e \in installed : e.write \in Nat /\ e.write <= writes
      /\ \A r \in answered : r.write \in Nat /\ r.write <= writes
    BY DEF SpaceInv, NumbersFit
<1>5. /\ \A e \in installed : e.write # q.write
      /\ \A r \in answered : r.write # q.write
      /\ \A d \in Clients : request[d].pc # "idle" => request[d].write # q.write
    BY <1>3, <1>4
<1>6. NumbersFit'
    <2>1. \A d \in Clients : request'[d].pc # "idle" =>
            /\ request'[d].addr \in Space!Addresses /\ request'[d].write <= writes'
            /\ \A r \in answered : r.write # request'[d].write
        BY <1>2, <1>3, <1>5 DEF SpaceInv, NumbersFit
    <2>2. \A d, e \in Clients :
            request'[d].pc # "idle" /\ request'[e].pc # "idle" /\ request'[d].write = request'[e].write => d = e
        BY <1>2, <1>5 DEF SpaceInv, NumbersFit
    <2>3. \A e \in installed' \cup answered' : e.write \in Nat /\ e.write <= writes'
        BY <1>3, <1>4
    <2> QED BY <2>1, <2>2, <2>3 DEF NumbersFit
<1>7. VersionsFit'
    BY <1>2, <1>5 DEF SpaceInv, VersionsFit, Past, NoExpiry, Space!Lifetime
<1>8. EffectsFit'
    BY <1>2, <1>5 DEF SpaceInv, EffectsFit
<1>9. SpacePromises'
    BY DEF NoExpiry, Space!Lifetime, SpaceInv, SpacePromises, Space!TrueMeansInstalledOnce, Space!NoBlindOverwrite,
           Space!RefusedHasNoEffect
<1> QED BY <1>1, <1>6, <1>7, <1>8, <1>9 DEF SpaceInv

(* A request is executed, whoever waits for it.                            *)
LEMMA ExecuteKeeps ==
    ASSUME Space!SpaceAssumption, SpaceInv, NEW c \in Clients, Space!Execute(c)
    PROVE  SpaceInv'
<1>1. PICK s \in SpaceRequest : s = request[c] /\ s.pc \in {"sent", "abandoned"}
    BY DEF SpaceInv, SpaceTypes, Space!Execute
<1>2. PICK q \in SpaceRequest :
        /\ request' = [request EXCEPT ![c] = q] /\ q.write = s.write /\ q.addr = s.addr
        /\ q.expected = s.expected /\ q.base = s.base
        /\ \/ q.pc = "gone"
           \/ q.pc = "true" /\ Space!Matches(s.addr, s.expected)
           \/ q.pc = "false" /\ ~ Space!Matches(s.addr, s.expected)
    <2>1. PICK pc \in {"gone", "true", "false"} :
            /\ request' = [request EXCEPT ![c].pc = pc]
            /\ \/ pc = "gone"
               \/ pc = "true" /\ Space!Matches(s.addr, s.expected)
               \/ pc = "false" /\ ~ Space!Matches(s.addr, s.expected)
        BY <1>1 DEF Space!Execute, Space!Perform, Space!Succeeds
    <2>2. PICK q \in SpaceRequest : q = [s EXCEPT !.pc = pc]
        BY DEF SpaceRequest
    <2>3. request' = [request EXCEPT ![c] = q]
        BY <1>1, <2>1, <2>2 DEF SpaceInv, SpaceTypes
    <2> QED BY <2>1, <2>2, <2>3 DEF SpaceRequest
<1>3. /\ request \in [Clients -> SpaceRequest] /\ request' \in [Clients -> SpaceRequest]
      /\ request'[c] = q /\ \A d \in Clients : d # c => request'[d] = request[d]
    BY <1>2 DEF SpaceInv, SpaceTypes
<1>4. UNCHANGED <<clock, seen, writes, answered, backend>> /\ SpaceTypes /\ s.addr \in Space!Addresses
    BY <1>1 DEF Space!Execute, SpaceInv, NumbersFit
<1>5. CASE ~ Space!Matches(s.addr, s.expected)
    <2>1. UNCHANGED <<space, installed>>
        BY <1>1, <1>5 DEF Space!Execute, Space!Perform
    <2>2. \A d \in Clients : request'[d].pc # "idle" =>
             /\ request[d].pc # "idle" /\ request'[d].write = request[d].write
             /\ request'[d].addr = request[d].addr /\ request'[d].expected = request[d].expected
             /\ request'[d].base = request[d].base
             /\ request'[d].pc = "true" => request[d].pc = "true"
             /\ backend # "dynamo" /\ request'[d].pc \in {"sent", "abandoned", "false"}
                  => request[d].pc \in {"sent", "abandoned", "false"}
        BY <1>1, <1>2, <1>3, <1>5
    <2>3. NoExpiry => \A d \in Clients, a \in Space!Addresses :
                       Past(seen'[d][a].version, seen'[d][a].write, a)
        BY <1>4 DEF SpaceInv, VersionsFit
    <2> QED BY <1>3, <1>4, <2>1, <2>2, <2>3, SpaceStays DEF SpaceTypes
<1>6. CASE Space!Matches(s.addr, s.expected)
    <2>1. PICK e, n :
            /\ space' = [space EXCEPT ![s.addr] = n] /\ n \in SpaceEntry
            /\ n.version = s.expected + 1 /\ n.write = s.write
            /\ installed' = installed \cup {e} /\ e.write = s.write /\ e.base = s.base
            /\ e.replaced = Space!Existing(s.addr).write
        <3>1. PICK n : n = Space!NewEntry(s)
            OBVIOUS
        <3>2. n \in SpaceEntry /\ n.version = s.expected + 1 /\ n.write = s.write
            BY <1>4, <3>1 DEF Space!NewEntry, Space!NextVersion, Space!Absent, SpaceEntry,
                SpaceRequest, SpaceTypes
        <3>3. PICK e : e = [write |-> s.write, addr |-> s.addr, base |-> s.base,
                            replaced |-> Space!Existing(s.addr).write]
            OBVIOUS
        <3> QED BY <1>1, <1>6, <3>1, <3>2, <3>3 DEF Space!Execute, Space!Perform
    <2>2. /\ space \in [Space!Addresses -> SpaceEntry] /\ space' \in [Space!Addresses -> SpaceEntry]
          /\ space'[s.addr] = n /\ \A a \in Space!Addresses : a # s.addr => space'[a] = space[a]
        BY <1>4, <2>1 DEF SpaceTypes
    <2>3. SpaceTypes'
        BY <1>3, <1>4, <2>2 DEF SpaceTypes
    <2>4. NoExpiry => Space!Existing(s.addr) = space[s.addr]
        BY DEF Space!Existing, Space!IsLive, NoExpiry
    <2>5. NoExpiry => /\ space[s.addr].version = s.expected /\ e.replaced = s.base
                     /\ space[s.addr].write = s.base
        BY <1>1, <1>6, <2>1, <2>4 DEF Space!Matches, SpaceInv, VersionsFit, Past
    <2>6. \A f \in installed : f.write # s.write
        <3>1. CASE NoExpiry
            BY <1>1, <2>2, <2>5, <3>1 DEF SpaceInv, VersionsFit, SpaceRequest
        <3>2. CASE ~ NoExpiry
            BY <1>1, <3>2 DEF NoExpiry, Space!Lifetime, Space!SpaceAssumption, SpaceInv, EffectsFit
        <3> QED BY <3>1, <3>2
    <2>7. NumbersFit'
        <3>1. \A f \in installed' : f.write \in Nat /\ f.write <= writes
            BY <1>1, <2>1 DEF SpaceInv, NumbersFit, SpaceRequest
        <3> QED BY <1>1, <1>2, <1>3, <1>4, <3>1 DEF SpaceInv, NumbersFit
    <2>8. ASSUME NoExpiry PROVE \A a \in Space!Addresses, v \in Int : \A w : Past(v, w, a) =>
                                 Past(v, w, a)' /\ (a = s.addr => v < space'[a].version)
        BY <2>1, <2>2, <2>5, <2>8 DEF Past, SpaceEntry, SpaceRequest
    <2>12. q.pc \in {"gone", "true"}
        BY <1>2, <1>6
    <2>13. \A d \in Clients : d # c /\ request[d].pc # "idle" => request[d].write # s.write
        BY <1>1 DEF SpaceInv, NumbersFit
    <2>9. VersionsFit'
        <3> SUFFICES ASSUME NoExpiry PROVE VersionsFit'
            BY <1>4 DEF NoExpiry, Space!Lifetime, VersionsFit
        <3>1. \A a \in Space!Addresses : Past(-1, 0, a)'
            BY <2>8 DEF SpaceInv, VersionsFit
        <3>2. \A d \in Clients, a \in Space!Addresses :
                Past(seen[d][a].version, seen[d][a].write, a)'
            <4> TAKE d \in Clients, a \in Space!Addresses
            <4>1. seen[d][a].version \in Int /\ Past(seen[d][a].version, seen[d][a].write, a)
                BY <1>4 DEF SpaceInv, VersionsFit, SpaceTypes, SpaceEntry
            <4>2. Past(seen[d][a].version, seen[d][a].write, a) =>
                    /\ -1 <= seen[d][a].version /\ seen[d][a].version <= space'[a].version
                    /\ seen[d][a].version = space'[a].version => seen[d][a].write = space'[a].write
                BY <4>1, <2>8 DEF Past
            <4> QED BY <1>4, <4>1, <4>2 DEF Past
        <3>3. ASSUME NEW d \in Clients, request'[d].pc # "idle"
              PROVE  /\ Past(request[d].expected, request[d].base, request[d].addr)'
                     /\ \A f \in installed' : f.write = request'[d].write
                          => space'[request'[d].addr].version > request'[d].expected
            <4>1. PICK r \in SpaceRequest : r = request[d]
                BY <1>3
            <4>2. /\ r.pc # "idle" /\ r.addr \in Space!Addresses /\ r.expected \in Int
                  /\ Past(r.expected, r.base, r.addr)
                  /\ \A f \in installed : f.write = r.write
                       => space[r.addr].version > r.expected
                BY <1>1, <1>3, <3>3, <4>1 DEF SpaceInv, NumbersFit, VersionsFit, SpaceRequest
            <4>3. /\ request'[d].expected = r.expected /\ request'[d].base = r.base
                  /\ request'[d].addr = r.addr /\ request'[d].write = r.write
                BY <1>1, <1>2, <1>3, <4>1
            <4>4. /\ -1 <= r.expected /\ r.expected <= space'[r.addr].version
                  /\ r.expected = space'[r.addr].version => r.base = space'[r.addr].write
                  /\ r.addr = s.addr => r.expected < space'[r.addr].version
                BY <4>2, <2>8 DEF Past
            <4>5. Past(request[d].expected, request[d].base, request[d].addr)'
                BY <4>3, <4>4 DEF Past
            <4>6. ASSUME NEW f \in installed', f.write = r.write
                  PROVE  space'[r.addr].version > r.expected
                <5>1. space'[r.addr].version \in Int
                    BY <2>2, <4>2 DEF SpaceEntry
                <5>2. CASE r.addr = s.addr
                    BY <4>2, <4>4, <5>1, <5>2
                <5>3. CASE r.addr # s.addr
                    <6>1. d # c /\ r.write # s.write
                        BY <1>1, <4>1, <4>2, <5>3, <2>13
                    <6>2. f \in installed
                        BY <2>1, <4>6, <6>1
                    <6> QED BY <2>2, <4>2, <4>6, <5>3, <6>2
                <5> QED BY <5>2, <5>3
            <4> QED BY <4>3, <4>5, <4>6
        <3> QED BY <1>4, <3>1, <3>2, <3>3 DEF VersionsFit
    <2>10. EffectsFit'
        <3>1. ASSUME NEW d \in Clients, request'[d].pc = "true"
              PROVE  \E f \in installed' : f.write = request'[d].write
            <4>1. CASE d = c
                BY <1>2, <1>3, <2>1, <4>1
            <4>2. CASE d # c
                BY <1>3, <2>1, <3>1, <4>2 DEF SpaceInv, EffectsFit
            <4> QED BY <4>1, <4>2
        <3>2. ASSUME backend # "dynamo", NEW d \in Clients,
                     request'[d].pc \in {"sent", "abandoned", "false"}, NEW f \in installed'
              PROVE  f.write # request'[d].write
            <4>1. d # c /\ request'[d] = request[d]
                BY <1>3, <2>12, <3>2
            <4> QED BY <2>1, <2>13, <3>2, <4>1 DEF SpaceInv, EffectsFit
        <3> QED BY <1>4, <3>1, <3>2 DEF EffectsFit
    <2>11. SpacePromises'
        <3>1. Space!TrueMeansInstalledOnce'
            BY <1>4, <2>1, <2>6 DEF SpaceInv, SpacePromises, Space!TrueMeansInstalledOnce
        <3>2. Space!NoBlindOverwrite'
            BY <1>4, <2>1, <2>5 DEF SpaceInv, SpacePromises, Space!NoBlindOverwrite, NoExpiry, Space!Lifetime
        <3>3. Space!RefusedHasNoEffect'
            <4>1. \A r \in answered : r.write # s.write
                BY <1>1 DEF SpaceInv, NumbersFit
            <4> QED BY <1>4, <2>1, <4>1 DEF SpaceInv, SpacePromises, Space!RefusedHasNoEffect
        <3> QED BY <3>1, <3>2, <3>3 DEF SpacePromises
    <2> QED BY <2>3, <2>7, <2>9, <2>10, <2>11 DEF SpaceInv
<1> QED BY <1>5, <1>6

(* A request moves without taking effect.                                  *)
LEMMA RequestMoves ==
    ASSUME SpaceInv, NEW c \in Clients, NEW q \in SpaceRequest,
           request' = [request EXCEPT ![c] = q], UNCHANGED <<space, clock, seen, writes, installed, answered, backend>>,
           q.pc # "idle" =>
             /\ request[c].pc # "idle" /\ q.write = request[c].write /\ q.addr = request[c].addr
             /\ q.expected = request[c].expected /\ q.base = request[c].base
             /\ q.pc # "true"
             /\ backend # "dynamo" => request[c].pc = "sent"
    PROVE  SpaceInv'
<1>1. /\ request \in [Clients -> SpaceRequest] /\ request' \in [Clients -> SpaceRequest]
      /\ request'[c] = q /\ \A d \in Clients : d # c => request'[d] = request[d]
    BY DEF SpaceInv, SpaceTypes
<1>2. \A d \in Clients : request'[d].pc # "idle" =>
         /\ request[d].pc # "idle" /\ request'[d].write = request[d].write
         /\ request'[d].addr = request[d].addr /\ request'[d].expected = request[d].expected
         /\ request'[d].base = request[d].base
         /\ request'[d].pc = "true" => request[d].pc = "true"
         /\ backend # "dynamo" /\ request'[d].pc \in {"sent", "abandoned", "false"}
              => request[d].pc \in {"sent", "abandoned", "false"}
    BY <1>1
<1>3. NoExpiry => \A d \in Clients, a \in Space!Addresses :
                   Past(seen'[d][a].version, seen'[d][a].write, a)
    BY DEF SpaceInv, VersionsFit
<1>4. clock' \in Nat /\ seen' \in [Clients -> [Space!Addresses -> SpaceEntry]]
    BY DEF SpaceInv, SpaceTypes
<1> QED BY <1>1, <1>2, <1>3, <1>4, SpaceStays

LEMMA IdleCall == Space!NoCall \in SpaceRequest /\ Space!NoCall.pc = "idle"
BY DEF Space!NoCall, SpaceRequest, Space!Absent

LEMMA MovedRequest ==
    ASSUME SpaceInv, NEW c \in Clients, NEW pc \in {"abandoned", "sent"},
           request' = [request EXCEPT ![c].pc = pc]
    PROVE  \E q \in SpaceRequest :
             /\ request' = [request EXCEPT ![c] = q] /\ q.pc = pc
             /\ q.write = request[c].write /\ q.addr = request[c].addr
             /\ q.expected = request[c].expected /\ q.base = request[c].base
<1>1. request \in [Clients -> SpaceRequest] /\ request[c] \in SpaceRequest
    BY DEF SpaceInv, SpaceTypes
<1>2. PICK q \in SpaceRequest : q = [request[c] EXCEPT !.pc = pc]
    BY <1>1 DEF SpaceRequest
<1>3. request' = [request EXCEPT ![c] = q]
    BY <1>1, <1>2
<1> QED BY <1>1, <1>2, <1>3 DEF SpaceRequest

(* A request is answered, and its caller is free.                          *)
LEMMA ReturnKeeps ==
    ASSUME SpaceInv, NEW c \in Clients, Space!Return(c)
    PROVE  SpaceInv'
<1>1. /\ request \in [Clients -> SpaceRequest] /\ request' \in [Clients -> SpaceRequest]
      /\ request'[c].pc = "idle" /\ \A d \in Clients : d # c => request'[d] = request[d]
    BY IdleCall DEF SpaceInv, SpaceTypes, Space!Return
<1>2. UNCHANGED <<space, clock, seen, writes, installed, backend>>
    BY DEF Space!Return
<1>3. CASE request[c].pc = "gone"
    BY <1>3, IdleCall, RequestMoves DEF Space!Return
<1>4. CASE request[c].pc \in {"true", "false"}
    <2>1. PICK r : /\ answered' = answered \cup {r} /\ r.write = request[c].write
                   /\ r.ok = (request[c].pc = "true")
        <3>1. PICK r : r = [write |-> request[c].write, ok |-> request[c].pc = "true"]
            OBVIOUS
        <3> QED BY <1>4, <3>1 DEF Space!Return
    <2>2. SpaceTypes'
        BY <1>1, <1>2 DEF SpaceInv, SpaceTypes
    <2>3. request[c].pc # "idle" /\ request[c].write \in Nat /\ request[c].write <= writes
        BY <1>1, <1>4 DEF SpaceInv, NumbersFit, SpaceRequest
    <2>4. \A d \in Clients : d # c /\ request[d].pc # "idle" => request[d].write # request[c].write
        BY <2>3 DEF SpaceInv, NumbersFit
    <2>5. NumbersFit'
        BY <1>1, <1>2, <2>1, <2>3, <2>4 DEF SpaceInv, NumbersFit
    <2>6. VersionsFit'
        BY <1>1, <1>2 DEF SpaceInv, VersionsFit, Past, NoExpiry, Space!Lifetime
    <2>7. EffectsFit'
        BY <1>1, <1>2 DEF SpaceInv, EffectsFit
    <2>8. Space!TrueMeansInstalledOnce'
        <3>1. \A t \in answered' : t.ok => \E e \in installed : e.write = t.write
            <4> SUFFICES ASSUME NEW t \in answered', t.ok
                         PROVE  \E e \in installed : e.write = t.write
                OBVIOUS
            <4>1. CASE t \in answered
                BY <4>1 DEF SpaceInv, SpacePromises, Space!TrueMeansInstalledOnce
            <4>2. CASE t = r
                <5>1. request[c].pc = "true"
                    BY <2>1, <4>2, Zenon
                <5> QED BY <2>1, <4>2, <5>1 DEF SpaceInv, EffectsFit
            <4> QED BY <2>1, <4>1, <4>2
        <3> QED BY <1>2, <3>1 DEF SpaceInv, SpacePromises, Space!TrueMeansInstalledOnce
    <2>9. Space!NoBlindOverwrite'
        BY <1>2 DEF SpaceInv, SpacePromises, Space!NoBlindOverwrite, NoExpiry, Space!Lifetime
    <2>10. Space!RefusedHasNoEffect'
        BY <1>2, <1>4, <2>1 DEF SpaceInv, SpacePromises, EffectsFit, Space!RefusedHasNoEffect
    <2> QED BY <2>2, <2>5, <2>6, <2>7, <2>8, <2>9, <2>10 DEF SpaceInv, SpacePromises
<1> QED BY <1>3, <1>4 DEF Space!Return

(* A read sees an entry of the space, or none.                             *)
LEMMA ReadKeeps ==
    ASSUME SpaceInv, NEW c \in Clients, NEW a \in Space!Addresses, Space!Read(c, a)
    PROVE  SpaceInv'
<1>1. UNCHANGED <<space, clock, request, writes, installed, answered, backend>> /\ SpaceTypes
    BY DEF Space!Read, SpaceInv
<1>2. PICK n \in SpaceEntry : n = Space!Existing(a) /\ (NoExpiry => n = space[a])
    <2>1. space[a] \in SpaceEntry /\ Space!NoEntry \in SpaceEntry
        BY <1>1 DEF SpaceTypes, SpaceEntry, Space!NoEntry, Space!Absent
    <2> QED BY <2>1 DEF Space!Existing, Space!IsLive, NoExpiry
<1>3. seen' = [seen EXCEPT ![c][a] = n]
    BY <1>2 DEF Space!Read
<1>4. seen' \in [Clients -> [Space!Addresses -> SpaceEntry]]
    BY <1>1, <1>3 DEF SpaceTypes
<1>5. NoExpiry => \A d \in Clients, b \in Space!Addresses :
                   Past(seen'[d][b].version, seen'[d][b].write, b)
    <2> SUFFICES ASSUME NoExpiry, NEW d \in Clients, NEW b \in Space!Addresses
                 PROVE  Past(seen'[d][b].version, seen'[d][b].write, b)
        OBVIOUS
    <2>1. CASE d = c /\ b = a
        <3>1. seen'[d][b] = space[a] /\ space[a].version \in Int
            BY <1>1, <1>2, <1>3, <2>1 DEF SpaceTypes, SpaceEntry
        <3>2. -1 <= space[a].version
            BY DEF SpaceInv, VersionsFit, Past, NoExpiry, Space!Lifetime
        <3> QED BY <2>1, <3>1, <3>2 DEF Past
    <2>2. CASE d # c \/ b # a
        <3>1. seen'[d][b] = seen[d][b]
            BY <1>1, <1>3, <2>2 DEF SpaceTypes
        <3> QED BY <3>1 DEF SpaceInv, VersionsFit
    <2> QED BY <2>1, <2>2
<1>6. clock' \in Nat /\ request' \in [Clients -> SpaceRequest]
    BY <1>1 DEF SpaceTypes
<1> QED BY <1>1, <1>4, <1>5, <1>6, SpaceStays

LEMMA SpaceInvStep ==
    ASSUME Space!SpaceAssumption, SpaceInv, [Space!Next]_Space!vars
    PROVE  SpaceInv'
<1>1. CASE UNCHANGED Space!vars
    BY <1>1, SpaceStays DEF Space!vars, SpaceInv, SpaceTypes, VersionsFit
<1>2. CASE Space!Tick
    <2>1. clock' \in Nat /\ UNCHANGED <<space, seen, request, writes, installed, answered, backend>>
        BY <1>2 DEF Space!Tick, SpaceInv, SpaceTypes
    <2> QED BY <2>1, SpaceStays DEF SpaceInv, SpaceTypes, VersionsFit
<1>3. ASSUME NEW c \in Clients, NEW a \in Space!Addresses, Space!Write(c, a) PROVE SpaceInv'
    <2>1. /\ seen[c][a].version \in Int /\ seen[c][a].write \in Nat /\ writes + 1 \in Nat
          /\ a \in Int
        BY DEF SpaceInv, SpaceTypes, SpaceEntry, Space!Addresses, Space!SpaceAssumption
    <2>2. PICK q \in SpaceRequest :
            q = [pc |-> "sent", write |-> writes + 1, addr |-> a,
                 expected |-> seen[c][a].version, base |-> seen[c][a].write]
        BY <2>1 DEF SpaceRequest
    <2>3. NoExpiry => Past(q.expected, q.base, a)
        BY <2>2 DEF SpaceInv, VersionsFit
    <2> QED BY <1>3, <2>2, <2>3, NewRequest DEF Space!Write
<1>4. ASSUME NEW c \in Clients, NEW a \in Space!Addresses, Space!WriteOnce(c, a) PROVE SpaceInv'
    <2>1. writes + 1 \in Nat /\ a \in Int
        BY DEF SpaceInv, SpaceTypes, Space!Addresses, Space!SpaceAssumption
    <2>2. PICK q \in SpaceRequest :
            q = [pc |-> "sent", write |-> writes + 1, addr |-> a, expected |-> -1, base |-> 0]
        <3>1. -1 \in Int /\ 0 \in Nat
            OBVIOUS
        <3> QED BY <2>1, <3>1 DEF SpaceRequest
    <2>3. NoExpiry => Past(q.expected, q.base, a)
        BY <2>2 DEF SpaceInv, VersionsFit
    <2> QED BY <1>4, <2>2, <2>3, NewRequest DEF Space!WriteOnce, Space!Absent
<1>5. ASSUME NEW c \in Clients, Space!WriteError(c) PROVE SpaceInv'
    BY <1>5, IdleCall, RequestMoves DEF Space!WriteError
<1>6. ASSUME NEW c \in Clients, Space!Abandon(c) PROVE SpaceInv'
    <2>1. request' = [request EXCEPT ![c].pc = "abandoned"] /\ request[c].pc = "sent"
        BY <1>6 DEF Space!Abandon
    <2> QED BY <1>6, <2>1, MovedRequest, RequestMoves DEF Space!Abandon
<1>7. ASSUME NEW c \in Clients, Space!Resend(c) PROVE SpaceInv'
    <2>1. /\ request' = [request EXCEPT ![c].pc = "sent"] /\ request[c].pc # "idle"
          /\ backend = "dynamo"
        BY <1>7 DEF Space!Resend
    <2> QED BY <1>7, <2>1, MovedRequest, RequestMoves DEF Space!Resend
<1> QED BY <1>1, <1>2, <1>3, <1>4, <1>5, <1>6, <1>7, ExecuteKeeps, ReadKeeps, ReturnKeeps
        DEF Space!Next

-----------------------------------------------------------------------------
(* tail.  The rows the query returns are the live addresses of the window, *)
(* and all live addresses of the window are among them.                    *)

(* A set of numbers with a bound has a greatest and a least element.       *)
LEMMA HasLeast ==
    ASSUME NEW S \in SUBSET Nat, S # {}
    PROVE  \E a \in S : \A b \in S : a <= b
<1> DEFINE less == OpToRel(<, Nat)
<1>1. IsWellFoundedOn(less, Nat)
    BY NatLessThanWellFounded
<1>2. \A m, n \in Nat : m < n => <<m, n>> \in less
    BY DEF OpToRel
<1> HIDE DEF less
<1>3. PICK n \in S : \A m \in S : ~ (<<m, n>> \in less)
    BY <1>1, WFMin
<1>4. \A m \in S : ~ (m < n)
    BY <1>2, <1>3, Zenon
<1> QED BY <1>4

LEMMA HasGreatest ==
    ASSUME NEW n \in Nat, NEW S \in SUBSET (0 .. n), S # {}
    PROVE  \E a \in S : \A b \in S : b <= a
<1>1. {n - a : a \in S} \in SUBSET Nat /\ {n - a : a \in S} # {}
    <2>1. \A a \in S : n - a \in Nat
        OBVIOUS
    <2>2. PICK a : a \in S
        OBVIOUS
    <2>3. n - a \in {n - b : b \in S}
        BY <2>2
    <2> QED BY <2>1, <2>3
<1>2. PICK d \in {n - a : a \in S} : \A e \in {n - a : a \in S} : d <= e
    BY <1>1, HasLeast
<1>3. PICK a \in S : d = n - a
    OBVIOUS
<1>4. \A b \in S : n - a <= n - b
    BY <1>2, <1>3
<1> QED BY <1>4

LEMMA EndOf ==
    ASSUME NEW S \in SUBSET Nat, NEW a \in S, \A b \in S : b <= a
    PROVE  Space!End(S) = a + 1
<1>1. PICK m \in S : m = (CHOOSE c \in S : \A b \in S : b <= c) /\ \A b \in S : b <= m
    OBVIOUS
<1>2. m = a
    <2>1. m <= a /\ a <= m /\ m \in Nat /\ a \in Nat
        BY <1>1
    <2> QED BY <2>1
<1>3. Space!End(S) = m + 1
    <2>1. S # {}
        OBVIOUS
    <2>2. Space!End(S) = (CHOOSE c \in S : \A b \in S : b <= c) + 1
        BY <2>1, Zenon DEF Space!End
    <2> QED BY <1>1, <2>2
<1> QED BY <1>2, <1>3

LEMMA SameMissing ==
    ASSUME NEW S, NEW T, NEW from, NEW start, NEW end,
           {a \in from .. (end - 1) : a \notin S} = {a \in start .. (end - 1) : a \notin T}
    PROVE  Space!FirstMissing(S, from, end) = Space!FirstMissing(T, start, end)
<1> DEFINE Of(M) == IF M = {} THEN end ELSE CHOOSE a \in M : \A b \in M : a <= b
           M1 == {a \in from .. (end - 1) : a \notin S}
           M2 == {a \in start .. (end - 1) : a \notin T}
<1>1. Space!FirstMissing(S, from, end) = Of(M1) /\ Space!FirstMissing(T, start, end) = Of(M2)
    BY Zenon DEF Space!FirstMissing
<1>2. M1 = M2
    OBVIOUS
<1> HIDE DEF M1, M2
<1> QED BY <1>1, <1>2

LEMMA SpaceCardinality == \A S : Space!Cardinality(S) = Cardinality(S)
BY Zenon DEF Space!Cardinality, Cardinality, Space!IsFiniteSet, IsFiniteSet

LEMMA TailHolds ==
    ASSUME Space!SpaceAssumption
    PROVE  Space!TailIsContiguous
<1> SUFFICES ASSUME NEW window \in 1 .. Size
             PROVE  /\ Space!RowsTail(window) = Space!ScanTail(window)
                    /\ (\A a \in 0 .. (Space!End(Space!Live) - 1) :
                          a \notin Space!Live => a >= Space!End(Space!Live) - window)
                         => Space!ScanTail(window)
                              = Space!FirstMissing(Space!Live, 0, Space!End(Space!Live))
    BY DEF Space!TailIsContiguous
<1> DEFINE L == Space!Live
           higher(a) == {b \in L : b > a}
           rows == {a \in L : Space!Cardinality(higher(a)) < window}
           end == Space!End(L)
<1>1. Size \in Nat /\ L \subseteq 0 .. (Size - 1) /\ window \in Nat /\ window >= 1
    BY DEF Space!Live, Space!Addresses, Space!SpaceAssumption
<1>2. Space!RowsTail(window)
        = Space!FirstMissing(rows, Space!WindowStart(Space!End(rows), window), Space!End(rows))
    BY Zenon DEF Space!RowsTail
<1>3. Space!ScanTail(window) = Space!FirstMissing(L, Space!WindowStart(end, window), end)
    BY DEF Space!ScanTail
<1> HIDE DEF L
<1>4. CASE L = {}
    <2>1. rows = {}
        BY <1>4
    <2>2. Space!End({}) = 0
        BY DEF Space!End
    <2>3. Space!WindowStart(0, window) = 0
        BY <1>1 DEF Space!WindowStart
    <2> QED BY <1>2, <1>3, <1>4, <2>1, <2>2, <2>3 DEF L
<1>5. CASE L # {}
    <2>1. PICK m \in L : \A b \in L : b <= m
        <3>1. Size - 1 \in Nat
            BY <1>1, <1>5
        <3> QED BY <1>1, <1>5, <3>1, HasGreatest
    <2>2. L \subseteq Nat /\ m \in Nat /\ rows \subseteq L
        BY <1>1
    <2>3. end = m + 1 /\ end \in Nat
        BY <2>1, <2>2, EndOf
    <2>4. m \in rows
        <3>1. \A b \in L : ~ (b > m)
            BY <2>1, <2>2
        <3>2. higher(m) = {}
            BY <3>1
        <3> QED BY <1>1, <3>2, FS_EmptySet, SpaceCardinality
    <2>5. Space!End(rows) = end
        BY <2>1, <2>2, <2>3, <2>4, EndOf
    <2>6. Space!WindowStart(end, window) = IF end < window THEN 0 ELSE end - window
        BY DEF Space!WindowStart
    <2> DEFINE from == Space!WindowStart(end, window)
    <2> HIDE DEF end
    <2>7. ASSUME NEW a \in from .. (end - 1) PROVE a \in L <=> a \in rows
        <3>1. a \in Nat /\ a >= end - window /\ a <= end - 1
            BY <1>1, <2>3, <2>6
        <3>2. higher(a) \subseteq (a + 1) .. (end - 1)
            <4>1. \A b \in L : b > a => b \in (a + 1) .. (end - 1)
                BY <2>1, <2>2, <2>3, <3>1
            <4> QED BY <4>1
        <3>3. IsFiniteSet((a + 1) .. (end - 1)) /\ Cardinality((a + 1) .. (end - 1)) <= end - 1 - a
            <4>1. a + 1 \in Int /\ end - 1 \in Int
                BY <2>3, <3>1
            <4>2. /\ IsFiniteSet((a + 1) .. (end - 1))
                  /\ Cardinality((a + 1) .. (end - 1))
                       = IF a + 1 > end - 1 THEN 0 ELSE (end - 1) - (a + 1) + 1
                BY <4>1, FS_Interval
            <4> QED BY <2>3, <3>1, <4>2
        <3>4. /\ IsFiniteSet(higher(a)) /\ Cardinality(higher(a)) <= end - 1 - a
            <4>1. IsFiniteSet(higher(a)) /\ Cardinality(higher(a)) <= Cardinality((a + 1) .. (end - 1))
                BY <3>2, <3>3, FS_Subset
            <4>2. Cardinality(higher(a)) \in Nat /\ Cardinality((a + 1) .. (end - 1)) \in Nat
                BY <3>3, <4>1, FS_CardinalityType
            <4> QED BY <2>3, <3>1, <3>3, <4>1, <4>2
        <3>5. Cardinality(higher(a)) < window
            <4>1. Cardinality(higher(a)) \in Nat
                BY <3>4, FS_CardinalityType
            <4> QED BY <1>1, <2>3, <3>1, <3>4, <4>1
        <3> QED BY <3>5, SpaceCardinality
    <2>8. {a \in from .. (end - 1) : a \notin rows} = {a \in from .. (end - 1) : a \notin L}
        BY <2>7
    <2>9. Space!RowsTail(window) = Space!ScanTail(window)
        <3>2. /\ Space!RowsTail(window) = Space!FirstMissing(rows, from, end)
              /\ Space!ScanTail(window) = Space!FirstMissing(L, from, end)
            <4> HIDE DEF rows
            <4> QED BY <1>2, <1>3, <2>5 DEF end
        <3> HIDE DEF rows, from
        <3>1. Space!FirstMissing(rows, from, end) = Space!FirstMissing(L, from, end)
            BY <2>8, SameMissing
        <3> QED BY <3>1, <3>2
    <2>10. ASSUME \A a \in 0 .. (end - 1) : a \notin L => a >= end - window
           PROVE  {a \in from .. (end - 1) : a \notin L} = {a \in 0 .. (end - 1) : a \notin L}
        BY <1>1, <2>3, <2>6, <2>10
    <2> QED BY <1>3, <2>9, <2>10, SameMissing DEF end, L
<1> QED BY <1>4, <1>5

-----------------------------------------------------------------------------
(* What the storage answers is what happened: to a put of the engine's     *)
(* state, whose error is its own panic's and whose rejection settles the   *)
(* entry; and, with requests sent again, executed after their caller has   *)
(* gone, and failing, to a conditional write: one that is answered true    *)
(* took effect and none does twice, where entries do not expire no update  *)
(* is lost, and without a client that sends again by itself one that is    *)
(* answered false has not taken effect.  A tail is the first address that  *)
(* is not live, scanned or queried.                                        *)
THEOREM StorageAnswersTruly ==
    ASSUME Space!SpaceAssumption
    PROVE  Spec /\ Space!Spec => []AnswersAreTrue
<1>1. SpaceInv => /\ Space!TrueMeansInstalledOnce
                  /\ Space!NoBlindOverwrite
                  /\ Space!RefusedHasNoEffect
    BY DEF SpaceInv, SpacePromises
<1>2. SpaceInv /\ [Space!Next]_Space!vars => SpaceInv'
    BY SpaceInvStep
<1>3. /\ PanicIsolated /\ RejectionSettles
      /\ Space!TrueMeansInstalledOnce /\ Space!NoBlindOverwrite /\ Space!RefusedHasNoEffect
      => AnswersAreTrue
    BY TailHolds DEF AnswersAreTrue
<1> QED BY <1>1, <1>2, <1>3, SpaceInvInit, RejectionIsSettled, PanicsStayIsolated, PTL DEF Space!Spec

-----------------------------------------------------------------------------
(* The bytes of a sequence of cached values.                               *)

Counts(vs, f) ==
    f = [n \in 0 .. Len(vs) |-> IF n = 0 THEN 0 ELSE f[n - 1] + vs[n].value.size]

(* A set of cached values, of either cache.                                *)
Sized(E) == \A e \in E : e.value.size \in Nat

Bytes(vs) == Checkpoints!SizeOf(vs)

LEMMA SameBytes == \A vs : Values!SizeOf(vs) = Bytes(vs)
BY Zenon DEF Values!SizeOf, Checkpoints!SizeOf, Bytes

LEMMA CountExists ==
    ASSUME NEW E, Sized(E), NEW vs \in Seq(E)
    PROVE  \E f : Counts(vs, f)
<1> DEFINE Good(n, f) ==
             f = [m \in 0 .. n |-> IF m = 0 THEN 0 ELSE f[m - 1] + vs[m].value.size]
           Bad == {n \in 0 .. Len(vs) : ~ \E f : Good(n, f)}
<1>1. Len(vs) \in Nat
    OBVIOUS
<1>2. Bad = {}
    <2> SUFFICES ASSUME Bad # {} PROVE FALSE
        OBVIOUS
    <2>1. PICK n \in Bad : \A m \in Bad : n <= m
        <3>1. Bad \in SUBSET Nat
            BY <1>1
        <3> QED BY <3>1, HasLeast
    <2>2. n \in Nat /\ n <= Len(vs)
        BY <1>1
    <2>3. CASE n = 0
        <3> DEFINE f == [m \in 0 .. 0 |-> 0]
        <3>1. f = [m \in 0 .. 0 |-> IF m = 0 THEN 0 ELSE f[m - 1] + vs[m].value.size]
            OBVIOUS
        <3> QED BY <2>3, <3>1
    <2>4. CASE n # 0
        <3>1. n - 1 \in Nat /\ n - 1 \in 0 .. Len(vs) /\ ~ (n <= n - 1)
            BY <1>1, <2>2, <2>4
        <3>2. PICK g : Good(n - 1, g)
            BY <2>1, <3>1
        <3> DEFINE f == [m \in 0 .. n |-> IF m = n THEN g[n - 1] + vs[n].value.size ELSE g[m]]
        <3>3. \A m \in 0 .. n : f[m] = IF m = 0 THEN 0 ELSE f[m - 1] + vs[m].value.size
            <4> SUFFICES ASSUME NEW m \in 0 .. n
                         PROVE  f[m] = IF m = 0 THEN 0 ELSE f[m - 1] + vs[m].value.size
                OBVIOUS
            <4>1. CASE m = n
                <5>1. n - 1 \in 0 .. n /\ n - 1 # n
                    BY <2>2, <3>1
                <5> QED BY <2>4, <4>1, <5>1
            <4>2. CASE m # n
                <5>1. m \in 0 .. (n - 1) /\ (m # 0 => m - 1 \in 0 .. n /\ m - 1 # n)
                    BY <2>2, <4>2
                <5>2. g[m] = IF m = 0 THEN 0 ELSE g[m - 1] + vs[m].value.size
                    BY <3>2, <5>1
                <5> QED BY <4>2, <5>1, <5>2
            <4> QED BY <4>1, <4>2
        <3>4. f = [m \in 0 .. n |-> f[m]]
            OBVIOUS
        <3> HIDE DEF f
        <3>5. Good(n, f)
            BY <3>3, <3>4
        <3> QED BY <3>5
    <2> QED BY <2>3, <2>4
<1>3. Len(vs) \in 0 .. Len(vs)
    BY <1>1
<1> QED BY <1>2, <1>3 DEF Counts

GrowAlike(f, g, k) ==
    \A n \in 1 .. k : \E s \in Nat : f[n] = f[n - 1] + s /\ g[n] = g[n - 1] + s

(* Two counts that grow by the same amounts keep their distance.           *)
LEMMA CountsAgree ==
    ASSUME NEW k \in Nat, NEW f, NEW g, NEW d \in Int,
           f[0] = g[0] + d, g[0] \in Int,
           GrowAlike(f, g, k)
    PROVE  \A n \in 0 .. k : f[n] = g[n] + d /\ g[n] \in Int
<1> DEFINE Bad == {n \in 0 .. k : ~ (f[n] = g[n] + d /\ g[n] \in Int)}
<1> SUFFICES ASSUME Bad # {} PROVE FALSE
    OBVIOUS
<1>1. PICK n \in Bad : \A m \in Bad : n <= m
    <2>1. Bad \in SUBSET Nat
        OBVIOUS
    <2> QED BY <2>1, HasLeast
<1>2. n \in 1 .. k /\ n - 1 \in 0 .. k /\ ~ (n <= n - 1)
    OBVIOUS
<1>3. f[n - 1] = g[n - 1] + d /\ g[n - 1] \in Int
    BY <1>1, <1>2
<1>4. PICK s \in Nat : f[n] = f[n - 1] + s /\ g[n] = g[n - 1] + s
    BY <1>2 DEF GrowAlike
<1> QED BY <1>3, <1>4

LEMMA BytesCounted ==
    ASSUME NEW E, Sized(E), NEW vs \in Seq(E)
    PROVE  \E f : /\ Bytes(vs) = f[Len(vs)] /\ f[0] = 0
                  /\ \A n \in 1 .. Len(vs) : f[n] = f[n - 1] + vs[n].value.size
                  /\ \A n \in 0 .. Len(vs) : f[n] \in Nat
<1>1. PICK f : Counts(vs, f) /\ Bytes(vs) = f[Len(vs)]
    <2> DEFINE f == CHOOSE g : Counts(vs, g)
    <2>1. Counts(vs, f)
        BY CountExists, Zenon
    <2>2. Bytes(vs) = f[Len(vs)]
        BY Zenon DEF Bytes, Checkpoints!SizeOf, Counts
    <2> QED BY <2>1, <2>2
<1>2. Len(vs) \in Nat
    OBVIOUS
<1>3. f[0] = 0 /\ \A n \in 1 .. Len(vs) : f[n] = f[n - 1] + vs[n].value.size
    BY <1>1, <1>2 DEF Counts
<1>4. \A n \in 1 .. Len(vs) : vs[n].value.size \in Nat
    BY DEF Sized
<1>5. \A n \in 0 .. Len(vs) : f[n] \in Nat
    <2> DEFINE Bad == {n \in 0 .. Len(vs) : f[n] \notin Nat}
    <2> SUFFICES ASSUME Bad # {} PROVE FALSE
        OBVIOUS
    <2>1. PICK n \in Bad : \A m \in Bad : n <= m
        <3>1. Bad \in SUBSET Nat
            OBVIOUS
        <3> QED BY <3>1, HasLeast
    <2>2. n \in 1 .. Len(vs) /\ n - 1 \in 0 .. Len(vs) /\ ~ (n <= n - 1)
        BY <1>2, <1>3
    <2>3. f[n - 1] \in Nat
        BY <2>1, <2>2
    <2> QED BY <1>3, <1>4, <2>2, <2>3
<1> QED BY <1>1, <1>3, <1>5

LEMMA BytesConcat ==
    ASSUME NEW E, Sized(E), NEW vs \in Seq(E), NEW ws \in Seq(E)
    PROVE  /\ Bytes(vs \o ws) = Bytes(vs) + Bytes(ws)
           /\ Bytes(vs) \in Nat
<1> DEFINE us == vs \o ws
<1>1. /\ us \in Seq(E) /\ Len(us) = Len(vs) + Len(ws) /\ Len(vs) \in Nat /\ Len(ws) \in Nat
      /\ \A n \in 1 .. Len(vs) : us[n] = vs[n]
      /\ \A n \in 1 .. Len(ws) : us[Len(vs) + n] = ws[n]
    OBVIOUS
<1> HIDE DEF us
<1>2. PICK f : /\ Bytes(us) = f[Len(us)] /\ f[0] = 0
               /\ \A n \in 1 .. Len(us) : f[n] = f[n - 1] + us[n].value.size
               /\ \A n \in 0 .. Len(us) : f[n] \in Nat
    BY <1>1, BytesCounted
<1>3. PICK g : /\ Bytes(vs) = g[Len(vs)] /\ g[0] = 0
               /\ \A n \in 1 .. Len(vs) : g[n] = g[n - 1] + vs[n].value.size
               /\ \A n \in 0 .. Len(vs) : g[n] \in Nat
    BY BytesCounted
<1>4. PICK h : /\ Bytes(ws) = h[Len(ws)] /\ h[0] = 0
               /\ \A n \in 1 .. Len(ws) : h[n] = h[n - 1] + ws[n].value.size
               /\ \A n \in 0 .. Len(ws) : h[n] \in Nat
    BY BytesCounted
<1>5. /\ \A n \in 1 .. Len(vs) : vs[n].value.size \in Nat
      /\ \A n \in 1 .. Len(ws) : ws[n].value.size \in Nat
    BY DEF Sized
<1>6. f[Len(vs)] = g[Len(vs)]
    <2>1. ASSUME NEW n \in 1 .. Len(vs)
          PROVE  \E s \in Nat : f[n] = f[n - 1] + s /\ g[n] = g[n - 1] + s
        <3>1. n \in 1 .. Len(us) /\ us[n] = vs[n]
            BY <1>1
        <3>2. f[n] = f[n - 1] + vs[n].value.size /\ g[n] = g[n - 1] + vs[n].value.size
            BY <1>2, <1>3, <3>1
        <3> QED BY <1>5, <3>2
    <2>2. f[0] = g[0] + 0 /\ g[0] \in Int /\ 0 \in Int
        BY <1>2, <1>3
    <2>3. \A n \in 0 .. Len(vs) : f[n] = g[n] + 0 /\ g[n] \in Int
        <3>1. GrowAlike(f, g, Len(vs))
            BY <2>1 DEF GrowAlike
        <3> QED BY <1>1, <2>2, <3>1, CountsAgree
    <2>4. Len(vs) \in 0 .. Len(vs) /\ g[Len(vs)] \in Nat
        BY <1>1, <1>3
    <2> QED BY <2>3, <2>4
<1>7. f[Len(us)] = h[Len(ws)] + Bytes(vs)
    <2> DEFINE e == [n \in 0 .. Len(ws) |-> f[Len(vs) + n]]
    <2>1. e[0] = h[0] + Bytes(vs) /\ Bytes(vs) \in Int
        BY <1>1, <1>3, <1>4, <1>6
    <2>2. ASSUME NEW n \in 1 .. Len(ws)
          PROVE  \E s \in Nat : e[n] = e[n - 1] + s /\ h[n] = h[n - 1] + s
        <3>1. Len(vs) + n \in 1 .. Len(us) /\ n - 1 \in 0 .. Len(ws) /\ n \in 0 .. Len(ws)
            BY <1>1
        <3>2. Len(vs) + n - 1 = Len(vs) + (n - 1)
            BY <1>1
        <3>3. f[Len(vs) + n] = f[Len(vs) + (n - 1)] + ws[n].value.size
            <4>1. PICK x \in 1 .. Len(us) : x = Len(vs) + n
                BY <3>1
            <4>2. f[x] = f[x - 1] + us[x].value.size /\ us[x] = ws[n]
                BY <1>1, <1>2, <4>1
            <4>3. x - 1 = Len(vs) + (n - 1)
                BY <3>2, <4>1
            <4> QED BY <4>1, <4>2, <4>3
        <3> QED BY <1>4, <1>5, <3>1, <3>3
    <2>3. \A n \in 0 .. Len(ws) : e[n] = h[n] + Bytes(vs) /\ h[n] \in Int
        <3>1. h[0] \in Int
            BY <1>4
        <3> HIDE DEF e
        <3>2. GrowAlike(e, h, Len(ws))
            BY <2>2 DEF GrowAlike
        <3> QED BY <1>1, <2>1, <3>1, <3>2, CountsAgree
    <2> QED BY <1>1, <2>3
<1> QED BY <1>1, <1>2, <1>3, <1>4, <1>7 DEF us

LEMMA BytesOfOne ==
    ASSUME NEW E, Sized(E), NEW e \in E
    PROVE  Bytes(<<e>>) = e.value.size /\ Bytes(<<>>) = 0
<1>1. PICK f : /\ Bytes(<<e>>) = f[1] /\ f[0] = 0 /\ f[1] = f[0] + e.value.size
    <2>1. <<e>> \in Seq(E) /\ Len(<<e>>) = 1 /\ <<e>>[1] = e
        OBVIOUS
    <2>2. PICK f : /\ Bytes(<<e>>) = f[Len(<<e>>)] /\ f[0] = 0
                   /\ \A n \in 1 .. Len(<<e>>) : f[n] = f[n - 1] + <<e>>[n].value.size
        BY <2>1, BytesCounted
    <2>3. f[1] = f[1 - 1] + <<e>>[1].value.size
        BY <2>1, <2>2
    <2> QED BY <2>1, <2>2, <2>3
<1>2. Bytes(<<>>) = 0
    <2>1. <<>> \in Seq(E) /\ Len(<<>>) = 0
        OBVIOUS
    <2>2. PICK g : Bytes(<<>>) = g[Len(<<>>)] /\ g[0] = 0
        BY <2>1, BytesCounted
    <2> QED BY <2>1, <2>2
<1> QED BY <1>1, <1>2 DEF Sized

LEMMA BytesOfAppend ==
    ASSUME NEW E, Sized(E), NEW vs \in Seq(E), NEW e \in E
    PROVE  Bytes(Append(vs, e)) = Bytes(vs) + e.value.size
<1>1. Append(vs, e) = vs \o <<e>> /\ <<e>> \in Seq(E)
    BY AppendIsConcat
<1> QED BY <1>1, BytesConcat, BytesOfOne

-----------------------------------------------------------------------------
(* One sequence is drawn from another: its values are values of the other, *)
(* each from a place of its own.                                           *)
DrawnBy(h, ws, vs) ==
    /\ h \in [DOMAIN ws -> DOMAIN vs]
    /\ \A i, j \in DOMAIN ws : h[i] = h[j] => i = j
    /\ \A i \in DOMAIN ws : ws[i] = vs[h[i]]

Drawn(ws, vs) == \E h : DrawnBy(h, ws, vs)

LEMMA DrawnSelf == \A vs : Drawn(vs, vs)
<1> TAKE vs
<1>1. DrawnBy([i \in DOMAIN vs |-> i], vs, vs)
    BY DEF DrawnBy
<1> QED BY <1>1 DEF Drawn

LEMMA DrawnTwice ==
    ASSUME NEW us, NEW vs, NEW ws, Drawn(us, vs), Drawn(vs, ws)
    PROVE  Drawn(us, ws)
<1>1. PICK h, g : DrawnBy(h, us, vs) /\ DrawnBy(g, vs, ws)
    BY DEF Drawn
<1>2. DrawnBy([i \in DOMAIN us |-> g[h[i]]], us, ws)
    BY <1>1 DEF DrawnBy
<1> QED BY <1>2 DEF Drawn

(* Values are dropped from the front.                                      *)
LEMMA DropFirst ==
    ASSUME NEW E, Sized(E), NEW vs \in Seq(E), NEW m \in 0 .. Len(vs)
    PROVE  /\ SubSeq(vs, m + 1, Len(vs)) \in Seq(E)
           /\ Len(SubSeq(vs, m + 1, Len(vs))) = Len(vs) - m
           /\ Drawn(SubSeq(vs, m + 1, Len(vs)), vs)
           /\ SubSeq(vs, 1, m) \in Seq(E)
           /\ Bytes(vs) = Bytes(SubSeq(vs, 1, m)) + Bytes(SubSeq(vs, m + 1, Len(vs)))
           /\ Bytes(SubSeq(vs, 1, m)) \in Nat /\ Bytes(SubSeq(vs, m + 1, Len(vs))) \in Nat
<1> DEFINE us == SubSeq(vs, 1, m)
           ws == SubSeq(vs, m + 1, Len(vs))
<1>1. Len(vs) \in Nat /\ m \in Nat /\ m <= Len(vs) /\ \A i \in 1 .. Len(vs) : vs[i] \in E
    OBVIOUS
<1>2. us \in Seq(E)
    <2>1. \A i \in 1 .. m : vs[i] \in E
        BY <1>1
    <2> QED BY <1>1, <2>1, SubSeqProperties
<1>3. /\ ws \in Seq(E) /\ Len(ws) = Len(vs) - m
      /\ \A i \in 1 .. Len(ws) : ws[i] = vs[m + i]
    <2>1. m + 1 \in Int /\ \A i \in (m + 1) .. Len(vs) : vs[i] \in E
        BY <1>1
    <2>2. /\ ws \in Seq(E)
          /\ Len(ws) = IF m + 1 <= Len(vs) THEN Len(vs) - (m + 1) + 1 ELSE 0
          /\ \A i \in 1 .. Len(vs) - (m + 1) + 1 : ws[i] = vs[(m + 1) + i - 1]
        BY <1>1, <2>1, SubSeqProperties
    <2>3. Len(ws) = Len(vs) - m
        BY <1>1, <2>2
    <2>4. \A i \in 1 .. Len(ws) : (m + 1) + i - 1 = m + i /\ i \in 1 .. Len(vs) - (m + 1) + 1
        BY <1>1, <2>3
    <2> QED BY <2>2, <2>3, <2>4
<1>4. us \o ws = vs
    <2>1. 1 \in 1 .. Len(vs) + 1 /\ m \in 1 - 1 .. Len(vs) /\ Len(vs) \in m .. Len(vs)
        BY <1>1
    <2>2. us \o ws = SubSeq(vs, 1, Len(vs))
        BY <2>1, ConcatAdjacentSubSeq
    <2> QED BY <2>2, SubSeqFull
<1>5. Bytes(vs) = Bytes(us) + Bytes(ws) /\ Bytes(us) \in Nat
    BY <1>2, <1>3, <1>4, BytesConcat
<1>6. Bytes(ws) \in Nat
    BY <1>3, BytesConcat
<1>7. Drawn(ws, vs)
    <2> DEFINE h == [i \in 1 .. Len(ws) |-> m + i]
    <2>1. DOMAIN ws = 1 .. Len(ws) /\ DOMAIN vs = 1 .. Len(vs)
        BY <1>3
    <2>2. \A i \in 1 .. Len(ws) : m + i \in 1 .. Len(vs)
        BY <1>1, <1>3
    <2>3. \A i, j \in 1 .. Len(ws) : m + i = m + j => i = j
        BY <1>1
    <2> HIDE DEF us, ws
    <2>4. DrawnBy(h, ws, vs)
        BY <1>3, <2>1, <2>2, <2>3 DEF DrawnBy
    <2> QED BY <2>4 DEF Drawn
<1> QED BY <1>2, <1>3, <1>5, <1>6, <1>7

LEMMA FirstDropped ==
    ASSUME NEW E, Sized(E), NEW vs \in Seq(E), vs # <<>>, NEW us, us = Tail(vs)
    PROVE  /\ us \in Seq(E) /\ Len(us) = Len(vs) - 1 /\ Drawn(us, vs)
           /\ Bytes(vs) = Bytes(us) + Head(vs).value.size
           /\ Head(vs).value.size \in Nat /\ Bytes(us) \in Nat
<1> DEFINE first == SubSeq(vs, 1, 1)
<1>1. Len(vs) \in Nat /\ 1 \in 0 .. Len(vs) /\ 1 \in 1 .. Len(vs) /\ vs[1] \in E /\ Head(vs) = vs[1]
    OBVIOUS
<1>2. us = SubSeq(vs, 2, Len(vs))
    BY <1>1, TailIsSubSeq
<1>3. /\ us \in Seq(E) /\ Len(us) = Len(vs) - 1 /\ Drawn(us, vs)
      /\ Bytes(vs) = Bytes(first) + Bytes(us) /\ Bytes(us) \in Nat
    <2>1. 1 + 1 = 2
        OBVIOUS
    <2> QED BY <1>1, <1>2, <2>1, DropFirst
<1>4. first = <<vs[1]>>
    <2>1. \A i \in 1 .. 1 : vs[i] \in E
        BY <1>1
    <2>2. first \in Seq(E) /\ Len(first) = 1 /\ first[1] = vs[1]
        <3>1. /\ first \in Seq(E) /\ Len(first) = IF 1 <= 1 THEN 1 - 1 + 1 ELSE 0
              /\ \A i \in 1 .. 1 - 1 + 1 : first[i] = vs[1 + i - 1]
            BY <2>1, SubSeqProperties
        <3> HIDE DEF first
        <3> QED BY <3>1
    <2>3. <<vs[1]>> \in Seq(E) /\ Len(<<vs[1]>>) = 1 /\ <<vs[1]>>[1] = vs[1]
        BY <2>1
    <2> HIDE DEF first
    <2>4. \A i \in 1 .. Len(first) : first[i] = <<vs[1]>>[i]
        BY <2>2, <2>3
    <2> QED BY <2>2, <2>3, <2>4, SeqEqual
<1>5. Bytes(<<vs[1]>>) = vs[1].value.size /\ vs[1].value.size \in Nat
    BY <1>1, BytesOfOne DEF Sized
<1> HIDE DEF first
<1>6. Bytes(vs) = Bytes(us) + vs[1].value.size
    BY <1>3, <1>4, <1>5
<1> QED BY <1>1, <1>3, <1>5, <1>6

(* How many values may go for a new one to fit.                            *)
RoomFor(vs, b, size, limit) ==
    {m \in 0 .. Len(vs) : b - Bytes(SubSeq(vs, 1, m)) + size <= limit}

(* Evicting stops at the latest when nothing is left.                      *)
LEMMA RoomExists ==
    ASSUME NEW E, Sized(E), NEW vs \in Seq(E), NEW limit \in Nat, NEW size \in Nat, size <= limit,
           NEW b, b = Bytes(vs), NEW S, S = RoomFor(vs, b, size, limit)
    PROVE  Checkpoints!Min(S) \in S
<1>1. Len(vs) \in Nat /\ b \in Nat /\ SubSeq(vs, 1, Len(vs)) = vs
    BY SubSeqFull, BytesConcat
<1>2. S # {}
    <2>1. Bytes(SubSeq(vs, 1, Len(vs))) = b
        BY <1>1, Zenon
    <2>2. b - Bytes(SubSeq(vs, 1, Len(vs))) + size <= limit
        <3> HIDE DEF Bytes
        <3>1. b - b + size <= limit
            BY <1>1
        <3> QED BY <2>1, <3>1, Zenon
    <2>3. Len(vs) \in 0 .. Len(vs)
        BY <1>1
    <2> QED BY <2>2, <2>3, Zenon DEF RoomFor
<1>3. S \in SUBSET Nat
    BY <1>1 DEF RoomFor
<1>4. \E a \in S : \A c \in S : a <= c
    BY <1>2, <1>3, HasLeast
<1> QED BY <1>4 DEF Checkpoints!Min

(* One value is taken out.                                                 *)
TakenOut(vs, i) == SubSeq(vs, 1, i - 1) \o SubSeq(vs, i + 1, Len(vs))

LEMMA TakeOut ==
    ASSUME NEW E, Sized(E), NEW vs \in Seq(E), NEW i \in 1 .. Len(vs), NEW ws,
           ws = TakenOut(vs, i)
    PROVE  /\ ws \in Seq(E) /\ Len(ws) = Len(vs) - 1
           /\ Bytes(vs) = Bytes(ws) + vs[i].value.size
           /\ \E h : DrawnBy(h, ws, vs) /\ \A j \in DOMAIN ws : h[j] # i
<1> DEFINE us == SubSeq(vs, 1, i - 1)
           zs == SubSeq(vs, i + 1, Len(vs))
<1>1. Len(vs) \in Nat /\ i \in Nat /\ 1 <= i /\ i <= Len(vs) /\ vs[i] \in E
    OBVIOUS
<1>2. i - 1 \in 0 .. Len(vs) /\ i \in 0 .. Len(vs) /\ (i - 1) + 1 = i
    BY <1>1
<1>3. /\ us \in Seq(E) /\ Bytes(us) \in Nat
      /\ Bytes(vs) = Bytes(us) + Bytes(SubSeq(vs, i, Len(vs)))
    BY <1>2, DropFirst
<1>4. /\ zs \in Seq(E) /\ Len(zs) = Len(vs) - i /\ Bytes(zs) \in Nat
    BY <1>2, DropFirst
<1>5. SubSeq(vs, i, Len(vs)) = <<vs[i]>> \o zs
    <2>1. Len(vs) \in i .. Len(vs)
        BY <1>1
    <2> QED BY <2>1, SubSeqRecursiveFirst
<1>6. Bytes(SubSeq(vs, i, Len(vs))) = vs[i].value.size + Bytes(zs)
    <2>1. <<vs[i]>> \in Seq(E)
        BY <1>1
    <2> QED BY <1>1, <1>4, <1>5, <2>1, BytesConcat, BytesOfOne
<1>7. Len(us) = i - 1 /\ \A j \in 1 .. (i - 1) : us[j] = vs[j]
    <2>1. /\ Len(us) = IF 1 <= i - 1 THEN i - 1 - 1 + 1 ELSE 0
          /\ \A j \in 1 .. i - 1 - 1 + 1 : us[j] = vs[1 + j - 1]
        <3>1. \A j \in 1 .. (i - 1) : vs[j] \in E
            BY <1>1
        <3> QED BY <1>1, <3>1, SubSeqProperties
    <2> QED BY <1>1, <2>1
<1>8. \A j \in 1 .. Len(zs) : zs[j] = vs[i + j]
    <2>1. \A j \in 1 .. Len(vs) - (i + 1) + 1 : zs[j] = vs[(i + 1) + j - 1]
        <3>1. i + 1 \in Int /\ \A j \in (i + 1) .. Len(vs) : vs[j] \in E
            BY <1>1
        <3> QED BY <1>1, <3>1, SubSeqProperties
    <2>2. \A j \in 1 .. Len(zs) : (i + 1) + j - 1 = i + j /\ j \in 1 .. Len(vs) - (i + 1) + 1
        BY <1>1, <1>4
    <2> QED BY <2>1, <2>2
<1> HIDE DEF us, zs
<1>9. /\ ws = us \o zs /\ ws \in Seq(E) /\ Len(ws) = Len(vs) - 1
      /\ \A j \in 1 .. Len(ws) : ws[j] = IF j < i THEN vs[j] ELSE vs[j + 1]
    <2>1. ws = us \o zs
        BY DEF us, zs, TakenOut
    <2>2. /\ ws \in Seq(E) /\ Len(ws) = Len(us) + Len(zs)
          /\ \A j \in 1 .. Len(us) + Len(zs) : ws[j] = IF j <= Len(us) THEN us[j] ELSE zs[j - Len(us)]
        <3>1. us \in Seq(E) /\ zs \in Seq(E)
            BY <1>3, <1>4
        <3> QED BY <2>1, <3>1, ConcatProperties
    <2>5. Len(us) = i - 1 /\ Len(zs) = Len(vs) - i /\ Len(ws) = Len(us) + Len(zs)
        BY <1>4, <1>7, <2>2
    <2>3. Len(ws) = Len(vs) - 1
        BY <1>1, <2>5
    <2>4. ASSUME NEW j \in 1 .. Len(ws) PROVE ws[j] = IF j < i THEN vs[j] ELSE vs[j + 1]
        <3>1. CASE j < i
            BY <1>1, <1>7, <2>2, <2>4, <3>1
        <3>2. CASE ~ (j < i)
            <4>1. j - (i - 1) \in 1 .. Len(zs) /\ i + (j - (i - 1)) = j + 1
                BY <1>1, <2>3, <2>5, <3>2
            <4>2. ws[j] = zs[j - (i - 1)]
                <5>1. j \in 1 .. Len(us) + Len(zs) /\ ~ (j <= Len(us)) /\ j - Len(us) = j - (i - 1)
                    BY <1>1, <2>3, <2>5, <3>2
                <5> QED BY <2>2, <5>1
            <4>3. zs[j - (i - 1)] = vs[i + (j - (i - 1))]
                BY <1>8, <4>1
            <4> QED BY <3>2, <4>1, <4>2, <4>3
        <3> QED BY <3>1, <3>2
    <2> QED BY <2>1, <2>2, <2>3, <2>4
<1>10. Bytes(vs) = Bytes(ws) + vs[i].value.size
    <2>1. Bytes(ws) = Bytes(us) + Bytes(zs)
        BY <1>3, <1>4, <1>9, BytesConcat
    <2>2. vs[i].value.size \in Nat
        BY <1>1 DEF Sized
    <2> QED BY <1>3, <1>4, <1>6, <2>1, <2>2
<1>11. \E h : DrawnBy(h, ws, vs) /\ \A j \in DOMAIN ws : h[j] # i
    <2> DEFINE to(j) == IF j < i THEN j ELSE j + 1
               h == [j \in 1 .. Len(ws) |-> to(j)]
    <2>1. DOMAIN ws = 1 .. Len(ws) /\ DOMAIN vs = 1 .. Len(vs)
        BY <1>9
    <2>2. \A j \in 1 .. Len(ws) : to(j) \in 1 .. Len(vs) /\ to(j) # i /\ ws[j] = vs[to(j)]
        <3> SUFFICES ASSUME NEW j \in 1 .. Len(ws)
                     PROVE  to(j) \in 1 .. Len(vs) /\ to(j) # i /\ ws[j] = vs[to(j)]
            OBVIOUS
        <3>1. Len(ws) = Len(vs) - 1 /\ ws[j] = IF j < i THEN vs[j] ELSE vs[j + 1]
            BY <1>9
        <3> QED BY <1>1, <3>1
    <2>3. \A j, k \in 1 .. Len(ws) : to(j) = to(k) => j = k
        OBVIOUS
    <2> HIDE DEF to
    <2>4. DrawnBy(h, ws, vs) /\ \A j \in DOMAIN ws : h[j] # i
        BY <2>1, <2>2, <2>3 DEF DrawnBy
    <2> QED BY <2>4
<1> QED BY <1>9, <1>10, <1>11

-----------------------------------------------------------------------------
(* StorageCache: what its operations do to the cache.                      *)

CheckpointValue == [write : Nat, position : Nat, size : Nat]

Item == [key : Keys, value : CheckpointValue, expires : Nat]

LEMMA ItemsSized == Sized(Item)
BY DEF Sized, Item, CheckpointValue

KeysDiffer(vs) == \A i, j \in DOMAIN vs : vs[i].key = vs[j].key => i = j

CacheFits(c) ==
    /\ c.values \in Seq(Item)
    /\ c.bytes = Bytes(c.values) /\ c.bytes <= MaxCheckpointBytes
    /\ Len(c.values) <= MaxCheckpoints
    /\ KeysDiffer(c.values)

LEMMA DrawnKeysDiffer ==
    ASSUME NEW vs, NEW ws, Drawn(ws, vs), KeysDiffer(vs)
    PROVE  KeysDiffer(ws)
BY DEF Drawn, DrawnBy, KeysDiffer

(* Without takes out the only value of the key.                            *)
LEMMA WithoutKey ==
    ASSUME MaxCheckpoints \in Nat, MaxCheckpointBytes \in Nat,
           NEW c, CacheFits(c), NEW k, NEW d, d = Checkpoints!Without(c, k)
    PROVE  /\ CacheFits(d) /\ Drawn(d.values, c.values)
           /\ \A j \in DOMAIN d.values : d.values[j].key # k
<1> DEFINE S == Checkpoints!Cached(c, k)
<1>1. S = {i \in DOMAIN c.values : c.values[i].key = k}
    BY DEF Checkpoints!Cached
<1>2. /\ c.values \in Seq(Item) /\ KeysDiffer(c.values) /\ Len(c.values) \in Nat
      /\ DOMAIN c.values = 1 .. Len(c.values) /\ c.bytes = Bytes(c.values)
      /\ c.bytes <= MaxCheckpointBytes /\ Len(c.values) <= MaxCheckpoints
    BY DEF CacheFits
<1> HIDE DEF S
<1>3. CASE S = {}
    <2>1. d = c
        BY <1>3 DEF Checkpoints!Without, S
    <2> QED BY <1>1, <1>3, <2>1, DrawnSelf
<1>4. CASE S # {}
    <2>1. PICK i \in S : d = Checkpoints!Pop(c, i)
        BY <1>4 DEF Checkpoints!Without, S
    <2>2. i \in 1 .. Len(c.values) /\ c.values[i].key = k
        BY <1>1, <1>2
    <2>3. /\ d.values = TakenOut(c.values, i) /\ d.bytes = c.bytes - c.values[i].value.size
        <3>1. Checkpoints!RemoveAt(c.values, i) = TakenOut(c.values, i)
            BY Zenon DEF Checkpoints!RemoveAt, TakenOut
        <3> QED BY <2>1, <3>1 DEF Checkpoints!Pop
    <2>4. /\ d.values \in Seq(Item) /\ Len(d.values) = Len(c.values) - 1
          /\ Bytes(c.values) = Bytes(d.values) + c.values[i].value.size
          /\ \E h : DrawnBy(h, d.values, c.values) /\ \A j \in DOMAIN d.values : h[j] # i
        BY <1>2, <2>2, <2>3, ItemsSized, TakeOut
    <2>5. c.values[i].value.size \in Nat /\ Bytes(d.values) \in Nat
        <3>1. c.values[i] \in Item
            BY <1>2, <2>2
        <3>2. c.values[i].value.size \in Nat
            BY <3>1, ItemsSized DEF Sized
        <3> QED BY <2>4, <3>2, ItemsSized, BytesConcat
    <2>6. PICK h : DrawnBy(h, d.values, c.values) /\ \A j \in DOMAIN d.values : h[j] # i
        BY <2>4
    <2>7. Drawn(d.values, c.values)
        BY <2>6 DEF Drawn
    <2>8. \A j \in DOMAIN d.values : d.values[j].key # k
        BY <1>2, <2>2, <2>6 DEF DrawnBy, KeysDiffer
    <2>9. KeysDiffer(d.values)
        BY <1>2, <2>7, DrawnKeysDiffer
    <2>10. d.bytes = Bytes(d.values) /\ d.bytes <= MaxCheckpointBytes /\ Len(d.values) <= MaxCheckpoints
        BY <1>2, <2>3, <2>4, <2>5
    <2> QED BY <2>4, <2>7, <2>8, <2>9, <2>10 DEF CacheFits
<1> QED BY <1>3, <1>4

(* MakeRoom stops at the latest when nothing is left.                      *)
LEMMA RoomMade ==
    ASSUME MaxCheckpoints \in Nat, MaxCheckpointBytes \in Nat,
           NEW c, CacheFits(c), NEW size \in Nat, size <= MaxCheckpointBytes,
           NEW d, d = Checkpoints!MakeRoom(c, size)
    PROVE  CacheFits(d) /\ Drawn(d.values, c.values) /\ d.bytes + size <= MaxCheckpointBytes
<1> DEFINE left(m) == c.bytes - Bytes(SubSeq(c.values, 1, m))
           S == {m \in 0 .. Len(c.values) : left(m) + size <= MaxCheckpointBytes}
<1>1. /\ c.values \in Seq(Item) /\ KeysDiffer(c.values) /\ Len(c.values) \in Nat
      /\ c.bytes = Bytes(c.values) /\ Bytes(c.values) \in Nat
      /\ c.bytes <= MaxCheckpointBytes /\ Len(c.values) <= MaxCheckpoints
    <2>1. c.values \in Seq(Item)
        BY DEF CacheFits
    <2>2. Bytes(c.values) \in Nat
        BY <2>1, ItemsSized, BytesConcat
    <2> QED BY <2>1, <2>2 DEF CacheFits
<1>2. d = [values |-> SubSeq(c.values, Checkpoints!Min(S) + 1, Len(c.values)),
           bytes |-> left(Checkpoints!Min(S))]
    BY Zenon DEF Checkpoints!MakeRoom, Bytes
<1>4. PICK n \in S : n = Checkpoints!Min(S)
    <2>1. S = RoomFor(c.values, c.bytes, size, MaxCheckpointBytes)
        BY DEF RoomFor
    <2>2. Checkpoints!Min(S) \in S
        <3> HIDE DEF S
        <3>1. c.values \in Seq(Item) /\ Sized(Item) /\ c.bytes = Bytes(c.values)
            BY <1>1, ItemsSized
        <3> QED BY <2>1, <3>1, RoomExists
    <2> HIDE DEF S
    <2> QED BY <2>2
<1>5. n \in 0 .. Len(c.values) /\ left(n) + size <= MaxCheckpointBytes
    OBVIOUS
<1>6. d.values = SubSeq(c.values, n + 1, Len(c.values)) /\ d.bytes = left(n)
    <2>1. d = [values |-> SubSeq(c.values, n + 1, Len(c.values)), bytes |-> left(n)]
        <3> HIDE DEF S, left
        <3> QED BY <1>2, <1>4, Zenon
    <2>2. PICK x, y : x = SubSeq(c.values, n + 1, Len(c.values)) /\ y = left(n)
        OBVIOUS
    <2>3. d = [values |-> x, bytes |-> y]
        <3> HIDE DEF S, left
        <3> QED BY <2>1, <2>2
    <2>4. d.values = x /\ d.bytes = y
        BY <2>3
    <2> QED BY <2>2, <2>4
<1> HIDE DEF S
<1>7. /\ d.values \in Seq(Item) /\ Len(d.values) = Len(c.values) - n /\ Drawn(d.values, c.values)
      /\ Bytes(c.values) = Bytes(SubSeq(c.values, 1, n)) + Bytes(d.values)
      /\ Bytes(SubSeq(c.values, 1, n)) \in Nat /\ Bytes(d.values) \in Nat
    <2> DEFINE vs == c.values
               ws == SubSeq(vs, n + 1, Len(vs))
    <2>1. vs \in Seq(Item) /\ n \in 0 .. Len(vs)
        BY <1>1, <1>5
    <2> HIDE DEF vs
    <2>2. /\ ws \in Seq(Item) /\ Len(ws) = Len(vs) - n /\ Drawn(ws, vs)
          /\ Bytes(vs) = Bytes(SubSeq(vs, 1, n)) + Bytes(ws)
          /\ Bytes(SubSeq(vs, 1, n)) \in Nat /\ Bytes(ws) \in Nat
        BY <2>1, ItemsSized, DropFirst
    <2>3. d.values = ws
        BY <1>6 DEF vs
    <2> HIDE DEF ws
    <2> QED BY <2>2, <2>3 DEF vs
<1>8. KeysDiffer(d.values)
    BY <1>1, <1>7, DrawnKeysDiffer
<1>9. /\ d.bytes = Bytes(d.values) /\ d.bytes <= MaxCheckpointBytes
      /\ Len(d.values) <= MaxCheckpoints /\ d.bytes + size <= MaxCheckpointBytes
    BY <1>1, <1>5, <1>6, <1>7
<1> QED BY <1>7, <1>8, <1>9 DEF CacheFits

(* A value is cached as the last, and what is left of the others before it *)
(* has another key.                                                        *)
AddedTo(ws, vs, e) ==
    \E us \in Seq(Item) :
      /\ Drawn(us, vs) /\ ws = Append(us, e)
      /\ \A i \in DOMAIN us : us[i].key # e.key

LEMMA Pushed ==
    ASSUME MaxCheckpoints \in Nat, MaxCheckpointBytes \in Nat, MaxCheckpoints # 0,
           NEW c, CacheFits(c), NEW e \in Item, \A i \in DOMAIN c.values : c.values[i].key # e.key,
           c.bytes + e.value.size <= MaxCheckpointBytes, NEW d, d = Checkpoints!Push(c, e)
    PROVE  CacheFits(d) /\ AddedTo(d.values, c.values, e)
<1> DEFINE full == Len(c.values) = MaxCheckpoints
           us == IF full THEN Tail(c.values) ELSE c.values
           dropped == IF full THEN Head(c.values).value.size ELSE 0
<1>1. /\ c.values \in Seq(Item) /\ KeysDiffer(c.values) /\ Len(c.values) \in Nat
      /\ c.bytes = Bytes(c.values) /\ Len(c.values) <= MaxCheckpoints
      /\ e.value.size \in Nat
    BY ItemsSized DEF CacheFits, Sized
<1>2. d.values = Append(us, e) /\ d.bytes = c.bytes + e.value.size - dropped
    BY DEF Checkpoints!Push
<1>3. /\ us \in Seq(Item) /\ Drawn(us, c.values) /\ Len(us) + 1 <= MaxCheckpoints
      /\ Bytes(c.values) = Bytes(us) + dropped /\ Bytes(us) \in Nat /\ dropped \in Nat
    <2>1. CASE full
        <3>1. c.values # <<>>
            BY <1>1, <2>1
        <3>2. us = Tail(c.values) /\ dropped = Head(c.values).value.size
            BY <2>1
        <3> HIDE DEF us, dropped
        <3>3. /\ us \in Seq(Item) /\ Len(us) = Len(c.values) - 1 /\ Drawn(us, c.values)
              /\ Bytes(c.values) = Bytes(us) + dropped /\ dropped \in Nat /\ Bytes(us) \in Nat
            BY <1>1, <3>1, <3>2, ItemsSized, FirstDropped
        <3> QED BY <1>1, <2>1, <3>3
    <2>2. CASE ~ full
        <3>1. us = c.values /\ dropped = 0 /\ Bytes(c.values) \in Nat
            BY <1>1, <2>2, ItemsSized, BytesConcat
        <3>2. Len(us) + 1 <= MaxCheckpoints
            BY <1>1, <2>2, <3>1
        <3> QED BY <1>1, <3>1, <3>2, DrawnSelf
    <2> QED BY <2>1, <2>2
<1> HIDE DEF us, dropped
<1>4. /\ d.values \in Seq(Item) /\ Len(d.values) = Len(us) + 1
      /\ \A i \in 1 .. Len(us) : d.values[i] = us[i]
      /\ d.values[Len(us) + 1] = e
    BY <1>2, <1>3, AppendProperties
<1>5. Bytes(d.values) = Bytes(us) + e.value.size
    BY <1>2, <1>3, ItemsSized, BytesOfAppend
<1>6. d.bytes = Bytes(d.values) /\ d.bytes <= MaxCheckpointBytes
    BY <1>1, <1>2, <1>3, <1>5
<1>7. KeysDiffer(us) /\ \A i \in DOMAIN us : us[i].key # e.key
    <2>1. KeysDiffer(us)
        BY <1>1, <1>3, DrawnKeysDiffer
    <2>2. \A i \in DOMAIN us : \E j \in DOMAIN c.values : us[i] = c.values[j]
        BY <1>3 DEF Drawn, DrawnBy
    <2> QED BY <2>1, <2>2
<1>8. KeysDiffer(d.values)
    <2>1. DOMAIN d.values = 1 .. (Len(us) + 1) /\ DOMAIN us = 1 .. Len(us) /\ Len(us) \in Nat
        BY <1>3, <1>4
    <2>2. \A i \in DOMAIN d.values : i \in DOMAIN us \/ i = Len(us) + 1
        BY <2>1
    <2> QED BY <1>4, <1>7, <2>1, <2>2 DEF KeysDiffer
<1>9. AddedTo(d.values, c.values, e)
    BY <1>2, <1>3, <1>7 DEF AddedTo
<1> QED BY <1>3, <1>4, <1>6, <1>8, <1>9 DEF CacheFits

(* Insert keeps what is there when it is at least as new, drops it when    *)
(* the new value may not be cached, and replaces it otherwise.             *)
LEMMA Inserted ==
    ASSUME Checkpoints!CacheAssumption, NEW c, CacheFits(c), NEW e \in Item,
           NEW d, d = Checkpoints!Insert(c, e)
    PROVE  /\ CacheFits(d)
           /\ Drawn(d.values, c.values) \/ AddedTo(d.values, c.values, e)
<1>1. MaxCheckpoints \in Nat /\ MaxCheckpointBytes \in Nat
    BY DEF Checkpoints!CacheAssumption
<1>2. PICK w : /\ w = Checkpoints!Without(c, e.key) /\ CacheFits(w) /\ Drawn(w.values, c.values)
               /\ \A j \in DOMAIN w.values : w.values[j].key # e.key
    BY <1>1, WithoutKey
<1>3. \/ d = c
      \/ d = w
      \/ /\ ~ Checkpoints!Bypass(e.value.size)
         /\ d = Checkpoints!Push(Checkpoints!MakeRoom(w, e.value.size), e)
    BY <1>2 DEF Checkpoints!Insert
<1>4. ASSUME ~ Checkpoints!Bypass(e.value.size),
             d = Checkpoints!Push(Checkpoints!MakeRoom(w, e.value.size), e)
      PROVE  CacheFits(d) /\ AddedTo(d.values, c.values, e)
    <2>1. e.value.size \in Nat
        BY ItemsSized DEF Sized
    <2>2. MaxCheckpoints # 0 /\ e.value.size <= MaxCheckpointBytes
        BY <1>1, <1>4, <2>1 DEF Checkpoints!Bypass
    <2>3. PICK r : /\ r = Checkpoints!MakeRoom(w, e.value.size) /\ CacheFits(r)
                   /\ Drawn(r.values, w.values) /\ r.bytes + e.value.size <= MaxCheckpointBytes
        BY <1>1, <1>2, <2>1, <2>2, RoomMade
    <2>4. \A j \in DOMAIN r.values : r.values[j].key # e.key
        BY <1>2, <2>3 DEF Drawn, DrawnBy
    <2>5. CacheFits(d) /\ AddedTo(d.values, r.values, e)
        BY <1>1, <1>4, <2>2, <2>3, <2>4, Pushed
    <2>6. Drawn(r.values, c.values)
        BY <1>2, <2>3, DrawnTwice
    <2> QED BY <2>5, <2>6, DrawnTwice DEF AddedTo
<1> QED BY <1>2, <1>3, <1>4, DrawnSelf

-----------------------------------------------------------------------------
(* StorageCache: what is served was stored.                                *)

PutCall ==
    [op : {"put", "true", "false", "failed"}, key : Keys, expected : Nat,
     expires : Nat, value : CheckpointValue]

Putting(t) == call[t].op \in {"put", "true", "false", "failed"}

CallFits(t) ==
    \/ call[t] = Checkpoints!NoCall
    \/ \E k \in Keys : call[t] = [op |-> "get", key |-> k]
    \/ call[t] \in PutCall

CacheTypes ==
    /\ kept \in [Keys -> CheckpointValue]
    /\ known \in [Tasks -> [Keys -> Nat]]
    /\ call = [t \in Tasks |-> call[t]]
    /\ \A t \in Tasks : CallFits(t)
    /\ time \in Nat /\ puts \in Nat /\ puts <= MaxPuts
    /\ acked \in [Keys -> SUBSET Nat]
    /\ superseded \in [1 .. MaxPuts -> Int]
    /\ served \in Seq([write : Nat, at : Nat])

(* A write that may be served until it expires has been superseded less    *)
(* than Ttl before that, if at all.                                        *)
Fresh(w, expires) ==
    /\ w \in 1 .. puts /\ expires <= time + CheckpointTtl
    /\ superseded[w] = Checkpoints!NotYet \/ superseded[w] >= expires - CheckpointTtl

(* The storage has writes that were made, and nothing else is superseded.  *)
KeptFits ==
    /\ \A k \in Keys : kept[k].write <= puts
    /\ \A w \in 1 .. MaxPuts : w > puts => superseded[w] = Checkpoints!NotYet

CachedHas(w) == \E i \in DOMAIN cache.values : cache.values[i].value.write = w
ServedHas(w) == \E i \in DOMAIN served : served[i].write = w

(* A number stands for one write, under way, cached or served.             *)
PutsFit ==
    /\ \A t \in Tasks : Putting(t) =>
         /\ Fresh(call[t].value.write, call[t].expires)
         /\ ~ CachedHas(call[t].value.write) /\ ~ ServedHas(call[t].value.write)
    /\ \A t, u \in Tasks :
         Putting(t) /\ Putting(u) /\ call[t].value.write = call[u].value.write => t = u

ItemOK(e) ==
    /\ Fresh(e.value.write, e.expires)
    /\ e.value.write \in acked[e.key]
    /\ ~ ServedHas(e.value.write)

WritesDiffer(vs) == \A i, j \in DOMAIN vs : vs[i].value.write = vs[j].value.write => i = j

ItemsFit ==
    /\ \A i \in DOMAIN cache.values : ItemOK(cache.values[i])
    /\ WritesDiffer(cache.values)

ServedOK(e) ==
    /\ e.write \in 1 .. puts /\ e.at <= time /\ CheckpointTtl > 0
    /\ superseded[e.write] = Checkpoints!NotYet \/ e.at - superseded[e.write] < CheckpointTtl

ServedFits ==
    /\ \A i \in DOMAIN served : ServedOK(served[i])
    /\ Checkpoints!ServedOnce

CacheInv ==
    CacheTypes /\ CacheFits(cache) /\ KeptFits /\ PutsFit /\ ItemsFit /\ ServedFits

LEMMA CacheInvInit == ASSUME Checkpoints!CacheAssumption, Checkpoints!Init PROVE CacheInv
<1>1. /\ CheckpointTtl \in Nat /\ MaxCheckpoints \in Nat /\ MaxCheckpointBytes \in Nat /\ MaxPuts \in Nat
    BY DEF Checkpoints!CacheAssumption
<1>2. cache.values = <<>> /\ cache.bytes = 0 /\ served = <<>> /\ puts = 0 /\ time = 0
    BY DEF Checkpoints!Init
<1>3. CacheTypes
    <2>1. Checkpoints!NoValue \in CheckpointValue /\ Checkpoints!NotYet \in Int
        BY DEF Checkpoints!NoValue, CheckpointValue, Checkpoints!NotYet
    <2>2. call = [t \in Tasks |-> Checkpoints!NoCall]
        BY DEF Checkpoints!Init
    <2>3. \A t \in Tasks : CallFits(t)
        BY <2>2 DEF CallFits
    <2> QED BY <1>1, <1>2, <2>1, <2>2, <2>3 DEF Checkpoints!Init, CacheTypes
<1>4. CacheFits(cache)
    <2>1. <<>> \in Seq(Item) /\ Len(<<>>) = 0 /\ DOMAIN <<>> = {}
        OBVIOUS
    <2>2. Bytes(<<>>) = 0
        <3>1. Sized({[value |-> [size |-> 0]]})
            BY DEF Sized
        <3> QED BY <3>1, BytesOfOne
    <2> QED BY <1>1, <1>2, <2>1, <2>2 DEF CacheFits, KeysDiffer
<1>5. KeptFits
    BY <1>1, <1>2 DEF KeptFits, Checkpoints!Init, Checkpoints!NoValue
<1>6. PutsFit
    BY DEF PutsFit, Putting, Checkpoints!Init, Checkpoints!NoCall
<1>7. ItemsFit /\ ServedFits
    BY <1>2 DEF ItemsFit, WritesDiffer, ServedFits, Checkpoints!ServedOnce
<1> QED BY <1>3, <1>4, <1>5, <1>6, <1>7 DEF CacheInv

(* Some cached values go, and some calls end.                              *)
LEMMA FewerCached ==
    ASSUME Drawn(cache'.values, cache.values)
    PROVE  /\ \A i \in DOMAIN cache'.values : \E j \in DOMAIN cache.values : cache'.values[i] = cache.values[j]
           /\ \A w : CachedHas(w)' => CachedHas(w)
           /\ WritesDiffer(cache.values) => WritesDiffer(cache'.values)
BY DEF Drawn, DrawnBy, CachedHas, WritesDiffer

LEMMA CallKinds ==
    ASSUME CacheTypes, NEW t \in Tasks
    PROVE  /\ call[t].op = "get" => \E k \in Keys : call[t] = [op |-> "get", key |-> k]
           /\ Putting(t) => call[t] \in PutCall
BY DEF CacheTypes, CallFits, Checkpoints!NoCall, Putting, PutCall

(* get, put and its answer leave what the storage holds alone.             *)
LEMMA HitKeeps ==
    ASSUME Checkpoints!CacheAssumption, CacheInv,
           NEW t \in Tasks, NEW k \in Keys, Checkpoints!GetHit(t, k)
    PROVE  CacheInv'
<1>1. /\ CheckpointTtl \in Nat /\ MaxCheckpoints \in Nat /\ MaxCheckpointBytes \in Nat
    BY DEF Checkpoints!CacheAssumption
<1>2. PICK i \in DOMAIN cache.values :
        /\ cache.values[i].key = k /\ time < cache.values[i].expires
        /\ known' = [known EXCEPT ![t][k] = cache.values[i].value.position]
        /\ served' = Append(served, [write |-> cache.values[i].value.write, at |-> time])
    BY DEF Checkpoints!GetHit, Checkpoints!Cached
<1>3. UNCHANGED <<kept, call, time, puts, acked, superseded>> /\ cache' = Checkpoints!Without(cache, k)
    BY DEF Checkpoints!GetHit, Checkpoints!Take
<1>4. CacheTypes /\ CacheFits(cache)
    BY DEF CacheInv
<1>5. /\ CacheFits(cache') /\ Drawn(cache'.values, cache.values)
      /\ \A j \in DOMAIN cache'.values : cache'.values[j].key # k
    BY <1>1, <1>3, <1>4, WithoutKey
<1>6. PICK e \in Item : e = cache.values[i] /\ ItemOK(e)
    <2>1. cache.values[i] \in Item
        BY <1>4 DEF CacheFits
    <2> QED BY <2>1 DEF CacheInv, ItemsFit
<1>7. PICK r \in [write : Nat, at : Nat] : r = [write |-> e.value.write, at |-> time]
    BY <1>4, <1>6 DEF Item, CheckpointValue, CacheTypes
<1>8. /\ served' \in Seq([write : Nat, at : Nat]) /\ Len(served') = Len(served) + 1
      /\ \A j \in 1 .. Len(served) : served'[j] = served[j]
      /\ served'[Len(served) + 1] = r /\ Len(served) \in Nat
      /\ DOMAIN served = 1 .. Len(served) /\ DOMAIN served' = 1 .. (Len(served) + 1)
    BY <1>2, <1>4, <1>6, <1>7 DEF CacheTypes
<1>9. CacheTypes'
    <2>1. cache.values[i].value.position \in Nat
        BY <1>6 DEF Item, CheckpointValue
    <2>2. known' \in [Tasks -> [Keys -> Nat]]
        BY <1>2, <1>4, <2>1 DEF CacheTypes
    <2> QED BY <1>3, <1>4, <1>8, <2>2 DEF CacheTypes, CallFits
<1>10. KeptFits'
    BY <1>3 DEF CacheInv, KeptFits
<1>11. ~ CachedHas(e.value.write)'
    <2>1. PICK h : DrawnBy(h, cache'.values, cache.values)
        BY <1>5 DEF Drawn
    <2>2. \A j \in DOMAIN cache'.values : h[j] # i
        BY <1>2, <1>5, <2>1 DEF DrawnBy
    <2> QED BY <1>6, <2>1, <2>2 DEF DrawnBy, CacheInv, ItemsFit, WritesDiffer, CachedHas
<1>12. \A w : ServedHas(w)' <=> ServedHas(w) \/ w = e.value.write
    <2>1. \A j \in DOMAIN served' : j \in DOMAIN served \/ j = Len(served) + 1
        BY <1>8
    <2>2. \A j \in DOMAIN served : j \in DOMAIN served' /\ served'[j] = served[j]
        BY <1>8
    <2>3. Len(served) + 1 \in DOMAIN served' /\ served'[Len(served) + 1].write = e.value.write
        BY <1>7, <1>8
    <2> QED BY <2>1, <2>2, <2>3 DEF ServedHas
<1>13. PutsFit'
    <2>1. CachedHas(e.value.write)
        BY <1>6 DEF CachedHas
    <2> QED BY <1>3, <1>5, <1>12, <2>1, FewerCached DEF CacheInv, PutsFit, Putting, Fresh
<1>14. ItemsFit'
    BY <1>3, <1>5, <1>11, <1>12, FewerCached DEF CacheInv, ItemsFit, ItemOK, Fresh, CachedHas
<1>15. ServedFits'
    <2>1. ServedOK(r)'
        <3>1. /\ e.value.write \in 1 .. puts /\ e.expires <= time + CheckpointTtl /\ time < e.expires
              /\ superseded[e.value.write] = Checkpoints!NotYet
                   \/ superseded[e.value.write] >= e.expires - CheckpointTtl
            BY <1>2, <1>6 DEF ItemOK, Fresh
        <3>2. e.expires \in Nat /\ time \in Nat /\ superseded[e.value.write] \in Int
            <4>1. e.value.write \in 1 .. MaxPuts
                BY <1>4, <3>1 DEF CacheTypes, Checkpoints!CacheAssumption
            <4> QED BY <1>4, <1>6, <4>1 DEF Item, CacheTypes
        <3>3. r.write = e.value.write /\ r.at = time
            BY <1>7
        <3> QED BY <1>1, <1>3, <3>1, <3>2, <3>3 DEF ServedOK
    <2>2. ASSUME NEW x, ServedOK(x) PROVE ServedOK(x)'
        BY <1>3, <2>2 DEF ServedOK
    <2>3. (\A j \in DOMAIN served : ServedOK(served[j]))'
        <3> SUFFICES ASSUME NEW j \in DOMAIN served' PROVE ServedOK(served[j])'
            OBVIOUS
        <3>1. CASE j \in DOMAIN served
            <4>1. PICK x : x = served[j] /\ ServedOK(x)
                BY <3>1 DEF CacheInv, ServedFits
            <4>2. served'[j] = x
                BY <1>8, <3>1, <4>1
            <4> QED BY <2>2, <4>1, <4>2 DEF ServedOK
        <3>2. CASE j = Len(served) + 1
            BY <1>8, <2>1, <3>2 DEF ServedOK
        <3> QED BY <1>8, <3>1, <3>2
    <2>4. Checkpoints!ServedOnce'
        <3>1. \A j \in DOMAIN served : served[j].write # r.write
            BY <1>6, <1>7 DEF ItemOK, ServedHas
        <3>2. \A j \in DOMAIN served' : j \in DOMAIN served \/ j = Len(served) + 1
            BY <1>8
        <3> QED BY <1>8, <3>1, <3>2 DEF CacheInv, ServedFits, Checkpoints!ServedOnce
    <2> QED BY <2>3, <2>4 DEF ServedFits
<1> QED BY <1>5, <1>9, <1>10, <1>13, <1>14, <1>15 DEF CacheInv

-----------------------------------------------------------------------------
(* The clock and the numbers go on, and what is superseded is so now.      *)
Onward ==
    /\ puts' \in Nat /\ time' \in Nat /\ puts <= puts' /\ time <= time'
    /\ \A w \in 1 .. puts : superseded'[w] = superseded[w] \/ superseded'[w] = time

LEMMA OnwardFresh ==
    ASSUME CheckpointTtl \in Nat, CacheTypes, Onward, NEW w, NEW x \in Nat, Fresh(w, x)
    PROVE  Fresh(w, x)'
BY DEF CacheTypes, Onward, Fresh

LEMMA OnwardServed ==
    ASSUME CheckpointTtl \in Nat, CacheTypes, Onward, ServedFits, served' = served
    PROVE  ServedFits'
<1>1. Checkpoints!ServedOnce'
    BY DEF ServedFits, Checkpoints!ServedOnce
<1>2. ASSUME NEW x \in [write : Nat, at : Nat], ServedOK(x) PROVE ServedOK(x)'
    <2>1. /\ x.write \in 1 .. puts /\ x.at <= time /\ CheckpointTtl > 0 /\ x.at \in Nat
          /\ superseded[x.write] = Checkpoints!NotYet \/ x.at - superseded[x.write] < CheckpointTtl
        BY <1>2 DEF ServedOK
    <2>2. /\ time \in Nat /\ time' \in Nat /\ time <= time' /\ puts \in Nat /\ puts' \in Nat /\ puts <= puts'
          /\ superseded'[x.write] = superseded[x.write] \/ superseded'[x.write] = time
        BY <2>1 DEF Onward, CacheTypes
    <2>3. x.at - time < CheckpointTtl /\ x.at <= time' /\ x.write \in 1 .. puts'
        BY <2>1, <2>2
    <2> QED BY <2>1, <2>2, <2>3 DEF ServedOK
<1>3. (\A i \in DOMAIN served : ServedOK(served[i]))'
    <2> SUFFICES ASSUME NEW i \in DOMAIN served' PROVE ServedOK(served[i])'
        OBVIOUS
    <2>1. PICK x \in [write : Nat, at : Nat] : x = served[i] /\ ServedOK(x)
        <3>1. i \in DOMAIN served /\ served \in Seq([write : Nat, at : Nat])
            BY DEF CacheTypes
        <3>2. served[i] \in [write : Nat, at : Nat]
            <4>1. i \in 1 .. Len(served)
                BY <3>1
            <4> QED BY <3>1, <4>1, ElementOfSeq
        <3> QED BY <3>1, <3>2 DEF ServedFits
    <2> QED BY <1>2, <2>1 DEF ServedOK
<1> QED BY <1>1, <1>3 DEF ServedFits

LEMMA OnwardItems ==
    ASSUME CheckpointTtl \in Nat, CacheTypes, Onward, CacheFits(cache), ItemsFit, served' = served,
           Drawn(cache'.values, cache.values),
           \A i \in DOMAIN cache'.values : acked[cache'.values[i].key] \subseteq acked'[cache'.values[i].key]
    PROVE  ItemsFit'
<1>1. ASSUME NEW x \in Item, ItemOK(x), acked[x.key] \subseteq acked'[x.key] PROVE ItemOK(x)'
    <2>1. x.expires \in Nat
        BY DEF Item
    <2>2. Fresh(x.value.write, x.expires)'
        BY <1>1, <2>1, OnwardFresh DEF ItemOK
    <2> QED BY <1>1, <2>2 DEF ItemOK, ServedHas
<1>2. (\A i \in DOMAIN cache.values : ItemOK(cache.values[i]))'
    <2> SUFFICES ASSUME NEW i \in DOMAIN cache'.values PROVE ItemOK(cache.values[i])'
        OBVIOUS
    <2>1. PICK x \in Item : x = cache'.values[i] /\ ItemOK(x)
        BY FewerCached DEF ItemsFit, CacheFits
    <2> QED BY <1>1, <2>1 DEF ItemOK, Fresh, ServedHas
<1> QED BY <1>2, FewerCached DEF ItemsFit

LEMMA OnwardPuts ==
    ASSUME CheckpointTtl \in Nat, CacheTypes, Onward, PutsFit, served' = served,
           \A w : CachedHas(w)' => CachedHas(w),
           \A t \in Tasks : Putting(t)' =>
             Putting(t) /\ call'[t].value = call[t].value /\ call'[t].expires = call[t].expires
    PROVE  PutsFit'
<1>1. ASSUME NEW t \in Tasks, Putting(t)'
      PROVE  /\ Fresh(call[t].value.write, call[t].expires)'
             /\ ~ CachedHas(call[t].value.write)' /\ ~ ServedHas(call[t].value.write)'
    <2>1. Putting(t) /\ call'[t].value = call[t].value /\ call'[t].expires = call[t].expires
        BY <1>1
    <2>2. PICK w, x : w = call[t].value.write /\ x = call[t].expires
        OBVIOUS
    <2>3. /\ Fresh(w, x) /\ ~ CachedHas(w) /\ ~ ServedHas(w) /\ x \in Nat
        BY <2>1, <2>2, CallKinds DEF PutsFit, PutCall
    <2>4. Fresh(w, x)' /\ ~ CachedHas(w)' /\ ~ ServedHas(w)'
        BY <2>3, OnwardFresh DEF ServedHas
    <2> QED BY <2>1, <2>2, <2>4 DEF Fresh, CachedHas, ServedHas
<1>2. ASSUME NEW t \in Tasks, NEW u \in Tasks, Putting(t)', Putting(u)',
             call'[t].value.write = call'[u].value.write
      PROVE  t = u
    BY <1>2 DEF PutsFit
<1> QED BY <1>1, <1>2 DEF PutsFit

(* The storage replaces a value.                                           *)
LEMMA Swapped ==
    ASSUME CacheTypes, KeptFits, NEW k \in Keys, NEW v \in CheckpointValue,
           Checkpoints!Swap(k, v), time' = time, puts' \in Nat, puts <= puts', puts' <= MaxPuts,
           MaxPuts \in Nat, v.write <= puts'
    PROVE  /\ Onward /\ KeptFits'
           /\ kept' \in [Keys -> CheckpointValue] /\ superseded' \in [1 .. MaxPuts -> Int]
<1>1. /\ kept' = [kept EXCEPT ![k] = v]
      /\ superseded' = IF kept[k].write = 0 THEN superseded
                       ELSE [superseded EXCEPT ![kept[k].write] = time]
    BY DEF Checkpoints!Swap
<1>2. kept' \in [Keys -> CheckpointValue] /\ superseded' \in [1 .. MaxPuts -> Int]
    <2>1. superseded \in [1 .. MaxPuts -> Int] /\ time \in Int /\ kept \in [Keys -> CheckpointValue]
        BY DEF CacheTypes
    <2>2. \A w : [superseded EXCEPT ![w] = time] \in [1 .. MaxPuts -> Int]
        BY <2>1
    <2> QED BY <1>1, <2>1, <2>2
<1>3. PICK w \in Nat : w = kept[k].write /\ w <= puts
    BY DEF KeptFits, CacheTypes, CheckpointValue
<1>4. Onward
    <2>1. \A u \in 1 .. puts : superseded'[u] = superseded[u] \/ superseded'[u] = time
        BY <1>1, <1>3 DEF CacheTypes
    <2> QED BY <2>1 DEF Onward, CacheTypes
<1>5. KeptFits'
    <2>1. \A j \in Keys : kept'[j].write <= puts'
        <3> TAKE j \in Keys
        <3>1. kept'[j] = v \/ kept'[j] = kept[j]
            BY <1>1 DEF CacheTypes
        <3>2. kept[j].write <= puts /\ kept[j].write \in Nat /\ puts \in Nat
            BY DEF KeptFits, CacheTypes, CheckpointValue
        <3> QED BY <3>1, <3>2
    <2>2. \A u \in 1 .. MaxPuts : u > puts' => superseded'[u] = Checkpoints!NotYet
        BY <1>1, <1>3 DEF KeptFits, CacheTypes
    <2> QED BY <2>1, <2>2 DEF KeptFits
<1> QED BY <1>2, <1>4, <1>5

LEMMA StandStill ==
    ASSUME CacheTypes, UNCHANGED <<superseded, puts>>, time' \in Nat, time <= time'
    PROVE  Onward
BY DEF CacheTypes, Onward

(* A task's call changes, and no put of it begins.                         *)
LEMMA CallEnds ==
    ASSUME CacheTypes, NEW t \in Tasks, NEW q, call' = [call EXCEPT ![t] = q],
           \/ q = Checkpoints!NoCall
           \/ \E k \in Keys : q = [op |-> "get", key |-> k]
    PROVE  /\ call' = [u \in Tasks |-> call'[u]]
           /\ \A u \in Tasks : CallFits(u)'
           /\ \A u \in Tasks : Putting(u)' =>
                Putting(u) /\ call'[u].value = call[u].value /\ call'[u].expires = call[u].expires
<1>1. call' = [u \in Tasks |-> IF u = t THEN q ELSE call[u]]
    BY DEF CacheTypes
<1>2. call'[t] = q /\ \A u \in Tasks : u # t => call'[u] = call[u]
    BY <1>1
<1>3. \A u \in Tasks : CallFits(u)'
    BY <1>2 DEF CacheTypes, CallFits
<1>4. ~ Putting(t)'
    BY <1>2 DEF Putting, Checkpoints!NoCall
<1> QED BY <1>1, <1>2, <1>3, <1>4 DEF Putting

LEMMA MissKeeps ==
    ASSUME Checkpoints!CacheAssumption, CacheInv,
           NEW t \in Tasks, NEW k \in Keys, Checkpoints!GetMiss(t, k)
    PROVE  CacheInv'
<1>1. /\ CheckpointTtl \in Nat /\ MaxCheckpoints \in Nat /\ MaxCheckpointBytes \in Nat
    BY DEF Checkpoints!CacheAssumption
<1>2. /\ UNCHANGED <<kept, known, time, puts, acked, superseded, served>>
      /\ cache' = Checkpoints!Without(cache, k)
      /\ call' = [call EXCEPT ![t] = [op |-> "get", key |-> k]]
    BY DEF Checkpoints!GetMiss
<1>3. CacheTypes /\ CacheFits(cache) /\ KeptFits /\ PutsFit /\ ItemsFit /\ ServedFits
    BY DEF CacheInv
<1>4. CacheFits(cache') /\ Drawn(cache'.values, cache.values)
    BY <1>1, <1>2, <1>3, WithoutKey
<1>5. /\ call' = [u \in Tasks |-> call'[u]]
      /\ \A u \in Tasks : CallFits(u)'
      /\ \A u \in Tasks : Putting(u)' =>
           Putting(u) /\ call'[u].value = call[u].value /\ call'[u].expires = call[u].expires
    BY <1>2, <1>3, CallEnds
<1>6. Onward
    BY <1>2, <1>3, StandStill DEF CacheTypes
<1>7. CacheTypes'
    BY <1>2, <1>3, <1>5 DEF CacheTypes
<1>8. KeptFits'
    BY <1>2, <1>3 DEF KeptFits
<1>9. PutsFit'
    BY <1>1, <1>2, <1>3, <1>4, <1>5, <1>6, FewerCached, OnwardPuts
<1>10. ItemsFit'
    BY <1>1, <1>2, <1>3, <1>4, <1>6, OnwardItems
<1>11. ServedFits'
    BY <1>1, <1>2, <1>3, <1>6, OnwardServed
<1> QED BY <1>4, <1>7, <1>8, <1>9, <1>10, <1>11 DEF CacheInv

LEMMA InnerKeeps ==
    ASSUME Checkpoints!CacheAssumption, CacheInv, NEW t \in Tasks, Checkpoints!GetInner(t)
    PROVE  CacheInv'
<1>1. CheckpointTtl \in Nat
    BY DEF Checkpoints!CacheAssumption
<1>2. CacheTypes /\ CacheFits(cache) /\ KeptFits /\ PutsFit /\ ItemsFit /\ ServedFits
    BY DEF CacheInv
<1>3. PICK k \in Keys : call[t] = [op |-> "get", key |-> k]
    BY <1>2, CallKinds DEF Checkpoints!GetInner
<1>4. /\ UNCHANGED <<kept, cache, time, puts, acked, superseded, served>>
      /\ known' = [known EXCEPT ![t][k] = kept[k].position]
      /\ call' = [call EXCEPT ![t] = Checkpoints!NoCall]
    BY <1>3 DEF Checkpoints!GetInner
<1>5. /\ call' = [u \in Tasks |-> call'[u]]
      /\ \A u \in Tasks : CallFits(u)'
      /\ \A u \in Tasks : Putting(u)' =>
           Putting(u) /\ call'[u].value = call[u].value /\ call'[u].expires = call[u].expires
    BY <1>2, <1>4, CallEnds
<1>6. Onward /\ Drawn(cache'.values, cache.values)
    BY <1>2, <1>4, StandStill, DrawnSelf DEF CacheTypes
<1>7. CacheTypes'
    <2>1. kept[k].position \in Nat
        BY <1>2 DEF CacheTypes, CheckpointValue
    <2>2. known' \in [Tasks -> [Keys -> Nat]]
        BY <1>2, <1>4, <2>1 DEF CacheTypes
    <2> QED BY <1>2, <1>4, <1>5, <2>2 DEF CacheTypes
<1>8. KeptFits' /\ CacheFits(cache')
    BY <1>2, <1>4 DEF KeptFits
<1>9. PutsFit'
    BY <1>1, <1>2, <1>4, <1>5, <1>6, FewerCached, OnwardPuts
<1>10. ItemsFit'
    BY <1>1, <1>2, <1>4, <1>6, OnwardItems
<1>11. ServedFits'
    BY <1>1, <1>2, <1>4, <1>6, OnwardServed
<1> QED BY <1>7, <1>8, <1>9, <1>10, <1>11 DEF CacheInv

LEMMA TimeKeeps ==
    ASSUME Checkpoints!CacheAssumption, CacheInv,
           Checkpoints!Tick \/ UNCHANGED Checkpoints!vars
    PROVE  CacheInv'
<1>1. CheckpointTtl \in Nat
    BY DEF Checkpoints!CacheAssumption
<1>2. CacheTypes /\ CacheFits(cache) /\ KeptFits /\ PutsFit /\ ItemsFit /\ ServedFits
    BY DEF CacheInv
<1>3. /\ UNCHANGED <<kept, cache, known, call, puts, acked, superseded, served>>
      /\ time' \in Nat /\ time <= time'
    BY <1>2 DEF Checkpoints!Tick, Checkpoints!vars, CacheTypes
<1>4. Onward /\ Drawn(cache'.values, cache.values)
    BY <1>2, <1>3, StandStill, DrawnSelf
<1>5. CacheTypes'
    BY <1>2, <1>3 DEF CacheTypes, CallFits
<1>6. KeptFits' /\ CacheFits(cache')
    BY <1>2, <1>3 DEF KeptFits
<1>7. PutsFit'
    BY <1>1, <1>2, <1>3, <1>4, FewerCached, OnwardPuts DEF Putting
<1>8. ItemsFit'
    BY <1>1, <1>2, <1>3, <1>4, OnwardItems
<1>9. ServedFits'
    BY <1>1, <1>2, <1>3, <1>4, OnwardServed
<1> QED BY <1>5, <1>6, <1>7, <1>8, <1>9 DEF CacheInv

LEMMA ExternalKeeps ==
    ASSUME Checkpoints!CacheAssumption, CacheInv, NEW k \in Keys, Checkpoints!ExternalPut(k)
    PROVE  CacheInv'
<1>1. CheckpointTtl \in Nat /\ MaxPuts \in Nat
    BY DEF Checkpoints!CacheAssumption
<1>2. CacheTypes /\ CacheFits(cache) /\ KeptFits /\ PutsFit /\ ItemsFit /\ ServedFits
    BY DEF CacheInv
<1>3. /\ UNCHANGED <<cache, known, call, time, acked, served>>
      /\ puts < MaxPuts /\ puts' = puts + 1
      /\ Checkpoints!Swap(k, [write |-> puts + 1, position |-> kept[k].position + 1, size |-> 0])
    BY DEF Checkpoints!ExternalPut
<1>4. PICK v \in CheckpointValue :
        v = [write |-> puts + 1, position |-> kept[k].position + 1, size |-> 0]
    <2>1. kept[k].position \in Nat /\ puts \in Nat
        BY <1>2 DEF CacheTypes, CheckpointValue
    <2>2. puts + 1 \in Nat /\ kept[k].position + 1 \in Nat
        BY <2>1
    <2> QED BY <2>2 DEF CheckpointValue
<1>5. puts \in Nat /\ puts' \in Nat /\ puts <= puts' /\ puts' <= MaxPuts /\ v.write <= puts'
    BY <1>1, <1>2, <1>3, <1>4 DEF CacheTypes
<1>6. /\ Onward /\ KeptFits'
      /\ kept' \in [Keys -> CheckpointValue] /\ superseded' \in [1 .. MaxPuts -> Int]
    BY <1>1, <1>2, <1>3, <1>4, <1>5, Swapped
<1>7. CacheTypes'
    BY <1>2, <1>3, <1>5, <1>6 DEF CacheTypes, CallFits
<1>8. CacheFits(cache') /\ Drawn(cache'.values, cache.values)
    BY <1>2, <1>3, DrawnSelf
<1>9. PutsFit'
    BY <1>1, <1>2, <1>3, <1>6, <1>8, FewerCached, OnwardPuts DEF Putting
<1>10. ItemsFit'
    BY <1>1, <1>2, <1>3, <1>6, <1>8, OnwardItems
<1>11. ServedFits'
    BY <1>1, <1>2, <1>3, <1>6, OnwardServed
<1> QED BY <1>6, <1>7, <1>8, <1>9, <1>10, <1>11 DEF CacheInv

LEMMA EffectKeeps ==
    ASSUME Checkpoints!CacheAssumption, CacheInv, NEW t \in Tasks, Checkpoints!PutEffect(t)
    PROVE  CacheInv'
<1>1. CheckpointTtl \in Nat /\ MaxPuts \in Nat
    BY DEF Checkpoints!CacheAssumption
<1>2. CacheTypes /\ CacheFits(cache) /\ KeptFits /\ PutsFit /\ ItemsFit /\ ServedFits
    BY DEF CacheInv
<1>3. /\ UNCHANGED <<cache, known, time, puts, acked, served>>
      /\ \/ Checkpoints!Swap(call[t].key, call[t].value)
         \/ UNCHANGED <<kept, superseded>>
      /\ \E op \in {"failed", "true", "false"} : call' = [call EXCEPT ![t].op = op]
    BY DEF Checkpoints!PutEffect
<1>4. PICK c \in PutCall : c = call[t] /\ Putting(t)
    BY <1>2, CallKinds DEF Checkpoints!PutEffect, Putting
<1>5. PICK q \in PutCall :
        /\ call' = [call EXCEPT ![t] = q]
        /\ q.key = c.key /\ q.value = c.value /\ q.expires = c.expires
    <2>1. PICK op \in {"failed", "true", "false"} : call' = [call EXCEPT ![t].op = op]
        BY <1>3
    <2>2. PICK q \in PutCall : q = [c EXCEPT !.op = op]
        BY DEF PutCall
    <2>3. call' = [call EXCEPT ![t] = q]
        BY <1>4, <2>1, <2>2
    <2> QED BY <2>2, <2>3 DEF PutCall
<1>6. /\ Onward /\ KeptFits'
      /\ kept' \in [Keys -> CheckpointValue] /\ superseded' \in [1 .. MaxPuts -> Int]
    <2>1. CASE Checkpoints!Swap(call[t].key, call[t].value)
        <3>1. c.key \in Keys /\ c.value \in CheckpointValue
            BY DEF PutCall
        <3>2. c.value.write <= puts /\ puts \in Nat /\ puts <= MaxPuts
            BY <1>2, <1>4 DEF PutsFit, Fresh, CacheTypes
        <3> QED BY <1>1, <1>2, <1>3, <1>4, <2>1, <3>1, <3>2, Swapped
    <2>2. CASE UNCHANGED <<kept, superseded>>
        <3>1. Onward
            BY <1>2, <1>3, <2>2, StandStill DEF CacheTypes
        <3> QED BY <1>2, <1>3, <2>2, <3>1 DEF KeptFits, CacheTypes
    <2> QED BY <1>3, <2>1, <2>2
<1>7. call' = [u \in Tasks |-> IF u = t THEN q ELSE call[u]]
    BY <1>2, <1>5 DEF CacheTypes
<1>8. call'[t] = q /\ \A u \in Tasks : u # t => call'[u] = call[u]
    BY <1>7
<1>9. CacheTypes'
    <2>1. \A u \in Tasks : CallFits(u)'
        BY <1>2, <1>8 DEF CacheTypes, CallFits
    <2> QED BY <1>2, <1>3, <1>6, <1>7, <2>1 DEF CacheTypes
<1>10. \A u \in Tasks : Putting(u)' =>
         Putting(u) /\ call'[u].value = call[u].value /\ call'[u].expires = call[u].expires
    BY <1>4, <1>5, <1>8 DEF Putting
<1>11. CacheFits(cache') /\ Drawn(cache'.values, cache.values)
    BY <1>2, <1>3, DrawnSelf
<1>12. PutsFit'
    BY <1>1, <1>2, <1>3, <1>6, <1>10, <1>11, FewerCached, OnwardPuts
<1>13. ItemsFit'
    BY <1>1, <1>2, <1>3, <1>6, <1>11, OnwardItems
<1>14. ServedFits'
    BY <1>1, <1>2, <1>3, <1>6, OnwardServed
<1> QED BY <1>6, <1>9, <1>11, <1>12, <1>13, <1>14 DEF CacheInv

LEMMA UnconfirmedKeeps ==
    ASSUME Checkpoints!CacheAssumption, CacheInv, NEW t \in Tasks, Checkpoints!PutUnconfirmed(t)
    PROVE  CacheInv'
<1>1. /\ CheckpointTtl \in Nat /\ MaxCheckpoints \in Nat /\ MaxCheckpointBytes \in Nat
    BY DEF Checkpoints!CacheAssumption
<1>2. CacheTypes /\ CacheFits(cache) /\ KeptFits /\ PutsFit /\ ItemsFit /\ ServedFits
    BY DEF CacheInv
<1>3. PICK k \in Keys : k = call[t].key
    BY <1>2, CallKinds DEF Checkpoints!PutUnconfirmed, Putting, PutCall
<1>4. /\ UNCHANGED <<kept, known, time, puts, superseded, served>>
      /\ cache' = Checkpoints!Without(cache, k) /\ acked' = [acked EXCEPT ![k] = {}]
      /\ call' = [call EXCEPT ![t] = Checkpoints!NoCall]
    BY <1>3 DEF Checkpoints!PutUnconfirmed
<1>5. /\ CacheFits(cache') /\ Drawn(cache'.values, cache.values)
      /\ \A i \in DOMAIN cache'.values : cache'.values[i].key # k
    BY <1>1, <1>2, <1>4, WithoutKey
<1>6. /\ call' = [u \in Tasks |-> call'[u]]
      /\ \A u \in Tasks : CallFits(u)'
      /\ \A u \in Tasks : Putting(u)' =>
           Putting(u) /\ call'[u].value = call[u].value /\ call'[u].expires = call[u].expires
    BY <1>2, <1>4, CallEnds
<1>7. Onward
    BY <1>2, <1>4, StandStill DEF CacheTypes
<1>8. CacheTypes'
    BY <1>2, <1>4, <1>6 DEF CacheTypes
<1>9. KeptFits'
    BY <1>2, <1>4 DEF KeptFits
<1>10. PutsFit'
    BY <1>1, <1>2, <1>4, <1>5, <1>6, <1>7, FewerCached, OnwardPuts
<1>11. ItemsFit'
    <2>1. \A i \in DOMAIN cache'.values :
            acked[cache'.values[i].key] \subseteq acked'[cache'.values[i].key]
        BY <1>2, <1>4, <1>5 DEF CacheTypes
    <2> QED BY <1>1, <1>2, <1>4, <1>5, <1>7, <2>1, OnwardItems
<1>12. ServedFits'
    BY <1>1, <1>2, <1>4, <1>7, OnwardServed
<1> QED BY <1>5, <1>8, <1>9, <1>10, <1>11, <1>12 DEF CacheInv

LEMMA BeginKeeps ==
    ASSUME Checkpoints!CacheAssumption, CacheInv,
           NEW t \in Tasks, NEW k \in Keys, Checkpoints!PutBegin(t, k)
    PROVE  CacheInv'
<1>1. /\ CheckpointTtl \in Nat /\ MaxCheckpoints \in Nat /\ MaxCheckpointBytes \in Nat
      /\ MaxPuts \in Nat /\ CheckpointSizes \subseteq Nat
    BY DEF Checkpoints!CacheAssumption
<1>2. CacheTypes /\ CacheFits(cache) /\ KeptFits /\ PutsFit /\ ItemsFit /\ ServedFits
    BY DEF CacheInv
<1>3. PICK size \in CheckpointSizes :
        call' = [call EXCEPT ![t] =
           [op |-> "put", key |-> k, expected |-> known[t][k], expires |-> time + CheckpointTtl,
            value |-> [write |-> puts + 1, position |-> known[t][k] + 1, size |-> size]]]
    BY DEF Checkpoints!PutBegin
<1>4. /\ UNCHANGED <<kept, known, time, superseded, served>>
      /\ puts < MaxPuts /\ puts' = puts + 1
      /\ cache' = Checkpoints!Without(cache, k) /\ acked' = [acked EXCEPT ![k] = {}]
    BY DEF Checkpoints!PutBegin, Checkpoints!Invalidate
<1>5. PICK q \in PutCall :
        /\ call' = [call EXCEPT ![t] = q]
        /\ q.value.write = puts + 1 /\ q.expires = time + CheckpointTtl
    <2>1. /\ known[t][k] \in Nat /\ known[t][k] + 1 \in Nat /\ puts + 1 \in Nat
          /\ time + CheckpointTtl \in Nat /\ size \in Nat
        BY <1>1, <1>2 DEF CacheTypes
    <2>2. PICK v \in CheckpointValue : v = [write |-> puts + 1, position |-> known[t][k] + 1, size |-> size]
        BY <2>1 DEF CheckpointValue
    <2>3. PICK q \in PutCall :
            q = [op |-> "put", key |-> k, expected |-> known[t][k],
                 expires |-> time + CheckpointTtl, value |-> v]
        BY <2>1 DEF PutCall
    <2> QED BY <1>3, <2>2, <2>3
<1>6. /\ puts \in Nat /\ puts' \in Nat /\ puts <= puts' /\ puts' <= MaxPuts /\ time \in Nat
      /\ puts + 1 \in 1 .. puts' /\ puts + 1 \in 1 .. MaxPuts /\ ~ (puts + 1 \in 1 .. puts)
    BY <1>1, <1>2, <1>4 DEF CacheTypes
<1>7. /\ CacheFits(cache') /\ Drawn(cache'.values, cache.values)
      /\ \A i \in DOMAIN cache'.values : cache'.values[i].key # k
    BY <1>1, <1>2, <1>4, WithoutKey
<1>8. /\ call' = [u \in Tasks |-> IF u = t THEN q ELSE call[u]]
      /\ call'[t] = q /\ \A u \in Tasks : u # t => call'[u] = call[u]
    BY <1>2, <1>5 DEF CacheTypes
<1>9. CacheTypes'
    <2>1. \A u \in Tasks : CallFits(u)'
        BY <1>2, <1>8 DEF CacheTypes, CallFits
    <2>2. acked' \in [Keys -> SUBSET Nat]
        BY <1>2, <1>4 DEF CacheTypes
    <2> QED BY <1>2, <1>4, <1>6, <1>8, <2>1, <2>2 DEF CacheTypes
<1>10. Onward
    BY <1>2, <1>4, <1>6 DEF Onward
<1>11. KeptFits'
    <2>1. \A j \in Keys : kept[j].write <= puts'
        <3> TAKE j \in Keys
        <3>1. kept[j].write \in Nat /\ kept[j].write <= puts
            BY <1>2 DEF CacheTypes, KeptFits, CheckpointValue
        <3> QED BY <1>6, <3>1
    <2>2. \A w \in 1 .. MaxPuts : w > puts' => superseded[w] = Checkpoints!NotYet
        BY <1>1, <1>2, <1>6 DEF KeptFits
    <2> QED BY <1>4, <2>1, <2>2 DEF KeptFits
<1>12. \A w : (CachedHas(w)' => CachedHas(w)) /\ (CachedHas(w) => w \in 1 .. puts)
    BY <1>2, <1>7, FewerCached DEF ItemsFit, ItemOK, Fresh, CachedHas
<1>13. \A w : (ServedHas(w)' <=> ServedHas(w)) /\ (ServedHas(w) => w \in 1 .. puts)
    BY <1>2, <1>4 DEF ServedFits, ServedOK, ServedHas
<1>14. PutsFit'
    <2>1. ASSUME NEW u \in Tasks, Putting(u)'
          PROVE  /\ Fresh(call[u].value.write, call[u].expires)'
                 /\ ~ CachedHas(call[u].value.write)' /\ ~ ServedHas(call[u].value.write)'
        <3>1. CASE u = t
            <4>1. PICK w, x : w = puts + 1 /\ x = time + CheckpointTtl
                OBVIOUS
            <4>2. superseded'[w] = Checkpoints!NotYet
                BY <1>2, <1>4, <1>6, <4>1 DEF KeptFits
            <4>3. Fresh(w, x)'
                BY <1>1, <1>4, <1>6, <4>1, <4>2 DEF Fresh
            <4>4. ~ CachedHas(w)' /\ ~ ServedHas(w)'
                BY <1>6, <1>12, <1>13, <4>1
            <4> QED BY <1>5, <1>8, <3>1, <4>1, <4>3, <4>4 DEF Fresh, CachedHas, ServedHas
        <3>2. CASE u # t
            <4>1. Putting(u) /\ call'[u] = call[u] /\ call[u] \in PutCall
                BY <1>2, <1>8, <2>1, <3>2, CallKinds DEF Putting
            <4>2. PICK w, x : w = call[u].value.write /\ x = call[u].expires
                OBVIOUS
            <4>3. Fresh(w, x) /\ ~ CachedHas(w) /\ ~ ServedHas(w) /\ x \in Nat
                BY <1>2, <4>1, <4>2 DEF PutsFit, PutCall
            <4>4. Fresh(w, x)' /\ ~ CachedHas(w)' /\ ~ ServedHas(w)'
                BY <1>1, <1>2, <1>10, <1>12, <1>13, <4>3, OnwardFresh
            <4> QED BY <4>1, <4>2, <4>4 DEF Fresh, CachedHas, ServedHas
        <3> QED BY <3>1, <3>2
    <2>2. \A u \in Tasks : u # t /\ Putting(u)' => Putting(u) /\ call[u].value.write \in 1 .. puts
        BY <1>2, <1>8 DEF Putting, PutsFit, Fresh
    <2>3. ASSUME NEW u \in Tasks, NEW v \in Tasks, Putting(u)', Putting(v)',
                 call'[u].value.write = call'[v].value.write
          PROVE  u = v
        BY <1>2, <1>5, <1>6, <1>8, <2>2, <2>3 DEF PutsFit
    <2> QED BY <2>1, <2>3 DEF PutsFit
<1>15. ItemsFit'
    <2>1. \A i \in DOMAIN cache'.values :
            acked[cache'.values[i].key] \subseteq acked'[cache'.values[i].key]
        BY <1>2, <1>4, <1>7 DEF CacheTypes
    <2> QED BY <1>1, <1>2, <1>4, <1>7, <1>10, <2>1, OnwardItems
<1>16. ServedFits'
    BY <1>1, <1>2, <1>4, <1>10, OnwardServed
<1> QED BY <1>7, <1>9, <1>11, <1>14, <1>15, <1>16 DEF CacheInv

LEMMA AcknowledgedKeeps ==
    ASSUME Checkpoints!CacheAssumption, CacheInv, NEW t \in Tasks, Checkpoints!PutAcknowledged(t)
    PROVE  CacheInv'
<1>1. CheckpointTtl \in Nat
    BY DEF Checkpoints!CacheAssumption
<1>2. CacheTypes /\ CacheFits(cache) /\ KeptFits /\ PutsFit /\ ItemsFit /\ ServedFits
    BY DEF CacheInv
<1>3. PICK c \in PutCall : c = call[t] /\ Putting(t)
    BY <1>2, CallKinds DEF Checkpoints!PutAcknowledged, Putting
<1>4. PICK e \in Item : e = [key |-> c.key, value |-> c.value, expires |-> c.expires]
    BY DEF PutCall, Item
<1>5. PICK w : w = c.value.write /\ w \in Nat
    BY DEF PutCall, CheckpointValue
<1>6. /\ UNCHANGED <<kept, time, puts, superseded, served>>
      /\ cache' = Checkpoints!Insert(cache, e)
      /\ known' = [known EXCEPT ![t][c.key] = c.value.position]
      /\ acked' = [acked EXCEPT ![c.key] = @ \cup {w}]
      /\ call' = [call EXCEPT ![t] = Checkpoints!NoCall]
    BY <1>3, <1>4, <1>5 DEF Checkpoints!PutAcknowledged, Checkpoints!Deadline
<1>7. /\ CacheFits(cache')
      /\ Drawn(cache'.values, cache.values) \/ AddedTo(cache'.values, cache.values, e)
    BY <1>2, <1>6, Inserted
<1>8. /\ call' = [u \in Tasks |-> call'[u]]
      /\ \A u \in Tasks : CallFits(u)'
      /\ \A u \in Tasks : Putting(u)' =>
           Putting(u) /\ call'[u].value = call[u].value /\ call'[u].expires = call[u].expires
      /\ ~ Putting(t)'
    <2>1. call'[t] = Checkpoints!NoCall
        BY <1>2, <1>6 DEF CacheTypes
    <2>2. ~ Putting(t)'
        BY <2>1 DEF Putting, Checkpoints!NoCall
    <2> QED BY <1>2, <1>6, <2>2, CallEnds
<1>9. Onward
    BY <1>2, <1>6, StandStill DEF CacheTypes
<1>10. CacheTypes'
    <2>1. c.value.position \in Nat /\ c.key \in Keys
        BY DEF PutCall, CheckpointValue
    <2>2. known' \in [Tasks -> [Keys -> Nat]]
        BY <1>2, <1>6, <2>1 DEF CacheTypes
    <2>3. acked' \in [Keys -> SUBSET Nat]
        BY <1>2, <1>5, <1>6, <2>1 DEF CacheTypes
    <2> QED BY <1>2, <1>6, <1>8, <2>2, <2>3 DEF CacheTypes
<1>11. KeptFits'
    BY <1>2, <1>6 DEF KeptFits
<1>12. ServedFits'
    BY <1>1, <1>2, <1>6, <1>9, OnwardServed
<1>13. CASE Drawn(cache'.values, cache.values)
    <2>1. PutsFit'
        BY <1>1, <1>2, <1>6, <1>8, <1>9, <1>13, FewerCached, OnwardPuts
    <2>2. \A k \in Keys : acked[k] \subseteq acked'[k]
        BY <1>2, <1>6 DEF CacheTypes
    <2>3. \A i \in DOMAIN cache'.values : cache'.values[i].key \in Keys
        <3>1. cache'.values \in Seq(Item)
            BY <1>7 DEF CacheFits
        <3>2. \A i \in DOMAIN cache'.values : cache'.values[i] \in Item
            BY <3>1
        <3> QED BY <3>2 DEF Item
    <2>4. ItemsFit'
        BY <1>1, <1>2, <1>6, <1>9, <1>13, <2>2, <2>3, OnwardItems
    <2> QED BY <1>7, <1>10, <1>11, <1>12, <2>1, <2>4 DEF CacheInv
<1>14. CASE AddedTo(cache'.values, cache.values, e)
    <2>1. PICK us \in Seq(Item) : Drawn(us, cache.values) /\ cache'.values = Append(us, e)
        BY <1>14 DEF AddedTo
    <2>2. /\ Len(us) \in Nat /\ DOMAIN us = 1 .. Len(us)
          /\ DOMAIN cache'.values = 1 .. (Len(us) + 1)
          /\ \A i \in 1 .. Len(us) : cache'.values[i] = us[i]
          /\ cache'.values[Len(us) + 1] = e
        BY <2>1
    <2>3. /\ \A i \in DOMAIN us : \E j \in DOMAIN cache.values : us[i] = cache.values[j]
          /\ WritesDiffer(cache.values) => WritesDiffer(us)
        BY <2>1 DEF Drawn, DrawnBy, WritesDiffer
    <2>4. \A i \in DOMAIN cache'.values : i \in DOMAIN us \/ i = Len(us) + 1
        BY <2>2
    <2>5. e.value.write = w /\ e.expires = c.expires /\ e.key = c.key
        BY <1>4, <1>5
    <2>6. \A v : CachedHas(v)' => CachedHas(v) \/ v = w
        BY <2>2, <2>3, <2>4, <2>5 DEF CachedHas
    <2>7. Fresh(w, c.expires) /\ ~ CachedHas(w) /\ ~ ServedHas(w) /\ c.expires \in Nat
        BY <1>2, <1>3, <1>5 DEF PutsFit, PutCall
    <2>8. PutsFit'
        <3>1. ASSUME NEW u \in Tasks, Putting(u)'
              PROVE  /\ Fresh(call[u].value.write, call[u].expires)'
                     /\ ~ CachedHas(call[u].value.write)' /\ ~ ServedHas(call[u].value.write)'
            <4>1. /\ Putting(u) /\ u # t /\ call[u] \in PutCall
                  /\ call'[u].value = call[u].value /\ call'[u].expires = call[u].expires
                BY <1>2, <1>8, <3>1, CallKinds
            <4>2. PICK v, x : v = call[u].value.write /\ x = call[u].expires
                OBVIOUS
            <4>3. Fresh(v, x) /\ ~ CachedHas(v) /\ ~ ServedHas(v) /\ x \in Nat /\ v # w
                BY <1>2, <1>3, <1>5, <4>1, <4>2 DEF PutsFit, PutCall
            <4>4. Fresh(v, x)' /\ ~ CachedHas(v)' /\ ~ ServedHas(v)'
                BY <1>1, <1>2, <1>6, <1>9, <2>6, <4>3, OnwardFresh DEF ServedHas
            <4> QED BY <4>1, <4>2, <4>4 DEF Fresh, CachedHas, ServedHas
        <3>2. ASSUME NEW u \in Tasks, NEW v \in Tasks, Putting(u)', Putting(v)',
                     call'[u].value.write = call'[v].value.write
              PROVE  u = v
            BY <1>2, <1>8, <3>2 DEF PutsFit
        <3> QED BY <3>1, <3>2 DEF PutsFit
    <2>9. ASSUME NEW x \in Item, ItemOK(x) PROVE ItemOK(x)'
        <3>1. x.expires \in Nat /\ x.key \in Keys
            BY DEF Item
        <3>2. Fresh(x.value.write, x.expires)'
            BY <1>1, <1>2, <1>9, <2>9, <3>1, OnwardFresh DEF ItemOK
        <3>3. acked[x.key] \subseteq acked'[x.key]
            BY <1>2, <1>6, <3>1 DEF CacheTypes
        <3> QED BY <1>6, <2>9, <3>2, <3>3 DEF ItemOK, ServedHas
    <2>10. ItemOK(e)'
        <3>1. Fresh(w, c.expires)'
            BY <1>1, <1>2, <1>9, <2>7, OnwardFresh
        <3>2. w \in acked'[c.key]
            BY <1>2, <1>6 DEF CacheTypes, PutCall
        <3>3. ~ ServedHas(w)'
            BY <1>6, <2>7 DEF ServedHas
        <3> QED BY <2>5, <3>1, <3>2, <3>3 DEF ItemOK, Fresh, ServedHas
    <2>11. (\A i \in DOMAIN cache.values : ItemOK(cache.values[i]))'
        <3> SUFFICES ASSUME NEW i \in DOMAIN cache'.values PROVE ItemOK(cache.values[i])'
            OBVIOUS
        <3>1. PICK x \in Item : x = cache'.values[i] /\ (ItemOK(x) \/ x = e)
            <4>1. CASE i \in DOMAIN us
                <5>1. us[i] \in Item
                    BY <2>2, <4>1, ElementOfSeq
                <5> QED BY <1>2, <2>2, <2>3, <4>1, <5>1 DEF ItemsFit
            <4>2. CASE i = Len(us) + 1
                BY <2>2, <4>2
            <4> QED BY <2>4, <4>1, <4>2
        <3>2. ItemOK(x)'
            BY <2>9, <2>10, <3>1 DEF ItemOK, Fresh, ServedHas
        <3> QED BY <3>1, <3>2 DEF ItemOK, Fresh, ServedHas
    <2>12. WritesDiffer(cache'.values)
        <3>1. \A i \in DOMAIN us : us[i].value.write # w
            BY <2>3, <2>7 DEF CachedHas
        <3>2. WritesDiffer(us)
            BY <1>2, <2>3 DEF ItemsFit
        <3> QED BY <2>2, <2>4, <2>5, <3>1, <3>2 DEF WritesDiffer
    <2>13. ItemsFit'
        BY <2>11, <2>12 DEF ItemsFit
    <2> QED BY <1>7, <1>10, <1>11, <1>12, <2>8, <2>13 DEF CacheInv
<1> QED BY <1>7, <1>13, <1>14

LEMMA CacheInvStep ==
    ASSUME Checkpoints!CacheAssumption, CacheInv, [Checkpoints!Next]_(Checkpoints!vars)
    PROVE  CacheInv'
BY HitKeeps, MissKeeps, InnerKeeps, BeginKeeps, EffectKeeps, AcknowledgedKeeps,
   UnconfirmedKeeps, ExternalKeeps, TimeKeeps DEF Checkpoints!Next

LEMMA CacheInvHolds ==
    ASSUME CacheInv
    PROVE  /\ Checkpoints!CachedIsConfirmed /\ Checkpoints!ServedIsFresh /\ Checkpoints!ServedOnce
           /\ Checkpoints!WithinLimits
<1>1. Checkpoints!CachedIsConfirmed
    BY DEF CacheInv, ItemsFit, ItemOK, Checkpoints!CachedIsConfirmed
<1>2. Checkpoints!ServedIsFresh
    BY Zenon DEF CacheInv, ServedFits, ServedOK, Checkpoints!ServedIsFresh
<1>3. Checkpoints!ServedOnce
    BY DEF CacheInv, ServedFits
<1>4. Checkpoints!WithinLimits
    BY DEF CacheInv, CacheFits, KeysDiffer, Bytes, Checkpoints!WithinLimits
<1> QED BY <1>1, <1>2, <1>3, <1>4

-----------------------------------------------------------------------------
(* SpaceCache: what its operations do to the cache.                        *)

Entry == [write : Nat, size : Nat, at : Nat]

Holding == [addr : CachedPlaces, value : Entry, expires : Nat]

LEMMA HoldingsSized == Sized(Holding)
BY DEF Sized, Holding, Entry

AddressesDiffer(vs) == \A i, j \in DOMAIN vs : vs[i].addr = vs[j].addr => i = j

ValuesFit(vs, b) ==
    /\ vs \in Seq(Holding)
    /\ b = Bytes(vs) /\ b <= MaxValueBytes
    /\ Len(vs) <= MaxValues
    /\ AddressesDiffer(vs)

LEMMA DrawnAddressesDiffer ==
    ASSUME NEW vs, NEW ws, Drawn(ws, vs), AddressesDiffer(vs)
    PROVE  AddressesDiffer(ws)
BY DEF Drawn, DrawnBy, AddressesDiffer

(* A lookup moves the value it finds behind the others.                    *)
LEMMA MovedLast ==
    ASSUME NEW E, Sized(E), NEW vs \in Seq(E), NEW i \in 1 .. Len(vs), NEW ws,
           ws = Append(TakenOut(vs, i), vs[i])
    PROVE  ws \in Seq(E) /\ Len(ws) = Len(vs) /\ Bytes(ws) = Bytes(vs) /\ Drawn(ws, vs)
<1>1. Len(vs) \in Nat /\ vs[i] \in E /\ DOMAIN vs = 1 .. Len(vs)
    OBVIOUS
<1>2. PICK us : us = TakenOut(vs, i)
    OBVIOUS
<1>3. /\ us \in Seq(E) /\ Len(us) = Len(vs) - 1
      /\ Bytes(vs) = Bytes(us) + vs[i].value.size
      /\ \E h : DrawnBy(h, us, vs) /\ \A j \in DOMAIN us : h[j] # i
    BY <1>2, TakeOut
<1>4. /\ ws = Append(us, vs[i]) /\ ws \in Seq(E) /\ Len(ws) = Len(us) + 1
      /\ \A j \in 1 .. Len(us) : ws[j] = us[j]
      /\ ws[Len(us) + 1] = vs[i]
    <2>1. PICK x \in E : x = vs[i]
        BY <1>1
    <2>2. ws = Append(us, x)
        BY <1>2, <2>1
    <2> QED BY <1>3, <2>1, <2>2, AppendProperties
<1>5. Bytes(ws) = Bytes(vs)
    <2>1. Bytes(ws) = Bytes(us) + vs[i].value.size
        BY <1>1, <1>3, <1>4, BytesOfAppend
    <2> QED BY <1>3, <2>1
<1>6. Len(ws) = Len(vs)
    BY <1>1, <1>3, <1>4
<1>7. Drawn(ws, vs)
    <2>1. PICK g : DrawnBy(g, us, vs) /\ \A j \in DOMAIN us : g[j] # i
        BY <1>3
    <2> DEFINE h == [j \in DOMAIN ws |-> IF j \in DOMAIN us THEN g[j] ELSE i]
    <2>2. /\ DOMAIN us = 1 .. Len(us) /\ DOMAIN ws = 1 .. (Len(us) + 1) /\ Len(us) \in Nat
        BY <1>3, <1>4
    <2>3. \A j \in DOMAIN ws : j \in DOMAIN us \/ j = Len(us) + 1
        BY <2>2
    <2>4. \A j \in DOMAIN ws : h[j] \in DOMAIN vs /\ ws[j] = vs[h[j]]
        <3> TAKE j \in DOMAIN ws
        <3>1. CASE j \in DOMAIN us
            BY <1>4, <2>1, <2>2, <3>1 DEF DrawnBy
        <3>2. CASE j \notin DOMAIN us
            BY <1>1, <1>4, <2>2, <2>3, <3>2
        <3> QED BY <3>1, <3>2
    <2>5. \A j, k \in DOMAIN ws : h[j] = h[k] => j = k
        BY <2>1, <2>3 DEF DrawnBy
    <2>6. h \in [DOMAIN ws -> DOMAIN vs]
        BY <2>4
    <2> HIDE DEF h
    <2>7. DrawnBy(h, ws, vs)
        BY <2>4, <2>5, <2>6 DEF DrawnBy
    <2> QED BY <2>7 DEF Drawn
<1> QED BY <1>4, <1>5, <1>6, <1>7

LEMMA TouchedFits ==
    ASSUME ValuesFit(values, bytes), NEW a, NEW ws, ws = Values!Touched(a)
    PROVE  ValuesFit(ws, bytes) /\ Drawn(ws, values)
<1>1. /\ values \in Seq(Holding) /\ AddressesDiffer(values) /\ DOMAIN values = 1 .. Len(values)
    BY DEF ValuesFit
<1>2. CASE Values!CachedAt(a) = {}
    <2>1. ws = values
        BY <1>2, Zenon DEF Values!Touched
    <2> QED BY <2>1, DrawnSelf
<1>3. CASE Values!CachedAt(a) # {}
    <2>1. PICK i \in Values!CachedAt(a) : ws = Append(Values!RemoveAt(values, i), values[i])
        BY <1>3 DEF Values!Touched
    <2>2. i \in 1 .. Len(values)
        BY <1>1, <2>1 DEF Values!CachedAt
    <2>3. Values!RemoveAt(values, i) = TakenOut(values, i)
        BY Zenon DEF Values!RemoveAt, TakenOut
    <2>4. ws \in Seq(Holding) /\ Len(ws) = Len(values) /\ Bytes(ws) = Bytes(values) /\ Drawn(ws, values)
        BY <1>1, <2>1, <2>2, <2>3, HoldingsSized, MovedLast
    <2> QED BY <1>1, <2>4, DrawnAddressesDiffer DEF ValuesFit
<1> QED BY <1>2, <1>3

(* Insert evicts what must go and caches the value as the last, or leaves  *)
(* the cache alone.                                                        *)
LEMMA ValueInserted ==
    ASSUME Values!SpaceCacheAssumption, ValuesFit(values, bytes),
           NEW a \in CachedPlaces, NEW v \in Entry, NEW x \in Nat, Values!Insert(a, v, x),
           NEW e, e = [addr |-> a, value |-> v, expires |-> x]
    PROVE  /\ ValuesFit(values, bytes)'
           /\ \A i \in DOMAIN values' :
                values'[i] = e \/ \E j \in DOMAIN values : values'[i] = values[j]
<1>1. MaxValues \in Nat /\ MaxValueBytes \in Nat
    BY DEF Values!SpaceCacheAssumption
<1>2. /\ values \in Seq(Holding) /\ AddressesDiffer(values) /\ Len(values) \in Nat
      /\ bytes = Bytes(values) /\ bytes <= MaxValueBytes /\ Len(values) <= MaxValues
      /\ v.size \in Nat /\ e \in Holding
    BY DEF ValuesFit, Entry, Holding
<1>3. CASE ~ Values!Cacheable(a, v)
    <2>1. values' = values /\ bytes' = bytes
        BY <1>3 DEF Values!Insert
    <2> QED BY <2>1 DEF ValuesFit, AddressesDiffer
<1>4. CASE Values!Cacheable(a, v)
    <2>1. /\ MaxValues # 0 /\ v.size <= MaxValueBytes
          /\ \A i \in DOMAIN values : values[i].addr # a
        BY <1>1, <1>4 DEF Values!Cacheable
    <2> DEFINE S == RoomFor(values, bytes, v.size, MaxValueBytes)
               n == Checkpoints!Min(S)
               left == SubSeq(values, n + 1, Len(values))
               gone == Bytes(SubSeq(values, 1, n))
               full == Len(left) = MaxValues
               ws == IF full THEN Tail(left) ELSE left
               dropped == IF full THEN Head(left).value.size ELSE 0
    <2>2. n \in S
        <3> HIDE DEF S
        <3>1. S = RoomFor(values, bytes, v.size, MaxValueBytes)
            BY DEF S
        <3> QED BY <1>1, <1>2, <2>1, <3>1, HoldingsSized, RoomExists
    <2>3. n \in 0 .. Len(values) /\ bytes - gone + v.size <= MaxValueBytes
        <3> HIDE DEF n
        <3> QED BY <2>2 DEF RoomFor
    <2>4. values' = Append(ws, e) /\ bytes' = bytes - gone + v.size - dropped
        <3>1. n = Values!Min({m \in 0 .. Len(values) :
                     bytes - Values!SizeOf(SubSeq(values, 1, m)) + v.size <= MaxValueBytes})
            <4>1. \A T : Checkpoints!Min(T) = Values!Min(T)
                BY Zenon DEF Checkpoints!Min, Values!Min
            <4>2. S = {m \in 0 .. Len(values) :
                     bytes - Values!SizeOf(SubSeq(values, 1, m)) + v.size <= MaxValueBytes}
                BY SameBytes, Zenon DEF RoomFor
            <4> HIDE DEF S
            <4> QED BY <4>1, <4>2, Zenon
        <3>2. gone = Values!SizeOf(SubSeq(values, 1, n))
            BY SameBytes, Zenon
        <3> HIDE DEF n
        <3> QED BY <1>4, <3>1, <3>2 DEF Values!Insert
    <2> HIDE DEF S, n
    <2>5. /\ left \in Seq(Holding) /\ Len(left) = Len(values) - n /\ Drawn(left, values)
          /\ bytes = gone + Bytes(left) /\ gone \in Nat /\ Bytes(left) \in Nat
        BY <1>2, <2>3, HoldingsSized, DropFirst
    <2> HIDE DEF left, gone
    <2>6. /\ ws \in Seq(Holding) /\ Len(ws) + 1 <= MaxValues /\ Drawn(ws, left)
          /\ Bytes(left) = Bytes(ws) + dropped /\ dropped \in Nat /\ Bytes(ws) \in Nat
        <3>1. CASE full
            <4>1. left # <<>>
                BY <1>1, <2>1, <2>5, <3>1
            <4>2. ws = Tail(left) /\ dropped = Head(left).value.size
                BY <3>1
            <4> HIDE DEF ws, dropped
            <4>3. /\ ws \in Seq(Holding) /\ Len(ws) = Len(left) - 1 /\ Drawn(ws, left)
                  /\ Bytes(left) = Bytes(ws) + dropped /\ dropped \in Nat /\ Bytes(ws) \in Nat
                BY <2>5, <4>1, <4>2, HoldingsSized, FirstDropped
            <4> QED BY <1>1, <3>1, <4>3
        <3>2. CASE ~ full
            <4>1. ws = left /\ dropped = 0
                BY <3>2
            <4>2. Len(left) + 1 <= MaxValues
                <5>1. Len(left) \in Nat /\ Len(left) <= MaxValues
                    <6>1. n \in Nat /\ n <= Len(values)
                        BY <1>2, <2>3
                    <6> QED BY <1>1, <1>2, <2>5, <6>1
                <5> QED BY <1>1, <3>2, <5>1
            <4> HIDE DEF ws, dropped
            <4> QED BY <2>5, <4>1, <4>2, DrawnSelf
        <3> QED BY <3>1, <3>2
    <2> HIDE DEF ws, dropped
    <2>7. /\ values' \in Seq(Holding) /\ Len(values') = Len(ws) + 1
          /\ \A i \in 1 .. Len(ws) : values'[i] = ws[i]
          /\ values'[Len(ws) + 1] = e
        BY <1>2, <2>4, <2>6, AppendProperties
    <2>8. Bytes(values') = Bytes(ws) + v.size
        <3>1. Bytes(Append(ws, e)) = Bytes(ws) + e.value.size
            BY <1>2, <2>6, HoldingsSized, BytesOfAppend
        <3> QED BY <2>4, <3>1
    <2>9. bytes' = Bytes(values') /\ bytes' <= MaxValueBytes /\ Len(values') <= MaxValues
        <3>1. bytes' = Bytes(ws) + v.size
            BY <1>2, <2>4, <2>5, <2>6
        <3>2. Bytes(ws) + v.size <= MaxValueBytes
            <4>1. Bytes(left) + v.size <= MaxValueBytes
                BY <1>1, <1>2, <2>3, <2>5
            <4>2. PICK p \in Nat, q \in Nat : p = Bytes(left) /\ q = Bytes(ws)
                BY <2>5, <2>6
            <4>3. q <= p
                BY <2>6, <4>2
            <4> QED BY <1>1, <1>2, <4>1, <4>2, <4>3
        <3> QED BY <2>6, <2>7, <2>8, <3>1, <3>2
    <2>10. Drawn(ws, values)
        BY <2>5, <2>6, DrawnTwice
    <2>11. \A i \in DOMAIN ws : \E j \in DOMAIN values : ws[i] = values[j]
        BY <2>10 DEF Drawn, DrawnBy
    <2>12. /\ DOMAIN values' = 1 .. (Len(ws) + 1) /\ DOMAIN ws = 1 .. Len(ws) /\ Len(ws) \in Nat
           /\ \A i \in DOMAIN values' : i \in DOMAIN ws \/ i = Len(ws) + 1
        BY <2>6, <2>7
    <2>13. AddressesDiffer(values')
        <3>1. AddressesDiffer(ws) /\ \A i \in DOMAIN ws : ws[i].addr # a
            BY <1>2, <2>1, <2>10, <2>11, DrawnAddressesDiffer
        <3> QED BY <2>7, <2>12, <3>1 DEF AddressesDiffer
    <2>14. ValuesFit(values, bytes)'
        BY <2>7, <2>9, <2>13 DEF ValuesFit, AddressesDiffer, Bytes
    <2> QED BY <2>7, <2>11, <2>12, <2>14
<1> QED BY <1>3, <1>4

-----------------------------------------------------------------------------
(* SpaceCache: what a hit returns is stored.                               *)

FoundCall == [op : {"found"}, addr : CachedPlaces, value : Entry]

StoreCall ==
    [op : {"write", "ok", "error"}, addr : CachedPlaces, expires : Nat, value : Entry]

AccessFits(c) ==
    \/ access[c] = Values!NoCall
    \/ \E a \in CachedPlaces : access[c] = [op |-> "read", addr |-> a]
    \/ access[c] \in FoundCall
    \/ access[c] \in StoreCall

ValueTypes ==
    /\ backing \in [CachedPlaces -> Entry]
    /\ access = [c \in Clones |-> access[c]]
    /\ \A c \in Clones : AccessFits(c)
    /\ ticks \in Nat /\ stores \in Nat

BackingFits == \A a \in CachedPlaces : backing[a] = Values!Nothing \/ backing[a].write >= 1

(* A value that may be served until it expires is stored until then.       *)
Current(a, v, x) ==
    /\ v.write >= 1
    /\ ValueTtl = 0 \/ ticks < x =>
         /\ backing[a].write = v.write
         /\ ValueTtl # 0 => x <= backing[a].at + ValueTtl

AccessCurrent(c) ==
    /\ access[c].op = "found" /\ ValueTtl = 0 => Current(access[c].addr, access[c].value, 0)
    /\ access[c].op \in {"write", "ok"} =>
         access[c].value.write >= 1 /\ access[c].expires <= ticks + ValueTtl
    /\ access[c].op = "ok" => Current(access[c].addr, access[c].value, access[c].expires)

HoldingOK(e) == Current(e.addr, e.value, e.expires)

HoldingsFit == \A i \in DOMAIN values : HoldingOK(values[i])

ValuesInv ==
    /\ ValueTypes /\ ValuesFit(values, bytes) /\ BackingFits
    /\ \A c \in Clones : AccessCurrent(c)
    /\ HoldingsFit
    /\ ~ stale

LEMMA ValuesInvInit == ASSUME Values!SpaceCacheAssumption, Values!Init PROVE ValuesInv
<1>1. ValueTtl \in Nat /\ MaxValues \in Nat /\ MaxValueBytes \in Nat
    BY DEF Values!SpaceCacheAssumption
<1>2. /\ backing = [a \in CachedPlaces |-> Values!Nothing] /\ values = <<>> /\ bytes = 0
      /\ access = [c \in Clones |-> Values!NoCall] /\ ticks = 0 /\ stores = 0 /\ stale = FALSE
    BY DEF Values!Init
<1>3. ValueTypes
    <2>1. Values!Nothing \in Entry
        BY DEF Values!Nothing, Entry
    <2> QED BY <1>2, <2>1 DEF ValueTypes, AccessFits
<1>4. ValuesFit(values, bytes)
    <2>1. <<>> \in Seq(Holding) /\ Len(<<>>) = 0 /\ DOMAIN <<>> = {}
        OBVIOUS
    <2>2. Bytes(<<>>) = 0
        <3>1. Sized({[value |-> [size |-> 0]]})
            BY DEF Sized
        <3> QED BY <3>1, BytesOfOne
    <2> QED BY <1>1, <1>2, <2>1, <2>2 DEF ValuesFit, AddressesDiffer
<1>5. BackingFits /\ HoldingsFit
    BY <1>2 DEF BackingFits, HoldingsFit
<1>6. \A c \in Clones : AccessCurrent(c)
    BY <1>2 DEF AccessCurrent, Values!NoCall
<1> QED BY <1>2, <1>3, <1>4, <1>5, <1>6 DEF ValuesInv

LEMMA AccessKinds ==
    ASSUME ValueTypes, NEW c \in Clones
    PROVE  /\ access[c].op = "read" => \E a \in CachedPlaces : access[c] = [op |-> "read", addr |-> a]
           /\ access[c].op = "found" => access[c] \in FoundCall
           /\ access[c].op \in {"write", "ok", "error"} => access[c] \in StoreCall
BY DEF ValueTypes, AccessFits, Values!NoCall, FoundCall, StoreCall

LEMMA CurrentIsStored ==
    ASSUME Values!SpaceCacheAssumption, ValueTypes, NEW a \in CachedPlaces, NEW v \in Entry, NEW x \in Nat,
           Current(a, v, x), ValueTtl = 0 \/ ticks < x
    PROVE  Values!Stored(a) = backing[a] /\ Values!Stored(a).write = v.write /\ v.write >= 1
<1>1. ValueTtl \in Nat /\ ticks \in Nat /\ backing[a].at \in Nat
    BY DEF Values!SpaceCacheAssumption, ValueTypes, Entry
<1> QED BY <1>1 DEF Current, Values!Stored

(* Time passes, or an entry that is gone is written.                       *)
Steady ==
    /\ ticks' \in Nat /\ ticks <= ticks'
    /\ \A a \in CachedPlaces :
         \/ backing'[a] = backing[a]
         \/ Values!Stored(a) = Values!Nothing /\ ticks' = ticks

LEMMA SteadyCurrent ==
    ASSUME Values!SpaceCacheAssumption, ValueTypes, Steady,
           NEW a \in CachedPlaces, NEW v \in Entry, NEW x \in Nat, Current(a, v, x)
    PROVE  Current(a, v, x)'
<1>1. ValueTtl \in Nat /\ ticks \in Nat /\ ticks' \in Nat /\ ticks <= ticks' /\ backing[a].at \in Nat
    BY DEF Values!SpaceCacheAssumption, ValueTypes, Entry, Steady
<1>2. CASE backing'[a] = backing[a]
    BY <1>1, <1>2 DEF Current
<1>3. CASE Values!Stored(a) = Values!Nothing /\ ticks' = ticks
    <2>1. Values!Nothing.write = 0
        BY DEF Values!Nothing
    <2>2. ~ (ValueTtl = 0 \/ ticks < x)
        BY <1>3, <2>1, CurrentIsStored DEF Entry
    <2> QED BY <1>3, <2>2 DEF Current
<1> QED BY <1>2, <1>3 DEF Steady

LEMMA SteadyHoldings ==
    ASSUME Values!SpaceCacheAssumption, ValuesInv, Steady,
           \A i \in DOMAIN values' : \E j \in DOMAIN values : values'[i] = values[j]
    PROVE  HoldingsFit'
<1>1. ValueTypes /\ values \in Seq(Holding)
    BY DEF ValuesInv, ValuesFit
<1>2. ASSUME NEW e \in Holding, HoldingOK(e) PROVE HoldingOK(e)'
    BY <1>1, <1>2, SteadyCurrent DEF HoldingOK, Holding
<1> SUFFICES ASSUME NEW i \in DOMAIN values' PROVE HoldingOK(values[i])'
    BY DEF HoldingsFit
<1>3. PICK e \in Holding : e = values'[i] /\ HoldingOK(e)
    <2>1. PICK j \in DOMAIN values : values'[i] = values[j]
        OBVIOUS
    <2>2. values[j] \in Holding
        BY <1>1, <2>1
    <2> QED BY <2>1, <2>2 DEF ValuesInv, HoldingsFit
<1>4. HoldingOK(e)'
    BY <1>2, <1>3
<1> QED BY <1>3, <1>4 DEF HoldingOK, Current

LEMMA SteadyAccess ==
    ASSUME Values!SpaceCacheAssumption, ValuesInv, Steady, NEW c \in Clones, access'[c] = access[c]
    PROVE  AccessFits(c)' /\ AccessCurrent(c)'
<1>1. ValueTypes /\ AccessCurrent(c) /\ ValueTtl \in Nat /\ ticks \in Nat /\ ticks' \in Nat /\ ticks <= ticks'
    BY DEF ValuesInv, ValueTypes, Values!SpaceCacheAssumption, Steady
<1>2. AccessFits(c)'
    BY <1>1 DEF ValueTypes, AccessFits
<1>3. PICK q : q = access[c] /\ q = access'[c]
    OBVIOUS
<1>4. ASSUME q.op = "found", ValueTtl = 0 PROVE Current(q.addr, q.value, 0)'
    <2>1. q.addr \in CachedPlaces /\ q.value \in Entry /\ 0 \in Nat
        BY <1>1, <1>3, <1>4, AccessKinds DEF FoundCall
    <2> QED BY <1>1, <1>3, <1>4, <2>1, SteadyCurrent DEF AccessCurrent
<1>5. ASSUME q.op \in {"write", "ok"} PROVE q.value.write >= 1 /\ q.expires <= ticks' + ValueTtl
    <2>1. q.expires \in Nat
        BY <1>1, <1>3, <1>5, AccessKinds DEF StoreCall
    <2> QED BY <1>1, <1>3, <1>5, <2>1 DEF AccessCurrent
<1>6. ASSUME q.op = "ok" PROVE Current(q.addr, q.value, q.expires)'
    <2>1. q.addr \in CachedPlaces /\ q.value \in Entry /\ q.expires \in Nat
        BY <1>1, <1>3, <1>6, AccessKinds DEF StoreCall
    <2> QED BY <1>1, <1>3, <1>6, <2>1, SteadyCurrent DEF AccessCurrent
<1> QED BY <1>2, <1>3, <1>4, <1>5, <1>6 DEF AccessCurrent, Current

(* Only the access of one clone changes.                                   *)
LEMMA OneAccess ==
    ASSUME Values!SpaceCacheAssumption, ValuesInv, Steady, NEW c \in Clones, NEW q,
           access' = [access EXCEPT ![c] = q],
           AccessFits(c)', AccessCurrent(c)'
    PROVE  /\ access' = [d \in Clones |-> access'[d]]
           /\ \A d \in Clones : AccessFits(d)' /\ AccessCurrent(d)'
<1>1. access = [d \in Clones |-> access[d]]
    BY DEF ValuesInv, ValueTypes
<1>2. \A d \in Clones : d # c => access'[d] = access[d]
    BY <1>1
<1>3. access' = [d \in Clones |-> access'[d]]
    BY <1>1
<1> QED BY <1>2, <1>3, SteadyAccess

LEMMA IdleFits ==
    ASSUME ValuesInv, NEW c \in Clones, access' = [access EXCEPT ![c] = Values!NoCall]
    PROVE  AccessFits(c)' /\ AccessCurrent(c)'
<1>1. access'[c] = Values!NoCall
    BY DEF ValuesInv, ValueTypes
<1> QED BY <1>1 DEF AccessFits, AccessCurrent, Values!NoCall

LEMMA LookupKeeps ==
    ASSUME Values!SpaceCacheAssumption, ValuesInv, NEW c \in Clones, NEW a \in CachedPlaces,
           Values!ReadHit(c, a) \/ Values!ReadMiss(c, a)
    PROVE  ValuesInv'
<1>1. /\ UNCHANGED <<backing, bytes, ticks, stores>> /\ values' = Values!Touched(a)
      /\ \/ access' = access
         \/ access' = [access EXCEPT ![c] = [op |-> "read", addr |-> a]]
    BY DEF Values!ReadHit, Values!ReadMiss
<1>2. ValueTypes /\ ValuesFit(values, bytes)
    BY DEF ValuesInv
<1>3. Steady
    BY <1>1, <1>2 DEF Steady, ValueTypes
<1>4. ValuesFit(values', bytes) /\ Drawn(values', values)
    BY <1>1, <1>2, TouchedFits
<1>5. ValuesFit(values, bytes)'
    BY <1>1, <1>4 DEF ValuesFit, Bytes, AddressesDiffer
<1>6. HoldingsFit'
    <2>1. \A i \in DOMAIN values' : \E j \in DOMAIN values : values'[i] = values[j]
        BY <1>4 DEF Drawn, DrawnBy
    <2> QED BY <1>3, <2>1, SteadyHoldings
<1>7. /\ access' = [d \in Clones |-> access'[d]]
      /\ \A d \in Clones : AccessFits(d)' /\ AccessCurrent(d)'
    <2>1. CASE access' = access
        BY <1>2, <1>3, <2>1, SteadyAccess DEF ValueTypes
    <2>2. CASE access' = [access EXCEPT ![c] = [op |-> "read", addr |-> a]]
        <3>1. access'[c] = [op |-> "read", addr |-> a]
            BY <1>2, <2>2 DEF ValueTypes
        <3>2. AccessFits(c)' /\ AccessCurrent(c)'
            BY <3>1 DEF AccessFits, AccessCurrent
        <3> QED BY <1>3, <2>2, <3>2, OneAccess
    <2> QED BY <1>1, <2>1, <2>2
<1>8. ~ stale'
    <2>1. CASE Values!ReadMiss(c, a)
        BY <2>1 DEF Values!ReadMiss, ValuesInv
    <2>2. CASE Values!ReadHit(c, a)
        <3>1. PICK i \in DOMAIN values :
                /\ values[i].addr = a /\ (ValueTtl = 0 \/ ticks < values[i].expires)
                /\ stale' = (stale \/ values[i].value.write # Values!Stored(a).write)
            BY <2>2 DEF Values!ReadHit, Values!Servable, Values!CachedAt
        <3>2. PICK e \in Holding : e = values[i] /\ HoldingOK(e)
            BY <1>2 DEF ValuesFit, ValuesInv, HoldingsFit
        <3>3. Values!Stored(a).write = e.value.write
            BY <1>2, <3>1, <3>2, CurrentIsStored DEF HoldingOK, Holding
        <3>4. ~ stale
            BY DEF ValuesInv
        <3>5. values[i].value.write = Values!Stored(a).write
            BY <3>2, <3>3
        <3> QED BY <3>1, <3>4, <3>5, Zenon
    <2> QED BY <2>1, <2>2
<1>9. BackingFits'
    BY <1>1 DEF BackingFits, ValuesInv
<1> QED BY <1>1, <1>2, <1>5, <1>6, <1>7, <1>8, <1>9 DEF ValuesInv, ValueTypes

(* A value that is confirmed, or was just read where nothing expires, is   *)
(* current when it is inserted.                                            *)
LEMMA InsertKeeps ==
    ASSUME Values!SpaceCacheAssumption, ValuesInv, NEW c \in Clones,
           NEW a \in CachedPlaces, NEW v \in Entry, NEW x \in Nat, Current(a, v, x),
           Values!Insert(a, v, x),
           access' = [access EXCEPT ![c] = Values!NoCall],
           UNCHANGED <<backing, ticks, stores, stale>>
    PROVE  ValuesInv'
<1>1. ValueTypes /\ ValuesFit(values, bytes)
    BY DEF ValuesInv
<1>2. Steady
    BY <1>1 DEF Steady, ValueTypes
<1>3. PICK e \in Holding : e = [addr |-> a, value |-> v, expires |-> x]
    BY DEF Holding
<1>4. /\ ValuesFit(values, bytes)'
      /\ \A i \in DOMAIN values' :
           values'[i] = e \/ \E j \in DOMAIN values : values'[i] = values[j]
    BY <1>1, <1>3, ValueInserted
<1>5. /\ access' = [d \in Clones |-> access'[d]]
      /\ \A d \in Clones : AccessFits(d)' /\ AccessCurrent(d)'
    BY <1>2, IdleFits, OneAccess
<1>6. HoldingsFit'
    <2>1. HoldingOK(e)
        BY <1>3 DEF HoldingOK
    <2> SUFFICES ASSUME NEW i \in DOMAIN values' PROVE HoldingOK(values[i])'
        BY DEF HoldingsFit
    <2>2. PICK h \in Holding : h = values'[i] /\ HoldingOK(h)
        <3>1. CASE values'[i] = e
            BY <2>1, <3>1
        <3>2. ASSUME NEW j \in DOMAIN values, values'[i] = values[j]
              PROVE  values'[i] \in Holding /\ HoldingOK(values'[i])
            <4>1. values[j] \in Holding /\ HoldingOK(values[j])
                BY <1>1, <3>2 DEF ValuesFit, ValuesInv, HoldingsFit
            <4> QED BY <3>2, <4>1
        <3> QED BY <1>4, <3>1, <3>2
    <2>3. HoldingOK(h)'
        BY <2>2 DEF HoldingOK, Current
    <2> QED BY <2>2, <2>3 DEF HoldingOK, Current
<1>7. BackingFits' /\ ~ stale'
    BY DEF BackingFits, ValuesInv
<1> QED BY <1>1, <1>4, <1>5, <1>6, <1>7 DEF ValuesInv, ValueTypes

(* The cache stays as it is.                                               *)
LEMMA CacheRests ==
    ASSUME Values!SpaceCacheAssumption, ValuesInv, Steady, UNCHANGED <<values, bytes, stale>>,
           stores' \in Nat, backing' \in [CachedPlaces -> Entry], BackingFits',
           access' = [d \in Clones |-> access'[d]],
           \A d \in Clones : AccessFits(d)' /\ AccessCurrent(d)'
    PROVE  ValuesInv'
<1>1. ValuesFit(values, bytes)' /\ ~ stale'
    BY DEF ValuesInv, ValuesFit, AddressesDiffer, Bytes
<1>2. HoldingsFit'
    BY SteadyHoldings
<1>3. ticks' \in Nat
    BY DEF Steady
<1> QED BY <1>1, <1>2, <1>3 DEF ValuesInv, ValueTypes

LEMMA FetchKeeps ==
    ASSUME Values!SpaceCacheAssumption, ValuesInv, NEW c \in Clones, Values!ReadInner(c)
    PROVE  ValuesInv'
<1>1. ValueTypes /\ BackingFits
    BY DEF ValuesInv
<1>2. PICK a \in CachedPlaces : access[c] = [op |-> "read", addr |-> a]
    BY <1>1, AccessKinds DEF Values!ReadInner
<1>3. /\ access[c].addr = a /\ UNCHANGED <<backing, values, bytes, ticks, stores, stale>>
      /\ access' = [access EXCEPT ![c] = IF Values!Stored(a) = Values!Nothing THEN Values!NoCall
                      ELSE [op |-> "found", addr |-> a, value |-> Values!Stored(a)]]
    BY <1>2 DEF Values!ReadInner
<1>4. Steady
    BY <1>1, <1>3 DEF Steady, ValueTypes
<1>5. AccessFits(c)' /\ AccessCurrent(c)'
    <2>1. CASE Values!Stored(a) = Values!Nothing
        BY <1>3, <2>1, IdleFits
    <2>2. CASE Values!Stored(a) # Values!Nothing
        <3>1. PICK v \in Entry : /\ v = backing[a] /\ v = Values!Stored(a) /\ v.write >= 1
            BY <1>1, <2>2 DEF ValueTypes, BackingFits, Values!Stored
        <3>2. access'[c] = [op |-> "found", addr |-> a, value |-> v]
            BY <1>1, <1>3, <2>2, <3>1 DEF ValueTypes
        <3>3. AccessFits(c)'
            BY <3>2 DEF AccessFits, FoundCall
        <3>4. ValueTtl = 0 => Current(a, v, 0)'
            BY <1>3, <3>1 DEF Current
        <3>5. AccessCurrent(c)'
            BY <3>2, <3>4 DEF AccessCurrent, Current
        <3> QED BY <3>3, <3>5
    <2> QED BY <2>1, <2>2
<1>6. /\ access' = [d \in Clones |-> access'[d]]
      /\ \A d \in Clones : AccessFits(d)' /\ AccessCurrent(d)'
    BY <1>3, <1>4, <1>5, OneAccess
<1>7. BackingFits' /\ stores' \in Nat /\ backing' \in [CachedPlaces -> Entry]
    BY <1>1, <1>3 DEF BackingFits, ValueTypes
<1> QED BY <1>3, <1>4, <1>6, <1>7, CacheRests

LEMMA FoundKeeps ==
    ASSUME Values!SpaceCacheAssumption, ValuesInv, NEW c \in Clones, Values!ReadFound(c)
    PROVE  ValuesInv'
<1>1. ValueTypes /\ BackingFits /\ AccessCurrent(c) /\ ValueTtl \in Nat
    BY DEF ValuesInv, Values!SpaceCacheAssumption
<1>2. access[c] \in FoundCall
    BY <1>1, AccessKinds DEF Values!ReadFound
<1>3. PICK a \in CachedPlaces, v \in Entry : a = access[c].addr /\ v = access[c].value
    BY <1>2 DEF FoundCall
<1>4. /\ UNCHANGED <<backing, ticks, stores, stale>>
      /\ access' = [access EXCEPT ![c] = Values!NoCall]
    BY DEF Values!ReadFound
<1>5. CASE ValueTtl = 0
    <2>1. Values!Insert(a, v, ticks + ValueTtl)
        BY <1>3, <1>5 DEF Values!ReadFound, Values!ReadsPopulate
    <2>2. Current(a, v, 0)
        BY <1>1, <1>3, <1>5 DEF AccessCurrent, Values!ReadFound
    <2>3. PICK x \in Nat : x = ticks + ValueTtl
        BY <1>1 DEF ValueTypes
    <2>4. Current(a, v, x)
        BY <1>5, <2>2 DEF Current
    <2> QED BY <1>4, <2>1, <2>3, <2>4, InsertKeeps
<1>6. CASE ValueTtl # 0
    <2>1. UNCHANGED <<values, bytes>>
        BY <1>6 DEF Values!ReadFound, Values!ReadsPopulate
    <2>2. Steady
        BY <1>1, <1>4 DEF Steady, ValueTypes
    <2>3. /\ access' = [d \in Clones |-> access'[d]]
          /\ \A d \in Clones : AccessFits(d)' /\ AccessCurrent(d)'
        BY <1>4, <2>2, IdleFits, OneAccess
    <2>4. BackingFits' /\ stores' \in Nat /\ backing' \in [CachedPlaces -> Entry]
        BY <1>1, <1>4 DEF BackingFits, ValueTypes
    <2> QED BY <1>4, <2>1, <2>2, <2>3, <2>4, CacheRests
<1> QED BY <1>5, <1>6

LEMMA StoreBeginKeeps ==
    ASSUME Values!SpaceCacheAssumption, ValuesInv, NEW c \in Clones, NEW a \in CachedPlaces,
           Values!WriteBegin(c, a)
    PROVE  ValuesInv'
<1>1. ValueTypes /\ BackingFits /\ ValueTtl \in Nat /\ ticks \in Nat /\ stores \in Nat
    BY DEF ValuesInv, ValueTypes, Values!SpaceCacheAssumption
<1>2. PICK size \in ValueSizes :
        access' = [access EXCEPT ![c] =
          [op |-> "write", addr |-> a, expires |-> ticks + ValueTtl,
           value |-> [write |-> stores + 1, size |-> size, at |-> 0]]]
    BY DEF Values!WriteBegin
<1>3. UNCHANGED <<backing, values, bytes, ticks, stale>> /\ stores' = stores + 1
    BY DEF Values!WriteBegin
<1>4. PICK v \in Entry : v = [write |-> stores + 1, size |-> size, at |-> 0] /\ v.write >= 1
    <2>1. size \in Nat
        BY DEF Values!SpaceCacheAssumption
    <2>2. PICK n \in Nat : n = stores + 1 /\ n >= 1
        BY <1>1
    <2>3. PICK v \in Entry : v = [write |-> n, size |-> size, at |-> 0]
        BY <2>1 DEF Entry
    <2> QED BY <2>2, <2>3
<1>5. PICK q \in StoreCall :
        /\ q = [op |-> "write", addr |-> a, expires |-> ticks + ValueTtl, value |-> v]
        /\ q.op = "write" /\ q.value.write >= 1 /\ q.expires <= ticks + ValueTtl
    <2>1. PICK x \in Nat : x = ticks + ValueTtl
        BY <1>1
    <2>2. PICK q \in StoreCall : q = [op |-> "write", addr |-> a, expires |-> x, value |-> v]
        BY DEF StoreCall
    <2>3. q.op = "write" /\ q.value = v /\ q.expires = x
        BY <2>2
    <2>4. q.expires <= ticks + ValueTtl
        BY <1>1, <2>1, <2>3
    <2> QED BY <1>4, <2>1, <2>2, <2>3, <2>4
<1>6. access' = [access EXCEPT ![c] = q] /\ access'[c] = q
    BY <1>1, <1>2, <1>4, <1>5 DEF ValueTypes
<1>7. Steady
    BY <1>1, <1>3 DEF Steady
<1>8. AccessFits(c)' /\ AccessCurrent(c)'
    BY <1>3, <1>5, <1>6 DEF AccessFits, AccessCurrent
<1>9. /\ access' = [d \in Clones |-> access'[d]]
      /\ \A d \in Clones : AccessFits(d)' /\ AccessCurrent(d)'
    BY <1>6, <1>7, <1>8, OneAccess
<1>10. BackingFits' /\ stores' \in Nat /\ backing' \in [CachedPlaces -> Entry]
    BY <1>1, <1>3 DEF BackingFits, ValueTypes
<1> QED BY <1>3, <1>7, <1>9, <1>10, CacheRests

LEMMA StoreEffectKeeps ==
    ASSUME Values!SpaceCacheAssumption, ValuesInv, NEW c \in Clones, Values!WriteEffect(c)
    PROVE  ValuesInv'
<1>1. ValueTypes /\ BackingFits /\ AccessCurrent(c) /\ ValueTtl \in Nat /\ ticks \in Nat
    BY DEF ValuesInv, ValueTypes, Values!SpaceCacheAssumption
<1>2. access[c].op = "write" /\ access[c] \in StoreCall
    BY <1>1, AccessKinds DEF Values!WriteEffect
<1>3. PICK a \in CachedPlaces, v \in Entry, x \in Nat :
        a = access[c].addr /\ v = access[c].value /\ x = access[c].expires
    BY <1>2 DEF StoreCall
<1>4. v.write >= 1 /\ x <= ticks + ValueTtl
    BY <1>1, <1>2, <1>3 DEF AccessCurrent
<1>5. UNCHANGED <<values, bytes, ticks, stores, stale>>
    BY DEF Values!WriteEffect
<1>6. CASE Values!Stored(a) = Values!Nothing
    <2>1. PICK e \in Entry : e = [v EXCEPT !.at = ticks] /\ e.write = v.write /\ e.at = ticks
        <3>1. [v EXCEPT !.at = ticks] = [write |-> v.write, size |-> v.size, at |-> ticks]
            BY DEF Entry
        <3>2. v.write \in Nat /\ v.size \in Nat
            BY DEF Entry
        <3>3. PICK e \in Entry : e = [write |-> v.write, size |-> v.size, at |-> ticks]
            BY <1>1, <3>2 DEF Entry
        <3>4. e.write = v.write /\ e.at = ticks
            BY <3>3
        <3> QED BY <3>1, <3>3, <3>4
    <2>2. backing' = [backing EXCEPT ![a] = e] /\ backing'[a] = e
        BY <1>1, <1>3, <1>6, <2>1 DEF Values!WriteEffect, ValueTypes
    <2>3. PICK op \in {"ok", "error"} : access' = [access EXCEPT ![c].op = op]
        BY <1>3, <1>6 DEF Values!WriteEffect
    <2>4. PICK q \in StoreCall : /\ q = [access[c] EXCEPT !.op = op]
                                 /\ q.op = op /\ q.addr = a /\ q.value = v /\ q.expires = x
        <3>1. [access[c] EXCEPT !.op = op] = [op |-> op, addr |-> a, expires |-> x, value |-> v]
            BY <1>2, <1>3 DEF StoreCall
        <3>2. PICK q \in StoreCall : q = [op |-> op, addr |-> a, expires |-> x, value |-> v]
            BY DEF StoreCall
        <3>3. q.op = op /\ q.addr = a /\ q.value = v /\ q.expires = x
            BY <3>2
        <3> QED BY <3>1, <3>2, <3>3
    <2>5. access' = [access EXCEPT ![c] = q] /\ access'[c] = q
        BY <1>1, <2>3, <2>4 DEF ValueTypes
    <2>6. Steady
        BY <1>1, <1>5, <1>6, <2>2 DEF Steady, ValueTypes
    <2>7. Current(a, v, x)'
        BY <1>1, <1>4, <1>5, <2>1, <2>2 DEF Current
    <2>8. AccessFits(c)' /\ AccessCurrent(c)'
        BY <1>4, <1>5, <2>4, <2>5, <2>7 DEF AccessFits, AccessCurrent, Current
    <2>9. /\ access' = [d \in Clones |-> access'[d]]
          /\ \A d \in Clones : AccessFits(d)' /\ AccessCurrent(d)'
        BY <2>5, <2>6, <2>8, OneAccess
    <2>10. BackingFits' /\ stores' \in Nat /\ backing' \in [CachedPlaces -> Entry]
        BY <1>1, <1>4, <1>5, <2>1, <2>2 DEF BackingFits, ValueTypes
    <2> QED BY <1>5, <2>6, <2>9, <2>10, CacheRests
<1>7. CASE Values!Stored(a) # Values!Nothing
    <2>1. access' = [access EXCEPT ![c].op = "error"] /\ UNCHANGED backing
        BY <1>3, <1>7 DEF Values!WriteEffect
    <2>2. PICK q \in StoreCall : q = [access[c] EXCEPT !.op = "error"] /\ q.op = "error"
        <3>1. [access[c] EXCEPT !.op = "error"] = [op |-> "error", addr |-> a, expires |-> x, value |-> v]
            BY <1>2, <1>3 DEF StoreCall
        <3>2. PICK q \in StoreCall : q = [op |-> "error", addr |-> a, expires |-> x, value |-> v]
            BY DEF StoreCall
        <3>3. q.op = "error"
            BY <3>2
        <3> QED BY <3>1, <3>2, <3>3
    <2>3. access' = [access EXCEPT ![c] = q] /\ access'[c] = q
        BY <1>1, <2>1, <2>2 DEF ValueTypes
    <2>4. Steady
        BY <1>1, <1>5, <2>1 DEF Steady
    <2>5. AccessFits(c)' /\ AccessCurrent(c)'
        BY <2>2, <2>3 DEF AccessFits, AccessCurrent
    <2>6. /\ access' = [d \in Clones |-> access'[d]]
          /\ \A d \in Clones : AccessFits(d)' /\ AccessCurrent(d)'
        BY <2>3, <2>4, <2>5, OneAccess
    <2>7. BackingFits' /\ stores' \in Nat /\ backing' \in [CachedPlaces -> Entry]
        BY <1>1, <1>5, <2>1 DEF BackingFits, ValueTypes
    <2> QED BY <1>5, <2>1, <2>4, <2>6, <2>7, CacheRests
<1> QED BY <1>6, <1>7

LEMMA StoreReturnKeeps ==
    ASSUME Values!SpaceCacheAssumption, ValuesInv, NEW c \in Clones, Values!WriteReturn(c)
    PROVE  ValuesInv'
<1>1. ValueTypes /\ BackingFits /\ AccessCurrent(c)
    BY DEF ValuesInv
<1>2. access[c] \in StoreCall
    BY <1>1, AccessKinds DEF Values!WriteReturn
<1>3. PICK a \in CachedPlaces, v \in Entry, x \in Nat :
        a = access[c].addr /\ v = access[c].value /\ x = access[c].expires
    BY <1>2 DEF StoreCall
<1>4. /\ UNCHANGED <<backing, ticks, stores, stale>>
      /\ access' = [access EXCEPT ![c] = Values!NoCall]
    BY DEF Values!WriteReturn
<1>5. CASE access[c].op = "ok"
    <2>1. Values!Insert(a, v, x)
        BY <1>3, <1>5 DEF Values!WriteReturn, Values!Deadline
    <2>2. Current(a, v, x)
        BY <1>1, <1>3, <1>5 DEF AccessCurrent
    <2> QED BY <1>4, <2>1, <2>2, InsertKeeps
<1>6. CASE access[c].op # "ok"
    <2>1. UNCHANGED <<values, bytes>>
        BY <1>6 DEF Values!WriteReturn
    <2>2. Steady
        BY <1>1, <1>4 DEF Steady, ValueTypes
    <2>3. /\ access' = [d \in Clones |-> access'[d]]
          /\ \A d \in Clones : AccessFits(d)' /\ AccessCurrent(d)'
        BY <1>4, <2>2, IdleFits, OneAccess
    <2>4. BackingFits' /\ stores' \in Nat /\ backing' \in [CachedPlaces -> Entry]
        BY <1>1, <1>4 DEF BackingFits, ValueTypes
    <2> QED BY <1>4, <2>1, <2>2, <2>3, <2>4, CacheRests
<1> QED BY <1>5, <1>6

LEMMA ClockKeeps ==
    ASSUME Values!SpaceCacheAssumption, ValuesInv,
           \/ Values!Tick
           \/ UNCHANGED Values!vars
    PROVE  ValuesInv'
<1>1. ValueTypes /\ BackingFits
    BY DEF ValuesInv
<1>2. /\ UNCHANGED <<backing, values, bytes, access, stores, stale>>
      /\ ticks \in Nat /\ ticks' \in Nat /\ ticks <= ticks'
    BY <1>1 DEF Values!Tick, Values!vars, ValueTypes
<1>3. Steady
    BY <1>2 DEF Steady
<1>4. \A d \in Clones : AccessFits(d)' /\ AccessCurrent(d)'
    BY <1>2, <1>3, SteadyAccess
<1>5. /\ access' = [d \in Clones |-> access'[d]]
      /\ BackingFits' /\ stores' \in Nat /\ backing' \in [CachedPlaces -> Entry]
    BY <1>1, <1>2 DEF BackingFits, ValueTypes
<1> QED BY <1>2, <1>3, <1>4, <1>5, CacheRests

LEMMA ValuesInvStep ==
    ASSUME Values!SpaceCacheAssumption, ValuesInv, [Values!Next]_(Values!vars)
    PROVE  ValuesInv'
BY LookupKeeps, StoreBeginKeeps, FetchKeeps, FoundKeeps, StoreEffectKeeps, StoreReturnKeeps,
   ClockKeeps DEF Values!Next

LEMMA ValuesInvHolds ==
    ASSUME ValuesInv
    PROVE  Values!HitIsStored /\ Values!CacheWithinLimits
<1>1. bytes = Values!SizeOf(values)
    BY SameBytes, Zenon DEF ValuesInv, ValuesFit
<1> QED BY <1>1 DEF ValuesInv, ValuesFit, AddressesDiffer, Values!HitIsStored, Values!CacheWithinLimits

-----------------------------------------------------------------------------
(* What the caches answer is stored: a checkpoint read from CachingStorage *)
(* was confirmed after the last put of its key began, was still the stored *)
(* one less than the freshness bound before and is read once; a value read *)
(* from CachingWriteOnceSpace is what the backing space holds at that      *)
(* moment - whatever overtakes the answers of the storage, whoever else    *)
(* writes it, and although entries expire and are written again.           *)
THEOREM CachesAnswerTruly ==
    ASSUME Checkpoints!CacheAssumption, Values!SpaceCacheAssumption
    PROVE  Checkpoints!Spec /\ Values!Spec => []CachesServeStored
<1>1. Checkpoints!Init => CacheInv
    BY CacheInvInit
<1>2. CacheInv /\ [Checkpoints!Next]_(Checkpoints!vars) => CacheInv'
    BY CacheInvStep
<1>3. Values!Init => ValuesInv
    BY ValuesInvInit
<1>4. ValuesInv /\ [Values!Next]_(Values!vars) => ValuesInv'
    BY ValuesInvStep
<1>5. CacheInv /\ ValuesInv => CachesServeStored
    BY CacheInvHolds, ValuesInvHolds DEF CachesServeStored
<1> QED BY <1>1, <1>2, <1>3, <1>4, <1>5, PTL DEF Checkpoints!Spec, Values!Spec

(* The caches count the bytes of their values exactly, whatever is         *)
(* inserted, replaced, consumed and evicted, keep both of their limits and *)
(* hold a key once.                                                        *)
THEOREM CachesKeepLimits ==
    ASSUME Checkpoints!CacheAssumption, Values!SpaceCacheAssumption
    PROVE  Checkpoints!Spec /\ Values!Spec => []CachesWithinLimits
<1>1. Checkpoints!Init => CacheInv
    BY CacheInvInit
<1>2. CacheInv /\ [Checkpoints!Next]_(Checkpoints!vars) => CacheInv'
    BY CacheInvStep
<1>3. Values!Init => ValuesInv
    BY ValuesInvInit
<1>4. ValuesInv /\ [Values!Next]_(Values!vars) => ValuesInv'
    BY ValuesInvStep
<1>5. CacheInv /\ ValuesInv => CachesWithinLimits
    BY CacheInvHolds, ValuesInvHolds DEF CachesWithinLimits
<1> QED BY <1>1, <1>2, <1>3, <1>4, <1>5, PTL DEF Checkpoints!Spec, Values!Spec

=============================================================================
