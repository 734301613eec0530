------------------------- MODULE PrintQueue_proofs -------------------------
(***************************************************************************)
(* Proofs about PrintQueue, for any number of drains, jobs and faults.     *)
(***************************************************************************)
EXTENDS PrintQueue, TLAPS

Job == [sale : Sales, copy : BOOLEAN]

\* What a row appended to the queue leaves as it is.
LEMMA AppendedJob ==
  ASSUME NEW q \in Seq(Job), NEW x \in Job
  PROVE  /\ Append(q, x) \in Seq(Job)
         /\ Len(Append(q, x)) = Len(q) + 1
         /\ \A j \in 1..Len(q) : Append(q, x)[j] = q[j]
         /\ Append(q, x)[Len(q) + 1] = x
         /\ \A j \in 1..Len(q) : q[j] \in Job
  OBVIOUS

LEMMA InitInv == Init => QueueInv
<1> SUFFICES ASSUME Init PROVE QueueInv
  OBVIOUS
<1> USE DEF Init
<1>1. Len(jobs) = 0 /\ Known = {}
  BY DEF Known
<1>2. TypeOK
  <2>1. jobs \in Seq(Job) /\ Len(jobs) <= MaxJobs
    BY <1>1, NumbersAssumption
  <2> QED
    BY <1>1, <2>1, NumbersAssumption DEF TypeOK, Places, Job
<1> QED
  BY <1>1, <1>2 DEF QueueInv, MarkedIsPrinted, OneOriginal, BatchIsOldest,
                    MarkedNextIsOut, JobsAreSold

\* A job that is queued while a thread starts a drain: the parts of the
\* invariant that do not say which sale it is of.
LEMMA EnqueueStep ==
  ASSUME QueueInv, NEW d \in Drains, Start(d), NEW s \in Sales, NEW c \in BOOLEAN,
         Enqueue(s, c),
         UNCHANGED <<queue, printed, dropped, todo, full, out, faults>>,
         sold' \in SUBSET Sales, sold \subseteq sold', s \in sold',
         queue = "receipts" /\ ~c =>
           \A j \in Known : jobs[j].sale = s => jobs[j].copy
  PROVE  QueueInv'
<1> USE DEF QueueInv
<1>1. jobs \in Seq(Job) /\ Len(jobs) \in Nat /\ [sale |-> s, copy |-> c] \in Job
  BY DEF TypeOK, Job
<1>2. /\ jobs' \in Seq(Job)
      /\ Len(jobs') = Len(jobs) + 1
      /\ \A j \in Known : jobs'[j] = jobs[j]
      /\ jobs'[Len(jobs) + 1] = [sale |-> s, copy |-> c]
  BY <1>1, AppendedJob DEF Enqueue, Known
<1>3. Known' = Known \cup {Len(jobs) + 1} /\ Len(jobs) + 1 \notin Known
  BY <1>1, <1>2 DEF Known
<1>4. Len(jobs') <= MaxJobs
  BY <1>1, <1>2, NumbersAssumption DEF Enqueue
<1>5. TypeOK'
  BY <1>2, <1>3, <1>4 DEF TypeOK, Start, Places, Job
<1>6. at'[d] = "fetch" /\ \A e \in Drains : e # d => at'[e] = at[e]
  BY DEF TypeOK, Start
<1>7. MarkedIsPrinted' /\ BatchIsOldest'
  BY DEF MarkedIsPrinted, BatchIsOldest
<1>8. MarkedNextIsOut'
  BY <1>6 DEF MarkedNextIsOut, Marked, First
<1>9. OneOriginal'
  BY <1>2, <1>3 DEF OneOriginal
<1>10. JobsAreSold'
  BY <1>2, <1>3 DEF JobsAreSold
<1> QED
  BY <1>5, <1>7, <1>8, <1>9, <1>10

\* A thread that starts a drain and leaves the queue as it is.
LEMMA StartStep ==
  ASSUME QueueInv, NEW d \in Drains, Start(d),
         UNCHANGED <<queue, jobs, printed, dropped, todo, full, out, faults>>,
         sold' \in SUBSET Sales, sold \subseteq sold'
  PROVE  QueueInv'
<1> USE DEF QueueInv
<1>1. Known' = Known
  BY DEF Known
<1>2. TypeOK'
  BY <1>1 DEF TypeOK, Start, Places
<1>3. at'[d] = "fetch" /\ \A e \in Drains : e # d => at'[e] = at[e]
  BY DEF TypeOK, Start
<1>4. MarkedNextIsOut'
  BY <1>3 DEF MarkedNextIsOut, Marked, First
<1>5. MarkedIsPrinted' /\ BatchIsOldest' /\ OneOriginal' /\ JobsAreSold'
  BY <1>1 DEF MarkedIsPrinted, BatchIsOldest, OneOriginal, JobsAreSold
<1> QED
  BY <1>2, <1>4, <1>5

LEMMA SellStep ==
  ASSUME QueueInv, NEW d \in Drains, NEW s \in Sales, Sell(d, s)
  PROVE  QueueInv'
<1>1. sold' \in SUBSET Sales /\ sold \subseteq sold' /\ s \in sold' /\ s \notin sold
  BY DEF Sell, QueueInv, TypeOK
<1>2. CASE UNCHANGED jobs
  BY <1>1, <1>2, StartStep DEF Sell
<1>3. CASE Enqueue(s, FALSE)
  <2>1. \A j \in Known : jobs[j].sale # s
    BY <1>1 DEF QueueInv, JobsAreSold
  <2> QED
    BY <1>1, <1>3, <2>1, EnqueueStep DEF Sell
<1> QED
  BY <1>2, <1>3 DEF Sell

LEMMA PrintReceiptStep ==
  ASSUME QueueInv, NEW d \in Drains, NEW s \in Sales, PrintReceipt(d, s)
  PROVE  QueueInv'
<1>1. sold' \in SUBSET Sales /\ sold \subseteq sold' /\ s \in sold'
  BY DEF PrintReceipt, QueueInv, TypeOK
<1>2. CASE HasPending(s)
  BY <1>1, <1>2, StartStep DEF PrintReceipt
<1>3. CASE ~HasPending(s)
  <2>1. EverPrinted(s) \in BOOLEAN /\ Enqueue(s, EverPrinted(s))
    BY <1>3 DEF PrintReceipt, EverPrinted
  <2>2. queue = "receipts" /\ ~EverPrinted(s) => \A j \in Known : jobs[j].sale # s
    BY <1>3 DEF HasPending, EverPrinted, Waiting, QueueInv, JobsAreSold
  <2> QED
    BY <1>1, <2>1, <2>2, EnqueueStep DEF PrintReceipt
<1> QED
  BY <1>2, <1>3

LEMMA RetryStep ==
  ASSUME QueueInv, NEW d \in Drains, Retry(d)
  PROVE  QueueInv'
<1>1. sold' \in SUBSET Sales /\ sold \subseteq sold'
  BY DEF Retry, QueueInv, TypeOK
<1> QED
  BY <1>1, StartStep DEF Retry

\* What a batch read under the lock holds.
LEMMA FetchedBatch ==
  ASSUME QueueInv, NEW S \in Stale, NEW B \in Batches(Waiting \ S)
  PROVE  /\ B \subseteq Known
         /\ S \subseteq Known
         /\ queue = "receipts" => S = {}
         /\ \A j \in B : \A i \in 1..j - 1 : i \in B \/ out[i] > 0 \/ i \in dropped \cup S
<1>1. B \subseteq Waiting \ S
  BY DEF Batches
<1>2. B \subseteq Known
  BY <1>1 DEF Waiting
<1>3. S \subseteq Known /\ (queue = "receipts" => S = {})
  BY DEF Stale, Waiting
<1>4. ASSUME NEW j \in B, NEW i \in 1..j - 1
      PROVE  i \in B \/ out[i] > 0 \/ i \in dropped \cup S
  <2>1. i \in Known /\ i \in Int /\ j \in Int /\ i < j
    BY <1>2, <1>4 DEF Known, QueueInv, TypeOK
  <2>2. CASE i \in Waiting \ S
    BY <2>1, <2>2, <1>4 DEF Batches
  <2>3. CASE i \in printed
    BY <2>3 DEF QueueInv, MarkedIsPrinted
  <2> QED
    BY <2>1, <2>2, <2>3 DEF Waiting
<1> QED
  BY <1>2, <1>3, <1>4

LEMMA FetchStep ==
  ASSUME QueueInv, NEW d \in Drains, Fetch(d)
  PROVE  QueueInv'
<1>a. PICK S \in Stale :
        /\ dropped' = dropped \cup S
        /\ \E B \in Batches(Waiting \ S) :
             /\ todo' = [todo EXCEPT ![d] = B]
             /\ full' = [full EXCEPT ![d] = Cardinality(B) = QueueBatch]
             /\ at' = [at EXCEPT ![d] = IF B = {} THEN "idle" ELSE "print"]
  BY DEF Fetch
<1>1. PICK B \in Batches(Waiting \ S) :
        /\ dropped' = dropped \cup S
        /\ todo' = [todo EXCEPT ![d] = B]
        /\ full' = [full EXCEPT ![d] = Cardinality(B) = QueueBatch]
        /\ at' = [at EXCEPT ![d] = IF B = {} THEN "idle" ELSE "print"]
  BY <1>a
<1>2. /\ B \subseteq Known
      /\ S \subseteq Known
      /\ queue = "receipts" => S = {}
      /\ \A j \in B : \A i \in 1..j - 1 : i \in B \/ out[i] > 0 \/ i \in dropped \cup S
  BY FetchedBatch
<1>3. UNCHANGED <<queue, sold, jobs, printed, out, faults>> /\ Known' = Known
  BY DEF Fetch, Known
<1>4. TypeOK'
  BY <1>1, <1>2, <1>3 DEF QueueInv, TypeOK, Places
<1>5. MarkedIsPrinted' /\ OneOriginal'
  BY <1>3 DEF QueueInv, MarkedIsPrinted, OneOriginal
<1>6. BatchIsOldest'
  <2>1. \A e \in Drains : todo'[e] = IF e = d THEN B ELSE todo[e]
    BY <1>1 DEF QueueInv, TypeOK
  <2> QED
    BY <2>1, <1>1, <1>2, <1>3 DEF QueueInv, BatchIsOldest
<1>7. MarkedNextIsOut'
  <2>1. at'[d] # "mark" /\ \A e \in Drains : e # d => at'[e] = at[e] /\ todo'[e] = todo[e]
    BY <1>1 DEF QueueInv, TypeOK
  <2> QED
    BY <2>1, <1>3 DEF QueueInv, MarkedNextIsOut, Marked, First
<1>8. JobsAreSold'
  BY <1>1, <1>2, <1>3 DEF QueueInv, JobsAreSold
<1> QED
  BY <1>4, <1>5, <1>6, <1>7, <1>8 DEF QueueInv

\* The printer takes a job; where the drain goes is left to the caller.
LEMMA OutGrows ==
  ASSUME QueueInv, NEW d \in Drains, NEW j \in todo[d],
         out' = [out EXCEPT ![j] = @ + 1]
  PROVE  /\ out' \in [1..MaxJobs -> Nat]
         /\ \A i \in 1..MaxJobs : out[i] > 0 => out'[i] > 0
         /\ out'[j] > 0
         /\ Known \subseteq 1..MaxJobs
<1>1. Known \subseteq 1..MaxJobs
  BY NumbersAssumption DEF QueueInv, TypeOK, Known
<1> QED
  BY <1>1 DEF QueueInv, TypeOK

LEMMA PrintStep ==
  ASSUME QueueInv, NEW d \in Drains, PrintNext(d)
  PROVE  QueueInv'
<1>1. PICK j \in todo[d] : First(todo[d], j) /\ out' = [out EXCEPT ![j] = @ + 1]
  BY DEF PrintNext
<1>2. /\ UNCHANGED <<queue, sold, jobs, printed, dropped, todo, full, faults>>
      /\ at' = [at EXCEPT ![d] = "mark"]
      /\ Known' = Known
  BY DEF PrintNext, Known
<1>3. /\ out' \in [1..MaxJobs -> Nat]
      /\ \A i \in 1..MaxJobs : out[i] > 0 => out'[i] > 0
      /\ out'[j] > 0
      /\ Known \subseteq 1..MaxJobs
  BY <1>1, OutGrows
<1>4. TypeOK'
  BY <1>2, <1>3 DEF QueueInv, TypeOK, Places
<1>5. MarkedIsPrinted' /\ OneOriginal' /\ JobsAreSold'
  BY <1>2, <1>3 DEF QueueInv, TypeOK, MarkedIsPrinted, OneOriginal, JobsAreSold
<1>6. BatchIsOldest'
  <2> SUFFICES ASSUME NEW e \in Drains, NEW k \in todo[e], NEW i \in 1..k - 1
               PROVE  i \in todo[e] \/ out'[i] > 0 \/ i \in dropped
    BY <1>2 DEF BatchIsOldest
  <2>1. k \in Known /\ i \in Known
    BY DEF QueueInv, TypeOK, Known
  <2> QED
    BY <2>1, <1>3 DEF QueueInv, BatchIsOldest
<1>7. MarkedNextIsOut'
  <2> SUFFICES ASSUME NEW e \in Drains, at'[e] = "mark", NEW k \in todo[e], First(todo[e], k)
               PROVE  out'[k] > 0
    BY <1>2 DEF MarkedNextIsOut, Marked, First
  <2>1. k \in Known /\ j \in Known /\ Known \subseteq Int
    BY DEF QueueInv, TypeOK, Known
  <2>2. CASE e = d
    BY <2>1, <2>2, <1>1, <1>3 DEF First
  <2>3. CASE e # d
    BY <2>1, <2>3, <1>2, <1>3 DEF QueueInv, TypeOK, MarkedNextIsOut, Marked
  <2> QED
    BY <2>2, <2>3
<1> QED
  BY <1>4, <1>5, <1>6, <1>7 DEF QueueInv

LEMMA MarkStep ==
  ASSUME QueueInv, NEW d \in Drains, Mark(d)
  PROVE  QueueInv'
<1>1. /\ UNCHANGED <<queue, sold, jobs, dropped, full, out, faults>>
      /\ printed' = printed \cup Marked(d)
      /\ todo' = [todo EXCEPT ![d] = @ \ Marked(d)]
      /\ at' = [at EXCEPT ![d] = IF todo[d] # Marked(d) THEN "print"
                                 ELSE IF full[d] THEN "fetch" ELSE "idle"]
      /\ Known' = Known
  BY DEF Mark, Known
<1>2. Marked(d) \subseteq todo[d] /\ todo[d] \subseteq Known
  BY DEF Marked, QueueInv, TypeOK
<1>3. \A j \in Marked(d) : out[j] > 0
  BY DEF Mark, QueueInv, MarkedNextIsOut
<1>4. \A e \in Drains : todo'[e] = IF e = d THEN todo[d] \ Marked(d) ELSE todo[e]
  BY <1>1 DEF QueueInv, TypeOK
<1>5. TypeOK'
  BY <1>1, <1>2 DEF QueueInv, TypeOK, Places
<1>6. MarkedIsPrinted' /\ OneOriginal' /\ JobsAreSold'
  BY <1>1, <1>3 DEF QueueInv, MarkedIsPrinted, OneOriginal, JobsAreSold
<1>7. BatchIsOldest'
  BY <1>1, <1>3, <1>4 DEF QueueInv, BatchIsOldest
<1>8. MarkedNextIsOut'
  <2>1. at'[d] # "mark" /\ \A e \in Drains : e # d => at'[e] = at[e] /\ todo'[e] = todo[e]
    BY <1>1, <1>4 DEF QueueInv, TypeOK
  <2> QED
    BY <2>1, <1>1 DEF QueueInv, MarkedNextIsOut, Marked, First
<1> QED
  BY <1>5, <1>6, <1>7, <1>8 DEF QueueInv

\* A drain that ends early: what is left of its batch is forgotten.
LEMMA PrintFailsStep ==
  ASSUME QueueInv, NEW d \in Drains, PrintFails(d)
  PROVE  QueueInv'
<1>1. /\ UNCHANGED <<queue, sold, jobs, printed, dropped, full>>
      /\ faults' = faults + 1 /\ faults < MaxFaults
      /\ at' = [at EXCEPT ![d] = "idle"]
      /\ todo' = [todo EXCEPT ![d] = {}]
      /\ Known' = Known
  BY DEF PrintFails, AfterFailure, Stops, Fault, Known
<1>2. /\ out' \in [1..MaxJobs -> Nat]
      /\ \A i \in 1..MaxJobs : out[i] > 0 => out'[i] > 0
      /\ Known \subseteq 1..MaxJobs
  <2>1. CASE UNCHANGED out
    BY <2>1, NumbersAssumption DEF QueueInv, TypeOK, Known
  <2>2. CASE \E j \in todo[d] : First(todo[d], j) /\ out' = [out EXCEPT ![j] = @ + 1]
    BY <2>2, OutGrows
  <2> QED
    BY <2>1, <2>2 DEF PrintFails
<1>3. \A e \in Drains : todo'[e] = IF e = d THEN {} ELSE todo[e]
  BY <1>1 DEF QueueInv, TypeOK
<1>4. TypeOK'
  BY <1>1, <1>2, NumbersAssumption DEF QueueInv, TypeOK, Places
<1>5. MarkedIsPrinted' /\ OneOriginal' /\ JobsAreSold'
  BY <1>1, <1>2 DEF QueueInv, TypeOK, MarkedIsPrinted, OneOriginal, JobsAreSold
<1>6. BatchIsOldest'
  <2> SUFFICES ASSUME NEW e \in Drains, NEW k \in todo'[e], NEW i \in 1..k - 1
               PROVE  i \in todo'[e] \/ out'[i] > 0 \/ i \in dropped
    BY <1>1 DEF BatchIsOldest
  <2>1. e # d /\ k \in todo[e] /\ todo'[e] = todo[e]
    BY <1>3
  <2>2. k \in Known /\ i \in Known
    BY <2>1 DEF QueueInv, TypeOK, Known
  <2> QED
    BY <2>1, <2>2, <1>2 DEF QueueInv, BatchIsOldest
<1>7. MarkedNextIsOut'
  <2> SUFFICES ASSUME NEW e \in Drains, at'[e] = "mark", NEW k \in todo'[e], First(todo'[e], k)
               PROVE  out'[k] > 0
    BY DEF MarkedNextIsOut, Marked, First
  <2>1. e # d /\ todo'[e] = todo[e] /\ at[e] = "mark" /\ k \in Known
    BY <1>1, <1>3 DEF QueueInv, TypeOK
  <2> QED
    BY <2>1, <1>2 DEF QueueInv, MarkedNextIsOut, Marked
<1> QED
  BY <1>4, <1>5, <1>6, <1>7 DEF QueueInv

LEMMA NoPrinterStep ==
  ASSUME QueueInv, NEW d \in Drains, NoPrinter(d)
  PROVE  QueueInv'
<1>1. /\ UNCHANGED <<queue, sold, jobs, printed, dropped, full, out>>
      /\ faults' = faults + 1 /\ faults < MaxFaults
      /\ at' = [at EXCEPT ![d] = "idle"]
      /\ todo' = [todo EXCEPT ![d] = {}]
      /\ Known' = Known
  BY DEF NoPrinter, Stops, Fault, Known
<1>2. \A e \in Drains : todo'[e] = IF e = d THEN {} ELSE todo[e]
  BY <1>1 DEF QueueInv, TypeOK
<1>3. TypeOK'
  BY <1>1, NumbersAssumption DEF QueueInv, TypeOK, Places
<1>4. MarkedIsPrinted' /\ OneOriginal' /\ JobsAreSold' /\ BatchIsOldest'
  BY <1>1, <1>2 DEF QueueInv, MarkedIsPrinted, OneOriginal, JobsAreSold, BatchIsOldest
<1>5. MarkedNextIsOut'
  BY <1>1, <1>2 DEF QueueInv, TypeOK, MarkedNextIsOut, Marked, First
<1> QED
  BY <1>3, <1>4, <1>5 DEF QueueInv

LEMMA SwitchOffStep ==
  ASSUME QueueInv, SwitchOff
  PROVE  QueueInv'
<1>1. Known' = Known
  BY DEF SwitchOff, Known
<1>2. TypeOK'
  BY <1>1, NumbersAssumption DEF QueueInv, TypeOK, Places, SwitchOff, Fault
<1>3. MarkedIsPrinted' /\ OneOriginal' /\ JobsAreSold' /\ BatchIsOldest' /\ MarkedNextIsOut'
  BY <1>1 DEF QueueInv, MarkedIsPrinted, OneOriginal, JobsAreSold, BatchIsOldest,
              MarkedNextIsOut, SwitchOff
<1> QED
  BY <1>2, <1>3 DEF QueueInv

LEMMA NextInv == QueueInv /\ [Next]_vars => QueueInv'
<1> SUFFICES ASSUME QueueInv, [Next]_vars PROVE QueueInv'
  OBVIOUS
<1>1. CASE \E d \in Drains, s \in Sales : Sell(d, s) \/ PrintReceipt(d, s)
  BY <1>1, SellStep, PrintReceiptStep
<1>2. CASE \E d \in Drains : Retry(d) \/ Fetch(d) \/ PrintNext(d) \/ Mark(d)
  BY <1>2, RetryStep, FetchStep, PrintStep, MarkStep
<1>3. CASE \E d \in Drains : PrintFails(d) \/ NoPrinter(d)
  BY <1>3, PrintFailsStep, NoPrinterStep
<1>4. CASE SwitchOff
  BY <1>4, SwitchOffStep
<1>5. CASE UNCHANGED vars
  BY <1>5 DEF vars, QueueInv, TypeOK, Known, MarkedIsPrinted, OneOriginal, JobsAreSold,
              BatchIsOldest, MarkedNextIsOut, Marked, First
<1> QED
  BY <1>1, <1>2, <1>3, <1>4, <1>5 DEF Next, Drain

-----------------------------------------------------------------------------

\* Every reachable state of a print queue satisfies the inductive invariant.
THEOREM QueueAlways == Spec => []QueueInv
BY InitInv, NextInv, PTL DEF Spec

\* A sale has one receipt that is not a COPY, whatever reprints are asked for
\* while drains overlap, fail or are cut off (print_receipt).
THEOREM OneOriginalAlways == Spec => []OneOriginal
BY QueueAlways, PTL DEF QueueInv

\* A job is marked printed only when it came out (drain, drain_kitchen_at).
THEOREM MarkedAlways == Spec => []MarkedIsPrinted
BY QueueAlways, PTL DEF QueueInv

\* A job that comes out for the first time is the first of some batch, and
\* everything older is out or dropped.
LEMMA OrderStep ==
  ASSUME QueueInv, [Next]_vars, NEW j \in 1..MaxJobs, out[j] = 0, out'[j] > 0,
         NEW i \in 1..j - 1
  PROVE  out[i] > 0 \/ i \in dropped
<1>1. out' # out
  <2>1. ~(0 > 0)
    OBVIOUS
  <2> QED
    BY <2>1
<1>2. \E d \in Drains : PrintNext(d) \/ PrintFails(d)
  BY <1>1 DEF Next, vars, Sell, PrintReceipt, Retry, Drain, Fetch, Mark, NoPrinter, SwitchOff
<1>a. PICK d \in Drains : \E k \in todo[d] :
        First(todo[d], k) /\ out' = [out EXCEPT ![k] = @ + 1]
  BY <1>1, <1>2 DEF PrintNext, PrintFails
<1>3. PICK k \in todo[d] : First(todo[d], k) /\ out' = [out EXCEPT ![k] = @ + 1]
  BY <1>a
<1>4. k = j
  BY <1>3 DEF QueueInv, TypeOK
<1>5. i \notin todo[d]
  BY <1>3, <1>4 DEF First
<1> QED
  BY <1>3, <1>4, <1>5 DEF QueueInv, BatchIsOldest

\* Receipts and tickets come out in the order they were queued, however many
\* drains overlap, fail or are cut off (drain: "stopping at the first failure
\* so order is preserved").
THEOREM OrderAlways == Spec => FirstPrintsInOrder
<1>1. QueueInv /\ [Next]_vars =>
        [\A j \in 1..MaxJobs : out[j] = 0 /\ out'[j] > 0 =>
           \A i \in 1..j - 1 : out[i] > 0 \/ i \in dropped]_vars
  BY OrderStep
<1> QED
  BY <1>1, QueueAlways, PTL DEF Spec, FirstPrintsInOrder
=============================================================================
