----------------------------- MODULE PrintQueue -----------------------------
(***************************************************************************)
(* A print queue of one till: its receipts (print_jobs), or the tickets of *)
(* its kitchen printer (kitchen_print_jobs).  Jobs are rows of the         *)
(* database; any thread may drain them: the command that made a sale or    *)
(* sent a course, a reprint, saved printer settings, and the worker that   *)
(* runs every 30 s.  A drain reads a batch under the connection lock and   *)
(* prints it without, so drains overlap.                                   *)
(*                                                                         *)
(* A job is its place in ORDER BY created_at, id; what is printed is       *)
(* reduced to how often each job came out of the printer.                  *)
(***************************************************************************)
EXTENDS Integers, Sequences, FiniteSets

CONSTANTS
  Sales,       \* what a job is for: a transaction, or a course sent
  Drains,      \* threads that may drain the queue
  QueueBatch,  \* jobs per batch (QUEUE_BATCH, 25 in the code)
  MaxJobs,     \* bound: jobs ever queued
  MaxFaults    \* bound: printer failures, switch-offs, times without a printer

ASSUME NumbersAssumption == /\ QueueBatch \in Nat \ {0}
                            /\ MaxJobs \in Nat
                            /\ MaxFaults \in Nat

VARIABLES
  queue,    \* which queue this is, "receipts" or "kitchen"
  sold,     \* sales made (courses sent)
  jobs,     \* the queue's rows, oldest first: [sale, copy]
  printed,  \* those with printed_at
  dropped,  \* those with deleted_at (kitchen tickets of yesterday)
  at,       \* at[d]: where drain d is
  todo,     \* todo[d]: the part of its batch not printed yet
  full,     \* full[d]: its batch had QueueBatch jobs, so more may wait
  out,      \* out[j]: how often job j came out of the printer
  faults    \* how many of MaxFaults have happened

vars == <<queue, sold, jobs, printed, dropped, at, todo, full, out, faults>>

Places == {"idle", "fetch", "print", "mark"}
Known == 1..Len(jobs)
Waiting == Known \ (printed \cup dropped)

Init ==
  /\ queue \in {"receipts", "kitchen"}
  /\ sold = {}
  /\ jobs = <<>>
  /\ printed = {}
  /\ dropped = {}
  /\ at = [d \in Drains |-> "idle"]
  /\ todo = [d \in Drains |-> {}]
  /\ full = [d \in Drains |-> FALSE]
  /\ out = [j \in 1..MaxJobs |-> 0]
  /\ faults = 0

-----------------------------------------------------------------------------
(* Commands that put a job into the queue and then drain it.               *)

Start(d) == at[d] = "idle" /\ at' = [at EXCEPT ![d] = "fetch"]

Enqueue(s, copy) ==
  /\ Len(jobs) < MaxJobs
  /\ jobs' = Append(jobs, [sale |-> s, copy |-> copy])

\* A sale, in one transaction with its receipt unless automatic printing is
\* off; a course sent to the kitchen, with its ticket.
Sell(d, s) ==
  /\ Start(d)
  /\ s \notin sold
  /\ sold' = sold \cup {s}
  /\ Enqueue(s, FALSE) \/ (queue = "receipts" /\ UNCHANGED jobs)
  /\ UNCHANGED <<queue, printed, dropped, todo, full, out, faults>>

NeverCopy(s) == FALSE                \* mutant: a reprint is not marked
HasPending(s) == \E j \in Waiting : jobs[j].sale = s
EverPrinted(s) == \E j \in printed : jobs[j].sale = s

\* print_receipt: what waits is not queued twice, what was printed is a COPY.
PrintReceipt(d, s) ==
  /\ queue = "receipts"
  /\ Start(d)
  /\ s \in sold
  /\ IF HasPending(s) THEN UNCHANGED jobs ELSE Enqueue(s, EverPrinted(s))
  /\ UNCHANGED <<queue, sold, printed, dropped, todo, full, out, faults>>

\* The worker, or printer settings that were saved.
Retry(d) ==
  /\ Start(d)
  /\ UNCHANGED <<queue, sold, jobs, printed, dropped, todo, full, out, faults>>

-----------------------------------------------------------------------------
(* One drain.                                                              *)

AnyBatch(W) ==                       \* mutant: not the oldest
  {B \in SUBSET W : Cardinality(B) <= QueueBatch /\ (B = {} => W = {})}
NotTheNewest(W) ==                   \* mutant: the newest row is not seen
  {B \in SUBSET W : /\ Cardinality(B) <= QueueBatch
                    /\ \A i \in B : \E j \in W : i < j
                    /\ Cardinality(B) < QueueBatch => \A i, j \in W \ B : i = j
                    /\ \A i \in B, j \in W \ B : i < j}

\* The oldest of W, at most QueueBatch of them.
Batches(W) ==
  {B \in SUBSET W : /\ Cardinality(B) <= QueueBatch
                    /\ Cardinality(B) < QueueBatch => B = W
                    /\ \A i \in B, j \in W \ B : i < j}

\* Kitchen tickets older than a day are dropped first.
Stale == IF queue = "kitchen" THEN {Waiting \cap 1..n : n \in 0..Len(jobs)} ELSE {{}}

\* Under the lock: read and render the batch.
Fetch(d) ==
  /\ at[d] = "fetch"
  /\ \E S \in Stale :
       /\ dropped' = dropped \cup S
       /\ \E B \in Batches(Waiting \ S) :
            /\ todo' = [todo EXCEPT ![d] = B]
            /\ full' = [full EXCEPT ![d] = Cardinality(B) = QueueBatch]
            /\ at' = [at EXCEPT ![d] = IF B = {} THEN "idle" ELSE "print"]
  /\ UNCHANGED <<queue, sold, jobs, printed, out, faults>>

First(B, j) == j \in B /\ \A i \in B : j <= i

\* Without the lock: the printer takes the first job of the batch.
PrintNext(d) ==
  /\ at[d] = "print"
  /\ \E j \in todo[d] : /\ First(todo[d], j)
                        /\ out' = [out EXCEPT ![j] = @ + 1]
  /\ at' = [at EXCEPT ![d] = "mark"]
  /\ UNCHANGED <<queue, sold, jobs, printed, dropped, todo, full, faults>>

MarkedAll(d) == todo[d]              \* mutant: the batch is marked as a whole
Marked(d) == {j \in todo[d] : First(todo[d], j)}

\* Under the lock: printed_at.  A full batch is followed by another.
Mark(d) ==
  /\ at[d] = "mark"
  /\ printed' = printed \cup Marked(d)
  /\ todo' = [todo EXCEPT ![d] = @ \ Marked(d)]
  /\ at' = [at EXCEPT ![d] = IF todo[d] # Marked(d) THEN "print"
                             ELSE IF full[d] THEN "fetch" ELSE "idle"]
  /\ UNCHANGED <<queue, sold, jobs, dropped, full, out, faults>>

Stops(d) == /\ at' = [at EXCEPT ![d] = "idle"]
            /\ todo' = [todo EXCEPT ![d] = {}]

Fault == faults < MaxFaults /\ faults' = faults + 1

SkipFailed(d) ==                     \* mutant: the next job is tried
  /\ at' = [at EXCEPT ![d] = IF todo[d] = Marked(d) THEN "idle" ELSE "print"]
  /\ todo' = [todo EXCEPT ![d] = @ \ Marked(d)]

\* A failure ends the drain, so order is preserved.
AfterFailure(d) == Stops(d)

\* Every printer of the chain failed; one of them may have printed before.
PrintFails(d) ==
  /\ at[d] = "print"
  /\ Fault
  /\ \/ UNCHANGED out
     \/ \E j \in todo[d] : First(todo[d], j) /\ out' = [out EXCEPT ![j] = @ + 1]
  /\ AfterFailure(d)
  /\ UNCHANGED <<queue, sold, jobs, printed, dropped, full>>

\* No printer is set up.
NoPrinter(d) ==
  /\ at[d] = "fetch"
  /\ Fault
  /\ Stops(d)
  /\ UNCHANGED <<queue, sold, jobs, printed, dropped, full, out>>

\* The till is switched off: every drain is gone, the rows stay.
SwitchOff ==
  /\ Fault
  /\ at' = [d \in Drains |-> "idle"]
  /\ todo' = [d \in Drains |-> {}]
  /\ UNCHANGED <<queue, sold, jobs, printed, dropped, full, out>>

-----------------------------------------------------------------------------

Drain(d) == Fetch(d) \/ PrintNext(d) \/ Mark(d)

Next ==
  \/ \E d \in Drains :
       \/ \E s \in Sales : Sell(d, s) \/ PrintReceipt(d, s)
       \/ Retry(d)
       \/ Drain(d)
       \/ PrintFails(d)
       \/ NoPrinter(d)
  \/ SwitchOff

Spec == Init /\ [][Next]_vars

(* The worker drains every 30 s, and a drain that is under way goes on.     *)
Fairness == \A d \in Drains : WF_vars(Retry(d)) /\ WF_vars(Drain(d))

FairSpec == Spec /\ Fairness

-----------------------------------------------------------------------------
(* Properties                                                              *)

\* The values the variables take.
TypeOK ==
  /\ queue \in {"receipts", "kitchen"}
  /\ sold \in SUBSET Sales
  /\ jobs \in Seq([sale : Sales, copy : BOOLEAN]) /\ Len(jobs) <= MaxJobs
  /\ printed \subseteq Known
  /\ dropped \subseteq Known
  /\ at \in [Drains -> Places]
  /\ todo \in [Drains -> SUBSET Known]
  /\ full \in [Drains -> BOOLEAN]
  /\ out \in [1..MaxJobs -> Nat]
  /\ faults \in 0..MaxFaults

\* Receipts come out in the order the sales happened, whatever drains overlap,
\* fail or are cut off: a job comes out for the first time only after every
\* older one that was not dropped (drain: "stopping at the first failure so
\* order is preserved").
FirstPrintsInOrder ==
  [][\A j \in 1..MaxJobs : out[j] = 0 /\ out'[j] > 0 =>
       \A i \in 1..j - 1 : out[i] > 0 \/ i \in dropped]_vars

\* No receipt is lost: a job is marked printed only when it came out.
MarkedIsPrinted == \A j \in printed : out[j] > 0

\* One receipt of a sale is not a COPY; every other is asked for by someone
\* who may reprint and is marked.
OneOriginal ==
  queue = "receipts" =>
    \A i, j \in Known : jobs[i].sale = jobs[j].sale /\ ~jobs[i].copy /\ ~jobs[j].copy
                          => i = j

\* Why the order holds: every job older than one in a drain's batch is in the
\* batch too, has come out, or was dropped.
BatchIsOldest ==
  \A d \in Drains : \A j \in todo[d] : \A i \in 1..j - 1 :
    i \in todo[d] \/ out[i] > 0 \/ i \in dropped

\* The job a drain is about to mark has come out.
MarkedNextIsOut ==
  \A d \in Drains : at[d] = "mark" => \A j \in Marked(d) : out[j] > 0

JobsAreSold ==
  /\ \A j \in Known : jobs[j].sale \in sold
  /\ queue = "receipts" => dropped = {}

\* The inductive invariant of PrintQueue_proofs.
QueueInv ==
  /\ TypeOK
  /\ MarkedIsPrinted
  /\ OneOriginal
  /\ BatchIsOldest
  /\ MarkedNextIsOut
  /\ JobsAreSold

\* What was queued while the printer was off comes out once it is back (a
\* kitchen ticket may be dropped after a day).
EventuallyPrinted ==
  \A j \in 1..MaxJobs : j \in Waiting ~> j \in printed \cup dropped

\* print_receipt's comment: any later copy is a reprint and is marked COPY, so
\* one paper at most of a receipt goes out that is not.
OriginalPrintedOnce ==
  queue = "receipts" => \A j \in Known : ~jobs[j].copy => out[j] <= 1
=============================================================================
