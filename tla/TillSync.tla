------------------------------ MODULE TillSync ------------------------------
(***************************************************************************)
(* Tills that keep selling offline and synchronise with one server: the    *)
(* cloud (sync_push / sync_pull) or the till that is the shop-network hub  *)
(* (hub::push / hub::pull).  A till records every change in its outbox in  *)
(* the transaction that makes it; a round pushes the outbox, then pulls    *)
(* the versions other tills wrote.                                         *)
(*                                                                         *)
(* Data is abstracted to what the rules compare.  A last-write-wins row is *)
(* its version: the timestamp and the random tail of the event id that     *)
(* wrote it (a UUIDv7 starts with the same millisecond clock).  A stock    *)
(* movement is its identity; the stock figure cached on a product is how   *)
(* often each movement has been added to it.                               *)
(***************************************************************************)
EXTENDS Integers, FiniteSets

CONSTANTS
  Tills,      \* the devices of one shop
  NoTill,     \* "no till", for rows the server does not hold
  Rows,       \* last-write-wins rows (products)
  Deltas,     \* additive rows (stock movements), each recorded at most once
  ProductOf,  \* the product a movement belongs to
  MaxTime,    \* bound: readings of the tills' clocks, which nothing keeps in step
  MaxTie,     \* bound: random tails of event ids
  Server,     \* "hub" or "cloud"
  Refused,    \* items the server rejects for good (an entity it does not know)
  PushBatch,  \* events per push request      (500 in the code)
  PullPage,   \* changes per pull response    (500 in the code)
  MaxFaults   \* bound: failed requests, crashes and retryable rejections

Items == Rows \cup Deltas
Time == 1..MaxTime
Ties == 0..MaxTie

ASSUME ItemsAssumption == /\ Rows \cap Deltas = {}
                          /\ ProductOf \in [Deltas -> Rows]
                          /\ Refused \subseteq Items
ASSUME TillsAssumption == NoTill \notin Tills
ASSUME ClockAssumption == MaxTime \in Nat /\ MaxTie \in Nat
ASSUME BoundsAssumption == /\ PushBatch \in Nat \ {0}
                           /\ PullPage \in Nat \ {0}
                           /\ MaxFaults \in Nat
ASSUME ServerAssumption == Server \in {"hub", "cloud"}

Events == [item : Items, at : Time, tie : Ties]
Version == [at : Nat, tie : Nat]
NoVersion == [at |-> 0, tie |-> 0]      \* the row is not there
Ver(e) == [at |-> e.at, tie |-> e.tie]

VARIABLES
  local,      \* local[t][r]: version of row r in t's database
  held,       \* held[t]: movements in t's stock_movements table
  counted,    \* counted[t][d]: times d was added to t's cached stock
  queued,     \* sync_queue rows neither sent nor parked (sent_at, deleted_at null)
  backoff,    \* those of them whose next_attempt_at is in the future
  sent,       \* sync_queue rows with sent_at
  parked,     \* sync_queue rows with deleted_at
  cursor,     \* the stored pull position
  phase,      \* where t's round is
  batch,      \* the events of the push request under way
  reply,      \* the answer to it
  page,       \* the pull response in hand
  srv,        \* srv[i]: the server's row, its seq (0: none) and its origin
  lastSeq,    \* the greatest seq given out
  received,   \* events applied once (hub_events / sync_received_events)
  txn,        \* the push transaction the server is running
  late,       \* late[t]: a request t gave up on that may still arrive
  faults,     \* how many of MaxFaults have happened
  regressed   \* history: rows saved with a version not above the one replaced

tillVars == <<local, held, counted, queued, backoff, sent, parked, cursor>>
roundVars == <<phase, batch, reply, page>>
serverVars == <<srv, lastSeq, received>>
vars == <<tillVars, roundVars, serverVars, txn, late, faults, regressed>>

Phases == {"idle", "push", "pushing", "handled", "answered", "pull", "counting", "page"}
NoReply == [acked |-> {}, refused |-> {}]
NoPage == [changes |-> {}, next |-> 0, more |-> FALSE]
NoTxn == [till |-> NoTill, todo |-> {}, acked |-> {}, refused |-> {}]
Absent == [at |-> 0, tie |-> 0, seq |-> 0, origin |-> NoTill]

\* (updated_at, event_id) compared as a tuple.
Beats(v, w) == v.at > w.at \/ (v.at = w.at /\ v.tie > w.tie)

\* ORDER BY created_at, id
Before(e, f) == e.at < f.at \/ (e.at = f.at /\ e.tie < f.tie)

Recorded(t) == queued[t] \cup sent[t] \cup parked[t]
AllRecorded == UNION {Recorded(t) : t \in Tills}
Due(t) == queued[t] \ backoff[t]

Init ==
  /\ local = [t \in Tills |-> [r \in Rows |-> NoVersion]]
  /\ held = [t \in Tills |-> {}]
  /\ counted = [t \in Tills |-> [d \in Deltas |-> 0]]
  /\ queued = [t \in Tills |-> {}]
  /\ backoff = [t \in Tills |-> {}]
  /\ sent = [t \in Tills |-> {}]
  /\ parked = [t \in Tills |-> {}]
  /\ cursor = [t \in Tills |-> 0]
  /\ phase = [t \in Tills |-> "idle"]
  /\ batch = [t \in Tills |-> {}]
  /\ reply = [t \in Tills |-> NoReply]
  /\ page = [t \in Tills |-> NoPage]
  /\ srv = [i \in Items |-> Absent]
  /\ lastSeq = 0
  /\ received = {}
  /\ txn = NoTxn
  /\ late = [t \in Tills |-> {}]
  /\ faults = 0
  /\ regressed = {}

-----------------------------------------------------------------------------
(* Changes made at a till: the row and its outbox event in one transaction. *)

\* A new row gets a fresh id, so only one till ever creates it.
SaveRow(t, r, now, tie) ==
  LET e == [item |-> r, at |-> now, tie |-> tie]
  IN /\ local[t][r] # NoVersion \/ \A u \in Tills : local[u][r] = NoVersion
     /\ \A f \in AllRecorded : f.item = r => Ver(f) # Ver(e)
     /\ local' = [local EXCEPT ![t][r] = Ver(e)]
     /\ queued' = [queued EXCEPT ![t] = @ \cup {e}]
     /\ regressed' = IF Beats(Ver(e), local[t][r]) THEN regressed
                                                   ELSE regressed \cup {r}
     /\ UNCHANGED <<held, counted, backoff, sent, parked, cursor, roundVars,
                    serverVars, txn, late, faults>>

\* An append's event id is never compared, so its tie says nothing.
MoveStock(t, d, now) ==
  LET e == [item |-> d, at |-> now, tie |-> 0]
  IN /\ local[t][ProductOf[d]] # NoVersion
     /\ \A u \in Tills : d \notin held[u]
     /\ held' = [held EXCEPT ![t] = @ \cup {d}]
     /\ counted' = [counted EXCEPT ![t][d] = @ + 1]
     /\ queued' = [queued EXCEPT ![t] = @ \cup {e}]
     /\ UNCHANGED <<local, backoff, sent, parked, cursor, roundVars,
                    serverVars, txn, late, faults, regressed>>

\* next_attempt_at passes.
BackoffOver(t, e) ==
  /\ e \in backoff[t]
  /\ backoff' = [backoff EXCEPT ![t] = @ \ {e}]
  /\ UNCHANGED <<local, held, counted, queued, sent, parked, cursor, roundVars,
                 serverVars, txn, late, faults, regressed>>

-----------------------------------------------------------------------------
(* The push half of a round.                                               *)

\* The oldest events that are due, at most PushBatch of them.
Batches(t) ==
  {B \in SUBSET Due(t) :
     /\ B # {}
     /\ Cardinality(B) <= PushBatch
     /\ Cardinality(B) < PushBatch => B = Due(t)
     /\ \A e \in B, f \in Due(t) \ B : ~Before(f, e)}

SendPush(t) ==
  /\ phase[t] \in {"idle", "push"}
  /\ \E B \in Batches(t) : batch' = [batch EXCEPT ![t] = B]
  /\ phase' = [phase EXCEPT ![t] = "pushing"]
  /\ UNCHANGED <<tillVars, reply, page, serverVars, txn, late, faults, regressed>>

\* Nothing is due, or the round has pushed its MAX_PUSH_BATCHES.
EndPush(t) ==
  /\ phase[t] = "push" \/ (phase[t] = "idle" /\ Due(t) = {})
  /\ phase' = [phase EXCEPT ![t] = "pull"]
  /\ UNCHANGED <<tillVars, batch, reply, page, serverVars, txn, late, faults, regressed>>

AnsweredIsAcked(t) == batch[t]          \* mutant: any answer acknowledges the batch
Acked(t) == batch[t] \cap reply[t].acked

RejectionsRetried(t) == {}              \* mutant: every rejection is tried again
Rejected(t) == (batch[t] \cap reply[t].refused) \ Acked(t)

\* One transaction marks the whole batch: an acknowledged event is sent, one
\* rejected for good is parked, any other backs off.
MarkBatch(t) ==
  /\ phase[t] = "answered"
  /\ queued' = [queued EXCEPT ![t] = @ \ (Acked(t) \cup Rejected(t))]
  /\ sent' = [sent EXCEPT ![t] = @ \cup Acked(t)]
  /\ parked' = [parked EXCEPT ![t] = @ \cup Rejected(t)]
  /\ backoff' = [backoff EXCEPT ![t] = @ \cup (batch[t] \ (Acked(t) \cup Rejected(t)))]
  /\ phase' = [phase EXCEPT ![t] = IF Cardinality(batch[t]) = PushBatch
                                   THEN "push" ELSE "pull"]
  /\ batch' = [batch EXCEPT ![t] = {}]
  /\ reply' = [reply EXCEPT ![t] = NoReply]
  /\ UNCHANGED <<local, held, counted, cursor, page, serverVars, txn, late,
                 faults, regressed>>

-----------------------------------------------------------------------------
(* The server: one push transaction at a time (the hub's connection lock,   *)
(* the cloud's advisory lock); nobody reads its uncommitted writes.         *)

ServerFree == txn = NoTxn

TakeRequest(t) ==
  /\ ServerFree
  /\ phase[t] = "pushing"
  /\ txn' = [NoTxn EXCEPT !.till = t, !.todo = batch[t]]
  /\ phase' = [phase EXCEPT ![t] = "handled"]
  /\ UNCHANGED <<tillVars, batch, reply, page, serverVars, late, faults, regressed>>

\* A request its sender gave up on arrives after all.
TakeLateRequest(t) ==
  /\ ServerFree
  /\ late[t] # {}
  /\ txn' = [NoTxn EXCEPT !.till = t, !.todo = late[t]]
  /\ late' = [late EXCEPT ![t] = {}]
  /\ UNCHANGED <<tillVars, roundVars, serverVars, faults, regressed>>

LastArrivalWins(e) == TRUE              \* mutant: no comparison
ClockAloneWins(e) ==                    \* mutant: the event id is not compared
  IF e.item \in Rows THEN e.at >= srv[e.item].at ELSE srv[e.item].seq = 0

\* Does the event replace what the server holds?
Wins(e) == IF e.item \in Rows THEN Beats(e, srv[e.item])
                              ELSE srv[e.item].seq = 0

Next1(e) == e \in txn.todo /\ \A f \in txn.todo : ~Before(f, e)

\* The event has been applied before: acknowledged again, nothing else.
AckAgain(e) ==
  /\ Next1(e)
  /\ e \in received
  /\ txn' = [txn EXCEPT !.todo = @ \ {e}, !.acked = @ \cup {e}]
  /\ UNCHANGED <<tillVars, roundVars, serverVars, late, faults, regressed>>

RefuseEvent(e) ==
  /\ Next1(e)
  /\ e \notin received
  /\ e.item \in Refused
  /\ txn' = [txn EXCEPT !.todo = @ \ {e}, !.refused = @ \cup {e}]
  /\ UNCHANGED <<tillVars, roundVars, serverVars, late, faults, regressed>>

ApplyEvent(e) ==
  /\ Next1(e)
  /\ e \notin received
  /\ e.item \notin Refused
  /\ received' = received \cup {e}
  /\ IF Wins(e)
       THEN /\ srv' = [srv EXCEPT ![e.item] = [at |-> e.at, tie |-> e.tie,
                                   seq |-> lastSeq + 1, origin |-> txn.till]]
            /\ lastSeq' = lastSeq + 1
       ELSE UNCHANGED <<srv, lastSeq>>
  /\ txn' = [txn EXCEPT !.todo = @ \ {e}, !.acked = @ \cup {e}]
  /\ UNCHANGED <<tillVars, roundVars, late, faults, regressed>>

\* The cloud's exception handler: this event alone is rolled back, retryable.
FailEvent(e) ==
  /\ Server = "cloud"
  /\ faults < MaxFaults
  /\ Next1(e)
  /\ e \notin received
  /\ faults' = faults + 1
  /\ txn' = [txn EXCEPT !.todo = @ \ {e}]
  /\ UNCHANGED <<tillVars, roundVars, serverVars, late, regressed>>

\* The transaction commits; its answer reaches a till that still waits for it.
AnswerPush ==
  LET t == txn.till
  IN /\ ~ServerFree
     /\ txn.todo = {}
     /\ IF phase[t] = "handled"
          THEN /\ phase' = [phase EXCEPT ![t] = "answered"]
               /\ reply' = [reply EXCEPT ![t] = [acked |-> txn.acked, refused |-> txn.refused]]
          ELSE UNCHANGED <<phase, reply>>
     /\ txn' = NoTxn
     /\ UNCHANGED <<tillVars, batch, page, serverVars, late, faults, regressed>>

-----------------------------------------------------------------------------
(* The pull half of a round.                                               *)

AfterNext(c) == {i \in Items : srv[i].seq > c + 1}     \* mutant: off by one
After(c) == {i \in Items : srv[i].seq > c}
UpTo(S, n) == {i \in S : srv[i].seq <= n}
Own(t) == {i \in Items : srv[i].origin = t}
Smaller(a, b) == IF a < b THEN a ELSE b

EndsBeforeEmpty(S, c) ==    \* mutant: an empty page answers the cursor less one
  {n \in c - 1..lastSeq :
     /\ Cardinality(UpTo(S, n)) = Smaller(Cardinality(S), PullPage)
     /\ n = c - 1 \/ \E i \in S : srv[i].seq = n}

\* Where the first PullPage items of S end (the cursor when S is empty).
PageEnds(S, c) ==
  {n \in c..lastSeq :
     /\ Cardinality(UpTo(S, n)) = Smaller(Cardinality(S), PullPage)
     /\ n = c \/ \E i \in S : srv[i].seq = n}

Changes(S) == {[item |-> i, at |-> srv[i].at, tie |-> srv[i].tie] : i \in S}

\* hub::pull: one query under the lock; the page is cut before own versions
\* are left out, and the cursor passes them.
HubPull(t) ==
  LET news == After(cursor[t])
  IN /\ Server = "hub"
     /\ ServerFree
     /\ phase[t] = "pull"
     /\ \E n \in PageEnds(news, cursor[t]) :
          page' = [page EXCEPT ![t] = [changes |-> Changes(UpTo(news, n) \ Own(t)),
                                       next |-> n,
                                       more |-> Cardinality(news) > PullPage]]
     /\ phase' = [phase EXCEPT ![t] = "page"]
     /\ UNCHANGED <<tillVars, batch, reply, serverVars, txn, late, faults, regressed>>

\* sync_pull, first statement: the page, own versions left out.
CloudPage(t) ==
  LET news == After(cursor[t]) \ Own(t)
  IN /\ Server = "cloud"
     /\ ServerFree
     /\ phase[t] = "pull"
     /\ \E n \in PageEnds(news, cursor[t]) :
          page' = [page EXCEPT ![t] = [changes |-> Changes(UpTo(news, n)),
                                       next |-> n,
                                       more |-> Cardinality(news) >= PullPage]]
     /\ phase' = [phase EXCEPT ![t] = "counting"]
     /\ UNCHANGED <<tillVars, batch, reply, serverVars, txn, late, faults, regressed>>

\* sync_pull, second statement: a page that is not full moves the cursor to
\* the greatest seq there is, read from a snapshot of its own.
CloudNext(t) ==
  /\ Server = "cloud"
  /\ ServerFree
  /\ phase[t] = "counting"
  /\ page' = [page EXCEPT ![t].next = IF page[t].more THEN @ ELSE lastSeq]
  /\ phase' = [phase EXCEPT ![t] = "page"]
  /\ UNCHANGED <<tillVars, batch, reply, serverVars, txn, late, faults, regressed>>

\* This till's newest unsent edit of the row, if it has one.
NewestEdit(t, r, q) ==
  /\ q \in queued[t]
  /\ q.item = r
  /\ \A f \in queued[t] : f.item = r => ~Before(q, f)

PulledRowWins(t, c) == FALSE            \* mutant: unsent edits are not looked at
NewerRowWins(t, c) ==                   \* mutant: the event ids are not compared
  /\ \E q \in queued[t] : q.item = c.item
  /\ local[t][c.item].at > c.at

\* apply::local_edit_wins: the row's timestamp with the id of that edit.
LocalEditWins(t, c) ==
  \E q \in queued[t] :
    /\ NewestEdit(t, c.item, q)
    /\ local[t][c.item].at > c.at
         \/ (/\ local[t][c.item].at = c.at
             /\ q.at > c.at \/ (q.at = c.at /\ q.tie > c.tie))

Accepted(t) == {c \in page[t].changes : c.item \in Rows /\ ~LocalEditWins(t, c)}
NewMovements(t) == {c.item : c \in page[t].changes} \ (Rows \cup held[t])

StockNotRecomputed(t, d) ==             \* mutant: movements are only ever added
  IF d \in NewMovements(t) /\ local[t][ProductOf[d]] # NoVersion
  THEN counted[t][d] + 1 ELSE counted[t][d]

\* A row that is taken has its stock recomputed from the movements held; a
\* movement that is new is added to the stock of a product that is there.
StockAfter(t, d) ==
  IF \E c \in Accepted(t) : c.item = ProductOf[d]
  THEN IF d \in held[t] \cup NewMovements(t) THEN 1 ELSE 0
  ELSE IF d \in NewMovements(t) /\ local[t][ProductOf[d]] # NoVersion
       THEN counted[t][d] + 1 ELSE counted[t][d]

RowAfter(t, r) ==
  IF \E c \in Accepted(t) : c.item = r
  THEN Ver(CHOOSE c \in Accepted(t) : c.item = r)
  ELSE local[t][r]

\* The page and the cursor in one transaction.  A round asks for at most
\* MAX_PULL_PAGES pages.
ApplyPage(t) ==
  /\ phase[t] = "page"
  /\ local' = [local EXCEPT ![t] = [r \in Rows |-> RowAfter(t, r)]]
  /\ held' = [held EXCEPT ![t] = @ \cup NewMovements(t)]
  /\ counted' = [counted EXCEPT ![t] = [d \in Deltas |-> StockAfter(t, d)]]
  /\ cursor' = [cursor EXCEPT ![t] = page[t].next]
  /\ \E p \in IF page[t].more THEN {"pull", "idle"} ELSE {"idle"} :
       phase' = [phase EXCEPT ![t] = p]
  /\ page' = [page EXCEPT ![t] = NoPage]
  /\ UNCHANGED <<queued, backoff, sent, parked, batch, reply, serverVars,
                 txn, late, faults, regressed>>

-----------------------------------------------------------------------------
(* A request fails or times out, or the till is switched off: the round is   *)
(* gone, the database stays.  The request may still be on its way.           *)
Fail(t) ==
  /\ faults < MaxFaults
  /\ phase[t] # "idle"
  /\ faults' = faults + 1
  /\ \/ phase[t] = "pushing" /\ late' = [late EXCEPT ![t] = batch[t]]
     \/ UNCHANGED late
  /\ phase' = [phase EXCEPT ![t] = "idle"]
  /\ batch' = [batch EXCEPT ![t] = {}]
  /\ reply' = [reply EXCEPT ![t] = NoReply]
  /\ page' = [page EXCEPT ![t] = NoPage]
  /\ UNCHANGED <<tillVars, serverVars, txn, regressed>>

-----------------------------------------------------------------------------

Round(t) == SendPush(t) \/ EndPush(t) \/ MarkBatch(t)
              \/ HubPull(t) \/ CloudPage(t) \/ CloudNext(t) \/ ApplyPage(t)

ServeEvent == \E e \in txn.todo : AckAgain(e) \/ RefuseEvent(e) \/ ApplyEvent(e)

Next ==
  \/ \E t \in Tills :
       \/ \E r \in Rows, now \in Time, tie \in Ties : SaveRow(t, r, now, tie)
       \/ \E d \in Deltas, now \in Time : MoveStock(t, d, now)
       \/ \E e \in backoff[t] : BackoffOver(t, e)
       \/ Round(t)
       \/ TakeRequest(t)
       \/ TakeLateRequest(t)
       \/ Fail(t)
  \/ ServeEvent
  \/ \E e \in txn.todo : FailEvent(e)
  \/ AnswerPush

Spec == Init /\ [][Next]_vars

(* The worker runs a round every minute and after every change, a request   *)
(* that is not lost is answered, and a back-off ends.                        *)
Fairness ==
  /\ \A t \in Tills : /\ WF_vars(Round(t))
                      /\ WF_vars(TakeRequest(t))
                      /\ WF_vars(\E e \in backoff[t] : BackoffOver(t, e))
  /\ WF_vars(ServeEvent)
  /\ WF_vars(AnswerPush)

FairSpec == Spec /\ Fairness

-----------------------------------------------------------------------------
(* Properties                                                              *)

\* The values the variables take.
TypeOK ==
  /\ local \in [Tills -> [Rows -> Version]]
  /\ held \in [Tills -> SUBSET Deltas]
  /\ counted \in [Tills -> [Deltas -> Nat]]
  /\ queued \in [Tills -> SUBSET Events]
  /\ backoff \in [Tills -> SUBSET Events]
  /\ sent \in [Tills -> SUBSET Events]
  /\ parked \in [Tills -> SUBSET Events]
  /\ cursor \in [Tills -> Nat]
  /\ phase \in [Tills -> Phases]
  /\ batch \in [Tills -> SUBSET Events]
  /\ reply \in [Tills -> [acked : SUBSET Events, refused : SUBSET Events]]
  /\ page \in [Tills -> [changes : SUBSET [item : Items, at : Nat, tie : Nat],
                         next : Nat, more : BOOLEAN]]
  /\ srv \in [Items -> [at : Nat, tie : Nat, seq : Nat, origin : Tills \cup {NoTill}]]
  /\ lastSeq \in Nat
  /\ received \in SUBSET Events
  /\ txn \in [till : Tills \cup {NoTill}, todo : SUBSET Events,
              acked : SUBSET Events, refused : SUBSET Events]
  /\ late \in [Tills -> SUBSET Events]
  /\ faults \in 0..MaxFaults
  /\ regressed \in SUBSET Rows

\* Nothing a till recorded is forgotten before the server has it: an event
\* leaves the outbox as sent only when the server applied it, whatever
\* answers were lost (D27: marked sent only on an explicit acknowledgement).
SentIsReceived == \A t \in Tills : sent[t] \subseteq received

\* The stock cached on a product counts each movement the till holds exactly
\* once, in whatever order product and movements arrive and however often
\* they are delivered (D31).
StockCountedOnce ==
  \A t \in Tills, d \in Deltas :
    local[t][ProductOf[d]] # NoVersion
      => counted[t][d] = IF d \in held[t] THEN 1 ELSE 0

\* A pull never replaces an edit that still waits and beats what was pulled:
\* no unsent edit of a row is newer than the row.
UnsentEditKept ==
  \A t \in Tills : \A q \in queued[t] :
    q.item \in Rows \ regressed => ~Beats(Ver(q), local[t][q.item])

\* A till that has passed the server's version of an item, and has nothing of
\* its own waiting or parked for it, holds exactly that version (D30: tills
\* converge).  Rows saved with a clock that ran back are left out.
NothingWaits(t, i) == \A q \in queued[t] \cup parked[t] : q.item # i
HasPassed(t, i) == srv[i].seq <= cursor[t] \/ srv[i].origin = t
CaughtUp ==
  \A t \in Tills :
    /\ \A r \in Rows \ regressed :
         HasPassed(t, r) /\ NothingWaits(t, r) => local[t][r] = Ver(srv[r])
    /\ \A d \in Deltas :
         HasPassed(t, d) /\ srv[d].seq > 0 => d \in held[t]

\* A till's pull position never moves back, and never past what the server
\* has given out, so nothing is asked for twice or skipped ahead of time.
CursorMovesForward ==
  [][\A t \in Tills : cursor[t] <= cursor'[t] /\ cursor'[t] <= lastSeq']_vars

\* Every recorded event ends up sent or parked, through failed requests, lost
\* answers, back-offs and switch-offs.
EventuallyDelivered ==
  \A t \in Tills : \A e \in Events :
    e \in queued[t] ~> e \in sent[t] \cup parked[t]

\* When the changes stop, every till comes to hold the server's rows and all
\* movements; a row the server refuses holds up no other (D27: a parked event
\* never blocks the queue).
EventuallyAgree ==
  <>[](\A t, u \in Tills :
         /\ \A r \in Rows \ (regressed \cup Refused) : local[t][r] = Ver(srv[r])
         /\ held[t] \ Refused = held[u] \ Refused)

-----------------------------------------------------------------------------
(* What a server promises: its rows are a function of the events it has     *)
(* received, whatever their order and number of deliveries.                 *)

Ledger == INSTANCE EventLedger
  WITH Taken <- Events,
       log <- received,
       version <- [r \in Rows |-> Ver(srv[r])],
       present <- {d \in Deltas : srv[d].seq > 0}

LedgerSpec == Ledger!Spec
=============================================================================
