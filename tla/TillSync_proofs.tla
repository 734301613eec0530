-------------------------- MODULE TillSync_proofs --------------------------
(***************************************************************************)
(* Proofs about TillSync for every value of its constants.                 *)
(***************************************************************************)
EXTENDS TillSyncInv, WellFoundedInduction, TLAPS

USE DEF Items, Time, Ties

-----------------------------------------------------------------------------
(* Types                                                                   *)

\* Initially every variable has its type.
LEMMA InitType == Init => TypeOK
  BY TillsAssumption, BoundsAssumption
  DEF Init, TypeOK, NoVersion, Version, Phases, NoReply, NoPage, NoTxn, Absent

\* The changes made from a set of the server's rows are versions of items.
LEMMA ChangesType ==
  ASSUME TypeOK, NEW S \in SUBSET Items
  PROVE  Changes(S) \in SUBSET [item : Items, at : Nat, tie : Nat]
  BY DEF TypeOK, Changes

\* Every step keeps the types.
LEMMA TypeStep == TypeOK /\ [Next]_vars => TypeOK'
<1> SUFFICES ASSUME TypeOK, [Next]_vars PROVE TypeOK'
  OBVIOUS
<1> USE ItemsAssumption, TillsAssumption, ClockAssumption, BoundsAssumption DEF TypeOK
<1>1. ASSUME NEW t \in Tills, NEW r \in Rows, NEW now \in Time, NEW tie \in Ties,
             SaveRow(t, r, now, tie)
      PROVE  TypeOK'
  BY <1>1 DEF SaveRow, Events, Version, Ver, roundVars, serverVars
<1>2. ASSUME NEW t \in Tills, NEW d \in Deltas, NEW now \in Time, MoveStock(t, d, now)
      PROVE  TypeOK'
  BY <1>2 DEF MoveStock, Events, roundVars, serverVars
<1>3. ASSUME NEW t \in Tills, NEW e \in backoff[t], BackoffOver(t, e)
      PROVE  TypeOK'
  BY <1>3 DEF BackoffOver, roundVars, serverVars
<1>4. ASSUME NEW t \in Tills, SendPush(t) PROVE TypeOK'
  BY <1>4 DEF SendPush, Batches, Due, Phases, tillVars, serverVars
<1>5. ASSUME NEW t \in Tills, EndPush(t) PROVE TypeOK'
  BY <1>5 DEF EndPush, Phases, tillVars, serverVars
<1>6. ASSUME NEW t \in Tills, MarkBatch(t) PROVE TypeOK'
  BY <1>6 DEF MarkBatch, Acked, Rejected, Phases, NoReply, serverVars
<1>7. ASSUME NEW t \in Tills, HubPull(t) PROVE TypeOK'
<2> DEFINE news == After(cursor[t])
<2>1. PICK n \in PageEnds(news, cursor[t]) :
        page' = [page EXCEPT ![t] = [changes |-> Changes(UpTo(news, n) \ Own(t)),
                                     next |-> n,
                                     more |-> Cardinality(news) > PullPage]]
  BY <1>7 DEF HubPull
<2>2. UpTo(news, n) \ Own(t) \in SUBSET Items
  BY DEF UpTo, After
<2>3. n \in Nat
  BY DEF PageEnds
<2>4. page' \in [Tills -> [changes : SUBSET [item : Items, at : Nat, tie : Nat],
                          next : Nat, more : BOOLEAN]]
  <3>1. Changes(UpTo(news, n) \ Own(t)) \in SUBSET [item : Items, at : Nat, tie : Nat]
    BY <2>2, ChangesType
  <3>2. (Cardinality(news) > PullPage) \in BOOLEAN
    OBVIOUS
  <3> HIDE DEF news
  <3>3. QED
    BY <2>1, <2>3, <3>1, <3>2
<2>5. QED
  BY <1>7, <2>4 DEF HubPull, Phases, tillVars, serverVars
<1>8. ASSUME NEW t \in Tills, CloudPage(t) PROVE TypeOK'
<2> DEFINE news == After(cursor[t]) \ Own(t)
<2>1. PICK n \in PageEnds(news, cursor[t]) :
        page' = [page EXCEPT ![t] = [changes |-> Changes(UpTo(news, n)),
                                     next |-> n,
                                     more |-> Cardinality(news) >= PullPage]]
  BY <1>8 DEF CloudPage
<2>2. UpTo(news, n) \in SUBSET Items
  BY DEF UpTo, After
<2>3. n \in Nat
  BY DEF PageEnds
<2>4. page' \in [Tills -> [changes : SUBSET [item : Items, at : Nat, tie : Nat],
                          next : Nat, more : BOOLEAN]]
  <3>1. Changes(UpTo(news, n)) \in SUBSET [item : Items, at : Nat, tie : Nat]
    BY <2>2, ChangesType
  <3>2. (Cardinality(news) >= PullPage) \in BOOLEAN
    OBVIOUS
  <3> HIDE DEF news
  <3>3. QED
    BY <2>1, <2>3, <3>1, <3>2
<2>5. QED
  BY <1>8, <2>4 DEF CloudPage, Phases, tillVars, serverVars
<1>9. ASSUME NEW t \in Tills, CloudNext(t) PROVE TypeOK'
<2>1. page' \in [Tills -> [changes : SUBSET [item : Items, at : Nat, tie : Nat],
                          next : Nat, more : BOOLEAN]]
  <3>1. page[t] \in [changes : SUBSET [item : Items, at : Nat, tie : Nat],
                    next : Nat, more : BOOLEAN]
    OBVIOUS
  <3>2. (IF page[t].more THEN page[t].next ELSE lastSeq) \in Nat
    BY <3>1
  <3>3. QED
    BY <1>9, <3>1, <3>2 DEF CloudNext
<2>2. QED
  BY <1>9, <2>1 DEF CloudNext, Phases, tillVars, serverVars
<1>10. ASSUME NEW t \in Tills, ApplyPage(t) PROVE TypeOK'
<2>1. page[t].changes \in SUBSET [item : Items, at : Nat, tie : Nat] /\ page[t].next \in Nat
  OBVIOUS
<2>2. local' \in [Tills -> [Rows -> Version]]
  <3> DEFINE row == [r \in Rows |-> RowAfter(t, r)]
  <3>1. \A c \in Accepted(t) : Ver(c) \in Version
    BY <2>1 DEF Ver, Version, Accepted
  <3>2. ASSUME NEW r \in Rows, \E c \in Accepted(t) : c.item = r
        PROVE  (CHOOSE c \in Accepted(t) : c.item = r) \in Accepted(t)
    BY <3>2
  <3>3. row \in [Rows -> Version]
    BY <3>1, <3>2 DEF RowAfter
  <3>4. local' = [local EXCEPT ![t] = row]
    BY <1>10 DEF ApplyPage
  <3> HIDE DEF row
  <3>5. QED
    BY <3>3, <3>4
<2>3. held' \in [Tills -> SUBSET Deltas]
  <3>1. \A c \in page[t].changes : c.item \in Rows \cup Deltas
    BY <2>1
  <3>2. ({c.item : c \in page[t].changes} \ (Rows \cup held[t])) \in SUBSET Deltas
    BY <3>1
  <3>3. QED
    BY <1>10, <3>2 DEF ApplyPage, NewMovements
<2>4. counted' \in [Tills -> [Deltas -> Nat]]
  BY <1>10 DEF ApplyPage, StockAfter
<2>5. page' \in [Tills -> [changes : SUBSET [item : Items, at : Nat, tie : Nat],
                          next : Nat, more : BOOLEAN]]
  BY <1>10 DEF ApplyPage, NoPage
<2>6. cursor' \in [Tills -> Nat]
  BY <1>10, <2>1 DEF ApplyPage
<2>7. phase' \in [Tills -> Phases]
  BY <1>10 DEF ApplyPage, Phases
<2>8. QED
  BY <1>10, <2>2, <2>3, <2>4, <2>5, <2>6, <2>7 DEF ApplyPage, serverVars
<1>11. ASSUME NEW t \in Tills, TakeRequest(t) \/ TakeLateRequest(t) PROVE TypeOK'
<2>1. txn' \in [till : Tills \cup {NoTill}, todo : SUBSET Events,
                acked : SUBSET Events, refused : SUBSET Events]
  BY <1>11 DEF TakeRequest, TakeLateRequest, NoTxn
<2>2. CASE TakeRequest(t)
  BY <2>1, <2>2 DEF TakeRequest, Phases, tillVars, serverVars
<2>3. CASE TakeLateRequest(t)
  BY <2>1, <2>3 DEF TakeLateRequest, tillVars, roundVars, serverVars
<2>4. QED
  BY <1>11, <2>2, <2>3
<1>12. ASSUME NEW t \in Tills, Fail(t) PROVE TypeOK'
<2>1. late' \in [Tills -> SUBSET Events]
  BY <1>12 DEF Fail
<2>2. reply' \in [Tills -> [acked : SUBSET Events, refused : SUBSET Events]]
  BY <1>12 DEF Fail, NoReply
<2>3. page' \in [Tills -> [changes : SUBSET [item : Items, at : Nat, tie : Nat],
                          next : Nat, more : BOOLEAN]]
  BY <1>12 DEF Fail, NoPage
<2>4. batch' \in [Tills -> SUBSET Events] /\ phase' \in [Tills -> Phases] /\ faults' \in 0..MaxFaults
  BY <1>12 DEF Fail, Phases
<2>5. QED
  BY <1>12, <2>1, <2>2, <2>3, <2>4 DEF Fail, tillVars, serverVars
<1>13. ASSUME NEW e \in txn.todo, AckAgain(e) \/ RefuseEvent(e) \/ FailEvent(e) PROVE TypeOK'
<2>1. txn' \in [till : Tills \cup {NoTill}, todo : SUBSET Events,
                acked : SUBSET Events, refused : SUBSET Events]
  <3>1. e \in Events
    OBVIOUS
  <3>2. CASE txn' = [txn EXCEPT !.todo = @ \ {e}, !.acked = @ \cup {e}]
    BY <3>1, <3>2
  <3>3. CASE txn' = [txn EXCEPT !.todo = @ \ {e}, !.refused = @ \cup {e}]
    BY <3>1, <3>3
  <3>4. CASE txn' = [txn EXCEPT !.todo = @ \ {e}]
    BY <3>4
  <3>5. QED
    BY <1>13, <3>2, <3>3, <3>4 DEF AckAgain, RefuseEvent, FailEvent
<2>2. faults' \in 0..MaxFaults
  BY <1>13 DEF AckAgain, RefuseEvent, FailEvent
<2>3. UNCHANGED <<tillVars, roundVars, serverVars, late, regressed>>
  BY <1>13 DEF AckAgain, RefuseEvent, FailEvent
<2>4. QED
  BY <2>1, <2>2, <2>3 DEF tillVars, roundVars, serverVars
<1>14. ASSUME NEW e \in txn.todo, ApplyEvent(e) PROVE TypeOK'
<2>1. txn' \in [till : Tills \cup {NoTill}, todo : SUBSET Events,
                acked : SUBSET Events, refused : SUBSET Events]
  <3>1. e \in Events /\ txn' = [txn EXCEPT !.todo = @ \ {e}, !.acked = @ \cup {e}]
    BY <1>14 DEF ApplyEvent
  <3>2. QED
    BY <3>1
<2>2. e.item \in Items /\ e.at \in Nat /\ e.tie \in Nat /\ e \in Events /\ txn.till \in Tills \cup {NoTill}
  BY DEF Events
<2>3. srv' \in [Items -> [at : Nat, tie : Nat, seq : Nat, origin : Tills \cup {NoTill}]]
  <3> DEFINE row == [at |-> e.at, tie |-> e.tie, seq |-> lastSeq + 1, origin |-> txn.till]
  <3>1. row \in [at : Nat, tie : Nat, seq : Nat, origin : Tills \cup {NoTill}]
    BY <2>2
  <3>2. srv' = srv \/ srv' = [srv EXCEPT ![e.item] = row]
    BY <1>14 DEF ApplyEvent
  <3> HIDE DEF row
  <3>3. QED
    BY <2>2, <3>1, <3>2
<2>4. lastSeq' \in Nat
  <3>1. lastSeq' = lastSeq \/ lastSeq' = lastSeq + 1
    BY <1>14 DEF ApplyEvent
  <3>2. QED
    BY <3>1
<2>6. received' \in SUBSET Events
  BY <1>14, <2>2 DEF ApplyEvent
<2>5. QED
  BY <1>14, <2>1, <2>3, <2>4, <2>6 DEF ApplyEvent, tillVars, roundVars
<1>15. CASE AnswerPush
<2>1. txn' \in [till : Tills \cup {NoTill}, todo : SUBSET Events,
                acked : SUBSET Events, refused : SUBSET Events]
  BY <1>15 DEF AnswerPush, NoTxn
<2>2. phase' \in [Tills -> Phases]
  <3>1. phase' = phase \/ phase' = [phase EXCEPT ![txn.till] = "answered"]
    BY <1>15 DEF AnswerPush
  <3>2. "answered" \in Phases
    BY DEF Phases
  <3>3. QED
    BY <3>1, <3>2
<2>3. reply' \in [Tills -> [acked : SUBSET Events, refused : SUBSET Events]]
  <3>1. [acked |-> txn.acked, refused |-> txn.refused] \in [acked : SUBSET Events, refused : SUBSET Events]
    OBVIOUS
  <3>2. QED
    BY <1>15, <3>1 DEF AnswerPush
<2>4. QED
  BY <1>15, <2>1, <2>2, <2>3 DEF AnswerPush, tillVars, serverVars
<1>16. CASE UNCHANGED vars
  BY <1>16 DEF vars, tillVars, roundVars, serverVars
<1>17. QED
  BY <1>1, <1>2, <1>3, <1>4, <1>5, <1>6, <1>7, <1>8, <1>9, <1>10, <1>11, <1>12,
     <1>13, <1>14, <1>15, <1>16
  DEF Next, Round, ServeEvent

-----------------------------------------------------------------------------
(* Requests, answers and the outbox                                        *)

\* An acknowledgement is for an applied event, also after a step.
LEMMA AcksStep == TypeOK /\ AcksAreReceived /\ [Next]_vars => AcksAreReceived'
<1> SUFFICES ASSUME TypeOK /\ AcksAreReceived, [Next]_vars PROVE AcksAreReceived'
  OBVIOUS
<1> USE DEF TypeOK, AcksAreReceived
<1>1. ASSUME NEW t \in Tills, NEW r \in Rows, NEW now \in Time, NEW tie \in Ties,
             SaveRow(t, r, now, tie)
      PROVE  AcksAreReceived'
  BY <1>1 DEF SaveRow, roundVars, serverVars
<1>2. ASSUME NEW t \in Tills, NEW d \in Deltas, NEW now \in Time, MoveStock(t, d, now)
      PROVE  AcksAreReceived'
  BY <1>2 DEF MoveStock, roundVars, serverVars
<1>3. ASSUME NEW t \in Tills, NEW e \in backoff[t], BackoffOver(t, e)
      PROVE  AcksAreReceived'
  BY <1>3 DEF BackoffOver, roundVars, serverVars
<1>4. ASSUME NEW t \in Tills, SendPush(t) PROVE AcksAreReceived'
  BY <1>4 DEF SendPush, tillVars, serverVars
<1>5. ASSUME NEW t \in Tills, EndPush(t) PROVE AcksAreReceived'
  BY <1>5 DEF EndPush, tillVars, serverVars
<1>6. ASSUME NEW t \in Tills, MarkBatch(t) PROVE AcksAreReceived'
  BY <1>6 DEF MarkBatch, Acked, Rejected, serverVars, NoReply
<1>7. ASSUME NEW t \in Tills, HubPull(t) PROVE AcksAreReceived'
  BY <1>7 DEF HubPull, tillVars, serverVars
<1>8. ASSUME NEW t \in Tills, CloudPage(t) PROVE AcksAreReceived'
  BY <1>8 DEF CloudPage, tillVars, serverVars
<1>9. ASSUME NEW t \in Tills, CloudNext(t) PROVE AcksAreReceived'
  BY <1>9 DEF CloudNext, tillVars, serverVars
<1>10. ASSUME NEW t \in Tills, ApplyPage(t) PROVE AcksAreReceived'
  BY <1>10 DEF ApplyPage, serverVars
<1>11. ASSUME NEW t \in Tills, TakeRequest(t) PROVE AcksAreReceived'
  BY <1>11 DEF TakeRequest, tillVars, serverVars, NoTxn
<1>12. ASSUME NEW t \in Tills, TakeLateRequest(t) PROVE AcksAreReceived'
  BY <1>12 DEF TakeLateRequest, tillVars, roundVars, serverVars, NoTxn
<1>13. ASSUME NEW t \in Tills, Fail(t) PROVE AcksAreReceived'
  BY <1>13 DEF Fail, tillVars, serverVars, NoReply
<1>14. ASSUME NEW e \in txn.todo, AckAgain(e) PROVE AcksAreReceived'
  BY <1>14 DEF AckAgain, tillVars, roundVars, serverVars
<1>15. ASSUME NEW e \in txn.todo, RefuseEvent(e) PROVE AcksAreReceived'
  BY <1>15 DEF RefuseEvent, tillVars, roundVars, serverVars
<1>16. ASSUME NEW e \in txn.todo, FailEvent(e) PROVE AcksAreReceived'
  BY <1>16 DEF FailEvent, tillVars, roundVars, serverVars
<1>17. ASSUME NEW e \in txn.todo, ApplyEvent(e) PROVE AcksAreReceived'
  BY <1>17 DEF ApplyEvent, tillVars, roundVars
<1>18. CASE AnswerPush
<2>1. txn' = NoTxn /\ UNCHANGED <<received, sent, parked>>
  BY <1>18 DEF AnswerPush, tillVars, serverVars
<2>2. \A u \in Tills : reply'[u] = reply[u] \/ reply'[u] = [acked |-> txn.acked, refused |-> txn.refused]
  BY <1>18 DEF AnswerPush
<2>3. ASSUME NEW u \in Tills PROVE reply'[u].acked \subseteq reply[u].acked \cup txn.acked
  <3>1. CASE reply'[u] = reply[u]
    BY <3>1
  <3>2. CASE reply'[u] = [acked |-> txn.acked, refused |-> txn.refused]
    BY <3>2
  <3>3. QED
    BY <2>2, <3>1, <3>2
<2>4. QED
  BY <2>1, <2>3 DEF NoTxn
<1>19. CASE UNCHANGED vars
  BY <1>19 DEF vars, tillVars, roundVars, serverVars
<1>20. QED
  BY <1>1, <1>2, <1>3, <1>4, <1>5, <1>6, <1>7, <1>8, <1>9, <1>10,
     <1>11, <1>12, <1>13, <1>14, <1>15, <1>16, <1>17, <1>18, <1>19
  DEF Next, Round, ServeEvent

\* A parked event is of a refused item, also after a step.
LEMMA ParkedStep == TypeOK /\ OnlyRefusedParked /\ [Next]_vars => OnlyRefusedParked'
<1> SUFFICES ASSUME TypeOK /\ OnlyRefusedParked, [Next]_vars PROVE OnlyRefusedParked'
  OBVIOUS
<1> USE DEF TypeOK, OnlyRefusedParked
<1>1. ASSUME NEW t \in Tills, NEW r \in Rows, NEW now \in Time, NEW tie \in Ties,
             SaveRow(t, r, now, tie)
      PROVE  OnlyRefusedParked'
  BY <1>1 DEF SaveRow, roundVars, serverVars
<1>2. ASSUME NEW t \in Tills, NEW d \in Deltas, NEW now \in Time, MoveStock(t, d, now)
      PROVE  OnlyRefusedParked'
  BY <1>2 DEF MoveStock, roundVars, serverVars
<1>3. ASSUME NEW t \in Tills, NEW e \in backoff[t], BackoffOver(t, e)
      PROVE  OnlyRefusedParked'
  BY <1>3 DEF BackoffOver, roundVars, serverVars
<1>4. ASSUME NEW t \in Tills, SendPush(t) PROVE OnlyRefusedParked'
  BY <1>4 DEF SendPush, tillVars, serverVars
<1>5. ASSUME NEW t \in Tills, EndPush(t) PROVE OnlyRefusedParked'
  BY <1>5 DEF EndPush, tillVars, serverVars
<1>6. ASSUME NEW t \in Tills, MarkBatch(t) PROVE OnlyRefusedParked'
  BY <1>6 DEF MarkBatch, Acked, Rejected, serverVars, NoReply
<1>7. ASSUME NEW t \in Tills, HubPull(t) PROVE OnlyRefusedParked'
  BY <1>7 DEF HubPull, tillVars, serverVars
<1>8. ASSUME NEW t \in Tills, CloudPage(t) PROVE OnlyRefusedParked'
  BY <1>8 DEF CloudPage, tillVars, serverVars
<1>9. ASSUME NEW t \in Tills, CloudNext(t) PROVE OnlyRefusedParked'
  BY <1>9 DEF CloudNext, tillVars, serverVars
<1>10. ASSUME NEW t \in Tills, ApplyPage(t) PROVE OnlyRefusedParked'
  BY <1>10 DEF ApplyPage, serverVars
<1>11. ASSUME NEW t \in Tills, TakeRequest(t) PROVE OnlyRefusedParked'
  BY <1>11 DEF TakeRequest, tillVars, serverVars, NoTxn
<1>12. ASSUME NEW t \in Tills, TakeLateRequest(t) PROVE OnlyRefusedParked'
  BY <1>12 DEF TakeLateRequest, tillVars, roundVars, serverVars, NoTxn
<1>13. ASSUME NEW t \in Tills, Fail(t) PROVE OnlyRefusedParked'
  BY <1>13 DEF Fail, tillVars, serverVars, NoReply
<1>14. ASSUME NEW e \in txn.todo, AckAgain(e) PROVE OnlyRefusedParked'
  BY <1>14 DEF AckAgain, tillVars, roundVars, serverVars
<1>15. ASSUME NEW e \in txn.todo, RefuseEvent(e) PROVE OnlyRefusedParked'
  BY <1>15 DEF RefuseEvent, tillVars, roundVars, serverVars
<1>16. ASSUME NEW e \in txn.todo, FailEvent(e) PROVE OnlyRefusedParked'
  BY <1>16 DEF FailEvent, tillVars, roundVars, serverVars
<1>17. ASSUME NEW e \in txn.todo, ApplyEvent(e) PROVE OnlyRefusedParked'
  BY <1>17 DEF ApplyEvent, tillVars, roundVars
<1>18. CASE AnswerPush
<2>1. txn' = NoTxn /\ UNCHANGED <<received, sent, parked>>
  BY <1>18 DEF AnswerPush, tillVars, serverVars
<2>2. \A u \in Tills : reply'[u] = reply[u] \/ reply'[u] = [acked |-> txn.acked, refused |-> txn.refused]
  BY <1>18 DEF AnswerPush
<2>3. ASSUME NEW u \in Tills PROVE reply'[u].refused \subseteq reply[u].refused \cup txn.refused
  <3>1. CASE reply'[u] = reply[u]
    BY <3>1
  <3>2. CASE reply'[u] = [acked |-> txn.acked, refused |-> txn.refused]
    BY <3>2
  <3>3. QED
    BY <2>2, <3>1, <3>2
<2>4. QED
  BY <2>1, <2>3 DEF NoTxn
<1>19. CASE UNCHANGED vars
  BY <1>19 DEF vars, tillVars, roundVars, serverVars
<1>20. QED
  BY <1>1, <1>2, <1>3, <1>4, <1>5, <1>6, <1>7, <1>8, <1>9, <1>10,
     <1>11, <1>12, <1>13, <1>14, <1>15, <1>16, <1>17, <1>18, <1>19
  DEF Next, Round, ServeEvent

\* Requests carry recorded events, also after a step.
LEMMA RequestsStep == TypeOK /\ RequestsAreRecorded /\ [Next]_vars => RequestsAreRecorded'
<1> SUFFICES ASSUME TypeOK /\ RequestsAreRecorded, [Next]_vars PROVE RequestsAreRecorded'
  OBVIOUS
<1> USE DEF TypeOK, RequestsAreRecorded, Recorded
<1>1. ASSUME NEW t \in Tills, NEW r \in Rows, NEW now \in Time, NEW tie \in Ties,
             SaveRow(t, r, now, tie)
      PROVE  RequestsAreRecorded'
  BY <1>1 DEF SaveRow, roundVars, serverVars
<1>2. ASSUME NEW t \in Tills, NEW d \in Deltas, NEW now \in Time, MoveStock(t, d, now)
      PROVE  RequestsAreRecorded'
  BY <1>2 DEF MoveStock, roundVars, serverVars
<1>3. ASSUME NEW t \in Tills, NEW e \in backoff[t], BackoffOver(t, e)
      PROVE  RequestsAreRecorded'
  BY <1>3 DEF BackoffOver, roundVars, serverVars
<1>4. ASSUME NEW t \in Tills, SendPush(t) PROVE RequestsAreRecorded'
  BY <1>4 DEF SendPush, tillVars, serverVars, Batches, Due
<1>5. ASSUME NEW t \in Tills, EndPush(t) PROVE RequestsAreRecorded'
  BY <1>5 DEF EndPush, tillVars, serverVars
<1>6. ASSUME NEW t \in Tills, MarkBatch(t) PROVE RequestsAreRecorded'
  BY <1>6 DEF MarkBatch, serverVars, NoReply
<1>7. ASSUME NEW t \in Tills, HubPull(t) PROVE RequestsAreRecorded'
  BY <1>7 DEF HubPull, tillVars, serverVars
<1>8. ASSUME NEW t \in Tills, CloudPage(t) PROVE RequestsAreRecorded'
  BY <1>8 DEF CloudPage, tillVars, serverVars
<1>9. ASSUME NEW t \in Tills, CloudNext(t) PROVE RequestsAreRecorded'
  BY <1>9 DEF CloudNext, tillVars, serverVars
<1>10. ASSUME NEW t \in Tills, ApplyPage(t) PROVE RequestsAreRecorded'
  BY <1>10 DEF ApplyPage, serverVars
<1>11. ASSUME NEW t \in Tills, TakeRequest(t) PROVE RequestsAreRecorded'
  BY <1>11 DEF TakeRequest, tillVars, serverVars, NoTxn
<1>12. ASSUME NEW t \in Tills, TakeLateRequest(t) PROVE RequestsAreRecorded'
  BY <1>12 DEF TakeLateRequest, tillVars, roundVars, serverVars, NoTxn
<1>13. ASSUME NEW t \in Tills, Fail(t) PROVE RequestsAreRecorded'
  BY <1>13 DEF Fail, tillVars, serverVars
<1>14. ASSUME NEW e \in txn.todo, AckAgain(e) PROVE RequestsAreRecorded'
<2>1. txn.till \in Tills /\ e \in Recorded(txn.till)
  BY DEF NoTxn
<2>2. txn'.till = txn.till /\ txn'.todo = txn.todo \ {e}
  BY <1>14 DEF AckAgain
<2>3. UNCHANGED <<queued, sent, parked, batch, late>> /\ received' \subseteq received \cup {e}
  BY <1>14 DEF AckAgain, tillVars, roundVars, serverVars
<2>4. txn' = NoTxn \/ txn'.till \in Tills
  BY <2>1, <2>2
<2>5. txn'.todo \subseteq Recorded(txn.till)'
  BY <2>1, <2>2, <2>3
<2>6. \A u \in Tills : batch'[u] \cup late'[u] \subseteq Recorded(u)'
  BY <2>3
<2>7. \A f \in received' : \E t \in Tills : f \in Recorded(t)'
  BY <2>1, <2>3
<2>8. QED
  BY <2>4, <2>5, <2>6, <2>7
<1>15. ASSUME NEW e \in txn.todo, RefuseEvent(e) PROVE RequestsAreRecorded'
<2>1. txn.till \in Tills /\ e \in Recorded(txn.till)
  BY DEF NoTxn
<2>2. txn'.till = txn.till /\ txn'.todo = txn.todo \ {e}
  BY <1>15 DEF RefuseEvent
<2>3. UNCHANGED <<queued, sent, parked, batch, late>> /\ received' \subseteq received \cup {e}
  BY <1>15 DEF RefuseEvent, tillVars, roundVars, serverVars
<2>4. txn' = NoTxn \/ txn'.till \in Tills
  BY <2>1, <2>2
<2>5. txn'.todo \subseteq Recorded(txn.till)'
  BY <2>1, <2>2, <2>3
<2>6. \A u \in Tills : batch'[u] \cup late'[u] \subseteq Recorded(u)'
  BY <2>3
<2>7. \A f \in received' : \E t \in Tills : f \in Recorded(t)'
  BY <2>1, <2>3
<2>8. QED
  BY <2>4, <2>5, <2>6, <2>7
<1>16. ASSUME NEW e \in txn.todo, FailEvent(e) PROVE RequestsAreRecorded'
<2>1. txn.till \in Tills /\ e \in Recorded(txn.till)
  BY DEF NoTxn
<2>2. txn'.till = txn.till /\ txn'.todo = txn.todo \ {e}
  BY <1>16 DEF FailEvent
<2>3. UNCHANGED <<queued, sent, parked, batch, late>> /\ received' \subseteq received \cup {e}
  BY <1>16 DEF FailEvent, tillVars, roundVars, serverVars
<2>4. txn' = NoTxn \/ txn'.till \in Tills
  BY <2>1, <2>2
<2>5. txn'.todo \subseteq Recorded(txn.till)'
  BY <2>1, <2>2, <2>3
<2>6. \A u \in Tills : batch'[u] \cup late'[u] \subseteq Recorded(u)'
  BY <2>3
<2>7. \A f \in received' : \E t \in Tills : f \in Recorded(t)'
  BY <2>1, <2>3
<2>8. QED
  BY <2>4, <2>5, <2>6, <2>7
<1>17. ASSUME NEW e \in txn.todo, ApplyEvent(e) PROVE RequestsAreRecorded'
<2>1. txn.till \in Tills /\ e \in Recorded(txn.till)
  BY DEF NoTxn
<2>2. txn'.till = txn.till /\ txn'.todo = txn.todo \ {e}
  BY <1>17 DEF ApplyEvent
<2>3. UNCHANGED <<queued, sent, parked, batch, late>> /\ received' \subseteq received \cup {e}
  BY <1>17 DEF ApplyEvent, tillVars, roundVars
<2>4. txn' = NoTxn \/ txn'.till \in Tills
  BY <2>1, <2>2
<2>5. txn'.todo \subseteq Recorded(txn.till)'
  BY <2>1, <2>2, <2>3
<2>6. \A u \in Tills : batch'[u] \cup late'[u] \subseteq Recorded(u)'
  BY <2>3
<2>7. \A f \in received' : \E t \in Tills : f \in Recorded(t)'
  BY <2>1, <2>3
<2>8. QED
  BY <2>4, <2>5, <2>6, <2>7
<1>18. CASE AnswerPush
  BY <1>18 DEF AnswerPush, tillVars, serverVars, NoTxn
<1>19. CASE UNCHANGED vars
  BY <1>19 DEF vars, tillVars, roundVars, serverVars
<1>20. QED
  BY <1>1, <1>2, <1>3, <1>4, <1>5, <1>6, <1>7, <1>8, <1>9, <1>10,
     <1>11, <1>12, <1>13, <1>14, <1>15, <1>16, <1>17, <1>18, <1>19
  DEF Next, Round, ServeEvent

-----------------------------------------------------------------------------
(* What applying a page does                                               *)

\* Each row keeps its version, when a local edit beats what the page brings,
\* or takes a version of the page; movements are added; the cursor moves.
LEMMA ApplyEffect ==
  ASSUME TypeOK, NEW t \in Tills, ApplyPage(t)
  PROVE  /\ \A r \in Rows :
              \/ /\ local'[t][r] = local[t][r]
                 /\ \A c \in page[t].changes : c.item = r => LocalEditWins(t, c)
              \/ \E c \in page[t].changes :
                    c.item = r /\ ~LocalEditWins(t, c) /\ local'[t][r] = Ver(c)
         /\ held'[t] = held[t] \cup ({c.item : c \in page[t].changes} \cap Deltas)
         /\ cursor'[t] = page[t].next
         /\ \A u \in Tills \ {t} : /\ local'[u] = local[u]
                                   /\ held'[u] = held[u]
                                   /\ counted'[u] = counted[u]
                                   /\ cursor'[u] = cursor[u]
<1> DEFINE row == [r \in Rows |-> RowAfter(t, r)]
<1>1. local' = [local EXCEPT ![t] = row]
  BY DEF ApplyPage
<1>2. local'[t] = row /\ \A u \in Tills \ {t} : local'[u] = local[u]
  <2> HIDE DEF row
  <2> QED BY <1>1 DEF TypeOK
<1>3. ASSUME NEW r \in Rows
      PROVE  \/ /\ local'[t][r] = local[t][r]
                /\ \A c \in page[t].changes : c.item = r => LocalEditWins(t, c)
             \/ \E c \in page[t].changes :
                   c.item = r /\ ~LocalEditWins(t, c) /\ local'[t][r] = Ver(c)
  <2>1. CASE \E c \in Accepted(t) : c.item = r
    <3>1. PICK d \in Accepted(t) : d = CHOOSE c \in Accepted(t) : c.item = r
      BY <2>1
    <3>2. d.item = r
      BY <2>1, <3>1
    <3>3. local'[t][r] = Ver(d)
      BY <1>2, <2>1, <3>1 DEF RowAfter
    <3>4. QED
      BY <3>2, <3>3 DEF Accepted
  <2>2. CASE ~\E c \in Accepted(t) : c.item = r
    BY <1>2, <2>2 DEF RowAfter, Accepted
  <2>3. QED
    BY <2>1, <2>2
<1>4. held'[t] = held[t] \cup ({c.item : c \in page[t].changes} \cap Deltas)
  <2>1. held' = [held EXCEPT ![t] = @ \cup ({c.item : c \in page[t].changes} \ (Rows \cup held[t]))]
    BY DEF ApplyPage, NewMovements
  <2>2. \A c \in page[t].changes : c.item \in Rows \cup Deltas
    BY DEF TypeOK
  <2>3. ({c.item : c \in page[t].changes} \ (Rows \cup held[t])) \cup held[t]
          = ({c.item : c \in page[t].changes} \cap Deltas) \cup held[t]
    BY <2>2, ItemsAssumption DEF TypeOK
  <2>4. QED
    BY <2>1, <2>3 DEF TypeOK
<1>5. cursor'[t] = page[t].next /\ \A u \in Tills \ {t} : cursor'[u] = cursor[u]
  BY DEF ApplyPage, TypeOK
<1>6. \A u \in Tills \ {t} : held'[u] = held[u] /\ counted'[u] = counted[u]
  BY DEF ApplyPage, TypeOK
<1>7. QED
  BY <1>2, <1>3, <1>4, <1>5, <1>6

-----------------------------------------------------------------------------
(* Rows, movements and stock at a till                                     *)

\* An event is of an item and carries the version of a row that is there.
LEMMA EventFacts ==
  \A e \in Events : /\ e.item \in Items
                    /\ e.at \in Nat /\ e.at > 0 /\ e.tie \in Nat
                    /\ Ver(e) \in Version /\ Ver(e) # NoVersion
  BY ClockAssumption DEF Events, Ver, Version, NoVersion

\* Only saving a row and applying a page write rows; only they and recording
\* a movement write movements and stock.
LEMMA TillWrites ==
  ASSUME [Next]_vars
  PROVE  \/ \E t \in Tills, r \in Rows, now \in Time, tie \in Ties : SaveRow(t, r, now, tie)
         \/ \E t \in Tills, d \in Deltas, now \in Time : MoveStock(t, d, now)
         \/ \E t \in Tills : ApplyPage(t)
         \/ UNCHANGED <<local, held, counted>>
  BY DEF Next, Round, ServeEvent, BackoffOver, SendPush, EndPush, MarkBatch, HubPull,
     CloudPage, CloudNext, TakeRequest, TakeLateRequest, Fail, AckAgain, RefuseEvent,
     FailEvent, ApplyEvent, AnswerPush, vars, tillVars

\* A row that is there stays there (a deletion is an edit).
LEMMA RowsStay ==
  ASSUME TypeOK, PageIsReceived, [Next]_vars,
         NEW u \in Tills, NEW q \in Rows, local[u][q] # NoVersion
  PROVE  local'[u][q] # NoVersion
<1>1. ASSUME NEW t \in Tills, NEW r \in Rows, NEW now \in Time, NEW tie \in Ties,
             SaveRow(t, r, now, tie)
      PROVE  local'[u][q] # NoVersion
  BY <1>1 DEF SaveRow, Ver, NoVersion, TypeOK
<1>2. ASSUME NEW t \in Tills, ApplyPage(t) PROVE local'[u][q] # NoVersion
  <2>1. \A c \in page[t].changes : Ver(c) # NoVersion
    BY EventFacts DEF PageIsReceived, TypeOK
  <2>2. CASE u = t
    BY <1>2, <2>1, <2>2, ApplyEffect
  <2>3. CASE u # t
    BY <1>2, <2>3, ApplyEffect
  <2>4. QED
    BY <2>2, <2>3
<1>3. QED
  BY <1>1, <1>2, TillWrites DEF MoveStock

\* Only three actions write the outbox.
LEMMA OutboxWrites ==
  ASSUME [Next]_vars
  PROVE  \/ \E t \in Tills, r \in Rows, now \in Time, tie \in Ties : SaveRow(t, r, now, tie)
         \/ \E t \in Tills, d \in Deltas, now \in Time : MoveStock(t, d, now)
         \/ \E t \in Tills : MarkBatch(t)
         \/ UNCHANGED <<queued, sent, parked>>
  BY DEF Next, Round, ServeEvent, BackoffOver, SendPush, EndPush, ApplyPage, HubPull,
     CloudPage, CloudNext, TakeRequest, TakeLateRequest, Fail, AckAgain, RefuseEvent,
     FailEvent, ApplyEvent, AnswerPush, vars, tillVars

\* Marking a batch moves events within the outbox.
LEMMA MarkKeepsRecorded ==
  ASSUME TypeOK, RequestsAreRecorded, NEW t \in Tills, MarkBatch(t), NEW u \in Tills
  PROVE  Recorded(u)' = Recorded(u)
<1>1. batch[t] \subseteq Recorded(t)
  BY DEF RequestsAreRecorded
<1>2. QED
  BY <1>1 DEF MarkBatch, Acked, Rejected, Recorded, TypeOK

\* What is recorded stays recorded.
LEMMA RecordedStays ==
  ASSUME TypeOK, RequestsAreRecorded, [Next]_vars, NEW u \in Tills
  PROVE  Recorded(u) \subseteq Recorded(u)'
<1>1. ASSUME NEW t \in Tills, NEW r \in Rows, NEW now \in Time, NEW tie \in Ties,
             SaveRow(t, r, now, tie)
      PROVE  Recorded(u) \subseteq Recorded(u)'
  BY <1>1 DEF SaveRow, Recorded, TypeOK
<1>2. ASSUME NEW t \in Tills, NEW d \in Deltas, NEW now \in Time, MoveStock(t, d, now)
      PROVE  Recorded(u) \subseteq Recorded(u)'
  BY <1>2 DEF MoveStock, Recorded, TypeOK
<1>3. ASSUME NEW t \in Tills, MarkBatch(t) PROVE Recorded(u) \subseteq Recorded(u)'
  BY <1>3, MarkKeepsRecorded
<1>4. CASE UNCHANGED <<queued, sent, parked>>
  BY <1>4 DEF Recorded
<1>5. QED
  BY <1>1, <1>2, <1>3, <1>4, OutboxWrites

\* Movements recorded at a till are held by it, of products that exist.
LEMMA HeldStep ==
  ASSUME TypeOK, RequestsAreRecorded, RecordedIsHeld, PageIsReceived, [Next]_vars
  PROVE  RecordedIsHeld'
<1> USE DEF TypeOK
<1>1. ASSUME NEW u \in Tills PROVE held[u] \subseteq held'[u]
  <2>1. ASSUME NEW t \in Tills, ApplyPage(t) PROVE held[u] \subseteq held'[u]
    BY <2>1 DEF ApplyPage
  <2>2. ASSUME NEW t \in Tills, NEW d \in Deltas, NEW now \in Time, MoveStock(t, d, now)
        PROVE  held[u] \subseteq held'[u]
    BY <2>2 DEF MoveStock
  <2>3. QED
    BY <2>1, <2>2, TillWrites DEF SaveRow
<1>2. ASSUME NEW u \in Tills, NEW e \in Recorded(u)', e.item \in Deltas
      PROVE  e.item \in held'[u]
  <2>1. CASE e \in Recorded(u)
    BY <1>1, <1>2, <2>1 DEF RecordedIsHeld
  <2>2. ASSUME NEW t \in Tills, NEW r \in Rows, NEW now \in Time, NEW tie \in Ties,
               SaveRow(t, r, now, tie), e \notin Recorded(u)
        PROVE  FALSE
    BY <1>2, <2>2, ItemsAssumption DEF SaveRow, Recorded
  <2>3. ASSUME NEW t \in Tills, NEW d \in Deltas, NEW now \in Time, MoveStock(t, d, now),
               e \notin Recorded(u)
        PROVE  e.item \in held'[u]
    <3>1. e = [item |-> d, at |-> now, tie |-> 0] /\ u = t
      BY <1>2, <2>3 DEF MoveStock, Recorded
    <3>2. QED
      BY <2>3, <3>1 DEF MoveStock
  <2>4. ASSUME NEW t \in Tills, MarkBatch(t), e \notin Recorded(u) PROVE FALSE
    BY <1>2, <2>4, MarkKeepsRecorded
  <2>5. CASE UNCHANGED <<queued, sent, parked>> /\ e \notin Recorded(u)
    BY <1>2, <2>5 DEF Recorded
  <2>6. QED
    BY <2>1, <2>2, <2>3, <2>4, <2>5, OutboxWrites
<1>3. ASSUME NEW d \in Deltas, \E u \in Tills : local[u][ProductOf[d]] # NoVersion
      PROVE  \E u \in Tills : local'[u][ProductOf[d]] # NoVersion
  BY <1>3, RowsStay, ItemsAssumption
<1>4. ASSUME NEW u \in Tills, NEW d \in held'[u]
      PROVE  \E v \in Tills : local'[v][ProductOf[d]] # NoVersion
  <2>1. CASE d \in held[u]
    BY <1>3, <2>1 DEF RecordedIsHeld
  <2>2. ASSUME NEW t \in Tills, NEW m \in Deltas, NEW now \in Time, MoveStock(t, m, now),
               d \notin held[u]
        PROVE  \E v \in Tills : local'[v][ProductOf[d]] # NoVersion
    <3>1. d = m /\ u = t
      BY <1>4, <2>2 DEF MoveStock
    <3>2. QED
      BY <2>2, <3>1 DEF MoveStock
  <2>3. ASSUME NEW t \in Tills, ApplyPage(t), d \notin held[u]
        PROVE  \E v \in Tills : local'[v][ProductOf[d]] # NoVersion
    <3>1. u = t /\ \E c \in page[t].changes : c.item = d /\ d \in Deltas
      BY <1>4, <2>3, ApplyEffect
    <3>2. PICK c \in page[t].changes : c.item = d /\ d \in Deltas
      BY <3>1
    <3>3. \E v \in Tills : c \in Recorded(v)
      BY <3>2 DEF PageIsReceived, RequestsAreRecorded
    <3>4. \E v \in Tills : d \in held[v]
      BY <3>2, <3>3 DEF RecordedIsHeld
    <3>5. QED
      BY <1>3, <3>2, <3>4 DEF RecordedIsHeld
  <2>4. QED
    BY <1>4, <2>1, <2>2, <2>3, TillWrites DEF SaveRow
<1>5. QED
  BY <1>2, <1>4 DEF RecordedIsHeld

\* The cached stock stays the count of the movements held.
LEMMA StockStep ==
  ASSUME TypeOK, RecordedIsHeld, StockInv, PageIsReceived, [Next]_vars
  PROVE  StockInv'
<1> USE ItemsAssumption DEF TypeOK
<1> SUFFICES ASSUME NEW u \in Tills, NEW m \in Deltas
             PROVE  counted'[u][m] = IF local'[u][ProductOf[m]] # NoVersion /\ m \in held'[u]
                                     THEN 1 ELSE 0
  BY DEF StockInv
<1> DEFINE p == ProductOf[m]
<1>0. counted[u][m] = IF local[u][p] # NoVersion /\ m \in held[u] THEN 1 ELSE 0
  BY DEF StockInv
<1>1. ASSUME NEW t \in Tills, NEW r \in Rows, NEW now \in Time, NEW tie \in Ties,
             SaveRow(t, r, now, tie)
      PROVE  counted'[u][m] = IF local'[u][p] # NoVersion /\ m \in held'[u] THEN 1 ELSE 0
  <2>1. UNCHANGED <<held, counted>>
    BY <1>1 DEF SaveRow
  <2>2. CASE local[u][p] # NoVersion
    BY <1>0, <2>1, <2>2, RowsStay
  <2>3. CASE local[u][p] = NoVersion /\ u = t /\ r = p
    BY <1>0, <1>1, <2>1, <2>3 DEF SaveRow, RecordedIsHeld
  <2>4. CASE local[u][p] = NoVersion /\ ~(u = t /\ r = p)
    BY <1>0, <1>1, <2>1, <2>4 DEF SaveRow
  <2>5. QED
    BY <2>2, <2>3, <2>4
<1>2. ASSUME NEW t \in Tills, NEW d \in Deltas, NEW now \in Time, MoveStock(t, d, now)
      PROVE  counted'[u][m] = IF local'[u][p] # NoVersion /\ m \in held'[u] THEN 1 ELSE 0
  <2>1. CASE u = t /\ m = d
    BY <1>0, <1>2, <2>1 DEF MoveStock
  <2>2. CASE ~(u = t /\ m = d)
    BY <1>0, <1>2, <2>2 DEF MoveStock
  <2>3. QED
    BY <2>1, <2>2
<1>3. ASSUME NEW t \in Tills, ApplyPage(t)
      PROVE  counted'[u][m] = IF local'[u][p] # NoVersion /\ m \in held'[u] THEN 1 ELSE 0
  <2>1. CASE u # t
    BY <1>0, <1>3, <2>1, ApplyEffect
  <2>2. CASE u = t
    <3>1. counted'[t][m] = StockAfter(t, m)
      BY <1>3 DEF ApplyPage
    <3>2. held'[t] = held[t] \cup NewMovements(t) /\ m \notin Rows
      BY <1>3 DEF ApplyPage
    <3>3. CASE \E c \in Accepted(t) : c.item = p
      <4>1. local'[t][p] # NoVersion
        <5>1. \A c \in page[t].changes : Ver(c) # NoVersion
          BY EventFacts DEF PageIsReceived
        <5>2. PICK c \in page[t].changes : c.item = p /\ ~LocalEditWins(t, c)
          BY <3>3 DEF Accepted
        <5>3. \E b \in page[t].changes : local'[t][p] = Ver(b)
          BY <1>3, <5>2, ApplyEffect
        <5>4. QED
          BY <5>1, <5>3
      <4>2. QED
        BY <2>2, <3>1, <3>2, <3>3, <4>1 DEF StockAfter
    <3>4. CASE ~\E c \in Accepted(t) : c.item = p
      <4>1. local'[t][p] = local[t][p]
        BY <1>3, <3>4, ApplyEffect DEF Accepted
      <4>2. CASE m \in NewMovements(t)
        BY <1>0, <2>2, <3>1, <3>2, <3>4, <4>1, <4>2 DEF StockAfter, NewMovements
      <4>3. CASE m \notin NewMovements(t)
        BY <1>0, <2>2, <3>1, <3>2, <3>4, <4>1, <4>3 DEF StockAfter
      <4>4. QED
        BY <4>2, <4>3
    <3>5. QED
      BY <3>3, <3>4
  <2>3. QED
    BY <2>1, <2>2
<1>4. QED
  BY <1>0, <1>1, <1>2, <1>3, TillWrites

-----------------------------------------------------------------------------
(* The server's rows and the pages made from them                          *)

\* (updated_at, event_id) orders the versions of a row.
LEMMA BeatsOrder ==
  /\ \A v \in Version : ~Beats(v, v)
  /\ \A v, w \in Version : Beats(v, w) => ~Beats(w, v)
  /\ \A v, w \in Version : ~Beats(v, w) /\ ~Beats(w, v) => v = w
  /\ \A v, w, x \in Version : Beats(v, w) /\ ~Beats(x, w) => Beats(v, x)
  /\ \A v, w, x \in Version : ~Beats(v, w) /\ ~Beats(w, x) => ~Beats(v, x)
  BY DEF Beats, Version

\* Comparing the server's row is comparing its version.
LEMMA StoredVersion ==
  ASSUME TypeOK, NEW i \in Items
  PROVE  /\ Ver(srv[i]) \in Version
         /\ srv[i].seq \in Nat
         /\ \A v \in Version : /\ Beats(srv[i], v) <=> Beats(Ver(srv[i]), v)
                               /\ Beats(v, srv[i]) <=> Beats(v, Ver(srv[i]))
  BY DEF TypeOK, Ver, Version, Beats

\* Applying an event is the only step that writes the server's rows.
LEMMA ServerWrites ==
  ASSUME [Next]_vars
  PROVE  (\E e \in txn.todo : ApplyEvent(e)) \/ UNCHANGED <<srv, lastSeq, received>>
<1> DEFINE Same == UNCHANGED <<srv, lastSeq, received>>
<1>1. ASSUME NEW t \in Tills, Round(t) PROVE Same
  BY <1>1 DEF Round, SendPush, EndPush, MarkBatch, ApplyPage, HubPull, CloudPage, CloudNext,
     serverVars
<1>2. ASSUME NEW t \in Tills, TakeRequest(t) \/ TakeLateRequest(t) \/ Fail(t) PROVE Same
  BY <1>2 DEF TakeRequest, TakeLateRequest, Fail, serverVars
<1>3. ASSUME NEW e, AckAgain(e) \/ RefuseEvent(e) \/ FailEvent(e) PROVE Same
  BY <1>3 DEF AckAgain, RefuseEvent, FailEvent, serverVars
<1>4. AnswerPush => Same
  BY DEF AnswerPush, serverVars
<1>5. ASSUME NEW t, NEW r, NEW now, NEW tie, SaveRow(t, r, now, tie) PROVE Same
  BY <1>5 DEF SaveRow, serverVars
<1>6. ASSUME NEW t, NEW d, NEW now, MoveStock(t, d, now) PROVE Same
  BY <1>6 DEF MoveStock, serverVars
<1>7. ASSUME NEW t, NEW e, BackoffOver(t, e) PROVE Same
  BY <1>7 DEF BackoffOver, serverVars
<1>8. UNCHANGED vars => Same
  BY DEF vars, serverVars
<1>9. QED
  BY <1>1, <1>2, <1>3, <1>4, <1>5, <1>6, <1>7, <1>8 DEF Next, ServeEvent

\* An event that wins becomes the row, with the next number; no other row
\* changes.
LEMMA ApplyEventEffect ==
  ASSUME TypeOK, NEW e \in txn.todo, ApplyEvent(e)
  PROVE  /\ e \in Events /\ e \notin received /\ received' = received \cup {e}
         /\ \A i \in Items : i # e.item => srv'[i] = srv[i]
         /\ \/ /\ Wins(e)
               /\ lastSeq' = lastSeq + 1
               /\ srv'[e.item] = [at |-> e.at, tie |-> e.tie, seq |-> lastSeq + 1,
                                  origin |-> txn.till]
            \/ ~Wins(e) /\ lastSeq' = lastSeq /\ srv'[e.item] = srv[e.item]
<1>1. e \in Events /\ e.item \in Items
  BY EventFacts DEF TypeOK
<1>2. e \notin received /\ received' = received \cup {e}
  BY DEF ApplyEvent
<1>3. CASE Wins(e)
  <2> DEFINE row == [at |-> e.at, tie |-> e.tie, seq |-> lastSeq + 1, origin |-> txn.till]
  <2>1. srv' = [srv EXCEPT ![e.item] = row] /\ lastSeq' = lastSeq + 1
    BY <1>3 DEF ApplyEvent
  <2> HIDE DEF row
  <2>2. srv'[e.item] = row /\ \A i \in Items : i # e.item => srv'[i] = srv[i]
    BY <1>1, <2>1 DEF TypeOK
  <2>3. QED
    BY <1>1, <1>2, <1>3, <2>1, <2>2 DEF row
<1>4. CASE ~Wins(e)
  BY <1>1, <1>2, <1>4 DEF ApplyEvent
<1>5. QED
  BY <1>3, <1>4

\* The server's rows stay the greatest of the events received.
LEMMA ServerRowsStep ==
  ASSUME TypeOK, TypeOK', ServerRows, [Next]_vars
  PROVE  ServerRows'
<1>1. ASSUME NEW e \in txn.todo, ApplyEvent(e) PROVE ServerRows'
  <2> DEFINE i == e.item
  <2>1. /\ e \in Events /\ received' = received \cup {e} /\ i \in Items
        /\ \A k \in Items : k # i => srv'[k] = srv[k]
    BY <1>1, ApplyEventEffect, EventFacts
  <2>2. e = [item |-> e.item, at |-> e.at, tie |-> e.tie]
    BY <2>1 DEF Events
  <2>3. lastSeq \in Nat /\ e.at \in Nat /\ e.at > 0 /\ e.tie \in Nat
    BY <2>1, EventFacts DEF TypeOK
  <2>4. CASE Wins(e)
    <3>1. /\ lastSeq' = lastSeq + 1
          /\ srv'[i] = [at |-> e.at, tie |-> e.tie, seq |-> lastSeq + 1, origin |-> txn.till]
      BY <1>1, <2>4, ApplyEventEffect
    <3>2. Stored(i)' = e
      BY <2>2, <3>1 DEF Stored
    <3>3. ASSUME NEW k \in Items
          PROVE  /\ srv'[k].seq <= lastSeq'
                 /\ srv'[k].seq = 0 => srv'[k] = Absent
                 /\ srv'[k].seq > 0 => Stored(k)' \in received'
      <4>1. CASE k = i
        BY <2>1, <2>3, <3>1, <3>2, <4>1
      <4>2. CASE k # i
        BY <2>1, <2>3, <3>1, <4>2 DEF ServerRows, Stored, TypeOK
      <4>3. QED
        BY <4>1, <4>2
    <3>4. ASSUME NEW f \in received'
          PROVE  /\ srv'[f.item].seq > 0
                 /\ f.item \in Rows => AtLeast(srv'[f.item], Ver(f))
      <4>1. f \in Events /\ f.item \in Items /\ Ver(f) \in Version /\ Ver(e) \in Version
        BY <2>1, EventFacts DEF TypeOK
      <4>2. CASE f.item = i
        <5>1. srv'[i].seq > 0
          BY <2>3, <3>1
        <5>2. f.item \in Rows => ~Beats(Ver(f), Ver(e))
          <6>1. CASE f = e
            BY <4>1, <6>1, BeatsOrder
          <6>2. CASE f # e /\ f.item \in Rows
            <7>1. ~Beats(Ver(f), Ver(srv[i]))
              BY <2>1, <4>1, <4>2, <6>2, StoredVersion DEF ServerRows, AtLeast
            <7>2. Beats(Ver(e), Ver(srv[i]))
              BY <2>1, <2>4, <4>2, <6>2 DEF Wins, Beats, Ver
            <7>3. QED
              BY <2>1, <4>1, <7>1, <7>2, StoredVersion, BeatsOrder
          <6>3. QED
            BY <6>1, <6>2
        <5>3. f.item \in Rows => AtLeast(srv'[i], Ver(f))
          BY <3>1, <5>2 DEF AtLeast, Beats, Ver
        <5>4. QED
          BY <4>2, <5>1, <5>3
      <4>3. CASE f.item # i
        BY <2>1, <4>1, <4>3 DEF ServerRows
      <4>4. QED
        BY <4>2, <4>3
    <3>5. QED
      BY <3>3, <3>4 DEF ServerRows
  <2>5. CASE ~Wins(e)
    <3>1. lastSeq' = lastSeq /\ \A k \in Items : srv'[k] = srv[k]
      BY <1>1, <2>1, <2>5, ApplyEventEffect
    <3>2. srv[i].seq > 0
      <4>1. CASE i \in Rows /\ srv[i].seq = 0
        <5>1. srv[i] = Absent
          BY <2>1, <4>1 DEF ServerRows
        <5>2. Beats(e, srv[i])
          BY <2>3, <5>1 DEF Beats, Absent
        <5>3. QED
          BY <2>5, <4>1, <5>2 DEF Wins
      <4>2. CASE i \notin Rows
        BY <2>1, <2>5, <4>2, StoredVersion DEF Wins
      <4>3. QED
        BY <2>1, <4>1, <4>2, StoredVersion
    <3>3. i \in Rows => AtLeast(srv[i], Ver(e))
      BY <2>5 DEF Wins, AtLeast, Beats, Ver
    <3>4. ASSUME NEW f \in received'
          PROVE  /\ srv'[f.item].seq > 0
                 /\ f.item \in Rows => AtLeast(srv'[f.item], Ver(f))
      <4>1. f.item \in Items
        BY <2>1, EventFacts DEF TypeOK
      <4>2. QED
        BY <2>1, <3>1, <3>2, <3>3, <4>1 DEF ServerRows
    <3>5. \A k \in Items : Stored(k)' = Stored(k)
      BY <3>1 DEF Stored
    <3>6. QED
      BY <2>1, <3>1, <3>4, <3>5 DEF ServerRows
  <2>6. QED
    BY <2>4, <2>5
<1>2. CASE UNCHANGED <<srv, lastSeq, received>>
  BY <1>2 DEF ServerRows, Stored
<1>3. QED
  BY <1>1, <1>2, ServerWrites

\* Only these steps write the page a till has in hand.
LEMMA PageWrites ==
  ASSUME [Next]_vars
  PROVE  \/ \E t \in Tills : \/ HubPull(t) \/ CloudPage(t) \/ CloudNext(t)
                             \/ ApplyPage(t) \/ Fail(t)
         \/ UNCHANGED page
  BY DEF Next, Round, ServeEvent, SaveRow, MoveStock, BackoffOver, SendPush, EndPush,
     MarkBatch, TakeRequest, TakeLateRequest, AckAgain, RefuseEvent, FailEvent, ApplyEvent,
     AnswerPush, vars, roundVars

\* The server's rows after a cursor, as changes.
LEMMA ChangesReceived ==
  ASSUME TypeOK, ServerRows, NEW t \in Tills, NEW S \in SUBSET After(cursor[t])
  PROVE  /\ Changes(S) \subseteq received
         /\ \A c, d \in Changes(S) : c.item = d.item => c = d
         /\ \A c \in Changes(S) : c = Stored(c.item) /\ c.item \in S
         /\ \A i \in S : Stored(i) \in Changes(S)
<1>1. \A i \in S : i \in Items /\ srv[i].seq > 0
  BY DEF After, TypeOK
<1>2. \A c \in Changes(S) : \E i \in S : c = Stored(i) /\ c.item = i
  BY DEF Changes, Stored
<1>3. \A i \in S : Stored(i) \in received
  BY <1>1 DEF ServerRows
<1>4. \A i \in S : Stored(i) \in Changes(S)
  BY DEF Changes, Stored
<1>5. QED
  BY <1>2, <1>3, <1>4

\* Pages keep showing what the server has received.
LEMMA PageStep ==
  ASSUME TypeOK, ServerRows, PageIsReceived, [Next]_vars
  PROVE  PageIsReceived'
<1> USE DEF TypeOK
<1>1. received \subseteq received'
  BY ServerWrites DEF ApplyEvent
<1> SUFFICES ASSUME NEW u \in Tills
             PROVE  /\ page'[u].changes \subseteq received
                    /\ \A c, d \in page'[u].changes : c.item = d.item => c = d
  BY <1>1 DEF PageIsReceived
<1>2. ASSUME NEW t \in Tills, HubPull(t) \/ CloudPage(t) PROVE
             /\ page'[u].changes \subseteq received
             /\ \A c, d \in page'[u].changes : c.item = d.item => c = d
  <2>1. CASE u # t
    BY <1>2, <2>1 DEF HubPull, CloudPage, PageIsReceived
  <2>2. CASE u = t
    <3>1. \E S \in SUBSET After(cursor[t]) : page'[t].changes = Changes(S)
      <4>1. CASE HubPull(t)
        <5>1. PICK n : page' = [page EXCEPT ![t] =
                [changes |-> Changes(UpTo(After(cursor[t]), n) \ Own(t)), next |-> n,
                 more |-> Cardinality(After(cursor[t])) > PullPage]]
          BY <4>1 DEF HubPull
        <5>2. page'[t].changes = Changes(UpTo(After(cursor[t]), n) \ Own(t))
          BY <5>1
        <5>3. (UpTo(After(cursor[t]), n) \ Own(t)) \in SUBSET After(cursor[t])
          BY DEF UpTo
        <5>4. QED
          BY <5>2, <5>3
      <4>2. CASE CloudPage(t)
        <5>1. PICK n : page' = [page EXCEPT ![t] =
                [changes |-> Changes(UpTo(After(cursor[t]) \ Own(t), n)), next |-> n,
                 more |-> Cardinality(After(cursor[t]) \ Own(t)) >= PullPage]]
          BY <4>2 DEF CloudPage
        <5>2. page'[t].changes = Changes(UpTo(After(cursor[t]) \ Own(t), n))
          BY <5>1
        <5>3. UpTo(After(cursor[t]) \ Own(t), n) \in SUBSET After(cursor[t])
          BY DEF UpTo
        <5>4. QED
          BY <5>2, <5>3
      <4>3. QED
        BY <1>2, <4>1, <4>2
    <3>2. QED
      BY <2>2, <3>1, ChangesReceived
  <2>3. QED
    BY <2>1, <2>2
<1>3. ASSUME NEW t \in Tills, CloudNext(t) PROVE page'[u].changes = page[u].changes
  BY <1>3 DEF CloudNext
<1>4. ASSUME NEW t \in Tills, ApplyPage(t) \/ Fail(t)
      PROVE  page'[u] = page[u] \/ page'[u] = NoPage
  BY <1>4 DEF ApplyPage, Fail
<1>5. CASE page'[u] = page[u] \/ page'[u] = NoPage \/ page'[u].changes = page[u].changes
  <2>1. CASE page'[u].changes = page[u].changes
    BY <2>1 DEF PageIsReceived
  <2>2. CASE page'[u] = NoPage
    BY <2>2 DEF NoPage
  <2>3. QED
    BY <1>5, <2>1, <2>2
<1>6. QED
  BY <1>2, <1>3, <1>4, <1>5, PageWrites

-----------------------------------------------------------------------------
(* Unsent edits                                                            *)

\* A nonempty set of naturals with a bound has a greatest element.
LEMMA GreatestBelow ==
  ASSUME NEW b \in Nat, NEW S \in SUBSET (0..b), S # {}
  PROVE  \E m \in S : \A k \in S : k <= m
<1> DEFINE less == {p \in Nat \X Nat : p[1] < p[2]}
           T == {b - k : k \in S}
<1>1. IsWellFoundedOn(less, Nat)
  BY NatLessThanWellFounded DEF OpToRel
<1>2. T \subseteq Nat /\ T # {}
  <2>1. \A k \in S : b - k \in Nat
    OBVIOUS
  <2>2. QED
    BY <2>1
<1>3. PICK x \in T : \A y \in T : ~(<<y, x>> \in less)
  <2> HIDE DEF less, T
  <2> QED BY <1>1, <1>2, WFMin
<1>4. PICK m \in S : x = b - m
  OBVIOUS
<1>5. ASSUME NEW k \in S PROVE k <= m
  <2>1. b - k \in Nat /\ b - m \in Nat /\ b - k \in T
    OBVIOUS
  <2>2. ~(b - k < b - m)
    <3>1. <<b - k, b - m>> \notin less
      BY <1>3, <1>4, <2>1
    <3>2. QED
      BY <2>1, <3>1
  <2>3. QED
    BY <2>2
<1>6. QED
  BY <1>5

\* A row with an unsent edit has a newest one: the greatest timestamp, and
\* the greatest id of those.
LEMMA NewestExists ==
  ASSUME TypeOK, NEW t \in Tills, NEW q \in queued[t]
  PROVE  \E n \in queued[t] : NewestEdit(t, q.item, n)
<1> DEFINE Q == {f \in queued[t] : f.item = q.item}
           ats == {f.at : f \in Q}
<1>1. \A f \in queued[t] : f.at \in 0..MaxTime /\ f.tie \in 0..MaxTie
  BY ClockAssumption DEF TypeOK, Events
<1>2. PICK a \in ats : \A b \in ats : b <= a
  <2>1. ats \in SUBSET (0..MaxTime) /\ ats # {}
    BY <1>1
  <2> HIDE DEF ats
  <2> QED BY <2>1, ClockAssumption, GreatestBelow
<1> DEFINE ties == {f.tie : f \in {g \in Q : g.at = a}}
<1>3. PICK i \in ties : \A b \in ties : b <= i
  <2>1. ties \in SUBSET (0..MaxTie) /\ ties # {}
    BY <1>1, <1>2
  <2> HIDE DEF ties
  <2> QED BY <2>1, ClockAssumption, GreatestBelow
<1>4. PICK n \in Q : n.at = a /\ n.tie = i
  BY <1>3
<1>5. ASSUME NEW f \in queued[t], f.item = q.item PROVE ~Before(n, f)
  <2>1. f.at <= a /\ (f.at = a => f.tie <= i)
    BY <1>2, <1>3, <1>5
  <2>2. f.at \in Int /\ f.tie \in Int /\ a \in Int /\ i \in Int
    BY <1>1, <1>2, <1>3
  <2>3. QED
    BY <1>4, <2>1, <2>2 DEF Before
<1>6. QED
  BY <1>4, <1>5 DEF NewestEdit

\* A page's version that is taken is at least as new as every unsent edit of
\* the row, provided the row is.
LEMMA TakenIsNewer ==
  ASSUME TypeOK, NEW t \in Tills, NEW q \in queued[t], NEW c \in Events,
         q.item = c.item, c.item \in Rows, ~LocalEditWins(t, c),
         \A f \in queued[t] : f.item = c.item => AtLeast(local[t][c.item], Ver(f))
  PROVE  AtLeast(Ver(c), Ver(q))
<1>1. PICK n \in queued[t] : NewestEdit(t, c.item, n)
  BY NewestExists
<1>2. /\ q.at \in Nat /\ q.tie \in Nat /\ n.at \in Nat /\ n.tie \in Nat
      /\ c.at \in Nat /\ c.tie \in Nat
      /\ local[t][c.item].at \in Nat /\ local[t][c.item].tie \in Nat
  BY EventFacts DEF TypeOK, Version
<1>3. ~Before(n, q)
  BY <1>1 DEF NewestEdit
<1>4. AtLeast(local[t][c.item], Ver(n))
  BY <1>1 DEF NewestEdit
<1>5. /\ ~(local[t][c.item].at > c.at)
      /\ ~(local[t][c.item].at = c.at /\ (n.at > c.at \/ (n.at = c.at /\ n.tie > c.tie)))
  BY <1>1 DEF LocalEditWins
<1>6. QED
  BY <1>2, <1>3, <1>4, <1>5 DEF AtLeast, Beats, Ver, Before

\* Only saving a row adds to the rows saved with a clock behind them.
LEMMA RegressedWrites ==
  ASSUME [Next]_vars
  PROVE  \/ \E t \in Tills, r \in Rows, now \in Time, tie \in Ties : SaveRow(t, r, now, tie)
         \/ UNCHANGED regressed
  BY DEF Next, Round, ServeEvent, MoveStock, BackoffOver, SendPush, EndPush, MarkBatch,
     HubPull, CloudPage, CloudNext, ApplyPage, TakeRequest, TakeLateRequest, Fail, AckAgain,
     RefuseEvent, FailEvent, ApplyEvent, AnswerPush, vars

\* The versions of rows stay as new as their unsent edits.
LEMMA LocalRowsStep ==
  ASSUME TypeOK, RequestsAreRecorded, PageIsReceived, LocalRows, [Next]_vars
  PROVE  LocalRows'
<1> USE ItemsAssumption DEF TypeOK
<1>1. ASSUME NEW u \in Tills, NEW p \in Rows, p \notin regressed', NEW q \in queued'[u], q.item = p
      PROVE  AtLeast(local'[u][p], Ver(q))
  <2>1. ASSUME p \notin regressed, q \in queued[u] PROVE AtLeast(local[u][p], Ver(q))
    BY <1>1, <2>1 DEF LocalRows
  <2>2. ASSUME NEW t \in Tills, NEW r \in Rows, NEW now \in Time, NEW tie \in Ties,
               SaveRow(t, r, now, tie)
        PROVE  AtLeast(local'[u][p], Ver(q))
    <3> DEFINE e == [item |-> r, at |-> now, tie |-> tie]
    <3>1. /\ local' = [local EXCEPT ![t][r] = Ver(e)]
          /\ queued' = [queued EXCEPT ![t] = @ \cup {e}]
          /\ regressed' = IF Beats(Ver(e), local[t][r]) THEN regressed ELSE regressed \cup {r}
      BY <2>2 DEF SaveRow
    <3>2. e \in Events /\ e.item = r
      BY DEF Events
    <3> HIDE DEF e
    <3>3. CASE u = t /\ p = r
      <4>1. local'[u][p] = Ver(e) /\ Beats(Ver(e), local[u][p]) /\ p \notin regressed
        BY <1>1, <3>1, <3>3
      <4>2. CASE q = e
        BY <3>2, <4>1, <4>2, EventFacts, BeatsOrder DEF AtLeast
      <4>3. CASE q # e
        <5>1. q \in queued[u] /\ q \in Events
          BY <1>1, <3>1, <3>3, <4>3
        <5>2. ~Beats(Ver(q), local[u][p])
          BY <2>1, <4>1, <5>1 DEF AtLeast
        <5>3. Ver(q) \in Version /\ Ver(e) \in Version /\ local[u][p] \in Version
          BY <3>2, <5>1, EventFacts
        <5>4. ~Beats(Ver(q), Ver(e))
          BY <4>1, <5>2, <5>3, BeatsOrder
        <5>5. QED
          BY <4>1, <5>4 DEF AtLeast
      <4>4. QED
        BY <4>2, <4>3
    <3>4. CASE ~(u = t /\ p = r)
      <4>1. local'[u][p] = local[u][p] /\ p \notin regressed
        BY <1>1, <3>1, <3>4
      <4>2. q \in queued[u]
        BY <1>1, <3>1, <3>2, <3>4
      <4>3. QED
        BY <2>1, <4>1, <4>2
    <3>5. QED
      BY <3>3, <3>4
  <2>3. ASSUME NEW t \in Tills, ApplyPage(t) PROVE AtLeast(local'[u][p], Ver(q))
    <3>1. UNCHANGED <<queued, regressed>>
      BY <2>3 DEF ApplyPage
    <3>2. AtLeast(local[u][p], Ver(q)) /\ q \in queued[u] /\ p \notin regressed
      BY <1>1, <2>1, <3>1
    <3>3. CASE local'[u][p] = local[u][p]
      BY <3>2, <3>3
    <3>4. CASE local'[u][p] # local[u][p]
      <4>1. u = t /\ \E c \in page[t].changes :
                       c.item = p /\ ~LocalEditWins(t, c) /\ local'[t][p] = Ver(c)
        BY <2>3, <3>4, ApplyEffect
      <4>2. PICK c \in page[t].changes :
                   c.item = p /\ ~LocalEditWins(t, c) /\ local'[t][p] = Ver(c)
        BY <4>1
      <4>3. c \in Events
        BY DEF PageIsReceived
      <4>4. \A f \in queued[t] : f.item = c.item => AtLeast(local[t][c.item], Ver(f))
        BY <3>2, <4>1, <4>2 DEF LocalRows
      <4>5. q \in queued[t] /\ q.item = c.item /\ c.item \in Rows /\ ~LocalEditWins(t, c)
        BY <1>1, <3>2, <4>1, <4>2
      <4>6. AtLeast(Ver(c), Ver(q))
        BY <4>3, <4>4, <4>5, TakenIsNewer
      <4>7. QED
        BY <4>1, <4>2, <4>6
    <3>5. QED
      BY <3>3, <3>4
  <2>4. ASSUME NEW t \in Tills, NEW d \in Deltas, NEW now \in Time, MoveStock(t, d, now)
        PROVE  q \in queued[u] /\ UNCHANGED <<local, regressed>>
    BY <1>1, <2>4 DEF MoveStock
  <2>5. ASSUME NEW t \in Tills, MarkBatch(t)
        PROVE  q \in queued[u] /\ UNCHANGED <<local, regressed>>
    BY <1>1, <2>5 DEF MarkBatch
  <2>6. CASE q \in queued[u] /\ UNCHANGED <<local, regressed>>
    BY <1>1, <2>1, <2>6
  <2>7. QED
    BY <1>1, <2>2, <2>3, <2>4, <2>5, <2>6, OutboxWrites, TillWrites, RegressedWrites
<1>2. ASSUME NEW u \in Tills, NEW p \in Rows, local'[u][p] # NoVersion
      PROVE  \E e \in Recorded(u)' \cup received' : e.item = p /\ Ver(e) = local'[u][p]
  <2>1. Recorded(u) \subseteq Recorded(u)' /\ received \subseteq received'
    BY RecordedStays, ServerWrites DEF ApplyEvent
  <2>2. CASE local'[u][p] = local[u][p]
    BY <1>2, <2>1, <2>2 DEF LocalRows
  <2>3. ASSUME NEW t \in Tills, NEW r \in Rows, NEW now \in Time, NEW tie \in Ties,
               SaveRow(t, r, now, tie), local'[u][p] # local[u][p]
        PROVE  \E e \in Recorded(u)' \cup received' : e.item = p /\ Ver(e) = local'[u][p]
    <3> DEFINE e == [item |-> r, at |-> now, tie |-> tie]
    <3>1. u = t /\ p = r /\ local'[u][p] = Ver(e)
      BY <2>3 DEF SaveRow
    <3>2. e \in queued'[u]
      BY <2>3, <3>1 DEF SaveRow
    <3>3. e \in Recorded(u)' /\ e.item = p
      BY <3>1, <3>2 DEF Recorded
    <3>4. QED
      BY <3>1, <3>3
  <2>4. ASSUME NEW t \in Tills, ApplyPage(t), local'[u][p] # local[u][p]
        PROVE  \E e \in Recorded(u)' \cup received' : e.item = p /\ Ver(e) = local'[u][p]
    <3>1. u = t /\ \E c \in page[t].changes : c.item = p /\ local'[t][p] = Ver(c)
      BY <2>4, ApplyEffect
    <3>2. QED
      BY <2>1, <3>1 DEF PageIsReceived
  <2>5. QED
    BY <2>2, <2>3, <2>4, TillWrites DEF MoveStock
<1>3. QED
  BY <1>1, <1>2 DEF LocalRows

-----------------------------------------------------------------------------
(* The hub's pages and what a till has passed                              *)

\* Only applying a page moves the cursor.
LEMMA CursorWrites ==
  ASSUME [Next]_vars
  PROVE  (\E t \in Tills : ApplyPage(t)) \/ UNCHANGED cursor
<1>1. ASSUME NEW t \in Tills, Round(t), ~ApplyPage(t) PROVE UNCHANGED cursor
  BY <1>1 DEF Round, SendPush, EndPush, MarkBatch, HubPull, CloudPage, CloudNext, tillVars
<1>2. ASSUME NEW t \in Tills, TakeRequest(t) \/ TakeLateRequest(t) \/ Fail(t)
      PROVE  UNCHANGED cursor
  BY <1>2 DEF TakeRequest, TakeLateRequest, Fail, tillVars
<1>3. ASSUME NEW e, AckAgain(e) \/ RefuseEvent(e) \/ FailEvent(e) \/ ApplyEvent(e)
      PROVE  UNCHANGED cursor
  BY <1>3 DEF AckAgain, RefuseEvent, FailEvent, ApplyEvent, tillVars
<1>4. AnswerPush => UNCHANGED cursor
  BY DEF AnswerPush, tillVars
<1>5. ASSUME NEW t, NEW r, NEW now, NEW tie, SaveRow(t, r, now, tie) PROVE UNCHANGED cursor
  BY <1>5 DEF SaveRow
<1>6. ASSUME NEW t, NEW d, NEW now, MoveStock(t, d, now) PROVE UNCHANGED cursor
  BY <1>6 DEF MoveStock
<1>7. ASSUME NEW t, NEW e, BackoffOver(t, e) PROVE UNCHANGED cursor
  BY <1>7 DEF BackoffOver
<1>8. UNCHANGED vars => UNCHANGED cursor
  BY DEF vars, tillVars
<1>9. QED
  BY <1>1, <1>2, <1>3, <1>4, <1>5, <1>6, <1>7, <1>8 DEF Next, ServeEvent

\* An event about to be applied for the first time is still in its outbox.
LEMMA FirstTimeIsQueued ==
  ASSUME AcksAreReceived, OnlyRefusedParked, RequestsAreRecorded,
         NEW e \in txn.todo, ApplyEvent(e), txn.till \in Tills
  PROVE  e \in queued[txn.till]
<1>1. e \in Recorded(txn.till)
  BY DEF RequestsAreRecorded
<1>2. e \notin sent[txn.till] /\ e \notin parked[txn.till]
  BY DEF ApplyEvent, AcksAreReceived, OnlyRefusedParked
<1>3. QED
  BY <1>1, <1>2 DEF Recorded

\* A till with a page in hand has just been given it, or keeps it, and its
\* cursor and its unsent events with it.
LEMMA PageKept ==
  ASSUME TypeOK, Server = "hub", [Next]_vars, NEW u \in Tills, phase'[u] = "page"
  PROVE  \/ HubPull(u)
         \/ /\ phase[u] = "page" /\ page'[u] = page[u] /\ cursor'[u] = cursor[u]
            /\ queued[u] \subseteq queued'[u]
<1> DEFINE Kept == /\ phase[u] = "page" /\ page'[u] = page[u] /\ cursor'[u] = cursor[u]
                   /\ queued[u] \subseteq queued'[u]
<1> USE DEF TypeOK
<1>1. ASSUME NEW t \in Tills, NEW r \in Rows, NEW now \in Time, NEW tie \in Ties,
             SaveRow(t, r, now, tie)
      PROVE  Kept
  BY <1>1 DEF SaveRow, roundVars
<1>2. ASSUME NEW t \in Tills, NEW d \in Deltas, NEW now \in Time, MoveStock(t, d, now)
      PROVE  Kept
  BY <1>2 DEF MoveStock, roundVars
<1>3. ASSUME NEW t \in Tills, NEW e \in backoff[t], BackoffOver(t, e) PROVE Kept
  BY <1>3 DEF BackoffOver, roundVars
<1>4. ASSUME NEW t \in Tills, SendPush(t) \/ EndPush(t) PROVE Kept
  BY <1>4 DEF SendPush, EndPush, tillVars
<1>5. ASSUME NEW t \in Tills, MarkBatch(t) PROVE Kept
  BY <1>5 DEF MarkBatch
<1>6. ASSUME NEW t \in Tills, HubPull(t), t # u PROVE Kept
  BY <1>6 DEF HubPull, tillVars
<1>7. ASSUME NEW t \in Tills, ApplyPage(t) PROVE Kept
  BY <1>7 DEF ApplyPage
<1>8. ASSUME NEW t \in Tills, TakeRequest(t) \/ TakeLateRequest(t) PROVE Kept
  BY <1>8 DEF TakeRequest, TakeLateRequest, tillVars, roundVars
<1>9. ASSUME NEW t \in Tills, Fail(t) PROVE Kept
  BY <1>9 DEF Fail, tillVars
<1>10. ASSUME NEW e, AckAgain(e) \/ RefuseEvent(e) \/ FailEvent(e) \/ ApplyEvent(e) PROVE Kept
  BY <1>10 DEF AckAgain, RefuseEvent, FailEvent, ApplyEvent, tillVars, roundVars
<1>11. CASE AnswerPush
  BY <1>11 DEF AnswerPush, tillVars
<1>12. CASE UNCHANGED vars
  BY <1>12 DEF vars, tillVars, roundVars
<1>13. ~\E t \in Tills : CloudPage(t) \/ CloudNext(t)
  BY DEF CloudPage, CloudNext
<1>14. QED
  BY <1>1, <1>2, <1>3, <1>4, <1>5, <1>6, <1>7, <1>8, <1>9, <1>10, <1>11, <1>12, <1>13
  DEF Next, Round, ServeEvent

\* The parts of a till's page in hand that PageIsComplete speaks of.
PageOf(t) ==
  /\ cursor[t] <= page[t].next
  /\ page[t].next <= lastSeq
  /\ \A i \in Items :
       srv[i].seq > cursor[t] /\ srv[i].seq <= page[t].next /\ srv[i].origin # t
         => Stored(i) \in page[t].changes
  /\ \A c \in page[t].changes : c.item \in Rows =>
       \/ c = Stored(c.item)
       \/ /\ srv[c.item].seq > page[t].next
          /\ srv[c.item].origin = t => Stored(c.item) \in queued[t]

\* A page of the hub is complete when it is read.
LEMMA PageReadComplete ==
  ASSUME TypeOK, ServerRows, NEW t \in Tills, HubPull(t)
  PROVE  PageOf(t)'
<1> DEFINE news == After(cursor[t])
<1>1. PICK n \in PageEnds(news, cursor[t]) :
        page' = [page EXCEPT ![t] = [changes |-> Changes(UpTo(news, n) \ Own(t)),
                                     next |-> n,
                                     more |-> Cardinality(news) > PullPage]]
  BY DEF HubPull
<1> DEFINE S == UpTo(news, n) \ Own(t)
<1>2. page'[t].changes = Changes(S) /\ page'[t].next = n
  BY <1>1 DEF TypeOK
<1>3. S \in SUBSET After(cursor[t])
  BY DEF UpTo
<1>4. \A i \in Items : srv[i].seq > cursor[t] /\ srv[i].seq <= n /\ srv[i].origin # t => i \in S
  BY DEF UpTo, After, Own
<1>5. n \in cursor[t]..lastSeq /\ cursor[t] \in Nat /\ lastSeq \in Nat
  BY DEF PageEnds, TypeOK
<1>6. UNCHANGED <<cursor, srv, lastSeq, queued>>
  BY DEF HubPull, tillVars, serverVars
<1>7. /\ \A c \in Changes(S) : c = Stored(c.item)
      /\ \A i \in S : Stored(i) \in Changes(S)
  <2> HIDE DEF S
  <2> QED BY <1>3, ChangesReceived
<1>8. \A i : Stored(i)' = Stored(i)
  BY <1>6 DEF Stored
<1> HIDE DEF S
<1>9. QED
  BY <1>2, <1>4, <1>5, <1>6, <1>7, <1>8 DEF PageOf

\* Pages in hand stay complete while the server goes on.
LEMMA PageCompleteStep ==
  ASSUME TypeOK, AcksAreReceived, OnlyRefusedParked, RequestsAreRecorded, ServerRows,
         PageIsComplete, Server = "hub", [Next]_vars
  PROVE  PageIsComplete'
<1> SUFFICES ASSUME NEW u \in Tills, phase'[u] = "page" PROVE PageOf(u)'
  BY DEF PageIsComplete, PageOf
<1>1. CASE HubPull(u)
  BY <1>1, PageReadComplete
<1>2. ASSUME phase[u] = "page", page'[u] = page[u], cursor'[u] = cursor[u],
             queued[u] \subseteq queued'[u]
      PROVE  PageOf(u)'
  <2>1. PageOf(u)
    BY <1>2 DEF PageIsComplete, PageOf
  <2>2. CASE UNCHANGED <<srv, lastSeq, received>>
    <3>1. \A i : Stored(i)' = Stored(i)
      BY <2>2 DEF Stored
    <3>2. QED
      BY <1>2, <2>1, <2>2, <3>1 DEF PageOf
  <2>3. ASSUME NEW e \in txn.todo, ApplyEvent(e) PROVE PageOf(u)'
    <3>1. e \in Events /\ e.item \in Items /\ \A i \in Items : i # e.item => srv'[i] = srv[i]
      BY <2>3, ApplyEventEffect, EventFacts
    <3>2. \A i \in Items : i # e.item => Stored(i)' = Stored(i)
      BY <3>1 DEF Stored
    <3>3. page[u].next \in Nat /\ lastSeq \in Nat /\ \A c \in page[u].changes : c.item \in Items
      BY DEF TypeOK
    <3>4. CASE Wins(e)
      <4>1. /\ lastSeq' = lastSeq + 1
            /\ srv'[e.item] = [at |-> e.at, tie |-> e.tie, seq |-> lastSeq + 1, origin |-> txn.till]
        BY <2>3, <3>4, ApplyEventEffect
      <4>2. Stored(e.item)' = e
        BY <3>1, <4>1 DEF Stored, Events
      <4>3. srv'[e.item].seq > page[u].next
        BY <2>1, <3>3, <4>1 DEF PageOf
      <4>4. srv'[e.item].origin = u => e \in queued[u]
        BY <2>3, <4>1, FirstTimeIsQueued
      <4>5. cursor'[u] <= page'[u].next /\ page'[u].next <= lastSeq'
        BY <1>2, <2>1, <3>3, <4>1 DEF PageOf
      <4>6. ASSUME NEW i \in Items, srv'[i].seq > cursor'[u], srv'[i].seq <= page'[u].next,
                   srv'[i].origin # u
            PROVE  Stored(i)' \in page'[u].changes
        <5>1. i # e.item
          BY <1>2, <3>3, <4>1, <4>3, <4>6
        <5>2. QED
          BY <1>2, <2>1, <3>1, <3>2, <4>6, <5>1 DEF PageOf
      <4>7. ASSUME NEW c \in page'[u].changes, c.item \in Rows
            PROVE  \/ c = Stored(c.item)'
                   \/ /\ srv'[c.item].seq > page'[u].next
                      /\ srv'[c.item].origin = u => Stored(c.item)' \in queued'[u]
        <5>1. CASE c.item = e.item
          BY <1>2, <4>2, <4>3, <4>4, <5>1
        <5>2. CASE c.item # e.item
          <6>1. srv'[c.item] = srv[c.item] /\ Stored(c.item)' = Stored(c.item)
            BY <3>1, <3>2, <4>7, <5>2
          <6>2. QED
            BY <1>2, <2>1, <4>7, <6>1 DEF PageOf
        <5>3. QED
          BY <5>1, <5>2
      <4>8. QED
        BY <4>5, <4>6, <4>7 DEF PageOf
    <3>5. CASE ~Wins(e)
      <4>1. lastSeq' = lastSeq /\ \A i \in Items : srv'[i] = srv[i]
        BY <2>3, <3>1, <3>5, ApplyEventEffect
      <4>2. \A i \in Items : Stored(i)' = Stored(i)
        BY <4>1 DEF Stored
      <4>3. QED
        BY <1>2, <2>1, <3>3, <4>1, <4>2 DEF PageOf
    <3>6. QED
      BY <3>4, <3>5
  <2>4. QED
    BY <2>2, <2>3, ServerWrites
<1>3. QED
  BY <1>1, <1>2, PageKept

\* When nobody's clock ran back, applying a page leaves every row at least as
\* new as the version the cursor has passed.
LEMMA PageRows ==
  ASSUME TypeOK, ServerRows, LocalRows, PageIsReceived, PageIsComplete, PassedIsHeld,
         NEW t \in Tills, ApplyPage(t), NEW r \in Rows, r \notin regressed,
         srv[r].seq <= page[t].next \/ srv[r].origin = t
  PROVE  AtLeast(local'[t][r], Ver(srv[r]))
<1> DEFINE new == Ver(srv[r])
<1>1. PageOf(t) /\ r \in Items
  BY DEF PageIsComplete, PageOf, ApplyPage
<1>2. \/ /\ local'[t][r] = local[t][r]
         /\ \A c \in page[t].changes : c.item = r => LocalEditWins(t, c)
      \/ \E c \in page[t].changes :
            c.item = r /\ ~LocalEditWins(t, c) /\ local'[t][r] = Ver(c)
  BY ApplyEffect
<1>3. /\ srv[r].at \in Nat /\ srv[r].tie \in Nat /\ srv[r].seq \in Nat
      /\ local[t][r].at \in Nat /\ local[t][r].tie \in Nat
      /\ page[t].next \in Nat /\ cursor[t] \in Nat
  BY <1>1 DEF TypeOK, Version
<1>4. \A q \in queued[t] : q.item = r => AtLeast(local[t][r], Ver(q))
  BY DEF LocalRows
<1>5. AtLeast(new, new)
  BY <1>3 DEF AtLeast, Beats, Ver
<1>6. CASE HasPassed(t, r)
  <2>1. AtLeast(local[t][r], new)
    BY <1>6 DEF PassedIsHeld
  <2>2. ASSUME NEW c \in page[t].changes, c.item = r, ~LocalEditWins(t, c),
               local'[t][r] = Ver(c)
        PROVE  AtLeast(local'[t][r], new)
    <3>1. CASE c = Stored(r)
      BY <1>5, <2>2, <3>1 DEF Stored, Ver
    <3>2. CASE srv[r].seq > page[t].next /\ (srv[r].origin = t => Stored(r) \in queued[t])
      <4>1. Stored(r) \in queued[t]
        BY <1>3, <3>2
      <4>2. Stored(r).item = c.item /\ Ver(Stored(r)) = new /\ c \in Events
        BY <2>2 DEF Stored, Ver, PageIsReceived, TypeOK
      <4>3. \A f \in queued[t] : f.item = c.item => AtLeast(local[t][c.item], Ver(f))
        BY <1>4, <2>2
      <4>4. AtLeast(Ver(c), Ver(Stored(r)))
        BY <2>2, <4>1, <4>2, <4>3, TakenIsNewer
      <4>5. QED
        BY <2>2, <4>2, <4>4
    <3>3. QED
      BY <1>1, <2>2, <3>1, <3>2 DEF PageOf
  <2>3. QED
    BY <1>2, <2>1, <2>2
<1>7. CASE ~HasPassed(t, r)
  <2>1. Stored(r) \in page[t].changes /\ Stored(r).item = r
    BY <1>1, <1>3, <1>7 DEF HasPassed, PageOf, Stored
  <2>2. ASSUME NEW c \in page[t].changes, c.item = r, local'[t][r] = Ver(c)
        PROVE  AtLeast(local'[t][r], new)
    <3>1. c = Stored(r)
      BY <2>1, <2>2 DEF PageIsReceived
    <3>2. QED
      BY <1>5, <2>2, <3>1 DEF Stored, Ver
  <2>3. ASSUME local'[t][r] = local[t][r], LocalEditWins(t, Stored(r))
        PROVE  AtLeast(local'[t][r], new)
    <3>1. PICK q \in queued[t] :
            /\ NewestEdit(t, r, q)
            /\ local[t][r].at > srv[r].at
               \/ (/\ local[t][r].at = srv[r].at
                   /\ q.at > srv[r].at \/ (q.at = srv[r].at /\ q.tie > srv[r].tie))
      BY <2>3 DEF LocalEditWins, Stored
    <3>2. AtLeast(local[t][r], Ver(q)) /\ q.at \in Nat /\ q.tie \in Nat
      BY <1>4, <3>1, EventFacts DEF NewestEdit, TypeOK
    <3>3. QED
      BY <1>3, <2>3, <3>1, <3>2 DEF AtLeast, Beats, Ver
  <2>4. QED
    BY <1>2, <2>1, <2>2, <2>3
<1>8. QED
  BY <1>6, <1>7

\* What the cursor has passed stays held.
LEMMA PassedStep ==
  ASSUME TypeOK, TypeOK', AcksAreReceived, OnlyRefusedParked, RequestsAreRecorded,
         RecordedIsHeld, ServerRows, LocalRows, PageIsReceived, PageIsComplete,
         PassedIsHeld, [Next]_vars
  PROVE  PassedIsHeld'
<1> USE ItemsAssumption
<1>1. ASSUME NEW u \in Tills PROVE cursor'[u] <= lastSeq'
  <2>1. cursor[u] <= lastSeq /\ cursor[u] \in Nat /\ lastSeq \in Nat
    BY DEF PassedIsHeld, TypeOK
  <2>2. lastSeq' = lastSeq \/ lastSeq' = lastSeq + 1
    BY ServerWrites, ApplyEventEffect
  <2>3. ASSUME NEW t \in Tills, ApplyPage(t), t = u PROVE cursor'[u] <= lastSeq'
    <3>1. phase[t] = "page" /\ lastSeq' = lastSeq
      BY <2>3 DEF ApplyPage, serverVars
    <3>2. cursor'[t] = page[t].next
      BY <2>3, ApplyEffect
    <3>3. page[t].next <= lastSeq
      BY <3>1 DEF PageIsComplete
    <3>4. QED
      BY <2>3, <3>1, <3>2, <3>3
  <2>4. ASSUME NEW t \in Tills, ApplyPage(t), t # u PROVE cursor'[u] = cursor[u]
    BY <2>4, ApplyEffect
  <2>5. QED
    BY <2>1, <2>2, <2>3, <2>4, CursorWrites
<1>2. ASSUME NEW u \in Tills, NEW r \in Rows, r \notin regressed', HasPassed(u, r)'
      PROVE  AtLeast(local'[u][r], Ver(srv'[r]))
  <2>1. r \notin regressed
    BY <1>2, RegressedWrites DEF SaveRow
  <2>2. /\ local[u][r] \in Version /\ local'[u][r] \in Version
        /\ Ver(srv[r]) \in Version
    BY StoredVersion DEF TypeOK
  <2>3. HasPassed(u, r) => AtLeast(local[u][r], Ver(srv[r]))
    BY <2>1 DEF PassedIsHeld
  <2>4. ASSUME NEW t \in Tills, NEW q \in Rows, NEW now \in Time, NEW tie \in Ties,
               SaveRow(t, q, now, tie)
        PROVE  AtLeast(local'[u][r], Ver(srv'[r]))
    <3> DEFINE e == [item |-> q, at |-> now, tie |-> tie]
    <3>1. UNCHANGED <<srv, cursor>>
      BY <2>4 DEF SaveRow, serverVars
    <3>2. HasPassed(u, r)
      BY <1>2, <3>1 DEF HasPassed
    <3>3. CASE u = t /\ r = q
      <4>1. local'[u][r] = Ver(e) /\ Beats(Ver(e), local[u][r])
        BY <1>2, <2>4, <3>3 DEF SaveRow, TypeOK
      <4>2. ~Beats(Ver(srv[r]), local[u][r])
        BY <2>3, <3>2 DEF AtLeast
      <4> HIDE DEF e
      <4>3. ~Beats(Ver(srv[r]), Ver(e))
        BY <2>2, <4>1, <4>2, BeatsOrder
      <4>4. QED
        BY <3>1, <4>1, <4>3 DEF AtLeast
    <3>4. CASE ~(u = t /\ r = q)
      <4>1. local'[u][r] = local[u][r]
        BY <2>4, <3>4 DEF SaveRow, TypeOK
      <4>2. QED
        BY <2>3, <3>1, <3>2, <4>1
    <3>5. QED
      BY <3>3, <3>4
  <2>5. ASSUME NEW t \in Tills, ApplyPage(t) PROVE AtLeast(local'[u][r], Ver(srv'[r]))
    <3>1. UNCHANGED srv
      BY <2>5 DEF ApplyPage, serverVars
    <3>2. CASE u = t
      <4>1. srv[r].seq <= page[t].next \/ srv[r].origin = t
        BY <1>2, <2>5, <3>1, <3>2, ApplyEffect DEF HasPassed
      <4>2. AtLeast(local'[t][r], Ver(srv[r]))
        BY <2>1, <2>5, <4>1, PageRows
      <4>3. QED
        BY <3>1, <3>2, <4>2
    <3>3. CASE u # t
      BY <1>2, <2>3, <2>5, <3>1, <3>3, ApplyEffect DEF HasPassed
    <3>4. QED
      BY <3>2, <3>3
  <2>6. ASSUME NEW e \in txn.todo, ApplyEvent(e) PROVE AtLeast(local'[u][r], Ver(srv'[r]))
    <3>1. UNCHANGED <<local, cursor>>
      BY <2>6 DEF ApplyEvent, tillVars
    <3>2. CASE srv'[r] = srv[r]
      BY <1>2, <2>3, <3>1, <3>2 DEF HasPassed
    <3>3. CASE srv'[r] # srv[r]
      <4>1. /\ r = e.item
            /\ srv'[r] = [at |-> e.at, tie |-> e.tie, seq |-> lastSeq + 1, origin |-> txn.till]
        BY <2>6, <3>3, ApplyEventEffect
      <4>2. ~(srv'[r].seq <= cursor[u])
        BY <4>1 DEF PassedIsHeld, TypeOK
      <4>3. txn.till = u
        BY <1>2, <3>1, <4>1, <4>2 DEF HasPassed
      <4>4. e \in queued[u]
        BY <2>6, <4>3, FirstTimeIsQueued
      <4>5. AtLeast(local[u][r], Ver(e))
        BY <2>1, <4>1, <4>4 DEF LocalRows
      <4>6. Ver(srv'[r]) = Ver(e)
        BY <4>1 DEF Ver
      <4>7. QED
        BY <3>1, <4>5, <4>6
    <3>4. QED
      BY <3>2, <3>3
  <2>7. CASE UNCHANGED <<local, cursor, srv>>
    BY <1>2, <2>3, <2>7 DEF HasPassed
  <2>8. ASSUME NEW t \in Tills, NEW d \in Deltas, NEW now \in Time, MoveStock(t, d, now)
        PROVE  UNCHANGED <<local, cursor, srv>>
    BY <2>8 DEF MoveStock, serverVars
  <2>9. (\E e \in txn.todo : ApplyEvent(e)) \/ UNCHANGED srv
    BY ServerWrites
  <2>10. QED
    BY <2>4, <2>5, <2>6, <2>7, <2>8, <2>9, TillWrites, CursorWrites
<1>3. ASSUME NEW u \in Tills, NEW d \in Deltas, HasPassed(u, d)', srv'[d].seq > 0
      PROVE  d \in held'[u]
  <2>1. held[u] \subseteq held'[u]
    <3>1. ASSUME NEW t \in Tills, ApplyPage(t) PROVE held[u] \subseteq held'[u]
      BY <3>1, ApplyEffect
    <3>2. ASSUME NEW t \in Tills, NEW m \in Deltas, NEW now \in Time, MoveStock(t, m, now)
          PROVE  held[u] \subseteq held'[u]
      BY <3>2 DEF MoveStock, TypeOK
    <3>3. QED
      BY <3>1, <3>2, TillWrites DEF SaveRow
  <2>2. CASE HasPassed(u, d) /\ srv[d].seq > 0
    BY <2>1, <2>2 DEF PassedIsHeld
  <2>3. ASSUME NEW t \in Tills, ApplyPage(t) PROVE d \in held'[u]
    <3>1. UNCHANGED srv
      BY <2>3 DEF ApplyPage, serverVars
    <3>2. CASE u # t
      BY <1>3, <2>2, <2>3, <3>1, <3>2, ApplyEffect DEF HasPassed
    <3>3. CASE u = t /\ ~HasPassed(t, d)
      <4>1. srv[d].seq > cursor[t] /\ srv[d].seq <= page[t].next /\ srv[d].origin # t
        BY <1>3, <2>3, <3>1, <3>3, ApplyEffect DEF HasPassed, TypeOK
      <4>2. Stored(d) \in page[t].changes /\ Stored(d).item = d
        BY <2>3, <4>1 DEF PageIsComplete, ApplyPage, Stored
      <4>3. QED
        BY <2>3, <3>3, <4>2, ApplyEffect
    <3>4. CASE u = t /\ HasPassed(t, d)
      BY <1>3, <2>2, <3>1, <3>4
    <3>5. QED
      BY <3>2, <3>3, <3>4
  <2>4. ASSUME NEW e \in txn.todo, ApplyEvent(e) PROVE d \in held'[u]
    <3>1. UNCHANGED <<held, cursor>>
      BY <2>4 DEF ApplyEvent, tillVars
    <3>2. CASE srv'[d] = srv[d]
      BY <1>3, <2>2, <3>1, <3>2 DEF HasPassed
    <3>3. CASE srv'[d] # srv[d]
      <4>1. /\ d = e.item
            /\ srv'[d] = [at |-> e.at, tie |-> e.tie, seq |-> lastSeq + 1, origin |-> txn.till]
        BY <2>4, <3>3, ApplyEventEffect
      <4>2. ~(srv'[d].seq <= cursor[u])
        BY <4>1 DEF PassedIsHeld, TypeOK
      <4>3. txn.till = u
        BY <1>3, <3>1, <4>1, <4>2 DEF HasPassed
      <4>4. e \in Recorded(u)
        BY <2>4, <4>3, FirstTimeIsQueued DEF Recorded
      <4>5. QED
        BY <3>1, <4>1, <4>4 DEF RecordedIsHeld
    <3>4. QED
      BY <3>2, <3>3
  <2>5. CASE UNCHANGED <<cursor, srv>>
    BY <1>3, <2>2, <2>5 DEF HasPassed
  <2>6. QED
    BY <2>3, <2>4, <2>5, ServerWrites, CursorWrites
<1>4. QED
  BY <1>1, <1>2, <1>3 DEF PassedIsHeld

-----------------------------------------------------------------------------
(* Theorems                                                                *)

\* The named parts hold initially.
LEMMA InitInv == Init => HubInv
<1> SUFFICES ASSUME Init PROVE HubInv
  OBVIOUS
<1> USE DEF Init
<1>1. TypeOK
  BY InitType
<1>2. AcksAreReceived /\ OnlyRefusedParked
  BY DEF AcksAreReceived, OnlyRefusedParked, NoTxn, NoReply
<1>3. RequestsAreRecorded
  BY TillsAssumption DEF RequestsAreRecorded, NoTxn, Recorded
<1>4. RecordedIsHeld
  BY DEF RecordedIsHeld, Recorded
<1>5. StockInv
  BY ItemsAssumption DEF StockInv
<1>6. ServerRows
  BY DEF ServerRows, Absent
<1>7. LocalRows
  BY DEF LocalRows
<1>8. PageIsReceived /\ PageIsComplete
  BY DEF PageIsReceived, PageIsComplete, NoPage
<1>9. PassedIsHeld
  <2>1. \A t \in Tills, r \in Rows : AtLeast(local[t][r], Ver(srv[r]))
    BY DEF AtLeast, Beats, Ver, NoVersion, Absent
  <2>2. \A d \in Deltas : srv[d].seq = 0
    BY DEF Absent
  <2>3. QED
    BY <2>1, <2>2 DEF PassedIsHeld
<1>10. QED
  BY <1>1, <1>2, <1>3, <1>4, <1>5, <1>6, <1>7, <1>8, <1>9 DEF HubInv, CommonInv

\* Every step keeps what holds of either server.
LEMMA CommonStep == CommonInv /\ [Next]_vars => CommonInv'
  BY TypeStep, AcksStep, ParkedStep, RequestsStep, HeldStep, StockStep, ServerRowsStep,
     LocalRowsStep, PageStep DEF CommonInv

\* Every step keeps what holds of the hub.
LEMMA HubStep == Server = "hub" /\ HubInv /\ [Next]_vars => HubInv'
<1> SUFFICES ASSUME Server = "hub", HubInv, [Next]_vars PROVE HubInv'
  OBVIOUS
<1>1. CommonInv'
  BY CommonStep DEF HubInv
<1>2. PageIsComplete'
  BY PageCompleteStep DEF HubInv, CommonInv
<1>3. PassedIsHeld'
  BY <1>1, PassedStep DEF HubInv, CommonInv
<1>4. QED
  BY <1>1, <1>2, <1>3 DEF HubInv

\* The parts that hold of either server hold always.
THEOREM CommonAlways == Spec => []CommonInv
<1>1. Init => CommonInv
  BY InitInv DEF HubInv
<1>2. QED
  BY <1>1, CommonStep, PTL DEF Spec

\* The types are kept by the tills and the server in every reachable state.
THEOREM TypeCorrect == Spec => []TypeOK
<1>1. CommonInv => TypeOK
  BY DEF CommonInv
<1>2. QED
  BY <1>1, CommonAlways, PTL

\* engine.rs marks an event sent only when the server has applied it: nothing
\* recorded is lost between the outbox and the server.
THEOREM NothingLost == Spec => []SentIsReceived
<1>1. CommonInv => SentIsReceived
  BY DEF CommonInv, AcksAreReceived, SentIsReceived
<1>2. QED
  BY <1>1, CommonAlways, PTL

\* apply.rs and move_stock count each movement once in the cached stock.
THEOREM StockCorrect == Spec => []StockCountedOnce
<1>1. CommonInv => StockCountedOnce
  BY DEF CommonInv, StockInv, StockCountedOnce
<1>2. QED
  BY <1>1, CommonAlways, PTL

\* apply::local_edit_wins never lets a pulled row replace a newer unsent edit.
THEOREM EditKept == Spec => []UnsentEditKept
<1>1. CommonInv => UnsentEditKept
  BY DEF CommonInv, LocalRows, AtLeast, UnsentEditKept
<1>2. QED
  BY <1>1, CommonAlways, PTL

\* Against the hub, a till that has passed an item holds it.
THEOREM HubAlways == ASSUME Server = "hub" PROVE Spec => []HubInv
<1>1. HubInv /\ [Next]_vars => HubInv'
  BY HubStep
<1>2. QED
  BY <1>1, InitInv, PTL DEF Spec

\* hub::pull leaves no gap: a till that has passed an item and has nothing
\* waiting for it holds exactly the hub's version.
THEOREM HubCaughtUp == ASSUME Server = "hub" PROVE Spec => []CaughtUp
<1>1. ASSUME HubInv PROVE CaughtUp
  <2> USE <1>1 DEF HubInv, CommonInv
  <2>1. ASSUME NEW t \in Tills, NEW r \in Rows \ regressed, HasPassed(t, r), NothingWaits(t, r)
        PROVE  local[t][r] = Ver(srv[r])
    <3>1. r \in Items /\ local[t][r] \in Version /\ Ver(srv[r]) \in Version
      BY StoredVersion DEF TypeOK
    <3>2. ~Beats(Ver(srv[r]), local[t][r])
      BY <2>1 DEF PassedIsHeld, AtLeast
    <3>3. ~Beats(local[t][r], Ver(srv[r]))
      <4>1. CASE local[t][r] = NoVersion
        BY <3>1, <4>1 DEF Beats, NoVersion, Version
      <4>2. CASE local[t][r] # NoVersion
        <5>1. PICK e \in Recorded(t) \cup received : e.item = r /\ Ver(e) = local[t][r]
          BY <4>2 DEF LocalRows
        <5>2. e \in received
          BY <2>1, <5>1 DEF NothingWaits, Recorded, AcksAreReceived
        <5>3. ~Beats(Ver(e), srv[r])
          BY <5>1, <5>2 DEF ServerRows, AtLeast
        <5>4. QED
          BY <3>1, <5>1, <5>3, StoredVersion
      <4>3. QED
        BY <4>1, <4>2
    <3>4. QED
      BY <3>1, <3>2, <3>3, BeatsOrder
  <2>2. ASSUME NEW t \in Tills, NEW d \in Deltas, HasPassed(t, d), srv[d].seq > 0
        PROVE  d \in held[t]
    BY <2>2 DEF PassedIsHeld
  <2>3. QED
    BY <2>1, <2>2 DEF CaughtUp
<1>2. QED
  BY <1>1, HubAlways, PTL

\* Against the hub the stored pull position only grows, within the numbers
\* the hub has given out.
THEOREM HubCursor == ASSUME Server = "hub" PROVE Spec => CursorMovesForward
<1> DEFINE Forward == \A t \in Tills : cursor[t] <= cursor'[t] /\ cursor'[t] <= lastSeq'
<1>1. ASSUME HubInv, HubInv', [Next]_vars PROVE Forward
  <2> USE <1>1 DEF HubInv, CommonInv
  <2>1. ASSUME NEW u \in Tills PROVE cursor[u] <= cursor'[u] /\ cursor'[u] <= lastSeq'
    <3>1. cursor'[u] <= lastSeq'
      BY DEF PassedIsHeld
    <3>2. cursor[u] \in Nat
      BY DEF TypeOK
    <3>3. ASSUME NEW t \in Tills, ApplyPage(t) PROVE cursor[u] <= cursor'[u]
      <4>1. CASE u = t
        <5>1. phase[t] = "page"
          BY <3>3 DEF ApplyPage
        <5>2. cursor[t] <= page[t].next
          BY <5>1 DEF PageIsComplete
        <5>3. QED
          BY <3>3, <4>1, <5>2, ApplyEffect
      <4>2. CASE u # t
        BY <3>2, <3>3, <4>2, ApplyEffect
      <4>3. QED
        BY <4>1, <4>2
    <3>4. QED
      BY <3>1, <3>2, <3>3, CursorWrites
  <2>2. QED
    BY <2>1
<1>2. HubInv /\ HubInv' /\ [Next]_vars => [Forward]_vars
  BY <1>1
<1>3. QED
  BY <1>2, HubAlways, PTL DEF Spec, CursorMovesForward

-----------------------------------------------------------------------------
(* Either server keeps the ledger                                          *)

\* The server's rows are what the ledger makes of the events received.
KeepsLedger ==
  /\ \A r \in Rows : Ledger!Greatest(received, r, Ver(srv[r]))
  /\ {d \in Deltas : srv[d].seq > 0} = {d \in Deltas : \E f \in received : f.item = d}

\* Being the greatest of the events received, they are.
LEMMA LedgerRows ==
  ASSUME TypeOK, ServerRows
  PROVE  KeepsLedger
<1>1. ASSUME NEW r \in Rows PROVE Ledger!Greatest(received, r, Ver(srv[r]))
  <2>1. \A e \in received : e.item = r => ~Ledger!Above(e, Ver(srv[r]))
    BY <1>1 DEF ServerRows, AtLeast, Beats, Ver, Ledger!Above
  <2>2. CASE srv[r].seq = 0
    <3>1. Ver(srv[r]).at = 0 /\ Ver(srv[r]).tie = 0
      BY <2>2 DEF ServerRows, Absent, Ver
    <3>2. \A e \in received : e.item # r
      BY <2>2 DEF ServerRows
    <3>3. QED
      BY <2>1, <3>1, <3>2 DEF Ledger!Greatest
  <2>3. CASE srv[r].seq > 0
    <3>1. Stored(r) \in received
      BY <2>3 DEF ServerRows
    <3>2. \E e \in received : e.item = r /\ e.at = Ver(srv[r]).at /\ e.tie = Ver(srv[r]).tie
      BY <3>1 DEF Stored, Ver
    <3>3. QED
      BY <2>1, <3>2 DEF Ledger!Greatest
  <2>4. QED
    BY <2>2, <2>3, StoredVersion
<1>2. ASSUME NEW d \in Deltas
      PROVE  srv[d].seq > 0 <=> \E f \in received : f.item = d
  <2>1. srv[d].seq > 0 => Stored(d) \in received /\ Stored(d).item = d
    BY DEF ServerRows, Stored
  <2>2. \A f \in received : f.item = d => srv[d].seq > 0
    BY DEF ServerRows
  <2>3. QED
    BY <2>1, <2>2
<1>3. QED
  BY <1>1, <1>2 DEF KeepsLedger

\* Whatever the order, the repetitions and the losses of the requests, the
\* server's rows are a function of the set of events it took.
THEOREM ServerIsLedger == Spec => LedgerSpec
<1>1. Init => Ledger!Init
  <2> SUFFICES ASSUME Init PROVE Ledger!Init
    OBVIOUS
  <2>1. \A r \in Rows : Ver(srv[r]) = [at |-> 0, tie |-> 0]
    BY DEF Init, Absent, Ver
  <2>2. {d \in Deltas : srv[d].seq > 0} = {}
    BY DEF Init, Absent
  <2>3. QED
    BY <2>1, <2>2 DEF Init, Ledger!Init
<1>2. CommonInv /\ KeepsLedger' /\ [Next]_vars => [Ledger!Next]_(Ledger!vars)
  <2> SUFFICES ASSUME CommonInv, KeepsLedger', [Next]_vars PROVE [Ledger!Next]_(Ledger!vars)
    OBVIOUS
  <2>1. CASE UNCHANGED <<srv, lastSeq, received>>
    <3>1. UNCHANGED Ledger!vars
      BY <2>1 DEF Ledger!vars
    <3>2. QED
      BY <3>1
  <2>2. ASSUME NEW e \in txn.todo, ApplyEvent(e) PROVE Ledger!Next
    <3>1. e \in Events /\ e \notin received /\ received' = received \cup {e}
      BY <2>2, ApplyEventEffect DEF CommonInv
    <3>2. /\ \A r \in Rows : Ledger!Greatest(received', r, Ver(srv'[r]))
          /\ {d \in Deltas : srv'[d].seq > 0} = {d \in Deltas : \E f \in received' : f.item = d}
      BY DEF KeepsLedger
    <3>3. Ledger!Take(e)
      BY <3>1, <3>2 DEF Ledger!Take
    <3>4. QED
      BY <3>1, <3>3 DEF Ledger!Next
  <2>3. QED
    BY <2>1, <2>2, ServerWrites
<1>3. CommonInv => KeepsLedger
  BY LedgerRows DEF CommonInv
<1>4. QED
  BY <1>1, <1>2, <1>3, CommonAlways, PTL DEF Spec, LedgerSpec, Ledger!Spec
=============================================================================
