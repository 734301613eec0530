---------------------------- MODULE TillSyncInv ----------------------------
(***************************************************************************)
(* The inductive invariant behind the safety properties of TillSync, as a  *)
(* conjunction of named parts.  TLC checks it on the instances of          *)
(* MCTillSync; TillSync_proofs proves it.                                  *)
(***************************************************************************)
EXTENDS TillSync

Stored(i) == [item |-> i, at |-> srv[i].at, tie |-> srv[i].tie]
AtLeast(v, w) == ~Beats(w, v)

\* Acknowledgements are given for applied events only, wherever they are on
\* their way: in the transaction, in the answer, on the outbox.
AcksAreReceived ==
  /\ txn.acked \subseteq received
  /\ \A t \in Tills : sent[t] \cup reply[t].acked \subseteq received

\* Only items the server refuses are ever parked.
OnlyRefusedParked ==
  /\ \A e \in txn.refused : e.item \in Refused
  /\ \A t \in Tills : \A e \in parked[t] \cup reply[t].refused : e.item \in Refused

\* Requests, on time or late, carry what their sender recorded.
RequestsAreRecorded ==
  /\ txn = NoTxn \/ txn.till \in Tills
  /\ txn.till \in Tills => txn.todo \subseteq Recorded(txn.till)
  /\ \A t \in Tills : batch[t] \cup late[t] \subseteq Recorded(t)
  /\ \A e \in received : \E t \in Tills : e \in Recorded(t)

\* A till holds what it recorded and what it holds belongs to a product some
\* till has.
RecordedIsHeld ==
  /\ \A t \in Tills : \A e \in Recorded(t) : e.item \in Deltas => e.item \in held[t]
  /\ \A t \in Tills : \A d \in held[t] : \E u \in Tills : local[u][ProductOf[d]] # NoVersion

\* No figure before the product, then each movement held counts once.
StockInv ==
  \A t \in Tills, d \in Deltas :
    counted[t][d] = IF local[t][ProductOf[d]] # NoVersion /\ d \in held[t] THEN 1 ELSE 0

\* The server's rows are the greatest of the events received.
ServerRows ==
  /\ \A i \in Items : /\ srv[i].seq <= lastSeq
                      /\ srv[i].seq = 0 => srv[i] = Absent
                      /\ srv[i].seq > 0 => Stored(i) \in received
  /\ \A e \in received : /\ srv[e.item].seq > 0
                         /\ e.item \in Rows => AtLeast(srv[e.item], Ver(e))

\* A row is as new as every unsent edit of it, and each version a till holds
\* is either its own record or one the server has taken.
LocalRows ==
  \A t \in Tills, r \in Rows :
    /\ r \notin regressed =>
         \A q \in queued[t] : q.item = r => AtLeast(local[t][r], Ver(q))
    /\ local[t][r] # NoVersion =>
         \E e \in Recorded(t) \cup received : e.item = r /\ Ver(e) = local[t][r]

\* A page never shows what the server does not have.
PageIsReceived ==
  \A t \in Tills : /\ page[t].changes \subseteq received
                   /\ \A c, d \in page[t].changes : c.item = d.item => c = d

\* A page in hand holds every version the new cursor will pass; a version in
\* it is the server's still, or the row has a later number by now, and then,
\* if this till wrote it, the edit is still in its outbox.
PageIsComplete ==
  \A t \in Tills : phase[t] = "page" =>
    /\ cursor[t] <= page[t].next
    /\ page[t].next <= lastSeq
    /\ \A i \in Items :
         srv[i].seq > cursor[t] /\ srv[i].seq <= page[t].next /\ srv[i].origin # t
           => Stored(i) \in page[t].changes
    /\ \A c \in page[t].changes : c.item \in Rows =>
         \/ c = Stored(c.item)
         \/ /\ srv[c.item].seq > page[t].next
            /\ srv[c.item].origin = t => Stored(c.item) \in queued[t]

\* What the cursor has passed the till has.
PassedIsHeld ==
  \A t \in Tills :
    /\ cursor[t] <= lastSeq
    /\ \A r \in Rows \ regressed : HasPassed(t, r) => AtLeast(local[t][r], Ver(srv[r]))
    /\ \A d \in Deltas : HasPassed(t, d) /\ srv[d].seq > 0 => d \in held[t]

\* True of either server.
CommonInv ==
  /\ TypeOK
  /\ AcksAreReceived
  /\ OnlyRefusedParked
  /\ RequestsAreRecorded
  /\ RecordedIsHeld
  /\ StockInv
  /\ ServerRows
  /\ LocalRows
  /\ PageIsReceived

\* True of the hub, whose pages are read in one statement.
HubInv == CommonInv /\ PageIsComplete /\ PassedIsHeld
=============================================================================
