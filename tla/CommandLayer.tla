---------------------------- MODULE CommandLayer ----------------------------
(***************************************************************************)
(* The threads of the till and what they share.  A command runs on the     *)
(* blocking pool; the workers (sync, licence, print queue, backup) and the *)
(* hub's server are threads too.  What a call does to the shared mutexes,  *)
(* the session slot, the audit log and the world outside is its script, a  *)
(* sequence of steps; the scripts of this program are in TillCommands.     *)
(* Guards are dropped when a call returns, so a call that fails anywhere   *)
(* lets go of what it holds.                                               *)
(***************************************************************************)
EXTENDS Naturals, Sequences, FiniteSets

CONSTANTS
  Threads,
  Commands,    \* the calls that are made
  Script,      \* Script[c]: the steps of call c
  Locks,       \* the mutexes, and the devices a call may wait for
  Rank,        \* Rank[l]: the order they are taken in
  Users, Nobody,
  Level,       \* Level[u]: how much the role of u may do
  MaxCalls     \* bound: calls

Idle == "idle"
Steps == [do : {"take", "pass", "out", "give"}, on : Locks]
         \cup [do : {"may", "can"}, on : Nat]
         \cup [do : {"peek", "audit", "enter", "leave"}, on : {0}]

ASSUME CommandAssumption ==
  /\ Rank \in [Locks -> Nat] /\ Level \in [Users -> Nat]
  /\ Idle \notin Commands /\ Nobody \notin Users /\ Nobody \notin Threads
  /\ \A c \in Commands : Script[c] \in Seq(Steps)
  /\ MaxCalls \in Nat

VARIABLES
  call,    \* call[t]: what thread t runs, or Idle
  pos,     \* pos[t]: its next step
  holder,  \* holder[l]: the thread with mutex l, or Nobody
  slot,    \* SessionStore
  who,     \* who[t]: the session the call found (Authorized)
  entry,   \* the audit entry just written: who, and the level its command asks for
  calls    \* calls so far

cmdVars == <<call, pos, holder, slot, who, entry, calls>>

NoEntry == [user |-> Nobody, asks |-> 0]

CmdInit ==
  /\ call = [t \in Threads |-> Idle]
  /\ pos = [t \in Threads |-> 1]
  /\ holder = [l \in Locks |-> Nobody]
  /\ slot = Nobody
  /\ who = [t \in Threads |-> Nobody]
  /\ entry = NoEntry
  /\ calls = 0

Busy(t) == call[t] # Idle
Ended(t) == pos[t] > Len(Script[call[t]])
Now(t) == Script[call[t]][pos[t]]
At(t, do) == Busy(t) /\ ~Ended(t) /\ Now(t).do = do

\* What call c asks its user to be allowed.
Asks(c) == LET s == Script[c]
               levels == {s[i].on : i \in {j \in DOMAIN s : s[j].do \in {"may", "can"}}}
           IN IF levels = {} THEN 0 ELSE CHOOSE p \in levels : \A q \in levels : q <= p

Advance(t) == pos' = [pos EXCEPT ![t] = @ + 1] /\ UNCHANGED <<call, calls>>
Released(t) == [l \in Locks |-> IF holder[l] = t THEN Nobody ELSE holder[l]]

\* The call returns, with its result or, anywhere, with an error.
Return(t) ==
  /\ call' = [call EXCEPT ![t] = Idle]
  /\ pos' = [pos EXCEPT ![t] = 1]
  /\ who' = [who EXCEPT ![t] = Nobody]
  /\ holder' = Released(t)
  /\ UNCHANGED calls

Begin(t, c) ==
  /\ ~Busy(t) /\ calls < MaxCalls
  /\ calls' = calls + 1
  /\ call' = [call EXCEPT ![t] = c]
  /\ pos' = [pos EXCEPT ![t] = 1]
  /\ entry' = NoEntry
  /\ UNCHANGED <<holder, slot, who>>

\* lock(): std's Mutex is not re-entrant, a thread waits for itself too.
Take(t) ==
  /\ At(t, "take") /\ holder[Now(t).on] = Nobody
  /\ holder' = [holder EXCEPT ![Now(t).on] = t]
  /\ Advance(t)
  /\ entry' = NoEntry /\ UNCHANGED <<slot, who>>

\* A mutex taken and let go in one statement.
Pass(t) ==
  /\ At(t, "pass") /\ holder[Now(t).on] = Nobody
  /\ Advance(t)
  /\ entry' = NoEntry /\ UNCHANGED <<holder, slot, who>>

Give(t) ==
  /\ At(t, "give")
  /\ holder' = [holder EXCEPT ![Now(t).on] = Nobody]
  /\ Advance(t)
  /\ entry' = NoEntry /\ UNCHANGED <<slot, who>>

\* A printer or the network: it may take long, and answers or times out.
Out(t) ==
  /\ At(t, "out")
  /\ Advance(t)
  /\ entry' = NoEntry /\ UNCHANGED <<holder, slot, who>>

\* check_session: the session is copied; without the permission the call ends.
May(t) ==
  /\ At(t, "may")
  /\ IF slot # Nobody /\ Level[slot] >= Now(t).on
     THEN /\ who' = [who EXCEPT ![t] = slot]
          /\ Advance(t) /\ UNCHANGED holder
     ELSE Return(t)
  /\ entry' = NoEntry /\ UNCHANGED slot

\* rbac::authorize of the session the call found, further on.
Can(t) ==
  /\ At(t, "can")
  /\ IF who[t] # Nobody /\ Level[who[t]] >= Now(t).on
     THEN Advance(t) /\ UNCHANGED <<holder, who>>
     ELSE Return(t)
  /\ entry' = NoEntry /\ UNCHANGED slot

\* SessionStore::current where nothing is asked of it.
Peek(t) ==
  /\ At(t, "peek")
  /\ who' = [who EXCEPT ![t] = slot]
  /\ Advance(t)
  /\ entry' = NoEntry /\ UNCHANGED <<holder, slot>>

CallerAtWrite(t) == slot                \* mutant: the session is read when the entry is written
Caller(t) == who[t]

\* audit::record with the actor of the call.
Audit(t) ==
  /\ At(t, "audit")
  /\ entry' = [user |-> Caller(t), asks |-> Asks(call[t])]
  /\ Advance(t)
  /\ UNCHANGED <<holder, slot, who>>

Enter(t) ==
  /\ At(t, "enter")
  /\ \E u \in Users : slot' = u
  /\ Advance(t)
  /\ entry' = NoEntry /\ UNCHANGED <<holder, who>>

Leave(t) ==
  /\ At(t, "leave")
  /\ slot' = Nobody
  /\ Advance(t)
  /\ entry' = NoEntry /\ UNCHANGED <<holder, who>>

End(t) == Busy(t) /\ Ended(t) /\ Return(t) /\ entry' = NoEntry /\ UNCHANGED slot
Fail(t) == Busy(t) /\ ~Ended(t) /\ Return(t) /\ entry' = NoEntry /\ UNCHANGED slot

Proceed(t) ==
  Take(t) \/ Pass(t) \/ Give(t) \/ Out(t) \/ May(t) \/ Can(t) \/ Peek(t)
  \/ Audit(t) \/ Enter(t) \/ Leave(t) \/ End(t)

CmdNext ==
  \E t \in Threads : \/ \E c \in Commands : Begin(t, c)
                     \/ Proceed(t) \/ Fail(t)

CmdSpec == CmdInit /\ [][CmdNext]_cmdVars

\* A thread that can go on does: the scheduler runs it, every device answers or
\* times out, and a mutex that stays free is got.
CmdFairness == \A t \in Threads : WF_cmdVars(Proceed(t))

-----------------------------------------------------------------------------
(* The discipline the scripts keep.                                         *)

\* The mutexes a call has after the first i - 1 steps of script s.
HeldAt(s, i) ==
  {s[j].on : j \in {k \in 1..(i - 1) : s[k].do = "take"
                      /\ \A m \in (k + 1)..(i - 1) : ~(s[m].do = "give" /\ s[m].on = s[k].on)}}

Waits(step) == step.do \in {"take", "pass", "out"}

\* Script s takes everything in the order of the ranks, and gives what it has.
Ordered(s) ==
  \A i \in DOMAIN s :
    /\ Waits(s[i]) => \A l \in HeldAt(s, i) : Rank[l] < Rank[s[i].on]
    /\ s[i].do = "give" => s[i].on \in HeldAt(s, i)

Checks(step) == step.do \in {"may", "can"}

\* Script s looks the session up once, before it asks anything more of it, and
\* everything it asks comes before what it writes into the audit log.
Checked(s) ==
  \A i \in DOMAIN s, j \in DOMAIN s :
    /\ s[i].do = "audit" /\ Checks(s[j]) => j < i
    /\ s[i].do \in {"may", "peek"} /\ Checks(s[j]) => i <= j

-----------------------------------------------------------------------------
(* Properties.                                                              *)

\* Whoever waits for a mutex, the printer or the network has only mutexes that
\* come before it: nobody waits for itself, no ring of waits can close, and no
\* printer or network call is made with the database or the licence in hand
\* (engine.rs:12, printing.rs:296, license/mod.rs:454).  What is let go is one's
\* own.
LocksInOrder ==
  \A t \in Threads : (Busy(t) /\ ~Ended(t)) =>
    /\ Waits(Now(t)) => \A l \in Locks : holder[l] = t => Rank[l] < Rank[Now(t).on]
    /\ Now(t).do = "give" => holder[Now(t).on] = t

\* The audit log names the user who was allowed to do what it says, even when
\* the till changes hands between the check and the entry (Authorized::actor).
AuditNamesCaller == entry.asks > 0 => entry.user # Nobody /\ Level[entry.user] >= entry.asks

\* Every call comes back: it waits for nobody for ever.
EveryCallReturns == \A t \in Threads : [](Busy(t) => <>~Busy(t))
=============================================================================
