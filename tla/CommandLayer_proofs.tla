------------------------ MODULE CommandLayer_proofs ------------------------
(***************************************************************************)
(* The lock order and the audit log, for any number of threads, commands   *)
(* and mutexes and any scripts that keep the discipline.                   *)
(***************************************************************************)
EXTENDS CommandLayer, WellFoundedInduction, TLAPS

-----------------------------------------------------------------------------
(* Numbers.                                                                 *)

\* A bounded set of naturals that is not empty has a greatest element.
LEMMA Greatest ==
  ASSUME NEW T, T \subseteq Nat, T # {}, NEW n \in Nat, \A x \in T : x <= n
  PROVE  \E x \in T : \A y \in T : y <= x
<1> DEFINE R == OpToRel(<, Nat)
           D == {n - x : x \in T}
<1>1. D \subseteq Nat /\ D # {}
  <2>1. \A x \in T : n - x \in Nat
    OBVIOUS
  <2>2. PICK x \in T : TRUE
    OBVIOUS
  <2>3. n - x \in D
    BY <2>2
  <2> QED
    BY <2>1, <2>3
<1>2. PICK d \in D : \A e \in D : ~(<<e, d>> \in R)
  <2> HIDE DEF D, R
  <2>1. IsWellFoundedOn(R, Nat)
    BY NatLessThanWellFounded DEF R
  <2> QED
    BY <1>1, <2>1, WFMin
<1>3. \A e \in D : ~(e < d)
  BY <1>1, <1>2 DEF OpToRel
<1>4. PICK x \in T : d = n - x
  OBVIOUS
<1>5. \A y \in T : y <= x
  <2> TAKE y \in T
  <2>1. n - y \in D
    OBVIOUS
  <2> QED
    BY <1>3, <1>4, <2>1
<1> QED
  BY <1>5

-----------------------------------------------------------------------------
(* What a step does, as far as mutexes go.                                  *)

CmdShape ==
  /\ call \in [Threads -> Commands \cup {Idle}]
  /\ pos \in [Threads -> Nat \ {0}]
  /\ holder \in [Locks -> Threads \cup {Nobody}]
  /\ slot \in Users \cup {Nobody}
  /\ who \in [Threads -> Users \cup {Nobody}]
  /\ \A t \in Threads : Busy(t) => pos[t] <= Len(Script[call[t]]) + 1

Going(t) == Busy(t) /\ ~Ended(t)

Forward(t) ==
  /\ Going(t)
  /\ Advance(t)
  /\ \/ /\ Now(t).do = "take" /\ holder[Now(t).on] = Nobody
        /\ holder' = [holder EXCEPT ![Now(t).on] = t]
     \/ /\ Now(t).do = "give"
        /\ holder' = [holder EXCEPT ![Now(t).on] = Nobody]
     \/ /\ Now(t).do \notin {"take", "give"}
        /\ UNCHANGED holder

\* Every step starts a call, ends one, or takes one forward.
LEMMA StepKinds ==
  ASSUME CmdNext
  PROVE  \E t \in Threads : \/ \E c \in Commands : Begin(t, c)
                            \/ Busy(t) /\ Return(t)
                            \/ Forward(t)
<1>1. PICK t \in Threads : (\E c \in Commands : Begin(t, c)) \/ Proceed(t) \/ Fail(t)
  BY DEF CmdNext
<1>2. CASE \E c \in Commands : Begin(t, c)
  BY <1>2
<1>3. CASE Fail(t) \/ End(t)
  BY <1>3 DEF Fail, End
<1>4. CASE Take(t)
  BY <1>4 DEF Take, At, Forward, Going
<1>5. CASE Give(t)
  BY <1>5 DEF Give, At, Forward, Going
<1>6. CASE Pass(t) \/ Out(t) \/ Peek(t)
  BY <1>6 DEF Pass, Out, Peek, At, Forward, Going
<1>7. CASE Audit(t) \/ Enter(t) \/ Leave(t)
  BY <1>7 DEF Audit, Enter, Leave, At, Forward, Going
<1>8. CASE May(t) \/ Can(t)
  BY <1>8 DEF May, Can, At, Forward, Going
<1> QED
  BY <1>1, <1>2, <1>3, <1>4, <1>5, <1>6, <1>7, <1>8 DEF Proceed

\* The current step of a call that goes on is one of the steps there are.
LEMMA NowIsStep ==
  ASSUME CmdShape, NEW t \in Threads, Going(t)
  PROVE  /\ call[t] \in Commands
         /\ Script[call[t]] \in Seq(Steps)
         /\ pos[t] \in 1..Len(Script[call[t]])
         /\ Now(t) \in Steps
<1>1. call[t] \in Commands /\ Script[call[t]] \in Seq(Steps)
  BY CommandAssumption DEF CmdShape, Going, Busy
<1>2. pos[t] \in 1..Len(Script[call[t]])
  BY <1>1 DEF CmdShape, Going, Ended
<1> QED
  BY <1>1, <1>2 DEF Now

LEMMA TakesALock ==
  ASSUME NEW s \in Steps, s.do \in {"take", "pass", "out", "give"}
  PROVE  s.on \in Locks
BY DEF Steps

LEMMA ShapeInit == CmdInit => CmdShape
BY CommandAssumption DEF CmdInit, CmdShape, Busy

LEMMA ShapeStep == CmdShape /\ [CmdNext]_cmdVars => CmdShape'
<1> SUFFICES ASSUME CmdShape, [CmdNext]_cmdVars
             PROVE  CmdShape'
  OBVIOUS
<1>1. CASE UNCHANGED cmdVars
  BY <1>1 DEF CmdShape, cmdVars, Busy
<1>2. CASE CmdNext
  <2>1. PICK t \in Threads : (\E c \in Commands : Begin(t, c)) \/ Proceed(t) \/ Fail(t)
    BY <1>2 DEF CmdNext
  <2>2. slot' \in Users \cup {Nobody} /\ who' \in [Threads -> Users \cup {Nobody}]
    BY <2>1 DEF CmdShape, Begin, Proceed, Fail, Take, Pass, Give, Out, May, Can, Peek, Audit,
                Enter, Leave, End, Return
  <2>3. PICK u \in Threads : \/ \E c \in Commands : Begin(u, c)
                             \/ Busy(u) /\ Return(u)
                             \/ Forward(u)
    BY <1>2, StepKinds
  <2>4. CASE \E c \in Commands : Begin(u, c)
    <3>1. PICK c \in Commands : Begin(u, c)
      BY <2>4
    <3>2. Script[c] \in Seq(Steps)
      BY CommandAssumption
    <3>3. \A v \in Threads : Busy(v)' => pos'[v] <= Len(Script[call'[v]]) + 1
      BY <3>1, <3>2 DEF Begin, CmdShape, Busy
    <3> QED
      BY <2>2, <3>1, <3>3 DEF Begin, CmdShape
  <2>5. CASE Busy(u) /\ Return(u)
    <3>1. holder' \in [Locks -> Threads \cup {Nobody}]
      BY <2>5 DEF Return, Released, CmdShape
    <3>2. \A v \in Threads : Busy(v)' => pos'[v] <= Len(Script[call'[v]]) + 1
      BY <2>5 DEF Return, CmdShape, Busy
    <3> QED
      BY <2>2, <2>5, <3>1, <3>2 DEF Return, CmdShape
  <2>6. CASE Forward(u)
    <3>1. Script[call[u]] \in Seq(Steps) /\ pos[u] \in 1..Len(Script[call[u]]) /\ Now(u) \in Steps
      BY <2>6, NowIsStep DEF Forward
    <3>2. holder' \in [Locks -> Threads \cup {Nobody}]
      BY <2>6, <3>1, TakesALock DEF Forward, CmdShape
    <3>3. call' = call /\ pos' = [pos EXCEPT ![u] = @ + 1]
      BY <2>6 DEF Forward, Advance
    <3>4. \A v \in Threads : Busy(v)' => pos'[v] <= Len(Script[call'[v]]) + 1
      BY <3>1, <3>3 DEF CmdShape, Busy
    <3> QED
      BY <2>2, <3>2, <3>3, <3>4 DEF CmdShape
  <2> QED
    BY <2>3, <2>4, <2>5, <2>6
<1> QED
  BY <1>1, <1>2

-----------------------------------------------------------------------------
(* Who has which mutex: exactly what the steps passed so far took and did   *)
(* not give.                                                                *)

LEMMA HeldFirst == \A s : HeldAt(s, 1) = {}
BY DEF HeldAt

LEMMA HeldNext ==
  ASSUME NEW s \in Seq(Steps), NEW i \in 1..Len(s)
  PROVE  /\ s[i].do = "take" => HeldAt(s, i + 1) = HeldAt(s, i) \cup {s[i].on}
         /\ s[i].do = "give" => HeldAt(s, i + 1) = HeldAt(s, i) \ {s[i].on}
         /\ s[i].do \notin {"take", "give"} => HeldAt(s, i + 1) = HeldAt(s, i)
<1> DEFINE K(n) == {k \in 1..(n - 1) : s[k].do = "take"
                      /\ \A m \in (k + 1)..(n - 1) : ~(s[m].do = "give" /\ s[m].on = s[k].on)}
<1>1. HeldAt(s, i) = {s[j].on : j \in K(i)} /\ HeldAt(s, i + 1) = {s[j].on : j \in K(i + 1)}
  BY DEF HeldAt
<1>2. (i + 1) - 1 = i
  OBVIOUS
<1>3. CASE s[i].do = "take"
  <2>1. K(i + 1) = K(i) \cup {i}
    BY <1>2, <1>3
  <2> QED
    BY <1>1, <1>3, <2>1
<1>4. CASE s[i].do = "give"
  <2>1. K(i + 1) = {k \in K(i) : s[k].on # s[i].on}
    BY <1>2, <1>4
  <2> QED
    BY <1>1, <1>4, <2>1
<1>5. CASE s[i].do \notin {"take", "give"}
  <2>1. K(i + 1) = K(i)
    BY <1>2, <1>5
  <2> QED
    BY <1>1, <1>5, <2>1
<1> QED
  BY <1>3, <1>4, <1>5

Disciplined == \A c \in Commands : Ordered(Script[c])

Holding ==
  \A t \in Threads, l \in Locks :
    holder[l] = t <=> Busy(t) /\ l \in HeldAt(Script[call[t]], pos[t])

LEMMA HoldingInit == CmdInit => Holding
BY CommandAssumption DEF CmdInit, Holding, Busy

LEMMA HoldingStep ==
  ASSUME Disciplined, CmdShape, Holding, [CmdNext]_cmdVars
  PROVE  Holding'
<1>1. CASE UNCHANGED cmdVars
  BY <1>1 DEF Holding, cmdVars, Busy
<1>2. CASE CmdNext
  <2>1. PICK t \in Threads : \/ \E c \in Commands : Begin(t, c)
                             \/ Busy(t) /\ Return(t)
                             \/ Forward(t)
    BY <1>2, StepKinds
  <2>2. SUFFICES ASSUME NEW u \in Threads, NEW l \in Locks
                 PROVE  holder'[l] = u <=> call'[u] # Idle /\ l \in HeldAt(Script[call'[u]], pos'[u])
    BY DEF Holding, Busy
  <2>3. holder[l] = u <=> call[u] # Idle /\ l \in HeldAt(Script[call[u]], pos[u])
    BY DEF Holding, Busy
  <2>4. CASE \E c \in Commands : Begin(t, c)
    <3>1. PICK c \in Commands : Begin(t, c)
      BY <2>4
    <3>2. CASE u = t
      BY <2>3, <3>1, <3>2, HeldFirst DEF Begin, Busy, CmdShape
    <3>3. CASE u # t
      BY <2>3, <3>1, <3>3 DEF Begin, CmdShape
    <3> QED
      BY <3>2, <3>3
  <2>5. CASE Busy(t) /\ Return(t)
    <3>1. holder'[l] = IF holder[l] = t THEN Nobody ELSE holder[l]
      BY <2>5 DEF Return, Released
    <3>2. call'[t] = Idle /\ (u # t => call'[u] = call[u] /\ pos'[u] = pos[u])
      BY <2>5 DEF Return, CmdShape
    <3>3. Nobody # u
      BY CommandAssumption
    <3> QED
      BY <2>3, <3>1, <3>2, <3>3
  <2>6. CASE Forward(t)
    <3> DEFINE s == Script[call[t]]
               i == pos[t]
    <3>1. call[t] \in Commands /\ s \in Seq(Steps) /\ i \in 1..Len(s) /\ Now(t) \in Steps
      BY <2>6, NowIsStep DEF Forward
    <3>2. Now(t) = s[i] /\ call[t] # Idle
      BY <2>6 DEF Now, Forward, Going, Busy
    <3>3. call' = call /\ pos'[t] = i + 1 /\ (u # t => pos'[u] = pos[u])
      BY <2>6 DEF Forward, Advance, CmdShape
    <3>4. Nobody # u
      BY CommandAssumption
    <3> HIDE DEF s, i
    <3>5. CASE Now(t).do = "take"
      <4>1. /\ holder[s[i].on] = Nobody /\ s[i].on \in Locks
            /\ holder' = [holder EXCEPT ![s[i].on] = t]
        BY <2>6, <3>1, <3>2, <3>5, TakesALock DEF Forward
      <4>2. holder'[l] = IF l = s[i].on THEN t ELSE holder[l]
        BY <4>1 DEF CmdShape
      <4>3. HeldAt(s, i + 1) = HeldAt(s, i) \cup {s[i].on}
        BY <3>1, <3>2, <3>5, HeldNext
      <4>4. CASE u = t
        BY <2>3, <3>2, <3>3, <4>2, <4>3, <4>4 DEF s, i
      <4>5. CASE u # t
        BY <2>3, <3>3, <3>4, <4>1, <4>2, <4>5
      <4> QED
        BY <4>4, <4>5
    <3>6. CASE Now(t).do = "give"
      <4>1. holder' = [holder EXCEPT ![s[i].on] = Nobody] /\ s[i].on \in Locks
        BY <2>6, <3>1, <3>2, <3>6, TakesALock DEF Forward
      <4>2. holder'[l] = IF l = s[i].on THEN Nobody ELSE holder[l]
        BY <4>1 DEF CmdShape
      <4>3. HeldAt(s, i + 1) = HeldAt(s, i) \ {s[i].on}
        BY <3>1, <3>2, <3>6, HeldNext
      <4>4. holder[s[i].on] = t
        <5>1. Ordered(s)
          BY <3>1 DEF Disciplined, s
        <5>2. s[i].on \in HeldAt(s, i)
          BY <3>1, <3>2, <3>6, <5>1 DEF Ordered
        <5> QED
          BY <3>2, <4>1, <5>2 DEF Holding, Busy, s, i
      <4>5. CASE u = t
        BY <2>3, <3>2, <3>3, <3>4, <4>2, <4>3, <4>5 DEF s, i
      <4>6. CASE u # t
        BY <2>3, <3>3, <3>4, <4>2, <4>4, <4>6
      <4> QED
        BY <4>5, <4>6
    <3>7. CASE Now(t).do \notin {"take", "give"}
      <4>1. holder' = holder
        BY <2>6, <3>7 DEF Forward
      <4>2. HeldAt(s, i + 1) = HeldAt(s, i)
        BY <3>1, <3>2, <3>7, HeldNext
      <4>3. CASE u = t
        BY <2>3, <3>2, <3>3, <4>1, <4>2, <4>3 DEF s, i
      <4>4. CASE u # t
        BY <2>3, <3>3, <4>1, <4>4
      <4> QED
        BY <4>3, <4>4
    <3> QED
      BY <3>5, <3>6, <3>7
  <2> QED
    BY <2>1, <2>4, <2>5, <2>6
<1> QED
  BY <1>1, <1>2

-----------------------------------------------------------------------------
(* The order of the mutexes.                                                *)

LEMMA HoldingOrders == Disciplined /\ CmdShape /\ Holding => LocksInOrder
<1> SUFFICES ASSUME Disciplined, CmdShape, Holding, NEW t \in Threads, Busy(t), ~Ended(t)
             PROVE  /\ Waits(Now(t)) => \A l \in Locks : holder[l] = t => Rank[l] < Rank[Now(t).on]
                    /\ Now(t).do = "give" => holder[Now(t).on] = t
  BY DEF LocksInOrder
<1> DEFINE s == Script[call[t]]
           i == pos[t]
<1>1. call[t] \in Commands /\ s \in Seq(Steps) /\ i \in 1..Len(s) /\ Now(t) = s[i] /\ Now(t) \in Steps
  BY NowIsStep DEF Going, Now
<1>2. Ordered(s) /\ i \in DOMAIN s
  BY <1>1 DEF Disciplined
<1>3. \A l \in Locks : holder[l] = t <=> l \in HeldAt(s, i)
  BY DEF Holding
<1> HIDE DEF s, i
<1>4. Waits(Now(t)) => \A l \in Locks : holder[l] = t => Rank[l] < Rank[Now(t).on]
  BY <1>1, <1>2, <1>3 DEF Ordered
<1>5. Now(t).do = "give" => holder[Now(t).on] = t
  BY <1>1, <1>2, <1>3, TakesALock DEF Ordered
<1> QED
  BY <1>4, <1>5

\* If every script takes mutexes and devices in the order of the ranks and
\* gives only what it has, then so does every interleaving of any number of
\* threads: whoever waits has only what comes before.
THEOREM LocksAlwaysInOrder == Disciplined => (CmdSpec => []LocksInOrder)
<1> SUFFICES ASSUME Disciplined PROVE CmdSpec => []LocksInOrder
  OBVIOUS
<1>1. CmdInit => CmdShape /\ Holding
  BY ShapeInit, HoldingInit
<1>2. CmdShape /\ Holding /\ [CmdNext]_cmdVars => (CmdShape /\ Holding)'
  BY ShapeStep, HoldingStep
<1>3. CmdShape /\ Holding => LocksInOrder
  BY HoldingOrders
<1> QED
  BY <1>1, <1>2, <1>3, PTL DEF CmdSpec

-----------------------------------------------------------------------------
(* Nobody waits in a ring.                                                  *)

Blocked(t) == Going(t) /\ Now(t).do \in {"take", "pass"} /\ holder[Now(t).on] # Nobody

SomebodyGoes == (\E t \in Threads : Busy(t)) => \E t \in Threads : Busy(t) /\ ~Blocked(t)

RanksEnd == \E n \in Nat : \A l \in Locks : Rank[l] <= n

\* Of those who wait, the one who waits for the mutex of the highest rank
\* waits for somebody who does not wait.
LEMMA HighestGoes ==
  ASSUME Disciplined, RanksEnd, CmdShape, Holding
  PROVE  SomebodyGoes
<1> SUFFICES ASSUME \E t \in Threads : Busy(t),
                    \A t \in Threads : Busy(t) => Blocked(t)
             PROVE  FALSE
  BY DEF SomebodyGoes
<1> DEFINE B == {t \in Threads : Busy(t)}
           T == {Rank[Now(t).on] : t \in B}
<1>1. \A t \in B : /\ Now(t).on \in Locks /\ Rank[Now(t).on] \in Nat
                   /\ Waits(Now(t)) /\ holder[Now(t).on] # Nobody /\ ~Ended(t)
  <2> TAKE t \in B
  <2>1. Blocked(t)
    OBVIOUS
  <2>2. Now(t) \in Steps
    BY <2>1, NowIsStep DEF Blocked
  <2>3. Now(t).on \in Locks
    BY <2>1, <2>2, TakesALock DEF Blocked
  <2> QED
    BY <2>1, <2>3, CommandAssumption DEF Blocked, Waits, Going
<1>2. PICK n \in Nat : \A l \in Locks : Rank[l] <= n
  BY DEF RanksEnd
<1>3. T \subseteq Nat /\ \A x \in T : x <= n
  BY <1>1, <1>2
<1>4. T # {}
  <2>1. PICK t \in B : TRUE
    OBVIOUS
  <2>2. Rank[Now(t).on] \in T
    BY <2>1
  <2> QED
    BY <2>2
<1>5. PICK r \in T : \A y \in T : y <= r
  <2> HIDE DEF T
  <2> QED
    BY <1>3, <1>4, Greatest
<1>6. PICK t \in B : r = Rank[Now(t).on]
  OBVIOUS
<1>7. PICK h \in Threads : h = holder[Now(t).on]
  BY <1>1 DEF CmdShape
<1>8. h \in B
  BY <1>1, <1>7 DEF Holding
<1>9. Rank[Now(t).on] < Rank[Now(h).on]
  <2>1. LocksInOrder
    BY HoldingOrders
  <2> QED
    BY <1>1, <1>7, <1>8, <2>1 DEF LocksInOrder
<1>10. Rank[Now(h).on] \in T
  BY <1>8
<1> QED
  BY <1>1, <1>5, <1>6, <1>8, <1>9, <1>10

\* With any number of threads, as long as a call runs some call can go on:
\* the calls of the till never all wait for each other.
THEOREM NeverAllWait == Disciplined /\ RanksEnd => (CmdSpec => []SomebodyGoes)
<1> SUFFICES ASSUME Disciplined, RanksEnd PROVE CmdSpec => []SomebodyGoes
  OBVIOUS
<1>1. CmdInit => CmdShape /\ Holding
  BY ShapeInit, HoldingInit
<1>2. CmdShape /\ Holding /\ [CmdNext]_cmdVars => (CmdShape /\ Holding)'
  BY ShapeStep, HoldingStep
<1>3. CmdShape /\ Holding => SomebodyGoes
  BY HighestGoes
<1> QED
  BY <1>1, <1>2, <1>3, PTL DEF CmdSpec

-----------------------------------------------------------------------------
(* The audit log.                                                           *)

AllChecked == \A c \in Commands : Checked(Script[c])

\* What a call has asked so far, its session may do.
Allowed ==
  \A t \in Threads : Busy(t) =>
    \A j \in DOMAIN Script[call[t]] :
      (j < pos[t] /\ Checks(Script[call[t]][j])) =>
        who[t] # Nobody /\ Level[who[t]] >= Script[call[t]][j].on

LEMMA AllowedInit == CmdInit => Allowed
BY DEF CmdInit, Allowed, Busy

\* A step that goes forward without asking keeps the session, or looks it up
\* before anything was asked.
Looks(t) == Now(t).do \in {"may", "peek"}

LEMMA AllowedForward ==
  ASSUME AllChecked, CmdShape, Allowed, NEW t \in Threads, Going(t), Advance(t),
         who' = who \/ (Looks(t) /\ who' = [who EXCEPT ![t] = slot]),
         Checks(Now(t)) => who'[t] # Nobody /\ Level[who'[t]] >= Now(t).on
  PROVE  Allowed'
<1> SUFFICES ASSUME NEW u \in Threads, call'[u] # Idle,
                    NEW j \in DOMAIN Script[call'[u]],
                    j < pos'[u], Checks(Script[call'[u]][j])
             PROVE  who'[u] # Nobody /\ Level[who'[u]] >= Script[call'[u]][j].on
  BY DEF Allowed, Busy
<1>1. call' = call /\ pos' = [pos EXCEPT ![t] = @ + 1]
  BY DEF Advance
<1>2. CASE u # t
  BY <1>1, <1>2 DEF Allowed, Busy, CmdShape
<1>3. CASE u = t
  <2> DEFINE s == Script[call[t]]
             i == pos[t]
  <2>1. call[t] \in Commands /\ s \in Seq(Steps) /\ i \in 1..Len(s) /\ Now(t) = s[i]
    BY NowIsStep DEF Now
  <2>2. Checked(s) /\ i \in DOMAIN s
    BY <2>1 DEF AllChecked
  <2>3. j \in DOMAIN s /\ j <= i /\ Checks(s[j]) /\ j \in Nat
    BY <1>1, <1>3, <2>1 DEF CmdShape
  <2>4. CASE j = i
    BY <1>1, <1>3, <2>1, <2>3, <2>4
  <2>5. CASE j < i
    <3>1. ~Looks(t)
      BY <2>1, <2>2, <2>3, <2>5 DEF Checked, Looks
    <3> QED
      BY <1>1, <1>3, <2>3, <2>5, <3>1 DEF Allowed, Going
  <2> QED
    BY <2>1, <2>3, <2>4, <2>5
<1> QED
  BY <1>2, <1>3

LEMMA AllowedStep ==
  ASSUME AllChecked, CmdShape, Allowed, [CmdNext]_cmdVars
  PROVE  Allowed'
<1>1. CASE UNCHANGED cmdVars
  BY <1>1 DEF Allowed, cmdVars, Busy
<1>2. CASE CmdNext
  <2>1. PICK t \in Threads : (\E c \in Commands : Begin(t, c)) \/ Proceed(t) \/ Fail(t)
    BY <1>2 DEF CmdNext
  <2>2. ASSUME NEW c \in Commands, Begin(t, c)
        PROVE  Allowed'
    <3> SUFFICES ASSUME NEW u \in Threads, call'[u] # Idle,
                        NEW j \in DOMAIN Script[call'[u]],
                        j < pos'[u], Checks(Script[call'[u]][j])
                 PROVE  who'[u] # Nobody /\ Level[who'[u]] >= Script[call'[u]][j].on
      BY DEF Allowed, Busy
    <3>1. CASE u = t
      <4>1. Script[c] \in Seq(Steps) /\ call'[u] = c /\ pos'[u] = 1
        BY <2>2, <3>1, CommandAssumption DEF Begin, CmdShape
      <4>2. j \in 1..Len(Script[c])
        BY <4>1
      <4> QED
        BY <4>1, <4>2
    <3>2. CASE u # t
      BY <2>2, <3>2 DEF Begin, CmdShape, Allowed, Busy
    <3> QED
      BY <3>1, <3>2
  <2>3. ASSUME Return(t)
        PROVE  Allowed'
    BY <2>3 DEF Return, CmdShape, Allowed, Busy
  <2>4. CASE Take(t) \/ Pass(t) \/ Give(t) \/ Out(t)
    BY <2>4, AllowedForward DEF Take, Pass, Give, Out, At, Going, Checks
  <2>5. CASE Audit(t) \/ Enter(t) \/ Leave(t)
    BY <2>5, AllowedForward DEF Audit, Enter, Leave, At, Going, Checks
  <2>6. CASE Peek(t)
    BY <2>6, AllowedForward DEF Peek, At, Going, Checks, Looks
  <2>7. CASE May(t)
    <3>1. CASE slot # Nobody /\ Level[slot] >= Now(t).on
      <4>1. who' = [who EXCEPT ![t] = slot] /\ Advance(t) /\ Going(t) /\ Looks(t)
        BY <2>7, <3>1 DEF May, At, Going, Looks
      <4>2. who'[t] = slot
        BY <4>1 DEF CmdShape
      <4> QED
        BY <3>1, <4>1, <4>2, AllowedForward
    <3>2. CASE ~(slot # Nobody /\ Level[slot] >= Now(t).on)
      BY <2>3, <2>7, <3>2 DEF May
    <3> QED
      BY <3>1, <3>2
  <2>8. CASE Can(t)
    <3>1. CASE who[t] # Nobody /\ Level[who[t]] >= Now(t).on
      BY <2>8, <3>1, AllowedForward DEF Can, At, Going
    <3>2. CASE ~(who[t] # Nobody /\ Level[who[t]] >= Now(t).on)
      BY <2>3, <2>8, <3>2 DEF Can
    <3> QED
      BY <3>1, <3>2
  <2>9. CASE End(t) \/ Fail(t)
    BY <2>3, <2>9 DEF End, Fail
  <2> QED
    BY <2>1, <2>2, <2>4, <2>5, <2>6, <2>7, <2>8, <2>9 DEF Proceed
<1> QED
  BY <1>1, <1>2

\* What a call asks is what the most demanding of its checks asks; if a user
\* may do what each asks, the user may do what the call asks.
LEMMA AsksIsMet ==
  ASSUME NEW c \in Commands, NEW n \in Nat,
         \A j \in DOMAIN Script[c] : Checks(Script[c][j]) => n >= Script[c][j].on
  PROVE  Asks(c) = 0 \/ n >= Asks(c)
<1> DEFINE s == Script[c]
           levels == {s[i].on : i \in {j \in DOMAIN s : s[j].do \in {"may", "can"}}}
<1>1. s \in Seq(Steps)
  BY CommandAssumption
<1>2. \A j \in DOMAIN s : s[j].do \in {"may", "can"} => s[j].on \in Nat
  <2> TAKE j \in DOMAIN s
  <2>1. s[j] \in Steps
    BY <1>1
  <2> QED
    BY <2>1 DEF Steps
<1>3. levels \subseteq Nat /\ \A x \in levels : x <= n
  BY <1>2 DEF Checks
<1>4. Asks(c) = IF levels = {} THEN 0 ELSE CHOOSE p \in levels : \A q \in levels : q <= p
  BY DEF Asks
<1>5. CASE levels # {}
  <2> HIDE DEF levels
  <2>1. \E p \in levels : \A q \in levels : q <= p
    BY <1>3, <1>5, Greatest
  <2>2. Asks(c) \in levels
    BY <1>4, <1>5, <2>1
  <2> QED
    BY <1>3, <2>2
<1> QED
  BY <1>4, <1>5

LEMMA AuditStep ==
  ASSUME AllChecked, CmdShape, Allowed, AuditNamesCaller, [CmdNext]_cmdVars
  PROVE  AuditNamesCaller'
<1>1. CASE UNCHANGED cmdVars
  BY <1>1 DEF AuditNamesCaller, cmdVars
<1>2. CASE entry' = NoEntry
  BY <1>2 DEF AuditNamesCaller, NoEntry
<1>3. ASSUME NEW t \in Threads, Audit(t)
      PROVE  AuditNamesCaller'
  <2> DEFINE s == Script[call[t]]
             i == pos[t]
  <2>1. Going(t) /\ Now(t).do = "audit" /\ entry' = [user |-> who[t], asks |-> Asks(call[t])]
    BY <1>3 DEF Audit, At, Going, Caller
  <2>2. call[t] \in Commands /\ s \in Seq(Steps) /\ i \in 1..Len(s) /\ Now(t) = s[i]
    BY <2>1, NowIsStep DEF Now
  <2>3. Checked(s)
    BY <2>2 DEF AllChecked
  <2>4. \A j \in DOMAIN s : Checks(s[j]) => who[t] # Nobody /\ Level[who[t]] >= s[j].on
    <3> TAKE j \in DOMAIN s
    <3> SUFFICES ASSUME Checks(s[j])
                 PROVE  who[t] # Nobody /\ Level[who[t]] >= s[j].on
      OBVIOUS
    <3>1. j < i
      BY <2>1, <2>2, <2>3 DEF Checked
    <3> QED
      BY <2>1, <3>1 DEF Allowed, Going
  <2>5. CASE \A j \in DOMAIN s : ~Checks(s[j])
    <3>1. {k \in DOMAIN s : s[k].do \in {"may", "can"}} = {}
      BY <2>5 DEF Checks
    <3>2. Asks(call[t]) = 0
      BY <3>1 DEF Asks
    <3> QED
      BY <2>1, <3>2 DEF AuditNamesCaller
  <2>6. CASE \E j \in DOMAIN s : Checks(s[j])
    <3>1. who[t] \in Users /\ Level[who[t]] \in Nat
      BY <2>4, <2>6, CommandAssumption DEF CmdShape
    <3>2. Asks(call[t]) = 0 \/ Level[who[t]] >= Asks(call[t])
      BY <2>2, <2>4, <3>1, AsksIsMet
    <3>3. who[t] # Nobody
      BY <2>4, <2>6
    <3> QED
      BY <2>1, <3>2, <3>3 DEF AuditNamesCaller
  <2> QED
    BY <2>5, <2>6
<1>4. CASE CmdNext
  <2>1. PICK t \in Threads : (\E c \in Commands : Begin(t, c)) \/ Proceed(t) \/ Fail(t)
    BY <1>4 DEF CmdNext
  <2>2. Audit(t) \/ entry' = NoEntry
    BY <2>1 DEF Begin, Proceed, Fail, Take, Pass, Give, Out, May, Can, Peek, Enter, Leave, End
  <2> QED
    BY <1>2, <1>3, <2>2
<1> QED
  BY <1>1, <1>4

\* An entry of the audit log names a user whose role allows what the call
\* asked, whoever signs in or out on other threads meanwhile.
THEOREM AuditAlwaysNamesCaller == AllChecked => (CmdSpec => []AuditNamesCaller)
<1> SUFFICES ASSUME AllChecked PROVE CmdSpec => []AuditNamesCaller
  OBVIOUS
<1>1. CmdInit => CmdShape /\ Allowed /\ AuditNamesCaller
  <2>1. CmdInit => AuditNamesCaller
    BY DEF CmdInit, AuditNamesCaller, NoEntry
  <2> QED
    BY <2>1, ShapeInit, AllowedInit
<1>2. CmdShape /\ Allowed /\ AuditNamesCaller /\ [CmdNext]_cmdVars
        => (CmdShape /\ Allowed /\ AuditNamesCaller)'
  BY ShapeStep, AllowedStep, AuditStep
<1> QED
  BY <1>1, <1>2, PTL DEF CmdSpec

=============================================================================
