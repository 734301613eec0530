--------------------------- MODULE TillStart_proofs ---------------------------
(***************************************************************************)
(* What a till decides when it starts: whether its licence lets it run,    *)
(* and which database it opens.  The gate gains no time and seats hold,    *)
(* for any number of tills and tokens and any clock; the database opens    *)
(* whole and what the owner had is saved, for any number of commits,       *)
(* backups and restores and the power going at any step.                   *)
(***************************************************************************)
EXTENDS License, Restore, FiniteSetTheorems, SequenceTheorems, TLAPS

-----------------------------------------------------------------------------
(* What the gate remembers.                                                 *)

\* Whatever the wall clock says, a token with this record is not valid.
Exhausted(l, r) == r.mark >= Expires[l] \/ r.mark >= Later(Issued[l], r.seen) + Grace

SpentStays == \A d \in Devices : \A l \in spent[d] : Exhausted(l, row[d][l])

\* An open database belongs to a token, and so does a check under way.
TokenHeld ==
  /\ \A d \in Devices : status[d] \notin {"missing", "storage_error"} => token[d] \in Licenses
  /\ \A d \in Devices, c \in Checks : check[d][c].stage # "none" => check[d][c].lic \in Licenses

GateInv == LicTypeOK /\ TokenHeld /\ SpentStays /\ NoTimeGained

Verdicts == {"revoked", "invalid_token", "expired", "grace_exhausted", "valid"}

LEMMA JudgedIs == \A l, r, at : Judged(l, r, at) \in Verdicts
BY DEF Judged, Verdicts

LEMMA LaterIs ==
  ASSUME NEW a \in Nat, NEW b \in Nat
  PROVE  Later(a, b) \in Nat /\ Later(a, b) >= a /\ Later(a, b) >= b
BY DEF Later

\* The mark only rises when a token is judged, so what is exhausted is judged
\* so at any clock; what is judged expired or out of grace is exhausted.
LEMMA JudgedExhausted ==
  ASSUME NEW l \in Licenses, NEW r \in Rows, NEW w \in Nat
  PROVE  LET q == [r EXCEPT !.mark = Later(@, w)]
             v == Judged(l, r, EffectiveNow(r.mark, w))
         IN  /\ q \in Rows
             /\ Exhausted(l, r) => Exhausted(l, q) /\ v # "valid"
             /\ v \in {"expired", "grace_exhausted"} => Exhausted(l, q)
<1> DEFINE at == Later(r.mark, w)
           q == [r EXCEPT !.mark = at]
           g == Later(Issued[l], r.seen) + Grace
<1>1. r.mark \in Nat /\ r.seen \in Nat /\ at \in Nat /\ at >= r.mark
  BY LaterIs DEF Rows
<1>2a. Issued[l] \in Nat /\ Expires[l] \in Nat /\ Grace \in Nat
  BY LicenseAssumption
<1>2b. Later(Issued[l], r.seen) \in Nat
  BY <1>1, <1>2a, LaterIs
<1>2. g \in Nat /\ Expires[l] \in Nat
  BY <1>2a, <1>2b
<1>3. q \in Rows /\ q.mark = at /\ q.seen = r.seen
  BY <1>1 DEF Rows
<1>4. Exhausted(l, q) <=> at >= Expires[l] \/ at >= g
  BY <1>3 DEF Exhausted
<1>5. Exhausted(l, r) <=> r.mark >= Expires[l] \/ r.mark >= g
  BY DEF Exhausted
<1>6. EffectiveNow(r.mark, w) = at
  BY DEF EffectiveNow
<1>7. Judged(l, r, at) = IF r.revoked THEN "revoked"
                         ELSE IF Issued[l] > at THEN "invalid_token"
                         ELSE IF at >= Expires[l] THEN "expired"
                         ELSE IF at >= g THEN "grace_exhausted" ELSE "valid"
  BY DEF Judged
<1> HIDE DEF at, g
<1>8. Exhausted(l, r) => Exhausted(l, q) /\ Judged(l, r, at) # "valid"
  BY <1>1, <1>2, <1>4, <1>5, <1>7
<1>9. Judged(l, r, at) \in {"expired", "grace_exhausted"} => Exhausted(l, q)
  BY <1>4, <1>7
<1> QED
  BY <1>3, <1>6, <1>8, <1>9 DEF at

-----------------------------------------------------------------------------
(* One till judges a token; the others keep what they have.                 *)

Judging(d, tok) ==
  /\ row' \in [Devices -> [Licenses -> Rows]]
  /\ status' \in [Devices -> Halts \cup {"valid"}]
  /\ spent' \in [Devices -> SUBSET Licenses]
  /\ \A l \in spent'[d] : Exhausted(l, row'[d][l])
  /\ status'[d] = "valid" => tok \notin spent'[d]
  /\ status'[d] \notin {"missing", "storage_error"} => tok \in Licenses
  /\ \A e \in Devices \ {d} : row'[e] = row[e] /\ status'[e] = status[e] /\ spent'[e] = spent[e]

LEMMA VerdictsAre == Verdicts \subseteq Halts \cup {"valid"}
BY DEF Verdicts, Halts

\* Token tok is judged by records rec, of which those in old are exhausted.
LEMMA JudgingKeeps ==
  ASSUME GateInv, NEW d \in Devices, NEW tok \in Licenses, NEW rec \in [Licenses -> Rows],
         NEW old \in SUBSET Licenses, \A l \in old : Exhausted(l, rec[l]),
         NEW v, v = Judged(tok, rec[tok], EffectiveNow(rec[tok].mark, wall[d])),
         row' = [row EXCEPT ![d] = [rec EXCEPT ![tok].mark = Later(@, wall[d])]],
         status' = [status EXCEPT ![d] = v],
         spent' = [spent EXCEPT ![d] =
                     old \cup IF v \in {"expired", "grace_exhausted"} THEN {tok} ELSE {}]
  PROVE  Judging(d, tok)
<1> DEFINE q == [rec[tok] EXCEPT !.mark = Later(@, wall[d])]
           new == [rec EXCEPT ![tok].mark = Later(@, wall[d])]
<1>1. rec[tok] \in Rows /\ wall[d] \in Nat
  BY DEF GateInv, LicTypeOK, Moments
<1>2. /\ q \in Rows
      /\ Exhausted(tok, rec[tok]) => Exhausted(tok, q) /\ v # "valid"
      /\ v \in {"expired", "grace_exhausted"} => Exhausted(tok, q)
  BY <1>1, JudgedExhausted
<1>3. new = [rec EXCEPT ![tok] = q]
  OBVIOUS
<1>4. new \in [Licenses -> Rows] /\ new[tok] = q /\ \A l \in Licenses \ {tok} : new[l] = rec[l]
  BY <1>2, <1>3
<1>5. v \in Verdicts
  BY JudgedIs
<1> HIDE DEF q, new
<1>6. row' = [row EXCEPT ![d] = new]
  BY DEF new
<1>7. row' \in [Devices -> [Licenses -> Rows]] /\ row'[d] = new
  BY <1>4, <1>6, ZenonT(60) DEF GateInv, LicTypeOK
<1>8. status' \in [Devices -> Halts \cup {"valid"}] /\ status'[d] = v
  BY <1>5, VerdictsAre DEF GateInv, LicTypeOK
<1>9. /\ spent' \in [Devices -> SUBSET Licenses]
      /\ spent'[d] = old \cup IF v \in {"expired", "grace_exhausted"} THEN {tok} ELSE {}
  BY DEF GateInv, LicTypeOK
<1>10. \A l \in spent'[d] : Exhausted(l, row'[d][l])
  BY <1>2, <1>4, <1>7, <1>9
<1>11. status'[d] = "valid" => tok \notin spent'[d]
  BY <1>2, <1>8, <1>9
<1>12. \A e \in Devices \ {d} : row'[e] = row[e] /\ status'[e] = status[e] /\ spent'[e] = spent[e]
  BY DEF GateInv, LicTypeOK
<1> QED
  BY <1>7, <1>8, <1>9, <1>10, <1>11, <1>12 DEF Judging

LEMMA EvaluateJudges ==
  ASSUME GateInv, NEW d \in Devices, NEW tok \in Licenses \cup {NoLicense},
         Evaluate(d, tok, row[d])
  PROVE  Judging(d, tok)
<1>1. CASE tok = NoLicense
  <2>1. /\ status' = [status EXCEPT ![d] = "missing"]
        /\ row' = [row EXCEPT ![d] = row[d]]
        /\ spent' = spent
    BY <1>1 DEF Evaluate
  <2>2. row' = row
    BY <2>1 DEF GateInv, LicTypeOK
  <2> QED
    BY <2>1, <2>2 DEF Judging, GateInv, LicTypeOK, SpentStays, Halts
<1>2. CASE tok \in Licenses
  <2>1. tok # NoLicense
    BY <1>2, LicenseAssumption
  <2> DEFINE v == Judged(tok, row[d][tok], EffectiveNow(row[d][tok].mark, wall[d]))
             more == IF v \in {"expired", "grace_exhausted"} THEN {tok} ELSE {}
  <2>2. /\ row' = [row EXCEPT ![d] = [row[d] EXCEPT ![tok].mark = Later(@, wall[d])]]
        /\ status' = [status EXCEPT ![d] = v]
        /\ spent' = IF v \in {"expired", "grace_exhausted"}
                    THEN [spent EXCEPT ![d] = @ \cup {tok}] ELSE spent
    BY <2>1 DEF Evaluate
  <2>3. row[d] \in [Licenses -> Rows] /\ spent[d] \in SUBSET Licenses
    BY DEF GateInv, LicTypeOK
  <2>4. \A l \in spent[d] : Exhausted(l, row[d][l])
    BY DEF GateInv, SpentStays
  <2> HIDE DEF v
  <2>5. spent' = [spent EXCEPT ![d] = spent[d] \cup more]
    BY <2>2 DEF GateInv, LicTypeOK
  <2> QED
    BY <1>2, <2>2, <2>3, <2>4, <2>5, JudgingKeeps DEF v
<1> QED
  BY <1>1, <1>2

LEMMA AnswerJudges ==
  ASSUME GateInv, NEW d \in Devices, NEW c \in Checks, Answer(d, c)
  PROVE  Judging(d, token[d])
<1> DEFINE k == check[d][c]
           open == status[d] \notin {"missing", "storage_error"}
<1>1. /\ k.lic \in Licenses /\ k.at \in Nat /\ k.ok \in BOOLEAN
      /\ token[d] \in Licenses \cup {NoLicense}
  BY DEF Answer, GateInv, TokenHeld, LicTypeOK, Moments
<1>2. CASE ~open
  <2>1. Evaluate(d, token[d], row[d])
    BY <1>2 DEF Answer
  <2> QED
    BY <1>1, <2>1, EvaluateJudges
<1>3. CASE open
  <2> DEFINE tok == token[d]
             rec == [row[d] EXCEPT ![k.lic] = Recorded(@, k)]
             old == spent[d] \ {k.lic}
             v == Judged(tok, rec[tok], EffectiveNow(rec[tok].mark, wall[d]))
  <2>1. /\ row' = [row EXCEPT ![d] = [rec EXCEPT ![tok].mark = Later(@, wall[d])]]
        /\ status' = [status EXCEPT ![d] = v]
        /\ spent' = [spent EXCEPT ![d] = (@ \ {k.lic}) \cup
                       IF v \in {"expired", "grace_exhausted"} THEN {tok} ELSE {}]
    BY <1>3 DEF Answer
  <2>2. tok \in Licenses
    BY <1>3 DEF GateInv, TokenHeld
  <2>3. row[d] \in [Licenses -> Rows] /\ spent[d] \in SUBSET Licenses
    BY DEF GateInv, LicTypeOK
  <2>4. row[d][k.lic] \in Rows
    BY <1>1, <2>3
  <2>5. Recorded(row[d][k.lic], k) \in Rows
    BY <1>1, <2>4 DEF Recorded, Rows
  <2>6. rec \in [Licenses -> Rows] /\ \A l \in Licenses \ {k.lic} : rec[l] = row[d][l]
    BY <2>3, <2>5
  <2>7. old \in SUBSET Licenses
    BY <2>3
  <2>8. \A l \in old : Exhausted(l, rec[l])
    BY <2>3, <2>6 DEF GateInv, SpentStays
  <2> HIDE DEF v, rec, k
  <2>9. spent' = [spent EXCEPT ![d] = old \cup
                    IF v \in {"expired", "grace_exhausted"} THEN {tok} ELSE {}]
    BY <2>1 DEF GateInv, LicTypeOK
  <2> HIDE DEF old
  <2> QED
    BY <2>1, <2>2, <2>6, <2>7, <2>8, <2>9, JudgingKeeps DEF v
<1> QED
  BY <1>2, <1>3

-----------------------------------------------------------------------------
(* The invariant.                                                           *)

\* Judging a token, having done one's part of the check, keeps the invariant.
LEMMA JudgedKeepsInv ==
  ASSUME GateInv, LicTypeOK', NEW d \in Devices, NEW tok, Judging(d, tok),
         token'[d] = tok, \A e \in Devices \ {d} : token'[e] = token[e],
         \A e \in Devices, c \in Checks :
           check'[e][c].stage # "none" => check'[e][c].lic \in Licenses
  PROVE  GateInv'
<1>1. TokenHeld'
  BY DEF GateInv, TokenHeld, Judging
<1>2. SpentStays'
  <2> SUFFICES ASSUME NEW e \in Devices, NEW l \in spent'[e]
               PROVE  Exhausted(l, row'[e][l])
    BY DEF SpentStays, Exhausted, Later
  <2> QED
    BY DEF GateInv, SpentStays, Judging
<1>3. NoTimeGained'
  BY DEF GateInv, NoTimeGained, Judging
<1> QED
  BY <1>1, <1>2, <1>3 DEF GateInv

LEMMA GateInit == LicInit => GateInv
<1> SUFFICES ASSUME LicInit PROVE GateInv
  OBVIOUS
<1>1. NoRecord \in Rows
  BY DEF NoRecord, Rows
<1>2. 1 \in Moments
  BY LicenseAssumption DEF Moments
<1>3. row \in [Devices -> [Licenses -> Rows]]
  BY <1>1 DEF LicInit
<1>4. NoCheck \in [stage : {"none", "asked", "answered"},
                   lic : Licenses \cup {NoLicense}, ok : BOOLEAN, at : Moments]
  BY <1>2 DEF NoCheck
<1>5. check \in [Devices -> [Checks -> [stage : {"none", "asked", "answered"},
                   lic : Licenses \cup {NoLicense}, ok : BOOLEAN, at : Moments]]]
  BY <1>4 DEF LicInit
<1>6. LicTypeOK
  BY <1>2, <1>3, <1>5 DEF LicInit, LicTypeOK, Halts
<1>7. TokenHeld
  BY DEF LicInit, TokenHeld, NoCheck
<1>8. SpentStays /\ NoTimeGained
  BY DEF LicInit, SpentStays, NoTimeGained
<1> QED
  BY <1>6, <1>7, <1>8 DEF GateInv

CheckTypes == [Devices -> [Checks -> [stage : {"none", "asked", "answered"},
                 lic : Licenses \cup {NoLicense}, ok : BOOLEAN, at : Moments]]]

LEMMA NoCheckIs ==
  ASSUME GateInv
  PROVE  NoCheck \in [stage : {"none", "asked", "answered"},
                      lic : Licenses \cup {NoLicense}, ok : BOOLEAN, at : Moments]
BY LicenseAssumption DEF NoCheck, Moments

LEMMA Answered ==
  ASSUME NEW k \in [stage : {"none", "asked", "answered"},
                    lic : Licenses \cup {NoLicense}, ok : BOOLEAN, at : Moments],
         NEW ok \in BOOLEAN, NEW at \in Moments
  PROVE  [k EXCEPT !.stage = "answered", !.ok = ok, !.at = at]
           \in [stage : {"none", "asked", "answered"},
               lic : Licenses \cup {NoLicense}, ok : BOOLEAN, at : Moments]
OBVIOUS

\* A check that ends leaves the others as they are.
LEMMA CheckEnds ==
  ASSUME GateInv, NEW d \in Devices, NEW c \in Checks,
         check' = [check EXCEPT ![d][c] = NoCheck]
  PROVE  /\ check' \in CheckTypes
         /\ \A e \in Devices, b \in Checks :
              check'[e][b].stage # "none" => check'[e][b].lic \in Licenses
<1>1. check \in CheckTypes
  BY DEF GateInv, LicTypeOK, CheckTypes
<1>2. check' \in CheckTypes
  BY <1>1, NoCheckIs DEF CheckTypes
<1>3. \A e \in Devices, b \in Checks :
        check'[e][b] = IF e = d /\ b = c THEN NoCheck ELSE check[e][b]
  BY <1>1 DEF CheckTypes
<1>4. NoCheck.stage = "none"
  BY DEF NoCheck
<1> QED
  BY <1>2, <1>3, <1>4 DEF GateInv, TokenHeld

LEMMA CheckStarts ==
  ASSUME GateInv, NEW d \in Devices, NEW c \in Checks, NEW l \in Licenses, Asking(d, c, l)
  PROVE  /\ check' \in CheckTypes
         /\ \A e \in Devices, b \in Checks :
              check'[e][b].stage # "none" => check'[e][b].lic \in Licenses
<1> DEFINE k == [NoCheck EXCEPT !.stage = "asked", !.lic = l]
<1>1. check \in CheckTypes
  BY DEF GateInv, LicTypeOK, CheckTypes
<1>2. k \in [stage : {"none", "asked", "answered"},
             lic : Licenses \cup {NoLicense}, ok : BOOLEAN, at : Moments]
  BY NoCheckIs
<1>3. k.lic = l
  BY DEF NoCheck
<1>4. check' = [check EXCEPT ![d][c] = k]
  BY DEF Asking
<1> HIDE DEF k
<1>5. check' \in CheckTypes
  BY <1>1, <1>2, <1>4 DEF CheckTypes
<1>6. \A e \in Devices, b \in Checks :
        check'[e][b] = IF e = d /\ b = c THEN k ELSE check[e][b]
  BY <1>1, <1>4 DEF CheckTypes
<1> QED
  BY <1>3, <1>5, <1>6 DEF GateInv, TokenHeld

\* The server keeps its own books typed, whatever token it is shown.
LEMMA ValidateTypes ==
  ASSUME GateInv, NEW u \in Devices \cup Rivals, NEW l \in Licenses, NEW ok, Validate(u, l, ok)
  PROVE  /\ limit' \in [by : Licenses \cup {NoLicense}, closed : BOOLEAN]
         /\ active' \subseteq Devices \cup Rivals /\ barred' \subseteq active'
         /\ shown' \subseteq Licenses
<1>1. LimitBy(l) \in Licenses \cup {NoLicense}
  BY DEF LimitBy, GateInv, LicTypeOK
<1> QED
  BY <1>1 DEF Validate, licServer, GateInv, LicTypeOK

LEMMA PassKeeps == ASSUME GateInv, Pass PROVE GateInv'
<1>1. now' \in Moments
  BY LicenseAssumption DEF Pass, GateInv, LicTypeOK, Moments
<1>2. wall' \in [Devices -> Moments]
  BY LicenseAssumption DEF Pass, GateInv, LicTypeOK, Moments
<1> QED
  BY <1>1, <1>2 DEF Pass, licServer, licBounds, GateInv, LicTypeOK, TokenHeld,
     SpentStays, NoTimeGained, Exhausted, Later

\* A step that leaves the tills alone and the server's books typed.
LEMMA TillsKept ==
  ASSUME GateInv, UNCHANGED <<now, licTill, spent>>,
         limit' \in [by : Licenses \cup {NoLicense}, closed : BOOLEAN],
         active' \subseteq Devices \cup Rivals, barred' \subseteq active',
         shown' \subseteq Licenses
  PROVE  GateInv'
BY DEF licTill, GateInv, LicTypeOK, TokenHeld, SpentStays, NoTimeGained, Exhausted, Later

LEMMA OfficeKeeps == ASSUME GateInv, Office PROVE GateInv'
<1>1. limit' \in [by : Licenses \cup {NoLicense}, closed : BOOLEAN]
  BY DEF Office, GateInv, LicTypeOK
<1>2. active' = active /\ shown' = shown /\ barred' \subseteq active
  BY DEF Office, GateInv, LicTypeOK
<1>3. UNCHANGED <<now, licTill, spent>>
  BY DEF Office
<1> QED
  BY <1>1, <1>2, <1>3, TillsKept DEF GateInv, LicTypeOK

LEMMA ServeRivalKeeps == ASSUME GateInv, NEW l \in Licenses, ServeRival(l) PROVE GateInv'
<1>1. PICK ok \in BOOLEAN : Validate(For[l], l, ok)
  BY DEF ServeRival
<1>2. For[l] \in Devices \cup Rivals
  BY LicenseAssumption
<1>3. UNCHANGED <<now, licTill, spent>>
  BY DEF ServeRival
<1> QED
  BY <1>1, <1>2, <1>3, ValidateTypes, TillsKept

LEMMA ServeKeeps ==
  ASSUME GateInv, NEW d \in Devices, NEW c \in Checks, Serve(d, c)
  PROVE  GateInv'
<1> DEFINE l == check[d][c].lic
<1>1. l \in Licenses
  BY DEF Serve, GateInv, TokenHeld
<1>2. PICK ok \in BOOLEAN :
        /\ Validate(d, l, ok)
        /\ check' = [check EXCEPT ![d][c] =
                       [@ EXCEPT !.stage = "answered", !.ok = ok, !.at = now]]
  BY DEF Serve
<1> DEFINE k == [check[d][c] EXCEPT !.stage = "answered", !.ok = ok, !.at = now]
<1>3. check \in CheckTypes /\ now \in Moments
  BY DEF GateInv, LicTypeOK, CheckTypes
<1>4. k \in [stage : {"none", "asked", "answered"},
             lic : Licenses \cup {NoLicense}, ok : BOOLEAN, at : Moments]
  <2>1. check[d][c] \in [stage : {"none", "asked", "answered"},
             lic : Licenses \cup {NoLicense}, ok : BOOLEAN, at : Moments]
    BY <1>3 DEF CheckTypes
  <2> QED
    BY <1>3, <2>1, Answered
<1>5. k.lic = l
  BY <1>3 DEF CheckTypes
<1>6. check' = [check EXCEPT ![d][c] = k]
  BY <1>2, <1>3 DEF CheckTypes
<1> HIDE DEF k
<1>7. check' \in CheckTypes
  BY <1>3, <1>4, <1>6 DEF CheckTypes
<1>8. \A e \in Devices, b \in Checks :
        check'[e][b] = IF e = d /\ b = c THEN k ELSE check[e][b]
  BY <1>3, <1>6 DEF CheckTypes
<1>9. /\ limit' \in [by : Licenses \cup {NoLicense}, closed : BOOLEAN]
      /\ active' \subseteq Devices \cup Rivals /\ barred' \subseteq active'
      /\ shown' \subseteq Licenses
  BY <1>1, <1>2, ValidateTypes
<1>10. UNCHANGED <<now, wall, token, row, status, spent>>
  BY DEF Serve
<1>11. LicTypeOK'
  BY <1>7, <1>9, <1>10 DEF GateInv, LicTypeOK, CheckTypes
<1>12. TokenHeld'
  BY <1>1, <1>5, <1>8, <1>10 DEF GateInv, TokenHeld
<1> QED
  BY <1>10, <1>11, <1>12 DEF GateInv, SpentStays, NoTimeGained, Exhausted, Later

\* What is judged by its own rows, with a check that starts or ends beside it.
LEMMA EvaluatedKeeps ==
  ASSUME GateInv, NEW d \in Devices, Judging(d, token[d]),
         UNCHANGED <<now, wall, token, licServer>>,
         check' \in CheckTypes,
         \A e \in Devices, b \in Checks :
           check'[e][b].stage # "none" => check'[e][b].lic \in Licenses
  PROVE  GateInv'
<1>1. LicTypeOK'
  BY DEF GateInv, LicTypeOK, CheckTypes, Judging, licServer
<1> QED
  BY <1>1, JudgedKeepsInv

LEMMA CheckKept ==
  ASSUME GateInv, UNCHANGED check
  PROVE  /\ check' \in CheckTypes
         /\ \A e \in Devices, b \in Checks :
              check'[e][b].stage # "none" => check'[e][b].lic \in Licenses
BY DEF GateInv, LicTypeOK, CheckTypes, TokenHeld

LEMMA ActivateKeeps ==
  ASSUME GateInv, NEW d \in Devices, NEW l \in Licenses, Activate(d, l)
  PROVE  GateInv'
<1>1. Judging(d, l)
  BY EvaluateJudges DEF Activate
<1>2. token' = [token EXCEPT ![d] = l] /\ UNCHANGED <<now, wall, licServer>>
  BY DEF Activate
<1>3. /\ check' \in CheckTypes
      /\ \A e \in Devices, b \in Checks :
           check'[e][b].stage # "none" => check'[e][b].lic \in Licenses
  <2>1. CASE UNCHANGED check
    BY <2>1, CheckKept
  <2>2. CASE Asking(d, "activation", l)
    BY <2>2, CheckStarts DEF Checks
  <2> QED
    BY <2>1, <2>2 DEF Activate
<1>4. LicTypeOK'
  BY <1>1, <1>2, <1>3 DEF GateInv, LicTypeOK, CheckTypes, Judging, licServer
<1>5. token'[d] = l /\ \A e \in Devices \ {d} : token'[e] = token[e]
  BY <1>2 DEF GateInv, LicTypeOK
<1> QED
  BY <1>1, <1>3, <1>4, <1>5, JudgedKeepsInv

\* A till that knows nothing of its state is not valid.
LEMMA HaltedKeeps ==
  ASSUME GateInv, NEW d \in Devices, NEW v \in {"missing", "storage_error"},
         status' = [status EXCEPT ![d] = v],
         UNCHANGED <<now, wall, token, row, licServer, spent>>,
         check' \in CheckTypes,
         \A e \in Devices, b \in Checks :
           check'[e][b].stage # "none" => check'[e][b].lic \in Licenses
  PROVE  GateInv'
<1>1. status' \in [Devices -> Halts \cup {"valid"}]
  BY DEF GateInv, LicTypeOK, Halts
<1>2. \A e \in Devices : status'[e] = IF e = d THEN v ELSE status[e]
  BY DEF GateInv, LicTypeOK
<1>3. LicTypeOK'
  BY <1>1 DEF GateInv, LicTypeOK, CheckTypes, licServer
<1> QED
  BY <1>2, <1>3 DEF GateInv, TokenHeld, SpentStays, NoTimeGained, Exhausted, Later

LEMMA RestartKeeps == ASSUME GateInv, NEW d \in Devices, Restart(d) PROVE GateInv'
<1> DEFINE none == [c \in Checks |-> NoCheck]
<1>1. check' = [check EXCEPT ![d] = none] /\ check \in CheckTypes
  BY DEF Restart, GateInv, LicTypeOK, CheckTypes
<1>2. \A e \in Devices : check'[e] = IF e = d THEN none ELSE check[e]
  BY <1>1 DEF CheckTypes
<1>3. check' \in CheckTypes
  BY <1>1, NoCheckIs DEF CheckTypes
<1>4. NoCheck.stage = "none"
  BY DEF NoCheck
<1>5. \A e \in Devices, b \in Checks :
        check'[e][b].stage # "none" => check'[e][b].lic \in Licenses
  BY <1>2, <1>4 DEF GateInv, TokenHeld
<1> QED
  BY <1>3, <1>5, HaltedKeeps DEF Restart

LEMMA SetClockKeeps ==
  ASSUME GateInv, NEW d \in Devices, NEW w \in Moments, SetClock(d, w)
  PROVE  GateInv'
BY DEF SetClock, licServer, GateInv, LicTypeOK, TokenHeld, SpentStays, NoTimeGained,
   Exhausted, Later

LEMMA GateStep == GateInv /\ [LicNext]_licVars => GateInv'
<1> SUFFICES ASSUME GateInv, [LicNext]_licVars PROVE GateInv'
  OBVIOUS
<1>1. CASE Pass
  BY <1>1, PassKeeps
<1>2. CASE Office
  BY <1>2, OfficeKeeps
<1>3. ASSUME NEW l \in Licenses, ServeRival(l) PROVE GateInv'
  BY <1>3, ServeRivalKeeps
<1>4. ASSUME NEW d \in Devices, Reevaluate(d) PROVE GateInv'
  <2>1. token[d] \in Licenses \cup {NoLicense}
    BY DEF GateInv, LicTypeOK
  <2>2. Judging(d, token[d])
    BY <1>4, <2>1, EvaluateJudges DEF Reevaluate
  <2> QED
    BY <1>4, <2>2, CheckKept, EvaluatedKeeps DEF Reevaluate
<1>5. ASSUME NEW d \in Devices, Unreadable(d) PROVE GateInv'
  BY <1>5, CheckKept, HaltedKeeps DEF Unreadable
<1>6. ASSUME NEW d \in Devices, Restart(d) PROVE GateInv'
  BY <1>6, RestartKeeps
<1>7. ASSUME NEW d \in Devices, Ask(d) PROVE GateInv'
  <2>1. token[d] \in Licenses
    BY <1>7 DEF Ask, GateInv, LicTypeOK
  <2>2. Judging(d, token[d])
    BY <1>7, <2>1, EvaluateJudges DEF Ask
  <2> QED
    BY <1>7, <2>1, <2>2, CheckStarts, EvaluatedKeeps DEF Ask, Checks
<1>8. ASSUME NEW d \in Devices, NEW l \in Licenses, Activate(d, l) PROVE GateInv'
  BY <1>8, ActivateKeeps
<1>9. ASSUME NEW d \in Devices, NEW w \in Moments, SetClock(d, w) PROVE GateInv'
  BY <1>9, SetClockKeeps
<1>10. ASSUME NEW d \in Devices, NEW c \in Checks, Serve(d, c) PROVE GateInv'
  BY <1>10, ServeKeeps
<1>11. ASSUME NEW d \in Devices, NEW c \in Checks, Answer(d, c) PROVE GateInv'
  BY <1>11, AnswerJudges, CheckEnds, EvaluatedKeeps DEF Answer
<1>12. ASSUME NEW d \in Devices, NEW c \in Checks, Unreached(d, c) PROVE GateInv'
  <2>1. token[d] \in Licenses \cup {NoLicense}
    BY DEF GateInv, LicTypeOK
  <2>2. Judging(d, token[d])
    BY <1>12, <2>1, EvaluateJudges DEF Unreached
  <2> QED
    BY <1>12, <2>2, CheckEnds, EvaluatedKeeps DEF Unreached
<1>13. CASE UNCHANGED licVars
  BY <1>13 DEF licVars, licTill, licServer, GateInv, LicTypeOK, TokenHeld, SpentStays,
     NoTimeGained, Exhausted, Later
<1> QED
  BY <1>1, <1>2, <1>3, <1>4, <1>5, <1>6, <1>7, <1>8, <1>9, <1>10, <1>11, <1>12, <1>13
  DEF LicNext

-----------------------------------------------------------------------------

LEMMA GateAlways == LicSpec => []GateInv
BY GateInit, GateStep, PTL DEF LicSpec

\* The gate and the licensing server keep well-typed state, whatever order
\* clocks, checks, restarts and the provider's actions come in.
THEOREM LicTypesAlwaysOK == LicSpec => []LicTypeOK
BY GateAlways, PTL DEF GateInv

\* A token the gate once judged expired or out of offline grace is never judged
\* valid again before the server has answered about it: setting the clock back,
\* a restart or a second installation of the token gain nothing.
THEOREM NoTimeEverGained == LicSpec => []NoTimeGained
BY GateAlways, PTL DEF GateInv

-----------------------------------------------------------------------------
(* Seats.                                                                   *)

\* The limit is that of the newest-issued token shown so far.
NewestShown ==
  IF limit.by = NoLicense THEN shown = {}
  ELSE limit.by \in shown /\ \A m \in shown : Issued[m] <= Issued[limit.by]

\* What the seats rest on.
SeatsInv == GateInv /\ NewestShown /\ IsFiniteSet(active)

\* The provider's books change only where a token is validated, and then by it.
LEMMA ValidateSeats ==
  ASSUME SeatsInv, NEW u \in Devices \cup Rivals, NEW l \in Licenses, NEW ok \in BOOLEAN,
         Validate(u, l, ok)
  PROVE  /\ NewestShown' /\ IsFiniteSet(active')
         /\ \A w \in active' \ active : limit'.by \in Licenses
                 /\ Cardinality((active' \ barred') \ {w}) < Seats[limit'.by]
<1>1. /\ limit \in [by : Licenses \cup {NoLicense}, closed : BOOLEAN]
      /\ shown \subseteq Licenses /\ barred \subseteq active
      /\ Issued[l] \in Nat /\ NoLicense \notin Licenses
      /\ \A m \in Licenses : Issued[m] \in Nat
  BY LicenseAssumption DEF SeatsInv, GateInv, LicTypeOK
<1>2. CASE UNCHANGED licServer
  BY <1>2 DEF licServer, SeatsInv, NewestShown
<1>3. CASE ~UNCHANGED licServer
  <2>1. /\ limit' = [limit EXCEPT !.by = LimitBy(l)]
        /\ ok = (~limit.closed /\ u \notin barred /\ (u \in active \/ ~NoSeatLeft(l)))
        /\ active' = IF ok THEN active \cup {u} ELSE active
        /\ shown' = shown \cup {l} /\ barred' = barred
    BY <1>3 DEF Validate
  <2>2. limit'.by = LimitBy(l)
    BY <1>1, <2>1
  <2>3. LimitBy(l) = IF limit.by = NoLicense \/ Issued[limit.by] < Issued[l]
                     THEN l ELSE limit.by
    BY DEF LimitBy, NewerLimit
  <2>4. LimitBy(l) \in shown \cup {l} /\ LimitBy(l) \in Licenses
    BY <1>1, <2>3 DEF SeatsInv, NewestShown
  <2>5. ASSUME NEW m \in shown \cup {l} PROVE Issued[m] <= Issued[LimitBy(l)]
    BY <1>1, <2>3 DEF SeatsInv, NewestShown
  <2>6. NewestShown'
    BY <1>1, <2>1, <2>2, <2>4, <2>5 DEF NewestShown
  <2>7. ASSUME NEW w \in active' \ active
        PROVE  Cardinality((active' \ barred') \ {w}) < Seats[limit'.by]
    <3>1. w = u /\ ~NoSeatLeft(l)
      BY <2>1, <2>7
    <3>2. (active' \ barred') \ {w} = active \ barred
      BY <2>1, <2>7, <3>1
    <3>3. Seats[LimitBy(l)] \in Nat
      BY <2>4, LicenseAssumption
    <3>4. Cardinality(active \ barred) \in Nat
      BY FS_Difference, FS_CardinalityType DEF SeatsInv
    <3> QED
      BY <2>2, <3>1, <3>2, <3>3, <3>4 DEF NoSeatLeft
  <2>8. IsFiniteSet(active')
    BY <2>1, FS_AddElement DEF SeatsInv
  <2> QED
    BY <2>2, <2>4, <2>6, <2>7, <2>8
<1> QED
  BY <1>2, <1>3

\* A till gets a seat only while fewer than the newest-issued token shown allows
\* hold one, whichever step of the server it is.
LEMMA SeatStep ==
  ASSUME NewestShown', limit'.by \in Licenses, shown' \subseteq Licenses, NEW w,
         Cardinality((active' \ barred') \ {w}) < Seats[limit'.by]
  PROVE  \A l \in shown' : (\A m \in shown' : Issued[m] <= Issued[l]) =>
           \E m \in shown' : Issued[m] = Issued[l]
                               /\ Cardinality((active' \ barred') \ {w}) < Seats[m]
<1> SUFFICES ASSUME NEW l \in shown', \A m \in shown' : Issued[m] <= Issued[l]
             PROVE  limit'.by \in shown' /\ Issued[limit'.by] = Issued[l]
  OBVIOUS
<1>1. limit'.by # NoLicense
  BY LicenseAssumption
<1>2. limit'.by \in shown' /\ Issued[l] <= Issued[limit'.by]
  BY <1>1 DEF NewestShown
<1>3. Issued[l] \in Nat /\ Issued[limit'.by] \in Nat
  BY <1>2, LicenseAssumption
<1> QED
  BY <1>2, <1>3

SeatGiven ==
  \A u \in active' \ active, l \in shown' :
    (\A m \in shown' : Issued[m] <= Issued[l]) =>
      \E m \in shown' : Issued[m] = Issued[l] /\ Cardinality((active' \ barred') \ {u}) < Seats[m]

LEMMA SeatsKept ==
  ASSUME SeatsInv, UNCHANGED <<limit, active, shown>>
  PROVE  NewestShown' /\ IsFiniteSet(active') /\ SeatGiven
BY DEF SeatsInv, NewestShown, SeatGiven

LEMMA SeatsServed ==
  ASSUME SeatsInv, GateInv', NEW u \in Devices \cup Rivals, NEW l \in Licenses, NEW ok \in BOOLEAN,
         Validate(u, l, ok)
  PROVE  NewestShown' /\ IsFiniteSet(active') /\ SeatGiven
<1>1. /\ NewestShown' /\ IsFiniteSet(active')
      /\ \A w \in active' \ active : limit'.by \in Licenses
              /\ Cardinality((active' \ barred') \ {w}) < Seats[limit'.by]
  BY ValidateSeats
<1>2. shown' \subseteq Licenses
  BY DEF GateInv, LicTypeOK
<1>3. ASSUME NEW w \in active' \ active
      PROVE  \A m \in shown' : (\A n \in shown' : Issued[n] <= Issued[m]) =>
               \E n \in shown' : Issued[n] = Issued[m]
                                   /\ Cardinality((active' \ barred') \ {w}) < Seats[n]
  BY <1>1, <1>2, SeatStep
<1> QED
  BY <1>1, <1>3 DEF SeatGiven

LEMMA SeatsNext ==
  ASSUME SeatsInv, [LicNext]_licVars
  PROVE  SeatsInv' /\ SeatGiven
<1>1. GateInv'
  BY GateStep DEF SeatsInv
<1> SUFFICES NewestShown' /\ IsFiniteSet(active') /\ SeatGiven
  BY <1>1 DEF SeatsInv
<1>2. ASSUME NEW l \in Licenses, ServeRival(l)
      PROVE  NewestShown' /\ IsFiniteSet(active') /\ SeatGiven
  <2>1. For[l] \in Devices \cup Rivals
    BY LicenseAssumption
  <2> QED
    BY <1>1, <1>2, <2>1, SeatsServed DEF ServeRival
<1>3. ASSUME NEW d \in Devices, NEW c \in Checks, Serve(d, c)
      PROVE  NewestShown' /\ IsFiniteSet(active') /\ SeatGiven
  <2>1. check[d][c].lic \in Licenses
    BY <1>3 DEF Serve, SeatsInv, GateInv, TokenHeld
  <2> QED
    BY <1>1, <1>3, <2>1, SeatsServed DEF Serve
<1>4. CASE Office
  <2>1. active' = active /\ shown' = shown /\ limit'.by = limit.by
    BY <1>4 DEF Office, SeatsInv, GateInv, LicTypeOK
  <2>2. NewestShown'
    BY <2>1 DEF SeatsInv, NewestShown
  <2>3. SeatGiven
    BY <2>1 DEF SeatGiven
  <2> QED
    BY <2>1, <2>2, <2>3 DEF SeatsInv
<1>5. ASSUME UNCHANGED <<limit, active, shown>>
      PROVE  NewestShown' /\ IsFiniteSet(active') /\ SeatGiven
  BY <1>5, SeatsKept
<1>6. CASE Pass
  BY <1>5, <1>6 DEF Pass, licServer
<1>7. ASSUME NEW d \in Devices,
             Reevaluate(d) \/ Unreadable(d) \/ Restart(d) \/ Ask(d)
      PROVE  UNCHANGED <<limit, active, shown>>
  BY <1>7 DEF Reevaluate, Unreadable, Restart, Ask, licServer
<1>8. ASSUME NEW d \in Devices, \E l \in Licenses : Activate(d, l)
      PROVE  UNCHANGED <<limit, active, shown>>
  BY <1>8 DEF Activate, licServer
<1>9. ASSUME NEW d \in Devices, \E w \in Moments : SetClock(d, w)
      PROVE  UNCHANGED <<limit, active, shown>>
  BY <1>9 DEF SetClock, licServer
<1>10. ASSUME NEW d \in Devices, NEW c \in Checks, Answer(d, c) \/ Unreached(d, c)
       PROVE  UNCHANGED <<limit, active, shown>>
  BY <1>10 DEF Answer, Unreached, licServer
<1>11. CASE UNCHANGED licVars
  BY <1>5, <1>11 DEF licVars, licServer
<1> QED
  BY <1>2, <1>3, <1>4, <1>5, <1>6, <1>7, <1>8, <1>9, <1>10, <1>11 DEF LicNext

\* A seat is given only while fewer tills hold one than the newest-issued token
\* any till has shown allows, for any tokens, in whatever order they are shown.
THEOREM SeatsAlwaysHold == LicSpec => SeatsHold
<1>1. LicInit => SeatsInv
  <2> SUFFICES ASSUME LicInit PROVE SeatsInv
    OBVIOUS
  <2>1. NewestShown /\ IsFiniteSet(active)
    BY FS_EmptySet DEF LicInit, NewestShown
  <2> QED
    BY <2>1, GateInit DEF SeatsInv
<1>2. SeatsInv /\ [LicNext]_licVars => SeatsInv'
  BY SeatsNext
<1>3. SeatsInv /\ [LicNext]_licVars =>
        [\A u \in active' \ active, l \in shown' :
           (\A m \in shown' : Issued[m] <= Issued[l]) =>
             \E m \in shown' : Issued[m] = Issued[l]
               /\ Cardinality((active' \ barred') \ {u}) < Seats[m]]_licVars
  BY SeatsNext DEF SeatGiven
<1> QED
  BY <1>1, <1>2, <1>3, PTL DEF LicSpec, SeatsHold

-----------------------------------------------------------------------------
(* The database the till opens.                                             *)

\* What a reader sees of a database and a journal.
Seen(file, journal) == file.has \cup IF journal.db = file.db THEN journal.has ELSE {}

RstTypeOK ==
  /\ {main, wal, staged} \subseteq Images \cup {None}
  /\ kept \subseteq SUBSET Commits /\ saved \in Seq(SUBSET Commits)
  /\ chosen \in (SUBSET Commits) \cup {NoChoice}
  /\ {opened, halted, turned} \subseteq BOOLEAN
  /\ step \in {"none", "aside", "wiped", "swapped"}
  /\ books \in SUBSET Commits /\ asked \in SUBSET Commits
  /\ commits \in 0..MaxCommits /\ restores \in Ids

\* A database that is there is whole: it has its own journal or none, and the
\* till's books are in the two.  One that is not there will be replaced.
Whole ==
  /\ main # None => (wal = None \/ wal.db = main.db) /\ Seen(main, wal) = books
  /\ main = None => staged # None /\ ~opened
  /\ step \in {"aside", "wiped"} => main = None
  /\ step = "wiped" => wal = None
  /\ step = "swapped" => main # None

\* From the moment a restore is asked of a till that sells, the newest backup
\* has what there was: the next backups are newer, and no commit is undone
\* before the restore takes place.
AskedIsSaved ==
  /\ staged # None \/ chosen # NoChoice => saved # <<>>
  /\ asked \subseteq books
  /\ ~turned /\ asked # {} => saved # <<>> /\ asked \subseteq saved[1]

RstInv == RstTypeOK /\ Whole /\ AskedIsSaved

LEMMA NoneIs == None \notin Images /\ None.db \notin Ids
BY RestoreAssumption DEF None, Images, Ids

LEMMA ContentIs ==
  ASSUME RstInv, main # None
  PROVE  Content = books /\ main \in Images
BY DEF RstInv, RstTypeOK, Whole, Seen, Content

\* A backup at the head of the list is of what there is now.
LEMMA BackupFirstIs ==
  ASSUME NEW p \in Places, saved \in Seq(SUBSET Commits), Content \in SUBSET Commits
  PROVE  /\ WithBackup(p) \in Seq(SUBSET Commits) /\ WithBackup(p) # <<>>
         /\ ~turned => WithBackup(p)[1] = Content
<1> DEFINE n == IF Len(saved) < Keep THEN Len(saved) + 1 ELSE Keep
           at(i) == CASE i < p -> saved[i] [] i = p -> Content [] i > p -> saved[i - 1]
<1>1. Len(saved) \in Nat /\ Keep \in Nat /\ Keep > 0 /\ DOMAIN saved = 1..Len(saved)
  BY RestoreAssumption
<1>2. n \in Nat /\ n > 0 /\ n <= Len(saved) + 1
  BY <1>1
<1>3. p \in 1..(Len(saved) + 1) /\ (~turned => p = 1)
  BY <1>1 DEF Places
<1>4. \A i \in 1..n : at(i) \in SUBSET Commits
  <2> TAKE i \in 1..n
  <2>1. CASE i < p
    <3>1. i \in DOMAIN saved /\ ~(i = p) /\ ~(i > p)
      BY <1>1, <1>3, <2>1
    <3>2. saved[i] \in SUBSET Commits
      BY <3>1
    <3>3. at(i) = saved[i]
      BY <2>1, <3>1
    <3> QED
      BY <3>2, <3>3
  <2>2. CASE i = p
    BY <2>2
  <2>3. CASE i > p
    <3>1. i - 1 \in DOMAIN saved /\ ~(i < p) /\ i # p
      BY <1>1, <1>2, <1>3, <2>3
    <3>2. saved[i - 1] \in SUBSET Commits
      BY <3>1
    <3>3. at(i) = saved[i - 1]
      BY <2>3, <3>1
    <3> QED
      BY <3>2, <3>3
  <2> QED
    BY <1>2, <1>3, <2>1, <2>2, <2>3
<1>5. WithBackup(p) = [i \in 1..n |-> at(i)]
  BY DEF WithBackup
<1>6. at(p) = Content
  BY <1>3
<1> HIDE DEF n, at
<1>7. [i \in 1..n |-> at(i)] \in Seq(SUBSET Commits)
  BY <1>2, <1>4
<1>8. 1 \in 1..n /\ [i \in 1..n |-> at(i)] # <<>>
  BY <1>2
<1>9. ~turned => [i \in 1..n |-> at(i)][1] = Content
  BY <1>3, <1>6, <1>8
<1> QED
  BY <1>5, <1>7, <1>8, <1>9

LEMMA RstStart == RstInit => RstInv
<1> SUFFICES ASSUME RstInit PROVE RstInv
  OBVIOUS
<1>1. 0 \in Ids /\ 0 \in 0..MaxCommits
  BY RestoreAssumption DEF Ids
<1>2. main \in Images /\ main # None /\ wal.db # main.db
  BY <1>1, NoneIs DEF RstInit, Images, None
<1>3. RstTypeOK
  <2>1. {main, wal, staged} \subseteq Images \cup {None}
    BY <1>2 DEF RstInit
  <2>2. saved \in Seq(SUBSET Commits)
    BY DEF RstInit
  <2>3. kept \subseteq SUBSET Commits /\ books \in SUBSET Commits /\ asked \in SUBSET Commits
    BY DEF RstInit
  <2> QED
    BY <1>1, <2>1, <2>2, <2>3 DEF RstInit, RstTypeOK
<1>4. Whole
  BY <1>2 DEF RstInit, Whole, Seen
<1>5. AskedIsSaved
  BY DEF RstInit, AskedIsSaved
<1> QED
  BY <1>3, <1>4, <1>5 DEF RstInv

-----------------------------------------------------------------------------
(* The till at work.                                                        *)

LEMMA CommitKeeps == ASSUME RstInv, Commit PROVE RstInv'
<1>1. opened /\ main # None /\ main \in Images /\ Content = books
  BY ContentIs DEF Commit, counts, RstInv, RstTypeOK, Whole
<1>2. commits' \in Commits /\ commits' \in 0..MaxCommits
  BY RestoreAssumption DEF Commit, counts, RstInv, RstTypeOK, Commits
<1> DEFINE journal == (IF wal.db = main.db THEN wal.has ELSE {}) \cup {commits'}
<1>3. journal \in SUBSET Commits
  <2>1. wal.db = main.db => wal \in Images
    BY <1>1, NoneIs DEF RstInv, RstTypeOK, Images
  <2> QED
    BY <1>2, <2>1 DEF Images
<1>4. wal' = [db |-> main.db, has |-> journal] /\ wal' \in Images
  BY <1>1, <1>3 DEF Commit, counts, Images
<1>5. Seen(main', wal') = books'
  BY <1>1, <1>4 DEF Commit, counts, Seen, Content
<1>6. RstTypeOK'
  BY <1>2, <1>4 DEF Commit, counts, RstInv, RstTypeOK
<1>7. Whole'
  BY <1>1, <1>4, <1>5 DEF Commit, counts, RstInv, Whole
<1>8. AskedIsSaved'
  BY DEF Commit, counts, RstInv, AskedIsSaved
<1> QED
  BY <1>6, <1>7, <1>8 DEF RstInv

\* The journal goes into the file: at a checkpoint, or when it is closed.
LEMMA FileTakesAll ==
  ASSUME RstInv, main # None, main' = [main EXCEPT !.has = Content], wal' \in {wal, None}
  PROVE  main' \in Images /\ main' # None /\ main'.db = main.db /\ Seen(main', wal') = books
<1>1. Content = books /\ main \in Images /\ books \in SUBSET Commits
  BY ContentIs DEF RstInv, RstTypeOK
<1>2. main' \in Images /\ main'.db = main.db /\ main'.has = books
  BY <1>1 DEF Images
<1>3. wal.db = main.db => wal.has \subseteq books
  BY <1>1 DEF Content
<1>4. None.has = {} /\ main' # None
  BY <1>2, NoneIs DEF None
<1> QED
  BY <1>2, <1>3, <1>4 DEF Seen

LEMMA CheckpointKeeps == ASSUME RstInv, Checkpoint PROVE RstInv'
<1>1. main # None /\ opened
  BY DEF Checkpoint, counts, RstInv, Whole
<1>2. main' \in Images /\ main' # None /\ main'.db = main.db /\ Seen(main', wal') = books
  BY <1>1, FileTakesAll DEF Checkpoint
<1>3. RstTypeOK' /\ AskedIsSaved'
  BY <1>2 DEF Checkpoint, counts, RstInv, RstTypeOK, AskedIsSaved
<1>4. Whole'
  BY <1>1, <1>2 DEF Checkpoint, counts, RstInv, Whole
<1> QED
  BY <1>3, <1>4 DEF RstInv

LEMMA CloseKeeps == ASSUME RstInv, Close PROVE RstInv'
<1>1. main # None /\ opened
  BY DEF Close, counts, RstInv, Whole
<1>2. main' \in Images /\ main' # None /\ main'.db = main.db /\ Seen(main', wal') = books
  BY <1>1, FileTakesAll DEF Close
<1>3. RstTypeOK'
  BY <1>2 DEF Close, counts, RstInv, RstTypeOK
<1>4. AskedIsSaved'
  BY DEF Close, counts, RstInv, AskedIsSaved
<1>5. Whole'
  BY <1>1, <1>2 DEF Close, counts, RstInv, Whole
<1> QED
  BY <1>3, <1>4, <1>5 DEF RstInv

LEMMA SavedNow ==
  ASSUME RstInv, opened, NEW p \in Places
  PROVE  /\ WithBackup(p) \in Seq(SUBSET Commits) /\ WithBackup(p) # <<>>
         /\ ~turned => WithBackup(p)[1] = books
<1>1. main # None /\ saved \in Seq(SUBSET Commits) /\ books \in SUBSET Commits
  BY DEF RstInv, RstTypeOK, Whole
<1> QED
  BY <1>1, ContentIs, BackupFirstIs

LEMMA TurnClockBackKeeps == ASSUME RstInv, TurnClockBack PROVE RstInv'
BY DEF TurnClockBack, files, counts, RstInv, RstTypeOK, Whole, AskedIsSaved

LEMMA BackupKeeps == ASSUME RstInv, Backup PROVE RstInv'
<1>1. /\ saved' \in Seq(SUBSET Commits) /\ saved' # <<>>
      /\ ~turned => saved'[1] = books
  BY SavedNow DEF Backup
<1>2. RstTypeOK' /\ Whole'
  BY <1>1 DEF Backup, counts, RstInv, RstTypeOK, Whole
<1>3. AskedIsSaved'
  BY <1>1 DEF Backup, counts, RstInv, AskedIsSaved
<1> QED
  BY <1>2, <1>3 DEF RstInv

LEMMA AskRestoreKeeps == ASSUME RstInv, AskRestore PROVE RstInv'
<1>1. PICK i \in DOMAIN saved : AskOpen(i) \/ AskHalted(i)
  BY DEF AskRestore
<1>2. saved[i] \in SUBSET Commits /\ saved # <<>>
  BY DEF RstInv, RstTypeOK
<1>3. restores' \in Ids
  BY RestoreAssumption DEF AskRestore, RstInv, RstTypeOK, Ids
<1>4. UNCHANGED <<main, wal, staged, kept, opened, halted, step, turned, books, commits>>
  BY DEF AskRestore
<1>5. chosen' \in (SUBSET Commits) \cup {NoChoice}
  BY <1>1, <1>2 DEF AskOpen, AskHalted
<1>6. Whole'
  BY <1>4 DEF RstInv, Whole
<1>7. CASE AskOpen(i)
  <2>1. /\ saved' \in Seq(SUBSET Commits) /\ saved' # <<>>
        /\ ~turned => saved'[1] = books
    BY <1>7, SavedNow DEF AskOpen, BackupFirst
  <2>2. asked' \in SUBSET Commits /\ asked' \subseteq books
    BY <1>7 DEF AskOpen, RstInv, RstTypeOK, AskedIsSaved
  <2>3. RstTypeOK'
    BY <1>3, <1>4, <1>5, <2>1, <2>2 DEF RstInv, RstTypeOK
  <2>4. AskedIsSaved'
    BY <1>4, <2>1, <2>2 DEF AskedIsSaved
  <2> QED
    BY <1>6, <2>3, <2>4 DEF RstInv
<1>8. CASE AskHalted(i)
  <2>1. UNCHANGED <<saved, asked>>
    BY <1>8 DEF AskHalted
  <2>2. RstTypeOK'
    BY <1>3, <1>4, <1>5, <2>1 DEF RstInv, RstTypeOK
  <2>3. AskedIsSaved'
    BY <1>2, <1>4, <2>1 DEF RstInv, AskedIsSaved
  <2> QED
    BY <1>6, <2>2, <2>3 DEF RstInv
<1> QED
  BY <1>1, <1>7, <1>8

LEMMA StageKeeps == ASSUME RstInv, Stage PROVE RstInv'
<1>1. staged' \in Images
  BY DEF Stage, files, counts, RstInv, RstTypeOK, Images
<1>2. staged' # None
  BY <1>1, NoneIs
<1>3. RstTypeOK'
  BY <1>1 DEF Stage, files, counts, RstInv, RstTypeOK
<1>4. Whole'
  BY <1>2 DEF Stage, files, counts, RstInv, Whole
<1>5. AskedIsSaved'
  BY DEF Stage, files, counts, RstInv, AskedIsSaved
<1> QED
  BY <1>3, <1>4, <1>5 DEF RstInv

LEMMA PowerCutKeeps == ASSUME RstInv, PowerCut PROVE RstInv'
<1>1. RstTypeOK' /\ Whole'
  BY DEF PowerCut, files, counts, RstInv, RstTypeOK, Whole
<1>2. AskedIsSaved'
  BY DEF PowerCut, files, counts, RstInv, AskedIsSaved
<1> QED
  BY <1>1, <1>2 DEF RstInv

LEMMA HaltStorageKeeps == ASSUME RstInv, HaltStorage PROVE RstInv'
BY DEF HaltStorage, files, counts, RstInv, RstTypeOK, Whole, AskedIsSaved

LEMMA ReadsAgainKeeps == ASSUME RstInv, ReadsAgain PROVE RstInv'
BY DEF ReadsAgain, files, counts, RstInv, RstTypeOK, Whole, AskedIsSaved

-----------------------------------------------------------------------------
(* The swap at the next start.                                              *)

LEMMA AsideKeeps == ASSUME RstInv, Aside PROVE RstInv'
<1>1. main # None => main.has \in SUBSET Commits
  BY DEF RstInv, RstTypeOK, Images
<1>2. RstTypeOK' /\ Whole' /\ AskedIsSaved'
  BY <1>1 DEF Aside, files, counts, RstInv, RstTypeOK, Whole, AskedIsSaved
<1> QED
  BY <1>2 DEF RstInv

LEMMA WipeKeeps == ASSUME RstInv, Wipe PROVE RstInv'
BY DEF Wipe, files, counts, NoJournal, RstInv, RstTypeOK, Whole, AskedIsSaved

LEMMA SwapKeeps == ASSUME RstInv, Swap PROVE RstInv'
<1>1. main = None /\ wal = None /\ staged # None /\ staged \in Images /\ ~opened /\ saved # <<>>
  BY DEF Swap, files, counts, RstInv, RstTypeOK, Whole, AskedIsSaved
<1>2. Seen(main', wal') = books'
  BY <1>1, NoneIs DEF Swap, files, counts, Seen, Images
<1>3. RstTypeOK'
  BY <1>1 DEF Swap, files, counts, RstInv, RstTypeOK, Images
<1>4. Whole'
  <2>1. main' = staged /\ wal' = None /\ step' = "swapped"
    BY <1>1 DEF Swap, files, counts
  <2> QED
    BY <1>1, <1>2, <2>1 DEF Whole
<1>5. AskedIsSaved'
  BY <1>1 DEF Swap, files, counts, AskedIsSaved
<1> QED
  BY <1>3, <1>4, <1>5 DEF RstInv

LEMMA OpenKeeps == ASSUME RstInv, Open PROVE RstInv'
<1>1. main # None
  BY DEF Open, files, counts, RstInv, Whole
<1>2. RstTypeOK' /\ Whole'
  BY <1>1 DEF Open, files, counts, RstInv, RstTypeOK, Whole
<1>3. AskedIsSaved'
  BY DEF Open, files, counts, RstInv, AskedIsSaved
<1> QED
  BY <1>2, <1>3 DEF RstInv

LEMMA RstStep == RstInv /\ [RstNext]_rstVars => RstInv'
<1>1. RstInv /\ UNCHANGED rstVars => RstInv'
  BY DEF rstVars, files, counts, RstInv, RstTypeOK, Whole, AskedIsSaved
<1> QED
  BY <1>1, CommitKeeps, CheckpointKeeps, TurnClockBackKeeps, BackupKeeps, AskRestoreKeeps,
     StageKeeps, CloseKeeps, PowerCutKeeps, HaltStorageKeeps, ReadsAgainKeeps, AsideKeeps,
     WipeKeeps, SwapKeeps, OpenKeeps DEF RstNext

LEMMA RstAlways == RstSpec => []RstInv
BY RstStart, RstStep, PTL DEF RstSpec

\* Whatever step the power went at, the database that is opened is whole, has
\* its own journal or none, and holds the till's books.
THEOREM AlwaysOpensWhole == RstSpec => []OpensWhole
<1>1. RstInv => OpensWhole
  <2> SUFFICES ASSUME RstInv, opened PROVE OpensWhole
    BY DEF OpensWhole
  <2>1. main # None
    BY DEF RstInv, Whole
  <2> QED
    BY <2>1, ContentIs DEF OpensWhole, RstInv, Whole
<1> QED
  BY <1>1, RstAlways, PTL

\* When a restore takes a database's place, what the till had when its owner
\* last asked it, while it sold, for a restore is in the newest backup, however
\* many were made and pruned since and whatever was asked while the till was
\* halted; as long as the clock is not set back.
THEOREM AsideIsAlwaysSaved == RstSpec => AsideIsSaved
<1>1. RstInv /\ Swap /\ ~turned =>
        \E old \in kept \cup {saved[i] : i \in DOMAIN saved} : asked \subseteq old
  <2> SUFFICES ASSUME RstInv, Swap, ~turned
               PROVE  1 \in DOMAIN saved /\ asked \subseteq saved[1]
    OBVIOUS
  <2>1. main = None /\ staged # None
    BY DEF Swap, RstInv, Whole
  <2>2. saved # <<>> /\ asked \subseteq saved[1]
    BY <2>1 DEF RstInv, AskedIsSaved
  <2>3. saved \in Seq(SUBSET Commits)
    BY DEF RstInv, RstTypeOK
  <2> QED
    BY <2>2, <2>3
<1>2. RstInv /\ [RstNext]_rstVars =>
        [Swap /\ ~turned =>
           \E old \in kept \cup {saved[i] : i \in DOMAIN saved} : asked \subseteq old]_rstVars
  BY <1>1
<1> QED
  BY <1>2, RstAlways, PTL DEF RstSpec, AsideIsSaved
=============================================================================
