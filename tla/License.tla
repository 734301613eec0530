------------------------------ MODULE License ------------------------------
(***************************************************************************)
(* The licence gate of a till and the server that counts seats.  A till    *)
(* holds a signed token for its hardware.  It judges it by the wall clock, *)
(* kept from going back by a high-water mark in its database, and asks the *)
(* server now and then; the answer is stored with the token's row.  The    *)
(* lock of LicenseService is not held while the server is asked, so a      *)
(* check is two steps, and the periodic check and the one an activation    *)
(* starts can overlap.                                                     *)
(***************************************************************************)
EXTENDS Integers, FiniteSets

CONSTANTS
  Devices,    \* tills with their local state
  Rivals,     \* other tills of the client, seen only by the server
  Licenses,   \* signed tokens
  NoLicense,
  For,        \* For[l]: the device the token is bound to (fp, dkh)
  Issued,     \* Issued[l]: iat (nbf is not set by the generator)
  Expires,    \* Expires[l]: exp, after MaxNow for a licence without one
  Seats,      \* Seats[l]: max_devices
  Grace,      \* offline_grace_days
  MaxNow,     \* bound: time
  MaxActs,    \* bound: activations, changes of a till's clock, revocations and
              \* reinstatements
  MaxLost     \* bound: checks that do not reach the server, and restarts

ASSUME LicenseAssumption ==
  /\ MaxNow \in Nat \ {0} /\ Grace \in Nat
  /\ NoLicense \notin Licenses
  /\ For \in [Licenses -> Devices \cup Rivals]
  /\ Issued \in [Licenses -> Nat] /\ Expires \in [Licenses -> Nat]
  /\ Seats \in [Licenses -> Nat]

Moments == 1..MaxNow
Checks == {"worker", "activation"}
NoCheck == [stage |-> "none", lic |-> NoLicense, ok |-> FALSE, at |-> 1]
Halts == {"missing", "revoked", "invalid_token", "expired", "grace_exhausted", "storage_error"}

VARIABLES
  now,      \* the server's clock
  wall,     \* wall[d]: the till's clock
  token,    \* token[d]: license.jwt
  row,      \* row[d][l]: the licence row, [mark, seen, revoked]; 0: null
  status,   \* status[d]: what the gate last decided
  check,    \* check[d][c]: cloud checks under way
  limit,    \* client_licenses: [by: the token that set it, closed]
  active,   \* device_activations
  barred,   \* those of them with revoked_at
  shown,    \* history: tokens the server has accepted
  spent,    \* history, spent[d]: tokens found expired or out of grace since the
            \* server last answered about them
  acts, lost  \* how often people and faults have acted

licTill == <<wall, token, row, status, check>>
licServer == <<limit, active, barred, shown>>
licBounds == <<acts, lost>>
licVars == <<now, licTill, licServer, spent, licBounds>>

NoRecord == [mark |-> 0, seen |-> 0, revoked |-> FALSE]

LicInit ==
  /\ now = 1
  /\ wall = [d \in Devices |-> 1]
  /\ token = [d \in Devices |-> NoLicense]
  /\ row = [d \in Devices |-> [l \in Licenses |-> NoRecord]]
  /\ status = [d \in Devices |-> "missing"]
  /\ check = [d \in Devices |-> [c \in Checks |-> NoCheck]]
  /\ limit = [by |-> NoLicense, closed |-> FALSE]
  /\ active = {}
  /\ barred = {}
  /\ shown = {}
  /\ spent = [d \in Devices |-> {}]
  /\ acts = 0 /\ lost = 0

-----------------------------------------------------------------------------
(* The gate.                                                                *)

Later(a, b) == IF a >= b THEN a ELSE b

WallOnly(mark, w) == w                  \* mutant: the mark is not looked at
\* grace::effective_now
EffectiveNow(mark, w) == Later(mark, w)

\* check_validity_window (its five minutes of skew are less than a day), then
\* grace::evaluate, for licence l with record r.
Judged(l, r, at) ==
  IF r.revoked THEN "revoked"
  ELSE IF Issued[l] > at THEN "invalid_token"
  ELSE IF at >= Expires[l] THEN "expired"
  ELSE IF at >= Later(Issued[l], r.seen) + Grace THEN "grace_exhausted"
  ELSE "valid"

\* evaluate_locked: the mark is raised, then the policy applied to what was
\* stored before.  rec are the rows as they are by then, tok the token file.
Evaluate(d, tok, rec) ==
  IF tok = NoLicense
  THEN /\ status' = [status EXCEPT ![d] = "missing"]
       /\ row' = [row EXCEPT ![d] = rec]
       /\ UNCHANGED spent
  ELSE LET r == rec[tok]
           verdict == Judged(tok, r, EffectiveNow(r.mark, wall[d]))
       IN /\ row' = [row EXCEPT ![d] = [rec EXCEPT ![tok].mark = Later(@, wall[d])]]
          /\ status' = [status EXCEPT ![d] = verdict]
          /\ spent' = IF verdict \in {"expired", "grace_exhausted"}
                      THEN [spent EXCEPT ![d] = @ \cup {tok}] ELSE spent

\* The worker's re-evaluation and verify_license.
Reevaluate(d) ==
  /\ Evaluate(d, token[d], row[d])
  /\ UNCHANGED <<now, wall, token, check, licServer, licBounds>>

\* establish: license.jwt cannot be read just now; the database is closed.
Unreadable(d) ==
  /\ lost < MaxLost
  /\ lost' = lost + 1
  /\ status' = [status EXCEPT ![d] = "storage_error"]
  /\ UNCHANGED <<now, wall, token, row, check, licServer, spent, acts>>

Asking(d, c, l) ==
  check' = [check EXCEPT ![d][c] = [NoCheck EXCEPT !.stage = "asked", !.lic = l]]

\* activate: a token that does not verify by the wall clock changes nothing.  A
\* till that is valid then asks the server straight away (commands::license).
Activate(d, l) ==
  /\ acts < MaxActs
  /\ acts' = acts + 1
  /\ For[l] = d
  /\ Issued[l] <= wall[d] /\ wall[d] < Expires[l]
  /\ check[d]["activation"].stage = "none"
  /\ token' = [token EXCEPT ![d] = l]
  /\ Evaluate(d, l, row[d])
  /\ IF status'[d] = "valid" THEN Asking(d, "activation", l) ELSE UNCHANGED check
  /\ UNCHANGED <<now, wall, licServer, lost>>

\* cloud_check of the worker, up to the request.
Ask(d) ==
  /\ check[d]["worker"].stage = "none"
  /\ token[d] # NoLicense
  /\ Evaluate(d, token[d], row[d])
  /\ Asking(d, "worker", token[d])
  /\ UNCHANGED <<now, wall, token, licServer, licBounds>>

\* mutant: a refusal is not stored
RefusalForgotten(r, reply) ==
  [mark |-> reply.at, seen |-> IF reply.ok THEN reply.at ELSE r.seen, revoked |-> FALSE]

\* mutant: the mark is only ever raised
OnlyRaised(r, reply) ==
  [mark |-> Later(r.mark, reply.at), seen |-> IF reply.ok THEN reply.at ELSE r.seen,
   revoked |-> ~reply.ok]

\* record_cloud_verdict: the mark becomes the server's time.
Recorded(r, reply) ==
  IF reply.ok THEN [mark |-> reply.at, seen |-> reply.at, revoked |-> FALSE]
              ELSE [mark |-> reply.at, seen |-> r.seen, revoked |-> TRUE]

\* cloud_check after the answer.  Only an open database takes the verdict.
Answer(d, c) ==
  LET k == check[d][c]
      open == status[d] \notin {"missing", "storage_error"}
  IN /\ k.stage = "answered"
     /\ check' = [check EXCEPT ![d][c] = NoCheck]
     /\ IF open
        THEN LET rec == [row[d] EXCEPT ![k.lic] = Recorded(@, k)]
                 tok == token[d]
                 r == rec[tok]
                 verdict == Judged(tok, r, EffectiveNow(r.mark, wall[d]))
             IN /\ row' = [row EXCEPT ![d] = [rec EXCEPT ![tok].mark = Later(@, wall[d])]]
                /\ status' = [status EXCEPT ![d] = verdict]
                /\ spent' = [spent EXCEPT ![d] =
                     (@ \ {k.lic}) \cup IF verdict \in {"expired", "grace_exhausted"}
                                        THEN {tok} ELSE {}]
        ELSE Evaluate(d, token[d], row[d])
     /\ UNCHANGED <<now, wall, token, licServer, licBounds>>

\* CloudError::Unreachable: a time-out, a 5xx, or a till that is offline.
Unreached(d, c) ==
  /\ lost < MaxLost
  /\ lost' = lost + 1
  /\ check[d][c].stage # "none"
  /\ check' = [check EXCEPT ![d][c] = NoCheck]
  /\ Evaluate(d, token[d], row[d])
  /\ UNCHANGED <<now, wall, token, licServer, acts>>

\* The till is switched off and on; nothing is known until it has evaluated.
Restart(d) ==
  /\ lost < MaxLost
  /\ lost' = lost + 1
  /\ check' = [check EXCEPT ![d] = [c \in Checks |-> NoCheck]]
  /\ status' = [status EXCEPT ![d] = "missing"]
  /\ UNCHANGED <<now, wall, token, row, licServer, spent, acts>>

-----------------------------------------------------------------------------
(* license-validate and validate_device_activation, serialised per client.  *)

AnyNewer(l) == TRUE                     \* mutant: any token sets the limit
NewerLimit(l) == limit.by = NoLicense \/ Issued[limit.by] < Issued[l]

LimitBy(l) == IF NewerLimit(l) THEN l ELSE limit.by

NoSeatLeft(l) == Cardinality(active \ barred) >= Seats[LimitBy(l)]

\* The answer to token l of device u: the new activations, and whether it may go on.
Validate(u, l, ok) ==
  IF now < Issued[l] \/ now >= Expires[l]
  THEN ok = FALSE /\ UNCHANGED licServer
  ELSE /\ limit' = [limit EXCEPT !.by = LimitBy(l)]
       /\ ok = (~limit.closed /\ u \notin barred /\ (u \in active \/ ~NoSeatLeft(l)))
       /\ active' = IF ok THEN active \cup {u} ELSE active
       /\ shown' = shown \cup {l}
       /\ UNCHANGED barred

Serve(d, c) ==
  /\ check[d][c].stage = "asked"
  /\ \E ok \in BOOLEAN :
       /\ Validate(d, check[d][c].lic, ok)
       /\ check' = [check EXCEPT ![d][c] = [@ EXCEPT !.stage = "answered", !.ok = ok, !.at = now]]
  /\ UNCHANGED <<now, wall, token, row, status, spent, licBounds>>

ServeRival(l) ==
  /\ For[l] \in Rivals
  /\ \E ok \in BOOLEAN : Validate(For[l], l, ok)
  /\ UNCHANGED <<now, licTill, spent, licBounds>>

\* mutant: a row of device_activations can be deleted (forbid_hard_delete)
HardDelete ==
  /\ acts < MaxActs
  /\ acts' = acts + 1
  /\ \E u \in active :
       \/ /\ barred' = barred \cup {u}
          /\ UNCHANGED active
       \/ /\ active' = active \ {u}
          /\ UNCHANGED barred
  /\ UNCHANGED <<now, licTill, limit, shown, spent, lost>>

\* The provider revokes or reinstates a till, or the whole client.
Office ==
  /\ acts < MaxActs
  /\ acts' = acts + 1
  /\ \/ /\ \E u \in active : barred' = IF u \in barred THEN barred \ {u} ELSE barred \cup {u}
        /\ UNCHANGED limit
     \/ limit' = [limit EXCEPT !.closed = ~@] /\ limit.by # NoLicense /\ UNCHANGED barred
  /\ UNCHANGED <<now, licTill, active, shown, spent, lost>>

-----------------------------------------------------------------------------
(* Time.                                                                    *)

Pass ==
  /\ now < MaxNow
  /\ now' = now + 1
  /\ wall' = [d \in Devices |-> IF wall[d] < MaxNow THEN wall[d] + 1 ELSE wall[d]]
  /\ UNCHANGED <<token, row, status, check, licServer, spent, licBounds>>

SetClock(d, w) ==
  /\ acts < MaxActs
  /\ acts' = acts + 1
  /\ w # wall[d]
  /\ wall' = [wall EXCEPT ![d] = w]
  /\ UNCHANGED <<now, token, row, status, check, licServer, spent, lost>>

LicNext ==
  \/ Pass \/ Office
  \/ \E l \in Licenses : ServeRival(l)
  \/ \E d \in Devices :
       \/ Reevaluate(d) \/ Unreadable(d) \/ Restart(d) \/ Ask(d)
       \/ \E l \in Licenses : Activate(d, l)
       \/ \E w \in Moments : SetClock(d, w)
       \/ \E c \in Checks : Serve(d, c) \/ Answer(d, c) \/ Unreached(d, c)

LicSpec == LicInit /\ [][LicNext]_licVars

\* The worker asks every 6 hours, every 15 minutes while it gets no answer, and
\* takes the answer of what it asked (lib.rs, spawn_license_worker).
LicFairness ==
  \A d \in Devices :
    /\ WF_licVars(Ask(d))
    /\ \A c \in Checks : WF_licVars(Serve(d, c)) /\ WF_licVars(Answer(d, c))

-----------------------------------------------------------------------------
(* Properties.                                                              *)

Rows == [mark : Nat, seen : Nat, revoked : BOOLEAN]

LicTypeOK ==
  /\ now \in Moments /\ wall \in [Devices -> Moments]
  /\ token \in [Devices -> Licenses \cup {NoLicense}]
  /\ row \in [Devices -> [Licenses -> Rows]]
  /\ status \in [Devices -> Halts \cup {"valid"}]
  /\ check \in [Devices -> [Checks -> [stage : {"none", "asked", "answered"},
                    lic : Licenses \cup {NoLicense}, ok : BOOLEAN, at : Moments]]]
  /\ limit \in [by : Licenses \cup {NoLicense}, closed : BOOLEAN]
  /\ active \subseteq Devices \cup Rivals /\ barred \subseteq active
  /\ shown \subseteq Licenses /\ spent \in [Devices -> SUBSET Licenses]

\* Winding the clock back, restarting, or installing the token again buys no
\* time: a token once judged expired, or out of offline grace, is not judged
\* valid again before the server has answered about it.
NoTimeGained == \A d \in Devices : status[d] = "valid" => token[d] \notin spent[d]

\* A till gets a seat only while fewer tills hold one than the newest-issued
\* token any till has shown allows: an older token with more seats, shown later,
\* does not raise the limit back (limits_issued_at).
SeatsHold ==
  [][\A u \in active' \ active, l \in shown' :
       (\A m \in shown' : Issued[m] <= Issued[l]) =>
         \E m \in shown' : Issued[m] = Issued[l] /\ Cardinality((active' \ barred') \ {u}) < Seats[m]]_licVars

\* A till the provider revoked, or whose business it closed, and that is left with
\* the token it has, comes to a halt and
\* stays halted, whatever restarts and clock changes happen on the way.
RevokedHalts ==
  \A d \in Devices, l \in Licenses :
    <>[](token[d] = l /\ (d \in barred \/ limit.closed)) => <>[](status[d] # "valid")

\* A till with a seat, a current token and the right time ends up valid, and
\* stays so: a clock that once ran far ahead, an answer that said no, and an
\* exhausted grace are forgiven by a check that reaches the server.
GoodTillRuns ==
  \A d \in Devices, l \in Licenses :
    <>[](/\ token[d] = l /\ wall[d] = now
         /\ d \in active \ barred /\ ~limit.closed
         /\ Issued[l] <= now /\ now < Expires[l]) => <>[](status[d] = "valid")
=============================================================================
