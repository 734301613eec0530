# Verification of the POS: TLA+ models, model checking and proofs

This directory holds TLA+ models of the point of sale in this repository, the
TLC configurations that check them on small instances, and theorems about them
that TLAPS checks for every value of the constants. `PROJECT.json` is the index:
components, runs, mutants, the map from definitions to source lines, findings,
hazards and theorems. Paths below without a prefix are under
`src/apps/pos-client/src-tauri/src/`.

## The system

A shop runs one or more **tills** (`apps/pos-client`, a Tauri application: a
Rust core over one SQLite database, and a user interface). A till sells with no
network; it synchronises with one **server** when it can: the **cloud**
(PostgreSQL functions in `supabase/`) or one of the tills, which is then the
**hub** of the shop's network. A **generator** (`apps/generator`) makes the
client builds and licences.

| component | state | operations | talks to | what is hard |
|---|---|---|---|---|
| Sync engine: `sync/engine.rs`, `apply.rs`, `repo/outbox.rs` | `sync_queue` (outbox), the pull cursor, every synced table | record a change, push, pull, apply a page | hub or cloud over HTTP | lost answers, retries, switch-off between fetch and apply, edits while a round runs |
| Hub: `sync/hub.rs`, `lan.rs` | `hub_rows`, `hub_events` | push, pull, seed, start, stop | tills | requests that arrive late or twice; a hub that is replaced |
| Cloud sync: `supabase/migrations/20260924000000_sync.sql` | `sync_rows`, `sync_received_events`, one sequence per client | `sync_push`, `sync_pull` | tills | statement snapshots, one event of a batch failing |
| Connection lock and commands: `db/mod.rs`, `commands/` | one mutex around the only connection | every command | all services | a second lock on the same thread, work done outside the lock |
| Sales, refunds, shifts, reports: `repo/sales.rs`, `refunds.rs`, `repo/shifts.rs`, `reports.rs` | transactions, lines, tenders, shifts, Z reports | complete, refund, void, open, close, report | stock, loyalty, print queue, outbox | checkout sent twice, partial refunds and rounding, refunds at two tills |
| Open orders: `open_orders.rs`, `repo/orders.rs` | orders, their lines, tables | save, split, merge, settle | sales, kitchen | two tills with one order |
| Print queues: `printing.rs`, `kitchen.rs`, `repo/print_jobs.rs` | `print_queue`, kitchen tickets | enqueue, drain, reprint | printers | several drains at once, crash before the job is marked |
| Licensing: `license/`, `crates/pos-license`, `supabase/` | licence, last cloud verdict, clock high-water mark | activate, check, evaluate | licence server | a clock that is set back, a verdict that comes late |
| Backup and restore: `backup.rs` | backup files, a staged restore | back up, stage, apply at start | the database file | switch-off between two renames; an older database that goes on synchronising |
| Loyalty and memberships: `loyalty.rs`, `repo/memberships.rs` | point ledger, cards | earn, redeem, reverse | sales | redemption at two offline tills |
| Session: `session.rs`, `repo/users.rs` | who is logged in, PIN attempts | log in, lock | every command | counters and time-outs |
| Updater: `updater.rs` | a downloaded update | check, take, install | the cloud, hub files | a check that races with the installation |
| Money: `crates/pos-core` | none | price a cart, split a discount, give change | sales, refunds | rounding |
| Generator: `apps/generator` | clients, keys, builds | issue, build, publish | GitHub, cloud | a build that is polled |
| Interfaces, drivers, formatting | | | | not modelled |

`PROJECT.json` gives the status of each part and, under `hazards`, the lines
where each of these difficulties bites.

## Modules

| module | about | abstract side, proofs |
|---|---|---|
| `TillSync` (`MCTillSync`, `MCHubSync`) | tills and one server that synchronise | `EventLedger`; `TillSyncInv`, `TillSync_proofs` |
| `PrintQueue` | concurrent drains of one queue | `PrintQueue_proofs` |
| `Bill` (`MCCounter`) | what a bill costs, and how it is paid | `Bill_proofs` |
| `TillDay` (`MCTillDay`, `MCBooks`) | sales, refunds, voids, shifts, Z reports | `TillDay_proofs` |
| `OpenOrders` (`MCOpenOrders`) | tabs and tables at several tills, and the kitchen | `OpenOrders_proofs` |
| `License` | the licence gate and the server that counts seats | `TillStart_proofs` |
| `Restore` | the database file, backups and a staged restore | `TillStart_proofs` |
| `CommandLayer`, `TillCommands` (`MCTill`) | every command and worker as what it locks, waits for and may do | `CommandLayer_proofs` |
| `SumTheorems` | lemmas for the proofs above: division, induction, sums | |

The modules meet in the rows they share: a bill that `Bill` prices is a sale of
`TillDay`, whose stock and points travel as `TillSync`'s movements, whose
receipt is a job of `PrintQueue`, and which `OpenOrders` makes of part of an
order. Each takes the next one's guarantee as data: `OpenOrders` exchanges
versions the way `EventLedger` promises, `TillDay` receives a transaction whole.

Two modules that share no state are checked in one run (`counter`: `PrintQueue`
or `Bill`; `till_start`: `License` or `Restore`), and so are two instances of
one module (`hub_sync`, `books`, `orders`): the variable `about` (or `tabs`),
chosen in the initial state, says which of the two a behaviour is. No behaviour
mixes them, so nothing is checked less than in two runs.

Each module takes its bounds as CONSTANTS with named assumptions, has one
action per operation, and states its invariants as conjunctions of named parts;
none of the modules that carry proofs uses a RECURSIVE operator.

### Sums and induction

Money, quantities and points are sums over lines, tenders and tickets, written
with `SumFunctionOnSet` of the community modules, and lists are worked through
by recursive functions. `SumTheorems` makes both provable. The library's
induction theorems take an operator as a parameter, which no prover here can
instantiate; `SetInduction` and `InductionUpTo` take the set `G` of the values
the claim holds of instead, and follow from the finite sets being well founded
under inclusion. From them:

* `UnrolledOnce`, `UnrolledExists`: the recursion behind the sum has exactly one
  solution on every finite set, so the sum is the first term plus the rest
  (`SumRecursion`), whichever is taken first (`SumElement`).
* What a sum does with a union, a part, a common factor, two functions added or
  compared, and with groups (`SumUnion` to `SumByGroup`).
* How integer division rounds (`DivBounds`, `DivMonotone`, `DivMod`).

`TillDay_proofs`, `OpenOrders_proofs` and `Bill_proofs` use them.

## TillSync

`TillSync.tla` models any number of tills and one server, the hub or the cloud
(`Server`). Data is reduced to what the rules compare:

* a last-write-wins row (products stand for every entity of that strategy in
  `sync/apply.rs:28-63`) is its version: `updated_at` and the random tail of
  the event id that wrote it;
* an additive row (a stock movement, `ON CONFLICT DO NOTHING`) is its identity;
  `counted[t][d]` is how often it has been added to the stock figure cached on
  its product;
* an event of `sync_queue` is the item, the time and the tail; the four states
  of a queue row are `queued`, `backoff` (next_attempt_at in the future),
  `sent` (sent_at) and `parked` (deleted_at).

| actions | code |
|---|---|
| `SaveRow`, `MoveStock` | `commands/catalog.rs`, `repo/catalog.rs`: the row and its event in one transaction, at any reading of a wall clock |
| `SendPush`, `MarkBatch`, `EndPush` | `SyncEngine::push`: oldest due events first, one transaction marks the answered batch |
| `TakeRequest`, `AckAgain`, `RefuseEvent`, `ApplyEvent`, `FailEvent`, `AnswerPush` | `hub::push`, `_sync_apply`, `sync_push`: events one by one inside one transaction |
| `TakeLateRequest` | a request its sender has given up on and that still arrives |
| `HubPull` | `hub::pull`, one query under the lock |
| `CloudPage`, `CloudNext` | `sync_pull`, whose page and whose cursor are two statements with two snapshots |
| `ApplyPage` | `SyncEngine::pull`, `apply::apply`: page, derived stock and cursor in one transaction |
| `Fail` | time-out, lost answer, switch-off: the round is gone, the database stays |
| `BackoffOver` | next_attempt_at passes |

A user command and a round interleave at every point where the code gives up
the connection lock: between collecting a batch and marking it, and between
fetching a page and applying it.

`regressed` is a history variable: rows that some till saved with a version not
above the one it replaced, which a clock that is behind can do. The properties
that need versions to grow leave those rows out: such a till keeps its edit while
the server keeps the version it replaced, for good (dropping `regressed` from
`CaughtUp` makes TLC show it).

`EventLedger.tla` is what either server promises: a set of events taken, and
rows that are a function of that set. `LedgerSpec` is the refinement.

### Properties

* `SentIsReceived`: an event leaves the outbox as sent only if the server
  applied it.
* `StockCountedOnce`: the cached stock counts every movement held once, in
  whatever order product and movement arrive and however often.
* `UnsentEditKept`: a pull never puts an older row over an unsent edit.
* `CaughtUp`: what the cursor has passed, and nothing of the till's own waits
  for, is exactly what the server has.
* `CursorMovesForward`: the cursor neither goes back nor runs ahead.
* `LedgerSpec`: the server's rows depend only on the set of events.
* `EventuallyDelivered`, `EventuallyAgree`: every event is sent or parked in
  the end, and when the changes stop the tills agree.

### Runs

| run | instance | shows |
|---|---|---|
| `hub_sync` | 2 tills, 1 product, 2 clock readings, 1 fault, pages of 1; either 1 movement, or 2 tails for each reading | stock, cursor, edits kept, caught up, ledger, the inductive invariant |
| `cloud_push` | 2 tills, 1 product, 1 movement, 1 fault, against the cloud | acknowledgement, ledger, the invariant common to both servers |
| `hub_live` | requests and pages of 1, a movement the hub refuses, 1 fault | both liveness properties |
| `cloud_skips` | 2 tills, 1 product, no fault | a violation: see findings |

Two tills suffice for the conflicts the rules decide: every comparison is
between a till's own edit, the server's row and one pulled version. Pages of
one change make the paging visible with two items; one fault at any point
covers a lost request, a lost answer, a late request and a switch-off, and the
retry that follows. The liveness run has the hub as server, which takes what it
is sent or refuses it for good: a retryable rejection and its back-off are in
`cloud_push`, which checks safety only. The one movement of the liveness run is
refused, so that `EventuallyAgree` compares movements shows nothing there; that
they arrive is `CaughtUp`. The movements and clock readings are the bounds on how
many changes happen at all. The safety properties are proved for all values.

### Fairness

`FairSpec` assumes that a till's round goes on (`spawn_sync_worker`,
`lib.rs:317-358`, runs one every minute and after every recorded change), that a
request that is not lost is taken and answered, and that a back-off ends
(`engine.rs:135-142`, it is capped). Faults are bounded by `MaxFaults`; nothing
is assumed of users.

### Finding

* `cloud_skips`: `sync_pull` takes the page and the greatest `server_seq` from
  two statements. A push that commits between them gets a number that the cursor
  passes and that no page holds. `docs/ARCHITECTURE.md` says a cursor can never
  skip a row that commits late; the advisory lock is taken by pushes only.

### Proofs

`TillSyncInv.tla` states the inductive invariant, `TillSync_proofs.tla` proves
it. None of the safety properties is inductive alone:

* `SentIsReceived` needs the acknowledgements on their way, in the server's
  transaction and in the answer (`AcksAreReceived`).
* `StockCountedOnce` needs that nothing is counted before the product is there
  (`StockInv`) and that a movement held belongs to a product some till has
  (`RecordedIsHeld`).
* `UnsentEditKept` follows from `LocalRows`, which needs that what a page shows
  was received (`PageIsReceived`) and that requests carry recorded events only
  (`RequestsAreRecorded`).
* `CaughtUp` needs `PassedIsHeld`, which needs `PageIsComplete`: the page in
  hand holds every version the new cursor will pass. That part holds of the hub
  alone; for the cloud the run `cloud_skips` refutes it.

`CommonInv` is the part true of either server, `HubInv` the whole. Each action
has a lemma, each lemma one step per conjunct that the action disturbs. The
proofs assume only the named assumptions of the constants (`TillsAssumption`,
`ItemsAssumption`, `ClockAssumption`, `BoundsAssumption`, `ServerAssumption`);
sets of tills, rows and movements may be of any size. `ServerIsLedger` proves
the refinement of EventLedger.

Liveness is model-checked only; TLAPS has no support for fairness and ENABLED.

### Left out

Which server a till talks to and what happens when that changes, seeding a hub,
rows that cannot be applied (`engine.rs:461-468`), tenants and authorisation,
the deletion of rows (a deletion is a version like any other) and the contents
of rows.

## PrintQueue

`PrintQueue.tla` models one queue of a till, chosen in `Init`: its receipts
(`print_jobs`, `printing.rs:173-254`) or the tickets of its kitchen printer
(`kitchen.rs`). A job is its place in `ORDER BY created_at, id`, so the clock is
taken to move forward between two jobs of a queue; what comes out of the printer
is reduced to a count per job.

| actions | code |
|---|---|
| `Sell` | the job and the sale (or the course) in one transaction, then a drain |
| `PrintReceipt` | `print_receipt`: nothing if a job waits, a COPY if one was printed |
| `Retry` | the worker's pass, and saved printer settings |
| `Fetch`, `PrintNext`, `Mark` | one drain: a batch read under the lock, each job printed without it and marked under it |
| `PrintFails`, `NoPrinter`, `SwitchOff` | the drain stops; `PrintFails` covers a chain whose first printer printed before it reported an error |

| run | instance | shows |
|---|---|---|
| `counter`, about printing | 3 sales, 3 jobs, 2 drains, batches of 2, 1 fault | the invariant, first prints in order, one original job per sale, every job printed in the end |
| `print_twice` | 2 sales, 2 drains, no fault | a violation: see below |

Three jobs and batches of two make a full batch, a second batch and two drains
that hold different parts of the queue all happen; one fault at any point covers
a failed printer, none set up, and a switch-off.

Fairness: the worker runs every 30 s (`lib.rs:298-315`) and a drain under way
goes on; the number of faults is bounded, since a printer that never works prints
nothing.

Finding (`print_twice`): two drains read the same batch of receipts, and both
print it. The comment of `print_receipt` says that any copy after the first is
marked COPY. The property is about the receipts' queue only: a kitchen ticket has
no such mark.

`PrintQueue_proofs.tla` proves `QueueInv`, and from it `OneOriginal`, that a
marked job came out of the printer, and `FirstPrintsInOrder`, for any number of
drains, jobs and faults. The order is not inductive: it needs `BatchIsOldest`,
that every job older than one in a drain's batch is in the batch, came out, or
was dropped, which holds although drains overlap because each stops at its first
failure. `MarkedIsPrinted` needs `MarkedNextIsOut`, `OneOriginal` needs
`JobsAreSold`. `EventuallyPrinted` is model-checked only.

Left out: the cash drawer, labels and reports, which do not go through a queue,
and what the printer's paper looks like.

## TillDay

`TillDay.tla` models the money side of any number of tills. `txs` are the
transactions of all tills in the order they were made, `has[t]` which of them
are in t's database: its own at once, another till's when synchronisation brings
them (`Receive`, `ON CONFLICT DO NOTHING`). A transaction is what it moves
(`Goods`): quantities, line totals and tax of two lines, points, and tenders,
with `card` for every method that is not cash.

A sum over rows that is stored (a closed shift's totals, a Z report) is modelled
as the set of rows it was taken over: the sums are right when the sets are. The
sums over the reversals of one sale are modelled as figures, because what may
still go back is computed from them with rounding.

| actions | code |
|---|---|
| `Sell` | `sales::create_in`: a bill with its tenders, in the open shift |
| `Refund` | `refunds::refund`: quantities up to what is left, `slice` of the line totals and taxes, `loyalty::reversal` of the points, one tender |
| `Void` | `refunds::void`: all of a sale of the open shift that has no reversals, tender by tender |
| `AskPay`, `PayOrder`, `PayRefused` | `pay_open_order` reads the clock, then waits for the lock: the sale is dated when it was asked for |
| `AskShift`, `OpenShift`, `CloseShift` | `open_shift`, `close_shift` read the clock, then wait for the lock |
| `RunZ` | `reports::run_z`: from a millisecond after the last Z to now |
| `Receive` | `apply::apply` of a transaction and its lines and tenders |
| `Tick`, `SetClockBack` | `SystemClock` |

A request that is sent again finds its transaction by the idempotency key and
changes nothing; it is a stuttering step. `Starts` is `period_start`, `After`
its millisecond.

| run | instance | shows |
|---|---|---|
| `books`, about a day | 1 till, 3 transactions, 3 instants, 2 shifts, 2 Z reports, a clock that may be set back (then 2 transactions, or 3 sales), or payments that wait for the lock and up to 2 transactions | each transaction in one report, reports that match their shifts, voids, the invariant |
| `books`, about returns | 2 tills, 3 transactions of a bill of two lines, a shift each | refunds in parts at both tills, synchronised in every order |
| `z_gap` | 1 till, a clock that is set back | a violation: see below |

Reports are per till, so one till is enough for a day; two shifts and two
reports give a transaction before, between and after. Of returns, a sale and
two reversals are the least that split a line in two, and half of each price,
tax and point count has to be rounded. The proofs cover all values.

Taken as given: one shift command of a till at a time (the buttons are disabled
while one runs: `CloseShiftDialog.tsx`, `ShiftGate.tsx`), a Z report takes a
millisecond or more to write, and the tenders of a bill add up to it
(`tender::settle`), its tax is not above its price, and a bill whose price is
all tax earns no points. Quantities count the least that can go back: a unit,
or a gram.

What a till knows of a sale is complete when every reversal was made there:
`ReturnsAddUp` and `HeldForGoods` are about those. Likewise what a Z report
promises is about tills that are not `untimely`: whose clock was not set back, and
where no payment of an order waited for the lock until after a Z report that ends
when it was asked for or later. Such a sale falls into no report, as one does that
is made with a clock set back; it takes a payment whose thread does not get the
lock while the shift is closed and the report is run. A payment that only waits
while a shift is closed and another opened is in the report of the shift it is
booked in.

Two tills that have not synchronised can each refund a card sale to the card,
more than was paid that way, which the README of the repository (line 351)
excludes; the property leaves such sales out.

Finding (`z_gap`, whose specification has no payments that wait): after a Z report the clock is set back, and a sale is made at
a time the report already covers. It is in no report; the README says the X
report is a live read of the till since its last Z.

`TillDay_proofs.tla` proves that the inductive invariant `BooksInv` always holds
and derives the five properties from it. The argument:

* Shares: `Slice` telescopes, so what is back of a line is the share of all of
  its quantity that is back (`Shared`), whatever the rounding of the parts; a
  share is monotone in its part and the share of the whole is the whole
  (`ShareMonotone`, `ShareValues`). `SharedStep` carries it over a reversal,
  `SharedNothing` starts it.
* Reports: `CutInv` says that a Z report cuts a till's history in two, by the
  order of the rows, by their times and by the closing times of their shifts,
  and that the three cuts agree. `ClockInv` is why they do: nothing of a till is
  later than its clock, and a close that waits for the lock is later than the
  last report, because no report can run while its shift is open.
  `CoveredRows` is the step of `RunZ`, `PayOrderStep` that of a payment that waited.

Left out: stock that goes back (TillSync), the receipt's job (PrintQueue),
kitchen tickets and memberships that a reversal ends, prices and discounts
(Bill), receipt numbers, cash counts, and synchronisation that stops between a
transaction and its lines.

## OpenOrders

`OpenOrders.tla` models the tabs and tables of any number of tills. A save
writes a new version of the whole row; `hist` keeps every version, and what a
till, the server and a screen hold is the number of one. Versions are numbered
in the order they are saved, so the clocks of the tills agree here (TillSync is
about clocks that do not).

| actions | code |
|---|---|
| `Open`, `Update`, `SplitLine`, `Fire`, `Cancel` | `open_orders.rs`: `load_open`, `check_version`, the edit, the row, its event and the kitchen ticket in one transaction |
| `Pay` | `pay`: one sale of some of the lines, and the order without them; it carries no version |
| `VoidSale` | `kitchen::void_sale`: what the payment sent is called off |
| `Reload` | the screen takes the row of the database |
| `Send`, `Fetch` | synchronisation, the newer version wins |

An order that two tills edited from different versions is `forked`: the newer
row wins and the other's edit is lost, by design (D39 of
`docs/ARCHITECTURE.md`). A table seated by a till that had not heard of the
order there is `blind`. The properties are about the others.

`Edits` is what the editor can send (`useOrderEditor.ts`): the whole list of lines.
What is done while a save is under way goes into the next one together, so any of
the lines may have been changed or dropped in it, any number added, and a combo
added or dropped whole.

The run `orders` has 2 tills, of which one has a manager, and 4 saves: enough to
open, split, fire and pay in two bills, or to open, edit at one till, fetch at
the other and pay there with an older screen. A behaviour has two orders and one
table, with a line each at any time, or one tab, either of two lines or of a combo
and a line; lines, parts of the combo and orders are interchangeable, hence the
symmetry (no liveness is checked here). There is one course: that a course sends
only its own lines is in the proofs, which are for any courses.

`OpenOrders_proofs.tla` proves `OrdersInv`, and from it `BillsAddUp`,
`OneOrderPerTable`, `ClosedStaysClosed` and `KitchenBalance`, for any number of
tills, orders, tables, lines and units. `OrdersInv` has three parts:

* `RowsInv`: types, bills and tables. `BillsAddUp` needs that a line that was
  paid was on some version, so a line id that is drawn later is not one of
  them; without it a new line could be one that is already on a bill.
  `OneOrderPerTable` needs that a save on the newest version changes one order
  only (`NewestAfter`).
* `TicketsInv`: no ticket has the number of a save that is still to come.
  Tickets are a set, so without it a ticket that equals an older one would not
  count.
* `KitchenBalance`. A save adds one ticket, and what the ticket tells and calls
  off is the difference of the two versions, line by line: `EditBalances` for an
  edit or a cancellation, `SplitTotal` for a line that is split in two (neither
  part is sent again), `FireBalances` for a course, `PayBalances` for a bill that
  takes what was sent with it, `VoidSaleBalances` for a sale that is voided.

Left out: prices (Bill), names and notes, the plan of tables, the board that
marks tickets as ready. A payment that is repeated finds its sale by its key
and changes nothing: a stuttering step.

## Bill

`Bill.tla` chooses a bill (lines, rules asked for, the moment, tax included or
not, the customer's plan and points), quotes it and settles its tenders. The
quote is a function of the bill, in the order of the code: rules that run at the
moment and rules asked for, on lines and then on the order; the combo; the
member's discount; points last. Each discount is spread over its lines by
`allocate` (whole units, the largest remainders first), so that a line's tax is
of what was charged for it.

The run `counter`, about a bill: carts of up to three lines out of four, a
combo, weighed goods, an option; four rules (a third off drinks from 22:00 to
02:00 on one day, a fixed amount off one product, an eighth off orders over a
minimum, one that is switched off; two of them with a start or an end), three
moments around that midnight, from before the first of those dates to the last, two plans, tax included and not,
points that cover a part. The rates and prices are chosen so that every share has
a remainder. `QuoteAddsUp` relates what is printed on lines to the totals and
says that points the rules admit are never refused for rounding; `TendersAddUp`
that the tenders sum to the bill and only cash gives change;
`RulesInTheirWindow` compares `DiscountRule::is_live` with a reference definition:
the rule is switched on, its start has come and its end has not (`Running`), and
the moment, counted in the minutes of the week, is in one of its windows.

A payment has up to `MaxTenders` tenders, of cash and of card, in every order.

`Bill_proofs.tla` proves the three properties for every catalogue, list of rules,
combo, member, balance, moment and cart, and for any tenders. The state is a
function of the bill, so the inductive invariant `BillInv` only says which: the
bill is one the till accepts, the quote is its price, the payment settles the
quote. What is hard is the arithmetic behind it:

* `AllocateIs`: the parts of an amount add up to it and none is more than its
  weight. The whole parts miss the amount by the remainders' sum over the total,
  which is less than the number of lines with a remainder (`<1>15`, `<1>16`); the
  missing units go to the first so many lines by rank (`Ranks`), and those have a
  remainder, because a line without one ranks behind all that have (`RanksLast`).
  A line with a remainder has room for one unit more.
* Discounts: what is off each line stays between nothing and the line's price
  through every rule (`OnLinesKeeps`, `SpreadIs`, `DiscountedKeeps`) and only grows
  through a pass (`PassKeeps`), so a combo that has come down to its price
  stays there (`PassFirst`, `ComboIsMet`).
* Points: a discount that is last in the list is taken on what all others left
  (`PassLast`), and what the rules let a customer redeem is never worth more
  (`RedeemableFits`), so it is taken to the cent (`PointsAreTaken`) and the
  redemption is not refused (`QuoteIs`).
* Totals: `TotalsAddUp` for either way of tax, `TaxLinesAddUp` for the tax lines: a
  line at rate 0 has no tax (`TaxIs`) and is in none of them.
* Tenders: the last cash tenders together give as much of the change as they
  hold (`ChangeOfLast`), and what is tendered otherwise is at most what is due.
* Windows: `WindowOfDay` compares the two ways of counting, day by day.

The assumptions of `Bill.tla` are what the code validates: `price` refuses a rate
outside 0..10000, a quantity that is not positive and a price below nothing (the
last two are guards of `Quote`); `discounts.rs` and `loyalty.rs` check rules and
settings when they are saved.

Left out: overflow (an error in the code, `checked_*` throughout), and
conversion between currencies, which no command calls.

## License

`License.tla` models the gate of any number of tills and the server that counts
seats. Time is in days: the five minutes of clock skew the code allows are less
than one. A till's record is the high-water mark, the last time the server saw
it, and whether it was refused.

| actions | code |
|---|---|
| `Reevaluate`, `Unreadable` | `evaluate_locked`, `establish`: the mark is raised, then the policy of `grace.rs` |
| `Activate` | `activate`, and the check it starts |
| `Ask`, `Answer`, `Unreached` | `cloud_check`: the lock is not held while the server is asked |
| `Serve`, `ServeRival`, `Office` | `validate_device_activation`, serialised per client; the provider revokes and reinstates |
| `Restart`, `SetClock`, `Pass` | the till is switched off, its clock is set, a day passes |

The run `till_start`, about the licence: one till and one other till of the client,
two tokens of the till (the newer one with fewer seats) and one of the other;
three days, two days of grace, three acts of people and one fault. The token
that ends on day 2 expires, the grace ends, the clock is set back and ahead,
and the last seat is asked for twice.

* `NoTimeGained`: setting the clock back, restarting or installing the token
  again buys no time.
* `SeatsHold`: an older token with more seats does not raise the limit back.
* `RevokedHalts`, `GoodTillRuns`: a revoked till comes to a halt and stays
  there; a till with a seat and a current token ends up valid, whatever its
  clock did on the way.

Fairness (`LicFairness`): the worker asks every 6 hours, every 15 minutes while
it has no answer (`lib.rs`, `spawn_license_worker`), the server answers, and the
answer is taken; what is not answered is bounded by `MaxLost`. The bounds make
every behaviour come to rest, so weak fairness is what the loops give.

`TillStart_proofs.tla` proves `LicTypeOK`, `NoTimeGained` and `SeatsHold` for any
number of tills and tokens and any clocks. `NoTimeGained` rests on `SpentStays`:
the record of a token that was judged expired or out of grace says so at any
reading of the clock, because the mark has been raised before
(`JudgedExhausted`); only an answer of the server lowers it. `SeatsHold` rests on
`NewestShown`: the limit is that of the newest-issued token shown.

Left out: signatures and the encryption of the activation file (taken to work),
several clients (their rows do not meet).

## Restore

`Restore.tla` models the database file and its journal, the backups and a
restore that replaces the file at the next start, with the power going at every
step. A file is the database it belongs to and the commits in it; a journal that
belongs to another database is not read, which is what SQLite's salt does.
`Aside`, `Wipe`, `Swap` are the three steps of `apply_staged_restore`.

A restore is asked for at a till that sells (`AskOpen`: a backup is made first,
whose prune may take the chosen one away) or at one that is halted because its
storage cannot be read (`AskHalted`: no backup, `commands/backups.rs:130-143`).
The list of backups is ordered by `created_at`, a wall clock: once the clock was
set back (`TurnClockBack`) a new one can take any place in it, and be pruned at
once.

The run `till_start`, about the restore: 2 backups kept, 3 commits, 2 restores:
a backup can be pruned by the backup that precedes its own restore
(`BackupFirst`), and a second restore follows an interrupted one, or is asked for
at a till that was halted by the first. `OpensWhole` is about what is opened.
`AsideIsSaved` is about the comment "Whatever happens next, today's data is kept"
(`commands/backups.rs:141`), which stands in the branch of a till that sells: what
there was when a restore was last asked for there (`asked`) is in a backup or in
a file put aside when a restore takes the place of the database, whatever was
asked for since. Outside of that the code does lose data, whatever the header of
`backup.rs` says ("kept aside as `pos.db.before-restore-<time>`, never deleted",
lines 13-14):

* a restore asked for at a till that is halted by its storage makes no backup; what
  was committed since the last checkpoint is in the journal only, and
  `apply_staged_restore` deletes the journal: it is then in neither file. Without
  the condition on `asked` (setting it in `AskHalted`) TLC finds this;
* with a clock that was set back the backup just made may be the one that is
  pruned. Without `~turned` TLC finds this;
* commits made after the restore was asked for, at a till that is not closed
  cleanly before the swap, are in the deleted journal too.

`TillStart_proofs.tla` proves both for any number of commits, backups and restores.
The argument is `Whole` (a file that is there has its own journal or none, and
its content is the till's books; one that is not there has a staged copy to
replace it) and `AskedIsSaved` (from the moment a restore is asked for at a till
that sells until one takes place, and while the clock is not set back, the newest
backup has what there was then: a backup made later has it too). The file put aside
alone would not do: commits may still be in the journal that is removed after it.

Left out: passwords, the copy in an extra folder, the export file, backups of other
tills or on a stick, a database whose key is another's (`WrongKey`), a file put
aside that takes the name of an older one, the clock's mark in an older backup
(License keeps its mark for good, and nothing is claimed of a till restored to an
older one), and what the server does with a till that comes back with older data.

## CommandLayer and TillCommands

`CommandLayer.tla` models the threads of the till: each runs a call, a call is a
script of steps. A step takes and gives a mutex, passes one (takes and gives it
in a statement), goes out to a device or the network, asks the session for a
permission (`may` at the gate, `can` later), peeks at the session, writes an
audit row, or signs in or out. A call may fail at every step; its guards are
dropped. `TillCommands.tla` has the scripts: one for each of the 103 commands of
`generate_handler!` but the five that take no mutex (`app_info`, `restart_app`,
`find_license_files`, `get_activation_request`, `save_activation_file`) and one
for every worker, composed of pieces that follow the
services (`Drain`, `Publish`, a sync round, a licence check).

A script is the longest way through its call: what a condition leaves out only
takes fewer mutexes. A command that asks for more on one of its branches has a
script for each: `create_discounted` and `pay_discounted` (DiscountApply),
`update_sent` and `cancel_sent` (SaleVoid, for what was sent to the kitchen),
`save_existing` (CustomerManage, for a customer that is known). Mutexes that are let go in the statement that takes them and
take nothing in it are left out: they cannot be waited for in a ring. The order
is: the sync round, then devices and the network, then the licence, the hub's
server and its state, then the connection, then the status and the transport.

| run | instance | shows |
|---|---|---|
| `till` | 2 threads, 3 calls, every script with every other (one of each kind of equal scripts), two users | waits in one order, audit rows name who was allowed, every call returns |
| `save_hangs` | 2 threads, 3 calls, the two calls that save the network and backup settings | a violation: see below |

Two threads are enough for a wait between two calls; the third call begins after
one of them ended, with what it left. Rings of more threads are excluded by the
order (`NeverAllWait`). Fairness (`CmdFairness`): a thread that can go on does, and
a device answers or times out; with a bounded number of calls weak fairness is
enough, since no mutex is taken for ever.

`CommandLayer_proofs.tla` proves, for any number of threads and calls:
`LocksAlwaysInOrder` and `NeverAllWait` from the discipline `Ordered` of each
script, and `AuditAlwaysNamesCaller` from the discipline `Checked`. That the
scripts of this program keep both, except the two that hang, is what the run
`till` shows: it goes through every one of them, and one that takes a mutex out of
order breaks `LocksInOrder` without a second thread.

Finding (`save_hangs`): `save_lan_settings` and `save_backup_settings` hold the
connection and call a service that takes it again. The mutex is not re-entrant:
the call never returns, and every other one waits behind it.

## Only model-checked

Liveness (`EventuallyDelivered`, `EventuallyAgree`, `EventuallyPrinted`,
`RevokedHalts`, `GoodTillRuns`, `EveryCallReturns`): the prover has no support
for fairness and ENABLED. That the scripts of `TillCommands` are `Ordered` and
`Checked` is checked for the scripts this program has, not proved. Every
invariant and action property of a passing run is a theorem.

## Not modelled

* A till whose server changes (`sync/lan.rs`, `SyncEngine::set_transport`), pairing
  and discovery, and the seeding of a hub: the pull position is kept per
  address, and `sent_at` does not say to whom; neither the code nor its documents
  promise anything of a server that is replaced.
* A till that is restored to an older database and goes on synchronising:
  receipt numbers (`count(*)` of its own rows) are given out again.
* Memberships: the periods a sale grants, and what a refund of some of them
  cancels; the discount they give is in Bill.
* The counter of wrong PINs (`session.rs`), and how PINs are stored.
* The updater beyond its locks; the platform's installer does the work.
* The generator: a single user's tool at one PC. It meets the till in the tokens
  that License takes as given and in the builds it asks a hosted runner for.
* Migrations, which run once at start-up before anything else; printer and
  drawer drivers, layout, the fingerprint of the hardware, the user interfaces.
