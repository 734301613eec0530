------------------------------ MODULE Restore ------------------------------
(***************************************************************************)
(* The till's database file, its backups, and the restore that replaces it *)
(* at the next start.  A database is a file and its journal (WAL): commits *)
(* go to the journal and reach the file at a checkpoint or a clean close.  *)
(* The power can go, or the program end without closing, at every step.    *)
(* Nobody has the database open while it is opened again.  The owner can   *)
(* ask for a restore of a till that does not start, too: of one that was   *)
(* halted because its storage cannot be read.                              *)
(***************************************************************************)
EXTENDS Integers, FiniteSets, Sequences

CONSTANTS
  Keep,        \* BackupSettings.keep
  MaxCommits, MaxRestores   \* bounds

ASSUME RestoreAssumption ==
  {Keep, MaxCommits, MaxRestores} \subseteq Nat /\ Keep > 0

\* A file: the database it belongs to (its salt) and the commits in it.
None == [db |-> -1, has |-> {}]
Commits == 1..MaxCommits
Ids == 0..MaxRestores
Images == [db : Ids, has : SUBSET Commits]

VARIABLES
  main,     \* pos.db
  wal,      \* pos.db-wal
  staged,   \* the staged restore: one rename makes it appear, complete
  kept,     \* pos.db.before-restore-<time>
  saved,    \* the backups, newest first: what is in them
  chosen,   \* restore_backup under way: what it restores
  opened,   \* the till has the database open
  halted,   \* the gate has come to a halt with storage_error
  step,     \* how far apply_staged_restore has come
  turned,   \* history: the till's clock was set back
  books,    \* history: what the till has committed, or has been restored to
  asked,    \* history: the books when a restore was last asked of a till that
            \* sells, while none has taken place since
  commits, restores

files == <<main, wal, staged, kept, saved>>
counts == <<commits, restores>>
rstVars == <<files, chosen, opened, halted, step, turned, books, asked, counts>>

NoChoice == {0}

RstInit ==
  /\ main = [db |-> 0, has |-> {}]
  /\ wal = None /\ staged = None
  /\ kept = {} /\ saved = <<>>
  /\ chosen = NoChoice
  /\ opened = TRUE /\ halted = FALSE /\ step = "none" /\ turned = FALSE
  /\ books = {} /\ asked = {}
  /\ commits = 0 /\ restores = 0

\* What a reader of the database sees: the file, and its own journal.
Content == main.has \cup IF wal.db = main.db THEN wal.has ELSE {}

Commit ==
  /\ opened /\ commits < MaxCommits
  /\ commits' = commits + 1
  /\ wal' = [db |-> main.db, has |-> (IF wal.db = main.db THEN wal.has ELSE {}) \cup {commits'}]
  /\ books' = books \cup {commits'}
  /\ UNCHANGED <<main, staged, kept, saved, chosen, opened, halted, step, turned, asked, restores>>

Checkpoint ==
  /\ opened /\ wal # None
  /\ main' = [main EXCEPT !.has = Content]
  /\ UNCHANGED <<wal, staged, kept, saved, chosen, opened, halted, step, turned, books, asked, counts>>

TurnClockBack ==
  /\ ~turned
  /\ turned' = TRUE
  /\ UNCHANGED <<files, chosen, opened, halted, step, books, asked, counts>>

\* created_at is the till's wall clock: a new backup is the newest of the list,
\* unless the clock was set back.
Places == IF turned THEN 1..(Len(saved) + 1) ELSE {1}

\* create_inner and prune: a complete copy takes its place p in the list, and
\* the first Keep stay.
WithBackup(p) ==
  [i \in 1..(IF Len(saved) < Keep THEN Len(saved) + 1 ELSE Keep) |->
     CASE i < p -> saved[i] [] i = p -> Content [] i > p -> saved[i - 1]]

Backup ==
  /\ opened
  /\ \E p \in Places : saved' = WithBackup(p)
  /\ UNCHANGED <<main, wal, staged, kept, chosen, opened, halted, step, turned, books, asked, counts>>

NoBackupFirst(p) == UNCHANGED saved     \* mutant: the state is not saved before a restore
BackupFirst(p) == saved' = WithBackup(p)

\* restore_backup at a till that sells: first a backup of what there is, whose
\* prune may take the chosen one away: then the restore is refused.
AskOpen(i) ==
  /\ opened /\ ~halted
  /\ \E p \in Places :
       /\ BackupFirst(p)
       /\ chosen' = IF i < Keep \/ (i = Keep /\ p > i) THEN saved[i] ELSE NoChoice
  /\ asked' = IF chosen' = NoChoice THEN asked ELSE books

\* At a till whose storage cannot be read nothing is saved before.
AskHalted(i) == halted /\ chosen' = saved[i] /\ UNCHANGED <<saved, asked>>

AskRestore ==
  /\ chosen = NoChoice /\ restores < MaxRestores
  /\ restores' = restores + 1
  /\ \E i \in DOMAIN saved : AskOpen(i) \/ AskHalted(i)
  /\ UNCHANGED <<main, wal, staged, kept, opened, halted, step, turned, books, commits>>

\* stage_restore: the copy is made under another name, then renamed.
Stage ==
  /\ chosen # NoChoice
  /\ staged' = [db |-> restores, has |-> chosen]
  /\ chosen' = NoChoice
  /\ UNCHANGED <<main, wal, kept, saved, opened, halted, step, turned, books, asked, counts>>

\* The last connection is closed: the journal goes into the file.
Close ==
  /\ opened
  /\ opened' = FALSE /\ halted' = FALSE /\ chosen' = NoChoice
  /\ main' = [main EXCEPT !.has = Content]
  /\ wal' = None
  /\ UNCHANGED <<staged, kept, saved, step, turned, books, asked, counts>>

\* The power goes, or the program ends without closing (restart_app), at any step.
PowerCut ==
  /\ opened \/ halted \/ step # "none"
  /\ opened' = FALSE /\ halted' = FALSE /\ chosen' = NoChoice /\ step' = "none"
  /\ UNCHANGED <<files, turned, books, asked, counts>>

\* The licence file or the database cannot be read, or a step of
\* apply_staged_restore fails: the till is halted, and tries again later.
HaltStorage ==
  /\ ~halted \/ step # "none"
  /\ halted' = TRUE /\ step' = "none"
  /\ UNCHANGED <<files, chosen, opened, turned, books, asked, counts>>

ReadsAgain ==
  /\ opened /\ halted
  /\ halted' = FALSE
  /\ UNCHANGED <<files, chosen, opened, step, turned, books, asked, counts>>

-----------------------------------------------------------------------------
(* apply_staged_restore, before the database is opened.                     *)

Aside ==
  /\ ~opened /\ step = "none" /\ staged # None
  /\ kept' = IF main = None THEN kept ELSE kept \cup {main.has}
  /\ main' = None
  /\ step' = "aside"
  /\ UNCHANGED <<wal, staged, saved, chosen, opened, halted, turned, books, asked, counts>>

JournalStays == UNCHANGED wal           \* mutant: the old journal is left where it is
NoJournal == wal' = None

Wipe ==
  /\ step = "aside"
  /\ NoJournal
  /\ step' = "wiped"
  /\ UNCHANGED <<main, staged, kept, saved, chosen, opened, halted, turned, books, asked, counts>>

Swap ==
  /\ step = "wiped"
  /\ main' = staged /\ staged' = None
  /\ books' = staged.has /\ asked' = {}
  /\ step' = "swapped"
  /\ UNCHANGED <<wal, kept, saved, chosen, opened, halted, turned, counts>>

\* The database just swapped in is opened, whatever was staged meanwhile; and
\* one for which nothing was staged.
Open ==
  /\ ~opened /\ (step = "swapped" \/ (step = "none" /\ staged = None))
  /\ opened' = TRUE /\ halted' = FALSE /\ step' = "none"
  /\ UNCHANGED <<files, chosen, turned, books, asked, counts>>

RstNext ==
  \/ Commit \/ Checkpoint \/ TurnClockBack \/ Backup \/ AskRestore \/ Stage
  \/ Close \/ PowerCut \/ HaltStorage \/ ReadsAgain
  \/ Aside \/ Wipe \/ Swap \/ Open

RstSpec == RstInit /\ [][RstNext]_rstVars

-----------------------------------------------------------------------------
(* Properties.                                                              *)

\* Whatever step the power went at, an open database is a whole one: it has its
\* own journal and no other, and in it is everything the till has committed, or
\* exactly the backup it was restored to and what was committed since.
OpensWhole ==
  opened => /\ main \in Images
            /\ wal = None \/ wal.db = main.db
            /\ Content = books

\* When a restore takes the place of a database, what the till had when the
\* owner last asked a till that sells for one is in a backup, or in the file that
\* was put aside ("Whatever happens next, today's data is kept",
\* commands/backups.rs:141), whatever was asked of a halted till since and
\* however many backups were pruned; unless the clock was set back.
AsideIsSaved ==
  [][Swap /\ ~turned =>
       \E old \in kept \cup {saved[i] : i \in DOMAIN saved} : asked \subseteq old]_rstVars
=============================================================================
