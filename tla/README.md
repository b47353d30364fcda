# Verification of the menata runtime

menata is a metadata-driven application runtime: a workspace installs
Applications written as YAML (Machines with Fields, Pages, Permissions,
Workflows), and one Go server, `cmd/server`, serves them over PostgreSQL. This
directory holds TLA+ models of the parts of that server in which several
requests, a failed statement or a crash can meet, the TLC configurations that
check them and the TLAPS proofs of what matters most.

The models are about concurrency over one database and one manifest directory.
What the runtime does inside one goroutine with no shared state (parsing,
expressions, layout, templates) is left to the repository's own tests.

## 1. The system

| component | state it keeps | operations | what is hard about it |
|---|---|---|---|
| Record data layer (`internal/data/store.go`, `tx.go`) | a row per record of a Machine, advisory locks | read, read `FOR UPDATE`, insert, update, delete, `InTx`, `Lock`, `PlaceRecord` | READ COMMITTED: two statements of a transaction may see two states; a statement waits for a row |
| Guarded writes (`internal/web/writelock.go`, `record.go`, `internal/behavior`) | none of its own | create, update, single-field update, delete, each judged by bounds, balance, freezing, uniqueness | the guards read what another request is about to change; the locks to take are worked out before the transaction |
| Numbered Fields (`internal/execution/numbering.go`) | `number_counters` | give a created record the next number of its prefix | concurrent creates, refused creates, records that were numbered by hand, routes that edit a number |
| Computed Fields (`internal/execution/compute.go`) | values stored in the records they belong to | derive on write, recompute parents, recompute children, recompute everything after a reload | stored copies of other rows: every write of either side must reach the other; row locks taken in several orders |
| Events and scheduled rules (`internal/execution/events.go`, `runlog.go`) | `mch_activity`, notifications, `event_runs` | run what a write or the clock triggers, roll a status up to a parent | best effort after the commit; the mark that a rule ran is one of its effects; people edit the records a tick has listed |
| Approval (`internal/web/approval.go`, `internal/execution/composite.go`) | lines and their document, the signed file | decide a line, revise a document, complete, sign | a roll-up reads siblings and writes a parent unlocked; several effects of one request |
| Application Builder (`internal/web/builder.go`, `builderdraft.go`, `internal/builder`) | `app_drafts`, one undo per Application | stage, publish, discard, undo, apply a reviewed plan | optimistic versions, three locks, files replaced one at a time, a process that can die in between |
| Installer and snapshots (`internal/installer`, `internal/web/runtimeactions.go`) | the manifest and the files it names, snapshot directories, what a restore moved aside | install, remove, switch an Application on or off, restore | one file at a time with no lock and no journal: a failure, a stop or another writer in between; writes the same files as the builder without its lock |
| Reload (`cmd/server/main.go`) | the metadata being served | read, validate, build a router, swap it | a reload can overtake another, or read a write that is under way |
| Assistant (`internal/aiassist`) | `ai_sessions` | plan an Application or an update of one, review, publish | a plan is made against a state that may have moved on |
| Extraction and uploads (`internal/web/extract.go`, `uploadledger.go`, `internal/data/extractions.go`) | `document_extractions`, files in the store | send a document to be read and save the proposal; send a file with a record's form; an hourly sweep | the store and the database share no transaction: a stop, a failed statement or a client that goes away between the two writes |
| Accounts, sessions, invitations, groups (`internal/web/auth.go`, `invite.go`, ...) | rows of their own | sign in, register, invite, accept, reset | unique keys, tokens used once |
| Authorization, expressions, metadata, composition, rendering, PDF, storage, mail | none (or files and external processes) | pure decisions and I/O | nothing concurrent |

How they meet. A record write enters at a handler of `record.go`; `withWriteLock`
reads the record, works out the advisory keys, opens one transaction, takes the
keys in sorted order and runs the rest inside: guards, computed Fields, numbers,
the row, the recompute of parents and children. Events run afterwards. All of it
shares rows and advisory locks in PostgreSQL, which is what module `Database`
models and every record component instantiates. The builder shares with the
installer the files of the manifest directory, with the reload the directory and
the served metadata, and with nothing of the record components but the reload,
which recomputes stored values (`Figures`' reload actions). The ticker of
`cmd/server/main.go` runs the scheduled rules and, hourly, the sweep of
extractions, each in a goroutine of its own beside the requests.

What makes each correct:

- bounds: no interleaving of guarded writes commits a total outside its bound;
- posting: what was posted balances, and stays what it was when it was posted;
- numbers: unique, issued once, without holes;
- computed Fields: a stored figure is what its formula says of what is stored;
- generated records and deletions: a schedule is written once, with the move that
  asks for it; no record is left pointing at one that is gone;
- approval: a document is approved by all of its steps and rejected by one of
  them, steps are decided in turn and once;
- builder: nothing staged is lost, nothing is written over a state it was not
  made for, what is on disk loads, what is served is what is on disk;
- files: a proposal is saved once, the file of a record stays, no other file
  stays for good, and the cap on readings is passed by no more than the requests
  that look at once;
- scheduled rules: nobody is told twice, a record that stays overdue is marked
  and flagged, whatever fails or stops in between;
- installation: wherever the process stops the Workspace loads, a refused write
  leaves no trace, and what is served is what is on disk;
- all of them: nobody waits in a circle, and every request is answered.

`PROJECT.json` lists every component, and every hazard at its line of code.

## 2. Modules

| module | what it is |
|---|---|
| `Database` | external storage as `internal/data` uses it: committed rows, each transaction's own writes, row locks, advisory locks. No behaviour of its own: `Limits`, `Posting`, `Numbering`, `Figures` INSTANCE it over their variables |
| `Bounds` | what an `ensure:` bound says of a set of records (pure) |
| `Limits` | the guarded write of a bounded Machine |
| `Ledger` | the abstract specification of it: records change one judged write at a time |
| `LimitsProofs` | TLAPS: `Limits` is correct for all constants |
| `Posting`, `PostingProofs` | posting an entry that must balance; the writes of its lines; their proofs |
| `Numbering`, `NumberingProofs` | numbered creates, edits and deletes; their proofs |
| `Figures`, `FiguresProofs` | aggregated and inherited computed Fields; an edge that generates children; the deletion of a parent; their proofs |
| `Approval` | sending out a document, deciding its steps, the roll-up and the stamping of each decision, revising |
| `Publishing`, `PublishingProofs` | drafts, commits, file writes with rollback, reloads, crashes; their proofs |
| `Installation`, `InstallationProofs` | installing, removing, switching and restoring, with put-backs, reloads and crashes; their proofs |
| `Attachments`, `AttachmentsProofs` | files read or uploaded, the rows and records that refer to them, the sweep; their proofs |
| `Reminders` | the texts a scheduled rule may log, how often each is on a record and was told of, and what is promised of that |
| `Schedules` | the ticker's rules beside people's edits, which extends it |
| `EventsProofs` | the proofs of `Approval` and of `Schedules`, both of which are the Events engine's: it extends the first and takes the second as an instance, `S` |
| `MC*` | constants, symmetry and constraints of the runs |

### How state and actions correspond to the code

*Common to the record modules.* `req[t]` is the goroutine of a request: `pc` is
the point it has reached and the other fields are the local variables it still
needs. One action is one SQL statement, or one uninterrupted stretch of Go with
the statement it ends in, because between two statements everybody else may
commit. `Begin*` is the handler up to the transaction, with what it read then;
`Fail` is a statement that errors or a cancelled request, anywhere; `Refuse` is
an early return. `own` and `rowLocks` are freed by `Commit` and `Rollback` alone
(`Store.InTx`). A SELECT sees `Snapshot(t)`. `WriteRow` has the guard `RowFree`:
PostgreSQL makes the statement wait. An UPDATE that matches no row is the
`ErrNotFound` path of `UpdateRecord`. `born` and `known` are the ids a client
can name, since a create's UUID is new.

*`Limits`.* `Begin` is `withWriteLock` with `writeLockKeys` over the record *as
read outside the transaction*; `TakeLock` the sorted loop of `Store.Lock`;
`Judge` is `withinBounds` (`CheckBounds` over the group, the record being written
standing in for itself); `JudgeDelete` is `deleteLocked`, which totals nothing.

*`Posting`.* Keys are entries: a post locks its own, a line's write the entries
it leaves and joins, as read before the transaction. `JudgePost` is
`allowsTransition` with `isBalanced`; `JudgeLine` re-reads the line and applies
`frozenReason` to where it is now and where it goes. The sum an entry must
balance to zero is debit less credit, one number per line.

*`Numbering`.* Counters are rows beside the records. `TakeLock`,
`HighestNumber`, `NextNumber`, `Insert`, `Finish` are the statements of
`AssignNumbers` and of the create around it. `KeepsNumber` is `keepsLockedFields`
for the numbered Field: it is reached only when `LocksAField`. `Imports` are the
records a Machine had before the Field was numbered.

*`Figures`.* Two levels: a parent adds an amount up over its children
(`sum_children`), a child copies a Field of its parent (`parent:`). A child's
write derives its copy, writes its row, then locks each parent it had or has in
id order, re-reads, writes if it changed (`recomputeParents`,
`recomputeRecord`). A parent's edit derives its figure from an unlocked read,
writes the whole row, then follows its note down (`recomputeChildren`).
`ReadPage`, `Compare` are `RecomputeAll`. A deeper chain repeats the same two
steps per level and is not modelled. `taken` is the parent's status, moved or not
along the edge that generates: `ComputeParent` is `allowsTransition` and
`planGenerated` (a status is not taken back, a record with children generates
none), `LockNumbers` and `InsertGenerated` are `insertGenerated`, row by row.
Every write of such a parent holds its own lock (`Begin`, `TakeLock`), a create
that of the numbered Field; `numbered` says whether the children have one.
`CheckRemove` is `deleteAllowed`. `origin` is a history variable.

*`Approval`.* One document and its steps; two documents share nothing. No
handler here opens a transaction, so each statement is an action and the module
does not use `Database`. `BeginDecide`, `ReadMode`, `TakeTurn`, `WriteDecision`
are `decideStep` up to its write; `ListSiblings`, `ReadParent`, `WriteStatus`
are `rollUpParentStatus`, `ListStamps`, `ReadSource`, `WriteSigned` are
`compositeSignedDocument`. Those two are the services the steps' Machine declares
(`metadata/approval_step.yaml`, from which the values of `RollupValue` are
taken), and each runs whether or not the one before it failed (`SkipRollup`).
An update writes the row as the request read it: `[req[t].doc EXCEPT ...]`.
`Abandon` is an error, a client that goes away (every later statement fails with
its context) or a process that dies. `signed` is the set of the steps whose
stamps the signed file bears; a revision keeps the file, so it may name steps
that are gone. Who may decide, the sources of a signature and the placement of
its box are data the properties do not look at, and a submission's blank
approver rows only leave gaps in an order that is compared, never counted.

*`Publishing`.* An Application is a few files, a change says what one file is to
hold, the version of the installation is its contents (`builder.Version` hashes
every file, so equal versions are taken to mean equal contents). The three locks
are variables: `drafting` (`lockDraft`), `committing` (`builder.Commit`'s
mutex), `reloading`. `WriteFile` is one rename of `aiassist.Write`; `TakeBack`
is `WriteSet.Rollback` after a failed write or a failed load; `Verify` is the
load that accepts it; `Crash` ends every request and starts the process again
over what is on disk. `told`, `written`, `behind`, `torn` are history variables:
they record what a client was answered and what happened, and no guard reads
them.

*`Installation`.* The disk is the manifest's lines and a content per file; an
Application is two files, one for its Machines and, last, the one that declares
it with its switch. An action is one file operation: `CopyFile`, `ReadManifest`,
`Note`, `WriteManifest`, `RemoveFile`, `Switch` for `installer.Install`,
`RemoveApplication` and `SetApplicationInactive`; `LeaveManifest`, `LeaveFiles`,
`FillManifest`, `FillFiles` for `RestoreSnapshot` (a rename of the directory is
one operation, and the copy back is two, since the manifest is the first entry);
`Verify` is the load that follows, `PutBack*` and `UndoAside` the way back,
`PutBackFails` a way back that fails and is logged. `ReadLines` and `Swap` are a
reload: the manifest is read first and the files after, and what it read while
something was being written is `behind`, which includes what it read of an
Application while that was copied under a line an earlier put-back had left. `LoadsFrom` is what
`metadata.LoadApplication` needs of the files, with `Clashes` for sets of
Applications that are well-formed and do not load together. `torn`, `left` and
`behind` record what a stop or a failed put-back did; only `BeginReload` looks
at `behind`, to spare the model reloads that change nothing.

*`Attachments`.* A key is a file, and the id of the reading made of it. A
request's phase says which of the two writes, store or database, comes next.
`Remove` may fail, which is only logged; a statement may take effect and be
reported as failed (`StartFails`, `FailExtraction`, `FinishExtraction`,
`WriteRecord`), which is what a client that goes away does to a commit under its
context. The record of a save and its mark are one transaction: `MarkExtractionSaved`
locks the row and `CommitSave` shows both. The sweep's `DELETE` takes its rows
one by one (`LockDue`), waiting for those a save holds, and returns their keys at
once (`Expire`). `UnderWay` is the two minutes a reading is given against the
hour after which it is stale.

*`Schedules`.* `ticker` is the scheduler's goroutine with what it has read:
`List` and `ListActivities` are the two listings of a tick, `NextRecord` and one
action per service its effects. The mark is an activity with the text the rule
logs; the text is what `MarkerFields` of the *listed* row say. People edit
meanwhile: `BeginEdit` reads a row, `WriteEdit` writes it whole. `told`,
`missed`, `cut`, `spent` are history variables.

## 3. Runs

| run | shows | bounds |
|---|---|---|
| `limits_fund` | creates, updates and deletes by two requests: totals stay within bounds, judgements stand, `Limits` implements `Ledger`, every request is answered (so that none wait in a circle) | 2 requests, 2 records, 2 groups and the blank one, amount 2, ceiling 2 |
| `numbering` | numbers unique, issued once, no holes, over imported numbers | 2 requests, 4 records, 2 prefixes, numbers to 4 |
| `figures` | figures and copies agree with what is committed, a schedule is generated once and whole, no child loses its parent, nobody waits in a circle | 2 requests, 2 parents (`OneChanges`: one is edited and generates), 2 children, a schedule of 1, every operation; where children are numbered, creates, generations, moves and deletes (`NumbersMatter`) |
| `posting` | what is posted balances and stands | 2 requests, 2 entries, 3 lines of +1 or -1 |
| `posting_move` | **violation**: an entry posted in balance loses a line | the same, moves overlapping |
| `approval` | approvals, rejections, turns and stamps are as the steps say, whatever row is written over whatever | 2 requests, 3 steps over two cycles, up to 2 approvers, both modes, 1 request or service cut short |
| `approval_rollup` | **violation**: a document in review with every step approved | the same, nothing cut short |
| `publishing` | nothing staged is lost or replayed, nothing is written over the wrong state, disk and served metadata are sound | 2 requests, 1 admin, 1 Application of 2 files with 2 texts, 1 crash |
| `publishing_race` | **violation**: a draft written over another commit | the same |
| `installation` | the disk loads wherever the process stops, refusals leave no trace, nothing stays in the way, served and disk agree | 2 requests, 2 Applications that do not load together, 2 files each, 2 writes and any number of reloads, 1 failure, 1 crash |
| `attachments` | proposals saved once, files of records kept, every other file accounted for and in the end removed, the cap | 2 requests, 2 files, cap 1, 1 crash, any number of failed removals and statements |
| `schedules` | one mark and one telling per text, overdue records marked and flagged in the end | 1 record, 2 titles and 2 due dates, 1 person, 2 edits, 1 failure, 1 crash, the rules of `metadata/contract_term.yaml` |

*Why the bounds are enough.* Each hazard is a pair of requests that overlap;
with two requests a third state of the world is still reachable between any two
of their steps because a request may be followed by another under the same
name. Two groups, parents or entries are what a move and a lock order need;
three lines are the least with which an entry balances and another line can
still join or leave it; a child's number is taken by a create or a generation
alone, so other requests need not meet a numbered Machine; numbers up to four
let a counter start above an import, overtake another and skip a deleted one;
three steps are the two of one cycle
and one of the next; two files are what a half-finished write needs, and
`Unloadable` holds one pair that does not load together. Two Applications that
clash are what an installation that must be taken back needs; two writes are a
write and the removal, switch or restore that follows it, and fewer than
`SnapshotKeep` (20), so that no snapshot is pruned. One record suffices for
`schedules`, since a tick deals with each record alone and a record's text is
its own; two due dates with two titles let an edit change the text before, while
and after its rules run. Two files let a sweep take one and leave the other. The
theorems below do without bounds for every module.

*Constraints.* Five passing runs leave out an overlap that the code does not
protect, so that they can show everything else holds; section 5 says what
happens without each.

- `figures` (`Apart`): a parent is not edited while a child is written, nor by two
  requests at once where its Machine generates nothing (so that no lock is held),
  a child not moved while the same child is written, a parent not deleted while a
  child is brought under it, and a schedule of numbered records not generated
  while one is created under the same parent.
- `posting` (`Apart`): a line is not moved while the same line is written
  (`posting_move`).
- `approval` (`Undisturbed`): two requests do not have one step in hand at a
  time (`OneHand`), no decision is under way while the document is sent out,
  taken back or given another step (`Settled`), and no step is added by hand to an
  approved document, which would then hold one that did not approve it
  (`NotAddedToApproved`). Decisions of different
  steps overlap freely, with each other, with placements and withdrawals, and
  with their own services. `approval_rollup` keeps these constraints and leaves
  out withdrawals and additions (`Unhurried`), so that what it finds is due to
  decisions alone.
- `publishing` (`Unraced`): no commit lands between a publish's check of its base
  and its reading of the version (`publishing_race`).

- `installation` (`OneWriter`): one request writes at a time, beside any number of
  reloads.

`numbering` has `LocksAField = TRUE` and `figures` has `HasEvents = TRUE`;
section 5 says what the other values do. `attachments`, `schedules` and
`limits_fund` are checked without any constraint.

*Deadlock.* The systems stop where their bounds run out (no fresh id, no number
left, no crash left), so TLC's own deadlock check is off. What it would look for
is stated instead: `NoWaitCycle` (`figures`, and for any finite number of requests
the theorem `Queue`) says no set of requests all wait for one another, and `EveryRequestEnds` (`limits_fund`) that each is answered, which
it would not be in such a circle.

*Fairness* (`FairSpec`) is assumed where a liveness property is checked:

- `limits_fund`: Go runs every goroutine, hence weak fairness of the steps that
  wait for nothing; PostgreSQL queues waiters for a lock or a row, so one that
  keeps coming free is got: strong fairness of `TakeLock` and `Write`.
- `attachments`: requests that began are served and time passes (weak fairness);
  the sweep's goroutine runs, and its `DELETE` waits in the row's own queue
  (strong fairness of `LockDue`). `Resolved` needs nothing of what may fail:
  a failed removal is one of its outcomes.
- `schedules`: the ticker's goroutine runs and writes that were begun end.
  Nothing makes a day pass or a person edit, and `Marked` and `Flagged` are about
  records that stay overdue.

Nothing is assumed of clients, of `Fail`, or of crashes.

*Types.* `TypeOK` is proved for `Limits`, `Numbering`, `Attachments` and
`Schedules`, for `Posting` and `Figures` under their `[]Apart`, `Publishing` under
`[]Unraced`, `Approval` under `[]Undisturbed` and `Installation` under
`[]OneWriter` (section 4). The runs of
`Figures`, `Approval` and `Installation` check it too.

*Mutants.* Every property of a passing run has a changed definition, marked
`mutant` beside the original, with which that run violates it: a dropped lock
key, an unsorted lock order, an unlocked read, a counter that ignores its own
last value, a rollback that leaves files behind, and the like.

## 4. Proofs

`LimitsProofs`, for any numbers of requests, records, groups and amounts:

- `Typed` (`[]TypeOK`), `BoundKept` (`[]TotalsWithinBounds`), `JudgementKept`
  (`[]JudgementStands`), `Refinement` (`Spec => Promised!Spec`, the ledger).
- From `ShrinkAssumption`: a group whose bound holds still satisfies it with
  members taken away, as with a ceiling over amounts that are never negative, or
  a Machine that only creates. A delete, and a move out of a group, are not
  judged, so without that the property is false (a floor can be broken by
  deleting); TLC evaluates the assumption in the run of `MCLimits`.
- `IInv` adds to the properties what makes them inductive: a request's keys
  cover the group it writes to (`Keyed`), a judged request holds all of them
  (`Locked`), it has written its own row and nothing else (`Owning`, `Apart`),
  and ids are fresh (`Fresh`). Between a request's judgement and its commit no
  other request can commit *into* the group, since it would need the same lock;
  it can only take records out, which is what the assumption is for.

`PostingProofs`, for any requests, entries, lines and amounts:

- `BalanceKept` (`Spec /\ []Apart => []PostedBalanced`), `LinesFrozen`
  (`Spec /\ []Apart => FrozenLinesStand`).
- From `[]Apart`: no line is moved while the same line is written. It is a
  premise of the theorems and not an assumption about the code, which does not
  see to it: `posting_move` shows what follows where it fails, and the run
  `posting` checks the same properties under the same formula as a constraint.
- `IInv`: a request that writes a line has among its keys the entry the line is
  under and the one it goes to (`Covered`), which is where `Apart` is needed,
  since the keys are worked out of a reading outside the transaction; from its
  judgement to its commit it holds them all (`Locked`) and has written one row
  (`Owning`). So what was judged still stands when it commits (`Judged`): no line
  joins, leaves or changes under an entry that somebody else has locked. That the
  sum of an entry's lines is the same before and after such a commit
  (`BalanceSame`) follows from the lines being the same, without unfolding the
  sum.

`NumberingProofs`, for any requests, records, prefixes and `MaxNumber`:

- `Typed`, `Unique` (`[]NumbersUnique`), `NeverReissued` (`[]IssuedOnce`),
  `Unbroken` (`[]NoHoles`).
- From `KeepsAssumption`: the Machine's single-field edits are judged.
- `IInv`: whoever has read a highest number holds the lock (`Locked`); what a
  transaction has written is determined by where it is (`Owning`); a counter is
  at least every number issued under its prefix and, once a number was issued,
  at least every number stored under it (`Counter`); what was read is still the
  highest, deletes apart (`Reading`), and what was taken is above everything
  stored and issued (`Taking`).

`PublishingProofs`, for any requests, admins, Applications, files, texts and
crashes:

- `DraftsKept`, `PlansKept`, `BaseKept`, `NeverReplayed`, `DiskKept`, `Served`: the
  run's six safety properties.
- From `[]Unraced`: no commit lands between a publish's check of its draft's base
  and its reading of the version. Again a premise and not an assumption about
  the code (`publishing_race` shows what follows without it). In the proof
  only `DraftStands` and `NoReplay` use it.
- `IInv`: a draft is changed by the holder of its lock alone, so what a request
  loaded is still stored (`LoadedBy`); the version a publish planned against has
  the base of its draft (`SeenBy`, where the premise is used); while one request
  writes, the Application is a mixture of what it found and what it was asked
  for, split at the files left to do (`WritingBy`), so that a rollback restores
  what loaded and a finished write leaves something other than it found. Hence a
  draft that was written and is still stored has a base that is not installed
  (`Unwritten`), and cannot pass the check of its base again. `Live` follows one
  reload at a time from its reading to its swap. That the writer's next file is
  one of those left (`Least`) is the well-foundedness of the numbers.

`AttachmentsProofs`, for any requests, files, cap and number of crashes, and from
no assumption but the module's own:

- `Typed`, `OneRecord` (`[]SavedOnce`), `FileKept` (`[]DocumentKept`),
  `NoneForgotten` (`[]Accounted`); and, for finitely many requests and at least
  one, `CapKept` (`[]CapAlmostHolds`).
- `IInv`: a file is one request's from the time it is stored until its client is
  told of it or the request ends (`OneOwner`, `ToldApart`); what its row, age
  and records then are is what that request's phase says (`PhaseOK`). Once it is
  told of, only the holder of its row's lock can save or expire it, and only
  while it is proposed, when its file is there and no record has it (`KeyOK`,
  `OneSweep`). `Owned` is `Accounted` without the requests that merely read a
  proposal, since those vouch for nothing. For the cap, `CInv` bounds the readings
  of the hour *and* the requests that were let past it together: a request is let
  past only while the readings are below the cap, and its own reading then takes
  its place in the sum; nothing else adds to either set.

`FiguresProofs`, for any requests, parents, children, amounts, operations and
length of a schedule:

- `Typed`, `CopiesFollow` (`[]SeenAgrees`), `OrphansNever` (`[]NoOrphans`),
  `GeneratedOnce` (`[]ScheduledOnce`), `FiguresKept` (`[]FigureAgrees`), `Queue`
  (`[]NoWaitCycle`).
- From `[]Apart`, a premise about requests the code does not keep apart (section
  5). `FiguresKept` needs also that old values are read, as they are where a
  Machine has Events, or that no child is moved; `Queue` that they are read, that
  the requests are finitely many, and `[]NumbersApart`, which two requests under
  `Apart` satisfy anyway and three need not (section 5).
- `IInv` says how far each request is (`Shape`), what it has written by then
  (`Owns`), that of the children an edit reads each has a copy that follows or is
  still on its list (`Follows`), that of its schedule as many rows are written as
  it no longer owes (`Generated`), and who holds the parent's lock (`Holds`).
- `FInv` says what a transaction owes the figures (`Owes`): a parent it wrote, or
  whose children it changed, is on its list or at hand, or is *settled*: its row is
  locked and holds the sum the transaction reads. So a commit leaves every figure
  right, and takes nothing from another transaction, since whoever changes what a
  parent adds up commits with that parent's row locked (`HeldFigure`).
- `HInv` says what is held by whom (`Held`): no row before the write; a reload's
  row only when nothing is left to lock; by a child's write, parents smaller than
  those it waits for; by a parent's edit, its own children, which nobody else who
  waits needs. A request that waits and is waited for is then a child's write in
  the queue for a parent, and whoever it waits for waits for a larger parent: a
  circle would be an endless ascent through finitely many requests (`Largest`).
- What `SumFunction` computes is reached without induction over data: if some
  finite set had no sum, a smallest one would be one element larger than a set that
  has one (`SumIs`, by the well-foundedness of the numbers).

`InstallationProofs`, for any requests, Applications, clashes among them, writes,
failures and crashes:

- `Typed`, `Stops` (`[]StopSafe`), `Refused` (`[]AsItWas`), `Unhindered`
  (`[]NothingInTheWay`), `Follows` (`[]LiveFollows`): the run's properties.
- From `[]OneWriter`, a premise and not an assumption about the code: section 5
  says what follows without it. Reloads overlap the writes, and one another as far
  as their mutex lets them. `NoneAssumption` says that the value for "no manifest"
  is not also a manifest.
- `IInv`: what the writer found is in order (`Sound`), and the disk is that but
  for what its phase says it did. For an installation, a removal or a switch, the
  write set is enough to go back from the disk as it is (`Undoable`), and each
  phase says which lines and files have changed (`Installing`, `Removing`,
  `Switching`); for a restore, what is aside and what is in place make up what was
  there (`Restoring`). So a stop finds a disk that loads, and a refusal the disk
  as it was, without looking back over the steps.
- `Served` is why the right thing is served in the end: a reload that is under way
  has read the lines, and one that is done serves the contents, of the disk the
  writer found or, with no writer, of the disk as it is (`Grounds`), until the
  writer's own reload. A reload that read a write in the middle is `behind`.

`EventsProofs` on approvals, for any requests, steps, approvers and cuts:

- `Typed`, `ByAll` (`[]ApprovedByAll`), `ByOne` (`[]RejectedByOne`),
  `StampsApproved` (`[]SignedAsApproved`), `Turns` (`InTurn`), `Final`
  (`DecisionsFinal`): the run's properties.
- From `[]Undisturbed`, a premise and not an assumption about the code: section 5
  says what follows without each part of it. Decisions of different steps, with
  their services, overlap in any way under it.
- `IInv`: the rows agree with one another (`Agreed`), and what a request has read
  and will write would be right if it were written now (`Sound`). A step under
  decision is pending until it is decided, and what an approved or rejected
  document says of its steps does not look at pending ones (`DecidedKept`), which
  is why a row written back late is still right; that it may be *behind* is
  `approval_rollup`.

`EventsProofs` on scheduled rules, for any records, titles, people, days, failures
and crashes:

- `MarksTyped` (`[]S!TypeOK`), `Once` (`S!Spec => []OncePerText`).
- From `Declared`, which the module assumes of its constants, and `Orderly`: each
  service is declared once and the one that logs before the one that tells, as in
  the two Machines that have such rules. Both are hypotheses of the theorems, and
  TLC evaluates both in the run of `MCSchedules`. The code does not check the
  order; without it a stop between a telling and the mark tells again.
- `MarkInv`: the ticker alone writes marks and takes up only records whose mark it
  has not found (`Queued`); tellings never outnumber the attempts to mark, the
  one under way included (`Running`, `Counted`).

Every invariant and action property of a passing run is stated by a theorem. What
stays with TLC: liveness (`EveryRequestEnds`, `Resolved`, `Marked`, `Flagged`),
which no installed backend proves. No theorem says what a recursive definition
computes for every input: the sums of `Limits` and `Posting` are used through
facts that do not unfold them, and that of `Figures` through the argument above.

## 5. What the models found

Each is a violation run, and quotes the line of the repository it contradicts
(`PROJECT.json`, `findings`):

1. `posting_move`: two moves of one line let a post slip in between.
2. `approval_rollup`: the stamping of an earlier approval writes back the
   document it read before the last approval was rolled up. Two approvers in
   sequence are enough, since the second may decide while the first one's file
   is still being made; the document stays in review for good.
3. `publishing_race`: a draft can be published over a commit made after its base
   was checked.

Two more are a change of one constant of a passing run:

- `numbering` with `LocksAField = FALSE`: a numbered Field can be overwritten
  through the single-field route on a Machine with no set_once, locked_when or
  editable_by Field, whose edits are not judged at all (`record.go:1231`;
  `NumbersUnique` fails).
- `figures` with `HasEvents = FALSE`: on a Machine without Events the old values
  of a record are not read (`record.go:333`), so moving a child leaves its old
  parent's figure as it was (`FigureAgrees` fails).

With the constraints of section 3 removed the same properties fail in further
ways, which no run repeats:

- `figures` without `Apart`: with `Operations = {"create", "edit"}`, an edit of a
  parent undoes the recompute it queued behind (`FigureAgrees`), though
  `compute.go:132` says they queue "instead of one writing over the other", and a
  child created meanwhile keeps the value before the edit (`SeenAgrees`); with
  `"update"` as well, an edit of a parent and a write of its child lock the two
  rows in opposite orders (`NoWaitCycle`). With `{"create", "move"}`, two
  overlapping moves of one child leave a parent's figure stale. With
  `{"create", "remove"}`, a parent is deleted under a child being created
  (`NoOrphans`), though `record.go:1193` asks "so none of them is left pointing
  at nothing": the children are listed without a lock. With
  `{"create", "generate"}` and numbered children, a create holds the lock of the
  number and waits for the parent's row, which the generating request holds while
  it waits for that lock (`NoWaitCycle`; PostgreSQL ends one of them), though the
  locks are sorted "because two writers taking the same locks in different orders
  would deadlock" (`writelock.go:26`); under different parents a third request, a
  move of a child between the two, closes the same circle, and no two do, so it
  is left out by `NumbersApart` in the theorem and not in the run. A schedule is also refused only for
  children already committed, so one may join a child created by hand meanwhile.
- `approval` without `OneHand`: placing a signature while its step is decided
  writes `pending` back over the decision, and two members of a Group decide one
  step twice (`DecisionsFinal`); without `Settled`: a document is approved while
  its submission is still creating steps (`ApprovedByAll`), and the stamping of a
  decision that overlaps a revision leaves a rejected document without steps
  (`RejectedByOne`); without `NotAddedToApproved`: an approved document gains an open
  step (`ApprovedByAll`).

- `installation` without `OneWriter`: two installations that read the manifest
  before either writes it lose one's line, whose files then refuse its next
  installation (`NothingInTheWay`); a put-back restores the manifest over the
  other's (`AsItWas`); two restores move things aside under one name, and the
  second forgets what the first had moved.

What some properties leave out by name is also what the code does:

- `DocumentKept` leaves out `cut`: the ledger of uploads takes any error answer
  for a refused write (`uploadledger.go:51`), so a page that fails to render
  after the commit removes the file of a record that was accepted.
- `Flagged` leaves out `cut` and `spent`: an effect that fails after the mark is
  not tried again; a rule writes back the row as the tick listed it
  (`events.go:553`), over what a person wrote since, and a person's edit in turn
  writes back the status before the rule. An instalment whose due date is moved
  is not flagged again when the logged text names its label alone, as that of
  `metadata/contract_term.yaml:76` does.
- `StopSafe` leaves out a restore while it lasts: stopped between the two
  renames, it leaves no manifest, and the process that starts next serves
  nothing until somebody moves `.restore-bak` back by hand.

A bound with a floor can be broken by a delete, which `Ledger` states as it is.

## 6. Not modelled, and why

- Manual order of a board, accounts: planned, below. Of
  Events, the two services of an approval (`Approval`) and the scheduled rules
  (`Schedules`); not the run history, nor what a Field set by a rule sets off.
- In `Installation`, how a plan is worked out of a template and its ids renamed,
  the pruning of old snapshots, and the provisioning of a new Workspace.
- In `Attachments`, what the reader proposes and how a file is validated.
- In `Approval`, the deletion of a document and the generic edit form of a
  document or a step (a whole-row write, as a placement is).
- Metadata validation, expressions, composition, rendering, PDF, mail, storage:
  sequential functions or I/O, with no state two actors share.
- In `Limits` and `Posting`, guards other than the one a module is about
  (permissions, uniqueness, conditions) only refuse more: `Refuse` at the
  judgement and `Fail` cover them.
- In `Publishing`, the snapshot taken before a write (a copy nothing in the
  model reads), drafts stored before the base column existed (an empty base
  skips the check), and more than one Application in the runs: the module is
  written for several, and `PlanStands` compares all of them.
- In `Figures`, a record's computed Fields that read only itself, and the dates,
  shares and bounds of generated records.

## 7. Plan

In order:

1. `Placement`: `PlaceRecord`'s renumbering under concurrent moves.
2. Accounts: invitations and the few statements of `internal/data` that come in
   pairs.
3. For `Approval`, an abstract document whose status is a function of its steps,
   which an approval without overlapping services implements.
