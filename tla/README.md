# A verification development for `budget`

`budget` keeps a household's finances: it takes bank exports out of an inbox,
keeps their exact bytes in *Bronze*, derives canonical transactions in *Silver*
and publishes reportable results in *Gold*, which a dashboard reads. Everything
runs on one machine, over SQLite stores and plain files, and every command may
be cut off between two effects on disk and run again. This folder models the
parts of that system whose correctness depends on the order of those effects,
checks them with TLC on small instances and proves the central invariants with
TLAPS for every instance.

Paths below are relative to the repository (`src/src/budget` is the Python
package, `src/docs` the documentation the code refers to).

## 1. The system: inventory

### Components, their state and their operations

| Component | State it keeps | Operations that change it | Interacts with |
| --- | --- | --- | --- |
| Import of one export (`importing.py`) | inbox files, `exports/` archive, `imports.jsonl` | recover the log, catch the log up, record, archive, log, clear from inbox | Bronze (commits runs), the inbox command, decisions (voided runs are not retried), replay (reads archive and log) |
| Bronze store (`bronze/store.py`) | import runs, payloads, source records, format failures | `import_file`, `restore_import_run`, `replace_derived_records` | parsers; Silver reads it |
| Source parsers (`bronze/parsers`) | none | none: bytes in, records or a failure out | Bronze |
| Import command (`inbox.py`, `cli.py`, `prompting.py`, `ranges.py`) | none of its own | preview every file, refuse duplicates, import each, rebuild Silver and Gold, back up | everything below |
| Manual decisions (`deciding.py`, `decision_log.py`) | `decisions.jsonl` | `propose`: validate against the log, Bronze, Silver and the configuration, then append | Silver and Gold builds apply what is in force; imports skip voided runs |
| Silver build and store (`silver/`) | `silver.db` | one replace-all rebuild | reads Bronze and decisions |
| Gold build (`gold/build.py`, `classification.py`, `transfers.py`, ...) | none | none: Silver and inputs in, a result out | `rebuilding.py` |
| Gold store (`gold/store.py`) | publications, retained results, pointer history, recovery boundaries | `publish`, `undo`, stale-result cleanup, `record_recovery_boundary` | `rebuilding.py`, `cli.py` undo, `restoring.py`, dashboard |
| Rebuild (`rebuilding.py`) | none of its own | plan, publish; Silver first, then Gold | stores, inputs, code version |
| Backup sets (`backups.py`) | `backups/`, `backup-staging/`, `recovery-sets.json` | stage, publish by rename, prune, hold, release | copies of stores, inputs, logs |
| Restore (`restoring.py`) | the unfinished-restore marker | clear, stage, mark, put inputs back, move stores in, replay, boundary, catch up, unmark, back up | backup sets, replay, Gold |
| Replay (`replaying.py`) | none of its own | restore logged runs into Bronze, in log order | archive, import log |
| Migration and SQLite access (`migration.py`, `sqlstore.py`) | schema versions | migrate each stage in one transaction, between two backups | backups |
| Writer lock (`locking.py`) | an OS file lock | take, release | every writing command |
| Household inputs (`inputs/`, `profiles.py`) | TOML text the household edits | none by the program | every build |
| Dashboard (`dashboard/`, `analytics/`) | failed-login counter | log in, serve pages pinned to a publication | Gold store, read only |
| Development refresh (`refreshing.py`) | development's stores, `upstream/` and inputs, and the old ones moved aside | swap in a production set, undo a swap that fails | backup sets |
| Check of recorded prefixes (`checking.py`) | none | none: the recipes' log prefixes against the log, without the lock | Gold store, decision log |
| Demo profile (`demo.py`) | a new folder | builds a profile from fixed records, once | everything it calls |
| Status, check, review, summaries, logs | log files | append a record of the command | read only |

### How they interact

All writing commands take the profile's writer lock for their whole run and
refuse at once when another holds it, so there is one writer. Around it are the
actors no lock stops: the household saving files into the inbox or editing
inputs, the dashboard server reading `gold.db` without a lock, programs that
hold files open, synchronisation and hands that touch the archive or put a log
back, and the crash that may come between any two effects.

### What is hard here

- **Effects with no common transaction.** One import touches SQLite, the
  archive, the log and the inbox, in that order, and is cut off between any two.
  Recovery is by rerun: each step must recognise what an earlier run has done.
- **Logs that end in half a line**, which the next import must complete
  correctly (import log) or refuse (decision log).
- **Evidence that is withdrawn.** A void puts a run out of force, an import of
  the same bytes may then be stored elsewhere, and withdrawing the void must not
  leave two owners.
- **Ids after a loss.** Publications are restored from an older copy; ids given
  out since are gone from the store but not from the pages that show them.
- **A reader without a lock** while results are deleted under it.
- **Two-step replacement of files and folders** (restore, refresh, backup sets).
- **Pure algorithms with counting in them** (merging overlapping exports,
  pairing transfer legs).

`PROJECT.json` lists each hazard at the line where it bites, with the properties
that cover it.

### What makes each component correct

| Component | Correct when |
| --- | --- |
| Import | nothing archived is overwritten; what leaves the inbox is kept; the log restates Bronze and can be replayed; crashes never block later imports; every run is logged in the end; one owner per payload |
| Decisions | the claims in force never overlap; every entry accepted once is accepted by every later read; a withdrawn void never makes a second owner |
| Silver | each day is exactly what its selected export shows, by occurrence; exports that continue each other of a book that only grows are admitted; a month called complete adds up to the bank's figures |
| Gold build | the pairs are transfers, each leg in one; where several could match nothing is chosen, and a review item asks |
| Gold store | current and previous are readable; the pointer history is one story; a page shows one publication; ids are not reused after a restore |
| Rebuild | what is published is what was planned; a failure leaves the previous publication current |
| Backup sets | what the newest set could give back, some complete set can; a set taken for a migration stays until it succeeded |
| Restore | nothing the logs ever held is missing afterwards unless it is reported; undo goes back to the set's publication |
| Migration | every stage can be put back as it was before until all of it succeeded |
| Development refresh | development's stores are the old ones or the set's, never of both, and the old ones are not lost by a failure |
| Check | an append-only log raises no alarm, whatever is recorded while it reads |

## 2. What is built

| Module | What it is |
| --- | --- |
| `ImportRuns` | the import of one export at a time, with Bronze, archive, log, inbox, voids, crashes and outside hands |
| `MCImportRuns` | its instance for TLC |
| `ImportRunsProofs` | the type invariant, five invariants and three action properties of `ImportRuns`, proved |
| `PublicationHistory` | the abstract promise of Gold: a current publication, a previous one, and their contents |
| `GoldStore` | `gold.db` with publishing, undo, cleanup, backup, loss, restore and a pinned page; implements `PublicationHistory` |
| `GoldStoreProofs` | the type invariant, seven invariants and the refinement, proved |
| `Pipeline` | `import`, `rebuild`, `decide` and `undo` over Bronze, Silver, Gold, the decision log and the backup set, with refusals, crashes and edits meanwhile |
| `MCPipeline` | its instance for TLC |
| `PipelineProofs` | the type invariant, two safety invariants and two action properties, proved |
| `DecisionLog` | `decisions.jsonl`: its replay, the claims in force, what may be recorded, appends cut off, edits by hand, the recipes' prefixes and the check that reads both |
| `MCGoldAndDecisions` | `GoldStore` and `DecisionLog`, side by side |
| `DecisionLogProofs` | the type invariant and four safety invariants of `DecisionLog`, proved |
| `SilverMerge` | one account's exports, of a bank's book that changes meanwhile, becoming Silver |
| `MonthlyBalances` | the history, balance checks, coverage and balances Gold publishes of it (extends `SilverMerge`) |
| `SilverMergeProofs` | of both: the type invariant, `DayIsItsExport`, `GrowthIsAdmitted` and `CompleteMonthsAddUp`, proved |
| `GoldBuild` | one Gold build: refusals, decisions, rules, transfer matching, outcomes and review items |
| `GoldBuildProofs` | the type invariant, `PairsAreSound` and `NothingIsGuessed`, proved |
| `MCFigures` | `MonthlyBalances` and `GoldBuild`, side by side |
| `BackupSets` | what a set holds, when one may be written, which are complete, held and deleted |
| `Recovery` | the commands that write or need sets: backup, import, decide, migrate, restore (extends `BackupSets`) |
| `DevRefresh` | `dev refresh`: inputs, own stores and `upstream/` swapped by renames |
| `RecoveryProofs` | the type invariants of `Recovery` and of `DevRefresh`, both safety invariants of the one and `DevelopmentIsWhole` of the other, proved |
| `MCRecovery` | `Recovery` and `DevRefresh`, side by side |
| `FiniteFacts` | lemmas on finite sets: least and greatest numbers, ranks, induction, and sums in any order and by groups; used by five proof modules |

### `ImportRuns`

State and code correspond as follows.

| Variable | Code |
| --- | --- |
| `runs` | Bronze's `import_runs` with each run's payload, outcome and `repeat_of`; a run is named by its rank in `ORDER BY started_at, import_run_id` |
| `voided` | the runs the `void-import-run` decisions in force name |
| `archive` | what stands at each place `archive_candidates` may name: the account's folder, the folder named by the hash, the same under `refused/` |
| `log`, `cut` | the whole lines of `imports.jsonl`, and the part of a last line without a line feed: before its run, past its run, or past its place |
| `inbox` | the bytes of each inbox file |
| `step`, `file`, `run`, `place` | the local variables of `import_inbox_file` and `_bring_log_up_to_date`, and where they are |
| `savedOver` | history: whether the file about to be unlinked was saved over since its bytes were compared |
| `result`, `spent` | whether the last command ended well; how much of each bound is used |

Each action is the code between two effects: `Recover` / `CompleteLine` /
`LogDamaged` are `_recover_log`; `ArchiveOldest`, `LogOldest`, `CaughtUp` are the
loop of `_bring_log_up_to_date`; `FindEarlier`, `FindNone` are `_earlier_run`;
`Record` is `BronzeStore.import_file` with `_decide_outcome`; `ArchiveOwn`,
`KeepArchived` write the copy; `ClearChecked` and `Unlink` are the two halves of
`_clear_from_inbox`, the hash and the unlink. The errors (`ArchiveConflict`,
`CopyReplaced`, `LogDamaged`, `ReadFails`) end the import and leave the rest as
it is. `Crash`, `CrashAppending`, `CrashCompleting` stop it. A payload stands for
bytes and for their hash, so equal bytes have equal hashes and no others do.
Names that differ only in case are one name here, as they are one place there.

`ImportLogAheadOfBronzeError` cannot arise: nothing in this module takes Bronze
back. `Recovery` does (`Ahead`).

### `GoldStore` and `PublicationHistory`

`store` is `gold.db` as a record: the publications ever made, the ids whose
results are retained, the pointer moves and the recovery boundaries. A
publication is its recipe and which build of all it was, so two builds are never
equal. `phase` and `plan` are where a writing command is between its
transactions, `recovery` where a restore is, `sets` the copies of `gold.db` in
backup sets, `page` the publication a browser is pinned to (the id in the URL).
The page counts the pointer moves since it was opened, up to two.

Publishing is `Plan` (outside any transaction), `Publish` (one transaction),
`Cleanup` or `CleanupFails` (another). `Undo` has the same cleanup. A restore is
`PutInPlace`, `RecordBoundary`, the catch-up build or `CaughtUp`, and
`FinishRestore`; `Crash` leaves the marker, after which only another restore may
go on (`require_no_unfinished_restore`). The page is served by a process that is
running already and reads `gold.db` whatever the marker says.

Not modelled: labelled publications (no operation sets a label yet), and a Gold
migration that drops a result it cannot convert (none of the present migrations
does).

`PublicationHistory` says what a reader may rely on: builds and undos move a
current publication, the one before it stays readable, other contents may be
forgotten, histories may be saved and one of them put back. `KeepsHistory` is
`PublicationHistory!Spec` under the mapping written at the end of `GoldStore`.

### `Pipeline`

The commands above the other two modules, one level coarser: what a set covers,
what a build reads, what a publication is of.

| Variable | Code |
| --- | --- |
| `bronze` | the stored import runs, each with the commit that parsed its source records |
| `log` | `decisions.jsonl`: kind, target, superseded entries. "void" stands for the kinds that target a run, "withdrawn" for Silver's kinds on a transaction, "classify" for Gold's, "retract" for itself |
| `silver` | `silver.db`: its records, the decisions and the currencies applied, the commit that derived it |
| `gold` | the current and the previous publication: recipe and result |
| `covered` | whether the newest backup set holds all of that as it stands |
| `config`, `code` | `accounts.toml`, `taxonomy.toml`, `rules.toml`; the commit checked out |
| `command`, `from`, `phase`, `running`, `inputs`, `derived`, `plan`, `wrote` | the command under way and its local variables |
| `quiet` | whether nobody has edited or checked out since it began |
| `exposed` | history: whether a command that had written since the last set was cut off or could not write its own, or ended with an error other than a configuration error |

A result is the record of all it was computed from, a free term: two results are
equal when nothing they read differs. That is what lets `AsNamed` compare a
publication with its recipe field by field. The actions follow the code's order:
`ReadInputs` is `read_household_inputs`; `StoreRun` the files of an import;
`PlanThrough` derives Silver and Gold in memory, the currencies from
`accounts.toml` as `bronze_inputs` reads it again and the commit from the
checkout as `_recipe` reads it again; `ReplaceRecords`, `ReplaceSilver`,
`Publish` and `BackUp` are the writes, each a transaction or a rename of its own.
`Refuse` is a `ConfigurationError`, which ends a command that has written
something with a set (`held back`) and any other at once. `SilverNotBuilt` and
`StopWithoutSet` are the other errors, which nothing catches: Silver never built,
an archive conflict or an unreadable file after others were stored, code that is
not committed where the recipe asks for the commit. Runs that
Bronze records without storing (repeats and refusals) and the reparse of one
payload under several runs are left to `ImportRuns`.

Production is modelled: in other profiles no set is written and no commit named.

### `DecisionLog`

| Variable | Code |
| --- | --- |
| `lines`, `cut` | the complete lines of `decisions.jsonl`, and whether a part of one follows |
| `command`, `content`, `at` | the command under the writer lock, the lines it has read and how many of them `_Replay.read` has judged |
| `in_force`, `used`, `holders`, `flawed` | the fields of `_Replay`; of `problems` only whether there are any |
| `recipes`, `recorded`, `mismatched` | the log prefixes publications record, those a check has read, and what it found |

`Judge` is one call of `_Replay.read`: a valid entry takes its id, releases what
it supersedes and enters its claims. `Record` is `propose` with its append,
`CrashAppending` an append that stops before the line feed, `PublishRecipe` a build
that records the log it read, `Refuse` everything else that ends a command.
`CheckReadsRecipes` and `CheckReadsLog` are the two reads of `checking.check`,
between which commands go on. A claim is what a kind claims, as in `_claims`, and
`Overlaps` what `_clashes` refuses. An entry is cut down to what those rules tell
apart; whether a target exists or Gold can apply a decision is left open.

### `SilverMerge` and `MonthlyBalances`

The environment is a bank: it books transactions on the present or an earlier
day, may remove or reword one and book again what it removed, and an export is its
rows over any range of days, with the balance after each. `taken` is Bronze's runs in
order with the outcome Silver gives each, `counts`, `selected` and `withdrawn` are the
fields of `Ledger` (`selected` has the days that have an export). `TakeRepeat`,
`Refuse`, `Quarantine` and `Admit` are the outcomes of `admission.py`; `Disagreements`,
`Dropped` and `Enter` are `Ledger._disagreements`, `dropped` and `admit`. Silver derives
from all runs at once where the model takes one after another: the ledger after the
first `n` is the same.

What decisions there are is chosen when a drop is met (`Rulings`) and kept (`ruled`),
since a derivation has them all from its start. A withdrawn decision names the drop or
does not; a same-transaction decision may name any row of the export, whatever its day
and amount and whether or not another drop has it, or a record of it that
is not booked: `deciding._target_problems` asks only that the record exists, the
log only that no other decision claims it. `same` of a run is what `_remapped`
makes of its rows. `misnamed` is a history: the days on which a decision named something
other than a new row of the day for a drop.

`MonthlyBalances` has no state of its own. It computes, from the ledger, the
history `merge.py` and `gold/transactions.py` make, the links of the balance
chain, and each month's coverage, opening and closing balance. Two premises of
`CompleteMonthsAddUp` are where nothing is published: `ClosedBefore` is the refusal of
`_closing_problems`, and where `EachHasARow` fails `Ledger._latest_row` raises. Files
that lack a row, or state no balance on one, are among those it counts. Only its last
clause, on the bank's own balance, has a premise on the last day's file (`IsWhole`): a
file that lacks the day's last rows cannot show that it does.

### `GoldBuild`

`book` is Silver's transactions of all accounts in booked order. `Begin` is what
`build.py` checks and decides before the matching; each `Stage` is one round of
`transfers.match`, by the days between the legs; `paired` and `held` are
`Matching.paired` and `ambiguous`. `Outcome` and `ReviewItems` are computed from
those when the last stage is done. Every category a rule or a decision names is
declared here.

### `BackupSets` and `Recovery`

| Variable | Code |
| --- | --- |
| `stores`, `bronze`, `latest` | the schema version each store file stands at, Bronze's runs, the versions the code applies |
| `logs` | `imports.jsonl` and `decisions.jsonl`, or that there is no such file |
| `sets`, `kept`, `held` | every set ever written, those not deleted, those `recovery-sets.json` names |
| `marker` | `restore-in-progress.json`: the set and the inputs put back |
| `command`, `spent` | the command under way with its local variables; how much of each bound is used |
| `owed`, `guarded`, `recorded`, `forgotten` | history the properties need; no guard reads them |

`Write` is `back_up` up to the rename that publishes the set; `RetireSets` is
`_prune` and the release of superseded holds, either of which may fail or stop
part of the way. `BeginMigrate` ... `Release` are `migrate_profile`, stage by
stage. `BeginRestore` ... `Finish` are `restore` in its order: clear an earlier
attempt's stores and marker, place the set, write the marker, put the missing
inputs back one by one, move the stores in one by one, replay the log's further
runs, record the boundary and build, remove the marker, write a set, report.
The report is the last thing a restore does (`Report`, in the step that ends its
retention), so one cut off after the marker's removal reports nothing, and no rerun
can. `TearLog` is a copy that a crash cuts off: the rerun takes the torn file for one
that survived and leaves it as it is, but names it in the report because the marker
does. A set is named by a clock that may show any time.

### `DevRefresh`

`own`, `aside`, `upstream`, `inputs` and `replaced` say of each file or folder
where its contents are from: which set, or development itself. The store swap is
`_swap_in`: `ClearAside` deletes what an earlier refresh left aside, `MoveAside`
and `MoveIn` are its renames one by one, `UndoSwap` is `_undo_swap` with any of its
moves stuck, `SwappedIn` the deletion of the old stores. `MoveInputs`,
`PlaceInputs`, `DropOldInputs` are `_replace_inputs`. `CutOff` stops between any two.

## 3. The runs

| Run | Checks | Instance |
| --- | --- | --- |
| `imports` | `TypeOK`, `OneOwner`, `OnePayloadPerPlace`, `LogRestatesBronze`, `LogReplayable`, `LoggedIsArchived`, `CrashesNeverBlock`, `ClearedOnlyWhenKept` | two accounts, two payloads, three inbox files (one named like an archive folder), two runs, a clock that may step back, a crash, two saves, one outside change, one log put back |
| `imports_live` | `EveryRunIsLogged`, `AcceptedLeavesInbox` under `FairSpec` | two files, one payload, two runs, two crashes, two saves, one log put back |
| `empty_inbox` | `EveryImportLogsEveryRun`, violated | one crash |
| `imports_race` | `SavedOverStays`, violated | two files, two saves, no crash |
| `gold_and_decisions` | `TypeOK`, `CurrentAndPreviousKept`, `HistoryIsSound`, `PlanStaysNext`, `PageSurvivesOneMove`, `PageNeverMixes`, `LeftoversHaveACause`, `CatchUpUndoReturns`, `KeepsHistory`; `LogTypeOK`, `ClaimsDisjoint`, `ReplayAgrees`, `OwnEntriesStayValid`, `NoFalseAlarm` | ids to 14 with a step of 5, two recipes, four builds, four moves in a store, two failures, two sets, two restores; and two targets, two payloads, five kinds (one of each that claims differently, and `retract`), logs of three lines, one edit by hand, one recipe |
| `pipeline` | `TypeOK`, `EveryWriteIsBackedUp`, `EndsCurrent`, `QuietBuildsAreAsNamed`, `PublishedFromStored`, `EveryRunIsPublished` | one run, two commits, two configurations, two decisions, two failures, one edit or checkout |
| `pipeline_recipe` | `BuiltFromItsRecipe`, violated | one run, one commit, one configuration, two decisions, nothing fails |
| `figures` | `TypeOK`, `DayIsItsExport`, `GrowthIsAdmitted`, `CompleteMonthsAddUp`; `PairsAreSound`, `NothingIsGuessed` | two days, two bookings of one amount, two booked at most, one correction by the bank, three exports, one flaw; and four transactions or decisions over two accounts, three days, two amounts and two texts |
| `silver_remap` | `NewRowsShowDrops`, violated | as `figures`, two exports, no flaw |
| `silver_backfill` | `GrowthOverAnyRange`, violated | as `figures`, two exports, no flaw |
| `recovery` | `TypeOK`, `Recoverable`, `EveryLossIsReported`; `DevelopmentIsWhole` | two stages at two versions, two entries in a log, three sets, one command cut off, two losses, other code once; and two refreshes with two failures over two stages |
| `restore_unreported` | `NothingLostSilently`, violated | as `recovery` |

**Bounds.** Two runs are what a repeat, a conflict of owners and a retry need;
the properties over more runs are what the proofs are for. One crash followed by
a rerun reaches every recovery path, and the liveness run has two, so that a
recovery is cut off itself. Two saves are a file and one saved over it, or the
same export under two accounts. `TouchArchive` reaches the places of `Touchable`
only, to keep the run small: one account's own place and the matching hash place.
`IdStep` is 5 for the code's 1,000,000; `MaxBuilds < IdStep` is assumed, as a
household does not publish a million times between restores, and the ids go past
two steps, so two restores fit. Two failures are a cut-off command and a failed
cleanup; four moves allow build, build, undo, build, in which ids and pointer
part ways.

In `pipeline` one run is enough for what is voided, withdrawn, unpublished or
stale, since runs do not interact there; two decisions are one and its
retraction, or two builds at different positions; two failures are a command
cut off and its rerun refused. One edit or one checkout splits what a command
reads early from what it reads late. It starts from one commit and one
configuration of the two, which differ in name only.

In the log three lines are a decision, one that supersedes or retracts it,
and what is recorded after that; the line a hand writes is one of the few
`MCHandLines` names, one for each rule it can break.

`gold_and_decisions`, `figures` and `recovery` each hold two modules that share nothing;
`part` says which of them moves, from the initial state on, so the run's states are those
of one and those of the other. In `figures` two equal bookings are what numbering by
occurrence needs, two days with a month of one day what a month between exports needs, and
the third export one that meets a day already chosen twice. Two accounts, a day's gap and
four transactions are two outgoing and two incoming legs, the least in which pairs compete
and sets of candidates join; a decision takes the place of a transaction. In `recovery`
three sets are one held, one newer and one after a loss; `KeepAllDays = 1` with days of
one moment makes retention delete any of them. It also passes, taking longer, with two
commands cut off, and with a third moment of the clock; `DevRefresh` passes with three
refreshes.

**Fairness.** An import under way goes on until it ends (`WF` of its steps: a
sequential program with no waiting). The household runs `budget import` again
while files are left (`SF` of `Begin`): the documentation names the rerun as the
remedy for every failure. `Unlink` is strongly fair: a program that holds a file
lets go in the end, and the retry then removes it. Crashes, saves and outside
changes have none, and are bounded. `Begin` takes any file at a time where the
command takes them in sorted order: an aborted file is passed by the next run
only if the household moves or corrects it, which `ReadFails` allows.

In `pipeline` a command under way goes on (`WF` of `Step`), and the household runs `budget
import` again and again (`SF` of `Import`); failures, refusals, answers of no, edits and
checkouts have no fairness and are bounded. `BackUpFails` and `Refuse` and
`StopWithoutSet` compete with `Step` and may win only as often as `MaxFailures` allows:
what keeps every command from succeeding keeps runs from being published.

**Deadlock** is checked in the runs of imports, in `gold_and_decisions` and in the runs of
the pipeline: some action is always possible. In `figures` and `recovery` it is not: the
exports, the refreshes and the losses run out, and a build that is published or refused
has ended.

### Where the documentation and the code part

1. `imports_race`: `_clear_from_inbox` hashes the file, then unlinks the path. An
   export saved over in between is removed though nothing has read it, which
   `docs/architecture/operations.md` (519-520, 774) says stays. What holds is
   `ClearedOnlyWhenKept`: everything else the program removes it has kept, and in this
   case the bytes it compared.
2. `empty_inbox`: the log is brought up to date only while a file is imported.
   After a crash whose file was then taken out of the inbox, `budget import`
   ends well with the run still unlogged; `operations.md` (772, 776) promises the
   next import logs it.
3. `pipeline_recipe`: `_decide` rebuilds from Silver only for the kinds Silver
   applies, and `retract` is not one. Retracting a void, a withdrawal or a
   same-transaction decision publishes Gold from the Silver that still applies
   it, under a recipe whose log position is past the retraction.
   `docs/architecture/publications.md` (514) says a build reads only what its
   recipe names. If the decision changed no run, the next build through Silver
   finds an equal recipe and publishes nothing, so the figures stay.
4. `silver_remap`: a same-transaction decision that names the first of two equal
   reworded rows leaves the second numbered as the second of the new wording,
   while one of that wording is counted. The transaction kept is one no row
   shows, and `Ledger._latest_row` raises in the build. `merge.py` (61) and
   `silver-layer.md` (78) say a selected export shows every transaction kept.
5. `silver_backfill`: an export that reaches further back than those admitted adds
   transactions their balances already include. The balances agree and the
   amounts added do not, so it is quarantined as an export that disagrees;
   ADR-017 (57) and `CONTEXT.md` (247) keep that item for balances that do, while
   ADR-009 (72) and `silver-layer.md` (310-314) state the comparison as it is coded.
6. `restore_unreported`: a log that neither the set nor the profile has is taken
   for one never written (`restoring.py`, 665). If a decision was recorded, its
   set was not written and stores and log are then lost, the restore ends well
   without it and reports nothing.

In the third, the run stops at the shortest way; there are others to a publication that is
not what its recipe names, which `QuietBuildsAreAsNamed` delimits: an edit of
`accounts.toml` or a checkout between two reads of it by one command; records parsed by an
older commit and not parsed again; a decision recorded and cut off before Silver was
rebuilt, followed by `rebuild --from gold`. Something the model shows without
contradicting a document: after a crash between publication and backup, an import with
nothing outstanding writes no set.

Also met while modelling, and not runs of their own:

- "Every production write is followed by a set" (`inbox.py` 525, `cli.py` 555) holds of
  commands that end well or are refused by the configuration. Any other error ends a
  command that has written without one: a later file that cannot be archived or read
  (`inbox.py` 480, `cli.py` 649), code that is not committed found when the rebuild
  asks for its version (`codeversion.py` 76-78; `inbox.py` 495, `cli.py` 804), a
  decision recorded while Silver was never built. `EveryWriteIsBackedUp` excepts these.
- `LogReplayable` leaves one case out: the clock steps back between a run and its
  repeat, and later the log is put back from a set. It is then caught up in
  `started_at` order and has the repeat before the run it repeats. `operations.md`
  (524) calls it safe to put the log back; `replaying.py` (331) names the stepping clock.
- A recorded prefix is compared with the log by `check` alone; `operations.md`
  (467-470) says every build does too. And a line a hand adds under the next id is
  refused by every later `decide`.
- A restore that is cut off, or whose copy fails, between `_clear_unfinished` and the
  next marker forgets which inputs it had put back (`forgotten`), though the
  docstring of `_mark_unfinished` says a retry still reports them. So does one cut off
  while it writes its set, after the marker's removal (`restoring.py` 708-723): the
  profile may be used, and nobody learns which logs were the set's copies.
- `dev refresh --inputs` cut off between its two renames leaves the old inputs aside;
  a retry deletes them before it has made the new ones. `DevelopmentIsWhole` says what a
  refresh keeps that no such attempt came before.
- A transaction that was withdrawn and is then booked again identically is left out, or
  makes the next export disagree: `DayIsItsExport` lets a row show a withdrawn
  transaction, and `GrowthIsAdmitted` excuses exports after a removal. An export with
  no row that covers only a month's last day settles that month's late bookings.

## 4. What is proved

For every value of the constants that meets the named assumptions:

- `ImportRunsProofs`: `TypeOK`, `OneOwner`, `LogRestatesBronze`,
  `OnePayloadPerPlace`, `NeverOverwrites`, `LoggedIsArchived`,
  `ClearedOnlyWhenKept`, `CrashesNeverBlock`, `LogReplayable`.
- `GoldStoreProofs`: `TypeOK`, `CurrentAndPreviousKept`, `HistoryIsSound`,
  `PlanStaysNext`, `PageSurvivesOneMove`, `LeftoversHaveACause`,
  `CatchUpUndoReturns`, `PageNeverMixes`, and `Spec => KeepsHistory`.
- `PipelineProofs`: `TypeOK`, `EveryWriteIsBackedUp`, `EndsCurrent`,
  `PublishedFromStored`, `QuietBuildsAreAsNamed`.
- `DecisionLogProofs`: `LogTypeOK`, `ClaimsDisjoint`, `ReplayAgrees`,
  `OwnEntriesStayValid`, `NoFalseAlarm`.
- `SilverMergeProofs`: `TypeOK`, `DayIsItsExport`, `GrowthIsAdmitted`, `CompleteMonthsAddUp`.
- `GoldBuildProofs`: `BuildTypeOK`, `PairsAreSound`, `NothingIsGuessed`.
- `RecoveryProofs`: `TypeOK`, `Recoverable`, `EveryLossIsReported`; and of
  `DevRefresh`, `DevTypeOK` and `DevelopmentIsWhole`.

**`OneOwner`** is inductive with the type invariant: a store needs no run in
force for the payload, and a withdrawal needs no other stored run to be left in
force among those it brings back and those that were (`StoredSince` of each run
of the withdrawn set, evaluated against what is voided afterwards).

**`LogRestatesBronze`** needs, beyond itself, that the place an import is about
to log is one of the candidates of the oldest unlogged run: the place is chosen
in one step and logged in the next, and in between nothing records, voids or
logs. A cut-off line needs nothing: whatever it is, only the entry of an unlogged
run at one of its candidates completes it.

**`OnePayloadPerPlace`** adds to that invariant that the place about to be logged
is open to the run, that is, that no entry reserves it for other bytes.

**`NeverOverwrites`** follows from the steps alone: every write goes to a place
that holds the same bytes or none.

**`LoggedIsArchived`** and **`CrashesNeverBlock`** are one invariant, `ArchiveInv`. The
first needs that the place about to be logged has the bytes (`PendingIsArchived`). The
second needs three more facts: a cut-off line is the beginning of the entry of an archived
run that is still unlogged, so some run proves it (`CutIsProvable`), which needs that an
import past catching up has every run logged (`LogIsFull`), so that only the oldest
unlogged run is ever appended; and the folder named by a hash holds only those bytes
(`FoldersHoldTheirHash`), so the last candidate of a run is never taken by others.

**`ClearedOnlyWhenKept`** needs two facts more about the one step that removes a file:
its run is an accepted one of that file (`RunIsOfFile`), logged and archived with all
others, and the file holds the run's bytes unless it was saved over since they were
compared (`ComparedOrSavedOver`).

**`LogReplayable`** has two reasons, one for each half. Until a log is put back, an import
records its run only after everything Bronze has is logged, so a repeat is logged after
its original whatever the clock shows (`OriginalsAreLogged`). A log that was put back is
caught up in Bronze's order, oldest unlogged run first, so it has them in that order where
Bronze has; and a cut-off line is that run's (`CutIsOldest`), so no entry is completed
ahead of an older one.

**`HistoryIsSound`** is not inductive: it needs that every move's target is at
most the highest publication (`Reached`), so that a build's id is above them all,
and it must hold of every set as well as of the store, since a restore makes a
set the store. **`CurrentAndPreviousKept`** is proved with it, of the store and
of every set. **`PlanStaysNext`** holds because a plan exists only between
`Plan` and `Publish`, and no step that moves the next id is possible then.
**`PageSurvivesOneMove`** needs to know where the page is: on the current
publication before a move, on the current or the previous one after.

**`LeftoversHaveACause`** is proved with the same bound for every set (`LeftoverInv`): a
set is taken when no cleanup is due, and a restore makes it the store.
**`CatchUpUndoReturns`** needs that from the boundary to the catch-up build the pointer
is where the set had it, and that every publication is below the boundary's first
id, so that the build is the move the boundary counts. **`PageNeverMixes`** is about
two stretches of time: before the restore ids count the builds, and `MaxBuilds <
IdStep` keeps them below the step (`BeforeRestore`); afterwards no id below the step is
given out (`AfterRestore`).

The refinement is proved step by step: `Publish` is the abstract `Build`, `Undo`
its `Undo`, `Cleanup` its `Forget`, `BackUp` its `Save`, `Lose` its `Lose`,
`PutInPlace` its `Restore`, and every other step a stutter.

**`EveryWriteIsBackedUp`** needs to know, of a command under way, that it knows
what it has written: an import that has written while storing holds a run, so it
cannot end with nothing to build; and it rebuilds from Silver, so that replacing
an equal Silver leaves everything on disk as a set may hold it.

**`EndsCurrent`**, **`PublishedFromStored`** and **`QuietBuildsAreAsNamed`** come
from one invariant, `Carries`: what a build has read is still the log's end and,
while quiet, still the configuration and the commit (`KeepsInputs`); the Silver
it carries, first in memory and then stored, has every run in force
(`CarriesSilver`); and its plan, or the current publication where it found the
recipe equal, names both (`CarriesGold`). The assumption is that `None` is no
publication.

**`ClaimsDisjoint`** and **`ReplayAgrees`** are one invariant with `ValidUsed`: a
valid entry's id, and the ids it supersedes, are taken, so a later entry, whose id
is not, neither is superseded already nor brings a superseded one back. Entering a
decision keeps the claims apart because it clashes with no holder it does not
release. **`NoFalseAlarm`** needs that, while no hand has edited the log, every prefix a
recipe records, a check has read or a build has before it is a prefix of the log.

**`OwnEntriesStayValid`** says that two replays agree: the one that admitted a line and any
later one. The invariant is that there is a run through the log as it stands, a
value for every line, in which no line is wrong, and that the replay under way is
some way along it (`OwnLogSound`). Recording a line makes the run one longer, since
`decide` has replayed to the end of the same log; a cut-off line is no part of it.
That a cut-off line is not a well-formed one is the assumption.

**`Recoverable`** needs what a command knows between the steps of a backup: from the
rename of a set to the end of the retention the new set is complete and gives back
all that is owed and every store there is (`NewestGives`), so that retention, which
keeps the newest, loses nothing; and while a migration goes on, the set it took
gives back every stage it has not upgraded yet (`TakenGives`). The assumptions are
that at least one set can be kept and that no file is no contents.

**`EveryLossIsReported`** needs where a run or a decision may be while it is not in use: a
log there is holds all that was recorded in it unless this restore put it back or no
restore can report on it any more (`LogsKept`, `Excused`; a restore that has removed its
marker still answers for what it put back until it has reported), and what the log lists
is in the set, then in Bronze, according to the step (`ListedComesBack`). Looking for this
invariant showed two histories in which the property was false of the model though no run
reached them, with three losses and with two commands cut off: what was recorded was meant
to shrink when a restore reports a loss, and did not where Bronze is started anew or where
the log was put back by an earlier attempt. The history variable `recorded` was corrected.

**`DevelopmentIsWhole`** needs what a swap has moved at each point (`Swapping`): the old
files in their place or aside, the set's only once no old one is left. `ClearAside`
deletes what is aside, and what development had is then what is in place. Unless a refresh
was cut off or stuck before, all of it is in place at that point (`StoresKept`), and the
inputs are out of their place between two renames only (`InputsKept`), so nothing of it
goes; what a refresh after such an attempt deletes is not claimed.

**`PairsAreSound`** and **`NothingIsGuessed`** rest on what a fold computes. The
connected sets are a fold of `Join` over the candidates in whatever order they come.
That they are disjoint, and each of them connected and closed under the candidates
it was made of (`Connects`), is proved by induction over what the fold has joined
(`ConnectedSetsConnect`). The set of a leg is then the least one that holds the leg
and every rival of a member (`ReachIsSet`), and depends on no order and no choice. The
invariant says of the stages done that a paired leg names a leg that names it, in
a set in which the legs of one sign are the same transaction repeated
(`PairedRight`); that a held leg is held with all of a set in which they are not
(`HeldRight`); that no leg is settled twice (`SettledOnce`); and that a leg is passed
over only for its like (`PassedRight`). What competes for a leg at one gap does not
change afterwards, because settled legs stay settled (`ReachNext`). Outcomes and review
items are functions of those; the sum over all transfers is one by groups, each of
which cancels (`SumGrouped`). The assumption is `BuildAssumption`: among other
things, that `Nothing` is no day, set, kind, reason or item.

**`DayIsItsExport`** says that a list of rows and a set of counted transactions are the
same things. An export's rows of one key are numbered 1, 2, ... by occurrence
(`IdentityIsOwn`, `IdentityIsFound`: a row's number is its rank among the places of
its key, and the ranks of a finite set of numbers fill 1 to their count, `RanksFill`).
A decision moves a row from its own number to that of a dropped transaction. Where the
row moved shows nothing counted so far and moves for one drop of its own day (`Fits`),
and the rows moved are the last of their key, what stays is numbered without a gap
(`NumbersAreRows`), so the counted numbers are exactly the shown ones (`AllShown`) or,
where the export shows fewer than are counted, no count changes (`FewerShown`,
`MergedCounts`). Then what is kept on a day the run covers is what its rows show
(`KeptIsShown`), once each (`OneRowEach`), other rows show withdrawn transactions, and a
day it does not cover is untouched (`AdmittingKeepsDays`). Days on which a decision
named something else (`Misnamed`) or the rows moved are not the last (`Renumbered`) are
excepted, and disturb no other day (`OtherDaysFit`); that the second exception cannot be
dropped is `silver_remap`. Of the bank nothing is assumed. The assumption
(`RulingsAssumption`, of all three theorems) is that a ruling is no row.

**`GrowthIsAdmitted`** is a statement about sums of money: the balances of two exports
differ by exactly what the later one adds. Sums are `SumFunctionOnSet`, whose value
is a fold; `FiniteFacts` proves of it, by induction over finite sets, that any member
may be counted first (`SumRemove`) and that a sum may be taken by groups
(`SumGrouped`). With those the bank's balance at the end of a day is the sum over
the days of what each comes to (`BalanceIsDays`, `SumOfDay`), which is what a whole
export states (`WholeEnds`) without a break (`WholeUnbroken`). Suppose nothing excuses
a quarantine (`Expected`): the exports admitted and this one are flawless, each adds to
those before it, changes no day before its range, and continues them. The ledger then
counts on each day exactly what the last export to cover it shows, and has selected that
one (`LedgerIsLatest`); so nothing is dropped (`NothingDropped`), and on each day up to
one both cover the export adds what its books hold more (`AddsTheDifference`): before
its range the books are the same, within it the day was last covered by the selected
export, or by an earlier one and lies before the selected one's range, where nothing
changed; which needs that ranges reach ever further and leave no day out (`RangesJoin`).
The differences add up (`NothingDisagrees`). Both facts about the ledger are kept only as
long as nothing excuses a quarantine, which is all they are needed for; once something
does, it stays so, since what excuses an export excuses every later one. That ranges
continue cannot be dropped: `silver_backfill`. The assumption (`AmountsAssumption`) is
that the bookings are finitely many, that amounts are integers and that None is none.

**`CompleteMonthsAddUp`** is about what Gold can see: the balances the kept rows state.
Selected and counted exports are admitted ones, whose rows are rows of the books they were
made of, each with that book's balance or none (`SelectedAreTaken`, `AcceptedShowBooks`,
in an invariant of their own, `SourcesInv`). Joined day after day, what is kept is in
order (`OrderIs`, `DayJoins`, `HistoryIs`). A complete month is not the first, has all its
days in counted exports, and no broken link among its transactions or across the gaps on
either side, so each one from the last before the month follows from the one before
(`CompleteIs`, `MonthLies`, `LinkHolds`); such differences add up (`Telescope`,
`LinksAddUp`), which gives opening, closing and each balance check. From one complete
month to the next the links join, to the last transaction kept, which needs that a
transaction's month is managed (`MonthIsManaged`, the premise that the build is not
refused for the closing day). That the last balance is the bank's then needs that the last
day's file is whole (`LastStates`, `DayIsKept`). Missing balances, rows missing elsewhere,
misnamed rows and ranges that reach back are allowed: they make a month incomplete or a
check a break, not a complete month wrong.

**Model-checked only.** Every safety invariant and every action property of a passing run
is proved, for every value of the constants that meets the named assumptions. The three
liveness properties stay with TLC: the prover has no reasoning about fairness.
`NeverOverwrites`, `BuildTypeOK` and `DevTypeOK` are the other way round, proved and in no
run.

## 5. What is left

1. The staging folder of a backup and a set cut off while it is staged.
2. The preview of an inbox, as a step before `ImportRuns`' commands.

## 6. Not modelled, and why

Source parsers, household inputs and profile configuration, analytics measures,
display, status, summaries and logs are functions from text or records to text or
records with unit and golden tests: the models take their results as values. The
demo profile is built once, from fixed records. The dashboard's login is a counter
with a clock and a signed expiry, each a few lines. The preview of an inbox and
the cross-account duplicates it finds only refuse. Of the Gold build, fee
transfers and splits (allocations), the fingerprint of a classification,
`late_bookings_settled` and the difference of two publications are left out: each
is a selection over one result.

In the backup and restore models: an unreadable `recovery-sets.json`, what an
interrupted backup leaves in the staging folder, the manifest's checksums (a set is
intact or not), `require_supported_stores`, a marker lost with the machine, and a
rename whose folder cannot be synced afterwards, which is reported as nothing
published though the set stands. Silver is a later stage like Gold, so two stages
stand for three. In `DevRefresh`, refusals before the first effect are not steps
and what is copied before the swap is not state.

SQLite's own atomicity, `fsync` and `os.replace` are taken at their word: a
transaction, a copy written by `_write_durably` and an unlink happen or do not. The
writer lock's exclusion is the operating system's, and assumed.
