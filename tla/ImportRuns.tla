----------------------------- MODULE ImportRuns -----------------------------
(***************************************************************************)
(* One profile's export inbox, Bronze's import runs, the export archive     *)
(* and the import log imports.jsonl, as `budget import` moves exports       *)
(* between them (budget/importing.py, budget/bronze/store.py), and the       *)
(* decisions that void an import run or withdraw a void                     *)
(* (budget/deciding.py).                                                     *)
(*                                                                         *)
(* One import holds the profile's writer lock, so at most one import is     *)
(* under way; `step` says where it is.  Each step is the code between two   *)
(* effects on disk: a crash or an I/O error may stop the import between any *)
(* two of them, and outside programs may save over or remove inbox files,   *)
(* or touch the archive, at any time.                                       *)
(*                                                                         *)
(* A run is named by its rank in Bronze's order, ORDER BY started_at,       *)
(* import_run_id, so "the oldest" is the least number.  A payload stands    *)
(* for a file's bytes and for their hash.                                   *)
(***************************************************************************)
EXTENDS Integers, Sequences, FiniteSetsExt

CONSTANTS
  Accounts,        \* the accounts of accounts.toml
  Names,           \* file names
  FolderNames,     \* the names the archive gives its own folders
  Payloads,        \* the bytes a file may hold
  Files,           \* the inbox: pairs of an account's folder and a file name
  RunIds,          \* the ranks import runs may take
  None,            \* no run, no bytes, no file, no place
  Foreign,         \* bytes no run presented
  ClockStepsBack,  \* whether the wall clock may be set back between runs
  MaxCrashes,      \* bound on imports stopped half way
  MaxSaves,        \* bound on files saved into the inbox or taken out of it
  Touchable,       \* the places of the archive outside hands may reach
  MaxOutside,      \* bound on outside changes to the export archive
  MaxRestores      \* bound on restores of the log from a backup set

ASSUME NamesAssumption == FolderNames \subseteq Names
ASSUME FilesAssumption == Files \subseteq Accounts \X Names
ASSUME RunIdsAssumption == RunIds \subseteq Nat /\ IsFiniteSet(RunIds)
ASSUME BoundsAssumption ==
  /\ ClockStepsBack \in BOOLEAN
  /\ {MaxCrashes, MaxSaves, MaxOutside, MaxRestores} \subseteq Nat

VARIABLES
  runs,     \* Bronze: the import run of each rank, or None
  voided,   \* the runs a void-import-run decision in force voids
  archive,  \* what stands at each place of the export archive
  log,      \* the complete entries of imports.jsonl
  cut,      \* its final line without a line feed, as far as it goes
  inbox,    \* what each inbox file holds
  step,     \* where the import under way is
  file,     \* the inbox file it imports
  run,      \* the run it found or recorded for that file
  place,    \* where the run it is about to log is archived
  savedOver,  \* whether the file it is about to remove changed since it read it
  result,   \* whether the last command was an import that ended well
  spent     \* how much of each bound is used

bronze == <<runs, voided>>
disk == <<archive, log, cut, inbox>>
command == <<step, file, run, place, savedOver>>
vars == <<runs, voided, archive, log, cut, inbox, step, file, run, place,
          savedOver, result, spent>>

-----------------------------------------------------------------------------
Outcomes == {"stored", "repeat", "refused"}
Accepted == {"stored", "repeat"}

Runs == [account: Accounts, name: Names, payload: Payloads,
         outcome: Outcomes, repeatOf: RunIds \cup {None}]

\* A place of the archive: in the account's folder, in the folder named by
\* the bytes' hash, or in that folder under refused/.
Places ==
  [account: Accounts, under: {"account"}, hash: {None}, name: Names]
    \cup [account: Accounts, under: {"hash", "refused"}, hash: Payloads, name: Names]

ASSUME NoneAssumption ==
  /\ None \notin Payloads /\ None \notin Files /\ None \notin RunIds
  /\ None \notin Runs /\ None \notin Places
  /\ Foreign \notin Payloads /\ Foreign # None

PlaceIn(r, under, hash) ==
  [account |-> r.account, under |-> under, hash |-> hash, name |-> r.name]

\* Mutant: an export whose name is taken has no second place to go.
CandidatesWithoutHash(r) ==
  IF r.outcome = "refused" THEN <<PlaceIn(r, "refused", r.payload)>>
  ELSE IF r.name \in FolderNames THEN <<PlaceIn(r, "hash", r.payload)>>
  ELSE <<PlaceIn(r, "account", None)>>

\* archive_candidates
Candidates(r) ==
  IF r.outcome = "refused" THEN <<PlaceIn(r, "refused", r.payload)>>
  ELSE IF r.name \in FolderNames THEN <<PlaceIn(r, "hash", r.payload)>>
  ELSE <<PlaceIn(r, "account", None), PlaceIn(r, "hash", r.payload)>>

\* How far a cut-off line goes: before the run it names, past the run but
\* before the archive path, or past both.
Cuts == [run: RunIds \cup {None}, place: Places \cup {None}]

\* Mutant: only a line that already names its run is completed.
BeginsPastRun(c, entry) == c.run = entry.run /\ c.place \in {None, entry.place}

Begins(c, entry) == c.run \in {None, entry.run} /\ c.place \in {None, entry.place}

Prefixes(entry) ==
  {[run |-> None, place |-> None], [run |-> entry.run, place |-> None], entry}

-----------------------------------------------------------------------------
Recorded == {r \in RunIds : runs[r] # None}

Entries == {log[i] : i \in DOMAIN log}

Logged == {e.run : e \in Entries}

Unlogged == Recorded \ Logged

Oldest(S) == Min(S)

\* The stored runs of a payload that are in force.
InForce(p) == {r \in Recorded \ voided : runs[r].outcome = "stored" /\ runs[r].payload = p}

\* Mutant: places are not reserved by the entries that name them.
OpenUnreserved(r) == DOMAIN Candidates(r)

\* The candidates no entry reserves for other bytes, by their index.
Open(r) ==
  {i \in DOMAIN Candidates(r) :
     \A e \in Entries : e.place = Candidates(r)[i] => runs[e.run].payload = r.payload}

Holding(r) == {i \in Open(r) : archive[Candidates(r)[i]] = r.payload}

Free(r) == {i \in Open(r) : archive[Candidates(r)[i]] = None}

\* Whether _archived_at finds a place; otherwise it raises ArchiveConflictError.
HasPlace(r) == Holding(r) \cup Free(r) # {}

\* _archived_at: the first candidate that holds the bytes, else the first free.
ArchivedAt(r) ==
  Candidates(r)[Oldest(IF Holding(r) # {} THEN Holding(r) ELSE Free(r))]

\* What _logged_archive_path demands of each entry: it restates a recorded
\* run at one of the places its bytes may be archived, and each run once.
LogAgrees ==
  /\ \A e \in Entries :
       e.run \in Recorded /\ \E i \in DOMAIN Candidates(runs[e.run]) :
                                  e.place = Candidates(runs[e.run])[i]
  /\ \A i, j \in DOMAIN log : log[i].run = log[j].run => i = j

\* Mutant: logged runs may complete a cut-off line too.
ProvingLogged ==
  {e \in {[run |-> r, place |-> ArchivedAt(runs[r])] :
             r \in {u \in Recorded : Holding(runs[u]) # {}}} : Begins(cut, e)}

\* _proving_entry: the entries of unlogged, already archived runs that the
\* cut-off line begins.  The oldest such run's is the one to complete.
Proving ==
  {e \in {[run |-> r, place |-> ArchivedAt(runs[r])] :
             r \in {u \in Unlogged : Holding(runs[u]) # {}}} : Begins(cut, e)}

\* Mutant: any run the line begins completes it, whichever is the oldest.
ProvesAny(e) == TRUE

Proves(e) == \A d \in Proving : e.run <= d.run

\* The retry identity: account, name and bytes of an accepted, unvoided run.
EarlierRuns(f, p) ==
  {r \in Recorded \ voided :
     /\ <<runs[r].account, runs[r].name>> = f
     /\ runs[r].payload = p
     /\ runs[r].outcome \in Accepted}

\* Mutant: only the account's own stores stand against a withdrawal.
StoredSinceHere(r, still) ==
  {s \in Recorded \ (still \cup {r}) :
     /\ runs[s].outcome = "stored" /\ runs[s].payload = runs[r].payload
     /\ runs[s].account = runs[r].account}

\* _stored_since: the runs in force that store r's export, once the voids of
\* the runs in `still` are all that is left.
StoredSince(r, still) ==
  {s \in Recorded \ (still \cup {r}) :
     runs[s].outcome = "stored" /\ runs[s].payload = runs[r].payload}

\* _decide_outcome: a refusal first, then a repeat of the oldest run in force
\* here, then a store; bytes in force for another account are refused.
Decide(f, p, declarationRefused) ==
  LET here == {r \in InForce(p) : runs[r].account = f[1]}
      conflict == here = {} /\ InForce(p) # {}
      outcome == IF declarationRefused \/ conflict THEN "refused"
                 ELSE IF here # {} THEN "repeat" ELSE "stored"
  IN [account |-> f[1], name |-> f[2], payload |-> p, outcome |-> outcome,
      repeatOf |-> IF outcome = "repeat" THEN Oldest(here) ELSE None]

\* A run's rank: past every recorded run, unless the clock stepped back.
FreshIds ==
  {r \in RunIds \ Recorded : ClockStepsBack \/ \A s \in Recorded : s < r}

-----------------------------------------------------------------------------
Init ==
  /\ runs = [r \in RunIds |-> None]
  /\ voided = {}
  /\ archive = [p \in Places |-> None]
  /\ log = << >>
  /\ cut = None
  /\ inbox = [f \in Files |-> None]
  /\ step = "idle"
  /\ file = None /\ run = None /\ place = None /\ savedOver = FALSE
  /\ result = "none"
  /\ spent = [crashes |-> 0, saves |-> 0, outside |-> 0, restores |-> 0]

Spend(what, bound) ==
  /\ spent[what] < bound
  /\ spent' = [spent EXCEPT ![what] = @ + 1]

Goto(s) == step' = s

\* The import ends: it lets go of the writer lock.
End(how) ==
  /\ step' = "idle"
  /\ file' = None /\ run' = None /\ place' = None /\ savedOver' = FALSE
  /\ result' = how

-----------------------------------------------------------------------------
(* The import, one step at a time.                                          *)

\* import_inbox_file takes one file of the inbox.
Begin(f) ==
  /\ step = "idle"
  /\ inbox[f] # None
  /\ step' = "recover"
  /\ file' = f
  /\ result' = "none"
  /\ UNCHANGED <<bronze, disk, run, place, savedOver, spent>>

\* `budget import` of an empty inbox: there is no file to import, and nothing
\* else touches the log.
ImportNothing ==
  /\ step = "idle"
  /\ \A f \in Files : inbox[f] = None
  /\ result' = "imported"
  /\ UNCHANGED <<bronze, disk, command, spent>>

\* _recover_log: a log of whole entries is taken as it is.
Recover ==
  /\ step = "recover"
  /\ LogAgrees /\ cut = None
  /\ Goto("catchUp")
  /\ UNCHANGED <<bronze, disk, file, run, place, savedOver, result, spent>>

\* _recover_log: the cut-off line is completed from the run that proves it.
CompleteLine ==
  /\ step = "recover"
  /\ LogAgrees /\ cut # None
  /\ \E e \in Proving : Proves(e) /\ log' = Append(log, e)
  /\ cut' = None
  /\ Goto("catchUp")
  /\ UNCHANGED <<bronze, archive, inbox, file, run, place, savedOver, result, spent>>

\* ImportLogDamagedError: no run proves the cut-off line, or an entry does not
\* restate its run.
LogDamaged ==
  /\ step = "recover"
  /\ ~LogAgrees \/ (cut # None /\ Proving = {})
  /\ End("none")
  /\ UNCHANGED <<bronze, disk, spent>>

\* Mutant: the place is chosen and logged, and the copy is never written.
WriteNoCopy(r) ==
  /\ HasPlace(runs[r])
  /\ archive' = archive
  /\ place' = ArchivedAt(runs[r])

\* _archive writes the copy whole, unless the place holds the bytes already.
WriteCopy(r) ==
  /\ HasPlace(runs[r])
  /\ archive' = [archive EXCEPT ![ArchivedAt(runs[r])] = runs[r].payload]
  /\ place' = ArchivedAt(runs[r])

\* _bring_log_up_to_date archives the oldest run the log lacks.
ArchiveOldest ==
  /\ step = "catchUp"
  /\ Unlogged # {}
  /\ WriteCopy(Oldest(Unlogged))
  /\ Goto("log")
  /\ UNCHANGED <<bronze, log, cut, inbox, file, run, savedOver, result, spent>>

\* _bring_log_up_to_date logs the run it has just archived.
LogOldest ==
  /\ step = "log"
  /\ log' = Append(log, [run |-> Oldest(Unlogged), place |-> place])
  /\ place' = None
  /\ Goto("catchUp")
  /\ UNCHANGED <<bronze, archive, cut, inbox, file, run, savedOver, result, spent>>

\* Mutant: an import that found no run yet goes on to clear its file.
ClearAtOnce ==
  /\ step = "catchUp"
  /\ Unlogged = {}
  /\ Goto("clear")
  /\ UNCHANGED <<bronze, disk, file, run, place, savedOver, result, spent>>

\* The log holds every run: the import goes on with its own file, or, when it
\* recorded that file's run already, clears the file from the inbox.
CaughtUp ==
  /\ step = "catchUp"
  /\ Unlogged = {}
  /\ Goto(IF run = None THEN "find" ELSE "clear")
  /\ UNCHANGED <<bronze, disk, file, run, place, savedOver, result, spent>>

\* _earlier_run finds the run an interrupted import of this file left behind.
\* A logged run's copy is where its entry says; one not logged is archived now.
FindEarlier ==
  /\ step = "find"
  /\ inbox[file] # None
  /\ EarlierRuns(file, inbox[file]) # {}
  /\ run' = Oldest(EarlierRuns(file, inbox[file]))
  /\ Goto(IF run' \in Logged THEN "keep" ELSE "archive")
  /\ UNCHANGED <<bronze, disk, file, place, savedOver, result, spent>>

FindNone ==
  /\ step = "find"
  /\ inbox[file] # None
  /\ EarlierRuns(file, inbox[file]) = {}
  /\ Goto("record")
  /\ UNCHANGED <<bronze, disk, file, run, place, savedOver, result, spent>>

\* BronzeStore.import_file reads the file again and commits its run.  The
\* declaration is refused when its range disagrees with the export.
Record ==
  /\ step = "record"
  /\ inbox[file] # None
  /\ \E r \in FreshIds, declarationRefused \in BOOLEAN :
       /\ runs' = [runs EXCEPT ![r] = Decide(file, inbox[file], declarationRefused)]
       /\ run' = r
  /\ Goto("archive")
  /\ UNCHANGED <<voided, disk, file, place, savedOver, result, spent>>

\* The file is gone, or import_file raises before it writes: the export date
\* is missing.  (Also the end of an import when every rank is taken.)
ReadFails ==
  /\ \/ step = "find" /\ inbox[file] = None
     \/ step = "record"
  /\ End("none")
  /\ UNCHANGED <<bronze, disk, spent>>

\* import_inbox_file archives the run it recorded, before it logs it.
ArchiveOwn ==
  /\ step = "archive"
  /\ HasPlace(runs[run])
  /\ archive' = [archive EXCEPT ![ArchivedAt(runs[run])] = runs[run].payload]
  /\ Goto("catchUp")
  /\ UNCHANGED <<bronze, log, cut, inbox, file, run, place, savedOver, result, spent>>

\* ArchiveConflictError: every place of the run's export is taken.
ArchiveConflict ==
  /\ \/ step = "catchUp" /\ Unlogged # {} /\ ~HasPlace(runs[Oldest(Unlogged)])
     \/ step = "archive" /\ ~HasPlace(runs[run])
  /\ End("none")
  /\ UNCHANGED <<bronze, disk, spent>>

EntryOf(r) == CHOOSE e \in Entries : e.run = r

\* Mutant: a retry ends once the copy is there, and leaves the file behind.
KeepAndEnd ==
  /\ step = "keep"
  /\ archive[EntryOf(run).place] \in {None, runs[run].payload}
  /\ archive' = [archive EXCEPT ![EntryOf(run).place] = runs[run].payload]
  /\ End("imported")
  /\ UNCHANGED <<bronze, log, cut, inbox, spent>>

\* _keep_archived: a copy that went missing is written where the entry says.
KeepArchived ==
  /\ step = "keep"
  /\ archive[EntryOf(run).place] \in {None, runs[run].payload}
  /\ archive' = [archive EXCEPT ![EntryOf(run).place] = runs[run].payload]
  /\ Goto("clear")
  /\ UNCHANGED <<bronze, log, cut, inbox, file, run, place, savedOver, result, spent>>

\* ArchivedCopyReplacedError
CopyReplaced ==
  /\ step = "keep"
  /\ archive[EntryOf(run).place] \notin {None, runs[run].payload}
  /\ End("none")
  /\ UNCHANGED <<bronze, disk, spent>>

\* _clear_from_inbox reads the file: a refused file, a file saved over and a
\* file already gone are left as they are.
LeaveInInbox ==
  /\ step = "clear"
  /\ runs[run].outcome = "refused" \/ inbox[file] # runs[run].payload
  /\ End("imported")
  /\ UNCHANGED <<bronze, disk, spent>>

\* Mutant: an accepted export is cleared without comparing its bytes again.
ClearUnread ==
  /\ step = "clear"
  /\ runs[run].outcome # "refused" /\ inbox[file] # None
  /\ Goto("unlink")
  /\ UNCHANGED <<bronze, disk, file, run, place, savedOver, result, spent>>

ClearChecked ==
  /\ step = "clear"
  /\ runs[run].outcome # "refused" /\ inbox[file] = runs[run].payload
  /\ Goto("unlink")
  /\ UNCHANGED <<bronze, disk, file, run, place, savedOver, result, spent>>

\* source.unlink(), which removes whatever the file holds by then.
Unlink ==
  /\ step = "unlink"
  /\ inbox' = [inbox EXCEPT ![file] = None]
  /\ End("imported")
  /\ UNCHANGED <<bronze, archive, log, cut, spent>>

\* PermissionError: another program holds the file, and it stays.
UnlinkDenied ==
  /\ step = "unlink"
  /\ End("imported")
  /\ UNCHANGED <<bronze, disk, spent>>

-----------------------------------------------------------------------------
(* What may stop an import, and what happens around it.                     *)

\* A crash or an I/O error between two effects.  No transaction, no archived
\* copy and no unlink is left half done.
Crash ==
  /\ step # "idle"
  /\ Spend("crashes", MaxCrashes)
  /\ End("none")
  /\ UNCHANGED <<bronze, disk>>

\* A crash during _append_to_log leaves the beginning of the entry.
CrashAppending ==
  /\ step = "log"
  /\ Spend("crashes", MaxCrashes)
  /\ cut' \in Prefixes([run |-> Oldest(Unlogged), place |-> place])
  /\ End("none")
  /\ UNCHANGED <<bronze, archive, log, inbox>>

\* So does a crash while _recover_log appends the rest of a cut-off line.
CrashCompleting ==
  /\ step = "recover"
  /\ LogAgrees /\ cut # None
  /\ Spend("crashes", MaxCrashes)
  /\ \E e \in Proving :
       Proves(e) /\ cut' \in {c \in Prefixes(e) : Begins(cut, c)}
  /\ End("none")
  /\ UNCHANGED <<bronze, archive, log, inbox>>

\* The import does not see that the file it has just read changes under it.
Touched(f) ==
  /\ savedOver' = (savedOver \/ (step = "unlink" /\ file = f))
  /\ UNCHANGED <<step, file, run, place>>

\* The household saves an export into the inbox, over what was there.
Save(f, p) ==
  /\ inbox[f] # p
  /\ Spend("saves", MaxSaves)
  /\ inbox' = [inbox EXCEPT ![f] = p]
  /\ Touched(f)
  /\ UNCHANGED <<bronze, archive, log, cut, result>>

\* The household takes a file out of the inbox.
RemoveInbox(f) ==
  /\ inbox[f] # None
  /\ Spend("saves", MaxSaves)
  /\ inbox' = [inbox EXCEPT ![f] = None]
  /\ Touched(f)
  /\ UNCHANGED <<bronze, archive, log, cut, result>>

\* Something removes an archived copy, or leaves other bytes in its place.
TouchArchive(p, bytes) ==
  /\ p \in Touchable
  /\ archive[p] # bytes
  /\ Spend("outside", MaxOutside)
  /\ archive' = [archive EXCEPT ![p] = bytes]
  /\ UNCHANGED <<bronze, log, cut, inbox, command, result>>

\* The household restores the log alone from a backup set: an earlier log.
RestoreLog ==
  /\ step = "idle"
  /\ Spend("restores", MaxRestores)
  /\ \E n \in 0 .. Len(log) : log' = SubSeq(log, 1, n)
  /\ cut' = None
  /\ result' = "none"
  /\ UNCHANGED <<bronze, archive, inbox, command>>

-----------------------------------------------------------------------------
(* `budget decide`, which takes the same writer lock.                       *)

\* A void-import-run decision of a run Bronze holds.
Void(r) ==
  /\ step = "idle"
  /\ r \in Recorded \ voided
  /\ voided' = voided \cup {r}
  /\ UNCHANGED <<runs, disk, command, result, spent>>

\* A decision that withdraws the voids of S is rejected when the export of any
\* of them is stored by another run in force (_restored_void_problems).
Withdraw(S) ==
  /\ step = "idle"
  /\ S # {} /\ S \subseteq voided
  /\ \A r \in S : StoredSince(r, voided \ S) = {}
  /\ voided' = voided \ S
  /\ UNCHANGED <<runs, disk, command, result, spent>>

-----------------------------------------------------------------------------
Import ==
  \/ Recover \/ CompleteLine \/ LogDamaged
  \/ ArchiveOldest \/ LogOldest \/ CaughtUp
  \/ FindEarlier \/ FindNone \/ Record \/ ReadFails
  \/ ArchiveOwn \/ ArchiveConflict
  \/ KeepArchived \/ CopyReplaced
  \/ LeaveInInbox \/ ClearChecked \/ Unlink \/ UnlinkDenied

Environment ==
  \/ Crash \/ CrashAppending \/ CrashCompleting
  \/ \E f \in Files : RemoveInbox(f) \/ \E p \in Payloads : Save(f, p)
  \/ \E p \in Places, bytes \in {None, Foreign} : TouchArchive(p, bytes)
  \/ RestoreLog

Decisions ==
  \/ \E r \in RunIds : Void(r)
  \/ \E S \in SUBSET voided : Withdraw(S)

Next ==
  \/ \E f \in Files : Begin(f)
  \/ ImportNothing
  \/ Import
  \/ Environment
  \/ Decisions

Spec == Init /\ [][Next]_vars

\* An import under way goes on until it ends.  The household runs `budget
\* import` again while files are left, and each run takes every file; a
\* program that holds a file lets go of it in the end.
Fairness ==
  /\ WF_vars(Import)
  /\ \A f \in Files : SF_vars(Begin(f))
  /\ SF_vars(Unlink)

FairSpec == Spec /\ Fairness

-----------------------------------------------------------------------------
(* What the import promises.                                                *)

\* Every variable stays within its type, and an import under way has a file,
\* and a run once it found or recorded one.
TypeOK ==
  /\ runs \in [RunIds -> Runs \cup {None}]
  /\ voided \subseteq Recorded
  /\ archive \in [Places -> Payloads \cup {None, Foreign}]
  /\ log \in Seq([run: RunIds, place: Places])
  /\ cut \in Cuts \cup {None}
  /\ inbox \in [Files -> Payloads \cup {None}]
  /\ step \in {"idle", "recover", "catchUp", "log", "find", "keep", "record",
               "archive", "clear", "unlink"}
  /\ file \in Files \cup {None} /\ (step # "idle" => file \in Files)
  /\ run \in Recorded \cup {None}
  /\ step \in {"keep", "archive", "clear", "unlink"} => run \in Recorded
  /\ place \in Places \cup {None}
  /\ savedOver \in BOOLEAN
  /\ step = "log" => place \in Places /\ Unlogged # {}
  /\ result \in {"none", "imported"}
  /\ spent \in [{"crashes", "saves", "outside", "restores"} -> Nat]

\* The payload has one owner: at most one run in force stores a payload's
\* bytes, whatever was imported, voided and put in force again in between
\* (_decide_outcome on one side, _restored_void_problems on the other).
OneOwner ==
  \A p \in Payloads : \A r, s \in InForce(p) : r = s

\* Two runs whose entries name the same place of the archive have the same
\* bytes: a place an entry names is reserved, even while its copy is missing.
OnePayloadPerPlace ==
  \A d, e \in Entries : d.place = e.place => runs[d.run].payload = runs[e.run].payload

\* The log always restates Bronze, so no import refuses it: each entry is the
\* only one of a recorded run, at a place that run may be archived.
LogRestatesBronze == LogAgrees

\* A replay of the log can restore each repeat: the run it repeats is logged
\* before it (_check_repeat_link in replaying.py).  Whatever the clock does, as
\* long as the log was never put back; and after that for every repeat Bronze
\* orders after its original, as it does unless the clock went back between
\* the two.
LogReplayable ==
  spent.outside = 0 => \A i \in DOMAIN log :
    LET original == runs[log[i].run].repeatOf
    IN original # None /\ (spent.restores = 0 \/ original < log[i].run)
         => \E j \in 1 .. i - 1 : log[j].run = original

\* What the log names is in the archive, where the entry says, unless
\* something outside the program touched the archive: a replay finds it.
LoggedIsArchived ==
  spent.outside = 0 => \A e \in Entries : archive[e.place] = runs[e.run].payload

\* Neither crashes, nor files saved over, nor a restored log bring about a
\* state every later import refuses: only outside hands on the archive do.
CrashesNeverBlock ==
  [][spent.outside = 0 => ~(LogDamaged \/ ArchiveConflict \/ CopyReplaced)]_vars

\* The program never overwrites or removes archived bytes, its own or others'.
NeverOverwrites ==
  [][\A p \in Places :
       archive[p] \notin {None, archive'[p]} => spent'.outside # spent.outside]_vars

\* The bytes are logged as an accepted run of the file, and archived where
\* the entry says, unless outside hands took the copy.
Kept(f, bytes) ==
  \E e \in Entries :
    /\ <<runs[e.run].account, runs[e.run].name, runs[e.run].payload>> = <<f[1], f[2], bytes>>
    /\ runs[e.run].outcome \in Accepted
    /\ spent.outside = 0 => archive[e.place] = bytes

\* The file leaves the inbox in this step, and not by the household's hand.
Removes(f) == inbox'[f] # inbox[f] /\ spent'.saves = spent.saves

\* The program removes only bytes it keeps.  The one exception is a file saved
\* over after the import compared it with its run and before it unlinks it:
\* then only the bytes it compared are kept.
ClearedOnlyWhenKept ==
  [][\A f \in Files : Removes(f) =>
       \/ Kept(f, inbox[f])
       \/ savedOver /\ file = f /\ Kept(f, runs[run].payload)]_vars

\* Reruns finish what a crash interrupted: a run Bronze holds is logged in
\* the end, unless the household empties the inbox first.
EveryRunIsLogged ==
  Unlogged # {} ~> (Unlogged = {} \/ \A f \in Files : inbox[f] = None)

\* A file with an accepted run in force leaves the inbox in the end, or is
\* saved over, or its run is voided first.
AcceptedLeavesInbox ==
  \A f \in Files : \A p \in Payloads :
    (inbox[f] = p /\ EarlierRuns(f, p) # {})
      ~> (inbox[f] # p \/ EarlierRuns(f, p) = {})

-----------------------------------------------------------------------------
(* What the documentation promises and the code does not keep.              *)

\* "Once a run is archived and logged, its file leaves the inbox, provided the
\* file still holds the bytes that were imported.  A file saved over in the
\* meantime stays": unlink follows the comparison as a step of its own.
SavedOverStays == [][\A f \in Files : Removes(f) => Kept(f, inbox[f])]_vars

\* "Any other run Bronze holds but the log lacks is archived and logged by the
\* next import": an import of an empty inbox leaves the log as it is.
EveryImportLogsEveryRun ==
  step = "idle" /\ result = "imported" => Unlogged = {} /\ cut = None
=============================================================================
