------------------------------ MODULE Recovery ------------------------------
(***************************************************************************)
(* The commands that write backup sets or need one: `backup`, `import` and *)
(* `decide` as far as the sets see them, `migrate` with a set before and   *)
(* one after (src/budget/migration.py, sqlstore.py), and `restore`, which  *)
(* puts a profile back from a set and replays what the import log lists    *)
(* beyond it (src/budget/restoring.py, replaying.py).                      *)
(*                                                                         *)
(* One command runs at a time, under the writer lock, in steps; it may be  *)
(* cut off before each.  Between commands stores and logs may be lost, a   *)
(* set damaged and other code installed.                                   *)
(***************************************************************************)
EXTENDS BackupSets

CONSTANTS
  MaxCuts,    \* bound on commands cut off, failed or refused half-way
  MaxLosses,  \* bound on losses of stores or of a log, and on damage to sets
  MaxCodes    \* bound on installations of other code

ASSUME CutsAssumption == {MaxCuts, MaxLosses, MaxCodes} \subseteq Nat

VARIABLES
  marker,    \* restore-in-progress.json: the set and the inputs put back, or Absent
  command,   \* the command under way and what it remembers
  made,      \* how many runs and decisions there have been, so ids are fresh
  spent,     \* how much of each bound is used
  owed,      \* (for the properties) what a complete set must give back
  guarded,   \* (for the properties) sets taken for migrations that have not succeeded
  recorded,  \* (for the properties) each log's entries, but those reported lost
  forgotten  \* (for the properties) logs whose loss no restore can report any more

vars == <<latest, stores, bronze, logs, sets, kept, held, marker, command, made,
          spent, owed, guarded, recorded, forgotten>>

-----------------------------------------------------------------------------

\* The stages a migration was asked for, the one it has come to, the set it
\* took first and whether it has changed a store; the set a restore puts
\* back, the inputs it put back, and whether the log lists runs beyond the set.
Idle ==
  [name |-> "none", step |-> "none", stages |-> {}, at |-> 1, taken |-> 0,
   changed |-> FALSE, chosen |-> 0, putBack |-> {}, ahead |-> FALSE]

Commands ==
  [name : {"none", "backup", "import", "decide", "migrate", "restore"},
   step : {"none", "store", "log", "record", "migrate", "write", "retire", "hold",
           "release", "clear", "unmark", "place", "inputs", "stores", "replay",
           "build", "finish"},
   stages : SUBSET StageSet, at : 1 .. Len(Stages) + 1, taken : 0 .. MaxSets,
   changed : BOOLEAN, chosen : 0 .. MaxSets, putBack : SUBSET Logs, ahead : BOOLEAN]

At(name, step) == command.name = name /\ command.step = step

Goto(step) == command' = [command EXCEPT !.step = step]

Stop == command' = Idle

\* A restore's marker is gone, its set is not yet written; what it put back is
\* only in memory until it ends.
Unreported == command.name = "restore" /\ command.step \in {"write", "retire"}

\* A command that ends says what it did: a restore names the logs it put back,
\* where what the copy lacks is lost.
Report ==
  IF command.name = "restore"
  THEN /\ recorded' = [l \in Logs |-> IF l \in command.putBack \cup forgotten
                                      THEN recorded[l] \cap EntriesOf(logs[l])
                                      ELSE recorded[l]]
       /\ forgotten' = {}
  ELSE UNCHANGED <<recorded, forgotten>>

May(bound, most) ==
  /\ spent[bound] < most
  /\ spent' = [spent EXCEPT ![bound] = @ + 1]

\* A store as it is, and the stores a set gives back.
AsItIs(stage) == <<stage, stores[stage], IF stage = Bronze THEN bronze ELSE {}>>

GivenBy(i) ==
  {<<s, sets[i].versions[s], IF s = Bronze THEN sets[i].runs ELSE {}>> :
     s \in DOMAIN sets[i].versions}

\* The type invariant; and a set an unfinished migration needs is named as held.
TypeOK ==
  /\ latest \in [StageSet -> 1 .. MaxVersion]
  /\ stores \in [StageSet -> 0 .. MaxVersion]
  /\ bronze \subseteq Runs /\ (Bronze \notin Started => bronze = {})
  /\ logs \in LogCopies
  /\ sets \in Seq(BackupSet) /\ Len(sets) <= MaxSets
  /\ kept \subseteq 1 .. Len(sets) /\ held \subseteq 1 .. Len(sets)
  /\ marker = Absent \/ marker \in [set : 1 .. Len(sets), putBack : SUBSET Logs]
  /\ command \in Commands
  /\ made \in [Logs -> 0 .. MaxEntries]
  /\ guarded \subseteq held
  /\ recorded \in [Logs -> SUBSET Runs] /\ forgotten \subseteq Logs

\* A profile not long in use, with a set of it: it has a store of every stage,
\* or was started before some stage had one.
Init ==
  /\ \E version \in 1 .. MaxVersion : latest = [s \in StageSet |-> version]
  /\ \E later \in SUBSET (StageSet \ {Bronze}) :
       stores = [s \in StageSet |-> IF s \in later \cup {Bronze} THEN latest[s] ELSE 0]
  /\ bronze = {}
  /\ logs = [l \in Logs |-> Absent]
  /\ sets = <<SetTaken(0)>>
  /\ kept = {1}
  /\ held = {}
  /\ marker = Absent
  /\ command = Idle
  /\ made = [l \in Logs |-> 0]
  /\ spent = [cuts |-> 0, losses |-> 0, codes |-> 0]
  /\ owed = {AsItIs(s) : s \in Started}
  /\ guarded = {}
  /\ recorded = [l \in Logs |-> {}]
  /\ forgotten = {}

-----------------------------------------------------------------------------
(* Commands that write a set last.                                          *)

\* Every command but restore refuses an unfinished restore.
Ready == command = Idle /\ marker = Absent

Current == \A s \in StageSet : stores[s] = latest[s]

\* The entries of a log the profile still has.
Present(log) == IF log = "imports.jsonl" THEN bronze ELSE EntriesOf(logs[log])

\* The runs the import log lists; a log there is no file of lists none.
Listed == EntriesOf(logs["imports.jsonl"])

BeginBackup ==
  /\ Ready
  /\ command' = [Idle EXCEPT !.name = "backup", !.step = "write"]
  /\ UNCHANGED <<setVars, marker, made, spent, owed, guarded, recorded, forgotten>>

\* The log may list no run Bronze lacks.
BeginImport ==
  /\ Ready /\ Current
  /\ Listed \subseteq bronze
  /\ command' = [Idle EXCEPT !.name = "import", !.step = "store"]
  /\ UNCHANGED <<setVars, marker, made, spent, owed, guarded, recorded, forgotten>>

BeginDecide ==
  /\ Ready /\ Current
  /\ command' = [Idle EXCEPT !.name = "decide", !.step = "record"]
  /\ UNCHANGED <<setVars, marker, made, spent, owed, guarded, recorded, forgotten>>

New(log) ==
  /\ made[log] < MaxEntries
  /\ made' = [made EXCEPT ![log] = @ + 1]

Enter(log, entries) ==
  /\ logs' = [logs EXCEPT ![log] = EntriesOf(@) \cup entries]
  /\ recorded' = [recorded EXCEPT ![log] = @ \cup entries]

\* The log is brought up to date with Bronze before the run is stored.
StoreRun ==
  /\ At("import", "store")
  /\ New("imports.jsonl")
  /\ Enter("imports.jsonl", bronze)
  /\ bronze' = bronze \cup {made'["imports.jsonl"]}
  /\ Goto("log")
  /\ UNCHANGED <<latest, stores, sets, kept, held, marker, spent, owed, guarded, forgotten>>

LogRun ==
  /\ At("import", "log")
  /\ Enter("imports.jsonl", bronze)
  /\ Goto("write")
  /\ UNCHANGED <<latest, stores, bronze, sets, kept, held, marker, made, spent, owed,
                 guarded, forgotten>>

RecordDecision ==
  /\ At("decide", "record")
  /\ New("decisions.jsonl")
  /\ Enter("decisions.jsonl", {made'["decisions.jsonl"]})
  /\ Goto("write")
  /\ UNCHANGED <<latest, stores, bronze, sets, kept, held, marker, spent, owed,
                 guarded, forgotten>>

\* The set a migration writes first is the one it took.
Write ==
  /\ command.step = "write"
  /\ \E now \in 0 .. MaxTime : WriteSet(now)
  /\ owed' = {o \in owed : o[1] \notin Started} \cup {AsItIs(s) : s \in Started}
  /\ command' = [command EXCEPT !.step = "retire",
                   !.taken = IF command.name = "migrate" /\ @ = 0 THEN Len(sets') ELSE @]
  /\ UNCHANGED <<marker, made, spent, guarded, recorded, forgotten>>

\* What was committed stays; the command says that a set is missing.
CannotWrite ==
  /\ command.step = "write"
  /\ ~Writable
  /\ Report
  /\ Stop
  /\ UNCHANGED <<setVars, marker, made, spent, owed, guarded>>

RetireSets ==
  /\ command.step = "retire"
  /\ Retire
  /\ guarded' = StillHeld(guarded)
  /\ IF command.name # "migrate" THEN Stop
     ELSE Goto(IF command.at > Len(Stages) THEN "release" ELSE "hold")
  /\ Report
  /\ UNCHANGED <<marker, made, spent, owed>>

-----------------------------------------------------------------------------
(* Migration.                                                               *)

\* New stores are started only where none of those asked for is started and
\* no complete set holds one; none is started beside a Bronze no set can hold.
BeginMigrate ==
  /\ Ready
  /\ \E stages \in SUBSET StageSet \ {{}} :
       /\ \/ stages \subseteq Started
          \/ stages \cap Started = {} /\ \A s \in stages : ~CompleteSetHolds(s)
       /\ Bronze \in stages \/ (Bronze \in Started /\ stores[Bronze] <= latest[Bronze])
       /\ command' = [Idle EXCEPT !.name = "migrate", !.step = "migrate", !.stages = stages]
  /\ UNCHANGED <<setVars, marker, made, spent, owed, guarded, recorded, forgotten>>

Reached(stage) ==
  /\ At("migrate", "migrate")
  /\ command.at <= Len(Stages)
  /\ stage = Stages[command.at]

\* A migration of the stage is pending in a store there is.
Behind(stage) == stage \in command.stages /\ stores[stage] \in 1 .. latest[stage] - 1

\* Applied in one transaction, with the version.
Apply(stage) ==
  /\ stores' = [stores EXCEPT ![stage] = latest[stage]]
  /\ command' = [command EXCEPT !.at = @ + 1, !.changed = TRUE]
  /\ UNCHANGED <<latest, bronze, logs, sets, kept, held, marker, made, spent, guarded,
                 forgotten>>

PassOver(stage) ==
  /\ Reached(stage)
  /\ stage \notin command.stages \/ stores[stage] = latest[stage]
  /\ command' = [command EXCEPT !.at = @ + 1]
  /\ UNCHANGED <<setVars, marker, made, spent, owed, guarded, recorded, forgotten>>

TakeSetFirst(stage) ==
  /\ Reached(stage) /\ Behind(stage) /\ command.taken = 0
  /\ Goto("write")
  /\ UNCHANGED <<setVars, marker, made, spent, owed, guarded, recorded, forgotten>>

Hold ==
  /\ At("migrate", "hold")
  /\ held' = held \cup {command.taken}
  /\ guarded' = guarded \cup {command.taken}
  /\ Goto("migrate")
  /\ UNCHANGED <<latest, stores, bronze, logs, sets, kept, marker, made, spent, owed,
                 recorded, forgotten>>

Upgrade(stage) ==
  /\ Reached(stage) /\ Behind(stage) /\ command.taken # 0
  /\ Apply(stage)
  /\ owed' = {o \in owed : o[1] # stage} \cup {AsItIs(stage)}
  /\ UNCHANGED recorded

\* An empty Bronze in place of a lost one is asked for, never a repair: no
\* complete set holds one, and what was lost with it is known to be.
Start(stage) ==
  /\ Reached(stage) /\ stage \in command.stages /\ stores[stage] = 0
  /\ Apply(stage)
  /\ recorded' = IF stage = Bronze THEN [l \in Logs |-> recorded[l] \cap Present(l)]
                 ELSE recorded
  /\ UNCHANGED owed

StoreTooNew(stage) ==
  /\ Reached(stage) /\ stage \in command.stages /\ stores[stage] > latest[stage]
  /\ Stop
  /\ UNCHANGED <<setVars, marker, made, spent, owed, guarded, recorded, forgotten>>

Migrated ==
  /\ At("migrate", "migrate") /\ command.at > Len(Stages)
  /\ IF command.changed THEN Goto("write") ELSE Stop
  /\ UNCHANGED <<setVars, marker, made, spent, owed, guarded, recorded, forgotten>>

Release ==
  /\ At("migrate", "release")
  /\ held' = {}
  /\ guarded' = {}
  /\ Stop
  /\ UNCHANGED <<latest, stores, bronze, logs, sets, kept, marker, made, spent, owed,
                 recorded, forgotten>>

-----------------------------------------------------------------------------
(* Restore.                                                                 *)

Readable(i) == \A s \in DOMAIN sets[i].versions : Known(s, sets[i].versions[s])

\* The live log lists runs the set's Bronze lacks.
Ahead(i) == ~(Listed \subseteq sets[i].runs)

\* A live log that is there begins with the set's decisions, and either lists
\* nothing the set lacks or begins with the set's runs.
Agrees(i) ==
  /\ logs["decisions.jsonl"] # Absent =>
       Begins(EntriesOf(sets[i].logs["decisions.jsonl"]), logs["decisions.jsonl"])
  /\ Ahead(i) => Begins(sets[i].runs, Listed)

\* Without a name, the newest complete set this code can read.
BeginRestore ==
  /\ command = Idle
  /\ \E i \in Complete :
       /\ Readable(i) /\ Agrees(i)
       /\ command' = [Idle EXCEPT !.name = "restore", !.step = "clear", !.chosen = i,
                                  !.ahead = Ahead(i)]
  /\ UNCHANGED <<setVars, marker, made, spent, owed, guarded, recorded, forgotten>>

\* With a marker, every store there is one an unfinished restore put there.
ClearStores ==
  /\ At("restore", "clear") /\ marker # Absent
  /\ stores' = [s \in StageSet |-> 0]
  /\ bronze' = {}
  /\ Goto("unmark")
  /\ UNCHANGED <<latest, logs, sets, kept, held, marker, made, spent, owed, guarded,
                 recorded, forgotten>>

Unmark ==
  /\ At("restore", "unmark")
  /\ marker' = Absent
  /\ command' = [command EXCEPT !.step = "place", !.putBack = marker.putBack]
  /\ UNCHANGED <<setVars, made, spent, owed, guarded, recorded, forgotten>>

RequireNoStores ==
  /\ At("restore", "clear") /\ marker = Absent
  /\ IF Started = {} THEN Goto("place") ELSE Stop
  /\ UNCHANGED <<setVars, marker, made, spent, owed, guarded, recorded, forgotten>>

Set == sets[command.chosen]

Missing == {l \in Logs : logs[l] = Absent}

Lost == {l \in Missing : Set.logs[l] # Absent}

\* The stores are staged; the marker names the inputs about to be put back and
\* those an unfinished restore put back before.
Mark ==
  /\ At("restore", "place")
  /\ command' = [command EXCEPT !.step = "inputs", !.putBack = @ \cup Lost]
  /\ marker' = [set |-> command.chosen, putBack |-> command'.putBack]
  /\ forgotten' = forgotten \cup (Missing \ Lost)
  /\ UNCHANGED <<setVars, made, spent, owed, guarded, recorded>>

PutBackLog(log) ==
  /\ At("restore", "inputs") /\ log \in Lost
  /\ logs' = [logs EXCEPT ![log] = Set.logs[log]]
  /\ UNCHANGED <<latest, stores, bronze, sets, kept, held, marker, command, made, spent,
                 owed, guarded, recorded, forgotten>>

\* A plain copy, so one that is cut off leaves the beginning of the log.
TearLog(log) ==
  /\ At("restore", "inputs") /\ log \in Lost
  /\ May("cuts", MaxCuts)
  /\ \E part \in SUBSET Set.logs[log] :
       Begins(part, Set.logs[log]) /\ logs' = [logs EXCEPT ![log] = part]
  /\ Stop
  /\ UNCHANGED <<latest, stores, bronze, sets, kept, held, marker, made, owed, guarded,
                 recorded, forgotten>>

InputsPutBack ==
  /\ At("restore", "inputs") /\ Lost = {}
  /\ Goto("stores")
  /\ UNCHANGED <<setVars, marker, made, spent, owed, guarded, recorded, forgotten>>

\* Each staged store, brought to the code's version, is moved into place.
PlaceStore(stage) ==
  /\ At("restore", "stores")
  /\ stage \in DOMAIN Set.versions \ Started
  /\ stores' = [stores EXCEPT ![stage] = latest[stage]]
  /\ bronze' = IF stage = Bronze THEN Set.runs ELSE bronze
  /\ UNCHANGED <<latest, logs, sets, kept, held, marker, command, made, spent, owed,
                 guarded, recorded, forgotten>>

\* (A bug in StoresPlaced: what the log lists beyond the set is not replayed.)
StoresPlacedUnreplayed ==
  /\ At("restore", "stores") /\ DOMAIN Set.versions \subseteq Started
  /\ Goto("build")
  /\ UNCHANGED <<setVars, marker, made, spent, owed, guarded, recorded, forgotten>>

StoresPlaced ==
  /\ At("restore", "stores") /\ DOMAIN Set.versions \subseteq Started
  /\ Goto(IF command.ahead THEN "replay" ELSE "build")
  /\ UNCHANGED <<setVars, marker, made, spent, owed, guarded, recorded, forgotten>>

\* Exactly as the log has it: nothing about the run is decided again.
RestoreRun(run) == bronze' = bronze \cup {run}

\* Each run the log lists beyond the set, in its order, from its archived export.
ReplayRun ==
  /\ At("restore", "replay")
  /\ \E run \in Listed \ bronze :
       (\A other \in Listed \ bronze : run <= other) /\ RestoreRun(run)
  /\ UNCHANGED <<latest, stores, logs, sets, kept, held, marker, command, made, spent,
                 owed, guarded, recorded, forgotten>>

Replayed ==
  /\ At("restore", "replay") /\ Listed \subseteq bronze
  /\ Goto("build")
  /\ UNCHANGED <<setVars, marker, made, spent, owed, guarded, recorded, forgotten>>

\* Stages the set holds no store of start empty; then the catch-up build.
Build ==
  /\ At("restore", "build")
  /\ stores' = [s \in StageSet |-> IF s \in Started THEN stores[s] ELSE latest[s]]
  /\ Goto("finish")
  /\ UNCHANGED <<latest, bronze, logs, sets, kept, held, marker, made, spent, owed,
                 guarded, recorded, forgotten>>

\* The marker goes once all is in place; a set is written next, and the report
\* made last.
Finish ==
  /\ At("restore", "finish")
  /\ marker' = Absent
  /\ Goto("write")
  /\ UNCHANGED <<setVars, made, spent, owed, guarded, recorded, forgotten>>

-----------------------------------------------------------------------------
(* Failures.                                                                *)

\* Cut off, or a refusal that leaves things as they are: a copy that fails, a
\* migration with a defect, an export the archive lacks, inputs a build refuses.
\* Before the marker is written again, and after it is removed, what it said is
\* only in memory.
Crash ==
  /\ command # Idle
  /\ May("cuts", MaxCuts)
  /\ forgotten' = IF At("restore", "place") \/ Unreported THEN forgotten \cup command.putBack
                  ELSE forgotten
  /\ Stop
  /\ UNCHANGED <<setVars, marker, made, owed, guarded, recorded>>

\* Stores are lost, or moved out of the way.
LoseStores ==
  /\ Ready
  /\ \E gone \in SUBSET Started \ {{}} :
       /\ stores' = [s \in StageSet |-> IF s \in gone THEN 0 ELSE stores[s]]
       /\ bronze' = IF Bronze \in gone THEN {} ELSE bronze
  /\ May("losses", MaxLosses)
  /\ UNCHANGED <<latest, logs, sets, kept, held, marker, command, made, owed, guarded,
                 recorded, forgotten>>

\* A log is lost with the machine, or set aside for a restore to go on.
LoseLog(log) ==
  /\ command = Idle
  /\ Started = {} \/ marker # Absent
  /\ logs[log] # Absent
  /\ logs' = [logs EXCEPT ![log] = Absent]
  /\ May("losses", MaxLosses)
  /\ UNCHANGED <<latest, stores, bronze, sets, kept, held, marker, command, made, owed,
                 guarded, recorded, forgotten>>

Damage(i) ==
  /\ command = Idle
  /\ i \in Complete
  /\ sets' = [sets EXCEPT ![i].intact = FALSE]
  /\ owed' = {o \in owed : \E j \in Complete \ {i} : o \in GivenBy(j)}
  /\ May("losses", MaxLosses)
  /\ UNCHANGED <<latest, stores, bronze, logs, kept, held, marker, command, made, guarded,
                 recorded, forgotten>>

InstallCode ==
  /\ command = Idle
  /\ latest' \in [StageSet -> 1 .. MaxVersion]
  /\ May("codes", MaxCodes)
  /\ UNCHANGED <<stores, bronze, logs, sets, kept, held, marker, command, made, owed,
                 guarded, recorded, forgotten>>

-----------------------------------------------------------------------------

Next ==
  \/ BeginBackup \/ BeginImport \/ StoreRun \/ LogRun
  \/ BeginDecide \/ RecordDecision
  \/ Write \/ CannotWrite \/ RetireSets
  \/ BeginMigrate \/ Hold \/ Migrated \/ Release
  \/ \E s \in StageSet : PassOver(s) \/ TakeSetFirst(s) \/ Upgrade(s) \/ Start(s) \/ StoreTooNew(s)
  \/ BeginRestore \/ ClearStores \/ Unmark \/ RequireNoStores \/ Mark
  \/ \E l \in Logs : PutBackLog(l) \/ TearLog(l) \/ LoseLog(l)
  \/ InputsPutBack \/ StoresPlaced \/ ReplayRun \/ Replayed \/ Build \/ Finish
  \/ \E s \in StageSet : PlaceStore(s)
  \/ Crash \/ LoseStores \/ InstallCode
  \/ \E i \in kept : Damage(i)

Spec == Init /\ [][Next]_vars

-----------------------------------------------------------------------------

\* Some complete set gives back every store as the newest set copied it, and
\* one a migration has upgraded since as it was before, whatever is lost,
\* started anew or retired meanwhile, unless the sets themselves were damaged;
\* and the sets taken for migrations that have not succeeded are still there
\* (back_up, _require_no_lost_store, _prune, migrate_profile).
Recoverable ==
  /\ \A o \in owed : \E i \in Complete : o \in GivenBy(i)
  /\ guarded \subseteq kept

\* A profile that may be used has every run and decision ever completed in its
\* logs, except what a restore reported lost, and the logs no restore can report
\* on any more: one the set has no copy of; one put back by an attempt whose
\* marker was cleared and not written again; and one put back by a restore cut
\* off after it removed its marker, while it wrote its set, whose report was
\* never made (restore, _copy_whole, _back_up_restored).
EveryLossIsReported ==
  Ready /\ Bronze \in Started =>
    \A l \in Logs \ forgotten : recorded[l] \subseteq Present(l)

\* A restore that finishes has every run and decision ever completed in the
\* logs, or reports the log they were in as the set's copy.  ("A log neither has
\* was never written, so nothing of it is lost", restore.)
NothingLostSilently ==
  [][At("restore", "finish") /\ marker' = Absent =>
       \A l \in Logs : recorded[l] \subseteq Present(l) \/ l \in command.putBack]_vars

=============================================================================
