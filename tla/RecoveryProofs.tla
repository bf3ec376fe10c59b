--------------------------- MODULE RecoveryProofs ---------------------------
(***************************************************************************)
(* What is proved of Recovery, for every number of stages, entries, sets,  *)
(* cuts and losses: what the newest set could give back some complete set  *)
(* still can, and a profile in use lacks nothing its logs ever held but    *)
(* what was reported; and of DevRefresh, for every number of stages and    *)
(* refreshes and wherever one fails or is cut off: development is what it  *)
(* was or what the set is.                                                 *)
(***************************************************************************)
EXTENDS Recovery, DevRefresh, FiniteFacts, TLAPS, SequenceTheorems

-----------------------------------------------------------------------------
(* The invariants.                                                         *)

Writing == command.step \in {"write", "retire"}

Restoring == command.name = "restore" /\ ~ Writing

(* From the marker on, until it is removed.                                *)
Marked == command.step \in {"inputs", "stores", "replay", "build", "finish"}

(* The steps of each command and what is known there.                      *)
Control ==
  /\ command.name = "none" => command = Idle
  /\ command.name = "backup" => Writing
  /\ command.name = "import" => command.step \in {"store", "log"} \/ Writing
  /\ command.name = "decide" => command.step = "record" \/ Writing
  /\ command.name = "migrate" => command.step \in {"migrate", "hold", "release"} \/ Writing
  /\ command.name = "restore" =>
       command.step \in {"clear", "unmark", "place"} \/ Marked \/ Writing
  /\ marker # Absent => command = Idle \/ Restoring
  /\ Restoring =>
       /\ command.chosen \in 1 .. Len(sets)
       /\ command.step = "unmark" => marker # Absent
       /\ command.step = "place" => marker = Absent
       /\ command.step \in {"unmark", "place", "inputs"} => Started = {}
       /\ command.step \in {"replay", "build", "finish"} => Bronze \in Started
       /\ Marked => marker = [set |-> command.chosen, putBack |-> command.putBack]
  /\ command.name \in {"import", "decide"} => Bronze \in Started
  /\ command.name = "migrate" /\ (command.at > 1 \/ Bronze \notin command.stages) =>
       Bronze \in Started
  /\ command.name = "migrate" /\ command.step = "write" /\ command.at <= Len(Stages) =>
       command.taken = 0
  /\ command.step = "hold" \/ (command.name = "migrate" /\ command.step = "retire"
                               /\ command.at <= Len(Stages)) =>
       command.taken = Newest /\ Newest > 0

(* A set holds Bronze, and its log lists no run that is not in it.         *)
SetsSound ==
  \A i \in 1 .. Len(sets) :
    /\ Bronze \in DOMAIN sets[i].versions
    /\ EntriesOf(sets[i].logs["imports.jsonl"]) \subseteq sets[i].runs

TypeInv == TypeOK /\ Control /\ SetsSound

(* Once a set is written it gives back all there is, until a store is      *)
(* upgraded; the set a migration took gives back what is still behind.     *)
NewestGives ==
  command.step = "retire" =>
    /\ Newest \in Complete
    /\ owed \subseteq GivenBy(Newest)
    /\ \A s \in Started : AsItIs(s) \in GivenBy(Newest)

TakenGives ==
  command.step = "hold" \/ (command.step = "migrate" /\ command.taken # 0) =>
    /\ command.taken \in Complete
    /\ \A s \in StageSet : Behind(s) => AsItIs(s) \in GivenBy(command.taken)

RecoverInv == Recoverable /\ NewestGives /\ TakenGives

(* The logs a restore will report, or cannot know of.                      *)
Excused ==
  forgotten \cup (IF marker # Absent THEN marker.putBack
                  ELSE IF At("restore", "place") \/ Unreported THEN command.putBack ELSE {})

(* A log there is holds what was recorded in it; none is missing once the  *)
(* marker names those that were.                                           *)
LogsKept ==
  \A l \in Logs \ Excused :
    /\ logs[l] # Absent => recorded[l] \subseteq EntriesOf(logs[l])
    /\ Marked => logs[l] # Absent

(* A profile in use has what was recorded, in its logs and in Bronze.      *)
InUse ==
  marker = Absent /\ Bronze \in Started =>
    \A l \in Logs \ Excused : recorded[l] \subseteq Present(l) \cap EntriesOf(logs[l])

(* What a restore puts back of Bronze comes to hold all that is listed.    *)
ListedComesBack ==
  /\ Unreported => Bronze \in Started /\ Listed \subseteq bronze
  /\ Restoring =>
      /\ command.step \in {"clear", "unmark", "place", "inputs", "stores"} /\ ~ command.ahead =>
           Listed \subseteq Set.runs
      /\ command.step = "stores" /\ Bronze \in Started => Set.runs \subseteq bronze
      /\ command.step \in {"build", "finish"} => Listed \subseteq bronze

LossInv == LogsKept /\ InUse /\ ListedComesBack

-----------------------------------------------------------------------------
(* The type invariant.                                                     *)

LEMMA StageTypes ==
  /\ Bronze \in StageSet
  /\ \A k \in 1 .. Len(Stages) : Stages[k] \in StageSet
BY BoundsAssumption DEF Bronze, StageSet

LEMMA Bounds ==
  /\ MaxVersion \in Nat /\ MaxSets \in Nat /\ MaxSets > 0 /\ MaxEntries \in Nat /\ MaxTime \in Nat
  /\ Len(Stages) \in Nat /\ Len(Stages) > 0
BY BoundsAssumption

LEMMA SetType ==
  ASSUME TypeOK, NEW i \in 1 .. Len(sets)
  PROVE  /\ sets[i] \in BackupSet
         /\ sets[i].runs \subseteq Runs /\ sets[i].logs \in LogCopies
         /\ DOMAIN sets[i].versions \subseteq StageSet
<1>1. sets[i] \in BackupSet
  BY ElementOfSeq DEF TypeOK
<1> QED
  BY <1>1 DEF BackupSet

(* A step that only moves the command on.                                  *)
LEMMA CommandType ==
  ASSUME TypeOK, UNCHANGED <<setVars, marker, made, guarded, recorded, forgotten>>,
         command' \in Commands
  PROVE  TypeOK'
BY DEF TypeOK, setVars, Started

LEMMA IdleType == Idle \in Commands
BY BoundsAssumption DEF Idle, Commands

LEMMA StepType ==
  ASSUME TypeOK, NEW step \in {"store", "log", "record", "migrate", "write", "retire", "hold",
           "release", "clear", "unmark", "place", "inputs", "stores", "replay",
           "build", "finish"}, Goto(step)
  PROVE  command' \in Commands
BY DEF TypeOK, Goto, Commands

(* What a restore does not report of a log, it is not asked for again.     *)
LEMMA ReportType ==
  ASSUME TypeOK, Report
  PROVE  recorded' \in [Logs -> SUBSET Runs] /\ forgotten' \subseteq Logs
<1>1. CASE command.name = "restore"
  <2>1. recorded' = [l \in Logs |-> IF l \in command.putBack \cup forgotten
                                   THEN recorded[l] \cap EntriesOf(logs[l]) ELSE recorded[l]]
        /\ forgotten' = {}
    BY <1>1 DEF Report
  <2>2. \A l \in Logs : recorded[l] \subseteq Runs
    BY DEF TypeOK
  <2> QED
    BY <2>1, <2>2
<1>2. CASE command.name # "restore"
  BY <1>2 DEF Report, TypeOK
<1> QED
  BY <1>1, <1>2

LEMMA CommandStepsType ==
  ASSUME TypeInv, BeginBackup \/ BeginImport \/ BeginDecide \/ CannotWrite \/ BeginMigrate \/ Migrated \/ BeginRestore \/ RequireNoStores \/ InputsPutBack \/ StoresPlaced \/ Replayed
  PROVE  TypeOK'
<1> USE BoundsAssumption DEF TypeInv
<1>1. CASE BeginBackup
  <2>1. command' \in Commands
    BY <1>1, IdleType, StepType DEF BeginBackup, Stop, Commands, Idle
  <2> QED
    BY <1>1, <2>1, CommandType DEF BeginBackup, TypeInv
<1>2. CASE BeginImport
  <2>1. command' \in Commands
    BY <1>2, IdleType, StepType DEF BeginImport, Stop, Commands, Idle
  <2> QED
    BY <1>2, <2>1, CommandType DEF BeginImport, TypeInv
<1>3. CASE BeginDecide
  <2>1. command' \in Commands
    BY <1>3, IdleType, StepType DEF BeginDecide, Stop, Commands, Idle
  <2> QED
    BY <1>3, <2>1, CommandType DEF BeginDecide, TypeInv
<1>4. CASE CannotWrite
  <2>1. command' \in Commands
    BY <1>4, IdleType, StepType DEF CannotWrite, Stop, Commands, Idle
  <2> QED
    BY <1>4, <2>1, ReportType DEF CannotWrite, TypeOK, setVars, Started
<1>5. CASE BeginMigrate
  <2>1. command' \in Commands
    BY <1>5, IdleType, StepType DEF BeginMigrate, Stop, Commands, Idle
  <2> QED
    BY <1>5, <2>1, CommandType DEF BeginMigrate, TypeInv
<1>6. CASE Migrated
  <2>1. command' \in Commands
    BY <1>6, IdleType, StepType DEF Migrated, Stop, Commands, Idle
  <2> QED
    BY <1>6, <2>1, CommandType DEF Migrated, TypeInv
<1>7. CASE BeginRestore
  <2>1. command' \in Commands
    <3>1. PICK i \in Complete : command' = [Idle EXCEPT !.name = "restore", !.step = "clear",
                                            !.chosen = i, !.ahead = Ahead(i)]
      BY <1>7 DEF BeginRestore
    <3>2. i \in 0 .. MaxSets /\ Ahead(i) \in BOOLEAN
      BY LenProperties, Bounds DEF Complete, Ahead, TypeOK
    <3> QED
      BY <3>1, <3>2, IdleType DEF Commands, Idle
  <2> QED
    BY <1>7, <2>1, CommandType DEF BeginRestore, TypeInv
<1>8. CASE RequireNoStores
  <2>1. command' \in Commands
    BY <1>8, IdleType, StepType DEF RequireNoStores, Stop, Commands, Idle
  <2> QED
    BY <1>8, <2>1, CommandType DEF RequireNoStores, TypeInv
<1>9. CASE InputsPutBack
  <2>1. command' \in Commands
    BY <1>9, IdleType, StepType DEF InputsPutBack, Stop, Commands, Idle
  <2> QED
    BY <1>9, <2>1, CommandType DEF InputsPutBack, TypeInv
<1>10. CASE StoresPlaced
  <2>1. command' \in Commands
    BY <1>10, IdleType, StepType DEF StoresPlaced, Stop, Commands, Idle
  <2> QED
    BY <1>10, <2>1, CommandType DEF StoresPlaced, TypeInv
<1>11. CASE Replayed
  <2>1. command' \in Commands
    BY <1>11, IdleType, StepType DEF Replayed, Stop, Commands, Idle
  <2> QED
    BY <1>11, <2>1, CommandType DEF Replayed, TypeInv
<1> QED
  BY <1>1, <1>2, <1>3, <1>4, <1>5, <1>6, <1>7, <1>8, <1>9, <1>10, <1>11

LEMMA EnterType ==
  ASSUME TypeOK, NEW log \in Logs, NEW entries \in SUBSET Runs, Enter(log, entries)
  PROVE  logs' \in LogCopies /\ recorded' \in [Logs -> SUBSET Runs]
BY DEF TypeOK, Enter, EntriesOf, LogCopies

LEMMA NewType ==
  ASSUME TypeOK, NEW log \in Logs, New(log)
  PROVE  made' \in [Logs -> 0 .. MaxEntries] /\ made'[log] \in Runs
BY BoundsAssumption DEF TypeOK, New, Runs

LEMMA EntriesType ==
  ASSUME TypeInv, StoreRun \/ LogRun \/ RecordDecision
  PROVE  TypeOK'
<1> USE DEF TypeInv
<1>0. {"imports.jsonl", "decisions.jsonl"} = Logs
  BY DEF Logs
<1>1. CASE StoreRun
  <2>1. command' \in Commands
    BY <1>1, StepType DEF StoreRun
  <2>2. logs' \in LogCopies /\ recorded' \in [Logs -> SUBSET Runs]
    BY <1>0, <1>1, EnterType DEF StoreRun, TypeOK
  <2>3. made' \in [Logs -> 0 .. MaxEntries] /\ bronze' \subseteq Runs
    BY <1>0, <1>1, NewType DEF StoreRun, TypeOK
  <2>4. Bronze \in Started
    BY <1>1 DEF StoreRun, At, Control
  <2> QED
    BY <1>1, <2>1, <2>2, <2>3, <2>4 DEF StoreRun, TypeOK, Started
<1>2. CASE LogRun
  <2>1. command' \in Commands
    BY <1>2, StepType DEF LogRun
  <2>2. logs' \in LogCopies /\ recorded' \in [Logs -> SUBSET Runs]
    BY <1>0, <1>2, EnterType DEF LogRun, TypeOK
  <2> QED
    BY <1>2, <2>1, <2>2 DEF LogRun, TypeOK, Started
<1>3. CASE RecordDecision
  <2>1. command' \in Commands
    BY <1>3, StepType DEF RecordDecision
  <2>2. made' \in [Logs -> 0 .. MaxEntries] /\ made'["decisions.jsonl"] \in Runs
    BY <1>0, <1>3, NewType DEF RecordDecision
  <2>3. logs' \in LogCopies /\ recorded' \in [Logs -> SUBSET Runs]
    BY <1>0, <1>3, <2>2, EnterType DEF RecordDecision
  <2> QED
    BY <1>3, <2>1, <2>2, <2>3 DEF RecordDecision, TypeOK, Started
<1> QED
  BY <1>1, <1>2, <1>3

LEMMA SetTakenType ==
  ASSUME TypeOK, NEW now \in 0 .. MaxTime
  PROVE  SetTaken(now) \in BackupSet
<1>1. [s \in Started |-> stores[s]] \in [Started -> 1 .. MaxVersion]
  BY BoundsAssumption DEF TypeOK, Started
<1>2. Started \in SUBSET StageSet
  BY DEF Started
<1>3. [s \in Started |-> stores[s]] \in UNION {[some -> 1 .. MaxVersion] : some \in SUBSET StageSet}
  BY <1>1, <1>2
<1> QED
  BY <1>3 DEF SetTaken, BackupSet, TypeOK

LEMMA WriteType ==
  ASSUME TypeInv, Write
  PROVE  TypeOK'
<1> USE DEF TypeInv
<1>1. PICK now \in 0 .. MaxTime : WriteSet(now)
  BY DEF Write
<1>2. /\ sets' = Append(sets, SetTaken(now)) /\ Len(sets) < MaxSets
      /\ kept' = kept \cup {Len(sets')}
      /\ UNCHANGED <<latest, stores, bronze, logs, held>>
  BY <1>1 DEF WriteSet
<1>3. sets' \in Seq(BackupSet) /\ Len(sets') = Len(sets) + 1 /\ Len(sets) \in Nat
  BY <1>2, SetTakenType, AppendProperties, LenProperties DEF TypeOK
<1>4. Len(sets') <= MaxSets /\ 1 .. Len(sets) \subseteq 1 .. Len(sets') /\ Len(sets') \in 1 .. Len(sets')
  BY <1>2, <1>3, Bounds
<1>7. kept' \subseteq 1 .. Len(sets') /\ held' \subseteq 1 .. Len(sets')
  BY <1>2, <1>4 DEF TypeOK
<1>5. command' \in Commands
  <2>1. command \in Commands /\ Len(sets') \in 0 .. MaxSets
    BY <1>3, <1>4, Bounds DEF TypeOK
  <2>2. command' = [command EXCEPT !.step = "retire", !.taken = command'.taken]
        /\ command'.taken \in {command.taken, Len(sets')}
    BY <2>1 DEF Write, Commands
  <2> QED
    BY <2>1, <2>2 DEF Commands
<1>6. marker' = Absent \/ marker' \in [set : 1 .. Len(sets'), putBack : SUBSET Logs]
  BY <1>4 DEF Write, TypeOK
<1> QED
  BY <1>2, <1>3, <1>4, <1>5, <1>6, <1>7 DEF Write, TypeOK, Started

LEMMA RetireType ==
  ASSUME TypeInv, RetireSets
  PROVE  TypeOK'
<1> USE DEF TypeInv
<1>1. command' \in Commands
  BY IdleType, StepType DEF RetireSets, Stop
<1>2. held' \in {held, StillHeld(held)} /\ kept' \subseteq kept
  BY DEF RetireSets, Retire
<1>3. guarded' \subseteq held' /\ held' \subseteq held
  BY <1>2 DEF RetireSets, StillHeld, TypeOK
<1>4. recorded' \in [Logs -> SUBSET Runs] /\ forgotten' \subseteq Logs
  BY ReportType DEF RetireSets
<1> QED
  BY <1>1, <1>2, <1>3, <1>4 DEF RetireSets, Retire, TypeOK, Started

LEMMA AtType ==
  ASSUME TypeOK, NEW s \in StageSet, Reached(s)
  PROVE  /\ [command EXCEPT !.at = @ + 1] \in Commands
         /\ [command EXCEPT !.at = @ + 1, !.changed = TRUE] \in Commands
<1>1. command \in Commands /\ command.at <= Len(Stages)
  BY DEF TypeOK, Reached
<1>2. command.at \in 1 .. Len(Stages) + 1
  BY <1>1 DEF Commands
<1>3. command.at + 1 \in 1 .. Len(Stages) + 1
  BY <1>1, <1>2, Bounds
<1> QED
  BY <1>1, <1>3 DEF Commands

LEMMA MigrationType ==
  ASSUME TypeInv, NEW s \in StageSet,
         PassOver(s) \/ TakeSetFirst(s) \/ Upgrade(s) \/ Start(s) \/ StoreTooNew(s)
  PROVE  TypeOK'
<1> USE DEF TypeInv
<1>1. CASE PassOver(s) \/ TakeSetFirst(s) \/ StoreTooNew(s)
  <2>1. command' \in Commands
    <3>1. CASE PassOver(s)
      BY <3>1, AtType DEF PassOver
    <3>2. CASE TakeSetFirst(s) \/ StoreTooNew(s)
      BY <3>2, IdleType, StepType DEF TakeSetFirst, StoreTooNew, Stop
    <3> QED
      BY <1>1, <3>1, <3>2
  <2> QED
    BY <1>1, <2>1, CommandType DEF PassOver, TakeSetFirst, StoreTooNew
<1>2. CASE Upgrade(s) \/ Start(s)
  <2>1. Reached(s) /\ Apply(s)
    BY <1>2 DEF Upgrade, Start
  <2>2. command' \in Commands
    BY <2>1, AtType DEF Apply
  <2>3. stores' \in [StageSet -> 0 .. MaxVersion] /\ stores'[s] # 0
    BY <2>1 DEF Apply, TypeOK
  <2>4. Bronze \notin Started' => bronze = {}
    BY <2>1, <2>3 DEF Apply, Started, TypeOK
  <2>5. recorded' \in [Logs -> SUBSET Runs]
    BY <1>2 DEF Upgrade, Start, TypeOK
  <2> QED
    BY <2>1, <2>2, <2>3, <2>4, <2>5 DEF Apply, TypeOK
<1> QED
  BY <1>1, <1>2

LEMMA HoldsType ==
  ASSUME TypeInv, Hold \/ Release
  PROVE  TypeOK'
<1> USE DEF TypeInv
<1>1. command' \in Commands
  BY IdleType, StepType DEF Hold, Release, Stop
<1>2. held' \subseteq 1 .. Len(sets)
  <2>1. held \subseteq 1 .. Len(sets) /\ Len(sets) \in Nat
    BY LenProperties DEF TypeOK
  <2>2. Hold => command.taken \in 1 .. Len(sets)
    BY <2>1 DEF Hold, At, Control, Newest
  <2> QED
    BY <2>1, <2>2 DEF Hold, Release
<1> QED
  BY <1>1, <1>2 DEF Hold, Release, TypeOK, Started

LEMMA RestoreType ==
  ASSUME TypeInv, ClearStores \/ Unmark \/ Mark \/ ReplayRun \/ Build \/ Finish
  PROVE  TypeOK'
<1> USE DEF TypeInv
<1>1. CASE ClearStores
  <2>1. command' \in Commands
    BY <1>1, StepType DEF ClearStores
  <2> QED
    BY <1>1, <2>1, BoundsAssumption DEF ClearStores, TypeOK, Started
<1>2. CASE Unmark
  <2>1. command' \in Commands
    BY <1>2 DEF Unmark, At, Control, Restoring, Writing, Commands, TypeOK
  <2> QED
    BY <1>2, <2>1 DEF Unmark, TypeOK, setVars, Started
<1>3. CASE Mark
  <2>1. command' \in Commands
    BY <1>3 DEF Mark, Lost, Missing, Commands, TypeOK
  <2>2. command.chosen \in 1 .. Len(sets)
    BY <1>3 DEF Mark, At, Control, Restoring, Writing
  <2>3. marker' \in [set : 1 .. Len(sets), putBack : SUBSET Logs]
    BY <1>3, <2>1, <2>2 DEF Mark, Commands
  <2>4. forgotten' \subseteq Logs
    BY <1>3 DEF Mark, Missing, TypeOK
  <2> QED
    BY <1>3, <2>1, <2>3, <2>4 DEF Mark, TypeOK, setVars, Started
<1>4. CASE ReplayRun
  <2>1. bronze' \subseteq Runs
    <3>1. Listed \subseteq Runs
      BY AbsentAssumption DEF Listed, EntriesOf, LogCopies, Logs, TypeOK
    <3> QED
      BY <1>4, <3>1 DEF ReplayRun, RestoreRun, TypeOK
  <2>2. Bronze \in Started
    BY <1>4 DEF ReplayRun, At, Control, Restoring, Writing
  <2> QED
    BY <1>4, <2>1, <2>2 DEF ReplayRun, TypeOK, Started
<1>5. CASE Build
  <2>1. command' \in Commands
    BY <1>5, StepType DEF Build
  <2>2. stores' \in [StageSet -> 0 .. MaxVersion] /\ \A s \in StageSet : stores'[s] # 0
    BY <1>5 DEF Build, Started, TypeOK
  <2> QED
    BY <1>5, <2>1, <2>2, StageTypes DEF Build, TypeOK, Started
<1>6. CASE Finish
  <2>1. command' \in Commands
    BY <1>6, StepType DEF Finish
  <2> QED
    BY <1>6, <2>1 DEF Finish, TypeOK, setVars, Started
<1> QED
  BY <1>1, <1>2, <1>3, <1>4, <1>5, <1>6

LEMMA PlaceStoreType ==
  ASSUME TypeInv, NEW s \in StageSet, PlaceStore(s)
  PROVE  TypeOK'
<1> USE DEF TypeInv
<1>1. command.chosen \in 1 .. Len(sets)
  BY DEF PlaceStore, At, Control, Restoring, Writing
<1>2. Set.runs \subseteq Runs
  BY <1>1, SetType DEF Set
<1>3. stores' \in [StageSet -> 0 .. MaxVersion] /\ stores'[s] # 0
  BY DEF PlaceStore, TypeOK
<1>4. bronze' \subseteq Runs /\ (Bronze \notin Started' => bronze' = {})
  BY <1>2, <1>3 DEF PlaceStore, Started, TypeOK
<1> QED
  BY <1>3, <1>4 DEF PlaceStore, TypeOK

LEMMA LogsType ==
  ASSUME TypeInv, NEW l \in Logs, PutBackLog(l) \/ TearLog(l) \/ LoseLog(l)
  PROVE  TypeOK'
<1> USE DEF TypeInv
<1>1. command' \in Commands
  BY IdleType DEF PutBackLog, TearLog, LoseLog, Stop, TypeOK
<1>2. CASE PutBackLog(l) \/ TearLog(l)
  <2>1. command.chosen \in 1 .. Len(sets)
    BY <1>2 DEF PutBackLog, TearLog, At, Control, Restoring, Writing
  <2>2. Set.logs \in LogCopies
    BY <2>1, SetType DEF Set
  <2>3. logs' \in LogCopies
    BY <1>2, <2>2 DEF PutBackLog, TearLog, Lost, LogCopies, TypeOK
  <2> QED
    BY <1>1, <1>2, <2>3 DEF PutBackLog, TearLog, TypeOK, Started
<1>3. CASE LoseLog(l)
  <2>1. logs' \in LogCopies
    BY <1>3 DEF LoseLog, LogCopies, TypeOK
  <2> QED
    BY <1>1, <1>3, <2>1 DEF LoseLog, TypeOK, Started
<1> QED
  BY <1>2, <1>3

LEMMA FailureType ==
  ASSUME TypeInv, Crash \/ LoseStores \/ InstallCode \/ \E i \in kept : Damage(i)
  PROVE  TypeOK'
<1> USE DEF TypeInv
<1>1. CASE Crash
  <2>1. forgotten' \subseteq Logs
    BY <1>1 DEF Crash, TypeOK, Commands
  <2> QED
    BY <1>1, <2>1, IdleType DEF Crash, Stop, TypeOK, setVars, Started
<1>2. CASE LoseStores
  <2>1. stores' \in [StageSet -> 0 .. MaxVersion]
    BY <1>2, Bounds DEF LoseStores, TypeOK
  <2>2. bronze' \subseteq Runs /\ (Bronze \notin Started' => bronze' = {})
    BY <1>2, StageTypes DEF LoseStores, TypeOK, Started
  <2> QED
    BY <1>2, <2>1, <2>2 DEF LoseStores, TypeOK
<1>3. CASE InstallCode
  BY <1>3 DEF InstallCode, TypeOK, Started
<1>4. ASSUME NEW i \in kept, Damage(i)
      PROVE  TypeOK'
  <2>1. sets[i] \in BackupSet /\ i \in 1 .. Len(sets)
    BY <1>4, ElementOfSeq DEF TypeOK
  <2>2. [sets[i] EXCEPT !.intact = FALSE] \in BackupSet
    BY <2>1 DEF BackupSet
  <2>3. sets' \in Seq(BackupSet) /\ Len(sets') = Len(sets)
    BY <1>4, <2>1, <2>2, ExceptSeq DEF Damage, TypeOK
  <2> QED
    BY <1>4, <2>3 DEF Damage, TypeOK, Started
<1> QED
  BY <1>1, <1>2, <1>3, <1>4

LEMMA TypeStep ==
  ASSUME TypeInv, [Next]_vars
  PROVE  TypeOK'
<1>1. CASE UNCHANGED vars
  BY <1>1 DEF TypeInv, TypeOK, vars, Started
<1>2. CASE Next
  BY <1>2, CommandStepsType, EntriesType, WriteType, RetireType, MigrationType, HoldsType,
     RestoreType, PlaceStoreType, LogsType, FailureType DEF Next
<1> QED
  BY <1>1, <1>2

(* What is taken at the first moment, of a profile just started.           *)
LEMMA InitType ==
  ASSUME Init
  PROVE  TypeInv
<1>1. latest \in [StageSet -> 1 .. MaxVersion] /\ stores \in [StageSet -> 0 .. MaxVersion]
  BY Bounds DEF Init
<1>2. Bronze \in Started /\ Started \subseteq StageSet
  BY StageTypes, Bounds DEF Init, Started
<1>3. SetTaken(0) \in BackupSet
  <2>1. [s \in Started |-> stores[s]] \in [Started -> 1 .. MaxVersion]
    BY <1>1, Bounds DEF Started
  <2>2. [s \in Started |-> stores[s]] \in UNION {[some -> 1 .. MaxVersion] : some \in SUBSET StageSet}
    BY <1>2, <2>1
  <2>3. logs \in LogCopies /\ bronze \in SUBSET Runs /\ 0 \in 0 .. MaxTime
    BY Bounds DEF Init, LogCopies
  <2> QED
    BY <2>2, <2>3 DEF SetTaken, BackupSet
<1>4. sets = <<SetTaken(0)>> /\ sets \in Seq(BackupSet) /\ Len(sets) = 1
  BY <1>3 DEF Init
<1>5. TypeOK
  <2>1. logs \in LogCopies /\ made \in [Logs -> 0 .. MaxEntries] /\ bronze \subseteq Runs
        /\ Len(sets) <= MaxSets /\ kept \subseteq 1 .. Len(sets)
    BY <1>4, Bounds DEF Init, LogCopies
  <2> QED
    BY <1>1, <1>2, <1>4, <2>1, IdleType DEF Init, TypeOK
<1>6. Control
  BY DEF Init, Control, Idle, Restoring, Writing
<1>7. SetsSound
  BY <1>2, <1>4 DEF Init, SetsSound, SetTaken, EntriesOf, Logs
<1> QED
  BY <1>5, <1>6, <1>7 DEF TypeInv

-----------------------------------------------------------------------------
(* The steps of the commands.                                              *)

LEMMA ControlStutters ==
  ASSUME Control, UNCHANGED vars
  PROVE  Control'
BY DEF Control, vars, setVars, Started, Writing, Restoring, Marked, Newest

(* A command begins, or stops, with nothing else changed.                  *)
LEMMA BeginControl ==
  ASSUME TypeInv, BeginBackup \/ BeginImport \/ BeginDecide \/ BeginMigrate \/ BeginRestore
  PROVE  Control'
<1> USE DEF TypeInv, Writing, Restoring, Marked, Idle, setVars, Started, Ready
<1>0. Bronze \in StageSet /\ \A s \in StageSet : latest[s] # 0
  BY StageTypes, Bounds DEF TypeOK
<1>1. CASE BeginBackup
  BY <1>1 DEF BeginBackup, Control
<1>2. CASE BeginImport
  BY <1>0, <1>2 DEF BeginImport, Control, Current
<1>3. CASE BeginDecide
  BY <1>0, <1>3 DEF BeginDecide, Control, Current
<1>4. CASE BeginMigrate
  <2>1. PICK stages \in SUBSET StageSet \ {{}} :
          /\ Bronze \in stages \/ Bronze \in Started
          /\ command' = [Idle EXCEPT !.name = "migrate", !.step = "migrate", !.stages = stages]
    BY <1>4 DEF BeginMigrate
  <2>2. Ready
    BY <1>4 DEF BeginMigrate
  <2>4. UNCHANGED <<setVars, marker>>
    BY <1>4 DEF BeginMigrate
  <2>3. /\ command'.name = "migrate" /\ command'.step = "migrate" /\ command'.at = 1
        /\ command'.stages = stages
    BY <2>1
  <2> QED
    BY <2>1, <2>2, <2>3, <2>4 DEF Control
<1>5. CASE BeginRestore
  <2>1. PICK i \in Complete : command' = [Idle EXCEPT !.name = "restore", !.step = "clear",
                                          !.chosen = i, !.ahead = Ahead(i)]
    BY <1>5 DEF BeginRestore
  <2>2. i \in 1 .. Len(sets)
    BY DEF Complete, TypeOK
  <2> QED
    BY <1>5, <2>1, <2>2 DEF BeginRestore, Control
<1> QED
  BY <1>1, <1>2, <1>3, <1>4, <1>5

LEMMA GotoControl ==
  ASSUME TypeInv,
         StoreRun \/ LogRun \/ RecordDecision \/ CannotWrite \/ RetireSets \/ Migrated
         \/ Hold \/ Release \/ RequireNoStores \/ Unmark \/ Mark \/ ClearStores
         \/ InputsPutBack \/ StoresPlaced \/ Replayed \/ Build \/ Finish
  PROVE  Control'
<1> USE DEF TypeInv, Writing, Restoring, Marked, Idle, Stop, Goto, At, setVars, Started, Newest
<1>1. command \in Commands /\ Bronze \in StageSet /\ (\A s \in StageSet : latest[s] # 0)
  BY StageTypes, Bounds DEF TypeOK
<1>2. CASE StoreRun
  BY <1>1, <1>2 DEF StoreRun, Control, Commands
<1>3. CASE LogRun
  BY <1>1, <1>3 DEF LogRun, Control, Commands
<1>4. CASE RecordDecision
  BY <1>1, <1>4 DEF RecordDecision, Control, Commands
<1>5. CASE CannotWrite
  BY <1>1, <1>5 DEF CannotWrite, Control, Commands
<1>6. CASE RetireSets
  BY <1>1, <1>6, Bounds DEF RetireSets, Retire, Control, Commands
<1>7. CASE Migrated
  BY <1>1, <1>7, Bounds DEF Migrated, Control, Commands
<1>8. CASE Hold
  BY <1>1, <1>8 DEF Hold, Control, Commands
<1>9. CASE Release
  BY <1>1, <1>9 DEF Release, Control, Commands
<1>10. CASE RequireNoStores
  BY <1>1, <1>10 DEF RequireNoStores, Control, Commands
<1>11. CASE Unmark
  BY <1>1, <1>11 DEF Unmark, Control, Commands
<1>12. CASE Mark
  BY <1>1, <1>12 DEF Mark, Control, Commands
<1>13. CASE ClearStores
  BY <1>1, <1>13 DEF ClearStores, Control, Commands
<1>14. CASE InputsPutBack
  BY <1>1, <1>14 DEF InputsPutBack, Control, Commands
<1>15. CASE StoresPlaced
  <2>1. Bronze \in DOMAIN Set.versions
    BY <1>15 DEF StoresPlaced, Control, SetsSound, Set
  <2> QED
    BY <1>1, <1>15, <2>1 DEF StoresPlaced, Control, Commands
<1>16. CASE Replayed
  BY <1>1, <1>16 DEF Replayed, Control, Commands
<1>17. CASE Build
  BY <1>1, <1>17 DEF Build, Control, Commands
<1>18. CASE Finish
  BY <1>1, <1>18 DEF Finish, Control, Commands
<1> QED
  BY <1>2, <1>3, <1>4, <1>5, <1>6, <1>7, <1>8, <1>9, <1>10, <1>11, <1>12, <1>13, <1>14, <1>15,
     <1>16, <1>17, <1>18

(* The first stage a migration comes to is Bronze.                         *)
LEMMA MigrationControl ==
  ASSUME TypeInv, NEW s \in StageSet,
         PassOver(s) \/ TakeSetFirst(s) \/ Upgrade(s) \/ Start(s) \/ StoreTooNew(s)
  PROVE  Control'
<1> USE DEF TypeInv, Writing, Restoring, Marked, Idle, Stop, Goto, At, setVars, Newest
<1>1. /\ command \in Commands /\ command.at \in Nat \ {0}
      /\ Bronze \in StageSet /\ (\A t \in StageSet : latest[t] # 0)
      /\ stores \in [StageSet -> 0 .. MaxVersion]
  BY StageTypes, Bounds DEF TypeOK, Commands
<1>2. command.name = "migrate" /\ command.step = "migrate" /\ (s = Bronze \/ command.at > 1)
  BY <1>1 DEF PassOver, TakeSetFirst, Upgrade, Start, StoreTooNew, Reached, Bronze
<1>3. CASE PassOver(s)
  <2>1. Bronze \in Started
    BY <1>1, <1>2, <1>3 DEF PassOver, Control, Started
  <2> QED
    BY <1>1, <1>2, <1>3, <2>1 DEF PassOver, Control, Commands, Started
<1>4. CASE TakeSetFirst(s)
  BY <1>1, <1>2, <1>4 DEF TakeSetFirst, Control, Commands, Started
<1>5. CASE StoreTooNew(s)
  BY <1>1, <1>2, <1>5 DEF StoreTooNew, Control, Commands, Started
<1>6. CASE Upgrade(s) \/ Start(s)
  <2>1. Apply(s)
    BY <1>6 DEF Upgrade, Start
  <2>2. s \in Started' /\ Started \subseteq Started'
    BY <1>1, <2>1 DEF Apply, Started
  <2>3. Bronze \in Started'
    BY <1>1, <1>2, <2>2 DEF Control
  <2>4. command' = [command EXCEPT !.at = @ + 1, !.changed = TRUE] /\ UNCHANGED <<sets, marker>>
    BY <2>1 DEF Apply
  <2> QED
    BY <1>1, <1>2, <2>3, <2>4 DEF Control, Commands
<1> QED
  BY <1>3, <1>4, <1>5, <1>6

(* While a restore is under way no set is written, and stores only appear  *)
(* where it puts them.                                                     *)
LEMMA RestoreControl ==
  ASSUME TypeInv,
         ReplayRun \/ (\E s \in StageSet : PlaceStore(s))
         \/ \E l \in Logs : PutBackLog(l) \/ TearLog(l) \/ LoseLog(l)
  PROVE  Control'
<1> USE DEF TypeInv, Writing, Restoring, Marked, Idle, Stop, At, setVars, Newest
<1>1. CASE ReplayRun
  BY <1>1 DEF ReplayRun, Control, Started
<1>2. ASSUME NEW s \in StageSet, PlaceStore(s)
      PROVE  Control'
  <2>1. Started \subseteq Started'
    BY <1>2, Bounds DEF PlaceStore, Started, TypeOK
  <2>2. command.name = "restore" /\ command.step = "stores"
        /\ UNCHANGED <<command, marker, sets>>
    BY <1>2 DEF PlaceStore
  <2> QED
    BY <2>1, <2>2 DEF Control
<1>3. ASSUME NEW l \in Logs, PutBackLog(l) \/ TearLog(l) \/ LoseLog(l)
      PROVE  Control'
  BY <1>3 DEF PutBackLog, TearLog, LoseLog, Control, Started
<1> QED
  BY <1>1, <1>2, <1>3

LEMMA FailureControl ==
  ASSUME TypeInv, Crash \/ LoseStores \/ InstallCode \/ \E i \in kept : Damage(i)
  PROVE  Control'
<1> USE DEF TypeInv, Writing, Restoring, Marked, Idle, Stop, At, setVars, Newest, Ready
<1>1. CASE Crash
  BY <1>1 DEF Crash, Control, Started
<1>2. CASE LoseStores
  BY <1>2 DEF LoseStores, Control
<1>3. CASE InstallCode
  BY <1>3 DEF InstallCode, Control, Started
<1>4. CASE \E i \in kept : Damage(i)
  BY <1>4 DEF Damage, Control, Started
<1> QED
  BY <1>1, <1>2, <1>3, <1>4

LEMMA WriteControl ==
  ASSUME TypeInv, Write
  PROVE  Control'
<1> USE DEF TypeInv, Writing, Restoring, Marked, Idle, Newest
<1>1. PICK now \in 0 .. MaxTime : WriteSet(now)
  BY DEF Write
<1>2. sets' = Append(sets, SetTaken(now)) /\ stores' = stores
  BY <1>1 DEF WriteSet
<1>3. Len(sets') = Len(sets) + 1 /\ Len(sets) \in Nat /\ command \in Commands
  BY <1>2, SetTakenType, AppendProperties, LenProperties DEF TypeOK
<1>4. marker = Absent \/ command = Idle
  BY DEF Write, Control
<1> QED
  BY <1>2, <1>3, <1>4 DEF Write, Control, Started, Commands

-----------------------------------------------------------------------------
(* The sets.                                                               *)

(* What was written stays as it was, but for damage.                       *)
LEMMA SetsStay ==
  ASSUME TypeInv, Next, ~ Write, ~ \E i \in kept : Damage(i)
  PROVE  sets' = sets
BY DEF Next, BeginBackup, BeginImport, BeginDecide, StoreRun, LogRun, RecordDecision,
  CannotWrite, RetireSets, Retire, BeginMigrate, Hold, Migrated, Release, PassOver,
  TakeSetFirst, Upgrade, Start, Apply, StoreTooNew, BeginRestore, ClearStores, Unmark,
  RequireNoStores, Mark, PutBackLog, TearLog, LoseLog, InputsPutBack, StoresPlaced, ReplayRun,
  Replayed, Build, Finish, PlaceStore, Crash, LoseStores, InstallCode, setVars

(* A set that is written copies Bronze as it is, with all the log lists.   *)
LEMMA SetsSoundStep ==
  ASSUME TypeInv, [Next]_vars
  PROVE  SetsSound'
<1> USE DEF TypeInv
<1>1. CASE sets' = sets
  BY <1>1 DEF SetsSound
<1>2. CASE Write
  <2>1. PICK now \in 0 .. MaxTime : WriteSet(now)
    BY <1>2 DEF Write
  <2>2. sets' = Append(sets, SetTaken(now)) /\ Writable
    BY <2>1 DEF WriteSet
  <2>3. /\ Len(sets') = Len(sets) + 1 /\ Len(sets) \in Nat
        /\ \A i \in 1 .. Len(sets) : sets'[i] = sets[i]
        /\ sets'[Len(sets) + 1] = SetTaken(now)
    BY <2>2, SetTakenType, AppendProperties, LenProperties DEF TypeOK
  <2>4. Bronze \in Started /\ EntriesOf(logs["imports.jsonl"]) \subseteq bronze
    BY <2>2 DEF Writable
  <2>5. /\ Bronze \in DOMAIN SetTaken(now).versions
        /\ EntriesOf(SetTaken(now).logs["imports.jsonl"]) \subseteq SetTaken(now).runs
    BY <2>4 DEF SetTaken
  <2> SUFFICES ASSUME NEW i \in 1 .. Len(sets')
               PROVE  /\ Bronze \in DOMAIN sets'[i].versions
                      /\ EntriesOf(sets'[i].logs["imports.jsonl"]) \subseteq sets'[i].runs
    BY DEF SetsSound, EntriesOf, Bronze
  <2>6. i \in 1 .. Len(sets) \/ i = Len(sets) + 1
    BY <2>3
  <2> QED
    BY <2>3, <2>5, <2>6 DEF SetsSound
<1>3. ASSUME NEW d \in kept, Damage(d)
      PROVE  SetsSound'
  <2>1. sets[d] \in BackupSet /\ d \in 1 .. Len(sets)
    BY ElementOfSeq DEF TypeOK
  <2>2. [sets[d] EXCEPT !.intact = FALSE] \in BackupSet
    BY <2>1 DEF BackupSet
  <2>3. /\ Len(sets') = Len(sets)
        /\ \A i \in 1 .. Len(sets) : sets'[i].versions = sets[i].versions
              /\ sets'[i].logs = sets[i].logs /\ sets'[i].runs = sets[i].runs
    BY <1>3, <2>1, <2>2, ExceptSeq DEF Damage, TypeOK, BackupSet
  <2> QED
    BY <2>3 DEF SetsSound, EntriesOf
<1> QED
  BY <1>1, <1>2, <1>3, SetsStay DEF vars

LEMMA TypeInvStep ==
  ASSUME TypeInv, [Next]_vars
  PROVE  TypeInv'
<1>1. Control'
  <2>1. CASE UNCHANGED vars
    BY <2>1, ControlStutters DEF TypeInv
  <2>2. CASE Next
    BY <2>2, BeginControl, GotoControl, MigrationControl, RestoreControl, FailureControl,
       WriteControl DEF Next
  <2> QED
    BY <2>1, <2>2
<1> QED
  BY <1>1, TypeStep, SetsSoundStep DEF TypeInv

(* A profile, its sets and the command under way are what Recovery declares *)
(* them to be, in every behaviour.                                         *)
THEOREM TypeCorrect == Spec => []TypeOK
<1>1. Init => TypeInv
  BY InitType
<1>2. TypeInv /\ [Next]_vars => TypeInv'
  BY TypeInvStep
<1>3. TypeInv => TypeOK
  BY DEF TypeInv
<1> QED
  BY <1>1, <1>2, <1>3, PTL DEF Spec

-----------------------------------------------------------------------------
(* What the sets can give back.                                            *)

LEMMA SameSets ==
  ASSUME UNCHANGED <<sets, kept>>
  PROVE  Complete' = Complete /\ Newest' = Newest /\ \A i : GivenBy(i)' = GivenBy(i)
BY DEF Complete, Newest, GivenBy

LEMMA SameStore ==
  ASSUME NEW s, stores'[s] = stores[s], bronze' = bronze
  PROVE  AsItIs(s)' = AsItIs(s)
BY DEF AsItIs

(* What a set gives back of a store is of a stage there is.                *)
LEMMA GivenStage ==
  ASSUME TypeOK, NEW i \in 1 .. Len(sets), NEW o \in GivenBy(i)
  PROVE  o[1] \in StageSet /\ HoldsStore(i, o[1])
<1>1. PICK s \in DOMAIN sets[i].versions :
        o = <<s, sets[i].versions[s], IF s = Bronze THEN sets[i].runs ELSE {}>>
  BY DEF GivenBy
<1> QED
  BY <1>1, SetType DEF HoldsStore

LEMMA InitRecovers ==
  ASSUME Init
  PROVE  RecoverInv
<1>1. 1 \in Complete
  BY DEF Init, Complete, SetTaken
<1>2. \A s \in Started : AsItIs(s) \in GivenBy(1)
  BY DEF Init, GivenBy, SetTaken, AsItIs
<1> QED
  BY <1>1, <1>2 DEF Init, RecoverInv, Recoverable, NewestGives, TakenGives, Idle

LEMMA WriteRecovers ==
  ASSUME TypeInv, RecoverInv, Write
  PROVE  RecoverInv'
<1> USE DEF TypeInv, RecoverInv
<1>1. PICK now \in 0 .. MaxTime : WriteSet(now)
  BY DEF Write
<1>0. PICK n : n = Len(sets) + 1
  OBVIOUS
<1>2. /\ sets' = Append(sets, SetTaken(now)) /\ Writable
      /\ kept' = kept \cup {Len(sets')} /\ UNCHANGED <<stores, bronze>>
  BY <1>1 DEF WriteSet
<1>3. /\ Len(sets') = n /\ Len(sets) \in Nat
      /\ \A i \in 1 .. Len(sets) : sets'[i] = sets[i]
      /\ sets'[n] = SetTaken(now)
  BY <1>0, <1>2, SetTakenType, AppendProperties, LenProperties DEF TypeOK
<1>4. \A i \in Complete : i \in Complete' /\ GivenBy(i)' = GivenBy(i) /\ i \in 1 .. Len(sets)
  BY <1>0, <1>2, <1>3 DEF Complete, GivenBy, TypeOK
<1>5. Newest' = n /\ n \in Complete'
  BY <1>2, <1>3 DEF Newest, Complete, SetTaken
<1>6. \A s \in Started : AsItIs(s) \in GivenBy(n)'
  <2> SUFFICES ASSUME NEW s \in Started
               PROVE  AsItIs(s) \in GivenBy(n)'
    OBVIOUS
  <2>1. /\ s \in DOMAIN SetTaken(now).versions /\ SetTaken(now).runs = bronze
        /\ SetTaken(now).versions[s] = stores[s]
    BY DEF SetTaken
  <2>2. AsItIs(s) = <<s, sets'[n].versions[s], IF s = Bronze THEN sets'[n].runs ELSE {}>>
        /\ s \in DOMAIN sets'[n].versions
    BY <1>3, <2>1 DEF AsItIs
  <2> QED
    BY <2>2 DEF GivenBy, Bronze
<1>7. \A s \in Started' : s \in Started /\ AsItIs(s)' = AsItIs(s)
  BY <1>2 DEF Started, AsItIs
<1>8. owed' = {o \in owed : o[1] \notin Started} \cup {AsItIs(s) : s \in Started}
  BY DEF Write
<1>9. \A o \in owed : o[1] \in Started
  <2> SUFFICES ASSUME NEW o \in owed
               PROVE  o[1] \in Started
    OBVIOUS
  <2>1. PICK i \in Complete : o \in GivenBy(i)
    BY DEF Recoverable
  <2>2. o[1] \in StageSet /\ CompleteSetHolds(o[1])
    BY <1>4, <2>1, GivenStage DEF CompleteSetHolds
  <2> QED
    BY <1>2, <2>2 DEF Writable, LostStores
<1>10. owed' \subseteq GivenBy(n)'
  BY <1>6, <1>8, <1>9
<1>11. command'.step = "retire" /\ guarded' = guarded
  BY DEF Write, TypeOK, Commands
<1>12. Recoverable'
  BY <1>2, <1>5, <1>10, <1>11 DEF Recoverable
<1>13. NewestGives'
  BY <1>5, <1>6, <1>7, <1>10 DEF NewestGives
<1>14. TakenGives'
  BY <1>11 DEF TakenGives
<1> QED
  BY <1>12, <1>13, <1>14

LEMMA RetireRecovers ==
  ASSUME TypeInv, RecoverInv, RetireSets
  PROVE  RecoverInv'
<1> USE DEF TypeInv, RecoverInv
<1>1. PICK deleted \in SUBSET kept :
        /\ Newest \notin deleted /\ deleted \cap held' = {}
        /\ kept' = kept \ deleted
  BY DEF RetireSets, Retire
<1>2. /\ held' \in {held, StillHeld(held)} /\ guarded' = StillHeld(guarded)
      /\ UNCHANGED <<latest, stores, bronze, sets, owed>>
  BY DEF RetireSets, Retire
<1>3. command.step = "retire" /\ command \in Commands
  BY DEF RetireSets, TypeOK
<1>4. /\ Newest \in Complete' /\ Newest' = Newest
      /\ \A i : GivenBy(i)' = GivenBy(i)
  BY <1>1, <1>2, <1>3 DEF NewestGives, Complete, Newest, GivenBy
<1>5. guarded' \subseteq kept'
  BY <1>1, <1>2 DEF Recoverable, StillHeld, TypeOK
<1>6. Recoverable'
  BY <1>2, <1>3, <1>4, <1>5 DEF Recoverable, NewestGives
<1>7. command'.step \in {"none", "hold", "release"}
  BY <1>3 DEF RetireSets, Stop, Goto, Idle, Commands
<1>8. command'.step = "hold" => command'.taken = Newest /\ command'.stages = command.stages
  BY <1>3, Bounds DEF RetireSets, Stop, Goto, Idle, Commands, Control
<1>9. TakenGives'
  <2> SUFFICES ASSUME command'.step = "hold"
               PROVE  /\ command'.taken \in Complete'
                      /\ \A s \in StageSet : Behind(s)' => AsItIs(s)' \in GivenBy(command.taken)'
    BY <1>7 DEF TakenGives
  <2>1. \A s \in StageSet : Behind(s)' => s \in Started
    BY <1>2, Bounds DEF Behind, Started, TypeOK
  <2>2. \A s \in StageSet : AsItIs(s)' = AsItIs(s)
    BY <1>2 DEF AsItIs
  <2> QED
    BY <1>3, <1>4, <1>8, <2>1, <2>2 DEF NewestGives
<1> QED
  BY <1>6, <1>7, <1>9 DEF NewestGives

LEMMA UpgradeRecovers ==
  ASSUME TypeInv, RecoverInv, NEW s \in StageSet, Upgrade(s) \/ Start(s) \/ PassOver(s)
  PROVE  RecoverInv'
<1> USE DEF TypeInv, RecoverInv
<1>1. /\ command \in Commands /\ command.name = "migrate" /\ command.step = "migrate"
      /\ command'.step = "migrate" /\ command'.taken = command.taken
      /\ command'.stages = command.stages
  BY DEF Upgrade, Start, PassOver, Apply, Reached, At, Commands, TypeOK
<1>2. UNCHANGED <<latest, bronze, sets, kept, guarded>>
  BY DEF Upgrade, Start, PassOver, Apply, setVars
<1>3. Complete' = Complete /\ \A i : GivenBy(i)' = GivenBy(i)
  BY <1>2, SameSets
<1>4. \A o \in owed' : o \in owed \/ (Upgrade(s) /\ o = AsItIs(s))
  BY DEF Upgrade, Start, PassOver
<1>5. Upgrade(s) => command.taken \in Complete /\ AsItIs(s) \in GivenBy(command.taken)
  BY <1>1 DEF Upgrade, TakenGives
<1>6. Recoverable'
  BY <1>2, <1>3, <1>4, <1>5 DEF Recoverable
<1>7. \A t \in StageSet : Behind(t)' => Behind(t) /\ AsItIs(t)' = AsItIs(t)
  <2>1. CASE PassOver(s)
    BY <1>1, <2>1 DEF PassOver, Behind, AsItIs, setVars
  <2>2. CASE Upgrade(s) \/ Start(s)
    <3>1. stores' = [stores EXCEPT ![s] = latest[s]] /\ ~ Behind(s)'
      BY <1>1, <1>2, <2>2 DEF Upgrade, Start, Apply, Behind, TypeOK
    <3> QED
      BY <1>1, <1>2, <3>1 DEF Behind, AsItIs, TypeOK
  <2> QED
    BY <2>1, <2>2
<1>8. TakenGives'
  BY <1>1, <1>3, <1>7 DEF TakenGives
<1> QED
  BY <1>1, <1>6, <1>8 DEF NewestGives

LEMMA HoldRecovers ==
  ASSUME TypeInv, RecoverInv, Hold \/ Release
  PROVE  RecoverInv'
<1> USE DEF TypeInv, RecoverInv
<1>1. UNCHANGED <<latest, stores, bronze, sets, kept, owed>>
  BY DEF Hold, Release
<1>2. Complete' = Complete /\ (\A i : GivenBy(i)' = GivenBy(i))
      /\ \A s : AsItIs(s)' = AsItIs(s)
  BY <1>1, SameSets, SameStore
<1>3. CASE Hold
  <2>1. /\ command.step = "hold" /\ command'.step = "migrate"
        /\ command'.taken = command.taken /\ command'.stages = command.stages
    BY <1>3 DEF Hold, At, Goto, Commands, TypeOK
  <2>2. command.taken \in Complete
    BY <2>1 DEF TakenGives
  <2>3. guarded' \subseteq kept'
    BY <1>1, <1>3, <2>2 DEF Hold, Recoverable, Complete
  <2>4. \A s \in StageSet : Behind(s)' => Behind(s)
    BY <1>1, <2>1 DEF Behind
  <2> QED
    BY <1>1, <1>2, <2>1, <2>2, <2>3, <2>4 DEF Recoverable, NewestGives, TakenGives
<1>4. CASE Release
  BY <1>1, <1>2, <1>4 DEF Release, Stop, Idle, Recoverable, NewestGives, TakenGives
<1> QED
  BY <1>3, <1>4

LEMMA DamageRecovers ==
  ASSUME TypeInv, RecoverInv, NEW d \in kept, Damage(d)
  PROVE  RecoverInv'
<1> USE DEF TypeInv, RecoverInv
<1>1. sets[d] \in BackupSet /\ d \in 1 .. Len(sets)
  BY ElementOfSeq DEF TypeOK
<1>2. [sets[d] EXCEPT !.intact = FALSE] \in BackupSet
  BY <1>1 DEF BackupSet
<1>3. /\ sets' = [sets EXCEPT ![d] = [sets[d] EXCEPT !.intact = FALSE]]
      /\ UNCHANGED <<kept, guarded, command>> /\ command = Idle
  BY DEF Damage
<1>4. \A i \in 1 .. Len(sets) : sets'[i].versions = sets[i].versions
        /\ sets'[i].runs = sets[i].runs
        /\ (i # d => sets'[i] = sets[i])
  BY <1>1, <1>2, <1>3, ExceptSeq DEF TypeOK, BackupSet
<1>5. \A j \in Complete \ {d} : j \in Complete' /\ GivenBy(j)' = GivenBy(j)
  BY <1>3, <1>4 DEF Complete, GivenBy, TypeOK, Bronze
<1>6. owed' = {o \in owed : \E j \in Complete \ {d} : o \in GivenBy(j)}
  BY DEF Damage
<1>7. Recoverable'
  BY <1>3, <1>5, <1>6 DEF Recoverable
<1> QED
  BY <1>3, <1>7 DEF NewestGives, TakenGives, Idle

(* No other step changes the sets, those kept or what is owed, and none of *)
(* them comes to a step where a set was just written or taken.             *)
LEMMA OthersRecover ==
  ASSUME TypeInv, RecoverInv, Next, UNCHANGED <<sets, kept, owed, guarded>>,
         \/ command'.step \notin {"retire", "hold", "migrate"}
         \/ command'.step = "migrate" /\ command'.taken = 0
  PROVE  RecoverInv'
<1>1. Complete' = Complete /\ \A i : GivenBy(i)' = GivenBy(i)
  BY SameSets
<1> QED
  BY <1>1 DEF RecoverInv, Recoverable, NewestGives, TakenGives

LEMMA RecoverStep ==
  ASSUME TypeInv, RecoverInv, [Next]_vars
  PROVE  RecoverInv'
<1>1. CASE UNCHANGED vars
  <2>1. UNCHANGED <<sets, kept, owed, guarded, latest, stores, bronze, command>>
    BY <1>1 DEF vars
  <2>2. Complete' = Complete /\ Newest' = Newest /\ (\A i : GivenBy(i)' = GivenBy(i))
        /\ (\A s : AsItIs(s)' = AsItIs(s)) /\ Started' = Started
        /\ \A s : Behind(s)' <=> Behind(s)
    BY <2>1, SameSets, SameStore DEF Started, Behind
  <2> QED
    BY <2>1, <2>2 DEF RecoverInv, Recoverable, NewestGives, TakenGives
<1>2. CASE BeginBackup \/ BeginImport \/ BeginDecide \/ CannotWrite \/ BeginMigrate \/ Migrated
           \/ BeginRestore \/ RequireNoStores \/ InputsPutBack \/ StoresPlaced \/ Replayed
  <2>1. UNCHANGED <<sets, kept, owed, guarded>> /\ command \in Commands
    BY <1>2 DEF BeginBackup, BeginImport, BeginDecide, CannotWrite, BeginMigrate, Migrated,
      BeginRestore, RequireNoStores, InputsPutBack, StoresPlaced, Replayed, setVars, TypeInv, TypeOK
  <2>2. \/ command'.step \notin {"retire", "hold", "migrate"}
        \/ command'.step = "migrate" /\ command'.taken = 0
    <3>1. CASE BeginMigrate \/ BeginRestore
      BY <3>1 DEF BeginMigrate, BeginRestore, Idle
    <3>2. CASE BeginBackup \/ BeginImport \/ BeginDecide \/ CannotWrite
      <4>1. BeginBackup => command'.step = "write"
        BY DEF BeginBackup, Idle
      <4>2. BeginImport => command'.step = "store"
        BY DEF BeginImport, Idle
      <4>3. BeginDecide => command'.step = "record"
        BY DEF BeginDecide, Idle
      <4>4. CannotWrite => command'.step = "none"
        BY DEF CannotWrite, Stop, Idle
      <4> QED
        BY <3>2, <4>1, <4>2, <4>3, <4>4
    <3>3. CASE Migrated \/ RequireNoStores \/ InputsPutBack \/ StoresPlaced \/ Replayed
      BY <2>1, <3>3 DEF Migrated, RequireNoStores, InputsPutBack, StoresPlaced, Replayed, Goto,
        Stop, Idle, Commands
    <3> QED
      BY <1>2, <3>1, <3>2, <3>3
  <2> QED
    BY <1>2, <2>1, <2>2, OthersRecover DEF Next
<1>3. CASE StoreRun \/ LogRun \/ RecordDecision \/ ClearStores \/ Unmark \/ Mark \/ ReplayRun
           \/ Build \/ Finish \/ Crash \/ LoseStores \/ InstallCode
  <2>1. UNCHANGED <<sets, kept, owed, guarded>> /\ command \in Commands
    BY <1>3 DEF StoreRun, LogRun, RecordDecision, ClearStores, Unmark, Mark, ReplayRun, Build,
      Finish, Crash, LoseStores, InstallCode, setVars, TypeInv, TypeOK
  <2>2. command'.step \notin {"retire", "hold", "migrate"}
    <3>1. CASE StoreRun \/ LogRun \/ RecordDecision \/ ClearStores \/ Build \/ Finish
      BY <2>1, <3>1 DEF StoreRun, LogRun, RecordDecision, ClearStores, Build, Finish, Goto, Commands
    <3>2. CASE Unmark \/ Mark
      BY <2>1, <3>2 DEF Unmark, Mark, Commands
    <3>3. CASE ReplayRun
      BY <3>3 DEF ReplayRun, At
    <3>4. CASE Crash \/ LoseStores \/ InstallCode
      BY <3>4 DEF Crash, LoseStores, InstallCode, Ready, Stop, Idle
    <3> QED
      BY <1>3, <3>1, <3>2, <3>3, <3>4
  <2> QED
    BY <1>3, <2>1, <2>2, OthersRecover DEF Next
<1>4. ASSUME NEW s \in StageSet, TakeSetFirst(s) \/ StoreTooNew(s) \/ PlaceStore(s)
      PROVE  RecoverInv'
  <2>1. UNCHANGED <<sets, kept, owed, guarded>> /\ command \in Commands
    BY <1>4 DEF TakeSetFirst, StoreTooNew, PlaceStore, setVars, TypeInv, TypeOK
  <2>2. command'.step \notin {"retire", "hold", "migrate"}
    BY <1>4, <2>1 DEF TakeSetFirst, StoreTooNew, PlaceStore, At, Goto, Stop, Idle, Commands
  <2> QED
    BY <1>4, <2>1, <2>2, OthersRecover DEF Next
<1>5. ASSUME NEW l \in Logs, PutBackLog(l) \/ TearLog(l) \/ LoseLog(l)
      PROVE  RecoverInv'
  <2>1. UNCHANGED <<sets, kept, owed, guarded>> /\ command \in Commands
    BY <1>5 DEF PutBackLog, TearLog, LoseLog, TypeInv, TypeOK
  <2>2. command'.step \notin {"retire", "hold", "migrate"}
    BY <1>5, <2>1 DEF PutBackLog, TearLog, LoseLog, At, Stop, Idle, Commands
  <2> QED
    BY <1>5, <2>1, <2>2, OthersRecover DEF Next
<1> QED
  BY <1>1, <1>2, <1>3, <1>4, <1>5, WriteRecovers, RetireRecovers, UpgradeRecovers, HoldRecovers,
     DamageRecovers DEF Next

(* Whatever is lost, started anew or retired meanwhile, some complete set  *)
(* gives back every store as the newest set copied it, or as it was before *)
(* a migration upgraded it, and the sets of migrations that have not       *)
(* succeeded are still there.                                              *)
THEOREM StoresRecoverable == Spec => []Recoverable
<1>1. Init => TypeInv /\ RecoverInv
  BY InitType, InitRecovers
<1>2. TypeInv /\ RecoverInv /\ [Next]_vars => (TypeInv /\ RecoverInv)'
  BY TypeInvStep, RecoverStep
<1>3. RecoverInv => Recoverable
  BY DEF RecoverInv
<1> QED
  BY <1>1, <1>2, <1>3, PTL DEF Spec

-----------------------------------------------------------------------------
(* What the logs hold of what was recorded in them.                        *)

(* A log put back by a restore is one its marker names or cannot know of.  *)
LEMMA MarkerThere ==
  ASSUME TypeInv, Restoring, Marked
  PROVE  /\ marker # Absent /\ marker.putBack = command.putBack
         /\ command.chosen \in 1 .. Len(sets)
         /\ LossInv => \A l \in Missing : l \in Excused
<1>1. /\ marker = [set |-> command.chosen, putBack |-> command.putBack]
      /\ command.chosen \in 1 .. Len(sets) /\ command \in Commands /\ Len(sets) \in Nat
      /\ Len(sets) <= MaxSets
  BY LenProperties DEF TypeInv, TypeOK, Control
<1>2. marker \in [set : 1 .. MaxSets, putBack : SUBSET Logs]
  BY <1>1, Bounds DEF Commands
<1>3. marker # Absent
  BY <1>2, AbsentAssumption
<1> QED
  BY <1>1, <1>3 DEF LossInv, LogsKept, Missing

LEMMA LogsFrame ==
  ASSUME LogsKept, UNCHANGED <<logs, recorded>>, Excused \subseteq Excused', Marked' => Marked
  PROVE  LogsKept'
BY DEF LogsKept, EntriesOf

LEMMA InUseFrame ==
  ASSUME InUse, UNCHANGED <<logs, bronze, recorded>>, Excused \subseteq Excused',
         marker' = Absent /\ Bronze \in Started' => marker = Absent /\ Bronze \in Started
  PROVE  InUse'
BY DEF InUse, Present, EntriesOf

LEMMA InitLoses ==
  ASSUME Init
  PROVE  LossInv
BY DEF Init, LossInv, LogsKept, InUse, ListedComesBack, Restoring, Unreported, Idle, Marked, Writing

(* Steps that change neither log nor Bronze, outside a restore or while    *)
(* one writes its set.                                                     *)
LEMMA QuietLoses ==
  ASSUME TypeInv, LossInv,
         UNCHANGED <<logs, bronze, recorded, forgotten, marker>>,
         ~ Restoring, ~ Restoring', ~ Marked',
         Unreported' = Unreported, Unreported => command'.putBack = command.putBack,
         Bronze \in Started' <=> Bronze \in Started
  PROVE  LossInv'
<1>1. ~ At("restore", "place") /\ ~ At("restore", "place")'
  BY DEF At, Restoring, Writing
<1>2. Excused' = Excused
  BY <1>1 DEF Excused
<1>3. LogsKept' /\ InUse'
  BY <1>2, LogsFrame, InUseFrame DEF LossInv
<1> QED
  BY <1>3 DEF LossInv, ListedComesBack, Listed

(* A run or decision is entered only in a profile in use.                  *)
LEMMA EntriesLose ==
  ASSUME TypeInv, LossInv, StoreRun \/ LogRun \/ RecordDecision
  PROVE  LossInv'
<1> USE DEF TypeInv, LossInv
<1>1. /\ marker = Absent /\ Bronze \in Started /\ UNCHANGED <<marker, stores, forgotten>>
      /\ command'.name \in {"import", "decide"} /\ command'.step \in {"log", "write"}
      /\ command.name \in {"import", "decide"}
  BY DEF StoreRun, LogRun, RecordDecision, At, Goto, Control, Restoring, Writing, Idle, TypeOK,
    Commands
<1>2. /\ Excused = forgotten /\ Excused' = forgotten
      /\ \A l \in Logs \ forgotten : recorded[l] \subseteq Present(l) \cap EntriesOf(logs[l])
  BY <1>1 DEF InUse, Excused, At, Unreported
<1>3. PICK log \in Logs, entries \in SUBSET Runs :
        /\ Enter(log, entries) /\ (log = "imports.jsonl" => entries = bronze)
        /\ bronze \subseteq bronze'
  <2>1. "imports.jsonl" \in Logs /\ "decisions.jsonl" \in Logs
    BY DEF Logs
  <2>2. CASE StoreRun
    BY <2>1, <2>2 DEF StoreRun, TypeOK
  <2>3. CASE LogRun
    BY <2>1, <2>3 DEF LogRun, TypeOK
  <2>4. CASE RecordDecision
    BY <2>1, <2>4, NewType DEF RecordDecision
  <2> QED
    BY <2>2, <2>3, <2>4
<1>4. \A l \in Logs : IF l = log THEN /\ EntriesOf(logs'[l]) = EntriesOf(logs[l]) \cup entries
                                      /\ recorded'[l] = recorded[l] \cup entries
                        ELSE logs'[l] = logs[l] /\ recorded'[l] = recorded[l]
  <2>1. logs \in LogCopies /\ recorded \in [Logs -> SUBSET Runs]
    BY DEF TypeOK
  <2>2. EntriesOf(logs[log]) \cup entries \in SUBSET Runs
    BY <2>1 DEF EntriesOf, LogCopies
  <2>3. EntriesOf(EntriesOf(logs[log]) \cup entries) = EntriesOf(logs[log]) \cup entries
    BY <2>2, AbsentAssumption DEF EntriesOf
  <2> QED
    BY <1>3, <2>1, <2>3 DEF Enter, LogCopies
<1>5. \A l \in Logs \ forgotten : recorded'[l] \subseteq EntriesOf(logs'[l])
  BY <1>2, <1>4
<1>6. \A l \in Logs \ forgotten : recorded'[l] \subseteq Present(l)'
  BY <1>2, <1>3, <1>4 DEF Present, Logs
<1>7. LogsKept'
  BY <1>1, <1>2, <1>5 DEF LogsKept, Marked
<1>8. InUse'
  BY <1>1, <1>2, <1>5, <1>6 DEF InUse
<1> QED
  BY <1>1, <1>7, <1>8 DEF ListedComesBack, Restoring, Unreported

LEMMA StartLoses ==
  ASSUME TypeInv, LossInv, NEW s \in StageSet, Start(s) \/ Upgrade(s)
  PROVE  LossInv'
<1> USE DEF TypeInv, LossInv
<1>1. /\ command.name = "migrate" /\ command'.name = "migrate" /\ command'.step = "migrate"
      /\ UNCHANGED <<logs, bronze, forgotten, marker>>
      /\ stores' = [stores EXCEPT ![s] = latest[s]]
  BY DEF Start, Upgrade, Apply, Reached, At, TypeOK, Commands
<1>2. CASE s = Bronze /\ Start(s)
  <2>1. recorded' = [l \in Logs |-> recorded[l] \cap Present(l)] /\ bronze = {}
    BY <1>2 DEF Start, TypeOK, Started
  <2>2. \A l \in Logs : /\ recorded'[l] \subseteq recorded[l]
                         /\ recorded'[l] \subseteq Present(l) \cap EntriesOf(logs[l])
    BY <2>1 DEF Present
  <2>3. Excused' = Excused
    BY <1>1 DEF Excused, At, Unreported
  <2>4. LogsKept'
    BY <1>1, <2>2, <2>3 DEF LogsKept, Marked
  <2>5. InUse'
    BY <1>1, <2>2 DEF InUse, Present
  <2> QED
    BY <1>1, <2>4, <2>5 DEF ListedComesBack, Restoring, Unreported
<1>3. CASE s # Bronze \/ Upgrade(s)
  <2>1. recorded' = recorded /\ (Bronze \in Started' <=> Bronze \in Started)
    <3>1. CASE Upgrade(s)
      BY <1>1, <3>1, StageTypes, Bounds DEF Upgrade, Behind, Started, TypeOK
    <3>2. CASE s # Bronze /\ Start(s)
      BY <1>1, <3>2, StageTypes DEF Start, Started, TypeOK
    <3> QED
      BY <1>3, <3>1, <3>2
  <2> QED
    BY <1>1, <2>1, QuietLoses DEF Restoring, Marked, Unreported
<1> QED
  BY <1>2, <1>3

LEMMA BeginRestoreLoses ==
  ASSUME TypeInv, LossInv, BeginRestore
  PROVE  LossInv'
<1> USE DEF TypeInv, LossInv
<1>1. PICK i \in Complete : command' = [Idle EXCEPT !.name = "restore", !.step = "clear",
                                        !.chosen = i, !.ahead = Ahead(i)]
  BY DEF BeginRestore
<1>2. command = Idle /\ UNCHANGED <<logs, bronze, stores, sets, recorded, forgotten, marker>>
  BY DEF BeginRestore, setVars
<1>3. /\ command'.step = "clear" /\ command'.chosen = i /\ command'.ahead = Ahead(i)
      /\ command.name = "none"
  BY <1>1, <1>2 DEF Idle
<1>4. Excused' = Excused
  BY <1>2, <1>3 DEF Excused, At, Unreported
<1>5. LogsKept' /\ InUse'
  BY <1>2, <1>3, <1>4, LogsFrame, InUseFrame DEF Started, Marked
<1>6. ~ Ahead(i) => Listed' \subseteq Set'.runs
  BY <1>2, <1>3 DEF Ahead, Listed, Set
<1> QED
  BY <1>3, <1>5, <1>6 DEF ListedComesBack, Unreported

(* The steps of a restore up to its marker.                                *)
LEMMA MarkLoses ==
  ASSUME TypeInv, LossInv, ClearStores \/ Unmark \/ RequireNoStores \/ Mark
  PROVE  LossInv'
<1> USE DEF TypeInv, LossInv
<1>1. /\ command \in Commands /\ command.name = "restore"
      /\ command.step \in {"clear", "unmark", "place"} /\ Restoring
      /\ UNCHANGED <<logs, sets, recorded>>
  BY DEF ClearStores, Unmark, RequireNoStores, Mark, At, Restoring, Writing, setVars, TypeOK
<1>2. ListedComesBack'
  <2>1. \/ ~ Restoring'
        \/ /\ command'.chosen = command.chosen /\ command'.ahead = command.ahead
           /\ command'.step \in {"unmark", "place", "inputs"}
    <3>1. CASE ClearStores
      BY <1>1, <3>1 DEF ClearStores, Goto, Commands
    <3>2. CASE Unmark
      BY <1>1, <3>2 DEF Unmark, Commands
    <3>3. CASE RequireNoStores
      BY <1>1, <3>3 DEF RequireNoStores, Goto, Stop, Idle, Commands, Restoring
    <3>4. CASE Mark
      BY <1>1, <3>4 DEF Mark, Commands
    <3> QED
      BY <3>1, <3>2, <3>3, <3>4
  <2>2. command'.chosen = command.chosen => Set' = Set /\ Listed' = Listed
    BY <1>1 DEF Set, Listed
  <2>3. ~ Unreported'
    <3>1. CASE RequireNoStores
      BY <1>1, <3>1 DEF RequireNoStores, Goto, Stop, Idle, Commands, Unreported
    <3>2. CASE ClearStores \/ Unmark \/ Mark
      BY <1>1, <2>1, <3>2 DEF ClearStores, Unmark, Mark, Goto, Commands, Unreported, Restoring, Writing
    <3> QED
      BY <3>1, <3>2
  <2> QED
    BY <1>1, <2>1, <2>2, <2>3 DEF ListedComesBack
<1>3. CASE ClearStores
  <2>1. command'.step = "unmark" /\ UNCHANGED <<marker, forgotten>> /\ marker # Absent
    BY <1>1, <1>3 DEF ClearStores, Goto, Commands
  <2>2. Excused' = Excused
    BY <2>1 DEF Excused
  <2> QED
    BY <1>1, <1>2, <2>1, <2>2, LogsFrame DEF InUse, Marked
<1>4. CASE Unmark
  <2>1. /\ marker # Absent /\ marker' = Absent /\ forgotten' = forgotten
        /\ command'.name = "restore" /\ command'.step = "place"
        /\ command'.putBack = marker.putBack
    BY <1>1, <1>4 DEF Unmark, At, Control, Commands
  <2>2. Excused' = Excused
    BY <1>1, <2>1 DEF Excused, At, Unreported
  <2>3. Bronze \notin Started'
    BY <1>1, <1>4 DEF Unmark, At, Control, setVars, Started
  <2> QED
    BY <1>1, <1>2, <2>1, <2>2, <2>3, LogsFrame DEF InUse, Marked
<1>5. CASE RequireNoStores
  <2>1. /\ command.step = "clear" /\ marker = Absent
        /\ UNCHANGED <<marker, forgotten, stores, bronze>>
        /\ command'.step \in {"none", "place"}
    BY <1>1, <1>5 DEF RequireNoStores, At, Goto, Stop, Idle, Commands, setVars
  <2>2. Excused \subseteq Excused'
    BY <1>1, <2>1 DEF Excused, At, Unreported
  <2> QED
    BY <1>1, <1>2, <2>1, <2>2, LogsFrame, InUseFrame DEF Marked, Started
<1>6. CASE Mark
  <2>1. /\ command.step = "place" /\ marker = Absent /\ command.chosen \in 1 .. Len(sets)
        /\ forgotten' = forgotten \cup (Missing \ Lost)
        /\ command'.putBack = command.putBack \cup Lost /\ command' \in Commands
        /\ marker' = [set |-> command.chosen, putBack |-> command'.putBack]
    BY <1>1, <1>6 DEF Mark, At, Control, Commands, Lost, Missing
  <2>2. marker' # Absent
    <3>1. command.chosen \in 1 .. MaxSets /\ command'.putBack \in SUBSET Logs
      BY <2>1, Bounds, LenProperties DEF TypeOK, Commands
    <3>2. marker' \in [set : 1 .. MaxSets, putBack : SUBSET Logs]
      BY <2>1, <3>1
    <3> QED
      BY <3>2, AbsentAssumption
  <2>3. Excused' = Excused \cup Missing
    <3>1. Excused = forgotten \cup command.putBack
      BY <1>1, <2>1 DEF Excused, At
    <3>2. Excused' = forgotten' \cup command'.putBack
      BY <2>1, <2>2 DEF Excused
    <3> QED
      BY <2>1, <3>1, <3>2 DEF Lost
  <2>4. LogsKept'
    BY <1>1, <2>3 DEF LogsKept, Missing
  <2> QED
    BY <1>2, <2>2, <2>4 DEF InUse
<1> QED
  BY <1>3, <1>4, <1>5, <1>6

(* Under the marker: no profile is in use, and a log there was is there.   *)
LEMMA PlaceLoses ==
  ASSUME TypeInv, LossInv,
         \/ InputsPutBack \/ StoresPlaced \/ ReplayRun \/ Replayed \/ Build
         \/ (\E s \in StageSet : PlaceStore(s))
  PROVE  LossInv'
<1> USE DEF TypeInv, LossInv
<1>1. /\ Restoring /\ Marked /\ command \in Commands
      /\ UNCHANGED <<logs, sets, recorded, forgotten, marker>>
  BY DEF InputsPutBack, StoresPlaced, ReplayRun, Replayed, Build, PlaceStore, At, Restoring,
    Writing, Marked, setVars, TypeOK
<1>2. marker # Absent /\ command.chosen \in 1 .. Len(sets)
  BY <1>1, MarkerThere
<1>3. Excused' = Excused
  BY <1>1, <1>2 DEF Excused
<1>4. LogsKept' /\ InUse'
  BY <1>1, <1>2, <1>3, LogsFrame DEF InUse
<1>5. Listed' = Listed /\ ~ Unreported'
  BY <1>1 DEF Listed, Unreported, InputsPutBack, StoresPlaced, ReplayRun, Replayed, Build,
    PlaceStore, Goto, At, Commands
<1>6. CASE InputsPutBack
  <2>1. /\ command'.step = "stores" /\ command'.chosen = command.chosen
        /\ command'.ahead = command.ahead /\ UNCHANGED stores /\ command.step = "inputs"
    BY <1>1, <1>6 DEF InputsPutBack, Goto, At, Commands, setVars
  <2>2. Bronze \notin Started' /\ Set' = Set
    BY <1>1, <2>1 DEF Control, Started, Set
  <2> QED
    BY <1>1, <1>4, <1>5, <2>1, <2>2 DEF ListedComesBack
<1>7. ASSUME NEW s \in StageSet, PlaceStore(s)
      PROVE  LossInv'
  <2>1. /\ command' = command /\ command.step = "stores" /\ Set' = Set
        /\ stores' = [stores EXCEPT ![s] = latest[s]]
        /\ bronze' = IF s = Bronze THEN Set.runs ELSE bronze
    BY <1>1, <1>7 DEF PlaceStore, At, Set
  <2>2. Bronze \in Started' => s = Bronze \/ Bronze \in Started
    BY <2>1 DEF Started, TypeOK
  <2> QED
    BY <1>1, <1>4, <1>5, <2>1, <2>2 DEF ListedComesBack
<1>8. CASE StoresPlaced
  <2>1. /\ command'.step = IF command.ahead THEN "replay" ELSE "build"
        /\ command.step = "stores" /\ DOMAIN Set.versions \subseteq Started /\ bronze' = bronze
    BY <1>1, <1>8 DEF StoresPlaced, At, Goto, Commands, setVars
  <2>2. Bronze \in Started
    BY <1>2, <2>1 DEF SetsSound, Set
  <2> QED
    BY <1>1, <1>4, <1>5, <2>1, <2>2 DEF ListedComesBack
<1>9. CASE ReplayRun
  BY <1>4, <1>5, <1>9 DEF ReplayRun, At, ListedComesBack
<1>10. CASE Replayed \/ Build
  <2>1. command'.step \in {"build", "finish"} /\ bronze' = bronze /\ Listed \subseteq bronze
    BY <1>1, <1>10 DEF Replayed, Build, At, Goto, Commands, setVars, ListedComesBack
  <2> QED
    BY <1>4, <1>5, <2>1 DEF ListedComesBack
<1> QED
  BY <1>6, <1>7, <1>8, <1>9, <1>10

LEMMA LogsLose ==
  ASSUME TypeInv, LossInv, NEW log \in Logs, PutBackLog(log) \/ TearLog(log) \/ LoseLog(log)
  PROVE  LossInv'
<1> USE DEF TypeInv, LossInv
<1>1. UNCHANGED <<stores, bronze, sets, recorded, forgotten, marker>>
      /\ logs \in LogCopies /\ \A l \in Logs \ {log} : logs'[l] = logs[l]
  BY DEF PutBackLog, TearLog, LoseLog, TypeOK, LogCopies
<1>2. CASE PutBackLog(log) \/ TearLog(log)
  <2>1. /\ Restoring /\ Marked /\ log \in Missing /\ command \in Commands
        /\ command.step = "inputs"
        /\ command' = command \/ command' = Idle
    BY <1>2 DEF PutBackLog, TearLog, At, Stop, Restoring, Writing, Marked, Lost, TypeOK
  <2>2. marker # Absent /\ log \in Excused /\ command.chosen \in 1 .. Len(sets)
    BY <2>1, MarkerThere
  <2>3. Excused' = Excused
    BY <1>1, <2>2 DEF Excused
  <2>4. LogsKept' /\ InUse' /\ ~ Unreported'
    BY <1>1, <2>1, <2>2, <2>3 DEF LogsKept, InUse, EntriesOf, Unreported, Idle
  <2>5. CASE TearLog(log)
    BY <2>4, <2>5 DEF TearLog, Stop, Idle, ListedComesBack, Restoring
  <2>6. CASE PutBackLog(log)
    <3>1. command' = command /\ Set' = Set /\ logs'[log] = Set.logs[log]
      BY <1>1, <2>6 DEF PutBackLog, Set, LogCopies
    <3>2. log = "imports.jsonl" => Listed' \subseteq Set.runs
      BY <2>2, <3>1 DEF Listed, SetsSound, Set, EntriesOf
    <3>3. log # "imports.jsonl" => Listed' = Listed
      BY <1>1 DEF Listed, EntriesOf, Logs
    <3> QED
      BY <2>1, <2>4, <3>1, <3>2, <3>3 DEF ListedComesBack
  <2> QED
    BY <1>2, <2>5, <2>6
<1>3. CASE LoseLog(log)
  <2>1. /\ command = Idle /\ command' = Idle /\ logs'[log] = Absent
        /\ Bronze \in Started' => marker' # Absent
    BY <1>3 DEF LoseLog, LogCopies, Started, TypeOK
  <2>2. Excused' = Excused /\ ~ Marked'
    BY <1>1, <2>1 DEF Excused, At, Idle, Marked, Unreported
  <2> QED
    BY <1>1, <2>1, <2>2 DEF LogsKept, InUse, ListedComesBack, Restoring, Unreported, Idle, EntriesOf
<1> QED
  BY <1>2, <1>3

(* Without its marker a restore has the profile in use, but for what it    *)
(* has yet to report.                                                      *)
LEMMA FinishLoses ==
  ASSUME TypeInv, LossInv, Finish
  PROVE  LossInv'
<1> USE DEF TypeInv, LossInv
<1>1. /\ Restoring /\ Marked /\ command \in Commands
      /\ UNCHANGED <<logs, bronze, stores, recorded, forgotten>> /\ command.step = "finish"
      /\ command'.name = "restore" /\ command'.step = "write"
      /\ command'.putBack = command.putBack /\ marker' = Absent
  BY DEF Finish, At, Goto, Restoring, Writing, Marked, setVars, TypeOK, Commands
<1>2. Excused = forgotten \cup command.putBack /\ Excused' = Excused
  BY <1>1, MarkerThere DEF Excused, Unreported
<1>3. \A l \in Logs \ Excused : recorded[l] \subseteq EntriesOf(logs[l])
  BY <1>1 DEF LogsKept
<1>4. Listed \subseteq bronze /\ Bronze \in Started
  BY <1>1 DEF ListedComesBack, Control
<1>5. \A l \in Logs \ Excused : recorded[l] \subseteq Present(l)
  BY <1>3, <1>4 DEF Present, Listed
<1>6. LogsKept' /\ InUse'
  BY <1>1, <1>2, <1>3, <1>5 DEF LogsKept, Marked, InUse, Present, EntriesOf
<1> QED
  BY <1>1, <1>4, <1>6 DEF ListedComesBack, Restoring, Writing, Listed, EntriesOf, Started

(* What a restore reports lost, or cannot report, is all its logs lack.    *)
LEMMA ReportLoses ==
  ASSUME TypeInv, LossInv, command.name = "restore", CannotWrite \/ RetireSets
  PROVE  LossInv'
<1> USE DEF TypeInv, LossInv
<1>1. /\ Unreported /\ ~ Restoring /\ command \in Commands /\ command' = Idle
      /\ UNCHANGED <<logs, bronze, stores, marker>> /\ Report
  BY DEF CannotWrite, RetireSets, Retire, Unreported, Restoring, Writing, setVars, TypeOK, Stop
<1>2. marker = Absent /\ Bronze \in Started /\ Listed \subseteq bronze
  BY <1>1 DEF Control, Idle, ListedComesBack
<1>3. Excused = forgotten \cup command.putBack
  BY <1>1, <1>2 DEF Excused
<1>4. \A l \in Logs : recorded'[l] = IF l \in Excused THEN recorded[l] \cap EntriesOf(logs[l])
                                     ELSE recorded[l]
  BY <1>1, <1>3 DEF Report
<1>5. \A l \in Logs : recorded'[l] \subseteq EntriesOf(logs[l]) /\ recorded'[l] \subseteq Present(l)
  BY <1>2, <1>4 DEF InUse, Present, Listed
<1>6. LogsKept' /\ InUse'
  BY <1>1, <1>5 DEF LogsKept, Marked, Idle, InUse, Present, EntriesOf
<1> QED
  BY <1>1, <1>6 DEF ListedComesBack, Restoring, Unreported, Idle

LEMMA FailureLoses ==
  ASSUME TypeInv, LossInv, Crash \/ LoseStores \/ InstallCode \/ \E i \in kept : Damage(i)
  PROVE  LossInv'
<1> USE DEF TypeInv, LossInv
<1>1. command' = Idle /\ UNCHANGED <<logs, recorded, marker>> /\ ~ Marked' /\ ~ Restoring'
  BY DEF Crash, LoseStores, InstallCode, Damage, Ready, Stop, setVars, Marked, Restoring, Idle
<1>2. forgotten \subseteq forgotten' /\ Excused \subseteq Excused'
  <2>1. CASE Crash
    BY <2>1 DEF Crash, Stop, Idle, Excused, At, Unreported
  <2>2. CASE LoseStores \/ InstallCode \/ \E i \in kept : Damage(i)
    BY <2>2 DEF LoseStores, InstallCode, Damage, Ready, Idle, Excused, At, Unreported
  <2> QED
    BY <2>1, <2>2
<1>3. LogsKept'
  BY <1>1, <1>2, LogsFrame
<1>4. InUse'
  <2>1. CASE Crash \/ InstallCode \/ \E i \in kept : Damage(i)
    <3>1. UNCHANGED <<bronze, stores>>
      BY <2>1 DEF Crash, InstallCode, Damage, setVars
    <3> QED
      BY <1>1, <1>2, <3>1, InUseFrame DEF Started
  <2>2. CASE LoseStores
    <3>1. Bronze \in Started' => Bronze \in Started /\ bronze' = bronze
      BY <2>2 DEF LoseStores, Started
    <3> QED
      BY <1>1, <1>2, <2>2, <3>1 DEF LoseStores, InUse, Present, EntriesOf
  <2> QED
    BY <2>1, <2>2
<1> QED
  BY <1>1, <1>3, <1>4 DEF ListedComesBack, Unreported, Idle

LEMMA LossStep ==
  ASSUME TypeInv, LossInv, [Next]_vars
  PROVE  LossInv'
<1> USE DEF TypeInv
<1>1. CASE UNCHANGED vars
  <2>1. Excused' = Excused /\ Listed' = Listed /\ Set' = Set /\ Started' = Started
    BY <1>1 DEF vars, Excused, At, Unreported, Listed, Set, Started
  <2> QED
    BY <1>1, <2>1, LogsFrame, InUseFrame DEF vars, LossInv, ListedComesBack, Restoring, Writing,
      Marked, Unreported
<1>2. CASE \/ BeginBackup \/ BeginImport \/ BeginDecide \/ Write
           \/ (CannotWrite \/ RetireSets) /\ command.name # "restore"
           \/ BeginMigrate \/ Hold \/ Migrated \/ Release
  <2>1. UNCHANGED <<logs, bronze, stores, recorded, forgotten, marker>>
    BY <1>2 DEF BeginBackup, BeginImport, BeginDecide, CannotWrite, Write, WriteSet, RetireSets,
      Retire, Report, BeginMigrate, Hold, Migrated, Release, setVars
  <2>2. command \in Commands /\ ~ Restoring
    <3>1. CASE BeginBackup \/ BeginImport \/ BeginDecide \/ BeginMigrate
      <4>1. Ready
        BY <3>1 DEF BeginBackup, BeginImport, BeginDecide, BeginMigrate
      <4> QED
        BY <4>1 DEF Ready, Idle, Restoring, TypeOK
    <3>2. CASE CannotWrite \/ Write \/ RetireSets
      BY <3>2 DEF CannotWrite, Write, RetireSets, Restoring, Writing, TypeOK
    <3>3. CASE Hold \/ Migrated \/ Release
      BY <3>3 DEF Hold, Migrated, Release, At, Restoring, TypeOK
    <3> QED
      BY <1>2, <3>1, <3>2, <3>3
  <2>3. ~ Restoring' /\ ~ Marked'
    <3>1. CASE BeginBackup
      BY <3>1 DEF BeginBackup, Idle, Restoring, Marked
    <3>2. CASE BeginImport
      BY <3>2 DEF BeginImport, Idle, Restoring, Marked
    <3>3. CASE BeginDecide
      BY <3>3 DEF BeginDecide, Idle, Restoring, Marked
    <3>4. CASE BeginMigrate
      BY <3>4 DEF BeginMigrate, Idle, Restoring, Marked
    <3>5. CASE CannotWrite \/ Release
      BY <3>5 DEF CannotWrite, Release, Stop, Idle, Restoring, Marked
    <3>6. CASE Write
      BY <2>2, <3>6 DEF Write, Restoring, Writing, Marked, Commands
    <3>8. CASE RetireSets
      BY <2>2, <3>8 DEF RetireSets, Stop, Goto, Idle, Restoring, Marked, Commands
    <3>7. CASE Hold \/ Migrated
      BY <2>2, <3>7 DEF Hold, Migrated, At, Stop, Goto, Idle, Restoring, Marked, Commands
    <3> QED
      BY <1>2, <3>1, <3>2, <3>3, <3>4, <3>5, <3>6, <3>7, <3>8
  <2>4. Unreported' = Unreported /\ (Unreported => command'.putBack = command.putBack)
    <3>1. CASE Write
      BY <2>2, <3>1 DEF Write, Unreported, Commands
    <3>2. CASE BeginBackup \/ BeginImport \/ BeginDecide \/ BeginMigrate
      <4>1. BeginMigrate => command.name = "none" /\ command'.name = "migrate"
        BY DEF BeginMigrate, Ready, Idle
      <4>2. BeginBackup => command.name = "none" /\ command'.name = "backup"
        BY DEF BeginBackup, Ready, Idle
      <4>3. BeginImport => command.name = "none" /\ command'.name = "import"
        BY DEF BeginImport, Ready, Idle
      <4>4. BeginDecide => command.name = "none" /\ command'.name = "decide"
        BY DEF BeginDecide, Ready, Idle
      <4> QED
        BY <3>2, <4>1, <4>2, <4>3, <4>4 DEF Unreported
    <3>3. CASE (CannotWrite \/ RetireSets) /\ command.name # "restore"
      BY <2>2, <3>3 DEF CannotWrite, RetireSets, Unreported, Stop, Goto, Idle, Commands
    <3>4. CASE Hold \/ Migrated \/ Release
      BY <2>2, <3>4 DEF Hold, Migrated, Release, At, Unreported, Stop, Goto, Idle, Commands
    <3> QED
      BY <1>2, <3>1, <3>2, <3>3, <3>4
  <2> QED
    BY <2>1, <2>2, <2>3, <2>4, QuietLoses DEF Started
<1>3. ASSUME NEW s \in StageSet, PassOver(s) \/ TakeSetFirst(s) \/ StoreTooNew(s)
      PROVE  LossInv'
  <2>1. UNCHANGED <<logs, bronze, stores, recorded, forgotten, marker>> /\ command \in Commands
    BY <1>3 DEF PassOver, TakeSetFirst, StoreTooNew, setVars, TypeOK
  <2>2. ~ Restoring /\ ~ Restoring' /\ ~ Marked' /\ ~ Unreported /\ ~ Unreported'
    BY <1>3, <2>1 DEF PassOver, TakeSetFirst, StoreTooNew, Reached, At, Stop, Goto, Idle,
      Restoring, Marked, Unreported, Commands
  <2>3. Unreported' = Unreported
    BY <2>2 DEF Unreported
  <2> QED
    BY <2>1, <2>2, <2>3, QuietLoses DEF Started
<1> QED
  BY <1>1, <1>2, <1>3, EntriesLose, StartLoses, BeginRestoreLoses, MarkLoses, PlaceLoses, LogsLose,
     FinishLoses, ReportLoses, FailureLoses DEF Next

(* A profile that may be used lacks none of its runs and decisions but     *)
(* those a restore reported lost, those it could not know of, and those    *)
(* whose report a restore cut off while it wrote its set never made.       *)
THEOREM LossesAreReported == Spec => []EveryLossIsReported
<1>1. Init => TypeInv /\ LossInv
  BY InitType, InitLoses
<1>2. TypeInv /\ LossInv /\ [Next]_vars => (TypeInv /\ LossInv)'
  BY TypeInvStep, LossStep
<1>3. LossInv => EveryLossIsReported
  BY DEF LossInv, InUse, EveryLossIsReported, Ready, Excused, At, Unreported, Idle
<1> QED
  BY <1>1, <1>2, <1>3, PTL DEF Spec

-----------------------------------------------------------------------------
(* Development: the invariants.                                            *)

(* Only a swap moves store files.                                          *)
Settled == ~ AtStep("swap") => refreshing.movedIn = {}

(* During a swap a file is in its place or aside, where no copy of the set *)
(* is in its place; and none of the set's is, until all that were are aside. *)
Swapping ==
  AtStep("swap") =>
    /\ refreshing.movedIn \subseteq Taken
    /\ \A f \in DevFiles :
         \/ f \in refreshing.movedIn /\ own[f] = newest /\ aside[f] = whole[f]
         \/ /\ f \notin refreshing.movedIn
            /\ \/ own[f] = whole[f] /\ aside[f] = Nothing /\ refreshing.movedIn = {}
               \/ own[f] = Nothing /\ aside[f] = whole[f]

(* What was last known to belong together can still be put together; it is *)
(* what there is unless a swap was left half done, and then of one origin  *)
(* with what SQLite keeps beside it.                                       *)
StoresKept ==
  /\ \A f \in Existing(whole) : whole[f] \in {own[f], aside[f]}
  /\ "stores" \notin cutOff =>
       /\ ~ AtStep("swap") => own = whole
       /\ \A s \in DevStages : whole[<<s, "wal">>] \in {Nothing, whole[<<s, "store">>]}

(* The inputs are out of their place only between the two renames.         *)
InputsKept ==
  "inputs" \notin cutOff /\ inputs = Nothing => AtStep("placeInputs") /\ replaced # Nothing

UpstreamOfOneSet == \A s, t \in Existing(upstream) : upstream[s] = upstream[t]

DevTypeInv == ConstantsOK /\ DevTypeOK

IInv == DevTypeInv /\ Settled /\ Swapping /\ StoresKept /\ InputsKept /\ UpstreamOfOneSet

-----------------------------------------------------------------------------
(* Files and their order.                                                  *)

LEMMA FilesOfStages ==
  /\ \A s \in DevStages : <<s, "store">> \in DevFiles /\ <<s, "wal">> \in DevFiles
  /\ \A f \in DevFiles : f[1] \in DevStages /\ f[2] \in {"store", "wal"} /\ f = <<f[1], f[2]>>
BY DEF DevFiles

LEMMA FirstIsOne ==
  ASSUME ConstantsOK, NEW files \in SUBSET DevFiles, files # {}
  PROVE  First(files) \in files
<1>1. \A f \in DevFiles : Place(f) \in Nat
  <2> SUFFICES ASSUME NEW f \in DevFiles
               PROVE  Place(f) \in Nat
    OBVIOUS
  <2>1. \E k \in DOMAIN StageOrder : StageOrder[k] = f[1]
    BY FilesOfStages DEF DevStages
  <2>2. (CHOOSE k \in DOMAIN StageOrder : StageOrder[k] = f[1]) \in Nat
    BY <2>1 DEF ConstantsOK
  <2> QED
    BY <2>2 DEF Place
<1> DEFINE Places == {Place(f) : f \in files}
<1>2. PICK p \in Places : \A q \in Places : p <= q
  <2>1. Places \in SUBSET Nat /\ Places # {}
    BY <1>1
  <2> HIDE DEF Places
  <2> QED
    BY <2>1, HasLeast
<1>3. PICK f \in files : p = Place(f)
  BY <1>2
<1>4. \A g \in files : Place(f) <= Place(g)
  BY <1>2, <1>3
<1> QED
  BY <1>3, <1>4 DEF First

LEMMA OriginTypes ==
  ASSUME DevTypeInv
  PROVE  /\ OwnOrigin \in Origins /\ Nothing \in Origins /\ OwnOrigin # Nothing
         /\ newest \in Origins /\ newest # Nothing
         /\ None \in [DevFiles -> Origins] /\ Taken \subseteq DevFiles
         /\ TakenWhole \in [DevFiles -> Origins]
<1>1. newest \in Origins /\ newest \in Nat /\ Nothing \in Origins /\ OwnOrigin \in Origins
  BY DEF DevTypeInv, DevTypeOK, ConstantsOK, Origins, OwnOrigin
<1>2. Taken \subseteq DevFiles
  BY DEF DevTypeInv, DevTypeOK, Taken, DevFiles
<1> QED
  BY <1>1, <1>2 DEF DevTypeInv, ConstantsOK, OwnOrigin, None, TakenWhole

-----------------------------------------------------------------------------
(* The steps.                                                              *)

LEMMA InitIsWhole ==
  ASSUME ConstantsOK, DevInit
  PROVE  IInv
<1>1. OwnOrigin \in Origins /\ Nothing \in Origins /\ OwnOrigin # Nothing /\ 0 \in 0 .. MaxRefreshes
  BY DEF ConstantsOK, Origins, OwnOrigin
<1>2. PICK some \in SUBSET DevStages :
        own = [f \in DevFiles |-> IF f[1] \in some THEN OwnOrigin ELSE Nothing]
  BY DEF DevInit
<1>3. DevTypeInv
  BY <1>1, <1>2 DEF DevInit, DevTypeInv, DevTypeOK, None, Resting
<1>4. \A s \in DevStages : own[<<s, "wal">>] \in {Nothing, own[<<s, "store">>]}
  BY <1>2, FilesOfStages
<1>5. StoresKept
  BY <1>4 DEF DevInit, StoresKept, Existing
<1>6. Settled /\ Swapping
  BY DEF DevInit, Settled, Swapping, AtStep, Resting
<1>7. InputsKept /\ UpstreamOfOneSet
  BY <1>1 DEF DevInit, InputsKept, UpstreamOfOneSet, Existing
<1> QED
  BY <1>3, <1>5, <1>6, <1>7 DEF IInv

LEMMA GotoType ==
  ASSUME DevTypeInv,
         StopRefresh \/ \E step \in {"clearInputs", "moveInputs", "placeInputs", "dropInputs",
                              "clearAside", "swap", "upstream"} : GoOn(step)
  PROVE  /\ refreshing' \in
              [step : {"none", "clearInputs", "moveInputs", "placeInputs", "dropInputs",
                       "clearAside", "swap", "upstream"},
               writable : BOOLEAN, stages : SUBSET DevStages, movedIn : SUBSET DevFiles]
         /\ refreshing'.movedIn = {} \/ refreshing'.movedIn = refreshing.movedIn
         /\ \A step : GoOn(step) => AtStep(step)' /\ refreshing'.movedIn = refreshing.movedIn
         /\ StopRefresh => AtStep("none")' /\ refreshing'.movedIn = {}
<1>1. CASE StopRefresh
  BY <1>1 DEF DevTypeInv, DevTypeOK, GoOn, StopRefresh, Resting, AtStep
<1>2. ASSUME NEW step \in {"clearInputs", "moveInputs", "placeInputs", "dropInputs", "clearAside",
                          "swap", "upstream"}, GoOn(step)
      PROVE  /\ refreshing' \in
                  [step : {"none", "clearInputs", "moveInputs", "placeInputs", "dropInputs",
                           "clearAside", "swap", "upstream"},
                   writable : BOOLEAN, stages : SUBSET DevStages, movedIn : SUBSET DevFiles]
             /\ refreshing'.movedIn = refreshing.movedIn /\ refreshing'.step = step
  BY <1>2 DEF DevTypeInv, DevTypeOK, GoOn
<1>3. \A step : GoOn(step) => AtStep(step)' /\ refreshing'.movedIn = refreshing.movedIn
  BY DEF DevTypeInv, DevTypeOK, GoOn, AtStep
<1>4. StopRefresh => AtStep("none")' /\ refreshing'.movedIn = {}
  BY DEF StopRefresh, Resting, AtStep
<1> QED
  BY <1>1, <1>2, <1>3, <1>4

LEMMA WorkIsWhole ==
  ASSUME IInv, NEW s \in DevStages, Work(s)
  PROVE  IInv'
<1> USE DEF IInv
<1>1. AtStep("none") /\ UNCHANGED <<aside, upstream, inputs, replaced, refreshing, cutOff, newest>>
  BY DEF Work
<1>2. PICK origin \in Origins, beside \in Origins :
        /\ beside \in {Nothing, origin}
        /\ own' = [own EXCEPT ![<<s, "store">>] = origin, ![<<s, "wal">>] = beside]
        /\ whole' = [whole EXCEPT ![<<s, "store">>] = origin, ![<<s, "wal">>] = beside]
  <2>1. PICK wal \in BOOLEAN :
          LET origin == IF own[<<s, "store">>] = Nothing THEN OwnOrigin ELSE own[<<s, "store">>]
              Worked(files) == [files EXCEPT ![<<s, "store">>] = origin,
                                             ![<<s, "wal">>] = IF wal THEN origin ELSE Nothing]
          IN own' = Worked(own) /\ whole' = Worked(whole)
    BY DEF Work
  <2> DEFINE origin == IF own[<<s, "store">>] = Nothing THEN OwnOrigin ELSE own[<<s, "store">>]
  <2>2. origin \in Origins /\ (IF wal THEN origin ELSE Nothing) \in Origins
    BY OriginTypes, FilesOfStages DEF DevTypeInv, DevTypeOK
  <2> QED
    BY <2>1, <2>2
<1>3. own \in [DevFiles -> Origins] /\ whole \in [DevFiles -> Origins]
  BY DEF DevTypeInv, DevTypeOK
<1>4. own' \in [DevFiles -> Origins] /\ whole' \in [DevFiles -> Origins]
  BY <1>2, <1>3
<1>5. DevTypeInv'
  BY <1>1, <1>4 DEF DevTypeInv, DevTypeOK, ConstantsOK
<1>6. \A f \in DevFiles : whole'[f] = own'[f] \/ (whole'[f] = whole[f] /\ own'[f] = own[f])
  BY <1>2, <1>3
<1>7. \A f \in Existing(whole)' : whole'[f] \in {own'[f], aside'[f]}
  BY <1>1, <1>3, <1>4, <1>6 DEF Existing, StoresKept
<1>8. "stores" \notin cutOff => own' = whole'
  BY <1>1, <1>2 DEF StoresKept, AtStep
<1>9. "stores" \notin cutOff =>
        \A t \in DevStages : whole'[<<t, "wal">>] \in {Nothing, whole'[<<t, "store">>]}
  <2> SUFFICES ASSUME "stores" \notin cutOff, NEW t \in DevStages
               PROVE  whole'[<<t, "wal">>] \in {Nothing, whole'[<<t, "store">>]}
    OBVIOUS
  <2>1. CASE t = s
    BY <1>2, <1>3, <2>1, FilesOfStages
  <2>2. CASE t # s
    BY <1>2, <1>3, <2>2, FilesOfStages DEF StoresKept
  <2> QED
    BY <2>1, <2>2
<1>10. StoresKept'
  BY <1>1, <1>7, <1>8, <1>9 DEF StoresKept
<1> QED
  BY <1>1, <1>5, <1>10 DEF Settled, Swapping, InputsKept, UpstreamOfOneSet, Existing, AtStep

(* Steps that leave the stores alone, outside a swap.                      *)
LEMMA StoresFrame ==
  ASSUME IInv, UNCHANGED <<own, aside, whole>>, ~ AtStep("swap"), ~ AtStep("swap")',
         refreshing'.movedIn = {}, "stores" \in cutOff => "stores" \in cutOff'
  PROVE  Settled' /\ Swapping' /\ StoresKept'
BY DEF IInv, Settled, Swapping, StoresKept, Existing

LEMMA InputsIsWhole ==
  ASSUME IInv,
         ClearInputs \/ MoveInputs \/ InputsNotReplaced \/ PlaceInputs \/ DropOldInputs
  PROVE  IInv'
<1> USE DEF IInv
<1>1. /\ UNCHANGED <<own, aside, upstream, whole, newest>>
      /\ ~ AtStep("swap") /\ refreshing.movedIn = {}
  BY DEF ClearInputs, MoveInputs, InputsNotReplaced, PlaceInputs, DropOldInputs, storesUnchanged,
    AtStep, Settled
<1>2. StopRefresh \/ \E step \in {"clearInputs", "moveInputs", "placeInputs", "dropInputs", "clearAside",
                           "upstream"} : GoOn(step)
  BY DEF ClearInputs, MoveInputs, InputsNotReplaced, PlaceInputs, DropOldInputs, AfterInputs
<1>3. /\ inputs' \in Origins /\ replaced' \in Origins /\ cutOff' \subseteq cutOff
      /\ "stores" \in cutOff => "stores" \in cutOff'
  BY OriginTypes DEF ClearInputs, MoveInputs, InputsNotReplaced, PlaceInputs, DropOldInputs,
    DevTypeInv, DevTypeOK
<1>4. DevTypeInv' /\ refreshing'.movedIn = {} /\ ~ AtStep("swap")'
  BY <1>1, <1>2, <1>3, GotoType DEF DevTypeInv, DevTypeOK, ConstantsOK, AtStep
<1>5. Settled' /\ Swapping' /\ StoresKept'
  BY <1>1, <1>3, <1>4, StoresFrame
<1>6. InputsKept'
  <2>1. CASE ClearInputs \/ InputsNotReplaced \/ DropOldInputs
    BY <2>1 DEF ClearInputs, InputsNotReplaced, DropOldInputs, InputsKept, AtStep
  <2>2. CASE MoveInputs
    BY <2>2, GotoType DEF MoveInputs, InputsKept, AtStep
  <2>3. CASE PlaceInputs
    BY <2>3, OriginTypes DEF PlaceInputs, InputsKept
  <2> QED
    BY <2>1, <2>2, <2>3
<1> QED
  BY <1>1, <1>4, <1>5, <1>6 DEF UpstreamOfOneSet, Existing

LEMMA BeginIsWhole ==
  ASSUME IInv, NEW withInputs \in BOOLEAN, NEW writable \in BOOLEAN, Begin(withInputs, writable)
  PROVE  IInv'
<1> USE DEF IInv
<1>1. /\ UNCHANGED <<own, aside, upstream, inputs, replaced, failures, whole, cutOff>>
      /\ AtStep("none") /\ newest' \in 0 .. MaxRefreshes
  BY DEF Begin, DevTypeInv, DevTypeOK, ConstantsOK
<1>2. PICK later \in SUBSET (DevStages \ {StageOrder[1]}) :
       refreshing' = [step |-> IF withInputs THEN "clearInputs" ELSE AfterInputs(writable),
                      writable |-> writable, stages |-> later \cup {StageOrder[1]},
                      movedIn |-> {}]
  BY DEF Begin
<1>3. StageOrder[1] \in DevStages
  BY DEF DevStages, DevTypeInv, ConstantsOK
<1>4. DevTypeInv' /\ refreshing'.movedIn = {} /\ ~ AtStep("swap")' /\ ~ AtStep("swap") /\ ~ AtStep("placeInputs")
  BY <1>1, <1>2, <1>3 DEF DevTypeInv, DevTypeOK, ConstantsOK, AtStep, AfterInputs
<1>5. Settled' /\ Swapping' /\ StoresKept'
  BY <1>1, <1>4, StoresFrame
<1> QED
  BY <1>1, <1>4, <1>5 DEF InputsKept, UpstreamOfOneSet, Existing

LEMMA ClearIsWhole ==
  ASSUME IInv, ClearAside \/ NotCopied
  PROVE  IInv'
<1> USE DEF IInv
<1>1. /\ AtStep("clearAside") /\ UNCHANGED <<own, upstream, inputs, replaced, cutOff, newest>>
      /\ StopRefresh \/ GoOn("swap")
  BY DEF ClearAside, NotCopied, inputsUnchanged
<1>2. /\ aside' \in [DevFiles -> Origins] /\ whole' \in [DevFiles -> Origins]
      /\ own \in [DevFiles -> Origins]
  <2>1. CASE ClearAside
    BY <2>1, OriginTypes DEF ClearAside, DevTypeInv, DevTypeOK
  <2>2. CASE NotCopied
    BY <2>2, OriginTypes DEF NotCopied, Existing, DevTypeInv, DevTypeOK
  <2> QED
    BY <2>1, <2>2
<1>3. DevTypeInv' /\ refreshing.movedIn = {} /\ refreshing'.movedIn = {}
      /\ ~ AtStep("placeInputs") /\ ~ AtStep("swap")
  BY <1>1, <1>2, GotoType DEF DevTypeInv, DevTypeOK, ConstantsOK, Settled, AtStep
<1>4. whole' = own \/ (whole' = whole /\ aside' = aside)
  BY DEF ClearAside, NotCopied
<1>5. StoresKept'
  <2>1. \A f \in Existing(whole)' : whole'[f] \in {own'[f], aside'[f]}
    BY <1>1, <1>4 DEF StoresKept, Existing
  <2>2. "stores" \notin cutOff => own' = whole' /\ whole' = whole
    BY <1>1, <1>3, <1>4 DEF StoresKept
  <2> QED
    BY <1>1, <2>1, <2>2 DEF StoresKept
<1>6. Swapping'
  <2>1. AtStep("swap")' => own' = whole' /\ aside' = None
    BY <1>1, GotoType DEF ClearAside, NotCopied, AtStep
  <2> QED
    BY <1>2, <1>3, <2>1 DEF Swapping, None
<1> QED
  BY <1>1, <1>3, <1>5, <1>6 DEF Settled, InputsKept, UpstreamOfOneSet, Existing

(* A swap's moves: the old files out, then the set's in.                   *)
LEMMA MovesAreWhole ==
  ASSUME IInv, MoveAside \/ MoveIn
  PROVE  IInv'
<1> USE DEF IInv
<1>1. /\ AtStep("swap") /\ UNCHANGED <<upstream, inputs, replaced, whole, cutOff, newest>>
      /\ own \in [DevFiles -> Origins] /\ aside \in [DevFiles -> Origins]
      /\ Nothing \in Origins /\ newest \in Origins /\ newest # Nothing /\ Taken \subseteq DevFiles
  BY OriginTypes DEF MoveAside, MoveIn, inputsUnchanged, DevTypeInv, DevTypeOK
<1>2. CASE MoveAside
  <2>1. PICK f : f = First(ToMoveAside)
    OBVIOUS
  <2>2. f \in DevFiles /\ own[f] # Nothing /\ f \notin refreshing.movedIn
    <3>1. ToMoveAside \in SUBSET DevFiles
      BY <1>1 DEF ToMoveAside, Existing
    <3>2. f \in ToMoveAside
      BY <1>2, <2>1, <3>1, FirstIsOne DEF MoveAside, DevTypeInv
    <3> QED
      BY <1>1, <3>2 DEF ToMoveAside, Existing
  <2>3. /\ aside' = [aside EXCEPT ![f] = own[f]] /\ own' = [own EXCEPT ![f] = Nothing]
        /\ UNCHANGED refreshing
    BY <1>2, <2>1 DEF MoveAside
  <2>4. DevTypeInv'
    BY <1>1, <2>2, <2>3 DEF DevTypeInv, DevTypeOK, ConstantsOK
  <2>5. refreshing.movedIn = {} /\ aside[f] = Nothing /\ own[f] = whole[f]
    BY <1>1, <2>2 DEF Swapping
  <2>6. Swapping'
    BY <1>1, <2>2, <2>3, <2>5 DEF Swapping, AtStep, Taken
  <2>7. StoresKept'
    BY <1>1, <2>2, <2>3, <2>5 DEF StoresKept, Existing, AtStep
  <2> QED
    BY <1>1, <2>3, <2>4, <2>6, <2>7 DEF Settled, InputsKept, UpstreamOfOneSet, Existing, AtStep
<1>3. CASE MoveIn
  <2> DEFINE left == Taken \ refreshing.movedIn
  <2>1. PICK f : f = First(left)
    OBVIOUS
  <2>2. f \in Taken /\ f \in DevFiles /\ f \notin refreshing.movedIn
    <3>1. left # {} /\ left \in SUBSET DevFiles
      BY <1>1, <1>3 DEF MoveIn
    <3>2. f \in left
      BY <2>1, <3>1, FirstIsOne DEF DevTypeInv
    <3> QED
      BY <1>1, <3>2
  <2>3. /\ own' = [own EXCEPT ![f] = newest]
        /\ refreshing' = [refreshing EXCEPT !.movedIn = @ \cup {f}]
        /\ UNCHANGED aside /\ ToMoveAside = {}
    BY <1>3, <2>1 DEF MoveIn
  <2>4. /\ refreshing'.movedIn = refreshing.movedIn \cup {f}
        /\ refreshing'.step = refreshing.step /\ refreshing'.stages = refreshing.stages
    BY <2>3 DEF DevTypeInv, DevTypeOK
  <2>5. DevTypeInv'
    BY <1>1, <2>2, <2>3 DEF DevTypeInv, DevTypeOK, ConstantsOK
  <2>6. \A g \in DevFiles \ refreshing.movedIn : own[g] = Nothing /\ aside[g] = whole[g]
    BY <1>1, <2>3 DEF ToMoveAside, Existing, Swapping
  <2>7. Swapping'
    BY <1>1, <2>2, <2>3, <2>4, <2>6 DEF Swapping, AtStep, Taken
  <2>8. StoresKept'
    <3>1. \A g \in DevFiles : aside[g] = whole[g]
      BY <1>1, <2>6 DEF Swapping
    <3>2. whole \in [DevFiles -> Origins]
      BY DEF DevTypeInv, DevTypeOK
    <3> QED
      BY <1>1, <2>3, <2>4, <3>1, <3>2 DEF StoresKept, Existing, AtStep
  <2> QED
    BY <1>1, <2>4, <2>5, <2>7, <2>8 DEF Settled, InputsKept, UpstreamOfOneSet, Existing, AtStep
<1> QED
  BY <1>2, <1>3

(* Undone, a swap leaves the stores as they were, but for what is stuck.   *)
LEMMA UndoIsWhole ==
  ASSUME IInv, UndoSwap
  PROVE  IInv'
<1> USE DEF IInv
<1>1. /\ AtStep("swap") /\ UNCHANGED <<upstream, inputs, replaced, whole, newest>>
      /\ own \in [DevFiles -> Origins] /\ aside \in [DevFiles -> Origins]
      /\ whole \in [DevFiles -> Origins] /\ Nothing \in Origins /\ StopRefresh
  BY OriginTypes DEF UndoSwap, inputsUnchanged, DevTypeInv, DevTypeOK
<1>2. PICK stuckIn \in SUBSET refreshing.movedIn, stuckAside \in SUBSET Existing(aside) :
        /\ own' = [f \in DevFiles |->
                     IF f \in Existing(aside) \ stuckAside THEN aside[f]
                     ELSE IF f \in refreshing.movedIn \ stuckIn THEN Nothing ELSE own[f]]
        /\ aside' = [f \in DevFiles |->
                       IF f \in Existing(aside) \ stuckAside THEN Nothing ELSE aside[f]]
        /\ cutOff' = IF stuckIn \cup stuckAside = {} THEN cutOff ELSE cutOff \cup {"stores"}
  BY DEF UndoSwap
<1>3. own' \in [DevFiles -> Origins] /\ aside' \in [DevFiles -> Origins]
  BY <1>1, <1>2
<1>4. DevTypeInv' /\ AtStep("none")' /\ refreshing'.movedIn = {}
  BY <1>1, <1>2, <1>3, GotoType DEF DevTypeInv, DevTypeOK, ConstantsOK
<1>5. \A f \in DevFiles : whole[f] # Nothing => whole[f] \in {own'[f], aside'[f]}
  <2> SUFFICES ASSUME NEW f \in DevFiles, whole[f] # Nothing
               PROVE  whole[f] \in {own'[f], aside'[f]}
    OBVIOUS
  <2>1. CASE f \in Existing(aside)
    BY <1>1, <1>2, <2>1 DEF Existing, Swapping
  <2>2. CASE f \notin Existing(aside)
    BY <1>1, <1>2, <2>2 DEF Existing, Swapping
  <2> QED
    BY <2>1, <2>2
<1>6. ASSUME "stores" \notin cutOff'
      PROVE  own' = whole' /\ "stores" \notin cutOff
  <2>1. stuckIn = {} /\ stuckAside = {}
    BY <1>2, <1>6
  <2>2. \A f \in DevFiles : own'[f] = whole[f]
    BY <1>1, <1>2, <2>1 DEF Existing, Swapping
  <2> QED
    BY <1>1, <1>2, <1>3, <1>6, <2>1, <2>2
<1>7. StoresKept'
  BY <1>1, <1>4, <1>5, <1>6 DEF StoresKept, Existing
<1>8. "inputs" \notin cutOff' => "inputs" \notin cutOff
  BY <1>2
<1> QED
  BY <1>1, <1>4, <1>7, <1>8 DEF Settled, Swapping, InputsKept, UpstreamOfOneSet, Existing, AtStep

(* A swap that ends leaves the set's stores and nothing beside them.       *)
LEMMA SwappedInIsWhole ==
  ASSUME IInv, SwappedIn
  PROVE  IInv'
<1> USE DEF IInv
<1>1. /\ AtStep("swap") /\ ToMoveAside = {} /\ Taken \subseteq refreshing.movedIn
      /\ UNCHANGED <<own, upstream, inputs, replaced, newest>> /\ StopRefresh
      /\ whole' = TakenWhole /\ cutOff' = cutOff \ {"stores"}
      /\ own \in [DevFiles -> Origins] /\ aside \in [DevFiles -> Origins]
      /\ TakenWhole \in [DevFiles -> Origins]
  BY OriginTypes DEF SwappedIn, inputsUnchanged, DevTypeInv, DevTypeOK
<1>2. aside' \in [DevFiles -> Origins]
  BY <1>1, OriginTypes DEF SwappedIn, Existing
<1>3. DevTypeInv' /\ AtStep("none")' /\ refreshing'.movedIn = {}
  BY <1>1, <1>2, GotoType DEF DevTypeInv, DevTypeOK, ConstantsOK
<1>4. own = TakenWhole
  <2>1. \A f \in DevFiles : own[f] = TakenWhole[f]
    BY <1>1 DEF Swapping, ToMoveAside, Existing, TakenWhole
  <2> QED
    BY <1>1, <2>1
<1>5. \A s \in DevStages : TakenWhole[<<s, "wal">>] = Nothing
  BY FilesOfStages DEF TakenWhole, Taken
<1>6. StoresKept'
  BY <1>1, <1>4, <1>5 DEF StoresKept, Existing
<1> QED
  BY <1>1, <1>3, <1>6 DEF Settled, Swapping, InputsKept, UpstreamOfOneSet, Existing, AtStep

LEMMA UpstreamIsWhole ==
  ASSUME IInv, RemoveUpstream \/ PlaceUpstream
  PROVE  IInv'
<1> USE DEF IInv
<1>1. /\ UNCHANGED <<own, aside, inputs, replaced, whole, cutOff, newest>> /\ AtStep("upstream")
      /\ upstream \in [DevStages -> Origins] /\ Nothing \in Origins
      /\ TakenWhole \in [DevFiles -> Origins]
  BY OriginTypes DEF RemoveUpstream, PlaceUpstream, inputsUnchanged, DevTypeInv, DevTypeOK
<1>2. upstream' \in [DevStages -> Origins] /\ UpstreamOfOneSet'
  <2>1. CASE RemoveUpstream
    BY <1>1, <2>1 DEF RemoveUpstream, UpstreamOfOneSet, Existing
  <2>2. CASE PlaceUpstream
    <3>1. upstream' = [s \in DevStages |-> TakenWhole[<<s, "store">>]]
      BY <2>2 DEF PlaceUpstream
    <3>2. \A s \in DevStages : upstream'[s] \in {newest, Nothing} /\ upstream'[s] \in Origins
      BY <1>1, <3>1, FilesOfStages DEF TakenWhole
    <3> QED
      BY <3>1, <3>2 DEF UpstreamOfOneSet, Existing
  <2> QED
    BY <2>1, <2>2
<1>3. /\ DevTypeInv' /\ ~ AtStep("swap") /\ ~ AtStep("swap")' /\ refreshing'.movedIn = {}
      /\ ~ AtStep("placeInputs")
  <2>1. refreshing' = refreshing \/ StopRefresh
    BY DEF RemoveUpstream, PlaceUpstream
  <2> QED
    BY <1>1, <1>2, <2>1, GotoType DEF DevTypeInv, DevTypeOK, ConstantsOK, Settled, AtStep
<1>4. Settled' /\ Swapping' /\ StoresKept'
  BY <1>1, <1>3, StoresFrame
<1> QED
  BY <1>1, <1>2, <1>3, <1>4 DEF InputsKept

LEMMA CutOffIsWhole ==
  ASSUME IInv, CutOff
  PROVE  IInv'
<1> USE DEF IInv
<1>1. /\ UNCHANGED <<own, aside, upstream, inputs, replaced, whole, newest>> /\ StopRefresh
      /\ cutOff' = cutOff \cup HalfDone
  BY DEF CutOff
<1>2. /\ AtStep("swap") => HalfDone = {"stores"}
      /\ AtStep("placeInputs") => HalfDone = {"inputs"}
      /\ HalfDone \subseteq {"stores", "inputs"}
  BY DEF HalfDone, AtStep
<1>3. DevTypeInv' /\ AtStep("none")' /\ refreshing'.movedIn = {}
  BY <1>1, <1>2, GotoType DEF DevTypeInv, DevTypeOK, ConstantsOK
<1>4. StoresKept'
  BY <1>1, <1>2, <1>3 DEF StoresKept, Existing
<1> QED
  BY <1>1, <1>2, <1>3, <1>4 DEF Settled, Swapping, InputsKept, UpstreamOfOneSet, Existing, AtStep

LEMMA WholeStep ==
  ASSUME IInv, [DevNext]_devVars
  PROVE  IInv'
<1>1. CASE UNCHANGED devVars
  BY <1>1 DEF devVars, IInv, DevTypeInv, DevTypeOK, ConstantsOK, Settled, Swapping, StoresKept, InputsKept,
    UpstreamOfOneSet, Existing, AtStep, Taken
<1>2. CASE DevNext
  BY <1>2, WorkIsWhole, BeginIsWhole, InputsIsWhole, ClearIsWhole, MovesAreWhole, UndoIsWhole,
     SwappedInIsWhole, UpstreamIsWhole, CutOffIsWhole DEF DevNext
<1> QED
  BY <1>1, <1>2

LEMMA RefreshInvariant == DevSpec => []IInv
<1>1. DevInit => IInv
  BY InitIsWhole, DevelopmentConstants
<1>2. IInv /\ [DevNext]_devVars => IInv'
  BY WholeStep
<1> QED
  BY <1>1, <1>2, PTL DEF DevSpec

(* Development's files are known by where they are from.                   *)
THEOREM DevTypeCorrect == DevSpec => []DevTypeOK
<1>1. IInv => DevTypeOK
  BY DEF IInv, DevTypeInv
<1> QED
  BY <1>1, RefreshInvariant, PTL

(* Wherever a refresh fails or is cut off, development's stores, inputs    *)
(* and upstream folder are what they were or what the set is, or the old   *)
(* are still aside.  The next refresh deletes what is aside; unless the    *)
(* one before it left development half done, that is none of what it had.  *)
THEOREM RefreshedWhole == DevSpec => []DevelopmentIsWhole
<1>1. IInv => DevelopmentIsWhole
  BY DEF IInv, DevTypeInv, StoresKept, InputsKept, UpstreamOfOneSet, DevelopmentIsWhole, AtStep
<1> QED
  BY <1>1, RefreshInvariant, PTL

=============================================================================
