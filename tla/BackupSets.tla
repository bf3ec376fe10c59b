----------------------------- MODULE BackupSets -----------------------------
(***************************************************************************)
(* Backup sets: what one holds, when one may be written, which of them are *)
(* complete, which a recovery holds and which retention deletes            *)
(* (src/budget/backups.py), over the profile they copy.                    *)
(*                                                                         *)
(* A store is the schema version it stands at, 0 while there is none; the  *)
(* Bronze store also has the import runs it holds.  A log is the set of    *)
(* entries in it, numbered in the order they were made, so one log begins  *)
(* another when it holds its earliest entries.  Names of sets are the time *)
(* they were taken, read from a clock that may show any time at all.       *)
(***************************************************************************)
EXTENDS Naturals, Sequences, FiniteSets

CONSTANTS
  Stages,         \* the stages, in the order they are migrated; Bronze is first
  Absent,         \* a log there is no file of
  MaxVersion,     \* bound on schema versions
  MaxEntries,     \* bound on the entries of each log
  MaxSets,        \* bound on the sets ever written
  MaxTime,        \* bound on the clock
  MomentsPerDay,
  DaysPerMonth,
  KeepAllDays,    \* the retention policy
  KeepDailyDays,
  KeepMonthly

ASSUME BoundsAssumption ==
  /\ {Len(Stages), MaxVersion, MaxSets, MomentsPerDay, DaysPerMonth} \subseteq Nat \ {0}
  /\ {MaxEntries, MaxTime, KeepAllDays, KeepDailyDays, KeepMonthly} \subseteq Nat

VARIABLES
  latest,    \* the schema version the code applies to each stage
  stores,    \* the version each store stands at, 0 for none
  bronze,    \* the runs the Bronze store holds
  logs,      \* the import log and the decision log among the inputs
  sets,      \* every set written, in the order they were
  kept,      \* those there is still a folder of
  held       \* those recovery-sets.json names

setVars == <<latest, stores, bronze, logs, sets, kept, held>>

-----------------------------------------------------------------------------

StageSet == {Stages[k] : k \in 1 .. Len(Stages)}

Bronze == Stages[1]

Logs == {"imports.jsonl", "decisions.jsonl"}

Runs == 1 .. MaxEntries

LogCopies == [Logs -> (SUBSET Runs) \cup {Absent}]

BackupSet ==
  [time : 0 .. MaxTime,
   versions : UNION {[some -> 1 .. MaxVersion] : some \in SUBSET StageSet},
   runs : SUBSET Runs,
   logs : LogCopies,
   intact : BOOLEAN]

ASSUME AbsentAssumption ==
  /\ \A copy \in SUBSET Runs : copy # Absent
  /\ \A unfinished \in [set : 1 .. MaxSets, putBack : SUBSET Logs] : unfinished # Absent

EntriesOf(log) == IF log = Absent THEN {} ELSE log

\* Whether `log` starts with the entries of `copy`.
Begins(copy, log) ==
  copy \subseteq log /\ \A e \in log \ copy, c \in copy : c < e

-----------------------------------------------------------------------------

\* Every file has the checksum the manifest records.
Complete == {i \in kept : sets[i].intact}

HoldsStore(i, stage) == stage \in DOMAIN sets[i].versions

CompleteSetHolds(stage) == \E i \in Complete : HoldsStore(i, stage)

Started == {s \in StageSet : stores[s] # 0}

\* Neither unversioned nor newer than the code; it may be older.
Known(stage, version) == version \in 1 .. latest[stage]

LostStores == {s \in StageSet \ Started : CompleteSetHolds(s)}

\* (A bug in Writable: a set may leave out a store that earlier sets hold.)
WritableWithoutLost ==
  /\ Bronze \in Started
  /\ \A s \in Started : Known(s, stores[s])
  /\ EntriesOf(logs["imports.jsonl"]) \subseteq bronze

\* Bronze is always copied; a store newer than the code cannot be opened; the
\* log must list no run the copy of Bronze lacks.
Writable ==
  /\ Bronze \in Started
  /\ LostStores = {}
  /\ \A s \in Started : Known(s, stores[s])
  /\ EntriesOf(logs["imports.jsonl"]) \subseteq bronze

SetTaken(now) ==
  [time |-> now, versions |-> [s \in Started |-> stores[s]],
   runs |-> bronze, logs |-> logs, intact |-> TRUE]

NameTaken(now) == \E i \in kept : sets[i].time = now

\* Staged, copied under a temporary name, checked against its manifest and
\* renamed: no set has its name before it is whole.
WriteSet(now) ==
  /\ Writable
  /\ ~NameTaken(now)
  /\ Len(sets) < MaxSets
  /\ sets' = Append(sets, SetTaken(now))
  /\ kept' = kept \cup {Len(sets')}
  /\ UNCHANGED <<latest, stores, bronze, logs, held>>

Newest == Len(sets)

-----------------------------------------------------------------------------
(* Retention.                                                               *)

Day == [time \in 0 .. MaxTime |-> time \div MomentsPerDay]

Month == [time \in 0 .. MaxTime |-> Day[time] \div DaysPerMonth]

\* The newest set of a day, or of a month.
NewestOf(period, i) ==
  \A j \in kept : period[sets[j].time] = period[sets[i].time] => sets[j].time <= sets[i].time

KeptByPolicy(now) ==
  {i \in kept :
     LET time == sets[i].time IN
       \/ now < time + KeepAllDays * MomentsPerDay
       \/ now < time + KeepDailyDays * MomentsPerDay /\ NewestOf(Day, i)
       \/ NewestOf(Month, i) /\ Month[now] < Month[time] + KeepMonthly}

\* A store the set records is behind the one in the newest set.
Superseded(i) ==
  \E s \in DOMAIN sets[i].versions \cap DOMAIN sets[Newest].versions :
    sets[i].versions[s] < sets[Newest].versions[s]

StillHeld(some) == {i \in some : ~Superseded(i)}

\* (A bug in Retire: every hold is released once a newer set is written.)
RetireReleasingAll ==
  /\ held' = {}
  /\ \E deleted \in SUBSET (kept \ (KeptByPolicy(sets[Newest].time) \cup {Newest})) :
       kept' = kept \ deleted
  /\ UNCHANGED <<latest, stores, bronze, logs, sets>>

\* Holds that cannot be released stay; deleting may fail, or be cut off, at any.
Retire ==
  /\ held' \in {held, StillHeld(held)}
  /\ \E deleted \in SUBSET (kept \ (KeptByPolicy(sets[Newest].time) \cup {Newest} \cup held')) :
       kept' = kept \ deleted
  /\ UNCHANGED <<latest, stores, bronze, logs, sets>>

=============================================================================
