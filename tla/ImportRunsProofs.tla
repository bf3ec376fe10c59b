-------------------------- MODULE ImportRunsProofs --------------------------
(* Proofs that the import keeps its types, that a payload has one owner and  *)
(* a place of the archive one payload, that the log restates Bronze, names   *)
(* what is archived and can be replayed, and that a crash never stands in    *)
(* the way of later imports: for every set of accounts, names, payloads and  *)
(* runs, and for any number of crashes, saves, restores and outside changes. *)
EXTENDS ImportRuns, FiniteFacts, TLAPS, FiniteSetTheorems, SequenceTheorems

-----------------------------------------------------------------------------
(* Helpers.                                                                 *)

\* The oldest of some runs, or the first of some indices, is one of them.
LEMMA OldestIsLeast ==
  ASSUME NEW S \in SUBSET Nat, IsFiniteSet(S), S # {}
  PROVE  Oldest(S) \in S /\ \A s \in S : Oldest(S) <= s
BY MinIsLeast DEF Oldest

\* Each candidate is a place, and there are one or two of them.
LEMMA CandidatesType ==
  ASSUME NEW r \in Runs
  PROVE  /\ DOMAIN Candidates(r) \in {{1}, {1, 2}}
         /\ \A i \in DOMAIN Candidates(r) : Candidates(r)[i] \in Places
BY DEF Candidates, Runs, Outcomes, Places, PlaceIn

\* _archived_at picks a candidate no entry reserves for other bytes, which
\* holds the run's bytes or is free.
LEMMA ArchivedAtIsOpen ==
  ASSUME NEW r \in Runs, HasPlace(r)
  PROVE  \E i \in Holding(r) \cup Free(r) : ArchivedAt(r) = Candidates(r)[i]
<1> DEFINE S == IF Holding(r) # {} THEN Holding(r) ELSE Free(r)
<1>1. S \in SUBSET Nat /\ IsFiniteSet(S)
  <2>1. S \subseteq 1 .. 2
    BY CandidatesType DEF Holding, Free, Open
  <2>2. IsFiniteSet(1 .. 2)
    <3>1. 1 \in Int /\ 2 \in Int
      OBVIOUS
    <3> QED
      BY ONLY <3>1, FS_Interval, Zenon
  <2> QED
    BY <2>1, <2>2, FS_Subset
<1>2. S # {} /\ S \subseteq Holding(r) \cup Free(r)
  BY DEF HasPlace
<1>3. Oldest(S) \in S
  BY <1>1, <1>2, OldestIsLeast
<1> QED
  BY <1>2, <1>3 DEF ArchivedAt

\* ...so it is one of the archive's places.
LEMMA ArchivedAtType ==
  ASSUME NEW r \in Runs, HasPlace(r)
  PROVE  ArchivedAt(r) \in Places
BY ArchivedAtIsOpen, CandidatesType DEF Holding, Free, Open

-----------------------------------------------------------------------------
(* Types.                                                                   *)

\* Some run the log lacks is the oldest one, and Bronze holds it.
LEMMA OldestUnlogged ==
  ASSUME TypeOK, Unlogged # {}
  PROVE  Oldest(Unlogged) \in Unlogged /\ Oldest(Unlogged) \in Recorded
<1>1. Unlogged \subseteq RunIds /\ Unlogged \subseteq Recorded
  BY DEF Unlogged, Recorded
<1>2. Unlogged \in SUBSET Nat /\ IsFiniteSet(Unlogged)
  BY <1>1, RunIdsAssumption, FS_Subset
<1> QED
  BY <1>1, <1>2, OldestIsLeast

\* A recorded rank holds a run.
LEMMA RecordedRuns ==
  ASSUME TypeOK, NEW r \in Recorded
  PROVE  runs[r] \in Runs /\ r \in RunIds /\ r # None
BY NoneAssumption DEF TypeOK, Recorded

\* What Bronze and the log hold is what runs and log say.
LEMMA SameRunsSameLog ==
  ASSUME UNCHANGED <<runs, log>>
  PROVE  /\ Recorded' = Recorded /\ Entries' = Entries
         /\ Logged' = Logged /\ Unlogged' = Unlogged
BY DEF Recorded, Entries, Logged, Unlogged

\* A run decided for an inbox file is a run.
LEMMA DecideType ==
  ASSUME TypeOK, NEW f \in Files, NEW p \in Payloads, NEW refused \in BOOLEAN
  PROVE  Decide(f, p, refused) \in Runs
<1> DEFINE here == {r \in InForce(p) : runs[r].account = f[1]}
<1>1. f[1] \in Accounts /\ f[2] \in Names
  BY FilesAssumption
<1>2. here \in SUBSET Nat /\ IsFiniteSet(here) /\ here \subseteq RunIds
  <2>1. here \subseteq RunIds
    BY DEF InForce, Recorded
  <2> QED
    BY <2>1, RunIdsAssumption, FS_Subset
<1>3. here # {} => Oldest(here) \in RunIds
  BY <1>2, OldestIsLeast
<1> QED
  BY <1>1, <1>3 DEF Decide, Runs, Outcomes

\* Every store and file starts out well typed.
LEMMA TypeInit == Init => TypeOK
<1> SUFFICES ASSUME Init PROVE TypeOK
  OBVIOUS
<1>1. runs \in [RunIds -> Runs \cup {None}] /\ archive \in [Places -> Payloads \cup {None, Foreign}]
  BY DEF Init
<1>2. inbox \in [Files -> Payloads \cup {None}] /\ log \in Seq([run: RunIds, place: Places])
  BY DEF Init
<1>3. spent \in [{"crashes", "saves", "outside", "restores"} -> Nat]
  BY DEF Init
<1> QED
  BY <1>1, <1>2, <1>3 DEF Init, TypeOK

\* Recording a run keeps the runs there were.
LEMMA RecordedGrows ==
  ASSUME TypeOK, NEW r \in RunIds \ Recorded, NEW new \in Runs,
         runs' = [runs EXCEPT ![r] = new]
  PROVE  /\ Recorded' = Recorded \cup {r}
         /\ runs' \in [RunIds -> Runs \cup {None}]
         /\ runs'[r] = new
         /\ \A s \in Recorded : runs'[s] = runs[s]
BY NoneAssumption DEF TypeOK, Recorded

\* Every step of an import, of a decision and of the world around them keeps
\* the types, and with them where an import may be and what it then knows.
LEMMA TypeNext == TypeOK /\ [Next]_vars => TypeOK'
<1> SUFFICES ASSUME TypeOK, [Next]_vars PROVE TypeOK'
  OBVIOUS
<1> USE DEF bronze, disk, command
<1>1. CASE UNCHANGED vars
  BY <1>1, SameRunsSameLog DEF TypeOK, vars
<1>2. ASSUME NEW f \in Files, Begin(f) PROVE TypeOK'
  BY <1>2, SameRunsSameLog DEF TypeOK, Begin
<1>3. CASE ImportNothing
  BY <1>3, SameRunsSameLog DEF TypeOK, ImportNothing
<1>4. CASE Recover
  BY <1>4, SameRunsSameLog DEF TypeOK, Recover, Goto
<1>5. CASE CompleteLine
  <2>1. PICK e \in Proving : log' = Append(log, e)
    BY <1>5 DEF CompleteLine
  <2>2. PICK u \in Unlogged : /\ Holding(runs[u]) # {}
                              /\ e = [run |-> u, place |-> ArchivedAt(runs[u])]
    BY <2>1 DEF Proving
  <2>3. runs[u] \in Runs /\ u \in RunIds
    BY <2>2, RecordedRuns DEF Unlogged
  <2>4. ArchivedAt(runs[u]) \in Places
    BY <2>2, <2>3, ArchivedAtType DEF HasPlace
  <2>5. log' \in Seq([run: RunIds, place: Places])
    BY <2>1, <2>2, <2>3, <2>4 DEF TypeOK
  <2>6. Recorded' = Recorded
    BY <1>5 DEF CompleteLine, Recorded
  <2> QED
    BY <1>5, <2>5, <2>6 DEF TypeOK, CompleteLine, Goto
<1>6. CASE LogDamaged
  BY <1>6, SameRunsSameLog DEF TypeOK, LogDamaged, End
<1>7. CASE ArchiveOldest
  <2> DEFINE u == Oldest(Unlogged)
  <2>1. u \in Recorded /\ runs[u] \in Runs
    BY <1>7, OldestUnlogged, RecordedRuns DEF ArchiveOldest
  <2>2. ArchivedAt(runs[u]) \in Places /\ runs[u].payload \in Payloads
    BY <1>7, <2>1, ArchivedAtType DEF ArchiveOldest, WriteCopy, Runs
  <2>3. /\ archive' \in [Places -> Payloads \cup {None, Foreign}]
        /\ place' \in Places
    BY <1>7, <2>2 DEF TypeOK, ArchiveOldest, WriteCopy
  <2> QED
    BY <1>7, <2>3, SameRunsSameLog DEF TypeOK, ArchiveOldest, Goto
<1>8. CASE LogOldest
  <2>1. Oldest(Unlogged) \in RunIds /\ place \in Places
    BY <1>8, OldestUnlogged DEF TypeOK, LogOldest, Recorded
  <2>2. log' \in Seq([run: RunIds, place: Places])
    BY <1>8, <2>1 DEF TypeOK, LogOldest
  <2>3. Recorded' = Recorded
    BY <1>8 DEF LogOldest, Recorded
  <2> QED
    BY <1>8, <2>2, <2>3 DEF TypeOK, LogOldest, Goto
<1>9. CASE CaughtUp
  BY <1>9, SameRunsSameLog DEF TypeOK, CaughtUp, Goto
<1>10. CASE FindEarlier
  <2>1. EarlierRuns(file, inbox[file]) \subseteq Recorded
    BY DEF EarlierRuns
  <2>2. EarlierRuns(file, inbox[file]) \in SUBSET Nat
        /\ IsFiniteSet(EarlierRuns(file, inbox[file]))
    BY <2>1, RunIdsAssumption, FS_Subset DEF Recorded
  <2>3. run' \in Recorded
    BY <1>10, <2>1, <2>2, OldestIsLeast DEF FindEarlier
  <2> QED
    BY <1>10, <2>3, SameRunsSameLog DEF TypeOK, FindEarlier, Goto
<1>11. CASE FindNone
  BY <1>11, SameRunsSameLog DEF TypeOK, FindNone, Goto
<1>12. CASE Record
  <2>1. PICK r \in FreshIds, refused \in BOOLEAN :
          /\ runs' = [runs EXCEPT ![r] = Decide(file, inbox[file], refused)]
          /\ run' = r
    BY <1>12 DEF Record
  <2>2. file \in Files /\ inbox[file] \in Payloads
    BY <1>12 DEF TypeOK, Record
  <2>3. Decide(file, inbox[file], refused) \in Runs /\ r \in RunIds \ Recorded
    BY <2>2, DecideType DEF FreshIds
  <2>4. /\ runs' \in [RunIds -> Runs \cup {None}]
        /\ Recorded' = Recorded \cup {r}
    BY <2>1, <2>3, RecordedGrows
  <2> QED
    BY <1>12, <2>1, <2>4 DEF TypeOK, Record, Goto
<1>13. CASE ReadFails
  BY <1>13, SameRunsSameLog DEF TypeOK, ReadFails, End
<1>14. CASE ArchiveOwn
  <2>1. runs[run].payload \in Payloads
    BY <1>14, RecordedRuns DEF TypeOK, ArchiveOwn, Runs
  <2>2. archive' \in [Places -> Payloads \cup {None, Foreign}]
    BY <1>14, <2>1 DEF TypeOK, ArchiveOwn
  <2> QED
    BY <1>14, <2>2, SameRunsSameLog DEF TypeOK, ArchiveOwn, Goto
<1>15. CASE ArchiveConflict
  BY <1>15, SameRunsSameLog DEF TypeOK, ArchiveConflict, End
<1>16. CASE KeepArchived
  <2>1. runs[run].payload \in Payloads
    BY <1>16, RecordedRuns DEF TypeOK, KeepArchived, Runs
  <2>2. archive' \in [Places -> Payloads \cup {None, Foreign}]
    BY <1>16, <2>1 DEF TypeOK, KeepArchived
  <2> QED
    BY <1>16, <2>2, SameRunsSameLog DEF TypeOK, KeepArchived, Goto
<1>17. CASE CopyReplaced
  BY <1>17, SameRunsSameLog DEF TypeOK, CopyReplaced, End
<1>18. CASE LeaveInInbox
  BY <1>18, SameRunsSameLog DEF TypeOK, LeaveInInbox, End
<1>19. CASE ClearChecked
  BY <1>19, SameRunsSameLog DEF TypeOK, ClearChecked, Goto
<1>20. CASE Unlink
  <2>1. inbox' \in [Files -> Payloads \cup {None}]
    BY <1>20 DEF TypeOK, Unlink
  <2> QED
    BY <1>20, <2>1, SameRunsSameLog DEF TypeOK, Unlink, End
<1>21. CASE UnlinkDenied
  BY <1>21, SameRunsSameLog DEF TypeOK, UnlinkDenied, End
<1>22. ASSUME NEW what \in {"crashes", "saves", "outside", "restores"},
              NEW bound \in Nat, Spend(what, bound)
       PROVE  spent' \in [{"crashes", "saves", "outside", "restores"} -> Nat]
  BY <1>22 DEF TypeOK, Spend
<1>23. CASE Crash
  BY <1>23, <1>22, BoundsAssumption, SameRunsSameLog DEF TypeOK, Crash, End
<1>24. CASE CrashAppending
  <2>1. cut' \in Cuts
    BY <1>24, OldestUnlogged
    DEF TypeOK, CrashAppending, Prefixes, Cuts, Recorded
  <2> QED
    BY <1>24, <1>22, <2>1, BoundsAssumption, SameRunsSameLog
    DEF TypeOK, CrashAppending, End
<1>25. CASE CrashCompleting
  <2>1. PICK e \in Proving : cut' \in Prefixes(e)
    BY <1>25 DEF CrashCompleting
  <2>2. PICK u \in Unlogged : /\ Holding(runs[u]) # {}
                              /\ e = [run |-> u, place |-> ArchivedAt(runs[u])]
    BY <2>1 DEF Proving
  <2>3. runs[u] \in Runs /\ u \in RunIds
    BY <2>2, RecordedRuns DEF Unlogged
  <2>4. ArchivedAt(runs[u]) \in Places
    BY <2>2, <2>3, ArchivedAtType DEF HasPlace
  <2>5. cut' \in Cuts
    BY <2>1, <2>2, <2>3, <2>4 DEF Prefixes, Cuts
  <2> QED
    BY <1>25, <1>22, <2>5, BoundsAssumption, SameRunsSameLog
    DEF TypeOK, CrashCompleting, End
<1>26. ASSUME NEW f \in Files, RemoveInbox(f) PROVE TypeOK'
  <2>1. inbox' \in [Files -> Payloads \cup {None}]
    BY <1>26 DEF TypeOK, RemoveInbox
  <2> QED
    BY <1>26, <1>22, <2>1, BoundsAssumption, SameRunsSameLog DEF TypeOK, RemoveInbox, Touched
<1>27. ASSUME NEW f \in Files, NEW p \in Payloads, Save(f, p) PROVE TypeOK'
  <2>1. inbox' \in [Files -> Payloads \cup {None}]
    BY <1>27 DEF TypeOK, Save
  <2> QED
    BY <1>27, <1>22, <2>1, BoundsAssumption, SameRunsSameLog DEF TypeOK, Save, Touched
<1>28. ASSUME NEW p \in Places, NEW bytes \in {None, Foreign}, TouchArchive(p, bytes)
       PROVE  TypeOK'
  <2>1. archive' \in [Places -> Payloads \cup {None, Foreign}]
    BY <1>28 DEF TypeOK, TouchArchive
  <2> QED
    BY <1>28, <1>22, <2>1, BoundsAssumption, SameRunsSameLog DEF TypeOK, TouchArchive
<1>29. CASE RestoreLog
  <2>1. PICK n \in 0 .. Len(log) : log' = SubSeq(log, 1, n)
    BY <1>29 DEF RestoreLog
  <2>2. log' \in Seq([run: RunIds, place: Places])
    <3>1. log \in Seq([run: RunIds, place: Places])
      BY DEF TypeOK
    <3>2. n \in Int /\ \A i \in 1 .. n : log[i] \in [run: RunIds, place: Places]
      <4>1. Len(log) \in Nat
        BY <3>1, LenProperties
      <4>2. n \in Int /\ n <= Len(log)
        BY <4>1
      <4>3. ASSUME NEW i \in 1 .. n
            PROVE  log[i] \in [run: RunIds, place: Places]
        <5>1. i \in 1 .. Len(log)
          BY <4>1, <4>2
        <5> QED
          BY <3>1, <5>1, ElementOfSeq
      <4> QED
        BY <4>2, <4>3
    <3> QED
      BY <2>1, <3>2, SubSeqProperties
  <2>3. Recorded' = Recorded
    BY <1>29 DEF RestoreLog, Recorded
  <2> QED
    BY <1>29, <1>22, <2>2, <2>3, BoundsAssumption DEF TypeOK, RestoreLog
<1>30. ASSUME NEW r \in RunIds, Void(r) PROVE TypeOK'
  BY <1>30, SameRunsSameLog DEF TypeOK, Void
<1>31. ASSUME NEW S \in SUBSET voided, Withdraw(S) PROVE TypeOK'
  BY <1>31, SameRunsSameLog DEF TypeOK, Withdraw
<1> QED
  BY <1>1, <1>2, <1>3, <1>4, <1>5, <1>6, <1>7, <1>8, <1>9, <1>10, <1>11, <1>12,
     <1>13, <1>14, <1>15, <1>16, <1>17, <1>18, <1>19, <1>20, <1>21, <1>23, <1>24,
     <1>25, <1>26, <1>27, <1>28, <1>29, <1>30, <1>31
  DEF Next, Import, Environment, Decisions

\* Every reachable state is well typed.
THEOREM TypeCorrect == Spec => []TypeOK
BY TypeInit, TypeNext, PTL DEF Spec

-----------------------------------------------------------------------------
(* A payload has one owner.                                                 *)

\* Only recording, voiding and withdrawing change Bronze or the voids.
LEMMA BronzeSteps ==
  ASSUME [Next]_vars
  PROVE  \/ UNCHANGED <<runs, voided>>
         \/ Record
         \/ \E r \in RunIds : Void(r)
         \/ \E S \in SUBSET voided : Withdraw(S)
<1> USE DEF bronze, disk, command
<1>1. Environment => UNCHANGED <<runs, voided>>
  BY DEF Environment, Crash, CrashAppending, CrashCompleting, RemoveInbox, Save, Touched,
         TouchArchive, RestoreLog
<1>2. Import => Record \/ UNCHANGED <<runs, voided>>
  BY DEF Import, Recover, CompleteLine, LogDamaged, ArchiveOldest, LogOldest,
         CaughtUp, FindEarlier, FindNone, ReadFails, ArchiveOwn, ArchiveConflict,
         KeepArchived, CopyReplaced, LeaveInInbox, ClearChecked, Unlink,
         UnlinkDenied
<1> QED
  BY <1>1, <1>2 DEF Next, Decisions, Begin, ImportNothing, vars

\* A store is recorded only when no run in force stores the bytes, and a void
\* is withdrawn only when no other run does: both keep the one owner.
LEMMA OneOwnerNext == TypeOK /\ OneOwner /\ [Next]_vars => OneOwner'
<1> SUFFICES ASSUME TypeOK, OneOwner, [Next]_vars PROVE OneOwner'
  OBVIOUS
<1>1. CASE UNCHANGED <<runs, voided>>
  BY <1>1 DEF OneOwner, InForce, Recorded
\* A run is stored only while no run in force stores its payload.
<1>2. CASE Record
  <2>1. PICK r \in FreshIds, refused \in BOOLEAN :
          runs' = [runs EXCEPT ![r] = Decide(file, inbox[file], refused)]
    BY <1>2 DEF Record
  <2> DEFINE new == Decide(file, inbox[file], refused)
  <2>2. file \in Files /\ inbox[file] \in Payloads /\ voided' = voided
    BY <1>2 DEF TypeOK, Record
  <2>3. new \in Runs /\ r \in RunIds \ Recorded
    BY <2>2, DecideType DEF FreshIds
  <2>4. /\ Recorded' = Recorded \cup {r}
        /\ runs'[r] = new
        /\ \A s \in Recorded : runs'[s] = runs[s]
    BY <2>1, <2>3, RecordedGrows
  <2>5. new.outcome = "stored" => InForce(new.payload) = {}
    BY DEF Decide
  <2> SUFFICES ASSUME NEW p \in Payloads,
                      NEW x \in InForce(p)', NEW y \in InForce(p)'
               PROVE  x = y
    BY DEF OneOwner
  <2>6. \A z \in InForce(p)' : z \in InForce(p) \/ (z = r /\ InForce(p) = {})
    BY <2>2, <2>4, <2>5 DEF InForce
  <2> QED
    BY <2>6 DEF OneOwner
<1>3. ASSUME NEW r \in RunIds, Void(r) PROVE OneOwner'
  BY <1>3 DEF OneOwner, InForce, Recorded, Void
\* A void is withdrawn only while no other run in force stores its payload.
<1>4. ASSUME NEW S \in SUBSET voided, Withdraw(S) PROVE OneOwner'
  <2> SUFFICES ASSUME NEW p \in Payloads,
                      NEW x \in InForce(p)', NEW y \in InForce(p)', x # y
               PROVE  FALSE
    BY DEF OneOwner
  <2>1. /\ voided' = voided \ S /\ runs' = runs /\ Recorded' = Recorded
        /\ \A r \in S : StoredSince(r, voided \ S) = {}
    BY <1>4 DEF Withdraw, Recorded
  <2>2. \A u, v \in InForce(p)' : u \in S /\ u # v => v \in StoredSince(u, voided \ S)
    BY <2>1 DEF InForce, StoredSince
  <2>3. x \notin S /\ y \notin S
    BY <2>1, <2>2
  <2>4. x \in InForce(p) /\ y \in InForce(p)
    BY <2>1, <2>3 DEF InForce
  <2> QED
    BY <2>4 DEF OneOwner
<1> QED
  BY <1>1, <1>2, <1>3, <1>4, BronzeSteps

\* At most one run in force stores a payload, in every reachable state.
THEOREM OneOwnerHolds == Spec => []OneOwner
<1>1. Init => OneOwner
  BY DEF Init, OneOwner, InForce, Recorded
<1> QED
  BY <1>1, TypeInit, TypeNext, OneOwnerNext, PTL DEF Spec

-----------------------------------------------------------------------------
(* The log restates Bronze, and a place belongs to one payload.             *)

\* The place the import is about to log is a candidate of the oldest run the
\* log lacks, and no entry reserves it for other bytes.  Without this the two
\* invariants below are not inductive: they say nothing between the archiving
\* of a run and its entry.
PendingPlaceIsOpen ==
  step = "log" =>
    \E i \in Open(runs[Oldest(Unlogged)]) :
      place = Candidates(runs[Oldest(Unlogged)])[i]

LogInv == LogAgrees /\ OnePayloadPerPlace /\ PendingPlaceIsOpen

\* Only these steps touch the log, its runs, or the place about to be logged.
LEMMA LogSteps ==
  ASSUME TypeOK, [Next]_vars
  PROVE  \/ CompleteLine \/ LogOldest \/ RestoreLog \/ Record \/ ArchiveOldest
         \/ /\ UNCHANGED <<runs, log>>
            /\ step' = "log" => step = "log" /\ place' = place
<1> USE DEF bronze, disk, command
<1>1. Environment =>
        \/ RestoreLog
        \/ UNCHANGED <<runs, log>> /\ (step' = "log" => step = "log" /\ place' = place)
  BY DEF Environment, Crash, CrashAppending, CrashCompleting, RemoveInbox, Save, Touched,
         TouchArchive, End
<1>2. Import =>
        \/ CompleteLine \/ LogOldest \/ Record \/ ArchiveOldest
        \/ UNCHANGED <<runs, log>> /\ step' # "log"
  BY DEF Import, Recover, LogDamaged, CaughtUp, FindEarlier, FindNone, ReadFails,
         ArchiveOwn, ArchiveConflict, KeepArchived, CopyReplaced, LeaveInInbox,
         ClearChecked, Unlink, UnlinkDenied, End, Goto
<1>3. Decisions => UNCHANGED <<runs, log>> /\ step' # "log"
  BY DEF Decisions, Void, Withdraw
<1> QED
  BY <1>1, <1>2, <1>3 DEF Next, Begin, ImportNothing, vars

\* Appending the entry of an unlogged run, at an open candidate of its own,
\* keeps the log a restatement of Bronze.
LEMMA AppendKeepsLog ==
  ASSUME TypeOK, LogAgrees, OnePayloadPerPlace, NEW u \in Unlogged,
         NEW i \in Open(runs[u]), UNCHANGED runs,
         log' = Append(log, [run |-> u, place |-> Candidates(runs[u])[i]])
  PROVE  LogAgrees' /\ OnePayloadPerPlace'
<1> DEFINE new == [run |-> u, place |-> Candidates(runs[u])[i]]
<1>1. log \in Seq([run: RunIds, place: Places]) /\ Len(log) \in Nat
  BY LenProperties DEF TypeOK
<1>2. u \in Recorded /\ \A e \in Entries : e.run # u
  BY DEF Unlogged, Logged
<1>3. new.run = u /\ new.place = Candidates(runs[u])[i] /\ i \in DOMAIN Candidates(runs[u])
  BY DEF Open
<1>4. /\ Len(log') = Len(log) + 1
      /\ \A j \in 1 .. Len(log) : log'[j] = log[j]
      /\ log'[Len(log) + 1] = new
  BY <1>1
<1>5. /\ DOMAIN log = 1 .. Len(log)
      /\ DOMAIN log' = 1 .. Len(log) + 1
  BY <1>1, <1>4
<1>6. Recorded' = Recorded
  BY DEF Recorded
<1>7. Entries' = Entries \cup {new}
  <2> HIDE DEF new
  <2> QED
    BY <1>1, <1>4, <1>5 DEF Entries
<1>8. \A e \in Entries : e.place = new.place => runs[e.run].payload = runs[u].payload
  BY <1>3 DEF Open
<1>9. OnePayloadPerPlace'
  <2> HIDE DEF new
  <2> QED
    BY <1>3, <1>7, <1>8 DEF OnePayloadPerPlace
<1>10. \A e \in Entries' :
         e.run \in Recorded' /\ \E k \in DOMAIN Candidates(runs[e.run]) :
                                   e.place = Candidates(runs[e.run])[k]
  <2> HIDE DEF new
  <2> QED
    BY <1>2, <1>3, <1>6, <1>7 DEF LogAgrees
<1>11. \A j, k \in DOMAIN log' : log'[j].run = log'[k].run => j = k
  <2>1. \A j \in DOMAIN log : log[j].run # u
    BY <1>2 DEF Entries
  <2> HIDE DEF new
  <2> QED
    BY <1>1, <1>3, <1>4, <1>5, <2>1 DEF LogAgrees
<1> QED
  BY <1>9, <1>10, <1>11 DEF LogAgrees

\* Every step keeps the log a restatement of Bronze at reserved places.
LEMMA LogInvNext == TypeOK /\ LogInv /\ [Next]_vars => LogInv'
<1> SUFFICES ASSUME TypeOK, LogInv, [Next]_vars PROVE LogInv'
  OBVIOUS
<1> USE DEF LogInv, bronze, disk, command
<1>1. CASE UNCHANGED <<runs, log>> /\ (step' = "log" => step = "log" /\ place' = place)
  <2>1. /\ runs' = runs /\ log' = log /\ Entries' = Entries
        /\ Recorded' = Recorded /\ Unlogged' = Unlogged
    BY <1>1, SameRunsSameLog
  <2>2. LogAgrees' /\ OnePayloadPerPlace'
    BY <2>1 DEF LogAgrees, OnePayloadPerPlace
  <2>3. PendingPlaceIsOpen'
    BY <1>1, <2>1 DEF PendingPlaceIsOpen, Open
  <2> QED
    BY <2>2, <2>3
\* The proving entry is that of a run already archived where it may be.
<1>2. CASE CompleteLine
  <2>1. PICK e \in Proving : log' = Append(log, e)
    BY <1>2 DEF CompleteLine
  <2>2. PICK u \in Unlogged : /\ Holding(runs[u]) # {}
                              /\ e = [run |-> u, place |-> ArchivedAt(runs[u])]
    BY <2>1 DEF Proving
  <2>3. runs[u] \in Runs
    BY <2>2, RecordedRuns DEF Unlogged
  <2>4. PICK i \in Open(runs[u]) : ArchivedAt(runs[u]) = Candidates(runs[u])[i]
    BY <2>2, <2>3, ArchivedAtIsOpen DEF HasPlace, Holding, Free
  <2>5. UNCHANGED runs /\ step' # "log"
    BY <1>2 DEF CompleteLine, Goto
  <2> QED
    BY <2>1, <2>2, <2>4, <2>5, AppendKeepsLog DEF PendingPlaceIsOpen
<1>3. CASE LogOldest
  <2> DEFINE u == Oldest(Unlogged)
  <2>1. u \in Unlogged
    BY <1>3, OldestUnlogged DEF TypeOK, LogOldest
  <2>2. PICK i \in Open(runs[u]) : place = Candidates(runs[u])[i]
    BY <1>3 DEF PendingPlaceIsOpen, LogOldest
  <2>3. /\ UNCHANGED runs /\ step' # "log"
        /\ log' = Append(log, [run |-> u, place |-> Candidates(runs[u])[i]])
    BY <1>3, <2>2 DEF LogOldest, Goto
  <2> HIDE DEF u
  <2> QED
    BY <2>1, <2>3, AppendKeepsLog DEF PendingPlaceIsOpen
\* An earlier log has fewer entries, and the same ones.
<1>4. CASE RestoreLog
  <2>1. PICK n \in 0 .. Len(log) : log' = SubSeq(log, 1, n)
    BY <1>4 DEF RestoreLog
  <2>2. UNCHANGED runs /\ step' = "idle"
    BY <1>4 DEF RestoreLog
  <2>3. /\ DOMAIN log' \subseteq DOMAIN log
        /\ \A i \in DOMAIN log' : log'[i] = log[i]
    BY <2>1 DEF TypeOK
  <2>4. Entries' \subseteq Entries /\ Recorded' = Recorded
    BY <2>2, <2>3 DEF Entries, Recorded
  <2> QED
    BY <2>2, <2>3, <2>4 DEF LogAgrees, OnePayloadPerPlace, PendingPlaceIsOpen
\* The log names no run that is recorded only now.
<1>5. CASE Record
  <2>1. PICK r \in FreshIds, refused \in BOOLEAN :
          runs' = [runs EXCEPT ![r] = Decide(file, inbox[file], refused)]
    BY <1>5 DEF Record
  <2>2. file \in Files /\ inbox[file] \in Payloads
    BY <1>5 DEF TypeOK, Record
  <2>3. Decide(file, inbox[file], refused) \in Runs /\ r \in RunIds \ Recorded
    BY <2>2, DecideType DEF FreshIds
  <2>4. Recorded' = Recorded \cup {r} /\ \A s \in Recorded : runs'[s] = runs[s]
    BY <2>1, <2>3, RecordedGrows
  <2>5. UNCHANGED log /\ step' # "log" /\ Entries' = Entries
    BY <1>5 DEF Record, Goto, Entries
  <2>6. LogAgrees'
    <3>1. \A e \in Entries : e.run \in Recorded /\ runs'[e.run] = runs[e.run]
      BY <2>4 DEF LogAgrees
    <3>2. \A e \in Entries : Candidates(runs'[e.run]) = Candidates(runs[e.run])
      BY <3>1
    <3> QED
      BY <2>4, <2>5, <3>1, <3>2 DEF LogAgrees
  <2>7. OnePayloadPerPlace'
    BY <2>4, <2>5 DEF LogAgrees, OnePayloadPerPlace
  <2> QED
    BY <2>5, <2>6, <2>7 DEF PendingPlaceIsOpen
<1>6. CASE ArchiveOldest
  <2> DEFINE u == Oldest(Unlogged)
  <2>1. UNCHANGED <<runs, log>> /\ place' = ArchivedAt(runs[u]) /\ HasPlace(runs[u])
    BY <1>6 DEF ArchiveOldest, WriteCopy
  <2>2. u \in Recorded
    BY <1>6, OldestUnlogged DEF ArchiveOldest
  <2>3. PICK i \in Open(runs[u]) : ArchivedAt(runs[u]) = Candidates(runs[u])[i]
    BY <2>1, <2>2, RecordedRuns, ArchivedAtIsOpen DEF Holding, Free
  <2>4. Unlogged' = Unlogged /\ Entries' = Entries /\ Recorded' = Recorded
    BY <2>1, SameRunsSameLog
  <2> QED
    BY <2>1, <2>3, <2>4 DEF LogAgrees, OnePayloadPerPlace, PendingPlaceIsOpen, Open
<1> QED
  BY <1>1, <1>2, <1>3, <1>4, <1>5, <1>6, LogSteps

\* The empty log restates the empty Bronze.
LEMMA LogInvInit == Init => LogInv
BY DEF Init, LogInv, LogAgrees, OnePayloadPerPlace, PendingPlaceIsOpen, Entries

\* Each entry of the log restates one recorded run, each run once, so the
\* import never finds the log damaged by anything but a cut-off line.
THEOREM LogRestatesBronzeHolds == Spec => []LogRestatesBronze
BY TypeInit, TypeNext, LogInvInit, LogInvNext, PTL DEF Spec, LogInv, LogRestatesBronze

\* Entries that name one place of the archive name one payload.
THEOREM OnePayloadPerPlaceHolds == Spec => []OnePayloadPerPlace
BY TypeInit, TypeNext, LogInvInit, LogInvNext, PTL DEF Spec, LogInv

-----------------------------------------------------------------------------
(* Archived bytes stay.                                                     *)

\* What one step may do to the archive.
KeepsArchive ==
  \A p \in Places :
    archive[p] \notin {None, archive'[p]} => spent'.outside # spent.outside

\* _archive writes where the bytes are already, or where nothing is.
LEMMA CopyOverwritesNothing ==
  ASSUME TypeOK, NEW r \in Recorded, HasPlace(runs[r]),
         archive' = [archive EXCEPT ![ArchivedAt(runs[r])] = runs[r].payload]
  PROVE  KeepsArchive
<1>1. runs[r] \in Runs
  BY RecordedRuns
<1>2. PICK i \in Holding(runs[r]) \cup Free(runs[r]) :
        ArchivedAt(runs[r]) = Candidates(runs[r])[i]
  BY <1>1, ArchivedAtIsOpen
<1>3. archive[ArchivedAt(runs[r])] \in {None, runs[r].payload}
  BY <1>2 DEF Holding, Free
<1> QED
  BY <1>3 DEF TypeOK, KeepsArchive

\* Every step keeps the archived bytes, unless it is the outside's.
LEMMA KeepsArchiveNext == TypeOK /\ [Next]_vars => KeepsArchive
<1> SUFFICES ASSUME TypeOK, [Next]_vars PROVE KeepsArchive
  OBVIOUS
<1> USE DEF bronze, disk, command
<1>1. CASE UNCHANGED archive
  BY <1>1 DEF KeepsArchive
<1>2. CASE ArchiveOldest
  BY <1>2, OldestUnlogged, CopyOverwritesNothing DEF ArchiveOldest, WriteCopy
<1>3. CASE ArchiveOwn
  BY <1>3, CopyOverwritesNothing DEF TypeOK, ArchiveOwn
<1>4. CASE KeepArchived
  BY <1>4 DEF TypeOK, KeepArchived, KeepsArchive
<1>5. ASSUME NEW p \in Places, NEW bytes \in {None, Foreign}, TouchArchive(p, bytes)
      PROVE  KeepsArchive
  BY <1>5 DEF TypeOK, TouchArchive, Spend, KeepsArchive
<1>6. Import => UNCHANGED archive \/ ArchiveOldest \/ ArchiveOwn \/ KeepArchived
  BY DEF Import, Recover, CompleteLine, LogDamaged, LogOldest, CaughtUp, FindEarlier,
         FindNone, Record, ReadFails, ArchiveConflict, CopyReplaced, LeaveInInbox,
         ClearChecked, Unlink, UnlinkDenied
<1>7. \/ UNCHANGED archive
      \/ Import
      \/ \E p \in Places, bytes \in {None, Foreign} : TouchArchive(p, bytes)
  BY DEF Next, Environment, Decisions, Begin, ImportNothing, vars, Crash,
         CrashAppending, CrashCompleting, RemoveInbox, Save, Touched, RestoreLog, Void,
         Withdraw
<1> QED
  BY <1>1, <1>2, <1>3, <1>4, <1>5, <1>6, <1>7

\* No step of the program overwrites or removes archived bytes.
THEOREM NeverOverwritesHolds == Spec => NeverOverwrites
<1>1. TypeOK /\ [Next]_vars => [KeepsArchive]_vars
  BY KeepsArchiveNext
<1> QED
  BY <1>1, TypeInit, TypeNext, PTL DEF Spec, NeverOverwrites, KeepsArchive

-----------------------------------------------------------------------------
(* What the log names is in the archive.                                    *)

\* The place about to be logged is the one _archived_at would pick again: it
\* holds the bytes of the oldest run the log lacks.
PendingIsArchived ==
  step = "log" /\ spent.outside = 0 =>
    /\ Holding(runs[Oldest(Unlogged)]) # {}
    /\ place = ArchivedAt(runs[Oldest(Unlogged)])

\* Past catching up the log holds every run, so the import's own too.
LogIsFull ==
  step \in {"find", "record", "keep", "clear", "unlink"} => Unlogged = {}

\* The run of an import is one of the file it imports, and it was accepted if
\* the file is about to be removed.
RunIsOfFile ==
  /\ run # None => /\ step # "idle"
                   /\ <<runs[run].account, runs[run].name>> = file
  /\ step = "unlink" => runs[run].outcome \in Accepted

\* A place in a folder named by a hash holds those bytes or nothing.
FoldersHoldTheirHash ==
  spent.outside = 0 =>
    \A p \in Places : p.under # "account" => archive[p] \in {None, p.hash}

\* A cut-off line is the beginning of the entry of an archived run, and is
\* dealt with before the import does anything else.
CutIsProvable ==
  cut # None => /\ step \in {"idle", "recover"}
                /\ (spent.outside = 0 => Proving # {})

ArchiveInv ==
  /\ LoggedIsArchived
  /\ PendingIsArchived
  /\ LogIsFull
  /\ RunIsOfFile
  /\ FoldersHoldTheirHash
  /\ CutIsProvable

\* Outside changes are only ever counted up.
LEMMA OutsideGrows ==
  ASSUME TypeOK, [Next]_vars, spent'.outside = 0
  PROVE  spent.outside = 0
<1> USE DEF bronze, disk, command
<1>1. spent' = spent \/ \E what \in DOMAIN spent : spent' = [spent EXCEPT ![what] = @ + 1]
  BY DEF Next, Import, Environment, Decisions, Begin, ImportNothing, vars, Recover,
         CompleteLine, LogDamaged, ArchiveOldest, LogOldest, CaughtUp, FindEarlier,
         FindNone, Record, ReadFails, ArchiveOwn, ArchiveConflict, KeepArchived,
         CopyReplaced, LeaveInInbox, ClearChecked, Unlink, UnlinkDenied, Crash,
         CrashAppending, CrashCompleting, RemoveInbox, Save, Touched, TouchArchive,
         RestoreLog, Void, Withdraw, Spend, TypeOK
<1> QED
  BY <1>1 DEF TypeOK

\* Until outside hands touch the archive, what it holds stays where it is.
LEMMA HeldStays ==
  ASSUME TypeOK, [Next]_vars, spent'.outside = 0, NEW p \in Places, archive[p] # None
  PROVE  archive'[p] = archive[p]
BY OutsideGrows, KeepsArchiveNext DEF KeepsArchive

\* A candidate that holds the run's bytes is never reserved for others.
LEMMA HeldIsOpen ==
  ASSUME TypeOK, LogAgrees, \A e \in Entries : archive[e.place] = runs[e.run].payload,
         NEW r \in Runs, NEW i \in DOMAIN Candidates(r),
         archive[Candidates(r)[i]] = r.payload
  PROVE  i \in Holding(r)
BY DEF Holding, Open

\* A recorded run is never changed.
LEMMA RunsStay ==
  ASSUME TypeOK, [Next]_vars, NEW r \in Recorded
  PROVE  r \in Recorded' /\ runs'[r] = runs[r]
<1>1. CASE UNCHANGED runs
  BY <1>1 DEF Recorded
<1>2. CASE Record
  <2>1. PICK new \in FreshIds, refused \in BOOLEAN :
          runs' = [runs EXCEPT ![new] = Decide(file, inbox[file], refused)]
    BY <1>2 DEF Record
  <2>2. Decide(file, inbox[file], refused) \in Runs /\ new \in RunIds \ Recorded
    BY <1>2, DecideType DEF TypeOK, Record, FreshIds
  <2> QED
    BY <2>1, <2>2, RecordedGrows
<1> QED
  BY <1>1, <1>2, BronzeSteps DEF Void, Withdraw

\* The copies the entries of the log name stay in the archive.
LEMMA EntriesStayArchived ==
  ASSUME TypeOK, LogAgrees, LoggedIsArchived, [Next]_vars, spent'.outside = 0,
         NEW e \in Entries
  PROVE  archive'[e.place] = runs'[e.run].payload
<1>1. e.run \in Recorded /\ e.place \in Places
  <2>1. e.run \in Recorded
    BY DEF LogAgrees
  <2>2. PICK i \in DOMAIN Candidates(runs[e.run]) : e.place = Candidates(runs[e.run])[i]
    BY DEF LogAgrees
  <2> QED
    BY <2>1, <2>2, RecordedRuns, CandidatesType
<1>2. archive[e.place] = runs[e.run].payload
  BY OutsideGrows DEF LoggedIsArchived
<1>3. runs[e.run].payload # None
  BY <1>1, RecordedRuns, NoneAssumption DEF Runs
<1> QED
  BY <1>1, <1>2, <1>3, HeldStays, RunsStay

\* A run's place, once it holds the bytes, holds them where an entry will say.
LEMMA ArchivedAtHolds ==
  ASSUME NEW r \in Runs, Holding(r) # {}
  PROVE  archive[ArchivedAt(r)] = r.payload
<1>1. Holding(r) \in SUBSET Nat /\ IsFiniteSet(Holding(r))
  <2>1. Holding(r) \subseteq 1 .. 2
    BY CandidatesType DEF Holding, Open
  <2>2. IsFiniteSet(1 .. 2)
    <3>1. 1 \in Int /\ 2 \in Int
      OBVIOUS
    <3> QED
      BY ONLY <3>1, FS_Interval, Zenon
  <2> QED
    BY <2>1, <2>2, FS_Subset
<1> QED
  BY <1>1, OldestIsLeast DEF ArchivedAt, Holding

\* Only the completed line, the entry of the oldest run, and a restored log
\* change what the log holds.
LEMMA LoggedIsArchivedNext ==
  TypeOK /\ LogInv /\ ArchiveInv /\ [Next]_vars => LoggedIsArchived'
<1> SUFFICES ASSUME TypeOK, LogInv, ArchiveInv, [Next]_vars, spent'.outside = 0,
                    NEW e \in Entries'
             PROVE  archive'[e.place] = runs'[e.run].payload
  BY DEF LoggedIsArchived
<1> USE DEF bronze, disk, command
<1>1. CASE e \in Entries
  BY <1>1, EntriesStayArchived DEF LogInv, ArchiveInv
<1>2. ASSUME NEW d, log' = Append(log, d) PROVE e \in Entries \/ e = d
  BY <1>2 DEF TypeOK, Entries
<1>3. CASE CompleteLine /\ e \notin Entries
  <2>1. e \in Proving /\ UNCHANGED <<runs, archive>>
    BY <1>2, <1>3 DEF CompleteLine
  <2>2. PICK u \in Unlogged : /\ Holding(runs[u]) # {}
                              /\ e = [run |-> u, place |-> ArchivedAt(runs[u])]
    BY <2>1 DEF Proving
  <2> QED
    BY <2>1, <2>2, RecordedRuns, ArchivedAtHolds DEF Unlogged
<1>4. CASE LogOldest /\ e \notin Entries
  <2>1. /\ UNCHANGED <<runs, archive>>
        /\ e = [run |-> Oldest(Unlogged), place |-> place]
    BY <1>2, <1>4 DEF LogOldest
  <2>2. Holding(runs[e.run]) # {} /\ e.place = ArchivedAt(runs[e.run])
    BY <1>4, <2>1, OutsideGrows DEF ArchiveInv, PendingIsArchived, LogOldest
  <2>3. runs[e.run] \in Runs
    BY <1>4, <2>1, OldestUnlogged, RecordedRuns DEF TypeOK, LogOldest
  <2> QED
    BY <2>1, <2>2, <2>3, ArchivedAtHolds
<1>5. RestoreLog => Entries' \subseteq Entries
  <2> SUFFICES ASSUME RestoreLog PROVE Entries' \subseteq Entries
    OBVIOUS
  <2>1. PICK k \in 0 .. Len(log) : log' = SubSeq(log, 1, k)
    BY DEF RestoreLog
  <2>2. DOMAIN log' \subseteq DOMAIN log /\ \A i \in DOMAIN log' : log'[i] = log[i]
    BY <2>1 DEF TypeOK
  <2> QED
    BY <2>2 DEF Entries
<1>6. Record \/ ArchiveOldest => Entries' = Entries
  BY DEF Record, ArchiveOldest, Entries
<1> QED
  BY <1>1, <1>3, <1>4, <1>5, <1>6, LogSteps, SameRunsSameLog

\* What _archived_at finds depends on the runs, the log and the archive alone.
LEMMA SameArchiveSamePlace ==
  ASSUME UNCHANGED <<runs, log, archive>>, NEW r
  PROVE  /\ Holding(runs[r])' = Holding(runs[r])
         /\ ArchivedAt(runs[r])' = ArchivedAt(runs[r])
BY DEF Holding, Free, Open, Entries, ArchivedAt

\* _archive leaves the place it wrote the one _archived_at picks.
LEMMA WritingSettlesPlace ==
  ASSUME TypeOK, LogAgrees, LoggedIsArchived, spent.outside = 0, NEW r \in Recorded,
         HasPlace(runs[r]), UNCHANGED <<runs, log>>,
         archive' = [archive EXCEPT ![ArchivedAt(runs[r])] = runs[r].payload]
  PROVE  Holding(runs[r])' # {} /\ ArchivedAt(runs[r])' = ArchivedAt(runs[r])
<1> DEFINE at == ArchivedAt(runs[r])
<1>1. runs[r] \in Runs /\ at \in Places
  BY RecordedRuns, ArchivedAtType
<1>2. PICK i \in Holding(runs[r]) \cup Free(runs[r]) : at = Candidates(runs[r])[i]
  BY <1>1, ArchivedAtIsOpen
<1>3. Open(runs[r])' = Open(runs[r]) /\ runs'[r] = runs[r]
  BY DEF Open, Entries
<1>4. i \in Holding(runs[r])'
  BY <1>1, <1>2, <1>3 DEF TypeOK, Holding, Free
<1>5. CASE Holding(runs[r]) # {}
  <2>1. archive' = archive
    BY <1>1, <1>5, ArchivedAtHolds DEF TypeOK
  <2> QED
    BY <1>4, <2>1, SameArchiveSamePlace
<1>6. CASE Holding(runs[r]) = {}
  <2>1. \A j \in Holding(runs[r])' : Candidates(runs[r])[j] = at
    BY <1>1, <1>3, <1>6 DEF TypeOK, Holding
  <2>2. Holding(runs[r])' \in SUBSET Nat /\ IsFiniteSet(Holding(runs[r])')
    <3>1. Holding(runs[r])' \subseteq 1 .. 2
      BY <1>1, <1>3, CandidatesType DEF Holding, Open
    <3>2. IsFiniteSet(1 .. 2)
      <4>1. 1 \in Int /\ 2 \in Int
        OBVIOUS
      <4> QED
        BY ONLY <4>1, FS_Interval, Zenon
    <3> QED
      BY <3>1, <3>2, FS_Subset
  <2>3. Oldest(Holding(runs[r])') \in Holding(runs[r])'
    BY <1>4, <2>2, OldestIsLeast
  <2>4. ArchivedAt(runs[r])' = Candidates(runs[r])[Oldest(Holding(runs[r])')]
    BY <1>4 DEF ArchivedAt, Oldest
  <2> QED
    BY <1>4, <2>1, <2>3, <2>4
<1> QED
  BY <1>5, <1>6

\* While the import is about to log, only the world around it takes steps.
LEMMA WaitingToLog ==
  ASSUME TypeOK, [Next]_vars, step = "log", step' = "log", spent'.outside = 0
  PROVE  UNCHANGED <<runs, log, archive, place>>
<1> USE DEF bronze, disk, command
<1>1. CASE Environment
  BY <1>1 DEF Environment, Crash, CrashAppending, CrashCompleting, RemoveInbox,
              Save, Touched, TouchArchive, RestoreLog, End, Spend, TypeOK
<1>2. ~Import
  BY DEF Import, Recover, CompleteLine, LogDamaged, ArchiveOldest, LogOldest,
         CaughtUp, FindEarlier, FindNone, Record, ReadFails, ArchiveOwn,
         ArchiveConflict, KeepArchived, CopyReplaced, LeaveInInbox, ClearChecked,
         Unlink, UnlinkDenied, End, Goto
<1> QED
  BY <1>1, <1>2 DEF Next, Decisions, Begin, ImportNothing, Void, Withdraw, vars

\* Only _archive leads to the logging of a run.
LEMMA OnlyArchivingLeadsToLog ==
  ASSUME TypeOK, [Next]_vars, step # "log", step' = "log"
  PROVE  ArchiveOldest
<1> USE DEF bronze, disk, command
<1>1. ~Environment
  BY DEF Environment, Crash, CrashAppending, CrashCompleting, RemoveInbox,
         Save, Touched, TouchArchive, RestoreLog, End
<1>2. Import => ArchiveOldest
  BY DEF Import, Recover, CompleteLine, LogDamaged, LogOldest,
         CaughtUp, FindEarlier, FindNone, Record, ReadFails, ArchiveOwn,
         ArchiveConflict, KeepArchived, CopyReplaced, LeaveInInbox, ClearChecked,
         Unlink, UnlinkDenied, End, Goto
<1> QED
  BY <1>1, <1>2 DEF Next, Decisions, Begin, ImportNothing, Void, Withdraw, vars

\* The place about to be logged is the one just written.
LEMMA PendingIsArchivedNext ==
  TypeOK /\ LogInv /\ ArchiveInv /\ [Next]_vars => PendingIsArchived'
<1> SUFFICES ASSUME TypeOK, LogInv, ArchiveInv, [Next]_vars,
                    step' = "log", spent'.outside = 0
             PROVE  /\ Holding(runs[Oldest(Unlogged)])' # {}
                    /\ place' = ArchivedAt(runs[Oldest(Unlogged)])'
  BY DEF PendingIsArchived
<1> DEFINE u == Oldest(Unlogged)
<1>1. spent.outside = 0
  BY OutsideGrows
<1>2. CASE step = "log"
  <2>1. UNCHANGED <<runs, log, archive, place>>
    BY <1>2, WaitingToLog
  <2>2. u' = u
    BY <2>1, SameRunsSameLog
  <2>3. Holding(runs[u]) # {} /\ place = ArchivedAt(runs[u])
    BY <1>1, <1>2 DEF ArchiveInv, PendingIsArchived
  <2>4. /\ Holding(runs[u])' = Holding(runs[u])
        /\ ArchivedAt(runs[u])' = ArchivedAt(runs[u])
    BY <2>1, <2>2 DEF Holding, Free, Open, Entries, ArchivedAt
  <2> QED
    BY <2>1, <2>3, <2>4
<1>3. CASE step # "log"
  <2>1. ArchiveOldest
    BY <1>3, OnlyArchivingLeadsToLog
  <2>2. PICK r \in Recorded : r = u
    BY <2>1, OldestUnlogged DEF ArchiveOldest
  <2>3. /\ UNCHANGED <<runs, log>> /\ HasPlace(runs[r])
        /\ archive' = [archive EXCEPT ![ArchivedAt(runs[r])] = runs[r].payload]
        /\ place' = ArchivedAt(runs[r])
    BY <2>1, <2>2 DEF ArchiveOldest, WriteCopy, bronze
  <2>4. Holding(runs[r])' # {} /\ ArchivedAt(runs[r])' = ArchivedAt(runs[r])
    BY <1>1, <2>3, WritingSettlesPlace DEF LogInv, ArchiveInv
  <2>5. u' = r
    BY <2>2, <2>3, SameRunsSameLog
  <2> QED
    BY <2>3, <2>4, <2>5
<1> QED
  BY <1>2, <1>3

\* Past catching up nothing is recorded that is not logged at once.
LEMMA LogIsFullNext == TypeOK /\ LogIsFull /\ [Next]_vars => LogIsFull'
<1> SUFFICES ASSUME TypeOK, LogIsFull, [Next]_vars,
                    step' \in {"find", "record", "keep", "clear", "unlink"}
             PROVE  Unlogged' = {}
  BY DEF LogIsFull
<1> USE DEF bronze, disk, command
<1>1. Environment => UNCHANGED <<runs, log, step>>
  BY DEF Environment, Crash, CrashAppending, CrashCompleting, RemoveInbox, Save, Touched,
         TouchArchive, RestoreLog, End
<1>2. Import => UNCHANGED <<runs, log>> /\ Unlogged = {}
  BY DEF Import, Recover, CompleteLine, LogDamaged, ArchiveOldest, LogOldest, CaughtUp,
         FindEarlier, FindNone, Record, ReadFails, ArchiveOwn, ArchiveConflict,
         KeepArchived, CopyReplaced, LeaveInInbox, ClearChecked, Unlink, UnlinkDenied,
         End, Goto, LogIsFull
<1> QED
  BY <1>1, <1>2, SameRunsSameLog
  DEF LogIsFull, Next, Decisions, Begin, ImportNothing, Void, Withdraw, vars

\* An import only ever takes up a run of the file it imports.
LEMMA RunIsOfFileNext == TypeOK /\ RunIsOfFile /\ [Next]_vars => RunIsOfFile'
<1> SUFFICES ASSUME TypeOK, RunIsOfFile, [Next]_vars PROVE RunIsOfFile'
  OBVIOUS
<1> USE DEF bronze, disk, command
<1>1. CASE UNCHANGED <<run, file>> /\ (step' = "idle" => step = "idle") /\ step' # "unlink"
  <2>1. run # None => run \in Recorded
    BY DEF TypeOK
  <2> QED
    BY <1>1, <2>1, RunsStay DEF RunIsOfFile
<1>2. CASE run' = None /\ step' # "unlink"
  BY <1>2 DEF RunIsOfFile
<1>3. CASE FindEarlier
  <2>1. EarlierRuns(file, inbox[file]) \subseteq Recorded
    BY DEF EarlierRuns
  <2>2. EarlierRuns(file, inbox[file]) \in SUBSET Nat
        /\ IsFiniteSet(EarlierRuns(file, inbox[file]))
    BY <2>1, RunIdsAssumption, FS_Subset DEF Recorded
  <2>3. run' \in EarlierRuns(file, inbox[file])
    BY <1>3, <2>2, OldestIsLeast DEF FindEarlier
  <2> QED
    BY <1>3, <2>3 DEF FindEarlier, Goto, EarlierRuns, RunIsOfFile
<1>4. CASE Record
  <2>1. PICK r \in FreshIds, refused \in BOOLEAN :
          /\ runs' = [runs EXCEPT ![r] = Decide(file, inbox[file], refused)]
          /\ run' = r
    BY <1>4 DEF Record
  <2>2. file \in Files /\ inbox[file] \in Payloads
    BY <1>4 DEF TypeOK, Record
  <2>3. Decide(file, inbox[file], refused) \in Runs /\ r \in RunIds \ Recorded
    BY <2>2, DecideType DEF FreshIds
  <2>4. runs'[r] = Decide(file, inbox[file], refused)
    BY <2>1, <2>3, RecordedGrows
  <2>5. runs'[r].account = file[1] /\ runs'[r].name = file[2]
    BY <2>4 DEF Decide
  <2>6. file = <<file[1], file[2]>>
    BY <2>2, FilesAssumption
  <2> QED
    BY <1>4, <2>1, <2>5, <2>6 DEF Record, Goto, RunIsOfFile
<1>5. CASE ClearChecked
  <2>1. runs[run].outcome \in Accepted
    BY <1>5, RecordedRuns DEF TypeOK, ClearChecked, Runs, Outcomes, Accepted
  <2> QED
    BY <1>5, <2>1 DEF ClearChecked, Goto, RunIsOfFile
<1>6. CASE UNCHANGED <<run, file, step, runs>>
  BY <1>6 DEF RunIsOfFile
<1>7. Environment => UNCHANGED <<run, file, step, runs>> \/ (run' = None /\ step' # "unlink")
  BY DEF Environment, Crash, CrashAppending, CrashCompleting, RemoveInbox, Save, Touched,
         TouchArchive, RestoreLog, End
<1>8. Import =>
        \/ FindEarlier \/ Record \/ ClearChecked
        \/ run' = None /\ step' # "unlink"
        \/ UNCHANGED <<run, file>> /\ (step' = "idle" => step = "idle") /\ step' # "unlink"
  BY DEF Import, Recover, CompleteLine, LogDamaged, ArchiveOldest, LogOldest, CaughtUp,
         FindNone, ReadFails, ArchiveOwn, ArchiveConflict, KeepArchived, CopyReplaced,
         LeaveInInbox, Unlink, UnlinkDenied, End, Goto
<1>9. ASSUME NEW f \in Files, Begin(f) PROVE RunIsOfFile'
  BY <1>9 DEF Begin, RunIsOfFile
<1>10. Decisions \/ ImportNothing \/ UNCHANGED vars => UNCHANGED <<run, file, step, runs>>
  BY DEF Decisions, ImportNothing, Void, Withdraw, vars
<1> QED
  BY <1>1, <1>2, <1>3, <1>4, <1>5, <1>6, <1>7, <1>8, <1>9, <1>10 DEF Next

\* What a step of the program may write: a run's bytes, at its own candidate.
LEMMA WritesAtCandidates ==
  ASSUME TypeOK, LogInv, ArchiveInv, [Next]_vars, spent'.outside = 0
  PROVE  \/ UNCHANGED archive
         \/ \E r \in Recorded : \E i \in DOMAIN Candidates(runs[r]) :
              archive' = [archive EXCEPT ![Candidates(runs[r])[i]] = runs[r].payload]
<1> USE DEF bronze, disk, command
<1>1. ASSUME NEW r \in Recorded, HasPlace(runs[r])
      PROVE  \E i \in DOMAIN Candidates(runs[r]) :
               ArchivedAt(runs[r]) = Candidates(runs[r])[i]
  BY <1>1, RecordedRuns, ArchivedAtIsOpen DEF Holding, Free, Open
<1>2. CASE ArchiveOldest
  BY <1>1, <1>2, OldestUnlogged DEF ArchiveOldest, WriteCopy
<1>3. CASE ArchiveOwn
  BY <1>1, <1>3 DEF TypeOK, ArchiveOwn
<1>4. CASE KeepArchived
  <2>1. Unlogged = {} /\ run \in Recorded
    BY <1>4 DEF TypeOK, ArchiveInv, LogIsFull, KeepArchived
  <2>2. EntryOf(run) \in Entries /\ EntryOf(run).run = run
    BY <2>1 DEF Unlogged, Logged, EntryOf
  <2>3. archive[EntryOf(run).place] = runs[run].payload
    BY <2>2, OutsideGrows DEF ArchiveInv, LoggedIsArchived
  <2> QED
    BY <1>4, <2>3 DEF KeepArchived, TypeOK
<1>5. Import => UNCHANGED archive \/ ArchiveOldest \/ ArchiveOwn \/ KeepArchived
  BY DEF Import, Recover, CompleteLine, LogDamaged, LogOldest, CaughtUp, FindEarlier,
         FindNone, Record, ReadFails, ArchiveConflict, CopyReplaced, LeaveInInbox,
         ClearChecked, Unlink, UnlinkDenied
<1>6. Environment => UNCHANGED archive
  BY DEF Environment, Crash, CrashAppending, CrashCompleting, RemoveInbox, Save, Touched,
         TouchArchive, RestoreLog, Spend, TypeOK
<1> QED
  BY <1>2, <1>3, <1>4, <1>5, <1>6 DEF Next, Decisions, Begin, ImportNothing, vars,
     Void, Withdraw

\* A run's second place is named by the hash of its own bytes.
LEMMA FoldersHoldTheirHashNext ==
  TypeOK /\ LogInv /\ ArchiveInv /\ [Next]_vars => FoldersHoldTheirHash'
<1> SUFFICES ASSUME TypeOK, LogInv, ArchiveInv, [Next]_vars, spent'.outside = 0,
                    NEW p \in Places, p.under # "account"
             PROVE  archive'[p] \in {None, p.hash}
  BY DEF FoldersHoldTheirHash
<1>1. archive[p] \in {None, p.hash}
  BY OutsideGrows DEF ArchiveInv, FoldersHoldTheirHash
<1>2. ASSUME NEW r \in Recorded, NEW i \in DOMAIN Candidates(runs[r]),
             archive' = [archive EXCEPT ![Candidates(runs[r])[i]] = runs[r].payload]
      PROVE  archive'[p] \in {None, p.hash}
  <2>1. p = Candidates(runs[r])[i] => p.hash = runs[r].payload
    BY RecordedRuns DEF Candidates, PlaceIn, Runs
  <2> QED
    BY <1>1, <1>2, <2>1 DEF TypeOK
<1> QED
  BY <1>1, <1>2, WritesAtCandidates

\* A line is cut off by a crash while it is written, and by nothing else.
LEMMA CutSteps ==
  ASSUME [Next]_vars, cut' # None
  PROVE  cut' = cut \/ CrashAppending \/ CrashCompleting
<1> USE DEF bronze, disk, command
<1>1. Environment => cut' = cut \/ CrashAppending \/ CrashCompleting
  BY DEF Environment, Crash, RemoveInbox, Save, Touched, TouchArchive, RestoreLog, End
<1>2. Import => cut' = cut
  BY DEF Import, Recover, CompleteLine, LogDamaged, ArchiveOldest, LogOldest, CaughtUp,
     FindEarlier, FindNone, Record, ReadFails, ArchiveOwn, ArchiveConflict, KeepArchived,
     CopyReplaced, LeaveInInbox, ClearChecked, Unlink, UnlinkDenied
<1> QED
  BY <1>1, <1>2 DEF Next, Decisions, Begin, ImportNothing, Void, Withdraw, vars

\* While a line is cut off the program touches neither runs, log nor archive.
LEMMA CutWaits ==
  ASSUME TypeOK, CutIsProvable, [Next]_vars, cut # None, cut' = cut
  PROVE  /\ step' \in {"idle", "recover"} /\ UNCHANGED <<runs, log>>
         /\ spent'.outside = 0 => archive' = archive
<1> USE DEF bronze, disk, command
<1>1. step \in {"idle", "recover"}
  BY DEF CutIsProvable
<1>2. Environment => /\ step' \in {"idle", "recover"} /\ UNCHANGED <<runs, log>>
                     /\ (spent'.outside = 0 => archive' = archive)
  BY <1>1 DEF Environment, Crash, CrashAppending, CrashCompleting, RemoveInbox,
     Save, Touched, TouchArchive, RestoreLog, End, Spend, TypeOK
<1>3. Import => step' \in {"idle", "recover"} /\ UNCHANGED <<runs, log, archive>>
  BY <1>1 DEF Import, Recover, CompleteLine, LogDamaged, ArchiveOldest,
     LogOldest, CaughtUp, FindEarlier, FindNone, Record, ReadFails, ArchiveOwn,
     ArchiveConflict, KeepArchived, CopyReplaced, LeaveInInbox, ClearChecked, Unlink,
     UnlinkDenied, End, Goto
<1> QED
  BY <1>1, <1>2, <1>3 DEF Next, Decisions, Begin, ImportNothing, Void, Withdraw, vars

\* Only a crash while a line is written cuts it off, and only from runs whose
\* copies are in place.
LEMMA CutIsProvableNext ==
  TypeOK /\ ArchiveInv /\ [Next]_vars => CutIsProvable'
<1> SUFFICES ASSUME TypeOK, ArchiveInv, [Next]_vars, cut' # None
             PROVE  /\ step' \in {"idle", "recover"}
                    /\ (spent'.outside = 0 => Proving' # {})
  BY DEF CutIsProvable
<1> USE DEF bronze, disk, command
<1>1. CASE cut' = cut
  <2>1. /\ step' \in {"idle", "recover"} /\ UNCHANGED <<runs, log>>
        /\ (spent'.outside = 0 => archive' = archive)
    BY <1>1, CutWaits DEF ArchiveInv
  <2>2. ASSUME spent'.outside = 0 PROVE Proving' # {}
    <3>1. Proving # {}
      BY <1>1, <2>2, OutsideGrows DEF ArchiveInv, CutIsProvable
    <3>2. UNCHANGED <<runs, log, archive, cut>>
      BY <1>1, <2>1, <2>2
    <3>3. Proving' = Proving
      BY <3>2 DEF Proving, Unlogged, Logged, Recorded, Entries, Holding, Free, Open,
         ArchivedAt, Begins
    <3> QED
      BY <3>1, <3>3
  <2> QED
    BY <2>1, <2>2
<1>2. CASE CrashAppending
  <2>1. step' = "idle" /\ UNCHANGED <<runs, log, archive>>
    BY <1>2 DEF CrashAppending, End
  <2>2. ASSUME spent'.outside = 0 PROVE Proving' # {}
    <3> DEFINE u == Oldest(Unlogged)
    <3>1. Holding(runs[u]) # {} /\ place = ArchivedAt(runs[u])
      BY <1>2, <2>2, OutsideGrows DEF ArchiveInv, PendingIsArchived, CrashAppending
    <3>2. PICK r \in Unlogged : r = u
      BY <1>2, OldestUnlogged DEF TypeOK, CrashAppending
    <3>3. cut' \in Prefixes([run |-> r, place |-> ArchivedAt(runs[r])])
      BY <1>2, <3>1, <3>2 DEF CrashAppending
    <3>4. r \in Unlogged' /\ Holding(runs[r])' # {}
      BY <2>1, <3>1, <3>2, SameRunsSameLog, SameArchiveSamePlace
    <3>5. ArchivedAt(runs[r])' = ArchivedAt(runs[r])
      BY <2>1, SameArchiveSamePlace
    <3>6. Begins(cut', [run |-> r, place |-> ArchivedAt(runs[r])'])
      BY <3>3, <3>5 DEF Prefixes, Begins
    <3> QED
      BY <3>4, <3>6 DEF Proving, Unlogged
  <2> QED
    BY <2>1, <2>2
<1>3. CASE CrashCompleting
  <2>1. step' = "idle" /\ UNCHANGED <<runs, log, archive>>
    BY <1>3 DEF CrashCompleting, End
  <2>2. PICK e \in Proving : cut' \in Prefixes(e)
    BY <1>3 DEF CrashCompleting
  <2>3. PICK u \in Unlogged : /\ Holding(runs[u]) # {}
                              /\ e = [run |-> u, place |-> ArchivedAt(runs[u])]
    BY <2>2 DEF Proving
  <2>4. u \in Unlogged' /\ Holding(runs[u])' # {}
    BY <2>1, <2>3, SameRunsSameLog, SameArchiveSamePlace
  <2>5. ArchivedAt(runs[u])' = ArchivedAt(runs[u])
    BY <2>1, SameArchiveSamePlace
  <2>6. Begins(cut', [run |-> u, place |-> ArchivedAt(runs[u])'])
    BY <2>2, <2>3, <2>5 DEF Prefixes, Begins
  <2> QED
    BY <2>1, <2>4, <2>6 DEF Proving, Unlogged
<1> QED
  BY <1>1, <1>2, <1>3, CutSteps

\* The archive starts empty and the log with it.
LEMMA ArchiveInvInit == Init => ArchiveInv
BY DEF Init, ArchiveInv, LoggedIsArchived, PendingIsArchived, LogIsFull, RunIsOfFile,
       FoldersHoldTheirHash, CutIsProvable, Entries

\* Every step keeps the log and the archive in agreement.
LEMMA ArchiveInvNext == TypeOK /\ LogInv /\ ArchiveInv /\ [Next]_vars => ArchiveInv'
BY LoggedIsArchivedNext, PendingIsArchivedNext, LogIsFullNext, RunIsOfFileNext,
   FoldersHoldTheirHashNext, CutIsProvableNext DEF ArchiveInv

\* What the log names is in the archive, in every reachable state.
THEOREM LoggedIsArchivedHolds == Spec => []LoggedIsArchived
BY TypeInit, TypeNext, LogInvInit, LogInvNext, ArchiveInvInit, ArchiveInvNext, PTL
DEF Spec, ArchiveInv

\* The file about to be removed holds the bytes of the import's own run, or
\* was saved over since the import compared them.
ComparedOrSavedOver ==
  step = "unlink" => savedOver \/ inbox[file] = runs[run].payload

\* Only the comparison leads to unlink, and only a save changes the file then.
LEMMA ComparedOrSavedOverNext ==
  TypeOK /\ ComparedOrSavedOver /\ [Next]_vars => ComparedOrSavedOver'
<1> SUFFICES ASSUME TypeOK, ComparedOrSavedOver, [Next]_vars, step' = "unlink",
                    ~savedOver'
             PROVE  inbox'[file'] = runs'[run'].payload
  BY DEF ComparedOrSavedOver
<1> USE DEF bronze, disk, command
<1>1. CASE ClearChecked
  BY <1>1 DEF ClearChecked
<1>2. CASE step = "unlink" /\ UNCHANGED <<runs, inbox, file, run, savedOver>>
  BY <1>2 DEF ComparedOrSavedOver
<1>3. ASSUME NEW f \in Files, Touched(f), UNCHANGED runs, \A g \in Files \ {f} : inbox'[g] = inbox[g]
      PROVE  inbox'[file'] = runs'[run'].payload
  BY <1>3 DEF Touched, ComparedOrSavedOver, TypeOK
<1>4. ASSUME NEW f \in Files, RemoveInbox(f) PROVE inbox'[file'] = runs'[run'].payload
  BY <1>3, <1>4 DEF RemoveInbox, TypeOK
<1>5. ASSUME NEW f \in Files, NEW p \in Payloads, Save(f, p)
      PROVE  inbox'[file'] = runs'[run'].payload
  BY <1>3, <1>5 DEF Save, TypeOK
<1>6. CASE Crash \/ CrashAppending \/ CrashCompleting \/ RestoreLog
  BY <1>6 DEF Crash, CrashAppending, CrashCompleting, RestoreLog, End
<1>7. ASSUME NEW p \in Places, NEW bytes \in {None, Foreign}, TouchArchive(p, bytes)
      PROVE  inbox'[file'] = runs'[run'].payload
  BY <1>2, <1>7 DEF TouchArchive
<1>8. Import => ClearChecked
  BY DEF Import, Recover, CompleteLine, LogDamaged, ArchiveOldest, LogOldest, CaughtUp,
     FindEarlier, FindNone, Record, ReadFails, ArchiveOwn, ArchiveConflict, KeepArchived,
     CopyReplaced, LeaveInInbox, Unlink, UnlinkDenied, End, Goto
<1>9. CASE UNCHANGED vars
  BY <1>2, <1>9 DEF vars
<1> QED
  BY <1>1, <1>4, <1>5, <1>6, <1>7, <1>8, <1>9
  DEF Next, Environment, Decisions, Begin, ImportNothing, Void, Withdraw

\* What one step may take out of the inbox.
ClearsOnlyWhatIsKept ==
  \A f \in Files : Removes(f) =>
    \/ Kept(f, inbox[f])
    \/ savedOver /\ file = f /\ Kept(f, runs[run].payload)

\* At unlink the import's own run is accepted, logged and archived, and its
\* bytes are those the file was seen to hold.
LEMMA ClearsOnlyWhatIsKeptNext ==
  TypeOK /\ ArchiveInv /\ ComparedOrSavedOver /\ [Next]_vars => ClearsOnlyWhatIsKept
<1> SUFFICES ASSUME TypeOK, ArchiveInv, ComparedOrSavedOver, [Next]_vars,
                    NEW f \in Files, inbox'[f] # inbox[f], spent'.saves = spent.saves
             PROVE  \/ Kept(f, inbox[f])
                    \/ savedOver /\ file = f /\ Kept(f, runs[run].payload)
  BY DEF ClearsOnlyWhatIsKept, Removes
<1> USE DEF bronze, disk, command
<1>1. Environment => inbox' = inbox
  BY DEF Environment, Crash, CrashAppending, CrashCompleting, RemoveInbox, Save, Touched,
         TouchArchive, RestoreLog, Spend, TypeOK
<1>2. Import => Unlink \/ inbox' = inbox
  BY DEF Import, Recover, CompleteLine, LogDamaged, ArchiveOldest, LogOldest, CaughtUp,
     FindEarlier, FindNone, Record, ReadFails, ArchiveOwn, ArchiveConflict, KeepArchived,
     CopyReplaced, LeaveInInbox, ClearChecked, UnlinkDenied
<1>3. Unlink
  BY <1>1, <1>2 DEF Next, Decisions, Begin, ImportNothing, Void, Withdraw, vars
<1>4. f = file /\ step = "unlink"
  BY <1>3 DEF Unlink, TypeOK
<1>5. run \in Recorded /\ run # None /\ Unlogged = {}
  BY <1>4, RecordedRuns DEF TypeOK, ArchiveInv, LogIsFull
<1>6. PICK e \in Entries : e.run = run
  BY <1>5 DEF Unlogged, Logged
<1>7. /\ <<runs[run].account, runs[run].name>> = f
      /\ runs[run].outcome \in Accepted
      /\ spent.outside = 0 => archive[e.place] = runs[run].payload
  BY <1>4, <1>5, <1>6 DEF ArchiveInv, RunIsOfFile, LoggedIsArchived
<1>8. f[1] = runs[run].account /\ f[2] = runs[run].name
  BY <1>7
<1>9. Kept(f, runs[run].payload)
  BY <1>6, <1>7, <1>8 DEF Kept
<1> QED
  BY <1>4, <1>9 DEF ComparedOrSavedOver

\* The program removes only bytes it keeps, but for a file saved over between
\* the comparison and the unlink.
THEOREM ClearedOnlyWhenKeptHolds == Spec => ClearedOnlyWhenKept
<1>1. TypeOK /\ ArchiveInv /\ ComparedOrSavedOver /\ [Next]_vars
        => [ClearsOnlyWhatIsKept]_vars
  BY ClearsOnlyWhatIsKeptNext
<1>2. Init => ComparedOrSavedOver
  BY DEF Init, ComparedOrSavedOver
<1> QED
  BY <1>1, <1>2, TypeInit, TypeNext, LogInvInit, LogInvNext, ArchiveInvInit,
     ArchiveInvNext, ComparedOrSavedOverNext, PTL
  DEF Spec, ClearedOnlyWhenKept, ClearsOnlyWhatIsKept

\* A run always has a place to go: the folder of its own hash.
LEMMA AlwaysAPlace ==
  ASSUME TypeOK, LogInv, ArchiveInv, spent.outside = 0, NEW r \in Recorded
  PROVE  HasPlace(runs[r])
<1>1. runs[r] \in Runs
  BY RecordedRuns
<1>2. PICK i \in DOMAIN Candidates(runs[r]) :
        /\ Candidates(runs[r])[i].under # "account"
        /\ Candidates(runs[r])[i].hash = runs[r].payload
  BY <1>1 DEF Candidates, PlaceIn, Runs
<1> DEFINE at == Candidates(runs[r])[i]
<1>3. at \in Places /\ archive[at] \in {None, runs[r].payload}
  BY <1>1, <1>2, CandidatesType DEF ArchiveInv, FoldersHoldTheirHash
<1>4. ASSUME NEW e \in Entries, e.place = at
      PROVE  runs[e.run].payload = runs[r].payload
  <2>1. PICK k \in DOMAIN Candidates(runs[e.run]) : at = Candidates(runs[e.run])[k]
    BY <1>4 DEF LogInv, LogAgrees
  <2>2. runs[e.run] \in Runs
    BY RecordedRuns DEF LogInv, LogAgrees
  <2> QED
    BY <1>2, <2>1, <2>2 DEF Candidates, PlaceIn
<1>5. i \in Holding(runs[r]) \cup Free(runs[r])
  BY <1>3, <1>4 DEF Holding, Free, Open
<1> QED
  BY <1>5 DEF HasPlace

\* What no step may find while the archive is the program's own.
NothingBlocks == spent.outside = 0 => ~(LogDamaged \/ ArchiveConflict \/ CopyReplaced)

\* The log agrees, its cut-off line is provable, a run has a place, and a
\* logged run's copy is where its entry says.
LEMMA NothingBlocksNext == TypeOK /\ LogInv /\ ArchiveInv => NothingBlocks
<1> SUFFICES ASSUME TypeOK, LogInv, ArchiveInv, spent.outside = 0
             PROVE  ~(LogDamaged \/ ArchiveConflict \/ CopyReplaced)
  BY DEF NothingBlocks
<1>1. ~LogDamaged
  BY DEF LogDamaged, LogInv, ArchiveInv, CutIsProvable
<1>2. ~ArchiveConflict
  BY AlwaysAPlace, OldestUnlogged DEF ArchiveConflict, TypeOK
<1>3. ~CopyReplaced
  <2> SUFFICES ASSUME CopyReplaced PROVE FALSE
    OBVIOUS
  <2>1. Unlogged = {} /\ run \in Recorded
    BY DEF TypeOK, ArchiveInv, LogIsFull, CopyReplaced
  <2>2. EntryOf(run) \in Entries /\ EntryOf(run).run = run
    BY <2>1 DEF Unlogged, Logged, EntryOf
  <2> QED
    BY <2>2 DEF CopyReplaced, ArchiveInv, LoggedIsArchived
<1> QED
  BY <1>1, <1>2, <1>3

\* No crash, no file saved over and no restored log blocks later imports.
THEOREM CrashesNeverBlockHolds == Spec => CrashesNeverBlock
<1>1. TypeOK /\ LogInv /\ ArchiveInv /\ [Next]_vars => [NothingBlocks]_vars
  BY NothingBlocksNext
<1> QED
  BY <1>1, TypeInit, TypeNext, LogInvInit, LogInvNext, ArchiveInvInit, ArchiveInvNext, PTL
  DEF Spec, CrashesNeverBlock, NothingBlocks

-----------------------------------------------------------------------------
(* A replay of the log finds the run a repeat repeats.                      *)

\* A repeat is of a run Bronze holds.
RepeatsAreRecorded ==
  \A r \in Recorded : runs[r].repeatOf # None => runs[r].repeatOf \in Recorded

\* Until a log is put back, a repeat is only recorded once its original is
\* logged, whichever of the two the clock puts first.
OriginalsAreLogged ==
  spent.restores = 0 =>
    \A r \in Recorded : runs[r].repeatOf # None => runs[r].repeatOf \in Logged

\* A line was cut off while the oldest run the log lacks was logged: that run
\* has its copy, and the line names no other run.  So the line that is
\* completed never runs ahead of an older run's.
CutIsOldest ==
  spent.outside = 0 /\ cut # None =>
    /\ Holding(runs[Oldest(Unlogged)]) # {}
    /\ \/ cut.run = None /\ cut.place = None
       \/ /\ cut.run = Oldest(Unlogged)
          /\ cut.place \in {None, ArchivedAt(runs[Oldest(Unlogged)])}

ReplayInv ==
  /\ LogReplayable
  /\ RepeatsAreRecorded
  /\ OriginalsAreLogged
  /\ CutIsOldest

\* What recording a run does: it repeats, if any, a run Bronze holds.
LEMMA RecordsOne ==
  ASSUME TypeOK, Record
  PROVE  \E r \in RunIds \ Recorded :
           /\ Recorded' = Recorded \cup {r}
           /\ \A s \in Recorded : runs'[s] = runs[s]
           /\ runs'[r].repeatOf # None => runs'[r].repeatOf \in Recorded
<1>1. PICK r \in FreshIds, refused \in BOOLEAN :
        runs' = [runs EXCEPT ![r] = Decide(file, inbox[file], refused)]
  BY DEF Record
<1> DEFINE here == {s \in InForce(inbox[file]) : runs[s].account = file[1]}
<1>2. Decide(file, inbox[file], refused) \in Runs /\ r \in RunIds \ Recorded
  BY DecideType DEF TypeOK, Record, FreshIds
<1>3. here \in SUBSET Nat /\ IsFiniteSet(here) /\ here \subseteq Recorded
  <2>1. here \subseteq RunIds /\ here \subseteq Recorded
    BY DEF InForce, Recorded
  <2> QED
    BY <2>1, RunIdsAssumption, FS_Subset
<1>4. here # {} => Oldest(here) \in Recorded
  BY <1>3, OldestIsLeast
<1>5. Decide(file, inbox[file], refused).repeatOf \in Recorded \cup {None}
  BY <1>4 DEF Decide
<1> QED
  BY <1>1, <1>2, <1>5, RecordedGrows

\* A repeat is of a run recorded before it.
LEMMA RepeatsAreRecordedNext ==
  TypeOK /\ RepeatsAreRecorded /\ [Next]_vars => RepeatsAreRecorded'
<1> SUFFICES ASSUME TypeOK, RepeatsAreRecorded, [Next]_vars
             PROVE  RepeatsAreRecorded'
  OBVIOUS
<1>1. CASE UNCHANGED runs
  BY <1>1 DEF RepeatsAreRecorded, Recorded
<1>2. CASE Record
  BY <1>2, RecordsOne DEF RepeatsAreRecorded
<1> QED
  BY <1>1, <1>2, BronzeSteps DEF Void, Withdraw

\* Restores are only ever counted up, and only a restore shortens the log.
LEMMA LoggedStays ==
  ASSUME TypeOK, [Next]_vars, spent'.restores = 0
  PROVE  spent.restores = 0 /\ Logged \subseteq Logged'
<1> USE DEF bronze, disk, command
<1>1. spent' = spent \/ \E what \in DOMAIN spent : spent' = [spent EXCEPT ![what] = @ + 1]
  BY DEF Next, Import, Environment, Decisions, Begin, ImportNothing, vars, Recover,
         CompleteLine, LogDamaged, ArchiveOldest, LogOldest, CaughtUp, FindEarlier,
         FindNone, Record, ReadFails, ArchiveOwn, ArchiveConflict, KeepArchived,
         CopyReplaced, LeaveInInbox, ClearChecked, Unlink, UnlinkDenied, Crash,
         CrashAppending, CrashCompleting, RemoveInbox, Save, Touched, TouchArchive,
         RestoreLog, Void, Withdraw, Spend, TypeOK
<1>2. spent.restores = 0
  BY <1>1 DEF TypeOK
<1>3. ~RestoreLog
  BY <1>2 DEF RestoreLog, Spend, TypeOK
<1>4. ASSUME NEW e, log' = Append(log, e) PROVE Logged \subseteq Logged'
  <2>1. log \in Seq([run: RunIds, place: Places])
    BY DEF TypeOK
  <2>2. /\ DOMAIN log \subseteq DOMAIN log'
        /\ \A i \in DOMAIN log : log'[i] = log[i]
    BY <1>4, <2>1
  <2>3. ASSUME NEW i \in DOMAIN log
        PROVE  log[i].run \in Logged'
    BY <2>2 DEF Logged, Entries
  <2> QED
    BY <2>3 DEF Logged, Entries
<1>5. ASSUME UNCHANGED log PROVE Logged \subseteq Logged'
  <2>1. Entries' = Entries
    BY <1>5 DEF Entries
  <2> QED
    BY <2>1 DEF Logged
<1>6. CompleteLine \/ LogOldest => \E e : log' = Append(log, e)
  BY DEF CompleteLine, LogOldest
<1>7. Record \/ ArchiveOldest => UNCHANGED log
  BY DEF Record, ArchiveOldest
<1> QED
  BY <1>2, <1>3, <1>4, <1>5, <1>6, <1>7, LogSteps

\* A run is recorded only once the log holds every other.
LEMMA OriginalsAreLoggedNext ==
  TypeOK /\ ArchiveInv /\ OriginalsAreLogged /\ [Next]_vars => OriginalsAreLogged'
<1> SUFFICES ASSUME TypeOK, ArchiveInv, OriginalsAreLogged, [Next]_vars,
                    spent'.restores = 0, NEW r \in Recorded', runs'[r].repeatOf # None
             PROVE  runs'[r].repeatOf \in Logged'
  BY DEF OriginalsAreLogged
<1>1. spent.restores = 0 /\ Logged \subseteq Logged'
  BY LoggedStays
<1>2. CASE r \in Recorded
  BY <1>1, <1>2, RunsStay DEF OriginalsAreLogged
<1>3. CASE r \notin Recorded
  <2>1. Record
    BY <1>3, BronzeSteps DEF Void, Withdraw, Recorded
  <2>2. runs'[r].repeatOf \in Recorded
    BY <1>3, <2>1, RecordsOne
  <2>3. Unlogged = {}
    BY <2>1 DEF Record, ArchiveInv, LogIsFull
  <2> QED
    BY <1>1, <2>2, <2>3 DEF Unlogged
<1> QED
  BY <1>2, <1>3

\* The line that is completed is the oldest unlogged run's.
LEMMA OldestProves ==
  ASSUME TypeOK, CutIsOldest, spent.outside = 0, cut # None,
         NEW e \in Proving, Proves(e)
  PROVE  /\ Unlogged # {} /\ e.run = Oldest(Unlogged)
         /\ e.place = ArchivedAt(runs[Oldest(Unlogged)])
<1>1. PICK u \in Unlogged : /\ Holding(runs[u]) # {}
                            /\ e = [run |-> u, place |-> ArchivedAt(runs[u])]
                            /\ Begins(cut, e)
  BY DEF Proving
<1>2. PICK o \in Unlogged : o = Oldest(Unlogged)
  BY <1>1, OldestUnlogged
<1>3. \A x \in Unlogged : x \in Nat /\ o <= x
  <2>1. Unlogged \in SUBSET Nat /\ IsFiniteSet(Unlogged)
    <3>1. Unlogged \subseteq RunIds
      BY DEF Unlogged, Recorded
    <3> QED
      BY <3>1, RunIdsAssumption, FS_Subset
  <2> QED
    BY <1>1, <1>2, <2>1, OldestIsLeast
<1>4. Begins(cut, [run |-> o, place |-> ArchivedAt(runs[o])]) /\ Holding(runs[o]) # {}
  BY <1>2 DEF CutIsOldest, Begins
<1>5. [run |-> o, place |-> ArchivedAt(runs[o])] \in Proving
  BY <1>4 DEF Proving
<1>6. u <= o
  BY <1>1, <1>5 DEF Proves
<1>7. u = o
  BY <1>3, <1>6
<1> QED
  BY <1>1, <1>2, <1>7

\* A line is cut off only from the oldest unlogged run's entry.
LEMMA CutIsOldestNext ==
  TypeOK /\ ArchiveInv /\ CutIsOldest /\ [Next]_vars => CutIsOldest'
<1> DEFINE u == Oldest(Unlogged)
<1> SUFFICES ASSUME TypeOK, ArchiveInv, CutIsOldest, [Next]_vars,
                    spent'.outside = 0, cut' # None
             PROVE  CutIsOldest'
  BY DEF CutIsOldest
<1>1. spent.outside = 0
  BY OutsideGrows
<1>2. UNCHANGED <<runs, log, archive>>
  <2>1. CASE cut' = cut
    BY <2>1, CutWaits DEF ArchiveInv
  <2>2. CASE CrashAppending \/ CrashCompleting
    BY <2>2 DEF CrashAppending, CrashCompleting, bronze
  <2> QED
    BY <2>1, <2>2, CutSteps
<1>3. u' = u /\ (Holding(runs[u]))' = Holding(runs[u])
      /\ (ArchivedAt(runs[u]))' = ArchivedAt(runs[u])
  <2>1. u' = u /\ Entries' = Entries
    BY <1>2, SameRunsSameLog
  <2> QED
    BY <1>2, <2>1 DEF Holding, Free, Open, ArchivedAt
<1>4. CASE cut' = cut
  BY <1>1, <1>3, <1>4 DEF CutIsOldest
<1>5. ASSUME Holding(runs[u]) # {},
             cut' \in Prefixes([run |-> u, place |-> ArchivedAt(runs[u])])
      PROVE  CutIsOldest'
  BY <1>3, <1>5 DEF CutIsOldest, Prefixes
<1>6. CASE CrashAppending
  <2>1. Holding(runs[u]) # {} /\ place = ArchivedAt(runs[u])
    BY <1>1, <1>6 DEF CrashAppending, ArchiveInv, PendingIsArchived
  <2> QED
    BY <1>5, <1>6, <2>1 DEF CrashAppending
<1>7. CASE CrashCompleting
  <2>1. PICK e \in Proving : Proves(e) /\ cut' \in Prefixes(e)
    BY <1>7 DEF CrashCompleting
  <2>2. cut # None
    BY <1>7 DEF CrashCompleting
  <2>3. e.run = u /\ e.place = ArchivedAt(runs[u])
    BY <1>1, <2>1, <2>2, OldestProves
  <2>4. e = [run |-> u, place |-> ArchivedAt(runs[u])]
    BY <2>1, <2>3 DEF Proving
  <2> QED
    BY <1>1, <1>5, <2>1, <2>2, <2>4 DEF CutIsOldest
<1> QED
  BY <1>4, <1>6, <1>7, CutSteps

\* Logging the oldest unlogged run logs a repeat after the run it repeats.
LEMMA OldestReplays ==
  ASSUME TypeOK, LogReplayable, RepeatsAreRecorded, OriginalsAreLogged,
         spent.outside = 0, Unlogged # {}, UNCHANGED <<runs, spent>>,
         NEW e, log' = Append(log, e), e.run = Oldest(Unlogged)
  PROVE  LogReplayable'
<1> DEFINE u == Oldest(Unlogged)
<1>1. log \in Seq([run: RunIds, place: Places]) /\ Len(log) \in Nat
  BY LenProperties DEF TypeOK
<1>2. /\ DOMAIN log = 1 .. Len(log) /\ DOMAIN log' = 1 .. Len(log) + 1
      /\ \A j \in 1 .. Len(log) : log'[j] = log[j]
      /\ log'[Len(log) + 1] = e
  BY <1>1
<1> DEFINE Ordered(r) == spent.restores = 0 \/ runs[r].repeatOf < r
<1>3. ASSUME runs[u].repeatOf # None, Ordered(u)
      PROVE  \E j \in 1 .. Len(log) : log[j].run = runs[u].repeatOf
  <2> DEFINE o == runs[u].repeatOf
  <2>1. u \in Recorded /\ o \in Recorded
    BY <1>3, OldestUnlogged DEF RepeatsAreRecorded
  <2>2. CASE spent.restores = 0
    <3>1. PICK d \in Entries : d.run = o
      BY <1>3, <2>1, <2>2 DEF OriginalsAreLogged, Logged
    <3> QED
      BY <1>2, <3>1 DEF Entries
  <2>3. ASSUME o < u PROVE o \notin Unlogged
    <3>1. Unlogged \in SUBSET Nat /\ IsFiniteSet(Unlogged)
      <4>1. Unlogged \subseteq RunIds
        BY DEF Unlogged, Recorded
      <4> QED
        BY <4>1, RunIdsAssumption, FS_Subset
    <3>2. \A x \in Unlogged : u <= x
      BY <3>1, OldestIsLeast
    <3>3. u \in Nat /\ o \in Nat
      BY <2>1, RunIdsAssumption DEF Recorded
    <3> QED
      BY <2>3, <3>2, <3>3
  <2>4. CASE o < u
    <3>1. PICK d \in Entries : d.run = o
      BY <2>1, <2>3, <2>4 DEF Unlogged, Logged
    <3> QED
      BY <1>2, <3>1 DEF Entries
  <2> QED
    BY <1>3, <2>2, <2>4
<1> SUFFICES ASSUME NEW i \in 1 .. Len(log) + 1, runs[log'[i].run].repeatOf # None,
                    Ordered(log'[i].run)
             PROVE  \E j \in 1 .. i - 1 : log'[j].run = runs[log'[i].run].repeatOf
  BY <1>2 DEF LogReplayable
<1> HIDE DEF Ordered
<1>4. CASE i = Len(log) + 1
  <2>1. log'[i].run = u /\ i - 1 = Len(log)
    BY <1>1, <1>2, <1>4
  <2>2. PICK j \in 1 .. Len(log) : log[j].run = runs[u].repeatOf
    BY <1>3, <2>1
  <2> QED
    BY <1>2, <2>1, <2>2
<1>5. CASE i \in 1 .. Len(log)
  <2>1. PICK j \in 1 .. i - 1 : log[j].run = runs[log[i].run].repeatOf
    BY <1>2, <1>5 DEF LogReplayable, Ordered
  <2>2. j \in 1 .. Len(log)
    BY <1>1, <1>5, <2>1
  <2> QED
    BY <1>2, <1>5, <2>1, <2>2
<1> QED
  BY <1>1, <1>4, <1>5

\* Whatever the log gains or loses, it can still be replayed.
LEMMA LogReplayableNext ==
  TypeOK /\ LogInv /\ ReplayInv /\ [Next]_vars => LogReplayable'
<1> SUFFICES ASSUME TypeOK, LogInv, ReplayInv, [Next]_vars, spent'.outside = 0
             PROVE  LogReplayable'
  BY DEF LogReplayable
<1> USE DEF bronze, disk, command
<1>1. spent.outside = 0 /\ (spent'.restores = 0 => spent.restores = 0)
  BY OutsideGrows, LoggedStays
<1>2. CASE UNCHANGED <<runs, log>>
  BY <1>1, <1>2 DEF ReplayInv, LogReplayable
<1>3. CASE CompleteLine
  <2>1. PICK e \in Proving : Proves(e) /\ log' = Append(log, e)
    BY <1>3 DEF CompleteLine
  <2>2. cut # None /\ UNCHANGED <<runs, spent>>
    BY <1>3 DEF CompleteLine
  <2>3. Unlogged # {} /\ e.run = Oldest(Unlogged)
    BY <1>1, <2>1, <2>2, OldestProves DEF ReplayInv
  <2> QED
    BY <1>1, <2>1, <2>2, <2>3, OldestReplays DEF ReplayInv
<1>4. CASE LogOldest
  <2>1. Unlogged # {} /\ UNCHANGED <<runs, spent>>
    BY <1>4 DEF TypeOK, LogOldest
  <2>2. PICK e : log' = Append(log, e) /\ e.run = Oldest(Unlogged)
    BY <1>4 DEF LogOldest
  <2> QED
    BY <1>1, <2>1, <2>2, OldestReplays DEF ReplayInv
<1>5. CASE RestoreLog
  <2>1. PICK k \in 0 .. Len(log) : log' = SubSeq(log, 1, k)
    BY <1>5 DEF RestoreLog
  <2>2. /\ UNCHANGED runs /\ DOMAIN log' = 1 .. k
        /\ \A i \in 1 .. k : i \in DOMAIN log /\ log'[i] = log[i]
    BY <1>5, <2>1 DEF TypeOK, RestoreLog
  <2> SUFFICES ASSUME NEW i \in 1 .. k, runs[log'[i].run].repeatOf # None,
                      spent'.restores = 0 \/ runs[log'[i].run].repeatOf < log'[i].run
               PROVE  \E j \in 1 .. i - 1 : log'[j].run = runs[log'[i].run].repeatOf
    BY <2>2 DEF LogReplayable
  <2>3. PICK j \in 1 .. i - 1 : log[j].run = runs[log[i].run].repeatOf
    BY <1>1, <2>2 DEF ReplayInv, LogReplayable
  <2>4. j \in 1 .. k
    BY <2>1, <2>3
  <2> QED
    BY <2>2, <2>3, <2>4
<1>6. CASE Record
  <2>1. UNCHANGED log /\ \A i \in DOMAIN log : log[i].run \in Recorded
    BY <1>6 DEF Record, LogInv, LogAgrees, Entries
  <2>2. \A i \in DOMAIN log : runs'[log[i].run] = runs[log[i].run]
    BY <2>1, RunsStay
  <2> QED
    BY <1>1, <2>1, <2>2 DEF ReplayInv, LogReplayable
<1>7. ArchiveOldest => UNCHANGED <<runs, log>>
  BY DEF ArchiveOldest
<1> QED
  BY <1>2, <1>3, <1>4, <1>5, <1>6, <1>7, LogSteps

\* Every step keeps what a replay relies on.
LEMMA ReplayInvNext ==
  TypeOK /\ LogInv /\ ArchiveInv /\ ReplayInv /\ [Next]_vars => ReplayInv'
BY LogReplayableNext, RepeatsAreRecordedNext, OriginalsAreLoggedNext, CutIsOldestNext
DEF ReplayInv

\* Each repeat the log holds comes after the run it repeats, whatever the clock
\* did and whatever crashes came in between; once a log was put back, each
\* repeat that Bronze orders after its original.
THEOREM LogReplayableHolds == Spec => []LogReplayable
<1>1. Init => ReplayInv
  BY DEF Init, ReplayInv, LogReplayable, RepeatsAreRecorded, OriginalsAreLogged,
         CutIsOldest, Recorded
<1> QED
  BY <1>1, TypeInit, TypeNext, LogInvInit, LogInvNext, ArchiveInvInit,
     ArchiveInvNext, ReplayInvNext, PTL DEF Spec, ReplayInv
=============================================================================
