--------------------------- MODULE PipelineProofs ---------------------------
(* Proofs that a build keeps to what it has read and publishes from the      *)
(* Silver it stored, that it ends current, and that every write is covered   *)
(* by a set: for every set of runs, commits and configurations, and for any  *)
(* number of decisions, edits, refusals and commands cut off.                *)
EXTENDS Pipeline, TLAPS, SequenceTheorems

-----------------------------------------------------------------------------
(* What is derived is of its kind.                                          *)

\* The records of some of the runs are records.
LEMMA FewerRecords ==
  ASSUME NEW f \in Records, NEW gone
  PROVE  [r \in DOMAIN f \ gone |-> f[r]] \in Records
<1>1. PICK rs \in SUBSET Runs : f \in [rs -> Codes]
  BY DEF Records
<1>2. [r \in DOMAIN f \ gone |-> f[r]] \in [rs \ gone -> Codes]
  BY <1>1
<1>3. rs \ gone \in SUBSET Runs
  BY <1>1
<1> QED
  BY <1>2, <1>3 DEF Records

\* Records with one more run in them are records.
LEMMA OneRunMore ==
  ASSUME NEW f \in Records, NEW r \in Runs, NEW k \in Codes
  PROVE  [s \in DOMAIN f \cup {r} |-> IF s = r THEN k ELSE f[s]] \in Records
<1>1. PICK rs \in SUBSET Runs : f \in [rs -> Codes]
  BY DEF Records
<1>2. [s \in DOMAIN f \cup {r} |-> IF s = r THEN k ELSE f[s]] \in [rs \cup {r} -> Codes]
  BY <1>1
<1>3. rs \cup {r} \in SUBSET Runs
  BY <1>1
<1> QED
  BY <1>2, <1>3 DEF Records

\* Records parsed again by one code are records.
LEMMA SameRunsReparsed ==
  ASSUME NEW f \in Records, NEW k \in Codes
  PROVE  [r \in DOMAIN f |-> k] \in Records
<1>1. PICK rs \in SUBSET Runs : f \in [rs -> Codes]
  BY DEF Records
<1>2. [r \in DOMAIN f |-> k] \in [rs -> Codes]
  BY <1>1
<1> QED
  BY <1>1, <1>2 DEF Records

\* The decisions in force are positions of the log.
LEMMA InForceArePositions ==
  ASSUME NEW K, NEW n \in Position
  PROVE  InForceOf(K, n) \in SUBSET (1 .. MaxDecisions)
BY BoundsAssumption DEF InForceOf, InForce, Position

\* What a build derives is a Silver result.
LEMMA DerivedIsSilver ==
  ASSUME NEW records \in Records, inputs \in HouseholdInputs,
         config \in Configs, running \in Codes
  PROVE  DeriveSilver(records) \in SilverResults
<1>1. inputs.position \in Position
  BY DEF HouseholdInputs
<1>2. InForceOf(SilverKinds, inputs.position) \in SUBSET (1 .. MaxDecisions)
  BY <1>1, InForceArePositions
<1>3. [r \in DOMAIN records \ Voided(inputs.position) |-> records[r]] \in Records
  BY FewerRecords
<1> QED
  BY <1>2, <1>3 DEF DeriveSilver, Unvoided, SilverResults

\* What a build plans from a Silver result is a publication, or none.
LEMMA PlannedIsPublication ==
  ASSUME NEW result \in SilverResults, inputs \in HouseholdInputs,
         code \in Codes, running \in Codes
  PROVE  PlanGold(result) \in Publications \cup {None}
<1>1. inputs.position \in Position /\ inputs.config \in Configs
  BY DEF HouseholdInputs
<1>2. InForceOf(GoldKinds, inputs.position) \in SUBSET (1 .. MaxDecisions)
  BY <1>1, InForceArePositions
<1>3. DOMAIN result.records \in SUBSET Runs
  <2>1. result.records \in Records
    BY DEF SilverResults
  <2> QED
    BY <2>1 DEF Records
<1>4. Recipe(result) \in Recipes
  BY <1>1, <1>3 DEF Recipe, Recipes
<1>5. [silver |-> result, config |-> inputs.config,
       decisions |-> InForceOf(GoldKinds, inputs.position),
       code |-> running] \in GoldResults
  BY <1>1, <1>2 DEF GoldResults
<1>6. Publication(result) \in Publications
  BY <1>4, <1>5 DEF Publication, Publications
<1> QED
  BY <1>6 DEF PlanGold

-----------------------------------------------------------------------------
(* The type invariant.                                                      *)

\* Ending a command leaves its memory empty.
LEMMA StopIsTyped ==
  ASSUME Stop
  PROVE  /\ command' \in Commands /\ from' \in Stages \cup {None} /\ phase' \in Phases
         /\ running' \in Codes \cup {None}
         /\ inputs' \in HouseholdInputs \cup {None}
         /\ derived' \in SilverResults \cup {None}
         /\ plan' \in Publications \cup {None}
         /\ wrote' \in BOOLEAN /\ quiet' \in BOOLEAN
BY DEF Stop, Commands, Phases

\* So does beginning one, but for the code it was started with.
LEMMA BeginIsTyped ==
  ASSUME NEW c \in Commands, NEW stage \in Stages \cup {None}, NEW p \in Phases,
         TypeOK, Begin(c, stage, p)
  PROVE  /\ command' \in Commands /\ from' \in Stages \cup {None} /\ phase' \in Phases
         /\ running' \in Codes \cup {None}
         /\ inputs' \in HouseholdInputs \cup {None}
         /\ derived' \in SilverResults \cup {None}
         /\ plan' \in Publications \cup {None}
         /\ quiet' \in BOOLEAN
BY DEF Begin, TypeOK

LEMMA SpendIsTyped ==
  ASSUME NEW b \in Spendable, TypeOK, Spend(b)
  PROVE  spent' \in [Spendable -> Nat]
BY DEF Spend, TypeOK

\* A command under way remembers the code it was started with, and, once it
\* has read them, the household's inputs.
Remembers ==
  /\ phase # "idle" => running \in Codes
  /\ phase \in {"storing", "planning", "reparsing", "replacing", "publishing"} => inputs \in HouseholdInputs

Typed == TypeOK /\ Remembers

LEMMA TypedInit == Init => Typed
<1> SUFFICES ASSUME Init PROVE Typed
  OBVIOUS
<1>1. bronze \in Records
  <2>1. bronze \in [{} -> Codes]
    BY DEF Init
  <2> QED
    BY <2>1 DEF Records
<1>2. log \in Seq(Entries) /\ Len(log) \in Position
  BY BoundsAssumption DEF Init, Position
<1>3. gold \in [current : Publications \cup {None}, previous : Publications \cup {None}]
  BY DEF Init
<1>4. spent \in [Spendable -> Nat]
  BY DEF Init
<1> QED
  BY <1>1, <1>2, <1>3, <1>4 DEF Init, Typed, TypeOK, Remembers, Commands, Phases, Exposures

\* So does a command ended by an error.
LEMMA EndIsTyped ==
  ASSUME Typed, EndWithoutSet, spent' \in [Spendable -> Nat]
  PROVE  Typed'
BY StopIsTyped DEF EndWithoutSet, Typed, TypeOK, Stop, Remembers, Exposures

LEMMA TypedStep == Typed /\ [Next]_vars => Typed'
<1> SUFFICES ASSUME Typed, [Next]_vars PROVE Typed'
  OBVIOUS
<1> USE DEF Typed
<1>1. CASE Import
  BY <1>1, BeginIsTyped DEF Import, TypeOK, Commands, Phases, Stages, Begin, Remembers
<1>2. ASSUME NEW stage \in Stages, Rebuild(stage) PROVE Typed'
  BY <1>2, BeginIsTyped DEF Rebuild, TypeOK, Commands, Phases, Begin, Remembers
<1>3. ASSUME NEW e \in Entries, Decide(e) PROVE Typed'
  <2>1. log' \in Seq(Entries) /\ Len(log') \in Position
    BY <1>3, AppendProperties, BoundsAssumption DEF Decide, TypeOK, Position
  <2>2. Begin("decide", IF e.kind \in SilverKinds THEN "silver" ELSE "gold", "reading")
    BY <1>3 DEF Decide
  <2> QED
    BY <1>3, <2>1, <2>2, BeginIsTyped
    DEF Decide, TypeOK, Commands, Phases, Stages, Outdate, Begin, Remembers
<1>4. CASE Undo
  <2>1. gold' \in [current : Publications \cup {None}, previous : Publications \cup {None}]
    BY <1>4 DEF Undo, TypeOK
  <2> QED
    BY <1>4, <2>1, BeginIsTyped DEF Undo, TypeOK, Commands, Phases, Outdate, Begin, Remembers
<1>5. ASSUME NEW r \in Runs, StoreRun(r) PROVE Typed'
  <2>1. running \in Codes
    BY <1>5 DEF StoreRun, Remembers
  <2>2. bronze' \in Records
    BY <1>5, <2>1, OneRunMore DEF StoreRun, TypeOK
  <2> QED
    BY <1>5, <2>2 DEF StoreRun, TypeOK, Outdate, Remembers
<1>6. CASE ReadInputs
  BY <1>6 DEF ReadInputs, TypeOK, Phases, HouseholdInputs, Remembers
<1>7. CASE NothingToBuild
  BY <1>7, StopIsTyped DEF NothingToBuild, TypeOK, Stop, Remembers
<1>8. CASE StoringDone
  BY <1>8 DEF StoringDone, TypeOK, Phases, Remembers
<1>9. CASE PlanThrough
  <2> DEFINE records == IF from = "bronze" THEN Reparsed ELSE bronze
  <2>1. running \in Codes /\ inputs \in HouseholdInputs
    BY <1>9 DEF PlanThrough, Remembers
  <2>2. records \in Records
    BY <2>1, SameRunsReparsed DEF Reparsed, TypeOK
  <2>3. DeriveSilver(records) \in SilverResults
    <3> HIDE DEF records
    <3> QED
      BY <2>1, <2>2, DerivedIsSilver DEF TypeOK
  <2>4. PlanGold(DeriveSilver(records)) \in Publications \cup {None}
    BY <2>1, <2>3, PlannedIsPublication DEF TypeOK
  <2>5. derived' = DeriveSilver(records) /\ plan' = PlanGold(DeriveSilver(records))
    BY <1>9 DEF PlanThrough
  <2> QED
    BY <1>9, <2>3, <2>4, <2>5 DEF PlanThrough, TypeOK, Phases, Remembers
<1>10. CASE PlanFromStored
  <2>1. running \in Codes /\ inputs \in HouseholdInputs
    BY <1>10 DEF PlanFromStored, Remembers
  <2>2. silver \in SilverResults
    BY <1>10 DEF PlanFromStored, TypeOK
  <2>3. PlanGold(silver) \in Publications \cup {None}
    BY <2>1, <2>2, PlannedIsPublication DEF TypeOK
  <2> QED
    BY <1>10, <2>3 DEF PlanFromStored, TypeOK, Phases, Remembers
<1>11. CASE SilverNotBuilt
  BY <1>11, EndIsTyped DEF SilverNotBuilt, TypeOK
<1>12. CASE Refuse
  <2>1. spent' \in [Spendable -> Nat]
    BY <1>12, SpendIsTyped DEF Refuse, Spendable
  <2>2. CASE wrote
    BY <1>12, <2>1, <2>2 DEF Refuse, TypeOK, Phases, Remembers
  <2>3. CASE ~wrote
    BY <1>12, <2>1, <2>3, StopIsTyped DEF Refuse, TypeOK, Stop, Remembers
  <2> QED
    BY <2>2, <2>3
<1>13. CASE ReplaceSilver
  <2>1. wrote' \in BOOLEAN /\ covered' \in BOOLEAN
    BY <1>13 DEF ReplaceSilver, Outdate, TypeOK
  <2> QED
    BY <1>13, <2>1 DEF ReplaceSilver, TypeOK, Phases, Remembers
<1>24. CASE ReplaceRecords
  <2>1. bronze' \in Records
    BY <1>24, SameRunsReparsed DEF ReplaceRecords, Remembers, Reparsed, TypeOK
  <2>2. covered' \in BOOLEAN
    BY <1>24 DEF ReplaceRecords, Outdate, TypeOK
  <2> QED
    BY <1>24, <2>1, <2>2 DEF ReplaceRecords, TypeOK, Phases, Remembers
<1>25. CASE StopWithoutSet
  <2>1. spent' \in [Spendable -> Nat]
    BY <1>25, SpendIsTyped DEF StopWithoutSet, Spendable
  <2> QED
    BY <1>25, <2>1, EndIsTyped DEF StopWithoutSet
<1>14. CASE Publish
  <2>1. gold' \in [current : Publications \cup {None}, previous : Publications \cup {None}]
    BY <1>14 DEF Publish, TypeOK
  <2>2. wrote' \in BOOLEAN /\ covered' \in BOOLEAN
    BY <1>14 DEF Publish, Outdate, TypeOK
  <2> QED
    BY <1>14, <2>1, <2>2 DEF Publish, TypeOK, Phases, Remembers
<1>15. CASE Finish
  BY <1>15, StopIsTyped DEF Finish, TypeOK, Stop, Remembers
<1>16. CASE BackUp
  BY <1>16, StopIsTyped DEF BackUp, TypeOK, Stop, Remembers, Exposures
<1>17. CASE BackUpFails
  BY <1>17, StopIsTyped, SpendIsTyped DEF BackUpFails, TypeOK, Stop, Remembers, Spendable, Exposures
<1>18. CASE BackUpNow
  BY <1>18 DEF BackUpNow, TypeOK, Remembers, Exposures
<1>19. CASE Crash
  BY <1>19, StopIsTyped, SpendIsTyped DEF Crash, TypeOK, Stop, Remembers, Spendable, Exposures
<1>20. ASSUME NEW c \in Configs, EditInputs(c) PROVE Typed'
  BY <1>20, SpendIsTyped DEF EditInputs, TypeOK, Remembers, Spendable
<1>21. ASSUME NEW k \in Codes, CheckOut(k) PROVE Typed'
  BY <1>21, SpendIsTyped DEF CheckOut, TypeOK, Remembers, Spendable
<1>22. CASE Decline
  BY <1>22, StopIsTyped, SpendIsTyped DEF Decline, TypeOK, Stop, Remembers, Spendable
<1>23. CASE UNCHANGED vars
  BY <1>23 DEF vars, TypeOK, Remembers
<1> QED
  BY <1>1, <1>2, <1>3, <1>4, <1>5, <1>6, <1>7, <1>8, <1>9, <1>10, <1>11, <1>12,
     <1>13, <1>14, <1>15, <1>16, <1>17, <1>18, <1>19, <1>20, <1>21, <1>22,
     <1>23, <1>24, <1>25
  DEF Next, Step

\* The stores, the log and a command's memory hold what they are meant to.
THEOREM TypeCorrect == Spec => []TypeOK
<1>1. Init => Typed
  BY TypedInit
<1>2. Typed /\ [Next]_vars => Typed'
  BY TypedStep
<1>3. Typed => TypeOK
  BY DEF Typed
<1> QED
  BY <1>1, <1>2, <1>3, PTL DEF Spec

-----------------------------------------------------------------------------
(* Every write is covered by a set.                                         *)

\* While something is not covered and nothing ended without a set, a command
\* is under way that knows it has written.  An import that has written in
\* storing has stored a run, so it cannot end there; and it rebuilds from
\* Silver, so that it leaves the records of Bronze alone.
OwesItsSet ==
  /\ exposed = "no" /\ ~covered => phase # "idle" /\ wrote
  /\ phase = "reading" /\ command = "import" => ~wrote
  /\ phase = "storing" /\ wrote => DOMAIN bronze # {}
  /\ command = "import" => from = "silver"

LEMMA OwesInit == Init => OwesItsSet
BY DEF Init, OwesItsSet

LEMMA OwesStep == Typed /\ OwesItsSet /\ [Next]_vars => OwesItsSet'
<1> SUFFICES ASSUME Typed, OwesItsSet, [Next]_vars PROVE OwesItsSet'
  OBVIOUS
<1> USE DEF OwesItsSet
<1>1. CASE Import
  BY <1>1 DEF Import, Begin
<1>2. ASSUME NEW stage \in Stages, Rebuild(stage) PROVE OwesItsSet'
  BY <1>2 DEF Rebuild, Begin
<1>3. ASSUME NEW e \in Entries, Decide(e) PROVE OwesItsSet'
  BY <1>3 DEF Decide, Begin
<1>4. CASE Undo
  BY <1>4 DEF Undo, Begin
<1>5. ASSUME NEW r \in Runs, StoreRun(r) PROVE OwesItsSet'
  BY <1>5 DEF StoreRun
<1>6. CASE ReadInputs \/ StoringDone \/ PlanThrough \/ PlanFromStored
  BY <1>6 DEF ReadInputs, StoringDone, PlanThrough, PlanFromStored
<1>7. CASE NothingToBuild
  <2>1. ~wrote
    BY <1>7 DEF NothingToBuild
  <2>2. exposed # "no" \/ covered
    BY <2>1
  <2> QED
    BY <1>7, <2>2 DEF NothingToBuild, Stop
<1>8. CASE SilverNotBuilt \/ StopWithoutSet
  BY <1>8 DEF SilverNotBuilt, StopWithoutSet, EndWithoutSet, Stop
<1>9. CASE Refuse
  BY <1>9 DEF Refuse, Stop
<1>10. CASE ReplaceRecords \/ ReplaceSilver
  BY <1>10 DEF ReplaceRecords, ReplaceSilver, Outdate, OnDisk
<1>11. CASE Publish
  BY <1>11 DEF Publish, Outdate, OnDisk
<1>12. CASE Finish \/ Decline
  BY <1>12 DEF Finish, Decline, Stop
<1>13. CASE BackUp \/ BackUpFails \/ BackUpNow \/ Crash
  BY <1>13 DEF BackUp, BackUpFails, BackUpNow, Crash, Stop
<1>14. ASSUME NEW c \in Configs, EditInputs(c) PROVE OwesItsSet'
  BY <1>14 DEF EditInputs
<1>15. ASSUME NEW k \in Codes, CheckOut(k) PROVE OwesItsSet'
  BY <1>15 DEF CheckOut
<1>16. CASE UNCHANGED vars
  BY <1>16 DEF vars
<1> QED
  BY <1>1, <1>2, <1>3, <1>4, <1>5, <1>6, <1>7, <1>8, <1>9, <1>10, <1>11, <1>12,
     <1>13, <1>14, <1>15, <1>16 DEF Next, Step

\* Between commands the newest set holds what is on disk, unless a command
\* that had written since was cut off, could not write its set, or ended with
\* an error other than a configuration error.
THEOREM WritesAreBackedUp == Spec => []EveryWriteIsBackedUp
<1>1. Init => Typed /\ OwesItsSet
  BY TypedInit, OwesInit
<1>2. Typed /\ OwesItsSet /\ [Next]_vars => (Typed /\ OwesItsSet)'
  BY TypedStep, OwesStep
<1>3. OwesItsSet => EveryWriteIsBackedUp
  BY DEF OwesItsSet, EveryWriteIsBackedUp
<1> QED
  BY <1>1, <1>2, <1>3, PTL DEF Spec

-----------------------------------------------------------------------------
(* A build keeps to what it has read.                                       *)

\* A build that has read the household's files and is not over.
Building ==
  phase \in {"reparsing", "replacing", "publishing"} \/ (phase = "built" /\ command # "undo")

Informed == Building \/ phase \in {"storing", "planning"}

\* What a command has read stands: no other command appends to the log, and
\* while nobody edits or checks out, the files and the code are those it read.
KeepsInputs ==
  /\ Informed => inputs \in HouseholdInputs /\ inputs.position = Len(log)
  /\ Informed /\ quiet => inputs.config = config
  /\ phase # "idle" /\ quiet => running = code
  /\ phase \notin {"idle", "built"} => command # "undo"

\* The Silver a build publishes from: in memory, then stored.
Carried == IF phase \in {"reparsing", "replacing"} THEN derived ELSE silver

\* A build through Silver carries every run in force.
CarriesSilver ==
  /\ Building => Carried \in SilverResults
  /\ Building /\ from # "gold" =>
       /\ Carried.decisions = InForceOf(SilverKinds, Len(log))
       /\ DOMAIN Carried.records = DOMAIN bronze \ Voided(Len(log))
       /\ quiet => Carried.currency = inputs.config /\ Carried.code = code
       /\ quiet /\ from = "bronze" =>
            \A r \in DOMAIN Carried.records : Carried.records[r] = code

\* A recipe that names the inputs read and the runs carried.
Names(recipe) ==
  /\ recipe.config = inputs.config
  /\ recipe.position = Len(log)
  /\ recipe.runs = DOMAIN Carried.records

\* What will be published, or already is, names what was read and carried.
CarriesGold ==
  /\ phase \in {"reparsing", "replacing", "publishing"} /\ plan # None =>
       /\ Names(plan.recipe)
       /\ plan.result.silver = Carried
       /\ plan.result.config = inputs.config
       /\ plan.result.decisions = InForceOf(GoldKinds, Len(log))
       /\ quiet => plan.result.code = plan.recipe.code /\ plan.recipe.code = code
  /\ \/ phase \in {"reparsing", "replacing", "publishing"} /\ plan = None
     \/ phase = "built" /\ command # "undo"
     =>
       gold.current # None /\ Names(gold.current.recipe)

Carries == KeepsInputs /\ CarriesSilver /\ CarriesGold

\* Which decisions are in force is a question of the log alone.
LEMMA SameLogSameForce ==
  ASSUME log' = log
  PROVE  /\ \A K, n : InForceOf(K, n)' = InForceOf(K, n)
         /\ \A n : Voided(n)' = Voided(n)
<1>1. \A n : InForce(n)' = InForce(n)
  BY DEF InForce
<1>2. \A K, n : InForceOf(K, n)' = InForceOf(K, n)
  BY <1>1 DEF InForceOf
<1>3. \A n : Voided(n)' = Voided(n)
  BY <1>2 DEF Voided
<1> QED
  BY <1>2, <1>3

LEMMA KeepsStep == Typed /\ KeepsInputs /\ [Next]_vars => KeepsInputs'
<1> SUFFICES ASSUME Typed, KeepsInputs, [Next]_vars PROVE KeepsInputs'
  OBVIOUS
<1> USE DEF KeepsInputs, Informed, Building
<1>1. CASE Import \/ Undo \/ \E stage \in Stages : Rebuild(stage)
  BY <1>1 DEF Import, Undo, Rebuild, Begin
<1>2. ASSUME NEW e \in Entries, Decide(e) PROVE KeepsInputs'
  BY <1>2 DEF Decide, Begin
<1>3. CASE ReadInputs
  BY <1>3 DEF ReadInputs, HouseholdInputs, Typed, TypeOK
<1>4. ASSUME NEW r \in Runs, StoreRun(r) PROVE KeepsInputs'
  BY <1>4 DEF StoreRun
<1>5. CASE StoringDone \/ PlanThrough \/ PlanFromStored \/ ReplaceRecords \/ ReplaceSilver \/ Publish
  BY <1>5 DEF StoringDone, PlanThrough, PlanFromStored, ReplaceRecords, ReplaceSilver, Publish
<1>6. CASE NothingToBuild \/ Decline \/ SilverNotBuilt \/ StopWithoutSet \/ Finish
           \/ BackUp \/ BackUpFails \/ Crash
  BY <1>6 DEF NothingToBuild, Decline, SilverNotBuilt, StopWithoutSet, EndWithoutSet, Finish, BackUp, BackUpFails, Crash, Stop
<1>7. CASE Refuse
  BY <1>7 DEF Refuse, Stop
<1>8. CASE BackUpNow
  BY <1>8 DEF BackUpNow
<1>9. ASSUME NEW c \in Configs, EditInputs(c) PROVE KeepsInputs'
  BY <1>9 DEF EditInputs
<1>10. ASSUME NEW k \in Codes, CheckOut(k) PROVE KeepsInputs'
  BY <1>10 DEF CheckOut
<1>11. CASE UNCHANGED vars
  BY <1>11 DEF vars
<1> QED
  BY <1>1, <1>2, <1>3, <1>4, <1>5, <1>6, <1>7, <1>8, <1>9, <1>10, <1>11 DEF Next, Step

\* A command that is not building carries nothing.
LEMMA NothingCarried ==
  ASSUME ~Building'
  PROVE  CarriesSilver' /\ CarriesGold'
BY DEF Building, CarriesSilver, CarriesGold

\* What is carried stays what it was while stores and log are left alone.
LEMMA StillCarried ==
  ASSUME Carries,
         UNCHANGED <<bronze, log, silver, gold, command, from, phase, inputs, derived, plan>>,
         quiet' => quiet /\ code' = code
  PROVE  CarriesSilver' /\ CarriesGold'
<1>1. /\ InForceOf(SilverKinds, Len(log))' = InForceOf(SilverKinds, Len(log))
      /\ InForceOf(GoldKinds, Len(log))' = InForceOf(GoldKinds, Len(log))
      /\ Voided(Len(log))' = Voided(Len(log))
  BY SameLogSameForce
<1>2. Carried' = Carried
  BY DEF Carried
<1>3. CarriesSilver'
  BY <1>1, <1>2 DEF Carries, CarriesSilver, Building
<1>4. CarriesGold'
  BY <1>1, <1>2 DEF Carries, CarriesGold, Names
<1> QED
  BY <1>3, <1>4

\* What is planned names what was read and the Silver it is planned from.
LEMMA PlanNames ==
  ASSUME NEW result, NEW p, p = PlanGold(result), None \notin Publications,
         result \in SilverResults, inputs \in HouseholdInputs, code \in Codes, running \in Codes,
         inputs.position = Len(log), quiet => running = code
  PROVE  /\ p # None =>
              /\ p.recipe.config = inputs.config
              /\ p.recipe.position = Len(log)
              /\ p.recipe.runs = DOMAIN result.records
              /\ p.result.silver = result
              /\ p.result.config = inputs.config
              /\ p.result.decisions = InForceOf(GoldKinds, Len(log))
              /\ quiet => p.result.code = p.recipe.code /\ p.recipe.code = code
         /\ p = None =>
              /\ gold.current # None
              /\ gold.current.recipe.config = inputs.config
              /\ gold.current.recipe.position = Len(log)
              /\ gold.current.recipe.runs = DOMAIN result.records
<1>1. CASE gold.current # None /\ gold.current.recipe = Recipe(result)
  BY <1>1 DEF PlanGold, Recipe
<1>2. CASE ~(gold.current # None /\ gold.current.recipe = Recipe(result))
  <2>1. p = Publication(result)
    BY <1>2 DEF PlanGold
  <2>2. p # None
    <3>1. InForceOf(GoldKinds, inputs.position) \in SUBSET (1 .. MaxDecisions)
      BY InForceArePositions DEF HouseholdInputs
    <3>2. DOMAIN result.records \in SUBSET Runs
      BY DEF SilverResults, Records
    <3>3. p \in Publications
      BY <2>1, <3>1, <3>2
      DEF Publication, Recipe, Publications, Recipes, GoldResults, HouseholdInputs
    <3> QED
      BY <3>3
  <2> QED
    BY <2>1, <2>2 DEF Publication, Recipe
<1> QED
  BY <1>1, <1>2

LEMMA CarriesInit == Init => Carries
BY DEF Init, Carries, KeepsInputs, CarriesSilver, CarriesGold, Informed, Building

LEMMA PlanThroughCarries ==
  ASSUME Typed, Carries, PlanThrough
  PROVE  CarriesSilver' /\ CarriesGold'
<1> DEFINE records == IF from = "bronze" THEN Reparsed ELSE bronze
           result == DeriveSilver(records)
<1>1. /\ phase' \in {"reparsing", "replacing"} /\ derived' = result /\ plan' = PlanGold(result)
      /\ UNCHANGED <<bronze, log, silver, gold, config, code, command, from, running, inputs, quiet>>
  BY DEF PlanThrough
<1>2. /\ running \in Codes /\ code \in Codes /\ config \in Configs
      /\ inputs \in HouseholdInputs /\ inputs.position = Len(log)
      /\ quiet => running = code /\ inputs.config = config
  BY DEF PlanThrough, Typed, TypeOK, Remembers, Carries, KeepsInputs, Informed
<1>3. records \in Records /\ DOMAIN records = DOMAIN bronze
  BY <1>2, SameRunsReparsed DEF Reparsed, Typed, TypeOK
<1>4. result \in SilverResults
  <2> HIDE DEF records
  <2> QED
    BY <1>2, <1>3, DerivedIsSilver
<1>5. /\ InForceOf(SilverKinds, Len(log))' = InForceOf(SilverKinds, Len(log))
      /\ InForceOf(GoldKinds, Len(log))' = InForceOf(GoldKinds, Len(log))
      /\ Voided(Len(log))' = Voided(Len(log))
  BY <1>1, SameLogSameForce
<1>6. Carried' = result
  BY <1>1 DEF Carried
<1>7. CarriesSilver'
  <2>1. /\ result.decisions = InForceOf(SilverKinds, Len(log))
        /\ DOMAIN result.records = DOMAIN bronze \ Voided(Len(log))
        /\ result.currency = config
        /\ result.code = running
    BY <1>2, <1>3 DEF DeriveSilver, Unvoided
  <2>2. from = "bronze" => \A r \in DOMAIN result.records : result.records[r] = running
    BY <1>3 DEF DeriveSilver, Unvoided, Reparsed
  <2> HIDE DEF result
  <2> QED
    BY <1>1, <1>2, <1>4, <1>5, <1>6, <2>1, <2>2 DEF CarriesSilver
<1>8. CarriesGold'
  <2> HIDE DEF result
  <2>1. None \notin Publications
    BY NoneAssumption
  <2>2. /\ plan' # None =>
             /\ plan'.recipe.config = inputs.config
             /\ plan'.recipe.position = Len(log)
             /\ plan'.recipe.runs = DOMAIN result.records
             /\ plan'.result.silver = result
             /\ plan'.result.config = inputs.config
             /\ plan'.result.decisions = InForceOf(GoldKinds, Len(log))
             /\ quiet => plan'.result.code = plan'.recipe.code /\ plan'.recipe.code = code
        /\ plan' = None =>
             /\ gold.current # None
             /\ gold.current.recipe.config = inputs.config
             /\ gold.current.recipe.position = Len(log)
             /\ gold.current.recipe.runs = DOMAIN result.records
    BY <1>1, <1>2, <1>4, <2>1, PlanNames
  <2> QED
    BY <1>1, <1>5, <1>6, <2>2 DEF CarriesGold, Names
<1> QED
  BY <1>7, <1>8

LEMMA PlanFromStoredCarries ==
  ASSUME Typed, Carries, PlanFromStored
  PROVE  CarriesSilver' /\ CarriesGold'
<1>1. /\ phase' = "publishing" /\ from = "gold" /\ plan' = PlanGold(silver) /\ silver \in SilverResults
      /\ UNCHANGED <<bronze, log, silver, gold, config, code, command, from, running, inputs, quiet>>
  BY DEF PlanFromStored, Typed, TypeOK
<1>2. /\ running \in Codes /\ code \in Codes
      /\ inputs \in HouseholdInputs /\ inputs.position = Len(log)
      /\ quiet => running = code
  BY DEF PlanFromStored, Typed, TypeOK, Remembers, Carries, KeepsInputs, Informed
<1>3. InForceOf(GoldKinds, Len(log))' = InForceOf(GoldKinds, Len(log))
  BY <1>1, SameLogSameForce
<1>4. Carried' = silver
  BY <1>1 DEF Carried
<1>5. CarriesSilver'
  BY <1>1, <1>4 DEF CarriesSilver
<1>6. CarriesGold'
  <2>1. None \notin Publications
    BY NoneAssumption
  <2>2. /\ plan' # None =>
             /\ plan'.recipe.config = inputs.config
             /\ plan'.recipe.position = Len(log)
             /\ plan'.recipe.runs = DOMAIN silver.records
             /\ plan'.result.silver = silver
             /\ plan'.result.config = inputs.config
             /\ plan'.result.decisions = InForceOf(GoldKinds, Len(log))
             /\ quiet => plan'.result.code = plan'.recipe.code /\ plan'.recipe.code = code
        /\ plan' = None =>
             /\ gold.current # None
             /\ gold.current.recipe.config = inputs.config
             /\ gold.current.recipe.position = Len(log)
             /\ gold.current.recipe.runs = DOMAIN silver.records
    BY <1>1, <1>2, <2>1, PlanNames
  <2> QED
    BY <1>1, <1>3, <1>4, <2>2 DEF CarriesGold, Names
<1> QED
  BY <1>5, <1>6

\* Replacing the records, or storing the derived Silver, changes neither it
\* nor which runs Bronze holds.
LEMMA ReplaceCarries ==
  ASSUME Typed, Carries, ReplaceRecords \/ ReplaceSilver
  PROVE  CarriesSilver' /\ CarriesGold'
<1>1. /\ phase \in {"reparsing", "replacing"}
      /\ \/ phase' = "replacing" /\ derived' = derived
         \/ phase' = "publishing" /\ silver' = derived
      /\ UNCHANGED <<log, gold, code, command, from, inputs, plan, quiet>>
      /\ DOMAIN bronze' = DOMAIN bronze
  BY DEF ReplaceRecords, ReplaceSilver, Reparsed
<1>2. Carried = derived /\ Carried' = derived
  BY <1>1 DEF Carried
<1>3. /\ InForceOf(SilverKinds, Len(log))' = InForceOf(SilverKinds, Len(log))
      /\ InForceOf(GoldKinds, Len(log))' = InForceOf(GoldKinds, Len(log))
      /\ Voided(Len(log))' = Voided(Len(log))
  BY <1>1, SameLogSameForce
<1>4. CarriesSilver'
  BY <1>1, <1>2, <1>3 DEF Carries, CarriesSilver, Building
<1>5. CarriesGold'
  BY <1>1, <1>2, <1>3 DEF Carries, CarriesGold, Names
<1> QED
  BY <1>4, <1>5

LEMMA PublishCarries ==
  ASSUME Typed, Carries, Publish
  PROVE  CarriesSilver' /\ CarriesGold'
<1>1. /\ phase = "publishing" /\ phase' = "built"
      /\ gold' = IF plan = None THEN gold ELSE [current |-> plan, previous |-> gold.current]
      /\ UNCHANGED <<bronze, log, silver, code, command, from, inputs, plan, quiet>>
  BY DEF Publish
<1>2. Carried = silver /\ Carried' = silver
  BY <1>1 DEF Carried
<1>3. /\ InForceOf(SilverKinds, Len(log))' = InForceOf(SilverKinds, Len(log))
      /\ Voided(Len(log))' = Voided(Len(log))
  BY <1>1, SameLogSameForce
<1>4. CarriesSilver'
  BY <1>1, <1>2, <1>3 DEF Carries, CarriesSilver, Building
<1>5. CarriesGold'
  <2>1. CASE plan = None
    BY <1>1, <1>2, <2>1 DEF Carries, CarriesGold, Names
  <2>2. CASE plan # None
    BY <1>1, <1>2, <2>2 DEF Carries, CarriesGold, Names
  <2> QED
    BY <2>1, <2>2
<1> QED
  BY <1>4, <1>5

LEMMA CarriesStep == Typed /\ Carries /\ [Next]_vars => Carries'
<1> SUFFICES ASSUME Typed, Carries, [Next]_vars PROVE CarriesSilver' /\ CarriesGold'
  BY KeepsStep DEF Carries
<1>1. CASE Import \/ Undo \/ \E stage \in Stages : Rebuild(stage)
  BY <1>1, NothingCarried DEF Import, Undo, Rebuild, Begin, Building
<1>2. ASSUME NEW e \in Entries, Decide(e) PROVE CarriesSilver' /\ CarriesGold'
  BY <1>2, NothingCarried DEF Decide, Begin, Building
<1>3. CASE ReadInputs \/ StoringDone
  BY <1>3, NothingCarried DEF ReadInputs, StoringDone, Building
<1>4. ASSUME NEW r \in Runs, StoreRun(r) PROVE CarriesSilver' /\ CarriesGold'
  BY <1>4, NothingCarried DEF StoreRun, Building
<1>5. CASE NothingToBuild \/ Decline \/ SilverNotBuilt \/ StopWithoutSet \/ Finish
           \/ BackUp \/ BackUpFails \/ Crash
  BY <1>5, NothingCarried
  DEF NothingToBuild, Decline, SilverNotBuilt, StopWithoutSet, EndWithoutSet, Finish, BackUp, BackUpFails, Crash, Stop, Building
<1>6. CASE Refuse
  BY <1>6, NothingCarried DEF Refuse, Stop, Building
<1>7. CASE PlanThrough
  BY <1>7, PlanThroughCarries
<1>8. CASE PlanFromStored
  BY <1>8, PlanFromStoredCarries
<1>9. CASE ReplaceRecords \/ ReplaceSilver
  BY <1>9, ReplaceCarries
<1>10. CASE Publish
  BY <1>10, PublishCarries
<1>11. CASE BackUpNow
  BY <1>11, StillCarried DEF BackUpNow
<1>12. ASSUME NEW c \in Configs, EditInputs(c) PROVE CarriesSilver' /\ CarriesGold'
  <2>1. CASE phase = "idle"
    BY <1>12, <2>1, NothingCarried DEF EditInputs, Building
  <2>2. CASE phase # "idle"
    BY <1>12, <2>2, StillCarried DEF EditInputs
  <2> QED
    BY <2>1, <2>2
<1>13. ASSUME NEW k \in Codes, CheckOut(k) PROVE CarriesSilver' /\ CarriesGold'
  <2>1. CASE phase = "idle"
    BY <1>13, <2>1, NothingCarried DEF CheckOut, Building
  <2>2. CASE phase # "idle"
    BY <1>13, <2>2, StillCarried DEF CheckOut
  <2> QED
    BY <2>1, <2>2
<1>14. CASE UNCHANGED vars
  BY <1>14, StillCarried DEF vars
<1> QED
  BY <1>1, <1>2, <1>3, <1>4, <1>5, <1>6, <1>7, <1>8, <1>9, <1>10, <1>11, <1>12,
     <1>13, <1>14 DEF Next, Step

LEMMA CarriedThroughout == Spec => [](Typed /\ Carries)
<1>1. Init => Typed /\ Carries
  BY TypedInit, CarriesInit
<1>2. Typed /\ Carries /\ [Next]_vars => (Typed /\ Carries)'
  BY TypedStep, CarriesStep
<1> QED
  BY <1>1, <1>2, PTL DEF Spec

\* A build that ends leaves the current publication with the recipe of what
\* it read and of the Silver stored, and, through Silver, every run in force.
THEOREM BuildsEndCurrent == Spec => []EndsCurrent
<1>1. Typed /\ Carries => EndsCurrent
  BY DEF Carries, KeepsInputs, CarriesSilver, CarriesGold, Names, Carried, Building,
         Informed, EndsCurrent
<1> QED
  BY <1>1, CarriedThroughout, PTL

\* Only Publish changes gold.db while a build is publishing, and to its plan.
LEMMA WhatIsPublished ==
  ASSUME [Next]_vars, Publishes
  PROVE  phase = "publishing" /\ plan # None /\ gold'.current = plan
<1>1. Publish
  BY DEF Publishes, Next, Step, Import, Rebuild, Decide, Undo, Begin, StoreRun, ReadInputs,
         NothingToBuild, StoringDone, Decline, PlanThrough, PlanFromStored, SilverNotBuilt,
         Refuse, StopWithoutSet, EndWithoutSet, Stop, ReplaceRecords, ReplaceSilver, Finish, BackUp, BackUpFails, BackUpNow, Crash, EditInputs,
         CheckOut, vars
<1> QED
  BY <1>1 DEF Publish, Publishes

\* A publication is built from the Silver that is stored.
THEOREM GoldFromStoredSilver == Spec => PublishedFromStored
<1>1. Typed /\ Carries /\ [Next]_vars => [Publishes => gold'.current.result.silver = silver]_vars
  BY WhatIsPublished DEF Carries, CarriesGold, Carried
<1> QED
  BY <1>1, CarriedThroughout, PTL DEF Spec, PublishedFromStored

\* A build keeps to what it has read, whoever edits or checks out meanwhile;
\* and when nobody does, its publication is what its recipe names.
THEOREM BuildsKeepToTheirInputs == Spec => QuietBuildsAreAsNamed
<1> DEFINE Kept ==
      /\ GoldAsNamed(gold'.current)
      /\ quiet => gold'.current.result.code = gold'.current.recipe.code
      /\ quiet /\ from # "gold" => SilverAsNamed(gold'.current)
      /\ quiet /\ from = "bronze" => RecordsAsNamed(gold'.current)
<1>1. ASSUME Typed, Carries, [Next]_vars, Publishes PROVE Kept
  <2>1. phase = "publishing" /\ plan # None /\ gold'.current = plan
    BY <1>1, WhatIsPublished
  <2>2. Carried = silver /\ Building
    BY <2>1 DEF Carried, Building
  <2>3. /\ Names(plan.recipe)
        /\ plan.result.silver = silver
        /\ plan.result.config = inputs.config
        /\ plan.result.decisions = InForceOf(GoldKinds, Len(log))
        /\ quiet => plan.result.code = plan.recipe.code /\ plan.recipe.code = code
    BY <1>1, <2>1, <2>2 DEF Carries, CarriesGold
  <2>4. GoldAsNamed(plan)
    BY <2>2, <2>3 DEF GoldAsNamed, Names
  <2>5. quiet /\ from # "gold" => SilverAsNamed(plan)
    BY <1>1, <2>2, <2>3 DEF SilverAsNamed, Names, Carries, CarriesSilver
  <2>6. quiet /\ from = "bronze" => RecordsAsNamed(plan)
    BY <1>1, <2>2, <2>3 DEF RecordsAsNamed, Names, Carries, CarriesSilver
  <2> QED
    BY <2>1, <2>3, <2>4, <2>5, <2>6
<1>2. Typed /\ Carries /\ [Next]_vars => [Publishes => Kept]_vars
  BY <1>1
<1> QED
  BY <1>2, CarriedThroughout, PTL DEF Spec, QuietBuildsAreAsNamed
=============================================================================
