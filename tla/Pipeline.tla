------------------------------ MODULE Pipeline ------------------------------
(***************************************************************************)
(* The commands that carry Bronze through Silver to Gold: `import`,         *)
(* `rebuild --from bronze|silver|gold`, `decide` and `undo`                 *)
(* (src/budget/cli.py, inbox.py, rebuilding.py, deciding.py), with the set  *)
(* each one writes last.                                                    *)
(*                                                                         *)
(* One command runs at a time, under the writer lock.  No lock stops the    *)
(* household from editing an input, or somebody from checking out other     *)
(* code, while a command runs; and the command may be cut off anywhere.     *)
(*                                                                         *)
(* What a build computes is left open: a result is the record of everything *)
(* it was computed from, so two results are equal when nothing they read    *)
(* differs.  Whether a publication is what its recipe names is then a       *)
(* question this module can ask.                                            *)
(*                                                                         *)
(* How one export is stored, the rules of the decision log beyond which     *)
(* decisions are in force, the inside of gold.db and the inside of a        *)
(* backup set are other modules' matters.                                   *)
(***************************************************************************)
EXTENDS Naturals, Sequences

CONSTANTS
  Runs,          \* import runs that may be stored, one per payload
  Codes,         \* commits of the application
  Configs,       \* contents of accounts.toml, taxonomy.toml and rules.toml
  None,
  MaxDecisions,  \* bound on the length of the decision log
  MaxFailures,   \* bound on commands declined, refused, stopped or cut off and sets not written
  MaxEdits       \* bound on edits of the inputs and on checkouts

ASSUME BoundsAssumption ==
  /\ MaxDecisions \in Nat
  /\ MaxFailures \in Nat
  /\ MaxEdits \in Nat

VARIABLES
  bronze,    \* the stored runs, each with the code that parsed its records
  log,       \* the decision log: a sequence of entries
  silver,    \* what silver.db was derived from, or None while never built
  gold,      \* the current and the previous publication of gold.db
  covered,   \* whether the newest backup set holds the stores and the log as they are
  config,    \* the household's inputs as they stand
  code,      \* the commit that is checked out
  command,   \* the command under way
  from,      \* the stage it rebuilds from, or None
  phase,     \* how far it is
  running,   \* the code it was started with, or None
  inputs,    \* the configuration and the log position it has read, or None
  derived,   \* the Silver it has derived in memory, or None
  plan,      \* the publication it will make, or None
  wrote,     \* whether it has written something a set must cover
  quiet,     \* whether nobody has edited or checked out while it runs
  exposed,   \* what ended since the last set having written, without one of its own
  spent      \* how much of each bound is used

vars == <<bronze, log, silver, gold, covered, config, code, command, from, phase,
          running, inputs, derived, plan, wrote, quiet, exposed, spent>>

-----------------------------------------------------------------------------
(* Decisions.                                                               *)

\* The kinds Silver applies; "void" stands for those that target an import
\* run, "withdrawn" for those that target a transaction.
SilverKinds == {"void", "withdrawn"}

\* "classify" stands for the kinds Gold applies.
GoldKinds == {"classify"}

Entries ==
  [kind : SilverKinds \cup GoldKinds, target : Runs, supersedes : {{}}] \cup
  [kind : {"retract"}, target : {None},
   supersedes : SUBSET (1 .. MaxDecisions) \ {{}}]

\* The positions of the decisions in force after the first n entries.
InForce(n) ==
  {i \in 1 .. n :
     /\ log[i].kind # "retract"
     /\ \A j \in 1 .. n : i \notin log[j].supersedes}

InForceOf(kinds, n) == {i \in InForce(n) : log[i].kind \in kinds}

Voided(n) == {log[i].target : i \in InForceOf({"void"}, n)}

\* What the boundary asks of an entry: a transaction exists in the stored
\* Silver, a run in Bronze, and nothing in force holds the target.
Admissible(e) ==
  \/ /\ e.kind = "retract"
     /\ e.supersedes \subseteq InForce(Len(log))
  \/ /\ e.kind # "retract"
     /\ \A i \in InForce(Len(log)) : <<log[i].kind, log[i].target>> # <<e.kind, e.target>>
     /\ IF e.kind = "void"
        THEN e.target \in DOMAIN bronze
        ELSE silver # None /\ e.target \in DOMAIN silver.records

-----------------------------------------------------------------------------
(* What is derived from what.                                               *)

Position == 0 .. MaxDecisions

HouseholdInputs == [config : Configs, position : Position]

\* Source records, by the run that brought them and the code that parsed them.
Records == UNION {[rs -> Codes] : rs \in SUBSET Runs}

SilverResults ==
  [records : Records, decisions : SUBSET (1 .. MaxDecisions),
   currency : Configs, code : Codes]

Unvoided(records) == [r \in DOMAIN records \ Voided(inputs.position) |-> records[r]]

\* Each account's currency is read from accounts.toml as it stands now, not
\* from the inputs already read.
DeriveSilver(records) ==
  [records |-> Unvoided(records),
   decisions |-> InForceOf(SilverKinds, inputs.position),
   currency |-> config,
   code |-> running]

\* Source records as a rebuild from Bronze parses them again.
Reparsed == [r \in DOMAIN bronze |-> running]

Recipes == [runs : SUBSET Runs, config : Configs, position : Position, code : Codes]

\* The runs come from Silver, the commit from the checkout as it stands now.
Recipe(result) ==
  [runs |-> DOMAIN result.records, config |-> inputs.config,
   position |-> inputs.position, code |-> code]

GoldResults ==
  [silver : SilverResults, config : Configs,
   decisions : SUBSET (1 .. MaxDecisions), code : Codes]

Stages == {"bronze", "silver", "gold"}

Publications == [recipe : Recipes, result : GoldResults]

ASSUME NoneAssumption ==
  /\ None \notin Codes \cup Runs
  /\ None \notin HouseholdInputs
  /\ None \notin SilverResults
  /\ None \notin Publications

\* Mutant: the configuration is read again where the result is built.
PublicationOfConfigNow(result) ==
  [recipe |-> Recipe(result),
   result |-> [silver |-> result, config |-> config,
               decisions |-> InForceOf(GoldKinds, inputs.position),
               code |-> running]]

Publication(result) ==
  [recipe |-> Recipe(result),
   result |-> [silver |-> result, config |-> inputs.config,
               decisions |-> InForceOf(GoldKinds, inputs.position),
               code |-> running]]

\* Mutant: a recipe is compared without the decision log's position.
PlanGoldWithoutPosition(result) ==
  IF gold.current # None
     /\ gold.current.recipe = [Recipe(result) EXCEPT !.position = gold.current.recipe.position]
  THEN None
  ELSE Publication(result)

\* A recipe equal to the current publication's builds and publishes nothing.
PlanGold(result) ==
  IF gold.current # None /\ gold.current.recipe = Recipe(result)
  THEN None
  ELSE Publication(result)

OnDisk == <<bronze, log, silver, gold>>

\* A set is a copy: it no longer holds what is there once anything changes.
Outdate == covered' = (covered /\ OnDisk' = OnDisk)

-----------------------------------------------------------------------------
Commands == {"none", "import", "rebuild", "decide", "undo"}

Phases == {"idle", "reading", "storing", "planning", "reparsing", "replacing",
           "publishing", "built", "held back"}

\* Nothing; only commands an error ended; or one that was cut off, or whose
\* set could not be written.
Exposures == {"no", "error", "cut off"}

Spendable == {"failure", "edit"}

Bound(b) == IF b = "failure" THEN MaxFailures ELSE MaxEdits

Spend(b) ==
  /\ spent[b] < Bound(b)
  /\ spent' = [spent EXCEPT ![b] = @ + 1]

\* The stores as `migrate` starts them, and the set it writes.
Init ==
  /\ bronze = [r \in {} |-> None]
  /\ log = <<>>
  /\ silver = None
  /\ gold = [current |-> None, previous |-> None]
  /\ covered = TRUE
  /\ config \in Configs
  /\ code \in Codes
  /\ command = "none" /\ from = None /\ phase = "idle" /\ running = None
  /\ inputs = None /\ derived = None /\ plan = None
  /\ wrote = FALSE /\ quiet = TRUE /\ exposed = "no"
  /\ spent = [b \in Spendable |-> 0]

Begin(c, stage, p) ==
  /\ phase = "idle"
  /\ command' = c /\ from' = stage /\ phase' = p
  /\ running' = code /\ quiet' = TRUE
  /\ inputs' = None /\ derived' = None /\ plan' = None

Stop ==
  /\ command' = "none" /\ from' = None /\ phase' = "idle" /\ running' = None
  /\ inputs' = None /\ derived' = None /\ plan' = None
  /\ wrote' = FALSE /\ quiet' = TRUE

Import ==
  /\ Begin("import", "silver", "reading")
  /\ wrote' = FALSE
  /\ UNCHANGED <<bronze, log, silver, gold, covered, config, code, exposed, spent>>

Rebuild(stage) ==
  /\ Begin("rebuild", stage, "reading")
  /\ wrote' = FALSE
  /\ UNCHANGED <<bronze, log, silver, gold, covered, config, code, exposed, spent>>

\* The entry is appended first.  What follows rebuilds from Silver for the
\* kinds Silver applies, and from Gold for every other.
Decide(e) ==
  /\ Len(log) < MaxDecisions
  /\ Admissible(e)
  /\ Begin("decide", IF e.kind \in SilverKinds THEN "silver" ELSE "gold", "reading")
  /\ log' = Append(log, e)
  /\ wrote' = TRUE
  /\ UNCHANGED <<bronze, silver, gold, config, code, exposed, spent>>
  /\ Outdate

Undo ==
  /\ gold.previous # None
  /\ Begin("undo", None, "built")
  /\ gold' = [current |-> gold.previous, previous |-> gold.current]
  /\ wrote' = TRUE
  /\ UNCHANGED <<bronze, log, silver, config, code, exposed, spent>>
  /\ Outdate

\* The household's files are read once; an import then asks its questions.
ReadInputs ==
  /\ phase = "reading"
  /\ inputs' = [config |-> config, position |-> Len(log)]
  /\ phase' = IF command = "import" THEN "storing" ELSE "planning"
  /\ UNCHANGED <<bronze, log, silver, gold, covered, config, code, command, from,
                 running, derived, plan, wrote, quiet, exposed, spent>>

\* Mutant: a run is stored before its records are parsed.
StoreRunUnparsed(r) ==
  /\ phase = "storing"
  /\ r \notin DOMAIN bronze
  /\ bronze' = [s \in DOMAIN bronze \cup {r} |-> IF s = r THEN None ELSE bronze[s]]
  /\ wrote' = TRUE
  /\ UNCHANGED <<log, silver, gold, config, code, command, from, phase,
                 running, inputs, derived, plan, quiet, exposed, spent>>
  /\ Outdate

StoreRun(r) ==
  /\ phase = "storing"
  /\ r \notin DOMAIN bronze
  /\ bronze' = [s \in DOMAIN bronze \cup {r} |->
                  IF s = r THEN running ELSE bronze[s]]
  /\ wrote' = TRUE
  /\ UNCHANGED <<log, silver, gold, config, code, command, from, phase,
                 running, inputs, derived, plan, quiet, exposed, spent>>
  /\ Outdate

\* Mutant: an import that stored nothing ends there.
NothingNewEndsImport ==
  /\ phase = "storing"
  /\ ~wrote
  /\ Stop
  /\ UNCHANGED <<bronze, log, silver, gold, covered, config, code, exposed, spent>>

NothingToBuild ==
  /\ phase = "storing"
  /\ DOMAIN bronze = {}
  /\ Stop
  /\ UNCHANGED <<bronze, log, silver, gold, covered, config, code, exposed, spent>>

\* A question is answered no, before anything is stored: the import ends.
Decline ==
  /\ phase = "storing"
  /\ ~wrote
  /\ Spend("failure")
  /\ Stop
  /\ UNCHANGED <<bronze, log, silver, gold, covered, config, code, exposed>>

StoringDone ==
  /\ phase = "storing"
  /\ DOMAIN bronze # {}
  /\ phase' = "planning"
  /\ UNCHANGED <<bronze, log, silver, gold, covered, config, code, command, from,
                 running, inputs, derived, plan, wrote, quiet, exposed, spent>>

\* Mutant: Gold is planned from the Silver that is stored, before it is replaced.
PlanThroughStale ==
  /\ phase = "planning"
  /\ from \in {"bronze", "silver"}
  /\ LET result == DeriveSilver(IF from = "bronze" THEN Reparsed ELSE bronze) IN
       /\ derived' = result
       /\ plan' = PlanGold(IF silver = None THEN result ELSE silver)
  /\ phase' = IF from = "bronze" THEN "reparsing" ELSE "replacing"
  /\ UNCHANGED <<bronze, log, silver, gold, covered, config, code, command, from,
                 running, inputs, wrote, quiet, exposed, spent>>

\* Every stage is derived in memory before anything is stored.
PlanThrough ==
  /\ phase = "planning"
  /\ from \in {"bronze", "silver"}
  /\ LET result == DeriveSilver(IF from = "bronze" THEN Reparsed ELSE bronze) IN
       /\ derived' = result
       /\ plan' = PlanGold(result)
  /\ phase' = IF from = "bronze" THEN "reparsing" ELSE "replacing"
  /\ UNCHANGED <<bronze, log, silver, gold, covered, config, code, command, from,
                 running, inputs, wrote, quiet, exposed, spent>>

\* A build from Gold takes Silver as it stands.
PlanFromStored ==
  /\ phase = "planning"
  /\ from = "gold"
  /\ silver # None
  /\ plan' = PlanGold(silver)
  /\ phase' = "publishing"
  /\ UNCHANGED <<bronze, log, silver, gold, covered, config, code, command, from,
                 running, inputs, derived, wrote, quiet, exposed, spent>>

\* The command ends with an error nothing catches, and writes no set.
EndWithoutSet ==
  /\ exposed' = IF wrote /\ exposed = "no" THEN "error" ELSE exposed
  /\ Stop
  /\ UNCHANGED <<bronze, log, silver, gold, covered, config, code>>

\* SilverNotBuiltError: there is nothing to publish.
SilverNotBuilt ==
  /\ phase = "planning"
  /\ from = "gold"
  /\ silver = None
  /\ EndWithoutSet
  /\ UNCHANGED spent

\* An error that is no configuration error: at a later file, after others were
\* stored (ArchiveConflictError, a file that is gone or unreadable), or where
\* the recipe asks Git for the commit (UncommittedCodeError).
StopWithoutSet ==
  /\ phase \in {"storing", "planning"}
  /\ phase = "planning" /\ from = "gold" => silver # None
  /\ Spend("failure")
  /\ EndWithoutSet

\* Mutant: a refusal ends the command at once, whatever it has written.
RefuseWithoutSet ==
  /\ phase \in {"reading", "planning"}
  /\ phase = "planning" /\ from = "gold" => silver # None
  /\ Spend("failure")
  /\ Stop
  /\ UNCHANGED <<bronze, log, silver, gold, covered, config, code, exposed>>

\* A configuration error no check foresaw.  An import that stored a run and a
\* decision that was recorded are still backed up.
Refuse ==
  /\ phase \in {"reading", "planning"}
  /\ phase = "planning" /\ from = "gold" => silver # None
  /\ Spend("failure")
  /\ IF wrote
     THEN /\ phase' = "held back"
          /\ UNCHANGED <<command, from, running, inputs, derived, plan, wrote, quiet>>
     ELSE Stop
  /\ UNCHANGED <<bronze, log, silver, gold, covered, config, code, exposed>>

\* A rebuild from Bronze replaces its records first, in a transaction of
\* its own.
ReplaceRecords ==
  /\ phase = "reparsing"
  /\ bronze' = Reparsed
  /\ wrote' = TRUE
  /\ phase' = "replacing"
  /\ UNCHANGED <<log, silver, gold, config, code, command, from, running, inputs,
                 derived, plan, quiet, exposed, spent>>
  /\ Outdate

\* An import that stored nothing has written only if Silver changes.
ReplaceSilver ==
  /\ phase = "replacing"
  /\ silver' = derived
  /\ wrote' = (wrote \/ command # "import" \/ silver # derived)
  /\ phase' = "publishing"
  /\ UNCHANGED <<bronze, log, gold, config, code, command, from, running, inputs,
                 derived, plan, quiet, exposed, spent>>
  /\ Outdate

Publish ==
  /\ phase = "publishing"
  /\ gold' = IF plan = None
             THEN gold
             ELSE [current |-> plan, previous |-> gold.current]
  /\ wrote' = (wrote \/ plan # None)
  /\ phase' = "built"
  /\ UNCHANGED <<bronze, log, silver, config, code, command, from, running,
                 inputs, derived, plan, quiet, exposed, spent>>
  /\ Outdate

\* A command that wrote nothing ends without a set.
Finish ==
  /\ phase = "built"
  /\ ~wrote
  /\ Stop
  /\ UNCHANGED <<bronze, log, silver, gold, covered, config, code, exposed, spent>>

BackUp ==
  /\ phase \in {"built", "held back"}
  /\ wrote
  /\ covered' = TRUE
  /\ exposed' = "no"
  /\ Stop
  /\ UNCHANGED <<bronze, log, silver, gold, config, code, spent>>

BackUpFails ==
  /\ phase \in {"built", "held back"}
  /\ wrote
  /\ Spend("failure")
  /\ exposed' = "cut off"
  /\ Stop
  /\ UNCHANGED <<bronze, log, silver, gold, covered, config, code>>

\* `budget backup`.
BackUpNow ==
  /\ phase = "idle"
  /\ covered' = TRUE
  /\ exposed' = "no"
  /\ UNCHANGED <<bronze, log, silver, gold, config, code, command, from, phase,
                 running, inputs, derived, plan, wrote, quiet, spent>>

Crash ==
  /\ phase # "idle"
  /\ Spend("failure")
  /\ exposed' = IF wrote THEN "cut off" ELSE exposed
  /\ Stop
  /\ UNCHANGED <<bronze, log, silver, gold, covered, config, code>>

EditInputs(c) ==
  /\ c # config
  /\ Spend("edit")
  /\ config' = c
  /\ quiet' = (phase = "idle")
  /\ UNCHANGED <<bronze, log, silver, gold, covered, code, command, from, phase,
                 running, inputs, derived, plan, wrote, exposed>>

CheckOut(k) ==
  /\ k # code
  /\ Spend("edit")
  /\ code' = k
  /\ quiet' = (phase = "idle")
  /\ UNCHANGED <<bronze, log, silver, gold, covered, config, command, from, phase,
                 running, inputs, derived, plan, wrote, exposed>>

\* What a command under way does next.
Step ==
  \/ ReadInputs \/ NothingToBuild \/ StoringDone
  \/ PlanThrough \/ PlanFromStored \/ SilverNotBuilt
  \/ ReplaceRecords \/ ReplaceSilver \/ Publish \/ Finish \/ BackUp

Next ==
  \/ Import
  \/ \E stage \in Stages : Rebuild(stage)
  \/ \E e \in Entries : Decide(e)
  \/ Undo
  \/ \E r \in Runs : StoreRun(r)
  \/ Step
  \/ Decline \/ Refuse \/ StopWithoutSet \/ BackUpFails \/ BackUpNow \/ Crash
  \/ \E c \in Configs : EditInputs(c)
  \/ \E k \in Codes : CheckOut(k)

Spec == Init /\ [][Next]_vars

\* A command under way goes on, and the household runs `import` again and again.
FairSpec == Spec /\ WF_vars(Step) /\ SF_vars(Import)

-----------------------------------------------------------------------------
(* What the stores, the log and a command's memory hold is of its kind.     *)
TypeOK ==
  /\ bronze \in Records
  /\ log \in Seq(Entries) /\ Len(log) \in Position
  /\ silver \in SilverResults \cup {None}
  /\ gold \in [current : Publications \cup {None}, previous : Publications \cup {None}]
  /\ config \in Configs /\ code \in Codes /\ running \in Codes \cup {None}
  /\ command \in Commands /\ from \in Stages \cup {None} /\ phase \in Phases
  /\ inputs \in HouseholdInputs \cup {None}
  /\ derived \in SilverResults \cup {None}
  /\ plan \in Publications \cup {None}
  /\ {covered, wrote, quiet} \subseteq BOOLEAN /\ exposed \in Exposures
  /\ spent \in [Spendable -> Nat]

\* The parts of a result that a recipe determines, one at a time.
GoldAsNamed(p) ==
  /\ p.result.config = p.recipe.config
  /\ p.result.decisions = InForceOf(GoldKinds, p.recipe.position)
  /\ DOMAIN p.result.silver.records = p.recipe.runs

SilverAsNamed(p) ==
  /\ p.result.silver.decisions = InForceOf(SilverKinds, p.recipe.position)
  /\ p.result.silver.currency = p.recipe.config
  /\ p.result.silver.code = p.recipe.code

RecordsAsNamed(p) ==
  \A r \in p.recipe.runs : p.result.silver.records[r] = p.recipe.code

AsNamed(p) ==
  /\ GoldAsNamed(p)
  /\ p.result.code = p.recipe.code
  /\ SilverAsNamed(p)
  /\ RecordsAsNamed(p)

(* Every publication is what its recipe names: "A build reads only what its *)
(* recipe names" (docs/architecture/publications.md, invariant 4).  The     *)
(* code breaks it: see the README.                                          *)
BuiltFromItsRecipe ==
  \A p \in {gold.current, gold.previous} \ {None} : AsNamed(p)

(* What of that the code does keep.  The runs, the classification decisions *)
(* and the configuration of a build are those its recipe names, whatever    *)
(* happened meanwhile; and when nobody edited or checked out while it was   *)
(* built, so are the code, Silver when Silver was rebuilt with it, and the  *)
(* records when they were parsed again.  A command reads the household's    *)
(* files once and derives every stage from that (src/budget/rebuilding.py,  *)
(* HouseholdInputs).                                                        *)
Publishes == phase = "publishing" /\ gold' # gold

QuietBuildsAreAsNamed ==
  [][Publishes =>
       /\ GoldAsNamed(gold'.current)
       /\ quiet => gold'.current.result.code = gold'.current.recipe.code
       /\ quiet /\ from # "gold" => SilverAsNamed(gold'.current)
       /\ quiet /\ from = "bronze" => RecordsAsNamed(gold'.current)]_vars

(* Gold is published from the Silver that is stored: never ahead of it,     *)
(* whatever is cut off between the two (src/budget/rebuilding.py,           *)
(* rebuild_through_gold).                                                   *)
PublishedFromStored ==
  [][Publishes => gold'.current.result.silver = silver]_vars

(* Between commands the newest set holds the stores and the decision log as *)
(* they are, unless a command that had written since was cut off, could not *)
(* write its set, or ended with an error other than a configuration error:  *)
(* "every production write is followed by a set" (src/budget/cli.py,        *)
(* _rebuild) does not hold of those.  A refusal by the configuration is no  *)
(* exception: what was stored or recorded before it is backed up            *)
(* (src/budget/inbox.py, import_inbox; src/budget/cli.py, _decide).         *)
EveryWriteIsBackedUp == phase = "idle" /\ exposed = "no" => covered

(* A build that ends leaves the current publication with the recipe of the  *)
(* household's files as it read them, and of the Silver now stored; and a   *)
(* build through Silver leaves Silver with every run in force.  One that    *)
(* found the current publication to have its recipe is no exception         *)
(* (src/budget/rebuilding.py, _plan_gold).                                  *)
EndsCurrent ==
  phase = "built" /\ command # "undo" =>
    /\ gold.current # None
    /\ gold.current.recipe.config = inputs.config
    /\ gold.current.recipe.position = Len(log)
    /\ gold.current.recipe.runs = DOMAIN silver.records
    /\ from # "gold" => DOMAIN silver.records = DOMAIN bronze \ Voided(Len(log))

(* A run Bronze stores is in the current publication in the end, or is      *)
(* voided, though commands are refused and cut off: `import`, run again,    *)
(* finishes what an earlier one left (src/budget/cli.py, _import).          *)
EveryRunIsPublished ==
  \A r \in Runs :
    r \in DOMAIN bronze ~>
      \/ gold.current # None /\ r \in gold.current.recipe.runs
      \/ r \in Voided(Len(log))
=============================================================================
