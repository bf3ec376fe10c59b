------------------------------ MODULE GoldStore ------------------------------
(***************************************************************************)
(* One profile's gold.db: its publications, the results it retains, the     *)
(* history of the current pointer and the recovery boundaries               *)
(* (budget/gold/store.py), as builds are planned and published              *)
(* (budget/rebuilding.py), undone (budget/cli.py), backed up, lost and      *)
(* restored with a catch-up build (budget/restoring.py), while a dashboard  *)
(* page stays pinned to the publication it opened (budget/dashboard,        *)
(* budget/analytics/household.py).                                          *)
(*                                                                         *)
(* Every writing command holds the profile's writer lock, so one of them is *)
(* under way at most; the page reads without a lock.  A step is one         *)
(* transaction of gold.db, and a command may stop between any two.          *)
(***************************************************************************)
EXTENDS Integers, Sequences, FiniteSetsExt, SequencesExt

CONSTANTS
  Ids,          \* publication ids
  Recipes,      \* what a build may be made from: runs, inputs and code
  None,         \* no publication, no plan, no page
  IdStep,       \* _RECOVERY_ID_STEP: 1,000,000 in the code
  MaxBuilds,    \* bound on publications
  MaxMoves,     \* bound on moves of the pointer in one store
  MaxFailures,  \* bound on commands stopped half way and on failed cleanups
  MaxSets,      \* bound on backup sets
  MaxRestores   \* bound on times a set's stores are put in place

ASSUME IdsAssumption == Ids \subseteq Nat \ {0} /\ IsFiniteSet(Ids)
ASSUME BoundsAssumption ==
  /\ {IdStep, MaxBuilds, MaxMoves, MaxFailures, MaxSets, MaxRestores} \subseteq Nat
  /\ MaxBuilds < IdStep  \* no household publishes a million times

VARIABLES
  store,     \* gold.db
  sets,      \* the copies of gold.db in complete backup sets
  phase,     \* where the writing command is
  plan,      \* the build it is about to publish, or None
  recovery,  \* where a restore is
  inputs,    \* the recipe a build made now would have
  page,      \* the publication a dashboard page is pinned to, or None
  spent      \* how much of each bound is used

vars == <<store, sets, phase, plan, recovery, inputs, page, spent>>

-----------------------------------------------------------------------------
\* A publication: what it was built from, and which build of all it was.
Publications == [recipe : Recipes, built : 1 .. MaxBuilds]

\* A build that is planned, and a page: the publication it was opened on, and
\* how often the pointer moved since, up to twice.
Plans == [id : Ids, recipe : Recipes]

Pages == [id : Ids, moved : 0 .. 2, publication : Publications]

ASSUME NoneAssumption ==
  /\ None \notin Ids /\ None \notin Publications
  /\ None \notin Plans /\ None \notin Pages

Moves == [from : Ids \cup {None}, to : Ids, cause : {"build", "undo"}]

Boundaries == [current : Ids \cup {None}, first : Nat]

\* The publications ever made are kept; only results are deleted.
Stores ==
  [publications : [Ids -> Publications \cup {None}], results : SUBSET Ids,
   moves : Seq(Moves), boundaries : Seq(Boundaries)]

EmptyStore ==
  [publications |-> [i \in Ids |-> None], results |-> {},
   moves |-> << >>, boundaries |-> << >>]

Published(s) == {i \in Ids : s.publications[i] # None}

\* The pointer is the last move; the previous current one is where it began.
CurrentId(s) == IF s.moves = << >> THEN None ELSE Last(s.moves).to

PreviousId(s) == IF s.moves = << >> THEN None ELSE Last(s.moves).from

\* _current: None when the result is not retained.
HasCurrent(s) == CurrentId(s) \in s.results

Highest(s) == Max(Published(s) \cup {0})

\* Mutant: the boundary is recorded and never read again.
NextIdWithoutBoundary(s) == Highest(s) + 1

\* Mutant: ids are counted by the results there are.
NextIdByCount(s) == Cardinality(s.results) + 1

\* _next_publication_id: above every publication of the store, and not below
\* its latest recovery boundary.
NextId(s) ==
  IF s.boundaries = << >> THEN Highest(s) + 1
  ELSE Max({Highest(s) + 1, Last(s.boundaries).first})

\* record_recovery_boundary: the next multiple of the step above every id.
FirstAfterRestore(s) == (Highest(s) \div IdStep + 1) * IdStep

\* Mutant: only the current result is worth keeping.
StaleButCurrent(s) == s.results \ {CurrentId(s)}

\* Mutant: results are taken to age in the order of their ids.
StaleBelowPrevious(s) ==
  {i \in s.results \ {CurrentId(s)} : PreviousId(s) # None /\ i < PreviousId(s)}

\* _SELECT_STALE_IDS: neither current nor previous.
Stale(s) == s.results \ {CurrentId(s), PreviousId(s)}
-----------------------------------------------------------------------------
Init ==
  /\ store = EmptyStore
  /\ sets = {}
  /\ phase = "idle"
  /\ plan = None
  /\ recovery = "none"
  /\ inputs \in Recipes
  /\ page = None
  /\ spent = [builds |-> 0, failures |-> 0, restores |-> 0]

Spend(what, bound) ==
  /\ spent[what] < bound
  /\ spent' = [spent EXCEPT ![what] = @ + 1]

\* Mutant: a move begins where the one before it began.
MoveFromPrevious(s, to, cause) ==
  [s EXCEPT !.moves = Append(@, [from |-> PreviousId(s), to |-> to, cause |-> cause])]

\* _move_pointer appends one move from the current publication.
Move(s, to, cause) ==
  [s EXCEPT !.moves = Append(@, [from |-> CurrentId(s), to |-> to, cause |-> cause])]

\* A page pinned before a move of the pointer, or before the store was replaced.
Outdated(n) ==
  page' = IF page = None THEN None ELSE [page EXCEPT !.moved = Min({2, @ + n})]

-----------------------------------------------------------------------------
(* A build: planned, published in one transaction, then cleaned up after.   *)

\* Mutant: the build is planned for the id after the highest.
PlanBelowBoundary ==
  /\ phase = "idle" /\ recovery \in {"none", "bounded"}
  /\ ~(HasCurrent(store) /\ store.publications[CurrentId(store)].recipe = inputs)
  /\ plan' = [id |-> Highest(store) + 1, recipe |-> inputs]
  /\ phase' = "planned"
  /\ UNCHANGED <<store, sets, recovery, inputs, page, spent>>

\* _plan_gold reads the store and the inputs, and derives the build in memory.
\* A recipe equal to the current publication's builds nothing.
Plan ==
  /\ phase = "idle" /\ recovery \in {"none", "bounded"}
  /\ ~(HasCurrent(store) /\ store.publications[CurrentId(store)].recipe = inputs)
  /\ NextId(store) \in Ids
  /\ plan' = [id |-> NextId(store), recipe |-> inputs]
  /\ phase' = "planned"
  /\ UNCHANGED <<store, sets, recovery, inputs, page, spent>>

\* GoldStore.publish: the publication, its result and the move, at once.  An
\* id that is not the next one is refused (PublicationIdError).
Publish ==
  /\ phase = "planned"
  /\ plan.id = NextId(store)
  /\ Len(store.moves) < MaxMoves
  /\ Spend("builds", MaxBuilds)
  /\ LET made == [recipe |-> plan.recipe, built |-> spent.builds + 1]
         kept == [store EXCEPT !.publications[plan.id] = made,
                               !.results = @ \cup {plan.id}]
     IN store' = Move(kept, plan.id, "build")
  /\ plan' = None
  /\ phase' = "cleanup"
  /\ Outdated(1)
  /\ UNCHANGED <<sets, recovery, inputs>>

\* Mutant: undo takes it that there is a previous publication.
UndoUnchecked ==
  /\ phase = "idle" /\ recovery = "none"
  /\ store.moves # << >> /\ Len(store.moves) < MaxMoves
  /\ store' = Move(store, PreviousId(store), "undo")
  /\ phase' = "cleanup"
  /\ Outdated(1)
  /\ UNCHANGED <<sets, plan, recovery, inputs, spent>>

\* `budget undo`: back to the previous publication, if both can be read.
Undo ==
  /\ phase = "idle" /\ recovery = "none"
  /\ Len(store.moves) < MaxMoves
  /\ PreviousId(store) # None
  /\ {CurrentId(store), PreviousId(store)} \subseteq store.results
  /\ store' = Move(store, PreviousId(store), "undo")
  /\ phase' = "cleanup"
  /\ Outdated(1)
  /\ UNCHANGED <<sets, plan, recovery, inputs, spent>>

\* _delete_stale_results, in a transaction of its own.
Cleanup ==
  /\ phase = "cleanup"
  /\ store' = [store EXCEPT !.results = @ \ Stale(store)]
  /\ phase' = "idle"
  /\ recovery' = IF recovery = "bounded" THEN "built" ELSE recovery
  /\ UNCHANGED <<sets, plan, inputs, page, spent>>

\* StaleResultsWarning: the store is busy, full or failing I/O, and the move
\* stands; the next move's cleanup deletes what this one left.
CleanupFails ==
  /\ phase = "cleanup"
  /\ Spend("failures", MaxFailures)
  /\ phase' = "idle"
  /\ recovery' = IF recovery = "bounded" THEN "built" ELSE recovery
  /\ UNCHANGED <<store, sets, plan, inputs, page>>

-----------------------------------------------------------------------------
(* Backup, loss and restore.                                                *)

\* back_up copies gold.db into a new set.
BackUp ==
  /\ phase = "idle" /\ recovery = "none"
  /\ Cardinality(sets) < MaxSets
  /\ store \notin sets
  /\ sets' = sets \cup {store}
  /\ UNCHANGED <<store, phase, plan, recovery, inputs, page, spent>>

\* The stores are lost, or the operator moves them aside to restore a set.
Lose ==
  /\ phase = "idle" /\ recovery = "none"
  /\ sets # {}
  /\ store' = EmptyStore
  /\ recovery' = "lost"
  /\ Outdated(2)
  /\ UNCHANGED <<sets, phase, plan, inputs, spent>>

\* restore clears an unfinished restore's stores, marks itself unfinished and
\* moves a set's stores into place.
PutInPlace ==
  /\ recovery = "lost"
  /\ Spend("restores", MaxRestores)
  /\ store' \in sets
  /\ recovery' = "placed"
  /\ Outdated(2)
  /\ UNCHANGED <<sets, phase, plan, inputs>>

\* Mutant: the boundary names the publication undo would go to before it.
RecordPrevious ==
  /\ recovery = "placed"
  /\ store' = [store EXCEPT !.boundaries =
                  Append(@, [current |-> PreviousId(store), first |-> FirstAfterRestore(store)])]
  /\ recovery' = "bounded"
  /\ UNCHANGED <<sets, phase, plan, inputs, page, spent>>

\* record_recovery_boundary, before the catch-up build takes an id.
RecordBoundary ==
  /\ recovery = "placed"
  /\ store' = [store EXCEPT !.boundaries =
                  Append(@, [current |-> CurrentId(store), first |-> FirstAfterRestore(store)])]
  /\ recovery' = "bounded"
  /\ UNCHANGED <<sets, phase, plan, inputs, page, spent>>

\* The catch-up build finds the restored publication already current.
CaughtUp ==
  /\ phase = "idle" /\ recovery = "bounded"
  /\ HasCurrent(store) /\ store.publications[CurrentId(store)].recipe = inputs
  /\ recovery' = "built"
  /\ UNCHANGED <<store, sets, phase, plan, inputs, page, spent>>

\* The marker is removed, and the profile is in use again.
FinishRestore ==
  /\ recovery = "built"
  /\ recovery' = "none"
  /\ UNCHANGED <<store, sets, phase, plan, inputs, page, spent>>

\* A writing command stops between two transactions.  A restore leaves its
\* marker and what it put in place, and only another restore may follow.
Crash ==
  /\ phase # "idle" \/ recovery \notin {"none", "lost"}
  /\ Spend("failures", MaxFailures)
  /\ phase' = "idle"
  /\ plan' = None
  /\ recovery' = IF recovery = "none" THEN "none" ELSE "lost"
  /\ UNCHANGED <<store, sets, inputs, page>>

-----------------------------------------------------------------------------
\* The household edits its inputs or imports, or the code changes.
ChangeInputs ==
  /\ inputs' \in Recipes \ {inputs}
  /\ UNCHANGED <<store, sets, phase, plan, recovery, page, spent>>

\* A page is opened on the current publication and keeps its id from then on.
\* The server that serves it reads gold.db as it finds it, restore or not.
OpenPage ==
  /\ HasCurrent(store)
  /\ page' = [id |-> CurrentId(store), moved |-> 0,
              publication |-> store.publications[CurrentId(store)]]
  /\ UNCHANGED <<store, sets, phase, plan, recovery, inputs, spent>>

Next ==
  \/ Plan \/ Publish \/ Undo \/ Cleanup \/ CleanupFails
  \/ BackUp \/ Lose \/ PutInPlace \/ RecordBoundary \/ CaughtUp \/ FinishRestore
  \/ Crash
  \/ ChangeInputs \/ OpenPage

Spec == Init /\ [][Next]_vars

-----------------------------------------------------------------------------
(* What the store promises.                                                 *)

\* Every variable stays within its type.
TypeOK ==
  /\ store \in Stores
  /\ sets \subseteq Stores
  /\ phase \in {"idle", "planned", "cleanup"}
  /\ plan \in Plans \cup {None}
  /\ phase = "planned" => plan # None
  /\ recovery \in {"none", "lost", "placed", "bounded", "built"}
  /\ inputs \in Recipes
  /\ page \in Pages \cup {None}
  /\ spent \in [{"builds", "failures", "restores"} -> Nat]

\* Both ends of the last move are results, and results are of publications.
Keeps(s) ==
  /\ {CurrentId(s), PreviousId(s)} \ {None} \subseteq s.results
  /\ s.results \subseteq Published(s)

\* The results of the current and the previous publication are retained,
\* whatever was built, undone, cleaned up, backed up and restored: undo always
\* has where to go, and there is a current publication once one was built.
CurrentAndPreviousKept == \A s \in sets \cup {store} : Keeps(s)

\* Each move begins where the last one ended, builds only ever go to higher
\* ids, and an undo returns to where the move before it came from.
Sound(s) ==
  LET m == s.moves
  IN /\ m # << >> => m[1].from = None
     /\ \A i \in 2 .. Len(m) :
          /\ m[i].from = m[i - 1].to
          /\ m[i].cause = "undo" => m[i].to = m[i - 1].from
          /\ m[i].cause = "build" => \A j \in 1 .. i - 1 : m[j].to < m[i].to

\* The pointer history reads as one story, in the store and in every set, so
\* what was current at any moment can be told from it.
HistoryIsSound == \A s \in sets \cup {store} : Sound(s)

\* The id a build was planned for is still the next one when it is published:
\* nothing between the two takes an id or moves the boundary.
PlanStaysNext == phase = "planned" => plan.id = NextId(store)

\* A page opened on the current publication can still be read after one more
\* move of the pointer, by a build or by an undo, and its cleanup.
PageSurvivesOneMove == page # None /\ page.moved < 2 => page.id \in store.results

\* A page never shows another publication than the one it was opened on: an id
\* written down before a restore names no publication built after it.  (A
\* second restore may reuse a range, which the documentation accepts.)
PageNeverMixes ==
  page # None /\ spent.restores < 2 =>
    store.publications[page.id] \in {None, page.publication}

\* A result that is neither current nor previous has a cause: the cleanup of
\* the last move is still to come, or one failed or was cut off.
LeftoversHaveACause ==
  Cardinality(store.results \ {CurrentId(store), PreviousId(store)}) <=
    spent.failures + (IF phase = "cleanup" THEN 1 ELSE 0)

\* Undo returns from the catch-up build to the publication current in the set.
CatchUpUndoReturns ==
  recovery = "built" /\ CurrentId(store) = Last(store.boundaries).first =>
    PreviousId(store) = Last(store.boundaries).current

-----------------------------------------------------------------------------
\* gold.db as the history a reader is promised.
ContentOf(s) == [i \in s.results |-> s.publications[i]]

HistoryOf(s) ==
  [current |-> CurrentId(s), previous |-> PreviousId(s), content |-> ContentOf(s)]

History ==
  INSTANCE PublicationHistory WITH
    Contents <- Publications,
    current <- CurrentId(store),
    previous <- PreviousId(store),
    content <- ContentOf(store),
    saved <- {HistoryOf(s) : s \in sets}

\* The store implements the promised history.
KeepsHistory == History!Spec
=============================================================================
