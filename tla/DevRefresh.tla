----------------------------- MODULE DevRefresh -----------------------------
(***************************************************************************)
(* `dev refresh`: development takes over production's newest backup set,   *)
(* into its read-only upstream folder or, with --writable, into its own    *)
(* stores, and with --inputs its inputs too (src/budget/refreshing.py).    *)
(*                                                                         *)
(* Folders are swapped by renames that may fail or be cut off one by one.  *)
(* A file is known by where its contents are from: a set, by its number,   *)
(* or development itself.  What is copied is copied in a folder of its     *)
(* own, deleted before and after, and is not part of the state.            *)
(***************************************************************************)
EXTENDS Naturals, Sequences, FiniteSets

CONSTANTS
  StageOrder,   \* the stages, in order
  Nothing,      \* no file, no folder
  MaxRefreshes, \* bound on refreshes, each of a newer set
  MaxFailures   \* bound on commands that fail half-way or are cut off

VARIABLES
  own,        \* development's store files
  aside,      \* writable-replaced: those moved out of the way
  upstream,   \* the stores in upstream/
  inputs,     \* where the inputs folder is from
  replaced,   \* the old inputs folder, moved out of the way
  newest,     \* the newest complete set production has and this code can read
  refreshing, \* the refresh under way: its set, by number and stores
  failures,
  whole,      \* (for the properties) the stores development had, or was given
              \* whole, last; after ClearAside what its stores folder holds
  cutOff      \* (for the properties) what an attempt left half done

devVars == <<own, aside, upstream, inputs, replaced, refreshing, failures, whole, cutOff, newest>>

-----------------------------------------------------------------------------

DevStages == {StageOrder[k] : k \in DOMAIN StageOrder}

\* A store, and what SQLite keeps beside it.
DevFiles == DevStages \X {"store", "wal"}

OwnOrigin == 0

Origins == 0 .. MaxRefreshes \cup {Nothing}

None == [f \in DevFiles |-> Nothing]

\* Files are moved stage by stage, a store before what is beside it.
Place(f) ==
  2 * (CHOOSE k \in DOMAIN StageOrder : StageOrder[k] = f[1]) + (IF f[2] = "wal" THEN 1 ELSE 0)

First(files) == CHOOSE f \in files : \A g \in files : Place(f) <= Place(g)

Existing(files) == {f \in DOMAIN files : files[f] # Nothing}

Resting ==
  [step |-> "none", writable |-> FALSE, stages |-> {}, movedIn |-> {}]

\* The store files of the chosen set.
Taken == {<<s, "store">> : s \in refreshing.stages}

\* Development with those stores, and nothing beside them.
TakenWhole ==
  [f \in DevFiles |-> IF f \in Taken THEN newest ELSE Nothing]

\* What the constants are.
ConstantsOK ==
  /\ DOMAIN StageOrder = 1 .. Len(StageOrder) /\ Len(StageOrder) \in Nat \ {0}
  /\ {MaxRefreshes, MaxFailures} \subseteq Nat
  /\ Nothing \notin Nat

ASSUME DevelopmentConstants == ConstantsOK

DevTypeOK ==
  /\ own \in [DevFiles -> Origins] /\ aside \in [DevFiles -> Origins]
  /\ whole \in [DevFiles -> Origins]
  /\ upstream \in [DevStages -> Origins]
  /\ inputs \in Origins /\ replaced \in Origins
  /\ newest \in 0 .. MaxRefreshes
  /\ refreshing \in
       [step : {"none", "clearInputs", "moveInputs", "placeInputs", "dropInputs",
                "clearAside", "swap", "upstream"},
        writable : BOOLEAN, stages : SUBSET DevStages, movedIn : SUBSET DevFiles]
  /\ cutOff \subseteq {"stores", "inputs"}

\* Development has stores, or some of them, of its own.
DevInit ==
  /\ own \in {[f \in DevFiles |-> IF f[1] \in some THEN OwnOrigin ELSE Nothing] :
                some \in SUBSET DevStages}
  /\ aside = None
  /\ upstream = [s \in DevStages |-> Nothing]
  /\ inputs = OwnOrigin /\ replaced = Nothing
  /\ newest = 0
  /\ refreshing = Resting
  /\ failures = 0
  /\ whole = own
  /\ cutOff = {}

-----------------------------------------------------------------------------

AtStep(step) == refreshing.step = step

GoOn(step) == refreshing' = [refreshing EXCEPT !.step = step]

StopRefresh == refreshing' = Resting

Fail ==
  /\ failures < MaxFailures
  /\ failures' = failures + 1

\* Where a refresh goes on once the inputs are in place, or were not asked for.
AfterInputs(writable) == IF writable THEN "clearAside" ELSE "upstream"

\* Development works with its stores: what is missing is started, and SQLite
\* keeps its files beside the store or removes them.
Work(s) ==
  /\ AtStep("none")
  /\ \E wal \in BOOLEAN :
       LET origin == IF own[<<s, "store">>] = Nothing THEN OwnOrigin ELSE own[<<s, "store">>]
           Worked(files) == [files EXCEPT ![<<s, "store">>] = origin,
                                          ![<<s, "wal">>] = IF wal THEN origin ELSE Nothing]
       IN own' = Worked(own) /\ whole' = Worked(whole)
  /\ UNCHANGED <<aside, upstream, inputs, replaced, refreshing, failures, cutOff, newest>>

\* Production has written a set since; it always has Bronze's store.
Begin(withInputs, writable) ==
  /\ AtStep("none")
  /\ newest < MaxRefreshes
  /\ newest' = newest + 1
  /\ \E later \in SUBSET (DevStages \ {StageOrder[1]}) :
       refreshing' = [step |-> IF withInputs THEN "clearInputs" ELSE AfterInputs(writable),
                      writable |-> writable, stages |-> later \cup {StageOrder[1]},
                      movedIn |-> {}]
  /\ UNCHANGED <<own, aside, upstream, inputs, replaced, failures, whole, cutOff>>

-----------------------------------------------------------------------------
(* The inputs.                                                              *)

storesUnchanged == UNCHANGED <<own, aside, upstream, whole, newest>>

\* What an earlier attempt left is deleted, if it can be.
ClearInputs ==
  /\ AtStep("clearInputs")
  /\ replaced' \in {replaced, Nothing}
  /\ GoOn("moveInputs")
  /\ storesUnchanged /\ UNCHANGED <<inputs, failures, cutOff>>

\* The set's inputs are copied; the old folder goes where none is.
MoveInputs ==
  /\ AtStep("moveInputs")
  /\ IF inputs = Nothing THEN UNCHANGED <<inputs, replaced>>
     ELSE replaced = Nothing /\ replaced' = inputs /\ inputs' = Nothing
  /\ GoOn("placeInputs")
  /\ storesUnchanged /\ UNCHANGED <<failures, cutOff>>

\* InputsNotReplacedError: the copy fails, or the old folder cannot be moved.
InputsNotReplaced ==
  /\ AtStep("moveInputs")
  /\ StopRefresh
  /\ Fail
  /\ storesUnchanged /\ UNCHANGED <<inputs, replaced, cutOff>>

PlaceInputs ==
  /\ AtStep("placeInputs")
  /\ inputs' = newest
  /\ cutOff' = cutOff \ {"inputs"}
  /\ GoOn("dropInputs")
  /\ storesUnchanged /\ UNCHANGED <<replaced, failures>>

DropOldInputs ==
  /\ AtStep("dropInputs")
  /\ replaced' \in {replaced, Nothing}
  /\ GoOn(AfterInputs(refreshing.writable))
  /\ storesUnchanged /\ UNCHANGED <<inputs, failures, cutOff>>

-----------------------------------------------------------------------------
(* Development's own stores.                                                *)

inputsUnchanged == UNCHANGED <<inputs, replaced, newest>>

\* The copies are made and relabelled; what an earlier attempt moved aside is
\* deleted.  Development is then what is in its stores folder.
ClearAside ==
  /\ AtStep("clearAside")
  /\ aside' = None
  /\ whole' = own
  /\ GoOn("swap")
  /\ inputsUnchanged /\ UNCHANGED <<own, upstream, failures, cutOff>>

\* RefreshWriteError before a store is moved: a copy cannot be made or is not
\* production's, or what is aside can only be deleted in part.
NotCopied ==
  /\ AtStep("clearAside")
  /\ \/ UNCHANGED <<aside, whole>>
     \/ /\ \E left \in SUBSET Existing(aside) :
             aside' = [f \in DevFiles |-> IF f \in left THEN aside[f] ELSE Nothing]
        /\ whole' = own
  /\ StopRefresh
  /\ Fail
  /\ inputsUnchanged /\ UNCHANGED <<own, upstream, cutOff>>

\* (A bug in ToMoveAside: only the stores the set has are moved aside.)
ToMoveAsideOfTheSet ==
  {f \in Existing(own) \ refreshing.movedIn : f[1] \in refreshing.stages}

\* Every store file there is, one of the set's or not.
ToMoveAside == Existing(own) \ refreshing.movedIn

MoveAside ==
  /\ AtStep("swap")
  /\ ToMoveAside # {}
  /\ aside' = [aside EXCEPT ![First(ToMoveAside)] = own[First(ToMoveAside)]]
  /\ own' = [own EXCEPT ![First(ToMoveAside)] = Nothing]
  /\ inputsUnchanged /\ UNCHANGED <<upstream, refreshing, failures, whole, cutOff>>

MoveIn ==
  /\ AtStep("swap")
  /\ ToMoveAside = {}
  /\ LET left == Taken \ refreshing.movedIn
     IN /\ left # {}
        /\ own' = [own EXCEPT ![First(left)] = newest]
        /\ refreshing' = [refreshing EXCEPT !.movedIn = @ \cup {First(left)}]
  /\ inputsUnchanged /\ UNCHANGED <<aside, upstream, failures, whole, cutOff>>

\* A move failed: what was moved in is taken out and the old files are put back,
\* all but those that are stuck (RefreshWriteError, or RefreshUndoError).
UndoSwap ==
  /\ AtStep("swap")
  /\ \E stuckIn \in SUBSET refreshing.movedIn, stuckAside \in SUBSET Existing(aside) :
       LET back == Existing(aside) \ stuckAside
       IN /\ own' = [f \in DevFiles |->
                       IF f \in back THEN aside[f]
                       ELSE IF f \in refreshing.movedIn \ stuckIn THEN Nothing ELSE own[f]]
          /\ aside' = [f \in DevFiles |-> IF f \in back THEN Nothing ELSE aside[f]]
          /\ cutOff' = IF stuckIn \cup stuckAside = {} THEN cutOff ELSE cutOff \cup {"stores"}
  /\ StopRefresh
  /\ Fail
  /\ inputsUnchanged /\ UNCHANGED <<upstream, whole>>

\* The old stores are deleted last, if they can be.
SwappedIn ==
  /\ AtStep("swap")
  /\ ToMoveAside = {} /\ Taken \subseteq refreshing.movedIn
  /\ \E left \in SUBSET Existing(aside) :
       aside' = [f \in DevFiles |-> IF f \in left THEN aside[f] ELSE Nothing]
  /\ whole' = TakenWhole
  /\ cutOff' = cutOff \ {"stores"}
  /\ StopRefresh
  /\ inputsUnchanged /\ UNCHANGED <<own, upstream, failures>>

-----------------------------------------------------------------------------
(* The upstream folder.                                                     *)

\* The copies in it are deleted once the new ones are all made.
RemoveUpstream ==
  /\ AtStep("upstream")
  /\ \E s \in Existing(upstream) : upstream' = [upstream EXCEPT ![s] = Nothing]
  /\ inputsUnchanged /\ UNCHANGED <<own, aside, refreshing, failures, whole, cutOff>>

PlaceUpstream ==
  /\ AtStep("upstream")
  /\ Existing(upstream) = {}
  /\ upstream' = [s \in DevStages |-> TakenWhole[<<s, "store">>]]
  /\ StopRefresh
  /\ inputsUnchanged /\ UNCHANGED <<own, aside, failures, whole, cutOff>>

-----------------------------------------------------------------------------

\* What the step a refresh stops at leaves half done.
HalfDone ==
  CASE AtStep("placeInputs") -> {"inputs"}
    [] AtStep("swap") -> {"stores"}
    [] OTHER -> {}

\* Cut off, or an error that nothing undoes: a rename of the new inputs or of
\* the upstream folder, or a copy for it, that fails.
CutOff ==
  /\ ~ AtStep("none")
  /\ Fail
  /\ cutOff' = cutOff \cup HalfDone
  /\ StopRefresh
  /\ UNCHANGED <<own, aside, upstream, inputs, replaced, whole, newest>>

DevNext ==
  \/ \E s \in DevStages : Work(s)
  \/ \E withInputs, writable \in BOOLEAN : Begin(withInputs, writable)
  \/ ClearInputs \/ MoveInputs \/ InputsNotReplaced \/ PlaceInputs \/ DropOldInputs
  \/ ClearAside \/ NotCopied \/ MoveAside \/ MoveIn \/ UndoSwap \/ SwappedIn
  \/ RemoveUpstream \/ PlaceUpstream
  \/ CutOff

DevSpec == DevInit /\ [][DevNext]_devVars

-----------------------------------------------------------------------------

\* Development is what it was or what the set is.  Until the stores of a set are
\* all in, each old store file is in its place or aside; but while stores are
\* swapped, and unless an earlier attempt was cut off or could not be undone,
\* the stores are the old or the set's, all in their place, with none of the
\* other beside them.  So a refresh that deletes what is aside deletes none of
\* them, unless an attempt before it left development half done: then what is in
\* the stores folder is all that is kept.  The inputs are in their place but
\* between the two renames, where the old are aside, unless an attempt was cut
\* off there, whose old inputs the next one deletes too.  Upstream holds stores
\* of one set (_swap_in, _undo_swap, _replace_inputs, refresh).
DevelopmentIsWhole ==
  /\ \A f \in Existing(whole) : whole[f] \in {own[f], aside[f]}
  /\ ~ AtStep("swap") /\ "stores" \notin cutOff =>
       /\ own = whole
       /\ \A s \in DevStages : own[<<s, "wal">>] \in {Nothing, own[<<s, "store">>]}
  /\ "inputs" \notin cutOff /\ inputs = Nothing =>
       AtStep("placeInputs") /\ replaced # Nothing
  /\ \A s, t \in Existing(upstream) : upstream[s] = upstream[t]

=============================================================================
