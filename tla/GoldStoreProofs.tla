--------------------------- MODULE GoldStoreProofs ---------------------------
(* Proofs that gold.db keeps the results undo needs and not many more, that  *)
(* its pointer history reads as one story, that a page is not served another *)
(* publication after a restore, and that it implements the publication       *)
(* history its readers are promised: for every set of ids and recipes, and   *)
(* for any number of builds, undos, failures, backups and restores.          *)
EXTENDS GoldStore, FiniteFacts, TLAPS, FiniteSetTheorems, SequenceTheorems

-----------------------------------------------------------------------------
(* The operators on a store.                                                *)

\* The last element of a sequence is one of its elements.
LEMMA LastIsElement ==
  ASSUME NEW S, NEW q \in Seq(S), q # << >>
  PROVE  Last(q) \in S
<1>1. Len(q) \in 1 .. Len(q)
  BY EmptySeq, LenProperties
<1> QED
  BY <1>1 DEF Last

\* The last element of a sequence is the one appended last.
LEMMA LastAppended ==
  ASSUME NEW S, NEW q \in Seq(S), NEW e \in S
  PROVE  Append(q, e) \in Seq(S) /\ Append(q, e) # << >> /\ Last(Append(q, e)) = e
BY AppendProperties DEF Last

\* The parts of a store, one by one.
LEMMA StoreParts ==
  ASSUME NEW s \in Stores
  PROVE  /\ s.publications \in [Ids -> Publications \cup {None}]
         /\ s.results \in SUBSET Ids
         /\ s.moves \in Seq(Moves)
         /\ s.boundaries \in Seq(Boundaries)
         /\ s = [publications |-> s.publications, results |-> s.results,
                 moves |-> s.moves, boundaries |-> s.boundaries]
BY DEF Stores

\* The highest id is that of a publication, or zero, and no id is above it.
LEMMA HighestIsGreatest ==
  ASSUME NEW s \in Stores
  PROVE  /\ Highest(s) \in Nat /\ \A i \in Published(s) : i <= Highest(s)
         /\ Highest(s) \in Published(s) \cup {0}
<1>1. Published(s) \cup {0} \in SUBSET Nat
  <2>1. Published(s) \subseteq Ids
    BY DEF Published
  <2>2. Ids \subseteq Nat
    BY IdsAssumption
  <2>3. \A i \in Published(s) : i \in Nat
    BY <2>1, <2>2
  <2> QED
    BY <2>3
<1>2. IsFiniteSet(Published(s) \cup {0})
  <2>1. Published(s) \in SUBSET Ids
    BY DEF Published
  <2> QED
    BY <2>1, IdsAssumption, FS_Subset, FS_AddElement
<1> QED
  BY <1>1, <1>2, MaxIsGreatest DEF Highest

\* The next id is above every publication of the store.
LEMMA NextIdIsAbove ==
  ASSUME NEW s \in Stores
  PROVE  NextId(s) \in Nat /\ \A i \in Published(s) : i < NextId(s)
<1>1. Highest(s) \in Nat /\ \A i \in Published(s) : i \in Nat /\ i <= Highest(s)
  BY HighestIsGreatest, IdsAssumption DEF Published
<1>2. CASE s.boundaries = << >>
  BY <1>1, <1>2 DEF NextId
<1>3. CASE s.boundaries # << >>
  <2> DEFINE first == Last(s.boundaries).first
             S == {Highest(s) + 1, first}
  <2>1. first \in Nat
    <3>1. Last(s.boundaries) \in Boundaries
      BY <1>3, StoreParts, LastIsElement
    <3> QED
      BY <3>1 DEF Boundaries
  <2>2. S \in SUBSET Nat /\ S # {}
    BY <1>1, <2>1
  <2>3. IsFiniteSet(S)
    <3> HIDE DEF first
    <3>1. IsFiniteSet({first})
      BY FS_Singleton
    <3>2. S = {first} \cup {Highest(s) + 1}
      OBVIOUS
    <3> QED
      BY <3>1, <3>2, FS_AddElement
  <2>4. Max(S) \in Nat /\ Highest(s) + 1 <= Max(S)
    <3> HIDE DEF first
    <3>1. Max(S) \in S /\ \A x \in S : x <= Max(S)
      BY <2>2, <2>3, MaxIsGreatest
    <3> QED
      BY <2>2, <3>1
  <2> QED
    <3>1. NextId(s) = Max(S)
      BY <1>3 DEF NextId
    <3> HIDE DEF S
    <3> QED
      BY <1>1, <2>4, <3>1
<1> QED
  BY <1>2, <1>3

\* ...and not below its latest boundary.
LEMMA NextIdIsNotBelow ==
  ASSUME NEW s \in Stores, s.boundaries # << >>
  PROVE  Last(s.boundaries).first <= NextId(s)
<1> DEFINE first == Last(s.boundaries).first
           S == {first} \cup {Highest(s) + 1}
<1>1. first \in Nat
  <2>1. Last(s.boundaries) \in Boundaries
    BY StoreParts, LastIsElement
  <2> QED
    BY <2>1 DEF Boundaries
<1>2. NextId(s) = Max(S)
  <2>1. S = {Highest(s) + 1, first}
    OBVIOUS
  <2> QED
    BY <2>1 DEF NextId
<1>3. S \in SUBSET Nat /\ S \in SUBSET Int /\ S # {}
  BY <1>1, HighestIsGreatest
<1>4. IsFiniteSet(S)
  <2>1. IsFiniteSet({first})
    BY FS_Singleton
  <2> QED
    BY <2>1, FS_AddElement
<1>5. first \in S
  OBVIOUS
<1> HIDE DEF S
<1> QED
  BY <1>2, <1>3, <1>4, <1>5, MaxIsGreatest

\* The first id after a restore is a natural number.
LEMMA FirstAfterRestoreType ==
  ASSUME NEW s \in Stores
  PROVE  FirstAfterRestore(s) \in Nat
<1>1. Highest(s) \in Nat
  BY HighestIsGreatest
<1>2. IdStep \in Nat \ {0}
  BY BoundsAssumption
<1>3. Highest(s) \div IdStep + 1 \in Nat
  BY <1>1, <1>2
<1> QED
  BY <1>2, <1>3 DEF FirstAfterRestore

\* Where the pointer is, and where it was, are ids or nowhere.
LEMMA PointerType ==
  ASSUME NEW s \in Stores
  PROVE  /\ CurrentId(s) \in Ids \cup {None}
         /\ PreviousId(s) \in Ids \cup {None}
         /\ PreviousId(s) # None => CurrentId(s) # None
<1>1. CASE s.moves = << >>
  BY <1>1 DEF CurrentId, PreviousId
<1>2. CASE s.moves # << >>
  <2>1. Last(s.moves) \in Moves
    BY <1>2, StoreParts, LastIsElement
  <2>2. Last(s.moves).from \in Ids \cup {None} /\ Last(s.moves).to \in Ids
    BY <2>1 DEF Moves
  <2> QED
    BY <1>2, <2>2, NoneAssumption DEF CurrentId, PreviousId
<1> QED
  BY <1>1, <1>2

\* A move ends where it goes to, and comes from where the pointer was.
LEMMA MoveMoves ==
  ASSUME NEW s \in Stores, NEW to \in Ids, NEW cause \in {"build", "undo"}
  PROVE  /\ Move(s, to, cause) \in Stores
         /\ CurrentId(Move(s, to, cause)) = to
         /\ PreviousId(Move(s, to, cause)) = CurrentId(s)
         /\ Move(s, to, cause).publications = s.publications
         /\ Move(s, to, cause).results = s.results
<1> DEFINE m == [from |-> CurrentId(s), to |-> to, cause |-> cause]
<1>1. m \in Moves
  BY PointerType DEF Moves
<1>2. /\ Append(s.moves, m) \in Seq(Moves)
      /\ Append(s.moves, m) # << >>
      /\ Last(Append(s.moves, m)) = m
  <2> HIDE DEF m
  <2> QED
    BY <1>1, StoreParts, LastAppended
<1>3. Move(s, to, cause) =
        [publications |-> s.publications, results |-> s.results,
         moves |-> Append(s.moves, m), boundaries |-> s.boundaries]
  <2> DEFINE moves == Append(s.moves, m)
  <2>1. Move(s, to, cause) = [s EXCEPT !.moves = moves]
    BY DEF Move
  <2> HIDE DEF moves
  <2>2. [s EXCEPT !.moves = moves] =
          [publications |-> s.publications, results |-> s.results,
           moves |-> moves, boundaries |-> s.boundaries]
    BY DEF Stores
  <2> QED
    BY <2>1, <2>2 DEF moves
<1>4. m.from = CurrentId(s) /\ m.to = to
  OBVIOUS
<1> HIDE DEF m
<1>5. Move(s, to, cause) \in Stores
  BY <1>2, <1>3, StoreParts DEF Stores
<1>6. Move(s, to, cause).moves = Append(s.moves, m)
  BY <1>3
<1> QED
  BY <1>2, <1>3, <1>4, <1>5, <1>6 DEF CurrentId, PreviousId

-----------------------------------------------------------------------------
(* Types.                                                                   *)

\* The empty store is a store.
LEMMA EmptyStoreType == EmptyStore \in Stores
BY DEF EmptyStore, Stores

\* The store with a new publication and its result, before the pointer moves.
Made(s, i, made) ==
  [s EXCEPT !.publications[i] = made, !.results = @ \cup {i}]

\* Storing a publication leaves the pointer and the boundaries alone.
LEMMA MadeMakes ==
  ASSUME NEW s \in Stores, NEW i \in Ids, NEW made \in Publications
  PROVE  /\ Made(s, i, made) \in Stores
         /\ Made(s, i, made).publications = [s.publications EXCEPT ![i] = made]
         /\ Made(s, i, made).results = s.results \cup {i}
         /\ Made(s, i, made).moves = s.moves
BY DEF Made, Stores

\* Deleting results leaves everything else alone.
LEMMA DeletingResults ==
  ASSUME NEW s \in Stores, NEW gone
  PROVE  /\ [s EXCEPT !.results = @ \ gone] \in Stores
         /\ [s EXCEPT !.results = @ \ gone].publications = s.publications
         /\ [s EXCEPT !.results = @ \ gone].results = s.results \ gone
         /\ [s EXCEPT !.results = @ \ gone].moves = s.moves
BY DEF Stores

\* So does recording a boundary.
LEMMA AddingBoundary ==
  ASSUME NEW s \in Stores, NEW b \in Boundaries
  PROVE  /\ [s EXCEPT !.boundaries = Append(@, b)] \in Stores
         /\ [s EXCEPT !.boundaries = Append(@, b)].publications = s.publications
         /\ [s EXCEPT !.boundaries = Append(@, b)].results = s.results
         /\ [s EXCEPT !.boundaries = Append(@, b)].moves = s.moves
<1>1. Append(s.boundaries, b) \in Seq(Boundaries)
  BY StoreParts, LastAppended
<1> QED
  BY <1>1 DEF Stores

\* Counting moves stops at two.
LEMMA CountToTwo ==
  ASSUME NEW k \in 0 .. 2, NEW n \in 1 .. 2
  PROVE  /\ Min({2, k + n}) \in 1 .. 2
         /\ Min({2, k + n}) = 1 => k = 0 /\ n = 1
<1> DEFINE S == {2} \cup {k + n}
<1>1. S \in SUBSET Nat /\ S # {}
  OBVIOUS
<1>2. IsFiniteSet(S)
  <2>1. IsFiniteSet({2})
    BY FS_Singleton
  <2> QED
    BY <2>1, FS_AddElement
<1>3. Min(S) \in S /\ \A x \in S : Min(S) <= x
  <2> HIDE DEF S
  <2> QED
    BY <1>1, <1>2, MinIsLeast
<1>4. S = {2, k + n}
  OBVIOUS
<1>5. Min(S) \in {2, k + n} /\ Min(S) <= 2 /\ Min(S) <= k + n
  BY <1>3
<1> HIDE DEF S
<1> QED
  BY <1>4, <1>5

\* A pinned page stays pinned as moves are counted.
LEMMA OutdatedPage ==
  ASSUME TypeOK, NEW n \in 1 .. 2, Outdated(n)
  PROVE  /\ page' \in Pages \cup {None}
         /\ page' # None => /\ page # None
                            /\ page'.id = page.id
                            /\ page'.publication = page.publication
                            /\ page'.moved \in 1 .. 2
                            /\ page'.moved = 1 => page.moved = 0 /\ n = 1
<1>1. CASE page = None
  BY <1>1 DEF Outdated
<1>2. CASE page # None
  <2> DEFINE k == page.moved
             m == Min({2, k + n})
  <2>1. page \in Pages
    BY <1>2 DEF TypeOK
  <2>2. page' = [page EXCEPT !.moved = m]
    BY <1>2 DEF Outdated
  <2>3. m \in 1 .. 2 /\ (m = 1 => k = 0 /\ n = 1)
    BY <2>1, CountToTwo DEF Pages
  <2> HIDE DEF m
  <2> QED
    BY <1>2, <2>1, <2>2, <2>3 DEF Pages
<1> QED
  BY <1>1, <1>2

\* The profile starts out well typed.
LEMMA TypeInit == Init => TypeOK
<1> SUFFICES ASSUME Init PROVE TypeOK
  OBVIOUS
<1>1. store \in Stores /\ sets \subseteq Stores
  BY EmptyStoreType DEF Init
<1>2. spent \in [{"builds", "failures", "restores"} -> Nat]
  BY DEF Init
<1> QED
  BY <1>1, <1>2 DEF Init, TypeOK

\* A build takes the id it was planned for, which is the next one.
LEMMA PublishMakes ==
  ASSUME TypeOK, Publish
  PROVE  \E i \in Ids, made \in Publications :
           i = NextId(store) /\ store' = Move(Made(store, i, made), i, "build")
<1> DEFINE made == [recipe |-> plan.recipe, built |-> spent.builds + 1]
<1>1. plan \in Plans /\ plan.id \in Ids /\ plan.recipe \in Recipes
  BY NoneAssumption DEF Publish, Plans, TypeOK
<1>2. made \in Publications
  <2>1. spent.builds \in Nat /\ spent.builds < MaxBuilds /\ MaxBuilds \in Nat
    BY BoundsAssumption DEF Publish, Spend, TypeOK
  <2>2. spent.builds + 1 \in 1 .. MaxBuilds
    BY <2>1
  <2> QED
    BY <1>1, <2>2 DEF Publications
<1>3. store' = Move(Made(store, plan.id, made), plan.id, "build")
  BY DEF Publish, Made
<1>4. plan.id = NextId(store)
  BY DEF Publish
<1> HIDE DEF made
<1> QED
  BY <1>1, <1>2, <1>3, <1>4

\* Every step of a command, of the household and of a page keeps the types.
LEMMA TypeNext == TypeOK /\ CurrentAndPreviousKept /\ [Next]_vars => TypeOK'
<1> SUFFICES ASSUME TypeOK, CurrentAndPreviousKept, [Next]_vars PROVE TypeOK'
  OBVIOUS
<1> USE DEF TypeOK
<1>1. CASE Plan
  <2>1. plan' \in Plans
    BY <1>1 DEF Plan, Plans
  <2>2. plan' # None
    BY <2>1, NoneAssumption
  <2> QED
    BY <1>1, <2>1, <2>2 DEF Plan
<1>2. CASE Publish
  <2>1. PICK i \in Ids, made \in Publications :
          store' = Move(Made(store, i, made), i, "build")
    BY <1>2, PublishMakes
  <2>2. Made(store, i, made) \in Stores
    BY MadeMakes
  <2>3. store' \in Stores
    BY <2>1, <2>2, MoveMoves
  <2>4. page' \in Pages \cup {None}
    BY <1>2, OutdatedPage DEF Publish
  <2>5. spent' \in [{"builds", "failures", "restores"} -> Nat]
    BY <1>2 DEF Publish, Spend
  <2> QED
    BY <1>2, <2>3, <2>4, <2>5 DEF Publish
<1>3. CASE Undo
  <2>1. PreviousId(store) \in Ids
    BY <1>3, PointerType DEF Undo
  <2>2. store' \in Stores
    BY <1>3, <2>1, MoveMoves DEF Undo
  <2>3. page' \in Pages \cup {None}
    BY <1>3, OutdatedPage DEF Undo
  <2> QED
    BY <1>3, <2>2, <2>3 DEF Undo
<1>4. CASE Cleanup
  <2>1. store' \in Stores
    BY <1>4, DeletingResults DEF Cleanup
  <2> QED
    BY <1>4, <2>1 DEF Cleanup
<1>5. CASE CleanupFails
  BY <1>5 DEF CleanupFails, Spend
<1>6. CASE BackUp
  BY <1>6 DEF BackUp
<1>7. CASE Lose
  <2>1. page' \in Pages \cup {None}
    BY <1>7, OutdatedPage DEF Lose
  <2> QED
    BY <1>7, <2>1, EmptyStoreType DEF Lose
<1>8. CASE PutInPlace
  <2>1. page' \in Pages \cup {None}
    BY <1>8, OutdatedPage DEF PutInPlace
  <2>2. spent' \in [{"builds", "failures", "restores"} -> Nat]
    BY <1>8 DEF PutInPlace, Spend
  <2>3. store' \in Stores
    BY <1>8 DEF PutInPlace
  <2> QED
    BY <1>8, <2>1, <2>2, <2>3 DEF PutInPlace
<1>9. CASE RecordBoundary
  <2> DEFINE b == [current |-> CurrentId(store), first |-> FirstAfterRestore(store)]
  <2>1. b \in Boundaries
    BY PointerType, FirstAfterRestoreType DEF Boundaries
  <2>2. store' = [store EXCEPT !.boundaries = Append(@, b)]
    BY <1>9 DEF RecordBoundary
  <2> HIDE DEF b
  <2>3. store' \in Stores
    BY <2>1, <2>2, AddingBoundary
  <2> QED
    BY <1>9, <2>3 DEF RecordBoundary
<1>10. CASE CaughtUp
  BY <1>10 DEF CaughtUp
<1>11. CASE FinishRestore
  BY <1>11 DEF FinishRestore
<1>12. CASE Crash
  BY <1>12 DEF Crash, Spend
<1>13. CASE ChangeInputs
  BY <1>13 DEF ChangeInputs
<1>14. CASE OpenPage
  <2>1. CurrentId(store) \in Ids /\ store.publications[CurrentId(store)] \in Publications
    <3>1. CurrentId(store) \in store.results /\ store.results \subseteq Published(store)
      BY <1>14 DEF OpenPage, HasCurrent, CurrentAndPreviousKept, Keeps
    <3>2. store.publications[CurrentId(store)] # None /\ CurrentId(store) \in Ids
      BY <3>1 DEF Published
    <3> QED
      BY <3>2, StoreParts
  <2> QED
    BY <1>14, <2>1 DEF OpenPage, Pages
<1>15. CASE UNCHANGED vars
  BY <1>15 DEF vars
<1> QED
  BY <1>1, <1>2, <1>3, <1>4, <1>5, <1>6, <1>7, <1>8, <1>9, <1>10, <1>11,
     <1>12, <1>13, <1>14, <1>15 DEF Next

-----------------------------------------------------------------------------
(* What a step may do to gold.db and to the sets.                           *)

\* Only these steps change the store, and a backup only adds the store itself
\* to the sets.
LEMMA StoreSteps ==
  ASSUME TypeOK, [Next]_vars
  PROVE  \/ store' = store /\ sets' = sets
         \/ store' = store /\ sets' = sets \cup {store}
         \/ /\ sets' = sets
            /\ \/ \E i \in Ids, made \in Publications :
                    i = NextId(store) /\ store' = Move(Made(store, i, made), i, "build")
               \/ /\ PreviousId(store) \in Ids
                  /\ store' = Move(store, PreviousId(store), "undo")
               \/ store' = [store EXCEPT !.results = @ \ Stale(store)]
               \/ store' = EmptyStore
               \/ store' \in sets
               \/ \E b \in Boundaries :
                    store' = [store EXCEPT !.boundaries = Append(@, b)]
<1>1. CASE Publish
  <2>1. sets' = sets
    BY <1>1 DEF Publish
  <2> QED
    BY <1>1, <2>1, PublishMakes
<1>2. CASE Undo
  <2>1. PreviousId(store) \in Ids
    BY <1>2, PointerType DEF Undo, TypeOK
  <2> QED
    BY <1>2, <2>1 DEF Undo
<1>3. CASE RecordBoundary
  <2> DEFINE b == [current |-> CurrentId(store), first |-> FirstAfterRestore(store)]
  <2>1. b \in Boundaries
    BY PointerType, FirstAfterRestoreType DEF Boundaries, TypeOK
  <2>2. store' = [store EXCEPT !.boundaries = Append(@, b)] /\ sets' = sets
    BY <1>3 DEF RecordBoundary
  <2> HIDE DEF b
  <2> QED
    BY <2>1, <2>2
<1>4. CASE Cleanup
  BY <1>4 DEF Cleanup
<1>5. CASE Lose \/ PutInPlace
  BY <1>5 DEF Lose, PutInPlace
<1>6. CASE BackUp
  BY <1>6 DEF BackUp
<1>7. CASE Plan \/ CleanupFails \/ CaughtUp \/ FinishRestore \/ Crash
             \/ ChangeInputs \/ OpenPage \/ UNCHANGED vars
  BY <1>7 DEF Plan, CleanupFails, CaughtUp, FinishRestore, Crash, ChangeInputs,
     OpenPage, vars
<1> QED
  BY <1>1, <1>2, <1>3, <1>4, <1>5, <1>6, <1>7 DEF Next

\* A new publication's result is retained beside the last current one's.
LEMMA BuildKeeps ==
  ASSUME NEW s \in Stores, Keeps(s), NEW i \in Ids, NEW made \in Publications
  PROVE  Keeps(Move(Made(s, i, made), i, "build"))
<1> DEFINE k == Made(s, i, made)
<1>1. /\ k \in Stores /\ k.publications = [s.publications EXCEPT ![i] = made]
      /\ k.results = s.results \cup {i} /\ k.moves = s.moves
  BY MadeMakes
<1> HIDE DEF k
<1>2. CurrentId(k) = CurrentId(s)
  BY <1>1 DEF CurrentId
<1>3. /\ CurrentId(Move(k, i, "build")) = i
      /\ PreviousId(Move(k, i, "build")) = CurrentId(s)
      /\ Move(k, i, "build").publications = k.publications
      /\ Move(k, i, "build").results = k.results
  BY <1>1, <1>2, MoveMoves
<1>4. k.results \subseteq Published(Move(k, i, "build"))
  <2>1. \A j \in k.results : j \in Ids /\ k.publications[j] # None
    BY <1>1, StoreParts, NoneAssumption DEF Keeps, Published
  <2> QED
    BY <1>3, <2>1 DEF Published
<1> QED
  BY <1>1, <1>3, <1>4 DEF Keeps, k

\* Undo only swaps the two.
LEMMA UndoKeeps ==
  ASSUME NEW s \in Stores, Keeps(s), PreviousId(s) \in Ids
  PROVE  Keeps(Move(s, PreviousId(s), "undo"))
<1> DEFINE u == Move(s, PreviousId(s), "undo")
<1>1. /\ CurrentId(u) = PreviousId(s) /\ PreviousId(u) = CurrentId(s)
      /\ u.publications = s.publications /\ u.results = s.results
  BY MoveMoves
<1> HIDE DEF u
<1> QED
  BY <1>1 DEF Keeps, Published, u

\* A step that leaves the pointer and the publications alone, and deletes only
\* stale results, keeps them too.
LEMMA SameEndsKeep ==
  ASSUME NEW s, NEW t, Keeps(s), t.moves = s.moves, t.publications = s.publications,
         t.results \subseteq s.results, s.results \ Stale(s) \subseteq t.results
  PROVE  Keeps(t)
BY DEF Keeps, Stale, Published, CurrentId, PreviousId

\* Every step keeps the current and the previous result, in store and sets.
LEMMA KeptNext ==
  TypeOK /\ CurrentAndPreviousKept /\ [Next]_vars => CurrentAndPreviousKept'
<1> SUFFICES ASSUME TypeOK, CurrentAndPreviousKept, [Next]_vars
             PROVE  Keeps(store') /\ \A s \in sets' : Keeps(s)
  BY DEF CurrentAndPreviousKept
<1>1. Keeps(store) /\ \A s \in sets : Keeps(s)
  BY DEF CurrentAndPreviousKept
<1>2. store \in Stores
  BY DEF TypeOK
<1>3. ASSUME NEW i \in Ids, NEW made \in Publications,
             store' = Move(Made(store, i, made), i, "build")
      PROVE  Keeps(store')
  BY <1>1, <1>2, <1>3, BuildKeeps
<1>4. ASSUME PreviousId(store) \in Ids, store' = Move(store, PreviousId(store), "undo")
      PROVE  Keeps(store')
  BY <1>1, <1>2, <1>4, UndoKeeps
<1>5. ASSUME store' = [store EXCEPT !.results = @ \ Stale(store)]
      PROVE  Keeps(store')
  <2>1. /\ store'.moves = store.moves /\ store'.publications = store.publications
        /\ store'.results = store.results \ Stale(store)
    BY <1>2, <1>5, DeletingResults
  <2> QED
    BY <1>1, <2>1, SameEndsKeep
<1>6. ASSUME store' = EmptyStore
      PROVE  Keeps(store')
  BY <1>6 DEF EmptyStore, Keeps, CurrentId, PreviousId
<1>7. ASSUME NEW b \in Boundaries,
             store' = [store EXCEPT !.boundaries = Append(@, b)]
      PROVE  Keeps(store')
  <2>1. /\ store'.moves = store.moves /\ store'.publications = store.publications
        /\ store'.results = store.results
    BY <1>2, <1>7, AddingBoundary
  <2> QED
    BY <1>1, <2>1, SameEndsKeep
<1> QED
  BY <1>1, <1>3, <1>4, <1>5, <1>6, <1>7, StoreSteps

-----------------------------------------------------------------------------
TypeInv == TypeOK /\ CurrentAndPreviousKept

\* Types and retained results hold together, each on the other's account.
LEMMA TypeInvariant == Spec => []TypeInv
<1>1. Init => TypeInv
  <2>1. Init => CurrentAndPreviousKept
    BY DEF Init, CurrentAndPreviousKept, EmptyStore, Keeps, CurrentId, PreviousId
  <2> QED
    BY <2>1, TypeInit DEF TypeInv
<1>2. TypeInv /\ [Next]_vars => TypeInv'
  BY TypeNext, KeptNext DEF TypeInv
<1> QED
  BY <1>1, <1>2, PTL DEF Spec

\* Every reachable state is well typed.
THEOREM TypeCorrect == Spec => []TypeOK
<1>1. TypeInv => TypeOK
  BY DEF TypeInv
<1> QED
  BY <1>1, TypeInvariant, PTL

\* Undo always has a result to go to and one to come back to, in the store and
\* in every backup set.
THEOREM CurrentAndPreviousKeptHolds == Spec => []CurrentAndPreviousKept
<1>1. TypeInv => CurrentAndPreviousKept
  BY DEF TypeInv
<1> QED
  BY <1>1, TypeInvariant, PTL

-----------------------------------------------------------------------------
(* The pointer history.                                                     *)

\* Every move went to a publication, so a build's id is above them all.
Reached(s) == \A i \in 1 .. Len(s.moves) : s.moves[i].to \in Published(s)

HistoryInv == \A s \in sets \cup {store} : Sound(s) /\ Reached(s)

\* Appending a move to a sound history keeps it sound, when the move goes
\* where its cause says.
LEMMA AppendKeepsSound ==
  ASSUME NEW s \in Stores, NEW t \in Stores, NEW to \in Ids,
         NEW cause \in {"build", "undo"},
         t.moves = Append(s.moves, [from |-> CurrentId(s), to |-> to, cause |-> cause]),
         Sound(s), Reached(s),
         Published(s) \subseteq Published(t), to \in Published(t),
         cause = "undo" => s.moves # << >> /\ to = PreviousId(s),
         cause = "build" => \A j \in Published(s) : j < to
  PROVE  Sound(t) /\ Reached(t)
<1> DEFINE m == s.moves
           n == Len(m)
           e == [from |-> CurrentId(s), to |-> to, cause |-> cause]
<1>1. m \in Seq(Moves) /\ n \in Nat
  BY StoreParts, LenProperties
<1>2. e \in Moves
  BY PointerType DEF Moves
<1>3. e.from = CurrentId(s) /\ e.to = to /\ e.cause = cause
  OBVIOUS
<1> HIDE DEF e
<1>4. /\ Len(t.moves) = n + 1 /\ t.moves[n + 1] = e
      /\ \A i \in 1 .. n : t.moves[i] = m[i]
  BY <1>1, <1>2, AppendProperties DEF e
<1>5. n # 0 => CurrentId(s) = m[n].to /\ PreviousId(s) = m[n].from
  BY <1>1, EmptySeq DEF CurrentId, PreviousId, Last
<1>6. n = 0 => CurrentId(s) = None /\ m = << >>
  BY <1>1, EmptySeq DEF CurrentId
<1>7. Reached(t)
  BY <1>1, <1>3, <1>4 DEF Reached
<1>8. t.moves # << >> => t.moves[1].from = None
  <2>1. CASE n = 0
    BY <1>3, <1>4, <1>6, <2>1
  <2>2. CASE n # 0
    <3>1. m # << >> /\ 1 \in 1 .. n
      BY <1>1, <2>2, EmptySeq
    <3> QED
      BY <1>4, <3>1 DEF Sound
  <2> QED
    BY <2>1, <2>2
<1>9. ASSUME NEW i \in 2 .. n + 1
      PROVE  /\ t.moves[i].from = t.moves[i - 1].to
             /\ t.moves[i].cause = "undo" => t.moves[i].to = t.moves[i - 1].from
             /\ t.moves[i].cause = "build" =>
                  \A j \in 1 .. i - 1 : t.moves[j].to < t.moves[i].to
  <2>1. CASE i = n + 1
    <3>1. n # 0 /\ i - 1 = n /\ n \in 1 .. n
      BY <1>1, <2>1
    <3>2. t.moves[i] = e /\ t.moves[i - 1] = m[n]
      BY <1>4, <2>1, <3>1
    <3>3. \A j \in 1 .. n : t.moves[j].to \in Published(s)
      BY <1>4 DEF Reached
    <3> QED
      BY <1>3, <1>5, <3>1, <3>2, <3>3
  <2>2. CASE i # n + 1
    <3>1. i \in 2 .. n /\ i \in 1 .. n /\ i - 1 \in 1 .. n
      BY <1>1, <2>2
    <3>2. \A j \in 1 .. i - 1 : j \in 1 .. n
      BY <1>1, <3>1
    <3>3. /\ m[i].from = m[i - 1].to
          /\ m[i].cause = "undo" => m[i].to = m[i - 1].from
          /\ m[i].cause = "build" => \A j \in 1 .. i - 1 : m[j].to < m[i].to
      BY <3>1 DEF Sound
    <3> QED
      BY <1>4, <3>1, <3>2, <3>3
  <2> QED
    BY <2>1, <2>2
<1> QED
  BY <1>4, <1>7, <1>8, <1>9 DEF Sound

\* A store with the same moves and publications has as sound a history.
LEMMA SameHistory ==
  ASSUME NEW s, NEW t, Sound(s), Reached(s),
         t.moves = s.moves, t.publications = s.publications
  PROVE  Sound(t) /\ Reached(t)
BY DEF Sound, Reached, Published

\* Every step keeps the histories sound.
LEMMA HistoryNext == TypeInv /\ HistoryInv /\ [Next]_vars => HistoryInv'
<1> SUFFICES ASSUME TypeInv, HistoryInv, [Next]_vars
             PROVE  /\ Sound(store') /\ Reached(store')
                    /\ \A s \in sets' : Sound(s) /\ Reached(s)
  BY DEF HistoryInv
<1>1. /\ Sound(store) /\ Reached(store)
      /\ \A s \in sets : Sound(s) /\ Reached(s)
  BY DEF HistoryInv
<1>2. TypeOK /\ store \in Stores
  BY DEF TypeInv, TypeOK
<1>3. ASSUME NEW i \in Ids, NEW made \in Publications, i = NextId(store),
             store' = Move(Made(store, i, made), i, "build")
      PROVE  Sound(store') /\ Reached(store')
  <2> DEFINE k == Made(store, i, made)
  <2>1. /\ k \in Stores /\ k.moves = store.moves
        /\ k.publications = [store.publications EXCEPT ![i] = made]
    BY <1>2, MadeMakes
  <2>2. CurrentId(k) = CurrentId(store)
    BY <2>1 DEF CurrentId
  <2>3. Published(store) \subseteq Published(k) /\ i \in Published(k)
    BY <1>2, <2>1, StoreParts, NoneAssumption DEF Published
  <2> HIDE DEF k
  <2>4. store' \in Stores /\ store'.publications = k.publications
    BY <1>3, <2>1, MoveMoves DEF k
  <2>5. store'.moves = Append(store.moves, [from |-> CurrentId(store), to |-> i,
                                            cause |-> "build"])
    BY <1>3, <2>1, <2>2 DEF Move, Stores, k
  <2>6. Published(store) \subseteq Published(store') /\ i \in Published(store')
    BY <2>3, <2>4 DEF Published
  <2>7. \A j \in Published(store) : j < i
    BY <1>2, <1>3, NextIdIsAbove
  <2> QED
    BY <1>1, <1>2, <2>4, <2>5, <2>6, <2>7, AppendKeepsSound
<1>4. ASSUME PreviousId(store) \in Ids, store' = Move(store, PreviousId(store), "undo")
      PROVE  Sound(store') /\ Reached(store')
  <2>1. store' \in Stores /\ store'.publications = store.publications
    BY <1>2, <1>4, MoveMoves
  <2>2. store'.moves = Append(store.moves, [from |-> CurrentId(store),
                                to |-> PreviousId(store), cause |-> "undo"])
    BY <1>2, <1>4 DEF Move, Stores
  <2>3. store.moves # << >>
    BY <1>4, NoneAssumption DEF PreviousId
  <2>4. PreviousId(store) \in Published(store)
    BY <1>4, NoneAssumption DEF TypeInv, CurrentAndPreviousKept, Keeps
  <2>5. Published(store') = Published(store)
    BY <2>1 DEF Published
  <2> QED
    BY <1>1, <1>2, <1>4, <2>1, <2>2, <2>3, <2>4, <2>5, AppendKeepsSound
<1>5. ASSUME store' = [store EXCEPT !.results = @ \ Stale(store)]
      PROVE  Sound(store') /\ Reached(store')
  <2>1. store'.moves = store.moves /\ store'.publications = store.publications
    BY <1>2, <1>5, DeletingResults
  <2> QED
    BY <1>1, <2>1, SameHistory
<1>6. ASSUME store' = EmptyStore
      PROVE  Sound(store') /\ Reached(store')
  BY <1>6, EmptySeq DEF EmptyStore, Sound, Reached
<1>7. ASSUME NEW b \in Boundaries,
             store' = [store EXCEPT !.boundaries = Append(@, b)]
      PROVE  Sound(store') /\ Reached(store')
  BY <1>1, <1>2, <1>7, AddingBoundary, SameHistory
<1> QED
  BY <1>1, <1>2, <1>3, <1>4, <1>5, <1>6, <1>7, StoreSteps

\* The pointer history reads as one story, in the store and in every set.
THEOREM HistoryIsSoundHolds == Spec => []HistoryIsSound
<1>1. Init => HistoryInv
  BY EmptySeq DEF Init, HistoryInv, EmptyStore, Sound, Reached
<1>2. HistoryInv => HistoryIsSound
  BY DEF HistoryInv, HistoryIsSound
<1> QED
  BY <1>1, <1>2, HistoryNext, TypeInvariant, PTL DEF Spec

-----------------------------------------------------------------------------
(* The plan, and the page.                                                  *)

\* While a restore is not building, no build is planned.
PlanInv ==
  /\ PlanStaysNext
  /\ recovery \in {"lost", "placed", "built"} => phase = "idle"

\* No step between a plan and its publication takes the id planned for.
LEMMA PlanNext == TypeOK /\ PlanInv /\ [Next]_vars => PlanInv'
<1> SUFFICES ASSUME TypeOK, PlanInv, [Next]_vars PROVE PlanInv'
  OBVIOUS
<1> USE DEF PlanInv, PlanStaysNext
<1>1. CASE Plan
  <2>1. plan'.id = NextId(store) /\ store' = store
    BY <1>1 DEF Plan
  <2> QED
    BY <1>1, <2>1 DEF Plan
<1>2. CASE Publish \/ Undo \/ Cleanup \/ CleanupFails
  BY <1>2 DEF Publish, Undo, Cleanup, CleanupFails, TypeOK
<1>3. CASE BackUp \/ Lose \/ PutInPlace \/ RecordBoundary \/ CaughtUp \/ FinishRestore
  BY <1>3 DEF BackUp, Lose, PutInPlace, RecordBoundary, CaughtUp, FinishRestore
<1>4. CASE Crash
  BY <1>4 DEF Crash
<1>5. CASE ChangeInputs \/ OpenPage \/ UNCHANGED vars
  BY <1>5 DEF ChangeInputs, OpenPage, vars
<1> QED
  BY <1>1, <1>2, <1>3, <1>4, <1>5 DEF Next

\* The id a build was planned for is still the next one when it is published.
THEOREM PlanStaysNextHolds == Spec => []PlanStaysNext
<1>1. Init => PlanInv
  BY DEF Init, PlanInv, PlanStaysNext
<1>2. TypeInv => TypeOK
  BY DEF TypeInv
<1>3. PlanInv => PlanStaysNext
  BY DEF PlanInv
<1> QED
  BY <1>1, <1>2, <1>3, PlanNext, TypeInvariant, PTL DEF Spec

\* Where a page's publication is while the pointer moved at most once.
PageInv ==
  page # None =>
    /\ page.moved = 0 => page.id = CurrentId(store)
    /\ page.moved = 1 => page.id \in {CurrentId(store), PreviousId(store)}

\* Every step keeps track of where a page's publication is.
LEMMA PageNext == TypeOK /\ PageInv /\ [Next]_vars => PageInv'
<1> SUFFICES ASSUME TypeOK, PageInv, [Next]_vars PROVE PageInv'
  OBVIOUS
<1>1. store \in Stores
  BY DEF TypeOK
<1>2. ASSUME store'.moves = store.moves, page' = page
      PROVE  PageInv'
  BY <1>2 DEF PageInv, CurrentId, PreviousId
<1>3. ASSUME PreviousId(store') = CurrentId(store), Outdated(1)
      PROVE  PageInv'
  BY <1>3, OutdatedPage DEF PageInv
<1>4. ASSUME Outdated(2)
      PROVE  PageInv'
  BY <1>4, OutdatedPage DEF PageInv
<1>5. CASE Publish
  <2>1. PICK i \in Ids, made \in Publications :
          store' = Move(Made(store, i, made), i, "build")
    BY <1>5, PublishMakes
  <2>2. Made(store, i, made) \in Stores /\ Made(store, i, made).moves = store.moves
    BY <1>1, MadeMakes
  <2>3. PreviousId(store') = CurrentId(Made(store, i, made))
    BY <2>1, <2>2, MoveMoves
  <2>4. CurrentId(Made(store, i, made)) = CurrentId(store)
    BY <2>2 DEF CurrentId
  <2> QED
    BY <1>3, <1>5, <2>3, <2>4 DEF Publish
<1>6. CASE Undo
  <2>1. PreviousId(store) \in Ids
    BY <1>1, <1>6, PointerType DEF Undo
  <2>2. PreviousId(store') = CurrentId(store)
    BY <1>1, <1>6, <2>1, MoveMoves DEF Undo
  <2> QED
    BY <1>3, <1>6, <2>2 DEF Undo
<1>7. CASE Cleanup
  BY <1>1, <1>2, <1>7, DeletingResults DEF Cleanup
<1>8. CASE Lose \/ PutInPlace
  BY <1>4, <1>8 DEF Lose, PutInPlace
<1>9. CASE RecordBoundary
  <2>1. store'.moves = store.moves
    BY <1>1, <1>9 DEF RecordBoundary, Stores
  <2> QED
    BY <1>2, <1>9, <2>1 DEF RecordBoundary
<1>10. CASE OpenPage
  BY <1>10 DEF OpenPage, PageInv
<1>11. CASE Plan \/ CleanupFails \/ BackUp \/ CaughtUp \/ FinishRestore \/ Crash
              \/ ChangeInputs \/ UNCHANGED vars
  BY <1>2, <1>11 DEF Plan, CleanupFails, BackUp, CaughtUp, FinishRestore, Crash,
     ChangeInputs, vars
<1> QED
  BY <1>5, <1>6, <1>7, <1>8, <1>9, <1>10, <1>11 DEF Next

\* A page can be read for at least one move of the pointer after it was opened.
THEOREM PageSurvivesOneMoveHolds == Spec => []PageSurvivesOneMove
<1>1. Init => PageInv
  BY DEF Init, PageInv
<1>2. TypeInv /\ PageInv => PageSurvivesOneMove
  <2> SUFFICES ASSUME TypeInv, PageInv, page # None, page.moved < 2
               PROVE  page.id \in store.results
    BY DEF PageSurvivesOneMove
  <2>1. page \in Pages
    BY DEF TypeInv, TypeOK
  <2>2. page.id # None /\ page.moved \in {0, 1}
    BY <2>1, NoneAssumption DEF Pages
  <2>3. page.id \in {CurrentId(store), PreviousId(store)} \ {None}
    BY <2>2 DEF PageInv
  <2> QED
    BY <2>3 DEF TypeInv, CurrentAndPreviousKept, Keeps
<1>3. TypeInv => TypeOK
  BY DEF TypeInv
<1> QED
  BY <1>1, <1>2, <1>3, PageNext, TypeInvariant, PTL DEF Spec

-----------------------------------------------------------------------------
(* The store implements the history its readers are promised.               *)

\* Stores with the same moves, publications and results have one history.
LEMMA SamePartsSameHistory ==
  ASSUME NEW s, NEW t, t.moves = s.moves, t.publications = s.publications,
         t.results = s.results
  PROVE  CurrentId(t) = CurrentId(s) /\ PreviousId(t) = PreviousId(s)
         /\ ContentOf(t) = ContentOf(s)
BY DEF CurrentId, PreviousId, ContentOf

\* The empty store is the empty history.
LEMMA HistoryInit == Init => History!Init
BY DEF Init, History!Init, EmptyStore, CurrentId, PreviousId, ContentOf

\* Every step of the store is a step of the history, or none.
LEMMA HistoryStep ==
  TypeInv /\ [Next]_vars => [History!Next]_(History!vars)
<1> SUFFICES ASSUME TypeInv, [Next]_vars
             PROVE  History!Next \/ UNCHANGED History!vars
  OBVIOUS
<1>1. TypeOK /\ store \in Stores /\ Keeps(store)
  BY DEF TypeInv, TypeOK, CurrentAndPreviousKept
<1>2. CASE store' = store /\ sets' = sets
  BY <1>2 DEF History!vars
<1>3. CASE store' = store /\ sets' = sets \cup {store}
  <2>1. {HistoryOf(s) : s \in sets'} = {HistoryOf(s) : s \in sets} \cup {HistoryOf(store)}
    BY <1>3
  <2>2. History!Save
    BY <1>3, <2>1 DEF History!Save, History!History, HistoryOf
  <2> QED
    BY <2>2 DEF History!Next
<1>4. ASSUME sets' = sets
      PROVE  {HistoryOf(s) : s \in sets'} = {HistoryOf(s) : s \in sets}
  BY <1>4
<1>5. ASSUME sets' = sets,
             NEW i \in Ids, NEW made \in Publications, i = NextId(store),
             store' = Move(Made(store, i, made), i, "build")
      PROVE  History!Next
  <2> DEFINE k == Made(store, i, made)
  <2>1. /\ k \in Stores /\ k.moves = store.moves
        /\ k.publications = [store.publications EXCEPT ![i] = made]
        /\ k.results = store.results \cup {i}
    BY <1>1, MadeMakes
  <2>2. CurrentId(k) = CurrentId(store)
    BY <2>1 DEF CurrentId
  <2> HIDE DEF k
  <2>3. /\ CurrentId(store') = i /\ PreviousId(store') = CurrentId(store)
        /\ store'.publications = k.publications /\ store'.results = k.results
    BY <1>5, <2>1, <2>2, MoveMoves DEF k
  <2>4. i \notin store.results
    <3>1. i \notin Published(store)
      <4>1. \A j \in Published(store) : j \in Nat /\ j < i
        BY <1>1, <1>5, NextIdIsAbove, IdsAssumption DEF Published
      <4> QED
        BY <4>1
    <3> QED
      BY <1>1, <3>1 DEF Keeps
  <2>5. ContentOf(store') =
          [j \in store.results \cup {i} |->
             IF j = i THEN made ELSE ContentOf(store)[j]]
    <3>1. \A j \in store.results : j \in Ids /\ j # i
      BY <1>1, <2>4, StoreParts
    <3>2. \A j \in store.results \cup {i} :
            store'.publications[j] = IF j = i THEN made ELSE ContentOf(store)[j]
      BY <1>1, <2>1, <2>3, <3>1, StoreParts DEF ContentOf
    <3> QED
      BY <2>1, <2>3, <3>2 DEF ContentOf
  <2>6. DOMAIN ContentOf(store) = store.results
    BY DEF ContentOf
  <2>7. History!Build(i, made)
    BY <1>4, <1>5, <2>3, <2>4, <2>5, <2>6 DEF History!Build, History!Readable
  <2> QED
    BY <2>7 DEF History!Next
<1>6. ASSUME sets' = sets, PreviousId(store) \in Ids,
             store' = Move(store, PreviousId(store), "undo")
      PROVE  History!Next
  <2>1. /\ CurrentId(store') = PreviousId(store) /\ PreviousId(store') = CurrentId(store)
        /\ store'.publications = store.publications /\ store'.results = store.results
    BY <1>1, <1>6, MoveMoves
  <2>2. ContentOf(store') = ContentOf(store)
    BY <2>1 DEF ContentOf
  <2>3. History!Undo
    BY <1>4, <1>6, <2>1, <2>2, NoneAssumption DEF History!Undo
  <2> QED
    BY <2>3 DEF History!Next
<1>7. ASSUME sets' = sets, store' = [store EXCEPT !.results = @ \ Stale(store)]
      PROVE  History!Next
  <2>1. /\ store'.moves = store.moves /\ store'.publications = store.publications
        /\ store'.results = store.results \ Stale(store)
    BY <1>1, <1>7, DeletingResults
  <2>2. CurrentId(store') = CurrentId(store) /\ PreviousId(store') = PreviousId(store)
    BY <2>1 DEF CurrentId, PreviousId
  <2>3. /\ store'.results \in SUBSET store.results
        /\ {CurrentId(store), PreviousId(store)} \ {None} \subseteq store'.results
    BY <1>1, <2>1 DEF Keeps, Stale
  <2>4. ContentOf(store') = [j \in store'.results |-> ContentOf(store)[j]]
    BY <2>1, <2>3 DEF ContentOf
  <2>5. DOMAIN ContentOf(store) = store.results
    BY DEF ContentOf
  <2>6. History!Forget
    BY <1>4, <1>7, <2>2, <2>3, <2>4, <2>5 DEF History!Forget, History!Readable
  <2> QED
    BY <2>6 DEF History!Next
<1>8. ASSUME sets' = sets, store' = EmptyStore
      PROVE  History!Next
  <2>1. CurrentId(store') = None /\ PreviousId(store') = None
    BY <1>8 DEF EmptyStore, CurrentId, PreviousId
  <2>2. ContentOf(store') = [j \in {} |-> None]
    BY <1>8 DEF EmptyStore, ContentOf
  <2>3. History!Lose
    BY <1>4, <1>8, <2>1, <2>2 DEF History!Lose
  <2> QED
    BY <2>3 DEF History!Next
<1>9. ASSUME sets' = sets, store' \in sets
      PROVE  History!Next
  <2>1. HistoryOf(store') \in {HistoryOf(s) : s \in sets}
    BY <1>9
  <2>2. History!Restore(HistoryOf(store'))
    BY <1>4, <1>9, <2>1 DEF History!Restore, HistoryOf
  <2> QED
    BY <2>1, <2>2 DEF History!Next
<1>10. ASSUME sets' = sets, NEW b \in Boundaries,
              store' = [store EXCEPT !.boundaries = Append(@, b)]
       PROVE  UNCHANGED History!vars
  <2>1. /\ store'.moves = store.moves /\ store'.publications = store.publications
        /\ store'.results = store.results
    BY <1>1, <1>10, AddingBoundary
  <2>2. /\ CurrentId(store') = CurrentId(store) /\ PreviousId(store') = PreviousId(store)
        /\ ContentOf(store') = ContentOf(store)
    BY <2>1, SamePartsSameHistory
  <2> QED
    BY <1>4, <1>10, <2>2 DEF History!vars
<1> QED
  BY <1>1, <1>2, <1>3, <1>5, <1>6, <1>7, <1>8, <1>9, <1>10, StoreSteps

\* gold.db, built, undone, cleaned up, backed up, lost and restored, is the
\* publication history the documentation promises.
THEOREM StoreKeepsHistory == Spec => KeepsHistory
BY HistoryInit, HistoryStep, TypeInvariant, PTL DEF Spec, KeepsHistory, History!Spec

-----------------------------------------------------------------------------
(* Leftovers, the catch-up build, and a page across a restore.              *)

\* The results that are neither current nor previous are the stale ones.  A
\* set was taken while no cleanup was due, so its leftovers all have a failure.
LeftoverInv ==
  /\ LeftoversHaveACause
  /\ \A s \in sets : Cardinality(Stale(s)) <= spent.failures

\* Once the boundary is recorded, the pointer is where the set had it until
\* the catch-up build moves it; then the previous publication is.
CatchUpInv ==
  /\ recovery \in {"bounded", "built"} => store.boundaries # << >>
  /\ recovery = "bounded" /\ phase # "cleanup" =>
       /\ CurrentId(store) = Last(store.boundaries).current
       /\ \A i \in Published(store) : i < Last(store.boundaries).first
  /\ recovery = "bounded" /\ phase = "cleanup" =>
       PreviousId(store) = Last(store.boundaries).current
  /\ CatchUpUndoReturns

\* Before the first restore ids count the builds, and what a page shows is in
\* every store and set that holds its id.
BeforeRestore ==
  spent.restores = 0 =>
    /\ recovery \in {"none", "lost"}
    /\ store.boundaries = << >>
    /\ \A i \in Published(store) : i <= spent.builds
    /\ recovery = "lost" => Published(store) = {}
    /\ recovery = "none" => \A s \in sets : \A i \in Ids :
         s.publications[i] \in {None, store.publications[i]}
    /\ page # None =>
         /\ page.id <= spent.builds
         /\ recovery = "none" => store.publications[page.id] = page.publication
         /\ \A s \in sets : s.publications[page.id] \in {None, page.publication}

\* After it the ids a page may have written down are used or below the boundary.
AfterRestore ==
  spent.restores = 1 /\ recovery # "lost" =>
    /\ recovery # "placed" =>
         store.boundaries # << >> /\ Last(store.boundaries).first >= IdStep
    /\ page # None => page.id \in Published(store) \/ page.id < IdStep

MixInv ==
  /\ spent.builds <= MaxBuilds
  /\ BeforeRestore
  /\ AfterRestore
  /\ PageNeverMixes

\* The first id after a restore is above every id of the store, and no lower
\* than the step.
LEMMA FirstAfterRestoreIsAbove ==
  ASSUME NEW s \in Stores
  PROVE  /\ FirstAfterRestore(s) >= IdStep
         /\ \A i \in Published(s) : i < FirstAfterRestore(s)
<1> DEFINE q == Highest(s) \div IdStep
           r == Highest(s) % IdStep
<1>1. Highest(s) \in Nat /\ IdStep \in Nat \ {0}
  BY HighestIsGreatest, BoundsAssumption
<1>2. q \in Nat /\ r \in 0 .. IdStep - 1 /\ Highest(s) = IdStep * q + r
  BY <1>1
<1>3. FirstAfterRestore(s) = (q + 1) * IdStep
  BY DEF FirstAfterRestore
<1> HIDE DEF q, r
<1>4. IdStep * q \in Nat /\ (q + 1) * IdStep = IdStep * q + IdStep
  BY <1>1, <1>2
<1>5. (q + 1) * IdStep >= IdStep /\ Highest(s) < (q + 1) * IdStep
  BY <1>1, <1>2, <1>4
<1>6. ASSUME NEW i \in Published(s) PROVE i < FirstAfterRestore(s)
  <2>1. i \in Nat /\ i <= Highest(s)
    BY HighestIsGreatest, IdsAssumption DEF Published
  <2> QED
    BY <1>1, <1>2, <1>3, <1>4, <1>5, <2>1
<1> QED
  BY <1>3, <1>5, <1>6

\* The stale results of a store are finitely many.
LEMMA StaleIsFinite ==
  ASSUME NEW s \in Stores
  PROVE  IsFiniteSet(Stale(s)) /\ Cardinality(Stale(s)) \in Nat
<1>1. Stale(s) \in SUBSET Ids
  BY StoreParts DEF Stale
<1> QED
  BY <1>1, IdsAssumption, FS_Subset, FS_CardinalityType

\* Every step accounts for the stale results it leaves.
LEMMA LeftoverNext == TypeInv /\ LeftoverInv /\ [Next]_vars => LeftoverInv'
<1> SUFFICES ASSUME TypeInv, LeftoverInv, [Next]_vars PROVE LeftoverInv'
  OBVIOUS
<1>1. TypeOK /\ store \in Stores /\ spent.failures \in Nat /\ sets \subseteq Stores
  BY DEF TypeInv, TypeOK
<1>2. /\ \A s \in sets : Cardinality(Stale(s)) <= spent.failures
      /\ Cardinality(Stale(store)) <= spent.failures + (IF phase = "cleanup" THEN 1 ELSE 0)
  BY DEF LeftoverInv, LeftoversHaveACause, Stale
<1>3. SUFFICES
        /\ Cardinality(Stale(store')) <=
             spent'.failures + (IF phase' = "cleanup" THEN 1 ELSE 0)
        /\ \A s \in sets' : Cardinality(Stale(s)) <= spent'.failures
  BY DEF LeftoverInv, LeftoversHaveACause, Stale
<1>4. /\ Cardinality(Stale(store)) \in Nat
      /\ \A s \in sets : Cardinality(Stale(s)) \in Nat
  BY <1>1, StaleIsFinite
<1>5. spent' = spent \/ spent'.failures \in {spent.failures, spent.failures + 1}
  BY <1>1 DEF TypeOK, Next, Plan, Publish, Undo, Cleanup, CleanupFails, BackUp, Lose,
     PutInPlace, RecordBoundary, CaughtUp, FinishRestore, Crash, ChangeInputs, OpenPage,
     vars, Spend
<1>6. ASSUME sets' = sets PROVE \A s \in sets' : Cardinality(Stale(s)) <= spent'.failures
  BY <1>1, <1>2, <1>4, <1>5, <1>6
\* A build leaves one more: the publication that was previous.
<1>7. CASE Publish
  <2>1. PICK i \in Ids, made \in Publications :
          store' = Move(Made(store, i, made), i, "build")
    BY <1>1, <1>7, PublishMakes
  <2> DEFINE k == Made(store, i, made)
  <2>2. k \in Stores /\ k.moves = store.moves /\ k.results = store.results \cup {i}
    BY <1>1, MadeMakes
  <2>3. CurrentId(k) = CurrentId(store)
    BY <2>2 DEF CurrentId
  <2> HIDE DEF k
  <2>4. /\ CurrentId(store') = i /\ PreviousId(store') = CurrentId(store)
        /\ store'.results = store.results \cup {i} /\ store' \in Stores
    BY <2>1, <2>2, <2>3, MoveMoves DEF k
  <2>5. Stale(store') \subseteq Stale(store) \cup {PreviousId(store)}
    BY <2>4 DEF Stale
  <2>6. IsFiniteSet(Stale(store) \cup {PreviousId(store)})
        /\ Cardinality(Stale(store) \cup {PreviousId(store)}) <= Cardinality(Stale(store)) + 1
    <3>1. IsFiniteSet(Stale(store))
      BY <1>1, StaleIsFinite
    <3>2. /\ IsFiniteSet(Stale(store) \cup {PreviousId(store)})
          /\ \/ Cardinality(Stale(store) \cup {PreviousId(store)}) = Cardinality(Stale(store))
             \/ Cardinality(Stale(store) \cup {PreviousId(store)}) = Cardinality(Stale(store)) + 1
      BY <3>1, FS_AddElement
    <3> QED
      BY <1>4, <3>2
  <2>7. Cardinality(Stale(store')) \in Nat
        /\ Cardinality(Stale(store')) <= Cardinality(Stale(store) \cup {PreviousId(store)})
    BY <2>4, <2>5, <2>6, FS_Subset, StaleIsFinite
  <2>8. Cardinality(Stale(store) \cup {PreviousId(store)}) \in Nat
    BY <2>6, FS_CardinalityType
  <2>9. spent'.failures = spent.failures /\ phase = "planned" /\ phase' = "cleanup"
        /\ sets' = sets
    BY <1>1, <1>7 DEF Publish, Spend, TypeOK
  <2> QED
    BY <1>1, <1>2, <1>4, <1>6, <2>6, <2>7, <2>8, <2>9
\* An undo swaps the two ends, and leaves what was left.
<1>8. CASE Undo
  <2>1. PreviousId(store) \in Ids
    BY <1>1, <1>8, PointerType DEF Undo
  <2>2. /\ CurrentId(store') = PreviousId(store) /\ PreviousId(store') = CurrentId(store)
        /\ store'.results = store.results
    BY <1>1, <1>8, <2>1, MoveMoves DEF Undo
  <2>3. Stale(store') = Stale(store)
    BY <2>2 DEF Stale
  <2>4. spent' = spent /\ sets' = sets /\ phase = "idle" /\ phase' = "cleanup"
    BY <1>8 DEF Undo
  <2> QED
    BY <1>1, <1>2, <1>4, <1>6, <2>3, <2>4
<1>9. ASSUME Stale(store') = {}
      PROVE  Cardinality(Stale(store')) = 0
  BY <1>9, FS_EmptySet
<1>10. CASE Cleanup
  <2>1. /\ store'.moves = store.moves /\ store'.results = store.results \ Stale(store)
    BY <1>1, <1>10, DeletingResults DEF Cleanup
  <2>2. Stale(store') = {}
    BY <2>1 DEF Stale, CurrentId, PreviousId
  <2>3. spent' = spent /\ sets' = sets /\ phase' = "idle"
    BY <1>10 DEF Cleanup
  <2> QED
    BY <1>1, <1>6, <1>9, <2>2, <2>3
<1>11. CASE Lose
  <2>1. Stale(store') = {}
    BY <1>11 DEF Lose, EmptyStore, Stale
  <2>2. spent' = spent /\ sets' = sets
    BY <1>11 DEF Lose
  <2> QED
    BY <1>1, <1>6, <1>9, <2>1, <2>2
<1>12. CASE CleanupFails \/ Crash
  <2>1. store' = store /\ sets' = sets /\ spent'.failures = spent.failures + 1
    BY <1>1, <1>12 DEF CleanupFails, Crash, Spend, TypeOK
  <2> QED
    BY <1>1, <1>2, <1>4, <1>6, <2>1
<1>13. CASE PutInPlace
  <2>1. store' \in sets /\ sets' = sets /\ spent'.failures = spent.failures
    BY <1>1, <1>13 DEF PutInPlace, Spend, TypeOK
  <2> QED
    BY <1>1, <1>2, <1>4, <1>6, <2>1
<1>14. CASE RecordBoundary
  <2>1. /\ store'.moves = store.moves /\ store'.results = store.results
        /\ sets' = sets /\ spent' = spent /\ phase' = phase
    BY <1>1, <1>14 DEF RecordBoundary, Stores
  <2>2. Stale(store') = Stale(store)
    BY <2>1 DEF Stale, CurrentId, PreviousId
  <2> QED
    BY <1>1, <1>2, <1>6, <2>1, <2>2
<1>15. CASE BackUp
  <2>1. /\ store' = store /\ spent' = spent /\ phase = "idle" /\ phase' = "idle"
        /\ sets' = sets \cup {store}
    BY <1>15 DEF BackUp
  <2> QED
    BY <1>1, <1>2, <2>1
<1>16. CASE Plan \/ CaughtUp \/ FinishRestore \/ ChangeInputs \/ OpenPage \/ UNCHANGED vars
  <2>1. /\ store' = store /\ sets' = sets /\ spent' = spent
        /\ phase = "cleanup" => phase' = "cleanup"
    BY <1>16 DEF Plan, CaughtUp, FinishRestore, ChangeInputs, OpenPage, vars
  <2> QED
    BY <1>1, <1>2, <1>4, <1>6, <2>1
<1> QED
  BY <1>7, <1>8, <1>10, <1>11, <1>12, <1>13, <1>14, <1>15, <1>16 DEF Next

\* A result that is neither current nor previous always has a cause.
THEOREM LeftoversHaveACauseHolds == Spec => []LeftoversHaveACause
<1>1. Init => LeftoverInv
  <2> SUFFICES ASSUME Init PROVE LeftoverInv
    OBVIOUS
  <2>1. store.results \ {CurrentId(store), PreviousId(store)} = {}
    BY DEF Init, EmptyStore
  <2>2. Cardinality(store.results \ {CurrentId(store), PreviousId(store)}) = 0
    BY <2>1, FS_EmptySet
  <2> QED
    BY <2>2 DEF Init, LeftoverInv, LeftoversHaveACause
<1>2. LeftoverInv => LeftoversHaveACause
  BY DEF LeftoverInv
<1> QED
  BY <1>1, <1>2, LeftoverNext, TypeInvariant, PTL DEF Spec

\* What recording the boundary leaves at the end of the boundaries.
LEMMA BoundaryRecorded ==
  ASSUME TypeOK, RecordBoundary
  PROVE  /\ store' \in Stores
         /\ store'.moves = store.moves /\ store'.publications = store.publications
         /\ store'.boundaries # << >>
         /\ Last(store'.boundaries).current = CurrentId(store)
         /\ Last(store'.boundaries).first = FirstAfterRestore(store)
<1> DEFINE b == [current |-> CurrentId(store), first |-> FirstAfterRestore(store)]
<1>1. store \in Stores
  BY DEF TypeOK
<1>2. b \in Boundaries /\ b.current = CurrentId(store) /\ b.first = FirstAfterRestore(store)
  BY <1>1, PointerType, FirstAfterRestoreType DEF Boundaries
<1>3. store' = [store EXCEPT !.boundaries = Append(@, b)]
  BY DEF RecordBoundary
<1> HIDE DEF b
<1>4. /\ store' \in Stores
      /\ store'.moves = store.moves /\ store'.publications = store.publications
  BY <1>1, <1>2, <1>3, AddingBoundary
<1>5. store'.boundaries = Append(store.boundaries, b)
  BY <1>1, <1>3 DEF Stores
<1>6. /\ Append(store.boundaries, b) # << >>
      /\ Last(Append(store.boundaries, b)) = b
  BY <1>1, <1>2, StoreParts, LastAppended
<1> QED
  BY <1>2, <1>4, <1>5, <1>6

\* What a build leaves: its publication, the pointer on it, nothing else.
LEMMA PublishLeaves ==
  ASSUME TypeOK, Publish
  PROVE  \E i \in Ids, made \in Publications :
           /\ i = NextId(store)
           /\ store'.publications = [store.publications EXCEPT ![i] = made]
           /\ store'.boundaries = store.boundaries
           /\ CurrentId(store') = i /\ PreviousId(store') = CurrentId(store)
           /\ Published(store') = Published(store) \cup {i}
<1>1. store \in Stores
  BY DEF TypeOK
<1>2. PICK i \in Ids, made \in Publications :
        i = NextId(store) /\ store' = Move(Made(store, i, made), i, "build")
  BY PublishMakes
<1> DEFINE k == Made(store, i, made)
<1>3. /\ k \in Stores /\ k.moves = store.moves
      /\ k.publications = [store.publications EXCEPT ![i] = made]
  BY <1>1, MadeMakes
<1>4. k.boundaries = store.boundaries
  BY <1>1 DEF Made, Stores
<1>5. CurrentId(k) = CurrentId(store)
  BY <1>3 DEF CurrentId
<1> HIDE DEF k
<1>6. /\ CurrentId(store') = i /\ PreviousId(store') = CurrentId(store)
      /\ store'.publications = k.publications
  BY <1>2, <1>3, <1>5, MoveMoves DEF k
<1>7. store'.boundaries = k.boundaries
  BY <1>2, <1>3 DEF Move, Stores, k
<1>8. Published(store') = Published(store) \cup {i}
  BY <1>1, <1>3, <1>6, StoreParts, NoneAssumption DEF Published
<1> QED
  BY <1>2, <1>3, <1>4, <1>6, <1>7, <1>8

\* A cleanup leaves all but the results.
LEMMA Cleaned ==
  ASSUME TypeOK, Cleanup
  PROVE  /\ store'.moves = store.moves /\ store'.publications = store.publications
         /\ store'.boundaries = store.boundaries
BY DEF TypeOK, Cleanup, Stores

\* The catch-up build moves the pointer once, from where the boundary names.
LEMMA CatchUpNext == TypeInv /\ PlanInv /\ CatchUpInv /\ [Next]_vars => CatchUpInv'
<1> SUFFICES ASSUME TypeInv, PlanInv, CatchUpInv, [Next]_vars PROVE CatchUpInv'
  OBVIOUS
<1> USE DEF CatchUpInv, CatchUpUndoReturns
<1>1. TypeOK /\ store \in Stores
  BY DEF TypeInv, TypeOK
<1>2. CASE RecordBoundary
  <2>1. recovery' = "bounded" /\ phase' = "idle"
    BY <1>2 DEF PlanInv, RecordBoundary
  <2>2. CurrentId(store') = CurrentId(store) /\ Published(store') = Published(store)
    BY <1>1, <1>2, BoundaryRecorded DEF CurrentId, Published
  <2> QED
    BY <1>1, <1>2, <2>1, <2>2, BoundaryRecorded, FirstAfterRestoreIsAbove
<1>3. CASE Publish
  <2>1. /\ store'.boundaries = store.boundaries
        /\ PreviousId(store') = CurrentId(store)
    BY <1>1, <1>3, PublishLeaves
  <2>2. phase = "planned" /\ phase' = "cleanup" /\ recovery' = recovery
    BY <1>3 DEF Publish
  <2>3. recovery # "built"
    BY <2>2 DEF PlanInv
  <2> QED
    BY <2>1, <2>2, <2>3
<1>4. CASE Cleanup
  <2>1. CurrentId(store') = CurrentId(store) /\ PreviousId(store') = PreviousId(store)
    BY <1>1, <1>4, Cleaned DEF CurrentId, PreviousId
  <2> QED
    BY <1>1, <1>4, <2>1, Cleaned DEF Cleanup
<1>5. CASE CleanupFails
  BY <1>5 DEF CleanupFails
<1>6. CASE CaughtUp
  <2>1. CurrentId(store) \in Published(store)
    BY <1>6 DEF CaughtUp, HasCurrent, TypeInv, CurrentAndPreviousKept, Keeps
  <2>2. CurrentId(store) < Last(store.boundaries).first
    BY <1>6, <2>1 DEF CaughtUp
  <2>3. CurrentId(store) \in Nat
    BY <2>1, IdsAssumption DEF Published
  <2>4. CurrentId(store) # Last(store.boundaries).first
    BY <2>2, <2>3
  <2> QED
    BY <1>6, <2>4 DEF CaughtUp
<1>7. CASE Undo \/ Lose \/ PutInPlace \/ FinishRestore \/ Crash
  BY <1>7 DEF Undo, Lose, PutInPlace, FinishRestore, Crash
<1>8. CASE Plan
  BY <1>8 DEF Plan
<1>9. CASE BackUp \/ ChangeInputs \/ OpenPage \/ UNCHANGED vars
  BY <1>9 DEF BackUp, ChangeInputs, OpenPage, vars
<1> QED
  BY <1>2, <1>3, <1>4, <1>5, <1>6, <1>7, <1>8, <1>9 DEF Next

\* After a restore undo returns from the catch-up build to what the set had.
THEOREM CatchUpUndoReturnsHolds == Spec => []CatchUpUndoReturns
<1>1. Init => CatchUpInv /\ PlanInv
  BY DEF Init, CatchUpInv, CatchUpUndoReturns, PlanInv, PlanStaysNext
<1>2. CatchUpInv => CatchUpUndoReturns
  BY DEF CatchUpInv
<1>3. TypeInv => TypeOK
  BY DEF TypeInv
<1> QED
  BY <1>1, <1>2, <1>3, CatchUpNext, PlanNext, TypeInvariant, PTL DEF Spec

\* Ids a page may have written down are never given out again.
LEMMA NextIdIsNew ==
  ASSUME TypeOK, MixInv, page # None, spent.restores < 2, recovery \notin {"lost", "placed"}
  PROVE  page.id # NextId(store)
<1>1. store \in Stores /\ page \in Pages /\ page.id \in Ids /\ page.id \in Nat
  BY IdsAssumption, NoneAssumption DEF TypeOK, Pages
<1>2. NextId(store) \in Nat /\ \A i \in Published(store) : i < NextId(store)
  BY <1>1, NextIdIsAbove
<1>3. CASE page.id \in Published(store)
  BY <1>1, <1>2, <1>3
<1>4. CASE page.id \notin Published(store) /\ spent.restores = 0
  <2>1. store.publications[page.id] = page.publication
    BY <1>4 DEF MixInv, BeforeRestore
  <2>2. page.publication # None
    BY <1>1, NoneAssumption DEF Pages
  <2> QED
    BY <1>1, <1>4, <2>1, <2>2 DEF Published
<1>5. CASE page.id \notin Published(store) /\ spent.restores = 1
  <2>1. /\ store.boundaries # << >> /\ Last(store.boundaries).first >= IdStep
        /\ page.id < IdStep
    BY <1>5 DEF MixInv, AfterRestore
  <2>2. Last(store.boundaries) \in Boundaries
    BY <1>1, <2>1, StoreParts, LastIsElement
  <2>3. Last(store.boundaries).first \in Nat /\ IdStep \in Nat
    BY <2>2, BoundsAssumption DEF Boundaries
  <2>4. Last(store.boundaries).first <= NextId(store)
    BY <1>1, <2>1, NextIdIsNotBelow
  <2> QED
    BY <1>1, <1>2, <2>1, <2>3, <2>4
<1>6. spent.restores \in Nat
  BY DEF TypeOK
<1> QED
  BY <1>3, <1>4, <1>5, <1>6

\* No more is built than the bound allows, which keeps ids below the step.
LEMMA BuildsBounded ==
  ASSUME TypeOK, spent.builds <= MaxBuilds, [Next]_vars
  PROVE  /\ spent'.builds <= MaxBuilds
         /\ ~Publish => spent'.builds = spent.builds
         /\ ~PutInPlace => spent'.restores = spent.restores
<1>1. spent' = spent \/ \E what \in DOMAIN spent : spent' = [spent EXCEPT ![what] = @ + 1]
  BY DEF TypeOK, Next, Plan, Publish, Undo, Cleanup, CleanupFails, BackUp, Lose,
     PutInPlace, RecordBoundary, CaughtUp, FinishRestore, Crash, ChangeInputs, OpenPage,
     vars, Spend
<1>2. ~Publish => spent'.builds = spent.builds
  BY DEF TypeOK, Next, Plan, Undo, Cleanup, CleanupFails, BackUp, Lose,
     PutInPlace, RecordBoundary, CaughtUp, FinishRestore, Crash, ChangeInputs, OpenPage,
     vars, Spend
<1>3. ~PutInPlace => spent'.restores = spent.restores
  BY DEF TypeOK, Next, Plan, Publish, Undo, Cleanup, CleanupFails, BackUp, Lose,
     RecordBoundary, CaughtUp, FinishRestore, Crash, ChangeInputs, OpenPage,
     vars, Spend
<1>4. Publish => spent'.builds <= MaxBuilds
  BY BoundsAssumption DEF TypeOK, Publish, Spend
<1> QED
  BY <1>2, <1>3, <1>4

\* While recovery is at rest or lost, and the store's publications, the sets and
\* the page stay, the page shows what it showed.
LEMMA MixSame ==
  ASSUME TypeOK, MixInv, UNCHANGED <<page, sets>>, spent'.builds = spent.builds,
         spent'.restores = spent.restores,
         store'.publications = store.publications, store'.boundaries = store.boundaries,
         \/ recovery' = recovery
         \/ recovery # "none" /\ recovery' = "lost"
         \/ recovery \in {"bounded", "built"} /\ recovery' \in {"built", "none"}
  PROVE  MixInv'
BY DEF MixInv, BeforeRestore, AfterRestore, PageNeverMixes, Published

\* A build takes an id no page has, and before the first restore the id after
\* the last.
LEMMA MixPublish ==
  ASSUME TypeInv, PlanInv, MixInv, Publish
  PROVE  MixInv'
<1>1. TypeOK /\ store \in Stores
  BY DEF TypeInv, TypeOK
<1>2. PICK i \in Ids, made \in Publications :
        /\ i = NextId(store)
        /\ store'.publications = [store.publications EXCEPT ![i] = made]
        /\ store'.boundaries = store.boundaries
        /\ Published(store') = Published(store) \cup {i}
  BY <1>1, PublishLeaves
<1>3. /\ phase = "planned" /\ recovery' = recovery /\ sets' = sets
      /\ spent'.restores = spent.restores /\ spent'.builds = spent.builds + 1
      /\ spent.builds \in Nat /\ spent.builds < MaxBuilds /\ MaxBuilds \in Nat
  BY <1>1, BoundsAssumption DEF Publish, Spend, TypeOK
<1>4. recovery \in {"none", "bounded"}
  BY <1>1, <1>3 DEF PlanInv, TypeOK
<1>5. page' # None => page # None /\ page'.id = page.id /\ page'.publication = page.publication
  BY <1>1, OutdatedPage DEF Publish
<1>6. page # None => page.id \in Ids /\ page.id \in Nat /\ page.publication # None
  BY <1>1, IdsAssumption, NoneAssumption DEF TypeOK, Pages
<1>7. page # None /\ spent.restores < 2 => page.id # i
  BY <1>1, <1>2, <1>4, NextIdIsNew
<1>8. \A j \in Ids : j # i => store'.publications[j] = store.publications[j]
  BY <1>1, <1>2, StoreParts
<1>9. i \notin Published(store)
  <2>1. i \in Nat /\ \A j \in Published(store) : j < i
    BY <1>1, <1>2, NextIdIsAbove
  <2> QED
    BY <2>1
<1>10. BeforeRestore'
  <2> SUFFICES ASSUME spent'.restores = 0
               PROVE  BeforeRestore'
    BY DEF BeforeRestore
  <2>1. /\ recovery = "none" /\ store.boundaries = << >>
        /\ \A j \in Published(store) : j <= spent.builds
        /\ \A s \in sets : \A j \in Ids :
             s.publications[j] \in {None, store.publications[j]}
    BY <1>3, <1>4 DEF MixInv, BeforeRestore
  <2>2. i <= spent.builds + 1
    <3>1. i = Highest(store) + 1
      BY <1>2, <2>1 DEF NextId
    <3>2. Highest(store) \in Published(store) \cup {0} /\ Highest(store) \in Nat
      BY <1>1, HighestIsGreatest
    <3> QED
      BY <1>3, <2>1, <3>1, <3>2
  <2>3. \A j \in Published(store') : j <= spent'.builds
    <3>1. Published(store) \subseteq Nat
      BY IdsAssumption DEF Published
    <3> QED
      BY <1>2, <1>3, <2>1, <2>2, <3>1
  <2>4. \A s \in sets : \A j \in Ids :
          s.publications[j] \in {None, store'.publications[j]}
    <3>1. store.publications[i] = None
      BY <1>2, <1>9 DEF Published
    <3> QED
      BY <1>8, <2>1, <3>1
  <2>5. page # None =>
          /\ page.id <= spent'.builds
          /\ store'.publications[page.id] = page.publication
          /\ \A s \in sets : s.publications[page.id] \in {None, page.publication}
    BY <1>3, <1>6, <1>7, <1>8, <2>1 DEF MixInv, BeforeRestore
  <2> QED
    BY <1>2, <1>3, <1>5, <2>1, <2>3, <2>4, <2>5 DEF BeforeRestore
<1>11. AfterRestore'
  BY <1>2, <1>3, <1>5 DEF MixInv, AfterRestore
<1>12. PageNeverMixes'
  <2> SUFFICES ASSUME page' # None, spent'.restores < 2
               PROVE  store'.publications[page'.id] \in {None, page'.publication}
    BY DEF PageNeverMixes
  <2>1. store.publications[page.id] \in {None, page.publication} /\ page.id # i
    BY <1>3, <1>5, <1>7 DEF MixInv, PageNeverMixes
  <2> QED
    BY <1>5, <1>6, <1>8, <2>1
<1> QED
  BY <1>3, <1>10, <1>11, <1>12 DEF MixInv

\* Every step keeps what a page shows the one publication it was opened on.
LEMMA MixNext == TypeInv /\ PlanInv /\ MixInv /\ [Next]_vars => MixInv'
<1> SUFFICES ASSUME TypeInv, PlanInv, MixInv, [Next]_vars PROVE MixInv'
  OBVIOUS
<1>1. TypeOK /\ store \in Stores /\ Keeps(store) /\ spent.restores \in Nat
  BY DEF TypeInv, TypeOK, CurrentAndPreviousKept
<1>2. /\ spent'.builds <= MaxBuilds
      /\ ~Publish => spent'.builds = spent.builds
      /\ ~PutInPlace => spent'.restores = spent.restores
  BY <1>1, BuildsBounded DEF MixInv
<1>3. CASE Publish
  BY <1>3, MixPublish
\* An undo moves the pointer only.
<1>4. CASE Undo
  <2>1. PreviousId(store) \in Ids
    BY <1>1, <1>4, PointerType DEF Undo
  <2>2. store'.publications = store.publications
    BY <1>1, <1>4, <2>1, MoveMoves DEF Undo
  <2>3. store'.boundaries = store.boundaries
    BY <1>1, <1>4 DEF Undo, Move, Stores
  <2>4. page' # None => page # None /\ page'.id = page.id /\ page'.publication = page.publication
    BY <1>1, <1>4, OutdatedPage DEF Undo
  <2>5. sets' = sets /\ recovery' = recovery /\ spent' = spent
    BY <1>4 DEF Undo
  <2> QED
    BY <2>2, <2>3, <2>4, <2>5
    DEF MixInv, BeforeRestore, AfterRestore, PageNeverMixes, Published
<1>5. CASE Cleanup
  <2>1. /\ UNCHANGED <<page, sets, spent>>
        /\ recovery' = recovery \/ (recovery = "bounded" /\ recovery' = "built")
    BY <1>5 DEF Cleanup
  <2> QED
    BY <1>1, <1>5, <2>1, Cleaned, MixSame
<1>6. CASE CleanupFails \/ Crash
  <2>1. /\ UNCHANGED <<page, sets, store>>
        /\ \/ recovery' = recovery
           \/ recovery = "bounded" /\ recovery' = "built"
           \/ recovery # "none" /\ recovery' = "lost"
        /\ spent'.builds = spent.builds /\ spent'.restores = spent.restores
    BY <1>1, <1>6 DEF CleanupFails, Crash, Spend, TypeOK
  <2> QED
    BY <1>1, <2>1, MixSame
\* A set holds what the store held.
<1>7. CASE BackUp
  <2>1. UNCHANGED <<store, page, spent, recovery>> /\ sets' = sets \cup {store}
        /\ recovery = "none"
    BY <1>7 DEF BackUp
  <2> QED
    BY <2>1 DEF MixInv, BeforeRestore, AfterRestore, PageNeverMixes
\* An empty store shows nothing.
<1>8. CASE Lose
  <2>1. /\ UNCHANGED <<sets, spent>> /\ recovery' = "lost"
        /\ store' = EmptyStore
    BY <1>8 DEF Lose
  <2>2. page' # None => page # None /\ page'.id = page.id /\ page'.publication = page.publication
    BY <1>1, <1>8, OutdatedPage DEF Lose
  <2>3. /\ Published(store') = {} /\ store'.boundaries = << >>
        /\ \A i \in Ids : store'.publications[i] = None
    BY <2>1 DEF EmptyStore, Published
  <2>4. page # None => page.id \in Ids
    BY <1>1, NoneAssumption DEF TypeOK, Pages
  <2> QED
    BY <2>1, <2>2, <2>3, <2>4 DEF MixInv, BeforeRestore, AfterRestore, PageNeverMixes
\* The first restore puts a store in place that agrees with the page.
<1>9. CASE PutInPlace
  <2>1. /\ sets' = sets /\ recovery' = "placed" /\ store' \in sets
        /\ spent'.restores = spent.restores + 1 /\ spent'.builds = spent.builds
    BY <1>1, <1>9 DEF PutInPlace, Spend, TypeOK
  <2>2. page' # None => page # None /\ page'.id = page.id /\ page'.publication = page.publication
    BY <1>1, <1>9, OutdatedPage DEF PutInPlace
  <2>3. ASSUME spent.restores = 0, page # None
        PROVE  /\ page.id < IdStep
               /\ store'.publications[page.id] \in {None, page.publication}
    <3>1. page.id <= spent.builds /\ spent.builds <= MaxBuilds
      BY <2>3 DEF MixInv, BeforeRestore
    <3>2. page.id \in Nat /\ spent.builds \in Nat
      BY <1>1, <2>3, IdsAssumption DEF TypeOK, Pages
    <3>3. page.id < IdStep
      BY <3>1, <3>2, BoundsAssumption
    <3> QED
      BY <2>1, <2>3, <3>3 DEF MixInv, BeforeRestore
  <2>4. spent'.restores # 0 /\ (spent'.restores < 2 => spent.restores = 0)
    BY <1>1, <2>1
  <2> QED
    BY <1>2, <2>1, <2>2, <2>3, <2>4 DEF MixInv, BeforeRestore, AfterRestore, PageNeverMixes
\* The boundary leaves room for every id that came before it.
<1>10. CASE RecordBoundary
  <2>1. /\ UNCHANGED <<page, sets, spent>> /\ recovery = "placed" /\ recovery' = "bounded"
    BY <1>10 DEF RecordBoundary
  <2>2. /\ store'.publications = store.publications
        /\ store'.boundaries # << >> /\ Last(store'.boundaries).first >= IdStep
    BY <1>1, <1>10, BoundaryRecorded, FirstAfterRestoreIsAbove
  <2>3. spent.restores # 0
    BY <2>1 DEF MixInv, BeforeRestore
  <2> QED
    BY <2>1, <2>2, <2>3 DEF MixInv, BeforeRestore, AfterRestore, PageNeverMixes, Published
<1>11. CASE CaughtUp \/ FinishRestore \/ Plan \/ ChangeInputs \/ UNCHANGED vars
  <2>1. /\ UNCHANGED <<page, sets, store, spent>>
        /\ \/ recovery' = recovery
           \/ recovery \in {"bounded", "built"} /\ recovery' \in {"built", "none"}
    BY <1>11 DEF CaughtUp, FinishRestore, Plan, ChangeInputs, vars
  <2> QED
    BY <1>1, <2>1, MixSame
\* A page is opened on a publication the store holds.
<1>12. CASE OpenPage
  <2>1. /\ UNCHANGED <<store, sets, recovery, spent>>
        /\ page'.id = CurrentId(store)
        /\ page'.publication = store.publications[CurrentId(store)]
    BY <1>12 DEF OpenPage
  <2>2. CurrentId(store) \in Published(store) /\ CurrentId(store) \in Ids
    BY <1>1, <1>12 DEF OpenPage, HasCurrent, Keeps, Published
  <2>3. BeforeRestore'
    <3> SUFFICES ASSUME spent.restores = 0 PROVE BeforeRestore'
      BY <2>1 DEF BeforeRestore
    <3>1. CASE recovery = "none"
      BY <2>1, <2>2, <3>1 DEF MixInv, BeforeRestore
    <3>2. CASE recovery = "lost"
      BY <2>2, <3>2 DEF MixInv, BeforeRestore
    <3> QED
      BY <3>1, <3>2 DEF MixInv, BeforeRestore
  <2> QED
    BY <2>1, <2>2, <2>3 DEF MixInv, AfterRestore, PageNeverMixes
<1> QED
  BY <1>3, <1>4, <1>5, <1>6, <1>7, <1>8, <1>9, <1>10, <1>11, <1>12 DEF Next

\* A page never shows another publication than the one it was opened on.
THEOREM PageNeverMixesHolds == Spec => []PageNeverMixes
<1>1. Init => MixInv /\ PlanInv
  <2> SUFFICES ASSUME Init PROVE MixInv /\ PlanInv
    OBVIOUS
  <2>1. spent.builds = 0 /\ MaxBuilds \in Nat
    BY BoundsAssumption DEF Init
  <2>2. Published(store) = {} /\ store.boundaries = << >>
    BY DEF Init, EmptyStore, Published
  <2> QED
    BY <2>1, <2>2 DEF Init, MixInv, BeforeRestore, AfterRestore, PageNeverMixes, PlanInv,
       PlanStaysNext
<1>2. MixInv => PageNeverMixes
  BY DEF MixInv
<1>3. TypeInv => TypeOK
  BY DEF TypeInv
<1> QED
  BY <1>1, <1>2, <1>3, MixNext, PlanNext, TypeInvariant, PTL DEF Spec
=============================================================================
