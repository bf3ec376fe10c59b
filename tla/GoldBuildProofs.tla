-------------------------- MODULE GoldBuildProofs --------------------------
(***************************************************************************)
(* What is proved of GoldBuild, for every household, every set of rules    *)
(* and whatever is booked and decided: a transfer changes no total, and    *)
(* what Gold pairs, holds and passes over needed no guess.                 *)
(***************************************************************************)
EXTENDS GoldBuild, FiniteFacts, SequenceTheorems

-----------------------------------------------------------------------------
(* The connected sets of candidates.                                       *)

(* A function that joins, of each member of D, its candidates one by one.  *)
Joins(it, D) ==
  it = [s \in D |-> IF s = {} THEN {} ELSE Join(Chosen(s), it[s \ {Chosen(s)}])]

LEMMA JoinsExist ==
  ASSUME NEW S, IsFiniteSet(S)
  PROVE  \E it : Joins(it, SUBSET S)
<1> DEFINE D(n) == {s \in SUBSET S : Cardinality(s) <= n}
           Bad == {n \in Nat : ~ \E it : Joins(it, D(n))}
<1>1. \A s \in SUBSET S : IsFiniteSet(s) /\ Cardinality(s) \in Nat
  BY FS_Subset, FS_CardinalityType
<1>2. \A s \in SUBSET S : s # {} =>
        /\ Chosen(s) \in s /\ s \ {Chosen(s)} \in SUBSET S
        /\ Cardinality(s \ {Chosen(s)}) = Cardinality(s) - 1
  <2>1. \A s \in SUBSET S : s # {} => Chosen(s) \in s
    BY DEF Chosen
  <2> QED
    BY <1>1, <2>1, FS_RemoveElement
<1>3. Bad = {}
  <2> SUFFICES ASSUME Bad # {}
               PROVE  FALSE
    OBVIOUS
  <2>1. Bad \in SUBSET Nat
    OBVIOUS
  <2>2. PICK n \in Bad : \A k \in Bad : n <= k
    <3> HIDE DEF Bad
    <3> QED
      BY <2>1, HasLeast
  <2>3. n \in Nat
    BY <2>1
  <2>4. CASE n = 0
    <3>1. \A s \in D(n) : s = {}
      BY <1>1, <2>4, FS_EmptySet
    <3> DEFINE it == [s \in D(n) |-> {}]
    <3>2. Joins(it, D(n))
      <4> HIDE DEF D
      <4> QED
        BY <3>1 DEF Joins
    <3> HIDE DEF it
    <3> QED
      BY <3>2
  <2>5. CASE n # 0
    <3>1. n - 1 \in Nat /\ n - 1 \notin Bad
      <4> HIDE DEF Bad
      <4> QED
        BY <2>2, <2>3, <2>5
    <3>2. PICK f : Joins(f, D(n - 1))
      BY <3>1
    <3>3. /\ D(n - 1) \subseteq D(n)
          /\ \A s \in D(n) : s # {} => s \ {Chosen(s)} \in D(n - 1)
      BY <1>1, <1>2, <2>3
    <3> DEFINE it == [s \in D(n) |-> IF s = {} THEN {} ELSE Join(Chosen(s), f[s \ {Chosen(s)}])]
    <3> HIDE DEF D
    <3>4. \A s \in D(n - 1) : f[s] = IF s = {} THEN {} ELSE Join(Chosen(s), f[s \ {Chosen(s)}])
      BY <3>2 DEF Joins
    <3>5. \A s \in D(n - 1) : it[s] = f[s]
      BY <3>3, <3>4
    <3>6. \A s \in D(n) : s # {} => it[s \ {Chosen(s)}] = f[s \ {Chosen(s)}]
      BY <3>3, <3>5
    <3>7. Joins(it, D(n))
      BY <3>6 DEF Joins
    <3> HIDE DEF it
    <3>8. \E h : Joins(h, D(n))
      BY <3>7
    <3> QED
      BY <3>8
  <2> QED
    BY <2>4, <2>5
<1>4. SUBSET S = D(Cardinality(S)) /\ Cardinality(S) \in Nat
  <2>1. \A s \in SUBSET S : Cardinality(s) <= Cardinality(S)
    BY FS_Subset
  <2> QED
    BY <1>1, <2>1
<1> QED
  BY <1>3, <1>4

LEMMA ConnectedIs ==
  ASSUME NEW S, IsFiniteSet(S)
  PROVE  \E it : Joins(it, SUBSET S) /\ ConnectedSets(S) = it[S]
<1> DEFINE it == CHOOSE it : Joins(it, SUBSET S)
<1>1. Joins(it, SUBSET S)
  BY JoinsExist
<1>2. ConnectedSets(S) = it[S]
  BY DEF ConnectedSets, FoldSet, MapThenFoldSet, Joins, Chosen
<1> QED
  BY <1>1, <1>2

(* No candidate is partly in the set of legs.                              *)
Whole(legs, candidates) == \A c \in candidates : c \cap legs # {} => c \subseteq legs

(* The sets part the legs of the candidates into what is connected.        *)
Connects(sets, candidates) ==
  /\ \A s \in sets : s # {} /\ s \subseteq UNION candidates
  /\ \A s, r \in sets : s \cap r # {} => s = r
  /\ \A c \in candidates : \E s \in sets : c \subseteq s
  /\ \A s \in sets : \A legs : Whole(legs, candidates) /\ s \cap legs # {} => s \subseteq legs

(* Joining one more candidate connects it too.                             *)
LEMMA JoinConnects ==
  ASSUME NEW sets, NEW candidates, Connects(sets, candidates), NEW c, c # {}
  PROVE  Connects(Join(c, sets), candidates \cup {c})
<1> DEFINE touched == {s \in sets : s \cap c # {}}
           new == c \cup UNION touched
<1>1. Join(c, sets) = {s \in sets : s \cap c = {}} \cup {new}
  BY DEF Join
<1>2. \A s \in Join(c, sets) : s = new \/ (s \in sets /\ s \cap c = {})
  BY <1>1
<1>3. \A s \in sets : s \cap c = {} => s \cap new = {}
  BY DEF Connects
<1>4. \A s \in Join(c, sets) : s # {} /\ s \subseteq UNION (candidates \cup {c})
  BY <1>2 DEF Connects
<1>5. \A s, r \in Join(c, sets) : s \cap r # {} => s = r
  BY <1>2, <1>3 DEF Connects
<1>6. \A d \in candidates \cup {c} : \E s \in Join(c, sets) : d \subseteq s
  <2> SUFFICES ASSUME NEW d \in candidates
               PROVE  \E s \in Join(c, sets) : d \subseteq s
    BY <1>1
  <2>1. PICK s \in sets : d \subseteq s
    BY DEF Connects
  <2>2. CASE s \cap c = {}
    BY <1>1, <2>1, <2>2
  <2>3. CASE s \cap c # {}
    <3>1. s \in touched
      BY <2>3
    <3>2. d \subseteq new /\ new \in Join(c, sets)
      BY <1>1, <2>1, <3>1
    <3> QED
      BY <3>2
  <2> QED
    BY <2>2, <2>3
<1>7. ASSUME NEW s \in Join(c, sets), NEW legs, Whole(legs, candidates \cup {c}),
             s \cap legs # {}
      PROVE  s \subseteq legs
  <2>1. Whole(legs, candidates) /\ (c \cap legs # {} => c \subseteq legs)
    BY <1>7 DEF Whole
  <2>2. \A r \in sets : r \cap legs # {} => r \subseteq legs
    BY <2>1 DEF Connects
  <2>3. CASE s \in sets
    BY <1>7, <2>2, <2>3
  <2>4. CASE s = new
    <3>1. c \cap legs # {}
      BY <1>7, <2>2, <2>4
    <3>2. c \subseteq legs
      BY <2>1, <3>1
    <3>3. \A r \in touched : r \subseteq legs
      BY <2>2, <3>2
    <3> QED
      BY <2>4, <3>2, <3>3
  <2> QED
    BY <1>2, <2>3, <2>4
<1> QED
  BY <1>4, <1>5, <1>6, <1>7 DEF Connects

(* _connected_sets: what it returns.                                       *)
LEMMA ConnectedSetsConnect ==
  ASSUME NEW S, IsFiniteSet(S), {} \notin S
  PROVE  Connects(ConnectedSets(S), S)
<1>1. PICK it : Joins(it, SUBSET S) /\ ConnectedSets(S) = it[S]
  BY ConnectedIs
<1> DEFINE Bad == {n \in Nat : \E s \in SUBSET S : Cardinality(s) = n /\ ~ Connects(it[s], s)}
<1>2. \A s \in SUBSET S : IsFiniteSet(s) /\ Cardinality(s) \in Nat
  BY FS_Subset, FS_CardinalityType
<1>3. Bad = {}
  <2> SUFFICES ASSUME Bad # {}
               PROVE  FALSE
    OBVIOUS
  <2>1. Bad \in SUBSET Nat
    OBVIOUS
  <2>2. PICK n \in Bad : \A k \in Bad : n <= k
    <3> HIDE DEF Bad
    <3> QED
      BY <2>1, HasLeast
  <2>3. PICK s \in SUBSET S : Cardinality(s) = n /\ ~ Connects(it[s], s)
    OBVIOUS
  <2>4. it[s] = IF s = {} THEN {} ELSE Join(Chosen(s), it[s \ {Chosen(s)}])
    BY <1>1 DEF Joins
  <2>5. s # {}
    BY <2>3, <2>4 DEF Connects
  <2>6. Chosen(s) \in s /\ Chosen(s) # {}
    BY <2>5 DEF Chosen
  <2>7. /\ s \ {Chosen(s)} \in SUBSET S
        /\ Cardinality(s \ {Chosen(s)}) = n - 1 /\ n - 1 \in Nat
    <3>1. Cardinality(s \ {Chosen(s)}) = Cardinality(s) - 1
      BY <1>2, <2>6, FS_RemoveElement
    <3>2. Cardinality(s \ {Chosen(s)}) \in Nat
      BY <1>2
    <3> QED
      BY <2>3, <3>1, <3>2
  <2>8. Connects(it[s \ {Chosen(s)}], s \ {Chosen(s)})
    <3>1. n - 1 \notin Bad
      BY <2>1, <2>2, <2>7
    <3> QED
      BY <2>7, <3>1
  <2>9. Connects(it[s], (s \ {Chosen(s)}) \cup {Chosen(s)})
    BY <2>4, <2>5, <2>6, <2>8, JoinConnects
  <2>10. (s \ {Chosen(s)}) \cup {Chosen(s)} = s
    BY <2>6
  <2> QED
    BY <2>3, <2>9, <2>10
<1> QED
  BY <1>1, <1>2, <1>3

-----------------------------------------------------------------------------
(* The invariants.                                                         *)

(* What a build has read when it matches, and how far the matching is.     *)
Begun ==
  /\ Len(book) <= MaxInputs
  /\ phase = "booking" => decisions = {}
  /\ phase \in {"booking", "refused"} =>
       gap = 0 /\ claims = {} /\ decided = {} /\ DOMAIN paired = {} /\ DOMAIN held = {}
  /\ phase \in {"matching", "published"} =>
       /\ ~ Overlapping(decisions)
       /\ claims = Claims
       /\ decided = UNION {d.targets : d \in Applicable(registry, decisions)}
  /\ phase = "matching" => gap <= MaxGap
  /\ phase = "published" => gap = MaxGap + 1

(* A transaction is settled once.                                          *)
SettledOnce ==
  decided \cap DOMAIN paired = {} /\ decided \cap DOMAIN held = {} /\ DOMAIN paired \cap DOMAIN held = {}

Alike(legs) ==
  \A u, v \in legs : Sign(book[u].amount) = Sign(book[v].amount) => book[u] = book[v]

(* A paired leg was among its like only.                                   *)
PairedRight ==
  \A t \in DOMAIN paired :
    \E m \in DOMAIN paired, g \in 0 .. gap - 1, legs \in SUBSET Transactions :
      /\ paired[t].mate = m /\ paired[t].gap = g
      /\ paired[m].mate = t
      /\ Cancel(t, m) \/ Cancel(m, t)
      /\ legs = Reach(t, g) /\ Alike(legs)

(* A held leg is held with all it was connected to, which are not alike.   *)
HeldRight ==
  \A t \in DOMAIN held :
    \E g \in 0 .. gap - 1, legs \in SUBSET Transactions :
      /\ held[t].gap = g /\ held[t].legs = legs
      /\ legs \subseteq DOMAIN held
      /\ legs = Reach(t, g) /\ ~ Alike(legs)

(* A leg is passed over for its like.                                      *)
PassedRight ==
  \A t \in Transactions \ decided, u \in Transactions :
    Rivals(t, u) /\ DateGap(t, u) < SettledIn(t) /\ DateGap(t, u) < gap =>
      u \in DOMAIN paired /\ book[paired[u].mate] = book[t]

BuildInv == BuildTypeOK /\ Begun /\ SettledOnce /\ PairedRight /\ HeldRight /\ PassedRight

-----------------------------------------------------------------------------
(* What is booked.                                                         *)

LEMMA BookedTypes ==
  ASSUME BuildTypeOK
  PROVE  /\ Transactions = 1 .. Len(book) /\ Len(book) \in Nat
         /\ IsFiniteSet(Transactions) /\ Transactions \in SUBSET (Nat \ {0})
         /\ \A t \in Transactions :
              /\ book[t] \in Legs
              /\ book[t].amount \in Int /\ book[t].day \in Int /\ book[t].account \in Int
              /\ book[t].day \in Dates /\ book[t].account \in Accounts
<1>1. book \in Seq(Legs)
  BY DEF BuildTypeOK
<1>2. Transactions = 1 .. Len(book) /\ Len(book) \in Nat
  BY <1>1, LenProperties DEF Transactions
<1>3. IsFiniteSet(Transactions)
  BY <1>2, FS_Interval
<1>4. \A t \in Transactions : book[t] \in Legs
  BY <1>1, ElementOfSeq DEF Transactions
<1>5. \A leg \in Legs :
        /\ leg.amount \in Int /\ leg.day \in Dates /\ leg.account \in Accounts
        /\ leg.day \in Int /\ leg.account \in Int
  BY BuildAssumption
<1>6. Transactions \in SUBSET (Nat \ {0})
  BY <1>2
<1> QED
  BY <1>2, <1>3, <1>4, <1>5, <1>6

LEMMA DateGapType ==
  ASSUME BuildTypeOK, NEW t \in Transactions, NEW u \in Transactions
  PROVE  DateGap(t, u) \in Nat /\ DateGap(t, u) = DateGap(u, t)
BY BookedTypes DEF DateGap

(* The legs that cancel.                                                   *)
LEMMA CancelTypes ==
  ASSUME BuildTypeOK, NEW t \in Transactions, NEW u \in Transactions, Cancel(t, u)
  PROVE  /\ book[t].amount < 0 /\ book[u].amount > 0 /\ t # u
         /\ book[t].amount + book[u].amount = 0
         /\ ~ Cancel(u, t)
BY BookedTypes DEF Cancel

LEMMA SignTypes ==
  ASSUME BuildTypeOK, NEW t \in Transactions, NEW u \in Transactions,
         book[t].amount # 0
  PROVE  Sign(book[t].amount) = Sign(book[u].amount) <=>
           \/ book[t].amount < 0 /\ book[u].amount < 0
           \/ book[t].amount > 0 /\ book[u].amount > 0
BY BookedTypes DEF Sign

(* The rules read nothing of a transaction but its leg.                    *)
LEMMA SameLegSameRule ==
  ASSUME NEW t, NEW u, book[t] = book[u]
  PROVE  RuleResult(t) = RuleResult(u)
<1>1. {r \in Rules : Matches(r, t)} = {r \in Rules : Matches(r, u)}
  BY DEF Matches
<1> QED
  BY <1>1 DEF RuleResult

(* Who is available at the stage.                                          *)
LEMMA AvailableIs ==
  ASSUME BuildInv, gap <= MaxGap, NEW t \in Transactions
  PROVE  /\ SettledIn(t) \in Int
         /\ t \in Available <=> SettledIn(t) >= gap
         /\ t \in Available <=> SettledIn(t) = MaxGap + 1
<1>1. gap \in Nat /\ MaxGap \in Nat
  BY BuildAssumption DEF BuildInv, BuildTypeOK
<1>2. t \in DOMAIN paired => paired[t].gap \in 0 .. gap - 1
  BY DEF BuildInv, PairedRight
<1>3. t \in DOMAIN held => held[t].gap \in 0 .. gap - 1
  BY DEF BuildInv, HeldRight
<1> QED
  BY <1>1, <1>2, <1>3 DEF SettledIn, Available

-----------------------------------------------------------------------------
(* One stage of the matching.                                              *)

StageCandidates == Candidates(Available, gap)

StageSets == ConnectedSets(StageCandidates)

SettledSets == {s \in StageSets : NoGuessNeeded(s)}

HeldSets == StageSets \ SettledSets

StagePairs == UNION {Zipped(s) : s \in SettledSets}

LEMMA StageCandidatesAre ==
  ASSUME BuildTypeOK
  PROVE  /\ IsFiniteSet(StageCandidates) /\ {} \notin StageCandidates
         /\ \A c \in StageCandidates : \E t, u \in Available :
              c = {t, u} /\ Cancel(t, u) /\ DateGap(t, u) = gap
         /\ \A t, u \in Available :
              Cancel(t, u) /\ DateGap(t, u) = gap => {t, u} \in StageCandidates
<1> DEFINE found == {c \in Available \X Available : Cancel(c[1], c[2]) /\ DateGap(c[1], c[2]) = gap}
<1>1. StageCandidates = {{c[1], c[2]} : c \in found}
  BY DEF StageCandidates, Candidates
<1>2. \A c \in StageCandidates : \E t, u \in Available :
        c = {t, u} /\ Cancel(t, u) /\ DateGap(t, u) = gap
  BY <1>1
<1>3. ASSUME NEW t \in Available, NEW u \in Available, Cancel(t, u), DateGap(t, u) = gap
      PROVE  {t, u} \in StageCandidates
  <2>1. <<t, u>> \in found
    BY <1>3
  <2> QED
    BY <1>1, <2>1
<1>4. StageCandidates \in SUBSET (SUBSET Transactions) /\ {} \notin StageCandidates
  BY <1>2 DEF Available
<1>5. IsFiniteSet(StageCandidates)
  <2>1. IsFiniteSet(SUBSET Transactions)
    BY BookedTypes, FS_SUBSET
  <2> QED
    BY <1>4, <2>1, FS_Subset
<1> QED
  BY <1>2, <1>3, <1>4, <1>5

LEMMA StageConnects ==
  ASSUME BuildTypeOK
  PROVE  Connects(StageSets, StageCandidates)
BY StageCandidatesAre, ConnectedSetsConnect DEF StageSets

(* A connected set has legs on both sides.                                 *)
LEMMA StageSetLegs ==
  ASSUME BuildTypeOK, NEW s \in StageSets
  PROVE  /\ s \subseteq Available /\ s \subseteq Transactions /\ IsFiniteSet(s)
         /\ \A t \in s : book[t].amount # 0 /\ (t \in Outs(s) \/ t \in Ins(s))
         /\ Outs(s) \cap Ins(s) = {}
         /\ \E o \in Outs(s), i \in Ins(s) : Cancel(o, i)
<1>1. s # {} /\ s \subseteq UNION StageCandidates
  BY StageConnects DEF Connects
<1>2. s \subseteq Available /\ s \subseteq Transactions
  BY <1>1, StageCandidatesAre DEF Available
<1>3. IsFiniteSet(s)
  BY <1>2, BookedTypes, FS_Subset
<1>4. \A t \in s : book[t].amount # 0
  <2> SUFFICES ASSUME NEW t \in s
               PROVE  book[t].amount # 0
    OBVIOUS
  <2>1. PICK c \in StageCandidates : t \in c
    BY <1>1
  <2>2. PICK o \in Available, i \in Available : c = {o, i} /\ Cancel(o, i)
    BY StageCandidatesAre
  <2>3. book[o].amount < 0 /\ book[i].amount > 0
    BY <2>2, CancelTypes DEF Available
  <2>4. t = o \/ t = i
    BY <2>1, <2>2
  <2> QED
    BY <2>3, <2>4
<1>5. \A t \in s : t \in Outs(s) \/ t \in Ins(s)
  BY <1>2, <1>4, BookedTypes DEF Outs, Ins
<1>6. Outs(s) \cap Ins(s) = {}
  BY <1>2, BookedTypes DEF Outs, Ins
<1>7. \E o \in Outs(s), i \in Ins(s) : Cancel(o, i)
  <2>1. PICK t : t \in s
    BY <1>1
  <2>2. PICK c \in StageCandidates : t \in c
    BY <1>1, <2>1
  <2>3. PICK r \in StageSets : c \subseteq r
    BY StageConnects DEF Connects
  <2>4. r = s
    <3>1. r \cap s # {}
      BY <2>1, <2>2, <2>3
    <3> QED
      BY <3>1, StageConnects DEF Connects
  <2>5. PICK o \in Available, i \in Available : c = {o, i} /\ Cancel(o, i)
    BY StageCandidatesAre
  <2>6. o \in s /\ i \in s /\ book[o].amount < 0 /\ book[i].amount > 0
    BY <2>3, <2>4, <2>5, CancelTypes DEF Available
  <2> QED
    BY <2>5, <2>6 DEF Outs, Ins
<1> QED
  BY <1>2, <1>3, <1>4, <1>5, <1>6, <1>7

(* Repeated legs are alike.                                                *)
LEMMA RepeatedAre ==
  ASSUME NEW legs, IsFiniteSet(legs), legs # {}
  PROVE  Repeated(legs) <=> \A t, u \in legs : book[t] = book[u]
<1> DEFINE shown == {book[t] : t \in legs}
<1>1. IsFiniteSet(shown) /\ shown # {}
  <2> DEFINE f == [t \in legs |-> book[t]]
  <2>1. f \in Surjection(legs, shown)
    BY DEF Surjection
  <2>2. IsFiniteSet(shown)
    BY <2>1, FS_Surjection
  <2> QED
    BY <2>2
<1>2. ASSUME Repeated(legs)
      PROVE  \A t, u \in legs : book[t] = book[u]
  <2>1. Cardinality(shown) = 1
    BY <1>2 DEF Repeated
  <2>2. PICK x : shown = {x}
    BY <1>1, <2>1, FS_Singleton
  <2> QED
    BY <2>2
<1>3. ASSUME \A t, u \in legs : book[t] = book[u]
      PROVE  Repeated(legs)
  <2>1. PICK t : t \in legs
    OBVIOUS
  <2>2. shown = {book[t]}
    BY <1>3, <2>1
  <2>3. Cardinality(shown) = 1
    BY <2>2, FS_Singleton
  <2> QED
    BY <2>3 DEF Repeated
<1> QED
  BY <1>2, <1>3

(* A set is settled when its legs are alike, and then any two of its legs  *)
(* on either side cancel.                                                  *)
LEMMA SettledAlike ==
  ASSUME BuildTypeOK, NEW s \in StageSets
  PROVE  NoGuessNeeded(s) <=> Alike(s)
<1>1. s \subseteq Transactions /\ IsFiniteSet(Outs(s)) /\ IsFiniteSet(Ins(s))
  BY StageSetLegs, FS_Subset DEF Outs, Ins
<1>2. Outs(s) # {} /\ Ins(s) # {}
  BY StageSetLegs
<1>3. NoGuessNeeded(s) <=> /\ \A t, u \in Outs(s) : book[t] = book[u]
                           /\ \A t, u \in Ins(s) : book[t] = book[u]
  BY <1>1, <1>2, RepeatedAre DEF NoGuessNeeded
<1>4. \A t, u \in s : Sign(book[t].amount) = Sign(book[u].amount) <=>
        \/ t \in Outs(s) /\ u \in Outs(s)
        \/ t \in Ins(s) /\ u \in Ins(s)
  BY <1>1, StageSetLegs, SignTypes DEF Outs, Ins
<1>5. Outs(s) \subseteq s /\ Ins(s) \subseteq s
  BY DEF Outs, Ins
<1> QED
  BY <1>3, <1>4, <1>5 DEF Alike

LEMMA SettledCancel ==
  ASSUME BuildTypeOK, claims = Claims, NEW s \in SettledSets,
         NEW o \in Outs(s), NEW i \in Ins(s)
  PROVE  Cancel(o, i) /\ o \in Transactions /\ i \in Transactions
<1>1. s \in StageSets /\ Alike(s)
  BY SettledAlike DEF SettledSets
<1>2. PICK p \in Outs(s), q \in Ins(s) : Cancel(p, q)
  BY <1>1, StageSetLegs
<1>3. {o, i, p, q} \subseteq s /\ s \subseteq Transactions
  BY <1>1, StageSetLegs DEF Outs, Ins
<1>4. book[o] = book[p] /\ book[i] = book[q]
  <2>1. Sign(book[o].amount) = Sign(book[p].amount) /\ Sign(book[i].amount) = Sign(book[q].amount)
    BY <1>3, BookedTypes DEF Outs, Ins, Sign
  <2> QED
    BY <1>1, <1>3, <2>1 DEF Alike
<1>5. RuleResult(o) = RuleResult(p) /\ RuleResult(i) = RuleResult(q)
  BY <1>4, SameLegSameRule
<1>6. {o, i} \cap claims # {}
  <2>1. {p, q} \cap claims # {}
    BY <1>2 DEF Cancel
  <2> QED
    BY <1>3, <1>5, <2>1 DEF Claims
<1> QED
  BY <1>2, <1>3, <1>4, <1>6 DEF Cancel

(* The sides of a set are numbered.                                        *)
LEMMA SidesRank ==
  ASSUME BuildTypeOK, NEW s \in StageSets, NEW side \in {Outs(s), Ins(s)}
  PROVE  /\ side \in SUBSET (Nat \ {0}) /\ IsFiniteSet(side) /\ side \subseteq s
         /\ \A t : Rank(t, side) = RankIn(side, t)
<1>1. side \subseteq s /\ s \subseteq Transactions
  BY StageSetLegs DEF Outs, Ins
<1>2. side \in SUBSET (Nat \ {0})
  BY <1>1, BookedTypes
<1>3. IsFiniteSet(side)
  BY <1>1, StageSetLegs, FS_Subset
<1>4. \A t : Rank(t, side) = RankIn(side, t)
  BY DEF Rank, RankIn
<1> QED
  BY <1>1, <1>2, <1>3, <1>4

LEMMA SetOfLeg ==
  ASSUME BuildTypeOK, NEW s \in StageSets, NEW t \in s
  PROVE  (CHOOSE r \in StageSets : t \in r) = s
<1>1. \A r \in StageSets : t \in r => r = s
  BY StageConnects DEF Connects
<1> QED
  BY <1>1

LEMMA StagePairIs ==
  ASSUME NEW p \in StagePairs
  PROVE  \E s \in SettledSets : \E o \in Outs(s), i \in Ins(s) :
           p = {o, i} /\ Rank(o, Outs(s)) = Rank(i, Ins(s))
<1>1. PICK s \in SettledSets : p \in Zipped(s)
  BY DEF StagePairs
<1>2. PICK c \in Outs(s) \X Ins(s) :
        p = {c[1], c[2]} /\ Rank(c[1], Outs(s)) = Rank(c[2], Ins(s))
  BY <1>1 DEF Zipped
<1> QED
  BY <1>2

LEMMA StagePairWithin ==
  ASSUME NEW p \in StagePairs
  PROVE  \E s \in SettledSets : p \subseteq s
<1>1. PICK s \in SettledSets : \E o \in Outs(s), i \in Ins(s) : p = {o, i}
  BY StagePairIs
<1>2. Outs(s) \subseteq s /\ Ins(s) \subseteq s
  BY DEF Outs, Ins
<1>3. p \subseteq s
  BY <1>1, <1>2
<1> QED
  BY <1>3

LEMMA StagePairOf ==
  ASSUME NEW s \in SettledSets, NEW o \in Outs(s), NEW i \in Ins(s),
         Rank(o, Outs(s)) = Rank(i, Ins(s))
  PROVE  {o, i} \in StagePairs
<1>1. <<o, i>> \in {c \in Outs(s) \X Ins(s) : Rank(c[1], Outs(s)) = Rank(c[2], Ins(s))}
  OBVIOUS
<1>2. {o, i} \in Zipped(s)
  BY <1>1 DEF Zipped
<1> QED
  BY <1>2 DEF StagePairs

(* A leg is in one pair.                                                   *)
LEMMA PairsApart ==
  ASSUME BuildTypeOK, NEW p \in StagePairs, NEW q \in StagePairs, NEW t \in p, t \in q
  PROVE  p = q
<1>1. PICK s \in SettledSets : \E o \in Outs(s), i \in Ins(s) :
        p = {o, i} /\ Rank(o, Outs(s)) = Rank(i, Ins(s))
  BY StagePairIs
<1>2. PICK r \in SettledSets : \E o \in Outs(r), i \in Ins(r) :
        q = {o, i} /\ Rank(o, Outs(r)) = Rank(i, Ins(r))
  BY StagePairIs
<1>3. s \in StageSets /\ r \in StageSets
  BY DEF SettledSets
<1>4. r = s
  <2>1. t \in s /\ t \in r
    BY <1>1, <1>2 DEF Outs, Ins
  <2> QED
    BY <1>3, <2>1, SetOfLeg
<1>5. PICK o \in Outs(s), i \in Ins(s) : p = {o, i} /\ Rank(o, Outs(s)) = Rank(i, Ins(s))
  BY <1>1
<1>6. PICK x \in Outs(s), y \in Ins(s) : q = {x, y} /\ Rank(x, Outs(s)) = Rank(y, Ins(s))
  BY <1>2, <1>4
<1>7. Outs(s) \cap Ins(s) = {}
  BY <1>3, StageSetLegs
<1>8. /\ \A u, v \in Outs(s) : Rank(u, Outs(s)) = Rank(v, Outs(s)) => u = v
      /\ \A u, v \in Ins(s) : Rank(u, Ins(s)) = Rank(v, Ins(s)) => u = v
  BY <1>3, SidesRank, RankIsOwn
<1>9. CASE t = o
  <2>1. t = x
    BY <1>6, <1>7, <1>9
  <2>2. i = y
    BY <1>5, <1>6, <1>8, <1>9, <2>1
  <2> QED
    BY <1>5, <1>6, <1>9, <2>1, <2>2
<1>10. CASE t = i
  <2>1. t = y
    BY <1>6, <1>7, <1>10
  <2>2. o = x
    BY <1>5, <1>6, <1>8, <1>10, <2>1
  <2> QED
    BY <1>5, <1>6, <1>10, <2>1, <2>2
<1> QED
  BY <1>5, <1>9, <1>10

(* Its counterpart is the other leg of that pair.                          *)
LEMMA StageMate ==
  ASSUME BuildTypeOK, NEW t, NEW u, {t, u} \in StagePairs
  PROVE  t # u /\ Other(CHOOSE p \in StagePairs : t \in p, t) = u
<1>1. (CHOOSE p \in StagePairs : t \in p) = {t, u}
  <2>1. \A p \in StagePairs : t \in p => p = {t, u}
    BY PairsApart
  <2> QED
    BY <2>1
<1>2. t # u
  <2>1. PICK s \in SettledSets : \E o \in Outs(s), i \in Ins(s) : {t, u} = {o, i}
    BY StagePairIs
  <2>2. Outs(s) \cap Ins(s) = {}
    BY StageSetLegs DEF SettledSets
  <2> QED
    BY <2>1, <2>2
<1> QED
  BY <1>1, <1>2 DEF Other

(* What the stage makes of the matching.                                   *)
LEMMA StageResult ==
  ASSUME Stage
  PROVE  /\ DOMAIN paired' = DOMAIN paired \cup UNION StagePairs
         /\ DOMAIN held' = DOMAIN held \cup UNION HeldSets
         /\ \A t \in UNION StagePairs :
              /\ paired'[t].mate = Other(CHOOSE p \in StagePairs : t \in p, t)
              /\ paired'[t].gap = gap
         /\ \A t \in DOMAIN paired \ UNION StagePairs : paired'[t] = paired[t]
         /\ \A t \in UNION HeldSets :
              held'[t].legs = (CHOOSE s \in StageSets : t \in s) /\ held'[t].gap = gap
         /\ \A t \in DOMAIN held \ UNION HeldSets : held'[t] = held[t]
<1>1. paired' = [t \in DOMAIN paired \cup UNION StagePairs |->
                   IF t \in UNION StagePairs
                   THEN [mate |-> Other(CHOOSE p \in StagePairs : t \in p, t), gap |-> gap,
                         basis |-> Basis(CHOOSE s \in StageSets : t \in s, gap)]
                   ELSE paired[t]]
  BY DEF Stage, StagePairs, SettledSets, StageSets, StageCandidates
<1>2. held' = [t \in DOMAIN held \cup UNION HeldSets |->
                 IF t \in UNION HeldSets
                 THEN [legs |-> CHOOSE s \in StageSets : t \in s, gap |-> gap]
                 ELSE held[t]]
  BY DEF Stage, HeldSets, SettledSets, StageSets, StageCandidates
<1> QED
  BY <1>1, <1>2

-----------------------------------------------------------------------------
(* Who competes at the stage is connected at it.                           *)

LEMMA RivalsAtStage ==
  ASSUME BuildInv, gap <= MaxGap, NEW t \in Transactions, NEW u \in Transactions
  PROVE  Rivals(t, u) /\ DateGap(t, u) = gap <=> {t, u} \in StageCandidates
<1> USE DEF BuildInv
<1>1. DateGap(t, u) \in Nat /\ DateGap(t, u) = DateGap(u, t) /\ MaxGap \in Nat /\ gap \in Nat
  BY DateGapType, BuildAssumption DEF BuildTypeOK
<1>2. /\ t \in Available <=> SettledIn(t) >= gap
      /\ u \in Available <=> SettledIn(u) >= gap
  BY AvailableIs
<1>3. ASSUME Rivals(t, u), DateGap(t, u) = gap
      PROVE  {t, u} \in StageCandidates
  <2>1. t \in Available /\ u \in Available /\ (Cancel(t, u) \/ Cancel(u, t))
    BY <1>2, <1>3 DEF Rivals
  <2>2. {t, u} = {u, t}
    OBVIOUS
  <2> QED
    BY <1>1, <1>3, <2>1, <2>2, StageCandidatesAre
<1>4. ASSUME {t, u} \in StageCandidates
      PROVE  Rivals(t, u) /\ DateGap(t, u) = gap
  <2>1. PICK o \in Available, i \in Available :
          {t, u} = {o, i} /\ Cancel(o, i) /\ DateGap(o, i) = gap
    BY <1>4, StageCandidatesAre
  <2>2. o # i
    BY <2>1, CancelTypes DEF Available
  <2>3. (t = o /\ u = i) \/ (t = i /\ u = o)
    BY <2>1, <2>2
  <2>4. DateGap(t, u) = gap
    BY <1>1, <2>1, <2>3
  <2>5. Cancel(t, u) \/ Cancel(u, t)
    BY <2>1, <2>3
  <2>6. t \in Available /\ u \in Available
    BY <2>3
  <2> QED
    BY <1>1, <1>2, <2>4, <2>5, <2>6 DEF Rivals
<1> QED
  BY <1>3, <1>4

LEMMA ClosedIsWhole ==
  ASSUME BuildInv, gap <= MaxGap, NEW legs \in SUBSET Transactions
  PROVE  Closed(legs, gap) <=> Whole(legs, StageCandidates)
<1>1. ASSUME Closed(legs, gap)
      PROVE  Whole(legs, StageCandidates)
  <2> SUFFICES ASSUME NEW c \in StageCandidates, NEW t \in c, t \in legs, NEW u \in c
               PROVE  u \in legs
    BY DEF Whole
  <2>1. PICK o \in Available, i \in Available : c = {o, i}
    BY StageCandidatesAre DEF BuildInv
  <2>2. CASE u = t
    BY <2>2
  <2>3. CASE u # t
    <3>1. {t, u} \in StageCandidates /\ t \in Transactions /\ u \in Transactions
      <4>1. c = {t, u}
        BY <2>1, <2>3
      <4> QED
        BY <2>1, <4>1 DEF Available
    <3>2. Rivals(t, u) /\ DateGap(t, u) = gap
      BY <3>1, RivalsAtStage
    <3> QED
      BY <1>1, <3>1, <3>2 DEF Closed
  <2> QED
    BY <2>2, <2>3
<1>2. ASSUME Whole(legs, StageCandidates)
      PROVE  Closed(legs, gap)
  <2> SUFFICES ASSUME NEW t \in legs, NEW u \in Transactions, Rivals(t, u), DateGap(t, u) = gap
               PROVE  u \in legs
    BY DEF Closed
  <2>1. {t, u} \in StageCandidates
    BY RivalsAtStage
  <2> QED
    BY <1>2, <2>1 DEF Whole
<1> QED
  BY <1>1, <1>2

LEMMA ReachIsSet ==
  ASSUME BuildInv, gap <= MaxGap, NEW s \in StageSets, NEW t \in s
  PROVE  Reach(t, gap) = s
<1> USE DEF BuildInv
<1>1. s \in SUBSET Transactions
  BY StageSetLegs
<1>2. Closed(s, gap)
  <2>1. Whole(s, StageCandidates)
    <3> SUFFICES ASSUME NEW c \in StageCandidates, c \cap s # {}
                 PROVE  c \subseteq s
      BY DEF Whole
    <3>1. PICK r \in StageSets : c \subseteq r
      BY StageConnects DEF Connects
    <3>2. r \cap s # {}
      BY <3>1
    <3>3. r = s
      BY <3>2, StageConnects DEF Connects
    <3> QED
      BY <3>1, <3>3
  <2> QED
    BY <1>1, <2>1, ClosedIsWhole
<1>3. Reach(t, gap) \subseteq s
  BY <1>1, <1>2 DEF Reach
<1>4. ASSUME NEW u \in s, NEW legs \in SUBSET Transactions, t \in legs, Closed(legs, gap)
      PROVE  u \in legs
  <2>1. Whole(legs, StageCandidates) /\ s \cap legs # {}
    BY <1>4, ClosedIsWhole
  <2>2. s \subseteq legs
    BY <2>1, StageConnects DEF Connects
  <2> QED
    BY <2>2
<1>5. s \subseteq Reach(t, gap)
  BY <1>1, <1>4 DEF Reach
<1> QED
  BY <1>3, <1>5

-----------------------------------------------------------------------------
(* What a stage leaves as it was.                                          *)

LEMMA StageLeaves ==
  ASSUME Stage
  PROVE  /\ UNCHANGED <<book, registry, decisions, claims, decided>>
         /\ phase = "matching" /\ gap' = gap + 1
         /\ phase' = IF gap = MaxGap THEN "published" ELSE "matching"
BY DEF Stage

LEMMA SettledInNext ==
  ASSUME BuildInv, Stage, NEW t \in Transactions
  PROVE  \/ SettledIn(t)' = SettledIn(t)
         \/ SettledIn(t)' = gap /\ SettledIn(t) = MaxGap + 1
<1> USE DEF BuildInv
<1>1. gap <= MaxGap /\ decided' = decided
  BY StageLeaves DEF Begun
<1>2. UNION StagePairs \subseteq Available /\ UNION HeldSets \subseteq Available
  <2>1. \A s \in StageSets : s \subseteq Available
    BY StageSetLegs
  <2>2. \A p \in StagePairs : p \subseteq Available
    BY <2>1, StagePairWithin DEF SettledSets
  <2> QED
    BY <2>1, <2>2 DEF HeldSets
<1>3. (UNION StagePairs) \cap (UNION HeldSets) = {}
  <2> SUFFICES ASSUME NEW p \in StagePairs, NEW r \in HeldSets, NEW x \in p, x \in r
               PROVE  FALSE
    OBVIOUS
  <2>1. PICK s \in SettledSets : p \subseteq s
    BY StagePairWithin
  <2>2. s \in StageSets /\ r \in StageSets
    BY DEF SettledSets, HeldSets
  <2>3. s = r
    BY <2>1, <2>2, SetOfLeg
  <2> QED
    BY <2>3 DEF HeldSets
<1>4. CASE t \in UNION StagePairs
  <2>1. SettledIn(t) = MaxGap + 1 /\ t \notin decided
    BY <1>1, <1>2, <1>4, AvailableIs DEF Available
  <2>2. t \in DOMAIN paired' /\ paired'[t].gap = gap
    BY <1>4, StageResult
  <2> QED
    BY <1>1, <2>1, <2>2 DEF SettledIn
<1>5. CASE t \in UNION HeldSets
  <2>1. SettledIn(t) = MaxGap + 1 /\ t \in Available
    BY <1>1, <1>2, <1>5, AvailableIs
  <2>2. t \in DOMAIN held' /\ held'[t].gap = gap /\ t \notin DOMAIN paired' /\ t \notin decided'
    BY <1>1, <1>3, <1>5, <2>1, StageResult DEF Available
  <2> QED
    BY <2>1, <2>2 DEF SettledIn
<1>6. CASE t \notin UNION StagePairs /\ t \notin UNION HeldSets
  <2>1. /\ t \in DOMAIN paired' <=> t \in DOMAIN paired
        /\ t \in DOMAIN held' <=> t \in DOMAIN held
        /\ t \in DOMAIN paired => paired'[t] = paired[t]
        /\ t \in DOMAIN held => held'[t] = held[t]
    BY <1>6, StageResult
  <2> QED
    BY <1>1, <2>1 DEF SettledIn
<1> QED
  BY <1>4, <1>5, <1>6

(* So nobody who competed at this gap or before competes less.             *)
LEMMA RivalsNext ==
  ASSUME BuildInv, Stage, NEW t \in Transactions, NEW u \in Transactions,
         DateGap(t, u) <= gap
  PROVE  Rivals(t, u)' <=> Rivals(t, u)
<1>1. gap \in Nat /\ gap <= MaxGap /\ MaxGap \in Nat /\ DateGap(t, u) \in Nat
  BY StageLeaves, BuildAssumption, DateGapType DEF BuildInv, BuildTypeOK, Begun
<1>2. /\ SettledIn(t) \in Int /\ SettledIn(u) \in Int
  BY <1>1, AvailableIs
<1>3. DateGap(t, u)' = DateGap(t, u) /\ (Cancel(t, u) <=> Cancel(t, u)') /\ (Cancel(u, t) <=> Cancel(u, t)')
  BY StageLeaves DEF DateGap, Cancel
<1>4. /\ SettledIn(t)' >= DateGap(t, u) <=> SettledIn(t) >= DateGap(t, u)
      /\ SettledIn(u)' >= DateGap(t, u) <=> SettledIn(u) >= DateGap(t, u)
  BY <1>1, <1>2, SettledInNext
<1> QED
  BY <1>3, <1>4 DEF Rivals

LEMMA ReachNext ==
  ASSUME BuildInv, Stage, NEW t, NEW g \in 0 .. gap
  PROVE  Reach(t, g)' = Reach(t, g)
<1>1. Transactions' = Transactions /\ gap \in Nat
  BY StageLeaves DEF Transactions, BuildInv, BuildTypeOK
<1>2. ASSUME NEW x \in Transactions, NEW u \in Transactions
      PROVE  Rivals(x, u)' /\ DateGap(x, u)' = g <=> Rivals(x, u) /\ DateGap(x, u) = g
  <2>1. DateGap(x, u)' = DateGap(x, u)
    BY StageLeaves DEF DateGap
  <2>2. CASE DateGap(x, u) = g
    BY <1>1, <2>1, <2>2, RivalsNext
  <2>3. CASE DateGap(x, u) # g
    BY <2>1, <2>3
  <2> QED
    BY <2>2, <2>3
<1>3. \A legs \in SUBSET Transactions : Closed(legs, g)' <=> Closed(legs, g)
  BY <1>1, <1>2 DEF Closed
<1> QED
  BY <1>1, <1>3 DEF Reach

-----------------------------------------------------------------------------
(* What is read of an unchanged book.                                      *)

LEMMA SameBook ==
  ASSUME book' = book
  PROVE  /\ Transactions' = Transactions /\ Claims' = Claims /\ Decisions' = Decisions
         /\ \A ts : Sum(ts)' = Sum(ts)
         /\ \A a : First(a)' = First(a)
<1>1. Transactions' = Transactions
  BY DEF Transactions
<1>2. \A t : RuleResult(t)' = RuleResult(t)
  <2> TAKE t
  <2>1. {r \in Rules : Matches(r, t)'} = {r \in Rules : Matches(r, t)}
    BY DEF Matches
  <2> QED
    BY <2>1 DEF RuleResult
<1>3. Claims' = Claims
  BY <1>1, <1>2 DEF Claims
<1>4. \A ts : Sum(ts)' = Sum(ts)
  BY <1>1 DEF Sum
<1>5. \A a : First(a)' = First(a)
  BY <1>1 DEF First
<1>6. Decisions' = Decisions
  BY <1>1 DEF Decisions, Targetable
<1> QED
  BY <1>1, <1>3, <1>4, <1>5, <1>6

LEMMA SameApplicable ==
  ASSUME book' = book, NEW reg, NEW ds, registry' = reg, decisions' = ds
  PROVE  Applicable(registry, decisions)' = Applicable(reg, ds)
<1>1. ASSUME NEW d
      PROVE  Inapplicable(registry, d)' = Inapplicable(reg, d)
  <2>1. \A t : ManagedIn(registry, d.value, book[t].day)' <=> ManagedIn(reg, d.value, book[t].day)
    BY SameBook DEF ManagedIn
  <2>2. {book'[t].account : t \in d.targets} = {book[t].account : t \in d.targets}
    OBVIOUS
  <2> QED
    BY <2>1, <2>2, SameBook DEF Inapplicable
<1> QED
  BY <1>1 DEF Applicable

-----------------------------------------------------------------------------
(* A stage keeps the invariants.                                           *)

(* What a stage settles was available, and is paired or held.              *)
LEMMA StageSettles ==
  ASSUME BuildInv, Stage
  PROVE  /\ UNION StagePairs \subseteq Available /\ UNION HeldSets \subseteq Available
         /\ (UNION StagePairs) \cap (UNION HeldSets) = {}
<1> USE DEF BuildInv
<1>1. \A s \in StageSets : s \subseteq Available
  BY StageSetLegs
<1>2. \A p \in StagePairs : p \subseteq Available
  BY <1>1, StagePairWithin DEF SettledSets
<1>3. ASSUME NEW p \in StagePairs, NEW r \in HeldSets, NEW x \in p, x \in r
      PROVE  FALSE
  <2>1. PICK s \in SettledSets : p \subseteq s
    BY StagePairWithin
  <2>2. s \in StageSets /\ r \in StageSets
    BY DEF SettledSets, HeldSets
  <2>3. s = r
    BY <1>3, <2>1, <2>2, SetOfLeg
  <2> QED
    BY <2>3 DEF HeldSets
<1> QED
  BY <1>1, <1>2, <1>3 DEF HeldSets

LEMMA StageTypes ==
  ASSUME BuildInv, Stage
  PROVE  BuildTypeOK' /\ Begun' /\ SettledOnce'
<1> USE DEF BuildInv
<1>1. /\ UNCHANGED <<book, registry, decisions, claims, decided>> /\ gap' = gap + 1
      /\ phase = "matching" /\ gap <= MaxGap /\ gap \in Nat /\ MaxGap \in Nat
      /\ phase' = IF gap = MaxGap THEN "published" ELSE "matching"
  BY StageLeaves, BuildAssumption DEF Begun, BuildTypeOK
<1>2. Transactions' = Transactions /\ Claims' = Claims /\ Decisions' = Decisions
  BY <1>1, SameBook
<1>3. Applicable(registry, decisions)' = Applicable(registry, decisions)
  <2>1. PICK reg, ds : reg = registry /\ ds = decisions
    OBVIOUS
  <2>2. Applicable(registry, decisions)' = Applicable(reg, ds)
    BY <1>1, <2>1, SameApplicable
  <2> QED
    BY <2>1, <2>2
<1>4. Begun'
  BY <1>1, <1>2, <1>3 DEF Begun
<1>5. SettledOnce' /\ DOMAIN paired' \subseteq Transactions /\ DOMAIN held' \subseteq Transactions
  BY <1>1, StageSettles, StageResult DEF SettledOnce, Available, BuildTypeOK
<1>6. BuildTypeOK'
  <2>1. phase' \in {"booking", "refused", "matching", "published"} /\ gap' \in 0 .. MaxGap + 1
    BY <1>1
  <2> QED
    BY <1>1, <1>2, <1>5, <2>1 DEF BuildTypeOK, SettledOnce
<1> QED
  BY <1>4, <1>5, <1>6

LEMMA StagePairedRight ==
  ASSUME BuildInv, Stage
  PROVE  PairedRight'
<1> USE DEF BuildInv
<1>1. /\ UNCHANGED <<book, claims>> /\ gap' = gap + 1 /\ gap \in Nat /\ gap <= MaxGap
      /\ claims = Claims /\ Transactions' = Transactions
  BY StageLeaves, SameBook DEF Begun, BuildTypeOK
<1>2. /\ \A t, u : Cancel(t, u)' <=> Cancel(t, u)
      /\ \A legs : Alike(legs)' <=> Alike(legs)
      /\ \A t, g : g \in 0 .. gap => Reach(t, g)' = Reach(t, g)
  BY <1>1, ReachNext DEF Cancel, Alike
<1>3. /\ \A g : g \in 0 .. gap - 1 => g \in 0 .. gap /\ g \in 0 .. gap' - 1
      /\ gap \in 0 .. gap /\ gap \in 0 .. gap' - 1
  BY <1>1
<1> SUFFICES ASSUME NEW t \in DOMAIN paired'
             PROVE  \E m \in DOMAIN paired', g \in 0 .. gap' - 1, legs \in SUBSET Transactions :
                      /\ paired'[t].mate = m /\ paired'[t].gap = g
                      /\ paired'[m].mate = t
                      /\ Cancel(t, m) \/ Cancel(m, t)
                      /\ legs = Reach(t, g)' /\ Alike(legs)
  BY <1>1, <1>2 DEF PairedRight
<1>4. CASE t \in UNION StagePairs
  <2>1. PICK p \in StagePairs : t \in p
    BY <1>4
  <2>2. PICK s \in SettledSets : \E o \in Outs(s), i \in Ins(s) : p = {o, i}
    BY StagePairIs
  <2>3. PICK o \in Outs(s), i \in Ins(s) : p = {o, i}
    BY <2>2
  <2>4. Cancel(o, i) /\ o \in s /\ i \in s
    BY <1>1, SettledCancel DEF Outs, Ins
  <2>5. PICK u : p = {t, u} /\ p = {u, t} /\ (Cancel(t, u) \/ Cancel(u, t)) /\ t \in s
    BY <2>1, <2>3, <2>4
  <2>6. /\ paired'[t].mate = u /\ paired'[t].gap = gap /\ paired'[u].mate = t
        /\ u \in DOMAIN paired'
    <3>1. u \in UNION StagePairs /\ {t, u} \in StagePairs /\ {u, t} \in StagePairs
      BY <2>5
    <3>2. /\ Other(CHOOSE q \in StagePairs : t \in q, t) = u
          /\ Other(CHOOSE q \in StagePairs : u \in q, u) = t
      BY <3>1, StageMate
    <3> QED
      BY <1>4, <3>1, <3>2, StageResult
  <2>7. s \in StageSets /\ s \in SUBSET Transactions /\ Alike(s)
    BY SettledAlike, StageSetLegs DEF SettledSets
  <2>8. Reach(t, gap) = s
    BY <1>1, <2>5, <2>7, ReachIsSet
  <2>9. PICK g : g = gap
    OBVIOUS
  <2>10. g \in 0 .. gap' - 1 /\ s = Reach(t, g)'
    BY <1>2, <1>3, <2>8, <2>9
  <2> QED
    BY <2>5, <2>6, <2>7, <2>9, <2>10
<1>5. CASE t \notin UNION StagePairs
  <2>1. t \in DOMAIN paired /\ paired'[t] = paired[t]
    BY <1>5, StageResult
  <2>2. PICK m \in DOMAIN paired, g \in 0 .. gap - 1, legs \in SUBSET Transactions :
          /\ paired[t].mate = m /\ paired[t].gap = g
          /\ paired[m].mate = t
          /\ Cancel(t, m) \/ Cancel(m, t)
          /\ legs = Reach(t, g) /\ Alike(legs)
    BY <2>1 DEF PairedRight
  <2>3. paired'[m] = paired[m] /\ m \in DOMAIN paired'
    BY StageSettles, StageResult DEF Available
  <2>4. Reach(t, g)' = Reach(t, g) /\ g \in 0 .. gap' - 1
    BY <1>2, <1>3
  <2> QED
    BY <2>1, <2>2, <2>3, <2>4
<1> QED
  BY <1>4, <1>5

LEMMA StageHeldRight ==
  ASSUME BuildInv, Stage
  PROVE  HeldRight'
<1> USE DEF BuildInv
<1>1. /\ UNCHANGED <<book, claims>> /\ gap' = gap + 1 /\ gap \in Nat /\ gap <= MaxGap
      /\ Transactions' = Transactions
  BY StageLeaves, SameBook DEF Begun, BuildTypeOK
<1>2. /\ \A legs : Alike(legs)' <=> Alike(legs)
      /\ \A t, g : g \in 0 .. gap => Reach(t, g)' = Reach(t, g)
  BY <1>1, ReachNext DEF Alike
<1>3. /\ \A g : g \in 0 .. gap - 1 => g \in 0 .. gap /\ g \in 0 .. gap' - 1
      /\ gap \in 0 .. gap /\ gap \in 0 .. gap' - 1
  BY <1>1
<1> SUFFICES ASSUME NEW t \in DOMAIN held'
             PROVE  \E g \in 0 .. gap' - 1, legs \in SUBSET Transactions :
                      /\ held'[t].gap = g /\ held'[t].legs = legs
                      /\ legs \subseteq DOMAIN held'
                      /\ legs = Reach(t, g)' /\ ~ Alike(legs)
  BY <1>1, <1>2 DEF HeldRight
<1>4. CASE t \in UNION HeldSets
  <2>1. PICK s \in HeldSets : t \in s
    BY <1>4
  <2>2. s \in StageSets /\ s \in SUBSET Transactions /\ ~ Alike(s)
    BY SettledAlike, StageSetLegs DEF HeldSets, SettledSets
  <2>3. held'[t].legs = s /\ held'[t].gap = gap /\ s \subseteq DOMAIN held'
    BY <1>4, <2>1, <2>2, SetOfLeg, StageResult
  <2>4. Reach(t, gap) = s
    BY <1>1, <2>1, <2>2, ReachIsSet
  <2>5. PICK g : g = gap
    OBVIOUS
  <2>6. g \in 0 .. gap' - 1 /\ s = Reach(t, g)'
    BY <1>2, <1>3, <2>4, <2>5
  <2> QED
    BY <2>2, <2>3, <2>5, <2>6
<1>5. CASE t \notin UNION HeldSets
  <2>1. t \in DOMAIN held /\ held'[t] = held[t]
    BY <1>5, StageResult
  <2>2. PICK g \in 0 .. gap - 1, legs \in SUBSET Transactions :
          /\ held[t].gap = g /\ held[t].legs = legs
          /\ legs \subseteq DOMAIN held
          /\ legs = Reach(t, g) /\ ~ Alike(legs)
    BY <2>1 DEF HeldRight
  <2>3. legs \subseteq DOMAIN held'
    BY <2>2, StageResult
  <2>4. Reach(t, g)' = Reach(t, g) /\ g \in 0 .. gap' - 1
    BY <1>2, <1>3
  <2> QED
    BY <2>1, <2>2, <2>3, <2>4
<1> QED
  BY <1>4, <1>5

(* On sides of different lengths, a leg left over leaves none on the other *)
(* side.                                                                   *)
LEMMA OtherSide ==
  ASSUME NEW A \in SUBSET (Nat \ {0}), IsFiniteSet(A), NEW B \in SUBSET (Nat \ {0}), IsFiniteSet(B),
         NEW t \in A, \A b \in B : RankIn(B, b) # RankIn(A, t),
         NEW u \in B
  PROVE  \E a \in A : RankIn(A, a) = RankIn(B, u)
<1>1. Cardinality(A) \in Nat /\ Cardinality(B) \in Nat
  BY FS_CardinalityType
<1>2. RankIn(A, t) \in 1 .. Cardinality(A) /\ RankIn(B, u) \in 1 .. Cardinality(B)
  BY RankRange
<1>3. RankIn(A, t) \notin 1 .. Cardinality(B)
  BY RanksFill
<1>4. RankIn(B, u) \in 1 .. Cardinality(A)
  BY <1>1, <1>2, <1>3
<1> QED
  BY <1>4, RanksFill

LEMMA LeftOver ==
  ASSUME BuildInv, Stage, NEW s \in SettledSets, NEW t \in s, t \notin UNION StagePairs,
         NEW u \in s, Cancel(t, u) \/ Cancel(u, t)
  PROVE  u \in DOMAIN paired' /\ book[paired'[u].mate] = book[t]
<1> USE DEF BuildInv
<1>1. s \in StageSets /\ Alike(s) /\ s \subseteq Transactions
  BY SettledAlike, StageSetLegs DEF SettledSets
<1>2. ASSUME NEW a \in s, {a, u} \in StagePairs, Sign(book[a].amount) = Sign(book[t].amount)
      PROVE  u \in DOMAIN paired' /\ book[paired'[u].mate] = book[t]
  <2>1. {u, a} \in StagePairs /\ u \in UNION StagePairs
    <3>1. {u, a} = {a, u}
      OBVIOUS
    <3> QED
      BY <1>2, <3>1
  <2>2. paired'[u].mate = a /\ u \in DOMAIN paired'
    BY <2>1, StageMate, StageResult
  <2>3. book[a] = book[t]
    BY <1>1, <1>2 DEF Alike
  <2> QED
    BY <2>2, <2>3
<1>3. /\ Outs(s) \in SUBSET (Nat \ {0}) /\ IsFiniteSet(Outs(s)) /\ Outs(s) \subseteq s
      /\ Ins(s) \in SUBSET (Nat \ {0}) /\ IsFiniteSet(Ins(s)) /\ Ins(s) \subseteq s
      /\ \A x : Rank(x, Outs(s)) = RankIn(Outs(s), x) /\ Rank(x, Ins(s)) = RankIn(Ins(s), x)
  BY <1>1, SidesRank
<1>4. CASE Cancel(t, u)
  <2>1. t \in Outs(s) /\ u \in Ins(s)
    BY <1>1, <1>4, CancelTypes DEF Outs, Ins
  <2>2. ASSUME NEW i \in Ins(s), RankIn(Ins(s), i) = RankIn(Outs(s), t)
        PROVE  FALSE
    <3>1. {t, i} \in StagePairs
      BY <1>3, <2>1, <2>2, StagePairOf
    <3> QED
      BY <3>1
  <2>3. PICK a \in Outs(s) : RankIn(Outs(s), a) = RankIn(Ins(s), u)
    BY <1>3, <2>1, <2>2, OtherSide
  <2>4. {a, u} \in StagePairs
    BY <1>3, <2>1, <2>3, StagePairOf
  <2>5. Sign(book[a].amount) = Sign(book[t].amount)
    BY <1>1, <2>1, BookedTypes DEF Outs, Sign
  <2> QED
    BY <1>2, <1>3, <2>4, <2>5
<1>5. CASE Cancel(u, t)
  <2>1. t \in Ins(s) /\ u \in Outs(s)
    BY <1>1, <1>5, CancelTypes DEF Outs, Ins
  <2>2. ASSUME NEW o \in Outs(s), RankIn(Outs(s), o) = RankIn(Ins(s), t)
        PROVE  FALSE
    <3>1. {o, t} \in StagePairs
      BY <1>3, <2>1, <2>2, StagePairOf
    <3> QED
      BY <3>1
  <2>3. PICK a \in Ins(s) : RankIn(Ins(s), a) = RankIn(Outs(s), u)
    BY <1>3, <2>1, <2>2, OtherSide
  <2>4. {u, a} \in StagePairs /\ {u, a} = {a, u}
    BY <1>3, <2>1, <2>3, StagePairOf
  <2>5. Sign(book[a].amount) = Sign(book[t].amount)
    BY <1>1, <2>1, BookedTypes DEF Ins, Sign
  <2> QED
    BY <1>2, <1>3, <2>4, <2>5
<1> QED
  BY <1>4, <1>5

LEMMA StagePassedRight ==
  ASSUME BuildInv, Stage
  PROVE  PassedRight'
<1> USE DEF BuildInv
<1>1. /\ UNCHANGED <<book, claims, decided>> /\ gap' = gap + 1 /\ gap \in Nat /\ gap <= MaxGap
      /\ MaxGap \in Nat /\ Transactions' = Transactions
  BY StageLeaves, SameBook, BuildAssumption DEF Begun, BuildTypeOK
<1> SUFFICES ASSUME NEW t \in Transactions \ decided, NEW u \in Transactions,
                    Rivals(t, u)', DateGap(t, u)' < SettledIn(t)', DateGap(t, u)' < gap'
             PROVE  u \in DOMAIN paired' /\ book[paired'[u].mate] = book[t]
  BY <1>1 DEF PassedRight
<1>2. DateGap(t, u)' = DateGap(t, u) /\ DateGap(t, u) \in Nat
  BY <1>1, DateGapType DEF DateGap
<1>3. Rivals(t, u) /\ DateGap(t, u) <= gap
  BY <1>1, <1>2, RivalsNext
<1>4. SettledIn(t) \in Int
  BY <1>1, AvailableIs
<1>5. CASE DateGap(t, u) < gap
  <2>1. DateGap(t, u) < SettledIn(t)
    BY <1>1, <1>2, <1>4, <1>5, SettledInNext
  <2>2. u \in DOMAIN paired /\ book[paired[u].mate] = book[t]
    BY <1>3, <1>5, <2>1 DEF PassedRight
  <2>3. u \in DOMAIN paired' /\ paired'[u] = paired[u]
    BY <2>2, StageSettles, StageResult DEF Available
  <2> QED
    BY <2>2, <2>3
<1>6. CASE DateGap(t, u) = gap
  <2>1. {t, u} \in StageCandidates
    BY <1>1, <1>3, <1>6, RivalsAtStage
  <2>2. PICK s \in StageSets : t \in s /\ u \in s
    BY <2>1, StageConnects DEF Connects
  <2>3. t \in Available
    BY <2>2, StageSetLegs
  <2>4. SettledIn(t)' # gap
    BY <1>1, <1>2, <1>4, <1>6, SettledInNext
  <2>5. t \notin UNION StagePairs
    <3>1. SUFFICES ASSUME t \in UNION StagePairs
                   PROVE  SettledIn(t)' = gap
      BY <2>4
    <3>2. t \in DOMAIN paired' /\ paired'[t].gap = gap /\ t \notin decided'
      BY <1>1, <3>1, StageResult
    <3> QED
      BY <3>2 DEF SettledIn
  <2>6. t \notin UNION HeldSets
    <3>1. SUFFICES ASSUME t \in UNION HeldSets
                   PROVE  SettledIn(t)' = gap
      BY <2>4
    <3>2. t \in DOMAIN held' /\ held'[t].gap = gap /\ t \notin decided' /\ t \notin DOMAIN paired'
      BY <1>1, <2>3, <2>5, <3>1, StageResult DEF Available
    <3> QED
      BY <3>2 DEF SettledIn
  <2>7. s \in SettledSets
    BY <2>2, <2>6 DEF HeldSets
  <2>8. Cancel(t, u) \/ Cancel(u, t)
    BY <1>3 DEF Rivals
  <2> QED
    BY <2>2, <2>5, <2>7, <2>8, LeftOver
<1> QED
  BY <1>1, <1>2, <1>3, <1>5, <1>6

-----------------------------------------------------------------------------
(* The invariants hold.                                                    *)

LEMMA BuildInitHolds == BuildInit => BuildInv
<1> SUFFICES ASSUME BuildInit
             PROVE  BuildInv
  OBVIOUS
<1>1. /\ book = <<>> /\ registry = <<>> /\ decisions = {} /\ phase = "booking" /\ claims = {}
      /\ decided = {} /\ gap = 0 /\ paired = <<>> /\ held = <<>>
  BY DEF BuildInit
<1>2. DOMAIN paired = {} /\ DOMAIN held = {} /\ Transactions = {} /\ book \in Seq(Legs) /\ Len(book) = 0
  BY <1>1, EmptySeq DEF Transactions
<1>3. BuildTypeOK /\ Begun
  BY <1>1, <1>2, BuildAssumption DEF BuildTypeOK, Begun
<1> QED
  BY <1>1, <1>2, <1>3 DEF BuildInv, SettledOnce, PairedRight, HeldRight, PassedRight

(* Before the matching has settled anything there is nothing to keep.       *)
LEMMA NothingMatched ==
  ASSUME book' \in Seq(Legs), gap' = 0, DOMAIN paired' = {}, DOMAIN held' = {}
  PROVE  SettledOnce' /\ PairedRight' /\ HeldRight' /\ PassedRight'
<1>1. \A t \in Transactions' : book'[t] \in Legs
  BY ElementOfSeq DEF Transactions
<1>2. \A leg \in Legs : leg.day \in Int
  BY BuildAssumption
<1>3. \A t, u \in Transactions' : DateGap(t, u)' \in Nat
  BY <1>1, <1>2 DEF DateGap
<1>4. SettledOnce' /\ PairedRight' /\ HeldRight'
  BY DEF SettledOnce, PairedRight, HeldRight
<1>5. PassedRight'
  <2> SUFFICES ASSUME NEW t \in Transactions', NEW u \in Transactions', DateGap(t, u)' < gap'
               PROVE  FALSE
    BY DEF PassedRight
  <2> QED
    BY <1>3
<1> QED
  BY <1>4, <1>5

LEMMA BookLegKeeps ==
  ASSUME BuildInv, NEW leg \in Legs, BookLeg(leg)
  PROVE  BuildInv'
<1> USE DEF BuildInv
<1>1. /\ book \in Seq(Legs) /\ book' = Append(book, leg) /\ Len(book) < MaxInputs
      /\ UNCHANGED <<registry, decisions, phase, claims, decided, gap, paired, held>>
      /\ phase = "booking" /\ gap = 0 /\ claims = {} /\ decided = {}
      /\ DOMAIN paired = {} /\ DOMAIN held = {}
  BY DEF BookLeg, BuildTypeOK, Begun
<1>2. book' \in Seq(Legs) /\ Len(book') = Len(book) + 1 /\ Transactions \subseteq Transactions'
      /\ Len(book) \in Nat /\ MaxInputs \in Nat
  BY <1>1, AppendProperties, LenProperties, BuildAssumption DEF Transactions
<1>3. decisions = {}
  BY <1>1 DEF Begun
<1>4. BuildTypeOK' /\ Begun'
  BY <1>1, <1>2, <1>3 DEF BuildTypeOK, Begun
<1> QED
  BY <1>1, <1>2, <1>4, NothingMatched

LEMMA DecisionSetsAre ==
  ASSUME NEW n, NEW ds \in DecisionSets(n)
  PROVE  ds \subseteq Decisions
BY DEF DecisionSets

LEMMA BeginKeeps ==
  ASSUME BuildInv, NEW reg \in Registries, NEW ds \in DecisionSets(MaxInputs - Len(book)),
         Begin(reg, ds)
  PROVE  BuildInv'
<1> USE DEF BuildInv
<1>1. /\ UNCHANGED <<book, gap, paired, held>> /\ registry' = reg /\ decisions' = ds
      /\ phase = "booking" /\ gap = 0 /\ claims = {} /\ decided = {}
      /\ DOMAIN paired = {} /\ DOMAIN held = {}
  BY DEF Begin, Begun
<1>2. /\ Transactions' = Transactions /\ Claims' = Claims /\ Decisions' = Decisions
      /\ ds \subseteq Decisions
  BY <1>1, SameBook, DecisionSetsAre
<1>3. SettledOnce' /\ PairedRight' /\ HeldRight' /\ PassedRight'
  <2>1. book' \in Seq(Legs) /\ gap' = 0 /\ DOMAIN paired' = {} /\ DOMAIN held' = {}
    BY <1>1 DEF BuildTypeOK
  <2> QED
    BY <2>1, NothingMatched
<1>4. CASE Problems(reg, ds)
  <2>1. phase' = "refused" /\ claims' = {} /\ decided' = {}
    BY <1>1, <1>4 DEF Begin
  <2>2. BuildTypeOK' /\ Begun'
    BY <1>1, <1>2, <2>1 DEF BuildTypeOK, Begun
  <2> QED
    BY <1>1, <1>3, <2>2
<1>5. CASE ~ Problems(reg, ds)
  <2>1. /\ phase' = "matching" /\ claims' = Claims
        /\ decided' = UNION {d.targets : d \in Applicable(reg, ds)}
    BY <1>5 DEF Begin
  <2>2. Applicable(registry, decisions)' = Applicable(reg, ds) /\ ~ Overlapping(ds)
    BY <1>1, <1>5, SameApplicable DEF Problems
  <2>3. Claims \subseteq Transactions /\ decided' \subseteq Transactions
    <3>1. \A d \in Applicable(reg, ds) : d.targets \subseteq Transactions
      <4>1. "target-missing" # Nothing
        BY BuildAssumption DEF Reasons
      <4> QED
        BY <4>1 DEF Applicable, Inapplicable
    <3> QED
      BY <2>1, <3>1 DEF Claims
  <2>4. BuildTypeOK'
    BY <1>1, <1>2, <2>1, <2>3 DEF BuildTypeOK
  <2>5. Overlapping(decisions)' <=> Overlapping(ds)
    BY <1>1 DEF Overlapping
  <2>6. Begun'
    BY <1>1, <1>2, <2>1, <2>2, <2>5, BuildAssumption DEF Begun
  <2> QED
    BY <1>3, <2>4, <2>6
<1> QED
  BY <1>4, <1>5

LEMMA BuildNextKeeps == BuildInv /\ [BuildNext]_buildVars => BuildInv'
<1> SUFFICES ASSUME BuildInv, [BuildNext]_buildVars
             PROVE  BuildInv'
  OBVIOUS
<1>1. ASSUME Stage
      PROVE  BuildInv'
  BY <1>1, StageTypes, StagePairedRight, StageHeldRight, StagePassedRight DEF BuildInv
<1>2. ASSUME UNCHANGED buildVars
      PROVE  BuildInv'
  <2>1. /\ book' = book /\ registry' = registry /\ decisions' = decisions /\ phase' = phase
        /\ claims' = claims /\ decided' = decided /\ gap' = gap /\ paired' = paired /\ held' = held
    BY <1>2 DEF buildVars
  <2>2. /\ Transactions' = Transactions /\ Claims' = Claims /\ Decisions' = Decisions
        /\ Applicable(registry, decisions)' = Applicable(registry, decisions)
    BY <2>1, SameBook, SameApplicable
  <2>3. BuildTypeOK' /\ Begun'
    BY <2>1, <2>2 DEF BuildInv, BuildTypeOK, Begun, Overlapping
  <2>4. \A t, u : /\ Cancel(t, u)' <=> Cancel(t, u)
                  /\ DateGap(t, u)' = DateGap(t, u)
                  /\ SettledIn(t)' = SettledIn(t)
    BY <2>1 DEF Cancel, DateGap, SettledIn
  <2>5. \A t, u : Rivals(t, u)' <=> Rivals(t, u)
    BY <2>4 DEF Rivals
  <2>6. \A t, g : Reach(t, g)' = Reach(t, g)
    BY <2>2, <2>4, <2>5 DEF Reach, Closed
  <2>7. \A legs : Alike(legs)' <=> Alike(legs)
    BY <2>1 DEF Alike
  <2>8. SettledOnce' /\ PairedRight'
    BY <2>1, <2>2, <2>4, <2>6, <2>7 DEF BuildInv, SettledOnce, PairedRight
  <2>9. HeldRight' /\ PassedRight'
    BY <2>1, <2>2, <2>4, <2>5, <2>6, <2>7 DEF BuildInv, HeldRight, PassedRight
  <2> QED
    BY <2>3, <2>8, <2>9 DEF BuildInv
<1> QED
  BY <1>1, <1>2, BookLegKeeps, BeginKeeps DEF BuildNext

-----------------------------------------------------------------------------
(* Transfers.                                                              *)

LEMMA TwoOf ==
  ASSUME NEW t, NEW u, t # u
  PROVE  IsFiniteSet({t, u}) /\ Cardinality({t, u}) = 2
<1> DEFINE S == {u}
<1>1. IsFiniteSet(S) /\ Cardinality(S) = 1 /\ t \notin S
  BY FS_Singleton
<1>2. IsFiniteSet(S \cup {t}) /\ Cardinality(S \cup {t}) = 1 + 1
  <2> HIDE DEF S
  <2> QED
    BY <1>1, FS_AddElement
<1>3. S \cup {t} = {t, u}
  OBVIOUS
<1> QED
  BY <1>2, <1>3

LEMMA SumPair ==
  ASSUME BuildTypeOK, NEW t \in Transactions, NEW u \in Transactions, t # u
  PROVE  Sum({t, u}) = book[t].amount + book[u].amount
<1> DEFINE f == [x \in Transactions |-> book[x].amount]
<1>1. \A x \in Transactions : f[x] \in Int
  BY BookedTypes
<1>2. f[t] = book[t].amount /\ f[u] = book[u].amount
  OBVIOUS
<1>3. Sum({t, u}) = SumFunctionOnSet(f, {t, u})
  BY DEF Sum
<1> HIDE DEF f
<1>4. {t, u} \ {t} = {u} /\ {u} \ {u} = {}
  OBVIOUS
<1>5. IsFiniteSet({u}) /\ IsFiniteSet({t, u})
  BY TwoOf, FS_Singleton
<1>6. SumFunctionOnSet(f, {t, u}) = f[t] + SumFunctionOnSet(f, {u})
  BY <1>1, <1>4, <1>5, SumRemove
<1>7. SumFunctionOnSet(f, {u}) = f[u] + 0
  BY <1>1, <1>4, <1>5, SumRemove, SumEmpty
<1> QED
  BY <1>1, <1>2, <1>3, <1>6, <1>7

(* Two transactions of different accounts that cancel, each naming both.   *)
IsTransfer(g) ==
  /\ g \in SUBSET Transactions
  /\ Cardinality(g) = 2
  /\ Sum(g) = 0
  /\ Cardinality({book[u].account : u \in g}) = 2
  /\ \A u \in g : Outcome(u).group = g

LEMMA DecisionIs ==
  ASSUME BuildInv, phase = "published",
         NEW d \in Applicable(registry, decisions), NEW t \in d.targets
  PROVE  t \in decided /\ DecisionOn(t) = d
<1>1. t \in decided
  BY DEF BuildInv, Begun
<1>2. DecisionOn(t) \in Applicable(registry, decisions) /\ t \in DecisionOn(t).targets
  BY DEF DecisionOn
<1>3. DecisionOn(t) \in decisions /\ d \in decisions
  BY <1>2 DEF Applicable
<1> QED
  BY <1>1, <1>2, <1>3 DEF BuildInv, Begun, Overlapping

LEMMA PairDecision ==
  ASSUME BuildInv, NEW d \in Applicable(registry, decisions), d.kind = "pair"
  PROVE  /\ d.targets \in SUBSET Transactions
         /\ Cardinality(d.targets) = 2
         /\ Sum(d.targets) = 0
         /\ Cardinality({book[t].account : t \in d.targets}) = 2
<1>1. d \in Decisions /\ Inapplicable(registry, d) = Nothing
  BY DEF Applicable, BuildInv, BuildTypeOK
<1>2. Cardinality(d.targets) = 2
  BY <1>1 DEF Decisions, kSubset
<1>3. Nothing \notin Reasons
  BY BuildAssumption
<1>4. /\ d.targets \subseteq Transactions
      /\ Sum(d.targets) = 0
      /\ Cardinality({book[t].account : t \in d.targets}) # 1
  BY <1>1, <1>3 DEF Inapplicable, Reasons
<1>5. PICK t, u : d.targets = {t, u} /\ t # u
  <2>1. IsFiniteSet(d.targets)
    BY <1>4, BookedTypes, FS_Subset DEF BuildInv
  <2>2. d.targets # {}
    BY <1>2, FS_EmptySet
  <2>3. PICK t \in d.targets : TRUE
    BY <2>2
  <2>4. IsFiniteSet(d.targets \ {t}) /\ Cardinality(d.targets \ {t}) = 1
    BY <1>2, <2>1, <2>3, FS_RemoveElement
  <2>5. PICK u : d.targets \ {t} = {u}
    BY <2>4, FS_Singleton
  <2>6. d.targets = {t, u} /\ t # u
    BY <2>3, <2>5
  <2> QED
    BY <2>6
<1>6. {book[x].account : x \in d.targets} = {book[t].account, book[u].account}
  BY <1>5
<1>7. book[t].account # book[u].account
  <2> SUFFICES ASSUME book[t].account = book[u].account
               PROVE  FALSE
    OBVIOUS
  <2>1. {book[x].account : x \in d.targets} = {book[t].account}
    BY <1>6
  <2> QED
    BY <1>4, <2>1, FS_Singleton
<1>8. Cardinality({book[x].account : x \in d.targets}) = 2
  <2>1. Cardinality({book[t].account, book[u].account}) = 2
    BY <1>7, TwoOf
  <2> QED
    BY <1>6, <2>1
<1> QED
  BY <1>2, <1>4, <1>8

LEMMA GroupIs ==
  ASSUME BuildInv, phase = "published", NEW t \in Grouped
  PROVE  t \in Outcome(t).group /\ IsTransfer(Outcome(t).group)
<1>1. t \in Transactions /\ Outcome(t).group # Nothing
  BY DEF Grouped
<1>2. CASE t \in decided
  <2>1. PICK d \in Applicable(registry, decisions) : t \in d.targets
    BY <1>2 DEF BuildInv, Begun
  <2>2. \A u \in d.targets : u \in decided /\ DecisionOn(u) = d
    BY <2>1, DecisionIs
  <2>3. \A u \in d.targets : Outcome(u) = Applied(d, u)
    BY <2>2 DEF Outcome
  <2>4. d \in Decisions
    BY DEF Applicable, BuildInv, BuildTypeOK
  <2>5. d.kind \in {"classify", "adjust", "pair", "one-sided"}
    BY <2>4 DEF Decisions
  <2>6. d.kind = "pair"
    BY <1>1, <2>1, <2>3, <2>5 DEF Applied, Typed
  <2>7. \A u \in d.targets : Outcome(u).group = d.targets
    BY <2>3, <2>6 DEF Applied, Typed
  <2>8. IsTransfer(d.targets)
    BY <2>6, <2>7, PairDecision DEF IsTransfer
  <2> QED
    BY <2>1, <2>7, <2>8
<1>3. CASE t \notin decided
  <2>1. t \in DOMAIN paired
    BY <1>1, <1>3 DEF Outcome, Settled, Typed
  <2>2. PICK m \in DOMAIN paired : /\ paired[t].mate = m /\ paired[m].mate = t
                                   /\ Cancel(t, m) \/ Cancel(m, t)
    BY <2>1 DEF BuildInv, PairedRight
  <2>3. m \in Transactions /\ m \notin decided
    BY <2>2 DEF BuildInv, BuildTypeOK, SettledOnce
  <2>4. t # m /\ book[t].amount + book[m].amount = 0
    BY <1>1, <2>2, <2>3, CancelTypes, BookedTypes DEF BuildInv
  <2>5. Outcome(t).group = {t, m} /\ Outcome(m).group = {t, m}
    <3>1. Outcome(t) = Settled(t) /\ Outcome(m) = Settled(m)
      BY <1>3, <2>3 DEF Outcome
    <3>2. Settled(t) = Typed("transfer", {t, m}, Nothing) /\ Settled(m) = Typed("transfer", {m, t}, Nothing)
      <4>1. \A x \in DOMAIN paired : x \notin DOMAIN held
        BY DEF BuildInv, SettledOnce
      <4>2. \A x \in DOMAIN paired : Settled(x) = Typed("transfer", {x, paired[x].mate}, Nothing)
        BY <4>1, Zenon DEF Settled
      <4> QED
        BY <2>1, <2>2, <4>2
    <3>3. {m, t} = {t, m}
      OBVIOUS
    <3> QED
      BY <3>1, <3>2, <3>3 DEF Typed
  <2>6. Sum({t, m}) = 0
    BY <1>1, <2>3, <2>4, SumPair DEF BuildInv
  <2>7. {book[u].account : u \in {t, m}} = {book[t].account, book[m].account}
    OBVIOUS
  <2>8. book[t].account # book[m].account
    BY <2>2 DEF Cancel
  <2>9. /\ {t, m} \in SUBSET Transactions /\ Cardinality({t, m}) = 2
        /\ Cardinality({book[u].account : u \in {t, m}}) = 2
    <3>1. Cardinality({book[t].account, book[m].account}) = 2
      BY <2>8, TwoOf
    <3>2. Cardinality({t, m}) = 2
      BY <2>4, TwoOf
    <3> QED
      BY <1>1, <2>3, <2>7, <3>1, <3>2
  <2>10. IsTransfer({t, m})
    BY <2>5, <2>6, <2>9 DEF IsTransfer
  <2> QED
    BY <2>5, <2>10
<1> QED
  BY <1>2, <1>3

LEMMA GroupedSum ==
  ASSUME BuildInv, phase = "published"
  PROVE  Sum(Grouped) = 0
<1> DEFINE f == [x \in Transactions |-> book[x].amount]
           h == [x \in Grouped |-> Outcome(x).group]
           C == SUBSET Transactions
           g == [c \in C |-> SumFunctionOnSet(f, Group(Grouped, h, c))]
<1>1. IsFiniteSet(Grouped) /\ IsFiniteSet(C) /\ Grouped \subseteq Transactions
  BY BookedTypes, FS_Subset, FS_SUBSET DEF BuildInv, Grouped
<1>2. \A x \in Grouped : f[x] \in Int /\ h[x] \in C
  BY <1>1, BookedTypes, GroupIs DEF BuildInv, IsTransfer
<1>3. \A c \in C : g[c] = 0
  <2> SUFFICES ASSUME NEW c \in C
               PROVE  SumFunctionOnSet(f, Group(Grouped, h, c)) = 0
    OBVIOUS
  <2>1. CASE Group(Grouped, h, c) = {}
    BY <2>1, SumEmpty
  <2>2. CASE Group(Grouped, h, c) # {}
    <3>1. PICK t \in Grouped : Outcome(t).group = c
      BY <2>2 DEF Group
    <3>2. IsTransfer(c)
      BY <3>1, GroupIs
    <3>3. Group(Grouped, h, c) = c
      <4>1. \A u \in c : u \in Grouped /\ h[u] = c
        BY <1>1, <3>1, <3>2 DEF IsTransfer, Grouped
      <4>2. \A u \in Grouped : h[u] = c => u \in c
        BY GroupIs
      <4> QED
        BY <4>1, <4>2 DEF Group
    <3> QED
      BY <3>2, <3>3 DEF IsTransfer, Sum
  <2> QED
    BY <2>1, <2>2
<1>4. SumFunctionOnSet(f, Grouped) = SumFunctionOnSet(g, C)
  <2>1. \A c \in C : g[c] = SumFunctionOnSet(f, Group(Grouped, h, c))
    OBVIOUS
  <2> HIDE DEF f, g, h, C
  <2> QED
    BY <1>1, <1>2, <2>1, SumGrouped
<1>5. SumFunctionOnSet(g, C) = 0
  <2> HIDE DEF g, C
  <2> QED
    BY <1>1, <1>3, SumZero
<1> QED
  BY <1>4, <1>5 DEF Sum

(* Every type of a published build that is a transfer's is one leg of two. *)
LEMMA SoundPairs == BuildInv => PairsAreSound
<1> SUFFICES ASSUME BuildInv, phase = "published"
             PROVE  PairsAreSound
  BY DEF PairsAreSound
<1>1. ASSUME NEW t \in Grouped
      PROVE  LET mates == {u \in Grouped : Outcome(u).group = Outcome(t).group}
             IN /\ mates = Outcome(t).group
                /\ Cardinality(mates) = 2
                /\ Sum(mates) = 0
                /\ Cardinality({book[u].account : u \in mates}) = 2
  <2> DEFINE g == Outcome(t).group
  <2>1. IsTransfer(g) /\ g # Nothing
    BY GroupIs DEF Grouped
  <2>2. {u \in Grouped : Outcome(u).group = g} = g
    <3>1. \A u \in g : u \in Grouped /\ Outcome(u).group = g
      BY <2>1 DEF IsTransfer, Grouped
    <3>2. \A u \in Grouped : Outcome(u).group = g => u \in g
      BY GroupIs
    <3> QED
      BY <3>1, <3>2
  <2> QED
    BY <2>1, <2>2 DEF IsTransfer
<1>2. ASSUME NEW t \in DOMAIN paired
      PROVE  /\ paired[paired[t].mate].mate = t
             /\ t \notin decided \cup DOMAIN held
             /\ {t, paired[t].mate} \cap claims # {}
  <2>1. PICK m \in DOMAIN paired : /\ paired[t].mate = m /\ paired[m].mate = t
                                   /\ Cancel(t, m) \/ Cancel(m, t)
    BY DEF BuildInv, PairedRight
  <2> QED
    BY <2>1 DEF BuildInv, SettledOnce, Cancel
<1> QED
  BY <1>1, <1>2, GroupedSum DEF PairsAreSound

-----------------------------------------------------------------------------
(* What is unclassified, and what is asked.                                *)

(* _outcome: a review item goes with no type.                              *)
LEMMA RuleReview ==
  ASSUME NEW t
  PROVE  /\ RuleResult(t).type = "unknown" <=> RuleResult(t).review # Nothing
         /\ RuleResult(t).review # Nothing =>
              RuleResult(t).review \in {"unclassified", "rule-conflict", "unmatched-transfer", "sign-mismatch"}
<1> DEFINE R(type, review) == [type |-> type, review |-> review]
<1>1. Nothing \notin ReviewKinds
  BY BuildAssumption
<1> DEFINE matching == {r \in Rules : Matches(r, t)}
           winners == {r \in matching : \A q \in matching : q.priority <= r.priority}
           then == CHOOSE x \in {r.then : r \in winners} : TRUE
           type == CategoryType(then, book[t].amount)
<1>2. RuleResult(t) \in
        {R("unknown", "unclassified"), R("unknown", "rule-conflict"),
         R("unknown", "unmatched-transfer"), R("adjustment", Nothing),
         IF type = "unknown" THEN R("unknown", "sign-mismatch") ELSE R(type, Nothing)}
  BY Zenon DEF RuleResult
<1> HIDE DEF type
<1> QED
  BY <1>1, <1>2 DEF ReviewKinds

LEMMA DecidedOutcome ==
  ASSUME BuildInv, phase = "published", NEW t \in decided
  PROVE  Outcome(t).item = Nothing /\ Source(t) = "manual"
<1>1. PICK d \in Applicable(registry, decisions) : t \in d.targets
  BY DEF BuildInv, Begun
<1>2. DecisionOn(t) = d
  BY <1>1, DecisionIs
<1>3. Outcome(t) = Applied(d, t)
  BY <1>2 DEF Outcome
<1>4. d \in Decisions
  BY DEF Applicable, BuildInv, BuildTypeOK
<1>5. d.kind \in {"classify", "adjust", "pair", "one-sided"}
  BY <1>4 DEF Decisions
<1>6. Outcome(t).item = Nothing
  BY <1>3, <1>5 DEF Applied, Typed
<1>7. t \notin DOMAIN paired
  BY DEF BuildInv, SettledOnce
<1>8. Source(t) = "manual"
  BY <1>7, Zenon DEF Source
<1> QED
  BY <1>6, <1>8

LEMMA PairedOutcome ==
  ASSUME BuildInv, NEW t \in DOMAIN paired
  PROVE  t \notin decided /\ Outcome(t).item = Nothing /\ Source(t) = "transfer_match"
<1>1. t \notin decided /\ t \notin DOMAIN held
  BY DEF BuildInv, SettledOnce
<1>2. Settled(t) = Typed("transfer", {t, paired[t].mate}, Nothing)
  BY <1>1, Zenon DEF Settled
<1>3. Outcome(t).item = Nothing
  BY <1>1, <1>2 DEF Outcome, Typed
<1>4. Source(t) = "transfer_match"
  BY <1>1, Zenon DEF Source
<1> QED
  BY <1>1, <1>3, <1>4

LEMMA HeldOutcome ==
  ASSUME BuildInv, NEW t \in DOMAIN held
  PROVE  /\ t \notin decided /\ t \notin DOMAIN paired
         /\ Outcome(t).item = Item("ambiguous-transfer", held[t].legs, Nothing)
         /\ Source(t) = "unclassified"
<1>1. t \notin decided /\ t \notin DOMAIN paired
  BY DEF BuildInv, SettledOnce
<1>2. Settled(t) = Typed("unknown", Nothing, Item("ambiguous-transfer", held[t].legs, Nothing))
  BY <1>1, Zenon DEF Settled
<1>3. /\ Outcome(t).item = Item("ambiguous-transfer", held[t].legs, Nothing)
      /\ Outcome(t).type = "unknown"
  BY <1>1, <1>2 DEF Outcome, Typed
<1>4. Source(t) = "unclassified"
  BY <1>1, <1>3, Zenon DEF Source
<1> QED
  BY <1>1, <1>3, <1>4

LEMMA LeftOutcome ==
  ASSUME BuildInv, NEW t \in Transactions \ (decided \cup DOMAIN paired \cup DOMAIN held)
  PROVE  /\ RuleResult(t).review = Nothing => Outcome(t).item = Nothing /\ Source(t) = "rule"
         /\ RuleResult(t).review # Nothing =>
              /\ Outcome(t).item = Item(RuleResult(t).review, {t},
                                        IF t \in claims THEN UnmatchedReason(t) ELSE Nothing)
              /\ Source(t) = "unclassified"
<1> DEFINE why == IF t \in claims THEN UnmatchedReason(t) ELSE Nothing
<1>1. t \notin decided /\ t \notin DOMAIN paired /\ t \notin DOMAIN held
  OBVIOUS
<1>2. Settled(t) = Typed(RuleResult(t).type, Nothing,
                         IF RuleResult(t).review = Nothing THEN Nothing
                         ELSE Item(RuleResult(t).review, {t}, why))
  BY <1>1, Zenon DEF Settled
<1> HIDE DEF why
<1>3. /\ Outcome(t).item = IF RuleResult(t).review = Nothing THEN Nothing
                           ELSE Item(RuleResult(t).review, {t}, why)
      /\ Outcome(t).type = RuleResult(t).type
  BY <1>1, <1>2 DEF Outcome, Typed
<1>4. Source(t) = IF Outcome(t).type = "unknown" THEN "unclassified" ELSE "rule"
  BY <1>1, Zenon DEF Source
<1> QED
  BY <1>3, <1>4, RuleReview DEF why

(* A review item is something.                                             *)
LEMMA ItemIsSome ==
  ASSUME BuildInv, NEW kind \in ReviewKinds, NEW ts \in SUBSET Transactions,
         NEW reason \in Reasons \cup {Nothing}
  PROVE  Item(kind, ts, reason) # Nothing
<1>1. ts \in SUBSET (1 .. MaxInputs)
  BY BookedTypes, BuildAssumption DEF BuildInv, Begun
<1>2. Item(kind, ts, reason) \in
        [kind : ReviewKinds, names : SUBSET (1 .. MaxInputs), reason : Reasons \cup {Nothing}]
  BY <1>1 DEF Item
<1> QED
  BY <1>2, BuildAssumption

(* A leg that is held is one of those it is held with.                     *)
LEMMA HeldWith ==
  ASSUME BuildInv, NEW t \in DOMAIN held
  PROVE  /\ t \in held[t].legs /\ held[t].legs \subseteq DOMAIN held
         /\ held[t].legs \in SUBSET Transactions
         /\ held[t].legs = Reach(t, held[t].gap)
         /\ ~ Alike(held[t].legs)
<1>1. t \in Transactions
  BY DEF BuildInv, BuildTypeOK
<1>2. \A g : t \in Reach(t, g)
  BY <1>1 DEF Reach
<1> QED
  BY <1>2 DEF BuildInv, HeldRight

LEMMA UnclassifiedIsAsked ==
  ASSUME BuildInv, phase = "published", NEW t \in Transactions, Source(t) = "unclassified"
  PROVE  \E i \in ReviewItems : i.kind # "decision-not-applicable" /\ t \in i.names
<1>1. t \notin decided /\ t \notin DOMAIN paired
  BY DecidedOutcome, PairedOutcome
<1>2. CASE t \in DOMAIN held
  <2> DEFINE i == Item("ambiguous-transfer", held[t].legs, Nothing)
  <2>1. i = Outcome(t).item /\ i # Nothing
    BY <1>2, HeldOutcome, HeldWith, ItemIsSome DEF ReviewKinds
  <2>2. i.kind = "ambiguous-transfer" /\ t \in i.names
    BY <1>2, HeldWith DEF Item
  <2> HIDE DEF i
  <2> QED
    BY <2>1, <2>2 DEF ReviewItems
<1>3. CASE t \notin DOMAIN held
  <2> DEFINE why == IF t \in claims THEN UnmatchedReason(t) ELSE Nothing
             i == Item(RuleResult(t).review, {t}, why)
  <2>1. RuleResult(t).review # Nothing
    BY <1>1, <1>3, LeftOutcome
  <2>2. i = Outcome(t).item
    BY <1>1, <1>3, <2>1, LeftOutcome
  <2>3. why \in Reasons \cup {Nothing}
    BY DEF UnmatchedReason, Reasons
  <2>4. RuleResult(t).review \in ReviewKinds \ {"decision-not-applicable"}
    BY <2>1, RuleReview DEF ReviewKinds
  <2>5. i # Nothing
    <3> HIDE DEF why
    <3> QED
      BY <2>3, <2>4, ItemIsSome
  <2>6. i.kind # "decision-not-applicable" /\ t \in i.names
    BY <2>4 DEF Item
  <2> HIDE DEF i
  <2> QED
    BY <2>2, <2>5, <2>6 DEF ReviewItems
<1> QED
  BY <1>2, <1>3

LEMMA AskedIsUnclassified ==
  ASSUME BuildInv, phase = "published", NEW t \in Transactions,
         NEW i \in ReviewItems, i.kind # "decision-not-applicable", t \in i.names
  PROVE  Source(t) = "unclassified"
<1>1. PICK u \in Transactions : Outcome(u).item = i /\ i # Nothing
  BY DEF ReviewItems, NotApplicable, Item
<1>2. u \notin decided /\ u \notin DOMAIN paired
  BY <1>1, DecidedOutcome, PairedOutcome
<1>3. CASE u \in DOMAIN held
  <2>1. t \in held[u].legs
    <3>1. Outcome(u).item = Item("ambiguous-transfer", held[u].legs, Nothing)
      BY <1>3, HeldOutcome
    <3> QED
      BY <1>1, <3>1 DEF Item
  <2> QED
    BY <1>3, <2>1, HeldWith, HeldOutcome
<1>4. CASE u \notin DOMAIN held
  <2>1. RuleResult(u).review # Nothing
    BY <1>1, <1>2, <1>4, LeftOutcome
  <2>2. t = u
    <3>1. Outcome(u).item = Item(RuleResult(u).review, {u},
                                 IF u \in claims THEN UnmatchedReason(u) ELSE Nothing)
      BY <1>2, <1>4, <2>1, LeftOutcome
    <3> QED
      BY <1>1, <3>1 DEF Item
  <2> QED
    BY <1>2, <1>4, <2>1, <2>2, LeftOutcome
<1> QED
  BY <1>3, <1>4

(* _unmatched_reason: no account could still get the counterpart.          *)
LEMMA NoCandidate ==
  ASSUME BuildInv, phase = "published", NEW t \in Transactions,
         Outcome(t).item # Nothing, Outcome(t).item.reason = "no-candidate",
         NEW a \in DOMAIN registry \ {book[t].account}, NEW d \in Dates,
         Latest(a) # Nothing => Latest(a) < d,
         registry[a] # Nothing => d <= registry[a]
  PROVE  d \notin book[t].day - MaxGap .. book[t].day + MaxGap
<1>1. Nothing # "no-candidate"
  BY BuildAssumption DEF Reasons
<1>2. t \notin decided /\ t \notin DOMAIN paired
  BY DecidedOutcome, PairedOutcome
<1>3. t \notin DOMAIN held
  <2> SUFFICES ASSUME t \in DOMAIN held
               PROVE  FALSE
    OBVIOUS
  <2>1. Outcome(t).item = Item("ambiguous-transfer", held[t].legs, Nothing)
    BY HeldOutcome
  <2> QED
    BY <1>1, <2>1 DEF Item
<1>4. UnmatchedReason(t) = "no-candidate"
  <2>1. Outcome(t).item = Item(RuleResult(t).review, {t},
                               IF t \in claims THEN UnmatchedReason(t) ELSE Nothing)
    BY <1>2, <1>3, LeftOutcome
  <2> QED
    BY <1>1, <2>1 DEF Item
<1>5. ~ (/\ registry[a] = Nothing \/ registry[a] >= book[t].day - MaxGap
         /\ Latest(a) = Nothing \/ Latest(a) < book[t].day + MaxGap)
  BY <1>4 DEF UnmatchedReason
<1>6. book[t].day \in Int /\ MaxGap \in Nat /\ d \in Int
  BY BookedTypes, BuildAssumption DEF BuildInv
<1>7. registry[a] # Nothing => registry[a] \in Int
  <2>1. registry \in Registries
    BY DEF BuildInv, BuildTypeOK
  <2> QED
    BY <2>1, BuildAssumption
<1>8. Latest(a) # Nothing => Latest(a) \in Int
  <2> DEFINE booked == {u \in Transactions : book[u].account = a}
             days == {book[u].day : u \in booked}
  <2>1. IsFiniteSet(booked) /\ \A u \in booked : book[u].day \in Int
    BY BookedTypes, FS_Subset DEF BuildInv
  <2>2. IsFiniteSet(days)
    <3> DEFINE f == [u \in booked |-> book[u].day]
    <3>1. f \in Surjection(booked, days)
      BY DEF Surjection
    <3> QED
      BY <2>1, <3>1, FS_Surjection
  <2>3. CASE days = {}
    BY <2>3 DEF Latest
  <2>4. CASE days # {}
    <3>1. days \in SUBSET Int
      BY <2>1
    <3>2. Latest(a) = Max(days)
      BY <2>4 DEF Latest
    <3> HIDE DEF days
    <3> QED
      BY <2>2, <2>4, <3>1, <3>2, MaxIsGreatest
  <2> QED
    BY <2>3, <2>4
<1> QED
  BY <1>5, <1>6, <1>7, <1>8

LEMMA GuessesNothing == BuildInv => NothingIsGuessed
<1> SUFFICES ASSUME BuildInv, phase = "published"
             PROVE  NothingIsGuessed
  BY DEF NothingIsGuessed
<1>1. gap = MaxGap + 1 /\ MaxGap \in Nat
  BY BuildAssumption DEF BuildInv, Begun
<1>2. \A t \in Transactions :
        Source(t) = "unclassified" <=>
          \E i \in ReviewItems : i.kind # "decision-not-applicable" /\ t \in i.names
  BY UnclassifiedIsAsked, AskedIsUnclassified
<1>3. ASSUME NEW t \in DOMAIN paired
      PROVE  Alike(Reach(t, paired[t].gap))
  BY DEF BuildInv, PairedRight
<1>4. ASSUME NEW t \in DOMAIN held
      PROVE  /\ held[t].legs = Reach(t, held[t].gap)
             /\ ~ Alike(held[t].legs)
             /\ Outcome(t).item.names = held[t].legs
  <2>1. Outcome(t).item = Item("ambiguous-transfer", held[t].legs, Nothing)
    BY HeldOutcome
  <2>2. Outcome(t).item.names = held[t].legs
    BY <2>1 DEF Item
  <2> QED
    BY <2>2, HeldWith
<1>5. ASSUME NEW t \in Transactions \ decided, NEW u \in Transactions,
             Rivals(t, u), DateGap(t, u) < SettledIn(t)
      PROVE  u \in DOMAIN paired /\ book[paired[u].mate] = book[t]
  <2>1. DateGap(t, u) < gap
    BY <1>1, <1>5, DateGapType DEF Rivals, BuildInv
  <2> QED
    BY <1>5, <2>1 DEF BuildInv, PassedRight
<1> QED
  BY <1>2, <1>3, <1>4, <1>5, NoCandidate DEF NothingIsGuessed, Alike

-----------------------------------------------------------------------------
LEMMA BuildInvariant == BuildSpec => []BuildInv
BY BuildInitHolds, BuildNextKeeps, PTL DEF BuildSpec

(* build.py, classification.py and transfers.py keep what they work on     *)
(* typed: decisions, claims and matched legs are of booked transactions,   *)
(* and no leg is both paired and held.                                     *)
THEOREM BuildTypeCorrect == BuildSpec => []BuildTypeOK
<1>1. BuildInv => BuildTypeOK
  BY DEF BuildInv
<1> QED
  BY <1>1, BuildInvariant, PTL

(* A transfer changes no total: what a decision pairs and what the         *)
(* matching pairs are two transactions of different accounts that cancel,  *)
(* each the other's only counterpart.                                      *)
THEOREM TransfersChangeNoTotal == BuildSpec => []PairsAreSound
BY SoundPairs, BuildInvariant, PTL

(* transfers.py and classification.py do not guess: a leg is paired among  *)
(* its like only, is held with all that compete for it, directly or not,   *)
(* is passed over for its like only; and what is unclassified is what a    *)
(* review item asks for.                                                   *)
THEOREM GoldGuessesNothing == BuildSpec => []NothingIsGuessed
BY GuessesNothing, BuildInvariant, PTL

=============================================================================
