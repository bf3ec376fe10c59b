----------------------------- MODULE FiniteFacts -----------------------------
(***************************************************************************)
(* Lemmas on finite sets of numbers, which have a least and a greatest     *)
(* member, on induction over a finite set, on the sums of a function over  *)
(* one, in whatever order they are taken, and on its members' numbers.     *)
(***************************************************************************)
EXTENDS Integers, FiniteSetsExt, Functions, TLAPS, FiniteSetTheorems, WellFoundedInduction

\* A finite set has a member that a strict order puts no other before: of the
\* sets of members before a member, one is minimal under inclusion.
LEMMA HasMinimal ==
  ASSUME NEW S, IsFiniteSet(S), S # {},
         NEW R \in SUBSET (S \X S),
         \A x \in S : <<x, x>> \notin R,
         \A x, y, z \in S : <<x, y>> \in R /\ <<y, z>> \in R => <<x, z>> \in R
  PROVE  \E m \in S : \A s \in S : <<s, m>> \notin R
<1> DEFINE Before(r) == {s \in S : <<s, r>> \in R}
           T == {Before(r) : r \in S}
<1>1. T \subseteq FiniteSubsetsOf(S) /\ T # {}
  <2>0. \A r \in S : Before(r) \in SUBSET S
    OBVIOUS
  <2> HIDE DEF Before
  <2>1. T \subseteq SUBSET S
    BY <2>0
  <2>2. T # {}
    <3>1. PICK x : x \in S
      OBVIOUS
    <3>2. Before(x) \in T
      BY <3>1
    <3> QED
      BY <3>2
  <2>3. FiniteSubsetsOf(S) = SUBSET S
    BY FS_FiniteSubsetsOfFinite
  <2> QED
    BY <2>1, <2>2, <2>3
<1>2. PICK m \in T : \A t \in T : <<t, m>> \notin StrictSubsetOrdering(S)
  <2> HIDE DEF T
  <2> QED
    BY <1>1, FS_StrictSubsetOrderingWellFounded, WFMin
<1>3. PICK r \in S : m = Before(r)
  BY <1>2
<1>4. ASSUME NEW s \in S, <<s, r>> \in R
      PROVE  FALSE
  <2>1. Before(s) \subseteq Before(r) /\ s \in Before(r) /\ s \notin Before(s)
    BY <1>4
  <2>2. <<Before(s), Before(r)>> \in StrictSubsetOrdering(S)
    <3>1. Before(s) \subseteq S /\ Before(r) \subseteq S /\ Before(s) # Before(r)
      BY <2>1
    <3> HIDE DEF Before
    <3> QED
      BY <2>1, <3>1 DEF StrictSubsetOrdering
  <2>3. Before(s) \in T
    OBVIOUS
  <2> QED
    BY <1>2, <1>3, <2>2, <2>3
<1> QED
  BY <1>4

\* Min is the least member.
LEMMA MinIsLeast ==
  ASSUME NEW S \in SUBSET Int, IsFiniteSet(S), S # {}
  PROVE  Min(S) \in S /\ \A s \in S : Min(S) <= s
<1> DEFINE R == {p \in S \X S : p[1] < p[2]}
<1>1. \A x, y \in S : <<x, y>> \in R <=> x < y
  OBVIOUS
<1>2. \E m \in S : \A s \in S : <<s, m>> \notin R
  <2>1. /\ R \in SUBSET (S \X S)
        /\ \A x \in S : <<x, x>> \notin R
        /\ \A x, y, z \in S : <<x, y>> \in R /\ <<y, z>> \in R => <<x, z>> \in R
    BY <1>1
  <2> HIDE DEF R
  <2> QED
    BY <2>1, HasMinimal
<1>3. \E m \in S : \A s \in S : m <= s
  <2>1. PICK m \in S : \A s \in S : ~(s < m)
    BY <1>1, <1>2
  <2> QED
    BY <2>1
<1> QED
  BY <1>3 DEF Min

\* Max is the greatest member.
LEMMA MaxIsGreatest ==
  ASSUME NEW S \in SUBSET Int, IsFiniteSet(S), S # {}
  PROVE  Max(S) \in S /\ \A s \in S : s <= Max(S)
<1> DEFINE R == {p \in S \X S : p[1] > p[2]}
<1>1. \A x, y \in S : <<x, y>> \in R <=> x > y
  OBVIOUS
<1>2. \E m \in S : \A s \in S : <<s, m>> \notin R
  <2>1. /\ R \in SUBSET (S \X S)
        /\ \A x \in S : <<x, x>> \notin R
        /\ \A x, y, z \in S : <<x, y>> \in R /\ <<y, z>> \in R => <<x, z>> \in R
    BY <1>1
  <2> HIDE DEF R
  <2> QED
    BY <2>1, HasMinimal
<1>3. \E m \in S : \A s \in S : m >= s
  <2>1. PICK m \in S : \A s \in S : ~(s > m)
    BY <1>1, <1>2
  <2> QED
    BY <2>1
<1>4. Max(S) \in S /\ \A s \in S : Max(S) >= s
  BY <1>3 DEF Max
<1> QED
  BY <1>4

\* So has a set of naturals that need not be finite.
LEMMA HasLeast ==
  ASSUME NEW S \in SUBSET Nat, S # {}
  PROVE  \E m \in S : \A s \in S : m <= s
<1>1. PICK n \in Nat : n \in S
  OBVIOUS
<1> DEFINE T == {s \in S : s <= n}
<1>2. T \subseteq Nat /\ T \subseteq 0 .. n /\ n \in T
  <2>1. \A s \in T : s \in Nat /\ s <= n
    OBVIOUS
  <2>2. n \in T
    BY <1>1
  <2> HIDE DEF T
  <2> QED
    BY <1>1, <2>1, <2>2
<1>3. IsFiniteSet(T)
  <2> HIDE DEF T
  <2>1. IsFiniteSet(0 .. n)
    BY <1>1, FS_Interval
  <2> QED
    BY <1>2, <2>1, FS_Subset
<1>4. PICK m \in T : \A s \in T : m <= s
  <2>1. \A s \in T : s \in Int
    BY <1>2
  <2> HIDE DEF T
  <2> QED
    BY <1>2, <1>3, <2>1, MinIsLeast
<1> QED
  BY <1>4

-----------------------------------------------------------------------------
(* What holds of the empty set, and of a set with one more member when it  *)
(* holds of the set, holds of every finite set.                            *)
LEMMA SetInduction ==
  ASSUME NEW S, IsFiniteSet(S), NEW P, {} \in P,
         \A T \in P, x \in S : T \in SUBSET S /\ x \notin T => T \cup {x} \in P
  PROVE  S \in P
<1> SUFFICES ASSUME S \notin P
             PROVE  FALSE
  OBVIOUS
<1> DEFINE B == {T \in SUBSET S : T \notin P}
<1>1. B \subseteq FiniteSubsetsOf(S) /\ B # {}
  BY FS_FiniteSubsetsOfFinite
<1>2. PICK m \in B : \A t \in B : <<t, m>> \notin StrictSubsetOrdering(S)
  <2> HIDE DEF B
  <2> QED
    BY <1>1, FS_StrictSubsetOrderingWellFounded, WFMin
<1>3. PICK x : x \in m
  OBVIOUS
<1>4. m \ {x} \notin B
  <2>1. /\ m \ {x} \in SUBSET S /\ m \in SUBSET S /\ m \ {x} # m
        /\ m \ {x} \subseteq m
    BY <1>3
  <2>2. <<m \ {x}, m>> \in StrictSubsetOrdering(S)
    BY <2>1 DEF StrictSubsetOrdering
  <2> QED
    BY <1>2, <2>2
<1>5. m \ {x} \in P /\ x \in S /\ (m \ {x}) \cup {x} = m
  BY <1>3, <1>4
<1> QED
  BY <1>5

-----------------------------------------------------------------------------
(* Sums.                                                                   *)

Chosen(s) == CHOOSE x \in s : TRUE

(* A function that sums, over each member of D, what f gives.              *)
Sums(it, f, D) ==
  it = [s \in D |-> IF s = {} THEN 0 ELSE f[Chosen(s)] + it[s \ {Chosen(s)}]]

LEMMA SumsExist ==
  ASSUME NEW S, IsFiniteSet(S), NEW f
  PROVE  \E it : Sums(it, f, SUBSET S)
<1> DEFINE D(n) == {s \in SUBSET S : Cardinality(s) <= n}
           Bad == {n \in Nat : ~ \E it : Sums(it, f, D(n))}
<1>1. \A s \in SUBSET S : IsFiniteSet(s) /\ Cardinality(s) \in Nat
  BY FS_Subset, FS_CardinalityType
<1>2. \A s \in SUBSET S : s # {} =>
        /\ Chosen(s) \in s /\ s \ {Chosen(s)} \in SUBSET S
        /\ Cardinality(s \ {Chosen(s)}) = Cardinality(s) - 1
  <2>1. \A s \in SUBSET S : s # {} => Chosen(s) \in s
    BY DEF Chosen
  <2> QED
    BY <1>1, <2>1, FS_RemoveElement
<1>3. Bad = {}
  <2> SUFFICES ASSUME Bad # {}
               PROVE  FALSE
    OBVIOUS
  <2>1. Bad \in SUBSET Nat
    OBVIOUS
  <2>2. PICK n \in Bad : \A k \in Bad : n <= k
    <3> HIDE DEF Bad
    <3> QED
      BY <2>1, HasLeast
  <2>3. n \in Nat
    BY <2>1
  <2>4. CASE n = 0
    <3>1. \A s \in D(n) : s = {}
      BY <1>1, <2>4, FS_EmptySet
    <3> DEFINE it == [s \in D(n) |-> 0]
    <3>2. Sums(it, f, D(n))
      <4> HIDE DEF D
      <4> QED
        BY <3>1 DEF Sums
    <3> HIDE DEF it
    <3> QED
      BY <3>2
  <2>5. CASE n # 0
    <3>1. n - 1 \in Nat /\ n - 1 \notin Bad
      <4> HIDE DEF Bad
      <4> QED
        BY <2>2, <2>3, <2>5
    <3>2. PICK g : Sums(g, f, D(n - 1))
      BY <3>1
    <3>3. /\ D(n - 1) \subseteq D(n)
          /\ \A s \in D(n) : s # {} => s \ {Chosen(s)} \in D(n - 1)
      BY <1>1, <1>2, <2>3
    <3> DEFINE it == [s \in D(n) |-> IF s = {} THEN 0 ELSE f[Chosen(s)] + g[s \ {Chosen(s)}]]
    <3> HIDE DEF D
    <3>4. \A s \in D(n - 1) : g[s] = IF s = {} THEN 0 ELSE f[Chosen(s)] + g[s \ {Chosen(s)}]
      BY <3>2 DEF Sums
    <3>5. \A s \in D(n - 1) : it[s] = g[s]
      BY <3>3, <3>4
    <3>6. \A s \in D(n) : s # {} => it[s \ {Chosen(s)}] = g[s \ {Chosen(s)}]
      BY <3>3, <3>5
    <3>7. Sums(it, f, D(n))
      BY <3>6 DEF Sums
    <3> HIDE DEF it
    <3>8. \E h : Sums(h, f, D(n))
      BY <3>7
    <3> QED
      BY <3>8
  <2> QED
    BY <2>4, <2>5
<1>4. SUBSET S = D(Cardinality(S)) /\ Cardinality(S) \in Nat
  <2>1. \A s \in SUBSET S : Cardinality(s) <= Cardinality(S)
    BY FS_Subset
  <2> QED
    BY <1>1, <2>1
<1> QED
  BY <1>3, <1>4

LEMMA SumIs ==
  ASSUME NEW f, NEW S, IsFiniteSet(S)
  PROVE  \E it : Sums(it, f, SUBSET S) /\ SumFunctionOnSet(f, S) = it[S]
<1> DEFINE it == CHOOSE it : Sums(it, f, SUBSET S)
<1>1. Sums(it, f, SUBSET S)
  BY SumsExist
<1>2. SumFunctionOnSet(f, S) = it[S]
  BY DEF SumFunctionOnSet, FoldFunctionOnSet, MapThenFoldSet, Sums, Chosen
<1> QED
  BY <1>1, <1>2

(* Two of them agree.                                                      *)
LEMMA SumsAgree ==
  ASSUME NEW S, IsFiniteSet(S), NEW T \in SUBSET S, NEW f, NEW g, NEW it, NEW jt,
         \A x \in T : f[x] = g[x],
         Sums(it, f, SUBSET S), Sums(jt, g, SUBSET T)
  PROVE  it[T] = jt[T]
<1> DEFINE Bad == {n \in Nat : \E s \in SUBSET T : Cardinality(s) = n /\ it[s] # jt[s]}
<1>1. \A s \in SUBSET T : IsFiniteSet(s) /\ Cardinality(s) \in Nat
  BY FS_Subset, FS_CardinalityType
<1>2. Bad = {}
  <2> SUFFICES ASSUME Bad # {}
               PROVE  FALSE
    OBVIOUS
  <2>1. Bad \in SUBSET Nat
    OBVIOUS
  <2>2. PICK n \in Bad : \A k \in Bad : n <= k
    <3> HIDE DEF Bad
    <3> QED
      BY <2>1, HasLeast
  <2>3. PICK s \in SUBSET T : Cardinality(s) = n /\ it[s] # jt[s]
    OBVIOUS
  <2>4. /\ it[s] = IF s = {} THEN 0 ELSE f[Chosen(s)] + it[s \ {Chosen(s)}]
        /\ jt[s] = IF s = {} THEN 0 ELSE g[Chosen(s)] + jt[s \ {Chosen(s)}]
    BY DEF Sums
  <2>5. s # {}
    BY <2>3, <2>4
  <2>6. Chosen(s) \in s /\ f[Chosen(s)] = g[Chosen(s)]
    BY <2>5 DEF Chosen
  <2>7. /\ s \ {Chosen(s)} \in SUBSET T
        /\ Cardinality(s \ {Chosen(s)}) = n - 1 /\ n - 1 \in Nat
    <3>1. Cardinality(s \ {Chosen(s)}) = Cardinality(s) - 1
      BY <1>1, <2>6, FS_RemoveElement
    <3>2. Cardinality(s \ {Chosen(s)}) \in Nat
      BY <1>1
    <3> QED
      BY <2>3, <3>1, <3>2
  <2>8. it[s \ {Chosen(s)}] = jt[s \ {Chosen(s)}]
    <3>1. n - 1 \notin Bad
      BY <2>1, <2>2, <2>7
    <3> QED
      BY <2>7, <3>1
  <2> QED
    BY <2>3, <2>4, <2>5, <2>6, <2>8
<1> QED
  BY <1>1, <1>2

LEMMA SumEmpty == \A f : SumFunctionOnSet(f, {}) = 0
<1> TAKE f
<1>1. PICK it : Sums(it, f, SUBSET {}) /\ SumFunctionOnSet(f, {}) = it[{}]
  BY SumIs, FS_EmptySet
<1> QED
  BY <1>1 DEF Sums

(* Only what the function gives counts.                                    *)
LEMMA SumEqual ==
  ASSUME NEW S, IsFiniteSet(S), NEW f, NEW g, \A x \in S : f[x] = g[x]
  PROVE  SumFunctionOnSet(f, S) = SumFunctionOnSet(g, S)
<1>1. PICK it : Sums(it, f, SUBSET S) /\ SumFunctionOnSet(f, S) = it[S]
  BY SumIs
<1>2. PICK jt : Sums(jt, g, SUBSET S) /\ SumFunctionOnSet(g, S) = jt[S]
  BY SumIs
<1> QED
  BY <1>1, <1>2, SumsAgree

LEMMA SumChosen ==
  ASSUME NEW S, IsFiniteSet(S), S # {}, NEW f
  PROVE  /\ Chosen(S) \in S
         /\ SumFunctionOnSet(f, S) = f[Chosen(S)] + SumFunctionOnSet(f, S \ {Chosen(S)})
<1>1. PICK it : Sums(it, f, SUBSET S) /\ SumFunctionOnSet(f, S) = it[S]
  BY SumIs
<1>2. \A T \in SUBSET S : SumFunctionOnSet(f, T) = it[T]
  <2> TAKE T \in SUBSET S
  <2>1. IsFiniteSet(T)
    BY FS_Subset
  <2>2. PICK jt : Sums(jt, f, SUBSET T) /\ SumFunctionOnSet(f, T) = jt[T]
    BY <2>1, SumIs
  <2>3. \A x \in T : f[x] = f[x]
    OBVIOUS
  <2>4. it[T] = jt[T]
    BY <1>1, <2>2, <2>3, SumsAgree
  <2> QED
    BY <2>2, <2>4
<1>3. it[S] = f[Chosen(S)] + it[S \ {Chosen(S)}]
  BY <1>1 DEF Sums
<1> QED
  BY <1>1, <1>2, <1>3 DEF Chosen

LEMMA SumIsInteger ==
  ASSUME NEW S, IsFiniteSet(S), NEW f, \A x \in S : f[x] \in Int
  PROVE  SumFunctionOnSet(f, S) \in Int
<1> DEFINE Bad == {n \in Nat : \E s \in SUBSET S :
                     Cardinality(s) = n /\ SumFunctionOnSet(f, s) \notin Int}
<1>1. \A s \in SUBSET S : IsFiniteSet(s) /\ Cardinality(s) \in Nat
  BY FS_Subset, FS_CardinalityType
<1>2. Bad = {}
  <2> SUFFICES ASSUME Bad # {}
               PROVE  FALSE
    OBVIOUS
  <2>1. Bad \in SUBSET Nat
    OBVIOUS
  <2>2. PICK n \in Bad : \A k \in Bad : n <= k
    <3> HIDE DEF Bad
    <3> QED
      BY <2>1, HasLeast
  <2>3. PICK s \in SUBSET S : Cardinality(s) = n /\ SumFunctionOnSet(f, s) \notin Int
    OBVIOUS
  <2>4. s # {}
    BY <2>3, SumEmpty
  <2>5. /\ Chosen(s) \in s
        /\ SumFunctionOnSet(f, s) = f[Chosen(s)] + SumFunctionOnSet(f, s \ {Chosen(s)})
    BY <1>1, <2>4, SumChosen
  <2>6. Cardinality(s \ {Chosen(s)}) = n - 1 /\ n - 1 \in Nat
    <3>1. Cardinality(s \ {Chosen(s)}) = Cardinality(s) - 1
      BY <1>1, <2>5, FS_RemoveElement
    <3>2. s \ {Chosen(s)} \in SUBSET S
      OBVIOUS
    <3>3. Cardinality(s \ {Chosen(s)}) \in Nat
      BY <1>1, <3>2
    <3> QED
      BY <2>3, <3>1, <3>3
  <2>7. n - 1 \notin Bad
    <3> HIDE DEF Bad
    <3> QED
      BY <2>1, <2>2, <2>6
  <2>8. SumFunctionOnSet(f, s \ {Chosen(s)}) \in Int
    BY <2>6, <2>7
  <2> QED
    BY <2>3, <2>5, <2>8
<1>3. Cardinality(S) \notin Bad /\ Cardinality(S) \in Nat
  BY <1>1, <1>2
<1> QED
  BY <1>3

(* Any member may be counted first.                                        *)
LEMMA SumRemove ==
  ASSUME NEW S, IsFiniteSet(S), NEW f, \A x \in S : f[x] \in Int, NEW x \in S
  PROVE  SumFunctionOnSet(f, S) = f[x] + SumFunctionOnSet(f, S \ {x})
<1> DEFINE Total(s) == SumFunctionOnSet(f, s)
           Bad == {n \in Nat : \E s \in SUBSET S : \E y \in s :
                     Cardinality(s) = n /\ Total(s) # f[y] + Total(s \ {y})}
<1>1. \A s \in SUBSET S : IsFiniteSet(s) /\ Cardinality(s) \in Nat
  BY FS_Subset, FS_CardinalityType
<1>2. \A s \in SUBSET S : Total(s) \in Int
  <2>1. ASSUME NEW s \in SUBSET S
        PROVE  Total(s) \in Int
    BY <1>1, SumIsInteger
  <2> QED
    BY <2>1
<1>3. Bad = {}
  <2> SUFFICES ASSUME Bad # {}
               PROVE  FALSE
    OBVIOUS
  <2>1. Bad \in SUBSET Nat
    OBVIOUS
  <2>2. PICK n \in Bad : \A k \in Bad : n <= k
    <3> HIDE DEF Bad
    <3> QED
      BY <2>1, HasLeast
  <2>0. PICK s \in SUBSET S : \E y \in s : Cardinality(s) = n /\ Total(s) # f[y] + Total(s \ {y})
    OBVIOUS
  <2>3. PICK y \in s : Cardinality(s) = n /\ Total(s) # f[y] + Total(s \ {y})
    BY <2>0
  <2> DEFINE c == Chosen(s)
  <2>4. c \in s /\ Total(s) = f[c] + Total(s \ {c})
    BY <1>1, <2>3, SumChosen
  <2>5. c # y
    BY <2>3, <2>4
  <2>6. \A z \in s : Cardinality(s \ {z}) = n - 1 /\ n - 1 \in Nat
    <3>1. \A z \in s : s \ {z} \in SUBSET S /\ Cardinality(s \ {z}) = Cardinality(s) - 1
      BY <1>1, FS_RemoveElement
    <3>2. \A z \in s : Cardinality(s \ {z}) \in Nat
      BY <1>1, <3>1
    <3> QED
      BY <2>3, <3>1, <3>2
  <2>7. n - 1 \notin Bad
    <3> HIDE DEF Bad
    <3> QED
      BY <2>1, <2>2, <2>3, <2>6
  <2> HIDE DEF c, Total
  <2>8. Total(s \ {c}) = f[y] + Total((s \ {c}) \ {y})
    BY <2>3, <2>4, <2>5, <2>6, <2>7
  <2>9. Total(s \ {y}) = f[c] + Total((s \ {y}) \ {c})
    BY <2>3, <2>4, <2>5, <2>6, <2>7
  <2>10. (s \ {y}) \ {c} = (s \ {c}) \ {y} /\ (s \ {c}) \ {y} \in SUBSET S
    OBVIOUS
  <2>11. f[c] \in Int /\ f[y] \in Int /\ Total((s \ {c}) \ {y}) \in Int
    BY <1>2, <2>3, <2>4, <2>10
  <2> QED
    BY <2>3, <2>4, <2>8, <2>9, <2>10, <2>11
<1>4. Cardinality(S) \notin Bad /\ Cardinality(S) \in Nat
  BY <1>1, <1>3
<1> QED
  BY <1>4

(* The sum over two sets that share nothing.                               *)
LEMMA SumUnion ==
  ASSUME NEW S, IsFiniteSet(S), NEW T, IsFiniteSet(T), S \cap T = {},
         NEW f, \A x \in S \cup T : f[x] \in Int
  PROVE  SumFunctionOnSet(f, S \cup T) = SumFunctionOnSet(f, S) + SumFunctionOnSet(f, T)
<1> DEFINE Total(s) == SumFunctionOnSet(f, s)
           P == {R \in SUBSET T : Total(S \cup R) = Total(S) + Total(R)}
<1>1. \A R \in SUBSET T : IsFiniteSet(R) /\ IsFiniteSet(S \cup R)
  BY FS_Subset, FS_Union
<1>2. \A R \in SUBSET T : Total(S \cup R) \in Int /\ Total(R) \in Int
  <2>1. ASSUME NEW R \in SUBSET T
        PROVE  Total(S \cup R) \in Int /\ Total(R) \in Int
    BY <1>1, SumIsInteger
  <2> QED
    BY <2>1
<1>3. Total(S) \in Int
  BY SumIsInteger
<1>4. {} \in P
  <2>1. S \cup {} = S /\ Total({}) = 0
    BY SumEmpty
  <2> HIDE DEF Total
  <2> QED
    BY <1>3, <2>1
<1>5. ASSUME NEW R \in P, NEW x \in T, x \notin R
      PROVE  R \cup {x} \in P
  <2>1. /\ R \cup {x} \in SUBSET T /\ (R \cup {x}) \ {x} = R
        /\ x \in S \cup (R \cup {x})
        /\ (S \cup (R \cup {x})) \ {x} = S \cup R
    BY <1>5
  <2>2. Total(R \cup {x}) = f[x] + Total(R)
    <3>1. IsFiniteSet(R \cup {x}) /\ (\A y \in R \cup {x} : f[y] \in Int) /\ x \in R \cup {x}
      BY <1>1, <2>1
    <3>2. Total(R \cup {x}) = f[x] + Total((R \cup {x}) \ {x})
      BY <3>1, SumRemove
    <3> QED
      BY <2>1, <3>2
  <2>3. Total(S \cup (R \cup {x})) = f[x] + Total(S \cup R)
    <3> DEFINE U == S \cup (R \cup {x})
    <3>1. IsFiniteSet(U) /\ (\A y \in U : f[y] \in Int) /\ x \in U
      BY <1>1, <2>1
    <3>2. Total(U) = f[x] + Total(U \ {x})
      <4> HIDE DEF U
      <4> QED
        BY <3>1, SumRemove
    <3> QED
      BY <2>1, <3>2
  <2>4. f[x] \in Int
    OBVIOUS
  <2> HIDE DEF Total
  <2> QED
    BY <1>2, <1>3, <2>1, <2>2, <2>3, <2>4
<1>6. T \in P
  <2> HIDE DEF P
  <2> QED
    BY <1>4, <1>5, SetInduction
<1> QED
  BY <1>6

(* Nothing but zeroes.                                                     *)
LEMMA SumZero ==
  ASSUME NEW S, IsFiniteSet(S), NEW f, \A x \in S : f[x] = 0
  PROVE  SumFunctionOnSet(f, S) = 0
<1> DEFINE P == {R \in SUBSET S : SumFunctionOnSet(f, R) = 0}
<1>1. {} \in P
  BY SumEmpty
<1>2. ASSUME NEW R \in P, NEW x \in S, x \notin R
      PROVE  R \cup {x} \in P
  <2>1. (R \cup {x}) \ {x} = R /\ R \cup {x} \in SUBSET S
    BY <1>2
  <2>2. IsFiniteSet(R \cup {x})
    BY <2>1, FS_Subset
  <2>3. SumFunctionOnSet(f, R \cup {x}) = f[x] + SumFunctionOnSet(f, R)
    BY <2>1, <2>2, SumRemove
  <2> QED
    BY <2>1, <2>3
<1>3. S \in P
  <2> HIDE DEF P
  <2> QED
    BY <1>1, <1>2, SetInduction
<1> QED
  BY <1>3

(* The difference of two sums over the same set.                           *)
LEMMA SumMinus ==
  ASSUME NEW S, IsFiniteSet(S), NEW f, NEW g, NEW h,
         \A x \in S : f[x] \in Int /\ g[x] \in Int /\ h[x] = f[x] - g[x]
  PROVE  SumFunctionOnSet(h, S) = SumFunctionOnSet(f, S) - SumFunctionOnSet(g, S)
<1> DEFINE Total(k, R) == SumFunctionOnSet(k, R)
           P == {R \in SUBSET S : Total(h, R) = Total(f, R) - Total(g, R)}
<1>1. {} \in P
  BY SumEmpty
<1>2. ASSUME NEW R \in P, NEW x \in S, x \notin R
      PROVE  R \cup {x} \in P
  <2>1. (R \cup {x}) \ {x} = R /\ R \cup {x} \in SUBSET S /\ R \in SUBSET S
    BY <1>2
  <2>2. IsFiniteSet(R \cup {x}) /\ IsFiniteSet(R)
    BY <2>1, FS_Subset
  <2>3. \A k : (\A y \in S : k[y] \in Int) => /\ Total(k, R \cup {x}) = k[x] + Total(k, R)
                                              /\ Total(k, R) \in Int
    BY <2>1, <2>2, SumRemove, SumIsInteger
  <2>4. /\ \A y \in S : f[y] \in Int
        /\ \A y \in S : g[y] \in Int
        /\ \A y \in S : h[y] \in Int
    OBVIOUS
  <2> HIDE DEF Total
  <2>5. /\ Total(h, R \cup {x}) = h[x] + Total(h, R) /\ Total(h, R) \in Int
        /\ Total(f, R \cup {x}) = f[x] + Total(f, R) /\ Total(f, R) \in Int
        /\ Total(g, R \cup {x}) = g[x] + Total(g, R) /\ Total(g, R) \in Int
    BY <2>3, <2>4
  <2> QED
    BY <2>1, <2>5
<1>3. S \in P
  <2> HIDE DEF P
  <2> QED
    BY <1>1, <1>2, SetInduction
<1> QED
  BY <1>3

(* What is the same for every member is multiplied by how many there are.  *)
LEMMA SumConstant ==
  ASSUME NEW S, IsFiniteSet(S), NEW a \in Int, NEW f, \A x \in S : f[x] = a
  PROVE  SumFunctionOnSet(f, S) = a * Cardinality(S)
<1> DEFINE P == {R \in SUBSET S : SumFunctionOnSet(f, R) = a * Cardinality(R)}
<1>1. {} \in P
  BY SumEmpty, FS_EmptySet
<1>2. ASSUME NEW R \in P, NEW x \in S, x \notin R
      PROVE  R \cup {x} \in P
  <2>1. (R \cup {x}) \ {x} = R /\ R \cup {x} \in SUBSET S /\ R \in SUBSET S
    BY <1>2
  <2>2. IsFiniteSet(R \cup {x}) /\ IsFiniteSet(R)
    BY <2>1, FS_Subset
  <2>3. SumFunctionOnSet(f, R \cup {x}) = f[x] + SumFunctionOnSet(f, R)
    BY <2>1, <2>2, SumRemove
  <2>4. Cardinality(R \cup {x}) = Cardinality(R) + 1 /\ Cardinality(R) \in Nat
    BY <1>2, <2>2, FS_AddElement, FS_CardinalityType
  <2>5. \A n \in Nat : a + a * n = a * (n + 1)
    OBVIOUS
  <2> QED
    BY <2>1, <2>3, <2>4, <2>5
<1>3. S \in P
  <2> HIDE DEF P
  <2> QED
    BY <1>1, <1>2, SetInduction
<1> QED
  BY <1>3

(* Those of a set that a function takes to the same.                       *)
Group(S, h, c) == {x \in S : h[x] = c}

(* A sum may be taken group by group.                                      *)
LEMMA SumGrouped ==
  ASSUME NEW S, IsFiniteSet(S), NEW f, \A x \in S : f[x] \in Int,
         NEW C, IsFiniteSet(C), NEW h, \A x \in S : h[x] \in C,
         NEW g, \A c \in C : g[c] = SumFunctionOnSet(f, Group(S, h, c))
  PROVE  SumFunctionOnSet(f, S) = SumFunctionOnSet(g, C)
<1> DEFINE In(D) == {x \in S : h[x] \in D}
           P == {D \in SUBSET C : SumFunctionOnSet(f, In(D)) = SumFunctionOnSet(g, D)}
<1>1. \A c \in C : g[c] \in Int
  <2>1. ASSUME NEW c \in C
        PROVE  SumFunctionOnSet(f, Group(S, h, c)) \in Int
    <3>1. IsFiniteSet(Group(S, h, c)) /\ \A x \in Group(S, h, c) : f[x] \in Int
      BY FS_Subset DEF Group
    <3> QED
      BY <3>1, SumIsInteger
  <2> QED
    BY <2>1
<1>2. {} \in P
  <2>1. In({}) = {}
    OBVIOUS
  <2> HIDE DEF In
  <2> QED
    BY <2>1, SumEmpty
<1>3. ASSUME NEW D \in P, NEW c \in C, c \notin D
      PROVE  D \cup {c} \in P
  <2> DEFINE E == Group(S, h, c)
  <2>1. (D \cup {c}) \ {c} = D /\ D \cup {c} \in SUBSET C /\ D \in SUBSET C
    BY <1>3
  <2>2. In(D \cup {c}) = In(D) \cup E /\ In(D) \cap E = {}
    BY <1>3 DEF Group
  <2>3. IsFiniteSet(In(D)) /\ IsFiniteSet(E) /\ IsFiniteSet(D \cup {c})
    BY <2>1, FS_Subset DEF Group
  <2>4. \A x \in In(D) \cup E : f[x] \in Int
    BY DEF Group
  <2>5. g[c] = SumFunctionOnSet(f, E)
    OBVIOUS
  <2> HIDE DEF In, E
  <2>6. SumFunctionOnSet(f, In(D) \cup E) = SumFunctionOnSet(f, In(D)) + SumFunctionOnSet(f, E)
    BY <2>2, <2>3, <2>4, SumUnion
  <2>7. SumFunctionOnSet(g, D \cup {c}) = g[c] + SumFunctionOnSet(g, D)
    <3>1. (\A d \in D \cup {c} : g[d] \in Int) /\ c \in D \cup {c}
      BY <1>1, <2>1
    <3>2. SumFunctionOnSet(g, D \cup {c}) = g[c] + SumFunctionOnSet(g, (D \cup {c}) \ {c})
      BY <2>3, <3>1, SumRemove
    <3> QED
      BY <2>1, <3>2
  <2>8. SumFunctionOnSet(g, D) \in Int /\ g[c] \in Int
    <3>1. IsFiniteSet(D) /\ \A d \in D : g[d] \in Int
      BY <1>1, <2>1, <2>3, FS_Subset
    <3> QED
      BY <1>1, <3>1, SumIsInteger
  <2>9. SumFunctionOnSet(f, In(D)) = SumFunctionOnSet(g, D)
    BY DEF In
  <2>10. SumFunctionOnSet(f, In(D \cup {c})) = SumFunctionOnSet(g, D \cup {c})
    <3> HIDE DEF P
    <3>1. SumFunctionOnSet(f, In(D \cup {c})) = SumFunctionOnSet(g, D) + g[c]
      BY <2>2, <2>5, <2>6, <2>9
    <3> QED
      BY <2>7, <2>8, <3>1
  <2> QED
    BY <2>1, <2>10 DEF In
<1>4. C \in P
  <2> HIDE DEF P
  <2> QED
    BY <1>2, <1>3, SetInduction
<1>5. In(C) = S
  OBVIOUS
<1> QED
  BY <1>4, <1>5

-----------------------------------------------------------------------------
(* Numbering.                                                              *)

(* A number's place among those of a set, from the least.                  *)
RankIn(S, i) == Cardinality({j \in S : j <= i})

(* A member is numbered, and no higher than itself.                        *)
LEMMA RankRange ==
  ASSUME NEW S \in SUBSET (Nat \ {0}), IsFiniteSet(S), NEW i \in S
  PROVE  RankIn(S, i) \in 1 .. Cardinality(S) /\ RankIn(S, i) <= i
<1> DEFINE R == {j \in S : j <= i}
<1>1. R \in SUBSET S /\ R \in SUBSET (1 .. i) /\ R # {} /\ i \in Nat
  <2>1. \A j \in S : j \in Nat /\ j # 0
    OBVIOUS
  <2>2. i \in R
    BY <2>1
  <2>3. \A j \in R : j \in 1 .. i
    BY <2>1
  <2> QED
    BY <2>1, <2>2, <2>3
<1>2. IsFiniteSet(R) /\ Cardinality(R) <= Cardinality(S)
  BY <1>1, FS_Subset
<1>3. Cardinality(R) \in Nat /\ Cardinality(R) # 0 /\ Cardinality(S) \in Nat
  BY <1>1, <1>2, FS_CardinalityType, FS_EmptySet
<1>4. IsFiniteSet(1 .. i) /\ Cardinality(1 .. i) = i
  BY <1>1, FS_Interval
<1>5. Cardinality(R) <= i
  BY <1>1, <1>4, FS_Subset
<1> QED
  BY <1>2, <1>3, <1>5 DEF RankIn

(* Greater members have greater numbers.                                   *)
LEMMA RankGrows ==
  ASSUME NEW S \in SUBSET (Nat \ {0}), IsFiniteSet(S), NEW i \in S, NEW j \in S, i < j
  PROVE  RankIn(S, i) < RankIn(S, j)
<1> DEFINE R(k) == {x \in S : x <= k}
<1>1. R(i) \in SUBSET R(j) /\ j \in R(j) /\ j \notin R(i) /\ R(j) \in SUBSET S
  <2>1. \A x \in S : x \in Nat
    OBVIOUS
  <2>2. \A x \in S : x <= i => x <= j
    BY <2>1
  <2>3. j <= j /\ ~ (j <= i)
    BY <2>1
  <2> QED
    BY <2>2, <2>3
<1> HIDE DEF R
<1>2. IsFiniteSet(R(j)) /\ IsFiniteSet(R(i))
  BY <1>1, FS_Subset
<1>3. Cardinality(R(i)) \in Nat /\ Cardinality(R(j)) \in Nat
  BY <1>2, FS_CardinalityType
<1>4. Cardinality(R(i)) <= Cardinality(R(j)) /\ Cardinality(R(i)) # Cardinality(R(j))
  BY <1>1, <1>2, FS_Subset
<1> QED
  BY <1>3, <1>4 DEF RankIn, R

(* A number is one member's.                                               *)
LEMMA RankIsOwn ==
  ASSUME NEW S \in SUBSET (Nat \ {0}), IsFiniteSet(S), NEW i \in S, NEW j \in S,
         RankIn(S, i) = RankIn(S, j)
  PROVE  i = j
<1>1. RankIn(S, i) \in Int /\ RankIn(S, j) \in Int
  <2>1. Cardinality(S) \in Nat
    BY FS_CardinalityType
  <2> QED
    BY <2>1, RankRange
<1>2. ~ (i < j) /\ ~ (j < i)
  BY <1>1, RankGrows
<1> QED
  BY <1>2

(* The numbers given are 1, 2, ... up to how many there are.               *)
LEMMA RanksFill ==
  ASSUME NEW S \in SUBSET (Nat \ {0}), IsFiniteSet(S), NEW k \in 1 .. Cardinality(S)
  PROVE  \E i \in S : RankIn(S, i) = k
<1> DEFINE n == Cardinality(S)
           g == [i \in S |-> RankIn(S, i)]
<1>1. n \in Nat
  BY FS_CardinalityType
<1>2. IsFiniteSet(1 .. n) /\ Cardinality(1 .. n) = n
  BY <1>1, FS_Interval
<1>3. \A i \in S : RankIn(S, i) \in 1 .. n
  BY RankRange
<1>4. \A i, j \in S : RankIn(S, i) = RankIn(S, j) => i = j
  BY RankIsOwn
<1>5. g \in Injection(S, 1 .. n)
  BY <1>3, <1>4 DEF Injection, IsInjective
<1>6. g \in Surjection(S, 1 .. n)
  BY <1>2, <1>5, FS_Injection
<1> QED
  BY <1>6 DEF Surjection

=============================================================================
