------------------------- MODULE SilverMergeProofs -------------------------
(***************************************************************************)
(* What is proved of SilverMerge and MonthlyBalances, for every number of  *)
(* days, exports and corrections by the bank, whatever is booked, whatever *)
(* a file lacks and decisions say, and however long a month is: the ledger *)
(* keeps its type, each day's selected export shows exactly what is kept   *)
(* unless a decision matched the day otherwise, an export is quarantined   *)
(* only for a reason, and the months called complete add up.               *)
(***************************************************************************)
EXTENDS MonthlyBalances, FiniteFacts, TLAPS, FiniteSetTheorems, SequenceTheorems

-----------------------------------------------------------------------------
(* Numbering.                                                              *)

(* Those before a member are numbered the same among the first ones alone. *)
LEMMA RankAmongFirst ==
  ASSUME NEW S \in SUBSET (Nat \ {0}), NEW U \in SUBSET S,
         \A u \in U, s \in S : s <= u => s \in U,
         NEW i \in U
  PROVE  RankIn(U, i) = RankIn(S, i)
<1>1. {j \in U : j <= i} = {j \in S : j <= i}
  OBVIOUS
<1> QED
  BY <1>1 DEF RankIn

(* As many pairs of a day and a number as numbers.                         *)
LEMMA PairsCount ==
  ASSUME NEW d, NEW S, IsFiniteSet(S)
  PROVE  /\ IsFiniteSet({<<d, i>> : i \in S})
         /\ Cardinality({<<d, i>> : i \in S}) = Cardinality(S)
<1> DEFINE T == {<<d, i>> : i \in S}
           g == [i \in S |-> <<d, i>>]
<1>1. g \in Bijection(S, T)
  BY DEF Bijection, Injection, IsInjective, Surjection
<1>2. ExistsBijection(S, T)
  BY <1>1 DEF ExistsBijection
<1> QED
  BY <1>2, FS_Bijection

-----------------------------------------------------------------------------
(* What an export shows.                                                   *)

OfRows(e) ==
  /\ Places(e) \in SUBSET Rows
  /\ \A p \in Places(e) : BookingOf(e, p) \in Bookings

Positions(e, d, b) ==
  {i \in 1 .. MaxBooked : <<d, i>> \in Places(e) /\ BookingOf(e, <<d, i>>) = b}

LEMMA PositionsAreFew ==
  ASSUME NEW e, NEW d, NEW b
  PROVE  /\ Positions(e, d, b) \in SUBSET (Nat \ {0})
         /\ IsFiniteSet(Positions(e, d, b))
         /\ Cardinality(Positions(e, d, b)) \in 0 .. MaxBooked
<1>1. MaxBooked \in Nat
  BY BoundsAssumption
<1>2. Positions(e, d, b) \in SUBSET (1 .. MaxBooked)
  BY DEF Positions
<1>3. IsFiniteSet(1 .. MaxBooked) /\ Cardinality(1 .. MaxBooked) = MaxBooked
  BY <1>1, FS_Interval
<1>4. IsFiniteSet(Positions(e, d, b)) /\ Cardinality(Positions(e, d, b)) <= MaxBooked
  BY <1>2, <1>3, FS_Subset
<1>5. Cardinality(Positions(e, d, b)) \in Nat
  BY <1>4, FS_CardinalityType
<1>6. 1 .. MaxBooked \subseteq Nat \ {0}
  BY <1>1
<1> QED
  BY <1>1, <1>2, <1>4, <1>5, <1>6

LEMMA ShownIsCounted ==
  ASSUME NEW e, OfRows(e), NEW d, NEW b
  PROVE  /\ Shown(e, d, b) = Cardinality(Positions(e, d, b))
         /\ Shown(e, d, b) \in 0 .. MaxBooked
<1>1. {p \in Places(e) : p[1] = d /\ BookingOf(e, p) = b} = {<<d, i>> : i \in Positions(e, d, b)}
  <2>1. ASSUME NEW p \in Places(e), p[1] = d, BookingOf(e, p) = b
        PROVE  p[2] \in Positions(e, d, b) /\ p = <<d, p[2]>>
    <3>1. p = <<d, p[2]>> /\ p[2] \in 1 .. MaxBooked
      BY <2>1 DEF OfRows, Rows
    <3> QED
      BY <2>1, <3>1 DEF Positions
  <2>2. \A i \in Positions(e, d, b) :
          <<d, i>> \in Places(e) /\ <<d, i>>[1] = d /\ BookingOf(e, <<d, i>>) = b
    BY DEF Positions
  <2> QED
    BY <2>1, <2>2
<1>2. IsFiniteSet(Positions(e, d, b)) /\ Cardinality(Positions(e, d, b)) \in 0 .. MaxBooked
  BY PositionsAreFew
<1>3. Cardinality({<<d, i>> : i \in Positions(e, d, b)}) = Cardinality(Positions(e, d, b))
  BY <1>2, PairsCount
<1> QED
  BY <1>1, <1>2, <1>3 DEF Shown

LEMMA OccurrenceIsRank ==
  ASSUME NEW e, OfRows(e), NEW p \in Places(e)
  PROVE  /\ p = <<p[1], p[2]>> /\ p[1] \in Days
         /\ p[2] \in Positions(e, p[1], BookingOf(e, p))
         /\ Occurrence(e, p) = RankIn(Positions(e, p[1], BookingOf(e, p)), p[2])
<1> DEFINE S == Positions(e, p[1], BookingOf(e, p))
           B == {i \in S : i <= p[2]}
<1>1. p \in Rows
  BY DEF OfRows
<1>2. p = <<p[1], p[2]>> /\ p[1] \in Days /\ p[2] \in 1 .. MaxBooked
  BY <1>1 DEF Rows
<1>3. p[2] \in S
  BY <1>2 DEF Positions
<1>4. {q \in Places(e) : /\ q[1] = p[1] /\ q[2] <= p[2]
                         /\ BookingOf(e, q) = BookingOf(e, p)} = {<<p[1], i>> : i \in B}
  <2>1. ASSUME NEW q \in Places(e), q[1] = p[1], q[2] <= p[2], BookingOf(e, q) = BookingOf(e, p)
        PROVE  q[2] \in B /\ q = <<p[1], q[2]>>
    <3>1. q = <<p[1], q[2]>> /\ q[2] \in 1 .. MaxBooked
      BY <2>1 DEF OfRows, Rows
    <3> QED
      BY <2>1, <3>1 DEF Positions
  <2>2. \A i \in B : /\ <<p[1], i>> \in Places(e)
                     /\ <<p[1], i>>[1] = p[1] /\ <<p[1], i>>[2] <= p[2]
                     /\ BookingOf(e, <<p[1], i>>) = BookingOf(e, p)
    BY DEF Positions
  <2> HIDE DEF B
  <2> QED
    BY <2>1, <2>2
<1>5. IsFiniteSet(B)
  BY PositionsAreFew, FS_Subset
<1>6. Cardinality({<<p[1], i>> : i \in B}) = Cardinality(B)
  BY <1>5, PairsCount
<1> QED
  BY <1>2, <1>3, <1>4, <1>6 DEF Occurrence, RankIn

(* A row's number is one of those its key has, and only its own.           *)
LEMMA IdentityIsOwn ==
  ASSUME NEW e, OfRows(e), NEW p \in Places(e)
  PROVE  /\ Identity(e, p) \in Identities
         /\ Occurrence(e, p) \in 1 .. Shown(e, p[1], BookingOf(e, p))
         /\ \A q \in Places(e) : Identity(e, q) = Identity(e, p) => q = p
<1> DEFINE S == Positions(e, p[1], BookingOf(e, p))
<1>1. /\ p = <<p[1], p[2]>> /\ p[1] \in Days /\ p[2] \in S
      /\ Occurrence(e, p) = RankIn(S, p[2])
  BY OccurrenceIsRank
<1>2. S \in SUBSET (Nat \ {0}) /\ IsFiniteSet(S) /\ Cardinality(S) \in 0 .. MaxBooked
  BY PositionsAreFew
<1>3. Shown(e, p[1], BookingOf(e, p)) = Cardinality(S)
  BY ShownIsCounted
<1>4. RankIn(S, p[2]) \in 1 .. Cardinality(S)
  BY <1>1, <1>2, RankRange
<1>5. Occurrence(e, p) \in 1 .. MaxBooked
  BY <1>1, <1>2, <1>4, BoundsAssumption
<1>6. BookingOf(e, p) \in Bookings
  BY DEF OfRows
<1>7. ASSUME NEW q \in Places(e), Identity(e, q) = Identity(e, p)
      PROVE  q = p
  <2>1. /\ q[1] = p[1] /\ BookingOf(e, q) = BookingOf(e, p)
        /\ Occurrence(e, q) = Occurrence(e, p)
    BY <1>7 DEF Identity
  <2>2. q = <<q[1], q[2]>> /\ q[2] \in S /\ Occurrence(e, q) = RankIn(S, q[2])
    BY <2>1, OccurrenceIsRank
  <2>3. q[2] \in Nat /\ p[2] \in Nat /\ RankIn(S, p[2]) \in Int
    BY <1>1, <1>2, <1>4, <2>2
  <2>4. ~ q[2] < p[2] /\ ~ p[2] < q[2]
    <3>1. q[2] < p[2] => RankIn(S, q[2]) < RankIn(S, p[2])
      BY <1>1, <1>2, <2>2, RankGrows
    <3>2. p[2] < q[2] => RankIn(S, p[2]) < RankIn(S, q[2])
      BY <1>1, <1>2, <2>2, RankGrows
    <3> QED
      BY <1>1, <2>1, <2>2, <2>3, <3>1, <3>2
  <2>5. q[2] = p[2]
    BY <2>3, <2>4
  <2> QED
    BY <1>1, <2>1, <2>2, <2>5
<1> QED
  BY <1>1, <1>3, <1>4, <1>5, <1>6, <1>7 DEF Identity, Identities

(* Every number up to how many rows a key has is one row's.                *)
LEMMA IdentityIsFound ==
  ASSUME NEW e, OfRows(e), NEW t \in Identities, t.k <= Shown(e, t.day, t.booking)
  PROVE  \E p \in Places(e) : Identity(e, p) = t
<1> DEFINE S == Positions(e, t.day, t.booking)
<1>1. S \in SUBSET (Nat \ {0}) /\ IsFiniteSet(S)
  BY PositionsAreFew
<1>2. /\ t = [day |-> t.day, booking |-> t.booking, k |-> t.k]
      /\ t.k \in 1 .. MaxBooked
  BY DEF Identities
<1>3. Cardinality(S) = Shown(e, t.day, t.booking) /\ Cardinality(S) \in Nat
  BY <1>1, ShownIsCounted, FS_CardinalityType
<1>4. t.k \in 1 .. Cardinality(S)
  BY <1>2, <1>3
<1>5. PICK i \in S : RankIn(S, i) = t.k
  BY <1>1, <1>4, RanksFill
<1>6. <<t.day, i>> \in Places(e) /\ BookingOf(e, <<t.day, i>>) = t.booking
  BY <1>5 DEF Positions
<1>7. Occurrence(e, <<t.day, i>>) = t.k
  BY <1>5, <1>6, OccurrenceIsRank
<1> QED
  BY <1>2, <1>6, <1>7 DEF Identity

-----------------------------------------------------------------------------
(* What the decisions on an export's drops do.                             *)

(* Rows that decisions name show a drop each, and a drop matched is shown  *)
(* by the row named for it, unless that row shows another.                 *)
Matches(e, f, s) ==
  /\ DOMAIN f = Dropped(e)
  /\ \A t \in DOMAIN f : f[t] \in Places(e) \cup {None, Withdrawn, Undecided}
  /\ DOMAIN s \subseteq Places(e)
  /\ \A p \in DOMAIN s : s[p] \in Matched(f) /\ f[s[p]] = p
  /\ \A t \in Matched(f) : f[t] \in Places(e) => f[t] \in DOMAIN s

LEMMA RulingsMatch ==
  ASSUME NEW e, OfRows(e), NEW f \in Rulings(e), NEW s \in Remappings(e, f)
  PROVE  Matches(e, f, s)
<1>1. DOMAIN f = Dropped(e) /\ \A t \in DOMAIN f : f[t] \in Places(e) \cup {None, Withdrawn, Undecided}
  BY DEF Rulings
<1>2. DOMAIN s = {f[t] : t \in Matched(f)} \ {None}
  BY DEF Remappings
<1>3. \A p \in DOMAIN s : s[p] \in Matched(f) /\ f[s[p]] = p
  BY DEF Remappings
<1>4. \A t \in Matched(f) : f[t] \in Places(e) \cup {None}
  BY <1>1 DEF Matched
<1>5. None \notin Places(e)
  BY RulingsAssumption DEF OfRows
<1> QED
  BY <1>1, <1>2, <1>3, <1>4, <1>5 DEF Matches

(* A drop is a kept transaction the export covers and lacks.               *)
LEMMA DropsAre ==
  ASSUME NEW e, NEW t \in Dropped(e)
  PROVE  /\ t \in Identities /\ t \in Kept /\ t \notin withdrawn
         /\ t.k <= counts[t.day][t.booking]
         /\ t.k > Shown(e, t.day, t.booking)
         /\ Covers(e, t.day)
BY DEF Dropped, Kept

RunOf(e, f, s) == [export |-> e, same |-> s, misnamed |-> Misnamed(e, f)]

(* A row a decision names shows that drop, another its own identity.       *)
LEMMA ShowsWhich ==
  ASSUME NEW e, NEW f, NEW s, Matches(e, f, s), NEW p \in Places(e)
  PROVE  \/ /\ p \in DOMAIN s
            /\ Shows(RunOf(e, f, s), p) = s[p]
            /\ s[p] \in Dropped(e) /\ s[p] \in Matched(f) /\ f[s[p]] = p
         \/ /\ p \notin DOMAIN s
            /\ Shows(RunOf(e, f, s), p) = Identity(e, p)
<1>1. p \in DOMAIN s => s[p] \in Dropped(e) /\ s[p] \in Matched(f) /\ f[s[p]] = p
  BY DEF Matches, Matched
<1> QED
  BY <1>1 DEF Shows, RunOf

(* No two rows show the same transaction.                                  *)
LEMMA ShowsOne ==
  ASSUME TypeOK, NEW e, OfRows(e), NEW f, NEW s, Matches(e, f, s), NEW p \in Places(e)
  PROVE  /\ Shows(RunOf(e, f, s), p) \in Identities
         /\ \A q \in Places(e) :
              Shows(RunOf(e, f, s), q) = Shows(RunOf(e, f, s), p) => q = p
<1> DEFINE shown(r) == Shows(RunOf(e, f, s), r)
<1>1. ASSUME NEW r \in Places(e), r \in DOMAIN s
      PROVE  /\ f[shown(r)] = r
             /\ shown(r) \in Identities
             /\ shown(r).k > Shown(e, shown(r).day, shown(r).booking)
  BY <1>1, ShowsWhich, DropsAre
<1>2. ASSUME NEW r \in Places(e), r \notin DOMAIN s
      PROVE  /\ shown(r) = Identity(e, r)
             /\ shown(r) \in Identities
             /\ ~ shown(r).k > Shown(e, shown(r).day, shown(r).booking)
  <2>1. shown(r) = Identity(e, r)
    BY <1>2, ShowsWhich
  <2>2. /\ Identity(e, r) \in Identities
        /\ Occurrence(e, r) \in 1 .. Shown(e, r[1], BookingOf(e, r))
    BY IdentityIsOwn
  <2>3. Shown(e, r[1], BookingOf(e, r)) \in Int
    BY ShownIsCounted, BoundsAssumption
  <2> QED
    BY <2>1, <2>2, <2>3 DEF Identity
<1>3. ASSUME NEW q \in Places(e), shown(q) = shown(p)
      PROVE  q = p
  <2>1. CASE q \in DOMAIN s /\ p \in DOMAIN s
    BY <1>1, <1>3, <2>1
  <2>2. CASE q \notin DOMAIN s /\ p \notin DOMAIN s
    BY <1>2, <1>3, <2>2, IdentityIsOwn
  <2>3. CASE (q \in DOMAIN s /\ p \notin DOMAIN s) \/ (p \in DOMAIN s /\ q \notin DOMAIN s)
    <3> HIDE DEF shown
    <3> QED
      BY <1>1, <1>2, <1>3, <2>3
  <2> QED
    BY <2>1, <2>2, <2>3
<1> QED
  BY <1>1, <1>2, <1>3

(* On the day every decision that matches a drop or names a row names for  *)
(* a drop of it the last of its new rows that are equal.                   *)
FitDay(e, f, s, d) ==
  /\ \A t \in Matched(f) :
       t.day = d \/ (f[t] \in Places(e) /\ f[t][1] = d) => Fits(e, f, t)
  /\ \A p \in DOMAIN s, q \in Places(e) \ DOMAIN s :
       p[1] = d /\ q[1] = d /\ q[2] > p[2] => BookingOf(e, q) # BookingOf(e, p)

LEMMA OtherDaysFit ==
  ASSUME NEW e, OfRows(e), NEW f, NEW s,
         NEW d, d \notin Misnamed(e, f) \cup Renumbered(RunOf(e, f, s))
  PROVE  FitDay(e, f, s, d)
<1>1. None \notin Places(e)
  BY RulingsAssumption DEF OfRows
<1>2. ASSUME NEW t \in Matched(f), ~ Fits(e, f, t)
      PROVE  t.day # d /\ ~ (f[t] \in Places(e) /\ f[t][1] = d)
  BY <1>1, <1>2 DEF Misnamed
<1>3. ASSUME NEW p \in DOMAIN s, NEW q \in Places(e) \ DOMAIN s,
             p[1] = d, q[1] = d, q[2] > p[2], BookingOf(e, q) = BookingOf(e, p)
      PROVE  FALSE
  <2>1. p[1] \in Renumbered(RunOf(e, f, s))
    BY <1>3 DEF Renumbered, RunOf
  <2> QED
    BY <1>3, <2>1
<1> QED
  BY <1>2, <1>3 DEF FitDay

(* There a row shows a transaction of its own day, and only such rows do.  *)
LEMMA ShowsItsDay ==
  ASSUME TypeOK, NEW e, OfRows(e), NEW f, NEW s, Matches(e, f, s),
         NEW d, FitDay(e, f, s, d), NEW p \in Places(e)
  PROVE  p[1] = d <=> Shows(RunOf(e, f, s), p).day = d
<1>1. CASE p \notin DOMAIN s
  BY <1>1, ShowsWhich DEF Identity
<1>2. CASE p \in DOMAIN s
  BY <1>2, ShowsWhich DEF FitDay, Fits
<1> QED
  BY <1>1, <1>2

-----------------------------------------------------------------------------
(* What the merge counts.                                                  *)

ShowingOf(e, f, s, d, b) ==
  {p \in Places(e) : /\ Shows(RunOf(e, f, s), p).day = d
                     /\ Shows(RunOf(e, f, s), p).booking = b}

NumbersOf(e, f, s, d, b) == {Shows(RunOf(e, f, s), p).k : p \in ShowingOf(e, f, s, d, b)}

(* The rows of a key show as many numbers as there are rows.               *)
LEMMA NumbersAreRows ==
  ASSUME TypeOK, NEW e, OfRows(e), NEW f, NEW s, Matches(e, f, s), NEW d, NEW b
  PROVE  /\ NumbersOf(e, f, s, d, b) \in SUBSET (1 .. MaxBooked)
         /\ IsFiniteSet(NumbersOf(e, f, s, d, b))
         /\ Cardinality(ShowingOf(e, f, s, d, b)) = Cardinality(NumbersOf(e, f, s, d, b))
         /\ Cardinality(ShowingOf(e, f, s, d, b)) \in 0 .. MaxBooked
<1> DEFINE P == ShowingOf(e, f, s, d, b)
           N == NumbersOf(e, f, s, d, b)
           shown(p) == Shows(RunOf(e, f, s), p)
           g == [p \in P |-> shown(p).k]
<1>1. \A p \in P : /\ p \in Places(e) /\ shown(p) \in Identities
                   /\ shown(p).day = d /\ shown(p).booking = b
  BY ShowsOne DEF ShowingOf
<1>2. \A p \in P : /\ shown(p) = [day |-> d, booking |-> b, k |-> shown(p).k]
                   /\ shown(p).k \in 1 .. MaxBooked
  BY <1>1 DEF Identities
<1>3. \A p, q \in P : shown(p).k = shown(q).k => p = q
  BY <1>1, <1>2, ShowsOne
<1>4. N = {shown(p).k : p \in P}
  BY DEF NumbersOf
<1>5. N \in SUBSET (1 .. MaxBooked)
  BY <1>2, <1>4
<1>6. MaxBooked \in Nat
  BY BoundsAssumption
<1>7. IsFiniteSet(1 .. MaxBooked) /\ Cardinality(1 .. MaxBooked) = MaxBooked
  BY <1>6, FS_Interval
<1>8. IsFiniteSet(N) /\ Cardinality(N) <= MaxBooked
  BY <1>5, <1>7, FS_Subset
<1>9. Cardinality(N) \in Nat
  BY <1>8, FS_CardinalityType
<1>10. g \in Bijection(P, N)
  <2> HIDE DEF P, N, shown
  <2> QED
    BY <1>3, <1>4 DEF Bijection, Injection, IsInjective, Surjection
<1>11. IsFiniteSet(P) /\ Cardinality(P) = Cardinality(N)
  <2>1. g \in Injection(P, N) /\ g \in Surjection(P, N)
    BY <1>10 DEF Bijection
  <2> HIDE DEF P, N, g
  <2> QED
    BY <1>8, <2>1, FS_Injection
<1> QED
  BY <1>5, <1>6, <1>8, <1>9, <1>11

(* Where an export shows no fewer of a key than are counted, none of it is *)
(* dropped; the rows not named are the first ones, and are counted.        *)
LEMMA AllShown ==
  ASSUME TypeOK, NEW e, OfRows(e), NEW f, NEW s, Matches(e, f, s),
         NEW d \in Days, NEW b \in Bookings, FitDay(e, f, s, d),
         Shown(e, d, b) >= counts[d][b]
  PROVE  /\ NumbersOf(e, f, s, d, b) = 1 .. Cardinality(ShowingOf(e, f, s, d, b))
         /\ counts[d][b] <= Cardinality(ShowingOf(e, f, s, d, b))
         /\ Cardinality(ShowingOf(e, f, s, d, b)) <= Shown(e, d, b)
<1> DEFINE S == Positions(e, d, b)
           U == {i \in S : <<d, i>> \notin DOMAIN s}
           N == NumbersOf(e, f, s, d, b)
<1>1. /\ S \in SUBSET (Nat \ {0}) /\ IsFiniteSet(S)
      /\ Shown(e, d, b) = Cardinality(S) /\ Cardinality(S) \in Nat
  BY PositionsAreFew, ShownIsCounted, FS_CardinalityType
<1>2. counts[d][b] \in Nat
  BY BoundsAssumption DEF TypeOK
<1>3. \A i \in S : /\ <<d, i>> \in Places(e) /\ BookingOf(e, <<d, i>>) = b
                   /\ Occurrence(e, <<d, i>>) = RankIn(S, i)
  <2>1. \A i \in S : <<d, i>> \in Places(e) /\ BookingOf(e, <<d, i>>) = b
    BY DEF Positions
  <2> QED
    BY <2>1, OccurrenceIsRank
<1>4. \A t \in Dropped(e) : ~ (t.day = d /\ t.booking = b)
  <2> SUFFICES ASSUME NEW t \in Dropped(e), t.day = d, t.booking = b
               PROVE  FALSE
    OBVIOUS
  <2>1. t.k <= counts[d][b] /\ t.k > Shown(e, d, b) /\ t.k \in Int
    BY DropsAre DEF Identities
  <2> QED
    BY <1>1, <1>2, <2>1
<1>5. \A p \in ShowingOf(e, f, s, d, b) :
        p[2] \in U /\ Shows(RunOf(e, f, s), p).k = RankIn(S, p[2])
  <2> SUFFICES ASSUME NEW p \in ShowingOf(e, f, s, d, b)
               PROVE  p[2] \in U /\ Shows(RunOf(e, f, s), p).k = RankIn(S, p[2])
    OBVIOUS
  <2>1. /\ p \in Places(e) /\ Shows(RunOf(e, f, s), p).day = d
        /\ Shows(RunOf(e, f, s), p).booking = b
    BY DEF ShowingOf
  <2>2. p \notin DOMAIN s /\ Shows(RunOf(e, f, s), p) = Identity(e, p)
    BY <1>4, <2>1, ShowsWhich DEF Matches
  <2>3. p[1] = d /\ BookingOf(e, p) = b /\ Shows(RunOf(e, f, s), p).k = Occurrence(e, p)
    BY <2>1, <2>2 DEF Identity
  <2>4. p = <<d, p[2]>> /\ p[2] \in S /\ Occurrence(e, p) = RankIn(S, p[2])
    BY <2>1, <2>3, OccurrenceIsRank
  <2> QED
    BY <2>2, <2>3, <2>4
<1>6. \A i \in U : /\ <<d, i>> \in ShowingOf(e, f, s, d, b)
                   /\ Shows(RunOf(e, f, s), <<d, i>>).k = RankIn(S, i)
  <2> SUFFICES ASSUME NEW i \in U
               PROVE  /\ <<d, i>> \in ShowingOf(e, f, s, d, b)
                      /\ Shows(RunOf(e, f, s), <<d, i>>).k = RankIn(S, i)
    OBVIOUS
  <2>1. <<d, i>> \in Places(e) /\ <<d, i>> \notin DOMAIN s
    BY <1>3
  <2>2. Shows(RunOf(e, f, s), <<d, i>>) = Identity(e, <<d, i>>)
    BY <2>1, ShowsWhich
  <2>3. Identity(e, <<d, i>>) = [day |-> d, booking |-> b, k |-> RankIn(S, i)]
    BY <1>3 DEF Identity
  <2> QED
    BY <2>1, <2>2, <2>3 DEF ShowingOf
<1>7. \A u \in U, j \in S : j <= u => j \in U
  <2> SUFFICES ASSUME NEW u \in U, NEW j \in S, j <= u, <<d, j>> \in DOMAIN s
               PROVE  FALSE
    OBVIOUS
  <2>1. j # u /\ j \in Nat /\ u \in Nat
    BY <1>1
  <2>2. u > j
    BY <2>1
  <2>3. /\ <<d, j>>[1] = d /\ <<d, j>>[2] = j /\ BookingOf(e, <<d, j>>) = b
        /\ <<d, u>> \in Places(e) \ DOMAIN s /\ <<d, u>>[1] = d /\ <<d, u>>[2] = u
        /\ BookingOf(e, <<d, u>>) = b
    BY <1>3
  <2> QED
    BY <2>2, <2>3 DEF FitDay
<1>8. U \in SUBSET S /\ U \in SUBSET (Nat \ {0}) /\ IsFiniteSet(U) /\ Cardinality(U) \in Nat
      /\ Cardinality(U) <= Cardinality(S)
  BY <1>1, FS_Subset, FS_CardinalityType
<1>9. \A i \in U : RankIn(U, i) = RankIn(S, i)
  <2> HIDE DEF U, S
  <2> QED
    BY <1>1, <1>7, <1>8, RankAmongFirst
<1>10. N = 1 .. Cardinality(U)
  <2>1. N = {RankIn(S, i) : i \in U}
    <3> HIDE DEF U, S
    <3>1. \A k \in NumbersOf(e, f, s, d, b) : \E i \in U : k = RankIn(S, i)
      BY <1>5 DEF NumbersOf
    <3>2. \A i \in U : RankIn(S, i) \in NumbersOf(e, f, s, d, b)
      BY <1>6 DEF NumbersOf
    <3> QED
      BY <3>1, <3>2
  <2>2. \A i \in U : RankIn(U, i) \in 1 .. Cardinality(U)
    BY <1>8, RankRange
  <2>3. \A k \in 1 .. Cardinality(U) : \E i \in U : RankIn(U, i) = k
    BY <1>8, RanksFill
  <2> HIDE DEF U, S, N
  <2> QED
    BY <1>9, <2>1, <2>2, <2>3
<1>11. Cardinality(ShowingOf(e, f, s, d, b)) = Cardinality(U)
  <2>1. Cardinality(1 .. Cardinality(U)) = Cardinality(U)
    BY <1>8, FS_Interval
  <2> QED
    BY <1>10, <2>1, NumbersAreRows
<1>12. counts[d][b] <= Cardinality(U)
  <2> SUFFICES ASSUME Cardinality(U) < counts[d][b]
               PROVE  FALSE
    BY <1>2, <1>8
  <2> DEFINE m == Cardinality(U) + 1
  <2>1. m \in 1 .. Cardinality(S) /\ m <= counts[d][b]
    BY <1>1, <1>2, <1>8
  <2>2. PICK i \in S : RankIn(S, i) = m
    BY <1>1, <2>1, RanksFill
  <2>3. i \in U
    <3> SUFFICES ASSUME <<d, i>> \in DOMAIN s
                 PROVE  FALSE
      OBVIOUS
    <3> DEFINE p == <<d, i>>
    <3>1. p \in Places(e) /\ p[1] = d /\ s[p] \in Matched(f) /\ f[s[p]] = p
      BY <1>3 DEF Matches
    <3>2. Fits(e, f, s[p])
      BY <3>1 DEF FitDay
    <3>3. Occurrence(e, p) > counts[d][BookingOf(e, p)]
      BY <3>1, <3>2 DEF Fits
    <3> QED
      BY <1>2, <1>3, <1>8, <2>1, <2>2, <3>3
  <2>4. RankIn(U, i) \in 1 .. Cardinality(U)
    BY <1>8, <2>3, RankRange
  <2> QED
    BY <1>8, <1>9, <2>2, <2>3, <2>4
<1> QED
  BY <1>1, <1>8, <1>10, <1>11, <1>12

(* Where it shows fewer, the count stands.                                 *)
LEMMA FewerShown ==
  ASSUME TypeOK, NEW e, OfRows(e), NEW f, NEW s, Matches(e, f, s),
         NEW d \in Days, NEW b \in Bookings,
         Shown(e, d, b) < counts[d][b]
  PROVE  Cardinality(ShowingOf(e, f, s, d, b)) <= counts[d][b]
<1>1. counts[d][b] \in Nat /\ Shown(e, d, b) \in Int
  BY BoundsAssumption, ShownIsCounted DEF TypeOK
<1>2. ASSUME NEW p \in ShowingOf(e, f, s, d, b)
      PROVE  Shows(RunOf(e, f, s), p).k \in 1 .. counts[d][b]
  <2>1. /\ p \in Places(e) /\ Shows(RunOf(e, f, s), p).day = d
        /\ Shows(RunOf(e, f, s), p).booking = b
        /\ Shows(RunOf(e, f, s), p) \in Identities
    BY ShowsOne DEF ShowingOf
  <2>2. Shows(RunOf(e, f, s), p).k \in 1 .. MaxBooked
    BY <2>1 DEF Identities
  <2>3. CASE Shows(RunOf(e, f, s), p) \in Dropped(e)
    BY <1>1, <2>1, <2>2, <2>3, DropsAre
  <2>4. CASE Shows(RunOf(e, f, s), p) = Identity(e, p)
    <3>1. p[1] = d /\ BookingOf(e, p) = b /\ Shows(RunOf(e, f, s), p).k = Occurrence(e, p)
      BY <2>1, <2>4 DEF Identity
    <3>2. Occurrence(e, p) \in 1 .. Shown(e, d, b)
      BY <2>1, <3>1, IdentityIsOwn
    <3> QED
      BY <1>1, <3>1, <3>2
  <2> QED
    BY <2>1, <2>3, <2>4, ShowsWhich DEF Matches
<1>3. NumbersOf(e, f, s, d, b) \in SUBSET (1 .. counts[d][b])
  BY <1>2 DEF NumbersOf
<1>4. IsFiniteSet(1 .. counts[d][b]) /\ Cardinality(1 .. counts[d][b]) = counts[d][b]
  <2> DEFINE c == counts[d][b]
  <2>1. c \in Nat
    BY <1>1
  <2> HIDE DEF c
  <2>2. IsFiniteSet(1 .. c) /\ Cardinality(1 .. c) = c
    BY <2>1, FS_Interval
  <2> QED
    BY <2>2 DEF c
<1>5. Cardinality(NumbersOf(e, f, s, d, b)) <= counts[d][b]
  BY <1>3, <1>4, FS_Subset
<1> QED
  BY <1>5, NumbersAreRows

-----------------------------------------------------------------------------
(* What the bank does.                                                     *)

Count(s, c) == Cardinality({i \in DOMAIN s : s[i] = c})

LEMMA CountIsFinite ==
  ASSUME NEW s \in Seq(Bookings), NEW c
  PROVE  IsFiniteSet({i \in DOMAIN s : s[i] = c}) /\ Count(s, c) \in Nat
<1>1. Len(s) \in Nat /\ DOMAIN s = 1 .. Len(s)
  OBVIOUS
<1>2. IsFiniteSet(1 .. Len(s))
  BY <1>1, FS_Interval
<1>3. {i \in DOMAIN s : s[i] = c} \in SUBSET (1 .. Len(s))
  BY <1>1
<1>4. IsFiniteSet({i \in DOMAIN s : s[i] = c})
  BY <1>2, <1>3, FS_Subset
<1> QED
  BY <1>4, FS_CardinalityType DEF Count

(* One taken out.                                                          *)
LEMMA CountRemoved ==
  ASSUME NEW s \in Seq(Bookings), NEW n \in DOMAIN s, NEW t,
         t = [i \in 1 .. Len(s) - 1 |-> IF i < n THEN s[i] ELSE s[i + 1]],
         NEW c
  PROVE  /\ t \in Seq(Bookings)
         /\ Count(t, c) <= Count(s, c)
         /\ c # s[n] => Count(t, c) = Count(s, c)
<1> DEFINE S == {i \in DOMAIN s : s[i] = c}
           T == {i \in DOMAIN t : t[i] = c}
           g == [i \in T |-> IF i < n THEN i ELSE i + 1]
           h == [i \in S |-> IF i < n THEN i ELSE i - 1]
<1>1. /\ Len(s) \in Nat /\ DOMAIN s = 1 .. Len(s) /\ n \in 1 .. Len(s)
      /\ \A i \in 1 .. Len(s) : s[i] \in Bookings
  OBVIOUS
<1>2. DOMAIN t = 1 .. Len(s) - 1
  OBVIOUS
<1>3. \A i \in 1 .. Len(s) - 1 : t[i] \in Bookings
  BY <1>1
<1>4. t \in Seq(Bookings)
  <2>1. Len(s) - 1 \in Nat /\ t \in [1 .. Len(s) - 1 -> Bookings]
    BY <1>1, <1>3
  <2> QED
    BY <2>1
<1>5. IsFiniteSet(S) /\ IsFiniteSet(T)
  BY <1>4, CountIsFinite
<1>6. Cardinality(S) \in Nat /\ Cardinality(T) \in Nat
  BY <1>5, FS_CardinalityType
<1>7. g \in Injection(T, S)
  <2>1. \A i \in T : (IF i < n THEN i ELSE i + 1) \in S
    BY <1>1, <1>2
  <2>2. \A i, j \in T : (IF i < n THEN i ELSE i + 1) = (IF j < n THEN j ELSE j + 1) => i = j
    BY <1>1, <1>2
  <2> HIDE DEF S, T
  <2> QED
    BY <2>1, <2>2 DEF Injection, IsInjective
<1>8. c # s[n] => h \in Injection(S, T)
  <2> SUFFICES ASSUME c # s[n]
               PROVE  h \in Injection(S, T)
    OBVIOUS
  <2>1. \A i \in S : (IF i < n THEN i ELSE i - 1) \in T
    BY <1>1, <1>2
  <2>2. \A i, j \in S : (IF i < n THEN i ELSE i - 1) = (IF j < n THEN j ELSE j - 1) => i = j
    BY <1>1
  <2> HIDE DEF S, T
  <2> QED
    BY <2>1, <2>2 DEF Injection, IsInjective
<1>9. Cardinality(T) <= Cardinality(S)
  BY <1>5, <1>7, FS_Injection
<1>10. c # s[n] => Cardinality(S) <= Cardinality(T)
  BY <1>5, <1>8, FS_Injection
<1> QED
  BY <1>4, <1>6, <1>9, <1>10 DEF Count

(* One worded otherwise.                                                   *)
LEMMA CountReworded ==
  ASSUME NEW s \in Seq(Bookings), NEW n \in DOMAIN s, NEW b \in Bookings, NEW c
  PROVE  /\ [s EXCEPT ![n] = b] \in Seq(Bookings)
         /\ c # s[n] => Count(s, c) <= Count([s EXCEPT ![n] = b], c)
         /\ c # b => Count([s EXCEPT ![n] = b], c) <= Count(s, c)
<1> DEFINE t == [s EXCEPT ![n] = b]
           S(q) == {i \in DOMAIN q : q[i] = c}
<1>1. t \in Seq(Bookings) /\ DOMAIN t = DOMAIN s
  OBVIOUS
<1>2. \A i \in DOMAIN s : t[i] = IF i = n THEN b ELSE s[i]
  OBVIOUS
<1> HIDE DEF t
<1>3. IsFiniteSet(S(s)) /\ IsFiniteSet(S(t))
  BY <1>1, CountIsFinite
<1>4. c # s[n] => S(s) \in SUBSET S(t)
  BY <1>1, <1>2
<1>5. c # b => S(t) \in SUBSET S(s)
  BY <1>1, <1>2
<1>6. c # s[n] => Cardinality(S(s)) <= Cardinality(S(t))
  BY <1>3, <1>4, FS_Subset
<1>7. c # b => Cardinality(S(t)) <= Cardinality(S(s))
  BY <1>3, <1>5, FS_Subset
<1> QED
  BY <1>1, <1>6, <1>7 DEF Count, t

-----------------------------------------------------------------------------
(* The type invariant.                                                     *)

TakenIsSeq == taken \in Seq({taken[i] : i \in DOMAIN taken})

TypeInv == TypeOK /\ TakenIsSeq

(* A file that can be read shows rows of the books, on days it covers.     *)
LEMMA FilesShowBooks ==
  ASSUME TypeOK, NEW from, NEW through, NEW e \in Files(from, through), e.readable
  PROVE  /\ OfRows(e)
         /\ e.books = books
         /\ Places(e) \subseteq InBooks(books)
         /\ \A p \in Places(e) : /\ BookingOf(e, p) = books[p[1]][p[2]]
                                 /\ Stated(e, p) \in {None, BalanceAt(books, p)}
                                 /\ Covers(e, p[1])
<1> DEFINE whole == [from |-> from, through |-> through, books |-> books,
                     rows |-> RowsOf(books, from, through), readable |-> TRUE, labelled |-> TRUE]
           ShowsWhole ==
             /\ e.books = books /\ e.from = from /\ e.through = through
             /\ DOMAIN e.rows \subseteq DOMAIN RowsOf(books, from, through)
             /\ \A p \in DOMAIN e.rows :
                  /\ e.rows[p].booking = RowsOf(books, from, through)[p].booking
                  /\ e.rows[p].balance \in {None, RowsOf(books, from, through)[p].balance}
<1>1. e = whole \/ e \in Flawed(whole)
  BY DEF Files
<1>2. /\ whole.books = books /\ whole.from = from /\ whole.through = through
      /\ whole.rows = RowsOf(books, from, through)
  OBVIOUS
<1>3. /\ DOMAIN RowsOf(books, from, through) \subseteq InBooks(books)
      /\ \A p \in DOMAIN RowsOf(books, from, through) :
           /\ p[1] \in from .. through
           /\ RowsOf(books, from, through)[p].booking = books[p[1]][p[2]]
           /\ RowsOf(books, from, through)[p].balance = BalanceAt(books, p)
  BY DEF RowsOf
<1>4. ShowsWhole
  <2>1. CASE e = whole
    BY <2>1
  <2>2. CASE e = [whole EXCEPT !.readable = FALSE, !.rows = <<>>, !.books = [d \in Days |-> <<>>]]
    BY <2>2
  <2>3. CASE e = [whole EXCEPT !.labelled = FALSE]
    BY <2>3
  <2>4. ASSUME NEW q \in Places(whole),
               e = [whole EXCEPT !.rows = [p \in Places(whole) \ {q} |-> whole.rows[p]]]
        PROVE  ShowsWhole
    BY <2>4 DEF Places
  <2>5. ASSUME NEW q \in Places(whole), e = [whole EXCEPT !.rows[q].balance = None]
        PROVE  ShowsWhole
    BY <2>5 DEF Places
  <2> HIDE DEF whole, ShowsWhole
  <2> QED
    BY <1>1, <2>1, <2>2, <2>3, <2>4, <2>5 DEF Flawed
<1> HIDE DEF whole
<1>5. \A p \in InBooks(books) : p \in Rows /\ books[p[1]][p[2]] \in Bookings
  <2>1. \A d \in Days : books[d] \in Seq(Bookings)
    BY DEF TypeOK
  <2>2. ASSUME NEW p \in InBooks(books)
        PROVE  p \in Rows /\ books[p[1]][p[2]] \in Bookings
    <3>1. p \in Rows /\ p[1] \in Days /\ p[2] \in 1 .. MaxBooked /\ p[2] <= Len(books[p[1]])
      BY <2>2 DEF InBooks, Rows
    <3>2. p[2] \in 1 .. Len(books[p[1]])
      BY <2>1, <3>1, BoundsAssumption
    <3> QED
      BY <2>1, <3>1, <3>2
  <2> QED
    BY <2>2
<1> QED
  BY <1>3, <1>4, <1>5 DEF OfRows, Places, BookingOf, Stated, Covers

(* One more run is taken, with its status.                                 *)
LEMMA TookKeeps ==
  ASSUME TypeInv, NEW run, NEW status \in {"repeat", "quarantined", "accepted"},
         Took(run, status)
  PROVE  /\ TakenIsSeq'
         /\ \A i \in DOMAIN taken' : taken'[i].status \in {"repeat", "quarantined", "accepted"}
<1> DEFINE S == {taken[i] : i \in DOMAIN taken}
           x == [export |-> run.export, same |-> run.same, misnamed |-> run.misnamed,
                 status |-> status]
<1>1. taken \in Seq(S) /\ taken' = Append(taken, x)
  BY DEF TypeInv, TakenIsSeq, Took
<1>2. \A i \in DOMAIN taken : taken[i].status \in {"repeat", "quarantined", "accepted"}
  BY DEF TypeInv, TypeOK
<1>3. x.status = status
  OBVIOUS
<1> HIDE DEF S, x
<1>4. taken \in Seq(S \cup {x})
  BY <1>1
<1>5. /\ Len(taken) \in Nat /\ DOMAIN taken = 1 .. Len(taken)
      /\ DOMAIN taken' = 1 .. Len(taken) + 1 /\ taken' \in Seq(S \cup {x})
      /\ \A i \in 1 .. Len(taken) : taken'[i] = taken[i]
      /\ taken'[Len(taken) + 1] = x
  BY <1>1, <1>4, AppendProperties
<1>6. taken' \in Seq({taken'[i] : i \in DOMAIN taken'})
  <2>1. taken' = [i \in 1 .. Len(taken) + 1 |-> taken'[i]]
    BY <1>5
  <2> QED
    BY <1>5, <2>1
<1>7. \A i \in 1 .. Len(taken) + 1 : i \in 1 .. Len(taken) \/ i = Len(taken) + 1
  BY <1>5
<1> QED
  BY <1>2, <1>3, <1>5, <1>6, <1>7 DEF TakenIsSeq

(* What a decision settles stays so.                                       *)
LEMMA ConsultKeeps ==
  ASSUME TypeOK, NEW e, NEW f \in Rulings(e), Consult(f)
  PROVE  /\ DOMAIN ruled' \subseteq Identities
         /\ ruled' \in [DOMAIN ruled' -> {Withdrawn, Undecided}]
         /\ \A t \in DOMAIN ruled : t \in DOMAIN ruled' /\ ruled'[t] = ruled[t]
         /\ \A t \in DOMAIN f : f[t] = Withdrawn => t \in DOMAIN ruled' /\ ruled'[t] = Withdrawn
<1> DEFINE D == DOMAIN ruled \cup DOMAIN f
           R(t) == IF t \in DOMAIN ruled THEN ruled[t]
                   ELSE IF f[t] = Withdrawn THEN Withdrawn ELSE Undecided
<1>1. ruled' = [t \in D |-> R(t)]
  BY DEF Consult
<1>2. DOMAIN ruled \subseteq Identities /\ \A t \in DOMAIN ruled : ruled[t] \in {Withdrawn, Undecided}
  BY DEF TypeOK
<1>3. DOMAIN f = Dropped(e) /\ Dropped(e) \subseteq Identities
  BY DropsAre DEF Rulings
<1>4. \A t \in DOMAIN f \cap DOMAIN ruled : f[t] = Withdrawn <=> ruled[t] = Withdrawn
  BY DEF Rulings
<1>5. \A t \in D : R(t) \in {Withdrawn, Undecided}
  BY <1>2
<1>6. \A t \in DOMAIN f : f[t] = Withdrawn => R(t) = Withdrawn
  BY <1>4
<1>7. \A t \in DOMAIN ruled : R(t) = ruled[t]
  OBVIOUS
<1>8. DOMAIN ruled \subseteq D /\ DOMAIN f \subseteq D /\ D \subseteq Identities
  BY <1>2, <1>3
<1> HIDE DEF D, R
<1>9. DOMAIN ruled' = D /\ \A t \in D : ruled'[t] = R(t)
  BY <1>1
<1>10. ruled' \in [D -> {Withdrawn, Undecided}]
  BY <1>1, <1>5
<1> QED
  BY <1>6, <1>7, <1>8, <1>9, <1>10

(* The highest count of each key is kept.                                  *)
LEMMA EnterCounts ==
  ASSUME TypeOK, NEW e, OfRows(e), NEW f, NEW s, Matches(e, f, s), Enter(RunOf(e, f, s))
  PROVE  /\ counts' \in [Days -> [Bookings -> 0 .. MaxBooked]]
         /\ \A d \in Days, b \in Bookings :
              /\ counts[d][b] \in Nat /\ counts'[d][b] \in Nat
              /\ counts[d][b] <= counts'[d][b]
              /\ counts'[d][b] = IF Cardinality(ShowingOf(e, f, s, d, b)) > counts[d][b]
                                 THEN Cardinality(ShowingOf(e, f, s, d, b)) ELSE counts[d][b]
<1> DEFINE C(d, b) == IF Cardinality(ShowingOf(e, f, s, d, b)) > counts[d][b]
                      THEN Cardinality(ShowingOf(e, f, s, d, b)) ELSE counts[d][b]
<1>1. counts' = [d \in Days |-> [b \in Bookings |-> C(d, b)]]
  BY DEF Enter, ShowingOf, RunOf
<1>2. \A d \in Days, b \in Bookings :
        /\ counts[d][b] \in 0 .. MaxBooked
        /\ Cardinality(ShowingOf(e, f, s, d, b)) \in 0 .. MaxBooked
  BY NumbersAreRows DEF TypeOK
<1>3. \A d \in Days, b \in Bookings :
        /\ C(d, b) \in 0 .. MaxBooked
        /\ counts[d][b] \in Nat /\ C(d, b) \in Nat
        /\ counts[d][b] <= C(d, b)
  BY <1>2, BoundsAssumption
<1>4. \A d \in Days, b \in Bookings : counts'[d][b] = C(d, b)
  <2> HIDE DEF C
  <2> QED
    BY <1>1
<1>5. counts' \in [Days -> [Bookings -> 0 .. MaxBooked]]
  <2> HIDE DEF C
  <2> QED
    BY <1>1, <1>3
<1> QED
  BY <1>3, <1>4, <1>5

LEMMA TypeInit == Init => TypeInv
<1> SUFFICES ASSUME Init
             PROVE  TypeInv
  OBVIOUS
<1>1. MaxDay \in Nat /\ MaxDay > 0 /\ 0 \in 0 .. MaxBooked /\ 0 \in 0 .. MaxChanges
  BY BoundsAssumption
<1>2. today \in Days
  BY <1>1 DEF Init, Days
<1>3. books \in [Days -> Seq(Bookings)]
  BY DEF Init
<1>4. counts \in [Days -> [Bookings -> 0 .. MaxBooked]]
  BY <1>1 DEF Init
<1>5. TakenIsSeq /\ DOMAIN taken = {}
  BY EmptySeq DEF Init, TakenIsSeq
<1>6. ruled \in [DOMAIN ruled -> {Withdrawn, Undecided}] /\ DOMAIN ruled = {}
  BY DEF Init
<1>7. DOMAIN selected = {} /\ withdrawn = {} /\ changes = 0
  BY DEF Init
<1> QED
  BY <1>1, <1>2, <1>3, <1>4, <1>5, <1>6, <1>7 DEF TypeInv, TypeOK

LEMMA BankKeepsType ==
  ASSUME TypeInv,
         \/ NextDay
         \/ \E d \in Days, b \in Bookings : Book(d, b)
         \/ \E p \in InBooks(books) : BankCorrects(p)
  PROVE  TypeInv'
<1> DEFINE OfType ==
             /\ books' \in [Days -> Seq(Bookings)]
             /\ changes' \in 0 .. MaxChanges
<1>1. UNCHANGED <<taken, counts, selected, withdrawn, ruled>>
  BY DEF NextDay, Book, BankCorrects, ledger
<1>2. today' \in Days
  <2>1. today' = today \/ (today < MaxDay /\ today' = today + 1)
    BY DEF NextDay, Book, BankCorrects
  <2>2. today \in Days
    BY DEF TypeInv, TypeOK
  <2> QED
    BY <2>1, <2>2, BoundsAssumption DEF Days
<1>3. \A d \in Days : books[d] \in Seq(Bookings)
  BY DEF TypeInv, TypeOK
<1>4. OfType
  <2>1. CASE NextDay
    BY <2>1 DEF NextDay, TypeInv, TypeOK
  <2>2. ASSUME NEW d \in Days, NEW b \in Bookings, Book(d, b)
        PROVE  OfType
    <3>1. Append(books[d], b) \in Seq(Bookings)
      BY <1>3, AppendProperties
    <3> QED
      BY <2>2, <3>1 DEF Book, TypeInv, TypeOK
  <2>3. ASSUME NEW p \in InBooks(books), BankCorrects(p)
        PROVE  OfType
    <3>1. /\ p[1] \in Days /\ p[2] \in DOMAIN books[p[1]]
          /\ books[p[1]][p[2]] \in Bookings
      <4>1. p[1] \in Days /\ p[2] \in 1 .. MaxBooked /\ p[2] <= Len(books[p[1]])
        BY DEF InBooks, Rows
      <4>2. p[2] \in 1 .. Len(books[p[1]])
        BY <1>3, <4>1, BoundsAssumption, SMTT(30)
      <4> QED
        BY <1>3, <4>1, <4>2
    <3>2. changes' \in 0 .. MaxChanges
      BY <2>3, BoundsAssumption DEF BankCorrects, TypeInv, TypeOK
    <3>3. books' \in [Days -> Seq(Bookings)]
      <4>1. [i \in 1 .. Len(books[p[1]]) - 1 |->
               IF i < p[2] THEN books[p[1]][i] ELSE books[p[1]][i + 1]] \in Seq(Bookings)
        BY <1>3, <3>1, CountRemoved
      <4>2. \A b \in Bookings : [books[p[1]] EXCEPT ![p[2]] = b] \in Seq(Bookings)
        BY <1>3, <3>1, CountReworded
      <4> QED
        BY <2>3, <3>1, <4>1, <4>2, ZenonT(30) DEF BankCorrects, TypeInv, TypeOK
    <3> QED
      BY <3>2, <3>3
  <2> QED
    BY <2>1, <2>2, <2>3
<1> QED
  BY <1>1, <1>2, <1>4 DEF TypeInv, TypeOK, TakenIsSeq, Covers

(* Every drop is settled, by a withdrawn decision or a record.             *)
AllSettled(f) == \A t \in DOMAIN f : f[t] = Withdrawn \/ t \in Matched(f)

(* What an admitted run changes.                                           *)
LEMMA AdmitFacts ==
  ASSUME TypeOK, NEW from, NEW through, NEW e \in Files(from, through), Admit(e)
  PROVE  \E f \in Rulings(e) : \E s \in Remappings(e, f) :
           /\ OfRows(e) /\ e.readable
           /\ Matches(e, f, s) /\ AllSettled(f)
           /\ Consult(f) /\ Enter(RunOf(e, f, s))
           /\ withdrawn' = withdrawn \cup {t \in DOMAIN f : f[t] = Withdrawn}
           /\ Took(RunOf(e, f, s), "accepted")
<1>1. e.readable
  BY DEF Admit, Judged
<1>2. OfRows(e)
  BY <1>1, FilesShowBooks
<1>3. PICK f, s :
        /\ f \in Rulings(e) /\ s \in Remappings(e, f)
        /\ ~ Unsettled(f)
        /\ Consult(f)
        /\ withdrawn' = withdrawn \cup {t \in DOMAIN f : f[t] = Withdrawn}
        /\ Enter(RunOf(e, f, s))
        /\ Took(RunOf(e, f, s), "accepted")
  BY DEF Admit, RunOf
<1>4. AllSettled(f)
  BY <1>3 DEF Unsettled, AllSettled, Matched
<1> QED
  BY <1>1, <1>2, <1>3, <1>4, RulingsMatch

LEMMA TakingKeepsType ==
  ASSUME TypeInv, NEW from, NEW through, NEW e \in Files(from, through), Take(e)
  PROVE  TypeInv'
<1> USE DEF TypeInv
<1>1. CASE TakeRepeat(e) \/ Refuse(e)
  <2>1. UNCHANGED <<bank, ledger, ruled>>
    BY <1>1 DEF TakeRepeat, Refuse, Took
  <2>2. /\ TakenIsSeq'
        /\ \A i \in DOMAIN taken' : taken'[i].status \in {"repeat", "quarantined", "accepted"}
    BY <1>1, TookKeeps DEF TakeRepeat, Refuse
  <2> QED
    BY <2>1, <2>2 DEF TypeOK, bank, ledger, Covers
<1>2. CASE Quarantine(e)
  <2>2. PICK f \in Rulings(e) : Consult(f)
    BY <1>2 DEF Quarantine
  <2>3. UNCHANGED <<bank, ledger>>
    BY <1>2 DEF Quarantine, Took
  <2>4. /\ TakenIsSeq'
        /\ \A i \in DOMAIN taken' : taken'[i].status \in {"repeat", "quarantined", "accepted"}
    BY <1>2, TookKeeps DEF Quarantine
  <2>5. /\ DOMAIN ruled' \subseteq Identities
        /\ ruled' \in [DOMAIN ruled' -> {Withdrawn, Undecided}]
        /\ \A t \in DOMAIN ruled : t \in DOMAIN ruled' /\ ruled'[t] = ruled[t]
    BY <2>2, ConsultKeeps
  <2>6. withdrawn' \subseteq {t \in DOMAIN ruled' : ruled'[t] = Withdrawn}
    BY <2>3, <2>5 DEF TypeOK, ledger
  <2> QED
    BY <2>3, <2>4, <2>5, <2>6 DEF TypeOK, bank, ledger, Covers
<1>3. CASE Admit(e)
  <2>1. PICK f, s :
          /\ f \in Rulings(e) /\ s \in Remappings(e, f)
          /\ OfRows(e) /\ e.readable
          /\ Matches(e, f, s)
          /\ Consult(f) /\ Enter(RunOf(e, f, s))
          /\ withdrawn' = withdrawn \cup {t \in DOMAIN f : f[t] = Withdrawn}
          /\ Took(RunOf(e, f, s), "accepted")
    BY <1>3, AdmitFacts
  <2>2. UNCHANGED bank
    BY <2>1 DEF Took
  <2>3. /\ TakenIsSeq'
        /\ \A i \in DOMAIN taken' : taken'[i].status \in {"repeat", "quarantined", "accepted"}
    BY <2>1, TookKeeps
  <2>4. /\ DOMAIN ruled' \subseteq Identities
        /\ ruled' \in [DOMAIN ruled' -> {Withdrawn, Undecided}]
        /\ \A t \in DOMAIN ruled : t \in DOMAIN ruled' /\ ruled'[t] = ruled[t]
        /\ \A t \in DOMAIN f : f[t] = Withdrawn => t \in DOMAIN ruled' /\ ruled'[t] = Withdrawn
    BY <2>1, ConsultKeeps
  <2>5. /\ counts' \in [Days -> [Bookings -> 0 .. MaxBooked]]
        /\ \A d \in Days, b \in Bookings :
             /\ counts[d][b] \in Nat /\ counts'[d][b] \in Nat /\ counts[d][b] <= counts'[d][b]
    BY <2>1, EnterCounts
  <2>6. /\ DOMAIN selected' \subseteq Days
        /\ \A d \in DOMAIN selected' : Covers(selected'[d].export, d)
    <3>1. selected' = [d \in DOMAIN selected \cup {p[1] : p \in Places(e)} |->
                         IF Covers(e, d) THEN RunOf(e, f, s) ELSE selected[d]]
      BY <2>1 DEF Enter, RunOf
    <3>2. \A p \in Places(e) : p[1] \in Days /\ Covers(e, p[1])
      BY <2>1, FilesShowBooks, OccurrenceIsRank
    <3>3. /\ DOMAIN selected \subseteq Days
          /\ \A d \in DOMAIN selected : Covers(selected[d].export, d)
      BY DEF TypeOK
    <3>4. RunOf(e, f, s).export = e
      BY DEF RunOf
    <3> QED
      BY <3>1, <3>2, <3>3, <3>4
  <2>7. withdrawn' \subseteq {t \in Identities : t.k <= counts'[t.day][t.booking]}
    <3>1. \A t \in withdrawn' : t \in Identities /\ t.k <= counts[t.day][t.booking]
      BY <2>1, DropsAre DEF TypeOK, Matches
    <3>2. \A t \in Identities : t.k \in Nat /\ t.day \in Days /\ t.booking \in Bookings
      BY BoundsAssumption DEF Identities
    <3>3. \A t \in withdrawn' : t.k <= counts'[t.day][t.booking]
      BY <2>5, <3>1, <3>2
    <3> QED
      BY <3>1, <3>3
  <2>8. withdrawn' \subseteq {t \in DOMAIN ruled' : ruled'[t] = Withdrawn}
    BY <2>1, <2>4 DEF TypeOK
  <2> QED
    BY <2>2, <2>3, <2>4, <2>5, <2>6, <2>7, <2>8 DEF TypeOK, bank
<1> QED
  BY <1>1, <1>2, <1>3 DEF Take

LEMMA TypeNext == TypeInv /\ [Next]_vars => TypeInv'
<1> SUFFICES ASSUME TypeInv, [Next]_vars
             PROVE  TypeInv'
  OBVIOUS
<1>1. CASE UNCHANGED vars
  BY <1>1 DEF vars, bank, ledger, TypeInv, TypeOK, TakenIsSeq, Covers
<1>2. ASSUME NEW from, NEW through, NEW e \in Files(from, through), Take(e)
      PROVE  TypeInv'
  BY <1>2, TakingKeepsType
<1>3. CASE Next
  BY <1>2, <1>3, BankKeepsType DEF Next
<1> QED
  BY <1>1, <1>3

(* The ledger, the books and the runs taken keep their types.              *)
THEOREM TypeCorrect == Spec => []TypeOK
<1>1. TypeInv => TypeOK
  BY DEF TypeInv
<1> QED
  BY <1>1, TypeInit, TypeNext, PTL DEF Spec

-----------------------------------------------------------------------------
(* Each day is its export.                                                 *)

(* The count of a key is how many numbers the run shows of it, or stands.  *)
LEMMA MergedCounts ==
  ASSUME TypeOK, NEW e, OfRows(e), NEW f, NEW s, Matches(e, f, s), Enter(RunOf(e, f, s)),
         NEW d \in Days, NEW b \in Bookings
  PROVE  /\ Shown(e, d, b) < counts[d][b] => counts'[d][b] = counts[d][b]
         /\ FitDay(e, f, s, d) /\ Shown(e, d, b) >= counts[d][b] =>
              /\ NumbersOf(e, f, s, d, b) = 1 .. counts'[d][b]
              /\ counts'[d][b] <= Shown(e, d, b)
<1> DEFINE n == Shown(e, d, b)
           c == counts[d][b]
           m == Cardinality(ShowingOf(e, f, s, d, b))
           fits == FitDay(e, f, s, d)
<1>1. c \in Nat /\ counts'[d][b] = IF m > c THEN m ELSE c
  BY EnterCounts
<1>2. m \in Nat
  BY NumbersAreRows, BoundsAssumption
<1>3. fits /\ n >= c => NumbersOf(e, f, s, d, b) = 1 .. m /\ c <= m /\ m <= n
  BY AllShown
<1>4. n < c => m <= c
  BY FewerShown
<1> HIDE DEF n, c, m, fits
<1>5. fits /\ n >= c => counts'[d][b] = m
  BY <1>1, <1>2, <1>3
<1>6. n < c => counts'[d][b] = c
  BY <1>1, <1>2, <1>4
<1> QED
  BY <1>3, <1>5, <1>6 DEF n, c, fits

(* After a run is admitted, what is kept on a day that fits is what its    *)
(* rows show and is not withdrawn.                                         *)
LEMMA KeptIsShown ==
  ASSUME TypeOK, NEW e, OfRows(e), NEW f, NEW s, Matches(e, f, s), AllSettled(f),
         Enter(RunOf(e, f, s)),
         withdrawn' = withdrawn \cup {t \in DOMAIN f : f[t] = Withdrawn},
         NEW t \in Identities, Covers(e, t.day), FitDay(e, f, s, t.day)
  PROVE  t \in Kept' <=> /\ \E p \in Places(e) : Shows(RunOf(e, f, s), p) = t
                         /\ t \notin withdrawn'
<1> DEFINE d == t.day
           b == t.booking
           n == Shown(e, d, b)
           c == counts[d][b]
<1>1. d \in Days /\ b \in Bookings /\ t.k \in Nat /\ t.k # 0
      /\ t = [day |-> d, booking |-> b, k |-> t.k]
  BY BoundsAssumption DEF Identities
<1>2. c \in Nat /\ n \in Nat /\ counts'[d][b] \in Nat /\ c <= counts'[d][b]
  BY <1>1, EnterCounts, ShownIsCounted, BoundsAssumption
<1>3. n >= c => /\ NumbersOf(e, f, s, d, b) = 1 .. counts'[d][b]
                /\ counts'[d][b] <= n
  BY <1>1, MergedCounts
<1>4. n < c => counts'[d][b] = c
  BY <1>1, MergedCounts
<1>5. t \in Kept' <=> t.k <= counts'[d][b] /\ t \notin withdrawn'
  BY DEF Kept
<1>6. t \in Dropped(e) <=> t.k <= c /\ t \notin withdrawn /\ t.k > n
  BY DEF Dropped, Kept
<1>7. ASSUME NEW p \in Places(e), Shows(RunOf(e, f, s), p) = t
      PROVE  t.k <= counts'[d][b]
  <2>1. p \in ShowingOf(e, f, s, d, b) /\ t.k \in NumbersOf(e, f, s, d, b)
    BY <1>7 DEF ShowingOf, NumbersOf
  <2>2. CASE t \in Dropped(e)
    BY <1>1, <1>2, <1>6, <2>2
  <2>3. CASE Shows(RunOf(e, f, s), p) = Identity(e, p)
    <3>1. p[1] = d /\ BookingOf(e, p) = b /\ t.k = Occurrence(e, p)
      BY <1>7, <2>3 DEF Identity
    <3>2. t.k \in 1 .. n
      BY <3>1, IdentityIsOwn
    <3>3. n >= c => t.k <= counts'[d][b]
      BY <1>2, <1>3, <2>1
    <3>4. n < c => t.k <= counts'[d][b]
      BY <1>2, <1>4, <3>2
    <3> QED
      BY <1>2, <3>3, <3>4
  <2> QED
    BY <1>7, <2>2, <2>3, ShowsWhich
<1>8. ASSUME t \in Kept'
      PROVE  \E p \in Places(e) : Shows(RunOf(e, f, s), p) = t
  <2>1. /\ t.k <= counts'[d][b] /\ t \notin withdrawn
        /\ ~ (t \in DOMAIN f /\ f[t] = Withdrawn)
    BY <1>5, <1>8
  <2>2. CASE n >= c
    <3>1. t.k \in NumbersOf(e, f, s, d, b)
      BY <1>1, <1>2, <1>3, <2>1, <2>2
    <3>2. PICK p \in ShowingOf(e, f, s, d, b) : Shows(RunOf(e, f, s), p).k = t.k
      BY <3>1 DEF NumbersOf
    <3>3. /\ p \in Places(e) /\ Shows(RunOf(e, f, s), p) \in Identities
          /\ Shows(RunOf(e, f, s), p).day = d /\ Shows(RunOf(e, f, s), p).booking = b
      BY ShowsOne DEF ShowingOf
    <3> QED
      BY <1>1, <3>2, <3>3 DEF Identities
  <2>3. CASE n < c /\ t.k <= n
    <3>1. PICK p \in Places(e) : Identity(e, p) = t
      BY <2>3, IdentityIsFound
    <3>2. p[1] = d /\ BookingOf(e, p) = b /\ Occurrence(e, p) = t.k
      BY <3>1 DEF Identity
    <3>3. ASSUME p \in DOMAIN s
          PROVE  FALSE
      <4>1. s[p] \in Matched(f) /\ f[s[p]] = p
        BY <3>3 DEF Matches
      <4>2. Fits(e, f, s[p])
        BY <3>2, <4>1 DEF FitDay
      <4>3. Occurrence(e, p) > counts[d][BookingOf(e, p)]
        BY <3>2, <4>1, <4>2 DEF Fits
      <4> QED
        BY <1>1, <1>2, <2>3, <3>2, <4>3
    <3> QED
      BY <3>1, <3>3, ShowsWhich
  <2>4. CASE n < c /\ ~ t.k <= n
    <3>1. t \in DOMAIN f
      BY <1>1, <1>2, <1>4, <1>6, <2>1, <2>4 DEF Matches
    <3>2. t \in Matched(f)
      BY <2>1, <3>1 DEF AllSettled
    <3>3. Fits(e, f, t)
      BY <3>2 DEF FitDay
    <3>4. f[t] \in Places(e) /\ f[t] \in DOMAIN s
      BY <3>2, <3>3 DEF Fits, Matches
    <3>5. s[f[t]] \in Matched(f) /\ f[s[f[t]]] = f[t]
      BY <3>4 DEF Matches
    <3>6. s[f[t]] = t
      BY <3>3, <3>5 DEF Fits
    <3>7. Shows(RunOf(e, f, s), f[t]) = t
      BY <3>4, <3>6, ShowsWhich
    <3> QED
      BY <3>4, <3>7
  <2> QED
    BY <1>2, <2>2, <2>3, <2>4
<1> QED
  BY <1>5, <1>7, <1>8

(* Counted pointwise: equally many rows of the day as transactions kept.   *)
LEMMA OneRowEach ==
  ASSUME NEW e, OfRows(e), NEW R \in SUBSET Places(e), NEW K, NEW run,
         \A p \in R : Shows(run, p) \in K,
         \A t \in K : \E p \in R : Shows(run, p) = t,
         \A p, q \in R : Shows(run, p) = Shows(run, q) => p = q
  PROVE  {Shows(run, p) : p \in R} = K /\ Cardinality(R) = Cardinality(K)
<1> DEFINE g == [p \in R |-> Shows(run, p)]
<1>1. IsFiniteSet(R)
  <2>1. IsFiniteSet(Days) /\ IsFiniteSet(1 .. MaxBooked)
    BY BoundsAssumption, FS_Interval DEF Days
  <2>2. IsFiniteSet(Rows)
    BY <2>1, FS_Product DEF Rows
  <2>3. R \in SUBSET Rows
    BY DEF OfRows
  <2> QED
    BY <2>2, <2>3, FS_Subset
<1>2. g \in Bijection(R, K)
  BY DEF Bijection, Injection, IsInjective, Surjection
<1>3. ExistsBijection(R, K)
  BY <1>2 DEF ExistsBijection
<1> QED
  BY <1>1, <1>3, FS_Bijection

(* A day the run does not cover keeps its transactions, and so does one it *)
(* covers and has no row on.                                               *)
LEMMA OtherDaysStay ==
  ASSUME TypeOK, NEW e, OfRows(e), NEW f, NEW s, Matches(e, f, s), Enter(RunOf(e, f, s)),
         withdrawn' = withdrawn \cup {t \in DOMAIN f : f[t] = Withdrawn},
         NEW d \in Days, \A p \in Places(e) : p[1] # d,
         ~ Covers(e, d) \/ \A t \in Kept : t.day # d
  PROVE  /\ {t \in Kept' : t.day = d} = {t \in Kept : t.day = d}
         /\ \A t \in Kept : t.day = d => t \notin withdrawn'
<1>1. ASSUME NEW t \in Dropped(e)
      PROVE  t.day # d
  BY DropsAre
<1>2. ASSUME NEW t \in Identities, t.day = d
      PROVE  t \in Kept' <=> t \in Kept
  <2>1. t.booking \in Bookings /\ t.k \in Nat
    BY BoundsAssumption DEF Identities
  <2>2. ASSUME NEW p \in Places(e)
        PROVE  Shows(RunOf(e, f, s), p).day # d
    BY <1>1, ShowsWhich DEF Identity
  <2>3. ShowingOf(e, f, s, d, t.booking) = {}
    BY <2>2 DEF ShowingOf
  <2>4. Cardinality(ShowingOf(e, f, s, d, t.booking)) = 0
    BY <2>3, FS_EmptySet
  <2>5. counts'[d][t.booking] = counts[d][t.booking]
    BY <2>1, <2>4, EnterCounts
  <2>6. t \notin DOMAIN f
    BY <1>1, <1>2 DEF Matches
  <2> QED
    BY <1>2, <2>5, <2>6 DEF Kept
<1>3. Kept' \subseteq Identities /\ Kept \subseteq Identities
  BY DEF Kept
<1>4. ASSUME NEW t \in Kept, t.day = d
      PROVE  t \notin withdrawn'
  BY <1>2, <1>3, <1>4 DEF Kept
<1> QED
  BY <1>2, <1>3, <1>4

LEMMA AdmittingKeepsDays ==
  ASSUME TypeOK, DayIsItsExport,
         NEW from, NEW through, NEW e \in Files(from, through), Admit(e)
  PROVE  DayIsItsExport'
<1>1. PICK f, s :
        /\ f \in Rulings(e) /\ s \in Remappings(e, f)
        /\ OfRows(e) /\ e.readable
        /\ Matches(e, f, s) /\ AllSettled(f)
        /\ Consult(f) /\ Enter(RunOf(e, f, s))
        /\ withdrawn' = withdrawn \cup {t \in DOMAIN f : f[t] = Withdrawn}
        /\ Took(RunOf(e, f, s), "accepted")
  BY AdmitFacts
<1> DEFINE run == RunOf(e, f, s)
           Excepted(r, d) == d \in r.misnamed \cup Renumbered(r)
           rowsOf(r, d, w) == {p \in Places(r.export) : p[1] = d /\ Shows(r, p) \notin w}
           IsDay(r, d, kept, w) ==
             /\ {Shows(r, p) : p \in rowsOf(r, d, w)} = kept
             /\ Cardinality(rowsOf(r, d, w)) = Cardinality(kept)
<1>2. selected' = [d \in DOMAIN selected \cup {p[1] : p \in Places(e)} |->
                     IF Covers(e, d) THEN run ELSE selected[d]]
  BY <1>1 DEF Enter, RunOf
<1>3. \A p \in Places(e) : p \in Rows /\ Covers(e, p[1])
  BY <1>1, FilesShowBooks DEF OfRows
<1>4. run.export = e /\ run.misnamed = Misnamed(e, f)
  BY DEF RunOf
<1>5. ASSUME NEW d \in Days, Covers(e, d), ~ Excepted(run, d)
      PROVE  IsDay(run, d, {t \in Kept' : t.day = d}, withdrawn')
  <2> DEFINE R == {p \in Places(e) : p[1] = d /\ Shows(run, p) \notin withdrawn'}
             K == {t \in Kept' : t.day = d}
  <2>1. FitDay(e, f, s, d)
    BY <1>1, <1>4, <1>5, OtherDaysFit
  <2>2. ASSUME NEW p \in R
        PROVE  Shows(run, p) \in K
    <3>1. Shows(run, p) \in Identities /\ Shows(run, p).day = d
      BY <1>1, <2>1, ShowsOne, ShowsItsDay
    <3> QED
      BY <1>1, <1>5, <2>1, <3>1, KeptIsShown
  <2>3. ASSUME NEW t \in K
        PROVE  \E p \in R : Shows(run, p) = t
    <3>1. t \in Identities /\ t.day = d /\ t \in Kept'
      BY DEF Kept
    <3>2. PICK p \in Places(e) : Shows(run, p) = t /\ t \notin withdrawn'
      BY <1>1, <1>5, <2>1, <3>1, KeptIsShown
    <3>3. p[1] = d
      BY <1>1, <2>1, <3>1, <3>2, ShowsItsDay
    <3> QED
      BY <3>2, <3>3
  <2>4. \A p, q \in R : Shows(run, p) = Shows(run, q) => p = q
    BY <1>1, ShowsOne
  <2>5. R \in SUBSET Places(e) /\ rowsOf(run, d, withdrawn') = R
    BY <1>4
  <2> HIDE DEF R, K, run, rowsOf
  <2>6. {Shows(run, p) : p \in R} = K /\ Cardinality(R) = Cardinality(K)
    BY <1>1, <2>2, <2>3, <2>4, <2>5, OneRowEach
  <2> QED
    BY <2>5, <2>6 DEF K
<1>6. ASSUME NEW d \in Days, d \in DOMAIN selected', ~ Excepted(selected'[d], d)
      PROVE  IsDay(selected'[d], d, {t \in Kept' : t.day = d}, withdrawn')
  <2>1. CASE Covers(e, d)
    <3>1. selected'[d] = run
      BY <1>2, <1>6, <2>1
    <3> HIDE DEF IsDay, run, Excepted
    <3> QED
      BY <1>5, <1>6, <2>1, <3>1
  <2>2. CASE ~ Covers(e, d)
    <3> DEFINE r == selected[d]
    <3>1. \A p \in Places(e) : p[1] # d
      BY <1>3, <2>2
    <3>2. d \in DOMAIN selected /\ selected'[d] = r
      BY <1>2, <1>6, <2>2, <3>1
    <3>3. /\ {t \in Kept' : t.day = d} = {t \in Kept : t.day = d}
          /\ \A t \in Kept : t.day = d => t \notin withdrawn'
      BY <1>1, <2>2, <3>1, OtherDaysStay
    <3>4. IsDay(r, d, {t \in Kept : t.day = d}, withdrawn)
      <4>1. ~ Excepted(r, d)
        BY <1>6, <3>2
      <4> QED
        BY <3>2, <4>1 DEF DayIsItsExport, ShowsItsKept
    <3>5. rowsOf(r, d, withdrawn') = rowsOf(r, d, withdrawn)
      <4>1. ASSUME NEW p \in rowsOf(r, d, withdrawn)
            PROVE  Shows(r, p) \notin withdrawn'
        <5>1. Shows(r, p) \in {t \in Kept : t.day = d}
          BY <3>4
        <5> QED
          BY <3>3, <5>1
      <4>2. withdrawn \subseteq withdrawn'
        BY <1>1
      <4> QED
        BY <4>1, <4>2
    <3> HIDE DEF rowsOf, r
    <3> QED
      BY <3>2, <3>3, <3>4, <3>5
  <2> QED
    BY <2>1, <2>2
<1>7. ASSUME NEW d \in Days, d \notin DOMAIN selected'
      PROVE  {t \in Kept' : t.day = d} = {}
  <2>1. d \notin DOMAIN selected /\ \A p \in Places(e) : p[1] # d
    BY <1>2, <1>7
  <2>2. {t \in Kept : t.day = d} = {}
    BY <2>1 DEF DayIsItsExport, ShowsItsKept
  <2> QED
    BY <1>1, <2>1, <2>2, OtherDaysStay
<1>8. ASSUME NEW d \in Days
      PROVE  \/ d \in DOMAIN selected' /\ Excepted(selected'[d], d)
             \/ ShowsItsKept(d)'
  <2>1. CASE d \in DOMAIN selected' /\ ~ Excepted(selected'[d], d)
    BY <1>6, <2>1 DEF ShowsItsKept
  <2>2. CASE d \notin DOMAIN selected'
    BY <1>7, <2>2 DEF ShowsItsKept
  <2> QED
    BY <2>1, <2>2
<1>9. DayIsItsExport' <=> \A d \in Days : \/ d \in DOMAIN selected' /\ Excepted(selected'[d], d)
                                          \/ ShowsItsKept(d)'
  BY DEF DayIsItsExport, Renumbered, Shows, Identity, Occurrence, BookingOf, Places
<1> QED
  BY <1>8, <1>9

LEMMA LedgerUnchanged == DayIsItsExport /\ UNCHANGED ledger => DayIsItsExport'
<1> SUFFICES ASSUME DayIsItsExport, UNCHANGED ledger
             PROVE  DayIsItsExport'
  OBVIOUS
<1>1. counts' = counts /\ selected' = selected /\ withdrawn' = withdrawn
  BY DEF ledger
<1>2. Kept' = Kept
  BY <1>1 DEF Kept
<1> QED
  BY <1>1, <1>2 DEF DayIsItsExport, ShowsItsKept

LEMMA LedgerInit == Init => DayIsItsExport
<1> SUFFICES ASSUME Init
             PROVE  DayIsItsExport
  OBVIOUS
<1>1. \A d \in Days, b \in Bookings : counts[d][b] = 0
  BY DEF Init
<1>2. ASSUME NEW t \in Kept
      PROVE  FALSE
  <2>1. t \in Identities /\ t.k <= counts[t.day][t.booking]
    BY DEF Kept
  <2>2. t.day \in Days /\ t.booking \in Bookings /\ t.k \in Nat /\ t.k >= 1
    BY <2>1, BoundsAssumption DEF Identities
  <2> QED
    BY <1>1, <2>1, <2>2
<1> QED
  BY <1>2 DEF Init, DayIsItsExport, ShowsItsKept

LEMMA LedgerNext == TypeInv /\ DayIsItsExport /\ [Next]_vars => DayIsItsExport'
<1> SUFFICES ASSUME TypeInv, DayIsItsExport, [Next]_vars
             PROVE  DayIsItsExport'
  OBVIOUS
<1>1. ASSUME NEW from, NEW through, NEW e \in Files(from, through), Take(e)
      PROVE  DayIsItsExport'
  <2>1. CASE Admit(e)
    BY <2>1, AdmittingKeepsDays DEF TypeInv
  <2>2. CASE TakeRepeat(e) \/ Refuse(e) \/ Quarantine(e)
    BY <2>2, LedgerUnchanged DEF TakeRepeat, Refuse, Quarantine, ledger
  <2> QED
    BY <1>1, <2>1, <2>2 DEF Take
<1>2. UNCHANGED ledger => DayIsItsExport'
  BY LedgerUnchanged
<1>3. CASE UNCHANGED vars
  BY <1>2, <1>3 DEF vars
<1>4. CASE Next
  BY <1>1, <1>2, <1>4 DEF Next, NextDay, Book, BankCorrects
<1> QED
  BY <1>3, <1>4

(* After every run taken each day's selected export shows exactly what is  *)
(* kept on the day, one row each (Ledger.admit and the use merge makes of  *)
(* it, silver-layer.md), whatever the bank changes, files lack and         *)
(* decisions say: except on a day a decision matched otherwise than by the *)
(* last new row of those equal.                                            *)
THEOREM DayIsItsExportHolds == Spec => []DayIsItsExport
<1> QED
  BY TypeInit, TypeNext, LedgerInit, LedgerNext, PTL DEF Spec

-----------------------------------------------------------------------------
(* The bank's books, whose balances are the sums of what is booked.        *)

OfBooks(bs) ==
  /\ bs \in [Days -> Seq(Bookings)]
  /\ \A d \in Days : Len(bs[d]) <= MaxBooked

LEMMA RowsOfBooks ==
  ASSUME NEW bs, OfBooks(bs)
  PROVE  /\ IsFiniteSet(InBooks(bs))
         /\ \A d, i : <<d, i>> \in InBooks(bs) <=> d \in Days /\ i \in DOMAIN bs[d]
         /\ \A p \in InBooks(bs) :
              /\ p = <<p[1], p[2]>> /\ p[1] \in Days /\ p[2] \in DOMAIN bs[p[1]]
              /\ p[1] \in Nat /\ p[2] \in Nat
              /\ bs[p[1]][p[2]] \in Bookings
              /\ Amounts(bs)[p] = bs[p[1]][p[2]].amount /\ Amounts(bs)[p] \in Int
<1>1. IsFiniteSet(Rows)
  <2>1. IsFiniteSet(Days) /\ IsFiniteSet(1 .. MaxBooked)
    BY BoundsAssumption, FS_Interval DEF Days
  <2> QED
    BY <2>1, FS_Product DEF Rows
<1>2. \A d \in Days : bs[d] \in Seq(Bookings) /\ Len(bs[d]) <= MaxBooked
  BY DEF OfBooks
<1>3. \A d \in Days : Len(bs[d]) \in Nat /\ DOMAIN bs[d] = 1 .. Len(bs[d])
  BY <1>2
<1>4. IsFiniteSet(InBooks(bs))
  BY <1>1, FS_Subset DEF InBooks
<1>5. ASSUME NEW d, NEW i
      PROVE  <<d, i>> \in InBooks(bs) <=> d \in Days /\ i \in DOMAIN bs[d]
  <2>1. d \in Days => (i \in 1 .. MaxBooked /\ i <= Len(bs[d]) <=> i \in DOMAIN bs[d])
    BY <1>2, <1>3, BoundsAssumption
  <2>2. <<d, i>> \in Rows <=> d \in Days /\ i \in 1 .. MaxBooked
    BY DEF Rows
  <2>3. <<d, i>> \in InBooks(bs) <=> <<d, i>> \in Rows /\ i <= Len(bs[d])
    BY DEF InBooks
  <2> QED
    BY <2>1, <2>2, <2>3
<1>6. ASSUME NEW p \in InBooks(bs)
      PROVE  /\ p = <<p[1], p[2]>> /\ p[1] \in Days /\ p[2] \in DOMAIN bs[p[1]]
             /\ p[1] \in Nat /\ p[2] \in Nat
             /\ bs[p[1]][p[2]] \in Bookings
             /\ Amounts(bs)[p] = bs[p[1]][p[2]].amount /\ Amounts(bs)[p] \in Int
  <2>1. p = <<p[1], p[2]>>
    BY DEF InBooks, Rows
  <2>2. p[1] \in Days /\ p[2] \in DOMAIN bs[p[1]]
    BY <1>5, <2>1
  <2>3. bs[p[1]][p[2]] \in Bookings
    BY <1>2, <2>2
  <2>4. p[1] \in Nat /\ p[2] \in Nat
    BY <1>3, <2>2, BoundsAssumption DEF Days
  <2>5. Amounts(bs)[p] = bs[p[1]][p[2]].amount
    BY DEF Amounts
  <2> QED
    BY <2>1, <2>2, <2>3, <2>4, <2>5, AmountsAssumption
<1> QED
  BY <1>4, <1>5, <1>6

(* What the books of a day come to: each key as often as they hold it.     *)
DaySum(bs, d) == SumFunction([b \in Bookings |-> b.amount * InBooksOf(bs, d, b)])

LEMMA SumOfDay ==
  ASSUME NEW bs, OfBooks(bs), NEW d \in Days
  PROVE  /\ SumFunctionOnSet(Amounts(bs), {p \in InBooks(bs) : p[1] = d}) = DaySum(bs, d)
         /\ DaySum(bs, d) \in Int
         /\ \A b \in Bookings : InBooksOf(bs, d, b) \in Nat
<1> DEFINE S == {p \in InBooks(bs) : p[1] = d}
           f == Amounts(bs)
           h == [p \in S |-> bs[p[1]][p[2]]]
           Of(b) == {p \in S : h[p] = b}
           g == [b \in Bookings |-> b.amount * InBooksOf(bs, d, b)]
<1>1. /\ IsFiniteSet(S) /\ IsFiniteSet(Bookings)
      /\ \A p \in S : f[p] \in Int /\ h[p] \in Bookings /\ f[p] = h[p].amount
  <2>1. IsFiniteSet(S)
    BY RowsOfBooks, FS_Subset
  <2> QED
    BY <2>1, RowsOfBooks, AmountsAssumption
<1>2. \A b \in Bookings : InBooksOf(bs, d, b) = Cardinality(Of(b)) /\ Cardinality(Of(b)) \in Nat
  <2> TAKE b \in Bookings
  <2> DEFINE I == {i \in DOMAIN bs[d] : bs[d][i] = b}
  <2>1. Of(b) = {<<d, i>> : i \in I}
    <3>1. \A p \in Of(b) : p = <<d, p[2]>> /\ p[2] \in I
      BY RowsOfBooks
    <3>2. \A i \in I : <<d, i>> \in Of(b)
      BY RowsOfBooks
    <3> HIDE DEF Of, I
    <3> QED
      BY <3>1, <3>2
  <2>2. IsFiniteSet(I) /\ Cardinality(I) \in Nat
    <3>1. bs[d] \in Seq(Bookings)
      BY DEF OfBooks
    <3> QED
      BY <3>1, CountIsFinite DEF Count
  <2>3. Cardinality({<<d, i>> : i \in I}) = Cardinality(I)
    BY <2>2, PairsCount
  <2> QED
    BY <2>1, <2>2, <2>3 DEF InBooksOf
<1>3. \A b \in Bookings : g[b] = SumFunctionOnSet(f, Of(b)) /\ g[b] \in Int
  <2> TAKE b \in Bookings
  <2>1. IsFiniteSet(Of(b)) /\ (\A p \in Of(b) : f[p] = b.amount) /\ b.amount \in Int
    <3>1. IsFiniteSet(Of(b))
      BY <1>1, FS_Subset
    <3> QED
      BY <1>1, <3>1, AmountsAssumption
  <2>2. SumFunctionOnSet(f, Of(b)) = b.amount * Cardinality(Of(b))
    <3> HIDE DEF Of, f
    <3> QED
      BY <2>1, SumConstant
  <2>3. g[b] = b.amount * Cardinality(Of(b))
    BY <1>2
  <2>4. Cardinality(Of(b)) \in Nat
    BY <1>2
  <2>5. b.amount * Cardinality(Of(b)) \in Int
    <3> HIDE DEF Of
    <3> QED
      BY <2>1, <2>4
  <2> QED
    BY <2>2, <2>3, <2>5
<1>4. SumFunctionOnSet(f, S) = SumFunctionOnSet(g, Bookings)
  <2>1. \A b \in Bookings : g[b] = SumFunctionOnSet(f, Group(S, h, b))
    BY <1>3 DEF Group
  <2> HIDE DEF S, f, h, g
  <2>2. (\A p \in S : f[p] \in Int) /\ (\A p \in S : h[p] \in Bookings)
    BY <1>1
  <2> QED
    BY <1>1, <2>1, <2>2, SumGrouped
<1>5. SumFunctionOnSet(g, Bookings) \in Int
  <2> HIDE DEF g
  <2> QED
    BY <1>1, <1>3, SumIsInteger
<1>6. DaySum(bs, d) = SumFunctionOnSet(g, Bookings)
  BY DEF DaySum, SumFunction
<1> QED
  BY <1>2, <1>4, <1>5, <1>6

(* The bank's balance at the end of a day.                                 *)
BalanceOn(bs, d) == SumFunctionOnSet(Amounts(bs), {p \in InBooks(bs) : p[1] <= d})

LEMMA BalanceIsDays ==
  ASSUME NEW bs, OfBooks(bs), NEW d \in Days
  PROVE  /\ BalanceOn(bs, d) = SumFunction([c \in 1 .. d |-> DaySum(bs, c)])
         /\ BalanceOn(bs, d) \in Int
<1> DEFINE S == {p \in InBooks(bs) : p[1] <= d}
           f == Amounts(bs)
           h == [p \in S |-> p[1]]
           g == [c \in 1 .. d |-> DaySum(bs, c)]
<1>1. IsFiniteSet(S) /\ \A p \in S : f[p] \in Int /\ h[p] \in 1 .. d
  <2>1. IsFiniteSet(S)
    BY RowsOfBooks, FS_Subset
  <2>2. \A p \in S : p[1] \in 1 .. d
    BY RowsOfBooks, BoundsAssumption DEF Days
  <2> QED
    BY <2>1, <2>2, RowsOfBooks
<1>2. d \in Nat /\ IsFiniteSet(1 .. d) /\ 1 .. d \subseteq Days
  BY BoundsAssumption, FS_Interval DEF Days
<1>3. \A c \in 1 .. d : g[c] = SumFunctionOnSet(f, Group(S, h, c))
  <2> TAKE c \in 1 .. d
  <2>1. Group(S, h, c) = {p \in InBooks(bs) : p[1] = c}
    BY <1>2 DEF Group
  <2>2. DaySum(bs, c) = SumFunctionOnSet(f, {p \in InBooks(bs) : p[1] = c})
    BY <1>2, SumOfDay
  <2> QED
    BY <2>1, <2>2
<1>4. SumFunctionOnSet(f, S) = SumFunctionOnSet(g, 1 .. d)
  <2> DEFINE C == 1 .. d
  <2> HIDE DEF S, f, h, g
  <2>1. /\ IsFiniteSet(S) /\ (\A p \in S : f[p] \in Int) /\ (\A p \in S : h[p] \in C)
        /\ IsFiniteSet(C) /\ \A c \in C : g[c] = SumFunctionOnSet(f, Group(S, h, c))
    BY <1>1, <1>2, <1>3
  <2> HIDE DEF C
  <2>2. SumFunctionOnSet(f, S) = SumFunctionOnSet(g, C)
    BY <2>1, SumGrouped
  <2> QED
    BY <2>2 DEF C
<1>5. SumFunctionOnSet(f, S) \in Int
  <2> HIDE DEF S, f
  <2> QED
    BY <1>1, SumIsInteger
<1>6. SumFunction(g) = SumFunctionOnSet(g, 1 .. d)
  BY DEF SumFunction
<1> QED
  BY <1>4, <1>5, <1>6 DEF BalanceOn

-----------------------------------------------------------------------------
(* A whole export.                                                         *)

FromBooks(e) ==
  /\ OfBooks(e.books)
  /\ {e.from, e.through} \subseteq Days
  /\ e.rows = RowsOf(e.books, e.from, e.through)

LEMMA WholeShows ==
  ASSUME NEW e, FromBooks(e)
  PROVE  /\ Places(e) = {p \in InBooks(e.books) : Covers(e, p[1])}
         /\ IsFiniteSet(Places(e)) /\ OfRows(e)
         /\ \A p \in Places(e) : /\ BookingOf(e, p) = e.books[p[1]][p[2]]
                                 /\ Stated(e, p) = BalanceAt(e.books, p)
                                 /\ Stated(e, p) \in Int /\ Stated(e, p) # None
<1> DEFINE bs == e.books
           rows == RowsOf(bs, e.from, e.through)
<1>1. e.rows = rows /\ OfBooks(bs)
  BY DEF FromBooks
<1>2. /\ DOMAIN rows = {p \in InBooks(bs) : p[1] \in e.from .. e.through}
      /\ \A p \in DOMAIN rows :
           rows[p].booking = bs[p[1]][p[2]] /\ rows[p].balance = BalanceAt(bs, p)
  BY DEF RowsOf
<1>3. Places(e) = {p \in InBooks(bs) : Covers(e, p[1])}
  BY <1>1, <1>2 DEF Places, Covers
<1>4. \A p \in InBooks(bs) : BalanceAt(bs, p) \in Int
  <2> TAKE p \in InBooks(bs)
  <2>1. IsFiniteSet({q \in InBooks(bs) : UpTo(q, p)})
    BY <1>1, RowsOfBooks, FS_Subset
  <2>2. \A q \in {r \in InBooks(bs) : UpTo(r, p)} : Amounts(bs)[q] \in Int
    BY <1>1, RowsOfBooks
  <2> QED
    BY <2>1, <2>2, SumIsInteger DEF BalanceAt
<1>5. IsFiniteSet(Places(e)) /\ Places(e) \subseteq InBooks(bs)
  BY <1>1, <1>3, RowsOfBooks, FS_Subset
<1>6. \A p \in Places(e) : /\ BookingOf(e, p) = bs[p[1]][p[2]]
                           /\ Stated(e, p) = BalanceAt(bs, p)
  BY <1>1, <1>2 DEF Places, BookingOf, Stated
<1>7. OfRows(e)
  <2>1. InBooks(bs) \subseteq Rows
    BY DEF InBooks
  <2>2. \A p \in InBooks(bs) : bs[p[1]][p[2]] \in Bookings
    BY <1>1, RowsOfBooks
  <2> HIDE DEF bs
  <2> QED
    BY <1>5, <1>6, <2>1, <2>2 DEF OfRows
<1> QED
  BY <1>3, <1>4, <1>5, <1>6, <1>7, AmountsAssumption

(* It shows of each key on a day it covers what the books hold.            *)
LEMMA WholeCounts ==
  ASSUME NEW e, FromBooks(e), NEW d \in Days, NEW b
  PROVE  Shown(e, d, b) = IF Covers(e, d) THEN InBooksOf(e.books, d, b) ELSE 0
<1> DEFINE S == {p \in Places(e) : p[1] = d /\ BookingOf(e, p) = b}
           I == {i \in DOMAIN e.books[d] : e.books[d][i] = b}
<1>1. OfBooks(e.books)
  BY DEF FromBooks
<1>2. CASE Covers(e, d)
  <2>1. \A p \in S : p = <<d, p[2]>> /\ p[2] \in I
    BY <1>1, WholeShows, RowsOfBooks
  <2>2. \A i \in I : <<d, i>> \in S
    <3> TAKE i \in I
    <3>1. <<d, i>> \in InBooks(e.books)
      BY <1>1, RowsOfBooks
    <3>2. <<d, i>> \in Places(e)
      BY <1>2, <3>1, WholeShows
    <3>3. BookingOf(e, <<d, i>>) = e.books[d][i]
      BY <3>2, WholeShows
    <3> QED
      BY <3>2, <3>3
  <2>3. S = {<<d, i>> : i \in I}
    <3> HIDE DEF S, I
    <3> QED
      BY <2>1, <2>2
  <2>4. IsFiniteSet(I)
    <3>1. e.books[d] \in Seq(Bookings)
      BY <1>1 DEF OfBooks
    <3> QED
      BY <3>1, CountIsFinite
  <2>5. Cardinality({<<d, i>> : i \in I}) = Cardinality(I)
    BY <2>4, PairsCount
  <2> QED
    BY <1>2, <2>3, <2>5 DEF Shown, InBooksOf
<1>3. CASE ~ Covers(e, d)
  <2>1. S = {}
    BY <1>3, WholeShows
  <2> QED
    BY <1>3, <2>1, FS_EmptySet DEF Shown
<1> QED
  BY <1>2, <1>3

(* Rows are in a line, so some of them have a last one.                    *)
LEMMA LastRow ==
  ASSUME NEW bs, OfBooks(bs), NEW ps \in SUBSET InBooks(bs), ps # {}
  PROVE  LastOf(ps) \in ps /\ \A q \in ps : UpTo(q, LastOf(ps))
<1> DEFINE R == {c \in ps \X ps : c[1] # c[2] /\ UpTo(c[2], c[1])}
<1>1. \A p \in ps : p = <<p[1], p[2]>> /\ p[1] \in Nat /\ p[2] \in Nat
  BY RowsOfBooks
<1>2. IsFiniteSet(ps)
  BY RowsOfBooks, FS_Subset
<1>3. \A p, q \in ps : <<p, q>> \in R <=> p # q /\ UpTo(q, p)
  OBVIOUS
<1>4. R \in SUBSET (ps \X ps) /\ \A p \in ps : <<p, p>> \notin R
  BY <1>3
<1>5. \A p, q, r \in ps : <<p, q>> \in R /\ <<q, r>> \in R => <<p, r>> \in R
  <2> TAKE p, q, r \in ps
  <2>1. UpTo(q, p) /\ UpTo(r, q) => UpTo(r, p)
    BY <1>1 DEF UpTo
  <2>2. UpTo(q, p) /\ UpTo(p, q) => p = q
    BY <1>1 DEF UpTo
  <2> HIDE DEF R
  <2> QED
    BY <1>3, <2>1, <2>2
<1>6. PICK m \in ps : \A s \in ps : <<s, m>> \notin R
  <2> HIDE DEF R
  <2> QED
    BY <1>2, <1>4, <1>5, HasMinimal
<1>7. \A q \in ps : UpTo(q, m)
  <2> TAKE q \in ps
  <2>1. q = m \/ ~ UpTo(m, q)
    BY <1>3, <1>6
  <2> QED
    BY <1>1, <2>1 DEF UpTo
<1> QED
  BY <1>7 DEF LastOf

(* At the end of a day with rows it states the bank's balance.             *)
LEMMA WholeEnds ==
  ASSUME NEW e, FromBooks(e), NEW d \in Days, Covers(e, d), EndOfDay(e, d) # None
  PROVE  EndOfDay(e, d) = BalanceOn(e.books, d)
<1> DEFINE bs == e.books
           ps == {p \in Places(e) : p[1] = d}
           l == LastOf(ps)
<1>1. OfBooks(bs) /\ ps # {} /\ EndOfDay(e, d) = Stated(e, l)
  BY DEF FromBooks, EndOfDay
<1>2. ps \in SUBSET InBooks(bs) /\ \A p \in InBooks(bs) : p[1] = d => p \in ps
  BY WholeShows
<1>3. l \in ps /\ \A q \in ps : UpTo(q, l)
  <2> HIDE DEF ps, bs
  <2> QED
    BY <1>1, <1>2, LastRow
<1>4. Stated(e, l) = BalanceAt(bs, l)
  BY <1>3, WholeShows
<1>5. \A q \in InBooks(bs) : UpTo(q, l) <=> q[1] <= d
  <2> TAKE q \in InBooks(bs)
  <2>1. l[1] = d /\ d \in Nat /\ q[1] \in Nat
    BY <1>1, <1>3, RowsOfBooks, BoundsAssumption DEF Days
  <2>2. q[1] = d => UpTo(q, l)
    BY <1>2, <1>3
  <2> HIDE DEF l
  <2>3. UpTo(q, l) => q[1] <= d
    BY <2>1 DEF UpTo
  <2>4. q[1] < d => UpTo(q, l)
    BY <2>1 DEF UpTo
  <2> QED
    BY <2>1, <2>2, <2>3, <2>4
<1>6. {q \in InBooks(bs) : UpTo(q, l)} = {q \in InBooks(bs) : q[1] <= d}
  BY <1>5
<1> QED
  BY <1>1, <1>4, <1>6 DEF BalanceAt, BalanceOn

(* Its balances follow from each other.                                    *)
LEMMA WholeUnbroken ==
  ASSUME NEW e, FromBooks(e)
  PROVE  Breaks(e) = {}
<1> DEFINE bs == e.books
<1>1. OfBooks(bs)
  BY DEF FromBooks
<1>2. \A p \in Places(e) : /\ p \in InBooks(bs) /\ Covers(e, p[1])
                           /\ Stated(e, p) = BalanceAt(bs, p) /\ Stated(e, p) # None
                           /\ BookingOf(e, p) = bs[p[1]][p[2]]
  BY WholeShows
<1>3. ASSUME NEW p \in Places(e),
             NEW before, before = {q \in Places(e) : q # p /\ UpTo(q, p)}, before # {}
      PROVE  Stated(e, LastOf(before)) + BookingOf(e, p).amount = Stated(e, p)
  <2> DEFINE l == LastOf(before)
  <2>1. before \in SUBSET InBooks(bs) /\ p \in InBooks(bs)
    BY <1>2, <1>3
  <2>2. l \in before /\ \A q \in before : UpTo(q, l)
    <3> HIDE DEF bs
    <3> QED
      BY <1>1, <1>3, <2>1, LastRow
  <2>3. l \in Places(e) /\ l # p /\ UpTo(l, p) /\ l \in InBooks(bs)
    BY <1>3, <2>1, <2>2
  <2>4. \A q \in InBooks(bs) : UpTo(q, p) <=> UpTo(q, l) \/ q = p
    <3> TAKE q \in InBooks(bs)
    <3>1. \A r \in {p, q, l} : r = <<r[1], r[2]>> /\ r[1] \in Nat /\ r[2] \in Nat
      BY <1>1, <2>1, <2>3, RowsOfBooks
    <3>2. UpTo(q, l) => UpTo(q, p)
      BY <2>3, <3>1 DEF UpTo
    <3>3. UpTo(p, p)
      BY <3>1 DEF UpTo
    <3>4. UpTo(q, p) /\ ~ UpTo(q, l) => Covers(e, q[1])
      <4>1. e.from \in Int /\ e.through \in Int
        BY BoundsAssumption DEF FromBooks, Days
      <4>2. \A x, y \in e.from .. e.through, z \in Nat :
              x <= z /\ z <= y => z \in e.from .. e.through
        BY <4>1
      <4>3. l[1] \in e.from .. e.through /\ p[1] \in e.from .. e.through
        BY <1>2, <2>3 DEF Covers
      <4>4. UpTo(q, p) /\ ~ UpTo(q, l) => l[1] <= q[1] /\ q[1] <= p[1]
        BY <3>1 DEF UpTo
      <4> QED
        BY <3>1, <4>2, <4>3, <4>4 DEF Covers
    <3>5. UpTo(q, p) /\ q # p /\ Covers(e, q[1]) => UpTo(q, l)
      <4>1. Covers(e, q[1]) => q \in Places(e)
        BY WholeShows
      <4> QED
        BY <1>3, <2>2, <4>1
    <3> QED
      BY <3>2, <3>3, <3>4, <3>5
  <2>5. {q \in InBooks(bs) : UpTo(q, p)} = {q \in InBooks(bs) : UpTo(q, l)} \cup {p}
    BY <2>1, <2>4
  <2>6. p \notin {q \in InBooks(bs) : UpTo(q, l)}
    <3>1. \A r \in {p, l} : r = <<r[1], r[2]>> /\ r[1] \in Nat /\ r[2] \in Nat
      BY <1>1, <2>1, <2>3, RowsOfBooks
    <3>2. UpTo(p, l) => p = l
      BY <2>3, <3>1 DEF UpTo
    <3> QED
      BY <2>3, <3>2
  <2> DEFINE A == {q \in InBooks(bs) : UpTo(q, l)}
             S == {q \in InBooks(bs) : UpTo(q, p)}
  <2>7. IsFiniteSet(S) /\ IsFiniteSet(A) /\ S \ {p} = A /\ p \in S
    <3>1. IsFiniteSet(S) /\ IsFiniteSet(A)
      BY <1>1, RowsOfBooks, FS_Subset
    <3> QED
      BY <2>5, <2>6, <3>1
  <2>8. /\ \A q \in S : Amounts(bs)[q] \in Int
        /\ \A q \in A : Amounts(bs)[q] \in Int
        /\ Amounts(bs)[p] = BookingOf(e, p).amount
    BY <1>1, <1>2, <2>1, RowsOfBooks
  <2>9. BalanceAt(bs, p) = SumFunctionOnSet(Amounts(bs), S) /\ BalanceAt(bs, l) = SumFunctionOnSet(Amounts(bs), A)
    BY DEF BalanceAt
  <2> HIDE DEF S, A, bs, l
  <2>10. SumFunctionOnSet(Amounts(bs), S) = Amounts(bs)[p] + SumFunctionOnSet(Amounts(bs), S \ {p})
    BY <2>7, <2>8, SumRemove
  <2>11. SumFunctionOnSet(Amounts(bs), A) \in Int
    BY <2>7, <2>8, SumIsInteger
  <2>12. Stated(e, p) = BalanceAt(bs, p) /\ Stated(e, l) = BalanceAt(bs, l)
    BY <1>2, <2>3
  <2>13. Amounts(bs)[p] \in Int
    BY <2>7, <2>8
  <2>14. Stated(e, p) = Amounts(bs)[p] + Stated(e, l) /\ Stated(e, l) \in Int
    BY <2>7, <2>9, <2>10, <2>11, <2>12
  <2>15. Stated(e, l) + Amounts(bs)[p] = Stated(e, p)
    BY <2>13, <2>14
  <2> QED
    BY <2>8, <2>15 DEF l
<1>4. ASSUME NEW p \in Breaks(e)
      PROVE  FALSE
  <2> DEFINE before == {q \in Places(e) : q # p /\ UpTo(q, p)}
  <2>1. p \in Places(e)
    BY DEF Breaks
  <2>2. /\ before # {}
        /\ Stated(e, LastOf(before)) + BookingOf(e, p).amount # Stated(e, p)
    BY <1>2, <2>1 DEF Breaks
  <2> HIDE DEF before
  <2> QED
    BY <1>3, <2>1, <2>2 DEF before
<1> QED
  BY <1>4

-----------------------------------------------------------------------------
(* Normal data is admitted.                                                *)

Accepted == {j \in DOMAIN taken : taken[j].status = "accepted"}

Export(j) == taken[j].export

(* The admitted export that a day was last covered by.                     *)
Latest(j, d) ==
  /\ j \in Accepted /\ Covers(Export(j), d)
  /\ \A k \in Accepted : Covers(Export(k), d) => k <= j

(* An export of these books from that day on adds to what was admitted:    *)
(* nothing was taken out, and what came before its range is as it was.     *)
Extends(bs, from, j) ==
  /\ Flawless(Export(j))
  /\ Grown(Export(j).books, bs)
  /\ \A d \in Days : d < from => Export(j).books[d] = bs[d]

AllContinue == \A k \in Accepted : Continues(k)

Orderly ==
  /\ AllContinue
  /\ \A j \in Accepted :
       /\ Flawless(Export(j))
       /\ \A k \in Accepted : j < k => Extends(Export(k).books, Export(k).from, j)

BooksBounded == OfBooks(books)

AcceptedAreBooks ==
  \A j \in Accepted : {Export(j).from, Export(j).through} \subseteq Days /\ OfBooks(Export(j).books)

(* Ranges that each continue reach ever further and leave no day out.      *)
RangesJoin ==
  AllContinue =>
    /\ \A j, k \in Accepted : j < k => Export(j).through <= Export(k).through
    /\ \A j, k \in Accepted, d \in Days :
         Export(j).from <= d /\ d <= Export(k).through => \E i \in Accepted : Covers(Export(i), d)

(* While each admitted export adds to those before it, the ledger holds    *)
(* what the last one to cover a day shows.                                 *)
LedgerIsLatest ==
  Orderly =>
    /\ \A d \in Days, b \in Bookings :
         /\ \A j \in Accepted : Latest(j, d) => counts[d][b] = InBooksOf(Export(j).books, d, b)
         /\ (\A j \in Accepted : ~ Covers(Export(j), d)) => counts[d][b] = 0
    /\ \A d \in DOMAIN selected : \E j \in Accepted : Latest(j, d) /\ selected[d].export = Export(j)

GrowthInv ==
  /\ BooksBounded
  /\ AcceptedAreBooks
  /\ RangesJoin
  /\ LedgerIsLatest
  /\ GrowthIsAdmitted

LEMMA CountsInBooks ==
  ASSUME NEW bs, OfBooks(bs), NEW d \in Days, NEW b
  PROVE  InBooksOf(bs, d, b) \in Nat
<1>1. bs[d] \in Seq(Bookings)
  BY DEF OfBooks
<1> QED
  BY <1>1, CountIsFinite DEF Count, InBooksOf

(* A day is covered by no admitted export or last by one.                  *)
LEMMA LatestExists ==
  ASSUME TypeInv, NEW d
  PROVE  \/ \A j \in Accepted : ~ Covers(Export(j), d)
         \/ \E j \in Accepted : Latest(j, d)
<1> DEFINE S == {j \in Accepted : Covers(Export(j), d)}
<1>1. Len(taken) \in Nat /\ DOMAIN taken = 1 .. Len(taken)
  BY DEF TypeInv, TakenIsSeq
<1>2. S \in SUBSET (1 .. Len(taken)) /\ S \in SUBSET Nat
  BY <1>1 DEF Accepted
<1>3. IsFiniteSet(S)
  <2>1. IsFiniteSet(1 .. Len(taken))
    BY <1>1, FS_Interval
  <2> HIDE DEF S
  <2> QED
    BY <1>2, <2>1, FS_Subset
<1>4. CASE S # {}
  <2>1. Max(S) \in S /\ \A s \in S : s <= Max(S)
    <3> HIDE DEF S
    <3> QED
      BY <1>2, <1>3, <1>4, MaxIsGreatest
  <2>2. Latest(Max(S), d)
    BY <2>1 DEF Latest
  <2> QED
    BY <2>1, <2>2
<1>5. CASE S = {}
  BY <1>5
<1> QED
  BY <1>4, <1>5

(* What a file holds, and over which days.                                 *)
LEMMA FilesRange ==
  ASSUME NEW from, NEW through, NEW e \in Files(from, through)
  PROVE  e.from = from /\ e.through = through
<1> DEFINE whole == [from |-> from, through |-> through, books |-> books,
                     rows |-> RowsOf(books, from, through), readable |-> TRUE, labelled |-> TRUE]
           Ranges == e.from = from /\ e.through = through
<1>1. e = whole \/ e \in Flawed(whole)
  BY DEF Files
<1>2. whole.from = from /\ whole.through = through
  OBVIOUS
<1>3. CASE e = whole
  BY <1>3
<1>4. CASE e = [whole EXCEPT !.readable = FALSE, !.rows = <<>>, !.books = [d \in Days |-> <<>>]]
  BY <1>4
<1>5. CASE e = [whole EXCEPT !.labelled = FALSE]
  BY <1>5
<1>6. ASSUME NEW q \in Places(whole),
             e = [whole EXCEPT !.rows = [p \in Places(whole) \ {q} |-> whole.rows[p]]]
      PROVE  Ranges
  BY <1>6
<1>7. ASSUME NEW q \in Places(whole), e = [whole EXCEPT !.rows[q].balance = None]
      PROVE  Ranges
  BY <1>7
<1> HIDE DEF whole
<1> QED
  BY <1>1, <1>3, <1>4, <1>5, <1>6, <1>7 DEF Flawed

(* The days a download may be of.                                          *)
LEMMA DaysSoFar ==
  ASSUME TypeOK, NEW from \in 1 .. today, NEW through \in 1 .. today
  PROVE  from \in Days /\ through \in Days
BY BoundsAssumption DEF TypeOK, Days

LEMMA FlawlessIsWhole ==
  ASSUME TypeOK, BooksBounded, NEW from \in Days, NEW through \in Days,
         NEW e \in Files(from, through), Flawless(e)
  PROVE  FromBooks(e) /\ e.books = books /\ OfRows(e) /\ e.readable /\ e.labelled
<1>1. e.readable /\ e.labelled /\ e.rows = RowsOf(e.books, e.from, e.through)
  BY DEF Flawless
<1>2. OfRows(e) /\ e.books = books
  BY <1>1, FilesShowBooks
<1> QED
  BY <1>1, <1>2, FilesRange DEF BooksBounded, FromBooks

(* The range of an export continues those admitted.                        *)
Adds(e) ==
  Accepted # {} =>
    /\ \E j \in Accepted : Export(j).from <= e.from
    /\ \E j \in Accepted : e.from <= Export(j).through + 1
    /\ \A j \in Accepted : Export(j).through <= e.through

(* What the account looks like to an export that adds to what was admitted. *)
Expected(e) ==
  /\ Orderly
  /\ Adds(e)
  /\ \A j \in Accepted : Extends(e.books, e.from, j)

(* Nothing is counted that it does not hold, so nothing is dropped.        *)
LEMMA CountsAreLow ==
  ASSUME TypeInv, AcceptedAreBooks, LedgerIsLatest,
         NEW e, OfBooks(e.books), Expected(e), NEW d \in Days, NEW b \in Bookings
  PROVE  counts[d][b] <= InBooksOf(e.books, d, b)
<1>1. InBooksOf(e.books, d, b) \in Nat
  BY CountsInBooks
<1>2. CASE \A j \in Accepted : ~ Covers(Export(j), d)
  BY <1>1, <1>2 DEF LedgerIsLatest, Expected
<1>3. ASSUME NEW j \in Accepted, Latest(j, d)
      PROVE  counts[d][b] <= InBooksOf(e.books, d, b)
  <2>1. counts[d][b] = InBooksOf(Export(j).books, d, b)
    BY <1>3 DEF LedgerIsLatest, Expected
  <2>2. InBooksOf(Export(j).books, d, b) <= InBooksOf(e.books, d, b)
    BY DEF Expected, Extends, Grown
  <2> QED
    BY <2>1, <2>2
<1> QED
  BY <1>2, <1>3, LatestExists

LEMMA NothingDropped ==
  ASSUME TypeInv, AcceptedAreBooks, LedgerIsLatest, NEW e, FromBooks(e), Expected(e)
  PROVE  Dropped(e) = {}
<1> SUFFICES ASSUME NEW t \in Dropped(e)
             PROVE  FALSE
  OBVIOUS
<1>1. /\ t \in Identities /\ t.k <= counts[t.day][t.booking]
      /\ t.k > Shown(e, t.day, t.booking) /\ Covers(e, t.day)
  BY DropsAre
<1>2. t.day \in Days /\ t.booking \in Bookings /\ t.k \in Nat
  BY <1>1, BoundsAssumption DEF Identities
<1>3. OfBooks(e.books)
  BY DEF FromBooks
<1>4. Shown(e, t.day, t.booking) = InBooksOf(e.books, t.day, t.booking)
  BY <1>1, <1>2, WholeCounts
<1>5. InBooksOf(e.books, t.day, t.booking) \in Nat
  BY <1>2, <1>3, CountsInBooks
<1>6. counts[t.day][t.booking] <= InBooksOf(e.books, t.day, t.booking)
  BY <1>2, <1>3, CountsAreLow
<1>7. counts[t.day][t.booking] \in Nat
  BY <1>2, BoundsAssumption DEF TypeInv, TypeOK
<1> QED
  BY <1>1, <1>2, <1>4, <1>5, <1>6, <1>7

(* On a day both cover, what it adds to the counts is what its books hold  *)
(* more than those of the export selected for a day.                       *)
LEMMA AddsTheDifference ==
  ASSUME TypeInv, AcceptedAreBooks, RangesJoin, LedgerIsLatest,
         NEW e, FromBooks(e), Expected(e),
         NEW j \in Accepted, NEW d \in Days, Latest(j, d), Covers(e, d),
         NEW c \in 1 .. d, NEW b \in Bookings
  PROVE  (IF Shown(e, c, b) > counts[c][b] THEN Shown(e, c, b) - counts[c][b] ELSE 0)
           = InBooksOf(e.books, c, b) - InBooksOf(Export(j).books, c, b)
<1> DEFINE g == Export(j)
           new == InBooksOf(e.books, c, b)
           old == InBooksOf(g.books, c, b)
<1>1. c \in Days /\ c \in Nat /\ c <= d /\ d \in Nat
  BY BoundsAssumption DEF Days
<1>2. /\ e.from \in Nat /\ e.through \in Nat
      /\ \A m \in Accepted : Export(m).from \in Nat /\ Export(m).through \in Nat
  BY BoundsAssumption DEF FromBooks, AcceptedAreBooks, Days
<1>3. /\ OfBooks(e.books) /\ OfBooks(g.books)
      /\ Extends(e.books, e.from, j)
  BY DEF FromBooks, AcceptedAreBooks, Expected
<1>4. new \in Nat /\ old \in Nat /\ old <= new
  <2>1. new \in Nat /\ old \in Nat
    BY <1>1, <1>3, CountsInBooks
  <2> QED
    BY <1>1, <1>3, <2>1 DEF Extends, Grown
<1>5. counts[c][b] \in Nat
  BY <1>1, BoundsAssumption DEF TypeInv, TypeOK
<1>6. Covers(g, d) /\ g.from <= d /\ d <= g.through
  BY <1>1, <1>2 DEF Latest, Covers
<1>7. CASE c < e.from
  <2>0. ~ Covers(e, c)
    BY <1>1, <1>2, <1>7 DEF Covers
  <2>1. Shown(e, c, b) = 0
    BY <1>1, <2>0, WholeCounts
  <2>2. new = old
    BY <1>1, <1>3, <1>7 DEF Extends, InBooksOf
  <2> QED
    BY <1>4, <1>5, <2>1, <2>2
<1>8. d <= e.through
  BY <1>1, <1>2 DEF Covers
<1>9. CASE Covers(e, c)
  <2>1. Shown(e, c, b) = new
    BY <1>1, <1>9, WholeCounts
  <2>2. \E i \in Accepted : Covers(Export(i), c)
    <3>1. PICK i \in Accepted : Export(i).from <= e.from
      BY DEF Expected, Adds
    <3>2. e.from <= c
      BY <1>1, <1>2, <1>9 DEF Covers
    <3>3. Export(i).from <= c /\ c <= g.through
      BY <1>1, <1>2, <1>6, <3>1, <3>2
    <3> QED
      BY <1>1, <3>3 DEF RangesJoin, Expected, Orderly
  <2>3. PICK m \in Accepted : Latest(m, c)
    BY <2>2, LatestExists
  <2>4. counts[c][b] = InBooksOf(Export(m).books, c, b)
    BY <1>1, <2>3 DEF LedgerIsLatest, Expected
  <2>5. InBooksOf(Export(m).books, c, b) = old
    <3>0. m \in Nat /\ j \in Nat
      BY DEF Accepted, TypeInv, TakenIsSeq
    <3>1. CASE m = j
      BY <3>1
    <3>2. CASE m < j
      <4>1. ~ Covers(g, c)
        BY <2>3, <3>0, <3>2 DEF Latest
      <4>2. c < g.from
        BY <1>1, <1>2, <1>6, <4>1 DEF Covers
      <4>3. Export(m).books[c] = g.books[c]
        BY <1>1, <3>2, <4>2 DEF Expected, Orderly, Extends
      <4> QED
        BY <4>3 DEF InBooksOf
    <3>3. CASE j < m
      <4>1. Export(j).through <= Export(m).through
        BY <3>3 DEF RangesJoin, Expected, Orderly
      <4>2. Covers(Export(m), d)
        BY <1>1, <1>2, <1>6, <2>3, <4>1 DEF Covers, Latest
      <4> QED
        BY <3>0, <3>3, <4>2 DEF Latest
    <3> QED
      BY <3>0, <3>1, <3>2, <3>3
  <2> QED
    BY <1>4, <2>1, <2>4, <2>5
<1> QED
  BY <1>1, <1>2, <1>7, <1>8, <1>9 DEF Covers

LEMMA DaySumIsInteger ==
  ASSUME NEW bs, OfBooks(bs), NEW d \in Days
  PROVE  /\ DaySum(bs, d) = SumFunctionOnSet([b \in Bookings |-> b.amount * InBooksOf(bs, d, b)], Bookings)
         /\ \A b \in Bookings : b.amount * InBooksOf(bs, d, b) \in Int
<1>1. \A b \in Bookings : b.amount \in Int /\ InBooksOf(bs, d, b) \in Nat
  BY AmountsAssumption, SumOfDay
<1>2. \A b \in Bookings : b.amount * InBooksOf(bs, d, b) \in Int
  BY <1>1
<1> QED
  BY <1>2 DEF DaySum, SumFunction

(* A day's change is what the books of the day come to now, less what they *)
(* came to.                                                                *)
LEMMA ChangeIsDifference ==
  ASSUME NEW e, NEW bs, NEW cs, OfBooks(bs), OfBooks(cs), NEW d \in Days,
         \A b \in Bookings :
           (IF Shown(e, d, b) > counts[d][b] THEN Shown(e, d, b) - counts[d][b] ELSE 0)
             = InBooksOf(bs, d, b) - InBooksOf(cs, d, b)
  PROVE  Change(e, {}, d) = DaySum(bs, d) - DaySum(cs, d)
<1> DEFINE f == [b \in Bookings |-> b.amount * InBooksOf(bs, d, b)]
           g == [b \in Bookings |-> b.amount * InBooksOf(cs, d, b)]
           more(b) == IF Shown(e, d, b) > counts[d][b] THEN Shown(e, d, b) - counts[d][b] ELSE 0
           h == [b \in Bookings |-> b.amount * more(b)]
           none == [t \in {u \in {} : u.day = d} |-> t.booking.amount]
<1>1. IsFiniteSet(Bookings)
  BY AmountsAssumption
<1>2. /\ DaySum(bs, d) = SumFunctionOnSet(f, Bookings)
      /\ DaySum(cs, d) = SumFunctionOnSet(g, Bookings)
      /\ \A b \in Bookings : f[b] \in Int /\ g[b] \in Int
  BY DaySumIsInteger
<1>3. \A b \in Bookings : h[b] = f[b] - g[b]
  <2> TAKE b \in Bookings
  <2> DEFINE a == b.amount
             m == InBooksOf(bs, d, b)
             n == InBooksOf(cs, d, b)
  <2>1. a \in Int /\ m \in Nat /\ n \in Nat
    BY AmountsAssumption, CountsInBooks
  <2>2. more(b) = m - n
    OBVIOUS
  <2>3. h[b] = a * (m - n) /\ f[b] = a * m /\ g[b] = a * n
    BY <2>2
  <2> HIDE DEF a, m, n, h, f, g
  <2>4. a * (m - n) = a * m - a * n
    BY <2>1
  <2> QED
    BY <2>3, <2>4
<1>4. SumFunctionOnSet(h, Bookings) = DaySum(bs, d) - DaySum(cs, d)
  <2> HIDE DEF f, g, h
  <2>1. SumFunctionOnSet(h, Bookings) = SumFunctionOnSet(f, Bookings) - SumFunctionOnSet(g, Bookings)
    BY <1>1, <1>2, <1>3, SumMinus
  <2> QED
    BY <1>2, <2>1
<1>5. SumFunction(none) = 0
  <2>1. DOMAIN none = {}
    OBVIOUS
  <2> HIDE DEF none
  <2> QED
    BY <2>1, SumEmpty DEF SumFunction
<1>6. SumFunction(h) = SumFunctionOnSet(h, Bookings)
  BY DEF SumFunction
<1>7. Change(e, {}, d) = SumFunction(h) - SumFunction(none)
  BY DEF Change
<1>8. DaySum(bs, d) \in Int /\ DaySum(cs, d) \in Int
  BY SumOfDay
<1> HIDE DEF h, none
<1> QED
  BY <1>4, <1>5, <1>6, <1>7, <1>8

(* Its balances differ from those of the selected exports by what it adds. *)
LEMMA NothingDisagrees ==
  ASSUME TypeInv, AcceptedAreBooks, RangesJoin, LedgerIsLatest,
         NEW e, FromBooks(e), Expected(e),
         \A j \in Accepted : FromBooks(Export(j))
  PROVE  Disagreements(e) = {}
<1>1. Dropped(e) = {}
  BY NothingDropped
<1>2. ASSUME NEW d \in Compared(e)
      PROVE  EndOfDay(e, d) - EndOfDay(selected[d].export, d)
               = SumFunction([c \in 1 .. d |-> Change(e, {}, c)])
  <2>1. /\ d \in DOMAIN selected /\ d \in Days
        /\ EndOfDay(e, d) # None /\ EndOfDay(selected[d].export, d) # None
    BY DEF Compared, TypeInv, TypeOK
  <2>2. PICK j \in Accepted : Latest(j, d) /\ selected[d].export = Export(j)
    BY <2>1 DEF LedgerIsLatest, Expected
  <2> DEFINE g == Export(j)
             f == [c \in 1 .. d |-> DaySum(e.books, c)]
             k == [c \in 1 .. d |-> DaySum(g.books, c)]
             h == [c \in 1 .. d |-> Change(e, {}, c)]
  <2>3. OfBooks(e.books) /\ OfBooks(g.books) /\ FromBooks(g) /\ Covers(g, d)
    BY <2>2 DEF FromBooks, Latest
  <2>4. Covers(e, d)
    <3>1. PICK p \in Places(e) : p[1] = d
      BY <2>1 DEF EndOfDay
    <3> QED
      BY <3>1, WholeShows
  <2>5. /\ EndOfDay(e, d) = BalanceOn(e.books, d)
        /\ EndOfDay(g, d) = BalanceOn(g.books, d)
    BY <2>1, <2>2, <2>3, <2>4, WholeEnds
  <2>6. /\ BalanceOn(e.books, d) = SumFunction(f) /\ BalanceOn(g.books, d) = SumFunction(k)
    BY <2>1, <2>3, BalanceIsDays
  <2>7. \A c \in 1 .. d : c \in Days
    BY <2>1, BoundsAssumption DEF Days
  <2>8. \A c \in 1 .. d : f[c] \in Int /\ k[c] \in Int /\ h[c] = f[c] - k[c]
    <3> TAKE c \in 1 .. d
    <3>1. \A b \in Bookings :
            (IF Shown(e, c, b) > counts[c][b] THEN Shown(e, c, b) - counts[c][b] ELSE 0)
              = InBooksOf(e.books, c, b) - InBooksOf(g.books, c, b)
      BY <2>1, <2>2, <2>4, AddsTheDifference
    <3>2. Change(e, {}, c) = DaySum(e.books, c) - DaySum(g.books, c)
      BY <2>3, <2>7, <3>1, ChangeIsDifference
    <3>3. DaySum(e.books, c) \in Int /\ DaySum(g.books, c) \in Int
      BY <2>3, <2>7, SumOfDay
    <3> QED
      BY <3>2, <3>3
  <2>9. IsFiniteSet(1 .. d)
    BY <2>1, BoundsAssumption, FS_Interval DEF Days
  <2>10. SumFunction(f) = SumFunctionOnSet(f, 1 .. d) /\ SumFunction(k) = SumFunctionOnSet(k, 1 .. d)
         /\ SumFunction(h) = SumFunctionOnSet(h, 1 .. d)
    BY DEF SumFunction
  <2>11. SumFunction(h) = SumFunction(f) - SumFunction(k)
    <3> HIDE DEF f, k, h
    <3>1. SumFunctionOnSet(h, 1 .. d) = SumFunctionOnSet(f, 1 .. d) - SumFunctionOnSet(k, 1 .. d)
      BY <2>8, <2>9, SumMinus
    <3> QED
      BY <2>10, <3>1
  <2> HIDE DEF f, k
  <2> QED
    BY <2>2, <2>5, <2>6, <2>11
<1> QED
  BY <1>1, <1>2 DEF Disagreements

(* It then has nothing against it.                                         *)
LEMMA ExpectedIsSound ==
  ASSUME TypeInv, GrowthInv, NEW from \in Days, NEW through \in Days,
         NEW e \in Files(from, through), Flawless(e), Expected(e)
  PROVE  /\ FromBooks(e)
         /\ Dropped(e) = {} /\ Disagreements(e) = {} /\ Breaks(e) = {}
         /\ ~ Refuse(e) /\ ~ Quarantine(e)
<1> USE DEF GrowthInv
<1>1. FromBooks(e) /\ OfRows(e) /\ e.readable /\ e.labelled
  BY FlawlessIsWhole DEF TypeInv
<1>2. Breaks(e) = {}
  BY <1>1, WholeUnbroken
<1>3. Dropped(e) = {}
  BY <1>1, NothingDropped
<1>4. \A j \in Accepted : FromBooks(Export(j))
  BY DEF Expected, Orderly, Flawless, AcceptedAreBooks, FromBooks
<1>6. Disagreements(e) = {}
  BY <1>1, <1>4, NothingDisagrees
<1>7. ~ Refuse(e)
  BY <1>1, <1>2 DEF Refuse, Judged, LosesLabels
<1>8. \A f \in Rulings(e) : DOMAIN f = {}
  BY <1>3 DEF Rulings
<1>9. ~ Quarantine(e)
  BY <1>6, <1>8 DEF Quarantine, Unsettled
<1> QED
  BY <1>1, <1>2, <1>3, <1>6, <1>7, <1>9

(* What taking a run does to the runs taken.                               *)
LEMMA TookOne ==
  ASSUME TypeInv, NEW run, NEW status, Took(run, status)
  PROVE  /\ Len(taken) \in Nat /\ DOMAIN taken = 1 .. Len(taken)
         /\ DOMAIN taken' = 1 .. Len(taken) + 1
         /\ \A i \in 1 .. Len(taken) : taken'[i] = taken[i]
         /\ taken'[Len(taken) + 1].export = run.export
         /\ taken'[Len(taken) + 1].status = status
<1> DEFINE x == [export |-> run.export, same |-> run.same, misnamed |-> run.misnamed,
                 status |-> status]
<1>1. taken \in Seq({taken[i] : i \in DOMAIN taken})
  BY DEF TypeInv, TakenIsSeq
<1>2. taken' = Append(taken, x)
  BY DEF Took
<1> DEFINE S == {taken[i] : i \in DOMAIN taken} \cup {x}
<1> HIDE DEF x
<1>3. taken \in Seq(S) /\ x \in S
  BY <1>1
<1> HIDE DEF S
<1> QED
  BY <1>2, <1>3, AppendProperties DEF x

LEMMA AcceptedNext ==
  ASSUME TypeInv, NEW run, NEW status, Took(run, status)
  PROVE  /\ \A j \in Accepted : j \in Nat /\ j < Len(taken) + 1 /\ Export(j)' = Export(j)
         /\ \A n : n = Len(taken) + 1 =>
              /\ n \in Nat /\ Export(n)' = run.export
              /\ Accepted' = IF status = "accepted" THEN Accepted \cup {n} ELSE Accepted
<1>1. /\ Len(taken) \in Nat /\ DOMAIN taken = 1 .. Len(taken)
      /\ DOMAIN taken' = 1 .. Len(taken) + 1
      /\ \A i \in 1 .. Len(taken) : taken'[i] = taken[i]
      /\ taken'[Len(taken) + 1].export = run.export
      /\ taken'[Len(taken) + 1].status = status
  BY TookOne
<1>2. \A j \in Accepted : j \in 1 .. Len(taken)
  BY <1>1 DEF Accepted
<1>3. \A i \in 1 .. Len(taken) : i \in Accepted' <=> i \in Accepted
  BY <1>1 DEF Accepted
<1>4. \A n : n = Len(taken) + 1 =>
        /\ taken'[n].export = run.export
        /\ n \in DOMAIN taken' /\ n \notin 1 .. Len(taken)
        /\ taken'[n].status = status
  BY <1>1
<1>5. Accepted' \subseteq 1 .. Len(taken) + 1
  BY <1>1 DEF Accepted
<1>6. \A n : n = Len(taken) + 1 => (n \in Accepted' <=> status = "accepted")
  BY <1>4 DEF Accepted
<1>7. ASSUME NEW n, n = Len(taken) + 1
      PROVE  Accepted' = IF status = "accepted" THEN Accepted \cup {n} ELSE Accepted
  <2>1. \A i \in 1 .. Len(taken) + 1 : i \in 1 .. Len(taken) \/ i = n
    BY <1>1, <1>7
  <2>2. \A i \in Accepted : i # n /\ i \in 1 .. Len(taken)
    BY <1>2, <1>4, <1>7
  <2>3. n \in Accepted' <=> status = "accepted"
    BY <1>6, <1>7
  <2>4. \A i \in Accepted' : i = n \/ i \in Accepted
    BY <1>3, <1>5, <2>1
  <2>5. \A i \in Accepted : i \in Accepted'
    BY <1>3, <2>2
  <2>6. CASE status = "accepted"
    BY <2>3, <2>4, <2>5, <2>6
  <2>7. CASE status # "accepted"
    BY <2>3, <2>4, <2>5, <2>7
  <2> QED
    BY <2>6, <2>7
<1> QED
  BY <1>1, <1>2, <1>4, <1>7 DEF Export

(* What excuses that an export is quarantined.                             *)
Excused(i) ==
  \/ Outgrown(i)
  \/ \E k \in AcceptedBefore(i) \cup {i} : ~ Continues(k)

(* What was taken before is judged as it was.                              *)
LEMMA JudgedAlike ==
  ASSUME TypeInv, NEW run, NEW status, Took(run, status), NEW i \in DOMAIN taken
  PROVE  (Continues(i)' <=> Continues(i)) /\ (Excused(i)' <=> Excused(i))
<1>1. /\ Len(taken) \in Nat /\ DOMAIN taken = 1 .. Len(taken)
      /\ \A k \in 1 .. Len(taken) : taken'[k] = taken[k]
  BY TookOne
<1>2. \A k \in 1 .. i : taken'[k] = taken[k]
  BY <1>1
<1>3. i \in Nat /\ i \in 1 .. i
  BY <1>1
<1>4. \A k \in 1 .. i : AcceptedBefore(k)' = AcceptedBefore(k) /\ AcceptedBefore(k) \subseteq 1 .. i
  BY <1>2, <1>3 DEF AcceptedBefore
<1>5. ASSUME NEW k \in 1 .. i
      PROVE  Continues(k)' <=> Continues(k)
  <2>1. /\ AcceptedBefore(k)' = AcceptedBefore(k)
        /\ \A j \in AcceptedBefore(k) : taken'[j] = taken[j]
        /\ taken'[k] = taken[k]
    BY <1>2, <1>4
  <2>2. {taken'[j].export : j \in AcceptedBefore(k)} = {taken[j].export : j \in AcceptedBefore(k)}
    BY <2>1
  <2> QED
    BY <2>1, <2>2 DEF Continues
<1>6. Outgrown(i)' <=> Outgrown(i)
  <2>1. /\ AcceptedBefore(i)' = AcceptedBefore(i)
        /\ \A j \in AcceptedBefore(i) \cup {i} : taken'[j] = taken[j]
    BY <1>2, <1>3, <1>4
  <2> QED
    BY <2>1 DEF Outgrown
<1> QED
  BY <1>3, <1>4, <1>5, <1>6 DEF Excused

(* The next run continues if its range does.                               *)
LEMMA NextContinues ==
  ASSUME TypeInv, NEW run, NEW status, Took(run, status), NEW n, n = Len(taken) + 1
  PROVE  /\ AcceptedBefore(n)' = Accepted
         /\ Continues(n)' <=> Adds(run.export)
<1>1. /\ Len(taken) \in Nat /\ DOMAIN taken = 1 .. Len(taken)
      /\ \A k \in 1 .. Len(taken) : taken'[k] = taken[k]
      /\ taken'[n].export = run.export
  BY TookOne
<1>2. n - 1 = Len(taken)
  BY <1>1
<1>3. AcceptedBefore(n)' = Accepted /\ \A j \in Accepted : taken'[j].export = Export(j)
  BY <1>1, <1>2 DEF AcceptedBefore, Accepted, Export
<1>4. {taken'[j].export : j \in AcceptedBefore(n)'} = {Export(j) : j \in Accepted}
  BY <1>3
<1>5. {Export(j) : j \in Accepted} # {} <=> Accepted # {}
  OBVIOUS
<1> QED
  BY <1>1, <1>3, <1>4, <1>5 DEF Continues, Adds

LEMMA BankBounded ==
  ASSUME TypeInv, TypeInv', BooksBounded,
         \/ NextDay
         \/ \E d \in Days, b \in Bookings : Book(d, b)
         \/ \E p \in InBooks(books) : BankCorrects(p)
  PROVE  BooksBounded'
<1>1. books \in [Days -> Seq(Bookings)] /\ books' \in [Days -> Seq(Bookings)]
  BY DEF TypeInv, TypeOK
<1>2. \A d \in Days : Len(books[d]) \in Nat /\ DOMAIN books[d] = 1 .. Len(books[d])
                      /\ Len(books[d]) <= MaxBooked
  BY <1>1 DEF BooksBounded, OfBooks
<1>3. ASSUME NEW d \in Days
      PROVE  Len(books'[d]) <= MaxBooked
  <2>1. CASE NextDay
    BY <1>2, <2>1 DEF NextDay
  <2>2. ASSUME NEW c \in Days, NEW b \in Bookings, Book(c, b)
        PROVE  Len(books'[d]) <= MaxBooked
    <3>1. /\ Cardinality(InBooks(books)) < MaxBooked
          /\ books'[d] = IF d = c THEN Append(books[d], b) ELSE books[d]
      BY <1>1, <2>2 DEF Book
    <3>2. Len(books[d]) <= Cardinality(InBooks(books)) /\ Cardinality(InBooks(books)) \in Nat
      <4> DEFINE I == 1 .. Len(books[d])
                 T == {<<d, i>> : i \in I}
      <4>1. IsFiniteSet(InBooks(books))
        BY RowsOfBooks DEF BooksBounded
      <4>2. \A i \in I : <<d, i>> \in InBooks(books)
        BY <1>2, RowsOfBooks DEF BooksBounded
      <4>3. IsFiniteSet(I) /\ Cardinality(I) = Len(books[d])
        BY <1>2, FS_Interval
      <4>4. Cardinality(T) = Cardinality(I)
        <5> HIDE DEF I
        <5> QED
          BY <4>3, PairsCount
      <4>5. T \in SUBSET InBooks(books)
        BY <4>2
      <4>6. Cardinality(T) <= Cardinality(InBooks(books))
        <5> HIDE DEF T
        <5> QED
          BY <4>1, <4>5, FS_Subset
      <4> QED
        BY <4>1, <4>3, <4>4, <4>6, FS_CardinalityType
    <3>3. Len(Append(books[d], b)) = Len(books[d]) + 1
      BY <1>1, AppendProperties
    <3> QED
      BY <1>2, <3>1, <3>2, <3>3, BoundsAssumption
  <2>3. ASSUME NEW p \in InBooks(books), BankCorrects(p)
        PROVE  Len(books'[d]) <= MaxBooked
    <3>1. p[1] \in Days /\ p[2] \in DOMAIN books[p[1]]
      BY RowsOfBooks DEF BooksBounded
    <3>2. CASE d # p[1]
      <4>1. books'[d] = books[d]
        BY <1>1, <2>3, <3>2 DEF BankCorrects
      <4> QED
        BY <1>2, <4>1, SMTT(30)
    <3>3. CASE d = p[1]
      <4> DEFINE s == [i \in 1 .. Len(books[d]) - 1 |->
                         IF i < p[2] THEN books[d][i] ELSE books[d][i + 1]]
      <4>1. books'[d] = s \/ \E b \in Bookings : books'[d] = [books[d] EXCEPT ![p[2]] = b]
        <5>1. CASE books' = [books EXCEPT ![p[1]] =
                               [i \in 1 .. Len(@) - 1 |-> IF i < p[2] THEN @[i] ELSE @[i + 1]]]
          BY <1>1, <3>3, <5>1
        <5>2. ASSUME NEW b \in Bookings, books' = [books EXCEPT ![p[1]][p[2]] = b]
              PROVE  books'[d] = [books[d] EXCEPT ![p[2]] = b]
          BY <1>1, <3>3, <5>2, SMTT(30)
        <5> HIDE DEF s
        <5>3. \/ books' = [books EXCEPT ![p[1]] =
                              [i \in 1 .. Len(@) - 1 |-> IF i < p[2] THEN @[i] ELSE @[i + 1]]]
              \/ \E b \in Bookings : books' = [books EXCEPT ![p[1]][p[2]] = b]
          BY <2>3 DEF BankCorrects
        <5> QED
          BY <5>1, <5>2, <5>3
      <4>2. Len(s) <= MaxBooked
        <5>1. Len(books[d]) - 1 \in Nat /\ s \in Seq(Bookings)
          BY <1>1, <1>2, <3>1, <3>3, CountRemoved
        <5>2. DOMAIN s = 1 .. Len(books[d]) - 1
          OBVIOUS
        <5> HIDE DEF s
        <5>3. Len(s) = Len(books[d]) - 1
          BY <5>1, <5>2, LenProperties
        <5> QED
          BY <1>2, <5>3, BoundsAssumption
      <4>3. \A b \in Bookings : Len([books[d] EXCEPT ![p[2]] = b]) <= MaxBooked
        BY <1>1, <1>2, <3>1, <3>3, ExceptSeq
      <4> HIDE DEF s
      <4> QED
        BY <4>1, <4>2, <4>3
    <3> QED
      BY <3>2, <3>3
  <2> QED
    BY <2>1, <2>2, <2>3
<1> QED
  BY <1>1, <1>3 DEF BooksBounded, OfBooks

LEMMA GrowthInit == Init => GrowthInv
<1> SUFFICES ASSUME Init
             PROVE  GrowthInv
  OBVIOUS
<1>1. Accepted = {}
  BY DEF Init, Accepted
<1>2. BooksBounded
  BY BoundsAssumption, EmptySeq DEF Init, BooksBounded, OfBooks
<1>3. LedgerIsLatest
  BY <1>1 DEF Init, LedgerIsLatest
<1>4. GrowthIsAdmitted
  BY DEF Init, GrowthIsAdmitted
<1> QED
  BY <1>1, <1>2, <1>3, <1>4 DEF GrowthInv, AcceptedAreBooks, RangesJoin

(* What the runs taken and the ledger alone decide.                        *)
LEMMA SameRuns ==
  ASSUME AcceptedAreBooks, RangesJoin, LedgerIsLatest, GrowthIsAdmitted,
         UNCHANGED <<taken, ledger>>
  PROVE  AcceptedAreBooks' /\ RangesJoin' /\ LedgerIsLatest' /\ GrowthIsAdmitted'
<1>1. taken' = taken /\ counts' = counts /\ selected' = selected
  BY DEF ledger
<1>2. Accepted' = Accepted /\ (\A j : Export(j)' = Export(j))
  BY <1>1 DEF Accepted, Export
<1>3. AllContinue' = AllContinue
  BY <1>1, <1>2 DEF AllContinue, Continues, AcceptedBefore
<1>4. Orderly' = Orderly /\ \A j, d : Latest(j, d)' = Latest(j, d)
  BY <1>2, <1>3 DEF Orderly, Latest, Extends
<1>5. GrowthIsAdmitted'
  <2>1. \A i : AcceptedBefore(i)' = AcceptedBefore(i)
    BY <1>1 DEF AcceptedBefore
  <2>2. \A i : (Continues(i)' <=> Continues(i)) /\ (Outgrown(i)' <=> Outgrown(i))
    BY <1>1, <2>1 DEF Continues, Outgrown
  <2> QED
    BY <1>1, <2>1, <2>2 DEF GrowthIsAdmitted
<1> QED
  BY <1>1, <1>2, <1>3, <1>4, <1>5
  DEF AcceptedAreBooks, RangesJoin, LedgerIsLatest

LEMMA BankKeepsGrowth ==
  ASSUME TypeInv, TypeInv', GrowthInv,
         \/ NextDay
         \/ \E d \in Days, b \in Bookings : Book(d, b)
         \/ \E p \in InBooks(books) : BankCorrects(p)
  PROVE  GrowthInv'
<1>1. UNCHANGED <<taken, ledger>>
  BY DEF NextDay, Book, BankCorrects
<1>2. BooksBounded'
  BY BankBounded DEF GrowthInv
<1>3. AcceptedAreBooks' /\ RangesJoin' /\ LedgerIsLatest' /\ GrowthIsAdmitted'
  BY <1>1, SameRuns DEF GrowthInv
<1> QED
  BY <1>2, <1>3 DEF GrowthInv

(* An export that is not admitted changes neither books nor ledger.        *)
LEMMA NotAdmitted ==
  ASSUME TypeInv, GrowthInv,
         NEW run, NEW status, status # "accepted", Took(run, status), UNCHANGED ledger
  PROVE  BooksBounded' /\ AcceptedAreBooks' /\ RangesJoin' /\ LedgerIsLatest'
<1> USE DEF GrowthInv
<1>1. books' = books /\ counts' = counts /\ selected' = selected
  BY DEF Took, bank, ledger
<1>2. PICK n : n = Len(taken) + 1
  OBVIOUS
<1>3. Accepted' = Accepted /\ \A j \in Accepted : Export(j)' = Export(j)
  BY <1>2, AcceptedNext
<1>4. AllContinue' <=> AllContinue
  <2>1. \A k \in Accepted : Continues(k)' <=> Continues(k)
    BY JudgedAlike DEF Accepted
  <2> QED
    BY <1>3, <2>1 DEF AllContinue
<1>5. Orderly' <=> Orderly
  BY <1>3, <1>4 DEF Orderly, Extends
<1>6. \A d : \A j \in Accepted : Latest(j, d)' <=> Latest(j, d)
  BY <1>3 DEF Latest
<1>7. BooksBounded' /\ AcceptedAreBooks' /\ RangesJoin'
  BY <1>1, <1>3, <1>4 DEF BooksBounded, AcceptedAreBooks, RangesJoin
<1>8. LedgerIsLatest'
  BY <1>1, <1>3, <1>5, <1>6 DEF LedgerIsLatest
<1> QED
  BY <1>7, <1>8

(* An export that nothing excuses is expected.                             *)
LEMMA ExpectedUnless ==
  ASSUME TypeInv, NEW run, NEW status, Took(run, status),
         NEW n, n = Len(taken) + 1, ~ Excused(n)'
  PROVE  Expected(run.export)
<1>1. /\ n \in Nat /\ n = Len(taken) + 1
      /\ taken'[n].export = run.export
      /\ \A j \in Accepted : /\ j \in Nat /\ j < n /\ j \in DOMAIN taken
                             /\ taken'[j].export = Export(j)
  BY TookOne, AcceptedNext DEF Accepted, Export
<1>2. AcceptedBefore(n)' = Accepted /\ (Continues(n)' <=> Adds(run.export))
  BY NextContinues
<1>3. /\ ~ Outgrown(n)'
      /\ \A k \in Accepted \cup {n} : Continues(k)'
  BY <1>2 DEF Excused
<1>4. AllContinue /\ Adds(run.export)
  BY <1>1, <1>2, <1>3, JudgedAlike DEF AllContinue
<1>5. ASSUME NEW j \in Accepted
      PROVE  /\ Flawless(Export(j))
             /\ \A k \in Accepted \cup {n} : k > j =>
                  /\ Grown(Export(j).books, taken'[k].export.books)
                  /\ \A d \in Days : d < taken'[k].export.from =>
                       Export(j).books[d] = taken'[k].export.books[d]
  BY <1>1, <1>2, <1>3 DEF Outgrown
<1>6. \A j \in Accepted : Extends(run.export.books, run.export.from, j)
  BY <1>1, <1>5 DEF Extends
<1>7. \A j, k \in Accepted : j < k => Extends(Export(k).books, Export(k).from, j)
  BY <1>1, <1>5 DEF Extends
<1> QED
  BY <1>4, <1>5, <1>6, <1>7 DEF Expected, Orderly

LEMMA QuarantineIsExcused ==
  ASSUME TypeInv, GrowthInv, NEW run, NEW status, Took(run, status),
         status = "quarantined" /\ Flawless(run.export) => ~ Expected(run.export)
  PROVE  GrowthIsAdmitted'
<1>1. /\ Len(taken) \in Nat /\ DOMAIN taken = 1 .. Len(taken)
      /\ DOMAIN taken' = 1 .. Len(taken) + 1
      /\ \A i \in 1 .. Len(taken) : taken'[i] = taken[i]
      /\ taken'[Len(taken) + 1].export = run.export
      /\ taken'[Len(taken) + 1].status = status
  BY TookOne
<1>2. ASSUME NEW i \in 1 .. Len(taken), taken'[i].status = "quarantined",
             Flawless(taken'[i].export)
      PROVE  Excused(i)'
  <2>1. Excused(i)
    BY <1>1, <1>2 DEF GrowthInv, GrowthIsAdmitted, Excused
  <2> QED
    BY <1>1, <2>1, JudgedAlike
<1>3. ASSUME NEW n, n = Len(taken) + 1, taken'[n].status = "quarantined",
             Flawless(taken'[n].export)
      PROVE  Excused(n)'
  BY <1>1, <1>3, ExpectedUnless
<1>4. \A i \in DOMAIN taken' :
        taken'[i].status = "quarantined" /\ Flawless(taken'[i].export) => Excused(i)'
  <2>1. \A i \in DOMAIN taken' : i \in 1 .. Len(taken) \/ i = Len(taken) + 1
    BY <1>1
  <2> QED
    BY <1>2, <1>3, <2>1
<1> QED
  BY <1>4 DEF GrowthIsAdmitted, Excused

(* What an export that drops nothing enters.                               *)
LEMMA EntersShown ==
  ASSUME TypeInv, NEW e, OfRows(e), NEW f, NEW s, Matches(e, f, s), DOMAIN f = {},
         Enter(RunOf(e, f, s))
  PROVE  \A d \in Days, b \in Bookings :
           counts'[d][b] = IF Shown(e, d, b) > counts[d][b] THEN Shown(e, d, b) ELSE counts[d][b]
<1>1. ASSUME NEW d \in Days, NEW b \in Bookings
      PROVE  Cardinality(ShowingOf(e, f, s, d, b)) = Shown(e, d, b)
  <2>1. \A p \in Places(e) : Shows(RunOf(e, f, s), p) = Identity(e, p)
    BY ShowsWhich DEF Matches
  <2>2. ShowingOf(e, f, s, d, b) = {p \in Places(e) : p[1] = d /\ BookingOf(e, p) = b}
    BY <2>1 DEF ShowingOf, Identity
  <2> QED
    BY <2>2 DEF Shown
<1> QED
  BY <1>1, EnterCounts DEF TypeInv

LEMMA AdmittingJoins ==
  ASSUME TypeInv, GrowthInv, NEW from \in Days, NEW through \in Days,
         NEW e \in Files(from, through), e.readable,
         NEW run, run.export = e, Took(run, "accepted")
  PROVE  BooksBounded' /\ AcceptedAreBooks' /\ RangesJoin'
<1> USE DEF GrowthInv
<1>1. books' = books
  BY DEF Took, bank
<1>2. PICK n : n = Len(taken) + 1
  OBVIOUS
<1>3. /\ n \in Nat /\ Export(n)' = e /\ Accepted' = Accepted \cup {n}
      /\ \A j \in Accepted : j \in Nat /\ j < n /\ Export(j)' = Export(j)
  BY <1>2, AcceptedNext
<1>4. e.books = books /\ e.from = from /\ e.through = through
  BY FilesShowBooks, FilesRange DEF TypeInv
<1>5. BooksBounded'
  BY <1>1 DEF BooksBounded
<1>6. AcceptedAreBooks'
  BY <1>3, <1>4 DEF AcceptedAreBooks, BooksBounded
<1>7. ASSUME AllContinue'
      PROVE  AllContinue /\ Adds(e)
  <2>1. \A k \in Accepted \cup {n} : Continues(k)'
    BY <1>3, <1>7 DEF AllContinue
  <2>2. \A k \in Accepted : k \in DOMAIN taken
    BY DEF Accepted
  <2>3. AllContinue
    BY <2>1, <2>2, JudgedAlike DEF AllContinue
  <2>4. Adds(e)
    BY <1>2, <2>1, NextContinues
  <2> QED
    BY <2>3, <2>4
<1>8. RangesJoin'
  <2> SUFFICES ASSUME AllContinue'
               PROVE  RangesJoin'
    BY DEF RangesJoin
  <2> DEFINE x(j) == taken'[j].export
  <2>0. \A j : Export(j)' = x(j)
    BY DEF Export
  <2> HIDE DEF x
  <2>1. /\ x(n).from = from /\ x(n).through = through
        /\ \A j \in Accepted : x(j) = Export(j)
    BY <1>3, <1>4, <2>0
  <2>2. /\ from \in Nat /\ through \in Nat
        /\ \A j \in Accepted : Export(j).from \in Nat /\ Export(j).through \in Nat
    BY BoundsAssumption DEF AcceptedAreBooks, Days
  <2>3. /\ Accepted # {} => \E j \in Accepted : from <= Export(j).through + 1
        /\ \A j \in Accepted : Export(j).through <= through
    BY <1>4, <1>7 DEF Adds
  <2>4. ASSUME NEW j \in Accepted \cup {n}, NEW k \in Accepted \cup {n}, j < k
        PROVE  x(j).through <= x(k).through
    <3>1. j \in Accepted
      BY <1>3, <2>4
    <3>2. CASE k \in Accepted
      BY <1>7, <2>1, <2>4, <3>1, <3>2 DEF RangesJoin
    <3>3. CASE k = n
      BY <2>1, <2>3, <3>1, <3>3
    <3> QED
      BY <2>4, <3>2, <3>3
  <2>5. ASSUME NEW j \in Accepted \cup {n}, NEW k \in Accepted \cup {n}, NEW d \in Days,
               x(j).from <= d, d <= x(k).through
        PROVE  \E i \in Accepted \cup {n} : Covers(x(i), d)
    <3>1. d \in Nat
      BY BoundsAssumption DEF Days
    <3>2. d <= through
      BY <2>1, <2>2, <2>3, <2>5, <3>1
    <3>3. CASE from <= d
      <4>1. Covers(x(n), d)
        BY <2>1, <2>2, <3>1, <3>2, <3>3 DEF Covers
      <4> QED
        BY <4>1
    <3>4. CASE d < from
      <4>1. j \in Accepted
        BY <2>1, <2>2, <2>5, <3>1, <3>4
      <4>2. PICK m \in Accepted : from <= Export(m).through + 1
        BY <2>3, <4>1
      <4>3. d <= Export(m).through
        BY <2>2, <3>1, <3>4, <4>2
      <4>4. Export(j).from <= d
        BY <2>1, <2>5, <4>1
      <4>5. PICK i \in Accepted : Covers(Export(i), d)
        BY <1>7, <4>1, <4>3, <4>4 DEF RangesJoin
      <4> QED
        BY <2>1, <4>5
    <3> QED
      BY <2>2, <3>1, <3>3, <3>4
  <2> QED
    BY <1>3, <2>0, <2>4, <2>5 DEF RangesJoin
<1> QED
  BY <1>5, <1>6, <1>8

LEMMA AdmittingIsLatest ==
  ASSUME TypeInv, GrowthInv, NEW from \in Days, NEW through \in Days,
         NEW e \in Files(from, through), OfRows(e), e.readable,
         NEW f, NEW s, Matches(e, f, s), Enter(RunOf(e, f, s)), Took(RunOf(e, f, s), "accepted")
  PROVE  LedgerIsLatest'
<1> USE DEF GrowthInv
<1> SUFFICES ASSUME Orderly'
             PROVE  LedgerIsLatest'
  BY DEF LedgerIsLatest
<1>1. PICK n : n = Len(taken) + 1
  OBVIOUS
<1>2. /\ n \in Nat /\ Export(n)' = e /\ Accepted' = Accepted \cup {n}
      /\ \A j \in Accepted : j \in Nat /\ j < n /\ Export(j)' = Export(j)
  <2>1. RunOf(e, f, s).export = e
    BY DEF RunOf
  <2> QED
    BY <1>1, <2>1, AcceptedNext
<1>3. Flawless(e) /\ Expected(e)
  <2>1. \A j \in Accepted \cup {n} :
          /\ Flawless(Export(j)')
          /\ \A k \in Accepted \cup {n} :
               j < k => /\ Flawless(Export(j)')
                        /\ Grown(Export(j)'.books, Export(k)'.books)
                        /\ \A d \in Days : d < Export(k)'.from => Export(j)'.books[d] = Export(k)'.books[d]
    BY <1>2 DEF Orderly, Extends
  <2>2. Flawless(e)
    BY <1>2, <2>1
  <2>3. \A j \in Accepted : Extends(e.books, e.from, j)
    BY <1>2, <2>1 DEF Extends
  <2>4. Orderly
    <3>1. \A k \in Accepted : k \in DOMAIN taken /\ Continues(k)'
      BY <1>2 DEF Orderly, AllContinue, Accepted
    <3>2. AllContinue
      BY <3>1, JudgedAlike DEF AllContinue
    <3> QED
      BY <1>2, <2>1, <3>2 DEF Orderly, Extends
  <2>5. Adds(e)
    <3>1. Continues(n)' /\ RunOf(e, f, s).export = e
      BY <1>2 DEF Orderly, AllContinue, RunOf
    <3> QED
      BY <1>1, <3>1, NextContinues
  <2> QED
    BY <2>2, <2>3, <2>4, <2>5 DEF Expected
<1>4. FromBooks(e) /\ OfBooks(e.books) /\ Dropped(e) = {}
  BY <1>3, ExpectedIsSound DEF FromBooks
<1>5. DOMAIN f = {}
  BY <1>4 DEF Matches
<1>6. \A d \in Days, b \in Bookings :
        counts'[d][b] = IF Shown(e, d, b) > counts[d][b] THEN Shown(e, d, b) ELSE counts[d][b]
  BY <1>5, EntersShown
<1>7. ASSUME NEW d \in Days, NEW b \in Bookings
      PROVE  /\ Covers(e, d) => counts'[d][b] = InBooksOf(e.books, d, b)
             /\ ~ Covers(e, d) => counts'[d][b] = counts[d][b]
  <2>1. Shown(e, d, b) = IF Covers(e, d) THEN InBooksOf(e.books, d, b) ELSE 0
    BY <1>4, WholeCounts
  <2>2. InBooksOf(e.books, d, b) \in Nat /\ counts[d][b] <= InBooksOf(e.books, d, b)
    BY <1>3, <1>4, CountsInBooks, CountsAreLow
  <2>3. counts[d][b] \in Nat
    BY BoundsAssumption DEF TypeInv, TypeOK
  <2> QED
    BY <1>6, <2>1, <2>2, <2>3
<1>8. ASSUME NEW d
      PROVE  /\ Covers(e, d) => Latest(n, d)'
             /\ ~ Covers(e, d) => \A j \in Accepted : Latest(j, d)' <=> Latest(j, d)
             /\ \A j \in Accepted : Latest(j, d)' => ~ Covers(e, d)
  BY <1>2 DEF Latest
<1>9. ASSUME NEW d \in Days, NEW b \in Bookings
      PROVE  /\ \A j \in Accepted' : Latest(j, d)' => counts'[d][b] = InBooksOf(Export(j)'.books, d, b)
             /\ (\A j \in Accepted' : ~ Covers(Export(j)', d)) => counts'[d][b] = 0
  <2>1. ASSUME NEW j \in Accepted, Latest(j, d)'
        PROVE  counts'[d][b] = InBooksOf(Export(j)'.books, d, b)
    <3>1. ~ Covers(e, d) /\ Latest(j, d)
      BY <1>8, <2>1
    <3>2. counts[d][b] = InBooksOf(Export(j).books, d, b)
      BY <1>3, <3>1 DEF LedgerIsLatest, Expected
    <3> QED
      BY <1>2, <1>7, <3>1, <3>2
  <2>2. Latest(n, d)' => counts'[d][b] = InBooksOf(Export(n)'.books, d, b)
    <3>1. Latest(n, d)' => Covers(e, d)
      BY <1>2 DEF Latest
    <3> QED
      BY <1>2, <1>7, <3>1
  <2>3. ASSUME \A j \in Accepted' : ~ Covers(Export(j)', d)
        PROVE  counts'[d][b] = 0
    <3>1. ~ Covers(e, d) /\ \A j \in Accepted : ~ Covers(Export(j), d)
      BY <1>2, <2>3
    <3>2. counts[d][b] = 0
      BY <1>3, <3>1 DEF LedgerIsLatest, Expected
    <3> QED
      BY <1>7, <3>1, <3>2
  <2> QED
    BY <1>2, <2>1, <2>2, <2>3
<1>10. ASSUME NEW d \in DOMAIN selected'
       PROVE  \E j \in Accepted' : Latest(j, d)' /\ selected'[d].export = Export(j)'
  <2>1. selected' = [x \in DOMAIN selected \cup {p[1] : p \in Places(e)} |->
                       IF Covers(e, x) THEN RunOf(e, f, s) ELSE selected[x]]
    BY DEF Enter, RunOf
  <2>2. CASE Covers(e, d)
    <3>1. selected'[d].export = e
      BY <2>1, <2>2 DEF RunOf
    <3> QED
      BY <1>2, <1>8, <2>2, <3>1
  <2>3. CASE ~ Covers(e, d)
    <3>1. d \in DOMAIN selected /\ selected'[d] = selected[d]
      <4>1. \A p \in Places(e) : Covers(e, p[1])
        BY <1>4, WholeShows
      <4> QED
        BY <2>1, <2>3, <4>1
    <3>2. PICK j \in Accepted : Latest(j, d) /\ selected[d].export = Export(j)
      BY <1>3, <3>1 DEF LedgerIsLatest, Expected
    <3> QED
      BY <1>2, <1>8, <2>3, <3>1, <3>2
  <2> QED
    BY <2>2, <2>3
<1> QED
  BY <1>9, <1>10 DEF LedgerIsLatest

LEMMA TakingKeepsGrowth ==
  ASSUME TypeInv, GrowthInv, NEW from \in Days, NEW through \in Days,
         NEW e \in Files(from, through), Take(e)
  PROVE  GrowthInv'
<1>0. AsRead(e).export = e
  BY DEF AsRead
<1>1. CASE TakeRepeat(e)
  <2>1. Took(AsRead(e), "repeat") /\ UNCHANGED ledger
    BY <1>1 DEF TakeRepeat
  <2>2. GrowthIsAdmitted'
    BY <2>1, QuarantineIsExcused
  <2> QED
    BY <2>1, <2>2, NotAdmitted DEF GrowthInv
<1>2. CASE Refuse(e) \/ Quarantine(e)
  <2>1. Took(AsRead(e), "quarantined") /\ UNCHANGED ledger
    BY <1>2 DEF Refuse, Quarantine
  <2>2. Flawless(e) => ~ Expected(e)
    BY <1>2, ExpectedIsSound
  <2>3. GrowthIsAdmitted'
    BY <1>0, <2>1, <2>2, QuarantineIsExcused
  <2> QED
    BY <2>1, <2>3, NotAdmitted DEF GrowthInv
<1>3. CASE Admit(e)
  <2>1. PICK f, s :
          /\ OfRows(e) /\ e.readable /\ Matches(e, f, s)
          /\ Enter(RunOf(e, f, s)) /\ Took(RunOf(e, f, s), "accepted")
    BY <1>3, AdmitFacts DEF TypeInv
  <2>2. RunOf(e, f, s).export = e
    BY DEF RunOf
  <2>3. BooksBounded' /\ AcceptedAreBooks' /\ RangesJoin'
    BY <2>1, <2>2, AdmittingJoins
  <2>4. LedgerIsLatest'
    BY <2>1, AdmittingIsLatest
  <2>5. GrowthIsAdmitted'
    BY <2>1, QuarantineIsExcused
  <2> QED
    BY <2>3, <2>4, <2>5 DEF GrowthInv
<1> QED
  BY <1>1, <1>2, <1>3 DEF Take

LEMMA GrowthNext == TypeInv /\ TypeInv' /\ GrowthInv /\ [Next]_vars => GrowthInv'
<1> SUFFICES ASSUME TypeInv, TypeInv', GrowthInv, [Next]_vars
             PROVE  GrowthInv'
  OBVIOUS
<1>1. CASE UNCHANGED vars
  <2>1. books' = books /\ UNCHANGED <<taken, ledger>>
    BY <1>1 DEF vars, bank
  <2>2. AcceptedAreBooks' /\ RangesJoin' /\ LedgerIsLatest' /\ GrowthIsAdmitted'
    BY <2>1, SameRuns DEF GrowthInv
  <2>3. BooksBounded'
    BY <2>1 DEF GrowthInv, BooksBounded
  <2> QED
    BY <2>2, <2>3 DEF GrowthInv
<1>2. CASE Next
  <2>1. ASSUME NEW from \in 1 .. today, NEW through \in 1 .. today,
               NEW e \in Files(from, through), Take(e)
        PROVE  GrowthInv'
    <3>1. from \in Days /\ through \in Days
      BY DaysSoFar DEF TypeInv
    <3> QED
      BY <2>1, <3>1, TakingKeepsGrowth
  <2> QED
    BY <1>2, <2>1, BankKeepsGrowth DEF Next
<1> QED
  BY <1>1, <1>2

(* An export is quarantined only for a reason: a flaw of its own or of an  *)
(* admitted one, something the bank took out of the books between two      *)
(* exports, a change before the range of a later one, or a range that does *)
(* not continue those before it (Ledger.verdict, admission.py).            *)
THEOREM GrowthIsAlwaysAdmitted == Spec => []GrowthIsAdmitted
<1>1. GrowthInv => GrowthIsAdmitted
  BY DEF GrowthInv
<1>2. TypeInv /\ TypeInv' /\ GrowthInv /\ [Next]_vars => GrowthInv'
  BY GrowthNext
<1> QED
  BY <1>1, <1>2, TypeInit, TypeNext, GrowthInit, PTL DEF Spec

-----------------------------------------------------------------------------
(* Where the published days come from.                                     *)

(* An export's rows are of its books, each with their balance or none.     *)
ShowsBooks(e) ==
  /\ OfRows(e)
  /\ Places(e) \subseteq InBooks(e.books)
  /\ \A p \in Places(e) : /\ BookingOf(e, p) = e.books[p[1]][p[2]]
                          /\ Stated(e, p) \in {None, BalanceAt(e.books, p)}

AcceptedShowBooks == \A j \in Accepted : ShowsBooks(Export(j))

(* The export of a day is one of those admitted, and its rows show         *)
(* different transactions.                                                 *)
SelectedAreTaken ==
  \A d \in DOMAIN selected :
    /\ \E j \in Accepted : selected[d].export = Export(j)
    /\ \A p, q \in Places(selected[d].export) :
         Shows(selected[d], p) = Shows(selected[d], q) => p = q

SourcesInv == BooksBounded /\ AcceptedAreBooks /\ AcceptedShowBooks /\ SelectedAreTaken

LEMMA SourcesInit == Init => SourcesInv
<1> SUFFICES ASSUME Init
             PROVE  SourcesInv
  OBVIOUS
<1>1. Accepted = {} /\ DOMAIN selected = {}
  BY DEF Init, Accepted
<1>2. BooksBounded
  BY BoundsAssumption, EmptySeq DEF Init, BooksBounded, OfBooks
<1> QED
  BY <1>1, <1>2 DEF SourcesInv, AcceptedAreBooks, AcceptedShowBooks, SelectedAreTaken

LEMMA SameSources ==
  ASSUME SourcesInv, UNCHANGED <<taken, ledger>>, BooksBounded'
  PROVE  SourcesInv'
<1>1. taken' = taken /\ selected' = selected
  BY DEF ledger
<1>2. Accepted' = Accepted /\ (\A j : Export(j)' = Export(j))
  BY <1>1 DEF Accepted, Export
<1> QED
  BY <1>1, <1>2 DEF SourcesInv, AcceptedAreBooks, AcceptedShowBooks, SelectedAreTaken

LEMMA TakingKeepsSources ==
  ASSUME TypeInv, SourcesInv, NEW from \in Days, NEW through \in Days,
         NEW e \in Files(from, through), Take(e)
  PROVE  SourcesInv'
<1> USE DEF SourcesInv
<1>1. PICK n : n = Len(taken) + 1
  OBVIOUS
<1>2. ASSUME NEW run, NEW status, status # "accepted", Took(run, status), UNCHANGED ledger
      PROVE  SourcesInv'
  <2>1. books' = books /\ selected' = selected
    BY <1>2 DEF Took, bank, ledger
  <2>2. Accepted' = Accepted /\ \A j \in Accepted : Export(j)' = Export(j)
    BY <1>1, <1>2, AcceptedNext
  <2> QED
    BY <2>1, <2>2 DEF BooksBounded, AcceptedAreBooks, AcceptedShowBooks, SelectedAreTaken
<1>3. CASE TakeRepeat(e)
  BY <1>2, <1>3 DEF TakeRepeat
<1>4. CASE Refuse(e) \/ Quarantine(e)
  BY <1>2, <1>4 DEF Refuse, Quarantine
<1>5. CASE Admit(e)
  <2>1. PICK f, s :
          /\ OfRows(e) /\ e.readable /\ Matches(e, f, s)
          /\ Enter(RunOf(e, f, s)) /\ Took(RunOf(e, f, s), "accepted")
    BY <1>5, AdmitFacts DEF TypeInv
  <2> DEFINE run == RunOf(e, f, s)
  <2>0. run.export = e
    BY DEF RunOf
  <2>2. /\ Export(n)' = e /\ Accepted' = Accepted \cup {n}
        /\ \A j \in Accepted : Export(j)' = Export(j)
    BY <1>1, <2>0, <2>1, AcceptedNext
  <2>3. books' = books /\ e.books = books /\ e.from = from /\ e.through = through
    BY <2>1, FilesShowBooks, FilesRange DEF TypeInv, Took, bank
  <2>4. BooksBounded' /\ AcceptedAreBooks'
    BY <2>2, <2>3 DEF BooksBounded, AcceptedAreBooks
  <2>5. ShowsBooks(e)
    BY <2>1, FilesShowBooks DEF TypeInv, ShowsBooks
  <2>6. AcceptedShowBooks'
    BY <2>2, <2>5 DEF AcceptedShowBooks
  <2>7. \A p, q \in Places(e) : Shows(run, p) = Shows(run, q) => p = q
    BY <2>1, ShowsOne DEF TypeInv
  <2>8. selected' = [x \in DOMAIN selected \cup {p[1] : p \in Places(e)} |->
                       IF Covers(e, x) THEN run ELSE selected[x]]
    BY <2>1, <2>0 DEF Enter
  <2> HIDE DEF run
  <2>9. ASSUME NEW d \in DOMAIN selected'
        PROVE  /\ \E j \in Accepted' : selected'[d].export = Export(j)'
               /\ \A p, q \in Places(selected'[d].export) :
                    Shows(selected'[d], p) = Shows(selected'[d], q) => p = q
    <3>1. CASE Covers(e, d)
      <4>1. selected'[d] = run
        BY <2>8, <3>1
      <4> QED
        BY <2>0, <2>2, <2>7, <4>1
    <3>2. CASE ~ Covers(e, d)
      <4>1. \A p \in Places(e) : Covers(e, p[1])
        BY <2>1, FilesShowBooks DEF TypeInv
      <4>2. d \in DOMAIN selected /\ selected'[d] = selected[d]
        BY <2>8, <3>2, <4>1
      <4> QED
        BY <2>2, <4>2 DEF SelectedAreTaken
    <3> QED
      BY <3>1, <3>2
  <2>10. SelectedAreTaken'
    BY <2>9 DEF SelectedAreTaken
  <2> QED
    BY <2>4, <2>6, <2>10
<1> QED
  BY <1>3, <1>4, <1>5 DEF Take

LEMMA SourcesNext == TypeInv /\ TypeInv' /\ SourcesInv /\ [Next]_vars => SourcesInv'
<1> SUFFICES ASSUME TypeInv, TypeInv', SourcesInv, [Next]_vars
             PROVE  SourcesInv'
  OBVIOUS
<1>1. CASE UNCHANGED vars
  BY <1>1, SameSources DEF vars, bank, SourcesInv, BooksBounded
<1>2. CASE \/ NextDay
           \/ \E d \in Days, b \in Bookings : Book(d, b)
           \/ \E p \in InBooks(books) : BankCorrects(p)
  <2>1. UNCHANGED <<taken, ledger>>
    BY <1>2 DEF NextDay, Book, BankCorrects
  <2> QED
    BY <1>2, <2>1, BankBounded, SameSources DEF SourcesInv
<1>3. ASSUME NEW from \in 1 .. today, NEW through \in 1 .. today,
             NEW e \in Files(from, through), Take(e)
      PROVE  SourcesInv'
  BY <1>3, DaysSoFar, TakingKeepsSources DEF TypeInv
<1> QED
  BY <1>1, <1>2, <1>3 DEF Next

-----------------------------------------------------------------------------
(* Months.                                                                 *)

LEMMA MonthBounds ==
  ASSUME NEW d \in Days
  PROVE  /\ MonthOf(d) \in Nat \ {0}
         /\ FirstDay(MonthOf(d)) <= d /\ d <= LastDay(MonthOf(d))
BY BoundsAssumption, MonthAssumption DEF Days, MonthOf, FirstDay, LastDay

(* An earlier month ends before a later one begins.                        *)
LEMMA MonthsApart ==
  ASSUME NEW m \in Int, NEW n \in Int, m < n
  PROVE  LastDay(m) < FirstDay(n)
<1> DEFINE M == MonthDays
<1>1. M \in Nat /\ n - 1 - m \in Nat
  BY MonthAssumption
<1> HIDE DEF M
<1>2. (n - 1 - m) * M >= 0
  BY <1>1
<1>3. (n - 1) * M = m * M + (n - 1 - m) * M
  BY <1>1
<1> QED
  BY <1>1, <1>2, <1>3 DEF LastDay, FirstDay, M

LEMMA BoundsAreIntegers ==
  ASSUME NEW m \in Int
  PROVE  FirstDay(m) \in Int /\ LastDay(m) \in Int
BY MonthAssumption DEF FirstDay, LastDay

(* A day is of the month it lies in.                                       *)
LEMMA MonthIs ==
  ASSUME NEW d \in Days, NEW m \in Int
  PROVE  /\ MonthOf(d) = m <=> FirstDay(m) <= d /\ d <= LastDay(m)
         /\ MonthOf(d) < m <=> d < FirstDay(m)
         /\ m < MonthOf(d) <=> LastDay(m) < d
<1> DEFINE k == MonthOf(d)
<1>1. k \in Int /\ d \in Int /\ FirstDay(k) <= d /\ d <= LastDay(k)
  BY MonthBounds, BoundsAssumption DEF Days
<1>2. /\ FirstDay(k) \in Int /\ LastDay(k) \in Int
      /\ FirstDay(m) \in Int /\ LastDay(m) \in Int /\ FirstDay(m) <= LastDay(m)
  <2>1. FirstDay(m) <= LastDay(m)
    BY MonthAssumption DEF FirstDay, LastDay
  <2> QED
    BY <1>1, <2>1, BoundsAreIntegers
<1>3. k < m => LastDay(k) < FirstDay(m)
  BY <1>1, MonthsApart
<1>4. m < k => LastDay(m) < FirstDay(k)
  BY <1>1, MonthsApart
<1> HIDE DEF k
<1> QED
  BY <1>1, <1>2, <1>3, <1>4 DEF k

LEMMA MonthsFollow ==
  ASSUME NEW c \in Days, NEW d \in Days, c <= d
  PROVE  MonthOf(c) <= MonthOf(d)
<1>1. MonthOf(c) \in Int /\ MonthOf(d) \in Int /\ FirstDay(MonthOf(c)) <= c
  BY MonthBounds
<1>2. FirstDay(MonthOf(c)) \in Int /\ c \in Int /\ d \in Int
  BY <1>1, BoundsAreIntegers, BoundsAssumption DEF Days
<1> QED
  BY <1>1, <1>2, MonthIs

-----------------------------------------------------------------------------
(* Balances that follow from each other add up.                            *)
Follow(f, l, bal, amt) ==
  /\ \A i \in f .. l : bal[i] \in Int
  /\ \A i \in f + 1 .. l : amt[i] \in Int /\ bal[i] = bal[i - 1] + amt[i]

LEMMA Telescope ==
  ASSUME NEW f \in Nat, NEW l \in Nat, f <= l, NEW bal, NEW amt, Follow(f, l, bal, amt)
  PROVE  bal[l] = bal[f] + SumFunctionOnSet(amt, f + 1 .. l)
<1> USE DEF Follow
<1> DEFINE Bad == {n \in Nat : f <= n /\ n <= l /\ bal[n] # bal[f] + SumFunctionOnSet(amt, f + 1 .. n)}
<1>1. Bad = {}
  <2> SUFFICES ASSUME Bad # {}
               PROVE  FALSE
    OBVIOUS
  <2>1. PICK n \in Bad : \A k \in Bad : n <= k
    <3>1. Bad \in SUBSET Nat
      OBVIOUS
    <3> HIDE DEF Bad
    <3> QED
      BY <3>1, HasLeast
  <2>2. n \in Nat /\ f <= n /\ n <= l /\ bal[n] # bal[f] + SumFunctionOnSet(amt, f + 1 .. n)
    OBVIOUS
  <2>3. CASE n = f
    <3>1. f + 1 .. n = {}
      BY <2>3
    <3> QED
      BY <2>2, <2>3, <3>1, SumEmpty
  <2>4. CASE n # f
    <3> DEFINE S == f + 1 .. n
               k == n - 1
    <3>1. k \in Nat /\ f <= k /\ k <= l /\ k < n
      BY <2>2, <2>4
    <3>2. bal[k] = bal[f] + SumFunctionOnSet(amt, f + 1 .. k)
      BY <2>1, <3>1
    <3>3. n \in S /\ IsFiniteSet(S) /\ S \ {n} = f + 1 .. k /\ \A i \in S : amt[i] \in Int
      <4>1. IsFiniteSet(S)
        BY <2>2, FS_Interval
      <4> QED
        BY <2>2, <2>4, <4>1
    <3>4. SumFunctionOnSet(amt, S) = amt[n] + SumFunctionOnSet(amt, S \ {n})
      <4> HIDE DEF S
      <4> QED
        BY <3>3, SumRemove
    <3>5. SumFunctionOnSet(amt, S \ {n}) \in Int
      <4>1. IsFiniteSet(S \ {n}) /\ \A i \in S \ {n} : amt[i] \in Int
        <5> HIDE DEF S
        <5> QED
          BY <3>3, FS_Subset
      <4> HIDE DEF S
      <4> QED
        BY <4>1, SumIsInteger
    <3>6. bal[n] = bal[k] + amt[n] /\ amt[n] \in Int /\ bal[f] \in Int
      BY <2>2, <2>4
    <3> DEFINE s == SumFunctionOnSet(amt, S \ {n})
               t == SumFunctionOnSet(amt, S)
    <3>7. bal[k] = bal[f] + s /\ t = amt[n] + s /\ s \in Int
      BY <3>2, <3>3, <3>4, <3>5
    <3>8. bal[n] # bal[f] + t
      BY <2>2
    <3> HIDE DEF s, t, S, k
    <3> QED
      BY <3>6, <3>7, <3>8
  <2> QED
    BY <2>3, <2>4
<1>2. l \notin Bad
  BY <1>1
<1> QED
  BY <1>2

-----------------------------------------------------------------------------
(* The history of an account.                                              *)

(* A row's place as one number, by which rows are in line.                 *)
PlaceOf(p) == p[1] * (MaxBooked + 1) + p[2]

LEMMA PlacesInLine ==
  ASSUME NEW bs, OfBooks(bs), NEW p \in InBooks(bs), NEW q \in InBooks(bs)
  PROVE  /\ PlaceOf(p) \in Nat \ {0}
         /\ UpTo(p, q) <=> PlaceOf(p) <= PlaceOf(q)
         /\ PlaceOf(p) = PlaceOf(q) => p = q
<1> DEFINE K == MaxBooked + 1
           a == p[1]
           b == q[1]
           i == p[2]
           j == q[2]
<1>1. K \in Nat /\ a \in Nat /\ b \in Nat /\ a > 0 /\ b > 0
  BY RowsOfBooks, BoundsAssumption DEF Days
<1>2. i \in 1 .. MaxBooked /\ j \in 1 .. MaxBooked /\ MaxBooked \in Nat
  BY BoundsAssumption DEF InBooks, Rows
<1>3. i \in Nat /\ j \in Nat /\ i > 0 /\ j > 0 /\ i < K /\ j < K
  BY <1>2
<1>4. p = <<a, i>> /\ q = <<b, j>>
  BY RowsOfBooks
<1>5. PlaceOf(p) = a * K + i /\ PlaceOf(q) = b * K + j
  BY DEF PlaceOf
<1>6. UpTo(p, q) <=> a < b \/ (a = b /\ i <= j)
  BY DEF UpTo
<1> HIDE DEF K, a, b, i, j
<1>7. a * K \in Nat /\ b * K \in Nat
  BY <1>1
<1>8. ASSUME NEW x \in Nat, NEW y \in Nat, x < y
      PROVE  x * K + K <= y * K
  <2>1. y - x - 1 \in Nat
    BY <1>8
  <2>2. (y - x - 1) * K >= 0 /\ (y - x - 1) * K \in Int
    BY <1>1, <2>1
  <2>3. y * K = x * K + K + (y - x - 1) * K
    BY <1>1
  <2>4. x * K \in Int /\ y * K \in Int
    BY <1>1
  <2> QED
    BY <1>1, <2>2, <2>3, <2>4
<1>9. a < b => a * K + K <= b * K
  BY <1>1, <1>8
<1>10. b < a => b * K + K <= a * K
  BY <1>1, <1>8
<1> DEFINE u == a * K
           v == b * K
<1>11. /\ u \in Nat /\ v \in Nat /\ (a < b => u + K <= v) /\ (b < a => v + K <= u)
       /\ (a = b => u = v)
       /\ PlaceOf(p) = u + i /\ PlaceOf(q) = v + j
  BY <1>5, <1>7, <1>9, <1>10
<1> HIDE DEF u, v
<1>12. PlaceOf(p) \in Nat \ {0}
  BY <1>3, <1>11
<1>13. PlaceOf(p) <= PlaceOf(q) <=> a < b \/ (a = b /\ i <= j)
  BY <1>1, <1>3, <1>11
<1>14. PlaceOf(p) = PlaceOf(q) => a = b /\ i = j
  BY <1>1, <1>3, <1>11
<1> QED
  BY <1>4, <1>6, <1>12, <1>13, <1>14

(* Rows have an order, and the last in it is the last row.                 *)
LEMMA OrderIs ==
  ASSUME NEW bs, OfBooks(bs), NEW ps \in SUBSET InBooks(bs)
  PROVE  LET o == InOrder(ps)
             n == Cardinality(ps)
         IN /\ n \in Nat /\ o \in [1 .. n -> ps]
            /\ n # 0 <=> ps # {}
            /\ n # 0 => \A q \in ps : UpTo(q, o[n])
<1> DEFINE N == {PlaceOf(p) : p \in ps}
           n == Cardinality(ps)
           o == InOrder(ps)
           IsOrder(s) == s \in SetToSeqs(ps) /\ \A i, j \in DOMAIN s : i < j => UpTo(s[i], s[j])
<1>1. /\ IsFiniteSet(ps) /\ n \in Nat /\ (n # 0 <=> ps # {})
      /\ \A p \in ps : PlaceOf(p) \in Nat \ {0}
      /\ \A p, q \in ps : UpTo(p, q) <=> PlaceOf(p) <= PlaceOf(q)
      /\ \A p, q \in ps : PlaceOf(p) = PlaceOf(q) => p = q
  <2>1. IsFiniteSet(ps)
    BY RowsOfBooks, FS_Subset
  <2> QED
    BY <2>1, PlacesInLine, FS_CardinalityType, FS_EmptySet
<1>2. N \in SUBSET (Nat \ {0}) /\ IsFiniteSet(N) /\ Cardinality(N) = n
  <2> DEFINE g == [p \in ps |-> PlaceOf(p)]
  <2>1. g \in Bijection(ps, N)
    BY <1>1 DEF Bijection, Injection, IsInjective, Surjection
  <2>2. ExistsBijection(ps, N)
    BY <2>1 DEF ExistsBijection
  <2> QED
    BY <1>1, <2>2, FS_Bijection
<1>3. \E s : IsOrder(s)
  <2> DEFINE At(i) == CHOOSE p \in ps : RankIn(N, PlaceOf(p)) = i
             s == [i \in 1 .. n |-> At(i)]
  <2>1. \A i \in 1 .. n : At(i) \in ps /\ RankIn(N, PlaceOf(At(i))) = i
    <3> TAKE i \in 1 .. n
    <3>1. \E k \in N : RankIn(N, k) = i
      <4> HIDE DEF N
      <4> QED
        BY <1>2, RanksFill
    <3>2. \E p \in ps : RankIn(N, PlaceOf(p)) = i
      BY <3>1
    <3> QED
      BY <3>2
  <2>2. \A i, j \in 1 .. n : i < j => UpTo(At(i), At(j))
    <3> SUFFICES ASSUME NEW i \in 1 .. n, NEW j \in 1 .. n, i < j, ~ UpTo(At(i), At(j))
                 PROVE  FALSE
      OBVIOUS
    <3> DEFINE x == PlaceOf(At(i))
               y == PlaceOf(At(j))
    <3>1. x \in N /\ y \in N
      BY <2>1
    <3>2. x \in Nat /\ y \in Nat
      BY <1>2, <3>1
    <3>3. RankIn(N, x) = i /\ RankIn(N, y) = j
      BY <2>1
    <3>4. ~ x <= y
      BY <1>1, <2>1
    <3> HIDE DEF x, y, At, N
    <3>5. y < x
      BY <3>2, <3>4
    <3>6. RankIn(N, y) < RankIn(N, x)
      BY <1>2, <3>1, <3>5, RankGrows
    <3> QED
      BY <1>1, <3>3, <3>6
  <2>3. \A i, j \in 1 .. n : i # j => At(i) # At(j)
    BY <2>1
  <2> HIDE DEF At
  <2>4. s \in [1 .. n -> ps] /\ \A i, j \in 1 .. n : i # j => s[i] # s[j]
    BY <2>1, <2>3
  <2>5. IsOrder(s)
    BY <2>2, <2>4 DEF SetToSeqs
  <2> QED
    BY <2>5
<1>4. IsOrder(o)
  BY <1>3 DEF InOrder
<1>5. /\ o \in [1 .. n -> ps]
      /\ \A i, j \in 1 .. n : i # j => o[i] # o[j]
      /\ \A i, j \in 1 .. n : i < j => UpTo(o[i], o[j])
  BY <1>4 DEF SetToSeqs
<1>6. ASSUME n # 0, NEW q \in ps
      PROVE  UpTo(q, o[n])
  <2>1. o \in Surjection(1 .. n, ps)
    <3>1. o \in Injection(1 .. n, ps)
      BY <1>5 DEF Injection, IsInjective
    <3>2. Cardinality(1 .. n) = n
      <4>1. n \in Nat /\ n # 0
        BY <1>1, <1>6
      <4> HIDE DEF n
      <4> QED
        BY <4>1, FS_Interval
    <3> HIDE DEF o
    <3> QED
      BY <1>1, <3>1, <3>2, FS_Injection
  <2>2. PICK i \in 1 .. n : o[i] = q
    BY <2>1 DEF Surjection
  <2>3. n \in 1 .. n /\ (i = n \/ i < n)
    BY <1>1, <1>6
  <2>4. CASE i < n
    BY <1>5, <2>2, <2>3, <2>4
  <2>5. CASE i = n
    <3>1. PlaceOf(q) \in Nat
      BY <1>1
    <3>2. UpTo(q, q)
      BY <1>1, <3>1
    <3> QED
      BY <2>2, <2>5, <3>2
  <2> QED
    BY <2>3, <2>4, <2>5
<1> HIDE DEF o, n
<1> QED
  BY <1>1, <1>5, <1>6 DEF o, n

(* A set can be put in a sequence.                                         *)
LEMMA SequenceIs ==
  ASSUME NEW S, IsFiniteSet(S)
  PROVE  /\ Cardinality(S) \in Nat
         /\ SetToSeq(S) \in [1 .. Cardinality(S) -> S]
<1> DEFINE n == Cardinality(S)
<1>1. n \in Nat
  BY FS_CardinalityType
<1>2. PICK m \in Nat : ExistsBijection(1 .. m, S)
  BY FS_NatBijection
<1>3. m = n
  BY <1>2, FS_CountingElements
<1>4. \E f \in [1 .. n -> S] : IsInjective(f)
  BY <1>2, <1>3 DEF ExistsBijection, Bijection, Injection
<1> QED
  BY <1>1, <1>4 DEF SetToSeq

(* The transactions of a day are finitely many.                            *)
LEMMA DayIsFinite ==
  ASSUME NEW d, NEW S \in SUBSET Identities, \A t \in S : t.day = d
  PROVE  IsFiniteSet(S)
<1> DEFINE X == Bookings \X (1 .. MaxBooked)
           T(x) == [day |-> d, booking |-> x[1], k |-> x[2]]
           A == {x \in X : T(x) \in S}
           g == [x \in A |-> T(x)]
<1>1. IsFiniteSet(X)
  <2>1. 1 \in Int /\ MaxBooked \in Int
    BY BoundsAssumption
  <2>2. IsFiniteSet(Bookings) /\ IsFiniteSet(1 .. MaxBooked)
    BY <2>1, AmountsAssumption, FS_Interval
  <2> HIDE DEF X
  <2>3. IsFiniteSet(Bookings \X (1 .. MaxBooked))
    BY <2>2, FS_Product
  <2> QED
    BY <2>3 DEF X
<1>2. IsFiniteSet(A)
  <2> HIDE DEF X, T
  <2> QED
    BY <1>1, FS_Subset
<1>3. ASSUME NEW t \in S
      PROVE  \E x \in A : g[x] = t
  <2> DEFINE x == <<t.booking, t.k>>
  <2>1. t \in [day: Days, booking: Bookings, k: 1 .. MaxBooked] /\ t.day = d
    BY DEF Identities
  <2>2. x \in X /\ T(x) = t
    BY <2>1
  <2> QED
    BY <2>2
<1>4. g \in Surjection(A, S)
  BY <1>3 DEF Surjection
<1> HIDE DEF A, g
<1> QED
  BY <1>2, <1>4, FS_Surjection

-----------------------------------------------------------------------------
(* The transactions of a day.                                              *)

HistoryInv == TypeInv /\ SourcesInv

Entries == [day: Days, amount: Int, balance: Int \cup {None}]

LEMMA SelectedIsCounted ==
  ASSUME HistoryInv, NEW d \in DOMAIN selected
  PROVE  /\ d \in Days /\ d \in Evidenced
         /\ OfBooks(selected[d].export.books) /\ ShowsBooks(selected[d].export)
<1>1. d \in Days /\ Covers(selected[d].export, d)
  BY DEF HistoryInv, TypeInv, TypeOK
<1>2. PICK j \in Accepted : selected[d].export = Export(j)
  BY DEF HistoryInv, SourcesInv, SelectedAreTaken
<1>3. Export(j) \in Counted
  BY <1>2 DEF Counted, Accepted, Export
<1>4. OfBooks(Export(j).books) /\ ShowsBooks(Export(j))
  BY <1>2 DEF HistoryInv, SourcesInv, AcceptedAreBooks, AcceptedShowBooks
<1> QED
  BY <1>1, <1>2, <1>3, <1>4 DEF Evidenced

(* A row's figures are an entry's.                                         *)
LEMMA RowIsEntry ==
  ASSUME NEW e, OfBooks(e.books), ShowsBooks(e), NEW p \in Places(e), NEW d \in Days
  PROVE  /\ Valued(d, e.rows[p]) \in Entries
         /\ Valued(d, e.rows[p]).day = d
         /\ Valued(d, e.rows[p]).balance = Stated(e, p)
<1> DEFINE bs == e.books
           a == BookingOf(e, p).amount
           b == Stated(e, p)
<1>1. p \in InBooks(bs) /\ b \in {None, BalanceAt(bs, p)} /\ BookingOf(e, p) \in Bookings
  BY DEF ShowsBooks, OfRows
<1>2. BalanceAt(bs, p) \in Int
  <2>1. IsFiniteSet({q \in InBooks(bs) : UpTo(q, p)})
    BY RowsOfBooks, FS_Subset
  <2>2. \A q \in {r \in InBooks(bs) : UpTo(r, p)} : Amounts(bs)[q] \in Int
    BY RowsOfBooks
  <2> QED
    BY <2>1, <2>2, SumIsInteger DEF BalanceAt
<1>3. a \in Int
  BY <1>1, AmountsAssumption
<1>4. Valued(d, e.rows[p]) = [day |-> d, amount |-> a, balance |-> b]
  BY DEF Valued, BookingOf, Stated
<1> HIDE DEF a, b
<1> QED
  BY <1>1, <1>2, <1>3, <1>4 DEF Entries, b

(* The row that shows a kept transaction has figures.                      *)
LEMMA LatestIsEntry ==
  ASSUME HistoryInv, EachHasARow, NEW t \in Kept, NEW d \in Days
  PROVE  /\ Valued(d, LatestRow(t)) \in Entries
         /\ Valued(d, LatestRow(t)).day = d
<1> DEFINE J == {j \in DOMAIN taken :
                   taken[j].status = "accepted"
                   /\ \E p \in Places(taken[j].export) : Shows(taken[j], p) = t}
           i == Max(J)
           p == CHOOSE q \in Places(taken[i].export) : Shows(taken[i], q) = t
<1>1. J # {}
  BY DEF EachHasARow
<1>2. J \in SUBSET Int /\ IsFiniteSet(J)
  <2>1. Len(taken) \in Nat /\ DOMAIN taken = 1 .. Len(taken)
    BY DEF HistoryInv, TypeInv, TakenIsSeq
  <2>2. IsFiniteSet(1 .. Len(taken))
    BY <2>1, FS_Interval
  <2>3. J \in SUBSET (1 .. Len(taken)) /\ J \in SUBSET Int
    BY <2>1
  <2> HIDE DEF J
  <2> QED
    BY <2>2, <2>3, FS_Subset
<1>3. i \in J
  <2> HIDE DEF J
  <2> QED
    BY <1>1, <1>2, MaxIsGreatest
<1>4. p \in Places(taken[i].export) /\ i \in Accepted /\ taken[i].export = Export(i)
  <2> HIDE DEF i
  <2> QED
    BY <1>3 DEF Accepted, Export
<1>5. LatestRow(t) = taken[i].export.rows[p]
  BY DEF LatestRow
<1> HIDE DEF i, p
<1>6. OfBooks(Export(i).books) /\ ShowsBooks(Export(i))
  BY <1>4 DEF HistoryInv, SourcesInv, AcceptedAreBooks, AcceptedShowBooks
<1> QED
  BY <1>4, <1>5, <1>6, RowIsEntry

(* The last row the bank had on a day states its balance, or none.         *)
LEMMA LastStates ==
  ASSUME NEW e, OfBooks(e.books), ShowsBooks(e), NEW d \in Days, NEW l \in Places(e), l[1] = d,
         \A q \in InBooks(e.books) : q[1] = d => UpTo(q, l),
         Stated(e, l) # None
  PROVE  Stated(e, l) = BalanceOn(e.books, d)
<1> DEFINE bs == e.books
<1>1. l \in InBooks(bs) /\ Stated(e, l) = BalanceAt(bs, l)
  BY DEF ShowsBooks
<1>2. \A q \in InBooks(bs) : UpTo(q, l) <=> q[1] <= d
  <2> TAKE q \in InBooks(bs)
  <2>1. d \in Nat /\ q[1] \in Nat
    BY <1>1, RowsOfBooks, BoundsAssumption DEF Days
  <2> QED
    BY <2>1 DEF UpTo
<1>3. {q \in InBooks(bs) : UpTo(q, l)} = {q \in InBooks(bs) : q[1] <= d}
  BY <1>2
<1> QED
  BY <1>1, <1>3 DEF BalanceAt, BalanceOn

(* An entry is the bank's latest figure on its day.                        *)
EndsAtBank(x) ==
  x.balance # None /\ IsWhole(x.day) =>
    x.balance = BalanceOn(selected[x.day].export.books, x.day)

(* Transactions of days up to one, in order, of days that have an export,  *)
(* up to the bank's balance after the last day.                            *)
UpToDay(s, d) ==
  /\ s \in Seq(Entries)
  /\ \A i \in 1 .. Len(s) : s[i].day \in DOMAIN selected /\ s[i].day <= d
  /\ \A i, j \in 1 .. Len(s) : i <= j => s[i].day <= s[j].day
  /\ Len(s) # 0 => EndsAtBank(s[Len(s)])

LEMMA DayIsKept ==
  ASSUME HistoryInv, EachHasARow, NEW d \in Days
  PROVE  UpToDay(KeptOn(d), d) /\ \A i \in 1 .. Len(KeptOn(d)) : KeptOn(d)[i].day = d
<1>1. CASE d \notin DOMAIN selected
  <2>1. KeptOn(d) = <<>>
    BY <1>1 DEF KeptOn
  <2>2. <<>> \in Seq(Entries) /\ Len(<<>>) = 0
    BY EmptySeq
  <2> QED
    BY <2>1, <2>2 DEF UpToDay
<1>2. CASE d \in DOMAIN selected
  <2> DEFINE run == selected[d]
             e == run.export
             kept == {t \in Kept : t.day = d}
             ps == {p \in Places(e) : Shows(run, p) \in Kept /\ Shows(run, p).day = d}
             unshown == kept \ {Shows(run, p) : p \in ps}
             n == Cardinality(ps)
             o == InOrder(ps)
             m == Cardinality(unshown)
             a == SetToSeq(unshown)
             s == [i \in 1 .. n |-> Valued(d, e.rows[o[i]])]
             u == [i \in 1 .. m |-> Valued(d, LatestRow(a[i]))]
  <2>1. OfBooks(e.books) /\ ShowsBooks(e)
    BY <1>2, SelectedIsCounted
  <2>2. /\ n \in Nat /\ o \in [1 .. n -> ps]
        /\ n # 0 => \A q \in ps : UpTo(q, o[n])
    <3>1. ps \in SUBSET InBooks(e.books)
      BY <2>1 DEF ShowsBooks
    <3> HIDE DEF ps, e
    <3> QED
      BY <2>1, <3>1, OrderIs
  <2>3. m \in Nat /\ a \in [1 .. m -> unshown]
    <3>1. unshown \in SUBSET Identities /\ \A t \in unshown : t.day = d
      BY DEF Kept
    <3> HIDE DEF unshown
    <3>2. IsFiniteSet(unshown)
      BY <3>1, DayIsFinite
    <3> QED
      BY <3>2, SequenceIs
  <2>4. \A i \in 1 .. n : /\ o[i] \in Places(e) /\ s[i] \in Entries /\ s[i].day = d
                          /\ s[i].balance = Stated(e, o[i])
    <3> TAKE i \in 1 .. n
    <3>1. o[i] \in ps
      BY <2>2
    <3>2. o[i] \in Places(e) /\ s[i] = Valued(d, e.rows[o[i]])
      BY <3>1
    <3> HIDE DEF s, o, e
    <3> QED
      BY <2>1, <3>2, RowIsEntry
  <2>5. \A i \in 1 .. m : u[i] \in Entries /\ u[i].day = d
    <3> TAKE i \in 1 .. m
    <3>1. a[i] \in unshown
      BY <2>3
    <3>2. a[i] \in Kept /\ u[i] = Valued(d, LatestRow(a[i]))
      BY <3>1
    <3> HIDE DEF u, a
    <3> QED
      BY <3>2, LatestIsEntry
  <2>6. /\ s \in Seq(Entries) /\ Len(s) = n /\ u \in Seq(Entries) /\ Len(u) = m
    <3> HIDE DEF n, m
    <3>1. s \in [1 .. n -> Entries] /\ u \in [1 .. m -> Entries]
      BY <2>4, <2>5
    <3> HIDE DEF s, u
    <3> QED
      BY <2>2, <2>3, <3>1
  <2>7. KeptOn(d) = s \o u
    <3> DEFINE v(i) == Valued(d, e.rows[o[i]])
               w(i) == Valued(d, LatestRow(a[i]))
    <3>1. DOMAIN o = 1 .. n /\ DOMAIN a = 1 .. m
      BY <2>2, <2>3
    <3>2. KeptOn(d) = [i \in DOMAIN o |-> v(i)] \o [i \in DOMAIN a |-> w(i)]
      BY <1>2, Zenon DEF KeptOn
    <3>3. s = [i \in 1 .. n |-> v(i)] /\ u = [i \in 1 .. m |-> w(i)]
      OBVIOUS
    <3> HIDE DEF s, u, v, w, o, a, n, m
    <3> QED
      BY <3>1, <3>2, <3>3
  <2>8. ASSUME IsWhole(d)
        PROVE  m = 0 /\ (n # 0 => EndsAtBank(s[n]))
    <3> DEFINE day == {p \in Places(e) : p[1] = d}
    <3>1. /\ day = {p \in InBooks(e.books) : p[1] = d}
          /\ {Shows(run, p) : p \in day} = kept
      BY <2>8 DEF IsWhole
    <3>2. ps = day
      <4>1. \A p \in day : p \in ps
        BY <3>1
      <4>2. ASSUME NEW p \in ps
            PROVE  p \in day
        <5>1. Shows(run, p) \in kept
          OBVIOUS
        <5>2. PICK q \in day : Shows(run, q) = Shows(run, p)
          BY <3>1, <5>1
        <5>3. q = p
          BY <1>2, <5>2 DEF HistoryInv, SourcesInv, SelectedAreTaken
        <5> QED
          BY <5>2, <5>3
      <4> QED
        BY <4>1, <4>2
    <3>3. unshown = {}
      BY <3>1, <3>2
    <3>4. m = 0
      BY <3>3, FS_EmptySet
    <3>5. ASSUME n # 0
          PROVE  EndsAtBank(s[n])
      <4>1. n \in 1 .. n
        BY <2>2, <3>5
      <4>2. /\ o[n] \in Places(e) /\ o[n] \in ps /\ o[n][1] = d
        BY <2>2, <3>2, <4>1
      <4>3. \A q \in InBooks(e.books) : q[1] = d => UpTo(q, o[n])
        BY <2>2, <3>1, <3>2, <3>5
      <4>4. s[n].day = d /\ s[n].balance = Stated(e, o[n])
        BY <2>4, <4>1
      <4> HIDE DEF s, o, n, ps
      <4>5. Stated(e, o[n]) # None => Stated(e, o[n]) = BalanceOn(e.books, d)
        BY <2>1, <4>2, <4>3, LastStates
      <4> QED
        BY <4>4, <4>5 DEF EndsAtBank
    <3> QED
      BY <3>4, <3>5
  <2> HIDE DEF s, u, n, m
  <2> DEFINE r == s \o u
  <2>9. /\ r \in Seq(Entries) /\ Len(r) = n + m
        /\ \A i \in 1 .. n + m : r[i] = IF i <= n THEN s[i] ELSE u[i - n]
    BY <2>6, ConcatProperties
  <2> HIDE DEF r
  <2>10. \A i \in 1 .. n + m : r[i].day = d
    <3> TAKE i \in 1 .. n + m
    <3>1. CASE i <= n
      <4>1. i \in 1 .. n
        BY <2>2, <3>1
      <4> QED
        BY <2>4, <2>9, <3>1, <4>1
    <3>2. CASE ~ i <= n
      <4>1. i - n \in 1 .. m
        BY <2>2, <2>3, <3>2
      <4> QED
        BY <2>5, <2>9, <3>2, <4>1
    <3> QED
      BY <3>1, <3>2
  <2>11. Len(r) # 0 => EndsAtBank(r[Len(r)])
    <3> SUFFICES ASSUME Len(r) # 0, IsWhole(d)
                 PROVE  EndsAtBank(r[Len(r)])
      <4>1. Len(r) # 0 => Len(r) \in 1 .. n + m
        BY <2>2, <2>3, <2>9
      <4> QED
        BY <2>10, <4>1 DEF EndsAtBank
    <3>1. m = 0 /\ n # 0 /\ Len(r) = n /\ n \in 1 .. n + m /\ n <= n
      BY <2>2, <2>8, <2>9
    <3>2. r[n] = s[n]
      BY <2>9, <3>1
    <3> QED
      BY <2>8, <3>1, <3>2
  <2>12. d \in Int
    BY BoundsAssumption DEF Days
  <2>13. r = KeptOn(d)
    BY <2>7 DEF r
  <2>14. UpToDay(r, d)
    BY <1>2, <2>9, <2>10, <2>11, <2>12 DEF UpToDay
  <2> QED
    BY <2>9, <2>10, <2>13, <2>14
<1> QED
  BY <1>1, <1>2

(* What FlattenSeq joins, one sequence after another.                      *)
Flattens(f, s, n) == f = [i \in 1 .. n |-> IF i = 1 THEN s[i] ELSE f[i - 1] \o s[i]]

LEMMA FlattensExist ==
  ASSUME NEW s, NEW n \in Nat
  PROVE  \E f : Flattens(f, s, n)
<1> DEFINE Bad == {k \in Nat : ~ \E f : Flattens(f, s, k)}
<1>1. Bad = {}
  <2> SUFFICES ASSUME Bad # {}
               PROVE  FALSE
    OBVIOUS
  <2>1. PICK k \in Bad : \A j \in Bad : k <= j
    <3>1. Bad \in SUBSET Nat
      OBVIOUS
    <3> HIDE DEF Bad
    <3> QED
      BY <3>1, HasLeast
  <2>2. k \in Nat /\ ~ \E f : Flattens(f, s, k)
    OBVIOUS
  <2>3. CASE k = 0
    <3> DEFINE g == [i \in 1 .. 0 |-> s[i]]
    <3>1. g = [i \in 1 .. 0 |-> IF i = 1 THEN s[i] ELSE g[i - 1] \o s[i]]
      OBVIOUS
    <3> HIDE DEF g
    <3> QED
      BY <2>2, <2>3, <3>1 DEF Flattens
  <2>4. CASE k # 0
    <3>1. k - 1 \in Nat /\ k - 1 \notin Bad
      BY <2>1, <2>2, <2>4
    <3>2. PICK f : Flattens(f, s, k - 1)
      BY <3>1
    <3> DEFINE g == [i \in 1 .. k |-> IF i < k THEN f[i] ELSE IF k = 1 THEN s[k] ELSE f[k - 1] \o s[k]]
    <3>3. \A i \in 1 .. k - 1 : f[i] = IF i = 1 THEN s[i] ELSE f[i - 1] \o s[i]
      BY <3>2 DEF Flattens
    <3>4. \A i \in 1 .. k : g[i] = IF i = 1 THEN s[i] ELSE g[i - 1] \o s[i]
      <4> TAKE i \in 1 .. k
      <4>1. CASE i < k
        <5>1. i \in 1 .. k - 1 /\ g[i] = f[i] /\ (i # 1 => i - 1 \in 1 .. k /\ i - 1 < k)
          BY <2>2, <4>1
        <5>2. i # 1 => g[i - 1] = f[i - 1]
          BY <5>1
        <5> HIDE DEF g
        <5> QED
          BY <3>3, <5>1, <5>2
      <4>2. CASE i = k
        <5>1. i # 1 => i - 1 \in 1 .. k /\ i - 1 < k
          BY <2>2, <4>2
        <5>2. i # 1 => g[i - 1] = f[i - 1]
          BY <5>1
        <5>3. g[i] = IF k = 1 THEN s[k] ELSE f[k - 1] \o s[k]
          BY <2>2, <4>2
        <5> HIDE DEF g
        <5> QED
          BY <4>2, <5>2, <5>3
      <4> QED
        BY <2>2, <4>1, <4>2
    <3>5. g = [i \in 1 .. k |-> g[i]]
      OBVIOUS
    <3> HIDE DEF g
    <3>6. g = [i \in 1 .. k |-> IF i = 1 THEN s[i] ELSE g[i - 1] \o s[i]]
      BY <3>4, <3>5
    <3> QED
      BY <2>2, <3>6 DEF Flattens
  <2> QED
    BY <2>3, <2>4
<1> QED
  BY <1>1

LEMMA FlattenIs ==
  ASSUME NEW s, Len(s) \in Nat, Len(s) # 0
  PROVE  \E f : Flattens(f, s, Len(s)) /\ FlattenSeq(s) = f[Len(s)]
<1> DEFINE f == CHOOSE f : Flattens(f, s, Len(s))
<1>1. Flattens(f, s, Len(s))
  BY FlattensExist
<1>2. FlattenSeq(s) = f[Len(s)]
  BY DEF FlattenSeq, Flattens
<1> QED
  BY <1>1, <1>2

(* A day more.                                                             *)
LEMMA DayJoins ==
  ASSUME NEW s, NEW t, NEW c \in Int, NEW d \in Int, c < d, UpToDay(s, c), UpToDay(t, d),
         \A i \in 1 .. Len(t) : t[i].day = d
  PROVE  UpToDay(s \o t, d)
<1> DEFINE r == s \o t
<1>1. s \in Seq(Entries) /\ t \in Seq(Entries) /\ Len(s) \in Nat /\ Len(t) \in Nat
  BY LenProperties DEF UpToDay
<1>2. /\ r \in Seq(Entries) /\ Len(r) = Len(s) + Len(t)
      /\ \A i \in 1 .. Len(s) + Len(t) : r[i] = IF i <= Len(s) THEN s[i] ELSE t[i - Len(s)]
  BY <1>1, ConcatProperties
<1> HIDE DEF r
<1>3. \A i \in 1 .. Len(r) :
        \/ /\ i \in 1 .. Len(s) /\ r[i] = s[i] /\ s[i].day <= c
           /\ s[i].day \in DOMAIN selected /\ s[i].day \in Int
        \/ /\ i > Len(s) /\ i - Len(s) \in 1 .. Len(t) /\ r[i] = t[i - Len(s)] /\ r[i].day = d
           /\ r[i].day \in DOMAIN selected
  <2> TAKE i \in 1 .. Len(r)
  <2>1. i \in 1 .. Len(s) + Len(t) /\ i \in Nat
    BY <1>1, <1>2
  <2>2. CASE i <= Len(s)
    <3>1. i \in 1 .. Len(s) /\ r[i] = s[i]
      BY <1>1, <1>2, <2>1, <2>2
    <3>2. s[i] \in Entries
      BY <1>1, <3>1, ElementOfSeq
    <3>3. s[i].day \in Int
      BY <3>2, BoundsAssumption DEF Entries, Days
    <3> QED
      BY <3>1, <3>3 DEF UpToDay
  <2>3. CASE ~ i <= Len(s)
    <3>1. i - Len(s) \in 1 .. Len(t) /\ r[i] = t[i - Len(s)]
      BY <1>1, <1>2, <2>1, <2>3
    <3> QED
      BY <1>1, <2>1, <2>3, <3>1 DEF UpToDay
  <2> QED
    BY <2>2, <2>3
<1>4. \A i \in 1 .. Len(r) : r[i].day \in DOMAIN selected /\ r[i].day <= d
  BY <1>3
<1>5. ASSUME NEW i \in 1 .. Len(r), NEW j \in 1 .. Len(r), i <= j
      PROVE  r[i].day <= r[j].day
  <2>1. CASE i > Len(s)
    <3>1. i \notin 1 .. Len(s) /\ j \notin 1 .. Len(s)
      BY <1>1, <1>2, <1>5, <2>1
    <3>2. r[i].day = d /\ r[j].day = d
      BY <1>3, <3>1
    <3> QED
      BY <3>2
  <2>2. CASE ~ i > Len(s)
    <3>1. i \in 1 .. Len(s) /\ r[i] = s[i] /\ s[i].day \in Int /\ s[i].day <= c
      BY <1>3, <2>2
    <3>2. CASE j > Len(s)
      <4>1. j \notin 1 .. Len(s)
        BY <1>1, <3>2
      <4>2. r[j].day = d
        BY <1>3, <4>1
      <4> QED
        BY <3>1, <4>2
    <3>3. CASE ~ j > Len(s)
      <4>1. j \in 1 .. Len(s) /\ r[j] = s[j]
        BY <1>3, <3>3
      <4> QED
        BY <1>5, <3>1, <4>1 DEF UpToDay
    <3> QED
      BY <3>2, <3>3
  <2> QED
    BY <2>1, <2>2
<1>6. Len(r) # 0 => EndsAtBank(r[Len(r)])
  <2>1. CASE Len(t) = 0
    <3>1. Len(r) = Len(s) /\ (Len(r) # 0 => Len(r) \in 1 .. Len(s) + Len(t))
      BY <1>1, <1>2, <2>1
    <3>2. Len(r) # 0 => r[Len(r)] = s[Len(s)]
      BY <1>1, <1>2, <3>1
    <3> QED
      BY <3>1, <3>2 DEF UpToDay
  <2>2. CASE Len(t) # 0
    <3>1. /\ Len(r) \in 1 .. Len(s) + Len(t) /\ ~ Len(r) <= Len(s) /\ Len(r) - Len(s) = Len(t)
      BY <1>1, <1>2, <2>2
    <3>2. r[Len(r)] = t[Len(t)]
      BY <1>2, <3>1
    <3> QED
      BY <2>2, <3>2 DEF UpToDay
  <2> QED
    BY <2>1, <2>2
<1> QED
  BY <1>2, <1>4, <1>5, <1>6 DEF UpToDay, r

LEMMA HistoryIs ==
  ASSUME HistoryInv, EachHasARow
  PROVE  UpToDay(History, MaxDay)
<1> DEFINE s == [d \in Days |-> KeptOn(d)]
<1>1. MaxDay \in Nat /\ MaxDay > 0 /\ Days = 1 .. MaxDay
  BY BoundsAssumption DEF Days
<1>2. Len(s) = MaxDay
  <2> DEFINE X == {KeptOn(d) : d \in Days}
  <2>1. s \in [1 .. MaxDay -> X]
    BY <1>1
  <2> HIDE DEF s, X
  <2> QED
    BY <1>1, <2>1
<1>3. PICK f : Flattens(f, s, MaxDay) /\ History = f[MaxDay]
  <2>1. History = FlattenSeq(s)
    BY DEF History
  <2> HIDE DEF s
  <2> QED
    BY <1>1, <1>2, <2>1, FlattenIs
<1>4. \A d \in Days : f[d] = IF d = 1 THEN KeptOn(1) ELSE f[d - 1] \o KeptOn(d)
  BY <1>1, <1>3 DEF Flattens
<1> HIDE DEF s
<1> DEFINE Bad == {d \in Nat : d \in Days /\ ~ UpToDay(f[d], d)}
<1>5. Bad = {}
  <2> SUFFICES ASSUME Bad # {}
               PROVE  FALSE
    OBVIOUS
  <2>1. PICK d \in Bad : \A c \in Bad : d <= c
    <3>1. Bad \in SUBSET Nat
      OBVIOUS
    <3> HIDE DEF Bad
    <3> QED
      BY <3>1, HasLeast
  <2>2. d \in Nat /\ d \in Days /\ ~ UpToDay(f[d], d)
    OBVIOUS
  <2>3. UpToDay(KeptOn(d), d) /\ \A i \in 1 .. Len(KeptOn(d)) : KeptOn(d)[i].day = d
    BY <2>2, DayIsKept
  <2>4. CASE d = 1
    BY <1>4, <2>2, <2>3, <2>4
  <2>5. CASE d # 1
    <3>1. d - 1 \in Nat /\ d - 1 \in Days /\ d - 1 < d
      BY <1>1, <2>2, <2>5
    <3>2. UpToDay(f[d - 1], d - 1)
      BY <2>1, <3>1
    <3>3. f[d] = f[d - 1] \o KeptOn(d)
      BY <1>4, <2>2, <2>5
    <3> QED
      BY <2>2, <2>3, <3>1, <3>2, <3>3, DayJoins
  <2> QED
    BY <2>4, <2>5
<1>6. MaxDay \in Days
  BY <1>1
<1> QED
  BY <1>1, <1>3, <1>5, <1>6

-----------------------------------------------------------------------------
(* The figures of the months.                                              *)

LEMMA EntriesAre ==
  ASSUME NEW h, UpToDay(h, MaxDay)
  PROVE  /\ Len(h) \in Nat /\ DOMAIN h = 1 .. Len(h) /\ (h = <<>> <=> Len(h) = 0)
         /\ \A i \in 1 .. Len(h) : /\ h[i].day \in Days /\ h[i].day \in Int
                                   /\ h[i].amount \in Int
                                   /\ h[i].balance # None => h[i].balance \in Int
         /\ \A i, j \in 1 .. Len(h) : i <= j => h[i].day <= h[j].day
<1>1. h \in Seq(Entries)
  BY DEF UpToDay
<1>2. Len(h) \in Nat /\ DOMAIN h = 1 .. Len(h) /\ (h = <<>> <=> Len(h) = 0)
  BY <1>1, LenProperties, EmptySeq
<1>3. \A i \in 1 .. Len(h) : h[i] \in Entries
  BY <1>1, ElementOfSeq
<1>4. \A x \in Entries : /\ x.day \in Days /\ x.day \in Int /\ x.amount \in Int
                         /\ x.balance # None => x.balance \in Int
  BY AmountsAssumption, BoundsAssumption DEF Entries, Days
<1> QED
  BY <1>2, <1>3, <1>4 DEF UpToDay

(* The transactions up to a day are the first ones.                        *)
LEMMA FirstOnes ==
  ASSUME NEW h, UpToDay(h, MaxDay), NEW x \in Int,
         NEW S, S \subseteq 1 .. Len(h), S # {},
         \A i \in 1 .. Len(h) : i \in S <=> h[i].day <= x
  PROVE  Max(S) \in 1 .. Len(h) /\ S = 1 .. Max(S)
<1>1. /\ Len(h) \in Nat /\ DOMAIN h = 1 .. Len(h)
      /\ \A i \in 1 .. Len(h) : h[i].day \in Int
      /\ \A i, j \in 1 .. Len(h) : i <= j => h[i].day <= h[j].day
  BY EntriesAre
<1>2. S \in SUBSET Int /\ S \in SUBSET (1 .. Len(h)) /\ IsFiniteSet(S)
  <2>1. 1 \in Int /\ Len(h) \in Int
    BY <1>1
  <2>2. IsFiniteSet(1 .. Len(h))
    BY <2>1, FS_Interval
  <2>3. IsFiniteSet(S)
    BY <2>2, FS_Subset
  <2>4. \A s \in S : s \in Int
    BY <1>1
  <2> QED
    BY <2>3, <2>4
<1>3. Max(S) \in S /\ \A s \in S : s <= Max(S)
  BY <1>2, MaxIsGreatest
<1>4. Max(S) \in 1 .. Len(h) /\ h[Max(S)].day <= x
  BY <1>2, <1>3
<1>5. \A i \in 1 .. Max(S) : i \in S
  <2> TAKE i \in 1 .. Max(S)
  <2>1. i \in 1 .. Len(h) /\ i <= Max(S)
    BY <1>1, <1>4
  <2>2. h[i].day <= h[Max(S)].day /\ h[i].day \in Int /\ h[Max(S)].day \in Int
    BY <1>1, <1>4, <2>1
  <2>3. h[i].day <= x
    BY <1>4, <2>2
  <2> QED
    BY <1>1, <2>1, <2>3
<1>6. \A i \in S : i \in 1 .. Max(S)
  BY <1>1, <1>2, <1>3, <1>4
<1> QED
  BY <1>4, <1>5, <1>6

LEMMA CompleteIs ==
  ASSUME NEW h, NEW m, Coverage(h, m) = "complete"
  PROVE  m # MonthOf(h[1].day) /\ ~ Broken(h, m)
<1> DEFINE days == FirstDay(m) .. LastDay(m)
           none == days \cap Evidenced = {}
           first == m = MonthOf(h[1].day)
           shown == days \subseteq Evidenced /\ ~ Broken(h, m)
<1>1. Coverage(h, m) = CASE none -> "no_data"
                         [] ~ none /\ first -> "partial"
                         [] OTHER -> IF shown THEN "complete" ELSE "partial"
  BY DEF Coverage
<1>2. Coverage(h, m) # "no_data" /\ Coverage(h, m) # "partial"
  OBVIOUS
<1> HIDE DEF none, first, shown
<1>3. ~ none
  BY <1>1, <1>2, Zenon
<1>4. ~ first
  BY <1>1, <1>2, <1>3, Zenon
<1>5. shown
  BY <1>1, <1>2, <1>3, <1>4, Zenon
<1> QED
  BY <1>4, <1>5 DEF first, shown

(* A link that touches an unbroken month is verified.                      *)
Verified(h, i) ==
  /\ h[i].balance \in Int /\ h[i + 1].balance \in Int
  /\ h[i + 1].balance = h[i].balance + h[i + 1].amount

LEMMA LinkHolds ==
  ASSUME NEW h, UpToDay(h, MaxDay), NEW m, ~ Broken(h, m),
         NEW i \in 1 .. Len(h) - 1, h[i].day <= LastDay(m), FirstDay(m) <= h[i + 1].day
  PROVE  Verified(h, i)
<1> DEFINE link == [starts |-> h[i].day, ends |-> h[i + 1].day,
                    verified |-> /\ None \notin {h[i].balance, h[i + 1].balance}
                                 /\ h[i + 1].balance = h[i].balance + h[i + 1].amount]
<1>1. link \in Links(h)
  BY DEF Links
<1>2. link.starts = h[i].day /\ link.ends = h[i + 1].day
  OBVIOUS
<1>3. link.verified
  <2> HIDE DEF link
  <2> QED
    BY <1>1, <1>2 DEF Broken
<1>4. link.verified = /\ None \notin {h[i].balance, h[i + 1].balance}
                      /\ h[i + 1].balance = h[i].balance + h[i + 1].amount
  OBVIOUS
<1>5. i \in 1 .. Len(h) /\ i + 1 \in 1 .. Len(h)
  BY EntriesAre
<1> HIDE DEF link
<1> QED
  BY <1>3, <1>4, <1>5, EntriesAre DEF Verified

(* And so is the last transaction's link, on without end.                  *)
LEMMA LastLinkHolds ==
  ASSUME NEW h, UpToDay(h, MaxDay), NEW m, ~ Broken(h, m), Len(h) # 0,
         h[Len(h)].day <= LastDay(m), FirstDay(m) <= MaxDay * MonthDays
  PROVE  h[Len(h)].balance \in Int
<1> DEFINE link == [starts |-> h[Len(h)].day, ends |-> MaxDay * MonthDays,
                    verified |-> h[Len(h)].balance # None]
<1>1. link \in Links(h)
  BY DEF Links
<1>2. link.starts = h[Len(h)].day /\ link.ends = MaxDay * MonthDays
  OBVIOUS
<1>3. link.verified
  <2> HIDE DEF link
  <2> QED
    BY <1>1, <1>2 DEF Broken
<1>4. link.verified = (h[Len(h)].balance # None)
  OBVIOUS
<1>5. Len(h) \in 1 .. Len(h)
  BY EntriesAre
<1> HIDE DEF link
<1> QED
  BY <1>3, <1>4, <1>5, EntriesAre

(* A month begins by the end of the days.                                  *)
LEMMA MonthBegins ==
  ASSUME NEW m \in Int, m <= MonthOf(MaxDay)
  PROVE  FirstDay(m) <= MaxDay * MonthDays
<1> DEFINE n == MonthOf(MaxDay)
           end == MaxDay * MonthDays
<1>1. MaxDay \in Days /\ MaxDay \in Nat
  BY BoundsAssumption DEF Days
<1>2. n \in Int /\ FirstDay(n) <= MaxDay
  BY <1>1, MonthBounds
<1>3. end \in Int /\ MaxDay <= end
  <2>1. MonthDays \in Nat /\ MonthDays - 1 \in Nat
    BY MonthAssumption
  <2>2. MaxDay * (MonthDays - 1) \in Nat
    BY <1>1, <2>1
  <2>3. MaxDay * MonthDays = MaxDay + MaxDay * (MonthDays - 1)
    BY <1>1, <2>1
  <2> QED
    BY <1>1, <2>2, <2>3
<1> HIDE DEF n, end
<1>4. FirstDay(m) \in Int /\ FirstDay(n) \in Int /\ LastDay(m) \in Int /\ FirstDay(m) <= LastDay(m)
  <2>1. FirstDay(m) <= LastDay(m)
    BY MonthAssumption DEF FirstDay, LastDay
  <2> QED
    BY <1>2, <2>1, BoundsAreIntegers
<1>5. m < n => LastDay(m) < FirstDay(n)
  BY <1>2, MonthsApart
<1>6. m = n \/ m < n
  BY <1>2 DEF n
<1>7. FirstDay(m) <= end
  BY <1>1, <1>2, <1>3, <1>4, <1>5, <1>6
<1> QED
  BY <1>7 DEF end

(* What a stretch of verified links comes to.                              *)
LEMMA LinksAddUp ==
  ASSUME NEW h, UpToDay(h, MaxDay),
         NEW f \in 1 .. Len(h), NEW l \in 1 .. Len(h), f <= l,
         h[f].balance \in Int,
         \A i \in f .. l - 1 : Verified(h, i)
  PROVE  h[l].balance \in Int /\ h[l].balance = h[f].balance + Booked(h, f + 1 .. l)
<1> DEFINE bal == [i \in 1 .. Len(h) |-> h[i].balance]
           amt == [i \in DOMAIN h |-> h[i].amount]
<1>1. /\ Len(h) \in Nat /\ DOMAIN h = 1 .. Len(h)
      /\ \A i \in 1 .. Len(h) : h[i].amount \in Int
  BY EntriesAre
<1>2. \A i \in f .. l : i \in 1 .. Len(h)
  BY <1>1
<1>3. \A i \in f .. l : bal[i] \in Int /\ bal[i] = h[i].balance
  <2> TAKE i \in f .. l
  <2>1. bal[i] = h[i].balance
    BY <1>2
  <2>2. i = f \/ (i - 1 \in f .. l - 1 /\ (i - 1) + 1 = i)
    BY <1>1
  <2> HIDE DEF bal
  <2> QED
    BY <2>1, <2>2 DEF Verified
<1>4. \A i \in f + 1 .. l : amt[i] = h[i].amount /\ amt[i] \in Int /\ i \in f .. l /\ i - 1 \in f .. l - 1
                            /\ i - 1 \in f .. l
  BY <1>1, <1>2
<1>5. \A i \in f + 1 .. l : bal[i] = bal[i - 1] + amt[i]
  <2> TAKE i \in f + 1 .. l
  <2>1. h[(i - 1) + 1].balance = h[i - 1].balance + h[(i - 1) + 1].amount
    BY <1>4 DEF Verified
  <2>2. (i - 1) + 1 = i
    OBVIOUS
  <2>3. h[i].balance = h[i - 1].balance + h[i].amount
    BY <2>1, <2>2
  <2> HIDE DEF bal, amt
  <2> QED
    BY <1>3, <1>4, <2>3
<1>6. f \in Nat /\ l \in Nat /\ f \in f .. l /\ l \in f .. l
  BY <1>1
<1>7. bal[l] = bal[f] + SumFunctionOnSet(amt, f + 1 .. l)
  <2> HIDE DEF bal, amt
  <2>1. \A i \in f .. l : bal[i] \in Int
    BY <1>3
  <2>2. \A i \in f + 1 .. l : amt[i] \in Int /\ bal[i] = bal[i - 1] + amt[i]
    BY <1>4, <1>5
  <2>3. Follow(f, l, bal, amt)
    BY <2>1, <2>2 DEF Follow
  <2> QED
    BY <1>6, <2>3, Telescope
<1>8. bal[l] = h[l].balance /\ bal[f] = h[f].balance
  BY <1>6, <1>3
<1> QED
  BY <1>3, <1>6, <1>7, <1>8 DEF Booked

(* The transactions of a complete month lie between two places.            *)
LEMMA MonthLies ==
  ASSUME NEW h, UpToDay(h, MaxDay), NEW m \in Managed(h), Coverage(h, m) = "complete",
         NEW f, f = Max(Before(h, m))
  PROVE  /\ Before(h, m) # {} /\ f \in 1 .. Len(h)
         /\ \A i \in 1 .. Len(h) : i <= f <=> h[i].day < FirstDay(m)
         /\ \E l \in 1 .. Len(h) : /\ f <= l /\ Inside(h, m) = f + 1 .. l
                                   /\ \A i \in 1 .. Len(h) : i <= l <=> h[i].day <= LastDay(m)
<1>1. /\ Len(h) \in Nat /\ DOMAIN h = 1 .. Len(h) /\ (h = <<>> <=> Len(h) = 0)
      /\ \A i \in 1 .. Len(h) : h[i].day \in Days /\ h[i].day \in Int
  BY EntriesAre
<1>2. h # <<>> /\ MonthOf(h[1].day) <= m /\ m \in Int
  <2>1. h # <<>>
    BY DEF Managed
  <2>2. MonthOf(MaxDay) \in Nat
    BY MonthBounds, BoundsAssumption DEF Days
  <2> QED
    BY <2>1, <2>2 DEF Managed
<1>3. 1 \in 1 .. Len(h) /\ h[1].day < FirstDay(m)
  <2>1. 1 \in 1 .. Len(h) /\ h[1].day \in Days
    BY <1>1, <1>2
  <2>2. MonthOf(h[1].day) < m
    BY <1>2, <2>1, CompleteIs, MonthBounds
  <2> QED
    BY <1>2, <2>1, <2>2, MonthIs
<1>4. FirstDay(m) \in Int /\ LastDay(m) \in Int /\ FirstDay(m) <= LastDay(m)
  BY <1>2, MonthAssumption, BoundsAreIntegers DEF FirstDay, LastDay
<1> DEFINE B == Before(h, m)
           x == FirstDay(m) - 1
           T == {i \in DOMAIN h : h[i].day <= LastDay(m)}
           l == Max(T)
<1>5. B = {i \in DOMAIN h : h[i].day <= x} /\ 1 \in B /\ 1 \in T /\ x \in Int
  BY <1>1, <1>3, <1>4 DEF Before
<1>6. f \in 1 .. Len(h) /\ B = 1 .. f
  <2>1. f = Max(B)
    OBVIOUS
  <2>2. B \subseteq 1 .. Len(h) /\ \A i \in 1 .. Len(h) : i \in B <=> h[i].day <= x
    BY <1>1, <1>5
  <2> HIDE DEF B, x
  <2>3. B # {} /\ x \in Int
    BY <1>5
  <2>4. Max(B) \in 1 .. Len(h) /\ B = 1 .. Max(B)
    BY <2>2, <2>3, FirstOnes
  <2> QED
    BY <2>1, <2>4
<1>7. l \in 1 .. Len(h) /\ T = 1 .. l
  <2> DEFINE y == LastDay(m)
  <2>1. l = Max(T)
    OBVIOUS
  <2>2. T \subseteq 1 .. Len(h) /\ \A i \in 1 .. Len(h) : i \in T <=> h[i].day <= y
    BY <1>1
  <2>3. T # {} /\ y \in Int
    BY <1>4, <1>5
  <2> HIDE DEF T, y, l, B, x
  <2>4. Max(T) \in 1 .. Len(h) /\ T = 1 .. Max(T)
    BY <2>2, <2>3, FirstOnes
  <2> QED
    BY <2>1, <2>4
<1>8. \A i \in 1 .. Len(h) : i <= f <=> h[i].day < FirstDay(m)
  <2> TAKE i \in 1 .. Len(h)
  <2>1. i \in B <=> h[i].day < FirstDay(m)
    BY <1>1 DEF Before
  <2>2. i \in B <=> i <= f
    <3> HIDE DEF B
    <3> QED
      BY <1>1, <1>6
  <2> QED
    BY <2>1, <2>2
<1>9. \A i \in 1 .. Len(h) : i <= l <=> h[i].day <= LastDay(m)
  <2> TAKE i \in 1 .. Len(h)
  <2>1. i \in T <=> h[i].day <= LastDay(m)
    BY <1>1
  <2>2. i \in T <=> i <= l
    <3> HIDE DEF T
    <3> QED
      BY <1>1, <1>7
  <2> QED
    BY <2>1, <2>2
<1> HIDE DEF l, T
<1>10. f <= l
  <2>1. h[f].day < FirstDay(m) /\ h[f].day \in Int
    BY <1>1, <1>6, <1>8
  <2>2. h[f].day <= LastDay(m)
    BY <1>4, <2>1
  <2> QED
    BY <1>6, <1>9, <2>2
<1>11. Inside(h, m) = f + 1 .. l
  <2>1. \A i \in 1 .. Len(h) : MonthOf(h[i].day) = m <=> i \in f + 1 .. l
    <3> TAKE i \in 1 .. Len(h)
    <3>1. MonthOf(h[i].day) = m <=> FirstDay(m) <= h[i].day /\ h[i].day <= LastDay(m)
      BY <1>1, <1>2, MonthIs
    <3>2. FirstDay(m) <= h[i].day <=> ~ h[i].day < FirstDay(m)
      BY <1>1, <1>4
    <3>3. i \in f + 1 .. l <=> ~ i <= f /\ i <= l
      BY <1>1, <1>6, <1>7
    <3> QED
      BY <1>8, <1>9, <3>1, <3>2, <3>3
  <2>2. \A i \in f + 1 .. l : i \in 1 .. Len(h)
    BY <1>1, <1>6, <1>7
  <2> QED
    BY <1>1, <2>1, <2>2 DEF Inside
<1>12. Before(h, m) # {}
  BY <1>5
<1> QED
  BY <1>6, <1>7, <1>8, <1>9, <1>10, <1>11, <1>12

(* A complete month opens with the balance before it and closes with the   *)
(* last in it, or with the same when it is quiet.                          *)
LEMMA OpensAndCloses ==
  ASSUME NEW h, UpToDay(h, MaxDay), NEW m, Coverage(h, m) = "complete", Before(h, m) # {},
         NEW f \in 1 .. Len(h), f = Max(Before(h, m)),
         NEW l \in 1 .. Len(h), f <= l, Inside(h, m) = f + 1 .. l,
         f < l => Verified(h, f)
  PROVE  Opening(h, m) = h[f].balance /\ Closing(h, m) = h[l].balance
<1>1. /\ Len(h) \in Nat
      /\ \A i \in 1 .. Len(h) : h[i].amount \in Int
  BY EntriesAre
<1> DEFINE first == h[Min(Inside(h, m))]
           covered == Coverage(h, m) = "no_data"
           quiet == Inside(h, m) = {}
<1>2. ~ covered /\ Coverage(h, m) = "complete"
  OBVIOUS
<1>3. Opening(h, m) = CASE covered -> None
                        [] ~ covered /\ ~ quiet ->
                             IF first.balance = None THEN None ELSE first.balance - first.amount
                        [] OTHER -> IF Coverage(h, m) = "complete" /\ Before(h, m) # {}
                                    THEN h[Max(Before(h, m))].balance ELSE None
  BY DEF Opening
<1>4. Closing(h, m) = CASE covered -> None
                        [] ~ covered /\ ~ quiet -> h[Max(Inside(h, m))].balance
                        [] OTHER -> Opening(h, m)
  BY DEF Closing
<1> HIDE DEF covered
<1>5. CASE f = l
  <2>1. quiet
    BY <1>1, <1>5
  <2> HIDE DEF quiet, first
  <2>2. Opening(h, m) = h[Max(Before(h, m))].balance
    BY <1>2, <1>3, <2>1, Zenon
  <2>3. Closing(h, m) = Opening(h, m)
    BY <1>2, <1>4, <2>1, Zenon
  <2> QED
    BY <1>5, <2>2, <2>3
<1>6. CASE f < l
  <2>1. f + 1 \in Inside(h, m) /\ l \in Inside(h, m) /\ f + 1 \in 1 .. Len(h)
    BY <1>1, <1>6
  <2>2. ~ quiet
    BY <2>1
  <2>3. Min(Inside(h, m)) = f + 1 /\ Max(Inside(h, m)) = l
    <3> DEFINE I == f + 1 .. l
    <3>1. I \in SUBSET Int /\ IsFiniteSet(I) /\ I # {}
      <4>1. f + 1 \in Int /\ l \in Int
        BY <1>1
      <4>2. IsFiniteSet(I)
        BY <4>1, FS_Interval
      <4>3. l \in I /\ \A s \in I : s \in Int
        BY <1>1, <1>6
      <4> QED
        BY <4>2, <4>3
    <3>2. /\ Min(I) \in I /\ \A s \in I : Min(I) <= s
          /\ Max(I) \in I /\ \A s \in I : s <= Max(I)
      <4> HIDE DEF I
      <4> QED
        BY <3>1, MinIsLeast, MaxIsGreatest
    <3>3. Min(I) = f + 1 /\ Max(I) = l
      <4>1. f + 1 \in I /\ l \in I
        BY <1>1, <1>6
      <4>2. \A s \in I : s \in Int /\ f + 1 <= s /\ s <= l
        BY <1>1
      <4>3. Min(I) <= f + 1 /\ l <= Max(I)
        BY <3>2, <4>1
      <4>4. Min(I) \in Int /\ Max(I) \in Int /\ f + 1 <= Min(I) /\ Max(I) <= l
        BY <3>2, <4>2
      <4> HIDE DEF I
      <4> QED
        BY <1>1, <4>3, <4>4
    <3> QED
      BY <3>3
  <2>4. first = h[f + 1] /\ first.balance # None
    BY <1>6, <2>3, AmountsAssumption DEF Verified
  <2> HIDE DEF quiet, first
  <2>5. Opening(h, m) = IF first.balance = None THEN None ELSE first.balance - first.amount
    BY <1>2, <1>3, <2>2, Zenon
  <2>6. Opening(h, m) = h[f + 1].balance - h[f + 1].amount
    BY <2>4, <2>5
  <2>7. Closing(h, m) = h[Max(Inside(h, m))].balance
    BY <1>2, <1>4, <2>2, Zenon
  <2>8. h[f].balance \in Int /\ h[f + 1].amount \in Int
    BY <1>1, <1>6, <2>1 DEF Verified
  <2>9. Opening(h, m) = h[f].balance
    BY <1>6, <2>6, <2>8 DEF Verified
  <2> QED
    BY <2>3, <2>7, <2>9
<1> QED
  BY <1>1, <1>5, <1>6

(* The balance check of a transaction is against the one before it.        *)
LEMMA CheckIs ==
  ASSUME NEW h, UpToDay(h, MaxDay), NEW i \in 1 .. Len(h), i > 1, Verified(h, i - 1)
  PROVE  BalanceCheck(h, i) = "consistent"
<1>1. /\ Len(h) \in Nat /\ DOMAIN h = 1 .. Len(h)
      /\ \A j \in 1 .. Len(h) : h[j].amount \in Int
      /\ h[i].balance # None /\ h[i - 1].balance # None
      /\ h[i].balance = h[i - 1].balance + h[i].amount
  <2>1. (i - 1) + 1 = i
    OBVIOUS
  <2> QED
    BY <2>1, EntriesAre, AmountsAssumption DEF Verified
<1> DEFINE stated == {j \in 1 .. i - 1 : h[j].balance # None}
           since == (Max(stated) + 1) .. i
           adds == h[i].balance = h[Max(stated)].balance + Booked(h, since)
           amt == [j \in DOMAIN h |-> h[j].amount]
<1>2. stated \subseteq 1 .. i - 1 /\ i - 1 \in stated /\ i \in Int
  BY <1>1
<1>3. Max(stated) = i - 1
  <2> DEFINE x == Max(stated)
  <2>1. IsFiniteSet(1 .. i - 1) /\ \A s \in 1 .. i - 1 : s \in Int /\ s <= i - 1
    <3>1. 1 \in Int /\ i - 1 \in Int
      BY <1>1
    <3>2. IsFiniteSet(1 .. i - 1)
      BY <3>1, FS_Interval
    <3> QED
      BY <1>1, <3>2
  <2> HIDE DEF stated
  <2>2. stated \in SUBSET Int /\ IsFiniteSet(stated)
    BY <1>2, <2>1, FS_Subset
  <2>3. x \in stated /\ \A s \in stated : s <= x
    BY <1>2, <2>2, MaxIsGreatest
  <2>4. x \in Int /\ x <= i - 1 /\ i - 1 <= x
    BY <1>2, <2>1, <2>3
  <2> HIDE DEF x
  <2>5. x = i - 1
    BY <1>2, <2>4
  <2> QED
    BY <2>5 DEF x
<1>4. since = {i}
  <2>1. since = (i - 1) + 1 .. i
    BY <1>3
  <2>2. (i - 1) + 1 .. i = {i}
    BY <1>2
  <2> HIDE DEF since
  <2> QED
    BY <2>1, <2>2
<1>5. Booked(h, {i}) = h[i].amount
  <2>1. amt[i] = h[i].amount /\ amt[i] \in Int
    BY <1>1
  <2>2. IsFiniteSet({i}) /\ {i} \ {i} = {} /\ i \in {i}
    BY FS_Singleton
  <2>3. SumFunctionOnSet(amt, {i}) = amt[i] + SumFunctionOnSet(amt, {i} \ {i})
    <3> HIDE DEF amt
    <3>1. \A x \in {i} : amt[x] \in Int
      BY <2>1
    <3> QED
      BY <2>2, <3>1, SumRemove
  <2>4. SumFunctionOnSet(amt, {}) = 0
    BY SumEmpty
  <2> HIDE DEF amt
  <2>5. SumFunctionOnSet(amt, {i}) = amt[i]
    <3>1. SumFunctionOnSet(amt, {i}) = amt[i] + SumFunctionOnSet(amt, {})
      BY <2>2, <2>3
    <3>2. amt[i] + 0 = amt[i]
      BY <2>1
    <3> QED
      BY <2>4, <3>1, <3>2
  <2> QED
    BY <2>1, <2>5 DEF Booked, amt
<1>6. adds
  <2> HIDE DEF stated, since
  <2> QED
    BY <1>1, <1>3, <1>4, <1>5
<1>7. stated # {} /\ h[i].balance # None
  BY <1>1, <1>2
<1>8. BalanceCheck(h, i) = CASE h[i].balance = None -> "missing_balance"
                             [] h[i].balance # None /\ stated = {} -> "opening"
                             [] OTHER -> IF adds THEN "consistent" ELSE "break"
  BY DEF BalanceCheck
<1> HIDE DEF stated, adds
<1> QED
  BY <1>6, <1>7, <1>8, Zenon

(* A transaction's month is managed.                                       *)
LEMMA MonthIsManaged ==
  ASSUME HistoryInv, NEW h, UpToDay(h, MaxDay), ~ ClosedBefore(h), NEW i \in 1 .. Len(h)
  PROVE  MonthOf(h[i].day) \in Managed(h)
<1> DEFINE d == h[i].day
           n == MonthOf(d)
<1>1. /\ Len(h) \in Nat /\ DOMAIN h = 1 .. Len(h) /\ h # <<>> /\ 1 \in 1 .. Len(h)
      /\ h[1].day \in Days /\ d \in Days /\ h[1].day <= d
  BY EntriesAre
<1>2. n \in Nat \ {0} /\ MonthOf(h[1].day) <= n
  BY <1>1, MonthBounds, MonthsFollow
<1>3. MaxDay \in Days /\ d <= MaxDay /\ Days \in SUBSET Int /\ IsFiniteSet(Days)
  <2>1. 1 \in Int /\ MaxDay \in Int /\ MaxDay \in Days /\ \A s \in Days : s \in Int /\ s <= MaxDay
    BY BoundsAssumption DEF Days
  <2>2. IsFiniteSet(Days)
    BY <2>1, FS_Interval DEF Days
  <2> QED
    BY <1>1, <2>1, <2>2
<1>4. MonthOf(MaxDay) \in Nat /\ n <= MonthOf(MaxDay)
  BY <1>1, <1>3, MonthBounds, MonthsFollow
<1>5. n <= MonthOf(Max(Evidenced))
  <2>1. d \in Evidenced
    BY SelectedIsCounted DEF UpToDay
  <2>2. Evidenced \in SUBSET Int /\ IsFiniteSet(Evidenced) /\ Evidenced \subseteq Days
    BY <1>3, FS_Subset DEF Evidenced
  <2>3. Max(Evidenced) \in Days /\ d <= Max(Evidenced)
    BY <2>1, <2>2, MaxIsGreatest
  <2> QED
    BY <1>1, <2>3, MonthsFollow
<1>6. ASSUME ClosedOn # None
      PROVE  n <= MonthOf(ClosedOn)
  <2>1. ClosedOn \in Days
    BY <1>6, MonthAssumption DEF Days
  <2>2. d <= ClosedOn
    <3>1. ~ ClosedOn < d
      BY <1>1, <1>6 DEF ClosedBefore
    <3>2. ClosedOn \in Int /\ d \in Int
      BY <1>1, <1>3, <2>1
    <3> HIDE DEF d
    <3> QED
      BY <3>1, <3>2
  <2> QED
    BY <1>1, <2>1, <2>2, MonthsFollow
<1>7. n \in 1 .. MonthOf(MaxDay)
  BY <1>2, <1>4
<1>8. n \in Managed(h)
  <2> HIDE DEF n, d
  <2> QED
    BY <1>1, <1>2, <1>5, <1>6, <1>7 DEF Managed
<1> QED
  BY <1>8

LEMMA MonthsAddUp == HistoryInv => CompleteMonthsAddUp
<1> DEFINE h == History
           complete == {m \in Managed(h) : Coverage(h, m) = "complete"}
<1> SUFFICES ASSUME HistoryInv, EachHasARow, ~ ClosedBefore(h), NEW m \in complete
             PROVE  /\ None \notin {Opening(h, m), Closing(h, m)}
                    /\ Opening(h, m) + Booked(h, Inside(h, m)) = Closing(h, m)
                    /\ \A i \in Inside(h, m) : BalanceCheck(h, i) = "consistent"
                    /\ {n \in Managed(h) : n >= m} \subseteq complete /\ IsWhole(h[Len(h)].day) =>
                         Opening(h, m) + Booked(h, {i \in DOMAIN h : h[i].day >= FirstDay(m)})
                           = BankBalance(h)
  BY DEF CompleteMonthsAddUp
<1>1. UpToDay(h, MaxDay) /\ m \in Managed(h) /\ Coverage(h, m) = "complete"
  BY HistoryIs
<1> HIDE DEF h
<1> DEFINE L == Len(h)
           f == Max(Before(h, m))
<1>2. /\ L \in Nat /\ DOMAIN h = 1 .. L
      /\ \A i \in 1 .. L : h[i].day \in Days /\ h[i].day \in Int
  BY <1>1, EntriesAre
<1>3. /\ m \in Int /\ FirstDay(m) \in Int /\ LastDay(m) \in Int
      /\ FirstDay(m) <= LastDay(m) /\ FirstDay(m) <= MaxDay * MonthDays
  <2>1. MonthOf(MaxDay) \in Int
    BY MonthBounds, BoundsAssumption DEF Days
  <2>2. m \in Int /\ m <= MonthOf(MaxDay)
    BY <1>1, <2>1 DEF Managed
  <2>3. FirstDay(m) <= LastDay(m)
    BY <2>2, MonthAssumption DEF FirstDay, LastDay
  <2> QED
    BY <2>2, <2>3, BoundsAreIntegers, MonthBegins
<1>4. /\ Before(h, m) # {} /\ f \in 1 .. L
      /\ \A i \in 1 .. L : i <= f <=> h[i].day < FirstDay(m)
  BY <1>1, MonthLies
<1>5. PICK l \in 1 .. L : /\ f <= l /\ Inside(h, m) = f + 1 .. l
                          /\ \A i \in 1 .. L : i <= l <=> h[i].day <= LastDay(m)
  BY <1>1, MonthLies
<1> HIDE DEF f
<1>6. \A i \in f .. l - 1 : Verified(h, i)
  <2> TAKE i \in f .. l - 1
  <2>1. /\ i \in 1 .. L - 1 /\ i \in 1 .. L /\ i + 1 \in 1 .. L
        /\ i <= l /\ ~ i + 1 <= f
    BY <1>2, <1>4, <1>5
  <2>2. h[i].day <= LastDay(m)
    BY <1>5, <2>1
  <2>3. FirstDay(m) <= h[i + 1].day
    BY <1>2, <1>3, <1>4, <2>1
  <2>4. ~ Broken(h, m)
    BY <1>1, CompleteIs
  <2> QED
    BY <1>1, <2>1, <2>2, <2>3, <2>4, LinkHolds
<1>6a. h[f].balance \in Int
  <2>1. h[f].day \in Int /\ h[f].day < FirstDay(m) /\ h[f].day <= LastDay(m) /\ ~ Broken(h, m)
    BY <1>1, <1>2, <1>3, <1>4, CompleteIs
  <2>2. CASE f = L
    BY <1>1, <1>2, <1>3, <1>4, <2>1, <2>2, LastLinkHolds
  <2>3. CASE f # L
    <3>1. f \in 1 .. L - 1 /\ f + 1 \in 1 .. L /\ ~ f + 1 <= f
      <4>1. L \in Nat /\ f \in 1 .. L
        BY <1>2, <1>4
      <4> HIDE DEF L
      <4> QED
        BY <2>3, <4>1
    <3>2. FirstDay(m) <= h[f + 1].day
      BY <1>2, <1>3, <1>4, <3>1
    <3> QED
      BY <1>1, <2>1, <3>1, <3>2, LinkHolds DEF Verified
  <2> QED
    BY <2>2, <2>3
<1>7. h[l].balance \in Int /\ h[l].balance = h[f].balance + Booked(h, f + 1 .. l)
  BY <1>6a, <1>1, <1>4, <1>5, <1>6, LinksAddUp
<1>8. Opening(h, m) = h[f].balance /\ Closing(h, m) = h[l].balance
  <2>1. f < l => f \in f .. l - 1
    BY <1>2, <1>4, <1>5
  <2>2. f < l => Verified(h, f)
    BY <1>6, <2>1
  <2>3. f = Max(Before(h, m))
    BY DEF f
  <2> QED
    BY <1>1, <1>4, <1>5, <2>2, <2>3, OpensAndCloses
<1>9. \A i \in Inside(h, m) : BalanceCheck(h, i) = "consistent"
  <2> TAKE i \in Inside(h, m)
  <2>1. i \in 1 .. L /\ i > 1 /\ i - 1 \in f .. l - 1 /\ (i - 1) + 1 = i
    BY <1>2, <1>4, <1>5
  <2>2. Verified(h, i - 1)
    BY <1>6, <2>1
  <2> QED
    BY <1>1, <2>1, <2>2, CheckIs
<1>10. ASSUME {n \in Managed(h) : n >= m} \subseteq complete, IsWhole(h[Len(h)].day)
       PROVE  Opening(h, m) + Booked(h, {i \in DOMAIN h : h[i].day >= FirstDay(m)})
                = BankBalance(h)
  <2>1. L \in 1 .. L /\ f <= L
    BY <1>2, <1>4
  <2>2. \A i \in f .. L - 1 : Verified(h, i)
    <3> TAKE i \in f .. L - 1
    <3> DEFINE n == MonthOf(h[i + 1].day)
    <3>1. i \in 1 .. L - 1 /\ i \in 1 .. L /\ i + 1 \in 1 .. L /\ ~ i + 1 <= f /\ i <= i + 1
      BY <1>2, <1>4
    <3>2. h[i + 1].day \in Days /\ h[i + 1].day \in Int /\ h[i].day \in Int /\ h[i].day <= h[i + 1].day
      BY <1>1, <1>2, <3>1, EntriesAre
    <3>3. ~ h[i + 1].day < FirstDay(m)
      BY <1>4, <3>1
    <3>4. n \in Int /\ FirstDay(n) <= h[i + 1].day /\ h[i + 1].day <= LastDay(n) /\ LastDay(n) \in Int
      <4> DEFINE x == h[i + 1].day
      <4>1. x \in Days
        BY <3>2
      <4>2. n = MonthOf(x)
        OBVIOUS
      <4> HIDE DEF x, n
      <4>3. n \in Int /\ FirstDay(n) <= x /\ x <= LastDay(n)
        BY <4>1, <4>2, MonthBounds
      <4>4. LastDay(n) \in Int
        BY <4>3, BoundsAreIntegers
      <4> QED
        BY <4>3, <4>4 DEF x
    <3>5. n >= m
      BY <1>3, <3>2, <3>3, <3>4, MonthIs
    <3>6. n \in Managed(h)
      BY <1>1, <3>1, MonthIsManaged
    <3>7. ~ Broken(h, n)
      BY <1>10, <3>5, <3>6, CompleteIs
    <3>8. h[i].day <= LastDay(n)
      BY <3>2, <3>4
    <3> HIDE DEF n
    <3> QED
      BY <1>1, <3>1, <3>4, <3>7, <3>8, LinkHolds
  <2>3. h[L].balance \in Int /\ h[L].balance = h[f].balance + Booked(h, f + 1 .. L)
    BY <1>6a, <1>1, <1>4, <2>1, <2>2, LinksAddUp
  <2>4. {i \in DOMAIN h : h[i].day >= FirstDay(m)} = f + 1 .. L
    <3>1. \A i \in 1 .. L : h[i].day >= FirstDay(m) <=> i \in f + 1 .. L
      <4> TAKE i \in 1 .. L
      <4>1. h[i].day >= FirstDay(m) <=> ~ h[i].day < FirstDay(m)
        BY <1>2, <1>3
      <4>2. i \in f + 1 .. L <=> ~ i <= f
        BY <1>2, <1>4
      <4> QED
        BY <1>4, <4>1, <4>2
    <3>2. \A i \in f + 1 .. L : i \in 1 .. L
      BY <1>2, <1>4
    <3> QED
      BY <1>2, <3>1, <3>2
  <2>5. BankBalance(h) = h[L].balance
    <3>1. h[L].balance = BalanceOn(selected[h[L].day].export.books, h[L].day)
      BY <1>1, <1>2, <1>10, <2>1, <2>3, AmountsAssumption DEF UpToDay, EndsAtBank
    <3> QED
      BY <3>1 DEF BankBalance, BalanceOn
  <2> QED
    BY <1>8, <2>3, <2>4, <2>5
<1> QED
  BY <1>6a, <1>5, <1>7, <1>8, <1>9, <1>10, AmountsAssumption

(* A month Gold calls complete adds up, and to the bank's own latest       *)
(* balance when every later month is complete too                          *)
(* (BalanceEvidence.coverage, _balances, balance_checks, over what         *)
(* Ledger._kept_on hands on): from however many exports its days come,     *)
(* whatever those lack and whatever decisions say of them.                 *)
THEOREM CompleteMonthsAlwaysAddUp == Spec => []CompleteMonthsAddUp
<1>1. TypeInv /\ SourcesInv => CompleteMonthsAddUp
  BY MonthsAddUp DEF HistoryInv
<1> QED
  BY <1>1, TypeInit, TypeNext, SourcesInit, SourcesNext, PTL DEF Spec

=============================================================================
