----------------------------- MODULE GoldBuild -----------------------------
(***************************************************************************)
(* One Gold build: what type each transaction gets (src/budget/gold:       *)
(* build.py, classification.py, transfers.py).                             *)
(*                                                                         *)
(* The household's accounts hold booked transactions.  A build refuses a   *)
(* configuration that cannot hold; otherwise the applicable decisions      *)
(* settle their targets, the rules give each transaction a result, and the *)
(* transfer matching pairs claimed legs stage by stage, by the days        *)
(* between them.                                                           *)
(*                                                                         *)
(* A transaction is its place in the book, which is in booked order: by    *)
(* account, then by account sequence.                                      *)
(***************************************************************************)
EXTENDS Integers, Sequences, FiniteSets, FiniteSetsExt, Functions

CONSTANTS
  Accounts,     \* the accounts: integers, in the order of their identifiers
  Dates,        \* days: integers
  Legs,         \* what may be booked: records of account, day, amount and text
  Registries,   \* functions from declared accounts to a closing day or Nothing
  Direction,    \* a function from the declared categories to their direction
  Rules,        \* rules: records of text, sign, priority and then
  Unset,        \* a condition a rule does not set
  Nothing,      \* no day, no review item, no group
  MaxGap,       \* MAX_DATE_GAP
  MaxInputs     \* bound on transactions and decisions together

\* ClassificationReviewKind
ReviewKinds ==
  {"unclassified", "rule-conflict", "sign-mismatch", "ambiguous-transfer", "unmatched-transfer",
   "decision-not-applicable"}

\* Why a decision does not apply, and UnmatchedReason.
Reasons ==
  {"target-missing", "zero-amount", "amounts-do-not-cancel", "same-account",
   "inside-managed-period", "counterpart-may-not-be-imported", "no-candidate"}

\* What is booked, who it is booked for, and that nothing is none of what the
\* program tells from it.
ASSUME BuildAssumption ==
  /\ Accounts \subseteq Int /\ Dates \subseteq Int
  /\ MaxGap \in Nat /\ MaxInputs \in Nat
  /\ \A leg \in Legs : leg.account \in Accounts /\ leg.day \in Dates /\ leg.amount \in Int
  /\ \A reg \in Registries :
       DOMAIN reg \subseteq Accounts /\ \A a \in DOMAIN reg : reg[a] \in Dates \cup {Nothing}
  /\ \A c \in DOMAIN Direction : Direction[c] \in {"income", "expense"}
  /\ Nothing \notin Dates /\ \A ts \in SUBSET (1 .. MaxInputs) : ts # Nothing
  /\ Nothing \notin ReviewKinds \cup Reasons
  /\ Nothing \notin [kind : ReviewKinds, names : SUBSET (1 .. MaxInputs), reason : Reasons \cup {Nothing}]

VARIABLES
  book,       \* Silver's booked transactions of every account
  registry,   \* the declared accounts
  decisions,  \* the effective Gold decisions
  phase,
  claims,     \* the legs whose rule result claims a transfer
  decided,    \* the transactions an applicable decision settles
  gap,        \* the stage of the matching
  paired,     \* Matching.paired: each leg's counterpart, gap and basis
  held        \* Matching.ambiguous: each leg's candidate set and its stage

buildVars == <<book, registry, decisions, phase, claims, decided, gap, paired, held>>

-----------------------------------------------------------------------------
Transactions == DOMAIN book

Categories == DOMAIN Direction

Sign(amount) == IF amount < 0 THEN -1 ELSE IF amount > 0 THEN 1 ELSE 0

\* _category_type: the direction and the sign give the type; zero has none.
CategoryType(c, amount) ==
  CASE amount = 0 -> "unknown"
    [] (Direction[c] = "expense") = (amount < 0) /\ amount # 0 -> Direction[c]
    [] OTHER -> "refund"

Matches(r, t) ==
  /\ {r.text, r.sign} # {Unset}
  /\ r.text \in {Unset, book[t].text}
  /\ r.sign = Unset \/ (r.sign = Sign(book[t].amount) /\ r.sign # 0)

\* _outcome: the highest-priority rules that match, if they agree.
RuleResult(t) ==
  LET matching == {r \in Rules : Matches(r, t)}
      winners == {r \in matching : \A q \in matching : q.priority <= r.priority}
      thens == {r.then : r \in winners}
      Result(type, review) == [type |-> type, review |-> review]
      then == CHOOSE x \in thens : TRUE
  IN CASE thens = {} -> Result("unknown", "unclassified")
       [] Cardinality(thens) > 1 -> Result("unknown", "rule-conflict")
       [] thens = {"transfer"} -> Result("unknown", "unmatched-transfer")
       [] thens = {"adjustment"} -> Result("adjustment", Nothing)
       [] OTHER -> IF CategoryType(then, book[t].amount) = "unknown"
                   THEN Result("unknown", "sign-mismatch")
                   ELSE Result(CategoryType(then, book[t].amount), Nothing)

\* The transactions whose rule result claims a transfer leg.
Claims == {t \in Transactions : RuleResult(t).review = "unmatched-transfer"}

-----------------------------------------------------------------------------
\* Decisions name transactions by place; 0 is one no longer in Silver.
Targetable == {0} \cup Transactions

Decisions ==
  [kind: {"classify"}, targets: {{t} : t \in Targetable}, value: Categories]
  \cup [kind: {"adjust"}, targets: {{t} : t \in Targetable}, value: {Nothing}]
  \cup [kind: {"pair"}, targets: kSubset(2, Targetable), value: {Nothing}]
  \cup [kind: {"one-sided"}, targets: {{t} : t \in Targetable}, value: Accounts]

\* The decisions explored where n more inputs may be: one, or two where there
\* is room for three.
DecisionSets(n) ==
  CASE n = 0 -> {{}}
    [] n \in 1 .. 2 -> {{}} \cup {{d} : d \in Decisions}
    [] OTHER -> {{}} \cup {{d, e} : d, e \in Decisions}

Latest(a) ==
  LET days == {book[t].day : t \in {u \in Transactions : book[u].account = a}}
  IN IF days = {} THEN Nothing ELSE Max(days)

First(a) ==
  LET days == {book[t].day : t \in {u \in Transactions : book[u].account = a}}
  IN IF days = {} THEN Nothing ELSE Min(days)

\* _require_declared_accounts: Silver has transactions of an account that is gone.
Undeclared(reg) == \E t \in Transactions : book[t].account \notin DOMAIN reg

\* _closing_problems: an account was used after its closing day.
ClosedTooEarly(reg, a) == reg[a] # Nothing /\ Latest(a) # Nothing /\ reg[a] < Latest(a)

\* decision_problem: it names an account that is not declared.  (The categories
\* stay declared.)
Refuted(reg, d) == d.kind = "one-sided" /\ d.value \notin DOMAIN reg

\* _overlap_problems: two decisions have a target in common.
Overlapping(ds) == \E d, e \in ds : d # e /\ d.targets \cap e.targets # {}

Problems(reg, ds) ==
  \/ Undeclared(reg)
  \/ \E a \in DOMAIN reg : ClosedTooEarly(reg, a)
  \/ \E d \in ds : Refuted(reg, d)
  \/ Overlapping(ds)

\* _managed_in; a month is a day here.
ManagedIn(reg, a, day) ==
  /\ First(a) # Nothing
  /\ First(a) <= day
  /\ reg[a] # Nothing => day <= reg[a]

Sum(ts) == SumFunctionOnSet([t \in Transactions |-> book[t].amount], ts)

\* inapplicable: the reason a decision changes nothing, or Nothing.
Inapplicable(reg, d) ==
  IF ~ d.targets \subseteq Transactions THEN "target-missing"
  ELSE CASE d.kind = "classify" /\ Sum(d.targets) = 0 -> "zero-amount"
         [] d.kind = "pair" /\ Sum(d.targets) # 0 -> "amounts-do-not-cancel"
         [] d.kind = "pair" /\ Sum(d.targets) = 0
            /\ Cardinality({book[t].account : t \in d.targets}) = 1 -> "same-account"
         [] d.kind = "one-sided"
            /\ \E t \in d.targets : ManagedIn(reg, d.value, book[t].day)
            -> "inside-managed-period"
         [] OTHER -> Nothing

Applicable(reg, ds) == {d \in ds : Inapplicable(reg, d) = Nothing}

-----------------------------------------------------------------------------
DateGap(t, u) ==
  IF book[t].day < book[u].day THEN book[u].day - book[t].day
  ELSE book[t].day - book[u].day

\* An outgoing and an incoming leg that cancel, one of them claimed.
Cancel(out, in) ==
  /\ book[out].amount < 0
  /\ book[in].amount = - book[out].amount
  /\ book[out].account # book[in].account
  /\ {out, in} \cap claims # {}

\* _candidates
Candidates(legs, g) ==
  {{c[1], c[2]} : c \in
     {c \in legs \X legs : Cancel(c[1], c[2]) /\ DateGap(c[1], c[2]) = g}}

\* Mutant: the counterpart's set is not joined, only the counterpart.
JoinOne(c, sets) ==
  LET out == CHOOSE t \in c : book[t].amount < 0
  IN {s \in sets : out \notin s} \cup {c \cup UNION {s \in sets : out \in s}}

\* _connected_sets: a candidate joins the sets its two legs are in.
Join(c, sets) ==
  {s \in sets : s \cap c = {}} \cup {c \cup UNION {s \in sets : s \cap c # {}}}

ConnectedSets(candidates) == FoldSet(Join, {}, candidates)

Outs(legs) == {t \in legs : book[t].amount < 0}

Ins(legs) == {t \in legs : book[t].amount > 0}

\* Mutant: repeated transactions need not have the same text.
RepeatedAnyText(legs) ==
  Cardinality({<<book[t].account, book[t].day, book[t].amount>> : t \in legs}) = 1

\* _repeated: one account, day, amount and text.
Repeated(legs) == Cardinality({book[t] : t \in legs}) = 1

\* A set of repeated legs on both sides, or of one pair.
NoGuessNeeded(legs) == Repeated(Outs(legs)) /\ Repeated(Ins(legs))

\* A leg's place among its side's, in booked order.
Rank(t, side) == Cardinality({u \in side : u <= t})

\* _settle: the legs of a set, in booked order, each with its counterpart.
Zipped(legs) ==
  {{c[1], c[2]} : c \in
     {c \in Outs(legs) \X Ins(legs) : Rank(c[1], Outs(legs)) = Rank(c[2], Ins(legs))}}

Basis(legs, g) ==
  IF Cardinality(legs) > 2 THEN "repeated_legs"
  ELSE IF g = 0 THEN "same_day" ELSE "date_gap"

Other(pair, t) == CHOOSE u \in pair : u # t

Available == Transactions \ (DOMAIN paired \cup DOMAIN held \cup decided)

-----------------------------------------------------------------------------
BuildInit ==
  /\ book = <<>>
  /\ registry = <<>>
  /\ decisions = {}
  /\ phase = "booking"
  /\ claims = {}
  /\ decided = {}
  /\ gap = 0
  /\ paired = <<>>
  /\ held = <<>>

\* The next transaction in booked order, as gold_transactions lists them.
BookLeg(leg) ==
  /\ phase = "booking"
  /\ Len(book) < MaxInputs
  /\ \A t \in Transactions :
       \/ book[t].account < leg.account
       \/ book[t].account = leg.account /\ book[t].day <= leg.day
  /\ book' = Append(book, leg)
  /\ UNCHANGED <<registry, decisions, phase, claims, decided, gap, paired, held>>

\* build: the configuration and the decisions in force are read, and nothing is
\* published of what cannot hold.
Begin(reg, ds) ==
  /\ phase = "booking"
  /\ registry' = reg
  /\ decisions' = ds
  /\ IF Problems(reg, ds)
     THEN /\ phase' = "refused"
          /\ UNCHANGED <<claims, decided>>
     ELSE /\ phase' = "matching"
          /\ claims' = Claims
          /\ decided' = UNION {d.targets : d \in Applicable(reg, ds)}
  /\ UNCHANGED <<book, gap, paired, held>>

\* One round of match_transfers: the candidates exactly gap days apart.
Stage ==
  /\ phase = "matching"
  /\ LET sets == ConnectedSets(Candidates(Available, gap))
         settled == {s \in sets : NoGuessNeeded(s)}
         pairs == UNION {Zipped(s) : s \in settled}
         Mate(t) == Other(CHOOSE p \in pairs : t \in p, t)
         SetOf(t) == CHOOSE s \in sets : t \in s
     IN /\ paired' = [t \in DOMAIN paired \cup UNION pairs |->
                        IF t \in UNION pairs
                        THEN [mate |-> Mate(t), gap |-> gap,
                              basis |-> Basis(SetOf(t), gap)]
                        ELSE paired[t]]
        /\ held' = [t \in DOMAIN held \cup UNION (sets \ settled) |->
                      IF t \in UNION (sets \ settled)
                      THEN [legs |-> SetOf(t), gap |-> gap]
                      ELSE held[t]]
  /\ gap' = gap + 1
  /\ phase' = IF gap = MaxGap THEN "published" ELSE "matching"
  /\ UNCHANGED <<book, registry, decisions, claims, decided>>

BuildNext ==
  \/ \E leg \in Legs : BookLeg(leg)
  \/ \E reg \in Registries :
       \E ds \in DecisionSets(MaxInputs - Len(book)) : Begin(reg, ds)
  \/ Stage

BuildSpec == BuildInit /\ [][BuildNext]_buildVars

-----------------------------------------------------------------------------
\* _unmatched_reason: some other account, not closed before the window, has
\* nothing booked at the window's end or later.
UnmatchedReason(t) ==
  IF \E a \in DOMAIN registry \ {book[t].account} :
       /\ registry[a] = Nothing \/ registry[a] >= book[t].day - MaxGap
       /\ Latest(a) = Nothing \/ Latest(a) < book[t].day + MaxGap
  THEN "counterpart-may-not-be-imported" ELSE "no-candidate"

DecisionOn(t) == CHOOSE d \in Applicable(registry, decisions) : t \in d.targets

\* A type, the group of a transfer, and the review item by its kind, the
\* transactions it names and its reason.
Typed(type, group, item) == [type |-> type, group |-> group, item |-> item]

Item(kind, ts, reason) == [kind |-> kind, names |-> ts, reason |-> reason]

\* _applied: what an applicable decision makes of a target.
Applied(d, t) ==
  CASE d.kind = "classify" -> Typed(CategoryType(d.value, book[t].amount), Nothing, Nothing)
    [] d.kind = "adjust" -> Typed("adjustment", Nothing, Nothing)
    [] d.kind = "pair" -> Typed("transfer", d.targets, Nothing)
    [] d.kind = "one-sided" -> Typed("transfer", Nothing, Nothing)

\* _settled: the rule result, settled against the matching.
Settled(t) ==
  LET rule == RuleResult(t)
  IN CASE t \in DOMAIN paired -> Typed("transfer", {t, paired[t].mate}, Nothing)
       [] t \in DOMAIN held ->
            Typed("unknown", Nothing, Item("ambiguous-transfer", held[t].legs, Nothing))
       [] OTHER ->
            Typed(rule.type, Nothing,
                  IF rule.review = Nothing THEN Nothing
                  ELSE Item(rule.review, {t},
                            IF t \in claims THEN UnmatchedReason(t) ELSE Nothing))

Outcome(t) == IF t \in decided THEN Applied(DecisionOn(t), t) ELSE Settled(t)

\* _lineage: what stands behind a type.
Source(t) ==
  CASE t \in decided -> "manual"
    [] t \in DOMAIN paired -> "transfer_match"
    [] OTHER -> IF Outcome(t).type = "unknown" THEN "unclassified" ELSE "rule"

\* _not_applicable_item: it names the targets that are present.
NotApplicable(d) ==
  Item("decision-not-applicable", d.targets \cap Transactions, Inapplicable(registry, d))

ReviewItems ==
  {Outcome(t).item : t \in {u \in Transactions : Outcome(u).item # Nothing}}
  \cup {NotApplicable(d) : d \in decisions \ Applicable(registry, decisions)}

BuildTypeOK ==
  /\ book \in Seq(Legs)
  /\ registry \in Registries \cup {<<>>}
  /\ decisions \subseteq Decisions
  /\ phase \in {"booking", "refused", "matching", "published"}
  /\ gap \in 0 .. MaxGap + 1
  /\ claims \cup decided \subseteq Transactions
  /\ DOMAIN paired \subseteq Transactions
  /\ DOMAIN held \subseteq Transactions \ DOMAIN paired

Grouped == {t \in Transactions : Outcome(t).group # Nothing}

\* A transfer changes no total: the legs typed as one are two transactions of
\* different accounts that cancel, each naming the other, and a matched leg
\* is no decision's, no other pair's and in no ambiguous set.
PairsAreSound ==
  phase = "published" =>
    /\ Sum(Grouped) = 0
    /\ \A t \in Grouped :
         LET mates == {u \in Grouped : Outcome(u).group = Outcome(t).group}
         IN /\ mates = Outcome(t).group
            /\ Cardinality(mates) = 2
            /\ Sum(mates) = 0
            /\ Cardinality({book[u].account : u \in mates}) = 2
    /\ \A t \in DOMAIN paired :
         /\ paired[paired[t].mate].mate = t
         /\ t \notin decided \cup DOMAIN held
         /\ {t, paired[t].mate} \cap claims # {}

\* The stage a transaction was settled in; later than all when it was not.
SettledIn(t) ==
  CASE t \in decided -> -1
    [] t \in DOMAIN paired \ decided -> paired[t].gap
    [] t \in DOMAIN held \ (DOMAIN paired \cup decided) -> held[t].gap
    [] OTHER -> MaxGap + 1

\* Two legs that could be one transfer, and neither was settled before.
Rivals(t, u) ==
  /\ Cancel(t, u) \/ Cancel(u, t)
  /\ DateGap(t, u) <= MaxGap
  /\ SettledIn(t) >= DateGap(t, u)
  /\ SettledIn(u) >= DateGap(t, u)

\* A set of legs with every leg that is a rival, at the gap, of one of them.
Closed(legs, g) ==
  \A t \in legs, u \in Transactions : Rivals(t, u) /\ DateGap(t, u) = g => u \in legs

\* A leg, its rivals at the gap, theirs, and so on: the least such set.
Reach(t, g) ==
  {u \in Transactions : \A legs \in SUBSET Transactions :
                          t \in legs /\ Closed(legs, g) => u \in legs}

\* Gold pairs what it can and does not guess.  Who competes with a paired leg
\* is the same transaction repeated; a leg is held with all that compete for
\* it, directly or not, under one review item; a leg is passed over at a gap
\* only for the same transaction repeated; a claim is said to have no candidate
\* only when no account could still get one after its latest day; and what is
\* left unclassified is what a review item asks a decision for.
NothingIsGuessed ==
  phase = "published" =>
    /\ \A t \in Transactions :
         Source(t) = "unclassified" <=>
           \E i \in ReviewItems : i.kind # "decision-not-applicable" /\ t \in i.names
    /\ \A t \in Transactions \ decided :
        /\ t \in DOMAIN paired =>
             \A u, v \in Reach(t, paired[t].gap) :
               Sign(book[u].amount) = Sign(book[v].amount) => book[u] = book[v]
        /\ t \in DOMAIN held =>
             /\ held[t].legs = Reach(t, held[t].gap)
             /\ \E u, v \in held[t].legs : /\ Sign(book[u].amount) = Sign(book[v].amount)
                                           /\ book[u] # book[v]
             /\ Outcome(t).item.names = held[t].legs
        /\ \A u \in Transactions :
             Rivals(t, u) /\ DateGap(t, u) < SettledIn(t) =>
               /\ u \in DOMAIN paired
               /\ book[paired[u].mate] = book[t]
        /\ Outcome(t).item # Nothing /\ Outcome(t).item.reason = "no-candidate" =>
             \A a \in DOMAIN registry \ {book[t].account}, d \in Dates :
               /\ Latest(a) # Nothing => Latest(a) < d
               /\ registry[a] # Nothing => d <= registry[a]
               => d \notin book[t].day - MaxGap .. book[t].day + MaxGap

=============================================================================
