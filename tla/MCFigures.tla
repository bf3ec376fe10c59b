----------------------------- MODULE MCFigures -----------------------------
(***************************************************************************)
(* Two bounded instances in one run, which never meet: one account's       *)
(* exports becoming Silver and its months (MonthlyBalances), and one Gold  *)
(* build over two accounts (GoldBuild).  `part` says which of them moves.  *)
(***************************************************************************)
EXTENDS MonthlyBalances, GoldBuild, TLC

CONSTANTS a, b

VARIABLE part

MCBookings == {[amount |-> 1, text |-> a], [amount |-> 1, text |-> b]}

MCSymmetry == Permutations({a, b})

MCAccounts == {1, 2}

MCDates == 1 .. 3

\* One account is used on each of three days, the other on the second.
MCLegs ==
  {leg \in [account: {1, 2}, day: 1 .. 3, amount: {-1, 1}, text: {"x", "y"}] :
     leg.account = 2 => leg.day = 2}

MCRegistries == {[acc \in {1, 2} |-> Nothing], [acc \in {1} |-> 2]}

MCDirection == [c \in {"food"} |-> "expense"]

\* Text "x" claims a transfer; an incoming "y" is an adjustment, and an outgoing
\* one matches two rules of one priority that disagree.
MCRules ==
  {[text |-> "x", sign |-> Unset, priority |-> 1, then |-> "transfer"],
   [text |-> Unset, sign |-> -1, priority |-> 0, then |-> "food"],
   [text |-> "y", sign |-> Unset, priority |-> 0, then |-> "adjustment"]}

MCInit == Init /\ BuildInit /\ part \in {"silver", "gold"}

SilverStep == part = "silver" /\ Next /\ UNCHANGED <<part, buildVars>>

GoldStep == part = "gold" /\ BuildNext /\ UNCHANGED <<part, vars>>

MCNext == SilverStep \/ GoldStep

MCSpec == MCInit /\ [][MCNext]_<<vars, buildVars, part>>

=============================================================================
