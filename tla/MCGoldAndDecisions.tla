------------------------- MODULE MCGoldAndDecisions -------------------------
(***************************************************************************)
(* Two bounded instances in one run, which never meet: gold.db through     *)
(* builds, undos, losses and restores (GoldStore), with ids that count in  *)
(* steps of five, and the decision log (DecisionLog).  `part` says which   *)
(* of them moves.                                                          *)
(***************************************************************************)
EXTENDS GoldStore, DecisionLog

CONSTANTS r1, r2, t1, t2, p1, p2

VARIABLE part

MCIds == 1 .. 14
MCRecipes == {r1, r2}
MCTargets == {t1, t2}

\* Lines that break each rule in some log: a clash, an id that is taken, a
\* position that is not the line's own, a decision superseded that is not in
\* force or unrelated, and a line that is no entry.
MCHandLines ==
  {EntryOf([kind |-> "withdrawn", targets |-> {t}, payload |-> Unset, supersedes |-> s[1]],
           s[2], s[3]) : t \in Targets, s \in {<<{}, 2, 3>>, <<{1}, 3, 1>>}}
  \cup {Garbled}

MCSymmetry == Permutations({p1, p2}) \cup Permutations({t1, t2})

\* Recipes have no order either, so the store starts from one of them.
MCInit ==
  /\ Init /\ LogInit
  /\ inputs = r1
  /\ part \in {"store", "log"}

StoreStep == part = "store" /\ Next /\ UNCHANGED <<part, logVars>>

LogStep == part = "log" /\ LogNext /\ UNCHANGED <<part, vars>>

MCNext == StoreStep \/ LogStep

MCSpec == MCInit /\ [][MCNext]_<<vars, logVars, part>>

=============================================================================
