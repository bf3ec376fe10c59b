---------------------------- MODULE MCImportRuns ----------------------------
(* Small instances of ImportRuns for TLC.                                   *)
EXTENDS ImportRuns, TLC

CONSTANTS a, b, n, m, p, q

\* One account presents two file names, so that a repeat has a name of its
\* own; the other presents one of those names, so that accounts conflict.
MCFiles == {<<a, n>>, <<a, m>>, <<b, n>>}

\* One file in each of two accounts.
MCTwoFiles == {<<a, n>>, <<b, n>>}

MCAccounts == {a, b}
MCNames == {n, m}
MCPayloads == {p, q}

\* Outside hands reach every place one file name of one account may take.
MCTouchable ==
  {pl \in Places : pl.account = a /\ pl.name = n /\ pl.under # "refused"}

Symmetry == Permutations({p, q})
=============================================================================
