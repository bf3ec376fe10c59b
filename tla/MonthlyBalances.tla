-------------------------- MODULE MonthlyBalances --------------------------
(***************************************************************************)
(* What Gold publishes of one account's months from the Silver derived     *)
(* (src/budget/silver/build.py, gold/transactions.py, gold/chain.py,       *)
(* gold/coverage.py, gold/snapshots.py): the kept transactions in order,   *)
(* the days the counted exports declare, the links of the balance chain,   *)
(* and each month's coverage, opening and closing balance.                 *)
(*                                                                         *)
(* All of it is computed from the state of SilverMerge, so it can be asked *)
(* in every state what a build there would publish.  A month is MonthDays  *)
(* days long.                                                              *)
(***************************************************************************)
EXTENDS SilverMerge, SequencesExt

CONSTANTS
  MonthDays,   \* the length of a month
  ClosedOn     \* the account's closing day, or None

ASSUME MonthAssumption ==
  MonthDays \in Nat \ {0} /\ ClosedOn \in {None} \cup (1 .. MaxDay)

-----------------------------------------------------------------------------
\* Ledger._latest_row: the row of the latest admitted export that shows it.
LatestRow(t) ==
  LET i == Max({j \in DOMAIN taken :
                  taken[j].status = "accepted"
                  /\ \E p \in Places(taken[j].export) : Shows(taken[j], p) = t})
      p == CHOOSE q \in Places(taken[i].export) : Shows(taken[i], q) = t
  IN taken[i].export.rows[p]

\* A kept transaction, with its figures read from the row that shows it.
Valued(d, row) == [day |-> d, amount |-> row.booking.amount, balance |-> row.balance]

\* Rows in their order in the export.
InOrder(rows) ==
  CHOOSE s \in SetToSeqs(rows) : \A i, j \in DOMAIN s : i < j => UpTo(s[i], s[j])

\* Ledger._kept_on: the day's rows of its selected export, in their order, and
\* after them what is kept and not shown there.
KeptOn(d) ==
  IF d \notin DOMAIN selected THEN <<>>
  ELSE LET run == selected[d]
           rows == {p \in Places(run.export) :
                      Shows(run, p) \in Kept /\ Shows(run, p).day = d}
           unshown == {t \in Kept : t.day = d} \ {Shows(run, p) : p \in rows}
           inOrder == InOrder(rows)
           appended == SetToSeq(unshown)
       IN [i \in DOMAIN inOrder |-> Valued(d, run.export.rows[inOrder[i]])]
          \o [i \in DOMAIN appended |-> Valued(d, LatestRow(appended[i]))]

\* gold_transactions: one account's, in booked order.
History == FlattenSeq([d \in Days |-> KeptOn(d)])

\* What the transactions at some places come to.
Booked(h, is) == SumFunctionOnSet([i \in DOMAIN h |-> h[i].amount], is)

\* balance_checks: against the last balance stated before and all booked since.
BalanceCheck(h, i) ==
  LET stated == {j \in 1 .. i - 1 : h[j].balance # None}
      since == (Max(stated) + 1) .. i
  IN CASE h[i].balance = None -> "missing_balance"
       [] h[i].balance # None /\ stated = {} -> "opening"
       [] OTHER -> IF h[i].balance = h[Max(stated)].balance + Booked(h, since)
                   THEN "consistent" ELSE "break"

\* _counted: the admitted exports, and the repeats of one.
Counted ==
  {taken[i].export : i \in {j \in DOMAIN taken :
     \/ taken[j].status = "accepted"
     \/ /\ taken[j].status = "repeat"
        /\ \E e \in Admitted : SamePayload(e, taken[j].export)}}

\* _account_evidence: the days of the maximal ranges.  A stretch of days lies
\* within one range exactly when each of its days is in some.
Evidenced == {d \in Days : \E e \in Counted : Covers(e, d)}

-----------------------------------------------------------------------------
MonthOf(d) == (d + MonthDays - 1) \div MonthDays

FirstDay(m) == (m - 1) * MonthDays + 1

LastDay(m) == m * MonthDays

\* _links: from each transaction's day to the next one's, and from the last
\* one's on without end.
Links(h) ==
  {[starts |-> h[i].day, ends |-> h[i + 1].day,
    verified |-> /\ None \notin {h[i].balance, h[i + 1].balance}
                 /\ h[i + 1].balance = h[i].balance + h[i + 1].amount]
     : i \in 1 .. Len(h) - 1}
  \cup {[starts |-> h[Len(h)].day, ends |-> MaxDay * MonthDays,
         verified |-> h[Len(h)].balance # None]}

\* Mutant: only the links that start in the month count.
BrokenWithin(h, m) ==
  \E link \in Links(h) :
    /\ ~ link.verified
    /\ link.starts \in FirstDay(m) .. LastDay(m)

\* A link that touches the month is not verified.
Broken(h, m) ==
  \E link \in Links(h) :
    /\ ~ link.verified
    /\ link.starts <= LastDay(m)
    /\ FirstDay(m) <= link.ends

\* BalanceEvidence.coverage
Coverage(h, m) ==
  LET days == FirstDay(m) .. LastDay(m)
  IN CASE days \cap Evidenced = {} -> "no_data"
       [] days \cap Evidenced # {} /\ m = MonthOf(h[1].day) -> "partial"
       [] OTHER -> IF days \subseteq Evidenced /\ ~ Broken(h, m)
                   THEN "complete" ELSE "partial"

\* The transactions of a month, by their place in the history.
Inside(h, m) == {i \in DOMAIN h : MonthOf(h[i].day) = m}

Before(h, m) == {i \in DOMAIN h : h[i].day < FirstDay(m)}

\* _balances: a complete quiet month carries the latest earlier balance.
Opening(h, m) ==
  LET first == h[Min(Inside(h, m))]
  IN CASE Coverage(h, m) = "no_data" -> None
       [] Coverage(h, m) # "no_data" /\ Inside(h, m) # {} ->
            IF first.balance = None THEN None ELSE first.balance - first.amount
       [] OTHER -> IF Coverage(h, m) = "complete" /\ Before(h, m) # {}
                   THEN h[Max(Before(h, m))].balance ELSE None

Closing(h, m) ==
  CASE Coverage(h, m) = "no_data" -> None
    [] Coverage(h, m) # "no_data" /\ Inside(h, m) # {} -> h[Max(Inside(h, m))].balance
    [] OTHER -> Opening(h, m)

\* months_through, _last_managed: from the first transaction's month to the
\* latest evidence's, or to the closing month.
Managed(h) ==
  IF h = <<>> THEN {}
  ELSE {m \in 1 .. MonthOf(MaxDay) :
          /\ MonthOf(h[1].day) <= m
          /\ m <= MonthOf(Max(Evidenced))
          /\ ClosedOn # None => m <= MonthOf(ClosedOn)}

\* _closing_problems: a transaction after the closing day, so nothing is built.
ClosedBefore(h) == ClosedOn # None /\ \E i \in DOMAIN h : ClosedOn < h[i].day

-----------------------------------------------------------------------------
\* The bank's balance after the last transaction Gold publishes, in the books
\* its day's export was made of.
BankBalance(h) ==
  LET last == h[Len(h)].day
      bs == selected[last].export.books
  IN SumFunctionOnSet(Amounts(bs), {p \in InBooks(bs) : p[1] <= last})

\* Whether some admitted row shows every kept transaction: of one no row shows
\* there are no figures, and the build fails.
EachHasARow ==
  \A t \in Kept : \E j \in DOMAIN taken :
    taken[j].status = "accepted" /\ \E p \in Places(taken[j].export) : Shows(taken[j], p) = t

\* Whether a day's export has every row the bank had, and they show just what
\* is kept.
IsWhole(d) ==
  LET run == selected[d]
      rows == {p \in Places(run.export) : p[1] = d}
  IN /\ rows = {p \in InBooks(run.export.books) : p[1] = d}
     /\ {Shows(run, p) : p \in rows} = {t \in Kept : t.day = d}

\* A complete month's figures add up, whatever files were flawed, dropped or
\* matched by decisions: its balances are stated, opening balance and
\* transactions make the closing one, and no balance check of its transactions
\* is a break.  When every month from one to the last is complete, its opening
\* balance and what Gold publishes since are the bank's own latest balance,
\* although the days come from different exports.  (Unless the last day's file
\* lacks a row or one of them shows no transaction kept: a missing last row
\* shows nowhere.)
CompleteMonthsAddUp ==
  LET h == History
      complete == {m \in Managed(h) : Coverage(h, m) = "complete"}
  IN EachHasARow /\ ~ ClosedBefore(h) =>
       \A m \in complete :
         /\ None \notin {Opening(h, m), Closing(h, m)}
         /\ Opening(h, m) + Booked(h, Inside(h, m)) = Closing(h, m)
         /\ \A i \in Inside(h, m) : BalanceCheck(h, i) = "consistent"
         /\ {n \in Managed(h) : n >= m} \subseteq complete /\ IsWhole(h[Len(h)].day) =>
              Opening(h, m) + Booked(h, {i \in DOMAIN h : h[i].day >= FirstDay(m)})
                = BankBalance(h)

=============================================================================
