---------------------------- MODULE SilverMerge ----------------------------
(***************************************************************************)
(* How one account's exports become Silver (src/budget/silver: build.py,   *)
(* admission.py, merge.py, reading.py, balances.py).                       *)
(*                                                                         *)
(* The bank books transactions, late ones too, removes one or rewords one. *)
(* An export is its books over a range of days, in order, each row with    *)
(* the balance after it.  Silver takes the exports in the order they were  *)
(* made and admits or quarantines each against what it has admitted.  A    *)
(* person's decisions are consulted as the derivation meets them.          *)
(*                                                                         *)
(* A row is its place in the books, <<day, position>>; a transaction's     *)
(* identity is its day, its amount and text (a booking) and its number     *)
(* among equals.  Rows not booked have no part in the merge and are left   *)
(* out.                                                                    *)
(***************************************************************************)
EXTENDS Integers, Sequences, FiniteSets, Functions

CONSTANTS
  MaxDay,      \* days are 1 .. MaxDay
  Bookings,    \* what may be booked: records of an amount and a text
  None,
  Withdrawn,   \* the ruling of a withdrawn decision on a drop
  Undecided,   \* no withdrawn decision names a drop
  MaxBooked,   \* bound on the bookings in the books
  MaxChanges,  \* bound on removals and rewordings by the bank
  MaxExports,  \* bound on the exports made
  MaxFlaws     \* bound on exports that are unreadable, unlabelled or broken

ASSUME BoundsAssumption ==
  {MaxDay, MaxBooked, MaxChanges, MaxExports, MaxFlaws} \subseteq Nat /\ MaxDay > 0

\* No amount or balance is None.
ASSUME AmountsAssumption ==
  IsFiniteSet(Bookings) /\ (\A b \in Bookings : b.amount \in Int) /\ None \notin Int

VARIABLES
  today,
  books,     \* the bank's: what is booked on each day, in order
  changes,   \* how often it did
  taken,     \* the exports made and taken, in order, each with its status
  counts,    \* Ledger.counts
  selected,  \* Ledger.selected: the run of each day that has one
  withdrawn, \* Ledger.withdrawn
  ruled      \* the drops met: whether a withdrawn decision names it

bank == <<today, books, changes>>

ledger == <<counts, selected, withdrawn>>

vars == <<bank, taken, ledger, ruled>>

-----------------------------------------------------------------------------
Days == 1 .. MaxDay

Rows == Days \X (1 .. MaxBooked)

\* A ruling is no row.
ASSUME RulingsAssumption ==
  Withdrawn # Undecided /\ {None, Withdrawn, Undecided} \cap Rows = {}
               /\ None \notin {Withdrawn, Undecided}

\* A transaction's identity within the account.
Identities == [day: Days, booking: Bookings, k: 1 .. MaxBooked]

InBooks(bs) == {p \in Rows : p[2] <= Len(bs[p[1]])}

UpTo(p, q) == p[1] < q[1] \/ (p[1] = q[1] /\ p[2] <= q[2])

Amounts(bs) == [p \in InBooks(bs) |-> bs[p[1]][p[2]].amount]

BalanceAt(bs, p) == SumFunctionOnSet(Amounts(bs), {q \in InBooks(bs) : UpTo(q, p)})

\* The books over a range, each row with its balance: the bank's sum up to it.
RowsOf(bs, from, through) ==
  [p \in {q \in InBooks(bs) : q[1] \in from .. through} |->
     [booking |-> bs[p[1]][p[2]], balance |-> BalanceAt(bs, p)]]

Places(e) == DOMAIN e.rows

BookingOf(e, p) == e.rows[p].booking

Stated(e, p) == e.rows[p].balance

LastOf(ps) == CHOOSE p \in ps : \A q \in ps : UpTo(q, p)

\* ReadRun.end_of_day: None on a day without a row, or whose last states none.
EndOfDay(e, d) ==
  LET ps == {p \in Places(e) : p[1] = d}
  IN IF ps = {} THEN None ELSE Stated(e, LastOf(ps))

Covers(e, d) == d \in e.from .. e.through

\* chain_errors: a row states no balance, or not the one before it plus its
\* own amount; one without a balance leaves the next unverified.
Breaks(e) ==
  {p \in Places(e) :
     \/ Stated(e, p) = None
     \/ LET before == {q \in Places(e) : q # p /\ UpTo(q, p)}
        IN /\ before # {}
           /\ Stated(e, LastOf(before)) # None
           /\ Stated(e, LastOf(before)) + BookingOf(e, p).amount # Stated(e, p)}

\* _rows: a row's number among the export's rows of the same day and booking.
Occurrence(e, p) ==
  Cardinality({q \in Places(e) : q[1] = p[1] /\ q[2] <= p[2]
                                 /\ BookingOf(e, q) = BookingOf(e, p)})

Identity(e, p) == [day |-> p[1], booking |-> BookingOf(e, p), k |-> Occurrence(e, p)]

\* The transaction a row of a run shows, after _remapped.
Shows(run, p) ==
  IF p \in DOMAIN run.same THEN run.same[p] ELSE Identity(run.export, p)

\* How many rows of the export have the key.
Shown(e, d, b) == Cardinality({p \in Places(e) : p[1] = d /\ BookingOf(e, p) = b})

\* Ledger.is_kept.
Kept ==
  {t \in Identities : t.k <= counts[t.day][t.booking]} \ withdrawn

-----------------------------------------------------------------------------
\* Mutant: a drop is looked for on the days the export has rows on.
DroppedWhereShown(e) ==
  {t \in Kept : /\ EndOfDay(e, t.day) # None
                /\ t.k > Shown(e, t.day, t.booking)}

\* Ledger.verdict: the transactions the export covers and no longer shows.
Dropped(e) ==
  {t \in Kept : Covers(e, t.day) /\ t.k > Shown(e, t.day, t.booking)}

\* What a day's sum changes by: rows beyond those counted, less the drops.
Change(e, dropped, d) ==
  SumFunction([b \in Bookings |-> b.amount * (IF Shown(e, d, b) > counts[d][b]
                                              THEN Shown(e, d, b) - counts[d][b] ELSE 0)])
  - SumFunction([t \in {u \in dropped : u.day = d} |-> t.booking.amount])

\* The days on which the export and the selected one both state a balance.
Compared(e) ==
  {d \in DOMAIN selected : None \notin {EndOfDay(e, d), EndOfDay(selected[d].export, d)}}

\* Mutant: a difference must be explained by its own day's changes.
DisagreementsByDay(e) ==
  LET dropped == Dropped(e)
  IN {d \in Compared(e) : EndOfDay(e, d) - EndOfDay(selected[d].export, d)
                            # Change(e, dropped, d)}

\* Ledger._disagreements: the difference is not the sum of every change on or
\* before the day.
Disagreements(e) ==
  LET dropped == Dropped(e)
  IN {d \in Compared(e) : EndOfDay(e, d) - EndOfDay(selected[d].export, d)
                            # SumFunction([c \in 1 .. d |-> Change(e, dropped, c)])}

\* _would_lose_labels: an export without bank labels would replace rows
\* that have them.
LosesLabels(e) ==
  /\ ~ e.labelled
  /\ Places(e) # {}
  /\ \E d \in DOMAIN selected : /\ Covers(e, d)
                                /\ selected[d].export.labelled
                                /\ \E p \in Places(selected[d].export) : p[1] = d

\* judge: no error, or only balance breaks and a decision to accept them.
Judged(e, accepted) == e.readable /\ (Breaks(e) = {} \/ accepted)

-----------------------------------------------------------------------------
InBooksOf(bs, d, b) == Cardinality({i \in DOMAIN bs[d] : bs[d][i] = b})

\* What the decisions may say of an export's drops: undecided, withdrawn, or
\* shown by a record of it, any (None: one that is not booked).  A withdrawn
\* decision is of the transaction, so it is met at every drop, and no
\* same-transaction stands beside it.
Rulings(e) ==
  {f \in [Dropped(e) -> Places(e) \cup {None, Withdrawn, Undecided}] :
     \A t \in DOMAIN f \cap DOMAIN ruled : f[t] = Withdrawn <=> ruled[t] = Withdrawn}

\* The drops a same-transaction names a record for.
Matched(f) == {t \in DOMAIN f : f[t] \notin {Withdrawn, Undecided}}

\* _remapped: each row a same-transaction names shows its target, the last in
\* order when several name it.
Remappings(e, f) ==
  {same \in [{f[t] : t \in Matched(f)} \ {None} -> Matched(f)] :
     \A p \in DOMAIN same : f[same[p]] = p}

\* Whether the record named for a drop shows it under new text: a row of its
\* day beyond those counted, that is named for no other drop.
Fits(e, f, t) ==
  /\ f[t] \in Places(e)
  /\ f[t][1] = t.day
  /\ Occurrence(e, f[t]) > counts[t.day][BookingOf(e, f[t])]
  /\ \A u \in Matched(f) : f[u] = f[t] => u = t

\* The days whose transactions or rows the decisions match otherwise.
Misnamed(e, f) ==
  LET amiss == {t \in Matched(f) : ~ Fits(e, f, t)}
  IN {t.day : t \in amiss} \cup {f[t][1] : t \in {u \in amiss : f[u] # None}}

\* The days on which a named row has an equal one after it that is not named.
Renumbered(run) ==
  {p[1] : p \in {q \in DOMAIN run.same :
     \E r \in Places(run.export) \ DOMAIN run.same :
       /\ r[1] = q[1] /\ r[2] > q[2]
       /\ BookingOf(run.export, r) = BookingOf(run.export, q)}}

\* The same file again, whatever range was declared for it.
SamePayload(e, g) ==
  <<e.rows, e.readable, e.labelled>> = <<g.rows, g.readable, g.labelled>>

Flawless(e) ==
  /\ e.readable
  /\ e.labelled
  /\ e.rows = RowsOf(e.books, e.from, e.through)

Admitted == {taken[i].export : i \in {j \in DOMAIN taken : taken[j].status = "accepted"}}

\* Whether another export will be made: the bank's changes after the last
\* one reach no Silver and are not explored.
MoreToCome == Len(taken) < MaxExports

-----------------------------------------------------------------------------
Init ==
  /\ today = 1
  /\ books = [d \in Days |-> <<>>]
  /\ changes = 0
  /\ taken = <<>>
  /\ counts = [d \in Days |-> [b \in Bookings |-> 0]]
  /\ selected = <<>>
  /\ withdrawn = {}
  /\ ruled = <<>>

NextDay ==
  /\ MoreToCome
  /\ today < MaxDay
  /\ today' = today + 1
  /\ UNCHANGED <<books, changes, taken, ledger, ruled>>

\* The bank books a transaction, today or late.
Book(d, b) ==
  /\ MoreToCome
  /\ d <= today
  /\ Cardinality(InBooks(books)) < MaxBooked
  /\ books' = [books EXCEPT ![d] = Append(@, b)]
  /\ UNCHANGED <<today, changes, taken, ledger, ruled>>

\* The bank takes a transaction out, or words it otherwise.
BankCorrects(p) ==
  /\ MoreToCome
  /\ changes < MaxChanges
  /\ changes' = changes + 1
  /\ \/ books' = [books EXCEPT ![p[1]] =
                    [i \in 1 .. Len(@) - 1 |-> IF i < p[2] THEN @[i] ELSE @[i + 1]]]
     \/ \E b \in Bookings :
          /\ b.amount = books[p[1]][p[2]].amount
          /\ b # books[p[1]][p[2]]
          /\ books' = [books EXCEPT ![p[1]][p[2]] = b]
  /\ UNCHANGED <<today, taken, ledger, ruled>>

\* What may be wrong with a file: it cannot be read (whatever it holds), has no
\* bank labels, lacks a row or states no balance on one.
Flawed(e) ==
  {[e EXCEPT !.readable = FALSE, !.rows = <<>>, !.books = [d \in Days |-> <<>>]],
   [e EXCEPT !.labelled = FALSE]}
  \cup {[e EXCEPT !.rows = [p \in Places(e) \ {q} |-> e.rows[p]]] : q \in Places(e)}
  \cup {[e EXCEPT !.rows[q].balance = None] : q \in Places(e)}

\* The files a download over the range may give; at most MaxFlaws are flawed,
\* and not the last, whose effect on later ones is not explored.
Files(from, through) ==
  LET e == [from |-> from, through |-> through, books |-> books,
            rows |-> RowsOf(books, from, through), readable |-> TRUE, labelled |-> TRUE]
      flawed == {i \in DOMAIN taken : ~ Flawless(taken[i].export)}
  IN {e} \cup (IF Cardinality(flawed) < MaxFlaws /\ Len(taken) + 1 < MaxExports
              THEN Flawed(e) ELSE {})

-----------------------------------------------------------------------------
Took(run, status) ==
  /\ taken' = Append(taken, [export |-> run.export, same |-> run.same,
                             misnamed |-> run.misnamed, status |-> status])
  /\ UNCHANGED bank

\* A run none of whose records shows another transaction.
AsRead(e) == [export |-> e, same |-> <<>>, misnamed |-> {}]

IsRepeat(e) ==
  \E i \in DOMAIN taken : taken[i].status # "repeat" /\ SamePayload(e, taken[i].export)

\* Bronze holds the payload already: the run is a repeat and is not judged.
TakeRepeat(e) ==
  /\ IsRepeat(e)
  /\ Took(AsRead(e), "repeat")
  /\ UNCHANGED <<ledger, ruled>>

\* Its own errors, or lost labels, quarantine it before it is merged.
Refuse(e) ==
  /\ ~ IsRepeat(e)
  /\ \E accepted \in BOOLEAN : ~ Judged(e, accepted) \/ LosesLabels(e)
  /\ Took(AsRead(e), "quarantined")
  /\ UNCHANGED <<ledger, ruled>>

Consult(f) ==
  ruled' = [t \in DOMAIN ruled \cup DOMAIN f |->
              IF t \in DOMAIN ruled THEN ruled[t]
              ELSE IF f[t] = Withdrawn THEN Withdrawn ELSE Undecided]

Unsettled(f) == \E t \in DOMAIN f : f[t] = Undecided

\* A drop is undecided, or a balance is not explained.
Quarantine(e) ==
  /\ ~ IsRepeat(e)
  /\ \E accepted \in BOOLEAN : Judged(e, accepted)
  /\ ~ LosesLabels(e)
  /\ \E f \in Rulings(e) :
       /\ Unsettled(f) \/ Disagreements(e) # {}
       /\ Consult(f)
  /\ Took(AsRead(e), "quarantined")
  /\ UNCHANGED ledger

\* Mutant: the latest count of a key replaces the highest.
EnterLatest(run) ==
  LET e == run.export
      Showing(d, b) == {p \in Places(e) : /\ Shows(run, p).day = d
                                          /\ Shows(run, p).booking = b}
  IN /\ counts' = [d \in Days |-> [b \in Bookings |->
                     IF Covers(e, d) THEN Cardinality(Showing(d, b)) ELSE counts[d][b]]]
     /\ selected' = [d \in DOMAIN selected \cup {p[1] : p \in Places(e)} |->
                       IF Covers(e, d) THEN run ELSE selected[d]]

\* Ledger.admit: the highest count of each key is kept, and the run becomes
\* the export of the days it has rows on and of those it covers.
Enter(run) ==
  LET e == run.export
      Showing(d, b) == {p \in Places(e) : /\ Shows(run, p).day = d
                                          /\ Shows(run, p).booking = b}
  IN /\ counts' = [d \in Days |-> [b \in Bookings |->
                     IF Cardinality(Showing(d, b)) > counts[d][b]
                     THEN Cardinality(Showing(d, b)) ELSE counts[d][b]]]
     /\ selected' = [d \in DOMAIN selected \cup {p[1] : p \in Places(e)} |->
                       IF Covers(e, d) THEN run ELSE selected[d]]

Admit(e) ==
  /\ ~ IsRepeat(e)
  /\ \E accepted \in BOOLEAN : Judged(e, accepted)
  /\ ~ LosesLabels(e)
  /\ Disagreements(e) = {}
  /\ \E f \in Rulings(e) :
       /\ ~ Unsettled(f)
       /\ Consult(f)
       /\ withdrawn' = withdrawn \cup {t \in DOMAIN f : f[t] = Withdrawn}
       /\ \E same \in Remappings(e, f) :
            LET run == [export |-> e, same |-> same, misnamed |-> Misnamed(e, f)]
            IN Enter(run) /\ Took(run, "accepted")

Take(e) == TakeRepeat(e) \/ Refuse(e) \/ Quarantine(e) \/ Admit(e)

Next ==
  \/ NextDay
  \/ \E d \in Days, b \in Bookings : Book(d, b)
  \/ \E p \in InBooks(books) : BankCorrects(p)
  \/ \E from, through \in 1 .. today :
       /\ MoreToCome
       /\ from <= through
       /\ \E e \in Files(from, through) : Take(e)

Spec == Init /\ [][Next]_vars

-----------------------------------------------------------------------------
TypeOK ==
  /\ today \in Days
  /\ books \in [Days -> Seq(Bookings)]
  /\ changes \in 0 .. MaxChanges
  /\ \A i \in DOMAIN taken : taken[i].status \in {"repeat", "quarantined", "accepted"}
  /\ counts \in [Days -> [Bookings -> 0 .. MaxBooked]]
  /\ DOMAIN selected \subseteq Days
  /\ \A d \in DOMAIN selected : Covers(selected[d].export, d)
  /\ withdrawn \subseteq Identities
  /\ withdrawn \subseteq {t \in Identities : t.k <= counts[t.day][t.booking]}
  /\ DOMAIN ruled \subseteq Identities /\ ruled \in [DOMAIN ruled -> {Withdrawn, Undecided}]
  /\ withdrawn \subseteq {t \in DOMAIN ruled : ruled[t] = Withdrawn}

\* Each kept transaction of the day is shown by one row of the day's selected
\* export, and every other row of that day shows a withdrawn one.
ShowsItsKept(d) ==
  LET kept == {t \in Kept : t.day = d}
  IN IF d \notin DOMAIN selected THEN kept = {}
     ELSE LET rows == {p \in Places(selected[d].export) :
                         p[1] = d /\ Shows(selected[d], p) \notin withdrawn}
          IN /\ {Shows(selected[d], p) : p \in rows} = kept
             /\ Cardinality(rows) = Cardinality(kept)

\* Each day's selected export shows every transaction kept for the day, each
\* by one row, and no row of it is left out but a withdrawn one's
\* (silver-layer.md, "the selected export always does show every transaction
\* kept for its dates").  Except a day on which a decision admitted that export
\* by a record that is no new row of the day, or by a new row with an equal
\* one after it that no decision names.
DayIsItsExport ==
  \A d \in Days :
    \/ d \in DOMAIN selected /\ d \in selected[d].misnamed \cup Renumbered(selected[d])
    \/ ShowsItsKept(d)

\* The same of every day whose decisions name new rows of the day, whichever
\* of several equal ones: not so (see README.md).
NewRowsShowDrops ==
  \A d \in Days :
    \/ d \in DOMAIN selected /\ d \in selected[d].misnamed
    \/ ShowsItsKept(d)

Grown(before, after) ==
  \A d \in Days, b \in Bookings : InBooksOf(before, d, b) <= InBooksOf(after, d, b)

\* The runs accepted before the i-th.
AcceptedBefore(i) == {j \in 1 .. i - 1 : taken[j].status = "accepted"}

\* The i-th export starts where those admitted before it do or later, leaves no
\* gap and reaches as far as they do.
Continues(i) ==
  LET e == taken[i].export
      earlier == {taken[j].export : j \in AcceptedBefore(i)}
  IN earlier # {} =>
       /\ \E g \in earlier : g.from <= e.from
       /\ \E g \in earlier : e.from <= g.through + 1
       /\ \A g \in earlier : g.through <= e.through

\* What may be held against the i-th export, or one admitted before it: that one
\* is flawed or shows something the bank took out since, or that a day before
\* the range of a later one had changed since.
Outgrown(i) ==
  \E j \in AcceptedBefore(i) :
    LET g == taken[j].export
    IN \/ ~ Flawless(g)
       \/ \E k \in AcceptedBefore(i) \cup {i} :
            /\ k > j
            /\ \/ ~ Grown(g.books, taken[k].export.books)
               \/ \E d \in Days : /\ d < taken[k].export.from
                                 /\ g.books[d] # taken[k].export.books[d]

\* Normal data is admitted: a flawless export is quarantined only if an admitted
\* one is flawed or the books did not just grow within the ranges, or if it or
\* an admitted one does not continue those before it.
GrowthIsAdmitted ==
  \A i \in DOMAIN taken :
    taken[i].status = "quarantined" /\ Flawless(taken[i].export) =>
      \/ Outgrown(i)
      \/ \E k \in AcceptedBefore(i) \cup {i} : ~ Continues(k)

\* The same whatever range an export reaches over: not so (see README.md).
GrowthOverAnyRange ==
  \A i \in DOMAIN taken :
    taken[i].status = "quarantined" /\ Flawless(taken[i].export) => Outgrown(i)

=============================================================================
