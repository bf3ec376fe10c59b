---------------------------- MODULE DecisionLog ----------------------------
(***************************************************************************)
(* decisions.jsonl: how it is replayed, appended to, cut off, edited by    *)
(* hand and checked (src/budget/decision_log.py, deciding.py, checking.py).*)
(*                                                                         *)
(* A command that holds the writer lock, `decide` or a build, reads the    *)
(* log once and judges it line by line.  `budget check` takes no lock: it  *)
(* reads the recipes at one instant and the log at another, while a        *)
(* decision is appended or a publication made in between.                  *)
(*                                                                         *)
(* An entry is what its keys mean: the targets and superseded decisions as *)
(* sets, a line that is no such object (not JSON, a repeated or unknown    *)
(* key, a list with a repeat) as Garbled.  The hash of a prefix is the     *)
(* prefix itself.  Whether a target exists, and whether Gold could apply   *)
(* the decision, is left open: Refuse may end any decision.                *)
(***************************************************************************)
EXTENDS Naturals, Sequences, FiniteSets

CONSTANTS
  Targets,     \* transactions, and import runs, that a decision may name
  Payloads,    \* payloads whose records a same-transaction may name
  Kinds,       \* the kinds of decision taken, of DecisionKinds
  DecisionIds, \* 1, 2, ... stand for d-0001, d-0002, ...
  HandLines,   \* the lines a hand may write into the log
  Unset,       \* no payload, no prefixes read
  Garbled,     \* a line that is no well-formed entry
  MaxLines,    \* bound on the length of the log
  MaxHands,    \* bound on edits of the log by hand
  MaxRecipes   \* bound on log prefixes that recipes record

DecisionKinds ==
  {"classify", "pair", "one-sided-transfer", "void-import-run",
   "accept-discrepancy", "withdrawn", "same-transaction", "retract"}

ASSUME KindsAssumption == Kinds \subseteq DecisionKinds

ASSUME UnsetAssumption == Unset \notin Payloads

ASSUME LogBounds ==
  /\ MaxLines \in Nat
  /\ MaxHands \in Nat
  /\ MaxRecipes \in Nat
  /\ 1 .. MaxLines \subseteq DecisionIds

VARIABLES
  lines,      \* the complete lines of the log
  cut,        \* whether a last line without a line feed follows them
  command,    \* the command under the writer lock: decide, build or none
  content,    \* the lines it has read
  at,         \* how many of them it has judged
  in_force,   \* _Replay.in_force: the decisions in force, by id
  used,       \* _Replay.used: the ids that valid entries have taken
  holders,    \* _Replay.holders: which decision holds each claim
  flawed,     \* whether _Replay.problems names anything
  valid,      \* history: the positions whose entries were found valid
  recipes,    \* the log prefixes the publications' recipes record
  recorded,   \* the prefixes `check` has read from them, or Unset
  mismatched, \* whether the last `check` found one the log no longer holds
  hands       \* history: how often the log was edited by hand

logVars == <<lines, cut, command, content, at, in_force, used, holders, flawed, valid,
             recipes, recorded, mismatched, hands>>

\* What the command has read and judged.
replay == <<content, at, in_force, used, holders, flawed, valid>>

-----------------------------------------------------------------------------
Group(kind) ==
  CASE kind \in {"classify", "pair", "one-sided-transfer"} -> "classification"
    [] kind \in {"void-import-run", "accept-discrepancy"} -> "import-run"
    [] kind \in {"withdrawn", "same-transaction"} -> "bank-change"
    [] kind = "retract" -> Unset

\* How many targets a kind has, as _KINDS lists them.
Arity(kind) == CASE kind = "retract" -> 0 [] kind = "pair" -> 2 [] OTHER -> 1

TargetsOf(kind) == {ts \in SUBSET Targets : Cardinality(ts) = Arity(kind)}

PayloadsOf(kind) == IF kind = "same-transaction" THEN Payloads ELSE {Unset}

\* What a person decides, before the platform numbers it.
Proposals ==
  UNION {[kind: {k}, targets: TargetsOf(k), payload: PayloadsOf(k),
          supersedes: {s \in SUBSET DecisionIds : k = "retract" => s # {}}] : k \in Kinds}

\* The entry a decision is written as.
EntryOf(p, number, id) ==
  [entry |-> number, id |-> id, kind |-> p.kind, targets |-> p.targets,
   payload |-> p.payload, supersedes |-> p.supersedes]

Entries == {EntryOf(p, n, i) : p \in Proposals, n \in 1 .. MaxLines, i \in DecisionIds}

Line == Entries \cup {Garbled}

ASSUME GarbledAssumption == Garbled \notin Entries

ASSUME HandLinesAssumption == HandLines \subseteq Line

\* What a decision holds: one target within its kind's collision group, and
\* of a same-transaction that target for its record's payload only.
Claim ==
  [group: {"classification", "import-run", "bank-change"}, target: Targets,
   payload: Payloads \cup {Unset}]

Overlaps(c, d) ==
  /\ c.group = d.group
  /\ c.target = d.target
  /\ Unset \in {c.payload, d.payload} \/ c.payload = d.payload

\* Mutant: a claim is for the entry, not for its record's payload.
ClaimsForEntry(e) ==
  {[group |-> Group(e.kind), target |-> t, payload |-> e.entry] : t \in e.targets}

Claims(e) ==
  IF e.kind = "retract" THEN {}
  ELSE {[group |-> Group(e.kind), target |-> t, payload |-> e.payload] : t \in e.targets}

-----------------------------------------------------------------------------
\* _shape_problems finds nothing wrong with the line.
WellFormed(line, position) == line # Garbled /\ line.entry = position

\* Mutant: the index is asked for the claim itself only.
HoldersOfExactly(c) == {holders[d] : d \in {h \in DOMAIN holders : h = c}}

\* _Replay._holders: the decisions in force whose claims overlap c.
Holders(c) == {holders[d] : d \in {h \in DOMAIN holders : Overlaps(c, h)}}

\* _Replay._clashes: e claims what a decision holds that it does not supersede.
Clashes(e) == \E c \in Claims(e) : ~ Holders(c) \subseteq e.supersedes

\* _Replay._unrelated: e supersedes a decision it shares no claim with.
Unrelated(e) ==
  /\ e.kind # "retract"
  /\ \E s \in e.supersedes \cap DOMAIN in_force :
       \A c \in Claims(e), d \in Claims(in_force[s]) : ~ Overlaps(c, d)

\* _Replay.history_problems finds nothing wrong with the well-formed entry.
Admissible(e) ==
  /\ e.id \notin used
  /\ e.supersedes \subseteq DOMAIN in_force
  /\ ~ Unrelated(e)
  /\ ~ Clashes(e)

Superseded(e) == UNION {Claims(in_force[s]) : s \in e.supersedes}

-----------------------------------------------------------------------------
LogInit ==
  /\ lines = <<>>
  /\ cut = FALSE
  /\ command = "none"
  /\ content = <<>>
  /\ at = 0
  /\ in_force = <<>>
  /\ used = {}
  /\ holders = <<>>
  /\ flawed = FALSE
  /\ valid = {}
  /\ recipes = {}
  /\ recorded = Unset
  /\ mismatched = FALSE
  /\ hands = 0

\* _Replay as it starts, over the lines that were read.
Replay(ls) ==
  /\ content' = ls
  /\ at' = 0
  /\ in_force' = <<>>
  /\ used' = {}
  /\ holders' = <<>>
  /\ flawed' = FALSE
  /\ valid' = {}

\* A command takes the lock and reads the log; a cut-off last line counts as
\* never written, and `decide` refuses while it stands.
Begin(c) ==
  /\ command = "none"
  /\ c = "decide" => ~ cut
  /\ command' = c
  /\ Replay(lines)
  /\ UNCHANGED <<lines, cut, recipes, recorded, mismatched, hands>>

End == command' = "none" /\ Replay(<<>>)

\* Mutant: what the new entry claims is taken out of the index again.
EnterThenRelease(e) ==
  /\ in_force' =
       [i \in (DOMAIN in_force \ e.supersedes) \cup (IF e.kind = "retract" THEN {} ELSE {e.id})
          |-> IF i = e.id THEN e ELSE in_force[i]]
  /\ holders' =
       [c \in (DOMAIN holders \cup Claims(e)) \ Superseded(e)
          |-> IF c \in Claims(e) THEN e.id ELSE holders[c]]

\* A valid entry releases what it supersedes, then holds its own claims.
Enter(e) ==
  /\ in_force' =
       [i \in (DOMAIN in_force \ e.supersedes) \cup (IF e.kind = "retract" THEN {} ELSE {e.id})
          |-> IF i = e.id THEN e ELSE in_force[i]]
  /\ holders' =
       [c \in (DOMAIN holders \ Superseded(e)) \cup Claims(e)
          |-> IF c \in Claims(e) THEN e.id ELSE holders[c]]

\* _Replay.read: the next line is judged and, if valid, brought into force.
Judge ==
  /\ command # "none"
  /\ at < Len(content)
  /\ at' = at + 1
  /\ LET e == content[at + 1]
     IN IF WellFormed(e, at + 1) /\ Admissible(e)
        THEN /\ Enter(e)
             /\ used' = used \cup {e.id}
             /\ valid' = valid \cup {at + 1}
             /\ UNCHANGED flawed
        ELSE /\ flawed' = TRUE
             /\ UNCHANGED <<in_force, used, holders, valid>>
  /\ UNCHANGED <<lines, cut, command, content, recipes, recorded, mismatched, hands>>

Replayed(c) == command = c /\ at = Len(content)

\* `propose`: the position the decision will have.
Number == Len(content) + 1

\* Mutant: the decision is judged on its targets only, not on what it supersedes.
MayRecordUnrelated(e) == e.id \notin used /\ ~ Clashes(e)

MayRecord(e) == Admissible(e)

\* The decision passes every rule and is appended with its line feed.
Record ==
  /\ Replayed("decide")
  /\ ~ flawed
  /\ Len(lines) < MaxLines /\ Number <= MaxLines
  /\ \E p \in Proposals :
       LET e == EntryOf(p, Number, Number)
       IN MayRecord(e) /\ lines' = Append(lines, e)
  /\ End
  /\ UNCHANGED <<cut, recipes, recorded, mismatched, hands>>

\* A crash while appending leaves part of the line.
CrashAppending ==
  /\ Replayed("decide")
  /\ ~ flawed
  /\ Len(lines) < MaxLines /\ Number <= MaxLines
  /\ \E p \in Proposals : MayRecord(EntryOf(p, Number, Number))
  /\ cut' = TRUE
  /\ End
  /\ UNCHANGED <<lines, recipes, recorded, mismatched, hands>>

\* A build that found the log sound publishes; its recipe records the prefix.
PublishRecipe ==
  /\ Replayed("build")
  /\ ~ flawed
  /\ Cardinality(recipes \cup {content}) <= MaxRecipes
  /\ recipes' = recipes \cup {content}
  /\ End
  /\ UNCHANGED <<lines, cut, recorded, mismatched, hands>>

\* The command refuses, fails or is killed before it writes.
Refuse ==
  /\ command # "none"
  /\ End
  /\ UNCHANGED <<lines, cut, recipes, recorded, mismatched, hands>>

-----------------------------------------------------------------------------
\* `check` reads the prefixes every recipe records.
CheckReadsRecipes ==
  /\ recorded = Unset
  /\ recorded' = recipes
  /\ UNCHANGED mismatched

\* Mutant: a prefix must be the whole of the log.
HoldsAll(ls, prefix) == ls = prefix

\* The log still begins with the recorded prefix: its hash is the same.
Holds(ls, prefix) == Len(prefix) <= Len(ls) /\ SubSeq(ls, 1, Len(prefix)) = prefix

\* Then it reads the log, and names each prefix the log no longer holds.
CheckReadsLog ==
  /\ recorded # Unset
  /\ mismatched' = (\E prefix \in recorded : ~ Holds(lines, prefix))
  /\ recorded' = Unset

Check ==
  /\ CheckReadsRecipes \/ CheckReadsLog
  /\ UNCHANGED <<lines, cut, command, recipes, hands, replay>>

-----------------------------------------------------------------------------
\* The one safe edit by hand: deleting a cut-off last line.
DeleteCutOff ==
  /\ cut
  /\ cut' = FALSE
  /\ UNCHANGED <<lines, command, recipes, recorded, mismatched, hands, replay>>

\* A hand adds a line, rewrites one or takes one out (an earlier copy put back
\* is the last lines taken out).
EditByHand ==
  /\ hands < MaxHands
  /\ \/ \E l \in HandLines : Len(lines) < MaxLines /\ lines' = Append(lines, l)
     \/ \E i \in DOMAIN lines, l \in HandLines : lines' = [lines EXCEPT ![i] = l]
     \/ \E i \in DOMAIN lines :
          lines' = SubSeq(lines, 1, i - 1) \o SubSeq(lines, i + 1, Len(lines))
  /\ cut' = FALSE
  /\ hands' = hands + 1
  /\ UNCHANGED <<command, recipes, recorded, mismatched, replay>>

LogNext ==
  \/ \E c \in {"decide", "build"} : Begin(c)
  \/ Judge
  \/ Record
  \/ CrashAppending
  \/ PublishRecipe
  \/ Refuse
  \/ Check
  \/ DeleteCutOff
  \/ EditByHand

LogSpec == LogInit /\ [][LogNext]_logVars

-----------------------------------------------------------------------------
LogTypeOK ==
  /\ lines \in Seq(Line)
  /\ cut \in BOOLEAN
  /\ command \in {"none", "decide", "build"}
  /\ content \in Seq(Line)
  /\ at \in 0 .. Len(content)
  /\ used \in SUBSET DecisionIds
  /\ DOMAIN in_force \subseteq used
  /\ \A i \in DOMAIN in_force : in_force[i] \in Entries
  /\ DOMAIN holders \subseteq Claim
  /\ flawed \in BOOLEAN
  /\ valid \subseteq 1 .. at
  /\ recipes \in SUBSET Seq(Line)
  /\ recorded \in (SUBSET Seq(Line)) \cup {Unset}
  /\ mismatched \in BOOLEAN
  /\ hands \in 0 .. MaxHands

\* No two decisions in force hold anything in common, whatever the lines of
\* the log are: a transaction has one classification, an import run one
\* admission, a change at the bank one explanation (_clashes, ADR-011).
ClaimsDisjoint ==
  \A i, j \in DOMAIN in_force :
    \A c \in Claims(in_force[i]), d \in Claims(in_force[j]) :
      Overlaps(c, d) => i = j /\ c = d

Valid == {content[p] : p \in valid}

\* What the replay keeps by popping and indexing is what the log says as a
\* whole: in force is every valid decision that no valid entry supersedes, a
\* superseded one never comes back when its successor is retracted, and the
\* index names exactly the holders of what is claimed.
ReplayAgrees ==
  /\ DOMAIN in_force =
       {e.id : e \in {v \in Valid :
                         v.kind # "retract" /\ \A u \in Valid : v.id \notin u.supersedes}}
  /\ \A e \in Valid : e.id \in DOMAIN in_force => in_force[e.id] = e
  /\ DOMAIN holders = UNION {Claims(in_force[i]) : i \in DOMAIN in_force}
  /\ \A c \in DOMAIN holders :
       holders[c] \in DOMAIN in_force /\ c \in Claims(in_force[holders[c]])

\* An entry that `decide` accepted passes every later read: as long as no
\* hand edits the log, crashes and cut-off lines included, no replay of it
\* finds a problem (the docstring of history_problems).
OwnEntriesStayValid == hands = 0 => ~ flawed

\* `check` takes no lock, yet it names no recorded prefix as lost while the
\* log is only appended to: it reads the recipes first (checking.check).
NoFalseAlarm == hands = 0 => ~ mismatched

=============================================================================
