------------------------- MODULE DecisionLogProofs -------------------------
(***************************************************************************)
(* What every replay of decisions.jsonl keeps, for any log: the claims in  *)
(* force never overlap, and what is popped and indexed line by line is     *)
(* what the valid lines say as a whole.  And what `check` may never say of *)
(* a log no hand has edited.                                               *)
(***************************************************************************)
EXTENDS DecisionLog, TLAPS, SequenceTheorems

(* A claim of a well-formed entry is a claim.                              *)
LEMMA ClaimsType ==
  ASSUME NEW e \in Entries
  PROVE  /\ Claims(e) \subseteq Claim
         /\ e.id \in DecisionIds
         /\ e.supersedes \in SUBSET DecisionIds
         /\ e.kind = "retract" => Claims(e) = {}
<1>1. PICK p \in Proposals, n \in 1 .. MaxLines, i \in DecisionIds : e = EntryOf(p, n, i)
  BY DEF Entries
<1>2. PICK k \in Kinds :
        p \in [kind : {k}, targets : TargetsOf(k), payload : PayloadsOf(k),
               supersedes : {s \in SUBSET DecisionIds : k = "retract" => s # {}}]
  BY DEF Proposals
<1>3. /\ e.kind = k
      /\ e.targets \in SUBSET Targets
      /\ e.payload \in Payloads \cup {Unset}
      /\ e.supersedes \in SUBSET DecisionIds
      /\ e.id = i
  BY <1>1, <1>2 DEF EntryOf, TargetsOf, PayloadsOf
<1>4. k # "retract" => Group(k) \in {"classification", "import-run", "bank-change"}
  BY KindsAssumption DEF Group, DecisionKinds
<1> QED
  BY <1>3, <1>4 DEF Claims, Claim

(* Two claims of one entry that overlap are one claim.                     *)
LEMMA OwnClaimsDisjoint ==
  ASSUME NEW e \in Entries, NEW c \in Claims(e), NEW d \in Claims(e), Overlaps(c, d)
  PROVE  c = d
BY DEF Claims, Overlaps

-----------------------------------------------------------------------------
(* The ids that valid entries name are used.                               *)
ValidUsed == \A v \in Valid : v \in Entries /\ v.id \in used /\ v.supersedes \subseteq used

ReplayInv == ClaimsDisjoint /\ ReplayAgrees /\ ValidUsed

(* A replay starts with nothing in force.                                  *)
LEMMA ReplayStarts ==
  ASSUME NEW ls, Replay(ls)
  PROVE  ReplayInv'
BY DEF Replay, ReplayInv, ClaimsDisjoint, ReplayAgrees, ValidUsed, Valid

LEMMA ReplayStutters ==
  ASSUME ReplayInv, UNCHANGED replay
  PROVE  ReplayInv'
BY DEF replay, ReplayInv, ClaimsDisjoint, ReplayAgrees, ValidUsed, Valid

-----------------------------------------------------------------------------
(* Bringing a valid entry into force.                                      *)

(* The claims an admissible entry does not release overlap none of its own.*)
LEMMA KeptClaimsApart ==
  ASSUME ReplayInv, NEW e \in Entries, Admissible(e),
         NEW i \in DOMAIN in_force \ e.supersedes,
         NEW c \in Claims(e), NEW d \in Claims(in_force[i])
  PROVE  ~ Overlaps(c, d)
<1> SUFFICES ASSUME Overlaps(c, d)
             PROVE  FALSE
  OBVIOUS
<1>1. d \in DOMAIN holders
  BY DEF ReplayInv, ReplayAgrees
<1>2. holders[d] \in DOMAIN in_force /\ d \in Claims(in_force[holders[d]])
  BY <1>1 DEF ReplayInv, ReplayAgrees
<1>3. Overlaps(d, d)
  BY DEF Overlaps
<1>4. holders[d] = i
  BY <1>2, <1>3 DEF ReplayInv, ClaimsDisjoint
<1>5. holders[d] \in Holders(c)
  BY <1>1 DEF Holders
<1> QED
  BY <1>4, <1>5 DEF Admissible, Clashes

LEMMA EnterKeepsClaimsDisjoint ==
  ASSUME ReplayInv, NEW e \in Entries, Admissible(e), Enter(e)
  PROVE  ClaimsDisjoint'
<1> SUFFICES ASSUME NEW i \in DOMAIN in_force', NEW j \in DOMAIN in_force',
                    NEW c \in Claims(in_force'[i]), NEW d \in Claims(in_force'[j]),
                    Overlaps(c, d)
             PROVE  i = j /\ c = d
  BY DEF ClaimsDisjoint
<1>1. \A k \in DOMAIN in_force' :
        \/ k = e.id /\ in_force'[k] = e
        \/ /\ k # e.id
           /\ k \in DOMAIN in_force \ e.supersedes
           /\ in_force'[k] = in_force[k]
  BY DEF Enter
<1>2. Overlaps(d, c)
  BY DEF Overlaps
<1>3. CASE i = e.id /\ j = e.id
  BY <1>1, <1>3, OwnClaimsDisjoint
<1>4. CASE i = e.id /\ j # e.id
  BY <1>1, <1>4, KeptClaimsApart
<1>5. CASE i # e.id /\ j = e.id
  BY <1>1, <1>2, <1>5, KeptClaimsApart
<1>6. CASE i # e.id /\ j # e.id
  BY <1>1, <1>6 DEF ReplayInv, ClaimsDisjoint
<1> QED
  BY <1>3, <1>4, <1>5, <1>6

LEMMA EnterKeepsAgreement ==
  ASSUME ReplayInv, NEW e \in Entries, Admissible(e), Enter(e),
         used' = used \cup {e.id}, Valid' = Valid \cup {e},
         DOMAIN in_force \subseteq used
  PROVE  ReplayAgrees' /\ ValidUsed'
<1>1. /\ e.id \notin used
      /\ e.supersedes \subseteq DOMAIN in_force
      /\ e.id \notin e.supersedes
  BY DEF Admissible
<1>2. ValidUsed'
  BY <1>1 DEF ReplayInv, ValidUsed
<1>3. \A v \in Valid : v.id # e.id /\ e.id \notin v.supersedes
  BY <1>1 DEF ReplayInv, ValidUsed
<1>4. DOMAIN in_force' =
        (DOMAIN in_force \ e.supersedes) \cup (IF e.kind = "retract" THEN {} ELSE {e.id})
  BY DEF Enter
<1>5. DOMAIN in_force' =
        {v.id : v \in {w \in Valid' :
                         w.kind # "retract" /\ \A u \in Valid' : w.id \notin u.supersedes}}
  <2> DEFINE Old == {w \in Valid : w.kind # "retract" /\ \A u \in Valid : w.id \notin u.supersedes}
             New == {w \in Valid' : w.kind # "retract" /\ \A u \in Valid' : w.id \notin u.supersedes}
  <2>1. DOMAIN in_force = {v.id : v \in Old}
    BY DEF ReplayInv, ReplayAgrees
  <2>2. New = {w \in Old : w.id \notin e.supersedes}
                \cup (IF e.kind = "retract" THEN {} ELSE {e})
    BY <1>1, <1>3
  <2> HIDE DEF Old, New
  <2>3. {v.id : v \in New} =
          {v.id : v \in {w \in Old : w.id \notin e.supersedes}}
             \cup (IF e.kind = "retract" THEN {} ELSE {e.id})
    BY <2>2
  <2>4. {v.id : v \in {w \in Old : w.id \notin e.supersedes}} = {v.id : v \in Old} \ e.supersedes
    OBVIOUS
  <2>5. DOMAIN in_force' = {v.id : v \in New}
    BY <1>4, <2>1, <2>3, <2>4
  <2> QED
    BY <2>5 DEF New
<1>6. \A v \in Valid' : v.id \in DOMAIN in_force' => in_force'[v.id] = v
  <2> TAKE v \in Valid'
  <2> HAVE v.id \in DOMAIN in_force'
  <2>1. CASE v = e
    BY <2>1 DEF Enter
  <2>2. CASE v # e
    <3>1. v \in Valid /\ v.id # e.id
      BY <1>3, <2>2
    <3>2. v.id \in DOMAIN in_force
      BY <1>4, <3>1
    <3>3. in_force'[v.id] = in_force[v.id]
      BY <3>1 DEF Enter
    <3> QED
      BY <3>1, <3>2, <3>3 DEF ReplayInv, ReplayAgrees
  <2> QED
    BY <2>1, <2>2
<1>7. DOMAIN holders' = (DOMAIN holders \ Superseded(e)) \cup Claims(e)
  BY DEF Enter
<1>8. \A i \in DOMAIN in_force' :
        IF i = e.id THEN in_force'[i] = e
        ELSE i \in DOMAIN in_force \ e.supersedes /\ in_force'[i] = in_force[i]
  BY DEF Enter
<1>9. DOMAIN holders' = UNION {Claims(in_force'[i]) : i \in DOMAIN in_force'}
  <2>1. ASSUME NEW c \in DOMAIN holders'
        PROVE  \E i \in DOMAIN in_force' : c \in Claims(in_force'[i])
    <3>1. CASE c \in Claims(e)
      <4>1. e.kind # "retract"
        BY <3>1, ClaimsType
      <4> QED
        BY <1>4, <1>8, <3>1, <4>1
    <3>2. CASE c \in DOMAIN holders \ Superseded(e)
      <4>1. PICK i \in DOMAIN in_force : c \in Claims(in_force[i])
        BY <3>2 DEF ReplayInv, ReplayAgrees
      <4>2. i \notin e.supersedes
        BY <3>2, <4>1 DEF Superseded
      <4>3. i # e.id
        BY <1>1
      <4> QED
        BY <1>4, <1>8, <4>1, <4>2, <4>3
    <3> QED
      BY <1>7, <2>1, <3>1, <3>2
  <2>2. ASSUME NEW i \in DOMAIN in_force', NEW c \in Claims(in_force'[i])
        PROVE  c \in DOMAIN holders'
    <3>1. CASE i = e.id
      BY <1>7, <1>8, <2>2, <3>1
    <3>2. CASE i # e.id
      <4>1. i \in DOMAIN in_force \ e.supersedes /\ c \in Claims(in_force[i])
        BY <1>8, <2>2, <3>2
      <4>2. c \in DOMAIN holders
        BY <4>1 DEF ReplayInv, ReplayAgrees
      <4>3. c \notin Superseded(e)
        <5> SUFFICES ASSUME NEW s \in e.supersedes, c \in Claims(in_force[s])
                     PROVE  FALSE
          BY DEF Superseded
        <5>1. Overlaps(c, c)
          BY DEF Overlaps
        <5>2. s = i
          BY <1>1, <4>1, <5>1 DEF ReplayInv, ClaimsDisjoint
        <5> QED
          BY <4>1, <5>2
      <4> QED
        BY <1>7, <4>2, <4>3
    <3> QED
      BY <3>1, <3>2
  <2> QED
    BY <2>1, <2>2
<1>10. \A c \in DOMAIN holders' :
         holders'[c] \in DOMAIN in_force' /\ c \in Claims(in_force'[holders'[c]])
  <2> TAKE c \in DOMAIN holders'
  <2>1. CASE c \in Claims(e)
    <3>1. e.kind # "retract"
      BY <2>1, ClaimsType
    <3>2. holders'[c] = e.id
      BY <2>1 DEF Enter
    <3> QED
      BY <1>4, <1>8, <2>1, <3>1, <3>2
  <2>2. CASE c \notin Claims(e)
    <3>1. c \in DOMAIN holders \ Superseded(e) /\ holders'[c] = holders[c]
      BY <2>2 DEF Enter
    <3>2. holders[c] \in DOMAIN in_force /\ c \in Claims(in_force[holders[c]])
      BY <3>1 DEF ReplayInv, ReplayAgrees
    <3>3. holders[c] \notin e.supersedes /\ holders[c] # e.id
      BY <1>1, <3>1, <3>2 DEF Superseded
    <3> QED
      BY <1>4, <1>8, <3>1, <3>2, <3>3
  <2> QED
    BY <2>1, <2>2
<1> QED
  BY <1>2, <1>5, <1>6, <1>9, <1>10 DEF ReplayAgrees

-----------------------------------------------------------------------------
(* Types.                                                                  *)

(* An edit by hand leaves a sequence of lines.                             *)
LEMMA EditedType ==
  ASSUME EditByHand, lines \in Seq(Line)
  PROVE  lines' \in Seq(Line)
<1>1. HandLines \subseteq Line
  BY HandLinesAssumption
<1>2. CASE \E l \in HandLines : lines' = Append(lines, l)
  BY <1>1, <1>2
<1>3. CASE \E i \in DOMAIN lines, l \in HandLines : lines' = [lines EXCEPT ![i] = l]
  BY <1>1, <1>3
<1>4. CASE \E i \in DOMAIN lines :
             lines' = SubSeq(lines, 1, i - 1) \o SubSeq(lines, i + 1, Len(lines))
  <2>1. PICK i \in 1 .. Len(lines) :
          lines' = SubSeq(lines, 1, i - 1) \o SubSeq(lines, i + 1, Len(lines))
    BY <1>4, LenProperties
  <2>2. SubSeq(lines, 1, i - 1) \in Seq(Line)
    BY SubSeqProperties
  <2>3. SubSeq(lines, i + 1, Len(lines)) \in Seq(Line)
    BY SubSeqProperties
  <2> QED
    BY <2>1, <2>2, <2>3, ConcatProperties
<1> QED
  BY <1>2, <1>3, <1>4 DEF EditByHand

LEMMA ReplayType ==
  ASSUME NEW ls \in Seq(Line), Replay(ls)
  PROVE  /\ content' \in Seq(Line) /\ at' \in 0 .. Len(content') /\ used' \in SUBSET DecisionIds
         /\ DOMAIN in_force' \subseteq used' /\ \A i \in DOMAIN in_force' : in_force'[i] \in Entries
         /\ DOMAIN holders' \subseteq Claim /\ flawed' \in BOOLEAN /\ valid' \subseteq 1 .. at'
<1>1. content' \in Seq(Line) /\ at' \in 0 .. Len(content')
  BY LenProperties DEF Replay
<1>2. DOMAIN in_force' = {} /\ DOMAIN holders' = {}
  BY DEF Replay
<1>3. used' = {} /\ flawed' = FALSE /\ valid' = {}
  BY DEF Replay
<1> QED
  BY <1>1, <1>2, <1>3

LEMMA TypeInit == LogInit => LogTypeOK
<1> SUFFICES ASSUME LogInit
             PROVE  LogTypeOK
  OBVIOUS
<1>1. lines \in Seq(Line) /\ content \in Seq(Line) /\ at \in 0 .. Len(content)
  BY EmptySeq DEF LogInit
<1>2. DOMAIN in_force = {} /\ DOMAIN holders = {}
  BY DEF LogInit
<1>3. /\ used = {} /\ valid = {} /\ recipes = {} /\ recorded = Unset /\ command = "none"
      /\ cut = FALSE /\ flawed = FALSE /\ mismatched = FALSE
      /\ hands \in 0 .. MaxHands
  BY LogBounds DEF LogInit
<1> QED
  BY <1>1, <1>2, <1>3 DEF LogTypeOK

LEMMA JudgeType ==
  ASSUME LogTypeOK, Judge
  PROVE  LogTypeOK'
<1> DEFINE e == content[at + 1]
<1>1. at + 1 \in 1 .. Len(content) /\ e \in Line
  BY DEF Judge, LogTypeOK
<1>2. at' \in 0 .. Len(content')
  BY DEF Judge, LogTypeOK
<1>3. CASE WellFormed(e, at + 1) /\ Admissible(e)
  <2>1. e \in Entries
    BY <1>1, <1>3 DEF Line, WellFormed
  <2>2. /\ Enter(e)
        /\ used' = used \cup {e.id}
        /\ valid' = valid \cup {at + 1}
        /\ flawed' = flawed
    BY <1>3 DEF Judge
  <2>3. e.id \in DecisionIds /\ Claims(e) \subseteq Claim
    BY <2>1, ClaimsType
  <2>4. DOMAIN in_force' \subseteq used' /\ \A i \in DOMAIN in_force' : in_force'[i] \in Entries
    BY <2>1, <2>2 DEF Enter, LogTypeOK
  <2>5. DOMAIN holders' \subseteq Claim
    BY <2>2, <2>3 DEF Enter, LogTypeOK
  <2>6. valid' \subseteq 1 .. at'
    BY <1>1, <2>2 DEF Judge, LogTypeOK
  <2> QED
    BY <1>2, <2>2, <2>3, <2>4, <2>5, <2>6 DEF Judge, LogTypeOK
<1>4. CASE ~ (WellFormed(e, at + 1) /\ Admissible(e))
  <2>1. flawed' = TRUE /\ UNCHANGED <<in_force, used, holders, valid>>
    BY <1>4 DEF Judge
  <2>2. valid' \subseteq 1 .. at'
    BY <2>1 DEF Judge, LogTypeOK
  <2> QED
    BY <1>2, <2>1, <2>2 DEF Judge, LogTypeOK
<1> QED
  BY <1>3, <1>4

LEMMA TypeNext == LogTypeOK /\ [LogNext]_logVars => LogTypeOK'
<1> SUFFICES ASSUME LogTypeOK, [LogNext]_logVars
             PROVE  LogTypeOK'
  OBVIOUS
<1>1. ASSUME NEW c \in {"decide", "build"}, Begin(c)
      PROVE  LogTypeOK'
  BY <1>1, ReplayType DEF Begin, LogTypeOK
<1>2. CASE Judge
  BY <1>2, JudgeType
<1>3. End => ReplayInv' /\ command' = "none" /\ Replay(<<>>) /\ <<>> \in Seq(Line)
  BY ReplayStarts DEF End
<1>4. CASE Record
  <2>1. PICK p \in Proposals :
          MayRecord(EntryOf(p, Number, Number)) /\ lines' = Append(lines, EntryOf(p, Number, Number))
    BY <1>4 DEF Record
  <2>2. Number \in 1 .. MaxLines
    BY <1>4, LogBounds DEF Number, Record, LogTypeOK
  <2>3. EntryOf(p, Number, Number) \in Line
    BY <2>2, LogBounds DEF Line, Entries
  <2>4. lines' \in Seq(Line)
    BY <2>1, <2>3, AppendProperties DEF LogTypeOK
  <2> QED
    BY <1>3, <1>4, <2>4, ReplayType DEF Record, LogTypeOK
<1>5. CASE CrashAppending
  BY <1>3, <1>5, ReplayType DEF CrashAppending, LogTypeOK
<1>6. CASE PublishRecipe
  BY <1>3, <1>6, ReplayType DEF PublishRecipe, LogTypeOK
<1>7. CASE Refuse
  BY <1>3, <1>7, ReplayType DEF Refuse, LogTypeOK
<1>8. CASE Check
  BY <1>8 DEF Check, CheckReadsRecipes, CheckReadsLog, LogTypeOK, replay
<1>9. CASE DeleteCutOff
  BY <1>9 DEF DeleteCutOff, LogTypeOK, replay
<1>10. CASE EditByHand
  <2>1. lines' \in Seq(Line)
    BY <1>10, EditedType DEF EditByHand, LogTypeOK
  <2>2. hands' \in 0 .. MaxHands
    BY <1>10, LogBounds DEF EditByHand, LogTypeOK
  <2>3. /\ cut' = FALSE
        /\ UNCHANGED <<command, recipes, recorded, mismatched, replay>>
    BY <1>10 DEF EditByHand
  <2> QED
    BY <2>1, <2>2, <2>3 DEF LogTypeOK, replay
<1>11. CASE UNCHANGED logVars
  BY <1>11 DEF logVars, LogTypeOK
<1> QED
  BY <1>1, <1>2, <1>4, <1>5, <1>6, <1>7, <1>8, <1>9, <1>10, <1>11 DEF LogNext

-----------------------------------------------------------------------------
(* The replay.                                                             *)

LEMMA ReplayNext == LogTypeOK /\ ReplayInv /\ [LogNext]_logVars => ReplayInv'
<1> SUFFICES ASSUME LogTypeOK, ReplayInv, [LogNext]_logVars
             PROVE  ReplayInv'
  OBVIOUS
<1>1. CASE Judge
  <2> DEFINE e == content[at + 1]
  <2>1. at + 1 \in 1 .. Len(content) /\ e \in Line /\ content' = content
    BY <1>1 DEF Judge, LogTypeOK
  <2>2. CASE WellFormed(e, at + 1) /\ Admissible(e)
    <3>1. e \in Entries
      BY <2>1, <2>2 DEF Line, WellFormed
    <3>2. Enter(e) /\ used' = used \cup {e.id} /\ valid' = valid \cup {at + 1}
      BY <1>1, <2>2 DEF Judge
    <3>3. Valid' = Valid \cup {e}
      BY <2>1, <3>2 DEF Valid
    <3>4. ClaimsDisjoint'
      BY <2>2, <3>1, <3>2, EnterKeepsClaimsDisjoint
    <3>5. ReplayAgrees' /\ ValidUsed'
      BY <2>2, <3>1, <3>2, <3>3, EnterKeepsAgreement DEF LogTypeOK
    <3> QED
      BY <3>4, <3>5 DEF ReplayInv
  <2>3. CASE ~ (WellFormed(e, at + 1) /\ Admissible(e))
    <3>1. UNCHANGED <<in_force, used, holders, valid, content>>
      BY <1>1, <2>3 DEF Judge
    <3> QED
      BY <3>1 DEF ReplayInv, ClaimsDisjoint, ReplayAgrees, ValidUsed, Valid
  <2> QED
    BY <2>2, <2>3
<1>2. ASSUME NEW c \in {"decide", "build"}, Begin(c)
      PROVE  ReplayInv'
  BY <1>2, ReplayStarts DEF Begin
<1>3. CASE Record \/ CrashAppending \/ PublishRecipe \/ Refuse
  BY <1>3, ReplayStarts DEF Record, CrashAppending, PublishRecipe, Refuse, End
<1>4. CASE Check \/ DeleteCutOff \/ EditByHand \/ UNCHANGED logVars
  BY <1>4, ReplayStutters DEF Check, DeleteCutOff, EditByHand, logVars, replay
<1> QED
  BY <1>1, <1>2, <1>3, <1>4 DEF LogNext

(* The log is whatever its type says it is: every entry read is one.       *)
THEOREM TypeCorrect == LogSpec => []LogTypeOK
<1> QED
  BY TypeInit, TypeNext, PTL DEF LogSpec

LEMMA ReplayInvariant == LogSpec => []ReplayInv
<1>1. LogInit => ReplayInv
  BY DEF LogInit, ReplayInv, ClaimsDisjoint, ReplayAgrees, ValidUsed, Valid
<1> QED
  BY <1>1, ReplayNext, TypeCorrect, PTL DEF LogSpec

(* No two decisions in force hold anything in common (ADR-011), whatever   *)
(* is written into the log and however a replay of it goes.                *)
THEOREM ClaimsNeverOverlap == LogSpec => []ClaimsDisjoint
<1>1. ReplayInv => ClaimsDisjoint
  BY DEF ReplayInv
<1> QED
  BY <1>1, ReplayInvariant, PTL

(* What the replay keeps by popping and indexing is what the valid entries *)
(* say as a whole: a superseded decision never comes back, and the index   *)
(* names exactly the holders of what is claimed.                           *)
THEOREM ReplayIsTheLog == LogSpec => []ReplayAgrees
<1>1. ReplayInv => ReplayAgrees
  BY DEF ReplayInv
<1> QED
  BY <1>1, ReplayInvariant, PTL

-----------------------------------------------------------------------------
(* The check.                                                              *)

LEMMA HoldsItself ==
  ASSUME NEW ls \in Seq(Line)
  PROVE  Holds(ls, ls)
<1>1. Len(ls) \in Nat /\ \A i \in 1 .. Len(ls) : ls[i] \in Line
  BY LenProperties
<1>2. /\ SubSeq(ls, 1, Len(ls)) \in Seq(Line)
      /\ Len(SubSeq(ls, 1, Len(ls))) = Len(ls)
      /\ \A i \in 1 .. Len(ls) : SubSeq(ls, 1, Len(ls))[i] = ls[i]
  BY <1>1, SubSeqProperties
<1>3. SubSeq(ls, 1, Len(ls)) = ls
  BY <1>1, <1>2, SeqEqual
<1> QED
  BY <1>1, <1>3 DEF Holds

LEMMA HoldsAppended ==
  ASSUME NEW ls \in Seq(Line), NEW e \in Line, NEW p \in Seq(Line), Holds(ls, p)
  PROVE  Holds(Append(ls, e), p)
<1> DEFINE n == Len(p)
           more == Append(ls, e)
<1>1. n \in Nat /\ Len(ls) \in Nat /\ n <= Len(ls)
  BY LenProperties DEF Holds
<1>2. /\ more \in Seq(Line) /\ Len(more) = Len(ls) + 1
      /\ \A i \in 1 .. n : more[i] = ls[i] /\ ls[i] \in Line
  BY <1>1, AppendProperties, LenProperties
<1>3. /\ SubSeq(ls, 1, n) \in Seq(Line) /\ Len(SubSeq(ls, 1, n)) = n
      /\ \A i \in 1 .. n : SubSeq(ls, 1, n)[i] = ls[i]
  BY <1>1, <1>2, SubSeqProperties
<1>4. /\ SubSeq(more, 1, n) \in Seq(Line) /\ Len(SubSeq(more, 1, n)) = n
      /\ \A i \in 1 .. n : SubSeq(more, 1, n)[i] = more[i]
  BY <1>1, <1>2, SubSeqProperties
<1>5. \A i \in 1 .. n : SubSeq(more, 1, n)[i] = SubSeq(ls, 1, n)[i]
  BY <1>2, <1>3, <1>4
<1> HIDE DEF n, more
<1>6. SubSeq(more, 1, n) = SubSeq(ls, 1, n)
  BY <1>3, <1>4, <1>5, SeqEqual
<1> QED
  BY <1>1, <1>2, <1>6 DEF Holds, n, more

(* Every prefix that is recorded, is being checked or is being built from  *)
(* is still there while no hand edits the log.                             *)
PrefixesHeld ==
  /\ \A p \in recipes : Holds(lines, p)
  /\ recorded # Unset => \A p \in recorded : Holds(lines, p)
  /\ command # "none" => Holds(lines, content)
  /\ ~ mismatched

LEMMA PrefixesInit == LogTypeOK /\ LogInit => PrefixesHeld
BY DEF LogInit, PrefixesHeld

LEMMA PrefixesNext ==
  LogTypeOK /\ (hands = 0 => PrefixesHeld) /\ [LogNext]_logVars => (hands = 0 => PrefixesHeld)'
<1> SUFFICES ASSUME LogTypeOK, hands = 0 => PrefixesHeld, [LogNext]_logVars, hands' = 0
             PROVE  PrefixesHeld'
  OBVIOUS
<1>1. CASE EditByHand
  <2>1. hands' # 0
    BY <1>1 DEF EditByHand, LogTypeOK
  <2> QED
    BY <2>1
<1>2. CASE Record
  <2>1. PICK p \in Proposals :
          MayRecord(EntryOf(p, Number, Number)) /\ lines' = Append(lines, EntryOf(p, Number, Number))
    BY <1>2 DEF Record
  <2>2. EntryOf(p, Number, Number) \in Line
    <3>1. Number \in 1 .. MaxLines
      BY <1>2, LogBounds DEF Number, Record, LogTypeOK
    <3> QED
      BY <3>1, LogBounds DEF Line, Entries
  <2>3. \A q \in Seq(Line) : Holds(lines, q) => Holds(lines', q)
    BY <2>1, <2>2, HoldsAppended DEF LogTypeOK
  <2>4. recipes \subseteq Seq(Line) /\ (recorded # Unset => recorded \subseteq Seq(Line))
    BY DEF LogTypeOK
  <2>5. hands = 0 /\ command' = "none" /\ UNCHANGED <<recipes, recorded, mismatched>>
    BY <1>2 DEF Record, End
  <2> QED
    BY <2>3, <2>4, <2>5 DEF PrefixesHeld
<1>3. CASE PublishRecipe
  BY <1>3 DEF PublishRecipe, Replayed, End, PrefixesHeld
<1>4. CASE CrashAppending \/ Refuse
  BY <1>4 DEF CrashAppending, Refuse, End, PrefixesHeld
<1>5. CASE Check
  <2>1. hands = 0 /\ PrefixesHeld
    BY <1>5 DEF Check
  <2>2. CASE CheckReadsRecipes
    BY <1>5, <2>1, <2>2 DEF Check, CheckReadsRecipes, PrefixesHeld, replay
  <2>3. CASE CheckReadsLog
    <3>1. mismatched' = FALSE
      BY <2>1, <2>3 DEF CheckReadsLog, PrefixesHeld
    <3> QED
      BY <1>5, <2>1, <2>3, <3>1 DEF Check, CheckReadsLog, PrefixesHeld, replay
  <2> QED
    BY <1>5, <2>2, <2>3 DEF Check
<1>6. ASSUME NEW c \in {"decide", "build"}, Begin(c)
      PROVE  PrefixesHeld'
  <2>1. Holds(lines, lines)
    BY HoldsItself DEF LogTypeOK
  <2> QED
    BY <1>6, <2>1 DEF Begin, Replay, PrefixesHeld
<1>7. CASE Judge
  BY <1>7 DEF Judge, PrefixesHeld
<1>8. CASE DeleteCutOff
  BY <1>8 DEF DeleteCutOff, replay, PrefixesHeld
<1>9. CASE UNCHANGED logVars
  BY <1>9 DEF logVars, PrefixesHeld
<1> QED
  BY <1>1, <1>2, <1>3, <1>4, <1>5, <1>6, <1>7, <1>8, <1>9 DEF LogNext

(* While no hand edits the log, `check` reports no recorded prefix as lost,*)
(* though it takes no lock and decisions and builds go on between its two  *)
(* reads (checking.check).                                                 *)
THEOREM CheckRaisesNoFalseAlarm == LogSpec => []NoFalseAlarm
<1>1. LogInit => (hands = 0 => PrefixesHeld)
  BY TypeInit, PrefixesInit
<1>2. (hands = 0 => PrefixesHeld) => NoFalseAlarm
  BY DEF PrefixesHeld, NoFalseAlarm
<1> QED
  BY <1>1, <1>2, PrefixesNext, TypeCorrect, PTL DEF LogSpec

-----------------------------------------------------------------------------
(* What `decide` accepts.                                                  *)

(* A replay as a value: the rules for the next entry, and where it leads.  *)
Now == [in_force |-> in_force, used |-> used, holders |-> holders]

Start == [in_force |-> <<>>, used |-> {}, holders |-> <<>>]

AdmissibleAfter(s, e) ==
  /\ e.id \notin s.used
  /\ e.supersedes \subseteq DOMAIN s.in_force
  /\ ~ /\ e.kind # "retract"
       /\ \E x \in e.supersedes \cap DOMAIN s.in_force :
            \A c \in Claims(e), d \in Claims(s.in_force[x]) : ~ Overlaps(c, d)
  /\ ~ \E c \in Claims(e) :
         ~ {s.holders[d] : d \in {h \in DOMAIN s.holders : Overlaps(c, h)}} \subseteq e.supersedes

EnteredAfter(s, e) ==
  [in_force |->
     [i \in (DOMAIN s.in_force \ e.supersedes) \cup (IF e.kind = "retract" THEN {} ELSE {e.id})
        |-> IF i = e.id THEN e ELSE s.in_force[i]],
   used |-> s.used \cup {e.id},
   holders |->
     [c \in (DOMAIN s.holders \ UNION {Claims(s.in_force[x]) : x \in e.supersedes}) \cup Claims(e)
        |-> IF c \in Claims(e) THEN e.id ELSE s.holders[c]]]

(* A run through the log in which no line is wrong.                        *)
SoundRun(run, ls) ==
  /\ run[0] = Start
  /\ \A k \in 1 .. Len(ls) :
       /\ WellFormed(ls[k], k) /\ AdmissibleAfter(run[k - 1], ls[k])
       /\ run[k] = EnteredAfter(run[k - 1], ls[k])

(* There is one, and the replay under way has come some way along it: the  *)
(* log it has read is the log there is, as the command holds the lock.     *)
OwnLogSound ==
  \E run : /\ SoundRun(run, lines)
           /\ command = "none" => content = <<>>
           /\ command # "none" => content = lines
           /\ Now = run[at] /\ ~ flawed

LEMMA RulesAsValues ==
  /\ \A e : Admissible(e) <=> AdmissibleAfter(Now, e)
  /\ \A e : Enter(e) /\ used' = used \cup {e.id} => Now' = EnteredAfter(Now, e)
<1>1. \A e : Admissible(e) <=> AdmissibleAfter(Now, e)
  BY DEF Admissible, Unrelated, Clashes, Holders, AdmissibleAfter, Now
<1>2. ASSUME NEW e, Enter(e), used' = used \cup {e.id}
      PROVE  Now' = EnteredAfter(Now, e)
  BY <1>2 DEF Enter, Superseded, EnteredAfter, Now
<1> QED
  BY <1>1, <1>2

(* The decision that passes every rule takes the run one line further.     *)
LEMMA RecordedRun ==
  ASSUME NEW ls \in Seq(Line), NEW e \in Line, NEW run, SoundRun(run, ls),
         WellFormed(e, Len(ls) + 1), AdmissibleAfter(run[Len(ls)], e)
  PROVE  \E longer : SoundRun(longer, Append(ls, e))
<1> DEFINE n == Len(ls)
           longer == [k \in 0 .. n + 1 |-> IF k <= n THEN run[k] ELSE EnteredAfter(run[n], e)]
<1>1. n \in Nat
  BY LenProperties
<1>2. /\ Len(Append(ls, e)) = n + 1 /\ Append(ls, e)[n + 1] = e
      /\ \A k \in 1 .. n : Append(ls, e)[k] = ls[k]
  BY AppendProperties
<1>3. longer[0] = Start
  BY <1>1 DEF SoundRun
<1>4. ASSUME NEW k \in 1 .. n + 1
      PROVE  /\ WellFormed(Append(ls, e)[k], k) /\ AdmissibleAfter(longer[k - 1], Append(ls, e)[k])
             /\ longer[k] = EnteredAfter(longer[k - 1], Append(ls, e)[k])
  <2>1. CASE k = n + 1
    <3>1. longer[k - 1] = run[n] /\ longer[k] = EnteredAfter(run[n], e)
      BY <1>1, <2>1
    <3> QED
      BY <1>2, <2>1, <3>1
  <2>2. CASE k \in 1 .. n
    <3>1. longer[k - 1] = run[k - 1] /\ longer[k] = run[k] /\ Append(ls, e)[k] = ls[k]
      BY <1>1, <1>2, <2>2
    <3> HIDE DEF longer
    <3> QED
      BY <2>2, <3>1 DEF SoundRun
  <2> QED
    BY <1>1, <1>4, <2>1, <2>2
<1> HIDE DEF longer
<1>5. SoundRun(longer, Append(ls, e))
  BY <1>2, <1>3, <1>4 DEF SoundRun
<1> QED
  BY <1>5

LEMMA OwnInit == LogInit => OwnLogSound
<1> SUFFICES ASSUME LogInit
             PROVE  OwnLogSound
  OBVIOUS
<1> DEFINE run == [k \in {0} |-> Start]
<1>1. SoundRun(run, lines)
  BY EmptySeq DEF LogInit, SoundRun
<1>2. Now = run[at] /\ ~ flawed /\ command = "none" /\ content = <<>>
  BY DEF LogInit, Now, Start
<1> QED
  BY <1>1, <1>2 DEF OwnLogSound

(* A replay that starts, over whatever lines, starts where every run does. *)
LEMMA OwnStarts ==
  ASSUME NEW ls, Replay(ls), NEW run, SoundRun(run, lines')
  PROVE  Now' = run[at'] /\ ~ flawed' /\ content' = ls
BY DEF Replay, SoundRun, Now, Start

LEMMA OwnNext ==
  LogTypeOK /\ (hands = 0 => OwnLogSound) /\ [LogNext]_logVars => (hands = 0 => OwnLogSound)'
<1> SUFFICES ASSUME LogTypeOK, hands = 0 => OwnLogSound, [LogNext]_logVars, hands' = 0
             PROVE  OwnLogSound'
  OBVIOUS
<1>1. hands = 0 /\ ~ EditByHand
  BY DEF EditByHand, LogTypeOK, LogNext, Begin, Judge, Record, CrashAppending, PublishRecipe, Refuse, Check,
    DeleteCutOff, logVars
<1>2. PICK run : /\ SoundRun(run, lines)
                 /\ command = "none" => content = <<>>
                 /\ command # "none" => content = lines
                 /\ Now = run[at] /\ ~ flawed
  BY <1>1 DEF OwnLogSound
<1>3. ASSUME NEW c \in {"decide", "build"}, Begin(c)
      PROVE  OwnLogSound'
  BY <1>2, <1>3, OwnStarts DEF Begin, OwnLogSound
<1>4. CASE Judge
  <2> DEFINE e == content[at + 1]
  <2>1. /\ at + 1 \in 1 .. Len(lines) /\ content = lines /\ at' = at + 1
        /\ UNCHANGED <<lines, command, content>> /\ command # "none"
    BY <1>2, <1>4, LenProperties DEF Judge, LogTypeOK
  <2>2. WellFormed(e, at + 1) /\ AdmissibleAfter(run[at], e) /\ run[at + 1] = EnteredAfter(run[at], e)
    <3>1. PICK k \in 1 .. Len(lines) : k = at + 1 /\ k - 1 = at
      BY <2>1 DEF LogTypeOK
    <3>2. /\ WellFormed(lines[k], k) /\ AdmissibleAfter(run[k - 1], lines[k])
          /\ run[k] = EnteredAfter(run[k - 1], lines[k])
      BY <1>2 DEF SoundRun
    <3> QED
      BY <2>1, <3>1, <3>2
  <2>3. Enter(e) /\ used' = used \cup {e.id} /\ flawed' = flawed
    BY <1>2, <1>4, <2>2, RulesAsValues DEF Judge
  <2>4. Now' = run[at']
    BY <1>2, <2>1, <2>2, <2>3, RulesAsValues
  <2> QED
    BY <1>2, <2>1, <2>3, <2>4 DEF OwnLogSound
<1>5. CASE Record
  <2>1. PICK p \in Proposals :
          MayRecord(EntryOf(p, Number, Number)) /\ lines' = Append(lines, EntryOf(p, Number, Number))
    BY <1>5 DEF Record
  <2> DEFINE e == EntryOf(p, Number, Number)
  <2>2. Replay(<<>>) /\ command' = "none"
    BY <1>5 DEF Record, End
  <2>3. at = Len(lines) /\ Number = Len(lines) + 1
    BY <1>2, <1>5 DEF Record, Replayed, Number
  <2>4. Number \in 1 .. MaxLines
    BY <1>5, LogBounds DEF Number, Record, LogTypeOK
  <2>5. e \in Line /\ WellFormed(e, Number)
    <3>1. e \in Entries /\ e.entry = Number
      BY <2>4, LogBounds DEF Entries, EntryOf
    <3>2. e # Garbled
      BY <3>1, GarbledAssumption
    <3> QED
      BY <3>1, <3>2 DEF Line, WellFormed
  <2>6. AdmissibleAfter(run[Len(lines)], e)
    BY <1>2, <2>1, <2>3, RulesAsValues DEF MayRecord
  <2>7. PICK longer : SoundRun(longer, lines')
    BY <1>2, <2>1, <2>3, <2>5, <2>6, RecordedRun DEF LogTypeOK
  <2> QED
    BY <2>2, <2>7, OwnStarts DEF OwnLogSound
<1>6. CASE CrashAppending \/ PublishRecipe \/ Refuse
  <2>1. lines' = lines /\ Replay(<<>>) /\ command' = "none"
    BY <1>6 DEF CrashAppending, PublishRecipe, Refuse, End
  <2> QED
    BY <1>2, <2>1, OwnStarts DEF OwnLogSound
<1>7. CASE Check \/ DeleteCutOff \/ UNCHANGED logVars
  <2>1. UNCHANGED <<lines, command, content, at, in_force, used, holders, flawed>>
    BY <1>7 DEF Check, DeleteCutOff, logVars, replay
  <2> QED
    BY <1>2, <2>1 DEF OwnLogSound, Now
<1> QED
  BY <1>1, <1>3, <1>4, <1>5, <1>6, <1>7 DEF LogNext

(* An entry that `decide` accepted passes every later read: the rules it   *)
(* judges a decision by are those the log is replayed by, on the same log  *)
(* (the docstring of history_problems).                                    *)
THEOREM OwnEntriesPass == LogSpec => []OwnEntriesStayValid
<1>1. LogInit => (hands = 0 => OwnLogSound)
  BY OwnInit
<1>2. (hands = 0 => OwnLogSound) => OwnEntriesStayValid
  BY DEF OwnLogSound, OwnEntriesStayValid
<1> QED
  BY <1>1, <1>2, OwnNext, TypeCorrect, PTL DEF LogSpec
=============================================================================
