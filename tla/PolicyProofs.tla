---------------------------- MODULE PolicyProofs ----------------------------
(***************************************************************************)
(* One evaluation sees one policy, and the policy in force only gets newer,*)
(* for any number of request threads, edits and rules and any capacity of  *)
(* the channel.  What a rule matches is left open: the proofs expand no    *)
(* definition of Predicate.                                                *)
(*                                                                         *)
(* The walk's invariant is that no rule it has passed matches; the loop's  *)
(* is that what it has parsed is no older than what is in force, although  *)
(* the file may have moved on since.                                       *)
(***************************************************************************)
EXTENDS Adjudication, SequenceTheorems, TLAPS

WalkType ==
    /\ walk \in [Checker -> Walk \cup {None}]
    /\ \A c \in Checker : walk[c] # None => walk[c].rule >= 1

QueueType == notices \in Seq(Report) /\ channel \in Seq(Report) /\ Len(channel) <= Capacity

IsPolicy(v) == v \in Version /\ ValidPolicy(Rules[v])

VersionInv ==
    /\ edits \in Version /\ armedAt \in Version
    /\ file \in {None, edits}
    /\ loop \in LoopStage
    /\ loop = "main" => live = None
    /\ live # None => IsPolicy(live) /\ live <= edits
    /\ parsed # None => /\ loop = "install"
                        /\ IsPolicy(parsed) /\ parsed <= edits
                        /\ live # None => live <= parsed

PolicyInv == WalkType /\ QueueType /\ VersionInv

LEMMA InitInv == Init => PolicyInv
<1> SUFFICES ASSUME Init PROVE PolicyInv
  OBVIOUS
<1>1. <<>> \in Seq(Report) /\ Len(<<>>) = 0
  BY EmptySeq
<1>2. QueueType
  BY <1>1, PolicyAssumption DEF Init, QueueType
<1>3. VersionInv
  BY PolicyAssumption DEF Init, VersionInv, Version, LoopStage
<1>4. QED  BY <1>2, <1>3 DEF Init, WalkType, PolicyInv

-----------------------------------------------------------------------------
LEMMA QueueStep == QueueType /\ [Next]_vars => QueueType'
<1> SUFFICES ASSUME QueueType, [Next]_vars PROVE QueueType'
  OBVIOUS
<1>1. ASSUME NEW report \in Report, Notify(report), channel' = channel
      PROVE  QueueType'
  BY <1>1, AppendProperties DEF Notify, QueueType
<1>2. ASSUME notices' = notices, channel # <<>>, channel' = Tail(channel)
      PROVE  QueueType'
  <2>1. Tail(channel) \in Seq(Report) /\ Len(Tail(channel)) = Len(channel) - 1 /\ Len(channel) \in Nat
    BY <1>2, HeadTailProperties, LenProperties DEF QueueType
  <2>2. QED  BY <1>2, <2>1, PolicyAssumption DEF QueueType
<1>3. CASE BeginEdit \/ EndEdit \/ Read
  BY <1>1, <1>3 DEF BeginEdit, EndEdit, Read, Report
<1>4. CASE Send
  <2>1. Head(notices) \in Report /\ Tail(notices) \in Seq(Report)
    BY <1>4, HeadTailProperties DEF Send, QueueType
  <2>2. /\ Append(channel, Head(notices)) \in Seq(Report)
        /\ Len(Append(channel, Head(notices))) = Len(channel) + 1
        /\ Len(channel) \in Nat
    BY <2>1, AppendProperties, LenProperties DEF QueueType
  <2>3. QED  BY <1>4, <2>1, <2>2, PolicyAssumption DEF Send, QueueType
<1>5. CASE Receive
  BY <1>2, <1>5 DEF Receive
<1>6. CASE Drain
  BY <1>2, <1>6 DEF Drain, QueueType
<1>7. CASE LoadAtStart \/ Arm \/ DebounceOver \/ Install \/ UNCHANGED vars
  BY <1>7 DEF LoadAtStart, Arm, DebounceOver, Install, vars, QueueType
<1>8. CASE \E c \in Checker : (\E e \in Event : Evaluate(c, e)) \/ TryRule(c) \/ Answer(c)
  BY <1>8 DEF Evaluate, TryRule, Answer, QueueType
<1>9. QED  BY <1>3, <1>4, <1>5, <1>6, <1>7, <1>8 DEF Next, LoopStep

LEMMA VersionStep == VersionInv /\ [Next]_vars => VersionInv'
<1> SUFFICES ASSUME VersionInv, [Next]_vars PROVE VersionInv'
  OBVIOUS
<1> USE PolicyAssumption DEF Version
<1>1. CASE BeginEdit
  BY <1>1 DEF BeginEdit, VersionInv, IsPolicy
<1>2. CASE EndEdit
  BY <1>2 DEF EndEdit, VersionInv, IsPolicy
<1>3. CASE Send
  BY <1>3 DEF Send, VersionInv, IsPolicy
<1>4. CASE LoadAtStart
  BY <1>4 DEF LoadAtStart, Usable, VersionInv, IsPolicy, LoopStage
<1>5. CASE Arm
  BY <1>5 DEF Arm, VersionInv, IsPolicy, LoopStage
<1>6. CASE Receive \/ DebounceOver \/ Drain
  BY <1>6 DEF Receive, DebounceOver, Drain, VersionInv, IsPolicy, LoopStage
<1>7. CASE Read
  BY <1>7 DEF Read, Usable, VersionInv, IsPolicy, LoopStage
<1>8. CASE Install
  BY <1>8 DEF Install, InForce, VersionInv, IsPolicy, LoopStage
<1>9. CASE \E c \in Checker : (\E e \in Event : Evaluate(c, e)) \/ TryRule(c) \/ Answer(c)
  BY <1>9 DEF Evaluate, TryRule, Answer, VersionInv, IsPolicy
<1>10. CASE UNCHANGED vars
  BY <1>10 DEF vars, VersionInv, IsPolicy
<1>11. QED
  BY <1>1, <1>2, <1>3, <1>4, <1>5, <1>6, <1>7, <1>8, <1>9, <1>10 DEF Next, LoopStep

(* Only an install changes the policy in force, and only to a newer one.    *)
LEMMA OnlyNewer ==
  VersionInv /\ [Next]_vars =>
      (live # None => live' = live \/ (live' # None /\ live' >= live /\ IsPolicy(live')))
<1> SUFFICES ASSUME VersionInv, [Next]_vars, live # None, live' # live
             PROVE  live' # None /\ live' >= live /\ IsPolicy(live')
  OBVIOUS
<1>1. Install
  <2>1. \A c \in Checker : TryRule(c) \/ Answer(c) => live' = live
    BY DEF TryRule, Answer
  <2>2. \A c \in Checker : \A e \in Event : Evaluate(c, e) => live' = live
    BY DEF Evaluate
  <2>3. loop # "main"
    BY DEF VersionInv
  <2>4. QED
    BY <2>1, <2>2, <2>3 DEF Next, LoopStep, BeginEdit, EndEdit, Send, LoadAtStart, Arm, Receive,
                            DebounceOver, Drain, Read, vars
<1>2. live' = parsed /\ parsed # None
  BY <1>1 DEF Install, InForce
<1>3. live \in Nat /\ parsed \in Nat /\ live <= parsed /\ IsPolicy(parsed)
  BY <1>2, PolicyAssumption DEF VersionInv, IsPolicy, Version
<1>4. QED  BY <1>2, <1>3

-----------------------------------------------------------------------------
(* The evaluation. *)

PassedOver(w) == \A i \in DOMAIN Rules[w.policy] :
                    i < w.rule => ~MatchesEvent(Rules[w.policy][i].match, w.event)

WalkInv ==
    \A c \in Checker : walk[c] # None =>
        /\ walk[c].verdict = None => PassedOver(walk[c])
        /\ walk[c].verdict # None => walk[c].verdict = Adjudicated(walk[c].policy, walk[c].event)

(* The first rule that matches decides. *)
LEMMA FirstMatchDecides ==
  ASSUME NEW v \in Version, NEW e, NEW i \in DOMAIN Rules[v],
         MatchesEvent(Rules[v][i].match, e),
         \A j \in DOMAIN Rules[v] : j < i => ~MatchesEvent(Rules[v][j].match, e)
  PROVE  Adjudicated(v, e) = Rules[v][i].decision
<1> DEFINE hits == {j \in DOMAIN Rules[v] : MatchesEvent(Rules[v][j].match, e)}
<1>1. (\A j \in hits : j \in Int /\ i <= j) /\ i \in hits
  BY PolicyAssumption
<1> HIDE DEF hits
<1>2. \A k \in hits : (\A j \in hits : k <= j) => k = i
  BY <1>1
<1>3. (CHOOSE k \in hits : \A j \in hits : k <= j) = i
  BY <1>1, <1>2
<1>4. hits # {}
  BY <1>1
<1>5. Adjudicated(v, e) = IF hits = {} THEN DefaultDecision(e)
                          ELSE Rules[v][CHOOSE k \in hits : \A j \in hits : k <= j].decision
  BY DEF Adjudicated, hits
<1>6. QED  BY <1>3, <1>4, <1>5

(* If none does, the domain's default. *)
LEMMA NoMatchDefaults ==
  ASSUME NEW v \in Version, NEW e,
         \A j \in DOMAIN Rules[v] : ~MatchesEvent(Rules[v][j].match, e)
  PROVE  Adjudicated(v, e) = DefaultDecision(e)
BY DEF Adjudicated

LEMMA AfterRuleKeeps ==
  ASSUME NEW w \in Walk, w.rule >= 1, w.verdict = None, PassedOver(w)
  PROVE  LET u == AfterRule(w, Rules[w.policy])
         IN  /\ u \in Walk /\ u.rule >= 1
             /\ u.verdict = None => PassedOver(u)
             /\ u.verdict # None => u.verdict = Adjudicated(u.policy, u.event)
<1> DEFINE v == w.policy
           e == w.event
           i == w.rule
           u == AfterRule(w, Rules[w.policy])
<1>1. /\ v \in Version /\ e \in Event /\ i \in Nat /\ i >= 1
      /\ Len(Rules[v]) \in Nat /\ DOMAIN Rules[v] = 1 .. Len(Rules[v])
      /\ \A j \in DOMAIN Rules[v] : Rules[v][j].decision \in Decision
  BY PolicyAssumption DEF Walk
<1>2. CASE i > Len(Rules[v])
  <2>1. \A j \in DOMAIN Rules[v] : ~MatchesEvent(Rules[v][j].match, e)
    BY <1>1, <1>2 DEF PassedOver
  <2>2. Adjudicated(v, e) = DefaultDecision(e)
    BY <1>1, <2>1, NoMatchDefaults
  <2>3. u = [w EXCEPT !.verdict = DefaultDecision(e)]
    BY <1>2 DEF AfterRule
  <2>4. DefaultDecision(e) \in Decision
    BY DEF DefaultDecision, Decision
  <2> HIDE DEF u
  <2>5. /\ u \in Walk /\ u.rule = i /\ u.policy = v /\ u.event = e
        /\ u.verdict = DefaultDecision(e)
    BY <2>3, <2>4 DEF Walk
  <2>6. QED  BY <1>1, <2>1, <2>2, <2>5 DEF PassedOver, u
<1>3. CASE i <= Len(Rules[v]) /\ MatchesEvent(Rules[v][i].match, e)
  <2>1. i \in DOMAIN Rules[v] /\ Rules[v][i].decision \in Decision
    BY <1>1, <1>3
  <2>2. Adjudicated(v, e) = Rules[v][i].decision
    BY <1>1, <1>3, <2>1, FirstMatchDecides DEF PassedOver
  <2>3. u = [w EXCEPT !.verdict = Rules[v][i].decision]
    BY <1>1, <1>3 DEF AfterRule
  <2> HIDE DEF u
  <2>4. /\ u \in Walk /\ u.rule = i /\ u.policy = v /\ u.event = e
        /\ u.verdict = Rules[v][i].decision
    BY <2>1, <2>3 DEF Walk
  <2>5. PassedOver(u)
    BY <2>4 DEF PassedOver
  <2>6. QED  BY <1>1, <2>2, <2>4, <2>5 DEF u
<1>4. CASE i <= Len(Rules[v]) /\ ~MatchesEvent(Rules[v][i].match, e)
  <2>1. u = [w EXCEPT !.rule = i + 1]
    BY <1>1, <1>4 DEF AfterRule
  <2> HIDE DEF u
  <2>2. /\ u \in Walk /\ u.rule = i + 1 /\ u.policy = v /\ u.event = e /\ u.verdict = None
    BY <1>1, <2>1 DEF Walk
  <2>3. \A j \in DOMAIN Rules[v] : j < i + 1 => ~MatchesEvent(Rules[v][j].match, e)
    BY <1>1, <1>4 DEF PassedOver
  <2>4. QED  BY <1>1, <2>2, <2>3 DEF PassedOver, u
<1>5. QED  BY <1>1, <1>2, <1>3, <1>4

LEMMA WalkStep == VersionInv /\ WalkType /\ WalkInv /\ [Next]_vars => WalkType' /\ WalkInv'
<1> SUFFICES ASSUME VersionInv, WalkType, WalkInv, [Next]_vars PROVE WalkType' /\ WalkInv'
  OBVIOUS
<1>1. ASSUME NEW c \in Checker, NEW u \in Walk \cup {None}, walk' = [walk EXCEPT ![c] = u],
             u # None => /\ u.rule >= 1
                         /\ u.verdict = None => PassedOver(u)
                         /\ u.verdict # None => u.verdict = Adjudicated(u.policy, u.event)
      PROVE  WalkType' /\ WalkInv'
  <2>1. /\ walk' \in [Checker -> Walk \cup {None}]
        /\ walk'[c] = u
        /\ \A d \in Checker \ {c} : walk'[d] = walk[d]
    BY <1>1 DEF WalkType
  <2>2. ASSUME NEW d \in Checker, walk'[d] # None
        PROVE  /\ walk'[d].rule >= 1
               /\ walk'[d].verdict = None => PassedOver(walk'[d])
               /\ walk'[d].verdict # None =>
                     walk'[d].verdict = Adjudicated(walk'[d].policy, walk'[d].event)
    <3>1. CASE d = c
      BY <1>1, <2>1, <2>2, <3>1
    <3>2. CASE d # c
      BY <2>1, <2>2, <3>2 DEF WalkInv, WalkType
    <3>3. QED  BY <3>1, <3>2
  <2>3. QED  BY <2>1, <2>2 DEF WalkType, WalkInv, PassedOver, Adjudicated
<1>2. ASSUME NEW c \in Checker, NEW e \in Event, Evaluate(c, e) PROVE WalkType' /\ WalkInv'
  <2> DEFINE u == [event |-> e, policy |-> live, rule |-> 1, verdict |-> None]
  <2>1. walk' = [walk EXCEPT ![c] = u] /\ live \in Version
    BY <1>2 DEF Evaluate, VersionInv, IsPolicy
  <2>2. u \in Walk /\ u.rule = 1 /\ u.verdict = None /\ u.policy = live
    BY <2>1 DEF Walk
  <2>3. PassedOver(u)
    BY <2>1, <2>2, PolicyAssumption DEF PassedOver
  <2> HIDE DEF u
  <2>4. /\ u \in Walk \cup {None}
        /\ u.rule >= 1
        /\ u.verdict = None => PassedOver(u)
        /\ u.verdict # None => u.verdict = Adjudicated(u.policy, u.event)
    BY <2>2, <2>3
  <2>5. QED  BY ONLY <1>1, <2>1, <2>4
<1>3. ASSUME NEW c \in Checker, TryRule(c) PROVE WalkType' /\ WalkInv'
  <2> DEFINE w == walk[c]
             u == AfterRule(w, Rules[w.policy])
  <2>1. w \in Walk /\ w.rule >= 1 /\ w.verdict = None /\ PassedOver(w)
    BY <1>3 DEF TryRule, WalkType, WalkInv
  <2>2. walk' = [walk EXCEPT ![c] = u]
    BY <1>3 DEF TryRule, Walked
  <2>3. /\ u \in Walk /\ u.rule >= 1
        /\ u.verdict = None => PassedOver(u)
        /\ u.verdict # None => u.verdict = Adjudicated(u.policy, u.event)
    BY <2>1, AfterRuleKeeps
  <2> HIDE DEF u
  <2>4. u \in Walk \cup {None}
    BY <2>3
  <2>5. QED  BY ONLY <1>1, <2>2, <2>3, <2>4
<1>4. ASSUME NEW c \in Checker, Answer(c) PROVE WalkType' /\ WalkInv'
  BY <1>1, <1>4 DEF Answer
<1>5. ASSUME walk' = walk PROVE WalkType' /\ WalkInv'
  BY <1>5 DEF WalkType, WalkInv, PassedOver, Adjudicated
<1>6. CASE \/ BeginEdit \/ EndEdit \/ Send \/ LoadAtStart \/ Arm \/ LoopStep \/ UNCHANGED vars
  BY <1>5, <1>6 DEF BeginEdit, EndEdit, Send, LoadAtStart, Arm, LoopStep, Receive, DebounceOver,
                    Drain, Read, Install, vars
<1>7. QED  BY <1>2, <1>3, <1>4, <1>6 DEF Next

-----------------------------------------------------------------------------
Inv == PolicyInv /\ WalkInv

LEMMA InvInit == Init => Inv
  BY InitInv DEF Init, Inv, WalkInv

LEMMA InvStep == Inv /\ [Next]_vars => Inv'
  BY QueueStep, VersionStep, WalkStep DEF Inv, PolicyInv

(* The state stays well formed: in particular the channel never holds more  *)
(* than it has room for, whatever the watcher has to report.                *)
THEOREM TypeCorrect == Spec => []TypeOK
<1>1. Inv => TypeOK
  BY PolicyAssumption DEF Inv, PolicyInv, WalkType, QueueType, VersionInv, IsPolicy, TypeOK
<1>2. QED  BY <1>1, InvInit, InvStep, PTL DEF Spec

(* A verdict is the one its policy gives the event, whatever is swapped     *)
(* while the rules are walked (evaluate).                                   *)
THEOREM VerdictsAreWhole == Spec => []VerdictWhole
<1>1. Inv => VerdictWhole
  BY DEF Inv, WalkInv, VerdictWhole
<1>2. QED  BY <1>1, InvInit, InvStep, PTL DEF Spec

(* The policy in force never goes back, nor to one that is malformed,       *)
(* wherever in an edit the loop reads the file (reload_loop).               *)
THEOREM ReloadsNeverRegress == Spec => NeverRegresses
<1>1. Inv /\ [Next]_vars =>
        [live # None => live' # None /\ live' >= live /\ ValidPolicy(Rules[live'])]_live
  BY OnlyNewer DEF Inv, PolicyInv, IsPolicy
<1>2. QED  BY <1>1, InvInit, InvStep, PTL DEF Spec, NeverRegresses

-----------------------------------------------------------------------------
(* The matched pair. *)

(* Values Python identifies are the same, where none are confusable.        *)
LEMMA NoConfusion ==
  ASSUME NEW actual, NEW expected, ~Confusable(actual, expected),
         NEW a \in Items(actual), NEW b \in Compared(expected)
  PROVE  PythonEqual(a, b) <=> a = b
<1>1. PythonEqual(a, b) => a = b
  BY DEF Confusable
<1>2. a = b => PythonEqual(a, b)
  BY DEF PythonEqual
<1>3. QED  BY <1>1, <1>2

LEMMA OperatorsAgree ==
  ASSUME NEW actual, NEW expected, ValidPredicate(expected), IsOperatorObject(expected),
         ~Confusable(actual, expected), NEW op \in DOMAIN Content(expected)
  PROVE  OperatorHolds(op, actual, Content(expected)[op])
            <=> PythonHolds(op, actual, Content(expected)[op])
<1> DEFINE operand == Content(expected)[op]
<1>1. op \in Operators /\ SuitsOperator(op, operand)
  BY DEF IsOperatorObject, ValidPredicate
<1>2. operand \in Range(Content(expected))
  BY DEF Range
<1>3. ASSUME NEW b \in Items(operand) PROVE b \in Compared(expected)
  BY <1>2, <1>3 DEF Compared
<1>4. actual \in Items(actual) /\ operand \in Items(operand)
  BY DEF Items
<1>5. PythonEqual(actual, operand) <=> actual = operand
  BY <1>3, <1>4, NoConfusion
<1>6. Kind(operand) = "arr" =>
         \A item \in Range(Content(operand)) : PythonEqual(item, actual) <=> item = actual
  <2> SUFFICES ASSUME Kind(operand) = "arr", NEW item \in Range(Content(operand))
               PROVE  PythonEqual(item, actual) <=> item = actual
    OBVIOUS
  <2>1. item \in Compared(expected)
    BY <1>3 DEF Items
  <2>2. PythonEqual(actual, item) <=> actual = item
    BY <1>4, <2>1, NoConfusion
  <2>3. QED  BY <2>2 DEF PythonEqual
<1>7. Kind(actual) = "arr" =>
         \A item \in Range(Content(actual)) : PythonEqual(item, operand) <=> item = operand
  <2> SUFFICES ASSUME Kind(actual) = "arr", NEW item \in Range(Content(actual))
               PROVE  PythonEqual(item, operand) <=> item = operand
    OBVIOUS
  <2>1. item \in Items(actual) /\ operand \in Compared(expected)
    BY <1>3, <1>4 DEF Items
  <2>2. QED  BY <2>1, NoConfusion
<1> HIDE DEF operand
<1>8. PythonMemberOf(actual, operand) <=> MemberOf(actual, operand)
  BY <1>6 DEF PythonMemberOf, MemberOf
<1>9. MemberOf(operand, actual) <=>
         Kind(actual) = "arr" /\ \E item \in Range(Content(actual)) : PythonEqual(item, operand)
  BY <1>7 DEF MemberOf
<1>10. OperatorHolds(op, actual, operand) <=> PythonHolds(op, actual, operand)
  <2> USE DEF OperatorHolds, PythonHolds, Comparisons
  <2>1. CASE op = "$exists"
    BY <2>1
  <2>2. CASE op \in {"$eq", "$ne"}
    BY <1>5, <2>2
  <2>3. CASE op = "$in"
    BY <1>8, <2>3
  <2>4. CASE op = "$nin"
    BY <1>1, <1>8, <2>4 DEF SuitsOperator
  <2>5. CASE op \in Comparisons
    BY <2>5 DEF CompareNumbers, PythonCompare
  <2>6. CASE op \in {"$prefix", "$suffix"}
    BY <1>1, <2>6 DEF SuitsOperator
  <2>7. CASE op = "$contains"
    BY <1>9, <2>7
  <2>8. QED
    BY <1>1, <2>1, <2>2, <2>3, <2>4, <2>5, <2>6, <2>7 DEF Operators
<1>11. QED  BY <1>10 DEF operand

(* The two engines answer alike for every payload value and every valid     *)
(* predicate that are not confusable, whichever samples and questions the   *)
(* instance asks (matches_predicate of predicate.rs and of predicates.py).  *)
THEOREM PairAgrees == Spec => []PairDiffersOnlyOnNumbers
<1>1. ASSUME NEW actual \in Sample, NEW expected \in Question,
             ValidPredicate(expected), ~Confusable(actual, expected)
      PROVE  MatchesPredicate(actual, expected) = PythonMatches(actual, expected)
  <2>1. CASE IsOperatorObject(expected)
    <3>1. \A op \in DOMAIN Content(expected) :
             OperatorHolds(op, actual, Content(expected)[op])
                <=> PythonHolds(op, actual, Content(expected)[op])
      BY <1>1, <2>1, OperatorsAgree
    <3>2. MatchesPredicate(actual, expected) <=>
             \A op \in DOMAIN Content(expected) : OperatorHolds(op, actual, Content(expected)[op])
      BY <2>1 DEF MatchesPredicate
    <3>3. PythonMatches(actual, expected) <=>
             \A op \in DOMAIN Content(expected) : PythonHolds(op, actual, Content(expected)[op])
      BY <2>1 DEF PythonMatches
    <3>4. QED  BY <3>1, <2>1 DEF MatchesPredicate, PythonMatches
  <2>2. CASE ~IsOperatorObject(expected)
    <3>1. actual \in Items(actual) /\ expected \in Compared(expected)
      BY <2>2 DEF Items, Compared
    <3>2. PythonEqual(actual, expected) <=> actual = expected
      BY <1>1, <3>1, NoConfusion
    <3>3. expected # Absent
      BY SampleAssumption
    <3>4. QED  BY <2>2, <3>2, <3>3 DEF MatchesPredicate, PythonMatches
  <2>3. QED  BY <2>1, <2>2
<1>2. Inv => PairDiffersOnlyOnNumbers
  BY <1>1 DEF PairDiffersOnlyOnNumbers
<1>3. QED  BY <1>2, InvInit, InvStep, PTL DEF Spec

-----------------------------------------------------------------------------
(* What an operator that passed validation can hold of. *)

LEMMA SelfPrefix ==
  ASSUME NEW s \in Seq(STRING)
  PROVE  IsPrefix(s, s) /\ IsSuffix(s, s)
<1>1. Len(s) \in Nat /\ \A i \in 1 .. Len(s) : s[i] \in STRING
  BY LenProperties, ElementOfSeq
<1>2. Reverse(s) \in Seq(STRING)
  <2>1. \A i \in 1 .. Len(s) : (Len(s) - i) + 1 \in 1 .. Len(s)
    BY <1>1
  <2>2. [i \in 1 .. Len(s) |-> s[(Len(s) - i) + 1]] \in Seq(STRING)
    BY <1>1, <2>1, IsASeq
  <2>3. QED  BY <2>2 DEF Reverse
<1>3. Len(Reverse(s)) \in Nat
  BY <1>2, LenProperties
<1>4. QED  BY <1>1, <1>3 DEF IsPrefix, IsSuffix

LEMMA OperatorDecides ==
  ASSUME NEW op \in Operators, NEW operand, SuitsOperator(op, operand), Tried(operand),
         op = "$contains" => Arr(<<operand>>) \in Sample, operand # Arr(<<>>)
  PROVE  \E actual \in Sample : OperatorHolds(op, actual, operand)
<1>1. operand \in Sample /\ operand # Absent /\ Absent \in Sample
  BY SampleAssumption DEF Tried
<1>2. CASE op = "$exists"
  <2>1. PICK b \in BOOLEAN : operand = Bool(b)
    BY <1>2 DEF SuitsOperator, Tried
  <2>2. OperatorHolds(op, operand, operand) \/ OperatorHolds(op, Absent, operand)
    BY <1>1, <1>2, <2>1 DEF OperatorHolds, Bool
  <2>3. QED  BY <1>1, <2>2
<1>3. CASE op = "$eq"
  <2>1. OperatorHolds(op, operand, operand)
    BY <1>1, <1>3 DEF OperatorHolds
  <2>2. QED  BY <1>1, <2>1
<1>4. CASE op \in {"$ne", "$nin"}
  <2>1. OperatorHolds(op, Absent, operand)
    BY <1>4 DEF OperatorHolds
  <2>2. QED  BY <1>1, <2>1
<1>5. CASE op = "$in"
  <2>1. Kind(operand) = "arr"
    BY <1>5 DEF SuitsOperator
  <2>2. PICK item \in Range(Content(operand)) : item \in Sample \ {Absent}
    BY <2>1 DEF Tried
  <2>3. OperatorHolds(op, item, operand)
    BY <1>5, <2>1, <2>2 DEF OperatorHolds, MemberOf
  <2>4. QED  BY <2>2, <2>3
<1>6. CASE op \in Comparisons
  <2>1. IsNumber(operand)
    BY <1>6 DEF SuitsOperator
  <2>2. PICK less \in Sample, more \in Sample :
          /\ IsNumber(less) /\ IsNumber(more)
          /\ {Content(less), Content(operand), Content(more)} \subseteq Int
          /\ Content(less) < Content(operand) /\ Content(operand) < Content(more)
    BY <2>1 DEF Tried
  <2>3. CompareNumbers(op, less, operand) \/ CompareNumbers(op, more, operand)
    BY <1>6, <2>1, <2>2 DEF CompareNumbers, Comparisons
  <2>4. QED  BY <1>6, <2>2, <2>3 DEF OperatorHolds
<1>7. CASE op \in {"$prefix", "$suffix"}
  <2>1. IsString(operand) /\ Content(operand) \in Seq(STRING)
    BY <1>7 DEF SuitsOperator, Tried
  <2>2. OperatorHolds(op, operand, operand)
    BY <1>7, <2>1, SelfPrefix DEF OperatorHolds
  <2>3. QED  BY <1>1, <2>2
<1>8. CASE op = "$contains"
  <2>1. MemberOf(operand, Arr(<<operand>>))
    BY DEF MemberOf, Arr, Kind, Content, Range
  <2>2. OperatorHolds(op, Arr(<<operand>>), operand)
    BY <1>8, <2>1 DEF OperatorHolds
  <2>3. QED  BY <1>8, <2>2
<1>9. QED
  BY <1>2, <1>3, <1>4, <1>5, <1>6, <1>7, <1>8 DEF Operators

(* Every operator of the policy in force holds of some value and none is    *)
(* mixed with keys, whatever edits and reloads happen: no rule is silently  *)
(* dead for its shape (Policy::validate, reload_loop).                      *)
THEOREM RulesInForceDecide == Spec => []PolicyInForceDecides
<1>1. Inv => PolicyInForceDecides
  <2> SUFFICES ASSUME Inv, live # None, NEW expected \in PredicatesOf(Rules[live]),
                      Kind(expected) = "obj", DOMAIN Content(expected) \cap Dollar # {}
               PROVE  /\ IsOperatorObject(expected)
                      /\ \A op \in DOMAIN Content(expected) :
                            \/ Content(expected)[op] = Arr(<<>>)
                            \/ \E actual \in Sample :
                                  OperatorHolds(op, actual, Content(expected)[op])
    BY DEF PolicyInForceDecides
  <2>1. live \in Version /\ ValidPredicate(expected)
    BY DEF Inv, PolicyInv, VersionInv, IsPolicy, ValidPolicy
  <2>2. /\ DOMAIN Content(expected) \cap Dollar = DOMAIN Content(expected)
        /\ DOMAIN Content(expected) \subseteq Operators
        /\ \A op \in DOMAIN Content(expected) : SuitsOperator(op, Content(expected)[op])
    BY <2>1 DEF ValidPredicate
  <2>3. IsOperatorObject(expected)
    BY <2>2 DEF IsOperatorObject
  <2>4. ASSUME NEW op \in DOMAIN Content(expected), Content(expected)[op] # Arr(<<>>)
        PROVE  \E actual \in Sample : OperatorHolds(op, actual, Content(expected)[op])
    <3>1. /\ Tried(Content(expected)[op])
          /\ op = "$contains" => Arr(<<Content(expected)[op]>>) \in Sample
      BY <2>1, <2>3, OperandAssumption
    <3>2. QED  BY <2>2, <2>4, <3>1, OperatorDecides
  <2>5. QED  BY <2>3, <2>4
<1>2. QED  BY <1>1, InvInit, InvStep, PTL DEF Spec
=============================================================================
