---------------------------- MODULE Adjudication ----------------------------
(***************************************************************************)
(* The predicates a policy is judged by, beside their Python twin: the     *)
(* sidecar evaluates them with core-rs/src/predicate.rs, the compliance    *)
(* engine with compliance/src/predicates.py, "a matched pair".  Python's   *)
(* equality identifies what serde_json keeps apart: 1 with 1.0 and with    *)
(* True, also inside lists.  Samples nest no deeper than that.             *)
(***************************************************************************)
EXTENDS PolicyReload

CONSTANTS
    Sample,      \* JSON values an event's payload may hold, Absent included
    Question     \* expected values a policy or an evidence query may ask

ASSUME SampleAssumption == Absent \in Sample /\ Absent \notin Question

(* The samples an operand is tried on: itself, and what lies next to it.    *)
Tried(operand) ==
    /\ operand \in Sample \ {Absent}
    /\ Kind(operand) = "bool" => \E b \in BOOLEAN : operand = Bool(b)
    /\ IsString(operand) => Content(operand) \in Seq(STRING)
    /\ IsNumber(operand) =>
          \E less, more \in Sample :
              /\ IsNumber(less) /\ IsNumber(more)
              /\ {Content(less), Content(operand), Content(more)} \subseteq Int
              /\ Content(less) < Content(operand) /\ Content(operand) < Content(more)
    /\ Kind(operand) = "arr" =>
          /\ Range(Content(operand)) \subseteq Sample \ {Absent}
          /\ operand # Arr(<<>>) => Range(Content(operand)) # {}

ASSUME OperandAssumption ==
    \A v \in Version : \A expected \in PredicatesOf(Rules[v]) :
        IsOperatorObject(expected) =>
            \A op \in DOMAIN Content(expected) :
                /\ Tried(Content(expected)[op])
                /\ op = "$contains" => Arr(<<Content(expected)[op]>>) \in Sample

(* Python's view of a scalar, and of a list of scalars. *)
PythonScalar(value) ==
    CASE Kind(value) = "bool"  -> Whole(IF Content(value) THEN 1 ELSE 0)
      [] Kind(value) = "float" -> Whole(Content(value))
      [] OTHER                 -> value

PythonView(value) ==
    IF Kind(value) = "arr"
       THEN Arr([i \in DOMAIN Content(value) |-> PythonScalar(Content(value)[i])])
       ELSE PythonScalar(value)

PythonEqual(a, b) == PythonView(a) = PythonView(b)

(* _contains_value "does not treat True as 1", yet does treat 1.0 as 1. *)
PythonMemberOf(value, array) ==
    /\ Kind(array) = "arr"
    /\ \E item \in Range(Content(array)) :
          /\ PythonEqual(item, value)
          /\ (Kind(item) = "bool") = (Kind(value) = "bool")

(* _compare, after _as_number, which excludes booleans. *)
PythonCompare(op, left, right) ==
    CASE op = "$gt"  -> left > right
      [] op = "$gte" -> left >= right
      [] op = "$lt"  -> left < right
      [] op = "$lte" -> left <= right

PythonHolds(op, actual, operand) ==
    CASE op = "$exists"  -> operand = Bool(actual # Absent)
      [] op = "$eq"      -> actual # Absent /\ PythonEqual(actual, operand)
      [] op = "$ne"      -> actual = Absent \/ ~PythonEqual(actual, operand)
      [] op = "$in"      -> actual # Absent /\ PythonMemberOf(actual, operand)
      [] op = "$nin"     -> actual = Absent \/ ~PythonMemberOf(actual, operand)
      [] op \in Comparisons -> /\ IsNumber(actual) /\ IsNumber(operand)
                               /\ PythonCompare(op, Content(actual), Content(operand))
      [] op = "$prefix"  -> IsString(actual) /\ IsPrefix(Content(operand), Content(actual))
      [] op = "$suffix"  -> IsString(actual) /\ IsSuffix(Content(operand), Content(actual))
      [] op = "$contains" ->
            \/ /\ IsString(actual) /\ IsString(operand)
               /\ Substring(Content(operand), Content(actual))
            \/ /\ Kind(actual) = "arr"
               /\ \E item \in Range(Content(actual)) : PythonEqual(item, operand)
      [] OTHER           -> FALSE

PythonMatches(actual, expected) ==
    IF IsOperatorObject(expected)
       THEN \A op \in DOMAIN Content(expected) :
                PythonHolds(op, actual, Content(expected)[op])
       ELSE actual # Absent /\ PythonEqual(actual, expected)

-----------------------------------------------------------------------------
Items(value) == {value} \cup (IF Kind(value) = "arr" THEN Range(Content(value)) ELSE {})

(* What an expected value compares with: itself, or its operands. *)
Compared(expected) ==
    IF IsOperatorObject(expected)
       THEN UNION {Items(operand) : operand \in Range(Content(expected))}
       ELSE Items(expected)

(* Two values Python identifies and serde_json does not meet in a comparison. *)
Confusable(actual, expected) ==
    \E a \in Items(actual), b \in Compared(expected) : a # b /\ PythonEqual(a, b)

(* The two engines, asked the same valid question of the same payload,      *)
(* answer alike, except where a number meets an equal one of another        *)
(* representation or a boolean: the one disagreement of the "matched pair"  *)
(* (matches_predicate of predicate.rs and of predicates.py).                *)
PairDiffersOnlyOnNumbers ==
    live = None =>
        \A actual \in Sample, expected \in Question :
            ValidPredicate(expected) /\ ~Confusable(actual, expected)
                => MatchesPredicate(actual, expected) = PythonMatches(actual, expected)

(* "A rule that never fires is a rule nobody notices is broken": whatever   *)
(* edits and reloads happen, no predicate of the policy in force mixes      *)
(* operators with keys, and every operator of it holds of some value,       *)
(* membership of an empty list apart, which validation lets through         *)
(* (Policy::validate, reload_loop).                                         *)
PolicyInForceDecides ==
    live # None =>
        \A expected \in PredicatesOf(Rules[live]) :
            Kind(expected) = "obj" /\ DOMAIN Content(expected) \cap Dollar # {} =>
                /\ IsOperatorObject(expected)
                /\ \A op \in DOMAIN Content(expected) :
                      \/ Content(expected)[op] = Arr(<<>>)
                      \/ \E actual \in Sample :
                            OperatorHolds(op, actual, Content(expected)[op])
=============================================================================
