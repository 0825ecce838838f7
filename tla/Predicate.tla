------------------------------ MODULE Predicate ------------------------------
(***************************************************************************)
(* The constraint language of policies: payload predicates                 *)
(* (core-rs/src/predicate.rs), dotted paths and validation (policy.rs) and *)
(* the match of a rule's selector with an event (guardian.rs).  Pure       *)
(* functions: the state is in the modules that use them.                   *)
(*                                                                         *)
(* A JSON value is a pair of its kind and its content, so that values of   *)
(* different kinds are comparable and different.  A string is a sequence,  *)
(* for prefixes and substrings; "int" and "float" are serde_json's two     *)
(* representations of a number, equal only to a number of the same kind;   *)
(* an object is a function from its keys.  Absent is the path that does    *)
(* not resolve.                                                            *)
(***************************************************************************)
EXTENDS Integers, Sequences, SequencesExt

Kind(value)    == value[1]
Content(value) == value[2]

Absent == <<"absent">>
Null   == <<"null">>
Bool(b)  == <<"bool", b>>
Whole(n) == <<"int", n>>
Float(n) == <<"float", n>>
Str(s)   == <<"str", s>>
Arr(s)   == <<"arr", s>>
Obj(f)   == <<"obj", f>>

IsNumber(value) == Kind(value) \in {"int", "float"}
IsString(value) == Kind(value) = "str"

-----------------------------------------------------------------------------
Comparisons == {"$gt", "$gte", "$lt", "$lte"}
Operators == Comparisons \cup
    {"$eq", "$ne", "$in", "$nin", "$exists", "$contains", "$prefix", "$suffix"}

(* The keys that begin with a dollar: the operators, and one that is none.  *)
Dollar == Operators \cup {"$regex"}

IsOperatorObject(expected) ==
    /\ Kind(expected) = "obj"
    /\ DOMAIN Content(expected) # {}
    /\ DOMAIN Content(expected) \subseteq Dollar

(* The operand has the type its operator needs. *)
SuitsOperator(op, operand) ==
    /\ op \in {"$in", "$nin"}         => Kind(operand) = "arr"
    /\ op \in Comparisons             => IsNumber(operand)
    /\ op = "$exists"                 => Kind(operand) = "bool"
    /\ op \in {"$prefix", "$suffix"}  => IsString(operand)

(* validate_predicate returns no reason against it. *)
ValidPredicate(expected) ==
    Kind(expected) = "obj" =>
        LET ops    == Content(expected)
            dollar == DOMAIN ops \cap Dollar
        IN  dollar # {} =>
                /\ dollar = DOMAIN ops
                /\ dollar \subseteq Operators
                /\ \A op \in dollar : SuitsOperator(op, ops[op])

-----------------------------------------------------------------------------
(* Mistake: every bound is exclusive. *)
CompareNumbersStrictly(op, actual, operand) ==
    /\ IsNumber(actual) /\ IsNumber(operand)
    /\ LET a == Content(actual)
           b == Content(operand)
       IN  (op \in {"$gt", "$gte"} /\ a > b) \/ (op \in {"$lt", "$lte"} /\ a < b)

(* compare_numbers: nothing but a number compares with a number. *)
CompareNumbers(op, actual, operand) ==
    /\ IsNumber(actual) /\ IsNumber(operand)
    /\ LET a == Content(actual)
           b == Content(operand)
       IN  \/ op = "$gt"  /\ a > b
           \/ op = "$gte" /\ a >= b
           \/ op = "$lt"  /\ a < b
           \/ op = "$lte" /\ a <= b

Substring(needle, s) ==
    \E i \in 0 .. Len(s) : IsPrefix(needle, SubSeq(s, i + 1, Len(s)))

MemberOf(value, array) == Kind(array) = "arr" /\ value \in Range(Content(array))

(* One operator of an operator object; one that is unknown never holds. *)
OperatorHolds(op, actual, operand) ==
    \/ op = "$exists" /\ operand = Bool(actual # Absent)
    \/ op = "$eq"     /\ actual # Absent /\ actual = operand
    \/ op = "$ne"     /\ (actual = Absent \/ actual # operand)
    \/ op = "$in"     /\ actual # Absent /\ MemberOf(actual, operand)
    \/ op = "$nin"    /\ \/ actual = Absent
                         \/ Kind(operand) = "arr" /\ ~MemberOf(actual, operand)
    \/ op \in Comparisons /\ CompareNumbers(op, actual, operand)
    \/ op = "$prefix" /\ IsString(actual) /\ IsString(operand)
                      /\ IsPrefix(Content(operand), Content(actual))
    \/ op = "$suffix" /\ IsString(actual) /\ IsString(operand)
                      /\ IsSuffix(Content(operand), Content(actual))
    \/ op = "$contains" /\ IsString(actual) /\ IsString(operand)
                        /\ Substring(Content(operand), Content(actual))
    \/ op = "$contains" /\ MemberOf(operand, actual)

(* matches_predicate: a literal is deep equality, an operator object the    *)
(* conjunction of its operators.                                            *)
MatchesPredicate(actual, expected) ==
    IF IsOperatorObject(expected)
       THEN \A op \in DOMAIN Content(expected) :
                OperatorHolds(op, actual, Content(expected)[op])
       ELSE actual = expected

-----------------------------------------------------------------------------
(* The numeric segments, in the order of the positions they index. *)
Digits == <<"0", "1">>

(* One segment of a path: a key of an object or a position of an array. *)
Member(value, segment) ==
    IF Kind(value) = "obj" /\ segment \in DOMAIN Content(value)
       THEN Content(value)[segment]
    ELSE IF Kind(value) = "arr" /\ \E i \in DOMAIN Content(value) \cap DOMAIN Digits :
                                        Digits[i] = segment
       THEN Content(value)[CHOOSE i \in DOMAIN Digits : Digits[i] = segment]
    ELSE Absent

(* resolve_path: from the payload, segment by segment. *)
ResolvePath(payload, path) == FoldLeft(Member, payload, path)

(* AgentTraceEvent::tool_name: only a string is one. *)
ToolName(event) ==
    LET named == ResolvePath(event.payload, <<"tool_name">>)
    IN  IF IsString(named) THEN named ELSE Absent

(* matches_event: a selector holds the fields that are set, and they must   *)
(* all match.                                                               *)
MatchesEvent(selector, event) ==
    /\ \A field \in DOMAIN selector \cap {"event_type", "agent_id", "cynefin_domain"} :
          selector[field] = event[field]
    /\ "tool_name" \in DOMAIN selector => ToolName(event) = selector.tool_name
    /\ "payload" \in DOMAIN selector =>
          \A path \in DOMAIN selector.payload :
              MatchesPredicate(ResolvePath(event.payload, path), selector.payload[path])

(* The expected values of a policy's payload predicates. *)
PredicatesOf(rules) ==
    UNION {Range(rules[i].match.payload) :
              i \in {k \in DOMAIN rules : "payload" \in DOMAIN rules[k].match}}

(* Policy::validate. *)
ValidPolicy(rules) == \A expected \in PredicatesOf(rules) : ValidPredicate(expected)
=============================================================================
