--------------------------- MODULE MCPolicyReload ---------------------------
(* A request thread, and three edits of which the second mixes operators    *)
(* with a literal key and is not a policy.                                  *)
EXTENDS Adjudication

CONSTANTS c1

(* Two strings of which one begins and ends the other. *)
A  == Str(<<"a">>)
ABA == Str(<<"a", "b", "a">>)

Payload(tool, args) == Obj([k \in {"tool_name", "args"} |->
    IF k = "tool_name" THEN tool ELSE Arr(args)])

Calm == [event_type |-> "TOOL_CALL", agent_id |-> "x", cynefin_domain |-> "CLEAR",
         payload |-> Payload(ABA, <<Whole(1), A>>)]
Chaotic == [event_type |-> "LLM_CALL", agent_id |-> "y", cynefin_domain |-> "CHAOTIC",
            payload |-> Payload(Null, <<Float(1)>>)]
MCEvent == {Calm, Chaotic}

Args0 == <<"args", "0">>
Args1 == <<"args", "1">>
Ask(op, operand) == Obj([k \in {op} |-> operand])
On(path, expected) == [payload |-> [q \in {path} |-> expected]]
Rule(d, s) == [match |-> s, decision |-> d]

(* The rules of each version: they differ in order, number and decisions.  *)
MCRules ==
    [v \in 0 .. 3 |->
        CASE v = 0 -> << Rule("FAIL", On(Args0, Float(1))),
                         Rule("PASS", [event_type |-> "TOOL_CALL", tool_name |-> ABA]) >>
          [] v = 1 -> << Rule("ESCALATE", On(<<"tool_name">>, Ask("$prefix", A))) >>
          [] v = 2 -> << Rule("FAIL", On(Args0, Obj([k \in {"$gt", "unit"} |-> Whole(0)]))) >>
          [] OTHER -> << Rule("PASS", [agent_id |-> "z"]),
                         Rule("FAIL", On(Args1, Ask("$nin", Arr(<<Whole(1)>>)))) >>]

-----------------------------------------------------------------------------
Scalars == {Null, Bool(TRUE), Bool(FALSE), Whole(0), Whole(1), Float(1), Whole(2), A, ABA}
Lists == {<<>>, <<Whole(1)>>, <<Bool(TRUE), A>>, <<Float(1), ABA>>}

MCSample == {Absent, Obj([k \in {"in"} |-> A])} \cup Scalars \cup {Arr(s) : s \in Lists}

MCQuestion ==
    (MCSample \ {Absent})
    \cup {Ask(op, operand) : op \in Dollar, operand \in MCSample \ {Absent}}
    \cup {Obj([k \in {"$gte", "$lte"} |-> Whole(1)]),
          Obj([k \in {"$exists", "$ne"} |-> Bool(TRUE)]),
          Obj([k \in {"$gt", "unit"} |-> Whole(0)])}
=============================================================================
