--------------------------------- MODULE Sdk ---------------------------------
(***************************************************************************)
(* Tracer.check of the Python, TypeScript and Go SDKs against the sidecar: *)
(* a TOOL_CALL is emitted, the guardian is asked about it, a POLICY_CHECK  *)
(* with the verdict is emitted, and the verdict is returned.  Each of the  *)
(* three is one HTTP call with a timeout, whose failures are swallowed or  *)
(* turned into a fallback verdict; what was sent may still arrive after    *)
(* the client gave it up.                                                  *)
(*                                                                         *)
(* The sidecar is here what the clients see of it: a store of events that  *)
(* is idempotent on trace ids, a policy in force that may be reloaded, and *)
(* requests and replies that may be lost (EventStore, PolicyReload and     *)
(* Service model them).                                                    *)
(***************************************************************************)
CONSTANTS
    Call,       \* calls of Tracer.check
    Sdks,       \* a subset of {"python", "typescript", "go"}
    Policy,     \* names of the policies that may be in force
    Ruling,     \* the decision of each policy on each call
    Asked,      \* what callers may pass as the policy's name, or None
    Fallback,   \* the policy a fallback verdict names
    None

Decision == {"PASS", "FAIL", "ESCALATE"}
EventType == {"TOOL_CALL", "POLICY_CHECK"}
Verdict == [decision : Decision, policy : Policy \cup {Fallback}]

ASSUME SdkAssumption ==
    /\ Sdks \subseteq {"python", "typescript", "go"}
    /\ Ruling \in [Policy -> [Call -> Decision]]
    /\ Fallback \notin Policy
    /\ None \notin Verdict

VARIABLES
    sdk,        \* the SDK in use
    failOpen,   \* of its guardian client
    asked,      \* the policy its checks ask for
    stage,      \* of each call
    verdict,    \* what the client takes the guardian to have said
    wire,       \* requests on their way to the sidecar
    replies,    \* the answers to clients that still wait
    inForce,    \* the policy in force
    ruled,      \* what the guardian decided on each call, or None
    store,      \* the stored events
    accepted    \* the events whose emit was answered with success

client == <<sdk, failOpen, asked>>
sidecar == <<inForce, ruled, store>>
vars == <<client, stage, verdict, wire, replies, sidecar, accepted>>

Stage == {"new", "calling", "called", "asking", "judged", "recording", "returned"}

TypeOK ==
    /\ sdk \in Sdks /\ failOpen \in BOOLEAN /\ asked \in Asked \cup {None}
    /\ stage \in [Call -> Stage]
    /\ verdict \in [Call -> Verdict \cup {None}]
    /\ \A c \in Call : verdict[c] = None <=> stage[c] \in {"new", "calling", "called", "asking"}
    /\ \A m \in wire : m.call \in Call /\ m.type \in EventType \cup {"check"}
    /\ inForce \in Policy
    /\ ruled \in [Call -> Verdict \cup {None}]
    /\ \A e \in store : e.call \in Call /\ e.type \in EventType

Init ==
    /\ sdk \in Sdks
    /\ failOpen \in BOOLEAN
    /\ asked \in Asked \cup {None}
    /\ stage = [c \in Call |-> "new"]
    /\ verdict = [c \in Call |-> None]
    /\ wire = {}
    /\ replies = {}
    /\ inForce \in Policy
    /\ ruled = [c \in Call |-> None]
    /\ store = {}
    /\ accepted = {}

-----------------------------------------------------------------------------
(* The client. *)

(* Mistake: the two events of a call share its trace id. *)
TraceIdOfCall(c, type) == <<c, "TOOL_CALL">>

(* A new trace id for each event, but in Go one for the call and its check. *)
TraceId(c, type) == IF sdk = "go" THEN <<c, "TOOL_CALL">> ELSE <<c, type>>

ToolCall(c) == [call |-> c, type |-> "TOOL_CALL", id |-> TraceId(c, "TOOL_CALL")]

(* Mistake: the check is filed under the policy that was asked for. *)
RecordedPolicyAsked(c) == IF asked # None THEN asked ELSE verdict[c].policy

(* The policy_name of the recorded check. *)
RecordedPolicy(c) ==
    IF sdk = "go" /\ asked # None THEN asked ELSE verdict[c].policy

PolicyCheck(c) ==
    [call |-> c, type |-> "POLICY_CHECK", id |-> TraceId(c, "POLICY_CHECK"),
     policy |-> RecordedPolicy(c), result |-> verdict[c].decision]

Sends(c, from, to, m) ==
    /\ stage[c] = from
    /\ stage' = [stage EXCEPT ![c] = to]
    /\ wire' = wire \cup {m}
    /\ UNCHANGED <<client, verdict, replies, sidecar, accepted>>

EmitCall(c) == Sends(c, "new", "calling", ToolCall(c))
Ask(c) == Sends(c, "called", "asking", [call |-> c, type |-> "check"])
EmitCheck(c) == Sends(c, "judged", "recording", PolicyCheck(c))

(* What a call waits for, and what follows. *)
Awaits == [calling |-> "TOOL_CALL", asking |-> "check", recording |-> "POLICY_CHECK"]
After == [calling |-> "called", asking |-> "judged", recording |-> "returned"]

WaitsFor(c, type) == stage[c] \in DOMAIN Awaits /\ Awaits[stage[c]] = type

GoesOn(c) ==
    /\ stage' = [stage EXCEPT ![c] = After[@]]
    /\ replies' = {r \in replies : r.call # c}
    /\ UNCHANGED <<client, wire, sidecar>>

Emitting(c) == WaitsFor(c, "TOOL_CALL") \/ WaitsFor(c, "POLICY_CHECK")

Emitted(c) ==
    /\ Emitting(c)
    /\ \E r \in replies :
          /\ r.call = c /\ r.type \in EventType
          /\ accepted' = accepted \cup {r}
    /\ GoesOn(c)
    /\ UNCHANGED verdict

(* A refused connection, an error status or the timeout: logged, no more.   *)
EmitFails(c) ==
    /\ Emitting(c)
    /\ GoesOn(c)
    /\ UNCHANGED <<verdict, accepted>>

Judged(c, v) ==
    /\ WaitsFor(c, "check")
    /\ verdict' = [verdict EXCEPT ![c] = v]
    /\ GoesOn(c)
    /\ UNCHANGED accepted

Answered(c) == \E r \in replies : r.call = c /\ r.type = "check" /\ Judged(c, r.verdict)

(* Mistake: fail_open is not asked. *)
FallbackOpen == [decision |-> "PASS", policy |-> Fallback]

FallbackVerdict == [decision |-> IF failOpen THEN "PASS" ELSE "FAIL", policy |-> Fallback]

(* The same failures, and a reply that is no verdict. *)
AskFails(c) == Judged(c, FallbackVerdict)

-----------------------------------------------------------------------------
(* The sidecar and the network. *)

Received(m) ==
    /\ m \in wire
    /\ wire' = wire \ {m}
    /\ UNCHANGED <<client, stage, verdict, inForce, accepted>>

Replied(m, reply) ==
    replies' = IF WaitsFor(m.call, m.type) THEN replies \cup {reply} ELSE replies

(* POST /v1/events: the first event of a trace id is kept. *)
Store(m) ==
    /\ m.type \in EventType
    /\ Received(m)
    /\ store' = IF \E e \in store : e.id = m.id THEN store ELSE store \cup {m}
    /\ Replied(m, m)
    /\ UNCHANGED ruled

(* POST /v1/check *)
Rule(m) ==
    /\ m.type = "check"
    /\ Received(m)
    /\ LET v == [decision |-> Ruling[inForce][m.call], policy |-> inForce]
       IN  /\ ruled' = [ruled EXCEPT ![m.call] = v]
           /\ Replied(m, [call |-> m.call, type |-> "check", verdict |-> v])
    /\ UNCHANGED store

Lose(m) == Received(m) /\ UNCHANGED <<replies, ruled, store>>

Reload ==
    /\ inForce' \in Policy \ {inForce}
    /\ UNCHANGED <<client, stage, verdict, wire, replies, ruled, store, accepted>>

ClientStep(c) ==
    \/ EmitCall(c) \/ Ask(c) \/ EmitCheck(c)
    \/ Emitted(c) \/ EmitFails(c) \/ Answered(c) \/ AskFails(c)

Next ==
    \/ \E c \in Call : ClientStep(c)
    \/ \E m \in wire : Store(m) \/ Rule(m) \/ Lose(m)
    \/ Reload

Spec == Init /\ [][Next]_vars

-----------------------------------------------------------------------------
(* "So the trace stream itself records the verdict": an event whose emit    *)
(* was answered with success is in the store as it was sent, whatever       *)
(* arrived before it (Tracer.check, EventStore::append).                    *)
AcceptedIsStored == accepted \subseteq store

(* "The policy that produced the verdict": a check that names a policy has  *)
(* the result that policy gave on this very call, and one the guardian did  *)
(* not answer in time names the fallback (Tracer.check).                    *)
RecordNamesTheRuler ==
    \A e \in store :
        e.type = "POLICY_CHECK" /\ e.policy # Fallback =>
            ruled[e.call] = [decision |-> e.result, policy |-> e.policy]

(* A client that fails closed returns PASS only if the guardian said so,    *)
(* and one that fails open denies only if the guardian did (check).         *)
OnlyTheGuardianDecides ==
    \A c \in Call : stage[c] = "returned" =>
        \/ ruled[c] # None /\ verdict[c] = ruled[c]
        \/ verdict[c].policy = Fallback /\ (verdict[c].decision = "PASS" <=> failOpen)

=============================================================================
