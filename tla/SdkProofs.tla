------------------------------ MODULE SdkProofs ------------------------------
(***************************************************************************)
(* What Tracer.check records and returns, for any number of calls and      *)
(* policies, whatever the network loses or delays.                         *)
(*                                                                         *)
(* The invariant follows a call: the message of each kind is determined by *)
(* the call once its verdict is, the guardian rules at most once, and only *)
(* on a question that was sent.                                            *)
(***************************************************************************)
EXTENDS Sdk, TLAPS

Early == {"new", "calling", "called", "asking"}
Unasked == {"new", "calling", "called"}
Recorded == {"recording", "returned"}

Question(c) == [call |-> c, type |-> "check"]

CallInv ==
    /\ stage \in [Call -> Stage]
    /\ verdict \in [Call -> Verdict \cup {None}]
    /\ ruled \in [Call -> Verdict \cup {None}]
    /\ inForce \in Policy
    /\ \A c \in Call : verdict[c] = None <=> stage[c] \in Early
    /\ \A c \in Call : stage[c] \in Unasked => ruled[c] = None
    /\ \A c \in Call : verdict[c] # None => verdict[c] \in {ruled[c], FallbackVerdict}

IsEvent(e) ==
    /\ e.call \in Call
    /\ \/ e = ToolCall(e.call)
       \/ e = PolicyCheck(e.call) /\ stage[e.call] \in Recorded

WireInv ==
    \A m \in wire :
        /\ m.call \in Call
        /\ \/ IsEvent(m)
           \/ /\ m = Question(m.call)
              /\ ruled[m.call] = None
              /\ stage[m.call] \notin Unasked

ReplyInv ==
    \A r \in replies :
        r.type = "check" => /\ r.call \in Call
                            /\ r.verdict = ruled[r.call]
                            /\ ruled[r.call] # None

StoreInv == \A e \in store : IsEvent(e)

Inv == CallInv /\ WireInv /\ ReplyInv /\ StoreInv

LEMMA InvInit == Init => Inv
  BY DEF Init, Inv, CallInv, WireInv, ReplyInv, StoreInv, Early, Unasked, Stage

(* What has been sent of a call stays what the call would send. *)
LEMMA EventsStay ==
  ASSUME NEW e, IsEvent(e), UNCHANGED client,
         stage[e.call] \in Recorded => /\ stage'[e.call] \in Recorded
                                       /\ verdict'[e.call] = verdict[e.call]
  PROVE  IsEvent(e)'
<1>1. CASE e = ToolCall(e.call)
  BY <1>1 DEF IsEvent, ToolCall, TraceId, client
<1>2. CASE e = PolicyCheck(e.call) /\ stage[e.call] \in Recorded
  BY <1>2 DEF IsEvent, PolicyCheck, RecordedPolicy, TraceId, client
<1>3. QED  BY <1>1, <1>2 DEF IsEvent

-----------------------------------------------------------------------------
(* The three sends. *)

LEMMA SendsInv ==
  ASSUME Inv, NEW c \in Call, NEW from, NEW to, NEW m,
         Sends(c, from, to, m),
         \/ from = "new" /\ to = "calling" /\ m = ToolCall(c)
         \/ from = "called" /\ to = "asking" /\ m = Question(c)
         \/ from = "judged" /\ to = "recording" /\ m = PolicyCheck(c)
  PROVE  Inv'
<1>1. /\ stage[c] = from
      /\ stage' = [stage EXCEPT ![c] = to]
      /\ wire' = wire \cup {m}
      /\ UNCHANGED <<client, verdict, replies, sidecar, accepted>>
  BY DEF Sends
<1>2. /\ stage' \in [Call -> Stage]
      /\ stage'[c] = to
      /\ \A d \in Call \ {c} : stage'[d] = stage[d]
  BY <1>1 DEF Inv, CallInv, Stage
<1>3. CallInv'
  <2>1. stage'[c] \in Early <=> stage[c] \in Early
    BY <1>1, <1>2 DEF Early
  <2>2. stage'[c] \in Unasked => stage[c] \in Unasked
    BY <1>1, <1>2 DEF Unasked
  <2>3. QED
    BY <1>1, <1>2, <2>1, <2>2 DEF Inv, CallInv, sidecar, client, FallbackVerdict
<1>4. stage[c] \notin Recorded
  BY <1>1 DEF Recorded
<1>5. ASSUME NEW e, IsEvent(e)
      PROVE  IsEvent(e)'
  <2>1. stage[e.call] \in Recorded => stage'[e.call] \in Recorded
    BY <1>2, <1>4, <1>5 DEF IsEvent
  <2>2. QED  BY <1>1, <1>5, <2>1, EventsStay
<1>6. WireInv'
  <2>1. ASSUME NEW n \in wire
        PROVE  /\ n.call \in Call
               /\ \/ IsEvent(n)'
                  \/ n = Question(n.call) /\ ruled[n.call] = None /\ stage'[n.call] \notin Unasked
    <3>1. CASE IsEvent(n)
      BY <1>5, <3>1 DEF IsEvent
    <3>2. CASE n = Question(n.call) /\ ruled[n.call] = None /\ stage[n.call] \notin Unasked
      <4>1. stage'[n.call] \notin Unasked
        BY <1>1, <1>2, <3>2 DEF Unasked
      <4>2. QED  BY <3>2, <4>1 DEF Inv, WireInv
    <3>3. QED  BY <3>1, <3>2 DEF Inv, WireInv
  <2>2. /\ m.call = c
        /\ \/ IsEvent(m)'
           \/ m = Question(m.call) /\ ruled[m.call] = None /\ stage'[m.call] \notin Unasked
    <3>1. CASE m = ToolCall(c)
      BY <1>1, <3>1 DEF IsEvent, ToolCall, TraceId, client
    <3>2. CASE m = PolicyCheck(c) /\ to = "recording"
      BY <1>1, <1>2, <3>2 DEF IsEvent, PolicyCheck, RecordedPolicy, TraceId, client, Recorded
    <3>3. CASE m = Question(c) /\ from = "called" /\ to = "asking"
      BY <1>1, <1>2, <3>3 DEF Question, Unasked, Inv, CallInv
    <3>4. QED  BY <3>1, <3>2, <3>3
  <2>3. QED  BY <1>1, <2>1, <2>2 DEF WireInv, sidecar
<1>7. ReplyInv' /\ StoreInv'
  BY <1>1, <1>5 DEF Inv, ReplyInv, StoreInv, sidecar
<1>8. QED  BY <1>3, <1>6, <1>7 DEF Inv

-----------------------------------------------------------------------------
(* What a call waits for ends: with a reply or without. *)

LEMMA GoesOnInv ==
  ASSUME Inv, NEW c \in Call, NEW type, WaitsFor(c, type), GoesOn(c),
         \/ type \in EventType /\ UNCHANGED verdict
         \/ /\ type = "check"
            /\ \E v \in Verdict \cap {ruled[c], FallbackVerdict} : verdict' = [verdict EXCEPT ![c] = v]
  PROVE  Inv'
<1>1. /\ stage' = [stage EXCEPT ![c] = After[stage[c]]]
      /\ replies' \subseteq replies
      /\ UNCHANGED <<client, wire, sidecar>>
  BY DEF GoesOn
<1>2. \/ type = "TOOL_CALL" /\ stage[c] = "calling"
      \/ type = "check" /\ stage[c] = "asking"
      \/ type = "POLICY_CHECK" /\ stage[c] = "recording"
  BY DEF WaitsFor, Awaits
<1>3. /\ stage[c] = "calling" => After[stage[c]] = "called"
      /\ stage[c] = "asking" => After[stage[c]] = "judged"
      /\ stage[c] = "recording" => After[stage[c]] = "returned"
  BY DEF After
<1>4. /\ stage' \in [Call -> Stage]
      /\ \A d \in Call \ {c} : stage'[d] = stage[d]
      /\ stage'[c] = After[stage[c]]
  BY <1>1, <1>2, <1>3 DEF Inv, CallInv, Stage
<1>5. /\ verdict' \in [Call -> Verdict \cup {None}]
      /\ \A d \in Call \ {c} : verdict'[d] = verdict[d]
      /\ type # "check" => verdict' = verdict
      /\ type = "check" => verdict'[c] \in Verdict \cap {ruled[c], FallbackVerdict}
  BY DEF Inv, CallInv, EventType
<1>6. CallInv'
  <2>1. verdict'[c] = None <=> stage'[c] \in Early
    BY <1>2, <1>3, <1>4, <1>5, SdkAssumption DEF Early, Inv, CallInv
  <2>2. stage'[c] \in Unasked => stage[c] \in Unasked
    BY <1>2, <1>3, <1>4 DEF Unasked
  <2>3. UNCHANGED <<ruled, inForce, FallbackVerdict>>
    BY <1>1 DEF sidecar, client, FallbackVerdict
  <2>4. QED
    BY <1>4, <1>5, <2>1, <2>2, <2>3 DEF Inv, CallInv
<1>7. ASSUME NEW e, IsEvent(e)
      PROVE  IsEvent(e)'
  <2>1. stage[e.call] \in Recorded => /\ stage'[e.call] \in Recorded
                                      /\ verdict'[e.call] = verdict[e.call]
    BY <1>2, <1>3, <1>4, <1>5, <1>7 DEF IsEvent, Recorded
  <2>2. QED  BY <1>1, <1>7, <2>1, EventsStay
<1>8. \A d \in Call : stage[d] \notin Unasked => stage'[d] \notin Unasked
  BY <1>2, <1>3, <1>4 DEF Unasked
<1>9. WireInv'
  BY <1>1, <1>7, <1>8 DEF Inv, WireInv, sidecar
<1>10. ReplyInv' /\ StoreInv'
  BY <1>1, <1>7 DEF Inv, ReplyInv, StoreInv, sidecar
<1>11. QED  BY <1>6, <1>9, <1>10 DEF Inv

-----------------------------------------------------------------------------
(* The sidecar and the network. *)

LEMMA ReceivedInv ==
  ASSUME Inv, NEW m \in wire, Received(m), UNCHANGED ruled
  PROVE  CallInv' /\ WireInv' /\ \A e : IsEvent(e) => IsEvent(e)'
<1>1. UNCHANGED <<client, stage, verdict, inForce, ruled>> /\ wire' \subseteq wire
  BY DEF Received
<1>2. ASSUME NEW e, IsEvent(e)
      PROVE  IsEvent(e)'
  BY <1>1, <1>2, EventsStay
<1>3. CallInv'
  BY <1>1 DEF Inv, CallInv, FallbackVerdict, client
<1>4. WireInv'
  BY <1>1, <1>2 DEF Inv, WireInv
<1>5. QED  BY <1>2, <1>3, <1>4

LEMMA StoreKeeps ==
  ASSUME Inv, NEW m \in wire, Store(m)
  PROVE  Inv'
<1>1. CallInv' /\ WireInv' /\ \A e : IsEvent(e) => IsEvent(e)'
  BY ReceivedInv DEF Store
<1>2. IsEvent(m)
  BY DEF Store, Inv, WireInv, Question, EventType
<1>3. StoreInv'
  BY <1>1, <1>2 DEF Store, Inv, StoreInv
<1>4. ReplyInv'
  BY DEF Store, Replied, Inv, ReplyInv, EventType
<1>5. QED  BY <1>1, <1>3, <1>4 DEF Inv

LEMMA RuleKeeps ==
  ASSUME Inv, NEW m \in wire, Rule(m)
  PROVE  Inv'
<1> DEFINE c == m.call
           v == [decision |-> Ruling[inForce][c], policy |-> inForce]
<1>1. c \in Call /\ m = Question(c) /\ ruled[c] = None /\ stage[c] \notin Unasked
  BY DEF Rule, Inv, WireInv, IsEvent, ToolCall, PolicyCheck
<1>2. /\ ruled' = [ruled EXCEPT ![c] = v]
      /\ wire' = wire \ {m}
      /\ replies' \subseteq replies \cup {[call |-> c, type |-> "check", verdict |-> v]}
      /\ UNCHANGED <<client, stage, verdict, inForce, store>>
  BY DEF Rule, Received, Replied
<1>3. v \in Verdict /\ v # None
  BY <1>1, SdkAssumption DEF Inv, CallInv, Verdict
<1>4. /\ ruled' \in [Call -> Verdict \cup {None}]
      /\ ruled'[c] = v
      /\ \A d \in Call \ {c} : ruled'[d] = ruled[d]
  <2> HIDE DEF c, v
  <2>1. QED  BY <1>1, <1>2, <1>3 DEF Inv, CallInv
<1> HIDE DEF c, v
<1>5. CallInv'
  BY <1>1, <1>2, <1>4 DEF Inv, CallInv, FallbackVerdict, client
<1>6. ASSUME NEW e, IsEvent(e)
      PROVE  IsEvent(e)'
  BY <1>2, <1>6, EventsStay
<1>7. WireInv'
  <2>1. ASSUME NEW n \in wire', ~IsEvent(n)'
        PROVE  n.call \in Call /\ n = Question(n.call) /\ ruled'[n.call] = None /\ stage'[n.call] \notin Unasked
    <3>1. n \in wire /\ n # m
      BY <1>2
    <3>2. ~IsEvent(n)
      BY <1>6, <2>1
    <3>3. n.call \in Call /\ n = Question(n.call) /\ ruled[n.call] = None /\ stage[n.call] \notin Unasked
      BY <3>1, <3>2 DEF Inv, WireInv
    <3>4. n.call # c
      BY <1>1, <3>1, <3>3
    <3>5. QED  BY <1>2, <1>4, <3>3, <3>4
  <2>2. QED  BY <2>1 DEF WireInv, IsEvent
<1>8. ReplyInv'
  <2>1. ASSUME NEW r \in replies', r.type = "check"
        PROVE  r.call \in Call /\ r.verdict = ruled'[r.call] /\ ruled'[r.call] # None
    <3>1. CASE r \in replies
      BY <1>1, <1>4, <2>1, <3>1 DEF Inv, ReplyInv
    <3>2. CASE r = [call |-> c, type |-> "check", verdict |-> v]
      BY <1>1, <1>3, <1>4, <3>2
    <3>3. QED  BY <1>2, <3>1, <3>2
  <2>2. QED  BY <2>1 DEF ReplyInv
<1>9. StoreInv'
  BY <1>2, <1>6 DEF Inv, StoreInv
<1>10. QED  BY <1>5, <1>7, <1>8, <1>9 DEF Inv

LEMMA LoseKeeps ==
  ASSUME Inv, NEW m \in wire, Lose(m)
  PROVE  Inv'
<1>1. CallInv' /\ WireInv' /\ \A e : IsEvent(e) => IsEvent(e)'
  BY ReceivedInv DEF Lose
<1>2. ReplyInv' /\ StoreInv'
  BY <1>1 DEF Lose, Inv, ReplyInv, StoreInv
<1>3. QED  BY <1>1, <1>2 DEF Inv

(* A step that touches nothing of a call but, maybe, the policy in force.   *)
LEMMA ElsewhereInv ==
  ASSUME Inv, inForce' \in Policy,
         UNCHANGED <<client, stage, verdict, wire, replies, ruled, store>>
  PROVE  Inv'
<1>1. ASSUME NEW e, IsEvent(e)
      PROVE  IsEvent(e)'
  BY <1>1, EventsStay
<1>2. CallInv'
  BY DEF Inv, CallInv, FallbackVerdict, client
<1>3. WireInv' /\ ReplyInv' /\ StoreInv'
  BY <1>1 DEF Inv, WireInv, ReplyInv, StoreInv
<1>4. QED  BY <1>2, <1>3 DEF Inv

LEMMA ClientStepInv ==
  ASSUME Inv, NEW c \in Call, ClientStep(c)
  PROVE  Inv'
<1>1. CASE EmitCall(c)
  BY <1>1, SendsInv DEF EmitCall
<1>2. CASE Ask(c)
  BY <1>2, SendsInv DEF Ask, Question
<1>3. CASE EmitCheck(c)
  BY <1>3, SendsInv DEF EmitCheck
<1>4. CASE EmitFails(c)
  BY <1>4, GoesOnInv DEF EmitFails, Emitting, EventType
<1>5. CASE Emitted(c)
  BY <1>5, GoesOnInv DEF Emitted, Emitting, EventType
<1>6. CASE Answered(c)
  <2>1. PICK r \in replies : r.call = c /\ r.type = "check" /\ Judged(c, r.verdict)
    BY <1>6 DEF Answered
  <2>2. r.verdict \in Verdict \cap {ruled[c], FallbackVerdict}
    BY <2>1 DEF Inv, ReplyInv, CallInv
  <2>3. QED  BY <2>1, <2>2, GoesOnInv DEF Judged
<1>7. CASE AskFails(c)
  <2>1. FallbackVerdict \in Verdict
    BY DEF FallbackVerdict, Verdict, Decision
  <2>2. QED  BY <1>7, <2>1, GoesOnInv DEF AskFails, Judged
<1>8. QED  BY <1>1, <1>2, <1>3, <1>4, <1>5, <1>6, <1>7 DEF ClientStep

LEMMA NextInv == Inv /\ [Next]_vars => Inv'
<1> SUFFICES ASSUME Inv, [Next]_vars PROVE Inv'
  OBVIOUS
<1>1. CASE \E c \in Call : ClientStep(c)
  BY <1>1, ClientStepInv
<1>2. CASE \E m \in wire : Store(m) \/ Rule(m) \/ Lose(m)
  BY <1>2, StoreKeeps, RuleKeeps, LoseKeeps
<1>3. CASE Reload
  BY <1>3, ElsewhereInv DEF Reload
<1>4. CASE UNCHANGED vars
  BY <1>4, ElsewhereInv DEF vars, sidecar, Inv, CallInv
<1>5. QED  BY <1>1, <1>2, <1>3, <1>4 DEF Next

-----------------------------------------------------------------------------
ClientInv == sdk \in Sdks /\ failOpen \in BOOLEAN /\ asked \in Asked \cup {None}

LEMMA ClientFixed == ClientInv /\ [Next]_vars => ClientInv'
<1> SUFFICES ASSUME ClientInv, [Next]_vars PROVE UNCHANGED client
  BY DEF ClientInv, client
<1>1. CASE \E c \in Call : ClientStep(c)
  BY <1>1 DEF ClientStep, EmitCall, Ask, EmitCheck, Sends, Emitted, EmitFails, Answered, AskFails,
              Judged, GoesOn
<1>2. CASE \E m \in wire : Store(m) \/ Rule(m) \/ Lose(m)
  BY <1>2 DEF Store, Rule, Lose, Received
<1>3. CASE Reload \/ UNCHANGED vars
  BY <1>3 DEF Reload, vars
<1>4. QED  BY <1>1, <1>2, <1>3 DEF Next

(* The state stays well formed; in particular a call has a verdict exactly  *)
(* from its judgement on, and the guardian's decisions name real policies.  *)
THEOREM TypeCorrect == Spec => []TypeOK
<1>1. Init => ClientInv
  BY DEF Init, ClientInv
<1>2. Inv /\ ClientInv => TypeOK
  BY DEF Inv, ClientInv, CallInv, WireInv, StoreInv, IsEvent, ToolCall, PolicyCheck, Question,
         EventType, Early, TypeOK
<1>3. QED  BY <1>1, <1>2, InvInit, NextInv, ClientFixed, PTL DEF Spec

-----------------------------------------------------------------------------
(* Whatever the sidecar does, a client that fails closed returns PASS only  *)
(* if the guardian said so, and one that fails open denies only if it did:  *)
(* for every SDK, the Go one included (check, fallback_verdict).            *)
THEOREM VerdictsAreTheGuardians == Spec => []OnlyTheGuardianDecides
<1>1. Inv => OnlyTheGuardianDecides
  <2> SUFFICES ASSUME Inv, NEW c \in Call, stage[c] = "returned"
               PROVE  \/ ruled[c] # None /\ verdict[c] = ruled[c]
                      \/ verdict[c].policy = Fallback /\ (verdict[c].decision = "PASS" <=> failOpen)
    BY DEF OnlyTheGuardianDecides
  <2>1. verdict[c] # None /\ verdict[c] \in {ruled[c], FallbackVerdict}
    BY DEF Inv, CallInv, Early
  <2>2. CASE verdict[c] = ruled[c]
    BY <2>1, <2>2
  <2>3. CASE verdict[c] = FallbackVerdict
    BY <2>3 DEF FallbackVerdict
  <2>4. QED  BY <2>1, <2>2, <2>3
<1>2. QED  BY <1>1, InvInit, NextInv, PTL DEF Spec

-----------------------------------------------------------------------------
(* Where each event has a trace id of its own. *)

Distinct == sdk # "go"

StoredInv ==
    /\ Distinct
    /\ \A r \in replies : r.type \in EventType => r \in store
    /\ accepted \subseteq store

LEMMA PairsEqual ==
  ASSUME NEW a, NEW b, NEW c, NEW d, <<a, b>> = <<c, d>>
  PROVE  a = c /\ b = d
OBVIOUS

(* The event that keeps another of its trace id out of the store is the     *)
(* same event.                                                              *)
LEMMA SameIdSameEvent ==
  ASSUME Distinct, NEW d, NEW e, IsEvent(d), IsEvent(e), d.id = e.id
  PROVE  d = e
<1>1. d.id = <<d.call, d.type>> /\ e.id = <<e.call, e.type>>
  BY DEF Distinct, IsEvent, ToolCall, PolicyCheck, TraceId
<1>2. d.call = e.call /\ d.type = e.type
  <2>1. <<d.call, d.type>> = <<e.call, e.type>>
    BY <1>1
  <2>2. QED  BY ONLY <2>1, PairsEqual
<1>3. CASE d = ToolCall(d.call)
  BY <1>2, <1>3 DEF IsEvent, ToolCall, PolicyCheck
<1>4. CASE d = PolicyCheck(d.call)
  BY <1>2, <1>4 DEF IsEvent, ToolCall, PolicyCheck
<1>5. QED  BY <1>3, <1>4 DEF IsEvent

LEMMA StoredStore ==
  ASSUME Inv, StoredInv, NEW m \in wire, Store(m)
  PROVE  StoredInv'
<1>1. IsEvent(m)
  BY DEF Store, Inv, WireInv, Question, EventType
<1>2. m \in store' /\ store \subseteq store'
  <2>1. ASSUME NEW e \in store, e.id = m.id
        PROVE  e = m
    BY <1>1, <2>1, SameIdSameEvent DEF Inv, StoreInv, StoredInv
  <2>2. QED  BY <2>1 DEF Store
<1>3. Distinct' /\ accepted' = accepted /\ replies' \subseteq replies \cup {m}
  BY DEF Store, Received, Replied, StoredInv, Distinct, client
<1>4. QED  BY <1>2, <1>3 DEF StoredInv

LEMMA StoredClient ==
  ASSUME StoredInv, NEW c \in Call, ClientStep(c)
  PROVE  StoredInv'
<1>1. store' = store /\ replies' \subseteq replies /\ sdk' = sdk
  BY DEF ClientStep, EmitCall, Ask, EmitCheck, Sends, Emitted, EmitFails, Answered, AskFails,
         Judged, GoesOn, client, sidecar
<1>2. accepted' \subseteq accepted \cup {r \in replies : r.type \in EventType}
  BY DEF ClientStep, EmitCall, Ask, EmitCheck, Sends, Emitted, EmitFails, Answered, AskFails, Judged
<1>3. QED  BY <1>1, <1>2 DEF StoredInv, Distinct

LEMMA StoredStep == Inv /\ StoredInv /\ [Next]_vars => StoredInv'
<1> SUFFICES ASSUME Inv, StoredInv, [Next]_vars PROVE StoredInv'
  OBVIOUS
<1>1. CASE \E c \in Call : ClientStep(c)
  BY <1>1, StoredClient
<1>2. CASE \E m \in wire : Store(m)
  BY <1>2, StoredStore
<1>3. CASE \E m \in wire : Rule(m)
  BY <1>3 DEF Rule, Received, Replied, StoredInv, Distinct, client, EventType
<1>4. CASE (\E m \in wire : Lose(m)) \/ Reload \/ UNCHANGED vars
  BY <1>4 DEF Lose, Received, Reload, vars, StoredInv, Distinct, client, sidecar
<1>5. QED  BY <1>1, <1>2, <1>3, <1>4 DEF Next

LEMMA StoredInit == "go" \notin Sdks /\ Init => StoredInv
  BY DEF Init, StoredInv, Distinct

(* An emit that was answered with success is of an event that is in the     *)
(* store as it was sent, for the SDKs that give each event a trace id of    *)
(* its own (Tracer.check, EventStore::append).                              *)
THEOREM AcceptedEventsAreStored == "go" \notin Sdks /\ Spec => []AcceptedIsStored
<1>1. StoredInv => AcceptedIsStored
  BY DEF StoredInv, AcceptedIsStored
<1>2. QED  BY <1>1, InvInit, NextInv, StoredInit, StoredStep, PTL DEF Spec

(* A stored check that names a policy has the result this policy gave on    *)
(* this very call, however often the policy was reloaded in between         *)
(* (Tracer.check, policy_check).                                            *)
THEOREM RecordsNameTheRuler == "go" \notin Sdks /\ Spec => []RecordNamesTheRuler
<1>1. Inv /\ StoredInv => RecordNamesTheRuler
  <2> SUFFICES ASSUME Inv, StoredInv, NEW e \in store, e.type = "POLICY_CHECK", e.policy # Fallback
               PROVE  ruled[e.call] = [decision |-> e.result, policy |-> e.policy]
    BY DEF RecordNamesTheRuler
  <2>1. e.call \in Call /\ e = PolicyCheck(e.call) /\ stage[e.call] \in Recorded
    BY DEF Inv, StoreInv, IsEvent, ToolCall
  <2>2. e.policy = verdict[e.call].policy /\ e.result = verdict[e.call].decision
    BY <2>1 DEF PolicyCheck, RecordedPolicy, StoredInv, Distinct
  <2>3. verdict[e.call] # None /\ verdict[e.call] \in {ruled[e.call], FallbackVerdict}
    BY <2>1 DEF Inv, CallInv, Recorded, Early
  <2>4. verdict[e.call] \in Verdict /\ verdict[e.call] = ruled[e.call]
    BY <2>1, <2>2, <2>3 DEF Inv, CallInv, FallbackVerdict
  <2>5. QED  BY <2>2, <2>4 DEF Verdict
<1>2. QED  BY <1>1, InvInit, NextInv, StoredInit, StoredStep, PTL DEF Spec
=============================================================================
