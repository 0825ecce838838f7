---------------------------- MODULE PolicyReload ----------------------------
(***************************************************************************)
(* The guardian and its hot-reloaded policy (core-rs/src/guardian.rs,      *)
(* policy_watch.rs, bin/guardian.rs): request threads evaluate events      *)
(* against the policy in force while an operator rewrites the policy file  *)
(* and the reload loop debounces, re-reads and swaps.                      *)
(*                                                                         *)
(* A version of the policy is the number of the edit that wrote it.  An    *)
(* edit truncates the file and then writes it, as std::fs::write does, and *)
(* a reader in between finds no policy, as it would in a file that is not  *)
(* JSON.  The file watcher is external: it reports every change of the     *)
(* file, and every read of it as an access, in order; its thread blocks    *)
(* while the channel is full.                                              *)
(***************************************************************************)
EXTENDS Predicate

CONSTANTS
    Checker,        \* request threads
    Event,          \* the events they ask about
    Rules,          \* the rules of each version, in declaration order
    Capacity,       \* of the channel between the watcher and the loop
    MaxEdits,       \* bound: edits of the policy file
    None

Version == 0 .. MaxEdits
Decision == {"PASS", "FAIL", "ESCALATE"}

ASSUME PolicyAssumption ==
    /\ MaxEdits \in Nat
    /\ Capacity \in Nat \ {0}
    /\ None \notin Version
    /\ DOMAIN Rules = Version
    /\ \A v \in Version :
          /\ Len(Rules[v]) \in Nat
          /\ DOMAIN Rules[v] = 1 .. Len(Rules[v])
          /\ \A i \in DOMAIN Rules[v] : Rules[v][i].decision \in Decision

VARIABLES
    file,        \* the version the file holds, or None while it is written
    edits,       \* edits begun
    notices,     \* the watcher's reports that are not in the channel yet
    channel,
    loop,        \* where main and then the reload loop stand
    parsed,      \* the version the loop has read, or None
    live,        \* the policy in force, behind the ArcSwap
    armedAt,     \* edits begun when the watcher was armed
    walk         \* per request thread: the evaluation under way

vars == <<file, edits, notices, channel, loop, parsed, live, armedAt, walk>>

LoopStage == {"main", "arm", "wait", "sleep", "drain", "read", "install"}
Walk == [event : Event, policy : Version, rule : Nat, verdict : Decision \cup {None}]
Report == {"change", "access"}

TypeOK ==
    /\ file \in Version \cup {None}
    /\ edits \in Version
    /\ notices \in Seq(Report)
    /\ channel \in Seq(Report) /\ Len(channel) <= Capacity
    /\ loop \in LoopStage
    /\ parsed \in Version \cup {None}
    /\ live \in Version \cup {None}
    /\ armedAt \in Version
    /\ walk \in [Checker -> Walk \cup {None}]

Armed == loop \notin {"main", "arm"}

Init ==
    /\ file = 0
    /\ edits = 0
    /\ notices = <<>>
    /\ channel = <<>>
    /\ loop = "main"
    /\ parsed = None
    /\ live = None
    /\ armedAt = 0
    /\ walk = [c \in Checker |-> None]

-----------------------------------------------------------------------------
(* The operator's editor, and the watcher. *)

Notify(report) == notices' = IF Armed THEN Append(notices, report) ELSE notices

BeginEdit ==
    /\ edits < MaxEdits
    /\ file # None
    /\ edits' = edits + 1
    /\ file' = None
    /\ Notify("change")
    /\ UNCHANGED <<channel, loop, parsed, live, armedAt, walk>>

EndEdit ==
    /\ file = None
    /\ file' = edits
    /\ Notify("change")
    /\ UNCHANGED <<edits, channel, loop, parsed, live, armedAt, walk>>

(* blocking_send. *)
Send ==
    /\ notices # <<>>
    /\ Len(channel) < Capacity
    /\ channel' = Append(channel, Head(notices))
    /\ notices' = Tail(notices)
    /\ UNCHANGED <<file, edits, loop, parsed, live, armedAt, walk>>

-----------------------------------------------------------------------------
(* main loads the policy, and later arms the watcher. *)

(* Mistake: the policy is parsed and not validated, as the native binding   *)
(* does (ffi.rs).                                                           *)
UsableUnvalidated(v) == v # None

(* Policy::from_json returns a policy. *)
Usable(v) == v # None /\ ValidPolicy(Rules[v])

LoadAtStart ==
    /\ loop = "main"
    /\ Usable(file)
    /\ live' = file
    /\ loop' = "arm"
    /\ UNCHANGED <<file, edits, notices, channel, parsed, armedAt, walk>>

Arm ==
    /\ loop = "arm"
    /\ loop' = "wait"
    /\ armedAt' = edits
    /\ UNCHANGED <<file, edits, notices, channel, parsed, live, walk>>

-----------------------------------------------------------------------------
(* reload_loop. *)

(* Mistake: an access is a reason to reload. *)
IsReloadSignalAny(report) == TRUE

IsReloadSignal(report) == report = "change"

Receive ==
    /\ loop = "wait"
    /\ channel # <<>>
    /\ channel' = Tail(channel)
    /\ loop' = IF IsReloadSignal(Head(channel)) THEN "sleep" ELSE "wait"
    /\ UNCHANGED <<file, edits, notices, parsed, live, armedAt, walk>>

DebounceOver ==
    /\ loop = "sleep"
    /\ loop' = "drain"
    /\ UNCHANGED <<file, edits, notices, channel, parsed, live, armedAt, walk>>

(* try_recv, until the channel is empty. *)
Drain ==
    /\ loop = "drain"
    /\ IF channel # <<>>
          THEN channel' = Tail(channel) /\ loop' = loop
          ELSE channel' = channel /\ loop' = "read"
    /\ UNCHANGED <<file, edits, notices, parsed, live, armedAt, walk>>

(* Policy::from_path. *)
Read ==
    /\ loop = "read"
    /\ parsed' = IF Usable(file) THEN file ELSE None
    /\ loop' = "install"
    /\ Notify("access")
    /\ UNCHANGED <<file, edits, channel, live, armedAt, walk>>

(* Mistake: a policy that does not parse resets the guardian to its first.  *)
InForceOrReset(v) == IF v = None THEN 0 ELSE v

(* A policy that did not parse leaves the one in force. *)
InForce(v) == IF v = None THEN live ELSE v

(* Mistake: the events that arrived during the reload are drained after it. *)
InstallThenDrain ==
    /\ loop = "install"
    /\ live' = InForce(parsed)
    /\ parsed' = None
    /\ channel' = <<>>
    /\ loop' = "wait"
    /\ UNCHANGED <<file, edits, notices, armedAt, walk>>

(* replace_policy. *)
Install ==
    /\ loop = "install"
    /\ live' = InForce(parsed)
    /\ parsed' = None
    /\ loop' = "wait"
    /\ UNCHANGED <<file, edits, notices, channel, armedAt, walk>>

-----------------------------------------------------------------------------
(* evaluate. *)

(* A request: one load of the policy pointer. *)
Evaluate(c, e) ==
    /\ live # None
    /\ walk[c] = None
    /\ walk' = [walk EXCEPT ![c] = [event |-> e, policy |-> live, rule |-> 1,
                                    verdict |-> None]]
    /\ UNCHANGED <<file, edits, notices, channel, loop, parsed, live, armedAt>>

(* Mistake: the pointer is loaded again for every rule. *)
WalkedLive(c) == live

(* The policy the walk goes through: the snapshot taken when it began. *)
Walked(c) == walk[c].policy

(* The verdict when no rule matches. *)
DefaultDecision(e) == IF e.cynefin_domain = "CHAOTIC" THEN "ESCALATE" ELSE "PASS"

(* The walk w after its next rule: the first that matches gives the         *)
(* verdict, and if none is left the domain's default does.                  *)
AfterRule(w, rules) ==
    IF w.rule > Len(rules) THEN [w EXCEPT !.verdict = DefaultDecision(w.event)]
    ELSE IF MatchesEvent(rules[w.rule].match, w.event)
            THEN [w EXCEPT !.verdict = rules[w.rule].decision]
            ELSE [w EXCEPT !.rule = @ + 1]

TryRule(c) ==
    /\ walk[c] # None /\ walk[c].verdict = None
    /\ walk' = [walk EXCEPT ![c] = AfterRule(walk[c], Rules[Walked(c)])]
    /\ UNCHANGED <<file, edits, notices, channel, loop, parsed, live, armedAt>>

Answer(c) ==
    /\ walk[c] # None /\ walk[c].verdict # None
    /\ walk' = [walk EXCEPT ![c] = None]
    /\ UNCHANGED <<file, edits, notices, channel, loop, parsed, live, armedAt>>

-----------------------------------------------------------------------------
LoopStep == Receive \/ DebounceOver \/ Drain \/ Read \/ Install

Next ==
    \/ BeginEdit \/ EndEdit \/ Send
    \/ LoadAtStart \/ Arm
    \/ LoopStep
    \/ \E c \in Checker :
          (\E e \in Event : Evaluate(c, e)) \/ TryRule(c) \/ Answer(c)

(* The runtime keeps running the reload loop and the watcher's thread; the  *)
(* operator and the clients owe nothing.                                    *)
Fairness == WF_vars(LoopStep) /\ WF_vars(Send)

Spec == Init /\ [][Next]_vars /\ Fairness

-----------------------------------------------------------------------------
(* The verdict a policy gives an event: its first matching rule's.  *)
Adjudicated(v, e) ==
    LET hits == {i \in DOMAIN Rules[v] : MatchesEvent(Rules[v][i].match, e)}
    IN  IF hits = {} THEN DefaultDecision(e)
        ELSE Rules[v][CHOOSE i \in hits : \A j \in hits : i <= j].decision

(* "Concurrent evaluate calls either see the old policy in full or the new  *)
(* one in full": a verdict is the one its named policy gives the event,     *)
(* whatever swaps happen while the rules are walked (evaluate).             *)
VerdictWhole ==
    \A c \in Checker :
        walk[c] # None /\ walk[c].verdict # None
            => walk[c].verdict = Adjudicated(walk[c].policy, walk[c].event)

(* The policy in force never goes back to an earlier version, nor to one    *)
(* that does not parse: a half-written or malformed file leaves it          *)
(* (reload_loop).                                                           *)
NeverRegresses ==
    [][live # None => live' # None /\ live' >= live /\ ValidPolicy(Rules[live'])]_live

(* An edit finished after the watcher was armed takes effect: once the file *)
(* stays a policy that parses, it is the one in force, however the watcher's*)
(* reports interleave with the debounce and the drain (reload_loop).        *)
EditsTakeEffect ==
    <>[](Armed /\ edits > armedAt /\ Usable(file) => live = file)

(* Reloading reads the file, which the watcher reports: the loop does not   *)
(* wake itself up for ever (is_reload_signal).                              *)
ReloadsEnd == []<>(Armed => loop = "wait" /\ channel = <<>> /\ notices = <<>>)
=============================================================================
