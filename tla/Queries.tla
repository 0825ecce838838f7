------------------------------- MODULE Queries -------------------------------
(***************************************************************************)
(* The reads of the JSONL backend over its live events (list_events,       *)
(* list_sessions, get_session and evidence_stats of events.rs).  Each      *)
(* holds the store's mutex throughout, so a read is a function of the      *)
(* state between two operations.  A filter on event_type works as the one  *)
(* on the session and is left out.                                         *)
(***************************************************************************)
EXTENDS ChainPaging, FiniteSetsExt

(* The fields of a filter are optional.                                     *)
ASSUME FilterAssumption == None \notin Session /\ None # Reader

(* Mistake: the cursor's own event is delivered again. *)
MatchesFromCursor(filter, t) ==
    /\ filter.agent_id # None => AgentOf[t] = filter.agent_id
    /\ filter.session # None => SessionOf[t] = filter.session
    /\ filter.after_seq # None => Linked(t) /\ SeqOf(t) >= filter.after_seq

(* EventFilter.  An event without an entry has no position that a cursor    *)
(* could include or exclude.                                                *)
Matches(filter, t) ==
    /\ filter.agent_id # None => AgentOf[t] = filter.agent_id
    /\ filter.session # None => SessionOf[t] = filter.session
    /\ filter.after_seq # None => Linked(t) /\ SeqOf(t) > filter.after_seq

(* The most recent n. *)
TailOf(s, n) == IF n # None /\ Len(s) > n THEN SubSeq(s, Len(s) - n + 1, Len(s)) ELSE s

(* The live events at some positions, in order. *)
EventsAt(positions) ==
    [k \in 1 .. Cardinality(positions) |->
        events[CHOOSE i \in positions : Cardinality({j \in positions : j <= i}) = k]]

ListEvents(filter) ==
    TailOf(EventsAt({i \in DOMAIN events : Matches(filter, events[i])}), filter.limit)

GetSession(s) == EventsAt(bySession[s])

(* The timestamps are the client's, of the first and the last insertion.    *)
ListSessions ==
    {[session     |-> s,
      event_count |-> Cardinality(bySession[s]),
      first_seen  |-> Sent[GetSession(s)[1]],
      last_seen   |-> Sent[GetSession(s)[Cardinality(bySession[s])]]] : s \in {u \in Session : bySession[u] # {}}}

EvidenceStats ==
    [live_events       |-> Len(events),
     checkpoints_total |-> MapThenSumSet(LAMBDA a : Len(ckpts[a]), Agent),
     chains_total      |-> Cardinality({a \in Agent : chain[a] # <<>>})]

-----------------------------------------------------------------------------
(* A caller that may take the mutex. *)
Readable == pc = "idle"

(* Three ways to read the same evidence agree, whatever was archived,       *)
(* crashed and recovered: list_events after a position delivers the events  *)
(* a chain page after it does, tail and all; a session's events are those   *)
(* list_events has for it; and the sessions' counts add up to the gauge of  *)
(* live events (list_events, chain_page, get_session, list_sessions,        *)
(* evidence_stats).  An event posted again once archived is at an old       *)
(* position of the chain and at the end of the live log: states with an     *)
(* event in both places are left aside.                                     *)
ReadsAgree ==
    Readable =>
        /\ Range(events) \cap Range(archive) = {} =>
              \A k \in 0 .. Len(Entries), limit \in {None, 1} :
                  LET page == PageEvents(k, Len(Entries))
                  IN  ListEvents([agent_id |-> Reader, session |-> None,
                                  after_seq |-> k, limit |-> limit])
                      = TailOf([i \in DOMAIN page |-> page[i].trace], limit)
        /\ \A s \in Session :
              GetSession(s) = ListEvents([agent_id |-> None, session |-> s,
                                          after_seq |-> None, limit |-> None])
        /\ MapThenSumSet(LAMBDA summary : summary.event_count, ListSessions)
              = EvidenceStats.live_events
=============================================================================
