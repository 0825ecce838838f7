------------------------------- MODULE Hermes -------------------------------
(***************************************************************************)
(* The Hermes memory agent (skills/hermes/hermes_agent.py): sessions of    *)
(* events in a bounded LRU cache, written through to one sidecar file per  *)
(* session, and a note per session that is rewritten after each ingest.    *)
(* A HermesAgent lives in a process; the command line, the MCP server and  *)
(* a daemon each have their own over the same vault.                       *)
(*                                                                         *)
(* A session is the function from its trace ids to the events; timestamps, *)
(* by which it is sorted, are data.  What two ingests of an event can tell *)
(* apart is the limit its payload was truncated to.  A sidecar line is     *)
(* written whole or not at all.                                            *)
(***************************************************************************)
EXTENDS SequencesExt

CONSTANTS
    Proc,           \* processes with a HermesAgent
    Key,            \* session keys
    File, FileOf,   \* sanitised names, and that of each key
    NamedBy,        \* the key that the path of a sidecar reads as
    Trace, KeyOf,   \* events, and their sessions
    Limits,         \* values of max_payload_chars
    MaxCached,      \* max_cached_sessions
    Feeds,          \* what may be ingested: sequences of events and Invalid
    MaxRuns,        \* bound: ingests and starts of processes
    Invalid,        \* a line that is no event
    None, Torn      \* no note, and one whose writing a kill or an error cut short

ASSUME HermesAssumption ==
    /\ FileOf \in [Key -> File]
    /\ NamedBy \in [File -> Key]
    /\ \A f \in File : FileOf[NamedBy[f]] = f
    /\ KeyOf \in [Trace -> Key]
    /\ MaxCached \in Nat \ {0}
    /\ Feeds \subseteq Seq(Trace \cup {Invalid})
    /\ MaxRuns \in Nat
    /\ Invalid \notin Trace

Session == UNION {[S -> Limits] : S \in SUBSET Trace}

ASSUME NoteAssumption == None \notin Session /\ Torn \notin Session

VARIABLES
    phase,      \* of each process: "down", "idle", "feeding" or "flushing"
    limit,      \* its max_payload_chars
    sessions,   \* its cached sessions
    lru,        \* their keys, the least recently touched first
    feed,       \* what its ingest has still to take
    touched,    \* the keys whose notes it has still to write
    given,      \* the events its ingest took
    sidecar,    \* the lines of each sidecar
    note,       \* the events in each note, None or Torn
    unsaved,    \* events whose line failed to be written, and was not since
    done,       \* the events of all ingests that returned, such events excepted
    reflected,  \* the sessions of the last reflection
    runs

process == <<phase, limit, sessions, lru, feed, touched, given>>
vault == <<sidecar, note>>
history == <<unsaved, done>>
vars == <<process, vault, history, reflected, runs>>

Init ==
    /\ phase = [p \in Proc |-> "down"]
    /\ limit \in [Proc -> Limits]
    /\ sessions = [p \in Proc |-> <<>>]
    /\ lru = [p \in Proc |-> <<>>]
    /\ feed = [p \in Proc |-> <<>>]
    /\ touched = [p \in Proc |-> {}]
    /\ given = [p \in Proc |-> {}]
    /\ sidecar = [f \in File |-> <<>>]
    /\ note = [f \in File |-> None]
    /\ unsaved = {}
    /\ done = {}
    /\ reflected = <<>>
    /\ runs = 0

-----------------------------------------------------------------------------
(* _load_sidecar: the first line of each trace id counts. *)
Loaded(lines) ==
    [t \in {lines[i].trace_id : i \in DOMAIN lines} |->
        lines[CHOOSE i \in DOMAIN lines :
                /\ lines[i].trace_id = t
                /\ \A j \in 1 .. i - 1 : lines[j].trace_id # t].cut]

(* Mistake: a session that is not in the cache starts out empty. *)
SessionOfUnloaded(p, k) == IF k \in DOMAIN sessions[p] THEN sessions[p][k] ELSE <<>>

(* The session an event enters, and what session_events returns. *)
SessionOf(p, k) ==
    IF k \in DOMAIN sessions[p] THEN sessions[p][k] ELSE Loaded(sidecar[FileOf[k]])

Touched(keys, k) == Append(Remove(keys, k), k)

(* HermesAgent() with one of the limits. *)
Start(p) ==
    /\ phase[p] = "down"
    /\ runs < MaxRuns
    /\ runs' = runs + 1
    /\ phase' = [phase EXCEPT ![p] = "idle"]
    /\ \E n \in Limits : limit' = [limit EXCEPT ![p] = n]
    /\ UNCHANGED <<sessions, lru, feed, touched, given, vault, history, reflected>>

(* ingest *)
Ingest(p) ==
    /\ phase[p] = "idle"
    /\ runs < MaxRuns
    /\ runs' = runs + 1
    /\ \E s \in Feeds : feed' = [feed EXCEPT ![p] = s]
    /\ phase' = [phase EXCEPT ![p] = "feeding"]
    /\ touched' = [touched EXCEPT ![p] = {}]
    /\ given' = [given EXCEPT ![p] = {}]
    /\ UNCHANGED <<limit, sessions, lru, vault, history, reflected>>

(* d[x] = v, x new to the dict or not. *)
With(d, x, v) == [y \in DOMAIN d \cup {x} |-> IF y = x THEN v ELSE d[y]]

(* The cache takes the event, also when there is one of the trace id. *)
Put(p, t) ==
    LET k == KeyOf[t]
    IN  /\ sessions' = [sessions EXCEPT ![p] = With(@, k, With(SessionOf(p, k), t, limit[p]))]
        /\ lru' = [lru EXCEPT ![p] = Touched(@, k)]

(* Mistake: an event of a session that was not cached counts as known. *)
IsNewIfCached(p, t) == KeyOf[t] \in DOMAIN sessions[p] /\ t \notin DOMAIN SessionOf(p, KeyOf[t])

IsNew(p, t) == t \notin DOMAIN SessionOf(p, KeyOf[t])

Saved(p, t) ==
    IF IsNew(p, t)
    THEN [sidecar EXCEPT ![FileOf[KeyOf[t]]] = Append(@, [trace_id |-> t, cut |-> limit[p]])]
    ELSE sidecar

Feeding(p) == phase[p] = "feeding" /\ feed[p] # <<>>

(* One event: loaded if need be, cached, touched, saved if it is new. *)
Take(p) ==
    /\ Feeding(p)
    /\ Head(feed[p]) # Invalid
    /\ LET t == Head(feed[p])
       IN  /\ Put(p, t)
           /\ sidecar' = Saved(p, t)
           /\ unsaved' = IF IsNew(p, t) THEN unsaved \ {t} ELSE unsaved
           /\ touched' = [touched EXCEPT ![p] = @ \cup {KeyOf[t]}]
           /\ given' = [given EXCEPT ![p] = @ \cup {t}]
    /\ feed' = [feed EXCEPT ![p] = Tail(@)]
    /\ UNCHANGED <<phase, limit, note, done, reflected, runs>>

(* An exception leaves the ingest: no further note is written, nothing      *)
(* evicted.                                                                 *)
Raise(p) ==
    /\ phase' = [phase EXCEPT ![p] = "idle"]
    /\ feed' = [feed EXCEPT ![p] = <<>>]
    /\ touched' = [touched EXCEPT ![p] = {}]
    /\ UNCHANGED <<limit, given, sidecar, done, reflected, runs>>

TakeInvalid(p) ==
    /\ Feeding(p)
    /\ Head(feed[p]) = Invalid
    /\ Raise(p)
    /\ UNCHANGED <<sessions, lru, note, unsaved>>

(* The event is in the cache when its line fails to be written: a retry     *)
(* finds it there and takes it for one that is saved.                       *)
TakeUnsaved(p) ==
    /\ Feeding(p)
    /\ Head(feed[p]) # Invalid
    /\ IsNew(p, Head(feed[p]))
    /\ Put(p, Head(feed[p]))
    /\ unsaved' = unsaved \cup {Head(feed[p])}
    /\ Raise(p)
    /\ UNCHANGED note

AllTaken(p) ==
    /\ phase[p] = "feeding" /\ feed[p] = <<>>
    /\ phase' = [phase EXCEPT ![p] = "flushing"]
    /\ UNCHANGED <<limit, sessions, lru, feed, touched, given, vault, history, reflected, runs>>

Noted(p, k) == sessions[p][k]

(* _flush_session, the keys in whatever order their names have. *)
Flush(p) ==
    /\ phase[p] = "flushing"
    /\ \E k \in touched[p] :
          /\ note' = [note EXCEPT ![FileOf[k]] = Noted(p, k)]
          /\ touched' = [touched EXCEPT ![p] = @ \ {k}]
    /\ UNCHANGED <<phase, limit, sessions, lru, feed, given, sidecar, history, reflected, runs>>

(* write_text opens the file, which truncates it, and then writes: when it  *)
(* fails, or the creation of the directory before it, the note is what it   *)
(* was or cut short.                                                        *)
NoteFails(k) == note' \in {note, [note EXCEPT ![FileOf[k]] = Torn]}

(* Mistake: the error is logged, and the next note written. *)
FlushFailsQuietly(p) ==
    /\ phase[p] = "flushing"
    /\ \E k \in touched[p] : NoteFails(k) /\ touched' = [touched EXCEPT ![p] = @ \ {k}]
    /\ UNCHANGED <<phase, limit, sessions, lru, feed, given, sidecar, history, reflected, runs>>

(* _flush_session, on a full disk. *)
FlushFails(p) ==
    /\ phase[p] = "flushing"
    /\ \E k \in touched[p] : NoteFails(k)
    /\ Raise(p)
    /\ UNCHANGED <<sessions, lru, unsaved>>

(* _maybe_evict *)
Kept(keys) == IF Len(keys) > MaxCached
              THEN SubSeq(keys, Len(keys) - MaxCached + 1, Len(keys)) ELSE keys

Evicted(keys) == ToSet(keys) \ ToSet(Kept(keys))

Return(p) ==
    /\ phase[p] = "flushing" /\ touched[p] = {}
    /\ phase' = [phase EXCEPT ![p] = "idle"]
    /\ lru' = [lru EXCEPT ![p] = Kept(@)]
    /\ sessions' = [sessions EXCEPT ![p] = Restrict(@, DOMAIN @ \ Evicted(lru[p]))]
    /\ done' = done \cup (given[p] \ unsaved)
    /\ UNCHANGED <<limit, feed, touched, given, vault, unsaved, reflected, runs>>

(* The process ends, or is killed; if it was writing a note, the note has  *)
(* been truncated already.                                                  *)
Killed(p) ==
    /\ phase' = [phase EXCEPT ![p] = "down"]
    /\ sessions' = [sessions EXCEPT ![p] = <<>>]
    /\ lru' = [lru EXCEPT ![p] = <<>>]
    /\ feed' = [feed EXCEPT ![p] = <<>>]
    /\ touched' = [touched EXCEPT ![p] = {}]
    /\ given' = [given EXCEPT ![p] = {}]
    /\ UNCHANGED <<limit, sidecar, history, reflected, runs>>

Stop(p) ==
    /\ phase[p] # "down"
    /\ Killed(p)
    /\ UNCHANGED note

StopWriting(p) ==
    /\ phase[p] = "flushing"
    /\ \E k \in touched[p] : note' = [note EXCEPT ![FileOf[k]] = Torn]
    /\ Killed(p)

-----------------------------------------------------------------------------
(* Mistake: only what is in the cache is known. *)
KnownInCache(p) == DOMAIN sessions[p]

(* _all_known_keys: those of the cache and those the sidecars' paths read as. *)
AllKnownKeys(p) ==
    DOMAIN sessions[p] \cup {NamedBy[f] : f \in {f \in File : sidecar[f] # <<>>}}

(* reflect: the events it summarises, session by session. *)
Reflect(p) ==
    /\ phase[p] = "idle"
    /\ reflected' = [k \in {k \in AllKnownKeys(p) : SessionOf(p, k) # <<>>} |->
                        SessionOf(p, k)]
    /\ UNCHANGED <<process, vault, history, runs>>

Next ==
    \E p \in Proc :
        \/ Start(p) \/ Ingest(p)
        \/ Take(p) \/ TakeInvalid(p) \/ TakeUnsaved(p) \/ AllTaken(p)
        \/ Flush(p) \/ FlushFails(p) \/ Return(p)
        \/ Stop(p) \/ StopWriting(p)
        \/ Reflect(p)

Spec == Init /\ [][Next]_vars

-----------------------------------------------------------------------------
(* "The sidecar is the canonical record; the in-memory cache is a derived   *)
(* view that can be evicted at any time without data loss": but for events  *)
(* whose line could not be written, a cached session is what its sidecar    *)
(* would be loaded as, failed ingests and their retries included (ingest,   *)
(* _load_sidecar).                                                          *)
CacheIsDerived ==
    \A p \in Proc : \A k \in DOMAIN sessions[p] :
        Restrict(sessions[p][k], DOMAIN sessions[p][k] \ unsaved) = Loaded(sidecar[FileOf[k]])

(* "Each newly-ingested event (by `trace_id`) is appended": what an ingest  *)
(* that returned was given is in its sidecar, through ingests that failed   *)
(* on a bad line or a full disk and their retries, evictions and restarts.  *)
(* The exception is an event whose own line failed to be written before,    *)
(* as long as it is in a cache only (ingest, _append_sidecar).              *)
IngestedIsSaved ==
    \A t \in done : t \in DOMAIN Loaded(sidecar[FileOf[KeyOf[t]]])

Noting(t) ==
    LET n == note[FileOf[KeyOf[t]]]
    IN  n \notin {None, Torn} /\ t \in DOMAIN n

Cut(t) == note[FileOf[KeyOf[t]]] = Torn

(* The ingest that returns was given an event of this one's session.        *)
Returning(t) == \E p \in Proc : Return(p) /\ \E u \in given[p] : KeyOf[u] = KeyOf[t]

(* "The in-memory cache and rendered note always reflect the deduped        *)
(* truth": the note of a session has every event of the ingests that        *)
(* returned.  A kill or a full disk may have cut it short, but no ingest    *)
(* that returns leaves a note of its sessions so, be it a retry that brings *)
(* nothing new or the first ingest of another process (ingest,              *)
(* _flush_session).                                                         *)
IngestedIsNoted ==
    [][\A t \in done' : Noting(t)' \/ (Cut(t)' /\ ~Returning(t))]_vars

Safe(k) == NamedBy[FileOf[k]] = k

ReflectedOnce(t) == \E k \in DOMAIN reflected : t \in DOMAIN reflected[k]
                       /\ \A j \in DOMAIN reflected \ {k} : t \notin DOMAIN reflected[j]

(* A reflection sees "every session that ever happened on disk", evicted or *)
(* of an earlier process, and counts each of its events once, if the names  *)
(* of the session are file names (reflect, _all_known_keys).                *)
ReflectionCounts ==
    [][\A p \in Proc : Reflect(p) =>
          \A f \in File : \A t \in DOMAIN Loaded(sidecar[f]) :
              Safe(KeyOf[t]) => ReflectedOnce(t)']_vars

=============================================================================
