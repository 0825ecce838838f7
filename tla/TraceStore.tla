----------------------------- MODULE TraceStore -----------------------------
(***************************************************************************)
(* What a backend promises the ingest handler (the TraceStore trait of     *)
(* events.rs): a batch may be stored bit by bit, each of its events once   *)
(* for all batches; it is acknowledged when all of them are stored, with   *)
(* the number it stored itself; and a batch that was not acknowledged may  *)
(* have been stored in part.                                               *)
(***************************************************************************)
EXTENDS FiniteSets, Naturals

CONSTANTS
    Batch, Trace, EventsOf,
    None, Err   \* no answer yet, and an error

VARIABLES
    stored,    \* the events in the store
    newly,     \* those each batch stored
    answer     \* what append_batch returned: a count or Err

tvars == <<stored, newly, answer>>

TInit ==
    /\ stored = {}
    /\ newly = [b \in Batch |-> {}]
    /\ answer = [b \in Batch |-> None]

(* Some of its events that are not in the store yet. *)
Some(b) ==
    \E S \in SUBSET (EventsOf[b] \ stored) :
        /\ stored' = stored \cup S
        /\ newly' = [newly EXCEPT ![b] = @ \cup S]

Keep(b) ==
    /\ answer[b] = None
    /\ Some(b)
    /\ UNCHANGED answer

Acknowledge(b) ==
    /\ answer[b] = None
    /\ EventsOf[b] \subseteq stored
    /\ answer' = [answer EXCEPT ![b] = Cardinality(newly[b])]
    /\ UNCHANGED <<stored, newly>>

Fail(b) ==
    /\ answer[b] = None
    /\ Some(b)
    /\ answer' = [answer EXCEPT ![b] = Err]

TNext == \E b \in Batch : Keep(b) \/ Acknowledge(b) \/ Fail(b)

TSpec == TInit /\ [][TNext]_tvars
=============================================================================
