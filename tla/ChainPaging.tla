----------------------------- MODULE ChainPaging -----------------------------
(***************************************************************************)
(* A consumer that pages through one agent's chain with                    *)
(* GET /v1/events/chained while the store appends, archives, crashes and   *)
(* restarts (EventStore::chain_page).  The consumer keeps its cursor: it   *)
(* passes the page's next_after_seq on, and the page's head_seq once it    *)
(* has caught up, so that it can poll for more.                            *)
(***************************************************************************)
EXTENDS EventStore

CONSTANTS
    Reader,      \* the agent whose chain is read
    PageLimit    \* `limit'

ASSUME PagingAssumption == Reader \in Agent /\ PageLimit \in Nat \ {0}

VARIABLES
    after,       \* the cursor, 0 before the first page
    received,    \* the events delivered so far, each with its position
    holes        \* the sum of archived_in_range over the pages

consumer == <<after, received, holes>>

PInit ==
    /\ Init
    /\ after = 0
    /\ received = <<>>
    /\ holes = 0

Entries == chain[Reader]

(* The entry's event is still in the live log, by its index. *)
Visible(p) == byTrace[Entries[p].trace] \in DOMAIN events

(* The live positions from floor + 1 to p. *)
VisibleUpTo(floor, p) == {q \in floor + 1 .. p : Visible(q)}

(* The last position the page covers: it stops before the entry that comes  *)
(* after `limit' events, and passes over archived entries for free.         *)
PageEnd(floor) ==
    CHOOSE p \in floor .. Len(Entries) :
        /\ p > floor => Cardinality(VisibleUpTo(floor, p - 1)) < PageLimit
        /\ p < Len(Entries) => Cardinality(VisibleUpTo(floor, p)) >= PageLimit

(* Its events in chain order, each looked up through the index. *)
PageEvents(floor, end) ==
    [k \in 1 .. Cardinality(VisibleUpTo(floor, end)) |->
        LET p == CHOOSE q \in VisibleUpTo(floor, end) :
                    Cardinality(VisibleUpTo(floor, q)) = k
        IN  [seq |-> p, trace |-> events[byTrace[Entries[p].trace]]]]

(* Mistake: an offset cursor, which archived entries do not advance. *)
NextAfterOffset(floor, end) ==
    IF end = Len(Entries) \/ end = floor THEN 0
    ELSE floor + Cardinality(VisibleUpTo(floor, end))

(* next_after_seq: the last position covered, or null (0) at the head. *)
NextAfter(floor, end) ==
    IF end = Len(Entries) \/ end = floor THEN 0 ELSE end

GetPage ==
    /\ pc = "idle"
    /\ after < Len(Entries)
    /\ LET end == PageEnd(after)
           page == PageEvents(after, end)
           next == NextAfter(after, end)
       IN  /\ received' = received \o page
           /\ holes' = holes + (end - after) - Len(page)
           /\ after' = IF next # 0 THEN next ELSE Len(Entries)
    /\ UNCHANGED vars

PStoreStep == Next /\ UNCHANGED consumer

PNext == PStoreStep \/ GetPage

PSpec == PInit /\ [][PNext]_<<vars, consumer>>

-----------------------------------------------------------------------------
(* "A concurrent append or an archive compaction cannot cause a consumer to *)
(* skip or repeat an event": the positions delivered and those reported as  *)
(* archived are together exactly the positions up to the cursor, in order,  *)
(* and every position carries the event its entry commits to (chain_page).  *)
PagesExact ==
    /\ Len(received) + holes = after
    /\ \A i, j \in DOMAIN received : i < j => received[i].seq < received[j].seq
    /\ \A i \in DOMAIN received :
          /\ received[i].seq \in 1 .. after
          /\ Entries[received[i].seq].trace = received[i].trace
=============================================================================
