------------------------------ MODULE RateLimit ------------------------------
(***************************************************************************)
(* The ingest rate limiter (core-rs/src/rate_limit.rs): a counter and the  *)
(* second it counts for, two atomics that concurrent requests read and     *)
(* write without a lock.  A request that finds the second changed tries to *)
(* move the window to the second it read, and whoever moves it clears the  *)
(* counter afterwards.                                                     *)
(*                                                                         *)
(* The limiter is configured (Limit > 0); `served' is what it let through  *)
(* in each second, counted when the counter was incremented.  The counter  *)
(* is a u32 that only 2^32 requests in one window would overflow: more     *)
(* than a process can take, so it is a number here.                        *)
(***************************************************************************)
EXTENDS Integers, FiniteSets

CONSTANTS
    Thread,        \* requests being handled at the same time
    Limit,         \* admissions per second
    LastSecond,    \* bound: the clock
    MaxRequests    \* bound: requests, all threads together

ASSUME LimitAssumption ==
    /\ IsFiniteSet(Thread) /\ Thread # {}
    /\ Limit \in Nat \ {0}
    /\ LastSecond \in Nat
    /\ MaxRequests \in Nat

Second == 0 .. LastSecond

VARIABLES
    clock,        \* the system clock, in seconds
    windowStart,  \* window_start_sec
    count,
    at,           \* per thread: where its request stands
    now, last,    \* per thread: now_sec and last of try_acquire
    requests,     \* requests begun
    served        \* admissions in each second

vars == <<clock, windowStart, count, at, now, last, requests, served>>

Init ==
    /\ clock = 0
    /\ windowStart = 0
    /\ count = 0
    /\ at = [t \in Thread |-> "idle"]
    /\ now = [t \in Thread |-> 0]
    /\ last = [t \in Thread |-> 0]
    /\ requests = 0
    /\ served = [s \in Second |-> 0]

Tick ==
    /\ clock < LastSecond
    /\ clock' = clock + 1
    /\ UNCHANGED <<windowStart, count, at, now, last, requests, served>>

(* now_seconds(). *)
Arrive(t) ==
    /\ at[t] = "idle"
    /\ requests < MaxRequests
    /\ requests' = requests + 1
    /\ now' = [now EXCEPT ![t] = clock]
    /\ at' = [at EXCEPT ![t] = "load"]
    /\ UNCHANGED <<clock, windowStart, count, last, served>>

LoadWindow(t) ==
    /\ at[t] = "load"
    /\ last' = [last EXCEPT ![t] = windowStart]
    /\ at' = [at EXCEPT ![t] = IF now[t] # windowStart THEN "move" ELSE "take"]
    /\ UNCHANGED <<clock, windowStart, count, now, requests, served>>

(* Mistake: a plain store instead of the compare_exchange. *)
MoveWindowBlindly(t) ==
    /\ at[t] = "move"
    /\ windowStart' = now[t]
    /\ at' = [at EXCEPT ![t] = "clear"]
    /\ UNCHANGED <<clock, count, now, last, requests, served>>

(* compare_exchange: only one of the requests that saw the old second wins. *)
MoveWindow(t) ==
    /\ at[t] = "move"
    /\ IF windowStart = last[t]
          THEN windowStart' = now[t] /\ at' = [at EXCEPT ![t] = "clear"]
          ELSE windowStart' = windowStart /\ at' = [at EXCEPT ![t] = "take"]
    /\ UNCHANGED <<clock, count, now, last, requests, served>>

ClearCount(t) ==
    /\ at[t] = "clear"
    /\ count' = 0
    /\ at' = [at EXCEPT ![t] = "take"]
    /\ UNCHANGED <<clock, windowStart, now, last, requests, served>>

(* fetch_add, and the verdict: allowed, or 429. *)
Take(t) ==
    /\ at[t] = "take"
    /\ count' = count + 1
    /\ served' = [served EXCEPT ![clock] = IF count + 1 <= Limit THEN @ + 1 ELSE @]
    /\ at' = [at EXCEPT ![t] = "idle"]
    /\ UNCHANGED <<clock, windowStart, now, last, requests>>

Next == Tick \/ \E t \in Thread :
            Arrive(t) \/ LoadWindow(t) \/ MoveWindow(t) \/ ClearCount(t) \/ Take(t)

Spec == Init /\ [][Next]_vars
-----------------------------------------------------------------------------
(* "The slack is bounded to a small multi-allow": no second serves more     *)
(* than the limit once for every window the requests in flight can open in  *)
(* it - each of them may carry the previous second back into the window and *)
(* have it moved forward again - and one request that arrived a second      *)
(* earlier (try_acquire).                                                   *)
SlackBounded ==
    \A s \in Second : served[s] <= (2 * Cardinality(Thread) - 1) * Limit + 1
=============================================================================
