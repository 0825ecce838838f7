--------------------------- MODULE RateLimitProofs ---------------------------
(***************************************************************************)
(* The slack of the rate limiter is bounded as SlackBounded says, for any  *)
(* number of requests at a time, any limit and any interleaving.           *)
(*                                                                         *)
(* What a second has still to serve is owed to what may clear the counter: *)
(* a request of an earlier second that has yet to move the window may      *)
(* clear it twice (once itself, and once by the move forward it provokes), *)
(* one about to clear it once, and a window at an earlier second once.     *)
(* What was served, what is left of the limit and this credit never grow   *)
(* together within a second (Spent).  They start out too large, though,    *)
(* when every request in flight is of an earlier second: until two of them *)
(* are through, nobody can use the credit (AllStale, OneFresh).            *)
(***************************************************************************)
EXTENDS RateLimit, FiniteSetTheorems, TLAPS

Threads == Cardinality(Thread)

Stale(t) == at[t] # "idle" /\ now[t] < clock

Pending == {t \in Thread : Stale(t) /\ at[t] \in {"load", "move"}}

Clearing == {t \in Thread : at[t] = "clear"}

Left == IF count < Limit THEN Limit - count ELSE 0

Behind == IF windowStart = clock THEN 0 ELSE 1

Credit == 2 * Cardinality(Pending) + Cardinality(Clearing) + Behind

Bound == (2 * Threads - 1) * Limit + 1

Spent == served[clock] + Left + Limit * Credit <= Bound

AllStale ==
    /\ served[clock] = 0
    /\ windowStart # clock
    /\ \A t \in Thread : Stale(t)

StaleClearing == \E t \in Thread : Stale(t) /\ at[t] = "clear"

(* The request x is of the current second, or there is none of it.          *)
FreshIs(x) ==
    /\ ~Stale(x)
    /\ \A t \in Thread \ {x} : Stale(t) /\ at[t] # "take"
    /\ \/ at[x] \in {"idle", "load"} /\ windowStart # clock
       \/ at[x] = "move" /\ windowStart # clock /\ (last[x] = windowStart \/ StaleClearing)
       \/ at[x] = "clear" /\ (windowStart = clock \/ StaleClearing)

OneFresh == served[clock] <= 1 /\ \E x \in Thread : FreshIs(x)

Stage == {"idle", "load", "move", "clear", "take"}

TypeInv ==
    /\ clock \in Second
    /\ windowStart \in 0 .. clock
    /\ count \in Nat
    /\ at \in [Thread -> Stage]
    /\ now \in [Thread -> 0 .. clock]
    /\ last \in [Thread -> Nat]
    /\ served \in [Second -> Nat]
    /\ \A s \in Second : s > clock => served[s] = 0
    /\ \A t \in Thread : at[t] = "move" => now[t] # last[t]

Past == \A s \in Second : s < clock => served[s] <= Bound

LimiterInv == TypeInv /\ Past /\ (Spent \/ AllStale \/ OneFresh)

-----------------------------------------------------------------------------
(* Counting threads. *)

LEMMA ThreadsType == Threads \in Nat \ {0}
BY LimitAssumption, FS_CardinalityType, FS_EmptySet DEF Threads

LEMMA SetsType ==
  ASSUME NEW S \in SUBSET Thread
  PROVE  IsFiniteSet(S) /\ Cardinality(S) \in Nat
BY LimitAssumption, FS_Subset, FS_CardinalityType

(* Threads that are in neither of two disjoint sets, or not in the first.   *)
LEMMA FewLeft ==
  ASSUME NEW P \in SUBSET Thread, NEW C \in SUBSET Thread, P \cap C = {},
         NEW x \in Thread \ P
  PROVE  /\ Cardinality(P) <= Threads - 1
         /\ x \notin C => Cardinality(P) + Cardinality(C) <= Threads - 1
         /\ Cardinality(P) + Cardinality(C) <= Threads
         /\ \A y \in Thread \ P : y # x => Cardinality(P) <= Threads - 2
<1>1. IsFiniteSet(Thread) /\ Threads \in Nat
  BY LimitAssumption, ThreadsType
<1>2. IsFiniteSet(Thread \ {x}) /\ Cardinality(Thread \ {x}) = Threads - 1
  BY <1>1, FS_RemoveElement DEF Threads
<1>3. P \subseteq Thread \ {x}
  OBVIOUS
<1>4. Cardinality(P) <= Threads - 1
  BY <1>2, <1>3, FS_Subset
<1>5. /\ IsFiniteSet(P \cup C)
      /\ Cardinality(P \cup C) = Cardinality(P) + Cardinality(C)
  <2>1. IsFiniteSet(P) /\ IsFiniteSet(C) /\ Cardinality(P) \in Nat /\ Cardinality(C) \in Nat
    BY SetsType
  <2>2. /\ IsFiniteSet(P \cup C)
        /\ Cardinality(P \cup C) = Cardinality(P) + Cardinality(C) - Cardinality(P \cap C)
    BY <2>1, FS_Union
  <2>3. Cardinality(P \cap C) = 0
    BY FS_EmptySet, Zenon
  <2>4. QED  BY <2>1, <2>2, <2>3
<1>6. x \notin C => Cardinality(P \cup C) <= Threads - 1
  <2> SUFFICES ASSUME x \notin C PROVE Cardinality(P \cup C) <= Threads - 1
    OBVIOUS
  <2>1. P \cup C \in SUBSET (Thread \ {x})
    OBVIOUS
  <2>2. QED  BY <1>2, <2>1, FS_Subset
<1>7. Cardinality(P \cup C) <= Threads
  <2>1. P \cup C \in SUBSET Thread
    OBVIOUS
  <2>2. QED  BY <1>1, <2>1, FS_Subset DEF Threads
<1>8. ASSUME NEW y \in Thread \ P, y # x
      PROVE  Cardinality(P) <= Threads - 2
  <2>1. IsFiniteSet((Thread \ {x}) \ {y}) /\ Cardinality((Thread \ {x}) \ {y}) = Threads - 2
    BY <1>1, <1>2, <1>8, FS_RemoveElement
  <2>2. P \in SUBSET ((Thread \ {x}) \ {y})
    BY <1>8
  <2>3. QED  BY <2>1, <2>2, FS_Subset
<1>9. QED  BY <1>4, <1>5, <1>6, <1>7, <1>8

LEMMA CreditType ==
  ASSUME TypeInv
  PROVE  /\ Pending \in SUBSET Thread /\ Clearing \in SUBSET Thread
         /\ Pending \cap Clearing = {}
         /\ Cardinality(Pending) \in Nat /\ Cardinality(Clearing) \in Nat
         /\ Behind \in 0 .. 1 /\ Credit \in Nat /\ Left \in 0 .. Limit
<1>1. /\ Pending \in SUBSET Thread /\ Clearing \in SUBSET Thread
      /\ Pending \cap Clearing = {}
  BY DEF Pending, Clearing
<1>2. Cardinality(Pending) \in Nat /\ Cardinality(Clearing) \in Nat
  BY <1>1, SetsType
<1>3. Behind \in 0 .. 1 /\ Left \in 0 .. Limit
  BY LimitAssumption DEF Behind, Left, TypeInv
<1>4. QED  BY <1>1, <1>2, <1>3 DEF Credit

(* A credit that small can be afforded whatever is left of the limit, when  *)
(* at most one request was served.                                          *)
LEMMA Affordable ==
  ASSUME NEW credit \in Nat, credit <= 2 * Threads - 2,
         NEW left \in 0 .. Limit, NEW n \in 0 .. 1
  PROVE  n + left + Limit * credit <= Bound
<1>1. Threads \in Nat \ {0} /\ Limit \in Nat \ {0}
  BY ThreadsType, LimitAssumption
<1>2. Limit * credit <= Limit * (2 * Threads - 2)
  BY <1>1
<1>3. Limit * (2 * Threads - 2) = (2 * Threads - 1) * Limit - Limit
  BY <1>1
<1>4. QED  BY <1>1, <1>2, <1>3 DEF Bound

(* What is served or left may grow by the limit if the credit shrinks.      *)
LEMMA Pays ==
  ASSUME NEW credit \in Nat, NEW d \in 0 .. 1, NEW after \in Nat, after <= credit - d,
         NEW m \in Nat, NEW n \in Nat, n <= m + Limit * d,
         m + Limit * credit <= Bound
  PROVE  n + Limit * after <= Bound
<1>1. Threads \in Nat \ {0} /\ Limit \in Nat \ {0}
  BY ThreadsType, LimitAssumption
<1>2. Bound \in Int
  BY <1>1 DEF Bound
<1>3. Limit * after <= Limit * (credit - d)
  BY <1>1
<1>4. Limit * (credit - d) = Limit * credit - Limit * d
  BY <1>1
<1>5. Limit * after \in Int /\ Limit * credit \in Int /\ Limit * d \in Int
  BY <1>1
<1>6. QED  BY <1>2, <1>3, <1>4, <1>5

-----------------------------------------------------------------------------
(* Types. *)

LEMMA InitInv == Init => LimiterInv
<1> SUFFICES ASSUME Init PROVE LimiterInv
  OBVIOUS
<1>1. TypeInv
  BY LimitAssumption DEF Init, TypeInv, Second, Stage
<1>2. Past
  BY DEF Init, Past, Second
<1>3. Cardinality(Pending) = 0 /\ Cardinality(Clearing) = 0
  <2>1. Pending = {} /\ Clearing = {}
    BY DEF Init, Pending, Clearing, Stale
  <2>2. QED  BY <2>1, FS_EmptySet, Zenon
<1>4. Behind = 0 /\ Left = Limit /\ served[clock] = 0
  BY LimitAssumption DEF Init, Behind, Left, Second
<1>5. Spent
  <2>1. Credit = 0
    BY <1>3, <1>4 DEF Credit
  <2>2. Threads \in Nat \ {0} /\ Limit \in Nat \ {0}
    BY ThreadsType, LimitAssumption
  <2>3. Limit <= Bound
    BY <2>2 DEF Bound
  <2>4. QED  BY <1>4, <2>1, <2>2, <2>3 DEF Spent
<1>6. QED  BY <1>1, <1>2, <1>5 DEF LimiterInv

LEMMA TypeStep == TypeInv /\ [Next]_vars => TypeInv'
<1> SUFFICES ASSUME TypeInv, [Next]_vars PROVE TypeInv'
  OBVIOUS
<1> USE LimitAssumption DEF TypeInv, Second, Stage
<1>1. CASE Tick
  BY <1>1 DEF Tick
<1>2. ASSUME NEW t \in Thread, Arrive(t) PROVE TypeInv'
  BY <1>2 DEF Arrive
<1>3. ASSUME NEW t \in Thread, LoadWindow(t) PROVE TypeInv'
  BY <1>3 DEF LoadWindow
<1>4. ASSUME NEW t \in Thread, MoveWindow(t) PROVE TypeInv'
  <2>1. windowStart' \in 0 .. clock
    BY <1>4 DEF MoveWindow
  <2>2. /\ at' \in [Thread -> Stage]
        /\ \A u \in Thread : at'[u] = "move" => at[u] = "move"
    BY <1>4 DEF MoveWindow
  <2>3. UNCHANGED <<clock, count, now, last, requests, served>>
    BY <1>4 DEF MoveWindow
  <2>4. QED  BY <2>1, <2>2, <2>3
<1>5. ASSUME NEW t \in Thread, ClearCount(t) PROVE TypeInv'
  BY <1>5 DEF ClearCount
<1>6. ASSUME NEW t \in Thread, Take(t) PROVE TypeInv'
  BY <1>6 DEF Take
<1>7. CASE UNCHANGED vars
  BY <1>7 DEF vars
<1>8. QED  BY <1>1, <1>2, <1>3, <1>4, <1>5, <1>6, <1>7 DEF Next

LEMMA CreditTypeNext ==
  ASSUME TypeInv'
  PROVE  /\ Pending' \in SUBSET Thread /\ Clearing' \in SUBSET Thread
         /\ Pending' \cap Clearing' = {}
         /\ Cardinality(Pending') \in Nat /\ Cardinality(Clearing') \in Nat
         /\ Behind' \in 0 .. 1 /\ Left' \in 0 .. Limit
<1>1. /\ Pending' \in SUBSET Thread /\ Clearing' \in SUBSET Thread
      /\ Pending' \cap Clearing' = {}
  BY DEF Pending, Clearing
<1>2. Cardinality(Pending') \in Nat /\ Cardinality(Clearing') \in Nat
  BY <1>1, SetsType
<1>3. Behind' \in 0 .. 1
  BY DEF Behind
<1>4. Left' \in 0 .. Limit
  <2>1. PICK n \in Nat : n = count'
    BY DEF TypeInv
  <2>2. Left' = IF n < Limit THEN Limit - n ELSE 0
    BY <2>1 DEF Left
  <2>3. (IF n < Limit THEN Limit - n ELSE 0) \in 0 .. Limit
    BY LimitAssumption
  <2>4. QED  BY <2>2, <2>3, Zenon
<1>5. QED  BY <1>1, <1>2, <1>3, <1>4

(* What was served of a second never exceeds the bound.                     *)
LEMMA Capped == LimiterInv => served[clock] <= Bound
<1> SUFFICES ASSUME LimiterInv PROVE served[clock] <= Bound
  OBVIOUS
<1>1. TypeInv /\ served[clock] \in Nat
  BY DEF LimiterInv, TypeInv
<1>2. Threads \in Nat \ {0} /\ Limit \in Nat \ {0}
  BY ThreadsType, LimitAssumption
<1>3. Bound \in Nat /\ 1 <= Bound
  <2>1. (2 * Threads - 1) * Limit \in Nat
    BY <1>2
  <2>2. QED  BY <2>1 DEF Bound
<1>4. CASE Spent
  <2>1. Credit \in Nat /\ Left \in 0 .. Limit
    BY <1>1, CreditType
  <2>2. Limit * Credit \in Nat
    BY <1>2, <2>1
  <2>3. QED  BY <1>1, <1>2, <1>3, <1>4, <2>1, <2>2 DEF Spent
<1>5. CASE AllStale
  BY <1>3, <1>5 DEF AllStale
<1>6. CASE OneFresh
  BY <1>1, <1>3, <1>6 DEF OneFresh
<1>7. QED  BY <1>4, <1>5, <1>6 DEF LimiterInv

LEMMA PastStep == LimiterInv /\ [Next]_vars => Past'
<1> SUFFICES ASSUME LimiterInv, [Next]_vars PROVE Past'
  OBVIOUS
<1> USE DEF LimiterInv, TypeInv, Past
<1>1. CASE Tick
  <2>1. served[clock] <= Bound
    BY Capped
  <2>2. clock' = clock + 1 /\ served' = served
    BY <1>1 DEF Tick
  <2>3. QED  BY <2>1, <2>2 DEF Second, Bound
<1>2. ASSUME NEW t \in Thread, Arrive(t) PROVE Past'
  BY <1>2 DEF Arrive, Bound
<1>3. ASSUME NEW t \in Thread, LoadWindow(t) PROVE Past'
  BY <1>3 DEF LoadWindow, Bound
<1>4. ASSUME NEW t \in Thread, MoveWindow(t) PROVE Past'
  BY <1>4 DEF MoveWindow, Bound
<1>5. ASSUME NEW t \in Thread, ClearCount(t) PROVE Past'
  BY <1>5 DEF ClearCount, Bound
<1>6. ASSUME NEW t \in Thread, Take(t) PROVE Past'
  BY <1>6 DEF Take, Bound, Second
<1>7. CASE UNCHANGED vars
  BY <1>7 DEF vars, Bound
<1>8. QED  BY <1>1, <1>2, <1>3, <1>4, <1>5, <1>6, <1>7 DEF Next

-----------------------------------------------------------------------------
(* Reaching Spent: two threads are through, or one and the window is at the *)
(* current second. *)

LEMMA TwoOut ==
  ASSUME TypeInv', served'[clock'] \in 0 .. 1,
         NEW x \in Thread, x \notin Pending', x \notin Clearing',
         NEW y \in Thread, y # x, y \notin Pending'
  PROVE  Spent'
<1>1. /\ Pending' \in SUBSET Thread /\ Clearing' \in SUBSET Thread
      /\ Pending' \cap Clearing' = {}
      /\ Cardinality(Pending') \in Nat /\ Cardinality(Clearing') \in Nat
      /\ Behind' \in 0 .. 1 /\ Left' \in 0 .. Limit
  BY CreditTypeNext
<1>2. Cardinality(Pending') <= Threads - 2
  BY <1>1, FewLeft
<1>3. Cardinality(Pending') + Cardinality(Clearing') <= Threads - 1
  BY <1>1, FewLeft
<1>4. Credit' \in Nat /\ Credit' <= 2 * Threads - 2
  BY <1>1, <1>2, <1>3, ThreadsType DEF Credit
<1>5. served'[clock'] + Left' + Limit * Credit' <= Bound
  BY <1>1, <1>4, Affordable
<1>6. QED  BY <1>5 DEF Spent, Bound, Threads

LEMMA OneOut ==
  ASSUME TypeInv', served'[clock'] \in 0 .. 1, windowStart' = clock',
         NEW x \in Thread, x \notin Pending', x \notin Clearing'
  PROVE  Spent'
<1>1. /\ Pending' \in SUBSET Thread /\ Clearing' \in SUBSET Thread
      /\ Pending' \cap Clearing' = {}
      /\ Cardinality(Pending') \in Nat /\ Cardinality(Clearing') \in Nat
      /\ Left' \in 0 .. Limit
  BY CreditTypeNext
<1>2. Cardinality(Pending') <= Threads - 1
  BY <1>1, FewLeft
<1>3. Cardinality(Pending') + Cardinality(Clearing') <= Threads - 1
  BY <1>1, FewLeft
<1>4. Behind' = 0
  BY DEF Behind
<1>5. Credit' \in Nat /\ Credit' <= 2 * Threads - 2
  BY <1>1, <1>2, <1>3, <1>4, ThreadsType DEF Credit
<1>6. served'[clock'] + Left' + Limit * Credit' <= Bound
  BY <1>1, <1>5, Affordable
<1>7. QED  BY <1>6 DEF Spent, Bound, Threads

-----------------------------------------------------------------------------
(* Within a second, what is spent never grows. *)

LEMMA LoadSpent ==
  ASSUME TypeInv, TypeInv', Spent, NEW t \in Thread, LoadWindow(t)
  PROVE  Spent'
<1>1. /\ Pending \in SUBSET Thread /\ IsFiniteSet(Pending)
      /\ Cardinality(Pending) \in Nat /\ Cardinality(Clearing) \in Nat
      /\ Behind \in 0 .. 1 /\ Left \in 0 .. Limit /\ Credit \in Nat
  BY CreditType, SetsType
<1>2. /\ UNCHANGED <<clock, windowStart, count, now, served>>
      /\ at' = [at EXCEPT ![t] = IF now[t] # windowStart THEN "move" ELSE "take"]
      /\ at[t] = "load"
  BY DEF LoadWindow
<1>3. Behind' = Behind /\ Left' = Left
  BY <1>2 DEF Behind, Left
<1>4. Clearing' = Clearing
  BY <1>2 DEF Clearing, TypeInv
<1>5. Pending' = Pending \/ Pending' = Pending \ {t}
  <2>1. CASE now[t] # windowStart
    BY <1>2, <2>1 DEF Pending, Stale, TypeInv
  <2>2. CASE now[t] = windowStart
    BY <1>2, <2>2 DEF Pending, Stale, TypeInv
  <2>3. QED  BY <2>1, <2>2
<1>6. Cardinality(Clearing') = Cardinality(Clearing)
  BY <1>4, Zenon
<1>7. Cardinality(Pending') \in Nat /\ Cardinality(Pending') <= Cardinality(Pending)
  <2>1. Pending' \in SUBSET Pending
    BY <1>5
  <2>2. QED  BY <1>1, <2>1, FS_Subset, FS_CardinalityType
<1>8. Credit' \in Nat /\ Credit' <= Credit - 0
  BY <1>1, <1>3, <1>6, <1>7 DEF Credit
<1>9. served[clock] + Left \in Nat /\ served'[clock'] + Left' = served[clock] + Left
  <2>1. served[clock] \in Nat
    BY DEF TypeInv
  <2>2. served'[clock'] = served[clock]
    BY <1>2
  <2>3. QED  BY <1>1, <1>3, <2>1, <2>2, LimitAssumption
<1>10. served'[clock'] + Left' + Limit * Credit' <= Bound
  <2>1. served[clock] + Left + Limit * Credit <= Bound
    BY DEF Spent
  <2>2. served'[clock'] + Left' <= served[clock] + Left + Limit * 0
    BY <1>9, LimitAssumption
  <2>3. served'[clock'] + Left' \in Nat /\ 0 \in 0 .. 1
    BY <1>9
  <2>4. QED  BY <1>1, <1>8, <1>9, <2>1, <2>2, <2>3, Pays
<1>11. QED  BY <1>10 DEF Spent, Bound, Threads

(* The other steps of a request, from what they do to the sets. *)
LEMMA KeepsSpent ==
  ASSUME TypeInv, TypeInv', Spent,
         NEW a \in Nat, a = Cardinality(Pending'),
         NEW c \in Nat, c = Cardinality(Clearing'),
         NEW d \in 0 .. 1, 2 * a + c + Behind' <= Credit - d,
         served'[clock'] + Left' <= served[clock] + Left + Limit * d
  PROVE  Spent'
<1>1. Behind' \in 0 .. 1 /\ Left' \in 0 .. Limit /\ Left \in 0 .. Limit /\ Credit \in Nat
  BY CreditType, CreditTypeNext
<1>2. served[clock] \in Nat /\ served'[clock'] \in Nat
  BY DEF TypeInv
<1>3. PICK k \in Nat : k = Credit
  BY <1>1
<1>4. PICK h \in Nat : h = 2 * a + c + Behind'
  BY <1>1
<1>5. PICK m \in Nat : m = served[clock] + Left
  BY <1>1, <1>2, LimitAssumption
<1>6. PICK n \in Nat : n = served'[clock'] + Left'
  BY <1>1, <1>2, LimitAssumption
<1>7. m + Limit * k <= Bound
  BY <1>3, <1>5 DEF Spent
<1>8. h <= k - d /\ n <= m + Limit * d
  BY <1>3, <1>4, <1>5, <1>6
<1>9. n + Limit * h <= Bound
  BY <1>7, <1>8, Pays
<1>10. Credit' = h
  BY <1>4 DEF Credit
<1>11. served'[clock'] + Left' + Limit * Credit' <= Bound
  BY <1>6, <1>9, <1>10
<1>12. QED  BY <1>11 DEF Spent, Bound, Threads

LEMMA ArriveSpent ==
  ASSUME TypeInv, TypeInv', Spent, NEW t \in Thread, Arrive(t)
  PROVE  Spent'
<1>1. /\ Cardinality(Pending) \in Nat /\ Cardinality(Clearing) \in Nat
      /\ Behind \in 0 .. 1 /\ Left \in 0 .. Limit /\ Credit \in Nat
  BY CreditType
<1>2. /\ UNCHANGED <<clock, windowStart, count, served>>
      /\ at' = [at EXCEPT ![t] = "load"] /\ now' = [now EXCEPT ![t] = clock]
      /\ at[t] = "idle"
  BY DEF Arrive
<1>3. Behind' = Behind /\ Left' = Left
  BY <1>2 DEF Behind, Left
<1>4. Clearing' = Clearing
  BY <1>2 DEF Clearing, TypeInv
<1>5. Pending' = Pending
  BY <1>2 DEF Pending, Stale, TypeInv, Second
<1>6. Cardinality(Clearing') = Cardinality(Clearing) /\ Cardinality(Pending') = Cardinality(Pending)
  BY <1>4, <1>5, Zenon
<1>7. served'[clock'] = served[clock] /\ served[clock] \in Nat
  BY <1>2 DEF TypeInv
<1>8. 0 \in 0 .. 1 /\ 2 * Cardinality(Pending) + Cardinality(Clearing) + Behind' <= Credit - 0
  BY <1>1, <1>3 DEF Credit
<1>9. served'[clock'] + Left' <= served[clock] + Left + Limit * 0
  BY <1>1, <1>3, <1>7, LimitAssumption
<1>10. QED  BY <1>1, <1>6, <1>8, <1>9, KeepsSpent

LEMMA MoveSpent ==
  ASSUME TypeInv, TypeInv', Spent, NEW t \in Thread, MoveWindow(t)
  PROVE  Spent'
<1>1. /\ Pending \in SUBSET Thread /\ IsFiniteSet(Pending) /\ IsFiniteSet(Clearing)
      /\ Cardinality(Pending) \in Nat /\ Cardinality(Clearing) \in Nat
      /\ Behind \in 0 .. 1 /\ Left \in 0 .. Limit /\ Credit \in Nat
  BY CreditType, SetsType
<1>2. /\ UNCHANGED <<clock, count, now, last, served>> /\ at[t] = "move"
      /\ \/ /\ windowStart = last[t] /\ windowStart' = now[t]
            /\ at' = [at EXCEPT ![t] = "clear"]
         \/ windowStart' = windowStart /\ at' = [at EXCEPT ![t] = "take"]
  BY DEF MoveWindow
<1>3. Left' = Left /\ Behind' \in 0 .. 1
  BY <1>2, CreditTypeNext DEF Left
<1>4. served'[clock'] = served[clock] /\ served[clock] \in Nat
  BY <1>2 DEF TypeInv
<1>5. served'[clock'] + Left' <= served[clock] + Left + Limit * 0
  BY <1>1, <1>3, <1>4, LimitAssumption
<1>6. t \notin Clearing /\ 0 \in 0 .. 1
  BY <1>2 DEF Clearing
<1>7. CASE windowStart' = windowStart /\ at' = [at EXCEPT ![t] = "take"]
  <2>1. Clearing' = Clearing
    BY <1>2, <1>7 DEF Clearing, TypeInv
  <2>2. Pending' \in SUBSET Pending
    BY <1>2, <1>7 DEF Pending, Stale, TypeInv
  <2>3. Cardinality(Clearing') = Cardinality(Clearing)
    BY <2>1, Zenon
  <2>4. Cardinality(Pending') \in Nat /\ Cardinality(Pending') <= Cardinality(Pending)
    BY <1>1, <2>2, FS_Subset, FS_CardinalityType
  <2>5. Behind' = Behind
    BY <1>2, <1>7 DEF Behind
  <2>6. 2 * Cardinality(Pending') + Cardinality(Clearing') + Behind' <= Credit - 0
    BY <1>1, <2>3, <2>4, <2>5 DEF Credit
  <2>7. QED  BY <1>1, <1>5, <1>6, <2>3, <2>4, <2>6, KeepsSpent
<1>8. CASE /\ windowStart = last[t] /\ windowStart' = now[t]
           /\ at' = [at EXCEPT ![t] = "clear"]
  <2>1. Clearing' = Clearing \cup {t}
    BY <1>2, <1>8 DEF Clearing, TypeInv
  <2>2. Cardinality(Clearing \cup {t}) = Cardinality(Clearing) + 1
    BY <1>1, <1>6, FS_AddElement
  <2>3. Cardinality(Clearing') = Cardinality(Clearing) + 1
    BY <2>1, <2>2, Zenon
  <2>4. CASE Stale(t)
    <3>1. Pending' = Pending \ {t} /\ t \in Pending
      BY <1>2, <1>8, <2>4 DEF Pending, Stale, TypeInv
    <3>2. Cardinality(Pending \ {t}) = Cardinality(Pending) - 1
      BY <1>1, <3>1, FS_RemoveElement
    <3>3. Cardinality(Pending') = Cardinality(Pending) - 1
      BY <3>1, <3>2, Zenon
    <3>4. Cardinality(Pending') \in Nat
      BY CreditTypeNext
    <3>5. 2 * Cardinality(Pending') + Cardinality(Clearing') + Behind' <= Credit - 0
      BY <1>1, <1>3, <2>3, <3>3 DEF Credit
    <3>6. QED  BY <1>1, <1>5, <1>6, <2>3, <3>4, <3>5, KeepsSpent
  <2>5. CASE ~Stale(t)
    <3>1. Pending' = Pending
      BY <1>2, <1>8, <2>5 DEF Pending, Stale, TypeInv
    <3>2. Cardinality(Pending') = Cardinality(Pending)
      BY <3>1, Zenon
    <3>3. now[t] = clock /\ now[t] # last[t]
      BY <1>2, <2>5 DEF Stale, TypeInv, Second
    <3>4. Behind = 1 /\ Behind' = 0
      BY <1>2, <1>8, <3>3 DEF Behind
    <3>5. 2 * Cardinality(Pending') + Cardinality(Clearing') + Behind' <= Credit - 0
      BY <1>1, <2>3, <3>2, <3>4 DEF Credit
    <3>6. QED  BY <1>1, <1>5, <1>6, <2>3, <3>2, <3>5, KeepsSpent
  <2>6. QED  BY <2>4, <2>5
<1>9. QED  BY <1>2, <1>7, <1>8

LEMMA ClearSpent ==
  ASSUME TypeInv, TypeInv', Spent, NEW t \in Thread, ClearCount(t)
  PROVE  Spent'
<1>1. /\ IsFiniteSet(Clearing)
      /\ Cardinality(Pending) \in Nat /\ Cardinality(Clearing) \in Nat
      /\ Behind \in 0 .. 1 /\ Left \in 0 .. Limit /\ Credit \in Nat
  BY CreditType, SetsType
<1>2. /\ UNCHANGED <<clock, windowStart, now, last, served>> /\ at[t] = "clear"
      /\ count' = 0 /\ at' = [at EXCEPT ![t] = "take"]
  BY DEF ClearCount
<1>3. Behind' = Behind /\ Left' \in 0 .. Limit
  BY <1>2, CreditTypeNext DEF Behind
<1>4. Clearing' = Clearing \ {t} /\ t \in Clearing
  BY <1>2 DEF Clearing, TypeInv
<1>5. Pending' = Pending
  BY <1>2 DEF Pending, Stale, TypeInv
<1>6. Cardinality(Clearing \ {t}) = Cardinality(Clearing) - 1
  BY <1>1, <1>4, FS_RemoveElement
<1>7. /\ Cardinality(Clearing') = Cardinality(Clearing) - 1
      /\ Cardinality(Pending') = Cardinality(Pending)
  BY <1>4, <1>5, <1>6, Zenon
<1>8. Cardinality(Clearing') \in Nat
  BY CreditTypeNext
<1>9. served'[clock'] = served[clock] /\ served[clock] \in Nat
  BY <1>2 DEF TypeInv
<1>10. 1 \in 0 .. 1 /\ 2 * Cardinality(Pending') + Cardinality(Clearing') + Behind' <= Credit - 1
  BY <1>1, <1>3, <1>7 DEF Credit
<1>11. served'[clock'] + Left' <= served[clock] + Left + Limit * 1
  BY <1>1, <1>3, <1>9, LimitAssumption
<1>12. QED  BY <1>1, <1>7, <1>8, <1>10, <1>11, KeepsSpent

LEMMA TakeSpent ==
  ASSUME TypeInv, TypeInv', Spent, NEW t \in Thread, Take(t)
  PROVE  Spent'
<1>1. /\ Cardinality(Pending) \in Nat /\ Cardinality(Clearing) \in Nat
      /\ Behind \in 0 .. 1 /\ Left \in 0 .. Limit /\ Credit \in Nat
  BY CreditType
<1>2. /\ UNCHANGED <<clock, windowStart, now>> /\ at[t] = "take"
      /\ count' = count + 1 /\ at' = [at EXCEPT ![t] = "idle"]
      /\ served' = [served EXCEPT ![clock] = IF count + 1 <= Limit THEN @ + 1 ELSE @]
  BY DEF Take
<1>3. Behind' = Behind
  BY <1>2 DEF Behind
<1>4. Clearing' = Clearing
  BY <1>2 DEF Clearing, TypeInv
<1>5. Pending' = Pending
  BY <1>2 DEF Pending, Stale, TypeInv
<1>6. Cardinality(Clearing') = Cardinality(Clearing) /\ Cardinality(Pending') = Cardinality(Pending)
  BY <1>4, <1>5, Zenon
<1>7. 0 \in 0 .. 1 /\ 2 * Cardinality(Pending') + Cardinality(Clearing') + Behind' <= Credit - 0
  BY <1>1, <1>3, <1>6 DEF Credit
<1>8. served'[clock'] + Left' <= served[clock] + Left + Limit * 0
  <2>1. count \in Nat /\ served[clock] \in Nat /\ Limit \in Nat
    BY LimitAssumption DEF TypeInv
  <2>2. served'[clock'] = IF count + 1 <= Limit THEN served[clock] + 1 ELSE served[clock]
    BY <1>2 DEF TypeInv
  <2>3. Left' = IF count + 1 < Limit THEN Limit - (count + 1) ELSE 0
    BY <1>2 DEF Left
  <2>4. CASE count + 1 <= Limit
    <3>1. Left = Limit - count /\ Left' = Limit - (count + 1)
      BY <2>1, <2>3, <2>4 DEF Left
    <3>2. QED  BY <2>1, <2>2, <2>4, <3>1
  <2>5. CASE ~(count + 1 <= Limit)
    <3>1. Left = 0 /\ Left' = 0
      BY <2>1, <2>3, <2>5 DEF Left
    <3>2. QED  BY <2>1, <2>2, <2>5, <3>1
  <2>6. QED  BY <2>4, <2>5
<1>9. QED  BY <1>1, <1>6, <1>7, <1>8, KeepsSpent

-----------------------------------------------------------------------------
(* A new second begins with every request in flight of an earlier one.      *)

LEMMA TickStage ==
  ASSUME TypeInv, TypeInv', Tick
  PROVE  Spent' \/ AllStale' \/ OneFresh'
<1>1. UNCHANGED <<windowStart, count, at, now, last, served>> /\ clock' = clock + 1
  BY DEF Tick
<1>2. served'[clock'] = 0 /\ served'[clock'] \in 0 .. 1
  <2>1. clock' \in Second /\ clock' > clock
    BY <1>1 DEF TypeInv, Second
  <2>2. QED  BY <1>1, <2>1 DEF TypeInv
<1>3. windowStart' # clock'
  BY <1>1 DEF TypeInv, Second
<1>4. \A t \in Thread : Stale(t)' <=> at[t] # "idle"
  BY <1>1 DEF Stale, TypeInv, Second
<1>5. CASE \A t \in Thread : at[t] # "idle"
  BY <1>2, <1>3, <1>4, <1>5 DEF AllStale
<1>6. CASE \E t \in Thread : at[t] = "idle"
  <2>1. PICK x \in Thread : at[x] = "idle"
    BY <1>6
  <2>2. CASE \E y \in Thread \ {x} : at[y] \in {"idle", "take"}
    <3>1. PICK y \in Thread \ {x} : at[y] \in {"idle", "take"}
      BY <2>2
    <3>2. x \notin Pending' /\ x \notin Clearing' /\ y \notin Pending'
      BY <1>1, <2>1, <3>1 DEF Pending, Clearing, Stale
    <3>3. QED  BY <1>2, <3>1, <3>2, TwoOut
  <2>3. CASE ~ \E y \in Thread \ {x} : at[y] \in {"idle", "take"}
    <3>1. FreshIs(x)'
      BY <1>1, <1>3, <1>4, <2>1, <2>3 DEF FreshIs
    <3>2. QED  BY <1>2, <3>1 DEF OneFresh
  <2>4. QED  BY <2>2, <2>3
<1>7. QED  BY <1>5, <1>6

(* Nothing is served until the first request is through.                    *)
LEMMA AllStaleStage ==
  ASSUME TypeInv, TypeInv', AllStale, NEW t \in Thread,
         Arrive(t) \/ LoadWindow(t) \/ MoveWindow(t) \/ ClearCount(t) \/ Take(t)
  PROVE  Spent' \/ AllStale' \/ OneFresh'
<1>1. /\ served[clock] = 0 /\ windowStart # clock
      /\ \A u \in Thread : at[u] # "idle" /\ now[u] < clock
  BY DEF AllStale, Stale
<1>2. now[t] < clock /\ now[t] \in Nat /\ clock \in Nat
  BY <1>1 DEF TypeInv, Second
<1>3. CASE Arrive(t)
  BY <1>1, <1>3 DEF Arrive
<1>4. CASE LoadWindow(t) \/ MoveWindow(t) \/ ClearCount(t)
  <2>1. /\ UNCHANGED <<clock, now, served>>
        /\ windowStart' = windowStart \/ windowStart' = now[t]
        /\ \A u \in Thread : at'[u] # "idle"
    BY <1>1, <1>4 DEF LoadWindow, MoveWindow, ClearCount, TypeInv
  <2>2. windowStart' # clock'
    BY <1>1, <1>2, <2>1
  <2>3. \A u \in Thread : Stale(u)'
    BY <1>1, <2>1 DEF Stale
  <2>4. QED  BY <1>1, <2>1, <2>2, <2>3 DEF AllStale
<1>5. CASE Take(t)
  <2>1. /\ UNCHANGED <<clock, windowStart, now>>
        /\ at' = [at EXCEPT ![t] = "idle"]
        /\ served' = [served EXCEPT ![clock] = IF count + 1 <= Limit THEN @ + 1 ELSE @]
    BY <1>5 DEF Take
  <2>2. served'[clock'] \in 0 .. 1
    BY <1>1, <2>1 DEF TypeInv
  <2>3. at'[t] = "idle" /\ \A u \in Thread \ {t} : at'[u] = at[u]
    BY <2>1 DEF TypeInv
  <2>4. CASE \E y \in Thread \ {t} : at[y] = "take"
    <3>1. PICK y \in Thread \ {t} : at[y] = "take"
      BY <2>4
    <3>2. t \notin Pending' /\ t \notin Clearing' /\ y \notin Pending'
      BY <2>3, <3>1 DEF Pending, Clearing, Stale
    <3>3. QED  BY <2>2, <3>1, <3>2, TwoOut
  <2>5. CASE ~ \E y \in Thread \ {t} : at[y] = "take"
    <3>1. ~Stale(t)' /\ \A u \in Thread \ {t} : Stale(u)' /\ at'[u] # "take"
      BY <1>1, <2>1, <2>3, <2>5 DEF Stale
    <3>2. FreshIs(t)'
      BY <1>1, <2>1, <2>3, <3>1 DEF FreshIs
    <3>3. QED  BY <2>2, <3>2 DEF OneFresh
  <2>6. QED  BY <2>4, <2>5
<1>6. QED  BY <1>3, <1>4, <1>5

(* Nobody is served while one request is of the current second, until it or *)
(* a second one of the earlier requests is through. *)
LEMMA OneFreshStage ==
  ASSUME TypeInv, TypeInv', OneFresh, NEW t \in Thread,
         Arrive(t) \/ LoadWindow(t) \/ MoveWindow(t) \/ ClearCount(t) \/ Take(t)
  PROVE  Spent' \/ OneFresh'
<1>1. PICK x \in Thread : FreshIs(x)
  BY DEF OneFresh
<1>2. /\ at[x] \in {"idle", "load", "move", "clear"}
      /\ \A u \in Thread \ {x} : at[u] \in {"load", "move", "clear"} /\ now[u] < clock
      /\ at[x] # "idle" => now[x] = clock
  BY <1>1 DEF FreshIs, Stale, TypeInv, Stage, Second
<1>3. served[clock] \in 0 .. 1 /\ clock \in Nat
  <2>1. served[clock] \in Nat
    BY DEF TypeInv
  <2>2. clock \in Nat
    BY LimitAssumption DEF TypeInv, Second
  <2>3. served[clock] <= 1
    BY DEF OneFresh
  <2>4. QED  BY <2>1, <2>2, <2>3
<1>4. CASE Take(t)
  BY <1>2, <1>4 DEF Take
<1>5. ASSUME ~Take(t) PROVE served'[clock'] \in 0 .. 1 /\ clock' = clock
  BY <1>3, <1>5 DEF Arrive, LoadWindow, MoveWindow, ClearCount
<1>6. CASE t # x /\ ~Take(t)
  <2>1. at[t] \in {"load", "move", "clear"} /\ now[t] < clock
    BY <1>2, <1>6
  <2>2. now' = now /\ clock' = clock
    BY <1>6, <2>1 DEF Arrive, LoadWindow, MoveWindow, ClearCount
  <2>3. \A u \in Thread \ {t} : at'[u] = at[u]
    BY <1>6 DEF Arrive, LoadWindow, MoveWindow, ClearCount, TypeInv
  <2>4. x \notin Pending'
    BY <1>1, <1>6, <2>2, <2>3 DEF Pending, Stale, FreshIs
  <2>5. CASE at'[t] = "take"
    <3>1. t \notin Pending' /\ t \notin Clearing'
      BY <2>5 DEF Pending, Clearing
    <3>2. QED  BY <1>5, <1>6, <2>4, <3>1, TwoOut
  <2>6. CASE at'[t] # "take"
    <3>1. /\ at'[t] \in {"move", "clear"} /\ at[t] # "clear"
          /\ last[x] = last'[x]
          /\ at'[t] = "move" => windowStart' = windowStart /\ at[t] # "clear"
          /\ at'[t] = "clear" => windowStart' = now[t]
      BY <1>6, <2>1, <2>6 DEF Arrive, LoadWindow, MoveWindow, ClearCount, TypeInv
    <3>2. \A u \in Thread : Stale(u)' <=> Stale(u)
      BY <2>1, <2>2, <2>3, <3>1 DEF Stale
    <3>3. at'[x] = at[x]
      BY <1>6, <2>3
    <3>4. ~Stale(x)' /\ \A u \in Thread \ {x} : Stale(u)' /\ at'[u] # "take"
      BY <1>1, <2>3, <2>6, <3>2 DEF FreshIs
    <3>5. Stale(t)'
      BY <1>6, <3>4
    <3>6. CASE at'[t] = "clear"
      <4>1. StaleClearing'
        BY <3>5, <3>6 DEF StaleClearing
      <4>2. windowStart' # clock'
        BY <1>3, <2>1, <2>2, <3>1, <3>6
      <4>3. FreshIs(x)'
        BY <1>2, <3>3, <3>4, <4>1, <4>2 DEF FreshIs
      <4>4. QED  BY <1>5, <1>6, <4>3 DEF OneFresh
    <3>7. CASE at'[t] = "move"
      <4>1. StaleClearing => StaleClearing'
        <5> SUFFICES ASSUME NEW y \in Thread, Stale(y), at[y] = "clear" PROVE StaleClearing'
          BY DEF StaleClearing
        <5>1. y # t
          BY <3>1
        <5>2. at'[y] = "clear" /\ Stale(y)'
          BY <2>3, <3>2, <5>1
        <5>3. QED  BY <5>2 DEF StaleClearing
      <4>2. windowStart' = windowStart /\ last'[x] = last[x]
        BY <3>1, <3>7
      <4>3. FreshIs(x)'
        BY <1>1, <2>2, <3>3, <3>4, <4>1, <4>2 DEF FreshIs
      <4>4. QED  BY <1>5, <1>6, <4>3 DEF OneFresh
    <3>8. QED  BY <3>1, <3>6, <3>7
  <2>7. QED  BY <2>5, <2>6
<1>7. CASE t = x /\ ~Take(t)
  <2>1. \A u \in Thread \ {x} : at'[u] = at[u] /\ now'[u] = now[u]
    BY <1>7 DEF Arrive, LoadWindow, MoveWindow, ClearCount, TypeInv
  <2>2. clock' = clock /\ served'[clock'] \in 0 .. 1
    BY <1>5, <1>7
  <2>3. \A u \in Thread \ {x} : Stale(u)' /\ at'[u] # "take"
    BY <1>1, <2>1, <2>2 DEF FreshIs, Stale
  <2>4. ~Stale(x)' /\ x \notin Pending'
    <3>1. now'[x] = clock'
      BY <1>2, <1>3, <1>7, <2>2 DEF Arrive, LoadWindow, MoveWindow, ClearCount, TypeInv
    <3>2. QED  BY <1>3, <2>2, <3>1 DEF Stale, Pending
  <2>5. StaleClearing => \E y \in Thread \ {x} : at'[y] = "clear"
    BY <1>1, <2>1 DEF StaleClearing, FreshIs
  <2>6. StaleClearing => StaleClearing'
    BY <2>3, <2>5 DEF StaleClearing
  <2>7. CASE at'[x] = "take" /\ StaleClearing
    <3>1. PICK y \in Thread \ {x} : at'[y] = "clear"
      BY <2>5, <2>7
    <3>2. x \notin Clearing' /\ y \notin Pending'
      BY <2>7, <3>1 DEF Clearing, Pending
    <3>3. QED  BY <2>2, <2>4, <3>1, <3>2, TwoOut
  <2>8. CASE Arrive(x)
    <3>1. at'[x] = "load" /\ windowStart' = windowStart /\ windowStart # clock
      BY <1>1, <2>8 DEF Arrive, FreshIs, TypeInv
    <3>2. FreshIs(x)'
      BY <2>2, <2>3, <2>4, <3>1 DEF FreshIs
    <3>3. QED  BY <2>2, <3>2 DEF OneFresh
  <2>9. CASE LoadWindow(x)
    <3>1. windowStart # clock /\ now[x] = clock
      BY <1>1, <1>2, <2>9 DEF LoadWindow, FreshIs
    <3>2. at'[x] = "move" /\ windowStart' = windowStart /\ last'[x] = windowStart
      BY <2>9, <3>1 DEF LoadWindow, TypeInv
    <3>3. FreshIs(x)'
      BY <2>2, <2>3, <2>4, <3>1, <3>2 DEF FreshIs
    <3>4. QED  BY <2>2, <3>3 DEF OneFresh
  <2>10. CASE MoveWindow(x)
    <3>1. last[x] = windowStart \/ StaleClearing
      BY <1>1, <2>10 DEF MoveWindow, FreshIs
    <3>2. CASE windowStart = last[x]
      <4>1. at'[x] = "clear" /\ windowStart' = clock'
        BY <1>2, <2>2, <2>10, <3>2 DEF MoveWindow, TypeInv
      <4>2. FreshIs(x)'
        BY <2>3, <2>4, <4>1 DEF FreshIs
      <4>3. QED  BY <2>2, <4>2 DEF OneFresh
    <3>3. CASE windowStart # last[x]
      <4>1. at'[x] = "take"
        BY <2>10, <3>3 DEF MoveWindow, TypeInv
      <4>2. QED  BY <2>7, <3>1, <3>3, <4>1
    <3>4. QED  BY <3>2, <3>3
  <2>11. CASE ClearCount(x)
    <3>1. at'[x] = "take" /\ windowStart' = windowStart
      BY <2>11 DEF ClearCount, TypeInv
    <3>2. windowStart = clock \/ StaleClearing
      BY <1>1, <2>11 DEF ClearCount, FreshIs
    <3>3. CASE windowStart = clock
      <4>1. x \notin Clearing'
        BY <3>1 DEF Clearing
      <4>2. QED  BY <2>2, <2>4, <3>1, <3>3, <4>1, OneOut
    <3>4. QED  BY <2>7, <3>1, <3>2, <3>3
  <2>12. QED  BY <1>7, <2>8, <2>9, <2>10, <2>11
<1>8. QED  BY <1>4, <1>6, <1>7

-----------------------------------------------------------------------------
LEMMA LimiterStep == LimiterInv /\ [Next]_vars => LimiterInv'
<1> SUFFICES ASSUME LimiterInv, [Next]_vars PROVE LimiterInv'
  OBVIOUS
<1>1. TypeInv /\ TypeInv' /\ Past'
  BY TypeStep, PastStep DEF LimiterInv
<1>2. Spent' \/ AllStale' \/ OneFresh'
  <2>1. CASE Tick
    BY <1>1, <2>1, TickStage
  <2>2. ASSUME NEW t \in Thread,
               Arrive(t) \/ LoadWindow(t) \/ MoveWindow(t) \/ ClearCount(t) \/ Take(t)
        PROVE  Spent' \/ AllStale' \/ OneFresh'
    <3>1. CASE Spent
      BY <1>1, <2>2, <3>1, ArriveSpent, LoadSpent, MoveSpent, ClearSpent, TakeSpent
    <3>2. CASE AllStale
      BY <1>1, <2>2, <3>2, AllStaleStage
    <3>3. CASE OneFresh
      BY <1>1, <2>2, <3>3, OneFreshStage
    <3>4. QED  BY <3>1, <3>2, <3>3 DEF LimiterInv
  <2>3. CASE UNCHANGED vars
    BY <2>3 DEF vars, LimiterInv, Spent, AllStale, OneFresh, FreshIs, StaleClearing,
         Credit, Pending, Clearing, Behind, Left, Stale, Bound, Threads
  <2>4. QED  BY <2>1, <2>2, <2>3 DEF Next
<1>3. QED  BY <1>1, <1>2 DEF LimiterInv

LEMMA InvBounds == LimiterInv => SlackBounded
<1> SUFFICES ASSUME LimiterInv, NEW s \in Second PROVE served[s] <= Bound
  BY DEF SlackBounded, Bound, Threads
<1>1. TypeInv /\ Past /\ s \in Nat /\ clock \in Nat
  BY DEF LimiterInv, TypeInv, Second
<1>2. CASE s < clock
  BY <1>1, <1>2 DEF Past
<1>3. CASE s = clock
  BY <1>3, Capped
<1>4. CASE s > clock
  <2>1. Threads \in Nat \ {0} /\ Limit \in Nat \ {0}
    BY ThreadsType, LimitAssumption
  <2>2. (2 * Threads - 1) * Limit \in Nat
    BY <2>1
  <2>3. QED  BY <1>1, <1>4, <2>2 DEF Bound, TypeInv
<1>5. QED  BY <1>1, <1>2, <1>3, <1>4

(* "The slack is bounded to a small multi-allow" (try_acquire): whatever    *)
(* the number of requests handled at the same time and however they         *)
(* interleave, a second serves at most the limit once for every clearing of *)
(* the counter they can still cause, and one request more. *)
THEOREM SlackIsBounded == Spec => []SlackBounded
<1>1. Init => LimiterInv
  BY InitInv
<1>2. LimiterInv /\ [Next]_vars => LimiterInv'
  BY LimiterStep
<1>3. LimiterInv => SlackBounded
  BY InvBounds
<1>4. QED  BY <1>1, <1>2, <1>3, PTL DEF Spec
=============================================================================
