------------------------- MODULE RateLimiter_proofs -------------------------
(***************************************************************************)
(* Proofs about RateLimiter for every rate, burst, sweep and number of     *)
(* clients and requests: the limiter lets no client exceed a burst and its *)
(* rate, and refuses a request only when that would happen.                *)
(***************************************************************************)
EXTENDS RateLimiter, TLAPS

(* What client c has been allowed since its i-th allowed request, that one *)
(* included, and what the rate has added since.                            *)
Spent(c, i)  == (Len(admitted[c]) - i + 1) * Cost
Earned(c, i) == (clock - admitted[c][i]) * rate

(* No time lies in the future.                                             *)
TimesOK ==
    \A c \in Clients :
       /\ buckets[c] # NoBucket => buckets[c].last <= clock
       /\ \A i \in DOMAIN admitted[c] : admitted[c][i] <= clock

(* What is left and what was spent never exceed a burst and the rate...    *)
BudgetOK ==
    HourRefills =>
       \A c \in Clients : \A i \in DOMAIN admitted[c] :
          Tokens(c) + Spent(c, i) <= Capacity + Earned(c, i)

(* ...and reach them since some request, unless the bucket is full.        *)
NothingLost ==
    \A c \in Clients :
       \/ Tokens(c) = Capacity
       \/ \E i \in DOMAIN admitted[c] :
             Tokens(c) + Spent(c, i) >= Capacity + Earned(c, i)

TypeInv  == TypeOK /\ TimesOK
LimitInv == TypeInv /\ BudgetOK /\ NothingLost /\ WindowBound
----------------------------------------------------------------------------
(* Arithmetic.                                                             *)

LEMMA OneMore ==
    \A a, r \in Int : /\ (a + 1) * r = a * r + r
                      /\ a * r \in Int
                      /\ 0 * r = 0
                      /\ 1 * r = r
  OBVIOUS

LEMMA Counting ==
    \A m, k \in Int : /\ (m + 1) - k + 1 = (m - k + 1) + 1
                      /\ m - k + 2 = (m - k + 1) + 1
                      /\ m - k + 1 \in Int
  OBVIOUS

LEMMA ProductNat == \A a, r \in Nat : a * r \in Nat
  OBVIOUS

LEMMA ProductMonotone == \A a, b, r \in Nat : a <= b => a * r <= b * r
<1>. TAKE a, b, r \in Nat
<1>. HAVE a <= b
<1>1. PICK d \in Nat : b = a + d
  <2>. WITNESS b - a \in Nat
  <2>. QED OBVIOUS
<1>2. b * r = a * r + d * r
  BY <1>1
<1>. QED
  BY <1>2, ProductNat

LEMMA CapacityOK == Capacity \in Nat /\ Cost <= Capacity /\ Cost \in Nat \ {0}
<1>1. Cost \in Nat \ {0} /\ Burst \in Nat
  BY ConstantsAssumption
<1>2. CASE Burst > 1
  <2>1. Capacity = Cost * Burst
    BY <1>2 DEF Capacity
  <2>2. Capacity = Burst * Cost /\ 1 * Cost = Cost
    BY <1>1, <2>1
  <2>. QED
    BY <1>1, <1>2, <2>2, ProductMonotone, ProductNat
<1>3. CASE ~ (Burst > 1)
  BY <1>1, <1>3 DEF Capacity
<1>. QED
  BY <1>2, <1>3

(* A bucket's tokens, refilled, are within its capacity.                   *)
LEMMA RefillOK ==
    ASSUME TypeInv, NEW c \in Clients
    PROVE  /\ c \in Known => Refill(buckets[c]) \in 0..Capacity
           /\ Tokens(c) \in 0..Capacity
           /\ rate \in Nat /\ clock \in Nat
<1>1. rate \in Nat /\ clock \in Nat
  BY ConstantsAssumption DEF TypeInv, TypeOK
<1>2. ASSUME c \in Known PROVE Refill(buckets[c]) \in 0..Capacity
  <2>1. buckets[c] \in Bucket /\ buckets[c].last <= clock
    BY <1>2 DEF TypeInv, TypeOK, TimesOK, Known
  <2>2. buckets[c].tokens \in Nat /\ clock - buckets[c].last \in Nat
    BY <1>1, <2>1, ConstantsAssumption, CapacityOK DEF Bucket
  <2>3. (clock - buckets[c].last) * rate \in Nat
    BY <1>1, <2>2, ProductNat
  <2>. QED
    BY <2>2, <2>3, CapacityOK DEF Refill
<1>. QED
  BY <1>1, <1>2, CapacityOK DEF Tokens
----------------------------------------------------------------------------
(* Type correctness.                                                       *)

LEMMA TypeInit == Init => TypeInv
  BY ConstantsAssumption DEF Init, TypeInv, TypeOK, TimesOK

LEMMA TypeStep == TypeInv /\ [Next]_vars => TypeInv'
<1>. SUFFICES ASSUME TypeInv, [Next]_vars PROVE TypeInv'
  OBVIOUS
<1>. USE ConstantsAssumption
<1>1. CASE UNCHANGED vars
  BY <1>1 DEF vars, TypeInv, TypeOK, TimesOK
<1>2. CASE Tick
  BY <1>2 DEF Tick, TypeInv, TypeOK, TimesOK, Bucket
<1>3. ASSUME NEW w \in Workers, Arrive(w) PROVE TypeInv'
  <2>1. request' \in [Workers -> Clients \cup {NoRequest}]
    BY <1>3 DEF Arrive, TypeInv, TypeOK
  <2>2. \A c \in Clients : buckets'[c] = buckets[c] \/ buckets'[c] = NoBucket
    BY <1>3 DEF Arrive, TypeInv, TypeOK
  <2>3. buckets' \in [Clients -> Bucket \cup {NoBucket}]
    BY <1>3 DEF Arrive, TypeInv, TypeOK
  <2>. QED
    BY <1>3, <2>1, <2>2, <2>3 DEF Arrive, TypeInv, TypeOK, TimesOK
<1>4. ASSUME NEW w \in Workers, request[w] # NoRequest,
             NEW t \in 0..Capacity, Touch(request[w], t),
             request' = [request EXCEPT ![w] = NoRequest],
             \/ admitted' = admitted
             \/ admitted' = [admitted EXCEPT ![request[w]] = Append(@, clock)],
             UNCHANGED <<rate, clock>>
      PROVE  TypeInv'
  <2>. DEFINE c == request[w]
  <2>1. c \in Clients
    BY <1>4 DEF TypeInv, TypeOK
  <2>2. [tokens |-> t, last |-> clock] \in Bucket
    BY DEF Bucket, TypeInv, TypeOK
  <2>3. /\ buckets' \in [Clients -> Bucket \cup {NoBucket}]
        /\ \A d \in Clients :
              buckets'[d] = IF d = c THEN [tokens |-> t, last |-> clock] ELSE buckets[d]
    BY <1>4, <2>1, <2>2 DEF Touch, TypeInv, TypeOK
  <2>4. request' \in [Workers -> Clients \cup {NoRequest}]
    BY <1>4 DEF TypeInv, TypeOK
  <2>5. clock \in 0..MaxTime /\ admitted \in [Clients -> Seq(0..MaxTime)]
    BY DEF TypeInv, TypeOK
  <2>6. Append(admitted[c], clock) \in Seq(0..MaxTime)
    BY <2>1, <2>5
  <2>7. admitted' \in [Clients -> Seq(0..MaxTime)]
    BY <1>4, <2>1, <2>5, <2>6
  <2>8. \A d \in Clients : admitted'[d] = admitted[d]
                           \/ admitted'[d] = Append(admitted[d], clock)
    BY <1>4, <2>1, <2>5
  <2>9. ASSUME NEW d \in Clients, NEW i \in DOMAIN admitted'[d]
        PROVE  admitted'[d][i] <= clock
    <3>1. admitted[d] \in Seq(0..MaxTime)
      BY <2>5
    <3>2. \A k \in DOMAIN admitted[d] : admitted[d][k] <= clock
      BY DEF TypeInv, TimesOK
    <3>3. CASE admitted'[d] = admitted[d]
      BY <3>2, <3>3
    <3>4. CASE admitted'[d] = Append(admitted[d], clock)
      <4>1. i \in 1..Len(admitted[d]) + 1
        BY <2>5, <3>1, <3>4
      <4>2. CASE i = Len(admitted[d]) + 1
        BY <2>5, <3>1, <3>4, <4>2
      <4>3. CASE i \in 1..Len(admitted[d])
        BY <2>5, <3>1, <3>2, <3>4, <4>3
      <4>. QED
        BY <3>1, <4>1, <4>2, <4>3, SMTT(30)
    <3>. QED
      BY <2>8, <3>3, <3>4
  <2>10. ASSUME NEW d \in Clients, buckets'[d] # NoBucket
         PROVE  buckets'[d].last <= clock
    BY <2>3, <2>5, <2>10 DEF TypeInv, TimesOK
  <2>. QED
    BY <1>4, <2>3, <2>4, <2>7, <2>9, <2>10 DEF TypeInv, TypeOK, TimesOK
<1>5. ASSUME NEW w \in Workers, Allow(w) PROVE TypeInv'
  <2>1. request[w] \in Clients
    BY <1>5 DEF Allow, TypeInv, TypeOK
  <2>2. Tokens(request[w]) - Cost \in 0..Capacity
    BY <1>5, <2>1, RefillOK, CapacityOK DEF Allow
  <2>. QED
    BY <1>4, <1>5, <2>2 DEF Allow
<1>6. ASSUME NEW w \in Workers, Deny(w) PROVE TypeInv'
  <2>1. request[w] \in Clients
    BY <1>6 DEF Deny, TypeInv, TypeOK
  <2>2. Tokens(request[w]) \in 0..Capacity
    BY <2>1, RefillOK
  <2>. QED
    BY <1>4, <1>6, <2>2 DEF Deny
<1>7. ASSUME NEW w \in Workers, Bypass(w) PROVE TypeInv'
  BY <1>1, <1>7 DEF Bypass
<1>. QED
  BY <1>1, <1>2, <1>3, <1>5, <1>6, <1>7 DEF Next

(* The limiter's state keeps its types, and no bucket ever holds more than *)
(* the burst (allow's min) or less than nothing.                           *)
THEOREM LimiterTypes == Spec => []TypeOK
<1>1. TypeInv => TypeOK
  BY DEF TypeInv
<1>. QED
  BY TypeInit, TypeStep, <1>1, PTL DEF Spec
----------------------------------------------------------------------------
(* The budget.                                                             *)

(* The types of Spent and Earned.                                          *)
LEMMA SpentEarned ==
    ASSUME TypeInv, NEW c \in Clients, NEW i \in DOMAIN admitted[c]
    PROVE  /\ admitted[c] \in Seq(0..MaxTime)
           /\ i \in 1..Len(admitted[c]) /\ Len(admitted[c]) \in Nat
           /\ admitted[c][i] \in Nat /\ clock - admitted[c][i] \in Nat
           /\ Spent(c, i) \in Nat /\ Earned(c, i) \in Nat
<1>1. admitted[c] \in Seq(0..MaxTime)
  BY DEF TypeInv, TypeOK
<1>2. i \in 1..Len(admitted[c]) /\ Len(admitted[c]) \in Nat
  BY <1>1
<1>3. admitted[c][i] \in Nat /\ clock \in Nat /\ admitted[c][i] <= clock
  BY <1>1, <1>2, RefillOK, ConstantsAssumption DEF TypeInv, TimesOK
<1>4. clock - admitted[c][i] \in Nat /\ Len(admitted[c]) - i + 1 \in Nat
  BY <1>2, <1>3
<1>. QED
  BY <1>1, <1>2, <1>3, <1>4, ProductNat, CapacityOK, RefillOK DEF Spent, Earned

LEMMA RefillNext ==
    ASSUME NEW c, buckets' = buckets, rate' = rate, clock' = clock + 1,
           buckets[c].tokens \in Nat, buckets[c].last \in Nat, rate \in Nat, clock \in Nat
    PROVE  Refill(buckets[c])' =
             IF buckets[c].tokens + (clock + 1 - buckets[c].last) * rate < Capacity
             THEN buckets[c].tokens + (clock + 1 - buckets[c].last) * rate
             ELSE Capacity
<1>1. (clock + 1 - buckets[c].last) * rate \in Int
  OBVIOUS
<1>. QED
  BY <1>1, CapacityOK DEF Refill, Capacity

(* A tick adds at most the rate to a bucket, and exactly that if it does   *)
(* not fill it; sweeping does not change what a client has.                *)
LEMMA TickAdds ==
    ASSUME TypeInv, Tick, NEW c \in Clients
    PROVE  /\ Tokens(c)' <= Tokens(c) + rate
           /\ Tokens(c)' = Capacity \/ Tokens(c)' = Tokens(c) + rate
           /\ Tokens(c)' \in 0..Capacity
<1>. USE CapacityOK, RefillOK
<1>1. rate \in Nat /\ rate' = rate /\ clock' = clock + 1 /\ buckets' = buckets
      /\ Known' = Known /\ Capacity' = Capacity
  BY DEF Tick, Known
<1>2. CASE c \notin Known
  BY <1>1, <1>2 DEF Tokens
<1>3. CASE c \in Known
  <2>1. buckets[c].tokens \in Nat /\ buckets[c].last \in Nat
        /\ buckets[c].last <= clock
    BY <1>3, ConstantsAssumption DEF TypeInv, TypeOK, TimesOK, Known, Bucket
  <2>. DEFINE e == clock - buckets[c].last
  <2>2. e \in Nat /\ clock + 1 - buckets[c].last = e + 1
    BY <2>1
  <2>3. (e + 1) * rate = e * rate + rate /\ e * rate \in Nat
    BY <1>1, <2>2, OneMore, ProductNat
  <2>. DEFINE r == buckets[c].tokens + e * rate
  <2>4. Tokens(c) = IF r < Capacity THEN r ELSE Capacity
    BY <1>3 DEF Tokens, Refill
  <2>5. Tokens(c)' = IF r + rate < Capacity THEN r + rate ELSE Capacity
    <3>1. Tokens(c)' = Refill(buckets[c])'
      BY <1>1, <1>3 DEF Tokens
    <3>2. Refill(buckets[c])' =
             IF buckets[c].tokens + (e + 1) * rate < Capacity
             THEN buckets[c].tokens + (e + 1) * rate ELSE Capacity
      <4>1. Refill(buckets[c])' =
               IF buckets[c].tokens + (clock + 1 - buckets[c].last) * rate < Capacity
               THEN buckets[c].tokens + (clock + 1 - buckets[c].last) * rate
               ELSE Capacity
        BY <1>1, <2>1, RefillOK, RefillNext
      <4>. QED
        BY <2>2, <4>1, Zenon
    <3>. QED
      BY <1>1, <2>1, <2>3, <3>1, <3>2
  <2>6. r \in Nat
    BY <2>1, <2>3
  <2>. HIDE DEF r
  <2>. QED
    BY <1>1, <2>4, <2>5, <2>6
<1>. QED
  BY <1>2, <1>3

LEMMA SweepKeeps ==
    ASSUME TypeInv, NEW w \in Workers, Arrive(w), NEW c \in Clients
    PROVE  /\ Tokens(c)' = Tokens(c) \/ Tokens(c)' = Capacity
           /\ HourRefills => Tokens(c)' = Tokens(c)
<1>. USE CapacityOK, RefillOK
<1>1. rate' = rate /\ clock' = clock /\ Capacity' = Capacity
  BY DEF Arrive
<1>2. buckets'[c] = buckets[c]
      \/ (c \in Known /\ Stale(c) /\ buckets'[c] = NoBucket)
      \/ (c \notin Known /\ buckets'[c] = NoBucket)
  BY DEF Arrive, TypeInv, TypeOK
<1>3. CASE buckets'[c] = buckets[c]
  BY <1>1, <1>3 DEF Tokens, Known, Refill
<1>4. CASE c \notin Known /\ buckets'[c] = NoBucket
  BY <1>1, <1>4 DEF Tokens, Known
<1>5. CASE c \in Known /\ Stale(c) /\ buckets'[c] = NoBucket
  <2>1. Tokens(c)' = Capacity
    BY <1>1, <1>5 DEF Tokens, Known
  <2>2. ASSUME HourRefills PROVE Tokens(c) = Capacity
    <3>1. buckets[c].tokens \in Nat /\ buckets[c].last \in Nat
          /\ buckets[c].last <= clock
      BY <1>5, ConstantsAssumption DEF TypeInv, TypeOK, TimesOK, Known, Bucket
    <3>. DEFINE e == clock - buckets[c].last
    <3>2. e \in Nat /\ SweepAge <= e
      BY <1>5, <3>1 DEF Stale
    <3>3. SweepAge * rate <= e * rate /\ e * rate \in Nat /\ SweepAge * rate \in Nat
      BY <3>2, ProductMonotone, ProductNat, ConstantsAssumption
    <3>4. Capacity <= e * rate
      BY <2>2, <3>3 DEF HourRefills
    <3>. QED
      BY <1>5, <3>1, <3>3, <3>4 DEF Tokens, Refill
  <2>. QED
    BY <2>1, <2>2
<1>. QED
  BY <1>2, <1>3, <1>4, <1>5

(* A bucket touched at this very time holds what was put into it.          *)
LEMMA TouchedTokens ==
    ASSUME TypeInv, NEW c \in Clients, NEW t \in 0..Capacity,
           buckets'[c] = [tokens |-> t, last |-> clock],
           clock' = clock, rate' = rate
    PROVE  Tokens(c)' = t
<1>1. [tokens |-> t, last |-> clock] # NoBucket
  BY RefillOK, CapacityOK, ConstantsAssumption
<1>2. Tokens(c)' = Refill(buckets[c])'
  BY <1>1 DEF Tokens, Known
<1>3. Refill(buckets[c])' = IF t + (clock - clock) * rate < Capacity
                            THEN t + (clock - clock) * rate ELSE Capacity
  BY DEF Refill, Capacity
<1>4. (clock - clock) * rate = 0
  BY RefillOK, OneMore
<1>. QED
  BY <1>2, <1>3, <1>4, CapacityOK

(* What happens to one client's budget when its request is allowed.        *)
LEMMA AllowSpends ==
    ASSUME TypeInv, NEW w \in Workers, Allow(w), NEW c \in Clients
    PROVE  /\ c # request[w] => /\ Tokens(c)' = Tokens(c)
                                /\ admitted'[c] = admitted[c]
           /\ c = request[w] => /\ Tokens(c)' = Tokens(c) - Cost
                                /\ Tokens(c) >= Cost
                                /\ admitted'[c] = Append(admitted[c], clock)
<1>. USE CapacityOK, RefillOK
<1>1. rate' = rate /\ clock' = clock /\ Capacity' = Capacity
      /\ request[w] \in Clients
  BY DEF Allow, TypeInv, TypeOK
<1>. DEFINE t == Tokens(request[w]) - Cost
<1>2. buckets'[c] = IF c = request[w] THEN [tokens |-> t, last |-> clock] ELSE buckets[c]
  BY DEF Allow, Touch, TypeInv, TypeOK
<1>3. admitted'[c] = IF c = request[w] THEN Append(admitted[c], clock) ELSE admitted[c]
  BY DEF Allow, TypeInv, TypeOK
<1>4. CASE c # request[w]
  BY <1>1, <1>2, <1>3, <1>4 DEF Tokens, Known, Refill
<1>5. CASE c = request[w]
  <2>1. Tokens(c) \in 0..Capacity /\ Tokens(c) >= Cost /\ clock \in Nat /\ rate \in Nat
    BY <1>5 DEF Allow
  <2>2. buckets'[c] = [tokens |-> Tokens(c) - Cost, last |-> clock]
    BY <1>2, <1>5
  <2>3. Tokens(c)' = Tokens(c) - Cost
    BY <1>1, <2>1, <2>2, TouchedTokens
  <2>. QED
    BY <1>3, <1>5, <2>1, <2>3
<1>. QED
  BY <1>4, <1>5

(* A refusal changes no client's budget.                                   *)
LEMMA DenyKeeps ==
    ASSUME TypeInv, NEW w \in Workers, Deny(w), NEW c \in Clients
    PROVE  Tokens(c)' = Tokens(c)
<1>. USE CapacityOK, RefillOK
<1>1. rate' = rate /\ clock' = clock /\ Capacity' = Capacity
      /\ request[w] \in Clients
  BY DEF Deny, TypeInv, TypeOK
<1>2. buckets'[c] = IF c = request[w] THEN [tokens |-> Tokens(c), last |-> clock]
                    ELSE buckets[c]
  BY DEF Deny, Touch, TypeInv, TypeOK
<1>3. CASE c # request[w]
  BY <1>1, <1>2, <1>3 DEF Tokens, Known, Refill
<1>4. CASE c = request[w]
  BY <1>1, <1>2, <1>4, TouchedTokens
<1>. QED
  BY <1>3, <1>4

(* An allowed request counts against every window of its client.           *)
LEMMA AllowCounts ==
    ASSUME TypeInv, NEW w \in Workers, Allow(w), NEW c \in Clients,
           c = request[w], NEW i \in DOMAIN admitted'[c]
    PROVE  \/ /\ i \in DOMAIN admitted[c]
              /\ Spent(c, i)' = Spent(c, i) + Cost
              /\ Earned(c, i)' = Earned(c, i)
              /\ admitted'[c][i] = admitted[c][i]
           \/ /\ i = Len(admitted[c]) + 1
              /\ Spent(c, i)' = Cost
              /\ Earned(c, i)' = 0
              /\ admitted'[c][i] = clock
<1>. DEFINE n == Len(admitted[c])
<1>1. admitted[c] \in Seq(0..MaxTime) /\ clock \in 0..MaxTime
      /\ rate' = rate /\ clock' = clock /\ rate \in Nat
  BY RefillOK DEF TypeInv, TypeOK, Allow
<1>2. admitted'[c] = Append(admitted[c], clock)
  BY AllowSpends
<1>3. n \in Nat /\ Len(admitted'[c]) = n + 1 /\ i \in 1..n + 1
  BY <1>1, <1>2
<1>4. CASE i \in 1..n
  <2>1. i \in DOMAIN admitted[c] /\ admitted'[c][i] = admitted[c][i]
    BY <1>1, <1>2, <1>4
  <2>2. (n + 1) - i + 1 = (n - i + 1) + 1 /\ n - i + 1 \in Int
    <3>1. n \in Int /\ i \in Int
      BY <1>3
    <3>. QED
      BY <3>1, Counting, Zenon
  <2>3. ((n - i + 1) + 1) * Cost = (n - i + 1) * Cost + Cost
    BY <2>2, OneMore, CapacityOK
  <2>4. Spent(c, i)' = Spent(c, i) + Cost
    BY <1>3, <2>2, <2>3, Zenon DEF Spent
  <2>. QED
    BY <1>1, <2>1, <2>4 DEF Earned
<1>5. CASE i = n + 1
  <2>1. admitted'[c][i] = clock
    BY <1>1, <1>2, <1>5
  <2>2. (n + 1) - i + 1 = 1 /\ clock - clock = 0
    BY <1>1, <1>3, <1>5
  <2>3. 1 * Cost = Cost /\ 0 * rate = 0
    BY <1>1, OneMore, CapacityOK
  <2>4. Spent(c, i)' = Cost
    BY <1>3, <2>2, <2>3, Zenon DEF Spent
  <2>5. Earned(c, i)' = 0
    BY <1>1, <2>1, <2>2, <2>3, Zenon DEF Earned
  <2>. QED
    BY <1>5, <2>1, <2>4, <2>5
<1>. QED
  BY <1>3, <1>4, <1>5

LEMMA LimitInit == Init => LimitInv
<1>. SUFFICES ASSUME Init PROVE LimitInv
  OBVIOUS
<1>1. TypeInv
  BY TypeInit
<1>2. \A c \in Clients : admitted[c] = <<>> /\ Tokens(c) = Capacity
  BY DEF Init, Tokens, Known
<1>. QED
  BY <1>1, <1>2 DEF LimitInv, BudgetOK, NothingLost, WindowBound

(* A step that neither moves the clock nor allows a request leaves every   *)
(* client's budget right if it keeps the client's tokens, or fills the     *)
(* bucket where an hour does not.                                          *)
LEMMA QuietStep ==
    ASSUME LimitInv, rate' = rate, clock' = clock, admitted' = admitted,
           \A c \in Clients : /\ Tokens(c)' = Tokens(c) \/ Tokens(c)' = Capacity
                              /\ HourRefills => Tokens(c)' = Tokens(c)
    PROVE  BudgetOK' /\ NothingLost' /\ WindowBound'
<1>1. Capacity' = Capacity /\ (HourRefills' <=> HourRefills)
  BY DEF Capacity, HourRefills
<1>2. ASSUME NEW c \in Clients, NEW i \in DOMAIN admitted[c]
      PROVE  Spent(c, i)' = Spent(c, i) /\ Earned(c, i)' = Earned(c, i)
  BY DEF Spent, Earned
<1>3. BudgetOK'
  BY <1>1, <1>2 DEF LimitInv, BudgetOK
<1>4. NothingLost'
  <2>. SUFFICES ASSUME NEW c \in Clients, Tokens(c)' # Capacity
       PROVE  \E i \in DOMAIN admitted[c] :
                 Tokens(c)' + Spent(c, i)' >= Capacity + Earned(c, i)'
    BY <1>1 DEF NothingLost
  <2>. QED
    BY <1>2 DEF LimitInv, NothingLost
<1>5. WindowBound'
  BY <1>1 DEF LimitInv, WindowBound
<1>. QED
  BY <1>3, <1>4, <1>5

(* Every step preserves the budget.                                        *)
LEMMA LimitStep == LimitInv /\ [Next]_vars => LimitInv'
<1>. SUFFICES ASSUME LimitInv, [Next]_vars PROVE LimitInv'
  OBVIOUS
<1>1. TypeInv /\ TypeInv' /\ BudgetOK /\ NothingLost /\ WindowBound
  BY TypeStep DEF LimitInv
<1>2. /\ rate' = rate /\ Capacity' = Capacity
      /\ (HourRefills' <=> HourRefills)
  BY DEF Next, vars, Tick, Arrive, Allow, Deny, Bypass, HourRefills, Capacity
<1>3. ASSUME NEW c \in Clients
      PROVE  Tokens(c) \in 0..Capacity /\ rate \in Nat /\ clock \in Nat
  BY <1>1, RefillOK
<1>4. CASE UNCHANGED vars
  <2>1. \A c \in Clients : Tokens(c)' = Tokens(c)
    BY <1>4 DEF vars, Tokens, Known, Refill, Capacity
  <2>. QED
    BY <1>1, <1>4, <2>1, QuietStep DEF vars, LimitInv
<1>5. CASE Tick
  <2>1. admitted' = admitted /\ clock' = clock + 1
    BY <1>5 DEF Tick
  <2>2. ASSUME NEW c \in Clients, NEW i \in DOMAIN admitted[c]
        PROVE  /\ Spent(c, i)' = Spent(c, i) /\ Earned(c, i)' = Earned(c, i) + rate
               /\ Spent(c, i) \in Nat /\ Earned(c, i) \in Nat
    <3>1. clock - admitted[c][i] \in Nat /\ admitted[c][i] \in Nat
          /\ Spent(c, i) \in Nat /\ Earned(c, i) \in Nat
      BY <1>1, SpentEarned
    <3>2. clock + 1 - admitted[c][i] = (clock - admitted[c][i]) + 1
      BY <1>3, <3>1
    <3>3. ((clock - admitted[c][i]) + 1) * rate = (clock - admitted[c][i]) * rate + rate
      BY <1>3, <3>1, OneMore
    <3>4. Earned(c, i)' = (clock + 1 - admitted[c][i]) * rate
      BY <1>2, <1>3, <2>1, <3>1 DEF Earned
    <3>5. Earned(c, i)' = Earned(c, i) + rate
      BY <3>2, <3>3, <3>4, Zenon DEF Earned
    <3>. QED
      BY <2>1, <3>1, <3>5 DEF Spent
  <2>3. ASSUME NEW c \in Clients
        PROVE  /\ Tokens(c)' <= Tokens(c) + rate
               /\ Tokens(c)' = Capacity \/ Tokens(c)' = Tokens(c) + rate
               /\ Tokens(c)' \in 0..Capacity
    BY <1>1, <1>5, TickAdds
  <2>4. BudgetOK'
    BY <1>1, <1>2, <1>3, <2>1, <2>2, <2>3, CapacityOK DEF BudgetOK
  <2>5. NothingLost'
    <3>. SUFFICES ASSUME NEW c \in Clients, Tokens(c)' # Capacity
         PROVE  \E i \in DOMAIN admitted[c] :
                   Tokens(c)' + Spent(c, i)' >= Capacity + Earned(c, i)'
      BY <1>2, <2>1 DEF NothingLost
    <3>1. Tokens(c) # Capacity /\ Tokens(c)' = Tokens(c) + rate
      BY <1>3, <2>3, CapacityOK
    <3>2. PICK i \in DOMAIN admitted[c] :
             Tokens(c) + Spent(c, i) >= Capacity + Earned(c, i)
      BY <1>1, <3>1 DEF NothingLost
    <3>. QED
      BY <1>3, <2>2, <3>1, <3>2, CapacityOK
  <2>6. WindowBound'
    BY <1>1, <1>2, <2>1 DEF WindowBound
  <2>. QED
    BY <1>1, <2>4, <2>5, <2>6 DEF LimitInv
<1>6. ASSUME NEW w \in Workers, Arrive(w) PROVE LimitInv'
  <2>1. rate' = rate /\ clock' = clock /\ admitted' = admitted
    BY <1>6 DEF Arrive
  <2>. QED
    BY <1>1, <1>6, <2>1, SweepKeeps, QuietStep DEF LimitInv
<1>7. ASSUME NEW w \in Workers, Allow(w), NEW r \in Clients, r = request[w]
      PROVE  LimitInv'
  <2>1. clock' = clock
    BY <1>7 DEF Allow
  <2>2. ASSUME NEW c \in Clients, c # r
        PROVE  /\ Tokens(c)' = Tokens(c) /\ admitted'[c] = admitted[c]
               /\ \A i \in DOMAIN admitted[c] :
                     Spent(c, i)' = Spent(c, i) /\ Earned(c, i)' = Earned(c, i)
    <3>1. Tokens(c)' = Tokens(c) /\ admitted'[c] = admitted[c]
      BY <1>1, <1>7, <2>2, AllowSpends
    <3>. QED
      BY <1>2, <2>1, <3>1 DEF Spent, Earned
  <2>3. Tokens(r)' = Tokens(r) - Cost /\ Tokens(r) >= Cost
    BY <1>1, <1>7, AllowSpends
  <2>4. ASSUME NEW i \in DOMAIN admitted'[r]
        PROVE  \/ /\ i \in DOMAIN admitted[r]
                  /\ Spent(r, i)' = Spent(r, i) + Cost
                  /\ Earned(r, i)' = Earned(r, i)
                  /\ Spent(r, i) \in Nat /\ Earned(r, i) \in Nat
                  /\ admitted'[r][i] = admitted[r][i]
               \/ /\ i = Len(admitted[r]) + 1
                  /\ Spent(r, i)' = Cost
                  /\ Earned(r, i)' = 0
                  /\ admitted'[r][i] = clock
    BY <1>1, <1>7, <2>3, <2>4, AllowCounts, SpentEarned
  <2>5. ASSUME HourRefills, NEW c \in Clients, NEW i \in DOMAIN admitted'[c]
        PROVE  Tokens(c)' + Spent(c, i)' <= Capacity + Earned(c, i)'
    <3>1. CASE c # r
      BY <1>1, <2>2, <2>5, <3>1 DEF BudgetOK
    <3>2. CASE c = r
      <4>1. \A k \in DOMAIN admitted[r] :
               Tokens(r) + Spent(r, k) <= Capacity + Earned(r, k)
        BY <1>1, <2>3, <2>5 DEF BudgetOK
      <4>. QED
        BY <1>3, <2>3, <2>4, <2>5, <3>2, <4>1, CapacityOK
    <3>. QED
      BY <3>1, <3>2
  <2>6. BudgetOK'
    BY <1>2, <2>5 DEF BudgetOK
  <2>7. NothingLost'
    <3>. SUFFICES ASSUME NEW c \in Clients, Tokens(c)' # Capacity
         PROVE  \E i \in DOMAIN admitted'[c] :
                   Tokens(c)' + Spent(c, i)' >= Capacity + Earned(c, i)'
      BY <1>2 DEF NothingLost
    <3>1. CASE c # r
      BY <1>1, <2>2, <3>1 DEF NothingLost
    <3>2. CASE c = r
      <4>1. admitted'[r] = Append(admitted[r], clock) /\ admitted[r] \in Seq(0..MaxTime)
            /\ clock \in 0..MaxTime
        BY <1>1, <1>7, <2>3, AllowSpends DEF TypeInv, TypeOK
      <4>2. Len(admitted[r]) \in Nat /\ DOMAIN admitted'[r] = 1..Len(admitted[r]) + 1
            /\ DOMAIN admitted[r] = 1..Len(admitted[r])
        BY <4>1
      <4>3. CASE Tokens(r) = Capacity
        <5>1. PICK k \in DOMAIN admitted'[r] : k \notin DOMAIN admitted[r]
          BY <4>2
        <5>2. Spent(r, k)' = Cost /\ Earned(r, k)' = 0
          BY <2>4, <5>1
        <5>3. Tokens(r)' + Spent(r, k)' >= Capacity + Earned(r, k)'
          BY <2>3, <4>3, <5>2, CapacityOK
        <5>. QED
          BY <3>2, <5>1, <5>3
      <4>4. CASE Tokens(r) # Capacity
        <5>1. PICK k \in DOMAIN admitted[r] :
                 Tokens(r) + Spent(r, k) >= Capacity + Earned(r, k)
          BY <1>1, <2>3, <4>4 DEF NothingLost
        <5>2. k \in DOMAIN admitted'[r] /\ k # Len(admitted[r]) + 1
          BY <4>2
        <5>3. Spent(r, k)' = Spent(r, k) + Cost /\ Earned(r, k)' = Earned(r, k)
              /\ Spent(r, k) \in Nat /\ Earned(r, k) \in Nat
          BY <2>4, <5>2
        <5>4. Tokens(r)' + Spent(r, k)' >= Capacity + Earned(r, k)'
          BY <1>3, <2>3, <5>1, <5>3, CapacityOK
        <5>. QED
          BY <3>2, <5>2, <5>4
      <4>. QED
        BY <4>3, <4>4
    <3>. QED
      BY <3>1, <3>2
  <2>8. ASSUME HourRefills, NEW c \in Clients,
               NEW i \in DOMAIN admitted'[c], NEW j \in DOMAIN admitted'[c], i <= j
        PROVE  (j - i + 1) * Cost <= Capacity + (admitted'[c][j] - admitted'[c][i]) * rate
    <3>1. CASE c # r \/ j \in DOMAIN admitted[c]
      <4>1. i \in DOMAIN admitted[c] /\ j \in DOMAIN admitted[c]
            /\ admitted'[c][i] = admitted[c][i] /\ admitted'[c][j] = admitted[c][j]
        <5>1. CASE c # r
          BY <2>2, <2>8, <5>1
        <5>2. CASE c = r /\ j \in DOMAIN admitted[c]
          <6>1. j \in 1..Len(admitted[r]) /\ Len(admitted[r]) \in Nat
            BY <1>1, <2>3, <5>2, SpentEarned
          <6>2. i # Len(admitted[r]) + 1 /\ j # Len(admitted[r]) + 1
            BY <2>8, <6>1, <2>4, <5>2
          <6>. QED
            BY <2>4, <2>8, <5>2, <6>2
        <5>. QED
          BY <3>1, <5>1, <5>2
      <4>. QED
        BY <1>1, <2>8, <4>1 DEF WindowBound
    <3>2. CASE c = r /\ j \notin DOMAIN admitted[c]
      <4>1. j = Len(admitted[r]) + 1 /\ admitted'[r][j] = clock
        BY <2>4, <2>8, <3>2
      <4>2. Len(admitted'[r]) = j
        BY <1>1, <1>7, <2>3, <4>1, AllowSpends DEF TypeInv, TypeOK
      <4>3. Spent(r, i)' = (j - i + 1) * Cost
            /\ Earned(r, i)' = (admitted'[r][j] - admitted'[r][i]) * rate
        BY <1>2, <2>1, <4>1, <4>2 DEF Spent, Earned
      <4>4. Spent(r, i)' \in Nat /\ Earned(r, i)' \in Nat
        BY <1>3, <2>3, <2>4, <2>8, <3>2, CapacityOK
      <4>5. Tokens(r)' + Spent(r, i)' <= Capacity + Earned(r, i)'
        BY <2>5, <2>8, <3>2
      <4>6. Tokens(r)' \in Nat
        BY <1>3, <2>3, CapacityOK
      <4>7. Spent(r, i)' <= Capacity + Earned(r, i)'
        BY <4>4, <4>5, <4>6, CapacityOK
      <4>. QED
        BY <3>2, <4>3, <4>7, Zenon
    <3>. QED
      BY <3>1, <3>2
  <2>9. WindowBound'
    BY <1>2, <2>8 DEF WindowBound
  <2>. QED
    BY <1>1, <2>6, <2>7, <2>9 DEF LimitInv
<1>8. ASSUME NEW w \in Workers, Deny(w) PROVE LimitInv'
  <2>1. rate' = rate /\ clock' = clock /\ admitted' = admitted
    BY <1>8 DEF Deny
  <2>. QED
    BY <1>1, <1>8, <2>1, DenyKeeps, QuietStep DEF LimitInv
<1>9. ASSUME NEW w \in Workers, Bypass(w) PROVE LimitInv'
  BY <1>4, <1>9 DEF Bypass
<1>10. \A w \in Workers : Allow(w) => request[w] \in Clients
  BY <1>1 DEF Allow, TypeInv, TypeOK
<1>. QED
  BY <1>4, <1>5, <1>6, <1>7, <1>8, <1>9, <1>10 DEF Next
----------------------------------------------------------------------------
(* In any window of time a client is allowed at most a burst and what the  *)
(* rate adds (allow), if an hour refills a bucket, whatever is swept and   *)
(* however requests interleave.                                            *)
THEOREM LimiterBound == Spec => []WindowBound
<1>1. LimitInv => WindowBound
  BY DEF LimitInv
<1>. QED
  BY LimitInit, LimitStep, <1>1, PTL DEF Spec

(* A request refused finds its client at the limit: nothing else than the  *)
(* client's own allowed requests (allow) has used up its bucket.           *)
LEMMA RefusedStep ==
    ASSUME LimitInv, [Next]_vars, NEW w \in Workers,
           request[w] # NoRequest, request'[w] = NoRequest, admitted' = admitted
    PROVE  AtLimit(request[w])
<1>1. TypeInv /\ NothingLost
  BY DEF LimitInv
<1>. DEFINE c == request[w]
<1>2. c \in Clients
  BY <1>1 DEF TypeInv, TypeOK
<1>3. Tokens(c) < Cost
  <2>1. CASE UNCHANGED vars \/ Tick
    BY <2>1 DEF vars, Tick
  <2>2. ASSUME NEW v \in Workers, Arrive(v) PROVE FALSE
    BY <1>1, <2>2, ConstantsAssumption DEF Arrive, TypeInv, TypeOK
  <2>3. ASSUME NEW v \in Workers, Allow(v) PROVE FALSE
    <3>1. request[v] \in Clients /\ admitted[request[v]] \in Seq(0..MaxTime)
          /\ clock \in 0..MaxTime
      BY <1>1, <2>3 DEF Allow, TypeInv, TypeOK
    <3>2. admitted'[request[v]] = Append(admitted[request[v]], clock)
      BY <1>1, <2>3, <3>1, AllowSpends
    <3>. QED
      BY <3>1, <3>2
  <2>4. ASSUME NEW v \in Workers, Deny(v) PROVE Tokens(c) < Cost
    <3>1. v = w
      BY <1>1, <2>4 DEF Deny, TypeInv, TypeOK
    <3>. QED
      BY <2>4, <3>1 DEF Deny
  <2>5. ASSUME NEW v \in Workers, Bypass(v) PROVE FALSE
    BY <2>5 DEF Bypass, vars
  <2>. QED
    BY <2>1, <2>2, <2>3, <2>4, <2>5 DEF Next
<1>4. Tokens(c) # Capacity /\ Tokens(c) \in Nat
  BY <1>1, <1>2, <1>3, RefillOK, CapacityOK
<1>5. PICK i \in DOMAIN admitted[c] :
         Tokens(c) + Spent(c, i) >= Capacity + Earned(c, i)
  BY <1>1, <1>2, <1>4 DEF NothingLost
<1>. DEFINE n == Len(admitted[c])
<1>6. Spent(c, i) \in Nat /\ Earned(c, i) \in Nat /\ n \in Nat /\ i \in 1..n
  BY <1>1, <1>2, SpentEarned
<1>7. Spent(c, i) + Cost > Capacity + Earned(c, i)
  BY <1>3, <1>4, <1>5, <1>6, CapacityOK
<1>8. (n - i + 2) * Cost = Spent(c, i) + Cost
  <2>1. n - i + 2 = (n - i + 1) + 1 /\ n - i + 1 \in Int
    <3>1. n \in Int /\ i \in Int
      BY <1>6
    <3>. QED
      BY <3>1, Counting, Zenon
  <2>2. ((n - i + 1) + 1) * Cost = (n - i + 1) * Cost + Cost
    BY <2>1, OneMore, CapacityOK
  <2>. QED
    BY <2>1, <2>2, Zenon DEF Spent
<1>. QED
  BY <1>7, <1>8, Zenon DEF AtLimit, Earned

(* Requests are refused only at the limit.                                 *)
THEOREM LimiterExact == Spec => RefusedOnlyAtLimit
<1>1. LimitInv /\ [Next]_vars
      => [\A w \in Workers :
             /\ request[w] # NoRequest /\ request'[w] = NoRequest
             /\ admitted' = admitted
             => AtLimit(request[w])]_vars
  BY RefusedStep
<1>. QED
  BY LimitInit, LimitStep, <1>1, PTL DEF Spec, RefusedOnlyAtLimit
=============================================================================
