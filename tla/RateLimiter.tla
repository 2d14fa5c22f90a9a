---------------------------- MODULE RateLimiter ----------------------------
(***************************************************************************)
(* The API's per-client rate limiter (src/ratelimit.rs): a token bucket    *)
(* per client, refilled when it is touched, and a sweep that forgets the   *)
(* buckets nobody has touched for an hour once there are many.  A request  *)
(* takes the lock twice, to sweep and to decide, and other requests come   *)
(* in between.                                                             *)
(*                                                                         *)
(* Tokens are counted in parts, Cost of them to a token, so that a tick of *)
(* the clock may refill a fraction of a token; f64 rounding is left out.   *)
(***************************************************************************)
EXTENDS Integers, Sequences, FiniteSets

CONSTANTS
    Clients,            \* client IPs
    Workers,            \* requests in flight
    Rates,              \* the rates RATE_LIMIT_RPS may set, in parts per tick
    Burst,              \* RATE_LIMIT_BURST
    Cost,               \* parts in a token
    SweepSize,          \* 10_000 in the code
    SweepAge,           \* an hour, in ticks
    MaxTime,            \* bound on the clock
    NoBucket, NoRequest

ASSUME ConstantsAssumption ==
    /\ Rates \subseteq Nat
    /\ Burst \in Nat /\ Cost \in Nat \ {0}
    /\ SweepSize \in Nat /\ SweepAge \in Nat /\ MaxTime \in Nat
    /\ NoBucket \notin [tokens : Int, last : Int]
    /\ NoRequest \notin Clients

VARIABLES
    rate,       \* the configured rate; 0 turns the limiter off
    clock,      \* Instant::now
    buckets,    \* the map: a bucket per client, or NoBucket
    request,    \* per worker: the client whose request has yet to be decided
    admitted    \* history: per client, the times its requests were allowed

vars == <<rate, clock, buckets, request, admitted>>

(* RateLimiter::new: a burst of zero counts as one.                        *)
Capacity == Cost * (IF Burst > 1 THEN Burst ELSE 1)

Init ==
    /\ rate \in Rates
    /\ clock = 0
    /\ buckets = [c \in Clients |-> NoBucket]
    /\ request = [w \in Workers |-> NoRequest]
    /\ admitted = [c \in Clients |-> <<>>]

Tick ==
    /\ clock < MaxTime
    /\ clock' = clock + 1
    /\ UNCHANGED <<rate, buckets, request, admitted>>

(* Faulty variant of Refill: the burst does not cap what is saved up.      *)
RefillUncapped(bucket) == bucket.tokens + (clock - bucket.last) * rate

(* What a bucket holds once the time since it was touched is credited.     *)
Refill(bucket) ==
    LET refilled == bucket.tokens + (clock - bucket.last) * rate
    IN  IF refilled < Capacity THEN refilled ELSE Capacity

Known == {c \in Clients : buckets[c] # NoBucket}

(* Faulty variant of Stale: a bucket is dropped a tick too early.          *)
StaleEarly(c) == clock - buckets[c].last >= SweepAge - 1

Stale(c) == clock - buckets[c].last >= SweepAge

(* sweep_if_large, the first of enforce's two critical sections.           *)
Arrive(w) ==
    /\ rate > 0
    /\ request[w] = NoRequest
    /\ \E c \in Clients : request' = [request EXCEPT ![w] = c]
    /\ buckets' = IF Cardinality(Known) < SweepSize THEN buckets
                  ELSE [c \in Clients |-> IF c \in Known /\ ~ Stale(c)
                                          THEN buckets[c] ELSE NoBucket]
    /\ UNCHANGED <<rate, clock, admitted>>

(* What the client's bucket holds now; a new client's is full.             *)
Tokens(c) == IF c \in Known THEN Refill(buckets[c]) ELSE Capacity

Touch(c, tokens) ==
    buckets' = [buckets EXCEPT ![c] = [tokens |-> tokens, last |-> clock]]

(* allow, the second critical section: a token is taken and the request    *)
(* goes on.                                                                *)
Allow(w) ==
    /\ request[w] # NoRequest
    /\ Tokens(request[w]) >= Cost
    /\ Touch(request[w], Tokens(request[w]) - Cost)
    /\ admitted' = [admitted EXCEPT ![request[w]] = Append(@, clock)]
    /\ request' = [request EXCEPT ![w] = NoRequest]
    /\ UNCHANGED <<rate, clock>>

(* Faulty variant of Deny: the time since the last touch is not credited.  *)
DenyForfeits(w) ==
    /\ request[w] # NoRequest
    /\ Tokens(request[w]) < Cost
    /\ Touch(request[w], buckets[request[w]].tokens)
    /\ request' = [request EXCEPT ![w] = NoRequest]
    /\ UNCHANGED <<rate, clock, admitted>>

(* allow without a token: 429, with the bucket refilled all the same.      *)
Deny(w) ==
    /\ request[w] # NoRequest
    /\ Tokens(request[w]) < Cost
    /\ Touch(request[w], Tokens(request[w]))
    /\ request' = [request EXCEPT ![w] = NoRequest]
    /\ UNCHANGED <<rate, clock, admitted>>

(* enforce with the limiter off: every request goes on, nothing is kept.   *)
Bypass(w) ==
    /\ rate = 0
    /\ request[w] = NoRequest
    /\ UNCHANGED vars

Next ==
    \/ Tick
    \/ \E w \in Workers : Arrive(w) \/ Allow(w) \/ Deny(w) \/ Bypass(w)

Spec == Init /\ [][Next]_vars
----------------------------------------------------------------------------
(* Properties.                                                             *)

Bucket == [tokens : 0..Capacity, last : 0..MaxTime]

(* The shape of the limiter's state.                                       *)
TypeOK ==
    /\ rate \in Rates
    /\ clock \in 0..MaxTime
    /\ buckets \in [Clients -> Bucket \cup {NoBucket}]
    /\ request \in [Workers -> Clients \cup {NoRequest}]
    /\ admitted \in [Clients -> Seq(0..MaxTime)]

(* An hour refills a bucket, so that forgetting one forgets nothing.       *)
HourRefills == Capacity <= SweepAge * rate

(* In any stretch of time a client is allowed at most a burst and what the *)
(* rate adds meanwhile, whatever other requests sweep in between, as long  *)
(* as an hour refills a bucket (RATE_LIMIT_BURST, config.rs:62-70).        *)
WindowBound ==
    HourRefills =>
       \A c \in Clients : \A i, j \in DOMAIN admitted[c] :
          i <= j => (j - i + 1) * Cost <= Capacity + (admitted[c][j] - admitted[c][i]) * rate

(* One request more and client c would exceed a burst and the rate.        *)
AtLimit(c) ==
    \E i \in DOMAIN admitted[c] :
       (Len(admitted[c]) - i + 2) * Cost > Capacity + (clock - admitted[c][i]) * rate

(* A client is refused only then: neither another client's requests, nor a *)
(* sweep, nor the client's own refused requests cost it a token.           *)
RefusedOnlyAtLimit ==
    [][\A w \in Workers :
          /\ request[w] # NoRequest /\ request'[w] = NoRequest
          /\ admitted' = admitted
          => AtLimit(request[w])]_vars
============================================================================
