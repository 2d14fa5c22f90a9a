--------------------------- MODULE PriceDiscovery ---------------------------
(***************************************************************************)
(* One call of ingest_prices (src/bin/ingest.rs): USD prices of the assets *)
(* that native XLM reaches through liquidity pools, hop by hop, each from  *)
(* the reserves of one pool and the price of its other asset.  A hop goes  *)
(* through the pools in the listing's order and, for each, through the     *)
(* priced assets in the order of a hash map, which is any order; what it   *)
(* finds is stored, in any order again, before the next hop.               *)
(*                                                                         *)
(* Assets are AssetIds (parse_pool_asset); a price is a fraction, in units *)
(* of XLM's; the rounding of Decimal is left out, its overflow is not.     *)
(***************************************************************************)
EXTENDS Integers, Sequences, FiniteSets

CONSTANTS
    Assets, XLM,
    Listings,       \* the pool listings Horizon may send
    MaxHops,        \* MAX_PRICE_HOPS, 4 in the code
    MaxPrice,       \* the largest price a Decimal holds
    Unreadable,     \* a pool whose reserves are missing or do not parse
    Unpriced

Pools == [a : Assets, ra : Nat, b : Assets, rb : Nat]

ASSUME ConstantsAssumption ==
    /\ XLM \in Assets
    /\ Listings \subseteq Seq(Pools \cup {Unreadable})
    /\ MaxHops \in Nat /\ MaxPrice \in Nat \ {0}
    /\ Unreadable \notin Pools
    /\ Unpriced \notin [num : Nat, den : Nat, hop : Nat] \cup [num : Nat, den : Nat, weight : Nat]

VARIABLES
    reserves,   \* the pools of the listing, in its order
    stage,      \* fetch, scan, store, done, failed or panicked
    hop,
    at,         \* the pool the scan is at
    known,      \* the priced assets the scan has yet to try on it
    newly,      \* what the hop has found: a price and its pool's depth
    priced,     \* the map of prices, and the hop each was found in
    rows        \* the rows written to asset_prices, in their order

vars == <<reserves, stage, hop, at, known, newly, priced, rows>>

Priced == {a \in Assets : priced[a] # Unpriced}
Found  == {a \in Assets : newly[a] # Unpriced}

Nothing == [a \in Assets |-> Unpriced]

Readable(pool) == pool # Unreadable

Init ==
    /\ reserves \in Listings
    /\ stage = "fetch"
    /\ hop = 0 /\ at = 1 /\ known = {}
    /\ newly = Nothing /\ priced = Nothing
    /\ rows = <<>>
----------------------------------------------------------------------------
(* price_from_known_leg.                                                   *)

(* The legs of a pool as asset and reserve; a pool that cannot be read is  *)
(* left out.                                                               *)
Legs(pool) ==
    IF Readable(pool)
    THEN {[asset |-> pool.a, amount |-> pool.ra, other |-> pool.b, against |-> pool.rb],
          [asset |-> pool.b, amount |-> pool.rb, other |-> pool.a, against |-> pool.ra]}
    ELSE {}

(* The leg a known asset prices: not in a pool of one asset with itself,   *)
(* nor with nothing of the other asset in it.                              *)
Prices(k, leg) == leg.other = k /\ leg.asset # k /\ leg.amount # 0

(* Faulty variant of Ratio: the two reserves are swapped.                  *)
RatioInverted(k, leg) ==
    [num |-> leg.amount * priced[k].num, den |-> leg.against * priced[k].den]

Ratio(k, leg) ==
    [num |-> leg.against * priced[k].num, den |-> leg.amount * priced[k].den]

(* A Decimal does not hold the reserves' quotient, or its product with the *)
(* known price.                                                            *)
Overflows(k, leg) ==
    \/ leg.against > MaxPrice * leg.amount
    \/ Ratio(k, leg).num > MaxPrice * Ratio(k, leg).den

Offer(k, leg) ==
    [num |-> Ratio(k, leg).num, den |-> Ratio(k, leg).den, weight |-> leg.against]
----------------------------------------------------------------------------
(* ingest_prices.                                                          *)

(* The feed's price of XLM is stored and starts the search.                *)
Fetch ==
    /\ stage = "fetch"
    /\ priced' = [priced EXCEPT ![XLM] = [num |-> 1, den |-> 1, hop |-> 0]]
    /\ rows' = <<XLM>>
    /\ known' = {XLM}
    /\ stage' = IF MaxHops = 0 THEN "done" ELSE "scan"
    /\ UNCHANGED <<reserves, hop, at, newly>>

(* The feed or an insert fails: ingest_prices returns the error.           *)
Fails ==
    /\ stage \in {"fetch", "store"}
    /\ stage' = "failed"
    /\ UNCHANGED <<reserves, hop, at, known, newly, priced, rows>>

(* The offers of the pool at hand, seen from one priced asset.             *)
OffersOf(k) == {leg \in Legs(reserves[at]) : Prices(k, leg)}

(* Faulty variant of Better: the later of two equally deep pools wins.     *)
BetterOrEqual(leg) == newly[leg.asset] = Unpriced \/ leg.against >= newly[leg.asset].weight

(* The deepest pool by its reserve of the known asset, the first on ties.  *)
Better(leg) == newly[leg.asset] = Unpriced \/ leg.against > newly[leg.asset].weight

(* Faulty variant of Take: an asset may be priced again in a later hop.    *)
TakeAgain(k, leg) ==
    newly' = IF Better(leg) THEN [newly EXCEPT ![leg.asset] = Offer(k, leg)] ELSE newly

Take(k, leg) ==
    newly' = IF leg.asset \notin Priced /\ Better(leg)
             THEN [newly EXCEPT ![leg.asset] = Offer(k, leg)] ELSE newly

(* One turn of the inner loop.                                             *)
Try(k) ==
    /\ stage = "scan" /\ at <= Len(reserves)
    /\ k \in known
    /\ known' = known \ {k}
    /\ IF OffersOf(k) = {}
       THEN newly' = newly
       ELSE \E leg \in OffersOf(k) : ~ Overflows(k, leg) /\ Take(k, leg)
    /\ UNCHANGED <<reserves, stage, hop, at, priced, rows>>

(* The division or the multiplication overflows: the process ends.         *)
Panic(k) ==
    /\ stage = "scan" /\ at <= Len(reserves)
    /\ k \in known
    /\ \E leg \in OffersOf(k) : Overflows(k, leg)
    /\ stage' = "panicked"
    /\ UNCHANGED <<reserves, hop, at, known, newly, priced, rows>>

NextPool ==
    /\ stage = "scan" /\ at <= Len(reserves)
    /\ known = {}
    /\ at' = at + 1
    /\ known' = Priced
    /\ UNCHANGED <<reserves, stage, hop, newly, priced, rows>>

ScanDone ==
    /\ stage = "scan" /\ at > Len(reserves)
    /\ stage' = IF Found = {} THEN "done" ELSE "store"
    /\ UNCHANGED <<reserves, hop, at, known, newly, priced, rows>>

(* A row is written and the price enters the map.                          *)
Store(a) ==
    /\ stage = "store"
    /\ a \in Found
    /\ rows' = Append(rows, a)
    /\ priced' = [priced EXCEPT ![a] =
                    [num |-> newly[a].num, den |-> newly[a].den, hop |-> hop + 1]]
    /\ newly' = [newly EXCEPT ![a] = Unpriced]
    /\ UNCHANGED <<reserves, stage, hop, at, known>>

(* Faulty variant of NextHop: one hop too many.                            *)
NextHopMore ==
    /\ stage = "store" /\ Found = {}
    /\ hop' = hop + 1
    /\ stage' = IF hop + 1 <= MaxHops THEN "scan" ELSE "done"
    /\ at' = 1 /\ known' = Priced
    /\ UNCHANGED <<reserves, newly, priced, rows>>

NextHop ==
    /\ stage = "store" /\ Found = {}
    /\ hop' = hop + 1
    /\ stage' = IF hop + 1 < MaxHops THEN "scan" ELSE "done"
    /\ at' = 1 /\ known' = Priced
    /\ UNCHANGED <<reserves, newly, priced, rows>>

Next ==
    \/ Fetch \/ Fails
    \/ \E k \in Assets : Try(k) \/ Panic(k) \/ Store(k)
    \/ NextPool \/ ScanDone \/ NextHop

Spec == Init /\ [][Next]_vars
----------------------------------------------------------------------------
(* Properties.                                                             *)

Price == [num : Nat, den : Nat \ {0}, hop : 0..MaxHops]

TypeOK ==
    /\ reserves \in Seq(Pools \cup {Unreadable})
    /\ stage \in {"fetch", "scan", "store", "done", "failed", "panicked"}
    /\ hop \in 0..MaxHops
    /\ at \in 1..(Len(reserves) + 1)
    /\ known \subseteq Assets
    /\ newly \in [Assets -> [num : Nat, den : Nat \ {0}, weight : Nat] \cup {Unpriced}]
    /\ priced \in [Assets -> Price \cup {Unpriced}]
    /\ rows \in Seq(Assets)

(* Price p of a leg's asset is what the pool and a price q of its other    *)
(* asset make it: both legs are worth the same.                            *)
Balanced(p, q, leg) == p.num * leg.amount * q.den = q.num * leg.against * p.den

(* Every price but XLM's rests on a pool with reserves of both assets, in  *)
(* which it balances the price of an asset found in an earlier hop, so     *)
(* that in the end it rests on XLM's; no price is found in the hop that    *)
(* uses it, and none is ever derived from itself ("purely from real        *)
(* reserve ratios - never guessed", ingest.rs:240-247).                    *)
RoutesAreReal ==
    /\ XLM \in Priced => priced[XLM] = [num |-> 1, den |-> 1, hop |-> 0]
    /\ \A a \in Priced \ {XLM} :
          \E i \in DOMAIN reserves : \E leg \in Legs(reserves[i]) :
             /\ leg.asset = a /\ leg.other \in Priced \ {a} /\ leg.amount # 0
             /\ priced[leg.other].hop < priced[a].hop
             /\ Balanced(priced[a], priced[leg.other], leg)

(* Each asset has one row, however many pools reach it: the rows of a      *)
(* cycle are what the map holds.                                           *)
OneRowEach ==
    /\ {rows[i] : i \in DOMAIN rows} = Priced
    /\ \A i, j \in DOMAIN rows : rows[i] = rows[j] => i = j

(* A leg with reserves links an asset to another one in S.                 *)
Joins(leg, a, S) == leg.asset = a /\ leg.other \in S \ {a} /\ leg.amount # 0

(* The reference: the assets within n pools of XLM...                      *)
WithinIn(pools) ==
    LET within[n \in 0..MaxHops] ==
            IF n = 0 THEN {XLM}
            ELSE within[n - 1] \cup
                 {a \in Assets : \E i \in DOMAIN pools : \E leg \in Legs(pools[i]) :
                     Joins(leg, a, within[n - 1])}
    IN  within

Within == WithinIn(reserves)

(* ...and the pool each is priced from: of those that link it to the       *)
(* assets within n - 1, the deepest, and of these the first.               *)
Links(a, n) ==
    {i \in DOMAIN reserves : \E leg \in Legs(reserves[i]) : Joins(leg, a, Within[n - 1])}

LegOf(i, a) == CHOOSE leg \in Legs(reserves[i]) : leg.asset = a

Deepest(a, n) ==
    CHOOSE i \in Links(a, n) : \A j \in Links(a, n) :
       LET d == LegOf(i, a).against  e == LegOf(j, a).against
       IN  d > e \/ (d = e /\ i <= j)

(* Whatever the order of the hash maps, a call that ends well has priced   *)
(* exactly the assets within MaxHops pools of XLM, each in the hop of its  *)
(* distance and from the deepest pool of that distance, the first in the   *)
(* listing on ties (ingest.rs:273-314).                                    *)
AsReference ==
    stage = "done" =>
       /\ Priced = Within[MaxHops]
       /\ \A a \in Priced \ {XLM} :
             LET n   == priced[a].hop
                 leg == LegOf(Deepest(a, n), a)
             IN  /\ a \in Within[n] \ Within[n - 1]
                 /\ Balanced(priced[a], priced[leg.other], leg)
=============================================================================
