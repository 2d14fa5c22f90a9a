----------------------- MODULE PriceDiscovery_proofs -----------------------
(***************************************************************************)
(* Proofs about PriceDiscovery for every listing of pools, every bound on  *)
(* the hops and every order of the hash maps: each price rests on a real   *)
(* pool and a price found in an earlier hop, each asset has one row, and   *)
(* a call that ends well has priced what the reference says.               *)
(***************************************************************************)
EXTENDS PriceDiscovery, Recursion, TLAPS

Leg == [asset : Assets, amount : Nat, other : Assets, against : Nat]

(* What a hop has found rests, as RoutesAreReal asks of a price, on a leg  *)
(* and a price known before the hop.                                       *)
Rests(a) ==
    \E i \in DOMAIN reserves : \E leg \in Legs(reserves[i]) :
       /\ leg.asset = a /\ leg.other \in Priced \ {a} /\ leg.amount # 0
       /\ priced[leg.other].hop <= hop
       /\ Balanced(newly[a], priced[leg.other], leg)

FoundRests == \A a \in Found : a \notin Priced /\ Rests(a)

(* Prices known to a scan are of this hop or an earlier one.               *)
ScanOK ==
    /\ known \subseteq Priced
    /\ stage \in {"scan", "store"} => XLM \in Priced /\ hop < MaxHops
    /\ stage = "scan" => \A a \in Priced : priced[a].hop <= hop
    /\ stage = "fetch" => Priced = {} /\ Found = {} /\ hop = 0

(* Prices stored are of this hop's end or an earlier one.                  *)
StoreOK == stage = "store" => \A a \in Priced : priced[a].hop <= hop + 1

Inv == TypeOK /\ ScanOK /\ StoreOK /\ FoundRests /\ RoutesAreReal /\ OneRowEach
----------------------------------------------------------------------------
(* Arithmetic of ratios.                                                   *)

LEMMA ProductPositive ==
    ASSUME NEW m \in Nat, NEW n \in Nat, m # 0, n # 0
    PROVE  m * n \in Nat /\ m * n # 0
  BY SMTT(30)

LEMMA ProductNat == ASSUME NEW m \in Nat, NEW n \in Nat PROVE m * n \in Nat
  BY SMTT(30)

LEMMA Rearranged ==
    ASSUME NEW x \in Nat, NEW y \in Nat, NEW z \in Nat, NEW u \in Nat
    PROVE  (x * y) * z * u = y * x * (z * u)
  BY SMTT(30)

(* A price made from a leg balances it.                                    *)
LEMMA RatioBalances ==
    ASSUME NEW leg \in Leg, NEW k \in Assets, priced[k] \in Price
    PROVE  /\ Ratio(k, leg).num = leg.against * priced[k].num
           /\ Ratio(k, leg).den = leg.amount * priced[k].den
           /\ Ratio(k, leg).num \in Nat
           /\ leg.amount # 0 => Ratio(k, leg).den \in Nat \ {0}
           /\ Balanced(Ratio(k, leg), priced[k], leg)
<1>1. /\ leg.against \in Nat /\ leg.amount \in Nat
      /\ priced[k].num \in Nat /\ priced[k].den \in Nat /\ priced[k].den # 0
  BY DEF Leg, Price
<1>2. /\ Ratio(k, leg).num = leg.against * priced[k].num
      /\ Ratio(k, leg).den = leg.amount * priced[k].den
  BY SMT DEF Ratio
<1>3. Ratio(k, leg).num \in Nat
  BY <1>1, <1>2, ProductNat, Zenon
<1>4. leg.amount # 0 => Ratio(k, leg).den \in Nat /\ Ratio(k, leg).den # 0
  BY <1>1, <1>2, ProductPositive, Zenon
<1>5. (leg.against * priced[k].num) * leg.amount * priced[k].den
      = priced[k].num * leg.against * (leg.amount * priced[k].den)
  BY <1>1, Rearranged, SMTT(30)
<1>6. Balanced(Ratio(k, leg), priced[k], leg)
  BY <1>2, <1>5, Zenon DEF Balanced
<1>. QED
  BY <1>2, <1>3, <1>4, <1>6
----------------------------------------------------------------------------
(* Pools and prices.                                                       *)

LEMMA LegTypes ==
    ASSUME TypeOK, NEW i \in DOMAIN reserves, NEW leg \in Legs(reserves[i])
    PROVE  leg \in Leg
<1>1. reserves[i] \in Pools
  BY DEF TypeOK, Legs, Readable
<1>. QED
  BY <1>1 DEF Legs, Pools, Leg

LEMMA PricedTypes ==
    ASSUME TypeOK, NEW a \in Priced
    PROVE  priced[a] \in Price /\ priced[a].hop \in Nat
<1>1. priced[a] \in Price
  BY DEF TypeOK, Priced
<1>. QED
  BY <1>1, ConstantsAssumption DEF Price

LEMMA PriceNotUnpriced ==
    /\ Unpriced \notin Price
<1>. QED
  BY ConstantsAssumption DEF Price

(* A step that leaves the map and the listing alone keeps the routes...    *)
LEMMA RoutesKept ==
    ASSUME RoutesAreReal, OneRowEach, UNCHANGED <<reserves, priced, rows>>
    PROVE  RoutesAreReal' /\ OneRowEach' /\ Priced' = Priced
<1>1. Priced' = Priced
  BY DEF Priced
<1>. QED
  BY <1>1 DEF RoutesAreReal, OneRowEach, Balanced

(* ...and one that finds nothing either, what was found.                   *)
LEMMA FoundKept ==
    ASSUME FoundRests, UNCHANGED <<reserves, priced, newly, hop>>
    PROVE  FoundRests' /\ Found' = Found
<1>1. Priced' = Priced /\ Found' = Found
  BY DEF Priced, Found
<1>. QED
  BY <1>1 DEF FoundRests, Rests, Balanced

LEMMA InvInit == Init => Inv
<1>. SUFFICES ASSUME Init PROVE Inv
  OBVIOUS
<1>1. /\ priced = Nothing /\ newly = Nothing /\ rows = <<>> /\ known = {}
      /\ hop = 0 /\ at = 1 /\ stage = "fetch" /\ reserves \in Listings
  BY DEF Init
<1>2. Priced = {} /\ Found = {}
  BY <1>1 DEF Priced, Found, Nothing
<1>3. TypeOK
  BY <1>1, ConstantsAssumption DEF TypeOK, Nothing
<1>4. RoutesAreReal /\ OneRowEach
  BY <1>1, <1>2 DEF RoutesAreReal, OneRowEach
<1>. QED
  BY <1>1, <1>2, <1>3, <1>4 DEF Inv, ScanOK, StoreOK, FoundRests

(* A better offer of the pool at hand.                                     *)
LEMMA OfferRests ==
    ASSUME Inv, NEW k \in known, stage = "scan", at <= Len(reserves),
           NEW leg \in OffersOf(k), leg.asset \notin Priced,
           newly' = [newly EXCEPT ![leg.asset] = Offer(k, leg)],
           UNCHANGED <<reserves, priced, hop>>
    PROVE  /\ newly' \in [Assets -> [num : Nat, den : Nat \ {0}, weight : Nat] \cup {Unpriced}]
           /\ FoundRests'
<1>0. TypeOK /\ ScanOK /\ FoundRests
  BY DEF Inv
<1>1. at \in DOMAIN reserves /\ leg \in Legs(reserves[at]) /\ Prices(k, leg)
  BY <1>0 DEF TypeOK, OffersOf
<1>2. leg \in Leg
  BY <1>0, <1>1, LegTypes
<1>3. k \in Priced /\ k \in Assets /\ priced[k] \in Price /\ priced[k].hop <= hop
  BY <1>0, PricedTypes DEF ScanOK, Priced
<1>4. /\ leg.other = k /\ leg.asset # k /\ leg.amount # 0 /\ leg.asset \in Assets
      /\ leg.against \in Nat
  BY <1>1, <1>2 DEF Prices, Leg
<1>5. /\ Offer(k, leg).num = Ratio(k, leg).num /\ Offer(k, leg).den = Ratio(k, leg).den
      /\ Offer(k, leg) = [num |-> Ratio(k, leg).num, den |-> Ratio(k, leg).den,
                          weight |-> leg.against]
  BY DEF Offer
<1>6. Ratio(k, leg).num \in Nat /\ Ratio(k, leg).den \in Nat \ {0}
  BY <1>2, <1>3, <1>4, RatioBalances
<1>7. Offer(k, leg) \in [num : Nat, den : Nat \ {0}, weight : Nat]
  BY <1>4, <1>5, <1>6
<1>8. Balanced(Offer(k, leg), priced[k], leg)
  <2>1. Balanced(Ratio(k, leg), priced[k], leg)
    BY <1>2, <1>3, RatioBalances
  <2>. QED
    BY <1>5, <2>1, Zenon DEF Balanced
<1>9. /\ \A b \in Assets : newly'[b] = IF b = leg.asset THEN Offer(k, leg) ELSE newly[b]
      /\ newly' \in [Assets -> [num : Nat, den : Nat \ {0}, weight : Nat] \cup {Unpriced}]
  BY <1>0, <1>7, <1>4 DEF TypeOK
<1>10. Priced' = Priced
  BY DEF Priced
<1>11. ASSUME NEW b \in Found' PROVE b \notin Priced' /\ Rests(b)'
  <2>1. CASE b = leg.asset
    <3>1. Balanced(newly'[b], priced'[leg.other], leg)
      BY <1>4, <1>8, <1>9, <2>1
    <3>2. priced'[leg.other].hop <= hop' /\ leg.other \in Priced' \ {b}
      BY <1>3, <1>4, <1>10, <2>1
    <3>. QED
      BY <1>1, <1>4, <1>10, <2>1, <3>1, <3>2 DEF Rests, Balanced
  <2>2. CASE b # leg.asset
    <3>1. b \in Found /\ newly'[b] = newly[b]
      BY <1>9, <1>11, <2>2 DEF Found
    <3>2. b \notin Priced /\ Rests(b)
      BY <1>0, <3>1 DEF FoundRests
    <3>. QED
      BY <1>10, <3>1, <3>2 DEF Rests, Balanced
  <2>. QED
    BY <2>1, <2>2
<1>. QED
  BY <1>9, <1>11 DEF FoundRests

(* What a hop has found enters the map.                                    *)
LEMMA StoreKeeps ==
    ASSUME Inv, NEW a \in Assets, Store(a)
    PROVE  Inv'
<1>0. TypeOK /\ ScanOK /\ StoreOK /\ FoundRests /\ RoutesAreReal /\ OneRowEach
  BY DEF Inv
<1>. DEFINE p == [num |-> newly[a].num, den |-> newly[a].den, hop |-> hop + 1]
<1>1. /\ stage = "store" /\ a \in Found
      /\ rows' = Append(rows, a)
      /\ priced' = [priced EXCEPT ![a] = p]
      /\ newly' = [newly EXCEPT ![a] = Unpriced]
      /\ UNCHANGED <<reserves, stage, hop, at, known>>
  BY DEF Store
<1>2. a \notin Priced /\ Rests(a) /\ XLM \in Priced /\ hop < MaxHops /\ hop \in Nat
      /\ MaxHops \in Nat
  BY <1>0, <1>1, ConstantsAssumption DEF FoundRests, ScanOK, TypeOK
<1>3. newly[a].num \in Nat /\ newly[a].den \in Nat \ {0}
  BY <1>0, <1>1 DEF Found, TypeOK
<1>4. p \in Price /\ p # Unpriced
  <2>1. hop + 1 \in 0..MaxHops
    BY <1>2
  <2>2. p \in Price
    BY <1>3, <2>1 DEF Price
  <2>. QED
    BY <2>2, PriceNotUnpriced
<1>. HIDE DEF p
<1>5. /\ \A b \in Assets : priced'[b] = IF b = a THEN p ELSE priced[b]
      /\ \A b \in Assets : newly'[b] = IF b = a THEN Unpriced ELSE newly[b]
      /\ priced' \in [Assets -> Price \cup {Unpriced}]
      /\ newly' \in [Assets -> [num : Nat, den : Nat \ {0}, weight : Nat] \cup {Unpriced}]
  BY <1>0, <1>1, <1>4 DEF TypeOK
<1>6. Priced' = Priced \cup {a} /\ Found' = Found \ {a}
  BY <1>4, <1>5 DEF Priced, Found
<1>7. p.num = newly[a].num /\ p.den = newly[a].den /\ p.hop = hop + 1
  BY DEF p
<1>8. TypeOK'
  BY <1>0, <1>1, <1>5 DEF TypeOK
<1>9. FoundRests'
  <2>. SUFFICES ASSUME NEW b \in Found' PROVE b \notin Priced' /\ Rests(b)'
    BY DEF FoundRests
  <2>1. b \in Found /\ b # a /\ b \in Assets
    BY <1>6 DEF Found
  <2>2. newly'[b] = newly[b] /\ b \notin Priced' /\ Rests(b)
    BY <1>0, <1>5, <1>6, <2>1 DEF FoundRests
  <2>3. PICK i \in DOMAIN reserves : \E leg \in Legs(reserves[i]) :
           /\ leg.asset = b /\ leg.other \in Priced \ {b} /\ leg.amount # 0
           /\ priced[leg.other].hop <= hop
           /\ Balanced(newly[b], priced[leg.other], leg)
    BY <2>2 DEF Rests
  <2>4. PICK leg \in Legs(reserves[i]) :
           /\ leg.asset = b /\ leg.other \in Priced \ {b} /\ leg.amount # 0
           /\ priced[leg.other].hop <= hop
           /\ Balanced(newly[b], priced[leg.other], leg)
    BY <2>3
  <2>5. priced'[leg.other] = priced[leg.other] /\ leg.other \in Priced' \ {b}
    BY <1>2, <1>5, <1>6, <2>4 DEF Priced
  <2>6. Balanced(newly'[b], priced'[leg.other], leg) /\ priced'[leg.other].hop <= hop'
    BY <1>1, <2>2, <2>4, <2>5
  <2>. QED
    BY <1>1, <2>2, <2>4, <2>5, <2>6 DEF Rests, Balanced
<1>10. RoutesAreReal'
  <2>1. XLM \in Priced' => priced'[XLM] = [num |-> 1, den |-> 1, hop |-> 0]
    BY <1>0, <1>2, <1>5, ConstantsAssumption DEF RoutesAreReal
  <2>2. ASSUME NEW b \in Priced' \ {XLM}
        PROVE  \E i \in DOMAIN reserves : \E leg \in Legs(reserves[i]) :
                  /\ leg.asset = b /\ leg.other \in Priced' \ {b} /\ leg.amount # 0
                  /\ priced'[leg.other].hop < priced'[b].hop
                  /\ Balanced(priced'[b], priced'[leg.other], leg)
    <3>1. CASE b = a
      <4>1. PICK i \in DOMAIN reserves : \E leg \in Legs(reserves[i]) :
               /\ leg.asset = a /\ leg.other \in Priced \ {a} /\ leg.amount # 0
               /\ priced[leg.other].hop <= hop
               /\ Balanced(newly[a], priced[leg.other], leg)
        BY <1>2 DEF Rests
      <4>2. PICK leg \in Legs(reserves[i]) :
               /\ leg.asset = a /\ leg.other \in Priced \ {a} /\ leg.amount # 0
               /\ priced[leg.other].hop <= hop
               /\ Balanced(newly[a], priced[leg.other], leg)
        BY <4>1
      <4>3. priced'[leg.other] = priced[leg.other] /\ leg.other \in Priced' \ {a}
        BY <1>2, <1>5, <1>6, <4>2 DEF Priced
      <4>4. priced'[b] = p /\ Balanced(p, priced[leg.other], leg)
        BY <1>5, <1>7, <3>1, <4>2, Zenon DEF Balanced
      <4>5. priced[leg.other].hop < p.hop
        BY <1>0, <1>2, <1>7, <4>2, PricedTypes
      <4>. QED
        BY <3>1, <4>2, <4>3, <4>4, <4>5
    <3>2. CASE b # a
      <4>1. b \in Priced \ {XLM} /\ priced'[b] = priced[b]
        BY <1>5, <1>6, <2>2, <3>2 DEF Priced
      <4>2. PICK i \in DOMAIN reserves : \E leg \in Legs(reserves[i]) :
               /\ leg.asset = b /\ leg.other \in Priced \ {b} /\ leg.amount # 0
               /\ priced[leg.other].hop < priced[b].hop
               /\ Balanced(priced[b], priced[leg.other], leg)
        BY <1>0, <4>1 DEF RoutesAreReal
      <4>3. PICK leg \in Legs(reserves[i]) :
               /\ leg.asset = b /\ leg.other \in Priced \ {b} /\ leg.amount # 0
               /\ priced[leg.other].hop < priced[b].hop
               /\ Balanced(priced[b], priced[leg.other], leg)
        BY <4>2
      <4>4. priced'[leg.other] = priced[leg.other] /\ leg.other \in Priced' \ {b}
        BY <1>2, <1>5, <1>6, <4>3 DEF Priced
      <4>. QED
        BY <4>1, <4>3, <4>4
    <3>. QED
      BY <3>1, <3>2
  <2>. QED
    BY <1>1, <2>1, <2>2 DEF RoutesAreReal, Balanced
<1>11. OneRowEach'
  <2>1. /\ DOMAIN rows' = 1..(Len(rows) + 1)
        /\ \A i \in DOMAIN rows' : IF i = Len(rows) + 1
              THEN rows'[i] = a ELSE i \in DOMAIN rows /\ rows'[i] = rows[i]
        /\ \A i \in DOMAIN rows : i \in DOMAIN rows' /\ rows'[i] = rows[i]
        /\ Len(rows) + 1 \in DOMAIN rows'
    BY <1>0, <1>1 DEF TypeOK
  <2>2. /\ \A i \in DOMAIN rows : rows[i] \in Priced /\ rows[i] # a
        /\ \A b \in Priced : \E i \in DOMAIN rows : rows[i] = b
    BY <1>0, <1>2 DEF OneRowEach
  <2>3. \A b : b \in {rows'[i] : i \in DOMAIN rows'} <=> b \in Priced'
    BY <1>6, <2>1, <2>2
  <2>4. \A i, j \in DOMAIN rows' : rows'[i] = rows'[j] => i = j
    BY <1>0, <2>1, <2>2 DEF OneRowEach
  <2>5. {rows'[i] : i \in DOMAIN rows'} = Priced'
    BY <2>3
  <2>. QED
    BY <2>4, <2>5 DEF OneRowEach
<1>12. ScanOK'
  BY <1>0, <1>1, <1>6 DEF ScanOK
<1>13. StoreOK'
  <2>. SUFFICES ASSUME NEW b \in Priced' PROVE priced'[b].hop <= hop' + 1
    BY DEF StoreOK
  <2>1. CASE b = a
    BY <1>1, <1>2, <1>5, <1>7, <2>1
  <2>2. CASE b # a
    BY <1>0, <1>1, <1>5, <1>6, <2>2 DEF StoreOK, Priced
  <2>. QED
    BY <2>1, <2>2
<1>. QED
  BY <1>8, <1>9, <1>10, <1>11, <1>12, <1>13 DEF Inv

LEMMA InvStep == Inv /\ [Next]_vars => Inv'
<1>. SUFFICES ASSUME Inv, [Next]_vars PROVE Inv'
  OBVIOUS
<1>. USE ConstantsAssumption
<1>0. TypeOK /\ ScanOK /\ StoreOK /\ FoundRests /\ RoutesAreReal /\ OneRowEach
  BY DEF Inv
<1>1. CASE UNCHANGED vars
  <2>1. UNCHANGED <<reserves, stage, hop, at, known, newly, priced, rows>>
    BY <1>1 DEF vars
  <2>. QED
    BY <1>0, <2>1, RoutesKept, FoundKept DEF Inv, TypeOK, ScanOK, StoreOK
<1>2. CASE Fetch
  <2>. DEFINE p == [num |-> 1, den |-> 1, hop |-> 0]
  <2>1. /\ stage = "fetch" /\ priced' = [priced EXCEPT ![XLM] = p]
        /\ rows' = <<XLM>> /\ known' = {XLM}
        /\ stage' = IF MaxHops = 0 THEN "done" ELSE "scan"
        /\ UNCHANGED <<reserves, hop, at, newly>>
        /\ Priced = {} /\ Found = {}
    BY <1>0, <1>2 DEF Fetch, ScanOK
  <2>2. p \in Price /\ p # Unpriced
    <3>1. p \in Price
      BY DEF Price
    <3>. QED
      BY <3>1, PriceNotUnpriced
  <2>3. priced' \in [Assets -> Price \cup {Unpriced}]
        /\ \A b \in Assets : priced'[b] = IF b = XLM THEN p ELSE priced[b]
    BY <1>0, <2>1, <2>2 DEF TypeOK
  <2>4. Priced' = {XLM} /\ Found' = {}
    BY <2>1, <2>2, <2>3 DEF Priced, Found
  <2>5. TypeOK'
    BY <1>0, <2>1, <2>3 DEF TypeOK
  <2>6. RoutesAreReal' /\ OneRowEach'
    BY <2>1, <2>3, <2>4 DEF RoutesAreReal, OneRowEach
  <2>7. hop = 0
    BY <1>0, <2>1 DEF ScanOK
  <2>8. ScanOK' /\ StoreOK'
    BY <1>0, <2>1, <2>3, <2>4, <2>7 DEF ScanOK, StoreOK, TypeOK
  <2>. QED
    BY <2>4, <2>5, <2>6, <2>8 DEF Inv, FoundRests
<1>3. CASE Fails
  <2>1. /\ stage' = "failed" /\ UNCHANGED <<reserves, hop, at, known, newly, priced, rows>>
    BY <1>3 DEF Fails
  <2>. QED
    BY <1>0, <2>1, RoutesKept, FoundKept DEF Inv, TypeOK, ScanOK, StoreOK
<1>4. ASSUME NEW k \in Assets, Panic(k) PROVE Inv'
  <2>1. /\ stage' = "panicked" /\ UNCHANGED <<reserves, hop, at, known, newly, priced, rows>>
    BY <1>4 DEF Panic
  <2>. QED
    BY <1>0, <2>1, RoutesKept, FoundKept DEF Inv, TypeOK, ScanOK, StoreOK
<1>5. ASSUME NEW k \in Assets, Try(k) PROVE Inv'
  <2>1. /\ stage = "scan" /\ at <= Len(reserves) /\ k \in known /\ known' = known \ {k}
        /\ UNCHANGED <<reserves, stage, hop, at, priced, rows>>
    BY <1>5 DEF Try
  <2>2. \/ newly' = newly
        \/ \E leg \in OffersOf(k) :
              leg.asset \notin Priced /\ newly' = [newly EXCEPT ![leg.asset] = Offer(k, leg)]
    BY <1>5 DEF Try, Take
  <2>3. newly' \in [Assets -> [num : Nat, den : Nat \ {0}, weight : Nat] \cup {Unpriced}]
        /\ FoundRests'
    <3>1. ASSUME newly' = newly
          PROVE  newly' \in [Assets -> [num : Nat, den : Nat \ {0}, weight : Nat]
                                       \cup {Unpriced}]
                 /\ FoundRests'
      BY <1>0, <2>1, <3>1, FoundKept DEF TypeOK
    <3>. QED
      BY <2>1, <2>2, <3>1, OfferRests
  <2>4. Priced' = Priced /\ RoutesAreReal' /\ OneRowEach'
    BY <1>0, <2>1, RoutesKept
  <2>5. TypeOK'
    BY <1>0, <2>1, <2>3 DEF TypeOK
  <2>6. ScanOK' /\ StoreOK'
    BY <1>0, <2>1, <2>4 DEF ScanOK, StoreOK
  <2>. QED
    BY <2>3, <2>4, <2>5, <2>6 DEF Inv
<1>6. CASE NextPool
  <2>1. /\ stage = "scan" /\ at <= Len(reserves) /\ at' = at + 1 /\ known' = Priced
        /\ UNCHANGED <<reserves, stage, hop, newly, priced, rows>>
    BY <1>6 DEF NextPool
  <2>2. at' \in 1..(Len(reserves') + 1)
    BY <1>0, <2>1 DEF TypeOK
  <2>3. Priced \subseteq Assets
    BY DEF Priced
  <2>4. TypeOK'
    BY <1>0, <2>1, <2>2, <2>3 DEF TypeOK
  <2>. QED
    BY <1>0, <2>1, <2>4, RoutesKept, FoundKept DEF Inv, ScanOK, StoreOK
<1>7. CASE ScanDone
  <2>1. /\ stage = "scan" /\ stage' \in {"done", "store"}
        /\ UNCHANGED <<reserves, hop, at, known, newly, priced, rows>>
    BY <1>7 DEF ScanDone
  <2>2. Priced' = Priced /\ RoutesAreReal' /\ OneRowEach' /\ FoundRests'
    BY <1>0, <2>1, RoutesKept, FoundKept
  <2>3. StoreOK'
    <3>. SUFFICES ASSUME NEW a \in Priced PROVE priced[a].hop <= hop + 1
      BY <2>1, <2>2 DEF StoreOK
    <3>1. priced[a].hop \in Nat /\ hop \in Nat /\ priced[a].hop <= hop
      BY <1>0, <2>1, PricedTypes DEF ScanOK, TypeOK
    <3>. QED
      BY <3>1
  <2>. QED
    BY <1>0, <2>1, <2>2, <2>3 DEF Inv, TypeOK, ScanOK
<1>8. ASSUME NEW a \in Assets, Store(a) PROVE Inv'
  BY <1>8, StoreKeeps
<1>9. CASE NextHop
  <2>1. /\ stage = "store" /\ Found = {} /\ hop' = hop + 1
        /\ stage' = IF hop + 1 < MaxHops THEN "scan" ELSE "done"
        /\ at' = 1 /\ known' = Priced /\ UNCHANGED <<reserves, newly, priced, rows>>
    BY <1>9 DEF NextHop
  <2>2. Priced' = Priced /\ RoutesAreReal' /\ OneRowEach' /\ Found' = {}
    BY <1>0, <2>1, RoutesKept DEF Found
  <2>3. hop' \in 0..MaxHops
    BY <1>0, <2>1 DEF ScanOK, TypeOK
  <2>4. Priced \subseteq Assets
    BY DEF Priced
  <2>5. TypeOK'
    BY <1>0, <2>1, <2>3, <2>4 DEF TypeOK
  <2>6. ScanOK' /\ StoreOK'
    BY <1>0, <2>1, <2>2 DEF ScanOK, StoreOK
  <2>. QED
    BY <2>2, <2>5, <2>6 DEF Inv, FoundRests
<1>. QED
  BY <1>1, <1>2, <1>3, <1>4, <1>5, <1>6, <1>7, <1>8, <1>9 DEF Next

(* The search keeps its types: prices have a denominator, hops stay within *)
(* MaxHops (ingest_prices, ingest.rs:248-314).                             *)
THEOREM PriceTypes == Spec => []TypeOK
<1>1. Inv => TypeOK
  BY DEF Inv
<1>. QED
  BY InvInit, InvStep, <1>1, PTL DEF Spec

(* For every listing and every order of the hash maps, a price rests on a  *)
(* real pool and the price of an asset found in an earlier hop (ingest.rs, *)
(* 240-247).                                                               *)
THEOREM PricesAreReal == Spec => []RoutesAreReal
<1>1. Inv => RoutesAreReal
  BY DEF Inv
<1>. QED
  BY InvInit, InvStep, <1>1, PTL DEF Spec

(* Each asset priced has exactly one row in a cycle (ingest.rs:305-313).   *)
THEOREM PricedOnce == Spec => []OneRowEach
<1>1. Inv => OneRowEach
  BY DEF Inv
<1>. QED
  BY InvInit, InvStep, <1>1, PTL DEF Spec
----------------------------------------------------------------------------
(***************************************************************************)
(* That a call does what the reference says.  A pool has been seen, from   *)
(* the assets within the hops done, when the scan has passed it; the pool  *)
(* at hand, from those of them that have been tried on it.                 *)
(***************************************************************************)

Seen ==
    [j \in DOMAIN reserves |->
        IF j < at THEN Within[hop] ELSE IF j = at THEN Within[hop] \ known ELSE {}]

Everywhere(S) == [j \in DOMAIN reserves |-> S]

NoLink(a, seen) ==
    \A j \in DOMAIN reserves : \A e \in Legs(reserves[j]) : ~ Joins(e, a, seen[j])

(* Leg of pool i is the deepest that links a to what has been seen, and    *)
(* the first of these.                                                     *)
Best(a, seen, i, leg) ==
    /\ Joins(leg, a, seen[i])
    /\ \A j \in DOMAIN reserves : \A e \in Legs(reserves[j]) :
          Joins(e, a, seen[j]) =>
             leg.against > e.against \/ (leg.against = e.against /\ i <= j)

PricedBy(p, a, seen, i, leg) ==
    Best(a, seen, i, leg) /\ leg.other \in Priced /\ Balanced(p, priced[leg.other], leg)

FoundBy(a, seen) ==
    \E i \in DOMAIN reserves : \E leg \in Legs(reserves[i]) :
       PricedBy(newly[a], a, seen, i, leg) /\ newly[a].weight = leg.against

(* Each price is the reference's.                                          *)
PricedOK ==
    \A a \in Priced \ {XLM} :
       LET n == priced[a].hop
       IN  /\ n \in 1..MaxHops /\ a \in Within[n] \ Within[n - 1]
           /\ \E i \in DOMAIN reserves : \E leg \in Legs(reserves[i]) :
                 PricedBy(priced[a], a, Everywhere(Within[n - 1]), i, leg)

(* Each stage has reached what it should: the scan has found of each asset *)
(* the best link seen so far, the store those of the hop.                  *)
ReachOK ==
    /\ stage = "fetch" => at = 1
    /\ stage = "scan" =>
          /\ Priced = Within[hop]
          /\ \A a \in Assets \ Priced :
                IF newly[a] = Unpriced THEN NoLink(a, Seen) ELSE FoundBy(a, Seen)
    /\ stage = "store" =>
          /\ Within[hop] \subseteq Priced
          /\ Priced \cup Found = Within[hop + 1]
          /\ \A a \in Found : FoundBy(a, Everywhere(Within[hop]))
    /\ stage = "done" => Priced = Within[MaxHops]

RefInv == PricedOK /\ ReachOK
----------------------------------------------------------------------------
(* The reference's own facts.                                              *)

(* The assets a pool links to S.                                           *)
Linked(pools, S) ==
    {a \in Assets : \E i \in DOMAIN pools : \E leg \in Legs(pools[i]) : Joins(leg, a, S)}

(* WithinIn is the function its recursive definition describes.            *)
LEMMA WithinSteps ==
    ASSUME NEW pools
    PROVE  /\ WithinIn(pools)[0] = {XLM}
           /\ \A n \in 0..MaxHops : WithinIn(pools)[n] \subseteq Assets
           /\ \A n \in 1..MaxHops :
                 WithinIn(pools)[n]
                 = WithinIn(pools)[n - 1] \cup Linked(pools, WithinIn(pools)[n - 1])
<1>. DEFINE X == SUBSET Assets
            Step(S) == S \cup Linked(pools, S)
            h == [n \in 1..MaxHops |-> [S \in X |-> Step(S)]]
            Def(f) == f = [n \in 0..MaxHops |-> IF n = 0 THEN {XLM} ELSE Step(f[n - 1])]
            within == CHOOSE f : Def(f)
<1>1. MaxHops \in Nat /\ {XLM} \in X
  BY ConstantsAssumption
<1>2. ASSUME NEW S \in X PROVE Step(S) \in X
  BY DEF Linked
<1>3. h \in [1..MaxHops -> [X -> X]]
  BY <1>2
<1>4. PICK g \in [0..MaxHops -> X] :
         g[0] = {XLM} /\ \A n \in 1..MaxHops : g[n] = h[n][g[n - 1]]
  <2>. HIDE DEF h, X
  <2>1. HasIteration(MaxHops, X, {XLM}, h)
    BY <1>1, <1>3, Iteration
  <2>. QED
    BY <2>1 DEF HasIteration
<1>5. ASSUME NEW n \in 0..MaxHops
      PROVE  g[n] = IF n = 0 THEN {XLM} ELSE Step(g[n - 1])
  <2>1. CASE n = 0
    BY <1>4, <2>1
  <2>2. CASE n # 0
    <3>1. n \in 1..MaxHops /\ n - 1 \in 0..MaxHops
      BY <1>1, <2>2
    <3>2. g[n] = h[n][g[n - 1]] /\ g[n - 1] \in X
      BY <1>4, <3>1
    <3>. HIDE DEF X, Step
    <3>. QED
      BY <2>2, <3>1, <3>2
  <2>. QED
    BY <2>1, <2>2
<1>6. Def(g)
  <2>. HIDE DEF Step
  <2>. QED
    BY <1>4, <1>5
<1>7. Def(within)
  BY <1>6
<1>8. WithinIn(pools) = within
  BY DEF WithinIn, Linked
<1>9. within[0] = {XLM} /\ \A n \in 1..MaxHops : within[n] = Step(within[n - 1])
  <2>. HIDE DEF within, Step
  <2>1. \A n \in 0..MaxHops : within[n] = IF n = 0 THEN {XLM} ELSE Step(within[n - 1])
    BY <1>7
  <2>2. 0 \in 0..MaxHops /\ \A n \in 1..MaxHops : n \in 0..MaxHops /\ n # 0
    BY <1>1
  <2>. QED
    BY <2>1, <2>2
<1>10. \A n \in 0..MaxHops : within[n] \in X
  <2>. DEFINE Bad == {n \in 0..MaxHops : within[n] \notin X}
  <2>. SUFFICES ASSUME Bad # {} PROVE FALSE
    OBVIOUS
  <2>. HIDE DEF within, Step, X
  <2>1. PICK n \in Bad : \A m \in Bad : n <= m
    <3>1. Bad \subseteq Nat
      BY <1>1
    <3>. HIDE DEF Bad
    <3>. QED
      BY <3>1, LeastNat
  <2>2. n \in 0..MaxHops /\ n # 0
    BY <1>1, <1>9
  <2>3. n - 1 \in 0..MaxHops /\ n - 1 \notin Bad
    BY <1>1, <2>1, <2>2
  <2>. QED
    BY <1>2, <1>9, <2>2, <2>3
<1>. QED
  BY <1>8, <1>9, <1>10

(* A hop that links nothing new is the last that matters.                  *)
LEMMA Stalls ==
    ASSUME NEW pools, NEW h \in 0..MaxHops,
           Linked(pools, WithinIn(pools)[h]) \subseteq WithinIn(pools)[h]
    PROVE  WithinIn(pools)[MaxHops] = WithinIn(pools)[h]
<1>. DEFINE W == WithinIn(pools)
            More == {n \in h..MaxHops : W[n] # W[h]}
<1>0. MaxHops \in Nat /\ MaxHops \in h..MaxHops
  BY ConstantsAssumption
<1>1. More = {}
  <2>. SUFFICES ASSUME More # {} PROVE FALSE
    OBVIOUS
  <2>1. PICK n \in More : \A m \in More : n <= m
    <3>1. More \subseteq Nat
      BY <1>0
    <3>. HIDE DEF More
    <3>. QED
      BY <3>1, LeastNat
  <2>2. n \in h..MaxHops /\ n # h /\ W[n] # W[h]
    OBVIOUS
  <2>3. n \in 1..MaxHops /\ n - 1 \in h..MaxHops /\ n - 1 \notin More
    <3>1. n \in 1..MaxHops /\ n - 1 \in h..MaxHops /\ ~ (n <= n - 1)
      BY <1>0, <2>2
    <3>. HIDE DEF More
    <3>. QED
      BY <2>1, <3>1
  <2>4. W[n - 1] = W[h]
    BY <2>3
  <2>5. W[n] = W[n - 1] \cup Linked(pools, W[n - 1])
    BY <2>3, WithinSteps
  <2>. QED
    BY <2>2, <2>4, <2>5
<1>. QED
  BY <1>0, <1>1

(* A step that leaves the listing alone leaves the reference alone.        *)
LEMMA WithinKept == UNCHANGED reserves => Within' = Within
  BY DEF Within, WithinIn, Joins, Legs, Readable

(* A pool links an asset to another one by one leg at most.                *)
LEMMA OneLeg ==
    ASSUME NEW pool, NEW a, NEW leg \in Legs(pool), NEW e \in Legs(pool),
           leg.asset = a, leg.other # a, e.asset = a
    PROVE  e = leg
  BY DEF Legs

LEMMA OneOffer ==
    ASSUME NEW pool, NEW k, NEW leg \in Legs(pool), NEW e \in Legs(pool),
           Prices(k, leg), e.other = k, e.asset # k
    PROVE  e = leg
  BY DEF Legs, Prices

LEMMA PoolsAt ==
    ASSUME TypeOK
    PROVE  /\ Len(reserves) \in Nat /\ DOMAIN reserves = 1..Len(reserves)
           /\ at \in 1..(Len(reserves) + 1) /\ hop \in Nat /\ MaxHops \in Nat
           /\ Priced \subseteq Assets /\ Found \subseteq Assets
  BY ConstantsAssumption DEF TypeOK, Priced, Found

(* What was found, seen from a step that leaves it and the map alone.      *)
LEMMA FoundByKept ==
    ASSUME UNCHANGED <<reserves, priced>>, NEW a, newly'[a] = newly[a],
           NEW seen, FoundBy(a, seen)
    PROVE  FoundBy(a, seen)'
  BY DEF FoundBy, PricedBy, Best, Balanced, Priced, Legs, Readable, Joins

LEMMA PricedKept ==
    ASSUME PricedOK, UNCHANGED <<reserves, priced>>
    PROVE  PricedOK'
<1>1. Within' = Within /\ Priced' = Priced
  BY WithinKept DEF Priced
<1>. QED
  BY <1>1 DEF PricedOK, PricedBy, Best, Everywhere, Balanced

LEMMA RefInit == Init => RefInv
<1>. SUFFICES ASSUME Init PROVE RefInv
  OBVIOUS
<1>1. Priced = {} /\ stage = "fetch" /\ at = 1
  BY DEF Init, Priced, Nothing
<1>. QED
  BY <1>1 DEF RefInv, PricedOK, ReachOK

(* The first prices are those of XLM's own distance.                       *)
LEMMA RefFetch ==
    ASSUME Inv, RefInv, Fetch
    PROVE  RefInv'
<1>0. TypeOK /\ ScanOK /\ ReachOK
  BY DEF Inv, RefInv
<1>1. /\ stage = "fetch" /\ hop = 0 /\ Priced = {} /\ Found = {} /\ at = 1
      /\ priced' = [priced EXCEPT ![XLM] = [num |-> 1, den |-> 1, hop |-> 0]]
      /\ known' = {XLM} /\ stage' = IF MaxHops = 0 THEN "done" ELSE "scan"
      /\ UNCHANGED <<reserves, hop, at, newly>>
  BY <1>0 DEF Fetch, ScanOK, ReachOK
<1>2. Priced' = {XLM}
  <2>1. [num |-> 1, den |-> 1, hop |-> 0] \in Price
    BY ConstantsAssumption DEF Price
  <2>2. [num |-> 1, den |-> 1, hop |-> 0] # Unpriced
    BY <2>1, PriceNotUnpriced
  <2>. QED
    BY <1>0, <1>1, <2>2, ConstantsAssumption DEF Priced, TypeOK
<1>3. Within' = Within /\ Within[0] = {XLM}
  BY <1>1, WithinKept, WithinSteps DEF Within
<1>4. PricedOK'
  BY <1>2 DEF PricedOK
<1>5. \A a \in Assets : newly'[a] = Unpriced
  BY <1>1 DEF Found
<1>6. \A j \in DOMAIN reserves : Seen'[j] = {}
  BY <1>0, <1>1, <1>3, PoolsAt DEF Seen
<1>7. \A a : NoLink(a, Seen)'
  BY <1>1, <1>6 DEF NoLink, Joins
<1>8. ReachOK'
  BY <1>1, <1>2, <1>3, <1>5, <1>7 DEF ReachOK
<1>. QED
  BY <1>4, <1>8 DEF RefInv

(* A turn of the inner loop takes what the pool offers when it is better.  *)
LEMMA RefTry ==
    ASSUME Inv, RefInv, NEW k \in Assets, Try(k)
    PROVE  RefInv'
<1>0. TypeOK /\ ScanOK /\ ReachOK /\ PricedOK
  BY DEF Inv, RefInv
<1>1. /\ stage = "scan" /\ at <= Len(reserves) /\ k \in known /\ known' = known \ {k}
      /\ UNCHANGED <<reserves, stage, hop, at, priced>>
  BY DEF Try
<1>2. Within' = Within /\ Priced' = Priced /\ Priced = Within[hop]
  BY <1>0, <1>1, WithinKept DEF Priced, ReachOK
<1>3. k \in Priced /\ at \in DOMAIN reserves /\ DOMAIN reserves = 1..Len(reserves)
  BY <1>0, <1>1, PoolsAt DEF ScanOK
<1>4. PICK s : s = Seen
  OBVIOUS
<1>5. PICK t : t = Seen'
  OBVIOUS
<1>6. /\ \A j \in DOMAIN reserves : j # at => t[j] = s[j]
      /\ k \notin s[at] /\ t[at] = s[at] \cup {k}
      /\ \A j \in DOMAIN reserves : s[j] # {} => j <= at
      /\ \A j \in DOMAIN reserves : s[j] \subseteq Priced
  BY <1>1, <1>2, <1>3, <1>4, <1>5 DEF Seen
(* Only an offer of the pool is a new link.                                *)
<1>7. ASSUME NEW a \in Assets \ Priced, NEW j \in DOMAIN reserves,
             NEW e \in Legs(reserves[j])
      PROVE  Joins(e, a, t[j]) <=> \/ Joins(e, a, s[j])
                                   \/ j = at /\ e.asset = a /\ e \in OffersOf(k)
  BY <1>3, <1>6 DEF Joins, OffersOf, Prices
<1>8. \A a \in Assets \ Priced : IF newly[a] = Unpriced THEN NoLink(a, s) ELSE FoundBy(a, s)
  BY <1>0, <1>1, <1>4 DEF ReachOK
<1>9. ASSUME NEW a \in Assets \ Priced, newly'[a] = newly[a],
             \A e \in OffersOf(k) : e.asset # a
      PROVE  IF newly'[a] = Unpriced THEN NoLink(a, t)' ELSE FoundBy(a, t)'
  <2>1. \A j \in DOMAIN reserves : \A e \in Legs(reserves[j]) :
           Joins(e, a, t[j]) <=> Joins(e, a, s[j])
    BY <1>7, <1>9
  <2>2. CASE newly[a] = Unpriced
    <3>1. NoLink(a, t)
      BY <1>8, <2>1, <2>2 DEF NoLink
    <3>. QED
      BY <1>1, <1>9, <2>2, <3>1 DEF NoLink
  <2>3. CASE newly[a] # Unpriced
    <3>1. FoundBy(a, t)
      BY <1>8, <2>1, <2>3 DEF FoundBy, PricedBy, Best
    <3>. QED
      BY <1>1, <1>9, <2>3, <3>1, FoundByKept
  <2>. QED
    BY <2>2, <2>3
<1>10. ASSUME NEW a \in Assets \ Priced
       PROVE  IF newly'[a] = Unpriced THEN NoLink(a, t)' ELSE FoundBy(a, t)'
  <2>1. CASE OffersOf(k) = {}
    BY <1>9, <2>1 DEF Try
  <2>2. CASE OffersOf(k) # {}
    <3>1. PICK leg \in OffersOf(k) : Take(k, leg)
      BY <2>2 DEF Try
    <3>2. leg \in Legs(reserves[at]) /\ Prices(k, leg)
      BY DEF OffersOf
    <3>3. \A e \in OffersOf(k) : e = leg
      BY <3>2, OneOffer DEF OffersOf, Prices
    <3>4. leg \in Leg
      BY <1>0, <1>3, <3>2, LegTypes
    <3>5. CASE leg.asset # a
      <4>1. newly'[a] = newly[a]
        BY <1>0, <3>1, <3>4, <3>5 DEF Take, TypeOK, Leg
      <4>. QED
        BY <1>9, <3>3, <3>5, <4>1
    <3>6. CASE leg.asset = a
      <4>1. Joins(leg, a, t[at])
        BY <1>3, <1>7, <3>2, <3>6
      <4>2. leg.against \in Nat /\ at \in Nat
        BY <1>3, <3>4 DEF Leg
      <4>3. CASE Better(leg)
        <5>1. newly'[a] = Offer(k, leg)
          BY <1>0, <3>1, <3>6, <4>3 DEF Take, TypeOK
        <5>2. Best(a, t, at, leg)
          <6>. SUFFICES ASSUME NEW j \in DOMAIN reserves, NEW e \in Legs(reserves[j]),
                               Joins(e, a, t[j])
                        PROVE  leg.against > e.against
                               \/ (leg.against = e.against /\ at <= j)
            BY <4>1 DEF Best
          <6>1. CASE j = at /\ e \in OffersOf(k)
            BY <3>3, <4>2, <6>1
          <6>2. CASE ~ (j = at /\ e \in OffersOf(k))
            <7>1. Joins(e, a, s[j])
              BY <1>7, <6>2
            <7>2. newly[a] # Unpriced /\ FoundBy(a, s)
              BY <1>8, <7>1 DEF NoLink
            <7>3. PICK i \in DOMAIN reserves : \E g \in Legs(reserves[i]) :
                     Best(a, s, i, g) /\ newly[a].weight = g.against
              BY <7>2 DEF FoundBy, PricedBy
            <7>4. PICK g \in Legs(reserves[i]) :
                     Best(a, s, i, g) /\ newly[a].weight = g.against
              BY <7>3
            <7>5. leg.against > g.against
              BY <3>6, <4>3, <7>2, <7>4 DEF Better
            <7>6. g.against \in Nat /\ e.against \in Nat
              BY <1>0, LegTypes DEF Leg
            <7>7. g.against > e.against \/ g.against = e.against
              BY <7>1, <7>4 DEF Best
            <7>. QED
              BY <4>2, <7>5, <7>6, <7>7
          <6>. QED
            BY <6>1, <6>2
        <5>3. Balanced(Offer(k, leg), priced[k], leg) /\ Offer(k, leg).weight = leg.against
          <6>1. priced[k] \in Price
            BY <1>0, <1>3, PricedTypes
          <6>2. Balanced(Ratio(k, leg), priced[k], leg)
            BY <3>4, <6>1, RatioBalances
          <6>. QED
            BY <6>2 DEF Balanced, Offer
        <5>4. leg.other = k /\ k \in Priced
          BY <1>3, <3>2 DEF Prices
        <5>5. Offer(k, leg) # Unpriced
          <6>1. priced[k] \in Price /\ leg.amount # 0
            BY <1>0, <1>3, <3>2, PricedTypes DEF Prices
          <6>2. Ratio(k, leg).num \in Nat /\ Ratio(k, leg).den \in Nat
            BY <3>4, <6>1, RatioBalances
          <6>3. Offer(k, leg) \in [num : Nat, den : Nat, weight : Nat]
            BY <4>2, <6>2 DEF Offer
          <6>. QED
            BY <6>3, ConstantsAssumption
        <5>6. FoundBy(a, t)'
          BY <1>1, <1>2, <1>3, <3>2, <5>1, <5>2, <5>3, <5>4
             DEF FoundBy, PricedBy, Best, Balanced, Joins, Legs, Readable
        <5>. QED
          BY <5>1, <5>5, <5>6
      <4>4. CASE ~ Better(leg)
        <5>1. newly'[a] = newly[a] /\ newly[a] # Unpriced
          BY <3>1, <3>6, <4>4 DEF Take, Better
        <5>2. PICK i \in DOMAIN reserves : \E g \in Legs(reserves[i]) :
                 PricedBy(newly[a], a, s, i, g) /\ newly[a].weight = g.against
          BY <1>8, <5>1 DEF FoundBy
        <5>3. PICK g \in Legs(reserves[i]) :
                 PricedBy(newly[a], a, s, i, g) /\ newly[a].weight = g.against
          BY <5>2
        <5>4. g.against \in Nat /\ leg.against <= g.against
          <6>1. g.against \in Nat
            BY <1>0, LegTypes DEF Leg
          <6>. QED
            BY <3>6, <4>2, <4>4, <5>1, <5>3, <6>1 DEF Better
        <5>5. i <= at
          BY <1>6, <5>3 DEF PricedBy, Best, Joins
        <5>6. Best(a, t, i, g)
          <6>1. Joins(g, a, t[i])
            BY <1>7, <5>3 DEF PricedBy, Best
          <6>. SUFFICES ASSUME NEW j \in DOMAIN reserves, NEW e \in Legs(reserves[j]),
                               Joins(e, a, t[j])
                        PROVE  g.against > e.against
                               \/ (g.against = e.against /\ i <= j)
            BY <6>1 DEF Best
          <6>2. CASE j = at /\ e \in OffersOf(k)
            BY <3>3, <4>2, <5>4, <5>5, <6>2
          <6>3. CASE ~ (j = at /\ e \in OffersOf(k))
            BY <1>7, <5>3, <6>3 DEF PricedBy, Best
          <6>. QED
            BY <6>2, <6>3
        <5>7. FoundBy(a, t)
          BY <5>3, <5>6 DEF FoundBy, PricedBy
        <5>. QED
          BY <1>1, <5>1, <5>7, FoundByKept
      <4>. QED
        BY <4>3, <4>4
    <3>. QED
      BY <3>5, <3>6
  <2>. QED
    BY <2>1, <2>2
<1>11. ReachOK'
  BY <1>1, <1>2, <1>5, <1>10 DEF ReachOK
<1>12. PricedOK'
  BY <1>0, <1>1, PricedKept
<1>. QED
  BY <1>11, <1>12 DEF RefInv

(* The next pool has been seen from no asset yet.                          *)
LEMMA RefNextPool ==
    ASSUME Inv, RefInv, NextPool
    PROVE  RefInv'
<1>0. TypeOK /\ ScanOK /\ ReachOK /\ PricedOK
  BY DEF Inv, RefInv
<1>1. /\ stage = "scan" /\ at <= Len(reserves) /\ known = {}
      /\ at' = at + 1 /\ known' = Priced
      /\ UNCHANGED <<reserves, stage, hop, newly, priced>>
  BY DEF NextPool
<1>2. Within' = Within /\ Priced' = Priced /\ Priced = Within[hop]
  BY <1>0, <1>1, WithinKept DEF Priced, ReachOK
<1>3. PICK s : s = Seen
  OBVIOUS
<1>4. s = Seen'
  <2>1. \A j \in DOMAIN reserves :
           (IF j < at THEN Within[hop] ELSE IF j = at THEN Within[hop] \ known ELSE {})
           = (IF j < at + 1 THEN Within[hop]
              ELSE IF j = at + 1 THEN Within[hop] \ Priced ELSE {})
    <3>1. Within[hop] \ known = Within[hop] /\ Within[hop] \ Priced = {}
      BY <1>1, <1>2
    <3>2. \A j \in DOMAIN reserves : (j < at + 1 <=> j < at \/ j = at) /\ ~ (j < at /\ j = at)
      BY <1>0, PoolsAt
    <3>. QED
      BY <3>1, <3>2
  <2>. QED
    BY <1>1, <1>2, <1>3, <2>1 DEF Seen
<1>5. ASSUME NEW a \in Assets \ Priced
      PROVE  IF newly'[a] = Unpriced THEN NoLink(a, s)' ELSE FoundBy(a, s)'
  <2>1. IF newly[a] = Unpriced THEN NoLink(a, s) ELSE FoundBy(a, s)
    BY <1>0, <1>1, <1>3 DEF ReachOK
  <2>2. NoLink(a, s) => NoLink(a, s)'
    BY <1>1 DEF NoLink
  <2>3. FoundBy(a, s) => FoundBy(a, s)'
    BY <1>1, FoundByKept
  <2>. QED
    BY <1>1, <2>1, <2>2, <2>3
<1>6. ReachOK'
  BY <1>1, <1>2, <1>4, <1>5 DEF ReachOK
<1>. QED
  BY <1>0, <1>1, <1>6, PricedKept DEF RefInv

(* A scan of every pool has found what the hop links, or the search ends.  *)
LEMMA RefScanDone ==
    ASSUME Inv, RefInv, ScanDone
    PROVE  RefInv'
<1>0. TypeOK /\ ScanOK /\ ReachOK /\ PricedOK /\ FoundRests
  BY DEF Inv, RefInv
<1>1. /\ stage = "scan" /\ at > Len(reserves)
      /\ stage' = IF Found = {} THEN "done" ELSE "store"
      /\ UNCHANGED <<reserves, hop, at, known, newly, priced>>
  BY DEF ScanDone
<1>2. Within' = Within /\ Priced' = Priced /\ Found' = Found /\ Priced = Within[hop]
  BY <1>0, <1>1, WithinKept DEF Priced, Found, ReachOK
<1>3. /\ hop < MaxHops /\ hop \in Nat /\ MaxHops \in Nat /\ DOMAIN reserves = 1..Len(reserves)
      /\ Priced \subseteq Assets /\ Found \subseteq Assets
      /\ \A a \in Found : a \notin Priced
  BY <1>0, <1>1, PoolsAt DEF ScanOK, FoundRests
<1>4. PICK s : s = Everywhere(Within[hop])
  OBVIOUS
<1>5. s = Seen
  <2>1. \A j \in DOMAIN reserves : j < at
    BY <1>0, <1>1, PoolsAt
  <2>. QED
    BY <1>4, <2>1 DEF Everywhere, Seen
<1>6. \A a \in Assets \ Priced : IF newly[a] = Unpriced THEN NoLink(a, s) ELSE FoundBy(a, s)
  BY <1>0, <1>1, <1>5 DEF ReachOK
<1>7. Linked(reserves, Within[hop]) \subseteq Priced \cup Found
  <2>. SUFFICES ASSUME NEW a \in Linked(reserves, Within[hop]), a \notin Priced
                PROVE  newly[a] # Unpriced
    BY DEF Linked, Found
  <2>1. ~ NoLink(a, s)
    BY <1>4 DEF Linked, NoLink, Everywhere
  <2>. QED
    BY <1>6, <2>1 DEF Linked
<1>8. CASE Found = {}
  <2>1. Within[MaxHops] = Within[hop]
    <3>1. Linked(reserves, WithinIn(reserves)[hop]) \subseteq WithinIn(reserves)[hop]
      BY <1>2, <1>7, <1>8 DEF Within
    <3>2. hop \in 0..MaxHops
      BY <1>3
    <3>. QED
      BY <3>1, <3>2, Stalls DEF Within
  <2>2. ReachOK'
    BY <1>1, <1>2, <1>8, <2>1 DEF ReachOK
  <2>. QED
    BY <1>0, <1>1, <2>2, PricedKept DEF RefInv
<1>9. CASE Found # {}
  <2>1. ASSUME NEW a \in Found
        PROVE  a \in Linked(reserves, Within[hop]) /\ FoundBy(a, s)
    <3>1. FoundBy(a, s)
      BY <1>3, <1>6 DEF Found
    <3>. QED
      BY <1>3, <1>4, <3>1 DEF FoundBy, PricedBy, Best, Linked, Everywhere
  <2>2. Within[hop + 1] = Within[hop] \cup Linked(reserves, Within[hop])
    <3>1. hop + 1 \in 1..MaxHops /\ (hop + 1) - 1 = hop
      BY <1>3
    <3>. QED
      BY <3>1, WithinSteps DEF Within
  <2>3. Priced \cup Found = Within[hop + 1]
    BY <1>2, <1>7, <2>1, <2>2
  <2>4. s = Everywhere(Within[hop])'
    BY <1>1, <1>2, <1>4 DEF Everywhere
  <2>5. ASSUME NEW a \in Found PROVE FoundBy(a, s)'
    BY <1>1, <2>1, FoundByKept
  <2>6. ReachOK'
    BY <1>1, <1>2, <1>9, <2>3, <2>4, <2>5 DEF ReachOK
  <2>. QED
    BY <1>0, <1>1, <2>6, PricedKept DEF RefInv
<1>. QED
  BY <1>8, <1>9

(* What is stored is priced as it was found.                               *)
LEMMA RefStore ==
    ASSUME Inv, RefInv, NEW a \in Assets, Store(a)
    PROVE  RefInv'
<1>0. TypeOK /\ ScanOK /\ ReachOK /\ PricedOK /\ FoundRests
  BY DEF Inv, RefInv
<1>1. /\ stage = "store" /\ a \in Found
      /\ priced' = [priced EXCEPT ![a] =
                      [num |-> newly[a].num, den |-> newly[a].den, hop |-> hop + 1]]
      /\ newly' = [newly EXCEPT ![a] = Unpriced]
      /\ UNCHANGED <<reserves, stage, hop>>
  BY DEF Store
<1>2. /\ Within' = Within /\ Within[hop] \subseteq Priced /\ Priced \cup Found = Within[hop + 1]
      /\ hop < MaxHops /\ hop \in Nat /\ MaxHops \in Nat
      /\ a \notin Priced
      /\ \A b \in Found : FoundBy(b, Everywhere(Within[hop]))
  BY <1>0, <1>1, WithinKept, PoolsAt DEF ReachOK, ScanOK, FoundRests
<1>3. PICK p : p = [num |-> newly[a].num, den |-> newly[a].den, hop |-> hop + 1]
  OBVIOUS
<1>4. p # Unpriced
  <2>1. newly[a].num \in Nat /\ newly[a].den \in Nat
    BY <1>0, <1>1 DEF TypeOK, Found
  <2>2. p \in [num : Nat, den : Nat, hop : Nat]
    BY <1>2, <1>3, <2>1
  <2>. QED
    BY <2>2, ConstantsAssumption
<1>5. /\ \A b \in Assets : priced'[b] = IF b = a THEN p ELSE priced[b]
      /\ \A b \in Assets : newly'[b] = IF b = a THEN Unpriced ELSE newly[b]
  BY <1>0, <1>1, <1>3 DEF TypeOK
<1>6. Priced' = Priced \cup {a} /\ Found' = Found \ {a} /\ Priced \subseteq Assets
  BY <1>4, <1>5 DEF Priced, Found
(* The prices that prices rest on are still there.                         *)
<1>7. ASSUME NEW q, NEW b, NEW s, NEW i \in DOMAIN reserves, NEW leg \in Legs(reserves[i]),
             PricedBy(q, b, s, i, leg)
      PROVE  PricedBy(q, b, s, i, leg)'
  <2>1. priced'[leg.other] = priced[leg.other] /\ leg.other \in Priced'
    BY <1>2, <1>5, <1>6, <1>7 DEF PricedBy
  <2>2. Balanced(q, priced[leg.other], leg)'
    BY <1>7, <2>1 DEF PricedBy, Balanced
  <2>. QED
    BY <1>1, <1>7, <2>1, <2>2 DEF PricedBy, Best
<1>8. PICK s : s = Everywhere(Within[hop])
  OBVIOUS
<1>9. s = Everywhere(Within[hop])'
  BY <1>1, <1>2, <1>8 DEF Everywhere
<1>9a. ASSUME NEW m PROVE Everywhere(Within[m])' = Everywhere(Within[m])
  <2>1. DOMAIN reserves' = DOMAIN reserves /\ Within'[m] = Within[m]
    BY <1>1, <1>2
  <2>. QED
    BY <2>1 DEF Everywhere
<1>10. ASSUME NEW b \in Found'
       PROVE  FoundBy(b, s)'
  <2>1. b \in Found /\ newly'[b] = newly[b]
    BY <1>5, <1>6 DEF Found
  <2>2. PICK i \in DOMAIN reserves : \E leg \in Legs(reserves[i]) :
           PricedBy(newly[b], b, s, i, leg) /\ newly[b].weight = leg.against
    BY <1>2, <1>8, <2>1 DEF FoundBy
  <2>3. PICK leg \in Legs(reserves[i]) :
           PricedBy(newly[b], b, s, i, leg) /\ newly[b].weight = leg.against
    BY <2>2
  <2>4. PICK q : q = newly[b]
    OBVIOUS
  <2>5. PricedBy(q, b, s, i, leg)'
    BY <1>7, <2>3, <2>4
  <2>. QED
    BY <1>1, <2>1, <2>3, <2>4, <2>5 DEF FoundBy
<1>11. ReachOK'
  BY <1>1, <1>2, <1>6, <1>9, <1>10 DEF ReachOK
<1>12. PricedOK'
  <2>. SUFFICES ASSUME NEW b \in Priced' \ {XLM}, NEW n, n = priced'[b].hop,
                       NEW m, m = n - 1
                PROVE  /\ n \in 1..MaxHops /\ b \in Within[n] \ Within[m]
                       /\ \E i \in DOMAIN reserves : \E leg \in Legs(reserves[i]) :
                             PricedBy(priced[b], b, Everywhere(Within[m]), i, leg)'
    BY <1>1, <1>2 DEF PricedOK, Legs, Readable
  <2>0. PICK z : z = Everywhere(Within[m])
    OBVIOUS
  <2>1. z = Everywhere(Within[m])'
    BY <2>0, <1>9a
  <2>2. PICK q : q = priced'[b]
    OBVIOUS
  <2>3. CASE b = a
    <3>1. q = p /\ n = hop + 1 /\ m = hop
      BY <1>2, <1>3, <1>5, <2>2, <2>3
    <3>2. PICK i \in DOMAIN reserves : \E leg \in Legs(reserves[i]) :
             PricedBy(newly[a], a, s, i, leg)
      BY <1>1, <1>2, <1>8 DEF FoundBy
    <3>3. PICK leg \in Legs(reserves[i]) : PricedBy(newly[a], a, s, i, leg)
      BY <3>2
    <3>4. PricedBy(q, a, s, i, leg)
      BY <1>3, <3>1, <3>3 DEF PricedBy, Balanced
    <3>5. PricedBy(q, b, z, i, leg)'
      BY <1>7, <1>8, <2>0, <2>3, <3>1, <3>4
    <3>6. n \in 1..MaxHops /\ b \in Within[n] \ Within[m]
      BY <1>1, <1>2, <2>3, <3>1
    <3>. QED
      BY <1>1, <2>1, <2>2, <3>5, <3>6
  <2>4. CASE b # a
    <3>1. b \in Priced \ {XLM} /\ q = priced[b] /\ n = priced[b].hop
      BY <1>5, <1>6, <2>2, <2>4
    <3>2. /\ n \in 1..MaxHops /\ b \in Within[n] \ Within[m]
          /\ \E i \in DOMAIN reserves : \E leg \in Legs(reserves[i]) :
                PricedBy(q, b, z, i, leg)
      BY <1>0, <2>0, <3>1 DEF PricedOK
    <3>3. PICK i \in DOMAIN reserves : \E leg \in Legs(reserves[i]) : PricedBy(q, b, z, i, leg)
      BY <3>2
    <3>4. PICK leg \in Legs(reserves[i]) : PricedBy(q, b, z, i, leg)
      BY <3>3
    <3>5. PricedBy(q, b, z, i, leg)'
      BY <1>7, <3>4
    <3>. QED
      BY <1>1, <2>1, <2>2, <3>2, <3>5
  <2>. QED
    BY <2>3, <2>4
<1>. QED
  BY <1>11, <1>12 DEF RefInv

(* When all of a hop is stored, what is priced is all within the hop.      *)
LEMMA RefNextHop ==
    ASSUME Inv, RefInv, NextHop
    PROVE  RefInv'
<1>0. TypeOK /\ ScanOK /\ ReachOK /\ PricedOK
  BY DEF Inv, RefInv
<1>1. /\ stage = "store" /\ Found = {} /\ hop' = hop + 1
      /\ stage' = IF hop + 1 < MaxHops THEN "scan" ELSE "done"
      /\ at' = 1 /\ known' = Priced /\ UNCHANGED <<reserves, newly, priced>>
  BY DEF NextHop
<1>2. /\ Within' = Within /\ Priced' = Priced /\ Priced = Within[hop']
      /\ hop < MaxHops /\ hop \in Nat /\ MaxHops \in Nat
      /\ DOMAIN reserves = 1..Len(reserves)
  BY <1>0, <1>1, WithinKept, PoolsAt DEF Priced, ReachOK, ScanOK
<1>3. \A a \in Assets : newly'[a] = Unpriced
  BY <1>1 DEF Found
<1>4. \A j \in DOMAIN reserves : Seen'[j] = {}
  BY <1>1, <1>2 DEF Seen
<1>5. \A a : NoLink(a, Seen)'
  BY <1>1, <1>4 DEF NoLink, Joins
<1>6. ReachOK'
  BY <1>1, <1>2, <1>3, <1>5 DEF ReachOK
<1>. QED
  BY <1>0, <1>1, <1>6, PricedKept DEF RefInv

LEMMA RefStep == Inv /\ RefInv /\ [Next]_vars => RefInv'
<1>. SUFFICES ASSUME Inv, RefInv, [Next]_vars PROVE RefInv'
  OBVIOUS
<1>0. PricedOK /\ ReachOK
  BY DEF RefInv
<1>1. CASE UNCHANGED vars
  <2>1. UNCHANGED <<reserves, stage, hop, at, known, newly, priced>>
    BY <1>1 DEF vars
  <2>2. Within' = Within /\ Priced' = Priced /\ Found' = Found
    BY <2>1, WithinKept DEF Priced, Found
  <2>3. \A a, s : FoundBy(a, s) <=> FoundBy(a, s)'
    BY <2>1, <2>2 DEF FoundBy, PricedBy, Best, Balanced, Legs, Readable, Joins
  <2>4. PICK s, t : s = Seen /\ t = Everywhere(Within[hop])
    OBVIOUS
  <2>5. s = Seen' /\ t = Everywhere(Within[hop])'
    BY <2>1, <2>2, <2>4 DEF Seen, Everywhere
  <2>6. \A a : NoLink(a, s) <=> NoLink(a, s)'
    BY <2>1 DEF NoLink
  <2>7. ReachOK'
    BY <1>0, <2>1, <2>2, <2>3, <2>4, <2>5, <2>6 DEF ReachOK
  <2>. QED
    BY <1>0, <2>1, <2>7, PricedKept DEF RefInv
<1>2. CASE Fetch
  BY <1>2, RefFetch
<1>3. ASSUME Fails \/ \E k \in Assets : Panic(k) PROVE RefInv'
  <2>1. stage' \in {"failed", "panicked"} /\ UNCHANGED <<reserves, priced>>
    BY <1>3 DEF Fails, Panic
  <2>. QED
    BY <1>0, <2>1, PricedKept DEF RefInv, ReachOK
<1>4. ASSUME NEW k \in Assets, Try(k) PROVE RefInv'
  BY <1>4, RefTry
<1>5. CASE NextPool
  BY <1>5, RefNextPool
<1>6. CASE ScanDone
  BY <1>6, RefScanDone
<1>7. ASSUME NEW a \in Assets, Store(a) PROVE RefInv'
  BY <1>7, RefStore
<1>8. CASE NextHop
  BY <1>8, RefNextHop
<1>. QED
  BY <1>1, <1>2, <1>3, <1>4, <1>5, <1>6, <1>7, <1>8 DEF Next

(* The deepest link, the first of those, is the one the reference chooses. *)
LEMMA Chosen ==
    ASSUME TypeOK, NEW a, NEW n, NEW i \in DOMAIN reserves, NEW leg \in Legs(reserves[i]),
           Best(a, Everywhere(Within[n - 1]), i, leg)
    PROVE  Deepest(a, n) = i /\ LegOf(i, a) = leg
<1>. DEFINE S == Within[n - 1]
            First(l) == \A j \in Links(a, n) :
                           LET d == LegOf(l, a).against  e == LegOf(j, a).against
                           IN  d > e \/ (d = e /\ l <= j)
<1>0. DOMAIN reserves = 1..Len(reserves) /\ Len(reserves) \in Nat
  BY PoolsAt
<1>. HIDE DEF S
<1>1. /\ Joins(leg, a, S)
      /\ \A j \in DOMAIN reserves : \A e \in Legs(reserves[j]) :
            Joins(e, a, S) => leg.against > e.against \/ (leg.against = e.against /\ i <= j)
  BY DEF Best, Everywhere, S
<1>2. ASSUME NEW j \in DOMAIN reserves, NEW e \in Legs(reserves[j]), Joins(e, a, S)
      PROVE  LegOf(j, a) = e
  <2>1. e.asset = a /\ e.other # a
    BY <1>2 DEF Joins
  <2>2. \A g \in Legs(reserves[j]) : g.asset = a => g = e
    BY <2>1, OneLeg
  <2>. QED
    BY <2>1, <2>2 DEF LegOf
<1>3. Links(a, n) = {j \in DOMAIN reserves : \E e \in Legs(reserves[j]) : Joins(e, a, S)}
  BY DEF Links, S
<1>4. i \in Links(a, n) /\ LegOf(i, a) = leg
  BY <1>1, <1>2, <1>3
<1>5. First(i)
  BY <1>1, <1>2, <1>3, <1>4
<1>6. ASSUME NEW l \in Links(a, n), First(l) PROVE l = i
  <2>1. PICK g \in Legs(reserves[l]) : Joins(g, a, S)
    BY <1>3
  <2>2. LegOf(l, a) = g /\ l \in DOMAIN reserves
    BY <1>2, <1>3, <2>1
  <2>3. g.against \in Nat /\ leg.against \in Nat
    BY <2>2, LegTypes DEF Leg
  <2>4. leg.against > g.against \/ (leg.against = g.against /\ i <= l)
    BY <1>1, <2>1, <2>2
  <2>5. g.against > leg.against \/ (g.against = leg.against /\ l <= i)
    BY <1>4, <1>6, <2>2
  <2>. QED
    BY <1>0, <2>2, <2>3, <2>4, <2>5
<1>7. Deepest(a, n) = CHOOSE l \in Links(a, n) : First(l)
  BY DEF Deepest
<1>8. Deepest(a, n) = i
  <2>. HIDE DEF First
  <2>. QED
    BY <1>4, <1>5, <1>6, <1>7
<1>. QED
  BY <1>4, <1>8

(* A call that ends well has priced what the reference says, in the hop    *)
(* and from the pool it says, whatever the listing, the bound on the hops  *)
(* and the order of the hash maps (ingest_prices, ingest.rs:273-314).      *)
THEOREM PricesAsReference == Spec => []AsReference
<1>1. ASSUME Inv, RefInv PROVE AsReference
  <2>0. TypeOK /\ PricedOK /\ ReachOK
    BY <1>1 DEF Inv, RefInv
  <2>. SUFFICES ASSUME stage = "done", NEW a \in Priced \ {XLM}, NEW n, n = priced[a].hop
                PROVE  /\ a \in Within[n] \ Within[n - 1]
                       /\ Balanced(priced[a], priced[LegOf(Deepest(a, n), a).other],
                                   LegOf(Deepest(a, n), a))
    BY <2>0 DEF AsReference, ReachOK
  <2>1. a \in Within[n] \ Within[n - 1]
    BY <2>0 DEF PricedOK
  <2>2. PICK i \in DOMAIN reserves : \E leg \in Legs(reserves[i]) :
           PricedBy(priced[a], a, Everywhere(Within[n - 1]), i, leg)
    BY <2>0 DEF PricedOK
  <2>3. PICK leg \in Legs(reserves[i]) :
           PricedBy(priced[a], a, Everywhere(Within[n - 1]), i, leg)
    BY <2>2
  <2>4. Deepest(a, n) = i /\ LegOf(i, a) = leg
    BY <2>0, <2>3, Chosen DEF PricedBy
  <2>. QED
    BY <2>1, <2>3, <2>4 DEF PricedBy
<1>. QED
  BY InvInit, InvStep, RefInit, RefStep, <1>1, PTL DEF Spec

============================================================================
