----------------------- MODULE LendingIngest_proofs -----------------------
(***************************************************************************)
(* Proofs about LendingIngest for every value of its constants: types,     *)
(* that the cursor passes no event untried, that positions are the sums of *)
(* their accounts' events, that alerts are the crossings of those sums,    *)
(* and that a cycle's bands are those of the newest rules.                 *)
(***************************************************************************)
EXTENDS LendingIngest, Recursion, FiniteSetTheorems, SequenceTheorems, TLAPS

Busy == task.pc \in {"process", "alert"}

(* What a cycle holds at each stage, as far as the types need it.          *)
StageOK ==
    /\ Busy => task.next \in 0..task.upto \cup {cursor}
    /\ task.pc = "alert" => task.at < task.upto

TypeInv == TypeOK /\ StageOK

(* The cursor, or the cycle that will save it, has left nothing untried    *)
(* behind since the latest cold start.                                     *)
CursorOK ==
    /\ cursor # NoCursor =>
          start # NoCursor /\ \A k \in DOMAIN events : start < k /\ k <= cursor => k \in tried
    /\ Busy =>
          start # NoCursor /\ \A k \in DOMAIN events : start < k /\ k <= task.at => k \in tried
    /\ task.pc = "alert" => task.at + 1 \in tried

(* The log is in ledger order, and a row is of the event it was made of.   *)
LogOK == \A j, k \in DOMAIN events : j < k => events[j].ledger <= events[k].ledger

RowsOK ==
    \A i \in DOMAIN rows :
       LET e == events[rows[i].of]
       IN  e.kind \in Kinds /\ rows[i].account = e.account /\ rows[i].ledger = e.ledger

(* That rows are in order and share no ledger is only ever lost: it held at *)
(* every earlier step if it holds now.                                     *)
InOrder ==
    /\ \A i, j \in DOMAIN rows : i < j => rows[i].of < rows[j].of
    /\ \A j, k \in Stored :
          j # k => \/ events[j].account # events[k].account
                   \/ events[j].ledger # events[k].ledger

(* The position Apply makes of those events of an account that are in S,   *)
(* after each event of the log.                                            *)
Sums(log, S, acct) ==
    LET sum[k \in 0..Len(log)] ==
            IF k = 0 THEN NoPosition
            ELSE IF k \in S /\ log[k].account = acct THEN Apply(sum[k - 1], log[k])
            ELSE sum[k - 1]
    IN  sum

Sum(acct, n) == Sums(events, Stored, acct)[n]

(* Each row is its account's sum up to its event.                          *)
SumsOK ==
    InOrder =>
       \A i \in DOMAIN rows : rows[i].pos = Sum(rows[i].account, rows[i].of)

StoredCrosses(k, b) == LET acct == events[k].account
                       IN  Escalates(Sum(acct, k - 1), Sum(acct, k), b)

Pending(k) == task.pc = "alert" /\ task.at + 1 = k

AlertsOK ==
    InOrder =>
       /\ \A i, j \in DOMAIN alerts : alerts[i].event = alerts[j].event => i = j
       /\ \A i \in DOMAIN alerts : /\ alerts[i].event \in Stored
                                   /\ StoredCrosses(alerts[i].event, alerts[i].bands)
       /\ \A k \in Stored : \/ \E a \in ToSet(alerts) \cup lost : a.event = k
                            \/ Pending(k)
                            \/ \E b \in Bands : ~ StoredCrosses(k, b)
       /\ task.pc = "alert" =>
             /\ task.at + 1 \in Stored
             /\ StoredCrosses(task.at + 1, task.bands)
             /\ \A i \in DOMAIN alerts : alerts[i].event # task.at + 1

----------------------------------------------------------------------------

(* The pure part: what an event carries, and what folding events computes. *)

Moves(e) == /\ e.kind \in Kinds /\ e.account \in Accounts
            /\ e.asset \in Assets /\ e.amount \in Nat

LEMMA EventTypes ==
    ASSUME NEW e \in Events
    PROVE  e.ledger \in 1..MaxEvents /\ (e.kind \in Kinds => Moves(e))
<1>1. PICK l \in 1..MaxEvents, p \in Payloads \cup [kind : {"ignored", "oversized"}] :
         e = At(l, p)
  BY DEF Events
<1>2. "kind" \in DOMAIN p /\ "ledger" \notin DOMAIN p
  BY ConstantsAssumption
<1>3. e.ledger = l /\ \A x \in DOMAIN p : e[x] = p[x]
  BY <1>1, <1>2 DEF At
<1>4. CASE p \in [kind : {"ignored", "oversized"}]
  BY <1>2, <1>3, <1>4 DEF Kinds
<1>5. CASE p \in Payloads
  <2>1. p \in [kind : Kinds, account : Accounts, asset : Assets, amount : Nat \ {0}]
    BY <1>5, ConstantsAssumption
  <2>2. {"kind", "account", "asset", "amount"} \subseteq DOMAIN p
    BY <2>1
  <2>. QED
    BY <1>3, <2>1, <2>2 DEF Moves
<1>. QED
  BY <1>4, <1>5

LEMMA ApplyTypes ==
    ASSUME NEW pos \in Positions, NEW e, Moves(e)
    PROVE  Apply(pos, e) \in Positions
<1>1. pos.c \in Nat /\ pos.d \in Nat /\ e.asset \in Assets /\ e.amount \in Nat
  BY DEF Positions, Moves
<1>2. /\ Max0(pos.c - e.amount) \in Nat /\ Max0(pos.d - e.amount) \in Nat
      /\ pos.c + e.amount \in Nat /\ pos.d + e.amount \in Nat
  BY <1>1 DEF Max0
<1>3. CASE e.kind = "supply_collateral"
  BY <1>1, <1>2, <1>3 DEF Positions, Apply
<1>4. CASE e.kind = "withdraw_collateral"
  BY <1>1, <1>2, <1>4 DEF Positions, Apply
<1>5. CASE e.kind = "borrow"
  BY <1>1, <1>2, <1>5 DEF Positions, Apply
<1>6. CASE e.kind = "repay"
  BY <1>1, <1>2, <1>6 DEF Positions, Apply
<1>. QED
  BY <1>3, <1>4, <1>5, <1>6 DEF Moves, Kinds

LEMMA NoPositionType == NoPosition \in Positions
  BY DEF NoPosition, Positions

Foldable(log, S) == Len(log) \in Nat /\ \A k \in 1..Len(log) : k \in S => Moves(log[k])

(* Sums is the function its recursive definition describes.                *)
LEMMA SumsStep ==
    ASSUME NEW log, NEW S, Foldable(log, S), NEW acct
    PROVE  /\ Sums(log, S, acct)[0] = NoPosition
           /\ \A k \in 0..Len(log) : Sums(log, S, acct)[k] \in Positions
           /\ \A k \in 1..Len(log) :
                 Sums(log, S, acct)[k] =
                    IF k \in S /\ log[k].account = acct
                    THEN Apply(Sums(log, S, acct)[k - 1], log[k])
                    ELSE Sums(log, S, acct)[k - 1]
<1>. DEFINE N == Len(log)
            Step(k, pos) == IF k \in S /\ log[k].account = acct
                            THEN Apply(pos, log[k]) ELSE pos
            h == [k \in 1..N |-> [pos \in Positions |-> Step(k, pos)]]
            Def(f) == f = [k \in 0..N |-> IF k = 0 THEN NoPosition
                                          ELSE Step(k, f[k - 1])]
            sum == CHOOSE f : Def(f)
<1>1. N \in Nat
  BY DEF Foldable
<1>2. ASSUME NEW k \in 1..N, NEW pos \in Positions PROVE Step(k, pos) \in Positions
  BY ApplyTypes DEF Foldable
<1>3. h \in [1..N -> [Positions -> Positions]]
  BY <1>2
<1>4. PICK g \in [0..N -> Positions] :
         g[0] = NoPosition /\ \A k \in 1..N : g[k] = h[k][g[k - 1]]
  <2>. HIDE DEF h, N
  <2>1. HasIteration(N, Positions, NoPosition, h)
    BY <1>1, <1>3, Iteration, NoPositionType
  <2>. QED
    BY <2>1 DEF HasIteration
<1>5. ASSUME NEW k \in 0..N
      PROVE  g[k] = IF k = 0 THEN NoPosition ELSE Step(k, g[k - 1])
  <2>1. CASE k = 0
    BY <1>4, <2>1
  <2>2. CASE k # 0
    <3>1. k \in 1..N /\ k - 1 \in 0..N
      BY <1>1, <2>2
    <3>2. g[k] = h[k][g[k - 1]] /\ g[k - 1] \in Positions
      BY <1>4, <2>2, <3>1
    <3>. QED
      BY <2>2, <3>1, <3>2
  <2>. QED
    BY <2>1, <2>2
<1>6. Def(g)
  <2>. HIDE DEF Step
  <2>. QED
    BY <1>4, <1>5
<1>7. Def(sum)
  BY <1>6
<1>8. Sums(log, S, acct) = sum
  BY DEF Sums
<1>9. sum[0] = NoPosition /\ \A k \in 1..N : sum[k] = Step(k, sum[k - 1])
  <2>. HIDE DEF sum, Step
  <2>1. \A k \in 0..N : sum[k] = IF k = 0 THEN NoPosition ELSE Step(k, sum[k - 1])
    BY <1>7
  <2>2. 0 \in 0..N /\ \A k \in 1..N : k \in 0..N /\ k # 0
    BY <1>1
  <2>. QED
    BY <2>1, <2>2
<1>10. \A k \in 0..N : sum[k] \in Positions
  <2>. DEFINE Bad == {k \in 0..N : sum[k] \notin Positions}
  <2>. SUFFICES ASSUME Bad # {} PROVE FALSE
    OBVIOUS
  <2>. HIDE DEF sum, Step
  <2>1. PICK k \in Bad : \A m \in Bad : k <= m
    <3>1. Bad \subseteq Nat
      BY <1>1
    <3>. HIDE DEF Bad
    <3>. QED
      BY <3>1, LeastNat
  <2>2. k \in 0..N /\ k # 0
    BY <1>9, NoPositionType
  <2>3. k - 1 \in 0..N /\ k - 1 \notin Bad
    BY <1>1, <2>1, <2>2
  <2>. QED
    BY <1>2, <1>9, <2>2, <2>3
<1>. QED
  BY <1>8, <1>9, <1>10

(* What lies above the m-th event makes no difference to the sums up to it. *)
LEMMA SumsAgree ==
    ASSUME NEW log, NEW S, Foldable(log, S), NEW log2, NEW S2, Foldable(log2, S2),
           NEW acct, NEW m \in Nat, m <= Len(log), m <= Len(log2),
           \A k \in 1..m : log[k] = log2[k] /\ (k \in S <=> k \in S2)
    PROVE  \A k \in 0..m : Sums(log, S, acct)[k] = Sums(log2, S2, acct)[k]
<1>. DEFINE f == Sums(log, S, acct)
            g == Sums(log2, S2, acct)
            Bad == {k \in 0..m : f[k] # g[k]}
<1>1. Len(log) \in Nat /\ Len(log2) \in Nat
  BY DEF Foldable
<1>2. /\ f[0] = NoPosition
      /\ \A k \in 1..Len(log) :
            f[k] = IF k \in S /\ log[k].account = acct
                   THEN Apply(f[k - 1], log[k]) ELSE f[k - 1]
  BY SumsStep
<1>3. /\ g[0] = NoPosition
      /\ \A k \in 1..Len(log2) :
            g[k] = IF k \in S2 /\ log2[k].account = acct
                   THEN Apply(g[k - 1], log2[k]) ELSE g[k - 1]
  BY SumsStep
<1>. SUFFICES ASSUME Bad # {} PROVE FALSE
  OBVIOUS
<1>. HIDE DEF f, g
<1>4. PICK k \in Bad : \A n \in Bad : k <= n
  <2>1. Bad \subseteq Nat
    OBVIOUS
  <2>. HIDE DEF Bad
  <2>. QED
    BY <2>1, LeastNat
<1>5. k \in 0..m /\ k # 0
  BY <1>2, <1>3
<1>6. k - 1 \in 0..m /\ k - 1 \notin Bad
  BY <1>4, <1>5
<1>7. f[k - 1] = g[k - 1]
  BY <1>6
<1>8. k \in 1..m /\ k \in 1..Len(log) /\ k \in 1..Len(log2)
  BY <1>1, <1>5
<1>9. log[k] = log2[k] /\ (k \in S <=> k \in S2)
  BY <1>8
<1>10. f[k] = g[k]
  BY <1>2, <1>3, <1>7, <1>8, <1>9
<1>. QED
  BY <1>10

(* An account's sum stands still while none of its events is folded in.    *)
LEMMA SumsStill ==
    ASSUME NEW log, NEW S, Foldable(log, S), NEW acct,
           NEW j \in Nat, NEW n \in Nat, j <= n, n <= Len(log),
           \A k \in S : j < k /\ k <= n => log[k].account # acct
    PROVE  Sums(log, S, acct)[n] = Sums(log, S, acct)[j]
<1>. DEFINE f == Sums(log, S, acct)
            Bad == {k \in j..n : f[k] # f[j]}
<1>1. Len(log) \in Nat
  BY DEF Foldable
<1>2. \A k \in 1..Len(log) :
         f[k] = IF k \in S /\ log[k].account = acct
                THEN Apply(f[k - 1], log[k]) ELSE f[k - 1]
  BY SumsStep
<1>. SUFFICES ASSUME Bad # {} PROVE FALSE
  OBVIOUS
<1>. HIDE DEF f
<1>3. PICK k \in Bad : \A i \in Bad : k <= i
  <2>1. Bad \subseteq Nat
    OBVIOUS
  <2>. HIDE DEF Bad
  <2>. QED
    BY <2>1, LeastNat
<1>4. k \in j..n /\ k # j
  OBVIOUS
<1>5. k - 1 \in j..n /\ k - 1 \notin Bad
  BY <1>3, <1>4
<1>6. k \in 1..Len(log)
  BY <1>1, <1>4
<1>7. ~ (k \in S /\ log[k].account = acct)
  BY <1>4
<1>8. f[k] = f[k - 1]
  BY <1>2, <1>6, <1>7
<1>. QED
  BY <1>5, <1>8
----------------------------------------------------------------------------
(* What folding events computes is what the properties say it should.      *)

LEMMA SignedType ==
    ASSUME NEW e, Moves(e), NEW up, NEW down
    PROVE  Signed(e, up, down) \in Int
  BY DEF Signed, Moves

(* Flow is the function its recursive definition describes.                *)
LEMMA FlowStep ==
    ASSUME NEW log, NEW S, Foldable(log, S), NEW acct, NEW up, NEW down
    PROVE  /\ Flow(log, S, acct, up, down)[0] = 0
           /\ \A k \in 0..Len(log) : Flow(log, S, acct, up, down)[k] \in Int
           /\ \A k \in 1..Len(log) :
                 Flow(log, S, acct, up, down)[k] =
                    IF k \in S /\ log[k].account = acct
                    THEN Flow(log, S, acct, up, down)[k - 1] + Signed(log[k], up, down)
                    ELSE Flow(log, S, acct, up, down)[k - 1]
<1>. DEFINE N == Len(log)
            Step(k, x) == IF k \in S /\ log[k].account = acct
                          THEN x + Signed(log[k], up, down) ELSE x
            h == [k \in 1..N |-> [x \in Int |-> Step(k, x)]]
            Def(f) == f = [k \in 0..N |-> IF k = 0 THEN 0 ELSE Step(k, f[k - 1])]
            flow == CHOOSE f : Def(f)
<1>1. N \in Nat
  BY DEF Foldable
<1>2. ASSUME NEW k \in 1..N, NEW x \in Int PROVE Step(k, x) \in Int
  BY SignedType DEF Foldable
<1>3. h \in [1..N -> [Int -> Int]]
  BY <1>2
<1>4. PICK g \in [0..N -> Int] : g[0] = 0 /\ \A k \in 1..N : g[k] = h[k][g[k - 1]]
  <2>. HIDE DEF h, N
  <2>0. 0 \in Int
    OBVIOUS
  <2>1. HasIteration(N, Int, 0, h)
    BY <1>1, <1>3, <2>0, Iteration, Zenon
  <2>. QED
    BY <2>1 DEF HasIteration
<1>5. ASSUME NEW k \in 0..N PROVE g[k] = IF k = 0 THEN 0 ELSE Step(k, g[k - 1])
  <2>1. CASE k = 0
    BY <1>4, <2>1
  <2>2. CASE k # 0
    <3>1. k \in 1..N /\ k - 1 \in 0..N
      BY <1>1, <2>2
    <3>2. g[k] = h[k][g[k - 1]] /\ g[k - 1] \in Int
      BY <1>4, <2>2, <3>1
    <3>. QED
      BY <2>2, <3>1, <3>2
  <2>. QED
    BY <2>1, <2>2
<1>6. Def(g)
  <2>. HIDE DEF Step
  <2>. QED
    BY <1>4, <1>5
<1>7. Def(flow)
  BY <1>6
<1>8. Flow(log, S, acct, up, down) = flow
  BY DEF Flow
<1>9. flow[0] = 0 /\ \A k \in 1..N : flow[k] = Step(k, flow[k - 1])
  <2>. HIDE DEF flow, Step
  <2>1. \A k \in 0..N : flow[k] = IF k = 0 THEN 0 ELSE Step(k, flow[k - 1])
    BY <1>7
  <2>2. 0 \in 0..N /\ \A k \in 1..N : k \in 0..N /\ k # 0
    BY <1>1
  <2>. QED
    BY <2>1, <2>2
<1>10. \A k \in 0..N : flow[k] \in Int
  <2>. DEFINE Bad == {k \in 0..N : flow[k] \notin Int}
  <2>. SUFFICES ASSUME Bad # {} PROVE FALSE
    OBVIOUS
  <2>. HIDE DEF flow, Step
  <2>1. PICK k \in Bad : \A m \in Bad : k <= m
    <3>1. Bad \subseteq Nat
      BY <1>1
    <3>. HIDE DEF Bad
    <3>. QED
      BY <3>1, LeastNat
  <2>2. k \in 0..N /\ k # 0
    BY <1>9
  <2>3. k - 1 \in 0..N /\ k - 1 \notin Bad
    BY <1>1, <2>1, <2>2
  <2>4. k \in 1..N /\ flow[k - 1] \in Int
    BY <1>1, <2>2, <2>3
  <2>5. flow[k] = Step(k, flow[k - 1]) /\ Step(k, flow[k - 1]) \in Int
    BY <1>2, <1>9, <2>4
  <2>6. k \in Bad
    BY <2>1
  <2>. QED
    BY <2>5, <2>6
<1>. QED
  BY <1>8, <1>9, <1>10

(* c is the most that a stretch of f up to n adds up to.                   *)
IsBalance(f, n, c) ==
    /\ \E j \in 0..n : f[n] - f[j] = c
    /\ \A j \in 0..n : f[n] - f[j] <= c

LEMMA BalanceIs ==
    ASSUME NEW f, NEW n \in Nat, NEW c, IsBalance(f, n, c),
           \A j \in 0..n : f[j] \in Int
    PROVE  Balance(f, n) = c
<1>. DEFINE D == {f[n] - f[j] : j \in 0..n}
<1>1. n \in 0..n /\ f[n] \in Int
  OBVIOUS
<1>2. c \in D /\ D \subseteq Int /\ \A x \in D : c >= x
  BY <1>1 DEF IsBalance
<1>3. ASSUME NEW x \in D, \A y \in D : x >= y PROVE x = c
  <2>1. x >= c /\ c >= x /\ x \in Int /\ c \in Int
    BY <1>2, <1>3
  <2>. QED
    BY <2>1
<1>. HIDE DEF D
<1>4. Max(D) = c
  BY <1>2, <1>3 DEF Max
<1>. QED
  BY <1>4 DEF Balance, D

(* One more event: added to, taken from, or nothing to it.                 *)
LEMMA BalanceMoves ==
    ASSUME NEW f, NEW n \in Nat, n # 0, \A j \in 0..n : f[j] \in Int,
           NEW c \in Nat, IsBalance(f, n - 1, c), NEW a \in Nat
    PROVE  /\ f[n] = f[n - 1] => IsBalance(f, n, c)
           /\ f[n] = f[n - 1] + a => IsBalance(f, n, c + a)
           /\ f[n] = f[n - 1] - a => IsBalance(f, n, Max0(c - a))
<1>1. n - 1 \in 0..n /\ n \in 0..n /\ f[n] \in Int /\ f[n - 1] \in Int
  OBVIOUS
<1>2. PICK i \in 0..(n - 1) : f[n - 1] - f[i] = c
  BY DEF IsBalance
<1>3. i \in 0..n /\ f[i] \in Int
  BY <1>1
<1>4. ASSUME NEW b \in Nat, f[n] = f[n - 1] + b PROVE IsBalance(f, n, c + b)
  <2>1. f[n] - f[i] = c + b
    BY <1>1, <1>2, <1>3, <1>4
  <2>2. ASSUME NEW j \in 0..n PROVE f[n] - f[j] <= c + b
    <3>1. CASE j = n
      BY <1>1, <3>1
    <3>2. CASE j # n
      <4>1. j \in 0..(n - 1) /\ f[j] \in Int
        BY <3>2
      <4>2. f[n - 1] - f[j] <= c
        BY <4>1 DEF IsBalance
      <4>. QED
        BY <1>1, <1>4, <4>1, <4>2
    <3>. QED
      BY <3>1, <3>2
  <2>. QED
    BY <1>3, <2>1, <2>2 DEF IsBalance
<1>5. f[n] = f[n - 1] => IsBalance(f, n, c)
  <2>1. f[n] = f[n - 1] => f[n] = f[n - 1] + 0
    BY <1>1
  <2>2. c + 0 = c
    OBVIOUS
  <2>. QED
    BY <1>4, <2>1, <2>2
<1>6. ASSUME f[n] = f[n - 1] - a PROVE IsBalance(f, n, Max0(c - a))
  <2>1. ASSUME NEW j \in 0..n PROVE f[n] - f[j] <= Max0(c - a)
    <3>1. CASE j = n
      BY <1>1, <3>1 DEF Max0
    <3>2. CASE j # n
      <4>1. j \in 0..(n - 1) /\ f[j] \in Int
        BY <3>2
      <4>2. f[n - 1] - f[j] <= c
        BY <4>1 DEF IsBalance
      <4>. QED
        BY <1>1, <1>6, <4>1, <4>2 DEF Max0
    <3>. QED
      BY <3>1, <3>2
  <2>2. CASE c - a < 0
    <3>1. f[n] - f[n] = Max0(c - a)
      BY <1>1, <2>2 DEF Max0
    <3>. QED
      BY <1>1, <2>1, <3>1 DEF IsBalance
  <2>3. CASE ~ (c - a < 0)
    <3>1. f[n] - f[i] = Max0(c - a)
      BY <1>1, <1>2, <1>3, <1>6, <2>3 DEF Max0
    <3>. QED
      BY <1>3, <2>1, <3>1 DEF IsBalance
  <2>. QED
    BY <2>2, <2>3
<1>. QED
  BY <1>4, <1>5, <1>6

(* The latest asset named changes with the events that name one.           *)
LEMMA LatestAssetStep ==
    ASSUME NEW log, NEW S, NEW acct, NEW up, NEW n \in Nat, n # 0
    PROVE  LatestAsset(log, S, acct, up, n) =
              IF n \in S /\ log[n].account = acct /\ log[n].kind = up THEN log[n].asset
              ELSE LatestAsset(log, S, acct, up, n - 1)
<1>. DEFINE Named(m) == {k \in 1..m : k \in S /\ log[k].account = acct /\ log[k].kind = up}
<1>1. \A m : LatestAsset(log, S, acct, up, m) =
                IF Named(m) = {} THEN NoAsset ELSE log[Max(Named(m))].asset
  BY DEF LatestAsset
<1>2. CASE n \in S /\ log[n].account = acct /\ log[n].kind = up
  <2>1. n \in Named(n) /\ \A k \in Named(n) : n >= k /\ k \in Int
    BY <1>2
  <2>2. ASSUME NEW x \in Named(n), \A y \in Named(n) : x >= y PROVE x = n
    <3>1. x >= n /\ n >= x /\ x \in Int
      BY <2>1, <2>2
    <3>. QED
      BY <3>1
  <2>. HIDE DEF Named
  <2>3. Max(Named(n)) = n
    BY <2>1, <2>2 DEF Max
  <2>. QED
    BY <1>1, <1>2, <2>1, <2>3
<1>3. CASE ~ (n \in S /\ log[n].account = acct /\ log[n].kind = up)
  <2>1. Named(n) = Named(n - 1)
    <3>1. \A k \in 1..n : k = n \/ k \in 1..(n - 1)
      OBVIOUS
    <3>2. \A k \in 1..(n - 1) : k \in 1..n
      OBVIOUS
    <3>. QED
      BY <1>3, <3>1, <3>2
  <2>. HIDE DEF Named
  <2>. QED
    BY <1>1, <1>3, <2>1
<1>. QED
  BY <1>2, <1>3

(* Carrying a position on from event to event comes to the net of all.     *)
LEMMA SumsAreNet ==
    ASSUME NEW log, NEW S, Foldable(log, S), NEW acct
    PROVE  \A n \in 0..Len(log) : Sums(log, S, acct)[n] = Net(log, S, acct, n)
<1>. DEFINE N == Len(log)
            s == Sums(log, S, acct)
            fc == Flow(log, S, acct, "supply_collateral", "withdraw_collateral")
            fd == Flow(log, S, acct, "borrow", "repay")
            ac(n) == LatestAsset(log, S, acct, "supply_collateral", n)
            ad(n) == LatestAsset(log, S, acct, "borrow", n)
            Good(n) == /\ s[n].ca = ac(n) /\ IsBalance(fc, n, s[n].c)
                       /\ s[n].da = ad(n) /\ IsBalance(fd, n, s[n].d)
            Mine(n) == n \in S /\ log[n].account = acct
            Bad == {n \in 0..N : ~ Good(n)}
<1>1. N \in Nat
  BY DEF Foldable
<1>2. /\ s[0] = NoPosition
      /\ \A k \in 0..N : s[k] \in Positions
      /\ \A k \in 1..N : s[k] = IF Mine(k) THEN Apply(s[k - 1], log[k]) ELSE s[k - 1]
  BY SumsStep
<1>3. /\ fc[0] = 0 /\ \A k \in 0..N : fc[k] \in Int
      /\ \A k \in 1..N :
            fc[k] = IF Mine(k)
                    THEN fc[k - 1] + Signed(log[k], "supply_collateral", "withdraw_collateral")
                    ELSE fc[k - 1]
  BY FlowStep
<1>4. /\ fd[0] = 0 /\ \A k \in 0..N : fd[k] \in Int
      /\ \A k \in 1..N :
            fd[k] = IF Mine(k) THEN fd[k - 1] + Signed(log[k], "borrow", "repay")
                    ELSE fd[k - 1]
  BY FlowStep
<1>5. \A k \in 1..N :
         /\ ac(k) = IF Mine(k) /\ log[k].kind = "supply_collateral" THEN log[k].asset
                    ELSE ac(k - 1)
         /\ ad(k) = IF Mine(k) /\ log[k].kind = "borrow" THEN log[k].asset ELSE ad(k - 1)
  BY <1>1, LatestAssetStep
<1>6. ac(0) = NoAsset /\ ad(0) = NoAsset
  BY DEF LatestAsset
<1>7. \A k \in 1..N : Mine(k) => Moves(log[k])
  BY DEF Foldable
<1>. HIDE DEF s, fc, fd, ac, ad, Mine
<1>8. Good(0)
  BY <1>2, <1>3, <1>4, <1>6 DEF NoPosition, IsBalance
<1>9. ASSUME NEW n \in 1..N, Good(n - 1) PROVE Good(n)
  <2>. DEFINE p == s[n - 1]
              e == log[n]
  <2>1. /\ n \in Nat /\ n # 0 /\ n - 1 \in 0..N /\ n \in 0..N
        /\ \A j \in 0..n : fc[j] \in Int /\ fd[j] \in Int
    BY <1>1, <1>3, <1>4
  <2>2. p \in Positions /\ p.c \in Nat /\ p.d \in Nat
    BY <1>2, <2>1 DEF Positions
  <2>3. CASE ~ Mine(n)
    <3>1. s[n] = p /\ fc[n] = fc[n - 1] /\ fd[n] = fd[n - 1]
          /\ ac(n) = ac(n - 1) /\ ad(n) = ad(n - 1)
      BY <1>2, <1>3, <1>4, <1>5, <2>3
    <3>2. IsBalance(fc, n, p.c) /\ IsBalance(fd, n, p.d)
      BY <1>9, <2>1, <2>2, <3>1, BalanceMoves
    <3>. QED
      BY <1>9, <3>1, <3>2
  <2>4. CASE Mine(n)
    <3>0. Moves(e) /\ e.amount \in Nat /\ s[n] = Apply(p, e)
      BY <1>2, <1>7, <2>4 DEF Moves
    <3>0a. /\ fc[n] = fc[n - 1] + Signed(e, "supply_collateral", "withdraw_collateral")
           /\ fd[n] = fd[n - 1] + Signed(e, "borrow", "repay")
      BY <1>3, <1>4, <2>4
    <3>0b. fc[n - 1] \in Int /\ fd[n - 1] \in Int
      BY <2>1
    <3>0c. p \in [ca : Assets \cup {NoAsset}, c : Nat, da : Assets \cup {NoAsset}, d : Nat]
      BY <2>2 DEF Positions
    <3>. HIDE DEF p, e
    <3>1. CASE e.kind = "supply_collateral"
      <4>1. /\ s[n].ca = e.asset /\ s[n].c = p.c + e.amount
            /\ s[n].da = p.da /\ s[n].d = p.d
        BY <3>0, <3>0c, <3>1 DEF Apply
      <4>2. fc[n] = fc[n - 1] + e.amount /\ fd[n] = fd[n - 1]
        BY <3>0, <3>0a, <3>0b, <3>1 DEF Signed
      <4>3. IsBalance(fc, n, p.c + e.amount) /\ IsBalance(fd, n, p.d)
        BY <1>9, <2>1, <2>2, <3>0, <4>2, BalanceMoves DEF p
      <4>4. ac(n) = e.asset /\ ad(n) = ad(n - 1)
        BY <1>5, <2>4, <3>1 DEF e
      <4>. QED
        BY <1>9, <4>1, <4>3, <4>4 DEF p
    <3>2. CASE e.kind = "withdraw_collateral"
      <4>1. /\ s[n].ca = p.ca /\ s[n].c = Max0(p.c - e.amount)
            /\ s[n].da = p.da /\ s[n].d = p.d
        BY <3>0, <3>0c, <3>2 DEF Apply
      <4>2. fc[n] = fc[n - 1] - e.amount /\ fd[n] = fd[n - 1]
        BY <3>0, <3>0a, <3>0b, <3>2 DEF Signed
      <4>3. IsBalance(fc, n, Max0(p.c - e.amount)) /\ IsBalance(fd, n, p.d)
        BY <1>9, <2>1, <2>2, <3>0, <4>2, BalanceMoves DEF p
      <4>4. ac(n) = ac(n - 1) /\ ad(n) = ad(n - 1)
        BY <1>5, <2>4, <3>2 DEF e
      <4>. QED
        BY <1>9, <4>1, <4>3, <4>4 DEF p
    <3>3. CASE e.kind = "borrow"
      <4>1. /\ s[n].ca = p.ca /\ s[n].c = p.c
            /\ s[n].da = e.asset /\ s[n].d = p.d + e.amount
        BY <3>0, <3>0c, <3>3 DEF Apply
      <4>2. fc[n] = fc[n - 1] /\ fd[n] = fd[n - 1] + e.amount
        BY <3>0, <3>0a, <3>0b, <3>3 DEF Signed
      <4>3. IsBalance(fc, n, p.c) /\ IsBalance(fd, n, p.d + e.amount)
        BY <1>9, <2>1, <2>2, <3>0, <4>2, BalanceMoves DEF p
      <4>4. ac(n) = ac(n - 1) /\ ad(n) = e.asset
        BY <1>5, <2>4, <3>3 DEF e
      <4>. QED
        BY <1>9, <4>1, <4>3, <4>4 DEF p
    <3>4. CASE e.kind = "repay"
      <4>1. /\ s[n].ca = p.ca /\ s[n].c = p.c
            /\ s[n].da = p.da /\ s[n].d = Max0(p.d - e.amount)
        BY <3>0, <3>0c, <3>4 DEF Apply
      <4>2. fc[n] = fc[n - 1] /\ fd[n] = fd[n - 1] - e.amount
        BY <3>0, <3>0a, <3>0b, <3>4 DEF Signed
      <4>3. IsBalance(fc, n, p.c) /\ IsBalance(fd, n, Max0(p.d - e.amount))
        BY <1>9, <2>1, <2>2, <3>0, <4>2, BalanceMoves DEF p
      <4>4. ac(n) = ac(n - 1) /\ ad(n) = ad(n - 1)
        BY <1>5, <2>4, <3>4 DEF e
      <4>. QED
        BY <1>9, <4>1, <4>3, <4>4 DEF p
    <3>. QED
      BY <3>0, <3>1, <3>2, <3>3, <3>4 DEF Moves, Kinds
  <2>. QED
    BY <2>3, <2>4
<1>10. Bad = {}
  <2>. SUFFICES ASSUME Bad # {} PROVE FALSE
    OBVIOUS
  <2>. HIDE DEF Good
  <2>1. PICK n \in Bad : \A m \in Bad : n <= m
    <3>1. Bad \subseteq Nat
      BY <1>1
    <3>. HIDE DEF Bad
    <3>. QED
      BY <3>1, LeastNat
  <2>2. n \in 1..N
    BY <1>1, <1>8
  <2>3. n - 1 \in 0..N /\ n - 1 \notin Bad
    BY <1>1, <2>1, <2>2
  <2>. QED
    BY <1>9, <2>2, <2>3
<1>11. ASSUME NEW n \in 0..N PROVE s[n] = Net(log, S, acct, n)
  <2>1. Good(n) /\ s[n] \in Positions /\ n \in Nat
    BY <1>1, <1>2, <1>10
  <2>2. \A j \in 0..n : fc[j] \in Int /\ fd[j] \in Int
    BY <1>1, <1>3, <1>4
  <2>3. Balance(fc, n) = s[n].c /\ Balance(fd, n) = s[n].d
    BY <2>1, <2>2, BalanceIs
  <2>4. Net(log, S, acct, n) = [ca |-> ac(n), c |-> Balance(fc, n),
                                da |-> ad(n), d |-> Balance(fd, n)]
    BY DEF Net, fc, fd, ac, ad
  <2>. QED
    BY <2>1, <2>3, <2>4 DEF Positions
<1>. QED
  BY <1>11 DEF s
----------------------------------------------------------------------------
(* The bands: one rule after the other, the newest wins.                   *)

MatchingUpto(table, n, name) == {i \in Matching(table, "ltv_band", name) : i <= n}

NewestUpto(table, n, name, default) ==
    IF MatchingUpto(table, n, name) = {} THEN default
    ELSE table[Max(MatchingUpto(table, n, name))].threshold

BandsUpto(table, n) == [medium   |-> NewestUpto(table, n, "MEDIUM", 70),
                        high     |-> NewestUpto(table, n, "HIGH", 85),
                        critical |-> NewestUpto(table, n, "CRITICAL", 95)]

(* One more rule decides its own band and no other.                        *)
LEMMA OneMoreRule ==
    ASSUME NEW table \in RuleTables, NEW n \in 1..Len(table), NEW name, NEW default
    PROVE  NewestUpto(table, n, name, default) =
              IF n \in Matching(table, "ltv_band", name) THEN table[n].threshold
              ELSE NewestUpto(table, n - 1, name, default)
<1>. DEFINE M == MatchingUpto(table, n, name)
<1>1. DOMAIN table = 1..Len(table) /\ Len(table) \in Nat
  BY RulesAssumption
<1>2. M \subseteq 1..n
  BY <1>1 DEF MatchingUpto, Matching
<1>3. CASE n \in Matching(table, "ltv_band", name)
  <2>1. n \in M
    BY <1>1, <1>3 DEF MatchingUpto
  <2>2. \A i \in M : n >= i
    BY <1>2
  <2>. HIDE DEF M
  <2>3. Max(M) \in M /\ \A i \in M : Max(M) >= i
    BY <2>1, <2>2 DEF Max
  <2>4. Max(M) = n
    <3>1. n \in Nat
      BY <1>1
    <3>2. Max(M) \in 1..n
      BY <1>2, <2>3
    <3>3. Max(M) >= n
      BY <2>1, <2>3
    <3>. QED
      BY <3>1, <3>2, <3>3
  <2>. QED
    BY <1>3, <2>1, <2>4 DEF NewestUpto, M
<1>4. CASE n \notin Matching(table, "ltv_band", name)
  <2>1. \A i \in Matching(table, "ltv_band", name) : i \in 1..Len(table)
    BY <1>1 DEF Matching
  <2>2. M = MatchingUpto(table, n - 1, name)
    BY <1>1, <1>4, <2>1 DEF MatchingUpto
  <2>. QED
    BY <1>4, <2>2 DEF NewestUpto
<1>. QED
  BY <1>3, <1>4

(* resolve_ltv_bands takes the rules one after the other, and what comes   *)
(* out is the newest rule's threshold for each band.                       *)
LEMMA BandsAreNewest ==
    ASSUME NEW table \in RuleTables
    PROVE  ResolveBands(table) = BandsUpto(table, Len(table))
<1>. DEFINE N == Len(table)
            B(n) == BandsUpto(table, n)
            g == [n \in 0..N |-> B(n)]
            Def(f) == f = [n \in 0..N |-> IF n = 0 THEN LtvDefaults
                                          ELSE ApplyBand(f[n - 1], table[n])]
            bands == CHOOSE f : Def(f)
<1>1. N \in Nat /\ DOMAIN table = 1..N /\ \A i \in 1..N : Accepted(table[i])
  BY RulesAssumption
<1>2. B(0) = LtvDefaults
  <2>1. \A name : MatchingUpto(table, 0, name) = {}
    BY <1>1 DEF MatchingUpto, Matching
  <2>. QED
    BY <2>1 DEF BandsUpto, NewestUpto, LtvDefaults
<1>3. ASSUME NEW n \in 1..N PROVE B(n) = ApplyBand(B(n - 1), table[n])
  <2>. DEFINE Is(name) == n \in Matching(table, "ltv_band", name)
  <2>1. \A name : Is(name) <=> /\ table[n].enabled
                               /\ table[n].type = "ltv_band" /\ table[n].target = name
    BY <1>1, <1>3 DEF Matching
  <2>2. \A name, default :
           NewestUpto(table, n, name, default) =
              IF Is(name) THEN table[n].threshold
              ELSE NewestUpto(table, n - 1, name, default)
    BY <1>3, OneMoreRule
  <2>3. /\ B(n - 1).medium = NewestUpto(table, n - 1, "MEDIUM", 70)
        /\ B(n - 1).high = NewestUpto(table, n - 1, "HIGH", 85)
        /\ B(n - 1).critical = NewestUpto(table, n - 1, "CRITICAL", 95)
    BY DEF BandsUpto
  <2>. DEFINE R(m, h, c) == [medium |-> m, high |-> h, critical |-> c]
              t == table[n].threshold
              m1 == NewestUpto(table, n - 1, "MEDIUM", 70)
              h1 == NewestUpto(table, n - 1, "HIGH", 85)
              c1 == NewestUpto(table, n - 1, "CRITICAL", 95)
  <2>4. B(n - 1) = R(m1, h1, c1)
    BY DEF BandsUpto
  <2>5. B(n) = R(IF Is("MEDIUM") THEN t ELSE m1, IF Is("HIGH") THEN t ELSE h1,
                 IF Is("CRITICAL") THEN t ELSE c1)
    BY <2>2 DEF BandsUpto
  <2>6. table[n].type = "ltv_band" => table[n].target \in {"MEDIUM", "HIGH", "CRITICAL"}
    BY <1>1, <1>3 DEF Accepted
  <2>. HIDE DEF m1, h1, c1, t, Is, B
  <2>7. ApplyBand(R(m1, h1, c1), table[n]) =
           R(IF Is("MEDIUM") THEN t ELSE m1, IF Is("HIGH") THEN t ELSE h1,
             IF Is("CRITICAL") THEN t ELSE c1)
    <3>1. CASE ~ table[n].enabled \/ table[n].type # "ltv_band"
      <4>1. ~ Is("MEDIUM") /\ ~ Is("HIGH") /\ ~ Is("CRITICAL")
        BY <2>1, <3>1
      <4>2. ApplyBand(R(m1, h1, c1), table[n]) = R(m1, h1, c1)
        BY <3>1 DEF ApplyBand
      <4>. QED
        BY <4>1, <4>2
    <3>2. CASE table[n].enabled /\ table[n].type = "ltv_band" /\ table[n].target = "MEDIUM"
      BY <2>1, <3>2 DEF ApplyBand, t
    <3>3. CASE table[n].enabled /\ table[n].type = "ltv_band" /\ table[n].target = "HIGH"
      BY <2>1, <3>3 DEF ApplyBand, t
    <3>4. CASE table[n].enabled /\ table[n].type = "ltv_band" /\ table[n].target = "CRITICAL"
      BY <2>1, <3>4 DEF ApplyBand, t
    <3>. QED
      BY <2>6, <3>1, <3>2, <3>3, <3>4
  <2>. QED
    BY <2>4, <2>5, <2>7
<1>4. Def(g)
  <2>1. ASSUME NEW n \in 0..N
        PROVE  g[n] = IF n = 0 THEN LtvDefaults ELSE ApplyBand(g[n - 1], table[n])
    <3>1. CASE n = 0
      BY <1>2, <3>1
    <3>2. CASE n # 0
      <4>1. n \in 1..N /\ n - 1 \in 0..N
        BY <1>1, <3>2
      <4>2. g[n] = B(n) /\ g[n - 1] = B(n - 1)
        BY <4>1
      <4>. QED
        BY <1>3, <3>2, <4>1, <4>2
    <3>. QED
      BY <3>1, <3>2
  <2>. HIDE DEF B
  <2>. QED
    BY <2>1
<1>5. Def(bands) /\ ResolveBands(table) = bands[N]
  BY <1>4 DEF ResolveBands
<1>6. \A n \in 0..N : bands[n] = B(n)
  <2>. DEFINE Bad == {n \in 0..N : bands[n] # B(n)}
  <2>. SUFFICES ASSUME Bad # {} PROVE FALSE
    OBVIOUS
  <2>1. \A n \in 0..N : bands[n] = IF n = 0 THEN LtvDefaults
                                   ELSE ApplyBand(bands[n - 1], table[n])
    <3>. HIDE DEF bands
    <3>. QED
      BY <1>5
  <2>. HIDE DEF bands, B
  <2>2. PICK n \in Bad : \A i \in Bad : n <= i
    <3>1. Bad \subseteq Nat
      BY <1>1
    <3>. HIDE DEF Bad
    <3>. QED
      BY <3>1, LeastNat
  <2>3. n \in 0..N /\ n # 0
    BY <1>2, <2>1
  <2>4. n \in 1..N /\ n - 1 \in 0..N /\ n - 1 \notin Bad
    BY <1>1, <2>2, <2>3
  <2>. QED
    BY <1>3, <2>1, <2>3, <2>4
<1>. QED
  BY <1>1, <1>5, <1>6

----------------------------------------------------------------------------
(* Types.                                                                  *)

(* What Append leaves of a sequence and adds to it.                        *)
LEMMA Appended ==
    ASSUME NEW S, NEW s \in Seq(S), NEW e \in S
    PROVE  /\ Append(s, e) \in Seq(S)
           /\ Len(s) \in Nat /\ DOMAIN s = 1..Len(s)
           /\ Len(Append(s, e)) = Len(s) + 1
           /\ DOMAIN Append(s, e) = 1..(Len(s) + 1)
           /\ Append(s, e)[Len(s) + 1] = e
           /\ \A i \in 1..Len(s) : Append(s, e)[i] = s[i]
<1>1. Append(s, e) \in Seq(S) /\ Len(Append(s, e)) = Len(s) + 1
  BY AppendProperties
<1>2. Len(s) \in Nat /\ DOMAIN s = 1..Len(s)
  BY LenProperties
<1>3. DOMAIN Append(s, e) = 1..(Len(s) + 1)
  BY <1>1, LenProperties
<1>. QED
  BY <1>1, <1>2, <1>3, AppendProperties

(* The defaults are the bands of an empty table.                           *)
LEMMA DefaultBands == LtvDefaults \in Bands
<1>1. <<>> \in RuleTables
  BY RulesAssumption
<1>2. \A name : MatchingUpto(<<>>, Len(<<>>), name) = {}
  BY DEF MatchingUpto, Matching
<1>3. ResolveBands(<<>>) = BandsUpto(<<>>, Len(<<>>))
  BY <1>1, BandsAreNewest
<1>4. ResolveBands(<<>>) = LtvDefaults
  BY <1>2, <1>3 DEF BandsUpto, NewestUpto, LtvDefaults
<1>. QED
  BY <1>1, <1>4 DEF Bands

LEMMA IdleTask ==
    /\ Idle \in Task
    /\ Idle.pc = "idle" /\ Idle.at = 0 /\ Idle.upto = 0 /\ Idle.next = NoCursor
    /\ [Idle EXCEPT !.pc = "dead"] \in Task
    /\ [Idle EXCEPT !.pc = "dead"].pc = "dead"
    /\ [Idle EXCEPT !.pc = "dead"].at = 0 /\ [Idle EXCEPT !.pc = "dead"].upto = 0
    /\ [Idle EXCEPT !.pc = "dead"].next = NoCursor
  BY DefaultBands, ConstantsAssumption DEF Idle, Task

(* A cold start begins in the log or at its end.                           *)
LEMMA ColdStartInLog ==
    ASSUME events \in Seq(Events)
    PROVE  ColdStart \in 0..Len(events)
<1>. DEFINE Old == {k \in DOMAIN events : events[k].ledger < TipLedger - Lookback}
<1>1. DOMAIN events = 1..Len(events) /\ Len(events) \in Nat
  BY LenProperties
<1>2. IsFiniteSet(1..Len(events)) /\ Cardinality(1..Len(events)) = Len(events)
  BY <1>1, FS_Interval
<1>3. Old \subseteq 1..Len(events)
  BY <1>1
<1>. HIDE DEF Old
<1>4. IsFiniteSet(Old) /\ Cardinality(Old) <= Len(events)
  BY <1>2, <1>3, FS_Subset
<1>5. Cardinality(Old) \in Nat
  BY <1>4, FS_CardinalityType
<1>. QED
  BY <1>1, <1>4, <1>5 DEF ColdStart, Old

(* The event a busy cycle is at, and the cycle's state after it.           *)
LEMMA NextEvent ==
    ASSUME TypeInv, task.at < task.upto
    PROVE  /\ task.at + 1 \in DOMAIN events /\ task.at + 1 \in 1..MaxEvents
           /\ Here \in Events
           /\ Done \in Task /\ Done.pc = "process" /\ Done.at = task.at + 1
           /\ Done.at <= Done.upto /\ Done.upto = task.upto /\ Done.next = task.next /\ Done.bands = task.bands
           /\ ThisAlert \in Alert
           /\ ThisAlert.event = task.at + 1 /\ ThisAlert.bands = task.bands
<1>1. /\ task \in Task /\ task.upto <= Len(events)
      /\ events \in Seq(Events) /\ Len(events) <= MaxEvents /\ MaxEvents \in Nat
  BY ConstantsAssumption DEF TypeInv, TypeOK
<1>2. DOMAIN events = 1..Len(events) /\ Len(events) \in Nat
  BY <1>1, LenProperties
<1>3. task.at \in Nat /\ task.upto \in Nat /\ task.bands \in Bands
  BY <1>1 DEF Task
<1>4. task.at + 1 \in 1..Len(events) /\ task.at + 1 \in 1..MaxEvents
  BY <1>1, <1>2, <1>3
<1>5. Here \in Events
  BY <1>1, <1>4, ElementOfSeq DEF Here
<1>6. /\ Done \in Task /\ Done.pc = "process" /\ Done.at = task.at + 1
      /\ Done.upto = task.upto /\ Done.next = task.next /\ Done.bands = task.bands
  <2>. DEFINE n == task.at + 1
              d == [task EXCEPT !.pc = "process", !.at = n]
  <2>1. n \in 0..MaxEvents /\ Done = d
    BY <1>1, <1>4 DEF Done
  <2>. HIDE DEF n
  <2>2. d \in Task /\ d.pc = "process" /\ d.at = n
        /\ d.upto = task.upto /\ d.next = task.next /\ d.bands = task.bands
    BY <1>1, <2>1 DEF Task
  <2>. HIDE DEF d
  <2>. QED
    BY <2>1, <2>2 DEF n
<1>7. ThisAlert \in Alert /\ ThisAlert.event = task.at + 1 /\ ThisAlert.bands = task.bands
  BY <1>3, <1>4 DEF ThisAlert, Alert
<1>. QED
  BY <1>2, <1>3, <1>4, <1>5, <1>6, <1>7

(* The row an event leads to is a row.                                     *)
LEMMA LatestTypes ==
    ASSUME rows \in Seq(Row), NEW acct
    PROVE  LatestPositions(acct) \subseteq Positions
<1>1. \A k \in DOMAIN rows : rows[k] \in Row
  BY ElementOfSeq, LenProperties
<1>2. \A k \in LatestRows(acct) : rows[k].pos \in Positions
  BY <1>1 DEF LatestRows, Row
<1>. QED
  BY <1>2, NoPositionType DEF LatestPositions

LEMMA TypeInit == Init => TypeInv
<1>. SUFFICES ASSUME Init PROVE TypeInv
  OBVIOUS
<1>1. \A S : <<>> \in Seq(S)
  OBVIOUS
<1>2. TypeOK
  BY <1>1, IdleTask, ConstantsAssumption DEF Init, TypeOK
<1>. QED
  BY <1>2, IdleTask DEF Init, TypeInv, StageOK, Busy

(* The part of the state a cycle's own steps change, when it is sound.     *)
TaskSound == /\ task \in Task
             /\ task.at <= task.upto /\ task.upto <= Len(events)
             /\ task.next \in 0..Len(events) \cup {NoCursor}
             /\ StageOK

(* A step that leaves the log and the rows alone keeps the types if the    *)
(* cycle, the cursor and the alerts it leaves are sound.                   *)
LEMMA QuietTypes ==
    ASSUME TypeInv, UNCHANGED <<events, rows>>,
           tried \subseteq tried', tried' \subseteq DOMAIN events,
           TaskSound', faults' \in 0..MaxFaults,
           cursor' \in 0..Len(events) \cup {NoCursor},
           start' \in 0..Len(events) \cup {NoCursor},
           alerts' \in Seq(Alert), lost' \in SUBSET Alert
    PROVE  TypeInv'
  BY DEF TypeInv, TypeOK, TaskSound

(* What TypeInv says of the cycle, with the ranges arithmetic needs.       *)
LEMMA TaskRanges ==
    ASSUME TypeInv
    PROVE  /\ TaskSound
           /\ task.at \in Nat /\ task.upto \in Nat /\ task.bands \in Bands
           /\ Len(events) \in 0..MaxEvents /\ DOMAIN events = 1..Len(events)
           /\ \A k \in DOMAIN events : events[k] \in Events
           /\ MaxEvents \in Nat
<1>1. TaskSound /\ task \in Task
  BY DEF TypeInv, TypeOK, TaskSound
<1>2. MaxEvents \in Nat
  BY ConstantsAssumption
<1>3. /\ Len(events) \in 0..MaxEvents /\ DOMAIN events = 1..Len(events)
      /\ \A k \in DOMAIN events : events[k] \in Events
  BY <1>2, LenProperties, ElementOfSeq DEF TypeInv, TypeOK
<1>. QED
  BY <1>1, <1>2, <1>3 DEF Task

(* After an event, an alert or the end of a cycle the task is sound.       *)
LEMMA MovedOn ==
    ASSUME TypeInv, UNCHANGED <<events, cursor>>,
           \/ task' = Idle
           \/ task' = [Idle EXCEPT !.pc = "dead"]
           \/ /\ task.at < task.upto /\ Busy
              /\ task' = Done \/ task' = [task EXCEPT !.pc = "alert"]
    PROVE  TaskSound'
<1>1. TaskSound /\ Len(events) \in Nat
  BY TaskRanges
<1>2. CASE task' = Idle
  BY <1>1, <1>2, IdleTask DEF TaskSound, StageOK, Busy
<1>3. CASE task' = [Idle EXCEPT !.pc = "dead"]
  BY <1>1, <1>3, IdleTask DEF TaskSound, StageOK, Busy
<1>4. CASE task.at < task.upto /\ Busy /\ task' = Done
  BY <1>1, <1>4, NextEvent DEF TaskSound, StageOK, Busy
<1>5. CASE task.at < task.upto /\ Busy /\ task' = [task EXCEPT !.pc = "alert"]
  <2>1. /\ task' \in Task /\ task'.pc = "alert" /\ task'.at = task.at
        /\ task'.upto = task.upto /\ task'.next = task.next
    BY <1>1, <1>5 DEF TaskSound, Task
  <2>. QED
    BY <1>1, <1>5, <2>1 DEF TaskSound, StageOK, Busy
<1>. QED
  BY <1>2, <1>3, <1>4, <1>5

(* What process_event does with a position event, in typed terms.          *)
NewRow(pos) == [account |-> Here.account, ledger |-> Here.ledger,
                pos |-> Apply(pos, Here), of |-> task.at + 1]

LEMMA ApplyFacts ==
    ASSUME TypeInv, ApplyEvent
    PROVE  /\ task.at < task.upto /\ task.pc = "process" /\ Busy
           /\ task.at + 1 \in DOMAIN events /\ Here = events[task.at + 1] /\ Moves(Here)
           /\ tried' = tried \cup {task.at + 1}
           /\ \E pos \in LatestPositions(Here.account) :
                 /\ pos \in Positions
                 /\ NewRow(pos) \in Row /\ rows' = Append(rows, NewRow(pos))
                 /\ task' = IF Escalates(pos, Apply(pos, Here), task.bands)
                            THEN [task EXCEPT !.pc = "alert"] ELSE Done
<1>1. /\ task.at < task.upto /\ task.pc = "process" /\ Here.kind \in Kinds
      /\ tried' = tried \cup {task.at + 1}
  BY DEF ApplyEvent, HasNext
<1>2. task.at + 1 \in DOMAIN events /\ task.at + 1 \in 1..MaxEvents /\ Here \in Events
  BY <1>1, NextEvent
<1>3. Moves(Here) /\ Here.ledger \in 1..MaxEvents
  BY <1>1, <1>2, EventTypes
<1>4. PICK pos \in LatestPositions(Here.account) :
         /\ rows' = Append(rows, NewRow(pos))
         /\ task' = IF Escalates(pos, Apply(pos, Here), task.bands)
                    THEN [task EXCEPT !.pc = "alert"] ELSE Done
  BY DEF ApplyEvent, NewRow
<1>5. pos \in Positions
  BY LatestTypes DEF TypeInv, TypeOK
<1>6. Apply(pos, Here) \in Positions
  BY <1>3, <1>5, ApplyTypes
<1>7. NewRow(pos) \in Row
  BY <1>2, <1>3, <1>6 DEF NewRow, Row, Moves
<1>. QED
  BY <1>1, <1>2, <1>3, <1>4, <1>5, <1>7 DEF Here, Busy

(* Where a cycle begins and how far its pages reach.                       *)
LEMMA PageRanges ==
    ASSUME TypeInv
    PROVE  /\ Len(events) \in Nat /\ Len(events) <= MaxEvents /\ MaxEvents \in Nat
           /\ From \in 0..Len(events)
           /\ \A n \in Nat : PagesEnd(n) \in From..Len(events)
           /\ \A n \in 1..MaxPages : PagesEnd(n - 1) <= PagesEnd(n)
<1>1. /\ Len(events) \in Nat /\ Len(events) <= MaxEvents /\ MaxEvents \in Nat
      /\ PageLimit \in Nat /\ MaxPages \in Nat
  BY TaskRanges, ConstantsAssumption
<1>2. From \in 0..Len(events)
  BY ColdStartInLog DEF TypeInv, TypeOK, From
<1>3. \A n \in Nat : n * PageLimit \in Nat
  BY <1>1
<1>4. \A n \in Nat : PagesEnd(n) \in From..Len(events)
  BY <1>1, <1>2, <1>3 DEF PagesEnd
<1>5. ASSUME NEW n \in 1..MaxPages PROVE PagesEnd(n - 1) <= PagesEnd(n)
  <2>1. n \in Nat /\ n - 1 \in Nat
    BY <1>1
  <2>2. n * PageLimit = (n - 1) * PageLimit + PageLimit
    BY <1>1, <2>1
  <2>3. n * PageLimit \in Nat /\ (n - 1) * PageLimit \in Nat
    BY <1>3, <2>1
  <2>. HIDE DEF From
  <2>. QED
    BY <1>1, <1>2, <2>2, <2>3 DEF PagesEnd
<1>. QED
  BY <1>1, <1>2, <1>4, <1>5

LEMMA FetchTypes ==
    ASSUME TypeInv, NEW upto, NEW next, Fetch(upto, next),
           upto \in From..Len(events), next \in From..upto \cup {cursor}
    PROVE  TaskSound' /\ start' \in 0..Len(events) \cup {NoCursor}
<1>1. /\ events' = events /\ cursor' = cursor
      /\ start' = IF cursor = NoCursor THEN From ELSE start
  BY DEF Fetch
<1>2. PICK bands \in Bands :
         task' = [pc |-> "process", bands |-> bands, at |-> From, upto |-> upto,
                  next |-> next]
  BY DEF Fetch
<1>3. /\ Len(events) \in Nat /\ Len(events) <= MaxEvents /\ MaxEvents \in Nat
      /\ From \in 0..Len(events)
  BY PageRanges
<1>6. next \in 0..Len(events) \cup {NoCursor} /\ next \in From..upto \cup {cursor}
  <2>1. cursor \in 0..Len(events) \cup {NoCursor}
    BY DEF TypeInv, TypeOK
  <2>. QED
    BY <1>3, <2>1
<1>7. /\ task'.pc = "process" /\ task'.at = From /\ task'.upto = upto /\ task'.next = next
      /\ task'.bands = bands
  BY <1>2
<1>8. From \in 0..MaxEvents /\ upto \in 0..MaxEvents /\ next \in 0..MaxEvents \cup {NoCursor}
  BY <1>3, <1>6
<1>9. task' \in Task
  BY <1>2, <1>8 DEF Task
<1>10. TaskSound'
  <2>1. next = cursor \/ next \in 0..upto
    BY <1>3, <1>6
  <2>. QED
    BY <1>1, <1>3, <1>6, <1>7, <1>9, <2>1 DEF TaskSound, StageOK, Busy
<1>11. start' \in 0..Len(events) \cup {NoCursor}
  BY <1>1, <1>3 DEF TypeInv, TypeOK
<1>. QED
  BY <1>10, <1>11

(* Whichever way a fetch ends, its pages and its resume point are sound.   *)
LEMMA FetchEnds ==
    ASSUME TypeInv, FetchEvents \/ FetchWithoutCursor
    PROVE  \E upto, next : /\ Fetch(upto, next) /\ upto \in From..Len(events)
                           /\ next \in From..upto \cup {cursor}
<1>0. /\ From \in Nat /\ Len(events) \in Nat /\ MaxPages \in Nat
      /\ \A n \in Nat : PagesEnd(n) \in From..Len(events)
  BY PageRanges, ConstantsAssumption
<1>1. CASE FetchEvents
  <2>1. PagesEnd(MaxPages) \in From..Len(events)
    BY <1>0
  <2>2. PagesEnd(MaxPages) \in From..PagesEnd(MaxPages)
    BY <1>0, <2>1
  <2>. QED
    BY <1>1, <2>1, <2>2 DEF FetchEvents
<1>2. CASE FetchWithoutCursor
  <2>1. PICK n \in 1..MaxPages : Fetch(PagesEnd(n), IF n = 1 THEN cursor ELSE PagesEnd(n - 1))
    BY <1>2 DEF FetchWithoutCursor
  <2>2. n \in Nat /\ n - 1 \in Nat
    BY <1>0
  <2>3. PagesEnd(n) \in From..Len(events) /\ PagesEnd(n - 1) \in From..Len(events)
    BY <1>0, <2>2
  <2>4. PagesEnd(n - 1) \in From..PagesEnd(n)
    BY <1>0, <2>3, PageRanges
  <2>. QED
    BY <2>1, <2>3, <2>4
<1>. QED
  BY <1>1, <1>2

(* Every step preserves TypeInv.                                           *)
LEMMA TypeStep == TypeInv /\ [Next]_vars => TypeInv'
<1>. SUFFICES ASSUME TypeInv, [Next]_vars PROVE TypeInv'
  OBVIOUS
<1>0. /\ TaskSound /\ task.at \in Nat /\ task.upto \in Nat
      /\ Len(events) \in 0..MaxEvents /\ DOMAIN events = 1..Len(events)
      /\ MaxEvents \in Nat /\ MaxFaults \in Nat /\ NoCursor \notin Int
  BY TaskRanges, ConstantsAssumption
<1>0a. /\ tried \in SUBSET DOMAIN events /\ faults \in 0..MaxFaults
       /\ cursor \in 0..Len(events) \cup {NoCursor}
       /\ start \in 0..Len(events) \cup {NoCursor}
       /\ alerts \in Seq(Alert) /\ lost \in SUBSET Alert
       /\ rows \in Seq(Row) /\ \A i \in DOMAIN rows : rows[i].of \in tried
  BY DEF TypeInv, TypeOK
<1>0b. ASSUME Faulty PROVE faults' \in 0..MaxFaults
  BY <1>0, <1>0a, <1>0b DEF Faulty
<1>0c. ASSUME task.pc = "alert"
       PROVE  task.at < task.upto /\ Busy /\ ThisAlert \in Alert
  <2>1. task.at < task.upto /\ Busy
    BY <1>0, <1>0c DEF TaskSound, StageOK, Busy
  <2>. QED
    BY <2>1, NextEvent
<1>0d. ASSUME HasNext
       PROVE  /\ task.at < task.upto /\ Busy
              /\ task.at + 1 \in DOMAIN events
  BY <1>0d, NextEvent DEF HasNext, Busy
<1>1. CASE UNCHANGED vars
  BY <1>0, <1>0a, <1>1, QuietTypes DEF vars, TaskSound, StageOK, Busy
<1>2. CASE Emit
  <2>1. PICK e \in Events : events' = Append(events, e)
    BY <1>2 DEF Emit
  <2>2. /\ events' \in Seq(Events) /\ Len(events') = Len(events) + 1
        /\ DOMAIN events' = 1..(Len(events) + 1)
    BY <2>1, Appended DEF TypeInv, TypeOK
  <2>3. Len(events') <= MaxEvents /\ UNCHANGED <<rows, cursor, alerts, task, start,
                                                 tried, lost, faults>>
    BY <1>0, <1>2, <2>2 DEF Emit
  <2>4. 0..Len(events) \subseteq 0..Len(events') /\ DOMAIN events \subseteq DOMAIN events'
    BY <1>0, <2>2
  <2>5. TypeOK'
    BY <1>0, <1>0a, <2>2, <2>3, <2>4 DEF TypeOK, TaskSound
  <2>6. StageOK'
    BY <2>3 DEF TypeInv, StageOK, Busy
  <2>. QED
    BY <2>5, <2>6 DEF TypeInv
<1>3. CASE FetchEvents \/ FetchWithoutCursor
  <2>1. PICK upto, next : /\ Fetch(upto, next) /\ upto \in From..Len(events)
                          /\ next \in From..upto \cup {cursor}
    BY <1>3, FetchEnds
  <2>2. TaskSound' /\ start' \in 0..Len(events) \cup {NoCursor}
    BY <2>1, FetchTypes
  <2>3. UNCHANGED <<events, rows, cursor, alerts, tried, lost>>
    BY <2>1 DEF Fetch
  <2>4. faults' \in 0..MaxFaults
    BY <1>0a, <1>0b, <1>3 DEF FetchEvents, FetchWithoutCursor
  <2>. QED
    BY <1>0a, <2>2, <2>3, <2>4, QuietTypes
<1>5. CASE SkipEvent
  <2>1. TaskSound'
    BY <1>0d, <1>5, MovedOn DEF SkipEvent
  <2>. QED
    BY <1>0a, <1>0d, <1>5, <2>1, QuietTypes DEF SkipEvent
<1>6. CASE ApplyEvent
  <2>1. PICK row \in Row : rows' = Append(rows, row) /\ row.of = task.at + 1
    BY <1>6, ApplyFacts DEF NewRow
  <2>2. TaskSound'
    BY <1>6, ApplyFacts, MovedOn DEF ApplyEvent
  <2>3. /\ UNCHANGED <<events, cursor, alerts, start, lost, faults>>
        /\ tried' = tried \cup {task.at + 1} /\ task.at + 1 \in DOMAIN events
    BY <1>6, ApplyFacts DEF ApplyEvent
  <2>4. rows' \in Seq(Row) /\ \A i \in DOMAIN rows' : rows'[i].of \in tried'
    <3>1. /\ rows' \in Seq(Row) /\ DOMAIN rows' = 1..(Len(rows) + 1)
          /\ Len(rows) \in Nat /\ DOMAIN rows = 1..Len(rows)
          /\ rows'[Len(rows) + 1] = row
          /\ \A i \in 1..Len(rows) : rows'[i] = rows[i]
      BY <1>0a, <2>1, Appended
    <3>2. ASSUME NEW i \in DOMAIN rows' PROVE rows'[i].of \in tried'
      <4>1. i = Len(rows) + 1 \/ i \in 1..Len(rows)
        BY <3>1
      <4>. QED
        BY <1>0a, <2>1, <2>3, <3>1, <4>1
    <3>. QED
      BY <3>1, <3>2
  <2>. QED
    BY <1>0a, <2>2, <2>3, <2>4 DEF TypeInv, TypeOK, TaskSound
<1>7. CASE ApplyOversized
  <2>1. TaskSound'
    BY <1>7, MovedOn DEF ApplyOversized
  <2>. QED
    BY <1>0a, <1>0d, <1>7, <2>1, QuietTypes DEF ApplyOversized
<1>8. CASE EventFails
  <2>1. TaskSound'
    BY <1>0d, <1>8, MovedOn DEF EventFails
  <2>. QED
    BY <1>0a, <1>0b, <1>0d, <1>8, <2>1, QuietTypes DEF EventFails
<1>9. CASE RecordAlert
  <2>1. TaskSound'
    BY <1>0c, <1>9, MovedOn DEF RecordAlert
  <2>2. alerts' \in Seq(Alert)
    BY <1>0a, <1>0c, <1>9, Appended DEF RecordAlert
  <2>. QED
    BY <1>0a, <1>9, <2>1, <2>2, QuietTypes DEF RecordAlert
<1>10. CASE RecordAlertFails
  <2>1. TaskSound'
    BY <1>0c, <1>10, MovedOn DEF RecordAlertFails
  <2>. QED
    BY <1>0a, <1>0b, <1>0c, <1>10, <2>1, QuietTypes DEF RecordAlertFails
<1>11. CASE SaveCursor
  <2>1. cursor' = task.next /\ task' = Idle /\ UNCHANGED <<events, rows, alerts, start,
                                                           tried, lost, faults>>
    BY <1>11 DEF SaveCursor
  <2>2. TaskSound'
    BY <1>0, <2>1, IdleTask DEF TaskSound, StageOK, Busy
  <2>3. cursor' \in 0..Len(events) \cup {NoCursor}
    BY <1>0, <2>1 DEF TaskSound
  <2>. QED
    BY <1>0a, <2>1, <2>2, <2>3, QuietTypes
<1>12. CASE Abandon
  <2>1. TaskSound'
    BY <1>12, MovedOn DEF Abandon
  <2>. QED
    BY <1>0a, <1>0b, <1>0c, <1>12, <2>1, QuietTypes DEF Abandon
<1>13. CASE Restart
  <2>1. TaskSound'
    BY <1>13, MovedOn DEF Restart
  <2>. QED
    BY <1>0a, <1>0b, <1>13, <2>1, QuietTypes DEF Restart
<1>. QED
  BY <1>1, <1>2, <1>3, <1>5, <1>6, <1>7, <1>8, <1>9, <1>10, <1>11, <1>12, <1>13
  DEF Next, Progress

(* Every reachable state is well typed, for any accounts, prices, window   *)
(* and number of faults.                                                   *)
THEOREM LendingTypes == Spec => []TypeOK
<1>1. TypeInv => TypeOK
  BY DEF TypeInv
<1>. QED
  BY <1>1, TypeInit, TypeStep, PTL DEF Spec

----------------------------------------------------------------------------
(* The cursor.                                                             *)

LEMMA CursorInit == Init => CursorOK
  BY IdleTask DEF Init, CursorOK, Busy

(* Events are tried one by one, so what a cycle has passed it has tried.   *)
LEMMA OneMoreTried ==
    ASSUME TypeInv, CursorOK, Busy, task.at < task.upto, events' = events,
           start' = start, cursor' = cursor, tried \subseteq tried',
           task.at + 1 \in tried', task'.at <= task.at + 1, task'.at \in Nat,
           task'.pc = "alert" => task'.at + 1 \in tried'
    PROVE  CursorOK'
<1>1. start # NoCursor /\ DOMAIN events = 1..Len(events) /\ task.at \in Nat
      /\ Len(events) \in Nat
  BY TaskRanges DEF CursorOK
<1>2. start \in Nat
  BY <1>1 DEF TypeInv, TypeOK
<1>3. ASSUME NEW k \in DOMAIN events, start < k, k <= task'.at PROVE k \in tried'
  <2>1. k \in Nat
    BY <1>1
  <2>2. k <= task.at \/ k = task.at + 1
    BY <1>1, <1>3, <2>1
  <2>. QED
    BY <1>3, <2>2 DEF CursorOK
<1>. QED
  BY <1>1, <1>3 DEF CursorOK

(* Every step preserves CursorOK.                                          *)
LEMMA CursorStep == TypeInv /\ CursorOK /\ [Next]_vars => CursorOK'
<1>. SUFFICES ASSUME TypeInv, CursorOK, [Next]_vars PROVE CursorOK'
  OBVIOUS
<1>0. /\ TaskSound /\ task.at \in Nat /\ task.upto \in Nat
      /\ Len(events) \in Nat /\ DOMAIN events = 1..Len(events)
      /\ NoCursor \notin Int
  BY TaskRanges, ConstantsAssumption
<1>0a. cursor \in 0..Len(events) \cup {NoCursor} /\ start \in 0..Len(events) \cup {NoCursor}
  BY DEF TypeInv, TypeOK
(* A step that only ends the cycle or an alert.                            *)
<1>0b. ASSUME UNCHANGED <<events, cursor, start, tried>>, task' = Idle
              \/ task' = [Idle EXCEPT !.pc = "dead"]
       PROVE  CursorOK'
  <2>1. ~ Busy' /\ task'.pc # "alert"
    BY <1>0b, IdleTask DEF Busy
  <2>. QED
    BY <1>0b, <2>1 DEF CursorOK
<1>0c. ASSUME HasNext PROVE Busy /\ task.at < task.upto
  BY <1>0c DEF HasNext, Busy
<1>0d. ASSUME task.pc = "alert" PROVE Busy /\ task.at < task.upto
  BY <1>0, <1>0d DEF TaskSound, StageOK, Busy
<1>1. CASE UNCHANGED vars
  BY <1>1 DEF vars, CursorOK, Busy
<1>2. CASE Emit
  <2>1. PICK e \in Events : events' = Append(events, e)
    BY <1>2 DEF Emit
  <2>2. DOMAIN events' = 1..(Len(events) + 1)
    BY <2>1, Appended DEF TypeInv, TypeOK
  <2>3. UNCHANGED <<cursor, task, start, tried>>
    BY <1>2 DEF Emit
  <2>4. ASSUME NEW k \in DOMAIN events', NEW n \in 0..Len(events), k <= n
        PROVE  k \in DOMAIN events
    BY <1>0, <2>2, <2>4
  <2>5. ASSUME cursor # NoCursor, NEW k \in DOMAIN events', start < k, k <= cursor
        PROVE  k \in tried
    <3>1. k \in DOMAIN events
      BY <1>0a, <2>4, <2>5
    <3>. QED
      BY <2>5, <3>1 DEF CursorOK
  <2>6. ASSUME Busy, NEW k \in DOMAIN events', start < k, k <= task.at
        PROVE  k \in tried
    <3>1. task.at \in 0..Len(events)
      BY <1>0 DEF TaskSound
    <3>2. k \in DOMAIN events
      BY <2>4, <2>6, <3>1
    <3>. QED
      BY <2>6, <3>2 DEF CursorOK
  <2>7. /\ (cursor # NoCursor => start # NoCursor) /\ (Busy => start # NoCursor)
        /\ task.pc = "alert" => task.at + 1 \in tried
    BY DEF CursorOK
  <2>8. Busy' <=> Busy
    BY <2>3 DEF Busy
  <2>. QED
    BY <2>3, <2>5, <2>6, <2>7, <2>8 DEF CursorOK
<1>3. ASSUME NEW upto, NEW next, Fetch(upto, next) PROVE CursorOK'
  <2>. DEFINE from == From
  <2>1. /\ UNCHANGED <<events, cursor, tried>> /\ task'.at = from /\ task'.pc = "process"
        /\ start' = IF cursor = NoCursor THEN from ELSE start
    BY <1>3 DEF Fetch
  <2>2. from \in Nat
    BY PageRanges
  <2>. HIDE DEF from
  <2>3. CASE cursor = NoCursor
    <3>1. start' = from
      BY <2>1, <2>3
    <3>2. start' # NoCursor /\ cursor' = NoCursor
      BY <1>0, <2>1, <2>2, <2>3, <3>1
    <3>3. \A k \in DOMAIN events : ~ (from < k /\ k <= from)
      BY <1>0, <2>2
    <3>. QED
      BY <2>1, <3>1, <3>2, <3>3 DEF CursorOK
  <2>4. CASE cursor # NoCursor
    <3>1. from = cursor /\ start' = start
      BY <2>1, <2>4 DEF from, From
    <3>. QED
      BY <2>1, <2>4, <3>1 DEF CursorOK
  <2>. QED
    BY <2>3, <2>4
<1>4. CASE FetchEvents
  BY <1>3, <1>4 DEF FetchEvents
<1>5. CASE FetchWithoutCursor
  <2>1. PICK upto, next : Fetch(upto, next)
    BY <1>5, FetchEnds
  <2>. QED
    BY <1>3, <2>1
<1>6. ASSUME SkipEvent \/ EventFails PROVE CursorOK'
  <2>1. /\ HasNext /\ task' = Done /\ tried' = tried \cup {task.at + 1}
        /\ UNCHANGED <<events, cursor, start>>
    BY <1>6 DEF SkipEvent, EventFails
  <2>2. task'.at = task.at + 1 /\ task'.pc = "process"
    BY <1>0c, <2>1, NextEvent
  <2>. QED
    BY <1>0, <1>0c, <2>1, <2>2, OneMoreTried
<1>7. CASE ApplyEvent
  <2>1. /\ task' = Done \/ task' = [task EXCEPT !.pc = "alert"]
        /\ HasNext /\ tried' = tried \cup {task.at + 1}
        /\ UNCHANGED <<events, cursor, start>>
    BY <1>7 DEF ApplyEvent
  <2>2. \/ task'.at = task.at + 1 /\ task'.pc = "process"
        \/ task'.at = task.at
    BY <1>0, <1>0c, <2>1, NextEvent DEF TaskSound, Task
  <2>. QED
    BY <1>0, <1>0c, <2>1, <2>2, OneMoreTried
<1>8. CASE ApplyOversized
  <2>1. /\ task' = [Idle EXCEPT !.pc = "dead"] /\ tried' = tried \cup {task.at + 1}
        /\ UNCHANGED <<events, cursor, start>>
    BY <1>8 DEF ApplyOversized
  <2>2. ~ Busy' /\ task'.pc # "alert"
    BY <2>1, IdleTask DEF Busy
  <2>. QED
    BY <2>1, <2>2 DEF CursorOK
<1>9. ASSUME RecordAlert \/ RecordAlertFails PROVE CursorOK'
  <2>1. /\ task.pc = "alert" /\ task' = Done
        /\ UNCHANGED <<events, cursor, start, tried>>
    BY <1>9 DEF RecordAlert, RecordAlertFails
  <2>2. task'.at = task.at + 1 /\ task'.pc = "process"
    BY <1>0d, <2>1, NextEvent
  <2>3. task.at + 1 \in tried
    BY <2>1 DEF CursorOK
  <2>. QED
    BY <1>0, <1>0d, <2>1, <2>2, <2>3, OneMoreTried
<1>10. CASE SaveCursor
  <2>1. /\ task.pc = "process" /\ task.at = task.upto
        /\ cursor' = task.next /\ task' = Idle /\ UNCHANGED <<events, start, tried>>
    BY <1>10 DEF SaveCursor
  <2>2. Busy /\ task.next \in 0..task.at \cup {cursor}
    BY <1>0, <2>1 DEF TaskSound, StageOK, Busy
  <2>3. ~ Busy' /\ task'.pc # "alert"
    BY <2>1, IdleTask DEF Busy
  <2>4. CASE task.next = cursor
    BY <2>1, <2>3, <2>4 DEF CursorOK
  <2>5. CASE task.next \in 0..task.at
    <3>1. /\ start # NoCursor
          /\ \A k \in DOMAIN events : start < k /\ k <= task.at => k \in tried
      BY <2>2 DEF CursorOK
    <3>2. \A k \in DOMAIN events : k <= task.next => k <= task.at
      BY <1>0, <2>5
    <3>. QED
      BY <2>1, <2>3, <3>1, <3>2 DEF CursorOK
  <2>. QED
    BY <2>2, <2>4, <2>5
<1>11. CASE Abandon
  BY <1>0b, <1>11 DEF Abandon
<1>12. CASE Restart
  BY <1>0b, <1>12 DEF Restart
<1>. QED
  BY <1>1, <1>2, <1>4, <1>5, <1>6, <1>7, <1>8, <1>9, <1>10, <1>11, <1>12
  DEF Next, Progress

(* The cursor passes no event that process_event was not called on, for    *)
(* any window and lookback, through any cycle that fails or crashes.       *)
THEOREM CursorSkipsNothing == Spec => []NoEventSkipped
<1>1. CursorOK => NoEventSkipped
  BY DEF CursorOK, NoEventSkipped
<1>. QED
  BY <1>1, TypeInit, TypeStep, CursorInit, CursorStep, PTL DEF Spec

(* Whatever tables the operator makes, a cycle judges each band by the     *)
(* newest enabled rule that names it, or by the default.                   *)
THEOREM NewestRuleWins == Spec => []BandsOfNewest
<1>1. ASSUME TypeInv PROVE BandsOfNewest
  <2>1. PICK table \in RuleTables : task.bands = ResolveBands(table)
    BY <1>1, TaskRanges DEF Bands
  <2>2. task.bands = BandsUpto(table, Len(table))
    BY <2>1, BandsAreNewest
  <2>3. DOMAIN table = 1..Len(table) /\ Len(table) \in Nat
    BY RulesAssumption
  <2>4. \A name : MatchingUpto(table, Len(table), name) = Matching(table, "ltv_band", name)
    BY <2>3 DEF MatchingUpto, Matching
  <2>5. \A name, default :
           NewestUpto(table, Len(table), name, default)
              = Resolve(table, "ltv_band", name, default)
    BY <2>4 DEF NewestUpto, Resolve
  <2>. QED
    BY <2>2, <2>5 DEF BandsUpto, BandsOfNewest
<1>. QED
  BY <1>1, TypeInit, TypeStep, PTL DEF Spec
----------------------------------------------------------------------------
(* The log and the rows.                                                   *)

LEMMA LogStep == TypeInv /\ LogOK /\ [Next]_vars => LogOK'
<1>. SUFFICES ASSUME TypeInv, LogOK, [Next]_vars PROVE LogOK'
  OBVIOUS
<1>1. CASE events' = events
  BY <1>1 DEF LogOK
<1>2. CASE Emit
  <2>1. PICK e \in Events : e.ledger \in {TipLedger, TipLedger + 1}
                            /\ events' = Append(events, e)
    BY <1>2 DEF Emit
  <2>2. /\ Len(events) \in Nat /\ DOMAIN events = 1..Len(events)
        /\ DOMAIN events' = 1..(Len(events) + 1) /\ events'[Len(events) + 1] = e
        /\ \A i \in 1..Len(events) : events'[i] = events[i]
    BY <2>1, Appended DEF TypeInv, TypeOK
  <2>3. \A i \in 1..Len(events) : events[i].ledger \in Int
    BY TaskRanges, EventTypes
  <2>4. ASSUME NEW j \in 1..Len(events) PROVE events[j].ledger <= e.ledger
    <3>1. events # <<>> /\ Len(events) \in 1..Len(events)
      BY <2>2, <2>4
    <3>2. TipLedger = events[Len(events)].ledger
      BY <3>1 DEF TipLedger, Last
    <3>3. j < Len(events) => events[j].ledger <= events[Len(events)].ledger
      BY <2>2, <3>1 DEF LogOK
    <3>4. events[j].ledger <= events[Len(events)].ledger
      BY <2>2, <2>3, <3>1, <3>3
    <3>5. events[Len(events)].ledger \in Int /\ events[j].ledger \in Int
      BY <2>3, <3>1
    <3>. QED
      BY <2>1, <3>2, <3>4, <3>5
  <2>5. ASSUME NEW j \in DOMAIN events', NEW k \in DOMAIN events', j < k
        PROVE  events'[j].ledger <= events'[k].ledger
    <3>1. j \in 1..Len(events)
      BY <2>2, <2>5
    <3>2. CASE k = Len(events) + 1
      BY <2>2, <2>4, <3>1, <3>2
    <3>3. CASE k # Len(events) + 1
      <4>1. k \in 1..Len(events)
        BY <2>2, <3>3
      <4>. QED
        BY <2>2, <2>5, <3>1, <4>1 DEF LogOK
    <3>. QED
      BY <3>2, <3>3
  <2>. QED
    BY <2>5 DEF LogOK
<1>3. events' = events \/ Emit
  BY DEF Next, Progress, vars, FetchEvents, FetchWithoutCursor, Fetch, SkipEvent,
         ApplyEvent, ApplyOversized, EventFails, RecordAlert, RecordAlertFails,
         SaveCursor, Abandon, Restart
<1>. QED
  BY <1>1, <1>2, <1>3

(* What a step does to the log and to the rows: one grows or neither.      *)
LEMMA GrowStep ==
    ASSUME TypeInv, [Next]_vars
    PROVE  \/ UNCHANGED <<events, rows>>
           \/ Emit
           \/ ApplyEvent
  BY DEF Next, Progress, vars, FetchEvents, FetchWithoutCursor, Fetch, SkipEvent,
         ApplyEvent, ApplyOversized, EventFails, RecordAlert, RecordAlertFails,
         SaveCursor, Abandon, Restart

(* An event of the log stays what it is.                                   *)
LEMMA LogGrows ==
    ASSUME TypeInv, Emit
    PROVE  /\ Len(events) \in Nat /\ DOMAIN events = 1..Len(events)
           /\ Len(events') = Len(events) + 1 /\ DOMAIN events' = 1..Len(events')
           /\ \A k \in DOMAIN events : k \in DOMAIN events' /\ events'[k] = events[k]
<1>1. PICK e \in Events : events' = Append(events, e)
  BY DEF Emit
<1>2. /\ Len(events) \in Nat /\ DOMAIN events = 1..Len(events)
      /\ Len(events') = Len(events) + 1 /\ DOMAIN events' = 1..(Len(events) + 1)
      /\ \A i \in 1..Len(events) : events'[i] = events[i]
  BY <1>1, Appended DEF TypeInv, TypeOK
<1>3. 1..Len(events) \subseteq 1..(Len(events) + 1)
  BY <1>2
<1>. QED
  BY <1>2, <1>3

(* What is known of each row.                                              *)
LEMMA RowTypes ==
    ASSUME TypeInv
    PROVE  /\ Len(rows) \in Nat /\ DOMAIN rows = 1..Len(rows)
           /\ \A i \in DOMAIN rows : /\ rows[i] \in Row
                                     /\ rows[i].of \in DOMAIN events
                                     /\ rows[i].of \in Nat /\ rows[i].ledger \in Nat
                                     /\ rows[i].pos \in Positions
<1>1. rows \in Seq(Row) /\ \A i \in DOMAIN rows : rows[i].of \in DOMAIN events
  BY DEF TypeInv, TypeOK
<1>2. Len(rows) \in Nat /\ DOMAIN rows = 1..Len(rows)
      /\ \A i \in DOMAIN rows : rows[i] \in Row
  BY <1>1, LenProperties, ElementOfSeq
<1>3. \A row \in Row : row.of \in Nat /\ row.ledger \in Nat /\ row.pos \in Positions
  BY ConstantsAssumption DEF Row
<1>. QED
  BY <1>1, <1>2, <1>3

(* The row an ApplyEvent adds, at the end of rows.                         *)
LEMMA RowsGrow ==
    ASSUME TypeInv, ApplyEvent
    PROVE  /\ Len(rows) \in Nat /\ DOMAIN rows = 1..Len(rows)
           /\ DOMAIN rows' = 1..(Len(rows) + 1)
           /\ \A i \in 1..Len(rows) : rows'[i] = rows[i]
           /\ \E pos \in LatestPositions(Here.account) :
                 /\ pos \in Positions
                 /\ rows'[Len(rows) + 1] = NewRow(pos)
                 /\ task' = IF Escalates(pos, Apply(pos, Here), task.bands)
                            THEN [task EXCEPT !.pc = "alert"] ELSE Done
           /\ rows'[Len(rows) + 1].of = task.at + 1
           /\ rows'[Len(rows) + 1].account = Here.account
           /\ rows'[Len(rows) + 1].ledger = Here.ledger
<1>1. PICK pos \in LatestPositions(Here.account) :
         /\ pos \in Positions
         /\ NewRow(pos) \in Row /\ rows' = Append(rows, NewRow(pos))
         /\ task' = IF Escalates(pos, Apply(pos, Here), task.bands)
                    THEN [task EXCEPT !.pc = "alert"] ELSE Done
  BY ApplyFacts
<1>2. /\ Len(rows) \in Nat /\ DOMAIN rows = 1..Len(rows)
      /\ DOMAIN rows' = 1..(Len(rows) + 1)
      /\ \A i \in 1..Len(rows) : rows'[i] = rows[i]
      /\ rows'[Len(rows) + 1] = NewRow(pos)
  BY <1>1, Appended DEF TypeInv, TypeOK
<1>. QED
  BY <1>1, <1>2 DEF NewRow

LEMMA RowsStep == TypeInv /\ RowsOK /\ [Next]_vars => RowsOK'
<1>. SUFFICES ASSUME TypeInv, RowsOK, [Next]_vars PROVE RowsOK'
  OBVIOUS
<1>1. CASE UNCHANGED <<events, rows>>
  BY <1>1 DEF RowsOK
<1>2. CASE Emit
  <2>1. rows' = rows
    BY <1>2 DEF Emit
  <2>. QED
    BY <1>2, <2>1, LogGrows, RowTypes DEF RowsOK
<1>3. CASE ApplyEvent
  <2>1. events' = events
    BY <1>3 DEF ApplyEvent
  <2>2. Here = events[task.at + 1] /\ Here.kind \in Kinds
    BY <1>3, ApplyFacts DEF Moves
  <2>. SUFFICES ASSUME NEW i \in DOMAIN rows'
       PROVE  LET e == events[rows'[i].of]
              IN  /\ e.kind \in Kinds /\ rows'[i].account = e.account
                  /\ rows'[i].ledger = e.ledger
    BY <2>1 DEF RowsOK
  <2>3. i = Len(rows) + 1 \/ i \in 1..Len(rows)
    BY <1>3, RowsGrow
  <2>4. CASE i = Len(rows) + 1
    BY <1>3, <2>2, <2>4, RowsGrow
  <2>5. CASE i \in 1..Len(rows)
    BY <1>3, <2>5, RowsGrow DEF RowsOK
  <2>. QED
    BY <2>3, <2>4, <2>5
<1>. QED
  BY <1>1, <1>2, <1>3, GrowStep

----------------------------------------------------------------------------
(* The positions.                                                          *)

LEMMA SeqFoldable ==
    ASSUME NEW log \in Seq(Events), NEW S, S \subseteq DOMAIN log,
           \A k \in S : log[k].kind \in Kinds
    PROVE  Foldable(log, S)
<1>1. Len(log) \in Nat /\ DOMAIN log = 1..Len(log)
  BY LenProperties
<1>2. ASSUME NEW k \in 1..Len(log), k \in S PROVE Moves(log[k])
  BY <1>2, ElementOfSeq, EventTypes
<1>. QED
  BY <1>1, <1>2 DEF Foldable

(* The stored events can be folded, and their sums are of the log.         *)
LEMMA StoredFoldable ==
    ASSUME TypeInv, RowsOK
    PROVE  /\ Foldable(events, Stored) /\ Stored \subseteq DOMAIN events
           /\ DOMAIN events = 1..Len(events) /\ Len(events) \in Nat
<1>1. Stored \subseteq DOMAIN events /\ \A k \in Stored : events[k].kind \in Kinds
  BY RowTypes DEF Stored, RowsOK
<1>2. Foldable(events, Stored)
  BY <1>1, SeqFoldable DEF TypeInv, TypeOK
<1>. QED
  BY <1>1, <1>2, TaskRanges

(* While no two of an account's events share a ledger, its latest row is   *)
(* the one its last event left, and that row is the sum so far.            *)
LEMMA LatestIsSum ==
    ASSUME TypeInv, LogOK, RowsOK, SumsOK, InOrder, NEW acct,
           NEW n \in Nat, n <= Len(events),
           \A k \in Stored : events[k].account = acct => k <= n
    PROVE  LatestPositions(acct) = {Sum(acct, n)}
<1>. DEFINE Mine == {i \in DOMAIN rows : rows[i].account = acct}
<1>1. /\ Foldable(events, Stored) /\ Stored \subseteq DOMAIN events
      /\ DOMAIN events = 1..Len(events) /\ Len(events) \in Nat
  BY StoredFoldable
<1>2. \A i \in DOMAIN rows : /\ rows[i].of \in Stored
                             /\ events[rows[i].of].account = rows[i].account
                             /\ events[rows[i].of].ledger = rows[i].ledger
  BY DEF Stored, RowsOK
<1>3. CASE Mine = {}
  <2>1. LatestPositions(acct) = {NoPosition}
    BY <1>3 DEF LatestPositions, LatestRows
  <2>2. \A k \in Stored : events[k].account # acct
    BY <1>2, <1>3 DEF Stored
  <2>3. Sums(events, Stored, acct)[n] = Sums(events, Stored, acct)[0]
    BY <1>1, <2>2, SumsStill
  <2>4. Sums(events, Stored, acct)[0] = NoPosition
    BY <1>1, SumsStep
  <2>. QED
    BY <2>1, <2>3, <2>4 DEF Sum
<1>4. CASE Mine # {}
  <2>1. Mine \subseteq 0..Len(rows) /\ Len(rows) \in Nat
    BY RowTypes
  <2>2. PICK r \in Mine : \A i \in Mine : i <= r
    <3>. HIDE DEF Mine
    <3>. QED
      BY <1>4, <2>1, GreatestPos
  <2>3. ASSUME NEW i \in Mine, i # r PROVE /\ rows[i].of < rows[r].of
                                           /\ rows[i].ledger < rows[r].ledger
    <3>1. i < r
      BY <2>1, <2>2, <2>3
    <3>2. rows[i].of < rows[r].of
      BY <3>1 DEF InOrder
    <3>3. /\ rows[i].of \in Nat /\ rows[r].of \in Nat
          /\ rows[i].ledger \in Nat /\ rows[r].ledger \in Nat
          /\ rows[i].of \in DOMAIN events /\ rows[r].of \in DOMAIN events
      BY RowTypes
    <3>4. rows[i].ledger <= rows[r].ledger
      BY <1>2, <3>2, <3>3 DEF LogOK
    <3>5. rows[i].ledger # rows[r].ledger
      <4>1. rows[i].of # rows[r].of
        BY <3>2, <3>3
      <4>. QED
        BY <1>2, <4>1 DEF InOrder
    <3>. QED
      BY <3>2, <3>3, <3>4, <3>5
  <2>4. r \in DOMAIN rows /\ rows[r].ledger \in Nat /\ rows[r].of \in Nat
    BY RowTypes
  <2>5. LatestRows(acct) = {r}
    <3>1. \A i \in Mine : rows[i].ledger <= rows[r].ledger /\ rows[i].ledger \in Nat
      BY <2>3, <2>4, RowTypes
    <3>2. r \in LatestRows(acct)
      BY <3>1 DEF LatestRows
    <3>3. ASSUME NEW i \in LatestRows(acct), i # r PROVE FALSE
      <4>1. i \in Mine /\ rows[r].ledger <= rows[i].ledger
        BY DEF LatestRows
      <4>2. rows[i].ledger < rows[r].ledger /\ rows[i].ledger \in Nat
        BY <2>3, <3>1, <3>3, <4>1
      <4>. QED
        BY <2>4, <4>1, <4>2
    <3>. QED
      BY <3>2, <3>3
  <2>6. LatestPositions(acct) = {rows[r].pos}
    BY <2>5 DEF LatestPositions
  <2>7. rows[r].pos = Sum(acct, rows[r].of)
    BY <2>4 DEF SumsOK
  <2>8. ASSUME NEW k \in Stored, rows[r].of < k PROVE events[k].account # acct
    <3>1. PICK i \in DOMAIN rows : k = rows[i].of
      BY DEF Stored
    <3>. SUFFICES ASSUME i \in Mine PROVE FALSE
      BY <1>2, <3>1
    <3>2. rows[i].of <= rows[r].of
      <4>1. rows[i].of \in Nat
        BY RowTypes
      <4>2. i # r => rows[i].of < rows[r].of
        BY <2>3
      <4>. HIDE DEF Mine
      <4>. QED
        BY <2>4, <4>1, <4>2
    <3>. QED
      BY <2>4, <2>8, <3>1, <3>2, RowTypes
  <2>9. rows[r].of <= n
    BY <1>2
  <2>10. Sums(events, Stored, acct)[n] = Sums(events, Stored, acct)[rows[r].of]
    BY <1>1, <2>4, <2>8, <2>9, SumsStill
  <2>. QED
    BY <2>6, <2>7, <2>10 DEF Sum
<1>. QED
  BY <1>3, <1>4

(* A new event of the log changes no sum.                                  *)
LEMMA EmitSums ==
    ASSUME TypeInv, RowsOK, Emit
    PROVE  /\ rows' = rows /\ Stored' = Stored
           /\ InOrder' => InOrder
           /\ \A acct, k : k \in 0..Len(events) =>
                 Sums(events', Stored', acct)[k] = Sums(events, Stored, acct)[k]
<1>1. rows' = rows /\ Stored' = Stored
  BY DEF Emit, Stored
<1>2. /\ Foldable(events, Stored) /\ Stored \subseteq DOMAIN events
      /\ DOMAIN events = 1..Len(events) /\ Len(events) \in Nat
  BY StoredFoldable
<1>3. /\ Len(events') = Len(events) + 1 /\ DOMAIN events' = 1..Len(events')
      /\ \A k \in DOMAIN events : k \in DOMAIN events' /\ events'[k] = events[k]
  BY LogGrows
<1>4. InOrder' => InOrder
  BY <1>1, <1>2, <1>3 DEF InOrder
<1>5. events' \in Seq(Events)
  BY AppendProperties DEF Emit, TypeInv, TypeOK
<1>6. Foldable(events', Stored)
  <2>1. \A k \in Stored : events'[k].kind \in Kinds
    BY <1>2, <1>3 DEF RowsOK, Stored
  <2>. QED
    BY <1>2, <1>3, <1>5, <2>1, SeqFoldable
<1>7. ASSUME NEW acct, NEW k \in 0..Len(events)
      PROVE  Sums(events', Stored, acct)[k] = Sums(events, Stored, acct)[k]
  <2>1. Len(events) <= Len(events') /\ \A i \in 1..Len(events) : events'[i] = events[i]
    BY <1>2, <1>3
  <2>. QED
    BY <1>2, <1>6, <2>1, SumsAgree
<1>. QED
  BY <1>1, <1>4, <1>7

(* A new row is of an event above all the stored ones: it changes no sum   *)
(* below its event, and adds the event to its account's.                   *)
LEMMA ApplySums ==
    ASSUME TypeInv, LogOK, RowsOK, SumsOK, ApplyEvent, InOrder'
    PROVE  /\ InOrder /\ task.at \in Nat
           /\ Stored' = Stored \cup {task.at + 1}
           /\ \A k \in Stored : k \in 1..task.at
           /\ \A acct, k : k \in 0..task.at =>
                 Sums(events', Stored', acct)[k] = Sums(events, Stored, acct)[k]
           /\ \A acct : LatestPositions(acct) = {Sums(events, Stored, acct)[task.at]}
           /\ Sums(events', Stored', Here.account)[task.at + 1] =
                 Apply(Sums(events, Stored, Here.account)[task.at], Here)
<1>. DEFINE n == task.at + 1
            T == Stored \cup {n}
<1>1. events' = events /\ n \in DOMAIN events /\ Here = events[n] /\ Moves(Here)
  BY ApplyFacts DEF ApplyEvent
<1>2. /\ Foldable(events, Stored) /\ Stored \subseteq DOMAIN events
      /\ DOMAIN events = 1..Len(events) /\ Len(events) \in Nat /\ task.at \in Nat
  BY StoredFoldable, TaskRanges
<1>3. /\ Len(rows) \in Nat /\ DOMAIN rows = 1..Len(rows)
      /\ DOMAIN rows' = 1..(Len(rows) + 1)
      /\ \A i \in 1..Len(rows) : rows'[i] = rows[i]
      /\ rows'[Len(rows) + 1].of = n
  BY RowsGrow
<1>4. Stored' = T
  <2>1. ASSUME NEW k \in Stored' PROVE k \in T
    <3>1. PICK i \in 1..(Len(rows) + 1) : k = rows'[i].of
      BY <1>3 DEF Stored
    <3>2. i = Len(rows) + 1 \/ i \in 1..Len(rows)
      BY <1>3
    <3>. QED
      BY <1>3, <3>1, <3>2 DEF Stored
  <2>2. ASSUME NEW k \in T PROVE k \in Stored'
    <3>1. CASE k = n
      <4>1. Len(rows) + 1 \in DOMAIN rows'
        BY <1>3
      <4>. QED
        BY <1>3, <3>1, <4>1 DEF Stored
    <3>2. CASE k # n
      <4>1. PICK i \in 1..Len(rows) : k = rows[i].of
        BY <1>3, <3>2 DEF Stored
      <4>2. i \in DOMAIN rows' /\ rows'[i].of = k
        BY <1>3, <4>1
      <4>. QED
        BY <4>2 DEF Stored
    <3>. QED
      BY <3>1, <3>2
  <2>. QED
    BY <2>1, <2>2
<1>5. InOrder
  <2>1. \A i \in DOMAIN rows : i \in DOMAIN rows' /\ rows'[i] = rows[i]
    BY <1>3
  <2>2. Stored \subseteq Stored'
    BY <1>4
  <2>. QED
    BY <1>1, <2>1, <2>2 DEF InOrder
<1>6. ASSUME NEW k \in Stored PROVE k \in 1..task.at
  <2>1. PICK i \in 1..Len(rows) : k = rows[i].of
    BY <1>3 DEF Stored
  <2>2. i \in DOMAIN rows' /\ Len(rows) + 1 \in DOMAIN rows' /\ i < Len(rows) + 1
    BY <1>3
  <2>3. rows'[i].of < rows'[Len(rows) + 1].of
    BY <2>2 DEF InOrder
  <2>4. k < n /\ k \in Nat /\ 1 <= k
    BY <1>2, <1>3, <2>1, <2>3
  <2>. QED
    BY <1>2, <2>4
<1>7. Foldable(events, T)
  <2>1. T \subseteq DOMAIN events /\ \A k \in T : events[k].kind \in Kinds
    BY <1>1, <1>2 DEF Moves, RowsOK, Stored
  <2>. QED
    BY <2>1, SeqFoldable DEF TypeInv, TypeOK
<1>8. ASSUME NEW acct, NEW k \in 0..task.at
      PROVE  Sums(events, T, acct)[k] = Sums(events, Stored, acct)[k]
  <2>1. task.at <= Len(events) /\ \A i \in 1..task.at : i \in T <=> i \in Stored
    BY <1>1, <1>2
  <2>. HIDE DEF T
  <2>. QED
    BY <1>2, <1>7, <2>1, SumsAgree
<1>9. ASSUME NEW acct
      PROVE  LatestPositions(acct) = {Sums(events, Stored, acct)[task.at]}
  <2>1. task.at <= Len(events) /\ \A k \in Stored : k <= task.at
    BY <1>1, <1>2, <1>6
  <2>. QED
    BY <1>2, <1>5, <2>1, LatestIsSum DEF Sum
<1>10. Sums(events, T, Here.account)[n] =
          Apply(Sums(events, Stored, Here.account)[task.at], Here)
  <2>1. n \in 1..Len(events) /\ n \in T /\ n - 1 = task.at /\ task.at \in 0..task.at
    BY <1>1, <1>2
  <2>2. Sums(events, T, Here.account)[n] =
           Apply(Sums(events, T, Here.account)[n - 1], events[n])
    <3>. HIDE DEF T, n
    <3>. QED
      BY <1>1, <1>7, <2>1, SumsStep
  <2>. QED
    BY <1>1, <1>8, <2>1, <2>2
<1>. QED
  BY <1>1, <1>2, <1>4, <1>5, <1>6, <1>8, <1>9, <1>10

(* Every step that keeps the rows in order keeps each one its account's    *)
(* sum.                                                                    *)
LEMMA SumsOKStep ==
    TypeInv /\ LogOK /\ RowsOK /\ SumsOK /\ [Next]_vars => SumsOK'
<1>. SUFFICES ASSUME TypeInv, LogOK, RowsOK, SumsOK, [Next]_vars, InOrder',
                     NEW i \in DOMAIN rows'
     PROVE  rows'[i].pos = Sums(events', Stored', rows'[i].account)[rows'[i].of]
  BY DEF SumsOK, Sum
<1>1. CASE UNCHANGED <<events, rows>>
  <2>1. InOrder /\ Stored' = Stored
    BY <1>1 DEF InOrder, Stored
  <2>. QED
    BY <1>1, <2>1 DEF SumsOK, Sum
<1>2. CASE Emit
  <2>1. InOrder /\ rows' = rows
    BY <1>2, EmitSums
  <2>2. rows[i].pos = Sums(events, Stored, rows[i].account)[rows[i].of]
    BY <2>1 DEF SumsOK, Sum
  <2>3. rows[i].of \in 0..Len(events)
    BY <2>1, RowTypes, TaskRanges
  <2>. QED
    BY <1>2, <2>1, <2>2, <2>3, EmitSums
<1>3. CASE ApplyEvent
  <2>1. /\ InOrder /\ task.at \in Nat /\ \A k \in Stored : k \in 1..task.at
        /\ \A acct, k : k \in 0..task.at =>
              Sums(events', Stored', acct)[k] = Sums(events, Stored, acct)[k]
    BY <1>3, ApplySums
  <2>2. i = Len(rows) + 1 \/ i \in 1..Len(rows)
    BY <1>3, RowsGrow
  <2>3. CASE i \in 1..Len(rows)
    <3>1. i \in DOMAIN rows /\ rows'[i] = rows[i]
      BY <1>3, <2>3, RowsGrow
    <3>2. rows[i].pos = Sums(events, Stored, rows[i].account)[rows[i].of]
      BY <2>1, <3>1 DEF SumsOK, Sum
    <3>3. rows[i].of \in 0..task.at
      BY <2>1, <3>1 DEF Stored
    <3>. QED
      BY <2>1, <3>1, <3>2, <3>3
  <2>4. CASE i = Len(rows) + 1
    <3>1. PICK pos \in LatestPositions(Here.account) : rows'[i] = NewRow(pos)
      BY <1>3, <2>4, RowsGrow
    <3>2. pos = Sums(events, Stored, Here.account)[task.at]
      BY <1>3, ApplySums
    <3>3. /\ rows'[i].account = Here.account /\ rows'[i].of = task.at + 1
          /\ rows'[i].pos = Apply(pos, Here)
      BY <3>1 DEF NewRow
    <3>. QED
      BY <1>3, <3>2, <3>3, ApplySums
  <2>. QED
    BY <2>2, <2>3, <2>4
<1>. QED
  BY <1>1, <1>2, <1>3, GrowStep

LEMMA PositionsInit == Init => LogOK /\ RowsOK /\ SumsOK
  BY DEF Init, LogOK, RowsOK, SumsOK

LEMMA CleanMeans ==
    ASSUME Clean, NoTies
    PROVE  InOrder
  BY DEF Clean, NoTies, InOrder

(* If each event was folded in once and in order, and no account had two   *)
(* in one ledger, every stored position is what its account's stored       *)
(* events add up to, wherever cycles ended and restarts came.              *)
THEOREM PositionsAreSums == Spec => []PositionsAreTrue
<1>1. ASSUME TypeInv, LogOK, RowsOK, SumsOK PROVE PositionsAreTrue
  <2>. SUFFICES ASSUME Clean, NoTies, NEW acct \in Accounts
       PROVE  LatestPositions(acct) = {Truth(acct, Len(events))}
    BY DEF PositionsAreTrue
  <2>1. InOrder
    BY CleanMeans
  <2>2. /\ Len(events) \in Nat /\ Len(events) <= Len(events)
        /\ Foldable(events, Stored) /\ \A k \in Stored : k <= Len(events)
    BY <1>1, StoredFoldable
  <2>3. LatestPositions(acct) = {Sum(acct, Len(events))}
    BY <1>1, <2>1, <2>2, LatestIsSum
  <2>4. Len(events) \in 0..Len(events)
    BY <2>2
  <2>. QED
    BY <2>2, <2>3, <2>4, SumsAreNet DEF Sum, Truth
<1>. QED
  BY <1>1, TypeInit, TypeStep, PositionsInit, LogStep, RowsStep, SumsOKStep, PTL DEF Spec
----------------------------------------------------------------------------
(* The alerts.                                                             *)

(* Along a step that keeps the rows in order, an event that was stored     *)
(* still is, and crosses the bands it crossed.                             *)
LEMMA CrossingsKept ==
    ASSUME TypeInv, LogOK, RowsOK, SumsOK, [Next]_vars, InOrder'
    PROVE  /\ InOrder /\ Stored \subseteq Stored'
           /\ \A k \in Stored : \A b : (StoredCrosses(k, b))' <=> StoredCrosses(k, b)
<1>0. /\ Stored \subseteq 1..Len(events) /\ Len(events) \in Nat
      /\ DOMAIN events = 1..Len(events)
  BY StoredFoldable
<1>. DEFINE Same(k) == /\ events'[k] = events[k]
                       /\ \A acct, i : i \in {k - 1, k} =>
                             Sums(events', Stored', acct)[i] = Sums(events, Stored, acct)[i]
<1>1. InOrder /\ Stored \subseteq Stored' /\ \A k \in Stored : Same(k)
  <2>1. CASE UNCHANGED <<events, rows>>
    BY <2>1 DEF InOrder, Stored
  <2>2. CASE Emit
    <3>1. \A k \in Stored : /\ k - 1 \in 0..Len(events) /\ k \in 0..Len(events)
                            /\ k \in DOMAIN events
      BY <1>0
    <3>2. \A k \in DOMAIN events : events'[k] = events[k]
      BY <2>2, LogGrows
    <3>. QED
      BY <2>2, <3>1, <3>2, EmitSums
  <2>3. CASE ApplyEvent
    <3>1. /\ InOrder /\ task.at \in Nat /\ \A k \in Stored : k \in 1..task.at
          /\ Stored \subseteq Stored'
          /\ \A acct, k : k \in 0..task.at =>
                Sums(events', Stored', acct)[k] = Sums(events, Stored, acct)[k]
      BY <2>3, ApplySums
    <3>2. \A k \in Stored : k - 1 \in 0..task.at /\ k \in 0..task.at
      BY <3>1
    <3>3. events' = events
      BY <2>3 DEF ApplyEvent
    <3>. QED
      BY <3>1, <3>2, <3>3
  <2>. QED
    BY <2>1, <2>2, <2>3, GrowStep
<1>2. ASSUME NEW k \in Stored, NEW b
      PROVE  (StoredCrosses(k, b))' <=> StoredCrosses(k, b)
  <2>1. Same(k)
    BY <1>1
  <2>2. /\ events'[k].account = events[k].account
        /\ Sums(events', Stored', events[k].account)[k - 1]
              = Sums(events, Stored, events[k].account)[k - 1]
        /\ Sums(events', Stored', events[k].account)[k]
              = Sums(events, Stored, events[k].account)[k]
    BY <2>1
  <2>. QED
    BY <2>2 DEF StoredCrosses, Sum
<1>. QED
  BY <1>1, <1>2

Answered(k) == \/ \E a \in ToSet(alerts) \cup lost : a.event = k
               \/ Pending(k)

(* A step that adds no row and no alert keeps AlertsOK if the alert that   *)
(* was pending still is or has been lost, and none has come up.            *)
LEMMA QuietAlerts ==
    ASSUME TypeInv, LogOK, RowsOK, SumsOK, AlertsOK, [Next]_vars,
           UNCHANGED <<rows, alerts>>, lost \subseteq lost',
           task.pc = "alert" => \/ task' = task
                                \/ ThisAlert \in lost',
           task'.pc = "alert" => task' = task
    PROVE  AlertsOK'
<1>. SUFFICES ASSUME InOrder' PROVE AlertsOK'
  BY DEF AlertsOK
<1>1. /\ InOrder /\ Stored' = Stored
      /\ \A k \in Stored : \A b : (StoredCrosses(k, b))' <=> StoredCrosses(k, b)
  BY CrossingsKept DEF Stored
<1>2. ASSUME NEW k \in Stored
      PROVE  \/ Answered(k)'
             \/ \E b \in Bands : ~ (StoredCrosses(k, b))'
  <2>1. \/ Answered(k)
        \/ \E b \in Bands : ~ StoredCrosses(k, b)
    BY <1>1 DEF AlertsOK, Answered
  <2>2. CASE \E a \in ToSet(alerts) \cup lost : a.event = k
    BY <2>2 DEF Answered
  <2>3. CASE Pending(k)
    <3>1. task' = task => Answered(k)'
      BY <2>3 DEF Answered, Pending
    <3>2. ThisAlert \in lost' => Answered(k)'
      BY <2>3 DEF Answered, Pending, ThisAlert
    <3>. QED
      BY <2>3, <3>1, <3>2 DEF Pending
  <2>4. CASE \E b \in Bands : ~ StoredCrosses(k, b)
    BY <1>1, <2>4
  <2>. QED
    BY <2>1, <2>2, <2>3, <2>4 DEF Answered
<1>3. \A i, j \in DOMAIN alerts' : alerts'[i].event = alerts'[j].event => i = j
  BY <1>1 DEF AlertsOK
<1>4. \A i \in DOMAIN alerts' : /\ alerts'[i].event \in Stored'
                                /\ (StoredCrosses(alerts[i].event, alerts[i].bands))'
  <2>1. \A i \in DOMAIN alerts : /\ alerts[i].event \in Stored
                                 /\ StoredCrosses(alerts[i].event, alerts[i].bands)
    BY <1>1 DEF AlertsOK
  <2>2. \A i \in DOMAIN alerts :
           (StoredCrosses(alerts[i].event, alerts[i].bands))'
              <=> StoredCrosses(alerts[i].event, alerts[i].bands)
    BY <1>1, <2>1 DEF StoredCrosses, Sum
  <2>. QED
    BY <1>1, <2>1, <2>2
<1>5. task'.pc = "alert" =>
         /\ task'.at + 1 \in Stored'
         /\ (StoredCrosses(task.at + 1, task.bands))'
         /\ \A i \in DOMAIN alerts' : alerts'[i].event # task'.at + 1
  <2>. SUFFICES ASSUME task'.pc = "alert" PROVE
         /\ task.at + 1 \in Stored'
         /\ (StoredCrosses(task.at + 1, task.bands))'
         /\ \A i \in DOMAIN alerts : alerts[i].event # task.at + 1
    OBVIOUS
  <2>1. task' = task /\ task.pc = "alert"
    OBVIOUS
  <2>2. /\ task.at + 1 \in Stored
        /\ StoredCrosses(task.at + 1, task.bands)
        /\ \A i \in DOMAIN alerts : alerts[i].event # task.at + 1
    BY <1>1, <2>1 DEF AlertsOK
  <2>. QED
    BY <1>1, <2>1, <2>2 DEF StoredCrosses, Sum
<1>. QED
  BY <1>1, <1>2, <1>3, <1>4, <1>5 DEF AlertsOK, Answered

(* Recording the pending alert.                                            *)
LEMMA RecordAlerts ==
    ASSUME TypeInv, LogOK, RowsOK, SumsOK, AlertsOK, RecordAlert
    PROVE  AlertsOK'
<1>. SUFFICES ASSUME InOrder' PROVE AlertsOK'
  BY DEF AlertsOK
<1>0. [Next]_vars
  BY DEF Next, Progress
<1>1. /\ InOrder /\ Stored' = Stored
      /\ \A k \in Stored : \A b : (StoredCrosses(k, b))' <=> StoredCrosses(k, b)
  BY <1>0, CrossingsKept DEF RecordAlert, Stored
<1>2. task.at < task.upto /\ task.pc = "alert"
  BY DEF RecordAlert, TypeInv, StageOK
<1>3. /\ task'.pc = "process" /\ lost' = lost
      /\ ThisAlert \in Alert /\ ThisAlert.event = task.at + 1
      /\ ThisAlert.bands = task.bands
  BY <1>2, NextEvent DEF RecordAlert
<1>4. /\ Len(alerts) \in Nat /\ DOMAIN alerts = 1..Len(alerts)
      /\ DOMAIN alerts' = 1..(Len(alerts) + 1)
      /\ alerts'[Len(alerts) + 1] = ThisAlert
      /\ \A i \in 1..Len(alerts) : alerts'[i] = alerts[i]
  BY <1>3, Appended DEF RecordAlert, TypeInv, TypeOK
<1>5. /\ task.at + 1 \in Stored
      /\ StoredCrosses(task.at + 1, task.bands)
      /\ \A i \in DOMAIN alerts : alerts[i].event # task.at + 1
  BY <1>1, <1>2 DEF AlertsOK
<1>6. \A i, j \in DOMAIN alerts : alerts[i].event = alerts[j].event => i = j
  BY <1>1 DEF AlertsOK
<1>7. \A i \in DOMAIN alerts : /\ alerts[i].event \in Stored
                               /\ StoredCrosses(alerts[i].event, alerts[i].bands)
  BY <1>1 DEF AlertsOK
<1>8. \A i \in DOMAIN alerts' : i = Len(alerts) + 1 \/ i \in 1..Len(alerts)
  BY <1>4
<1>9. \A i, j \in DOMAIN alerts' : alerts'[i].event = alerts'[j].event => i = j
  BY <1>3, <1>4, <1>5, <1>6, <1>8
<1>10. ASSUME NEW i \in DOMAIN alerts'
       PROVE  /\ alerts'[i].event \in Stored'
              /\ (StoredCrosses(alerts[i].event, alerts[i].bands))'
  <2>. DEFINE e == alerts'[i].event
              b == alerts'[i].bands
  <2>1. e \in Stored /\ StoredCrosses(e, b)
    BY <1>3, <1>4, <1>5, <1>7, <1>8
  <2>2. LET acct == events'[e].account
        IN  Escalates(Sums(events', Stored', acct)[e - 1], Sums(events', Stored', acct)[e], b)
    BY <1>1, <2>1 DEF StoredCrosses, Sum, RecordAlert
  <2>. QED
    BY <1>1, <2>1, <2>2 DEF StoredCrosses, Sum
<1>11. ASSUME NEW k \in Stored
       PROVE  \/ Answered(k)'
              \/ \E b \in Bands : ~ (StoredCrosses(k, b))'
  <2>1. \/ Answered(k)
        \/ \E b \in Bands : ~ StoredCrosses(k, b)
    BY <1>1 DEF AlertsOK, Answered
  <2>2. ASSUME NEW i \in DOMAIN alerts', alerts'[i].event = k PROVE Answered(k)'
    BY <2>2 DEF Answered, ToSet
  <2>3. CASE \E a \in ToSet(alerts) : a.event = k
    <3>1. PICK i \in 1..Len(alerts) : alerts[i].event = k
      BY <1>4, <2>3 DEF ToSet
    <3>2. i \in DOMAIN alerts' /\ alerts'[i].event = k
      BY <1>4, <3>1
    <3>. QED
      BY <2>2, <3>2
  <2>4. CASE \E a \in lost : a.event = k
    BY <1>3, <2>4 DEF Answered
  <2>5. CASE Pending(k)
    <3>1. /\ Len(alerts) + 1 \in DOMAIN alerts'
          /\ alerts'[Len(alerts) + 1].event = k
      BY <1>3, <1>4, <2>5 DEF Pending
    <3>. QED
      BY <2>2, <3>1
  <2>6. CASE \E b \in Bands : ~ StoredCrosses(k, b)
    BY <1>1, <2>6
  <2>. QED
    BY <2>1, <2>3, <2>4, <2>5, <2>6 DEF Answered
<1>. QED
  BY <1>1, <1>3, <1>9, <1>10, <1>11 DEF AlertsOK, Answered

(* A position event: the row it adds is an upward crossing exactly if the  *)
(* code finds it to be one, from the latest row it read.                   *)
LEMMA ApplyAlerts ==
    ASSUME TypeInv, LogOK, RowsOK, SumsOK, AlertsOK, ApplyEvent
    PROVE  AlertsOK'
<1>. SUFFICES ASSUME InOrder' PROVE AlertsOK'
  BY DEF AlertsOK
<1>0. [Next]_vars
  BY DEF Next, Progress
<1>0a. PICK n \in Nat : n = task.at + 1
  BY TaskRanges
<1>1. /\ InOrder
      /\ \A k \in Stored : \A b : (StoredCrosses(k, b))' <=> StoredCrosses(k, b)
  BY <1>0, CrossingsKept
<1>2. /\ task.at \in Nat /\ Stored' = Stored \cup {n}
      /\ \A k \in Stored : k \in 1..task.at
      /\ \A acct, k : k \in 0..task.at =>
            Sums(events', Stored', acct)[k] = Sums(events, Stored, acct)[k]
      /\ \A acct : LatestPositions(acct) = {Sums(events, Stored, acct)[task.at]}
      /\ Sums(events', Stored', Here.account)[n] =
            Apply(Sums(events, Stored, Here.account)[task.at], Here)
  BY <1>0a, ApplySums
<1>3. n \notin Stored
  BY <1>0a, <1>2
<1>4. /\ task.at < task.upto /\ task.pc = "process" /\ Here = events[n]
      /\ events' = events /\ alerts' = alerts /\ lost' = lost
      /\ task.bands \in Bands
  BY <1>0a, ApplyFacts, TaskRanges DEF ApplyEvent
<1>5. PICK pos \in LatestPositions(Here.account) :
         task' = IF Escalates(pos, Apply(pos, Here), task.bands)
                 THEN [task EXCEPT !.pc = "alert"] ELSE Done
  BY RowsGrow
<1>6. ASSUME NEW b PROVE (StoredCrosses(n, b))' <=> Escalates(pos, Apply(pos, Here), b)
  <2>1. pos = Sums(events, Stored, Here.account)[task.at]
    BY <1>2
  <2>2. n - 1 = task.at /\ task.at \in 0..task.at
    BY <1>0a, <1>2
  <2>3. Sums(events', Stored', Here.account)[n - 1] = pos
    <3>1. \A acct : Sums(events', Stored', acct)[task.at] = Sums(events, Stored, acct)[task.at]
      BY <1>2, <2>2, Zenon
    <3>2. Sums(events', Stored', Here.account)[task.at]
          = Sums(events, Stored, Here.account)[task.at]
      BY <3>1, Zenon
    <3>. QED
      BY <2>1, <2>2, <3>2, Zenon
  <2>4. Sums(events', Stored', Here.account)[n] = Apply(pos, Here)
    BY <1>2, <2>1
  <2>5. events'[n].account = Here.account
    BY <1>4
  <2>. QED
    BY <2>3, <2>4, <2>5 DEF StoredCrosses, Sum
<1>7. PICK bs \in Bands : bs = task.bands
  BY <1>4
<1>8. \/ task'.pc = "alert" /\ task'.at + 1 = n /\ task'.bands = bs
         /\ (StoredCrosses(n, bs))'
      \/ task'.pc = "process" /\ ~ (StoredCrosses(n, bs))'
  <2>1. CASE Escalates(pos, Apply(pos, Here), bs)
    <3>1. task' = [task EXCEPT !.pc = "alert"] /\ task \in Task
      BY <1>5, <1>7, <2>1 DEF TypeInv, TypeOK
    <3>2. task'.pc = "alert" /\ task'.at = task.at /\ task'.bands = task.bands
      BY <3>1 DEF Task
    <3>. QED
      BY <1>0a, <1>6, <1>7, <2>1, <3>2
  <2>2. CASE ~ Escalates(pos, Apply(pos, Here), bs)
    <3>1. task' = Done
      BY <1>5, <1>7, <2>2
    <3>. QED
      BY <1>4, <1>6, <2>2, <3>1, NextEvent
  <2>. QED
    BY <2>1, <2>2
<1>9. /\ \A i, j \in DOMAIN alerts : alerts[i].event = alerts[j].event => i = j
      /\ \A i \in DOMAIN alerts : /\ alerts[i].event \in Stored
                                  /\ StoredCrosses(alerts[i].event, alerts[i].bands)
  BY <1>1 DEF AlertsOK
<1>10. ASSUME NEW i \in DOMAIN alerts'
       PROVE  /\ alerts'[i].event \in Stored' /\ alerts'[i].event # n
              /\ (StoredCrosses(alerts[i].event, alerts[i].bands))'
  <2>1. PICK e \in Stored : e = alerts[i].event
    BY <1>4, <1>9
  <2>2. PICK b : b = alerts[i].bands
    OBVIOUS
  <2>3. (StoredCrosses(e, b))'
    BY <1>1, <1>4, <1>9, <2>1, <2>2
  <2>. QED
    BY <1>2, <1>3, <1>4, <2>1, <2>2, <2>3 DEF StoredCrosses, Sum
<1>11. ASSUME NEW k \in Stored'
       PROVE  \/ Answered(k)'
              \/ \E b \in Bands : ~ (StoredCrosses(k, b))'
  <2>1. CASE k = n
    BY <1>8, <2>1 DEF Answered, Pending
  <2>2. CASE k \in Stored
    <3>1. \/ Answered(k)
          \/ \E b \in Bands : ~ StoredCrosses(k, b)
      BY <1>1, <2>2 DEF AlertsOK, Answered
    <3>2. Answered(k) => Answered(k)'
      BY <1>4 DEF Answered, Pending
    <3>. QED
      BY <1>1, <2>2, <3>1, <3>2
  <2>. QED
    BY <1>2, <2>1, <2>2
<1>12. task'.pc = "alert" =>
          /\ task'.at + 1 \in Stored'
          /\ (StoredCrosses(task.at + 1, task.bands))'
          /\ \A i \in DOMAIN alerts' : alerts'[i].event # task'.at + 1
  <2>. SUFFICES ASSUME task'.pc = "alert"
       PROVE  /\ task'.at + 1 \in Stored'
              /\ (StoredCrosses(task.at + 1, task.bands))'
              /\ \A i \in DOMAIN alerts' : alerts'[i].event # task'.at + 1
    OBVIOUS
  <2>1. task'.at + 1 = n /\ task'.bands = bs /\ (StoredCrosses(n, bs))'
    BY <1>8
  <2>. QED
    BY <1>2, <1>10, <2>1 DEF StoredCrosses, Sum
<1>. QED
  BY <1>4, <1>9, <1>10, <1>11, <1>12 DEF AlertsOK, Answered

LEMMA AlertsInit == Init => AlertsOK
  BY IdleTask DEF Init, AlertsOK, Stored

(* Every step preserves AlertsOK.                                          *)
LEMMA AlertsStep ==
    TypeInv /\ LogOK /\ RowsOK /\ SumsOK /\ AlertsOK /\ [Next]_vars => AlertsOK'
<1>. SUFFICES ASSUME TypeInv, LogOK, RowsOK, SumsOK, AlertsOK, [Next]_vars
     PROVE  AlertsOK'
  OBVIOUS
<1>1. CASE UNCHANGED vars
  BY <1>1, QuietAlerts DEF vars
<1>2. CASE Emit
  BY <1>2, QuietAlerts DEF Emit
<1>3. CASE FetchEvents \/ FetchWithoutCursor
  BY <1>3, QuietAlerts DEF FetchEvents, FetchWithoutCursor, Fetch
<1>4. CASE SkipEvent \/ EventFails
  <2>1. /\ task.pc = "process" /\ task.at < task.upto /\ task' = Done
        /\ UNCHANGED <<rows, alerts, lost>>
    BY <1>4 DEF SkipEvent, EventFails, HasNext
  <2>2. task'.pc = "process"
    BY <2>1, NextEvent
  <2>. QED
    BY <2>1, <2>2, QuietAlerts
<1>5. CASE ApplyEvent
  BY <1>5, ApplyAlerts
<1>6. CASE ApplyOversized
  <2>1. task.pc = "process" /\ task' = [Idle EXCEPT !.pc = "dead"]
        /\ UNCHANGED <<rows, alerts, lost>>
    BY <1>6 DEF ApplyOversized, HasNext
  <2>. QED
    BY <2>1, IdleTask, QuietAlerts
<1>7. CASE RecordAlert
  BY <1>7, RecordAlerts
<1>8. CASE RecordAlertFails
  <2>1. /\ task.pc = "alert" /\ task' = Done /\ lost' = lost \cup {ThisAlert}
        /\ UNCHANGED <<rows, alerts>>
    BY <1>8 DEF RecordAlertFails
  <2>2. task'.pc = "process"
    BY <2>1, NextEvent DEF TypeInv, StageOK
  <2>. QED
    BY <2>1, <2>2, QuietAlerts
<1>9. CASE SaveCursor
  BY <1>9, IdleTask, QuietAlerts DEF SaveCursor
<1>10. CASE Abandon
  BY <1>10, IdleTask, QuietAlerts DEF Abandon
<1>11. CASE Restart
  BY <1>11, IdleTask, QuietAlerts DEF Restart
<1>. QED
  BY <1>1, <1>2, <1>3, <1>4, <1>5, <1>6, <1>7, <1>8, <1>9, <1>10, <1>11
  DEF Next, Progress

(* Under the same two conditions every upward crossing into HIGH or        *)
(* CRITICAL is alerted on, once, by the bands its cycle loaded, unless its *)
(* insert failed or a crash came first, and nothing else is alerted on.    *)
THEOREM AlertsExactlyCrossings == Spec => []AlertsAreCrossings
<1>1. ASSUME TypeInv, RowsOK, AlertsOK PROVE AlertsAreCrossings
  <2>. SUFFICES ASSUME Clean, NoTies
       PROVE  /\ \A i, j \in DOMAIN alerts : alerts[i].event = alerts[j].event => i = j
              /\ \A i \in DOMAIN alerts : Crosses(alerts[i].event, alerts[i].bands)
              /\ \A k \in Stored :
                    \/ \E a \in ToSet(alerts) \cup lost : a.event = k
                    \/ task.pc = "alert" /\ task.at + 1 = k
                    \/ \E b \in Bands : ~ Crosses(k, b)
    BY DEF AlertsAreCrossings
  <2>1. InOrder
    BY CleanMeans
  <2>2. ASSUME NEW k \in Stored, NEW b PROVE StoredCrosses(k, b) <=> Crosses(k, b)
    <3>1. Foldable(events, Stored) /\ k \in 1..Len(events) /\ Len(events) \in Nat
      BY <1>1, StoredFoldable
    <3>2. k \in 0..Len(events) /\ k - 1 \in 0..Len(events)
      BY <3>1
    <3>3. \A acct : /\ Sum(acct, k) = Truth(acct, k)
                    /\ Sum(acct, k - 1) = Truth(acct, k - 1)
      BY <3>1, <3>2, SumsAreNet DEF Sum, Truth
    <3>. QED
      BY <3>3 DEF StoredCrosses, Crosses
  <2>. QED
    BY <1>1, <2>1, <2>2 DEF AlertsOK, Pending
<1>. QED
  BY <1>1, TypeInit, TypeStep, PositionsInit, LogStep, RowsStep, SumsOKStep,
     AlertsInit, AlertsStep, PTL DEF Spec

============================================================================
