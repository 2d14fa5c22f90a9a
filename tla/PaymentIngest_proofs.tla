------------------------ MODULE PaymentIngest_proofs ------------------------
(***************************************************************************)
(* Proofs about PaymentIngest for every value of its constants: the types  *)
(* and that only whales are stored for any number of ingest processes,     *)
(* and, for the single process a deployment runs, that it implements       *)
(* WhaleFeed.                                                              *)
(***************************************************************************)
EXTENDS PaymentIngest, WellFoundedInduction, TLAPS

(* Where a cycle stands in the log, per stage: true of every process,      *)
(* whatever the others do to the database.                                 *)
StageOK(t) ==
    /\ t.pc \in {"idle", "readCursor", "seedFetch"} =>
          t.pages = 0 /\ t.pending = {}
    /\ t.pc = "seedSave" => t.at \in 1..Tip
    /\ t.pc = "fetch" => /\ 1 <= t.at /\ t.at <= t.hi
                         /\ t.pages < MaxPages /\ t.pending = {}
    /\ t.pc = "process" => 1 <= t.at /\ t.at <= t.hi /\ t.hi <= Tip
    /\ t.pc = "alert" => t.pending # {}

TypeInv == /\ TypeOK
           /\ cursor # NoCursor => cursor <= Tip
           /\ \A q \in Ingesters : /\ StageOK(task[q])
                                   /\ task[q].pc = "fetch" => task[q].hi <= Tip

----------------------------------------------------------------------------

(* A nonempty set of positions has its minimum.                            *)
LEMMA MinOfPositions ==
    ASSUME NEW S, S \subseteq Pos, S # {}
    PROVE  Min(S) \in S
<1>1. S \subseteq Nat
  BY DEF Pos
<1>2. PICK n \in S : \A m \in S : ~ (<<m, n>> \in OpToRel(<, Nat))
  BY <1>1, WFMin, NatLessThanWellFounded
<1>3. ASSUME NEW m \in S, m < n PROVE FALSE
  <2>1. <<m, n>> \in Nat \X Nat /\ <<m, n>>[1] = m /\ <<m, n>>[2] = n
    BY <1>1
  <2>2. <<m, n>>[1] < <<m, n>>[2]
    BY <1>3, <2>1
  <2>3. <<m, n>> \in OpToRel(<, Nat)
    BY <2>1, <2>2, Zenon DEF OpToRel
  <2>. QED
    BY <1>2, <2>3
<1>4. \A m \in S : n <= m
  BY <1>1, <1>3
<1>. QED
  BY <1>4 DEF Min

LEMMA MinOfTwo ==
    ASSUME NEW a \in Int, NEW b \in Int
    PROVE  Min({a, b}) = IF a <= b THEN a ELSE b
  BY DEF Min

(* Replacing one process's task keeps TypeInv if the new task is sound.    *)
LEMMA TaskUpdate ==
    ASSUME TypeInv, NEW p \in Ingesters, NEW t \in Task,
           Continue(p, t),
           chain' = chain,
           StageOK(t), t.pc = "fetch" => t.hi <= Tip
    PROVE  /\ task' \in [Ingesters -> Task]
           /\ \A q \in Ingesters : /\ StageOK(task[q])'
                                   /\ (task[q].pc = "fetch" => task[q].hi <= Tip)'
<1>1. task \in [Ingesters -> Task]
  BY DEF TypeInv, TypeOK
<1>2. \A q \in Ingesters : task'[q] = IF q = p THEN t ELSE task[q]
  BY <1>1 DEF Continue
<1>. QED
  BY <1>1, <1>2 DEF TypeInv, StageOK, Tip, Continue

(* A task stays a task when its stage, position and counts change.         *)
LEMMA TaskExcept ==
    ASSUME NEW t \in Task
    PROVE  /\ \A k, h \in 0..MaxPayments :
                 [t EXCEPT !.pc = "fetch", !.at = k, !.hi = h] \in Task
           /\ \A h \in 0..MaxPayments, n \in 0..MaxPages,
                 c \in {"process", "fetch"} :
                 [t EXCEPT !.pc = c, !.hi = h, !.pages = n] \in Task
           /\ \A k \in 0..MaxPayments, s \in SUBSET Pos :
                 [t EXCEPT !.at = k, !.pending = s] \in Task
<1>1. ASSUME NEW k \in 0..MaxPayments, NEW h \in 0..MaxPayments
      PROVE  [t EXCEPT !.pc = "fetch", !.at = k, !.hi = h] \in Task
  BY DEF Task
<1>2. ASSUME NEW h \in 0..MaxPayments, NEW n \in 0..MaxPages,
             NEW c \in {"process", "fetch"}
      PROVE  [t EXCEPT !.pc = c, !.hi = h, !.pages = n] \in Task
  BY DEF Task
<1>3. ASSUME NEW k \in 0..MaxPayments, NEW s \in SUBSET Pos
      PROVE  [t EXCEPT !.at = k, !.pending = s] \in Task
  BY DEF Task
<1>. QED
  BY <1>1, <1>2, <1>3

(* A process between cycles is in a sound state.                           *)
LEMMA IdleOK ==
    /\ Idle \in Task
    /\ StageOK(Idle)
    /\ Idle.pc = "idle"
  BY ConstantsAssumption DEF Idle, Task, StageOK, DefaultRules

(* The initial state satisfies TypeInv.                                    *)
LEMMA TypeInit == Init => TypeInv
<1>. SUFFICES ASSUME Init PROVE TypeInv
  OBVIOUS
<1>1. chain \in Seq(Payments) /\ Tip = 0
  BY DEF Init, Tip
<1>. QED
  BY <1>1, IdleOK, ConstantsAssumption
  DEF Init, TypeInv, TypeOK, DefaultRules, Pos, Tip

(* Every step preserves TypeInv.                                           *)
LEMMA TypeStep == TypeInv /\ [Next]_vars => TypeInv'
<1>. SUFFICES ASSUME TypeInv, [Next]_vars PROVE TypeInv'
  OBVIOUS
<1>. USE ConstantsAssumption
<1>1. CASE UNCHANGED vars
  BY <1>1 DEF vars, TypeInv, TypeOK, StageOK, Tip
<1>2. CASE NewPayment
  <2>1. PICK pay \in Payments : chain' = Append(chain, pay)
    BY <1>2 DEF NewPayment
  <2>2. chain' \in Seq(Payments) /\ Tip' = Tip + 1 /\ Tip' <= MaxPayments
    BY <1>2, <2>1 DEF NewPayment, TypeInv, TypeOK, Tip
  <2>3. \A q \in Ingesters : /\ StageOK(task[q])'
                             /\ (task[q].pc = "fetch" => task[q].hi <= Tip)'
    <3>. SUFFICES ASSUME NEW q \in Ingesters
                  PROVE  /\ StageOK(task[q])'
                         /\ (task[q].pc = "fetch" => task[q].hi <= Tip)'
      OBVIOUS
    <3>1. task' = task /\ task[q] \in Task
      BY <1>2 DEF NewPayment, TypeInv, TypeOK
    <3>2. StageOK(task[q]) /\ (task[q].pc = "fetch" => task[q].hi <= Tip)
      BY DEF TypeInv
    <3>3. Tip \in Nat
      BY DEF TypeInv, TypeOK, Tip
    <3>. QED
      BY <2>2, <3>1, <3>2, <3>3 DEF StageOK, Task
  <2>4. TypeOK' /\ (cursor # NoCursor => cursor <= Tip)'
    <3>1. /\ cursor' = cursor /\ rules' = rules /\ whales' = whales
          /\ alerts' = alerts /\ task' = task /\ seed' = seed
          /\ lost' = lost /\ faults' = faults
      BY <1>2 DEF NewPayment, db
    <3>2. TypeOK'
      BY <2>2, <3>1 DEF TypeInv, TypeOK, Tip
    <3>3. cursor # NoCursor => cursor \in Nat /\ cursor <= Tip /\ Tip \in Nat
      BY DEF TypeInv, TypeOK, Tip, Pos
    <3>. QED
      BY <2>2, <3>1, <3>2, <3>3
  <2>. QED
    BY <2>3, <2>4 DEF TypeInv
<1>3. CASE ChangeRule
  BY <1>3 DEF ChangeRule, db, TypeInv, TypeOK, StageOK, Tip
<1>4. ASSUME NEW p \in Ingesters, Progress(p) \/ Fault(p) PROVE TypeInv'
  <2>. DEFINE t == task[p]
              Done(n) == n \in Task /\ StageOK(n) /\ (n.pc = "fetch" => n.hi <= Tip)
  <2>0. /\ t \in Task /\ StageOK(t)
        /\ Tip \in 0..MaxPayments
    BY DEF TypeInv, TypeOK, Tip
  <2>0a. Done(Idle)
    BY IdleOK
  <2>1. CASE StartCycle(p)
    <3>. DEFINE n == [t EXCEPT !.pc = "readCursor", !.rules = rules]
    <3>1. Done(n)
      BY <2>0, <2>1 DEF StartCycle, TypeInv, TypeOK, Task, StageOK
    <3>. QED
      BY <2>1, <3>1, TaskUpdate DEF StartCycle, db, TypeInv, TypeOK, Tip
  <2>2. CASE StartCycleWithoutRules(p)
    <3>. DEFINE n == [t EXCEPT !.pc = "readCursor", !.rules = DefaultRules]
    <3>1. Done(n)
      BY <2>0, <2>2
      DEF StartCycleWithoutRules, TypeInv, TypeOK, Task, StageOK, DefaultRules
    <3>2. Continue(p, n) /\ faults' \in 0..MaxFaults
          /\ UNCHANGED <<chain, rules, db>>
      BY <2>2 DEF StartCycleWithoutRules, TypeInv, TypeOK
    <3>. QED
      BY <3>1, <3>2, TaskUpdate DEF db, TypeInv, TypeOK, Tip
  <2>3. CASE ReadCursor(p)
    <3>. DEFINE s == [t EXCEPT !.pc = "seedFetch"]
                f == [t EXCEPT !.pc = "fetch", !.at = cursor, !.hi = cursor]
    <3>1. t.pages = 0 /\ t.pending = {}
      BY <2>0, <2>3 DEF ReadCursor, StageOK
    <3>2. Done(s)
      BY <2>0, <3>1 DEF Task, StageOK
    <3>3. ASSUME cursor # NoCursor PROVE Done(f)
      <4>1. cursor \in Nat /\ 1 <= cursor /\ cursor <= Tip
        BY <3>3 DEF TypeInv, TypeOK, Pos
      <4>2. f.pc = "fetch" /\ f.at = cursor /\ f.hi = cursor
            /\ f.pages = 0 /\ f.pending = {}
        BY <2>0, <3>1 DEF Task
      <4>3. cursor \in 0..MaxPayments
        BY <2>0, <4>1
      <4>4. f \in Task
        BY <2>0, <4>3, TaskExcept
      <4>. QED
        BY <4>1, <4>2, <4>4 DEF StageOK
    <3>4. PICK m : Continue(p, m) /\ Done(m)
      BY <2>3, <3>2, <3>3 DEF ReadCursor
    <3>5. UNCHANGED <<chain, rules, faults, db>>
      BY <2>3 DEF ReadCursor
    <3>. QED
      BY <3>4, <3>5, TaskUpdate DEF db, TypeInv, TypeOK, Tip
  <2>4. CASE SeedFetch(p)
    <3>. DEFINE n == [t EXCEPT !.pc = "seedSave", !.at = Tip]
    <3>1. n \in Task /\ n.pc = "seedSave" /\ n.at = Tip
      BY <2>0 DEF Task
    <3>2. Tip # 0 => Done(n)
      BY <2>0, <3>1 DEF StageOK
    <3>3. PICK m : Continue(p, m) /\ Done(m)
      BY <2>0a, <2>4, <3>2 DEF SeedFetch
    <3>. QED
      BY <2>4, <3>3, TaskUpdate DEF SeedFetch, db, TypeInv, TypeOK, Tip
  <2>5. CASE SeedSave(p)
    <3>1. cursor' \in Pos /\ cursor' <= Tip /\ seed' \in Pos \cup {NoCursor}
      BY <2>0, <2>5 DEF SeedSave, TypeInv, TypeOK, StageOK, Task, Pos
    <3>. QED
      BY <2>0a, <2>5, <3>1, TaskUpdate DEF SeedSave, TypeInv, TypeOK, Tip
  <2>6. CASE FetchPage(p)
    <3>. DEFINE top  == Min({t.hi + PageSize, Tip})
                last == top = t.hi \/ t.pages + 1 = MaxPages
                n == [t EXCEPT !.pc = IF last THEN "process" ELSE "fetch",
                               !.hi = top, !.pages = t.pages + 1]
    <3>1. t.pc = "fetch" /\ t.at \in Nat /\ t.hi \in Nat /\ t.pages \in Nat
      BY <2>0, <2>6 DEF FetchPage, Task
    <3>2. 1 <= t.at /\ t.at <= t.hi /\ t.hi <= Tip /\ t.pages < MaxPages
      BY <2>0, <3>1 DEF TypeInv, StageOK
    <3>3. top \in Nat /\ t.hi <= top /\ top <= Tip
      <4>1. t.hi + PageSize \in Int /\ Tip \in Int
        BY <2>0, <3>1
      <4>2. top = IF t.hi + PageSize <= Tip THEN t.hi + PageSize ELSE Tip
        BY <4>1, MinOfTwo
      <4>. QED
        BY <2>0, <3>1, <3>2, <4>2
    <3>. HIDE DEF top
    <3>4. Done(n)
      <4>0. /\ top \in 0..MaxPayments /\ t.pages + 1 \in 0..MaxPages
        BY <2>0, <3>1, <3>2, <3>3
      <4>1. /\ n.at = t.at /\ n.hi = top
            /\ n.pages = t.pages + 1 /\ n.pending = t.pending
            /\ n.pc = IF last THEN "process" ELSE "fetch"
        BY <2>0 DEF Task
      <4>1a. n \in Task
        BY <2>0, <4>0, TaskExcept
      <4>2. ~ last => n.pages < MaxPages
        BY <3>1, <3>2, <4>1
      <4>3. t.pending = {}
        BY <2>0, <3>1 DEF StageOK
      <4>. HIDE DEF n, last
      <4>. QED
        BY <2>0, <3>1, <3>2, <3>3, <4>1, <4>1a, <4>2, <4>3 DEF StageOK
    <3>. USE DEF top
    <3>5. Continue(p, IF last /\ top = t.at THEN Idle ELSE n)
      BY <2>6 DEF FetchPage
    <3>. HIDE DEF top, n, last
    <3>6. PICK m : Continue(p, m) /\ Done(m)
      BY <2>0a, <3>4, <3>5
    <3>. QED
      BY <2>6, <3>6, TaskUpdate DEF FetchPage, db, TypeInv, TypeOK, Tip
  <2>7. CASE ProcessPayment(p)
    <3>. DEFINE n(s) == [t EXCEPT !.at = t.at + 1, !.pending = s]
    <3>1. PICK s \in {t.pending, t.pending \cup {t.at + 1}} : Continue(p, n(s))
      BY <2>7 DEF ProcessPayment
    <3>2. Done(n(s))
      <4>1. t.pc = "process" /\ t.at < t.hi /\ t.at \in Nat /\ t.hi \in Nat
        BY <2>0, <2>7 DEF ProcessPayment, Task
      <4>2. 1 <= t.at /\ t.hi <= Tip
        BY <2>0, <4>1 DEF StageOK
      <4>3. t.at + 1 \in Pos /\ s \subseteq Pos
        BY <2>0, <3>1, <4>1, <4>2 DEF Pos, Task
      <4>4. /\ n(s).pc = "process" /\ n(s).at = t.at + 1
            /\ n(s).hi = t.hi
        BY <2>0, <4>1 DEF Task
      <4>5. t.at + 1 \in 0..MaxPayments
        BY <4>3 DEF Pos
      <4>6. n(s) \in Task
        BY <2>0, <4>3, <4>5, TaskExcept
      <4>. HIDE DEF n
      <4>. QED
        BY <4>1, <4>2, <4>4, <4>6 DEF StageOK
    <3>. HIDE DEF n
    <3>. QED
      BY <2>7, <3>1, <3>2, TaskUpdate DEF ProcessPayment, db, TypeInv, TypeOK, Tip
  <2>8a. ASSUME t.pc = "process", t.at = t.hi, CommitRows(p)
         PROVE  /\ whales' \in [Pos -> Nat]
                /\ cursor' \in Pos
                /\ cursor' <= Tip
    BY <2>0, <2>8a, SMTT(30) DEF CommitRows, TypeInv, TypeOK, StageOK, Task, Pos
  <2>8. CASE Commit(p)
    <3>. DEFINE n == IF t.pending = {} THEN Idle ELSE [t EXCEPT !.pc = "alert"]
    <3>1. Done(n)
      BY <2>0, <2>0a, <2>8 DEF Commit, Task, StageOK
    <3>. QED
      BY <2>8, <2>8a, <3>1, TaskUpdate DEF Commit, TypeInv, TypeOK, Tip
  <2>9a. ASSUME lost' = lost \/ lost' = lost \cup t.pending
         PROVE  lost' \subseteq Pos
    BY <2>0, <2>9a DEF TypeInv, TypeOK, Task
  <2>9. CASE CommitAnswerLost(p)
    <3>1. lost' \subseteq Pos
      BY <2>9, <2>9a DEF CommitAnswerLost
    <3>. QED
      BY <2>0a, <2>8a, <2>9, <3>1, TaskUpdate, SMTT(30)
      DEF CommitAnswerLost, TypeInv, TypeOK, Tip
  <2>10a. ASSUME t.pc = "alert", AlertDone(p)
          PROVE  \E m : Continue(p, m) /\ Done(m)
    <3>. DEFINE left == t.pending \ {NextAlert(p)}
                n == IF left = {} THEN Idle ELSE [t EXCEPT !.pending = left]
    <3>1. Done(n)
      BY <2>0, <2>0a, <2>10a DEF Task, StageOK
    <3>. QED
      BY <2>10a, <3>1 DEF AlertDone
  <2>10. CASE RecordAlert(p)
    <3>1. alerts' \in [Pos -> Nat]
      <4>0. t.pending \subseteq Pos /\ t.pending # {}
        BY <2>0, <2>10 DEF RecordAlert, Task, StageOK
      <4>1. PICK k \in Pos : alerts' = [alerts EXCEPT ![k] = alerts[k] + 1]
        BY <2>10, <4>0, MinOfPositions DEF RecordAlert, NextAlert
      <4>. QED
        BY <4>1 DEF TypeInv, TypeOK
    <3>2. PICK m : Continue(p, m) /\ Done(m)
      BY <2>10, <2>10a DEF RecordAlert
    <3>. QED
      BY <2>10, <3>1, <3>2, TaskUpdate DEF RecordAlert, TypeInv, TypeOK, Tip
  <2>11. CASE RecordAlertFails(p)
    <3>1. PICK m : Continue(p, m) /\ Done(m)
      BY <2>11, <2>10a DEF RecordAlertFails
    <3>2. NextAlert(p) \in Pos
      <4>1. t.pending \subseteq Pos /\ t.pending # {}
        BY <2>0, <2>11 DEF RecordAlertFails, Task, StageOK
      <4>. QED
        BY <4>1, MinOfPositions DEF NextAlert
    <3>3. lost' \subseteq Pos
      BY <2>11, <3>2 DEF RecordAlertFails, TypeInv, TypeOK
    <3>. QED
      BY <2>11, <3>1, <3>3, TaskUpdate
      DEF RecordAlertFails, TypeInv, TypeOK, Tip
  <2>12. CASE Abandon(p)
    <3>1. lost' \subseteq Pos
      BY <2>12, <2>9a DEF Abandon
    <3>. QED
      BY <2>0a, <2>12, <3>1, TaskUpdate DEF Abandon, TypeInv, TypeOK, Tip
  <2>. QED
    BY <1>4, <2>1, <2>2, <2>3, <2>4, <2>5, <2>6, <2>7, <2>8, <2>9,
       <2>10, <2>11, <2>12 DEF Progress, Fault
<1>. QED
  BY <1>1, <1>2, <1>3, <1>4 DEF Next

(* For any number of ingest processes, every reachable state is well typed. *)
THEOREM TypeCorrect == Spec => []TypeOK
<1>1. TypeInv => TypeOK
  BY DEF TypeInv
<1>. QED
  BY <1>1, TypeInit, TypeStep, PTL DEF Spec

----------------------------------------------------------------------------
(***************************************************************************)
(* With several ingest processes over one database payments can be missed  *)
(* and stored twice.  What is stored and alerted on is still real: of      *)
(* payments that were made and that some rule calls a whale.               *)
(***************************************************************************)

Real(i) == i <= Tip /\ ~ NeverWhale(chain[i])

RowsReal == \A i \in Pos : whales[i] > 0 => Real(i)

AlertsDurable == \A i \in Pos : alerts[i] > 0 => whales[i] > 0

PendingReal(t) == \A i \in t.pending : Real(i) /\ (t.pc = "alert" => whales[i] > 0)

RealInv == RowsReal /\ AlertsDurable /\ \A q \in Ingesters : PendingReal(task[q])

LEMMA RealInit == Init => RealInv
<1>. SUFFICES ASSUME Init PROVE RealInv
  OBVIOUS
<1>1. \A q \in Ingesters : task[q].pending = {}
  BY DEF Init, Idle
<1>. QED
  BY <1>1 DEF Init, RealInv, RowsReal, AlertsDurable, PendingReal

(* One process's step: rows stay, and new ones are of what it held.        *)
LEMMA RealUpdate ==
    ASSUME TypeInv, RealInv, NEW p \in Ingesters, NEW t, Continue(p, t), chain' = chain,
           \A i \in Pos : whales[i] > 0 => whales'[i] > 0,
           \A i \in Pos : whales'[i] > 0 => Real(i),
           \A i \in Pos : alerts'[i] > 0 => whales'[i] > 0,
           \A i \in t.pending : Real(i) /\ (t.pc = "alert" => whales'[i] > 0)
    PROVE  RealInv'
<1>1. \A q \in Ingesters : task'[q] = IF q = p THEN t ELSE task[q]
  BY DEF Continue, TypeInv, TypeOK
<1>2. \A i : Real(i)' <=> Real(i)
  BY DEF Real, Tip
<1>3. \A q \in Ingesters : task[q].pending \subseteq Pos
  BY DEF TypeInv, TypeOK, Task
<1>4. ASSUME NEW q \in Ingesters PROVE PendingReal(task[q])'
  BY <1>1, <1>2, <1>3 DEF RealInv, PendingReal
<1>. QED
  BY <1>2, <1>4 DEF RealInv, RowsReal, AlertsDurable

(* A step that writes nothing.                                             *)
LEMMA RealQuiet ==
    ASSUME TypeInv, RealInv, NEW p \in Ingesters, NEW t, Continue(p, t),
           UNCHANGED <<chain, whales, alerts>>,
           \A i \in t.pending : Real(i) /\ (t.pc = "alert" => whales[i] > 0)
    PROVE  RealInv'
  BY RealUpdate DEF RealInv, RowsReal, AlertsDurable

LEMMA RealStep == TypeInv /\ RealInv /\ [Next]_vars => RealInv'
<1>. SUFFICES ASSUME TypeInv, RealInv, [Next]_vars PROVE RealInv'
  OBVIOUS
<1>1. CASE UNCHANGED vars \/ ChangeRule
  <2>1. UNCHANGED <<chain, whales, alerts, task>>
    BY <1>1 DEF vars, db, ChangeRule
  <2>. QED
    BY <2>1 DEF RealInv, RowsReal, AlertsDurable, PendingReal, Real, Tip
<1>2. CASE NewPayment
  <2>1. UNCHANGED <<whales, alerts, task>>
        /\ \E pay \in Payments : chain' = Append(chain, pay)
    BY <1>2 DEF NewPayment, db
  <2>2. ASSUME NEW i \in Pos, Real(i) PROVE Real(i)'
    BY <2>1, <2>2 DEF Real, Tip, TypeInv, TypeOK, Pos
  <2>3. \A q \in Ingesters : task[q].pending \subseteq Pos
    BY DEF TypeInv, TypeOK, Task
  <2>. QED
    BY <2>1, <2>2, <2>3 DEF RealInv, RowsReal, AlertsDurable, PendingReal
<1>3. ASSUME NEW p \in Ingesters, Progress(p) \/ Fault(p) PROVE RealInv'
  <2>. DEFINE t == task[p]
  <2>1. t \in Task /\ t.pending \subseteq Pos /\ StageOK(t) /\ PendingReal(t)
    BY DEF TypeInv, TypeOK, RealInv, Task
  <2>2. ASSUME NEW n, n.pending \subseteq t.pending, n.pc # "alert", Continue(p, n),
               UNCHANGED <<chain, whales, alerts>>
        PROVE  RealInv'
    BY <2>1, <2>2, RealQuiet DEF PendingReal
  <2>3. Idle.pending = {} /\ Idle.pc = "idle"
    BY DEF Idle
  <2>4. CASE StartCycle(p) \/ StartCycleWithoutRules(p)
    <3>1. PICK r : Continue(p, [t EXCEPT !.pc = "readCursor", !.rules = r])
      BY <2>4 DEF StartCycle, StartCycleWithoutRules
    <3>2. [t EXCEPT !.pc = "readCursor", !.rules = r].pending = t.pending
          /\ [t EXCEPT !.pc = "readCursor", !.rules = r].pc = "readCursor"
      BY <2>1 DEF Task
    <3>. QED
      BY <2>2, <2>4, <3>1, <3>2 DEF StartCycle, StartCycleWithoutRules, db
  <2>5. CASE ReadCursor(p) \/ SeedFetch(p) \/ SeedSave(p) \/ FetchPage(p) \/ Abandon(p)
    <3>1. PICK n : /\ Continue(p, n)
                   /\ n.pending \subseteq t.pending /\ n.pc # "alert"
      <4>1. CASE Continue(p, Idle)
        BY <2>3, <4>1
      <4>2. ASSUME NEW n, Continue(p, n), n.pending = t.pending, n.pc # "alert"
            PROVE  \E m : Continue(p, m) /\ m.pending \subseteq t.pending /\ m.pc # "alert"
        BY <4>2
      <4>3. CASE ReadCursor(p)
        <5>1. \/ Continue(p, [t EXCEPT !.pc = "seedFetch"])
              \/ Continue(p, [t EXCEPT !.pc = "fetch", !.at = cursor, !.hi = cursor])
          BY <4>3 DEF ReadCursor
        <5>. QED
          BY <2>1, <4>2, <5>1 DEF Task
      <4>4. CASE SeedFetch(p)
        <5>1. Continue(p, Idle) \/ Continue(p, [t EXCEPT !.pc = "seedSave", !.at = Tip])
          BY <4>4 DEF SeedFetch
        <5>. QED
          BY <2>1, <4>1, <4>2, <5>1 DEF Task
      <4>5. CASE FetchPage(p)
        <5>1. \/ Continue(p, Idle)
              \/ \E c \in {"process", "fetch"} : \E top, n :
                    Continue(p, [t EXCEPT !.pc = c, !.hi = top, !.pages = n])
          BY <4>5 DEF FetchPage
        <5>. QED
          BY <2>1, <4>1, <4>2, <5>1 DEF Task
      <4>. QED
        BY <2>5, <4>1, <4>3, <4>4, <4>5 DEF SeedSave, Abandon
    <3>2. UNCHANGED <<chain, whales, alerts>>
      BY <2>5 DEF ReadCursor, SeedFetch, SeedSave, FetchPage, Abandon, db
    <3>. QED
      BY <2>2, <3>1, <3>2
  <2>6. CASE ProcessPayment(p)
    <3>1. PICK s : /\ Continue(p, [t EXCEPT !.at = t.at + 1, !.pending = s])
                   /\ s \subseteq t.pending
                         \cup {i \in {t.at + 1} : IsWhale(chain[i], t.rules)}
      BY <2>6 DEF ProcessPayment
    <3>2. t.pc = "process" /\ t.at < t.hi /\ UNCHANGED <<chain, whales, alerts>>
      BY <2>6 DEF ProcessPayment, db
    <3>3. IsWhale(chain[t.at + 1], t.rules) => Real(t.at + 1)
      BY <2>1, <3>2 DEF Real, NeverWhale, StageOK, Task, Tip, TypeInv, TypeOK, Pos
    <3>4. [t EXCEPT !.at = t.at + 1, !.pending = s].pending = s
          /\ [t EXCEPT !.at = t.at + 1, !.pending = s].pc = "process"
      BY <2>1, <3>2 DEF Task
    <3>5. \A i \in s : Real(i)
      BY <2>1, <3>1, <3>3 DEF PendingReal
    <3>. QED
      BY <3>1, <3>2, <3>4, <3>5, RealQuiet
  <2>7. CASE Commit(p) \/ CommitAnswerLost(p)
    <3>1. /\ CommitRows(p) /\ UNCHANGED <<chain, alerts>>
          /\ \E n : Continue(p, n) /\ n.pending \subseteq t.pending
      BY <2>1, <2>3, <2>7 DEF Commit, CommitAnswerLost, Task
    <3>2. PICK n : Continue(p, n) /\ n.pending \subseteq t.pending
      BY <3>1
    <3>3. \A i \in Pos : whales'[i] = IF i \in t.pending THEN whales[i] + 1 ELSE whales[i]
      BY <3>1 DEF CommitRows
    <3>4. \A i \in Pos : whales[i] \in Nat
      BY DEF TypeInv, TypeOK
    <3>5. \A i \in Pos : whales'[i] > 0 <=> whales[i] > 0 \/ i \in t.pending
      BY <3>3, <3>4
    <3>6. \A i \in Pos : whales'[i] > 0 => Real(i)
      BY <2>1, <3>5 DEF RealInv, RowsReal, PendingReal
    <3>7. \A i \in Pos : alerts'[i] > 0 => whales'[i] > 0
      BY <3>1, <3>5 DEF RealInv, AlertsDurable
    <3>8. \A i \in n.pending : Real(i) /\ whales'[i] > 0
      BY <2>1, <3>2, <3>5 DEF PendingReal
    <3>. QED
      BY <3>1, <3>2, <3>5, <3>6, <3>7, <3>8, RealUpdate
  <2>8. CASE RecordAlert(p) \/ RecordAlertFails(p)
    <3>1. t.pc = "alert" /\ AlertDone(p) /\ UNCHANGED <<chain, whales>>
      BY <2>8 DEF RecordAlert, RecordAlertFails, db
    <3>2. NextAlert(p) \in t.pending
      BY <2>1, <3>1, MinOfPositions DEF NextAlert, StageOK
    <3>3. PICK n : Continue(p, n) /\ n.pending \subseteq t.pending
      BY <2>1, <2>3, <3>1 DEF AlertDone, Task
    <3>4. alerts' = alerts \/ alerts' = [alerts EXCEPT ![NextAlert(p)] = @ + 1]
      BY <2>8 DEF RecordAlert, RecordAlertFails, db
    <3>5. \A i \in Pos : alerts'[i] > 0 => alerts[i] > 0 \/ i = NextAlert(p)
      BY <3>4 DEF TypeInv, TypeOK
    <3>6. \A i \in t.pending : Real(i) /\ whales[i] > 0
      BY <2>1, <3>1 DEF PendingReal
    <3>7. \A i \in Pos : alerts'[i] > 0 => whales'[i] > 0
      BY <3>1, <3>2, <3>5, <3>6 DEF RealInv, AlertsDurable
    <3>. QED
      BY <3>1, <3>3, <3>6, <3>7, RealUpdate DEF RealInv, RowsReal
  <2>. QED
    BY <1>3, <2>4, <2>5, <2>6, <2>7, <2>8 DEF Progress, Fault
<1>. QED
  BY <1>1, <1>2, <1>3 DEF Next

(* For any number of ingest processes, rows are of payments that were made *)
(* and that some rule calls a whale, and alerts of payments with a row.    *)
THEOREM OnlyWhalesWithMany == Spec => [](RowsReal /\ AlertsDurable)
<1>1. RealInv => RowsReal /\ AlertsDurable
  BY DEF RealInv
<1>. QED
  BY <1>1, TypeInit, TypeStep, RealInit, RealStep, PTL DEF Spec

----------------------------------------------------------------------------
(***************************************************************************)
(* From here on there is one ingest process.  FeedInv ties what it holds   *)
(* in memory to the database: the rows it is about to commit are exactly   *)
(* the whales between the cursor and the payment it has reached, and the   *)
(* alerts it has still to record are of rows that have none.               *)
(***************************************************************************)

RowsOK ==
    \A i \in Pos :
       /\ whales[i] \in {0, 1}
       /\ alerts[i] <= whales[i]
       /\ whales[i] = 1 => Passed(i) /\ ~ NeverWhale(chain[i])
       /\ Passed(i) /\ AlwaysWhale(chain[i]) => whales[i] = 1

CursorOK ==
    /\ cursor = NoCursor <=> seed = NoCursor
    /\ cursor # NoCursor => seed <= cursor

Between(t) == {i \in Pos : cursor < i /\ i <= t.at}

CycleOK(t) ==
    /\ t.pc \in {"seedFetch", "seedSave"} => cursor = NoCursor
    /\ t.pc \in {"fetch", "process"} => cursor # NoCursor
    /\ t.pc = "fetch" => t.at = cursor
    /\ t.pc = "process" =>
          /\ cursor <= t.at /\ cursor < t.hi
          /\ t.pending \subseteq Between(t)
          /\ \A i \in t.pending : ~ NeverWhale(chain[i])
          /\ \A i \in Between(t) : AlwaysWhale(chain[i]) => i \in t.pending
    /\ t.pc = "alert" =>
          \A i \in t.pending : whales[i] = 1 /\ alerts[i] = 0

FeedInv == /\ RowsOK
           /\ CursorOK
           /\ \A q \in Ingesters : CycleOK(task[q])

LEMMA FeedInit == Init => FeedInv
<1>. SUFFICES ASSUME Init PROVE FeedInv
  OBVIOUS
<1>1. RowsOK
  BY DEF Init, RowsOK, Passed
<1>2. CursorOK
  BY DEF Init, CursorOK
<1>3. \A q \in Ingesters : task[q].pc = "idle"
  BY DEF Init, Idle
<1>4. \A q \in Ingesters : CycleOK(task[q])
  BY <1>3 DEF CycleOK
<1>. QED
  BY <1>1, <1>2, <1>4 DEF FeedInv

(* A step that only moves the process's cycle on.                          *)
LEMMA QuietStep ==
    ASSUME NEW p, Ingesters = {p}, TypeInv, FeedInv, NEW n,
           Continue(p, n), CycleOK(n),
           UNCHANGED <<chain, cursor, whales, alerts, seed>>
    PROVE  FeedInv' /\ UNCHANGED Feed!vars
<1>1. /\ chain' = chain /\ cursor' = cursor /\ whales' = whales
      /\ alerts' = alerts /\ seed' = seed
  OBVIOUS
<1>2. RowsOK' /\ CursorOK'
  BY <1>1 DEF FeedInv, RowsOK, CursorOK, Passed
<1>3. \A q \in Ingesters : task'[q] = n
  BY DEF Continue, TypeInv, TypeOK
<1>4. \A q \in Ingesters : CycleOK(task[q])'
  BY <1>1, <1>3 DEF CycleOK, Between
<1>. QED
  BY <1>1, <1>2, <1>4 DEF FeedInv, Feed!vars

LEMMA IdleCycleOK == CycleOK(Idle)
  BY DEF CycleOK, Idle

(* Payments and rules: the log grows, nothing below the cursor changes.    *)
LEMMA WorldStep ==
    ASSUME TypeInv, FeedInv, NewPayment \/ ChangeRule
    PROVE  FeedInv' /\ (Feed!Pay \/ UNCHANGED Feed!vars)
<1>0. /\ cursor' = cursor /\ whales' = whales /\ alerts' = alerts
      /\ seed' = seed /\ task' = task
  BY DEF NewPayment, ChangeRule, db
<1>1. CASE ChangeRule
  <2>1. chain' = chain
    BY <1>1 DEF ChangeRule
  <2>. QED
    BY <1>0, <2>1 DEF FeedInv, RowsOK, CursorOK, Passed, CycleOK, Between,
                      Feed!vars
<1>2. CASE NewPayment
  <2>1. PICK pay \in Payments : chain' = Append(chain, pay)
    BY <1>2 DEF NewPayment
  <2>2. \A i \in Pos : i <= Tip => chain'[i] = chain[i]
    BY <2>1 DEF TypeInv, TypeOK, Tip, Pos
  <2>3. RowsOK'
    <3>1. SUFFICES ASSUME NEW i \in Pos
                   PROVE  /\ whales[i] \in {0, 1}
                          /\ alerts[i] <= whales[i]
                          /\ whales[i] = 1 =>
                                Passed(i) /\ ~ NeverWhale(chain'[i])
                          /\ Passed(i) /\ AlwaysWhale(chain'[i]) => whales[i] = 1
      BY <1>0 DEF RowsOK, Passed
    <3>2. Passed(i) => chain'[i] = chain[i]
      BY <2>2 DEF Passed, TypeInv, TypeOK, Tip, Pos
    <3>. QED
      BY <3>2 DEF FeedInv, RowsOK
  <2>4. CursorOK'
    BY <1>0 DEF FeedInv, CursorOK
  <2>5. ASSUME NEW q \in Ingesters PROVE CycleOK(task[q])'
    <3>1. task[q] \in Task /\ StageOK(task[q]) /\ CycleOK(task[q])
      BY DEF TypeInv, TypeOK, FeedInv
    <3>2. task[q].pc = "process" =>
             \A i \in Between(task[q]) : chain'[i] = chain[i]
      BY <2>2, <3>1 DEF StageOK, Between, Task, Tip, Pos, TypeInv, TypeOK
    <3>. QED
      BY <1>0, <3>1, <3>2 DEF CycleOK, Between
  <2>6. Feed!Pay
    BY <1>0, <1>2, <2>1 DEF NewPayment, Feed!Pay
  <2>. QED
    BY <2>3, <2>4, <2>5, <2>6 DEF FeedInv
<1>. QED
  BY <1>1, <1>2

(* Seeding: nothing is stored or alerted on yet.                           *)
LEMMA SeedStep ==
    ASSUME NEW p, Ingesters = {p}, TypeInv, FeedInv, SeedSave(p)
    PROVE  FeedInv' /\ Feed!Seed
<1>. DEFINE t == task[p]
<1>1. /\ t.pc = "seedSave" /\ cursor = NoCursor /\ seed = NoCursor
      /\ t.at \in 1..Tip /\ t.at \in Pos
  BY ConstantsAssumption
  DEF SeedSave, FeedInv, CycleOK, CursorOK, TypeInv, TypeOK, StageOK, Task, Tip, Pos
<1>2. /\ cursor' = t.at /\ seed' = t.at /\ chain' = chain
      /\ whales' = whales /\ alerts' = alerts
  BY <1>1 DEF SeedSave
<1>3. RowsOK'
  BY <1>1, <1>2, ConstantsAssumption DEF FeedInv, RowsOK, Passed, Pos
<1>4. CursorOK'
  BY <1>1, <1>2, ConstantsAssumption DEF CursorOK, Pos
<1>5. \A q \in Ingesters : task'[q] = Idle
  BY DEF SeedSave, Continue, TypeInv, TypeOK
<1>6. \A q \in Ingesters : CycleOK(task[q])'
  BY <1>5 DEF CycleOK, Idle
<1>7. Feed!Seed
  BY <1>1, <1>2 DEF Feed!Seed, Tip
<1>. QED
  BY <1>3, <1>4, <1>6, <1>7 DEF FeedInv

(* The transaction's commit: the rows and the cursor appear together, and  *)
(* the cycle ends or goes on to the alerts of the rows it committed.       *)
LEMMA CommitStep ==
    ASSUME NEW p, Ingesters = {p}, TypeInv, FeedInv,
           task[p].pc = "process", task[p].at = task[p].hi, CommitRows(p),
           UNCHANGED <<chain, alerts, seed>>, NEW n, Continue(p, n),
           \/ n = Idle
           \/ n = [task[p] EXCEPT !.pc = "alert"]
    PROVE  FeedInv' /\ Feed!Advance
<1>. DEFINE t == task[p]
<1>1. /\ t \in Task /\ StageOK(t) /\ CycleOK(t)
  BY DEF TypeInv, TypeOK, FeedInv
<1>2. /\ cursor \in Nat /\ cursor # NoCursor /\ seed \in Nat /\ seed # NoCursor
      /\ seed <= cursor /\ cursor < t.at
      /\ t.at \in Nat /\ 1 <= t.at /\ t.at <= Tip /\ Tip \in Nat
      /\ Tip <= MaxPayments
  <2>1. cursor \in Pos /\ cursor # NoCursor /\ cursor < t.at
    BY <1>1 DEF CycleOK, TypeInv, TypeOK
  <2>2. seed \in Pos /\ seed # NoCursor /\ seed <= cursor
    BY <2>1 DEF FeedInv, CursorOK, TypeInv, TypeOK
  <2>3. t.at \in Nat /\ 1 <= t.at /\ t.at <= Tip
    BY <1>1 DEF StageOK, Task
  <2>4. Tip \in Nat /\ Tip <= MaxPayments
    BY DEF TypeInv, TypeOK, Tip
  <2>. QED
    BY <2>1, <2>2, <2>3, <2>4 DEF Pos
<1>3. /\ t.pending \subseteq Pos
      /\ \A i \in t.pending : cursor < i /\ i <= t.at /\ ~ NeverWhale(chain[i])
      /\ \A i \in Pos : cursor < i /\ i <= t.at /\ AlwaysWhale(chain[i])
                        => i \in t.pending
  BY <1>1 DEF CycleOK, Between, Task
<1>4. \A i \in Pos : cursor < i => whales[i] = 0 /\ alerts[i] = 0
  BY <1>2 DEF FeedInv, RowsOK, Passed, TypeInv, TypeOK, Pos
<1>5. /\ cursor' = t.at
      /\ \A i \in Pos : whales'[i] = IF i \in t.pending THEN 1 ELSE whales[i]
  BY <1>3, <1>4 DEF CommitRows
<1>. HIDE DEF t
<1>6. RowsOK'
  <2>. SUFFICES ASSUME NEW i \in Pos
                PROVE  /\ whales'[i] \in {0, 1}
                       /\ alerts[i] <= whales'[i]
                       /\ whales'[i] = 1 => /\ seed < i /\ i <= t.at
                                            /\ ~ NeverWhale(chain[i])
                       /\ seed < i /\ i <= t.at /\ AlwaysWhale(chain[i])
                             => whales'[i] = 1
    BY <1>2, <1>5, ConstantsAssumption DEF RowsOK, Passed
  <2>1. i \in Nat
    BY DEF Pos
  <2>2. CASE i \in t.pending
    BY <1>2, <1>3, <1>4, <1>5, <2>1, <2>2
  <2>3. CASE i \notin t.pending
    BY <1>2, <1>3, <1>4, <1>5, <2>1, <2>3 DEF FeedInv, RowsOK, Passed
  <2>. QED
    BY <2>2, <2>3
<1>7. CursorOK'
  BY <1>2, <1>5, ConstantsAssumption DEF CursorOK
<1>8. \A i \in t.pending : whales'[i] = 1 /\ alerts'[i] = 0
  BY <1>2, <1>3, <1>4, <1>5 DEF Pos
<1>9. \A q \in Ingesters : task'[q] = n
  BY DEF Continue, TypeInv, TypeOK
<1>10. n.pc = "idle" \/ (n.pc = "alert" /\ n.pending = t.pending)
  BY <1>1 DEF Idle, Task, t
<1>11. \A q \in Ingesters : CycleOK(task[q])'
  BY <1>8, <1>9, <1>10 DEF CycleOK
<1>12. Feed!Advance
  <2>. DEFINE new == t.pending
  <2>1. t.at \in 1..Len(chain) /\ new \in SUBSET Feed!Index
    BY <1>2, <1>3 DEF Tip, Feed!Index, Pos
  <2>2. t.at > cursor
    BY <1>2
  <2>3. \A i \in new : cursor < i /\ i <= t.at /\ ~ NeverWhale(chain[i])
    BY <1>3
  <2>4. \A i \in cursor + 1 .. t.at : AlwaysWhale(chain[i]) => i \in new
    <3>. SUFFICES ASSUME NEW i \in cursor + 1 .. t.at, AlwaysWhale(chain[i])
                  PROVE  i \in new
      OBVIOUS
    <3>1. i \in Pos /\ cursor < i /\ i <= t.at
      BY <1>2, ConstantsAssumption DEF Pos
    <3>. QED
      BY <1>3, <3>1
  <2>5. whales' = [i \in Feed!Index |->
                     IF i \in new THEN whales[i] + 1 ELSE whales[i]]
    BY DEF CommitRows, Feed!Index, Pos, t
  <2>. QED
    BY <1>2, <1>5, <2>1, <2>2, <2>3, <2>4, <2>5 DEF Feed!Advance
<1>. QED
  BY <1>6, <1>7, <1>11, <1>12 DEF FeedInv

(* One alert is recorded, of a row that has none.                          *)
LEMMA AlertStep ==
    ASSUME NEW p, Ingesters = {p}, TypeInv, FeedInv, RecordAlert(p)
    PROVE  FeedInv' /\ Feed!Alert
<1>. DEFINE t == task[p]
            k == NextAlert(p)
            left == t.pending \ {k}
<1>1. t.pc = "alert" /\ t \in Task /\ StageOK(t) /\ CycleOK(t)
  BY DEF RecordAlert, TypeInv, TypeOK, FeedInv
<1>2. t.pending \subseteq Pos /\ t.pending # {}
  BY <1>1 DEF Task, StageOK
<1>3. k \in t.pending /\ k \in Pos
  BY <1>2, MinOfPositions DEF NextAlert
<1>4. whales[k] = 1 /\ alerts[k] = 0
  BY <1>1, <1>3 DEF CycleOK
<1>5. /\ chain' = chain /\ cursor' = cursor /\ whales' = whales /\ seed' = seed
      /\ alerts' = [alerts EXCEPT ![k] = 1]
  BY <1>4 DEF RecordAlert
<1>. HIDE DEF k
<1>6. \A i \in Pos : alerts'[i] = IF i = k THEN 1 ELSE alerts[i]
  BY <1>5 DEF TypeInv, TypeOK
<1>7. RowsOK' /\ CursorOK'
  BY <1>4, <1>5, <1>6 DEF FeedInv, RowsOK, CursorOK, Passed
<1>8. PICK n : Continue(p, n) /\ (n = Idle \/ n = [t EXCEPT !.pending = left])
  BY DEF RecordAlert, AlertDone, k
<1>9. n.pc = "idle" \/ (n.pc = "alert" /\ n.pending = left)
  BY <1>1, <1>8 DEF Idle, Task
<1>10. \A i \in left : whales'[i] = 1 /\ alerts'[i] = 0
  BY <1>1, <1>2, <1>5, <1>6 DEF CycleOK
<1>11. \A q \in Ingesters : task'[q] = n
  BY <1>8 DEF Continue, TypeInv, TypeOK
<1>12. \A q \in Ingesters : CycleOK(task[q])'
  BY <1>9, <1>10, <1>11 DEF CycleOK
<1>13. Feed!Alert
  BY <1>3, <1>4, <1>5 DEF Feed!Alert, Feed!Index, Pos
<1>. QED
  BY <1>7, <1>12, <1>13 DEF FeedInv

(* The cycle's own steps: reading the cursor, a page, a payment.           *)
LEMMA CycleStep ==
    ASSUME NEW p, Ingesters = {p}, TypeInv, TypeInv', FeedInv,
           \/ StartCycle(p) \/ StartCycleWithoutRules(p) \/ ReadCursor(p)
           \/ SeedFetch(p) \/ FetchPage(p) \/ ProcessPayment(p)
    PROVE  FeedInv' /\ UNCHANGED Feed!vars
<1>. DEFINE t == task[p]
<1>0. /\ t \in Task /\ StageOK(t) /\ CycleOK(t)
      /\ Tip \in Nat /\ cursor \in Pos \cup {NoCursor}
  BY DEF TypeInv, TypeOK, FeedInv, Tip
<1>1. CASE StartCycle(p) \/ StartCycleWithoutRules(p)
  <2>. DEFINE n(r) == [t EXCEPT !.pc = "readCursor", !.rules = r]
  <2>0. PICK r : Continue(p, n(r))
    BY <1>1 DEF StartCycle, StartCycleWithoutRules
  <2>1. n(r).pc = "readCursor"
    BY <1>0 DEF Task
  <2>. HIDE DEF n
  <2>2. CycleOK(n(r))
    BY <2>1 DEF CycleOK
  <2>. QED
    BY <1>1, <2>0, <2>2, QuietStep DEF StartCycle, StartCycleWithoutRules, db
<1>2. CASE ReadCursor(p)
  <2>. DEFINE s == [t EXCEPT !.pc = "seedFetch"]
              f == [t EXCEPT !.pc = "fetch", !.at = cursor, !.hi = cursor]
  <2>1. Continue(p, IF cursor = NoCursor THEN s ELSE f)
    BY <1>2 DEF ReadCursor
  <2>2. s.pc = "seedFetch" /\ f.pc = "fetch" /\ f.at = cursor
    BY <1>0 DEF Task
  <2>. HIDE DEF s, f
  <2>3. CycleOK(IF cursor = NoCursor THEN s ELSE f)
    BY <2>2 DEF CycleOK
  <2>. QED
    BY <1>2, <2>1, <2>3, QuietStep DEF ReadCursor, db
<1>3. CASE SeedFetch(p)
  <2>. DEFINE n == [t EXCEPT !.pc = "seedSave", !.at = Tip]
  <2>1. Continue(p, IF Tip = 0 THEN Idle ELSE n)
    BY <1>3 DEF SeedFetch
  <2>2. n.pc = "seedSave" /\ cursor = NoCursor
    BY <1>0, <1>3 DEF Task, SeedFetch, CycleOK
  <2>. HIDE DEF n
  <2>3. CycleOK(n)
    BY <2>2 DEF CycleOK
  <2>4. CycleOK(IF Tip = 0 THEN Idle ELSE n)
    BY <2>3, IdleCycleOK
  <2>. QED
    BY <1>3, <2>1, <2>4, QuietStep DEF SeedFetch, db
<1>4. CASE FetchPage(p)
  <2>. DEFINE top  == Min({t.hi + PageSize, Tip})
              last == top = t.hi \/ t.pages + 1 = MaxPages
              n == [t EXCEPT !.pc = IF last THEN "process" ELSE "fetch",
                             !.hi = top, !.pages = t.pages + 1]
  <2>1. Continue(p, IF last /\ top = t.at THEN Idle ELSE n)
    BY <1>4 DEF FetchPage
  <2>2. /\ t.pc = "fetch" /\ t.at = cursor /\ cursor # NoCursor /\ cursor \in Nat
        /\ t.hi \in Nat /\ cursor <= t.hi /\ t.hi <= Tip /\ t.pending = {}
    BY <1>0, <1>4 DEF FetchPage, CycleOK, StageOK, Task, TypeInv, Pos
  <2>3. top \in Nat /\ cursor <= top
    <3>1. t.hi + PageSize \in Int /\ Tip \in Int
      BY <1>0, <2>2, ConstantsAssumption
    <3>2. top = IF t.hi + PageSize <= Tip THEN t.hi + PageSize ELSE Tip
      BY <3>1, MinOfTwo
    <3>. QED
      BY <1>0, <2>2, <3>2, ConstantsAssumption
  <2>4. /\ n.at = t.at /\ n.hi = top /\ n.pending = {}
        /\ n.pc = IF last THEN "process" ELSE "fetch"
    BY <1>0, <2>2 DEF Task
  <2>. HIDE DEF top, last, n
  <2>5. last => Between(n) = {}
    BY <2>2, <2>4 DEF Between, Pos
  <2>6. ~ (last /\ top = t.at) => CycleOK(n)
    BY <2>2, <2>3, <2>4, <2>5 DEF CycleOK
  <2>7. PICK m : Continue(p, m) /\ CycleOK(m)
    BY <2>1, <2>6, IdleCycleOK
  <2>. QED
    BY <1>4, <2>7, QuietStep DEF FetchPage, db
<1>5. CASE ProcessPayment(p)
  <2>. DEFINE i == t.at + 1
              n(s) == [t EXCEPT !.at = i, !.pending = s]
  <2>1. /\ t.pc = "process" /\ t.at \in Nat /\ t.hi \in Nat /\ t.at < t.hi
        /\ 1 <= t.at /\ t.hi <= Tip /\ Tip <= MaxPayments
        /\ cursor \in Nat /\ cursor # NoCursor /\ cursor <= t.at
        /\ cursor < t.hi /\ t.pending \subseteq Between(t)
        /\ \A j \in t.pending : ~ NeverWhale(chain[j])
        /\ \A j \in Between(t) : AlwaysWhale(chain[j]) => j \in t.pending
    <3>1. t.pc = "process" /\ t.at < t.hi
      BY <1>5 DEF ProcessPayment
    <3>2. t.at \in Nat /\ t.hi \in Nat
      BY <1>0 DEF Task
    <3>3. 1 <= t.at /\ t.hi <= Tip /\ Tip <= MaxPayments
      BY <1>0, <3>1 DEF StageOK, TypeInv, TypeOK, Tip
    <3>4. cursor # NoCursor /\ cursor \in Nat
      BY <1>0, <3>1 DEF CycleOK, Pos
    <3>. QED
      BY <1>0, <3>1, <3>2, <3>3, <3>4 DEF CycleOK
  <2>2. whales[i] = 0
    <3>1. i \in Pos /\ cursor < i
      BY <1>0, <2>1, ConstantsAssumption DEF Pos
    <3>. HIDE DEF i
    <3>2. i \in Nat /\ ~ Passed(i)
      BY <2>1, <3>1 DEF Passed, Pos
    <3>. QED
      BY <3>1, <3>2 DEF FeedInv, RowsOK
  <2>. DEFINE s == IF IsWhale(chain[i], t.rules)
                   THEN t.pending \cup {i} ELSE t.pending
  <2>3. Continue(p, n(s))
    <3>1. PICK inserted \in {TRUE} : Continue(p, [t EXCEPT !.at = i, !.pending =
                 IF IsWhale(chain[i], t.rules) /\ inserted
                 THEN t.pending \cup {i} ELSE t.pending])
      BY <1>5, <2>2 DEF ProcessPayment
    <3>. QED
      BY <3>1
  <2>4. t.rules \in [Assets -> Thresholds]
    BY <1>0 DEF Task
  <2>5. /\ AlwaysWhale(chain[i]) => IsWhale(chain[i], t.rules)
        /\ NeverWhale(chain[i]) => ~ IsWhale(chain[i], t.rules)
    BY <2>4 DEF AlwaysWhale, NeverWhale
  <2>6. /\ n(s).pc = "process" /\ n(s).at = i /\ n(s).hi = t.hi
        /\ n(s).pending = s
    BY <1>0, <2>1 DEF Task
  <2>. HIDE DEF n
  <2>7. Between(n(s)) = Between(t) \cup {i}
    <3>1. i \in Pos /\ cursor < i
      BY <1>0, <2>1, ConstantsAssumption DEF Pos
    <3>2. \A j \in Pos : j <= i <=> j <= t.at \/ j = i
      BY <2>1 DEF Pos
    <3>. HIDE DEF i, s
    <3>. QED
      BY <2>6, <3>1, <3>2 DEF Between
  <2>8. /\ s \subseteq Between(n(s))
        /\ \A j \in s : ~ NeverWhale(chain[j])
        /\ \A j \in Between(n(s)) : AlwaysWhale(chain[j]) => j \in s
    <3>. HIDE DEF i
    <3>. QED
      BY <2>1, <2>5, <2>7
  <2>9. cursor <= i
    BY <2>1
  <2>10. CycleOK(n(s))
    <3>. HIDE DEF i, s
    <3>. QED
      BY <2>1, <2>6, <2>8, <2>9 DEF CycleOK
  <2>. QED
    BY <1>5, <2>3, <2>10, QuietStep DEF ProcessPayment, db
<1>. QED
  BY <1>1, <1>2, <1>3, <1>4, <1>5

(* Every step keeps FeedInv and is a step of WhaleFeed or a stutter.       *)
LEMMA FeedStep ==
    ASSUME NEW p, Ingesters = {p}, TypeInv, FeedInv, [Next]_vars
    PROVE  FeedInv' /\ [Feed!Next]_(Feed!vars)
<1>0. TypeInv'
  BY TypeStep
<1>1. CASE UNCHANGED vars
  BY <1>1 DEF vars, FeedInv, RowsOK, CursorOK, Passed, CycleOK, Between, Feed!vars
<1>2. CASE NewPayment \/ ChangeRule
  BY <1>2, WorldStep DEF Feed!Next
<1>3. CASE StartCycle(p) \/ StartCycleWithoutRules(p) \/ ReadCursor(p)
           \/ SeedFetch(p) \/ FetchPage(p) \/ ProcessPayment(p)
  BY <1>0, <1>3, CycleStep
<1>4. CASE SeedSave(p)
  BY <1>4, SeedStep DEF Feed!Next
<1>5. CASE Commit(p)
  <2>1. PICK n : /\ Continue(p, n)
                 /\ n = Idle \/ n = [task[p] EXCEPT !.pc = "alert"]
    BY <1>5 DEF Commit
  <2>. QED
    BY <1>5, <2>1, CommitStep DEF Commit, Feed!Next
<1>6. CASE CommitAnswerLost(p)
  BY <1>6, CommitStep DEF CommitAnswerLost, Feed!Next
<1>7. CASE RecordAlert(p)
  BY <1>7, AlertStep DEF Feed!Next
<1>8. CASE RecordAlertFails(p)
  <2>. DEFINE t == task[p]
              n == [t EXCEPT !.pending = t.pending \ {NextAlert(p)}]
  <2>1. t \in Task /\ t.pc = "alert" /\ CycleOK(t)
    BY <1>8 DEF RecordAlertFails, TypeInv, TypeOK, FeedInv
  <2>2. n.pc = "alert" /\ n.pending \subseteq t.pending
    BY <2>1 DEF Task
  <2>3. \E m \in {Idle, n} : Continue(p, m)
    BY <1>8 DEF RecordAlertFails, AlertDone
  <2>. HIDE DEF n
  <2>4. CycleOK(n)
    BY <2>1, <2>2 DEF CycleOK
  <2>. QED
    BY <1>8, <2>3, <2>4, IdleCycleOK, QuietStep DEF RecordAlertFails
<1>9. CASE Abandon(p)
  BY <1>9, IdleCycleOK, QuietStep DEF Abandon
<1>. QED
  BY <1>1, <1>2, <1>3, <1>4, <1>5, <1>6, <1>7, <1>8, <1>9
  DEF Next, Progress, Fault

(* What FeedInv says to a reader.                                          *)
LEMMA FeedInvMeaning ==
    TypeInv /\ FeedInv =>
       NoWhaleMissed /\ NoDuplicateWhale /\ NoFalseWhale /\ AlertsFollowRows
<1>. SUFFICES ASSUME TypeInv, FeedInv, NEW i \in Pos
     PROVE  /\ Passed(i) /\ AlwaysWhale(chain[i]) => whales[i] >= 1
            /\ whales[i] <= 1
            /\ whales[i] > 0 => Passed(i) /\ ~ NeverWhale(chain[i])
            /\ alerts[i] <= whales[i]
  BY DEF NoWhaleMissed, NoDuplicateWhale, NoFalseWhale, AlertsFollowRows
<1>1. whales[i] \in {0, 1}
  BY DEF FeedInv, RowsOK
<1>. QED
  BY <1>1 DEF FeedInv, RowsOK

(* With one ingest process: between the seed and the cursor every payment  *)
(* that is a whale under every rule has its row, no payment has two, no    *)
(* other is stored, and no row is alerted on twice, however many calls     *)
(* fail and wherever the process crashes.                                  *)
THEOREM FeedCorrect ==
    ASSUME NEW CONSTANT p, Ingesters = {p}
    PROVE  Spec => [](NoWhaleMissed /\ NoDuplicateWhale
                      /\ NoFalseWhale /\ AlertsFollowRows)
<1>1. TypeInv /\ FeedInv /\ [Next]_vars => TypeInv' /\ FeedInv'
  BY TypeStep, FeedStep
<1>. QED
  BY <1>1, TypeInit, FeedInit, FeedInvMeaning, PTL DEF Spec

(* With one ingest process no payment gets a second row, though the rows'  *)
(* unique key would not refuse one (whales.rs:7-10).                       *)
THEOREM WhalesStoredOnce ==
    ASSUME NEW CONSTANT p, Ingesters = {p}
    PROVE  Spec => []NoDuplicateWhale
  BY FeedCorrect, PTL

(* With one ingest process a stored row is a payment after the seed that   *)
(* the cursor has passed and that some rule calls a whale.                 *)
THEOREM OnlyWhalesStored ==
    ASSUME NEW CONSTANT p, Ingesters = {p}
    PROVE  Spec => []NoFalseWhale
  BY FeedCorrect, PTL

(* With one ingest process an alert is of a durable row, and a row has one *)
(* at most: alerts are recorded after the commit (ingest.rs:209-229).      *)
THEOREM AlertsOfRows ==
    ASSUME NEW CONSTANT p, Ingesters = {p}
    PROVE  Spec => []AlertsFollowRows
  BY FeedCorrect, PTL

(* With one ingest process, the cursor, the whale rows and the alerts      *)
(* evolve as WhaleFeed allows and in no other way.                         *)
THEOREM Refinement ==
    ASSUME NEW CONSTANT p, Ingesters = {p}
    PROVE  Spec => ImplementsFeed
<1>1. Init => Feed!Init
  BY DEF Init, Feed!Init, Feed!Index, Pos
<1>2. TypeInv /\ FeedInv /\ [Next]_vars =>
         TypeInv' /\ FeedInv' /\ [Feed!Next]_(Feed!vars)
  BY TypeStep, FeedStep
<1>. QED
  BY <1>1, <1>2, TypeInit, FeedInit, PTL DEF Spec, ImplementsFeed, Feed!Spec

(* With one ingest process the cursor never moves back.                    *)
THEOREM CursorMonotone ==
    ASSUME NEW CONSTANT p, Ingesters = {p}
    PROVE  Spec => CursorNeverRetreats
<1>1. TypeInv /\ FeedInv /\ [Next]_vars =>
         TypeInv' /\ FeedInv' /\ [Feed!Next]_(Feed!vars)
  BY TypeStep, FeedStep
<1>2. ASSUME TypeInv, TypeInv', [Feed!Next]_(Feed!vars), cursor # NoCursor
      PROVE  cursor' # NoCursor /\ cursor' >= cursor
  <2>1. cursor \in Nat /\ cursor' \in Nat \cup {NoCursor}
    BY <1>2 DEF TypeInv, TypeOK, Pos
  <2>2. cursor' = cursor \/ (cursor' \in Nat /\ cursor' > cursor)
    BY <1>2 DEF Feed!Next, Feed!vars, Feed!Pay, Feed!Seed, Feed!Advance, Feed!Alert
  <2>. QED
    BY <1>2, <2>1, <2>2, ConstantsAssumption
<1>3. TypeInv /\ FeedInv /\ [Next]_vars =>
         [cursor # NoCursor => cursor' # NoCursor /\ cursor' >= cursor]_vars
  BY <1>1, <1>2
<1>. QED
  BY <1>1, <1>3, TypeInit, FeedInit, PTL DEF Spec, CursorNeverRetreats

============================================================================
