----------------------- MODULE SnapshotIngest_proofs -----------------------
(***************************************************************************)
(* Proofs about SnapshotIngest for every value of its constants: types,    *)
(* that a commit stores all of a cycle's snapshots or none, and that drops *)
(* are alerted on when they are stored, once each, and none is missed.     *)
(***************************************************************************)
EXTENDS SnapshotIngest, SequenceTheorems, TLAPS

InTx == task.pc \in {"pools", "tokens"}

(* What a cycle holds at each stage, as far as the types need it.          *)
StageOK ==
    /\ task.pc # "idle" => cycle >= 1
    /\ task.pc = "alert" => task.pending # <<>>
    /\ InTx <=> task.tx # "none"
    /\ \A i \in task.staged : task.list[i] # Malformed

TypeInv == TypeOK /\ StageOK

(* Snapshots are of ever later cycles, and what is stored or recorded is   *)
(* of a cycle that has reached its commit.                                 *)
HistoryOK ==
    /\ \A i \in Items : \A j, k \in DOMAIN snaps[i] :
          j < k => snaps[i][j].cycle < snaps[i][k].cycle
    /\ \A i \in Items : \A k \in DOMAIN snaps[i] :
          snaps[i][k].cycle <= cycle /\ (InTx => snaps[i][k].cycle < cycle)
    /\ \A k \in DOMAIN recorded :
          recorded[k].cycle <= cycle /\ (InTx => recorded[k].cycle < cycle)

(* The pending alert a is of a drop the open cycle has found.              *)
Found(a) ==
    /\ a.item \notin task.todo
    /\ a.cycle = cycle
    /\ snaps[a.item] # <<>>
    /\ a.base = LastSnap(a.item).cycle
    /\ task.list[a.item] # Malformed
    /\ task.list[a.item] < LastSnap(a.item).level

OneEach ==
    \A j, k \in DOMAIN task.pending :
       task.pending[j].item = task.pending[k].item => j = k

(* An open transaction has staged exactly what was listed, of the items    *)
(* done, and collected an alert for each of their drops.                   *)
TxOK ==
    InTx =>
       /\ OneEach
       /\ \A k \in DOMAIN task.pending : Found(task.pending[k])
       /\ task.pc = "tokens" => task.todo \cap Pools = {}
       /\ task.tx = "aborted" => cycle \in aborted
       /\ task.tx = "open" =>
             \A i \in Items \ task.todo :
                /\ i \in task.staged <=> task.list[i] # Malformed
                /\ i \in task.staged =>
                      DropAlert(i) = <<>> \/ DropAlert(i)[1] \in AllPending

(* After the commit, what is left to record is stored and not recorded.    *)
AlertOK ==
    task.pc = "alert" =>
       /\ OneEach
       /\ \A k \in DOMAIN task.pending :
             /\ task.pending[k].cycle = cycle
             /\ cycle \in aborted \/ AlertIsStored(task.pending[k])
             /\ \A r \in DOMAIN recorded :
                   recorded[r].item = task.pending[k].item => recorded[r].cycle # cycle

RecordedOnce ==
    \A j, k \in DOMAIN recorded :
       recorded[j].item = recorded[k].item /\ recorded[j].cycle = recorded[k].cycle
          => j = k

IInv == /\ TypeInv
        /\ HistoryOK
        /\ TxOK
        /\ AlertOK
        /\ RecordedOnce
        /\ AlertsStoredUnlessAborted
        /\ NoDropMissed
----------------------------------------------------------------------------

(* A table's rules resolve to one of the thresholds.                       *)
LEMMA RulesTyped ==
    /\ Idle \in Task
    /\ \A table \in RuleTables :
          [i \in Items |-> ThresholdOf(table, i)] \in [Items -> Thresholds]
<1>1. \A i \in Items : Matching(<<>>, IF i \in Pools THEN "liquidity_drop_pct"
                                      ELSE "holder_drop_pct", i) = {}
  BY DEF Matching
<1>2. \A i \in Items : ThresholdOf(<<>>, i) = DefaultThreshold
  BY <1>1 DEF ThresholdOf, Resolve
<1>3. <<>> \in RuleTables
  BY RulesAssumption
<1>4. [i \in Items |-> DefaultThreshold] \in [Items -> Thresholds]
  BY <1>2, <1>3 DEF Thresholds
<1>5. <<>> \in Seq(Alert)
  OBVIOUS
<1>. QED
  BY <1>4, <1>5 DEF Idle, Task, Thresholds

LEMMA TypeInit == Init => TypeInv
<1>. SUFFICES ASSUME Init PROVE TypeInv
  OBVIOUS
<1>1. \A S : <<>> \in Seq(S)
  OBVIOUS
<1>2. TypeOK
  BY <1>1, RulesTyped, ConstantsAssumption DEF Init, TypeOK
<1>. QED
  BY <1>2 DEF Init, TypeInv, StageOK, InTx, Idle

LEMMA NonemptySeq ==
    ASSUME NEW S, NEW s \in Seq(S)
    PROVE  /\ DOMAIN s = 1..Len(s) /\ Len(s) \in Nat
           /\ s # <<>> <=> Len(s) >= 1
<1>1. s # <<>> => Len(s) \in Nat \ {0}
  BY EmptySeq
<1>. QED
  BY <1>1, LenProperties

(* What is left of a queue once its head is taken.                         *)
LEMMA QueueTail ==
    ASSUME NEW S, NEW s \in Seq(S), s # <<>>
    PROVE  /\ Head(s) \in S /\ Head(s) = s[1] /\ 1 \in DOMAIN s
           /\ Tail(s) \in Seq(S)
           /\ Len(s) # 1 => Tail(s) # <<>>
           /\ Len(s) = 1 => DOMAIN s = {1}
           /\ \A k \in DOMAIN Tail(s) : k + 1 \in DOMAIN s /\ k # 0 /\ Tail(s)[k] = s[k + 1]
           /\ \A k \in DOMAIN s : k = 1 \/ (k - 1 \in DOMAIN Tail(s) /\ s[k] = Tail(s)[k - 1])
<1>1. DOMAIN s = 1..Len(s) /\ Len(s) \in Nat /\ Len(s) >= 1
  BY NonemptySeq
<1>2. /\ Head(s) \in S /\ Tail(s) \in Seq(S) /\ Len(Tail(s)) = Len(s) - 1
      /\ \A k \in 1..Len(Tail(s)) : Tail(s)[k] = s[k + 1]
  BY HeadTailProperties
<1>3. DOMAIN Tail(s) = 1..Len(s) - 1 /\ (Tail(s) # <<>> <=> Len(s) - 1 >= 1)
  BY <1>1, <1>2, NonemptySeq
<1>4. Head(s) = s[1]
  BY <1>1
<1>. QED
  BY <1>1, <1>2, <1>3, <1>4

(* The alert collected for an item of the open cycle.                      *)
LEMMA DropAlertTyped ==
    ASSUME TypeInv, InTx, NEW i \in Items
    PROVE  /\ DropAlert(i) \in Seq(Alert)
           /\ \/ DropAlert(i) = <<>>
              \/ /\ snaps[i] # <<>>
                 /\ IsDrop(LastSnap(i).level, task.list[i], task.rules[i])
                 /\ DropAlert(i) = << [item |-> i, base |-> LastSnap(i).cycle,
                                       cycle |-> cycle] >>
<1>1. CASE snaps[i] = <<>> \/ ~ IsDrop(LastSnap(i).level, task.list[i], task.rules[i])
  BY <1>1 DEF DropAlert
<1>2. CASE snaps[i] # <<>> /\ IsDrop(LastSnap(i).level, task.list[i], task.rules[i])
  <2>. DEFINE S == [cycle : 1..MaxCycles, level : Levels]
  <2>0. cycle \in 1..MaxCycles
    BY DEF TypeInv, TypeOK, StageOK, InTx
  <2>1. snaps[i] \in Seq(S)
    BY DEF TypeInv, TypeOK
  <2>2. Len(snaps[i]) \in 1..Len(snaps[i])
    BY <1>2, <2>1, NonemptySeq
  <2>3. LastSnap(i) \in S
    BY <2>1, <2>2, ElementOfSeq DEF LastSnap
  <2>4. [item |-> i, base |-> LastSnap(i).cycle, cycle |-> cycle] \in Alert
    BY <2>0, <2>3 DEF Alert
  <2>. QED
    BY <1>2, <2>4 DEF DropAlert
<1>. QED
  BY <1>1, <1>2

(* The rows of a cycle are snapshots of what was listed.                   *)
LEMMA LandTyped ==
    ASSUME TypeInv, InTx, LandRows
    PROVE  /\ snaps' \in [Items -> Seq([cycle : 1..MaxCycles, level : Levels])]
           /\ prices' \subseteq 1..MaxCycles
<1>. DEFINE S == [cycle : 1..MaxCycles, level : Levels]
<1>1. cycle \in 1..MaxCycles
  BY DEF TypeInv, TypeOK, StageOK, InTx
<1>2. ASSUME NEW i \in task.staged
      PROVE  Append(snaps[i], [cycle |-> cycle, level |-> task.list[i]]) \in Seq(S)
  <2>1. i \in Items /\ task.list[i] \in Levels /\ snaps[i] \in Seq(S)
    BY DEF TypeInv, TypeOK, StageOK, Task
  <2>. QED
    BY <1>1, <2>1, AppendProperties
<1>. QED
  BY <1>1, <1>2 DEF LandRows, TypeInv, TypeOK

LEMMA AlertDoneTyped ==
    ASSUME TypeInv, task.pc = "alert", AlertDone
    PROVE  /\ task' \in Task /\ Head(task.pending) \in Alert
           /\ task'.pc = "alert" => task'.pending # <<>>
           /\ task'.tx = "none" /\ task'.pc \in {"idle", "alert"}
           /\ task'.staged = task.staged \/ task'.staged = {}
           /\ task'.list = task.list \/ task'.staged = {}
<1>1. task \in Task /\ task.pending \in Seq(Alert) /\ task.pending # <<>> /\ task.tx = "none"
  BY DEF TypeInv, TypeOK, StageOK, Task, InTx
<1>2. Head(task.pending) \in Alert /\ Tail(task.pending) \in Seq(Alert)
      /\ (Len(task.pending) # 1 => Tail(task.pending) # <<>>)
  BY <1>1, QueueTail
<1>3. CASE Len(task.pending) = 1
  BY <1>2, <1>3, RulesTyped DEF AlertDone, Idle
<1>4. CASE Len(task.pending) # 1
  <2>1. task' = [task EXCEPT !.pending = Tail(task.pending)]
    BY <1>4 DEF AlertDone
  <2>2. task' \in Task /\ task'.pending = Tail(task.pending)
    BY <1>1, <1>2, <2>1 DEF Task
  <2>. QED
    BY <1>1, <1>2, <1>4, <2>1, <2>2 DEF Task
<1>. QED
  BY <1>3, <1>4

LEMMA TypeStep == TypeInv /\ [Next]_vars => TypeInv'
<1>. SUFFICES ASSUME TypeInv, [Next]_vars PROVE TypeInv'
  OBVIOUS
<1>0. task \in Task /\ faults \in 0..MaxFaults /\ cycle \in 0..MaxCycles
      /\ MaxFaults \in Nat /\ MaxCycles \in Nat
  BY ConstantsAssumption DEF TypeInv, TypeOK
<1>f. Faulty => faults' \in 0..MaxFaults
  BY <1>0 DEF Faulty
<1>1. CASE UNCHANGED vars
  BY <1>1 DEF vars, TypeInv, TypeOK, StageOK, InTx
<1>2. CASE BeginCycle
  <2>1. PICK list \in Listing, table \in RuleTables :
           task' = [Idle EXCEPT !.pc = "pools", !.list = list,
                               !.rules = [i \in Items |-> ThresholdOf(table, i)],
                               !.todo = Items, !.tx = "open"]
    BY <1>2 DEF BeginCycle
  <2>2. list \in [Items -> Levels \cup {Malformed}]
    BY DEF Listing
  <2>3. task' \in Task
    BY <2>1, <2>2, RulesTyped DEF Task
  <2>4. task'.pc = "pools" /\ task'.tx = "open" /\ task'.staged = {}
    BY <2>1, RulesTyped DEF Idle
  <2>5. cycle' \in 0..MaxCycles /\ cycle' >= 1
    BY <1>0, <1>2 DEF BeginCycle
  <2>6. TypeOK'
    BY <1>2, <2>3, <2>5 DEF BeginCycle, db, TypeInv, TypeOK
  <2>. QED
    BY <2>4, <2>5, <2>6 DEF TypeInv, StageOK, InTx
<1>3. CASE IngestItem
  <2>1. PICK i \in task.todo \cap Stage :
          task' = IF task.tx = "open" /\ task.list[i] # Malformed
                  THEN [task EXCEPT !.todo = @ \ {i}, !.staged = @ \cup {i},
                                    !.pending = @ \o DropAlert(i)]
                  ELSE [task EXCEPT !.todo = @ \ {i}]
    BY <1>3 DEF IngestItem
  <2>2. i \in Items /\ InTx
    BY <1>0, <1>3 DEF Task, IngestItem, InTx
  <2>3. task.pending \o DropAlert(i) \in Seq(Alert)
    BY <1>0, <2>2, DropAlertTyped, ConcatProperties DEF Task
  <2>4. task' \in Task /\ task'.pc = task.pc /\ task'.tx = task.tx
        /\ task'.list = task.list
        /\ \A j \in task'.staged : j \in task.staged \/ (j = i /\ task.list[i] # Malformed)
    BY <1>0, <2>1, <2>2, <2>3 DEF Task
  <2>5. TypeOK'
    BY <1>3, <2>4 DEF IngestItem, db, TypeInv, TypeOK
  <2>. QED
    BY <1>3, <2>2, <2>4, <2>5 DEF IngestItem, TypeInv, StageOK, InTx
<1>4. CASE ItemFails
  <2>1. PICK i \in task.todo, broken \in {"aborted", "lost"} :
          /\ task' = [task EXCEPT !.todo = @ \ {i}, !.tx = broken]
          /\ aborted' = IF broken = "aborted" THEN aborted \cup {cycle} ELSE aborted
    BY <1>4 DEF ItemFails
  <2>2. task' \in Task /\ task'.pc = task.pc /\ task'.tx # "none"
        /\ task'.list = task.list /\ task'.staged = task.staged
    BY <1>0, <2>1 DEF Task
  <2>3. InTx /\ cycle \in 1..MaxCycles
    BY <1>0, <1>4 DEF ItemFails, TypeInv, StageOK, InTx
  <2>4. TypeOK'
    BY <1>4, <1>f, <2>1, <2>2, <2>3 DEF ItemFails, db, TypeInv, TypeOK
  <2>. QED
    BY <1>4, <2>2, <2>3, <2>4 DEF ItemFails, TypeInv, StageOK, InTx
<1>5. CASE Price \/ PriceFails
  <2>1. PICK tx \in {"none", "open", "aborted", "lost"}, priced \in BOOLEAN :
          /\ task' = [task EXCEPT !.pc = "tokens", !.tx = tx, !.priced = priced]
          /\ tx # "none"
          /\ aborted' \subseteq aborted \cup {cycle}
    <3>1. task.tx \in {"open", "aborted", "lost"}
      BY <1>0, <1>5 DEF Price, PriceFails, TypeInv, StageOK, InTx, Task
    <3>2. CASE Price
      BY <1>0, <3>1, <3>2 DEF Price, Task
    <3>3. CASE PriceFails
      <4>1. PICK tx \in {task.tx, "aborted", "lost"} :
              /\ task' = [task EXCEPT !.pc = "tokens", !.tx = tx]
              /\ aborted' = IF tx = "aborted" THEN aborted \cup {cycle} ELSE aborted
        BY <3>3 DEF PriceFails
      <4>2. task' = [task EXCEPT !.pc = "tokens", !.tx = tx, !.priced = task.priced]
        BY <1>0, <4>1 DEF Task
      <4>. QED
        BY <1>0, <3>1, <4>1, <4>2 DEF Task
    <3>. QED
      BY <1>5, <3>2, <3>3
  <2>2. task' \in Task /\ task'.pc = "tokens" /\ task'.tx # "none"
        /\ task'.list = task.list /\ task'.staged = task.staged
    BY <1>0, <2>1 DEF Task
  <2>3. InTx /\ cycle \in 1..MaxCycles
    <3>1. task.pc = "pools"
      BY <1>5 DEF Price, PriceFails
    <3>. QED
      BY <1>0, <3>1 DEF TypeInv, StageOK, InTx
  <2>4. TypeOK'
    BY <1>5, <1>f, <2>1, <2>2, <2>3 DEF Price, PriceFails, db, TypeInv, TypeOK
  <2>5. cycle' = cycle
    BY <1>5 DEF Price, PriceFails
  <2>. QED
    BY <2>2, <2>3, <2>4, <2>5 DEF TypeInv, StageOK, InTx
<1>6. CASE Commit \/ CommitFails
  <2>1. InTx /\ cycle >= 1 /\ cycle' = cycle
    BY <1>6 DEF Commit, CommitFails, AtCommit, TypeInv, StageOK, InTx
  <2>2. /\ snaps' \in [Items -> Seq([cycle : 1..MaxCycles, level : Levels])]
        /\ prices' \subseteq 1..MaxCycles
    BY <1>6, <2>1, LandTyped DEF Commit, CommitFails, TypeInv, TypeOK
  <2>3. AllPending \subseteq Alert
    BY <1>0, ElementOfSeq, LenProperties DEF AllPending, Task
  <2>4. /\ task' \in Task /\ task'.tx = "none" /\ task'.staged = {}
        /\ task'.pc = "idle" \/ (task'.pc = "alert" /\ task'.pending # <<>>)
    <3>1. task' = Idle \/ (task' = Alerting /\ task.pending # <<>>)
      BY <1>6 DEF Commit, CommitFails, Alerting
    <3>2. CASE task' = Idle
      <4>1. /\ Idle.tx = "none" /\ Idle.staged = {} /\ Idle.pc = "idle"
        BY DEF Idle
      <4>. QED
        BY <3>2, <4>1, RulesTyped
    <3>3. CASE task' = Alerting /\ task.pending # <<>>
      <4>1. task' = [Idle EXCEPT !.pc = "alert", !.pending = task.pending]
        BY <3>3 DEF Alerting
      <4>2. task' \in Task
        BY <1>0, <4>1, RulesTyped DEF Task
      <4>. QED
        BY <3>3, <4>1, <4>2 DEF Idle
    <3>. QED
      BY <3>1, <3>2, <3>3
  <2>5. TypeOK'
    BY <1>6, <1>f, <2>2, <2>3, <2>4 DEF Commit, CommitFails, TypeInv, TypeOK
  <2>. QED
    BY <2>1, <2>4, <2>5 DEF TypeInv, StageOK, InTx
<1>7. CASE RecordAlert \/ RecordAlertFails
  <2>1. task.pc = "alert" /\ AlertDone /\ cycle' = cycle
    BY <1>7 DEF RecordAlert, RecordAlertFails
  <2>2. recorded' \in Seq(Alert) /\ lost' \subseteq Alert
    <3>1. Head(task.pending) \in Alert /\ recorded \in Seq(Alert) /\ lost \subseteq Alert
      BY <2>1, AlertDoneTyped DEF TypeInv, TypeOK
    <3>2. Append(recorded, Head(task.pending)) \in Seq(Alert)
      BY <3>1, AppendProperties
    <3>. QED
      BY <1>7, <3>1, <3>2 DEF RecordAlert, RecordAlertFails, db
  <2>3. TypeOK'
    BY <1>7, <1>f, <2>1, <2>2, AlertDoneTyped
    DEF RecordAlert, RecordAlertFails, db, TypeInv, TypeOK
  <2>. QED
    BY <2>1, <2>3, AlertDoneTyped DEF TypeInv, StageOK, InTx
<1>8. CASE Crash
  <2>1. AllPending \subseteq Alert
    BY <1>0, ElementOfSeq, LenProperties DEF AllPending, Task
  <2>2. TypeOK'
    BY <1>8, <1>f, <2>1, RulesTyped DEF Crash, db, TypeInv, TypeOK
  <2>. QED
    BY <1>8, <2>2 DEF Crash, TypeInv, StageOK, InTx, Idle
<1>. QED
  BY <1>1, <1>2, <1>3, <1>4, <1>5, <1>6, <1>7, <1>8 DEF Next, Progress, BoundReached

----------------------------------------------------------------------------

(* The alerts a cycle still has to record after its commit.                *)
Waiting == IF task.pc = "alert" THEN AllPending ELSE {}

LEMMA InvInit == Init => IInv
<1>. SUFFICES ASSUME Init PROVE IInv
  OBVIOUS
<1>1. HistoryOK /\ RecordedOnce
  BY DEF Init, HistoryOK, RecordedOnce
<1>2. TxOK /\ AlertOK
  BY DEF Init, Idle, TxOK, AlertOK, InTx
<1>3. AlertsStoredUnlessAborted
  BY DEF Init, AlertsStoredUnlessAborted, Recorded
<1>4. \A i \in Items : 1..Len(snaps[i]) - 1 = {}
  <2>1. \A i \in Items : Len(snaps[i]) = 0
    BY DEF Init
  <2>. QED
    BY <2>1
<1>5. NoDropMissed
  BY <1>4 DEF NoDropMissed, StoredDrops
<1>. QED
  BY <1>1, <1>2, <1>3, <1>5, TypeInit DEF IInv

(* A step that stores and records nothing.                                 *)
LEMMA QuietStep ==
    ASSUME IInv, UNCHANGED db, aborted \subseteq aborted',
           lost \cup Waiting \subseteq lost' \cup Waiting'
    PROVE  RecordedOnce' /\ AlertsStoredUnlessAborted' /\ NoDropMissed'
<1>1. snaps' = snaps /\ recorded' = recorded
  BY DEF db
<1>2. RecordedOnce'
  BY <1>1 DEF IInv, RecordedOnce
<1>3. AlertsStoredUnlessAborted'
  BY <1>1, SMTT(30) DEF IInv, AlertsStoredUnlessAborted, Recorded, AlertIsStored
<1>4. StoredDrops' = StoredDrops /\ Recorded' = Recorded
  BY <1>1 DEF StoredDrops, Recorded
<1>5. StoredDrops \subseteq Recorded \cup lost \cup Waiting
  BY DEF IInv, NoDropMissed, Waiting
<1>6. NoDropMissed'
  BY <1>4, <1>5 DEF NoDropMissed, Waiting
<1>. QED
  BY <1>2, <1>3, <1>6

LEMMA InSeq ==
    ASSUME NEW S, NEW s \in Seq(S)
    PROVE  \A k \in DOMAIN s : s[k] \in S
  BY LenProperties, ElementOfSeq

(* The rows of the database, typed one by one.                             *)
LEMMA RowsTyped ==
    ASSUME TypeInv
    PROVE  /\ \A i \in Items :
                 /\ snaps[i] \in Seq([cycle : 1..MaxCycles, level : Levels])
                 /\ DOMAIN snaps[i] = 1..Len(snaps[i]) /\ Len(snaps[i]) \in Nat
           /\ \A i \in Items : \A k \in DOMAIN snaps[i] :
                 snaps[i][k].cycle \in Nat /\ snaps[i][k].level \in Nat
           /\ \A k \in DOMAIN recorded : recorded[k] \in Alert /\ recorded[k].cycle \in Nat
           /\ cycle \in Nat
<1>. DEFINE S == [cycle : 1..MaxCycles, level : Levels]
<1>1. \A i \in Items : snaps[i] \in Seq(S)
  BY DEF TypeInv, TypeOK
<1>. HIDE DEF S
<1>2. \A i \in Items : \A k \in DOMAIN snaps[i] : snaps[i][k] \in S
  BY <1>1, InSeq
<1>3. \A r \in S : r.cycle \in Nat /\ r.level \in Nat
  <2>1. \A r \in S : r.cycle \in 1..MaxCycles /\ r.level \in Levels
    BY DEF S
  <2>2. Levels \subseteq Nat /\ 1..MaxCycles \subseteq Nat
    BY ConstantsAssumption
  <2>. QED
    BY <2>1, <2>2
<1>4. recorded \in Seq(Alert) /\ cycle \in Nat
  BY ConstantsAssumption DEF TypeInv, TypeOK
<1>5. \A k \in DOMAIN recorded : recorded[k] \in Alert
  BY <1>4, InSeq
<1>6. \A a \in Alert : a.cycle \in Nat
  BY ConstantsAssumption DEF Alert
<1>7. \A i \in Items : DOMAIN snaps[i] = 1..Len(snaps[i]) /\ Len(snaps[i]) \in Nat
  BY <1>1, LenProperties
<1>8. \A i \in Items : snaps[i] \in Seq([cycle : 1..MaxCycles, level : Levels])
  BY <1>1 DEF S
<1>. QED
  BY <1>2, <1>3, <1>4, <1>5, <1>6, <1>7, <1>8

LEMMA BeginStep == ASSUME IInv, TypeInv', BeginCycle PROVE IInv'
<1>1. PICK list \in Listing, table \in RuleTables :
         task' = [Idle EXCEPT !.pc = "pools", !.list = list,
                              !.rules = [i \in Items |-> ThresholdOf(table, i)],
                              !.todo = Items, !.tx = "open"]
  BY DEF BeginCycle
<1>2. /\ task.pc = "idle" /\ task'.pc = "pools" /\ task'.pending = <<>>
      /\ task'.todo = Items /\ task'.tx = "open"
      /\ cycle \in Nat /\ cycle' = cycle + 1 /\ UNCHANGED <<db, aborted, lost>>
  BY <1>1, ConstantsAssumption DEF BeginCycle, Idle, IInv, TypeInv, TypeOK
<1>3. HistoryOK'
  <2>1. snaps' = snaps /\ recorded' = recorded
    BY <1>2 DEF db
  <2>2. cycle' \in Nat /\ cycle < cycle'
    BY <1>2
  <2>. QED
    BY <1>2, <2>1, <2>2, RowsTyped DEF IInv, HistoryOK
<1>4. TxOK' /\ AlertOK'
  BY <1>2 DEF TxOK, AlertOK, OneEach, InTx
<1>5. Waiting = {}
  BY <1>2 DEF Waiting
<1>. QED
  BY <1>2, <1>3, <1>4, <1>5, QuietStep DEF IInv

(* A step inside the transaction: only the task and what is aborted change. *)
LEMMA InTxStep ==
    ASSUME IInv, TypeInv', InTx, InTx', UNCHANGED <<db, cycle, lost>>,
           aborted \subseteq aborted', TxOK'
    PROVE  IInv'
<1>1. snaps' = snaps /\ recorded' = recorded /\ cycle' = cycle
  BY DEF db
<1>2. HistoryOK'
  BY <1>1 DEF IInv, HistoryOK, InTx
<1>3. AlertOK' /\ Waiting = {}
  BY DEF AlertOK, Waiting, InTx
<1>. QED
  BY <1>2, <1>3, QuietStep DEF IInv

(* What an item of the open cycle is found to be does not depend on how    *)
(* far the cycle has come.                                                 *)
LEMMA FoundStays ==
    ASSUME UNCHANGED <<db, cycle>>, task'.list = task.list, task'.rules = task.rules,
           task'.todo \subseteq task.todo
    PROVE  /\ \A a : Found(a) => Found(a)'
           /\ \A i : DropAlert(i)' = DropAlert(i)
<1>1. snaps' = snaps
  BY DEF db
<1>2. \A i : LastSnap(i)' = LastSnap(i)
  BY <1>1 DEF LastSnap
<1>3. \A a : Found(a) => Found(a)'
  BY <1>1, <1>2 DEF Found
<1>. QED
  BY <1>1, <1>2, <1>3 DEF DropAlert

(* The items already found, and one more, have an alert each.              *)
LEMMA ItemStep == ASSUME IInv, TypeInv', IngestItem PROVE IInv'
<1>1. PICK i \in task.todo \cap Stage :
        task' = IF task.tx = "open" /\ task.list[i] # Malformed
                THEN [task EXCEPT !.todo = @ \ {i}, !.staged = @ \cup {i},
                                  !.pending = @ \o DropAlert(i)]
                ELSE [task EXCEPT !.todo = @ \ {i}]
  BY DEF IngestItem
<1>2. /\ InTx /\ task \in Task /\ TypeInv /\ TxOK /\ i \in Items /\ i \in task.todo
      /\ UNCHANGED <<db, cycle, aborted, lost>>
  BY DEF IngestItem, InTx, IInv, TypeInv, TypeOK, Task
<1>3. /\ task'.pc = task.pc /\ task'.tx = task.tx /\ task'.list = task.list
      /\ task'.rules = task.rules /\ task'.todo = task.todo \ {i}
  BY <1>1, <1>2 DEF Task
<1>4. /\ \A a : Found(a) => Found(a)'
      /\ \A j : DropAlert(j)' = DropAlert(j)
  BY <1>2, <1>3, FoundStays
<1>5. CASE ~ (task.tx = "open" /\ task.list[i] # Malformed)
  <2>1. task'.pending = task.pending /\ task'.staged = task.staged
    BY <1>1, <1>2, <1>5 DEF Task
  <2>2. AllPending' = AllPending
    BY <2>1 DEF AllPending
  <2>3. task.tx = "open" => i \notin task.staged /\ task.list[i] = Malformed
    BY <1>2, <1>5 DEF TypeInv, StageOK
  <2>4. TxOK'
    BY <1>2, <1>3, <1>4, <2>1, <2>2, <2>3 DEF TxOK, OneEach, InTx
  <2>. QED
    BY <1>2, <1>3, <2>4, InTxStep DEF InTx
<1>6. CASE task.tx = "open" /\ task.list[i] # Malformed
  <2>1. task'.pending = task.pending \o DropAlert(i) /\ task'.staged = task.staged \cup {i}
    BY <1>1, <1>2, <1>6 DEF Task
  <2>2. task.pending \in Seq(Alert)
    BY <1>2 DEF Task
  <2>3. PICK a :
           /\ DropAlert(i) \in {<<>>, <<a>>}
           /\ DropAlert(i) # <<>> =>
                 /\ a \in Alert
                 /\ a = [item |-> i, base |-> LastSnap(i).cycle, cycle |-> cycle]
                 /\ snaps[i] # <<>>
                 /\ IsDrop(LastSnap(i).level, task.list[i], task.rules[i])
    <3>1. PICK a : a = [item |-> i, base |-> LastSnap(i).cycle, cycle |-> cycle]
      OBVIOUS
    <3>2. DropAlert(i) = <<a>> => a \in Alert
      <4>1. DropAlert(i) \in Seq(Alert)
        BY <1>2, DropAlertTyped
      <4>. QED
        BY <4>1, ElementOfSeq
    <3>. QED
      BY <1>2, <3>1, <3>2, DropAlertTyped
  <2>4. \/ /\ DropAlert(i) = <<>> /\ task'.pending = task.pending
        \/ /\ DropAlert(i) = <<a>> /\ a.item = i /\ Found(a)'
           /\ task'.pending = Append(task.pending, a) /\ a \in Alert
    <3>1. CASE DropAlert(i) = <<>>
      BY <2>1, <2>2, <3>1, ConcatEmptySeq
    <3>2. CASE DropAlert(i) # <<>>
      <4>1. /\ DropAlert(i) = <<a>> /\ a \in Alert /\ a.item = i /\ a.cycle = cycle
            /\ a.base = LastSnap(i).cycle /\ snaps[i] # <<>>
            /\ task.list[i] < LastSnap(i).level
        BY <2>3, <3>2 DEF IsDrop
      <4>2. task'.pending = Append(task.pending, a)
        BY <2>1, <2>2, <4>1, AppendIsConcat
      <4>3. snaps' = snaps /\ LastSnap(i)' = LastSnap(i)
        BY <1>2 DEF db, LastSnap
      <4>4. Found(a)'
        BY <1>2, <1>3, <1>6, <4>1, <4>3 DEF Found, LastSnap
      <4>. QED
        BY <4>1, <4>2, <4>4
    <3>. QED
      BY <3>1, <3>2
  <2>5. \A k \in DOMAIN task.pending : task.pending[k].item # i
    BY <1>2 DEF TxOK, Found
  <2>6. /\ OneEach'
        /\ \A k \in DOMAIN task'.pending : Found(task.pending[k])'
        /\ AllPending \subseteq AllPending'
        /\ DropAlert(i) = <<a>> => a \in AllPending'
    <3>1. CASE DropAlert(i) = <<>> /\ task'.pending = task.pending
      BY <1>2, <1>4, <3>1 DEF TxOK, OneEach, AllPending
    <3>2. CASE /\ DropAlert(i) = <<a>> /\ a.item = i /\ Found(a)'
               /\ task'.pending = Append(task.pending, a) /\ a \in Alert
      <4>. DEFINE n == Len(task.pending)
      <4>1. /\ n \in Nat /\ DOMAIN task.pending = 1..n
            /\ DOMAIN task'.pending = 1..n + 1
            /\ \A k \in 1..n : task'.pending[k] = task.pending[k]
            /\ task'.pending[n + 1] = a
        BY <2>2, <3>2, AppendProperties, LenProperties
      <4>. HIDE DEF n
      <4>2. OneEach'
        BY <1>2, <2>5, <3>2, <4>1 DEF TxOK, OneEach
      <4>3. \A k \in DOMAIN task'.pending : Found(task.pending[k])'
        BY <1>2, <1>4, <3>2, <4>1 DEF TxOK
      <4>4. AllPending \subseteq AllPending' /\ a \in AllPending'
        BY <4>1 DEF AllPending
      <4>. QED
        BY <4>2, <4>3, <4>4
    <3>. QED
      BY <2>4, <3>1, <3>2
  <2>7. DropAlert(i)' = <<>> \/ DropAlert(i)'[1] \in AllPending'
    BY <1>4, <2>4, <2>6
  <2>8. \A j \in Items \ task'.todo :
           /\ j \in task'.staged <=> task'.list[j] # Malformed
           /\ j \in task'.staged =>
                 DropAlert(j)' = <<>> \/ DropAlert(j)'[1] \in AllPending'
    BY <1>2, <1>3, <1>4, <1>6, <2>1, <2>6, <2>7 DEF TxOK
  <2>9. TxOK'
    BY <1>2, <1>3, <1>6, <2>6, <2>8 DEF TxOK
  <2>. QED
    BY <1>2, <1>3, <2>9, InTxStep DEF InTx
<1>. QED
  BY <1>5, <1>6

(* A failed row breaks the transaction, which then stages nothing more.    *)
LEMMA BreakStep ==
    ASSUME IInv, TypeInv', ItemFails \/ Price \/ PriceFails
    PROVE  IInv'
<1>1. /\ InTx /\ task \in Task /\ TypeInv /\ TxOK
      /\ UNCHANGED <<db, cycle, lost>> /\ aborted \subseteq aborted'
  BY DEF ItemFails, Price, PriceFails, InTx, IInv, TypeInv, TypeOK
<1>2. /\ InTx' /\ task'.list = task.list /\ task'.rules = task.rules
      /\ task'.todo \subseteq task.todo /\ task'.staged = task.staged
      /\ task'.pending = task.pending
      /\ task'.tx \in {task.tx, "aborted", "lost"}
      /\ task'.tx = "aborted" => cycle \in aborted' \/ task.tx = "aborted"
      /\ task'.tx = "open" => task'.todo = task.todo
      /\ task'.pc = "tokens" => task.pc = "tokens" \/ task.todo \cap Pools = {}
  <2>1. CASE ItemFails
    BY <1>1, <2>1 DEF ItemFails, InTx, Task
  <2>2. CASE Price
    BY <1>1, <2>2 DEF Price, InTx, Task
  <2>3. CASE PriceFails
    <3>1. PICK tx \in {task.tx, "aborted", "lost"} :
             /\ task' = [task EXCEPT !.pc = "tokens", !.tx = tx]
             /\ aborted' = IF tx = "aborted" THEN aborted \cup {cycle} ELSE aborted
      BY <2>3 DEF PriceFails
    <3>2. task.pc = "pools" /\ task.todo \cap Pools = {}
      BY <2>3 DEF PriceFails
    <3>. QED
      BY <1>1, <3>1, <3>2 DEF InTx, Task
  <2>. QED
    BY <2>1, <2>2, <2>3
<1>3. /\ \A a : Found(a) => Found(a)'
      /\ \A j : DropAlert(j)' = DropAlert(j)
  BY <1>1, <1>2, FoundStays
<1>4. AllPending' = AllPending /\ cycle' = cycle
  BY <1>1, <1>2 DEF AllPending
<1>5. TxOK'
  BY <1>1, <1>2, <1>3, <1>4 DEF TxOK, OneEach
<1>. QED
  BY <1>1, <1>2, <1>5, InTxStep

(* A cycle that ends without storing or recording anything more.           *)
LEMMA IdleStep ==
    ASSUME IInv, TypeInv', UNCHANGED <<db, cycle, aborted>>, task' = Idle,
           lost \cup Waiting \subseteq lost'
    PROVE  IInv'
<1>1. /\ task'.pc = "idle" /\ ~ InTx' /\ snaps' = snaps /\ recorded' = recorded
      /\ cycle' = cycle
  BY DEF Idle, InTx, db
<1>2. HistoryOK'
  BY <1>1 DEF IInv, HistoryOK
<1>3. TxOK' /\ AlertOK' /\ Waiting' = {}
  BY <1>1 DEF TxOK, AlertOK, Waiting
<1>. QED
  BY <1>2, <1>3, QuietStep DEF IInv

(* What the rows of an open cycle add to the database.                     *)
LEMMA LandEffect ==
    ASSUME TypeInv, InTx, LandRows, NEW i \in Items
    PROVE  /\ i \notin task.staged => snaps'[i] = snaps[i]
           /\ i \in task.staged =>
                 /\ DOMAIN snaps'[i] = 1..Len(snaps[i]) + 1
                 /\ Len(snaps'[i]) = Len(snaps[i]) + 1
                 /\ \A k \in 1..Len(snaps[i]) : snaps'[i][k] = snaps[i][k]
                 /\ snaps'[i][Len(snaps[i]) + 1] = [cycle |-> cycle, level |-> task.list[i]]
<1>. DEFINE S == [cycle : 1..MaxCycles, level : Levels]
            r == [cycle |-> cycle, level |-> task.list[i]]
<1>1. snaps'[i] = IF i \in task.staged THEN Append(snaps[i], r) ELSE snaps[i]
  BY DEF LandRows
<1>2. CASE i \in task.staged
  <2>1. cycle \in 1..MaxCycles /\ task.list[i] \in Levels
    BY <1>2 DEF TypeInv, TypeOK, StageOK, InTx, Task
  <2>2. snaps[i] \in Seq(S) /\ r \in S
    BY <2>1, RowsTyped
  <2>3. /\ Append(snaps[i], r) \in Seq(S)
        /\ Len(Append(snaps[i], r)) = Len(snaps[i]) + 1
        /\ \A k \in 1..Len(snaps[i]) : Append(snaps[i], r)[k] = snaps[i][k]
        /\ Append(snaps[i], r)[Len(snaps[i]) + 1] = r
    BY <2>2, AppendProperties
  <2>4. DOMAIN Append(snaps[i], r) = 1..Len(snaps[i]) + 1
    BY <2>3, LenProperties
  <2>. QED
    BY <1>1, <1>2, <2>3, <2>4
<1>. QED
  BY <1>1, <1>2

LEMMA StoredDrop ==
    ASSUME NEW i \in Items, NEW k \in 1..Len(snaps[i]) - 1,
           \A t \in Thresholds : IsDrop(snaps[i][k].level, snaps[i][k + 1].level, t)
    PROVE  [item |-> i, base |-> snaps[i][k].cycle, cycle |-> snaps[i][k + 1].cycle]
              \in StoredDrops
<1>. DEFINE S(j) == {n \in 1..Len(snaps[j]) - 1 :
                       \A t \in Thresholds :
                          IsDrop(snaps[j][n].level, snaps[j][n + 1].level, t)}
            D(j) == {[item |-> j, base |-> snaps[j][n].cycle,
                      cycle |-> snaps[j][n + 1].cycle] : n \in S(j)}
<1>1. k \in S(i)
  OBVIOUS
<1>. HIDE DEF S
<1>2. [item |-> i, base |-> snaps[i][k].cycle, cycle |-> snaps[i][k + 1].cycle] \in D(i)
  BY <1>1
<1>. HIDE DEF D
<1>3. StoredDrops = UNION {D(j) : j \in Items}
  BY DEF StoredDrops, D, S
<1>. QED
  BY <1>2, <1>3

(* A row of a later cycle keeps the order.                                 *)
LEMMA LaterRow ==
    ASSUME NEW old, NEW new, NEW n \in Nat, NEW c \in Nat,
           \A k \in 1..n : old[k].cycle \in Nat /\ old[k].cycle < c,
           \A j, k \in 1..n : j < k => old[j].cycle < old[k].cycle,
           \A k \in 1..n : new[k] = old[k],
           new[n + 1].cycle = c
    PROVE  /\ \A j, k \in 1..n + 1 : j < k => new[j].cycle < new[k].cycle
           /\ \A k \in 1..n + 1 : new[k].cycle <= c
<1>1. \A k \in 1..n + 1 : k \in 1..n \/ k = n + 1
  OBVIOUS
<1>2. \A k \in 1..n : new[k].cycle = old[k].cycle
  OBVIOUS
<1>3. ASSUME NEW j \in 1..n + 1, NEW k \in 1..n + 1, j < k
      PROVE  new[j].cycle < new[k].cycle
  <2>1. j \in 1..n
    BY <1>3
  <2>. QED
    BY <1>1, <1>2, <1>3, <2>1
<1>. QED
  BY <1>1, <1>2, <1>3

(* A stored alert stays stored.                                            *)
LEMMA StoredStays ==
    ASSUME TypeInv, InTx, LandRows, NEW a \in Alert, AlertIsStored(a)
    PROVE  AlertIsStored(a)'
<1>. DEFINE i == a.item
<1>1. i \in Items /\ Len(snaps[i]) \in Nat
  BY RowsTyped DEF Alert
<1>2. PICK k \in 1..Len(snaps[i]) - 1 :
         /\ snaps[i][k].cycle = a.base /\ snaps[i][k + 1].cycle = a.cycle
         /\ snaps[i][k + 1].level < snaps[i][k].level
  BY DEF AlertIsStored
<1>. HIDE DEF i
<1>3. /\ i \notin task.staged => snaps'[i] = snaps[i]
      /\ i \in task.staged =>
           /\ Len(snaps'[i]) = Len(snaps[i]) + 1
           /\ \A j \in 1..Len(snaps[i]) : snaps'[i][j] = snaps[i][j]
  BY <1>1, LandEffect
<1>4. k \in 1..Len(snaps'[i]) - 1 /\ snaps'[i][k] = snaps[i][k]
      /\ snaps'[i][k + 1] = snaps[i][k + 1]
  <2>1. k \in 1..Len(snaps[i]) /\ k + 1 \in 1..Len(snaps[i])
    BY <1>1, <1>2
  <2>. QED
    BY <1>1, <1>2, <1>3, <2>1
<1>. QED
  BY <1>2, <1>4 DEF AlertIsStored, i

(* The commit of an open transaction: all that is listed is stored, and    *)
(* with it the drop of each pending alert.                                 *)
LEMMA LandStep ==
    ASSUME IInv, TypeInv', AtCommit, task.tx = "open", LandRows,
           UNCHANGED <<recorded, cycle, aborted>>,
           task' = Idle \/ (task' = Alerting /\ task.pending # <<>>),
           lost \cup AllPending \subseteq lost' \cup Waiting'
    PROVE  IInv'
<1>1. /\ InTx /\ TypeInv /\ HistoryOK /\ TxOK /\ task \in Task
      /\ task.todo = {} /\ cycle \in Nat
      /\ cycle' = cycle /\ recorded' = recorded /\ aborted' = aborted
  BY RowsTyped DEF AtCommit, InTx, IInv, TypeInv, TypeOK
<1>2. /\ task'.pc \in {"idle", "alert"}
      /\ task'.pc = "alert" => task'.pending = task.pending
  <2>1. CASE task' = Idle
    BY <2>1 DEF Idle
  <2>2. CASE task' = Alerting /\ task.pending # <<>>
    <3>1. task' = [Idle EXCEPT !.pc = "alert", !.pending = task.pending]
      BY <2>2 DEF Alerting
    <3>. QED
      BY <3>1 DEF Idle
  <2>. QED
    BY <2>1, <2>2
<1>3. ~ InTx'
  BY <1>2 DEF InTx
<1>4. ASSUME NEW i \in Items
      PROVE  /\ i \notin task.staged => snaps'[i] = snaps[i]
             /\ i \in task.staged =>
                   /\ DOMAIN snaps'[i] = 1..Len(snaps[i]) + 1
                   /\ Len(snaps'[i]) = Len(snaps[i]) + 1
                   /\ \A k \in 1..Len(snaps[i]) : snaps'[i][k] = snaps[i][k]
                   /\ snaps'[i][Len(snaps[i]) + 1] =
                         [cycle |-> cycle, level |-> task.list[i]]
             /\ DOMAIN snaps[i] = 1..Len(snaps[i]) /\ Len(snaps[i]) \in Nat
             /\ \A k \in 1..Len(snaps[i]) :
                   snaps[i][k].cycle \in Nat /\ snaps[i][k].cycle < cycle
             /\ \A j, k \in 1..Len(snaps[i]) :
                   j < k => snaps[i][j].cycle < snaps[i][k].cycle
  <2>1. /\ DOMAIN snaps[i] = 1..Len(snaps[i]) /\ Len(snaps[i]) \in Nat
        /\ \A k \in DOMAIN snaps[i] : snaps[i][k].cycle \in Nat
    BY <1>1, RowsTyped
  <2>2. /\ \A k \in DOMAIN snaps[i] : snaps[i][k].cycle < cycle
        /\ \A j, k \in DOMAIN snaps[i] :
              j < k => snaps[i][j].cycle < snaps[i][k].cycle
    BY <1>1 DEF HistoryOK
  <2>. QED
    BY <1>1, <2>1, <2>2, LandEffect
<1>5. HistoryOK'
  <2>1. ASSUME NEW i \in Items
        PROVE  /\ \A j, k \in DOMAIN snaps'[i] :
                      j < k => snaps'[i][j].cycle < snaps'[i][k].cycle
               /\ \A k \in DOMAIN snaps'[i] : snaps'[i][k].cycle <= cycle
    <3>. DEFINE n == Len(snaps[i])
    <3>0. /\ DOMAIN snaps[i] = 1..n /\ n \in Nat
          /\ \A k \in 1..n : snaps[i][k].cycle \in Nat /\ snaps[i][k].cycle < cycle
          /\ \A j, k \in 1..n : j < k => snaps[i][j].cycle < snaps[i][k].cycle
      BY <1>4
    <3>. HIDE DEF n
    <3>1. CASE i \notin task.staged
      <4>1. snaps'[i] = snaps[i]
        BY <1>4, <3>1
      <4>. QED
        BY <1>1, <3>0, <4>1
    <3>2. CASE i \in task.staged
      <4>1. /\ DOMAIN snaps'[i] = 1..n + 1
            /\ \A k \in 1..n : snaps'[i][k] = snaps[i][k]
            /\ snaps'[i][n + 1] = [cycle |-> cycle, level |-> task.list[i]]
        BY <1>4, <3>2 DEF n
      <4>2. snaps'[i][n + 1].cycle = cycle
        BY <4>1
      <4>. QED
        BY <1>1, <3>0, <4>1, <4>2, LaterRow
    <3>. QED
      BY <3>1, <3>2
  <2>. QED
    BY <1>1, <1>3, <2>1 DEF HistoryOK
(* Each pending alert is of the last snapshot on record and the new one.   *)
<1>6. ASSUME NEW a \in Alert, Found(a)
      PROVE  AlertIsStored(a)'
  <2>. DEFINE i == a.item
              n == Len(snaps[i])
  <2>1. i \in Items /\ i \in task.staged
    <3>1. i \in Items
      BY DEF Alert
    <3>2. i \notin task.todo /\ task.list[i] # Malformed
      BY <1>6 DEF Found
    <3>. QED
      BY <1>1, <3>1, <3>2 DEF TxOK
  <2>2. /\ n \in Nat /\ LastSnap(i) = snaps[i][n]
    BY <1>1, <2>1, RowsTyped DEF LastSnap
  <2>3. /\ snaps[i][n].cycle = a.base /\ a.cycle = cycle
        /\ task.list[i] < snaps[i][n].level /\ snaps[i] # <<>>
    BY <1>6, <2>2 DEF Found
  <2>6. n >= 1
    BY <1>1, <2>1, <2>3, RowsTyped, NonemptySeq
  <2>4. /\ Len(snaps'[i]) = n + 1
        /\ snaps'[i][n] = snaps[i][n]
        /\ snaps'[i][n + 1] = [cycle |-> cycle, level |-> task.list[i]]
    BY <1>4, <2>1, <2>2, <2>6
  <2>5. n \in 1..Len(snaps'[i]) - 1
    BY <2>2, <2>4, <2>6
  <2>. HIDE DEF n
  <2>7. /\ snaps'[i][n].cycle = a.base /\ snaps'[i][n + 1].cycle = a.cycle
        /\ snaps'[i][n + 1].level < snaps'[i][n].level
    BY <2>3, <2>4
  <2>. QED
    BY <2>5, <2>7 DEF AlertIsStored
<1>7. \A k \in DOMAIN task.pending :
         task.pending[k] \in Alert /\ Found(task.pending[k])
  BY <1>1, InSeq DEF TxOK, Task
<1>8. TxOK' /\ AlertOK'
  <2>1. TxOK'
    BY <1>3 DEF TxOK
  <2>2. ASSUME task'.pc = "alert" PROVE AlertOK'
    <3>1. task'.pending = task.pending
      BY <1>2, <2>2
    <3>2. \A k \in DOMAIN task'.pending : AlertIsStored(task.pending[k])'
      BY <1>6, <1>7, <3>1
    <3>3. \A r \in DOMAIN recorded : recorded[r].cycle # cycle
      BY <1>1, RowsTyped DEF HistoryOK
    <3>4. \A k \in DOMAIN task'.pending : task'.pending[k].cycle = cycle
      BY <1>7, <3>1 DEF Found
    <3>5. OneEach'
      BY <1>1, <3>1 DEF TxOK, OneEach
    <3>. QED
      BY <1>1, <3>1, <3>2, <3>3, <3>4, <3>5 DEF AlertOK
  <2>. QED
    BY <2>1, <2>2 DEF AlertOK
<1>9. RecordedOnce'
  BY <1>1 DEF IInv, RecordedOnce
<1>10. AlertsStoredUnlessAborted'
  <2>1. \A a \in Recorded : a \in Alert /\ (a.cycle \in aborted \/ AlertIsStored(a))
    BY RowsTyped DEF IInv, AlertsStoredUnlessAborted, Recorded
  <2>2. \A a \in Recorded : a.cycle \in aborted \/ AlertIsStored(a)'
    BY <1>1, <2>1, StoredStays
  <2>. QED
    BY <1>1, <2>2 DEF AlertsStoredUnlessAborted, Recorded
<1>11. NoDropMissed'
  <2>1. ASSUME NEW x \in StoredDrops'
        PROVE  x \in Recorded' \cup lost' \cup Waiting'
    <3>0. PICK i \in Items : \E k \in 1..Len(snaps'[i]) - 1 :
            /\ \A t \in Thresholds :
                  IsDrop(snaps'[i][k].level, snaps'[i][k + 1].level, t)
            /\ x = [item |-> i, base |-> snaps'[i][k].cycle,
                     cycle |-> snaps'[i][k + 1].cycle]
      BY <2>1 DEF StoredDrops
    <3>1. PICK k \in 1..Len(snaps'[i]) - 1 :
            /\ \A t \in Thresholds :
                  IsDrop(snaps'[i][k].level, snaps'[i][k + 1].level, t)
            /\ x = [item |-> i, base |-> snaps'[i][k].cycle,
                     cycle |-> snaps'[i][k + 1].cycle]
      BY <3>0
    <3>. DEFINE n == Len(snaps[i])
    <3>2. n \in Nat
      BY <1>4
    <3>3. CASE k \in 1..n - 1
      <4>1. snaps'[i][k] = snaps[i][k] /\ snaps'[i][k + 1] = snaps[i][k + 1]
        <5>1. k \in 1..n /\ k + 1 \in 1..n
          BY <3>2, <3>3
        <5>. QED
          BY <1>4, <5>1
      <4>2. x \in StoredDrops
        <5>1. /\ \A t \in Thresholds :
                    IsDrop(snaps[i][k].level, snaps[i][k + 1].level, t)
              /\ x = [item |-> i, base |-> snaps[i][k].cycle,
                       cycle |-> snaps[i][k + 1].cycle]
          BY <3>1, <4>1
        <5>. QED
          BY <3>3, <5>1, StoredDrop
      <4>3. x \in Recorded \cup lost
        <5>1. task.pc # "alert"
          BY <1>1 DEF InTx
        <5>. QED
          BY <4>2, <5>1 DEF IInv, NoDropMissed
      <4>. QED
        BY <1>1, <4>3 DEF Recorded
    <3>4. CASE k \notin 1..n - 1
      <4>1. i \in task.staged /\ k = n /\ n >= 1
        <5>1. i \in task.staged /\ Len(snaps'[i]) = n + 1
          BY <1>4, <3>1, <3>4
        <5>. QED
          BY <3>1, <3>2, <3>4, <5>1
      <4>2. /\ snaps[i] # <<>> /\ LastSnap(i) = snaps[i][n]
        BY <1>1, <4>1, RowsTyped, NonemptySeq DEF LastSnap
      <4>3. snaps'[i][k] = snaps[i][n]
            /\ snaps'[i][k + 1] = [cycle |-> cycle, level |-> task.list[i]]
        BY <1>4, <3>2, <4>1
      <4>4. IsDrop(LastSnap(i).level, task.list[i], task.rules[i])
        BY <1>1, <3>1, <4>2, <4>3 DEF Task
      <4>5. DropAlert(i) = <<x>>
        BY <3>1, <4>2, <4>3, <4>4 DEF DropAlert
      <4>6. x \in AllPending
        <5>1. DropAlert(i) = <<>> \/ DropAlert(i)[1] \in AllPending
          BY <1>1, <4>1 DEF TxOK
        <5>. QED
          BY <4>5, <5>1
      <4>. QED
        BY <4>6
    <3>. QED
      BY <3>3, <3>4
  <2>. QED
    BY <2>1 DEF NoDropMissed, Waiting
<1>. QED
  BY <1>5, <1>8, <1>9, <1>10, <1>11 DEF IInv

(* The end of a cycle's transaction, whatever became of it.                *)
LEMMA CommitStep ==
    ASSUME IInv, TypeInv', Commit \/ CommitFails
    PROVE  IInv'
<1>1. /\ AtCommit /\ InTx /\ cycle \in Nat /\ TypeInv /\ HistoryOK /\ TxOK
      /\ Waiting = {} /\ UNCHANGED <<recorded, cycle, aborted>>
  BY RowsTyped DEF Commit, CommitFails, AtCommit, InTx, Waiting, IInv
<1>2. CASE CommitFails /\ UNCHANGED <<snaps, prices, lost>>
  BY <1>1, <1>2, IdleStep DEF CommitFails, db
<1>3. CASE CommitFails /\ LandRows /\ lost' = lost \cup AllPending
  BY <1>1, <1>3, LandStep DEF CommitFails
<1>4. CASE Commit /\ task.tx = "open"
  <2>1. task' = Alerting /\ LandRows /\ lost' = lost
    BY <1>4 DEF Commit
  <2>2. CASE task.pending = <<>>
    <3>1. task' = Idle /\ AllPending = {}
      BY <2>1, <2>2 DEF Alerting, AllPending
    <3>. QED
      BY <1>1, <1>4, <2>1, <3>1, LandStep
  <2>3. CASE task.pending # <<>>
    <3>1. task' = [Idle EXCEPT !.pc = "alert", !.pending = task.pending]
      BY <2>1, <2>3 DEF Alerting
    <3>2. task'.pc = "alert" /\ task'.pending = task.pending
      BY <3>1 DEF Idle
    <3>3. AllPending \subseteq Waiting'
      BY <3>2 DEF Waiting, AllPending
    <3>. QED
      BY <1>1, <1>4, <2>1, <2>3, <3>3, LandStep
  <2>. QED
    BY <2>2, <2>3
<1>5. CASE Commit /\ task.tx = "lost"
  BY <1>1, <1>5, IdleStep DEF Commit, db
<1>6. CASE Commit /\ task.tx = "aborted"
  <2>1. task' = Alerting /\ UNCHANGED <<db, lost>>
    BY <1>6 DEF Commit, db
  <2>2. CASE task.pending = <<>>
    BY <1>1, <2>1, <2>2, IdleStep DEF Alerting
  <2>3. CASE task.pending # <<>>
    <3>1. task' = [Idle EXCEPT !.pc = "alert", !.pending = task.pending]
      BY <2>1, <2>3 DEF Alerting
    <3>2. task'.pc = "alert" /\ task'.pending = task.pending
      BY <3>1 DEF Idle
    <3>3. ~ InTx' /\ snaps' = snaps /\ recorded' = recorded /\ cycle' = cycle
      BY <1>1, <2>1, <3>2 DEF InTx, db
    <3>4. HistoryOK' /\ TxOK'
      BY <1>1, <3>3 DEF HistoryOK, TxOK
    <3>5. AlertOK'
      <4>1. OneEach' /\ \A k \in DOMAIN task'.pending : task'.pending[k].cycle = cycle
        BY <1>1, <3>2 DEF TxOK, OneEach, Found
      <4>2. \A r \in DOMAIN recorded : recorded[r].cycle # cycle
        BY <1>1, RowsTyped DEF HistoryOK
      <4>3. cycle \in aborted /\ aborted' = aborted
        BY <1>1, <1>6 DEF TxOK
      <4>. QED
        BY <3>3, <4>1, <4>2, <4>3 DEF AlertOK
    <3>. QED
      BY <1>1, <2>1, <3>4, <3>5, QuietStep DEF IInv
  <2>. QED
    BY <2>2, <2>3
<1>7. Commit => task.tx \in {"open", "aborted", "lost"}
  BY DEF Commit
<1>. QED
  BY <1>2, <1>3, <1>4, <1>5, <1>6, <1>7 DEF CommitFails

(* The first pending alert is recorded, or lost.                           *)
LEMMA AlertStep ==
    ASSUME IInv, TypeInv', RecordAlert \/ RecordAlertFails
    PROVE  IInv'
<1>. DEFINE a == task.pending[1]
<1>1. /\ task \in Task /\ task.pc = "alert" /\ AlertDone /\ TypeInv
      /\ task.pending \in Seq(Alert) /\ task.pending # <<>>
      /\ UNCHANGED <<snaps, cycle, aborted>> /\ recorded \in Seq(Alert)
  BY DEF RecordAlert, RecordAlertFails, db, IInv, TypeInv, TypeOK, StageOK, Task
<1>2. /\ a \in Alert /\ Head(task.pending) = a /\ 1 \in DOMAIN task.pending
      /\ a.cycle = cycle
      /\ cycle \in aborted \/ AlertIsStored(a)
      /\ \A r \in DOMAIN recorded : recorded[r].item = a.item => recorded[r].cycle # cycle
  BY <1>1, QueueTail DEF IInv, AlertOK
(* What is left is what was pending, the first alert aside.                *)
<1>3. /\ task'.pc \in {"idle", "alert"}
      /\ \A k \in DOMAIN task.pending : k = 1 \/ (task'.pc = "alert" /\ \E j \in DOMAIN task'.pending : task'.pending[j] = task.pending[k])
      /\ task'.pc = "alert" =>
           \A j \in DOMAIN task'.pending :
              j # 0 /\ j + 1 \in DOMAIN task.pending /\ task'.pending[j] = task.pending[j + 1]
  <2>1. CASE Len(task.pending) = 1
    BY <1>1, <2>1, QueueTail DEF AlertDone, Idle
  <2>2. CASE Len(task.pending) # 1
    <3>1. task' = [task EXCEPT !.pending = Tail(task.pending)]
      BY <1>1, <2>2 DEF AlertDone
    <3>2. task'.pc = "alert" /\ task'.pending = Tail(task.pending)
      BY <1>1, <3>1 DEF Task
    <3>3. \A k \in DOMAIN task.pending : k = 1 \/ (k - 1 \in DOMAIN Tail(task.pending) /\ task.pending[k] = Tail(task.pending)[k - 1])
      BY <1>1, QueueTail
    <3>4. \A k \in DOMAIN Tail(task.pending) : k + 1 \in DOMAIN task.pending /\ k # 0 /\ Tail(task.pending)[k] = task.pending[k + 1]
      BY <1>1, QueueTail
    <3>5. \A k \in DOMAIN task.pending : k = 1 \/ \E j \in DOMAIN task'.pending : task'.pending[j] = task.pending[k]
      BY <3>2, <3>3
    <3>. QED
      BY <3>2, <3>4, <3>5
  <2>. QED
    BY <2>1, <2>2
<1>4. AllPending \subseteq {a} \cup Waiting'
  BY <1>3 DEF AllPending, Waiting
<1>5. ~ InTx /\ ~ InTx' /\ TxOK'
  BY <1>1, <1>3 DEF InTx, TxOK
<1>. HIDE DEF a
<1>6. ASSUME task'.pc = "alert"
      PROVE  /\ OneEach'
             /\ \A k \in DOMAIN task'.pending :
                   /\ task'.pending[k].cycle = cycle
                   /\ cycle \in aborted \/ AlertIsStored(task.pending[k])'
                   /\ task'.pending[k].item # a.item
                   /\ \A r \in DOMAIN recorded :
                         recorded[r].item = task'.pending[k].item
                            => recorded[r].cycle # cycle
  <2>1. AlertOK /\ OneEach
    BY <1>1 DEF IInv, AlertOK
  <2>2. \A b : AlertIsStored(b)' <=> AlertIsStored(b)
    BY <1>1 DEF AlertIsStored
  <2>3. \A k \in DOMAIN task'.pending :
           k # 0 /\ k \in Int /\ k + 1 \in DOMAIN task.pending
           /\ task'.pending[k] = task.pending[k + 1]
    <3>1. task'.pending \in Seq(Alert)
      BY DEF TypeInv, TypeOK, Task
    <3>. QED
      BY <1>3, <1>6, <3>1, LenProperties
  <2>4. OneEach'
    <3>. SUFFICES ASSUME NEW j \in DOMAIN task'.pending, NEW k \in DOMAIN task'.pending,
                         task'.pending[j].item = task'.pending[k].item
                  PROVE  j = k
      BY DEF OneEach
    <3>1. j + 1 = k + 1
      BY <2>1, <2>3 DEF OneEach
    <3>. QED
      BY <2>3, <3>1
  <2>5. ASSUME NEW k \in DOMAIN task'.pending
        PROVE  /\ task'.pending[k].cycle = cycle
               /\ cycle \in aborted \/ AlertIsStored(task.pending[k])'
               /\ task'.pending[k].item # a.item
               /\ \A r \in DOMAIN recorded :
                     recorded[r].item = task'.pending[k].item
                        => recorded[r].cycle # cycle
    <3>1. /\ task.pending[k + 1].cycle = cycle
          /\ cycle \in aborted \/ AlertIsStored(task.pending[k + 1])
          /\ \A r \in DOMAIN recorded :
                recorded[r].item = task.pending[k + 1].item
                   => recorded[r].cycle # cycle
      BY <1>1, <2>1, <2>3 DEF AlertOK
    <3>2. task.pending[k + 1].item # a.item
      <4>1. k + 1 # 1
        BY <2>3
      <4>. QED
        BY <1>2, <2>1, <2>3, <4>1 DEF OneEach, a
    <3>. QED
      BY <2>2, <2>3, <3>1, <3>2
  <2>. QED
    BY <2>4, <2>5
<1>7. CASE RecordAlertFails
  <2>1. UNCHANGED db /\ recorded' = recorded /\ snaps' = snaps
        /\ lost' = lost \cup {a} /\ cycle' = cycle /\ aborted' = aborted
    BY <1>2, <1>7 DEF RecordAlertFails, db
  <2>2. AlertOK'
    BY <1>6, <2>1 DEF AlertOK
  <2>3. HistoryOK'
    BY <1>5, <2>1 DEF IInv, HistoryOK
  <2>4. lost \cup Waiting \subseteq lost' \cup Waiting'
    BY <1>1, <1>4, <2>1 DEF Waiting
  <2>. QED
    BY <1>5, <2>1, <2>2, <2>3, <2>4, QuietStep DEF IInv
<1>8. CASE RecordAlert
  <2>. DEFINE n == Len(recorded)
  <2>1. /\ recorded' = Append(recorded, a) /\ snaps' = snaps /\ cycle' = cycle
        /\ aborted' = aborted /\ lost' = lost
    BY <1>2, <1>8 DEF RecordAlert
  <2>2. /\ n \in Nat /\ DOMAIN recorded = 1..n /\ DOMAIN recorded' = 1..n + 1
        /\ \A k \in 1..n : recorded'[k] = recorded[k]
        /\ recorded'[n + 1] = a
    BY <1>1, <1>2, <2>1, AppendProperties, LenProperties
  <2>. HIDE DEF n
  <2>3. /\ \A k \in DOMAIN recorded' : k \in DOMAIN recorded \/ k = n + 1
        /\ \A k \in DOMAIN recorded : k \in DOMAIN recorded' /\ recorded'[k] = recorded[k]
        /\ n + 1 \in DOMAIN recorded'
    BY <2>2
  <2>4. Recorded' = Recorded \cup {a}
    <3>1. Recorded' \subseteq Recorded \cup {a}
      BY <2>2, <2>3 DEF Recorded
    <3>2. Recorded \cup {a} \subseteq Recorded'
      BY <2>2, <2>3 DEF Recorded
    <3>. QED
      BY <3>1, <3>2
  <2>5. HistoryOK'
    <3>1. \A k \in DOMAIN recorded' : recorded'[k].cycle <= cycle
      <4>1. a.cycle <= cycle
        BY <1>1, <1>2, RowsTyped
      <4>. QED
        BY <2>2, <2>3, <4>1 DEF IInv, HistoryOK
    <3>. QED
      BY <1>5, <2>1, <3>1 DEF IInv, HistoryOK
  <2>6. AlertOK'
    <3>. SUFFICES ASSUME task'.pc = "alert" PROVE AlertOK'
      BY DEF AlertOK
    <3>1. \A k \in DOMAIN task'.pending : \A r \in DOMAIN recorded' :
             recorded'[r].item = task'.pending[k].item => recorded'[r].cycle # cycle
      BY <1>6, <2>2, <2>3
    <3>. QED
      BY <1>6, <2>1, <3>1 DEF AlertOK
  <2>7. RecordedOnce'
    <3>1. \A r \in DOMAIN recorded :
             ~ (recorded[r].item = a.item /\ recorded[r].cycle = a.cycle)
      BY <1>2
    <3>. QED
      BY <2>2, <2>3, <3>1 DEF IInv, RecordedOnce
  <2>8. AlertsStoredUnlessAborted'
    <3>1. \A b : AlertIsStored(b)' <=> AlertIsStored(b)
      BY <2>1 DEF AlertIsStored
    <3>. QED
      BY <1>2, <2>1, <2>4, <3>1 DEF IInv, AlertsStoredUnlessAborted
  <2>9. NoDropMissed'
    <3>1. StoredDrops' = StoredDrops
      BY <2>1 DEF StoredDrops
    <3>2. StoredDrops \subseteq Recorded \cup lost \cup AllPending
      BY <1>1 DEF IInv, NoDropMissed
    <3>. QED
      BY <1>4, <2>1, <2>4, <3>1, <3>2 DEF NoDropMissed, Waiting
  <2>. QED
    BY <1>5, <2>5, <2>6, <2>7, <2>8, <2>9 DEF IInv
<1>. QED
  BY <1>7, <1>8

LEMMA CrashStep == ASSUME IInv, TypeInv', Crash PROVE IInv'
<1>1. UNCHANGED <<db, cycle, aborted>> /\ task' = Idle
  BY DEF Crash
<1>2. lost \cup Waiting \subseteq lost'
  BY DEF Crash, Waiting
<1>. QED
  BY <1>1, <1>2, IdleStep

LEMMA InvStep == IInv /\ [Next]_vars => IInv'
<1>. SUFFICES ASSUME IInv, [Next]_vars PROVE IInv'
  OBVIOUS
<1>1. TypeInv'
  BY TypeStep DEF IInv
<1>2. CASE UNCHANGED vars
  <2>1. /\ snaps' = snaps /\ recorded' = recorded /\ task' = task /\ cycle' = cycle
        /\ aborted' = aborted /\ lost' = lost /\ UNCHANGED db
    BY <1>2 DEF vars, db
  <2>2. HistoryOK'
    BY <2>1 DEF IInv, HistoryOK, InTx
  <2>3. TxOK'
    BY <2>1 DEF IInv, TxOK, OneEach, Found, InTx, AllPending, DropAlert, LastSnap
  <2>4. AlertOK'
    BY <2>1 DEF IInv, AlertOK, OneEach, AlertIsStored
  <2>5. Waiting' = Waiting
    BY <2>1 DEF Waiting, AllPending
  <2>. QED
    BY <1>1, <2>1, <2>2, <2>3, <2>4, <2>5, QuietStep DEF IInv
<1>3. CASE BeginCycle
  BY <1>1, <1>3, BeginStep
<1>4. CASE IngestItem
  BY <1>1, <1>4, ItemStep
<1>5. CASE ItemFails \/ Price \/ PriceFails
  BY <1>1, <1>5, BreakStep
<1>6. CASE Commit \/ CommitFails
  BY <1>1, <1>6, CommitStep
<1>7. CASE RecordAlert \/ RecordAlertFails
  BY <1>1, <1>7, AlertStep
<1>8. CASE Crash
  BY <1>1, <1>8, CrashStep
<1>. QED
  BY <1>2, <1>3, <1>4, <1>5, <1>6, <1>7, <1>8 DEF Next, Progress, BoundReached

----------------------------------------------------------------------------

(* The types, whatever fails.                                              *)
THEOREM SnapshotTypes == Spec => []TypeOK
<1>. QED
  BY TypeInit, TypeStep, PTL DEF Spec, TypeInv

(* An alert's drop is between two stored snapshots, one after the other,   *)
(* unless a failed statement had aborted its cycle's transaction: any      *)
(* number of items, whichever calls fail and wherever a crash comes.       *)
THEOREM AlertsAreOfStoredDrops == Spec => []AlertsStoredUnlessAborted
<1>. QED
  BY InvInit, InvStep, PTL DEF Spec, IInv

(* A drop that every threshold catches, between two stored snapshots, is   *)
(* alerted on, about to be, or lost to a failure after the commit.         *)
THEOREM DropsAlerted == Spec => []NoDropMissed
<1>. QED
  BY InvInit, InvStep, PTL DEF Spec, IInv

(* Two alerts from one stored snapshot are of one and the same next        *)
(* snapshot, and of one cycle, which alerts on an item once.               *)
LEMMA OnceEach == IInv => DropAlertedOnce
<1>. SUFFICES ASSUME IInv, NEW j \in DOMAIN recorded, NEW k \in DOMAIN recorded,
                     recorded[j].item = recorded[k].item,
                     recorded[j].base = recorded[k].base,
                     recorded[j].cycle \notin aborted, recorded[k].cycle \notin aborted
              PROVE  j = k
  BY DEF DropAlertedOnce
<1>. DEFINE i == recorded[j].item
            S == snaps[i]
<1>1. /\ i \in Items
      /\ AlertIsStored(recorded[j]) /\ AlertIsStored(recorded[k])
  BY RowsTyped DEF IInv, AlertsStoredUnlessAborted, Recorded, Alert
<1>2. PICK m \in 1..Len(S) - 1 :
         S[m].cycle = recorded[j].base /\ S[m + 1].cycle = recorded[j].cycle
  BY <1>1 DEF AlertIsStored
<1>3. PICK n \in 1..Len(S) - 1 :
         S[n].cycle = recorded[j].base /\ S[n + 1].cycle = recorded[k].cycle
  BY <1>1 DEF AlertIsStored
<1>4. /\ DOMAIN S = 1..Len(S) /\ Len(S) \in Nat
      /\ \A x \in DOMAIN S : S[x].cycle \in Nat
      /\ \A x, y \in DOMAIN S : x < y => S[x].cycle < S[y].cycle
  BY <1>1, RowsTyped DEF IInv, HistoryOK
<1>. HIDE DEF S
<1>5. m = n
  BY <1>2, <1>3, <1>4
<1>6. recorded[j].cycle = recorded[k].cycle
  BY <1>2, <1>3, <1>5
<1>. QED
  BY <1>6 DEF IInv, RecordedOnce

(* A drop measured from one stored snapshot is alerted on once, unless its *)
(* transaction was aborted, however many cycles fail and wherever the      *)
(* process crashes (run_once, ingest.rs:98-153).                           *)
THEOREM DropsAlertedOnce == Spec => []DropAlertedOnce
<1>. QED
  BY InvInit, InvStep, OnceEach, PTL DEF Spec

(* A cycle's writes are all or nothing: a step that stores anything stores *)
(* a snapshot of every well-formed item of the cycle's listings.           *)
THEOREM WritesAllOrNothing == Spec => AllOrNothing
<1>. DEFINE A == snaps' # snaps \/ prices' # prices =>
                   \A i \in Items :
                      snaps'[i] = IF task.list[i] = Malformed THEN snaps[i]
                                  ELSE Append(snaps[i], [cycle |-> cycle,
                                                         level |-> task.list[i]])
<1>1. ASSUME IInv, [Next]_vars PROVE [A]_vars
  <2>1. CASE UNCHANGED <<snaps, prices>>
    BY <2>1
  <2>2. CASE ~ UNCHANGED <<snaps, prices>>
    <3>1. AtCommit /\ task.tx = "open" /\ LandRows
      BY <1>1, <2>2 DEF Next, Progress, BoundReached, BeginCycle, IngestItem, ItemFails,
         Price, PriceFails, Commit, CommitFails, RecordAlert, RecordAlertFails, Crash,
         db, vars
    <3>2. \A i \in Items : i \in task.staged <=> task.list[i] # Malformed
      BY <1>1, <3>1 DEF IInv, TxOK, AtCommit, InTx
    <3>. QED
      BY <3>1, <3>2 DEF LandRows
  <2>. QED
    BY <2>1, <2>2
<1>. QED
  BY <1>1, InvInit, InvStep, PTL DEF Spec, AllOrNothing

============================================================================
