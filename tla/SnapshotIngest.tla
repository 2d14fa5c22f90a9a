--------------------------- MODULE SnapshotIngest ---------------------------
(***************************************************************************)
(* The snapshot half of the ingest process's run_once (src/bin/ingest.rs): *)
(* one transaction per cycle for the snapshots of every pool and token and *)
(* for the prices, with an error caught per row, and alerts on sudden      *)
(* drops collected inside the transaction and recorded after its commit.   *)
(*                                                                         *)
(* A transaction has Postgres's semantics: after a statement fails every   *)
(* later one fails too, and COMMIT then rolls back and still answers       *)
(* without an error (sqlx returns Ok).  After the connection is lost every *)
(* later call fails, the commit's included.                                *)
(***************************************************************************)
EXTENDS AlertRules, FiniteSets

CONSTANTS
    Pools,              \* liquidity pools; the level is total_shares
    Tokens,             \* issued assets; the level is the holder count
    Levels,             \* the levels a pool or token can have
    Malformed,          \* a pool record that ingest_pool rejects before any SQL
    DefaultThreshold,   \* config.*_drop_threshold_pct
    MaxCycles,          \* bound on the cycles of a behaviour
    MaxFaults           \* bound on failed calls and crashes

ASSUME ConstantsAssumption ==
    /\ Pools \cap Tokens = {}
    /\ Levels \subseteq Nat /\ Malformed \notin Nat
    /\ DefaultThreshold \in Nat
    /\ MaxCycles \in Nat /\ MaxFaults \in Nat

Items == Pools \cup Tokens

(* The drop threshold (percent) of an item by the rules of a table.        *)
ThresholdOf(table, i) ==
    Resolve(table, IF i \in Pools THEN "liquidity_drop_pct" ELSE "holder_drop_pct",
            i, DefaultThreshold)

Thresholds == {ThresholdOf(table, i) : table \in RuleTables, i \in Items}

VARIABLES
    snaps,      \* snapshot rows per item, oldest first
    prices,     \* the cycles whose price rows are stored
    recorded,   \* the liquidity_drop and holder_drop rows of the alerts table
    task,       \* the cycle's locals and its transaction
    cycle,      \* history: cycles started, stands for the cycle's timestamp
    aborted,    \* history: cycles whose transaction a failed statement aborted
    lost,       \* history: drop alerts lost with a committed snapshot
    faults      \* history: failed calls and crashes so far

vars  == <<snaps, prices, recorded, task, cycle, aborted, lost, faults>>
db    == <<snaps, prices, recorded>>

(* Only a pool's record can be malformed: ingest_token defaults instead.   *)
Listing == {f \in [Items -> Levels \cup {Malformed}] :
               \A i \in Tokens : f[i] # Malformed}

Idle == [pc |-> "idle", list |-> [i \in Items |-> Malformed],
         rules |-> [i \in Items |-> DefaultThreshold],
         todo |-> {}, tx |-> "none", staged |-> {}, priced |-> FALSE,
         pending |-> <<>>]

Init ==
    /\ snaps = [i \in Items |-> <<>>]
    /\ prices = {}
    /\ recorded = <<>>
    /\ task = Idle
    /\ cycle = 0
    /\ aborted = {}
    /\ lost = {}
    /\ faults = 0

Faulty == faults < MaxFaults /\ faults' = faults + 1
----------------------------------------------------------------------------
(* percent_change between two levels is a drop of at least `threshold`     *)
(* percent; growth from zero is undefined and never a drop.                *)
IsDrop(before, now, threshold) ==
    /\ before > 0
    /\ now < before
    /\ (before - now) * 100 >= threshold * before

(* Both listings are fetched, whatever the network's levels have become,   *)
(* and the drop rules loaded (the defaults, if that fails), before the     *)
(* transaction begins.  A listing that fails ends the cycle right there.   *)
BeginCycle ==
    /\ task.pc = "idle"
    /\ cycle < MaxCycles
    /\ cycle' = cycle + 1
    /\ \E list \in Listing, table \in RuleTables :
          task' = [Idle EXCEPT !.pc = "pools", !.list = list,
                               !.rules = [i \in Items |-> ThresholdOf(table, i)],
                               !.todo = Items, !.tx = "open"]
    /\ UNCHANGED <<db, aborted, lost, faults>>

Stage == IF task.pc = "pools" THEN Pools ELSE Tokens

LastSnap(i) == snaps[i][Len(snaps[i])]

(* The alert for item i's drop since the last snapshot on record, if any.  *)
DropAlert(i) ==
    IF /\ snaps[i] # <<>>
       /\ IsDrop(LastSnap(i).level, task.list[i], task.rules[i])
    THEN << [item |-> i, base |-> LastSnap(i).cycle, cycle |-> cycle] >>
    ELSE <<>>

(* Faulty variants of IngestItem: a malformed record is stored; a row of a *)
(* broken transaction is tried again instead of skipped.                   *)
IngestMalformed ==
    /\ task.pc \in {"pools", "tokens"}
    /\ \E i \in task.todo \cap Stage :
          task' = IF task.tx = "open"
                  THEN [task EXCEPT !.todo = @ \ {i}, !.staged = @ \cup {i}]
                  ELSE [task EXCEPT !.todo = @ \ {i}]
    /\ UNCHANGED <<db, cycle, aborted, lost, faults>>

IngestRetries ==
    /\ task.pc \in {"pools", "tokens"}
    /\ \E i \in task.todo \cap Stage :
          task' = IF task.tx = "open"
                  THEN [task EXCEPT !.todo = @ \ {i}]
                  ELSE task
    /\ UNCHANGED <<db, cycle, aborted, lost, faults>>

(* ingest_pool and ingest_token: the latest snapshot is read, the item and *)
(* the new snapshot are written, a drop's alert is collected.  A malformed *)
(* pool, and every row of a broken transaction, is skipped.                *)
IngestItem ==
    /\ task.pc \in {"pools", "tokens"}
    /\ \E i \in task.todo \cap Stage :
          task' = IF task.tx = "open" /\ task.list[i] # Malformed
                  THEN [task EXCEPT !.todo = @ \ {i}, !.staged = @ \cup {i},
                                    !.pending = @ \o DropAlert(i)]
                  ELSE [task EXCEPT !.todo = @ \ {i}]
    /\ UNCHANGED <<db, cycle, aborted, lost, faults>>

(* Faulty variant of ItemFails: a failed row undoes only itself.           *)
ItemFailsAlone ==
    /\ Faulty
    /\ task.pc \in {"pools", "tokens"}
    /\ task.tx = "open"
    /\ \E i \in task.todo \cap Stage : task' = [task EXCEPT !.todo = @ \ {i}]
    /\ UNCHANGED <<db, cycle, aborted, lost>>

(* A statement of the item fails: in the database, or with the connection. *)
(* The loop logs "skipping pool" and goes on.                              *)
ItemFails ==
    /\ Faulty
    /\ task.pc \in {"pools", "tokens"}
    /\ task.tx = "open"
    /\ \E i \in {j \in task.todo \cap Stage : task.list[j] # Malformed},
          broken \in {"aborted", "lost"} :
          /\ task' = [task EXCEPT !.todo = @ \ {i}, !.tx = broken]
          /\ aborted' = IF broken = "aborted" THEN aborted \cup {cycle} ELSE aborted
    /\ UNCHANGED <<db, cycle, lost>>

(* ingest_prices, between pools and tokens: the feed's price and those     *)
(* derived from the pools are written, or the feed fails and none is, or a *)
(* write fails in the transaction.                                         *)
Price ==
    /\ task.pc = "pools"
    /\ task.todo \cap Pools = {}
    /\ task' = [task EXCEPT !.pc = "tokens", !.priced = (task.tx = "open")]
    /\ UNCHANGED <<db, cycle, aborted, lost, faults>>

PriceFails ==
    /\ Faulty
    /\ task.pc = "pools"
    /\ task.todo \cap Pools = {}
    /\ \E tx \in {task.tx} \cup (IF task.tx = "open" THEN {"aborted", "lost"} ELSE {}) :
          /\ task' = [task EXCEPT !.pc = "tokens", !.tx = tx]
          /\ aborted' = IF tx = "aborted" THEN aborted \cup {cycle} ELSE aborted
    /\ UNCHANGED <<db, cycle, lost>>

(* The staged rows, all of them, become visible.                           *)
LandRows ==
    /\ snaps' = [i \in Items |->
          IF i \in task.staged
          THEN Append(snaps[i], [cycle |-> cycle, level |-> task.list[i]])
          ELSE snaps[i]]
    /\ prices' = IF task.priced THEN prices \cup {cycle} ELSE prices

AtCommit == task.pc = "tokens" /\ task.todo = {}

(* Faulty variant of Alerting: a committed cycle forgets its alerts.       *)
AlertingNever == Idle

Alerting == IF task.pending = <<>> THEN Idle
            ELSE [Idle EXCEPT !.pc = "alert", !.pending = task.pending]

AllPending == {task.pending[k] : k \in DOMAIN task.pending}

Commit ==
    /\ AtCommit
    /\ \/ task.tx = "open"    /\ LandRows                  /\ task' = Alerting
       \/ task.tx = "aborted" /\ UNCHANGED <<snaps, prices>> /\ task' = Alerting
       \/ task.tx = "lost"    /\ UNCHANGED <<snaps, prices>> /\ task' = Idle
    /\ UNCHANGED <<recorded, cycle, aborted, lost, faults>>

(* Faulty variant of CommitFails: the alerts go out all the same.          *)
CommitFailsAlerts ==
    /\ Faulty
    /\ AtCommit
    /\ task.tx = "open"
    /\ task' = Alerting
    /\ UNCHANGED <<db, cycle, aborted, lost>>

(* The commit fails, or took effect but its answer was lost: `?` returns   *)
(* and the collected alerts go with it.                                    *)
CommitFails ==
    /\ Faulty
    /\ AtCommit
    /\ task.tx = "open"
    /\ \/ LandRows /\ lost' = lost \cup AllPending
       \/ UNCHANGED <<snaps, prices, lost>>
    /\ task' = Idle
    /\ UNCHANGED <<recorded, cycle, aborted>>

(* Faulty variant of AlertDone: the wrong alert is taken off.              *)
AlertDoneDropsLast ==
    task' = IF Len(task.pending) = 1 THEN Idle
            ELSE [task EXCEPT !.pending = SubSeq(@, 1, Len(@) - 1)]

AlertDone ==
    task' = IF Len(task.pending) = 1 THEN Idle
            ELSE [task EXCEPT !.pending = Tail(@)]

RecordAlert ==
    /\ task.pc = "alert"
    /\ recorded' = Append(recorded, Head(task.pending))
    /\ AlertDone
    /\ UNCHANGED <<snaps, prices, cycle, aborted, lost, faults>>

(* insert_alert fails: the error is logged and the next alert is taken.    *)
RecordAlertFails ==
    /\ Faulty
    /\ task.pc = "alert"
    /\ lost' = lost \cup {Head(task.pending)}
    /\ AlertDone
    /\ UNCHANGED <<db, cycle, aborted>>

(* The process dies and is restarted: an open transaction rolls back, and  *)
(* alerts not yet recorded are gone.                                       *)
Crash ==
    /\ Faulty
    /\ task.pc # "idle"
    /\ lost' = IF task.pc = "alert" THEN lost \cup AllPending ELSE lost
    /\ task' = Idle
    /\ UNCHANGED <<db, cycle, aborted>>

Progress ==
    BeginCycle \/ IngestItem \/ Price \/ Commit \/ RecordAlert

(* The bound on cycles is reached; the program would go on.                *)
BoundReached ==
    /\ task.pc = "idle" /\ cycle = MaxCycles
    /\ UNCHANGED vars

Next ==
    \/ Progress
    \/ ItemFails \/ PriceFails \/ CommitFails \/ RecordAlertFails \/ Crash
    \/ BoundReached

Spec == Init /\ [][Next]_vars

(* The process keeps stepping: every call is answered or times out.        *)
FairSpec == Spec /\ WF_vars(Progress)

----------------------------------------------------------------------------
(* Properties.                                                             *)

Alert == [item : Items, base : 1..MaxCycles, cycle : 1..MaxCycles]

Task == [pc      : {"idle", "pools", "tokens", "alert"},
         list    : [Items -> Levels \cup {Malformed}],
         rules   : [Items -> Thresholds],
         todo    : SUBSET Items,
         tx      : {"none", "open", "aborted", "lost"},
         staged  : SUBSET Items,
         priced  : BOOLEAN,
         pending : Seq(Alert)]

(* The shape of the database's and the process's state.                    *)
TypeOK ==
    /\ snaps \in [Items -> Seq([cycle : 1..MaxCycles, level : Levels])]
    /\ prices \subseteq 1..MaxCycles
    /\ recorded \in Seq(Alert)
    /\ task \in Task
    /\ cycle \in 0..MaxCycles
    /\ aborted \subseteq 1..MaxCycles
    /\ lost \subseteq Alert
    /\ faults \in 0..MaxFaults

(* "One fsync for the whole cycle, and all-or-nothing writes" (ingest.rs:  *)
(* 98-103): a step that stores anything stores this cycle's snapshot of    *)
(* every well-formed item listed, though errors are caught row by row.     *)
AllOrNothing ==
    [][snaps' # snaps \/ prices' # prices =>
         \A i \in Items :
            snaps'[i] = IF task.list[i] = Malformed THEN snaps[i]
                        ELSE Append(snaps[i], [cycle |-> cycle,
                                               level |-> task.list[i]])]_vars

(* The drops that every threshold would have caught, by item and cycles.   *)
StoredDrops ==
    UNION {{[item |-> i, base |-> snaps[i][k].cycle, cycle |-> snaps[i][k + 1].cycle] :
              k \in {n \in 1..Len(snaps[i]) - 1 :
                       \A t \in Thresholds :
                          IsDrop(snaps[i][n].level, snaps[i][n + 1].level, t)}} :
           i \in Items}

Recorded == {recorded[k] : k \in DOMAIN recorded}

(* Every drop between two consecutive stored snapshots is alerted on, is   *)
(* about to be, or was lost to a failed call or a crash after the commit:  *)
(* a cycle that fails moves no baseline, so the next one sees the drop.    *)
NoDropMissed ==
    StoredDrops \subseteq Recorded \cup lost \cup
                          (IF task.pc = "alert" THEN AllPending ELSE {})

(* An alert's drop is between two stored snapshots, with nothing between   *)
(* them, unless a failed statement had aborted the cycle's transaction.    *)
AlertIsStored(a) ==
    \E k \in 1..Len(snaps[a.item]) - 1 :
       /\ snaps[a.item][k].cycle = a.base
       /\ snaps[a.item][k + 1].cycle = a.cycle
       /\ snaps[a.item][k + 1].level < snaps[a.item][k].level

AlertsStoredUnlessAborted ==
    \A a \in Recorded : a.cycle \in aborted \/ AlertIsStored(a)

(* One drop is alerted on once, unless its transaction was aborted.        *)
DropAlertedOnce ==
    \A j, k \in DOMAIN recorded :
       /\ recorded[j].item = recorded[k].item
       /\ recorded[j].base = recorded[k].base
       /\ {recorded[j].cycle, recorded[k].cycle} \cap aborted = {}
       => j = k

(* Every cycle ends: no error path leaves the process in its transaction.  *)
CycleEnds == (task.pc # "idle") ~> (task.pc = "idle")

(* ingest.rs:19-21: a drop detected mid-transaction is alerted on after    *)
(* tx.commit(): the alert's snapshots would be on record.                  *)
AlertsAreStored == \A a \in Recorded : AlertIsStored(a)
============================================================================
