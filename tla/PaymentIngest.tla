--------------------------- MODULE PaymentIngest ---------------------------
(***************************************************************************)
(* The payments half of the ingest process (src/bin/ingest.rs): a cursor   *)
(* over Horizon's payment log, the whale rows written with it in one       *)
(* database transaction, and the alerts recorded after that transaction.   *)
(*                                                                         *)
(* Postgres holds cursor, whales and alerts, which survive a crash; each   *)
(* ingest process p holds task[p], which does not.  Every step below ends  *)
(* at an .await of the code: a database statement or an HTTP answer.       *)
(***************************************************************************)
EXTENDS Integers, Sequences, FiniteSets, FiniteSetsExt

CONSTANTS
    Ingesters,          \* the lumina-ingest processes (a deployment has one)
    Assets,             \* the assets payments are made in
    Payments,           \* the payment records Horizon can serve
    Thresholds,         \* the whale thresholds an operator's rule can set
    DefaultThreshold,   \* config.whale_threshold
    NoCursor,           \* no ingest_state row for the payments cursor
    NoAmount,           \* an operation record without an amount
    PageSize,           \* payments per page (200 in the code)
    MaxPages,           \* MAX_PAGES_PER_CYCLE (25 in the code)
    MaxPayments,        \* bound on the length of Horizon's log
    MaxFaults           \* bound on failed calls and crashes in a behaviour

ASSUME ConstantsAssumption ==
    /\ PageSize \in Nat \ {0} /\ MaxPages \in Nat \ {0}
    /\ MaxPayments \in Nat /\ MaxFaults \in Nat
    /\ Thresholds \subseteq Nat /\ DefaultThreshold \in Thresholds
    /\ NoCursor \notin Int /\ NoAmount \notin Int
    /\ Payments \subseteq
         [op : STRING, asset : Assets, amount : Nat \cup {NoAmount}]

VARIABLES
    chain,      \* Horizon's payments, oldest first; a paging token is a position
    rules,      \* the threshold in force per asset (alert_rules over the default)
    cursor,     \* ingest_state["horizon_payments_cursor"]
    whales,     \* number of whale_transactions rows per payment
    alerts,     \* number of whale_payment rows in the alerts table per payment
    task,       \* what each process holds in memory during a cycle
    seed,       \* history: the cursor the feed was first seeded at
    lost,       \* history: stored payments whose alert a failure cost
    faults      \* history: failed calls and crashes so far

vars == <<chain, rules, cursor, whales, alerts, task, seed, lost, faults>>
db   == <<cursor, whales, alerts, seed, lost>>

Pos == 1..MaxPayments
Tip == Len(chain)

(* The cycle's locals: the rules it loaded, the payments fetched so far    *)
(* (those after `at`, up to `hi`), the next one to examine and the alerts  *)
(* (and, until the commit, the uncommitted rows) collected.                *)
Task == [pc      : {"idle", "readCursor", "seedFetch", "seedSave", "fetch",
                    "process", "alert"},
         rules   : [Assets -> Thresholds],
         at      : 0..MaxPayments,
         hi      : 0..MaxPayments,
         pages   : 0..MaxPages,
         pending : SUBSET Pos]

DefaultRules == [a \in Assets |-> DefaultThreshold]

Idle == [pc |-> "idle", rules |-> DefaultRules, at |-> 0, hi |-> 0,
         pages |-> 0, pending |-> {}]

(* ingest_whale_payment up to the insert, with logic::whale_amount and     *)
(* alert_rules::resolve_whale_threshold.                                   *)
IsWhale(pay, thresholds) ==
    /\ pay.amount # NoAmount
    /\ pay.op = "payment"
    /\ pay.amount >= thresholds[pay.asset]

(* The payments whose fate does not depend on what the rules say.          *)
AlwaysWhale(pay) == \A r \in [Assets -> Thresholds] : IsWhale(pay, r)
NeverWhale(pay)  == \A r \in [Assets -> Thresholds] : ~ IsWhale(pay, r)

Init ==
    /\ chain = <<>>
    /\ rules = DefaultRules
    /\ cursor = NoCursor
    /\ whales = [i \in Pos |-> 0]
    /\ alerts = [i \in Pos |-> 0]
    /\ task = [p \in Ingesters |-> Idle]
    /\ seed = NoCursor
    /\ lost = {}
    /\ faults = 0

----------------------------------------------------------------------------
(* The world: the network makes payments, an operator edits alert rules.   *)

NewPayment ==
    /\ Len(chain) < MaxPayments
    /\ \E pay \in Payments : chain' = Append(chain, pay)
    /\ UNCHANGED <<rules, task, faults, db>>

ChangeRule ==
    /\ \E a \in Assets, t \in Thresholds : rules' = [rules EXCEPT ![a] = t]
    /\ UNCHANGED <<chain, task, faults, db>>

----------------------------------------------------------------------------
(* One cycle of process p.                                                 *)

(* Process p goes on with task t; with Idle, its cycle is over.            *)
Continue(p, t) == task' = [task EXCEPT ![p] = t]

(* The tick: rules are loaded once per cycle, and a failure to load them   *)
(* leaves the cycle with the defaults (unwrap_or_default).                 *)
StartCycle(p) ==
    /\ task[p].pc = "idle"
    /\ Continue(p, [task[p] EXCEPT !.pc = "readCursor", !.rules = rules])
    /\ UNCHANGED <<chain, rules, faults, db>>

StartCycleWithoutRules(p) ==
    /\ faults < MaxFaults
    /\ task[p].pc = "idle"
    /\ Continue(p, [task[p] EXCEPT !.pc = "readCursor", !.rules = DefaultRules])
    /\ faults' = faults + 1
    /\ UNCHANGED <<chain, rules, db>>

ReadCursor(p) ==
    /\ task[p].pc = "readCursor"
    /\ Continue(p, IF cursor = NoCursor
                   THEN [task[p] EXCEPT !.pc = "seedFetch"]
                   ELSE [task[p] EXCEPT !.pc = "fetch",
                                        !.at = cursor, !.hi = cursor])
    /\ UNCHANGED <<chain, rules, faults, db>>

(* First run: take Horizon's newest payment as the cursor, if there is one. *)
SeedFetch(p) ==
    /\ task[p].pc = "seedFetch"
    /\ Continue(p, IF Tip = 0 THEN Idle
                   ELSE [task[p] EXCEPT !.pc = "seedSave", !.at = Tip])
    /\ UNCHANGED <<chain, rules, faults, db>>

SeedSave(p) ==
    /\ task[p].pc = "seedSave"
    /\ cursor' = task[p].at
    /\ seed' = IF seed = NoCursor THEN task[p].at ELSE seed
    /\ Continue(p, Idle)
    /\ UNCHANGED <<chain, rules, whales, alerts, lost, faults>>

(* Faulty variants of FetchPage: no cap on the pages of a cycle; a capped  *)
(* crawl discarded instead of processed.                                   *)
FetchPageUncapped(p) ==
    LET t   == task[p]
        top == Min({t.hi + PageSize, Tip})
    IN  /\ t.pc = "fetch"
        /\ Continue(p, IF top = t.at THEN Idle
                       ELSE [t EXCEPT !.pc = IF top = t.hi THEN "process" ELSE "fetch",
                                      !.hi = top, !.pages = t.pages + 1])
        /\ UNCHANGED <<chain, rules, faults, db>>

FetchPageDropsCapped(p) ==
    LET t    == task[p]
        top  == Min({t.hi + PageSize, Tip})
        capped == t.pages + 1 = MaxPages
    IN  /\ t.pc = "fetch"
        /\ Continue(p, IF capped \/ top = t.at THEN Idle
                       ELSE [t EXCEPT !.pc = IF top = t.hi THEN "process" ELSE "fetch",
                                      !.hi = top, !.pages = t.pages + 1])
        /\ UNCHANGED <<chain, rules, faults, db>>

(* One page of the payments after the last one fetched.  Horizon always    *)
(* sends a next link, so the crawl ends at an empty page or at MaxPages.   *)
FetchPage(p) ==
    LET t    == task[p]
        top  == Min({t.hi + PageSize, Tip})
        last == top = t.hi \/ t.pages + 1 = MaxPages
    IN  /\ t.pc = "fetch"
        /\ Continue(p, IF last /\ top = t.at THEN Idle
                       ELSE [t EXCEPT !.pc = IF last THEN "process" ELSE "fetch",
                                      !.hi = top, !.pages = t.pages + 1])
        /\ UNCHANGED <<chain, rules, faults, db>>

(* Faulty variant of ProcessPayment: any operation with a large enough     *)
(* amount is taken for a payment.                                          *)
ProcessAnyOperation(p) ==
    LET t == task[p]
        i == t.at + 1
        large == chain[i].amount # NoAmount /\ chain[i].amount >= t.rules[chain[i].asset]
    IN  /\ t.pc = "process"
        /\ t.at < t.hi
        /\ Continue(p, [t EXCEPT !.at = i, !.pending =
                          IF large THEN t.pending \cup {i} ELSE t.pending])
        /\ UNCHANGED <<chain, rules, faults, db>>

(* The next payment, inside the transaction.  The unique key is            *)
(* (op_id, time) and the time is the clock's at the insert, so ON CONFLICT *)
(* only meets a stored row of this payment if the two times coincide.      *)
ProcessPayment(p) ==
    LET t == task[p]
        i == t.at + 1
    IN  /\ t.pc = "process"
        /\ t.at < t.hi
        /\ \E inserted \in IF whales[i] > 0 THEN BOOLEAN ELSE {TRUE} :
              Continue(p, [t EXCEPT !.at = i, !.pending =
                 IF IsWhale(chain[i], t.rules) /\ inserted
                 THEN t.pending \cup {i} ELSE t.pending])
        /\ UNCHANGED <<chain, rules, faults, db>>

(* set_ingest_cursor inside the transaction, then its commit: the rows and *)
(* the cursor appear together.                                             *)
CommitRows(p) ==
    /\ cursor' = task[p].at
    /\ whales' = [i \in Pos |-> IF i \in task[p].pending
                                THEN whales[i] + 1 ELSE whales[i]]

Commit(p) ==
    /\ task[p].pc = "process"
    /\ task[p].at = task[p].hi
    /\ CommitRows(p)
    /\ Continue(p, IF task[p].pending = {} THEN Idle
                   ELSE [task[p] EXCEPT !.pc = "alert"])
    /\ UNCHANGED <<chain, rules, alerts, seed, lost, faults>>

(* The commit took effect but its answer was lost: `?` ends the cycle.     *)
CommitAnswerLost(p) ==
    /\ faults < MaxFaults
    /\ task[p].pc = "process"
    /\ task[p].at = task[p].hi
    /\ CommitRows(p)
    /\ lost' = lost \cup task[p].pending
    /\ Continue(p, Idle)
    /\ faults' = faults + 1
    /\ UNCHANGED <<chain, rules, alerts, seed>>

NextAlert(p) == Min(task[p].pending)

AlertDone(p) ==
    LET left == task[p].pending \ {NextAlert(p)}
    IN  Continue(p, IF left = {} THEN Idle
                    ELSE [task[p] EXCEPT !.pending = left])

(* alerts::record, as far as the alerts table: the row is inserted, or the *)
(* error is logged and the next pending alert is taken.                    *)
RecordAlert(p) ==
    /\ task[p].pc = "alert"
    /\ alerts' = [alerts EXCEPT ![NextAlert(p)] = @ + 1]
    /\ AlertDone(p)
    /\ UNCHANGED <<chain, rules, cursor, whales, seed, lost, faults>>

(* Faulty variant of RecordAlertFails: the row was inserted but its answer *)
(* lost, and the alert is kept to be recorded again.                       *)
RecordAlertRetried(p) ==
    /\ faults < MaxFaults
    /\ task[p].pc = "alert"
    /\ alerts' = [alerts EXCEPT ![NextAlert(p)] = @ + 1]
    /\ faults' = faults + 1
    /\ UNCHANGED <<chain, rules, cursor, whales, task, seed, lost>>

(* Faulty variant of RecordAlertFails: an insert that fails ends the loop. *)
RecordAlertReturns(p) ==
    /\ faults < MaxFaults
    /\ task[p].pc = "alert"
    /\ lost' = lost \cup {NextAlert(p)}
    /\ Continue(p, Idle)
    /\ faults' = faults + 1
    /\ UNCHANGED <<chain, rules, cursor, whales, alerts, seed>>

RecordAlertFails(p) ==
    /\ faults < MaxFaults
    /\ task[p].pc = "alert"
    /\ lost' = lost \cup {NextAlert(p)}
    /\ AlertDone(p)
    /\ faults' = faults + 1
    /\ UNCHANGED <<chain, rules, cursor, whales, alerts, seed>>

(* Faulty variants of Abandon: the cursor, or the rows, or the alerts are  *)
(* written outside the transaction; a failure clears the cursor.           *)
AbandonKeepsCursor(p) ==
    /\ faults < MaxFaults
    /\ task[p].pc # "idle"
    /\ cursor' = IF task[p].pc = "process" THEN task[p].at ELSE cursor
    /\ Continue(p, Idle)
    /\ faults' = faults + 1
    /\ UNCHANGED <<chain, rules, whales, alerts, seed, lost>>

AbandonKeepsRows(p) ==
    /\ faults < MaxFaults
    /\ task[p].pc # "idle"
    /\ whales' = [i \in Pos |-> IF task[p].pc = "process" /\ i \in task[p].pending
                                THEN whales[i] + 1 ELSE whales[i]]
    /\ Continue(p, Idle)
    /\ faults' = faults + 1
    /\ UNCHANGED <<chain, rules, cursor, alerts, seed, lost>>

AbandonKeepsAlerts(p) ==
    /\ faults < MaxFaults
    /\ task[p].pc # "idle"
    /\ alerts' = [i \in Pos |-> IF task[p].pc = "process" /\ i \in task[p].pending
                                THEN alerts[i] + 1 ELSE alerts[i]]
    /\ Continue(p, Idle)
    /\ faults' = faults + 1
    /\ UNCHANGED <<chain, rules, cursor, whales, seed, lost>>

AbandonClearsCursor(p) ==
    /\ faults < MaxFaults
    /\ task[p].pc # "idle"
    /\ cursor' = NoCursor
    /\ Continue(p, Idle)
    /\ faults' = faults + 1
    /\ UNCHANGED <<chain, rules, whales, alerts, seed, lost>>

(* A failed database call or page (after get_page's retries) returns from  *)
(* the cycle through `?`: the open transaction rolls back and everything   *)
(* fetched so far is discarded.  A crash followed by a restart does the    *)
(* same, and does it while alerts are being recorded too.                  *)
Abandon(p) ==
    /\ faults < MaxFaults
    /\ task[p].pc # "idle"
    /\ lost' = IF task[p].pc = "alert" THEN lost \cup task[p].pending ELSE lost
    /\ Continue(p, Idle)
    /\ faults' = faults + 1
    /\ UNCHANGED <<chain, rules, cursor, whales, alerts, seed>>

----------------------------------------------------------------------------

Progress(p) ==
    \/ StartCycle(p)
    \/ ReadCursor(p)
    \/ SeedFetch(p)
    \/ SeedSave(p)
    \/ FetchPage(p)
    \/ ProcessPayment(p)
    \/ Commit(p)
    \/ RecordAlert(p)

Fault(p) ==
    \/ StartCycleWithoutRules(p)
    \/ CommitAnswerLost(p)
    \/ RecordAlertFails(p)
    \/ Abandon(p)

Next ==
    \/ NewPayment
    \/ ChangeRule
    \/ \E p \in Ingesters : Progress(p) \/ Fault(p)

Spec == Init /\ [][Next]_vars

(* The ingest loop never stops ticking and every call is answered or timed *)
(* out, so a process keeps stepping; MaxFaults says calls stop failing.    *)
FairSpec == Spec /\ \A p \in Ingesters : WF_vars(Progress(p))

----------------------------------------------------------------------------
(* Properties.                                                             *)

(* The shape of the database's and the processes' state.                   *)
TypeOK ==
    /\ chain \in Seq(Payments) /\ Len(chain) <= MaxPayments
    /\ rules \in [Assets -> Thresholds]
    /\ cursor \in Pos \cup {NoCursor}
    /\ whales \in [Pos -> Nat]
    /\ alerts \in [Pos -> Nat]
    /\ task \in [Ingesters -> Task]
    /\ seed \in Pos \cup {NoCursor}
    /\ lost \subseteq Pos
    /\ faults \in 0..MaxFaults

Passed(i) == cursor # NoCursor /\ seed < i /\ i <= cursor

(* "No whale-sized payment is missed": once the cursor is past a payment   *)
(* that is a whale under every rule, its row is there, whatever failed or  *)
(* crashed on the way (ingest_payments, ingest.rs:160-165).                *)
NoWhaleMissed ==
    \A i \in Pos : Passed(i) /\ AlwaysWhale(chain[i]) => whales[i] >= 1

(* A payment is never stored twice, though its row's unique key holds the  *)
(* time of the insert and so cannot recognise a replay (whales.rs:7-10).   *)
NoDuplicateWhale == \A i \in Pos : whales[i] <= 1

(* Nothing is stored that the cursor has not passed, that lies before the  *)
(* seed (no backfill), or that is no whale under any rule.                 *)
NoFalseWhale ==
    \A i \in Pos : whales[i] > 0 => Passed(i) /\ ~ NeverWhale(chain[i])

(* Alerts are recorded after the commit: never for a row that is not       *)
(* durable, and never twice for one row.                                   *)
AlertsFollowRows == \A i \in Pos : alerts[i] <= whales[i]

(* The cursor never moves back, and moves with the rows it depends on.     *)
CursorNeverRetreats ==
    [][cursor # NoCursor => cursor' # NoCursor /\ cursor' >= cursor]_vars

(* The payments half implements WhaleFeed.                                 *)
Feed == INSTANCE WhaleFeed WITH
           log <- chain, position <- cursor, stored <- whales,
           alerted <- alerts, Must <- AlwaysWhale, MustNot <- NeverWhale

ImplementsFeed == Feed!Spec

(* Once calls stop failing, every whale made after seeding is stored.      *)
EveryWhaleStored ==
    \A i \in Pos :
       (/\ cursor # NoCursor /\ cursor < i
        /\ i <= Tip /\ AlwaysWhale(chain[i])) ~> (whales[i] = 1)

(* A stored whale is alerted on unless its own alert's insert failed or    *)
(* the cycle that stored it did not live to record it: one failed insert   *)
(* costs no other payment its alert (ingest.rs:215-229).                   *)
StoredThenAlerted ==
    \A i \in Pos : (whales[i] > 0) ~> (alerts[i] > 0 \/ i \in lost)

(* README: the system "always records" the events it detects in the alerts *)
(* table.  Once a cycle is over, each stored whale would have its alert.   *)
StoredWhalesAlerted ==
    (\A p \in Ingesters : task[p].pc = "idle") =>
       \A i \in Pos : whales[i] > 0 => alerts[i] > 0

(* ingest.rs:30-32: a capped crawl is resumed where it stopped "since the  *)
(* cursor is persisted per page".                                          *)
CursorPersistedPerPage ==
    \A p \in Ingesters : task[p].pc = "fetch" => cursor = task[p].hi
============================================================================
