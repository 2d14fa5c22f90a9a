--------------------------- MODULE LendingIngest ---------------------------
(***************************************************************************)
(* The lending half of the ingest process (src/soroban.rs): Blend events   *)
(* are fetched from a Soroban RPC node after a persisted cursor, each is   *)
(* folded into a running position that is stored as a new row, an upward   *)
(* crossing of a risk band is alerted on, and the cursor is saved after    *)
(* the last event of the cycle, each write in a statement of its own.      *)
(*                                                                         *)
(* One pool contract; a position's rows are told apart by nothing but the  *)
(* close time of the ledger their event is in.                             *)
(***************************************************************************)
EXTENDS AlertRules, FiniteSets

(* soroban::classify: the events that move collateral or debt.             *)
Kinds == {"supply_collateral", "withdraw_collateral", "borrow", "repay"}

CONSTANTS
    Accounts, Assets,   \* borrowers; reserve assets
    Payloads,           \* what a position event can carry
    Price,              \* BLEND_ASSET_PRICES_USD: an asset's price, or NoPrice
    NoCursor, NoAsset, NoPrice,
    PageLimit,          \* PAGE_LIMIT: events per page
    MaxPages,           \* MAX_PAGES_PER_CYCLE
    Lookback,           \* COLD_START_LEDGER_LOOKBACK
    MaxEvents,          \* bound on the events emitted
    MaxFaults           \* bound on failed calls, crashes and restarts

ASSUME ConstantsAssumption ==
    /\ Payloads \subseteq [kind : Kinds, account : Accounts, asset : Assets,
                            amount : Nat \ {0}]
    /\ Price \in [Assets -> Nat \cup {NoPrice}] /\ NoPrice \notin Nat
    /\ NoAsset \notin Assets
    /\ NoCursor \notin Int
    /\ PageLimit \in Nat \ {0} /\ MaxPages \in Nat \ {0} /\ Lookback \in Nat
    /\ MaxEvents \in Nat /\ MaxFaults \in Nat

VARIABLES
    events,     \* the contract's events, in ledger order
    rows,       \* lending_positions, in insertion order ("of" is history)
    cursor,     \* ingest_state["blend_events_cursor"]: events already passed
    alerts,     \* liquidation_risk rows of the alerts table: event and bands
    task,       \* the cycle's locals
    start,      \* history: where the latest cold start began
    tried,      \* history: the events process_event was called on
    lost,       \* history: alerts lost with their row stored
    faults      \* history: failed calls, crashes and restarts

vars == <<events, rows, cursor, alerts, task, start, tried, lost, faults>>

(* "ignored": not one of Blend's four position events, no account or       *)
(* amount in it (Ok(false)), or XDR that does not decode (Err).  Blend     *)
(* emits no amount that is not positive; the code does not check.          *)
(* "oversized": a position event whose i128 amount is beyond the 96 bits a *)
(* Decimal holds.                                                          *)
At(ledger, payload) ==
    [field \in DOMAIN payload \cup {"ledger"} |->
        IF field = "ledger" THEN ledger ELSE payload[field]]
Events == {At(l, p) : l \in 1..MaxEvents,
                      p \in Payloads \cup [kind : {"ignored", "oversized"}]}

NoPosition == [ca |-> NoAsset, c |-> 0, da |-> NoAsset, d |-> 0]

Idle == [pc |-> "idle", bands |-> LtvDefaults, at |-> 0, upto |-> 0,
         next |-> NoCursor]

(* The network's latest ledger: that of the newest event, where an ignored *)
(* event stands for any ledger closed without a position event.            *)
TipLedger == IF events = <<>> THEN 0 ELSE Last(events).ledger

Init ==
    /\ events = <<>>
    /\ rows = <<>>
    /\ cursor = NoCursor
    /\ alerts = <<>>
    /\ task = Idle
    /\ start = NoCursor
    /\ tried = {}
    /\ lost = {}
    /\ faults = 0

Faulty == faults < MaxFaults /\ faults' = faults + 1
----------------------------------------------------------------------------
(* The pure part: logic::compute_lending_risk, alert_rules' bands and the  *)
(* update a position event makes.                                          *)

Max0(n) == IF n < 0 THEN 0 ELSE n

(* Faulty variant of Apply: a withdrawal or repayment is not clamped.      *)
ApplyUnclamped(pos, e) ==
    CASE e.kind = "supply_collateral"   -> [pos EXCEPT !.ca = e.asset, !.c = @ + e.amount]
      [] e.kind = "withdraw_collateral" -> [pos EXCEPT !.c = @ - e.amount]
      [] e.kind = "borrow"              -> [pos EXCEPT !.da = e.asset, !.d = @ + e.amount]
      [] e.kind = "repay"               -> [pos EXCEPT !.d = @ - e.amount]

Apply(pos, e) ==
    CASE e.kind = "supply_collateral"   -> [pos EXCEPT !.ca = e.asset, !.c = @ + e.amount]
      [] e.kind = "withdraw_collateral" -> [pos EXCEPT !.c = Max0(@ - e.amount)]
      [] e.kind = "borrow"              -> [pos EXCEPT !.da = e.asset, !.d = @ + e.amount]
      [] e.kind = "repay"               -> [pos EXCEPT !.d = Max0(@ - e.amount)]

PriceOf(asset) == IF asset = NoAsset THEN NoPrice ELSE Price[asset]

(* The LTV is known when both prices are and there is collateral.          *)
HasLtv(pos) ==
    /\ PriceOf(pos.ca) # NoPrice /\ PriceOf(pos.da) # NoPrice
    /\ pos.c * PriceOf(pos.ca) > 0

AtLeast(pos, pct) == pos.d * PriceOf(pos.da) * 100 >= pct * (pos.c * PriceOf(pos.ca))

(* risk_rank(risk_level_with_bands(ltv)); -1 when there is no LTV.         *)
Risk(pos, b) ==
    IF      ~ HasLtv(pos)            THEN -1
    ELSE IF AtLeast(pos, b.critical) THEN 3
    ELSE IF AtLeast(pos, b.high)     THEN 2
    ELSE IF AtLeast(pos, b.medium)   THEN 1
    ELSE 0

(* An upward crossing into HIGH or CRITICAL.                               *)
Escalates(before, after, b) == Risk(after, b) >= 2 /\ Risk(after, b) > Risk(before, b)
----------------------------------------------------------------------------
(* The world: borrowers' transactions emit events.                         *)

Emit ==
    /\ Len(events) < MaxEvents
    /\ \E e \in Events :
          /\ e.ledger \in {TipLedger, TipLedger + 1}
          /\ events' = Append(events, e)
    /\ UNCHANGED <<rows, cursor, alerts, task, start, tried, lost, faults>>

(* A cold start begins at the first event of the lookback.                 *)
ColdStart ==
    Cardinality({k \in DOMAIN events : events[k].ledger < TipLedger - Lookback})

(* The bands of the rules a cycle loads, whichever an operator has made of *)
(* them by then.                                                           *)
Bands == {ResolveBands(table) : table \in RuleTables}

(* Where a cycle begins, and how far its first n pages reach.              *)
From == IF cursor = NoCursor THEN ColdStart ELSE cursor

PagesEnd(n) ==
    IF From + n * PageLimit < Len(events) THEN From + n * PageLimit ELSE Len(events)

(* ingest_lending_cycle up to get_events: only reads.                      *)
Fetch(upto, next) ==
    /\ task.pc = "idle"
    /\ \E bands \in Bands :
          task' = [pc |-> "process", bands |-> bands, at |-> From, upto |-> upto, next |-> next]
    /\ start' = IF cursor = NoCursor THEN From ELSE start
    /\ UNCHANGED <<events, rows, cursor, alerts, tried, lost>>

FetchEvents == Fetch(PagesEnd(MaxPages), PagesEnd(MaxPages)) /\ UNCHANGED faults

(* The node sends no pagination cursor with the n-th page: the pages end   *)
(* there and the resume point stays at the page before, so that the last   *)
(* page's events are processed again next cycle.                           *)
FetchWithoutCursor ==
    /\ Faulty
    /\ \E n \in 1..MaxPages :
          /\ From + (n - 1) * PageLimit <= Len(events)
          /\ Fetch(PagesEnd(n), IF n = 1 THEN cursor ELSE PagesEnd(n - 1))

Here == events[task.at + 1]

Done == [task EXCEPT !.pc = "process", !.at = @ + 1]

(* Faulty variant of LatestRows: the order of the rows is ascending.       *)
OldestRows(acct) ==
    {k \in DOMAIN rows : /\ rows[k].account = acct
                         /\ \A j \in DOMAIN rows :
                               rows[j].account = acct => rows[j].ledger >= rows[k].ledger}

(* latest_lending_position: ORDER BY time DESC LIMIT 1 with no tie-break,  *)
(* so any of the account's rows of its newest ledger may come back.        *)
LatestRows(acct) ==
    {k \in DOMAIN rows : /\ rows[k].account = acct
                         /\ \A j \in DOMAIN rows :
                               rows[j].account = acct => rows[j].ledger <= rows[k].ledger}

LatestPositions(acct) ==
    IF LatestRows(acct) = {} THEN {NoPosition}
    ELSE {rows[k].pos : k \in LatestRows(acct)}

HasNext == task.pc = "process" /\ task.at < task.upto

(* process_event on an event it skips.                                     *)
SkipEvent ==
    /\ HasNext
    /\ Here.kind = "ignored"
    /\ tried' = tried \cup {task.at + 1}
    /\ task' = Done
    /\ UNCHANGED <<events, rows, cursor, alerts, start, lost, faults>>

(* Faulty variant of ApplyEvent: any HIGH or CRITICAL row is alerted on.   *)
ApplyEventAlertsAgain ==
    /\ HasNext
    /\ Here.kind \in Kinds
    /\ \E pos \in LatestPositions(Here.account) :
          LET new == Apply(pos, Here)
          IN  /\ rows' = Append(rows, [account |-> Here.account,
                                       ledger |-> Here.ledger, pos |-> new,
                                       of |-> task.at + 1])
              /\ task' = IF Risk(new, task.bands) >= 2
                         THEN [task EXCEPT !.pc = "alert"] ELSE Done
    /\ tried' = tried \cup {task.at + 1}
    /\ UNCHANGED <<events, cursor, alerts, start, lost, faults>>

(* process_event on a position event: the latest row is read and the new   *)
(* one written; an escalation is alerted on before the next event.         *)
ApplyEvent ==
    /\ HasNext
    /\ Here.kind \in Kinds
    /\ \E pos \in LatestPositions(Here.account) :
          LET new == Apply(pos, Here)
          IN  /\ rows' = Append(rows, [account |-> Here.account,
                                       ledger |-> Here.ledger, pos |-> new,
                                       of |-> task.at + 1])
              /\ task' = IF Escalates(pos, new, task.bands)
                         THEN [task EXCEPT !.pc = "alert"] ELSE Done
    /\ tried' = tried \cup {task.at + 1}
    /\ UNCHANGED <<events, cursor, alerts, start, lost, faults>>

(* Decimal::from_i128_with_scale panics, in the process's main task.       *)
ApplyOversized ==
    /\ HasNext
    /\ Here.kind = "oversized"
    /\ tried' = tried \cup {task.at + 1}
    /\ task' = [Idle EXCEPT !.pc = "dead"]
    /\ UNCHANGED <<events, rows, cursor, alerts, start, lost, faults>>

(* A database error inside process_event is logged as "skipping            *)
(* unparseable Blend event" and the loop goes on.                          *)
EventFails ==
    /\ Faulty
    /\ HasNext
    /\ Here.kind \in Kinds
    /\ tried' = tried \cup {task.at + 1}
    /\ task' = Done
    /\ UNCHANGED <<events, rows, cursor, alerts, start, lost>>

ThisAlert == [event |-> task.at + 1, bands |-> task.bands]

RecordAlert ==
    /\ task.pc = "alert"
    /\ alerts' = Append(alerts, ThisAlert)
    /\ task' = Done
    /\ UNCHANGED <<events, rows, cursor, start, tried, lost, faults>>

RecordAlertFails ==
    /\ Faulty
    /\ task.pc = "alert"
    /\ lost' = lost \cup {ThisAlert}
    /\ task' = Done
    /\ UNCHANGED <<events, rows, cursor, alerts, start, tried>>

(* Faulty variant of SaveCursor: only when a position has been recorded.   *)
SaveCursorIfRecorded ==
    /\ task.pc = "process" /\ task.at = task.upto
    /\ cursor' = IF rows = <<>> THEN cursor ELSE task.next
    /\ task' = Idle
    /\ UNCHANGED <<events, rows, alerts, start, tried, lost, faults>>

SaveCursor ==
    /\ task.pc = "process" /\ task.at = task.upto
    /\ cursor' = task.next
    /\ task' = Idle
    /\ UNCHANGED <<events, rows, alerts, start, tried, lost, faults>>

(* Faulty variant of Abandon: the cursor was saved before processing.      *)
AbandonSavesCursor ==
    /\ Faulty
    /\ task.pc \in {"process", "alert"}
    /\ lost' = IF task.pc = "alert" THEN lost \cup {ThisAlert} ELSE lost
    /\ task' = Idle
    /\ cursor' = task.next
    /\ UNCHANGED <<events, rows, alerts, start, tried>>

(* set_ingest_cursor fails, or the process crashes and is restarted.       *)
Abandon ==
    /\ Faulty
    /\ task.pc \in {"process", "alert"}
    /\ lost' = IF task.pc = "alert" THEN lost \cup {ThisAlert} ELSE lost
    /\ task' = Idle
    /\ UNCHANGED <<events, rows, cursor, alerts, start, tried>>

(* docker-compose.yml: restart: unless-stopped.                            *)
Restart ==
    /\ Faulty
    /\ task.pc = "dead"
    /\ task' = Idle
    /\ UNCHANGED <<events, rows, cursor, alerts, start, tried, lost>>

Progress ==
    \/ FetchEvents \/ SkipEvent \/ ApplyEvent \/ ApplyOversized
    \/ RecordAlert \/ SaveCursor

Next ==
    \/ Emit
    \/ Progress
    \/ FetchWithoutCursor \/ EventFails \/ RecordAlertFails \/ Abandon \/ Restart

Spec == Init /\ [][Next]_vars

(* The process keeps stepping.                                             *)
FairSpec == Spec /\ WF_vars(Progress)
----------------------------------------------------------------------------
(* Properties.                                                             *)

Positions == [ca : Assets \cup {NoAsset}, c : Nat, da : Assets \cup {NoAsset}, d : Nat]

(* A row of lending_positions, an alert, and the locals of a cycle.        *)
Row   == [account : Accounts, ledger : 1..MaxEvents, pos : Positions, of : 1..MaxEvents]
Alert == [event : 1..MaxEvents, bands : Bands]
Task  == [pc : {"idle", "process", "alert", "dead"}, bands : Bands,
          at : 0..MaxEvents, upto : 0..MaxEvents, next : 0..MaxEvents \cup {NoCursor}]

(* The shape of the database's and the process's state; nothing is read,   *)
(* stored or saved of an event the contract has yet to emit.               *)
TypeOK ==
    /\ events \in Seq(Events) /\ Len(events) <= MaxEvents
    /\ rows \in Seq(Row) /\ \A i \in DOMAIN rows : rows[i].of \in tried
    /\ cursor \in 0..Len(events) \cup {NoCursor}
    /\ alerts \in Seq(Alert) /\ lost \in SUBSET Alert
    /\ task \in Task /\ task.at <= task.upto /\ task.upto <= Len(events)
    /\ task.next \in 0..Len(events) \cup {NoCursor}
    /\ start \in 0..Len(events) \cup {NoCursor}
    /\ tried \in SUBSET DOMAIN events
    /\ faults \in 0..MaxFaults

(* The cursor passes no event that process_event was not called on, in     *)
(* whatever cycle and whichever crash lies between.                        *)
NoEventSkipped ==
    cursor # NoCursor => \A k \in DOMAIN events : start < k /\ k <= cursor => k \in tried

(* The events that have a row.                                             *)
Stored == {rows[i].of : i \in DOMAIN rows}

(* So far no event was folded in twice or after a later one: no cycle was  *)
(* replayed, whatever else went wrong.                                     *)
Clean == \A i, j \in DOMAIN rows : i < j => rows[i].of < rows[j].of

(* No account had two position events in one ledger.                       *)
NoTies ==
    \A j, k \in Stored :
       j # k => \/ events[j].account # events[k].account
                \/ events[j].ledger # events[k].ledger

(* An account's stored events of two kinds, summed up with their signs,    *)
(* after each event of a log.                                              *)
Signed(e, up, down) == IF e.kind = up THEN e.amount ELSE IF e.kind = down THEN - e.amount ELSE 0

Flow(log, S, acct, up, down) ==
    LET flow[k \in 0..Len(log)] ==
            IF k = 0 THEN 0
            ELSE IF k \in S /\ log[k].account = acct
                 THEN flow[k - 1] + Signed(log[k], up, down)
                 ELSE flow[k - 1]
    IN  flow

(* What can be left after n events if nothing falls below zero: the most   *)
(* that the events since some moment add up to.                            *)
Balance(flow, n) == Max({flow[n] - flow[j] : j \in 0..n})

(* The asset of the latest of the first n events that names one.           *)
LatestAsset(log, S, acct, up, n) ==
    LET named == {k \in 1..n : k \in S /\ log[k].account = acct /\ log[k].kind = up}
    IN  IF named = {} THEN NoAsset ELSE log[Max(named)].asset

(* An account's position after n events of the log, of which only those in *)
(* S count: nothing here is computed the way Apply does it.                *)
Net(log, S, acct, n) ==
    [ca |-> LatestAsset(log, S, acct, "supply_collateral", n),
     c  |-> Balance(Flow(log, S, acct, "supply_collateral", "withdraw_collateral"), n),
     da |-> LatestAsset(log, S, acct, "borrow", n),
     d  |-> Balance(Flow(log, S, acct, "borrow", "repay"), n)]

Truth(acct, n) == Net(events, Stored, acct, n)

(* Then each account's stored position, which the code carries on from row *)
(* to row, is what the events it has rows of add up to, each withdrawal    *)
(* and repayment taking away no more than there was; an event whose insert *)
(* failed is missing and disturbs nothing else.                            *)
PositionsAreTrue ==
    Clean /\ NoTies =>
       \A acct \in Accounts : LatestPositions(acct) = {Truth(acct, Len(events))}

Crosses(k, b) == LET acct == events[k].account
                 IN  Escalates(Truth(acct, k - 1), Truth(acct, k), b)

(* Then every upward crossing into HIGH or CRITICAL that has a row is      *)
(* alerted on, once, under the bands its cycle loaded, unless its insert   *)
(* failed or a crash came first, and nothing else is alerted on: an edit   *)
(* of the bands by itself never is.                                        *)
AlertsAreCrossings ==
    Clean /\ NoTies =>
       /\ \A i, j \in DOMAIN alerts : alerts[i].event = alerts[j].event => i = j
       /\ \A i \in DOMAIN alerts : Crosses(alerts[i].event, alerts[i].bands)
       /\ \A k \in Stored :
             \/ \E a \in ToSet(alerts) \cup lost : a.event = k
             \/ task.pc = "alert" /\ task.at + 1 = k
             \/ \E b \in Bands : ~ Crosses(k, b)

(* A cycle judges each band by the newest of the enabled rules that name   *)
(* it, as it does an asset ("the most recently created one wins",          *)
(* alert_rules.rs:12-16), though the code takes them one after the other   *)
(* and relies on the order they are listed in (alert_config.rs:96-97).     *)
BandsOfNewest ==
    \E table \in RuleTables :
       LET Newest(name, default) == Resolve(table, "ltv_band", name, default)
       IN  task.bands = [medium   |-> Newest("MEDIUM", 70),
                         high     |-> Newest("HIGH", 85),
                         critical |-> Newest("CRITICAL", 95)]

(* Once calls stop failing every event is passed, unless one of them is    *)
(* oversized and takes the process down again and again.                   *)
EveryEventPassed ==
    \A k \in 1..MaxEvents :
       k <= Len(events) ~>
          \/ cursor # NoCursor /\ (cursor >= k \/ start >= k)
          \/ \E j \in DOMAIN events : events[j].kind = "oversized"

(* README.md:307-308: "amounts are always real", decoded from live events. *)
PositionsAlwaysTrue ==
    Clean => \A acct \in Accounts : LatestPositions(acct) = {Truth(acct, Len(events))}

(* soroban.rs:212-213: "a bad cycle here must never take down payment/pool *)
(* ingestion".                                                             *)
BadCycleContained == task.pc # "dead"
============================================================================
