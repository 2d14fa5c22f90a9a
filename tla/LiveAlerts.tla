----------------------------- MODULE LiveAlerts -----------------------------
(***************************************************************************)
(* The Alerts page of the dashboard (src/frontend/src/pages/Alerts.tsx)    *)
(* over the alerts table that AlertDelivery fills: it polls the newest     *)
(* rows, fetches them again whenever a live event arrives or an            *)
(* acknowledgement succeeds (usePolled, hooks.ts), and shows whatever      *)
(* answer came last - which need not be the answer asked for last.         *)
(* Operators acknowledge from what the page shows; other clients of the    *)
(* API (src/api/routes/alerts.rs) do so at the same time.                  *)
(***************************************************************************)
EXTENDS AlertDelivery

CONSTANTS
    Window,         \* rows the page asks for; 200 in the code
    Fetches,        \* requests for rows in flight (a bound)
    MaxOps,         \* bound on acknowledgements and their undoing
    Free, Asked     \* a request's slot before it is sent and answered

Answers == [Alerts -> {"absent", "new", "acked"}]

ASSUME PageAssumption ==
    /\ Fetches # {}
    /\ Window \in Nat /\ MaxOps \in Nat
    /\ Free # Asked /\ {Free, Asked} \cap Answers = {}

VARIABLES
    acked,      \* rows with acknowledged_at set
    shown,      \* what the page shows
    fetch,      \* per request for rows: Free, Asked, or the answer on its way
    op,         \* the page's acknowledgement under way, or NoJob
    ops,
    seen        \* history: alerts some operator has been shown

pageVars == <<acked, shown, fetch, op, ops, seen>>

vars == <<deliveryVars, pageVars>>

(* The newest rows, at most Window of them.                                *)
Newest == {stored[i] : i \in {j \in DOMAIN stored : j > Len(stored) - Window}}

(* list_alerts: an answer gives each alert's state, or leaves it out.      *)
Rows == [a \in Alerts |-> IF a \notin Newest THEN "absent"
                          ELSE IF a \in acked THEN "acked" ELSE "new"]

Nothing == [a \in Alerts |-> "absent"]

AnyFetch == CHOOSE f \in Fetches : TRUE

Showing(state) == {a \in Alerts : shown[a] = state}

(* The page is mounted, and its first request is on its way.               *)
Init ==
    /\ DeliveryInit
    /\ acked = {}
    /\ shown = Nothing
    /\ fetch = [f \in Fetches |-> IF f = AnyFetch THEN Asked ELSE Free]
    /\ op = NoJob
    /\ ops = 0
    /\ seen = {}

(* usePolled's run: a request of its own each time, whatever others are    *)
(* still on their way.                                                     *)
Ask ==
    /\ \E f \in Fetches : fetch[f] = Free
    /\ fetch' = [fetch EXCEPT ![CHOOSE f \in Fetches : fetch[f] = Free] = Asked]
----------------------------------------------------------------------------
(* Fetching.                                                               *)

(* Faulty variant of Poll: it relies on the stream while that is up.       *)
PollWithoutStream ==
    /\ ~ streaming
    /\ Ask
    /\ UNCHANGED <<deliveryVars, acked, shown, op, ops, seen>>

(* The poll timer.                                                         *)
Poll ==
    /\ Ask
    /\ UNCHANGED <<deliveryVars, acked, shown, op, ops, seen>>

(* An event arrives: the page fetches at once.                             *)
Hear ==
    /\ inbox # <<>>
    /\ inbox' = Tail(inbox)
    /\ Ask
    /\ UNCHANGED <<stored, raised, channels, job, listening, streaming, edits, faults>>
    /\ UNCHANGED <<acked, shown, op, ops, seen>>

(* The API reads the table.                                                *)
Answer(f) ==
    /\ fetch[f] = Asked
    /\ fetch' = [fetch EXCEPT ![f] = Rows]
    /\ UNCHANGED <<deliveryVars, acked, shown, op, ops, seen>>

(* An answer arrives, whichever it is, and replaces what is shown.         *)
Land(f) ==
    /\ fetch[f] \notin {Free, Asked}
    /\ shown' = fetch[f]
    /\ seen' = seen \cup {a \in Alerts : fetch[f][a] # "absent"}
    /\ fetch' = [fetch EXCEPT ![f] = Free]
    /\ UNCHANGED <<deliveryVars, acked, op, ops>>

(* A request fails: the page keeps what it shows.                          *)
FetchFails(f) ==
    /\ fetch[f] # Free
    /\ Fault
    /\ fetch' = [fetch EXCEPT ![f] = Free]
    /\ UNCHANGED <<stored, raised, channels, job, listening, streaming, inbox, edits>>
    /\ UNCHANGED <<acked, shown, op, ops, seen>>
----------------------------------------------------------------------------
(* Acknowledging.                                                          *)

Begin(kind, ids) ==
    /\ op = NoJob
    /\ ops < MaxOps
    /\ ops' = ops + 1
    /\ op' = [kind |-> kind, ids |-> ids, done |-> FALSE]
    /\ UNCHANGED <<deliveryVars, acked, shown, fetch, seen>>

(* Ack, and Ack all visible: the ids of rows shown as unacknowledged, all  *)
(* of them or those the page's filters leave.                              *)
Acknowledge == \E ids \in SUBSET Showing("new") \ {{}} : Begin("ack", ids)

Unacknowledge == \E a \in Showing("acked") : Begin("unack", {a})

(* Faulty variant of Apply: the rows to acknowledge are found again.       *)
ApplyToAll ==
    /\ op # NoJob /\ ~ op.done
    /\ acked' = IF op.kind = "ack" THEN Stored ELSE acked \ op.ids
    /\ op' = [op EXCEPT !.done = TRUE]
    /\ UNCHANGED <<deliveryVars, shown, fetch, ops, seen>>

(* acknowledge_alert(s), unacknowledge_alert: one UPDATE, by id.           *)
Apply ==
    /\ op # NoJob /\ ~ op.done
    /\ acked' = IF op.kind = "ack" THEN acked \cup op.ids ELSE acked \ op.ids
    /\ op' = [op EXCEPT !.done = TRUE]
    /\ UNCHANGED <<deliveryVars, shown, fetch, ops, seen>>

(* The answer arrives, and the page fetches again.                         *)
Confirm ==
    /\ op # NoJob /\ op.done
    /\ op' = NoJob
    /\ Ask
    /\ UNCHANGED <<deliveryVars, acked, shown, ops, seen>>

(* No admin key, an error, or an answer lost: the page does not look.      *)
Refused ==
    /\ op # NoJob
    /\ Fault
    /\ op' = NoJob
    /\ UNCHANGED <<stored, raised, channels, job, listening, streaming, inbox, edits>>
    /\ UNCHANGED <<acked, shown, fetch, ops, seen>>

(* Another client of the API, who was shown the row.                       *)
Other ==
    /\ ops < MaxOps
    /\ ops' = ops + 1
    /\ \E a \in Stored :
          /\ seen' = seen \cup {a}
          /\ acked' \in {acked \cup {a}, acked \ {a}}
    /\ UNCHANGED <<deliveryVars, shown, fetch, op>>
----------------------------------------------------------------------------
DeliveryStep == DeliveryNext /\ UNCHANGED pageVars

Next ==
    \/ DeliveryStep
    \/ Poll \/ Hear
    \/ \E f \in Fetches : Answer(f) \/ Land(f) \/ FetchFails(f)
    \/ Acknowledge \/ Unacknowledge \/ Apply \/ Confirm \/ Refused \/ Other

Spec == Init /\ [][Next]_vars

(* The timer fires, requests reach the API and answers the page; polling   *)
(* alone is relied on, not the stream.                                     *)
FairSpec ==
    /\ Spec /\ DeliveryFairness
    /\ WF_vars(Poll)
    /\ \A f \in Fetches : WF_vars(Answer(f)) /\ WF_vars(Land(f))
    /\ WF_vars(Apply)
----------------------------------------------------------------------------
(* Properties.                                                             *)

TypeOK ==
    /\ DeliveryTypeOK
    /\ acked \subseteq Stored
    /\ shown \in Answers
    /\ fetch \in [Fetches -> Answers \cup {Free, Asked}]
    /\ op \in [kind : {"ack", "unack"}, ids : SUBSET Stored, done : BOOLEAN] \cup {NoJob}
    /\ ops \in 0..MaxOps
    /\ seen \subseteq Stored

(* No alert is acknowledged that no operator was ever shown: an alert      *)
(* stored between the fetch a bulk acknowledgement was made from and the   *)
(* moment it takes effect stays unacknowledged, however stale the list     *)
(* ("acks exactly the rows currently shown ... rather than re-deriving     *)
(* them server-side", routes/alerts.rs:94-97).                             *)
UnseenStaysNew == acked \subseteq seen

(* Whatever is lost on the way - notifications, connections, requests -    *)
(* whatever endpoint never answers, and in whatever order answers arrive:  *)
(* every call of record ends (it must "never be able to take down          *)
(* ingestion", alerts.rs:109-113), and once nothing changes any more the   *)
(* page comes to show the table and stays so.  Events are "a real-time     *)
(* nicety, not a dependency" (events.rs:14-18), and an answer overtaken by *)
(* an older one is mended by the next poll (hooks.ts:34-48).               *)
Settles == <>[](job = NoJob /\ shown = Rows)
=============================================================================
