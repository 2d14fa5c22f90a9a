----------------------------- MODULE WhaleFeed -----------------------------
(***************************************************************************)
(* What the payments half of the ingest process promises: it reads the     *)
(* payment log in order from the point it was seeded at, passes every      *)
(* payment once, stores each whale it passes exactly once, together with   *)
(* passing it, and alerts at most once on what it has stored.              *)
(***************************************************************************)
EXTENDS Integers, Sequences

CONSTANTS Payments, NoCursor, MaxPayments, Must(_), MustNot(_)

VARIABLES
    log,        \* the payments made, oldest first
    position,   \* the last one passed; NoCursor before seeding
    stored,     \* how often each payment has been stored
    alerted     \* how often each payment has been alerted on

Index == 1..MaxPayments

Init ==
    /\ log = <<>>
    /\ position = NoCursor
    /\ stored = [i \in Index |-> 0]
    /\ alerted = [i \in Index |-> 0]

Pay ==
    /\ Len(log) < MaxPayments
    /\ \E pay \in Payments : log' = Append(log, pay)
    /\ UNCHANGED <<position, stored, alerted>>

Seed ==
    /\ position = NoCursor
    /\ position' \in 1..Len(log)
    /\ UNCHANGED <<log, stored, alerted>>

(* Passes the payments up to n, storing the whales among them.             *)
Advance ==
    /\ position # NoCursor
    /\ \E n \in 1..Len(log), new \in SUBSET Index :
          /\ n > position
          /\ \A i \in new : position < i /\ i <= n /\ ~ MustNot(log[i])
          /\ \A i \in position + 1 .. n : Must(log[i]) => i \in new
          /\ position' = n
          /\ stored' = [i \in Index |->
                          IF i \in new THEN stored[i] + 1 ELSE stored[i]]
    /\ UNCHANGED <<log, alerted>>

Alert ==
    /\ \E i \in Index :
          /\ stored[i] = 1
          /\ alerted[i] = 0
          /\ alerted' = [alerted EXCEPT ![i] = 1]
    /\ UNCHANGED <<log, position, stored>>

Next == Pay \/ Seed \/ Advance \/ Alert

vars == <<log, position, stored, alerted>>

Spec == Init /\ [][Next]_vars
============================================================================
