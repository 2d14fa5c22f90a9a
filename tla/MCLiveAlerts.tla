---------------------------- MODULE MCLiveAlerts ----------------------------
(* A small instance of LiveAlerts for TLC: a payment at its threshold and  *)
(* a drop of twice the threshold, a webhook for critical alerts, a channel *)
(* for all and one for warnings.                                           *)
EXTENDS LiveAlerts

MCFindingOf ==
    [a \in Alerts |-> IF a = 1 THEN [kind |-> "whale", size |-> 10, threshold |-> 10]
                               ELSE [kind |-> "drop", size |-> 40, threshold |-> 20]]
MCFirstChannels == [c \in Channels |-> IF c = 1 THEN Info ELSE Warning]
=============================================================================
