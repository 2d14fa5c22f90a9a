-------------------------- MODULE MCPaymentIngest --------------------------
(* Small instances of PaymentIngest for TLC. *)
EXTENDS PaymentIngest

(* One payment of each fate: a whale under every rule, one only under the  *)
(* default, one never, and an operation that is no payment.                *)
MCPayments ==
    {[op |-> "payment", asset |-> "xlm", amount |-> 3],
     [op |-> "payment", asset |-> "xlm", amount |-> 2],
     [op |-> "create_account", asset |-> "xlm", amount |-> NoAmount],
     [op |-> "path_payment", asset |-> "xlm", amount |-> 3]}

(* The same without the operations that are no payments.                   *)
MCFewPayments ==
    {[op |-> "payment", asset |-> "xlm", amount |-> 3],
     [op |-> "payment", asset |-> "xlm", amount |-> 2]}

MCAssets == {"xlm"}
MCThresholds == {2, 3}
============================================================================
