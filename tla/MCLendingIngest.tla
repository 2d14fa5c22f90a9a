-------------------------- MODULE MCLendingIngest --------------------------
(* A small instance of LendingIngest for TLC: with a collateral of 9 or 10 *)
(* and a debt of 9 the LTV crosses MEDIUM, HIGH and CRITICAL; "xlm" has no *)
(* configured price; a second account has a position of its own.           *)
EXTENDS LendingIngest

MCAssets == {"usdc", "xlm"}

Payload(kind, account, asset, amount) ==
    [kind |-> kind, account |-> account, asset |-> asset, amount |-> amount]

MCPayloads == {
    Payload("supply_collateral", "alice", "usdc", 10),
    Payload("supply_collateral", "alice", "xlm", 9),
    Payload("withdraw_collateral", "alice", "usdc", 1),
    Payload("borrow", "alice", "usdc", 9),
    Payload("repay", "alice", "usdc", 1),
    Payload("supply_collateral", "bob", "usdc", 9)}

MCPrice == [a \in MCAssets |-> IF a = "usdc" THEN 1 ELSE NoPrice]

Rule(name, threshold, enabled) ==
    [type |-> "ltv_band", target |-> name, threshold |-> threshold, enabled |-> enabled]

MCRuleTables == {<<>>, << Rule("HIGH", 80, TRUE), Rule("HIGH", 75, TRUE),
                          Rule("HIGH", 90, FALSE) >>}
============================================================================
