-------------------------- MODULE MCSnapshotIngest --------------------------
(* A small instance of SnapshotIngest for TLC: halving is a drop under one *)
(* threshold and not the other, falling to zero is one under both.         *)
EXTENDS SnapshotIngest

MCLevels == {0, 5, 10}

Rule(type, target, threshold, enabled) ==
    [type |-> type, target |-> target, threshold |-> threshold, enabled |-> enabled]

(* Every choice of 50 and 80 for the pool and the token; rules that are    *)
(* overridden, disabled or of another type do not count.                   *)
MCRuleTables == {
    <<>>,
    << Rule("liquidity_drop_pct", "pool", 50, TRUE),
       Rule("liquidity_drop_pct", "pool", 80, TRUE) >>,
    << Rule("holder_drop_pct", "token", 80, TRUE),
       Rule("holder_drop_pct", "token", 50, FALSE) >>,
    << Rule("holder_drop_pct", "token", 80, TRUE),
       Rule("liquidity_drop_pct", "pool", 80, TRUE),
       Rule("holder_drop_pct", "pool", 50, TRUE) >>}
============================================================================
