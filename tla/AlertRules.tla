----------------------------- MODULE AlertRules -----------------------------
(***************************************************************************)
(* What the rows of alert_rules resolve to (src/alert_rules.rs): the       *)
(* threshold of an asset or a pool, and the LTV cutoffs of the risk bands. *)
(*                                                                         *)
(* A table is a sequence of rules in the order of their ids, which is the  *)
(* order they were created in and the order list_alert_rules returns.  A   *)
(* rule's target is the asset, the pool or the band it is about.           *)
(***************************************************************************)
EXTENDS Integers, Sequences, SequencesExt

CONSTANT RuleTables     \* the tables a cycle may load

(* create_alert_rule and update_alert_rule refuse any other rule.          *)
Accepted(rule) ==
    /\ rule.type \in {"whale_threshold", "holder_drop_pct", "liquidity_drop_pct", "ltv_band"}
    /\ rule.threshold > 0
    /\ rule.type = "ltv_band" => rule.target \in {"MEDIUM", "HIGH", "CRITICAL"}

ASSUME RulesAssumption ==
    /\ \A table \in RuleTables :
          /\ Len(table) \in Nat /\ DOMAIN table = 1..Len(table)
          /\ \A i \in DOMAIN table : Accepted(table[i])
    /\ <<>> \in RuleTables      \* also what a cycle makes of a failed load

Matching(table, type, target) ==
    {i \in DOMAIN table : /\ table[i].enabled
                          /\ table[i].type = type /\ table[i].target = target}

(* resolve_whale_threshold, resolve_holder_drop_threshold_pct and          *)
(* resolve_liquidity_drop_threshold_pct.                                   *)
Resolve(table, type, target, default) ==
    IF Matching(table, type, target) = {} THEN default
    ELSE table[Max(Matching(table, type, target))].threshold

LtvDefaults == [medium |-> 70, high |-> 85, critical |-> 95]

ApplyBand(bands, rule) ==
    IF ~ rule.enabled \/ rule.type # "ltv_band" THEN bands
    ELSE CASE rule.target = "MEDIUM"   -> [bands EXCEPT !.medium = rule.threshold]
           [] rule.target = "HIGH"     -> [bands EXCEPT !.high = rule.threshold]
           [] rule.target = "CRITICAL" -> [bands EXCEPT !.critical = rule.threshold]
           [] OTHER                    -> bands

(* Faulty variant of ResolveBands: the rules come newest first.            *)
ResolveBandsBackwards(table) == FoldLeft(ApplyBand, LtvDefaults, Reverse(table))

(* resolve_ltv_bands: one rule after the other.                            *)
ResolveBands(table) ==
    LET bands[n \in 0..Len(table)] ==
            IF n = 0 THEN LtvDefaults ELSE ApplyBand(bands[n - 1], table[n])
    IN  bands[Len(table)]
=============================================================================
