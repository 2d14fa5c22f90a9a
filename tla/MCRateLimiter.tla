--------------------------- MODULE MCRateLimiter ---------------------------
(* A small instance of RateLimiter for TLC: the limiter off, and a rate of *)
(* two thirds of a token per tick, with which SweepAge just refills a      *)
(* bucket of two tokens.                                                   *)
EXTENDS RateLimiter

MCRates == {0, 2}
============================================================================
