-------------------------- MODULE MCResponseCache --------------------------
(* A small instance of ResponseCache for TLC: two requests of two          *)
(* processes, each of which may have reached Redis or not; time for an     *)
(* entry to be overwritten by an older one and read until it expires.      *)
EXTENDS ResponseCache

MCServerOf == [r \in Requests |-> IF r = "r1" THEN "s1" ELSE "s2"]
============================================================================
