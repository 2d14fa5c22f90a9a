-------------------------- MODULE MCPriceDiscovery --------------------------
(* A small instance of PriceDiscovery for TLC: three pools among XLM and   *)
(* three assets, some of them equally deep, empty, unreadable or between   *)
(* an asset and itself; two hops, so that an asset may lie beyond them.    *)
EXTENDS PriceDiscovery

Pool(a, ra, b, rb) == [a |-> a, ra |-> ra, b |-> b, rb |-> rb]

MCPools ==
    {Pool(XLM, r[1], a, r[2]) : a \in {"A", "B"}, r \in {<<1, 1>>, <<2, 1>>, <<1, 2>>}}
    \cup {Pool("B", r[1], "A", r[2]) : r \in {<<1, 1>>, <<2, 1>>, <<1, 2>>, <<0, 0>>}}
    \cup {Pool("C", r[1], a, r[2]) : a \in {"A", "B"}, r \in {<<1, 1>>, <<1, 2>>}}
    \cup {Pool("C", 1, XLM, 1), Pool("A", 1, "A", 2)}

MCListings == [1..3 -> MCPools \cup {Unreadable}]
=============================================================================
