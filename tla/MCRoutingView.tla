--------------------------- MODULE MCRoutingView ---------------------------
(* An instance of RoutingView for TLC: two peers, one group, any peer list. *)
EXTENDS RoutingView, TLC

CONSTANTS p1, p2, g

MCPeers  == {p1, p2}
MCGroups == {g}

Router(on, p, gs) == [enabled |-> on, peer |-> p, groups |-> gs]

(* A concrete router, a group router, one with both, one with no target    *)
(* and a disabled one.                                                     *)
MCRouters == {Router(TRUE, p1, {}), Router(TRUE, NoPeer, {g}), Router(TRUE, p2, {g}),
              Router(TRUE, NoPeer, {}), Router(FALSE, p2, {})}

(* An enabled resource with any routers section of up to two routers, a    *)
(* disabled resource, and an absent one or an absent network.              *)
MCTopologyInputs ==
    [network : {TRUE}, resource : {"on"},
     routers : {Unknown} \cup {rs \in SUBSET MCRouters : Cardinality(rs) <= 2}]
    \cup [network : {TRUE}, resource : {"off", "absent"},
          routers : {Unknown, {Router(TRUE, p1, {})}}]
    \cup [network : {FALSE}, resource : {"absent"}, routers : {Unknown}]
=============================================================================
