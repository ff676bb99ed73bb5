------------------------- MODULE MCTopologyMonitor -------------------------
(* Instances of TopologyMonitor for TLC. *)
EXTENDS TopologyMonitor, TLC

CONSTANTS n1, r1, r2

(* Two resources of one network. *)
OneNetwork   == {n1}
TwoResources == {r1, r2}
SameNetwork  == [r \in TwoResources |-> n1]
Nowhere      == {}

(* A network and its resource, whose entities may be moved to either       *)
(* device or away from both.                                               *)
OneResource  == {r1}
ItsNetwork   == [r \in OneResource |-> n1]
Anywhere     == OneNetwork \cup OneResource \cup {Elsewhere}

ResourceSymmetry == Permutations(TwoResources)
=============================================================================
