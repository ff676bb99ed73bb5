--------------------------- MODULE MCPeerMonitor ---------------------------
(* Instances of PeerMonitor for TLC. *)
EXTENDS PeerMonitor, TLC

CONSTANTS p1, p2, other

MCPeers == {p1, p2}

(* An entity may be moved to another peer's device, to a device of another *)
(* config entry, or off any device.                                        *)
MCRelinkTargets == {p1, p2, other, NoDevice}

(* An instance without optional entities. *)
NoKeys == {}

Symmetry == Permutations(MCPeers)
=============================================================================
