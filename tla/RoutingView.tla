---------------------------- MODULE RoutingView ----------------------------
(***************************************************************************)
(* The two entities that read both coordinators: a resource's "Routing     *)
(* available" binary sensor and its network's "Connected routing peers"    *)
(* sensor.  The peer and the topology coordinator refresh independently;   *)
(* an entity's state is written only when a listener of one of them fires, *)
(* and Home Assistant shows what was written last.                         *)
(***************************************************************************)
EXTENDS Routing

CONSTANTS PeerInputs,      \* peer lists the service may return
          TopologyInputs   \* topologies it may return, as far as they matter

(* Of a topology snapshot: whether it has the network, the resource in it  *)
(* ("absent" also when the resources section failed), the routers section. *)
Topologies == [network  : BOOLEAN,
               resource : {"absent", "off", "on"},
               routers  : {Unknown} \cup SUBSET Routers]

ASSUME InputAssumption ==
    /\ PeerInputs \subseteq PeerLists
    /\ TopologyInputs \subseteq {t \in Topologies : ~t.network => t.resource = "absent"}

VARIABLES peers, peersOk,        \* peer coordinator: data, last_update_success
          topology, topologyOk,  \* topology coordinator: the same
          shownAvailable,        \* state of the binary sensor as last written
          shownCount             \* state of the count sensor as last written

vars == <<peers, peersOk, topology, topologyOk, shownAvailable, shownCount>>

TypeOK ==
    /\ peers \in PeerInputs /\ peersOk \in BOOLEAN
    /\ topology \in TopologyInputs /\ topologyOk \in BOOLEAN

-----------------------------------------------------------------------------
(* available and is_on of the binary sensor: Unknown means unavailable.    *)
MutantAvailability(ps, pok, t, tok) ==
    IF ~tok \/ t.resource = "absent" THEN Unknown
    ELSE RoutingAvailable(t.resource = "on", t.routers, ps)

Availability(ps, pok, t, tok) ==
    IF ~tok \/ t.resource = "absent" THEN Unknown
    ELSE RoutingAvailable(t.resource = "on", t.routers, IF pok THEN ps ELSE Unknown)

(* available and native_value of the count sensor. *)
Count(ps, pok, t, tok) ==
    IF ~tok \/ ~t.network \/ t.routers = Unknown \/ ~pok THEN Unknown
    ELSE ConnectedCount(t.routers, ps)

(* async_write_ha_state of both entities. *)
WriteStates ==
    /\ shownAvailable' = Availability(peers', peersOk', topology', topologyOk')
    /\ shownCount' = Count(peers', peersOk', topology', topologyOk')

KeepStates == UNCHANGED <<shownAvailable, shownCount>>

Init ==
    /\ peers \in PeerInputs /\ peersOk = TRUE
    /\ topology \in {t \in TopologyInputs : t.resource # "absent"}
    /\ topologyOk = TRUE
    /\ shownAvailable = Availability(peers, peersOk, topology, topologyOk)
    /\ shownCount = Count(peers, peersOk, topology, topologyOk)

-----------------------------------------------------------------------------
(* Both entities listen to both coordinators.  A coordinator with          *)
(* always_update=False tells its listeners when success or data changed.   *)

MutantPeersRefreshed(ps) ==
    /\ peers' = ps /\ peersOk' = TRUE
    /\ UNCHANGED <<topology, topologyOk>>
    /\ KeepStates

PeersRefreshed(ps) ==
    /\ peers' = ps /\ peersOk' = TRUE
    /\ UNCHANGED <<topology, topologyOk>>
    /\ IF ~peersOk \/ ps # peers THEN WriteStates ELSE KeepStates

PeersFailed ==
    /\ peersOk' = FALSE
    /\ UNCHANGED <<peers, topology, topologyOk>>
    /\ IF peersOk THEN WriteStates ELSE KeepStates

TopologyRefreshed(t) ==
    /\ topology' = t /\ topologyOk' = TRUE
    /\ UNCHANGED <<peers, peersOk>>
    /\ IF ~topologyOk \/ t # topology THEN WriteStates ELSE KeepStates

TopologyFailed ==
    /\ topologyOk' = FALSE
    /\ UNCHANGED <<peers, peersOk, topology>>
    /\ IF topologyOk THEN WriteStates ELSE KeepStates

Next ==
    \/ \E ps \in PeerInputs : PeersRefreshed(ps)
    \/ PeersFailed
    \/ \E t \in TopologyInputs : TopologyRefreshed(t)
    \/ TopologyFailed

Spec == Init /\ [][Next]_vars

-----------------------------------------------------------------------------
(* What Home Assistant shows is never out of date with the coordinators,   *)
(* though each entity reads data it may not be told about                  *)
(* (binary_sensor.py:256-258, sensor.py:392-395).                          *)
ShownIsCurrent ==
    /\ shownAvailable = Availability(peers, peersOk, topology, topologyOk)
    /\ shownCount = Count(peers, peersOk, topology, topologyOk)

(* What the coordinators know: data of a failed one counts for nothing.    *)
KnownPeers   == IF peersOk THEN peers ELSE Unknown
PossibleWorlds == {w \in Worlds : Agrees(w, topology.routers, KnownPeers)}

(* A state that is shown is true in every world the two snapshots allow:   *)
(* incomplete information never turns "Routing available" off, and never   *)
(* on without a connected routing peer (README.md:87).                     *)
AvailabilityIsSound ==
    shownAvailable # Unknown =>
      /\ topologyOk
      /\ \A w \in PossibleWorlds :
           shownAvailable = TrulyAvailable(topology.resource = "on", w)

(* A count that is shown is the number of connected routing peers in every *)
(* such world: missing data makes it unavailable instead of lowering it    *)
(* (README.md:85).                                                         *)
CountIsSound ==
    shownCount # Unknown =>
      /\ topologyOk /\ peersOk
      /\ \A w \in PossibleWorlds : shownCount = Cardinality(TrulyConnected(w))

(* Nor is it withheld: when the snapshots prove the resource available, it *)
(* is shown on, however much else is missing (README.md:87, "unless        *)
(* another complete path already proves on").                              *)
ProvenIsShown ==
    topologyOk /\ topology.resource = "on"
      /\ (\A w \in PossibleWorlds : TrulyAvailable(TRUE, w))
      => shownAvailable = TRUE
=============================================================================
