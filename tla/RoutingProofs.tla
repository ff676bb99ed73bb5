--------------------------- MODULE RoutingProofs ---------------------------
(***************************************************************************)
(* The routing answers are right in every world the snapshots allow, for   *)
(* any peers, groups, routers and snapshots.                               *)
(***************************************************************************)
EXTENDS RoutingView, TLAPS

(* A resolved peer routes in every world, so one path that is known proves *)
(* availability whatever the others are.                                   *)
LEMMA ResolvedRoutes ==
    ASSUME NEW rs \in {Unknown} \cup SUBSET Routers,
           NEW ps \in {Unknown} \cup PeerLists,
           NEW w \in Worlds, Agrees(w, rs, ps)
    PROVE  ResolvedPeers(rs, ps) \subseteq RoutingPeers(w)
  <1> SUFFICES ASSUME NEW p \in ResolvedPeers(rs, ps) PROVE p \in RoutingPeers(w)
    OBVIOUS
  <1>1. rs # Unknown /\ ps # Unknown
        /\ \E r \in Enabled(rs) : p \in Targets(r, ps)
    BY DEF ResolvedPeers
  <1>2. PICK r \in Enabled(rs) : p \in Targets(r, ps)
    BY <1>1
  <1>3. p \in Peers /\ p \in Listed(ps)
    BY <1>2 DEF Targets, Members, Listed
  <1>4. r \in Routers /\ r.enabled /\ r \in rs
    BY <1>1, <1>2 DEF Enabled
  <1>5. HasTarget(r)
    BY <1>2, <1>3, RoutingNames DEF Targets, HasTarget
  <1>6. r \in w.routers
    BY <1>1, <1>2, <1>5 DEF Agrees, AgreesOnRouters
  <1>7. CASE p = r.peer
    BY <1>3, <1>4, <1>6, <1>7 DEF RoutingPeers
  <1>8. CASE p # r.peer
    <2>1. PICK g \in r.groups : p \in Members(ps, g)
      BY <1>2, <1>8 DEF Targets
    <2>2. g \in ps[p].groups /\ ps[p].groups # Unknown /\ ps[p] # Omitted
      BY <2>1 DEF Members, Listed
    <2>3. g \in w.groups[p]
      BY <1>1, <1>3, <2>2 DEF Agrees, AgreesOnPeers
    <2> QED
      BY <1>3, <1>4, <1>6, <2>1, <2>3 DEF RoutingPeers
  <1> QED
    BY <1>7, <1>8

(* When the resolution is complete there is no other routing peer. *)
LEMMA CompleteResolution ==
    ASSUME NEW rs \in {Unknown} \cup SUBSET Routers,
           NEW ps \in {Unknown} \cup PeerLists,
           NEW w \in Worlds, Agrees(w, rs, ps), Complete(rs, ps)
    PROVE  RoutingPeers(w) = ResolvedPeers(rs, ps)
  <1>1. rs # Unknown /\ rs \subseteq Routers
    BY DEF Complete
  <1>2. Enabled(w.routers) = Enabled(rs)
    BY <1>1 DEF Complete, TargetComplete, Agrees, AgreesOnRouters
  <1> SUFFICES ASSUME NEW p \in RoutingPeers(w) PROVE p \in ResolvedPeers(rs, ps)
    BY ResolvedRoutes
  <1>3. PICK r \in Enabled(rs) : r.peer = p \/ r.groups \cap w.groups[p] # {}
    BY <1>2 DEF RoutingPeers, Enabled
  <1>4. ps # Unknown /\ ps \in PeerLists /\ TargetComplete(r, ps)
    BY <1>3 DEF Complete
  <1>5. p \in Peers
    BY DEF RoutingPeers
  <1>6. p \in Targets(r, ps)
    <2>1. CASE r.peer = p
      BY <1>4, <1>5, <2>1, RoutingNames DEF TargetComplete, Targets
    <2>2. CASE r.groups \cap w.groups[p] # {}
      <3>1. PICK g \in r.groups : g \in w.groups[p]
        BY <2>2
      <3>2. ps[p] # Omitted
        BY <1>4, <1>5, <3>1 DEF Agrees, AgreesOnPeers
      <3>3. ps[p].groups # Unknown
        BY <1>4, <1>5, <3>1, <3>2 DEF TargetComplete, MembershipComplete, Listed
      <3>4. g \in ps[p].groups
        BY <1>4, <1>5, <3>1, <3>2, <3>3 DEF Agrees, AgreesOnPeers
      <3> QED
        BY <1>5, <3>1, <3>2, <3>3, <3>4 DEF Targets, Members, Listed
    <2> QED
      BY <1>3, <2>1, <2>2
  <1> QED
    BY <1>1, <1>3, <1>4, <1>6 DEF ResolvedPeers

(* Connection states of resolved peers are those of the world, where known.*)
LEMMA ConnectionsAgree ==
    ASSUME NEW rs \in {Unknown} \cup SUBSET Routers,
           NEW ps \in {Unknown} \cup PeerLists,
           NEW w \in Worlds, Agrees(w, rs, ps), NEW p \in ResolvedPeers(rs, ps)
    PROVE  ps[p].connected # Unknown => w.connected[p] = ps[p].connected
  <1>1. ps # Unknown /\ p \in Listed(ps)
    BY DEF ResolvedPeers, Targets, Members
  <1> QED
    BY <1>1 DEF Listed, Agrees, AgreesOnPeers

(* "Routing available" never claims more than the snapshots prove: on means*)
(* available in every world that agrees with them, off means available in  *)
(* none (routing.py:92-112).                                               *)
THEOREM AvailabilitySound ==
    ASSUME NEW on \in BOOLEAN,
           NEW rs \in {Unknown} \cup SUBSET Routers,
           NEW ps \in {Unknown} \cup PeerLists,
           RoutingAvailable(on, rs, ps) # Unknown,
           NEW w \in Worlds, Agrees(w, rs, ps)
    PROVE  RoutingAvailable(on, rs, ps) = TrulyAvailable(on, w)
  <1> DEFINE resolved == ResolvedPeers(rs, ps)
  <1>1. CASE ~on
    BY <1>1 DEF RoutingAvailable, TrulyAvailable
  <1>2. CASE on /\ \E p \in resolved : ps[p].connected = TRUE
    <2>1. PICK p \in resolved : ps[p].connected = TRUE
      BY <1>2
    <2>2. TRUE # Unknown
      BY RoutingNames
    <2>3. w.connected[p] = TRUE
      BY <2>1, <2>2, ConnectionsAgree
    <2>4. p \in RoutingPeers(w)
      BY ResolvedRoutes
    <2> QED
      BY <1>2, <2>3, <2>4 DEF RoutingAvailable, TrulyAvailable, TrulyConnected
  <1>3. CASE on /\ ~\E p \in resolved : ps[p].connected = TRUE
    <2>1. Complete(rs, ps) /\ \A p \in resolved : ps[p].connected # Unknown
      BY <1>3 DEF RoutingAvailable
    <2>2. RoutingAvailable(on, rs, ps) = FALSE
      BY <1>3, <2>1 DEF RoutingAvailable
    <2>3. RoutingPeers(w) = resolved
      BY <2>1, CompleteResolution
    <2>4. \A p \in resolved : w.connected[p] # TRUE
      BY <1>3, <2>1, ConnectionsAgree
    <2>5. TrulyConnected(w) = {}
      BY <2>3, <2>4 DEF TrulyConnected, Worlds, RoutingPeers
    <2> QED
      BY <2>2, <2>5 DEF TrulyAvailable
  <1> QED
    BY <1>1, <1>2, <1>3

(* The connected routing peer count, where one is given, is the number of  *)
(* connected routing peers in every world (routing.py:70-89).              *)
THEOREM CountSound ==
    ASSUME NEW rs \in {Unknown} \cup SUBSET Routers,
           NEW ps \in {Unknown} \cup PeerLists,
           CountKnown(rs, ps),
           NEW w \in Worlds, Agrees(w, rs, ps)
    PROVE  ConnectedCount(rs, ps) = Cardinality(TrulyConnected(w))
  <1>1. RoutingPeers(w) = ResolvedPeers(rs, ps)
    BY CompleteResolution DEF CountKnown
  <1>2. \A p \in ResolvedPeers(rs, ps) : w.connected[p] = ps[p].connected
    BY ConnectionsAgree DEF CountKnown
  <1>3. \A p \in ResolvedPeers(rs, ps) : w.connected[p] \in BOOLEAN
    BY <1>1 DEF Worlds, RoutingPeers
  <1>4. {p \in ResolvedPeers(rs, ps) : ps[p].connected = TRUE} = TrulyConnected(w)
    BY <1>1, <1>2, <1>3 DEF TrulyConnected
  <1> QED
    BY <1>4 DEF ConnectedCount

(* The world in which whatever is left open is not there or not connected. *)
KnownPeer(ps, p) == ps # Unknown /\ ps[p] # Omitted

DarkWorld(rs, ps) ==
    [connected |-> [p \in Peers |-> KnownPeer(ps, p) /\ ps[p].connected = TRUE],
     groups    |-> [p \in Peers |-> IF KnownPeer(ps, p) /\ ps[p].groups # Unknown
                                    THEN ps[p].groups ELSE {}],
     routers   |-> IF rs = Unknown THEN {} ELSE {r \in Enabled(rs) : HasTarget(r)}]

LEMMA DarkWorldAgrees ==
    ASSUME NEW rs \in {Unknown} \cup SUBSET Routers,
           NEW ps \in {Unknown} \cup PeerLists
    PROVE  DarkWorld(rs, ps) \in Worlds /\ Agrees(DarkWorld(rs, ps), rs, ps)
  <1> DEFINE w == DarkWorld(rs, ps)
  <1>1. ASSUME NEW p \in Peers, KnownPeer(ps, p)
        PROVE  ps[p].groups \in Memberships /\ ps[p].connected \in Connections
    BY <1>1 DEF KnownPeer, PeerLists, Listings
  <1>2. w \in Worlds
    <2>1. w.groups \in [Peers -> SUBSET Groups]
      BY <1>1 DEF DarkWorld, Memberships
    <2>2. w.connected \in [Peers -> BOOLEAN]
      BY DEF DarkWorld
    <2>3. w.routers \in SUBSET Routers
      BY DEF DarkWorld, Enabled
    <2> QED
      BY <2>1, <2>2, <2>3 DEF Worlds, DarkWorld
  <1>3. AgreesOnRouters(w, rs)
    BY DEF AgreesOnRouters, DarkWorld, Enabled
  <1>4. ASSUME ps # Unknown, NEW p \in Peers
        PROVE  /\ ps[p] = Omitted => w.groups[p] = {}
               /\ ps[p] # Omitted =>
                    /\ ps[p].groups # Unknown => w.groups[p] = ps[p].groups
                    /\ ps[p].connected # Unknown => w.connected[p] = ps[p].connected
    <2>1. w.connected[p] = (KnownPeer(ps, p) /\ ps[p].connected = TRUE)
      BY DEF DarkWorld
    <2>2. ps[p] # Omitted /\ ps[p].connected # Unknown => ps[p].connected \in BOOLEAN
      BY <1>1, <1>4 DEF KnownPeer, Connections
    <2>3. ps[p] # Omitted /\ ps[p].connected # Unknown => w.connected[p] = ps[p].connected
      BY <1>4, <2>1, <2>2 DEF KnownPeer
    <2>4. ps[p] # Omitted /\ ps[p].groups # Unknown => w.groups[p] = ps[p].groups
      BY <1>4 DEF DarkWorld, KnownPeer
    <2>5. ps[p] = Omitted => w.groups[p] = {}
      BY DEF DarkWorld, KnownPeer
    <2> QED
      BY <2>3, <2>4, <2>5
  <1> QED
    BY <1>2, <1>3, <1>4 DEF Agrees, AgreesOnPeers

(* Nor is availability withheld: where no connected routing peer is found, *)
(* there is a world that agrees with the snapshots and has none.           *)
THEOREM AvailabilityComplete ==
    ASSUME NEW rs \in {Unknown} \cup SUBSET Routers,
           NEW ps \in {Unknown} \cup PeerLists,
           \A w \in Worlds : Agrees(w, rs, ps) => TrulyAvailable(TRUE, w)
    PROVE  RoutingAvailable(TRUE, rs, ps) = TRUE
  <1> DEFINE w == DarkWorld(rs, ps)
  <1>1. PICK p \in Peers : p \in RoutingPeers(w) /\ w.connected[p]
    BY DarkWorldAgrees DEF TrulyAvailable, TrulyConnected, RoutingPeers
  <1>2. KnownPeer(ps, p) /\ ps[p].connected = TRUE
    BY <1>1 DEF DarkWorld
  <1>3. PICK r \in w.routers : r.enabled /\ (r.peer = p \/ r.groups \cap w.groups[p] # {})
    BY <1>1 DEF RoutingPeers
  <1>4. rs # Unknown /\ r \in Enabled(rs)
    BY <1>3 DEF DarkWorld
  <1>5. p \in Targets(r, ps)
    <2>1. p \in Listed(ps)
      BY <1>2 DEF KnownPeer, Listed
    <2>2. CASE r.peer = p
      BY <2>1, <2>2 DEF Targets
    <2>3. CASE r.groups \cap w.groups[p] # {}
      <3>1. PICK g \in r.groups : g \in w.groups[p]
        BY <2>3
      <3>2. ps[p].groups # Unknown /\ g \in ps[p].groups
        BY <3>1 DEF DarkWorld
      <3> QED
        BY <2>1, <3>1, <3>2 DEF Targets, Members
    <2> QED
      BY <1>3, <2>2, <2>3
  <1>6. p \in ResolvedPeers(rs, ps)
    BY <1>2, <1>4, <1>5 DEF ResolvedPeers, KnownPeer
  <1> QED
    BY <1>2, <1>6 DEF RoutingAvailable

-----------------------------------------------------------------------------
(* The two entities.  What they show follows both coordinators, so the     *)
(* soundness of the answers is that of what is shown.                      *)

IInv == TypeOK /\ ShownIsCurrent

LEMMA ViewInit == Init => IInv
  BY DEF Init, IInv, TypeOK, ShownIsCurrent

LEMMA ViewNext == IInv /\ [Next]_vars => IInv'
  <1> SUFFICES ASSUME IInv, [Next]_vars PROVE IInv'
    OBVIOUS
  <1> USE DEF IInv, TypeOK, ShownIsCurrent, WriteStates, KeepStates
  <1>1. CASE \E ps \in PeerInputs : PeersRefreshed(ps)
    <2>1. PICK ps \in PeerInputs : PeersRefreshed(ps)
      BY <1>1
    <2>2. CASE ~peersOk \/ ps # peers
      BY <2>1, <2>2 DEF PeersRefreshed
    <2>3. CASE peersOk /\ ps = peers
      BY <2>1, <2>3 DEF PeersRefreshed
    <2> QED
      BY <2>2, <2>3
  <1>2. CASE PeersFailed
    BY <1>2 DEF PeersFailed
  <1>3. CASE \E t \in TopologyInputs : TopologyRefreshed(t)
    <2>1. PICK t \in TopologyInputs : TopologyRefreshed(t)
      BY <1>3
    <2>2. CASE ~topologyOk \/ t # topology
      BY <2>1, <2>2 DEF TopologyRefreshed
    <2>3. CASE topologyOk /\ t = topology
      BY <2>1, <2>3 DEF TopologyRefreshed
    <2> QED
      BY <2>2, <2>3
  <1>4. CASE TopologyFailed
    BY <1>4 DEF TopologyFailed
  <1>5. CASE UNCHANGED vars
    BY <1>5 DEF vars
  <1> QED
    BY <1>1, <1>2, <1>3, <1>4, <1>5 DEF Next

(* What is shown is never out of date with either coordinator. *)
THEOREM ShownCurrent == Spec => []ShownIsCurrent
  <1>1. IInv => ShownIsCurrent
    BY DEF IInv
  <1> QED
    BY <1>1, ViewInit, ViewNext, PTL DEF Spec

LEMMA KnownInputs ==
    ASSUME TypeOK
    PROVE  /\ topology.routers \in {Unknown} \cup SUBSET Routers
           /\ KnownPeers \in {Unknown} \cup PeerLists
           /\ (topology.resource = "on") \in BOOLEAN
  BY InputAssumption DEF TypeOK, KnownPeers, Topologies

LEMMA StateComplete == IInv => ProvenIsShown
  <1> DEFINE rs == topology.routers
  <1> SUFFICES ASSUME IInv, topologyOk, topology.resource = "on",
                      \A w \in PossibleWorlds : TrulyAvailable(TRUE, w)
               PROVE  shownAvailable = TRUE
    BY DEF ProvenIsShown
  <1>1. rs \in {Unknown} \cup SUBSET Routers /\ KnownPeers \in {Unknown} \cup PeerLists
    BY KnownInputs DEF IInv
  <1>2. \A w \in Worlds : Agrees(w, rs, KnownPeers) => TrulyAvailable(TRUE, w)
    BY DEF PossibleWorlds
  <1>3. shownAvailable = RoutingAvailable(TRUE, rs, KnownPeers)
    BY DEF IInv, TypeOK, ShownIsCurrent, Availability, KnownPeers
  <1> HIDE DEF rs
  <1> QED
    BY <1>1, <1>2, <1>3, AvailabilityComplete

LEMMA StateSound == IInv => AvailabilityIsSound /\ CountIsSound
  <1> SUFFICES ASSUME IInv PROVE AvailabilityIsSound /\ CountIsSound
    OBVIOUS
  <1> DEFINE on == topology.resource = "on"
             rs == topology.routers
  <1>1. /\ rs \in {Unknown} \cup SUBSET Routers
        /\ KnownPeers \in {Unknown} \cup PeerLists
        /\ on \in BOOLEAN
    BY KnownInputs DEF IInv
  <1>2. ASSUME shownAvailable # Unknown, NEW w \in PossibleWorlds
        PROVE  topologyOk /\ shownAvailable = TrulyAvailable(on, w)
    <2>1. topologyOk /\ shownAvailable = RoutingAvailable(on, rs, KnownPeers)
      BY <1>2 DEF IInv, TypeOK, ShownIsCurrent, Availability, KnownPeers
    <2>2. w \in Worlds /\ Agrees(w, rs, KnownPeers)
      BY DEF PossibleWorlds
    <2> HIDE DEF on, rs
    <2> QED
      BY <1>1, <1>2, <2>1, <2>2, AvailabilitySound
  <1>3. ASSUME shownAvailable # Unknown PROVE topologyOk
    BY <1>3 DEF IInv, TypeOK, ShownIsCurrent, Availability
  <1>4. ASSUME shownCount # Unknown
        PROVE  /\ topologyOk /\ peersOk
               /\ shownCount = ConnectedCount(rs, KnownPeers)
               /\ CountKnown(rs, KnownPeers)
    BY <1>4 DEF IInv, TypeOK, ShownIsCurrent, Count, ConnectedCount, KnownPeers
  <1>5. ASSUME shownCount # Unknown, NEW w \in PossibleWorlds
        PROVE  shownCount = Cardinality(TrulyConnected(w))
    <2>1. w \in Worlds /\ Agrees(w, rs, KnownPeers)
      BY DEF PossibleWorlds
    <2> HIDE DEF rs
    <2> QED
      BY <1>1, <1>4, <1>5, <2>1, CountSound
  <1> QED
    BY <1>2, <1>3, <1>4, <1>5 DEF AvailabilityIsSound, CountIsSound

(* A shown "Routing available" is true in every world the snapshots allow. *)
THEOREM ShownAvailabilitySound == Spec => []AvailabilityIsSound
  BY ViewInit, ViewNext, StateSound, PTL DEF Spec

(* A shown count of connected routing peers is exact in every such world.  *)
THEOREM ShownCountSound == Spec => []CountIsSound
  BY ViewInit, ViewNext, StateSound, PTL DEF Spec

(* An availability that the snapshots prove is shown.                      *)
THEOREM ProvenShown == Spec => []ProvenIsShown
  BY ViewInit, ViewNext, StateComplete, PTL DEF Spec
=============================================================================
