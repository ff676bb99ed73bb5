------------------------------ MODULE Routing ------------------------------
(***************************************************************************)
(* routing.py: which peers route for a network, and what may be said of    *)
(* them when the service left something out.                               *)
(*                                                                         *)
(* A peer snapshot says of every listed peer whether it is connected and   *)
(* which groups it is in; either may be Unknown.  A routers section is a   *)
(* set of routers or Unknown.  The answers are three-valued, Unknown where *)
(* the code returns None.                                                  *)
(***************************************************************************)
EXTENDS Integers, FiniteSets

CONSTANTS Peers,    \* peer ids the snapshot or a router may name
          Groups,   \* peer-group ids
          Routers,  \* the routers that may be configured
          Unknown,  \* a missing value: None, a failed section or refresh
          Omitted,  \* snapshot value of a peer that is not listed
          NoPeer    \* peer_id of a router that names no peer

ASSUME RoutingNames ==
    /\ Unknown # TRUE /\ Unknown # FALSE
    /\ \A S \in SUBSET Groups : S # Unknown
    /\ NoPeer \notin Peers
    /\ Omitted # Unknown
    /\ Routers \subseteq [enabled : BOOLEAN, peer : Peers \cup {NoPeer},
                           groups : SUBSET Groups]

Memberships == {Unknown} \cup SUBSET Groups
Connections == {Unknown} \cup BOOLEAN
Listings    == [groups : Memberships, connected : Connections]
PeerLists   == [Peers -> {Omitted} \cup Listings]

Listed(ps)  == {p \in Peers : ps[p] # Omitted}
Enabled(rs) == {r \in rs : r.enabled}

HasTarget(r) == r.peer # NoPeer \/ r.groups # {}

-----------------------------------------------------------------------------
(* resolve_routing_peer_ids, for a known routers section and peer list.    *)

Members(ps, g) ==
    {p \in Listed(ps) : ps[p].groups # Unknown /\ g \in ps[p].groups}

MembershipComplete(ps) == \A p \in Listed(ps) : ps[p].groups # Unknown

Targets(r, ps) ==
    ({r.peer} \cap Listed(ps)) \cup UNION {Members(ps, g) : g \in r.groups}

TargetComplete(r, ps) ==
    /\ HasTarget(r)
    /\ r.peer \in Listed(ps) \cup {NoPeer}
    /\ r.groups # {} => MembershipComplete(ps)

(* The whole function.  Without peers only "no enabled router" is complete.*)
ResolvedPeers(rs, ps) ==
    IF rs = Unknown \/ ps = Unknown THEN {}
    ELSE UNION {Targets(r, ps) : r \in Enabled(rs)}

Complete(rs, ps) ==
    /\ rs # Unknown
    /\ Enabled(rs) # {} => /\ ps # Unknown
                           /\ \A r \in Enabled(rs) : TargetComplete(r, ps)

-----------------------------------------------------------------------------
(* count_connected_routing_peers *)
MutantCountKnown(rs, ps) == Complete(rs, ps)

CountKnown(rs, ps) ==
    /\ Complete(rs, ps)
    /\ \A p \in ResolvedPeers(rs, ps) : ps[p].connected # Unknown

ConnectedCount(rs, ps) ==
    IF CountKnown(rs, ps)
    THEN Cardinality({p \in ResolvedPeers(rs, ps) : ps[p].connected = TRUE})
    ELSE Unknown

(* resource_routing_available: a connected routing peer proves TRUE, only  *)
(* complete information proves FALSE.                                      *)
MutantRoutingAvailable(on, rs, ps) ==
    IF ~on THEN FALSE
    ELSE IF ~Complete(rs, ps) THEN Unknown
    ELSE IF \E p \in ResolvedPeers(rs, ps) : ps[p].connected = TRUE THEN TRUE
    ELSE IF \E p \in ResolvedPeers(rs, ps) : ps[p].connected = Unknown THEN Unknown
    ELSE FALSE

RoutingAvailable(on, rs, ps) ==
    LET resolved == ResolvedPeers(rs, ps)
    IN  IF ~on THEN FALSE
        ELSE IF \E p \in resolved : ps[p].connected = TRUE THEN TRUE
        ELSE IF ~Complete(rs, ps)
                \/ \E p \in resolved : ps[p].connected = Unknown THEN Unknown
        ELSE FALSE

-----------------------------------------------------------------------------
(* The reference.  A world settles everything the snapshots leave open:    *)
(* who is connected, who is in which group, and where every router points. *)
Worlds == [connected : [Peers -> BOOLEAN],
           groups    : [Peers -> SUBSET Groups],
           routers   : SUBSET Routers]

RoutingPeers(w) ==
    {p \in Peers : \E r \in w.routers :
        r.enabled /\ (r.peer = p \/ r.groups \cap w.groups[p] # {})}

TrulyConnected(w) == {p \in RoutingPeers(w) : w.connected[p]}
TrulyAvailable(on, w) == on /\ TrulyConnected(w) # {}

(* A world agrees with a peer list if it agrees with all the list knows; a *)
(* peer that is not listed is in no group, but a router naming it may know *)
(* of a peer the list has not got yet.                                     *)
AgreesOnPeers(w, ps) ==
    ps # Unknown =>
      \A p \in Peers :
        /\ ps[p] = Omitted => w.groups[p] = {}
        /\ ps[p] # Omitted =>
             /\ ps[p].groups # Unknown => w.groups[p] = ps[p].groups
             /\ ps[p].connected # Unknown => w.connected[p] = ps[p].connected

(* It agrees with a routers section if it has the same enabled routers,    *)
(* except that one without a target may point anywhere.                    *)
AgreesOnRouters(w, rs) ==
    rs # Unknown =>
      /\ \A r \in Enabled(rs) : HasTarget(r) => r \in w.routers
      /\ (\A r \in Enabled(rs) : HasTarget(r)) => Enabled(w.routers) = Enabled(rs)

Agrees(w, rs, ps) == AgreesOnRouters(w, rs) /\ AgreesOnPeers(w, ps)
=============================================================================
