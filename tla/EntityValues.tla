---------------------------- MODULE EntityValues ----------------------------
(***************************************************************************)
(* From what the service answers to what Home Assistant shows: the two     *)
(* coordinators parse the replies of a refresh or keep their last snapshot *)
(* and fail, the entities of peers, networks, resources and of the account *)
(* compute their states from the snapshots (sensor.py, binary_sensor.py,   *)
(* entity.py, topology_entity.py), devices are named after what they stand *)
(* for, and diagnostics summarise it all (diagnostics.py).                 *)
(*                                                                         *)
(* The two entities that read both coordinators are those of RoutingView.  *)
(***************************************************************************)
EXTENDS Payloads, FiniteSets

CONSTANTS PeerIds, NetworkIds, ResourceIds,  \* the ids in use
          PeerReplies,      \* replies to the peer list
          TopologyReplies,  \* replies to the requests of a topology refresh
          Unavailable,      \* state of an entity without one
          NoDevice          \* name of a device that does not exist

(* A reply of ApiErrors, with the JSON in its body.                        *)
Reply(objects) ==
    [failure : {"none"} \cup DOMAIN Failures, status : Nat, json : BOOLEAN,
     body : Bodies(objects)]

NoReply    == [failure |-> "other", status |-> 0, json |-> FALSE, body |-> <<>>]
Replied(r) == FetchError(r) = "none"

(* The replies to a topology refresh: to the network list, and by network  *)
(* to its two sections.                                                    *)
TopologyReply ==
    [networks  : Reply(NetworkObject(NetworkIds)),
     resources : [NetworkIds -> Reply(ResourceObject(ResourceIds))],
     routers   : [NetworkIds -> Reply(RouterObject)]]

(* Ids are assumed to be distinct where the code does not check it: of     *)
(* networks, and of the resources of a network.                            *)
DistinctIds(body) ==
    body # Malformed => \A i, j \in DOMAIN body : i # j => ~Same(body, i, j)

ASSUME IdAssumption == PeerIds \cup NetworkIds \cup ResourceIds \subseteq Texts

ASSUME ReplyAssumption ==
    /\ \A r \in PeerReplies : r \in Reply(PeerObject(PeerIds))
    /\ \A t \in TopologyReplies :
         /\ t \in TopologyReply
         /\ DistinctIds(t.networks.body)
         /\ \A n \in NetworkIds : DistinctIds(t.resources[n].body)

(* What the coordinators keep, as in models.py and topology.py.            *)
NetBirdPeer ==
    [id : PeerIds, name : AnyText \cup {None}, connected : BOOLEAN \cup {None},
     lastSeen : Times \cup {None}, groups : {None} \cup SUBSET Texts]
NetBirdNetwork  == [id : NetworkIds, name : Texts]
NetBirdResource == [id : ResourceIds, name : Texts, address : Texts, enabled : BOOLEAN]
NetBirdRouter   ==
    [id : Texts, enabled : BOOLEAN, peer : AnyText \cup {None}, groups : SUBSET AnyText]
NetBirdNetworkTopology ==
    [network : NetBirdNetwork, resources : {None} \cup Seq(NetBirdResource),
     routers : {None} \cup Seq(NetBirdRouter)]

(* Python's None is none of its objects, and "unavailable" is no state.    *)
ASSUME NoneAssumption ==
    /\ \A S \in SUBSET Texts : None # S
    /\ None \notin NetBirdPeer
    /\ None \notin NetBirdResource
    /\ None \notin NetBirdNetworkTopology
    /\ None \notin Seq(NetBirdResource)
    /\ None \notin Seq(NetBirdRouter)
    /\ None \notin Seq(NetBirdNetworkTopology)

ASSUME UnavailableAssumption ==
    /\ Unavailable \notin Times \cup {None}
    /\ Unavailable \notin BOOLEAN
    /\ Unavailable \notin Nat
    /\ Unavailable \notin [enabled : BOOLEAN, address : Texts]

VARIABLES
    peers, peersOk,        \* peer coordinator: data, last_update_success
    topology, topologyOk,  \* topology coordinator: the same; data None before
    peerName, networkName, resourceName,   \* names in the device registry
    peerReply, topologyReply               \* history: what was answered last

vars == <<peers, peersOk, topology, topologyOk, peerName, networkName,
          resourceName, peerReply, topologyReply>>

-----------------------------------------------------------------------------
(* Refreshes: the error that a call of the client ends with, and what it   *)
(* returns if none.                                                        *)

ReplyError(r, bodyError) == IF Replied(r) THEN bodyError ELSE FetchError(r)

SectionError(id, r, bodyError) ==
    IF PathError(id) # "none" THEN PathError(id) ELSE ReplyError(r, bodyError)

GetPeersError(r)         == ReplyError(r, PeersError(r.body))
GetNetworksError(r)      == ReplyError(r, NetworksError(r.body))
GetResourcesError(id, r) == SectionError(id, r, ResourcesError(r.body))
GetRoutersError(id, r)   == SectionError(id, r, RoutersError(r.body))

PeersRead(r) == [i \in DOMAIN r.body |-> ParsePeer(r.body[i])]

(* resources_for and routers_for: None when left out of the snapshot.      *)
ResourcesRead(id, r) ==
    IF GetResourcesError(id, r) # "none" THEN None
    ELSE [i \in DOMAIN r.body |-> ParseResource(r.body[i])]

RoutersRead(id, r) ==
    IF GetRoutersError(id, r) # "none" THEN None
    ELSE [i \in DOMAIN r.body |-> ParseRouter(r.body[i])]

SectionRaises(e) == Handle(SectionClauses, e) = "raises"

TopologySucceeds(t) ==
    /\ GetNetworksError(t.networks) = "none"
    /\ \A i \in DOMAIN t.networks.body :
         LET id == t.networks.body[i].id
         IN  /\ ~SectionRaises(GetResourcesError(id, t.resources[id]))
             /\ ~SectionRaises(GetRoutersError(id, t.routers[id]))

NetworkRead(t, d) ==
    [network   |-> ParseNetwork(d),
     resources |-> ResourcesRead(d.id, t.resources[d.id]),
     routers   |-> RoutersRead(d.id, t.routers[d.id])]

Snapshot(t) == [i \in DOMAIN t.networks.body |-> NetworkRead(t, t.networks.body[i])]

(* The first of some items, None if there is none.                         *)
FirstOf(items, positions) == IF positions = {} THEN None ELSE items[First(positions)]

PeerIn(ps, p) == FirstOf(ps, {i \in DOMAIN ps : ps[i].id = p})

NetworkIn(t, n) ==
    IF t = None THEN None ELSE FirstOf(t, {i \in DOMAIN t : t[i].network.id = n})

ResourceIn(t, n, r) ==
    LET item == NetworkIn(t, n)
    IN  IF item = None \/ item.resources = None THEN None
        ELSE FirstOf(item.resources,
                     {i \in DOMAIN item.resources : item.resources[i].id = r})

-----------------------------------------------------------------------------
(* Names.  The listeners of a coordinator name a device when they create   *)
(* it and again when they see it under another name.                       *)

DisplayName(peer) == IF peer.name \in {None, ""} THEN peer.id ELSE peer.name

NamedPeers(ps) ==
    [p \in PeerIds |-> IF PeerIn(ps, p) = None THEN peerName[p]
                       ELSE DisplayName(PeerIn(ps, p))]

NamedNetworks(t) ==
    [n \in NetworkIds |-> IF NetworkIn(t, n) = None THEN networkName[n]
                          ELSE NetworkIn(t, n).network.name]

MutantNamedResources(t) ==
    [n \in NetworkIds |-> [r \in ResourceIds |->
        IF ResourceIn(t, n, r) = None \/ resourceName[n][r] # NoDevice
        THEN resourceName[n][r] ELSE ResourceIn(t, n, r).name]]

NamedResources(t) ==
    [n \in NetworkIds |-> [r \in ResourceIds |->
        IF ResourceIn(t, n, r) = None THEN resourceName[n][r]
        ELSE ResourceIn(t, n, r).name]]

(* With always_update=False listeners run when success or data changed.    *)
PeersRefreshed(r) ==
    LET new == PeersRead(r)
    IN  /\ GetPeersError(r) = "none"
        /\ peerReply' = r
        /\ peers' = new /\ peersOk' = TRUE
        /\ peerName' = IF ~peersOk \/ new # peers THEN NamedPeers(new) ELSE peerName
        /\ UNCHANGED <<topology, topologyOk, networkName, resourceName, topologyReply>>

PeersFailed(r) ==
    /\ GetPeersError(r) # "none"
    /\ peerReply' = r
    /\ peersOk' = FALSE
    /\ UNCHANGED <<peers, topology, topologyOk, peerName, networkName, resourceName,
                   topologyReply>>

TopologyRefreshed(t) ==
    LET new  == Snapshot(t)
        told == ~topologyOk \/ new # topology
    IN  /\ TopologySucceeds(t)
        /\ topologyReply' = t
        /\ topology' = new /\ topologyOk' = TRUE
        /\ networkName' = IF told THEN NamedNetworks(new) ELSE networkName
        /\ resourceName' = IF told THEN NamedResources(new) ELSE resourceName
        /\ UNCHANGED <<peers, peersOk, peerName, peerReply>>

TopologyFailed(t) ==
    /\ ~TopologySucceeds(t)
    /\ topologyReply' = t
    /\ topologyOk' = FALSE
    /\ UNCHANGED <<peers, peersOk, topology, peerName, networkName, resourceName, peerReply>>

(* Before any refresh: nothing is shown. *)
Init ==
    /\ peers = <<>> /\ peersOk = FALSE
    /\ topology = None /\ topologyOk = FALSE
    /\ peerName = [p \in PeerIds |-> NoDevice]
    /\ networkName = [n \in NetworkIds |-> NoDevice]
    /\ resourceName = [n \in NetworkIds |-> [r \in ResourceIds |-> NoDevice]]
    /\ peerReply = NoReply
    /\ topologyReply = [networks  |-> NoReply,
                        resources |-> [n \in NetworkIds |-> NoReply],
                        routers   |-> [n \in NetworkIds |-> NoReply]]

PeerStep     == \E r \in PeerReplies : PeersRefreshed(r) \/ PeersFailed(r)
TopologyStep == \E t \in TopologyReplies : TopologyRefreshed(t) \/ TopologyFailed(t)

Next == PeerStep \/ TopologyStep

Spec == Init /\ [][Next]_vars

-----------------------------------------------------------------------------
(* States.  Unavailable is the state of an entity that is not available,   *)
(* None that of a sensor without a value ("unknown").                      *)

(* A binary sensor of a peer, and one of its sensors. *)
Connected(p) ==
    LET peer == PeerIn(peers, p)
    IN  IF ~peersOk \/ peer = None \/ peer.connected = None THEN Unavailable
        ELSE peer.connected

LastSeen(p) ==
    LET peer == PeerIn(peers, p)
    IN  IF ~peersOk \/ peer = None THEN Unavailable ELSE peer.lastSeen

(* The binary sensor and the sensors of a resource. *)
ResourceState(n, r) ==
    LET resource == ResourceIn(topology, n, r)
    IN  IF ~topologyOk \/ resource = None THEN Unavailable
        ELSE [enabled |-> resource.enabled, address |-> resource.address]

(* The totals of a section, of all items or of the enabled ones: of one    *)
(* network, and of the account, which has one only if every network has.   *)
CountIn(items, enabledOnly) ==
    Cardinality({j \in DOMAIN items : enabledOnly => items[j].enabled})

Sum(counts) ==
    LET upTo[i \in 0..Len(counts)] == IF i = 0 THEN 0 ELSE upTo[i - 1] + counts[i]
    IN  upTo[Len(counts)]

NetworkTotal(n, section, enabledOnly) ==
    LET item == NetworkIn(topology, n)
    IN  IF ~topologyOk \/ item = None \/ item[section] = None THEN Unavailable
        ELSE CountIn(item[section], enabledOnly)

LeftOut(section) == {i \in DOMAIN topology : topology[i][section] = None}

MutantAccountTotal(section, enabledOnly) ==
    IF ~topologyOk THEN Unavailable
    ELSE Sum([i \in DOMAIN topology |->
                IF i \in LeftOut(section) THEN 0 ELSE CountIn(topology[i][section], enabledOnly)])

AccountTotal(section, enabledOnly) ==
    IF ~topologyOk \/ LeftOut(section) # {} THEN Unavailable
    ELSE Sum([i \in DOMAIN topology |-> CountIn(topology[i][section], enabledOnly)])

(* Diagnostics tell of the sections the last snapshot is complete in.      *)
CompleteSections(section) == Len(topology) - Cardinality(LeftOut(section))

-----------------------------------------------------------------------------
(* What is shown of a peer or a resource is what the service answered last *)
(* and nothing else: no older value, no default for a missing one, not one *)
(* of two contradictory answers; and what it answered is shown             *)
(* (README.md:89, api.py:158-161, topology_entity.py:148-150).             *)
StatesAreServed ==
    /\ \A p \in PeerIds :
         LET said == {i \in DOMAIN peerReply.body : peerReply.body[i].id = p}
         IN  IF ~peersOk THEN Connected(p) = Unavailable /\ LastSeen(p) = Unavailable
             ELSE /\ Connected(p) # Unavailable => said # {}
                  /\ \A i \in said :
                       /\ Connected(p) = IF peerReply.body[i].connected \in BOOLEAN
                                         THEN peerReply.body[i].connected
                                         ELSE Unavailable
                       /\ LastSeen(p) = IF peerReply.body[i].lastSeen \in Times
                                        THEN peerReply.body[i].lastSeen ELSE None
    /\ \A n \in NetworkIds, r \in ResourceIds :
         ResourceState(n, r) # Unavailable =>
           /\ Replied(topologyReply.networks) /\ Replied(topologyReply.resources[n])
           /\ \E i \in DOMAIN topologyReply.networks.body :
                topologyReply.networks.body[i].id = n
           /\ \E i \in DOMAIN topologyReply.resources[n].body :
                LET d == topologyReply.resources[n].body[i]
                IN  /\ d.id = r
                    /\ ResourceState(n, r) = [enabled |-> d.enabled, address |-> d.address]

(* A total of the account is the number of items in everything the service *)
(* answered last; a section it did not answer makes the total unavailable  *)
(* instead of lowering it, and so it agrees with the networks' own totals  *)
(* and with diagnostics (sensor.py:317-360, diagnostics.py:65-75).         *)
TotalsAreSound ==
    \A section \in {"resources", "routers"}, enabledOnly \in BOOLEAN :
      LET total   == AccountTotal(section, enabledOnly)
          listed  == topologyReply.networks.body
          said(i) == topologyReply[section][listed[i].id]
          items   == UNION {{<<i, j>> : j \in {k \in DOMAIN said(i).body :
                                enabledOnly => said(i).body[k].enabled}} :
                              i \in DOMAIN listed}
      IN  /\ total # Unavailable =>
               /\ Replied(topologyReply.networks)
               /\ \A i \in DOMAIN listed : Replied(said(i))
               /\ total = Cardinality(items)
          /\ topologyOk =>
               /\ total = Unavailable <=>
                    \E i \in DOMAIN topology :
                      NetworkTotal(topology[i].network.id, section, enabledOnly) = Unavailable
               /\ total = Unavailable <=> CompleteSections(section) < Len(topology)

(* A device is called what the service calls its peer, network or resource *)
(* now, or by its id if it has no name there, also after refreshes that    *)
(* failed or left it out (entity.py:60-79, topology_entity.py:131-145).    *)
NamesAreCurrent ==
    /\ peersOk => \A i \in DOMAIN peerReply.body :
         LET d == peerReply.body[i]
         IN  peerName[d.id] = IF d.name \in {Absent, Null, ""} THEN d.id ELSE d.name
    /\ topologyOk => \A i \in DOMAIN topologyReply.networks.body :
         LET d    == topologyReply.networks.body[i]
             said == topologyReply.resources[d.id]
         IN  /\ networkName[d.id] = d.name
             /\ NetworkIn(topology, d.id).resources # None =>
                  \A j \in DOMAIN said.body : resourceName[d.id][said.body[j].id] = said.body[j].name

(* What the live contract certifies is what the integration needs: replies *)
(* it accepts are never rejected, lose no section and leave no total and   *)
(* no group membership open - unless they repeat a peer id, have a network *)
(* id with a slash or an instant UTC cannot express, which the script does *)
(* not look at.  A network id that means something else in a path when it  *)
(* is not quoted (a "?", "#" or ".."; the script quotes ids, the client    *)
(* does not) is outside the ids of this model                              *)
(* (live_api_contract.py:112-212, 274, api.py:150-202).                    *)
ContractIsEnough ==
    /\ LET body == peerReply.body
       IN  (/\ Replied(peerReply) /\ ContractPeers(body) /\ DistinctIds(body)
            /\ \A i \in DOMAIN body : body[i].lastSeen \notin Unrepresentable)
           => peersOk /\ \A i \in DOMAIN peers : peers[i].groups # None
    /\ LET body == topologyReply.networks.body
       IN  (/\ Replied(topologyReply.networks) /\ ContractNetworks(body)
            /\ \A i \in DOMAIN body :
                 LET resources == topologyReply.resources[body[i].id]
                     routers   == topologyReply.routers[body[i].id]
                 IN  /\ body[i].id \notin Slashed
                     /\ Replied(resources) /\ ContractResources(resources.body)
                     /\ Replied(routers) /\ ContractRouters(routers.body))
           => topologyOk /\ LeftOut("resources") = {} /\ LeftOut("routers") = {}

(* A poll, a setup and a flow that get the same reply diagnose the same,   *)
(* the flow in more detail; all of them, and no other reply than a 401     *)
(* makes them, blame the token; a 404 means an old server to the flows     *)
(* that want the whole contract, and never an expired token                *)
(* (README.md:81, coordinator.py:86-106, __init__.py:132-151,              *)
(* config_flow.py:107-130).                                                *)
DiagnosesAgree ==
    LET e        == GetPeersError(peerReply)
        poll     == Handle(PollClauses, e)
        setup    == Handle(SetupClauses, e)
        flow(f)  == FlowError(e, peerReply.status, f)
        answered == peerReply.failure = "none"
    IN  /\ poll = "reauth" <=> answered /\ peerReply.status = 401
        /\ setup = IF poll = "deferred" THEN "cannot_connect" ELSE poll
        /\ \A full \in BOOLEAN :
             /\ flow(full) = "invalid_auth" <=> setup = "reauth"
             /\ flow(full) = "unsupported_server" <=>
                  full /\ answered /\ peerReply.status = 404
             /\ flow(full) \notin {"invalid_auth", setup} =>
                  setup = "cannot_connect"

(* "Treat an invalid optional timestamp as unknown, not a bad snapshot."   *)
(* (api.py:454): a peer list that could be used without its timestamps can *)
(* be used with them.                                                      *)
InvalidTimestampIsUnknown ==
    LET body == peerReply.body
    IN  (/\ Replied(peerReply) /\ Objects(body) /\ DistinctIds(body)
         /\ \A i \in DOMAIN body : PeerError([body[i] EXCEPT !.lastSeen = Absent]) = "none")
        => peersOk
=============================================================================
