--------------------------- MODULE MCEntityValues ---------------------------
(* An instance of EntityValues for TLC. *)
EXTENDS EntityValues

CONSTANTS t1, t2,     \* timestamps that have a UTC instant
          dawn,       \* one that has none, like 0001-01-01T00:00:00+01:00
          unreadable  \* a text that is no timestamp, or one without offset

MCTexts == {"a", "b", "g", "p1", "p2", "n1", "n2", "n/2", "r1", "r2", "q", "x", "y"}
             \cup {t1, t2, dawn, unreadable}
MCTimes == {t1, t2, dawn}
MCUnrepresentable == {dawn}

Body(items) == [failure |-> "none", status |-> 200, json |-> TRUE, body |-> items]
Answer(s)   == [failure |-> "none", status |-> s, json |-> FALSE, body |-> Malformed]
Fails(f)    == [failure |-> f, status |-> 0, json |-> FALSE, body |-> Malformed]

Statuses == {204, 302, 400, 401, 403, 404, 429, 500, 503}

(* Peers: every field takes every class of value, with the others good.    *)
Peer(p) == [id |-> p, name |-> "a", connected |-> TRUE, lastSeen |-> t1, groups |-> {"g"}]

PeerItems(p) ==
    {Peer(p)}
      \cup {[Peer(p) EXCEPT !.name = v] : v \in {Absent, Null, Malformed, "", "b"}}
      \cup {[Peer(p) EXCEPT !.connected = v] : v \in {Absent, Null, Malformed, FALSE}}
      \cup {[Peer(p) EXCEPT !.lastSeen = v] :
              v \in {Absent, Null, Malformed, unreadable, t2, dawn}}
      \cup {[Peer(p) EXCEPT !.groups = v] :
              v \in {Absent, Null, Malformed, {}, {"g", Blank}, {Malformed}}}
      \cup {[Peer(p) EXCEPT !.id = v] : v \in {Absent, Null, Malformed, Blank}}

TwoPeers ==
    {<<x, y>> : x \in {Peer("p1"), [Peer("p1") EXCEPT !.connected = FALSE], Malformed},
                y \in {Peer("p1"), Peer("p2"), [Peer("p2") EXCEPT !.name = Absent],
                       [Peer("p2") EXCEPT !.lastSeen = dawn]}}

MCPeerReplies ==
    {Body(Malformed), Body(<<>>)} \cup {Body(<<x>>) : x \in PeerItems("p1")}
      \cup {Body(xy) : xy \in TwoPeers} \cup {Fails(f) : f \in DOMAIN Failures}
      \cup {Answer(s) : s \in Statuses}

(* Topologies: the first network may be renamed or not be an object, its   *)
(* sections take every class of reply; the second one's id has a slash.    *)
Network(n, name) == [id |-> n, name |-> name]
Resource(r, on)  == [id |-> r, name |-> "a", address |-> "x", enabled |-> on]
Router           == [id |-> "q", enabled |-> TRUE, peer |-> "p1", peerGroups |-> Null]

Lists ==
    {<<>>, <<Network("n1", "a")>>, <<Network("n1", "b"), Network("n/2", "a")>>,
     <<Network("n1", "a"), Network("n2", "a")>>, <<Network("n2", "a"), Network("n1", "a")>>,
     <<Network("n1", Null)>>, <<Malformed, Network("n1", "a")>>}

ResourceSections ==
    {Fails("timeout"), Answer(429), Fails("other"), Body(Malformed), Body(<<>>),
     Body(<<Malformed>>), Body(<<Resource("r1", TRUE)>>), Body(<<Resource("r1", Absent)>>),
     Body(<<[Resource("r1", TRUE) EXCEPT !.name = "b", !.address = "y"],
            Resource("r2", FALSE)>>)}

RouterSections ==
    {Answer(500), Answer(401), Body(<<Router>>),
     Body(<<[Router EXCEPT !.enabled = FALSE, !.peer = Absent, !.peerGroups = {"g"}],
            Router>>),
     Body(<<[Router EXCEPT !.peerGroups = {Malformed}]>>)}

Plain(section) == IF section = "resources" THEN Body(<<Resource("r1", FALSE)>>)
                  ELSE Body(<<Router>>)

Topology(list, resources, routers) ==
    [networks  |-> list,
     resources |-> [n \in NetworkIds |-> IF n = "n1" THEN resources ELSE Plain("resources")],
     routers   |-> [n \in NetworkIds |-> IF n = "n1" THEN routers ELSE Plain("routers")]]

MCTopologyReplies ==
    {Topology(Body(<<Network("n1", "a"), Network("n2", "a")>>), x, y) :
       x \in ResourceSections, y \in RouterSections}
    \cup {Topology(list, Plain("resources"), Plain("routers")) :
            list \in {Body(l) : l \in Lists} \cup {Body(Malformed), Fails("tls")}}

(* No variable and no property relates the two coordinators here, so each  *)
(* is explored with the other one at rest.                                 *)
MCNext ==
    \/ topologyReply.networks = NoReply /\ PeerStep
    \/ peerReply = NoReply /\ TopologyStep

MCSpec == Init /\ [][MCNext]_vars
=============================================================================
