-------------------------- MODULE TopologyMonitor --------------------------
(***************************************************************************)
(* One config entry's view of its networks and their resources: the        *)
(* topology coordinator's outcomes (topology.py), the topology discovery   *)
(* closures of the two platforms (sensor.py, binary_sensor.py) and the     *)
(* cleanup of stale network and resource devices (topology_lifecycle.py).  *)
(* How one refresh produces its snapshot is module TopologyRefresh.        *)
(*                                                                         *)
(* As for peers, the end of a refresh is one step of the event loop:       *)
(* publish, tell the lifecycle, then tell the discovery listeners.         *)
(***************************************************************************)
EXTENDS Integers

CONSTANTS Networks,       \* network ids; each names the network's device
          Resources,      \* (network id, resource id) pairs, as devices
          NetworkOf,      \* the network of each resource
          Keys,           \* entity descriptions of a network or a resource
          RelinkTargets,  \* where a user or integration may move an entity
          Threshold,      \* STALE_PEER_SNAPSHOT_THRESHOLD
          Elsewhere,      \* "device" of an entity linked to none of ours
          NoEntity,       \* "device" of an entity that is not registered
          Omitted,        \* snapshot value of a network that is not listed
          Unknown         \* snapshot value of one whose section is None

ASSUME ThresholdAssumption == Threshold \in Nat \ {0}
ASSUME NetworkAssumption   == NetworkOf \in [Resources -> Networks]

(* Network and resource descriptions always hold unconditional entries.    *)
ASSUME KeyAssumption == Keys # {}

ASSUME NameAssumption ==
    /\ Networks \cap Resources = {}
    /\ Elsewhere \notin Networks \cup Resources
    /\ NoEntity \notin Networks \cup Resources \cup {Elsewhere}
    /\ Omitted # Unknown
    /\ \A R \in SUBSET Resources : R # Omitted /\ R # Unknown
    /\ RelinkTargets \subseteq Networks \cup Resources \cup {Elsewhere}

VARIABLES
    phase,       \* "unloaded", "starting" (platforms only), "running"
    ok,          \* coordinator.last_update_success
    data,        \* coordinator.data: the last successful snapshot
    discovered,  \* known_topology_entities and known_resource_entities
    known,       \* lifecycle._known_network_ids and ._known_resources
    missing,     \* lifecycle._network_missing and ._resource_missing
    link,        \* entity registry: the device of every registered entity
    devices,     \* device registry: networks and resources with a device
    foreign,     \* devices that other integrations' entities link to
    absent       \* history: run of omissions the service reported

vars == <<phase, ok, data, discovered, known, missing, link, devices, foreign, absent>>
registry == <<link, devices>>
tracking == <<known, missing>>

Nodes    == Networks \cup Resources
Entities == Nodes \X Keys

ResourcesOf(n) == {r \in Resources : NetworkOf[r] = n}

(* Every network is omitted, listed with an unknown resource section, or   *)
(* listed with the resources it has.                                       *)
Snapshots ==
    {s \in [Networks -> {Omitted, Unknown} \cup SUBSET Resources] :
        \A n \in Networks : s[n] \in {Omitted, Unknown} \/ s[n] \subseteq ResourcesOf(n)}

NoSnapshot == [n \in Networks |-> Omitted]

Complete(s) == {n \in Networks : s[n] \notin {Omitted, Unknown}}

(* The networks and resources a snapshot lists. *)
Listed(s) == {n \in Networks : s[n] # Omitted} \cup UNION {s[n] : n \in Complete(s)}

(* The networks and resources it says are not there: nothing is said of    *)
(* the resources of an omitted network or of an unknown section.           *)
Reported(s) ==
    {n \in Networks : s[n] = Omitted}
        \cup {r \in Resources : NetworkOf[r] \in Complete(s) /\ r \notin s[NetworkOf[r]]}

CountUp(n) == IF n < Threshold THEN n + 1 ELSE Threshold

TypeOK ==
    /\ phase \in {"unloaded", "starting", "running"}
    /\ ok \in BOOLEAN
    /\ data \in Snapshots
    /\ discovered \subseteq Entities
    /\ known \subseteq Nodes
    /\ missing \in [Nodes -> 0..Threshold]
    /\ link \in [Entities -> Nodes \cup {Elsewhere, NoEntity}]
    /\ devices \subseteq Nodes
    /\ foreign \subseteq devices
    /\ absent \in [Nodes -> 0..Threshold]

Init ==
    /\ phase = "unloaded" /\ ok = FALSE
    /\ data = NoSnapshot
    /\ discovered = {} /\ known = {}
    /\ missing = [x \in Nodes |-> 0]
    /\ link = [u \in Entities |-> NoEntity]
    /\ devices = {} /\ foreign = {}
    /\ absent = [x \in Nodes |-> 0]

-----------------------------------------------------------------------------
(* _cleanup_device: what may be removed under registry links lnk.          *)

(* A network's unique-id prefix covers the entities of its resources too.  *)
Under(x, d) == x = d \/ (x \in Resources /\ NetworkOf[x] = d)

Owned(d, lnk)    == {u \in Entities : lnk[u] # NoEntity /\ Under(u[1], d)}
LinkedTo(d, lnk) == {u \in Entities : lnk[u] = d}

MutantRemovable(d, lnk) ==
    d \in devices => LinkedTo(d, lnk) = Owned(d, lnk)

(* The entities linked to the device are the ones this entry owns under    *)
(* its identifier, all of them and no other; a device that is gone blocks  *)
(* nothing.                                                                *)
Removable(d, lnk) ==
    d \in devices => d \notin foreign /\ LinkedTo(d, lnk) = Owned(d, lnk)

-----------------------------------------------------------------------------
(* _handle.  The loop over the listed networks and the loop over the       *)
(* absent ones touch different resources; within each, a resource cleanup  *)
(* touches only its own device, and comes before its network's.            *)

Tracked(s) == known \cup Listed(s)

MutantMissed(s) == Tracked(s) \ Listed(s)

Missed(s) == known \cap Reported(s)

MutantCountsNoReset(s) ==
    [x \in Nodes |-> IF x \in Missed(s) THEN CountUp(missing[x]) ELSE missing[x]]

Counts(s) ==
    [x \in Nodes |-> CASE x \in Listed(s) -> 0
                       [] x \in Missed(s) -> CountUp(missing[x])
                       [] OTHER           -> missing[x]]

MutantDueOnce(s) == {x \in Missed(s) : missing[x] = Threshold - 1}

Due(s) == {x \in Missed(s) : Counts(s)[x] = Threshold}

DueResources(s) ==
    {r \in known \cap Resources : r \in Due(s) \/ NetworkOf[r] \in Due(s)}

CleanedResources(s) == {r \in DueResources(s) : Removable(r, link)}

Without(X, lnk) == [u \in Entities |-> IF u[1] \in X THEN NoEntity ELSE lnk[u]]

MutantCleanedNetworks(s) ==
    {n \in Due(s) \cap Networks : Removable(n, Without(ResourcesOf(n), link))}

(* _cleanup_network: only once no resource of the network has a device.    *)
CleanedNetworks(s) ==
    {n \in Due(s) \cap Networks :
        /\ ResourcesOf(n) \cap devices \subseteq CleanedResources(s)
        /\ Removable(n, Without(CleanedResources(s), link))}

Cleaned(s) == CleanedResources(s) \cup CleanedNetworks(s)

(* Removing a network removes every entity under it. *)
LinkAfterCleanup(s) ==
    Without(Cleaned(s) \cup {r \in Resources : NetworkOf[r] \in CleanedNetworks(s)}, link)

DevicesAfterCleanup(s) == devices \ Cleaned(s)

(* Counts outlive the cleanup: only a return in a snapshot clears them.    *)
Lifecycle(s) ==
    /\ known' = Tracked(s) \ Cleaned(s)
    /\ missing' = Counts(s)

-----------------------------------------------------------------------------
(* add_new_topology_entities and add_new_resource_entities: forget the     *)
(* entities that left the registry, make the device of every listed        *)
(* network, and add (or take up again) the entities that are not known.    *)

MutantStillKnown(lnk) == discovered

StillKnown(lnk) == {u \in discovered : lnk[u] # NoEntity}

Discover(s, lnk, devs) ==
    LET new == (Listed(s) \X Keys) \ StillKnown(lnk)
    IN  /\ discovered' = StillKnown(lnk) \cup new
        /\ link' = [u \in Entities |-> IF u \in new THEN u[1] ELSE lnk[u]]
        /\ devices' = devs \cup (Listed(s) \cap Networks) \cup {u[1] : u \in new}

NoDiscovery(lnk, devs) ==
    /\ link' = lnk
    /\ devices' = devs
    /\ UNCHANGED discovered

(* History: how often in a row the service said that x is not there.       *)
AbsentAfter(s) ==
    [x \in Nodes |-> CASE x \in Listed(s)   -> 0
                       [] x \in Reported(s) -> CountUp(absent[x])
                       [] OTHER             -> absent[x]]

-----------------------------------------------------------------------------
(* Setup of the entry up to its platforms.  Unlike the peers' first        *)
(* refresh, the first topology refresh may fail: there is no data yet.     *)
SetupPlatforms(s) ==
    /\ phase = "unloaded"
    /\ phase' = "starting" /\ ok' = TRUE /\ data' = s
    /\ absent' = AbsentAfter(s)
    /\ Discover(s, link, devices)
    /\ UNCHANGED <<tracking, foreign>>

SetupWithoutData ==
    /\ phase = "unloaded"
    /\ phase' = "starting"
    /\ UNCHANGED <<ok, data, discovered, tracking, registry, foreign, absent>>

MutantStartLifecycle ==
    /\ phase = "starting"
    /\ phase' = "running"
    /\ known' = Listed(data)
    /\ missing' = [x \in Nodes |-> 0]
    /\ UNCHANGED <<ok, data, discovered, registry, foreign, absent>>

(* async_setup_topology_lifecycle: track what the last snapshot and the    *)
(* identifiers in the device registry name; a resource names its network.  *)
StartLifecycle ==
    /\ phase = "starting"
    /\ phase' = "running"
    /\ known' = Listed(data) \cup devices
                  \cup {NetworkOf[r] : r \in devices \cap Resources}
    /\ missing' = [x \in Nodes |-> 0]
    /\ UNCHANGED <<ok, data, discovered, registry, foreign, absent>>

(* Unload, the first half of a reload, or a restart: memory goes.          *)
Unload ==
    /\ phase = "running"
    /\ phase' = "unloaded" /\ ok' = FALSE /\ data' = NoSnapshot
    /\ discovered' = {} /\ known' = {} /\ missing' = [x \in Nodes |-> 0]
    /\ UNCHANGED <<registry, foreign, absent>>

(* A successful refresh; "other" is a change in what is left out here.     *)
RefreshSucceeds(s, other) ==
    LET changed == ~ok \/ s # data \/ other
        running == phase = "running"
        lnk     == IF running THEN LinkAfterCleanup(s) ELSE link
        devs    == IF running THEN DevicesAfterCleanup(s) ELSE devices
    IN  /\ phase # "unloaded"
        /\ ok' = TRUE /\ data' = s
        /\ absent' = AbsentAfter(s)
        /\ IF running THEN Lifecycle(s) ELSE UNCHANGED tracking
        /\ IF changed THEN Discover(s, lnk, devs) ELSE NoDiscovery(lnk, devs)
        /\ UNCHANGED <<phase, foreign>>

(* A failed refresh keeps the old snapshot and tells nobody of it.         *)
RefreshFails ==
    /\ phase # "unloaded"
    /\ ok' = FALSE
    /\ UNCHANGED <<phase, data, discovered, tracking, registry, foreign, absent>>

-----------------------------------------------------------------------------
(* The rest of Home Assistant, as for peers. *)

AttachForeign(d) ==
    /\ d \in devices \ foreign
    /\ foreign' = foreign \cup {d}
    /\ UNCHANGED <<phase, ok, data, discovered, tracking, registry, absent>>

DetachForeign(d) ==
    /\ d \in foreign
    /\ foreign' = foreign \ {d}
    /\ UNCHANGED <<phase, ok, data, discovered, tracking, registry, absent>>

Relink(u, d) ==
    /\ link[u] # NoEntity
    /\ d # link[u]
    /\ d \in Nodes => d \in devices
    /\ link' = [link EXCEPT ![u] = d]
    /\ UNCHANGED <<phase, ok, data, discovered, tracking, devices, foreign, absent>>

-----------------------------------------------------------------------------
Setup   == SetupWithoutData \/ \E s \in Snapshots : SetupPlatforms(s)
Success == \E s \in Snapshots, other \in BOOLEAN : RefreshSucceeds(s, other)

Environment ==
    \/ \E d \in Nodes : AttachForeign(d) \/ DetachForeign(d)
    \/ \E u \in Entities, d \in RelinkTargets : Relink(u, d)

Next ==
    \/ Setup
    \/ StartLifecycle
    \/ Unload
    \/ Success
    \/ RefreshFails
    \/ Environment

Spec == Init /\ [][Next]_vars

(* The coordinator reschedules a poll after every refresh but a 401, and a *)
(* setup that began goes on.  Of the service and its user we assume that   *)
(* refreshes do not fail for ever: a 401 is in the end followed by a       *)
(* manual refresh or by the reload of a successful reauthentication.       *)
Fairness == WF_vars(Success) /\ WF_vars(StartLifecycle)

FairSpec == Spec /\ Fairness

-----------------------------------------------------------------------------
(* A resource's device never outlives its network's, and an entity is      *)
(* linked only to a device that exists and registered only while its own   *)
(* device does: cleanup in two levels leaves no half of either behind      *)
(* (topology_lifecycle.py:100-118, 146-149).                               *)
NoOrphans ==
    /\ \A r \in devices \cap Resources : NetworkOf[r] \in devices
    /\ \A u \in Entities : /\ link[u] \in Nodes => link[u] \in devices
                           /\ link[u] # NoEntity => u[1] \in devices

(* A count never exceeds the run of omissions the service reported: failed *)
(* refreshes and unknown sections do not advance it, and what the last     *)
(* snapshot lists has none (topology_lifecycle.py:70-79, 94).              *)
CountsAreEarned ==
    \A x \in Nodes :
        /\ missing[x] <= absent[x]
        /\ phase # "unloaded" /\ x \in Listed(data) => missing[x] = 0

(* The running lifecycle tracks exactly the networks and resources that    *)
(* have a device, also where a network's cleanup did only part of its work *)
(* and after a reload whose first topology refresh failed                  *)
(* (topology_lifecycle.py:26-55, 90, 102-104).                             *)
TrackingMatchesRegistry == phase = "running" => known = devices

(* What the published snapshot lists is registered, after a cleanup and a  *)
(* return too (sensor.py:196-251, binary_sensor.py:122-174).               *)
DiscoveryComplete ==
    phase # "unloaded" /\ ok =>
        \A x \in Listed(data), k \in Keys : x \in devices /\ link[<<x, k>>] # NoEntity

Safety ==
    /\ NoOrphans
    /\ CountsAreEarned
    /\ TrackingMatchesRegistry
    /\ DiscoveryComplete

(* A device goes only after Threshold consecutive reports that it is gone: *)
(* a network omitted from snapshots, a resource omitted from complete      *)
(* sections or its whole network omitted.  A snapshot that does not know a *)
(* network's resources removes none of them (topology_lifecycle.py:71-104).*)
RemovalIsEarned ==
    [][ \A d \in devices \ devices' :
          IF d \in Networks THEN absent'[d] = Threshold
          ELSE /\ data'[NetworkOf[d]] # Unknown
               /\ Threshold \in {absent'[d], absent'[NetworkOf[d]]} ]_vars

(* A removed device carried no foreign entity and no entity of another     *)
(* network or resource (topology_lifecycle.py:135-145).                    *)
RemovalIsExclusive ==
    [][ \A d \in devices \ devices' :
          d \notin foreign /\ \A u \in LinkedTo(d, link) : u[1] = d ]_vars

(* A network that stays away is in the end removed with all its resources, *)
(* and a resource whose sections keep being read without it is removed,    *)
(* unless a cleanup of theirs stays blocked: unknown sections in between   *)
(* and a block that went away after the threshold only delay it            *)
(* (topology_lifecycle.py:71, 82-90, 99-104).                              *)
StaleIsRemoved ==
    LET stale(x) == /\ phase = "running"
                    /\ x \notin Listed(data)
                    /\ Removable(x, Without(IF x \in Networks THEN ResourcesOf(x) ELSE {},
                                           link))
    IN  /\ \A r \in Resources :
              <>[]stale(r) /\ []<>(r \in Reported(data)) => <>[](r \notin devices)
        /\ \A n \in Networks :
              <>[](\A x \in {n} \cup ResourcesOf(n) : stale(x))
                  => <>[](devices \cap ({n} \cup ResourcesOf(n)) = {})

(* Towards networks the lifecycle keeps the promise made for peers. *)
Retention == INSTANCE PeerRetention
    WITH Peers <- Networks, registered <- devices \cap Networks,
         absence <- [n \in Networks |-> absent[n]]
NetworksKeepRetentionPromise == Retention!Spec
=============================================================================
