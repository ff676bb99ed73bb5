---------------------------- MODULE PeerMonitor ----------------------------
(***************************************************************************)
(* One NetBird config entry's view of its peers: the peer coordinator      *)
(* (coordinator.py), the discovery closures of the sensor and binary       *)
(* sensor platforms, the stale-peer lifecycle (lifecycle.py) and the part  *)
(* of Home Assistant's entity, device and issue registries they share.     *)
(*                                                                         *)
(* Every callback runs on the event loop without awaiting, so the end of a *)
(* refresh is one step: publish the result, tell the lifecycle, then tell  *)
(* the discovery listeners if Home Assistant's coordinator would.          *)
(***************************************************************************)
EXTENDS Integers

CONSTANTS Peers,          \* peer ids; a peer's own device is named by its id
          RequiredKeys,   \* entity descriptions every peer gets
          OptionalKeys,   \* descriptions created once their value is present
          OtherDevices,   \* devices of other config entries
          RelinkTargets,  \* where a user or integration may move an entity
          Threshold,      \* STALE_PEER_SNAPSHOT_THRESHOLD
          NoDevice,       \* device_id of an entity linked to no device
          NoEntity,       \* "device" of an entity that is not registered
          Omitted         \* snapshot value of a peer the service did not list

ASSUME ThresholdAssumption == Threshold \in Nat \ {0}

(* PEER_DESCRIPTIONS and DESCRIPTIONS always hold unconditional entries. *)
ASSUME KeyAssumption == RequiredKeys # {} /\ RequiredKeys \cap OptionalKeys = {}

ASSUME NameAssumption ==
    /\ NoDevice \notin Peers \cup OtherDevices
    /\ NoEntity \notin Peers \cup OtherDevices \cup {NoDevice}
    /\ Peers \cap OtherDevices = {}
    /\ \A v \in [OptionalKeys -> BOOLEAN] : v # Omitted
    /\ RelinkTargets \subseteq Peers \cup OtherDevices \cup {NoDevice}

VARIABLES
    phase,       \* "unloaded", "starting" (platforms only), "running"
    polling,     \* the coordinator has a next poll scheduled
    ok,          \* coordinator.last_update_success
    data,        \* coordinator.data: the last successful snapshot
    discovered,  \* known_entities of the two platforms' discovery closures
    known,       \* lifecycle._known_peer_ids
    missing,     \* lifecycle._missing_counts, 0 where there is no entry
    link,        \* entity registry: the device of every registered entity
    devices,     \* device registry: peers whose own device exists
    foreign,     \* own devices that other integrations' entities link to
    issues,      \* issue registry: peers with a blocked-cleanup Repair
    absent       \* history: run of successful snapshots omitting each peer

coordinator == <<polling, ok, data>>
tracking    == <<known, missing>>
registry    == <<link, devices, issues>>
vars == <<phase, polling, ok, data, discovered, known, missing, link, devices,
          foreign, issues, absent>>

Keys     == RequiredKeys \cup OptionalKeys
Entities == Peers \X Keys
Devices  == Peers \cup OtherDevices \cup {NoDevice, NoEntity}

(* A snapshot says of every listed peer which optional values it has. *)
Snapshots  == [Peers -> {Omitted} \cup [OptionalKeys -> BOOLEAN]]
NoSnapshot == [p \in Peers |-> Omitted]
Present(s) == {p \in Peers : s[p] # Omitted}

CountUp(n) == IF n < Threshold THEN n + 1 ELSE Threshold

TypeOK ==
    /\ phase \in {"unloaded", "starting", "running"}
    /\ polling \in BOOLEAN
    /\ ok \in BOOLEAN
    /\ data \in Snapshots
    /\ discovered \subseteq Entities
    /\ known \subseteq Peers
    /\ missing \in [Peers -> 0..Threshold]
    /\ link \in [Entities -> Devices]
    /\ devices \subseteq Peers
    /\ foreign \subseteq devices
    /\ issues \subseteq Peers
    /\ absent \in [Peers -> 0..Threshold]

Init ==
    /\ phase = "unloaded" /\ polling = FALSE /\ ok = FALSE
    /\ data = NoSnapshot
    /\ discovered = {} /\ known = {}
    /\ missing = [p \in Peers |-> 0]
    /\ link = [u \in Entities |-> NoEntity]
    /\ devices = {} /\ foreign = {} /\ issues = {}
    /\ absent = [p \in Peers |-> 0]

-----------------------------------------------------------------------------
(* The registries as the cleanup reads them.                               *)

Registered(p) == {u \in {p} \X Keys : link[u] # NoEntity}

LinkedTo(d) == {u \in Entities : link[u] = d}

(* Devices of the peer's entities, and the device its identifier names. *)
Associated(p) ==
    ({link[u] : u \in Registered(p)} \ {NoDevice}) \cup ({p} \cap devices)

MutantRemovableIgnoresOthers(p) ==
    /\ \A d, e \in Associated(p) : d = e
    /\ \A d \in Associated(p) : d \in devices /\ d \notin foreign

(* _cleanup_peer goes ahead only when at most one device is involved, this *)
(* entry owns it, and the entities linked to it are the peer's, all of     *)
(* them and no other.                                                      *)
Removable(p) ==
    /\ \A d, e \in Associated(p) : d = e
    /\ \A d \in Associated(p) :
         /\ d \in devices
         /\ d \notin foreign
         /\ LinkedTo(d) = Registered(p)

-----------------------------------------------------------------------------
(* _handle_successful_refresh.  The cleanups of one snapshot do not affect *)
(* one another: each removes one device, and only entities linked to it.   *)

Tracked(s) == known \cup Present(s)

MutantCountsNoReset(s) ==
    [p \in Peers |-> IF p \in Tracked(s) \ Present(s) THEN CountUp(missing[p])
                     ELSE missing[p]]

Counts(s) ==
    [p \in Peers |-> CASE p \in Present(s)              -> 0
                       [] p \in Tracked(s) \ Present(s) -> CountUp(missing[p])
                       [] OTHER                         -> missing[p]]

MutantExpiredOnce(s) ==
    {p \in Tracked(s) \ Present(s) : missing[p] = Threshold - 1}

MutantExpiredEarly(s) ==
    {p \in Tracked(s) \ Present(s) : Counts(s)[p] >= Threshold - 1}

Expired(s) == {p \in Tracked(s) \ Present(s) : Counts(s)[p] = Threshold}
Cleaned(s) == {p \in Expired(s) : Removable(p)}

MutantEntitiesKept(s) == link

LinkAfterCleanup(s) ==
    [u \in Entities |-> IF u[1] \in Cleaned(s) THEN NoEntity ELSE link[u]]
DevicesAfterCleanup(s) ==
    devices \ UNION {Associated(p) : p \in Cleaned(s)}

MutantRepairsKeptOnReturn(s) ==
    (issues \ Cleaned(s)) \cup (Expired(s) \ Cleaned(s))

RepairsAfter(s) ==
    (issues \ (Present(s) \cup Cleaned(s))) \cup (Expired(s) \ Cleaned(s))

Lifecycle(s) ==
    /\ known' = Tracked(s) \ Cleaned(s)
    /\ missing' = [p \in Peers |-> IF p \in Cleaned(s) THEN 0 ELSE Counts(s)[p]]
    /\ issues' = RepairsAfter(s)

-----------------------------------------------------------------------------
(* add_new_peer_entities and add_new_entities: forget identities that left *)
(* the entity registry, then add what the snapshot supports and is not     *)
(* known.  Adding an entity creates its device or reuses it, and (re)links *)
(* the registry entry to it.                                               *)

Supported(s) ==
    {u \in Present(s) \X Keys : u[2] \in OptionalKeys => s[u[1]][u[2]]}

MutantRemembersRemoved(lnk) == discovered

StillKnown(lnk) == {u \in discovered : lnk[u] # NoEntity}

Discover(s, lnk, devs) ==
    LET new == Supported(s) \ StillKnown(lnk)
    IN  /\ discovered' = StillKnown(lnk) \cup new
        /\ link' = [u \in Entities |-> IF u \in new THEN u[1] ELSE lnk[u]]
        /\ devices' = devs \cup {u[1] : u \in new}

NoDiscovery(lnk, devs) ==
    /\ link' = lnk
    /\ devices' = devs
    /\ UNCHANGED discovered

-----------------------------------------------------------------------------
(* async_setup_entry up to and including the platforms: a fresh            *)
(* coordinator whose first refresh succeeded, and empty discovery closures *)
(* that run once.  A setup whose first refresh fails leaves no trace here. *)
SetupPlatforms(s) ==
    /\ phase = "unloaded"
    /\ phase' = "starting"
    /\ polling' = TRUE /\ ok' = TRUE /\ data' = s
    /\ absent' = [p \in Peers |-> IF p \in Present(s) THEN 0 ELSE CountUp(absent[p])]
    /\ Discover(s, link, devices)
    /\ UNCHANGED <<tracking, foreign, issues>>

(* async_setup_peer_lifecycle: track what the device registry and the      *)
(* current data name, with no counts, and clear the Repairs of peers there.*)
MutantTracksPresentOnly ==
    /\ phase = "starting"
    /\ phase' = "running"
    /\ known' = Present(data)
    /\ missing' = [p \in Peers |-> 0]
    /\ issues' = issues \ Present(data)
    /\ UNCHANGED <<coordinator, discovered, link, devices, foreign, absent>>

StartLifecycle ==
    /\ phase = "starting"
    /\ phase' = "running"
    /\ known' = devices \cup Present(data)
    /\ missing' = [p \in Peers |-> 0]
    /\ issues' = issues \ Present(data)
    /\ UNCHANGED <<coordinator, discovered, link, devices, foreign, absent>>

(* Unloading the entry, a reload's first half, or a restart of Home        *)
(* Assistant: runtime memory goes, the registries stay.                    *)
Unload ==
    /\ phase = "running"
    /\ phase' = "unloaded"
    /\ polling' = FALSE /\ ok' = FALSE /\ data' = NoSnapshot
    /\ discovered' = {} /\ known' = {}
    /\ missing' = [p \in Peers |-> 0]
    /\ UNCHANGED <<registry, foreign, absent>>

(* A successful refresh, scheduled or requested.  The lifecycle hears of   *)
(* every one, the discovery listeners only when success or data changed    *)
(* (always_update=False); "other" is a change in fields left out here.     *)
RefreshSucceeds(s, other) ==
    LET changed == ~ok \/ s # data \/ other
        running == phase = "running"
        lnk     == IF running THEN LinkAfterCleanup(s) ELSE link
        devs    == IF running THEN DevicesAfterCleanup(s) ELSE devices
    IN  /\ phase # "unloaded"
        /\ polling' = TRUE /\ ok' = TRUE /\ data' = s
        /\ absent' = [p \in Peers |->
                        IF p \in Present(s) THEN 0 ELSE CountUp(absent[p])]
        /\ IF running THEN Lifecycle(s) ELSE UNCHANGED <<tracking, issues>>
        /\ IF changed THEN Discover(s, lnk, devs) ELSE NoDiscovery(lnk, devs)
        /\ UNCHANGED <<phase, foreign>>

(* Any other error: the old data stays but is not published. *)
RefreshFails ==
    /\ phase # "unloaded"
    /\ polling' = TRUE /\ ok' = FALSE
    /\ UNCHANGED <<phase, data, discovered, tracking, registry, foreign, absent>>

(* HTTP 401: Home Assistant starts reauthentication and stops polling.     *)
AuthenticationFails ==
    /\ phase # "unloaded"
    /\ polling' = FALSE /\ ok' = FALSE
    /\ UNCHANGED <<phase, data, discovered, tracking, registry, foreign, absent>>

-----------------------------------------------------------------------------
(* The rest of Home Assistant: other integrations attach entities to our   *)
(* devices, and the registries may move our entities between devices.      *)

AttachForeign(d) ==
    /\ d \in devices \ foreign
    /\ foreign' = foreign \cup {d}
    /\ UNCHANGED <<phase, coordinator, discovered, tracking, registry, absent>>

DetachForeign(d) ==
    /\ d \in foreign
    /\ foreign' = foreign \ {d}
    /\ UNCHANGED <<phase, coordinator, discovered, tracking, registry, absent>>

Relink(u, d) ==
    /\ link[u] # NoEntity
    /\ d # link[u]
    /\ d \in Peers => d \in devices
    /\ link' = [link EXCEPT ![u] = d]
    /\ UNCHANGED <<phase, coordinator, discovered, tracking, devices, foreign,
                   issues, absent>>

-----------------------------------------------------------------------------
Setup   == \E s \in Snapshots : SetupPlatforms(s)
Success == \E s \in Snapshots, other \in BOOLEAN : RefreshSucceeds(s, other)
ScheduledSuccess == polling /\ Success

Environment ==
    \/ \E d \in Peers : AttachForeign(d) \/ DetachForeign(d)
    \/ \E u \in Entities, d \in RelinkTargets : Relink(u, d)

Next ==
    \/ Setup
    \/ StartLifecycle
    \/ Unload
    \/ Success
    \/ RefreshFails
    \/ AuthenticationFails
    \/ Environment

Spec == Init /\ [][Next]_vars

(* The coordinator reschedules a poll after every refresh that was not a   *)
(* 401, and a setup that began goes on; of the service we assume only that *)
(* it does not fail for ever.                                              *)
Fairness == WF_vars(ScheduledSuccess) /\ WF_vars(StartLifecycle)

FairSpec == Spec /\ Fairness

-----------------------------------------------------------------------------
(* The registries agree: an own entity is only ever linked to a device     *)
(* that exists, and a peer with entities has its own device, so no cleanup *)
(* leaves half a peer behind (lifecycle.py:121-124).                       *)
RegistryConsistent ==
    \A u \in Entities :
        /\ link[u] \in Peers => link[u] \in devices
        /\ link[u] # NoEntity => u[1] \in devices

(* The lifecycle never counts an omission that did not happen: a count is  *)
(* at most the run of successful snapshots that omitted the peer, and a    *)
(* listed peer has none (lifecycle.py:62, coordinator.py:80).              *)
CountsAreEarned ==
    \A p \in Peers :
        /\ missing[p] <= absent[p]
        /\ phase # "unloaded" /\ p \in Present(data) => missing[p] = 0

(* A cleanup that is due and blocked is never silent: a running entry has  *)
(* a Repair for every peer whose count reached the threshold               *)
(* (lifecycle.py:72-73, 99-118).                                           *)
BlockedIsReported ==
    \A p \in Peers : missing[p] = Threshold => p \in issues

(* A Repair always speaks of a peer that still has a device and that the   *)
(* last successful snapshot omitted (lifecycle.py:63, 128).                *)
RepairsAreCurrent ==
    /\ issues \subseteq devices
    /\ phase = "running" => issues \cap Present(data) = {}

(* The Repairs follow every cleanup: there is one for whatever was due and *)
(* refused, also while it is retried, and none is left once the peer is    *)
(* removed or listed again, however reloads and restarts come in between   *)
(* (lifecycle.py:63, 72-73, 99-118, 128).                                  *)
RepairsFollowCleanups == BlockedIsReported /\ RepairsAreCurrent

(* The running lifecycle tracks exactly the peers that have a device: a    *)
(* reload, which reseeds from the device registry, forgets no peer and     *)
(* invents none (lifecycle.py:31-43, 126).                                 *)
TrackingMatchesRegistry == phase = "running" => known = devices

(* Every entity the published snapshot supports is registered, for a peer  *)
(* that returns after its cleanup too (sensor.py:153-181,                  *)
(* binary_sensor.py:76-107).                                               *)
DiscoveryComplete ==
    phase # "unloaded" /\ ok => \A u \in Supported(data) : link[u] # NoEntity

Safety ==
    /\ RegistryConsistent
    /\ CountsAreEarned
    /\ BlockedIsReported
    /\ RepairsAreCurrent
    /\ TrackingMatchesRegistry
    /\ DiscoveryComplete

(* Registry data is removed only when Threshold consecutive successful     *)
(* snapshots omitted the peer, the one being handled included: reloads and *)
(* failed refreshes never shorten the run (README.md:91).                  *)
RemovalIsEarned ==
    [][ /\ \A p \in devices \ devices' : absent'[p] = Threshold
        /\ \A u \in Entities : link[u] # NoEntity /\ link'[u] = NoEntity
                                  => absent'[u[1]] = Threshold ]_vars

(* A removed device carried nothing of anybody else: no other integration's*)
(* entity and no other peer's (lifecycle.py:107-118).                      *)
RemovalIsExclusive ==
    [][ \A d \in devices \ devices' :
          d \notin foreign /\ \A u \in LinkedTo(d) : u[1] = d ]_vars

(* The implementation keeps the promise of PeerRetention. *)
Retention == INSTANCE PeerRetention WITH registered <- devices, absence <- absent
KeepsRetentionPromise == Retention!Spec

(* While successful snapshots keep coming, a peer they omit for good is in *)
(* the end cleaned up or reported, and if nothing blocks its cleanup it is *)
(* cleaned up (lifecycle.py:66-73).                                        *)
StaleIsResolved ==
    \A p \in Peers :
        LET gone == phase = "running" /\ polling /\ p \notin Present(data)
        IN  /\ <>[]gone => <>[](p \notin devices \/ p \in issues)
            /\ <>[](gone /\ Removable(p)) => <>[](p \notin devices)
=============================================================================
