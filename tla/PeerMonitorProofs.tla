------------------------- MODULE PeerMonitorProofs -------------------------
(***************************************************************************)
(* What PeerMonitor guarantees for any peers, keys and threshold.          *)
(***************************************************************************)
EXTENDS PeerMonitor, TLAPS

(* Every peer of the current data has a device, also while a failed refresh*)
(* keeps that data unpublished.                                            *)
PresentRegistered == Present(data) \subseteq devices

(* Without a running lifecycle there is no tracking state. *)
IdleTracking ==
    /\ phase # "running" => missing = [p \in Peers |-> 0]
    /\ phase = "unloaded" => data = NoSnapshot

IInv == TypeOK /\ Safety /\ PresentRegistered /\ IdleTracking

-----------------------------------------------------------------------------
(* Counting up stays within the threshold and preserves order. *)
LEMMA CountUpBounds ==
    ASSUME NEW m \in 0..Threshold, NEW n \in 0..Threshold, m <= n
    PROVE  /\ CountUp(m) \in 0..Threshold
           /\ CountUp(m) <= CountUp(n)
  BY ThresholdAssumption DEF CountUp

(* In a consistent registry a peer that a refresh of the running lifecycle *)
(* cleans up involves exactly one device: its own.                         *)
LEMMA CleanedOwnsOneDevice ==
    ASSUME IInv, phase = "running", NEW s \in Snapshots, NEW p \in Cleaned(s)
    PROVE  /\ p \in devices
           /\ p \notin Present(s)
           /\ Associated(p) = {p}
           /\ p \notin foreign
           /\ LinkedTo(p) = Registered(p)
           /\ Counts(s)[p] = Threshold
  <1>1. p \in known /\ p \in Peers /\ p \notin Present(s) /\ Removable(p)
        /\ Counts(s)[p] = Threshold
    BY DEF Cleaned, Expired, Tracked, IInv, TypeOK, Present
  <1>2. p \in devices
    BY <1>1 DEF IInv, Safety, TrackingMatchesRegistry
  <1>3. Associated(p) = {p}
    BY <1>1, <1>2 DEF Removable, Associated
  <1> QED
    BY <1>1, <1>2, <1>3 DEF Removable

(* So a refresh removes the devices of the cleaned peers and no other. *)
LEMMA CleanupRemovesOwnDevices ==
    ASSUME IInv, phase = "running", NEW s \in Snapshots
    PROVE  /\ DevicesAfterCleanup(s) = devices \ Cleaned(s)
           /\ Cleaned(s) \subseteq devices
           /\ Cleaned(s) \cap Present(s) = {}
  <1>1. \A p \in Cleaned(s) : Associated(p) = {p} /\ p \in devices /\ p \notin Present(s)
    BY CleanedOwnsOneDevice
  <1>2. UNION {Associated(p) : p \in Cleaned(s)} = Cleaned(s)
    BY <1>1
  <1> QED
    BY <1>1, <1>2 DEF DevicesAfterCleanup

(* RegistryConsistent of any pair of registries. *)
Consistent(lnk, devs) ==
    \A u \in Entities :
        /\ lnk[u] \in Peers => lnk[u] \in devs
        /\ lnk[u] # NoEntity => u[1] \in devs

(* A cleanup leaves no entity behind that is linked to a device it removed.*)
LEMMA CleanupConsistent ==
    ASSUME IInv, phase = "running", NEW s \in Snapshots
    PROVE  /\ LinkAfterCleanup(s) \in [Entities -> Devices]
           /\ DevicesAfterCleanup(s) \subseteq Peers
           /\ Consistent(LinkAfterCleanup(s), DevicesAfterCleanup(s))
  <1>1. link \in [Entities -> Devices] /\ devices \subseteq Peers
    BY DEF IInv, TypeOK
  <1>2. LinkAfterCleanup(s) \in [Entities -> Devices]
    BY <1>1 DEF LinkAfterCleanup, Devices
  <1>3. ASSUME NEW u \in Entities, u[1] \notin Cleaned(s), link[u] \in Cleaned(s)
        PROVE  FALSE
    <2>1. LinkedTo(link[u]) = Registered(link[u])
      BY <1>3, CleanedOwnsOneDevice
    <2>2. u \in Registered(link[u])
      BY <2>1 DEF LinkedTo
    <2> QED
      BY <1>3, <2>2 DEF Registered
  <1>4. ASSUME NEW u \in Entities
        PROVE  /\ LinkAfterCleanup(s)[u] \in Peers
                     => LinkAfterCleanup(s)[u] \in devices \ Cleaned(s)
               /\ LinkAfterCleanup(s)[u] # NoEntity => u[1] \in devices \ Cleaned(s)
    <2>1. CASE u[1] \in Cleaned(s)
      BY <2>1, NameAssumption DEF LinkAfterCleanup
    <2>2. CASE u[1] \notin Cleaned(s)
      <3>1. LinkAfterCleanup(s)[u] = link[u]
        BY <2>2 DEF LinkAfterCleanup
      <3> QED
        BY <2>2, <3>1, <1>3 DEF IInv, Safety, RegistryConsistent
    <2> QED
      BY <2>1, <2>2
  <1> QED
    BY <1>1, <1>2, <1>4, CleanupRemovesOwnDevices DEF Consistent

(* Discovery keeps the registries consistent, gives every listed peer its  *)
(* device and registers every supported entity.                            *)
LEMMA DiscoverRegisters ==
    ASSUME NEW s \in Snapshots, NEW lnk \in [Entities -> Devices],
           NEW devs \in SUBSET Peers, Consistent(lnk, devs),
           discovered \subseteq Entities, Discover(s, lnk, devs)
    PROVE  /\ discovered' \subseteq Entities
           /\ link' \in [Entities -> Devices]
           /\ devices' = devs \cup Present(s)
           /\ Consistent(link', devices')
           /\ \A u \in Supported(s) : link'[u] # NoEntity
           /\ \A u \in Entities : lnk[u] # NoEntity => link'[u] # NoEntity
  <1> DEFINE new == Supported(s) \ StillKnown(lnk)
  <1>1. /\ discovered' = StillKnown(lnk) \cup new
        /\ link' = [u \in Entities |-> IF u \in new THEN u[1] ELSE lnk[u]]
        /\ devices' = devs \cup {u[1] : u \in new}
    BY DEF Discover
  <1>2. /\ Supported(s) \subseteq Entities
        /\ \A u \in Supported(s) : u[1] \in Present(s)
        /\ Present(s) \subseteq Peers
    BY DEF Supported, Entities, Present
  <1>3. discovered' \subseteq Entities
    BY <1>1, <1>2 DEF StillKnown
  <1>4. link' \in [Entities -> Devices]
    BY <1>1, <1>2 DEF Devices
  <1>5. \A p \in Present(s) : p \in devices'
    <2> SUFFICES ASSUME NEW p \in Present(s) PROVE p \in devices'
      OBVIOUS
    <2>1. PICK k \in RequiredKeys : TRUE
      BY KeyAssumption
    <2>2. <<p, k>> \in Supported(s)
      BY <1>2, KeyAssumption DEF Supported, Keys
    <2>3. CASE <<p, k>> \in new
      BY <1>1, <2>3
    <2>4. CASE <<p, k>> \in StillKnown(lnk)
      <3>1. lnk[<<p, k>>] # NoEntity
        BY <2>4 DEF StillKnown
      <3> QED
        BY <1>1, <1>2, <2>2, <3>1 DEF Consistent
    <2> QED
      BY <2>2, <2>3, <2>4
  <1>6. devices' = devs \cup Present(s)
    BY <1>1, <1>2, <1>5
  <1>7. ASSUME NEW u \in Entities
        PROVE  /\ link'[u] \in Peers => link'[u] \in devices'
               /\ link'[u] # NoEntity => u[1] \in devices'
    <2>1. CASE u \in new
      BY <1>1, <1>2, <1>6, <2>1
    <2>2. CASE u \notin new
      BY <1>1, <1>6, <2>2 DEF Consistent
    <2> QED
      BY <2>1, <2>2
  <1>8. ASSUME NEW u \in Supported(s) PROVE link'[u] # NoEntity
    <2>1. CASE u \in new
      BY <1>1, <1>2, <2>1, NameAssumption
    <2>2. CASE u \in StillKnown(lnk)
      BY <1>1, <1>2, <2>2 DEF StillKnown
    <2> QED
      BY <2>1, <2>2
  <1>9. ASSUME NEW u \in Entities, lnk[u] # NoEntity PROVE link'[u] # NoEntity
    BY <1>1, <1>2, <1>9, NameAssumption
  <1> QED
    BY <1>3, <1>4, <1>6, <1>7, <1>8, <1>9 DEF Consistent

-----------------------------------------------------------------------------
(* The effect on the history variable and the counts. *)

Absences(s) ==
    [p \in Peers |-> IF p \in Present(s) THEN 0 ELSE CountUp(absent[p])]

LEMMA AbsencesType ==
    ASSUME TypeOK, NEW s \in Snapshots
    PROVE  Absences(s) \in [Peers -> 0..Threshold]
  BY CountUpBounds, ThresholdAssumption DEF TypeOK, Absences

LEMMA LifecycleCounts ==
    ASSUME IInv, phase = "running", NEW s \in Snapshots, Lifecycle(s),
           NEW p \in Peers
    PROVE  /\ missing'[p] \in 0..Threshold
           /\ missing'[p] <= Absences(s)[p]
           /\ p \in Present(s) => missing'[p] = 0
           /\ missing'[p] = Threshold => p \in issues'
           /\ p \in Cleaned(s) => Absences(s)[p] = Threshold
  <1>1. /\ missing[p] \in 0..Threshold /\ absent[p] \in 0..Threshold
        /\ missing[p] <= absent[p]
        /\ known = devices /\ issues \subseteq devices
        /\ missing[p] = Threshold => p \in issues
    BY DEF IInv, TypeOK, Safety, CountsAreEarned, TrackingMatchesRegistry,
           RepairsAreCurrent, BlockedIsReported
  <1>2. missing'[p] = IF p \in Cleaned(s) THEN 0 ELSE Counts(s)[p]
    BY DEF Lifecycle
  <1>3. CountUp(missing[p]) \in 0..Threshold /\ CountUp(absent[p]) \in 0..Threshold
        /\ CountUp(missing[p]) <= CountUp(absent[p])
        /\ absent[p] <= CountUp(absent[p])
    BY <1>1, ThresholdAssumption DEF CountUp
  <1>4. Absences(s)[p] = IF p \in Present(s) THEN 0 ELSE CountUp(absent[p])
    BY DEF Absences
  <1>5. Counts(s)[p] = IF p \in Present(s) THEN 0
                       ELSE IF p \in known THEN CountUp(missing[p]) ELSE missing[p]
    BY DEF Counts, Tracked
  <1>6. p \in Cleaned(s) => Counts(s)[p] = Threshold /\ p \notin Present(s)
    BY CleanedOwnsOneDevice
  <1>7. ASSUME missing'[p] = Threshold PROVE p \in issues'
    <2>1. p \notin Cleaned(s) /\ Counts(s)[p] = Threshold /\ p \notin Present(s)
      BY <1>2, <1>5, <1>7, ThresholdAssumption
    <2>2. CASE p \in known
      BY <2>1, <2>2 DEF Lifecycle, RepairsAfter, Expired, Tracked
    <2>3. CASE p \notin known
      BY <1>1, <1>5, <2>1, <2>3
    <2> QED
      BY <2>2, <2>3
  <1>8. ASSUME p \in Cleaned(s) PROVE Absences(s)[p] = Threshold
    <2>1. p \notin Present(s) /\ p \in known
      BY <1>1, <1>8, CleanedOwnsOneDevice
    <2> QED
      BY <1>3, <1>4, <1>5, <1>6, <1>8, <2>1, ThresholdAssumption
  <1> QED
    BY <1>1, <1>2, <1>3, <1>4, <1>5, <1>7, <1>8, ThresholdAssumption

-----------------------------------------------------------------------------
(* One lemma per kind of step. *)

LEMMA NoSnapshotType == NoSnapshot \in Snapshots /\ Present(NoSnapshot) = {}
  BY DEF NoSnapshot, Snapshots, Present

LEMMA InitInv == Init => IInv
  <1> SUFFICES ASSUME Init PROVE IInv
    OBVIOUS
  <1> USE DEF Init
  <1>1. 0 \in 0..Threshold
    BY ThresholdAssumption
  <1>2. TypeOK
    BY <1>1, NoSnapshotType DEF TypeOK, Devices
  <1>3. Present(data) = {}
    BY NoSnapshotType
  <1>4. RegistryConsistent
    BY NameAssumption DEF RegistryConsistent
  <1>5. CountsAreEarned /\ BlockedIsReported
    BY ThresholdAssumption DEF CountsAreEarned, BlockedIsReported
  <1>6. RepairsAreCurrent /\ TrackingMatchesRegistry /\ DiscoveryComplete
    BY DEF RepairsAreCurrent, TrackingMatchesRegistry, DiscoveryComplete
  <1> QED
    BY <1>2, <1>3, <1>4, <1>5, <1>6
    DEF IInv, Safety, PresentRegistered, IdleTracking

LEMMA SetupInv ==
    ASSUME IInv, NEW s \in Snapshots, SetupPlatforms(s)
    PROVE  IInv'
  <1> USE DEF SetupPlatforms
  <1>1. /\ discovered' \subseteq Entities
        /\ link' \in [Entities -> Devices]
        /\ devices' = devices \cup Present(s)
        /\ Consistent(link', devices')
        /\ \A u \in Supported(s) : link'[u] # NoEntity
    <2>1. Consistent(link, devices)
      BY DEF IInv, Safety, RegistryConsistent, Consistent
    <2> QED
      BY <2>1, DiscoverRegisters DEF IInv, TypeOK
  <1>2. Present(s) \subseteq Peers
    BY DEF Present
  <1>3. absent' \in [Peers -> 0..Threshold]
    BY AbsencesType DEF IInv, Absences
  <1>4. TypeOK'
    BY <1>1, <1>2, <1>3 DEF IInv, TypeOK, tracking
  <1>5. missing' = [p \in Peers |-> 0]
    BY DEF IInv, IdleTracking, tracking
  <1>6. RegistryConsistent'
    BY <1>1 DEF RegistryConsistent, Consistent
  <1>7. CountsAreEarned'
    BY <1>3, <1>5 DEF CountsAreEarned
  <1>8. BlockedIsReported'
    BY <1>5, ThresholdAssumption DEF BlockedIsReported
  <1>9. RepairsAreCurrent'
    BY <1>1 DEF IInv, Safety, RepairsAreCurrent
  <1>10. DiscoveryComplete'
    BY <1>1 DEF DiscoveryComplete, Supported, Present
  <1>11. PresentRegistered'
    BY <1>1 DEF PresentRegistered, Present
  <1> QED
    BY <1>4, <1>5, <1>6, <1>7, <1>8, <1>9, <1>10, <1>11
    DEF IInv, Safety, TrackingMatchesRegistry, IdleTracking

LEMMA StartInv ==
    ASSUME IInv, StartLifecycle
    PROVE  IInv'
  <1> USE DEF StartLifecycle, coordinator
  <1>1. Present(data) \subseteq devices /\ devices \subseteq Peers
    BY DEF IInv, TypeOK, PresentRegistered
  <1>2. TypeOK'
    BY <1>1, ThresholdAssumption DEF IInv, TypeOK
  <1>3. RegistryConsistent'
    BY DEF IInv, Safety, RegistryConsistent
  <1>4. CountsAreEarned' /\ BlockedIsReported'
    BY ThresholdAssumption
    DEF IInv, TypeOK, Safety, CountsAreEarned, BlockedIsReported
  <1>5. RepairsAreCurrent'
    BY DEF IInv, Safety, RepairsAreCurrent, Present
  <1>6. TrackingMatchesRegistry'
    BY <1>1 DEF TrackingMatchesRegistry
  <1>7. DiscoveryComplete'
    BY DEF IInv, Safety, DiscoveryComplete, Supported, Present
  <1> QED
    BY <1>1, <1>2, <1>3, <1>4, <1>5, <1>6, <1>7
    DEF IInv, Safety, PresentRegistered, IdleTracking, Present

LEMMA UnloadInv ==
    ASSUME IInv, Unload
    PROVE  IInv'
  <1> USE DEF Unload, registry
  <1>1. TypeOK'
    <2>1. 0 \in 0..Threshold
      BY ThresholdAssumption
    <2> QED
      BY <2>1, NoSnapshotType DEF IInv, TypeOK
  <1>2. Safety'
    BY ThresholdAssumption
    DEF IInv, TypeOK, Safety, RegistryConsistent, CountsAreEarned,
        BlockedIsReported, RepairsAreCurrent, TrackingMatchesRegistry,
        DiscoveryComplete
  <1> QED
    BY <1>1, <1>2, NoSnapshotType DEF IInv, PresentRegistered, IdleTracking, Present

(* What a successful refresh makes of the registries, whether or not the   *)
(* discovery listeners are told.                                           *)
LEMMA RefreshRegistries ==
    ASSUME IInv, NEW s \in Snapshots, NEW other \in BOOLEAN,
           RefreshSucceeds(s, other)
    PROVE  /\ discovered' \subseteq Entities
           /\ link' \in [Entities -> Devices]
           /\ devices' = Present(s) \cup
                           (IF phase = "running" THEN devices \ Cleaned(s) ELSE devices)
           /\ Consistent(link', devices')
           /\ \A u \in Supported(s) : link'[u] # NoEntity
           /\ \A u \in Entities : link[u] # NoEntity /\ link'[u] = NoEntity
                                    => phase = "running" /\ u[1] \in Cleaned(s)
  <1> DEFINE running == phase = "running"
             lnk     == IF running THEN LinkAfterCleanup(s) ELSE link
             devs    == IF running THEN DevicesAfterCleanup(s) ELSE devices
             changed == ~ok \/ s # data \/ other
  <1>1. /\ phase # "unloaded" /\ UNCHANGED <<phase, foreign>>
        /\ polling' = TRUE /\ ok' = TRUE /\ data' = s
        /\ IF changed THEN Discover(s, lnk, devs) ELSE NoDiscovery(lnk, devs)
    BY DEF RefreshSucceeds
  <1>2. /\ lnk \in [Entities -> Devices] /\ devs \in SUBSET Peers
        /\ Consistent(lnk, devs)
    <2>1. CASE running
      BY <2>1, CleanupConsistent
    <2>2. CASE ~running
      BY <2>2 DEF IInv, TypeOK, Safety, RegistryConsistent, Consistent
    <2> QED
      BY <2>1, <2>2
  <1>3. /\ running => devs = devices \ Cleaned(s) /\ Cleaned(s) \subseteq devices
                      /\ Cleaned(s) \cap Present(s) = {}
        /\ ~running => devs = devices
    BY CleanupRemovesOwnDevices
  <1>4. /\ discovered' \subseteq Entities
        /\ link' \in [Entities -> Devices]
        /\ devices' = devs \cup Present(s)
        /\ Consistent(link', devices')
        /\ \A u \in Supported(s) : link'[u] # NoEntity
        /\ \A u \in Entities : lnk[u] # NoEntity => link'[u] # NoEntity
    <2>1. CASE changed
      <3>1. Discover(s, lnk, devs)
        BY <1>1, <2>1
      <3>2. discovered \subseteq Entities
        BY DEF IInv, TypeOK
      <3> HIDE DEF lnk, devs
      <3> QED
        BY <1>2, <3>1, <3>2, DiscoverRegisters
    <2>2. CASE ~changed
      <3>1. /\ link' = lnk /\ devices' = devs /\ discovered' = discovered
            /\ ok /\ s = data
        BY <1>1, <2>2 DEF NoDiscovery
      <3>2. Present(s) \subseteq devs
        BY <1>3, <3>1 DEF IInv, PresentRegistered
      <3>3. ASSUME NEW u \in Supported(s) PROVE lnk[u] # NoEntity
        <4>1. u \in Entities /\ u[1] \in Present(s) /\ link[u] # NoEntity
          BY <1>1, <3>1 DEF Supported, Present, Entities, IInv, Safety, DiscoveryComplete
        <4> QED
          BY <1>3, <4>1 DEF LinkAfterCleanup
      <3>4. discovered' \subseteq Entities
        BY <3>1 DEF IInv, TypeOK
      <3> HIDE DEF lnk, devs
      <3> QED
        BY <1>2, <3>1, <3>2, <3>3, <3>4
    <2> QED
      BY <2>1, <2>2
  <1>5. ASSUME NEW u \in Entities, link[u] # NoEntity, lnk[u] = NoEntity
        PROVE  running /\ u[1] \in Cleaned(s)
    BY <1>5 DEF LinkAfterCleanup
  <1> QED
    BY <1>3, <1>4, <1>5

LEMMA RefreshInv ==
    ASSUME IInv, NEW s \in Snapshots, NEW other \in BOOLEAN,
           RefreshSucceeds(s, other)
    PROVE  IInv'
  <1> DEFINE running == phase = "running"
             devs == IF running THEN devices \ Cleaned(s) ELSE devices
  <1>1. /\ phase # "unloaded" /\ UNCHANGED <<phase, foreign>>
        /\ polling' = TRUE /\ ok' = TRUE /\ data' = s
        /\ absent' = Absences(s)
        /\ IF running THEN Lifecycle(s) ELSE UNCHANGED <<tracking, issues>>
    BY DEF RefreshSucceeds, Absences
  <1>2. devs \in SUBSET Peers
    BY DEF IInv, TypeOK
  <1>3. running => Cleaned(s) \subseteq devices /\ Cleaned(s) \cap Present(s) = {}
    BY CleanupRemovesOwnDevices
  <1>4. /\ discovered' \subseteq Entities
        /\ link' \in [Entities -> Devices]
        /\ devices' = devs \cup Present(s)
        /\ Consistent(link', devices')
        /\ \A u \in Supported(s) : link'[u] # NoEntity
    BY RefreshRegistries
  <1>5. absent' \in [Peers -> 0..Threshold]
    BY <1>1, AbsencesType DEF IInv
  <1>6. Present(s) \subseteq Peers /\ devices \subseteq Peers /\ devices' \subseteq Peers
    BY <1>2, <1>4 DEF Present, IInv, TypeOK
  (* The tracking state of a running lifecycle. *)
  <1>7. ASSUME running
        PROVE  /\ known' = devices'
               /\ issues' \subseteq devices' /\ issues' \cap Present(s) = {}
               /\ missing' \in [Peers -> 0..Threshold]
               /\ \A p \in Peers : /\ missing'[p] <= absent'[p]
                                   /\ p \in Present(s) => missing'[p] = 0
                                   /\ missing'[p] = Threshold => p \in issues'
    <2>1. Lifecycle(s) /\ known = devices /\ issues \subseteq devices
      BY <1>1, <1>7 DEF IInv, Safety, TrackingMatchesRegistry, RepairsAreCurrent
    <2>2. known' = devices'
      BY <1>3, <1>4, <1>7, <2>1 DEF Lifecycle, Tracked
    <2>3. issues' \subseteq devices' /\ issues' \cap Present(s) = {}
      BY <1>3, <1>4, <1>7, <2>1 DEF Lifecycle, RepairsAfter, Expired, Tracked
    <2>4. \A p \in Peers : /\ missing'[p] \in 0..Threshold
                           /\ missing'[p] <= absent'[p]
                           /\ p \in Present(s) => missing'[p] = 0
                           /\ missing'[p] = Threshold => p \in issues'
      BY <1>1, <1>7, <2>1, LifecycleCounts
    <2>5. missing' \in [Peers -> 0..Threshold]
      BY <2>1, <2>4 DEF Lifecycle
    <2> QED
      BY <2>2, <2>3, <2>4, <2>5
  <1>8. ASSUME ~running
        PROVE  missing' = [p \in Peers |-> 0] /\ known' = known /\ issues' = issues
    BY <1>1, <1>8 DEF IInv, IdleTracking, tracking
  <1>9. foreign' \subseteq devices'
    <2>1. foreign' = foreign /\ foreign \subseteq devices
      BY <1>1 DEF IInv, TypeOK
    <2>2. running => foreign \cap Cleaned(s) = {}
      BY CleanedOwnsOneDevice
    <2> QED
      BY <1>3, <1>4, <2>1, <2>2
  <1>10. TypeOK'
    BY <1>1, <1>4, <1>5, <1>6, <1>7, <1>8, <1>9, ThresholdAssumption DEF IInv, TypeOK
  <1>11. RegistryConsistent'
    BY <1>4 DEF RegistryConsistent, Consistent
  <1>12. CountsAreEarned' /\ BlockedIsReported'
    BY <1>1, <1>5, <1>7, <1>8, ThresholdAssumption
    DEF CountsAreEarned, BlockedIsReported, Present
  <1>13. RepairsAreCurrent'
    BY <1>1, <1>3, <1>4, <1>7, <1>8 DEF IInv, Safety, RepairsAreCurrent, Present
  <1>14. TrackingMatchesRegistry'
    BY <1>1, <1>7 DEF TrackingMatchesRegistry
  <1>15. DiscoveryComplete'
    BY <1>1, <1>4 DEF DiscoveryComplete, Supported, Present
  <1>16. PresentRegistered' /\ IdleTracking'
    BY <1>1, <1>4, <1>8 DEF PresentRegistered, Present, IdleTracking
  <1> QED
    BY <1>10, <1>11, <1>12, <1>13, <1>14, <1>15, <1>16 DEF IInv, Safety

(* A failed refresh, authentication or not, touches neither counts nor     *)
(* registries.                                                             *)
LEMMA FailureInv ==
    ASSUME IInv, RefreshFails \/ AuthenticationFails
    PROVE  IInv'
  <1>1. /\ UNCHANGED <<phase, data, discovered, known, missing, link, devices,
                       issues, foreign, absent>>
        /\ polling' \in BOOLEAN /\ ok' = FALSE
    BY DEF RefreshFails, AuthenticationFails, tracking, registry
  <1>2. TypeOK'
    BY <1>1 DEF IInv, TypeOK
  <1>3. Safety'
    BY <1>1 DEF IInv, Safety, RegistryConsistent, CountsAreEarned,
                BlockedIsReported, RepairsAreCurrent, TrackingMatchesRegistry,
                DiscoveryComplete, Present
  <1> QED
    BY <1>1, <1>2, <1>3 DEF IInv, PresentRegistered, IdleTracking, Present

(* Foreign links and relinked entities: no own entity leaves the registry  *)
(* and none is linked to a device that is not there.                       *)
LEMMA EnvironmentInv ==
    ASSUME IInv, Environment
    PROVE  IInv'
  <1>1. /\ UNCHANGED <<phase, polling, ok, data, discovered, known, missing,
                       devices, issues, absent>>
        /\ foreign' \subseteq devices
    BY DEF Environment, AttachForeign, DetachForeign, Relink, coordinator,
           tracking, registry, IInv, TypeOK
  <1>2. /\ link' \in [Entities -> Devices]
        /\ \A u \in Entities : /\ link'[u] \in Peers => link'[u] \in devices
                               /\ link'[u] # NoEntity <=> link[u] # NoEntity
    <2>1. CASE UNCHANGED link
      BY <2>1 DEF IInv, TypeOK, Safety, RegistryConsistent
    <2>2. CASE \E v \in Entities, d \in RelinkTargets : Relink(v, d)
      <3>1. PICK v \in Entities, d \in RelinkTargets : Relink(v, d)
        BY <2>2
      <3>2. d \in Devices /\ d # NoEntity
        BY NameAssumption DEF Devices
      <3>3. link' = [link EXCEPT ![v] = d] /\ link[v] # NoEntity
            /\ (d \in Peers => d \in devices)
        BY <3>1 DEF Relink
      <3> QED
        BY <3>2, <3>3 DEF IInv, TypeOK, Safety, RegistryConsistent
    <2> QED
      BY <2>1, <2>2 DEF Environment, AttachForeign, DetachForeign, registry
  <1>3. TypeOK'
    BY <1>1, <1>2 DEF IInv, TypeOK
  <1>4. Safety'
    BY <1>1, <1>2
    DEF IInv, Safety, RegistryConsistent, CountsAreEarned, BlockedIsReported,
        RepairsAreCurrent, TrackingMatchesRegistry, DiscoveryComplete, Present,
        Supported, Entities
  <1> QED
    BY <1>1, <1>3, <1>4 DEF IInv, PresentRegistered, IdleTracking, Present

LEMMA NextInv == IInv /\ [Next]_vars => IInv'
  <1> SUFFICES ASSUME IInv, [Next]_vars PROVE IInv'
    OBVIOUS
  <1>1. CASE Setup
    BY <1>1, SetupInv DEF Setup
  <1>2. CASE StartLifecycle
    BY <1>2, StartInv
  <1>3. CASE Unload
    BY <1>3, UnloadInv
  <1>4. CASE Success
    BY <1>4, RefreshInv DEF Success
  <1>5. CASE RefreshFails \/ AuthenticationFails
    BY <1>5, FailureInv
  <1>6. CASE Environment
    BY <1>6, EnvironmentInv
  <1>7. CASE UNCHANGED vars
    BY <1>7 DEF vars, IInv, TypeOK, Safety, RegistryConsistent, CountsAreEarned,
                BlockedIsReported, RepairsAreCurrent, TrackingMatchesRegistry,
                DiscoveryComplete, PresentRegistered, IdleTracking, Present
  <1> QED
    BY <1>1, <1>2, <1>3, <1>4, <1>5, <1>6, <1>7 DEF Next

(* The inductive invariant of every run of the component. *)
THEOREM InvariantHolds == Spec => []IInv
  BY InitInv, NextInv, PTL DEF Spec

(* Type correctness. *)
THEOREM TypeCorrect == Spec => []TypeOK
  BY InvariantHolds, PTL DEF IInv

(* Counts are earned, blocked cleanups reported, Repairs current, tracking *)
(* equal to the registry and discovery complete, for any peers, entity     *)
(* descriptions and threshold.                                             *)
THEOREM SafetyHolds == Spec => []Safety
  BY InvariantHolds, PTL DEF IInv

(* No count exceeds the run of omissions of its peer.                      *)
THEOREM CountsEarned == Spec => []CountsAreEarned
  BY SafetyHolds, PTL DEF Safety

(* A peer that is due and could not be removed has a Repair, and every     *)
(* Repair is about a peer that has a device and is not listed.             *)
THEOREM RepairsFollow == Spec => []RepairsFollowCleanups
  BY SafetyHolds, PTL DEF Safety, RepairsFollowCleanups

(* Everything the published snapshot lists has its device and entities.    *)
THEOREM DiscoveryIsComplete == Spec => []DiscoveryComplete
  BY SafetyHolds, PTL DEF Safety

(* No cleanup leaves a half of a peer in the registries.                   *)
THEOREM RegistriesConsistent == Spec => []RegistryConsistent
  BY SafetyHolds, PTL DEF Safety

(* The running lifecycle tracks exactly the peers that have a device.      *)
THEOREM TrackingMatches == Spec => []TrackingMatchesRegistry
  BY SafetyHolds, PTL DEF Safety

-----------------------------------------------------------------------------
(* Removal.  Only a refresh of a running lifecycle takes anything out of   *)
(* the registries, and only what belongs to a peer it cleans up.           *)

Removals ==
    /\ \A p \in devices \ devices' :
          /\ absent'[p] = Threshold
          /\ p \notin foreign
          /\ \A u \in LinkedTo(p) : u[1] = p
    /\ \A u \in Entities : link[u] # NoEntity /\ link'[u] = NoEntity
                              => absent'[u[1]] = Threshold

LEMMA RefreshRemovals ==
    ASSUME IInv, NEW s \in Snapshots, NEW other \in BOOLEAN,
           RefreshSucceeds(s, other)
    PROVE  Removals
  <1>1. absent' = Absences(s) /\ (phase = "running" => Lifecycle(s))
    BY DEF RefreshSucceeds, Absences
  <1>2. ASSUME phase = "running", NEW p \in Cleaned(s)
        PROVE  /\ absent'[p] = Threshold
               /\ p \notin foreign
               /\ \A u \in LinkedTo(p) : u[1] = p
    <2>1. p \in Peers
      BY <1>2, CleanedOwnsOneDevice DEF IInv, TypeOK
    <2>2. absent'[p] = Threshold
      BY <1>1, <1>2, <2>1, LifecycleCounts
    <2>3. p \notin foreign /\ LinkedTo(p) = Registered(p)
      BY <1>2, CleanedOwnsOneDevice
    <2> QED
      BY <2>2, <2>3 DEF Registered
  <1>3. \A p \in devices \ devices' : phase = "running" /\ p \in Cleaned(s)
    BY RefreshRegistries
  <1>4. \A u \in Entities : link[u] # NoEntity /\ link'[u] = NoEntity
                               => phase = "running" /\ u[1] \in Cleaned(s)
    BY RefreshRegistries
  <1> QED
    BY <1>2, <1>3, <1>4 DEF Removals

LEMMA StepRemovals == IInv /\ [Next]_vars => Removals
  <1> SUFFICES ASSUME IInv, [Next]_vars PROVE Removals
    OBVIOUS
  <1>1. CASE Success
    BY <1>1, RefreshRemovals DEF Success
  <1>2. CASE Setup
    <2>1. PICK s \in Snapshots : SetupPlatforms(s)
      BY <1>2 DEF Setup
    <2>2. Consistent(link, devices) /\ discovered \subseteq Entities
          /\ link \in [Entities -> Devices] /\ devices \in SUBSET Peers
      BY DEF IInv, TypeOK, Safety, RegistryConsistent, Consistent
    <2>3. devices \subseteq devices'
          /\ \A u \in Entities : link[u] # NoEntity => link'[u] # NoEntity
      BY <2>1, <2>2, DiscoverRegisters DEF SetupPlatforms
    <2> QED
      BY <2>3 DEF Removals
  <1>3. CASE Environment
    <2>1. CASE \E u \in Entities, d \in RelinkTargets : Relink(u, d)
      <3>1. PICK v \in Entities, d \in RelinkTargets : Relink(v, d)
        BY <2>1
      <3>2. d # NoEntity /\ link' = [link EXCEPT ![v] = d] /\ devices' = devices
        BY <3>1, NameAssumption DEF Relink
      <3> QED
        BY <3>2 DEF Removals, IInv, TypeOK
    <2>2. CASE \E d \in Peers : AttachForeign(d) \/ DetachForeign(d)
      BY <2>2 DEF AttachForeign, DetachForeign, registry, Removals
    <2> QED
      BY <1>3, <2>1, <2>2 DEF Environment
  <1>4. CASE StartLifecycle \/ Unload \/ RefreshFails \/ AuthenticationFails
             \/ UNCHANGED vars
    <2>1. UNCHANGED <<link, devices>>
      BY <1>4 DEF StartLifecycle, Unload, RefreshFails, AuthenticationFails, vars,
                  registry
    <2> QED
      BY <2>1 DEF Removals
  <1> QED
    BY <1>1, <1>2, <1>3, <1>4 DEF Next

(* Nothing leaves the registries before Threshold consecutive successful   *)
(* snapshots have omitted the peer, across reloads and failures.           *)
THEOREM RemovalEarned == Spec => RemovalIsEarned
  <1>1. IInv /\ [Next]_vars
          => [ /\ \A p \in devices \ devices' : absent'[p] = Threshold
               /\ \A u \in Entities : link[u] # NoEntity /\ link'[u] = NoEntity
                                         => absent'[u[1]] = Threshold ]_vars
    BY StepRemovals DEF Removals
  <1> QED
    BY <1>1, InvariantHolds, PTL DEF Spec, RemovalIsEarned

(* A cleanup takes nothing that belongs to another integration or peer.    *)
THEOREM RemovalExclusive == Spec => RemovalIsExclusive
  <1>1. IInv /\ [Next]_vars
          => [ \A d \in devices \ devices' :
                 d \notin foreign /\ \A u \in LinkedTo(d) : u[1] = d ]_vars
    BY StepRemovals DEF Removals
  <1> QED
    BY <1>1, InvariantHolds, PTL DEF Spec, RemovalIsExclusive

(* Every step is a snapshot step of PeerRetention or leaves it unchanged.  *)
LEMMA StepRetains ==
    IInv /\ [Next]_vars => [Retention!Next]_(Retention!vars)
  <1> SUFFICES ASSUME IInv, [Next]_vars
               PROVE  Retention!Next \/ UNCHANGED <<devices, absent>>
    BY DEF Retention!vars
  <1>1. Removals
    BY StepRemovals
  <1>2. ASSUME NEW s \in Snapshots, absent' = Absences(s),
               Present(s) \subseteq devices', devices' \subseteq devices \cup Present(s)
        PROVE  Retention!Next
    <2>1. Present(s) \in SUBSET Peers
      BY DEF Present
    <2>2. Retention!Snapshot(Present(s))
      BY <1>1, <1>2 DEF Removals, Retention!Snapshot, Absences, CountUp
    <2> QED
      BY <2>1, <2>2 DEF Retention!Next
  <1>3. CASE Success
    <2>1. PICK s \in Snapshots, other \in BOOLEAN : RefreshSucceeds(s, other)
      BY <1>3 DEF Success
    <2>2. absent' = Absences(s)
      BY <2>1 DEF RefreshSucceeds, Absences
    <2>3. Present(s) \subseteq devices' /\ devices' \subseteq devices \cup Present(s)
      BY <2>1, RefreshRegistries
    <2> QED
      BY <1>2, <2>2, <2>3
  <1>4. CASE Setup
    <2>1. PICK s \in Snapshots : SetupPlatforms(s)
      BY <1>4 DEF Setup
    <2>2. absent' = Absences(s)
      BY <2>1 DEF SetupPlatforms, Absences
    <2>3. Consistent(link, devices) /\ discovered \subseteq Entities
          /\ link \in [Entities -> Devices] /\ devices \in SUBSET Peers
      BY DEF IInv, TypeOK, Safety, RegistryConsistent, Consistent
    <2>4. devices' = devices \cup Present(s)
      BY <2>1, <2>3, DiscoverRegisters DEF SetupPlatforms
    <2> QED
      BY <1>2, <2>2, <2>4
  <1>5. CASE StartLifecycle \/ Unload \/ RefreshFails \/ AuthenticationFails
             \/ Environment \/ UNCHANGED vars
    BY <1>5 DEF StartLifecycle, Unload, RefreshFails, AuthenticationFails,
                Environment, AttachForeign, DetachForeign, Relink, vars, registry
  <1> QED
    BY <1>3, <1>4, <1>5 DEF Next

(* PeerMonitor implements PeerRetention. *)
THEOREM RefinesRetention == Spec => KeepsRetentionPromise
  <1>1. Init => Retention!Init
    BY DEF Init, Retention!Init
  <1> QED
    BY <1>1, StepRetains, InvariantHolds, PTL
    DEF Spec, KeepsRetentionPromise, Retention!Spec
=============================================================================
