------------------------ MODULE TopologyMonitorProofs ------------------------
(***************************************************************************)
(* What TopologyMonitor guarantees for any networks, resources, keys and   *)
(* threshold.                                                              *)
(***************************************************************************)
EXTENDS TopologyMonitor, TLAPS

(* What the current data lists has a device, also while a failed refresh   *)
(* keeps that data unpublished.                                            *)
ListedRegistered == Listed(data) \subseteq devices

(* Without a running lifecycle there is no tracking state. *)
IdleTracking ==
    /\ phase # "running" => missing = [x \in Nodes |-> 0]
    /\ phase = "unloaded" => data = NoSnapshot

IInv == TypeOK /\ Safety /\ ListedRegistered /\ IdleTracking

(* NoOrphans of any pair of registries. *)
Consistent(lnk, devs) ==
    /\ \A r \in devs \cap Resources : NetworkOf[r] \in devs
    /\ \A u \in Entities : /\ lnk[u] \in Nodes => lnk[u] \in devs
                           /\ lnk[u] # NoEntity => u[1] \in devs

-----------------------------------------------------------------------------
(* Snapshots. *)

LEMMA CountUpBounds ==
    ASSUME NEW m \in 0..Threshold, NEW n \in 0..Threshold, m <= n
    PROVE  /\ CountUp(m) \in 0..Threshold
           /\ n <= CountUp(n)
           /\ CountUp(m) <= CountUp(n)
  BY ThresholdAssumption DEF CountUp

(* A snapshot that lists a resource lists its network, knowing its section;*)
(* what it lists it does not report gone.                                  *)
LEMMA ListedFacts ==
    ASSUME NEW s \in Snapshots
    PROVE  /\ Listed(s) \subseteq Nodes
           /\ \A n \in Networks : n \in Listed(s) <=> s[n] # Omitted
           /\ \A r \in Resources : r \in Listed(s) <=>
                /\ NetworkOf[r] \in Complete(s)
                /\ r \in s[NetworkOf[r]]
           /\ \A r \in Resources \cap Listed(s) : NetworkOf[r] \in Listed(s)
           /\ Listed(s) \cap Reported(s) = {}
  <1>1. ASSUME NEW n \in Complete(s)
        PROVE  n \in Networks /\ s[n] # Omitted /\ s[n] # Unknown /\ s[n] \subseteq ResourcesOf(n)
    BY DEF Complete, Snapshots
  <1>2. ASSUME NEW r \in Resources
        PROVE  r \in Listed(s) <=> NetworkOf[r] \in Complete(s) /\ r \in s[NetworkOf[r]]
    BY <1>1, NameAssumption DEF Listed, ResourcesOf
  <1>3. ASSUME NEW n \in Networks PROVE n \in Listed(s) <=> s[n] # Omitted
    BY <1>1, NameAssumption DEF Listed, ResourcesOf
  <1>4. Listed(s) \subseteq Nodes
    BY <1>1 DEF Listed, Nodes, ResourcesOf
  <1>5. \A r \in Resources \cap Listed(s) : NetworkOf[r] \in Listed(s)
    BY <1>1, <1>2, <1>3
  <1>6. Listed(s) \cap Reported(s) = {}
    BY <1>2, <1>3, <1>4, NameAssumption DEF Reported, Nodes
  <1> QED
    BY <1>2, <1>3, <1>4, <1>5, <1>6

LEMMA NoSnapshotType == NoSnapshot \in Snapshots /\ Listed(NoSnapshot) = {}
  BY DEF NoSnapshot, Snapshots, Listed, Complete

LEMMA AbsentAfterType ==
    ASSUME TypeOK, NEW s \in Snapshots
    PROVE  /\ AbsentAfter(s) \in [Nodes -> 0..Threshold]
           /\ \A x \in Nodes : /\ x \in Listed(s) => AbsentAfter(s)[x] = 0
                               /\ x \in Reported(s) => AbsentAfter(s)[x] = CountUp(absent[x])
                               /\ x \notin Listed(s) => absent[x] <= AbsentAfter(s)[x]
  <1>1. ASSUME NEW x \in Nodes
        PROVE  /\ AbsentAfter(s)[x] \in 0..Threshold
               /\ x \in Listed(s) => AbsentAfter(s)[x] = 0
               /\ x \in Reported(s) => AbsentAfter(s)[x] = CountUp(absent[x])
               /\ x \notin Listed(s) => absent[x] <= AbsentAfter(s)[x]
    <2>1. absent[x] \in 0..Threshold
      BY DEF TypeOK
    <2>2. AbsentAfter(s)[x] = CASE x \in Listed(s)   -> 0
                                [] x \in Reported(s) -> CountUp(absent[x])
                                [] OTHER             -> absent[x]
      BY DEF AbsentAfter
    <2>3. x \in Listed(s) => x \notin Reported(s)
      BY ListedFacts
    <2>4. CountUp(absent[x]) \in 0..Threshold /\ absent[x] <= CountUp(absent[x])
      BY <2>1, CountUpBounds
    <2>5. CASE x \in Listed(s)
      BY <2>2, <2>3, <2>5, ThresholdAssumption
    <2>6. CASE x \in Reported(s)
      BY <2>2, <2>3, <2>4, <2>6
    <2>7. CASE x \notin Listed(s) /\ x \notin Reported(s)
      BY <2>1, <2>2, <2>7
    <2> QED
      BY <2>5, <2>6, <2>7
  <1>2. AbsentAfter(s) \in [Nodes -> 0..Threshold]
    BY <1>1 DEF AbsentAfter
  <1> QED
    BY <1>1, <1>2

-----------------------------------------------------------------------------
(* Cleanup.  In registries without orphans what a refresh of the running   *)
(* lifecycle cleans up has a device, is not listed, and is linked to by    *)
(* nothing but its own entities; a network goes with all of its resources. *)

LEMMA DueFacts ==
    ASSUME IInv, phase = "running", NEW s \in Snapshots
    PROVE  /\ Cleaned(s) \subseteq devices /\ Cleaned(s) \subseteq Nodes
           /\ Cleaned(s) \cap Listed(s) = {}
           /\ CleanedResources(s) \subseteq Resources
           /\ CleanedNetworks(s) \subseteq Networks
           /\ \A x \in Due(s) : /\ AbsentAfter(s)[x] = Threshold
                                /\ x \in Networks => s[x] = Omitted
                                /\ x \in Resources => NetworkOf[x] \in Complete(s)
           /\ \A r \in CleanedResources(s) : r \in Due(s) \/ NetworkOf[r] \in Due(s)
           /\ CleanedNetworks(s) \subseteq Due(s)
  <1>1. known = devices /\ devices \subseteq Nodes
    BY DEF IInv, Safety, TrackingMatchesRegistry, TypeOK
  <1>2. ASSUME NEW x \in Due(s)
        PROVE  /\ x \in known /\ x \in Nodes /\ x \in Reported(s) /\ x \notin Listed(s)
               /\ AbsentAfter(s)[x] = Threshold
               /\ x \in Networks => s[x] = Omitted
               /\ x \in Resources => NetworkOf[x] \in Complete(s)
    <2>1. x \in known /\ x \in Reported(s) /\ x \in Nodes /\ Counts(s)[x] = Threshold
      BY <1>1 DEF Due, Missed
    <2>2. x \notin Listed(s)
      BY <2>1, ListedFacts
    <2>3. Counts(s)[x] = CountUp(missing[x])
      BY <2>1, <2>2 DEF Counts, Missed
    <2>4. missing[x] \in 0..Threshold /\ absent[x] \in 0..Threshold /\ missing[x] <= absent[x]
      BY <2>1 DEF IInv, TypeOK, Safety, CountsAreEarned
    <2>5. AbsentAfter(s)[x] = CountUp(absent[x])
      BY <2>1, AbsentAfterType DEF IInv
    <2>6. CountUp(absent[x]) \in 0..Threshold /\ CountUp(missing[x]) <= CountUp(absent[x])
      BY <2>4, CountUpBounds
    <2>7. AbsentAfter(s)[x] = Threshold
      BY <2>1, <2>3, <2>5, <2>6, ThresholdAssumption
    <2>8. /\ x \in Networks => s[x] = Omitted
          /\ x \in Resources => NetworkOf[x] \in Complete(s)
      BY <2>1, NameAssumption DEF Reported
    <2> QED
      BY <2>1, <2>2, <2>7, <2>8
  <1>3. ASSUME NEW r \in CleanedResources(s)
        PROVE  /\ r \in Resources /\ r \in devices
               /\ r \notin Listed(s)
               /\ r \in Due(s) \/ NetworkOf[r] \in Due(s)
    <2>1. r \in known /\ r \in Resources /\ (r \in Due(s) \/ NetworkOf[r] \in Due(s))
      BY DEF CleanedResources, DueResources
    <2>2. r \notin Listed(s)
      BY <1>2, <2>1, ListedFacts
    <2> QED
      BY <1>1, <2>1, <2>2
  <1>4. ASSUME NEW n \in CleanedNetworks(s)
        PROVE  n \in Networks /\ n \in Due(s) /\ n \in devices /\ n \notin Listed(s)
    BY <1>1, <1>2 DEF CleanedNetworks
  <1> QED
    BY <1>1, <1>2, <1>3, <1>4 DEF Cleaned

LEMMA ResourceOwnsItsDevice ==
    ASSUME IInv, phase = "running", NEW s \in Snapshots, NEW r \in CleanedResources(s)
    PROVE  /\ r \notin foreign
           /\ \A u \in LinkedTo(r, link) : u[1] = r
  <1>1. r \in devices /\ r \in Resources /\ Removable(r, link)
    BY DueFacts DEF CleanedResources, Cleaned
  <1>2. \A u \in Owned(r, link) : u[1] = r
    BY <1>1, NetworkAssumption, NameAssumption DEF Owned, Under
  <1> QED
    BY <1>1, <1>2 DEF Removable

LEMMA NetworkOwnsItsDevice ==
    ASSUME IInv, phase = "running", NEW s \in Snapshots, NEW n \in CleanedNetworks(s)
    PROVE  /\ n \notin foreign
           /\ \A r \in devices \cap Resources : NetworkOf[r] = n => r \in Cleaned(s)
           /\ \A u \in LinkedTo(n, link) : u[1] = n
  <1> DEFINE lnk == Without(CleanedResources(s), link)
  <1>1. /\ n \in devices /\ n \in Networks /\ Removable(n, lnk)
        /\ ResourcesOf(n) \cap devices \subseteq CleanedResources(s)
    BY DueFacts DEF CleanedNetworks, Cleaned
  <1>2. n \notin foreign /\ LinkedTo(n, lnk) = Owned(n, lnk)
    BY <1>1 DEF Removable
  <1>3. ASSUME NEW u \in LinkedTo(n, link) PROVE u[1] = n
    <2>1. u \in Entities /\ link[u] = n /\ n # NoEntity
      BY <1>1, NameAssumption DEF LinkedTo
    <2>2. u[1] \in devices /\ u[1] \in Nodes
      BY <2>1 DEF IInv, Safety, NoOrphans, Entities
    <2>3. u[1] \notin CleanedResources(s)
      <3>1. ASSUME u[1] \in CleanedResources(s) PROVE FALSE
        <4>1. Removable(u[1], link) /\ u[1] \in Resources
          BY <3>1 DEF CleanedResources, DueResources
        <4>2. u \in Owned(u[1], link)
          BY <2>1 DEF Owned, Under
        <4>3. link[u] = u[1]
          BY <2>2, <4>1, <4>2 DEF Removable, LinkedTo
        <4> QED
          BY <1>1, <2>1, <4>1, <4>3, NameAssumption
      <3> QED
        BY <3>1
    <2>4. lnk[u] = n
      BY <2>1, <2>3 DEF Without
    <2>5. u \in Owned(n, lnk)
      <3>1. u \in LinkedTo(n, lnk)
        BY <2>1, <2>4 DEF LinkedTo
      <3> QED
        BY <1>2, <3>1
    <2>6. n = u[1] \/ ~(u[1] \in Resources /\ NetworkOf[u[1]] = n)
      BY <1>1, <2>2, <2>3 DEF ResourcesOf
    <2> QED
      BY <2>5, <2>6 DEF Owned, Under
  <1>4. \A r \in devices \cap Resources : NetworkOf[r] = n => r \in Cleaned(s)
    BY <1>1 DEF ResourcesOf, Cleaned
  <1> QED
    BY <1>2, <1>3, <1>4

LEMMA CleanedOwnsItsDevice ==
    ASSUME IInv, phase = "running", NEW s \in Snapshots, NEW x \in Cleaned(s)
    PROVE  x \notin foreign /\ \A u \in LinkedTo(x, link) : u[1] = x
  BY ResourceOwnsItsDevice, NetworkOwnsItsDevice DEF Cleaned

(* So it leaves no orphans and drops no entity but those of what it cleans.*)
LEMMA CleanupConsistent ==
    ASSUME IInv, phase = "running", NEW s \in Snapshots
    PROVE  /\ LinkAfterCleanup(s) \in [Entities -> Nodes \cup {Elsewhere, NoEntity}]
           /\ Consistent(LinkAfterCleanup(s), DevicesAfterCleanup(s))
           /\ \A u \in Entities : link[u] # NoEntity /\ u[1] \notin Cleaned(s)
                                    => LinkAfterCleanup(s)[u] # NoEntity
  <1> DEFINE gone == Cleaned(s) \cup {r \in Resources : NetworkOf[r] \in CleanedNetworks(s)}
  <1>1. link \in [Entities -> Nodes \cup {Elsewhere, NoEntity}]
    BY DEF IInv, TypeOK
  <1>2. LinkAfterCleanup(s) = [u \in Entities |-> IF u[1] \in gone THEN NoEntity ELSE link[u]]
    BY DEF LinkAfterCleanup, Without
  <1>3. ASSUME NEW r \in DevicesAfterCleanup(s) \cap Resources
        PROVE  NetworkOf[r] \in DevicesAfterCleanup(s)
    <2>1. r \in devices /\ r \in Resources /\ r \notin Cleaned(s) /\ NetworkOf[r] \in devices
      BY DEF DevicesAfterCleanup, IInv, Safety, NoOrphans
    <2>2. NetworkOf[r] \in Networks
      BY <2>1, NetworkAssumption
    <2>3. NetworkOf[r] \notin CleanedNetworks(s)
      BY <2>1, NetworkOwnsItsDevice
    <2>4. NetworkOf[r] \notin CleanedResources(s)
      BY <2>2, DueFacts, NameAssumption
    <2> QED
      BY <2>1, <2>3, <2>4 DEF DevicesAfterCleanup, Cleaned
  <1>4. ASSUME NEW u \in Entities, link[u] # NoEntity, u[1] \notin Cleaned(s)
        PROVE  u[1] \in devices /\ u[1] \notin gone
    <2>1. u[1] \in devices
      BY <1>4 DEF IInv, Safety, NoOrphans
    <2>2. ~(u[1] \in Resources /\ NetworkOf[u[1]] \in CleanedNetworks(s))
      BY <1>4, <2>1, NetworkOwnsItsDevice
    <2> QED
      BY <1>4, <2>1, <2>2
  <1>5. ASSUME NEW u \in Entities
        PROVE  /\ LinkAfterCleanup(s)[u] \in Nodes => LinkAfterCleanup(s)[u] \in DevicesAfterCleanup(s)
               /\ LinkAfterCleanup(s)[u] # NoEntity => u[1] \in DevicesAfterCleanup(s)
    <2>1. CASE u[1] \in gone
      BY <1>2, <2>1, NameAssumption DEF Nodes
    <2>2. CASE u[1] \notin gone
      <3>1. LinkAfterCleanup(s)[u] = link[u]
        BY <1>2, <2>2
      <3>2. link[u] # NoEntity => u[1] \in DevicesAfterCleanup(s)
        BY <1>4, <2>2 DEF DevicesAfterCleanup
      <3>3. link[u] \in Nodes => link[u] \in devices
        BY DEF IInv, Safety, NoOrphans
      <3>4. ASSUME link[u] \in Cleaned(s) PROVE FALSE
        <4>1. u \in LinkedTo(link[u], link)
          BY DEF LinkedTo
        <4>2. u[1] = link[u]
          BY <3>4, <4>1, CleanedOwnsItsDevice
        <4> QED
          BY <2>2, <3>4, <4>2
      <3> QED
        BY <3>1, <3>2, <3>3, <3>4 DEF DevicesAfterCleanup
    <2> QED
      BY <2>1, <2>2
  <1>6. LinkAfterCleanup(s) \in [Entities -> Nodes \cup {Elsewhere, NoEntity}]
    BY <1>1, <1>2
  <1>7. ASSUME NEW u \in Entities, link[u] # NoEntity, u[1] \notin Cleaned(s)
        PROVE  LinkAfterCleanup(s)[u] # NoEntity
    BY <1>2, <1>4, <1>7
  <1> QED
    BY <1>3, <1>5, <1>6, <1>7 DEF Consistent

-----------------------------------------------------------------------------
(* Discovery keeps the registries consistent, gives everything listed its  *)
(* device and registers every entity of it.                                *)
LEMMA DiscoverRegisters ==
    ASSUME NEW s \in Snapshots, NEW lnk \in [Entities -> Nodes \cup {Elsewhere, NoEntity}],
           NEW devs \in SUBSET Nodes, Consistent(lnk, devs),
           discovered \subseteq Entities, Discover(s, lnk, devs)
    PROVE  /\ discovered' \subseteq Entities
           /\ link' \in [Entities -> Nodes \cup {Elsewhere, NoEntity}]
           /\ devices' = devs \cup Listed(s)
           /\ Consistent(link', devices')
           /\ \A x \in Listed(s), k \in Keys : link'[<<x, k>>] # NoEntity
  <1> DEFINE new == (Listed(s) \X Keys) \ StillKnown(lnk)
  <1>1. /\ discovered' = StillKnown(lnk) \cup new
        /\ link' = [u \in Entities |-> IF u \in new THEN u[1] ELSE lnk[u]]
        /\ devices' = devs \cup (Listed(s) \cap Networks) \cup {u[1] : u \in new}
    BY DEF Discover
  <1>2. /\ Listed(s) \subseteq Nodes
        /\ new \subseteq Entities /\ \A u \in new : u[1] \in Listed(s)
    BY ListedFacts DEF Entities
  <1>3. discovered' \subseteq Entities
    BY <1>1, <1>2 DEF StillKnown
  <1>4. link' \in [Entities -> Nodes \cup {Elsewhere, NoEntity}]
    BY <1>1, <1>2
  <1>5. ASSUME NEW x \in Listed(s) PROVE x \in devices'
    <2>1. PICK k \in Keys : TRUE
      BY KeyAssumption
    <2>2. <<x, k>> \in Listed(s) \X Keys /\ <<x, k>> \in Entities
      BY <1>2 DEF Entities
    <2>3. CASE <<x, k>> \in new
      BY <1>1, <2>3
    <2>4. CASE <<x, k>> \in StillKnown(lnk)
      <3>1. lnk[<<x, k>>] # NoEntity
        BY <2>4 DEF StillKnown
      <3> QED
        BY <1>1, <2>2, <3>1 DEF Consistent
    <2> QED
      BY <2>2, <2>3, <2>4
  <1>6. devices' = devs \cup Listed(s)
    BY <1>1, <1>2, <1>5
  <1>7. ASSUME NEW u \in Entities
        PROVE  /\ link'[u] \in Nodes => link'[u] \in devices'
               /\ link'[u] # NoEntity => u[1] \in devices'
    <2>1. CASE u \in new
      BY <1>1, <1>2, <1>6, <2>1
    <2>2. CASE u \notin new
      BY <1>1, <1>6, <2>2 DEF Consistent
    <2> QED
      BY <2>1, <2>2
  <1>8. \A r \in devices' \cap Resources : NetworkOf[r] \in devices'
    BY <1>6, ListedFacts DEF Consistent
  <1>9. ASSUME NEW x \in Listed(s), NEW k \in Keys PROVE link'[<<x, k>>] # NoEntity
    <2>1. <<x, k>> \in Entities /\ x # NoEntity
      BY <1>2, NameAssumption DEF Entities, Nodes
    <2>2. CASE <<x, k>> \in new
      BY <1>1, <2>1, <2>2
    <2>3. CASE <<x, k>> \in StillKnown(lnk)
      BY <1>1, <2>1, <2>3 DEF StillKnown
    <2> QED
      BY <2>2, <2>3
  <1> QED
    BY <1>3, <1>4, <1>6, <1>7, <1>8, <1>9 DEF Consistent

(* What a successful refresh makes of the registries, whether or not the   *)
(* discovery listeners are told.                                           *)
LEMMA RefreshRegistries ==
    ASSUME IInv, NEW s \in Snapshots, NEW other \in BOOLEAN,
           RefreshSucceeds(s, other)
    PROVE  /\ discovered' \subseteq Entities
           /\ link' \in [Entities -> Nodes \cup {Elsewhere, NoEntity}]
           /\ devices' = Listed(s) \cup
                           (IF phase = "running" THEN devices \ Cleaned(s) ELSE devices)
           /\ Consistent(link', devices')
           /\ \A x \in Listed(s), k \in Keys : link'[<<x, k>>] # NoEntity
  <1> DEFINE running == phase = "running"
             lnk     == IF running THEN LinkAfterCleanup(s) ELSE link
             devs    == IF running THEN DevicesAfterCleanup(s) ELSE devices
             changed == ~ok \/ s # data \/ other
  <1>1. /\ phase # "unloaded"
        /\ IF changed THEN Discover(s, lnk, devs) ELSE NoDiscovery(lnk, devs)
    BY DEF RefreshSucceeds
  <1>2. /\ lnk \in [Entities -> Nodes \cup {Elsewhere, NoEntity}] /\ devs \in SUBSET Nodes
        /\ Consistent(lnk, devs)
    <2>1. devices \subseteq Nodes
      BY DEF IInv, TypeOK
    <2>2. CASE running
      BY <2>1, <2>2, CleanupConsistent DEF DevicesAfterCleanup
    <2>3. CASE ~running
      BY <2>1, <2>3 DEF IInv, TypeOK, Safety, NoOrphans, Consistent
    <2> QED
      BY <2>2, <2>3
  <1>3. devs = IF running THEN devices \ Cleaned(s) ELSE devices
    BY DEF DevicesAfterCleanup
  <1>4. /\ discovered' \subseteq Entities
        /\ link' \in [Entities -> Nodes \cup {Elsewhere, NoEntity}]
        /\ devices' = devs \cup Listed(s)
        /\ Consistent(link', devices')
        /\ \A x \in Listed(s), k \in Keys : link'[<<x, k>>] # NoEntity
    <2>1. CASE changed
      <3>1. Discover(s, lnk, devs)
        BY <1>1, <2>1
      <3>2. discovered \subseteq Entities
        BY DEF IInv, TypeOK
      <3> HIDE DEF lnk, devs
      <3> QED
        BY <1>2, <3>1, <3>2, DiscoverRegisters
    <2>2. CASE ~changed
      <3>1. link' = lnk /\ devices' = devs /\ discovered' = discovered /\ ok /\ s = data
        BY <1>1, <2>2 DEF NoDiscovery
      <3>2. Listed(s) \subseteq devs
        BY <1>3, <3>1, DueFacts DEF IInv, ListedRegistered
      <3>3. ASSUME NEW x \in Listed(s), NEW k \in Keys PROVE lnk[<<x, k>>] # NoEntity
        <4>1. <<x, k>> \in Entities /\ <<x, k>>[1] = x
          BY ListedFacts DEF Entities
        <4>2. link[<<x, k>>] # NoEntity
          BY <1>1, <3>1 DEF IInv, Safety, DiscoveryComplete
        <4>3. running => x \notin Cleaned(s)
          BY DueFacts
        <4> QED
          BY <4>1, <4>2, <4>3, CleanupConsistent
      <3>4. discovered' \subseteq Entities
        BY <3>1 DEF IInv, TypeOK
      <3> HIDE DEF lnk, devs
      <3> QED
        BY <1>2, <3>1, <3>2, <3>3, <3>4
    <2> QED
      BY <2>1, <2>2
  <1> QED
    BY <1>3, <1>4

-----------------------------------------------------------------------------
(* One lemma per kind of step. *)

LEMMA InitInv == Init => IInv
  <1> SUFFICES ASSUME Init PROVE IInv
    OBVIOUS
  <1> USE DEF Init
  <1>1. 0 \in 0..Threshold
    BY ThresholdAssumption
  <1>2. TypeOK
    BY <1>1, NoSnapshotType DEF TypeOK
  <1>3. Safety
    BY <1>1, NameAssumption DEF Safety, NoOrphans, CountsAreEarned,
       TrackingMatchesRegistry, DiscoveryComplete, Nodes
  <1> QED
    BY <1>2, <1>3, NoSnapshotType DEF IInv, ListedRegistered, IdleTracking

LEMMA SetupInv ==
    ASSUME IInv, NEW s \in Snapshots, SetupPlatforms(s)
    PROVE  IInv'
  <1> USE DEF SetupPlatforms
  <1>1. /\ discovered' \subseteq Entities
        /\ link' \in [Entities -> Nodes \cup {Elsewhere, NoEntity}]
        /\ devices' = devices \cup Listed(s)
        /\ Consistent(link', devices')
        /\ \A x \in Listed(s), k \in Keys : link'[<<x, k>>] # NoEntity
    <2>1. Consistent(link, devices)
      BY DEF IInv, Safety, NoOrphans, Consistent
    <2> QED
      BY <2>1, DiscoverRegisters DEF IInv, TypeOK
  <1>2. absent' \in [Nodes -> 0..Threshold] /\ Listed(s) \subseteq Nodes
    BY AbsentAfterType, ListedFacts DEF IInv
  <1>3. missing' = [x \in Nodes |-> 0] /\ Listed(data') = Listed(s)
    BY DEF IInv, IdleTracking, tracking, Listed
  <1>4. TypeOK'
    BY <1>1, <1>2 DEF IInv, TypeOK, tracking
  <1>5. NoOrphans'
    BY <1>1 DEF NoOrphans, Consistent
  <1>6. CountsAreEarned'
    BY <1>2, <1>3 DEF CountsAreEarned
  <1>7. DiscoveryComplete'
    BY <1>1, <1>3 DEF DiscoveryComplete
  <1> QED
    BY <1>1, <1>3, <1>4, <1>5, <1>6, <1>7
    DEF IInv, Safety, TrackingMatchesRegistry, ListedRegistered, IdleTracking

LEMMA StartInv ==
    ASSUME IInv, StartLifecycle
    PROVE  IInv'
  <1> USE DEF StartLifecycle, registry
  <1>1. Listed(data') = Listed(data) /\ Listed(data) \subseteq devices /\ devices \subseteq Nodes
    BY DEF IInv, TypeOK, ListedRegistered, Listed, Complete
  <1>2. known' = devices
    BY <1>1 DEF IInv, Safety, NoOrphans
  <1>3. TypeOK'
    BY <1>1, <1>2, ThresholdAssumption DEF IInv, TypeOK
  <1>4. NoOrphans' /\ CountsAreEarned'
    BY DEF IInv, TypeOK, Safety, NoOrphans, CountsAreEarned
  <1>5. TrackingMatchesRegistry'
    BY <1>2 DEF TrackingMatchesRegistry
  <1>6. DiscoveryComplete'
    BY <1>1 DEF IInv, Safety, DiscoveryComplete
  <1> QED
    BY <1>1, <1>3, <1>4, <1>5, <1>6
    DEF IInv, Safety, ListedRegistered, IdleTracking

LEMMA UnloadInv ==
    ASSUME IInv, Unload
    PROVE  IInv'
  <1> USE DEF Unload, registry
  <1>1. 0 \in 0..Threshold
    BY ThresholdAssumption
  <1>2. TypeOK'
    BY <1>1, NoSnapshotType DEF IInv, TypeOK
  <1>3. Safety'
    BY DEF IInv, TypeOK, Safety, NoOrphans, CountsAreEarned,
           TrackingMatchesRegistry, DiscoveryComplete
  <1>4. Listed(data') = {}
    BY NoSnapshotType
  <1> QED
    BY <1>2, <1>3, <1>4 DEF IInv, ListedRegistered, IdleTracking

(* Counts advance no faster than the omissions that the service reports.   *)
LEMMA CountsBounds ==
    ASSUME IInv, NEW s \in Snapshots, NEW x \in Nodes
    PROVE  /\ Counts(s)[x] \in 0..Threshold
           /\ Counts(s)[x] <= AbsentAfter(s)[x]
           /\ x \in Listed(s) => Counts(s)[x] = 0
  <1>1. /\ missing[x] \in 0..Threshold /\ absent[x] \in 0..Threshold
        /\ missing[x] <= absent[x]
    BY DEF IInv, TypeOK, Safety, CountsAreEarned
  <1>2. Counts(s)[x] = CASE x \in Listed(s) -> 0
                         [] x \in Missed(s) -> CountUp(missing[x])
                         [] OTHER           -> missing[x]
    BY DEF Counts
  <1>3. /\ AbsentAfter(s)[x] \in 0..Threshold
        /\ x \in Reported(s) => AbsentAfter(s)[x] = CountUp(absent[x])
        /\ x \notin Listed(s) => absent[x] <= AbsentAfter(s)[x]
    BY AbsentAfterType DEF IInv
  <1>4. CountUp(missing[x]) \in 0..Threshold /\ CountUp(missing[x]) <= CountUp(absent[x])
    BY <1>1, CountUpBounds
  <1>5. x \in Missed(s) => x \in Reported(s) /\ x \notin Listed(s)
    BY ListedFacts DEF Missed
  <1>6. CASE x \in Listed(s)
    BY <1>2, <1>3, <1>5, <1>6, ThresholdAssumption
  <1>7. CASE x \in Missed(s)
    BY <1>2, <1>3, <1>4, <1>5, <1>7
  <1>8. CASE x \notin Listed(s) /\ x \notin Missed(s)
    BY <1>1, <1>2, <1>3, <1>8
  <1> QED
    BY <1>6, <1>7, <1>8

LEMMA RefreshInv ==
    ASSUME IInv, NEW s \in Snapshots, NEW other \in BOOLEAN,
           RefreshSucceeds(s, other)
    PROVE  IInv'
  <1> DEFINE running == phase = "running"
             devs == IF running THEN devices \ Cleaned(s) ELSE devices
  <1>1. /\ phase # "unloaded" /\ UNCHANGED <<phase, foreign>>
        /\ ok' = TRUE /\ data' = s
        /\ absent' = AbsentAfter(s)
        /\ IF running THEN Lifecycle(s) ELSE UNCHANGED tracking
    BY DEF RefreshSucceeds
  <1>2. /\ discovered' \subseteq Entities
        /\ link' \in [Entities -> Nodes \cup {Elsewhere, NoEntity}]
        /\ devices' = Listed(s) \cup devs
        /\ Consistent(link', devices')
        /\ \A x \in Listed(s), k \in Keys : link'[<<x, k>>] # NoEntity
    BY RefreshRegistries
  <1>3. /\ Listed(data') = Listed(s) /\ Listed(s) \subseteq Nodes
        /\ devices \subseteq Nodes /\ devices' \subseteq Nodes
    BY <1>1, <1>2, ListedFacts DEF IInv, TypeOK
  <1>4. ASSUME running
        PROVE  known' = devices' /\ missing' = Counts(s)
    <2>1. known = devices /\ Cleaned(s) \cap Listed(s) = {}
      BY <1>4, DueFacts DEF IInv, Safety, TrackingMatchesRegistry
    <2> QED
      BY <1>1, <1>2, <1>4, <2>1 DEF Lifecycle, Tracked
  <1>5. ASSUME ~running
        PROVE  missing' = [x \in Nodes |-> 0] /\ known' = known
    BY <1>1, <1>5 DEF IInv, IdleTracking, tracking
  <1>6. absent' \in [Nodes -> 0..Threshold]
    BY <1>1, AbsentAfterType DEF IInv
  <1>7. /\ missing' \in [Nodes -> 0..Threshold]
        /\ \A x \in Nodes : missing'[x] <= absent'[x] /\ (x \in Listed(s) => missing'[x] = 0)
    <2>1. CASE running
      <3>1. missing' = Counts(s) /\ Counts(s) = [x \in Nodes |-> Counts(s)[x]]
        BY <1>4, <2>1 DEF Counts
      <3> QED
        BY <1>1, <3>1, CountsBounds
    <2>2. CASE ~running
      BY <1>5, <1>6, <2>2, ThresholdAssumption
    <2> QED
      BY <2>1, <2>2
  <1>8. foreign' \subseteq devices'
    <2>1. foreign' = foreign /\ foreign \subseteq devices
      BY <1>1 DEF IInv, TypeOK
    <2>2. running => foreign \cap Cleaned(s) = {}
      BY CleanedOwnsItsDevice
    <2> QED
      BY <1>2, <2>1, <2>2
  <1>9. known' \subseteq Nodes
    BY <1>3, <1>4, <1>5 DEF IInv, TypeOK
  <1>10. TypeOK'
    BY <1>1, <1>2, <1>3, <1>6, <1>7, <1>8, <1>9 DEF IInv, TypeOK
  <1>11. NoOrphans'
    BY <1>2 DEF NoOrphans, Consistent
  <1>12. CountsAreEarned'
    BY <1>3, <1>7 DEF CountsAreEarned
  <1>13. TrackingMatchesRegistry'
    BY <1>1, <1>4 DEF TrackingMatchesRegistry
  <1>14. DiscoveryComplete' /\ ListedRegistered'
    BY <1>2, <1>3 DEF DiscoveryComplete, ListedRegistered
  <1>15. IdleTracking'
    BY <1>1, <1>5 DEF IdleTracking
  <1> QED
    BY <1>10, <1>11, <1>12, <1>13, <1>14, <1>15 DEF IInv, Safety

(* Neither a setup without data nor a failed refresh touches counts or     *)
(* registries.                                                             *)
LEMMA FailureInv ==
    ASSUME IInv, RefreshFails \/ SetupWithoutData
    PROVE  IInv'
  <1>1. /\ UNCHANGED <<data, discovered, known, missing, link, devices, foreign, absent>>
        /\ ok' \in {ok, FALSE} /\ phase' \in {phase, "starting"}
        /\ phase' # phase => phase = "unloaded"
        /\ phase' = "unloaded" => phase = "unloaded"
    BY DEF RefreshFails, SetupWithoutData, tracking, registry
  <1>2. Listed(data') = Listed(data)
    BY <1>1
  <1>3. phase = "unloaded" => Listed(data) = {}
    BY NoSnapshotType DEF IInv, IdleTracking
  <1>4. TypeOK'
    BY <1>1 DEF IInv, TypeOK
  <1>5. NoOrphans' /\ TrackingMatchesRegistry'
    BY <1>1 DEF IInv, Safety, NoOrphans, TrackingMatchesRegistry
  <1>6. CountsAreEarned'
    BY <1>1, <1>2, <1>3 DEF IInv, Safety, CountsAreEarned
  <1>7. DiscoveryComplete'
    BY <1>1, <1>2, <1>3 DEF IInv, Safety, DiscoveryComplete
  <1> QED
    BY <1>1, <1>2, <1>4, <1>5, <1>6, <1>7 DEF IInv, Safety, ListedRegistered, IdleTracking

LEMMA EnvironmentInv ==
    ASSUME IInv, Environment
    PROVE  IInv'
  <1>1. /\ UNCHANGED <<phase, ok, data, discovered, known, missing, devices, absent>>
        /\ foreign' \subseteq devices
    BY DEF Environment, AttachForeign, DetachForeign, Relink, tracking, registry, IInv, TypeOK
  <1>2. /\ link' \in [Entities -> Nodes \cup {Elsewhere, NoEntity}]
        /\ \A u \in Entities : /\ link'[u] \in Nodes => link'[u] \in devices
                               /\ link'[u] # NoEntity <=> link[u] # NoEntity
    <2>1. CASE UNCHANGED link
      BY <2>1 DEF IInv, TypeOK, Safety, NoOrphans
    <2>2. CASE \E v \in Entities, d \in RelinkTargets : Relink(v, d)
      <3>1. PICK v \in Entities, d \in RelinkTargets : Relink(v, d)
        BY <2>2
      <3>2. d \in Nodes \cup {Elsewhere} /\ d # NoEntity
        BY NameAssumption DEF Nodes
      <3>3. link' = [link EXCEPT ![v] = d] /\ link[v] # NoEntity
            /\ (d \in Nodes => d \in devices)
        BY <3>1 DEF Relink
      <3> QED
        BY <3>2, <3>3 DEF IInv, TypeOK, Safety, NoOrphans
    <2> QED
      BY <2>1, <2>2 DEF Environment, AttachForeign, DetachForeign, registry
  <1>3. Listed(data') = Listed(data)
    BY <1>1
  <1>4. TypeOK'
    BY <1>1, <1>2 DEF IInv, TypeOK
  <1>5. ASSUME NEW x \in Listed(data), NEW k \in Keys PROVE <<x, k>> \in Entities
    BY ListedFacts DEF IInv, TypeOK, Entities
  <1>6. NoOrphans' /\ CountsAreEarned' /\ TrackingMatchesRegistry'
    BY <1>1, <1>2, <1>3 DEF IInv, Safety, NoOrphans, CountsAreEarned, TrackingMatchesRegistry
  <1>7. DiscoveryComplete'
    BY <1>1, <1>2, <1>3, <1>5 DEF IInv, Safety, DiscoveryComplete
  <1> QED
    BY <1>1, <1>3, <1>4, <1>6, <1>7 DEF IInv, Safety, ListedRegistered, IdleTracking

LEMMA NextInv == IInv /\ [Next]_vars => IInv'
  <1> SUFFICES ASSUME IInv, [Next]_vars PROVE IInv'
    OBVIOUS
  <1>1. CASE Setup
    BY <1>1, SetupInv, FailureInv DEF Setup
  <1>2. CASE StartLifecycle
    BY <1>2, StartInv
  <1>3. CASE Unload
    BY <1>3, UnloadInv
  <1>4. CASE Success
    BY <1>4, RefreshInv DEF Success
  <1>5. CASE RefreshFails
    BY <1>5, FailureInv
  <1>6. CASE Environment
    BY <1>6, EnvironmentInv
  <1>7. CASE UNCHANGED vars
    BY <1>7 DEF vars, IInv, TypeOK, Safety, NoOrphans, CountsAreEarned,
                TrackingMatchesRegistry, DiscoveryComplete, ListedRegistered, IdleTracking
  <1> QED
    BY <1>1, <1>2, <1>3, <1>4, <1>5, <1>6, <1>7 DEF Next

(* The inductive invariant of every run of the component. *)
THEOREM InvariantHolds == Spec => []IInv
  BY InitInv, NextInv, PTL DEF Spec

(* Every variable keeps its type. *)
THEOREM TypeCorrect == Spec => []TypeOK
  BY InvariantHolds, PTL DEF IInv

(* Cleanup in two levels leaves no half of a network or resource behind.   *)
THEOREM OrphanFree == Spec => []NoOrphans
  BY InvariantHolds, PTL DEF IInv, Safety

(* Unknown sections and failed refreshes never advance a count.            *)
THEOREM CountsEarned == Spec => []CountsAreEarned
  BY InvariantHolds, PTL DEF IInv, Safety

(* The running lifecycle tracks exactly what has a device.                 *)
THEOREM TrackingMatches == Spec => []TrackingMatchesRegistry
  BY InvariantHolds, PTL DEF IInv, Safety

(* Everything the published snapshot lists has a device and its entities.  *)
THEOREM DiscoveryIsComplete == Spec => []DiscoveryComplete
  BY InvariantHolds, PTL DEF IInv, Safety

-----------------------------------------------------------------------------
(* Removal.  Only a refresh of a running lifecycle takes a device away.    *)

Removals ==
    \A d \in devices \ devices' :
      /\ IF d \in Networks THEN absent'[d] = Threshold
         ELSE /\ data'[NetworkOf[d]] # Unknown
              /\ Threshold \in {absent'[d], absent'[NetworkOf[d]]}
      /\ d \notin foreign /\ \A u \in LinkedTo(d, link) : u[1] = d

LEMMA RefreshRemovals ==
    ASSUME IInv, NEW s \in Snapshots, NEW other \in BOOLEAN,
           RefreshSucceeds(s, other)
    PROVE  Removals
  <1>1. data' = s /\ absent' = AbsentAfter(s)
    BY DEF RefreshSucceeds
  <1>2. ASSUME NEW d \in devices \ devices'
        PROVE  phase = "running" /\ d \in Cleaned(s)
    BY <1>2, RefreshRegistries
  <1>3. ASSUME NEW d \in devices \ devices', d \in CleanedNetworks(s)
        PROVE  d \in Networks /\ absent'[d] = Threshold
    BY <1>1, <1>2, <1>3, DueFacts
  <1>4. ASSUME NEW d \in devices \ devices', d \in CleanedResources(s)
        PROVE  /\ d \notin Networks
               /\ data'[NetworkOf[d]] # Unknown
               /\ Threshold \in {absent'[d], absent'[NetworkOf[d]]}
    <2>1. d \in Resources /\ d \notin Networks /\ NetworkOf[d] \in Networks
      BY <1>2, <1>4, DueFacts, NetworkAssumption, NameAssumption
    <2>2. CASE d \in Due(s)
      BY <1>1, <1>2, <2>1, <2>2, DueFacts DEF Complete
    <2>3. CASE NetworkOf[d] \in Due(s)
      BY <1>1, <1>2, <2>1, <2>3, DueFacts, NameAssumption
    <2> QED
      BY <1>2, <1>4, <2>1, <2>2, <2>3, DueFacts
  <1> QED
    BY <1>2, <1>3, <1>4, CleanedOwnsItsDevice DEF Removals, Cleaned

LEMMA StepRemovals == IInv /\ [Next]_vars => Removals
  <1> SUFFICES ASSUME IInv, [Next]_vars PROVE Removals
    OBVIOUS
  <1>1. CASE Success
    BY <1>1, RefreshRemovals DEF Success
  <1>2. CASE ~Success
    <2>1. devices \subseteq devices'
      BY <1>2 DEF Next, Setup, SetupPlatforms, SetupWithoutData, Discover, StartLifecycle,
                  Unload, RefreshFails, Environment, AttachForeign, DetachForeign, Relink,
                  registry, vars
    <2> QED
      BY <2>1 DEF Removals
  <1> QED
    BY <1>1, <1>2

(* Nothing loses its device before Threshold consecutive reports that it   *)
(* is gone, across reloads, failures and unknown sections.                 *)
THEOREM RemovalEarned == Spec => RemovalIsEarned
  <1>1. IInv /\ [Next]_vars
          => [ \A d \in devices \ devices' :
                 IF d \in Networks THEN absent'[d] = Threshold
                 ELSE /\ data'[NetworkOf[d]] # Unknown
                      /\ Threshold \in {absent'[d], absent'[NetworkOf[d]]} ]_vars
    BY StepRemovals DEF Removals
  <1> QED
    BY <1>1, InvariantHolds, PTL DEF Spec, RemovalIsEarned

(* A cleanup takes nothing of another integration, network or resource.    *)
THEOREM RemovalExclusive == Spec => RemovalIsExclusive
  <1>1. IInv /\ [Next]_vars
          => [ \A d \in devices \ devices' :
                 d \notin foreign /\ \A u \in LinkedTo(d, link) : u[1] = d ]_vars
    BY StepRemovals DEF Removals
  <1> QED
    BY <1>1, InvariantHolds, PTL DEF Spec, RemovalIsExclusive

-----------------------------------------------------------------------------
(* Every step is a snapshot step of PeerRetention over the networks, or    *)
(* leaves them unchanged.                                                  *)

LEMMA NetworkAbsences ==
    ASSUME IInv, NEW s \in Snapshots, NEW n \in Networks
    PROVE  AbsentAfter(s)[n] = IF n \in Listed(s) THEN 0 ELSE CountUp(absent[n])
  <1>1. n \in Nodes /\ (n \notin Listed(s) => n \in Reported(s))
    BY ListedFacts DEF Nodes, Reported
  <1>2. AbsentAfter(s)[n] = CASE n \in Listed(s)   -> 0
                              [] n \in Reported(s) -> CountUp(absent[n])
                              [] OTHER             -> absent[n]
    BY <1>1 DEF AbsentAfter
  <1>3. n \in Listed(s) => n \notin Reported(s)
    BY ListedFacts
  <1>4. CASE n \in Listed(s)
    BY <1>2, <1>3, <1>4
  <1>5. CASE n \notin Listed(s)
    BY <1>1, <1>2, <1>5
  <1> QED
    BY <1>4, <1>5

(* The abstract absences are those of the networks, before and after.      *)
Absence == [n \in Networks |-> absent[n]]

LEMMA SnapshotRetains ==
    ASSUME IInv, [Next]_vars, NEW s \in Snapshots, absent' = AbsentAfter(s),
           Listed(s) \subseteq devices', devices' \subseteq devices \cup Listed(s)
    PROVE  Retention!Next
  <1> DEFINE S == Listed(s) \cap Networks
  <1>1. Absence' = [n \in Networks |->
                      IF n \in S THEN 0
                      ELSE IF Absence[n] < Threshold THEN Absence[n] + 1 ELSE Threshold]
    BY NetworkAbsences DEF Absence, CountUp
  <1>2. \A n \in (devices \cap Networks) \ (devices' \cap Networks) : Absence'[n] = Threshold
    BY StepRemovals DEF Removals, Absence
  <1>3. Retention!Snapshot(S)
    BY <1>1, <1>2 DEF Retention!Snapshot, Absence
  <1>4. S \in SUBSET Networks
    OBVIOUS
  <1> QED
    BY <1>3, <1>4 DEF Retention!Next

LEMMA StepRetains ==
    IInv /\ [Next]_vars => [Retention!Next]_(Retention!vars)
  <1> SUFFICES ASSUME IInv, [Next]_vars
               PROVE  Retention!Next \/ UNCHANGED <<devices, absent>>
    BY DEF Retention!vars
  <1>1. CASE Success
    <2>1. PICK s \in Snapshots, other \in BOOLEAN : RefreshSucceeds(s, other)
      BY <1>1 DEF Success
    <2>2. absent' = AbsentAfter(s)
      BY <2>1 DEF RefreshSucceeds
    <2>3. Listed(s) \subseteq devices' /\ devices' \subseteq devices \cup Listed(s)
      BY <2>1, RefreshRegistries
    <2> QED
      BY <2>2, <2>3, SnapshotRetains
  <1>2. CASE \E s \in Snapshots : SetupPlatforms(s)
    <2>1. PICK s \in Snapshots : SetupPlatforms(s)
      BY <1>2
    <2>2. absent' = AbsentAfter(s)
      BY <2>1 DEF SetupPlatforms
    <2>3. Consistent(link, devices)
      BY DEF IInv, Safety, NoOrphans, Consistent
    <2>4. devices' = devices \cup Listed(s)
      BY <2>1, <2>3, DiscoverRegisters DEF SetupPlatforms, IInv, TypeOK
    <2> QED
      BY <2>2, <2>4, SnapshotRetains
  <1>3. CASE ~Success /\ ~\E s \in Snapshots : SetupPlatforms(s)
    BY <1>3 DEF Next, Setup, SetupWithoutData, StartLifecycle, Unload, RefreshFails,
                Environment, AttachForeign, DetachForeign, Relink, registry, vars
  <1> QED
    BY <1>1, <1>2, <1>3

(* Towards networks, TopologyMonitor implements PeerRetention.             *)
THEOREM RefinesRetention == Spec => NetworksKeepRetentionPromise
  <1>1. Init => Retention!Init
    BY DEF Init, Retention!Init, Nodes
  <1> QED
    BY <1>1, StepRetains, InvariantHolds, PTL
    DEF Spec, NetworksKeepRetentionPromise, Retention!Spec
=============================================================================
