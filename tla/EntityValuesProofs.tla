------------------------- MODULE EntityValuesProofs -------------------------
(***************************************************************************)
(* What EntityValues guarantees for replies of any length, with any ids,   *)
(* texts and timestamps.                                                   *)
(***************************************************************************)
EXTENDS EntityValues, FiniteSetTheorems, WellFoundedInduction, TLAPS

-----------------------------------------------------------------------------
(* Natural numbers.  The library's induction theorems speak of a predicate;*)
(* these speak of a set, and follow from Nat being well founded.           *)

LEMMA LeastElement ==
    ASSUME NEW S \in SUBSET Nat, S # {}
    PROVE  \E n \in S : \A m \in S : n <= m
  <1> DEFINE R == OpToRel(<, Nat)
  <1>1. IsWellFoundedOn(R, Nat)
    BY NatLessThanWellFounded
  <1>2. \E n \in S : \A m \in S : ~ (<<m, n>> \in R)
    BY <1>1, WFMin
  <1>3. \A m, n \in Nat : <<m, n>> \in R <=> m < n
    BY DEF OpToRel
  <1> HIDE DEF R
  <1>4. PICK n \in S : \A m \in S : ~ (<<m, n>> \in R)
    BY <1>2
  <1>5. ASSUME NEW m \in S PROVE n <= m
    <2>1. n \in Nat /\ m \in Nat
      OBVIOUS
    <2>2. ~ (m < n)
      BY <1>3, <1>4, <2>1
    <2> QED
      BY <2>1, <2>2
  <1> QED
    BY <1>5

LEMMA Induction ==
    ASSUME NEW S, 0 \in S, \A n \in Nat : n \in S => n + 1 \in S
    PROVE  Nat \subseteq S
  <1> SUFFICES ASSUME Nat \ S # {} PROVE FALSE
    OBVIOUS
  <1>1. PICK n \in Nat \ S : \A m \in Nat \ S : n <= m
    BY LeastElement
  <1>2. n # 0 /\ n - 1 \in Nat
    BY <1>1
  <1>3. n - 1 \in S
    BY <1>1, <1>2
  <1> QED
    BY <1>2, <1>3

LEMMA FirstIsIn ==
    ASSUME NEW S \in SUBSET Nat, S # {}
    PROVE  First(S) \in S
  BY LeastElement DEF First

-----------------------------------------------------------------------------
(* Sums: the function that adds up some counts exists, and so has the      *)
(* equation it is defined by.                                              *)

Upto(f, k) ==
    CHOOSE g : g = [i \in 0..k |-> IF i = 0 THEN 0 ELSE g[i - 1] + f[i]]

LEMMA UptoEquation ==
    ASSUME NEW f, NEW k \in Nat
    PROVE  Upto(f, k) = [i \in 0..k |-> IF i = 0 THEN 0 ELSE Upto(f, k)[i - 1] + f[i]]
  <1> DEFINE Adds(g, n) == g = [i \in 0..n |-> IF i = 0 THEN 0 ELSE g[i - 1] + f[i]]
             S == {n \in Nat : \E g : Adds(g, n)}
  <1>1. 0 \in S
    <2>1. Adds([i \in 0..0 |-> 0], 0)
      OBVIOUS
    <2> QED
      BY <2>1
  <1>2. ASSUME NEW n \in Nat, n \in S PROVE n + 1 \in S
    <2>1. PICK g : Adds(g, n)
      BY <1>2
    <2> DEFINE h == [i \in 0..(n + 1) |-> IF i = n + 1 THEN g[n] + f[n + 1] ELSE g[i]]
    <2>2. Adds(h, n + 1)
      <3>1. ASSUME NEW i \in 0..(n + 1)
            PROVE  h[i] = IF i = 0 THEN 0 ELSE h[i - 1] + f[i]
        <4>1. CASE i = 0
          BY <2>1, <4>1
        <4>2. CASE i = n + 1
          <5>1. i - 1 = n /\ i # 0 /\ n \in 0..(n + 1) /\ n # n + 1
            BY <4>2
          <5>2. h[n] = g[n] /\ h[i] = g[n] + f[n + 1]
            BY <4>2, <5>1
          <5> QED
            BY <4>2, <5>1, <5>2
        <4>3. CASE i # 0 /\ i # n + 1
          <5>1. i \in 0..n /\ i - 1 \in 0..n /\ i - 1 # n + 1 /\ i - 1 \in 0..(n + 1)
            BY <4>3
          <5>2. g[i] = g[i - 1] + f[i]
            BY <2>1, <4>3, <5>1
          <5>3. h[i] = g[i] /\ h[i - 1] = g[i - 1]
            BY <4>3, <5>1
          <5> QED
            BY <4>3, <5>2, <5>3
        <4> QED
          BY <4>1, <4>2, <4>3
      <3> HIDE DEF h
      <3>2. h = [i \in 0..(n + 1) |-> h[i]]
        BY DEF h
      <3> QED
        BY <3>1, <3>2
    <2> HIDE DEF Adds
    <2> QED
      BY <2>2
  <1> HIDE DEF S
  <1>3. Nat \subseteq S
    BY <1>1, <1>2, Induction
  <1>4. \E g : Adds(g, k)
    BY <1>3 DEF S
  <1> QED
    BY <1>4 DEF Upto

LEMMA UptoValue ==
    ASSUME NEW f, NEW k \in Nat, NEW i \in 0..k
    PROVE  Upto(f, k)[i] = IF i = 0 THEN 0 ELSE Upto(f, k)[i - 1] + f[i]
  <1> DEFINE g == Upto(f, k)
  <1>1. g = [n \in 0..k |-> IF n = 0 THEN 0 ELSE g[n - 1] + f[n]]
    BY UptoEquation
  <1> HIDE DEF g
  <1>2. g[i] = IF i = 0 THEN 0 ELSE g[i - 1] + f[i]
    BY <1>1
  <1> QED
    BY <1>2 DEF g

LEMMA SumIsUpto ==
    ASSUME NEW f
    PROVE  Sum(f) = Upto(f, Len(f))[Len(f)]
  BY DEF Sum, Upto

(* What is counted in several sets are the pairs of a set's position and   *)
(* one of its elements.                                                    *)
Pairs(P, n) == UNION {{<<i, j>> : j \in P[i]} : i \in 1..n}

Tagged(n, S) == {<<n, j>> : j \in S}

LEMMA PairsOfMore ==
    ASSUME NEW P, NEW n \in Nat
    PROVE  /\ Pairs(P, 0) = {}
           /\ Pairs(P, n + 1) = Pairs(P, n) \cup Tagged(n + 1, P[n + 1])
           /\ Pairs(P, n) \cap Tagged(n + 1, P[n + 1]) = {}
  <1>1. 1..0 = {} /\ 1..(n + 1) = 1..n \cup {n + 1} /\ n + 1 \notin 1..n
    OBVIOUS
  <1>2. ASSUME NEW m, NEW x
        PROVE  x \in Pairs(P, m) <=> \E i \in 1..m : \E j \in P[i] : x = <<i, j>>
    BY DEF Pairs
  <1>3. Pairs(P, 0) = {}
    BY <1>1, <1>2 DEF Tagged
  <1>4. Pairs(P, n + 1) = Pairs(P, n) \cup Tagged(n + 1, P[n + 1])
    <2>1. ASSUME NEW x
          PROVE  x \in Pairs(P, n + 1)
                   <=> x \in Pairs(P, n) \cup Tagged(n + 1, P[n + 1])
      BY <1>1, <1>2 DEF Tagged
    <2> QED
      BY <2>1
  <1>5. Pairs(P, n) \cap Tagged(n + 1, P[n + 1]) = {}
    BY <1>1, <1>2 DEF Tagged
  <1> QED
    BY <1>3, <1>4, <1>5

LEMMA TaggedIsAsLarge ==
    ASSUME NEW S, IsFiniteSet(S), NEW n
    PROVE  /\ IsFiniteSet(Tagged(n, S))
           /\ Cardinality(Tagged(n, S)) = Cardinality(S)
  <1> DEFINE T == Tagged(n, S)
             g == [j \in S |-> <<n, j>>]
  <1>1. g \in [S -> T]
    BY DEF Tagged
  <1>2. \A a, b \in S : g[a] = g[b] => a = b
    OBVIOUS
  <1>3. \A t \in T : \E s \in S : g[s] = t
    BY DEF Tagged
  <1>4. g \in Bijection(S, T)
    BY <1>1, <1>2, <1>3 DEF Bijection, Injection, Surjection, IsInjective
  <1>5. ExistsBijection(S, T)
    BY <1>4 DEF ExistsBijection
  <1> HIDE DEF T, g
  <1>6. IsFiniteSet(T) /\ Cardinality(T) = Cardinality(S)
    BY <1>5, FS_Bijection
  <1> QED
    BY <1>6 DEF T

LEMMA SumCountsPairs ==
    ASSUME NEW P, NEW k \in Nat, \A i \in 1..k : IsFiniteSet(P[i]),
           NEW f, f = [i \in 1..k |-> Cardinality(P[i])]
    PROVE  Sum(f) = Cardinality(Pairs(P, k)) /\ IsFiniteSet(Pairs(P, k))
  <1> DEFINE g == Upto(f, k)
             Counted(n) == IsFiniteSet(Pairs(P, n)) /\ g[n] = Cardinality(Pairs(P, n))
             S == {n \in Nat : n <= k => Counted(n)}
  <1>1. \A i \in 0..k : g[i] = IF i = 0 THEN 0 ELSE g[i - 1] + f[i]
    BY UptoValue
  <1> HIDE DEF g
  <1>2. 0 \in S
    <2>1. g[0] = 0
      BY <1>1
    <2> QED
      BY <2>1, PairsOfMore, FS_EmptySet
  <1>3. ASSUME NEW n \in Nat, n \in S PROVE n + 1 \in S
    <2> SUFFICES ASSUME n + 1 <= k PROVE Counted(n + 1)
      OBVIOUS
    <2>1. Counted(n) /\ n + 1 \in 1..k /\ n + 1 \in 0..k /\ n + 1 # 0 /\ (n + 1) - 1 = n
      BY <1>3
    <2>2. g[n + 1] = Cardinality(Pairs(P, n)) + Cardinality(P[n + 1])
      <3>1. g[n + 1] = g[n] + f[n + 1]
        BY <1>1, <2>1
      <3> QED
        BY <2>1, <3>1
    <2> DEFINE new == Tagged(n + 1, P[n + 1])
    <2>3. IsFiniteSet(new) /\ Cardinality(new) = Cardinality(P[n + 1])
      BY <2>1, TaggedIsAsLarge
    <2>4. Pairs(P, n + 1) = Pairs(P, n) \cup new /\ Pairs(P, n) \cap new = {}
      BY PairsOfMore
    <2> HIDE DEF new
    <2>5. IsFiniteSet(Pairs(P, n) \cup new)
      BY <2>1, <2>3, FS_Union
    <2>6. Cardinality(Pairs(P, n) \cup new)
            = Cardinality(Pairs(P, n)) + Cardinality(new) - Cardinality({})
      BY <2>1, <2>3, <2>4, FS_Union
    <2>7. Cardinality({}) = 0 /\ Cardinality(Pairs(P, n)) \in Nat /\ Cardinality(new) \in Nat
      BY <2>1, <2>3, FS_EmptySet, FS_CardinalityType
    <2>8. Cardinality(Pairs(P, n) \cup new) = g[n + 1]
      BY <2>2, <2>3, <2>6, <2>7
    <2> QED
      BY <2>4, <2>5, <2>8
  <1> HIDE DEF S, Counted
  <1>4. Nat \subseteq S
    BY <1>2, <1>3, Induction
  <1>5. Counted(k)
    BY <1>4 DEF S
  <1>6. Len(f) = k
    OBVIOUS
  <1> QED
    BY <1>5, <1>6, SumIsUpto DEF Counted, g

-----------------------------------------------------------------------------
(* Errors of fields, objects and lists.                                    *)

LEMMA FirstErrorNone ==
    ASSUME NEW errors, DOMAIN errors \subseteq Nat
    PROVE  FirstError(errors) = "none" <=> \A i \in DOMAIN errors : errors[i] = "none"
  <1> DEFINE raised == {i \in DOMAIN errors : errors[i] # "none"}
  <1>1. CASE raised = {}
    BY <1>1 DEF FirstError
  <1>2. CASE raised # {}
    <2>1. First(raised) \in raised
      BY <1>2, FirstIsIn
    <2>2. FirstError(errors) = errors[First(raised)]
      BY <1>2 DEF FirstError
    <2> QED
      BY <2>1, <2>2
  <1> QED
    BY <1>1, <1>2

LEMMA PeerErrorNone ==
    ASSUME NEW d
    PROVE  PeerError(d) = "none" <=>
             /\ d # Malformed
             /\ GroupsError(d.groups) = "none"
             /\ RequiredError(d.id) = "none"
             /\ OptionalError(d.name) = "none"
             /\ OptionalError(d.connected) = "none"
             /\ OptionalTimestampError(d.lastSeen) = "none"
  <1> DEFINE errors == <<GroupsError(d.groups), RequiredError(d.id), OptionalError(d.name),
                         OptionalError(d.connected), OptionalTimestampError(d.lastSeen)>>
  <1>1. FirstError(errors) = "none" <=> \A i \in DOMAIN errors : errors[i] = "none"
    BY FirstErrorNone
  <1> QED
    BY <1>1 DEF PeerError, ObjectError

LEMMA NetworkErrorNone ==
    ASSUME NEW d
    PROVE  NetworkError(d) = "none" <=>
             d # Malformed /\ RequiredError(d.id) = "none" /\ RequiredError(d.name) = "none"
  <1> DEFINE errors == <<RequiredError(d.id), RequiredError(d.name)>>
  <1>1. FirstError(errors) = "none" <=> \A i \in DOMAIN errors : errors[i] = "none"
    BY FirstErrorNone
  <1> QED
    BY <1>1 DEF NetworkError, ObjectError

LEMMA ResourceErrorNone ==
    ASSUME NEW d
    PROVE  ResourceError(d) = "none" <=>
             /\ d # Malformed
             /\ RequiredError(d.id) = "none"
             /\ RequiredError(d.name) = "none"
             /\ RequiredError(d.address) = "none"
             /\ RequiredBoolError(d.enabled) = "none"
  <1> DEFINE errors == <<RequiredError(d.id), RequiredError(d.name),
                         RequiredError(d.address), RequiredBoolError(d.enabled)>>
  <1>1. FirstError(errors) = "none" <=> \A i \in DOMAIN errors : errors[i] = "none"
    BY FirstErrorNone
  <1> QED
    BY <1>1 DEF ResourceError, ObjectError

LEMMA RouterErrorNone ==
    ASSUME NEW d
    PROVE  RouterError(d) = "none" <=>
             /\ d # Malformed
             /\ StringsError(d.peerGroups) = "none"
             /\ RequiredError(d.id) = "none"
             /\ RequiredBoolError(d.enabled) = "none"
             /\ OptionalError(d.peer) = "none"
  <1> DEFINE errors == <<StringsError(d.peerGroups), RequiredError(d.id),
                         RequiredBoolError(d.enabled), OptionalError(d.peer)>>
  <1>1. FirstError(errors) = "none" <=> \A i \in DOMAIN errors : errors[i] = "none"
    BY FirstErrorNone
  <1> QED
    BY <1>1 DEF RouterError, ObjectError

(* A peer list without an error is one of good peers, each named once.     *)
LEMMA PeersErrorNone ==
    ASSUME NEW items, items = Malformed \/ DOMAIN items \subseteq Nat
    PROVE  PeersError(items) = "none" <=>
             /\ items # Malformed
             /\ \A i \in DOMAIN items : PeerError(items[i]) = "none" /\ ~Repeated(items, i)
  <1> SUFFICES ASSUME items # Malformed
               PROVE  PeersError(items) = "none" <=>
                        \A i \in DOMAIN items : PeerError(items[i]) = "none" /\ ~Repeated(items, i)
    BY DEF PeersError, ListError
  <1> DEFINE both(i) == <<PeerError(items[i]), SchemaErrorIf(Repeated(items, i))>>
             errors  == [i \in DOMAIN items |-> FirstError(both(i))]
  <1>1. \A i : FirstError(both(i)) = "none" <=> \A j \in DOMAIN both(i) : both(i)[j] = "none"
    BY FirstErrorNone
  <1>2. ASSUME NEW i
        PROVE  FirstError(both(i)) = "none" <=> PeerError(items[i]) = "none" /\ ~Repeated(items, i)
    <2>1. DOMAIN both(i) = {1, 2} /\ both(i)[1] = PeerError(items[i])
            /\ both(i)[2] = SchemaErrorIf(Repeated(items, i))
      OBVIOUS
    <2> QED
      BY <1>1, <2>1 DEF SchemaErrorIf
  <1> HIDE DEF both
  <1>3. FirstError(errors) = "none" <=> \A i \in DOMAIN items : FirstError(both(i)) = "none"
    BY FirstErrorNone
  <1>4. PeersError(items) = FirstError(errors)
    BY DEF PeersError, ListError, both
  <1> QED
    BY <1>2, <1>3, <1>4

LEMMA ListErrorsNone ==
    ASSUME NEW items, items = Malformed \/ DOMAIN items \subseteq Nat
    PROVE  /\ NetworksError(items) = "none" <=>
                items # Malformed /\ \A i \in DOMAIN items : NetworkError(items[i]) = "none"
           /\ ResourcesError(items) = "none" <=>
                items # Malformed /\ \A i \in DOMAIN items : ResourceError(items[i]) = "none"
           /\ RoutersError(items) = "none" <=>
                items # Malformed /\ \A i \in DOMAIN items : RouterError(items[i]) = "none"
  <1> SUFFICES ASSUME items # Malformed
               PROVE  /\ NetworksError(items) = "none" <=>
                           \A i \in DOMAIN items : NetworkError(items[i]) = "none"
                      /\ ResourcesError(items) = "none" <=>
                           \A i \in DOMAIN items : ResourceError(items[i]) = "none"
                      /\ RoutersError(items) = "none" <=>
                           \A i \in DOMAIN items : RouterError(items[i]) = "none"
    BY DEF NetworksError, ResourcesError, RoutersError, ListError
  <1> DEFINE network  == [i \in DOMAIN items |-> NetworkError(items[i])]
             resource == [i \in DOMAIN items |-> ResourceError(items[i])]
             router   == [i \in DOMAIN items |-> RouterError(items[i])]
  <1>1. FirstError(network) = "none" <=> \A i \in DOMAIN items : network[i] = "none"
    BY FirstErrorNone
  <1>2. FirstError(resource) = "none" <=> \A i \in DOMAIN items : resource[i] = "none"
    BY FirstErrorNone
  <1>3. FirstError(router) = "none" <=> \A i \in DOMAIN items : router[i] = "none"
    BY FirstErrorNone
  <1> QED
    BY <1>1, <1>2, <1>3 DEF NetworksError, ResourcesError, RoutersError, ListError

(* What is parsed from objects without errors.                             *)
LEMMA PeerIsParsed ==
    ASSUME NEW d \in {Malformed} \cup PeerObject(PeerIds), PeerError(d) = "none"
    PROVE  ParsePeer(d) \in NetBirdPeer /\ d.id \in PeerIds
  <1>1. d \in PeerObject(PeerIds)
    BY PeerErrorNone
  <1>2. d.id \in PeerIds
    BY <1>1, PeerErrorNone
       DEF PeerObject, IdField, Field, RequiredError, SchemaErrorIf, Missing
  <1>3. Optional(d.name) \in AnyText \cup {None}
    BY <1>1, PeerErrorNone DEF PeerObject, Field, OptionalError, SchemaErrorIf, Missing, Optional
  <1>4. Optional(d.connected) \in BOOLEAN \cup {None}
    BY <1>1, PeerErrorNone DEF PeerObject, Field, OptionalError, SchemaErrorIf, Missing, Optional
  <1>5. OptionalTimestamp(d.lastSeen) \in Times \cup {None}
    BY DEF OptionalTimestamp
  <1>6. Groups(d.groups) \in {None} \cup SUBSET Texts
    <2> DEFINE v == d.groups
    <2>1. v \in {Absent, Null, Malformed} \cup SUBSET Field(AnyText)
      BY <1>1 DEF PeerObject, Field
    <2>2. GroupsError(v) = "none"
      BY PeerErrorNone
    <2> HIDE DEF v
    <2>3. Missing(v) => Groups(v) \in {None} \cup SUBSET Texts
      BY DEF Groups, Optional
    <2>4. ASSUME ~Missing(v) PROVE Groups(v) \in SUBSET Texts
      <3>1. v # Malformed /\ \A g \in v : RequiredError(g) = "none"
        BY <2>2, <2>4 DEF GroupsError, SchemaErrorIf
      <3>2. v \in SUBSET Field(AnyText)
        BY <2>1, <2>4, <3>1 DEF Missing
      <3>3. ASSUME NEW g \in v PROVE g \in Texts
        BY <3>1, <3>2 DEF RequiredError, SchemaErrorIf, Missing, Field, AnyText
      <3>4. v \in SUBSET Texts
        BY <3>3
      <3> QED
        BY <2>4, <3>4 DEF Groups, Optional
    <2>5. Groups(v) \in {None} \cup SUBSET Texts
      BY <2>3, <2>4
    <2> QED
      BY <2>5 DEF v
  <1> QED
    BY <1>2, <1>3, <1>4, <1>5, <1>6 DEF ParsePeer, NetBirdPeer

LEMMA NetworkIsParsed ==
    ASSUME NEW d \in {Malformed} \cup NetworkObject(NetworkIds), NetworkError(d) = "none"
    PROVE  ParseNetwork(d) \in NetBirdNetwork /\ d.id \in NetworkIds
  <1>1. d \in NetworkObject(NetworkIds)
    BY NetworkErrorNone
  <1>2. RequiredError(d.id) = "none" /\ RequiredError(d.name) = "none"
    BY NetworkErrorNone
  <1> QED
    BY <1>1, <1>2 DEF NetworkObject, IdField, Field, AnyText, RequiredError, SchemaErrorIf,
                      Missing, ParseNetwork, NetBirdNetwork

LEMMA ResourceIsParsed ==
    ASSUME NEW d \in {Malformed} \cup ResourceObject(ResourceIds), ResourceError(d) = "none"
    PROVE  ParseResource(d) \in NetBirdResource
  <1>1. d \in ResourceObject(ResourceIds)
    BY ResourceErrorNone
  <1>2. /\ RequiredError(d.id) = "none" /\ RequiredError(d.name) = "none"
        /\ RequiredError(d.address) = "none" /\ RequiredBoolError(d.enabled) = "none"
    BY ResourceErrorNone
  <1>3. /\ d.id \in ResourceIds /\ d.name \in Texts /\ d.address \in Texts
        /\ d.enabled \in BOOLEAN
    BY <1>1, <1>2 DEF ResourceObject, IdField, Field, AnyText, RequiredError,
                      RequiredBoolError, SchemaErrorIf, Missing
  <1> QED
    BY <1>3 DEF ParseResource, NetBirdResource

LEMMA RouterIsParsed ==
    ASSUME NEW d \in {Malformed} \cup RouterObject, RouterError(d) = "none"
    PROVE  ParseRouter(d) \in NetBirdRouter
  <1>1. d \in RouterObject
    BY RouterErrorNone
  <1>2. /\ RequiredError(d.id) = "none" /\ RequiredBoolError(d.enabled) = "none"
        /\ OptionalError(d.peer) = "none" /\ StringsError(d.peerGroups) = "none"
    BY RouterErrorNone
  <1>3. d.id \in Texts /\ d.enabled \in BOOLEAN /\ Optional(d.peer) \in AnyText \cup {None}
    BY <1>1, <1>2 DEF RouterObject, Field, AnyText, RequiredError, RequiredBoolError,
                      OptionalError, SchemaErrorIf, Missing, Optional
  <1>4. Strings(d.peerGroups) \in SUBSET AnyText
    <2> DEFINE v == d.peerGroups
    <2>1. v \in {Absent, Null, Malformed} \cup SUBSET ({Malformed} \cup AnyText)
      BY <1>1 DEF RouterObject, Field
    <2>2. Missing(v) \/ (v # Malformed /\ Malformed \notin v)
      BY <1>2 DEF StringsError, SchemaErrorIf
    <2> HIDE DEF v
    <2>3. Strings(v) \in SUBSET AnyText
      BY <2>1, <2>2 DEF Missing, Strings
    <2> QED
      BY <2>3 DEF v
  <1> QED
    BY <1>3, <1>4 DEF ParseRouter, NetBirdRouter

-----------------------------------------------------------------------------
(* What a call of the client returns when it ends without an error.        *)

LEMMA FirstOfIsIn ==
    ASSUME NEW items, NEW S \in SUBSET Nat, S # {}
    PROVE  \E i \in S : FirstOf(items, S) = items[i]
  BY FirstIsIn DEF FirstOf

LEMMA FirstOfOnly ==
    ASSUME NEW items, NEW S \in SUBSET Nat, NEW i \in S, \A j \in S : j = i
    PROVE  FirstOf(items, S) = items[i]
  BY FirstIsIn DEF FirstOf

LEMMA BodyIsList ==
    ASSUME NEW objects, NEW body \in Bodies(objects), body # Malformed
    PROVE  /\ body \in Seq({Malformed} \cup objects)
           /\ DOMAIN body = 1..Len(body) /\ Len(body) \in Nat
           /\ DOMAIN body \subseteq Nat
           /\ \A i \in DOMAIN body : body[i] \in {Malformed} \cup objects
  <1>1. body \in Seq({Malformed} \cup objects)
    BY DEF Bodies
  <1> QED
    BY <1>1

LEMMA RepliedWithoutError ==
    ASSUME NEW r, NEW bodyError
    PROVE  ReplyError(r, bodyError) = "none" <=> Replied(r) /\ bodyError = "none"
  BY DEF ReplyError, Replied

LEMMA PeersParsed ==
    ASSUME NEW r \in Reply(PeerObject(PeerIds)), GetPeersError(r) = "none"
    PROVE  /\ Replied(r)
           /\ DOMAIN r.body = 1..Len(r.body) /\ Len(r.body) \in Nat
           /\ \A i \in DOMAIN r.body :
                /\ r.body[i] \in PeerObject(PeerIds)
                /\ PeerError(r.body[i]) = "none" /\ r.body[i].id \in PeerIds
           /\ \A i, j \in DOMAIN r.body : r.body[i].id = r.body[j].id => i = j
           /\ PeersRead(r) \in Seq(NetBirdPeer)
           /\ DOMAIN PeersRead(r) = DOMAIN r.body
           /\ \A i \in DOMAIN r.body : PeersRead(r)[i] = ParsePeer(r.body[i])
  <1> DEFINE body == r.body
  <1>1. body \in Bodies(PeerObject(PeerIds))
    BY DEF Reply
  <1>2. Replied(r) /\ PeersError(body) = "none"
    BY RepliedWithoutError DEF GetPeersError
  <1>3. body # Malformed
    BY <1>2 DEF PeersError, ListError
  <1>4. /\ DOMAIN body = 1..Len(body) /\ Len(body) \in Nat /\ DOMAIN body \subseteq Nat
        /\ \A i \in DOMAIN body : body[i] \in {Malformed} \cup PeerObject(PeerIds)
    BY <1>1, <1>3, BodyIsList
  <1>5. \A i \in DOMAIN body : PeerError(body[i]) = "none" /\ ~Repeated(body, i)
    BY <1>2, <1>4, PeersErrorNone
  <1>6. ASSUME NEW i \in DOMAIN body
        PROVE  /\ body[i] \in PeerObject(PeerIds) /\ body[i].id \in PeerIds
               /\ ParsePeer(body[i]) \in NetBirdPeer
               /\ body[i] # Malformed
    BY <1>4, <1>5, PeerErrorNone, PeerIsParsed
  <1>7. ASSUME NEW i \in DOMAIN body, NEW j \in DOMAIN body, body[i].id = body[j].id
        PROVE  i = j
    <2>1. Same(body, i, j) /\ Same(body, j, i)
      BY <1>6, <1>7 DEF Same
    <2>2. ~(i < j) /\ ~(j < i)
      BY <1>4, <1>5, <2>1 DEF Repeated
    <2> QED
      BY <1>4, <2>2
  <1>8. PeersRead(r) = [i \in 1..Len(body) |-> ParsePeer(body[i])]
    BY <1>4 DEF PeersRead
  <1>9. PeersRead(r) \in Seq(NetBirdPeer)
    BY <1>4, <1>6, <1>8
  <1> QED
    BY <1>2, <1>4, <1>5, <1>6, <1>7, <1>8, <1>9

LEMMA ResourcesParsed ==
    ASSUME NEW id, NEW r \in Reply(ResourceObject(ResourceIds)),
           GetResourcesError(id, r) = "none"
    PROVE  /\ Replied(r) /\ PathError(id) = "none"
           /\ DOMAIN r.body = 1..Len(r.body) /\ Len(r.body) \in Nat
           /\ \A i \in DOMAIN r.body : r.body[i] # Malformed
           /\ ResourcesRead(id, r) \in Seq(NetBirdResource)
           /\ DOMAIN ResourcesRead(id, r) = DOMAIN r.body
           /\ \A i \in DOMAIN r.body : ResourcesRead(id, r)[i] = ParseResource(r.body[i])
  <1> DEFINE body == r.body
  <1>1. body \in Bodies(ResourceObject(ResourceIds))
    BY DEF Reply
  <1>2. Replied(r) /\ ResourcesError(body) = "none" /\ PathError(id) = "none"
    BY RepliedWithoutError DEF GetResourcesError, SectionError
  <1>3. body # Malformed
    BY <1>2 DEF ResourcesError, ListError
  <1>4. /\ DOMAIN body = 1..Len(body) /\ Len(body) \in Nat /\ DOMAIN body \subseteq Nat
        /\ \A i \in DOMAIN body : body[i] \in {Malformed} \cup ResourceObject(ResourceIds)
    BY <1>1, <1>3, BodyIsList
  <1>5. \A i \in DOMAIN body : ResourceError(body[i]) = "none"
    BY <1>2, <1>4, ListErrorsNone
  <1>6. ASSUME NEW i \in DOMAIN body
        PROVE  ParseResource(body[i]) \in NetBirdResource /\ body[i] # Malformed
    BY <1>4, <1>5, ResourceErrorNone, ResourceIsParsed
  <1>7. ResourcesRead(id, r) = [i \in 1..Len(body) |-> ParseResource(body[i])]
    BY <1>4 DEF ResourcesRead
  <1>8. ResourcesRead(id, r) \in Seq(NetBirdResource)
    BY <1>4, <1>6, <1>7
  <1> QED
    BY <1>2, <1>4, <1>6, <1>7, <1>8

LEMMA RoutersParsed ==
    ASSUME NEW id, NEW r \in Reply(RouterObject), GetRoutersError(id, r) = "none"
    PROVE  /\ Replied(r) /\ PathError(id) = "none"
           /\ DOMAIN r.body = 1..Len(r.body) /\ Len(r.body) \in Nat
           /\ RoutersRead(id, r) \in Seq(NetBirdRouter)
           /\ DOMAIN RoutersRead(id, r) = DOMAIN r.body
           /\ \A i \in DOMAIN r.body : RoutersRead(id, r)[i] = ParseRouter(r.body[i])
  <1> DEFINE body == r.body
  <1>1. body \in Bodies(RouterObject)
    BY DEF Reply
  <1>2. Replied(r) /\ RoutersError(body) = "none" /\ PathError(id) = "none"
    BY RepliedWithoutError DEF GetRoutersError, SectionError
  <1>3. body # Malformed
    BY <1>2 DEF RoutersError, ListError
  <1>4. /\ DOMAIN body = 1..Len(body) /\ Len(body) \in Nat /\ DOMAIN body \subseteq Nat
        /\ \A i \in DOMAIN body : body[i] \in {Malformed} \cup RouterObject
    BY <1>1, <1>3, BodyIsList
  <1>5. \A i \in DOMAIN body : RouterError(body[i]) = "none"
    BY <1>2, <1>4, ListErrorsNone
  <1>6. ASSUME NEW i \in DOMAIN body
        PROVE  ParseRouter(body[i]) \in NetBirdRouter
    BY <1>4, <1>5, RouterErrorNone, RouterIsParsed
  <1>7. RoutersRead(id, r) = [i \in 1..Len(body) |-> ParseRouter(body[i])]
    BY <1>4 DEF RoutersRead
  <1>8. RoutersRead(id, r) \in Seq(NetBirdRouter)
    BY <1>4, <1>6, <1>7
  <1> QED
    BY <1>2, <1>4, <1>6, <1>7, <1>8

LEMMA TopologyParsed ==
    ASSUME NEW t \in TopologyReply, GetNetworksError(t.networks) = "none"
    PROVE  LET body == t.networks.body
           IN  /\ Replied(t.networks)
               /\ DOMAIN body = 1..Len(body) /\ Len(body) \in Nat
               /\ \A i \in DOMAIN body : body[i] # Malformed /\ body[i].id \in NetworkIds
               /\ Snapshot(t) \in Seq(NetBirdNetworkTopology)
               /\ DOMAIN Snapshot(t) = DOMAIN body
               /\ \A i \in DOMAIN body : Snapshot(t)[i] = NetworkRead(t, body[i])
  <1> DEFINE body == t.networks.body
  <1>0. t.networks \in Reply(NetworkObject(NetworkIds))
    BY DEF TopologyReply
  <1>1. body \in Bodies(NetworkObject(NetworkIds))
    BY <1>0 DEF Reply
  <1>2. Replied(t.networks) /\ NetworksError(body) = "none"
    BY RepliedWithoutError DEF GetNetworksError
  <1>3. body # Malformed
    BY <1>2 DEF NetworksError, ListError
  <1>4. /\ DOMAIN body = 1..Len(body) /\ Len(body) \in Nat /\ DOMAIN body \subseteq Nat
        /\ \A i \in DOMAIN body : body[i] \in {Malformed} \cup NetworkObject(NetworkIds)
    BY <1>1, <1>3, BodyIsList
  <1>5. \A i \in DOMAIN body : NetworkError(body[i]) = "none"
    BY <1>2, <1>4, ListErrorsNone
  <1>6. ASSUME NEW i \in DOMAIN body
        PROVE  /\ ParseNetwork(body[i]) \in NetBirdNetwork
               /\ body[i].id \in NetworkIds /\ body[i] # Malformed
    BY <1>4, <1>5, NetworkErrorNone, NetworkIsParsed
  <1>7. ASSUME NEW n \in NetworkIds
        PROVE  /\ ResourcesRead(n, t.resources[n]) \in {None} \cup Seq(NetBirdResource)
               /\ RoutersRead(n, t.routers[n]) \in {None} \cup Seq(NetBirdRouter)
    <2>1. /\ t.resources[n] \in Reply(ResourceObject(ResourceIds))
          /\ t.routers[n] \in Reply(RouterObject)
      BY DEF TopologyReply
    <2>2. ResourcesRead(n, t.resources[n]) \in {None} \cup Seq(NetBirdResource)
      BY <2>1, ResourcesParsed DEF ResourcesRead
    <2>3. RoutersRead(n, t.routers[n]) \in {None} \cup Seq(NetBirdRouter)
      BY <2>1, RoutersParsed DEF RoutersRead
    <2> QED
      BY <2>2, <2>3
  <1>8. ASSUME NEW i \in DOMAIN body
        PROVE  NetworkRead(t, body[i]) \in NetBirdNetworkTopology
    BY <1>6, <1>7 DEF NetworkRead, NetBirdNetworkTopology
  <1>9. Snapshot(t) = [i \in 1..Len(body) |-> NetworkRead(t, body[i])]
    BY <1>4 DEF Snapshot
  <1>10. Snapshot(t) \in Seq(NetBirdNetworkTopology)
    BY <1>4, <1>8, <1>9
  <1> QED
    BY <1>2, <1>4, <1>6, <1>9, <1>10

-----------------------------------------------------------------------------
(* The inductive invariant: a coordinator's last refresh succeeded exactly *)
(* if what was answered last can be parsed; its data are then what was     *)
(* parsed; and devices bear the names of the data, which a refresh that    *)
(* fails keeps.                                                            *)

TypeOK ==
    /\ peers \in Seq(NetBirdPeer) /\ peersOk \in BOOLEAN
    /\ topology \in {None} \cup Seq(NetBirdNetworkTopology) /\ topologyOk \in BOOLEAN
    /\ peerReply \in Reply(PeerObject(PeerIds))
    /\ topologyReply \in TopologyReply

Distinct ==
    /\ DistinctIds(topologyReply.networks.body)
    /\ \A n \in NetworkIds : DistinctIds(topologyReply.resources[n].body)

PeersAsRead ==
    /\ peersOk <=> GetPeersError(peerReply) = "none"
    /\ peersOk => peers = PeersRead(peerReply)

TopologyAsRead ==
    /\ topologyOk <=> TopologySucceeds(topologyReply)
    /\ topologyOk => topology = Snapshot(topologyReply)

PeersNamed ==
    \A p \in PeerIds :
      PeerIn(peers, p) # None => peerName[p] = DisplayName(PeerIn(peers, p))

NetworksNamed ==
    \A n \in NetworkIds :
      NetworkIn(topology, n) # None => networkName[n] = NetworkIn(topology, n).network.name

ResourcesNamed ==
    \A n \in NetworkIds, r \in ResourceIds :
      ResourceIn(topology, n, r) # None =>
        resourceName[n][r] = ResourceIn(topology, n, r).name

IInv ==
    /\ TypeOK /\ Distinct /\ PeersAsRead /\ TopologyAsRead
    /\ PeersNamed /\ NetworksNamed /\ ResourcesNamed

LEMMA NoReplyIsReply ==
    ASSUME NEW objects
    PROVE  /\ NoReply \in Reply(objects)
           /\ ~Replied(NoReply)
           /\ NoReply.body = <<>> /\ DistinctIds(NoReply.body)
           /\ \A bodyError : ReplyError(NoReply, bodyError) # "none"
  <1>1. "other" \in DOMAIN Failures /\ Failures["other"] = "Unexpected"
    BY DEF Failures
  <1>2. <<>> \in Bodies(objects)
    BY DEF Bodies
  <1>3. NoReply \in Reply(objects)
    BY <1>1, <1>2 DEF NoReply, Reply
  <1>4. FetchError(NoReply) = "Unexpected"
    BY <1>1 DEF NoReply, FetchError
  <1> QED
    BY <1>3, <1>4 DEF NoReply, Replied, ReplyError, DistinctIds

LEMMA InitInvariant == Init => IInv
  <1> SUFFICES ASSUME Init PROVE IInv
    OBVIOUS
  <1> USE DEF Init
  <1>1. TypeOK
    <2>1. \A objects : NoReply \in Reply(objects)
      BY NoReplyIsReply
    <2>2. peerReply \in Reply(PeerObject(PeerIds)) /\ topologyReply \in TopologyReply
      BY <2>1 DEF TopologyReply
    <2>3. <<>> \in Seq(NetBirdPeer)
      OBVIOUS
    <2> QED
      BY <2>2, <2>3 DEF TypeOK
  <1>2. Distinct
    BY NoReplyIsReply DEF Distinct
  <1>3. PeersAsRead
    BY NoReplyIsReply DEF PeersAsRead, GetPeersError
  <1>4. TopologyAsRead
    BY NoReplyIsReply DEF TopologyAsRead, TopologySucceeds, GetNetworksError
  <1>5. PeersNamed
    BY DEF PeersNamed, PeerIn, FirstOf
  <1>6. NetworksNamed /\ ResourcesNamed
    BY DEF NetworksNamed, ResourcesNamed, NetworkIn, ResourceIn
  <1> QED
    BY <1>1, <1>2, <1>3, <1>4, <1>5, <1>6 DEF IInv

LEMMA PeersRefreshedInvariant ==
    ASSUME IInv, NEW r \in PeerReplies, PeersRefreshed(r)
    PROVE  IInv'
  <1> DEFINE new == PeersRead(r)
  <1>0. r \in Reply(PeerObject(PeerIds)) /\ GetPeersError(r) = "none"
    BY ReplyAssumption DEF PeersRefreshed
  <1>a. /\ peerReply' = r /\ peers' = new /\ peersOk' = TRUE
        /\ peerName' = IF ~peersOk \/ new # peers THEN NamedPeers(new) ELSE peerName
        /\ UNCHANGED <<topology, topologyOk, networkName, resourceName, topologyReply>>
    BY DEF PeersRefreshed
  <1>1. TypeOK'
    BY <1>0, <1>a, PeersParsed DEF IInv, TypeOK
  <1>2. Distinct' /\ TopologyAsRead' /\ NetworksNamed' /\ ResourcesNamed'
    BY <1>a DEF IInv, Distinct, TopologyAsRead, NetworksNamed, ResourcesNamed
  <1>3. PeersAsRead'
    BY <1>0, <1>a DEF PeersAsRead
  <1> HIDE DEF new
  <1>4. PeersNamed'
    <2>1. CASE ~peersOk \/ new # peers
      BY <1>a, <2>1 DEF PeersNamed, NamedPeers
    <2>2. CASE ~(~peersOk \/ new # peers)
      BY <1>a, <2>2 DEF IInv, PeersNamed
    <2> QED
      BY <2>1, <2>2
  <1> QED
    BY <1>1, <1>2, <1>3, <1>4 DEF IInv

LEMMA PeersFailedInvariant ==
    ASSUME IInv, NEW r \in PeerReplies, PeersFailed(r)
    PROVE  IInv'
  <1>0. r \in Reply(PeerObject(PeerIds)) /\ GetPeersError(r) # "none"
    BY ReplyAssumption DEF PeersFailed
  <1>a. /\ peerReply' = r /\ peersOk' = FALSE
        /\ UNCHANGED <<peers, topology, topologyOk, peerName, networkName, resourceName,
                       topologyReply>>
    BY DEF PeersFailed
  <1>1. TypeOK'
    BY <1>0, <1>a DEF IInv, TypeOK
  <1>2. Distinct' /\ TopologyAsRead' /\ PeersNamed' /\ NetworksNamed' /\ ResourcesNamed'
    BY <1>a DEF IInv, Distinct, TopologyAsRead, PeersNamed, NetworksNamed, ResourcesNamed
  <1>3. PeersAsRead'
    BY <1>0, <1>a DEF PeersAsRead
  <1> QED
    BY <1>1, <1>2, <1>3 DEF IInv

LEMMA TopologyRefreshedInvariant ==
    ASSUME IInv, NEW t \in TopologyReplies, TopologyRefreshed(t)
    PROVE  IInv'
  <1> DEFINE new  == Snapshot(t)
             told == ~topologyOk \/ new # topology
  <1>0. /\ t \in TopologyReply /\ TopologySucceeds(t)
        /\ DistinctIds(t.networks.body)
        /\ \A n \in NetworkIds : DistinctIds(t.resources[n].body)
    BY ReplyAssumption DEF TopologyRefreshed
  <1>a. /\ topologyReply' = t /\ topology' = new /\ topologyOk' = TRUE
        /\ networkName' = IF told THEN NamedNetworks(new) ELSE networkName
        /\ resourceName' = IF told THEN NamedResources(new) ELSE resourceName
        /\ UNCHANGED <<peers, peersOk, peerName, peerReply>>
    BY DEF TopologyRefreshed
  <1>b. new \in Seq(NetBirdNetworkTopology)
    BY <1>0, TopologyParsed DEF TopologySucceeds
  <1>1. TypeOK'
    BY <1>0, <1>a, <1>b DEF IInv, TypeOK
  <1>2. Distinct' /\ PeersAsRead' /\ PeersNamed'
    BY <1>0, <1>a DEF IInv, Distinct, PeersAsRead, PeersNamed
  <1>3. TopologyAsRead'
    BY <1>0, <1>a DEF TopologyAsRead
  <1>4. told \/ new = topology
    OBVIOUS
  <1> HIDE DEF new, told
  <1>5. NetworksNamed'
    <2>1. CASE told
      BY <1>a, <2>1 DEF NetworksNamed, NamedNetworks
    <2>2. CASE ~told
      BY <1>a, <1>4, <2>2 DEF IInv, NetworksNamed
    <2> QED
      BY <2>1, <2>2
  <1>6. ResourcesNamed'
    <2>1. CASE told
      BY <1>a, <2>1 DEF ResourcesNamed, NamedResources
    <2>2. CASE ~told
      BY <1>a, <1>4, <2>2 DEF IInv, ResourcesNamed
    <2> QED
      BY <2>1, <2>2
  <1> QED
    BY <1>1, <1>2, <1>3, <1>5, <1>6 DEF IInv

LEMMA TopologyFailedInvariant ==
    ASSUME IInv, NEW t \in TopologyReplies, TopologyFailed(t)
    PROVE  IInv'
  <1>0. /\ t \in TopologyReply /\ ~TopologySucceeds(t)
        /\ DistinctIds(t.networks.body)
        /\ \A n \in NetworkIds : DistinctIds(t.resources[n].body)
    BY ReplyAssumption DEF TopologyFailed
  <1>a. /\ topologyReply' = t /\ topologyOk' = FALSE
        /\ UNCHANGED <<peers, peersOk, topology, peerName, networkName, resourceName,
                       peerReply>>
    BY DEF TopologyFailed
  <1>1. TypeOK'
    BY <1>0, <1>a DEF IInv, TypeOK
  <1>2. Distinct' /\ PeersAsRead' /\ PeersNamed' /\ NetworksNamed' /\ ResourcesNamed'
    BY <1>0, <1>a DEF IInv, Distinct, PeersAsRead, PeersNamed, NetworksNamed, ResourcesNamed
  <1>3. TopologyAsRead'
    BY <1>0, <1>a DEF TopologyAsRead
  <1> QED
    BY <1>1, <1>2, <1>3 DEF IInv

(* Whatever the service answers, and in whatever order the two coordinators*)
(* refresh: what they keep is well formed, an update counts as successful  *)
(* exactly if all of its replies could be read, and every device bears the *)
(* name that the kept data give it (coordinator.py, entity.py:60-79,       *)
(* topology_entity.py:131-145).                                            *)
THEOREM InductiveInvariant == Spec => []IInv
  <1>1. IInv /\ [Next]_vars => IInv'
    <2> SUFFICES ASSUME IInv, [Next]_vars PROVE IInv'
      OBVIOUS
    <2>1. CASE UNCHANGED vars
      BY <2>1 DEF vars, IInv, TypeOK, Distinct, PeersAsRead, TopologyAsRead, PeersNamed,
                  NetworksNamed, ResourcesNamed
    <2>2. CASE PeerStep
      BY <2>2, PeersRefreshedInvariant, PeersFailedInvariant DEF PeerStep
    <2>3. CASE TopologyStep
      BY <2>3, TopologyRefreshedInvariant, TopologyFailedInvariant DEF TopologyStep
    <2> QED
      BY <2>1, <2>2, <2>3 DEF Next
  <1> QED
    BY InitInvariant, <1>1, PTL DEF Spec

-----------------------------------------------------------------------------
(* What the data of a successful refresh hold of one id.                   *)

LEMMA ParsedFields ==
    ASSUME NEW t, NEW d
    PROVE  /\ ParsePeer(d).id = d.id /\ ParsePeer(d).name = Optional(d.name)
           /\ ParsePeer(d).connected = Optional(d.connected)
           /\ ParsePeer(d).lastSeen = OptionalTimestamp(d.lastSeen)
           /\ ParsePeer(d).groups = Groups(d.groups)
           /\ ParseNetwork(d).id = d.id /\ ParseNetwork(d).name = d.name
           /\ ParseResource(d).id = d.id /\ ParseResource(d).name = d.name
           /\ ParseResource(d).address = d.address /\ ParseResource(d).enabled = d.enabled
           /\ ParseRouter(d).enabled = d.enabled
           /\ NetworkRead(t, d).network = ParseNetwork(d)
           /\ NetworkRead(t, d).resources = ResourcesRead(d.id, t.resources[d.id])
           /\ NetworkRead(t, d).routers = RoutersRead(d.id, t.routers[d.id])
  BY DEF ParsePeer, ParseNetwork, ParseResource, ParseRouter, NetworkRead

LEMMA PeerAsRead ==
    ASSUME IInv, peersOk, NEW i \in DOMAIN peerReply.body
    PROVE  /\ peerReply.body[i].id \in PeerIds
           /\ PeerIn(peers, peerReply.body[i].id) = ParsePeer(peerReply.body[i])
           /\ ParsePeer(peerReply.body[i]) # None
           /\ \A j \in DOMAIN peerReply.body :
                peerReply.body[j].id = peerReply.body[i].id => j = i
  <1> DEFINE body == peerReply.body
             p    == body[i].id
  <1>0. /\ peerReply \in Reply(PeerObject(PeerIds)) /\ GetPeersError(peerReply) = "none"
        /\ peers = PeersRead(peerReply)
    BY DEF IInv, TypeOK, PeersAsRead
  <1>1. /\ DOMAIN body = 1..Len(body) /\ Len(body) \in Nat
        /\ \A j \in DOMAIN body : body[j] \in PeerObject(PeerIds) /\ PeerError(body[j]) = "none"
                                    /\ body[j].id \in PeerIds
        /\ \A j, k \in DOMAIN body : body[j].id = body[k].id => j = k
        /\ DOMAIN peers = DOMAIN body
        /\ \A j \in DOMAIN body : peers[j] = ParsePeer(body[j])
    BY <1>0, PeersParsed
  <1>2. ASSUME NEW j \in DOMAIN body PROVE peers[j].id = body[j].id
    <2>1. peers[j] = ParsePeer(body[j])
      BY <1>1
    <2>2. ParsePeer(body[j]).id = body[j].id
      BY DEF ParsePeer
    <2> HIDE DEF body
    <2> QED
      BY <2>1, <2>2
  <1>3. PeerIn(peers, p) = peers[i]
    <2> DEFINE S == {j \in DOMAIN peers : peers[j].id = p}
    <2>1. i \in S /\ S \in SUBSET Nat /\ \A j \in S : j = i
      BY <1>1, <1>2
    <2> HIDE DEF S
    <2>2. FirstOf(peers, S) = peers[i]
      BY <2>1, FirstOfOnly
    <2> QED
      BY <2>2 DEF PeerIn, S
  <1>4. ParsePeer(body[i]) \in NetBirdPeer
    BY <1>1, PeerIsParsed
  <1>5. ParsePeer(body[i]) # None
    BY <1>4, NoneAssumption
  <1> QED
    BY <1>1, <1>3, <1>5

LEMMA PeerIsListed ==
    ASSUME IInv, peersOk, NEW p, PeerIn(peers, p) # None
    PROVE  \E i \in DOMAIN peerReply.body : peerReply.body[i].id = p
  <1>0. /\ peerReply \in Reply(PeerObject(PeerIds)) /\ GetPeersError(peerReply) = "none"
        /\ peers = PeersRead(peerReply)
    BY DEF IInv, TypeOK, PeersAsRead
  <1>1. /\ DOMAIN peers = DOMAIN peerReply.body
        /\ \A j \in DOMAIN peers : peers[j] = ParsePeer(peerReply.body[j])
    BY <1>0, PeersParsed
  <1>2. PICK j \in DOMAIN peers : peers[j].id = p
    BY DEF PeerIn, FirstOf
  <1> QED
    BY <1>1, <1>2, ParsedFields

LEMMA NetworkAsRead ==
    ASSUME IInv, topologyOk, NEW i \in DOMAIN topologyReply.networks.body
    PROVE  LET d == topologyReply.networks.body[i]
           IN  /\ d.id \in NetworkIds
               /\ topology[i] = NetworkRead(topologyReply, d)
               /\ NetworkIn(topology, d.id) = topology[i]
               /\ topology[i] # None
               /\ topology[i].network = ParseNetwork(d)
               /\ topology[i].resources = ResourcesRead(d.id, topologyReply.resources[d.id])
               /\ topology[i].routers = RoutersRead(d.id, topologyReply.routers[d.id])
  <1> DEFINE body == topologyReply.networks.body
             d    == body[i]
  <1>0. /\ topologyReply \in TopologyReply /\ GetNetworksError(topologyReply.networks) = "none"
        /\ topology = Snapshot(topologyReply)
        /\ topology \in Seq(NetBirdNetworkTopology) /\ DistinctIds(body)
    BY TopologyParsed DEF IInv, TypeOK, TopologyAsRead, TopologySucceeds, Distinct
  <1>1. /\ DOMAIN body = 1..Len(body) /\ Len(body) \in Nat
        /\ \A j \in DOMAIN body : body[j] # Malformed /\ body[j].id \in NetworkIds
        /\ DOMAIN topology = DOMAIN body
        /\ \A j \in DOMAIN body : topology[j] = NetworkRead(topologyReply, body[j])
        /\ body # Malformed
    BY <1>0, TopologyParsed, RepliedWithoutError DEF GetNetworksError, NetworksError, ListError
  <1>2. \A j \in DOMAIN body :
          /\ topology[j].network = ParseNetwork(body[j])
          /\ topology[j].network.id = body[j].id
          /\ topology[j].resources = ResourcesRead(body[j].id, topologyReply.resources[body[j].id])
          /\ topology[j].routers = RoutersRead(body[j].id, topologyReply.routers[body[j].id])
    BY <1>1, ParsedFields
  <1>3. \A j \in DOMAIN body : body[j].id = d.id => j = i
    BY <1>0, <1>1 DEF DistinctIds, Same
  <1>4. topology # None /\ topology[i] # None
    BY <1>0, <1>1, NoneAssumption
  <1>5. NetworkIn(topology, d.id) = topology[i]
    <2> DEFINE S == {j \in DOMAIN topology : topology[j].network.id = d.id}
    <2>1. i \in S /\ S \in SUBSET Nat /\ \A j \in S : j = i
      BY <1>1, <1>2, <1>3
    <2> HIDE DEF S
    <2>2. FirstOf(topology, S) = topology[i]
      BY <2>1, FirstOfOnly
    <2> QED
      BY <1>4, <2>2 DEF NetworkIn, S
  <1> QED
    BY <1>1, <1>2, <1>4, <1>5

LEMMA NetworkIsListed ==
    ASSUME IInv, topologyOk, NEW n, NetworkIn(topology, n) # None
    PROVE  \E i \in DOMAIN topologyReply.networks.body :
             topologyReply.networks.body[i].id = n /\ NetworkIn(topology, n) = topology[i]
  <1>0. /\ topologyReply \in TopologyReply /\ GetNetworksError(topologyReply.networks) = "none"
        /\ topology = Snapshot(topologyReply)
        /\ topology \in Seq(NetBirdNetworkTopology)
    BY TopologyParsed DEF IInv, TypeOK, TopologyAsRead, TopologySucceeds
  <1>1. DOMAIN topology = DOMAIN topologyReply.networks.body /\ DOMAIN topology \subseteq Nat
    BY <1>0, TopologyParsed
  <1> DEFINE S == {j \in DOMAIN topology : topology[j].network.id = n}
  <1>2. S # {} /\ NetworkIn(topology, n) = FirstOf(topology, S)
    BY DEF NetworkIn, FirstOf
  <1>3. S \in SUBSET Nat
    BY <1>1
  <1>4. \A j \in S : j \in DOMAIN topology /\ topology[j].network.id = n
    OBVIOUS
  <1> HIDE DEF S
  <1>5. PICK i \in S : FirstOf(topology, S) = topology[i]
    BY <1>2, <1>3, FirstOfIsIn
  <1>6. i \in DOMAIN topologyReply.networks.body /\ topology[i].network.id = n
    BY <1>1, <1>4, <1>5
  <1>7. topologyReply.networks.body[i].id = n
    BY <1>6, NetworkAsRead, ParsedFields
  <1> QED
    BY <1>2, <1>5, <1>6, <1>7

(* Of the resources of a network, as they were answered last.              *)
LEMMA SectionRead ==
    ASSUME IInv, topologyOk, NEW i \in DOMAIN topology, topology[i].resources # None
    PROVE  LET n    == topologyReply.networks.body[i].id
               said == topologyReply.resources[n]
           IN  /\ i \in DOMAIN topologyReply.networks.body /\ n \in NetworkIds
               /\ NetworkIn(topology, n) = topology[i]
               /\ Replied(topologyReply.networks) /\ Replied(said)
               /\ DOMAIN said.body = 1..Len(said.body) /\ Len(said.body) \in Nat
               /\ DOMAIN topology[i].resources = DOMAIN said.body
               /\ \A j \in DOMAIN said.body :
                    /\ said.body[j] # Malformed
                    /\ topology[i].resources[j] = ParseResource(said.body[j])
                    /\ topology[i].resources[j] \in NetBirdResource
                    /\ topology[i].resources[j] # None
               /\ \A j, k \in DOMAIN said.body : said.body[j].id = said.body[k].id => j = k
               /\ said.body # Malformed
  <1> DEFINE body == topologyReply.networks.body
             n    == body[i].id
             said == topologyReply.resources[n]
  <1>0. /\ topologyReply \in TopologyReply /\ GetNetworksError(topologyReply.networks) = "none"
        /\ topology = Snapshot(topologyReply)
    BY DEF IInv, TypeOK, TopologyAsRead, TopologySucceeds
  <1>1. i \in DOMAIN body /\ Replied(topologyReply.networks)
    BY <1>0, TopologyParsed
  <1>2. /\ n \in NetworkIds /\ NetworkIn(topology, n) = topology[i]
        /\ topology[i].resources = ResourcesRead(n, said)
    BY <1>1, NetworkAsRead
  <1>3. said \in Reply(ResourceObject(ResourceIds)) /\ DistinctIds(said.body)
    BY <1>0, <1>2 DEF TopologyReply, IInv, Distinct
  <1> DEFINE read == ResourcesRead(n, said)
  <1>4. GetResourcesError(n, said) = "none"
    BY <1>2 DEF ResourcesRead
  <1> HIDE DEF said, read
  <1>5. /\ Replied(said)
        /\ DOMAIN said.body = 1..Len(said.body) /\ Len(said.body) \in Nat
        /\ \A j \in DOMAIN said.body : said.body[j] # Malformed
        /\ read \in Seq(NetBirdResource) /\ DOMAIN read = DOMAIN said.body
        /\ \A j \in DOMAIN said.body : read[j] = ParseResource(said.body[j])
    BY <1>3, <1>4, ResourcesParsed DEF read
  <1>6. \A j \in DOMAIN said.body : read[j] \in NetBirdResource /\ read[j] # None
    BY <1>5, NoneAssumption
  <1>7. said.body # Malformed
    BY <1>4 DEF GetResourcesError, SectionError, ReplyError, Replied, ResourcesError, ListError
  <1>8. \A j, k \in DOMAIN said.body : said.body[j].id = said.body[k].id => j = k
    BY <1>3, <1>5, <1>7 DEF DistinctIds, Same
  <1>9. topology[i].resources = read
    BY <1>2 DEF read
  <1> QED
    BY <1>1, <1>2, <1>5, <1>6, <1>7, <1>8, <1>9 DEF said

LEMMA ResourceAsRead ==
    ASSUME IInv, topologyOk, NEW i \in DOMAIN topologyReply.networks.body,
           topology[i].resources # None,
           NEW j \in DOMAIN topologyReply.resources[topologyReply.networks.body[i].id].body
    PROVE  LET n == topologyReply.networks.body[i].id
               d == topologyReply.resources[n].body[j]
           IN  /\ n \in NetworkIds /\ d.id \in ResourceIds
               /\ ResourceIn(topology, n, d.id) = ParseResource(d)
               /\ ParseResource(d) # None
  <1> DEFINE n     == topologyReply.networks.body[i].id
             body  == topologyReply.resources[n].body
             d     == body[j]
             items == topology[i].resources
  <1>0. i \in DOMAIN topology
    BY TopologyParsed DEF IInv, TypeOK, TopologyAsRead, TopologySucceeds
  <1>1. /\ n \in NetworkIds /\ NetworkIn(topology, n) = topology[i]
        /\ DOMAIN items = DOMAIN body /\ DOMAIN body = 1..Len(body) /\ Len(body) \in Nat
        /\ \A k \in DOMAIN body :
             /\ items[k] = ParseResource(body[k])
             /\ items[k] \in NetBirdResource /\ items[k] # None
        /\ \A k, l \in DOMAIN body : body[k].id = body[l].id => k = l
    BY <1>0, SectionRead
  <1>a. j \in DOMAIN body
    OBVIOUS
  <1> HIDE DEF n, body, items
  <1>2. \A k \in DOMAIN body : items[k].id = body[k].id
    BY <1>1, ParsedFields
  <1>3. d.id \in ResourceIds
    BY <1>a, <1>1, <1>2 DEF NetBirdResource
  <1>4. topology[i] # None
    BY NetworkAsRead
  <1>5. ResourceIn(topology, n, d.id) = items[j]
    <2> DEFINE S == {k \in DOMAIN items : items[k].id = d.id}
    <2>1. j \in S /\ S \in SUBSET Nat /\ \A k \in S : k = j
      BY <1>a, <1>1, <1>2
    <2>2. ResourceIn(topology, n, d.id) = FirstOf(items, S)
      BY <1>1, <1>4 DEF ResourceIn, items
    <2> HIDE DEF S
    <2>3. FirstOf(items, S) = items[j]
      BY <2>1, FirstOfOnly
    <2> QED
      BY <2>2, <2>3
  <1>6. ParseResource(d) # None /\ ResourceIn(topology, n, d.id) = ParseResource(d)
    BY <1>a, <1>1, <1>5
  <1> QED
    BY <1>1, <1>3, <1>6 DEF n, body

LEMMA ResourceIsListed ==
    ASSUME IInv, topologyOk, NEW n, NEW r, ResourceIn(topology, n, r) # None
    PROVE  LET body == topologyReply.resources[n].body
           IN  /\ Replied(topologyReply.networks) /\ Replied(topologyReply.resources[n])
               /\ \E i \in DOMAIN topologyReply.networks.body :
                    topologyReply.networks.body[i].id = n
               /\ \E j \in DOMAIN body :
                    body[j].id = r /\ ResourceIn(topology, n, r) = ParseResource(body[j])
  <1> DEFINE body == topologyReply.resources[n].body
  <1>1. NetworkIn(topology, n) # None /\ NetworkIn(topology, n).resources # None
    BY DEF ResourceIn
  <1>2. PICK i \in DOMAIN topologyReply.networks.body :
          topologyReply.networks.body[i].id = n /\ NetworkIn(topology, n) = topology[i]
    BY <1>1, NetworkIsListed
  <1> DEFINE items == topology[i].resources
             S     == {k \in DOMAIN items : items[k].id = r}
  <1>3. ResourceIn(topology, n, r) = FirstOf(items, S) /\ S # {}
    BY <1>1, <1>2 DEF ResourceIn, FirstOf
  <1>4. i \in DOMAIN topology
    BY TopologyParsed DEF IInv, TypeOK, TopologyAsRead, TopologySucceeds
  <1>5. /\ Replied(topologyReply.networks) /\ Replied(topologyReply.resources[n])
        /\ DOMAIN items = DOMAIN body /\ DOMAIN body = 1..Len(body) /\ Len(body) \in Nat
        /\ \A k \in DOMAIN body : items[k] = ParseResource(body[k])
    BY <1>1, <1>2, <1>4, SectionRead
  <1>6. S \in SUBSET Nat /\ \A k \in S : k \in DOMAIN body /\ items[k].id = r
    BY <1>5
  <1> HIDE DEF S, items, body
  <1>7. PICK j \in S : FirstOf(items, S) = items[j]
    BY <1>3, <1>6, FirstOfIsIn
  <1>8. j \in DOMAIN body /\ items[j].id = r /\ items[j] = ParseResource(body[j])
    BY <1>5, <1>6, <1>7
  <1>9. body[j].id = r /\ ResourceIn(topology, n, r) = ParseResource(body[j])
    BY <1>3, <1>7, <1>8, ParsedFields
  <1> QED
    BY <1>2, <1>5, <1>8, <1>9 DEF body

-----------------------------------------------------------------------------
(* What entities show.                                                     *)

LEMMA PeerStates ==
    ASSUME IInv, peersOk, NEW i \in DOMAIN peerReply.body
    PROVE  LET d == peerReply.body[i]
           IN  /\ Connected(d.id) = IF d.connected \in BOOLEAN THEN d.connected ELSE Unavailable
               /\ LastSeen(d.id) = IF d.lastSeen \in Times THEN d.lastSeen ELSE None
  <1> DEFINE d    == peerReply.body[i]
             peer == ParsePeer(d)
  <1>1. PeerIn(peers, d.id) = peer /\ peer # None
    BY PeerAsRead
  <1>2. d \in PeerObject(PeerIds) /\ PeerError(d) = "none"
    BY PeersParsed DEF IInv, TypeOK, PeersAsRead
  <1>3. d.connected \in {Absent, Null} \cup BOOLEAN
    BY <1>2, PeerErrorNone DEF PeerObject, Field, OptionalError, SchemaErrorIf
  <1>4. /\ d.connected \in BOOLEAN => Optional(d.connected) = d.connected /\ d.connected # None
        /\ d.connected \notin BOOLEAN => Optional(d.connected) = None
    BY <1>3, TextAssumption DEF Optional, Missing
  <1> HIDE DEF d
  <1>5. peer.connected = Optional(d.connected) /\ peer.lastSeen = OptionalTimestamp(d.lastSeen)
    BY ParsedFields
  <1> HIDE DEF peer
  <1>6. Connected(d.id) = IF d.connected \in BOOLEAN THEN d.connected ELSE Unavailable
    BY <1>1, <1>4, <1>5 DEF Connected
  <1>7. LastSeen(d.id) = IF d.lastSeen \in Times THEN d.lastSeen ELSE None
    BY <1>1, <1>5 DEF LastSeen, OptionalTimestamp
  <1> QED
    BY <1>6, <1>7 DEF d

LEMMA StatesFollow == IInv => StatesAreServed
  <1> SUFFICES ASSUME IInv PROVE StatesAreServed
    OBVIOUS
  <1> DEFINE body == peerReply.body
             said(p) == {i \in DOMAIN body : body[i].id = p}
  <1>1. ASSUME NEW p, ~peersOk
        PROVE  Connected(p) = Unavailable /\ LastSeen(p) = Unavailable
    BY <1>1 DEF Connected, LastSeen
  <1>2. ASSUME NEW p, peersOk, Connected(p) # Unavailable PROVE said(p) # {}
    BY <1>2, PeerIsListed DEF Connected
  <1>3. ASSUME NEW p, peersOk, NEW i \in said(p)
        PROVE  /\ Connected(p) = IF body[i].connected \in BOOLEAN
                                 THEN body[i].connected ELSE Unavailable
               /\ LastSeen(p) = IF body[i].lastSeen \in Times THEN body[i].lastSeen ELSE None
    BY <1>3, PeerStates
  <1>4. ASSUME NEW n \in NetworkIds, NEW r \in ResourceIds, ResourceState(n, r) # Unavailable
        PROVE  /\ Replied(topologyReply.networks) /\ Replied(topologyReply.resources[n])
               /\ \E i \in DOMAIN topologyReply.networks.body :
                    topologyReply.networks.body[i].id = n
               /\ \E i \in DOMAIN topologyReply.resources[n].body :
                    LET d == topologyReply.resources[n].body[i]
                    IN  /\ d.id = r
                        /\ ResourceState(n, r) = [enabled |-> d.enabled, address |-> d.address]
    <2> DEFINE list     == topologyReply.resources[n].body
               resource == ResourceIn(topology, n, r)
    <2>1. topologyOk /\ resource # None
      BY <1>4 DEF ResourceState
    <2>2. /\ Replied(topologyReply.networks) /\ Replied(topologyReply.resources[n])
          /\ \E i \in DOMAIN topologyReply.networks.body : topologyReply.networks.body[i].id = n
      BY <2>1, ResourceIsListed
    <2>3. PICK j \in DOMAIN list : list[j].id = r /\ resource = ParseResource(list[j])
      BY <2>1, ResourceIsListed
    <2> DEFINE d == list[j]
    <2>4. ResourceState(n, r) = [enabled |-> resource.enabled, address |-> resource.address]
      BY <2>1 DEF ResourceState
    <2> HIDE DEF list, resource
    <2>5. resource.enabled = d.enabled /\ resource.address = d.address
      BY <2>3, ParsedFields
    <2>6. d.id = r /\ ResourceState(n, r) = [enabled |-> d.enabled, address |-> d.address]
      BY <2>3, <2>4, <2>5
    <2> QED
      BY <2>2, <2>3, <2>6 DEF list
  <1> QED
    BY <1>1, <1>2, <1>3, <1>4 DEF StatesAreServed

(* For lists of any length and any ids, texts and timestamps: an entity    *)
(* shows what the service answered last for its peer or resource, and is   *)
(* unavailable when that cannot be read or says nothing of it              *)
(* (binary_sensor.py, sensor.py, api.py:150-167).                          *)
THEOREM StatesAreAlwaysServed == Spec => []StatesAreServed
  BY InductiveInvariant, StatesFollow, PTL

LEMMA NamesFollow == IInv => NamesAreCurrent
  <1> SUFFICES ASSUME IInv PROVE NamesAreCurrent
    OBVIOUS
  <1>1. ASSUME peersOk, NEW i \in DOMAIN peerReply.body
        PROVE  LET d == peerReply.body[i]
               IN  peerName[d.id] = IF d.name \in {Absent, Null, ""} THEN d.id ELSE d.name
    <2> DEFINE d == peerReply.body[i]
    <2>1. d.id \in PeerIds /\ PeerIn(peers, d.id) = ParsePeer(d) /\ ParsePeer(d) # None
      BY <1>1, PeerAsRead
    <2>2. d \in PeerObject(PeerIds) /\ PeerError(d) = "none"
      BY <1>1, PeersParsed DEF IInv, TypeOK, PeersAsRead
    <2>3. d.name \in {Absent, Null} \cup AnyText
      BY <2>2, PeerErrorNone DEF PeerObject, Field, OptionalError, SchemaErrorIf
    <2> HIDE DEF d
    <2>4. peerName[d.id] = DisplayName(ParsePeer(d))
      BY <2>1 DEF IInv, PeersNamed
    <2>5. ParsePeer(d).id = d.id /\ ParsePeer(d).name = Optional(d.name)
      BY ParsedFields
    <2>6. Optional(d.name) \in {None, ""} <=> d.name \in {Absent, Null, ""}
      BY <2>3, TextAssumption DEF Optional, Missing
    <2>7. d.name \notin {Absent, Null} => Optional(d.name) = d.name
      BY DEF Optional, Missing
    <2>8. peerName[d.id] = IF d.name \in {Absent, Null, ""} THEN d.id ELSE d.name
      BY <2>4, <2>5, <2>6, <2>7 DEF DisplayName
    <2> QED
      BY <2>8 DEF d
  <1>2. ASSUME topologyOk, NEW i \in DOMAIN topologyReply.networks.body
        PROVE  LET d == topologyReply.networks.body[i]
               IN  networkName[d.id] = d.name
    <2> DEFINE d == topologyReply.networks.body[i]
    <2>1. /\ d.id \in NetworkIds /\ NetworkIn(topology, d.id) = topology[i]
          /\ topology[i] # None /\ topology[i].network = ParseNetwork(d)
      BY <1>2, NetworkAsRead
    <2> HIDE DEF d
    <2>2. networkName[d.id] = topology[i].network.name
      BY <2>1 DEF IInv, NetworksNamed
    <2>3. networkName[d.id] = d.name
      BY <2>1, <2>2, ParsedFields
    <2> QED
      BY <2>3 DEF d
  <1>3. ASSUME topologyOk, NEW i \in DOMAIN topologyReply.networks.body,
               NetworkIn(topology, topologyReply.networks.body[i].id).resources # None,
               NEW j \in DOMAIN topologyReply.resources[topologyReply.networks.body[i].id].body
        PROVE  LET n == topologyReply.networks.body[i].id
                   d == topologyReply.resources[n].body[j]
               IN  resourceName[n][d.id] = d.name
    <2> DEFINE n == topologyReply.networks.body[i].id
               d == topologyReply.resources[n].body[j]
    <2>1. topology[i].resources # None
      BY <1>3, NetworkAsRead
    <2>2. /\ n \in NetworkIds /\ d.id \in ResourceIds
          /\ ResourceIn(topology, n, d.id) = ParseResource(d) /\ ParseResource(d) # None
      BY <1>3, <2>1, ResourceAsRead
    <2> HIDE DEF d, n
    <2>3. resourceName[n][d.id] = ParseResource(d).name
      BY <2>2 DEF IInv, ResourcesNamed
    <2>4. resourceName[n][d.id] = d.name
      BY <2>3, ParsedFields
    <2> QED
      BY <2>4 DEF d, n
  <1> QED
    BY <1>1, <1>2, <1>3 DEF NamesAreCurrent

(* Every device bears the name the service gave it last, however refreshes *)
(* that fail, rename and leave out follow each other (entity.py:60-79,     *)
(* topology_entity.py:131-145).                                            *)
THEOREM NamesAreAlwaysCurrent == Spec => []NamesAreCurrent
  BY InductiveInvariant, NamesFollow, PTL

-----------------------------------------------------------------------------
(* Totals.                                                                 *)

LEMMA SectionItems ==
    ASSUME IInv, topologyOk, NEW section \in {"resources", "routers"},
           NEW i \in DOMAIN topology, topology[i][section] # None
    PROVE  LET said == topologyReply[section][topologyReply.networks.body[i].id]
           IN  /\ Replied(topologyReply.networks) /\ Replied(said)
               /\ DOMAIN said.body = 1..Len(said.body) /\ Len(said.body) \in Nat
               /\ DOMAIN topology[i][section] = DOMAIN said.body
               /\ \A j \in DOMAIN said.body :
                    topology[i][section][j].enabled = said.body[j].enabled
  <1> DEFINE n    == topologyReply.networks.body[i].id
             said == topologyReply[section][n]
  <1>1. CASE section = "resources"
    <2> DEFINE read == topology[i].resources
               list == topologyReply.resources[n]
    <2>1. /\ Replied(topologyReply.networks) /\ Replied(list)
          /\ DOMAIN list.body = 1..Len(list.body) /\ Len(list.body) \in Nat
          /\ DOMAIN read = DOMAIN list.body
          /\ \A j \in DOMAIN list.body : read[j] = ParseResource(list.body[j])
      BY <1>1, SectionRead
    <2>2. topology[i][section] = read /\ said = list
      BY <1>1
    <2> HIDE DEF read, list, said
    <2>3. ASSUME NEW j \in DOMAIN list.body
          PROVE  read[j].enabled = list.body[j].enabled
      <3>1. read[j] = ParseResource(list.body[j])
        BY <2>1
      <3>2. ParseResource(list.body[j]).enabled = list.body[j].enabled
        BY ParsedFields, Zenon
      <3> QED
        BY <3>1, <3>2, Zenon
    <2> QED
      BY <2>1, <2>2, <2>3 DEF said
  <1>2. CASE section = "routers"
    <2> DEFINE read == topology[i].routers
               list == topologyReply.routers[n]
    <2>0. /\ topologyReply \in TopologyReply /\ i \in DOMAIN topologyReply.networks.body
          /\ Replied(topologyReply.networks)
      BY TopologyParsed DEF IInv, TypeOK, TopologyAsRead, TopologySucceeds
    <2>1. n \in NetworkIds /\ read = RoutersRead(n, list) /\ read # None
      BY <1>2, <2>0, NetworkAsRead
    <2>2. list \in Reply(RouterObject) /\ GetRoutersError(n, list) = "none"
      BY <2>0, <2>1 DEF TopologyReply, RoutersRead
    <2>3. topology[i][section] = read /\ said = list
      BY <1>2
    <2> HIDE DEF read, list, said, n
    <2>4. /\ Replied(list)
          /\ DOMAIN list.body = 1..Len(list.body) /\ Len(list.body) \in Nat
          /\ DOMAIN read = DOMAIN list.body
          /\ \A j \in DOMAIN list.body : read[j] = ParseRouter(list.body[j])
      BY <2>1, <2>2, RoutersParsed
    <2>5. ASSUME NEW j \in DOMAIN list.body
          PROVE  read[j].enabled = list.body[j].enabled
      <3>1. read[j] = ParseRouter(list.body[j])
        BY <2>4
      <3>2. ParseRouter(list.body[j]).enabled = list.body[j].enabled
        BY ParsedFields, Zenon
      <3> QED
        BY <3>1, <3>2, Zenon
    <2> QED
      BY <2>0, <2>3, <2>4, <2>5 DEF said, n
  <1> QED
    BY <1>1, <1>2

LEMMA CountIsNatural ==
    ASSUME NEW items, NEW enabledOnly, NEW k \in Nat, DOMAIN items = 1..k
    PROVE  LET counted == {j \in DOMAIN items : enabledOnly => items[j].enabled}
           IN  /\ IsFiniteSet(counted)
               /\ CountIn(items, enabledOnly) = Cardinality(counted)
               /\ CountIn(items, enabledOnly) \in Nat
  <1> DEFINE counted == {j \in DOMAIN items : enabledOnly => items[j].enabled}
  <1>1. counted \subseteq 1..k
    OBVIOUS
  <1> HIDE DEF counted
  <1>2. IsFiniteSet(counted)
    <2>1. IsFiniteSet(1..k)
      BY FS_Interval
    <2> QED
      BY <1>1, <2>1, FS_Subset
  <1>3. CountIn(items, enabledOnly) = Cardinality(counted)
    BY DEF CountIn, counted
  <1> QED
    BY <1>2, <1>3, FS_CardinalityType DEF counted

(* The sum of the counts is the number of the items, over all networks.    *)
LEMMA AccountCounts ==
    ASSUME IInv, topologyOk, NEW section \in {"resources", "routers"},
           NEW enabledOnly \in BOOLEAN, LeftOut(section) = {}
    PROVE  LET listed  == topologyReply.networks.body
               said(i) == topologyReply[section][listed[i].id]
               items   == UNION {{<<i, j>> : j \in {k \in DOMAIN said(i).body :
                                    enabledOnly => said(i).body[k].enabled}} :
                                  i \in DOMAIN listed}
           IN  /\ Replied(topologyReply.networks)
               /\ \A i \in DOMAIN listed : Replied(said(i))
               /\ AccountTotal(section, enabledOnly) = Cardinality(items)
               /\ AccountTotal(section, enabledOnly) \in Nat
  <1> DEFINE listed      == topologyReply.networks.body
             said(i)     == topologyReply[section][listed[i].id]
             n           == Len(listed)
             answered(i) == {k \in DOMAIN said(i).body : enabledOnly => said(i).body[k].enabled}
             counts      == [i \in DOMAIN topology |-> CountIn(topology[i][section], enabledOnly)]
             P           == [i \in 1..n |-> answered(i)]
  <1>1. /\ Replied(topologyReply.networks)
        /\ DOMAIN topology = DOMAIN listed /\ DOMAIN listed = 1..n /\ n \in Nat
    BY TopologyParsed DEF IInv, TypeOK, TopologyAsRead, TopologySucceeds
  <1>2. ASSUME NEW i \in DOMAIN topology
        PROVE  /\ Replied(said(i)) /\ IsFiniteSet(answered(i))
               /\ CountIn(topology[i][section], enabledOnly) = Cardinality(answered(i))
    <2> DEFINE items == topology[i][section]
    <2>1. items # None
      BY DEF LeftOut
    <2>2. /\ Replied(said(i))
          /\ DOMAIN said(i).body = 1..Len(said(i).body) /\ Len(said(i).body) \in Nat
          /\ DOMAIN items = DOMAIN said(i).body
          /\ \A j \in DOMAIN said(i).body : items[j].enabled = said(i).body[j].enabled
      BY <2>1, SectionItems
    <2> HIDE DEF items, said
    <2>3. answered(i) = {j \in DOMAIN items : enabledOnly => items[j].enabled}
      BY <2>2
    <2> HIDE DEF answered
    <2>4. PICK k \in Nat : DOMAIN items = 1..k
      BY <2>2
    <2>5. LET counted == {j \in DOMAIN items : enabledOnly => items[j].enabled}
          IN  IsFiniteSet(counted) /\ CountIn(items, enabledOnly) = Cardinality(counted)
      BY <2>4, CountIsNatural
    <2>6. /\ IsFiniteSet(answered(i))
          /\ CountIn(items, enabledOnly) = Cardinality(answered(i))
      BY <2>3, <2>5
    <2> QED
      BY <2>2, <2>6 DEF items
  <1> HIDE DEF answered
  <1>3. counts = [i \in 1..n |-> Cardinality(P[i])] /\ \A i \in 1..n : IsFiniteSet(P[i])
    BY <1>1, <1>2
  <1>4. AccountTotal(section, enabledOnly) = Sum(counts)
    BY DEF AccountTotal
  <1> HIDE DEF counts
  <1>5. Sum(counts) = Cardinality(Pairs(P, n)) /\ IsFiniteSet(Pairs(P, n))
    BY <1>1, <1>3, SumCountsPairs
  <1>6. Pairs(P, n) = UNION {{<<i, j>> : j \in answered(i)} : i \in DOMAIN listed}
    <2>1. \A i \in 1..n : {<<i, j>> : j \in P[i]} = {<<i, j>> : j \in answered(i)}
      OBVIOUS
    <2> QED
      BY <1>1, <2>1 DEF Pairs
  <1>7. Sum(counts) \in Nat
    BY <1>5, FS_CardinalityType
  <1> QED
    BY <1>1, <1>2, <1>4, <1>5, <1>6, <1>7 DEF answered

LEMMA NetworkTotalIsOpen ==
    ASSUME IInv, topologyOk, NEW section \in {"resources", "routers"},
           NEW enabledOnly \in BOOLEAN, NEW i \in DOMAIN topology
    PROVE  NetworkTotal(topology[i].network.id, section, enabledOnly) = Unavailable
             <=> i \in LeftOut(section)
  <1> DEFINE d     == topologyReply.networks.body[i]
             n     == topology[i].network.id
             items == topology[i][section]
  <1>1. i \in DOMAIN topologyReply.networks.body
    BY TopologyParsed DEF IInv, TypeOK, TopologyAsRead, TopologySucceeds
  <1>2. /\ NetworkIn(topology, d.id) = topology[i] /\ topology[i] # None
        /\ topology[i].network = ParseNetwork(d)
    BY <1>1, NetworkAsRead
  <1>3. n = d.id
    BY <1>2, ParsedFields
  <1>4. NetworkIn(topology, n) = topology[i]
    BY <1>2, <1>3
  <1>5. i \in LeftOut(section) <=> items = None
    BY DEF LeftOut
  <1>6. ASSUME items # None PROVE CountIn(items, enabledOnly) # Unavailable
    <2> DEFINE said == topologyReply[section][d.id]
    <2>1. DOMAIN items = 1..Len(said.body) /\ Len(said.body) \in Nat
      BY <1>6, SectionItems
    <2> HIDE DEF said, items
    <2>2. CountIn(items, enabledOnly) \in Nat
      BY <2>1, CountIsNatural
    <2> QED
      BY <2>2, UnavailableAssumption
  <1> HIDE DEF n
  <1>7. NetworkTotal(n, section, enabledOnly)
          = IF items = None THEN Unavailable ELSE CountIn(items, enabledOnly)
    BY <1>2, <1>4 DEF NetworkTotal
  <1> QED
    BY <1>5, <1>6, <1>7 DEF n

LEMMA TotalsFollow == IInv => TotalsAreSound
  <1> SUFFICES ASSUME IInv, NEW section \in {"resources", "routers"},
                      NEW enabledOnly \in BOOLEAN
               PROVE  LET total   == AccountTotal(section, enabledOnly)
                          listed  == topologyReply.networks.body
                          said(i) == topologyReply[section][listed[i].id]
                          items   == UNION {{<<i, j>> : j \in {k \in DOMAIN said(i).body :
                                        enabledOnly => said(i).body[k].enabled}} :
                                      i \in DOMAIN listed}
                      IN  /\ total # Unavailable =>
                               /\ Replied(topologyReply.networks)
                               /\ \A i \in DOMAIN listed : Replied(said(i))
                               /\ total = Cardinality(items)
                          /\ topologyOk =>
                               /\ total = Unavailable <=>
                                    \E i \in DOMAIN topology :
                                      NetworkTotal(topology[i].network.id, section, enabledOnly)
                                        = Unavailable
                               /\ total = Unavailable <=> CompleteSections(section) < Len(topology)
    BY DEF TotalsAreSound
  <1> DEFINE total == AccountTotal(section, enabledOnly)
  <1>1. CASE ~topologyOk
    <2>1. total = Unavailable
      BY <1>1 DEF AccountTotal
    <2> QED
      BY <1>1, <2>1
  <1>2. CASE topologyOk
    <2>1. total = Unavailable <=> LeftOut(section) # {}
      <3>1. CASE LeftOut(section) = {}
        <4>1. total \in Nat
          BY <1>2, <3>1, AccountCounts
        <4> QED
          BY <3>1, <4>1, UnavailableAssumption
      <3>2. CASE LeftOut(section) # {}
        BY <3>2 DEF AccountTotal
      <3> QED
        BY <3>1, <3>2
    <2>2. LeftOut(section) # {} <=>
            \E i \in DOMAIN topology :
              NetworkTotal(topology[i].network.id, section, enabledOnly) = Unavailable
      <3>1. LeftOut(section) \subseteq DOMAIN topology
        BY DEF LeftOut
      <3> QED
        BY <1>2, <3>1, NetworkTotalIsOpen
    <2>3. LeftOut(section) # {} <=> CompleteSections(section) < Len(topology)
      <3>1. DOMAIN topology = 1..Len(topology) /\ Len(topology) \in Nat
        BY <1>2, TopologyParsed DEF IInv, TypeOK, TopologyAsRead, TopologySucceeds
      <3>2. LeftOut(section) \subseteq 1..Len(topology)
        BY <3>1 DEF LeftOut
      <3>3. IsFiniteSet(LeftOut(section))
        <4>1. IsFiniteSet(1..Len(topology))
          BY <3>1, FS_Interval
        <4> QED
          BY <3>2, <4>1, FS_Subset
      <3>4. /\ Cardinality(LeftOut(section)) \in Nat
            /\ Cardinality(LeftOut(section)) = 0 <=> LeftOut(section) = {}
        BY <3>3, FS_CardinalityType, FS_EmptySet
      <3> QED
        BY <3>1, <3>4 DEF CompleteSections
    <2> HIDE DEF total
    <2>4. CASE LeftOut(section) = {}
      BY <1>2, <2>1, <2>2, <2>3, <2>4, AccountCounts DEF total
    <2>5. CASE LeftOut(section) # {}
      BY <1>2, <2>1, <2>2, <2>3, <2>5 DEF total
    <2> QED
      BY <2>4, <2>5
  <1> QED
    BY <1>1, <1>2

(* For any number of networks with any number of resources and routers: a  *)
(* total of the account is available exactly if each network's is, exactly *)
(* if diagnostics call the snapshot complete, and then it is the number of *)
(* items the service answered last (sensor.py:317-371,                     *)
(* diagnostics.py:65-75).                                                  *)
THEOREM TotalsAreAlwaysSound == Spec => []TotalsAreSound
  BY InductiveInvariant, TotalsFollow, PTL

-----------------------------------------------------------------------------
(* The live contract.                                                      *)

LEMMA ContractOfPeers ==
    ASSUME IInv, Replied(peerReply), ContractPeers(peerReply.body),
           DistinctIds(peerReply.body),
           \A i \in DOMAIN peerReply.body : peerReply.body[i].lastSeen \notin Unrepresentable
    PROVE  peersOk /\ \A i \in DOMAIN peers : peers[i].groups # None
  <1> DEFINE body == peerReply.body
  <1>0. peerReply \in Reply(PeerObject(PeerIds))
    BY DEF IInv, TypeOK
  <1>1. body # Malformed /\ \A i \in DOMAIN body : body[i] # Malformed
    BY DEF ContractPeers, Objects
  <1>2. /\ DOMAIN body = 1..Len(body) /\ Len(body) \in Nat /\ DOMAIN body \subseteq Nat
        /\ \A i \in DOMAIN body : body[i] \in {Malformed} \cup PeerObject(PeerIds)
    BY <1>0, <1>1, BodyIsList DEF Reply
  <1>3. ASSUME NEW i \in DOMAIN body
        PROVE  /\ GroupsError(body[i].groups) = "none" /\ ~Missing(body[i].groups)
               /\ PeerError(body[i]) = "none" /\ ~Repeated(body, i)
    <2> DEFINE d == body[i]
    <2>1. ContractPeer(d) /\ GroupList(d.groups) /\ d # Malformed
            /\ d.lastSeen \notin Unrepresentable
      BY <1>1 DEF ContractPeers
    <2>2. GroupsError(d.groups) = "none" /\ ~Missing(d.groups)
      BY <2>1 DEF GroupList, Text, GroupsError, RequiredError, SchemaErrorIf
    <2>3. /\ RequiredError(d.id) = "none" /\ OptionalError(d.name) = "none"
          /\ OptionalError(d.connected) = "none"
          /\ OptionalTimestampError(d.lastSeen) = "none"
      BY <2>1 DEF ContractPeer, Text, OptionalText, RequiredError, OptionalError,
                  OptionalTimestampError, SchemaErrorIf
    <2>4. ~Repeated(body, i)
      BY <1>1, <1>2 DEF DistinctIds, Repeated
    <2> QED
      BY <2>1, <2>2, <2>3, <2>4, PeerErrorNone
  <1>4. PeersError(body) = "none"
    BY <1>1, <1>2, <1>3, PeersErrorNone
  <1>5. peersOk /\ GetPeersError(peerReply) = "none" /\ peers = PeersRead(peerReply)
    BY <1>4, RepliedWithoutError DEF GetPeersError, IInv, PeersAsRead
  <1>6. DOMAIN peers = DOMAIN body /\ \A i \in DOMAIN body : peers[i] = ParsePeer(body[i])
    BY <1>0, <1>5, PeersParsed
  <1>7. ASSUME NEW i \in DOMAIN body PROVE peers[i].groups # None
    <2> DEFINE v == body[i].groups
    <2>1. body[i] \in PeerObject(PeerIds)
      BY <1>1, <1>2
    <2>2. v \in {Absent, Null, Malformed} \cup SUBSET Field(AnyText)
      BY <2>1 DEF PeerObject, Field
    <2>3. peers[i].groups = Groups(v)
      BY <1>6, ParsedFields
    <2>4. GroupsError(v) = "none" /\ ~Missing(v)
      BY <1>3
    <2> HIDE DEF v
    <2>5. /\ v \in SUBSET Field(AnyText)
          /\ \A g \in v : RequiredError(g) = "none"
      BY <2>2, <2>4 DEF GroupsError, SchemaErrorIf, Missing
    <2>6. ASSUME NEW g \in v PROVE g \in Texts
      BY <2>5 DEF RequiredError, SchemaErrorIf, Missing, Field, AnyText
    <2>7. v \in SUBSET Texts
      BY <2>6
    <2> QED
      BY <2>3, <2>4, <2>7, NoneAssumption DEF Groups, Optional
  <1> QED
    BY <1>5, <1>6, <1>7

LEMMA ContractOfSections ==
    ASSUME NEW id, Text(id), id \notin Slashed,
           NEW resources \in Reply(ResourceObject(ResourceIds)),
           NEW routers \in Reply(RouterObject),
           Replied(resources), ContractResources(resources.body),
           Replied(routers), ContractRouters(routers.body)
    PROVE  GetResourcesError(id, resources) = "none" /\ GetRoutersError(id, routers) = "none"
  <1>1. PathError(id) = "none"
    BY DEF PathError, Text, SchemaErrorIf
  <1>2. ResourcesError(resources.body) = "none"
    <2> DEFINE body == resources.body
    <2>1. body # Malformed /\ \A i \in DOMAIN body : body[i] # Malformed
      BY DEF ContractResources, Objects
    <2>2. DOMAIN body \subseteq Nat
      BY <2>1, BodyIsList DEF Reply
    <2>3. ASSUME NEW i \in DOMAIN body PROVE ResourceError(body[i]) = "none"
      <3>1. /\ Text(body[i].id) /\ Text(body[i].name) /\ Text(body[i].address)
            /\ ContractEnabled(body[i])
        BY DEF ContractResources
      <3> QED
        BY <2>1, <3>1, ResourceErrorNone
           DEF Text, ContractEnabled, RequiredError, RequiredBoolError, SchemaErrorIf
    <2> QED
      BY <2>1, <2>2, <2>3, ListErrorsNone
  <1>3. RoutersError(routers.body) = "none"
    <2> DEFINE body == routers.body
    <2>1. body # Malformed /\ \A i \in DOMAIN body : body[i] # Malformed
      BY DEF ContractRouters, Objects
    <2>2. DOMAIN body \subseteq Nat
      BY <2>1, BodyIsList DEF Reply
    <2>3. ASSUME NEW i \in DOMAIN body PROVE RouterError(body[i]) = "none"
      <3>1. /\ Text(body[i].id) /\ OptionalText(body[i].peer) /\ ContractEnabled(body[i])
            /\ ~Missing(body[i].peerGroups) => TextList(body[i].peerGroups)
        BY DEF ContractRouters
      <3>2. StringsError(body[i].peerGroups) = "none"
        BY <3>1 DEF TextList, Text, StringsError, SchemaErrorIf
      <3> QED
        BY <2>1, <3>1, <3>2, RouterErrorNone
           DEF Text, OptionalText, ContractEnabled, RequiredError, RequiredBoolError,
               OptionalError, SchemaErrorIf
    <2> QED
      BY <2>1, <2>2, <2>3, ListErrorsNone
  <1> QED
    BY <1>1, <1>2, <1>3 DEF GetResourcesError, GetRoutersError, SectionError, ReplyError

LEMMA ContractOfTopology ==
    ASSUME IInv, Replied(topologyReply.networks), ContractNetworks(topologyReply.networks.body),
           \A i \in DOMAIN topologyReply.networks.body :
             LET id        == topologyReply.networks.body[i].id
                 resources == topologyReply.resources[id]
                 routers   == topologyReply.routers[id]
             IN  /\ id \notin Slashed
                 /\ Replied(resources) /\ ContractResources(resources.body)
                 /\ Replied(routers) /\ ContractRouters(routers.body)
    PROVE  topologyOk /\ LeftOut("resources") = {} /\ LeftOut("routers") = {}
  <1> DEFINE t    == topologyReply
             body == t.networks.body
  <1>0. t \in TopologyReply /\ t.networks \in Reply(NetworkObject(NetworkIds))
    BY DEF IInv, TypeOK, TopologyReply
  <1>1. body # Malformed /\ \A i \in DOMAIN body : body[i] # Malformed
    BY DEF ContractNetworks, Objects
  <1>2. DOMAIN body \subseteq Nat
    BY <1>0, <1>1, BodyIsList DEF Reply
  <1>3. \A i \in DOMAIN body : NetworkError(body[i]) = "none"
    BY <1>1, NetworkErrorNone DEF ContractNetworks, Text, RequiredError, SchemaErrorIf
  <1>4. GetNetworksError(t.networks) = "none"
    BY <1>1, <1>2, <1>3, ListErrorsNone, RepliedWithoutError DEF GetNetworksError
  <1>5. ASSUME NEW i \in DOMAIN body
        PROVE  /\ GetResourcesError(body[i].id, t.resources[body[i].id]) = "none"
               /\ GetRoutersError(body[i].id, t.routers[body[i].id]) = "none"
               /\ t.resources[body[i].id] \in Reply(ResourceObject(ResourceIds))
               /\ t.routers[body[i].id] \in Reply(RouterObject)
    <2> DEFINE id        == body[i].id
               resources == t.resources[id]
               routers   == t.routers[id]
    <2>1. id \in NetworkIds
      BY <1>0, <1>4, TopologyParsed
    <2>2. resources \in Reply(ResourceObject(ResourceIds)) /\ routers \in Reply(RouterObject)
      BY <1>0, <2>1 DEF TopologyReply
    <2>3. /\ Text(id) /\ id \notin Slashed
          /\ Replied(resources) /\ ContractResources(resources.body)
          /\ Replied(routers) /\ ContractRouters(routers.body)
      BY DEF ContractNetworks
    <2> QED
      BY <2>2, <2>3, ContractOfSections
  <1>6. ~SectionRaises("none")
    BY DEF SectionRaises, Handle
  <1>7. TopologySucceeds(t)
    BY <1>4, <1>5, <1>6 DEF TopologySucceeds
  <1>8. topologyOk
    BY <1>7 DEF IInv, TopologyAsRead
  <1>9. DOMAIN topology = DOMAIN body
    BY <1>0, <1>4, <1>8, TopologyParsed DEF IInv, TopologyAsRead
  <1>10. ASSUME NEW i \in DOMAIN topology
         PROVE  topology[i].resources # None /\ topology[i].routers # None
    <2> DEFINE id == body[i].id
    <2>1. /\ topology[i].resources = ResourcesRead(id, t.resources[id])
          /\ topology[i].routers = RoutersRead(id, t.routers[id])
      BY <1>8, <1>9, NetworkAsRead
    <2>2. /\ ResourcesRead(id, t.resources[id]) \in Seq(NetBirdResource)
          /\ RoutersRead(id, t.routers[id]) \in Seq(NetBirdRouter)
      BY <1>5, <1>9, ResourcesParsed, RoutersParsed
    <2> QED
      BY <2>1, <2>2, NoneAssumption
  <1> QED
    BY <1>8, <1>10 DEF LeftOut

LEMMA ContractFollows == IInv => ContractIsEnough
  BY ContractOfPeers, ContractOfTopology DEF ContractIsEnough

(* Every reply, of any length, that the live contract accepts is one the   *)
(* integration reads completely, but for what the contract does not look   *)
(* at (live_api_contract.py:112-212, api.py:150-202).                      *)
THEOREM ContractIsAlwaysEnough == Spec => []ContractIsEnough
  BY InductiveInvariant, ContractFollows, PTL

-----------------------------------------------------------------------------
(* Diagnoses.                                                              *)

LEMMA FirstClause ==
    ASSUME NEW clauses, NEW n \in Nat, DOMAIN clauses = 1..n,
           NEW e, e # "none", NEW i \in 1..n, e \in clauses[i].catches,
           \A j \in 1..(i - 1) : e \notin clauses[j].catches
    PROVE  Handle(clauses, e) = clauses[i].does
  <1> DEFINE Catching(k) == /\ e \in clauses[k].catches
                            /\ \A j \in 1..(k - 1) : e \notin clauses[j].catches
  <1>1. ASSUME NEW k \in 1..n, Catching(k) PROVE k = i
    <2>1. ~(k < i) /\ ~(i < k)
      BY <1>1
    <2> QED
      BY <2>1
  <1>2. (CHOOSE k \in DOMAIN clauses : Catching(k)) = i
    BY <1>1
  <1> QED
    BY <1>2 DEF Handle

LEMMA PollHandles ==
    ASSUME NEW e \in Errors
    PROVE  Handle(PollClauses, e) =
             CASE e = "Authentication" -> "reauth"
               [] e = "Permission"     -> "insufficient_permissions"
               [] e \in Datas          -> "invalid_response"
               [] e = "RateLimit"      -> "deferred"
               [] e = "Unexpected"     -> "unknown"
               [] OTHER                -> "cannot_connect"
  <1>1. /\ e # "none"
        /\ e \in {"Authentication", "Unexpected", "Permission"} \cup Datas
                   \cup {"RateLimit"} \cup {"Response", "Redirect", "Server"} \cup Transports
    BY DEF Errors, Updates, Responses, Transports, Datas
  <1>2. DOMAIN PollClauses = 1..6
    BY DEF PollClauses
  <1>3. /\ PollClauses[1] = Clause({"Authentication"}, "reauth")
        /\ PollClauses[2] = Clause({"Permission"}, "insufficient_permissions")
        /\ PollClauses[3] = Clause(Datas, "invalid_response")
        /\ PollClauses[4] = Clause({"RateLimit"}, "deferred")
        /\ PollClauses[5] = Clause(Updates, "cannot_connect")
        /\ PollClauses[6] = Clause(Errors, "unknown")
    BY DEF PollClauses
  <1>4. /\ PollClauses[1].catches = {"Authentication"} /\ PollClauses[1].does = "reauth"
        /\ PollClauses[2].catches = {"Permission"}
        /\ PollClauses[2].does = "insufficient_permissions"
        /\ PollClauses[3].catches = Datas /\ PollClauses[3].does = "invalid_response"
        /\ PollClauses[4].catches = {"RateLimit"} /\ PollClauses[4].does = "deferred"
        /\ PollClauses[5].catches = Updates /\ PollClauses[5].does = "cannot_connect"
        /\ PollClauses[6].catches = Errors /\ PollClauses[6].does = "unknown"
    BY <1>3 DEF Clause
  <1>5. ASSUME NEW i \in 1..6, e \in PollClauses[i].catches,
               \A j \in 1..(i - 1) : e \notin PollClauses[j].catches
        PROVE  Handle(PollClauses, e) = PollClauses[i].does
    BY <1>1, <1>2, <1>5, FirstClause
  <1>6. CASE e = "Authentication"
    BY <1>4, <1>5, <1>6 DEF Datas
  <1>7. CASE e = "Permission"
    BY <1>4, <1>5, <1>7 DEF Datas
  <1>8. CASE e \in Datas
    BY <1>4, <1>5, <1>8 DEF Datas
  <1>9. CASE e = "RateLimit"
    BY <1>4, <1>5, <1>9 DEF Datas
  <1>10. CASE e \in {"Response", "Redirect", "Server"} \cup Transports
    BY <1>4, <1>5, <1>10 DEF Datas, Transports, Updates, Responses
  <1>11. CASE e = "Unexpected"
    BY <1>4, <1>5, <1>11 DEF Datas, Transports, Updates, Responses, Errors
  <1> QED
    BY <1>1, <1>6, <1>7, <1>8, <1>9, <1>10, <1>11

LEMMA SetupHandles ==
    ASSUME NEW e \in Errors
    PROVE  Handle(SetupClauses, e) =
             CASE e = "Authentication" -> "reauth"
               [] e = "Permission"     -> "insufficient_permissions"
               [] e \in Datas          -> "invalid_response"
               [] e = "Unexpected"     -> "unknown"
               [] OTHER                -> "cannot_connect"
  <1>1. /\ e # "none"
        /\ e \in {"Authentication", "Unexpected", "Permission"} \cup Datas
                   \cup {"Response", "Redirect", "RateLimit", "Server"} \cup Transports
    BY DEF Errors, Updates, Responses, Transports, Datas
  <1>2. DOMAIN SetupClauses = 1..5
    BY DEF SetupClauses
  <1>3. /\ SetupClauses[1] = Clause({"Authentication"}, "reauth")
        /\ SetupClauses[2] = Clause({"Permission"}, "insufficient_permissions")
        /\ SetupClauses[3] = Clause(Datas, "invalid_response")
        /\ SetupClauses[4] = Clause(Updates, "cannot_connect")
        /\ SetupClauses[5] = Clause(Errors, "unknown")
    BY DEF SetupClauses
  <1>4. /\ SetupClauses[1].catches = {"Authentication"}
        /\ SetupClauses[1].does = "reauth"
        /\ SetupClauses[2].catches = {"Permission"}
        /\ SetupClauses[2].does = "insufficient_permissions"
        /\ SetupClauses[3].catches = Datas
        /\ SetupClauses[3].does = "invalid_response"
        /\ SetupClauses[4].catches = Updates
        /\ SetupClauses[4].does = "cannot_connect"
        /\ SetupClauses[5].catches = Errors
        /\ SetupClauses[5].does = "unknown"
    BY <1>3 DEF Clause
  <1>5. ASSUME NEW i \in 1..5, e \in SetupClauses[i].catches,
               \A j \in 1..(i - 1) : e \notin SetupClauses[j].catches
        PROVE  Handle(SetupClauses, e) = SetupClauses[i].does
    BY <1>1, <1>2, <1>5, FirstClause
  <1>6. CASE e = "Authentication"
    BY <1>4, <1>5, <1>6 DEF Datas, Transports, Updates, Responses, Errors
  <1>7. CASE e = "Permission"
    BY <1>4, <1>5, <1>7 DEF Datas, Transports, Updates, Responses, Errors
  <1>8. CASE e \in Datas
    BY <1>4, <1>5, <1>8 DEF Datas, Transports, Updates, Responses, Errors
  <1>9. CASE e \in {"Response", "Redirect", "RateLimit", "Server"} \cup Transports
    BY <1>4, <1>5, <1>9 DEF Datas, Transports, Updates, Responses, Errors
  <1>10. CASE e = "Unexpected"
    BY <1>4, <1>5, <1>10 DEF Datas, Transports, Updates, Responses, Errors
  <1> QED
    BY <1>1, <1>6, <1>7, <1>8, <1>9, <1>10 DEF Transports

LEMMA FlowHandles ==
    ASSUME NEW e \in Errors
    PROVE  Handle(FlowClauses, e) =
             CASE e = "Authentication" -> "invalid_auth"
               [] e = "Permission"     -> "insufficient_permissions"
               [] e = "Redirect"       -> "redirect_not_allowed"
               [] e = "Tls"            -> "invalid_tls"
               [] e = "Address"        -> "blocked_address"
               [] e \in Datas          -> "invalid_response"
               [] e = "Unexpected"     -> "unknown"
               [] OTHER                -> "cannot_connect"
  <1>1. /\ e # "none"
        /\ e \in {"Authentication", "Unexpected", "Permission"} \cup Datas
                   \cup {"Response", "Redirect", "RateLimit", "Server"} \cup Transports
    BY DEF Errors, Updates, Responses, Transports, Datas
  <1>2. DOMAIN FlowClauses = 1..9
    BY DEF FlowClauses
  <1>3. /\ FlowClauses[1] = Clause({"Authentication"}, "invalid_auth")
        /\ FlowClauses[2] = Clause({"Permission"}, "insufficient_permissions")
        /\ FlowClauses[3] = Clause({"Redirect"}, "redirect_not_allowed")
        /\ FlowClauses[4] = Clause({"Tls"}, "invalid_tls")
        /\ FlowClauses[5] = Clause({"Address"}, "blocked_address")
        /\ FlowClauses[6] = Clause(Responses, "cannot_connect")
        /\ FlowClauses[7] = Clause(Datas, "invalid_response")
        /\ FlowClauses[8] = Clause(Updates, "cannot_connect")
        /\ FlowClauses[9] = Clause(Errors, "unknown")
    BY DEF FlowClauses
  <1>4. /\ FlowClauses[1].catches = {"Authentication"}
        /\ FlowClauses[1].does = "invalid_auth"
        /\ FlowClauses[2].catches = {"Permission"}
        /\ FlowClauses[2].does = "insufficient_permissions"
        /\ FlowClauses[3].catches = {"Redirect"}
        /\ FlowClauses[3].does = "redirect_not_allowed"
        /\ FlowClauses[4].catches = {"Tls"}
        /\ FlowClauses[4].does = "invalid_tls"
        /\ FlowClauses[5].catches = {"Address"}
        /\ FlowClauses[5].does = "blocked_address"
        /\ FlowClauses[6].catches = Responses
        /\ FlowClauses[6].does = "cannot_connect"
        /\ FlowClauses[7].catches = Datas
        /\ FlowClauses[7].does = "invalid_response"
        /\ FlowClauses[8].catches = Updates
        /\ FlowClauses[8].does = "cannot_connect"
        /\ FlowClauses[9].catches = Errors
        /\ FlowClauses[9].does = "unknown"
    BY <1>3 DEF Clause
  <1>5. ASSUME NEW i \in 1..9, e \in FlowClauses[i].catches,
               \A j \in 1..(i - 1) : e \notin FlowClauses[j].catches
        PROVE  Handle(FlowClauses, e) = FlowClauses[i].does
    BY <1>1, <1>2, <1>5, FirstClause
  <1>6. CASE e = "Authentication"
    BY <1>4, <1>5, <1>6 DEF Datas, Transports, Updates, Responses, Errors
  <1>7. CASE e = "Permission"
    BY <1>4, <1>5, <1>7 DEF Datas, Transports, Updates, Responses, Errors
  <1>8. CASE e = "Redirect"
    BY <1>4, <1>5, <1>8 DEF Datas, Transports, Updates, Responses, Errors
  <1>9. CASE e = "Tls"
    BY <1>4, <1>5, <1>9 DEF Datas, Transports, Updates, Responses, Errors
  <1>10. CASE e = "Address"
    BY <1>4, <1>5, <1>10 DEF Datas, Transports, Updates, Responses, Errors
  <1>11. CASE e \in {"Response", "RateLimit", "Server"}
    BY <1>4, <1>5, <1>11 DEF Datas, Transports, Updates, Responses, Errors
  <1>12. CASE e \in Datas
    BY <1>4, <1>5, <1>12 DEF Datas, Transports, Updates, Responses, Errors
  <1>13. CASE e \in {"Transport", "Timeout"}
    BY <1>4, <1>5, <1>13 DEF Datas, Transports, Updates, Responses, Errors
  <1>14. CASE e = "Unexpected"
    BY <1>4, <1>5, <1>14 DEF Datas, Transports, Updates, Responses, Errors
  <1> QED
    BY <1>1, <1>6, <1>7, <1>8, <1>9, <1>10, <1>11, <1>12, <1>13, <1>14 DEF Transports

LEMMA FirstErrorIsOne ==
    ASSUME NEW errors, DOMAIN errors \subseteq Nat, FirstError(errors) # "none"
    PROVE  \E i \in DOMAIN errors : FirstError(errors) = errors[i]
  <1> DEFINE raised == {i \in DOMAIN errors : errors[i] # "none"}
  <1>1. raised # {} /\ FirstError(errors) = errors[First(raised)]
    BY DEF FirstError
  <1>2. First(raised) \in raised
    BY <1>1, FirstIsIn
  <1> QED
    BY <1>1, <1>2

LEMMA PeersErrorKinds ==
    ASSUME NEW items, items = Malformed \/ DOMAIN items \subseteq Nat
    PROVE  PeersError(items) \in {"none", "Schema", "Unexpected"}
  <1> DEFINE kinds == {"none", "Schema", "Unexpected"}
  <1>1. ASSUME NEW d PROVE PeerError(d) \in kinds
    <2> DEFINE errors == <<GroupsError(d.groups), RequiredError(d.id), OptionalError(d.name),
                           OptionalError(d.connected), OptionalTimestampError(d.lastSeen)>>
    <2>1. FirstError(errors) # "none" => \E i \in DOMAIN errors : FirstError(errors) = errors[i]
      BY FirstErrorIsOne
    <2>2. /\ GroupsError(d.groups) \in kinds /\ RequiredError(d.id) \in kinds
          /\ OptionalError(d.name) \in kinds /\ OptionalError(d.connected) \in kinds
          /\ OptionalTimestampError(d.lastSeen) \in kinds
      BY DEF GroupsError, RequiredError, OptionalError, OptionalTimestampError, SchemaErrorIf
    <2>3. \A i \in DOMAIN errors : errors[i] \in kinds
      BY <2>2
    <2> QED
      BY <2>1, <2>3 DEF PeerError, ObjectError
  <1>2. ASSUME NEW d, NEW b PROVE FirstError(<<PeerError(d), SchemaErrorIf(b)>>) \in kinds
    <2> DEFINE errors == <<PeerError(d), SchemaErrorIf(b)>>
    <2>1. FirstError(errors) # "none" => \E i \in DOMAIN errors : FirstError(errors) = errors[i]
      BY FirstErrorIsOne
    <2>2. \A i \in DOMAIN errors : errors[i] \in kinds
      BY <1>1 DEF SchemaErrorIf
    <2> QED
      BY <2>1, <2>2
  <1>3. CASE items # Malformed
    <2> DEFINE both(i) == FirstError(<<PeerError(items[i]), SchemaErrorIf(Repeated(items, i))>>)
               errors  == [i \in DOMAIN items |-> both(i)]
    <2>1. FirstError(errors) # "none" => \E i \in DOMAIN errors : FirstError(errors) = errors[i]
      BY <1>3, FirstErrorIsOne
    <2>2. \A i : both(i) \in kinds
      BY <1>2
    <2>3. PeersError(items) = FirstError(errors)
      BY <1>3 DEF PeersError, ListError
    <2> HIDE DEF both
    <2> QED
      BY <2>1, <2>2, <2>3
  <1> QED
    BY <1>3 DEF PeersError, ListError

(* The error a peer list ends with, by what was answered.                  *)
LEMMA GetPeersErrorKinds ==
    ASSUME NEW r \in Reply(PeerObject(PeerIds))
    PROVE  LET e == GetPeersError(r)
           IN  /\ e \in {"none"} \cup Errors
               /\ e = "Authentication" <=> r.failure = "none" /\ r.status = 401
               /\ e = "Response" /\ r.status = 404 <=> r.failure = "none" /\ r.status = 404
  <1> DEFINE e == GetPeersError(r)
  <1>1. PeersError(r.body) \in {"none", "Schema", "Unexpected"}
    BY PeersErrorKinds, BodyIsList DEF Reply
  <1>2. r.failure \in {"none", "blocked", "timeout", "tls", "connection", "other"}
          /\ r.status \in Nat
    BY DEF Reply, Failures
  <1>3. StatusError(r.status) \in {"none", "Redirect", "Authentication", "Permission",
                                   "RateLimit", "Server", "Response"}
    BY DEF StatusError
  <1>4. /\ StatusError(r.status) = "Authentication" <=> r.status = 401
        /\ r.status = 404 => StatusError(r.status) = "Response"
    BY <1>2 DEF StatusError
  <1>5. CASE r.failure # "none"
    <2>1. FetchError(r) \in {"Address", "Timeout", "Tls", "Transport", "Unexpected"}
      <3>1. FetchError(r) = Failures[r.failure]
        BY <1>5 DEF FetchError
      <3>2. \A f \in {"blocked", "timeout", "tls", "connection", "other"} :
              Failures[f] \in {"Address", "Timeout", "Tls", "Transport", "Unexpected"}
        BY DEF Failures
      <3> QED
        BY <1>2, <1>5, <3>1, <3>2
    <2>2. e = FetchError(r)
      BY <2>1 DEF GetPeersError, ReplyError, Replied
    <2> QED
      BY <1>5, <2>1, <2>2 DEF Errors, Updates, Responses, Transports, Datas
  <1>6. CASE r.failure = "none" /\ StatusError(r.status) # "none"
    <2>1. e = StatusError(r.status)
      BY <1>6 DEF GetPeersError, ReplyError, Replied, FetchError
    <2> QED
      BY <1>3, <1>4, <1>6, <2>1 DEF Errors, Updates, Responses, Transports, Datas
  <1>7. CASE r.failure = "none" /\ StatusError(r.status) = "none"
    <2>1. e \in {"none", "Schema", "Unexpected", "Json"}
      BY <1>1, <1>7 DEF GetPeersError, ReplyError, Replied, FetchError
    <2> QED
      BY <1>4, <1>7, <2>1 DEF Errors, Updates, Responses, Transports, Datas
  <1> QED
    BY <1>5, <1>6, <1>7

LEMMA DiagnosesFollow == IInv => DiagnosesAgree
  <1> SUFFICES ASSUME IInv PROVE DiagnosesAgree
    OBVIOUS
  <1> DEFINE e        == GetPeersError(peerReply)
             poll     == Handle(PollClauses, e)
             setup    == Handle(SetupClauses, e)
             flow(f)  == FlowError(e, peerReply.status, f)
             answered == peerReply.failure = "none"
             status   == peerReply.status
  <1>1. /\ e \in {"none"} \cup Errors
        /\ e = "Authentication" <=> answered /\ status = 401
        /\ e = "Response" /\ status = 404 <=> answered /\ status = 404
    BY GetPeersErrorKinds DEF IInv, TypeOK
  <1>2. \A f \in BOOLEAN :
          flow(f) = IF e = "Response" /\ status = 404 /\ f THEN "unsupported_server"
                    ELSE Handle(FlowClauses, e)
    BY DEF FlowError
  <1> DEFINE Agree ==
               /\ poll = "reauth" <=> answered /\ status = 401
               /\ setup = IF poll = "deferred" THEN "cannot_connect" ELSE poll
               /\ \A full \in BOOLEAN :
                    /\ flow(full) = "invalid_auth" <=> setup = "reauth"
                    /\ flow(full) = "unsupported_server" <=>
                         full /\ answered /\ status = 404
                    /\ flow(full) \notin {"invalid_auth", setup} =>
                         setup = "cannot_connect"
  <1>3. CASE e = "none"
    <2>1. poll = "ok" /\ setup = "ok" /\ \A f \in BOOLEAN : flow(f) = "ok"
      BY <1>2, <1>3 DEF Handle
    <2> HIDE DEF e, poll, setup, flow, answered, status
    <2>2. Agree
      BY <1>1, <1>3, <2>1
    <2> QED
      BY <2>2 DEF DiagnosesAgree, e, poll, setup, flow, answered, status
  <1>4. CASE e \in Errors
    <2>1. /\ poll = CASE e = "Authentication" -> "reauth"
                      [] e = "Permission"     -> "insufficient_permissions"
                      [] e \in Datas          -> "invalid_response"
                      [] e = "RateLimit"      -> "deferred"
                      [] e = "Unexpected"     -> "unknown"
                      [] OTHER                -> "cannot_connect"
          /\ setup = CASE e = "Authentication" -> "reauth"
                       [] e = "Permission"     -> "insufficient_permissions"
                       [] e \in Datas          -> "invalid_response"
                       [] e = "Unexpected"     -> "unknown"
                       [] OTHER                -> "cannot_connect"
          /\ Handle(FlowClauses, e) =
               CASE e = "Authentication" -> "invalid_auth"
                 [] e = "Permission"     -> "insufficient_permissions"
                 [] e = "Redirect"       -> "redirect_not_allowed"
                 [] e = "Tls"            -> "invalid_tls"
                 [] e = "Address"        -> "blocked_address"
                 [] e \in Datas          -> "invalid_response"
                 [] e = "Unexpected"     -> "unknown"
                 [] OTHER                -> "cannot_connect"
      BY <1>4, PollHandles, SetupHandles, FlowHandles
    <2>2. e \in {"Authentication", "Unexpected", "Permission"} \cup Datas
                  \cup {"Response", "Redirect", "RateLimit", "Server"} \cup Transports
      BY <1>4 DEF Errors, Updates, Responses
    <2> HIDE DEF e, poll, setup, flow, answered, status
    <2>3. Agree
      BY <1>1, <1>2, <2>1, <2>2 DEF Datas, Transports
    <2> QED
      BY <2>3 DEF DiagnosesAgree, e, poll, setup, flow, answered, status
  <1> QED
    BY <1>1, <1>3, <1>4

(* For any status and any body, well formed or not: polls, setups and flows*)
(* blame the token for the same replies, the 401s, and a flow names an old *)
(* server exactly when it asked for the whole contract and got a 404       *)
(* (coordinator.py:86-106, __init__.py:132-151, config_flow.py:107-130).   *)
THEOREM DiagnosesAlwaysAgree == Spec => []DiagnosesAgree
  BY InductiveInvariant, DiagnosesFollow, PTL
=============================================================================
