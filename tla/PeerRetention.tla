--------------------------- MODULE PeerRetention ---------------------------
(***************************************************************************)
(* What stale-peer handling promises, without the registries, listeners    *)
(* and reloads that implement it: a peer is registered as soon as a        *)
(* successful snapshot lists it, and a registered peer may be dropped only *)
(* by a successful snapshot that completes a run of Threshold consecutive  *)
(* successful snapshots omitting it.                                       *)
(***************************************************************************)
EXTENDS Integers

CONSTANTS Peers,      \* peer ids
          Threshold   \* snapshots that must omit a peer before it is dropped

VARIABLES registered, \* peers that have a device in the device registry
          absence     \* per peer, the length of its current run of omissions

vars == <<registered, absence>>

Init == /\ registered = {}
        /\ absence = [p \in Peers |-> 0]

(* A snapshot listing exactly the peers S. *)
Snapshot(S) ==
    /\ absence' = [p \in Peers |->
                     IF p \in S THEN 0
                     ELSE IF absence[p] < Threshold THEN absence[p] + 1
                     ELSE Threshold]
    /\ S \subseteq registered'
    /\ registered' \subseteq registered \cup S
    /\ \A p \in registered \ registered' : absence'[p] = Threshold

Next == \E S \in SUBSET Peers : Snapshot(S)

Spec == Init /\ [][Next]_vars
=============================================================================
