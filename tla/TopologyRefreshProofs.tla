----------------------- MODULE TopologyRefreshProofs -----------------------
(***************************************************************************)
(* What TopologyRefresh guarantees for any networks, sections, gathers,    *)
(* tolerated failures and limit, for the coordinator's refresh and the     *)
(* setup flow's contract check alike.                                      *)
(***************************************************************************)
EXTENDS TopologyRefresh, FiniteSetTheorems, TLAPS

(* A request that has not ended belongs to a gather that has not either.   *)
UnfinishedHasBatch ==
    \A r \in Unfinished : phase = "fetching" /\ batch[Kind(r)] \in {"running", "draining"}

(* A request raises, or is cancelled, only in a gather that will raise.    *)
FailureIsKept ==
    /\ \A r \in Requests : req[r] \in {"raised", "cancelled"} => first[Kind(r)] # "none"
    /\ \A r \in cancelling : first[Kind(r)] # "none"
    /\ \A b \in Batches : batch[b] = "draining" => first[b] # "none"
    /\ phase = "fetching" /\ seen \cap FatalKinds # {} => \E b \in Batches : first[b] # "none"

(* Once the outer gather stops, no request waits for the semaphore any more*)
(* without having been cancelled.                                          *)
WaitingIsCancelled == outer # "none" => Waiting \subseteq cancelling

(* Errors that are remembered did happen. *)
ErrorsAreSeen ==
    /\ \A b \in Batches : first[b] \in seen \cup {"none", "cancelled"}
    /\ outer \in seen \cup {"none", "cancelled"}

(* While the networks are listed nothing has failed; once they are, every  *)
(* section of theirs has a request.                                        *)
PhaseFits ==
    /\ phase = "listing" => /\ outer = "none" /\ seen = {}
                            /\ \A b \in Batches : first[b] = "none"
    /\ phase = "fetching" => \A r \in Sections \X networks : req[r] # "none"

IInv ==
    /\ TypeOK
    /\ ConcurrencyBounded
    /\ UnfinishedHasBatch
    /\ FailureIsKept
    /\ WaitingIsCancelled
    /\ ErrorsAreSeen
    /\ PhaseFits
    /\ ResultIsHonest

-----------------------------------------------------------------------------
(* There are finitely many requests, so the active ones can be counted.    *)
LEMMA ActiveFinite == IsFiniteSet(Requests) /\ IsFiniteSet(Active)
  BY FiniteAssumption, FS_Product, FS_Subset DEF Requests, Active

(* Only a step that makes a request active can break the bound. *)
LEMMA BoundKept ==
    ASSUME ConcurrencyBounded, Active' \subseteq Active
    PROVE  ConcurrencyBounded'
  <1>1. Cardinality(Active') <= Cardinality(Active)
    BY ActiveFinite, FS_Subset
  <1>2. Cardinality(Active) \in Nat /\ Cardinality(Active') \in Nat
    BY ActiveFinite, FS_CardinalityType, FS_Subset
  <1> QED
    BY <1>1, <1>2, LimitAssumption DEF ConcurrencyBounded

(* Every request has its gather. *)
LEMMA KindType == \A r \in Requests : Kind(r) \in Batches
  BY BatchAssumption DEF Kind, Requests

(* An error that a request raises or a list request meets is no marker.    *)
LEMMA KindsAreNoMarkers ==
    /\ FatalKinds \subseteq Failures
    /\ "none" \notin Failures /\ "cancelled" \notin Failures
  BY BatchAssumption DEF Failures

LEMMA InitInv == Init => IInv
  <1> SUFFICES ASSUME Init PROVE IInv
    OBVIOUS
  <1>1. Waiting = {} /\ Active = {} /\ Unfinished = {}
    BY DEF Init, Waiting, Active, Unfinished
  <1>2. ConcurrencyBounded
    BY <1>1, FS_EmptySet, LimitAssumption DEF ConcurrencyBounded
  <1>3. TypeOK
    BY <1>1 DEF Init, TypeOK
  <1> QED
    BY <1>1, <1>2, <1>3, KindType
    DEF Init, IInv, UnfinishedHasBatch, FailureIsKept, WaitingIsCancelled, ErrorsAreSeen,
        PhaseFits, ResultIsHonest, Failures

-----------------------------------------------------------------------------
(* The list request: nothing is in flight before it, around it or after it *)
(* has failed.                                                             *)
LEMMA ListInv ==
    ASSUME IInv, Start \/ CallerCancelsList \/ ListStep
    PROVE  IInv'
  <1> USE KindType, KindsAreNoMarkers
      DEF Waiting, Active, Unfinished, IInv, TypeOK
  <1>1. CASE Start
    <2>1. Waiting' = {} /\ Active' = {} /\ Unfinished' = {}
      BY <1>1 DEF Start
    <2>2. ConcurrencyBounded'
      BY <2>1, BoundKept
    <2>3. TypeOK'
      BY <1>1, <2>1 DEF Start
    <2> QED
      BY <1>1, <2>1, <2>2, <2>3
      DEF Start, UnfinishedHasBatch, FailureIsKept, WaitingIsCancelled, ErrorsAreSeen,
          PhaseFits, ResultIsHonest
  <1>2. CASE CallerCancelsList
    <2>1. Unfinished = {} /\ Active' = Active
      BY <1>2 DEF CallerCancelsList, UnfinishedHasBatch
    <2>2. ConcurrencyBounded'
      BY <2>1, BoundKept
    <2> QED
      BY <1>2, <2>1, <2>2
      DEF CallerCancelsList, UnfinishedHasBatch, FailureIsKept, WaitingIsCancelled,
          ErrorsAreSeen, PhaseFits, ResultIsHonest
  <1>3. CASE \E k \in Failures : ListFails(k)
    <2> PICK k \in Failures : ListFails(k)
      BY <1>3
    <2>1. Unfinished = {} /\ Active' = Active
      BY DEF ListFails, UnfinishedHasBatch
    <2>2. ConcurrencyBounded'
      BY <2>1, BoundKept
    <2> QED
      BY <2>1, <2>2
      DEF ListFails, UnfinishedHasBatch, FailureIsKept, WaitingIsCancelled, ErrorsAreSeen,
          PhaseFits, ResultIsHonest, Failures
  <1>4. CASE \E N \in SUBSET Networks : Listed(N)
    <2> PICK N \in SUBSET Networks : Listed(N)
      BY <1>4
    <2>1. Unfinished = {} /\ cancelling = {} /\ Active' = {}
      BY DEF Listed, UnfinishedHasBatch
    <2>2. ConcurrencyBounded'
      BY <2>1, BoundKept
    <2>3. TypeOK'
      BY <2>1 DEF Listed
    <2>4. PhaseFits'
      BY DEF Listed, PhaseFits, Requests
    <2>5. UnfinishedHasBatch' /\ FailureIsKept'
      BY <2>1 DEF Listed, PhaseFits, UnfinishedHasBatch, FailureIsKept
    <2>6. WaitingIsCancelled' /\ ErrorsAreSeen' /\ ResultIsHonest'
      BY DEF Listed, PhaseFits, WaitingIsCancelled, ErrorsAreSeen, ResultIsHonest
    <2> QED
      BY <2>2, <2>3, <2>4, <2>5, <2>6
  <1> QED
    BY <1>1, <1>2, <1>3, <1>4 DEF ListStep

-----------------------------------------------------------------------------
(* The steps of one request. *)
LEMMA RequestInv == ASSUME IInv, NEW r \in Requests, RequestStep(r) PROVE IInv'
  <1> USE KindType, KindsAreNoMarkers
      DEF Waiting, Active, Unfinished, IInv, TypeOK
  <1>1. CASE Begin(r)
    <2>1. Active' = Active \cup {r} /\ r \notin Active
      BY <1>1 DEF Begin
    <2>2. Cardinality(Active') = Cardinality(Active) + 1 /\ Cardinality(Active) \in Nat
      <3> HIDE DEF Active
      <3> QED
        BY <2>1, ActiveFinite, FS_AddElement, FS_CardinalityType
    <2>3. ConcurrencyBounded'
      <3>1. Cardinality(Active) < Limit
        BY <1>1 DEF Begin
      <3> HIDE DEF Active
      <3> QED
        BY <2>2, <3>1, LimitAssumption DEF ConcurrencyBounded
    <2> QED
      BY <1>1, <2>3
      DEF Begin, UnfinishedHasBatch, FailureIsKept, WaitingIsCancelled, ErrorsAreSeen,
          PhaseFits, ResultIsHonest
  <1>2. CASE Answers(r)
    <2>1. Active' \subseteq Active
      BY <1>2 DEF Answers
    <2>2. ConcurrencyBounded'
      BY <2>1, BoundKept
    <2> QED
      BY <1>2, <2>2
      DEF Answers, UnfinishedHasBatch, FailureIsKept, WaitingIsCancelled, ErrorsAreSeen,
          PhaseFits, ResultIsHonest
  <1>3. CASE \E k \in Failures : Fails(r, k)
    <2> PICK k \in Failures : Fails(r, k)
      BY <1>3
    <2>1. Active' \subseteq Active /\ phase = "fetching"
      BY DEF Fails, UnfinishedHasBatch
    <2>2. ConcurrencyBounded'
      BY <2>1, BoundKept
    <2>3. /\ \A b \in Batches : first'[b] = first[b] \/ (first[b] = "none" /\ first'[b] = k)
          /\ k \in FatalKinds => first'[Kind(r)] # "none"
          /\ first' \in [Batches -> {"none", "cancelled"} \cup FatalKinds]
      <3>1. Kind(r) \in Batches /\ k # "none"
            /\ first \in [Batches -> {"none", "cancelled"} \cup FatalKinds]
        OBVIOUS
      <3>2. CASE k \in FatalKinds /\ first[Kind(r)] = "none"
        <4>1. first' = [first EXCEPT ![Kind(r)] = k]
          BY <3>2 DEF Fails, Fatal
        <4>2. first'[Kind(r)] = k /\ \A b \in Batches \ {Kind(r)} : first'[b] = first[b]
          BY <3>1, <4>1
        <4>3. first' \in [Batches -> {"none", "cancelled"} \cup FatalKinds]
          BY <3>1, <3>2, <4>1
        <4> QED
          BY <3>1, <3>2, <4>2, <4>3
      <3>3. CASE ~(k \in FatalKinds /\ first[Kind(r)] = "none")
        <4>1. first' = first
          BY <3>3 DEF Fails, Fatal
        <4> HIDE DEF IInv, TypeOK
        <4> QED
          BY <3>1, <3>3, <4>1
      <3> QED
        BY <3>2, <3>3
    <2>4. TypeOK'
      BY <2>3 DEF Fails
    <2>5. FailureIsKept'
      BY <2>3 DEF Fails, Fatal, FailureIsKept
    <2>6. ErrorsAreSeen'
      BY <2>3 DEF Fails, ErrorsAreSeen
    <2> QED
      BY <2>1, <2>2, <2>4, <2>5, <2>6
      DEF Fails, UnfinishedHasBatch, WaitingIsCancelled, PhaseFits, ResultIsHonest
  <1>4. CASE IsCancelled(r)
    <2>1. Active' \subseteq Active
      BY <1>4 DEF IsCancelled
    <2>2. ConcurrencyBounded'
      BY <2>1, BoundKept
    <2>3. phase = "fetching"
      BY <1>4 DEF IsCancelled, UnfinishedHasBatch
    <2> QED
      BY <1>4, <2>2, <2>3
      DEF IsCancelled, UnfinishedHasBatch, FailureIsKept, WaitingIsCancelled,
          ErrorsAreSeen, PhaseFits, ResultIsHonest
  <1> QED
    BY <1>1, <1>2, <1>3, <1>4 DEF RequestStep

-----------------------------------------------------------------------------
(* Stopping the outer gather: every unfinished request is in a gather that *)
(* is stopped with it, or is stopping already.                             *)
LEMMA CancelInv ==
    ASSUME IInv, phase = "fetching", CancelBatches,
           outer' \in {"none", "cancelled"} \cup FatalKinds,
           outer' \in seen \cup {"none", "cancelled"},
           UNCHANGED <<phase, networks, req, result, seen>>
    PROVE  IInv'
  <1> USE KindType, KindsAreNoMarkers
      DEF Waiting, Active, Unfinished, IInv, TypeOK
  <1>1. ConcurrencyBounded'
    BY BoundKept
  <1>2. /\ \A b \in Batches :
             /\ first'[b] = first[b] \/ (first[b] = "none" /\ first'[b] = "cancelled")
             /\ batch[b] \in {"running", "draining"} =>
                  batch'[b] = "draining" /\ first'[b] # "none"
             /\ batch'[b] = "draining" => batch[b] \in {"running", "draining"}
        /\ first' \in [Batches -> {"none", "cancelled"} \cup FatalKinds]
        /\ batch' \in [Batches -> {"none", "running", "draining", "ended"}]
        /\ cancelling' = cancelling \cup Unfinished
    <2>1. /\ batch' = [b \in Batches |-> IF batch[b] = "running" THEN "draining" ELSE batch[b]]
          /\ first' = [b \in Batches |-> IF batch[b] = "running" /\ first[b] = "none"
                                        THEN "cancelled" ELSE first[b]]
          /\ cancelling' = cancelling \cup Unfinished
      BY DEF CancelBatches
    <2>2. batch' \in [Batches -> {"none", "running", "draining", "ended"}]
      BY <2>1
    <2>3. first' \in [Batches -> {"none", "cancelled"} \cup FatalKinds]
      BY <2>1
    <2>4. ASSUME NEW b \in Batches
          PROVE  /\ first'[b] = first[b] \/ (first[b] = "none" /\ first'[b] = "cancelled")
                 /\ batch[b] \in {"running", "draining"} =>
                      batch'[b] = "draining" /\ first'[b] # "none"
                 /\ batch'[b] = "draining" => batch[b] \in {"running", "draining"}
      BY <2>1 DEF FailureIsKept
    <2> QED
      BY <2>1, <2>2, <2>3, <2>4
  <1>3. TypeOK'
    BY <1>2
  <1>4. UnfinishedHasBatch'
    BY <1>2 DEF UnfinishedHasBatch
  <1>5. FailureIsKept'
    BY <1>2 DEF FailureIsKept, UnfinishedHasBatch
  <1> QED
    BY <1>1, <1>2, <1>3, <1>4, <1>5
    DEF WaitingIsCancelled, ErrorsAreSeen, PhaseFits, ResultIsHonest

(* The steps of the gathers and the end of the refresh. *)
LEMMA GatherInv ==
    ASSUME IInv, CallerCancels \/ Finish \/ \E b \in Batches : BatchStep(b)
    PROVE  IInv'
  <1> USE KindType, KindsAreNoMarkers
      DEF Waiting, Active, Unfinished, IInv, TypeOK
  <1>1. CASE CallerCancels
    BY <1>1, CancelInv DEF CallerCancels
  <1>2. CASE Finish
    <2>1. Active' = Active /\ Unfinished = {}
      BY <1>2 DEF Finish, UnfinishedHasBatch
    <2>2. ConcurrencyBounded'
      BY <2>1, BoundKept
    <2>3. ResultIsHonest'
      <3>1. CASE outer = "none"
        <4>1. /\ seen \cap FatalKinds = {}
              /\ \A r \in Requests : req[r] \notin {"raised", "cancelled"}
          BY <1>2, <3>1 DEF Finish, FailureIsKept
        <4>2. \A r \in Sections \X networks : r \in Requests /\ req[r] # "none"
          BY <1>2 DEF Finish, PhaseFits, Requests
        <4>3. \A r \in Sections \X networks : req[r] \in {"value", "empty"}
          BY <2>1, <4>1, <4>2
        <4> QED
          BY <1>2, <3>1, <4>1, <4>3 DEF Finish, ResultIsHonest, Failures
      <3>2. CASE outer # "none"
        BY <1>2, <3>2 DEF Finish, ErrorsAreSeen, ResultIsHonest, Failures
      <3> QED
        BY <3>1, <3>2
    <2> QED
      BY <1>2, <2>1, <2>2, <2>3
      DEF Finish, UnfinishedHasBatch, FailureIsKept, WaitingIsCancelled, ErrorsAreSeen,
          PhaseFits
  <1>3. ASSUME NEW b \in Batches, BatchStops(b) PROVE IInv'
    <2>1. ConcurrencyBounded'
      BY <1>3, BoundKept DEF BatchStops
    <2>2. FailureIsKept'
      BY <1>3 DEF BatchStops, FailureIsKept, InBatch
    <2>3. UnfinishedHasBatch'
      BY <1>3 DEF BatchStops, UnfinishedHasBatch
    <2> QED
      BY <1>3, <2>1, <2>2, <2>3
      DEF BatchStops, WaitingIsCancelled, ErrorsAreSeen, PhaseFits, ResultIsHonest
  <1>4. ASSUME NEW b \in Batches, BatchEnds(b) PROVE IInv'
    <2>1. ConcurrencyBounded'
      BY <1>4, BoundKept DEF BatchEnds
    <2>2. UnfinishedHasBatch'
      BY <1>4 DEF BatchEnds, UnfinishedHasBatch, InBatch
    <2> QED
      BY <1>4, <2>1, <2>2
      DEF BatchEnds, FailureIsKept, WaitingIsCancelled, ErrorsAreSeen, PhaseFits,
          ResultIsHonest
  <1>5. ASSUME NEW b \in Batches, OuterStops(b) PROVE IInv'
    BY <1>5, CancelInv DEF OuterStops, ErrorsAreSeen
  <1> QED
    BY <1>1, <1>2, <1>3, <1>4, <1>5 DEF BatchStep

LEMMA NextInv == IInv /\ [Next]_vars => IInv'
  <1> SUFFICES ASSUME IInv, [Next]_vars PROVE IInv'
    OBVIOUS
  <1>1. CASE Start \/ CallerCancelsList \/ ListStep
    BY <1>1, ListInv
  <1>2. CASE \E r \in Requests : RequestStep(r)
    BY <1>2, RequestInv
  <1>3. CASE CallerCancels \/ Finish \/ \E b \in Batches : BatchStep(b)
    BY <1>3, GatherInv
  <1>4. CASE UNCHANGED vars
    BY <1>4 DEF vars, IInv, TypeOK, ConcurrencyBounded, UnfinishedHasBatch, FailureIsKept,
           WaitingIsCancelled, ErrorsAreSeen, PhaseFits, ResultIsHonest, Waiting, Active,
           Unfinished
  <1> QED
    BY <1>1, <1>2, <1>3, <1>4 DEF Next

-----------------------------------------------------------------------------
(* The inductive invariant holds in every reachable state.                 *)
THEOREM InvariantHolds == Spec => []IInv
  BY InitInv, NextInv, PTL DEF Spec

(* Every variable keeps its type (topology.py, async_utils.py).            *)
THEOREM TypeCorrect == Spec => []TypeOK
  <1>1. IInv => TypeOK
    BY DEF IInv
  <1> QED
    BY <1>1, InvariantHolds, PTL

(* Never more than Limit requests are in flight (topology.py:109-125).     *)
THEOREM Bounded == Spec => []ConcurrencyBounded
  <1>1. IInv => ConcurrencyBounded
    BY DEF IInv
  <1> QED
    BY <1>1, InvariantHolds, PTL

(* A refresh that has ended leaves no request behind                       *)
(* (async_utils.py:16-20).                                                 *)
THEOREM Drained == Spec => []NothingOutlivesRefresh
  <1>1. IInv => NothingOutlivesRefresh
    BY DEF IInv, UnfinishedHasBatch, NothingOutlivesRefresh
  <1> QED
    BY <1>1, InvariantHolds, PTL

(* A success hides no fatal failure, a reported failure did happen         *)
(* (topology.py:117, 128, 145-155).                                        *)
THEOREM Honest == Spec => []ResultIsHonest
  <1>1. IInv => ResultIsHonest
    BY DEF IInv
  <1> QED
    BY <1>1, InvariantHolds, PTL

(* Once the refresh is failing or cancelled, no further request is sent    *)
(* (async_utils.py:16-19).                                                 *)
THEOREM SendingStops == Spec => StopsSending
  <1> DEFINE Quiet == outer # "none" =>
                        \A r \in Requests : req[r] = "waiting" => req'[r] # "active"
  <1>1. IInv /\ [Next]_vars => [Quiet]_vars
    <2> SUFFICES ASSUME IInv, Next, outer # "none", NEW r \in Requests, req[r] = "waiting"
                 PROVE  req'[r] # "active"
      BY DEF vars
    <2>1. r \in cancelling /\ req \in [Requests -> {"none", "waiting", "active", "value",
                                                    "empty", "raised", "cancelled"}]
      BY DEF IInv, TypeOK, WaitingIsCancelled, Waiting
    <2>2. CASE \E q \in Requests : RequestStep(q)
      BY <2>1, <2>2 DEF RequestStep, Begin, Answers, Fails, IsCancelled, Waiting
    <2>3. CASE ~\E q \in Requests : RequestStep(q)
      BY <2>1, <2>3
      DEF Next, Start, ListStep, ListFails, Listed, BatchStep, BatchStops, BatchEnds,
          OuterStops, CallerCancels, CallerCancelsList, Finish
    <2> QED
      BY <2>2, <2>3
  <1>2. Spec => [][Next]_vars
    BY PTL DEF Spec
  <1> QED
    BY <1>1, <1>2, InvariantHolds, PTL DEF StopsSending

-----------------------------------------------------------------------------
(* The state half of RefreshEnds: what the fair actions wait for is there, *)
(* as far as safety says it. Each of these is the guard of one of them.    *)
Running == {b \in Batches : batch[b] = "running"}
Open    == {b \in Batches : batch[b] \in {"running", "draining"}}

CanBegin       == Waiting \ cancelling # {} /\ Cardinality(Active) < Limit
CanAnswer      == Active \ cancelling # {}
CanBeCancelled == cancelling # {}
CanStop(b)     == batch[b] = "running" /\ first[b] # "none"
CanEnd(b)      == /\ b \in Open
                  /\ batch[b] = "running" => first[b] = "none"
                  /\ InBatch(b) \cap Unfinished = {}
CanStopOuter(b) == outer = "none" /\ batch[b] = "ended" /\ first[b] # "none"
CanFinish      == /\ \A b \in Batches : batch[b] = "ended"
                  /\ outer = "none" => \A b \in Batches : first[b] = "none"

(* While the sections are fetched one of those guards holds: requests,     *)
(* gathers and the refresh never all wait for each other.                  *)
NeverStuck ==
    phase = "fetching" =>
      \/ CanBegin \/ CanAnswer \/ CanBeCancelled
      \/ \E b \in Batches : CanStop(b) \/ CanEnd(b) \/ CanStopOuter(b)
      \/ CanFinish

(* The gathers exist while the sections are fetched, and only then run.    *)
BatchesFit ==
    /\ phase = "fetching" => \A b \in Batches : batch[b] # "none"
    /\ phase # "fetching" => Open = {}

LEMMA BatchesFitKept == ASSUME IInv, BatchesFit, [Next]_vars PROVE BatchesFit'
  <1>1. batch \in [Batches -> {"none", "running", "draining", "ended"}]
    BY DEF IInv, TypeOK
  <1>2. CASE Start \/ ListStep \/ CallerCancelsList \/ Finish
    BY <1>2
    DEF Start, ListStep, ListFails, Listed, CallerCancelsList, Finish, BatchesFit, Open
  <1>3. CASE \E r \in Requests : RequestStep(r)
    BY <1>3 DEF RequestStep, Begin, Answers, Fails, IsCancelled, BatchesFit, Open
  <1>4. CASE CallerCancels \/ \E b \in Batches : BatchStep(b)
    <2>1. phase = "fetching" /\ phase' = "fetching"
      BY <1>4
      DEF CallerCancels, BatchStep, BatchStops, BatchEnds, OuterStops, BatchesFit, Open
    <2> QED
      BY <1>1, <1>4, <2>1
      DEF CallerCancels, CancelBatches, BatchStep, BatchStops, BatchEnds, OuterStops,
          BatchesFit
  <1>5. CASE UNCHANGED vars
    BY <1>5 DEF vars, BatchesFit, Open
  <1> QED
    BY <1>2, <1>3, <1>4, <1>5 DEF Next

THEOREM BatchesAlwaysFit == Spec => []BatchesFit
  <1>1. Init => BatchesFit
    BY DEF Init, BatchesFit, Open
  <1>2. IInv /\ BatchesFit /\ [Next]_vars => BatchesFit'
    BY BatchesFitKept
  <1> QED
    BY <1>1, <1>2, InvariantHolds, PTL DEF Spec

LEMMA GuardsSuffice == IInv /\ BatchesFit => NeverStuck
  <1> SUFFICES ASSUME IInv, BatchesFit, phase = "fetching"
               PROVE  \/ CanBegin \/ CanAnswer \/ CanBeCancelled
                      \/ \E b \in Batches : CanStop(b) \/ CanEnd(b) \/ CanStopOuter(b)
                      \/ CanFinish
    BY DEF NeverStuck
  <1>1. CASE Unfinished # {}
    <2>1. CASE cancelling # {}
      BY <2>1 DEF CanBeCancelled
    <2>2. CASE cancelling = {} /\ Active # {}
      BY <2>2 DEF CanAnswer
    <2>3. CASE cancelling = {} /\ Active = {}
      <3>1. Waiting \ cancelling # {}
        BY <1>1, <2>3 DEF Unfinished
      <3>2. Cardinality(Active) < Limit
        BY <2>3, FS_EmptySet, LimitAssumption
      <3> QED
        BY <3>1, <3>2 DEF CanBegin
    <2> QED
      BY <2>1, <2>2, <2>3
  <1>2. CASE Unfinished = {}
    <2>1. CASE \E b \in Batches : batch[b] # "ended"
      <3> PICK b \in Batches : batch[b] # "ended"
        BY <2>1
      <3>1. batch[b] \in {"running", "draining"}
        BY DEF IInv, TypeOK, BatchesFit
      <3>2. CanStop(b) \/ CanEnd(b)
        BY <1>2, <3>1 DEF CanStop, CanEnd, Open
      <3> QED
        BY <3>2
    <2>2. CASE \A b \in Batches : batch[b] = "ended"
      BY <2>2 DEF CanStopOuter, CanFinish
    <2> QED
      BY <2>1, <2>2
  <1> QED
    BY <1>1, <1>2

(* While a refresh fetches, some request, gather or the refresh itself can *)
(* go on (async_utils.py:10-21, topology.py:109-137).                      *)
THEOREM GoesOn == Spec => []NeverStuck
  BY GuardsSuffice, InvariantHolds, BatchesAlwaysFit, PTL

-----------------------------------------------------------------------------
(* The step half of RefreshEnds: a number that every step of a refresh,    *)
(* fair or not, brings down. A request counts twice before it begins and   *)
(* once until it ends, a gather twice before it stops and once until it    *)
(* ends, the outer gather until it is cancelled, the refresh until it ends.*)
OuterWeight == IF outer = "none" THEN 2 ELSE IF outer = "cancelled" THEN 0 ELSE 1

StepsLeft ==
    IF phase = "idle" THEN 0
    ELSE IF phase = "listing" THEN 2 * Cardinality(Requests) + 2 * Cardinality(Batches) + 4
    ELSE Cardinality(Unfinished) + Cardinality(Waiting) + Cardinality(Open)
           + Cardinality(Running) + OuterWeight + 1

(* No refresh goes on for ever, whatever fails and whoever cancels: it     *)
(* takes at most StepsLeft more steps.                                     *)
NearsEnd == [][phase # "idle" => StepsLeft' < StepsLeft]_vars

(* What a subset of the requests or gathers counts. *)
LEMMA Counting ==
    ASSUME NEW T, IsFiniteSet(T), NEW S, S \subseteq T
    PROVE  /\ Cardinality(S) \in Nat /\ Cardinality(T) \in Nat
           /\ Cardinality(S) <= Cardinality(T)
           /\ S # T => Cardinality(S) < Cardinality(T)
  <1>1. /\ IsFiniteSet(S) /\ Cardinality(S) <= Cardinality(T)
        /\ Cardinality(S) = Cardinality(T) => S = T
    BY FS_Subset
  <1>2. Cardinality(S) \in Nat /\ Cardinality(T) \in Nat
    BY <1>1, FS_CardinalityType
  <1> QED
    BY <1>1, <1>2

LEMMA CountedFinite ==
    /\ IsFiniteSet(Unfinished) /\ IsFiniteSet(Waiting)
    /\ IsFiniteSet(Open) /\ IsFiniteSet(Running) /\ IsFiniteSet(Batches)
  <1>1. Unfinished \subseteq Requests /\ Waiting \subseteq Requests
    BY DEF Unfinished, Waiting, Active
  <1>2. Open \subseteq Batches /\ Running \subseteq Batches
    BY DEF Open, Running
  <1> QED
    BY <1>1, <1>2, ActiveFinite, FiniteAssumption, FS_Subset

(* Nothing that is counted comes back, and something is gone. *)
LEMMA Fewer ==
    ASSUME phase = "fetching", phase' = "fetching",
           Unfinished' \subseteq Unfinished, Waiting' \subseteq Waiting,
           Open' \subseteq Open, Running' \subseteq Running, OuterWeight' <= OuterWeight,
           \/ Unfinished' # Unfinished \/ Waiting' # Waiting
           \/ Open' # Open \/ Running' # Running \/ OuterWeight' # OuterWeight
    PROVE  StepsLeft' < StepsLeft
  <1>1. /\ Cardinality(Unfinished) \in Nat /\ Cardinality(Unfinished') \in Nat
        /\ Cardinality(Unfinished') <= Cardinality(Unfinished)
        /\ Unfinished' # Unfinished => Cardinality(Unfinished') < Cardinality(Unfinished)
    BY Counting, CountedFinite
  <1>2. /\ Cardinality(Waiting) \in Nat /\ Cardinality(Waiting') \in Nat
        /\ Cardinality(Waiting') <= Cardinality(Waiting)
        /\ Waiting' # Waiting => Cardinality(Waiting') < Cardinality(Waiting)
    BY Counting, CountedFinite
  <1>3. /\ Cardinality(Open) \in Nat /\ Cardinality(Open') \in Nat
        /\ Cardinality(Open') <= Cardinality(Open)
        /\ Open' # Open => Cardinality(Open') < Cardinality(Open)
    BY Counting, CountedFinite
  <1>4. /\ Cardinality(Running) \in Nat /\ Cardinality(Running') \in Nat
        /\ Cardinality(Running') <= Cardinality(Running)
        /\ Running' # Running => Cardinality(Running') < Cardinality(Running)
    BY Counting, CountedFinite
  <1>5. OuterWeight \in Nat /\ OuterWeight' \in Nat
    BY DEF OuterWeight
  <1>6. StepsLeft = Cardinality(Unfinished) + Cardinality(Waiting) + Cardinality(Open)
                      + Cardinality(Running) + OuterWeight + 1
    BY DEF StepsLeft
  <1>7. StepsLeft' = Cardinality(Unfinished') + Cardinality(Waiting') + Cardinality(Open')
                       + Cardinality(Running') + OuterWeight' + 1
    BY DEF StepsLeft
  <1> QED
    BY <1>1, <1>2, <1>3, <1>4, <1>5, <1>6, <1>7

(* The number is a natural one, and positive until the refresh has ended.  *)
LEMMA StepsLeftType ==
    ASSUME TypeOK
    PROVE  StepsLeft \in Nat /\ (phase # "idle" => StepsLeft > 0)
  <1>1. /\ Cardinality(Unfinished) \in Nat /\ Cardinality(Waiting) \in Nat
        /\ Cardinality(Open) \in Nat /\ Cardinality(Running) \in Nat
        /\ Cardinality(Requests) \in Nat /\ Cardinality(Batches) \in Nat
    BY CountedFinite, ActiveFinite, FS_CardinalityType
  <1>2. OuterWeight \in Nat
    BY DEF OuterWeight
  <1> QED
    BY <1>1, <1>2 DEF StepsLeft

(* The list request is answered, fails or is cancelled. *)
LEMMA ListNears ==
    ASSUME IInv, CallerCancelsList \/ ListStep
    PROVE  StepsLeft' < StepsLeft
  <1>1. CASE CallerCancelsList \/ \E k \in Failures : ListFails(k)
    <2>1. phase = "listing" /\ phase' = "idle"
      BY <1>1 DEF CallerCancelsList, ListFails
    <2>2. StepsLeft' = 0
      BY <2>1 DEF StepsLeft
    <2>3. StepsLeft > 0
      BY <2>1, StepsLeftType DEF IInv
    <2> QED
      BY <2>2, <2>3
  <1>2. CASE \E N \in SUBSET Networks : Listed(N)
    <2>1. phase = "listing" /\ phase' = "fetching"
      BY <1>2 DEF Listed
    <2>2. Unfinished' \subseteq Requests /\ Waiting' \subseteq Requests
      BY DEF Unfinished, Waiting, Active
    <2>3. Open' \subseteq Batches /\ Running' \subseteq Batches
      BY DEF Open, Running
    <2>4. /\ Cardinality(Requests) \in Nat /\ Cardinality(Batches) \in Nat
          /\ Cardinality(Unfinished') \in Nat /\ Cardinality(Unfinished') <= Cardinality(Requests)
          /\ Cardinality(Waiting') \in Nat /\ Cardinality(Waiting') <= Cardinality(Requests)
          /\ Cardinality(Open') \in Nat /\ Cardinality(Open') <= Cardinality(Batches)
          /\ Cardinality(Running') \in Nat /\ Cardinality(Running') <= Cardinality(Batches)
      BY <2>2, <2>3, Counting, ActiveFinite, CountedFinite
    <2>5. OuterWeight' \in 0..2
      BY DEF OuterWeight
    <2>6. StepsLeft = 2 * Cardinality(Requests) + 2 * Cardinality(Batches) + 4
      BY <2>1 DEF StepsLeft
    <2>7. StepsLeft' = Cardinality(Unfinished') + Cardinality(Waiting') + Cardinality(Open')
                         + Cardinality(Running') + OuterWeight' + 1
      BY <2>1 DEF StepsLeft
    <2> QED
      BY <2>4, <2>5, <2>6, <2>7
  <1> QED
    BY <1>1, <1>2 DEF ListStep

(* A request begins once and ends once. *)
LEMMA RequestNears ==
    ASSUME IInv, NEW r \in Requests, RequestStep(r)
    PROVE  StepsLeft' < StepsLeft
  <1>1. r \in Unfinished /\ UNCHANGED <<phase, batch, outer>>
    BY DEF RequestStep, Begin, Answers, Fails, IsCancelled, Unfinished, IInv, TypeOK
  <1>2. phase = "fetching" /\ phase' = "fetching"
    BY <1>1 DEF IInv, UnfinishedHasBatch
  <1>3. Open' = Open /\ Running' = Running /\ OuterWeight' = OuterWeight
    BY <1>1 DEF Open, Running, OuterWeight
  <1>4. OuterWeight' <= OuterWeight
    BY <1>3 DEF OuterWeight
  <1>5. req \in [Requests -> {"none", "waiting", "active", "value", "empty", "raised",
                             "cancelled"}]
    BY DEF IInv, TypeOK
  <1>6. CASE Begin(r)
    <2>1. Waiting' \subseteq Waiting /\ r \in Waiting /\ r \notin Waiting'
      BY <1>5, <1>6 DEF Begin, Waiting
    <2>2. Unfinished' \subseteq Unfinished
      BY <1>5, <1>6 DEF Begin, Unfinished, Waiting, Active
    <2> QED
      BY <1>2, <1>3, <1>4, <2>1, <2>2, Fewer
  <1>7. CASE Answers(r) \/ IsCancelled(r) \/ \E k \in Failures : Fails(r, k)
    <2>1. Unfinished' \subseteq Unfinished /\ r \notin Unfinished'
      BY <1>5, <1>7 DEF Answers, IsCancelled, Fails, Unfinished, Waiting, Active
    <2>2. Waiting' \subseteq Waiting
      BY <1>5, <1>7 DEF Answers, IsCancelled, Fails, Waiting
    <2> QED
      BY <1>1, <1>2, <1>3, <1>4, <2>1, <2>2, Fewer
  <1> QED
    BY <1>6, <1>7 DEF RequestStep

(* The outer gather stops, and every gather that runs with it. *)
LEMMA CancelNears ==
    ASSUME IInv, phase = "fetching", CancelBatches, OuterWeight' < OuterWeight,
           UNCHANGED <<phase, req>>
    PROVE  StepsLeft' < StepsLeft
  <1>1. batch' = [b \in Batches |-> IF batch[b] = "running" THEN "draining" ELSE batch[b]]
    BY DEF CancelBatches
  <1>2. Open' \subseteq Open /\ Running' \subseteq Running
    BY <1>1 DEF Open, Running
  <1>3. Unfinished' = Unfinished /\ Waiting' = Waiting
    BY DEF Unfinished, Waiting, Active
  <1>4. OuterWeight' <= OuterWeight /\ OuterWeight' # OuterWeight
    BY DEF OuterWeight
  <1> QED
    BY <1>2, <1>3, <1>4, Fewer

(* A gather stops once and ends once; the outer one stops, and may then be *)
(* cancelled; the refresh ends.                                            *)
LEMMA GatherNears ==
    ASSUME IInv, BatchesFit, CallerCancels \/ Finish \/ \E b \in Batches : BatchStep(b)
    PROVE  StepsLeft' < StepsLeft
  <1> USE DEF IInv, TypeOK
  <1>1. CASE CallerCancels
    <2>1. OuterWeight' < OuterWeight
      BY <1>1 DEF CallerCancels, OuterWeight
    <2> QED
      BY <1>1, <2>1, CancelNears DEF CallerCancels
  <1>2. CASE Finish
    <2>1. phase = "fetching" /\ phase' = "idle"
      BY <1>2 DEF Finish
    <2>2. StepsLeft' = 0
      BY <2>1 DEF StepsLeft
    <2>3. StepsLeft > 0
      BY <2>1, StepsLeftType
    <2> QED
      BY <2>2, <2>3
  <1>3. ASSUME NEW b \in Batches, OuterStops(b) PROVE StepsLeft' < StepsLeft
    <2>1. OuterWeight' < OuterWeight
      BY <1>3 DEF OuterStops, OuterWeight
    <2> QED
      BY <1>3, <2>1, CancelNears DEF OuterStops
  <1>4. ASSUME NEW b \in Batches, BatchStops(b) \/ BatchEnds(b) PROVE StepsLeft' < StepsLeft
    <2>1. b \in Open /\ UNCHANGED <<phase, req, outer>>
      BY <1>4 DEF BatchStops, BatchEnds, Open
    <2>2. phase = "fetching" /\ phase' = "fetching"
      BY <2>1 DEF BatchesFit
    <2>3. Unfinished' = Unfinished /\ Waiting' = Waiting /\ OuterWeight' = OuterWeight
      BY <2>1 DEF Unfinished, Waiting, Active, OuterWeight
    <2>4. OuterWeight' <= OuterWeight
      BY <2>3 DEF OuterWeight
    <2>5. CASE BatchStops(b)
      <3>1. /\ Open' \subseteq Open /\ Running' \subseteq Running
            /\ b \in Running /\ b \notin Running'
        BY <2>5 DEF BatchStops, Open, Running
      <3> QED
        BY <2>2, <2>3, <2>4, <3>1, Fewer
    <2>6. CASE BatchEnds(b)
      <3>1. Open' \subseteq Open /\ Running' \subseteq Running /\ b \notin Open'
        BY <2>6 DEF BatchEnds, Open, Running
      <3> QED
        BY <2>1, <2>2, <2>3, <2>4, <3>1, Fewer
    <2> QED
      BY <1>4, <2>5, <2>6
  <1> QED
    BY <1>1, <1>2, <1>3, <1>4 DEF BatchStep

(* Every step of a refresh brings it nearer to its end, by a number that   *)
(* depends only on what it requests (async_utils.py:13-20,                 *)
(* topology.py:109-165).                                                   *)
THEOREM EndsInBoundedSteps ==
    Spec => /\ NearsEnd
            /\ [](StepsLeft \in Nat /\ (phase # "idle" => StepsLeft > 0))
  <1>1. IInv /\ BatchesFit /\ [Next]_vars => [phase # "idle" => StepsLeft' < StepsLeft]_vars
    <2> SUFFICES ASSUME IInv, BatchesFit, Next, phase # "idle" PROVE StepsLeft' < StepsLeft
      OBVIOUS
    <2>1. ~Start
      BY DEF Start
    <2> QED
      BY <2>1, ListNears, RequestNears, GatherNears DEF Next
  <1>2. IInv => StepsLeft \in Nat /\ (phase # "idle" => StepsLeft > 0)
    BY StepsLeftType DEF IInv
  <1> QED
    BY <1>1, <1>2, InvariantHolds, BatchesAlwaysFit, PTL DEF Spec, NearsEnd
=============================================================================
