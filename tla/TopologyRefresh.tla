-------------------------- MODULE TopologyRefresh --------------------------
(***************************************************************************)
(* One topology refresh: list the networks, then fetch the sections of     *)
(* each, at most Limit requests at a time (topology.py, async_utils.py).   *)
(* Requests are tasks of a gather; the gathers are tasks of an outer one.  *)
(* The first error of a gather makes it cancel its tasks and drain them    *)
(* before it raises; so does cancellation from outside.                    *)
(*                                                                         *)
(* The setup flow's contract check (config_flow.py) is the same algorithm  *)
(* with one gather and every failure fatal: Batches, BatchOf and           *)
(* FatalKinds tell the two apart.                                          *)
(***************************************************************************)
EXTENDS Integers, FiniteSets

CONSTANTS Networks,    \* network ids the service may list
          Sections,    \* "resources" and "routers"
          Batches,     \* the inner gathers
          BatchOf,     \* the gather each section's requests belong to
          FatalKinds,  \* failures a request raises; the others leave it empty
          Limit        \* TOPOLOGY_REQUEST_CONCURRENCY

(* HTTP 401, HTTP 429, any other API error, an unexpected exception.       *)
Failures == {"auth", "rate", "update", "crash"}

ASSUME LimitAssumption == Limit \in Nat \ {0}
ASSUME FiniteAssumption ==
    IsFiniteSet(Networks) /\ IsFiniteSet(Sections) /\ IsFiniteSet(Batches)
ASSUME BatchAssumption ==
    /\ BatchOf \in [Sections -> Batches]
    /\ FatalKinds \subseteq Failures
    /\ "crash" \in FatalKinds

VARIABLES
    phase,       \* "idle", "listing", "fetching"
    networks,    \* what the list request returned
    req,         \* state of every nested request
    cancelling,  \* requests whose task has been cancelled and has not ended
    batch,       \* state of every inner gather
    first,       \* its first error, "none" before
    outer,       \* state of the outer gather
    result,      \* how the last refresh ended
    seen         \* history: failures the service answered with in it

vars == <<phase, networks, req, cancelling, batch, first, outer, result, seen>>

Requests   == Sections \X Networks
Kind(r)    == BatchOf[r[1]]
Waiting    == {r \in Requests : req[r] = "waiting"}
Active     == {r \in Requests : req[r] = "active"}
Unfinished == Waiting \cup Active
InBatch(b) == {r \in Requests : Kind(r) = b}

TypeOK ==
    /\ phase \in {"idle", "listing", "fetching"}
    /\ networks \subseteq Networks
    /\ req \in [Requests -> {"none", "waiting", "active", "value", "empty",
                             "raised", "cancelled"}]
    /\ cancelling \subseteq Unfinished
    /\ batch \in [Batches -> {"none", "running", "draining", "ended"}]
    /\ first \in [Batches -> {"none", "cancelled"} \cup FatalKinds]
    /\ outer \in {"none", "cancelled"} \cup FatalKinds
    /\ result \in {"none", "ok", "cancelled"} \cup Failures
    /\ seen \subseteq Failures

Init ==
    /\ phase = "idle" /\ networks = {}
    /\ req = [r \in Requests |-> "none"] /\ cancelling = {}
    /\ batch = [b \in Batches |-> "none"] /\ first = [b \in Batches |-> "none"]
    /\ outer = "none" /\ result = "none" /\ seen = {}

-----------------------------------------------------------------------------
(* The coordinator calls _async_update_data; nothing is left of the last.  *)
Start ==
    /\ phase = "idle"
    /\ phase' = "listing"
    /\ networks' = {} /\ seen' = {} /\ result' = "none" /\ outer' = "none"
    /\ req' = [r \in Requests |-> "none"] /\ cancelling' = {}
    /\ batch' = [b \in Batches |-> "none"] /\ first' = [b \in Batches |-> "none"]

(* async_get_networks fails: no nested request is made. *)
ListFails(k) ==
    /\ phase = "listing"
    /\ phase' = "idle" /\ result' = k /\ seen' = {k}
    /\ UNCHANGED <<networks, req, cancelling, batch, first, outer>>

(* It returns; the inner gathers create one task per network and section.  *)
Listed(N) ==
    /\ phase = "listing"
    /\ phase' = "fetching" /\ networks' = N
    /\ req' = [r \in Requests |-> IF r[2] \in N THEN "waiting" ELSE "none"]
    /\ batch' = [b \in Batches |-> "running"]
    /\ UNCHANGED <<cancelling, first, outer, result, seen>>

-----------------------------------------------------------------------------
(* A request's task: acquire the semaphore, then wait for the answer.      *)

MutantBegin(r) ==
    /\ r \in Waiting \ cancelling
    /\ Cardinality({q \in Active : q[1] = r[1]}) < Limit
    /\ req' = [req EXCEPT ![r] = "active"]
    /\ UNCHANGED <<phase, networks, cancelling, batch, first, outer, result, seen>>

Begin(r) ==
    /\ r \in Waiting \ cancelling
    /\ Cardinality(Active) < Limit
    /\ req' = [req EXCEPT ![r] = "active"]
    /\ UNCHANGED <<phase, networks, cancelling, batch, first, outer, result, seen>>

Answers(r) ==
    /\ r \in Active \ cancelling
    /\ req' = [req EXCEPT ![r] = "value"]
    /\ UNCHANGED <<phase, networks, cancelling, batch, first, outer, result, seen>>

MutantFatal(k) == k \in {"auth", "crash"}

Fatal(k) == k \in FatalKinds

(* A failure the section survives leaves it empty; another is raised, and  *)
(* the gather remembers the first.                                         *)
Fails(r, k) ==
    /\ r \in Active \ cancelling
    /\ seen' = seen \cup {k}
    /\ req' = [req EXCEPT ![r] = IF Fatal(k) THEN "raised" ELSE "empty"]
    /\ first' = IF Fatal(k) /\ first[Kind(r)] = "none"
                THEN [first EXCEPT ![Kind(r)] = k] ELSE first
    /\ UNCHANGED <<phase, networks, cancelling, batch, outer, result>>

(* A cancelled task ends, whatever it was waiting for. *)
MutantIsCancelled(r) ==
    /\ r \in cancelling /\ r \in Active
    /\ req' = [req EXCEPT ![r] = "cancelled"]
    /\ cancelling' = cancelling \ {r}
    /\ UNCHANGED <<phase, networks, batch, first, outer, result, seen>>

IsCancelled(r) ==
    /\ r \in cancelling
    /\ req' = [req EXCEPT ![r] = "cancelled"]
    /\ cancelling' = cancelling \ {r}
    /\ UNCHANGED <<phase, networks, batch, first, outer, result, seen>>

-----------------------------------------------------------------------------
(* async_gather_cancel_on_error of one batch. *)

(* It resumes with its first error: cancel every task and drain.           *)
BatchStops(b) ==
    /\ batch[b] = "running" /\ first[b] # "none"
    /\ batch' = [batch EXCEPT ![b] = "draining"]
    /\ cancelling' = cancelling \cup (InBatch(b) \cap Unfinished)
    /\ UNCHANGED <<phase, networks, req, first, outer, result, seen>>

MutantBatchEnds(b) ==
    /\ \/ batch[b] = "running" /\ first[b] = "none"
          /\ InBatch(b) \cap Unfinished = {}
       \/ batch[b] = "draining"
    /\ batch' = [batch EXCEPT ![b] = "ended"]
    /\ UNCHANGED <<phase, networks, req, cancelling, first, outer, result, seen>>

(* All its tasks are done: it returns their results or raises its error.   *)
BatchEnds(b) ==
    /\ batch[b] \in {"running", "draining"}
    /\ batch[b] = "running" => first[b] = "none"
    /\ InBatch(b) \cap Unfinished = {}
    /\ batch' = [batch EXCEPT ![b] = "ended"]
    /\ UNCHANGED <<phase, networks, req, cancelling, first, outer, result, seen>>

-----------------------------------------------------------------------------
(* The outer gather over the batches. *)

(* Cancelling a batch's task cancels the gather it waits in, hence its     *)
(* requests; a batch that is already draining goes on doing so.            *)
CancelBatches ==
    /\ cancelling' = cancelling \cup Unfinished
    /\ batch' = [b \in Batches |-> IF batch[b] = "running" THEN "draining" ELSE batch[b]]
    /\ first' = [b \in Batches |-> IF batch[b] = "running" /\ first[b] = "none"
                                   THEN "cancelled" ELSE first[b]]

MutantOuterStops(b) ==
    /\ phase = "fetching" /\ outer = "none"
    /\ batch[b] = "ended" /\ first[b] # "none"
    /\ outer' = first[b]
    /\ UNCHANGED <<phase, networks, req, cancelling, batch, first, result, seen>>

(* A batch raised: its error is the refresh's; stop the other batches.     *)
OuterStops(b) ==
    /\ phase = "fetching" /\ outer = "none"
    /\ batch[b] = "ended" /\ first[b] # "none"
    /\ outer' = first[b]
    /\ CancelBatches
    /\ UNCHANGED <<phase, networks, req, result, seen>>

(* The refresh itself is cancelled, as when the entry is unloaded.         *)
CallerCancels ==
    /\ phase = "fetching" /\ outer # "cancelled"
    /\ outer' = "cancelled"
    /\ CancelBatches
    /\ UNCHANGED <<phase, networks, req, result, seen>>

CallerCancelsList ==
    /\ phase = "listing"
    /\ phase' = "idle" /\ result' = "cancelled"
    /\ UNCHANGED <<networks, req, cancelling, batch, first, outer, seen>>

(* Every batch has ended and any error of theirs has been taken up. *)
Finish ==
    /\ phase = "fetching"
    /\ \A b \in Batches : batch[b] = "ended"
    /\ outer = "none" => \A b \in Batches : first[b] = "none"
    /\ phase' = "idle"
    /\ result' = IF outer = "none" THEN "ok" ELSE outer
    /\ UNCHANGED <<networks, req, cancelling, batch, first, outer, seen>>

-----------------------------------------------------------------------------
RequestStep(r) ==
    \/ Begin(r)
    \/ Answers(r)
    \/ \E k \in Failures : Fails(r, k)
    \/ IsCancelled(r)

BatchStep(b) == BatchStops(b) \/ BatchEnds(b) \/ OuterStops(b)

ListStep ==
    \/ \E k \in Failures : ListFails(k)
    \/ \E N \in SUBSET Networks : Listed(N)

Next ==
    \/ Start
    \/ ListStep
    \/ \E r \in Requests : RequestStep(r)
    \/ \E b \in Batches : BatchStep(b)
    \/ CallerCancels
    \/ CallerCancelsList
    \/ Finish

Spec == Init /\ [][Next]_vars

(* The event loop runs every task that can run, the client's 10 second     *)
(* timeout answers every request, and nobody has to start or cancel.       *)
Fairness ==
    /\ WF_vars(ListStep)
    /\ \A r \in Requests : WF_vars(RequestStep(r))
    /\ \A b \in Batches : WF_vars(BatchStep(b))
    /\ WF_vars(Finish)

FairSpec == Spec /\ Fairness

-----------------------------------------------------------------------------
(* Both sections share one semaphore: never more than Limit requests are   *)
(* in flight, errors and cancellations included (topology.py:109-125).     *)
ConcurrencyBounded == Cardinality(Active) <= Limit

(* A refresh that has ended leaves no request behind, however it ended:    *)
(* none still holds a connection, none can start (async_utils.py:16-20).   *)
NothingOutlivesRefresh == phase = "idle" => Unfinished = {}

(* The outcome is honest: success means that no request met a fatal        *)
(* failure, and a reported failure is one the service answered with        *)
(* (topology.py:117, 128, 145-155).                                        *)
ResultIsHonest ==
    phase = "idle" =>
      /\ result = "ok" => /\ seen \cap FatalKinds = {}
                          /\ \A r \in Sections \X networks : req[r] \in {"value", "empty"}
      /\ result \in Failures => result \in seen

(* Once the refresh is failing or cancelled, no further request is sent.   *)
StopsSending ==
    [][ outer # "none" => \A r \in Requests : req[r] = "waiting" => req'[r] # "active" ]_vars

(* Every refresh ends: no gather waits for a task that waits for it, and   *)
(* no request waits for a semaphore nobody releases.                       *)
RefreshEnds == phase # "idle" ~> phase = "idle"
=============================================================================
