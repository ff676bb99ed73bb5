------------------------- MODULE MCTopologyRefresh -------------------------
(* Instances of TopologyRefresh for TLC. *)
EXTENDS TopologyRefresh

CONSTANTS n1, n2

MCNetworks == {n1, n2}
MCSections == {"resources", "routers"}

(* The coordinator: one gather per section, ordinary failures tolerated.   *)
CoordinatorBatchOf == [s \in MCSections |-> s]
CoordinatorFatal   == {"auth", "rate", "crash"}

(* The contract check of the setup flow: one gather, every failure fatal.  *)
ContractBatchOf == [s \in MCSections |-> "all"]
ContractFatal   == {"auth", "rate", "update", "crash"}
ContractBatches == {"all"}
=============================================================================
