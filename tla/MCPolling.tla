------------------------------ MODULE MCPolling ------------------------------
(* An instance of Polling for TLC: the topology's interval is twice that   *)
(* of peers, and headers ask for less and for more than either.            *)
EXTENDS Polling

MCCoordinators == {"peers", "topology"}
MCInterval     == [peers |-> 1, topology |-> 2]

MCHeaders ==
    {[form |-> "seconds", value |-> v] : v \in {0, 3}}
      \cup {[form |-> "date", reads |-> r, zone |-> z] : r \in {-1, 3}, z \in {None, 1}}
      \cup {[form |-> "unusable"]}
=============================================================================
