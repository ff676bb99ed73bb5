---------------------------- MODULE MCEntryFlows ----------------------------
(* An instance of EntryFlows for TLC: two tokens, two self-hosted servers  *)
(* and the Cloud, a second account a server may answer with.               *)
EXTENDS EntryFlows, TLC

CONSTANTS t1, t2, s1, s2

MCTokens  == {t1, t2}
MCServers == {s1, s2}

Symmetry == Permutations(MCTokens) \cup Permutations(MCServers)
=============================================================================
