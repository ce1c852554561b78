--------------------------- MODULE MCNodeSettlement ---------------------------
(***************************************************************************)
(* Instances of NodeSettlement for TLC.  Requests differ only in name, and *)
(* so do the escrow sessions they are linked to.                           *)
(***************************************************************************)
EXTENDS NodeSettlement, TLC

BestEffortConfig == [tier |-> "BestEffort", tokensThreshold |-> 0,
                     blockGate |-> FALSE, routerMetering |-> FALSE]
MeteredConfig == [BestEffortConfig EXCEPT !.routerMetering = TRUE]
TeeConfig == [tier |-> "TeeVerified", tokensThreshold |-> 1,
              blockGate |-> FALSE, routerMetering |-> FALSE]
GatedConfig == [TeeConfig EXCEPT !.tokensThreshold = 2, !.blockGate = TRUE]

UngatedConfigs == {BestEffortConfig, MeteredConfig, TeeConfig}
NodeMetered == {BestEffortConfig, TeeConfig, GatedConfig}
BestEffortOnly == {BestEffortConfig}

Interchangeable == Permutations(Requests) \cup Permutations(ChainIds)
===============================================================================
