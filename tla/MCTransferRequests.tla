------------------------- MODULE MCTransferRequests -------------------------
(***************************************************************************)
(* TransferRequests for TLC: the ids of requests, the calls in flight and  *)
(* the agents are interchangeable.                                         *)
(***************************************************************************)
EXTENDS TransferRequests, TLC

Symmetric ==
    Permutations(Worker) \union Permutations(Request) \union Permutations(Agents)

==============================================================================
