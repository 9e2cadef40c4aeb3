----------------------------- MODULE MCSessions -----------------------------
(***************************************************************************)
(* Sessions for TLC: requests in flight are interchangeable, and so are    *)
(* session ids.                                                            *)
(***************************************************************************)
EXTENDS Sessions, TLC

Symmetric == Permutations(Worker) \union Permutations(Session)

==============================================================================
