------------------------------ MODULE MCMembers ------------------------------
(***************************************************************************)
(* Members for TLC: calls in flight are interchangeable, and so are the    *)
(* people who did not create the workspace.                                *)
(***************************************************************************)
EXTENDS Members, TLC

Symmetric == Permutations(Worker) \union Permutations(User \ {Creator})

==============================================================================
