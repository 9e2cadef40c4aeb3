--------------------------- MODULE MCInvitations ---------------------------
(***************************************************************************)
(* Invitations for TLC: calls in flight are interchangeable.               *)
(***************************************************************************)
EXTENDS Invitations, TLC

Symmetric == Permutations(Worker)

=============================================================================
