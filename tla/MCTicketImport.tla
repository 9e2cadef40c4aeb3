--------------------------- MODULE MCTicketImport ---------------------------
(***************************************************************************)
(* TicketImport for TLC: a file of two tickets that show their numbers in  *)
(* the default format.                                                     *)
(***************************************************************************)
EXTENDS TicketImport, TLC

CONSTANTS s1, s2

TwoTickets ==
    { [origin |-> s1, born |-> s1, title |-> "a", ref |-> <<DefaultFormat, 1>>, number |-> 1],
      [origin |-> s2, born |-> s2, title |-> "a", ref |-> <<DefaultFormat, 2>>, number |-> 2] }

\* Bound: what comes after is not followed.
Straight == ~crossed /\ ~stale

Symmetric == Permutations(Worker)

=============================================================================
