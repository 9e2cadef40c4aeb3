--------------------------- MODULE MCTicketWrites ---------------------------
(***************************************************************************)
(* TicketWrites for TLC: requests are interchangeable, and so are people.  *)
(***************************************************************************)
EXTENDS TicketWrites, TLC

Symmetric == Permutations(User) \union Permutations(Worker)

==============================================================================
