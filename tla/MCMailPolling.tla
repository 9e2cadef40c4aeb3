--------------------------- MODULE MCMailPolling ---------------------------
(***************************************************************************)
(* MailPolling for TLC: batches are interchangeable.                       *)
(***************************************************************************)
EXTENDS MailPolling, TLC

\* Bound: what comes after a disturbance is followed only if it gives the mailbox
\* a second loop.  The other two end what the properties promise.
SecondLoopAtMost == disturbed \subseteq {"replaced"}

Symmetric == Permutations(Batch)

=============================================================================
