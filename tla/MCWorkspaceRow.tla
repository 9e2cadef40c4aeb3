--------------------------- MODULE MCWorkspaceRow ---------------------------
(***************************************************************************)
(* WorkspaceRow for TLC.                                                   *)
(***************************************************************************)
EXTENDS WorkspaceRow

\* Bound: a run is followed up to the first write that comes late, which ends what
\* the properties promise
NobodyLate == raced = {}

=============================================================================
