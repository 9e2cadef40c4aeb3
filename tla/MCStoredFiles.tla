---------------------------- MODULE MCStoredFiles ----------------------------
(***************************************************************************)
(* StoredFiles for TLC.                                                    *)
(***************************************************************************)
EXTENDS StoredFiles

==============================================================================
