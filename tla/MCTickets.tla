------------------------------ MODULE MCTickets ------------------------------
(***************************************************************************)
(* Tickets for TLC: a system admin who is no member of the workspace, two  *)
(* agents and the requester.                                               *)
(***************************************************************************)
EXTENDS Tickets

CONSTANTS sys, ag1, ag2, req

\* The first agent may be demoted to a plain user or removed, and come back.
MCFirstRole == [u \in User |->
    IF u = req THEN "user" ELSE IF u = sys THEN "none" ELSE "agent"]
MCGivenRoles == [u \in User |->
    IF u = ag1 THEN {"agent", "user", "none"} ELSE {MCFirstRole[u]}]

==============================================================================
