------------------------------- MODULE Members -------------------------------
(***************************************************************************)
(* The members of one workspace while several calls are served.  Adding,   *)
(* changing a role, removing and filing somebody under an organization all *)
(* read members, check, and then write: by id, with no lock and no         *)
(* repeated check, and save() inserts again a row that it no longer finds. *)
(***************************************************************************)
EXTENDS TicketRules, FiniteSets

CONSTANTS
    Creator,        \* who created the workspace, its first admin
    GivenRoles,     \* the roles given in this instance
    Worker,         \* calls in flight at once
    MaxMembers      \* bound: rows of members ever made

ASSUME MembersAssumption ==
    /\ Creator \in User
    /\ GivenRoles \subseteq MemberRoles
    /\ MaxMembers \in Nat \ {0}

VARIABLES
    members,        \* [User -> the row of each], Absent for those who have none
    joins,          \* ids of members given out so far
    doing,          \* what each worker is in the middle of
    removed,        \* ids of the rows that were deleted
    overlapped      \* a call has written after others wrote since its read

vars == <<members, joins, doing, removed, overlapped>>

Absent == [id |-> 0, role |-> "none"]

\* row is the member in the worker's memory; bySystemAdmin says who asked
Idle == [step |-> "idle", user |-> NoOne, row |-> Absent,
         bySystemAdmin |-> FALSE, stale |-> FALSE]

Init ==
    /\ members = [u \in User |->
         IF u = Creator THEN [id |-> 1, role |-> "admin"] ELSE Absent]
    /\ joins = 1
    /\ doing = [w \in Worker |-> Idle]
    /\ removed = {}
    /\ overlapped = FALSE

Present == {u \in User : members[u] # Absent}
Admins == {u \in User : members[u].role = "admin"}

\* Worker w holds a row of user u and does step next.
Begins(w, step, u, row, bySystemAdmin) ==
    /\ doing[w] = Idle
    /\ doing' = [doing EXCEPT ![w] =
         [step |-> step, user |-> u, row |-> row,
          bySystemAdmin |-> bySystemAdmin, stale |-> FALSE]]
    /\ UNCHANGED <<members, removed, overlapped>>

\* Worker w ends with its user's row being row.
Writes(w, row) ==
    /\ members' = [members EXCEPT ![doing[w].user] = row]
    /\ overlapped' = (overlapped \/ (doing[w].stale /\ members' # members))
    /\ doing' = [v \in Worker |->
         IF v = w THEN Idle
         ELSE [doing[v] EXCEPT !.stale = @ \/ (doing[v] # Idle /\ members' # members)]]
    /\ UNCHANGED joins

------------------------------------------------------------------------------
(***************************************************************************)
(* Reads.  Everybody who may manage members is taken to be around: a       *)
(* system admin always, an admin of the workspace when it has one.         *)
(***************************************************************************)

\* Faulty: the id counted on is the next but one.
AddAhead(w, u, role) ==
    /\ members[u] = Absent
    /\ joins < MaxMembers
    /\ joins' = joins + 1
    /\ Begins(w, "insert", u, [id |-> joins + 2, role |-> role], FALSE)

\* AddWorkspaceMember and the insert of AcceptInvitation
ReadAdd(w, u, role) ==
    /\ members[u] = Absent
    /\ joins < MaxMembers
    /\ joins' = joins + 1
    /\ Begins(w, "insert", u, [id |-> joins + 1, role |-> role], FALSE)

\* Faulty: an admin of the workspace may promote.
ChangeRoleByAdmin(w, u, role, bySystemAdmin) ==
    /\ members[u] # Absent
    /\ bySystemAdmin \/ (Admins # {} /\ u \notin Admins)
    /\ u \in Admins /\ role # "admin" => Cardinality(Admins) > 1
    /\ Begins(w, "save", u, [members[u] EXCEPT !.role = role], bySystemAdmin)
    /\ UNCHANGED joins

\* ChangeWorkspaceMemberRole
ReadChangeRole(w, u, role, bySystemAdmin) ==
    /\ members[u] # Absent
    /\ bySystemAdmin \/ (Admins # {} /\ u \notin Admins /\ role # "admin")
    /\ u \in Admins /\ role # "admin" => Cardinality(Admins) > 1
    /\ Begins(w, "save", u, [members[u] EXCEPT !.role = role], bySystemAdmin)
    /\ UNCHANGED joins

\* Assigning an organization, by hand or by the domain of an address: the role
\* is saved as it was read
ReadEnroll(w, u) ==
    /\ members[u] # Absent
    /\ Begins(w, "save", u, members[u], FALSE)
    /\ UNCHANGED joins

\* Faulty: any member may go, but the last.
RemoveAny(w, u) ==
    /\ members[u] # Absent /\ Cardinality(Present) > 1
    /\ Begins(w, "delete", u, members[u], FALSE)
    /\ UNCHANGED joins

\* RemoveWorkspaceMember
ReadRemove(w, u) ==
    /\ members[u] # Absent
    /\ Cardinality(Present) > 1
    /\ u \in Admins => Cardinality(Admins) > 1
    /\ Begins(w, "delete", u, members[u], FALSE)
    /\ UNCHANGED joins

------------------------------------------------------------------------------
(***************************************************************************)
(* Writes.  save() looks the row up by its id: an UPDATE of what differs   *)
(* when it is there, an INSERT when it is not.                             *)
(***************************************************************************)
Found(call) == members[call.user].id = call.row.id

Load(w) ==
    LET call == doing[w]
    IN  /\ call.step = "save"
        /\ doing' = [doing EXCEPT ![w] =
             IF ~Found(call) THEN [call EXCEPT !.step = "insert"]
             ELSE IF members[call.user] # call.row THEN [call EXCEPT !.step = "write"]
             ELSE Idle]
        /\ UNCHANGED <<members, joins, removed, overlapped>>

\* An UPDATE of a row deleted since finds nothing to update.
Write(w) ==
    LET call == doing[w]
    IN  /\ call.step = "write"
        /\ Writes(w, IF Found(call) THEN call.row ELSE members[call.user])
        /\ UNCHANGED removed

\* One workspace and one user have one row: a second insert fails.
Insert(w) ==
    LET call == doing[w]
    IN  /\ call.step = "insert"
        /\ Writes(w, IF members[call.user] = Absent THEN call.row
                     ELSE members[call.user])
        /\ UNCHANGED removed

\* Faulty: deletes by the id of the user, which no row has.
DeleteByUserId(w) ==
    /\ doing[w].step = "delete"
    /\ removed' = removed \union {doing[w].row.id}
    /\ Writes(w, members[doing[w].user])

Delete(w) ==
    LET call == doing[w]
    IN  /\ call.step = "delete"
        /\ removed' = removed \union {call.row.id}
        /\ Writes(w, IF Found(call) THEN Absent ELSE members[call.user])

Begin(w) ==
    \E u \in User :
        \/ \E role \in GivenRoles :
             \/ ReadAdd(w, u, role)
             \/ \E bySystemAdmin \in BOOLEAN :
                  ReadChangeRole(w, u, role, bySystemAdmin)
        \/ ReadEnroll(w, u)
        \/ ReadRemove(w, u)

Next ==
    \E w \in Worker : Begin(w) \/ Load(w) \/ Write(w) \/ Insert(w) \/ Delete(w)

Spec == Init /\ [][Next]_vars

------------------------------------------------------------------------------
(***************************************************************************)
(* Properties.                                                             *)
(***************************************************************************)
Row == [id : 0..MaxMembers, role : MemberRoles \union {"none"}]

\* Every row and every call in flight holds what it can hold.
TypeOK ==
    /\ members \in [User -> Row]
    /\ joins \in 1..MaxMembers
    /\ doing \in [Worker ->
         [step : {"idle", "save", "write", "insert", "delete"},
          user : User \union {NoOne}, row : Row,
          bySystemAdmin : BOOLEAN, stale : BOOLEAN]]
    /\ removed \subseteq 1..MaxMembers
    /\ overlapped \in BOOLEAN

\* As long as no call writes after others wrote since its read: the workspace
\* keeps an admin,
AdminRemainsInIsolation == ~overlapped => Admins # {}

\* "Only system admins can promote members to admin"
\* (workspace-change-member-role.ts:38),
PromotedBySystemAdminInIsolation ==
    [][\A u \in User :
         /\ ~overlapped'
         /\ members[u] # Absent /\ u \notin Admins
         /\ members'[u].role = "admin"
         => \E w \in Worker : doing[w].user = u /\ doing[w].bySystemAdmin]_vars

\* and a member who was removed is gone: the row does not come back.
RemovedIsGoneInIsolation ==
    ~overlapped => \A u \in User : members[u].id \notin removed

==============================================================================
