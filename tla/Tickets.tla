------------------------------- MODULE Tickets -------------------------------
(***************************************************************************)
(* One ticket of one workspace, from its creation on: who may do what to   *)
(* it, what every command leaves in its row, the transfer request that may *)
(* be pending on it, and what webhooks and open screens are told.          *)
(*                                                                         *)
(* Every action is one command of src/ticket/application/commands run from *)
(* its first read to its last write with nothing in between.  TicketWrites *)
(* splits the same commands at their reads and writes.                     *)
(***************************************************************************)
EXTENDS TicketRules

CONSTANTS
    Reporter,       \* who the ticket was opened for
    SystemAdmins,   \* users whose token says isSystemAdmin
    GivenRoles,     \* GivenRoles[u]: the roles an admin ever gives to u
    FirstRole,      \* FirstRole[u]: u's role when the ticket is created
    RuleAssignees,  \* who the email rules of the workspace assign tickets to
    ReopenWindow,   \* REQUESTER_REOPEN_DAYS
    TransferTTL,    \* TRANSFER_TTL
    MaxTime,        \* bound: the clock stops here
    MaxReopens      \* bound: the ticket is reopened at most this many times

ASSUME TicketsAssumption ==
    /\ Reporter \in User
    /\ SystemAdmins \subseteq User
    /\ GivenRoles \in [User -> SUBSET Roles]
    /\ FirstRole \in [User -> Roles]
    /\ RuleAssignees \subseteq User
    /\ ReopenWindow \in Nat
    /\ TransferTTL \in Nat
    /\ MaxTime \in Nat \ {0}
    /\ MaxReopens \in Nat

VARIABLES
    ticket,         \* the row of the ticket
    deleted,        \* deletedAt is set
    roles,          \* role of every user in the workspace
    transfer,       \* the pending transfer request, or NoTransfer
    told,           \* what the events emitted so far say of the ticket
    now             \* the server's clock

vars == <<ticket, deleted, roles, transfer, told, now>>

NoTransfer == [pending |-> FALSE, requesterId |-> NoOne,
               targetUserId |-> NoOne, expiresAt |-> Never]

StartsAs(t) ==
    /\ ticket = t
    /\ deleted = FALSE
    /\ roles = FirstRole
    /\ transfer = NoTransfer
    /\ told = [status |-> "open", assignee |-> NoOne, by |-> Reporter]
    /\ now = 1

\* From the web app, the API, the portal, or an email no rule assigns
Init == StartsAs(NewTicket)

\* RouteInboundEmail with a rule that assigns: CreateTicket, then a save of the
\* assignee alone, before anybody is told of the ticket
RoutedTicket(who) == [NewTicket EXCEPT !.assigneeId = who]
InitByRule == \E who \in RuleAssignees : StartsAs(RoutedTicket(who))

------------------------------------------------------------------------------
(***************************************************************************)
(* Permissions.                                                            *)
(***************************************************************************)

\* EnsureWorkspacePermission: a system admin acts as an admin everywhere.
RoleOf(u) == IF u \in SystemAdmins THEN "admin" ELSE roles[u]
Permitted(u, permission) == HasPermission(RoleOf(u), permission)

\* EnsureTicketAssignee: only a member of this workspace whose role picks up.
CanHold(u) == HasPermission(roles[u], "pickup")

\* EnsureTicketAccess.ensureFull, with the participants left out: they only
\* ever add read-only access.
FullAccess(u) ==
    \/ Permitted(u, "view")
    \/ roles[u] = "agent" /\ (ticket.assigneeId = u \/ ticket.status = "open")
    \/ roles[u] = "user" /\ Reporter = u

Team == {u \in User : roles[u] \in TeamRoles}

------------------------------------------------------------------------------
(***************************************************************************)
(* What a follower of ticket.statusChanged, ticket.assigned and            *)
(* ticket.reopened believes once a command has emitted its events.         *)
(***************************************************************************)
TellBoth(t, u) ==
    told' = [status |-> t.status, assignee |-> t.assigneeId, by |-> u]

\* ticket.statusChanged always, ticket.assigned when the assignee moved
TellStatus(t, u) ==
    told' = [told EXCEPT
                !.status = t.status,
                !.by = u,
                !.assignee = IF t.assigneeId # ticket.assigneeId
                             THEN t.assigneeId ELSE @]

\* Faulty: only the assignment is told.
TellAssigneeOnly(t, u) == told' = [told EXCEPT !.assignee = t.assigneeId]

\* ticket.assigned always, ticket.statusChanged when the status moved
TellAssignee(t, u) ==
    told' = [told EXCEPT
                !.assignee = t.assigneeId,
                !.status = IF t.status # ticket.status THEN t.status ELSE @,
                !.by = IF t.status # ticket.status THEN u ELSE @]

------------------------------------------------------------------------------
(***************************************************************************)
(* Commands on the ticket.                                                 *)
(***************************************************************************)

\* ChangeTicketStatusCommand; BulkChangeStatusCommand runs it with takes FALSE
Taker(u, status, takes) ==
    IF takes /\ ticket.assigneeId = NoOne /\ IsWork(status) /\ CanHold(u)
    THEN u ELSE NoOne

\* Faulty: anything may be done to a queued ticket.
ActsOnQueue(status) == ticket.status = "open" /\ ticket.assigneeId = NoOne

DiscardsFromQueue(status) ==
    ticket.status = "open" /\ ticket.assigneeId = NoOne /\ status = "discarded"

ChangeStatus(u, status, hasReason, takes) ==
    LET taker == Taker(u, status, takes)
        changed == AfterChangeStatus(ticket, status, u, taker, now)
    IN  /\ ~deleted
        /\ Permitted(u, IF ticket.status = "discarded"
                        THEN "changeStatusDiscarded" ELSE "changeStatus")
        /\ \/ Permitted(u, "view")
           \/ ticket.assigneeId = u
           \/ DiscardsFromQueue(status)
        /\ CanChangeStatus(ticket, status, hasReason,
                           RoleOf(u) \in {"admin", "supervisor"}, taker)
        /\ ticket' = changed
        /\ TellStatus(changed, u)
        /\ UNCHANGED <<deleted, roles, transfer, now>>

\* AssignTicketCommand: releasing one's own ticket needs no permission
Assign(u, who) ==
    LET assigned == AfterAssign(ticket, who)
    IN  /\ ~deleted
        /\ (who = NoOne /\ ticket.assigneeId = u) \/ Permitted(u, "assign")
        /\ who # NoOne => CanHold(who)
        /\ ticket' = assigned
        /\ TellAssignee(assigned, u)
        /\ UNCHANGED <<deleted, roles, transfer, now>>

\* PickupTicketCommand
Pickup(u, status) ==
    LET taken == AfterPickup(ticket, status, u, now)
    IN  /\ ~deleted
        /\ Permitted(u, "pickup")
        /\ CanPickup(ticket, status)
        /\ ticket' = taken
        /\ TellBoth(taken, u)
        /\ UNCHANGED <<deleted, roles, transfer, now>>

\* ReopenTicketCommand by the team
Reopen(u, target, asked, who) ==
    LET reopened == AfterReopen(ticket, target, asked, who, Team)
    IN  /\ ~deleted
        /\ ticket.reopenCount < MaxReopens
        /\ Permitted(u, "reopen")
        /\ asked \/ target = "open" => Permitted(u, "assign")
        /\ CanReopen(ticket, target, asked, who)
        /\ ticket' = reopened
        /\ TellBoth(reopened, u)
        /\ UNCHANGED <<deleted, roles, transfer, now>>

\* ReopenTicketCommand by the requester, from the portal
RequesterReopen ==
    LET reopened == AfterReopen(ticket, "in-progress", FALSE, NoOne, Team)
    IN  /\ ~deleted
        /\ ticket.reopenCount < MaxReopens
        /\ CanRequesterReopen(ticket, now, ReopenWindow)
        /\ ticket' = reopened
        /\ TellBoth(reopened, Reporter)
        /\ UNCHANGED <<deleted, roles, transfer, now>>

\* DeleteTicketCommand and BulkDelete: a soft delete, seen by no command again
Delete(u) ==
    /\ ~deleted
    /\ Permitted(u, "delete")
    /\ deleted' = TRUE
    /\ UNCHANGED <<ticket, roles, transfer, told, now>>

------------------------------------------------------------------------------
(***************************************************************************)
(* Transfer requests, from asking to an answer or the deadline.            *)
(***************************************************************************)
\* Faulty: the deadline is counted twice.
CreateLongTransfer(u, target) ==
    /\ ~deleted /\ Permitted(u, "transfer") /\ FullAccess(u) /\ CanHold(target)
    /\ u \in {ticket.assigneeId, Reporter} /\ target # u /\ ~transfer.pending
    /\ transfer' = [pending |-> TRUE, requesterId |-> u, targetUserId |-> target,
                    expiresAt |-> now + TransferTTL + TransferTTL]
    /\ UNCHANGED <<ticket, deleted, roles, told, now>>

CreateTransfer(u, target) ==
    /\ ~deleted
    /\ Permitted(u, "transfer")
    /\ FullAccess(u)
    /\ CanHold(target)
    /\ u \in {ticket.assigneeId, Reporter}
    /\ target # u
    /\ ~transfer.pending
    /\ transfer' = [pending |-> TRUE, requesterId |-> u,
                    targetUserId |-> target, expiresAt |-> now + TransferTTL]
    /\ UNCHANGED <<ticket, deleted, roles, told, now>>

\* Answered in time.  No ticket event is emitted, only transfer-request.resolved
AcceptTransfer(u) ==
    /\ ~deleted
    /\ Permitted(u, "respondTransfer")
    /\ transfer.pending /\ transfer.targetUserId = u
    /\ transfer.expiresAt >= now
    /\ ticket' = AfterTransfer(ticket, u)
    /\ transfer' = NoTransfer
    /\ UNCHANGED <<deleted, roles, told, now>>

\* Answered late: the request expires and the call fails
AcceptTooLate(u) ==
    /\ ~deleted
    /\ Permitted(u, "respondTransfer")
    /\ transfer.pending /\ transfer.targetUserId = u
    /\ transfer.expiresAt < now
    /\ transfer' = NoTransfer
    /\ UNCHANGED <<ticket, deleted, roles, told, now>>

RejectTransfer(u) ==
    /\ ~deleted
    /\ Permitted(u, "respondTransfer")
    /\ transfer.pending /\ transfer.targetUserId = u
    /\ transfer' = NoTransfer
    /\ UNCHANGED <<ticket, deleted, roles, told, now>>

CancelTransfer(u) ==
    /\ ~deleted
    /\ Permitted(u, "transfer")
    /\ transfer.pending
    /\ transfer.requesterId = u \/ Permitted(u, "assign")
    /\ transfer' = NoTransfer
    /\ UNCHANGED <<ticket, deleted, roles, told, now>>

\* TransferRequestExpiryService, every quarter of an hour, deleted ticket or not
ExpireTransfer ==
    /\ transfer.pending /\ transfer.expiresAt < now
    /\ transfer' = NoTransfer
    /\ UNCHANGED <<ticket, deleted, roles, told, now>>

------------------------------------------------------------------------------
(***************************************************************************)
(* The workspace around the ticket.                                        *)
(***************************************************************************)

\* A member joins, changes role or is removed; their tickets are left alone
SetRole(u, role) ==
    /\ role \in GivenRoles[u] \ {roles[u]}
    /\ roles' = [roles EXCEPT ![u] = role]
    /\ UNCHANGED <<ticket, deleted, transfer, told, now>>

Tick ==
    /\ now < MaxTime
    /\ now' = now + 1
    /\ UNCHANGED <<ticket, deleted, roles, transfer, told>>

Next ==
    \/ \E u \in User, status \in TicketStatuses, hasReason, takes \in BOOLEAN :
            ChangeStatus(u, status, hasReason, takes)
    \/ \E u \in User, who \in User \union {NoOne} : Assign(u, who)
    \/ \E u \in User, status \in TicketStatuses : Pickup(u, status)
    \/ \E u \in User, target \in TicketStatuses, asked \in BOOLEAN,
          who \in User \union {NoOne} : Reopen(u, target, asked, who)
    \/ RequesterReopen
    \/ \E u \in User : Delete(u)
    \/ \E u, target \in User : CreateTransfer(u, target)
    \/ \E u \in User : AcceptTransfer(u)
    \/ \E u \in User : AcceptTooLate(u)
    \/ \E u \in User : RejectTransfer(u)
    \/ \E u \in User : CancelTransfer(u)
    \/ ExpireTransfer
    \/ \E u \in User, role \in Roles : SetRole(u, role)
    \/ Tick

Spec == Init /\ [][Next]_vars
SpecByRule == InitByRule /\ [][Next]_vars

------------------------------------------------------------------------------
(***************************************************************************)
(* Properties.                                                             *)
(***************************************************************************)
Users0 == User \union {NoOne}
Time == 0..MaxTime

TicketType ==
    [status : TicketStatuses, assigneeId : Users0, resolvedById : Users0,
     resolvedAt : Time, firstResolvedAt : Time, discardReason : BOOLEAN,
     reopenCount : 0..MaxReopens]

TransferType ==
    [pending : BOOLEAN, requesterId : Users0, targetUserId : Users0,
     expiresAt : 0..(MaxTime + TransferTTL)]

\* Every variable holds what its column or its event can hold.
TypeOK ==
    /\ ticket \in TicketType
    /\ deleted \in BOOLEAN
    /\ roles \in [User -> Roles]
    /\ transfer \in TransferType
    /\ told \in [status : TicketStatuses, assignee : Users0, by : User]
    /\ now \in 1..MaxTime

\* "Open is the queue, where nobody has it, while Pending and In progress are
\* somebody's work" (ticket-assignment-rule.ts:5): whatever commands run, in
\* whatever order and whoever joins or leaves the team between them.
AssignmentRule == AssignmentFits(ticket.status, ticket.assigneeId)

\* The resolution columns say one story with the status: a ticket being worked
\* on has no resolution, a resolved one has who and when, only a discarded one
\* has a reason, and the first resolution is never later than the current one.
\* Reports and the SLA checker read these columns without the status.
ResolutionConsistent ==
    /\ ~IsClosed(ticket.status) => ticket.resolvedAt = Never
    /\ ticket.status = "resolved" => ticket.resolvedAt # Never
    /\ ticket.resolvedAt = Never <=> ticket.resolvedById = NoOne
    /\ ticket.discardReason <=> ticket.status = "discarded"
    /\ ticket.resolvedAt # Never =>
          /\ ticket.firstResolvedAt # Never
          /\ ticket.firstResolvedAt <= ticket.resolvedAt

\* How far a webhook or an open screen can be behind on the status: only by a
\* queued ticket that an accepted transfer took to Pending without telling.
FollowersLag ==
    told.status # ticket.status =>
        told.status = "open" /\ ticket.status = "pending"

\* "the first resolution is kept apart, for good" (ticket-resolution.ts:10),
\* through every later reopen, discard and resolution.
FirstResolutionKept ==
    [][ticket.firstResolvedAt # Never =>
         ticket'.firstResolvedAt = ticket.firstResolvedAt]_vars

\* "Reopening has its own action; changing the status never does it"
\* (ticket-change-status.ts:49): no assignment, release, pickup, transfer or
\* status change takes a closed ticket back to work, and every reopen does.
ClosedLeavesByReopen ==
    [][(IsClosed(ticket.status) /\ ~IsClosed(ticket'.status))
         <=> ticket'.reopenCount = ticket.reopenCount + 1]_vars

\* An agent cannot push a ticket out of the queue "without taking it, leaving
\* it unassigned and out of their own reach" (change-ticket-status.command.ts:
\* 72), discarding excepted.
AgentTakesWhatLeavesQueue ==
    [][\A u \in User :
         /\ RoleOf(u) = "agent"
         /\ told'.by = u /\ told' # told
         /\ ticket.status = "open"
         /\ ticket'.status \notin {"open", "discarded"}
         => ticket'.assigneeId = u]_vars

\* Whoever becomes the assignee is on the team at that moment, or is a system
\* admin, whose own pickups and acceptances are not checked for membership.
NewAssigneeOnTeam ==
    [][ticket'.assigneeId \notin {ticket.assigneeId, NoOne} =>
         \/ roles[ticket'.assigneeId] \in TeamRoles
         \/ ticket'.assigneeId \in SystemAdmins]_vars

==============================================================================
