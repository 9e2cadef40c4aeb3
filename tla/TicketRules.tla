----------------------------- MODULE TicketRules -----------------------------
(***************************************************************************)
(* What a ticket is and how one service call changes it: the pure part of  *)
(* src/ticket/domain, shared by Tickets (one call at a time) and by        *)
(* TicketWrites (calls that interleave at their reads and writes).         *)
(*                                                                         *)
(* An operator Can...(t, ...) is the conjunction of the early returns of a *)
(* service, After...(t, ...) the ticket it hands to repository.update().   *)
(***************************************************************************)
EXTENDS Naturals

CONSTANTS
    User,           \* ids of people
    NoOne           \* null where a user id is expected

ASSUME NoOneAssumption == NoOne \notin User

(***************************************************************************)
(* Statuses.                                                               *)
(***************************************************************************)
WorkStatuses == {"pending", "in-progress"}
ClosedStatuses == {"resolved", "discarded"}
TicketStatuses == {"open"} \union WorkStatuses \union ClosedStatuses

PickupStatuses == {"pending", "in-progress", "resolved"}
ReopenTargets == {"open", "pending", "in-progress"}

IsWork(s) == s \in WorkStatuses
IsClosed(s) == s \in ClosedStatuses

(***************************************************************************)
(* Roles and the ticket permissions of each.  "none" is somebody who is    *)
(* not a member of the workspace.                                          *)
(***************************************************************************)
MemberRoles == {"admin", "supervisor", "agent", "user"}
Roles == MemberRoles \union {"none"}
TeamRoles == {"admin", "supervisor", "agent"}

TicketPermissions ==
    {"view", "viewOwn", "changeStatus", "changeStatusDiscarded", "reopen",
     "assign", "pickup", "transfer", "respondTransfer", "delete"}

RolePermissions ==
    [admin      |-> TicketPermissions,
     supervisor |-> TicketPermissions \ {"viewOwn"},
     agent      |-> {"viewOwn", "changeStatus", "reopen", "pickup",
                     "transfer", "respondTransfer"},
     user       |-> {"viewOwn"},
     none       |-> {}]

HasPermission(role, permission) == permission \in RolePermissions[role]

(***************************************************************************)
(* A time is a natural number; Never is a column that is null.             *)
(***************************************************************************)
Never == 0

(***************************************************************************)
(* How status and assignee fit together.                                   *)
(***************************************************************************)
AssignmentFits(status, assignee) ==
    /\ status = "open" => assignee = NoOne
    /\ IsWork(status) => assignee # NoOne

\* Work with nobody to do it falls back to the queue (the contradiction, the
\* queue with somebody, is refused by CanSettle).
CanSettle(status, assignee) == ~(status = "open" /\ assignee # NoOne)
SettleAssignment(status, assignee) ==
    IF IsWork(status) /\ assignee = NoOne THEN "open" ELSE status

\* Faulty: releasing sends a closed ticket to the queue too.
StatusForAssigneeOfAny(status, assignee) ==
    IF assignee = NoOne THEN "open"
    ELSE IF status = "open" THEN "pending" ELSE status

StatusForAssignee(status, assignee) ==
    IF status = "open" /\ assignee # NoOne THEN "pending"
    ELSE SettleAssignment(status, assignee)

\* Faulty: trusts whoever decided there was no need of a taker.
CanGoToUnchecked(status, assignee, taker) == TRUE

\* NoOne from work that finds no taker is refused by CanGoTo.
CanGoTo(status, assignee, taker) ==
    IsWork(status) /\ assignee = NoOne => taker # NoOne
AssigneeForStatus(status, assignee, taker) ==
    IF status = "open" THEN NoOne
    ELSE IF IsWork(status) /\ assignee = NoOne THEN taker ELSE assignee

(***************************************************************************)
(* Resolving and emptying a resolution.                                    *)
(***************************************************************************)
\* Faulty: the first resolution is overwritten by the next.
MarkResolvedAnew(t, user, at) ==
    [t EXCEPT !.status = "resolved", !.resolvedAt = at, !.resolvedById = user,
              !.discardReason = FALSE, !.firstResolvedAt = at]

MarkResolved(t, user, at) ==
    [t EXCEPT !.status = "resolved",
              !.resolvedAt = at,
              !.resolvedById = user,
              !.discardReason = FALSE,
              !.firstResolvedAt = IF @ = Never THEN at ELSE @]

WithoutResolution(t) ==
    [t EXCEPT !.resolvedAt = Never, !.resolvedById = NoOne,
              !.discardReason = FALSE]

(***************************************************************************)
(* ChangeTicketStatus.                                                     *)
(***************************************************************************)
AllowedTransitions(from, canMoveToOpen) ==
    IF canMoveToOpen \/ from = "open" THEN TicketStatuses
    ELSE TicketStatuses \ {"open"}

CanChangeStatus(t, status, hasReason, canMoveToOpen, taker) ==
    /\ IsClosed(t.status) => IsClosed(status)
    /\ status \in AllowedTransitions(t.status, canMoveToOpen)
    /\ CanGoTo(status, t.assigneeId, taker)
    /\ status = "discarded" => hasReason

AfterChangeStatus(t, status, user, taker, at) ==
    LET moved == [t EXCEPT !.assigneeId = AssigneeForStatus(status, @, taker),
                           !.status = status]
    IN  CASE status = "resolved"  -> MarkResolved(moved, user, at)
          [] status = "discarded" -> [moved EXCEPT !.discardReason = TRUE]
          [] OTHER                -> WithoutResolution(moved)

(***************************************************************************)
(* AssignTicket and PickupTicket.                                          *)
(***************************************************************************)
AfterAssign(t, assignee) ==
    [t EXCEPT !.assigneeId = assignee,
              !.status = StatusForAssignee(@, assignee)]

CanPickup(t, status) == t.status = "open" /\ status \in PickupStatuses

AfterPickup(t, status, user, at) ==
    LET taken == [t EXCEPT !.assigneeId = user, !.status = status]
    IN  IF status = "resolved" THEN MarkResolved(taken, user, at) ELSE taken

(***************************************************************************)
(* ReopenTicket.  "asked" is whether the team chose the assignee, "who" its *)
(* choice, "team" the people who are on the team when the service looks.   *)
(***************************************************************************)
WantedAssignee(t, target, asked, who) ==
    IF asked THEN who
    ELSE IF target = "open" THEN NoOne
    ELSE IF t.assigneeId # NoOne THEN t.assigneeId ELSE t.resolvedById

\* Faulty: whoever had it gets it back, on the team or not.
IfOnTeamUnchecked(who, team) == who

IfOnTeam(who, team) == IF who \in team THEN who ELSE NoOne

CanReopen(t, target, asked, who) ==
    /\ IsClosed(t.status)
    /\ target \in ReopenTargets
    /\ CanSettle(target, IF target = "open"
                         THEN WantedAssignee(t, target, asked, who) ELSE NoOne)

\* Faulty: the resolution is not emptied.
AfterReopenKeeping(t, target, asked, who, team) ==
    LET assignee == IfOnTeam(WantedAssignee(t, target, asked, who), team)
    IN  [t EXCEPT !.status = SettleAssignment(target, assignee),
                  !.assigneeId = assignee, !.reopenCount = @ + 1]

AfterReopen(t, target, asked, who, team) ==
    LET assignee == IfOnTeam(WantedAssignee(t, target, asked, who), team)
    IN  [WithoutResolution(t) EXCEPT
            !.status = SettleAssignment(target, assignee),
            !.assigneeId = assignee,
            !.reopenCount = @ + 1]

CanRequesterReopen(t, at, window) ==
    t.status = "resolved" /\ t.resolvedAt # Never /\ at - t.resolvedAt <= window

(***************************************************************************)
(* AcceptTransferRequest, the ticket's half.                               *)
(***************************************************************************)
\* Faulty: the ticket stays in the queue.
AfterTransferInQueue(t, target) == [t EXCEPT !.assigneeId = target]

AfterTransfer(t, target) ==
    [t EXCEPT !.assigneeId = target,
              !.status = IF @ = "open" THEN "pending" ELSE @]

(***************************************************************************)
(* A new ticket is in the queue with nobody assigned.                      *)
(***************************************************************************)
NewTicket ==
    [status |-> "open", assigneeId |-> NoOne, resolvedById |-> NoOne,
     resolvedAt |-> Never, firstResolvedAt |-> Never,
     discardReason |-> FALSE, reopenCount |-> 0]

==============================================================================
