---------------------------- MODULE TicketsProofs ----------------------------
(***************************************************************************)
(* Proofs about Tickets, for any people, roles, windows and bounds: the    *)
(* invariants of a ticket's row, and what no command may ever do to it;    *)
(* and about TicketImport, what names the tickets of a workspace.          *)
(*                                                                         *)
(* The lemmas of the first part say of every service that it hands a good  *)
(* ticket to the repository when it was given one; the second part carries *)
(* that over to the actions and to Spec; the third is about TicketImport.  *)
(***************************************************************************)
EXTENDS Tickets, TicketImport, FiniteSetTheorems, TLAPS

(***************************************************************************)
(* The inductive invariant.  AssignmentRule is inductive on its own, the   *)
(* resolution is not: that the first one is no later than the current one  *)
(* holds after a resolution because no column holds a time to come.        *)
(***************************************************************************)
Story(t) ==
    /\ ~IsClosed(t.status) => t.resolvedAt = Never
    /\ t.status = "resolved" => t.resolvedAt # Never
    /\ t.resolvedAt = Never <=> t.resolvedById = NoOne
    /\ t.discardReason <=> t.status = "discarded"
    /\ t.resolvedAt # Never =>
          /\ t.firstResolvedAt # Never
          /\ t.firstResolvedAt <= t.resolvedAt

GoodTicket(t, at) ==
    /\ t \in TicketType
    /\ AssignmentFits(t.status, t.assigneeId)
    /\ Story(t)
    /\ t.firstResolvedAt <= at

IInv == TypeOK /\ GoodTicket(ticket, now)

------------------------------------------------------------------------------
(***************************************************************************)
(* The services.                                                           *)
(***************************************************************************)

\* Resolving a ticket that has an assignee or needs none, ticket-resolution.ts.
LEMMA ResolvedIsGood ==
    ASSUME NEW at \in 1..MaxTime, NEW t \in TicketType, NEW user \in User,
           t.firstResolvedAt <= at
    PROVE  GoodTicket(MarkResolved(t, user, at), at)
<1> DEFINE r == MarkResolved(t, user, at)
<1>1. /\ r \in TicketType
      /\ r.status = "resolved" /\ r.resolvedAt = at
      /\ r.resolvedById = user /\ r.discardReason = FALSE
      /\ r.firstResolvedAt = IF t.firstResolvedAt = Never THEN at
                             ELSE t.firstResolvedAt
  <2>1. at \in Time /\ user \in Users0 /\ "resolved" \in TicketStatuses
    BY TicketsAssumption DEF Time, Users0, TicketStatuses, ClosedStatuses
  <2> QED
    BY <2>1 DEF MarkResolved, TicketType
<1>2. r.firstResolvedAt # Never /\ r.firstResolvedAt <= at
  BY <1>1, TicketsAssumption DEF TicketType, Time, Never
<1>3. AssignmentFits(r.status, r.assigneeId)
  BY <1>1 DEF AssignmentFits, IsWork, WorkStatuses
<1>4. Story(r)
  BY <1>1, <1>2, NoOneAssumption DEF Story, IsClosed, ClosedStatuses, Never
<1> QED
  BY <1>1, <1>2, <1>3, <1>4 DEF GoodTicket

\* Emptying the resolution leaves the rest of the ticket as it is.
LEMMA WithoutResolutionType ==
    ASSUME NEW t \in TicketType
    PROVE  /\ WithoutResolution(t) \in TicketType
           /\ WithoutResolution(t).status = t.status
           /\ WithoutResolution(t).assigneeId = t.assigneeId
           /\ WithoutResolution(t).reopenCount = t.reopenCount
           /\ WithoutResolution(t).firstResolvedAt = t.firstResolvedAt
           /\ WithoutResolution(t).resolvedAt = Never
           /\ WithoutResolution(t).resolvedById = NoOne
           /\ WithoutResolution(t).discardReason = FALSE
<1>1. Never \in Time /\ NoOne \in Users0
  BY TicketsAssumption DEF Never, Time, Users0
<1> QED
  BY <1>1 DEF WithoutResolution, TicketType

\* Whoever assigneeForStatus answers fits the status (ticket-assignment-rule.ts).
LEMMA AssigneeForStatusFits ==
    ASSUME NEW status \in TicketStatuses, NEW assignee \in Users0,
           NEW taker \in Users0, CanGoTo(status, assignee, taker)
    PROVE  /\ AssigneeForStatus(status, assignee, taker) \in Users0
           /\ AssignmentFits(status, AssigneeForStatus(status, assignee, taker))
  BY NoOneAssumption
  DEF Users0, CanGoTo, AssigneeForStatus, AssignmentFits, IsWork, WorkStatuses

\* ChangeTicketStatus keeps a good ticket good.
LEMMA ChangeStatusIsGood ==
    ASSUME NEW at \in 1..MaxTime, NEW t, GoodTicket(t, at),
           NEW status \in TicketStatuses, NEW user \in User,
           NEW taker \in Users0, NEW hasReason \in BOOLEAN,
           NEW canMoveToOpen \in BOOLEAN,
           CanChangeStatus(t, status, hasReason, canMoveToOpen, taker)
    PROVE  GoodTicket(AfterChangeStatus(t, status, user, taker, at), at)
<1> DEFINE moved == [t EXCEPT !.assigneeId = AssigneeForStatus(status, @, taker),
                              !.status = status]
<1>1. t \in TicketType
  BY DEF GoodTicket
<1>2. /\ AssigneeForStatus(status, t.assigneeId, taker) \in Users0
      /\ AssignmentFits(status, AssigneeForStatus(status, t.assigneeId, taker))
  BY <1>1, AssigneeForStatusFits DEF CanChangeStatus, TicketType
<1>3. /\ moved \in TicketType
      /\ moved = [t EXCEPT
                    !.assigneeId = AssigneeForStatus(status, t.assigneeId, taker),
                    !.status = status]
  BY <1>1, <1>2 DEF TicketType
<1>4. CASE status = "resolved"
  <2>1. AfterChangeStatus(t, status, user, taker, at) = MarkResolved(moved, user, at)
    BY <1>4 DEF AfterChangeStatus
  <2>2. moved.firstResolvedAt <= at
    BY <1>1 DEF GoodTicket, TicketType
  <2> QED
    BY <2>1, <2>2, <1>3, ResolvedIsGood
<1>5. CASE status = "discarded"
  <2>1. AfterChangeStatus(t, status, user, taker, at)
          = [moved EXCEPT !.discardReason = TRUE]
    BY <1>5 DEF AfterChangeStatus
  <2> QED
    BY <2>1, <1>1, <1>2, <1>3, <1>5
    DEF GoodTicket, Story, TicketType, IsClosed, ClosedStatuses
<1>6. CASE status \notin {"resolved", "discarded"}
  <2>1. AfterChangeStatus(t, status, user, taker, at) = WithoutResolution(moved)
    BY <1>6 DEF AfterChangeStatus
  <2>2. /\ moved \in TicketType /\ moved.status = status
        /\ AssignmentFits(status, moved.assigneeId)
        /\ moved.firstResolvedAt <= at
    BY <1>1, <1>2, <1>3 DEF GoodTicket, TicketType
  <2> HIDE DEF moved
  <2> QED
    BY <2>1, <2>2, <1>6, WithoutResolutionType
    DEF GoodTicket, Story, IsClosed, ClosedStatuses
<1> QED
  BY <1>4, <1>5, <1>6

\* AssignTicket keeps a good ticket good, releasing included.
LEMMA AssignIsGood ==
    ASSUME NEW at \in 1..MaxTime, NEW t, GoodTicket(t, at), NEW who \in Users0
    PROVE  GoodTicket(AfterAssign(t, who), at)
  BY DEF GoodTicket, Story, TicketType, AfterAssign, StatusForAssignee,
         SettleAssignment, AssignmentFits, IsWork, IsClosed, WorkStatuses,
         ClosedStatuses, TicketStatuses, Never

\* PickupTicket keeps a good ticket good.
LEMMA PickupIsGood ==
    ASSUME NEW at \in 1..MaxTime, NEW t, GoodTicket(t, at), NEW user \in User,
           NEW status \in TicketStatuses, CanPickup(t, status)
    PROVE  GoodTicket(AfterPickup(t, status, user, at), at)
<1> DEFINE taken == [t EXCEPT !.assigneeId = user, !.status = status]
<1>1. taken \in TicketType /\ user # NoOne
  BY NoOneAssumption DEF GoodTicket, TicketType, Users0
<1>2. CASE status = "resolved"
  <2>1. AfterPickup(t, status, user, at) = MarkResolved(taken, user, at)
    BY <1>2 DEF AfterPickup
  <2>2. taken.firstResolvedAt <= at
    BY DEF GoodTicket, TicketType
  <2> QED
    BY <2>1, <2>2, <1>1, ResolvedIsGood
<1>3. CASE status # "resolved"
  <2>1. AfterPickup(t, status, user, at) = taken
    BY <1>3 DEF AfterPickup
  <2> QED
    BY <2>1, <1>1, <1>3
    DEF GoodTicket, Story, TicketType, CanPickup, PickupStatuses,
        AssignmentFits, IsWork, IsClosed, WorkStatuses, ClosedStatuses, Never
<1> QED
  BY <1>2, <1>3

\* ReopenTicket keeps a good ticket good, whoever is still on the team.
LEMMA ReopenIsGood ==
    ASSUME NEW at \in 1..MaxTime, NEW t, GoodTicket(t, at),
           NEW target \in TicketStatuses, NEW asked \in BOOLEAN,
           NEW who \in Users0, NEW team \in SUBSET User,
           t.reopenCount < MaxReopens, CanReopen(t, target, asked, who)
    PROVE  GoodTicket(AfterReopen(t, target, asked, who, team), at)
<1> DEFINE wanted == WantedAssignee(t, target, asked, who)
           assignee == IfOnTeam(wanted, team)
<1>1. t \in TicketType /\ t.reopenCount + 1 \in 0..MaxReopens
  BY TicketsAssumption DEF GoodTicket, TicketType
<1>2. assignee \in Users0
  BY DEF IfOnTeam, Users0
<1>3. target = "open" => assignee = NoOne
  BY NoOneAssumption DEF CanReopen, CanSettle, IfOnTeam
<1>4. /\ SettleAssignment(target, assignee) \in TicketStatuses \ ClosedStatuses
      /\ AssignmentFits(SettleAssignment(target, assignee), assignee)
  BY <1>2, <1>3
  DEF CanReopen, ReopenTargets, SettleAssignment, AssignmentFits, IsWork,
      WorkStatuses, ClosedStatuses, TicketStatuses
<1>5. AfterReopen(t, target, asked, who, team)
        = [WithoutResolution(t) EXCEPT
              !.status = SettleAssignment(target, assignee),
              !.assigneeId = assignee,
              !.reopenCount = @ + 1]
  BY DEF AfterReopen
<1>6. /\ WithoutResolution(t) \in TicketType
      /\ WithoutResolution(t).reopenCount = t.reopenCount
  BY <1>1, WithoutResolutionType
<1> DEFINE r == AfterReopen(t, target, asked, who, team)
<1> HIDE DEF assignee
<1>7. /\ r \in TicketType
      /\ r.status = SettleAssignment(target, assignee)
      /\ r.assigneeId = assignee
      /\ r.firstResolvedAt = WithoutResolution(t).firstResolvedAt
      /\ r.resolvedAt = WithoutResolution(t).resolvedAt
      /\ r.resolvedById = WithoutResolution(t).resolvedById
      /\ r.discardReason = WithoutResolution(t).discardReason
  BY <1>1, <1>2, <1>4, <1>5, <1>6 DEF TicketType
<1> HIDE DEF r
<1>8. /\ r.firstResolvedAt <= at
      /\ r.resolvedAt = Never /\ r.resolvedById = NoOne
      /\ r.discardReason = FALSE
  BY <1>1, <1>7, WithoutResolutionType DEF GoodTicket
<1>9. GoodTicket(r, at)
  BY <1>4, <1>7, <1>8 DEF GoodTicket, Story, IsClosed, ClosedStatuses
<1> QED
  BY <1>9 DEF r

\* AcceptTransferRequest hands over a good ticket.
LEMMA TransferIsGood ==
    ASSUME NEW at \in 1..MaxTime, NEW t, GoodTicket(t, at), NEW target \in User
    PROVE  GoodTicket(AfterTransfer(t, target), at)
  BY NoOneAssumption
  DEF GoodTicket, Story, TicketType, AfterTransfer, AssignmentFits, IsWork,
      IsClosed, WorkStatuses, ClosedStatuses, TicketStatuses, Users0, Never

------------------------------------------------------------------------------
(***************************************************************************)
(* The actions.                                                            *)
(***************************************************************************)

\* A good ticket stays good as time goes by.
LEMMA GoodTicketLater ==
    ASSUME NEW t, NEW at \in 1..MaxTime, NEW later \in 1..MaxTime,
           at <= later, GoodTicket(t, at)
    PROVE  GoodTicket(t, later)
  BY TicketsAssumption DEF GoodTicket, TicketType, Time

\* Everybody a status change or a reopen can put on a ticket is a user.
LEMMA TakerAndTeam ==
    ASSUME NEW u \in User, NEW status, NEW takes \in BOOLEAN
    PROVE  Taker(u, status, takes) \in Users0 /\ Team \in SUBSET User
  BY DEF Taker, Team, Users0

\* Every command leaves a good ticket behind.
LEMMA StepIsGood ==
    ASSUME IInv, Next
    PROVE  GoodTicket(ticket', now)
<1> USE DEF IInv
<1>0. now \in 1..MaxTime
  BY DEF TypeOK
<1>1. ASSUME NEW u \in User, NEW status \in TicketStatuses,
             NEW hasReason \in BOOLEAN, NEW takes \in BOOLEAN,
             ChangeStatus(u, status, hasReason, takes)
      PROVE  GoodTicket(ticket', now)
  <2>1. (RoleOf(u) \in {"admin", "supervisor"}) \in BOOLEAN
    OBVIOUS
  <2>2. /\ CanChangeStatus(ticket, status, hasReason,
                           RoleOf(u) \in {"admin", "supervisor"},
                           Taker(u, status, takes))
        /\ ticket' = AfterChangeStatus(ticket, status, u,
                                       Taker(u, status, takes), now)
    BY <1>1 DEF ChangeStatus
  <2> QED
    BY <1>0, <2>1, <2>2, TakerAndTeam, ChangeStatusIsGood
<1>2. ASSUME NEW u \in User, NEW who \in Users0, Assign(u, who)
      PROVE  GoodTicket(ticket', now)
  BY <1>0, <1>2, AssignIsGood DEF Assign
<1>3. ASSUME NEW u \in User, NEW status \in TicketStatuses, Pickup(u, status)
      PROVE  GoodTicket(ticket', now)
  BY <1>0, <1>3, PickupIsGood DEF Pickup
<1>4. ASSUME NEW u \in User, NEW target \in TicketStatuses,
             NEW asked \in BOOLEAN, NEW who \in Users0,
             Reopen(u, target, asked, who)
      PROVE  GoodTicket(ticket', now)
  BY <1>0, <1>4, TakerAndTeam, ReopenIsGood DEF Reopen
<1>5. CASE RequesterReopen
  <2>1. CanReopen(ticket, "in-progress", FALSE, NoOne)
    BY <1>5
    DEF RequesterReopen, CanRequesterReopen, CanReopen, CanSettle,
        ReopenTargets, IsClosed, ClosedStatuses
  <2>2. /\ ticket' = AfterReopen(ticket, "in-progress", FALSE, NoOne, Team)
        /\ ticket.reopenCount < MaxReopens
    BY <1>5 DEF RequesterReopen
  <2>3. "in-progress" \in TicketStatuses /\ NoOne \in Users0
    BY DEF TicketStatuses, WorkStatuses, Users0
  <2> QED
    BY <1>0, <2>1, <2>2, <2>3, ReopenIsGood DEF Team
<1>6. ASSUME NEW u \in User, AcceptTransfer(u)
      PROVE  GoodTicket(ticket', now)
  BY <1>0, <1>6, TransferIsGood DEF AcceptTransfer
<1>7. CASE UNCHANGED ticket
  BY <1>7
<1> QED
  BY <1>1, <1>2, <1>3, <1>4, <1>5, <1>6, <1>7
  DEF Next, Users0, Delete, CreateTransfer, AcceptTooLate, RejectTransfer,
      CancelTransfer, ExpireTransfer, SetRole, Tick

\* Every command leaves values of the right type in the other variables.
LEMMA StepIsTyped ==
    ASSUME IInv, Next
    PROVE  TypeOK' /\ now <= now'
<1> USE DEF IInv, TypeOK
<1>1. ticket' \in TicketType
  BY StepIsGood DEF GoodTicket
<1>2. /\ ticket'.status \in TicketStatuses
      /\ ticket'.assigneeId \in Users0
  BY <1>1 DEF TicketType
<1>3. now \in 1..MaxTime /\ now <= now
  BY TicketsAssumption
<1>4. NoTransfer \in TransferType
  BY TicketsAssumption DEF NoTransfer, TransferType, Users0, Never
<1>5. ASSUME NEW u \in User, NEW status \in TicketStatuses,
             NEW hasReason \in BOOLEAN, NEW takes \in BOOLEAN,
             ChangeStatus(u, status, hasReason, takes)
      PROVE  TypeOK' /\ now <= now'
  BY <1>1, <1>2, <1>3, <1>5 DEF ChangeStatus, TellStatus
<1>6. ASSUME NEW u \in User, NEW who \in Users0, Assign(u, who)
      PROVE  TypeOK' /\ now <= now'
  BY <1>1, <1>2, <1>3, <1>6 DEF Assign, TellAssignee
<1>7. ASSUME NEW u \in User, NEW status \in TicketStatuses, Pickup(u, status)
      PROVE  TypeOK' /\ now <= now'
  BY <1>1, <1>2, <1>3, <1>7 DEF Pickup, TellBoth
<1>8. ASSUME NEW u \in User, NEW target \in TicketStatuses,
             NEW asked \in BOOLEAN, NEW who \in Users0,
             Reopen(u, target, asked, who)
      PROVE  TypeOK' /\ now <= now'
  BY <1>1, <1>2, <1>3, <1>8 DEF Reopen, TellBoth
<1>9. CASE RequesterReopen
  BY <1>1, <1>2, <1>3, <1>9, TicketsAssumption DEF RequesterReopen, TellBoth
<1>10. ASSUME NEW u \in User, Delete(u)
       PROVE  TypeOK' /\ now <= now'
  BY <1>3, <1>10 DEF Delete
<1>11. ASSUME NEW u \in User, NEW target \in User, CreateTransfer(u, target)
       PROVE  TypeOK' /\ now <= now'
  <2>1. now + TransferTTL \in 0..(MaxTime + TransferTTL)
    BY <1>3, TicketsAssumption
  <2>2. transfer' \in TransferType
    BY <1>11, <2>1 DEF CreateTransfer, TransferType, Users0
  <2> QED
    BY <1>3, <1>11, <2>2 DEF CreateTransfer
<1>12. ASSUME NEW u \in User,
              \/ AcceptTransfer(u) \/ AcceptTooLate(u)
              \/ RejectTransfer(u) \/ CancelTransfer(u)
       PROVE  TypeOK' /\ now <= now'
  BY <1>1, <1>3, <1>4, <1>12
  DEF AcceptTransfer, AcceptTooLate, RejectTransfer, CancelTransfer
<1>13. CASE ExpireTransfer
  BY <1>3, <1>4, <1>13 DEF ExpireTransfer
<1>14. ASSUME NEW u \in User, NEW role \in Roles, SetRole(u, role)
       PROVE  TypeOK' /\ now <= now'
  BY <1>3, <1>14 DEF SetRole
<1>15. CASE Tick
  <2>1. now' \in 1..MaxTime /\ now <= now'
    BY <1>3, <1>15, TicketsAssumption DEF Tick
  <2> QED
    BY <1>15, <2>1 DEF Tick
<1> QED
  BY <1>5, <1>6, <1>7, <1>8, <1>9, <1>10, <1>11, <1>12, <1>13, <1>14, <1>15
  DEF Next, Users0

\* A new ticket is a good one.
LEMMA InitIsGood == Init => IInv
<1> SUFFICES ASSUME Init PROVE IInv
  OBVIOUS
<1>1. now \in 1..MaxTime
  BY TicketsAssumption DEF Init, StartsAs
<1>2. NewTicket \in TicketType
  BY TicketsAssumption
  DEF NewTicket, TicketType, Users0, Time, TicketStatuses, Never
<1>3. NoTransfer \in TransferType
  BY TicketsAssumption DEF NoTransfer, TransferType, Users0, Never
<1>4. "open" \in TicketStatuses
  BY DEF TicketStatuses
<1>5. TypeOK
  BY <1>1, <1>2, <1>3, <1>4, TicketsAssumption DEF Init, StartsAs, TypeOK, Users0
<1>6. GoodTicket(NewTicket, now)
  BY <1>1, <1>2
  DEF NewTicket, GoodTicket, Story, AssignmentFits, IsWork, IsClosed,
      WorkStatuses, ClosedStatuses, Never
<1> QED
  BY <1>5, <1>6 DEF IInv, Init, StartsAs

\* The invariant is kept by every step, the ones that change nothing included.
LEMMA IInvIsKept == IInv /\ [Next]_vars => IInv'
<1> SUFFICES ASSUME IInv, [Next]_vars PROVE IInv'
  OBVIOUS
<1>1. CASE Next
  <2>1. TypeOK' /\ now <= now' /\ GoodTicket(ticket', now)
    BY <1>1, StepIsGood, StepIsTyped
  <2>2. now \in 1..MaxTime /\ now' \in 1..MaxTime
    BY <2>1 DEF IInv, TypeOK
  <2>3. GoodTicket(ticket', now')
    BY <2>1, <2>2, GoodTicketLater
  <2> QED
    BY <2>1, <2>3 DEF IInv
<1>2. CASE UNCHANGED vars
  BY <1>2
  DEF vars, IInv, TypeOK, GoodTicket, Story, TicketType, TransferType
<1> QED
  BY <1>1, <1>2

------------------------------------------------------------------------------
(***************************************************************************)
(* Theorems.                                                               *)
(***************************************************************************)

\* The row of a ticket stays good, whatever commands run.
THEOREM AlwaysGood == Spec => []IInv
  BY InitIsGood, IInvIsKept, PTL DEF Spec

\* Every variable always holds what its column or its event can hold.
THEOREM TypeCorrect == Spec => []TypeOK
<1>1. IInv => TypeOK
  BY DEF IInv
<1> QED
  BY <1>1, AlwaysGood, PTL

\* Once CreateTicket has left it in the queue with nobody, a ticket in the queue
\* has nobody and work has somebody, for any team, any roles given and taken
\* away, and any number of commands, reopens and transfers.
THEOREM AssignmentRuleHolds == Spec => []AssignmentRule
<1>1. IInv => AssignmentRule
  BY DEF IInv, GoodTicket, AssignmentRule
<1> QED
  BY <1>1, AlwaysGood, PTL

\* The resolution columns always tell one story with the status.
THEOREM ResolutionStaysConsistent == Spec => []ResolutionConsistent
<1>1. IInv => ResolutionConsistent
  BY DEF IInv, GoodTicket, Story, ResolutionConsistent
<1> QED
  BY <1>1, AlwaysGood, PTL

------------------------------------------------------------------------------
(***************************************************************************)
(* What no step does.  A theorem of this part looks at the actions one by  *)
(* one; the actions that leave the ticket alone are taken together.        *)
(***************************************************************************)

\* The steps that change the ticket, and the rest.
LEMMA NextCases ==
    Next =>
      \/ \E u \in User, status \in TicketStatuses, hasReason, takes \in BOOLEAN :
            ChangeStatus(u, status, hasReason, takes)
      \/ \E u \in User, who \in Users0 : Assign(u, who)
      \/ \E u \in User, status \in TicketStatuses : Pickup(u, status)
      \/ \E u \in User, target \in TicketStatuses, asked \in BOOLEAN,
            who \in Users0 : Reopen(u, target, asked, who)
      \/ RequesterReopen
      \/ \E u \in User : AcceptTransfer(u)
      \/ UNCHANGED <<ticket, told>>
  BY DEF Next, Users0, Delete, CreateTransfer, AcceptTooLate, RejectTransfer,
         CancelTransfer, ExpireTransfer, SetRole, Tick

\* What the roles that matter here may and may not do (permissions.ts).
LEMMA RoleFacts ==
    ASSUME NEW role \in Roles
    PROVE  /\ HasPermission(role, "pickup") => role \in TeamRoles
           /\ HasPermission(role, "respondTransfer") => role \in TeamRoles
           /\ role = "agent" => /\ ~HasPermission(role, "view")
                                /\ ~HasPermission(role, "assign")
  BY DEF Roles, MemberRoles, TeamRoles, HasPermission, RolePermissions,
         TicketPermissions

(***************************************************************************)
(* The first resolution.                                                   *)
(***************************************************************************)

\* No service touches the first resolution once there is one.
LEMMA ServicesKeepFirst ==
    ASSUME NEW t \in TicketType, t.firstResolvedAt # Never,
           NEW user, NEW at, NEW status, NEW taker, NEW who, NEW asked, NEW team
    PROVE  /\ AfterChangeStatus(t, status, user, taker, at).firstResolvedAt
                = t.firstResolvedAt
           /\ AfterAssign(t, who).firstResolvedAt = t.firstResolvedAt
           /\ AfterPickup(t, status, user, at).firstResolvedAt
                = t.firstResolvedAt
           /\ AfterReopen(t, status, asked, who, team).firstResolvedAt
                = t.firstResolvedAt
           /\ AfterTransfer(t, who).firstResolvedAt = t.firstResolvedAt
<1>1. AfterChangeStatus(t, status, user, taker, at).firstResolvedAt
        = t.firstResolvedAt
  <2>1. CASE status = "resolved"
    BY <2>1 DEF AfterChangeStatus, MarkResolved, TicketType
  <2>2. CASE status = "discarded"
    BY <2>2 DEF AfterChangeStatus, TicketType
  <2>3. CASE status \notin {"resolved", "discarded"}
    BY <2>3 DEF AfterChangeStatus, WithoutResolution, TicketType
  <2> QED
    BY <2>1, <2>2, <2>3
<1>2. AfterAssign(t, who).firstResolvedAt = t.firstResolvedAt
  BY DEF AfterAssign, TicketType
<1>3. AfterPickup(t, status, user, at).firstResolvedAt = t.firstResolvedAt
  BY DEF AfterPickup, MarkResolved, TicketType
<1>4. AfterReopen(t, status, asked, who, team).firstResolvedAt
        = t.firstResolvedAt
  BY DEF AfterReopen, WithoutResolution, TicketType
<1>5. AfterTransfer(t, who).firstResolvedAt = t.firstResolvedAt
  BY DEF AfterTransfer, TicketType
<1> QED
  BY <1>1, <1>2, <1>3, <1>4, <1>5

\* The first resolution of a ticket is kept for good.
THEOREM FirstResolutionIsKept == Spec => FirstResolutionKept
<1>1. ASSUME IInv, [Next]_vars, ticket.firstResolvedAt # Never
      PROVE  ticket'.firstResolvedAt = ticket.firstResolvedAt
  <2>1. ticket \in TicketType
    BY <1>1 DEF IInv, TypeOK
  <2>2. CASE Next
    <3>1. ASSUME NEW u, NEW status, NEW hasReason, NEW takes,
                 ChangeStatus(u, status, hasReason, takes)
          PROVE  ticket'.firstResolvedAt = ticket.firstResolvedAt
      BY <1>1, <2>1, <3>1, ServicesKeepFirst DEF ChangeStatus
    <3>2. ASSUME NEW u, NEW who, Assign(u, who)
          PROVE  ticket'.firstResolvedAt = ticket.firstResolvedAt
      BY <1>1, <2>1, <3>2, ServicesKeepFirst DEF Assign
    <3>3. ASSUME NEW u, NEW status, Pickup(u, status)
          PROVE  ticket'.firstResolvedAt = ticket.firstResolvedAt
      BY <1>1, <2>1, <3>3, ServicesKeepFirst DEF Pickup
    <3>4. ASSUME NEW u, NEW target, NEW asked, NEW who,
                 Reopen(u, target, asked, who)
          PROVE  ticket'.firstResolvedAt = ticket.firstResolvedAt
      BY <1>1, <2>1, <3>4, ServicesKeepFirst DEF Reopen
    <3>5. CASE RequesterReopen
      BY <2>1, <3>5
      DEF RequesterReopen, AfterReopen, WithoutResolution, TicketType
    <3>6. ASSUME NEW u, AcceptTransfer(u)
          PROVE  ticket'.firstResolvedAt = ticket.firstResolvedAt
      BY <1>1, <2>1, <3>6, ServicesKeepFirst DEF AcceptTransfer
    <3>7. CASE UNCHANGED <<ticket, told>>
      BY <3>7
    <3> QED
      BY <2>2, <3>1, <3>2, <3>3, <3>4, <3>5, <3>6, <3>7, NextCases, Zenon
  <2>3. CASE UNCHANGED vars
    BY <2>3 DEF vars
  <2> QED
    BY <1>1, <2>2, <2>3
<1> QED
  BY <1>1, AlwaysGood, PTL DEF Spec, FirstResolutionKept

(***************************************************************************)
(* Leaving a closed status.                                                *)
(***************************************************************************)
LeavesClosed(from, to) == IsClosed(from.status) /\ ~IsClosed(to.status)
Reopened(from, to) == to.reopenCount = from.reopenCount + 1
LeavesByReopen == LeavesClosed(ticket, ticket') <=> Reopened(ticket, ticket')

\* Only ReopenTicket takes a ticket out of a closed status, and it always does.
LEMMA OnlyReopenLeavesClosed ==
    ASSUME NEW t \in TicketType,
           NEW status \in TicketStatuses, NEW user, NEW at, NEW taker, NEW who
    PROVE  /\ \A hasReason, canMoveToOpen :
                CanChangeStatus(t, status, hasReason, canMoveToOpen, taker) =>
                  LET r == AfterChangeStatus(t, status, user, taker, at)
                  IN  ~LeavesClosed(t, r) /\ ~Reopened(t, r)
           /\ LET r == AfterAssign(t, who)
              IN  ~LeavesClosed(t, r) /\ ~Reopened(t, r)
           /\ CanPickup(t, status) =>
                LET r == AfterPickup(t, status, user, at)
                IN  ~LeavesClosed(t, r) /\ ~Reopened(t, r)
           /\ LET r == AfterTransfer(t, who)
              IN  ~LeavesClosed(t, r) /\ ~Reopened(t, r)
<1> USE DEF LeavesClosed, Reopened, TicketType
<1>0. t.reopenCount # t.reopenCount + 1
  BY TicketsAssumption
<1>1. ASSUME NEW hasReason, NEW canMoveToOpen,
             CanChangeStatus(t, status, hasReason, canMoveToOpen, taker)
      PROVE  LET r == AfterChangeStatus(t, status, user, taker, at)
             IN  ~LeavesClosed(t, r) /\ ~Reopened(t, r)
  <2> DEFINE r == AfterChangeStatus(t, status, user, taker, at)
  <2>1. r.status = status /\ r.reopenCount = t.reopenCount
    <3>1. CASE status = "resolved"
      BY <3>1 DEF AfterChangeStatus, MarkResolved
    <3>2. CASE status = "discarded"
      BY <3>2 DEF AfterChangeStatus
    <3>3. CASE status \notin {"resolved", "discarded"}
      BY <3>3 DEF AfterChangeStatus, WithoutResolution
    <3> QED
      BY <3>1, <3>2, <3>3
  <2> QED
    BY <1>0, <1>1, <2>1 DEF CanChangeStatus
<1>2. LET r == AfterAssign(t, who) IN ~LeavesClosed(t, r) /\ ~Reopened(t, r)
  BY <1>0 DEF AfterAssign, StatusForAssignee, SettleAssignment, IsWork, IsClosed,
              WorkStatuses, ClosedStatuses
<1>3. ASSUME CanPickup(t, status)
      PROVE  LET r == AfterPickup(t, status, user, at)
             IN  ~LeavesClosed(t, r) /\ ~Reopened(t, r)
  BY <1>0, <1>3 DEF CanPickup, AfterPickup, MarkResolved, IsClosed, ClosedStatuses
<1>4. LET r == AfterTransfer(t, who) IN ~LeavesClosed(t, r) /\ ~Reopened(t, r)
  BY <1>0 DEF AfterTransfer, IsClosed, ClosedStatuses
<1> QED
  BY <1>1, <1>2, <1>3, <1>4

\* ReopenTicket leaves the closed status.
LEMMA ReopenLeavesClosed ==
    ASSUME NEW t \in TicketType, NEW target, NEW asked, NEW who, NEW team,
           CanReopen(t, target, asked, who)
    PROVE  LET r == AfterReopen(t, target, asked, who, team)
           IN  LeavesClosed(t, r) /\ Reopened(t, r)
<1> DEFINE assignee == IfOnTeam(WantedAssignee(t, target, asked, who), team)
           r == AfterReopen(t, target, asked, who, team)
<1>1. /\ r.status = SettleAssignment(target, assignee)
      /\ r.reopenCount = t.reopenCount + 1
  BY DEF AfterReopen, WithoutResolution, TicketType
<1>2. target \in ReopenTargets /\ IsClosed(t.status)
  BY DEF CanReopen
<1>3. ~IsClosed(SettleAssignment(target, assignee))
  BY <1>2 DEF ReopenTargets, SettleAssignment, IsClosed, ClosedStatuses
<1> QED
  BY <1>1, <1>2, <1>3 DEF LeavesClosed, Reopened

\* Changing the status, assigning, releasing, picking up and handing over never
\* take a ticket out of a closed status; reopening always does.
THEOREM ClosedOnlyLeavesByReopen == Spec => ClosedLeavesByReopen
<1>1. ASSUME IInv, [Next]_vars
      PROVE  LeavesByReopen
  <2> USE DEF LeavesByReopen
  <2>1. ticket \in TicketType
    BY <1>1 DEF IInv, TypeOK
  <2>2. ASSUME NEW u \in User, NEW status \in TicketStatuses, NEW hasReason,
               NEW takes, ChangeStatus(u, status, hasReason, takes)
        PROVE  LeavesByReopen
    BY <2>1, <2>2, OnlyReopenLeavesClosed DEF ChangeStatus
  <2>3. ASSUME NEW u \in User, NEW who \in Users0, Assign(u, who)
        PROVE  LeavesByReopen
    BY <2>1, <2>3, OnlyReopenLeavesClosed DEF Assign, TicketStatuses
  <2>4. ASSUME NEW u \in User, NEW status \in TicketStatuses, Pickup(u, status)
        PROVE  LeavesByReopen
    BY <2>1, <2>4, OnlyReopenLeavesClosed DEF Pickup
  <2>5. ASSUME NEW u \in User, NEW target \in TicketStatuses, NEW asked,
               NEW who, Reopen(u, target, asked, who)
        PROVE  LeavesByReopen
    BY <2>1, <2>5, ReopenLeavesClosed DEF Reopen
  <2>6. CASE RequesterReopen
    <3>1. CanReopen(ticket, "in-progress", FALSE, NoOne)
      BY <2>6
      DEF RequesterReopen, CanRequesterReopen, CanReopen, CanSettle,
          ReopenTargets, IsClosed, ClosedStatuses
    <3>2. ticket' = AfterReopen(ticket, "in-progress", FALSE, NoOne, Team)
      BY <2>6 DEF RequesterReopen
    <3> QED
      BY <2>1, <3>1, <3>2, ReopenLeavesClosed
  <2>7. ASSUME NEW u \in User, AcceptTransfer(u)
        PROVE  LeavesByReopen
    BY <2>1, <2>7, OnlyReopenLeavesClosed DEF AcceptTransfer, TicketStatuses
  <2>8. CASE ticket' = ticket
    BY <2>1, <2>8, TicketsAssumption DEF LeavesClosed, Reopened, TicketType
  <2>9. CASE Next
    BY <2>2, <2>3, <2>4, <2>5, <2>6, <2>7, <2>8, <2>9, NextCases
  <2> QED
    BY <1>1, <2>8, <2>9 DEF vars
<1>2. LeavesByReopen <=> ((IsClosed(ticket.status) /\ ~IsClosed(ticket'.status))
                            <=> ticket'.reopenCount = ticket.reopenCount + 1)
  BY DEF LeavesByReopen, LeavesClosed, Reopened
<1> QED
  BY <1>1, <1>2, AlwaysGood, PTL DEF Spec, ClosedLeavesByReopen

(***************************************************************************)
(* Who gets a ticket.                                                      *)
(***************************************************************************)
MayGet(u) == roles[u] \in TeamRoles \/ u \in SystemAdmins
GotByOneWhoMay ==
    ticket'.assigneeId \notin {ticket.assigneeId, NoOne} =>
        MayGet(ticket'.assigneeId)

\* Who each service puts on the ticket.
LEMMA AssigneeAfter ==
    ASSUME NEW t \in TicketType, NEW status, NEW user, NEW at, NEW taker,
           NEW who, NEW asked, NEW team
    PROVE  /\ AfterChangeStatus(t, status, user, taker, at).assigneeId
                = AssigneeForStatus(status, t.assigneeId, taker)
           /\ AfterAssign(t, who).assigneeId = who
           /\ AfterPickup(t, status, user, at).assigneeId = user
           /\ AfterReopen(t, status, asked, who, team).assigneeId
                = IfOnTeam(WantedAssignee(t, status, asked, who), team)
           /\ AfterTransfer(t, who).assigneeId = who
<1>1. AfterChangeStatus(t, status, user, taker, at).assigneeId
        = AssigneeForStatus(status, t.assigneeId, taker)
  <2>1. CASE status = "resolved"
    BY <2>1 DEF AfterChangeStatus, MarkResolved, TicketType
  <2>2. CASE status = "discarded"
    BY <2>2 DEF AfterChangeStatus, TicketType
  <2>3. CASE status \notin {"resolved", "discarded"}
    BY <2>3 DEF AfterChangeStatus, WithoutResolution, TicketType
  <2> QED
    BY <2>1, <2>2, <2>3
<1>2. AfterPickup(t, status, user, at).assigneeId = user
  BY DEF AfterPickup, MarkResolved, TicketType
<1>3. AfterReopen(t, status, asked, who, team).assigneeId
        = IfOnTeam(WantedAssignee(t, status, asked, who), team)
  BY DEF AfterReopen, WithoutResolution, TicketType
<1> QED
  BY <1>1, <1>2, <1>3 DEF AfterAssign, AfterTransfer, TicketType

\* A permission to pick up or to answer a transfer is a place on the team, or
\* a system admin's.
LEMMA PermittedMayGet ==
    ASSUME TypeOK, NEW u \in User,
           \/ Permitted(u, "pickup") \/ Permitted(u, "respondTransfer")
           \/ CanHold(u)
    PROVE  MayGet(u)
<1>1. roles[u] \in Roles
  BY DEF TypeOK
<1> QED
  BY <1>1, RoleFacts DEF Permitted, RoleOf, CanHold, MayGet

\* Whoever becomes the assignee is on the team at that moment or is a system
\* admin, whichever command does it.
THEOREM NewAssigneeIsOnTeam == Spec => NewAssigneeOnTeam
<1>1. ASSUME IInv, [Next]_vars
      PROVE  GotByOneWhoMay
  <2> USE DEF GotByOneWhoMay
  <2>1. TypeOK /\ ticket \in TicketType
    BY <1>1 DEF IInv, TypeOK
  <2>2. ASSUME NEW u \in User, NEW status, NEW hasReason, NEW takes,
               ChangeStatus(u, status, hasReason, takes)
        PROVE  GotByOneWhoMay
    <3>1. ticket'.assigneeId = AssigneeForStatus(status, ticket.assigneeId,
                                                 Taker(u, status, takes))
      BY <2>1, <2>2, AssigneeAfter DEF ChangeStatus
    <3>2. Taker(u, status, takes) = NoOne \/ MayGet(Taker(u, status, takes))
      BY <2>1, PermittedMayGet DEF Taker
    <3> QED
      BY <3>1, <3>2 DEF AssigneeForStatus
  <2>3. ASSUME NEW u \in User, NEW who \in Users0, Assign(u, who)
        PROVE  GotByOneWhoMay
    <3>1. ticket'.assigneeId = who /\ (who # NoOne => CanHold(who))
      BY <2>1, <2>3, AssigneeAfter DEF Assign
    <3> QED
      BY <2>1, <3>1, PermittedMayGet DEF Users0
  <2>4. ASSUME NEW u \in User, NEW status, Pickup(u, status)
        PROVE  GotByOneWhoMay
    <3>1. ticket'.assigneeId = u /\ Permitted(u, "pickup")
      BY <2>1, <2>4, AssigneeAfter DEF Pickup
    <3> QED
      BY <2>1, <3>1, PermittedMayGet
  <2>5. ASSUME NEW target, NEW asked, NEW who,
               ticket' = AfterReopen(ticket, target, asked, who, Team)
        PROVE  GotByOneWhoMay
    <3>1. ticket'.assigneeId
            = IfOnTeam(WantedAssignee(ticket, target, asked, who), Team)
      BY <2>1, <2>5, AssigneeAfter
    <3> QED
      BY <3>1 DEF IfOnTeam, Team, MayGet
  <2>6. ASSUME NEW u \in User, AcceptTransfer(u)
        PROVE  GotByOneWhoMay
    <3>1. ticket'.assigneeId = u /\ Permitted(u, "respondTransfer")
      BY <2>1, <2>6, AssigneeAfter DEF AcceptTransfer
    <3> QED
      BY <2>1, <3>1, PermittedMayGet
  <2>7. CASE ticket' = ticket
    BY <2>7
  <2>8. CASE Next
    <3>1. ASSUME NEW u \in User, NEW target, NEW asked, NEW who,
                 Reopen(u, target, asked, who)
          PROVE  GotByOneWhoMay
      BY <2>5, <3>1 DEF Reopen
    <3>2. CASE RequesterReopen
      <4>1. ticket' = AfterReopen(ticket, "in-progress", FALSE, NoOne, Team)
        BY <3>2 DEF RequesterReopen
      <4> QED
        BY <2>5, <4>1
    <3> QED
      BY <2>2, <2>3, <2>4, <2>6, <2>7, <2>8, <3>1, <3>2, NextCases
  <2> QED
    BY <1>1, <2>7, <2>8 DEF vars
<1>2. GotByOneWhoMay <=>
        (ticket'.assigneeId \notin {ticket.assigneeId, NoOne} =>
            \/ roles[ticket'.assigneeId] \in TeamRoles
            \/ ticket'.assigneeId \in SystemAdmins)
  BY DEF GotByOneWhoMay, MayGet
<1> QED
  BY <1>1, <1>2, AlwaysGood, PTL DEF Spec, NewAssigneeOnTeam

\* An agent who takes a ticket out of the queue is left holding it.
AgentTakes ==
    \A u \in User :
      /\ RoleOf(u) = "agent"
      /\ told'.by = u /\ told' # told
      /\ ticket.status = "open"
      /\ ticket'.status \notin {"open", "discarded"}
      => ticket'.assigneeId = u

\* It does not depend on takerFor: an agent cannot change the status of a
\* queued ticket at all, except to discard it, because nobody has it.
THEOREM AgentTakesIt == Spec => AgentTakesWhatLeavesQueue
<1>1. ASSUME IInv, [Next]_vars
      PROVE  AgentTakes
  <2> SUFFICES ASSUME NEW u \in User, RoleOf(u) = "agent", told'.by = u,
                      told' # told, ticket.status = "open",
                      ticket'.status \notin {"open", "discarded"}
               PROVE  ticket'.assigneeId = u
    BY DEF AgentTakes
  <2>1. /\ ticket \in TicketType /\ ticket.assigneeId = NoOne
        /\ told \in [status : TicketStatuses, assignee : Users0, by : User]
    BY <1>1 DEF IInv, TypeOK, GoodTicket, AssignmentFits
  <2>2. ~Permitted(u, "view") /\ ~Permitted(u, "assign")
    <3>1. "agent" \in Roles
      BY DEF Roles, MemberRoles
    <3> QED
      BY <3>1, RoleFacts DEF Permitted
  <2>3. ASSUME NEW v \in User, NEW status \in TicketStatuses, NEW hasReason,
               NEW takes, ChangeStatus(v, status, hasReason, takes)
        PROVE  ticket'.assigneeId = u
    <3>1. v = u
      BY <2>1, <2>3 DEF ChangeStatus, TellStatus
    <3>2. status = "discarded"
      BY <2>1, <2>2, <2>3, <3>1, NoOneAssumption
      DEF ChangeStatus, DiscardsFromQueue
    <3>3. ticket'.status = "discarded"
      BY <2>1, <2>3, <3>2 DEF ChangeStatus, AfterChangeStatus, TicketType
    <3> QED
      BY <3>3
  <2>4. ASSUME NEW v \in User, NEW who \in Users0, Assign(v, who)
        PROVE  ticket'.assigneeId = u
    <3>1. told'.by = v
      BY <2>1, <2>4 DEF Assign, TellAssignee
    <3> QED
      BY <2>1, <2>2, <2>4, <3>1, NoOneAssumption DEF Assign
  <2>5. ASSUME NEW v \in User, NEW status, Pickup(v, status)
        PROVE  ticket'.assigneeId = u
    BY <2>1, <2>5, AssigneeAfter DEF Pickup, TellBoth
  <2>6. ASSUME NEW v \in User, NEW target, NEW asked, NEW who,
               Reopen(v, target, asked, who)
        PROVE  FALSE
    BY <2>6 DEF Reopen, CanReopen, IsClosed, ClosedStatuses
  <2>7. CASE RequesterReopen
    BY <2>7 DEF RequesterReopen, CanRequesterReopen
  <2>8. ASSUME NEW v \in User, AcceptTransfer(v)
        PROVE  FALSE
    BY <2>8 DEF AcceptTransfer
  <2> QED
    BY <1>1, <2>3, <2>4, <2>5, <2>6, <2>7, <2>8, NextCases DEF vars
<1>2. AgentTakes <=>
        \A u \in User :
          /\ RoleOf(u) = "agent"
          /\ told'.by = u /\ told' # told
          /\ ticket.status = "open"
          /\ ticket'.status \notin {"open", "discarded"}
          => ticket'.assigneeId = u
  BY DEF AgentTakes
<1> QED
  BY <1>1, <1>2, AlwaysGood, PTL DEF Spec, AgentTakesWhatLeavesQueue

(***************************************************************************)
(* What followers are told.                                                *)
(***************************************************************************)

\* Whoever follows the status is behind by an accepted transfer at most.
THEOREM FollowersLagAtMost == Spec => []FollowersLag
<1>1. Init => FollowersLag
  BY DEF Init, StartsAs, FollowersLag, NewTicket
<1>2. ASSUME IInv, FollowersLag, [Next]_vars
      PROVE  FollowersLag'
  <2> USE <1>2 DEF FollowersLag
  <2>1. /\ ticket \in TicketType
        /\ told \in [status : TicketStatuses, assignee : Users0, by : User]
    BY DEF IInv, TypeOK
  <2>2. ASSUME NEW u \in User, NEW status, NEW hasReason, NEW takes,
               ChangeStatus(u, status, hasReason, takes)
        PROVE  FollowersLag'
    BY <2>1, <2>2 DEF ChangeStatus, TellStatus
  <2>3. ASSUME NEW u \in User, NEW who, Assign(u, who)
        PROVE  FollowersLag'
    BY <2>1, <2>3 DEF Assign, TellAssignee
  <2>4. ASSUME NEW t, NEW u, ticket' = t, TellBoth(t, u)
        PROVE  FollowersLag'
    BY <2>4 DEF TellBoth
  <2>5. ASSUME NEW u \in User, AcceptTransfer(u)
        PROVE  FollowersLag'
    BY <2>1, <2>5 DEF AcceptTransfer, AfterTransfer, TicketType
  <2>6. CASE UNCHANGED <<ticket, told>>
    BY <2>6
  <2>7. CASE Next
    <3>1. ASSUME NEW u \in User, NEW status, Pickup(u, status)
          PROVE  FollowersLag'
      BY <2>4, <3>1 DEF Pickup
    <3>2. ASSUME NEW u \in User, NEW target, NEW asked, NEW who,
                 Reopen(u, target, asked, who)
          PROVE  FollowersLag'
      BY <2>4, <3>2 DEF Reopen
    <3>3. CASE RequesterReopen
      BY <2>4, <3>3 DEF RequesterReopen
    <3> QED
      BY <2>2, <2>3, <2>5, <2>6, <2>7, <3>1, <3>2, <3>3, NextCases
  <2> QED
    BY <2>6, <2>7 DEF vars
<1> QED
  BY <1>1, <1>2, AlwaysGood, PTL DEF Spec

------------------------------------------------------------------------------
(***************************************************************************)
(* TicketImport, for any workers, files of elsewhere, titles and formats,  *)
(* and however many rows: the numbers, the references and the identities   *)
(* of the tickets of a workspace.                                          *)
(*                                                                         *)
(* The inductive invariant says what is known of every call under way:     *)
(* what an import read before it had the lock still finds the tickets of   *)
(* its file, and what is inserted under the lock is free.                  *)
(***************************************************************************)

\* Who waits for the lock has to go on waiting.
OneHolds ==
    \A v, w \in Worker : doing[v].step = "insert" /\ doing[w].step = "insert" => v = w

\* A ticket that was born here was born as the row that has its birth as id.
BornAs(birth) == birth \in Nat => birth \in Ids /\ tickets[birth].born = birth

\* Every number is of one ticket, and every reference as long as no save has put an old
\* one back.
RowsKnown ==
    /\ \A i, j \in Ids : tickets[i].number = tickets[j].number => i = j
    /\ \A i \in Ids : BornAs(tickets[i].born)
    /\ ~stale => \A i, j \in Ids :
         tickets[i].ref = tickets[j].ref /\ tickets[i].ref # NoRef => i = j

\* What was not created here is found by a link, and links say what it is.
LinksKnown ==
    /\ \A l \in links : tickets[l.target].born = l.source
    /\ \A i \in Live :
         tickets[i].born = i \/ \E l \in links : l.source = tickets[i].born /\ l.target = i

\* A file has a ticket once, and its reference too.
FileKnown(file) ==
    /\ \A t \in file : BornAs(t.born)
    /\ ~stale => \A t, u \in file : t.ref = u.ref /\ t.ref # NoRef => t = u
    /\ ~crossed => /\ \A t \in file : t.origin = t.born
                   /\ \A t, u \in file : t.born = u.born => t = u

\* What an import read before it has the lock lets it find every ticket of its file.
Recognized(call) ==
    /\ \A l \in call.links : tickets[l.target].born = l.source
    /\ \A t \in call.file, i \in Live : tickets[i].born = t.born =>
         \/ tickets[i].title = t.title \/ t.origin = i
         \/ \E l \in call.links : l.source = t.origin /\ l.target = i

\* Under the lock: numbers above all there are, references that nobody has,
NumbersFree(call) ==
    /\ \A i \in Ids : tickets[i].number <= call.number
    /\ \A n \in DOMAIN call.rows :
         /\ call.rows[n].number <= call.number
         /\ \A i \in Ids : tickets[i].number < call.rows[n].number
         /\ \A m \in DOMAIN call.rows : call.rows[m].number = call.rows[n].number => m = n

ReferencesFree(call) ==
    /\ References \subseteq call.taken
    /\ \A n \in DOMAIN call.rows :
         /\ call.rows[n].ref \in call.taken /\ call.rows[n].ref \notin References
         /\ \A m \in DOMAIN call.rows :
              call.rows[m].ref = call.rows[n].ref /\ call.rows[m].ref # NoRef => m = n

\* the references of the file as long as none of them is taken,
ReferencesBrought(call) ==
    (call.file # {} /\ \A t \in call.file : t.ref \notin References \union {NoRef}) =>
        /\ call.taken \subseteq References \union {t.ref : t \in call.file \ call.left}
        /\ \A n \in DOMAIN call.rows : \E t \in call.file :
             t.born = call.rows[n].born /\ t.ref = call.rows[n].ref

\* and tickets that are not there yet, with the links by which they will be found.
BirthsFree(call) ==
    /\ \A t \in call.left :
         /\ \A i \in Live : tickets[i].born # t.born
         /\ \A n \in DOMAIN call.rows : call.rows[n].born # t.born
    /\ \A n \in DOMAIN call.rows :
         /\ \A i \in Live : tickets[i].born # call.rows[n].born
         /\ \A m \in DOMAIN call.rows : call.rows[m].born = call.rows[n].born => m = n
         /\ \/ call.rows[n].born = Len(tickets) + n
            \/ \E l \in call.links : l.source = call.rows[n].born /\ l.target = Len(tickets) + n
    /\ \A l \in call.links :
         /\ l.target \in Ids => tickets[l.target].born = l.source
         /\ \A n \in DOMAIN call.rows : l.target = Len(tickets) + n => call.rows[n].born = l.source
         /\ \A i \in Live : tickets[i].born = l.source => l.target = i

CallKnown(call) ==
    /\ CallTyped(call)
    /\ call.step = "match" => FileKnown(call.file) /\ (~crossed => Recognized(call))
    /\ call.step = "insert" =>
         /\ FileKnown(call.file) /\ IsFiniteSet(call.taken) /\ NumbersFree(call)
         /\ \A n \in DOMAIN call.rows :
              call.rows[n].born = Len(tickets) + n \/ BornAs(call.rows[n].born)
         /\ ~stale => ReferencesFree(call) /\ ReferencesBrought(call)
         /\ ~crossed => BirthsFree(call)

ImportIInv ==
    /\ ImportTypeOK /\ OneHolds /\ RowsKnown
    /\ ~crossed => ImportedOnce /\ LinksKnown
    /\ \A w \in Worker : CallKnown(doing[w])

------------------------------------------------------------------------------
(***************************************************************************)
(* Numbers.                                                                *)
(***************************************************************************)
\* A finite set of numbers has a least one: the sets of what is no more than one of
\* them are well-founded under strict inclusion.
LEMMA LeastIs ==
    ASSUME NEW S, IsFiniteSet(S), S \subseteq Int, S # {}
    PROVE  \E x \in S : \A y \in S : x <= y
<1> DEFINE UpTo(x) == {y \in S : y <= x}
           T == {UpTo(x) : x \in S}
<1>1. IsWellFoundedOn(StrictSubsetOrdering(S), FiniteSubsetsOf(S))
  BY FS_StrictSubsetOrderingWellFounded
<1>2. T # {}
  OBVIOUS
<1>3. T \subseteq FiniteSubsetsOf(S)
  <2>1. \A x \in S : UpTo(x) \in SUBSET S /\ IsFiniteSet(UpTo(x))
    BY FS_Subset
  <2> QED
    BY <2>1 DEF FiniteSubsetsOf
<1>4. PICK A \in T : \A B \in T : <<B, A>> \notin StrictSubsetOrdering(S)
  <2> HIDE DEF T
  <2> QED
    BY <1>1, <1>2, <1>3, WFMin
<1>5. PICK x \in S : A = UpTo(x)
  BY <1>4
<1>6. ASSUME NEW y \in S, ~(x <= y) PROVE FALSE
  <2>1. x \in Int /\ y \in Int /\ ~(x <= y) /\ \A z \in S : z \in Int
    BY <1>6
  <2>2. x \in A /\ x \notin UpTo(y)
    BY <1>5, <2>1
  <2>3. ASSUME NEW z \in UpTo(y) PROVE z \in A
    <3>1. z \in S /\ z \in Int /\ z <= y
      BY <2>1
    <3>2. z <= x
      BY <2>1, <3>1
    <3> QED
      BY <1>5, <3>1, <3>2
  <2>4. UpTo(y) \in SUBSET S /\ A \in SUBSET S
    BY <1>5
  <2>5. <<UpTo(y), A>> \in StrictSubsetOrdering(S)
    <3> HIDE DEF UpTo
    <3> QED
      BY <2>2, <2>3, <2>4 DEF StrictSubsetOrdering
  <2> QED
    BY <1>4, <2>5
<1> QED
  BY <1>5, <1>6

LEMMA GreatestIs ==
    ASSUME NEW S, IsFiniteSet(S), S \subseteq Int, S # {}
    PROVE  \E x \in S : \A y \in S : x >= y
<1> DEFINE From(x) == {y \in S : y >= x}
           T == {From(x) : x \in S}
<1>1. IsWellFoundedOn(StrictSubsetOrdering(S), FiniteSubsetsOf(S))
  BY FS_StrictSubsetOrderingWellFounded
<1>2. T # {}
  OBVIOUS
<1>3. T \subseteq FiniteSubsetsOf(S)
  <2>1. \A x \in S : From(x) \in SUBSET S /\ IsFiniteSet(From(x))
    BY FS_Subset
  <2> QED
    BY <2>1 DEF FiniteSubsetsOf
<1>4. PICK A \in T : \A B \in T : <<B, A>> \notin StrictSubsetOrdering(S)
  <2> HIDE DEF T
  <2> QED
    BY <1>1, <1>2, <1>3, WFMin
<1>5. PICK x \in S : A = From(x)
  BY <1>4
<1>6. ASSUME NEW y \in S, ~(x >= y) PROVE FALSE
  <2>1. x \in Int /\ y \in Int /\ ~(x >= y) /\ \A z \in S : z \in Int
    BY <1>6
  <2>2. x \in A /\ x \notin From(y)
    BY <1>5, <2>1
  <2>3. ASSUME NEW z \in From(y) PROVE z \in A
    <3>1. z \in S /\ z \in Int /\ z >= y
      BY <2>1
    <3>2. z >= x
      BY <2>1, <3>1
    <3> QED
      BY <1>5, <3>1, <3>2
  <2>4. From(y) \in SUBSET S /\ A \in SUBSET S
    BY <1>5
  <2>5. <<From(y), A>> \in StrictSubsetOrdering(S)
    <3> HIDE DEF From
    <3> QED
      BY <2>2, <2>3, <2>4 DEF StrictSubsetOrdering
  <2> QED
    BY <1>4, <2>5
<1> QED
  BY <1>5, <1>6

\* One of the first numbers is free: there are more of them than references taken.
LEMMA NextFreeIs ==
    ASSUME NEW number \in Nat, NEW taken, IsFiniteSet(taken), NEW shown
    PROVE  /\ NextFree(number, taken, shown) \in Nat
           /\ NextFree(number, taken, shown) >= number
           /\ <<shown, NextFree(number, taken, shown)>> \notin taken
<1> DEFINE last == number + Cardinality(taken)
           Free == {n \in number..last : <<shown, n>> \notin taken}
<1>1. Cardinality(taken) \in Nat
  BY FS_CardinalityType
<1>2. IsFiniteSet(number..last) /\ Cardinality(number..last) = Cardinality(taken) + 1
  BY <1>1, FS_Interval
<1>3. Free # {}
  <2> SUFFICES ASSUME \A n \in number..last : <<shown, n>> \in taken PROVE FALSE
    OBVIOUS
  <2> DEFINE f == [n \in number..last |-> <<shown, n>>]
  <2>1. f \in [number..last -> taken] /\ \A m, n \in number..last : f[m] = f[n] => m = n
    OBVIOUS
  <2>2. PICK m \in number..last, n \in number..last : m # n /\ f[m] = f[n]
    <3> HIDE DEF f
    <3>1. Cardinality(taken) < Cardinality(number..last)
      BY <1>1, <1>2
    <3> QED
      BY <1>2, <2>1, <3>1, FS_PigeonHole
  <2> QED
    BY <2>1, <2>2
<1>4. Free \subseteq Int /\ IsFiniteSet(Free)
  <2>1. last \in Int /\ number..last \subseteq Int
    BY <1>1
  <2>2. Free \in SUBSET (number..last)
    OBVIOUS
  <2> QED
    <3> HIDE DEF Free, last
    <3> QED
      BY <1>2, <2>1, <2>2, FS_Subset
<1>5. \E x \in Free : \A y \in Free : x <= y
  <2> HIDE DEF Free
  <2> QED
    BY <1>3, <1>4, LeastIs
<1>6. Min(Free) \in Free
  BY <1>5 DEF Min
<1>7. NextFree(number, taken, shown) = Min(Free)
  BY DEF NextFree
<1> QED
  BY <1>1, <1>6, <1>7

LEMMA IdsAre ==
    ASSUME ImportTypeOK
    PROVE  /\ Len(tickets) \in Nat /\ Ids = 1..Len(tickets)
           /\ \A i \in Ids : tickets[i] \in RowType
           /\ IsFiniteSet(Numbers) /\ Numbers \subseteq Nat
           /\ IsFiniteSet(References)
<1>1. Len(tickets) \in Nat /\ Ids = 1..Len(tickets) /\ \A i \in Ids : tickets[i] \in RowType
  BY DEF ImportTypeOK, Ids
<1>2. IsFiniteSet(Ids)
  BY <1>1, FS_Interval
<1>3. IsFiniteSet(Numbers)
  <2> DEFINE f == [i \in Ids |-> tickets[i].number]
  <2>1. f \in Surjection(Ids, Numbers)
    BY DEF Surjection, Numbers
  <2> QED
    BY <1>2, <2>1, FS_Surjection
<1>4. IsFiniteSet(References)
  <2> DEFINE All == {tickets[i].ref : i \in Ids}
             f == [i \in Ids |-> tickets[i].ref]
  <2>1. f \in Surjection(Ids, All)
    BY DEF Surjection
  <2>2. IsFiniteSet(All)
    BY <1>2, <2>1, FS_Surjection
  <2>3. References \in SUBSET All
    BY DEF References
  <2> QED
    BY <2>2, <2>3, FS_Subset
<1>5. Numbers \subseteq Nat
  BY <1>1 DEF Numbers, RowType
<1> QED
  BY <1>1, <1>3, <1>4, <1>5

LEMMA MaxNumberIs ==
    ASSUME ImportTypeOK
    PROVE  MaxNumber \in Nat /\ \A i \in Ids : tickets[i].number <= MaxNumber
<1>1. IsFiniteSet(Numbers) /\ Numbers \subseteq Nat
      /\ \A i \in Ids : tickets[i].number \in Numbers
  BY IdsAre DEF Numbers
<1>2. CASE Numbers = {}
  BY <1>1, <1>2 DEF MaxNumber
<1>3. CASE Numbers # {}
  <2>1. \E x \in Numbers : \A y \in Numbers : x >= y
    BY <1>1, <1>3, GreatestIs
  <2>2. Max(Numbers) \in Numbers /\ \A y \in Numbers : Max(Numbers) >= y
    BY <2>1 DEF Max
  <2> QED
    BY <1>1, <1>3, <2>2 DEF MaxNumber
<1> QED
  BY <1>2, <1>3

------------------------------------------------------------------------------
(***************************************************************************)
(* Steps that only change what one worker is in the middle of.             *)
(***************************************************************************)
\* What is known of a call depends on the rows and the marks of what was overlooked.
LEMMA KnownStays ==
    ASSUME NEW c, CallKnown(c), UNCHANGED <<tickets, stale, crossed>>
    PROVE  CallKnown(c)'
<1>1. Ids' = Ids /\ Live' = Live /\ References' = References
  BY DEF Ids, Live, References
<1>2. CallTyped(c)'
  BY <1>1 DEF CallKnown, CallTyped
<1>3. ASSUME c.step = "match" PROVE (FileKnown(c.file) /\ (~crossed => Recognized(c)))'
  BY <1>1, <1>3 DEF CallKnown, FileKnown, BornAs, Recognized
<1>4. ASSUME c.step = "insert"
      PROVE  /\ (FileKnown(c.file) /\ IsFiniteSet(c.taken) /\ NumbersFree(c))'
             /\ (\A n \in DOMAIN c.rows :
                  c.rows[n].born = Len(tickets) + n \/ BornAs(c.rows[n].born))'
             /\ (~stale => ReferencesFree(c) /\ ReferencesBrought(c))'
             /\ (~crossed => BirthsFree(c))'
  <2>1. (FileKnown(c.file) /\ IsFiniteSet(c.taken) /\ NumbersFree(c))'
    BY <1>1, <1>4 DEF CallKnown, FileKnown, BornAs, NumbersFree
  <2>2. (\A n \in DOMAIN c.rows : c.rows[n].born = Len(tickets) + n \/ BornAs(c.rows[n].born))'
    BY <1>1, <1>4 DEF CallKnown, BornAs
  <2>3. (~stale => ReferencesFree(c) /\ ReferencesBrought(c))'
    BY <1>1, <1>4 DEF CallKnown, ReferencesFree, ReferencesBrought
  <2>4. (~crossed => BirthsFree(c))'
    BY <1>1, <1>4 DEF CallKnown, BirthsFree
  <2> QED
    BY <2>1, <2>2, <2>3, <2>4
<1> QED
  BY <1>2, <1>3, <1>4 DEF CallKnown

LEMMA CallKept ==
    ASSUME ImportIInv, NEW w \in Worker, NEW c, CallKnown(c), Goes(w, c),
           c.step = "insert" => Unlocked \/ doing[w].step = "insert",
           UNCHANGED <<tickets, links, format, stale, crossed>>
    PROVE  ImportIInv'
<1>1. DOMAIN doing' = Worker /\ doing'[w] = c /\ \A v \in Worker \ {w} : doing'[v] = doing[v]
  BY DEF ImportIInv, ImportTypeOK, Goes
<1>2. Ids' = Ids /\ Live' = Live
  BY DEF Ids, Live
<1>3. (\A v \in Worker : CallKnown(doing[v]))'
  <2> SUFFICES ASSUME NEW v \in Worker PROVE CallKnown(doing[v])'
    OBVIOUS
  <2>1. PICK d : d = doing'[v]
    OBVIOUS
  <2>2. CallKnown(d)
    BY <1>1, <2>1 DEF ImportIInv
  <2>3. CallKnown(d)'
    BY <2>2, KnownStays
  <2> QED
    BY <2>1, <2>3
<1>4. ImportTypeOK'
  BY <1>1, <1>2, <1>3 DEF ImportIInv, ImportTypeOK, CallKnown
<1>5. OneHolds'
  BY <1>1 DEF ImportIInv, OneHolds, Unlocked
<1>6. (RowsKnown /\ (~crossed => ImportedOnce /\ LinksKnown))'
  BY <1>2 DEF ImportIInv, RowsKnown, BornAs, ImportedOnce, LinksKnown
<1> QED
  BY <1>3, <1>4, <1>5, <1>6 DEF ImportIInv

LEMMA FormatKept ==
    ASSUME ImportIInv, format' \in Format, UNCHANGED <<tickets, links, doing, stale, crossed>>
    PROVE  ImportIInv'
<1>1. Ids' = Ids /\ Live' = Live
  BY DEF Ids, Live
<1>2. (\A v \in Worker : CallKnown(doing[v]))'
  <2> SUFFICES ASSUME NEW v \in Worker PROVE CallKnown(doing[v])'
    OBVIOUS
  <2>1. PICK d : d = doing[v]
    OBVIOUS
  <2>2. CallKnown(d)'
    BY <2>1, KnownStays DEF ImportIInv
  <2> QED
    BY <2>1, <2>2
<1>3. ImportTypeOK'
  BY <1>1, <1>2 DEF ImportIInv, ImportTypeOK, CallKnown
<1>4. OneHolds'
  BY DEF ImportIInv, OneHolds
<1>5. (RowsKnown /\ (~crossed => ImportedOnce /\ LinksKnown))'
  BY <1>1 DEF ImportIInv, RowsKnown, BornAs, ImportedOnce, LinksKnown
<1> QED
  BY <1>2, <1>3, <1>4, <1>5 DEF ImportIInv

LEMMA RollBackKeeps ==
    ASSUME ImportIInv, NEW w \in Worker, RollBack(w)
    PROVE  ImportIInv'
<1>1. PICK c : c = Idle
  OBVIOUS
<1>2. c.step = "idle"
  BY <1>1 DEF Idle
<1>3. CallKnown(c)
  BY <1>2 DEF CallKnown, CallTyped
<1> QED
  BY <1>1, <1>2, <1>3, CallKept DEF RollBack, Ends

LEMMA ReadTicketKeeps ==
    ASSUME ImportIInv, NEW w \in Worker, NEW i \in Ids, NEW title \in Title,
           ReadTicket(w, i, title)
    PROVE  ImportIInv'
<1>1. PICK c : c = Saving(i, title)
  OBVIOUS
<1>2. c.step = "save" /\ c.id = i /\ c.title = title /\ c.ref = tickets[i].ref
  BY <1>1 DEF Saving
<1>3. tickets[i].ref \in Refs
  BY IdsAre DEF ImportIInv, RowType
<1>4. CallKnown(c)
  BY <1>2, <1>3 DEF CallKnown, CallTyped
<1> QED
  BY <1>1, <1>2, <1>4, CallKept DEF ReadTicket

LEMMA ConvertBeginsKeeps ==
    ASSUME ImportIInv, NEW w \in Worker, ConvertBegins(w)
    PROVE  ImportIInv'
<1>1. PICK c : c = Rewriting
  OBVIOUS
<1>2. c.step = "rewrite" /\ c.to = format
  BY <1>1 DEF Rewriting
<1>3. CallKnown(c)
  BY <1>2 DEF CallKnown, CallTyped, ImportIInv, ImportTypeOK
<1> QED
  BY <1>1, <1>2, <1>3, CallKept DEF ConvertBegins

------------------------------------------------------------------------------
(***************************************************************************)
(* What is inserted under the lock.                                        *)
(***************************************************************************)
\* A creation takes a number above all there are and a reference nobody has.
LEMMA CreateKeeps ==
    ASSUME ImportIInv, NEW w \in Worker, Create(w)
    PROVE  ImportIInv'
<1> DEFINE N == NextFree(MaxNumber + 1, References, format)
<1>1. PICK c : c = Created
  OBVIOUS
<1>2. PICK number : number = N
  OBVIOUS
<1>3. PICK ref : ref = <<format, number>>
  OBVIOUS
<1>4. PICK none : none = {}
  OBVIOUS
<1>5. PICK row : row = Row(Len(tickets) + 1, FirstTitle, number, ref)
  OBVIOUS
<1>6. Len(tickets) \in Nat /\ Ids = 1..Len(tickets) /\ IsFiniteSet(References)
      /\ format \in Format /\ (\A i \in Ids : tickets[i] \in RowType)
  BY IdsAre DEF ImportIInv, ImportTypeOK
<1>7. MaxNumber \in Nat /\ \A i \in Ids : tickets[i].number <= MaxNumber
  BY MaxNumberIs DEF ImportIInv
<1>8. number \in Nat /\ number >= MaxNumber + 1 /\ ref \notin References
  <2>1. MaxNumber + 1 \in Nat
    BY <1>7
  <2> QED
    BY <1>2, <1>3, <1>6, <2>1, NextFreeIs
<1>9. c = Inserting(none, none, none, format, number, References \union {ref}, <<row>>)
  BY <1>1, <1>2, <1>3, <1>4, <1>5 DEF Created
<1>10. /\ c.step = "insert" /\ c.file = none /\ c.links = none /\ c.left = none
       /\ c.to = format /\ c.number = number /\ c.taken = References \union {ref}
       /\ c.rows = <<row>>
  BY <1>9 DEF Inserting
<1>11. /\ row.born = Len(tickets) + 1 /\ row.title = FirstTitle /\ row.number = number
       /\ row.ref = ref /\ row \in RowType
  <2>1. ref \in Refs
    BY <1>3, <1>6, <1>8 DEF Refs
  <2>2. Len(tickets) + 1 \in Births
    BY <1>6 DEF Births
  <2> QED
    BY <1>5, <1>8, <2>1, <2>2, TicketImportAssumption DEF Row, RowType
<1>12. DOMAIN c.rows = {1} /\ c.rows[1] = row /\ Len(c.rows) = 1 /\ c.rows \in Seq(RowType)
  BY <1>10, <1>11
<1>13. CallTyped(c)
  <2>1. References \subseteq Refs
    BY <1>6 DEF References, RowType
  <2>2. ref \in Refs
    BY <1>11 DEF RowType
  <2> QED
    BY <1>4, <1>6, <1>8, <1>10, <1>12, <2>1, <2>2 DEF CallTyped
<1>14. FileKnown(c.file) /\ IsFiniteSet(c.taken)
  <2>1. FileKnown(c.file)
    BY <1>4, <1>10 DEF FileKnown
  <2>2. IsFiniteSet(References \union {ref})
    BY <1>6, FS_AddElement
  <2> QED
    BY <1>10, <2>1, <2>2
<1>15. NumbersFree(c)
  <2>1. \A i \in Ids : tickets[i].number \in Nat
    BY <1>6 DEF RowType
  <2> QED
    BY <1>7, <1>8, <1>10, <1>11, <1>12, <2>1 DEF NumbersFree
<1>16. ReferencesFree(c) /\ ReferencesBrought(c)
  BY <1>4, <1>8, <1>10, <1>11, <1>12 DEF ReferencesFree, ReferencesBrought
<1>17. ~crossed => BirthsFree(c)
  <2>1. \A i \in Ids : tickets[i].born # Len(tickets) + 1
    BY <1>6 DEF ImportIInv, RowsKnown, BornAs
  <2> QED
    BY <1>4, <1>10, <1>11, <1>12, <2>1 DEF BirthsFree, Live
<1>18. CallKnown(c)
  BY <1>10, <1>11, <1>12, <1>13, <1>14, <1>15, <1>16, <1>17 DEF CallKnown
<1> QED
  BY <1>1, <1>18, CallKept DEF Create

\* An export has a ticket once, under the identity by which the links find it here.
LEMMA ExportIs ==
    ASSUME ImportIInv, NEW o \in Identities
    PROVE  /\ Export(o) \subseteq FileTicket /\ FileKnown(Export(o))
           /\ ~crossed => Recognized(Matching(Export(o)))
<1> DEFINE F(i) == [origin |-> o[i], born |-> tickets[i].born, title |-> tickets[i].title,
                    ref |-> tickets[i].ref, number |-> tickets[i].number]
<1>1. Export(o) = {F(i) : i \in Live}
  BY DEF Export
<1>2. \A i \in Live : /\ F(i).origin = o[i] /\ F(i).born = tickets[i].born
                      /\ F(i).title = tickets[i].title /\ F(i).ref = tickets[i].ref
  OBVIOUS
<1>3. \A i \in Live : i \in Ids /\ i \in Nat /\ tickets[i] \in RowType
  BY IdsAre DEF ImportIInv, Live
<1>4. \A i \in Live : o[i] \in Origins(i)
  BY DEF Identities
<1>5. \A i \in Live : \/ o[i] = i /\ \A l \in links : l.target # i
                      \/ \E l \in links : l.target = i /\ o[i] = l.source
  <2> SUFFICES ASSUME NEW i \in Live
               PROVE  \/ o[i] = i /\ \A l \in links : l.target # i
                      \/ \E l \in links : l.target = i /\ o[i] = l.source
    OBVIOUS
  <2> DEFINE mine == {l \in links : l.target = i}
  <2>1. CASE mine = {}
    BY <1>4, <2>1 DEF Origins
  <2>2. CASE mine # {}
    BY <1>4, <2>2 DEF Origins
  <2> QED
    BY <2>1, <2>2
<1>6. \A i \in Live : o[i] \in Births
  BY <1>3, <1>5 DEF ImportIInv, ImportTypeOK, Births
<1>7. \A i \in Live : F(i) \in FileTicket
  BY <1>3, <1>6 DEF FileTicket, RowType
<1>8. ~crossed => \A i \in Live : o[i] = tickets[i].born
  BY <1>3, <1>5 DEF ImportIInv, LinksKnown
<1> HIDE DEF F
<1>9. FileKnown(Export(o))
  <2>1. \A t \in Export(o) : BornAs(t.born)
    BY <1>1, <1>2, <1>3 DEF ImportIInv, RowsKnown
  <2>2. ~stale => \A t, u \in Export(o) : t.ref = u.ref /\ t.ref # NoRef => t = u
    BY <1>1, <1>2, <1>3 DEF ImportIInv, RowsKnown
  <2>3. ~crossed => /\ \A t \in Export(o) : t.origin = t.born
                    /\ \A t, u \in Export(o) : t.born = u.born => t = u
    BY <1>1, <1>2, <1>8 DEF ImportIInv, ImportedOnce
  <2> QED
    BY <2>1, <2>2, <2>3 DEF FileKnown
<1>10. ASSUME ~crossed PROVE Recognized(Matching(Export(o)))
  <2>1. PICK c : c = Matching(Export(o))
    OBVIOUS
  <2>2. c.file = Export(o) /\ c.links = links
    BY <2>1 DEF Matching
  <2>3. \A t \in c.file, i \in Live : tickets[i].born = t.born => tickets[i].title = t.title
    BY <1>1, <1>2, <1>10, <2>2 DEF ImportIInv, ImportedOnce
  <2> QED
    BY <1>10, <2>1, <2>2, <2>3 DEF ImportIInv, LinksKnown, Recognized
<1> QED
  BY <1>1, <1>7, <1>9, <1>10

\* What came from a file of elsewhere before is found by its link.
LEMMA SourceIs ==
    ASSUME ImportIInv
    PROVE  /\ SourceFile \subseteq FileTicket /\ FileKnown(SourceFile)
           /\ ~crossed => Recognized(Matching(SourceFile))
<1>1. \A t \in SourceFile : t.born = t.origin /\ t.born \notin Nat
  BY SourceAssumption
<1>2. FileKnown(SourceFile)
  BY <1>1, SourceAssumption DEF FileKnown, BornAs
<1>3. ASSUME ~crossed PROVE Recognized(Matching(SourceFile))
  <2>1. PICK c : c = Matching(SourceFile)
    OBVIOUS
  <2>2. c.file = SourceFile /\ c.links = links
    BY <2>1 DEF Matching
  <2>3. \A t \in c.file, i \in Live : tickets[i].born = t.born =>
          \E l \in c.links : l.source = t.origin /\ l.target = i
    <3>1. \A i \in Live : i \in Nat
      BY IdsAre DEF ImportIInv, Live
    <3> QED
      BY <1>1, <1>3, <2>2, <3>1 DEF ImportIInv, LinksKnown
  <2> QED
    BY <1>3, <2>1, <2>2, <2>3 DEF ImportIInv, LinksKnown, Recognized
<1> QED
  BY <1>2, <1>3, SourceAssumption

LEMMA ImportBeginsKeeps ==
    ASSUME ImportIInv, NEW w \in Worker, NEW file \in Files, ImportBegins(w, file)
    PROVE  ImportIInv'
<1>1. /\ file \subseteq FileTicket /\ FileKnown(file)
      /\ ~crossed => Recognized(Matching(file))
  <2>1. file = SourceFile \/ \E o \in Identities : file = Export(o)
    BY DEF Files
  <2> QED
    BY <2>1, ExportIs, SourceIs
<1>2. PICK c : c = Matching(file)
  OBVIOUS
<1>3. c.step = "match" /\ c.file = file /\ c.links = links
  BY <1>2 DEF Matching
<1>4. CallTyped(c)
  BY <1>1, <1>3 DEF ImportIInv, ImportTypeOK, CallTyped
<1>5. CallKnown(c)
  BY <1>1, <1>2, <1>3, <1>4 DEF CallKnown
<1> QED
  BY <1>2, <1>3, <1>5, CallKept DEF ImportBegins

\* What is not found is not there, and what is found is all there is of it.
LEMMA FoundIs ==
    ASSUME ImportIInv, NEW w \in Worker, doing[w].step = "match", NEW t \in doing[w].file
    PROVE  /\ Found(w, t) \subseteq Live
           /\ ~crossed => /\ \A i \in Found(w, t) : tickets[i].born = t.born
                          /\ Found(w, t) = {} => \A i \in Live : tickets[i].born # t.born
<1> DEFINE linked == {l.target : l \in {x \in doing[w].links : x.source = t.origin}} \cap Live
           own    == {t.origin} \cap Live
           same   == {i \in Live : tickets[i].born = t.born /\ tickets[i].title = t.title}
<1>1. Found(w, t) = IF linked # {} THEN linked ELSE IF own # {} THEN own ELSE same
  BY Zenon DEF Found
<1>2. Found(w, t) \subseteq Live
  BY <1>1
<1>3. ASSUME ~crossed
      PROVE  /\ \A i \in Found(w, t) : tickets[i].born = t.born
             /\ Found(w, t) = {} => \A i \in Live : tickets[i].born # t.born
  <2>1. FileKnown(doing[w].file) /\ Recognized(doing[w])
    BY <1>3 DEF ImportIInv, CallKnown
  <2>2. t.origin = t.born
    BY <1>3, <2>1 DEF FileKnown
  <2>3. \A i \in linked : tickets[i].born = t.born
    BY <2>1, <2>2 DEF Recognized
  <2>4. \A i \in own : tickets[i].born = t.born
    <3>1. own # {} => t.born \in Nat /\ own = {t.born}
      BY <2>2, IdsAre DEF ImportIInv, Live
    <3> QED
      BY <2>1, <3>1 DEF FileKnown, BornAs
  <2>5. ASSUME Found(w, t) = {}, NEW i \in Live, tickets[i].born = t.born PROVE FALSE
    <3>1. linked = {} /\ own = {} /\ same = {}
      BY <1>1, <2>5
    <3>2. tickets[i].title # t.title /\ t.origin # i
      BY <2>5, <3>1
    <3>3. PICK l \in doing[w].links : l.source = t.origin /\ l.target = i
      BY <2>1, <2>5, <3>2 DEF Recognized
    <3> QED
      BY <2>5, <3>1, <3>3
  <2> QED
    BY <1>1, <2>3, <2>4, <2>5
<1> QED
  BY <1>2, <1>3

LEMMA ImportMatchesKeeps ==
    ASSUME ImportIInv, NEW w \in Worker, ImportMatches(w)
    PROVE  ImportIInv'
<1>1. doing[w].step = "match" /\ Unlocked /\ UNCHANGED <<tickets, links, format, stale, crossed>>
  BY DEF ImportMatches
<1>2. PICK found \in [doing[w].file -> Ids \union {0}] :
        /\ \A t \in doing[w].file :
             found[t] \in IF Found(w, t) = {} THEN {0} ELSE Found(w, t)
        /\ LET file    == doing[w].file
               missing == {t \in file : found[t] = 0}
               matched == {[source |-> t.origin, target |-> found[t]] : t \in file \ missing}
           IN  /\ Len(tickets) + Cardinality(missing) <= MaxTickets
               /\ Goes(w, Inserting(file, matched, missing, NoFormat, MaxNumber, References, <<>>))
  BY Zenon DEF ImportMatches
<1>3. PICK file : file = doing[w].file
  OBVIOUS
<1>4. PICK missing : missing = {t \in file : found[t] = 0}
  OBVIOUS
<1>5. PICK matched :
        matched = {[source |-> t.origin, target |-> found[t]] : t \in file \ missing}
  OBVIOUS
<1>6. PICK none : none = <<>>
  OBVIOUS
<1>7. PICK c : c = Inserting(file, matched, missing, NoFormat, MaxNumber, References, none)
  OBVIOUS
<1>8. Goes(w, c)
  BY <1>2, <1>3, <1>4, <1>5, <1>6, <1>7
<1>9. /\ c.step = "insert" /\ c.file = file /\ c.links = matched /\ c.left = missing
      /\ c.to = NoFormat /\ c.number = MaxNumber /\ c.taken = References /\ c.rows = none
  BY <1>7 DEF Inserting
<1>10. /\ Len(tickets) \in Nat /\ Ids = 1..Len(tickets) /\ IsFiniteSet(References)
       /\ \A i \in Ids : tickets[i] \in RowType
  BY IdsAre DEF ImportIInv
<1>11. MaxNumber \in Nat /\ \A i \in Ids : tickets[i].number <= MaxNumber
  BY MaxNumberIs DEF ImportIInv
<1>12. FileKnown(file) /\ file \subseteq FileTicket
  BY <1>1, <1>3 DEF ImportIInv, CallKnown, CallTyped
<1>13. \A t \in file \ missing : found[t] \in Found(w, t) /\ found[t] \in Live /\ found[t] \in Ids
  <2> SUFFICES ASSUME NEW t \in file \ missing
               PROVE  found[t] \in Found(w, t) /\ found[t] \in Live
    BY DEF Live
  <2>1. found[t] # 0
    BY <1>4
  <2>2. found[t] \in Found(w, t)
    BY <1>2, <1>3, <2>1
  <2> QED
    BY <1>1, <1>3, <2>2, FoundIs
<1>14. \A t \in missing : t \in file /\ Found(w, t) = {}
  <2> SUFFICES ASSUME NEW t \in missing, Found(w, t) # {} PROVE FALSE
    BY <1>4
  <2>1. t \in file /\ found[t] = 0
    BY <1>4
  <2>2. 0 \in Live
    BY <1>1, <1>2, <1>3, <2>1, FoundIs
  <2> QED
    BY <1>10, <2>2 DEF Live
<1>15. \A l \in matched : \E t \in file \ missing : l.source = t.origin /\ l.target = found[t]
  BY <1>5
<1>16. DOMAIN c.rows = {} /\ Len(c.rows) = 0 /\ c.rows \in Seq(RowType)
  BY <1>6, <1>9
<1>17. CallTyped(c)
  <2>1. References \subseteq Refs
    BY <1>10 DEF References, RowType
  <2>2. \A l \in matched : l.source \in Births /\ l.target \in Ids
    <3>1. \A t \in file : t.origin \in Births
      BY <1>12 DEF FileTicket
    <3> QED
      BY <1>13, <1>15, <3>1
  <2>3. missing \subseteq file
    BY <1>4
  <2> QED
    BY <1>9, <1>10, <1>11, <1>12, <1>16, <2>1, <2>2, <2>3 DEF CallTyped
<1>18. NumbersFree(c) /\ ReferencesFree(c) /\ ReferencesBrought(c)
  BY <1>9, <1>11, <1>16 DEF NumbersFree, ReferencesFree, ReferencesBrought
<1>19. ASSUME ~crossed PROVE BirthsFree(c)
  <2>1. \A t \in missing : \A i \in Live : tickets[i].born # t.born
    BY <1>1, <1>3, <1>14, <1>19, FoundIs
  <2>2. \A t \in file \ missing : tickets[found[t]].born = t.born
    BY <1>1, <1>3, <1>13, <1>19, FoundIs
  <2>3. \A t \in file : t.origin = t.born
    BY <1>12, <1>19 DEF FileKnown
  <2>4. ASSUME NEW l \in matched
        PROVE  /\ tickets[l.target].born = l.source
               /\ \A i \in Live : tickets[i].born = l.source => l.target = i
    <3>1. PICK t \in file \ missing : l.source = t.origin /\ l.target = found[t]
      BY <1>15
    <3>2. tickets[l.target].born = l.source /\ l.target \in Live
      BY <1>13, <2>2, <2>3, <3>1
    <3> QED
      BY <1>19, <3>2 DEF ImportIInv, ImportedOnce
  <2> QED
    BY <1>9, <1>16, <2>1, <2>4 DEF BirthsFree
<1>20. CallKnown(c)
  BY <1>9, <1>10, <1>12, <1>16, <1>17, <1>18, <1>19 DEF CallKnown
<1> QED
  BY <1>1, <1>8, <1>20, CallKept

\* A ticket of the file gets a number above all before it, and the reference it had or
\* one that is free.
LEMMA InsertedIs ==
    ASSUME ImportIInv, NEW d, CallKnown(d), d.step = "insert", NEW t \in d.left
    PROVE  CallKnown(Inserted(d, t))
<1> DEFINE Shown == IF d.to = NoFormat THEN format ELSE d.to
           Number == IF Keeps(d, t) THEN d.number + 1
                     ELSE NextFree(d.number + 1, d.taken, Shown)
           Ref == IF Keeps(d, t) THEN t.ref ELSE <<Shown, Number>>
           To == IF Keeps(d, t) THEN d.to ELSE Shown
           Id == Len(tickets) + Len(d.rows) + 1
<1>1. PICK shown : shown = Shown
  OBVIOUS
<1>2. PICK number : number = Number
  OBVIOUS
<1>3. PICK ref : ref = Ref
  OBVIOUS
<1>4. PICK to : to = To
  OBVIOUS
<1>5. PICK id : id = Id
  OBVIOUS
<1>6. PICK row : row = Row(t.born, t.title, number, ref)
  OBVIOUS
<1>7. PICK link : link = [source |-> t.origin, target |-> id]
  OBVIOUS
<1>8. PICK c : c = Inserted(d, t)
  OBVIOUS
<1>9. c = Inserting(d.file, d.links \union {link}, d.left \ {t}, to, number,
                    d.taken \union {ref}, Append(d.rows, row))
  BY <1>1, <1>2, <1>3, <1>4, <1>5, <1>6, <1>7, <1>8, Zenon DEF Inserted
<1>10. /\ c.step = "insert" /\ c.file = d.file /\ c.links = d.links \union {link}
       /\ c.left = d.left \ {t} /\ c.to = to /\ c.number = number
       /\ c.taken = d.taken \union {ref} /\ c.rows = Append(d.rows, row)
  BY <1>9 DEF Inserting
<1>11. /\ Len(tickets) \in Nat /\ Ids = 1..Len(tickets)
       /\ format \in Format /\ (\A i \in Ids : tickets[i] \in RowType)
  BY IdsAre DEF ImportIInv, ImportTypeOK
<1>12. /\ d.file \subseteq FileTicket /\ d.left \subseteq d.file /\ t \in d.file
       /\ d.to \in Format \union {NoFormat} /\ d.number \in Nat
       /\ d.taken \subseteq Refs /\ d.rows \in Seq(RowType)
       /\ \A l \in d.links :
            l.source \in Births /\ l.target \in 1..(Len(tickets) + Len(d.rows))
       /\ FileKnown(d.file) /\ IsFiniteSet(d.taken) /\ NumbersFree(d)
       /\ \A n \in DOMAIN d.rows : d.rows[n].born = Len(tickets) + n \/ BornAs(d.rows[n].born)
  BY DEF CallKnown, CallTyped
<1>13. /\ t.origin \in Births /\ t.born \in Births /\ t.title \in Title /\ t.ref \in Refs
  BY <1>12 DEF FileTicket
<1>14. shown \in Format /\ to \in Format \union {NoFormat}
  BY <1>1, <1>4, <1>11, <1>12
<1>15. number \in Nat /\ number > d.number /\ ref \in Refs /\ ref \notin d.taken
  <2>1. CASE Keeps(d, t)
    BY <1>2, <1>3, <1>12, <1>13, <2>1 DEF Keeps
  <2>2. CASE ~Keeps(d, t)
    <3>1. PICK next : next = d.number + 1
      OBVIOUS
    <3>2. PICK taken : taken = d.taken
      OBVIOUS
    <3>3. next \in Nat /\ IsFiniteSet(taken)
      BY <1>12, <3>1, <3>2
    <3>4. /\ NextFree(next, taken, shown) \in Nat /\ NextFree(next, taken, shown) >= next
          /\ <<shown, NextFree(next, taken, shown)>> \notin taken
      BY <3>3, NextFreeIs
    <3>5. number = NextFree(next, taken, shown) /\ ref = <<shown, number>>
      BY <1>1, <1>2, <1>3, <2>2, <3>1, <3>2
    <3>6. ref \in Refs
      BY <1>14, <3>4, <3>5 DEF Refs
    <3> QED
      BY <1>12, <3>1, <3>2, <3>4, <3>5, <3>6
  <2> QED
    BY <2>1, <2>2
<1>16. /\ row.born = t.born /\ row.title = t.title /\ row.number = number
       /\ row.ref = ref /\ row \in RowType
  BY <1>6, <1>13, <1>15 DEF Row, RowType
<1>17. link.source = t.origin /\ link.target = id
  BY <1>7
<1> HIDE DEF Shown, Number, Ref, To
<1>18. Len(d.rows) \in Nat /\ DOMAIN d.rows = 1..Len(d.rows) /\ id = Len(tickets) + (Len(d.rows) + 1)
  BY <1>5, <1>11, <1>12
<1>19. /\ c.rows \in Seq(RowType) /\ Len(c.rows) = Len(d.rows) + 1
       /\ DOMAIN c.rows = DOMAIN d.rows \union {Len(d.rows) + 1}
       /\ c.rows[Len(d.rows) + 1] = row
       /\ \A n \in DOMAIN d.rows : c.rows[n] = d.rows[n]
       /\ \A n \in DOMAIN d.rows : n # Len(d.rows) + 1 /\ n \in Nat /\ n <= Len(d.rows)
  BY <1>10, <1>12, <1>16, <1>18
<1>20. CallTyped(c)
  <2>1. \A l \in c.links : l.source \in Births /\ l.target \in 1..(Len(tickets) + Len(c.rows))
    <3>1. \A l \in d.links : l.target \in 1..(Len(tickets) + Len(c.rows))
      BY <1>11, <1>12, <1>18, <1>19
    <3>2. id \in 1..(Len(tickets) + Len(c.rows))
      BY <1>11, <1>18, <1>19
    <3> QED
      BY <1>10, <1>12, <1>13, <1>17, <3>1, <3>2
  <2>2. c.left \subseteq c.file /\ c.taken \subseteq Refs
    BY <1>10, <1>12, <1>15
  <2> QED
    BY <1>10, <1>12, <1>14, <1>15, <1>19, <2>1, <2>2 DEF CallTyped
<1>21. FileKnown(c.file) /\ IsFiniteSet(c.taken)
  <2>1. PICK taken : taken = d.taken
    OBVIOUS
  <2>2. IsFiniteSet(taken \union {ref})
    BY <1>12, <2>1, FS_AddElement
  <2>3. c.taken = taken \union {ref} /\ c.file = d.file
    BY <1>10, <2>1
  <2> QED
    BY <1>12, <2>2, <2>3
<1>22. NumbersFree(c)
  <2>1. /\ \A i \in Ids : tickets[i].number \in Nat /\ tickets[i].number <= d.number
        /\ \A n \in DOMAIN d.rows : d.rows[n].number \in Nat /\ d.rows[n].number < number
    <3>1. \A i \in Ids : tickets[i].number \in Nat
      BY <1>11 DEF RowType
    <3>2. \A n \in DOMAIN d.rows : d.rows[n] \in RowType
      BY <1>12
    <3>3. \A n \in DOMAIN d.rows : d.rows[n].number \in Nat
      BY <3>2 DEF RowType
    <3>4. /\ \A i \in Ids : tickets[i].number <= d.number
          /\ \A n \in DOMAIN d.rows : d.rows[n].number <= d.number
      BY <1>12 DEF NumbersFree
    <3>5. \A n \in DOMAIN d.rows : d.rows[n].number < number
      BY <1>12, <1>15, <3>3, <3>4
    <3> QED
      BY <3>1, <3>3, <3>4, <3>5
  <2>2. \A i \in Ids : tickets[i].number <= number /\ tickets[i].number < number
    BY <1>12, <1>15, <2>1
  <2>3. \A n \in DOMAIN c.rows : c.rows[n].number <= number
    BY <1>12, <1>15, <1>16, <1>19, <2>1
  <2>4. \A n \in DOMAIN c.rows : \A i \in Ids : tickets[i].number < c.rows[n].number
    BY <1>12, <1>16, <1>19, <2>2 DEF NumbersFree
  <2>5. \A n, m \in DOMAIN c.rows : c.rows[m].number = c.rows[n].number => m = n
    <3>1. \A n \in DOMAIN d.rows : c.rows[n].number # number
      BY <1>15, <1>19, <2>1
    <3> QED
      BY <1>12, <1>16, <1>19, <3>1 DEF NumbersFree
  <2> QED
    BY <1>10, <2>2, <2>3, <2>4, <2>5 DEF NumbersFree
<1>23. \A n \in DOMAIN c.rows : c.rows[n].born = Len(tickets) + n \/ BornAs(c.rows[n].born)
  <2>1. BornAs(t.born)
    BY <1>12 DEF FileKnown
  <2> QED
    BY <1>12, <1>16, <1>19, <2>1
<1>24. ASSUME ~stale PROVE ReferencesFree(c)
  <2>1. ReferencesFree(d)
    BY <1>24 DEF CallKnown
  <2>2. References \subseteq c.taken /\ d.taken \subseteq c.taken /\ ref \in c.taken
        /\ ref \notin References
    BY <1>10, <1>15, <2>1 DEF ReferencesFree
  <2>3. \A n \in DOMAIN c.rows : c.rows[n].ref \in c.taken /\ c.rows[n].ref \notin References
    BY <1>16, <1>19, <2>1, <2>2 DEF ReferencesFree
  <2>4. \A n \in DOMAIN d.rows : c.rows[n].ref # ref
    BY <1>15, <1>19, <2>1 DEF ReferencesFree
  <2>5. \A n, m \in DOMAIN c.rows :
          c.rows[m].ref = c.rows[n].ref /\ c.rows[m].ref # NoRef => m = n
    BY <1>16, <1>19, <2>1, <2>4 DEF ReferencesFree
  <2> QED
    BY <2>2, <2>3, <2>5 DEF ReferencesFree
<1>25. ASSUME ~stale PROVE ReferencesBrought(c)
  <2> SUFFICES ASSUME c.file # {}, \A u \in c.file : u.ref \notin References \union {NoRef}
               PROVE  /\ c.taken \subseteq References \union {u.ref : u \in c.file \ c.left}
                      /\ \A n \in DOMAIN c.rows : \E u \in c.file :
                           u.born = c.rows[n].born /\ u.ref = c.rows[n].ref
    BY DEF ReferencesBrought
  <2>1. /\ d.taken \subseteq References \union {u.ref : u \in d.file \ d.left}
        /\ \A n \in DOMAIN d.rows : \E u \in d.file :
             u.born = d.rows[n].born /\ u.ref = d.rows[n].ref
    BY <1>10, <1>25 DEF CallKnown, ReferencesBrought
  <2>2. t.ref # NoRef /\ t.ref \notin References /\ \A u \in d.file \ d.left : t.ref # u.ref
    BY <1>10, <1>12, <1>25 DEF FileKnown
  <2>3. Keeps(d, t)
    BY <2>1, <2>2 DEF Keeps
  <2>4. ref = t.ref
    BY <1>3, <2>3 DEF Ref
  <2>5. t \in c.file \ c.left
    BY <1>10, <1>12
  <2>6. c.taken \subseteq References \union {u.ref : u \in c.file \ c.left}
    BY <1>10, <2>1, <2>4, <2>5
  <2>7. \A n \in DOMAIN c.rows : \E u \in c.file :
          u.born = c.rows[n].born /\ u.ref = c.rows[n].ref
    BY <1>10, <1>12, <1>16, <1>19, <2>1, <2>4
  <2> QED
    BY <2>6, <2>7
<1>26. ASSUME ~crossed PROVE BirthsFree(c)
  <2>1. BirthsFree(d)
    BY <1>26 DEF CallKnown
  <2>2. t.origin = t.born /\ \A u \in d.left \ {t} : u.born # t.born
    BY <1>12, <1>26 DEF FileKnown
  <2>3. /\ \A i \in Live : tickets[i].born # t.born
        /\ \A n \in DOMAIN d.rows : d.rows[n].born # t.born
    BY <2>1 DEF BirthsFree
  <2>4. \A u \in c.left : /\ \A i \in Live : tickets[i].born # u.born
                          /\ \A n \in DOMAIN c.rows : c.rows[n].born # u.born
    BY <1>10, <1>16, <1>19, <2>1, <2>2 DEF BirthsFree
  <2>5. \A n \in DOMAIN c.rows :
          /\ \A i \in Live : tickets[i].born # c.rows[n].born
          /\ \A m \in DOMAIN c.rows : c.rows[m].born = c.rows[n].born => m = n
    BY <1>16, <1>19, <2>1, <2>3 DEF BirthsFree
  <2>6. \A n \in DOMAIN c.rows :
          \/ c.rows[n].born = Len(tickets) + n
          \/ \E l \in c.links : l.source = c.rows[n].born /\ l.target = Len(tickets) + n
    BY <1>10, <1>16, <1>17, <1>18, <1>19, <2>1, <2>2 DEF BirthsFree
  <2>7. ASSUME NEW l \in c.links
        PROVE  /\ l.target \in Ids => tickets[l.target].born = l.source
               /\ \A n \in DOMAIN c.rows :
                    l.target = Len(tickets) + n => c.rows[n].born = l.source
               /\ \A i \in Live : tickets[i].born = l.source => l.target = i
    <3>1. CASE l \in d.links
      <4>1. l.target # id
        BY <1>11, <1>12, <1>18, <3>1
      <4>2. /\ l.target \in Ids => tickets[l.target].born = l.source
            /\ \A n \in DOMAIN d.rows :
                 l.target = Len(tickets) + n => d.rows[n].born = l.source
            /\ \A i \in Live : tickets[i].born = l.source => l.target = i
        BY <2>1, <3>1 DEF BirthsFree
      <4>3. \A n \in DOMAIN c.rows : l.target = Len(tickets) + n => n \in DOMAIN d.rows
        BY <1>18, <1>19, <4>1
      <4> QED
        BY <1>19, <4>2, <4>3
    <3>2. CASE l = link
      <4>1. id \notin Ids
        BY <1>11, <1>18
      <4>2. \A n \in DOMAIN c.rows : id = Len(tickets) + n => n = Len(d.rows) + 1
        BY <1>11, <1>18, <1>19
      <4> QED
        BY <1>16, <1>17, <1>19, <2>2, <2>3, <3>2, <4>1, <4>2
    <3> QED
      BY <1>10, <3>1, <3>2
  <2> QED
    BY <2>4, <2>5, <2>6, <2>7 DEF BirthsFree
<1>27. CallKnown(c)
  BY <1>10, <1>20, <1>21, <1>22, <1>23, <1>24, <1>25, <1>26 DEF CallKnown
<1> QED
  BY <1>8, <1>27

LEMMA InsertKeeps ==
    ASSUME ImportIInv, NEW w \in Worker, Insert(w)
    PROVE  ImportIInv'
<1>1. PICK d : d = doing[w]
  OBVIOUS
<1>2. PICK t \in d.left : Goes(w, Inserted(d, t))
  BY <1>1 DEF Insert
<1>3. CallKnown(d) /\ d.step = "insert"
  BY <1>1 DEF ImportIInv, Insert
<1>4. PICK c : c = Inserted(d, t)
  OBVIOUS
<1>5. CallKnown(c)
  BY <1>3, <1>4, InsertedIs
<1> QED
  BY <1>1, <1>2, <1>3, <1>4, <1>5, CallKept DEF Insert

------------------------------------------------------------------------------
(***************************************************************************)
(* Steps that change rows there are: saves, deletions and conversions.     *)
(***************************************************************************)
\* A row keeps its number and its birth.  References do not change under the lock except
\* for a save that puts an old one back, and who is about to look for a ticket finds it
\* under its new name, or this is marked.
LEMMA RowsKept ==
    ASSUME ImportIInv, tickets' \in Seq(RowType), Len(tickets') = Len(tickets),
           \A i \in Ids : tickets'[i].born = tickets[i].born
                          /\ tickets'[i].number = tickets[i].number,
           Live' \subseteq Live, UNCHANGED <<links, format>>,
           stale' \in BOOLEAN, ~stale' => ~stale, crossed' \in BOOLEAN, ~crossed' => ~crossed,
           ~stale' => \A i, j \in Ids :
             tickets'[i].ref = tickets'[j].ref /\ tickets'[i].ref # NoRef => i = j,
           ~stale' => Unlocked \/ References' = References,
           ~crossed' => \A i \in Ids :
             tickets'[i].title = tickets[i].title
             \/ ~Unknown(i, tickets[i].born, tickets'[i].title),
           DOMAIN doing' = Worker,
           \A v \in Worker : doing'[v] = doing[v] \/ doing'[v] = Idle
    PROVE  ImportIInv'
<1>1. /\ Len(tickets) \in Nat /\ Ids = 1..Len(tickets) /\ Ids' = Ids /\ Live' \subseteq Live
      /\ \A i \in Live : i \in Ids
  <2>1. Ids' = 1..Len(tickets')
    BY DEF Ids
  <2> QED
    BY <2>1, IdsAre DEF ImportIInv, Live
<1>2. RowsKnown'
  BY <1>1 DEF ImportIInv, RowsKnown, BornAs
<1>3. ASSUME ~crossed' PROVE (ImportedOnce /\ LinksKnown)'
  <2>1. ImportedOnce'
    BY <1>1, <1>3 DEF ImportIInv, ImportedOnce
  <2>2. \A l \in links : l.target \in Ids
    BY DEF ImportIInv, ImportTypeOK
  <2>3. LinksKnown'
    BY <1>1, <1>3, <2>2 DEF ImportIInv, LinksKnown
  <2> QED
    BY <2>1, <2>3
<1>4. ASSUME NEW v \in Worker, doing'[v] = doing[v] PROVE CallKnown(doing[v])'
  <2>1. PICK c : c = doing[v]
    OBVIOUS
  <2>2. CallKnown(c)
    BY <2>1 DEF ImportIInv
  <2>3. CallTyped(c)'
    BY <1>1, <2>2 DEF CallKnown, CallTyped
  <2>4. ASSUME c.step \in {"match", "insert"} PROVE FileKnown(c.file)'
    BY <1>1, <2>2, <2>4 DEF CallKnown, FileKnown, BornAs
  <2>5. ASSUME c.step = "match", ~crossed' PROVE Recognized(c)'
    <3>1. Recognized(c) /\ \A t \in c.file : t.origin = t.born
      BY <2>2, <2>5 DEF CallKnown, FileKnown
    <3>2. \A l \in c.links : l.target \in Ids
      BY <2>2, <2>5 DEF CallKnown, CallTyped
    <3>3. \A l \in c.links : tickets'[l.target].born = l.source
      BY <3>1, <3>2 DEF Recognized
    <3>4. ASSUME NEW t \in c.file, NEW i \in Live', tickets'[i].born = t.born
          PROVE  \/ tickets'[i].title = t.title \/ t.origin = i
                 \/ \E l \in c.links : l.source = t.origin /\ l.target = i
      <4>1. i \in Live /\ i \in Ids /\ tickets[i].born = t.born
        BY <1>1, <3>4
      <4>2. CASE tickets'[i].title = tickets[i].title
        BY <3>1, <4>1, <4>2 DEF Recognized
      <4>3. CASE ~Unknown(i, tickets[i].born, tickets'[i].title)
        <5>1. \/ \E l \in c.links : l.target = i
              \/ \A u \in c.file : ~(u.born = tickets[i].born /\ u.title # tickets'[i].title)
          BY <2>1, <2>5, <4>3 DEF Unknown
        <5> QED
          BY <3>1, <4>1, <5>1 DEF Recognized
      <4> QED
        BY <2>5, <4>1, <4>2, <4>3
    <3> QED
      BY <3>3, <3>4 DEF Recognized
  <2>6. ASSUME c.step = "insert" PROVE NumbersFree(c)'
    BY <1>1, <2>2, <2>6 DEF CallKnown, NumbersFree
  <2>7. ASSUME c.step = "insert"
        PROVE  (\A n \in DOMAIN c.rows :
                  c.rows[n].born = Len(tickets) + n \/ BornAs(c.rows[n].born))'
    BY <1>1, <2>2, <2>7 DEF CallKnown, BornAs
  <2>8. ASSUME c.step = "insert", ~stale' PROVE (ReferencesFree(c) /\ ReferencesBrought(c))'
    <3>1. References' = References
      BY <2>1, <2>8 DEF Unlocked
    <3> QED
      BY <2>2, <2>8, <3>1 DEF CallKnown, ReferencesFree, ReferencesBrought
  <2>9. ASSUME c.step = "insert", ~crossed' PROVE BirthsFree(c)'
    <3>1. BirthsFree(c)
      BY <2>2, <2>9 DEF CallKnown
    <3>2. \A i \in Live' : i \in Live /\ tickets'[i].born = tickets[i].born
      BY <1>1
    <3>3. (\A t \in c.left :
             /\ \A i \in Live : tickets[i].born # t.born
             /\ \A n \in DOMAIN c.rows : c.rows[n].born # t.born)'
      BY <3>1, <3>2 DEF BirthsFree
    <3>4. (\A n \in DOMAIN c.rows :
             /\ \A i \in Live : tickets[i].born # c.rows[n].born
             /\ \A m \in DOMAIN c.rows : c.rows[m].born = c.rows[n].born => m = n
             /\ \/ c.rows[n].born = Len(tickets) + n
                \/ \E l \in c.links : l.source = c.rows[n].born /\ l.target = Len(tickets) + n)'
      BY <3>1, <3>2 DEF BirthsFree
    <3>5. (\A l \in c.links :
             /\ l.target \in Ids => tickets[l.target].born = l.source
             /\ \A n \in DOMAIN c.rows : l.target = Len(tickets) + n => c.rows[n].born = l.source
             /\ \A i \in Live : tickets[i].born = l.source => l.target = i)'
      BY <1>1, <3>1, <3>2 DEF BirthsFree
    <3> QED
      BY <3>3, <3>4, <3>5 DEF BirthsFree
  <2>10. CallKnown(c)'
    BY <2>2, <2>3, <2>4, <2>5, <2>6, <2>7, <2>8, <2>9 DEF CallKnown
  <2> QED
    BY <1>4, <2>1, <2>10
<1>5. (\A v \in Worker : CallKnown(doing[v]))'
  <2> SUFFICES ASSUME NEW v \in Worker PROVE CallKnown(doing[v])'
    OBVIOUS
  <2>1. CASE doing'[v] = doing[v]
    BY <1>4, <2>1
  <2>2. CASE doing'[v] = Idle
    <3>1. doing'[v].step = "idle"
      BY <2>2 DEF Idle
    <3> QED
      BY <3>1 DEF CallKnown, CallTyped
  <2> QED
    BY <2>1, <2>2
<1>6. ImportTypeOK'
  BY <1>1, <1>5 DEF ImportIInv, ImportTypeOK, CallKnown
<1>7. OneHolds'
  <2>1. Idle.step = "idle"
    BY DEF Idle
  <2> QED
    BY <2>1 DEF ImportIInv, OneHolds
<1> QED
  BY <1>2, <1>3, <1>5, <1>6, <1>7 DEF ImportIInv

LEMMA SoftDeleteKeeps ==
    ASSUME ImportIInv, NEW i \in Ids, SoftDelete(i)
    PROVE  ImportIInv'
<1>1. PICK yes : yes = TRUE
  OBVIOUS
<1>2. tickets' = [tickets EXCEPT ![i].deleted = yes] /\ i \in Live
      /\ UNCHANGED <<links, format, doing, stale, crossed>>
  BY <1>1 DEF SoftDelete
<1>3. tickets \in Seq(RowType) /\ i \in DOMAIN tickets /\ tickets[i] \in RowType
  BY IdsAre DEF ImportIInv, ImportTypeOK, Ids
<1>4. PICK new : new = [tickets[i] EXCEPT !.deleted = yes]
  OBVIOUS
<1>5. /\ new.born = tickets[i].born /\ new.title = tickets[i].title /\ new.ref = tickets[i].ref
      /\ new.number = tickets[i].number /\ new.deleted = yes /\ new \in RowType
  BY <1>1, <1>3, <1>4 DEF RowType
<1>6. tickets' = [tickets EXCEPT ![i] = new]
  BY <1>2, <1>4
<1>7. /\ tickets' \in Seq(RowType) /\ Len(tickets') = Len(tickets)
      /\ DOMAIN tickets' = DOMAIN tickets /\ tickets'[i] = new
      /\ \A j \in Ids : j # i => tickets'[j] = tickets[j]
  BY <1>3, <1>5, <1>6 DEF Ids
<1>8. \A j \in Ids : /\ tickets'[j].born = tickets[j].born /\ tickets'[j].ref = tickets[j].ref
                     /\ tickets'[j].number = tickets[j].number
                     /\ tickets'[j].title = tickets[j].title
  BY <1>5, <1>7
<1>9. Live' \subseteq Live
  BY <1>1, <1>2, <1>5, <1>7 DEF Live, Ids
<1>10. References' = References
  BY <1>7, <1>8 DEF References, Ids
<1>11. \A v \in Worker : doing'[v] = doing[v]
  BY <1>2
<1>12. DOMAIN doing' = Worker /\ stale' \in BOOLEAN /\ crossed' \in BOOLEAN
  BY <1>2 DEF ImportIInv, ImportTypeOK
<1>13. ~stale' => \A k, j \in Ids :
         tickets'[k].ref = tickets'[j].ref /\ tickets'[k].ref # NoRef => k = j
  BY <1>2, <1>8 DEF ImportIInv, RowsKnown
<1> QED
  BY <1>2, <1>7, <1>8, <1>9, <1>10, <1>11, <1>12, <1>13, RowsKept

\* A save that puts an old reference back marks it.
LEMMA SaveTicketKeeps ==
    ASSUME ImportIInv, NEW w \in Worker, SaveTicket(w)
    PROVE  ImportIInv'
<1>1. PICK i : i = doing[w].id
  OBVIOUS
<1>2. PICK title : title = doing[w].title
  OBVIOUS
<1>3. PICK ref : ref = doing[w].ref
  OBVIOUS
<1>4. PICK new : new = [[tickets[i] EXCEPT !.title = title] EXCEPT !.ref = ref]
  OBVIOUS
<1>5. doing[w].step = "save" /\ Ends(w) /\ UNCHANGED <<links, format>>
  BY Zenon DEF SaveTicket
<1>6. tickets \in Seq(RowType) /\ i \in DOMAIN tickets /\ i \in Ids /\ tickets[i] \in RowType
      /\ title \in Title /\ ref \in Refs
  <2>1. CallTyped(doing[w])
    BY DEF ImportIInv, ImportTypeOK
  <2> QED
    BY <1>1, <1>2, <1>3, <1>5, <2>1, IdsAre DEF ImportIInv, ImportTypeOK, Ids, CallTyped
<1>7. /\ new.born = tickets[i].born /\ new.title = title /\ new.ref = ref
      /\ new.number = tickets[i].number /\ new.deleted = tickets[i].deleted /\ new \in RowType
  BY <1>4, <1>6 DEF RowType
<1>8. PICK putBack : putBack = (new.ref # tickets[i].ref)
  OBVIOUS
<1>9. PICK refused : refused = (putBack /\ new.ref \in References)
  OBVIOUS
<1>10. new = [tickets[i] EXCEPT !.title = title, !.ref = ref]
  BY <1>4, <1>6 DEF RowType
<1>11. /\ tickets' = IF refused THEN tickets ELSE [tickets EXCEPT ![i] = new]
       /\ stale' = (stale \/ (putBack /\ ~refused))
       /\ crossed' = (crossed \/ (~refused /\ new.title # tickets[i].title
                                  /\ Unknown(i, new.born, new.title)))
  BY <1>1, <1>2, <1>3, <1>8, <1>9, <1>10, Zenon DEF SaveTicket
<1>12. DOMAIN doing' = Worker /\ \A v \in Worker : doing'[v] = doing[v] \/ doing'[v] = Idle
  BY <1>5 DEF ImportIInv, ImportTypeOK, Ends, Goes
<1>13. stale' \in BOOLEAN /\ crossed' \in BOOLEAN /\ (~stale' => ~stale) /\ (~crossed' => ~crossed)
  BY <1>11 DEF ImportIInv, ImportTypeOK
<1>14. CASE refused
  <2>1. tickets' = tickets
    BY <1>11, <1>14
  <2>2. Live' \subseteq Live /\ References' = References
    BY <2>1 DEF Live, Ids, References
  <2>3. ~stale' => \A k, j \in Ids :
          tickets'[k].ref = tickets'[j].ref /\ tickets'[k].ref # NoRef => k = j
    BY <1>13, <2>1 DEF ImportIInv, RowsKnown
  <2> QED
    BY <1>5, <1>6, <1>12, <1>13, <2>1, <2>2, <2>3, RowsKept
<1>15. CASE ~refused
  <2>1. tickets' = [tickets EXCEPT ![i] = new]
    BY <1>11, <1>15
  <2>2. /\ tickets' \in Seq(RowType) /\ Len(tickets') = Len(tickets)
        /\ DOMAIN tickets' = DOMAIN tickets /\ tickets'[i] = new
        /\ \A j \in Ids : j # i => tickets'[j] = tickets[j]
    BY <1>6, <1>7, <2>1 DEF Ids
  <2>3. \A j \in Ids : tickets'[j].born = tickets[j].born /\ tickets'[j].number = tickets[j].number
    BY <1>7, <2>2
  <2>4. Live' \subseteq Live
    BY <1>7, <2>2 DEF Live, Ids
  <2>5. ~stale' => new.ref = tickets[i].ref
    BY <1>8, <1>11, <1>15, Zenon
  <2>6. ~stale' => \A j \in Ids : tickets'[j].ref = tickets[j].ref
    BY <1>6, <2>2, <2>5
  <2>7. ~stale' => References' = References
    BY <2>2, <2>6 DEF References, Ids
  <2>8. ~stale' => \A k, j \in Ids :
          tickets'[k].ref = tickets'[j].ref /\ tickets'[k].ref # NoRef => k = j
    BY <1>13, <2>6 DEF ImportIInv, RowsKnown
  <2>9. ~crossed' => new.title = tickets[i].title \/ ~Unknown(i, new.born, new.title)
    BY <1>11, <1>15, Zenon
  <2>10. ~crossed' => \A j \in Ids :
           tickets'[j].title = tickets[j].title
           \/ ~Unknown(j, tickets[j].born, tickets'[j].title)
    BY <1>7, <2>2, <2>9
  <2> QED
    BY <1>5, <1>12, <1>13, <2>2, <2>3, <2>4, <2>7, <2>8, <2>10, RowsKept
<1> QED
  BY <1>14, <1>15

\* Nobody holds the lock, and the new references are as different as the numbers.
LEMMA RewriteAllKeeps ==
    ASSUME ImportIInv, NEW w \in Worker, RewriteAll(w)
    PROVE  ImportIInv'
<1>1. PICK to : to = doing[w].to
  OBVIOUS
<1>2. /\ doing[w].step = "rewrite" /\ Unlocked /\ Ends(w)
      /\ tickets' = [i \in Ids |-> [tickets[i] EXCEPT !.ref = <<to, tickets[i].number>>]]
      /\ UNCHANGED <<links, format, stale, crossed>>
  BY <1>1 DEF RewriteAll
<1>3. tickets \in Seq(RowType) /\ to \in Format
  BY <1>1, <1>2 DEF ImportIInv, ImportTypeOK, CallTyped
<1>4. Len(tickets) \in Nat /\ Ids = 1..Len(tickets) /\ \A i \in Ids : tickets[i] \in RowType
  BY IdsAre DEF ImportIInv
<1>5. \A i \in Ids : tickets'[i] = [tickets[i] EXCEPT !.ref = <<to, tickets[i].number>>]
  BY <1>2
<1>6. \A i \in Ids : /\ tickets'[i].born = tickets[i].born /\ tickets'[i].title = tickets[i].title
                     /\ tickets'[i].ref = <<to, tickets[i].number>>
                     /\ tickets'[i].number = tickets[i].number
                     /\ tickets'[i].deleted = tickets[i].deleted /\ tickets'[i] \in RowType
  <2> SUFFICES ASSUME NEW i \in Ids
               PROVE  /\ tickets'[i].born = tickets[i].born
                      /\ tickets'[i].title = tickets[i].title
                      /\ tickets'[i].ref = <<to, tickets[i].number>>
                      /\ tickets'[i].number = tickets[i].number
                      /\ tickets'[i].deleted = tickets[i].deleted /\ tickets'[i] \in RowType
    OBVIOUS
  <2>1. PICK ref : ref = <<to, tickets[i].number>>
    OBVIOUS
  <2>2. ref \in Refs
    BY <1>3, <1>4, <2>1 DEF Refs, RowType
  <2>3. tickets'[i] = [tickets[i] EXCEPT !.ref = ref] /\ tickets[i] \in RowType
    BY <1>4, <1>5, <2>1
  <2> QED
    BY <2>1, <2>2, <2>3 DEF RowType
<1>7. /\ tickets' \in Seq(RowType) /\ Len(tickets') = Len(tickets)
      /\ DOMAIN tickets' = Ids
  <2>1. PICK n \in Nat : n = Len(tickets)
    BY <1>4
  <2>2. DOMAIN tickets' = 1..n /\ Ids = 1..n
    BY <1>2, <1>4, <2>1
  <2>3. tickets' \in [1..n -> RowType]
    BY <1>2, <1>4, <1>6, <2>1, <2>2
  <2>4. tickets' \in Seq(RowType) /\ Len(tickets') = n
    BY <2>2, <2>3
  <2> QED
    BY <2>1, <2>2, <2>4
<1>8. Live' \subseteq Live
  BY <1>6, <1>7 DEF Live, Ids
<1>9. \A k, j \in Ids : tickets'[k].ref = tickets'[j].ref => k = j
  BY <1>6 DEF ImportIInv, RowsKnown
<1>10. DOMAIN doing' = Worker /\ \A v \in Worker : doing'[v] = doing[v] \/ doing'[v] = Idle
  BY <1>2 DEF ImportIInv, ImportTypeOK, Ends, Goes
<1>11. stale' \in BOOLEAN /\ crossed' \in BOOLEAN
  BY <1>2 DEF ImportIInv, ImportTypeOK
<1> QED
  BY <1>2, <1>6, <1>7, <1>8, <1>9, <1>10, <1>11, RowsKept

------------------------------------------------------------------------------
(***************************************************************************)
(* The COMMIT.                                                             *)
(***************************************************************************)
\* A link of an import that is not of a ticket to itself is there afterwards, and it
\* takes the place of an earlier one from the same ticket.
LEMMA UpsertedIs ==
    ASSUME NEW new
    PROVE  /\ \A x \in Upserted(new) :
                \/ x \in links
                \/ \E n \in new : x.source = n.source /\ x.target = n.target
           /\ \A n \in new : \/ n.source = n.target
                             \/ \E x \in Upserted(new) : x.source = n.source /\ x.target = n.target
           /\ \A l \in links : \/ l \in Upserted(new)
                               \/ \E n \in new : n.source # n.target /\ n.source = l.source
<1> DEFINE recorded == {l \in new : l.source # l.target}
           age(s) == IF \E l \in links : l.source = s
                     THEN (CHOOSE l \in links : l.source = s).at
                     ELSE 1 + Max({l.at : l \in links} \union {0})
           Link(n) == [source |-> n.source, target |-> n.target, at |-> age(n.source)]
           Kept == {l \in links : \A n \in recorded : n.source # l.source}
           Made == {Link(n) : n \in recorded}
<1>1. Upserted(new) = Kept \union Made
  BY Zenon DEF Upserted
<1> HIDE DEF age
<1>2. \A n \in recorded : Link(n).source = n.source /\ Link(n).target = n.target
  OBVIOUS
<1> HIDE DEF Link
<1>3. \A x \in Made : \E n \in new : x.source = n.source /\ x.target = n.target
  BY <1>2
<1>4. \A n \in new : n.source = n.target \/ \E x \in Made : x.source = n.source /\ x.target = n.target
  BY <1>2
<1> QED
  BY <1>1, <1>3, <1>4

\* The new rows follow the old ones, and nobody else has the lock.
LEMMA CommitIs ==
    ASSUME ImportIInv, NEW w \in Worker, Commit(w), NEW d, d = doing[w],
           NEW L, L = Len(tickets)
    PROVE  /\ CallKnown(d) /\ d.step = "insert" /\ d.left = {}
           /\ L \in Nat /\ Ids = 1..L
           /\ Len(d.rows) \in Nat /\ DOMAIN d.rows = 1..Len(d.rows)
           /\ tickets' \in Seq(RowType) /\ Len(tickets') = L + Len(d.rows)
           /\ \A i \in Ids : i \in Ids' /\ tickets'[i] = tickets[i] /\ (i \in Live' <=> i \in Live)
           /\ \A n \in DOMAIN d.rows :
                L + n \in Ids' /\ tickets'[L + n] = d.rows[n]
           /\ \A i \in Ids' : i \in Ids \/ \E n \in DOMAIN d.rows : i = L + n
           /\ DOMAIN doing' = Worker /\ doing'[w] = Idle
           /\ \A v \in Worker : v # w => doing'[v] = doing[v] /\ doing[v].step # "insert"
           /\ links' = Upserted(d.links) /\ UNCHANGED <<format, stale>>
           /\ crossed' \in BOOLEAN
           /\ ~crossed' => ~crossed /\ \A n \in DOMAIN d.rows :
                ~Unknown(L + n, d.rows[n].born, d.rows[n].title)
<1>1. /\ d.step = "insert" /\ d.left = {} /\ tickets' = tickets \o d.rows
      /\ links' = Upserted(d.links) /\ UNCHANGED <<format, stale>>
      /\ crossed' = (crossed \/ \E n \in DOMAIN d.rows :
           Unknown(Len(tickets) + n, d.rows[n].born, d.rows[n].title))
      /\ Ends(w)
  BY Zenon DEF Commit
<1>2. CallKnown(d)
  BY DEF ImportIInv
<1>3. tickets \in Seq(RowType) /\ Len(tickets) \in Nat /\ Ids = 1..Len(tickets)
  BY IdsAre DEF ImportIInv, ImportTypeOK
<1>4. PICK rows : rows = d.rows
  OBVIOUS
<1>5. rows \in Seq(RowType)
  BY <1>1, <1>2, <1>4 DEF CallKnown, CallTyped
<1>6. tickets' = tickets \o rows
  BY <1>1, <1>4
<1>7. Len(rows) \in Nat /\ DOMAIN rows = 1..Len(rows)
  BY <1>5
<1>8. tickets' \in Seq(RowType) /\ Len(tickets') = Len(tickets) + Len(rows)
  BY <1>3, <1>5, <1>6
<1>9. Ids' = 1..(Len(tickets) + Len(rows))
  BY <1>8 DEF Ids
<1>10. \A i \in Ids : i \in Ids' /\ tickets'[i] = tickets[i]
  BY <1>3, <1>5, <1>6, <1>7, <1>9
<1>11. \A n \in DOMAIN rows : Len(tickets) + n \in Ids' /\ tickets'[Len(tickets) + n] = rows[n]
  BY <1>3, <1>5, <1>6, <1>7, <1>9
<1>12. ASSUME NEW i \in Ids' PROVE i \in Ids \/ \E n \in DOMAIN rows : i = Len(tickets) + n
  <2>1. i \in Ids \/ i - Len(tickets) \in DOMAIN rows
    BY <1>3, <1>7, <1>9
  <2>2. i = Len(tickets) + (i - Len(tickets))
    BY <1>3, <1>7, <1>9
  <2> QED
    BY <2>1, <2>2
<1>13. \A i \in Ids : i \in Live' <=> i \in Live
  BY <1>10 DEF Live
<1>14. /\ DOMAIN doing' = Worker /\ doing'[w] = Idle
       /\ \A v \in Worker : v # w => doing'[v] = doing[v] /\ doing[v].step # "insert"
  BY <1>1 DEF ImportIInv, ImportTypeOK, OneHolds, Ends, Goes
<1>15. /\ crossed' \in BOOLEAN
       /\ ~crossed' => ~crossed /\ \A n \in DOMAIN d.rows :
            ~Unknown(L + n, d.rows[n].born, d.rows[n].title)
  BY <1>1 DEF ImportIInv, ImportTypeOK
<1> QED
  BY <1>1, <1>2, <1>3, <1>4, <1>7, <1>8, <1>10, <1>11, <1>12, <1>13, <1>14, <1>15

LEMMA CommitKeeps ==
    ASSUME ImportIInv, NEW w \in Worker, Commit(w)
    PROVE  ImportIInv'
<1>1. PICK d : d = doing[w]
  OBVIOUS
<1>2. PICK L : L = Len(tickets)
  OBVIOUS
<1>3. /\ CallKnown(d) /\ d.step = "insert"
      /\ L \in Nat /\ Ids = 1..L
      /\ Len(d.rows) \in Nat /\ DOMAIN d.rows = 1..Len(d.rows)
      /\ tickets' \in Seq(RowType) /\ Len(tickets') = L + Len(d.rows)
      /\ \A i \in Ids : i \in Ids' /\ tickets'[i] = tickets[i] /\ (i \in Live' <=> i \in Live)
      /\ \A n \in DOMAIN d.rows : L + n \in Ids' /\ tickets'[L + n] = d.rows[n]
      /\ \A i \in Ids' : i \in Ids \/ \E n \in DOMAIN d.rows : i = L + n
      /\ DOMAIN doing' = Worker /\ doing'[w] = Idle
      /\ \A v \in Worker : v # w => doing'[v] = doing[v] /\ doing[v].step # "insert"
      /\ links' = Upserted(d.links) /\ UNCHANGED <<format, stale>>
      /\ crossed' \in BOOLEAN
      /\ ~crossed' => ~crossed /\ \A n \in DOMAIN d.rows :
           ~Unknown(L + n, d.rows[n].born, d.rows[n].title)
  BY <1>1, <1>2, CommitIs
<1>4. PICK new : new = d.links
  OBVIOUS
<1>5. /\ \A x \in links' : \/ x \in links
                           \/ \E n \in new : x.source = n.source /\ x.target = n.target
      /\ \A n \in new : \/ n.source = n.target
                        \/ \E x \in links' : x.source = n.source /\ x.target = n.target
      /\ \A l \in links : \/ l \in links'
                          \/ \E n \in new : n.source # n.target /\ n.source = l.source
  BY <1>3, <1>4, UpsertedIs
<1>6. ASSUME NEW i \in Ids', i \notin Ids
      PROVE  \E n \in DOMAIN d.rows : i = L + n /\ tickets'[i] = d.rows[n]
  <2>1. PICK n \in DOMAIN d.rows : i = L + n
    BY <1>3, <1>6
  <2> QED
    BY <1>3, <2>1
<1>7. \A birth : BornAs(birth) => BornAs(birth)'
  BY <1>3 DEF BornAs
<1>8. RowsKnown'
  <2>1. NumbersFree(d) /\ (~stale => ReferencesFree(d))
        /\ \A n \in DOMAIN d.rows : d.rows[n].born = L + n \/ BornAs(d.rows[n].born)
    BY <1>2, <1>3 DEF CallKnown
  <2>2. \A i \in Ids : tickets[i].number \in Nat
    BY IdsAre DEF ImportIInv, RowType
  <2>3. \A i \in Ids, n \in DOMAIN d.rows : tickets[i].number # d.rows[n].number
    <3>1. \A n \in DOMAIN d.rows : d.rows[n].number \in Nat
      <4>1. \A n \in DOMAIN d.rows : L + n \in DOMAIN tickets' /\ tickets'[L + n] \in RowType
        BY <1>3 DEF Ids
      <4> QED
        BY <1>3, <4>1 DEF RowType
    <3> QED
      BY <2>1, <2>2, <3>1 DEF NumbersFree
  <2>4. \A n, m \in DOMAIN d.rows : d.rows[m].number = d.rows[n].number => m = n
    BY <2>1 DEF NumbersFree
  <2>5. (\A i, j \in Ids : tickets[i].number = tickets[j].number => i = j)'
    <3> SUFFICES ASSUME NEW i \in Ids', NEW j \in Ids', tickets'[i].number = tickets'[j].number
                 PROVE  i = j
      OBVIOUS
    <3>1. CASE i \in Ids /\ j \in Ids
      BY <1>3, <3>1 DEF ImportIInv, RowsKnown
    <3>2. CASE i \in Ids /\ j \notin Ids
      <4>1. PICK n \in DOMAIN d.rows : j = L + n /\ tickets'[j] = d.rows[n]
        BY <1>6, <3>2
      <4>2. tickets'[i] = tickets[i]
        BY <1>3, <3>2
      <4> QED
        BY <2>3, <3>2, <4>1, <4>2
    <3>3. CASE i \notin Ids /\ j \in Ids
      <4>1. PICK n \in DOMAIN d.rows : i = L + n /\ tickets'[i] = d.rows[n]
        BY <1>6, <3>3
      <4>2. tickets'[j] = tickets[j]
        BY <1>3, <3>3
      <4> QED
        BY <2>3, <3>3, <4>1, <4>2
    <3>4. CASE i \notin Ids /\ j \notin Ids
      <4>1. PICK m \in DOMAIN d.rows : i = L + m /\ tickets'[i] = d.rows[m]
        BY <1>6, <3>4
      <4>2. PICK n \in DOMAIN d.rows : j = L + n /\ tickets'[j] = d.rows[n]
        BY <1>6, <3>4
      <4> QED
        BY <2>4, <4>1, <4>2
    <3> QED
      BY <3>1, <3>2, <3>3, <3>4
  <2>6. (\A i \in Ids : BornAs(tickets[i].born))'
    <3> SUFFICES ASSUME NEW i \in Ids' PROVE BornAs(tickets[i].born)'
      OBVIOUS
    <3>1. PICK birth : birth = tickets'[i].born
      OBVIOUS
    <3>2. BornAs(birth)'
      <4>1. CASE i \in Ids
        BY <1>3, <1>7, <3>1, <4>1 DEF ImportIInv, RowsKnown
      <4>2. CASE i \notin Ids
        <5>1. PICK n \in DOMAIN d.rows : i = L + n
          BY <1>3, <4>2
        <5>2. birth = d.rows[n].born
          BY <1>3, <3>1, <5>1
        <5>3. CASE birth = i
          BY <3>1, <5>3 DEF BornAs
        <5>4. CASE BornAs(birth)
          BY <1>7, <5>4
        <5> QED
          BY <2>1, <5>1, <5>2, <5>3, <5>4
      <4> QED
        BY <4>1, <4>2
    <3> QED
      BY <3>1, <3>2
  <2>7. ASSUME ~stale
        PROVE  (\A i, j \in Ids : tickets[i].ref = tickets[j].ref /\ tickets[i].ref # NoRef => i = j)'
    <3> SUFFICES ASSUME NEW i \in Ids', NEW j \in Ids',
                        tickets'[i].ref = tickets'[j].ref, tickets'[i].ref # NoRef
                 PROVE  i = j
      OBVIOUS
    <3>1. \A k \in Ids : tickets[k].ref # NoRef => tickets[k].ref \in References
      BY DEF References
    <3>2. CASE i \in Ids /\ j \in Ids
      BY <1>3, <2>7, <3>2 DEF ImportIInv, RowsKnown
    <3>3. CASE i \in Ids /\ j \notin Ids
      <4>1. PICK n \in DOMAIN d.rows : j = L + n /\ tickets'[j] = d.rows[n]
        BY <1>6, <3>3
      <4>2. tickets'[i] = tickets[i]
        BY <1>3, <3>3
      <4>3. tickets[i].ref \in References
        BY <3>1, <3>3, <4>1, <4>2
      <4>4. \A m \in DOMAIN d.rows : d.rows[m].ref \notin References
        BY <2>1, <2>7 DEF ReferencesFree
      <4> QED
        BY <4>1, <4>2, <4>3, <4>4
    <3>4. CASE i \notin Ids /\ j \in Ids
      <4>1. PICK n \in DOMAIN d.rows : i = L + n /\ tickets'[i] = d.rows[n]
        BY <1>6, <3>4
      <4>2. tickets'[j] = tickets[j]
        BY <1>3, <3>4
      <4>3. tickets[j].ref \in References
        BY <3>1, <3>4, <4>1, <4>2
      <4>4. \A m \in DOMAIN d.rows : d.rows[m].ref \notin References
        BY <2>1, <2>7 DEF ReferencesFree
      <4> QED
        BY <4>1, <4>2, <4>3, <4>4
    <3>5. CASE i \notin Ids /\ j \notin Ids
      <4>1. PICK m \in DOMAIN d.rows : i = L + m /\ tickets'[i] = d.rows[m]
        BY <1>6, <3>5
      <4>2. PICK n \in DOMAIN d.rows : j = L + n /\ tickets'[j] = d.rows[n]
        BY <1>6, <3>5
      <4> QED
        BY <2>1, <2>7, <4>1, <4>2 DEF ReferencesFree
    <3> QED
      BY <3>2, <3>3, <3>4, <3>5
  <2> QED
    BY <1>3, <2>5, <2>6, <2>7 DEF RowsKnown
<1>9. (\A l \in links : l.source \in Births /\ l.target \in Ids)'
  <2>1. \A l \in links : l.source \in Births /\ l.target \in Ids'
    BY <1>3 DEF ImportIInv, ImportTypeOK
  <2>2. \A l \in new : l.source \in Births /\ l.target \in Ids'
    <3>1. \A l \in new : l.source \in Births /\ l.target \in 1..(L + Len(d.rows))
      BY <1>2, <1>3, <1>4 DEF CallKnown, CallTyped
    <3>2. Ids' = 1..(L + Len(d.rows))
      BY <1>3 DEF Ids
    <3> QED
      BY <3>1, <3>2
  <2>3. Births' = Births
    BY DEF Births
  <2> QED
    BY <1>5, <2>1, <2>2, <2>3
<1>10. ASSUME ~crossed' PROVE (ImportedOnce /\ LinksKnown)'
  <2>1. ~crossed /\ ImportedOnce /\ LinksKnown /\ BirthsFree(d)
    BY <1>3, <1>10 DEF ImportIInv, CallKnown
  <2>2. /\ \A n \in DOMAIN d.rows :
             /\ \A i \in Live : tickets[i].born # d.rows[n].born
             /\ \A m \in DOMAIN d.rows : d.rows[m].born = d.rows[n].born => m = n
             /\ \/ d.rows[n].born = L + n
                \/ \E l \in new : l.source = d.rows[n].born /\ l.target = L + n
        /\ \A l \in new :
             /\ l.target \in Ids => tickets[l.target].born = l.source
             /\ \A n \in DOMAIN d.rows : l.target = L + n => d.rows[n].born = l.source
             /\ \A i \in Live : tickets[i].born = l.source => l.target = i
    BY <1>2, <1>4, <2>1 DEF BirthsFree
  <2>3. \A i \in Live' : i \in Live \/ \E n \in DOMAIN d.rows : i = L + n
    <3>1. \A i \in Live' : i \in Ids'
      BY DEF Live
    <3> QED
      BY <1>3, <3>1
  <2>4. \A i \in Live : i \in Ids /\ tickets'[i] = tickets[i]
    BY <1>3 DEF Live
  <2>5. ImportedOnce'
    <3> SUFFICES ASSUME NEW i \in Live', NEW j \in Live', tickets'[i].born = tickets'[j].born
                 PROVE  i = j
      BY DEF ImportedOnce
    <3>1. CASE i \in Live /\ j \in Live
      BY <2>1, <2>4, <3>1 DEF ImportedOnce
    <3>2. CASE i \in Live /\ j \notin Live
      <4>1. PICK n \in DOMAIN d.rows : j = L + n
        BY <2>3, <3>2
      <4>2. tickets'[j] = d.rows[n] /\ tickets'[i] = tickets[i]
        BY <1>3, <2>4, <3>2, <4>1
      <4> QED
        BY <2>2, <3>2, <4>2
    <3>3. CASE i \notin Live /\ j \in Live
      <4>1. PICK n \in DOMAIN d.rows : i = L + n
        BY <2>3, <3>3
      <4>2. tickets'[i] = d.rows[n] /\ tickets'[j] = tickets[j]
        BY <1>3, <2>4, <3>3, <4>1
      <4> QED
        BY <2>2, <3>3, <4>2
    <3>4. CASE i \notin Live /\ j \notin Live
      <4>1. PICK m \in DOMAIN d.rows : i = L + m
        BY <2>3, <3>4
      <4>2. PICK n \in DOMAIN d.rows : j = L + n
        BY <2>3, <3>4
      <4> QED
        BY <1>3, <2>2, <4>1, <4>2
    <3> QED
      BY <3>1, <3>2, <3>3, <3>4
  <2>6. \A n \in new : tickets'[n.target].born = n.source
    <3> SUFFICES ASSUME NEW l \in new PROVE tickets'[l.target].born = l.source
      OBVIOUS
    <3>1. l.target \in Ids'
      <4>1. l.target \in 1..(L + Len(d.rows))
        BY <1>2, <1>3, <1>4 DEF CallKnown, CallTyped
      <4> QED
        BY <1>3, <4>1 DEF Ids
    <3>2. CASE l.target \in Ids
      BY <1>3, <2>2, <3>2
    <3>3. CASE l.target \notin Ids
      <4>1. PICK n \in DOMAIN d.rows : l.target = L + n
        BY <1>3, <3>1, <3>3
      <4> QED
        BY <1>3, <2>2, <4>1
    <3> QED
      BY <3>2, <3>3
  <2>7. \A l \in links' : tickets'[l.target].born = l.source
    <3>1. \A l \in links : l.target \in Ids /\ tickets'[l.target].born = l.source
      BY <1>3, <2>1 DEF ImportIInv, ImportTypeOK, LinksKnown
    <3> QED
      BY <1>5, <2>6, <3>1
  <2>8. ASSUME NEW i \in Live'
        PROVE  \/ tickets'[i].born = i
               \/ \E l \in links' : l.source = tickets'[i].born /\ l.target = i
    <3>1. CASE i \in Live
      <4>1. \/ tickets'[i].born = i
            \/ \E l \in links : l.source = tickets'[i].born /\ l.target = i
        BY <2>1, <2>4, <3>1 DEF LinksKnown
      <4>2. ASSUME NEW l \in links, l.source = tickets'[i].born, l.target = i, l \notin links'
            PROVE  \E x \in links' : x.source = tickets'[i].born /\ x.target = i
        <5>1. PICK n \in new : n.source # n.target /\ n.source = l.source
          BY <1>5, <4>2
        <5>2. n.target = i
          BY <2>2, <2>4, <3>1, <4>2, <5>1
        <5> QED
          BY <1>5, <4>2, <5>1, <5>2
      <4> QED
        BY <4>1, <4>2
    <3>2. CASE i \notin Live
      <4>1. PICK n \in DOMAIN d.rows : i = L + n
        BY <2>3, <3>2
      <4>2. tickets'[i].born = d.rows[n].born
        BY <1>3, <4>1
      <4>3. CASE d.rows[n].born = L + n
        BY <4>1, <4>2, <4>3
      <4>4. ASSUME NEW l \in new, l.source = d.rows[n].born, l.target = L + n
            PROVE  \/ tickets'[i].born = i
                   \/ \E x \in links' : x.source = tickets'[i].born /\ x.target = i
        BY <1>5, <4>1, <4>2, <4>4
      <4> QED
        BY <2>2, <4>3, <4>4
    <3> QED
      BY <3>1, <3>2
  <2> QED
    BY <2>5, <2>7, <2>8 DEF LinksKnown
<1>11. ASSUME NEW v \in Worker, v # w PROVE CallKnown(doing[v])'
  <2>1. PICK c : c = doing[v]
    OBVIOUS
  <2>2. CallKnown(c) /\ c.step # "insert"
    BY <1>3, <1>11, <2>1 DEF ImportIInv
  <2>3. CallTyped(c)'
    <3>1. /\ Births' = Births /\ FileTicket' = FileTicket /\ Refs' = Refs
      BY DEF Births, FileTicket, Refs
    <3> QED
      BY <1>3, <2>2 DEF CallKnown, CallTyped
  <2>4. ASSUME c.step = "match" PROVE FileKnown(c.file)'
    <3>1. FileKnown(c.file)
      BY <2>2, <2>4 DEF CallKnown
    <3>2. \A t \in c.file : BornAs(t.born)'
      BY <1>7, <3>1 DEF FileKnown
    <3>3. ~crossed' => ~crossed
      BY <1>3
    <3> QED
      BY <1>3, <3>1, <3>2, <3>3 DEF FileKnown
  <2>5. ASSUME c.step = "match", ~crossed' PROVE Recognized(c)'
    <3>1. ~crossed
      BY <1>3, <2>5
    <3>2. Recognized(c)
      BY <2>2, <2>5, <3>1 DEF CallKnown
    <3>3. \A l \in c.links : l.target \in Ids
      BY <2>2, <2>5 DEF CallKnown, CallTyped
    <3>4. \A l \in c.links : tickets'[l.target].born = l.source
      BY <1>3, <3>2, <3>3 DEF Recognized
    <3>5. ASSUME NEW t \in c.file, NEW i \in Live', tickets'[i].born = t.born
          PROVE  \/ tickets'[i].title = t.title \/ t.origin = i
                 \/ \E l \in c.links : l.source = t.origin /\ l.target = i
      <4>1. i \in Ids'
        BY DEF Live
      <4>2. CASE i \in Ids
        <5>1. i \in Live /\ tickets'[i] = tickets[i]
          BY <1>3, <4>2
        <5> QED
          BY <3>2, <3>5, <5>1 DEF Recognized
      <4>3. CASE i \notin Ids
        <5>1. PICK n \in DOMAIN d.rows : i = L + n
          BY <1>3, <4>1, <4>3
        <5>2. tickets'[i] = d.rows[n]
          BY <1>3, <5>1
        <5>3. ~Unknown(L + n, d.rows[n].born, d.rows[n].title)
          BY <1>3, <2>5
        <5>4. \A l \in c.links : l.target # L + n
          BY <3>3, <4>3, <5>1
        <5> QED
          BY <2>1, <2>5, <3>5, <5>1, <5>2, <5>3, <5>4 DEF Unknown
      <4> QED
        BY <4>2, <4>3
    <3> QED
      BY <3>4, <3>5 DEF Recognized
  <2>6. CallKnown(c)'
    BY <2>2, <2>3, <2>4, <2>5 DEF CallKnown
  <2>7. doing'[v] = c
    BY <1>3, <1>11, <2>1
  <2> QED
    BY <2>6, <2>7
<1>12. (\A v \in Worker : CallKnown(doing[v]))'
  <2> SUFFICES ASSUME NEW v \in Worker PROVE CallKnown(doing[v])'
    OBVIOUS
  <2>1. CASE v # w
    BY <1>11, <2>1
  <2>2. CASE v = w
    <3>1. doing'[v].step = "idle"
      BY <1>3, <2>2 DEF Idle
    <3> QED
      BY <3>1 DEF CallKnown, CallTyped
  <2> QED
    BY <2>1, <2>2
<1>13. ImportTypeOK'
  <2>1. crossed' \in BOOLEAN
    BY <1>3
  <2>2. (\A v \in Worker : CallTyped(doing[v]))'
    BY <1>12 DEF CallKnown
  <2>3. format' \in Format /\ stale' \in BOOLEAN /\ tickets' \in Seq(RowType)
        /\ DOMAIN doing' = Worker
    BY <1>3 DEF ImportIInv, ImportTypeOK
  <2>4. RowType' = RowType
    BY DEF RowType, Births, Refs
  <2> QED
    BY <1>9, <2>1, <2>2, <2>3, <2>4 DEF ImportTypeOK
<1>14. OneHolds'
  <2>1. Idle.step = "idle"
    BY DEF Idle
  <2> QED
    BY <1>3, <2>1 DEF ImportIInv, OneHolds
<1> QED
  BY <1>8, <1>10, <1>12, <1>13, <1>14 DEF ImportIInv

------------------------------------------------------------------------------
(***************************************************************************)
(* The specification of TicketImport.                                      *)
(***************************************************************************)
LEMMA ImportAtFirst == ImportInit => ImportIInv
<1> SUFFICES ASSUME ImportInit PROVE ImportIInv
  OBVIOUS
<1>1. Ids = {} /\ Live = {}
  BY DEF ImportInit, Ids, Live
<1>2. \A w \in Worker : doing[w].step = "idle"
  BY DEF ImportInit, Idle
<1>3. \A w \in Worker : CallKnown(doing[w])
  BY <1>2 DEF CallKnown, CallTyped
<1>4. ImportTypeOK
  <2>1. tickets \in Seq(RowType)
    BY DEF ImportInit
  <2>2. DOMAIN doing = Worker
    BY DEF ImportInit
  <2>3. links = {} /\ format \in Format /\ stale \in BOOLEAN /\ crossed \in BOOLEAN
    BY TicketImportAssumption DEF ImportInit
  <2> QED
    BY <1>3, <2>1, <2>2, <2>3 DEF ImportTypeOK, CallKnown
<1>5. OneHolds /\ RowsKnown /\ ImportedOnce /\ LinksKnown
  BY <1>1, <1>2 DEF ImportInit, OneHolds, RowsKnown, ImportedOnce, LinksKnown
<1> QED
  BY <1>3, <1>4, <1>5 DEF ImportIInv

LEMMA ImportStepKeeps == ImportIInv /\ [ImportNext]_importVars => ImportIInv'
<1> SUFFICES ASSUME ImportIInv, [ImportNext]_importVars PROVE ImportIInv'
  OBVIOUS
<1>1. CASE UNCHANGED importVars
  <2>1. format' \in Format /\ UNCHANGED <<tickets, links, doing, stale, crossed>>
    BY <1>1 DEF importVars, ImportIInv, ImportTypeOK
  <2> QED
    BY <2>1, FormatKept
<1>2. ASSUME NEW to \in Format, UpdateFormat(to) PROVE ImportIInv'
  BY <1>2, FormatKept DEF UpdateFormat
<1>3. ASSUME NEW i \in Ids, SoftDelete(i) PROVE ImportIInv'
  BY <1>3, SoftDeleteKeeps
<1>4. ASSUME NEW w \in Worker, Create(w) PROVE ImportIInv'
  BY <1>4, CreateKeeps
<1>5. ASSUME NEW w \in Worker, NEW file \in Files, ImportBegins(w, file) PROVE ImportIInv'
  BY <1>5, ImportBeginsKeeps
<1>6. ASSUME NEW w \in Worker, ImportMatches(w) PROVE ImportIInv'
  BY <1>6, ImportMatchesKeeps
<1>7. ASSUME NEW w \in Worker, Insert(w) PROVE ImportIInv'
  BY <1>7, InsertKeeps
<1>8. ASSUME NEW w \in Worker, Commit(w) PROVE ImportIInv'
  BY <1>8, CommitKeeps
<1>9. ASSUME NEW w \in Worker, RollBack(w) PROVE ImportIInv'
  BY <1>9, RollBackKeeps
<1>10. ASSUME NEW w \in Worker, NEW i \in Ids, NEW title \in Title, ReadTicket(w, i, title)
       PROVE  ImportIInv'
  BY <1>10, ReadTicketKeeps
<1>11. ASSUME NEW w \in Worker, SaveTicket(w) PROVE ImportIInv'
  BY <1>11, SaveTicketKeeps
<1>12. ASSUME NEW w \in Worker, ConvertBegins(w) PROVE ImportIInv'
  BY <1>12, ConvertBeginsKeeps
<1>13. ASSUME NEW w \in Worker, RewriteAll(w) PROVE ImportIInv'
  BY <1>13, RewriteAllKeeps
<1>14. UNCHANGED importVars \/ ImportNext
  OBVIOUS
<1> QED
  BY <1>1, <1>2, <1>3, <1>4, <1>5, <1>6, <1>7, <1>8, <1>9, <1>10, <1>11, <1>12, <1>13, <1>14, Zenon
     DEF ImportNext

\* The invariant holds in every state.
THEOREM ImportInvariant == ImportSpec => []ImportIInv
<1> QED
  BY ImportAtFirst, ImportStepKeeps, PTL DEF ImportSpec

\* The variables keep their types; every link leads to a row.
THEOREM ImportTypeCorrect == ImportSpec => []ImportTypeOK
<1>1. ImportIInv => ImportTypeOK
  BY DEF ImportIInv
<1> QED
  BY <1>1, ImportInvariant, PTL

\* What a creation or an import is about to commit under the lock collides with nothing,
\* whatever is saved, deleted and converted meanwhile, unless a save put an old reference
\* back: the unique indexes never refuse a row otherwise.
THEOREM NumbersAreFree == ImportSpec => []CommitsAreFree
<1>1. ASSUME ImportIInv PROVE CommitsAreFree
  <2> SUFFICES ASSUME NEW w \in Worker, doing[w].step = "insert"
               PROVE  /\ \A n \in DOMAIN doing[w].rows : doing[w].rows[n].number \notin Numbers
                      /\ stale \/ ~Collides(doing[w].rows)
    BY DEF CommitsAreFree
  <2>1. NumbersFree(doing[w]) /\ (~stale => ReferencesFree(doing[w]))
        /\ doing[w].rows \in Seq(RowType)
    BY <1>1 DEF ImportIInv, CallKnown, CallTyped
  <2>2. \A i \in Ids : tickets[i].number \in Nat
    BY <1>1, IdsAre DEF ImportIInv, RowType
  <2>3. \A n \in DOMAIN doing[w].rows : doing[w].rows[n].number \in Nat
    <3>1. \A n \in DOMAIN doing[w].rows : doing[w].rows[n] \in RowType
      BY <2>1
    <3> QED
      BY <3>1 DEF RowType
  <2>4. \A n \in DOMAIN doing[w].rows : doing[w].rows[n].number \notin Numbers
    BY <2>1, <2>2, <2>3 DEF NumbersFree, Numbers
  <2>5. ~stale => \A n \in DOMAIN doing[w].rows : doing[w].rows[n].ref \notin References
    BY <2>1 DEF ReferencesFree
  <2> QED
    BY <2>4, <2>5 DEF Collides
<1> QED
  BY <1>1, ImportInvariant, PTL

\* A ticket is brought once, however many imports of however many files overlap, and
\* whatever it is renamed to, deleted as or exported as between them; unless a ticket was
\* renamed while an import that has no link to it was under way.
THEOREM TicketsAreImportedOnce == ImportSpec => []ImportedOnce
<1>1. ImportIInv => ImportedOnce
  BY DEF ImportIInv, ImportedOnce
<1> QED
  BY <1>1, ImportInvariant, PTL

\* An import keeps every reference of a file of which none is taken, whatever is created
\* and imported while it runs.
THEOREM ReferencesAreKeptWhenApart == ImportSpec => []ReferencesKeptWhenApart
<1>1. ASSUME ImportIInv PROVE ReferencesKeptWhenApart
  <2> SUFFICES ASSUME NEW w \in Worker, Imports(w), ~stale,
                      \A t \in doing[w].file : t.ref \notin References \union {NoRef}
               PROVE  \A n \in DOMAIN doing[w].rows : \E t \in doing[w].file :
                        t.born = doing[w].rows[n].born /\ t.ref = doing[w].rows[n].ref
    BY DEF ReferencesKeptWhenApart
  <2>1. ReferencesBrought(doing[w]) /\ doing[w].file # {}
    BY <1>1 DEF ImportIInv, CallKnown, Imports
  <2> QED
    BY <2>1 DEF ReferencesBrought
<1> QED
  BY <1>1, ImportInvariant, PTL

==============================================================================
