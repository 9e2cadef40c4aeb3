----------------------------- MODULE TicketWrites -----------------------------
(***************************************************************************)
(* The commands of Tickets on a shared row: every request reads the whole  *)
(* ticket, computes, and hands the whole ticket to repository.update(),    *)
(* that is TypeORM's save(): a SELECT of the row and an UPDATE of the      *)
(* columns in which the ticket in memory differs from that SELECT.  There  *)
(* is no lock and no version column, so other requests, the soft delete    *)
(* and the SLA checker's own UPDATE come between any two of these steps.   *)
(*                                                                         *)
(* The people are supervisors, whom every command permits: Tickets says    *)
(* who may do what, this module what the database is left with.            *)
(***************************************************************************)
EXTENDS TicketRules

CONSTANTS
    Worker,         \* requests in flight at once
    MaxRequests     \* bound: requests served in all

ASSUME MaxRequestsAssumption == MaxRequests \in Nat

VARIABLES
    row,            \* the ticket's row
    overdue,        \* the resolution target of the SLA has passed
    served,         \* requests started so far, and the time of what they write
    pc,             \* where each worker is: idle, called, read, loaded
    call,           \* the status change a worker was called for
    mine,           \* the ticket in the worker's memory, to be saved
    changes,        \* the columns that save() is to update, with their values
    stale,          \* another save changed the row since the worker read it
    overlapped      \* a stale ticket has been saved

vars == <<row, overdue, served, pc, call, mine, changes, stale, overlapped>>

\* firstResponseAt and resolutionBreached ride along in every save
StoredTicket ==
    [status |-> "open", assigneeId |-> NoOne, resolvedById |-> NoOne,
     resolvedAt |-> Never, firstResolvedAt |-> Never, discardReason |-> FALSE,
     reopenCount |-> 0, firstResponseAt |-> Never, resolutionBreached |-> FALSE,
     deleted |-> FALSE]

\* Faulty: deletedAt is saved as it was read.
AllColumns == DOMAIN StoredTicket

\* toModel() hands save() every column but deletedAt
Columns == DOMAIN StoredTicket \ {"deleted"}

NoChanges == [c \in {} |-> StoredTicket[c]]

NoCall == [status |-> "open", by |-> NoOne, taker |-> NoOne]

Init ==
    /\ row = StoredTicket
    /\ overdue = FALSE
    /\ served = 0
    /\ pc = [w \in Worker |-> "idle"]
    /\ call = [w \in Worker |-> NoCall]
    /\ mine = [w \in Worker |-> StoredTicket]
    /\ changes = [w \in Worker |-> NoChanges]
    /\ stale = [w \in Worker |-> FALSE]
    /\ overlapped = FALSE

------------------------------------------------------------------------------
(***************************************************************************)
(* Reading.  findById does not see a deleted ticket.                       *)
(***************************************************************************)
Starts(w) == pc[w] = "idle" /\ ~row.deleted /\ served < MaxRequests

\* The ticket read by w becomes t in its memory.
Holds(w, t) ==
    /\ mine' = [mine EXCEPT ![w] = t]
    /\ pc' = [pc EXCEPT ![w] = "read"]
    /\ stale' = [stale EXCEPT ![w] = FALSE]

Reads(w, t) ==
    /\ Starts(w)
    /\ served' = served + 1
    /\ Holds(w, t)
    /\ UNCHANGED <<row, overdue, call, changes, overlapped>>

\* ChangeTicketStatusCommand reads once to decide who takes the ticket ...
CallChangeStatus(w, u, status) ==
    /\ Starts(w)
    /\ served' = served + 1
    /\ pc' = [pc EXCEPT ![w] = "called"]
    /\ call' = [call EXCEPT ![w] =
         [status |-> status, by |-> u,
          taker |-> IF row.assigneeId = NoOne /\ IsWork(status) THEN u ELSE NoOne]]
    /\ UNCHANGED <<row, overdue, mine, changes, stale, overlapped>>

\* ... and ChangeTicketStatus reads again, to change what it then finds
ReadChangeStatus(w) ==
    LET c == call[w]
    IN  /\ pc[w] = "called"
        /\ IF ~row.deleted /\ CanChangeStatus(row, c.status, TRUE, TRUE, c.taker)
           THEN Holds(w, AfterChangeStatus(row, c.status, c.by, c.taker, served))
           ELSE pc' = [pc EXCEPT ![w] = "idle"] /\ UNCHANGED <<mine, stale>>
        /\ call' = [call EXCEPT ![w] = NoCall]
        /\ UNCHANGED <<row, overdue, served, changes, overlapped>>

ReadAssign(w, who) == Reads(w, AfterAssign(row, who))

ReadPickup(w, u, status) ==
    CanPickup(row, status) /\ Reads(w, AfterPickup(row, status, u, served + 1))

\* Everybody is on the team and the assignee is not chosen.
ReadReopen(w, target) ==
    /\ CanReopen(row, target, FALSE, NoOne)
    /\ Reads(w, AfterReopen(row, target, FALSE, NoOne, User))

ReadAcceptTransfer(w, u) == Reads(w, AfterTransfer(row, u))

\* UpdateTicket changes other columns and saves these as it read them
ReadEdit(w) == Reads(w, row)

\* CreateCommentCommand reads the ticket, stores the comment, claims files and
\* follows the ticket before it saves the first response it dates
ReadComment(w) ==
    /\ row.firstResponseAt = Never
    /\ Reads(w, [row EXCEPT !.firstResponseAt = served + 1])

------------------------------------------------------------------------------
(***************************************************************************)
(* Saving.                                                                 *)
(***************************************************************************)

Differing(after, before) ==
    [c \in {d \in Columns : after[d] # before[d]} |-> after[c]]

\* save() reads the row again, deleted or not, to find what changed
Load(w) ==
    /\ pc[w] = "read"
    /\ changes' = [changes EXCEPT ![w] = Differing(mine[w], row)]
    /\ mine' = [mine EXCEPT ![w] = StoredTicket]
    /\ pc' = [pc EXCEPT ![w] = "loaded"]
    /\ UNCHANGED <<row, overdue, served, call, stale, overlapped>>

Merged(now, update) ==
    [c \in DOMAIN now |-> IF c \in DOMAIN update THEN update[c] ELSE now[c]]

\* ... and updates the columns that differ, in whatever row there is by now.
\* Who is stale is of no more interest once something was overwritten.
Write(w) ==
    /\ pc[w] = "loaded"
    /\ row' = Merged(row, changes[w])
    /\ pc' = [pc EXCEPT ![w] = "idle"]
    /\ changes' = [changes EXCEPT ![w] = NoChanges]
    /\ overlapped' = (overlapped \/ stale[w])
    /\ stale' = [v \in Worker |->
                   v # w /\ ~overlapped' /\ pc[v] \in {"read", "loaded"}
                         /\ (stale[v] \/ row' # row)]
    /\ UNCHANGED <<overdue, served, call, mine>>

------------------------------------------------------------------------------
(***************************************************************************)
(* Steps of others, one statement each.                                    *)
(***************************************************************************)
SoftDelete ==
    /\ ~row.deleted
    /\ row' = [row EXCEPT !.deleted = TRUE]
    /\ UNCHANGED <<overdue, served, pc, call, mine, changes, stale, overlapped>>

TargetPasses ==
    /\ ~overdue
    /\ overdue' = TRUE
    /\ UNCHANGED <<row, served, pc, call, mine, changes, stale, overlapped>>

\* Faulty: only the queue is looked at.
BreachDueInQueue ==
    overdue /\ ~row.deleted /\ row.status = "open" /\ ~row.resolutionBreached

BreachDue ==
    /\ overdue /\ ~row.deleted
    /\ ~IsClosed(row.status) /\ row.resolvedAt = Never
    /\ ~row.resolutionBreached

\* SlaBreachCheckerService, every five minutes
CheckSla ==
    /\ BreachDue
    /\ row' = [row EXCEPT !.resolutionBreached = TRUE]
    /\ UNCHANGED <<overdue, served, pc, call, mine, changes, stale, overlapped>>

Serve(w) ==
    \/ \E u \in User, status \in TicketStatuses : CallChangeStatus(w, u, status)
    \/ \E who \in User \union {NoOne} : ReadAssign(w, who)
    \/ \E u \in User, status \in PickupStatuses : ReadPickup(w, u, status)
    \/ \E target \in ReopenTargets : ReadReopen(w, target)
    \/ \E u \in User : ReadAcceptTransfer(w, u)
    \/ ReadEdit(w)
    \/ ReadComment(w)

Finish(w) == ReadChangeStatus(w) \/ Load(w) \/ Write(w)

Next ==
    \/ \E w \in Worker : Serve(w) \/ Finish(w)
    \/ SoftDelete \/ TargetPasses \/ CheckSla

(***************************************************************************)
(* A request that has begun ends, and the SLA checker's interval keeps     *)
(* firing; nobody has to make a request.                                   *)
(***************************************************************************)
Spec ==
    /\ Init /\ [][Next]_vars
    /\ \A w \in Worker : WF_vars(Finish(w))
    /\ WF_vars(CheckSla)

------------------------------------------------------------------------------
(***************************************************************************)
(* Properties.                                                             *)
(***************************************************************************)
RowType ==
    [status : TicketStatuses, assigneeId : User \union {NoOne},
     resolvedById : User \union {NoOne}, resolvedAt : 0..MaxRequests,
     firstResolvedAt : 0..MaxRequests, discardReason : BOOLEAN,
     reopenCount : 0..MaxRequests, firstResponseAt : 0..MaxRequests,
     resolutionBreached : BOOLEAN, deleted : BOOLEAN]

\* Every column and every worker's copy of it holds what it can hold.
TypeOK ==
    /\ row \in RowType
    /\ overdue \in BOOLEAN /\ overlapped \in BOOLEAN
    /\ served \in 0..MaxRequests
    /\ pc \in [Worker -> {"idle", "called", "read", "loaded"}]
    /\ call \in [Worker -> [status : TicketStatuses, by : User \union {NoOne},
                            taker : User \union {NoOne}]]
    /\ mine \in [Worker -> RowType]
    /\ \A w \in Worker : Merged(StoredTicket, changes[w]) \in RowType
    /\ stale \in [Worker -> BOOLEAN]

\* "these statuses always have an assignee" (ticket-assignment-rule.ts:10), and
\* the queue has nobody: of the row in the database.
AssignmentRule == AssignmentFits(row.status, row.assigneeId)

\* The rule, and a resolution that agrees with the status, hold for as long as no
\* request has saved over a save made since its read: what breaks them is the
\* missing isolation of save(), not the two reads of a status change, between
\* which the ticket may lose the assignee or the status the command saw.
RulesHoldInIsolation ==
    ~overlapped =>
        /\ AssignmentRule
        /\ ~IsClosed(row.status) => row.resolvedAt = Never /\ ~row.discardReason
        /\ row.status = "resolved" => row.resolvedAt # Never
        /\ row.resolvedAt # Never => row.firstResolvedAt # Never

\* "The first resolution is kept apart, for good" (ticket-resolution.ts:10): so
\* it is, likewise.
FirstKeptInIsolation ==
    [][~overlapped' /\ row.firstResolvedAt # Never =>
         row'.firstResolvedAt = row.firstResolvedAt]_vars

\* No save of a ticket read before it was deleted brings it back.
DeletedForGood == [][row.deleted => row'.deleted]_vars

\* An SLA breach of a ticket that stays unresolved ends flagged for good: a save
\* of an older read may take the flag back, the checker then sets it again.
BreachEndsFlagged ==
    <>[](/\ overdue /\ ~row.deleted
        /\ ~IsClosed(row.status) /\ row.resolvedAt = Never)
        => <>[](row.resolutionBreached)

==============================================================================
