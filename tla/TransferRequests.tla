--------------------------- MODULE TransferRequests ---------------------------
(***************************************************************************)
(* The transfer requests of one ticket while several calls are served:     *)
(* every call reads, checks and then writes, the acceptance in two writes  *)
(* (the ticket, then the request), and the expiry service finds and marks  *)
(* in two statements.  No write repeats the check.  The process may stop   *)
(* between any two steps.                                                  *)
(***************************************************************************)
EXTENDS TicketRules

CONSTANTS
    Reporter,       \* the ticket's reporter
    Agents,         \* who may hold a ticket: members whose role picks up
    Request,        \* ids of transfer requests
    Worker,         \* calls in flight at once
    TransferTTL,    \* TRANSFER_TTL
    MaxTime,        \* bound: the clock stops here
    MaxCrashes      \* bound: restarts of the process

ASSUME TransferAssumption ==
    /\ Reporter \in User /\ Agents \subseteq User
    /\ TransferTTL \in Nat /\ MaxTime \in Nat \ {0} /\ MaxCrashes \in Nat

VARIABLES
    ticket,         \* status and assignee of the ticket
    requests,       \* the rows; "none" is a request not inserted yet
    doing,          \* what each worker is in the middle of
    found,          \* requests the expiry service is about to mark
    handedOver,     \* requests whose target got the ticket by accepting
    crashes, now

vars == <<ticket, requests, doing, found, handedOver, crashes, now>>

Answers == {"accepted", "rejected", "cancelled", "expired"}

NoRequest == [status |-> "none", requesterId |-> NoOne,
              targetUserId |-> NoOne, expiresAt |-> Never]

\* step is the next write of the call: insert, handOver or answer
Idle == [step |-> "idle", request |-> NoOne, row |-> NoRequest]

Init ==
    /\ ticket = [status |-> "open", assigneeId |-> NoOne]
    /\ requests = [r \in Request |-> NoRequest]
    /\ doing = [w \in Worker |-> Idle]
    /\ found = {}
    /\ handedOver = {}
    /\ crashes = 0
    /\ now = 1

Pending == {r \in Request : requests[r].status = "pending"}

Begins(w, step, r, row) ==
    /\ doing[w] = Idle
    /\ doing' = [doing EXCEPT ![w] = [step |-> step, request |-> r, row |-> row]]
    /\ UNCHANGED <<ticket, requests, found, handedOver, crashes, now>>

Ends(w) == doing' = [doing EXCEPT ![w] = Idle]

------------------------------------------------------------------------------
(***************************************************************************)
(* CreateTransferRequest: no pending request is found, then one is         *)
(* inserted.  Bound: a request is made only while the clock can expire it. *)
(***************************************************************************)
\* Faulty: the deadline is counted twice.
CheckNoPendingLong(w, r, u, target) ==
    /\ requests[r] = NoRequest /\ Pending = {}
    /\ \A v \in Worker : doing[v].request # r
    /\ now + TransferTTL < MaxTime
    /\ u \in {ticket.assigneeId, Reporter} /\ target # u
    /\ Begins(w, "insert", r,
              [status |-> "pending", requesterId |-> u, targetUserId |-> target,
               expiresAt |-> now + TransferTTL + TransferTTL])

CheckNoPending(w, r, u, target) ==
    /\ requests[r] = NoRequest
    /\ \A v \in Worker : doing[v].request # r
    /\ now + TransferTTL < MaxTime
    /\ u \in {ticket.assigneeId, Reporter}
    /\ target # u
    /\ Pending = {}
    /\ Begins(w, "insert", r,
              [status |-> "pending", requesterId |-> u,
               targetUserId |-> target, expiresAt |-> now + TransferTTL])

Insert(w) ==
    /\ doing[w].step = "insert"
    /\ requests' = [requests EXCEPT ![doing[w].request] = doing[w].row]
    /\ Ends(w)
    /\ UNCHANGED <<ticket, found, handedOver, crashes, now>>

(***************************************************************************)
(* AcceptTransferRequest, by the target.  In time: the ticket, then the    *)
(* answer.  Too late: the answer is that it expired.                       *)
(***************************************************************************)
\* Faulty: answers before the ticket is handed over.
AnswerFirst(w, r) ==
    /\ requests[r].status = "pending"
    /\ Begins(w, "answer", r, [requests[r] EXCEPT !.status = "accepted"])

ReadToAccept(w, r) ==
    LET row == requests[r]
        late == row.expiresAt < now
    IN  /\ row.status = "pending"
        /\ Begins(w, IF late THEN "answer" ELSE "handOver", r,
                  [row EXCEPT !.status = IF late THEN "expired" ELSE "accepted"])

HandOver(w) ==
    LET call == doing[w]
    IN  /\ call.step = "handOver"
        /\ ticket' = AfterTransfer(ticket, call.row.targetUserId)
        /\ handedOver' = handedOver \union {call.request}
        /\ doing' = [doing EXCEPT ![w].step = "answer"]
        /\ UNCHANGED <<requests, found, crashes, now>>

(***************************************************************************)
(* RejectTransferRequest by the target, CancelTransferRequest by the       *)
(* requester or a supervisor.                                              *)
(***************************************************************************)
ReadToAnswer(w, r, answer) ==
    /\ requests[r].status = "pending"
    /\ answer \in {"rejected", "cancelled"}
    /\ Begins(w, "answer", r, [requests[r] EXCEPT !.status = answer])

\* update() of the status and its time by id, whatever the row says by now
Answer(w) ==
    LET call == doing[w]
    IN  /\ call.step = "answer"
        /\ requests' = [requests EXCEPT ![call.request].status = call.row.status]
        /\ Ends(w)
        /\ UNCHANGED <<ticket, found, handedOver, crashes, now>>

(***************************************************************************)
(* TransferRequestExpiryService: expirePendingBefore finds, then updates.  *)
(***************************************************************************)
\* Faulty: off by one at the deadline.
FindExpiredEarly ==
    /\ found = {}
    /\ found' = {r \in Pending : requests[r].expiresAt <= now}
    /\ found' # {}
    /\ UNCHANGED <<ticket, requests, doing, handedOver, crashes, now>>

FindExpired ==
    /\ found = {}
    /\ found' = {r \in Pending : requests[r].expiresAt < now}
    /\ found' # {}
    /\ UNCHANGED <<ticket, requests, doing, handedOver, crashes, now>>

\* Faulty: what was found is not saved.
ForgetExpired ==
    found # {} /\ found' = {} /\ UNCHANGED <<ticket, requests, doing, handedOver, crashes, now>>

MarkExpired ==
    /\ found # {}
    /\ requests' = [r \in Request |->
            IF r \in found THEN [requests[r] EXCEPT !.status = "expired"]
            ELSE requests[r]]
    /\ found' = {}
    /\ UNCHANGED <<ticket, doing, handedOver, crashes, now>>

------------------------------------------------------------------------------
(***************************************************************************)
(* Around them: other commands assign the ticket, the process restarts and *)
(* forgets what it was doing, time passes.                                 *)
(***************************************************************************)
Reassign(who) ==
    /\ ticket' = AfterAssign(ticket, who)
    /\ ticket' # ticket
    /\ UNCHANGED <<requests, doing, found, handedOver, crashes, now>>

Crash ==
    /\ crashes < MaxCrashes
    /\ crashes' = crashes + 1
    /\ doing' = [w \in Worker |-> Idle]
    /\ found' = {}
    /\ UNCHANGED <<ticket, requests, handedOver, now>>

Tick ==
    /\ now < MaxTime
    /\ now' = now + 1
    /\ UNCHANGED <<ticket, requests, doing, found, handedOver, crashes>>

Begin(w) ==
    \/ \E r \in Request, u \in User, target \in Agents : CheckNoPending(w, r, u, target)
    \/ \E r \in Request : ReadToAccept(w, r)
    \/ \E r \in Request, answer \in Answers : ReadToAnswer(w, r, answer)

Finish(w) == Insert(w) \/ HandOver(w) \/ Answer(w)

Expire == FindExpired \/ MarkExpired

Next ==
    \/ \E w \in Worker : Begin(w) \/ Finish(w)
    \/ Expire
    \/ \E who \in Agents \union {NoOne} : Reassign(who)
    \/ Crash
    \/ Tick

(***************************************************************************)
(* Calls that began are carried on, the expiry service's timer keeps       *)
(* firing and time passes; nobody has to answer a request.                 *)
(***************************************************************************)
Spec ==
    /\ Init /\ [][Next]_vars
    /\ \A w \in Worker : WF_vars(Finish(w))
    /\ WF_vars(Expire)
    /\ WF_vars(Tick)

------------------------------------------------------------------------------
(***************************************************************************)
(* Properties.                                                             *)
(***************************************************************************)
RequestType ==
    [status : {"none", "pending"} \union Answers,
     requesterId : User \union {NoOne}, targetUserId : User \union {NoOne},
     expiresAt : 0..(MaxTime - 1)]

\* Every row and every call in flight holds what it can hold.
TypeOK ==
    /\ ticket \in [status : TicketStatuses, assigneeId : User \union {NoOne}]
    /\ requests \in [Request -> RequestType]
    /\ doing \in [Worker -> [step : {"idle", "insert", "handOver", "answer"},
                             request : Request \union {NoOne}, row : RequestType]]
    /\ found \subseteq Request
    /\ handedOver \subseteq Request
    /\ crashes \in 0..MaxCrashes
    /\ now \in 1..MaxTime

\* A request that reads as accepted did hand the ticket over: the ticket is
\* saved before the answer, so a restart between the two leaves a pending
\* request on a ticket already handed over, never the other way round.
AcceptedWasHandedOver ==
    \A r \in Request : requests[r].status = "accepted" => r \in handedOver

\* No request reads as expired before its deadline, whoever marks it.
ExpiredPastDeadline ==
    \A r \in Request :
        requests[r].status = "expired" => requests[r].expiresAt < now

\* "Transfer requests expire automatically after 48 hours if not responded"
\* (changelog.data.ts:1231): none stays pending for ever, whatever calls race
\* with the expiry service and whenever the process restarts.
PendingEnds ==
    \A r \in Request :
        (requests[r].status = "pending") ~> (requests[r].status # "pending")

==============================================================================
