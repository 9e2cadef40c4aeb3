------------------------ MODULE TransferAndMailProofs ------------------------
(***************************************************************************)
(* Proofs about the two components that timers of one process carry on and *)
(* that a restart interrupts: TransferRequests, for any people, requests,  *)
(* calls at once, deadline and restarts, and MailPolling, for any          *)
(* messages, batches at once, settings and days. They share no state.      *)
(***************************************************************************)
EXTENDS TransferRequests, MailPolling, FiniteSetTheorems, TLAPS

(***************************************************************************)
(* Transfer requests: what an accepted and an expired request still mean   *)
(* although no write repeats the check that allowed it. First, what a call *)
(* in flight knows of the request it is about to write.                    *)
(***************************************************************************)
\* An insert is the only call that has its request, which is not there yet.
InsertAlone(w) ==
    /\ doing[w].row.status = "pending"
    /\ requests[doing[w].request].status = "none"
    /\ \A v \in Worker \ {w} :
         doing[v].step # "idle" => doing[v].request # doing[w].request

\* An answer that says accepted comes after its hand-over, one that says
\* expired comes after the deadline.
AnswerMeant(w) ==
    /\ doing[w].row.status \in Answers
    /\ doing[w].row.status = "accepted" => doing[w].request \in handedOver
    /\ doing[w].row.status = "expired" =>
         requests[doing[w].request].expiresAt < now

CallKnows(w) ==
    /\ doing[w].step # "idle" => doing[w].request \in Request
    /\ doing[w].step = "insert" => InsertAlone(w)
    /\ doing[w].step = "handOver" => doing[w].row.status = "accepted"
    /\ doing[w].step = "answer" => AnswerMeant(w)
    /\ doing[w].step \in {"handOver", "answer"} =>
         requests[doing[w].request].status # "none"

FoundKnows ==
    \A r \in found : requests[r].status # "none" /\ requests[r].expiresAt < now

IInv ==
    /\ TypeOK
    /\ AcceptedWasHandedOver
    /\ ExpiredPastDeadline
    /\ \A w \in Worker : CallKnows(w)
    /\ FoundKnows

USE DEF Pending, Answers

------------------------------------------------------------------------------
\* Nothing is asked for and nothing is in flight at first.
LEMMA InitKnows == Init => IInv
<1> SUFFICES ASSUME Init PROVE IInv
  OBVIOUS
<1>1. NoRequest \in RequestType
  BY TransferAssumption DEF NoRequest, RequestType, Never
<1>2. Idle \in [step : {"idle", "insert", "handOver", "answer"},
                request : Request \union {NoOne}, row : RequestType]
  BY <1>1 DEF Idle
<1>3. TypeOK
  BY <1>1, <1>2, TransferAssumption DEF Init, TypeOK, TicketStatuses
<1>4. AcceptedWasHandedOver /\ ExpiredPastDeadline /\ FoundKnows
  BY DEF Init, NoRequest, AcceptedWasHandedOver, ExpiredPastDeadline, FoundKnows
<1>5. \A w \in Worker : CallKnows(w)
  BY DEF Init, Idle, CallKnows
<1> QED
  BY <1>3, <1>4, <1>5 DEF IInv

------------------------------------------------------------------------------
(***************************************************************************)
(* A call that begins.                                                     *)
(***************************************************************************)
CallType == [step : {"idle", "insert", "handOver", "answer"},
             request : Request \union {NoOne}, row : RequestType]

\* A call that begins only adds what it knows to what the others know.
LEMMA BeginsKnows ==
    ASSUME IInv, NEW w \in Worker,
           NEW step \in {"insert", "handOver", "answer"}, NEW r \in Request,
           NEW row \in RequestType, Begins(w, step, r, row),
           CallKnows(w)',
           \A v \in Worker : doing[v].step = "insert" => doing[v].request # r
    PROVE  IInv'
<1> USE DEF IInv
<1>1. /\ doing' = [doing EXCEPT ![w] = [step |-> step, request |-> r, row |-> row]]
      /\ UNCHANGED <<ticket, requests, found, handedOver, crashes, now>>
  BY DEF Begins
<1>2. TypeOK'
  <2>1. [step |-> step, request |-> r, row |-> row] \in CallType
    BY DEF CallType
  <2> QED
    BY <1>1, <2>1 DEF TypeOK, CallType
<1>3. (AcceptedWasHandedOver /\ ExpiredPastDeadline /\ FoundKnows)'
  BY <1>1 DEF AcceptedWasHandedOver, ExpiredPastDeadline, FoundKnows
<1>4. ASSUME NEW v \in Worker, v # w
      PROVE  CallKnows(v)'
  <2>1. doing'[v] = doing[v] /\ CallKnows(v)
    BY <1>1, <1>4 DEF TypeOK
  <2>2. ASSUME doing[v].step = "insert"
        PROVE  InsertAlone(v)'
    <3>1. InsertAlone(v) /\ doing[v].request # r
      BY <2>1, <2>2 DEF CallKnows
    <3>2. \A x \in Worker \ {v} :
            doing'[x].step # "idle" => doing'[x].request # doing'[v].request
      BY <1>1, <2>1, <3>1 DEF InsertAlone, TypeOK
    <3> QED
      BY <1>1, <2>1, <3>1, <3>2 DEF InsertAlone
  <2>3. ASSUME doing[v].step = "answer"
        PROVE  AnswerMeant(v)'
    BY <1>1, <2>1, <2>3 DEF CallKnows, AnswerMeant
  <2> QED
    BY <1>1, <2>1, <2>2, <2>3 DEF CallKnows
<1> QED
  BY <1>2, <1>3, <1>4

\* Nobody is inserting a request that is there already.
LEMMA NoInsertOfPending ==
    ASSUME IInv, NEW r \in Request, requests[r].status = "pending"
    PROVE  \A v \in Worker : doing[v].step = "insert" => doing[v].request # r
  BY DEF IInv, CallKnows, InsertAlone

\* Every call begins knowing what it needs.
LEMMA BeginKnows ==
    ASSUME IInv, NEW w \in Worker, Begin(w)
    PROVE  IInv'
<1> USE DEF IInv
<1>0. /\ now \in 1..MaxTime /\ requests \in [Request -> RequestType]
      /\ doing \in [Worker -> CallType]
      /\ TransferTTL \in Nat /\ MaxTime \in Nat
  BY TransferAssumption DEF TypeOK, CallType
<1>1. ASSUME NEW r \in Request, NEW u \in User, NEW target \in Agents,
             CheckNoPending(w, r, u, target)
      PROVE  IInv'
  <2> DEFINE asked == [status |-> "pending", requesterId |-> u,
                       targetUserId |-> target, expiresAt |-> now + TransferTTL]
  <2>1. asked \in RequestType
    <3>1. now + TransferTTL \in 0..(MaxTime - 1) /\ target \in User
      BY <1>0, <1>1, TransferAssumption DEF CheckNoPending
    <3> QED
      BY <3>1 DEF RequestType
  <2>2. /\ requests[r] = NoRequest /\ Begins(w, "insert", r, asked)
        /\ \A v \in Worker : doing[v].request # r
    BY <1>1 DEF CheckNoPending
  <2>3. /\ doing' = [doing EXCEPT ![w] =
                       [step |-> "insert", request |-> r, row |-> asked]]
        /\ requests' = requests
    BY <2>2 DEF Begins
  <2>4. /\ doing'[w].step = "insert" /\ doing'[w].request = r
        /\ doing'[w].row = asked
        /\ \A v \in Worker \ {w} : doing'[v] = doing[v]
    BY <1>0, <2>3
  <2>5. InsertAlone(w)'
    BY <2>2, <2>3, <2>4 DEF InsertAlone, NoRequest
  <2>6. CallKnows(w)'
    BY <2>4, <2>5 DEF CallKnows
  <2> HIDE DEF asked
  <2> QED
    BY <2>1, <2>2, <2>6, BeginsKnows
<1>2. ASSUME NEW r \in Request, NEW step \in {"handOver", "answer"},
             NEW answer \in Answers, requests[r].status = "pending",
             Begins(w, step, r, [requests[r] EXCEPT !.status = answer]),
             step = "handOver" <=> answer = "accepted",
             answer = "expired" => requests[r].expiresAt < now
      PROVE  IInv'
  <2> DEFINE answered == [requests[r] EXCEPT !.status = answer]
  <2>1. answered \in RequestType /\ answered.status = answer
    BY <1>0 DEF RequestType
  <2>2. /\ doing' = [doing EXCEPT ![w] =
                       [step |-> step, request |-> r, row |-> answered]]
        /\ requests' = requests /\ now' = now
    BY <1>2 DEF Begins
  <2>3. /\ doing'[w].step = step /\ doing'[w].request = r
        /\ doing'[w].row = answered
    BY <1>0, <2>2
  <2>4. step = "answer" => AnswerMeant(w)'
    BY <1>2, <2>1, <2>2, <2>3 DEF AnswerMeant
  <2>5. CallKnows(w)'
    BY <1>2, <2>1, <2>2, <2>3, <2>4 DEF CallKnows
  <2>6. \A v \in Worker : doing[v].step = "insert" => doing[v].request # r
    BY <1>2, NoInsertOfPending
  <2> HIDE DEF answered
  <2> QED
    BY <1>2, <2>1, <2>5, <2>6, BeginsKnows DEF answered
<1>3. ASSUME NEW r \in Request, ReadToAccept(w, r)
      PROVE  IInv'
  <2>1. CASE requests[r].expiresAt < now
    BY <1>2, <1>3, <2>1 DEF ReadToAccept
  <2>2. CASE ~(requests[r].expiresAt < now)
    BY <1>2, <1>3, <2>2 DEF ReadToAccept
  <2> QED
    BY <2>1, <2>2
<1>4. ASSUME NEW r \in Request, NEW answer \in Answers, ReadToAnswer(w, r, answer)
      PROVE  IInv'
  BY <1>2, <1>4 DEF ReadToAnswer
<1> QED
  BY <1>1, <1>3, <1>4 DEF Begin

------------------------------------------------------------------------------
(***************************************************************************)
(* A call that goes on.                                                    *)
(***************************************************************************)
\* Who is where in IInv, once.
LEMMA Shapes ==
    ASSUME IInv
    PROVE  /\ now \in 1..MaxTime /\ requests \in [Request -> RequestType]
           /\ doing \in [Worker -> CallType]
           /\ found \subseteq Request /\ handedOver \subseteq Request
           /\ Idle \in CallType /\ Idle.step = "idle"
<1>1. NoRequest \in RequestType
  BY TransferAssumption DEF NoRequest, RequestType, Never
<1> QED
  BY <1>1 DEF IInv, TypeOK, CallType, Idle

\* The row that is inserted is nobody else's.
LEMMA InsertKnows ==
    ASSUME IInv, NEW w \in Worker, Insert(w)
    PROVE  IInv'
<1> DEFINE r == doing[w].request
<1>1. /\ requests' = [requests EXCEPT ![r] = doing[w].row]
      /\ doing' = [doing EXCEPT ![w] = Idle]
      /\ UNCHANGED <<ticket, found, handedOver, crashes, now>>
  BY DEF Insert, Ends
<1>2. InsertAlone(w) /\ r \in Request /\ doing[w].row \in RequestType
  BY Shapes DEF Insert, IInv, CallKnows, CallType
<1>3. /\ requests'[r].status = "pending"
      /\ \A q \in Request \ {r} : requests'[q] = requests[q]
  BY <1>1, <1>2, Shapes DEF InsertAlone
<1>4. r \notin found
  BY <1>2 DEF IInv, FoundKnows, InsertAlone
<1>5. TypeOK'
  BY <1>1, <1>2, Shapes DEF IInv, TypeOK, CallType
<1>6. (AcceptedWasHandedOver /\ ExpiredPastDeadline /\ FoundKnows)'
  <2>1. found' = found /\ found \subseteq Request /\ handedOver' = handedOver /\ now' = now
    BY <1>1, Shapes
  <2> QED
    BY <1>3, <1>4, <2>1 DEF IInv, AcceptedWasHandedOver, ExpiredPastDeadline, FoundKnows
<1>7. ASSUME NEW v \in Worker
      PROVE  CallKnows(v)'
  <2>1. CASE v = w
    BY <1>1, <2>1, Shapes DEF CallKnows
  <2>2. CASE v # w
    <3>1. doing'[v] = doing[v] /\ CallKnows(v)
      BY <1>1, <2>2, Shapes DEF IInv
    <3>2. doing[v].step # "idle" =>
            doing[v].request # r /\ doing[v].request \in Request
      BY <1>2, <2>2, <3>1 DEF InsertAlone, CallKnows
    <3>3. doing[v].step # "idle" =>
            requests'[doing[v].request] = requests[doing[v].request]
      BY <1>3, <3>2
    <3>4. ASSUME doing[v].step = "insert"
          PROVE  InsertAlone(v)'
      <4>1. InsertAlone(v)
        BY <3>1, <3>4 DEF CallKnows
      <4>2. \A x \in Worker : doing'[x] = doing[x] \/ doing'[x].step = "idle"
        BY <1>1, Shapes
      <4> QED
        BY <3>1, <3>3, <3>4, <4>1, <4>2 DEF InsertAlone
    <3>5. ASSUME doing[v].step = "answer"
          PROVE  AnswerMeant(v)'
      BY <1>1, <3>1, <3>3, <3>5 DEF CallKnows, AnswerMeant
    <3> QED
      BY <3>1, <3>3, <3>4, <3>5 DEF CallKnows
  <2> QED
    BY <2>1, <2>2
<1> QED
  BY <1>5, <1>6, <1>7 DEF IInv

\* The hand-over puts the request where AcceptedWasHandedOver wants it.
LEMMA HandOverKnows ==
    ASSUME IInv, NEW w \in Worker, HandOver(w)
    PROVE  IInv'
<1> DEFINE call == doing[w]
<1>1. /\ ticket' = AfterTransfer(ticket, call.row.targetUserId)
      /\ handedOver' = handedOver \union {call.request}
      /\ doing' = [doing EXCEPT ![w].step = "answer"]
      /\ call.step = "handOver"
      /\ UNCHANGED <<requests, found, crashes, now>>
  BY DEF HandOver
<1>2. /\ call.request \in Request /\ call.row \in RequestType
      /\ call.row.status = "accepted" /\ requests[call.request].status # "none"
  BY <1>1, Shapes DEF IInv, CallKnows, CallType
<1>3. /\ doing'[w].step = "answer" /\ doing'[w].request = call.request
      /\ doing'[w].row = call.row
      /\ \A v \in Worker \ {w} : doing'[v] = doing[v]
  BY <1>1, Shapes DEF CallType
<1>4. TypeOK'
  <2>1. ticket' \in [status : TicketStatuses, assigneeId : User \union {NoOne}]
    BY <1>1, <1>2, Shapes DEF IInv, TypeOK, AfterTransfer, AfterAssign,
       TicketStatuses, WorkStatuses, ClosedStatuses, IsWork, IsClosed, RequestType
  <2> QED
    BY <1>1, <1>2, <2>1, Shapes DEF IInv, TypeOK, CallType
<1>5. (AcceptedWasHandedOver /\ ExpiredPastDeadline /\ FoundKnows)'
  BY <1>1 DEF IInv, AcceptedWasHandedOver, ExpiredPastDeadline, FoundKnows
<1>6. CallKnows(w)'
  BY <1>1, <1>2, <1>3 DEF CallKnows, AnswerMeant
<1>7. ASSUME NEW v \in Worker, v # w
      PROVE  CallKnows(v)'
  <2>1. doing'[v] = doing[v] /\ CallKnows(v)
    BY <1>3, <1>7 DEF IInv
  <2>2. ASSUME doing[v].step = "insert"
        PROVE  InsertAlone(v)'
    <3>1. InsertAlone(v)
      BY <2>1, <2>2 DEF CallKnows
    <3>2. \A x \in Worker :
            doing'[x].request = doing[x].request /\
            (doing'[x].step # "idle" => doing[x].step # "idle")
      BY <1>1, <1>3
    <3> QED
      BY <1>1, <2>1, <3>1, <3>2 DEF InsertAlone
  <2>3. ASSUME doing[v].step = "answer"
        PROVE  AnswerMeant(v)'
    BY <1>1, <2>1, <2>3 DEF CallKnows, AnswerMeant
  <2> QED
    BY <1>1, <2>1, <2>2, <2>3 DEF CallKnows
<1> QED
  BY <1>4, <1>5, <1>6, <1>7 DEF IInv

------------------------------------------------------------------------------
(***************************************************************************)
(* Writes of a status alone: an answer, and what the expiry service marks. *)
(***************************************************************************)
\* Statuses change to something, deadlines stay, calls only end.
LEMMA StatusWritesKnow ==
    ASSUME IInv, TypeOK', AcceptedWasHandedOver', ExpiredPastDeadline',
           now' \in Nat, now <= now', handedOver' = handedOver,
           found' = found \/ found' = {},
           \A v \in Worker : doing'[v] = doing[v] \/ doing'[v] = Idle,
           \A r \in Request :
             /\ requests'[r].expiresAt = requests[r].expiresAt
             /\ requests[r].status = "none" <=> requests'[r].status = "none"
    PROVE  IInv'
<1>1. FoundKnows'
  <2>1. found \subseteq Request /\ requests \in [Request -> RequestType] /\ now \in 1..MaxTime
    BY Shapes
  <2>2. \A r \in Request : requests[r].expiresAt \in Nat
    BY <2>1 DEF RequestType
  <2> QED
    BY <2>1, <2>2, TransferAssumption DEF IInv, FoundKnows
<1>2. ASSUME NEW v \in Worker
      PROVE  CallKnows(v)'
  <2>1. CASE doing'[v] = Idle
    BY <2>1, Shapes DEF CallKnows
  <2>2. CASE doing'[v] = doing[v]
    <3>1. CallKnows(v)
      BY DEF IInv
    <3>2. ASSUME doing[v].step = "insert"
          PROVE  InsertAlone(v)'
      <4>1. InsertAlone(v) /\ doing[v].request \in Request
        BY <3>1, <3>2 DEF CallKnows
      <4>2. \A x \in Worker : doing'[x].step # "idle" => doing'[x] = doing[x]
        BY Shapes
      <4> QED
        BY <2>2, <4>1, <4>2 DEF InsertAlone
    <3>3. ASSUME doing[v].step = "answer"
          PROVE  AnswerMeant(v)'
      <4>1. AnswerMeant(v) /\ doing[v].request \in Request
        BY <3>1, <3>3 DEF CallKnows
      <4>2. requests[doing[v].request].expiresAt \in Nat /\ now \in Nat
        BY <4>1, Shapes, TransferAssumption DEF RequestType
      <4> QED
        BY <2>2, <4>1, <4>2 DEF AnswerMeant
    <3> QED
      BY <2>2, <3>1, <3>2, <3>3 DEF CallKnows
  <2> QED
    BY <2>1, <2>2
<1> QED
  BY <1>1, <1>2 DEF IInv

\* An answer says what its call knew.
LEMMA AnswerKnows ==
    ASSUME IInv, NEW w \in Worker, Answer(w)
    PROVE  IInv'
<1> DEFINE call == doing[w]
<1>1. /\ requests' = [requests EXCEPT ![call.request].status = call.row.status]
      /\ doing' = [doing EXCEPT ![w] = Idle]
      /\ UNCHANGED <<ticket, found, handedOver, crashes, now>>
  BY DEF Answer, Ends
<1>2. /\ call.request \in Request /\ AnswerMeant(w)
      /\ requests[call.request].status # "none"
  BY DEF Answer, IInv, CallKnows
<1>3. /\ requests'[call.request] =
             [requests[call.request] EXCEPT !.status = call.row.status]
      /\ \A r \in Request \ {call.request} : requests'[r] = requests[r]
  BY <1>1, <1>2, Shapes
<1>4. /\ requests'[call.request].status = call.row.status
      /\ requests'[call.request].expiresAt = requests[call.request].expiresAt
      /\ requests'[call.request] \in RequestType
  BY <1>2, <1>3, Shapes DEF RequestType, AnswerMeant
<1>5. requests' \in [Request -> RequestType] /\ doing' \in [Worker -> CallType]
  BY <1>1, <1>3, <1>4, Shapes
<1>6. TypeOK'
  BY <1>1, <1>5 DEF IInv, TypeOK, CallType
<1>7. AcceptedWasHandedOver' /\ ExpiredPastDeadline'
  BY <1>1, <1>2, <1>3, <1>4 DEF IInv, AcceptedWasHandedOver, ExpiredPastDeadline, AnswerMeant
<1>8. \A r \in Request :
        /\ requests'[r].expiresAt = requests[r].expiresAt
        /\ requests[r].status = "none" <=> requests'[r].status = "none"
  BY <1>2, <1>3, <1>4 DEF AnswerMeant
<1>9. \A v \in Worker : doing'[v] = doing[v] \/ doing'[v] = Idle
  BY <1>1, Shapes
<1>10. now' \in Nat /\ now <= now'
  BY <1>1, Shapes, TransferAssumption
<1> QED
  BY <1>1, <1>6, <1>7, <1>8, <1>9, <1>10, StatusWritesKnow

\* The expiry service marks what it found, and time has not gone back.
LEMMA MarkKnows ==
    ASSUME IInv, MarkExpired
    PROVE  IInv'
<1>1. /\ requests' = [r \in Request |->
              IF r \in found THEN [requests[r] EXCEPT !.status = "expired"]
              ELSE requests[r]]
      /\ found' = {}
      /\ UNCHANGED <<ticket, doing, handedOver, crashes, now>>
  BY DEF MarkExpired
<1>2. \A r \in Request :
        /\ requests'[r] \in RequestType
        /\ requests'[r].expiresAt = requests[r].expiresAt
        /\ r \in found => requests'[r].status = "expired"
        /\ r \notin found => requests'[r] = requests[r]
  BY <1>1, Shapes DEF RequestType
<1>3. requests' \in [Request -> RequestType]
  BY <1>1, <1>2
<1>4. TypeOK'
  BY <1>1, <1>3 DEF IInv, TypeOK
<1>5. AcceptedWasHandedOver' /\ ExpiredPastDeadline'
  BY <1>1, <1>2 DEF IInv, AcceptedWasHandedOver, ExpiredPastDeadline, FoundKnows
<1>6. \A r \in Request : requests[r].status = "none" <=> requests'[r].status = "none"
  BY <1>2 DEF IInv, FoundKnows
<1>7. now' \in Nat /\ now <= now'
  BY <1>1, Shapes, TransferAssumption
<1> QED
  BY <1>1, <1>2, <1>4, <1>5, <1>6, <1>7, StatusWritesKnow

------------------------------------------------------------------------------
(***************************************************************************)
(* What goes on around the calls.                                          *)
(***************************************************************************)
\* What is found to be expired is past its deadline when it is found.
LEMMA FindKnows ==
    ASSUME IInv, FindExpired
    PROVE  IInv'
<1>1. /\ found' = {r \in Pending : requests[r].expiresAt < now}
      /\ UNCHANGED <<ticket, requests, doing, handedOver, crashes, now>>
  BY DEF FindExpired
<1>2. TypeOK'
  BY <1>1 DEF IInv, TypeOK
<1>3. (AcceptedWasHandedOver /\ ExpiredPastDeadline /\ FoundKnows)'
  BY <1>1 DEF IInv, AcceptedWasHandedOver, ExpiredPastDeadline, FoundKnows
<1>4. ASSUME NEW v \in Worker
      PROVE  CallKnows(v)'
  BY <1>1 DEF IInv, CallKnows, InsertAlone, AnswerMeant
<1> QED
  BY <1>2, <1>3, <1>4 DEF IInv

\* Somebody else assigns the ticket: no request says anything of it.
LEMMA ReassignKnows ==
    ASSUME IInv, NEW who \in Agents \union {NoOne}, Reassign(who)
    PROVE  IInv'
<1>1. /\ ticket' = AfterAssign(ticket, who)
      /\ UNCHANGED <<requests, doing, found, handedOver, crashes, now>>
  BY DEF Reassign
<1>2. ticket' \in [status : TicketStatuses, assigneeId : User \union {NoOne}]
  BY <1>1, TransferAssumption
     DEF IInv, TypeOK, AfterAssign, StatusForAssignee, SettleAssignment, TicketStatuses,
         WorkStatuses, ClosedStatuses, IsWork, IsClosed
<1>3. TypeOK'
  BY <1>1, <1>2 DEF IInv, TypeOK
<1>4. (AcceptedWasHandedOver /\ ExpiredPastDeadline /\ FoundKnows)'
  BY <1>1 DEF IInv, AcceptedWasHandedOver, ExpiredPastDeadline, FoundKnows
<1>5. ASSUME NEW v \in Worker
      PROVE  CallKnows(v)'
  BY <1>1 DEF IInv, CallKnows, InsertAlone, AnswerMeant
<1> QED
  BY <1>3, <1>4, <1>5 DEF IInv

\* A restart forgets the calls, not what they wrote.
LEMMA CrashKnows ==
    ASSUME IInv, Crash
    PROVE  IInv'
<1>1. /\ doing' = [w \in Worker |-> Idle] /\ found' = {}
      /\ crashes' \in 0..MaxCrashes
      /\ UNCHANGED <<ticket, requests, handedOver, now>>
  BY TransferAssumption DEF Crash, IInv, TypeOK
<1>2. TypeOK'
  BY <1>1, Shapes DEF IInv, TypeOK, CallType
<1>3. now' \in Nat /\ now <= now'
  BY <1>1, Shapes, TransferAssumption
<1>4. AcceptedWasHandedOver' /\ ExpiredPastDeadline'
  BY <1>1 DEF IInv, AcceptedWasHandedOver, ExpiredPastDeadline
<1> QED
  BY <1>1, <1>2, <1>3, <1>4, StatusWritesKnow

\* A deadline that has passed stays passed.
LEMMA TickKnows ==
    ASSUME IInv, Tick
    PROVE  IInv'
<1>1. /\ now' = now + 1 /\ now' \in 1..MaxTime
      /\ UNCHANGED <<ticket, requests, doing, found, handedOver, crashes>>
  BY Shapes, TransferAssumption DEF Tick
<1>2. TypeOK'
  BY <1>1 DEF IInv, TypeOK
<1>3. now' \in Nat /\ now <= now'
  BY <1>1, Shapes, TransferAssumption
<1>4. AcceptedWasHandedOver'
  BY <1>1 DEF IInv, AcceptedWasHandedOver
<1>5. ExpiredPastDeadline'
  <2>1. \A r \in Request : requests[r].expiresAt \in Nat
    BY Shapes, TransferAssumption DEF RequestType
  <2> QED
    BY <1>1, <2>1, Shapes, TransferAssumption DEF IInv, ExpiredPastDeadline
<1> QED
  BY <1>1, <1>2, <1>3, <1>4, <1>5, StatusWritesKnow

------------------------------------------------------------------------------
\* Every step keeps what is known.
LEMMA IInvIsKept == IInv /\ [Next]_vars => IInv'
<1> SUFFICES ASSUME IInv, [Next]_vars PROVE IInv'
  OBVIOUS
<1>1. CASE Next
  <2>1. CASE \E w \in Worker : Begin(w)
    BY <2>1, BeginKnows
  <2>2. CASE \E w \in Worker : Finish(w)
    BY <2>2, InsertKnows, HandOverKnows, AnswerKnows DEF Finish
  <2>3. CASE Expire
    BY <2>3, FindKnows, MarkKnows DEF Expire
  <2>4. CASE \E who \in Agents \union {NoOne} : Reassign(who)
    BY <2>4, ReassignKnows
  <2>5. CASE Crash \/ Tick
    BY <2>5, CrashKnows, TickKnows
  <2> QED
    BY <1>1, <2>1, <2>2, <2>3, <2>4, <2>5 DEF Next
<1>2. CASE UNCHANGED vars
  BY <1>2 DEF vars, IInv, TypeOK, AcceptedWasHandedOver, ExpiredPastDeadline,
     CallKnows, InsertAlone, AnswerMeant, FoundKnows
<1> QED
  BY <1>1, <1>2

LEMMA AlwaysKnown == Spec => []IInv
<1> QED
  BY InitKnows, IInvIsKept, PTL DEF Spec

\* Every row and every call in flight holds what it can hold, for any number
\* of requests and of calls at once.
THEOREM TransferTypeCorrect == Spec => []TypeOK
<1>1. IInv => TypeOK
  BY DEF IInv
<1> QED
  BY <1>1, AlwaysKnown, PTL

\* A request that reads as accepted did hand its ticket over, wherever the
\* process stops and however many calls race: HandOver comes before Answer in
\* the one call that can write "accepted".
THEOREM AcceptanceHandsOver == Spec => []AcceptedWasHandedOver
<1>1. IInv => AcceptedWasHandedOver
  BY DEF IInv
<1> QED
  BY <1>1, AlwaysKnown, PTL

\* No request reads as expired before its deadline, although the mark is
\* written after the check, over whatever the row has become since.
THEOREM ExpiryIsLate == Spec => []ExpiredPastDeadline
<1>1. IInv => ExpiredPastDeadline
  BY DEF IInv
<1> QED
  BY <1>1, AlwaysKnown, PTL

------------------------------------------------------------------------------
(***************************************************************************)
(* Mail: what a batch has at each of its steps, which messages it may have *)
(* passed over, and who may still hold a message or the loop of a mailbox. *)
(***************************************************************************)
BatchType ==
    [kind : {"none", "poll", "import"}, step : Rounds \union {Over, "timer"},
     config : SUBSET Config, since : 1..MaxDay, todo : SUBSET Message,
     msg : SUBSET Message, made : BOOLEAN]

\* What a batch has at each of its steps.
Shaped(c) ==
    /\ c.step \in Handling => \E m \in Message : c.msg = {m}
    /\ c.step \notin Handling => c.msg = {}
    /\ c.made = TRUE => c.step = "mark"
    /\ c.kind = "none" <=> c.step = Over
    /\ c.step \in {"timer", "stamp", "save"} => c.kind = "poll"
    /\ c.step \in {"timer", "fetch", "save", Over} => c.todo = {}
    /\ c.since <= day

\* Messages of days that the loop will not search again; once it has fetched, they
\* are all that have come in.
Behind(c, m) ==
    IF c.step = "stamp" THEN arrived[m] > 0 ELSE arrived[m] \in 1..(c.since - 1)

\* Those the loop still has in memory, unless they are marked or left behind.
PassesOverNone(c) ==
    c.kind = "poll" =>
        \A m \in Message : Behind(c, m) => m \in c.todo \union c.msg \union processed \union slipped

\* No two batches hold a message that is not marked, and its ticket is made once.
TicketsKnown ==
    {"overlap", "fault"} \cap disturbed = {} =>
        \A m \in Message :
           /\ \A b, c \in Batch : m \in batches[b].msg /\ m \in batches[c].msg => b = c
           /\ \A b \in Batch : m \in batches[b].msg => m \notin processed
           /\ tickets[m] <= 1
           /\ \/ tickets[m] = 0 \/ m \in processed
              \/ \E b \in Batch : m \in batches[b].msg /\ batches[b].made = TRUE

\* The loop in the map is the only one.
LoopsKnown ==
    "replaced" \notin disturbed => \A b \in Batch : batches[b].kind = "poll" => b = installed

MailIInv ==
    /\ MailTypeOK
    /\ \A b \in Batch : Shaped(batches[b]) /\ PassesOverNone(batches[b])
    /\ TicketsKnown /\ LoopsKnown

------------------------------------------------------------------------------
(***************************************************************************)
(* Batches.                                                                *)
(***************************************************************************)
LEMMA MailTypes ==
    MailTypeOK <=>
        /\ mailbox \in Row /\ editing \subseteq Caller
        /\ deleted \in BOOLEAN /\ day \in 1..MaxDay
        /\ batches \in [Batch -> BatchType]
        /\ installed \in Batch \union {NoBatch}
        /\ refresh \in [step : {"idle", "list", "apply"}, deleted : BOOLEAN,
                        wanted : SUBSET Config]
        /\ arrived \in [Message -> 0..MaxDay] /\ processed \subseteq Message
        /\ tickets \in [Message -> 0..2] /\ slipped \subseteq Message
        /\ disturbed \subseteq Disturbances
<1> QED
  BY DEF MailTypeOK, BatchType

LEMMA BatchFields ==
    ASSUME MailIInv, NEW b \in Batch
    PROVE  /\ batches[b] \in BatchType /\ Shaped(batches[b]) /\ PassesOverNone(batches[b])
           /\ batches[b] = [kind |-> batches[b].kind, step |-> batches[b].step,
                            config |-> batches[b].config, since |-> batches[b].since,
                            todo |-> batches[b].todo, msg |-> batches[b].msg,
                            made |-> batches[b].made]
           /\ batches[b].kind \in {"none", "poll", "import"}
           /\ batches[b].config \in SUBSET Config /\ batches[b].since \in 1..MaxDay
           /\ batches[b].todo \in SUBSET Message /\ batches[b].msg \in SUBSET Message
           /\ batches[b].made \in BOOLEAN
           /\ batches \in [Batch -> BatchType]
<1>1. batches[b] \in BatchType /\ Shaped(batches[b]) /\ PassesOverNone(batches[b])
      /\ batches \in [Batch -> BatchType]
  BY MailTypes DEF MailIInv
<1> QED
  BY <1>1 DEF BatchType

LEMMA NothingIsBatch ==
    /\ Nothing \in BatchType /\ Nothing.kind = "none" /\ Nothing.step = Over
    /\ Nothing.config = {} /\ Nothing.since = 1 /\ Nothing.todo = {} /\ Nothing.msg = {}
    /\ Nothing.made = FALSE
    /\ Nothing = [kind |-> "none", step |-> Over, config |-> {}, since |-> 1,
                  todo |-> {}, msg |-> {}, made |-> FALSE]
<1>1. 1 \in 1..MaxDay
  BY MailPollingAssumption
<1> QED
  BY <1>1 DEF Nothing, BatchType

LEMMA BatchesBegin ==
    ASSUME NEW wanted, NEW since
    PROVE  /\ Loop(wanted) = [kind |-> "poll", step |-> "fetch", config |-> wanted, since |-> 1,
                              todo |-> {}, msg |-> {}, made |-> FALSE]
           /\ OnRequest(since) = [kind |-> "import", step |-> "fetch", config |-> {},
                                  since |-> since, todo |-> {}, msg |-> {}, made |-> FALSE]
<1>1. PICK over, empty, made, one : over = Over /\ empty = {} /\ made = FALSE /\ one = 1
  OBVIOUS
<1> DEFINE b0 == [kind |-> "none", step |-> over, config |-> empty, since |-> one,
                  todo |-> empty, msg |-> empty, made |-> made]
<1>2. Nothing = b0
  BY <1>1, NothingIsBatch
<1>3. Loop(wanted) = [kind |-> "poll", step |-> "fetch", config |-> wanted, since |-> one,
                      todo |-> empty, msg |-> empty, made |-> made]
  <2> DEFINE c1 == [kind |-> "poll", step |-> over, config |-> empty, since |-> one,
                    todo |-> empty, msg |-> empty, made |-> made]
             c2 == [kind |-> "poll", step |-> "fetch", config |-> empty, since |-> one,
                    todo |-> empty, msg |-> empty, made |-> made]
  <2>1. [b0 EXCEPT !.kind = "poll"] = c1
    OBVIOUS
  <2>2. [c1 EXCEPT !.step = "fetch"] = c2
    OBVIOUS
  <2>3. [c2 EXCEPT !.config = wanted]
          = [kind |-> "poll", step |-> "fetch", config |-> wanted, since |-> one,
             todo |-> empty, msg |-> empty, made |-> made]
    OBVIOUS
  <2> QED
    BY <1>2, <2>1, <2>2, <2>3 DEF Loop
<1>4. OnRequest(since) = [kind |-> "import", step |-> "fetch", config |-> empty,
                          since |-> since, todo |-> empty, msg |-> empty, made |-> made]
  <2> DEFINE c1 == [kind |-> "import", step |-> over, config |-> empty, since |-> one,
                    todo |-> empty, msg |-> empty, made |-> made]
             c2 == [kind |-> "import", step |-> "fetch", config |-> empty, since |-> one,
                    todo |-> empty, msg |-> empty, made |-> made]
  <2>1. [b0 EXCEPT !.kind = "import"] = c1
    OBVIOUS
  <2>2. [c1 EXCEPT !.step = "fetch"] = c2
    OBVIOUS
  <2>3. [c2 EXCEPT !.since = since]
          = [kind |-> "import", step |-> "fetch", config |-> empty, since |-> since,
             todo |-> empty, msg |-> empty, made |-> made]
    OBVIOUS
  <2> QED
    BY <1>2, <2>1, <2>2, <2>3 DEF OnRequest
<1> QED
  BY <1>1, <1>3, <1>4

LEMMA StepsDiffer ==
    /\ Handling = {"route", "create", "mark"}
    /\ Rounds = {"route", "create", "mark", "fetch", "stamp", "next", "save"}
    /\ Over = "over"
<1> QED
  BY DEF Handling, Rounds, Over

LEMMA OneBatch ==
    ASSUME NEW b \in Batch, NEW c \in BatchType, batches \in [Batch -> BatchType],
           batches' = [batches EXCEPT ![b] = c]
    PROVE  /\ batches' \in [Batch -> BatchType] /\ batches'[b] = c
           /\ \A a \in Batch : a # b => batches'[a] = batches[a]
<1> QED
  OBVIOUS

\* A batch goes on; what this means for tickets is left to each step.
LEMMA BatchKept ==
    ASSUME MailIInv, NEW b \in Batch, NEW c \in BatchType, batches' = [batches EXCEPT ![b] = c],
           UNCHANGED <<editing, deleted, day, installed, refresh, arrived>>,
           mailbox' \in Row, tickets' \in [Message -> 0..2],
           processed \subseteq processed', processed' \subseteq Message,
           slipped \subseteq slipped', slipped' \subseteq Message,
           disturbed \subseteq disturbed', disturbed' \subseteq Disturbances,
           Shaped(c), PassesOverNone(c)', TicketsKnown',
           c.kind = "poll" => batches[b].kind = "poll",
           c.kind = "poll" => c.step = "timer" \/ batches[b].step # "timer" \/ installed # NoBatch
    PROVE  MailIInv'
<1>1. MailTypeOK /\ LoopsKnown /\ batches \in [Batch -> BatchType]
  BY MailTypes DEF MailIInv
<1>2. /\ batches' \in [Batch -> BatchType] /\ batches'[b] = c
      /\ \A a \in Batch : a # b => batches'[a] = batches[a]
  BY <1>1, OneBatch
<1>3. MailTypeOK'
  BY <1>1, <1>2 DEF MailTypeOK, BatchType
<1>4. ASSUME NEW a \in Batch PROVE Shaped(batches[a])' /\ PassesOverNone(batches[a])'
  <2>1. CASE a = b
    BY <1>2, <2>1 DEF Shaped, PassesOverNone, Behind
  <2>2. CASE a # b
    <3>1. batches'[a] = batches[a] /\ Shaped(batches[a]) /\ PassesOverNone(batches[a])
      BY <1>2, <2>2 DEF MailIInv
    <3> QED
      BY <3>1 DEF Shaped, PassesOverNone, Behind
  <2> QED
    BY <2>1, <2>2
<1>5. LoopsKnown'
  BY <1>1, <1>2 DEF LoopsKnown
<1> QED
  BY <1>3, <1>4, <1>5 DEF MailIInv

\* A step after which b holds no message that it did not hold, and no message is
\* marked or made a ticket.
LEMMA TicketsAsBefore ==
    ASSUME MailIInv, NEW b \in Batch, NEW c \in BatchType, batches' = [batches EXCEPT ![b] = c],
           UNCHANGED <<processed, tickets>>, disturbed \subseteq disturbed',
           c.msg \subseteq batches[b].msg,
           {"overlap", "fault"} \cap disturbed' = {} =>
             \/ c.msg = batches[b].msg /\ c.made = batches[b].made
             \/ batches[b].made = FALSE
    PROVE  TicketsKnown'
<1>1. batches \in [Batch -> BatchType] /\ TicketsKnown
  BY MailTypes DEF MailIInv
<1>2. /\ batches'[b] = c
      /\ \A a \in Batch : a # b => batches'[a] = batches[a]
  BY <1>1, OneBatch
<1> SUFFICES ASSUME {"overlap", "fault"} \cap disturbed' = {}, NEW m \in Message
             PROVE  /\ \A a, d \in Batch : m \in batches'[a].msg /\ m \in batches'[d].msg => a = d
                    /\ \A a \in Batch : m \in batches'[a].msg => m \notin processed'
                    /\ tickets'[m] <= 1
                    /\ \/ tickets'[m] = 0 \/ m \in processed'
                       \/ \E a \in Batch : m \in batches'[a].msg /\ batches'[a].made = TRUE
  BY DEF TicketsKnown
<1>3. /\ \A a, d \in Batch : m \in batches[a].msg /\ m \in batches[d].msg => a = d
      /\ \A a \in Batch : m \in batches[a].msg => m \notin processed
      /\ tickets[m] <= 1
      /\ \/ tickets[m] = 0 \/ m \in processed
         \/ \E a \in Batch : m \in batches[a].msg /\ batches[a].made = TRUE
  BY <1>1 DEF TicketsKnown
<1>4. \A a \in Batch : batches'[a].msg \subseteq batches[a].msg
  BY <1>2
<1>5. \A a \in Batch : m \in batches[a].msg /\ batches[a].made = TRUE =>
         m \in batches'[a].msg /\ batches'[a].made = TRUE
  BY <1>2
<1> QED
  BY <1>3, <1>4, <1>5

------------------------------------------------------------------------------
(***************************************************************************)
(* Steps of a batch.                                                       *)
(***************************************************************************)
LEMMA EndsKept ==
    ASSUME MailIInv, NEW b \in Batch, BatchEnds(b), batches[b].step \notin Handling,
           mailbox' \in Row,
           UNCHANGED <<editing, deleted, day, installed, refresh, mail, disturbed>>
    PROVE  MailIInv'
<1>1. PICK c : c = Nothing
  OBVIOUS
<1>2. c \in BatchType /\ c.kind = "none" /\ c.step = Over /\ c.msg = {} /\ c.made = FALSE
      /\ c.todo = {} /\ c.since = 1
  BY <1>1, NothingIsBatch
<1>3. batches' = [batches EXCEPT ![b] = c]
  BY <1>1 DEF BatchEnds
<1>4. UNCHANGED <<arrived, processed, tickets, slipped>>
  BY DEF mail
<1>5. processed \subseteq Message /\ slipped \subseteq Message /\ disturbed \subseteq Disturbances
      /\ tickets \in [Message -> 0..2] /\ day \in 1..MaxDay
  BY DEF MailIInv, MailTypeOK
<1>6. batches[b].made = FALSE
  BY BatchFields, StepsDiffer DEF Shaped
<1>7. Shaped(c)
  BY <1>2, <1>5, StepsDiffer, MailPollingAssumption DEF Shaped
<1>8. PassesOverNone(c)'
  BY <1>2 DEF PassesOverNone
<1>9. TicketsKnown'
  BY <1>2, <1>3, <1>4, <1>6, TicketsAsBefore
<1> QED
  BY <1>2, <1>3, <1>4, <1>5, <1>7, <1>8, <1>9, BatchKept

LEMMA GoesKept ==
    ASSUME MailIInv, NEW b \in Batch, NEW next \in Rounds \union {"timer"}, Goes(b, next),
           mailbox' \in Row,
           UNCHANGED <<editing, deleted, day, installed, refresh, mail, disturbed>>,
           batches[b].step \notin {Over, "stamp"}, next # "stamp",
           next \in Handling <=> batches[b].step \in Handling,
           batches[b].step = "mark" => next = "mark",
           next \in {"timer", "save"} => batches[b].kind = "poll",
           next \in {"timer", "fetch", "save"} => batches[b].todo = {},
           batches[b].step = "timer" => installed # NoBatch
    PROVE  MailIInv'
<1>1. PICK kind, step, config, since, todo, msg, made :
        /\ kind = batches[b].kind /\ step = batches[b].step /\ config = batches[b].config
        /\ since = batches[b].since /\ todo = batches[b].todo /\ msg = batches[b].msg
        /\ made = batches[b].made
  OBVIOUS
<1>2. /\ batches[b] = [kind |-> kind, step |-> step, config |-> config, since |-> since,
                       todo |-> todo, msg |-> msg, made |-> made]
      /\ kind \in {"none", "poll", "import"} /\ config \in SUBSET Config
      /\ since \in 1..MaxDay /\ todo \in SUBSET Message /\ msg \in SUBSET Message
      /\ made \in BOOLEAN /\ batches \in [Batch -> BatchType]
      /\ Shaped(batches[b]) /\ PassesOverNone(batches[b])
  BY <1>1, BatchFields
<1>3. PICK c : c = [kind |-> kind, step |-> next, config |-> config, since |-> since,
                    todo |-> todo, msg |-> msg, made |-> made]
  OBVIOUS
<1>4. batches' = [batches EXCEPT ![b] = c]
  <2>1. [batches[b] EXCEPT !.step = next] = c
    BY <1>2, <1>3
  <2> QED
    BY <1>2, <2>1 DEF Goes
<1>5. c \in BatchType
  BY <1>2, <1>3 DEF BatchType
<1>6. UNCHANGED <<arrived, processed, tickets, slipped>>
  BY DEF mail
<1>7. processed \subseteq Message /\ slipped \subseteq Message /\ disturbed \subseteq Disturbances
      /\ tickets \in [Message -> 0..2]
  BY DEF MailIInv, MailTypeOK
<1>8. Shaped(c)
  BY <1>1, <1>2, <1>3, StepsDiffer DEF Shaped
<1>9. PassesOverNone(c)'
  BY <1>1, <1>2, <1>3, <1>6 DEF PassesOverNone, Behind
<1>10. TicketsKnown'
  BY <1>1, <1>3, <1>4, <1>5, <1>6, TicketsAsBefore
<1>11. c.kind = batches[b].kind /\ c.step = next
  BY <1>1, <1>3
<1> QED
  BY <1>4, <1>5, <1>6, <1>7, <1>8, <1>9, <1>10, <1>11, BatchKept

LEMMA TimerFiresKept ==
    ASSUME MailIInv, NEW b \in Batch, TimerFires(b)
    PROVE  MailIInv'
<1>1. batches[b].step = "timer" /\ UNCHANGED <<mailbox, editing, deleted, day, installed, refresh, mail, disturbed>>
  BY DEF TimerFires, site
<1>2. mailbox \in Row /\ batches[b].todo = {} /\ batches[b].kind = "poll"
  BY <1>1, BatchFields DEF MailIInv, MailTypeOK, Shaped
<1>3. CASE installed = NoBatch
  <2>1. BatchEnds(b)
    BY <1>3 DEF TimerFires
  <2> QED
    BY <1>1, <1>2, <2>1, EndsKept, StepsDiffer
<1>4. CASE installed # NoBatch
  <2>1. Goes(b, "fetch") /\ "fetch" \in Rounds \union {"timer"}
    BY <1>4, StepsDiffer DEF TimerFires
  <2> QED
    BY <1>1, <1>2, <1>4, <2>1, GoesKept, StepsDiffer
<1> QED
  BY <1>3, <1>4

LEMMA AfterBatchKept ==
    ASSUME MailIInv, NEW b \in Batch, AfterBatch(b),
           batches[b].step \in {"fetch", "next"}, batches[b].todo = {},
           UNCHANGED <<mailbox, editing, deleted, day, installed, refresh, mail, disturbed>>
    PROVE  MailIInv'
<1>1. mailbox \in Row
  BY DEF MailIInv, MailTypeOK
<1>2. CASE batches[b].kind = "poll"
  <2>1. Goes(b, "save") /\ "save" \in Rounds \union {"timer"}
    BY <1>2, StepsDiffer DEF AfterBatch
  <2> QED
    BY <1>1, <1>2, <2>1, GoesKept, StepsDiffer
<1>3. CASE batches[b].kind # "poll"
  <2>1. BatchEnds(b)
    BY <1>3 DEF AfterBatch
  <2> QED
    BY <1>1, <2>1, EndsKept, StepsDiffer
<1> QED
  BY <1>2, <1>3

LEMMA BatchEndKept ==
    ASSUME MailIInv, NEW b \in Batch, FetchFails(b) \/ FinishBatch(b)
    PROVE  MailIInv'
<1>1. /\ AfterBatch(b) /\ batches[b].step \in {"fetch", "next"}
      /\ UNCHANGED <<mailbox, editing, deleted, day, installed, refresh, mail, disturbed>>
      /\ batches[b].step = "next" => batches[b].todo = {}
  BY DEF FetchFails, FinishBatch, site
<1>2. batches[b].todo = {}
  BY <1>1, BatchFields DEF Shaped
<1> QED
  BY <1>1, <1>2, AfterBatchKept

\* Only a loop in a round saves.
LEMMA SaveKept ==
    ASSUME MailIInv, NEW b \in Batch, Save(b)
    PROVE  MailIInv'
<1>1. /\ batches[b].step = "save"
      /\ UNCHANGED <<editing, deleted, day, installed, refresh, mail, disturbed>>
  BY DEF Save
<1>2. batches[b].todo = {} /\ batches[b].kind = "poll" /\ batches[b].config \in SUBSET Config
  BY <1>1, BatchFields DEF Shaped
<1>3. PICK config \in batches[b].config :
        mailbox' = [there |-> TRUE, active |-> TRUE, config |-> config]
  BY DEF Save
<1>4. mailbox' \in Row
  BY <1>2, <1>3 DEF Row
<1>6. CASE installed = NoBatch
  <2>1. BatchEnds(b)
    BY <1>6 DEF Save
  <2> QED
    BY <1>1, <1>4, <2>1, EndsKept, StepsDiffer
<1>7. CASE installed # NoBatch
  <2>1. Goes(b, "timer") /\ "timer" \in Rounds \union {"timer"}
    BY <1>7 DEF Save
  <2> QED
    BY <1>1, <1>2, <1>4, <1>7, <2>1, GoesKept, StepsDiffer
<1> QED
  BY <1>6, <1>7

\* A message that the filter or the rules drop is marked; the others become tickets.
LEMMA RouteKept ==
    ASSUME MailIInv, NEW b \in Batch, Filter(b) \/ Route(b)
    PROVE  MailIInv'
<1>1. /\ batches[b].step = "route"
      /\ UNCHANGED <<mailbox, editing, deleted, day, installed, refresh, mail, disturbed>>
  BY DEF Filter, Route, site
<1>2. PICK next \in {"mark", "create"} : Goes(b, next)
  BY DEF Filter, Route
<1>3. mailbox \in Row /\ next \in Rounds \union {"timer"}
  BY StepsDiffer DEF MailIInv, MailTypeOK
<1> QED
  BY <1>1, <1>2, <1>3, GoesKept, StepsDiffer

\* An import begins beside the loops.
LEMMA ImportKept ==
    ASSUME MailIInv, NEW b \in Batch, NEW since \in 1..day, Import(b, since)
    PROVE  MailIInv'
<1>1. PICK c : c = [kind |-> "import", step |-> "fetch", config |-> {}, since |-> since,
                    todo |-> {}, msg |-> {}, made |-> FALSE]
  OBVIOUS
<1>2. /\ batches[b].step = Over /\ batches' = [batches EXCEPT ![b] = OnRequest(since)]
      /\ UNCHANGED <<mailbox, editing, deleted, day, installed, refresh, mail, disturbed>>
  BY DEF Import, Free, site
<1>3. OnRequest(since) = c
  BY <1>1, BatchesBegin
<1>4. day \in 1..MaxDay /\ processed \subseteq Message /\ slipped \subseteq Message
      /\ disturbed \subseteq Disturbances /\ tickets \in [Message -> 0..2] /\ mailbox \in Row
  BY DEF MailIInv, MailTypeOK
<1>5. c \in BatchType
  <2>1. since \in 1..MaxDay
    BY <1>4, MailPollingAssumption
  <2> QED
    BY <1>1, <2>1, StepsDiffer DEF BatchType
<1>6. Shaped(c)
  BY <1>1, <1>4, StepsDiffer DEF Shaped
<1>7. c.kind = "import" /\ c.msg = {} /\ c.made = FALSE
  BY <1>1
<1>8. batches' = [batches EXCEPT ![b] = c]
  BY <1>2, <1>3
<1>9. UNCHANGED <<arrived, processed, tickets, slipped>>
  BY <1>2 DEF mail
<1>10. batches[b].made = FALSE
  BY <1>2, BatchFields, StepsDiffer DEF Shaped
<1>11. TicketsKnown'
  BY <1>2, <1>5, <1>7, <1>8, <1>9, <1>10, TicketsAsBefore
<1>12. PassesOverNone(c)'
  BY <1>7 DEF PassesOverNone
<1> QED
  BY <1>2, <1>4, <1>5, <1>6, <1>7, <1>8, <1>9, <1>11, <1>12, BatchKept

\* What has come in since the day of the last round is in memory from here on.
LEMMA FetchKept ==
    ASSUME MailIInv, NEW b \in Batch, Fetch(b)
    PROVE  MailIInv'
<1>1. PICK kind, config, since, old, msg, made :
        /\ kind = batches[b].kind /\ config = batches[b].config
        /\ since = batches[b].since /\ old = batches[b].todo /\ msg = batches[b].msg
        /\ made = batches[b].made
  OBVIOUS
<1>2. PICK step, todo : /\ step = IF kind = "poll" THEN "stamp" ELSE "next"
                        /\ todo = Fetched(since)
  OBVIOUS
<1>3. /\ batches[b].step = "fetch"
      /\ UNCHANGED <<mailbox, editing, deleted, day, installed, refresh, mail, disturbed>>
      /\ batches' = [batches EXCEPT ![b].step = step, ![b].todo = todo]
  BY <1>1, <1>2 DEF Fetch, site
<1>4. /\ batches[b] = [kind |-> kind, step |-> "fetch", config |-> config, since |-> since,
                       todo |-> old, msg |-> msg, made |-> made]
      /\ kind \in {"none", "poll", "import"} /\ config \in SUBSET Config
      /\ since \in 1..MaxDay /\ msg \in SUBSET Message
      /\ made \in BOOLEAN /\ batches \in [Batch -> BatchType]
      /\ Shaped(batches[b]) /\ PassesOverNone(batches[b])
  BY <1>1, <1>3, BatchFields
<1>5. PICK c1, c : /\ c1 = [kind |-> kind, step |-> step, config |-> config, since |-> since,
                            todo |-> old, msg |-> msg, made |-> made]
                   /\ c = [kind |-> kind, step |-> step, config |-> config, since |-> since,
                           todo |-> todo, msg |-> msg, made |-> made]
  OBVIOUS
<1>6. batches' = [batches EXCEPT ![b] = c]
  <2>1. PICK d1 : d1 = [batches EXCEPT ![b].step = step]
    OBVIOUS
  <2>2. d1 = [batches EXCEPT ![b] = c1]
    <3>1. [batches[b] EXCEPT !.step = step] = c1
      BY <1>4, <1>5
    <3> QED
      BY <2>1, <3>1
  <2>3. d1[b] = c1
    BY <1>4, <2>2
  <2>4. batches' = [d1 EXCEPT ![b] = c]
    <3>1. [d1[b] EXCEPT !.todo = todo] = c
      BY <1>5, <2>3
    <3> QED
      BY <1>3, <2>1, <3>1
  <2> QED
    BY <1>4, <2>2, <2>4
<1>7. todo \subseteq Message
  BY <1>2 DEF Fetched
<1>8. c \in BatchType
  BY <1>2, <1>4, <1>5, <1>7, StepsDiffer DEF BatchType
<1>9. UNCHANGED <<arrived, processed, tickets, slipped>>
  BY <1>3 DEF mail
<1>10. processed \subseteq Message /\ slipped \subseteq Message /\ disturbed \subseteq Disturbances
       /\ tickets \in [Message -> 0..2] /\ mailbox \in Row /\ arrived \in [Message -> 0..MaxDay]
  BY DEF MailIInv, MailTypeOK
<1>11. /\ c.kind = kind /\ c.step = step /\ c.since = since /\ c.todo = todo /\ c.msg = msg
       /\ c.made = made
  BY <1>5
<1>12. Shaped(c)
  BY <1>1, <1>2, <1>3, <1>4, <1>11, StepsDiffer DEF Shaped
<1>13. PassesOverNone(c)'
  <2> SUFFICES ASSUME kind = "poll", NEW m \in Message, Behind(c, m)'
               PROVE  m \in todo \union msg \union processed' \union slipped'
    BY <1>11 DEF PassesOverNone
  <2>1. arrived[m] \in 0..MaxDay /\ arrived[m] > 0
    BY <1>2, <1>9, <1>10, <1>11 DEF Behind
  <2>2. CASE arrived[m] >= since
    BY <1>2, <2>1, <2>2 DEF Fetched
  <2>3. CASE arrived[m] < since
    <3>1. arrived[m] \in 1..(since - 1)
      BY <1>4, <2>1, <2>3, MailPollingAssumption
    <3>2. Behind(batches[b], m)
      BY <1>1, <1>3, <3>1 DEF Behind
    <3>3. m \in old \union msg \union processed \union slipped
      BY <1>1, <1>4, <3>2 DEF PassesOverNone
    <3>4. old = {}
      BY <1>1, <1>3, <1>4 DEF Shaped
    <3> QED
      BY <1>9, <3>3, <3>4
  <2> QED
    BY <1>4, <2>1, <2>2, <2>3, MailPollingAssumption
<1>14. TicketsKnown'
  BY <1>1, <1>3, <1>6, <1>8, <1>9, <1>11, TicketsAsBefore
<1>15. c.kind = batches[b].kind /\ batches[b].step # "timer"
  BY <1>1, <1>3, <1>11
<1> QED
  BY <1>3, <1>6, <1>8, <1>9, <1>10, <1>12, <1>13, <1>14, <1>15, BatchKept

\* The time of the poll moves on, with all that has come in in memory.
LEMMA StampKept ==
    ASSUME MailIInv, NEW b \in Batch, Stamp(b)
    PROVE  MailIInv'
<1>1. PICK kind, config, old, todo, msg, made :
        /\ kind = batches[b].kind /\ config = batches[b].config
        /\ old = batches[b].since /\ todo = batches[b].todo /\ msg = batches[b].msg
        /\ made = batches[b].made
  OBVIOUS
<1>2. /\ batches[b].step = "stamp"
      /\ UNCHANGED <<mailbox, editing, deleted, day, installed, refresh, mail, disturbed>>
      /\ batches' = [batches EXCEPT ![b].step = "next", ![b].since = day]
  BY DEF Stamp, site
<1>3. /\ batches[b] = [kind |-> kind, step |-> "stamp", config |-> config, since |-> old,
                       todo |-> todo, msg |-> msg, made |-> made]
      /\ kind \in {"none", "poll", "import"} /\ config \in SUBSET Config
      /\ todo \in SUBSET Message /\ msg \in SUBSET Message
      /\ made \in BOOLEAN /\ batches \in [Batch -> BatchType]
      /\ Shaped(batches[b]) /\ PassesOverNone(batches[b])
  BY <1>1, <1>2, BatchFields
<1>4. PICK c1, c : /\ c1 = [kind |-> kind, step |-> "next", config |-> config, since |-> old,
                            todo |-> todo, msg |-> msg, made |-> made]
                   /\ c = [kind |-> kind, step |-> "next", config |-> config, since |-> day,
                           todo |-> todo, msg |-> msg, made |-> made]
  OBVIOUS
<1>5. batches' = [batches EXCEPT ![b] = c]
  <2>1. PICK d1 : d1 = [batches EXCEPT ![b].step = "next"]
    OBVIOUS
  <2>2. d1 = [batches EXCEPT ![b] = c1]
    <3>1. [batches[b] EXCEPT !.step = "next"] = c1
      BY <1>3, <1>4
    <3> QED
      BY <2>1, <3>1
  <2>3. d1[b] = c1
    BY <1>3, <2>2
  <2>4. batches' = [d1 EXCEPT ![b] = c]
    <3>1. [d1[b] EXCEPT !.since = day] = c
      BY <1>4, <2>3
    <3> QED
      BY <1>2, <2>1, <3>1
  <2> QED
    BY <1>3, <2>2, <2>4
<1>6. processed \subseteq Message /\ slipped \subseteq Message /\ disturbed \subseteq Disturbances
      /\ tickets \in [Message -> 0..2] /\ mailbox \in Row /\ arrived \in [Message -> 0..MaxDay]
      /\ day \in 1..MaxDay
  BY DEF MailIInv, MailTypeOK
<1>7. c \in BatchType
  BY <1>3, <1>4, <1>6, StepsDiffer DEF BatchType
<1>8. UNCHANGED <<arrived, processed, tickets, slipped>>
  BY <1>2 DEF mail
<1>9. /\ c.kind = kind /\ c.step = "next" /\ c.since = day /\ c.todo = todo /\ c.msg = msg
      /\ c.made = made
  BY <1>4
<1>10. Shaped(c)
  BY <1>1, <1>2, <1>3, <1>6, <1>9, StepsDiffer DEF Shaped
<1>11. PassesOverNone(c)'
  <2> SUFFICES ASSUME kind = "poll", NEW m \in Message, Behind(c, m)'
               PROVE  m \in todo \union msg \union processed' \union slipped'
    BY <1>9 DEF PassesOverNone
  <2>1. arrived[m] > 0
    BY <1>6, <1>8, <1>9, MailPollingAssumption DEF Behind
  <2>2. Behind(batches[b], m)
    BY <1>2, <2>1 DEF Behind
  <2> QED
    BY <1>1, <1>3, <1>8, <2>2 DEF PassesOverNone
<1>12. TicketsKnown'
  BY <1>1, <1>2, <1>5, <1>7, <1>8, <1>9, TicketsAsBefore
<1>13. c.kind = batches[b].kind /\ batches[b].step # "timer"
  BY <1>1, <1>2, <1>9
<1> QED
  BY <1>2, <1>5, <1>6, <1>7, <1>8, <1>10, <1>11, <1>12, <1>13, BatchKept

\* A message that is marked is dropped; another one is taken, and no other batch holds
\* it unless the two overlap.
LEMMA TakeDropsKept ==
    ASSUME MailIInv, NEW b \in Batch, NEW m \in Message, Take(b, m), m \in processed
    PROVE  MailIInv'
<1>1. PICK kind, config, since, old, msg, made :
        /\ kind = batches[b].kind /\ config = batches[b].config
        /\ since = batches[b].since /\ old = batches[b].todo /\ msg = batches[b].msg
        /\ made = batches[b].made
  OBVIOUS
<1>2. PICK todo : todo = old \ {m}
  OBVIOUS
<1>3. /\ batches[b].step = "next"
      /\ UNCHANGED <<mailbox, editing, deleted, day, installed, refresh, mail, disturbed>>
      /\ batches' = [batches EXCEPT ![b].todo = todo]
  BY <1>1, <1>2 DEF Take, site
<1>4. /\ batches[b] = [kind |-> kind, step |-> "next", config |-> config, since |-> since,
                       todo |-> old, msg |-> msg, made |-> made]
      /\ kind \in {"none", "poll", "import"} /\ config \in SUBSET Config
      /\ since \in 1..MaxDay /\ msg \in SUBSET Message /\ old \in SUBSET Message
      /\ made \in BOOLEAN /\ batches \in [Batch -> BatchType]
      /\ Shaped(batches[b]) /\ PassesOverNone(batches[b])
  BY <1>1, <1>3, BatchFields
<1>5. PICK c : c = [kind |-> kind, step |-> "next", config |-> config, since |-> since,
                    todo |-> todo, msg |-> msg, made |-> made]
  OBVIOUS
<1>6. batches' = [batches EXCEPT ![b] = c]
  <2>1. [batches[b] EXCEPT !.todo = todo] = c
    BY <1>4, <1>5
  <2> QED
    BY <1>3, <2>1
<1>7. c \in BatchType
  BY <1>2, <1>4, <1>5, StepsDiffer DEF BatchType
<1>8. UNCHANGED <<arrived, processed, tickets, slipped>>
  BY <1>3 DEF mail
<1>9. processed \subseteq Message /\ slipped \subseteq Message /\ disturbed \subseteq Disturbances
      /\ tickets \in [Message -> 0..2] /\ mailbox \in Row
  BY DEF MailIInv, MailTypeOK
<1>10. /\ c.kind = kind /\ c.step = "next" /\ c.since = since /\ c.todo = todo /\ c.msg = msg
       /\ c.made = made
  BY <1>5
<1>11. Shaped(c)
  BY <1>1, <1>3, <1>4, <1>10, StepsDiffer DEF Shaped
<1>12. PassesOverNone(c)'
  BY <1>1, <1>2, <1>3, <1>4, <1>8, <1>10 DEF PassesOverNone, Behind
<1>13. TicketsKnown'
  BY <1>1, <1>3, <1>6, <1>7, <1>8, <1>10, TicketsAsBefore
<1>14. c.kind = batches[b].kind /\ batches[b].step # "timer"
  BY <1>1, <1>3, <1>10
<1> QED
  BY <1>3, <1>6, <1>7, <1>8, <1>9, <1>11, <1>12, <1>13, <1>14, BatchKept

LEMMA TakeKept ==
    ASSUME MailIInv, NEW b \in Batch, NEW m \in Message, Take(b, m), m \notin processed
    PROVE  MailIInv'
<1>1. PICK kind, config, since, old, none, made :
        /\ kind = batches[b].kind /\ config = batches[b].config
        /\ since = batches[b].since /\ old = batches[b].todo /\ none = batches[b].msg
        /\ made = batches[b].made
  OBVIOUS
<1>2. PICK todo, msg : todo = old \ {m} /\ msg = {m}
  OBVIOUS
<1>3. /\ batches[b].step = "next"
      /\ UNCHANGED <<mailbox, editing, deleted, day, installed, refresh, mail>>
      /\ batches' = [batches EXCEPT ![b] =
           [batches[b] EXCEPT !.step = "route", !.todo = todo, !.msg = msg]]
      /\ disturbed' = IF \E a \in Batch : Holds(a, m)
                      THEN disturbed \union {"overlap"} ELSE disturbed
  BY <1>1, <1>2 DEF Take, site
<1>4. /\ batches[b] = [kind |-> kind, step |-> "next", config |-> config, since |-> since,
                       todo |-> old, msg |-> none, made |-> made]
      /\ kind \in {"none", "poll", "import"} /\ config \in SUBSET Config
      /\ since \in 1..MaxDay /\ old \in SUBSET Message
      /\ made \in BOOLEAN /\ batches \in [Batch -> BatchType]
      /\ Shaped(batches[b]) /\ PassesOverNone(batches[b])
  BY <1>1, <1>3, BatchFields
<1>5. none = {} /\ made = FALSE
  BY <1>1, <1>3, <1>4, StepsDiffer DEF Shaped
<1>6. PICK c1, c2, c :
        /\ c1 = [kind |-> kind, step |-> "route", config |-> config, since |-> since,
                 todo |-> old, msg |-> none, made |-> made]
        /\ c2 = [kind |-> kind, step |-> "route", config |-> config, since |-> since,
                 todo |-> todo, msg |-> none, made |-> made]
        /\ c = [kind |-> kind, step |-> "route", config |-> config, since |-> since,
                todo |-> todo, msg |-> msg, made |-> made]
  OBVIOUS
<1>7. batches' = [batches EXCEPT ![b] = c]
  <2>1. [batches[b] EXCEPT !.step = "route"] = c1
    BY <1>4, <1>6
  <2>2. [c1 EXCEPT !.todo = todo] = c2
    BY <1>6
  <2>3. [c2 EXCEPT !.msg = msg] = c
    BY <1>6
  <2> QED
    BY <1>3, <2>1, <2>2, <2>3
<1>8. c \in BatchType
  BY <1>2, <1>4, <1>6, StepsDiffer DEF BatchType
<1>9. UNCHANGED <<arrived, processed, tickets, slipped>>
  BY <1>3 DEF mail
<1>10. processed \subseteq Message /\ slipped \subseteq Message /\ disturbed \subseteq Disturbances
       /\ tickets \in [Message -> 0..2] /\ mailbox \in Row /\ disturbed \subseteq disturbed'
       /\ disturbed' \subseteq Disturbances
  BY <1>3 DEF MailIInv, MailTypeOK, Disturbances
<1>11. /\ c.kind = kind /\ c.step = "route" /\ c.since = since /\ c.todo = todo /\ c.msg = msg
       /\ c.made = made
  BY <1>6
<1>12. Shaped(c)
  BY <1>1, <1>2, <1>4, <1>5, <1>11, StepsDiffer DEF Shaped
<1>13. PassesOverNone(c)'
  <2> SUFFICES ASSUME kind = "poll", NEW n \in Message, Behind(c, n)'
               PROVE  n \in todo \union msg \union processed' \union slipped'
    BY <1>11 DEF PassesOverNone
  <2>1. Behind(batches[b], n)
    BY <1>1, <1>3, <1>9, <1>11 DEF Behind
  <2>2. n \in old \union none \union processed \union slipped
    BY <1>1, <1>4, <2>1 DEF PassesOverNone
  <2> QED
    BY <1>2, <1>5, <1>9, <2>2
<1>14. TicketsKnown'
  <2>1. /\ batches'[b] = c
        /\ \A a \in Batch : a # b => batches'[a] = batches[a]
    BY <1>4, <1>7, <1>8, OneBatch
  <2> SUFFICES ASSUME {"overlap", "fault"} \cap disturbed' = {}, NEW n \in Message
               PROVE  /\ \A a, d \in Batch : n \in batches'[a].msg /\ n \in batches'[d].msg => a = d
                      /\ \A a \in Batch : n \in batches'[a].msg => n \notin processed'
                      /\ tickets'[n] <= 1
                      /\ \/ tickets'[n] = 0 \/ n \in processed'
                         \/ \E a \in Batch : n \in batches'[a].msg /\ batches'[a].made = TRUE
    BY DEF TicketsKnown
  <2>2. /\ \A a, d \in Batch : n \in batches[a].msg /\ n \in batches[d].msg => a = d
        /\ \A a \in Batch : n \in batches[a].msg => n \notin processed
        /\ tickets[n] <= 1
        /\ \/ tickets[n] = 0 \/ n \in processed
           \/ \E a \in Batch : n \in batches[a].msg /\ batches[a].made = TRUE
    BY <1>10 DEF MailIInv, TicketsKnown
  <2>3. ASSUME NEW a \in Batch PROVE m \notin batches[a].msg
    <3>1. ~Holds(a, m)
      BY <1>3
    <3>2. Shaped(batches[a])
      BY BatchFields
    <3> QED
      BY <3>1, <3>2 DEF Holds, Shaped
  <2>4. \A a \in Batch : a # b => batches'[a].msg = batches[a].msg /\ batches'[a].made = batches[a].made
    BY <2>1
  <2>5. batches'[b].msg = {m}
    BY <1>2, <1>11, <2>1
  <2>6. batches[b].made = FALSE
    BY <1>1, <1>5
  <2> QED
    BY <1>9, <2>2, <2>3, <2>4, <2>5, <2>6
<1>15. c.kind = batches[b].kind /\ batches[b].step # "timer"
  BY <1>1, <1>3, <1>11
<1> QED
  BY <1>3, <1>7, <1>8, <1>9, <1>10, <1>12, <1>13, <1>14, <1>15, BatchKept

\* The batch has become of its message what it became.
LEMMA GoesOnIs ==
    ASSUME MailIInv, NEW b \in Batch, GoesOn(b), batches[b].step \in Handling
    PROVE  \E c \in BatchType :
             /\ batches' = [batches EXCEPT ![b] = c]
             /\ Shaped(c) /\ c.kind = batches[b].kind /\ c.step = "next"
             /\ c.since = batches[b].since /\ c.todo = batches[b].todo
             /\ c.msg = {} /\ c.made = FALSE
<1>1. PICK kind, step, config, since, todo, msg, made :
        /\ kind = batches[b].kind /\ step = batches[b].step /\ config = batches[b].config
        /\ since = batches[b].since /\ todo = batches[b].todo /\ msg = batches[b].msg
        /\ made = batches[b].made
  OBVIOUS
<1>2. PICK none, no : none = {} /\ no = FALSE
  OBVIOUS
<1>3. /\ batches[b] = [kind |-> kind, step |-> step, config |-> config, since |-> since,
                       todo |-> todo, msg |-> msg, made |-> made]
      /\ kind \in {"none", "poll", "import"} /\ config \in SUBSET Config
      /\ since \in 1..MaxDay /\ todo \in SUBSET Message
      /\ batches \in [Batch -> BatchType] /\ Shaped(batches[b])
  BY <1>1, BatchFields
<1>4. PICK c1, c2, c :
        /\ c1 = [kind |-> kind, step |-> "next", config |-> config, since |-> since,
                 todo |-> todo, msg |-> msg, made |-> made]
        /\ c2 = [kind |-> kind, step |-> "next", config |-> config, since |-> since,
                 todo |-> todo, msg |-> none, made |-> made]
        /\ c = [kind |-> kind, step |-> "next", config |-> config, since |-> since,
                todo |-> todo, msg |-> none, made |-> no]
  OBVIOUS
<1>5. PICK d1, d2 : /\ d1 = [batches EXCEPT ![b].step = "next"]
                    /\ d2 = [d1 EXCEPT ![b].msg = none]
  OBVIOUS
<1>6. batches' = [d2 EXCEPT ![b].made = no]
  BY <1>2, <1>5 DEF GoesOn
<1>7. d1 = [batches EXCEPT ![b] = c1]
  <2>1. [batches[b] EXCEPT !.step = "next"] = c1
    BY <1>3, <1>4
  <2> QED
    BY <1>5, <2>1
<1>8. d1[b] = c1
  BY <1>3, <1>7
<1>9. d2 = [d1 EXCEPT ![b] = c2]
  <2>1. [d1[b] EXCEPT !.msg = none] = c2
    BY <1>4, <1>8
  <2> QED
    BY <1>5, <2>1
<1>10. d2[b] = c2
  BY <1>3, <1>7, <1>9
<1>11. batches' = [d2 EXCEPT ![b] = c]
  <2>1. [d2[b] EXCEPT !.made = no] = c
    BY <1>4, <1>10
  <2> QED
    BY <1>6, <2>1
<1>12. batches' = [batches EXCEPT ![b] = c]
  BY <1>3, <1>7, <1>9, <1>11
<1>13. c \in BatchType
  BY <1>2, <1>3, <1>4, StepsDiffer DEF BatchType
<1>14. /\ c.kind = kind /\ c.step = "next" /\ c.since = since /\ c.todo = todo
       /\ c.msg = {} /\ c.made = FALSE
  BY <1>2, <1>4
<1>15. Shaped(c)
  BY <1>1, <1>3, <1>14, StepsDiffer DEF Shaped
<1> QED
  BY <1>1, <1>12, <1>13, <1>14, <1>15

\* A message left behind, for a deleted workspace or for an error, has made no ticket
\* unless the error came between its ticket and its mark.
LEMMA LeaveKept ==
    ASSUME MailIInv, NEW b \in Batch, LeaveForRestore(b) \/ Fail(b)
    PROVE  MailIInv'
<1>1. /\ batches[b].step \in Handling /\ GoesOn(b)
      /\ slipped' = slipped \union batches[b].msg
      /\ UNCHANGED <<mailbox, editing, deleted, day, installed, refresh, arrived, processed, tickets>>
  BY DEF LeaveForRestore, Fail, site, Handling
<1>2. disturbed' \subseteq disturbed \union {"fault"} /\ disturbed \subseteq disturbed'
  BY DEF LeaveForRestore, Fail, Disturbed
<1>3. PICK c \in BatchType :
        /\ batches' = [batches EXCEPT ![b] = c]
        /\ Shaped(c) /\ c.kind = batches[b].kind /\ c.step = "next"
        /\ c.since = batches[b].since /\ c.todo = batches[b].todo
        /\ c.msg = {} /\ c.made = FALSE
  BY <1>1, GoesOnIs
<1>4. processed \subseteq Message /\ slipped \subseteq Message /\ disturbed \subseteq Disturbances
      /\ tickets \in [Message -> 0..2] /\ mailbox \in Row
  BY DEF MailIInv, MailTypeOK
<1>5. Shaped(batches[b]) /\ PassesOverNone(batches[b]) /\ batches[b].msg \in SUBSET Message
      /\ batches[b].made \in BOOLEAN
  BY BatchFields
<1>6. slipped' \subseteq Message /\ disturbed' \subseteq Disturbances
  BY <1>1, <1>2, <1>4, <1>5 DEF Disturbances
<1>7. {"overlap", "fault"} \cap disturbed' = {} => batches[b].made = FALSE
  <2>1. CASE LeaveForRestore(b)
    BY <1>5, <2>1 DEF LeaveForRestore, Shaped
  <2>2. CASE Fail(b)
    <3>1. "fault" \notin disturbed' => ~HalfDone(b)
      BY <2>2 DEF Fail, Disturbed
    <3> QED
      BY <1>5, <3>1 DEF HalfDone, Shaped
  <2> QED
    BY <2>1, <2>2
<1>8. TicketsKnown'
  BY <1>1, <1>2, <1>3, <1>7, TicketsAsBefore
<1>9. PassesOverNone(c)'
  BY <1>1, <1>3, <1>5, StepsDiffer DEF PassesOverNone, Behind
<1>10. batches[b].step # "timer"
  BY <1>1, StepsDiffer
<1> QED
  BY <1>1, <1>2, <1>3, <1>4, <1>6, <1>8, <1>9, <1>10, BatchKept

\* Nobody else holds the message, and it is not marked: this is its first ticket.
LEMMA CreateKept ==
    ASSUME MailIInv, NEW b \in Batch, Create(b)
    PROVE  MailIInv'
<1>1. PICK kind, config, since, todo, msg, no :
        /\ kind = batches[b].kind /\ config = batches[b].config
        /\ since = batches[b].since /\ todo = batches[b].todo /\ msg = batches[b].msg
        /\ no = batches[b].made
  OBVIOUS
<1>2. PICK made : made = ~deleted
  OBVIOUS
<1>3. /\ batches[b].step = "create"
      /\ UNCHANGED <<mailbox, editing, deleted, day, installed, refresh, arrived, processed, slipped,
                     disturbed>>
      /\ batches' = [batches EXCEPT ![b].step = "mark", ![b].made = made]
      /\ tickets' = [m \in Message |-> IF m \in msg /\ ~deleted /\ tickets[m] < 2
                                       THEN tickets[m] + 1 ELSE tickets[m]]
  BY <1>1, <1>2 DEF Create, site
<1>4. /\ batches[b] = [kind |-> kind, step |-> "create", config |-> config, since |-> since,
                       todo |-> todo, msg |-> msg, made |-> no]
      /\ kind \in {"none", "poll", "import"} /\ config \in SUBSET Config
      /\ since \in 1..MaxDay /\ todo \in SUBSET Message /\ msg \in SUBSET Message
      /\ no \in BOOLEAN /\ batches \in [Batch -> BatchType]
      /\ Shaped(batches[b]) /\ PassesOverNone(batches[b])
  BY <1>1, <1>3, BatchFields
<1>5. no = FALSE
  BY <1>1, <1>3, <1>4 DEF Shaped
<1>6. processed \subseteq Message /\ slipped \subseteq Message /\ disturbed \subseteq Disturbances
      /\ tickets \in [Message -> 0..2] /\ mailbox \in Row /\ deleted \in BOOLEAN
  BY DEF MailIInv, MailTypeOK
<1>7. PICK c1, c : /\ c1 = [kind |-> kind, step |-> "mark", config |-> config, since |-> since,
                            todo |-> todo, msg |-> msg, made |-> no]
                   /\ c = [kind |-> kind, step |-> "mark", config |-> config, since |-> since,
                           todo |-> todo, msg |-> msg, made |-> made]
  OBVIOUS
<1>8. batches' = [batches EXCEPT ![b] = c]
  <2>1. PICK d1 : d1 = [batches EXCEPT ![b].step = "mark"]
    OBVIOUS
  <2>2. d1 = [batches EXCEPT ![b] = c1]
    <3>1. [batches[b] EXCEPT !.step = "mark"] = c1
      BY <1>4, <1>7
    <3> QED
      BY <2>1, <3>1
  <2>3. d1[b] = c1
    BY <1>4, <2>2
  <2>4. batches' = [d1 EXCEPT ![b] = c]
    <3>1. [d1[b] EXCEPT !.made = made] = c
      BY <1>7, <2>3
    <3> QED
      BY <1>3, <2>1, <3>1
  <2> QED
    BY <1>4, <2>2, <2>4
<1>9. made \in BOOLEAN
  BY <1>2, <1>6
<1>10. c \in BatchType
  BY <1>4, <1>7, <1>9, StepsDiffer DEF BatchType
<1>11. tickets' \in [Message -> 0..2]
  BY <1>3, <1>6
<1>12. /\ c.kind = kind /\ c.step = "mark" /\ c.since = since /\ c.todo = todo /\ c.msg = msg
       /\ c.made = made
  BY <1>7
<1>13. Shaped(c)
  BY <1>1, <1>3, <1>4, <1>12, StepsDiffer DEF Shaped
<1>14. PassesOverNone(c)'
  BY <1>1, <1>3, <1>4, <1>12 DEF PassesOverNone, Behind
<1>15. TicketsKnown'
  <2>1. /\ batches'[b] = c
        /\ \A a \in Batch : a # b => batches'[a] = batches[a]
    BY <1>4, <1>8, <1>10, OneBatch
  <2> SUFFICES ASSUME {"overlap", "fault"} \cap disturbed' = {}, NEW m \in Message
               PROVE  /\ \A a, d \in Batch : m \in batches'[a].msg /\ m \in batches'[d].msg => a = d
                      /\ \A a \in Batch : m \in batches'[a].msg => m \notin processed'
                      /\ tickets'[m] <= 1
                      /\ \/ tickets'[m] = 0 \/ m \in processed'
                         \/ \E a \in Batch : m \in batches'[a].msg /\ batches'[a].made = TRUE
    BY DEF TicketsKnown
  <2>2. /\ \A a, d \in Batch : m \in batches[a].msg /\ m \in batches[d].msg => a = d
        /\ \A a \in Batch : m \in batches[a].msg => m \notin processed
        /\ tickets[m] <= 1
        /\ \/ tickets[m] = 0 \/ m \in processed
           \/ \E a \in Batch : m \in batches[a].msg /\ batches[a].made = TRUE
    BY <1>3 DEF MailIInv, TicketsKnown
  <2>3. \A a \in Batch : batches'[a].msg = batches[a].msg
    BY <1>1, <1>12, <2>1
  <2>4. CASE m \in msg
    <3>1. tickets[m] = 0
      BY <1>1, <1>5, <2>2, <2>4
    <3>2. tickets'[m] = IF ~deleted THEN 1 ELSE 0
      BY <1>3, <2>4, <3>1
    <3>3. batches'[b].made = made /\ m \in batches'[b].msg
      BY <1>1, <1>12, <2>1, <2>4
    <3>4. tickets'[m] = 0 \/ (m \in batches'[b].msg /\ batches'[b].made = TRUE)
      BY <1>2, <1>6, <3>2, <3>3
    <3>5. \A a \in Batch : m \in batches'[a].msg => m \notin processed'
      BY <1>3, <2>2, <2>3
    <3>6. \A a, d \in Batch : m \in batches'[a].msg /\ m \in batches'[d].msg => a = d
      BY <2>2, <2>3
    <3>7. tickets'[m] <= 1
      BY <3>2
    <3> QED
      BY <3>4, <3>5, <3>6, <3>7
  <2>5. CASE m \notin msg
    <3>1. tickets'[m] = tickets[m]
      BY <1>3, <2>5
    <3>2. \A a \in Batch : m \in batches[a].msg => batches'[a].made = batches[a].made
      BY <1>1, <2>1, <2>5
    <3> QED
      BY <1>3, <2>2, <2>3, <3>1, <3>2
  <2> QED
    BY <2>4, <2>5
<1>16. c.kind = batches[b].kind /\ batches[b].step # "timer"
  BY <1>1, <1>3, <1>12
<1> QED
  BY <1>3, <1>6, <1>8, <1>10, <1>11, <1>13, <1>14, <1>15, <1>16, BatchKept

LEMMA MarkKept ==
    ASSUME MailIInv, NEW b \in Batch, Mark(b)
    PROVE  MailIInv'
<1>1. /\ batches[b].step = "mark" /\ GoesOn(b) /\ batches[b].step \in Handling
      /\ processed' = processed \union batches[b].msg
      /\ UNCHANGED <<mailbox, editing, deleted, day, installed, refresh, arrived, tickets, slipped,
                     disturbed>>
  BY StepsDiffer DEF Mark, site
<1>2. PICK c \in BatchType :
        /\ batches' = [batches EXCEPT ![b] = c]
        /\ Shaped(c) /\ c.kind = batches[b].kind /\ c.step = "next"
        /\ c.since = batches[b].since /\ c.todo = batches[b].todo
        /\ c.msg = {} /\ c.made = FALSE
  BY <1>1, GoesOnIs
<1>3. processed \subseteq Message /\ slipped \subseteq Message /\ disturbed \subseteq Disturbances
      /\ tickets \in [Message -> 0..2] /\ mailbox \in Row
  BY DEF MailIInv, MailTypeOK
<1>4. Shaped(batches[b]) /\ PassesOverNone(batches[b]) /\ batches[b].msg \in SUBSET Message
      /\ batches \in [Batch -> BatchType]
  BY BatchFields
<1>5. PassesOverNone(c)'
  BY <1>1, <1>2, <1>4 DEF PassesOverNone, Behind
<1>6. TicketsKnown'
  <2>1. /\ batches'[b] = c
        /\ \A a \in Batch : a # b => batches'[a] = batches[a]
    BY <1>2, <1>4, OneBatch
  <2> SUFFICES ASSUME {"overlap", "fault"} \cap disturbed' = {}, NEW m \in Message
               PROVE  /\ \A a, d \in Batch : m \in batches'[a].msg /\ m \in batches'[d].msg => a = d
                      /\ \A a \in Batch : m \in batches'[a].msg => m \notin processed'
                      /\ tickets'[m] <= 1
                      /\ \/ tickets'[m] = 0 \/ m \in processed'
                         \/ \E a \in Batch : m \in batches'[a].msg /\ batches'[a].made = TRUE
    BY DEF TicketsKnown
  <2>2. /\ \A a, d \in Batch : m \in batches[a].msg /\ m \in batches[d].msg => a = d
        /\ \A a \in Batch : m \in batches[a].msg => m \notin processed
        /\ tickets[m] <= 1
        /\ \/ tickets[m] = 0 \/ m \in processed
           \/ \E a \in Batch : m \in batches[a].msg /\ batches[a].made = TRUE
    BY <1>1 DEF MailIInv, TicketsKnown
  <2>3. batches'[b].msg = {}
    BY <1>2, <2>1
  <2>4. \A a \in Batch : m \in batches'[a].msg => a # b /\ m \in batches[a].msg
    BY <2>1, <2>3
  <2>5. \A a \in Batch : m \in batches[a].msg /\ batches[a].made = TRUE =>
           \/ m \in processed'
           \/ m \in batches'[a].msg /\ batches'[a].made = TRUE
    BY <1>1, <2>1
  <2>6. \A a \in Batch : m \in batches'[a].msg => m \notin processed'
    BY <1>1, <2>2, <2>4
  <2>7. \A a, d \in Batch : m \in batches'[a].msg /\ m \in batches'[d].msg => a = d
    BY <2>2, <2>4
  <2> QED
    BY <1>1, <2>2, <2>5, <2>6, <2>7
<1> QED
  BY <1>1, <1>2, <1>3, <1>4, <1>5, <1>6, BatchKept

------------------------------------------------------------------------------
(***************************************************************************)
(* The refresh, and what people do meanwhile.                              *)
(***************************************************************************)
\* Batches, messages and what came of them stay as they are.
LEMMA OthersKept ==
    ASSUME MailIInv, UNCHANGED <<batches, installed, mail>>,
           mailbox' \in Row, editing' \subseteq Caller, deleted' \in BOOLEAN,
           day' \in 1..MaxDay, day' >= day,
           refresh' \in [step : {"idle", "list", "apply"}, deleted : BOOLEAN,
                         wanted : SUBSET Config],
           disturbed \subseteq disturbed', disturbed' \subseteq Disturbances
    PROVE  MailIInv'
<1>1. UNCHANGED <<batches, installed, arrived, processed, tickets, slipped>>
  BY DEF mail
<1>2. MailTypeOK'
  BY <1>1 DEF MailIInv, MailTypeOK
<1>3. ASSUME NEW b \in Batch PROVE Shaped(batches[b])' /\ PassesOverNone(batches[b])'
  <2>1. Shaped(batches[b]) /\ PassesOverNone(batches[b]) /\ batches[b].since \in 1..MaxDay
    BY BatchFields
  <2>2. day \in 1..MaxDay
    BY DEF MailIInv, MailTypeOK
  <2> QED
    BY <1>1, <2>1, <2>2, MailPollingAssumption DEF Shaped, PassesOverNone, Behind
<1>4. TicketsKnown'
  <2>1. {"overlap", "fault"} \cap disturbed' = {} => {"overlap", "fault"} \cap disturbed = {}
    OBVIOUS
  <2> QED
    BY <1>1, <2>1 DEF MailIInv, TicketsKnown
<1>5. LoopsKnown'
  BY <1>1 DEF MailIInv, LoopsKnown
<1> QED
  BY <1>2, <1>3, <1>4, <1>5 DEF MailIInv

LEMMA RefreshReadsKept ==
    ASSUME MailIInv, RefreshReadsDeleted \/ RefreshLists \/ RefreshKeeps
    PROVE  MailIInv'
<1>1. UNCHANGED <<mailbox, editing, deleted, day, batches, installed, mail, disturbed>>
  BY DEF RefreshReadsDeleted, RefreshLists, RefreshKeeps, site
<1>2. /\ mailbox \in Row /\ editing \subseteq Caller /\ deleted \in BOOLEAN /\ day \in 1..MaxDay
      /\ refresh \in [step : {"idle", "list", "apply"}, deleted : BOOLEAN,
                      wanted : SUBSET Config]
      /\ disturbed \subseteq Disturbances /\ mailbox.there \in BOOLEAN /\ mailbox.config \in Config
  BY DEF MailIInv, MailTypeOK, Row
<1>3. day' >= day
  BY <1>1, <1>2, MailPollingAssumption
<1>4. /\ refresh' \in [step : {"idle", "list", "apply"}, deleted : BOOLEAN,
                       wanted : SUBSET Config]
  <2>1. CASE RefreshReadsDeleted
    BY <1>2, <2>1 DEF RefreshReadsDeleted
  <2>2. CASE RefreshLists
    <3>1. PICK wanted : wanted = IF mailbox.there /\ mailbox.active /\ ~refresh.deleted
                                 THEN {mailbox.config} ELSE {}
      OBVIOUS
    <3>2. refresh' = [step |-> "apply", deleted |-> FALSE, wanted |-> wanted]
      BY <2>2, <3>1 DEF RefreshLists
    <3>3. wanted \in SUBSET Config
      BY <1>2, <3>1
    <3> QED
      BY <3>2, <3>3
  <2>3. CASE RefreshKeeps
    BY <2>3 DEF RefreshKeeps, NoRefresh
  <2> QED
    BY <2>1, <2>2, <2>3
<1> QED
  BY <1>1, <1>2, <1>3, <1>4, OthersKept

LEMMA PeopleKept ==
    ASSUME MailIInv, \/ \E c \in Caller : Edit(c)
                     \/ DeleteUnheard \/ DeleteOrRestoreWorkspace \/ Midnight
    PROVE  MailIInv'
<1>1. UNCHANGED <<batches, installed, mail, refresh, disturbed>>
  BY DEF Edit, ReadMailbox, UpdateMailbox, EditFails, DeleteUnheard, DeleteOrRestoreWorkspace, Midnight
<1>2. /\ mailbox \in Row /\ editing \subseteq Caller /\ deleted \in BOOLEAN /\ day \in 1..MaxDay
      /\ refresh \in [step : {"idle", "list", "apply"}, deleted : BOOLEAN,
                      wanted : SUBSET Config]
      /\ disturbed \subseteq Disturbances /\ mailbox.there \in BOOLEAN
  BY DEF MailIInv, MailTypeOK, Row
<1>3. mailbox' \in Row
  <2>1. CASE UNCHANGED mailbox
    BY <1>2, <2>1
  <2>2. ASSUME NEW active \in BOOLEAN, NEW config \in Config,
               mailbox' = [there |-> TRUE, active |-> active, config |-> config]
        PROVE  mailbox' \in Row
    BY <2>2 DEF Row
  <2>3. CASE DeleteUnheard
    <3>1. PICK gone : gone = [mailbox EXCEPT !.there = FALSE]
      OBVIOUS
    <3>2. gone \in Row
      BY <1>2, <3>1 DEF Row
    <3>3. mailbox' = [gone EXCEPT !.active = FALSE]
      BY <2>3, <3>1 DEF DeleteUnheard
    <3> QED
      BY <3>2, <3>3 DEF Row
  <2>4. \/ UNCHANGED mailbox \/ DeleteUnheard
        \/ \E active \in BOOLEAN, config \in Config :
             mailbox' = [there |-> TRUE, active |-> active, config |-> config]
    BY DEF Edit, ReadMailbox, UpdateMailbox, EditFails, DeleteOrRestoreWorkspace, Midnight
  <2> QED
    BY <2>1, <2>2, <2>3, <2>4
<1>4. deleted' \in BOOLEAN
  BY <1>2 DEF Edit, ReadMailbox, UpdateMailbox, EditFails, DeleteUnheard, DeleteOrRestoreWorkspace, Midnight
<1>5. day' \in 1..MaxDay /\ day' >= day
  <2>1. day' = day \/ (day < MaxDay /\ day' = day + 1)
    BY DEF Edit, ReadMailbox, UpdateMailbox, EditFails, DeleteUnheard, DeleteOrRestoreWorkspace, Midnight
  <2> QED
    BY <1>2, <2>1, MailPollingAssumption
<1>6. editing' \subseteq Caller
  BY <1>2 DEF Edit, ReadMailbox, UpdateMailbox, EditFails, DeleteUnheard, DeleteOrRestoreWorkspace,
              Midnight
<1> QED
  BY <1>1, <1>2, <1>3, <1>4, <1>5, <1>6, OthersKept

------------------------------------------------------------------------------
(***************************************************************************)
(* Loops that start and stop.                                              *)
(***************************************************************************)
\* Batches that are not as before are new or over, and none had made a ticket.
LEMMA ManyKept ==
    ASSUME MailIInv, batches' \in [Batch -> BatchType], installed' \in Batch \union {NoBatch},
           mailbox' \in Row, editing' \subseteq Caller, UNCHANGED <<deleted, day, mail>>,
           refresh' \in [step : {"idle", "list", "apply"}, deleted : BOOLEAN,
                         wanted : SUBSET Config],
           disturbed \subseteq disturbed', disturbed' \subseteq Disturbances,
           \A b \in Batch :
              \/ batches'[b] = batches[b]
              \/ /\ Shaped(batches'[b]) /\ PassesOverNone(batches'[b]) /\ batches'[b].msg = {}
                 /\ {"overlap", "fault"} \cap disturbed' = {} => batches[b].made = FALSE,
           LoopsKnown'
    PROVE  MailIInv'
<1>1. UNCHANGED <<arrived, processed, tickets, slipped>>
  BY DEF mail
<1>2. MailTypeOK'
  BY <1>1 DEF MailIInv, MailTypeOK, BatchType
<1>3. ASSUME NEW b \in Batch PROVE Shaped(batches[b])' /\ PassesOverNone(batches[b])'
  <2>1. Shaped(batches'[b]) /\ PassesOverNone(batches'[b])
    BY DEF MailIInv
  <2> QED
    BY <1>1, <2>1 DEF Shaped, PassesOverNone, Behind
<1>4. TicketsKnown'
  <2> SUFFICES ASSUME {"overlap", "fault"} \cap disturbed' = {}, NEW m \in Message
               PROVE  /\ \A a, d \in Batch : m \in batches'[a].msg /\ m \in batches'[d].msg => a = d
                      /\ \A a \in Batch : m \in batches'[a].msg => m \notin processed'
                      /\ tickets'[m] <= 1
                      /\ \/ tickets'[m] = 0 \/ m \in processed'
                         \/ \E a \in Batch : m \in batches'[a].msg /\ batches'[a].made = TRUE
    BY DEF TicketsKnown
  <2>1. {"overlap", "fault"} \cap disturbed = {}
    OBVIOUS
  <2>2. /\ \A a, d \in Batch : m \in batches[a].msg /\ m \in batches[d].msg => a = d
        /\ \A a \in Batch : m \in batches[a].msg => m \notin processed
        /\ tickets[m] <= 1
        /\ \/ tickets[m] = 0 \/ m \in processed
           \/ \E a \in Batch : m \in batches[a].msg /\ batches[a].made = TRUE
    BY <2>1 DEF MailIInv, TicketsKnown
  <2>3. \A a \in Batch : m \in batches'[a].msg => m \in batches[a].msg
    OBVIOUS
  <2>4. \A a \in Batch : batches[a].made = TRUE => batches'[a] = batches[a]
    OBVIOUS
  <2>5. \A a \in Batch : m \in batches'[a].msg => m \notin processed'
    BY <1>1, <2>2, <2>3
  <2>6. \A a, d \in Batch : m \in batches'[a].msg /\ m \in batches'[d].msg => a = d
    BY <2>2, <2>3
  <2>7. \/ tickets'[m] = 0 \/ m \in processed'
        \/ \E a \in Batch : m \in batches'[a].msg /\ batches'[a].made = TRUE
    BY <1>1, <2>2, <2>4
  <2> QED
    BY <1>1, <2>2, <2>5, <2>6, <2>7
<1> QED
  BY <1>2, <1>3, <1>4 DEF MailIInv

LEMMA WithoutTimerIs ==
    ASSUME MailIInv
    PROVE  /\ WithoutTimer \in [Batch -> BatchType]
           /\ \A b \in Batch :
                 \/ WithoutTimer[b] = batches[b] /\ ~(b = installed /\ batches[b].step = "timer")
                 \/ /\ WithoutTimer[b] = Nothing /\ b = installed
                    /\ batches[b].step = "timer" /\ batches[b].made = FALSE
<1>1. batches \in [Batch -> BatchType] /\ Nothing \in BatchType
  BY MailTypes, NothingIsBatch DEF MailIInv
<1>2. WithoutTimer \in [Batch -> BatchType]
  BY <1>1 DEF WithoutTimer
<1>3. ASSUME NEW b \in Batch, batches[b].step = "timer" PROVE batches[b].made = FALSE
  BY <1>3, BatchFields DEF Shaped
<1> QED
  BY <1>1, <1>2, <1>3 DEF WithoutTimer

\* A loop that has left the map without a word has no round under way.
LEMMA NoLoopLeft ==
    ASSUME MailIInv, "replaced" \notin Replaced, NEW b \in Batch
    PROVE  WithoutTimer[b].kind # "poll"
<1>1. "replaced" \notin disturbed
      /\ ~(installed # NoBatch /\ batches[installed].step \in Rounds)
  BY DEF Replaced
<1>2. CASE batches[b].kind = "poll"
  <2>1. b = installed
    BY <1>1, <1>2 DEF MailIInv, LoopsKnown
  <2>2. batches[b].step # Over /\ batches[b].step \in Rounds \union {Over, "timer"}
    BY <1>2, BatchFields DEF Shaped, BatchType
  <2>3. batches[b].step = "timer"
    BY <1>1, <2>1, <2>2, MailPollingAssumption
  <2>4. WithoutTimer[b] = Nothing
    BY <2>1, <2>3 DEF WithoutTimer
  <2> QED
    BY <2>4, NothingIsBatch
<1>3. CASE batches[b].kind # "poll"
  <2>1. WithoutTimer[b] = batches[b] \/ WithoutTimer[b] = Nothing
    BY WithoutTimerIs
  <2> QED
    BY <1>3, <2>1, NothingIsBatch
<1> QED
  BY <1>2, <1>3

\* A batch that is over may be forgotten.
LEMMA NothingIsShaped ==
    ASSUME MailIInv
    PROVE  /\ Shaped(Nothing) /\ PassesOverNone(Nothing) /\ Nothing.msg = {}
<1>1. day \in 1..MaxDay
  BY DEF MailIInv, MailTypeOK
<1> QED
  BY <1>1, NothingIsBatch, StepsDiffer, MailPollingAssumption DEF Shaped, PassesOverNone

LEMMA StopsKept ==
    ASSUME MailIInv, batches' = WithoutTimer, installed' = NoBatch, Replaced \subseteq disturbed',
           disturbed' \subseteq Disturbances, mailbox' \in Row,
           refresh' \in [step : {"idle", "list", "apply"}, deleted : BOOLEAN,
                         wanted : SUBSET Config],
           editing' \subseteq Caller, UNCHANGED <<deleted, day, mail>>
    PROVE  MailIInv'
<1>1. batches' \in [Batch -> BatchType] /\ disturbed \subseteq disturbed'
  BY WithoutTimerIs DEF Replaced
<1>2. ASSUME NEW b \in Batch
      PROVE  \/ batches'[b] = batches[b]
             \/ /\ Shaped(batches'[b]) /\ PassesOverNone(batches'[b]) /\ batches'[b].msg = {}
                /\ {"overlap", "fault"} \cap disturbed' = {} => batches[b].made = FALSE
  BY WithoutTimerIs, NothingIsShaped
<1>3. LoopsKnown'
  BY NoLoopLeft DEF LoopsKnown
<1> QED
  BY <1>1, <1>2, <1>3, ManyKept

LEMMA RefreshStopsKept ==
    ASSUME MailIInv, RefreshStops
    PROVE  MailIInv'
<1>1. /\ batches' = WithoutTimer /\ installed' = NoBatch /\ disturbed' = Replaced
      /\ refresh' = NoRefresh /\ UNCHANGED <<mailbox, editing, deleted, day, mail>>
  BY DEF RefreshStops, site
<1>2. /\ mailbox' \in Row /\ editing' \subseteq Caller
      /\ disturbed' \subseteq Disturbances /\ disturbed \subseteq disturbed'
      /\ refresh' \in [step : {"idle", "list", "apply"}, deleted : BOOLEAN,
                       wanted : SUBSET Config]
      /\ refresh'.step = "idle"
  BY <1>1 DEF MailIInv, MailTypeOK, Replaced, Disturbances, NoRefresh
<1> QED
  BY <1>1, <1>2, StopsKept

LEMMA DeleteMailboxKept ==
    ASSUME MailIInv, DeleteMailbox
    PROVE  MailIInv'
<1>1. /\ mailbox' = [mailbox EXCEPT !.there = FALSE, !.active = FALSE]
      /\ batches' = WithoutTimer /\ installed' = NoBatch /\ disturbed' = Replaced
      /\ UNCHANGED <<editing, deleted, day, refresh, mail>>
  BY DEF DeleteMailbox
<1>2. mailbox \in Row /\ editing \subseteq Caller /\ disturbed \subseteq Disturbances
      /\ refresh \in [step : {"idle", "list", "apply"}, deleted : BOOLEAN,
                       wanted : SUBSET Config]
  BY DEF MailIInv, MailTypeOK
<1>3. mailbox' \in Row
  BY <1>1, <1>2 DEF Row
<1>4. disturbed' \subseteq Disturbances
  BY <1>1, <1>2 DEF Replaced, Disturbances
<1> QED
  BY <1>1, <1>2, <1>3, <1>4, StopsKept

LEMMA RestartKept ==
    ASSUME MailIInv, Restart
    PROVE  MailIInv'
<1>1. /\ batches' = [b \in Batch |-> Nothing] /\ installed' = NoBatch /\ refresh' = NoRefresh
      /\ disturbed' = Disturbed("fault", \E b \in Batch : HalfDone(b))
      /\ editing' = {} /\ UNCHANGED <<mailbox, deleted, day, mail>>
  BY DEF Restart
<1>2. /\ mailbox' \in Row /\ disturbed' \subseteq Disturbances /\ disturbed \subseteq disturbed'
      /\ refresh' \in [step : {"idle", "list", "apply"}, deleted : BOOLEAN,
                       wanted : SUBSET Config]
      /\ refresh'.step = "idle" /\ batches' \in [Batch -> BatchType]
      /\ \A b \in Batch : batches'[b].kind = "none"
  BY <1>1, NothingIsBatch DEF MailIInv, MailTypeOK, Disturbed, Disturbances, NoRefresh
<1>3. ASSUME NEW b \in Batch, "fault" \notin disturbed' PROVE batches[b].made = FALSE
  <2>1. ~HalfDone(b)
    BY <1>1, <1>3 DEF Disturbed
  <2> QED
    BY <2>1, BatchFields DEF HalfDone, Shaped
<1>4. ASSUME NEW b \in Batch
      PROVE  /\ Shaped(batches'[b]) /\ PassesOverNone(batches'[b]) /\ batches'[b].msg = {}
             /\ {"overlap", "fault"} \cap disturbed' = {} => batches[b].made = FALSE
  BY <1>1, <1>3, NothingIsShaped
<1>5. LoopsKnown'
  BY <1>1, <1>2 DEF LoopsKnown
<1> QED
  BY <1>1, <1>2, <1>4, <1>5, ManyKept

LEMMA RefreshStartsKept ==
    ASSUME MailIInv, RefreshStarts
    PROVE  MailIInv'
<1>1. /\ refresh.step = "apply" /\ refresh.wanted # {} /\ disturbed' = Replaced
      /\ refresh' = NoRefresh /\ UNCHANGED <<mailbox, editing, deleted, day, mail>>
  BY DEF RefreshStarts, site
<1>2. PICK n \in Free : /\ installed' = n
                        /\ batches' = [WithoutTimer EXCEPT ![n] = Loop(refresh.wanted)]
  BY DEF RefreshStarts
<1>3. n \in Batch /\ batches[n].step = Over
  BY <1>2 DEF Free
<1>4. PICK loop : loop = Loop(refresh.wanted)
  OBVIOUS
<1>5. /\ loop.kind = "poll" /\ loop.step = "fetch" /\ loop.config = refresh.wanted
      /\ loop.since = 1 /\ loop.todo = {} /\ loop.msg = {} /\ loop.made = FALSE
      /\ loop = [kind |-> loop.kind, step |-> loop.step, config |-> loop.config,
                 since |-> loop.since, todo |-> loop.todo, msg |-> loop.msg,
                 made |-> loop.made]
  BY <1>4, BatchesBegin
<1>6. refresh.wanted \in SUBSET Config /\ 1 \in 1..MaxDay /\ day \in 1..MaxDay
  BY MailPollingAssumption DEF MailIInv, MailTypeOK
<1>7. loop \in BatchType
  BY <1>5, <1>6, StepsDiffer DEF BatchType
<1>8. Shaped(loop) /\ PassesOverNone(loop)
  BY <1>5, <1>6, StepsDiffer, MailPollingAssumption DEF Shaped, PassesOverNone, Behind
<1>9. /\ batches' \in [Batch -> BatchType] /\ batches'[n] = loop
      /\ \A b \in Batch : b # n => batches'[b] = WithoutTimer[b]
  BY <1>2, <1>3, <1>4, <1>7, WithoutTimerIs
<1>10. batches[n].made = FALSE
  BY <1>3, BatchFields, StepsDiffer DEF Shaped
<1>11. ASSUME NEW b \in Batch
       PROVE  \/ batches'[b] = batches[b]
              \/ /\ Shaped(batches'[b]) /\ PassesOverNone(batches'[b]) /\ batches'[b].msg = {}
                 /\ {"overlap", "fault"} \cap disturbed' = {} => batches[b].made = FALSE
  <2>1. CASE b = n
    BY <1>5, <1>8, <1>9, <1>10, <2>1
  <2>2. CASE b # n
    BY <1>9, <2>2, WithoutTimerIs, NothingIsShaped
  <2> QED
    BY <2>1, <2>2
<1>12. LoopsKnown'
  <2>1. ASSUME "replaced" \notin Replaced, NEW b \in Batch, b # n
        PROVE  batches'[b].kind # "poll"
    BY <1>9, <2>1, NoLoopLeft
  <2> QED
    BY <1>1, <1>2, <2>1 DEF LoopsKnown
<1>14. /\ disturbed' \subseteq Disturbances /\ disturbed \subseteq disturbed' /\ mailbox' \in Row
       /\ editing' \subseteq Caller
       /\ installed' \in Batch \union {NoBatch}
       /\ refresh' \in [step : {"idle", "list", "apply"}, deleted : BOOLEAN,
                        wanted : SUBSET Config]
  BY <1>1, <1>2, <1>3 DEF MailIInv, MailTypeOK, Replaced, Disturbances, NoRefresh
<1> QED
  BY <1>1, <1>9, <1>11, <1>12, <1>14, ManyKept

LEMMA ArriveKept ==
    ASSUME MailIInv, NEW m \in Message, Arrive(m)
    PROVE  MailIInv'
<1>1. /\ arrived[m] = 0 /\ arrived' = [arrived EXCEPT ![m] = day]
      /\ slipped' = IF \E b \in Batch : batches[b].step = "stamp"
                    THEN slipped \union {m} ELSE slipped
      /\ UNCHANGED <<mailbox, editing, deleted, day, batches, installed, refresh, processed, tickets,
                     disturbed>>
  BY DEF Arrive, site
<1>2. MailTypeOK /\ day \in 1..MaxDay /\ arrived \in [Message -> 0..MaxDay]
      /\ slipped \subseteq Message
  BY DEF MailIInv, MailTypeOK
<1>3. arrived' \in [Message -> 0..MaxDay] /\ slipped' \subseteq Message /\ slipped \subseteq slipped'
      /\ arrived'[m] = day /\ \A o \in Message : o # m => arrived'[o] = arrived[o]
  BY <1>1, <1>2, MailPollingAssumption
<1>4. MailTypeOK'
  BY <1>1, <1>2, <1>3 DEF MailTypeOK
<1>5. ASSUME NEW b \in Batch PROVE Shaped(batches[b])' /\ PassesOverNone(batches[b])'
  <2>1. Shaped(batches[b]) /\ PassesOverNone(batches[b]) /\ batches[b].since \in 1..MaxDay
    BY BatchFields
  <2>2. Shaped(batches[b])'
    BY <1>1, <2>1 DEF Shaped
  <2>3. ASSUME batches[b].kind = "poll", NEW o \in Message, Behind(batches[b], o)'
        PROVE  o \in batches[b].todo \union batches[b].msg \union processed \union slipped'
    <3>1. CASE o # m
      <4>1. Behind(batches[b], o)
        BY <1>1, <1>3, <2>3, <3>1 DEF Behind
      <4> QED
        BY <1>3, <2>1, <2>3, <4>1 DEF PassesOverNone
    <3>2. CASE o = m
      <4>1. ~(day \in 1..(batches[b].since - 1))
        BY <1>2, <2>1, MailPollingAssumption DEF Shaped
      <4>2. batches[b].step = "stamp"
        BY <1>1, <1>3, <2>3, <3>2, <4>1 DEF Behind
      <4> QED
        BY <1>1, <3>2, <4>2
    <3> QED
      BY <3>1, <3>2
  <2>4. PassesOverNone(batches[b])'
    BY <1>1, <2>3 DEF PassesOverNone
  <2> QED
    BY <2>2, <2>4
<1>6. TicketsKnown' /\ LoopsKnown'
  BY <1>1 DEF MailIInv, TicketsKnown, LoopsKnown
<1> QED
  BY <1>1, <1>4, <1>5, <1>6 DEF MailIInv

------------------------------------------------------------------------------
(***************************************************************************)
(* The invariant, and the properties from it.                              *)
(***************************************************************************)
LEMMA MailAtFirst == MailInit => MailIInv
<1> SUFFICES ASSUME MailInit PROVE MailIInv
  OBVIOUS
<1>1. /\ mailbox \in [there : {TRUE}, active : {TRUE}, config : Config]
      /\ refresh = NoRefresh /\ batches = [b \in Batch |-> Nothing]
      /\ editing = {} /\ deleted = FALSE /\ day = 1 /\ installed = NoBatch
      /\ arrived = [m \in Message |-> 0] /\ processed = {}
      /\ tickets = [m \in Message |-> 0] /\ slipped = {} /\ disturbed = {}
  BY DEF MailInit
<1>2. mailbox \in Row
  BY <1>1 DEF Row
<1>3. 1 \in 1..MaxDay /\ 0 \in 0..MaxDay
  BY MailPollingAssumption
<1>4. batches \in [Batch -> BatchType] /\ \A b \in Batch : batches[b] = Nothing
  BY <1>1, NothingIsBatch
<1>5. MailTypeOK
  <2>1. refresh \in [step : {"idle", "list", "apply"}, deleted : BOOLEAN,
                    wanted : SUBSET Config]
    BY <1>1 DEF NoRefresh
  <2>2. arrived \in [Message -> 0..MaxDay] /\ tickets \in [Message -> 0..2]
    BY <1>1, <1>3
  <2>3. editing \subseteq Caller /\ deleted \in BOOLEAN /\ day \in 1..MaxDay /\ installed \in Batch \union {NoBatch}
        /\ processed \subseteq Message /\ slipped \subseteq Message
        /\ disturbed \subseteq Disturbances
    BY <1>1, <1>3
  <2> QED
    BY <1>2, <1>4, <2>1, <2>2, <2>3, MailTypes
<1>6. Shaped(Nothing) /\ PassesOverNone(Nothing)
  BY <1>1, NothingIsBatch, StepsDiffer DEF Shaped, PassesOverNone
<1>7. TicketsKnown
  BY <1>1, <1>4, NothingIsBatch DEF TicketsKnown
<1>8. LoopsKnown
  BY <1>4, NothingIsBatch DEF LoopsKnown
<1> QED
  BY <1>4, <1>5, <1>6, <1>7, <1>8 DEF MailIInv

LEMMA BatchStepKeeps ==
    ASSUME MailIInv, NEW b \in Batch, Step(b)
    PROVE  MailIInv'
<1>1. CASE TimerFires(b)
  BY <1>1, TimerFiresKept
<1>2. CASE Fetch(b)
  BY <1>2, FetchKept
<1>3. CASE Stamp(b)
  BY <1>3, StampKept
<1>4. CASE FetchFails(b) \/ FinishBatch(b)
  BY <1>4, BatchEndKept
<1>5. CASE Save(b)
  BY <1>5, SaveKept
<1>6. ASSUME NEW m \in Message, Take(b, m) PROVE MailIInv'
  BY <1>6, TakeKept, TakeDropsKept
<1>7. CASE Filter(b) \/ Route(b)
  BY <1>7, RouteKept
<1>8. CASE LeaveForRestore(b) \/ Fail(b)
  BY <1>8, LeaveKept
<1>9. CASE Create(b)
  BY <1>9, CreateKept
<1>10. CASE Mark(b)
  BY <1>10, MarkKept
<1> QED
  BY <1>1, <1>2, <1>3, <1>4, <1>5, <1>6, <1>7, <1>8, <1>9, <1>10 DEF Step

LEMMA MailStepKeeps == MailIInv /\ [MailNext]_mailVars => MailIInv'
<1> SUFFICES ASSUME MailIInv, [MailNext]_mailVars PROVE MailIInv'
  OBVIOUS
<1>1. CASE Refresh
  BY <1>1, RefreshReadsKept, RefreshStartsKept, RefreshStopsKept DEF Refresh
<1>2. CASE People
  <2>1. ASSUME NEW b \in Batch, NEW since \in 1..day, Import(b, since)
        PROVE  MailIInv'
    BY <2>1, ImportKept
  <2>2. CASE DeleteMailbox
    BY <2>2, DeleteMailboxKept
  <2>3. CASE (\E c \in Caller : Edit(c)) \/ DeleteUnheard \/ DeleteOrRestoreWorkspace
    BY <2>3, PeopleKept
  <2> QED
    BY <1>2, <2>1, <2>2, <2>3 DEF People
<1>3. CASE Restart
  BY <1>3, RestartKept
<1>4. CASE Midnight
  BY <1>4, PeopleKept
<1>5. ASSUME NEW b \in Batch, Step(b) PROVE MailIInv'
  BY <1>5, BatchStepKeeps
<1>6. ASSUME NEW m \in Message, Arrive(m) PROVE MailIInv'
  BY <1>6, ArriveKept
<1>7. CASE UNCHANGED mailVars
  <2>1. UNCHANGED <<mailbox, editing, deleted, day, batches, installed, refresh, arrived, processed,
                    tickets, slipped, disturbed>>
    BY <1>7 DEF mailVars
  <2>2. MailTypeOK' /\ \A b \in Batch : (Shaped(batches[b]) /\ PassesOverNone(batches[b]))'
    BY <2>1 DEF MailIInv, MailTypeOK, Shaped, PassesOverNone, Behind
  <2>3. TicketsKnown' /\ LoopsKnown'
    BY <2>1 DEF MailIInv, TicketsKnown, LoopsKnown
  <2> QED
    BY <2>1, <2>2, <2>3 DEF MailIInv
<1> QED
  BY <1>1, <1>2, <1>3, <1>4, <1>5, <1>6, <1>7 DEF MailNext

\* The invariant holds in every behaviour.
THEOREM MailInvariant == MailSpec => []MailIInv
<1> QED
  BY MailAtFirst, MailStepKeeps, PTL DEF MailSpec

\* The variables keep their types.
THEOREM MailTypeCorrect == MailSpec => []MailTypeOK
<1>1. MailIInv => MailTypeOK
  BY DEF MailIInv
<1> QED
  BY <1>1, MailInvariant, PTL

\* A message becomes one ticket, whatever fetches it again and however often: a
\* second takes two batches that hold it at once, or an end between its ticket
\* and its mark.
THEOREM OneTicket == MailSpec => []OneTicketInIsolation
<1>1. MailIInv => OneTicketInIsolation
  BY DEF MailIInv, TicketsKnown, OneTicketInIsolation
<1> QED
  BY <1>1, MailInvariant, PTL

\* A mailbox has one loop, unless a loop lost its place in the map in the middle
\* of a round.
THEOREM OneLoop == MailSpec => []OneLoopInIsolation
<1>1. MailIInv => OneLoopInIsolation
  <2> SUFFICES ASSUME MailIInv, "replaced" \notin disturbed PROVE Cardinality(Loops) <= 1
    BY DEF OneLoopInIsolation
  <2>1. Loops \subseteq {installed}
    BY DEF MailIInv, LoopsKnown, Loops
  <2>2. Loops = {} \/ Loops = {installed}
    BY <2>1
  <2>3. Cardinality({}) = 0 /\ Cardinality({installed}) = 1
    BY FS_EmptySet, FS_Singleton
  <2> QED
    BY <2>2, <2>3
<1> QED
  BY <1>1, MailInvariant, PTL

\* No loop moves on past the day of a message that is not marked, unless a round
\* left it behind or it came in between the answer and the time of the poll.
THEOREM NoneIsPassedOver == MailSpec => []NothingPassedOver
<1>1. MailIInv => NothingPassedOver
  <2> SUFFICES ASSUME MailIInv, NEW b \in Loops, NEW m \in Message, batches[b].step = "timer",
                      arrived[m] \in 1..(batches[b].since - 1)
               PROVE  m \in processed \union slipped
    BY DEF NothingPassedOver
  <2>1. b \in Batch /\ batches[b].kind = "poll"
    BY DEF Loops
  <2>2. Shaped(batches[b]) /\ PassesOverNone(batches[b])
    BY <2>1 DEF MailIInv
  <2>3. batches[b].todo = {} /\ batches[b].msg = {}
    BY <2>2, StepsDiffer DEF Shaped
  <2> QED
    BY <2>1, <2>2, <2>3 DEF PassesOverNone, Behind
<1> QED
  BY <1>1, MailInvariant, PTL

\* Steps of a batch neither bring back a mailbox that nothing has in memory nor
\* start a round of it.
LEMMA BatchLeavesItGone ==
    ASSUME MailIInv, NEW b \in Batch, Step(b), ~mailbox.there, ~MailboxHeld
    PROVE  ~mailbox'.there /\ ~MailboxHeld'
<1>1. /\ installed = NoBatch /\ editing = {}
      /\ ~(refresh.step = "apply" /\ refresh.wanted # {})
      /\ \A a \in Batch : batches[a].kind = "poll" => batches[a].step \notin Rounds
  BY DEF MailboxHeld, Loops
<1>2. /\ batches \in [Batch -> BatchType] /\ Shaped(batches[b])
      /\ batches[b].kind = "poll" => batches[b].step \notin Rounds
  BY <1>1, BatchFields
<1>3. ~Save(b) /\ ~Stamp(b)
  BY <1>2, StepsDiffer DEF Save, Stamp, Shaped
<1>4. /\ UNCHANGED <<mailbox, editing, installed, refresh>>
      /\ \A a \in Batch : a # b => batches'[a] = batches[a]
  BY <1>2, <1>3 DEF Step, TimerFires, Fetch, FetchFails, FinishBatch, Take, Filter, Route,
     LeaveForRestore, Create, Mark, Fail, AfterBatch, BatchEnds, Goes, GoesOn, site
<1>5. batches'[b].kind = "poll" => batches'[b].step \notin Rounds
  <2>1. batches'[b] = Nothing \/ batches'[b].kind = batches[b].kind
    <3>1. batches[b] \in BatchType /\ batches \in [Batch -> BatchType]
      BY <1>2
    <3>2. CASE TimerFires(b) \/ FetchFails(b) \/ FinishBatch(b) \/ Filter(b) \/ Route(b)
      <4>1. BatchEnds(b) \/ \E next : Goes(b, next)
        BY <3>2 DEF TimerFires, FetchFails, FinishBatch, Filter, Route, AfterBatch
      <4> QED
        BY <3>1, <4>1 DEF BatchEnds, Goes, BatchType
    <3>3. CASE LeaveForRestore(b) \/ Mark(b) \/ Fail(b)
      <4>1. GoesOn(b)
        BY <3>3 DEF LeaveForRestore, Mark, Fail
      <4> QED
        BY <3>1, <4>1 DEF GoesOn, BatchType
    <3>4. CASE Fetch(b)
      BY <3>1, <3>4 DEF Fetch, BatchType
    <3>5. CASE Create(b)
      BY <3>1, <3>5 DEF Create, BatchType
    <3>6. ASSUME NEW m \in Message, Take(b, m)
          PROVE  batches'[b].kind = batches[b].kind
      <4>1. CASE m \in processed
        <5>1. batches' = [batches EXCEPT ![b].todo = @ \ {m}]
          BY <3>6, <4>1 DEF Take
        <5> QED
          BY <3>1, <5>1 DEF BatchType
      <4>2. CASE m \notin processed
        <5>1. batches' = [batches EXCEPT ![b] =
                [batches[b] EXCEPT !.step = "route", !.todo = @ \ {m}, !.msg = {m}]]
          BY <3>6, <4>2 DEF Take
        <5> QED
          BY <3>1, <5>1 DEF BatchType
      <4> QED
        BY <4>1, <4>2
    <3> QED
      BY <1>3, <3>2, <3>3, <3>4, <3>5, <3>6 DEF Step
  <2>2. CASE batches[b].kind # "poll"
    BY <2>1, <2>2, NothingIsBatch
  <2>3. CASE batches[b].kind = "poll"
    <3>1. TimerFires(b)
      BY <1>2, <1>3, <2>3, StepsDiffer DEF Step, Fetch, FetchFails, FinishBatch, Take, Filter,
         Route, LeaveForRestore, Create, Mark, Fail, Shaped
    <3>2. batches' = [batches EXCEPT ![b] = Nothing]
      BY <1>1, <3>1 DEF TimerFires, BatchEnds
    <3> QED
      BY <1>2, <3>2, NothingIsBatch
  <2> QED
    BY <2>2, <2>3
<1> QED
  BY <1>1, <1>4, <1>5 DEF MailboxHeld, Loops

LEMMA StaysGone ==
    ASSUME MailIInv, [MailNext]_mailVars, ~mailbox.there, ~MailboxHeld
    PROVE  ~mailbox'.there /\ ~MailboxHeld'
<1>1. /\ installed = NoBatch /\ editing = {}
      /\ ~(refresh.step = "apply" /\ refresh.wanted # {})
      /\ \A b \in Batch : batches[b].kind = "poll" => batches[b].step \notin Rounds
  BY DEF MailboxHeld, Loops
<1>2. CASE Refresh
  <2>1. UNCHANGED <<mailbox, editing>>
    BY <1>2 DEF Refresh, RefreshReadsDeleted, RefreshLists, RefreshStarts, RefreshStops,
       RefreshKeeps, site
  <2>2. CASE RefreshStops
    <3>1. batches' = WithoutTimer /\ installed' = NoBatch /\ refresh'.step = "idle"
      BY <2>2 DEF RefreshStops, NoRefresh
    <3>2. \A b \in Batch : batches'[b].kind = "poll" => batches'[b] = batches[b]
      BY <3>1, WithoutTimerIs, NothingIsBatch
    <3> QED
      BY <1>1, <2>1, <3>1, <3>2 DEF MailboxHeld, Loops
  <2>3. CASE RefreshReadsDeleted \/ RefreshLists
    <3>1. UNCHANGED <<batches, installed>>
      BY <2>3 DEF RefreshReadsDeleted, RefreshLists
    <3>2. ~(refresh'.step = "apply" /\ refresh'.wanted # {})
      <4>1. refresh \in [step : {"idle", "list", "apply"}, deleted : BOOLEAN,
                         wanted : SUBSET Config]
        BY DEF MailIInv, MailTypeOK
      <4>2. CASE RefreshReadsDeleted
        BY <4>1, <4>2 DEF RefreshReadsDeleted
      <4>3. CASE RefreshLists
        <5>1. PICK wanted : wanted = IF mailbox.there /\ mailbox.active /\ ~refresh.deleted
                                     THEN {mailbox.config} ELSE {}
          OBVIOUS
        <5>2. refresh' = [step |-> "apply", deleted |-> FALSE, wanted |-> wanted]
          BY <4>3, <5>1 DEF RefreshLists
        <5> QED
          BY <5>1, <5>2
      <4> QED
        BY <2>3, <4>2, <4>3
    <3> QED
      BY <1>1, <2>1, <3>1, <3>2 DEF MailboxHeld, Loops
  <2>4. ~RefreshStarts /\ ~RefreshKeeps
    BY <1>1 DEF RefreshStarts, RefreshKeeps
  <2> QED
    BY <1>2, <2>2, <2>3, <2>4 DEF Refresh
<1>3. CASE People
  <2>1. UNCHANGED <<mailbox, editing, batches, installed, refresh>>
    BY <1>1, <1>3 DEF People, Edit, ReadMailbox, UpdateMailbox, EditFails, DeleteMailbox,
       DeleteUnheard, DeleteOrRestoreWorkspace, Import
  <2> QED
    BY <1>1, <2>1 DEF MailboxHeld, Loops
<1>4. CASE Restart
  <2>1. /\ mailbox' = mailbox /\ editing' = {} /\ installed' = NoBatch
        /\ refresh'.step = "idle" /\ \A b \in Batch : batches'[b] = Nothing
    BY <1>4 DEF Restart, NoRefresh
  <2> QED
    BY <2>1, NothingIsBatch DEF MailboxHeld, Loops
<1>5. ASSUME NEW b \in Batch, Step(b) PROVE ~mailbox'.there /\ ~MailboxHeld'
  BY <1>5, BatchLeavesItGone
<1>6. CASE Midnight \/ (\E m \in Message : Arrive(m)) \/ UNCHANGED mailVars
  <2>1. UNCHANGED <<mailbox, editing, batches, installed, refresh>>
    BY <1>6 DEF Midnight, Arrive, mailVars, site
  <2> QED
    BY <1>1, <2>1 DEF MailboxHeld, Loops
<1> QED
  BY <1>2, <1>3, <1>4, <1>5, <1>6 DEF MailNext

\* A mailbox that is gone stays gone once no loop, refresh or edit has it in memory,
\* and none gets hold of it again, not even by a timer that is still set.
THEOREM MailboxStaysDeleted == MailSpec => GoneForGood
<1>1. MailIInv /\ [MailNext]_mailVars
        => [(~mailbox.there /\ ~MailboxHeld) => (~mailbox'.there /\ ~MailboxHeld')]_mailVars
  BY StaysGone
<1> QED
  BY <1>1, MailInvariant, PTL DEF MailSpec, GoneForGood

=============================================================================
