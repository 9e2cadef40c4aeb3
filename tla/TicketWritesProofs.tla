-------------------------- MODULE TicketWritesProofs --------------------------
(***************************************************************************)
(* Proofs about TicketWrites, for any people, requests at once and bound:  *)
(* what a request that nobody has overtaken is about to save, and from it  *)
(* that the rules of a ticket and its first resolution hold as long as no  *)
(* request saves a stale ticket; and that no save brings a ticket back.    *)
(***************************************************************************)
EXTENDS TicketWrites, TLAPS

(***************************************************************************)
(* The invariant.                                                          *)
(***************************************************************************)
Users0 == User \union {NoOne}

\* A ticket whose dates and count are of the first n requests
TicketBy(n) ==
    [status : TicketStatuses, assigneeId : Users0, resolvedById : Users0,
     resolvedAt : 0..n, firstResolvedAt : 0..n, discardReason : BOOLEAN,
     reopenCount : 0..n, firstResponseAt : 0..n, resolutionBreached : BOOLEAN,
     deleted : BOOLEAN]

\* What the rules say of a ticket, in the database or about to be there.
Good(t) ==
    /\ AssignmentFits(t.status, t.assigneeId)
    /\ ~IsClosed(t.status) => t.resolvedAt = Never /\ ~t.discardReason
    /\ t.status = "resolved" => t.resolvedAt # Never
    /\ t.resolvedAt # Never => t.firstResolvedAt # Never

FirstStays(t, after) ==
    t.firstResolvedAt # Never => after.firstResolvedAt = t.firstResolvedAt

\* The row as it would be if w saved now
Outcome(w) == IF pc[w] = "read" THEN mine[w] ELSE Merged(row, changes[w])

\* Nobody is served who has not started, and no save sets deletedAt.
RequestsKnown ==
    /\ served \in 0..MaxRequests
    /\ row \in TicketBy(served) /\ changes = [w \in Worker |-> changes[w]]
    /\ \A w \in Worker :
         /\ mine[w] \in TicketBy(served)
         /\ DOMAIN changes[w] \subseteq Columns
         /\ Merged(StoredTicket, changes[w]) \in TicketBy(served)
         /\ pc[w] = "called" => served > 0

\* What a request that nobody has overtaken saves is good, and keeps the first
\* resolution of the row it will be saved over.
SaveKnown(w) ==
    pc[w] \in {"read", "loaded"} /\ ~stale[w] =>
        Good(Outcome(w)) /\ FirstStays(row, Outcome(w))

IInv ==
    /\ TypeOK
    /\ RequestsKnown
    /\ ~overlapped => Good(row) /\ \A w \in Worker : SaveKnown(w)

------------------------------------------------------------------------------
(***************************************************************************)
(* Tickets, and what save() makes of them.                                 *)
(***************************************************************************)
Names == {"status", "assigneeId", "resolvedById", "resolvedAt", "firstResolvedAt",
          "discardReason", "reopenCount", "firstResponseAt", "resolutionBreached",
          "deleted"}

LEMMA TicketFields ==
    ASSUME NEW n \in Nat, NEW t \in TicketBy(n)
    PROVE  /\ t.status \in TicketStatuses
           /\ t.assigneeId \in Users0 /\ t.resolvedById \in Users0
           /\ t.resolvedAt \in 0..n /\ t.firstResolvedAt \in 0..n
           /\ t.reopenCount \in 0..n /\ t.firstResponseAt \in 0..n
           /\ t.discardReason \in BOOLEAN /\ t.resolutionBreached \in BOOLEAN
           /\ t.deleted \in BOOLEAN
           /\ DOMAIN t = Names
<1> QED
  BY DEF TicketBy, Names

\* A ticket of the first requests is one of more requests.
LEMMA TicketLater ==
    ASSUME NEW n \in Nat, NEW k \in Nat, n <= k, NEW t \in TicketBy(n)
    PROVE  t \in TicketBy(k)
<1>1. 0..n \subseteq 0..k
  OBVIOUS
<1> QED
  BY <1>1 DEF TicketBy

LEMMA StoredTicketIs ==
    /\ \A n \in Nat : StoredTicket \in TicketBy(n)
    /\ Columns = Names \ {"deleted"} /\ DOMAIN StoredTicket = Names
    /\ Good(StoredTicket)
    /\ DOMAIN NoChanges = {} /\ Merged(StoredTicket, NoChanges) = StoredTicket
<1>1. DOMAIN StoredTicket = Names
  BY DEF StoredTicket, Names
<1>2. ASSUME NEW n \in Nat PROVE StoredTicket \in TicketBy(n)
  <2>1. 0 \in 0..n /\ NoOne \in Users0 /\ "open" \in TicketStatuses /\ FALSE \in BOOLEAN
    BY DEF Users0, TicketStatuses
  <2> QED
    BY <2>1 DEF StoredTicket, TicketBy, Never
<1>3. Good(StoredTicket)
  BY DEF StoredTicket, Good, AssignmentFits, IsWork, WorkStatuses, Never
<1>4. DOMAIN NoChanges = {}
  BY DEF NoChanges
<1>5. Merged(StoredTicket, NoChanges) = StoredTicket
  BY <1>1, <1>4 DEF Merged, StoredTicket
<1> QED
  BY <1>1, <1>2, <1>3, <1>4, <1>5 DEF Columns

\* The UPDATE sets the columns that changed and leaves the others.
LEMMA MergedIs ==
    ASSUME NEW n \in Nat, NEW t \in TicketBy(n), NEW update,
           Merged(StoredTicket, update) \in TicketBy(n)
    PROVE  LET m == Merged(t, update)
           IN  /\ m \in TicketBy(n)
               /\ \A c \in Names :
                    m[c] = IF c \in DOMAIN update THEN update[c] ELSE t[c]
<1> DEFINE m == Merged(t, update)
           s == Merged(StoredTicket, update)
<1>1. \A c \in Names : m[c] = IF c \in DOMAIN update THEN update[c] ELSE t[c]
  BY TicketFields DEF Merged
<1>2. \A c \in Names : s[c] = IF c \in DOMAIN update THEN update[c] ELSE StoredTicket[c]
  BY StoredTicketIs DEF Merged
<1>3. \A c \in Names : m[c] \in {s[c], t[c]}
  BY <1>1, <1>2
<1>4. m = [status |-> m.status, assigneeId |-> m.assigneeId,
           resolvedById |-> m.resolvedById, resolvedAt |-> m.resolvedAt,
           firstResolvedAt |-> m.firstResolvedAt, discardReason |-> m.discardReason,
           reopenCount |-> m.reopenCount, firstResponseAt |-> m.firstResponseAt,
           resolutionBreached |-> m.resolutionBreached, deleted |-> m.deleted]
  BY TicketFields DEF Merged, Names
<1> HIDE DEF m, s
<1>5. /\ m.status \in TicketStatuses
      /\ m.assigneeId \in Users0 /\ m.resolvedById \in Users0
      /\ m.resolvedAt \in 0..n /\ m.firstResolvedAt \in 0..n
      /\ m.reopenCount \in 0..n /\ m.firstResponseAt \in 0..n
      /\ m.discardReason \in BOOLEAN /\ m.resolutionBreached \in BOOLEAN
      /\ m.deleted \in BOOLEAN
  <2>1. s \in TicketBy(n)
    BY DEF s
  <2> QED
    BY <1>3, <2>1, TicketFields DEF Names
<1>6. m \in TicketBy(n)
  BY <1>4, <1>5 DEF TicketBy
<1> QED
  BY <1>1, <1>6 DEF m

\* What differs from the row, put over it, is the ticket in memory but for deletedAt.
LEMMA DifferingIs ==
    ASSUME NEW n \in Nat, NEW t \in TicketBy(n), NEW now \in TicketBy(n)
    PROVE  LET d == Differing(t, now)
           IN  /\ DOMAIN d \subseteq Columns
               /\ Merged(StoredTicket, d) \in TicketBy(n)
               /\ \A c \in Columns : Merged(now, d)[c] = t[c]
<1> DEFINE d == Differing(t, now)
<1>1. /\ DOMAIN d = {c \in Columns : t[c] # now[c]}
      /\ \A c \in DOMAIN d : d[c] = t[c]
  BY DEF Differing
<1> HIDE DEF d
<1> DEFINE s == Merged(StoredTicket, d)
<1>2. \A c \in Names : s[c] \in {t[c], StoredTicket[c]}
  BY <1>1, StoredTicketIs DEF Merged
<1>3. s = [status |-> s.status, assigneeId |-> s.assigneeId,
           resolvedById |-> s.resolvedById, resolvedAt |-> s.resolvedAt,
           firstResolvedAt |-> s.firstResolvedAt, discardReason |-> s.discardReason,
           reopenCount |-> s.reopenCount, firstResponseAt |-> s.firstResponseAt,
           resolutionBreached |-> s.resolutionBreached, deleted |-> s.deleted]
  BY StoredTicketIs DEF Merged, Names
<1> HIDE DEF s
<1>4. /\ s.status \in TicketStatuses
      /\ s.assigneeId \in Users0 /\ s.resolvedById \in Users0
      /\ s.resolvedAt \in 0..n /\ s.firstResolvedAt \in 0..n
      /\ s.reopenCount \in 0..n /\ s.firstResponseAt \in 0..n
      /\ s.discardReason \in BOOLEAN /\ s.resolutionBreached \in BOOLEAN
      /\ s.deleted \in BOOLEAN
  BY <1>2, StoredTicketIs, TicketFields DEF Names
<1>5. s \in TicketBy(n)
  BY <1>3, <1>4 DEF TicketBy
<1>6. \A c \in Columns : Merged(now, d)[c] = t[c]
  BY <1>1, StoredTicketIs, TicketFields DEF Merged
<1> QED
  BY <1>1, <1>5, <1>6 DEF d, s

\* Whether a ticket is good is a matter of these five columns.
LEMMA GoodColumns ==
    ASSUME NEW t, NEW after, Good(t),
           \A c \in {"status", "assigneeId", "resolvedAt", "firstResolvedAt",
                     "discardReason"} : after[c] = t[c]
    PROVE  Good(after)
<1>1. /\ after.status = t.status /\ after.assigneeId = t.assigneeId
      /\ after.resolvedAt = t.resolvedAt /\ after.firstResolvedAt = t.firstResolvedAt
      /\ after.discardReason = t.discardReason
  OBVIOUS
<1> QED
  BY <1>1 DEF Good

------------------------------------------------------------------------------
(***************************************************************************)
(* The services: a request makes of the ticket it reads one that is good   *)
(* if that one was, with the first resolution of that one.                 *)
(***************************************************************************)
Serves(t, after, k) ==
    after \in TicketBy(k) /\ (Good(t) => Good(after)) /\ FirstStays(t, after)

\* Resolving a ticket that has an assignee or needs none, ticket-resolution.ts.
LEMMA ResolvedIs ==
    ASSUME NEW k \in Nat, NEW t \in TicketBy(k), NEW user \in Users0, NEW at \in 1..k
    PROVE  Serves(t, MarkResolved(t, user, at), k) /\ Good(MarkResolved(t, user, at))
<1> DEFINE r == MarkResolved(t, user, at)
<1>1. /\ r \in TicketBy(k)
      /\ r.status = "resolved" /\ r.resolvedAt = at /\ r.discardReason = FALSE
      /\ r.firstResolvedAt = IF t.firstResolvedAt = Never THEN at ELSE t.firstResolvedAt
  <2>1. at \in 0..k /\ "resolved" \in TicketStatuses
    BY DEF TicketStatuses, ClosedStatuses
  <2> QED
    BY <2>1 DEF MarkResolved, TicketBy
<1> HIDE DEF r
<1>2. Good(r)
  BY <1>1 DEF Good, AssignmentFits, IsWork, WorkStatuses, IsClosed, ClosedStatuses, Never
<1>3. FirstStays(t, r)
  BY <1>1 DEF FirstStays
<1> QED
  BY <1>1, <1>2, <1>3 DEF r, Serves

LEMMA WithoutResolutionIs ==
    ASSUME NEW k \in Nat, NEW t \in TicketBy(k)
    PROVE  LET r == WithoutResolution(t)
           IN  /\ r \in TicketBy(k)
               /\ r.status = t.status /\ r.assigneeId = t.assigneeId
               /\ r.reopenCount = t.reopenCount /\ r.firstResolvedAt = t.firstResolvedAt
               /\ r.resolvedAt = Never /\ r.discardReason = FALSE
<1>1. Never \in 0..k /\ NoOne \in Users0
  BY DEF Never, Users0
<1> QED
  BY <1>1 DEF WithoutResolution, TicketBy

\* ChangeTicketStatus, with whoever the command has found to take the ticket.
LEMMA ChangeStatusServes ==
    ASSUME NEW k \in Nat, NEW t \in TicketBy(k), NEW status \in TicketStatuses,
           NEW user \in Users0, NEW taker \in Users0, NEW at \in 1..k,
           CanChangeStatus(t, status, TRUE, TRUE, taker)
    PROVE  Serves(t, AfterChangeStatus(t, status, user, taker, at), k)
<1> DEFINE assignee == AssigneeForStatus(status, t.assigneeId, taker)
           moved == [t EXCEPT !.assigneeId = assignee, !.status = status]
           r == AfterChangeStatus(t, status, user, taker, at)
<1>1. /\ assignee \in Users0
      /\ AssignmentFits(status, assignee)
  BY NoOneAssumption, TicketFields
  DEF CanChangeStatus, CanGoTo, AssigneeForStatus, AssignmentFits, Users0, IsWork,
      WorkStatuses
<1> HIDE DEF assignee
<1>2. /\ moved \in TicketBy(k)
      /\ moved.status = status /\ moved.assigneeId = assignee
      /\ moved.resolvedAt = t.resolvedAt /\ moved.firstResolvedAt = t.firstResolvedAt
  BY <1>1 DEF TicketBy
<1>3. r = CASE status = "resolved"  -> MarkResolved(moved, user, at)
            [] status = "discarded" -> [moved EXCEPT !.discardReason = TRUE]
            [] OTHER                -> WithoutResolution(moved)
  BY DEF AfterChangeStatus, assignee
<1> HIDE DEF moved
<1>4. CASE status = "resolved"
  <2>1. r = MarkResolved(moved, user, at)
    BY <1>3, <1>4
  <2> QED
    BY <1>2, <2>1, ResolvedIs DEF Serves, FirstStays
<1>5. CASE status = "discarded"
  <2>1. /\ r \in TicketBy(k)
        /\ r.status = status /\ r.assigneeId = assignee
        /\ r.resolvedAt = t.resolvedAt /\ r.firstResolvedAt = t.firstResolvedAt
    BY <1>2, <1>3, <1>5 DEF TicketBy
  <2> HIDE DEF r
  <2>2. Good(t) => Good(r)
    BY <1>1, <1>5, <2>1 DEF Good, IsClosed, ClosedStatuses
  <2> QED
    BY <2>1, <2>2 DEF Serves, FirstStays, r
<1>6. CASE status \notin {"resolved", "discarded"}
  <2>1. r = WithoutResolution(moved)
    BY <1>3, <1>6
  <2> HIDE DEF r
  <2>2. /\ r \in TicketBy(k) /\ r.status = status /\ r.assigneeId = assignee
        /\ r.resolvedAt = Never /\ r.discardReason = FALSE
        /\ r.firstResolvedAt = t.firstResolvedAt
    BY <1>2, <2>1, WithoutResolutionIs
  <2>3. Good(r)
    BY <1>1, <1>6, <2>2 DEF Good
  <2> QED
    BY <2>2, <2>3 DEF Serves, FirstStays, r
<1> QED
  BY <1>4, <1>5, <1>6

\* AssignTicket, and releasing.
LEMMA AssignServes ==
    ASSUME NEW k \in Nat, NEW t \in TicketBy(k), NEW who \in Users0
    PROVE  Serves(t, AfterAssign(t, who), k)
<1> DEFINE r == AfterAssign(t, who)
           status == StatusForAssignee(t.status, who)
<1>1. /\ status \in TicketStatuses
      /\ AssignmentFits(status, who)
      /\ IsClosed(status) <=> IsClosed(t.status)
      /\ IsClosed(status) => status = t.status
  BY TicketFields
  DEF StatusForAssignee, SettleAssignment, AssignmentFits, IsWork, IsClosed,
      WorkStatuses, ClosedStatuses, TicketStatuses
<1> HIDE DEF status
<1>2. r = [t EXCEPT !.assigneeId = who, !.status = status]
  BY DEF AfterAssign, TicketBy, status
<1>3. /\ r \in TicketBy(k) /\ r.status = status /\ r.assigneeId = who
      /\ r.resolvedAt = t.resolvedAt /\ r.firstResolvedAt = t.firstResolvedAt
      /\ r.discardReason = t.discardReason
  BY <1>1, <1>2 DEF TicketBy
<1> HIDE DEF r
<1>4. Good(t) => Good(r)
  BY <1>1, <1>3 DEF Good, IsClosed, ClosedStatuses
<1> QED
  BY <1>3, <1>4 DEF Serves, FirstStays, r

LEMMA PickupServes ==
    ASSUME NEW k \in Nat, NEW t \in TicketBy(k), NEW status \in PickupStatuses,
           NEW user \in User, NEW at \in 1..k, CanPickup(t, status)
    PROVE  Serves(t, AfterPickup(t, status, user, at), k)
<1> DEFINE taken == [t EXCEPT !.assigneeId = user, !.status = status]
           r == AfterPickup(t, status, user, at)
<1>1. user \in Users0 /\ user # NoOne /\ status \in TicketStatuses
  BY NoOneAssumption
  DEF Users0, PickupStatuses, TicketStatuses, WorkStatuses, ClosedStatuses
<1>2. /\ taken \in TicketBy(k) /\ taken.status = status /\ taken.assigneeId = user
      /\ taken.resolvedAt = t.resolvedAt /\ taken.firstResolvedAt = t.firstResolvedAt
      /\ taken.discardReason = t.discardReason
  BY <1>1 DEF TicketBy
<1>3. r = IF status = "resolved" THEN MarkResolved(taken, user, at) ELSE taken
  BY DEF AfterPickup
<1> HIDE DEF taken, r
<1>4. CASE status = "resolved"
  BY <1>1, <1>2, <1>3, <1>4, ResolvedIs DEF Serves, FirstStays, r
<1>5. CASE status # "resolved"
  <2>1. r = taken
    BY <1>3, <1>5
  <2>2. Good(t) => Good(taken)
    BY <1>1, <1>2, <1>5
    DEF Good, CanPickup, PickupStatuses, AssignmentFits, IsWork, IsClosed,
        WorkStatuses, ClosedStatuses
  <2> QED
    BY <1>2, <2>1, <2>2 DEF Serves, FirstStays, r
<1> QED
  BY <1>4, <1>5

\* ReopenTicket, whoever had it.
LEMMA ReopenServes ==
    ASSUME NEW n \in Nat, NEW t \in TicketBy(n), NEW target \in ReopenTargets,
           CanReopen(t, target, FALSE, NoOne)
    PROVE  Serves(t, AfterReopen(t, target, FALSE, NoOne, User), n + 1)
<1> DEFINE assignee == IfOnTeam(WantedAssignee(t, target, FALSE, NoOne), User)
           status == SettleAssignment(target, assignee)
           r == AfterReopen(t, target, FALSE, NoOne, User)
<1>1. /\ assignee \in Users0
      /\ status \in TicketStatuses \ ClosedStatuses
      /\ AssignmentFits(status, assignee)
  BY NoOneAssumption
  DEF IfOnTeam, WantedAssignee, Users0, ReopenTargets, SettleAssignment,
      AssignmentFits, IsWork, WorkStatuses, ClosedStatuses, TicketStatuses
<1>2. r = [WithoutResolution(t) EXCEPT !.status = status, !.assigneeId = assignee,
                                       !.reopenCount = @ + 1]
  BY DEF AfterReopen
<1> HIDE DEF status, assignee, r
<1>3. PICK e \in TicketBy(n) : e = WithoutResolution(t)
  BY WithoutResolutionIs
<1>4. /\ e.firstResolvedAt = t.firstResolvedAt
      /\ e.resolvedAt = Never /\ e.discardReason = FALSE
  BY <1>3, WithoutResolutionIs
<1>5. e \in TicketBy(n + 1) /\ e.reopenCount + 1 \in 0..(n + 1)
  BY TicketLater, TicketFields
<1>6. r = [e EXCEPT !.status = status, !.assigneeId = assignee,
                    !.reopenCount = e.reopenCount + 1]
  BY <1>2, <1>3
<1>7. /\ r \in TicketBy(n + 1) /\ r.status = status /\ r.assigneeId = assignee
      /\ r.resolvedAt = e.resolvedAt /\ r.firstResolvedAt = e.firstResolvedAt
      /\ r.discardReason = e.discardReason
  BY <1>1, <1>5, <1>6 DEF TicketBy
<1>8. Good(r)
  BY <1>1, <1>4, <1>7 DEF Good, ClosedStatuses
<1> QED
  BY <1>4, <1>7, <1>8 DEF Serves, FirstStays, r

LEMMA TransferServes ==
    ASSUME NEW k \in Nat, NEW t \in TicketBy(k), NEW target \in User
    PROVE  Serves(t, AfterTransfer(t, target), k)
<1> DEFINE status == IF t.status = "open" THEN "pending" ELSE t.status
           r == AfterTransfer(t, target)
<1>1. /\ status \in TicketStatuses /\ status # "open"
      /\ IsClosed(status) <=> IsClosed(t.status)
      /\ IsClosed(status) => status = t.status
      /\ target \in Users0 /\ target # NoOne
  BY NoOneAssumption, TicketFields
  DEF Users0, TicketStatuses, WorkStatuses, IsClosed, ClosedStatuses
<1>2. r = [t EXCEPT !.assigneeId = target, !.status = status]
  BY DEF AfterTransfer, TicketBy
<1> HIDE DEF status, r
<1>3. /\ r \in TicketBy(k) /\ r.status = status /\ r.assigneeId = target
      /\ r.resolvedAt = t.resolvedAt /\ r.firstResolvedAt = t.firstResolvedAt
      /\ r.discardReason = t.discardReason
  BY <1>1, <1>2 DEF TicketBy
<1>4. Good(t) => Good(r)
  BY <1>1, <1>3 DEF Good, AssignmentFits, IsClosed, ClosedStatuses
<1> QED
  BY <1>3, <1>4 DEF Serves, FirstStays, r

\* A comment dates the first response and changes nothing of this.
LEMMA CommentServes ==
    ASSUME NEW k \in Nat, NEW t \in TicketBy(k), NEW at \in 0..k
    PROVE  Serves(t, [t EXCEPT !.firstResponseAt = at], k)
<1> DEFINE r == [t EXCEPT !.firstResponseAt = at]
<1>1. /\ r \in TicketBy(k) /\ r.status = t.status /\ r.assigneeId = t.assigneeId
      /\ r.resolvedAt = t.resolvedAt /\ r.firstResolvedAt = t.firstResolvedAt
      /\ r.discardReason = t.discardReason
  BY DEF TicketBy
<1> HIDE DEF r
<1>2. Good(t) => Good(r)
  BY <1>1 DEF Good
<1> QED
  BY <1>1, <1>2 DEF Serves, FirstStays, r

------------------------------------------------------------------------------
(***************************************************************************)
(* What one step does to the invariant: it is the step of one request, or  *)
(* it writes the row.                                                      *)
(***************************************************************************)
Places == {"idle", "called", "read", "loaded"}

Calls == [status : TicketStatuses, by : Users0, taker : Users0]

RulesTold == {"status", "assigneeId", "resolvedAt", "firstResolvedAt", "discardReason"}

LEMMA TypeIs ==
    ASSUME NEW n \in 0..MaxRequests, NEW t \in TicketBy(n)
    PROVE  t \in RowType
<1>1. n \in Nat /\ MaxRequests \in Nat /\ n <= MaxRequests
  BY MaxRequestsAssumption
<1>2. t \in TicketBy(MaxRequests)
  BY <1>1, TicketLater
<1> QED
  BY <1>2 DEF TicketBy, RowType, Users0

\* What a request holds and what it is to save.
Fits(w, place, ticket, update, isStale) ==
    /\ place \in Places /\ isStale \in BOOLEAN
    /\ ticket \in TicketBy(served')
    /\ DOMAIN update \subseteq Columns
    /\ Merged(StoredTicket, update) \in TicketBy(served')
    /\ place = "called" => served' > 0
    /\ (~overlapped /\ place \in {"read", "loaded"} /\ ~isStale) =>
         LET outcome == IF place = "read" THEN ticket ELSE Merged(row, update)
         IN  Good(outcome) /\ FirstStays(row, outcome)

\* One request goes on and writes nothing.
LEMMA OneRequest ==
    ASSUME IInv, NEW w \in Worker, NEW place, NEW ticket, NEW update, NEW isStale,
           Fits(w, place, ticket, update, isStale),
           served' \in 0..MaxRequests, served <= served', call' \in [Worker -> Calls],
           pc' = [pc EXCEPT ![w] = place], mine' = [mine EXCEPT ![w] = ticket],
           changes' = [changes EXCEPT ![w] = update],
           stale' = [stale EXCEPT ![w] = isStale],
           UNCHANGED <<row, overdue, overlapped>>
    PROVE  IInv'
<1>1. /\ TypeOK /\ RequestsKnown
      /\ pc \in [Worker -> Places] /\ stale \in [Worker -> BOOLEAN]
      /\ DOMAIN mine = Worker /\ changes = [v \in Worker |-> changes[v]]
      /\ served \in Nat /\ served' \in Nat
  BY MaxRequestsAssumption DEF IInv, TypeOK, Places, RequestsKnown
<1>2. /\ pc'[w] = place /\ mine'[w] = ticket /\ changes'[w] = update /\ stale'[w] = isStale
      /\ \A v \in Worker : v # w =>
           /\ pc'[v] = pc[v] /\ mine'[v] = mine[v] /\ changes'[v] = changes[v]
           /\ stale'[v] = stale[v]
      /\ changes' = [v \in Worker |-> changes'[v]]
      /\ mine' = [v \in Worker |-> mine'[v]]
      /\ pc' \in [Worker -> Places] /\ stale' \in [Worker -> BOOLEAN]
  BY <1>1 DEF Fits, TypeOK
<1>3. RequestsKnown'
  <2>1. row' \in TicketBy(served')
    BY <1>1, TicketLater DEF RequestsKnown
  <2>2. ASSUME NEW v \in Worker
        PROVE  /\ mine'[v] \in TicketBy(served')
               /\ DOMAIN changes'[v] \subseteq Columns
               /\ Merged(StoredTicket, changes'[v]) \in TicketBy(served')
               /\ pc'[v] = "called" => served' > 0
    <3>1. CASE v = w
      BY <1>2, <3>1 DEF Fits
    <3>2. CASE v # w
      BY <1>1, <1>2, <3>2, TicketLater DEF RequestsKnown
    <3> QED
      BY <3>1, <3>2
  <2> QED
    BY <1>2, <2>1, <2>2 DEF RequestsKnown
<1>4. TypeOK'
  <2>1. /\ row' \in RowType /\ served' \in 0..MaxRequests
        /\ \A v \in Worker : /\ mine'[v] \in RowType
                             /\ Merged(StoredTicket, changes'[v]) \in RowType
    BY <1>3, TypeIs DEF RequestsKnown
  <2> QED
    BY <1>1, <1>2, <2>1 DEF TypeOK, Places, Calls, Users0
<1>5. ASSUME ~overlapped' PROVE Good(row)' /\ \A v \in Worker : SaveKnown(v)'
  <2>1. ~overlapped /\ Good(row)'
    BY <1>5 DEF IInv, Good
  <2>2. ASSUME NEW v \in Worker PROVE SaveKnown(v)'
    <3>1. CASE v = w
      BY <1>2, <2>1, <3>1 DEF Fits, SaveKnown, Outcome
    <3>2. CASE v # w
      BY <1>2, <2>1, <3>2 DEF IInv, SaveKnown, Outcome
    <3> QED
      BY <3>1, <3>2
  <2> QED
    BY <2>1, <2>2
<1> QED
  BY <1>3, <1>4, <1>5, <1>2 DEF IInv

\* Deletion and the SLA checker write columns that no rule is about.
LEMMA RowTouched ==
    ASSUME IInv, NEW t \in TicketBy(served), row' = t,
           \A c \in RulesTold : t[c] = row[c],
           UNCHANGED <<overdue, served, pc, call, mine, changes, stale, overlapped>>
    PROVE  IInv'
<1>1. TypeOK /\ RequestsKnown /\ served \in Nat
  BY DEF IInv, TypeOK
<1>2. TypeOK' /\ RequestsKnown'
  BY <1>1, TypeIs DEF TypeOK, RequestsKnown
<1>3. ASSUME ~overlapped' PROVE Good(row)' /\ \A w \in Worker : SaveKnown(w)'
  <2>1. /\ Good(row) /\ t.firstResolvedAt = row.firstResolvedAt
        /\ \A w \in Worker : SaveKnown(w)
    BY <1>3 DEF IInv, RulesTold
  <2>2. Good(t)
    BY <2>1, GoodColumns DEF RulesTold
  <2>3. ASSUME NEW w \in Worker, pc[w] \in {"read", "loaded"}, ~stale[w]
        PROVE  Good(Outcome(w)') /\ FirstStays(t, Outcome(w)')
    <3>1. Good(Outcome(w)) /\ FirstStays(row, Outcome(w))
      BY <2>1, <2>3 DEF SaveKnown
    <3>2. CASE pc[w] = "read"
      BY <2>1, <3>1, <3>2 DEF Outcome, FirstStays
    <3>3. CASE pc[w] = "loaded"
      <4> DEFINE before == Merged(row, changes[w])
                 after == Merged(t, changes[w])
      <4>1. Outcome(w) = before /\ Outcome(w)' = after
        BY <3>3 DEF Outcome
      <4>2. Merged(StoredTicket, changes[w]) \in TicketBy(served) /\ row \in TicketBy(served)
        BY <1>1 DEF RequestsKnown
      <4>3. \A c \in RulesTold : after[c] = before[c]
        BY <1>1, <4>2, MergedIs DEF RulesTold, Names
      <4> HIDE DEF before, after
      <4>4. Good(before) /\ FirstStays(row, before)
        BY <3>1, <4>1
      <4>5. Good(after)
        BY <4>3, <4>4, GoodColumns DEF RulesTold
      <4>6. after.firstResolvedAt = before.firstResolvedAt
        BY <4>3 DEF RulesTold
      <4> QED
        BY <2>1, <4>1, <4>4, <4>5, <4>6 DEF FirstStays
    <3> QED
      BY <2>3, <3>2, <3>3
  <2> QED
    BY <2>2, <2>3 DEF SaveKnown
<1> QED
  BY <1>2, <1>3 DEF IInv

\* What no step may do to the row.
RowStays ==
    /\ row.deleted => row'.deleted
    /\ ~overlapped' => FirstStays(row, row')

\* A save leaves what it was to save, or what nobody can rely on.
LEMMA WriteKept ==
    ASSUME IInv, NEW w \in Worker, Write(w)
    PROVE  IInv' /\ RowStays
<1> DEFINE m == Merged(row, changes[w])
<1>1. /\ TypeOK /\ RequestsKnown /\ served \in Nat
      /\ pc \in [Worker -> Places] /\ changes = [v \in Worker |-> changes[v]]
  BY DEF IInv, TypeOK, Places, RequestsKnown
<1>2. /\ pc[w] = "loaded" /\ row' = m
      /\ overlapped' <=> overlapped \/ stale[w]
      /\ stale' = [v \in Worker |->
                     v # w /\ ~overlapped' /\ pc[v] \in {"read", "loaded"}
                           /\ (stale[v] \/ row' # row)]
      /\ UNCHANGED <<overdue, served, call, mine>>
  BY DEF Write
<1>3. /\ m \in TicketBy(served)
      /\ \A c \in Names : m[c] = IF c \in DOMAIN changes[w] THEN changes[w][c] ELSE row[c]
  BY <1>1, MergedIs DEF RequestsKnown
<1>4. /\ pc'[w] = "idle" /\ changes'[w] = NoChanges
      /\ \A v \in Worker : v # w => pc'[v] = pc[v] /\ changes'[v] = changes[v]
      /\ pc' \in [Worker -> Places] /\ changes' = [v \in Worker |-> changes'[v]]
  BY <1>1 DEF Write, Places
<1>5. RequestsKnown'
  <2>1. ASSUME NEW v \in Worker
        PROVE  /\ DOMAIN changes'[v] \subseteq Columns
               /\ Merged(StoredTicket, changes'[v]) \in TicketBy(served)
               /\ pc'[v] = "called" => served > 0
    BY <1>1, <1>4, StoredTicketIs DEF RequestsKnown
  <2> QED
    BY <1>1, <1>2, <1>3, <1>4, <2>1 DEF RequestsKnown
<1>6. TypeOK'
  <2>1. /\ row' \in RowType
        /\ \A v \in Worker : Merged(StoredTicket, changes'[v]) \in RowType
    BY <1>1, <1>2, <1>5, TypeIs DEF RequestsKnown, TypeOK
  <2>2. /\ overlapped' \in BOOLEAN
        /\ stale' \in [Worker -> BOOLEAN]
    BY <1>2 DEF Write
  <2> QED
    BY <1>1, <1>2, <1>4, <2>1, <2>2 DEF TypeOK, Places
<1>7. ~overlapped' => /\ ~overlapped /\ Good(row) /\ Good(m) /\ FirstStays(row, m)
                      /\ \A v \in Worker : SaveKnown(v)
  <2> SUFFICES ASSUME ~overlapped'
               PROVE  /\ ~overlapped /\ Good(row) /\ Good(m) /\ FirstStays(row, m)
                      /\ \A v \in Worker : SaveKnown(v)
    OBVIOUS
  <2>1. ~overlapped /\ ~stale[w] /\ Good(row) /\ \A v \in Worker : SaveKnown(v)
    BY <1>2 DEF IInv
  <2>2. Outcome(w) = m
    BY <1>2 DEF Outcome
  <2> QED
    BY <1>2, <2>1, <2>2 DEF SaveKnown
<1>8. ASSUME ~overlapped', NEW v \in Worker PROVE SaveKnown(v)'
  <2>1. CASE v = w
    BY <1>4, <2>1 DEF SaveKnown
  <2>2. CASE v # w
    <3>1. pc'[v] \in {"read", "loaded"} /\ ~stale'[v] => ~stale[v] /\ row' = row
      BY <1>2, <1>4, <1>8, <2>2
    <3> QED
      BY <1>2, <1>4, <1>7, <1>8, <2>2, <3>1 DEF SaveKnown, Outcome
  <2> QED
    BY <2>1, <2>2
<1>9. row.deleted => row'.deleted
  <2>1. "deleted" \notin DOMAIN changes[w] /\ "deleted" \in Names
    BY <1>1, StoredTicketIs DEF RequestsKnown, Names
  <2> QED
    BY <1>2, <1>3, <2>1
<1> HIDE DEF m
<1> QED
  BY <1>2, <1>5, <1>6, <1>7, <1>8, <1>9 DEF IInv, RowStays, RequestsKnown

------------------------------------------------------------------------------
(***************************************************************************)
(* The actions.                                                            *)
(***************************************************************************)
\* What a request does not touch, as OneRequest has it.
LEMMA AsItWas ==
    ASSUME IInv, NEW w \in Worker
    PROVE  /\ mine = [mine EXCEPT ![w] = mine[w]]
           /\ changes = [changes EXCEPT ![w] = changes[w]]
           /\ stale = [stale EXCEPT ![w] = stale[w]]
           /\ call \in [Worker -> Calls] /\ stale[w] \in BOOLEAN
           /\ served \in 0..MaxRequests /\ served \in Nat /\ row \in TicketBy(served)
           /\ mine[w] \in TicketBy(served) /\ DOMAIN changes[w] \subseteq Columns
           /\ Merged(StoredTicket, changes[w]) \in TicketBy(served)
<1>1. /\ TypeOK /\ RequestsKnown
      /\ mine \in [Worker -> RowType] /\ stale \in [Worker -> BOOLEAN]
      /\ changes = [v \in Worker |-> changes[v]]
  BY DEF IInv, TypeOK, RequestsKnown
<1>2. mine = [mine EXCEPT ![w] = mine[w]] /\ stale = [stale EXCEPT ![w] = stale[w]]
  BY <1>1
<1>3. changes = [changes EXCEPT ![w] = changes[w]]
  BY <1>1
<1> QED
  BY <1>1, <1>2, <1>3 DEF RequestsKnown, TypeOK, Calls, Users0

\* A request that holds what a service has made of the row is not overtaken yet.
LEMMA HoldsKept ==
    ASSUME IInv, NEW w \in Worker, NEW t, Holds(w, t), Serves(row, t, served'),
           served' \in 0..MaxRequests, served <= served', call' \in [Worker -> Calls],
           UNCHANGED <<row, overdue, changes, overlapped>>
    PROVE  IInv'
<1>1. /\ changes' = [changes EXCEPT ![w] = changes[w]]
      /\ served \in Nat /\ served' \in Nat
      /\ DOMAIN changes[w] \subseteq Columns
      /\ Merged(StoredTicket, changes[w]) \in TicketBy(served')
  BY AsItWas, TicketLater, MaxRequestsAssumption
<1>2. ~overlapped => Good(row)
  BY DEF IInv
<1>3. Fits(w, "read", t, changes[w], FALSE)
  BY <1>1, <1>2 DEF Fits, Serves, Places
<1> QED
  BY <1>1, <1>3, OneRequest DEF Holds

LEMMA ReadsKept ==
    ASSUME IInv, NEW w \in Worker, NEW t, Reads(w, t), Serves(row, t, served + 1)
    PROVE  IInv'
<1>1. /\ served \in Nat /\ served < MaxRequests /\ MaxRequests \in Nat
      /\ served' = served + 1 /\ call' \in [Worker -> Calls]
  BY AsItWas, MaxRequestsAssumption DEF Reads, Starts
<1> QED
  BY <1>1, HoldsKept DEF Reads

\* A status change that was called for has a taker, if it needs one, or nobody.
LEMMA CallKept ==
    ASSUME IInv, NEW w \in Worker, NEW u \in User, NEW status \in TicketStatuses,
           CallChangeStatus(w, u, status)
    PROVE  IInv'
<1> DEFINE taker == IF row.assigneeId = NoOne /\ IsWork(status) THEN u ELSE NoOne
           c == [status |-> status, by |-> u, taker |-> taker]
<1>1. /\ served \in Nat /\ served < MaxRequests /\ MaxRequests \in Nat
      /\ served' = served + 1
      /\ pc' = [pc EXCEPT ![w] = "called"] /\ call' = [call EXCEPT ![w] = c]
      /\ UNCHANGED <<row, overdue, mine, changes, stale, overlapped>>
  BY AsItWas, MaxRequestsAssumption DEF CallChangeStatus, Starts
<1>2. c \in Calls
  BY DEF Calls, Users0
<1> HIDE DEF c
<1>3. call' \in [Worker -> Calls]
  BY <1>1, <1>2, AsItWas
<1>4. mine[w] \in TicketBy(served') /\ Merged(StoredTicket, changes[w]) \in TicketBy(served')
  BY <1>1, AsItWas, TicketLater
<1>5. Fits(w, "called", mine[w], changes[w], stale[w])
  BY <1>1, <1>4, AsItWas DEF Fits, Places
<1>6. PICK ticket, update, isStale :
        ticket = mine[w] /\ update = changes[w] /\ isStale = stale[w]
  OBVIOUS
<1>7. /\ mine' = [mine EXCEPT ![w] = ticket] /\ stale' = [stale EXCEPT ![w] = isStale]
      /\ changes' = [changes EXCEPT ![w] = update]
      /\ served' \in 0..MaxRequests /\ served <= served'
  BY <1>1, <1>6, AsItWas
<1>8. Fits(w, "called", ticket, update, isStale)
  BY <1>5, <1>6
<1>9. pc' = [pc EXCEPT ![w] = "called"] /\ UNCHANGED <<row, overdue, overlapped>>
  BY <1>1
<1> QED
  BY <1>3, <1>7, <1>8, <1>9, OneRequest

\* It is decided on a row that may have changed since, and fits all the same.
LEMMA ReadChangeStatusKept ==
    ASSUME IInv, NEW w \in Worker, ReadChangeStatus(w)
    PROVE  IInv'
<1>1. PICK c \in Calls : c = call[w]
  BY AsItWas
<1>2. call' \in [Worker -> Calls]
  <2>1. NoCall \in Calls
    BY DEF NoCall, Calls, TicketStatuses, Users0
  <2> QED
    BY <2>1, AsItWas DEF ReadChangeStatus
<1>3. /\ served' = served /\ served \in 1..MaxRequests /\ served \in Nat
      /\ UNCHANGED <<row, overdue, changes, overlapped>>
  BY AsItWas, MaxRequestsAssumption DEF ReadChangeStatus, IInv, RequestsKnown
<1>4. CASE ~row.deleted /\ CanChangeStatus(row, c.status, TRUE, TRUE, c.taker)
  <2>1. Serves(row, AfterChangeStatus(row, c.status, c.by, c.taker, served), served)
    <3>1. c.status \in TicketStatuses /\ c.by \in Users0 /\ c.taker \in Users0
      BY DEF Calls
    <3>2. row \in TicketBy(served) /\ served \in 1..served
      BY <1>3, AsItWas
    <3> QED
      BY <1>3, <1>4, <3>1, <3>2, ChangeStatusServes
  <2>2. Holds(w, AfterChangeStatus(row, c.status, c.by, c.taker, served))
    BY <1>1, <1>4 DEF ReadChangeStatus
  <2> QED
    BY <1>2, <1>3, <2>1, <2>2, HoldsKept
<1>5. CASE ~(~row.deleted /\ CanChangeStatus(row, c.status, TRUE, TRUE, c.taker))
  <2>1. pc' = [pc EXCEPT ![w] = "idle"] /\ UNCHANGED <<mine, stale>>
    BY <1>1, <1>5 DEF ReadChangeStatus
  <2>2. Fits(w, "idle", mine[w], changes[w], stale[w])
    BY <1>3, AsItWas DEF Fits, Places
  <2>3. PICK ticket, update, isStale :
          ticket = mine[w] /\ update = changes[w] /\ isStale = stale[w]
    OBVIOUS
  <2>4. /\ mine' = [mine EXCEPT ![w] = ticket] /\ stale' = [stale EXCEPT ![w] = isStale]
        /\ changes' = [changes EXCEPT ![w] = update]
        /\ served' \in 0..MaxRequests /\ served <= served'
    BY <1>3, <2>1, <2>3, AsItWas
  <2>5. Fits(w, "idle", ticket, update, isStale)
    BY <2>2, <2>3
  <2>6. pc' = [pc EXCEPT ![w] = "idle"] /\ UNCHANGED <<row, overdue, overlapped>>
    BY <1>3, <2>1
  <2> QED
    BY <1>2, <2>4, <2>5, <2>6, OneRequest
<1> QED
  BY <1>4, <1>5

\* The first half of save() finds what differs from the row, which the second half
\* puts over it: together the ticket in memory, as long as nothing comes between.
LEMMA LoadKept ==
    ASSUME IInv, NEW w \in Worker, Load(w)
    PROVE  IInv'
<1> DEFINE d == Differing(mine[w], row)
           m == Merged(row, d)
<1>1. /\ pc[w] = "read"
      /\ changes' = [changes EXCEPT ![w] = d] /\ mine' = [mine EXCEPT ![w] = StoredTicket]
      /\ pc' = [pc EXCEPT ![w] = "loaded"]
      /\ UNCHANGED <<row, overdue, served, call, stale, overlapped>>
  BY DEF Load
<1>2. /\ DOMAIN d \subseteq Columns
      /\ Merged(StoredTicket, d) \in TicketBy(served)
      /\ \A c \in Columns : m[c] = mine[w][c]
  BY AsItWas, DifferingIs
<1>3. \A c \in RulesTold : m[c] = mine[w][c]
  BY <1>2, StoredTicketIs DEF RulesTold, Names
<1> HIDE DEF d, m
<1>4. ASSUME ~overlapped, ~stale[w] PROVE Good(m) /\ FirstStays(row, m)
  <2>1. Good(mine[w]) /\ FirstStays(row, mine[w])
    BY <1>1, <1>4 DEF IInv, SaveKnown, Outcome
  <2>2. Good(m)
    BY <1>3, <2>1, GoodColumns DEF RulesTold
  <2>3. m.firstResolvedAt = mine[w].firstResolvedAt
    BY <1>3 DEF RulesTold
  <2> QED
    BY <2>1, <2>2, <2>3 DEF FirstStays
<1>5. Fits(w, "loaded", StoredTicket, d, stale[w])
  BY <1>1, <1>2, <1>4, AsItWas, StoredTicketIs DEF Fits, Places, m
<1>6. /\ stale' = [stale EXCEPT ![w] = stale[w]] /\ call' \in [Worker -> Calls]
      /\ served' \in 0..MaxRequests /\ served <= served'
  BY <1>1, AsItWas
<1> QED
  BY <1>1, <1>5, <1>6, OneRequest

LEMMA ServeKept ==
    ASSUME IInv, NEW w \in Worker, Serve(w)
    PROVE  IInv'
<1>1. /\ served \in Nat /\ served + 1 \in Nat /\ served + 1 \in 1..(served + 1)
      /\ row \in TicketBy(served) /\ row \in TicketBy(served + 1)
  BY AsItWas, TicketLater
<1>2. ASSUME NEW u \in User, NEW status \in TicketStatuses, CallChangeStatus(w, u, status)
      PROVE  IInv'
  BY <1>2, CallKept
<1>3. ASSUME NEW who \in Users0, ReadAssign(w, who) PROVE IInv'
  BY <1>1, <1>3, AssignServes, ReadsKept DEF ReadAssign
<1>4. ASSUME NEW u \in User, NEW status \in PickupStatuses, ReadPickup(w, u, status)
      PROVE  IInv'
  BY <1>1, <1>4, PickupServes, ReadsKept DEF ReadPickup
<1>5. ASSUME NEW target \in ReopenTargets, ReadReopen(w, target) PROVE IInv'
  BY <1>1, <1>5, ReopenServes, ReadsKept DEF ReadReopen
<1>6. ASSUME NEW u \in User, ReadAcceptTransfer(w, u) PROVE IInv'
  BY <1>1, <1>6, TransferServes, ReadsKept DEF ReadAcceptTransfer
<1>7. CASE ReadEdit(w)
  BY <1>1, <1>7, ReadsKept DEF ReadEdit, Serves, FirstStays
<1>8. CASE ReadComment(w)
  BY <1>1, <1>8, CommentServes, ReadsKept DEF ReadComment
<1> QED
  BY <1>2, <1>3, <1>4, <1>5, <1>6, <1>7, <1>8 DEF Serve, Users0

\* The steps of others.
LEMMA OthersKept ==
    ASSUME IInv, SoftDelete \/ CheckSla
    PROVE  IInv' /\ RowStays
<1>1. row \in TicketBy(served)
  BY DEF IInv, RequestsKnown
<1>2. PICK c \in {"deleted", "resolutionBreached"} : row' = [row EXCEPT ![c] = TRUE]
  BY DEF SoftDelete, CheckSla
<1>3. /\ row' \in TicketBy(served)
      /\ \A d \in RulesTold : row'[d] = row[d]
      /\ row.deleted => row'.deleted
  BY <1>1, <1>2 DEF TicketBy, RulesTold
<1>4. PICK t \in TicketBy(served) : t = row'
  BY <1>3
<1>5. IInv'
  BY <1>3, <1>4, RowTouched DEF SoftDelete, CheckSla
<1> QED
  BY <1>3, <1>5 DEF RowStays, FirstStays, RulesTold

LEMMA TimePasses ==
    ASSUME IInv, TargetPasses \/ UNCHANGED vars
    PROVE  IInv'
<1>1. /\ UNCHANGED <<row, served, pc, call, mine, changes, stale, overlapped>>
      /\ overdue' \in BOOLEAN
  BY DEF TargetPasses, vars, IInv, TypeOK
<1>2. TypeOK' /\ RequestsKnown'
  BY <1>1 DEF IInv, TypeOK, RequestsKnown
<1>3. (Good(row) <=> Good(row)') /\ \A w \in Worker : SaveKnown(w) <=> SaveKnown(w)'
  BY <1>1 DEF Good, SaveKnown, Outcome
<1> QED
  BY <1>1, <1>2, <1>3 DEF IInv

------------------------------------------------------------------------------
(***************************************************************************)
(* The invariant holds at first and is kept by every step.                 *)
(***************************************************************************)
LEMMA IInvAtFirst ==
    ASSUME Init
    PROVE  IInv
<1>1. /\ row = StoredTicket /\ served = 0 /\ pc \in [Worker -> Places]
      /\ overdue = FALSE /\ overlapped = FALSE /\ stale \in [Worker -> BOOLEAN]
      /\ mine \in [Worker -> {StoredTicket}] /\ changes = [w \in Worker |-> NoChanges]
      /\ \A w \in Worker : pc[w] = "idle" /\ mine[w] = StoredTicket
                           /\ changes[w] = NoChanges
  BY DEF Init, Places
<1>2. 0 \in 0..MaxRequests /\ StoredTicket \in TicketBy(0) /\ StoredTicket \in RowType
  BY MaxRequestsAssumption, StoredTicketIs, TypeIs
<1>3. call \in [Worker -> Calls]
  BY DEF Init, NoCall, Calls, TicketStatuses, Users0
<1>4. RequestsKnown
  BY <1>1, <1>2, StoredTicketIs DEF RequestsKnown
<1>5. TypeOK
  BY <1>1, <1>2, <1>3, StoredTicketIs DEF TypeOK, Places, Calls, Users0
<1> QED
  BY <1>1, <1>4, <1>5, StoredTicketIs DEF IInv, SaveKnown

\* Every step keeps the invariant; saves and the statements of others are the steps
\* that write the row.
LEMMA StepKeeps ==
    ASSUME IInv, [Next]_vars
    PROVE  IInv' /\ RowStays
<1>1. row' = row => RowStays
  BY DEF RowStays, FirstStays
<1>2. ASSUME NEW w \in Worker, Serve(w) PROVE IInv' /\ RowStays
  <2>1. row' = row
    BY <1>2 DEF Serve, CallChangeStatus, ReadAssign, ReadPickup, ReadReopen,
                ReadAcceptTransfer, ReadEdit, ReadComment, Reads
  <2> QED
    BY <1>1, <1>2, <2>1, ServeKept
<1>3. ASSUME NEW w \in Worker, Finish(w) PROVE IInv' /\ RowStays
  <2>1. CASE ReadChangeStatus(w)
    BY <1>1, <2>1, ReadChangeStatusKept DEF ReadChangeStatus
  <2>2. CASE Load(w)
    BY <1>1, <2>2, LoadKept DEF Load
  <2>3. CASE Write(w)
    BY <2>3, WriteKept
  <2> QED
    BY <1>3, <2>1, <2>2, <2>3 DEF Finish
<1>4. CASE SoftDelete \/ CheckSla
  BY <1>4, OthersKept
<1>5. CASE TargetPasses \/ UNCHANGED vars
  BY <1>1, <1>5, TimePasses DEF TargetPasses, vars
<1> QED
  BY <1>2, <1>3, <1>4, <1>5 DEF Next

------------------------------------------------------------------------------
\* The inductive invariant holds in every state.
THEOREM WritesInvariant == Spec => []IInv
<1> QED
  BY IInvAtFirst, StepKeeps, PTL DEF Spec

\* The row, and what every request holds of it, keep their types.
THEOREM WritesTypeCorrect == Spec => []TypeOK
<1>1. IInv => TypeOK
  BY DEF IInv
<1> QED
  BY <1>1, WritesInvariant, PTL

\* The rules of a ticket hold as long as no request saves a ticket that others saved
\* since it was read, whatever is decided on the earlier read of a status change.
THEOREM RulesHold == Spec => []RulesHoldInIsolation
<1>1. IInv => RulesHoldInIsolation
  BY DEF IInv, Good, RulesHoldInIsolation, AssignmentRule
<1> QED
  BY <1>1, WritesInvariant, PTL

\* Under the same condition the first resolution is kept for good.
THEOREM FirstIsKept == Spec => FirstKeptInIsolation
<1>1. IInv /\ [Next]_vars =>
        [~overlapped' /\ row.firstResolvedAt # Never =>
           row'.firstResolvedAt = row.firstResolvedAt]_vars
  BY StepKeeps DEF RowStays, FirstStays
<1> QED
  BY <1>1, WritesInvariant, PTL DEF Spec, FirstKeptInIsolation

\* No save brings a deleted ticket back, of whatever age the ticket it saves: the
\* columns of a save do not include deletedAt.
THEOREM DeletedStaysDeleted == Spec => DeletedForGood
<1>1. IInv /\ [Next]_vars => [row.deleted => row'.deleted]_vars
  BY StepKeeps DEF RowStays
<1> QED
  BY <1>1, WritesInvariant, PTL DEF Spec, DeletedForGood

==============================================================================
