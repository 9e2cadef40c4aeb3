----------------------------- MODULE Invitations -----------------------------
(***************************************************************************)
(* The invitations of one person (one e-mail address) to one workspace:    *)
(* created, accepted, rejected, cancelled, resent, and reported to the     *)
(* inviter when they expire.  Every call reads an invitation, decides, and *)
(* saves it whole: save() reads the row again and updates the columns that *)
(* differ.  Calls, hourly runs and restarts come between any two steps.    *)
(* Nobody removes the person from the workspace here: that is in Members.  *)
(***************************************************************************)
EXTENDS Integers, FiniteSets

CONSTANTS
    MaxInvitations, \* bound: invitations ever created
    Worker,         \* calls in flight at once
    NoInvitation,
    GivenAnswers,   \* the refusals given: they differ in who gives them
    TTL,            \* the seven days that a link lives
    MaxTime         \* bound: the clock stops here

ASSUME InvitationsAssumption ==
    /\ MaxInvitations \in Nat /\ NoInvitation \notin 1..MaxInvitations
    /\ GivenAnswers \subseteq {"rejected", "cancelled"}
    /\ TTL \in Nat /\ MaxTime \in Nat \ {0}

\* Ids are ULIDs, which come in the order of creation.
Invitation == 1..MaxInvitations

VARIABLES
    invitations,    \* the rows; "none" is an invitation not inserted yet
    member,         \* the person has become a member of the workspace
    doing,          \* what each worker is in the middle of
    notices,        \* how often the inviter was told of each, 2 being often
    overlapped,     \* a call has written after others wrote since its read
    now

vars == <<invitations, member, doing, notices, overlapped, now>>

Answers == {"accepted", "rejected", "cancelled"}

\* A link is told from others by the time it was issued (lastSentAt).
NoRow == [status |-> "none", token |-> 0, expiresAt |-> 0, expiryNotified |-> FALSE]

Columns == DOMAIN NoRow

NoChanges == [c \in {} |-> NoRow[c]]

\* step is what comes next; mine is the object in memory; changes are the columns
\* that an UPDATE sets, with their values; after says what follows the save
Idle == [step |-> "idle", id |-> NoInvitation, mine |-> NoRow, changes |-> NoChanges,
         after |-> "idle", new |-> NoInvitation, stale |-> FALSE]

Init ==
    /\ invitations = [i \in Invitation |-> NoRow]
    /\ member = FALSE
    /\ doing = [w \in Worker |-> Idle]
    /\ notices = [i \in Invitation |-> 0]
    /\ overlapped = FALSE
    /\ now = 1

Taken == {i \in Invitation : invitations[i] # NoRow
                              \/ \E w \in Worker : doing[w].new = i}

\* The first id that no row has and no call is about to insert
IsNext(i) == i \notin Taken /\ \A j \in 1..(i - 1) : j \in Taken

Pending == {i \in Invitation : invitations[i].status = "pending"}

IsExpired(row) == now > row.expiresAt

\* Worker w has read invitation i, has changed it into row, and does step next.
Begins(w, step, i, row, after, new) ==
    /\ doing[w] = Idle
    /\ doing' = [doing EXCEPT ![w] =
         [step |-> step, id |-> i, mine |-> row, changes |-> NoChanges,
          after |-> after, new |-> new, stale |-> FALSE]]
    /\ UNCHANGED <<invitations, member, notices, overlapped, now>>

\* Worker w writes row i and goes on with call.  Who is stale is of no more
\* interest once something was overwritten.
Writes(w, i, row, call) ==
    /\ invitations' = [invitations EXCEPT ![i] = row]
    /\ overlapped' = (overlapped \/ doing[w].stale)
    /\ doing' = [v \in Worker |->
         IF v = w THEN call
         ELSE [doing[v] EXCEPT !.stale =
                 ~overlapped' /\ (@ \/ (doing[v] # Idle /\ invitations' # invitations))]]
    /\ UNCHANGED <<member, notices, now>>

------------------------------------------------------------------------------
(***************************************************************************)
(* CreateInvitation: not for a member, not next to a pending invitation    *)
(* unless it has expired, which is cancelled first.                        *)
(***************************************************************************)
\* Faulty: any pending invitation is left as it is.
CreateBeside(w, i) ==
    /\ ~member /\ IsNext(i)
    /\ \A j \in Pending : IsExpired(invitations[j])
    /\ Begins(w, "insert", NoInvitation, NoRow, "idle", i)

ReadToCreate(w, i) ==
    /\ ~member
    /\ IsNext(i)
    /\ \/ /\ Pending = {}
          /\ Begins(w, "insert", NoInvitation, NoRow, "idle", i)
       \/ \E j \in Pending :
            /\ IsExpired(invitations[j])
            /\ Begins(w, "save", j, [invitations[j] EXCEPT !.status = "cancelled"],
                      "insert", i)

Insert(w) ==
    /\ doing[w].step = "insert"
    /\ Writes(w, doing[w].new,
              [status |-> "pending", token |-> now, expiresAt |-> now + TTL,
               expiryNotified |-> FALSE], Idle)

(***************************************************************************)
(* AcceptInvitation: too late, the invitation is cancelled; else the       *)
(* person becomes a member, and then the invitation is closed.             *)
(***************************************************************************)
\* Faulty: the invitation is closed first.
CloseFirst(w, i) ==
    /\ i \in Pending
    /\ Begins(w, "save", i, [invitations[i] EXCEPT !.status = "accepted"],
              "join", NoInvitation)

ReadToAccept(w, i) ==
    LET row == invitations[i]
    IN  /\ i \in Pending
        /\ IF IsExpired(row)
           THEN Begins(w, "save", i, [row EXCEPT !.status = "cancelled"],
                       "idle", NoInvitation)
           ELSE Begins(w, "join", i, [row EXCEPT !.status = "accepted"],
                       "idle", NoInvitation)

\* One who is a member by now is found to be one, or runs into the unique
\* index on the workspace and the user, which ends the call.
Join(w) ==
    /\ doing[w].step = "join"
    /\ member' = TRUE
    /\ \/ doing' = [doing EXCEPT ![w].step = "save"]
       \/ member /\ doing' = [doing EXCEPT ![w] = Idle]
    /\ UNCHANGED <<invitations, notices, overlapped, now>>

\* RejectInvitation by the person, CancelInvitation by a manager.
ReadToAnswer(w, i, answer) ==
    /\ i \in Pending
    /\ Begins(w, "save", i, [invitations[i] EXCEPT !.status = answer],
              "idle", NoInvitation)

\* Faulty: the new link has the old deadline.
ResendAsIs(w, i) ==
    /\ i \in Pending
    /\ Begins(w, "save", i, [invitations[i] EXCEPT !.token = now], "idle", NoInvitation)

\* Faulty: any invitation can be resent.
ResendAnswered(w, i) ==
    /\ invitations[i].status \in Answers
    /\ Begins(w, "save", i,
              [invitations[i] EXCEPT !.status = "pending", !.token = now,
                                     !.expiresAt = now + TTL], "idle", NoInvitation)

\* ResendInvitation: a new link with a new deadline; that the inviter was told
\* of the old one's end is kept
ReadToResend(w, i) ==
    /\ i \in Pending
    /\ Begins(w, "save", i,
              [invitations[i] EXCEPT !.token = now, !.expiresAt = now + TTL],
              "idle", NoInvitation)

(***************************************************************************)
(* NotifyExpiredInvitations, hourly: one call for each invitation of the   *)
(* list that a run reads at its start.  It is marked, and then reported.   *)
(***************************************************************************)
\* Faulty: one told is told again.
FindAnyExpired(w, i) ==
    /\ i \in Pending /\ invitations[i].expiresAt <= now
    /\ Begins(w, "save", i, [invitations[i] EXCEPT !.expiryNotified = TRUE],
              "tell", NoInvitation)

FindExpired(w, i) ==
    /\ i \in Pending
    /\ invitations[i].expiresAt <= now
    /\ ~invitations[i].expiryNotified
    /\ Begins(w, "save", i, [invitations[i] EXCEPT !.expiryNotified = TRUE],
              "tell", NoInvitation)

Tell(w) ==
    LET i == doing[w].id
    IN  /\ doing[w].step = "tell"
        /\ notices' = [notices EXCEPT ![i] = IF @ < 2 THEN @ + 1 ELSE 2]
        /\ doing' = [doing EXCEPT ![w] = Idle]
        /\ UNCHANGED <<invitations, member, overlapped, now>>

(***************************************************************************)
(* save(): the row is read again, then the columns that differ are updated *)
(***************************************************************************)
Differing(mine, row) == [c \in {d \in Columns : mine[d] # row[d]} |-> mine[c]]

Load(w) ==
    LET call == doing[w]
    IN  /\ call.step = "save"
        /\ doing' = [doing EXCEPT ![w] =
             [call EXCEPT !.step = "write", !.mine = NoRow,
                          !.changes = Differing(call.mine, invitations[call.id])]]
        /\ UNCHANGED <<invitations, member, notices, overlapped, now>>

Merged(row, changes) ==
    [c \in Columns |-> IF c \in DOMAIN changes THEN changes[c] ELSE row[c]]

Write(w) ==
    LET call == doing[w]
    IN  /\ call.step = "write"
        /\ Writes(w, call.id, Merged(invitations[call.id], call.changes),
                  IF call.after = "idle" THEN Idle
                  ELSE [call EXCEPT !.step = call.after, !.changes = NoChanges])

------------------------------------------------------------------------------
\* The process restarts and forgets what it was doing.
Crash ==
    /\ \E w \in Worker : doing[w] # Idle
    /\ doing' = [w \in Worker |-> Idle]
    /\ UNCHANGED <<invitations, member, notices, overlapped, now>>

Tick ==
    /\ now < MaxTime
    /\ now' = now + 1
    /\ UNCHANGED <<invitations, member, doing, notices, overlapped>>

Begin(w) ==
    \E i \in Invitation :
        \/ ReadToCreate(w, i)
        \/ ReadToAccept(w, i)
        \/ \E answer \in GivenAnswers : ReadToAnswer(w, i, answer)
        \/ ReadToResend(w, i)

Notify == \E w \in Worker, i \in Invitation : FindExpired(w, i)

Finish(w) == Insert(w) \/ Join(w) \/ Tell(w) \/ Load(w) \/ Write(w)

Next ==
    \/ \E w \in Worker : Begin(w) \/ Finish(w)
    \/ Notify
    \/ Crash
    \/ Tick

Spec == Init /\ [][Next]_vars

------------------------------------------------------------------------------
(***************************************************************************)
(* Properties.                                                             *)
(***************************************************************************)
RowType ==
    [status : {"none", "pending"} \union Answers, token : 0..MaxTime,
     expiresAt : 0..(MaxTime + TTL), expiryNotified : BOOLEAN]

IsCall(call) ==
    /\ call = [step |-> call.step, id |-> call.id, mine |-> call.mine,
               changes |-> call.changes, after |-> call.after, new |-> call.new,
               stale |-> call.stale]
    /\ call.step \in {"idle", "insert", "join", "save", "write", "tell"}
    /\ {call.id, call.new} \subseteq Invitation \union {NoInvitation}
    /\ {call.mine, Merged(NoRow, call.changes)} \subseteq RowType
    /\ call.after \in {"idle", "insert", "tell"}
    /\ call.stale \in BOOLEAN

\* Every row and every call in flight holds what it can hold.
TypeOK ==
    /\ invitations \in [Invitation -> RowType]
    /\ member \in BOOLEAN /\ overlapped \in BOOLEAN
    /\ doing = [w \in Worker |-> doing[w]] /\ \A w \in Worker : IsCall(doing[w])
    /\ notices \in [Invitation -> 0..2]
    /\ now \in 1..MaxTime

\* An invitation that reads as accepted has let its person in: the member is
\* inserted first, so neither a restart nor a race leaves somebody outside with
\* a link that no longer works (invitation-accept.ts:57).
AcceptedMeansMember ==
    \A i \in Invitation : invitations[i].status = "accepted" => member

\* A link and its deadline belong together, whoever resends and whatever saves
\* of older reads come after: no link outlives the seven days of its own issue
\* (invitation-resend.ts:28).
LinkKeepsItsDeadline ==
    \A i \in Invitation :
        invitations[i].status # "none" =>
            invitations[i].expiresAt = invitations[i].token + TTL

\* As long as no call writes after others wrote since its read: an answer
\* stands ("Invitation is no longer valid", invitation-accept.ts:28),
AnswersStandInIsolation ==
    [][\A i \in Invitation :
         ~overlapped' /\ invitations[i].status \in Answers =>
            invitations'[i].status = invitations[i].status]_vars

\* the person has one pending invitation ("A pending invitation already exists
\* for this email", invitation-create.ts:44), also when an expired one gives way,
OnePendingInIsolation == ~overlapped => Cardinality(Pending) <= 1

\* and the inviter is told once of each, resent or not.
ToldOnceInIsolation == ~overlapped => \A i \in Invitation : notices[i] <= 1

==============================================================================
