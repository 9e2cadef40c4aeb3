# Verification of open-helpdesk-backend

TLA+ models of the parts of this backend where several requests, timers and
restarts meet, model-checked with TLC, with TLAPS proofs. Paths below are relative to the repository (`src/ticket/...` is the
NestJS source tree).

The backend is a multi-tenant helpdesk: a NestJS process over PostgreSQL through
TypeORM. Requests run concurrently in one event loop (or in several instances),
every command reads through a repository, computes on an object in memory and
saves it; there are almost no transactions, no row locks and no version columns.
Timers (`@Cron`, `setInterval`) run the periodic work. Events go through an
in-process emitter to e-mail, webhooks, sockets and the audit log.

## 1. Inventory

| Component | State | Operations | Interacts with | What is hard | What makes it correct |
|---|---|---|---|---|---|
| Ticket lifecycle (`ticket/application/commands`, `ticket/domain`) | status, assignee, resolution columns, reopen count, deletedAt | change status, assign, release, pick up, reopen (team, portal), delete, bulk forms | roles of the workspace, transfers, events to webhooks and screens | nine commands write the same pair of columns | work has an assignee, the queue has nobody; resolution agrees with status; closed tickets leave only by reopening; assignees are on the team |
| Ticket persistence (`typeorm-ticket.repository.ts`) | the row | findById, whole-object `save`, soft delete, create under an advisory lock | every command, comments, the SLA checker | read-modify-write without isolation | no save undoes a deletion; the rules survive as long as saves do not overlap |
| SLA breach checker (`sla-breach-checker.service.ts`) | breach flags | one UPDATE every five minutes | saves of tickets | the flag is a column of every save | a lasting breach ends flagged |
| Transfer requests (`transfer-request-*.ts`, expiry service) | request rows | create, accept, reject, cancel, expire | the ticket | check-then-write, two writes in an acceptance, restarts | an accepted request handed over; an expired one was late; none is pending for ever |
| Sessions (`user-session-*.ts`) | session rows, one-time hand-over codes | sign in, refresh, hand over, sign out, revoke, purge | custom domains | the same token presented twice, revocation while something is under way | a token is traded once; a revoked session stays revoked; an ended family stays ended |
| Accounts of people (`user/`) | users, one-time tokens | register, verify, reset, OAuth | sessions, e-mail | single use of a token | a token is accepted once |
| Members and invitations (`workspace/`) | members with a role, invitations | add, change role, remove; invite, accept, reject, cancel, resend, notify | tickets, e-mail, notifications | counts checked before a write; whole-row saves | a workspace keeps an admin; a link keeps its deadline; who accepted is a member |
| Workspace lifecycle (`workspace-delete/restore/purge.ts`, purge scheduler) | deletedAt, purgeAt, reminder | delete, restore, remind, purge | files, mailboxes, members | restore against purge | only a workspace that is deleted is erased |
| Custom domains (`workspace-*-custom-domain.ts`, daily check) | domain, verified, failures | set, verify, confirm, recheck | DNS, sessions | a save after waiting for DNS | trust follows the checks of the present domain |
| Ticket numbers and references | MAX + 1 under a lock, formats | create, convert | import | skipped references, conversion, saves that hold no lock | numbers and references are unique |
| Export and import (`workspace-import.ts`, `workspace-export.ts`) | links from sources to rows | export, match, insert, complete | numbers, files, e-mail references | overlapping imports, renamed tickets, a COMMIT whose answer is lost | a ticket imported again and again is there once |
| Attachments (`attachment/`) | objects in the storage, rows that name them | stage, upload, claim, clean up, delete | tickets, comments, imports, purges | object and row are written apart; cleanup against claim | a ticket keeps its files, nothing is left over |
| Inbound e-mail, mailboxes, e-mail rules | pollers, processed ids | poll, route, import | tickets, users, members | overlapping pollers, failures between routing and marking | a message becomes one ticket or comment |
| Surveys (`csat/`, `csat-survey.handler.ts`) | one response per ticket | send, answer | status events | an insert that a UNIQUE constraint guards | one survey per ticket |
| Notifications, realtime, webhooks, outgoing e-mail | queues of nothing: fire and forget | on events | event emitter | order and loss | only that followers are not misled about a ticket |
| API, API keys, AI, audit log, organizations, projects, departments, tags, custom fields, canned responses, knowledge base, reports, configuration, onboarding, changelog, shared code, migrations | rows and settings | create, edit, delete, query | | little control of their own | |

`PROJECT.json` lists every component with what is modelled of it, and every
hazard at the line where it bites.

## 2. Plan

Done, in the order of importance:

1. `TicketRules`, `Tickets`: the lifecycle with one command at a time.
2. `TicketWrites`: the same commands on a shared row, at their statements.
3. `TransferRequests`: creation, answers, expiry, restarts.
4. `Sessions`, and the abstract `SessionLife` that it implements.
5. `Members` (last admin) and `Invitations` (accept, cancel, resend, told once).
6. `WorkspaceRow`: deletion, restore, reminder and purge together with the custom
   domain and the settings, because all of them save the same row.
7. `MailPolling`: the loops of a mailbox, processed marks, a deleted workspace's mail.
8. `TicketImport`: numbers and references under the advisory lock, imports.
9. `StoredFiles`: objects and rows of uploads, cleanup, imports and purges.
10. Proofs of the modules in section 6.

Left:

* `OneTimeTokens` (single use rests on one atomic insert).
* The first-response half of the SLA as a second flag of `TicketWrites`: taken back
  by the save of the first answer, it is never set again
  (`sla-breach-checker.service.ts:60`).
* Compositions: `Members` with `TicketWrites` through the roles, `WorkspaceRow`
  with `MailPolling` through the deletion.
* An abstract `TransferOutcome` (asked, answered once), which `TransferRequests`
  implements only as long as calls do not overlap.

## 3. Modules

### TicketRules
The pure part of `ticket/domain`: statuses, roles and their permissions, how
status and assignee fit together (`ticket-assignment-rule.ts`), resolving
(`ticket-resolution.ts`) and, for each service, `Can...` (its early returns) and
`After...` (the ticket it saves). Names of people and texts are abstracted: a
discard reason is there or not. Used by `Tickets`, `TicketWrites`,
`TransferRequests` and `Members`.

### Tickets
One ticket, one workspace. `ticket` is the row, `roles` the members, `transfer`
the pending request, `told` what a follower of `ticket.statusChanged`,
`ticket.assigned` and `ticket.reopened` knows, `now` the clock. Each action is a
command from first read to last write; its guards are, in order, the permission
(`EnsureWorkspacePermission`, `EnsureTicketAccess`, `EnsureTicketAssignee`) and
the service's refusals. `SetRole` lets anybody of `GivenRoles` be demoted,
removed or invited back at any time; nothing in the code touches their tickets.
`Init` is a ticket as `CreateTicket` leaves it; `InitByRule` one that an e-mail
rule has assigned (`RouteInboundEmail`).

### TicketWrites
The same services with the database between their steps. A worker goes
`idle -> (called ->) read -> loaded -> idle`: `Reads` is `findById` with the
service's computation (`mine` is the object to be saved), `Load` is the SELECT
that TypeORM's `save` makes, which leaves the columns that differ (`changes`), and
`Write` the UPDATE of those columns, in whatever row there is by then (`Merged`).
`SoftDelete`, and `CheckSla` with its single UPDATE, come in between. `overlapped` records that a ticket was saved over a save made
since its read: the history variable that says whether isolation was violated.
`TypeORM`'s two steps are library code, modelled from how `update()` calls it.

### TransferRequests
Calls that check in one step and write in the next, the acceptance in two writes,
the expiry service as find and mark, `Crash` dropping whatever is in flight.
`handedOver` is a history variable. Permissions are in `Tickets`.

### Sessions
The `user_sessions` table of one user. A refresh token is the number of rotations
before it, so "hash equals tokenHash" is `t = row[s].token` and "equals
previousTokenHash" is `t + 1 = row[s].token`. A refresh reads in `Present` and
writes in `Rotate` and `ExtendFamily`; a reused token reads in `PresentRotated`
and revokes in `RevokeReused`; a hand-over reads in `ExchangeCode` and inserts in
`CreateHandedOver`. `traded` and `signedOut` are history variables.

### Members
The members of one workspace. A call reads a row and checks (`ReadAdd`,
`ReadChangeRole`, `ReadEnroll`, `ReadRemove`), then writes: `Load` is the SELECT of
`save()`, which leads to `Write` when the row is there and to `Insert` when it is
not; `Delete` is by id. Rows have ids, so that a member removed and added again is
somebody else to `save()`. Who asks is reduced to whether it is a system admin:
an admin of the workspace can ask as long as there is one. `overlapped` becomes
true when a call changes something after another has changed something since its
read; `removed` is a history variable.

### Invitations
The invitations of one address to one workspace. A link is named by the time it
was issued (`lastSentAt`). Each call is a read with its decision, `Load` and
`Write` for `save()`, and what the service does next (`after`): a new invitation
after the cancelled one, the notice after the mark. `Join` is the insert of the
member in an acceptance, which comes before its `save()`. The list that a run of
the notice reads is modelled as one call for each invitation of it, which permits
more orders than the loop has. `notices` is a history variable. Rejection and
cancellation differ only in who gives them and in the word that is stored:
`GivenAnswers` says which of them an instance has.

### SessionLife
What `Sessions` promises, without requests, statements or time: a session lives
once, trades each token once and only while it lives, and comes to a family on the
word of one that lives in it. `Sessions` maps a row that is not revoked to "live", a
revoked one to "ended", and a session that a hand-over is about to insert to
"coming" (`StateOf`, `FamilyOf`); `ImplementsSessionLife` is the refinement.

### WorkspaceRow
The row of one workspace. Deletion and restoration are two UPDATEs each
(`DateDeletion`, `FlagDeletion`; `UnflagDeletion`, `UndateDeletion`), in opposite
order; the daily run finds what is due and erases it by id later
(`FindDueForPurge`, `FindDeleted`, `Erase`). Every form of the settings and every
check of the custom domain reads the whole workspace, may wait for DNS (`Passed`,
`Failed`) and saves it whole: `Load` is the SELECT of `save()`, `Update` sets the
columns that differ, `Insert` brings back a row that is gone. `CutOff` ends any call
between its statements, as an error or a restart does: what it wrote stays. `raced`
records which kind of write (the lifecycle, the settings) came after another of its
kind had been made since its read, and `cuts` counts the calls cut off. DNS answers
are any.

### MailPolling
One mailbox. `batches` are the rounds of its loops and imports on request; the
loop in the map of pollers is `installed`, and another one can be under way whose
place in the map was taken. `refreshPollers` is three steps (`RefreshReadsDeleted`,
`RefreshLists`, `RefreshStarts`/`Stops`/`Keeps`), a round `Fetch`, `Stamp` (the
time of the last poll), `Take` ... `Mark` for each message, `Save` of the whole
mailbox. Time is in days, because SEARCH SINCE compares days. An edit, a pause and a
resume read the mailbox (`ReadMailbox`) and later save it whole (`UpdateMailbox`), or
are refused or fail (`EditFails`); `editing` are those in between. What an edit saves
of the columns it does not set is what it read, and therefore any values; a row that is
gone is inserted. Deletion takes the row and then emits the event that stops the loop
(`DeleteMailbox`), or fails before the event (`DeleteUnheard`). Its read, its DELETE
and its event are one step: between the DELETE and the event other steps find the row
gone, as they do after `DeleteUnheard`, and the loop that a later event stops could
also have been stopped by a refresh that found the mailbox gone.
`disturbed` says which unguarded thing has happened (a loop replaced in a round, two
batches that hold one message, an end between ticket and mark); `slipped` are messages
that a round left behind unmarked.

### TicketImport
The tickets of one workspace under what names them: number, reference, links of
imports. `Create`, `ImportMatches` and `RewriteAll` need the advisory lock
(`Unlocked`), which a call of step "insert" holds: an import inserts one ticket of its
file after the other (`Insert`), each with the next number and the reference it had or
the next free one, and commits when none is left (`Commit`). `ImportBegins` reads the
links before it waits for the lock, as the code does, and saves of a ticket
(`ReadTicket`, `SaveTicket`) hold no lock and write the reference they read. A file is
an export of this workspace (all live tickets, with the identities `Origins` that an
export writes) or one of elsewhere; `born` stands for the reporter and the second of a
ticket, which tell tickets apart. `SourceAssumption` says what a file of elsewhere is:
each ticket with an identity and a reference of its own, the identity not an id of here. `crossed` and `stale` say that a ticket got another name
under an import that would not find it, and that a save put an old reference back.

### StoredFiles
Objects in the storage and the rows that name them, never written together. `doing`
is what each call is in the middle of: an upload between object and row, the
cleanup and the deletion between their list, the objects and the rows, an import
between its objects and its COMMIT, a purge between its list of keys and the rows.
`Crash` drops all of it. `held` are the files a ticket got and nobody asked to
delete; `disturbed` says that something the code does not guard against has happened:
"loss" (a file claimed while a call was about to delete it, a restart inside such a
call, a COMMIT without answer) or "leftover" (an insert that failed, an object that
the storage did not delete, a restart, a file that came after the keys were listed).

### MC modules
Each `MC` module gives the people and ids their values where the configuration
does not, and names the symmetries. Symmetry is used for safety only; no liveness
run has it.

Operators whose comment begins with "Faulty:" are not part of any specification:
each is a plausible mistake in the definition that follows it, kept to show that
a property notices it.

## 4. Runs

| Run | Configuration | Instance | Shows |
|---|---|---|---|
| `tickets` | `Tickets.cfg` | a system admin outside the workspace, two agents (one of whom may be demoted, removed and come back), the requester; clock to 3, one reopen | all properties of `Tickets` |
| `tickets_by_rule` | `TicketsByRule.cfg` | the same, created by an assigning e-mail rule | **violation** of `AssignmentRule` |
| `writes` | `TicketWrites.cfg` | two workers, two people, three requests | what the rules need, what is safe without isolation, and `BreachEndsFlagged` |
| `transfers` | `TransferRequests.cfg` | one request, two workers, one restart, clock to 4 | `AcceptedWasHandedOver`, `ExpiredPastDeadline`, `PendingEnds` |
| `sessions` | `Sessions.cfg` | two sessions, two workers, two rotations, clock to 3 | `TradedOnce`, `RevokedIsFrozen`, `EndedStaysEnded`, and the refinement of `SessionLife` |
| `invitations` | `Invitations.cfg` | two invitations, two workers, restarts, clock to 2 | `AcceptedMeansMember`, `LinkKeepsItsDeadline`, and what holds in isolation |
| `members` | `Members.cfg` | three people, two workers, four rows, roles admin and user | what holds in isolation |
| `mail` | `MailPolling.cfg` | one message, two batches, one edit at a time, two configurations, two days | what a message becomes, how many loops there are, which message is left behind, that a deleted mailbox nothing has in memory stays gone |
| `workspace` | `WorkspaceRow.cfg` | two workers, one domain, one call cut off, clock to 3 | what a deletion and a verified domain mean, and `DeletedIsErased` |
| `import` | `TicketImport.cfg` | a file of two tickets, two workers, two titles, two formats, three rows | `CommitsAreFree`, `ImportedOnce`, `ReferencesKeptWhenApart` |
| `import_references` | `TicketImportReferences.cfg` | the same | **violation** of `ReferencesKept` |
| `files` | `StoredFiles.cfg` | two files, two workers, one restart, clock to 3 | `TicketKeepsItsFiles`, `NothingLeftBehind`, `StagedEnds` |

Why these bounds are enough to be interesting. In `tickets` the clock passes the
reopen window and a transfer's deadline (both are 1), every role holds the ticket
and a ticket can be resolved, reopened, discarded and resolved again. In `writes`
two requests overlap in every order of their three steps and a third sees the
outcome; a race of this kind needs two. `transfers` has one request, answered
by two people and the expiry service at once: requests meet only in the ticket, and
the proofs cover any number of them; one restart is enough since a restart only
forgets.
In `sessions` the second session is handed over from the first or signed in on its
own, and a token can be presented while current, as previous, and twice at once.
In `invitations` the second invitation follows an answered or an expired one, or
is created beside the first by an overlapping call; refusals are rejections, so
that "cancelled" is what an expired invitation becomes. In `members` two people can be
admins while a third is removed and added again. `Grace`, `Retention` and the
`TTL` of a link are 0 so that their boundaries fall inside the clock.
In `mail` two batches are a loop and its successor, or a loop and an import; a
message comes in before, in and after a round, and midnight passes once. In
`workspace` a purge finds, looks up and erases while the workspace is restored,
deleted anew or saved; the domain is one, and so is its successor, set anew without
the verification of the first. In `import` the second import brings the file again,
or an export that contains what the first brought. In `files` one file can be
claimed while the other is cleaned up, an import commits one of two objects, and the
hour of the cleanup passes twice.
`CHECK_DEADLOCK FALSE` everywhere: a closed, deleted or expired instance really
has nothing left to do once the bounds are used up.

Types are not among the runs' properties: `TypeOK` (`MailTypeOK` in `MailPolling`,
`ImportTypeOK` in `TicketImport`) is proved for every module that has one.

### Bounds that are not in the code
`MaxTime` (clock), `MaxReopens`, `MaxRequests` (requests in `TicketWrites`, which
also date what they write), `MaxCrashes`, `MaxToken`, `MaxMembers` (rows ever
made), `MaxInvitations` (rows ever made), `MaxDay`, `MaxTickets` (rows ever made),
`MaxCuts` (calls cut off in `WorkspaceRow`).
`CheckNoPending` (transfers) and `ReadToDelete` (workspaces) begin something only
while the clock can still pass its deadline, so that a clock that stops breaks no
promise of an end. A workspace changes its format of references once, and an export
is imported when it was made. There is one refresh of the pollers at a time.
Three state constraints cut a run where the promise it follows has ended anyway:
`NobodyLate` (`workspace`, after the first write that races), `SecondLoopAtMost`
(`mail`, after a disturbance that is not a second loop) and `Straight` (`import`, after
a name or a reference that crosses an import). A step into such a state is still
checked; `DeletedIsErased` is checked on the behaviours that never leave it, which
is what its "or calls wrote over each other" means.

### Fairness
`TicketWrites`: a request that has begun goes on (the event loop runs its
continuations) and the five-minute interval keeps firing. `TransferRequests`: the
same for calls and the quarter-hour interval, also after a restart (`onModuleInit`
starts it again), and time passes. `WorkspaceRow`: calls that are not cut off go on,
time passes, and the daily run finds a worker however busy the requests are (strong fairness of
`FindDueForPurge`: the timer does not wait for requests, which the model makes it
share workers with). `StoredFiles`: the same for the hourly cleanup, which
`setInterval` starts again after a restart. Nobody is assumed to make or answer a
request, and nothing is assumed of DNS, the storage or the COMMIT.
The other modules state safety only and assume no fairness.

## 5. Findings

With a run:

* **An e-mail rule assigns a ticket that stays in the queue** (`tickets_by_rule`):
  `RouteInboundEmail` sets `assigneeId` on its own after `CreateTicket`
  (`route-inbound-email.ts:293`), against `ticket-assignment-rule.ts:5`.
* **An import gives away a reference that a later ticket of its file has**
  (`import_references`, `workspace-import.ts:1505`), against
  `changelog.data.ts:484`. `ReferencesKeptWhenApart` says when all references are kept.

Met while modelling; the properties named "...InIsolation" and the history variables
say exactly when they happen:

* *Overlapping saves break the assignment rule*: whole-object saves with no lock or
  version; `RulesHoldInIsolation` shows that this is the only way. For the same
  reason a save of an older read empties `firstResolvedAt`, kept "for good" by
  `ticket-resolution.ts:10`.
* *An answered transfer can be answered again*: a check that the write does not
  repeat. Two calls can both find no pending request and both insert one
  (`transfer-request-create.ts:36`).
* *A hand-over under way survives a sign-out* (`user-session.ts:21`): a session is
  inserted into a family that has just ended. `EndedStaysEnded` shows that this is
  the only way in.
* *Two instances both tell of an expired invitation*, against the comment of
  `invitation-notify-expired.ts:19`; likewise the reminder called idempotent at
  `workspace-purge.scheduler.ts:21`.
* *Two overlapping removals or demotions leave no admin*: the count of
  `workspace-remove-member.ts:32` is not repeated by the write.
* *Two loops of one mailbox after an edit*: a loop replaced in the middle of a round
  sets its timer again as long as the mailbox has any loop
  (`imap-polling.service.ts:253`). Its save at the end of a round takes back
  settings and un-pauses a paused mailbox, and inserts a deleted one.
* *An edit, a pause or a resume in flight brings a deleted mailbox back*, too: it saves
  whole what it read before (`mailbox-update.ts:31`), and undoes other edits.
  `GoneForGood` shows that whoever had read the mailbox is the only way back.
* *A deletion or a restoration cut off between its two UPDATEs*
  (`typeorm-workspace.repository.ts:81`, `:86`) leaves a live workspace with a date.
  It does no harm: the purge asks for `deletedAt` as well, and the next deletion sets
  the date anew. In the other order it would leave a deleted workspace that is never
  purged; `DeletedIsDatedInIsolation` shows that this order never does.
* *Mail of a deleted workspace can be marked as processed*
  (`route-inbound-email.ts:239`), although `:121` says that it stays for the
  restore. An error between a ticket and its mark makes a second ticket.
* *A purge that has found its workspace erases it although it was restored and
  deleted anew since*; in all other orders the second look (`workspace-purge.ts:37`)
  helps.
* *References have gaps*, against `ticket-reference.ts:6`, because references that
  imports hold are skipped.
* *An upload claimed while it is cleaned up loses its file*, with no error; a claim of
  one that is gone updates no row, silently. An object whose row could not be inserted
  is left over. A COMMIT whose answer is lost deletes the objects of the rows it
  committed (`workspace-import.ts:2037`).

## 6. Proofs

`TicketsProofs` proves, for any set of users, any roles given and taken away, any
system admins, windows and bounds, every property that `tickets` checks. The
assumptions are `NoOneAssumption` (null is not a user) and `TicketsAssumption`
(the constants have their types; `MaxTime` is at least 1).

*Invariant.* `IInv` is `TypeOK` with `GoodTicket(ticket, now)`: the row is typed,
status and assignee fit, the resolution tells one story with the status, and the
first resolution is not in the future. The last part is the strengthening: without
it a ticket resolved again could not be shown to have a first resolution no later
than the new one. *Argument.* One lemma per service says that it turns a good
ticket into a good one (`ChangeStatusIsGood`, `AssignIsGood`, `PickupIsGood`,
`ReopenIsGood`, `TransferIsGood`); `StepIsGood` and `StepIsTyped` go through the
actions of `Next`; `AlwaysGood` is the invariant, and the theorems on states
follow from it. The theorems on steps (`FirstResolutionIsKept`,
`ClosedOnlyLeavesByReopen`, `NewAssigneeIsOnTeam`, `AgentTakesIt`) use it as a
fact about the state before the step and again go action by action.
`AgentTakesIt` shows something the code does not say: it holds because an agent
has no way to change the status of a queued ticket except to discard it, so
`takerFor` never has to help an agent there.

The theorems are about `Spec`; a ticket assigned by an e-mail rule starts outside
`IInv`, which is the first finding.

`TicketWritesProofs` proves the safety that `writes` checks, for any people, requests
at once and bound. *Invariant.* A request between its read and its UPDATE will leave
an `Outcome`: what it has in memory, or the columns it has found to differ, merged into
the row. As long as no request was overtaken, the outcome of each follows the rules and
keeps the first resolution of the row as it is now (`SaveKnown`). Without it the UPDATE,
which sets some columns of a row it did not read, would say nothing about the whole.
Dates and counts grow with the requests served, and no changes ever contain `deletedAt`
(`RequestsKnown`), which is all that `DeletedStaysDeleted` needs. *Argument.* `MergedIs`
and `Differing` say what the two statements of `save()` do to a ticket; each command
turns a good ticket into a good one; a write makes the other requests stale, unless it
is a soft delete or a breach flag, which leave the columns of every outcome good.

`TransferAndMailProofs` is about two components that share no state, but are carried on
in the same way: by timers of one process, which a restart cuts off. Of transfers it
proves the safety that `transfers` checks, for any people, requests,
calls at once, deadline and restarts (`TransferAssumption`). Neither property is inductive:
the rows say nothing of the calls that are about to write them. `IInv` adds what
each call in flight knows (`CallKnows`) and what the expiry service has found
(`FoundKnows`): an answer "accepted" follows its hand-over; an answer "expired" and
every found request are past their deadline; and an insert is the only call that
has its request. The last part keeps deadlines from changing under a call.
*Argument.* One lemma per step of a call; `StatusWritesKnow` covers every step
that writes statuses only. The same invariant cannot give one pending request or
`AnswersAreFinal`, which are false: it says that what a call knew is still true of
time and of the ticket, not of the row.

Of mail it proves what `mail` checks, for any messages, batches at once, settings and
days (`MailPollingAssumption`); there `SecondLoopAtMost` keeps the run small, and the
theorems have no such bound. *Invariant.* `MailIInv` says what a batch has at each step
(`Shaped`) and, for each loop, that a message it will not search again is in its hands,
marked or left behind (`PassesOverNone`): between the answer and the time of the poll
that is every message that has come in, afterwards those of earlier days. As long as
nothing unguarded has happened to messages, at most one batch holds a message, it is
not marked while held, and its ticket is known by the batch that made it
(`TicketsKnown`); to loops, every loop is the one in the map (`LoopsKnown`). That a
deleted mailbox stays gone needs only `Shaped` of all this: a loop that is not in a
round may at most find its timer fired, and ends (`BatchLeavesItGone`); no other step
takes up what nobody has (`StaysGone`).
*Argument.* A step moves one batch (`BatchKept`), none
(`OthersKept`), or starts and ends several (`ManyKept`, for refreshes, deletion and
restart); each lemma leaves what the step means for tickets or for loops to be shown.

`SessionsProofs` proves what `sessions` checks, for any sessions, requests at once,
rotations, lifetimes and windows (`SessionsAssumption`). *Invariant.* The tokens a
session has not reached are unspent (`RowKnown`), so the UPDATE that spends the
current one spends it for the first time; a session about to be inserted is not
there and nobody else inserts it (`Inserts`); a family that was ended had a first
session (`SignedOutKnown`), so signing in never joins it. *Argument.* Steps are of
three kinds with a lemma each (`RowsWritten`, `CallBegun`, `RowInserted`), and
rotation, the one step that spends a token, has its own. For the properties of
steps, `EveryStep` says what any step does to a row and to a call; from it,
`RevokedIsLeftAlone` and `EndedFamilyStaysEnded` are two short arguments.

`MembersProofs` proves what `members` checks, for any people, roles given, calls at
once and rows (`MembersAssumption`). *Invariant.* A call that nobody has overtaken
still knows what it checked (`CallKnown`): its row is the stored one but for the
role, a change that takes an admin away leaves another (`ChangeKnown`), and an
insert has an id that no row ever had (`InsertKnown`); an id belongs to one person
(`IdsKnown`). Without it the step that writes would say nothing about the
condition its read tested. *Argument.* `RowWritten` carries the invariant over
every write: the other calls either lose the claim by becoming stale or the write
changed nothing; then one lemma per writing step shows its conjuncts of the
properties. Without `~overlapped` they are false (section 5).

`SessionsProofs` also proves the refinement, under the same assumptions:
`Spec => ImplementsSessionLife`. *Argument.* `MappedKnown` reads the mapping off
`IInv`: at most one worker brings a session that is not there (`Inserts`), so the
worker that `FamilyOf` chooses is that one. A step keeps the state of every session it
leaves alone (`KeptIsSame`); one lemma per operation then says which step of
`SessionLife` it is (`SignInOpens`, `ExchangeSends`, `CreateArrives`, `RotateTrades`,
`RevokeEnds`, `PurgeForgets`) or that it is none (`CallStutters`).

`InvitationsProofs` proves what `invitations` checks, for any number of invitations,
calls at once and restarts, any refusals, TTL and clock (`InvitationsAssumption`).
*Invariant.* Whatever others wrote, an acceptance that is about to be saved follows the
membership, and a save sets link and deadline together or neither (`CallKnown`): both
hold between any two steps because `save()` updates the columns that differ. A call
that nobody has overtaken knows more (`FreshKnown`): its row is still pending, its
changes answer, mark or resend it, and who is about to insert knows of no other
pending one. Whom the inviter was told of, or is about to be told of, is marked, by one
call (`ToldKnown`). *Argument.* A step writes no row (`QuietKept`) or one
(`WrittenKept`), after which the others are stale or nothing has changed;
`DifferingIs` and `MergedIs` say what the two halves of `save()` do to a row.

`WorkspaceRowProofs` proves the safety that `workspace` checks, for any calls in flight,
domains, periods and clock (`WorkspaceRowAssumption`). *Invariant.* As long as no write
of the lifecycle came late, a deleted row is dated (`Dated`); as long as no call was cut
off either, a dated row is deleted or a call is between its two UPDATEs (`Undated`,
`HalfWay`); and every call that nobody has overtaken knows whether
the workspace is deleted and dated (`DeletionKnown`); as long as no save of the settings
came late, a call that did not prove the domain will not verify it (`DomainKnown`).
The two are apart because the two kinds of write set different columns. *Argument.* A
write makes every other call of its kind late (`WritesIs`, `WrittenKept`), and the order
of the two UPDATEs keeps `Dated` through each; a call cut off takes what it knew with it
(`CutOffKept`); the quiet steps keep what the others know (`BeginsKept`, `GoesOnKept`); `StepKeeps` proves with
the invariant what each step does to the row (`RowStep`), from which the theorems about
erasing and verifying follow.

`FilesProofs` proves the safety that `files` checks, for any files, calls at once,
hour, clock and restarts (`StoredFilesAssumption`). *Invariant.* What a call has in
hand is known (`CallKnown`): what it brings is stored and has no row yet, what it
removes has had its row; and no two calls bring the same file (`Apart`). As long as no
loss was possible, what the cleanup and deletions list is no ticket's and what an
import takes back has no row (`Kept`), and a staged upload has its object unless a call
has struck it (`Stored`): a claim, which looks at rows only, needs that one. As long
as nothing was left over, a row that is about to go has lost its object before
(`Minded`). *Argument.* Steps are of five kinds with a lemma each: an object comes
before its row (`FileComes`), rows settle (`RowsSettle`), a removal begins
(`RemovalBegins`), objects go (`ObjectsGo`), rows go (`RowsGo`); a claim, the erasure
and a restart have their own. One lemma per action then says of which kind it is.

`TicketsProofs` also proves what `import` checks of `TicketImport`, for any workers,
files of elsewhere, titles and formats and however many rows (`SourceAssumption`,
`TicketImportAssumption`). *Invariant.* `ImportIInv` says of the rows that no two share a
number or, as long as no save put an old reference back, a reference (`RowsKnown`), and
that a live ticket that was not created here has a link to what it was (`LinksKnown`).
Of the calls it says more, and that part is what makes it inductive: what an import read
before it waited for the lock finds every ticket of its file that is there
(`Recognized`); what is inserted under the lock is above all numbers (`NumbersFree`),
has references nobody has (`ReferencesFree`), those of the file if none of them is taken
(`ReferencesBrought`), and brings no ticket that is there or was brought before
(`BirthsFree`). *Argument.* A step changes only what one worker is in the middle of
(`CallKept`), or rows there are (`RowsKept`: deletions, saves, conversions), or it is
the COMMIT (`CommitKeeps`). `FoundIs` says that what is not found is not there,
`ExportIs` and `SourceIs` what a file knows, `InsertedIs` what one more row under the
lock keeps free. That the next free number exists, and the largest one, are facts about
finite sets of numbers: `LeastIs` and `GreatestIs` get them from the well-foundedness of
strict inclusion, `NextFreeIs` from there being more numbers than references taken.

*Model-checked only:* liveness (`BreachEndsFlagged`, `PendingEnds`, `DeletedIsErased`,
`StagedEnds`), which is out of the prover's reach. `ReferencesKept` is not proved
because it is violated (section 5).

## 7. Not modelled

* Texts, tags, custom fields and participants of a ticket; the first-response half
  of the SLA; e-mail, webhooks and sockets beyond what they are told.
* Of imports: settings, people, labels, articles, comments and the completion of
  tickets that are already there, which map documents to rows. Labels are matched
  before the lock, so two overlapping imports make each label twice. That two
  different tickets share name, reporter and second is taken not to happen.
* Of inbound mail: recognizing replies, senders and attachments, and what is done with
  a message after it was processed (it stays on the server). A message without a
  Message-ID is never recognized again. `save()` of the mailbox is one step: one
  whose UPDATE finds no row is like one before the deletion, but that two overlapping
  saves can mix their columns is left to `TicketWrites`.
* Of files: who may see or delete one, and that an error nobody catches in the
  cleanup may stop the process, which is the restart of the model.
* Of workspaces: that another workspace may have the domain; who may ask.
* The components of the last rows of the inventory, which have little control of their
  own: rows created, edited and queried; and what the plan has left.
