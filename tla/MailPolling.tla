----------------------------- MODULE MailPolling -----------------------------
(***************************************************************************)
(* The mail of one mailbox of one workspace: the loops that poll it, the   *)
(* imports on request, the refresh that starts and stops loops, the marks  *)
(* of what was processed, and the mailbox row that every poll saves whole. *)
(* Messages stay on the server (nothing is moved after processing).        *)
(* save() is one step here: what comes between its statements is in        *)
(* TicketWrites.                                                           *)
(***************************************************************************)
EXTENDS Integers, FiniteSets

CONSTANTS
    Message,
    Batch,      \* what goes through messages: the rounds of a loop, an import
    NoBatch,
    Caller,     \* edits of the mailbox in flight at once
    Config,     \* values of the settings that configHash covers
    MaxDay      \* bound: the calendar ends here

ASSUME MailPollingAssumption ==
    /\ NoBatch \notin Batch
    /\ MaxDay \in Nat \ {0}

VARIABLES
    mailbox,    \* its row in the database
    editing,    \* the edits that have read the mailbox and not yet saved it
    deleted,    \* the workspace is deleted (and may be restored)
    batches,
    installed,  \* the loop in the map of pollers
    refresh,    \* the refresh under way and the configuration it is to install
    arrived,    \* the day on which each message came in, 0 for not yet
    processed,  \* messages marked as processed
    tickets,    \* what came of each message, 2 being more than one
    day,
    disturbed,  \* what has happened that the code does not guard against
    slipped     \* messages that a round has left behind unmarked

mailVars == <<mailbox, editing, deleted, day, batches, installed, refresh,
          arrived, processed, tickets, slipped, disturbed>>

site == <<mailbox, editing, deleted, day>>
mail == <<arrived, processed, tickets, slipped>>

\* A row that is gone is not active.
Row == [there : BOOLEAN, active : BOOLEAN, config : Config]

\* What a batch does next; made says that its message has become a ticket.
Over == "over"
Handling == {"route", "create", "mark"}
Rounds == Handling \union {"fetch", "stamp", "next", "save"}

Free == {b \in Batch : batches[b].step = Over}

\* A loop lasts as long as it has a round under way or a timer set.
Loops == {b \in Batch : batches[b].kind = "poll"}

Holds(b, m) == batches[b].step \in Handling /\ batches[b].msg = {m}

Nothing == [kind |-> "none", step |-> Over, config |-> {}, since |-> 1,
            todo |-> {}, msg |-> {}, made |-> FALSE]

\* A loop with the configuration that was read, and a request of its own
Loop(config) == [Nothing EXCEPT !.kind = "poll", !.step = "fetch", !.config = config]

OnRequest(since) == [Nothing EXCEPT !.kind = "import", !.step = "fetch", !.since = since]

Goes(b, next) == batches' = [batches EXCEPT ![b].step = next]

\* The batch is done with its message.
GoesOn(b) == batches' = [batches EXCEPT ![b].step = "next", ![b].msg = {}, ![b].made = FALSE]

BatchEnds(b) == batches' = [batches EXCEPT ![b] = Nothing]

NoRefresh == [step |-> "idle", deleted |-> FALSE, wanted |-> {}]

MailInit ==
    /\ mailbox \in [there : {TRUE}, active : {TRUE}, config : Config]
    /\ editing = {}
    /\ refresh = NoRefresh
    /\ batches = [b \in Batch |-> Nothing]
    /\ deleted = FALSE /\ day = 1 /\ installed = NoBatch
    /\ arrived = [m \in Message |-> 0] /\ processed = {}
    /\ tickets = [m \in Message |-> 0] /\ slipped = {}
    /\ disturbed = {}

------------------------------------------------------------------------------
(***************************************************************************)
(* refreshPollers, every minute and on request: which workspaces are       *)
(* deleted, which mailboxes are active, then the map, with no await.       *)
(***************************************************************************)
RefreshReadsDeleted ==
    /\ refresh.step = "idle"
    /\ refresh' = [refresh EXCEPT !.step = "list", !.deleted = deleted]
    /\ UNCHANGED <<site, batches, installed, mail, disturbed>>

RefreshLists ==
    /\ refresh.step = "list"
    /\ refresh' = [step |-> "apply", deleted |-> FALSE,
                   wanted |-> IF mailbox.there /\ mailbox.active /\ ~refresh.deleted
                              THEN {mailbox.config} ELSE {}]
    /\ UNCHANGED <<site, batches, installed, mail, disturbed>>

SameConfig == installed # NoBatch /\ batches[installed].config = refresh.wanted

\* Faulty: the timer of the loop in the map is left alone.
WithTimer == batches

\* The loop in the map loses its timer; a round that is under way goes on.
WithoutTimer ==
    [b \in Batch |-> IF b = installed /\ batches[b].step = "timer"
                     THEN Nothing ELSE batches[b]]

\* A loop leaves the map in the middle of a round.
Replaced ==
    IF installed # NoBatch /\ batches[installed].step \in Rounds
    THEN disturbed \union {"replaced"} ELSE disturbed

RefreshStarts ==
    /\ refresh.step = "apply" /\ refresh.wanted # {} /\ ~SameConfig
    /\ \E b \in Free :
         /\ installed' = b
         /\ batches' = [WithoutTimer EXCEPT ![b] = Loop(refresh.wanted)]
    /\ disturbed' = Replaced
    /\ refresh' = NoRefresh
    /\ UNCHANGED <<site, mail>>

RefreshStops ==
    /\ refresh.step = "apply" /\ refresh.wanted = {}
    /\ batches' = WithoutTimer /\ installed' = NoBatch
    /\ disturbed' = Replaced
    /\ refresh' = NoRefresh
    /\ UNCHANGED <<site, mail>>

RefreshKeeps ==
    /\ refresh.step = "apply" /\ refresh.wanted # {} /\ SameConfig
    /\ refresh' = NoRefresh
    /\ UNCHANGED <<site, batches, installed, mail, disturbed>>

------------------------------------------------------------------------------
(***************************************************************************)
(* A round: what came in on the day of the last round or later, one        *)
(* message after the other, then the mailbox saved and the timer set.      *)
(***************************************************************************)
\* Faulty: whether the mailbox still has a loop is not asked.
TimerFiresAnyway(b) ==
    /\ batches[b].step = "timer"
    /\ Goes(b, "fetch")
    /\ UNCHANGED <<site, installed, refresh, mail, disturbed>>

TimerFires(b) ==
    /\ batches[b].step = "timer"
    /\ IF installed = NoBatch THEN BatchEnds(b) ELSE Goes(b, "fetch")
    /\ UNCHANGED <<site, installed, refresh, mail, disturbed>>

\* importMailbox, on request: from some day on, and outside the loops.
Import(b, since) ==
    /\ b \in Free /\ mailbox.there
    /\ batches' = [batches EXCEPT ![b] = OnRequest(since)]
    /\ UNCHANGED <<site, installed, refresh, mail, disturbed>>

\* SEARCH SINCE compares days; the first day stands for a fetch of everything.
Fetched(since) == {m \in Message : arrived[m] > 0 /\ arrived[m] >= since}

Fetch(b) ==
    /\ batches[b].step = "fetch"
    /\ batches' = [batches EXCEPT
         ![b].step = IF batches[b].kind = "poll" THEN "stamp" ELSE "next",
         ![b].todo = Fetched(batches[b].since)]
    /\ UNCHANGED <<site, installed, refresh, mail, disturbed>>

\* lastPollTime is the time after the answer.
Stamp(b) ==
    /\ batches[b].step = "stamp"
    /\ batches' = [batches EXCEPT ![b].step = "next", ![b].since = day]
    /\ UNCHANGED <<site, installed, refresh, mail, disturbed>>

AfterBatch(b) == IF batches[b].kind = "poll" THEN Goes(b, "save") ELSE BatchEnds(b)

\* Faulty: the time of the last poll moves on although there was no answer.
FailMovingOn(b) ==
    /\ batches[b].step = "fetch"
    /\ batches' = [batches EXCEPT ![b] =
         IF @.kind = "poll" THEN [@ EXCEPT !.step = "save", !.since = day] ELSE Nothing]
    /\ UNCHANGED <<site, installed, refresh, mail, disturbed>>

FetchFails(b) ==
    /\ batches[b].step = "fetch"
    /\ AfterBatch(b)
    /\ UNCHANGED <<site, installed, refresh, mail, disturbed>>

FinishBatch(b) ==
    /\ batches[b].step = "next" /\ batches[b].todo = {}
    /\ AfterBatch(b)
    /\ UNCHANGED <<site, installed, refresh, mail, disturbed>>

\* The mailbox that the refresh read is saved whole, and inserted if it is gone.
\* The loop goes on if there is any loop in the map.
Save(b) ==
    /\ batches[b].step = "save"
    /\ \E c \in batches[b].config : mailbox' = [there |-> TRUE, active |-> TRUE, config |-> c]
    /\ IF installed = NoBatch THEN BatchEnds(b) ELSE Goes(b, "timer")
    /\ UNCHANGED <<editing, deleted, day, installed, refresh, mail, disturbed>>

------------------------------------------------------------------------------
(***************************************************************************)
(* processMessage and RouteInboundEmail                                    *)
(***************************************************************************)
\* Faulty: whether the message was processed is not asked.
TakeAgain(b, m) ==
    /\ batches[b].step = "next" /\ m \in batches[b].todo
    /\ batches' = [batches EXCEPT ![b] =
         [batches[b] EXCEPT !.step = "route", !.todo = @ \ {m}, !.msg = {m}]]
    /\ disturbed' = IF \E c \in Batch : Holds(c, m)
                    THEN disturbed \union {"overlap"} ELSE disturbed
    /\ UNCHANGED <<site, installed, refresh, mail>>

Take(b, m) ==
    /\ batches[b].step = "next" /\ m \in batches[b].todo
    /\ IF m \in processed
       THEN /\ batches' = [batches EXCEPT ![b].todo = @ \ {m}]
            /\ UNCHANGED disturbed
       ELSE /\ batches' = [batches EXCEPT ![b] =
                 [batches[b] EXCEPT !.step = "route", !.todo = @ \ {m}, !.msg = {m}]]
            /\ disturbed' = IF \E c \in Batch : Holds(c, m)
                            THEN disturbed \union {"overlap"} ELSE disturbed
    /\ UNCHANGED <<site, installed, refresh, mail>>

\* A message for other addresses is marked at once.
Filter(b) ==
    /\ batches[b].step = "route"
    /\ Goes(b, "mark")
    /\ UNCHANGED <<site, installed, refresh, mail, disturbed>>

\* The workspace is looked up, then the rules are asked.
Route(b) ==
    /\ batches[b].step = "route" /\ ~deleted
    /\ \E next \in {"mark", "create"} : Goes(b, next)
    /\ UNCHANGED <<site, installed, refresh, mail, disturbed>>

\* Not marked, so that a restore can still take it
LeaveForRestore(b) ==
    /\ batches[b].step = "route" /\ deleted
    /\ GoesOn(b)
    /\ slipped' = slipped \union batches[b].msg
    /\ UNCHANGED <<site, installed, refresh, arrived, processed, tickets, disturbed>>

\* The workspace is looked up again; one that is gone by now makes the message
\* a rejected one.
Create(b) ==
    /\ batches[b].step = "create"
    /\ batches' = [batches EXCEPT ![b].step = "mark", ![b].made = ~deleted]
    /\ tickets' = [m \in Message |->
         IF m \in batches[b].msg /\ ~deleted /\ tickets[m] < 2
         THEN tickets[m] + 1 ELSE tickets[m]]
    /\ UNCHANGED <<site, installed, refresh, arrived, processed, slipped, disturbed>>

Mark(b) ==
    /\ batches[b].step = "mark"
    /\ processed' = processed \union batches[b].msg
    /\ GoesOn(b)
    /\ UNCHANGED <<site, installed, refresh, arrived, tickets, slipped, disturbed>>

HalfDone(b) == batches[b].step = "mark" /\ batches[b].made

Disturbed(what, when) == IF when THEN disturbed \union {what} ELSE disturbed

\* An error is logged and the next message taken.
Fail(b) ==
    /\ batches[b].step \in Handling
    /\ GoesOn(b)
    /\ disturbed' = Disturbed("fault", HalfDone(b))
    /\ slipped' = slipped \union batches[b].msg
    /\ UNCHANGED <<site, installed, refresh, arrived, processed, tickets>>

Restart ==
    /\ batches' = [b \in Batch |-> Nothing]
    /\ installed' = NoBatch
    /\ refresh' = NoRefresh
    /\ disturbed' = Disturbed("fault", \E b \in Batch : HalfDone(b))
    /\ editing' = {}
    /\ UNCHANGED <<mailbox, deleted, day, mail>>

------------------------------------------------------------------------------
(***************************************************************************)
(* What people do meanwhile                                                *)
(***************************************************************************)
\* UpdateMailbox, which pause and resume go through as well
ReadMailbox(c) ==
    /\ mailbox.there /\ c \notin editing
    /\ editing' = editing \union {c}
    /\ UNCHANGED <<mailbox, deleted, day, batches, installed, refresh, mail, disturbed>>

\* The mailbox that was read is saved whole, and inserted if it is gone: some of
\* it edited, the rest as it was read, which can be any values.
UpdateMailbox(c, active, config) ==
    /\ c \in editing
    /\ editing' = editing \ {c}
    /\ mailbox' = [there |-> TRUE, active |-> active, config |-> config]
    /\ UNCHANGED <<deleted, day, batches, installed, refresh, mail, disturbed>>

EditFails(c) ==
    /\ c \in editing
    /\ editing' = editing \ {c}
    /\ UNCHANGED <<mailbox, deleted, day, batches, installed, refresh, mail, disturbed>>

\* The row goes, and the event stops the loop in the map.
DeleteMailbox ==
    /\ mailbox.there
    /\ mailbox' = [mailbox EXCEPT !.there = FALSE, !.active = FALSE]
    /\ batches' = WithoutTimer /\ installed' = NoBatch
    /\ disturbed' = Replaced
    /\ UNCHANGED <<editing, deleted, day, refresh, mail>>

\* The row goes, but an error after it keeps the event back.
DeleteUnheard ==
    /\ mailbox.there
    /\ mailbox' = [mailbox EXCEPT !.there = FALSE, !.active = FALSE]
    /\ UNCHANGED <<editing, deleted, day, batches, installed, refresh, mail, disturbed>>

Edit(c) ==
    \/ ReadMailbox(c) \/ EditFails(c)
    \/ \E active \in BOOLEAN, config \in Config : UpdateMailbox(c, active, config)

DeleteOrRestoreWorkspace ==
    /\ deleted' = ~deleted
    /\ UNCHANGED <<mailbox, editing, day, batches, installed, refresh, mail, disturbed>>

\* One that comes in between the answer and the time of the poll counts as
\* older than it when midnight lies between the two.
Arrive(m) ==
    /\ arrived[m] = 0
    /\ arrived' = [arrived EXCEPT ![m] = day]
    /\ slipped' = IF \E b \in Batch : batches[b].step = "stamp"
                  THEN slipped \union {m} ELSE slipped
    /\ UNCHANGED <<site, batches, installed, refresh, processed, tickets, disturbed>>

Midnight ==
    /\ day < MaxDay
    /\ day' = day + 1
    /\ UNCHANGED <<mailbox, editing, deleted, batches, installed, refresh, mail, disturbed>>

Refresh == RefreshReadsDeleted \/ RefreshLists \/ RefreshStarts \/ RefreshStops \/ RefreshKeeps

Step(b) ==
    \/ TimerFires(b) \/ Fetch(b) \/ Stamp(b) \/ FetchFails(b) \/ FinishBatch(b) \/ Save(b)
    \/ \E m \in Message : Take(b, m)
    \/ Filter(b) \/ Route(b) \/ LeaveForRestore(b) \/ Create(b) \/ Mark(b) \/ Fail(b)

People ==
    \/ \E c \in Caller : Edit(c)
    \/ DeleteMailbox \/ DeleteUnheard \/ DeleteOrRestoreWorkspace
    \/ \E b \in Batch, since \in 1..day : Import(b, since)

MailNext ==
    \/ Refresh \/ People \/ Restart \/ Midnight
    \/ \E b \in Batch : Step(b)
    \/ \E m \in Message : Arrive(m)

MailSpec == MailInit /\ [][MailNext]_mailVars

------------------------------------------------------------------------------
(***************************************************************************)
(* Properties                                                              *)
(***************************************************************************)
Disturbances == {"replaced", "overlap", "fault"}

\* The types of the variables.
MailTypeOK ==
    /\ mailbox \in Row /\ editing \subseteq Caller
    /\ deleted \in BOOLEAN /\ day \in 1..MaxDay
    /\ batches \in [Batch -> [kind : {"none", "poll", "import"},
                              step : Rounds \union {Over, "timer"},
                              config : SUBSET Config, since : 1..MaxDay,
                              todo : SUBSET Message, msg : SUBSET Message,
                              made : BOOLEAN]]
    /\ installed \in Batch \union {NoBatch}
    /\ refresh \in [step : {"idle", "list", "apply"}, deleted : BOOLEAN,
                   wanted : SUBSET Config]
    /\ arrived \in [Message -> 0..MaxDay] /\ processed \subseteq Message
    /\ tickets \in [Message -> 0..2] /\ slipped \subseteq Message
    /\ disturbed \subseteq Disturbances

\* A message becomes one ticket, whatever fetches it again: rounds of the same
\* day, a loop that starts anew, an import, a restart. It takes two batches that
\* hold it at once, or an end between its ticket and its mark, to make a second.
OneTicketInIsolation ==
    {"overlap", "fault"} \cap disturbed = {} => \A m \in Message : tickets[m] <= 1

\* A mailbox has one loop, unless one lost its place in the map in the middle of
\* a round, which sets its timer again as long as the mailbox has any loop.
OneLoopInIsolation == "replaced" \notin disturbed => Cardinality(Loops) <= 1

\* The mailbox is in the memory of a loop, a refresh or an edit, or the map has a
\* loop of it.
MailboxHeld ==
    \/ installed # NoBatch \/ \E b \in Loops : batches[b].step \in Rounds
    \/ refresh.step = "apply" /\ refresh.wanted # {}
    \/ editing # {}

\* A mailbox that is gone and that nothing has in memory any more stays gone and
\* out of memory, though the timer of a loop that lost its place in the map may
\* still be set.
GoneForGood ==
    [][(~mailbox.there /\ ~MailboxHeld) => (~mailbox'.there /\ ~MailboxHeld')]_mailVars

\* No loop has moved on past the day of a message that is not marked, unless a
\* round left it behind: for an error, for a deleted workspace, or because it
\* came in between the answer and the time of the poll.
NothingPassedOver ==
    \A b \in Loops, m \in Message :
        batches[b].step = "timer" /\ arrived[m] \in 1..(batches[b].since - 1)
            => m \in processed \union slipped

=============================================================================
