---------------------------- MODULE WorkspaceRow ----------------------------
(***************************************************************************)
(* The row of one workspace, written by two kinds of calls.  Deletion,     *)
(* restoration, reminder and purge run UPDATEs and DELETEs of a few        *)
(* columns; the forms of the settings and the checks of the custom domain  *)
(* read the whole workspace, some of them wait for DNS, and save it whole. *)
(* A worker is a request or a daily run, of this instance or of another.   *)
(***************************************************************************)
EXTENDS Integers, FiniteSets

CONSTANTS
    Worker,       \* calls in flight at once
    Domain,
    NoDomain,
    Recovery,     \* WORKSPACE_RECOVERY_DAYS
    Reminder,     \* PURGE_REMINDER_DAYS
    Distrust,     \* CUSTOM_DOMAIN_FAILURES_BEFORE_DISTRUST
    MaxTime,      \* bound: the clock stops here
    MaxCuts       \* bound: calls cut off by an error or a restart

ASSUME WorkspaceRowAssumption ==
    /\ NoDomain \notin Domain
    /\ Recovery \in Nat \ {0} /\ Reminder \in Nat /\ Distrust \in Nat \ {0}
    /\ MaxTime \in Nat \ {0} /\ MaxCuts \in Nat

VARIABLES
    row,
    doing,      \* what each worker is in the middle of
    raced,      \* the kinds of writes that came after others of the same kind
    cuts,       \* calls that were cut off
    now

vars == <<row, doing, raced, cuts, now>>

NewRow == [there |-> TRUE, deleted |-> FALSE, purgeAt |-> 0, reminded |-> FALSE,
           domain |-> NoDomain, verified |-> FALSE, token |-> FALSE, failures |-> 0]

\* The columns of toModel that matter here; those of the deletion are not in it.
Columns == {"domain", "verified", "token", "failures"}

\* Calls of the lifecycle write some columns, and saves the others; an erased row
\* matters to both.
Kinds == {"lifecycle", "settings"}

Gone == [NewRow EXCEPT !.there = FALSE]

NoChanges == [c \in {} |-> Gone[c]]

Blank == [domain |-> NoDomain, verified |-> FALSE, token |-> FALSE, failures |-> 0]

\* mine is the columns in memory (only the domain is of use once changes are known),
\* purgeAt the date of a deletion, changes what its UPDATE sets, why what may come
\* of it for the domain, late the kinds of writes that others made since the read.
Idle == [step |-> "idle", mine |-> Blank, purgeAt |-> 0, changes |-> NoChanges,
         why |-> "other", late |-> {}]

Init ==
    /\ row = NewRow
    /\ doing = [w \in Worker |-> Idle]
    /\ raced = {} /\ cuts = 0 /\ now = 1

Live == row.there /\ ~row.deleted
Deleted == row.there /\ row.deleted

\* Worker w has read the workspace and has made it mine; step comes next.
Begins(w, step, mine, why) ==
    /\ doing[w] = Idle
    /\ doing' = [doing EXCEPT ![w] =
         [Idle EXCEPT !.step = step, !.mine = mine, !.why = why]]
    /\ UNCHANGED <<row, raced, cuts, now>>

Ends(w) == doing' = [doing EXCEPT ![w] = Idle]

\* Worker w goes on to step with a write of some kinds behind it, which makes the
\* other calls late for writes of these kinds.
Writes(w, kinds, new, step) ==
    /\ row' = new
    /\ raced' = raced \union (doing[w].late \cap kinds)
    /\ doing' = [v \in Worker |->
         IF v = w
         THEN IF step = "idle" THEN Idle ELSE [Idle EXCEPT !.step = step, !.late = doing[w].late \ raced']
         ELSE IF doing[v] = Idle THEN Idle
         ELSE [doing[v] EXCEPT !.late = (@ \union kinds) \ raced']]

------------------------------------------------------------------------------
(***************************************************************************)
(* Deletion and restoration: two UPDATEs each, in opposite order and with  *)
(* no transaction around them                                              *)
(***************************************************************************)
\* Bound: the clock has room for the purge.
ReadToDelete(w) ==
    /\ Live /\ now + Recovery <= MaxTime
    /\ doing[w] = Idle
    /\ doing' = [doing EXCEPT ![w] =
         [Idle EXCEPT !.step = "date", !.purgeAt = now + Recovery]]
    /\ UNCHANGED <<row, raced, cuts, now>>

\* An UPDATE by id, which an erased row does not see
IfThere(new) == IF row.there THEN new ELSE row

DateDeletion(w) ==
    /\ doing[w].step = "date"
    /\ Writes(w, {"lifecycle"},
              IfThere([row EXCEPT !.purgeAt = doing[w].purgeAt, !.reminded = FALSE]), "flag")
    /\ UNCHANGED <<cuts, now>>

FlagDeletion(w) ==
    /\ doing[w].step = "flag"
    /\ Writes(w, {"lifecycle"}, IfThere([row EXCEPT !.deleted = TRUE]), "idle")
    /\ UNCHANGED <<cuts, now>>

ReadToRestore(w) == Deleted /\ Begins(w, "unflag", Blank, "other")

\* Faulty: the date goes first.
UndateFirst(w) ==
    /\ doing[w].step = "unflag"
    /\ Writes(w, {"lifecycle"},
              IfThere([row EXCEPT !.purgeAt = 0, !.reminded = FALSE]), "undate")
    /\ UNCHANGED <<cuts, now>>

UnflagDeletion(w) ==
    /\ doing[w].step = "unflag"
    /\ Writes(w, {"lifecycle"}, IfThere([row EXCEPT !.deleted = FALSE]), "undate")
    /\ UNCHANGED <<cuts, now>>

UndateDeletion(w) ==
    /\ doing[w].step = "undate"
    /\ Writes(w, {"lifecycle"},
              IfThere([row EXCEPT !.purgeAt = 0, !.reminded = FALSE]), "idle")
    /\ UNCHANGED <<cuts, now>>

(***************************************************************************)
(* The daily run reminds and purges; a system admin purges ahead of time.  *)
(***************************************************************************)
FindDueForReminder(w) ==
    /\ Deleted /\ ~row.reminded
    /\ row.purgeAt \in (now + 1)..(now + Reminder)
    /\ Begins(w, "remind", Blank, "other")

Remind(w) ==
    /\ doing[w].step = "remind"
    /\ Writes(w, {"lifecycle"}, IfThere([row EXCEPT !.reminded = TRUE]), "idle")
    /\ UNCHANGED <<cuts, now>>

\* Faulty: any date will do.
FindDated(w) ==
    /\ Deleted /\ row.purgeAt > 0
    /\ Begins(w, "due", Blank, "other")

FindDueForPurge(w) ==
    /\ Deleted /\ row.purgeAt \in 1..now
    /\ Begins(w, "due", Blank, "other")

\* Faulty: it is looked for among the live ones.
FindAmongLive(w) ==
    /\ doing[w].step = "due"
    /\ IF Live THEN doing' = [doing EXCEPT ![w].step = "erase"] ELSE Ends(w)
    /\ UNCHANGED <<row, raced, cuts, now>>

\* PurgeWorkspace looks for a deleted workspace, whose date it does not ask for.
FindDeleted(w) ==
    /\ doing[w].step = "due"
    /\ IF Deleted THEN doing' = [doing EXCEPT ![w].step = "erase"] ELSE Ends(w)
    /\ UNCHANGED <<row, raced, cuts, now>>

PurgeNow(w) == Deleted /\ Begins(w, "eraseNow", Blank, "other")

\* The files were listed; the row goes by its id.
Erase(w) ==
    /\ doing[w].step \in {"erase", "eraseNow"}
    /\ Writes(w, Kinds, Gone, "idle")
    /\ UNCHANGED <<cuts, now>>

------------------------------------------------------------------------------
(***************************************************************************)
(* The settings and the custom domain, read and saved whole                *)
(***************************************************************************)
Unchecked(domain) == [Blank EXCEPT !.domain = domain, !.token = domain # NoDomain]

AsRead == [c \in Columns |-> row[c]]

\* Faulty: another domain inherits the verification.
SetInheriting(w, domain) ==
    /\ Live
    /\ Begins(w, "load", [Unchecked(domain) EXCEPT !.verified = row.verified], "other")

SetCustomDomain(w, domain) == Live /\ Begins(w, "load", Unchecked(domain), "other")

\* A system admin skips the DNS checks.
SetTrusted(w, domain) ==
    /\ Live /\ domain # NoDomain
    /\ Begins(w, "load",
              [Unchecked(domain) EXCEPT !.verified = TRUE, !.token = FALSE], "proof")

\* Name, branding, languages, access, SLA policy: nothing of this changes.
UpdateSettings(w) == Live /\ Begins(w, "load", AsRead, "other")

VerifyCustomDomain(w) ==
    /\ Live /\ row.domain # NoDomain /\ row.token
    /\ Begins(w, "dns", AsRead, "proof")

\* "Check now"; a failure changes nothing, and neither does a pass without failures.
ConfirmCustomDomain(w) ==
    /\ Live /\ row.domain # NoDomain /\ row.verified /\ row.failures > 0
    /\ Begins(w, "dns", AsRead, "other")

\* The daily check lists the verified domains and looks at one after the other.
ListToRecheck(w) ==
    /\ Live /\ row.domain # NoDomain /\ row.verified
    /\ Begins(w, "dns", AsRead, "check")

Passed(w) ==
    /\ doing[w].step = "dns"
    /\ IF doing[w].why = "check" /\ doing[w].mine.failures = 0
       THEN Ends(w)
       ELSE doing' = [doing EXCEPT ![w].step = "load", ![w].mine.verified = TRUE,
                                   ![w].mine.failures = 0]
    /\ UNCHANGED <<row, raced, cuts, now>>

\* Failures beyond the distrust make no difference.
Failed(w) ==
    /\ doing[w].step = "dns"
    /\ IF doing[w].why = "check"
       THEN doing' = [doing EXCEPT ![w].step = "load",
                        ![w].mine.failures = IF @ < Distrust THEN @ + 1 ELSE @]
       ELSE Ends(w)
    /\ UNCHANGED <<row, raced, cuts, now>>

\* save(): a SELECT by id, deleted or not, then an UPDATE of what differs, or the
\* INSERT of what is not there
Load(w) ==
    /\ doing[w].step = "load"
    /\ LET differing == {c \in Columns : doing[w].mine[c] # row[c]}
           changes   == [c \in differing |-> doing[w].mine[c]]
       IN  IF row.there
           THEN IF differing = {} THEN Ends(w)
                ELSE doing' = [doing EXCEPT ![w].step = "update", ![w].changes = changes,
                                        ![w].mine = [Blank EXCEPT !.domain = doing[w].mine.domain]]
           ELSE doing' = [doing EXCEPT ![w].step = "insert"]
    /\ UNCHANGED <<row, raced, cuts, now>>

Update(w) ==
    /\ doing[w].step = "update"
    /\ Writes(w, {"settings"},
              IfThere([c \in DOMAIN row |->
                         IF c \in DOMAIN doing[w].changes THEN doing[w].changes[c] ELSE row[c]]),
              "idle")
    /\ UNCHANGED <<cuts, now>>

Insert(w) ==
    /\ doing[w].step = "insert"
    /\ Writes(w, Kinds,
              IF row.there THEN row
              ELSE [c \in DOMAIN row |->
                      IF c \in Columns THEN doing[w].mine[c] ELSE NewRow[c]],
              "idle")
    /\ UNCHANGED <<cuts, now>>

\* An error, or a restart of its instance, ends a call between its statements: what
\* it wrote stays, and the rest is not written.
CutOff(w) ==
    /\ doing[w] # Idle /\ cuts < MaxCuts
    /\ Ends(w)
    /\ cuts' = cuts + 1
    /\ UNCHANGED <<row, raced, now>>

Tick ==
    /\ now < MaxTime
    /\ now' = now + 1
    /\ UNCHANGED <<row, doing, raced, cuts>>

Call(w) ==
    \/ ReadToDelete(w) \/ ReadToRestore(w) \/ PurgeNow(w)
    \/ \E d \in Domain \union {NoDomain} : SetCustomDomain(w, d) \/ SetTrusted(w, d)
    \/ UpdateSettings(w) \/ VerifyCustomDomain(w) \/ ConfirmCustomDomain(w)

DailyRun(w) == FindDueForReminder(w) \/ FindDueForPurge(w) \/ ListToRecheck(w)

Continue(w) ==
    \/ DateDeletion(w) \/ FlagDeletion(w) \/ UnflagDeletion(w) \/ UndateDeletion(w)
    \/ Remind(w) \/ FindDeleted(w) \/ Erase(w)
    \/ Passed(w) \/ Failed(w) \/ Load(w) \/ Update(w) \/ Insert(w)

Next == Tick \/ \E w \in Worker : Call(w) \/ DailyRun(w) \/ Continue(w) \/ CutOff(w)

\* Calls that are not cut off go on, time passes, and the daily run looks for
\* workspaces to purge however busy the requests are.
Fairness ==
    /\ WF_vars(Tick)
    /\ \A w \in Worker : WF_vars(Continue(w))
    /\ SF_vars(\E w \in Worker : FindDueForPurge(w))

Spec == Init /\ [][Next]_vars /\ Fairness

------------------------------------------------------------------------------
(***************************************************************************)
(* Properties                                                              *)
(***************************************************************************)
\* The types of the variables.
Rows == [there : BOOLEAN, deleted : BOOLEAN, purgeAt : 0..MaxTime, reminded : BOOLEAN,
         domain : Domain \union {NoDomain}, verified : BOOLEAN, token : BOOLEAN,
         failures : 0..Distrust]

Memories == [domain : Domain \union {NoDomain}, verified : BOOLEAN, token : BOOLEAN,
             failures : 0..Distrust]

Steps == {"idle", "date", "flag", "unflag", "undate", "remind", "due", "erase", "eraseNow",
          "dns", "load", "update", "insert"}

TypeOK ==
    /\ row \in Rows
    /\ \A w \in Worker :
         /\ doing[w].step \in Steps /\ doing[w].mine \in Memories
         /\ doing[w].purgeAt \in 0..MaxTime
         /\ DOMAIN doing[w].changes \subseteq Columns
         /\ doing[w].why \in {"other", "proof", "check"} /\ doing[w].late \subseteq Kinds
    /\ raced \subseteq Kinds /\ cuts \in 0..MaxCuts /\ now \in 1..MaxTime

OutOf(steps) == \A w \in Worker : doing[w].step \notin steps

\* A workspace is erased while it is deleted, and by the daily run only when its
\* date has come, unless calls of the lifecycle wrote over each other.
ErasedAsPromisedInIsolation ==
    [][(row.there /\ ~row'.there /\ "lifecycle" \notin raced') =>
         /\ row.deleted
         /\ \A w \in Worker : (doing[w].step = "erase" /\ doing'[w] = Idle) => row.purgeAt <= now]_vars

\* A deleted workspace has a date of its purge at every moment, in the middle of calls
\* and after a call was cut off there; and as long as none was, a live one has no date
\* but in the middle of calls, whatever saves of its settings do meanwhile.
DeletedIsDatedInIsolation ==
    "lifecycle" \notin raced =>
      /\ row.deleted => row.purgeAt > 0
      /\ (cuts = 0 /\ OutOf({"flag", "undate"})) => (row.purgeAt > 0 => row.deleted)

\* A domain becomes verified by its own check or by a system admin, and never takes
\* over the verification of another.
VerifiedWasProvenInIsolation ==
    [][("settings" \notin raced' /\ row'.verified
        /\ (~row.verified \/ row'.domain # row.domain)) =>
         \E w \in Worker : doing[w].why = "proof" /\ doing[w].mine.domain = row'.domain]_vars

\* A deleted workspace is erased in the end, unless somebody restores it or calls of
\* the lifecycle write over each other.
DeletedIsErased == Deleted ~> (~Deleted \/ "lifecycle" \in raced)

=============================================================================
