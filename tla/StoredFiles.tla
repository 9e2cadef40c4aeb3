----------------------------- MODULE StoredFiles -----------------------------
(***************************************************************************)
(* The files of one workspace: objects in the storage and the attachment   *)
(* rows that name them, written one after the other by uploads, imports,   *)
(* deletions, the hourly cleanup of uploads that nobody claimed and the    *)
(* purge of the workspace.  Nothing but the order of the two writes keeps  *)
(* them together.  A file stands for its id, its row and its key.          *)
(***************************************************************************)
EXTENDS Integers, FiniteSets

CONSTANTS
    File,
    Worker,      \* calls in flight at once, the cleanup and the purge among them
    Hour,        \* ONE_HOUR_MS
    MaxTime,     \* bound: the clock stops here
    MaxCrashes   \* bound on restarts

ASSUME StoredFilesAssumption ==
    /\ Hour \in Nat /\ MaxTime \in Nat \ {0} /\ MaxCrashes \in Nat

VARIABLES
    objects,    \* the files that the storage has
    rows,       \* the state of each file's row
    stagedAt,   \* of a staged row, when the upload was stored
    erased,     \* the workspace was purged
    doing,      \* what each worker is in the middle of
    held,       \* files that a ticket got and that nobody asked to delete
    disturbed,  \* what the code does not guard against has happened: a file of a ticket
                \* may be lost, an object may be left over
    crashes,
    now

vars == <<objects, rows, stagedAt, erased, doing, held, disturbed, crashes, now>>

site == <<erased, crashes, now>>

Idle == [step |-> "idle", files |-> {}, listed |-> {}]

Init ==
    /\ objects = {} /\ held = {} /\ disturbed = {}
    /\ rows = [f \in File |-> "new"] /\ stagedAt = [f \in File |-> 0]
    /\ doing = [w \in Worker |-> Idle]
    /\ erased = FALSE /\ crashes = 0 /\ now = 1

Staged == {f \in File : rows[f] = "staged"}
Attached == {f \in File : rows[f] = "attached"}

\* Worker w takes the next step with some files; listed is what its rows will be.
Begins(w, step, files) ==
    /\ doing[w] = Idle
    /\ doing' = [doing EXCEPT ![w] = [step |-> step, files |-> files, listed |-> files]]

Goes(w, step) == doing' = [doing EXCEPT ![w].step = step]

Ends(w) == doing' = [doing EXCEPT ![w] = Idle]

\* The rows of these files are in the given state now; being staged, and since when, is over.
Turn(files, state) ==
    /\ rows' = [f \in File |-> IF f \in files THEN state ELSE rows[f]]
    /\ stagedAt' = [f \in File |-> IF f \notin files THEN stagedAt[f]
                                  ELSE IF state = "staged" THEN now ELSE 0]

------------------------------------------------------------------------------
(***************************************************************************)
(* StageAttachment and CreateAttachment: the object, then the row          *)
(***************************************************************************)
Upload(w, f, step) ==
    /\ rows[f] = "new"
    /\ Begins(w, step, {f})
    /\ objects' = objects \union {f}
    /\ Turn({f}, "coming")
    /\ UNCHANGED <<site, held, disturbed>>

InsertStaged(w) ==
    /\ doing[w].step = "stage"
    /\ Turn(doing[w].files, "staged")
    /\ Ends(w)
    /\ UNCHANGED <<site, objects, held, disturbed>>

\* The row names a ticket, which has to be there.
InsertAttached(w) ==
    /\ doing[w].step = "attach" /\ ~erased
    /\ Turn(doing[w].files, "attached")
    /\ held' = held \union doing[w].files
    /\ Ends(w)
    /\ UNCHANGED <<site, objects, disturbed>>

\* Nothing takes the object back.
InsertFails(w) ==
    /\ doing[w].step \in {"stage", "attach"}
    /\ Turn(doing[w].files, "gone")
    /\ disturbed' = disturbed \union {"leftover"}
    /\ Ends(w)
    /\ UNCHANGED <<site, objects, held>>

------------------------------------------------------------------------------
(***************************************************************************)
(* A new ticket claims uploads, by their tokens, in one UPDATE.            *)
(***************************************************************************)
\* The calls that have found files and are about to delete them.
Deleting == {w \in Worker : doing[w].step \in {"clean", "cleanRows", "delete", "deleteRow"}}

Doomed(f) == \E w \in Deleting : f \in doing[w].listed

Claim(files) ==
    /\ files # {} /\ files \subseteq Staged /\ ~erased
    /\ Turn(files, "attached")
    /\ held' = held \union files
    /\ disturbed' = disturbed \union (IF \E f \in files : Doomed(f) THEN {"loss"} ELSE {})
    /\ UNCHANGED <<site, objects, doing>>

------------------------------------------------------------------------------
(***************************************************************************)
(* The cleanup lists expired uploads, deletes their objects one by one and *)
(* then their rows by id.                                                  *)
(***************************************************************************)
Expired == {f \in Staged : stagedAt[f] < now - Hour}

FindExpired(w) ==
    /\ Expired # {}
    /\ Begins(w, "clean", Expired)
    /\ UNCHANGED <<site, objects, rows, stagedAt, held, disturbed>>

\* The cleanup, the purge and an import that takes its objects back go through all of
\* them, whether one cannot be deleted or not.
DeleteObject(w, f) ==
    /\ doing[w].step \in {"clean", "purge", "takeBack"} /\ f \in doing[w].files
    /\ doing' = [doing EXCEPT ![w].files = @ \ {f}]
    /\ \/ objects' = objects \ {f} /\ UNCHANGED disturbed
       \/ disturbed' = disturbed \union {"leftover"} /\ UNCHANGED objects
    /\ UNCHANGED <<site, rows, stagedAt, held>>

ObjectsDone(w) ==
    /\ doing[w].step \in {"clean", "purge", "takeBack"} /\ doing[w].files = {}
    /\ IF doing[w].step = "clean" THEN Goes(w, "cleanRows") ELSE Ends(w)
    /\ UNCHANGED <<site, objects, rows, stagedAt, held, disturbed>>

\* Faulty: the rows stay.
KeepCleaned(w) ==
    /\ doing[w].step = "cleanRows"
    /\ Ends(w)
    /\ UNCHANGED <<site, objects, rows, stagedAt, held, disturbed>>

DeleteCleaned(w) ==
    /\ doing[w].step = "cleanRows"
    /\ Turn(doing[w].listed \cap (Staged \union Attached), "gone")
    /\ Ends(w)
    /\ UNCHANGED <<site, objects, held, disturbed>>

------------------------------------------------------------------------------
(***************************************************************************)
(* DeleteAttachment: the object, and the row if that worked                *)
(***************************************************************************)
AskToDelete(w, f) ==
    /\ f \in Staged \union Attached
    /\ Begins(w, "delete", {f})
    /\ held' = held \ {f}
    /\ UNCHANGED <<site, objects, rows, stagedAt, disturbed>>

DeleteFile(w) ==
    /\ doing[w].step = "delete"
    /\ \/ objects' = objects \ doing[w].files /\ Goes(w, "deleteRow")
       \/ Ends(w) /\ UNCHANGED objects
    /\ UNCHANGED <<site, rows, stagedAt, held, disturbed>>

DeleteRow(w) ==
    /\ doing[w].step = "deleteRow"
    /\ Turn(doing[w].files \cap (Staged \union Attached), "gone")
    /\ Ends(w)
    /\ UNCHANGED <<site, objects, held, disturbed>>

------------------------------------------------------------------------------
(***************************************************************************)
(* An import stores its objects, then inserts all rows in one transaction. *)
(* Objects whose rows it does not insert after all are taken back.         *)
(***************************************************************************)
StoreAnother(w, f) ==
    /\ doing[w].step = "import" /\ rows[f] = "new"
    /\ doing' = [doing EXCEPT ![w].files = @ \union {f}]
    /\ objects' = objects \union {f}
    /\ Turn({f}, "coming")
    /\ UNCHANGED <<site, held, disturbed>>

\* The transaction inserts the rows of some of the files and COMMITs.
Inserts(w, used) ==
    /\ doing[w].step = "import" /\ ~erased /\ used \subseteq doing[w].files
    /\ rows' = [f \in File |-> IF f \in used THEN "attached"
                              ELSE IF f \in doing[w].files THEN "gone" ELSE rows[f]]
    /\ held' = held \union used
    /\ UNCHANGED <<site, objects, stagedAt>>

TakesBack(w, files) ==
    doing' = [doing EXCEPT ![w].step = "takeBack", ![w].files = files]

\* Faulty: all it stored is taken for unused.
CommitThenTakeBack(w, used) ==
    /\ Inserts(w, used)
    /\ TakesBack(w, doing[w].files)
    /\ UNCHANGED disturbed

CommitImport(w, used) ==
    /\ Inserts(w, used)
    /\ TakesBack(w, doing[w].files \ used)
    /\ UNCHANGED disturbed

\* The COMMIT is done, but the connection breaks before its answer.
CommitUnanswered(w, used) ==
    /\ Inserts(w, used)
    /\ TakesBack(w, doing[w].files)
    /\ disturbed' = disturbed \union {"loss"}

\* Faulty: the objects stay.
RollBackOnly(w) ==
    /\ doing[w].step = "import"
    /\ Turn(doing[w].files, "gone")
    /\ Ends(w)
    /\ UNCHANGED <<site, objects, held, disturbed>>

RollBackImport(w) ==
    /\ doing[w].step = "import"
    /\ Turn(doing[w].files, "gone")
    /\ TakesBack(w, doing[w].files)
    /\ UNCHANGED <<site, objects, held, disturbed>>

------------------------------------------------------------------------------
(***************************************************************************)
(* PurgeWorkspace lists the keys, deletes the workspace with all its rows, *)
(* then the objects.  Calls that had begun may still be under way.         *)
(***************************************************************************)
ListKeys(w) ==
    /\ ~erased
    /\ Begins(w, "erase", Attached)
    /\ UNCHANGED <<site, objects, rows, stagedAt, held, disturbed>>

EraseWorkspace(w) ==
    /\ doing[w].step = "erase"
    /\ erased' = TRUE
    /\ Turn(Attached, "gone")
    /\ held' = {}
    /\ disturbed' = disturbed \union (IF Attached \subseteq doing[w].listed THEN {} ELSE {"leftover"})
    /\ Goes(w, "purge")
    /\ UNCHANGED <<objects, crashes, now>>

------------------------------------------------------------------------------
\* What was under way is dropped.
Crash ==
    /\ crashes < MaxCrashes
    /\ crashes' = crashes + 1
    /\ doing' = [w \in Worker |-> Idle]
    /\ Turn({f \in File : rows[f] = "coming"}, "gone")
    /\ disturbed' = disturbed \union
         (IF \E w \in Worker : doing[w] # Idle THEN {"leftover"} ELSE {}) \union
         (IF Deleting # {} THEN {"loss"} ELSE {})
    /\ UNCHANGED <<objects, erased, held, now>>

Tick ==
    /\ now < MaxTime
    /\ now' = now + 1
    /\ UNCHANGED <<objects, rows, stagedAt, erased, doing, held, disturbed, crashes>>

Begin(w) ==
    \/ \E f \in File : Upload(w, f, "stage") \/ Upload(w, f, "attach") \/ Upload(w, f, "import")
    \/ \E f \in File : StoreAnother(w, f) \/ AskToDelete(w, f)
    \/ ListKeys(w)

Continue(w) ==
    \/ InsertStaged(w) \/ InsertAttached(w) \/ InsertFails(w)
    \/ \E f \in File : DeleteObject(w, f)
    \/ ObjectsDone(w) \/ DeleteCleaned(w)
    \/ DeleteFile(w) \/ DeleteRow(w)
    \/ \E used \in SUBSET doing[w].files : CommitImport(w, used) \/ CommitUnanswered(w, used)
    \/ RollBackImport(w)
    \/ EraseWorkspace(w)

Next ==
    \/ Tick \/ Crash
    \/ \E files \in SUBSET File : Claim(files)
    \/ \E w \in Worker : Begin(w) \/ FindExpired(w) \/ Continue(w)

\* Calls go on, time passes, and the hourly cleanup runs however busy the rest is.
Fairness ==
    /\ WF_vars(Tick)
    /\ \A w \in Worker : WF_vars(Continue(w))
    /\ SF_vars(\E w \in Worker : FindExpired(w))

Spec == Init /\ [][Next]_vars /\ Fairness

------------------------------------------------------------------------------
(***************************************************************************)
(* Properties                                                              *)
(***************************************************************************)
CallType ==
    [step : {"idle", "stage", "attach", "import", "takeBack", "clean", "cleanRows",
             "delete", "deleteRow", "erase", "purge"},
     files : SUBSET File, listed : SUBSET File]

\* The types of the variables.
TypeOK ==
    /\ objects \subseteq File /\ held \subseteq File
    /\ rows \in [File -> {"new", "coming", "staged", "attached", "gone"}]
    /\ stagedAt \in [File -> 0..MaxTime]
    /\ doing \in [Worker -> CallType]
    /\ disturbed \subseteq {"loss", "leftover"}
    /\ erased \in BOOLEAN /\ crashes \in 0..MaxCrashes /\ now \in 1..MaxTime

\* A file that a ticket has got stays with it, row and object, until somebody asks to
\* delete it or the workspace is erased: neither the cleanup nor an import takes it
\* away. The exceptions are an upload claimed while a call was about to delete it, or
\* after a restart stopped such a call half way, and an import whose COMMIT went
\* unanswered.
TicketKeepsItsFiles ==
    "loss" \notin disturbed =>
        \A f \in held : rows[f] = "attached" /\ f \in objects

\* No object is left without a row and without a call that will see to it, unless an
\* insert failed, the storage refused a deletion, the process stopped in the middle,
\* or a file came in after the purge had listed the keys.
NothingLeftBehind ==
    "leftover" \notin disturbed =>
        \A f \in objects :
            \/ f \in Staged \union Attached
            \/ \E w \in Worker : f \in doing[w].files

\* An upload that nobody claims is cleaned up, also after restarts.
StagedEnds == \A f \in File :
    (rows[f] = "staged" /\ stagedAt[f] < MaxTime - Hour) ~> (rows[f] # "staged")

==============================================================================
