---------------------------- MODULE TicketImport ----------------------------
(***************************************************************************)
(* The tickets of one workspace and what names them: the number inside,    *)
(* the reference people see, and the links by which an import recognizes   *)
(* what it brought before.  Tickets are created, imported from files of    *)
(* elsewhere or of this workspace, renamed, deleted and converted to       *)
(* another format of references.  Creations, imports and conversions hold  *)
(* one advisory lock up to their COMMIT; saves of a ticket hold none.      *)
(***************************************************************************)
EXTENDS Integers, Sequences, FiniteSetsExt

CONSTANTS
    Worker,       \* requests in flight at once
    SourceFile,   \* an export of another workspace: a set of tickets
    Title,
    FirstTitle,   \* what every ticket is called at first
    Format,       \* how references are shown (style, prefix and key together)
    DefaultFormat,
    NoFormat,
    NoRef,        \* a file ticket without a usable reference
    MaxTickets    \* bound: rows ever made

ASSUME TicketImportAssumption ==
    /\ DefaultFormat \in Format /\ NoFormat \notin Format /\ FirstTitle \in Title
    /\ MaxTickets \in Nat \ {0}

Births == Nat \union {t.born : t \in SourceFile}
Refs == (Format \X Nat) \union {t.ref : t \in SourceFile}

FileTicket == [origin : Births, born : Births, title : Title, ref : Refs, number : Nat]

\* Every ticket of the file has an origin, a birth (its reporter and second, which stand
\* for the ticket itself) and a reference of its own; ids of elsewhere are not ids of here.
ASSUME SourceAssumption ==
    /\ SourceFile \subseteq FileTicket
    /\ \A t \in SourceFile : t.born = t.origin /\ t.origin \notin Nat
    /\ \A t, u \in SourceFile :
         t.origin = u.origin \/ (t.ref = u.ref /\ t.ref # NoRef) => t = u

VARIABLES
    tickets,   \* the rows by their ids, deleted ones included
    links,     \* workspace_import_links
    format,    \* of the references of new tickets
    doing,     \* what each worker is in the middle of
    stale,     \* a save has put an old reference back
    crossed    \* a ticket got a name by which an import under way would not find it

importVars == <<tickets, links, format, doing, stale, crossed>>

\* What a call has read: an import before it has the lock, a save, a conversion
Idle == [step |-> "idle"]

Matching(file) == [step |-> "match", file |-> file, links |-> links]

Saving(i, title) == [step |-> "save", id |-> i, title |-> title, ref |-> tickets[i].ref]

Rewriting == [step |-> "rewrite", to |-> format]

\* What a creation or an import has inserted under the lock, and what an import has
\* left: the last number, the references it knows of and the format of new ones
Inserting(file, new, left, to, number, taken, rows) ==
    [step |-> "insert", file |-> file, links |-> new, left |-> left, to |-> to,
     number |-> number, taken |-> taken, rows |-> rows]

ImportInit ==
    /\ tickets = <<>> /\ links = {} /\ format = DefaultFormat
    /\ doing = [w \in Worker |-> Idle]
    /\ stale = FALSE /\ crossed = FALSE

Ids == DOMAIN tickets
Live == {i \in Ids : ~tickets[i].deleted}
Numbers == {tickets[i].number : i \in Ids}
References == {tickets[i].ref : i \in Ids} \ {NoRef}

MaxNumber == IF Numbers = {} THEN 0 ELSE Max(Numbers)

\* pg_advisory_xact_lock, held up to the COMMIT
Unlocked == \A w \in Worker : doing[w].step # "insert"

\* Numbers whose reference is taken are skipped.
NextFree(number, taken, shown) ==
    Min({n \in number..(number + Cardinality(taken)) : <<shown, n>> \notin taken})

Row(born, title, number, ref) ==
    [born |-> born, title |-> title, number |-> number, ref |-> ref, deleted |-> FALSE]

Goes(w, call) == doing' = [doing EXCEPT ![w] = call]

Ends(w) == Goes(w, Idle)

\* An import is about to look for a ticket, under another name, to which it has no link.
Unknown(i, born, title) == \E w \in Worker :
    /\ doing[w].step = "match"
    /\ \A l \in doing[w].links : l.target # i
    /\ \E t \in doing[w].file : t.born = born /\ t.title # title

------------------------------------------------------------------------------
(***************************************************************************)
(* TypeOrmTicketRepository.create: the lock, the number, the reference     *)
(***************************************************************************)
\* A new ticket, whose birth is its own
Created ==
    LET number == NextFree(MaxNumber + 1, References, format)
        ref    == <<format, number>>
    IN  Inserting({}, {}, {}, format, number, References \union {ref},
                  <<Row(Len(tickets) + 1, FirstTitle, number, ref)>>)

\* Faulty: the lock is not taken.
CreateWithoutLock(w) ==
    /\ doing[w] = Idle /\ Len(tickets) < MaxTickets
    /\ Goes(w, Created)
    /\ UNCHANGED <<tickets, links, format, stale, crossed>>

Create(w) ==
    /\ doing[w] = Idle /\ Unlocked /\ Len(tickets) < MaxTickets
    /\ Goes(w, Created)
    /\ UNCHANGED <<tickets, links, format, stale, crossed>>

------------------------------------------------------------------------------
(***************************************************************************)
(* ImportWorkspace: the links by which it finds tickets, read in its       *)
(* transaction, then the lock, the tickets there are and those it inserts  *)
(***************************************************************************)
\* In an export, a ticket that came from an import keeps the identity of its earliest
\* link, any of them when one import wrote several.
Origins(i) ==
    LET mine == {l \in links : l.target = i}
    IN  IF mine = {} THEN {i}
        ELSE {l.source : l \in {x \in mine : \A y \in mine : x.at <= y.at}}

Export(origin) ==
    {[origin |-> origin[i], born |-> tickets[i].born, title |-> tickets[i].title,
      ref |-> tickets[i].ref, number |-> tickets[i].number] : i \in Live}

\* Bound: an export of this workspace is imported when it is made, but everything may
\* happen before its tickets are matched.
Identities == {o \in [Live -> UNION {Origins(i) : i \in Live}] :
                 \A i \in Live : o[i] \in Origins(i)}

Files == {SourceFile} \union (IF Live = {} THEN {} ELSE {Export(o) : o \in Identities})

ImportBegins(w, file) ==
    /\ doing[w] = Idle
    /\ Goes(w, Matching(file))
    /\ UNCHANGED <<tickets, links, format, stale, crossed>>

\* Faulty: the links of earlier imports are not looked at.
FoundByKey(w, t) ==
    {i \in Live : tickets[i].born = t.born /\ tickets[i].title = t.title}

\* ImportIdentity.find, else a ticket of the same name, reporter and second (born)
Found(w, t) ==
    LET linked == {l.target : l \in {x \in doing[w].links : x.source = t.origin}} \cap Live
        own    == {t.origin} \cap Live
    IN  IF linked # {} THEN linked
        ELSE IF own # {} THEN own
        ELSE {i \in Live : tickets[i].born = t.born /\ tickets[i].title = t.title}

\* Faulty: the reference of the file is not kept.
KeepsNone(call, t) == FALSE

\* It keeps its reference unless that is taken, here or by one inserted before.
Keeps(call, t) == t.ref # NoRef /\ t.ref \notin call.taken

\* Found tickets are linked and left as they are; the others are to be inserted.
ImportMatches(w) ==
    /\ doing[w].step = "match" /\ Unlocked
    /\ \E found \in [doing[w].file -> Ids \union {0}] :
         /\ \A t \in doing[w].file :
              found[t] \in IF Found(w, t) = {} THEN {0} ELSE Found(w, t)
         /\ LET file    == doing[w].file
                missing == {t \in file : found[t] = 0}
                matched == {[source |-> t.origin, target |-> found[t]] : t \in file \ missing}
            IN  /\ Len(tickets) + Cardinality(missing) <= MaxTickets
                /\ Goes(w, Inserting(file, matched, missing, NoFormat, MaxNumber, References, <<>>))
    /\ UNCHANGED <<tickets, links, format, stale, crossed>>

\* A ticket of the file becomes a row. The format is read when the first reference has
\* to be made.
Inserted(call, t) ==
    LET kept   == Keeps(call, t)
        shown  == IF call.to = NoFormat THEN format ELSE call.to
        number == IF kept THEN call.number + 1
                  ELSE NextFree(call.number + 1, call.taken, shown)
        ref    == IF kept THEN t.ref ELSE <<shown, number>>
        id     == Len(tickets) + Len(call.rows) + 1
    IN  Inserting(call.file, call.links \union {[source |-> t.origin, target |-> id]},
                  call.left \ {t}, IF kept THEN call.to ELSE shown, number,
                  call.taken \union {ref},
                  Append(call.rows, Row(t.born, t.title, number, ref)))

\* One after the other, in the order of their old numbers
Insert(w) ==
    /\ doing[w].step = "insert"
    /\ \E t \in doing[w].left :
         /\ \A u \in doing[w].left : t.number <= u.number
         /\ Goes(w, Inserted(doing[w], t))
    /\ UNCHANGED <<tickets, links, format, stale, crossed>>

\* ImportLinks.write: one link for each source, which keeps its age when it moves;
\* an entity found by its own id has none.
Upserted(new) ==
    LET recorded == {l \in new : l.source # l.target}
        age(s)   == IF \E l \in links : l.source = s
                    THEN (CHOOSE l \in links : l.source = s).at
                    ELSE 1 + Max({l.at : l \in links} \union {0})
    IN  {l \in links : \A n \in recorded : n.source # l.source}
          \union {[source |-> n.source, target |-> n.target, at |-> age(n.source)] : n \in recorded}

\* The unique indexes on the number and on the reference
Collides(rows) ==
    \E n \in DOMAIN rows : rows[n].number \in Numbers \/ rows[n].ref \in References

\* The COMMIT of a creation or of an import
Commit(w) ==
    /\ doing[w].step = "insert" /\ doing[w].left = {} /\ ~Collides(doing[w].rows)
    /\ tickets' = tickets \o doing[w].rows
    /\ links' = Upserted(doing[w].links)
    /\ crossed' = (crossed \/ \E n \in DOMAIN doing[w].rows :
         Unknown(Len(tickets) + n, doing[w].rows[n].born, doing[w].rows[n].title))
    /\ Ends(w)
    /\ UNCHANGED <<format, stale>>

\* An error, or an index that refuses a row: everything is rolled back.
RollBack(w) ==
    /\ doing[w].step \in {"match", "insert"}
    /\ Ends(w)
    /\ UNCHANGED <<tickets, links, format, stale, crossed>>

------------------------------------------------------------------------------
(***************************************************************************)
(* Tickets are saved whole, with the name and the reference that were read *)
(***************************************************************************)
ReadTicket(w, i, title) ==
    /\ doing[w] = Idle /\ i \in Live
    /\ Goes(w, Saving(i, title))
    /\ UNCHANGED <<tickets, links, format, stale, crossed>>

SaveTicket(w) ==
    /\ doing[w].step = "save"
    /\ LET i       == doing[w].id
           new     == [tickets[i] EXCEPT !.title = doing[w].title, !.ref = doing[w].ref]
           putBack == new.ref # tickets[i].ref
           refused == putBack /\ new.ref \in References
       IN  /\ tickets' = IF refused THEN tickets ELSE [tickets EXCEPT ![i] = new]
           /\ stale' = (stale \/ (putBack /\ ~refused))
           /\ crossed' = (crossed \/ (~refused /\ new.title # tickets[i].title /\ Unknown(i, new.born, new.title)))
    /\ Ends(w)
    /\ UNCHANGED <<links, format>>

SoftDelete(i) ==
    /\ i \in Live
    /\ tickets' = [tickets EXCEPT ![i].deleted = TRUE]
    /\ UNCHANGED <<links, format, doing, stale, crossed>>

------------------------------------------------------------------------------
(***************************************************************************)
(* The format of the references, and the conversion of the old ones        *)
(***************************************************************************)
\* Bound: a workspace does not go back to the format it left.
UpdateFormat(to) ==
    /\ format = DefaultFormat
    /\ format' = to
    /\ UNCHANGED <<tickets, links, doing, stale, crossed>>

\* ConvertTicketReferences reads the format before it waits for the lock.
ConvertBegins(w) ==
    /\ doing[w] = Idle
    /\ Goes(w, Rewriting)
    /\ UNCHANGED <<tickets, links, format, stale, crossed>>

RewriteAll(w) ==
    /\ doing[w].step = "rewrite" /\ Unlocked
    /\ tickets' = [i \in Ids |->
         [tickets[i] EXCEPT !.ref = <<doing[w].to, tickets[i].number>>]]
    /\ Ends(w)
    /\ UNCHANGED <<links, format, stale, crossed>>

ImportNext ==
    \/ \E to \in Format : UpdateFormat(to)
    \/ \E i \in Ids : SoftDelete(i)
    \/ \E w \in Worker :
         \/ Create(w)
         \/ \E file \in Files : ImportBegins(w, file)
         \/ ImportMatches(w) \/ Insert(w) \/ Commit(w) \/ RollBack(w)
         \/ \E i \in Ids, title \in Title : ReadTicket(w, i, title)
         \/ SaveTicket(w) \/ ConvertBegins(w) \/ RewriteAll(w)

ImportSpec == ImportInit /\ [][ImportNext]_importVars

------------------------------------------------------------------------------
(***************************************************************************)
(* Properties                                                              *)
(***************************************************************************)
RowType ==
    [born : Births, title : Title, number : Nat, ref : Refs, deleted : BOOLEAN]

CallTyped(call) ==
    /\ call.step \in {"idle", "match", "insert", "save", "rewrite"}
    /\ call.step = "match" =>
         /\ call.file \subseteq FileTicket
         /\ \A l \in call.links : l.source \in Births /\ l.target \in Ids
    /\ call.step = "insert" =>
         /\ call.file \subseteq FileTicket /\ call.left \subseteq call.file
         /\ call.to \in Format \union {NoFormat} /\ call.number \in Nat
         /\ call.taken \subseteq Refs /\ call.rows \in Seq(RowType)
         /\ \A l \in call.links :
              l.source \in Births /\ l.target \in 1..(Len(tickets) + Len(call.rows))
    /\ call.step = "save" => call.id \in Ids /\ call.title \in Title /\ call.ref \in Refs
    /\ call.step = "rewrite" => call.to \in Format

\* The types of the variables; a link leads to a row.
ImportTypeOK ==
    /\ tickets \in Seq(RowType)
    /\ \A l \in links : l.source \in Births /\ l.target \in Ids
    /\ format \in Format /\ stale \in BOOLEAN /\ crossed \in BOOLEAN
    /\ DOMAIN doing = Worker /\ \A w \in Worker : CallTyped(doing[w])

\* Numbers and references are unique because of the lock and not of the indexes: what
\* a creation or an import is about to commit is free, except for a reference that a
\* save of an older read has put back after a conversion.
CommitsAreFree ==
    \A w \in Worker : doing[w].step = "insert" =>
        /\ \A n \in DOMAIN doing[w].rows : doing[w].rows[n].number \notin Numbers
        /\ stale \/ ~Collides(doing[w].rows)

\* However often, and from whichever file, a ticket is imported, and whatever it was
\* renamed to since, there is one of it, also when imports overlap: only a ticket
\* renamed while an import that has no link to it is under way is brought twice.
ImportedOnce ==
    ~crossed => \A i, j \in Live : tickets[i].born = tickets[j].born => i = j

\* A file none of whose references the workspace uses keeps them all.
Imports(w) == doing[w].step = "insert" /\ doing[w].file # {}

ReferencesKeptWhenApart ==
    \A w \in Worker :
        (Imports(w) /\ ~stale
         /\ \A t \in doing[w].file : t.ref \notin References \union {NoRef}) =>
            \A n \in DOMAIN doing[w].rows : \E t \in doing[w].file :
                t.born = doing[w].rows[n].born /\ t.ref = doing[w].rows[n].ref

\* "Imported tickets keep their original reference unless the workspace already uses
\* it" (changelog.data.ts:484).
ReferencesKept ==
    \A w \in Worker : Imports(w) =>
        \A n \in DOMAIN doing[w].rows, t \in doing[w].file :
            t.born = doing[w].rows[n].born =>
                t.ref = doing[w].rows[n].ref \/ t.ref \in References \union {NoRef}

==============================================================================
