-------------------------- MODULE WorkspaceRowProofs --------------------------
(***************************************************************************)
(* Proofs about WorkspaceRow, for any calls in flight, domains, periods    *)
(* and clock: what a call that nobody has overtaken knows of the row it is *)
(* about to write, and from it what deletion, purge and custom domain keep *)
(* as long as no write comes late.                                         *)
(***************************************************************************)
EXTENDS WorkspaceRow, TLAPS

(***************************************************************************)
(* The invariant.                                                          *)
(***************************************************************************)
Domains0 == Domain \union {NoDomain}

\* What an UPDATE can set.
FitsColumns(changes) ==
    /\ DOMAIN changes \subseteq Columns
    /\ "domain" \in DOMAIN changes => changes["domain"] \in Domains0
    /\ "verified" \in DOMAIN changes => changes["verified"] \in BOOLEAN
    /\ "token" \in DOMAIN changes => changes["token"] \in BOOLEAN
    /\ "failures" \in DOMAIN changes => changes["failures"] \in 0..Distrust

IsCall(call) ==
    /\ call = [step |-> call.step, mine |-> call.mine, purgeAt |-> call.purgeAt,
               changes |-> call.changes, why |-> call.why, late |-> call.late]
    /\ call.step \in Steps /\ call.mine \in Memories /\ call.purgeAt \in 0..MaxTime
    /\ FitsColumns(call.changes)
    /\ call.why \in {"other", "proof", "check"} /\ call.late \subseteq Kinds

Dated == row.deleted => row.purgeAt > 0

Undated == row.purgeAt > 0 => row.deleted

\* Between the two UPDATEs of a deletion and of a restoration
HalfWay == \E w \in Worker : doing[w].step \in {"flag", "undate"}

\* What a call of the lifecycle knows as long as no other has written.
DeletionKnown(call) ==
    /\ call.step = "date" => Live /\ call.purgeAt > 0
    /\ call.step = "flag" => Live /\ row.purgeAt > 0
    /\ call.step = "unflag" => Deleted
    /\ call.step = "undate" => Live
    /\ call.step \in {"due", "erase"} => Deleted /\ row.purgeAt <= now
    /\ call.step = "eraseNow" => Deleted

Set(call, column) ==
    IF column \in DOMAIN call.changes THEN call.changes[column] ELSE row[column]

\* What a call about the settings knows as long as no other has saved: only a check
\* of a domain of its own, or a system admin, verifies what is not verified.
DomainKnown(call) ==
    /\ call.step # "insert"
    /\ call.step \in {"dns", "load", "update"} => row.there
    /\ call.step = "dns" /\ call.why # "proof" =>
         row.verified /\ call.mine.domain = row.domain
    /\ call.step = "load" /\ call.why # "proof" =>
         (call.mine.verified => row.verified /\ call.mine.domain = row.domain)
    /\ call.step = "update" =>
         /\ Set(call, "domain") = call.mine.domain
         /\ call.why # "proof" =>
              (Set(call, "verified") => row.verified /\ call.mine.domain = row.domain)

LifecycleKnown ==
    "lifecycle" \notin raced =>
        /\ Dated
        /\ cuts = 0 => Undated \/ HalfWay
        /\ \A w \in Worker : "lifecycle" \notin doing[w].late => DeletionKnown(doing[w])

SettingsKnown ==
    "settings" \notin raced =>
        \A w \in Worker : "settings" \notin doing[w].late => DomainKnown(doing[w])

IInv ==
    /\ TypeOK
    /\ doing = [w \in Worker |-> doing[w]] /\ \A w \in Worker : IsCall(doing[w])
    /\ LifecycleKnown
    /\ SettingsKnown

------------------------------------------------------------------------------
(***************************************************************************)
(* Rows and calls.                                                         *)
(***************************************************************************)
LEMMA BoundTypes ==
    /\ MaxTime \in Nat \ {0} /\ Recovery \in Nat \ {0} /\ Reminder \in Nat
    /\ Distrust \in Nat \ {0} /\ MaxCuts \in Nat
<1> QED
  BY WorkspaceRowAssumption

LEMMA RowFields ==
    ASSUME NEW r \in Rows
    PROVE  /\ r.there \in BOOLEAN /\ r.deleted \in BOOLEAN /\ r.purgeAt \in 0..MaxTime
           /\ r.reminded \in BOOLEAN /\ r.domain \in Domains0 /\ r.verified \in BOOLEAN
           /\ r.token \in BOOLEAN /\ r.failures \in 0..Distrust
           /\ DOMAIN r = {"there", "deleted", "purgeAt", "reminded", "domain", "verified",
                          "token", "failures"}
<1> QED
  BY DEF Rows, Domains0

LEMMA MemoryFields ==
    ASSUME NEW m \in Memories
    PROVE  /\ m.domain \in Domains0 /\ m.verified \in BOOLEAN
           /\ m.token \in BOOLEAN /\ m.failures \in 0..Distrust
           /\ DOMAIN m = Columns
           /\ m = [domain |-> m.domain, verified |-> m.verified, token |-> m.token,
                   failures |-> m.failures]
<1> QED
  BY DEF Memories, Domains0, Columns

LEMMA FirstRows ==
    /\ NewRow \in Rows /\ Gone \in Rows /\ Blank \in Memories /\ FitsColumns(NoChanges)
    /\ Gone.there = FALSE /\ Gone.deleted = FALSE /\ Gone.purgeAt = 0
    /\ NewRow.there = TRUE /\ NewRow.deleted = FALSE /\ NewRow.purgeAt = 0
    /\ NewRow.reminded = FALSE
<1>1. /\ 0 \in 0..MaxTime /\ 0 \in 0..Distrust /\ NoDomain \in Domains0
      /\ TRUE \in BOOLEAN /\ FALSE \in BOOLEAN
  BY BoundTypes DEF Domains0
<1>2. /\ NewRow \in Rows /\ NewRow.there = TRUE /\ NewRow.deleted = FALSE
      /\ NewRow.purgeAt = 0 /\ NewRow.reminded = FALSE
  BY <1>1 DEF NewRow, Rows, Domains0
<1>3. /\ Gone \in Rows /\ Gone.there = FALSE /\ Gone.deleted = NewRow.deleted
      /\ Gone.purgeAt = NewRow.purgeAt
  BY <1>1, <1>2 DEF Gone, Rows
<1>4. Blank \in Memories
  BY <1>1 DEF Blank, Memories, Domains0
<1>5. DOMAIN NoChanges = {}
  BY DEF NoChanges
<1> QED
  BY <1>2, <1>3, <1>4, <1>5 DEF FitsColumns

LEMMA IdleIsCall ==
    /\ IsCall(Idle) /\ Idle.step = "idle" /\ Idle.late = {}
    /\ DeletionKnown(Idle) /\ DomainKnown(Idle)
    /\ Idle = [step |-> "idle", mine |-> Blank, purgeAt |-> 0, changes |-> NoChanges,
               why |-> "other", late |-> {}]
<1>1. IsCall(Idle) /\ Idle.step = "idle" /\ Idle.late = {}
  BY BoundTypes, FirstRows DEF Idle, IsCall, Steps
<1> QED
  BY <1>1 DEF DeletionKnown, DomainKnown, Idle

\* A call that begins, with nothing written by others since its read.
LEMMA BegunIsCall ==
    ASSUME NEW step \in Steps, NEW mine \in Memories, NEW purgeAt \in 0..MaxTime,
           NEW why \in {"other", "proof", "check"}, NEW late \in SUBSET Kinds
    PROVE  LET call == [step |-> step, mine |-> mine, purgeAt |-> purgeAt,
                        changes |-> NoChanges, why |-> why, late |-> late]
           IN  IsCall(call)
<1> QED
  BY FirstRows DEF IsCall

------------------------------------------------------------------------------
(***************************************************************************)
(* What one step does to the invariant: a call goes on, or writes.         *)
(***************************************************************************)
Knows(call) ==
    /\ "lifecycle" \notin raced /\ "lifecycle" \notin call.late => DeletionKnown(call)
    /\ "settings" \notin raced /\ "settings" \notin call.late => DomainKnown(call)

LEMMA OneCall ==
    ASSUME IInv, NEW w \in Worker, NEW call, doing' = [doing EXCEPT ![w] = call]
    PROVE  /\ doing' = [v \in Worker |-> doing'[v]]
           /\ doing'[w] = call
           /\ \A v \in Worker : v # w => doing'[v] = doing[v]
<1>1. doing = [v \in Worker |-> doing[v]]
  BY DEF IInv
<1> QED
  BY <1>1

LEMMA CallGoesOn ==
    ASSUME IInv, NEW w \in Worker, NEW call, IsCall(call), Knows(call),
           doing' = [doing EXCEPT ![w] = call],
           UNCHANGED <<row, raced, now>>, cuts' \in 0..MaxCuts,
           cuts' = 0 => cuts = 0 /\ doing[w].step \notin {"flag", "undate"}
    PROVE  IInv'
<1>1. /\ TypeOK /\ \A v \in Worker : IsCall(doing[v])
      /\ LifecycleKnown /\ SettingsKnown
  BY DEF IInv
<1>2. /\ doing' = [v \in Worker |-> doing'[v]] /\ doing'[w] = call
      /\ \A v \in Worker : v # w => doing'[v] = doing[v]
  BY OneCall
<1>3. \A v \in Worker : IsCall(doing[v])'
  <2>1. \A v \in Worker : IsCall(doing'[v])
    BY <1>1, <1>2
  <2> QED
    BY <2>1 DEF IsCall, FitsColumns
<1>4. TypeOK'
  BY <1>1, <1>3 DEF TypeOK, IsCall, FitsColumns
<1>5. LifecycleKnown'
  <2>1. cuts' = 0 => cuts = 0 /\ (HalfWay => HalfWay')
    BY <1>2 DEF HalfWay
  <2> QED
    BY <1>1, <1>2, <2>1
    DEF LifecycleKnown, Knows, DeletionKnown, Dated, Undated, Live, Deleted
<1>6. SettingsKnown'
  BY <1>1, <1>2 DEF SettingsKnown, Knows, DomainKnown, Set
<1> QED
  BY <1>2, <1>3, <1>4, <1>5, <1>6 DEF IInv

\* Whoever is not late after a write was not late before, and what was written is of
\* no interest to it.
LEMMA WritesIs ==
    ASSUME IInv, NEW w \in Worker, NEW kinds \in SUBSET Kinds, NEW new \in Rows,
           NEW step \in Steps, Writes(w, kinds, new, step), UNCHANGED <<cuts, now>>
    PROVE  /\ row' = new /\ TypeOK'
           /\ doing' = [v \in Worker |-> doing'[v]] /\ \A v \in Worker : IsCall(doing[v])'
           /\ doing'[w].step = step
           /\ \A v \in Worker : v # w =>
                /\ doing'[v].step = doing[v].step /\ doing'[v].mine = doing[v].mine
                /\ doing'[v].purgeAt = doing[v].purgeAt
                /\ doing'[v].changes = doing[v].changes /\ doing'[v].why = doing[v].why
           /\ \A k \in Kinds : k \notin raced' =>
                /\ k \notin raced
                /\ k \in kinds => k \notin doing[w].late
                /\ doing'[w] = Idle \/ (k \notin doing'[w].late <=> k \notin doing[w].late)
                /\ \A v \in Worker : v # w =>
                     \/ doing'[v] = Idle
                     \/ k \notin doing'[v].late => k \notin doing[v].late /\ k \notin kinds
<1>1. /\ TypeOK /\ \A v \in Worker : IsCall(doing[v])
      /\ \A v \in Worker : doing[v].late \subseteq Kinds
  BY DEF IInv, IsCall
<1>2. /\ row' = new
      /\ raced' = raced \union (doing[w].late \cap kinds)
      /\ doing' = [v \in Worker |->
           IF v = w
           THEN IF step = "idle" THEN Idle
                ELSE [Idle EXCEPT !.step = step, !.late = doing[w].late \ raced']
           ELSE IF doing[v] = Idle THEN Idle
           ELSE [doing[v] EXCEPT !.late = (@ \union kinds) \ raced']]
  BY DEF Writes
<1>3. raced' \subseteq Kinds
  BY <1>1, <1>2 DEF TypeOK
<1>4. /\ IsCall(doing'[w]) /\ doing'[w].step = step
      /\ doing'[w] = Idle \/ doing'[w].late = doing[w].late \ raced'
  <2>1. CASE step = "idle"
    BY <1>2, <2>1, IdleIsCall
  <2>2. CASE step # "idle"
    <3> DEFINE late == doing[w].late \ raced'
               c == [step |-> step, mine |-> Blank, purgeAt |-> 0, changes |-> NoChanges,
                     why |-> "other", late |-> late]
    <3>1. late \in SUBSET Kinds /\ 0 \in 0..MaxTime
      BY <1>1, BoundTypes
    <3> HIDE DEF late
    <3>2. IsCall(c)
      BY <3>1, FirstRows, BegunIsCall
    <3>3. doing'[w] = [Idle EXCEPT !.step = step, !.late = late]
      BY <1>2, <2>2 DEF late
    <3> DEFINE c1 == [step |-> step, mine |-> Blank, purgeAt |-> 0, changes |-> NoChanges,
                      why |-> "other", late |-> {}]
    <3>4. [Idle EXCEPT !.step = step] = c1
      BY IdleIsCall
    <3>5. [c1 EXCEPT !.late = late] = c
      OBVIOUS
    <3>6. doing'[w] = c
      BY <3>3, <3>4, <3>5
    <3> QED
      BY <3>2, <3>6 DEF late
  <2> QED
    BY <2>1, <2>2
<1>5. ASSUME NEW v \in Worker, v # w
      PROVE  /\ IsCall(doing'[v])
             /\ doing'[v].step = doing[v].step /\ doing'[v].mine = doing[v].mine
             /\ doing'[v].purgeAt = doing[v].purgeAt
             /\ doing'[v].changes = doing[v].changes /\ doing'[v].why = doing[v].why
             /\ doing'[v] = Idle \/ doing'[v].late = (doing[v].late \union kinds) \ raced'
  <2>1. CASE doing[v] = Idle
    BY <1>2, <1>5, <2>1, IdleIsCall
  <2>2. CASE doing[v] # Idle
    <3> DEFINE late == (doing[v].late \union kinds) \ raced'
               c == [step |-> doing[v].step, mine |-> doing[v].mine,
                     purgeAt |-> doing[v].purgeAt, changes |-> doing[v].changes,
                     why |-> doing[v].why, late |-> late]
    <3>1. late \subseteq Kinds
      BY <1>1
    <3> HIDE DEF late
    <3>2. doing'[v] = [doing[v] EXCEPT !.late = late]
      BY <1>2, <1>5, <2>2 DEF late
    <3> DEFINE old == [step |-> doing[v].step, mine |-> doing[v].mine,
                       purgeAt |-> doing[v].purgeAt, changes |-> doing[v].changes,
                       why |-> doing[v].why, late |-> doing[v].late]
    <3>3. doing[v] = old
      BY <1>1 DEF IsCall
    <3>4. [old EXCEPT !.late = late] = c
      OBVIOUS
    <3>5. [doing[v] EXCEPT !.late = late] = c
      BY <3>3, <3>4
    <3>6. IsCall(c)
      BY <1>1, <3>1 DEF IsCall
    <3> QED
      BY <3>2, <3>5, <3>6 DEF late
  <2> QED
    BY <2>1, <2>2
<1>6. doing' = [v \in Worker |-> doing'[v]] /\ \A v \in Worker : IsCall(doing'[v])
  BY <1>2, <1>4, <1>5
<1>7. \A v \in Worker : IsCall(doing[v])'
  BY <1>6 DEF IsCall, FitsColumns
<1>8. TypeOK'
  BY <1>1, <1>2, <1>3, <1>7 DEF TypeOK, IsCall, FitsColumns
<1>9. ASSUME NEW k \in Kinds, k \notin raced'
      PROVE  /\ k \notin raced
             /\ k \in kinds => k \notin doing[w].late
             /\ doing'[w] = Idle \/ (k \notin doing'[w].late <=> k \notin doing[w].late)
             /\ \A v \in Worker : v # w =>
                  \/ doing'[v] = Idle
                  \/ k \notin doing'[v].late => k \notin doing[v].late /\ k \notin kinds
  <2>1. k \notin raced /\ (k \in kinds => k \notin doing[w].late)
    BY <1>2, <1>9
  <2>2. doing'[w] = Idle \/ (k \notin doing'[w].late <=> k \notin doing[w].late)
    BY <1>4, <1>9
  <2>3. ASSUME NEW v \in Worker, v # w
        PROVE  \/ doing'[v] = Idle
               \/ k \notin doing'[v].late => k \notin doing[v].late /\ k \notin kinds
    BY <1>5, <1>9, <2>3
  <2> QED
    BY <2>1, <2>2, <2>3
<1> QED
  BY <1>2, <1>4, <1>5, <1>6, <1>7, <1>8, <1>9

\* A write of some columns leaves the calls that it does not make late what they know.
LEMMA WrittenKept ==
    ASSUME IInv, NEW w \in Worker, NEW kinds \in SUBSET Kinds, NEW new \in Rows,
           NEW step \in {"idle", "flag", "undate"}, Writes(w, kinds, new, step),
           UNCHANGED <<cuts, now>>,
           "lifecycle" \notin kinds =>
             /\ new.there = row.there /\ new.deleted = row.deleted
             /\ new.purgeAt = row.purgeAt /\ doing[w].step \notin {"flag", "undate"},
           "settings" \notin kinds =>
             /\ new.there = row.there /\ new.domain = row.domain
             /\ new.verified = row.verified,
           "lifecycle" \in kinds /\ "lifecycle" \notin raced' =>
             /\ \/ new.deleted <=> new.purgeAt > 0
                \/ step \in {"flag", "undate"}
                \/ /\ new.deleted = row.deleted /\ new.purgeAt = row.purgeAt
                   /\ doing[w].step \notin {"flag", "undate"}
             /\ step = "flag" => new.there /\ ~new.deleted /\ new.purgeAt > 0
             /\ step = "undate" => new.there /\ ~new.deleted,
           "lifecycle" \notin kinds => step = "idle"
    PROVE  IInv'
<1>1. step \in Steps /\ "lifecycle" \in Kinds /\ "settings" \in Kinds
  BY DEF Steps, Kinds
<1>2. /\ row' = new /\ TypeOK'
      /\ doing' = [v \in Worker |-> doing'[v]] /\ \A v \in Worker : IsCall(doing[v])'
      /\ doing'[w].step = step
      /\ \A v \in Worker : v # w =>
           /\ doing'[v].step = doing[v].step /\ doing'[v].mine = doing[v].mine
           /\ doing'[v].purgeAt = doing[v].purgeAt
           /\ doing'[v].changes = doing[v].changes /\ doing'[v].why = doing[v].why
      /\ \A k \in Kinds : k \notin raced' =>
           /\ k \notin raced
           /\ k \in kinds => k \notin doing[w].late
           /\ doing'[w] = Idle \/ (k \notin doing'[w].late <=> k \notin doing[w].late)
           /\ \A v \in Worker : v # w =>
                \/ doing'[v] = Idle
                \/ k \notin doing'[v].late => k \notin doing[v].late /\ k \notin kinds
  BY <1>1, WritesIs
<1>3. ASSUME "lifecycle" \notin raced' PROVE Dated' /\ (cuts' = 0 => Undated' \/ HalfWay')
  <2>1. Dated /\ (cuts' = 0 => Undated \/ HalfWay)
    BY <1>1, <1>2, <1>3 DEF IInv, LifecycleKnown
  <2>2. CASE new.deleted <=> new.purgeAt > 0
    BY <1>2, <2>2 DEF Dated, Undated
  <2>3. CASE step \in {"flag", "undate"}
    <3>1. ~new.deleted
      BY <1>3, <2>3
    <3>2. HalfWay'
      BY <1>2, <2>3 DEF HalfWay
    <3> QED
      BY <1>2, <3>1, <3>2 DEF Dated
  <2>4. CASE /\ new.deleted = row.deleted /\ new.purgeAt = row.purgeAt
             /\ doing[w].step \notin {"flag", "undate"}
    <3>1. HalfWay => HalfWay'
      BY <1>2, <2>4 DEF HalfWay
    <3> QED
      BY <1>2, <2>1, <2>4, <3>1 DEF Dated, Undated
  <2> QED
    BY <1>3, <2>2, <2>3, <2>4
<1>4. ASSUME "lifecycle" \notin raced', NEW v \in Worker, "lifecycle" \notin doing'[v].late
      PROVE  DeletionKnown(doing[v])'
  <2>1. CASE v = w
    BY <1>2, <1>4, <2>1 DEF DeletionKnown, Live
  <2>2. CASE v # w /\ doing'[v] = Idle
    BY <2>2, IdleIsCall DEF DeletionKnown
  <2>3. CASE v # w /\ doing'[v] # Idle
    <3>1. "lifecycle" \notin raced /\ "lifecycle" \notin doing[v].late /\ "lifecycle" \notin kinds
      BY <1>1, <1>2, <1>4, <2>3
    <3>2. DeletionKnown(doing[v])
      BY <3>1 DEF IInv, LifecycleKnown
    <3> QED
      BY <1>2, <2>3, <3>1, <3>2 DEF DeletionKnown, Live, Deleted
  <2> QED
    BY <2>1, <2>2, <2>3
<1>5. ASSUME "settings" \notin raced', NEW v \in Worker, "settings" \notin doing'[v].late
      PROVE  DomainKnown(doing[v])'
  <2>1. CASE v = w
    BY <1>2, <2>1 DEF DomainKnown
  <2>2. CASE v # w /\ doing'[v] = Idle
    BY <2>2, IdleIsCall DEF DomainKnown
  <2>3. CASE v # w /\ doing'[v] # Idle
    <3>1. "settings" \notin raced /\ "settings" \notin doing[v].late /\ "settings" \notin kinds
      BY <1>1, <1>2, <1>5, <2>3
    <3>2. DomainKnown(doing[v])
      BY <3>1 DEF IInv, SettingsKnown
    <3> QED
      BY <1>2, <2>3, <3>1, <3>2 DEF DomainKnown, Set
  <2> QED
    BY <2>1, <2>2, <2>3
<1> QED
  BY <1>2, <1>3, <1>4, <1>5 DEF IInv, LifecycleKnown, SettingsKnown

\* What no step may do: the row goes as promised, and a domain is verified by its own
\* check.
RowStep ==
    /\ (row.there /\ ~row'.there /\ "lifecycle" \notin raced') =>
         /\ row.deleted
         /\ \A w \in Worker :
              (doing[w].step = "erase" /\ doing'[w] = Idle) => row.purgeAt <= now
    /\ ("settings" \notin raced' /\ row'.verified
        /\ (~row.verified \/ row'.domain # row.domain)) =>
         \E w \in Worker : doing[w].why = "proof" /\ doing[w].mine.domain = row'.domain

LEMMA QuietStep ==
    ASSUME row'.there = row.there, row'.verified = row.verified, row'.domain = row.domain
    PROVE  RowStep
<1> QED
  BY DEF RowStep

\* An UPDATE of columns of the deletion.
LEMMA UpdatedIs ==
    ASSUME IInv, NEW deleted \in BOOLEAN, NEW purgeAt \in 0..MaxTime,
           NEW reminded \in BOOLEAN, NEW new,
           new \in {[row EXCEPT !.purgeAt = purgeAt, !.reminded = reminded],
                    [row EXCEPT !.deleted = deleted], [row EXCEPT !.reminded = reminded]}
    PROVE  /\ IfThere(new) \in Rows
           /\ IfThere(new).there = row.there /\ IfThere(new).domain = row.domain
           /\ IfThere(new).verified = row.verified
           /\ ~row.there => IfThere(new) = row
           /\ row.there => IfThere(new) = new
<1>1. row \in Rows
  BY DEF IInv, TypeOK
<1>2. /\ new \in Rows /\ new.there = row.there /\ new.domain = row.domain
      /\ new.verified = row.verified
  BY <1>1 DEF Rows
<1> QED
  BY <1>1, <1>2 DEF IfThere

\* Deletion: who has not been overtaken finds the row live, dates it and flags it.
LEMMA DateKept ==
    ASSUME IInv, NEW w \in Worker, DateDeletion(w)
    PROVE  IInv' /\ RowStep
<1> DEFINE purgeAt == doing[w].purgeAt
           new == IfThere([row EXCEPT !.purgeAt = purgeAt, !.reminded = FALSE])
<1>1. /\ doing[w].step = "date" /\ Writes(w, {"lifecycle"}, new, "flag") /\ UNCHANGED <<cuts, now>>
      /\ {"lifecycle"} \in SUBSET Kinds
      /\ row \in Rows /\ purgeAt \in 0..MaxTime
  BY DEF DateDeletion, Kinds, IInv, TypeOK
<1>2. [row EXCEPT !.purgeAt = purgeAt, !.reminded = FALSE].purgeAt = purgeAt
      /\ [row EXCEPT !.purgeAt = purgeAt, !.reminded = FALSE].deleted = row.deleted
  BY <1>1 DEF Rows
<1>3. /\ new \in Rows /\ new.there = row.there /\ new.domain = row.domain
      /\ new.verified = row.verified
      /\ row.there => new.purgeAt = purgeAt /\ new.deleted = row.deleted
  BY <1>1, <1>2, UpdatedIs
<1> HIDE DEF new
<1>4. "lifecycle" \notin raced' => row.there /\ ~row.deleted /\ purgeAt > 0
  <2>1. "lifecycle" \notin raced' => "lifecycle" \notin raced /\ "lifecycle" \notin doing[w].late
    BY <1>1 DEF Writes
  <2> QED
    BY <1>1, <2>1 DEF IInv, LifecycleKnown, DeletionKnown, Live
<1>5. IInv'
  BY <1>1, <1>3, <1>4, WrittenKept
<1>6. row' = new
  BY <1>1 DEF Writes
<1> QED
  BY <1>3, <1>5, <1>6, QuietStep

LEMMA FlagKept ==
    ASSUME IInv, NEW w \in Worker, FlagDeletion(w)
    PROVE  IInv' /\ RowStep
<1> DEFINE new == IfThere([row EXCEPT !.deleted = TRUE])
<1>1. /\ doing[w].step = "flag" /\ Writes(w, {"lifecycle"}, new, "idle") /\ UNCHANGED <<cuts, now>>
      /\ {"lifecycle"} \in SUBSET Kinds
      /\ row \in Rows /\ 0 \in 0..MaxTime
  BY BoundTypes DEF FlagDeletion, Kinds, IInv, TypeOK
<1>2. [row EXCEPT !.deleted = TRUE].purgeAt = row.purgeAt
      /\ [row EXCEPT !.deleted = TRUE].deleted = TRUE
  BY <1>1 DEF Rows
<1>3. /\ new \in Rows /\ new.there = row.there /\ new.domain = row.domain
      /\ new.verified = row.verified
      /\ row.there => new.purgeAt = row.purgeAt /\ new.deleted = TRUE
  BY <1>1, <1>2, UpdatedIs
<1> HIDE DEF new
<1>4. "lifecycle" \notin raced' => row.there /\ ~row.deleted /\ row.purgeAt > 0
  <2>1. "lifecycle" \notin raced' => "lifecycle" \notin raced /\ "lifecycle" \notin doing[w].late
    BY <1>1 DEF Writes
  <2> QED
    BY <1>1, <2>1 DEF IInv, LifecycleKnown, DeletionKnown, Live
<1>5. IInv'
  BY <1>1, <1>3, <1>4, WrittenKept
<1>6. row' = new
  BY <1>1 DEF Writes
<1> QED
  BY <1>3, <1>5, <1>6, QuietStep

\* Restoration, in the opposite order.
LEMMA UnflagKept ==
    ASSUME IInv, NEW w \in Worker, UnflagDeletion(w)
    PROVE  IInv' /\ RowStep
<1> DEFINE new == IfThere([row EXCEPT !.deleted = FALSE])
<1>1. /\ doing[w].step = "unflag" /\ Writes(w, {"lifecycle"}, new, "undate")
      /\ UNCHANGED <<cuts, now>>
      /\ {"lifecycle"} \in SUBSET Kinds
      /\ row \in Rows /\ 0 \in 0..MaxTime
  BY BoundTypes DEF UnflagDeletion, Kinds, IInv, TypeOK
<1>2. [row EXCEPT !.deleted = FALSE].purgeAt = row.purgeAt
      /\ [row EXCEPT !.deleted = FALSE].deleted = FALSE
  BY <1>1 DEF Rows
<1>3. /\ new \in Rows /\ new.there = row.there /\ new.domain = row.domain
      /\ new.verified = row.verified
      /\ row.there => new.purgeAt = row.purgeAt /\ new.deleted = FALSE
  BY <1>1, <1>2, UpdatedIs
<1> HIDE DEF new
<1>4. "lifecycle" \notin raced' => row.there
  <2>1. "lifecycle" \notin raced' => "lifecycle" \notin raced /\ "lifecycle" \notin doing[w].late
    BY <1>1 DEF Writes
  <2> QED
    BY <1>1, <2>1 DEF IInv, LifecycleKnown, DeletionKnown, Deleted
<1>5. IInv'
  BY <1>1, <1>3, <1>4, WrittenKept
<1>6. row' = new
  BY <1>1 DEF Writes
<1> QED
  BY <1>3, <1>5, <1>6, QuietStep

LEMMA UndateKept ==
    ASSUME IInv, NEW w \in Worker, UndateDeletion(w)
    PROVE  IInv' /\ RowStep
<1> DEFINE new == IfThere([row EXCEPT !.purgeAt = 0, !.reminded = FALSE])
<1>1. /\ doing[w].step = "undate" /\ Writes(w, {"lifecycle"}, new, "idle")
      /\ UNCHANGED <<cuts, now>>
      /\ {"lifecycle"} \in SUBSET Kinds
      /\ row \in Rows /\ 0 \in 0..MaxTime
  BY BoundTypes DEF UndateDeletion, Kinds, IInv, TypeOK
<1>2. [row EXCEPT !.purgeAt = 0, !.reminded = FALSE].purgeAt = 0
      /\ [row EXCEPT !.purgeAt = 0, !.reminded = FALSE].deleted = row.deleted
  BY <1>1 DEF Rows
<1>3. /\ new \in Rows /\ new.there = row.there /\ new.domain = row.domain
      /\ new.verified = row.verified
      /\ row.there => new.purgeAt = 0 /\ new.deleted = row.deleted
  BY <1>1, <1>2, UpdatedIs
<1> HIDE DEF new
<1>4. "lifecycle" \notin raced' => row.there /\ ~row.deleted
  <2>1. "lifecycle" \notin raced' => "lifecycle" \notin raced /\ "lifecycle" \notin doing[w].late
    BY <1>1 DEF Writes
  <2> QED
    BY <1>1, <2>1 DEF IInv, LifecycleKnown, DeletionKnown, Live
<1>5. IInv'
  BY <1>1, <1>3, <1>4, WrittenKept
<1>6. row' = new
  BY <1>1 DEF Writes
<1> QED
  BY <1>3, <1>5, <1>6, QuietStep

LEMMA RemindKept ==
    ASSUME IInv, NEW w \in Worker, Remind(w)
    PROVE  IInv' /\ RowStep
<1> DEFINE new == IfThere([row EXCEPT !.reminded = TRUE])
<1>1. /\ doing[w].step = "remind" /\ Writes(w, {"lifecycle"}, new, "idle")
      /\ UNCHANGED <<cuts, now>>
      /\ {"lifecycle"} \in SUBSET Kinds
      /\ row \in Rows /\ 0 \in 0..MaxTime
  BY BoundTypes DEF Remind, Kinds, IInv, TypeOK
<1>2. [row EXCEPT !.reminded = TRUE].purgeAt = row.purgeAt
      /\ [row EXCEPT !.reminded = TRUE].deleted = row.deleted
  BY <1>1 DEF Rows
<1>3. /\ new \in Rows /\ new.there = row.there /\ new.domain = row.domain
      /\ new.verified = row.verified
      /\ row.there => new.purgeAt = row.purgeAt /\ new.deleted = row.deleted
      /\ ~row.there => new = row
  BY <1>1, <1>2, UpdatedIs
<1> HIDE DEF new
<1>4. new.purgeAt = row.purgeAt /\ new.deleted = row.deleted
  BY <1>1, <1>3 DEF Rows
<1>5. IInv'
  BY <1>1, <1>3, <1>4, WrittenKept
<1>6. row' = new
  BY <1>1 DEF Writes
<1> QED
  BY <1>3, <1>5, <1>6, QuietStep

\* The purge: a deleted workspace, and one that is due when the daily run purges it.
LEMMA EraseKept ==
    ASSUME IInv, NEW w \in Worker, Erase(w)
    PROVE  IInv' /\ RowStep
<1>1. /\ doing[w].step \in {"erase", "eraseNow"} /\ Writes(w, Kinds, Gone, "idle")
      /\ UNCHANGED <<cuts, now>> /\ Kinds \in SUBSET Kinds
      /\ "lifecycle" \in Kinds /\ "settings" \in Kinds
  BY DEF Erase, Kinds
<1>2. /\ Gone \in Rows /\ Gone.there = FALSE /\ Gone.deleted = FALSE /\ Gone.purgeAt = 0
      /\ Gone.verified = FALSE
  BY FirstRows DEF Gone, NewRow
<1>3. Gone.deleted <=> Gone.purgeAt > 0
  BY <1>2
<1>4. IInv'
  BY <1>1, <1>2, <1>3, WrittenKept
<1>5. row' = Gone
  BY <1>1 DEF Writes
<1>6. ASSUME row.there, "lifecycle" \notin raced'
      PROVE  /\ row.deleted
             /\ \A v \in Worker :
                  (doing[v].step = "erase" /\ doing'[v] = Idle) => row.purgeAt <= now
  <2>1. "lifecycle" \notin raced /\ "lifecycle" \notin doing[w].late
    BY <1>1, <1>6 DEF Writes
  <2>2. DeletionKnown(doing[w])
    BY <2>1 DEF IInv, LifecycleKnown
  <2>3. row.deleted
    BY <1>1, <2>2 DEF DeletionKnown, Deleted
  <2>4. ASSUME NEW v \in Worker, doing[v].step = "erase", doing'[v] = Idle
        PROVE  v = w
    <3>1. "idle" \in Steps /\ doing'[v].step = "idle"
      BY <2>4, IdleIsCall DEF Steps
    <3>2. PICK kinds, new, step : kinds = Kinds /\ new = Gone /\ step = "idle"
      OBVIOUS
    <3>3. /\ kinds \in SUBSET Kinds /\ new \in Rows /\ step \in Steps
          /\ Writes(w, kinds, new, step) /\ UNCHANGED <<cuts, now>>
      BY <1>1, <1>2, <3>1, <3>2
    <3>4. \A u \in Worker : u # w =>
            /\ doing'[u].step = doing[u].step /\ doing'[u].mine = doing[u].mine
            /\ doing'[u].purgeAt = doing[u].purgeAt
            /\ doing'[u].changes = doing[u].changes /\ doing'[u].why = doing[u].why
      BY <3>3, WritesIs
    <3> QED
      BY <2>4, <3>1, <3>4
  <2>5. doing[w].step = "erase" => row.purgeAt <= now
    BY <2>2 DEF DeletionKnown
  <2> QED
    BY <2>3, <2>4, <2>5
<1> QED
  BY <1>2, <1>4, <1>5, <1>6 DEF RowStep

\* save() of what differs: the columns of the deletion stay, and the domain is verified
\* by the check that this call made of it, or was.
LEMMA ChangedIs ==
    ASSUME NEW r \in Rows, NEW changes, FitsColumns(changes)
    PROVE  LET new == [c \in DOMAIN r |-> IF c \in DOMAIN changes THEN changes[c] ELSE r[c]]
           IN  /\ new \in Rows /\ new.there = r.there /\ new.deleted = r.deleted
               /\ new.purgeAt = r.purgeAt
               /\ new.domain = IF "domain" \in DOMAIN changes THEN changes["domain"] ELSE r.domain
               /\ new.verified = IF "verified" \in DOMAIN changes THEN changes["verified"]
                                 ELSE r.verified
<1> DEFINE new == [c \in DOMAIN r |-> IF c \in DOMAIN changes THEN changes[c] ELSE r[c]]
<1>1. /\ r.there \in BOOLEAN /\ r.deleted \in BOOLEAN /\ r.purgeAt \in 0..MaxTime
      /\ r.reminded \in BOOLEAN /\ r.domain \in Domains0 /\ r.verified \in BOOLEAN
      /\ r.token \in BOOLEAN /\ r.failures \in 0..Distrust
      /\ DOMAIN r = {"there", "deleted", "purgeAt", "reminded", "domain", "verified",
                     "token", "failures"}
  BY RowFields
<1>2. DOMAIN changes \subseteq {"domain", "verified", "token", "failures"}
  BY DEF FitsColumns, Columns
<1>3. /\ new.there = r.there /\ new.deleted = r.deleted /\ new.purgeAt = r.purgeAt
      /\ new.reminded = r.reminded
  BY <1>1, <1>2
<1>4. /\ new.domain = IF "domain" \in DOMAIN changes THEN changes["domain"] ELSE r.domain
      /\ new.verified = IF "verified" \in DOMAIN changes THEN changes["verified"]
                        ELSE r.verified
      /\ new.token = IF "token" \in DOMAIN changes THEN changes["token"] ELSE r.token
      /\ new.failures = IF "failures" \in DOMAIN changes THEN changes["failures"]
                        ELSE r.failures
  BY <1>1
<1>5. /\ new.domain \in Domains0 /\ new.verified \in BOOLEAN /\ new.token \in BOOLEAN
      /\ new.failures \in 0..Distrust
  BY <1>1, <1>4 DEF FitsColumns
<1>6. new = [there |-> new.there, deleted |-> new.deleted, purgeAt |-> new.purgeAt,
             reminded |-> new.reminded, domain |-> new.domain, verified |-> new.verified,
             token |-> new.token, failures |-> new.failures]
  BY <1>1
<1>7. new \in Rows
  <2> HIDE DEF new
  <2> QED
    BY <1>1, <1>3, <1>5, <1>6 DEF Rows, Domains0
<1> QED
  BY <1>3, <1>4, <1>7

LEMMA UpdateKept ==
    ASSUME IInv, NEW w \in Worker, Update(w)
    PROVE  IInv' /\ RowStep
<1> PICK changes, mine, why :
      changes = doing[w].changes /\ mine = doing[w].mine /\ why = doing[w].why
  OBVIOUS
<1> DEFINE saved == [c \in DOMAIN row |-> IF c \in DOMAIN changes THEN changes[c] ELSE row[c]]
           new == IfThere(saved)
<1>1. /\ doing[w].step = "update" /\ Writes(w, {"settings"}, new, "idle") /\ UNCHANGED <<cuts, now>>
      /\ {"settings"} \in SUBSET Kinds /\ "lifecycle" \notin {"settings"}
      /\ row \in Rows /\ FitsColumns(changes) /\ "settings" \in {"settings"}
  BY DEF Update, Kinds, IInv, TypeOK, IsCall
<1>2. /\ saved \in Rows /\ saved.there = row.there /\ saved.deleted = row.deleted
      /\ saved.purgeAt = row.purgeAt
      /\ saved.domain = IF "domain" \in DOMAIN changes THEN changes["domain"] ELSE row.domain
      /\ saved.verified = IF "verified" \in DOMAIN changes THEN changes["verified"]
                          ELSE row.verified
  BY <1>1, ChangedIs
<1> HIDE DEF saved
<1>3. /\ new \in Rows /\ new.there = row.there /\ new.deleted = row.deleted
      /\ new.purgeAt = row.purgeAt
  BY <1>1, <1>2 DEF IfThere
<1>4. row.there => new = saved
  BY DEF IfThere
<1> HIDE DEF new
<1>5. IInv'
  BY <1>1, <1>3, WrittenKept
<1>6. row' = new
  BY <1>1 DEF Writes
<1>7. ASSUME "settings" \notin raced', row'.verified, ~row.verified \/ row'.domain # row.domain
      PROVE  why = "proof" /\ mine.domain = row'.domain
  <2>1. "settings" \notin raced /\ "settings" \notin doing[w].late
    BY <1>1, <1>7 DEF Writes
  <2>2. DomainKnown(doing[w])
    BY <2>1 DEF IInv, SettingsKnown
  <2>3. /\ row.there /\ Set(doing[w], "domain") = mine.domain
        /\ why # "proof" =>
             (Set(doing[w], "verified") => row.verified /\ mine.domain = row.domain)
    BY <1>1, <2>2 DEF DomainKnown
  <2>4. saved.domain = Set(doing[w], "domain") /\ saved.verified = Set(doing[w], "verified")
    BY <1>2 DEF Set
  <2> QED
    BY <1>4, <1>6, <1>7, <2>3, <2>4
<1>8. row'.there = row.there
  BY <1>3, <1>6
<1> QED
  BY <1>5, <1>7, <1>8 DEF RowStep

\* The INSERT of a row erased between the read and the save, which always is a late one.
LEMMA InsertKept ==
    ASSUME IInv, NEW w \in Worker, Insert(w)
    PROVE  IInv' /\ RowStep
<1> PICK mine : mine = doing[w].mine
  OBVIOUS
<1> DEFINE again == [c \in DOMAIN row |-> IF c \in Columns THEN mine[c] ELSE NewRow[c]]
           new == IF row.there THEN row ELSE again
<1>1. /\ doing[w].step = "insert" /\ Writes(w, Kinds, new, "idle") /\ UNCHANGED <<cuts, now>>
      /\ Kinds \in SUBSET Kinds /\ "lifecycle" \in Kinds /\ "settings" \in Kinds
      /\ row \in Rows /\ mine \in Memories
  BY DEF Insert, Kinds, IInv, TypeOK, IsCall
<1>2. /\ again \in Rows /\ again.there = TRUE /\ again.deleted = FALSE /\ again.purgeAt = 0
  <2>1. DOMAIN row = {"there", "deleted", "purgeAt", "reminded", "domain", "verified",
                      "token", "failures"}
    BY <1>1, RowFields
  <2>2. /\ mine.domain \in Domains0 /\ mine.verified \in BOOLEAN
        /\ mine.token \in BOOLEAN /\ mine.failures \in 0..Distrust
    BY <1>1, MemoryFields
  <2>3. again = [there |-> again.there, deleted |-> again.deleted, purgeAt |-> again.purgeAt,
                 reminded |-> again.reminded, domain |-> again.domain,
                 verified |-> again.verified, token |-> again.token,
                 failures |-> again.failures]
    BY <2>1
  <2>4. /\ again.there = NewRow.there /\ again.deleted = NewRow.deleted
        /\ again.purgeAt = NewRow.purgeAt /\ again.reminded = NewRow.reminded
    BY <2>1 DEF Columns
  <2>5. /\ again.domain = mine.domain /\ again.verified = mine.verified
        /\ again.token = mine.token /\ again.failures = mine.failures
    BY <2>1 DEF Columns
  <2>6. 0 \in 0..MaxTime
    BY BoundTypes
  <2>7. again \in Rows
    <3> HIDE DEF again
    <3> QED
      BY <2>2, <2>3, <2>4, <2>5, <2>6, FirstRows DEF Rows, Domains0
  <2> QED
    BY <2>4, <2>7, FirstRows
<1> HIDE DEF again
<1>3. new \in Rows
  BY <1>1, <1>2
<1>4. row.there => new = row
  OBVIOUS
<1>5. ~row.there => new = again
  OBVIOUS
<1> HIDE DEF new
<1>6. "settings" \in raced'
  <2>1. ~DomainKnown(doing[w])
    BY <1>1 DEF DomainKnown
  <2>2. "settings" \in raced \/ "settings" \in doing[w].late
    BY <2>1 DEF IInv, SettingsKnown
  <2> QED
    BY <1>1, <2>2 DEF Writes
<1>7. \/ new.deleted <=> new.purgeAt > 0
      \/ /\ new.deleted = row.deleted /\ new.purgeAt = row.purgeAt
         /\ doing[w].step \notin {"flag", "undate"}
  BY <1>1, <1>2, <1>4, <1>5
<1>8. IInv'
  BY <1>1, <1>3, <1>7, WrittenKept
<1>9. row' = new
  BY <1>1 DEF Writes
<1> QED
  BY <1>2, <1>4, <1>5, <1>6, <1>8, <1>9 DEF RowStep

------------------------------------------------------------------------------
(***************************************************************************)
(* The steps that write nothing.                                           *)
(***************************************************************************)
\* A call begins with what it reads.
LEMMA BeginsKept ==
    ASSUME IInv, NEW w \in Worker, NEW step \in Steps, NEW mine \in Memories,
           NEW why \in {"other", "proof", "check"}, Begins(w, step, mine, why),
           step \notin {"date", "flag", "undate", "update", "insert"},
           step = "unflag" => Deleted,
           step \in {"due", "erase"} => Deleted /\ row.purgeAt <= now,
           step = "eraseNow" => Deleted,
           step \in {"dns", "load"} => row.there,
           step = "dns" /\ why # "proof" => row.verified /\ mine.domain = row.domain,
           step = "load" /\ why # "proof" =>
             (mine.verified => row.verified /\ mine.domain = row.domain)
    PROVE  IInv' /\ RowStep
<1> DEFINE call == [step |-> step, mine |-> mine, purgeAt |-> 0, changes |-> NoChanges,
                    why |-> why, late |-> {}]
<1>1. doing[w] = Idle /\ UNCHANGED <<row, raced, cuts, now>>
      /\ doing' = [doing EXCEPT ![w] = [Idle EXCEPT !.step = step, !.mine = mine, !.why = why]]
  BY DEF Begins
<1>2. [Idle EXCEPT !.step = step, !.mine = mine, !.why = why] = call
  <2> DEFINE c1 == [step |-> step, mine |-> Blank, purgeAt |-> 0, changes |-> NoChanges,
                    why |-> "other", late |-> {}]
             c2 == [step |-> step, mine |-> mine, purgeAt |-> 0, changes |-> NoChanges,
                    why |-> "other", late |-> {}]
  <2>1. [Idle EXCEPT !.step = step] = c1
    BY IdleIsCall
  <2>2. [c1 EXCEPT !.mine = mine] = c2
    OBVIOUS
  <2>3. [c2 EXCEPT !.why = why] = call
    OBVIOUS
  <2> QED
    BY <2>1, <2>2, <2>3
<1>3. IsCall(call) /\ cuts \in 0..MaxCuts
  <2>1. 0 \in 0..MaxTime /\ {} \in SUBSET Kinds /\ cuts \in 0..MaxCuts
    BY BoundTypes DEF IInv, TypeOK
  <2> QED
    BY <2>1, BegunIsCall
<1>4. DeletionKnown(call) /\ DomainKnown(call)
  BY DEF DeletionKnown, DomainKnown
<1>5. Knows(call)
  BY <1>4 DEF Knows
<1>6. doing[w].step \notin {"flag", "undate"}
  BY <1>1, IdleIsCall
<1> HIDE DEF call
<1>7. doing' = [doing EXCEPT ![w] = call]
  BY <1>1, <1>2
<1>8. IInv'
  BY <1>1, <1>3, <1>5, <1>6, <1>7, CallGoesOn
<1> QED
  BY <1>1, <1>8, QuietStep

LEMMA EndsKept ==
    ASSUME IInv, NEW w \in Worker, Ends(w), doing[w].step \notin {"flag", "undate"},
           UNCHANGED <<row, raced, cuts, now>>
    PROVE  IInv' /\ RowStep
<1>1. IsCall(Idle) /\ Knows(Idle) /\ cuts \in 0..MaxCuts
  BY IdleIsCall DEF Knows, IInv, TypeOK
<1>2. PICK call : call = Idle
  OBVIOUS
<1>3. IsCall(call) /\ Knows(call) /\ doing' = [doing EXCEPT ![w] = call]
  BY <1>1, <1>2 DEF Ends
<1>4. IInv'
  BY <1>1, <1>3, CallGoesOn
<1> QED
  BY <1>4, QuietStep

\* A call that is cut off knows nothing any more, and what it left half done is counted.
LEMMA CutOffKept ==
    ASSUME IInv, NEW w \in Worker, CutOff(w)
    PROVE  IInv' /\ RowStep
<1>1. Ends(w) /\ cuts < MaxCuts /\ cuts' = cuts + 1 /\ UNCHANGED <<row, raced, now>>
  BY DEF CutOff
<1>2. cuts' \in 0..MaxCuts /\ cuts' # 0
  BY <1>1, BoundTypes DEF IInv, TypeOK
<1>3. PICK call : call = Idle
  OBVIOUS
<1>4. IsCall(call) /\ Knows(call) /\ doing' = [doing EXCEPT ![w] = call]
  BY <1>1, <1>3, IdleIsCall DEF Ends, Knows
<1>5. IInv'
  BY <1>1, <1>2, <1>4, CallGoesOn
<1> QED
  BY <1>1, <1>5, QuietStep

LEMMA ReadToDeleteKept ==
    ASSUME IInv, NEW w \in Worker, ReadToDelete(w)
    PROVE  IInv' /\ RowStep
<1> DEFINE date == now + Recovery
           call == [step |-> "date", mine |-> Blank, purgeAt |-> date, changes |-> NoChanges,
                    why |-> "other", late |-> {}]
<1>1. doing[w] = Idle /\ UNCHANGED <<row, raced, cuts, now>> /\ Live /\ date <= MaxTime
      /\ doing' = [doing EXCEPT ![w] = [Idle EXCEPT !.step = "date", !.purgeAt = date]]
  BY DEF ReadToDelete
<1>2. date \in 0..MaxTime /\ date > 0 /\ cuts \in 0..MaxCuts
  BY <1>1, BoundTypes DEF IInv, TypeOK
<1> HIDE DEF date
<1>3. [Idle EXCEPT !.step = "date", !.purgeAt = date] = call
  <2> DEFINE c1 == [step |-> "date", mine |-> Blank, purgeAt |-> 0, changes |-> NoChanges,
                    why |-> "other", late |-> {}]
  <2>1. [Idle EXCEPT !.step = "date"] = c1
    BY IdleIsCall
  <2>2. [c1 EXCEPT !.purgeAt = date] = call
    OBVIOUS
  <2> QED
    BY <2>1, <2>2
<1>4. IsCall(call)
  <2>1. "date" \in Steps /\ Blank \in Memories /\ {} \in SUBSET Kinds
        /\ "other" \in {"other", "proof", "check"}
    BY FirstRows DEF Steps
  <2> QED
    BY <1>2, <2>1, BegunIsCall
<1>5. DeletionKnown(call) /\ DomainKnown(call)
  BY <1>1, <1>2 DEF DeletionKnown, DomainKnown
<1>6. Knows(call)
  BY <1>5 DEF Knows
<1>7. doing[w].step \notin {"flag", "undate"}
  BY <1>1, IdleIsCall
<1> HIDE DEF call
<1>8. doing' = [doing EXCEPT ![w] = call]
  BY <1>1, <1>3
<1>9. IInv'
  BY <1>1, <1>2, <1>4, <1>6, <1>7, <1>8, CallGoesOn
<1> QED
  BY <1>1, <1>9, QuietStep

LEMMA LifecycleBegins ==
    ASSUME IInv, NEW w \in Worker,
           ReadToRestore(w) \/ FindDueForReminder(w) \/ FindDueForPurge(w) \/ PurgeNow(w)
    PROVE  IInv' /\ RowStep
<1>1. Blank \in Memories /\ "other" \in {"other", "proof", "check"}
      /\ {"unflag", "remind", "due", "eraseNow"} \subseteq Steps
  BY FirstRows DEF Steps
<1>2. CASE ReadToRestore(w)
  <2>1. Deleted /\ Begins(w, "unflag", Blank, "other") /\ "unflag" \in Steps
    BY <1>1, <1>2 DEF ReadToRestore
  <2> QED
    BY <1>1, <2>1, BeginsKept
<1>3. CASE FindDueForReminder(w)
  <2>1. Begins(w, "remind", Blank, "other") /\ "remind" \in Steps
    BY <1>1, <1>3 DEF FindDueForReminder
  <2> QED
    BY <1>1, <2>1, BeginsKept
<1>4. CASE FindDueForPurge(w)
  <2>1. Begins(w, "due", Blank, "other") /\ "due" \in Steps /\ Deleted /\ row.purgeAt <= now
    BY <1>1, <1>4 DEF FindDueForPurge, IInv, TypeOK
  <2> QED
    BY <1>1, <2>1, BeginsKept
<1>5. CASE PurgeNow(w)
  <2>1. Deleted /\ Begins(w, "eraseNow", Blank, "other") /\ "eraseNow" \in Steps
    BY <1>1, <1>5 DEF PurgeNow
  <2> QED
    BY <1>1, <2>1, BeginsKept
<1> QED
  BY <1>2, <1>3, <1>4, <1>5

LEMMA ReadMemories ==
    ASSUME row \in Rows, NEW domain \in Domains0, NEW verified \in BOOLEAN
    PROVE  /\ AsRead \in Memories /\ AsRead.verified = row.verified /\ AsRead.domain = row.domain
           /\ Unchecked(domain) \in Memories /\ Unchecked(domain).domain = domain
           /\ Unchecked(domain).verified = FALSE
           /\ [Unchecked(domain) EXCEPT !.verified = verified, !.token = FALSE] \in Memories
           /\ [Unchecked(domain) EXCEPT !.verified = verified, !.token = FALSE].domain = domain
<1>1. /\ row.domain \in Domains0 /\ row.verified \in BOOLEAN
      /\ row.token \in BOOLEAN /\ row.failures \in 0..Distrust
  BY RowFields
<1>2. AsRead \in Memories /\ AsRead.verified = row.verified /\ AsRead.domain = row.domain
  <2>1. AsRead = [domain |-> row.domain, verified |-> row.verified, token |-> row.token,
                  failures |-> row.failures]
    BY DEF AsRead, Columns
  <2> QED
    BY <1>1, <2>1 DEF Memories, Domains0
<1>3. PICK token, u, trusted :
        /\ token = (domain # NoDomain) /\ u = Unchecked(domain)
        /\ trusted = [u EXCEPT !.verified = verified, !.token = FALSE]
  OBVIOUS
<1>4. Blank \in Memories /\ Blank.verified = FALSE /\ token \in BOOLEAN /\ FALSE \in BOOLEAN
  BY <1>3, FirstRows DEF Blank
<1>5. PICK m : m = [Blank EXCEPT !.domain = domain]
  OBVIOUS
<1>6. m \in Memories /\ m.domain = domain /\ m.verified = FALSE
  BY <1>4, <1>5 DEF Memories, Domains0
<1>7. u = [m EXCEPT !.token = token]
  BY <1>3, <1>5 DEF Unchecked
<1>8. u \in Memories /\ u.domain = domain /\ u.verified = FALSE
  BY <1>4, <1>6, <1>7 DEF Memories, Domains0
<1>9. PICK v : v = [u EXCEPT !.verified = verified]
  OBVIOUS
<1>10. v \in Memories /\ v.domain = domain
  BY <1>8, <1>9 DEF Memories, Domains0
<1>11. trusted = [v EXCEPT !.token = FALSE]
  BY <1>3, <1>9
<1>12. trusted \in Memories /\ trusted.domain = domain
  BY <1>4, <1>10, <1>11 DEF Memories, Domains0
<1> QED
  BY <1>2, <1>3, <1>8, <1>12

LEMMA SettingsBegin ==
    ASSUME IInv, NEW w \in Worker,
           \/ \E d \in Domains0 : SetCustomDomain(w, d) \/ SetTrusted(w, d)
           \/ UpdateSettings(w) \/ VerifyCustomDomain(w) \/ ConfirmCustomDomain(w)
           \/ ListToRecheck(w)
    PROVE  IInv' /\ RowStep
<1>1. "load" \in Steps /\ "dns" \in Steps /\ row \in Rows
      /\ {"other", "proof", "check"} = {"other", "proof", "check"}
  BY DEF Steps, IInv, TypeOK
<1>2. PICK read : read = AsRead
  OBVIOUS
<1>3. read \in Memories /\ read.verified = row.verified /\ read.domain = row.domain
  <2>1. NoDomain \in Domains0 /\ TRUE \in BOOLEAN
    BY DEF Domains0
  <2> QED
    BY <1>1, <1>2, <2>1, ReadMemories
<1>4. ASSUME NEW d \in Domains0, SetCustomDomain(w, d) PROVE IInv' /\ RowStep
  <2>1. PICK mine : mine = Unchecked(d)
    OBVIOUS
  <2>2. mine \in Memories /\ mine.verified = FALSE
    <3>1. TRUE \in BOOLEAN
      OBVIOUS
    <3> QED
      BY <1>1, <2>1, <3>1, ReadMemories
  <2>3. Live /\ Begins(w, "load", mine, "other") /\ row.there
    BY <1>4, <2>1 DEF SetCustomDomain, Live
  <2> QED
    BY <1>1, <2>2, <2>3, BeginsKept
<1>5. ASSUME NEW d \in Domains0, SetTrusted(w, d) PROVE IInv' /\ RowStep
  <2>1. PICK mine : mine = [Unchecked(d) EXCEPT !.verified = TRUE, !.token = FALSE]
    OBVIOUS
  <2>2. mine \in Memories
    <3>1. TRUE \in BOOLEAN
      OBVIOUS
    <3> QED
      BY <1>1, <2>1, <3>1, ReadMemories
  <2>3. Live /\ Begins(w, "load", mine, "proof") /\ row.there
    BY <1>5, <2>1 DEF SetTrusted, Live
  <2> QED
    BY <1>1, <2>2, <2>3, BeginsKept
<1>6. CASE UpdateSettings(w)
  <2>1. Begins(w, "load", read, "other") /\ row.there
    BY <1>2, <1>6 DEF UpdateSettings, Live
  <2> QED
    BY <1>1, <1>3, <2>1, BeginsKept
<1>7. CASE VerifyCustomDomain(w)
  <2>1. Begins(w, "dns", read, "proof") /\ row.there
    BY <1>2, <1>7 DEF VerifyCustomDomain, Live
  <2> QED
    BY <1>1, <1>3, <2>1, BeginsKept
<1>8. CASE ConfirmCustomDomain(w)
  <2>1. Begins(w, "dns", read, "other") /\ row.there /\ row.verified
    BY <1>2, <1>8 DEF ConfirmCustomDomain, Live
  <2> QED
    BY <1>1, <1>3, <2>1, BeginsKept
<1>9. CASE ListToRecheck(w)
  <2>1. Begins(w, "dns", read, "check") /\ row.there /\ row.verified
    BY <1>2, <1>9 DEF ListToRecheck, Live
  <2> QED
    BY <1>1, <1>3, <2>1, BeginsKept
<1> QED
  BY <1>4, <1>5, <1>6, <1>7, <1>8, <1>9

\* A call goes on to step, with its memory and its changes rewritten.
LEMMA GoesOnKept ==
    ASSUME IInv, NEW w \in Worker, NEW step \in Steps, NEW mine \in Memories, NEW changes,
           FitsColumns(changes), UNCHANGED <<row, raced, cuts, now>>,
           NEW call,
           call = [step |-> step, mine |-> mine, purgeAt |-> doing[w].purgeAt,
                   changes |-> changes, why |-> doing[w].why, late |-> doing[w].late],
           doing' = [doing EXCEPT ![w] = call],
           Knows(call), doing[w].step \notin {"flag", "undate"}
    PROVE  IInv' /\ RowStep
<1>1. IsCall(doing[w]) /\ cuts \in 0..MaxCuts
  BY DEF IInv, TypeOK
<1>2. /\ call.step = step /\ call.mine = mine /\ call.purgeAt = doing[w].purgeAt
      /\ call.changes = changes /\ call.why = doing[w].why /\ call.late = doing[w].late
  OBVIOUS
<1>3. IsCall(call)
  BY <1>1, <1>2 DEF IsCall
<1>4. IInv'
  BY <1>1, <1>3, CallGoesOn
<1> QED
  BY <1>4, QuietStep

\* What w knows before its step.
LEMMA KnownBefore ==
    ASSUME IInv, NEW w \in Worker
    PROVE  /\ Knows(doing[w])
           /\ doing[w] = [step |-> doing[w].step, mine |-> doing[w].mine,
                          purgeAt |-> doing[w].purgeAt, changes |-> doing[w].changes,
                          why |-> doing[w].why, late |-> doing[w].late]
           /\ doing[w].mine \in Memories /\ FitsColumns(doing[w].changes)
           /\ doing = [v \in Worker |-> doing[v]]
<1> QED
  BY DEF IInv, IsCall, Knows, LifecycleKnown, SettingsKnown

LEMMA FindDeletedKept ==
    ASSUME IInv, NEW w \in Worker, FindDeleted(w)
    PROVE  IInv' /\ RowStep
<1>1. doing[w].step = "due" /\ UNCHANGED <<row, raced, cuts, now>>
  BY DEF FindDeleted
<1>2. CASE Ends(w)
  BY <1>1, <1>2, EndsKept
<1>3. CASE doing' = [doing EXCEPT ![w].step = "erase"]
  <2>1. PICK mine, purgeAt, changes, why, late :
          /\ mine = doing[w].mine /\ purgeAt = doing[w].purgeAt
          /\ changes = doing[w].changes /\ why = doing[w].why /\ late = doing[w].late
    OBVIOUS
  <2>2. PICK call : call = [step |-> "erase", mine |-> mine, purgeAt |-> purgeAt,
                            changes |-> changes, why |-> why, late |-> late]
    OBVIOUS
  <2>3. doing' = [doing EXCEPT ![w] = call]
    <3>1. doing[w] = [step |-> "due", mine |-> mine, purgeAt |-> purgeAt,
                      changes |-> changes, why |-> why, late |-> late]
      BY <1>1, <2>1, KnownBefore
    <3>2. [doing[w] EXCEPT !.step = "erase"] = call
      BY <2>2, <3>1
    <3> QED
      BY <1>3, <3>2
  <2>4. Knows(call)
    <3>1. Knows(doing[w])
      BY KnownBefore
    <3> QED
      BY <1>1, <2>1, <2>2, <3>1 DEF Knows, DeletionKnown, DomainKnown
  <2>5. mine \in Memories /\ FitsColumns(changes) /\ "erase" \in Steps
    BY <2>1, KnownBefore DEF Steps
  <2>6. call = [step |-> "erase", mine |-> mine, purgeAt |-> doing[w].purgeAt,
                changes |-> changes, why |-> doing[w].why, late |-> doing[w].late]
    BY <2>1, <2>2
  <2>7. doing[w].step \notin {"flag", "undate"}
    BY <1>1
  <2> QED
    BY <1>1, <2>3, <2>4, <2>5, <2>6, <2>7, GoesOnKept
<1> QED
  BY <1>2, <1>3 DEF FindDeleted

LEMMA PassedKept ==
    ASSUME IInv, NEW w \in Worker, Passed(w)
    PROVE  IInv' /\ RowStep
<1>1. doing[w].step = "dns" /\ UNCHANGED <<row, raced, cuts, now>>
  BY DEF Passed
<1>2. CASE Ends(w)
  BY <1>1, <1>2, EndsKept
<1>3. CASE doing' = [doing EXCEPT ![w].step = "load", ![w].mine.verified = TRUE,
                                  ![w].mine.failures = 0]
  <2>1. PICK mine, purgeAt, changes, why, late :
          /\ mine = doing[w].mine /\ purgeAt = doing[w].purgeAt
          /\ changes = doing[w].changes /\ why = doing[w].why /\ late = doing[w].late
    OBVIOUS
  <2>2. /\ doing[w] = [step |-> "dns", mine |-> mine, purgeAt |-> purgeAt,
                       changes |-> changes, why |-> why, late |-> late]
        /\ mine \in Memories /\ FitsColumns(changes) /\ Knows(doing[w])
        /\ doing = [v \in Worker |-> doing[v]]
    BY <1>1, <2>1, KnownBefore
  <2>3. PICK m1, m2 : m1 = [mine EXCEPT !.verified = TRUE] /\ m2 = [m1 EXCEPT !.failures = 0]
    OBVIOUS
  <2>4. m2 \in Memories /\ m2.domain = mine.domain
    <3>1. m1 \in Memories /\ m1.domain = mine.domain
      BY <2>2, <2>3 DEF Memories
    <3>2. 0 \in 0..Distrust
      BY BoundTypes
    <3> QED
      BY <2>3, <3>1, <3>2 DEF Memories
  <2>5. PICK c1, c2, call :
          /\ c1 = [step |-> "load", mine |-> mine, purgeAt |-> purgeAt,
                   changes |-> changes, why |-> why, late |-> late]
          /\ c2 = [step |-> "load", mine |-> m1, purgeAt |-> purgeAt,
                   changes |-> changes, why |-> why, late |-> late]
          /\ call = [step |-> "load", mine |-> m2, purgeAt |-> purgeAt,
                     changes |-> changes, why |-> why, late |-> late]
    OBVIOUS
  <2>6. PICK d1, d2, d3 :
          /\ d1 = [doing EXCEPT ![w].step = "load"]
          /\ d2 = [d1 EXCEPT ![w].mine.verified = TRUE]
          /\ d3 = [d2 EXCEPT ![w].mine.failures = 0]
    OBVIOUS
  <2>7. doing' = d3
    BY <1>3, <2>6
  <2>8. d1 = [doing EXCEPT ![w] = c1]
    <3>1. [doing[w] EXCEPT !.step = "load"] = c1
      BY <2>2, <2>5
    <3> QED
      BY <2>6, <3>1
  <2>9. d1[w] = c1 /\ d1 = [v \in Worker |-> d1[v]]
    BY <2>2, <2>8
  <2>10. d2 = [d1 EXCEPT ![w].mine = m1]
    <3>1. d1[w].mine = mine
      BY <2>5, <2>9
    <3>2. [d1[w].mine EXCEPT !.verified = TRUE] = m1
      BY <2>3, <3>1
    <3> QED
      BY <2>6, <3>2
  <2>11. d2 = [d1 EXCEPT ![w] = c2]
    <3>1. [d1[w] EXCEPT !.mine = m1] = c2
      BY <2>5, <2>9
    <3> QED
      BY <2>10, <3>1
  <2>12. d2[w] = c2 /\ d2 = [v \in Worker |-> d2[v]]
    BY <2>9, <2>11
  <2>13. d3 = [d2 EXCEPT ![w].mine = m2]
    <3>1. d2[w].mine = m1
      BY <2>5, <2>12
    <3>2. [d2[w].mine EXCEPT !.failures = 0] = m2
      BY <2>3, <3>1
    <3> QED
      BY <2>6, <3>2
  <2>14. d3 = [d2 EXCEPT ![w] = call]
    <3>1. [d2[w] EXCEPT !.mine = m2] = call
      BY <2>5, <2>12
    <3> QED
      BY <2>13, <3>1
  <2>15. doing' = [doing EXCEPT ![w] = call]
    BY <2>2, <2>7, <2>8, <2>11, <2>14
  <2>16. Knows(call)
    BY <1>1, <2>1, <2>2, <2>4, <2>5 DEF Knows, DeletionKnown, DomainKnown
  <2>17. doing[w].step \notin {"flag", "undate"} /\ "load" \in Steps
    BY <1>1 DEF Steps
  <2>18. call = [step |-> "load", mine |-> m2, purgeAt |-> doing[w].purgeAt,
                 changes |-> changes, why |-> doing[w].why, late |-> doing[w].late]
    BY <2>1, <2>5
  <2> QED
    BY <1>1, <2>2, <2>4, <2>15, <2>16, <2>17, <2>18, GoesOnKept
<1> QED
  BY <1>2, <1>3 DEF Passed

LEMMA FailedKept ==
    ASSUME IInv, NEW w \in Worker, Failed(w)
    PROVE  IInv' /\ RowStep
<1>1. doing[w].step = "dns" /\ UNCHANGED <<row, raced, cuts, now>>
  BY DEF Failed
<1>2. CASE Ends(w)
  BY <1>1, <1>2, EndsKept
<1>3. CASE doing' = [doing EXCEPT ![w].step = "load",
                       ![w].mine.failures = IF @ < Distrust THEN @ + 1 ELSE @]
  <2>1. PICK mine, purgeAt, changes, why, late :
          /\ mine = doing[w].mine /\ purgeAt = doing[w].purgeAt
          /\ changes = doing[w].changes /\ why = doing[w].why /\ late = doing[w].late
    OBVIOUS
  <2>2. /\ doing[w] = [step |-> "dns", mine |-> mine, purgeAt |-> purgeAt,
                       changes |-> changes, why |-> why, late |-> late]
        /\ mine \in Memories /\ FitsColumns(changes) /\ Knows(doing[w])
        /\ doing = [v \in Worker |-> doing[v]]
    BY <1>1, <2>1, KnownBefore
  <2>3. PICK failures, m1 :
          /\ failures = IF mine.failures < Distrust THEN mine.failures + 1 ELSE mine.failures
          /\ m1 = [mine EXCEPT !.failures = failures]
    OBVIOUS
  <2>4. /\ m1 \in Memories /\ m1.domain = mine.domain /\ m1.verified = mine.verified
    <3>1. failures \in 0..Distrust
      BY <2>2, <2>3, BoundTypes, MemoryFields
    <3> QED
      BY <2>2, <2>3, <3>1 DEF Memories
  <2>5. PICK c1, call :
          /\ c1 = [step |-> "load", mine |-> mine, purgeAt |-> purgeAt,
                   changes |-> changes, why |-> why, late |-> late]
          /\ call = [step |-> "load", mine |-> m1, purgeAt |-> purgeAt,
                     changes |-> changes, why |-> why, late |-> late]
    OBVIOUS
  <2>6. PICK d1, d2 :
          /\ d1 = [doing EXCEPT ![w].step = "load"]
          /\ d2 = [d1 EXCEPT ![w].mine.failures = IF @ < Distrust THEN @ + 1 ELSE @]
    OBVIOUS
  <2>7. doing' = d2
    BY <1>3, <2>6
  <2>8. d1 = [doing EXCEPT ![w] = c1]
    <3>1. [doing[w] EXCEPT !.step = "load"] = c1
      BY <2>2, <2>5
    <3> QED
      BY <2>6, <3>1
  <2>9. d1[w] = c1 /\ d1 = [v \in Worker |-> d1[v]]
    BY <2>2, <2>8
  <2>10. d2 = [d1 EXCEPT ![w].mine = m1]
    <3>1. d1[w].mine = mine
      BY <2>5, <2>9
    <3>2. [d1[w].mine EXCEPT !.failures = IF @ < Distrust THEN @ + 1 ELSE @] = m1
      BY <2>3, <3>1
    <3> QED
      BY <2>6, <3>2
  <2>11. d2 = [d1 EXCEPT ![w] = call]
    <3>1. [d1[w] EXCEPT !.mine = m1] = call
      BY <2>5, <2>9
    <3> QED
      BY <2>10, <3>1
  <2>12. doing' = [doing EXCEPT ![w] = call]
    BY <2>2, <2>7, <2>8, <2>11
  <2>13. Knows(call)
    BY <1>1, <2>1, <2>2, <2>4, <2>5 DEF Knows, DeletionKnown, DomainKnown
  <2>14. doing[w].step \notin {"flag", "undate"} /\ "load" \in Steps
    BY <1>1 DEF Steps
  <2>15. call = [step |-> "load", mine |-> m1, purgeAt |-> doing[w].purgeAt,
                 changes |-> changes, why |-> doing[w].why, late |-> doing[w].late]
    BY <2>1, <2>5
  <2> QED
    BY <1>1, <2>2, <2>4, <2>12, <2>13, <2>14, <2>15, GoesOnKept
<1> QED
  BY <1>2, <1>3 DEF Failed

\* save() compares, and goes on to the UPDATE of what differs; the domain will be the
\* one in memory, and verified only if it is now or by what this call found.
LEMMA LoadKept ==
    ASSUME IInv, NEW w \in Worker, Load(w)
    PROVE  IInv' /\ RowStep
<1>1. doing[w].step = "load" /\ UNCHANGED <<row, raced, cuts, now>>
  BY DEF Load
<1>2. PICK mine, purgeAt, old, why, late :
        /\ mine = doing[w].mine /\ purgeAt = doing[w].purgeAt
        /\ old = doing[w].changes /\ why = doing[w].why /\ late = doing[w].late
  OBVIOUS
<1>3. /\ doing[w] = [step |-> "load", mine |-> mine, purgeAt |-> purgeAt,
                     changes |-> old, why |-> why, late |-> late]
      /\ mine \in Memories /\ FitsColumns(old) /\ Knows(doing[w])
      /\ doing = [v \in Worker |-> doing[v]]
  BY <1>1, <1>2, KnownBefore
<1>4. PICK differing, changes :
        /\ differing = {c \in Columns : mine[c] # row[c]}
        /\ changes = [c \in differing |-> mine[c]]
  OBVIOUS
<1>5. DOMAIN changes = differing /\ differing \subseteq Columns
      /\ \A c \in differing : changes[c] = mine[c]
  BY <1>4
<1>6. /\ mine.domain \in Domains0 /\ mine.verified \in BOOLEAN
      /\ mine.token \in BOOLEAN /\ mine.failures \in 0..Distrust
  BY <1>3, MemoryFields
<1>7. /\ row.there => Ends(w) \/ doing' = [doing EXCEPT
             ![w].step = "update", ![w].changes = changes,
             ![w].mine = [Blank EXCEPT !.domain = mine.domain]]
      /\ ~row.there => doing' = [doing EXCEPT ![w].step = "insert"]
  <2> DEFINE found == {c \in Columns : doing[w].mine[c] # row[c]}
             set == [c \in found |-> doing[w].mine[c]]
  <2>1. /\ row.there => Ends(w) \/ doing' = [doing EXCEPT
               ![w].step = "update", ![w].changes = set,
               ![w].mine = [Blank EXCEPT !.domain = doing[w].mine.domain]]
        /\ ~row.there => doing' = [doing EXCEPT ![w].step = "insert"]
    BY Zenon DEF Load
  <2>2. found = differing
    BY <1>2, <1>4
  <2>3. set = changes
    BY <1>2, <1>4, <2>2
  <2> HIDE DEF set
  <2> QED
    BY <1>2, <2>1, <2>3
<1>8. CASE Ends(w)
  BY <1>1, <1>8, EndsKept
<1>9. CASE row.there /\ doing' = [doing EXCEPT
             ![w].step = "update", ![w].changes = changes,
             ![w].mine = [Blank EXCEPT !.domain = mine.domain]]
  <2>1. FitsColumns(changes)
    BY <1>5, <1>6 DEF FitsColumns
  <2>2. PICK m : m = [Blank EXCEPT !.domain = mine.domain]
    OBVIOUS
  <2>3. m \in Memories /\ m.domain = mine.domain
    BY <1>6, <2>2, FirstRows DEF Memories, Domains0
  <2>4. PICK c1, c2, call :
          /\ c1 = [step |-> "update", mine |-> mine, purgeAt |-> purgeAt,
                   changes |-> old, why |-> why, late |-> late]
          /\ c2 = [step |-> "update", mine |-> mine, purgeAt |-> purgeAt,
                   changes |-> changes, why |-> why, late |-> late]
          /\ call = [step |-> "update", mine |-> m, purgeAt |-> purgeAt,
                     changes |-> changes, why |-> why, late |-> late]
    OBVIOUS
  <2>5. PICK d1, d2, d3 :
          /\ d1 = [doing EXCEPT ![w].step = "update"]
          /\ d2 = [d1 EXCEPT ![w].changes = changes]
          /\ d3 = [d2 EXCEPT ![w].mine = m]
    OBVIOUS
  <2>6. doing' = d3
    BY <1>9, <2>2, <2>5
  <2>7. d1 = [doing EXCEPT ![w] = c1]
    <3>1. [doing[w] EXCEPT !.step = "update"] = c1
      BY <1>3, <2>4
    <3> QED
      BY <2>5, <3>1
  <2>8. d1[w] = c1 /\ d1 = [v \in Worker |-> d1[v]]
    BY <1>3, <2>7
  <2>9. d2 = [d1 EXCEPT ![w] = c2]
    <3>1. [d1[w] EXCEPT !.changes = changes] = c2
      BY <2>4, <2>8
    <3> QED
      BY <2>5, <3>1
  <2>10. d2[w] = c2 /\ d2 = [v \in Worker |-> d2[v]]
    BY <2>8, <2>9
  <2>11. d3 = [d2 EXCEPT ![w] = call]
    <3>1. [d2[w] EXCEPT !.mine = m] = call
      BY <2>4, <2>10
    <3> QED
      BY <2>5, <3>1
  <2>12. doing' = [doing EXCEPT ![w] = call]
    BY <1>3, <2>6, <2>7, <2>9, <2>11
  <2>13. /\ call.step = "update" /\ call.mine = m /\ call.changes = changes
         /\ call.why = why /\ call.late = late
    BY <2>4
  <2>14. Set(call, "domain") = m.domain
    BY <1>4, <1>5, <2>3, <2>13 DEF Set, Columns
  <2>15. Set(call, "verified") = mine.verified
    BY <1>4, <1>5, <2>13 DEF Set, Columns
  <2>16. Knows(call)
    <3>1. DeletionKnown(call)
      BY <2>13 DEF DeletionKnown
    <3>2. ASSUME "settings" \notin raced, "settings" \notin call.late
          PROVE  DomainKnown(call)
      <4>1. why # "proof" =>
              (mine.verified => row.verified /\ mine.domain = row.domain)
        BY <1>1, <1>2, <1>3, <2>13, <3>2 DEF Knows, DomainKnown
      <4> QED
        BY <1>9, <2>3, <2>13, <2>14, <2>15, <4>1 DEF DomainKnown
    <3> QED
      BY <3>1, <3>2 DEF Knows
  <2>17. doing[w].step \notin {"flag", "undate"} /\ "update" \in Steps
    BY <1>1 DEF Steps
  <2>18. call = [step |-> "update", mine |-> m, purgeAt |-> doing[w].purgeAt,
                 changes |-> changes, why |-> doing[w].why, late |-> doing[w].late]
    BY <1>2, <2>4
  <2> QED
    BY <1>1, <2>1, <2>3, <2>12, <2>16, <2>17, <2>18, GoesOnKept
<1>10. CASE ~row.there /\ doing' = [doing EXCEPT ![w].step = "insert"]
  <2>1. PICK call : call = [step |-> "insert", mine |-> mine, purgeAt |-> purgeAt,
                            changes |-> old, why |-> why, late |-> late]
    OBVIOUS
  <2>2. doing' = [doing EXCEPT ![w] = call]
    <3>1. [doing[w] EXCEPT !.step = "insert"] = call
      BY <1>3, <2>1
    <3> QED
      BY <1>10, <3>1
  <2>3. Knows(call)
    BY <1>1, <1>2, <1>3, <1>10, <2>1 DEF Knows, DeletionKnown, DomainKnown
  <2>4. doing[w].step \notin {"flag", "undate"} /\ "insert" \in Steps
    BY <1>1 DEF Steps
  <2>5. call = [step |-> "insert", mine |-> mine, purgeAt |-> doing[w].purgeAt,
                changes |-> old, why |-> doing[w].why, late |-> doing[w].late]
    BY <1>2, <2>1
  <2> QED
    BY <1>1, <1>3, <2>2, <2>3, <2>4, <2>5, GoesOnKept
<1>11. row.there \in BOOLEAN
  BY RowFields DEF IInv, TypeOK
<1> QED
  BY <1>7, <1>8, <1>9, <1>10, <1>11

LEMMA TickKept ==
    ASSUME IInv, Tick
    PROVE  IInv' /\ RowStep
<1>1. now' = now + 1 /\ now < MaxTime /\ UNCHANGED <<row, doing, raced, cuts>>
  BY DEF Tick
<1>2. TypeOK'
  BY <1>1, BoundTypes DEF IInv, TypeOK
<1>3. doing' = [w \in Worker |-> doing'[w]] /\ \A w \in Worker : IsCall(doing[w])'
  BY <1>1 DEF IInv, IsCall, FitsColumns
<1>4. LifecycleKnown'
  BY <1>1 DEF IInv, TypeOK, Rows, LifecycleKnown, DeletionKnown, Dated, Undated, HalfWay, Live,
         Deleted
<1>5. SettingsKnown'
  BY <1>1 DEF IInv, SettingsKnown, DomainKnown, Set
<1>6. IInv'
  BY <1>2, <1>3, <1>4, <1>5 DEF IInv
<1> QED
  BY <1>1, <1>6, QuietStep

LEMMA StutterKept ==
    ASSUME IInv, UNCHANGED vars
    PROVE  IInv' /\ RowStep
<1>1. UNCHANGED <<row, doing, raced, cuts, now>>
  BY DEF vars
<1>2. TypeOK'
  BY <1>1 DEF IInv, TypeOK
<1>3. doing' = [w \in Worker |-> doing'[w]] /\ \A w \in Worker : IsCall(doing[w])'
  BY <1>1 DEF IInv, IsCall, FitsColumns
<1>4. LifecycleKnown'
  BY <1>1 DEF IInv, LifecycleKnown, DeletionKnown, Dated, Undated, HalfWay, Live,
         Deleted
<1>5. SettingsKnown'
  BY <1>1 DEF IInv, SettingsKnown, DomainKnown, Set
<1>6. IInv'
  BY <1>2, <1>3, <1>4, <1>5 DEF IInv
<1> QED
  BY <1>1, <1>6, QuietStep

------------------------------------------------------------------------------
(***************************************************************************)
(* Together.                                                               *)
(***************************************************************************)
LEMMA IInvAtFirst == Init => IInv
<1> SUFFICES ASSUME Init PROVE IInv
  OBVIOUS
<1>1. /\ row = NewRow /\ doing = [w \in Worker |-> Idle] /\ raced = {} /\ cuts = 0
      /\ now = 1
  BY DEF Init
<1>2. \A w \in Worker : doing[w] = Idle
  BY <1>1
<1>3. \A w \in Worker : IsCall(doing[w]) /\ DeletionKnown(doing[w]) /\ DomainKnown(doing[w])
  BY <1>2, IdleIsCall
<1>4. doing = [w \in Worker |-> doing[w]]
  BY <1>1
<1>5. now \in 1..MaxTime /\ row \in Rows /\ raced \subseteq Kinds /\ cuts \in 0..MaxCuts
  BY <1>1, BoundTypes, FirstRows
<1>6. TypeOK
  BY <1>3, <1>5 DEF TypeOK, IsCall, FitsColumns
<1>7. row.deleted = FALSE /\ row.purgeAt = 0
  BY <1>1, FirstRows
<1>8. Dated /\ Undated
  BY <1>7 DEF Dated, Undated
<1> QED
  BY <1>3, <1>4, <1>6, <1>8 DEF IInv, LifecycleKnown, SettingsKnown

LEMMA StepKeeps == IInv /\ [Next]_vars => IInv' /\ RowStep
<1> SUFFICES ASSUME IInv, [Next]_vars PROVE IInv' /\ RowStep
  OBVIOUS
<1>1. ASSUME NEW w \in Worker, Call(w) PROVE IInv' /\ RowStep
  <2>1. CASE ReadToDelete(w)
    BY <2>1, ReadToDeleteKept
  <2>2. CASE ReadToRestore(w) \/ PurgeNow(w)
    BY <2>2, LifecycleBegins
  <2>3. CASE \/ \E d \in Domains0 : SetCustomDomain(w, d) \/ SetTrusted(w, d)
             \/ UpdateSettings(w) \/ VerifyCustomDomain(w) \/ ConfirmCustomDomain(w)
    BY <2>3, SettingsBegin
  <2> QED
    BY <1>1, <2>1, <2>2, <2>3 DEF Call, Domains0
<1>2. ASSUME NEW w \in Worker, DailyRun(w) PROVE IInv' /\ RowStep
  <2>1. CASE FindDueForReminder(w) \/ FindDueForPurge(w)
    BY <2>1, LifecycleBegins
  <2>2. CASE ListToRecheck(w)
    BY <2>2, SettingsBegin
  <2> QED
    BY <1>2, <2>1, <2>2 DEF DailyRun
<1>3. ASSUME NEW w \in Worker, Continue(w) PROVE IInv' /\ RowStep
  <2>1. CASE DateDeletion(w)
    BY <2>1, DateKept
  <2>2. CASE FlagDeletion(w)
    BY <2>2, FlagKept
  <2>3. CASE UnflagDeletion(w)
    BY <2>3, UnflagKept
  <2>4. CASE UndateDeletion(w)
    BY <2>4, UndateKept
  <2>5. CASE Remind(w)
    BY <2>5, RemindKept
  <2>6. CASE FindDeleted(w)
    BY <2>6, FindDeletedKept
  <2>7. CASE Erase(w)
    BY <2>7, EraseKept
  <2>8. CASE Passed(w)
    BY <2>8, PassedKept
  <2>9. CASE Failed(w)
    BY <2>9, FailedKept
  <2>10. CASE Load(w)
    BY <2>10, LoadKept
  <2>11. CASE Update(w)
    BY <2>11, UpdateKept
  <2>12. CASE Insert(w)
    BY <2>12, InsertKept
  <2> QED
    BY <1>3, <2>1, <2>2, <2>3, <2>4, <2>5, <2>6, <2>7, <2>8, <2>9, <2>10, <2>11, <2>12
    DEF Continue
<1>4. ASSUME NEW w \in Worker, CutOff(w) PROVE IInv' /\ RowStep
  BY <1>4, CutOffKept
<1>5. CASE Tick
  BY <1>5, TickKept
<1>6. CASE UNCHANGED vars
  BY <1>6, StutterKept
<1> QED
  BY <1>1, <1>2, <1>3, <1>4, <1>5, <1>6 DEF Next

\* The inductive invariant: what each call that nobody has overtaken knows of the row.
THEOREM WorkspaceInvariant == Spec => []IInv
<1> QED
  BY IInvAtFirst, StepKeeps, PTL DEF Spec

\* Rows, calls and clock keep their types, whatever is read and written when.
THEOREM WorkspaceRowTypeCorrect == Spec => []TypeOK
<1>1. IInv => TypeOK
  BY DEF IInv
<1> QED
  BY <1>1, WorkspaceInvariant, PTL

\* A deleted workspace has a date of its purge at every moment, between the two UPDATEs
\* of a deletion and of a restoration and after a call that was cut off between them;
\* and a live one has none between calls as long as none was cut off; however many
\* deletions, restorations, reminders, purges and saves of the settings meet, unless a
\* write of the lifecycle came after another since its read.
THEOREM DeletedIsDated == Spec => []DeletedIsDatedInIsolation
<1>1. IInv => DeletedIsDatedInIsolation
  BY DEF IInv, LifecycleKnown, Dated, Undated, HalfWay, DeletedIsDatedInIsolation, OutOf
<1> QED
  BY <1>1, WorkspaceInvariant, PTL

\* A workspace is erased while it is deleted, and by the daily run when its date has
\* come, unless a write of the lifecycle came after another since its read.
THEOREM ErasedAsPromised == Spec => ErasedAsPromisedInIsolation
<1>1. IInv /\ [Next]_vars =>
        [(row.there /\ ~row'.there /\ "lifecycle" \notin raced') =>
           /\ row.deleted
           /\ \A w \in Worker :
                (doing[w].step = "erase" /\ doing'[w] = Idle) => row.purgeAt <= now]_vars
  BY StepKeeps DEF RowStep
<1> QED
  BY <1>1, WorkspaceInvariant, PTL DEF Spec, ErasedAsPromisedInIsolation

\* A domain becomes verified by a call that checked this very domain, or by a system
\* admin, unless a save came after another since its read: neither the daily check, nor
\* "check now", nor a form of the settings hands a verification on.
THEOREM VerifiedWasProven == Spec => VerifiedWasProvenInIsolation
<1>1. IInv /\ [Next]_vars =>
        [("settings" \notin raced' /\ row'.verified
          /\ (~row.verified \/ row'.domain # row.domain)) =>
           \E w \in Worker :
             doing[w].why = "proof" /\ doing[w].mine.domain = row'.domain]_vars
  BY StepKeeps DEF RowStep
<1> QED
  BY <1>1, WorkspaceInvariant, PTL DEF Spec, VerifiedWasProvenInIsolation

==============================================================================
