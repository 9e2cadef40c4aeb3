--------------------------- MODULE InvitationsProofs ---------------------------
(***************************************************************************)
(* Proofs about Invitations, for any number of invitations, calls at once  *)
(* and restarts: what a call knows when it writes, and from it that an     *)
(* accepted invitation has let its person in, that links keep their        *)
(* deadlines, and what holds as long as no call writes after others wrote. *)
(***************************************************************************)
EXTENDS Invitations, FiniteSetTheorems, TLAPS

(***************************************************************************)
(* The invariant.                                                          *)
(***************************************************************************)
Linked(row) == row.status # "none" => row.expiresAt = row.token + TTL

Has(call, c) == c \in DOMAIN call.changes

\* What a call knows of its row, whatever others wrote since: an acceptance follows
\* the membership, and a link is saved with its deadline or not at all.
CallKnown(call) ==
    /\ call.step \in {"join", "save", "write"} =>
         call.id \in Invitation /\ invitations[call.id].status # "none"
    /\ call.step \in {"join", "save"} => call.mine.status # "none" /\ Linked(call.mine)
    /\ call.step = "save" /\ call.mine.status = "accepted" => member
    /\ call.step = "write" =>
         /\ Has(call, "status") => call.changes["status"] # "none"
         /\ Has(call, "status") /\ call.changes["status"] = "accepted" => member
         /\ Has(call, "token") <=> Has(call, "expiresAt")
         /\ Has(call, "token") => call.changes["expiresAt"] = call.changes["token"] + TTL

AtMostOne == \A i, j \in Pending : i = j

\* What a call knows as long as nobody else wrote: its row is pending; it answers,
\* marks or resends it; and who is about to insert knows of no other.
FreshKnown(call) ==
    /\ call.step \in {"join", "save", "write"} =>
         /\ invitations[call.id].status = "pending"
         /\ call.after = "insert" => Pending = {call.id} /\ invitations[call.new] = NoRow
         /\ call.after = "tell" => ~invitations[call.id].expiryNotified
    /\ call.step = "join" =>
         call.after = "idle"
         /\ (call.mine.expiryNotified <=> invitations[call.id].expiryNotified)
    /\ call.step = "save" =>
         /\ call.after = "insert" => call.mine.status = "cancelled"
         /\ call.mine.expiryNotified <=>
              call.after = "tell" \/ invitations[call.id].expiryNotified
    /\ call.step = "write" =>
         /\ Has(call, "status") => call.changes["status"] \in Answers
         /\ call.after = "insert" => Has(call, "status")
         /\ Has(call, "expiryNotified") <=> call.after = "tell"
         /\ Has(call, "expiryNotified") => call.changes["expiryNotified"] = TRUE
    /\ call.step = "insert" => Pending = {} /\ invitations[call.new] = NoRow

Telling(i) == {w \in Worker : doing[w].step = "tell" /\ doing[w].id = i}

\* Whom the inviter was told of, or is about to be told of, is marked.
ToldKnown ==
    /\ \A i \in Invitation :
         /\ notices[i] <= 1
         /\ notices[i] = 1 => invitations[i].expiryNotified /\ Telling(i) = {}
         /\ \A v, w \in Telling(i) : v = w
         /\ Telling(i) # {} => invitations[i].expiryNotified
    /\ \A w \in Worker : doing[w].step = "tell" => doing[w].id \in Invitation

IInv ==
    /\ TypeOK
    /\ AcceptedMeansMember
    /\ \A i \in Invitation : Linked(invitations[i])
    /\ \A w \in Worker : CallKnown(doing[w])
    /\ ~overlapped =>
         /\ AtMostOne
         /\ ToldKnown
         /\ \A w \in Worker : ~doing[w].stale => FreshKnown(doing[w])

------------------------------------------------------------------------------
(***************************************************************************)
(* Rows, and what save() makes of them.                                    *)
(***************************************************************************)
Statuses == {"none", "pending"} \union Answers

LEMMA BoundTypes ==
    /\ MaxInvitations \in Nat /\ TTL \in Nat /\ MaxTime \in Nat \ {0}
    /\ NoInvitation \notin Invitation
    /\ GivenAnswers \subseteq {"rejected", "cancelled"}
<1> QED
  BY InvitationsAssumption DEF Invitation

LEMMA RowFields ==
    ASSUME NEW row \in RowType
    PROVE  /\ row.status \in Statuses /\ row.token \in 0..MaxTime
           /\ row.expiresAt \in 0..(MaxTime + TTL) /\ row.expiryNotified \in BOOLEAN
<1> QED
  BY DEF RowType, Statuses

LEMMA NoRowType ==
    /\ NoRow \in RowType /\ NoRow.status = "none" /\ ~NoRow.expiryNotified
    /\ Columns = {"status", "token", "expiresAt", "expiryNotified"}
    /\ Merged(NoRow, NoChanges) \in RowType
<1>1. /\ NoRow \in RowType /\ NoRow.status = "none" /\ ~NoRow.expiryNotified
      /\ Columns = {"status", "token", "expiresAt", "expiryNotified"}
  BY BoundTypes DEF NoRow, RowType, Columns
<1>2. Merged(NoRow, NoChanges) = NoRow
  BY <1>1 DEF Merged, NoChanges, NoRow
<1> QED
  BY <1>1, <1>2

\* The UPDATE sets the columns that changed.
LEMMA MergedIs ==
    ASSUME NEW row \in RowType, NEW changes, Merged(NoRow, changes) \in RowType
    PROVE  LET m == Merged(row, changes)
           IN  /\ m \in RowType
               /\ m.status = IF "status" \in DOMAIN changes
                             THEN changes["status"] ELSE row.status
               /\ m.token = IF "token" \in DOMAIN changes
                            THEN changes["token"] ELSE row.token
               /\ m.expiresAt = IF "expiresAt" \in DOMAIN changes
                                THEN changes["expiresAt"] ELSE row.expiresAt
               /\ m.expiryNotified = IF "expiryNotified" \in DOMAIN changes
                                     THEN changes["expiryNotified"] ELSE row.expiryNotified
<1> DEFINE n == Merged(NoRow, changes)
<1> DEFINE m == Merged(row, changes)
<1>1. /\ n.status = IF "status" \in DOMAIN changes THEN changes["status"] ELSE NoRow.status
      /\ n.token = IF "token" \in DOMAIN changes THEN changes["token"] ELSE NoRow.token
      /\ n.expiresAt = IF "expiresAt" \in DOMAIN changes
                       THEN changes["expiresAt"] ELSE NoRow.expiresAt
      /\ n.expiryNotified = IF "expiryNotified" \in DOMAIN changes
                            THEN changes["expiryNotified"] ELSE NoRow.expiryNotified
  BY NoRowType DEF Merged
<1>2. /\ m.status = IF "status" \in DOMAIN changes THEN changes["status"] ELSE row.status
      /\ m.token = IF "token" \in DOMAIN changes THEN changes["token"] ELSE row.token
      /\ m.expiresAt = IF "expiresAt" \in DOMAIN changes
                       THEN changes["expiresAt"] ELSE row.expiresAt
      /\ m.expiryNotified = IF "expiryNotified" \in DOMAIN changes
                            THEN changes["expiryNotified"] ELSE row.expiryNotified
  BY NoRowType DEF Merged
<1>3. m = [status |-> m.status, token |-> m.token, expiresAt |-> m.expiresAt,
           expiryNotified |-> m.expiryNotified]
  BY NoRowType DEF Merged
<1>4. /\ n.status \in Statuses /\ n.token \in 0..MaxTime
      /\ n.expiresAt \in 0..(MaxTime + TTL) /\ n.expiryNotified \in BOOLEAN
  BY RowFields
<1>5. /\ m.status \in Statuses /\ m.token \in 0..MaxTime
      /\ m.expiresAt \in 0..(MaxTime + TTL) /\ m.expiryNotified \in BOOLEAN
  BY <1>1, <1>2, <1>4, RowFields
<1>6. m \in RowType
  BY <1>3, <1>5 DEF RowType, Statuses
<1> QED
  BY <1>2, <1>6

\* The columns to be set are those that differ from the stored row.
LEMMA DifferingIs ==
    ASSUME NEW mine \in RowType, NEW row \in RowType
    PROVE  LET d == Differing(mine, row)
           IN  /\ Merged(NoRow, d) \in RowType
               /\ \A c \in {"status", "token", "expiresAt", "expiryNotified"} :
                    /\ c \in DOMAIN d <=> mine[c] # row[c]
                    /\ c \in DOMAIN d => d[c] = mine[c]
<1> DEFINE d == Differing(mine, row)
<1>1. \A c \in {"status", "token", "expiresAt", "expiryNotified"} :
        /\ c \in DOMAIN d <=> mine[c] # row[c]
        /\ c \in DOMAIN d => d[c] = mine[c]
  BY NoRowType DEF Differing
<1> DEFINE m == Merged(NoRow, d)
<1>2. m = [status |-> m.status, token |-> m.token, expiresAt |-> m.expiresAt,
           expiryNotified |-> m.expiryNotified]
  BY NoRowType DEF Merged
<1>3. \A c \in {"status", "token", "expiresAt", "expiryNotified"} :
        m[c] \in {mine[c], NoRow[c]}
  BY <1>1, NoRowType DEF Merged
<1>4. /\ m.status \in Statuses /\ m.token \in 0..MaxTime
      /\ m.expiresAt \in 0..(MaxTime + TTL) /\ m.expiryNotified \in BOOLEAN
  BY <1>3, RowFields, NoRowType
<1>5. m \in RowType
  BY <1>2, <1>4 DEF RowType, Statuses
<1> QED
  BY <1>1, <1>5

------------------------------------------------------------------------------
(***************************************************************************)
(* What one step does to the invariant: it writes a row, or it does not.   *)
(***************************************************************************)
Alike(v) ==
    /\ doing'[v].step = doing[v].step /\ doing'[v].id = doing[v].id
    /\ doing'[v].mine = doing[v].mine /\ doing'[v].changes = doing[v].changes
    /\ doing'[v].after = doing[v].after /\ doing'[v].new = doing[v].new

Others(w) == \A v \in Worker \ {w} : doing'[v] = doing[v]

LEMMA IdleIsCall == IsCall(Idle) /\ Idle.step = "idle" /\ ~Idle.stale
<1> QED
  BY NoRowType DEF Idle, IsCall

LEMMA OneCall ==
    ASSUME TypeOK, NEW w \in Worker, NEW call, IsCall(call),
           doing' = [doing EXCEPT ![w] = call]
    PROVE  /\ doing' = [v \in Worker |-> doing'[v]]
           /\ \A v \in Worker : IsCall(doing'[v])
           /\ doing'[w] = call /\ Others(w)
<1> QED
  BY DEF TypeOK, Others

\* Who was told stays who was told when no notice begins or ends.
LEMMA ToldStays ==
    ASSUME ToldKnown, NEW w \in Worker, \A v \in Worker \ {w} : Alike(v),
           doing[w].step # "tell", doing'[w].step # "tell",
           \A i \in Invitation :
             invitations[i].expiryNotified => invitations'[i].expiryNotified,
           UNCHANGED notices
    PROVE  ToldKnown'
<1>1. \A v \in Worker : doing'[v].step = "tell" <=> doing[v].step = "tell"
  BY DEF Alike
<1>2. \A v \in Worker : doing'[v].step = "tell" => doing'[v].id = doing[v].id
  BY <1>1 DEF Alike
<1>3. \A i : Telling(i)' = Telling(i)
  BY <1>1, <1>2 DEF Telling
<1> QED
  BY <1>1, <1>2, <1>3 DEF ToldKnown

\* A step that writes no row
LEMMA QuietKept ==
    ASSUME IInv, TypeOK', NEW w \in Worker, Others(w),
           UNCHANGED <<invitations, overlapped>>, member => member',
           CallKnown(doing[w])',
           ~overlapped => ToldKnown' /\ (~doing'[w].stale => FreshKnown(doing[w])')
    PROVE  IInv'
<1>1. ASSUME NEW v \in Worker, v # w
      PROVE  CallKnown(doing[v])' /\ (FreshKnown(doing[v]) => FreshKnown(doing[v])')
  <2>1. doing'[v] = doing[v] /\ CallKnown(doing[v])
    BY <1>1 DEF Others, IInv
  <2> QED
    BY <2>1 DEF CallKnown, FreshKnown, Pending
<1>2. \A v \in Worker : CallKnown(doing[v])'
  BY <1>1
<1>3. AcceptedMeansMember' /\ \A i \in Invitation : Linked(invitations[i])'
  BY DEF IInv, AcceptedMeansMember, Linked
<1>4. ~overlapped' => AtMostOne' /\ ToldKnown'
  BY DEF IInv, AtMostOne, Pending
<1>5. ~overlapped' => \A v \in Worker : ~doing'[v].stale => FreshKnown(doing[v])'
  BY <1>1 DEF IInv, Others
<1> QED
  BY <1>2, <1>3, <1>4, <1>5 DEF IInv

\* A step that writes row i: the other calls are stale from now on, or nothing changed.
LEMMA WrittenKept ==
    ASSUME IInv, TypeOK', NEW w \in Worker, NEW i, NEW row,
           invitations' = [invitations EXCEPT ![i] = row], UNCHANGED member,
           row.status # "none", Linked(row), row.status = "accepted" => member,
           \A v \in Worker \ {w} :
             /\ Alike(v)
             /\ ~overlapped' /\ ~doing'[v].stale =>
                  ~doing[v].stale /\ (doing[v] = Idle \/ invitations' = invitations),
           overlapped => overlapped', CallKnown(doing[w])',
           ~overlapped' => AtMostOne' /\ ToldKnown' /\ FreshKnown(doing[w])'
    PROVE  IInv'
<1>1. \A j \in Invitation :
        invitations'[j] = invitations[j] \/ (j = i /\ invitations'[j] = row)
  BY DEF IInv, TypeOK
<1>2. AcceptedMeansMember' /\ \A j \in Invitation : Linked(invitations[j])'
  BY <1>1 DEF IInv, AcceptedMeansMember, Linked
<1>3. ASSUME NEW v \in Worker, v # w
      PROVE  /\ CallKnown(doing[v])'
             /\ ~overlapped' /\ ~doing'[v].stale => FreshKnown(doing[v])'
  <2>1. Alike(v) /\ CallKnown(doing[v])
    BY <1>3 DEF IInv
  <2>2. CallKnown(doing[v])'
    BY <1>1, <2>1 DEF CallKnown, Alike, Has
  <2>3. ASSUME ~overlapped', ~doing'[v].stale PROVE FreshKnown(doing[v])'
    <3>1. CASE doing[v] = Idle
      <4>1. doing'[v].step = "idle"
        BY <2>1, <3>1, IdleIsCall DEF Alike
      <4> QED
        BY <4>1 DEF FreshKnown
    <3>2. CASE invitations' = invitations /\ ~doing[v].stale
      <4>1. FreshKnown(doing[v])
        BY <2>3, <3>2 DEF IInv
      <4> QED
        BY <2>1, <3>2, <4>1 DEF FreshKnown, Alike, Has, Pending
    <3> QED
      BY <1>3, <2>3, <3>1, <3>2
  <2> QED
    BY <2>2, <2>3
<1>4. \A v \in Worker : CallKnown(doing[v])'
  BY <1>3
<1>5. ~overlapped' => \A v \in Worker : ~doing'[v].stale => FreshKnown(doing[v])'
  BY <1>3
<1> QED
  BY <1>2, <1>4, <1>5 DEF IInv

------------------------------------------------------------------------------
(***************************************************************************)
(* Calls begin.                                                            *)
(***************************************************************************)
LEMMA BegunIs ==
    ASSUME TypeOK, NEW w \in Worker, NEW step \in {"insert", "join", "save"},
           NEW i \in Invitation \union {NoInvitation}, NEW row \in RowType,
           NEW after \in {"idle", "insert", "tell"},
           NEW new \in Invitation \union {NoInvitation},
           Begins(w, step, i, row, after, new)
    PROVE  /\ TypeOK' /\ Others(w) /\ doing[w].step = "idle"
           /\ doing'[w].step = step /\ doing'[w].id = i /\ doing'[w].mine = row
           /\ doing'[w].after = after /\ doing'[w].new = new /\ ~doing'[w].stale
           /\ UNCHANGED <<invitations, member, notices, overlapped, now>>
<1> DEFINE call == [step |-> step, id |-> i, mine |-> row, changes |-> NoChanges,
                    after |-> after, new |-> new, stale |-> FALSE]
<1>1. IsCall(call)
  BY NoRowType DEF IsCall
<1>2. doing' = [doing EXCEPT ![w] = call]
  BY DEF Begins
<1>3. /\ doing' = [v \in Worker |-> doing'[v]] /\ \A v \in Worker : IsCall(doing'[v])
      /\ doing'[w] = call /\ Others(w)
  BY <1>1, <1>2, OneCall
<1>4. doing[w].step = "idle" /\ UNCHANGED <<invitations, member, notices, overlapped, now>>
  BY IdleIsCall DEF Begins
<1> QED
  BY <1>3, <1>4 DEF TypeOK

\* A call that has read a pending invitation and decided to change it knows its row.
LEMMA BegunKept ==
    ASSUME IInv, NEW w \in Worker, NEW step \in {"join", "save"}, NEW i \in Pending,
           NEW row \in RowType, NEW after \in {"idle", "insert", "tell"},
           NEW new \in Invitation \union {NoInvitation},
           Begins(w, step, i, row, after, new),
           row.status # "none", Linked(row),
           step = "save" => row.status # "accepted", step = "join" => after = "idle",
           after = "insert" => row.status = "cancelled" /\ invitations[new] = NoRow,
           after = "tell" => ~invitations[i].expiryNotified,
           row.expiryNotified <=> after = "tell" \/ invitations[i].expiryNotified
    PROVE  IInv'
<1>1. TypeOK /\ i \in Invitation /\ invitations[i].status = "pending"
  BY DEF IInv, Pending
<1>2. /\ TypeOK' /\ Others(w) /\ doing[w].step = "idle"
      /\ doing'[w].step = step /\ doing'[w].id = i /\ doing'[w].mine = row
      /\ doing'[w].after = after /\ doing'[w].new = new /\ ~doing'[w].stale
      /\ UNCHANGED <<invitations, member, notices, overlapped, now>>
  BY <1>1, BegunIs
<1>3. CallKnown(doing[w])'
  BY <1>1, <1>2 DEF CallKnown, Linked
<1>4. ASSUME ~overlapped PROVE ToldKnown' /\ FreshKnown(doing[w])'
  <2>1. ToldKnown /\ AtMostOne
    BY <1>4 DEF IInv
  <2>2. \A v \in Worker \ {w} : Alike(v)
    BY <1>2 DEF Others, Alike
  <2>3. ToldKnown'
    BY <1>2, <2>1, <2>2, ToldStays
  <2>4. Pending = {i} /\ Pending' = Pending
    BY <1>2, <2>1 DEF AtMostOne, Pending
  <2>5. FreshKnown(doing[w])'
    BY <1>1, <1>2, <2>4 DEF FreshKnown
  <2> QED
    BY <2>3, <2>5
<1> QED
  BY <1>2, <1>3, <1>4, QuietKept

\* The row that is read, with another status, link or mark
LEMMA ReadRow ==
    ASSUME IInv, NEW i \in Pending
    PROVE  /\ invitations[i] \in RowType /\ i \in Invitation
           /\ Linked(invitations[i]) /\ invitations[i].status = "pending"
           /\ \A status \in Statuses \ {"none"} :
                LET row == [invitations[i] EXCEPT !.status = status]
                IN  /\ row \in RowType /\ row.status = status /\ Linked(row)
                    /\ row.expiryNotified = invitations[i].expiryNotified
<1>1. /\ invitations[i] \in RowType /\ i \in Invitation
      /\ Linked(invitations[i]) /\ invitations[i].status = "pending"
  BY DEF IInv, TypeOK, Pending
<1>2. ASSUME NEW status \in Statuses \ {"none"}
      PROVE  LET row == [invitations[i] EXCEPT !.status = status]
             IN  /\ row \in RowType /\ row.status = status /\ Linked(row)
                 /\ row.expiryNotified = invitations[i].expiryNotified
  BY <1>1 DEF Linked, RowType, Statuses
<1> QED
  BY <1>1, <1>2

LEMMA CreateKept ==
    ASSUME IInv, NEW w \in Worker, NEW i \in Invitation, ReadToCreate(w, i)
    PROVE  IInv'
<1>1. TypeOK /\ invitations[i] = NoRow
  BY DEF IInv, ReadToCreate, IsNext, Taken
<1>2. CASE Pending = {} /\ Begins(w, "insert", NoInvitation, NoRow, "idle", i)
  <2>1. /\ TypeOK' /\ Others(w) /\ doing[w].step = "idle"
        /\ doing'[w].step = "insert" /\ doing'[w].new = i
        /\ UNCHANGED <<invitations, member, notices, overlapped, now>>
    BY <1>1, <1>2, BegunIs, NoRowType
  <2>2. CallKnown(doing[w])' /\ FreshKnown(doing[w])'
    BY <1>1, <1>2, <2>1 DEF CallKnown, FreshKnown, Pending
  <2>3. \A v \in Worker \ {w} : Alike(v)
    BY <2>1 DEF Others, Alike
  <2>4. ~overlapped => ToldKnown'
    BY <2>1, <2>3, ToldStays DEF IInv
  <2> QED
    BY <2>1, <2>2, <2>4, QuietKept
<1>3. ASSUME NEW j \in Pending,
             Begins(w, "save", j, [invitations[j] EXCEPT !.status = "cancelled"], "insert", i)
      PROVE  IInv'
  <2> DEFINE row == [invitations[j] EXCEPT !.status = "cancelled"]
  <2>1. /\ row \in RowType /\ row.status = "cancelled" /\ Linked(row)
        /\ row.expiryNotified = invitations[j].expiryNotified
    BY ReadRow DEF Statuses, Answers
  <2>2. Begins(w, "save", j, row, "insert", i)
    BY <1>3
  <2> HIDE DEF row
  <2> QED
    BY <1>1, <2>1, <2>2, BegunKept
<1> QED
  BY <1>2, <1>3 DEF ReadToCreate

LEMMA AcceptKept ==
    ASSUME IInv, NEW w \in Worker, NEW i \in Invitation, ReadToAccept(w, i)
    PROVE  IInv'
<1>1. i \in Pending
  BY DEF ReadToAccept
<1> DEFINE row(status) == [invitations[i] EXCEPT !.status = status]
<1>2. ASSUME NEW status \in {"cancelled", "accepted"}
      PROVE  /\ row(status) \in RowType /\ row(status).status = status
             /\ Linked(row(status))
             /\ row(status).expiryNotified = invitations[i].expiryNotified
  BY <1>1, <1>2, ReadRow DEF Statuses, Answers
<1>3. \/ Begins(w, "save", i, row("cancelled"), "idle", NoInvitation)
      \/ Begins(w, "join", i, row("accepted"), "idle", NoInvitation)
  BY DEF ReadToAccept
<1> HIDE DEF row
<1>4. CASE Begins(w, "save", i, row("cancelled"), "idle", NoInvitation)
  BY <1>1, <1>2, <1>4, BegunKept
<1>5. CASE Begins(w, "join", i, row("accepted"), "idle", NoInvitation)
  BY <1>1, <1>2, <1>5, BegunKept
<1> QED
  BY <1>3, <1>4, <1>5

LEMMA AnswerKept ==
    ASSUME IInv, NEW w \in Worker, NEW i \in Invitation, NEW answer \in GivenAnswers,
           ReadToAnswer(w, i, answer)
    PROVE  IInv'
<1>1. i \in Pending /\ answer \in Statuses \ {"none"} /\ answer # "accepted"
  BY BoundTypes DEF ReadToAnswer, Statuses, Answers
<1> DEFINE row == [invitations[i] EXCEPT !.status = answer]
<1>2. /\ row \in RowType /\ row.status = answer /\ Linked(row)
      /\ row.expiryNotified = invitations[i].expiryNotified
  BY <1>1, ReadRow
<1>3. Begins(w, "save", i, row, "idle", NoInvitation)
  BY DEF ReadToAnswer
<1> HIDE DEF row
<1> QED
  BY <1>1, <1>2, <1>3, BegunKept

LEMMA ResendKept ==
    ASSUME IInv, NEW w \in Worker, NEW i \in Invitation, ReadToResend(w, i)
    PROVE  IInv'
<1> DEFINE row == [invitations[i] EXCEPT !.token = now, !.expiresAt = now + TTL]
<1>1. /\ i \in Pending /\ Begins(w, "save", i, row, "idle", NoInvitation)
      /\ now \in 0..MaxTime /\ now + TTL \in 0..(MaxTime + TTL)
  BY BoundTypes DEF ReadToResend, IInv, TypeOK
<1>2. /\ invitations[i] \in RowType /\ invitations[i].status = "pending"
  BY <1>1, ReadRow
<1>3. /\ row \in RowType /\ row.status = "pending" /\ Linked(row)
      /\ row.expiryNotified = invitations[i].expiryNotified
  BY <1>1, <1>2 DEF RowType, Linked
<1> HIDE DEF row
<1> QED
  BY <1>1, <1>3, BegunKept

LEMMA FindKept ==
    ASSUME IInv, NEW w \in Worker, NEW i \in Invitation, FindExpired(w, i)
    PROVE  IInv'
<1> DEFINE row == [invitations[i] EXCEPT !.expiryNotified = TRUE]
<1>1. /\ i \in Pending /\ Begins(w, "save", i, row, "tell", NoInvitation)
      /\ ~invitations[i].expiryNotified
  BY DEF FindExpired
<1>2. /\ invitations[i] \in RowType /\ invitations[i].status = "pending"
      /\ Linked(invitations[i])
  BY <1>1, ReadRow
<1>3. /\ row \in RowType /\ row.status = "pending" /\ Linked(row) /\ row.expiryNotified
  BY <1>2 DEF RowType, Linked
<1> HIDE DEF row
<1> QED
  BY <1>1, <1>3, BegunKept

------------------------------------------------------------------------------
(***************************************************************************)
(* Calls go on.                                                            *)
(***************************************************************************)
LEMMA LoadKept ==
    ASSUME IInv, NEW w \in Worker, Load(w)
    PROVE  IInv'
<1> DEFINE mine == doing[w].mine
           row == invitations[doing[w].id]
           changes == Differing(mine, row)
<1>1. /\ TypeOK /\ CallKnown(doing[w]) /\ IsCall(doing[w]) /\ doing[w].step = "save"
      /\ mine \in RowType /\ mine.status # "none" /\ Linked(mine)
      /\ mine.status = "accepted" => member
  BY DEF IInv, TypeOK, Load, CallKnown, IsCall
<1>2. /\ doing[w].id \in Invitation /\ row \in RowType /\ row.status # "none" /\ Linked(row)
  BY <1>1 DEF CallKnown, IInv, TypeOK
<1>3. /\ Merged(NoRow, changes) \in RowType
      /\ \A c \in {"status", "token", "expiresAt", "expiryNotified"} :
           /\ c \in DOMAIN changes <=> mine[c] # row[c]
           /\ c \in DOMAIN changes => changes[c] = mine[c]
  BY <1>1, <1>2, DifferingIs
<1>4. doing' = [doing EXCEPT ![w] = [doing[w] EXCEPT !.step = "write", !.mine = NoRow,
                                                   !.changes = changes]]
  BY DEF Load
<1>5. UNCHANGED <<invitations, member, notices, overlapped, now>>
  BY DEF Load
<1>6. member \in BOOLEAN /\ mine.token \in Int /\ row.token \in Int /\ TTL \in Int
  BY <1>1, <1>2, RowFields, BoundTypes DEF TypeOK
<1> HIDE DEF mine, row, changes
<1>7. /\ TypeOK' /\ Others(w)
      /\ doing'[w].step = "write" /\ doing'[w].id = doing[w].id
      /\ doing'[w].changes = changes
      /\ doing'[w].after = doing[w].after /\ doing'[w].new = doing[w].new
      /\ doing'[w].stale = doing[w].stale
  <2> DEFINE c1 == [step |-> "write", id |-> doing[w].id, mine |-> doing[w].mine,
                    changes |-> doing[w].changes, after |-> doing[w].after,
                    new |-> doing[w].new, stale |-> doing[w].stale]
             c2 == [step |-> "write", id |-> doing[w].id, mine |-> NoRow,
                    changes |-> doing[w].changes, after |-> doing[w].after,
                    new |-> doing[w].new, stale |-> doing[w].stale]
             c3 == [step |-> "write", id |-> doing[w].id, mine |-> NoRow,
                    changes |-> changes, after |-> doing[w].after,
                    new |-> doing[w].new, stale |-> doing[w].stale]
  <2>1. doing' = [doing EXCEPT ![w] = c3]
    <3>1. [doing[w] EXCEPT !.step = "write"] = c1
      BY <1>1 DEF IsCall
    <3>2. [c1 EXCEPT !.mine = NoRow] = c2
      OBVIOUS
    <3>3. [c2 EXCEPT !.changes = changes] = c3
      OBVIOUS
    <3> QED
      BY <1>4, <3>1, <3>2, <3>3
  <2>2. IsCall(c3)
    BY <1>1, <1>3, NoRowType DEF IsCall
  <2>3. /\ c3.step = "write" /\ c3.id = doing[w].id /\ c3.changes = changes
        /\ c3.after = doing[w].after /\ c3.new = doing[w].new /\ c3.stale = doing[w].stale
    OBVIOUS
  <2> HIDE DEF c3
  <2>4. /\ doing' = [v \in Worker |-> doing'[v]] /\ \A v \in Worker : IsCall(doing'[v])
        /\ doing'[w] = c3 /\ Others(w)
    BY <1>1, <2>1, <2>2, OneCall
  <2> QED
    BY <1>1, <1>5, <2>3, <2>4 DEF TypeOK
<1>8. CallKnown(doing[w])'
  <2>1. "token" \in DOMAIN changes <=> "expiresAt" \in DOMAIN changes
    <3>1. /\ "token" \in DOMAIN changes <=> mine.token # row.token
          /\ "expiresAt" \in DOMAIN changes <=> mine.expiresAt # row.expiresAt
      BY <1>3
    <3>2. mine.expiresAt = mine.token + TTL /\ row.expiresAt = row.token + TTL
      BY <1>1, <1>2 DEF Linked
    <3> QED
      BY <1>6, <3>1, <3>2
  <2>2. "token" \in DOMAIN changes => changes["expiresAt"] = changes["token"] + TTL
    BY <1>1, <1>3, <2>1 DEF Linked
  <2> QED
    BY <1>1, <1>2, <1>3, <1>5, <1>7, <2>1, <2>2 DEF CallKnown, Has
<1>9. ASSUME ~overlapped
      PROVE  ToldKnown' /\ (~doing'[w].stale => FreshKnown(doing[w])')
  <2>1. ToldKnown'
    <3>1. ToldKnown /\ \A v \in Worker \ {w} : Alike(v)
      BY <1>7, <1>9 DEF IInv, Others, Alike
    <3> QED
      BY <1>1, <1>5, <1>7, <3>1, ToldStays
  <2>2. ASSUME ~doing'[w].stale PROVE FreshKnown(doing[w])'
    <3>1. FreshKnown(doing[w])
      BY <1>7, <1>9, <2>2 DEF IInv
    <3>2. /\ row.status = "pending"
          /\ mine.expiryNotified <=> doing[w].after = "tell" \/ row.expiryNotified
          /\ doing[w].after = "tell" => ~row.expiryNotified
          /\ doing[w].after = "insert" => mine.status = "cancelled"
          /\ mine.expiryNotified \in BOOLEAN /\ row.expiryNotified \in BOOLEAN
          /\ mine.status \in Statuses
      BY <1>1, <1>2, <3>1, RowFields DEF FreshKnown, mine, row
    <3>3. /\ "status" \in DOMAIN changes => changes["status"] \in Answers
          /\ doing[w].after = "insert" => "status" \in DOMAIN changes
      BY <1>1, <1>3, <3>2 DEF Statuses
    <3>4. /\ "expiryNotified" \in DOMAIN changes <=> doing[w].after = "tell"
          /\ "expiryNotified" \in DOMAIN changes => changes["expiryNotified"] = TRUE
      BY <1>3, <3>2
    <3>5. /\ invitations'[doing'[w].id].status = "pending" /\ Pending' = Pending
          /\ doing'[w].after = "insert" =>
               Pending' = {doing'[w].id} /\ invitations'[doing'[w].new] = NoRow
          /\ doing'[w].after = "tell" => ~invitations'[doing'[w].id].expiryNotified
      BY <1>1, <1>5, <1>7, <3>1 DEF FreshKnown, Pending
    <3> QED
      BY <1>7, <3>3, <3>4, <3>5 DEF FreshKnown, Has
  <2> QED
    BY <2>1, <2>2
<1> QED
  BY <1>5, <1>7, <1>8, <1>9, QuietKept

LEMMA JoinKept ==
    ASSUME IInv, NEW w \in Worker, Join(w)
    PROVE  IInv'
<1>1. /\ TypeOK /\ CallKnown(doing[w]) /\ IsCall(doing[w]) /\ doing[w].step = "join"
      /\ member' = TRUE /\ UNCHANGED <<invitations, notices, overlapped, now>>
  BY DEF IInv, TypeOK, Join
<1>2. CASE doing' = [doing EXCEPT ![w] = Idle]
  <2>1. /\ doing' = [v \in Worker |-> doing'[v]] /\ \A v \in Worker : IsCall(doing'[v])
        /\ doing'[w].step = "idle" /\ Others(w)
    BY <1>1, <1>2, OneCall, IdleIsCall
  <2>2. TypeOK' /\ \A v \in Worker \ {w} : Alike(v)
    BY <1>1, <2>1 DEF TypeOK, Others, Alike
  <2>3. ~overlapped => ToldKnown'
    BY <1>1, <2>1, <2>2, ToldStays DEF IInv
  <2>4. CallKnown(doing[w])' /\ FreshKnown(doing[w])'
    BY <2>1 DEF CallKnown, FreshKnown
  <2> QED
    BY <1>1, <2>1, <2>2, <2>3, <2>4, QuietKept
<1>3. CASE doing' = [doing EXCEPT ![w].step = "save"]
  <2> DEFINE c1 == [step |-> "save", id |-> doing[w].id, mine |-> doing[w].mine,
                    changes |-> doing[w].changes, after |-> doing[w].after,
                    new |-> doing[w].new, stale |-> doing[w].stale]
  <2>1. [doing[w] EXCEPT !.step = "save"] = c1
    BY <1>1 DEF IsCall
  <2>2. doing' = [doing EXCEPT ![w] = c1]
    BY <1>3, <2>1
  <2>3. IsCall(c1)
    BY <1>1 DEF IsCall
  <2>4. /\ c1.step = "save" /\ c1.id = doing[w].id /\ c1.mine = doing[w].mine
        /\ c1.after = doing[w].after /\ c1.new = doing[w].new /\ c1.stale = doing[w].stale
    OBVIOUS
  <2> HIDE DEF c1
  <2>5. /\ doing' = [v \in Worker |-> doing'[v]] /\ \A v \in Worker : IsCall(doing'[v])
        /\ doing'[w] = c1 /\ Others(w)
    BY <1>1, <2>2, <2>3, OneCall
  <2>6. TypeOK' /\ \A v \in Worker \ {w} : Alike(v)
    BY <1>1, <2>5 DEF TypeOK, Others, Alike
  <2>7. CallKnown(doing[w])'
    BY <1>1, <2>4, <2>5 DEF CallKnown
  <2>8. ~overlapped => ToldKnown'
    BY <1>1, <2>4, <2>5, <2>6, ToldStays DEF IInv
  <2>9. ~overlapped /\ ~doing'[w].stale => FreshKnown(doing[w])'
    <3> SUFFICES ASSUME ~overlapped, ~doing'[w].stale PROVE FreshKnown(doing[w])'
      OBVIOUS
    <3>1. FreshKnown(doing[w])
      BY <2>4, <2>5 DEF IInv
    <3> QED
      BY <1>1, <2>4, <2>5, <3>1 DEF FreshKnown, Pending
  <2> QED
    BY <1>1, <2>5, <2>6, <2>7, <2>8, <2>9, QuietKept
<1> QED
  BY <1>2, <1>3 DEF Join

\* The inviter is told of an invitation that is marked, for the first time.
LEMMA TellKept ==
    ASSUME IInv, NEW w \in Worker, Tell(w)
    PROVE  IInv'
<1> DEFINE i == doing[w].id
<1>1. /\ TypeOK /\ doing[w].step = "tell" /\ UNCHANGED <<invitations, member, overlapped, now>>
      /\ notices' = [notices EXCEPT ![i] = IF @ < 2 THEN @ + 1 ELSE 2]
      /\ doing' = [doing EXCEPT ![w] = Idle]
  BY DEF IInv, Tell
<1>2. /\ doing' = [v \in Worker |-> doing'[v]] /\ \A v \in Worker : IsCall(doing'[v])
      /\ doing'[w].step = "idle" /\ Others(w)
  BY <1>1, OneCall, IdleIsCall
<1>3. notices' \in [Invitation -> 0..2]
  <2>1. notices \in [Invitation -> 0..2]
    BY <1>1 DEF TypeOK
  <2>2. CASE i \in Invitation
    BY <1>1, <2>1, <2>2
  <2>3. CASE i \notin Invitation
    BY <1>1, <2>1, <2>3
  <2> QED
    BY <2>2, <2>3
<1>4. TypeOK'
  BY <1>1, <1>2, <1>3 DEF TypeOK
<1>5. CallKnown(doing[w])' /\ FreshKnown(doing[w])'
  BY <1>2 DEF CallKnown, FreshKnown
<1>6. ASSUME ~overlapped PROVE ToldKnown'
  <2>1. PICK k \in Invitation : k = i
    BY <1>1, <1>6 DEF IInv, ToldKnown
  <2>2. ToldKnown /\ w \in Telling(k)
    BY <1>1, <1>6, <2>1 DEF IInv, Telling
  <2>3. /\ notices[k] = 0 /\ invitations[k].expiryNotified
        /\ \A v \in Telling(k) : v = w
    BY <1>1, <2>2 DEF ToldKnown, TypeOK
  <2>4. /\ Telling(k)' = {}
        /\ \A j \in Invitation : j # k => Telling(j)' = Telling(j)
    BY <1>1, <1>2, <2>1, <2>3 DEF Telling, Others
  <2>5. notices'[k] = 1 /\ \A j \in Invitation : j # k => notices'[j] = notices[j]
    BY <1>1, <2>1, <2>3 DEF TypeOK
  <2>6. \A v \in Worker : doing'[v].step = "tell" => doing'[v].id \in Invitation
    BY <1>2, <2>2 DEF Others, ToldKnown
  <2>7. ASSUME NEW j \in Invitation
        PROVE  /\ notices'[j] <= 1
               /\ notices'[j] = 1 => invitations'[j].expiryNotified /\ Telling(j)' = {}
               /\ \A u, v \in Telling(j)' : u = v
               /\ Telling(j)' # {} => invitations'[j].expiryNotified
    <3>1. CASE j = k
      BY <1>1, <2>3, <2>4, <2>5, <3>1
    <3>2. CASE j # k
      BY <1>1, <2>2, <2>4, <2>5, <3>2 DEF ToldKnown
    <3> QED
      BY <3>1, <3>2
  <2> QED
    BY <2>6, <2>7 DEF ToldKnown
<1> QED
  BY <1>1, <1>2, <1>4, <1>5, <1>6, QuietKept

------------------------------------------------------------------------------
(***************************************************************************)
(* Rows are written.                                                       *)
(***************************************************************************)
LEMMA WritesIs ==
    ASSUME TypeOK, NEW w \in Worker, NEW i, NEW row \in RowType,
           NEW call, IsCall(call), Writes(w, i, row, call)
    PROVE  /\ TypeOK' /\ doing'[w] = call
           /\ invitations' = [invitations EXCEPT ![i] = row]
           /\ UNCHANGED <<member, notices, now>>
           /\ \A v \in Worker \ {w} :
                /\ Alike(v)
                /\ ~overlapped' /\ ~doing'[v].stale =>
                     ~doing[v].stale /\ (doing[v] = Idle \/ invitations' = invitations)
           /\ overlapped => overlapped'
           /\ ~overlapped' => ~overlapped /\ ~doing[w].stale
<1>1. /\ invitations' = [invitations EXCEPT ![i] = row]
      /\ overlapped' = (overlapped \/ doing[w].stale)
      /\ UNCHANGED <<member, notices, now>> /\ doing'[w] = call
  BY DEF Writes
<1>2. invitations' \in [Invitation -> RowType] /\ overlapped' \in BOOLEAN
  BY <1>1 DEF TypeOK
<1>3. ASSUME NEW v \in Worker, v # w
      PROVE  /\ Alike(v) /\ IsCall(doing'[v])
             /\ ~overlapped' /\ ~doing'[v].stale =>
                  ~doing[v].stale /\ (doing[v] = Idle \/ invitations' = invitations)
  <2> DEFINE stale == ~overlapped' /\ (doing[v].stale
                                       \/ (doing[v] # Idle /\ invitations' # invitations))
  <2>1. IsCall(doing[v]) /\ doing'[v] = [doing[v] EXCEPT !.stale = stale]
    BY <1>3 DEF Writes, TypeOK
  <2>2. stale \in BOOLEAN
    OBVIOUS
  <2>3. ~overlapped' /\ ~stale =>
          ~doing[v].stale /\ (doing[v] = Idle \/ invitations' = invitations)
    OBVIOUS
  <2> HIDE DEF stale
  <2>4. doing'[v] = [step |-> doing[v].step, id |-> doing[v].id, mine |-> doing[v].mine,
                     changes |-> doing[v].changes, after |-> doing[v].after,
                     new |-> doing[v].new, stale |-> stale]
    BY <2>1 DEF IsCall
  <2>5. IsCall(doing'[v]) /\ Alike(v) /\ doing'[v].stale = stale
    BY <2>1, <2>2, <2>4 DEF IsCall, Alike
  <2> QED
    BY <2>3, <2>5
<1>4. doing' = [v \in Worker |-> doing'[v]]
  BY DEF Writes
<1>5. TypeOK'
  BY <1>1, <1>2, <1>3, <1>4 DEF TypeOK
<1> QED
  BY <1>1, <1>3, <1>5

\* No answer is written over unless something else was.
AnswersStay ==
    \A j \in Invitation :
        \/ invitations'[j] = invitations[j]
        \/ ~overlapped' => invitations[j].status \notin Answers

LEMMA InsertKept ==
    ASSUME IInv, NEW w \in Worker, Insert(w)
    PROVE  IInv' /\ AnswersStay
<1> DEFINE i == doing[w].new
           row == [status |-> "pending", token |-> now, expiresAt |-> now + TTL,
                   expiryNotified |-> FALSE]
<1>1. /\ TypeOK /\ doing[w].step = "insert" /\ Writes(w, i, row, Idle)
      /\ now \in 0..MaxTime /\ now + TTL \in 0..(MaxTime + TTL)
  BY BoundTypes DEF IInv, Insert, TypeOK
<1>2. /\ row \in RowType /\ row.status = "pending" /\ Linked(row) /\ ~row.expiryNotified
  BY <1>1 DEF RowType, Linked
<1> HIDE DEF row
<1>3. /\ TypeOK' /\ doing'[w] = Idle
      /\ invitations' = [invitations EXCEPT ![i] = row]
      /\ UNCHANGED <<member, notices, now>>
      /\ \A v \in Worker \ {w} :
           /\ Alike(v)
           /\ ~overlapped' /\ ~doing'[v].stale =>
                ~doing[v].stale /\ (doing[v] = Idle \/ invitations' = invitations)
      /\ overlapped => overlapped'
      /\ ~overlapped' => ~overlapped /\ ~doing[w].stale
  BY <1>1, <1>2, WritesIs, IdleIsCall
<1>4. doing'[w].step = "idle" /\ CallKnown(doing[w])' /\ FreshKnown(doing[w])'
  BY <1>3, IdleIsCall DEF CallKnown, FreshKnown
<1>5. ASSUME ~overlapped' PROVE AtMostOne' /\ ToldKnown'
  <2>1. Pending = {} /\ invitations[i] = NoRow /\ ToldKnown
    BY <1>1, <1>3, <1>5 DEF IInv, FreshKnown
  <2>2. \A j \in Invitation : j # i => invitations'[j] = invitations[j]
    BY <1>1, <1>3 DEF TypeOK
  <2>3. AtMostOne'
    BY <2>1, <2>2 DEF AtMostOne, Pending
  <2>4. \A j \in Invitation :
          invitations[j].expiryNotified => invitations'[j].expiryNotified
    BY <2>1, <2>2, NoRowType
  <2>5. ToldKnown'
    BY <1>1, <1>3, <1>4, <2>1, <2>4, ToldStays
  <2> QED
    BY <2>3, <2>5
<1>6. IInv'
  BY <1>2, <1>3, <1>4, <1>5, WrittenKept
<1>7. AnswersStay
  <2>1. ~overlapped' => invitations[i] = NoRow
    BY <1>1, <1>3 DEF IInv, FreshKnown
  <2>2. \A j \in Invitation : j # i => invitations'[j] = invitations[j]
    BY <1>1, <1>3 DEF TypeOK
  <2> QED
    BY <2>1, <2>2, NoRowType DEF AnswersStay, Answers
<1> QED
  BY <1>6, <1>7

\* An UPDATE answers, links anew or marks a row; who is not stale finds it pending.
LEMMA WriteKept ==
    ASSUME IInv, NEW w \in Worker, Write(w)
    PROVE  IInv' /\ AnswersStay
<1> DEFINE call == doing[w]
           changes == call.changes
           row == Merged(invitations[call.id], changes)
           then == IF call.after = "idle" THEN Idle
                   ELSE [call EXCEPT !.step = call.after, !.changes = NoChanges]
<1>1. /\ TypeOK /\ CallKnown(call) /\ IsCall(call) /\ call.step = "write"
      /\ Writes(w, call.id, row, then)
  BY DEF IInv, TypeOK, Write
<1>2. PICK i \in Invitation : i = call.id /\ invitations[i].status # "none"
  BY <1>1 DEF CallKnown
<1>3. /\ invitations[i] \in RowType /\ Linked(invitations[i])
      /\ Merged(NoRow, changes) \in RowType
      /\ invitations[i].status = "accepted" => member
  BY <1>1 DEF IInv, TypeOK, IsCall, AcceptedMeansMember
<1>4. /\ row \in RowType
      /\ row.status = IF Has(call, "status") THEN changes["status"]
                      ELSE invitations[i].status
      /\ row.token = IF Has(call, "token") THEN changes["token"]
                     ELSE invitations[i].token
      /\ row.expiresAt = IF Has(call, "expiresAt") THEN changes["expiresAt"]
                         ELSE invitations[i].expiresAt
      /\ row.expiryNotified = IF Has(call, "expiryNotified") THEN changes["expiryNotified"]
                              ELSE invitations[i].expiryNotified
  BY <1>2, <1>3, MergedIs DEF Has
<1> HIDE DEF row
<1>5. /\ row.status # "none" /\ Linked(row) /\ (row.status = "accepted" => member)
  BY <1>1, <1>2, <1>3, <1>4 DEF CallKnown, Linked
<1>6. /\ IsCall(then)
      /\ then.step = IF call.after = "idle" THEN "idle" ELSE call.after
      /\ then.step # "idle" => then.id = call.id /\ then.new = call.new
  <2>1. CASE call.after = "idle"
    BY <2>1, IdleIsCall
  <2>2. CASE call.after # "idle"
    <3> DEFINE c1 == [step |-> call.after, id |-> call.id, mine |-> call.mine,
                      changes |-> call.changes, after |-> call.after,
                      new |-> call.new, stale |-> call.stale]
               c2 == [step |-> call.after, id |-> call.id, mine |-> call.mine,
                      changes |-> NoChanges, after |-> call.after,
                      new |-> call.new, stale |-> call.stale]
    <3>1. [call EXCEPT !.step = call.after] = c1
      BY <1>1 DEF IsCall
    <3>2. [c1 EXCEPT !.changes = NoChanges] = c2
      OBVIOUS
    <3>3. then = c2
      BY <2>2, <3>1, <3>2
    <3>4. IsCall(c2)
      BY <1>1, NoRowType DEF IsCall
    <3> QED
      BY <2>2, <3>3, <3>4
  <2> QED
    BY <2>1, <2>2
<1> HIDE DEF then
<1>7. Writes(w, i, row, then)
  BY <1>1, <1>2
<1>8. /\ TypeOK' /\ doing'[w] = then
      /\ invitations' = [invitations EXCEPT ![i] = row]
      /\ UNCHANGED <<member, notices, now>>
      /\ \A v \in Worker \ {w} :
           /\ Alike(v)
           /\ ~overlapped' /\ ~doing'[v].stale =>
                ~doing[v].stale /\ (doing[v] = Idle \/ invitations' = invitations)
      /\ overlapped => overlapped'
      /\ ~overlapped' => ~overlapped /\ ~doing[w].stale
  BY <1>1, <1>4, <1>6, <1>7, WritesIs
<1>9. then.step \in {"idle", "insert", "tell"}
  BY <1>1, <1>6 DEF IsCall
<1>10. CallKnown(doing[w])'
  BY <1>8, <1>9 DEF CallKnown
<1>11. /\ invitations'[i] = row
       /\ \A j \in Invitation : j # i => invitations'[j] = invitations[j]
  BY <1>1, <1>8 DEF TypeOK
<1>12. ~overlapped' => ~overlapped /\ FreshKnown(call)
  BY <1>8 DEF IInv
<1>13. ASSUME ~overlapped' PROVE AtMostOne' /\ ToldKnown' /\ FreshKnown(doing[w])'
  <2>1. ToldKnown /\ AtMostOne
    BY <1>12, <1>13 DEF IInv
  <2>2. /\ invitations[i].status = "pending"
        /\ Has(call, "status") => changes["status"] \in Answers
        /\ call.after = "insert" =>
             Pending = {i} /\ invitations[call.new] = NoRow /\ Has(call, "status")
        /\ call.after = "tell" => ~invitations[i].expiryNotified
        /\ Has(call, "expiryNotified") <=> call.after = "tell"
        /\ Has(call, "expiryNotified") => changes["expiryNotified"] = TRUE
    BY <1>1, <1>2, <1>12, <1>13 DEF FreshKnown
  <2>3. Pending' \subseteq Pending /\ (call.after = "insert" => Pending' = {})
    BY <1>4, <1>11, <2>2 DEF Pending, Answers
  <2>4. AtMostOne'
    BY <2>1, <2>3 DEF AtMostOne
  <2>5. FreshKnown(doing[w])'
    <3>1. CASE then.step = "insert"
      <4>1. call.after = "insert" /\ then.new = call.new
        BY <1>6, <3>1
      <4>2. invitations'[call.new] = NoRow
        <5>1. invitations[call.new] = NoRow /\ call.new # i
          BY <2>2, <4>1, NoRowType
        <5> QED
          BY <1>1, <1>8, <5>1 DEF TypeOK
      <4> QED
        BY <1>8, <2>3, <3>1, <4>1, <4>2 DEF FreshKnown
    <3>2. CASE then.step \in {"idle", "tell"}
      BY <1>8, <3>2 DEF FreshKnown
    <3> QED
      BY <1>9, <3>1, <3>2
  <2>6. row.expiryNotified <=> call.after = "tell" \/ invitations[i].expiryNotified
    BY <1>4, <2>2
  <2>7. \A j \in Invitation :
          invitations[j].expiryNotified => invitations'[j].expiryNotified
    BY <1>11, <2>6
  <2>8. ToldKnown'
    <3>1. CASE then.step # "tell"
      BY <1>1, <1>8, <2>1, <2>7, <3>1, ToldStays
    <3>2. CASE then.step = "tell"
      <4>1. call.after = "tell" /\ then.id = i
        BY <1>2, <1>6, <3>2
      <4>2. notices[i] = 0 /\ Telling(i) = {}
        BY <1>1, <2>1, <2>2, <4>1 DEF ToldKnown, TypeOK
      <4>3. Telling(i)' = {w}
        BY <1>8, <3>2, <4>1, <4>2 DEF Telling, Alike
      <4>4. \A j \in Invitation : j # i => Telling(j)' = Telling(j)
        BY <1>1, <1>8, <3>2, <4>1 DEF Telling, Alike
      <4>5. \A v \in Worker : doing'[v].step = "tell" => doing'[v].id \in Invitation
        BY <1>8, <2>1, <4>1 DEF Alike, ToldKnown
      <4>6. ASSUME NEW j \in Invitation
            PROVE  /\ notices'[j] <= 1
                   /\ notices'[j] = 1 => invitations'[j].expiryNotified /\ Telling(j)' = {}
                   /\ \A u, v \in Telling(j)' : u = v
                   /\ Telling(j)' # {} => invitations'[j].expiryNotified
        <5>1. CASE j = i
          BY <1>8, <1>11, <2>6, <4>1, <4>2, <4>3, <5>1
        <5>2. CASE j # i
          BY <1>8, <1>11, <2>1, <4>4, <5>2 DEF ToldKnown
        <5> QED
          BY <5>1, <5>2
      <4> QED
        BY <4>5, <4>6 DEF ToldKnown
    <3> QED
      BY <3>1, <3>2
  <2> QED
    BY <2>4, <2>5, <2>8
<1>14. IInv'
  BY <1>5, <1>8, <1>10, <1>13, WrittenKept
<1>15. ~overlapped' => invitations[i].status \notin Answers
  BY <1>1, <1>2, <1>12 DEF FreshKnown, Answers
<1>16. ASSUME NEW j \in Invitation
       PROVE  \/ invitations'[j] = invitations[j]
              \/ ~overlapped' => invitations[j].status \notin Answers
  <2>1. CASE j = i
    BY <1>15, <2>1
  <2>2. CASE j # i
    BY <1>11, <2>2
  <2> QED
    BY <2>1, <2>2
<1> QED
  BY <1>14, <1>16 DEF AnswersStay

------------------------------------------------------------------------------
(***************************************************************************)
(* The invariant holds at first and is kept by every step.                 *)
(***************************************************************************)
LEMMA IInvAtFirst ==
    ASSUME Init
    PROVE  IInv
<1>1. \A w \in Worker : doing[w] = Idle /\ doing[w].step = "idle"
  BY IdleIsCall DEF Init
<1>2. \A i \in Invitation : invitations[i] = NoRow /\ notices[i] = 0
  BY DEF Init
<1>3. TypeOK
  <2>1. doing = [w \in Worker |-> doing[w]] /\ \A w \in Worker : IsCall(doing[w])
    BY IdleIsCall DEF Init
  <2>2. 1 \in 1..MaxTime /\ 0 \in 0..2
    BY BoundTypes
  <2> QED
    BY <2>1, <2>2, NoRowType DEF Init, TypeOK
<1>4. AcceptedMeansMember /\ AtMostOne /\ \A i \in Invitation : Linked(invitations[i])
  BY <1>2, NoRowType DEF AcceptedMeansMember, AtMostOne, Pending, Linked
<1>5. \A w \in Worker : CallKnown(doing[w]) /\ FreshKnown(doing[w])
  BY <1>1 DEF CallKnown, FreshKnown
<1>6. ToldKnown
  BY <1>1, <1>2 DEF ToldKnown, Telling
<1> QED
  BY <1>3, <1>4, <1>5, <1>6 DEF IInv

\* A restart forgets the calls, and a notice that was about to be given.
LEMMA CrashKept ==
    ASSUME IInv, Crash
    PROVE  IInv'
<1>1. /\ \A w \in Worker : doing'[w] = Idle /\ doing'[w].step = "idle"
      /\ UNCHANGED <<invitations, member, notices, overlapped, now>>
  BY IdleIsCall DEF Crash
<1>2. TypeOK'
  <2>1. doing' = [w \in Worker |-> doing'[w]] /\ \A w \in Worker : IsCall(doing'[w])
    BY IdleIsCall DEF Crash
  <2> QED
    BY <1>1, <2>1 DEF IInv, TypeOK
<1>3. AcceptedMeansMember' /\ \A i \in Invitation : Linked(invitations[i])'
  BY <1>1 DEF IInv, AcceptedMeansMember, Linked
<1>4. \A w \in Worker : CallKnown(doing[w])' /\ FreshKnown(doing[w])'
  BY <1>1 DEF CallKnown, FreshKnown
<1>5. ~overlapped' => AtMostOne' /\ ToldKnown'
  BY <1>1 DEF IInv, AtMostOne, Pending, ToldKnown, Telling
<1> QED
  BY <1>2, <1>3, <1>4, <1>5 DEF IInv

LEMMA TickKept ==
    ASSUME IInv, Tick \/ UNCHANGED vars
    PROVE  IInv'
<1>1. UNCHANGED <<invitations, member, doing, notices, overlapped>>
  BY DEF Tick, vars
<1>2. now' \in 1..MaxTime
  BY BoundTypes DEF Tick, vars, IInv, TypeOK
<1>3. TypeOK'
  BY <1>1, <1>2 DEF IInv, TypeOK
<1>4. AcceptedMeansMember' /\ \A i \in Invitation : Linked(invitations[i])'
  BY <1>1 DEF IInv, AcceptedMeansMember, Linked
<1>5. \A w \in Worker :
        CallKnown(doing[w])' /\ (FreshKnown(doing[w]) => FreshKnown(doing[w])')
  BY <1>1 DEF IInv, CallKnown, FreshKnown, Pending
<1>6. ~overlapped' => AtMostOne' /\ ToldKnown'
  BY <1>1 DEF IInv, AtMostOne, Pending, ToldKnown, Telling
<1> QED
  BY <1>1, <1>3, <1>4, <1>5, <1>6 DEF IInv

\* Every step keeps the invariant and the answers.
LEMMA StepKeeps ==
    ASSUME IInv, [Next]_vars
    PROVE  IInv' /\ AnswersStay
<1>1. CASE Tick \/ UNCHANGED vars
  BY <1>1, TickKept DEF Tick, vars, AnswersStay
<1>2. CASE Crash
  BY <1>2, CrashKept DEF Crash, AnswersStay
<1>3. ASSUME NEW w \in Worker, NEW i \in Invitation, FindExpired(w, i)
      PROVE  IInv' /\ AnswersStay
  BY <1>3, FindKept DEF FindExpired, Begins, AnswersStay
<1>4. ASSUME NEW w \in Worker, Begin(w) PROVE IInv' /\ AnswersStay
  <2>1. PICK i \in Invitation :
          \/ ReadToCreate(w, i) \/ ReadToAccept(w, i) \/ ReadToResend(w, i)
          \/ \E answer \in GivenAnswers : ReadToAnswer(w, i, answer)
    BY <1>4 DEF Begin
  <2>2. CASE ReadToCreate(w, i)
    BY <2>2, CreateKept DEF ReadToCreate, Begins, AnswersStay
  <2>3. CASE ReadToAccept(w, i)
    BY <2>3, AcceptKept DEF ReadToAccept, Begins, AnswersStay
  <2>4. CASE ReadToResend(w, i)
    BY <2>4, ResendKept DEF ReadToResend, Begins, AnswersStay
  <2>5. ASSUME NEW answer \in GivenAnswers, ReadToAnswer(w, i, answer)
        PROVE  IInv' /\ AnswersStay
    BY <2>5, AnswerKept DEF ReadToAnswer, Begins, AnswersStay
  <2> QED
    BY <2>1, <2>2, <2>3, <2>4, <2>5
<1>5. ASSUME NEW w \in Worker, Finish(w) PROVE IInv' /\ AnswersStay
  <2>1. CASE Insert(w)
    BY <2>1, InsertKept
  <2>2. CASE Join(w)
    BY <2>2, JoinKept DEF Join, AnswersStay
  <2>3. CASE Tell(w)
    BY <2>3, TellKept DEF Tell, AnswersStay
  <2>4. CASE Load(w)
    BY <2>4, LoadKept DEF Load, AnswersStay
  <2>5. CASE Write(w)
    BY <2>5, WriteKept
  <2> QED
    BY <1>5, <2>1, <2>2, <2>3, <2>4, <2>5 DEF Finish
<1> QED
  BY <1>1, <1>2, <1>3, <1>4, <1>5 DEF Next, Notify

------------------------------------------------------------------------------
\* The inductive invariant holds in every state.
THEOREM InvitationsInvariant == Spec => []IInv
<1> QED
  BY IInvAtFirst, StepKeeps, PTL DEF Spec

\* Rows and calls in flight keep their types.
THEOREM InvitationTypeCorrect == Spec => []TypeOK
<1>1. IInv => TypeOK
  BY DEF IInv
<1> QED
  BY <1>1, InvitationsInvariant, PTL

\* An accepted invitation has let its person in, wherever the process stops: what
\* AcceptInvitation is about to save follows the membership it has inserted.
THEOREM AcceptanceLetsIn == Spec => []AcceptedMeansMember
<1>1. IInv => AcceptedMeansMember
  BY DEF IInv
<1> QED
  BY <1>1, InvitationsInvariant, PTL

\* No link outlives the deadline of its own issue: a save of an older read sets the
\* link and the deadline together or neither.
THEOREM LinksKeepDeadlines == Spec => []LinkKeepsItsDeadline
<1>1. IInv => LinkKeepsItsDeadline
  BY DEF IInv, Linked, LinkKeepsItsDeadline
<1> QED
  BY <1>1, InvitationsInvariant, PTL

\* Answers stand as long as no call writes after others wrote since its read.
THEOREM AnswersStand == Spec => AnswersStandInIsolation
<1>1. IInv /\ [Next]_vars =>
        [\A i \in Invitation :
           ~overlapped' /\ invitations[i].status \in Answers =>
              invitations'[i].status = invitations[i].status]_vars
  BY StepKeeps DEF AnswersStay
<1> QED
  BY <1>1, InvitationsInvariant, PTL DEF Spec, AnswersStandInIsolation

\* Under the same condition a person has one pending invitation: who is about to
\* insert one knows of no other.
THEOREM OneInvitation == Spec => []OnePendingInIsolation
<1>1. IInv => OnePendingInIsolation
  <2> SUFFICES ASSUME AtMostOne PROVE Cardinality(Pending) <= 1
    BY DEF IInv, OnePendingInIsolation
  <2>1. CASE Pending = {}
    BY <2>1, FS_EmptySet
  <2>2. ASSUME NEW i \in Pending PROVE Cardinality(Pending) <= 1
    <3>1. Pending = {i}
      BY <2>2 DEF AtMostOne
    <3> QED
      BY <3>1, FS_Singleton
  <2> QED
    BY <2>1, <2>2
<1> QED
  BY <1>1, InvitationsInvariant, PTL

\* Under the same condition the inviter is told once of each: it is marked by the one
\* call that then tells.
THEOREM InviterIsToldOnce == Spec => []ToldOnceInIsolation
<1>1. IInv => ToldOnceInIsolation
  BY DEF IInv, ToldKnown, ToldOnceInIsolation
<1> QED
  BY <1>1, InvitationsInvariant, PTL

==============================================================================
