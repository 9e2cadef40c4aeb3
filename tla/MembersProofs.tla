---------------------------- MODULE MembersProofs ----------------------------
(***************************************************************************)
(* Proofs about Members, for any people, calls at once and roles given:    *)
(* as long as no call writes over what it has not read, the workspace      *)
(* keeps an admin, nobody but a system admin promotes to admin, and a      *)
(* member who was removed is gone.                                         *)
(***************************************************************************)
EXTENDS Members, FiniteSetTheorems, TLAPS

(***************************************************************************)
(* The invariant.                                                          *)
(***************************************************************************)
\* Ids are given out in order, and 0 is nobody's.
RowsKnown ==
    /\ removed \subseteq 1..joins
    /\ \A u \in User : /\ members[u].id <= joins
                       /\ members[u].id = 0 <=> members[u] = Absent
                       /\ members[u] # Absent => members[u].role \in MemberRoles

\* A busy call is about somebody, whose row it holds with the id it had.
CallTyped(w) ==
    \/ doing[w].step = "idle" /\ doing[w].row.id = 0
    \/ /\ doing[w].step # "idle"
       /\ doing[w].user \in User
       /\ doing[w].row.id \in 1..joins /\ doing[w].row.role \in MemberRoles

\* An id is one person's, in the rows and in the calls.
IdsKnown ==
    /\ \A u, v \in User :
         members[u].id # 0 /\ members[u].id = members[v].id => u = v
    /\ \A w \in Worker, u \in User :
         doing[w].row.id # 0 /\ members[u].id = doing[w].row.id
           => u = doing[w].user
    /\ \A w, x \in Worker :
         doing[w].row.id # 0 /\ doing[x].row.id = doing[w].row.id
           => doing[x].user = doing[w].user

\* What a call that nothing has overtaken knows: its row is there, and another
\* admin is, if it takes one away.
Another(u) == \E v \in Admins : v # u

ChangeKnown(call) ==
    call.step \in {"save", "write"} =>
        /\ Found(call)
        /\ call.user \in Admins /\ call.row.role # "admin" => Another(call.user)
        /\ call.user \notin Admins /\ call.row.role = "admin" => call.bySystemAdmin

RemovalKnown(call) ==
    call.step = "delete" =>
        /\ Found(call)
        /\ call.user \in Admins => Another(call.user)

\* An id about to be inserted is new.
InsertKnown(w) ==
    doing[w].step = "insert" =>
        /\ members[doing[w].user] = Absent
        /\ doing[w].row.id \notin removed
        /\ \A v \in Worker \ {w} : doing[v].row.id # doing[w].row.id

CallKnown(w) ==
    ~doing[w].stale =>
        ChangeKnown(doing[w]) /\ RemovalKnown(doing[w]) /\ InsertKnown(w)

IInv ==
    /\ TypeOK
    /\ RowsKnown
    /\ IdsKnown
    /\ \A w \in Worker : CallTyped(w) /\ CallKnown(w)
    /\ AdminRemainsInIsolation
    /\ RemovedIsGoneInIsolation

------------------------------------------------------------------------------
CallType ==
    [step : {"idle", "save", "write", "insert", "delete"},
     user : User \union {NoOne}, row : Row, bySystemAdmin : BOOLEAN, stale : BOOLEAN]

\* The values that mean nothing have their types.
LEMMA NullTypes ==
    /\ Absent \in Row /\ Absent.id = 0 /\ Absent.role = "none"
    /\ Idle \in CallType /\ Idle.step = "idle" /\ Idle.row.id = 0 /\ ~Idle.stale
    /\ MaxMembers \in Nat /\ MaxMembers >= 1
<1>1. MaxMembers \in Nat /\ MaxMembers >= 1
  BY MembersAssumption
<1>2. Absent \in Row /\ Absent.id = 0 /\ Absent.role = "none"
  BY <1>1 DEF Absent, Row
<1>3. Idle \in CallType /\ Idle.step = "idle" /\ Idle.row.id = 0 /\ ~Idle.stale
  BY <1>2 DEF Idle, CallType
<1> QED
  BY <1>1, <1>2, <1>3

\* A set with more than one element has another than any given one.
LEMMA AnotherOne ==
    ASSUME NEW S, Cardinality(S) > 1, NEW u \in S
    PROVE  \E v \in S : v # u
<1> SUFFICES ASSUME \A v \in S : v = u PROVE FALSE
  OBVIOUS
<1>1. S = {u}
  OBVIOUS
<1>2. Cardinality(S) = 1
  BY <1>1, FS_Singleton
<1> QED
  BY <1>2

\* The creator is the admin of a new workspace, and nobody is at work.
LEMMA InitKnown == Init => IInv
<1> SUFFICES ASSUME Init PROVE IInv
  OBVIOUS
<1> USE NullTypes, MembersAssumption
<1>1. \A u \in User : members[u] = IF u = Creator THEN [id |-> 1, role |-> "admin"]
                                   ELSE Absent
  BY DEF Init
<1>2. [id |-> 1, role |-> "admin"] \in Row
  BY DEF Row, MemberRoles
<1>3. \A w \in Worker : doing[w] = Idle
  BY DEF Init
<1>4. TypeOK
  <2>1. members \in [User -> Row]
    BY <1>1, <1>2 DEF Init
  <2>2. doing \in [Worker -> CallType]
    BY DEF Init
  <2>3. joins \in 1..MaxMembers /\ removed \subseteq 1..MaxMembers
    BY DEF Init
  <2>4. overlapped \in BOOLEAN
    BY Zenon DEF Init
  <2> QED
    BY <2>1, <2>2, <2>3, <2>4 DEF TypeOK, CallType
<1>5. RowsKnown
  BY <1>1 DEF Init, RowsKnown, Absent, MemberRoles
<1>6. IdsKnown
  BY <1>1, <1>3 DEF IdsKnown
<1>7. ASSUME NEW w \in Worker PROVE CallTyped(w) /\ CallKnown(w)
  BY <1>3 DEF CallTyped, CallKnown, ChangeKnown, RemovalKnown, InsertKnown
<1>8. AdminRemainsInIsolation
  BY <1>1 DEF AdminRemainsInIsolation, Admins
<1>9. RemovedIsGoneInIsolation
  BY DEF Init, RemovedIsGoneInIsolation
<1> QED
  BY <1>4, <1>5, <1>6, <1>7, <1>8, <1>9 DEF IInv

------------------------------------------------------------------------------
(***************************************************************************)
(* A call begins: with a row it has read, or with a new id.                *)
(***************************************************************************)
LEMMA CallBegun ==
    ASSUME IInv, NEW w \in Worker, NEW call \in CallType,
           doing[w] = Idle, doing' = [doing EXCEPT ![w] = call],
           UNCHANGED <<members, removed, overlapped>>,
           call.step # "idle", call.user \in User, call.row.role \in MemberRoles,
           ChangeKnown(call), RemovalKnown(call),
           \/ /\ joins' = joins /\ call.step # "insert"
              /\ call.row.id = members[call.user].id /\ call.row.id # 0
           \/ /\ joins < MaxMembers /\ joins' = joins + 1 /\ call.row.id = joins + 1
              /\ members[call.user] = Absent
    PROVE  IInv'
<1>1. TypeOK /\ RowsKnown /\ IdsKnown
  BY DEF IInv
<1>2. joins \in Nat /\ joins >= 1 /\ joins <= MaxMembers /\ MaxMembers \in Nat
      /\ joins' \in 1..MaxMembers /\ joins <= joins' /\ joins' \in Nat
  BY <1>1, NullTypes DEF TypeOK
<1>3. /\ doing \in [Worker -> CallType] /\ doing'[w] = call
      /\ \A v \in Worker \ {w} : doing'[v] = doing[v]
      /\ members \in [User -> Row]
  BY <1>1 DEF TypeOK, CallType
<1>4. /\ \A u \in User : members[u].id \in Nat /\ members[u].id <= joins
      /\ \A v \in Worker : doing[v].row.id \in Nat
      /\ call.row.id \in 1..joins'
  BY <1>1, <1>2, <1>3 DEF Row, CallType, RowsKnown
<1>5. \A v \in Worker : doing[v].row.id <= joins
  <2> SUFFICES ASSUME NEW v \in Worker PROVE doing[v].row.id <= joins
    OBVIOUS
  <2>1. CallTyped(v)
    BY DEF IInv
  <2> QED
    BY <2>1, <1>2, NullTypes DEF CallTyped
<1>6. TypeOK'
  BY <1>1, <1>2, <1>3 DEF TypeOK, CallType
<1>7. RowsKnown'
  BY <1>1, <1>2, <1>4 DEF RowsKnown
<1>8. IdsKnown'
  <2>1. \A u \in User : members[u].id = call.row.id => u = call.user
    BY <1>1, <1>2, <1>4 DEF IdsKnown
  <2>2. \A v \in Worker :
          doing[v].row.id = call.row.id => doing[v].user = call.user
    BY <1>1, <1>2, <1>4, <1>5 DEF IdsKnown
  <2> QED
    BY <2>1, <2>2, <1>1, <1>3 DEF IdsKnown
<1>9. ASSUME NEW v \in Worker PROVE CallTyped(v)'
  <2>1. CallTyped(v)
    BY DEF IInv
  <2>2. CASE v = w
    BY <2>2, <1>3, <1>4 DEF CallTyped
  <2>3. CASE v # w
    BY <2>1, <2>3, <1>2, <1>3 DEF CallTyped
  <2> QED
    BY <2>2, <2>3
<1>10. ASSUME NEW v \in Worker PROVE CallKnown(v)'
  <2>1. CASE v = w
    <3>1. InsertKnown(w)'
      BY <1>1, <1>2, <1>3, <1>4, <1>5 DEF InsertKnown, RowsKnown
    <3> QED
      BY <2>1, <3>1, <1>3 DEF CallKnown, ChangeKnown, RemovalKnown, Another, Admins, Found
  <2>2. CASE v # w
    <3>1. CallKnown(v) /\ CallTyped(v) /\ doing'[v] = doing[v]
      BY <2>2, <1>3 DEF IInv
    <3>2. ASSUME InsertKnown(v) PROVE InsertKnown(v)'
      <4> SUFFICES ASSUME doing[v].step = "insert"
                   PROVE  call.row.id # doing[v].row.id
        BY <3>1, <3>2, <1>3 DEF InsertKnown
      <4>1. members[doing[v].user].id = 0 /\ doing[v].row.id \in 1..joins
        BY <3>1, <3>2, NullTypes DEF InsertKnown, CallTyped
      <4> QED
        BY <4>1, <1>1, <1>2, <1>4 DEF IdsKnown
    <3> QED
      BY <3>1, <3>2 DEF CallKnown, ChangeKnown, RemovalKnown, Another, Admins, Found
  <2> QED
    BY <2>1, <2>2
<1>11. AdminRemainsInIsolation' /\ RemovedIsGoneInIsolation'
  BY DEF IInv, AdminRemainsInIsolation, RemovedIsGoneInIsolation, Admins
<1> QED
  BY <1>6, <1>7, <1>8, <1>9, <1>10, <1>11 DEF IInv

------------------------------------------------------------------------------
(***************************************************************************)
(* A call ends with a write: of its own row, of nobody, or of nothing.     *)
(* What happens to the admins and to the ids removed is for each write.    *)
(***************************************************************************)
LEMMA RowWritten ==
    ASSUME IInv, NEW w \in Worker, NEW row, doing[w].step # "idle",
           Writes(w, row), row \in {members[doing[w].user], Absent, doing[w].row},
           removed' \in {removed, removed \union {doing[w].row.id}}
    PROVE  TypeOK' /\ RowsKnown' /\ IdsKnown'
             /\ \A v \in Worker : CallTyped(v)' /\ CallKnown(v)'
<1> DEFINE u == doing[w].user
<1>1. TypeOK /\ RowsKnown /\ IdsKnown /\ CallTyped(w)
  BY DEF IInv
<1>2. /\ u \in User /\ doing[w].row.id \in 1..joins
      /\ doing[w].row.role \in MemberRoles /\ doing[w].row \in Row
  BY <1>1, NullTypes DEF CallTyped, TypeOK
<1>3. joins' = joins /\ joins \in Nat /\ joins >= 1 /\ MaxMembers \in Nat
      /\ joins <= MaxMembers
  BY <1>1, NullTypes DEF Writes, TypeOK
<1>4. /\ members \in [User -> Row] /\ row \in Row
      /\ members' \in [User -> Row] /\ members' = [members EXCEPT ![u] = row]
  BY <1>1, <1>2, NullTypes DEF TypeOK, Writes
<1>5. /\ doing \in [Worker -> CallType] /\ doing' \in [Worker -> CallType]
      /\ doing'[w] = Idle
  BY <1>1, NullTypes DEF TypeOK, CallType, Writes
<1>6. ASSUME NEW v \in Worker \ {w}
      PROVE  /\ doing'[v].step = doing[v].step /\ doing'[v].user = doing[v].user
             /\ doing'[v].row = doing[v].row
             /\ doing'[v].bySystemAdmin = doing[v].bySystemAdmin
             /\ doing'[v].stale = (doing[v].stale \/ (doing[v] # Idle /\ members' # members))
  BY <1>5 DEF Writes, CallType
<1>7. \A x \in User : /\ members[x].id \in Nat /\ members[x].id <= joins
                      /\ members'[x] \in {members[x], Absent, doing[w].row}
                      /\ x # u => members'[x] = members[x]
                      /\ members'[u] = row
  BY <1>1, <1>2, <1>4 DEF Row, RowsKnown
<1>8. TypeOK'
  <2>1. removed' \subseteq 1..MaxMembers /\ overlapped' \in BOOLEAN
    BY <1>1, <1>2, <1>3 DEF TypeOK, Writes
  <2> QED
    BY <2>1, <1>1, <1>3, <1>4, <1>5 DEF TypeOK, CallType
<1>9. RowsKnown'
  <2>1. removed' \subseteq 1..joins
    BY <1>1, <1>2 DEF RowsKnown
  <2>2. doing[w].row.id # 0 /\ doing[w].row # Absent /\ doing[w].row.id <= joins
    BY <1>2, <1>3, NullTypes
  <2> QED
    BY <2>1, <2>2, <1>1, <1>2, <1>3, <1>7, NullTypes DEF RowsKnown
<1>10. IdsKnown'
  <2>1. \A x \in User : members'[x].id # 0 =>
          members'[x].id = members[x].id \/ (x = u /\ members'[x].id = doing[w].row.id)
    BY <1>7, NullTypes
  <2>2. \A v \in Worker : doing'[v].row.id # 0 =>
          v # w /\ doing'[v].row.id = doing[v].row.id /\ doing'[v].user = doing[v].user
    BY <1>5, <1>6, NullTypes
  <2>3. ASSUME NEW x \in User, NEW y \in User,
               members'[x].id # 0, members'[x].id = members'[y].id
        PROVE  x = y
    BY <2>1, <2>3, <1>1, <1>2 DEF IdsKnown
  <2>4. ASSUME NEW v \in Worker, NEW x \in User, doing'[v].row.id # 0,
               members'[x].id = doing'[v].row.id
        PROVE  x = doing'[v].user
    BY <2>1, <2>2, <2>4, <1>1, <1>2 DEF IdsKnown
  <2>5. ASSUME NEW v \in Worker, NEW x \in Worker, doing'[v].row.id # 0,
               doing'[x].row.id = doing'[v].row.id
        PROVE  doing'[x].user = doing'[v].user
    BY <2>2, <2>5, <1>1 DEF IdsKnown
  <2> QED
    BY <2>3, <2>4, <2>5 DEF IdsKnown
<1>11. ASSUME NEW v \in Worker PROVE CallTyped(v)'
  <2>1. CASE v = w
    BY <2>1, <1>5, NullTypes DEF CallTyped
  <2>2. CASE v # w
    <3>1. CallTyped(v)
      BY DEF IInv
    <3> QED
      BY <2>2, <3>1, <1>3, <1>6 DEF CallTyped
  <2> QED
    BY <2>1, <2>2
<1>12. ASSUME NEW v \in Worker PROVE CallKnown(v)'
  <2>1. CASE v = w
    BY <2>1, <1>5, NullTypes DEF CallKnown, ChangeKnown, RemovalKnown, InsertKnown
  <2> SUFFICES ASSUME v # w, ~doing'[v].stale, doing'[v].step # "idle"
               PROVE  CallKnown(v)'
    BY <2>1 DEF CallKnown, ChangeKnown, RemovalKnown, InsertKnown
  <2>2. members' = members /\ ~doing[v].stale /\ CallKnown(v)
    BY <1>6, NullTypes DEF IInv
  <2>3. ChangeKnown(doing[v])' /\ RemovalKnown(doing[v])'
    BY <2>2, <1>6 DEF CallKnown, ChangeKnown, RemovalKnown, Found, Another, Admins
  <2>4. InsertKnown(v)'
    <3> SUFFICES ASSUME doing[v].step = "insert" PROVE InsertKnown(v)'
      BY <1>6 DEF InsertKnown
    <3>1. InsertKnown(v) /\ CallTyped(v)
      BY <2>2 DEF CallKnown, IInv
    <3>2. doing[v].row.id # 0 /\ doing[v].row.id # doing[w].row.id
      BY <3>1, <1>3, NullTypes DEF InsertKnown, CallTyped
    <3>3. doing[v].row.id \notin removed'
      BY <3>1, <3>2 DEF InsertKnown
    <3>4. \A x \in Worker \ {v} : doing'[x].row.id # doing[v].row.id
      BY <3>1, <3>2, <1>5, <1>6, NullTypes DEF InsertKnown
    <3> QED
      BY <3>1, <3>3, <3>4, <2>2, <1>6 DEF InsertKnown
  <2> QED
    BY <2>3, <2>4 DEF CallKnown
<1> QED
  BY <1>8, <1>9, <1>10, <1>11, <1>12

------------------------------------------------------------------------------
(***************************************************************************)
(* The steps, one by one.                                                  *)
(***************************************************************************)
LEMMA ReadAddKnown ==
    ASSUME IInv, NEW w \in Worker, NEW u \in User, NEW role \in GivenRoles,
           ReadAdd(w, u, role)
    PROVE  IInv'
<1> DEFINE r == [id |-> joins + 1, role |-> role]
           call == [step |-> "insert", user |-> u, row |-> r,
                    bySystemAdmin |-> FALSE, stale |-> FALSE]
<1>1. joins \in Nat /\ joins < MaxMembers /\ MaxMembers \in Nat /\ role \in MemberRoles
  BY MembersAssumption, NullTypes DEF IInv, TypeOK, ReadAdd
<1>2. r \in Row
  BY <1>1 DEF Row
<1>3. call \in CallType
  BY <1>2 DEF CallType
<1>4. ChangeKnown(call) /\ RemovalKnown(call)
  BY DEF ChangeKnown, RemovalKnown
<1>5. doing[w] = Idle /\ doing' = [doing EXCEPT ![w] = call]
      /\ UNCHANGED <<members, removed, overlapped>>
  BY DEF ReadAdd, Begins
<1>6. joins' = joins + 1 /\ members[u] = Absent
  BY DEF ReadAdd
<1> HIDE DEF call
<1>7. /\ call.step = "insert" /\ call.user = u /\ call.row.id = joins + 1
      /\ call.row.role = role
  BY DEF call
<1> QED
  BY <1>1, <1>3, <1>4, <1>5, <1>6, <1>7, CallBegun

\* The three calls that begin with a row that is there.
LEMMA RowRead ==
    ASSUME IInv, NEW w \in Worker, NEW u \in User, members[u] # Absent,
           NEW step \in {"save", "delete"}, NEW role \in MemberRoles,
           NEW by \in BOOLEAN,
           Begins(w, step, u, [members[u] EXCEPT !.role = role], by),
           joins' = joins,
           u \in Admins /\ (step = "delete" \/ role # "admin") => Another(u),
           step = "save" /\ u \notin Admins /\ role = "admin" => by
    PROVE  IInv'
<1> DEFINE r == [members[u] EXCEPT !.role = role]
           call == [step |-> step, user |-> u, row |-> r,
                    bySystemAdmin |-> by, stale |-> FALSE]
<1>1. members[u] \in Row /\ members[u].id # 0
  BY DEF IInv, TypeOK, RowsKnown
<1>2. r \in Row /\ r.id = members[u].id /\ r.role = role
  BY <1>1 DEF Row
<1> HIDE DEF r
<1>3. call \in CallType
  BY <1>2 DEF CallType
<1>4. ChangeKnown(call) /\ RemovalKnown(call)
  BY <1>2 DEF ChangeKnown, RemovalKnown, Found
<1>5. doing[w] = Idle /\ doing' = [doing EXCEPT ![w] = call]
      /\ UNCHANGED <<members, removed, overlapped>>
  BY DEF Begins, r
<1> QED
  BY <1>1, <1>2, <1>3, <1>4, <1>5, CallBegun

LEMMA ReadChangeRoleKnown ==
    ASSUME IInv, NEW w \in Worker, NEW u \in User, NEW role \in GivenRoles,
           NEW by \in BOOLEAN, ReadChangeRole(w, u, role, by)
    PROVE  IInv'
<1>1. role \in MemberRoles
  BY MembersAssumption
<1>2. u \in Admins /\ role # "admin" => Another(u)
  BY AnotherOne DEF ReadChangeRole, Another
<1>3. u \notin Admins /\ role = "admin" => by
  BY DEF ReadChangeRole
<1> QED
  BY <1>1, <1>2, <1>3, RowRead DEF ReadChangeRole

\* A row that is saved or deleted as it was read.
LEMMA SameRow ==
    ASSUME IInv, NEW u \in User, members[u] # Absent
    PROVE  /\ members[u].role \in MemberRoles
           /\ members[u] = [members[u] EXCEPT !.role = members[u].role]
           /\ u \in Admins <=> members[u].role = "admin"
BY DEF IInv, TypeOK, RowsKnown, Row, Admins

LEMMA ReadEnrollKnown ==
    ASSUME IInv, NEW w \in Worker, NEW u \in User, ReadEnroll(w, u)
    PROVE  IInv'
<1>1. members[u] # Absent /\ joins' = joins /\ Begins(w, "save", u, members[u], FALSE)
  BY DEF ReadEnroll
<1>2. Begins(w, "save", u, [members[u] EXCEPT !.role = members[u].role], FALSE)
  BY <1>1, SameRow
<1> QED
  BY <1>1, <1>2, SameRow, RowRead

LEMMA ReadRemoveKnown ==
    ASSUME IInv, NEW w \in Worker, NEW u \in User, ReadRemove(w, u)
    PROVE  IInv'
<1>1. members[u] # Absent /\ joins' = joins /\ Begins(w, "delete", u, members[u], FALSE)
  BY DEF ReadRemove
<1>2. Begins(w, "delete", u, [members[u] EXCEPT !.role = members[u].role], FALSE)
  BY <1>1, SameRow
<1>3. u \in Admins => Another(u)
  BY AnotherOne DEF ReadRemove, Another
<1> QED
  BY <1>1, <1>2, <1>3, SameRow, RowRead

\* save() decides between an UPDATE, an INSERT and nothing; one that nothing has
\* overtaken finds its row.
LEMMA LoadKnown ==
    ASSUME IInv, NEW w \in Worker, Load(w)
    PROVE  IInv'
<1>1. TypeOK /\ RowsKnown /\ IdsKnown /\ CallTyped(w) /\ CallKnown(w)
  BY DEF IInv
<1>2. doing \in [Worker -> CallType] /\ doing[w] \in CallType /\ doing[w].step = "save"
  BY <1>1 DEF TypeOK, CallType, Load
<1>3. PICK call : /\ doing' = [doing EXCEPT ![w] = call]
                  /\ \/ call = [doing[w] EXCEPT !.step = "insert"] /\ ~Found(doing[w])
                     \/ call = [doing[w] EXCEPT !.step = "write"] /\ Found(doing[w])
                     \/ call = Idle
  BY DEF Load
<1>4. UNCHANGED <<members, joins, removed, overlapped>>
  BY DEF Load
<1>5. \/ call = Idle
      \/ /\ (call.step = "insert" /\ doing[w].stale) \/ call.step = "write"
         /\ call.user = doing[w].user /\ call.row = doing[w].row
         /\ call.bySystemAdmin = doing[w].bySystemAdmin /\ call.stale = doing[w].stale
  BY <1>1, <1>2, <1>3 DEF CallType, CallKnown, ChangeKnown
<1>6. call \in CallType
  BY <1>2, <1>3, NullTypes DEF CallType
<1>7. doing' \in [Worker -> CallType] /\ doing'[w] = call
      /\ \A v \in Worker \ {w} : doing'[v] = doing[v]
  BY <1>2, <1>3, <1>6
<1>8. TypeOK' /\ RowsKnown'
  BY <1>1, <1>4, <1>7 DEF TypeOK, RowsKnown, CallType
<1>9. \A v \in Worker : doing'[v].row.id # 0 =>
        doing'[v].row = doing[v].row /\ doing'[v].user = doing[v].user
  BY <1>5, <1>7, NullTypes
<1>10. IdsKnown'
  BY <1>1, <1>4, <1>9 DEF IdsKnown
<1>11. ASSUME NEW v \in Worker PROVE CallTyped(v)' /\ CallKnown(v)'
  <2>1. CallTyped(v) /\ CallKnown(v)
    BY DEF IInv
  <2>2. CASE v # w
    <3>1. doing'[v] = doing[v]
      BY <2>2, <1>7
    <3>2. ASSUME InsertKnown(v), doing[v].step = "insert" PROVE InsertKnown(v)'
      <4>1. \A x \in Worker \ {v} : doing'[x].row.id # doing[v].row.id
        BY <3>2, <2>1, <1>9, NullTypes DEF InsertKnown, CallTyped
      <4> QED
        BY <4>1, <3>1, <3>2, <1>4 DEF InsertKnown
    <3>3. InsertKnown(v) => InsertKnown(v)'
      BY <3>1, <3>2 DEF InsertKnown
    <3> QED
      BY <2>1, <3>1, <3>3, <1>4
      DEF CallTyped, CallKnown, ChangeKnown, RemovalKnown, Found, Another, Admins
  <2>3. CASE v = w
    <3>1. CallTyped(w)'
      BY <1>1, <1>2, <1>4, <1>5, <1>7, NullTypes DEF CallTyped
    <3>2. CallKnown(w)'
      BY <1>1, <1>2, <1>4, <1>5, <1>7, NullTypes
      DEF CallKnown, ChangeKnown, RemovalKnown, InsertKnown, Found, Another, Admins
    <3> QED
      BY <2>3, <3>1, <3>2
  <2> QED
    BY <2>2, <2>3
<1>12. AdminRemainsInIsolation' /\ RemovedIsGoneInIsolation'
  BY <1>4 DEF IInv, AdminRemainsInIsolation, RemovedIsGoneInIsolation, Admins
<1> QED
  BY <1>8, <1>10, <1>11, <1>12 DEF IInv

------------------------------------------------------------------------------
(***************************************************************************)
(* The three writes.                                                       *)
(***************************************************************************)
\* What a write that leaves isolation intact may rely on.
LEMMA InIsolation ==
    ASSUME IInv, NEW w \in Worker, NEW row, Writes(w, row), ~overlapped',
           doing[w].step # "idle"
    PROVE  /\ Admins # {} /\ \A u \in User : members[u].id \notin removed
           /\ members' = members \/ (CallKnown(w) /\ ~doing[w].stale)
           /\ doing[w].user \in User /\ doing[w].row.id \in 1..joins
           /\ members' = [members EXCEPT ![doing[w].user] = row]
           /\ \A u \in User :
                members'[u] = IF u = doing[w].user THEN row ELSE members[u]
<1>1. ~overlapped /\ (members' = members \/ ~doing[w].stale)
  BY DEF Writes
<1>2. CallTyped(w) /\ TypeOK
  BY DEF IInv
<1> QED
  BY <1>1, <1>2
  DEF IInv, AdminRemainsInIsolation, RemovedIsGoneInIsolation, CallTyped, TypeOK, Writes

\* Another admin than the one written about is still one afterwards.
LEMMA AnotherStays ==
    ASSUME NEW u \in User, Another(u),
           \A v \in User : v # u => members'[v] = members[v]
    PROVE  Admins' # {}
BY DEF Another, Admins

LEMMA WriteKnown ==
    ASSUME IInv, NEW w \in Worker, Write(w)
    PROVE  IInv'
<1> DEFINE call == doing[w]
           row == IF Found(call) THEN call.row ELSE members[call.user]
<1>1. Writes(w, row) /\ removed' = removed /\ call.step = "write"
  BY DEF Write
<1>2. TypeOK' /\ RowsKnown' /\ IdsKnown'
      /\ \A v \in Worker : CallTyped(v)' /\ CallKnown(v)'
  BY <1>1, RowWritten
<1>3. AdminRemainsInIsolation'
  <2> SUFFICES ASSUME ~overlapped' PROVE Admins' # {}
    BY DEF AdminRemainsInIsolation
  <2>1. CASE members' = members
    BY <2>1, <1>1, InIsolation DEF Admins
  <2>2. CASE members' # members
    <3>1. ChangeKnown(call) /\ Admins # {} /\ call.user \in User
          /\ \A v \in User : v # call.user => members'[v] = members[v]
      BY <2>2, <1>1, InIsolation DEF CallKnown
    <3>2. members' = [members EXCEPT ![call.user] = call.row]
      <4>1. row = call.row
        BY <3>1, <1>1 DEF ChangeKnown
      <4>2. members' = [members EXCEPT ![call.user] = row]
        BY <1>1 DEF Writes
      <4> HIDE DEF row
      <4> QED
        BY <4>1, <4>2
    <3>3. CASE call.row.role = "admin"
      <4>1. members'[call.user] = call.row
        BY <3>1, <3>2 DEF IInv, TypeOK
      <4> QED
        BY <3>1, <3>3, <4>1 DEF Admins
    <3>4. CASE call.row.role # "admin"
      <4>1. Another(call.user)
        BY <3>1, <3>4, <1>1 DEF ChangeKnown, Another
      <4> QED
        BY <4>1, <3>1, AnotherStays
    <3> QED
      BY <3>3, <3>4
  <2> QED
    BY <2>1, <2>2
<1>4. RemovedIsGoneInIsolation'
  <2> SUFFICES ASSUME ~overlapped', NEW u \in User PROVE members'[u].id \notin removed
    BY <1>1 DEF RemovedIsGoneInIsolation
  <2>1. members[u].id \notin removed /\ members'[u] = IF u = call.user THEN row ELSE members[u]
    BY <1>1, InIsolation
  <2> QED
    BY <2>1 DEF Found
<1> QED
  BY <1>2, <1>3, <1>4 DEF IInv

LEMMA InsertOneKnown ==
    ASSUME IInv, NEW w \in Worker, Insert(w)
    PROVE  IInv'
<1> DEFINE call == doing[w]
           row == IF members[call.user] = Absent THEN call.row ELSE members[call.user]
<1>1. Writes(w, row) /\ removed' = removed /\ call.step = "insert"
  BY DEF Insert
<1>2. TypeOK' /\ RowsKnown' /\ IdsKnown'
      /\ \A v \in Worker : CallTyped(v)' /\ CallKnown(v)'
  BY <1>1, RowWritten
<1>3. AdminRemainsInIsolation'
  <2> SUFFICES ASSUME ~overlapped' PROVE Admins' # {}
    BY DEF AdminRemainsInIsolation
  <2>1. PICK a \in User : members[a].role = "admin"
    BY <1>1, InIsolation DEF Admins
  <2>2. members'[a] = members[a]
    <3>1. members[a] # Absent
      BY <2>1, NullTypes
    <3> QED
      BY <3>1, <1>1, InIsolation
  <2> QED
    BY <2>1, <2>2 DEF Admins
<1>4. RemovedIsGoneInIsolation'
  <2> SUFFICES ASSUME ~overlapped', NEW u \in User PROVE members'[u].id \notin removed
    BY <1>1 DEF RemovedIsGoneInIsolation
  <2>1. /\ members[u].id \notin removed
        /\ members'[u] = IF u = call.user THEN row ELSE members[u]
        /\ members' = members \/ (CallKnown(w) /\ ~call.stale)
    BY <1>1, InIsolation
  <2>2. CASE members' = members
    BY <2>1, <2>2
  <2>3. CASE CallKnown(w) /\ ~call.stale
    <3>1. call.row.id \notin removed
      BY <2>3, <1>1 DEF CallKnown, InsertKnown
    <3> QED
      BY <2>1, <3>1
  <2> QED
    BY <2>1, <2>2, <2>3
<1> QED
  BY <1>2, <1>3, <1>4 DEF IInv

LEMMA DeleteKnown ==
    ASSUME IInv, NEW w \in Worker, Delete(w)
    PROVE  IInv'
<1> DEFINE call == doing[w]
           row == IF Found(call) THEN Absent ELSE members[call.user]
<1>1. Writes(w, row) /\ removed' = removed \union {call.row.id} /\ call.step = "delete"
  BY DEF Delete
<1>2. TypeOK' /\ RowsKnown' /\ IdsKnown'
      /\ \A v \in Worker : CallTyped(v)' /\ CallKnown(v)'
  BY <1>1, RowWritten
<1>3. AdminRemainsInIsolation'
  <2> SUFFICES ASSUME ~overlapped' PROVE Admins' # {}
    BY DEF AdminRemainsInIsolation
  <2>1. CASE members' = members
    BY <2>1, <1>1, InIsolation DEF Admins
  <2>2. CASE members' # members
    <3>1. RemovalKnown(call) /\ Admins # {} /\ call.user \in User
          /\ \A v \in User : v # call.user => members'[v] = members[v]
      BY <2>2, <1>1, InIsolation DEF CallKnown
    <3>2. Another(call.user)
      BY <3>1, <1>1 DEF RemovalKnown, Another
    <3> QED
      BY <3>1, <3>2, AnotherStays
  <2> QED
    BY <2>1, <2>2
<1>4. RemovedIsGoneInIsolation'
  <2> SUFFICES ASSUME ~overlapped', NEW u \in User PROVE members'[u].id \notin removed'
    BY DEF RemovedIsGoneInIsolation
  <2>1. /\ members[u].id \notin removed
        /\ members'[u] = IF u = call.user THEN row ELSE members[u]
        /\ call.row.id \in 1..joins
    BY <1>1, InIsolation
  <2>2. removed \subseteq 1..joins /\ joins \in Nat /\ IdsKnown
    BY DEF IInv, RowsKnown, TypeOK
  <2>3. members'[u].id # call.row.id
    <3>1. call.row.id # 0
      BY <2>1, <2>2
    <3>2. members[u].id = call.row.id => u = call.user
      BY <3>1, <2>2 DEF IdsKnown
    <3> QED
      BY <2>1, <3>1, <3>2, NullTypes DEF Found
  <2>4. members'[u].id \notin removed
    BY <2>1, <2>2, NullTypes
  <2> QED
    BY <2>3, <2>4, <1>1
<1> QED
  BY <1>2, <1>3, <1>4 DEF IInv

\* Whatever happens next, the invariant holds again.
LEMMA StepKnown == ASSUME IInv, [Next]_vars PROVE IInv'
<1>1. CASE UNCHANGED vars
  <2>1. TypeOK' /\ RowsKnown' /\ IdsKnown'
    BY <1>1 DEF IInv, TypeOK, RowsKnown, IdsKnown, vars
  <2>2. \A w \in Worker : CallTyped(w)' /\ CallKnown(w)'
    BY <1>1 DEF IInv, CallTyped, CallKnown, ChangeKnown, RemovalKnown, InsertKnown,
                Found, Another, Admins, vars
  <2>3. AdminRemainsInIsolation' /\ RemovedIsGoneInIsolation'
    BY <1>1 DEF IInv, AdminRemainsInIsolation, RemovedIsGoneInIsolation, Admins, vars
  <2> QED
    BY <2>1, <2>2, <2>3 DEF IInv
<1>2. ASSUME NEW w \in Worker, Begin(w) PROVE IInv'
  BY <1>2, ReadAddKnown, ReadChangeRoleKnown, ReadEnrollKnown, ReadRemoveKnown DEF Begin
<1>3. ASSUME NEW w \in Worker, Load(w) PROVE IInv'
  BY <1>3, LoadKnown
<1>4. ASSUME NEW w \in Worker, Write(w) \/ Insert(w) \/ Delete(w) PROVE IInv'
  BY <1>4, WriteKnown, InsertOneKnown, DeleteKnown
<1> QED
  BY <1>1, <1>2, <1>3, <1>4 DEF Next

\* The invariant holds of every reachable state.
THEOREM AlwaysKnown == Spec => []IInv
<1> QED
  BY InitKnown, StepKnown, PTL DEF Spec

------------------------------------------------------------------------------
(***************************************************************************)
(* What follows.                                                           *)
(***************************************************************************)
\* Every row and every call in flight keeps its type.
THEOREM MemberTypeCorrect == Spec => []TypeOK
<1>1. IInv => TypeOK
  BY DEF IInv
<1> QED
  BY <1>1, AlwaysKnown, PTL

\* Without overlap the workspace keeps an admin, however many calls are in
\* flight, because the check of each is still true when it writes
\* (workspace-remove-member.ts:33, workspace-change-member-role.ts:44).
THEOREM AnAdminRemains == Spec => []AdminRemainsInIsolation
<1>1. IInv => AdminRemainsInIsolation
  BY DEF IInv
<1> QED
  BY <1>1, AlwaysKnown, PTL

\* Without overlap a member who was removed does not come back by a save.
THEOREM RemovedStaysGone == Spec => []RemovedIsGoneInIsolation
<1>1. IInv => RemovedIsGoneInIsolation
  BY DEF IInv
<1> QED
  BY <1>1, AlwaysKnown, PTL

\* Without overlap only a system admin makes an admin of a member
\* (workspace-change-member-role.ts:38).
THEOREM OnlySystemAdminsPromote == Spec => PromotedBySystemAdminInIsolation
<1> DEFINE Promoted ==
      \A u \in User :
         /\ ~overlapped'
         /\ members[u] # Absent /\ u \notin Admins
         /\ members'[u].role = "admin"
         => \E w \in Worker : doing[w].user = u /\ doing[w].bySystemAdmin
<1>1. ASSUME IInv, Next PROVE Promoted
  <2> SUFFICES ASSUME NEW u \in User, ~overlapped', members[u] # Absent, u \notin Admins,
                      members'[u].role = "admin"
               PROVE  \E w \in Worker : doing[w].user = u /\ doing[w].bySystemAdmin
    OBVIOUS
  <2>1. members'[u] # members[u]
    BY DEF Admins
  <2>2. PICK w \in Worker : Write(w) \/ Insert(w) \/ Delete(w)
    BY <1>1, <2>1 DEF Next, Begin, ReadAdd, ReadChangeRole, ReadEnroll, ReadRemove,
                      Begins, Load
  <2>3. PICK row : Writes(w, row)
    BY <2>2 DEF Write, Insert, Delete
  <2>4. doing[w].step # "idle"
    BY <2>2 DEF Write, Insert, Delete
  <2>5. u = doing[w].user /\ CallKnown(w) /\ ~doing[w].stale
    BY <1>1, <2>1, <2>3, <2>4, InIsolation
  <2>6. CASE Write(w)
    <3>1. members'[u] = IF Found(doing[w]) THEN doing[w].row ELSE members[u]
      BY <1>1, <2>5, <2>6, InIsolation DEF Write
    <3>2. doing[w].row.role = "admin"
      BY <2>1, <3>1
    <3> QED
      BY <2>5, <2>6, <3>2 DEF CallKnown, ChangeKnown, Write
  <2>7. CASE Insert(w)
    <3>1. members'[u] = members[u]
      BY <1>1, <2>5, <2>7, InIsolation DEF Insert
    <3> QED
      BY <2>1, <3>1
  <2>8. CASE Delete(w)
    <3>1. members'[u] \in {Absent, members[u]}
      BY <1>1, <2>5, <2>8, InIsolation DEF Delete
    <3> QED
      BY <2>1, <3>1, NullTypes
  <2> QED
    BY <2>2, <2>6, <2>7, <2>8
<1>2. ASSUME IInv, [Next]_vars PROVE [Promoted]_vars
  BY <1>1, <1>2
<1> QED
  BY <1>2, AlwaysKnown, PTL DEF Spec, PromotedBySystemAdminInIsolation

==============================================================================
