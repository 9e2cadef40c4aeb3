---------------------------- MODULE SessionsProofs ----------------------------
(***************************************************************************)
(* Proofs about Sessions, for any sessions, requests at once, rotations,   *)
(* lifetimes and windows: a token is traded once, a revoked session is     *)
(* left alone, an ended family stays ended, and all of it implements what  *)
(* SessionLife promises.                                                   *)
(***************************************************************************)
EXTENDS Sessions, TLAPS

(***************************************************************************)
(* The invariant.                                                          *)
(***************************************************************************)
\* The tokens a session has yet to reach are unspent, and its family's first
\* session was inserted at some time.
RowKnown(s) ==
    /\ row[s].status = "none" => row[s].token = 0
    /\ Exists(s) =>
         row[s].root \in Session /\ row[row[s].root].status # "none"
    /\ row[s].status # "gone" =>
         \A t \in 0..MaxToken : row[s].token <= t => traded[s][t] = 0

\* A session about to be inserted is not there and nobody else inserts it.
Inserts(w) ==
    /\ row[doing[w].session].status = "none"
    /\ doing[w].row.status = "row" /\ doing[w].row.token = 0
    /\ doing[w].row.revokedAt = Never
    /\ \A v \in Worker \ {w} :
         doing[v].step = "create" => doing[v].session # doing[w].session

CallKnown(w) ==
    /\ doing[w].step # "idle" => doing[w].session \in Session
    /\ doing[w].step \in {"create", "revoke"} =>
         doing[w].row.root \in Session /\ row[doing[w].row.root].status # "none"
    /\ doing[w].step = "create" => Inserts(w)
    /\ doing[w].step = "rotate" => doing[w].token < MaxToken

SignedOutKnown == \A r \in signedOut : row[r].status # "none"

IInv ==
    /\ TypeOK
    /\ TradedOnce
    /\ \A s \in Session : RowKnown(s)
    /\ \A w \in Worker : CallKnown(w)
    /\ SignedOutKnown

------------------------------------------------------------------------------
\* The values that mean nothing have their types.
LEMMA NullTypes ==
    /\ NoRow \in RowType /\ Idle \in CallType /\ Idle.step = "idle"
    /\ SessionTTL \in Nat /\ RememberedTTL \in Nat /\ LongestTTL \in Nat
    /\ SessionTTL <= LongestTTL /\ RememberedTTL <= LongestTTL
    /\ MaxTime \in Nat /\ MaxToken \in Nat
<1>1. /\ SessionTTL \in Nat /\ RememberedTTL \in Nat /\ LongestTTL \in Nat
      /\ SessionTTL <= LongestTTL /\ RememberedTTL <= LongestTTL
      /\ MaxTime \in Nat /\ MaxToken \in Nat
  BY SessionsAssumption DEF LongestTTL
<1>2. NoRow \in RowType
  BY <1>1 DEF NoRow, RowType, Never
<1>3. Idle \in CallType /\ Idle.step = "idle"
  BY <1>1, <1>2 DEF Idle, CallType, Never
<1> QED
  BY <1>1, <1>2, <1>3

\* There is nobody and nothing at first.
LEMMA InitKnown == Init => IInv
<1> SUFFICES ASSUME Init PROVE IInv
  OBVIOUS
<1>1. TypeOK
  BY NullTypes, SessionsAssumption DEF Init, TypeOK
<1>2. TradedOnce /\ SignedOutKnown
  BY DEF Init, TradedOnce, SignedOutKnown
<1>3. ASSUME NEW s \in Session PROVE RowKnown(s)
  BY DEF Init, NoRow, RowKnown, Exists
<1>4. ASSUME NEW w \in Worker PROVE CallKnown(w)
  BY DEF Init, Idle, CallKnown
<1> QED
  BY <1>1, <1>2, <1>3, <1>4 DEF IInv

------------------------------------------------------------------------------
(***************************************************************************)
(* The three kinds of step.                                                *)
(***************************************************************************)
\* Rows that are there are written or purged, nobody starts anything.
LEMMA RowsWritten ==
    ASSUME IInv, TypeOK', traded' = traded,
           signedOut' \subseteq
             signedOut \union {r \in Session : row[r].status # "none"},
           \A s \in Session :
             \/ row'[s].status = "gone" /\ row[s].status # "none"
             \/ /\ row'[s].status = row[s].status
                /\ row'[s].root = row[s].root /\ row'[s].token = row[s].token,
           \A w \in Worker :
             doing'[w] = doing[w] \/ doing'[w].step = "idle"
    PROVE  IInv'
<1>1. TradedOnce'
  BY DEF IInv, TradedOnce
<1>2. ASSUME NEW s \in Session PROVE RowKnown(s)'
  BY <1>2 DEF IInv, RowKnown, Exists
<1>3. ASSUME NEW w \in Worker PROVE CallKnown(w)'
  <2>1. CASE doing'[w].step = "idle"
    BY <2>1 DEF CallKnown
  <2>2. CASE doing'[w] = doing[w]
    <3>1. CallKnown(w)
      BY DEF IInv
    <3>2. doing[w].step = "create" => Inserts(w)'
      BY <2>2, <3>1 DEF CallKnown, Inserts
    <3> QED
      BY <2>2, <3>1, <3>2 DEF CallKnown
  <2> QED
    BY <2>1, <2>2
<1>4. SignedOutKnown'
  <2>1. signedOut \subseteq Session
    BY DEF IInv, TypeOK
  <2> QED
    BY <2>1 DEF IInv, SignedOutKnown
<1> QED
  BY <1>1, <1>2, <1>3, <1>4 DEF IInv

\* A worker begins a call and writes nothing.
LEMMA CallBegun ==
    ASSUME IInv, NEW w \in Worker, NEW call \in CallType,
           doing' = [doing EXCEPT ![w] = call],
           codes' \subseteq codes, UNCHANGED <<row, traded, signedOut, now>>,
           CallKnown(w)',
           \A v \in Worker \ {w} :
             call.step = "create" => doing[v].session # call.session
    PROVE  IInv'
<1>1. TypeOK'
  BY DEF IInv, TypeOK
<1>2. TradedOnce' /\ SignedOutKnown'
  BY DEF IInv, TradedOnce, SignedOutKnown
<1>3. ASSUME NEW s \in Session PROVE RowKnown(s)'
  BY DEF IInv, RowKnown, Exists
<1>4. ASSUME NEW v \in Worker, v # w PROVE CallKnown(v)'
  <2>1. doing'[w] = call /\ doing'[v] = doing[v] /\ CallKnown(v)
    BY <1>4 DEF IInv, TypeOK
  <2>2. ASSUME doing[v].step = "create" PROVE Inserts(v)'
    <3>1. Inserts(v)
      BY <2>1, <2>2 DEF CallKnown
    <3>2. \A x \in Worker \ {w} : doing'[x] = doing[x]
      BY DEF IInv, TypeOK
    <3> QED
      BY <1>4, <2>1, <3>1, <3>2 DEF Inserts
  <2> QED
    BY <2>1, <2>2 DEF CallKnown
<1> QED
  BY <1>1, <1>2, <1>3, <1>4 DEF IInv

\* A session that was not there is inserted, by signing in or by a hand-over.
LEMMA RowInserted ==
    ASSUME IInv, NEW s \in Session, row[s].status = "none", NEW new \in RowType,
           new.status = "row", new.token = 0, new.root \in Session,
           new.root = s \/ row[new.root].status # "none",
           row' = [row EXCEPT ![s] = new],
           UNCHANGED <<codes, traded, signedOut, now>>,
           doing' \in [Worker -> CallType],
           \A w \in Worker :
             \/ doing'[w].step = "idle"
             \/ /\ doing'[w] = doing[w]
                /\ doing[w].step = "create" => doing[w].session # s
    PROVE  IInv'
<1>1. row \in [Session -> RowType]
  BY DEF IInv, TypeOK
<1>2. row'[s] = new /\ \A q \in Session \ {s} : row'[q] = row[q]
  BY <1>1
<1>3. \A q \in Session : row[q].status # "none" => row'[q].status # "none"
  BY <1>2
<1>4. TypeOK'
  BY <1>1 DEF IInv, TypeOK
<1>5. TradedOnce'
  BY DEF IInv, TradedOnce
<1>6. SignedOutKnown'
  BY <1>3 DEF IInv, TypeOK, SignedOutKnown
<1>7. ASSUME NEW q \in Session PROVE RowKnown(q)'
  <2>1. RowKnown(q)
    BY DEF IInv
  <2>2. CASE q = s
    <3>1. row'[new.root].status # "none"
      BY <1>2, <1>3
    <3>2. \A t \in 0..MaxToken : traded[s][t] = 0
      BY <2>1, <2>2, NullTypes DEF RowKnown
    <3> QED
      BY <1>2, <2>2, <3>1, <3>2 DEF RowKnown, Exists
  <2>3. CASE q # s
    BY <1>2, <1>3, <2>1, <2>3 DEF RowKnown, Exists
  <2> QED
    BY <2>2, <2>3
<1>8. ASSUME NEW w \in Worker PROVE CallKnown(w)'
  <2>1. CASE doing'[w].step = "idle"
    BY <2>1 DEF CallKnown
  <2>2. CASE /\ doing'[w] = doing[w]
             /\ doing[w].step = "create" => doing[w].session # s
    <3>1. CallKnown(w)
      BY DEF IInv
    <3>2. doing[w].step = "create" => Inserts(w)'
      BY <1>2, <2>2, <3>1 DEF CallKnown, Inserts
    <3> QED
      BY <1>3, <2>2, <3>1, <3>2 DEF CallKnown
  <2> QED
    BY <2>1, <2>2
<1> QED
  BY <1>4, <1>5, <1>6, <1>7, <1>8 DEF IInv

------------------------------------------------------------------------------
(***************************************************************************)
(* Signing in and handing over.                                            *)
(***************************************************************************)
LEMMA SignInKnown ==
    ASSUME IInv, NEW s \in Session, NEW remember \in BOOLEAN, SignIn(s, remember)
    PROVE  IInv'
<1> DEFINE ttl == IF remember THEN RememberedTTL ELSE SessionTTL
<1> DEFINE new == Inserted(s, s, remember, now + ttl)
<1>1. /\ row' = [row EXCEPT ![s] = new]
      /\ UNCHANGED <<codes, doing, traded, signedOut, now>>
      /\ row[s].status = "none" /\ \A w \in Worker : doing[w].session # s
  BY DEF SignIn, Fresh
<1>2. doing \in [Worker -> CallType] /\ now \in 1..MaxTime
  BY DEF IInv, TypeOK
<1>3. now + ttl \in 0..(MaxTime + LongestTTL)
  BY <1>2, NullTypes
<1>4. /\ new \in RowType /\ new.status = "row" /\ new.token = 0
      /\ new.root = s
  BY <1>3, NullTypes DEF Inserted, RowType, Never
<1> HIDE DEF new
<1> QED
  BY <1>1, <1>2, <1>4, RowInserted

LEMMA ExchangeKnown ==
    ASSUME IInv, NEW w \in Worker, NEW from \in Session, NEW s \in Session,
           ExchangeCode(w, from, s)
    PROVE  IInv'
<1> DEFINE new == Inserted(s, row[from].root, row[from].rememberMe,
                           row[from].expiresAt)
<1> DEFINE call == [step |-> "create", session |-> s, token |-> 0, at |-> now,
                    row |-> new]
<1>1. /\ codes' = codes \ {from} /\ UNCHANGED <<row, traded, signedOut, now>>
      /\ row[s].status = "none" /\ \A v \in Worker : doing[v].session # s
  BY DEF ExchangeCode, Fresh
<1>2. /\ row \in [Session -> RowType] /\ now \in 1..MaxTime
      /\ doing \in [Worker -> CallType]
  BY DEF IInv, TypeOK
<1>3. CASE ~(Exists(from) /\ Usable(from))
  <2>1. doing' = doing
    BY <1>3 DEF ExchangeCode
  <2>2. TypeOK'
    BY <1>1, <2>1 DEF IInv, TypeOK
  <2> QED
    BY <1>1, <2>1, <2>2, RowsWritten
<1>4. CASE Exists(from) /\ Usable(from)
  <2>1. doing' = [doing EXCEPT ![w] = call]
    BY <1>4 DEF ExchangeCode
  <2>2. RowKnown(from)
    BY DEF IInv
  <2>3. /\ new \in RowType /\ new.status = "row" /\ new.token = 0
        /\ new.revokedAt = Never /\ new.root \in Session /\ row[new.root].status # "none"
    BY <1>2, <1>4, <2>2, NullTypes DEF Inserted, RowType, Never, RowKnown
  <2> HIDE DEF new
  <2>4. call \in CallType
    BY <1>2, <2>3, NullTypes DEF CallType
  <2>5. /\ doing'[w] = call /\ call.step = "create" /\ call.session = s
        /\ call.row = new
        /\ \A v \in Worker \ {w} : doing'[v] = doing[v]
    BY <1>2, <2>1
  <2> HIDE DEF call
  <2>6. CallKnown(w)'
    BY <1>1, <2>3, <2>5 DEF CallKnown, Inserts
  <2> QED
    BY <1>1, <2>1, <2>4, <2>5, <2>6, CallBegun
<1> QED
  BY <1>3, <1>4

LEMMA CreateKnown ==
    ASSUME IInv, NEW w \in Worker, CreateHandedOver(w)
    PROVE  IInv'
<1> DEFINE call == doing[w]
<1>1. /\ call.step = "create"
      /\ row' = [row EXCEPT ![call.session] = call.row]
      /\ doing' = [doing EXCEPT ![w] = Idle]
      /\ UNCHANGED <<codes, traded, signedOut, now>>
  BY DEF CreateHandedOver
<1>2. doing \in [Worker -> CallType]
  BY DEF IInv, TypeOK
<1>3. CallKnown(w) /\ Inserts(w) /\ call.row \in RowType
  BY <1>1, <1>2 DEF IInv, CallKnown, CallType
<1>4. call.session \in Session /\ row[call.session].status = "none"
  BY <1>1, <1>3 DEF CallKnown, Inserts
<1>5. /\ call.row.status = "row" /\ call.row.token = 0
      /\ call.row.root \in Session /\ row[call.row.root].status # "none"
  BY <1>1, <1>3 DEF CallKnown, Inserts
<1>6. doing' \in [Worker -> CallType] /\ doing'[w].step = "idle"
  BY <1>1, <1>2, NullTypes
<1>7. \A v \in Worker \ {w} :
        /\ doing'[v] = doing[v]
        /\ doing[v].step = "create" => doing[v].session # call.session
  BY <1>1, <1>2, <1>3 DEF Inserts
<1> QED
  BY <1>1, <1>3, <1>4, <1>5, <1>6, <1>7, RowInserted

------------------------------------------------------------------------------
(***************************************************************************)
(* Refreshing.                                                             *)
(***************************************************************************)
\* A refresh that has read the session it presents a token of.
LEMMA StepKnown ==
    ASSUME IInv, NEW w \in Worker, NEW step \in {"rotate", "revoke"},
           NEW s \in Session, NEW t \in 0..MaxToken, Exists(s),
           step = "rotate" => t < MaxToken,
           Step(w, step, s, t, row[s]),
           UNCHANGED <<row, codes, traded, signedOut, now>>
    PROVE  IInv'
<1> DEFINE call == [step |-> step, session |-> s, token |-> t, at |-> now,
                    row |-> row[s]]
<1>1. /\ row \in [Session -> RowType] /\ now \in 1..MaxTime
      /\ doing \in [Worker -> CallType]
  BY DEF IInv, TypeOK
<1>2. call \in CallType /\ call.step # "create"
  BY <1>1, NullTypes DEF CallType
<1>3. doing' = [doing EXCEPT ![w] = call]
  BY DEF Step
<1>4. doing'[w] = call
  BY <1>1, <1>3
<1>5. RowKnown(s)
  BY DEF IInv
<1>6. CallKnown(w)'
  BY <1>4, <1>5 DEF CallKnown, RowKnown
<1> HIDE DEF call
<1> QED
  BY <1>2, <1>3, <1>6, CallBegun

\* The new deadline of a call that is known is a deadline.
LEMMA NewExpiryType ==
    ASSUME IInv, NEW w \in Worker
    PROVE  NewExpiry(doing[w]) \in 0..(MaxTime + LongestTTL)
<1>1. /\ doing[w].at \in 0..MaxTime
      /\ doing[w].row.expiresAt \in 0..(MaxTime + LongestTTL)
  BY DEF IInv, TypeOK, CallType, RowType
<1> QED
  BY <1>1, NullTypes DEF NewExpiry

\* The one step that spends a token: the next one has not been spent.
LEMMA RotateKnown ==
    ASSUME IInv, NEW w \in Worker, Rotate(w)
    PROVE  IInv'
<1>1. /\ row \in [Session -> RowType] /\ doing \in [Worker -> CallType]
      /\ traded \in [Session -> [0..MaxToken -> Nat]]
  BY DEF IInv, TypeOK
<1>2. PICK call \in CallType : call = doing[w]
  BY <1>1
<1>3. PICK s \in Session, t \in 0..MaxToken, at \in 0..MaxTime,
           deadline \in 0..(MaxTime + LongestTTL) :
        /\ s = call.session /\ t = call.token /\ at = call.at
        /\ deadline = NewExpiry(call)
        /\ call.step = "rotate" /\ t < MaxToken
  BY <1>2, NewExpiryType DEF Rotate, IInv, CallKnown, CallType
<1>4. /\ Rotates(s, t)
      /\ row' = [row EXCEPT ![s] = [row[s] EXCEPT !.token = row[s].token + 1,
                                       !.rotatedAt = at, !.expiresAt = deadline]]
      /\ traded' = [traded EXCEPT ![s][t] = @ + 1]
      /\ doing' = [doing EXCEPT ![w] =
             IF call.row.rememberMe THEN [call EXCEPT !.step = "extend"] ELSE Idle]
      /\ UNCHANGED <<codes, signedOut, now>>
  BY <1>2, <1>3 DEF Rotate
<1>5. /\ t = row[s].token /\ row[s].status = "row"
      /\ RowKnown(s) /\ traded[s][t] = 0 /\ t + 1 \in 0..MaxToken
  <2>1. t = row[s].token /\ row[s].status = "row" /\ RowKnown(s)
    BY <1>4 DEF IInv, Rotates, Exists
  <2>2. t <= t /\ t + 1 \in 0..MaxToken
    BY <1>3, NullTypes
  <2> QED
    BY <2>1, <2>2 DEF RowKnown
<1>6. /\ row'[s].token = t + 1 /\ row'[s].status = "row"
      /\ row'[s].root = row[s].root
      /\ \A q \in Session \ {s} : row'[q] = row[q]
  BY <1>1, <1>4, <1>5 DEF RowType
<1>7. row' \in [Session -> RowType]
  <2>1. row[s] \in RowType
    BY <1>1, <1>3
  <2>2. PICK n \in 0..MaxToken : n = row[s].token + 1
    BY <1>5
  <2>3. [row[s] EXCEPT !.token = n, !.rotatedAt = at, !.expiresAt = deadline]
          \in RowType
    BY <1>3, <2>1, <2>2 DEF RowType
  <2> QED
    BY <1>1, <1>3, <1>4, <2>2, <2>3
<1>8. /\ traded'[s][t] = 1
      /\ \A u \in 0..MaxToken \ {t} : traded'[s][u] = traded[s][u]
      /\ \A q \in Session \ {s} : traded'[q] = traded[q]
      /\ traded' \in [Session -> [0..MaxToken -> Nat]]
  <2>1. traded[s][t] + 1 = 1
    BY <1>5
  <2>2. PICK f \in [Session -> [0..MaxToken -> Nat]] : f = traded
    BY <1>1
  <2>3. PICK h : h = [f[s] EXCEPT ![t] = f[s][t] + 1]
    OBVIOUS
  <2>4. PICK g : g = [f EXCEPT ![s] = h]
    OBVIOUS
  <2>5. f[s] \in [0..MaxToken -> Nat] /\ f[s][t] + 1 \in Nat
    <3>1. f[s] \in [0..MaxToken -> Nat]
      BY <1>3, <2>2
    <3>2. f[s][t] \in Nat
      BY <1>3, <3>1
    <3> QED
      BY <3>1, <3>2
  <2>6. /\ h \in [0..MaxToken -> Nat] /\ h[t] = f[s][t] + 1
        /\ \A u \in 0..MaxToken \ {t} : h[u] = f[s][u]
    BY <1>3, <2>3, <2>5
  <2>7. /\ g \in [Session -> [0..MaxToken -> Nat]] /\ g[s] = h
        /\ \A q \in Session \ {s} : g[q] = f[q]
    BY <1>3, <2>2, <2>4, <2>6
  <2>8. traded' = g
    BY <1>4, <2>2, <2>3, <2>4
  <2> QED
    BY <2>1, <2>2, <2>6, <2>7, <2>8
<1>9. /\ doing'[w].step \in {"idle", "extend"}
      /\ doing'[w].step = "extend" => doing'[w].session = s
      /\ doing'[w] \in CallType
  BY <1>1, <1>3, <1>4, NullTypes DEF CallType
<1>10. /\ doing' \in [Worker -> CallType]
       /\ \A v \in Worker \ {w} : doing'[v] = doing[v]
  BY <1>1, <1>4, <1>9
<1>11. TypeOK'
  BY <1>4, <1>7, <1>8, <1>10 DEF IInv, TypeOK
<1>12. TradedOnce'
  <2>1. ASSUME NEW q \in Session, NEW u \in 0..MaxToken
        PROVE  traded'[q][u] <= 1
    BY <1>8 DEF IInv, TradedOnce
  <2> QED
    BY <2>1 DEF TradedOnce
<1>13. ASSUME NEW q \in Session
       PROVE  RowKnown(q)'
  <2>1. RowKnown(q)
    BY DEF IInv
  <2>2. \A r \in Session : row'[r].status = row[r].status /\ row'[r].root = row[r].root
    BY <1>5, <1>6
  <2>3. CASE q = s
    <3>1. \A u \in 0..MaxToken : t + 1 <= u => traded'[s][u] = 0
      <4>1. ASSUME NEW u \in 0..MaxToken, t + 1 <= u
            PROVE  t <= u /\ u # t
        BY <1>3, <4>1, NullTypes
      <4>2. \A u \in 0..MaxToken : t <= u => traded[s][u] = 0
        BY <1>5 DEF RowKnown
      <4> QED
        BY <1>8, <4>1, <4>2
    <3> QED
      BY <1>6, <2>1, <2>2, <2>3, <3>1 DEF RowKnown, Exists
  <2>4. CASE q # s
    BY <1>6, <1>8, <2>1, <2>2, <2>4 DEF RowKnown, Exists
  <2> QED
    BY <2>3, <2>4
<1>14. ASSUME NEW v \in Worker
       PROVE  CallKnown(v)'
  <2>1. \A r \in Session : row'[r].status = row[r].status
    BY <1>5, <1>6
  <2>2. CASE v = w
    BY <1>3, <1>9, <2>2 DEF CallKnown
  <2>3. CASE v # w
    <3>1. doing'[v] = doing[v] /\ CallKnown(v)
      BY <1>10, <2>3 DEF IInv
    <3>2. ASSUME doing[v].step = "create" PROVE Inserts(v)'
      <4>1. Inserts(v) /\ doing[v].session \in Session
        BY <3>1, <3>2 DEF CallKnown
      <4>2. \A x \in Worker : doing'[x].step = "create" => doing'[x] = doing[x]
        BY <1>9, <1>10
      <4> QED
        BY <2>1, <3>1, <4>1, <4>2 DEF Inserts
    <3> QED
      BY <2>1, <3>1, <3>2 DEF CallKnown
  <2> QED
    BY <2>2, <2>3
<1>15. SignedOutKnown'
  <2>1. signedOut \subseteq Session /\ signedOut' = signedOut
    BY <1>4 DEF IInv, TypeOK
  <2> QED
    BY <1>5, <1>6, <2>1 DEF IInv, SignedOutKnown
<1> QED
  BY <1>11, <1>12, <1>13, <1>14, <1>15 DEF IInv

------------------------------------------------------------------------------
(***************************************************************************)
(* Writing rows that are there: extending, revoking, purging.              *)
(***************************************************************************)
\* Worker w ends its call.
LEMMA EndsCall ==
    ASSUME IInv, NEW w \in Worker, doing' = [doing EXCEPT ![w] = Idle]
    PROVE  /\ doing' \in [Worker -> CallType]
           /\ \A v \in Worker : doing'[v] = doing[v] \/ doing'[v].step = "idle"
  BY NullTypes DEF IInv, TypeOK

LEMMA LoseKnown ==
    ASSUME IInv, NEW w \in Worker, LoseRotation(w)
    PROVE  IInv'
<1>1. /\ doing' = [doing EXCEPT ![w] = Idle]
      /\ UNCHANGED <<row, codes, traded, signedOut, now>>
  BY DEF LoseRotation
<1>2. TypeOK'
  BY <1>1, EndsCall DEF IInv, TypeOK
<1> QED
  BY <1>1, <1>2, EndsCall, RowsWritten

LEMMA ExtendKnown ==
    ASSUME IInv, NEW w \in Worker, ExtendFamily(w)
    PROVE  IInv'
<1>1. PICK deadline \in 0..(MaxTime + LongestTTL) : deadline = NewExpiry(doing[w])
  BY NewExpiryType
<1>2. /\ row' = [s \in Session |->
             IF InFamily(s, doing[w].row.root) /\ ~Revoked(s)
             THEN [row[s] EXCEPT !.expiresAt = deadline] ELSE row[s]]
      /\ doing' = [doing EXCEPT ![w] = Idle]
      /\ UNCHANGED <<codes, traded, signedOut, now>>
  BY <1>1 DEF ExtendFamily
<1>3. row \in [Session -> RowType]
  BY DEF IInv, TypeOK
<1>4. ASSUME NEW s \in Session
      PROVE  /\ row'[s] \in RowType /\ row'[s].status = row[s].status
             /\ row'[s].root = row[s].root /\ row'[s].token = row[s].token
  BY <1>1, <1>2, <1>3 DEF RowType
<1>5. row' \in [Session -> RowType]
  BY <1>2, <1>4
<1>6. TypeOK'
  BY <1>2, <1>5, EndsCall DEF IInv, TypeOK
<1> QED
  BY <1>2, <1>4, <1>6, EndsCall, RowsWritten

\* Revoking some sessions changes nothing else of them.
LEMMA RevokeRows ==
    ASSUME IInv, NEW chosen, NEW at \in 0..MaxTime, Revoke(chosen, at)
    PROVE  /\ row' \in [Session -> RowType]
           /\ \A s \in Session :
                /\ row'[s].status = row[s].status
                /\ row'[s].root = row[s].root /\ row'[s].token = row[s].token
<1>1. row' = [s \in Session |-> IF s \in chosen /\ ~Revoked(s)
                                THEN [row[s] EXCEPT !.revokedAt = at] ELSE row[s]]
  BY DEF Revoke
<1>2. row \in [Session -> RowType]
  BY DEF IInv, TypeOK
<1>3. ASSUME NEW s \in Session
      PROVE  /\ row'[s] \in RowType /\ row'[s].status = row[s].status
             /\ row'[s].root = row[s].root /\ row'[s].token = row[s].token
  BY <1>1, <1>2 DEF RowType
<1> QED
  BY <1>1, <1>3

LEMMA RevokeReusedKnown ==
    ASSUME IInv, NEW w \in Worker, RevokeReused(w)
    PROVE  IInv'
<1> DEFINE call == doing[w]
<1>1. /\ call.step = "revoke" /\ Revoke(Family(call.row.root), call.at)
      /\ signedOut' = signedOut \union {call.row.root}
      /\ doing' = [doing EXCEPT ![w] = Idle]
      /\ UNCHANGED <<codes, traded, now>>
  BY DEF RevokeReused
<1>2. /\ call.at \in 0..MaxTime /\ call.row.root \in Session
      /\ row[call.row.root].status # "none"
  BY <1>1 DEF IInv, TypeOK, CallType, CallKnown
<1>3. /\ row' \in [Session -> RowType]
      /\ \A s \in Session :
           /\ row'[s].status = row[s].status
           /\ row'[s].root = row[s].root /\ row'[s].token = row[s].token
  BY <1>1, <1>2, RevokeRows
<1>4. TypeOK'
  BY <1>1, <1>2, <1>3, EndsCall DEF IInv, TypeOK
<1> QED
  BY <1>1, <1>2, <1>3, <1>4, EndsCall, RowsWritten

LEMMA SignOutKnown ==
    ASSUME IInv, NEW s \in Session, SignOut(s)
    PROVE  IInv'
<1>1. /\ Exists(s) /\ Revoke(Family(row[s].root), now)
      /\ signedOut' = signedOut \union {row[s].root}
      /\ UNCHANGED <<codes, doing, traded, now>>
  BY DEF SignOut
<1>2. now \in 0..MaxTime
  BY NullTypes DEF IInv, TypeOK
<1>3. row[s].root \in Session /\ row[row[s].root].status # "none"
  BY <1>1 DEF IInv, RowKnown
<1>4. /\ row' \in [Session -> RowType]
      /\ \A q \in Session :
           /\ row'[q].status = row[q].status
           /\ row'[q].root = row[q].root /\ row'[q].token = row[q].token
  BY <1>1, <1>2, RevokeRows
<1>5. TypeOK'
  BY <1>1, <1>3, <1>4 DEF IInv, TypeOK
<1> QED
  BY <1>1, <1>3, <1>4, <1>5, RowsWritten

LEMMA RevokeAllKnown ==
    ASSUME IInv, NEW kept \in Session \union {NoSession}, RevokeAll(kept)
    PROVE  IInv'
<1> DEFINE others == {s \in Session : Exists(s) /\ s # kept}
<1> DEFINE spared == {r \in Session : kept \in Session /\ row[kept].root = r}
<1>1. /\ Revoke(others, now)
      /\ signedOut' = signedOut \union ({row[s].root : s \in others} \ spared)
      /\ UNCHANGED <<codes, doing, traded, now>>
  BY DEF RevokeAll
<1>2. now \in 0..MaxTime
  BY NullTypes DEF IInv, TypeOK
<1>3. \A s \in others : row[s].root \in Session /\ row[row[s].root].status # "none"
  BY DEF IInv, RowKnown
<1>4. /\ row' \in [Session -> RowType]
      /\ \A q \in Session :
           /\ row'[q].status = row[q].status
           /\ row'[q].root = row[q].root /\ row'[q].token = row[q].token
  BY <1>1, <1>2, RevokeRows
<1>5. signedOut' \subseteq signedOut \union {r \in Session : row[r].status # "none"}
  BY <1>1, <1>3
<1>6. TypeOK'
  BY <1>1, <1>4, <1>5 DEF IInv, TypeOK
<1> QED
  BY <1>1, <1>4, <1>5, <1>6, RowsWritten

LEMMA PurgeKnown ==
    ASSUME IInv, Purge
    PROVE  IInv'
<1>1. /\ row' = [s \in Session |->
             IF Stale(s) THEN [NoRow EXCEPT !.status = "gone"] ELSE row[s]]
      /\ UNCHANGED <<codes, doing, traded, signedOut, now>>
  BY DEF Purge
<1>2. /\ [NoRow EXCEPT !.status = "gone"] \in RowType
      /\ [NoRow EXCEPT !.status = "gone"].status = "gone"
  BY NullTypes DEF NoRow, RowType
<1>3. ASSUME NEW s \in Session
      PROVE  \/ row'[s].status = "gone" /\ row[s].status # "none"
             \/ row'[s] = row[s]
  BY <1>1, <1>2 DEF Stale, Exists
<1>4. row' \in [Session -> RowType]
  BY <1>1, <1>2 DEF IInv, TypeOK
<1>5. TypeOK'
  BY <1>1, <1>4 DEF IInv, TypeOK
<1> QED
  BY <1>1, <1>3, <1>5, RowsWritten

------------------------------------------------------------------------------
\* Every step keeps what is known.
LEMMA IInvIsKept == IInv /\ [Next]_vars => IInv'
<1> SUFFICES ASSUME IInv, [Next]_vars PROVE IInv'
  OBVIOUS
<1>1. ASSUME NEW s \in Session, NEW remember \in BOOLEAN, SignIn(s, remember)
      PROVE  IInv'
  BY <1>1, SignInKnown
<1>2. ASSUME NEW s \in Session, IssueCode(s)
      PROVE  IInv'
  <2>1. codes' \subseteq Session /\ UNCHANGED <<row, doing, traded, signedOut, now>>
    BY <1>2 DEF IssueCode, IInv, TypeOK
  <2>2. TypeOK'
    BY <2>1 DEF IInv, TypeOK
  <2> QED
    BY <2>1, <2>2, RowsWritten
<1>3. ASSUME NEW w \in Worker, NEW from \in Session, NEW s \in Session,
             ExchangeCode(w, from, s)
      PROVE  IInv'
  BY <1>3, ExchangeKnown
<1>4. ASSUME NEW w \in Worker, NEW s \in Session, NEW t \in 0..MaxToken,
             Present(w, s, t) \/ PresentRotated(w, s, t)
      PROVE  IInv'
  <2>1. CASE Present(w, s, t)
    BY <2>1, StepKnown DEF Present
  <2>2. CASE PresentRotated(w, s, t)
    BY <2>2, StepKnown DEF PresentRotated
  <2> QED
    BY <1>4, <2>1, <2>2
<1>5. ASSUME NEW w \in Worker, Finish(w)
      PROVE  IInv'
  BY <1>5, CreateKnown, RotateKnown, LoseKnown, ExtendKnown, RevokeReusedKnown
     DEF Finish
<1>6. ASSUME NEW s \in Session, SignOut(s)
      PROVE  IInv'
  BY <1>6, SignOutKnown
<1>7. ASSUME NEW kept \in Session \union {NoSession}, RevokeAll(kept)
      PROVE  IInv'
  BY <1>7, RevokeAllKnown
<1>8. CASE Purge
  BY <1>8, PurgeKnown
<1>9. CASE Tick
  <2>1. now' \in 1..MaxTime /\ UNCHANGED <<row, codes, doing, traded, signedOut>>
    BY <1>9, NullTypes DEF Tick, IInv, TypeOK
  <2>2. TypeOK'
    BY <2>1 DEF IInv, TypeOK
  <2> QED
    BY <2>1, <2>2, RowsWritten
<1>10. CASE UNCHANGED vars
  <2>1. TypeOK' /\ UNCHANGED <<row, codes, doing, traded, signedOut>>
    BY <1>10 DEF vars, IInv, TypeOK
  <2> QED
    BY <2>1, RowsWritten
<1> QED
  BY <1>1, <1>2, <1>3, <1>4, <1>5, <1>6, <1>7, <1>8, <1>9, <1>10 DEF Next

LEMMA AlwaysKnown == Spec => []IInv
<1> QED
  BY InitKnown, IInvIsKept, PTL DEF Spec

------------------------------------------------------------------------------
(***************************************************************************)
(* What a step does to the sessions that are there and to the ones that    *)
(* are about to be.                                                        *)
(***************************************************************************)
\* A step leaves a session alone, purges it, or writes it while it is not
\* revoked without touching its family; or the session is new.
RowStep(s) ==
    \/ row'[s] = row[s]
    \/ row'[s].status = "gone"
    \/ Exists(s) /\ ~Revoked(s) /\ row'[s].root = row[s].root
    \/ row[s].status = "none" /\ row'[s].root = s
    \/ /\ row[s].status = "none"
       /\ \E w \in Worker :
            doing[w].step = "create" /\ row'[s].root = doing[w].row.root

\* A step leaves a hand-over under way alone, ends it, or begins it from a
\* session that is not revoked.
CallStep(w) ==
    \/ doing'[w] = doing[w]
    \/ doing'[w].step # "create"
    \/ \E s \in Session : Exists(s) /\ ~Revoked(s) /\ doing'[w].row.root = row[s].root

LEMMA WritesStep ==
    ASSUME IInv, NEW w \in Worker,
           CreateHandedOver(w) \/ Rotate(w) \/ ExtendFamily(w)
    PROVE  /\ \A s \in Session : RowStep(s)
           /\ \A v \in Worker : CallStep(v)
<1>1. /\ row \in [Session -> RowType] /\ doing \in [Worker -> CallType]
      /\ CallKnown(w) /\ Idle.step = "idle"
  BY NullTypes DEF IInv, TypeOK
<1>2. CASE CreateHandedOver(w)
  <2>1. /\ doing[w].step = "create" /\ row[doing[w].session].status = "none"
        /\ row' = [row EXCEPT ![doing[w].session] = doing[w].row]
        /\ doing' = [doing EXCEPT ![w] = Idle]
    BY <1>1, <1>2 DEF CreateHandedOver, CallKnown, Inserts
  <2> QED
    BY <1>1, <2>1 DEF RowStep, CallStep, CallKnown
<1>3. CASE Rotate(w)
  <2>1. PICK s \in Session : s = doing[w].session
    BY <1>1, <1>3 DEF CallKnown, Rotate
  <2>2. PICK n, at, deadline :
          row' = [row EXCEPT ![s] = [row[s] EXCEPT !.token = n, !.rotatedAt = at,
                                                   !.expiresAt = deadline]]
    BY <2>1, <1>3 DEF Rotate
  <2>3. Exists(s) /\ ~Revoked(s)
    BY <1>3, <2>1 DEF Rotate, Rotates
  <2>4. row'[s].root = row[s].root /\ \A q \in Session \ {s} : row'[q] = row[q]
    BY <1>1, <2>2 DEF RowType
  <2>5. doing' = [doing EXCEPT ![w] =
             IF doing[w].row.rememberMe THEN [doing[w] EXCEPT !.step = "extend"]
             ELSE Idle]
    BY <1>3 DEF Rotate
  <2>6. /\ doing'[w].step # "create"
        /\ \A v \in Worker \ {w} : doing'[v] = doing[v]
    BY <1>1, <2>5 DEF CallType
  <2> QED
    BY <2>3, <2>4, <2>6 DEF RowStep, CallStep
<1>4. CASE ExtendFamily(w)
  <2>1. PICK deadline : deadline = NewExpiry(doing[w])
    OBVIOUS
  <2>2. /\ row' = [s \in Session |->
             IF InFamily(s, doing[w].row.root) /\ ~Revoked(s)
             THEN [row[s] EXCEPT !.expiresAt = deadline] ELSE row[s]]
        /\ doing' = [doing EXCEPT ![w] = Idle]
    BY <1>4, <2>1 DEF ExtendFamily
  <2>3. \A s \in Session : RowStep(s)
    BY <1>1, <2>2 DEF RowStep, InFamily, RowType
  <2> QED
    BY <1>1, <2>2, <2>3 DEF CallStep
<1> QED
  BY <1>2, <1>3, <1>4

\* Revoking touches the sessions that are there and not revoked.
LEMMA RevokeStep ==
    ASSUME IInv, NEW chosen, \A s \in chosen : Exists(s), NEW at, Revoke(chosen, at)
    PROVE  \A s \in Session : RowStep(s)
<1>1. row' = [s \in Session |-> IF s \in chosen /\ ~Revoked(s)
                                THEN [row[s] EXCEPT !.revokedAt = at] ELSE row[s]]
  BY DEF Revoke
<1>2. row \in [Session -> RowType]
  BY DEF IInv, TypeOK
<1> QED
  BY <1>1, <1>2 DEF RowStep, RowType

LEMMA EveryStep ==
    ASSUME IInv, [Next]_vars
    PROVE  /\ \A s \in Session : RowStep(s)
           /\ \A v \in Worker : CallStep(v)
<1>0. /\ row \in [Session -> RowType] /\ doing \in [Worker -> CallType]
      /\ Idle.step = "idle"
  BY NullTypes DEF IInv, TypeOK
<1>1. ASSUME NEW s \in Session, NEW remember \in BOOLEAN, SignIn(s, remember)
      PROVE  (\A q \in Session : RowStep(q)) /\ (\A v \in Worker : CallStep(v))
  BY <1>0, <1>1 DEF SignIn, Fresh, Inserted, RowStep, CallStep
<1>2. ASSUME NEW w \in Worker, NEW from \in Session, NEW s \in Session,
             ExchangeCode(w, from, s)
      PROVE  (\A q \in Session : RowStep(q)) /\ (\A v \in Worker : CallStep(v))
  <2>1. row' = row
    BY <1>2 DEF ExchangeCode
  <2>2. CASE Exists(from) /\ Usable(from)
    <3> DEFINE new == Inserted(s, row[from].root, row[from].rememberMe,
                               row[from].expiresAt)
    <3>1. new.root = row[from].root
      BY DEF Inserted
    <3> HIDE DEF new
    <3>2. doing' = [doing EXCEPT ![w] =
             [step |-> "create", session |-> s, token |-> 0, at |-> now, row |-> new]]
      BY <1>2, <2>2 DEF ExchangeCode, new
    <3>3. /\ doing'[w].row.root = row[from].root
          /\ \A v \in Worker \ {w} : doing'[v] = doing[v]
      BY <1>0, <3>1, <3>2
    <3> QED
      BY <2>1, <2>2, <3>3 DEF RowStep, CallStep, Usable
  <2>3. CASE ~(Exists(from) /\ Usable(from))
    BY <1>2, <2>1, <2>3 DEF ExchangeCode, RowStep, CallStep
  <2> QED
    BY <2>2, <2>3
<1>3. ASSUME NEW w \in Worker, NEW s \in Session, NEW t \in 0..MaxToken,
             Present(w, s, t) \/ PresentRotated(w, s, t)
      PROVE  (\A q \in Session : RowStep(q)) /\ (\A v \in Worker : CallStep(v))
  <2>1. PICK step \in {"rotate", "revoke"} :
          doing' = [doing EXCEPT ![w] = [step |-> step, session |-> s, token |-> t,
                                         at |-> now, row |-> row[s]]]
    BY <1>3 DEF Present, PresentRotated, Step
  <2>2. row' = row
    BY <1>3 DEF Present, PresentRotated
  <2> QED
    BY <1>0, <2>1, <2>2 DEF RowStep, CallStep
<1>4. ASSUME NEW w \in Worker, Finish(w)
      PROVE  (\A q \in Session : RowStep(q)) /\ (\A v \in Worker : CallStep(v))
  <2>1. CASE LoseRotation(w)
    BY <1>0, <2>1 DEF LoseRotation, RowStep, CallStep
  <2>2. CASE RevokeReused(w)
    <3>1. /\ Revoke(Family(doing[w].row.root), doing[w].at)
          /\ doing' = [doing EXCEPT ![w] = Idle]
      BY <2>2 DEF RevokeReused
    <3>2. \A s \in Family(doing[w].row.root) : Exists(s)
      BY DEF Family, InFamily
    <3>3. \A q \in Session : RowStep(q)
      BY <3>1, <3>2, RevokeStep
    <3> QED
      BY <1>0, <3>1, <3>3 DEF CallStep
  <2> QED
    BY <1>4, <2>1, <2>2, WritesStep DEF Finish
<1>5. ASSUME NEW s \in Session, SignOut(s)
      PROVE  (\A q \in Session : RowStep(q)) /\ (\A v \in Worker : CallStep(v))
  <2>1. Revoke(Family(row[s].root), now) /\ doing' = doing
    BY <1>5 DEF SignOut
  <2>2. \A q \in Family(row[s].root) : Exists(q)
    BY DEF Family, InFamily
  <2> QED
    BY <2>1, <2>2, RevokeStep DEF CallStep
<1>6. ASSUME NEW kept \in Session \union {NoSession}, RevokeAll(kept)
      PROVE  (\A q \in Session : RowStep(q)) /\ (\A v \in Worker : CallStep(v))
  <2>1. /\ Revoke({s \in Session : Exists(s) /\ s # kept}, now) /\ doing' = doing
    BY <1>6 DEF RevokeAll
  <2> QED
    BY <2>1, RevokeStep DEF CallStep
<1>7. CASE Purge
  BY <1>0, <1>7 DEF Purge, NoRow, RowStep, CallStep
<1>8. CASE (\E s \in Session : IssueCode(s)) \/ Tick \/ UNCHANGED vars
  BY <1>8 DEF IssueCode, Tick, vars, RowStep, CallStep
<1> QED
  BY <1>1, <1>2, <1>3, <1>4, <1>5, <1>6, <1>7, <1>8 DEF Next

------------------------------------------------------------------------------
\* Every row and every request in flight holds what it can hold, for any
\* number of sessions, requests at once and rotations.
THEOREM SessionTypeCorrect == Spec => []TypeOK
<1>1. IInv => TypeOK
  BY DEF IInv
<1> QED
  BY <1>1, AlwaysKnown, PTL

\* A refresh token gives a new refresh token at most once, however many
\* requests present it at the same time: rotate() repeats in its WHERE what
\* the request read, and the tokens ahead of a session's are unspent.
THEOREM TokenIsTradedOnce == Spec => []TradedOnce
<1>1. IInv => TradedOnce
  BY DEF IInv
<1> QED
  BY <1>1, AlwaysKnown, PTL

\* A revoked session is left exactly as it was until it is purged.
THEOREM RevokedIsLeftAlone == Spec => RevokedIsFrozen
<1>1. ASSUME IInv, [Next]_vars, NEW s \in Session, Exists(s), Revoked(s)
      PROVE  row'[s] = row[s] \/ row'[s].status = "gone"
  BY <1>1, EveryStep DEF RowStep, Exists
<1>2. IInv /\ [Next]_vars =>
        [\A s \in Session : Exists(s) /\ Revoked(s) =>
           row'[s] = row[s] \/ row'[s].status = "gone"]_vars
  BY <1>1
<1> QED
  BY <1>2, AlwaysKnown, PTL DEF Spec, RevokedIsFrozen

\* A family that was ended, with nobody left and nobody about to join, stays
\* ended: whoever joins a family comes from a live session of it.
THEOREM EndedFamilyStaysEnded == Spec => EndedStaysEnded
<1>1. ASSUME IInv, [Next]_vars, NEW r \in signedOut,
             Live(r) = {}, Arriving(r) = {}
      PROVE  Live(r)' = {} /\ Arriving(r)' = {}
  <2>1. r \in Session /\ row[r].status # "none"
    BY <1>1 DEF IInv, TypeOK, SignedOutKnown
  <2>2. ASSUME NEW s \in Session, row'[s].status = "row", row'[s].root = r
        PROVE  row'[s].revokedAt # Never
    <3>1. RowStep(s)
      BY <1>1, EveryStep
    <3>2. ~(Exists(s) /\ ~Revoked(s) /\ row[s].root = r)
      BY <1>1 DEF Live, Family, InFamily
    <3>3. \A w \in Worker : ~(doing[w].step = "create" /\ doing[w].row.root = r)
      BY <1>1 DEF Arriving
    <3> QED
      BY <2>1, <2>2, <3>1, <3>2, <3>3 DEF RowStep, Exists, Revoked
  <2>3. ASSUME NEW w \in Worker, doing'[w].step = "create", doing'[w].row.root = r
        PROVE  FALSE
    <3>1. CallStep(w)
      BY <1>1, EveryStep
    <3>2. \A s \in Session : ~(Exists(s) /\ ~Revoked(s) /\ row[s].root = r)
      BY <1>1 DEF Live, Family, InFamily
    <3>3. ~(doing[w].step = "create" /\ doing[w].row.root = r)
      BY <1>1 DEF Arriving
    <3> QED
      BY <2>3, <3>1, <3>2, <3>3 DEF CallStep
  <2> QED
    BY <2>2, <2>3 DEF Live, Family, InFamily, Arriving, Exists, Revoked
<1>2. IInv /\ [Next]_vars =>
        [\A r \in signedOut : Live(r) = {} /\ Arriving(r) = {} =>
           Live(r)' = {} /\ Arriving(r)' = {}]_vars
  BY <1>1
<1> QED
  BY <1>2, AlwaysKnown, PTL DEF Spec, EndedStaysEnded

------------------------------------------------------------------------------
(***************************************************************************)
(* Sessions implements SessionLife, for any sessions, requests at once,    *)
(* rotations, lifetimes and windows.                                       *)
(***************************************************************************)
\* What the mapping says of each session.
Mapped(s) ==
    /\ Exists(s) /\ ~Revoked(s) => StateOf(s) = "live"
    /\ Exists(s) /\ Revoked(s) => StateOf(s) = "ended"
    /\ row[s].status = "gone" => StateOf(s) = "gone"
    /\ row[s].status # "none" => FamilyOf(s) = row[s].root
    /\ (row[s].status = "none" /\ \A w \in Worker : ~Brings(w, s)) =>
         StateOf(s) = "none" /\ FamilyOf(s) = row[s].root
    /\ \A w \in Worker : Brings(w, s) =>
         StateOf(s) = "coming" /\ FamilyOf(s) = doing[w].row.root

AllMapped == \A s \in Session : Mapped(s)

LEMMA MappedKnown == IInv => AllMapped
<1> SUFFICES ASSUME IInv, NEW s \in Session PROVE Mapped(s)
  BY DEF AllMapped
<1>1. row[s] \in RowType
  BY DEF IInv, TypeOK
<1>2. ASSUME NEW w \in Worker, Brings(w, s)
      PROVE  StateOf(s) = "coming" /\ FamilyOf(s) = doing[w].row.root
  <2>1. /\ row[s].status = "none"
        /\ \A v \in Worker : Brings(v, s) => v = w
    BY <1>2 DEF IInv, CallKnown, Inserts, Brings
  <2>2. Coming(s) /\ ~Exists(s)
    BY <1>2, <2>1 DEF Coming, Exists
  <2>3. (CHOOSE v \in Worker : Brings(v, s)) = w
    BY <1>2, <2>1
  <2> QED
    BY <2>2, <2>3 DEF StateOf, FamilyOf
<1>3. row[s].status # "none" => ~Coming(s)
  BY DEF Coming
<1>4. (\A w \in Worker : ~Brings(w, s)) => ~Coming(s)
  BY DEF Coming
<1>5. Exists(s) /\ ~Revoked(s) => StateOf(s) = "live"
  BY DEF StateOf
<1>6. Exists(s) /\ Revoked(s) => StateOf(s) = "ended"
  BY DEF StateOf
<1>7. row[s].status = "gone" => StateOf(s) = "gone"
  BY <1>3 DEF StateOf, Exists
<1>8. row[s].status # "none" => FamilyOf(s) = row[s].root
  BY <1>3 DEF FamilyOf
<1>9. (row[s].status = "none" /\ \A w \in Worker : ~Brings(w, s)) =>
        StateOf(s) = "none" /\ FamilyOf(s) = row[s].root
  BY <1>4 DEF StateOf, FamilyOf, Exists
<1> QED
  BY <1>2, <1>5, <1>6, <1>7, <1>8, <1>9 DEF Mapped

LEMMA MappedNext == IInv' => AllMapped'
<1> QED
  BY MappedKnown, PTL

------------------------------------------------------------------------------
\* Nothing of a session that the mapping looks at changes.
Kept(s) ==
    /\ row'[s].status = row[s].status /\ row'[s].root = row[s].root
    /\ Revoked(s)' <=> Revoked(s)
    /\ \A w \in Worker :
         /\ Brings(w, s)' <=> Brings(w, s)
         /\ Brings(w, s) => doing'[w].row.root = doing[w].row.root

LEMMA KeptIsSame ==
    ASSUME IInv, IInv', NEW s \in Session, Kept(s)
    PROVE  StateOf(s)' = StateOf(s) /\ FamilyOf(s)' = FamilyOf(s)
<1>1. Mapped(s) /\ Mapped(s)'
  BY MappedKnown, MappedNext DEF AllMapped
<1>2. row[s].status \in {"none", "row", "gone"}
  BY DEF IInv, TypeOK, RowType
<1>3. Exists(s)' <=> Exists(s)
  BY DEF Exists, Kept
<1>4. CASE Exists(s)
  BY <1>1, <1>3, <1>4 DEF Mapped, Kept, Exists
<1>5. CASE row[s].status = "gone"
  BY <1>1, <1>5 DEF Mapped, Kept
<1>6. CASE row[s].status = "none" /\ \A w \in Worker : ~Brings(w, s)
  BY <1>1, <1>6 DEF Mapped, Kept
<1>7. ASSUME NEW w \in Worker, Brings(w, s)
      PROVE  StateOf(s)' = StateOf(s) /\ FamilyOf(s)' = FamilyOf(s)
  BY <1>1, <1>7 DEF Mapped, Kept
<1> QED
  BY <1>2, <1>4, <1>5, <1>6, <1>7 DEF Exists

\* A step that no session shows.
LEMMA Stutters ==
    ASSUME IInv, IInv', traded' = traded, \A s \in Session : Kept(s)
    PROVE  UNCHANGED Lives!vars
<1>1. \A s \in Session : StateOf(s)' = StateOf(s) /\ FamilyOf(s)' = FamilyOf(s)
  BY KeptIsSame
<1> QED
  BY <1>1 DEF Lives!vars

------------------------------------------------------------------------------
(***************************************************************************)
(* Each operation of the code is one of SessionLife, or no session shows   *)
(* it.                                                                     *)
(***************************************************************************)
LEMMA SignInOpens ==
    ASSUME IInv, IInv', NEW s \in Session, NEW remember \in BOOLEAN,
           SignIn(s, remember)
    PROVE  Lives!Open(s)
<1>1. /\ row \in [Session -> RowType] /\ Mapped(s) /\ Mapped(s)'
  BY MappedKnown, MappedNext DEF IInv, TypeOK, AllMapped
<1>2. /\ row[s].status = "none" /\ (\A w \in Worker : ~Brings(w, s))
      /\ doing' = doing /\ traded' = traded
  BY DEF SignIn, Fresh, Brings
<1>3. /\ row'[s].status = "row" /\ row'[s].root = s /\ row'[s].revokedAt = Never
      /\ \A q \in Session \ {s} : row'[q] = row[q]
  BY <1>1 DEF SignIn, Inserted
<1>4. StateOf(s) = "none" /\ StateOf(s)' = "live" /\ FamilyOf(s)' = s
  BY <1>1, <1>2, <1>3 DEF Mapped, Exists, Revoked
<1>5. ASSUME NEW q \in Session \ {s}
      PROVE  StateOf(q)' = StateOf(q) /\ FamilyOf(q)' = FamilyOf(q)
  <2>1. Kept(q)
    BY <1>2, <1>3 DEF Kept, Brings, Revoked
  <2> QED
    BY <2>1, KeptIsSame
<1> QED
  BY <1>2, <1>4, <1>5 DEF Lives!Open

LEMMA ExchangeSends ==
    ASSUME IInv, IInv', NEW w \in Worker, NEW from \in Session, NEW s \in Session,
           ExchangeCode(w, from, s)
    PROVE  Lives!SendFor(from, s) \/ UNCHANGED Lives!vars
<1>1. /\ doing \in [Worker -> CallType] /\ Idle.step = "idle"
      /\ Mapped(s) /\ Mapped(s)' /\ Mapped(from)
  BY NullTypes, MappedKnown, MappedNext DEF IInv, TypeOK, AllMapped
<1>2. /\ row[s].status = "none" /\ (\A v \in Worker : doing[v].session # s)
      /\ row' = row /\ traded' = traded /\ doing[w] = Idle
  BY DEF ExchangeCode, Fresh
<1>3. CASE ~(Exists(from) /\ Usable(from))
  <2>1. doing' = doing
    BY <1>3 DEF ExchangeCode
  <2>2. \A q \in Session : Kept(q)
    BY <1>2, <2>1 DEF Kept, Brings, Revoked
  <2> QED
    BY <1>2, <2>2, Stutters
<1>4. CASE Exists(from) /\ Usable(from)
  <2> DEFINE new == Inserted(s, row[from].root, row[from].rememberMe,
                             row[from].expiresAt)
  <2>1. new.root = row[from].root
    BY DEF Inserted
  <2> HIDE DEF new
  <2>2. doing' = [doing EXCEPT ![w] =
          [step |-> "create", session |-> s, token |-> 0, at |-> now, row |-> new]]
    BY <1>4 DEF ExchangeCode, new
  <2>3. /\ doing'[w].step = "create" /\ doing'[w].session = s
        /\ doing'[w].row.root = row[from].root
        /\ \A v \in Worker \ {w} : doing'[v] = doing[v]
    BY <1>1, <2>1, <2>2
  <2>4. StateOf(s) = "none" /\ StateOf(s)' = "coming"
    BY <1>1, <1>2, <2>3 DEF Mapped, Brings
  <2>5. StateOf(from) = "live" /\ FamilyOf(s)' = FamilyOf(from)
    BY <1>1, <1>4, <2>3 DEF Mapped, Brings, Usable, Exists
  <2>6. ASSUME NEW q \in Session \ {s}
        PROVE  StateOf(q)' = StateOf(q) /\ FamilyOf(q)' = FamilyOf(q)
    <3>1. Kept(q)
      BY <1>1, <1>2, <2>3 DEF Kept, Brings, Revoked
    <3> QED
      BY <3>1, KeptIsSame
  <2> QED
    BY <1>2, <2>4, <2>5, <2>6 DEF Lives!SendFor
<1> QED
  BY <1>3, <1>4

LEMMA CreateArrives ==
    ASSUME IInv, IInv', NEW w \in Worker, CreateHandedOver(w)
    PROVE  \E s \in Session : Lives!Arrive(s)
<1>1. /\ row \in [Session -> RowType] /\ doing \in [Worker -> CallType]
      /\ CallKnown(w) /\ Idle.step = "idle"
  BY NullTypes DEF IInv, TypeOK
<1>2. PICK s \in Session : s = doing[w].session
  BY <1>1 DEF CreateHandedOver, CallKnown
<1>3. /\ doing[w].step = "create" /\ doing[w].row.status = "row"
      /\ doing[w].row.revokedAt = Never /\ traded' = traded
  BY <1>1 DEF CreateHandedOver, CallKnown, Inserts
<1>4. /\ row'[s] = doing[w].row /\ (\A q \in Session \ {s} : row'[q] = row[q])
      /\ doing'[w] = Idle /\ \A v \in Worker \ {w} : doing'[v] = doing[v]
  BY <1>1, <1>2 DEF CreateHandedOver
<1>5. Mapped(s) /\ Mapped(s)'
  BY MappedKnown, MappedNext DEF AllMapped
<1>6. StateOf(s) = "coming" /\ FamilyOf(s) = doing[w].row.root
  BY <1>2, <1>3, <1>5 DEF Mapped, Brings
<1>7. StateOf(s)' = "live" /\ FamilyOf(s)' = FamilyOf(s)
  BY <1>3, <1>4, <1>5, <1>6 DEF Mapped, Exists, Revoked
<1>8. ASSUME NEW q \in Session \ {s}
      PROVE  StateOf(q)' = StateOf(q) /\ FamilyOf(q)' = FamilyOf(q)
  <2>1. Kept(q)
    BY <1>1, <1>2, <1>4 DEF Kept, Brings, Revoked
  <2> QED
    BY <2>1, KeptIsSame
<1>9. /\ [q \in Session |-> StateOf(q)'] =
           [[q \in Session |-> StateOf(q)] EXCEPT ![s] = "live"]
      /\ [q \in Session |-> FamilyOf(q)'] = [q \in Session |-> FamilyOf(q)]
  BY <1>7, <1>8
<1> QED
  BY <1>3, <1>6, <1>9 DEF Lives!Arrive

\* A worker that is not inserting and does not start to.
Works(w) ==
    /\ doing[w].step # "create" /\ doing'[w].step # "create"
    /\ \A v \in Worker \ {w} : doing'[v] = doing[v]

LEMMA WorksKept ==
    ASSUME NEW s \in Session, doing' = doing \/ \E w \in Worker : Works(w),
           row'[s].status = row[s].status, row'[s].root = row[s].root,
           Revoked(s)' <=> Revoked(s)
    PROVE  Kept(s)
<1>1. CASE doing' = doing
  BY <1>1 DEF Kept, Brings
<1>2. ASSUME NEW w \in Worker, Works(w) PROVE Kept(s)
  BY <1>2 DEF Kept, Brings, Works
<1> QED
  BY <1>1, <1>2

LEMMA RotateTrades ==
    ASSUME IInv, IInv', NEW w \in Worker, Rotate(w)
    PROVE  \E s \in Session, t \in 0..MaxToken : Lives!Trade(s, t)
<1>1. /\ row \in [Session -> RowType] /\ doing \in [Worker -> CallType]
      /\ traded \in [Session -> [0..MaxToken -> Nat]]
      /\ CallKnown(w) /\ Idle.step = "idle" /\ MaxToken \in Nat
  BY NullTypes DEF IInv, TypeOK
<1>2. PICK s \in Session, t \in 0..MaxToken :
        s = doing[w].session /\ t = doing[w].token
  BY <1>1 DEF Rotate, CallKnown, CallType
<1>3. Exists(s) /\ ~Revoked(s) /\ row[s].token = t
  BY <1>2 DEF Rotate, Rotates
<1>4. \A later \in t..MaxToken : traded[s][later] = 0
  <2>1. RowKnown(s)
    BY DEF IInv
  <2> QED
    BY <1>1, <1>3, <2>1 DEF RowKnown, Exists
<1>5. traded' = [traded EXCEPT ![s][t] = 1]
  <2>1. traded' = [traded EXCEPT ![s][t] = @ + 1]
    BY <1>2 DEF Rotate
  <2>2. traded[s][t] = 0
    BY <1>1, <1>4
  <2> QED
    BY <1>1, <2>1, <2>2
<1>6. PICK n, at, deadline :
        row' = [row EXCEPT ![s] = [row[s] EXCEPT !.token = n, !.rotatedAt = at,
                                                 !.expiresAt = deadline]]
  BY <1>2 DEF Rotate
<1>7. Works(w)
  <2>1. doing' = [doing EXCEPT ![w] =
             IF doing[w].row.rememberMe THEN [doing[w] EXCEPT !.step = "extend"]
             ELSE Idle]
    BY DEF Rotate
  <2> QED
    BY <1>1, <2>1 DEF Works, Rotate, CallType
<1>8. \A q \in Session : Kept(q)
  <2>1. ASSUME NEW q \in Session PROVE Kept(q)
    <3>1. /\ row'[q].status = row[q].status /\ row'[q].root = row[q].root
          /\ row'[q].revokedAt = row[q].revokedAt
      BY <1>1, <1>6 DEF RowType
    <3> QED
      BY <1>7, <3>1, WorksKept DEF Revoked
  <2> QED
    BY <2>1
<1>9. \A q \in Session : StateOf(q)' = StateOf(q) /\ FamilyOf(q)' = FamilyOf(q)
  BY <1>8, KeptIsSame
<1>10. StateOf(s) = "live"
  BY <1>3, MappedKnown DEF AllMapped, Mapped
<1>11. Lives!Trade(s, t)
  BY <1>4, <1>5, <1>9, <1>10 DEF Lives!Trade
<1> QED
  BY <1>11

\* The other tries, and an extension of the family, change no state.
LEMMA CallStutters ==
    ASSUME IInv, IInv', NEW w \in Worker,
           LoseRotation(w) \/ ExtendFamily(w)
             \/ \E s \in Session, t \in 0..MaxToken :
                  Present(w, s, t) \/ PresentRotated(w, s, t)
    PROVE  UNCHANGED Lives!vars
<1>1. /\ row \in [Session -> RowType] /\ doing \in [Worker -> CallType]
      /\ Idle.step = "idle"
  BY NullTypes DEF IInv, TypeOK
<1>2. Works(w) /\ traded' = traded
  BY <1>1 DEF Works, LoseRotation, ExtendFamily, Present, PresentRotated, Step
<1>3. ASSUME NEW q \in Session
      PROVE  /\ row'[q].status = row[q].status /\ row'[q].root = row[q].root
             /\ row'[q].revokedAt = row[q].revokedAt
  <2>1. CASE ExtendFamily(w)
    BY <1>1, <2>1 DEF ExtendFamily, RowType
  <2>2. CASE ~ExtendFamily(w)
    BY <2>2 DEF LoseRotation, Present, PresentRotated
  <2> QED
    BY <2>1, <2>2
<1>4. \A q \in Session : Kept(q)
  BY <1>2, <1>3, WorksKept DEF Revoked
<1> QED
  BY <1>2, <1>4, Stutters

\* An UPDATE that revokes ends the living among the sessions it chooses.
LEMMA RevokeEnds ==
    ASSUME IInv, IInv', NEW chosen, \A s \in chosen : Exists(s), NEW at,
           Revoke(chosen, at), traded' = traded,
           doing' = doing \/ \E w \in Worker : Works(w)
    PROVE  \E ended \in SUBSET Session : Lives!End(ended)
<1> DEFINE ended == {s \in Session : s \in chosen /\ ~Revoked(s) /\ at # Never}
<1>1. row \in [Session -> RowType] /\ AllMapped /\ AllMapped'
  BY MappedKnown, MappedNext DEF IInv, TypeOK
<1>2. row' = [s \in Session |-> IF s \in chosen /\ ~Revoked(s)
                                THEN [row[s] EXCEPT !.revokedAt = at] ELSE row[s]]
  BY DEF Revoke
<1>3. ASSUME NEW s \in Session, s \in ended
      PROVE  /\ StateOf(s) = "live" /\ StateOf(s)' = "ended"
             /\ FamilyOf(s)' = FamilyOf(s)
  <2>1. Exists(s) /\ ~Revoked(s) /\ at # Never
    BY <1>3
  <2>2. /\ row'[s].status = row[s].status /\ row'[s].root = row[s].root
        /\ row'[s].revokedAt = at
    BY <1>1, <1>2, <1>3 DEF RowType
  <2>3. Exists(s)' /\ Revoked(s)'
    BY <2>1, <2>2 DEF Exists, Revoked
  <2> QED
    BY <1>1, <2>1, <2>2, <2>3 DEF AllMapped, Mapped, Exists
<1>4. ASSUME NEW s \in Session, s \notin ended
      PROVE  StateOf(s)' = StateOf(s) /\ FamilyOf(s)' = FamilyOf(s)
  <2>1. /\ row'[s].status = row[s].status /\ row'[s].root = row[s].root
        /\ row'[s].revokedAt = row[s].revokedAt
    BY <1>1, <1>2, <1>4 DEF RowType, Revoked
  <2>2. Kept(s)
    BY <2>1, WorksKept DEF Revoked
  <2> QED
    BY <2>2, KeptIsSame
<1> HIDE DEF ended
<1>5. Lives!End(ended)
  BY <1>3, <1>4 DEF Lives!End, ended
<1>6. ended \in SUBSET Session
  BY DEF ended
<1> QED
  BY <1>5, <1>6

LEMMA PurgeForgets ==
    ASSUME IInv, IInv', Purge
    PROVE  \E gone \in SUBSET Session : Lives!Forget(gone)
<1> DEFINE gone == {s \in Session : Stale(s)}
<1>1. /\ row \in [Session -> RowType] /\ AllMapped /\ AllMapped'
      /\ doing' = doing /\ traded' = traded
  BY MappedKnown, MappedNext DEF IInv, TypeOK, Purge
<1>2. ASSUME NEW s \in Session, Stale(s)
      PROVE  /\ StateOf(s) \in {"live", "ended"} /\ StateOf(s)' = "gone"
             /\ FamilyOf(s)' = NoSession
  <2>1. row'[s].status = "gone" /\ row'[s].root = NoSession /\ Exists(s)
    BY <1>2 DEF Purge, NoRow, Stale
  <2> QED
    BY <1>1, <2>1 DEF AllMapped, Mapped
<1>3. ASSUME NEW s \in Session, ~Stale(s)
      PROVE  StateOf(s)' = StateOf(s) /\ FamilyOf(s)' = FamilyOf(s)
  <2>1. row'[s] = row[s]
    BY <1>3 DEF Purge
  <2>2. Kept(s)
    BY <1>1, <2>1 DEF Kept, Brings, Revoked
  <2> QED
    BY <2>2, KeptIsSame
<1>4. Lives!Forget(gone)
  BY <1>1, <1>2, <1>3 DEF Lives!Forget
<1> QED
  BY <1>4

------------------------------------------------------------------------------
LEMMA EveryStepMaps == IInv /\ IInv' /\ [Next]_vars => [Lives!Next]_(Lives!vars)
<1> SUFFICES ASSUME IInv, IInv', [Next]_vars
             PROVE  Lives!Next \/ UNCHANGED Lives!vars
  OBVIOUS
<1>0. doing \in [Worker -> CallType] /\ Idle.step = "idle"
  BY NullTypes DEF IInv, TypeOK
<1>1. ASSUME NEW s \in Session, NEW remember \in BOOLEAN, SignIn(s, remember)
      PROVE  Lives!Next
  BY <1>1, SignInOpens DEF Lives!Next
<1>2. ASSUME NEW w \in Worker, NEW from \in Session, NEW s \in Session,
             ExchangeCode(w, from, s)
      PROVE  Lives!Next \/ UNCHANGED Lives!vars
  BY <1>2, ExchangeSends DEF Lives!Next
<1>3. ASSUME NEW w \in Worker, NEW s \in Session, NEW t \in 0..MaxToken,
             Present(w, s, t) \/ PresentRotated(w, s, t)
      PROVE  UNCHANGED Lives!vars
  BY <1>3, CallStutters
<1>4. ASSUME NEW w \in Worker, Finish(w)
      PROVE  Lives!Next \/ UNCHANGED Lives!vars
  <2>1. CASE CreateHandedOver(w)
    BY <2>1, CreateArrives DEF Lives!Next
  <2>2. CASE Rotate(w)
    BY <2>2, RotateTrades DEF Lives!Next
  <2>3. CASE LoseRotation(w) \/ ExtendFamily(w)
    BY <2>3, CallStutters
  <2>4. CASE RevokeReused(w)
    <3>1. /\ Revoke(Family(doing[w].row.root), doing[w].at) /\ traded' = traded
          /\ Works(w)
      BY <1>0, <2>4 DEF RevokeReused, Works
    <3>2. \A s \in Family(doing[w].row.root) : Exists(s)
      BY DEF Family, InFamily
    <3> QED
      BY <3>1, <3>2, RevokeEnds DEF Lives!Next
  <2> QED
    BY <1>4, <2>1, <2>2, <2>3, <2>4 DEF Finish
<1>5. ASSUME NEW s \in Session, SignOut(s)
      PROVE  Lives!Next
  <2>1. /\ Revoke(Family(row[s].root), now) /\ traded' = traded /\ doing' = doing
    BY <1>5 DEF SignOut
  <2>2. \A q \in Family(row[s].root) : Exists(q)
    BY DEF Family, InFamily
  <2> QED
    BY <2>1, <2>2, RevokeEnds DEF Lives!Next
<1>6. ASSUME NEW kept \in Session \union {NoSession}, RevokeAll(kept)
      PROVE  Lives!Next
  <2>1. /\ Revoke({s \in Session : Exists(s) /\ s # kept}, now)
        /\ traded' = traded /\ doing' = doing
    BY <1>6 DEF RevokeAll
  <2> QED
    BY <2>1, RevokeEnds DEF Lives!Next
<1>7. CASE Purge
  BY <1>7, PurgeForgets DEF Lives!Next
<1>8. CASE (\E s \in Session : IssueCode(s)) \/ Tick \/ UNCHANGED vars
  <2>1. row' = row /\ doing' = doing /\ traded' = traded
    BY <1>8 DEF IssueCode, Tick, vars
  <2>2. \A q \in Session : Kept(q)
    BY <2>1, WorksKept DEF Revoked
  <2> QED
    BY <2>1, <2>2, Stutters
<1> QED
  BY <1>1, <1>2, <1>3, <1>4, <1>5, <1>6, <1>7, <1>8 DEF Next

LEMMA InitMaps == Init => Lives!Init
<1> SUFFICES ASSUME Init PROVE Lives!Init
  OBVIOUS
<1>1. ASSUME NEW s \in Session
      PROVE  StateOf(s) = "none" /\ FamilyOf(s) = NoSession
  <2>1. row[s] = NoRow /\ \A w \in Worker : ~Brings(w, s)
    BY DEF Init, Idle, Brings
  <2>2. Mapped(s)
    BY InitKnown, MappedKnown DEF AllMapped
  <2> QED
    BY <2>1, <2>2 DEF Mapped, NoRow
<1> QED
  BY <1>1 DEF Init, Lives!Init

\* Whatever requests overlap, what they do to the sessions is what SessionLife
\* promises: a token is traded once and only by a living session, whoever joins
\* a family was sent for by one who lived in it, and no session lives twice.
THEOREM SessionsImplementLife == Spec => ImplementsSessionLife
<1> QED
  BY InitMaps, EveryStepMaps, AlwaysKnown, PTL
     DEF Spec, ImplementsSessionLife, Lives!Spec

==============================================================================
