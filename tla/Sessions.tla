------------------------------- MODULE Sessions -------------------------------
(***************************************************************************)
(* The sessions of one user: refresh tokens that rotate on every use, the  *)
(* families a session handed over to other domains makes, reuse detection, *)
(* signing out and the purge of dead sessions.  Every request is split at  *)
(* its statements; each statement is atomic.                               *)
(*                                                                         *)
(* A refresh token of session s is the number of rotations s had when the  *)
(* token was issued: tokenHash is the row's token, previousTokenHash the   *)
(* one before it.                                                          *)
(***************************************************************************)
EXTENDS Naturals

CONSTANTS
    Session,        \* ids of sessions
    NoSession,      \* null where a session id is expected
    Worker,         \* requests in flight at once
    SessionTTL,     \* sessionTtlMs, not remembered
    RememberedTTL,  \* rememberedSessionTtlMs
    Grace,          \* rotationGraceMs
    Retention,      \* RETENTION_MS of a dead session
    MaxTime,        \* bound: the clock stops here
    MaxToken        \* bound: rotations of a session

ASSUME SessionsAssumption ==
    /\ NoSession \notin Session
    /\ {SessionTTL, RememberedTTL, Grace, Retention, MaxToken} \subseteq Nat
    /\ MaxTime \in Nat \ {0}

VARIABLES
    row,            \* the user_sessions table
    codes,          \* sessions for which an unspent hand-over code exists
    doing,          \* what each worker is in the middle of
    traded,         \* traded[s][t]: how often token t gave a new refresh token
    signedOut,      \* families ended by signing out, by revoking or for reuse
    now

vars == <<row, codes, doing, traded, signedOut, now>>

Never == 0

NoRow == [status |-> "none", root |-> NoSession, token |-> 0,
          rotatedAt |-> Never, rememberMe |-> FALSE, expiresAt |-> Never,
          revokedAt |-> Never]

Idle == [step |-> "idle", session |-> NoSession, token |-> 0,
         at |-> Never, row |-> NoRow]

Init ==
    /\ row = [s \in Session |-> NoRow]
    /\ codes = {}
    /\ doing = [w \in Worker |-> Idle]
    /\ traded = [s \in Session |-> [t \in 0..MaxToken |-> 0]]
    /\ signedOut = {}
    /\ now = 1

Exists(s) == row[s].status = "row"
Revoked(s) == row[s].revokedAt # Never

\* Faulty: only the deadline is looked at.
NotExpired(s) == row[s].expiresAt > now

\* ensureUsable
Usable(s) == ~Revoked(s) /\ row[s].expiresAt > now

InFamily(s, root) == Exists(s) /\ row[s].root = root

\* No worker is about to insert s.
Fresh(s) == row[s].status = "none" /\ \A w \in Worker : doing[w].session # s

------------------------------------------------------------------------------
(***************************************************************************)
(* Signing in.                                                             *)
(***************************************************************************)
Inserted(s, root, remember, expires) ==
    [status |-> "row", root |-> root, token |-> 0, rotatedAt |-> Never,
     rememberMe |-> remember, expiresAt |-> expires, revokedAt |-> Never]

\* StartUserSession after a password or OAuth sign-in
SignIn(s, remember) ==
    /\ Fresh(s)
    /\ row' = [row EXCEPT ![s] =
         Inserted(s, s, remember,
                  now + (IF remember THEN RememberedTTL ELSE SessionTTL))]
    /\ UNCHANGED <<codes, doing, traded, signedOut, now>>

\* IssueSessionHandoff, from an access token or from a refresh cookie
IssueCode(s) ==
    /\ Exists(s) /\ Usable(s) /\ row[s].rememberMe
    /\ codes' = codes \union {s}
    /\ UNCHANGED <<row, doing, traded, signedOut, now>>

\* ExchangeSessionHandoff spends the code, reads the session it came from ...
ExchangeCode(w, from, s) ==
    /\ doing[w] = Idle
    /\ from \in codes
    /\ codes' = codes \ {from}
    /\ Fresh(s)
    /\ IF Exists(from) /\ Usable(from)
       THEN doing' = [doing EXCEPT ![w] =
              [step |-> "create", session |-> s, token |-> 0, at |-> now,
               row |-> Inserted(s, row[from].root, row[from].rememberMe,
                                row[from].expiresAt)]]
       ELSE UNCHANGED doing
    /\ UNCHANGED <<row, traded, signedOut, now>>

\* ... and starts a session of the same family, expiring with what it read
CreateHandedOver(w) ==
    /\ doing[w].step = "create"
    /\ row' = [row EXCEPT ![doing[w].session] = doing[w].row]
    /\ doing' = [doing EXCEPT ![w] = Idle]
    /\ UNCHANGED <<codes, traded, signedOut, now>>

------------------------------------------------------------------------------
(***************************************************************************)
(* RefreshUserSession.                                                     *)
(***************************************************************************)
Step(w, step, s, t, r) ==
    doing' = [doing EXCEPT ![w] = [step |-> step, session |-> s, token |-> t,
                                   at |-> now, row |-> r]]

\* The token is the session's current one.
Present(w, s, t) ==
    /\ doing[w] = Idle
    /\ Exists(s) /\ t = row[s].token
    /\ Usable(s)
    /\ t < MaxToken
    /\ Step(w, "rotate", s, t, row[s])
    /\ UNCHANGED <<row, codes, traded, signedOut, now>>

WithinGrace(s) == row[s].rotatedAt # Never /\ now - row[s].rotatedAt <= Grace

\* The token was rotated too long ago: it was copied.  Within the grace window
\* the caller gets an access token and nothing changes.
PresentRotated(w, s, t) ==
    /\ doing[w] = Idle
    /\ Exists(s) /\ t + 1 = row[s].token
    /\ ~WithinGrace(s)
    /\ Step(w, "revoke", s, t, row[s])
    /\ UNCHANGED <<row, codes, traded, signedOut, now>>

\* Faulty: adds to the old deadline instead of counting from now.
LongerExpiry(call) == call.row.expiresAt + RememberedTTL

NewExpiry(call) ==
    IF call.row.rememberMe THEN call.at + RememberedTTL ELSE call.row.expiresAt

\* Faulty: whatever token the session has by now is rotated.
RotatesAnyToken(s, t) == Exists(s) /\ ~Revoked(s)

\* Faulty: a revoked session is rotated.
RotatesRevoked(s, t) == Exists(s) /\ row[s].token = t

\* rotate(): one UPDATE, on condition that the token is still the current one
\* of a session that is not revoked
Rotates(s, t) == Exists(s) /\ row[s].token = t /\ ~Revoked(s)

Rotate(w) ==
    LET call == doing[w]
        s == call.session
    IN  /\ call.step = "rotate"
        /\ Rotates(s, call.token)
        /\ row' = [row EXCEPT ![s].token = @ + 1,
                              ![s].rotatedAt = call.at,
                              ![s].expiresAt = NewExpiry(call)]
        /\ traded' = [traded EXCEPT ![s][call.token] = @ + 1]
        /\ doing' = [doing EXCEPT ![w] =
              IF call.row.rememberMe THEN [call EXCEPT !.step = "extend"] ELSE Idle]
        /\ UNCHANGED <<codes, signedOut, now>>

\* Nothing updated: the caller gets an access token only
LoseRotation(w) ==
    /\ doing[w].step = "rotate"
    /\ ~Rotates(doing[w].session, doing[w].token)
    /\ doing' = [doing EXCEPT ![w] = Idle]
    /\ UNCHANGED <<row, codes, traded, signedOut, now>>

\* extendFamily(): every session of the family that is not revoked
ExtendFamily(w) ==
    LET call == doing[w]
    IN  /\ call.step = "extend"
        /\ row' = [s \in Session |->
              IF InFamily(s, call.row.root) /\ ~Revoked(s)
              THEN [row[s] EXCEPT !.expiresAt = NewExpiry(call)] ELSE row[s]]
        /\ doing' = [doing EXCEPT ![w] = Idle]
        /\ UNCHANGED <<codes, traded, signedOut, now>>

------------------------------------------------------------------------------
(***************************************************************************)
(* Revoking and purging.                                                   *)
(***************************************************************************)
Family(root) == {s \in Session : InFamily(s, root)}

\* One UPDATE ... WHERE "revokedAt" IS NULL of the chosen sessions
Revoke(chosen, at) ==
    row' = [s \in Session |->
              IF s \in chosen /\ ~Revoked(s)
              THEN [row[s] EXCEPT !.revokedAt = at] ELSE row[s]]

\* The second statement of a refresh that found a reused token
RevokeReused(w) ==
    LET call == doing[w]
    IN  /\ call.step = "revoke"
        /\ Revoke(Family(call.row.root), call.at)
        /\ signedOut' = signedOut \union {call.row.root}
        /\ doing' = [doing EXCEPT ![w] = Idle]
        /\ UNCHANGED <<codes, traded, now>>

\* EndUserSession, with the current or the previous token.  The read only
\* yields the root, which never changes, so read and update are one step.
SignOut(s) ==
    /\ Exists(s)
    /\ Revoke(Family(row[s].root), now)
    /\ signedOut' = signedOut \union {row[s].root}
    /\ UNCHANGED <<codes, doing, traded, now>>

\* RevokeUserSessions: everywhere but, if any, the session of the request
RevokeAll(kept) ==
    LET others == {s \in Session : Exists(s) /\ s # kept}
        spared == {r \in Session : kept \in Session /\ row[kept].root = r}
    IN  /\ kept \in Session => Exists(kept) /\ Usable(kept)
        /\ Revoke(others, now)
        /\ signedOut' = signedOut \union ({row[s].root : s \in others} \ spared)
        /\ UNCHANGED <<codes, doing, traded, now>>

\* PurgeStaleSessions, daily
Stale(s) ==
    /\ Exists(s)
    /\ \/ row[s].expiresAt + Retention < now
       \/ Revoked(s) /\ row[s].revokedAt + Retention < now

Purge ==
    /\ \E s \in Session : Stale(s)
    /\ row' = [s \in Session |->
                 IF Stale(s) THEN [NoRow EXCEPT !.status = "gone"] ELSE row[s]]
    /\ UNCHANGED <<codes, doing, traded, signedOut, now>>

Tick ==
    /\ now < MaxTime
    /\ now' = now + 1
    /\ UNCHANGED <<row, codes, doing, traded, signedOut>>

Finish(w) ==
    \/ CreateHandedOver(w) \/ Rotate(w) \/ LoseRotation(w)
    \/ ExtendFamily(w) \/ RevokeReused(w)

Next ==
    \/ \E s \in Session, remember \in BOOLEAN : SignIn(s, remember)
    \/ \E s \in Session : IssueCode(s)
    \/ \E w \in Worker, from, s \in Session : ExchangeCode(w, from, s)
    \/ \E w \in Worker, s \in Session, t \in 0..MaxToken :
            Present(w, s, t) \/ PresentRotated(w, s, t)
    \/ \E w \in Worker : Finish(w)
    \/ \E s \in Session : SignOut(s)
    \/ \E kept \in Session \union {NoSession} : RevokeAll(kept)
    \/ Purge
    \/ Tick

Spec == Init /\ [][Next]_vars

------------------------------------------------------------------------------
(***************************************************************************)
(* Properties.                                                             *)
(***************************************************************************)
LongestTTL == IF SessionTTL > RememberedTTL THEN SessionTTL ELSE RememberedTTL

RowType ==
    [status : {"none", "row", "gone"}, root : Session \union {NoSession},
     token : 0..MaxToken, rotatedAt : 0..MaxTime, rememberMe : BOOLEAN,
     expiresAt : 0..(MaxTime + LongestTTL), revokedAt : 0..MaxTime]

CallType ==
    [step : {"idle", "create", "rotate", "extend", "revoke"},
     session : Session \union {NoSession}, token : 0..MaxToken,
     at : 0..MaxTime, row : RowType]

\* Every row and every request in flight holds what it can hold.
TypeOK ==
    /\ row \in [Session -> RowType]
    /\ codes \subseteq Session
    /\ doing \in [Worker -> CallType]
    /\ traded \in [Session -> [0..MaxToken -> Nat]]
    /\ signedOut \subseteq Session
    /\ now \in 1..MaxTime

\* A refresh token gives a new refresh token at most once, however many
\* requests present it at the same time (user-session-refresh.ts:46).
TradedOnce == \A s \in Session, t \in 0..MaxToken : traded[s][t] <= 1

\* A revoked session is left exactly as it was until it is purged: no rotation
\* under way and no other session of its family revives, extends or ends it
\* again (typeorm-user-session.repository.ts:40, 63).
RevokedIsFrozen ==
    [][\A s \in Session : Exists(s) /\ Revoked(s) =>
         row'[s] = row[s] \/ row'[s].status = "gone"]_vars

Live(root) == {s \in Family(root) : ~Revoked(s)}
Arriving(root) ==
    {w \in Worker : doing[w].step = "create" /\ doing[w].row.root = root}

\* A family that was ended, with nobody left and nobody about to join, stays
\* ended: no unspent code and no refresh token of it starts another session.
EndedStaysEnded ==
    [][\A r \in signedOut :
         Live(r) = {} /\ Arriving(r) = {} => Live(r)' = {} /\ Arriving(r)' = {}]_vars

(***************************************************************************)
(* Refinement                                                              *)
(***************************************************************************)
\* The session is about to be inserted by worker w.
Brings(w, s) == doing[w].step = "create" /\ doing[w].session = s

Coming(s) == row[s].status = "none" /\ \E w \in Worker : Brings(w, s)

StateOf(s) ==
    IF Exists(s) THEN (IF Revoked(s) THEN "ended" ELSE "live")
    ELSE IF Coming(s) THEN "coming" ELSE row[s].status

FamilyOf(s) ==
    IF Coming(s) THEN doing[CHOOSE w \in Worker : Brings(w, s)].row.root ELSE row[s].root

Lives == INSTANCE SessionLife WITH
    state <- [s \in Session |-> StateOf(s)], family <- [s \in Session |-> FamilyOf(s)]

\* Whatever requests overlap, what they do to the sessions is what SessionLife promises:
\* only a living session trades its token, once each, or brings another one into its
\* family, and none that was ended or purged lives again.
ImplementsSessionLife == Lives!Spec

==============================================================================
