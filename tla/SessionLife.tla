----------------------------- MODULE SessionLife -----------------------------
(***************************************************************************)
(* What the sessions of a user promise, without requests, statements or    *)
(* time: a session lives once, a refresh token is traded once and only     *)
(* while its session lives, and a session comes to a family only on the    *)
(* word of one that lives in it.  Sessions implements this.                *)
(***************************************************************************)
EXTENDS Naturals

CONSTANTS Session, NoSession, MaxToken

VARIABLES
    state,    \* none, coming, live, ended or gone
    family,   \* the session that founded the family
    traded    \* how often each refresh token of a session gave a new one

vars == <<state, family, traded>>

Init ==
    /\ state = [s \in Session |-> "none"]
    /\ family = [s \in Session |-> NoSession]
    /\ traded = [s \in Session |-> [t \in 0..MaxToken |-> 0]]

\* A sign-in founds a family.
Open(s) ==
    /\ state[s] = "none"
    /\ state' = [state EXCEPT ![s] = "live"]
    /\ family' = [family EXCEPT ![s] = s]
    /\ UNCHANGED traded

\* A living session sends for another one of its family, ...
SendFor(from, s) ==
    /\ state[from] = "live" /\ state[s] = "none"
    /\ state' = [state EXCEPT ![s] = "coming"]
    /\ family' = [family EXCEPT ![s] = family[from]]
    /\ UNCHANGED traded

\* ... which arrives, whatever has become of the family meanwhile.
Arrive(s) ==
    /\ state[s] = "coming"
    /\ state' = [state EXCEPT ![s] = "live"]
    /\ UNCHANGED <<family, traded>>

\* Each token is traded once, and none after a later one.
Trade(s, t) ==
    /\ \A later \in t..MaxToken : traded[s][later] = 0
    /\ traded' = [traded EXCEPT ![s][t] = 1]
    /\ state[s] = "live"
    /\ UNCHANGED <<state, family>>

\* Signing out, reuse of an old token and revocation end any number of sessions at once,
End(chosen) ==
    /\ \A s \in chosen : state[s] = "live"
    /\ state' = [s \in Session |-> IF s \in chosen THEN "ended" ELSE state[s]]
    /\ UNCHANGED <<family, traded>>

\* and the purge forgets any number that expired or were ended.
Forget(chosen) ==
    /\ \A s \in chosen : state[s] \in {"live", "ended"}
    /\ state' = [s \in Session |-> IF s \in chosen THEN "gone" ELSE state[s]]
    /\ family' = [s \in Session |-> IF s \in chosen THEN NoSession ELSE family[s]]
    /\ UNCHANGED traded

Next ==
    \/ \E chosen \in SUBSET Session : End(chosen) \/ Forget(chosen)
    \/ \E s \in Session : Open(s) \/ Arrive(s)
    \/ \E from, s \in Session : SendFor(from, s)
    \/ \E s \in Session, t \in 0..MaxToken : Trade(s, t)

Spec == Init /\ [][Next]_vars

==============================================================================
