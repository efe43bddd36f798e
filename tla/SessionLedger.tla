---------------------------- MODULE SessionLedger ----------------------------
(***************************************************************************)
(* What the refresh-token service promises, without requests, databases or *)
(* failures.  A ledger records every refresh token that was ever made      *)
(* usable ("granted"), together with the token it replaced, and every      *)
(* token that was ever revoked ("spent").  A token is usable exactly while *)
(* it is granted and not spent.                                            *)
(***************************************************************************)
CONSTANTS Users, Jtis, NoToken

VARIABLES granted, spent

ledger == <<granted, spent>>

Token == [jti : Jtis, sub : Users]

\* The jti of a token is a fresh UUID: no two granted tokens share it.
Fresh(t) == \A g \in granted : g.token.jti # t.jti

Init == granted = {} /\ spent = {}

\* A login starts a session with a token that replaces nothing.
Begin(t) ==
  /\ Fresh(t)
  /\ granted' = granted \cup {[token |-> t, parent |-> NoToken]}
  /\ UNCHANGED spent

\* A rotation continues a session: the token it replaces has been spent
\* already, and the new one belongs to the same user.
Rotate(old, t) ==
  /\ old \in spent
  /\ t.sub = old.sub
  /\ Fresh(t)
  /\ granted' = granted \cup {[token |-> t, parent |-> old]}
  /\ UNCHANGED spent

\* A usable token is revoked, for ever.
Revoke(t) ==
  /\ t \in {g.token : g \in granted} \ spent
  /\ spent' = spent \cup {t}
  /\ UNCHANGED granted

Next ==
  \E t \in Token :
    \/ Begin(t)
    \/ Revoke(t)
    \/ \E old \in Token : Rotate(old, t)

Spec == Init /\ [][Next]_ledger
=============================================================================
