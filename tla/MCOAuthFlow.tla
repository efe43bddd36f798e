----------------------------- MODULE MCOAuthFlow -----------------------------
(* Instances of OAuthFlow for TLC. *)
EXTENDS OAuthFlow

CONSTANTS url1, ann, bob, r1, r2

OneURL == {url1}

\* Signed with the secret of the server and good for ever, though no frontend
\* asked for it; and signed with another secret.  No step looks at the URL.
Forever(secret) == [callback_url |-> url1, secret |-> secret]
MadeElsewhere == {Forever(0), Forever(1)}

TwoPeople == {ann, bob}
TwoRequests == {r1, r2}

\* The largest number a mantissa of three bits can tell from its neighbours,
\* and the one before it.
Numbers == [p \in People |-> IF p = ann THEN 7 ELSE 8]

\* Ann's primary address is verified, and so is another one; Bob's is not.
Addresses ==
  [p \in People |->
     IF p = ann
       THEN {[email |-> "ann@home", primary |-> TRUE, verified |-> TRUE],
             [email |-> "ann@work", primary |-> FALSE, verified |-> TRUE]}
       ELSE {[email |-> "bob@home", primary |-> TRUE, verified |-> FALSE]}]
=============================================================================
