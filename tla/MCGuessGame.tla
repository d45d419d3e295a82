----------------------------- MODULE MCGuessGame ----------------------------
EXTENDS GuessGame, TLC

CONSTANTS c1, c2, c3, r1, r2, r3

\* Two users are logged in; a third connection logs in as one of them or with a
\* name that is new, and one of the two may log in again under that name.
TheLogins == c1 :> r1 @@ c2 :> r2 @@ c3 :> NoRole
TheNames == c1 :> {r3} @@ c2 :> {} @@ c3 :> {r1, r3}
TheCmds == c1 :> 2 @@ c2 :> 2 @@ c3 :> 1
=============================================================================
