--------------------------- MODULE MCWebSessions ---------------------------
(***************************************************************************)
(* Two requests at a time, four logins on three slots, and a clock that    *)
(* runs past the greatest age of a session.                                *)
(***************************************************************************)
EXTENDS WebSessions, TLC

CONSTANTS r1, r2, t1, t2, t3, t4

TwoRequests == {r1, r2}
FourTokens == {t1, t2, t3, t4}

Symmetry == Permutations(TwoRequests) \cup Permutations(FourTokens)
=============================================================================
