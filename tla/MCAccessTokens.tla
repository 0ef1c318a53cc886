--------------------------- MODULE MCAccessTokens ---------------------------
(***************************************************************************)
(* A small instance of AccessTokens for TLC: three callers, a token that   *)
(* is expired when it comes, one that lives no longer than the smallest    *)
(* window, and one whose tenth is longer than that window.                 *)
(***************************************************************************)
EXTENDS AccessTokens, TLC

CONSTANTS c1, c2, c3

Callers == {c1, c2, c3}

LifetimesOfTokens == {0, 1, 3, 20}

=============================================================================
