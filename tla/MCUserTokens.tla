--------------------------- MODULE MCUserTokens ----------------------------
(* A small instance of UserTokens for TLC. *)
EXTENDS UserTokens, TLC

CONSTANTS openId, userId, c1, c2

Symmetry == Permutations({c1, c2})

=============================================================================
