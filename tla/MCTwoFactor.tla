---------------------------- MODULE MCTwoFactor ----------------------------
(***************************************************************************)
(* Instances of TwoFactor for TLC.                                         *)
(***************************************************************************)
EXTENDS TwoFactor, TLC

CONSTANTS p1, p2, s1, s2, k1, k2, k3, b1, b2, r1, r2

AllFeatures == {"rdbms", "jwt", "2fa", "redis", "invalidateJWT", "email", "recover"}

Symmetry == Permutations(Password) \cup Permutations(Secret) \cup Permutations(Key)
            \cup Permutations(Code)
=============================================================================
