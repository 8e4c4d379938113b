----------------------------- MODULE MCAccounts -----------------------------
(***************************************************************************)
(* Instances of Accounts for TLC.                                          *)
(***************************************************************************)
EXTENDS Accounts, TLC

CONSTANTS e1, e2, e3, c1, c2, c3, r1, r2

\* With e-mail verification, and without it
AllSettings == {{"rdbms", "jwt"}, {"rdbms", "jwt", "email", "verify", "redis"}}

Symmetry == Permutations(Email) \cup Permutations(Code) \cup Permutations(Request)
=============================================================================
