---------------------------- MODULE SecondFactor ----------------------------
(***************************************************************************)
(* What an account's second factor is to its user: a secret that is        *)
(* enrolled, stays the same while the factor is on, and is dropped when it *)
(* is switched off.                                                        *)
(***************************************************************************)
CONSTANTS Secret, None
VARIABLE factor

Init == factor = None

\* A factor is enrolled only where there is none.
Enable(s) == factor = None /\ factor' = s

Disable == factor # None /\ factor' = None

Next == Disable \/ \E s \in Secret : Enable(s)

Spec == Init /\ [][Next]_factor
=============================================================================
