------------------------------ MODULE MCWsHub ------------------------------
(* WsHub with three connections, two of them from one address. *)
EXTENDS WsHub, TLC

CONSTANTS a, b, c1, c2, c3, s1, s2

TwoFromOne == c1 :> a @@ c2 :> a @@ c3 :> b
=============================================================================
