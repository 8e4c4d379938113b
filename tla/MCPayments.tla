----------------------------- MODULE MCPayments -----------------------------
(* Payments on small instances. *)
EXTENDS Payments, TLC

CONSTANTS u1, c1, c2, d1, d2

OneUser == [c \in Checkout |-> u1]
BothTasks == Delivery \X {"save", "login"}
NoRetry == [q \in {"critical", "default", "reporting"} |-> 0]
OneRetry == [q \in {"critical", "default", "reporting"} |-> 1]
\* Bound: one failure in the back end, a task that fails for good or an enqueue
\* that reports an error.
FewFailures ==
    Cardinality({t \in Task : task[t].state = "archived"})
      + Cardinality({d \in Delivery : login[d] = "error"})
      + Cardinality({d \in Delivery : save[d] = "error"}) <= 1
Symmetry == Permutations(Checkout) \cup Permutations(Delivery)
=============================================================================
