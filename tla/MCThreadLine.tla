---------------------------- MODULE MCThreadLine ----------------------------
(* Instances of ThreadLine for TLC. *)
EXTENDS ThreadLine, TLC

\* Three turns of depth 0, of one priority, or with nothing to order them.
Flat == [i \in Jobs |-> 0]

\* Jobs 1 and 2 answer messages that were written in the other order.
Crossed == [i \in Jobs |-> IF i = 1 THEN 2 ELSE IF i = 2 THEN 1 ELSE 0]
=============================================================================
