--------------------------- MODULE MCJobLifecycle ---------------------------
(* Instances of JobLifecycle for TLC: who takes part, and how many faults. *)
EXTENDS JobLifecycle, TLC

CONSTANTS w1, w2, c1, c2

OneConsumer  == [w \in {w1, w2} |-> c1]
TwoConsumers == (w1 :> c1) @@ (w2 :> c2)

Faults(on) == [k \in Kinds |-> IF k \in DOMAIN on THEN on[k] ELSE 0]

\* The two worker threads of one consumer are interchangeable.
Threads == Permutations({w1, w2})

\* No operator: crashes, stops and restarts of the consumer and of the runner, a silent
\* runner, database faults.
Unattended == Faults([crash |-> 2, stop |-> 1, boot |-> 1, db |-> 1, flap |-> 1])

\* An operator, and a second consumer that starts at any moment.
Attended == Faults([pause |-> 1, resume |-> 1, runtime |-> 1, stop |-> 1])

\* A consumer that lives, with as many failed transactions as the finalizer survives.
Alone == Faults([pause |-> 1, boot |-> 1, db |-> 2, flap |-> 1])

\* The smallest budget that shows the disagreement.
PauseAndResume == Faults([pause |-> 1, resume |-> 1])
=============================================================================
