---------------------------- MODULE MCTensorSync ----------------------------
(* Instances of TensorSync for TLC: thread counts as functions.            *)
EXTENDS TensorSync

\* Every node runs with --nthreads 1.
OneThread == [n \in Node |-> 1]

\* The root at its default of 1 thread, the workers at their default of 4.
DefaultThreads == [n \in Node |-> IF n = Root THEN 1 ELSE 4]

=============================================================================
