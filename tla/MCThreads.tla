----------------------------- MODULE MCThreads -----------------------------
(* Instances of Threads for model checking. *)
EXTENDS Threads

CONSTANTS a, b

DeferredA == [v \in Vectors |-> a]
=============================================================================
