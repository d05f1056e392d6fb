------------------------------ MODULE MCMutex ------------------------------
(* Instances of Mutex for model checking. *)
EXTENDS Mutex, TLC

CONSTANTS a, b, d, m, n

DeferredIdle == [v \in Vectors |-> Idle]

(* The threads that use the mutexes are interchangeable. *)
Symmetry == Permutations(Lockers)
=============================================================================
