------------------------------ MODULE MCAgent ------------------------------
(* Instances of Agent for TLC: the workers are interchangeable.             *)
EXTENDS Agent, TLC

WorkerSymmetry == Permutations(Workers)
=============================================================================
