----------------------------- MODULE MCMemServer -----------------------------
(* Instances of MemServer for TLC: the handlers are interchangeable.         *)
EXTENDS MemServer, TLC

HandlerSymmetry == Permutations(Handlers)
=============================================================================
