---------------------------- MODULE MCMemStorage ----------------------------
(* An instance of MemStorage for TLC: two ids, and operations that overlap  *)
(* on them: a batch that meets the same counter twice and holds entries that *)
(* are not well formed, single writes that are refused, and both reads.      *)
EXTENDS MemStorage

CONSTANTS a, b

E(t, i, v) == [mtype |-> t, id |-> i, val |-> v]

MCOps ==
    { [kind |-> "batch", entries |-> <<E("counter", a, 1), E("counter", b, NoVal),
                                       E("gauge", b, 7), E("bogus", a, 3),
                                       E("counter", a, 2)>>],
      [kind |-> "write", entries |-> <<E("counter", a, 1)>>],
      [kind |-> "write", entries |-> <<E("gauge", b, 8)>>],
      [kind |-> "write", entries |-> <<E("bogus", b, 8)>>],
      [kind |-> "write", entries |-> <<E("gauge", a, NoVal)>>],
      [kind |-> "get", mtype |-> "counter", id |-> a],
      [kind |-> "all"] }
=============================================================================
