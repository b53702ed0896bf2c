------------------------------- MODULE MCPgDB -------------------------------
(* Instances of PgDB for TLC.                                               *)
EXTENDS PgDB, TLC

CONSTANTS a, b

E(t, i, v) == [mtype |-> t, id |-> i, val |-> v]

\* Batches that take two rows in opposite orders, one of them meeting a counter
\* twice, and one with an entry to skip and a gauge that shares a counter's id.
MixedOps ==
    { <<E("counter", a, 1), E("counter", a, 2), E("counter", b, 1)>>,
      <<E("counter", b, 1), E("counter", a, 1)>>,
      <<E("counter", b, Null), E("gauge", b, 5)>> }

\* Single increments of one counter.
CounterOps == { <<E("counter", a, 1)>> }

ClientSymmetry == Permutations(Clients)
=============================================================================
