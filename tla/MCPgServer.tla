----------------------------- MODULE MCPgServer -----------------------------
(* Instances of PgServer for TLC.                                           *)
EXTENDS MCPgDB, PgServer

\* A counter, a name that is a counter or a gauge, as either, and the page.
MixedReads ==
    { [all |-> FALSE, mtype |-> "counter", id |-> a], [all |-> FALSE, mtype |-> "gauge", id |-> b],
      [all |-> FALSE, mtype |-> "counter", id |-> b], [all |-> TRUE, mtype |-> "", id |-> a] }
=============================================================================
