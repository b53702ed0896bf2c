---------------------------- MODULE MetricStore ----------------------------
(***************************************************************************)
(* What storage.StoreMetrics promises its callers (the handlers of the     *)
(* server): a store of gauges and counters whose operations take effect    *)
(* one at a time, somewhere between call and return.                       *)
(*                                                                         *)
(* The effect of a write is stated as a whole, without the loop and the    *)
(* locks of an implementation: a gauge holds the last value written to it, *)
(* a counter the sum of the deltas, and entries that are not well formed   *)
(* change nothing. Module MemStorage is shown to implement this.           *)
(***************************************************************************)
EXTENDS Integers, Sequences, FiniteSetsExt

CONSTANTS
    Clients,    \* concurrent callers: handler goroutines
    Ids,        \* metric names
    NoVal,      \* a missing value, a nil pointer
    Ops,        \* the operations callers may invoke
    MaxCalls    \* bound: calls in a behaviour

(* An entry of a write names a type, an id and a value:                     *)
(*   [mtype |-> "gauge" | "counter" | other, id |-> .., val |-> .. | NoVal]. *)
(* An operation is one of                                                   *)
(*   [kind |-> "write", entries |-> <<e>>]      WriteMetric                  *)
(*   [kind |-> "batch", entries |-> <<e, ..>>]  WriteBatchMetrics            *)
(*   [kind |-> "get", mtype |-> .., id |-> ..]  GetMetric                    *)
(*   [kind |-> "all"]                           GetAllMetricsTxt             *)

VARIABLES
    gauge,      \* id -> value or NoVal
    counter,    \* id -> value or NoVal
    client,     \* caller -> where its call is, the operation and the result
    calls       \* number of calls made

vars == <<gauge, counter, client, calls>>

Idle == [st |-> "idle", op |-> NoVal, res |-> NoVal]

Init ==
    /\ gauge = [i \in Ids |-> NoVal]
    /\ counter = [i \in Ids |-> NoVal]
    /\ client = [c \in Clients |-> Idle]
    /\ calls = 0

-----------------------------------------------------------------------------

\* The positions of the well-formed entries of es for id i of type t.
Entries(es, t, i) ==
    {n \in DOMAIN es : es[n].mtype = t /\ es[n].id = i /\ es[n].val # NoVal}

\* The effect of es on the gauges g: the last entry for an id wins.
Gauges(g, es) ==
    [i \in Ids |-> LET ns == Entries(es, "gauge", i)
                   IN  IF ns = {} THEN g[i] ELSE es[Max(ns)].val]

\* The effect of es on the counters k: the deltas add up, from 0 for a new id.
Counters(k, es) ==
    [i \in Ids |-> LET ns == Entries(es, "counter", i)
                       old == IF k[i] = NoVal THEN 0 ELSE k[i]
                   IN  IF ns = {} THEN k[i]
                       ELSE old + MapThenSumSet(LAMBDA n : es[n].val, ns)]

\* A single write answers for its one entry, a batch skips what is not well
\* formed and succeeds.
WriteResult(op) ==
    LET e == op.entries[1]
        known == e.mtype \in {"gauge", "counter"}
    IN  CASE op.kind = "write" /\ ~known -> "ErrWrongMetricType"
          [] op.kind = "write" /\ known /\ e.val = NoVal -> "ErrWrongMetricValueType"
          [] OTHER -> "ok"

ReadResult(g, k, op) ==
    CASE op.kind = "all" -> [counter |-> k, gauge |-> g]
      [] op.kind # "all" /\ op.mtype \notin {"gauge", "counter"} -> "ErrBadMetricType"
      [] OTHER -> LET v == IF op.mtype = "gauge" THEN g[op.id] ELSE k[op.id]
                  IN  IF v = NoVal THEN "ErrNoVal" ELSE v

IsWrite(op) == op.kind \in {"write", "batch"}

-----------------------------------------------------------------------------

Call(c, op) ==
    /\ client[c].st = "idle"
    /\ calls < MaxCalls
    /\ client' = [client EXCEPT ![c] = [st |-> "called", op |-> op, res |-> NoVal]]
    /\ calls' = calls + 1
    /\ UNCHANGED <<gauge, counter>>

\* The operation takes effect, all of it at once.
Apply(c) ==
    /\ client[c].st = "called"
    /\ LET op == client[c].op
       IN  IF IsWrite(op)
           THEN /\ gauge' = Gauges(gauge, op.entries)
                /\ counter' = Counters(counter, op.entries)
                /\ client' = [client EXCEPT ![c].st = "done",
                                            ![c].res = WriteResult(op)]
           ELSE /\ client' = [client EXCEPT ![c].st = "done",
                                 ![c].res = ReadResult(gauge, counter, op)]
                /\ UNCHANGED <<gauge, counter>>
    /\ UNCHANGED calls

Return(c) ==
    /\ client[c].st = "done"
    /\ client' = [client EXCEPT ![c] = Idle]
    /\ UNCHANGED <<gauge, counter, calls>>

Next == \E c \in Clients : (\E op \in Ops : Call(c, op)) \/ Apply(c) \/ Return(c)

Spec == Init /\ [][Next]_vars

\* A call that was made takes effect and returns.
FairSpec == Spec /\ \A c \in Clients : WF_vars(Apply(c) \/ Return(c))
=============================================================================
