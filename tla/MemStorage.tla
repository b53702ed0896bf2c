----------------------------- MODULE MemStorage -----------------------------
(***************************************************************************)
(* internal/storage/storage.go: the in-memory store, a gauge map and a     *)
(* counter map behind one sync.RWMutex, at the grain of the map accesses.  *)
(***************************************************************************)
EXTENDS Integers, Sequences, FiniteSetsExt

CONSTANTS Clients, Ids, NoVal, Ops, MaxCalls

\* The entries of a write and the operations, as MetricStore describes them.
Entry == [mtype : STRING, id : Ids, val : Int \cup {NoVal}]

ASSUME MemStorageAssumption ==
    /\ MaxCalls \in Nat
    /\ NoVal \notin Int /\ NoVal \notin Clients
    /\ \A op \in Ops :
          \/ op.kind = "write" /\ op.entries \in Seq(Entry) /\ Len(op.entries) = 1
          \/ op.kind = "batch" /\ op.entries \in Seq(Entry)
          \/ op.kind = "get" /\ op.id \in Ids
          \/ op.kind = "all"

VARIABLES
    gauge,      \* MemStorage.gauge (NoVal: no such key)
    counter,    \* MemStorage.counter
    writer,     \* the client holding the write lock, or NoVal
    readers,    \* the clients holding the read lock
    client,     \* caller -> where its call is
    calls,      \* number of calls made
    base        \* history: both maps when the write lock was last taken

vars == <<gauge, counter, writer, readers, client, calls, base>>

ClientPC == {"idle", "called", "wlocked", "rlocked", "halfread", "unlock", "done"}

Idle == [st |-> "idle", op |-> NoVal, next |-> 0, res |-> NoVal]

Init ==
    /\ gauge = [i \in Ids |-> NoVal]
    /\ counter = [i \in Ids |-> NoVal]
    /\ writer = NoVal
    /\ readers = {}
    /\ client = [c \in Clients |-> Idle]
    /\ calls = 0
    /\ base = [gauge |-> gauge, counter |-> counter]

IsWrite(op) == op.kind \in {"write", "batch"}

-----------------------------------------------------------------------------

\* A handler calls the store.
Call(c, op) ==
    /\ client[c].st = "idle"
    /\ calls < MaxCalls
    /\ client' = [client EXCEPT ![c] = [st |-> "called", op |-> op,
                                        next |-> 1, res |-> NoVal]]
    /\ calls' = calls + 1
    /\ UNCHANGED <<gauge, counter, writer, readers, base>>

\* m.Lock(): excludes readers and writers.
Lock(c) ==
    /\ client[c].st = "called" /\ IsWrite(client[c].op)
    /\ writer = NoVal /\ readers = {}
    /\ writer' = c
    /\ base' = [gauge |-> gauge, counter |-> counter]
    /\ client' = [client EXCEPT ![c].st = "wlocked"]
    /\ UNCHANGED <<gauge, counter, readers, calls>>

\* Mutant: the read lock is granted while a writer is inside.
RLockAnyway(c) ==
    /\ client[c].st = "called" /\ ~IsWrite(client[c].op)
    /\ readers' = readers \cup {c}
    /\ client' = [client EXCEPT ![c].st = "rlocked"]
    /\ UNCHANGED <<gauge, counter, writer, calls, base>>

\* m.RLock(): shared by readers. (That a writer which waits keeps new readers
\* out is the mutex's fairness, see FairSpec.)
RLock(c) ==
    /\ client[c].st = "called" /\ ~IsWrite(client[c].op)
    /\ writer = NoVal
    /\ readers' = readers \cup {c}
    /\ client' = [client EXCEPT ![c].st = "rlocked"]
    /\ UNCHANGED <<gauge, counter, writer, calls, base>>

\* Mutant: the counter is set, as the gauge is.
PutSetsCounter(e) ==
    /\ gauge' = IF e.mtype = "gauge" /\ e.val # NoVal
                THEN [gauge EXCEPT ![e.id] = e.val] ELSE gauge
    /\ counter' = IF e.mtype = "counter" /\ e.val # NoVal
                  THEN [counter EXCEPT ![e.id] = e.val] ELSE counter

\* One entry of the type switch: a gauge is set, a counter is added to (the
\* zero value for a new key), anything that is not well formed (another type; a
\* nil value, which also stands for an empty id in a batch) is skipped.
Put(e) ==
    /\ gauge' = IF e.mtype = "gauge" /\ e.val # NoVal
                THEN [gauge EXCEPT ![e.id] = e.val] ELSE gauge
    /\ counter' = IF e.mtype = "counter" /\ e.val # NoVal
                  THEN [counter EXCEPT ![e.id] =
                           (IF @ = NoVal THEN 0 ELSE @) + e.val]
                  ELSE counter

\* WriteMetric: one entry, whose type or value may be refused.
WriteMetric(c) ==
    /\ client[c].st = "wlocked" /\ client[c].op.kind = "write"
    /\ LET e == client[c].op.entries[1]
           known == e.mtype \in {"gauge", "counter"}
           res == CASE ~known -> "ErrWrongMetricType"
                    [] known /\ e.val = NoVal -> "ErrWrongMetricValueType"
                    [] OTHER -> "ok"
       IN  /\ Put(e)
           /\ client' = [client EXCEPT ![c].st = "unlock", ![c].res = res]
    /\ UNCHANGED <<writer, readers, calls, base>>

\* WriteBatchMetrics: the loop body for the next entry.
WriteBatchEntry(c) ==
    /\ client[c].st = "wlocked" /\ client[c].op.kind = "batch"
    /\ client[c].next <= Len(client[c].op.entries)
    /\ Put(client[c].op.entries[client[c].next])
    /\ client' = [client EXCEPT ![c].next = @ + 1]
    /\ UNCHANGED <<writer, readers, calls, base>>

\* ... and the return after the last one.
WriteBatchReturn(c) ==
    /\ client[c].st = "wlocked" /\ client[c].op.kind = "batch"
    /\ client[c].next > Len(client[c].op.entries)
    /\ client' = [client EXCEPT ![c].st = "unlock", ![c].res = "ok"]
    /\ UNCHANGED <<gauge, counter, writer, readers, calls, base>>

\* GetMetric: one map lookup.
GetMetric(c) ==
    /\ client[c].st = "rlocked" /\ client[c].op.kind = "get"
    /\ LET op == client[c].op
           v == IF op.mtype = "gauge" THEN gauge[op.id] ELSE counter[op.id]
           known == op.mtype \in {"gauge", "counter"}
           res == CASE ~known -> "ErrBadMetricType"
                    [] known /\ v = NoVal -> "ErrNoVal"
                    [] OTHER -> v
       IN  client' = [client EXCEPT ![c].st = "unlock", ![c].res = res]
    /\ UNCHANGED <<gauge, counter, writer, readers, calls, base>>

\* GetAllMetricsTxt: first the counters ...
GetAllCounters(c) ==
    /\ client[c].st = "rlocked" /\ client[c].op.kind = "all"
    /\ client' = [client EXCEPT ![c].st = "halfread", ![c].res = counter]
    /\ UNCHANGED <<gauge, counter, writer, readers, calls, base>>

\* ... then the gauges, under the same read lock.
GetAllGauges(c) ==
    /\ client[c].st = "halfread"
    /\ client' = [client EXCEPT ![c].st = "unlock",
                                ![c].res = [counter |-> @, gauge |-> gauge]]
    /\ UNCHANGED <<gauge, counter, writer, readers, calls, base>>

\* The deferred Unlock or RUnlock.
Unlock(c) ==
    /\ client[c].st = "unlock"
    /\ writer' = IF writer = c THEN NoVal ELSE writer
    /\ readers' = readers \ {c}
    /\ client' = [client EXCEPT ![c].st = "done"]
    /\ UNCHANGED <<gauge, counter, calls, base>>

Return(c) ==
    /\ client[c].st = "done"
    /\ client' = [client EXCEPT ![c] = Idle]
    /\ UNCHANGED <<gauge, counter, writer, readers, calls, base>>

Step(c) ==
    \/ Lock(c) \/ RLock(c)
    \/ WriteMetric(c) \/ WriteBatchEntry(c) \/ WriteBatchReturn(c)
    \/ GetMetric(c) \/ GetAllCounters(c) \/ GetAllGauges(c)
    \/ Unlock(c) \/ Return(c)

\* The bound is used up and every call has returned.
Finished ==
    /\ calls = MaxCalls
    /\ \A c \in Clients : client[c].st = "idle"
    /\ UNCHANGED vars

Next ==
    \/ \E c \in Clients : (\E op \in Ops : Call(c, op)) \/ Step(c)
    \/ Finished

Spec == Init /\ [][Next]_vars

\* A goroutine runs once it can, and sync.RWMutex starves nobody that asked
\* for the lock (a waiting writer keeps new readers out, readers that waited go
\* before the next writer): strong fairness for the two lock operations.
FairSpec ==
    /\ Spec
    /\ \A c \in Clients : WF_vars(Step(c)) /\ SF_vars(Lock(c)) /\ SF_vars(RLock(c))

-----------------------------------------------------------------------------
(* Properties.                                                             *)

\* A call on its way, or none.
IsCall(k) ==
    /\ k = [st |-> k.st, op |-> k.op, next |-> k.next, res |-> k.res]
    /\ k.st \in ClientPC /\ k.next \in Nat
    /\ IF k.st = "idle" THEN k = Idle ELSE k.op \in Ops

\* The maps stay maps; the lock is held by a writer or by readers.
TypeOK ==
    /\ gauge \in [Ids -> Int \cup {NoVal}]
    /\ counter \in [Ids -> Int \cup {NoVal}]
    /\ writer \in Clients \cup {NoVal}
    /\ readers \subseteq Clients
    /\ DOMAIN client = Clients
    /\ \A c \in Clients : IsCall(client[c])
    /\ calls \in Nat
    /\ writer = NoVal \/ readers = {}

\* The refinement mapping. While a writer is inside, callers are still owed
\* the maps as they were when it took the lock; its write takes effect when it
\* unlocks, a read when it has read all it wants.
AbsCall(k) ==
    LET st == CASE k.st \in {"wlocked", "rlocked", "halfread"} -> "called"
                [] k.st = "unlock" -> IF IsWrite(k.op) THEN "called" ELSE "done"
                [] OTHER -> k.st
    IN  [st |-> st, op |-> k.op, res |-> IF st = "done" THEN k.res ELSE NoVal]

AbsClient == [c \in Clients |-> AbsCall(client[c])]
AbsGauge == IF writer = NoVal THEN gauge ELSE base.gauge
AbsCounter == IF writer = NoVal THEN counter ELSE base.counter

Abs == INSTANCE MetricStore WITH
    gauge <- AbsGauge, counter <- AbsCounter, client <- AbsClient

\* MemStorage implements the store of the StoreMetrics interface: batches are
\* atomic for every reader, results are those of one moment, calls return.
ImplementsMetricStore == Abs!FairSpec

\* The inductive invariant behind it. Who holds the lock, and in which mode:
Locks ==
    \A c \in Clients :
        LET k == client[c]
        IN  /\ k.st \in {"wlocked", "rlocked", "halfread", "unlock"}
               => IF IsWrite(k.op) THEN writer = c ELSE c \in readers
            /\ k.st = "wlocked" => IsWrite(k.op)
            /\ k.st \in {"rlocked", "halfread"} => ~IsWrite(k.op)
            /\ k.st = "halfread" => k.op.kind = "all" /\ k.res = counter
            /\ writer = c => k.st \in {"wlocked", "unlock"} /\ IsWrite(k.op)
            /\ c \in readers => k.st \in {"rlocked", "halfread", "unlock"}
                               /\ ~IsWrite(k.op)

\* the effect of the entries of es before the n-th on both maps;
GaugesBefore(g, es, n) ==
    [i \in Ids |-> LET ns == {m \in Abs!Entries(es, "gauge", i) : m < n}
                   IN  IF ns = {} THEN g[i] ELSE es[Max(ns)].val]

CountersBefore(k, es, n) ==
    [i \in Ids |-> LET ns == {m \in Abs!Entries(es, "counter", i) : m < n}
                       old == IF k[i] = NoVal THEN 0 ELSE k[i]
                   IN  IF ns = {} THEN k[i]
                       ELSE old + MapThenSumSet(LAMBDA m : es[m].val, ns)]

\* how far the writer is from the maps it found, to the ones it will leave.
Progress ==
    \A c \in Clients :
        LET k == client[c]
        IN  /\ k.st = "wlocked" =>
                  /\ k.next >= 1
                  /\ k.op.kind = "write" => k.next = 1
                  /\ gauge = GaugesBefore(base.gauge, k.op.entries, k.next)
                  /\ counter = CountersBefore(base.counter, k.op.entries, k.next)
            /\ k.st = "called" => k.next = 1
            /\ k.st = "unlock" /\ IsWrite(k.op) =>
                  /\ k.res = Abs!WriteResult(k.op)
                  /\ gauge = Abs!Gauges(base.gauge, k.op.entries)
                  /\ counter = Abs!Counters(base.counter, k.op.entries)

Bases ==
    /\ base = [gauge |-> base.gauge, counter |-> base.counter]
    /\ base.gauge \in [Ids -> Int \cup {NoVal}]
    /\ base.counter \in [Ids -> Int \cup {NoVal}]

LInv == TypeOK /\ Locks /\ Bases /\ Progress
=============================================================================
