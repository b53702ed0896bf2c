-------------------------- MODULE MemStorageProofs --------------------------
(***************************************************************************)
(* Proofs that the in-memory store, with its lock and its loop over the    *)
(* entries of a batch, implements the atomic store of MetricStore, for any *)
(* set of callers, ids and operations.                                     *)
(***************************************************************************)
EXTENDS MemStorage, DataLemmas, SequenceTheorems

-----------------------------------------------------------------------------
(* Batches.                                                                 *)

Val == Int \cup {NoVal}

\* The well-formed entries of a batch can be summed, and have a last one.
LEMMA EntriesProperty ==
    ASSUME NEW es \in Seq(Entry), NEW t, NEW i, NEW ns, ns \subseteq Abs!Entries(es, t, i)
    PROVE  /\ IsFiniteSet(ns) /\ \A n \in ns : es[n].val \in Int
           /\ ns # {} => Max(ns) \in ns /\ \A n \in ns : n <= Max(ns)
<1>1. Len(es) \in Nat /\ DOMAIN es = 1..Len(es)
  OBVIOUS
<1>2. ns \subseteq 1..Len(es) /\ ns \subseteq Nat /\ \A n \in ns : n <= Len(es)
  BY <1>1 DEF Abs!Entries
<1>3. IsFiniteSet(1..Len(es))
  BY <1>1, FS_Interval
<1>4. IsFiniteSet(ns)
  BY <1>2, <1>3, FS_Subset
<1>5. \A n \in ns : es[n] \in Entry
  BY <1>2, ElementOfSeq
<1>6. \A n \in ns : es[n].val \in Int
  BY <1>5 DEF Abs!Entries, Entry
<1>7. ns # {} => Max(ns) \in ns /\ \A n \in ns : n <= Max(ns)
  BY <1>1, <1>2, MaxOfBounded
<1>8. QED
  BY <1>4, <1>6, <1>7

Before(es, t, i, n) == {m \in Abs!Entries(es, t, i) : m < n}

LEMMA GaugesBeforeAt ==
    ASSUME NEW g, NEW es, NEW n, NEW i \in Ids
    PROVE  GaugesBefore(g, es, n)[i] =
              IF Before(es, "gauge", i, n) = {} THEN g[i]
              ELSE es[Max(Before(es, "gauge", i, n))].val
  BY DEF GaugesBefore, Before

LEMMA CountersBeforeAt ==
    ASSUME NEW k, NEW es, NEW n, NEW i \in Ids
    PROVE  CountersBefore(k, es, n)[i] =
              IF Before(es, "counter", i, n) = {} THEN k[i]
              ELSE (IF k[i] = NoVal THEN 0 ELSE k[i]) + SumOf(es, Before(es, "counter", i, n))
<1>1. SumOf(es, Before(es, "counter", i, n)) =
         MapThenSumSet(LAMBDA m : es[m].val, {m \in Abs!Entries(es, "counter", i) : m < n})
  BY Zenon DEF SumOf, Before
<1> DEFINE S(j) == MapThenSumSet(LAMBDA m : es[m].val, {m \in Abs!Entries(es, "counter", j) : m < n})
           B(j) == {m \in Abs!Entries(es, "counter", j) : m < n}
<1>2. CountersBefore(k, es, n) =
         [j \in Ids |-> IF B(j) = {} THEN k[j] ELSE (IF k[j] = NoVal THEN 0 ELSE k[j]) + S(j)]
  BY Zenon DEF CountersBefore
<1>3. S(i) = SumOf(es, Before(es, "counter", i, n)) /\ B(i) = Before(es, "counter", i, n)
  BY <1>1 DEF Before
<1> HIDE DEF S, B
<1>4. QED
  BY <1>2, <1>3

LEMMA CountersAt ==
    ASSUME NEW k, NEW es, NEW i \in Ids
    PROVE  Abs!Counters(k, es)[i] =
              IF Abs!Entries(es, "counter", i) = {} THEN k[i]
              ELSE (IF k[i] = NoVal THEN 0 ELSE k[i]) + SumOf(es, Abs!Entries(es, "counter", i))
<1> DEFINE S(j) == MapThenSumSet(LAMBDA m : es[m].val, Abs!Entries(es, "counter", j))
<1>1. Abs!Counters(k, es) =
         [j \in Ids |-> IF Abs!Entries(es, "counter", j) = {} THEN k[j]
                        ELSE (IF k[j] = NoVal THEN 0 ELSE k[j]) + S(j)]
  BY Zenon DEF Abs!Counters, Abs!MapThenSumSet, Abs!MapThenFoldSet, MapThenSumSet,
     MapThenFoldSet
<1>2. S(i) = SumOf(es, Abs!Entries(es, "counter", i))
  BY Zenon DEF SumOf
<1> HIDE DEF S
<1>3. QED
  BY <1>1, <1>2

\* Nothing is done before the first entry,
LEMMA BeforeFirst ==
    ASSUME NEW es \in Seq(Entry), NEW g \in [Ids -> Val], NEW k \in [Ids -> Val]
    PROVE  GaugesBefore(g, es, 1) = g /\ CountersBefore(k, es, 1) = k
<1>1. \A t, i : Before(es, t, i, 1) = {}
  BY DEF Before, Abs!Entries
<1>2. \A i \in Ids : GaugesBefore(g, es, 1)[i] = g[i] /\ CountersBefore(k, es, 1)[i] = k[i]
  BY <1>1, GaugesBeforeAt, CountersBeforeAt
<1>3. /\ GaugesBefore(g, es, 1) = [i \in Ids |-> GaugesBefore(g, es, 1)[i]]
      /\ CountersBefore(k, es, 1) = [i \in Ids |-> CountersBefore(k, es, 1)[i]]
  BY DEF GaugesBefore, CountersBefore
<1>4. QED
  BY <1>2, <1>3

\* and all of it after the last.
LEMMA BeforeEnd ==
    ASSUME NEW es \in Seq(Entry), NEW g, NEW k, NEW n \in Nat, n > Len(es)
    PROVE  /\ GaugesBefore(g, es, n) = Abs!Gauges(g, es)
           /\ CountersBefore(k, es, n) = Abs!Counters(k, es)
<1>1. \A t, i : Before(es, t, i, n) = Abs!Entries(es, t, i)
  BY DEF Before, Abs!Entries
<1>2. GaugesBefore(g, es, n) = Abs!Gauges(g, es)
  <2>1. \A i \in Ids : GaugesBefore(g, es, n)[i] = Abs!Gauges(g, es)[i]
    <3>1. \A ns : Abs!Max(ns) = Max(ns)
      BY Zenon DEF Abs!Max, Max
    <3>2. \A i \in Ids : Abs!Gauges(g, es)[i] =
             IF Abs!Entries(es, "gauge", i) = {} THEN g[i]
             ELSE es[Max(Abs!Entries(es, "gauge", i))].val
      BY <3>1 DEF Abs!Gauges
    <3>3. QED
      BY <1>1, <3>2, GaugesBeforeAt
  <2>2. /\ GaugesBefore(g, es, n) = [i \in Ids |-> GaugesBefore(g, es, n)[i]]
        /\ Abs!Gauges(g, es) = [i \in Ids |-> Abs!Gauges(g, es)[i]]
    BY DEF GaugesBefore, Abs!Gauges
  <2>3. QED
    BY <2>1, <2>2
<1>3. CountersBefore(k, es, n) = Abs!Counters(k, es)
  <2>1. \A i \in Ids : CountersBefore(k, es, n)[i] = Abs!Counters(k, es)[i]
    BY <1>1, CountersBeforeAt, CountersAt
  <2>2. /\ CountersBefore(k, es, n) = [i \in Ids |-> CountersBefore(k, es, n)[i]]
        /\ Abs!Counters(k, es) = [i \in Ids |-> Abs!Counters(k, es)[i]]
    BY DEF CountersBefore, Abs!Counters
  <2>3. QED
    BY <2>1, <2>2
<1>4. QED
  BY <1>2, <1>3

\* One entry, as Put handles it.
PutGauge(g, e) ==
    IF e.mtype = "gauge" /\ e.val # NoVal THEN [g EXCEPT ![e.id] = e.val] ELSE g

PutCounter(k, e) ==
    IF e.mtype = "counter" /\ e.val # NoVal
    THEN [k EXCEPT ![e.id] = (IF k[e.id] = NoVal THEN 0 ELSE k[e.id]) + e.val] ELSE k

LEMMA BeforeNext ==
    ASSUME NEW es \in Seq(Entry), NEW n \in DOMAIN es, NEW t, NEW i
    PROVE  /\ n \in Nat /\ es[n] \in Entry
           /\ n \in Abs!Entries(es, t, i) =>
                 /\ Before(es, t, i, n + 1) = Before(es, t, i, n) \cup {n}
                 /\ n \notin Before(es, t, i, n)
                 /\ Before(es, t, i, n + 1) # {} /\ Max(Before(es, t, i, n + 1)) = n
           /\ n \notin Abs!Entries(es, t, i) => Before(es, t, i, n + 1) = Before(es, t, i, n)
<1>1. Len(es) \in Nat /\ DOMAIN es = 1..Len(es)
  OBVIOUS
<1>2. n \in Nat /\ es[n] \in Entry /\ DOMAIN es \subseteq Nat
  BY <1>1, ElementOfSeq
<1>3. ASSUME n \in Abs!Entries(es, t, i)
      PROVE  /\ Before(es, t, i, n + 1) = Before(es, t, i, n) \cup {n}
             /\ n \notin Before(es, t, i, n)
             /\ Before(es, t, i, n + 1) # {} /\ Max(Before(es, t, i, n + 1)) = n
  <2>1. /\ Before(es, t, i, n + 1) = Before(es, t, i, n) \cup {n}
        /\ n \notin Before(es, t, i, n)
    BY <1>2, <1>3 DEF Before, Abs!Entries
  <2>2. Before(es, t, i, n + 1) \subseteq Abs!Entries(es, t, i)
    BY DEF Before
  <2>3. /\ Max(Before(es, t, i, n + 1)) \in Before(es, t, i, n + 1)
        /\ \A m \in Before(es, t, i, n + 1) : m <= Max(Before(es, t, i, n + 1))
    BY <2>1, <2>2, EntriesProperty
  <2>4. \A m \in Before(es, t, i, n + 1) : m <= n /\ m \in Nat
    BY <1>2 DEF Before, Abs!Entries
  <2>5. QED
    BY <1>2, <2>1, <2>3, <2>4
<1>4. n \notin Abs!Entries(es, t, i) => Before(es, t, i, n + 1) = Before(es, t, i, n)
  BY <1>2 DEF Before, Abs!Entries
<1>5. QED
  BY <1>2, <1>3, <1>4

LEMMA GaugesNext ==
    ASSUME NEW es \in Seq(Entry), NEW n \in DOMAIN es, NEW g \in [Ids -> Val]
    PROVE  GaugesBefore(g, es, n + 1) = PutGauge(GaugesBefore(g, es, n), es[n])
<1> DEFINE a == GaugesBefore(g, es, n)
           b == GaugesBefore(g, es, n + 1)
<1>1. a = [i \in Ids |-> a[i]] /\ b = [i \in Ids |-> b[i]]
  BY DEF GaugesBefore
<1>2. es[n].id \in Ids
  BY BeforeNext DEF Entry
<1>3. ASSUME NEW i \in Ids
      PROVE  b[i] = IF n \in Abs!Entries(es, "gauge", i) THEN es[n].val ELSE a[i]
  BY BeforeNext, GaugesBeforeAt
<1>4. \A i \in Ids : n \in Abs!Entries(es, "gauge", i) <=>
                     es[n].mtype = "gauge" /\ es[n].id = i /\ es[n].val # NoVal
  BY DEF Abs!Entries
<1> HIDE DEF a, b
<1>5. b = PutGauge(a, es[n])
  BY <1>1, <1>2, <1>3, <1>4 DEF PutGauge
<1>6. QED
  BY <1>5 DEF a, b

LEMMA CountersNext ==
    ASSUME NEW es \in Seq(Entry), NEW n \in DOMAIN es, NEW k \in [Ids -> Val]
    PROVE  CountersBefore(k, es, n + 1) = PutCounter(CountersBefore(k, es, n), es[n])
<1> DEFINE a == CountersBefore(k, es, n)
           b == CountersBefore(k, es, n + 1)
           old(i) == IF k[i] = NoVal THEN 0 ELSE k[i]
           B(i) == Before(es, "counter", i, n)
<1>1. a = [i \in Ids |-> a[i]] /\ b = [i \in Ids |-> b[i]]
  BY DEF CountersBefore
<1>2. es[n].id \in Ids
  BY BeforeNext DEF Entry
<1>3. ASSUME NEW i \in Ids, n \notin Abs!Entries(es, "counter", i)
      PROVE  b[i] = a[i]
  BY <1>3, BeforeNext, CountersBeforeAt
<1>4. ASSUME NEW i \in Ids, n \in Abs!Entries(es, "counter", i)
      PROVE  b[i] = (IF a[i] = NoVal THEN 0 ELSE a[i]) + es[n].val
  <2>1. /\ Before(es, "counter", i, n + 1) = B(i) \cup {n} /\ n \notin B(i)
        /\ B(i) \subseteq Abs!Entries(es, "counter", i)
    <3>1. B(i) \subseteq Abs!Entries(es, "counter", i)
      BY DEF Before
    <3>2. QED
      BY <1>4, <3>1, BeforeNext
  <2>2. IsFiniteSet(B(i)) /\ \A m \in B(i) \cup {n} : es[m].val \in Int
    BY <1>4, <2>1, EntriesProperty
  <2> HIDE DEF B
  <2>3. SumOf(es, B(i)) \in Int /\ SumOf(es, B(i) \cup {n}) = SumOf(es, B(i)) + es[n].val
    BY <2>1, <2>2, SumInsert
  <2>4. PICK u \in Int, v \in Int, w \in Int :
           u = old(i) /\ v = SumOf(es, B(i)) /\ w = es[n].val
    BY <2>2, <2>3 DEF Val
  <2>5. b[i] = u + (v + w)
    <3>1. B(i) \cup {n} # {}
      OBVIOUS
    <3>2. b[i] = IF Before(es, "counter", i, n + 1) = {} THEN k[i]
                 ELSE old(i) + SumOf(es, Before(es, "counter", i, n + 1))
      BY CountersBeforeAt
    <3> HIDE DEF b, old
    <3>3. b[i] = old(i) + SumOf(es, B(i) \cup {n})
      BY <2>1, <3>1, <3>2
    <3>4. QED
      BY <2>3, <2>4, <3>3
  <2>6. CASE B(i) = {}
    <3>1. a[i] = k[i] /\ v = 0
      BY <2>4, <2>6, SumEmpty, CountersBeforeAt DEF B
    <3> HIDE DEF a, b
    <3>2. (IF a[i] = NoVal THEN 0 ELSE a[i]) = u
      BY <2>4, <3>1
    <3>3. QED
      BY <2>4, <2>5, <3>1, <3>2
  <2>7. CASE B(i) # {}
    <3>1. a[i] = u + v
      BY <2>4, <2>7, CountersBeforeAt DEF B
    <3> HIDE DEF a, b
    <3>2. a[i] \in Int
      BY <3>1
    <3>3. a[i] # NoVal
      BY <3>2, MemStorageAssumption
    <3>4. QED
      BY <2>4, <2>5, <3>1, <3>3
  <2>8. QED
    BY <2>6, <2>7
<1>5. \A i \in Ids : n \in Abs!Entries(es, "counter", i) <=>
                     es[n].mtype = "counter" /\ es[n].id = i /\ es[n].val # NoVal
  BY DEF Abs!Entries
<1> HIDE DEF a, b
<1>6. b = PutCounter(a, es[n])
  <2>1. CASE es[n].mtype = "counter" /\ es[n].val # NoVal
    <3> DEFINE x == (IF a[es[n].id] = NoVal THEN 0 ELSE a[es[n].id]) + es[n].val
    <3>1. b[es[n].id] = x /\ \A i \in Ids : i # es[n].id => b[i] = a[i]
      BY <1>2, <1>3, <1>4, <1>5, <2>1
    <3>2. PutCounter(a, es[n]) = [a EXCEPT ![es[n].id] = x]
      BY <2>1 DEF PutCounter
    <3> HIDE DEF x
    <3>3. QED
      BY <1>1, <1>2, <3>1, <3>2
  <2>2. CASE ~(es[n].mtype = "counter" /\ es[n].val # NoVal)
    <3>1. \A i \in Ids : b[i] = a[i]
      BY <1>3, <1>5, <2>2
    <3>2. PutCounter(a, es[n]) = a
      BY <2>2 DEF PutCounter
    <3>3. QED
      BY <1>1, <3>1, <3>2
  <2>3. QED
    BY <2>1, <2>2
<1>7. QED
  BY <1>6 DEF a, b

-----------------------------------------------------------------------------
(* The actions, one call at a time.                                         *)

LEMMA OpProperty ==
    ASSUME NEW op \in Ops
    PROVE  /\ IsWrite(op) => op.entries \in Seq(Entry) /\ Len(op.entries) \in Nat
           /\ op.kind = "write" => Len(op.entries) = 1 /\ 1 \in DOMAIN op.entries
           /\ ~IsWrite(op) => op.kind \in {"get", "all"}
           /\ op.kind = "get" => op.id \in Ids
           /\ Abs!IsWrite(op) <=> IsWrite(op)
<1>1. /\ IsWrite(op) => op.entries \in Seq(Entry)
      /\ op.kind = "write" => Len(op.entries) = 1
      /\ ~IsWrite(op) => op.kind \in {"get", "all"}
      /\ op.kind = "get" => op.id \in Ids
  BY MemStorageAssumption DEF IsWrite
<1>2. Abs!IsWrite(op) <=> IsWrite(op)
  BY DEF IsWrite, Abs!IsWrite
<1>3. IsWrite(op) => Len(op.entries) \in Nat /\ DOMAIN op.entries = 1..Len(op.entries)
  BY <1>1
<1>4. op.kind = "write" => IsWrite(op)
  BY DEF IsWrite
<1>5. QED
  BY <1>1, <1>2, <1>3, <1>4

\* Only the call of c goes on: it is now k.
Becomes(c, k) ==
    /\ DOMAIN client' = Clients
    /\ client'[c] = k
    /\ \A d \in Clients : d # c => client'[d] = client[d]

LEMMA NewResult ==
    ASSUME TypeOK, NEW c \in Clients, NEW s, NEW r,
           client' = [client EXCEPT ![c].st = s, ![c].res = r]
    PROVE  Becomes(c, [st |-> s, op |-> client[c].op, next |-> client[c].next, res |-> r])
<1>1. PICK k : k = client[c]
  OBVIOUS
<1>2. k = [st |-> k.st, op |-> k.op, next |-> k.next, res |-> k.res]
  BY <1>1 DEF TypeOK, IsCall
<1>3. client'[c] = [k EXCEPT !.st = s, !.res = r]
  BY <1>1 DEF TypeOK
<1>4. PICK x : x = [k EXCEPT !.st = s]
  OBVIOUS
<1>5. x = [st |-> s, op |-> k.op, next |-> k.next, res |-> k.res]
  BY <1>2, <1>4
<1>6. client'[c] = [x EXCEPT !.res = r]
  BY <1>3, <1>4
<1>7. client'[c] = [st |-> s, op |-> k.op, next |-> k.next, res |-> r]
  BY <1>5, <1>6
<1>8. DOMAIN client' = Clients /\ \A d \in Clients : d # c => client'[d] = client[d]
  BY DEF TypeOK
<1>9. QED
  BY <1>1, <1>7, <1>8 DEF Becomes

LEMMA InitInv == Init => LInv
<1> SUFFICES ASSUME Init PROVE LInv
  OBVIOUS
<1>1. \A c \in Clients : client[c] = Idle /\ IsCall(client[c]) /\ client[c].st = "idle"
  BY DEF Init, Idle, IsCall, ClientPC
<1>2. TypeOK
  BY <1>1 DEF Init, TypeOK
<1>3. Locks /\ Progress
  BY <1>1, MemStorageAssumption DEF Init, Locks, Progress
<1>4. Bases
  BY DEF Init, Bases
<1>5. QED
  BY <1>2, <1>3, <1>4 DEF LInv

LEMMA CallInv ==
    ASSUME LInv, NEW c \in Clients, NEW op \in Ops, Call(c, op)
    PROVE  LInv' /\ Becomes(c, [st |-> "called", op |-> op, next |-> 1, res |-> NoVal])
<1> USE DEF LInv
<1> DEFINE k == [st |-> "called", op |-> op, next |-> 1, res |-> NoVal]
<1>1. Becomes(c, k) /\ client[c].st = "idle"
  BY DEF Call, Becomes, TypeOK
<1>2. IsCall(k) /\ k.st = "called" /\ k.next = 1
  BY DEF IsCall, ClientPC
<1>3. TypeOK'
  BY <1>1, <1>2 DEF Call, Becomes, TypeOK
<1>4. Locks'
  BY <1>1 DEF Call, Becomes, Locks
<1>5. Bases' /\ Progress'
  BY <1>1 DEF Call, Becomes, Bases, Progress
<1>6. QED
  BY <1>1, <1>3, <1>4, <1>5

LEMMA LockInv ==
    ASSUME LInv, NEW c \in Clients, Lock(c)
    PROVE  /\ LInv'
           /\ Becomes(c, [st |-> "wlocked", op |-> client[c].op, next |-> client[c].next,
                          res |-> client[c].res])
<1> USE DEF LInv
<1> DEFINE k == [st |-> "wlocked", op |-> client[c].op, next |-> client[c].next, res |-> client[c].res]
<1>1. Becomes(c, k) /\ client[c].op \in Ops
  BY DEF Lock, Becomes, TypeOK, IsCall
<1>2. IsCall(k)
  BY <1>1 DEF IsCall, ClientPC, TypeOK
<1>3. TypeOK'
  BY <1>1, <1>2 DEF Lock, Becomes, TypeOK
<1>4. Locks'
  <2>1. \A d \in Clients : client[d].st \notin {"wlocked", "rlocked", "halfread", "unlock"}
    BY MemStorageAssumption DEF Lock, Locks
  <2>2. QED
    BY <1>1, <2>1, MemStorageAssumption DEF Lock, Becomes, Locks
<1>5. base' = [gauge |-> gauge, counter |-> counter] /\ gauge' = gauge /\ counter' = counter
  BY DEF Lock
<1>6. Bases'
  BY <1>5 DEF Bases, TypeOK
<1>7. Progress'
  <2>1. /\ gauge = GaugesBefore(gauge, k.op.entries, 1)
        /\ counter = CountersBefore(counter, k.op.entries, 1)
    BY <1>1, OpProperty, BeforeFirst DEF Lock, TypeOK, Val
  <2>2. k.next = 1
    BY DEF Lock, Progress
  <2>3. \A d \in Clients : client[d].st \notin {"wlocked", "rlocked", "halfread", "unlock"}
    BY MemStorageAssumption DEF Lock, Locks
  <2>4. QED
    BY <1>1, <1>5, <2>1, <2>2, <2>3 DEF Becomes, Progress
<1>8. QED
  BY <1>1, <1>3, <1>4, <1>6, <1>7

LEMMA RLockInv ==
    ASSUME LInv, NEW c \in Clients, RLock(c)
    PROVE  /\ LInv'
           /\ Becomes(c, [st |-> "rlocked", op |-> client[c].op, next |-> client[c].next,
                          res |-> client[c].res])
<1> USE DEF LInv
<1> DEFINE k == [st |-> "rlocked", op |-> client[c].op, next |-> client[c].next, res |-> client[c].res]
<1>1. Becomes(c, k) /\ client[c].op \in Ops
  BY DEF RLock, Becomes, TypeOK, IsCall
<1>2. IsCall(k)
  BY <1>1 DEF IsCall, ClientPC, TypeOK
<1>3. TypeOK'
  BY <1>1, <1>2 DEF RLock, Becomes, TypeOK
<1>4. Locks'
  BY <1>1, MemStorageAssumption DEF RLock, Becomes, Locks
<1>5. Bases' /\ Progress'
  BY <1>1 DEF RLock, Becomes, Bases, Progress
<1>6. QED
  BY <1>1, <1>3, <1>4, <1>5

\* Put, in terms of the two maps.
LEMMA PutProperty ==
    ASSUME TypeOK, NEW e \in Entry, Put(e)
    PROVE  /\ gauge' = PutGauge(gauge, e) /\ counter' = PutCounter(counter, e)
           /\ gauge' \in [Ids -> Val] /\ counter' \in [Ids -> Val]
<1>1. gauge' = PutGauge(gauge, e) /\ counter' = PutCounter(counter, e)
  BY DEF Put, PutGauge, PutCounter, TypeOK, Entry
<1>2. gauge' \in [Ids -> Val]
  BY DEF Put, TypeOK, Entry, Val
<1>3. counter' \in [Ids -> Val]
  <2>1. CASE e.mtype = "counter" /\ e.val # NoVal
    <3> DEFINE x == (IF counter[e.id] = NoVal THEN 0 ELSE counter[e.id]) + e.val
    <3>1. x \in Int
      BY <2>1 DEF TypeOK, Entry
    <3>2. counter' = [counter EXCEPT ![e.id] = x]
      BY <2>1 DEF Put
    <3> HIDE DEF x
    <3>3. QED
      BY <3>1, <3>2 DEF TypeOK, Val
  <2>2. CASE ~(e.mtype = "counter" /\ e.val # NoVal)
    BY <2>2 DEF Put, TypeOK, Val
  <2>3. QED
    BY <2>1, <2>2
<1>4. QED
  BY <1>1, <1>2, <1>3

\* A writer inside is alone.
LEMMA WriterAlone ==
    ASSUME LInv, NEW c \in Clients, client[c].st = "wlocked"
    PROVE  /\ writer = c /\ readers = {} /\ IsWrite(client[c].op) /\ client[c].op \in Ops
           /\ \A d \in Clients : d # c =>
                 client[d].st \notin {"wlocked", "rlocked", "halfread", "unlock"}
<1>1. writer = c /\ IsWrite(client[c].op) /\ client[c].op \in Ops
  BY DEF LInv, Locks, TypeOK, IsCall
<1>2. readers = {}
  BY <1>1, MemStorageAssumption DEF LInv, TypeOK
<1>3. QED
  BY <1>1, <1>2 DEF LInv, Locks

LEMMA WriteMetricInv ==
    ASSUME LInv, NEW c \in Clients, WriteMetric(c)
    PROVE  /\ LInv'
           /\ Becomes(c, [st |-> "unlock", op |-> client[c].op, next |-> client[c].next,
                          res |-> Abs!WriteResult(client[c].op)])
<1> USE DEF LInv
<1> DEFINE op == client[c].op
           k == [st |-> "unlock", op |-> op, next |-> client[c].next, res |-> Abs!WriteResult(op)]
<1>1. op \in Ops /\ op.kind = "write" /\ op.entries \in Seq(Entry) /\ Len(op.entries) = 1
      /\ op.entries[1] \in Entry /\ 1 \in DOMAIN op.entries
  <2>1. op \in Ops /\ op.kind = "write" /\ IsWrite(op)
    BY DEF WriteMetric, TypeOK, IsCall, IsWrite
  <2>2. op.entries \in Seq(Entry) /\ Len(op.entries) = 1
    BY <2>1, OpProperty
  <2>3. QED
    BY <2>1, <2>2, ElementOfSeq
<1>2. Becomes(c, k)
  <2>1. client' = [client EXCEPT ![c].st = "unlock", ![c].res = Abs!WriteResult(op)]
    BY <1>1 DEF WriteMetric, Abs!WriteResult
  <2>2. PICK r : r = Abs!WriteResult(op)
    OBVIOUS
  <2>3. client' = [client EXCEPT ![c].st = "unlock", ![c].res = r]
    BY <2>1, <2>2
  <2>4. Becomes(c, [st |-> "unlock", op |-> op, next |-> client[c].next, res |-> r])
    BY <2>3, NewResult
  <2>5. QED
    BY <2>2, <2>4
<1>3. /\ gauge' = PutGauge(gauge, op.entries[1]) /\ counter' = PutCounter(counter, op.entries[1])
      /\ gauge' \in [Ids -> Val] /\ counter' \in [Ids -> Val]
  BY <1>1, PutProperty DEF WriteMetric
<1>4. UNCHANGED <<writer, readers, calls, base>> /\ client[c].st = "wlocked"
  BY DEF WriteMetric
<1>5. /\ writer = c /\ readers = {} /\ IsWrite(op)
      /\ \A d \in Clients : d # c => client[d].st \notin {"wlocked", "rlocked", "halfread", "unlock"}
  BY <1>4, WriterAlone
<1>6. IsCall(k)
  BY <1>1 DEF IsCall, ClientPC, TypeOK
<1>7. TypeOK'
  BY <1>2, <1>3, <1>4, <1>6 DEF Becomes, TypeOK, Val
<1>8. Locks'
  BY <1>2, <1>4, <1>5 DEF Becomes, Locks
<1>9. Bases'
  BY <1>4 DEF Bases
<1>10. Progress'
  <2>1. /\ gauge = GaugesBefore(base.gauge, op.entries, 1)
        /\ counter = CountersBefore(base.counter, op.entries, 1)
    BY <1>1, <1>4 DEF Progress
  <2>2. /\ gauge' = GaugesBefore(base.gauge, op.entries, 1 + 1)
        /\ counter' = CountersBefore(base.counter, op.entries, 1 + 1)
    BY <1>1, <1>3, <2>1, GaugesNext, CountersNext DEF Bases, Val
  <2>3. /\ gauge' = Abs!Gauges(base.gauge, op.entries)
        /\ counter' = Abs!Counters(base.counter, op.entries)
    <3>1. 1 + 1 \in Nat /\ 1 + 1 > Len(op.entries)
      BY <1>1
    <3> HIDE DEF op
    <3>2. QED
      BY <1>1, <2>2, <3>1, BeforeEnd
  <2>4. QED
    BY <1>2, <1>4, <1>5, <2>3 DEF Becomes, Progress
<1>11. QED
  BY <1>2, <1>7, <1>8, <1>9, <1>10

LEMMA WriteBatchEntryInv ==
    ASSUME LInv, NEW c \in Clients, WriteBatchEntry(c)
    PROVE  /\ LInv'
           /\ Becomes(c, [st |-> "wlocked", op |-> client[c].op, next |-> client[c].next + 1,
                          res |-> client[c].res])
<1> USE DEF LInv
<1> DEFINE op == client[c].op
           es == op.entries
           n == client[c].next
           k == [st |-> "wlocked", op |-> op, next |-> n + 1, res |-> client[c].res]
<1>1. UNCHANGED <<writer, readers, calls, base>> /\ client[c].st = "wlocked" /\ op.kind = "batch"
  BY DEF WriteBatchEntry
<1>2. /\ writer = c /\ readers = {} /\ IsWrite(op) /\ op \in Ops
      /\ \A d \in Clients : d # c => client[d].st \notin {"wlocked", "rlocked", "halfread", "unlock"}
  BY <1>1, WriterAlone
<1>3. es \in Seq(Entry) /\ n \in DOMAIN es /\ n \in Nat /\ n >= 1 /\ es[n] \in Entry
  <2>1. es \in Seq(Entry) /\ n \in Nat /\ n >= 1 /\ n <= Len(es)
    BY <1>1, <1>2, OpProperty DEF WriteBatchEntry, TypeOK, IsCall, Progress
  <2>2. n \in DOMAIN es
    BY <2>1
  <2>3. QED
    BY <2>1, <2>2, ElementOfSeq
<1>4. Becomes(c, k)
  BY <1>1 DEF WriteBatchEntry, Becomes, TypeOK, IsCall
<1>5. /\ gauge' = PutGauge(gauge, es[n]) /\ counter' = PutCounter(counter, es[n])
      /\ gauge' \in [Ids -> Val] /\ counter' \in [Ids -> Val]
  BY <1>3, PutProperty DEF WriteBatchEntry
<1>6. IsCall(k)
  BY <1>2, <1>3 DEF IsCall, ClientPC
<1>7. TypeOK'
  BY <1>1, <1>4, <1>5, <1>6 DEF Becomes, TypeOK, Val
<1>8. Locks'
  BY <1>1, <1>2, <1>4 DEF Becomes, Locks
<1>9. Bases'
  BY <1>1 DEF Bases
<1>10. Progress'
  <2>1. /\ gauge = GaugesBefore(base.gauge, es, n)
        /\ counter = CountersBefore(base.counter, es, n)
    BY <1>1 DEF Progress
  <2>2. /\ gauge' = GaugesBefore(base.gauge, es, n + 1)
        /\ counter' = CountersBefore(base.counter, es, n + 1)
    BY <1>3, <1>5, <2>1, GaugesNext, CountersNext DEF Bases, Val
  <2>3. n + 1 >= 1
    BY <1>3
  <2>4. ASSUME NEW d \in Clients PROVE Progress!(d)'
    <3>1. CASE d = c
      BY <1>1, <1>4, <2>2, <2>3, <3>1 DEF Becomes
    <3>2. CASE d # c
      BY <1>1, <1>2, <1>4, <3>2 DEF Becomes, Progress
    <3>3. QED
      BY <3>1, <3>2
  <2>5. QED
    BY <2>4 DEF Progress
<1>11. QED
  BY <1>4, <1>7, <1>8, <1>9, <1>10

LEMMA WriteBatchReturnInv ==
    ASSUME LInv, NEW c \in Clients, WriteBatchReturn(c)
    PROVE  /\ LInv'
           /\ Becomes(c, [st |-> "unlock", op |-> client[c].op, next |-> client[c].next,
                          res |-> "ok"])
<1> USE DEF LInv
<1> DEFINE op == client[c].op
           es == op.entries
           n == client[c].next
           k == [st |-> "unlock", op |-> op, next |-> n, res |-> "ok"]
<1>1. /\ UNCHANGED <<gauge, counter, writer, readers, calls, base>> /\ client[c].st = "wlocked"
      /\ op.kind = "batch"
  BY DEF WriteBatchReturn
<1>2. /\ writer = c /\ readers = {} /\ IsWrite(op) /\ op \in Ops
      /\ \A d \in Clients : d # c => client[d].st \notin {"wlocked", "rlocked", "halfread", "unlock"}
  BY <1>1, WriterAlone
<1>3. es \in Seq(Entry) /\ n \in Nat /\ n > Len(es)
  BY <1>1, <1>2, OpProperty DEF WriteBatchReturn, TypeOK, IsCall
<1>4. Becomes(c, k)
  BY NewResult DEF WriteBatchReturn
<1>5. IsCall(k)
  BY <1>2, <1>3 DEF IsCall, ClientPC
<1>6. TypeOK'
  BY <1>1, <1>4, <1>5 DEF Becomes, TypeOK
<1>7. Locks'
  BY <1>1, <1>2, <1>4 DEF Becomes, Locks
<1>8. Bases'
  BY <1>1 DEF Bases
<1>9. Progress'
  <2>1. /\ gauge = Abs!Gauges(base.gauge, es)
        /\ counter = Abs!Counters(base.counter, es)
    BY <1>1, <1>3, BeforeEnd DEF Progress
  <2>2. Abs!WriteResult(op) = "ok"
    BY <1>1 DEF Abs!WriteResult
  <2>3. ASSUME NEW d \in Clients PROVE Progress!(d)'
    <3>1. CASE d = c
      BY <1>1, <1>4, <2>1, <2>2, <3>1 DEF Becomes
    <3>2. CASE d # c
      BY <1>1, <1>2, <1>4, <3>2 DEF Becomes, Progress
    <3>3. QED
      BY <3>1, <3>2
  <2>4. QED
    BY <2>3 DEF Progress
<1>10. QED
  BY <1>4, <1>6, <1>7, <1>8, <1>9

\* A step of a reader, which holds the read lock before and after it.
LEMMA ReaderInv ==
    ASSUME LInv, NEW c \in Clients, NEW r,
           UNCHANGED <<gauge, counter, writer, readers, calls, base>>,
           \/ /\ client[c].st = "rlocked" /\ client[c].op.kind = "all" /\ r = counter
              /\ client' = [client EXCEPT ![c].st = "halfread", ![c].res = r]
           \/ /\ client[c].st \in {"rlocked", "halfread"}
              /\ client' = [client EXCEPT ![c].st = "unlock", ![c].res = r]
    PROVE  LInv'
<1> USE DEF LInv
<1>1. PICK s \in {"halfread", "unlock"} :
         /\ client' = [client EXCEPT ![c].st = s, ![c].res = r]
         /\ s = "halfread" => client[c].op.kind = "all" /\ r = counter
  OBVIOUS
<1> DEFINE k == [st |-> s, op |-> client[c].op, next |-> client[c].next, res |-> r]
<1>2. Becomes(c, k)
  BY <1>1, NewResult
<1>3. client[c].op \in Ops /\ c \in readers /\ ~IsWrite(client[c].op) /\ writer # c
  BY DEF TypeOK, IsCall, Locks
<1>4. IsCall(k)
  BY <1>3 DEF IsCall, ClientPC, TypeOK
<1>5. TypeOK'
  BY <1>2, <1>4 DEF Becomes, TypeOK
<1>6. Locks'
  BY <1>1, <1>2, <1>3 DEF Becomes, Locks
<1>7. Bases'
  BY DEF Bases
<1>8. Progress'
  BY <1>1, <1>2, <1>3 DEF Becomes, Progress
<1>9. QED
  BY <1>5, <1>6, <1>7, <1>8

LEMMA ReadersInv ==
    ASSUME LInv, NEW c \in Clients, GetMetric(c) \/ GetAllCounters(c) \/ GetAllGauges(c)
    PROVE  LInv'
<1>1. CASE GetMetric(c)
  <2>1. PICK r : client' = [client EXCEPT ![c].st = "unlock", ![c].res = r]
    BY <1>1 DEF GetMetric
  <2>2. QED
    BY <1>1, <2>1, ReaderInv DEF GetMetric
<1>2. CASE GetAllCounters(c)
  <2>1. PICK r : r = counter /\ client' = [client EXCEPT ![c].st = "halfread", ![c].res = r]
    BY <1>2 DEF GetAllCounters
  <2>2. QED
    BY <1>2, <2>1, ReaderInv DEF GetAllCounters
<1>3. CASE GetAllGauges(c)
  <2>1. PICK r : client' = [client EXCEPT ![c].st = "unlock", ![c].res = r]
    BY <1>3 DEF GetAllGauges
  <2>2. QED
    BY <1>3, <2>1, ReaderInv DEF GetAllGauges
<1>4. QED
  BY <1>1, <1>2, <1>3

LEMMA UnlockInv ==
    ASSUME LInv, NEW c \in Clients, Unlock(c)
    PROVE  /\ LInv'
           /\ Becomes(c, [st |-> "done", op |-> client[c].op, next |-> client[c].next,
                          res |-> client[c].res])
<1> USE DEF LInv
<1> DEFINE k == [st |-> "done", op |-> client[c].op, next |-> client[c].next, res |-> client[c].res]
<1>1. Becomes(c, k) /\ client[c].op \in Ops /\ client[c].st = "unlock"
  BY DEF Unlock, Becomes, TypeOK, IsCall
<1>2. /\ writer' = IF writer = c THEN NoVal ELSE writer
      /\ readers' = readers \ {c} /\ UNCHANGED <<gauge, counter, calls, base>>
  BY DEF Unlock
<1>3. IsCall(k)
  BY <1>1 DEF IsCall, ClientPC, TypeOK
<1>4. TypeOK'
  BY <1>1, <1>2, <1>3 DEF Becomes, TypeOK
<1>5. Locks'
  BY <1>1, <1>2, MemStorageAssumption DEF Becomes, Locks
<1>6. Bases' /\ Progress'
  BY <1>1, <1>2 DEF Becomes, Bases, Progress
<1>7. QED
  BY <1>1, <1>4, <1>5, <1>6

LEMMA ReturnInv ==
    ASSUME LInv, NEW c \in Clients, Return(c)
    PROVE  LInv' /\ Becomes(c, Idle)
<1> USE DEF LInv
<1>1. Becomes(c, Idle) /\ client[c].st = "done"
  BY DEF Return, Becomes, TypeOK
<1>2. IsCall(Idle) /\ Idle.st = "idle"
  BY DEF IsCall, ClientPC, Idle
<1>3. TypeOK'
  BY <1>1, <1>2 DEF Return, Becomes, TypeOK
<1>4. Locks'
  BY <1>1, <1>2 DEF Return, Becomes, Locks
<1>5. Bases' /\ Progress'
  BY <1>1, <1>2 DEF Return, Becomes, Bases, Progress
<1>6. QED
  BY <1>1, <1>3, <1>4, <1>5

LEMMA StepInv ==
    ASSUME LInv, [Next]_vars
    PROVE  LInv'
<1>1. CASE \E c \in Clients : (\E op \in Ops : Call(c, op)) \/ Step(c)
  BY <1>1, CallInv, LockInv, RLockInv, WriteMetricInv, WriteBatchEntryInv,
     WriteBatchReturnInv, ReadersInv, UnlockInv, ReturnInv DEF Step
<1>2. CASE UNCHANGED vars
  <2>1. UNCHANGED <<gauge, counter, writer, readers, client, calls, base>>
    BY <1>2 DEF vars
  <2>2. TypeOK' /\ Locks'
    BY <2>1 DEF LInv, TypeOK, Locks
  <2>3. Bases' /\ Progress'
    BY <2>1 DEF LInv, Bases, Progress
  <2>4. QED
    BY <2>2, <2>3 DEF LInv
<1>3. QED
  BY <1>1, <1>2 DEF Next, Finished

-----------------------------------------------------------------------------
(* Every step is a step of MetricStore, or none.                            *)

LEMMA AbsBecomes ==
    ASSUME NEW c \in Clients, NEW k, Becomes(c, k)
    PROVE  /\ AbsClient' = [AbsClient EXCEPT ![c] = AbsCall(k)]
           /\ AbsCall(k) = AbsCall(client[c]) => AbsClient' = AbsClient
<1>1. \A d \in Clients : AbsClient'[d] = IF d = c THEN AbsCall(k) ELSE AbsClient[d]
  BY DEF Becomes, AbsClient
<1>2. AbsClient' = [d \in Clients |-> AbsClient'[d]] /\ AbsClient = [d \in Clients |-> AbsClient[d]]
  BY DEF AbsClient
<1>3. AbsClient[c] = AbsCall(client[c])
  BY DEF AbsClient
<1> HIDE DEF AbsClient, AbsCall
<1>4. QED
  BY <1>1, <1>2, <1>3

\* A step that callers cannot see.
LEMMA Invisible ==
    ASSUME NEW c \in Clients, NEW k, Becomes(c, k), AbsCall(k) = AbsCall(client[c]),
           AbsGauge' = AbsGauge, AbsCounter' = AbsCounter, calls' = calls
    PROVE  UNCHANGED Abs!vars
  BY AbsBecomes DEF Abs!vars

\* The operation of c takes effect with the result r.
LEMMA Done ==
    ASSUME NEW c \in Clients, NEW k, NEW op, NEW r, Becomes(c, k),
           AbsCall(client[c]) = [st |-> "called", op |-> op, res |-> NoVal],
           AbsCall(k) = [st |-> "done", op |-> op, res |-> r]
    PROVE  /\ AbsClient[c].st = "called" /\ AbsClient[c].op = op
           /\ AbsClient' = [AbsClient EXCEPT ![c].st = "done", ![c].res = r]
<1>1. AbsClient' = [AbsClient EXCEPT ![c] = AbsCall(k)]
  BY AbsBecomes
<1>2. AbsClient[c] = [st |-> "called", op |-> op, res |-> NoVal] /\ DOMAIN AbsClient = Clients
  BY DEF AbsClient
<1>3. PICK f : f = AbsClient
  OBVIOUS
<1>4. PICK x : x = [st |-> "done", op |-> op, res |-> NoVal]
  OBVIOUS
<1> HIDE DEF AbsClient, AbsCall
<1>5. [f EXCEPT ![c].st = "done"] = [f EXCEPT ![c] = x]
  <2>1. [f[c] EXCEPT !.st = "done"] = x
    BY <1>2, <1>3, <1>4
  <2>2. [f EXCEPT ![c].st = "done"] = [f EXCEPT ![c] = [f[c] EXCEPT !.st = "done"]]
    OBVIOUS
  <2>3. QED
    BY <2>1, <2>2
<1>6. [x EXCEPT !.res = r] = [st |-> "done", op |-> op, res |-> r]
  BY <1>4
<1>7. PICK h : h = [f EXCEPT ![c] = x]
  OBVIOUS
<1>8. h[c] = x /\ [h EXCEPT ![c].res = r] = [h EXCEPT ![c] = [x EXCEPT !.res = r]]
  BY <1>2, <1>3, <1>7
<1>9. [h EXCEPT ![c].res = r] = [f EXCEPT ![c] = [st |-> "done", op |-> op, res |-> r]]
  BY <1>2, <1>3, <1>6, <1>7, <1>8
<1>10. [f EXCEPT ![c].st = "done", ![c].res = r] = [h EXCEPT ![c].res = r]
  BY <1>5, <1>7
<1>11. AbsClient' = [f EXCEPT ![c].st = "done", ![c].res = r]
  BY <1>1, <1>3, <1>9, <1>10
<1>12. AbsClient[c].st = "called" /\ AbsClient[c].op = op
  BY <1>2
<1>13. QED
  BY <1>3, <1>11, <1>12

LEMMA CallRefines ==
    ASSUME LInv, NEW c \in Clients, NEW op \in Ops, Call(c, op)
    PROVE  Abs!Next
<1> DEFINE k == [st |-> "called", op |-> op, next |-> 1, res |-> NoVal]
<1>1. Becomes(c, k)
  BY CallInv
<1>2. AbsCall(k) = [st |-> "called", op |-> op, res |-> NoVal]
  BY DEF AbsCall
<1>3. AbsClient' = [AbsClient EXCEPT ![c] = [st |-> "called", op |-> op, res |-> NoVal]]
  BY <1>1, <1>2, AbsBecomes
<1>4. AbsClient[c].st = "idle"
  BY DEF Call, AbsClient, AbsCall
<1>5. AbsGauge' = AbsGauge /\ AbsCounter' = AbsCounter /\ calls < MaxCalls /\ calls' = calls + 1
  BY DEF Call, AbsGauge, AbsCounter
<1>6. Abs!Call(c, op)
  BY <1>3, <1>4, <1>5 DEF Abs!Call
<1>7. QED
  BY <1>6 DEF Abs!Next

LEMMA LockRefines ==
    ASSUME LInv, NEW c \in Clients, Lock(c) \/ RLock(c)
    PROVE  UNCHANGED Abs!vars
<1>1. AbsGauge' = AbsGauge /\ AbsCounter' = AbsCounter /\ calls' = calls
  BY MemStorageAssumption DEF Lock, RLock, AbsGauge, AbsCounter
<1>2. PICK s \in {"wlocked", "rlocked"} :
         Becomes(c, [st |-> s, op |-> client[c].op, next |-> client[c].next, res |-> client[c].res])
  BY LockInv, RLockInv
<1>3. AbsCall([st |-> s, op |-> client[c].op, next |-> client[c].next, res |-> client[c].res])
        = AbsCall(client[c])
  BY DEF AbsCall, Lock, RLock
<1>4. QED
  BY <1>1, <1>2, <1>3, Invisible

\* The steps of a writer that holds the lock are not seen before it unlocks.
LEMMA WriterRefines ==
    ASSUME LInv, NEW c \in Clients, WriteMetric(c) \/ WriteBatchEntry(c) \/ WriteBatchReturn(c)
    PROVE  UNCHANGED Abs!vars
<1>1. client[c].st = "wlocked" /\ writer' = writer /\ base' = base /\ calls' = calls
  BY DEF WriteMetric, WriteBatchEntry, WriteBatchReturn
<1>2. writer = c /\ writer # NoVal /\ IsWrite(client[c].op)
  BY <1>1, WriterAlone, MemStorageAssumption
<1>3. AbsGauge' = AbsGauge /\ AbsCounter' = AbsCounter
  BY <1>1, <1>2 DEF AbsGauge, AbsCounter
<1>4. ASSUME NEW s \in {"wlocked", "unlock"}, NEW n, NEW r,
             Becomes(c, [st |-> s, op |-> client[c].op, next |-> n, res |-> r])
      PROVE  UNCHANGED Abs!vars
  <2>1. AbsCall([st |-> s, op |-> client[c].op, next |-> n, res |-> r]) = AbsCall(client[c])
    BY <1>1, <1>2 DEF AbsCall
  <2>2. QED
    BY <1>1, <1>3, <1>4, <2>1, Invisible
<1>5. CASE WriteMetric(c)
  BY <1>4, <1>5, WriteMetricInv
<1>6. CASE WriteBatchEntry(c)
  BY <1>4, <1>6, WriteBatchEntryInv
<1>7. CASE WriteBatchReturn(c)
  BY <1>4, <1>7, WriteBatchReturnInv
<1>8. QED
  BY <1>5, <1>6, <1>7

\* A read takes effect when it has read all it wants.
HasRead(c, r) ==
    /\ client[c].st \in {"rlocked", "halfread"}
    /\ client' = [client EXCEPT ![c].st = "unlock", ![c].res = r]
    /\ UNCHANGED <<gauge, counter, writer, readers, calls, base>>

LEMMA ReadRefines ==
    ASSUME LInv, NEW c \in Clients, NEW r, HasRead(c, r),
           r = Abs!ReadResult(gauge, counter, client[c].op)
    PROVE  Abs!Next
<1> DEFINE op == client[c].op
           k == [st |-> "unlock", op |-> op, next |-> client[c].next, res |-> r]
<1>1. Becomes(c, k)
  BY NewResult DEF LInv, HasRead
<1>2. ~IsWrite(op) /\ c \in readers /\ op \in Ops
  BY DEF LInv, Locks, TypeOK, IsCall, HasRead
<1>3. writer = NoVal
  BY <1>2 DEF LInv, TypeOK
<1>4. AbsGauge' = AbsGauge /\ AbsCounter' = AbsCounter /\ AbsGauge = gauge /\ AbsCounter = counter
  BY <1>3 DEF AbsGauge, AbsCounter, HasRead
<1>5. /\ AbsCall(client[c]) = [st |-> "called", op |-> op, res |-> NoVal]
      /\ AbsCall(k) = [st |-> "done", op |-> op, res |-> r]
  BY <1>2 DEF AbsCall, HasRead
<1> HIDE DEF op, k
<1>6. /\ AbsClient[c].st = "called" /\ AbsClient[c].op = op
      /\ AbsClient' = [AbsClient EXCEPT ![c].st = "done", ![c].res = r]
  BY <1>1, <1>5, Done
<1>7. ~Abs!IsWrite(op) /\ r = Abs!ReadResult(AbsGauge, AbsCounter, op)
  BY <1>2, <1>4, OpProperty DEF op
<1>8. Abs!Apply(c)
  BY <1>4, <1>6, <1>7 DEF Abs!Apply, HasRead
<1>9. QED
  BY <1>8 DEF Abs!Next

LEMMA ReadersRefine ==
    ASSUME LInv, NEW c \in Clients, GetMetric(c) \/ GetAllCounters(c) \/ GetAllGauges(c)
    PROVE  Abs!Next \/ UNCHANGED Abs!vars
<1>1. CASE GetMetric(c)
  <2>1. PICK r : HasRead(c, r) /\ r = Abs!ReadResult(gauge, counter, client[c].op)
    BY <1>1 DEF GetMetric, HasRead, Abs!ReadResult
  <2>2. QED
    BY <2>1, ReadRefines
<1>2. CASE GetAllCounters(c)
  <2>1. Becomes(c, [st |-> "halfread", op |-> client[c].op, next |-> client[c].next, res |-> counter])
    BY <1>2, NewResult DEF GetAllCounters, LInv
  <2>2. AbsCall([st |-> "halfread", op |-> client[c].op, next |-> client[c].next, res |-> counter])
          = AbsCall(client[c])
    BY <1>2 DEF AbsCall, GetAllCounters
  <2>3. AbsGauge' = AbsGauge /\ AbsCounter' = AbsCounter /\ calls' = calls
    BY <1>2 DEF GetAllCounters, AbsGauge, AbsCounter
  <2>4. QED
    BY <2>1, <2>2, <2>3, Invisible
<1>3. CASE GetAllGauges(c)
  <2>1. client[c].op.kind = "all" /\ client[c].res = counter
    BY <1>3 DEF GetAllGauges, LInv, Locks
  <2>2. PICK r : HasRead(c, r) /\ r = [counter |-> client[c].res, gauge |-> gauge]
    BY <1>3 DEF GetAllGauges, HasRead
  <2>3. r = Abs!ReadResult(gauge, counter, client[c].op)
    BY <2>1, <2>2 DEF Abs!ReadResult
  <2>4. QED
    BY <2>2, <2>3, ReadRefines
<1>4. QED
  BY <1>1, <1>2, <1>3

\* A write takes effect, all of it, when the lock is released.
LEMMA UnlockRefines ==
    ASSUME LInv, NEW c \in Clients, Unlock(c)
    PROVE  Abs!Next \/ UNCHANGED Abs!vars
<1> DEFINE op == client[c].op
           r == client[c].res
           k == [st |-> "done", op |-> op, next |-> client[c].next, res |-> r]
<1>1. Becomes(c, k) /\ client[c].st = "unlock" /\ op \in Ops
  BY UnlockInv DEF Unlock, LInv, TypeOK, IsCall
<1>2. /\ writer' = IF writer = c THEN NoVal ELSE writer
      /\ readers' = readers \ {c} /\ UNCHANGED <<gauge, counter, calls, base>>
  BY DEF Unlock
<1>3. CASE IsWrite(op)
  <2>1. writer = c /\ writer # NoVal /\ writer' = NoVal
    BY <1>1, <1>2, <1>3, MemStorageAssumption DEF LInv, Locks
  <2>2. /\ AbsGauge = base.gauge /\ AbsCounter = base.counter
        /\ AbsGauge' = gauge /\ AbsCounter' = counter
    BY <1>2, <2>1 DEF AbsGauge, AbsCounter
  <2>3. /\ r = Abs!WriteResult(op)
        /\ gauge = Abs!Gauges(base.gauge, op.entries)
        /\ counter = Abs!Counters(base.counter, op.entries)
    BY <1>1, <1>3 DEF LInv, Progress
  <2>4. /\ AbsCall(client[c]) = [st |-> "called", op |-> op, res |-> NoVal]
        /\ AbsCall(k) = [st |-> "done", op |-> op, res |-> r]
    BY <1>1, <1>3 DEF AbsCall
  <2>5. Abs!IsWrite(op)
    BY <1>1, <1>3, OpProperty
  <2> HIDE DEF op, k, r
  <2>6. /\ AbsClient[c].st = "called" /\ AbsClient[c].op = op
        /\ AbsClient' = [AbsClient EXCEPT ![c].st = "done", ![c].res = r]
    BY <1>1, <2>4, Done
  <2>7. Abs!Apply(c)
    BY <1>2, <2>2, <2>3, <2>5, <2>6 DEF Abs!Apply
  <2>8. QED
    BY <2>7 DEF Abs!Next
<1>4. CASE ~IsWrite(op)
  <2>1. AbsCall(k) = AbsCall(client[c])
    BY <1>1, <1>4 DEF AbsCall
  <2>2. writer' = writer
    BY <1>1, <1>2, <1>4 DEF LInv, Locks
  <2>3. AbsGauge' = AbsGauge /\ AbsCounter' = AbsCounter
    BY <1>2, <2>2 DEF AbsGauge, AbsCounter
  <2>4. QED
    BY <1>1, <1>2, <2>1, <2>3, Invisible
<1>5. QED
  BY <1>3, <1>4

LEMMA ReturnRefines ==
    ASSUME LInv, NEW c \in Clients, Return(c)
    PROVE  Abs!Next
<1>1. Becomes(c, Idle)
  BY ReturnInv
<1>2. AbsCall(Idle) = Abs!Idle
  BY DEF AbsCall, Idle, Abs!Idle
<1>3. AbsClient' = [AbsClient EXCEPT ![c] = Abs!Idle]
  BY <1>1, <1>2, AbsBecomes
<1>4. AbsClient[c].st = "done"
  BY DEF Return, AbsClient, AbsCall
<1>5. AbsGauge' = AbsGauge /\ AbsCounter' = AbsCounter /\ calls' = calls
  BY DEF Return, AbsGauge, AbsCounter
<1>6. Abs!Return(c)
  BY <1>3, <1>4, <1>5 DEF Abs!Return
<1>7. QED
  BY <1>6 DEF Abs!Next

LEMMA InitRefines == Init => Abs!Init
<1> SUFFICES ASSUME Init PROVE Abs!Init
  OBVIOUS
<1>1. AbsGauge = [i \in Ids |-> NoVal] /\ AbsCounter = [i \in Ids |-> NoVal] /\ calls = 0
  BY DEF Init, AbsGauge, AbsCounter
<1>2. AbsClient = [c \in Clients |-> Abs!Idle]
  BY DEF Init, AbsClient, AbsCall, Idle, Abs!Idle
<1>3. QED
  BY <1>1, <1>2 DEF Abs!Init

LEMMA StepRefines ==
    ASSUME LInv, [Next]_vars
    PROVE  [Abs!Next]_(Abs!vars)
<1>1. CASE \E c \in Clients : (\E op \in Ops : Call(c, op)) \/ Step(c)
  BY <1>1, CallRefines, LockRefines, WriterRefines, ReadersRefine, UnlockRefines,
     ReturnRefines DEF Step
<1>2. CASE UNCHANGED vars
  BY <1>2 DEF vars, Abs!vars, AbsGauge, AbsCounter, AbsClient
<1>3. QED
  BY <1>1, <1>2 DEF Next, Finished

-----------------------------------------------------------------------------
(* The theorems.                                                            *)

\* The inductive invariant holds: a writer inside the lock is alone, and has done
\* the entries of its batch up to the current one (WriteBatchMetrics).
THEOREM MemStorageInvariant == Spec => []LInv
<1>1. LInv /\ [Next]_vars => LInv'
  BY StepInv
<1>2. QED
  BY <1>1, InitInv, PTL DEF Spec

\* The maps hold numbers, and the lock is held by one writer or by readers
\* (MemStorage's RWMutex).
THEOREM MemStorageTypes == Spec => []TypeOK
<1>1. LInv => TypeOK
  BY DEF LInv
<1>2. QED
  BY <1>1, MemStorageInvariant, PTL

\* The in-memory store implements the atomic store: batches and reads take effect
\* at one moment, with the results of that moment (WriteMetric,
\* WriteBatchMetrics, GetMetric, GetAllMetricsTxt). That calls return is the part
\* of ImplementsMetricStore left to TLC.
THEOREM MemStorageImplementsMetricStore == Spec => Abs!Spec
<1>1. LInv /\ [Next]_vars => [Abs!Next]_(Abs!vars)
  BY StepRefines
<1>2. QED
  BY <1>1, InitRefines, MemStorageInvariant, PTL DEF Spec, Abs!Spec
=============================================================================
