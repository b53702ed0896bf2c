----------------------------- MODULE PgDBProofs -----------------------------
(***************************************************************************)
(* Proofs about the writes of the PostgreSQL store: for any set of         *)
(* handlers, rows and batches, with or without lost connections, the       *)
(* counters that no statement raced on hold exactly what was committed.    *)
(*                                                                         *)
(* PInv is inductive: one lemma for each action of the specification.      *)
(***************************************************************************)
EXTENDS PgDB, DataLemmas, SequenceTheorems

-----------------------------------------------------------------------------
(* Batches.                                                                 *)

LEMMA EntryAt ==
    ASSUME NEW es \in Seq(Entry)
    PROVE  /\ Len(es) \in Nat /\ DOMAIN es = 1..Len(es)
           /\ \A n \in DOMAIN es : /\ es[n] \in Entry /\ es[n].id \in Ids
                                   /\ WellFormed(es[n]) => es[n].val \in Int
<1>1. Len(es) \in Nat /\ DOMAIN es = 1..Len(es)
  OBVIOUS
<1>2. \A n \in DOMAIN es : es[n] \in Entry
  BY ElementOfSeq
<1>3. QED
  BY <1>1, <1>2 DEF Entry, WellFormed

\* Any of the counter entries can be summed.
LEMMA Summable ==
    ASSUME NEW es \in Seq(Entry), NEW i, NEW ns, ns \subseteq CounterEntries(es, i)
    PROVE  IsFiniteSet(ns) /\ \A n \in ns : es[n].val \in Int
<1>1. Len(es) \in Nat /\ ns \subseteq 1..Len(es)
  BY EntryAt DEF CounterEntries
<1>2. IsFiniteSet(1..Len(es))
  BY <1>1, FS_Interval
<1>3. IsFiniteSet(ns)
  BY <1>1, <1>2, FS_Subset
<1>4. \A n \in ns : es[n].val \in Int
  BY EntryAt DEF CounterEntries
<1>5. QED
  BY <1>3, <1>4

Before(es, k, i) == {n \in CounterEntries(es, i) : n < k}

LEMMA SoFarSum ==
    ASSUME NEW es, NEW k, NEW i
    PROVE  SoFar(es, k, i) = SumOf(es, Before(es, k, i))
  BY Zenon DEF SoFar, SumOf, Before

LEMMA DeltaSum ==
    ASSUME NEW es, NEW i
    PROVE  Delta(es, i) = SumOf(es, CounterEntries(es, i))
  BY Zenon DEF Delta, SumOf

LEMMA SoFarType ==
    ASSUME NEW es \in Seq(Entry), NEW k, NEW i
    PROVE  SoFar(es, k, i) \in Int /\ Delta(es, i) \in Int
<1>1. Before(es, k, i) \subseteq CounterEntries(es, i)
  BY DEF Before
<1>2. SumOf(es, Before(es, k, i)) \in Int
  BY <1>1, Summable, SumType
<1>3. SumOf(es, CounterEntries(es, i)) \in Int
  BY Summable, SumType
<1>4. QED
  BY <1>2, <1>3, SoFarSum, DeltaSum

LEMMA SoFarUntouched ==
    ASSUME NEW es, NEW k, NEW i, Untouched(es, k, i)
    PROVE  SoFar(es, k, i) = 0
<1>1. Before(es, k, i) = {}
  BY DEF Before, CounterEntries, Untouched
<1>2. QED
  BY <1>1, SoFarSum, SumEmpty

\* One entry more.
LEMMA SoFarNext ==
    ASSUME NEW es \in Seq(Entry), NEW k \in DOMAIN es, NEW i
    PROVE  /\ k \in CounterEntries(es, i) =>
                 SoFar(es, k + 1, i) = SoFar(es, k, i) + es[k].val
           /\ k \notin CounterEntries(es, i) => SoFar(es, k + 1, i) = SoFar(es, k, i)
<1>1. DOMAIN es \subseteq Nat /\ k \in Nat
  BY EntryAt
<1>2. ASSUME k \notin CounterEntries(es, i)
      PROVE  Before(es, k + 1, i) = Before(es, k, i)
  BY <1>1, <1>2 DEF Before, CounterEntries
<1>3. ASSUME k \in CounterEntries(es, i)
      PROVE  /\ Before(es, k + 1, i) = Before(es, k, i) \cup {k}
             /\ k \notin Before(es, k, i)
  BY <1>1, <1>3 DEF Before, CounterEntries
<1>4. ASSUME k \in CounterEntries(es, i)
      PROVE  SoFar(es, k + 1, i) = SoFar(es, k, i) + es[k].val
  <2>1. Before(es, k + 1, i) \subseteq CounterEntries(es, i)
    BY DEF Before
  <2>2. IsFiniteSet(Before(es, k, i))
    BY Summable DEF Before
  <2>3. \A n \in Before(es, k, i) \cup {k} : es[n].val \in Int
    BY <1>3, <1>4, <2>1, Summable
  <2>4. SumOf(es, Before(es, k, i) \cup {k}) = SumOf(es, Before(es, k, i)) + es[k].val
    BY <1>3, <1>4, <2>2, <2>3, SumInsert
  <2>5. QED
    BY <1>3, <1>4, <2>4, SoFarSum
<1>5. QED
  BY <1>2, <1>4, SoFarSum

\* All the entries.
LEMMA SoFarAll ==
    ASSUME NEW es \in Seq(Entry), NEW k \in Nat, k > Len(es), NEW i
    PROVE  Delta(es, i) = SoFar(es, k, i)
<1>1. Before(es, k, i) = CounterEntries(es, i)
  BY EntryAt DEF Before, CounterEntries
<1>2. QED
  BY <1>1, SoFarSum, DeltaSum

-----------------------------------------------------------------------------
(* The actions.                                                             *)

\* What the proofs use of the types.
LEMMA Typed ==
    ASSUME TypeOK, NEW c \in Clients
    PROVE  /\ cop[c] \in Seq(Entry) /\ next[c] \in Nat /\ cst[c] \in ClientPC
           /\ c # Null /\ MaxAttempts \in Nat /\ attempt[c] \in 0..MaxAttempts
           /\ pend[c] \in [Ids -> Rows] /\ snap[c] \in [Ids -> Rows]
  BY PgAssumption DEF TypeOK, MaxAttempts

LEMMA NoRowIsRow == NoRow \in Rows /\ NoRow.mtype = Null /\ [i \in Ids |-> NoRow] \in [Ids -> Rows]
  BY DEF NoRow, Rows

LEMMA InitStep == Init => PInv
<1> SUFFICES ASSUME Init PROVE PInv
  OBVIOUS
<1> USE NoRowIsRow, PgAssumption
<1>1. TypeOK
  <2>1. <<>> \in Seq(Entry) /\ 0 \in 0..MaxAttempts
    BY DEF MaxAttempts
  <2>2. QED
    BY <2>1 DEF Init, TypeOK, ClientPC, Owned
<1>2. Statements /\ Written
  BY DEF Init, Statements, Written, InTx
<1>3. Committed /\ Stored
  BY DEF Init, Committed, Stored
<1>4. QED
  BY <1>1, <1>2, <1>3 DEF PInv

LEMMA CallStep ==
    ASSUME PInv, NEW c \in Clients, NEW es \in Ops, Call(c, es)
    PROVE  PInv'
<1> USE DEF PInv
<1>1. TypeOK'
  <2>1. es \in Seq(Entry) /\ 1 \in 0..MaxAttempts
    BY PgAssumption DEF MaxAttempts
  <2>2. QED
    BY <2>1 DEF Call, TypeOK, dbVars, ClientPC, Owned
<1>2. Statements'
  BY DEF Call, Statements, InTx, TypeOK
<1>3. Committed'
  BY DEF Call, Committed, dbVars
<1>4. Written'
  BY DEF Call, Written, InTx, TypeOK, dbVars
<1>5. Stored'
  BY DEF Call, Stored, TypeOK, dbVars
<1>6. QED
  BY <1>1, <1>2, <1>3, <1>4, <1>5

LEMMA BeginStep ==
    ASSUME PInv, NEW c \in Clients, Begin(c)
    PROVE  PInv'
<1> USE DEF PInv
<1>1. TypeOK'
  BY DEF Begin, TypeOK, dbVars, ClientPC, Owned
<1>2. Statements'
  BY DEF Begin, Statements, InTx, TypeOK
<1>3. Committed'
  BY DEF Begin, Committed, dbVars
<1>4. Written'
  <2> SUFFICES ASSUME NEW d \in Clients, NEW i \in Ids, InTx(d)'
               PROVE  Written!(d)!(i)'
    BY DEF Written
  <2>1. CASE d = c
    <3>1. owner'[i] # c
      BY DEF Begin, TypeOK, dbVars, Owned
    <3>2. cop'[c] = cop[c] /\ next'[c] = 1
      BY DEF Begin, TypeOK
    <3>3. Untouched(cop[c], 1, i)
      BY Typed, EntryAt DEF Untouched
    <3>4. QED
      BY <2>1, <3>1, <3>2, <3>3
  <2>2. CASE d # c
    BY <2>2 DEF Begin, Written, InTx, TypeOK, dbVars
  <2>3. QED
    BY <2>1, <2>2
<1>5. Stored'
  BY DEF Begin, Stored, TypeOK, dbVars
<1>6. QED
  BY <1>1, <1>2, <1>3, <1>4, <1>5

LEMMA SkipStep ==
    ASSUME PInv, NEW c \in Clients, Skip(c)
    PROVE  PInv'
<1> USE DEF PInv
<1>1. TypeOK'
  BY DEF Skip, TypeOK, dbVars, ClientPC, Owned
<1>2. Statements'
  BY Typed DEF Skip, Statements, InTx, TypeOK
<1>3. Committed'
  BY DEF Skip, Committed, dbVars
<1>4. Written'
  <2> SUFFICES ASSUME NEW d \in Clients, NEW i \in Ids, InTx(d)'
               PROVE  Written!(d)!(i)'
    BY DEF Written
  <2>1. CASE d = c
    <3> DEFINE es == cop[c]
               k == next[c]
    <3>1. k \in DOMAIN es /\ k \in Nat /\ es \in Seq(Entry) /\ InTx(c) /\ ~WellFormed(es[k])
      BY Typed, EntryAt DEF Skip, Statements, InTx
    <3>2. cop'[c] = es /\ next'[c] = k + 1 /\ owner' = owner /\ pend' = pend
          /\ table' = table /\ sum' = sum /\ raced' = raced
      BY DEF Skip, TypeOK, dbVars
    <3>w. Written!(c)!(i)
      BY DEF Written
    <3> HIDE DEF es, k
    <3>3. SoFar(es, k + 1, i) = SoFar(es, k, i)
      BY <3>1, SoFarNext DEF CounterEntries
    <3>4. Untouched(es, k, i) => Untouched(es, k + 1, i)
      BY <3>1, EntryAt DEF Untouched
    <3>5. QED
      BY <2>1, <3>1, <3>2, <3>3, <3>4, <3>w DEF es, k
  <2>2. CASE d # c
    BY <2>2 DEF Skip, Written, InTx, TypeOK, dbVars
  <2>3. QED
    BY <2>1, <2>2
<1>5. Stored'
  BY DEF Skip, Stored, TypeOK, dbVars
<1>6. QED
  BY <1>1, <1>2, <1>3, <1>4, <1>5

LEMMA StartStatementStep ==
    ASSUME PInv, NEW c \in Clients, StartStatement(c)
    PROVE  PInv'
<1> USE DEF PInv
<1>1. TypeOK'
  <2>1. [i \in Ids |-> IF owner[i] = c THEN pend[c][i] ELSE table[i]] \in [Ids -> Rows]
    BY DEF TypeOK
  <2>2. QED
    BY <2>1 DEF StartStatement, TypeOK, ClientPC, Owned
<1>2. Statements'
  BY DEF StartStatement, Statements, InTx, TypeOK
<1>3. Committed'
  BY DEF StartStatement, Committed
<1>4. Written'
  BY DEF StartStatement, Written, InTx, TypeOK
<1>5. Stored'
  BY DEF StartStatement, Stored, TypeOK
<1>6. QED
  BY <1>1, <1>2, <1>3, <1>4, <1>5

\* What the upsert makes of a row nobody changed since the snapshot.
LEMMA UpsertProperty ==
    ASSUME NEW row \in Rows, NEW seen \in Rows, NEW e \in Entry, WellFormed(e),
           row # NoRow => HasType(row)
    PROVE  /\ Upsert(row, seen, e) \in Rows
           /\ HasType(Upsert(row, seen, e))
           /\ row # NoRow => Upsert(row, seen, e).mtype = row.mtype
           /\ row = NoRow => Upsert(row, seen, e).mtype = e.mtype
           /\ row = NoRow /\ e.mtype = "counter" => Upsert(row, seen, e).delta = e.val
           /\ row # NoRow /\ e.mtype = "gauge" => Upsert(row, seen, e).delta = row.delta
           /\ row # NoRow /\ e.mtype = "counter" /\ seen = row /\ row.delta # Null
              => Upsert(row, seen, e).delta = row.delta + e.val
<1>1. e.mtype \in {"gauge", "counter"} /\ e.val \in Int /\ e.val # Null
  BY PgAssumption DEF WellFormed, Entry
<1>2. seen.delta # Null => seen.delta + e.val \in Int
  BY <1>1 DEF Rows
<1>3. CASE row = NoRow
  BY <1>1, <1>3 DEF Upsert, Rows, HasType
<1>4. CASE row # NoRow /\ e.mtype = "gauge"
  BY <1>1, <1>4 DEF Upsert, Rows, HasType
<1>5. CASE row # NoRow /\ e.mtype = "counter"
  BY <1>1, <1>2, <1>5 DEF Upsert, Rows, HasType
<1>6. QED
  BY <1>1, <1>3, <1>4, <1>5

LEMMA ExecuteStep ==
    ASSUME PInv, NEW c \in Clients, Execute(c)
    PROVE  PInv'
<1> USE DEF PInv
<1> DEFINE es == cop[c]
           k == next[c]
           i == es[k].id
           latest == IF owner[i] = c THEN pend[c][i] ELSE table[i]
           new == Upsert(latest, snap[c][i], es[k])
<1>1. /\ k \in DOMAIN es /\ k \in Nat /\ es \in Seq(Entry) /\ InTx(c)
      /\ es[k] \in Entry /\ i \in Ids /\ WellFormed(es[k]) /\ es[k].val \in Int
      /\ es[k].mtype \in {"gauge", "counter"}
  <2>1. k \in DOMAIN es /\ k \in Nat /\ es \in Seq(Entry) /\ InTx(c) /\ WellFormed(es[k])
    BY Typed, EntryAt DEF Execute, Statements, InTx
  <2>2. QED
    BY <2>1, EntryAt DEF WellFormed
<1>2. /\ owner[i] \in {Null, c} /\ owner' = [owner EXCEPT ![i] = c]
      /\ pend' = [pend EXCEPT ![c][i] = new]
      /\ raced' = IF latest # snap[c][i] THEN raced \cup {i} ELSE raced
      /\ cst' = [cst EXCEPT ![c] = "ready"] /\ next' = [next EXCEPT ![c] = @ + 1]
      /\ snap' = [snap EXCEPT ![c] = [j \in Ids |-> NoRow]]
      /\ table' = table /\ cop' = cop /\ attempt' = attempt /\ calls' = calls
      /\ sum' = sum /\ acked' = acked
  BY DEF Execute
<1>3. latest \in Rows /\ snap[c][i] \in Rows /\ (latest # NoRow => HasType(latest))
  BY <1>1, Typed DEF TypeOK, Written, Committed
<1>4. new \in Rows
  BY <1>1, <1>3, UpsertProperty
<1>5. TypeOK'
  <2>1. pend' \in [Clients -> [Ids -> Rows]]
    BY <1>1, <1>2, <1>4 DEF TypeOK
  <2>2. owner' \in [Ids -> Clients \cup {Null}] /\ snap' \in [Clients -> [Ids -> Rows]]
    BY <1>1, <1>2, NoRowIsRow DEF TypeOK
  <2>3. cst' \in [Clients -> ClientPC] /\ next' \in [Clients -> Nat] /\ raced' \subseteq Ids
    BY <1>1, <1>2 DEF TypeOK, ClientPC
  <2>4. \A d \in Clients : cst'[d] \in {"idle", "begin", "committing"} => Owned(d)' = {}
    BY <1>1, <1>2, Typed DEF TypeOK, Owned
  <2>5. QED
    BY <1>2, <2>1, <2>2, <2>3, <2>4 DEF TypeOK
<1>6. Statements'
  BY <1>1, <1>2, Typed DEF Statements, InTx, TypeOK
<1>7. Committed'
  BY <1>2 DEF Committed
<1>8. Written'
  <2> SUFFICES ASSUME NEW d \in Clients, NEW j \in Ids, InTx(d)'
               PROVE  Written!(d)!(j)'
    BY DEF Written
  <2>n. c # Null /\ next'[c] = k + 1 /\ cop'[c] = es
    BY <1>1, <1>2, Typed DEF TypeOK
  <2>1. CASE d # c
    <3>1. owner'[j] = d <=> owner[j] = d
      BY <1>1, <1>2, <2>1, Typed DEF TypeOK
    <3>2. next'[d] = next[d] /\ pend'[d] = pend[d] /\ cst'[d] = cst[d] /\ raced \subseteq raced'
      BY <1>2, <2>1 DEF TypeOK
    <3>3. QED
      BY <1>2, <3>1, <3>2 DEF Written, InTx
  <2>2. CASE d = c /\ j # i
    <3>1. owner'[j] = owner[j] /\ pend'[c][j] = pend[c][j] /\ (j \notin raced' => j \notin raced)
      BY <1>1, <1>2, <2>2 DEF TypeOK
    <3>2. SoFar(es, k + 1, j) = SoFar(es, k, j)
      BY <1>1, <2>2, SoFarNext DEF CounterEntries
    <3>3. Untouched(es, k, j) => Untouched(es, k + 1, j)
      BY <1>1, <2>2, EntryAt DEF Untouched
    <3>4. Written!(c)!(j) /\ InTx(c)
      BY <1>1 DEF Written
    <3>5. QED
      BY <1>2, <2>2, <2>n, <3>1, <3>2, <3>3, <3>4
  <2>3. CASE d = c /\ j = i
    <3>1. owner'[i] = c /\ pend'[c][i] = new /\ table' = table /\ sum' = sum
      BY <1>1, <1>2 DEF TypeOK
    <3>2. HasType(new)
      BY <1>1, <1>3, UpsertProperty
    <3>w. Written!(c)!(i) /\ InTx(c)
      BY <1>1 DEF Written
    <3>3. table[i] # NoRow => latest # NoRow /\ latest.mtype = table[i].mtype
      BY <3>w, NoRowIsRow, PgAssumption DEF HasType
    <3>4. table[i] # NoRow => new.mtype = table[i].mtype
      BY <1>1, <1>3, <3>3, UpsertProperty
    <3>5. ASSUME i \notin raced', new.mtype = "counter"
          PROVE  new.delta = sum[i] + SoFar(es, k + 1, i)
      <4>1. i \notin raced /\ latest = snap[c][i]
        BY <1>2, <3>5
      <4>2. sum[i] \in Int /\ SoFar(es, k, i) \in Int
        BY <1>1, SoFarType DEF TypeOK
      <4>3. /\ es[k].mtype = "counter" => SoFar(es, k + 1, i) = SoFar(es, k, i) + es[k].val
            /\ es[k].mtype = "gauge" => SoFar(es, k + 1, i) = SoFar(es, k, i)
        BY <1>1, SoFarNext DEF CounterEntries
      <4>4. CASE latest = NoRow
        <5>1. owner[i] # c /\ table[i] = NoRow
          BY <3>w, <4>4, NoRowIsRow, PgAssumption DEF HasType
        <5>2. sum[i] = 0 /\ SoFar(es, k, i) = 0
          BY <1>1, <3>w, <4>1, <5>1, SoFarUntouched DEF Committed
        <5>3. new.mtype = es[k].mtype /\ (es[k].mtype = "counter" => new.delta = es[k].val)
          BY <1>1, <1>3, <4>4, UpsertProperty
        <5>4. QED
          BY <1>1, <3>5, <4>3, <5>2, <5>3
      <4>5. CASE latest # NoRow
        <5>1. latest.mtype = "counter"
          BY <1>1, <1>3, <3>5, <4>5, UpsertProperty
        <5>2. latest.delta = sum[i] + SoFar(es, k, i)
          <6>1. CASE owner[i] = c
            BY <3>w, <4>1, <5>1, <6>1
          <6>2. CASE owner[i] # c
            <7>1. SoFar(es, k, i) = 0
              BY <3>w, <6>2, SoFarUntouched
            <7>2. latest.delta = sum[i]
              BY <1>1, <4>1, <5>1, <6>2 DEF Committed
            <7>3. QED
              BY <4>2, <7>1, <7>2
          <6>3. QED
            BY <6>1, <6>2
        <5>3. PICK s \in Int, f \in Int, v \in Int :
                 s = sum[i] /\ f = SoFar(es, k, i) /\ v = es[k].val
          BY <1>1, <4>2
        <5>4. latest.delta = s + f /\ latest.delta # Null
          <6> HIDE DEF latest, es, k, i
          <6>1. latest.delta = s + f
            BY <5>2, <5>3
          <6>2. s + f \in Int
            OBVIOUS
          <6>3. QED
            BY <6>1, <6>2, PgAssumption
        <5>5. new.delta = IF es[k].mtype = "counter" THEN latest.delta + v ELSE latest.delta
          BY <1>1, <1>3, <4>1, <4>5, <5>3, <5>4, UpsertProperty
        <5>6. QED
          BY <1>1, <4>3, <5>3, <5>4, <5>5
      <4>6. QED
        BY <4>4, <4>5
    <3>6. QED
      BY <2>3, <2>n, <3>1, <3>2, <3>4, <3>5
  <2>4. QED
    BY <2>1, <2>2, <2>3
<1>9. Stored'
  BY <1>2 DEF Stored, TypeOK
<1>10. QED
  BY <1>5, <1>6, <1>7, <1>8, <1>9

LEMMA CommitStep ==
    ASSUME PInv, NEW c \in Clients, Commit(c)
    PROVE  PInv'
<1> USE DEF PInv
<1> DEFINE es == cop[c]
           k == next[c]
<1>1. InTx(c) /\ es \in Seq(Entry) /\ k \in Nat /\ k > Len(es) /\ c # Null
  BY Typed DEF Commit, InTx
<1>2. /\ table' = [i \in Ids |-> IF owner[i] = c THEN pend[c][i] ELSE table[i]]
      /\ owner' = [i \in Ids |-> IF owner[i] = c THEN Null ELSE owner[i]]
      /\ pend' = [pend EXCEPT ![c] = [i \in Ids |-> NoRow]]
      /\ snap' = [snap EXCEPT ![c] = [i \in Ids |-> NoRow]]
      /\ cst' = [cst EXCEPT ![c] = "committing"]
      /\ cop' = cop /\ next' = next /\ attempt' = attempt /\ calls' = calls
      /\ acked' = acked /\ raced' = raced
  BY DEF Commit, EndTx
<1>3. sum' = [i \in Ids |-> sum[i] + SoFar(es, k, i)]
  BY <1>1, SoFarAll DEF Commit
<1>4. \A i \in Ids : SoFar(es, k, i) \in Int /\ sum[i] \in Int /\ sum'[i] = sum[i] + SoFar(es, k, i)
  BY <1>1, <1>3, SoFarType DEF TypeOK
<1>5. \A i \in Ids : owner[i] # c => SoFar(es, k, i) = 0 /\ Untouched(es, k, i)
  BY <1>1, SoFarUntouched DEF Written
<1>6. \A i \in Ids : owner[i] # c => sum'[i] = sum[i] /\ table'[i] = table[i]
  BY <1>2, <1>4, <1>5
<1>7. \A i \in Ids : owner[i] = c =>
         /\ table'[i] = pend[c][i] /\ HasType(pend[c][i]) /\ pend[c][i] # NoRow
         /\ i \notin raced /\ pend[c][i].mtype = "counter" => pend[c][i].delta = sum'[i]
  BY <1>1, <1>2, <1>4, NoRowIsRow, PgAssumption DEF Written, HasType
<1>8. TypeOK'
  <2>1. table' \in [Ids -> Rows] /\ owner' \in [Ids -> Clients \cup {Null}]
    BY <1>2, Typed DEF TypeOK
  <2>2. pend' \in [Clients -> [Ids -> Rows]] /\ snap' \in [Clients -> [Ids -> Rows]]
    BY <1>2, NoRowIsRow DEF TypeOK
  <2>3. sum' \in [Ids -> Int] /\ cst' \in [Clients -> ClientPC]
    BY <1>2, <1>3, <1>4 DEF TypeOK, ClientPC
  <2>4. \A d \in Clients : cst'[d] \in {"idle", "begin", "committing"} => Owned(d)' = {}
    BY <1>1, <1>2, Typed DEF TypeOK, Owned
  <2>5. QED
    BY <1>2, <2>1, <2>2, <2>3, <2>4 DEF TypeOK
<1>9. Statements'
  BY <1>2 DEF Statements, InTx, TypeOK
<1>10. Committed'
  <2> SUFFICES ASSUME NEW i \in Ids PROVE Committed!(i)'
    BY DEF Committed
  <2>1. CASE owner[i] = c
    BY <1>2, <1>7, <2>1
  <2>2. CASE owner[i] # c
    BY <1>2, <1>6, <2>2 DEF Committed
  <2>3. QED
    BY <2>1, <2>2
<1>11. Written'
  <2> SUFFICES ASSUME NEW d \in Clients, NEW i \in Ids, InTx(d)'
               PROVE  Written!(d)!(i)'
    BY DEF Written
  <2>1. d # c /\ cst'[d] = cst[d] /\ pend'[d] = pend[d] /\ InTx(d)
    BY <1>2 DEF TypeOK, InTx
  <2>2. owner'[i] = d <=> owner[i] = d
    BY <1>2, <2>1, Typed DEF TypeOK
  <2>3. Written!(d)!(i)
    BY DEF Written
  <2>4. QED
    BY <1>2, <1>6, <2>1, <2>2, <2>3
<1>12. Stored'
  <2>1. \A i \in Ids : table[i] # NoRow => table'[i] # NoRow
    BY <1>6, <1>7
  <2>2. \A n \in DOMAIN es : WellFormed(es[n]) => table'[es[n].id] # NoRow
    <3> SUFFICES ASSUME NEW n \in DOMAIN es, WellFormed(es[n]) PROVE table'[es[n].id] # NoRow
      OBVIOUS
    <3>1. n < k /\ es[n].id \in Ids
      BY <1>1, EntryAt
    <3>2. owner[es[n].id] = c
      BY <1>5, <3>1 DEF Untouched
    <3>3. QED
      BY <1>7, <3>1, <3>2
  <2>3. ASSUME NEW d \in Clients, cst'[d] = "committing", NEW n \in DOMAIN cop'[d],
               WellFormed(cop'[d][n])
        PROVE  table'[cop'[d][n].id] # NoRow
    <3>1. CASE d = c
      BY <1>2, <2>2, <2>3, <3>1
    <3>2. CASE d # c
      <4>1. cst[d] = "committing" /\ n \in DOMAIN cop[d] /\ cop'[d] = cop[d]
        BY <1>2, <2>3, <3>2 DEF TypeOK
      <4>2. cop[d][n].id \in Ids
        BY <4>1, Typed, EntryAt
      <4>3. table[cop[d][n].id] # NoRow
        BY <2>3, <4>1 DEF Stored
      <4>4. QED
        BY <2>1, <4>1, <4>2, <4>3
    <3>3. QED
      BY <3>1, <3>2
  <2>4. QED
    BY <1>2, <2>1, <2>3 DEF Stored
<1>13. QED
  BY <1>8, <1>9, <1>10, <1>11, <1>12

\* The client side of an answer, a retry or a failure.
Ended(c) ==
    /\ \E st \in {"idle", "begin"} : cst' = [cst EXCEPT ![c] = st]
    /\ \E es \in {<<>>, cop[c]} : cop' = [cop EXCEPT ![c] = es]
    /\ next' = [next EXCEPT ![c] = 0]
    /\ \E k \in 0..MaxAttempts : attempt' = [attempt EXCEPT ![c] = k]

LEMMA ReturnEnds ==
    ASSUME PInv, NEW c \in Clients, Return(c)
    PROVE  Ended(c)
<1>1. 0 \in 0..MaxAttempts
  BY Typed DEF PInv
<1>2. QED
  BY <1>1 DEF Return, Ended

LEMMA RetryEnds ==
    ASSUME PInv, NEW c \in Clients, RetryOrFail(c)
    PROVE  Ended(c)
<1>1. CASE Return(c)
  BY <1>1, ReturnEnds
<1>2. CASE ~Return(c)
  <2>1. attempt[c] + 1 \in 0..MaxAttempts
    BY <1>2, Typed DEF RetryOrFail, PInv
  <2>2. cop' = [cop EXCEPT ![c] = cop[c]]
    BY <1>2 DEF RetryOrFail, PInv, TypeOK
  <2>3. QED
    BY <1>2, <2>1, <2>2 DEF RetryOrFail, Ended
<1>3. QED
  BY <1>1, <1>2

\* A call ends or is made again: no transaction is open, and no row is changed.
LEMMA EndStep ==
    ASSUME PInv, NEW c \in Clients, Ended(c),
           EndTx(c) \/ (cst[c] = "committing" /\ UNCHANGED <<owner, pend, snap>>),
           UNCHANGED <<table, calls, sum, raced>>,
           acked' \in [Ids -> Int], \A i \in Ids : acked'[i] # 0 => table[i] # NoRow
    PROVE  PInv'
<1> USE DEF PInv
<1>1. /\ owner' = [i \in Ids |-> IF owner[i] = c THEN Null ELSE owner[i]]
      /\ \A d \in Clients : d # c => pend'[d] = pend[d]
      /\ pend' \in [Clients -> [Ids -> Rows]] /\ snap' \in [Clients -> [Ids -> Rows]]
  <2>1. CASE EndTx(c)
    BY <2>1, NoRowIsRow DEF EndTx, TypeOK
  <2>2. CASE cst[c] = "committing" /\ UNCHANGED <<owner, pend, snap>>
    BY <2>2 DEF TypeOK, Owned
  <2>3. QED
    BY <2>1, <2>2
<1>2. /\ cst'[c] \in {"idle", "begin"} /\ cop'[c] \in {<<>>, cop[c]} /\ next'[c] = 0
      /\ \A d \in Clients : d # c => /\ cst'[d] = cst[d] /\ cop'[d] = cop[d]
                                     /\ next'[d] = next[d]
  BY DEF Ended, TypeOK
<1>3. TypeOK'
  <2>1. cst' \in [Clients -> ClientPC] /\ next' \in [Clients -> Nat]
    BY DEF Ended, TypeOK, ClientPC
  <2>2. cop' \in [Clients -> Seq(Entry)]
    <3>1. <<>> \in Seq(Entry) /\ cop[c] \in Seq(Entry)
      BY Typed
    <3>2. PICK es \in {<<>>, cop[c]} : cop' = [cop EXCEPT ![c] = es]
      BY DEF Ended
    <3>3. es \in Seq(Entry)
      BY <3>1, <3>2
    <3>4. QED
      BY <3>2, <3>3 DEF TypeOK
  <2>3. attempt' \in [Clients -> 0..MaxAttempts]
    BY DEF Ended, TypeOK
  <2>4. owner' \in [Ids -> Clients \cup {Null}]
    BY <1>1 DEF TypeOK
  <2>5. ASSUME NEW d \in Clients, cst'[d] \in {"idle", "begin", "committing"}
        PROVE  Owned(d)' = {}
    <3>1. \A i \in Ids : owner[i] # c => owner[i] # d
      BY <1>2, <2>5 DEF TypeOK, Owned
    <3>2. \A i \in Ids : owner'[i] # d
      BY <1>1, <3>1, Typed
    <3>3. QED
      BY <3>2 DEF Owned
  <2>6. QED
    BY <1>1, <2>1, <2>2, <2>3, <2>4, <2>5 DEF TypeOK
<1>4. Statements'
  BY <1>2 DEF Statements, InTx
<1>5. Committed'
  BY DEF Committed
<1>6. Written'
  <2> SUFFICES ASSUME NEW d \in Clients, NEW i \in Ids, InTx(d)'
               PROVE  Written!(d)!(i)'
    BY DEF Written
  <2>1. d # c /\ InTx(d)
    BY <1>2 DEF InTx
  <2>2. owner'[i] = d <=> owner[i] = d
    <3>1. d # Null
      BY PgAssumption
    <3>2. QED
      BY <1>1, <2>1, <3>1
  <2>3. Written!(d)!(i)
    BY DEF Written
  <2>4. QED
    BY <1>1, <1>2, <2>1, <2>2, <2>3
<1>7. Stored'
  BY <1>2 DEF Stored
<1>8. QED
  BY <1>3, <1>4, <1>5, <1>6, <1>7

LEMMA CommitAnsweredStep ==
    ASSUME PInv, NEW c \in Clients, CommitAnswered(c)
    PROVE  PInv'
<1>1. cop[c] \in Seq(Entry) /\ cst[c] = "committing"
  BY Typed DEF PInv, CommitAnswered
<1>2. \A i \in Ids : /\ Delta(cop[c], i) \in Int /\ acked[i] \in Int
                     /\ acked'[i] = acked[i] + Delta(cop[c], i)
  BY <1>1, SoFarType DEF CommitAnswered, PInv, TypeOK
<1>3. ASSUME NEW i \in Ids, table[i] = NoRow
      PROVE  acked'[i] = 0
  <2>1. acked[i] = 0
    BY <1>3 DEF PInv, Stored
  <2>2. CounterEntries(cop[c], i) = {}
    BY <1>1, <1>3 DEF PInv, Stored, CounterEntries
  <2>3. Delta(cop[c], i) = 0
    BY <2>2, DeltaSum, SumEmpty
  <2>4. QED
    BY <1>2, <2>1, <2>3
<1>4. acked' \in [Ids -> Int]
  BY <1>2 DEF CommitAnswered
<1>5. Ended(c)
  BY ReturnEnds DEF CommitAnswered
<1>6. QED
  BY <1>1, <1>3, <1>4, <1>5, EndStep DEF CommitAnswered, dbVars

LEMMA AbortStep ==
    ASSUME PInv, NEW c \in Clients, ConnectionLost(c) \/ AnswerLost(c) \/ DeadlockAborted(c)
    PROVE  PInv'
<1>1. Ended(c)
  BY RetryEnds DEF ConnectionLost, AnswerLost, DeadlockAborted
<1>2. /\ EndTx(c) \/ (cst[c] = "committing" /\ UNCHANGED <<owner, pend, snap>>)
      /\ UNCHANGED <<table, calls, sum, raced>> /\ acked' = acked
  BY DEF ConnectionLost, AnswerLost, DeadlockAborted, dbVars
<1>3. acked' \in [Ids -> Int] /\ \A i \in Ids : acked'[i] # 0 => table[i] # NoRow
  BY <1>2 DEF PInv, TypeOK, Stored
<1>4. QED
  BY <1>1, <1>2, <1>3, EndStep

LEMMA WriterStep ==
    ASSUME PInv, NEW c \in Clients,
           (\E es \in Ops : Call(c, es)) \/ Progress(c) \/ Fault(c)
    PROVE  PInv'
  BY CallStep, BeginStep, SkipStep, StartStatementStep, ExecuteStep, CommitStep,
     CommitAnsweredStep, AbortStep DEF Progress, Fault

LEMMA IdleStep ==
    ASSUME PInv, UNCHANGED vars
    PROVE  PInv'
<1>1. UNCHANGED <<table, owner, pend, snap, cst, cop, next, attempt, calls, sum, acked, raced>>
  BY DEF vars, dbVars, clientVars
<1>2. TypeOK' /\ Statements' /\ Committed'
  BY <1>1 DEF PInv, TypeOK, Owned, Statements, InTx, Committed
<1>3. Written' /\ Stored'
  BY <1>1 DEF PInv, Written, InTx, Stored
<1>4. QED
  BY <1>2, <1>3 DEF PInv

-----------------------------------------------------------------------------
(* The theorems.                                                            *)

\* The inductive invariant holds: every open transaction is ahead of the
\* committed row by exactly the counter entries it has done, and what was
\* acknowledged is stored (WriteMetric, WriteBatchMetrics, the retrier).
THEOREM PgDBInvariant == Spec => []PInv
<1>1. PInv /\ [Next]_vars => PInv'
  BY WriterStep, IdleStep DEF Next, Finished
<1>2. QED
  BY <1>1, InitStep, PTL DEF Spec

\* Rows are written by one transaction at a time, locks are released with it,
\* and the retrier's limit is kept (RetryOrFail, EndTx).
THEOREM PgDBTypes == Spec => []TypeOK
<1>1. PInv => TypeOK
  BY DEF PInv
<1>2. QED
  BY <1>1, PgDBInvariant, PTL

\* A counter that no statement raced on holds exactly the deltas of the
\* committed transactions, whatever the batches, aborts and retries (the upserts
\* insertGaugePrep and insertCounterPrep).
THEOREM CounterIsExact == Spec => []CounterExactUnlessRaced
<1>1. PInv => CounterExactUnlessRaced
  BY DEF PInv, Committed, CounterExactUnlessRaced
<1>2. QED
  BY <1>1, PgDBInvariant, PTL
=============================================================================
