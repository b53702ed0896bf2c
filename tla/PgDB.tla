-------------------------------- MODULE PgDB --------------------------------
(***************************************************************************)
(* internal/storage/pgdb.go under internal/retrier: the writes of the      *)
(* PostgreSQL store, as the handlers call them through the retrier.        *)
(*                                                                         *)
(* The database is external and modelled by what the code relies on, at    *)
(* the default isolation level (READ COMMITTED): every statement reads a   *)
(* snapshot taken when it starts, plus the changes of its own transaction; *)
(* an upsert waits for the transaction that holds the row, then changes    *)
(* the LATEST version of the row; a sub-select inside it still reads the   *)
(* statement's snapshot; of transactions that wait for each other one is   *)
(* aborted.                                                                *)
(***************************************************************************)
EXTENDS Integers, Sequences, FiniteSets, FiniteSetsExt

CONSTANTS
    Clients,    \* concurrent handlers
    Ids,        \* metric names, the primary key of the table
    Null,       \* SQL NULL, a nil pointer, no client
    Ops,        \* the writes handlers make: sequences of entries
    MaxRetries, \* the retrier's maxRetries (Run sets 3)
    MaxCalls,   \* bound: calls in a behaviour
    Faults      \* whether connections fail

\* An entry of a write, as the handlers pass it on. Any type is possible in a
\* batch, and a pointer may be nil.
Entry == [mtype : STRING, id : Ids, val : Int \cup {Null}]

ASSUME PgAssumption ==
    /\ MaxRetries \in Nat /\ MaxCalls \in Nat /\ Faults \in BOOLEAN
    /\ IsFiniteSet(Clients) /\ \A es \in Ops : es \in Seq(Entry)
    /\ Null \notin Int /\ Null \notin Clients /\ Null \notin {"gauge", "counter"}

VARIABLES
    table,      \* the committed rows: id -> row
    owner,      \* id -> client whose transaction has written the row, or Null
    pend,       \* client -> id -> the row as its transaction sees it, if owner
    snap,       \* client -> snapshot of its current statement
    cst,        \* client -> where its call is
    cop,        \* client -> the entries it writes
    next,       \* client -> index of the current entry
    attempt,    \* client -> number of the retrier's current attempt
    calls,      \* number of calls made
    sum,        \* history: id -> counter deltas of committed transactions
    acked,      \* history: id -> counter deltas of calls that returned nil
    raced       \* history: ids some statement changed past its snapshot

dbVars == <<table, owner, pend, snap>>
clientVars == <<cst, cop, next, attempt>>
vars == <<dbVars, clientVars, calls, sum, acked, raced>>

NoRow == [mtype |-> Null, delta |-> Null, value |-> Null]
Rows == [mtype : {"gauge", "counter", Null}, delta : Int \cup {Null},
         value : Int \cup {Null}]

\* retry.WithMaxRetries: the first call and maxRetries more.
MaxAttempts == MaxRetries + 1

ClientPC == {"idle", "begin", "ready", "exec", "committing"}

Init ==
    /\ table = [i \in Ids |-> NoRow]
    /\ owner = [i \in Ids |-> Null]
    /\ pend = [c \in Clients |-> [i \in Ids |-> NoRow]]
    /\ snap = [c \in Clients |-> [i \in Ids |-> NoRow]]
    /\ cst = [c \in Clients |-> "idle"]
    /\ cop = [c \in Clients |-> <<>>]
    /\ next = [c \in Clients |-> 0]
    /\ attempt = [c \in Clients |-> 0]
    /\ calls = 0
    /\ sum = [i \in Ids |-> 0]
    /\ acked = [i \in Ids |-> 0]
    /\ raced = {}

Owned(c) == {i \in Ids : owner[i] = c}

\* An entry the batch loop does not skip: a known type, a value that is not nil
\* and an id that is not empty (either lack is val = Null here). WriteMetric
\* refuses what is not well formed before it talks to the database.
WellFormed(e) == e.mtype \in {"gauge", "counter"} /\ e.val # Null

\* The counter entries of es for id i, and what they add up to.
CounterEntries(es, i) ==
    {n \in DOMAIN es : es[n].mtype = "counter" /\ es[n].id = i /\ WellFormed(es[n])}

Delta(es, i) == MapThenSumSet(LAMBDA n : es[n].val, CounterEntries(es, i))

-----------------------------------------------------------------------------
(* The call, as updateMetrics and updateBatchMetricsJSON make it through   *)
(* UseRetrierWM and UseRetrierWMB.                                          *)

Call(c, es) ==
    /\ cst[c] = "idle"
    /\ calls < MaxCalls
    /\ calls' = calls + 1
    /\ cst' = [cst EXCEPT ![c] = "begin"]
    /\ cop' = [cop EXCEPT ![c] = es]
    /\ attempt' = [attempt EXCEPT ![c] = 1]
    /\ UNCHANGED <<dbVars, next, sum, acked, raced>>

\* db.Begin(), or the implicit transaction of a single ExecContext.
Begin(c) ==
    /\ cst[c] = "begin"
    /\ cst' = [cst EXCEPT ![c] = "ready"]
    /\ next' = [next EXCEPT ![c] = 1]
    /\ UNCHANGED <<dbVars, cop, attempt, calls, sum, acked, raced>>

\* The loop of WriteBatchMetrics passes over an entry that is not well formed.
Skip(c) ==
    /\ cst[c] = "ready"
    /\ next[c] <= Len(cop[c])
    /\ ~WellFormed(cop[c][next[c]])
    /\ next' = [next EXCEPT ![c] = @ + 1]
    /\ UNCHANGED <<dbVars, cst, cop, attempt, calls, sum, acked, raced>>

\* The statement for the next entry starts: its snapshot is taken.
StartStatement(c) ==
    /\ cst[c] = "ready"
    /\ next[c] <= Len(cop[c])
    /\ WellFormed(cop[c][next[c]])
    /\ cst' = [cst EXCEPT ![c] = "exec"]
    /\ snap' = [snap EXCEPT ![c] =
                  [i \in Ids |-> IF owner[i] = c THEN pend[c][i] ELSE table[i]]]
    /\ UNCHANGED <<table, owner, pend, cop, next, attempt, calls, sum, acked,
                   raced>>

\* Mutant: the upsert replaces the counter.
UpsertReplaces(row, seen, e) ==
    CASE row = NoRow /\ e.mtype = "gauge" ->
            [mtype |-> "gauge", delta |-> Null, value |-> e.val]
      [] row = NoRow /\ e.mtype = "counter" ->
            [mtype |-> "counter", delta |-> e.val, value |-> Null]
      [] row # NoRow /\ e.mtype = "gauge" -> [row EXCEPT !.value = e.val]
      [] OTHER -> [row EXCEPT !.delta = e.val]

\* insertGaugePrep and insertCounterPrep: INSERT .. ON CONFLICT (id) DO UPDATE.
\* On a conflict the type stays what it was; the counter's new value is $3 plus
\* the delta that the sub-select finds in the snapshot (seen), NULL if there is
\* no row or no delta.
Upsert(row, seen, e) ==
    CASE row = NoRow /\ e.mtype = "gauge" ->
            [mtype |-> "gauge", delta |-> Null, value |-> e.val]
      [] row = NoRow /\ e.mtype = "counter" ->
            [mtype |-> "counter", delta |-> e.val, value |-> Null]
      [] row # NoRow /\ e.mtype = "gauge" -> [row EXCEPT !.value = e.val]
      [] OTHER -> [row EXCEPT !.delta = IF seen.delta = Null THEN Null
                                        ELSE seen.delta + e.val]

\* The statement gets the row, and changes its latest version.
Execute(c) ==
    /\ cst[c] = "exec"
    /\ LET e == cop[c][next[c]]
           i == e.id
           latest == IF owner[i] = c THEN pend[c][i] ELSE table[i]
       IN  /\ owner[i] \in {Null, c}
           /\ owner' = [owner EXCEPT ![i] = c]
           /\ pend' = [pend EXCEPT ![c][i] = Upsert(latest, snap[c][i], e)]
           /\ raced' = IF latest # snap[c][i] THEN raced \cup {i} ELSE raced
    /\ cst' = [cst EXCEPT ![c] = "ready"]
    /\ next' = [next EXCEPT ![c] = @ + 1]
    /\ snap' = [snap EXCEPT ![c] = [i \in Ids |-> NoRow]]
    /\ UNCHANGED <<table, cop, attempt, calls, sum, acked>>

\* The transaction of c ends: its row locks are released.
EndTx(c) ==
    /\ owner' = [i \in Ids |-> IF owner[i] = c THEN Null ELSE owner[i]]
    /\ pend' = [pend EXCEPT ![c] = [i \in Ids |-> NoRow]]
    /\ snap' = [snap EXCEPT ![c] = [i \in Ids |-> NoRow]]

\* tx.Commit(), or the end of a single statement, in the database.
Commit(c) ==
    /\ cst[c] = "ready"
    /\ next[c] > Len(cop[c])
    /\ table' = [i \in Ids |-> IF owner[i] = c THEN pend[c][i] ELSE table[i]]
    /\ sum' = [i \in Ids |-> sum[i] + Delta(cop[c], i)]
    /\ EndTx(c)
    /\ cst' = [cst EXCEPT ![c] = "committing"]
    /\ UNCHANGED <<cop, next, attempt, calls, acked, raced>>

\* The call is over, the handler answers 200 or 500.
Return(c) ==
    /\ cst' = [cst EXCEPT ![c] = "idle"]
    /\ cop' = [cop EXCEPT ![c] = <<>>]
    /\ next' = [next EXCEPT ![c] = 0]
    /\ attempt' = [attempt EXCEPT ![c] = 0]

\* The answer to the commit arrives: the call returns nil.
CommitAnswered(c) ==
    /\ cst[c] = "committing"
    /\ acked' = [i \in Ids |-> acked[i] + Delta(cop[c], i)]
    /\ Return(c)
    /\ UNCHANGED <<dbVars, calls, sum, raced>>

\* Mutant: the retrier forgets to count.
RetryForever(c) ==
    /\ cst' = [cst EXCEPT ![c] = "begin"]
    /\ next' = [next EXCEPT ![c] = 0]
    /\ UNCHANGED <<cop, attempt>>

\* Mutant: the retrier makes one call too many.
RetryOnceMore(c) ==
    \/ /\ attempt[c] <= MaxAttempts
       /\ cst' = [cst EXCEPT ![c] = "begin"]
       /\ next' = [next EXCEPT ![c] = 0]
       /\ attempt' = [attempt EXCEPT ![c] = @ + 1]
       /\ UNCHANGED cop
    \/ Return(c)

\* An error of the database in retry.Do: it is never among skippedErrors, so
\* the whole call is made again while attempts are left; or it fails, after the
\* last attempt or because the context (30 s, or the shutdown) has ended.
RetryOrFail(c) ==
    \/ /\ attempt[c] < MaxAttempts
       /\ cst' = [cst EXCEPT ![c] = "begin"]
       /\ next' = [next EXCEPT ![c] = 0]
       /\ attempt' = [attempt EXCEPT ![c] = @ + 1]
       /\ UNCHANGED cop
    \/ Return(c)

\* The connection breaks before the commit: tx.Rollback() or the server undoes
\* the transaction.
ConnectionLost(c) ==
    /\ Faults
    /\ cst[c] \in {"begin", "ready", "exec"}
    /\ RetryOrFail(c)
    /\ EndTx(c)
    /\ UNCHANGED <<table, calls, sum, acked, raced>>

\* It breaks after the commit and before its answer: the transaction is in,
\* the caller sees an error and the retrier makes the call again.
AnswerLost(c) ==
    /\ Faults
    /\ cst[c] = "committing"
    /\ RetryOrFail(c)
    /\ UNCHANGED <<dbVars, calls, sum, acked, raced>>

\* c waits for a row d has written.
WaitsFor(c, d) == cst[c] = "exec" /\ d # c /\ owner[cop[c][next[c]].id] = d

\* Batches lock the same rows in different orders and wait for each other in a
\* circle: the database aborts one of them, its call is retried.
DeadlockAborted(c) ==
    /\ \E D \in SUBSET Clients :
          c \in D /\ \A d \in D : \E e \in D : WaitsFor(e, d)
    /\ RetryOrFail(c)
    /\ EndTx(c)
    /\ UNCHANGED <<table, calls, sum, acked, raced>>

Progress(c) ==
    \/ Begin(c) \/ Skip(c) \/ StartStatement(c) \/ Execute(c) \/ Commit(c)
    \/ CommitAnswered(c) \/ DeadlockAborted(c)

Fault(c) == ConnectionLost(c) \/ AnswerLost(c)

\* The bound is used up and every call has returned.
Finished ==
    /\ calls = MaxCalls
    /\ \A c \in Clients : cst[c] = "idle"
    /\ UNCHANGED vars

Next ==
    \/ \E c \in Clients : (\E es \in Ops : Call(c, es)) \/ Progress(c) \/ Fault(c)
    \/ Finished

Spec == Init /\ [][Next]_vars

\* Goroutines run, the database serves waiters in turn and breaks deadlocks.
\* No fault is assumed to happen, nor to stop happening.
FairSpec ==
    Spec /\ \A c \in Clients : WF_vars(Progress(c)) /\ SF_vars(Execute(c))

-----------------------------------------------------------------------------
(* Properties.                                                             *)

\* A row is written by one transaction at a time, and the attempts of a call
\* stay within the retrier's limit.
TypeOK ==
    /\ table \in [Ids -> Rows]
    /\ owner \in [Ids -> Clients \cup {Null}]
    /\ pend \in [Clients -> [Ids -> Rows]]
    /\ snap \in [Clients -> [Ids -> Rows]]
    /\ cst \in [Clients -> ClientPC]
    /\ cop \in [Clients -> Seq(Entry)]
    /\ next \in [Clients -> Nat]
    /\ attempt \in [Clients -> 0..MaxAttempts]
    /\ calls \in Nat
    /\ sum \in [Ids -> Int]
    /\ acked \in [Ids -> Int]
    /\ raced \subseteq Ids
    /\ \A c \in Clients :
          cst[c] \in {"idle", "begin", "committing"} => Owned(c) = {}

\* A counter holds exactly the deltas of the committed transactions, through
\* batches that meet it twice, aborted transactions and retries, as long as no
\* statement found the row changed since its snapshot and the id was not first
\* written as a gauge.
CounterExactUnlessRaced ==
    \A i \in Ids :
        table[i].mtype = "counter" /\ i \notin raced => table[i].delta = sum[i]

\* The inductive invariant behind it. The transaction of c is open.
InTx(c) == cst[c] \in {"ready", "exec"}

\* A statement runs for an entry that is not skipped.
Statements ==
    \A c \in Clients :
        /\ InTx(c) => next[c] >= 1
        /\ cst[c] = "exec" => next[c] <= Len(cop[c]) /\ WellFormed(cop[c][next[c]])

\* A row has the type of its first write, and a row made by a gauge a value.
HasType(row) ==
    /\ row.mtype \in {"gauge", "counter"}
    /\ row.mtype = "gauge" => row.value # Null

\* A row that is not raced is made, and changed, by what is committed.
Committed ==
    \A i \in Ids :
        /\ table[i] # NoRow => HasType(table[i])
        /\ i \notin raced => /\ table[i] = NoRow => sum[i] = 0
                             /\ table[i].mtype = "counter" => table[i].delta = sum[i]

\* What the entries of es before the k-th add to the counter i; whether one of
\* them writes the row at all.
SoFar(es, k, i) ==
    MapThenSumSet(LAMBDA n : es[n].val, {n \in CounterEntries(es, i) : n < k})

Untouched(es, k, i) ==
    \A n \in DOMAIN es : n < k /\ es[n].id = i => ~WellFormed(es[n])

\* An open transaction owns the rows it has written: they keep the type of the
\* committed row, and a counter is ahead of it by the entries done so far.
Written ==
    \A c \in Clients : \A i \in Ids :
        InTx(c) =>
        /\ owner[i] = c =>
              /\ HasType(pend[c][i])
              /\ table[i] # NoRow => pend[c][i].mtype = table[i].mtype
              /\ i \notin raced /\ pend[c][i].mtype = "counter"
                 => pend[c][i].delta = sum[i] + SoFar(cop[c], next[c], i)
        /\ owner[i] # c => Untouched(cop[c], next[c], i)

\* What was committed is there for the answer to be given, and stays.
Stored ==
    /\ \A c \in Clients :
          cst[c] = "committing" =>
          \A n \in DOMAIN cop[c] :
              WellFormed(cop[c][n]) => table[cop[c][n].id] # NoRow
    /\ \A i \in Ids : acked[i] # 0 => table[i] # NoRow

PInv == TypeOK /\ Statements /\ Committed /\ Written /\ Stored

\* Handlers that only ever add to counters: what is acknowledged, with what is
\* committed and still to be answered, is never ahead of what is committed.
NonNegative(es) ==
    \A n \in DOMAIN es : es[n].mtype = "counter" /\ WellFormed(es[n]) => es[n].val >= 0

Unanswered(i) ==
    [c \in Clients |-> [val |-> IF cst[c] = "committing" THEN Delta(cop[c], i) ELSE 0]]

Total(f) == MapThenSumSet(LAMBDA c : f[c].val, Clients)

Ledger ==
    /\ \A c \in Clients : NonNegative(cop[c])
    /\ \A i \in Ids : 0 <= acked[i] /\ acked[i] + Total(Unanswered(i)) <= sum[i]

\* Every call returns: row locks, deadlocks and lost connections can delay a
\* handler for the retrier's attempts but not for ever.
CallsReturn == \A c \in Clients : cst[c] # "idle" ~> cst[c] = "idle"

\* storage.go:21, WriteMetric is the "method for write single metric to
\* storage", and the other store adds (storage.go:54): what a call that returned
\* nil added is in the counter. (Refuted by a run with two handlers, no fault.)
AcknowledgedIsCounted ==
    \A i \in Ids :
        acked[i] > 0 => table[i].delta # Null /\ table[i].delta >= acked[i]
=============================================================================
