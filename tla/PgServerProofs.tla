--------------------------- MODULE PgServerProofs ---------------------------
(***************************************************************************)
(* Proofs about the server with the PostgreSQL store: what a reading       *)
(* handler sees beside any number of writing ones, with lost connections   *)
(* and restarts.                                                           *)
(***************************************************************************)
EXTENDS PgServer, PgDBProofs

-----------------------------------------------------------------------------
(* Rows stay, with their type.                                              *)

RowsKept ==
    /\ \A i \in Ids : table[i] # NoRow => /\ table'[i] # NoRow
                                          /\ table'[i].mtype = table[i].mtype
    /\ raced \subseteq raced'

LEMMA WriterKeepsRows ==
    ASSUME PInv, NEW c \in Clients,
           (\E es \in Ops : Call(c, es)) \/ Progress(c) \/ Fault(c)
    PROVE  RowsKept
<1>1. CASE Commit(c)
  <2>1. InTx(c) /\ raced' = raced
    BY <1>1 DEF Commit, InTx
  <2>2. \A i \in Ids : table'[i] = IF owner[i] = c THEN pend[c][i] ELSE table[i]
    BY <1>1 DEF Commit
  <2>3. \A i \in Ids : owner[i] = c =>
           /\ pend[c][i] # NoRow
           /\ table[i] # NoRow => pend[c][i].mtype = table[i].mtype
    BY <2>1, NoRowIsRow, PgAssumption DEF PInv, Written, HasType
  <2>4. QED
    BY <2>1, <2>2, <2>3 DEF RowsKept
<1>2. CASE ~Commit(c)
  BY <1>2 DEF RowsKept, Progress, Fault, Call, Begin, Skip, StartStatement, Execute,
     CommitAnswered, DeadlockAborted, ConnectionLost, AnswerLost, dbVars
<1>3. QED
  BY <1>1, <1>2

\* The writers and restarts do not disturb the reader.
LEMMA ReaderStays ==
    ASSUME SInv, RowsKept, UNCHANGED rd, PInv'
    PROVE  SInv'
<1> USE DEF SInv
<1>1. ReaderTypes' /\ FoundAcknowledged' /\ PageListsEachIdOnce'
  BY DEF ReaderTypes, FoundAcknowledged, PageListsEachIdOnce
<1>2. RowsStay'
  <2>1. rd.result = "value" => rd.call.id \in Ids
    BY ServerAssumption DEF ReaderTypes
  <2>2. QED
    BY <2>1 DEF RowsStay, RowsKept
<1>3. HalfPage'
  <2>1. \A i \in Ids : table[i].mtype \in {"gauge", "counter"} => table'[i].mtype = table[i].mtype
    BY NoRowIsRow, PgAssumption DEF RowsKept
  <2>2. QED
    BY <2>1 DEF HalfPage, OfType
<1>4. UnexplainedErrorsAreNulls'
  <2>1. rd.result = "error" => rd.call.id \in Ids
    BY ServerAssumption DEF ReaderTypes
  <2>2. QED
    BY <2>1 DEF UnexplainedErrorsAreNulls, RowsKept
<1>5. QED
  BY <1>1, <1>2, <1>3, <1>4

LEMMA NoReadIsReader ==
    ASSUME rd = NoRead
    PROVE  /\ ReaderTypes /\ RowsStay /\ HalfPage
           /\ PageListsEachIdOnce /\ UnexplainedErrorsAreNulls /\ FoundAcknowledged
<1>1. ReaderTypes
  BY DEF ReaderTypes, NoRead
<1>2. RowsStay /\ HalfPage
  BY ServerAssumption DEF RowsStay, HalfPage, NoRead
<1>3. PageListsEachIdOnce /\ UnexplainedErrorsAreNulls /\ FoundAcknowledged
  BY ServerAssumption DEF PageListsEachIdOnce, UnexplainedErrorsAreNulls, FoundAcknowledged, NoRead
<1>4. QED
  BY <1>1, <1>2, <1>3

\* The end of the process, which takes the writers and an unfinished read along.
LEMMA StopStep ==
    ASSUME SInv, Stop
    PROVE  SInv'
<1> USE DEF SInv, PInv
<1>1. PInv'
  <2>1. TypeOK'
    <3>1. <<>> \in Seq(Entry) /\ 0 \in 0..MaxAttempts
      BY PgAssumption DEF MaxAttempts
    <3>2. QED
      BY <3>1, NoRowIsRow, PgAssumption DEF Stop, TypeOK, ClientPC, Owned
  <2>2. Statements' /\ Committed'
    BY DEF Stop, Statements, Committed, InTx
  <2>3. Written' /\ Stored'
    BY DEF Stop, Written, Stored, InTx
  <2>4. QED
    BY <2>1, <2>2, <2>3
<1>2. RowsKept
  BY DEF Stop, RowsKept
<1>3. CASE rd' = rd
  BY <1>1, <1>2, <1>3, ReaderStays
<1>4. CASE rd' = NoRead
  <2>1. ReaderTypes'
    BY <1>4 DEF ReaderTypes, NoRead
  <2>2. RowsStay' /\ HalfPage'
    BY <1>4, ServerAssumption DEF RowsStay, HalfPage, NoRead
  <2>3. PageListsEachIdOnce' /\ UnexplainedErrorsAreNulls' /\ FoundAcknowledged'
    BY <1>4, ServerAssumption DEF PageListsEachIdOnce, UnexplainedErrorsAreNulls, FoundAcknowledged, NoRead
  <2>4. QED
    BY <1>1, <2>1, <2>2, <2>3
<1>5. QED
  BY <1>3, <1>4 DEF Stop

-----------------------------------------------------------------------------
(* The reader's steps, which change nothing else.                           *)

\* The rows a reader can meet, by PInv.
LEMMA RowsMet ==
    ASSUME PInv, NEW i \in Ids
    PROVE  /\ table[i] \in Rows
           /\ table[i] # NoRow => table[i].mtype \in {"gauge", "counter"}
           /\ table[i].mtype = "gauge" => table[i].value # Null
           /\ table[i].mtype = "counter" /\ table[i].delta = Null => i \in raced
           /\ table[i] = NoRow => table[i].value = Null /\ table[i].delta = Null
<1>1. table[i] \in Rows /\ sum[i] \in Int
  BY DEF PInv, TypeOK
<1>2. table[i] # NoRow => HasType(table[i])
  BY DEF PInv, Committed
<1>3. table[i].mtype = "counter" /\ i \notin raced => table[i].delta = sum[i]
  BY DEF PInv, Committed
<1>4. QED
  BY <1>1, <1>2, <1>3, PgAssumption DEF HasType, NoRow

LEMMA ReadCallStep ==
    ASSUME SInv, NEW r \in Reads, ReadCall(r), UNCHANGED vars
    PROVE  SInv'
<1> USE DEF SInv
<1>1. PInv'
  BY IdleStep
<1>2. UNCHANGED <<table, raced, acked>>
  BY DEF vars, dbVars
<1>3. /\ rd'.at = "call" /\ rd'.call = r /\ rd'.attempt = 1 /\ rd'.floor = acked
      /\ rd'.counters = {} /\ rd'.gauges = {} /\ rd'.result = Null /\ rd'.value = Null
      /\ rd'.struck = FALSE
      /\ rd' = [at |-> "call", call |-> r, attempt |-> 1, counters |-> {}, gauges |-> {},
                result |-> Null, value |-> Null, floor |-> acked, struck |-> FALSE]
  BY DEF ReadCall, NoRead
<1>4. ReaderTypes'
  <2>1. acked \in [Ids -> Int]
    BY DEF PInv, TypeOK
  <2>2. QED
    BY <1>3, <2>1 DEF ReaderTypes
<1>5. RowsStay' /\ HalfPage'
  BY <1>2, <1>3, ServerAssumption DEF RowsStay, HalfPage, PInv, Stored
<1>6. PageListsEachIdOnce' /\ UnexplainedErrorsAreNulls' /\ FoundAcknowledged'
  BY <1>3, ServerAssumption DEF PageListsEachIdOnce, UnexplainedErrorsAreNulls, FoundAcknowledged
<1>7. QED
  BY <1>1, <1>4, <1>5, <1>6

\* An error that is explained: a connection failed, or there was a NULL.
LEMMA ReadErrorStep ==
    ASSUME SInv, NEW struck \in BOOLEAN, ReadError(struck), UNCHANGED vars,
           rd.at \in {"call", "gauges"},
           ~struck => IF rd.call.all THEN raced # {}
                      ELSE /\ table[rd.call.id] # NoRow
                           /\ table[rd.call.id].mtype # rd.call.mtype \/ rd.call.id \in raced
    PROVE  SInv'
<1> USE DEF SInv
<1>1. PInv'
  BY IdleStep
<1>2. UNCHANGED <<table, raced>>
  BY DEF vars, dbVars
<1>3. /\ rd'.call = rd.call /\ rd'.floor = rd.floor /\ rd'.struck = (rd.struck \/ struck)
      /\ \/ rd'.at = "call" /\ rd'.result = rd.result
         \/ rd'.at = "done" /\ rd'.result = "error"
  BY DEF ReadError, ReaderTypes
<1>4. ReaderTypes'
  <2>1. rd.attempt + 1 \in Nat /\ rd.result = Null /\ rd.call \in Reads
    BY DEF ReaderTypes
  <2>2. PICK b \in BOOLEAN : b = (rd.struck \/ struck)
    OBVIOUS
  <2>3. CASE rd' = [rd EXCEPT !.at = "call", !.attempt = @ + 1, !.counters = {}, !.struck = b]
    BY <2>1, <2>3 DEF ReaderTypes
  <2>4. CASE rd' = [rd EXCEPT !.at = "done", !.result = "error", !.struck = b]
    BY <2>1, <2>4 DEF ReaderTypes
  <2>5. QED
    BY <2>2, <2>3, <2>4, Zenon DEF ReadError
<1>5. RowsStay' /\ HalfPage'
  BY <1>2, <1>3, ServerAssumption DEF RowsStay, HalfPage, ReaderTypes
<1>6. PageListsEachIdOnce' /\ FoundAcknowledged'
  BY <1>3, ServerAssumption DEF PageListsEachIdOnce, FoundAcknowledged, ReaderTypes
<1>7. UnexplainedErrorsAreNulls'
  BY <1>2, <1>3, ServerAssumption DEF UnexplainedErrorsAreNulls, ReaderTypes
<1>8. QED
  BY <1>1, <1>4, <1>5, <1>6, <1>7

LEMMA GetMetricStep ==
    ASSUME SInv, GetMetric, UNCHANGED vars
    PROVE  SInv'
<1> USE DEF SInv
<1> DEFINE i == rd.call.id
           row == table[i]
           value == IF rd.call.mtype = "gauge" THEN row.value ELSE row.delta
<1>1. PInv' /\ UNCHANGED <<table, raced>>
  BY IdleStep DEF vars, dbVars
<1>2. rd.at = "call" /\ ~rd.call.all /\ rd.call \in Reads /\ i \in Ids
      /\ rd.call.mtype \in {"gauge", "counter"} /\ rd.result = Null
  BY ServerAssumption DEF GetMetric, ReaderTypes
<1>3. CASE row # NoRow /\ value = Null /\ ReadError(FALSE)
  <2>1. row.mtype # rd.call.mtype \/ i \in raced
    BY <1>2, <1>3, RowsMet
  <2>2. QED
    BY <1>2, <1>3, <2>1, ReadErrorStep
<1>4. CASE row = NoRow /\ ReadReturns("noval")
  <2>1. rd'.at = "done" /\ rd'.result = "noval" /\ rd'.call = rd.call /\ rd'.floor = rd.floor
    BY <1>4 DEF ReadReturns, ReaderTypes
  <2>2. ReaderTypes'
    BY <1>2, <1>4 DEF ReadReturns, ReaderTypes
  <2>3. RowsStay' /\ HalfPage'
    BY <1>1, <2>1 DEF RowsStay, HalfPage
  <2>4. FoundAcknowledged'
    BY <1>2, <1>4, <2>1 DEF FoundAcknowledged, RowsStay
  <2>5. PageListsEachIdOnce' /\ UnexplainedErrorsAreNulls'
    BY <2>1 DEF PageListsEachIdOnce, UnexplainedErrorsAreNulls
  <2>6. QED
    BY <1>1, <2>2, <2>3, <2>4, <2>5
<1>5. CASE value # Null /\ rd' = [rd EXCEPT !.at = "done", !.result = "value", !.value = value]
  <2>1. rd'.at = "done" /\ rd'.result = "value" /\ rd'.call = rd.call /\ rd'.floor = rd.floor
    BY <1>5 DEF ReaderTypes
  <2>v. value \in Int /\ row # NoRow
    BY <1>2, <1>5, RowsMet DEF Rows
  <2> HIDE DEF value
  <2>2. ReaderTypes'
    BY <1>2, <1>5, <2>v DEF ReaderTypes
  <2>3. RowsStay' /\ HalfPage'
    BY <1>1, <2>1, <2>v DEF RowsStay, HalfPage
  <2>4. FoundAcknowledged' /\ PageListsEachIdOnce' /\ UnexplainedErrorsAreNulls'
    BY <2>1 DEF FoundAcknowledged, PageListsEachIdOnce, UnexplainedErrorsAreNulls
  <2>5. QED
    BY <1>1, <2>2, <2>3, <2>4
<1>6. QED
  BY <1>3, <1>4, <1>5 DEF GetMetric

LEMMA GetAllCountersStep ==
    ASSUME SInv, GetAllCounters, UNCHANGED vars
    PROVE  SInv'
<1> USE DEF SInv
<1>1. PInv' /\ UNCHANGED <<table, raced>>
  BY IdleStep DEF vars, dbVars
<1>2. rd.at = "call" /\ rd.call.all /\ rd.call \in Reads /\ rd.result = Null
  BY DEF GetAllCounters, ReaderTypes
<1>3. CASE ReadError(FALSE) /\ \E i \in OfType("counter") : table[i].delta = Null
  <2>1. raced # {}
    BY <1>3, RowsMet DEF OfType
  <2>2. QED
    BY <1>2, <1>3, <2>1, ReadErrorStep
<1>4. CASE rd' = [rd EXCEPT !.at = "gauges", !.counters = OfType("counter")]
  <2>1. rd'.at = "gauges" /\ rd'.result = Null /\ rd'.call = rd.call /\ rd'.floor = rd.floor
        /\ rd'.counters = OfType("counter")
    BY <1>2, <1>4 DEF ReaderTypes
  <2>2. ReaderTypes'
    <3>1. OfType("counter") \in SUBSET Ids
      BY DEF OfType
    <3>2. QED
      BY <1>2, <1>4, <3>1 DEF ReaderTypes
  <2>3. RowsStay'
    BY <1>1, <2>1, ServerAssumption DEF RowsStay
  <2>4. HalfPage'
    <3>1. \A i \in Ids : rd.floor[i] > 0 => table[i].mtype \in {"gauge", "counter"}
      BY RowsMet DEF RowsStay, ReaderTypes
    <3>2. QED
      BY <1>1, <2>1, <3>1 DEF HalfPage, OfType
  <2>5. FoundAcknowledged' /\ PageListsEachIdOnce' /\ UnexplainedErrorsAreNulls'
    BY <2>1, ServerAssumption DEF FoundAcknowledged, PageListsEachIdOnce, UnexplainedErrorsAreNulls
  <2>6. QED
    BY <1>1, <2>2, <2>3, <2>4, <2>5
<1>5. QED
  BY <1>3, <1>4 DEF GetAllCounters

LEMMA GetAllGaugesStep ==
    ASSUME SInv, GetAllGauges, UNCHANGED vars
    PROVE  SInv'
<1> USE DEF SInv
<1>1. PInv' /\ UNCHANGED <<table, raced>>
  BY IdleStep DEF vars, dbVars
<1>2. rd.at = "gauges" /\ rd.call.all /\ rd.call \in Reads
      /\ rd' = [rd EXCEPT !.at = "done", !.gauges = OfType("gauge"), !.result = "page"]
  BY DEF GetAllGauges, ReaderTypes
<1>3. rd'.at = "done" /\ rd'.result = "page" /\ rd'.call = rd.call /\ rd'.floor = rd.floor
      /\ rd'.counters = rd.counters /\ rd'.gauges = OfType("gauge")
  BY <1>2 DEF ReaderTypes
<1>4. ReaderTypes'
  <2>1. OfType("gauge") \in SUBSET Ids
    BY DEF OfType
  <2>2. QED
    BY <1>2, <2>1 DEF ReaderTypes
<1>5. RowsStay' /\ HalfPage'
  BY <1>1, <1>3 DEF RowsStay, HalfPage
<1>6. PageListsEachIdOnce'
  <2>1. rd.counters \cap OfType("gauge") = {}
    BY <1>2 DEF HalfPage, OfType
  <2>2. QED
    BY <1>2, <1>3, <2>1 DEF PageListsEachIdOnce, HalfPage
<1>7. FoundAcknowledged' /\ UnexplainedErrorsAreNulls'
  BY <1>3 DEF FoundAcknowledged, UnexplainedErrorsAreNulls
<1>8. QED
  BY <1>1, <1>4, <1>5, <1>6, <1>7

LEMMA ReadFaultStep ==
    ASSUME SInv, ReadFault, UNCHANGED vars
    PROVE  SInv'
  BY ReadErrorStep DEF ReadFault

LEMMA ServerInitInv == ServerInit => SInv
  BY InitStep, NoReadIsReader DEF ServerInit, SInv

LEMMA ServerNextInv == SInv /\ [ServerNext]_serverVars => SInv'
<1> SUFFICES ASSUME SInv, [ServerNext]_serverVars PROVE SInv'
  OBVIOUS
<1>1. ASSUME UNCHANGED vars, UNCHANGED rd PROVE SInv'
  <2>1. RowsKept
    BY <1>1 DEF RowsKept, vars, dbVars
  <2>2. PInv'
    BY <1>1, IdleStep DEF SInv
  <2>3. QED
    BY <1>1, <2>1, <2>2, ReaderStays
<1>2. CASE Writing
  <2>1. PInv' /\ RowsKept
    BY <1>2, WriterStep, WriterKeepsRows DEF Writing, SInv
  <2>2. QED
    BY <1>2, <2>1, ReaderStays DEF Writing
<1>3. CASE Reading
  BY <1>3, ReadCallStep, GetMetricStep, GetAllCountersStep, GetAllGaugesStep, ReadFaultStep
     DEF Reading, ReadStep
<1>4. CASE Stop
  BY <1>4, StopStep
<1>5. CASE PopulateDB \/ PopulateFails \/ Restart \/ ServerFinished \/ UNCHANGED serverVars
  BY <1>1, <1>5 DEF PopulateDB, PopulateFails, Restart, ServerFinished, serverVars
<1>6. QED
  BY <1>2, <1>3, <1>4, <1>5 DEF ServerNext

-----------------------------------------------------------------------------
(* Handlers that only add to counters.                                      *)

LEMMA DeltaNat ==
    ASSUME NEW es \in Seq(Entry), NonNegative(es), NEW i
    PROVE  Delta(es, i) \in Nat
<1>1. IsFiniteSet(CounterEntries(es, i)) /\ \A n \in CounterEntries(es, i) : es[n].val \in Int
  BY Summable
<1>2. \A n \in CounterEntries(es, i) : es[n].val \in Nat
  BY <1>1 DEF NonNegative, CounterEntries
<1>3. QED
  BY <1>1, <1>2, SumNonNegative, DeltaSum

LEMMA TotalSum ==
    ASSUME NEW f
    PROVE  Total(f) = SumOf(f, Clients)
  BY Zenon DEF Total, SumOf

\* What is still to be answered, when only the call of c goes on.
LEMMA UnansweredStep ==
    ASSUME TypeOK, TypeOK', NEW c \in Clients, NEW i \in Ids,
           \A d \in Clients : d # c => cst'[d] = cst[d] /\ cop'[d] = cop[d]
    PROVE  /\ Total(Unanswered(i)) \in Int /\ Total(Unanswered(i)') \in Int
           /\ Total(Unanswered(i)') =
                Total(Unanswered(i)) + Unanswered(i)'[c].val - Unanswered(i)[c].val
<1> DEFINE es == Unanswered(i)
           fs == Unanswered(i)'
<1>1. \A d \in Clients : Delta(cop[d], i) \in Int /\ Delta(cop'[d], i) \in Int
  <2>1. \A d \in Clients : cop[d] \in Seq(Entry) /\ cop'[d] \in Seq(Entry)
    BY DEF TypeOK
  <2>2. QED
    BY <2>1, SoFarType
<1>2. /\ \A d \in Clients : es[d].val \in Int /\ fs[d].val \in Int
      /\ \A d \in Clients : d # c => es[d].val = fs[d].val
  BY <1>1 DEF Unanswered
<1>3. IsFiniteSet(Clients)
  BY PgAssumption
<1> HIDE DEF es, fs
<1>4. /\ SumOf(es, Clients) \in Int /\ SumOf(fs, Clients) \in Int
      /\ SumOf(fs, Clients) = SumOf(es, Clients) + fs[c].val - es[c].val
  BY <1>2, <1>3, SumChange
<1>5. QED
  BY <1>4, TotalSum DEF es, fs

LEMMA LedgerStep ==
    ASSUME PInv, PInv', Ledger, \A es \in Ops : NonNegative(es), NEW c \in Clients,
           (\E es \in Ops : Call(c, es)) \/ Progress(c) \/ Fault(c)
    PROVE  Ledger' /\ \A i \in Ids : sum[i] <= sum'[i]
<1> DEFINE U(i) == Unanswered(i)[c].val
           V(i) == Unanswered(i)'[c].val
<1>1. /\ \A d \in Clients : d # c => cst'[d] = cst[d] /\ cop'[d] = cop[d]
      /\ cop'[c] \in Ops \cup {cop[c], <<>>}
      /\ cst'[c] = "committing" => Commit(c)
  <2>1. cst \in [Clients -> ClientPC] /\ cop \in [Clients -> Seq(Entry)]
    BY DEF PInv, TypeOK
  <2>2. CASE \E es \in Ops : Call(c, es)
    BY <2>1, <2>2 DEF Call
  <2>3. CASE Begin(c) \/ Skip(c) \/ StartStatement(c) \/ Execute(c) \/ Commit(c)
    BY <2>1, <2>3 DEF Begin, Skip, StartStatement, Execute, Commit
  <2>4. CASE CommitAnswered(c)
    BY <2>1, <2>4 DEF CommitAnswered, Return
  <2>5. CASE DeadlockAborted(c) \/ Fault(c)
    BY <2>1, <2>5 DEF DeadlockAborted, Fault, ConnectionLost, AnswerLost, RetryOrFail, Return
  <2>6. QED
    BY <2>2, <2>3, <2>4, <2>5 DEF Progress
<1>2. \A d \in Clients : NonNegative(cop'[d])
  <2>1. NonNegative(<<>>)
    BY DEF NonNegative
  <2>2. QED
    BY <1>1, <2>1 DEF Ledger
<1>3. \A i \in Ids : /\ Delta(cop[c], i) \in Nat
                     /\ U(i) = IF cst[c] = "committing" THEN Delta(cop[c], i) ELSE 0
                     /\ V(i) = IF cst'[c] = "committing" THEN Delta(cop'[c], i) ELSE 0
  BY Typed, DeltaNat DEF Ledger, PInv, Unanswered
<1>4. \A i \in Ids : /\ Total(Unanswered(i)) \in Int /\ Total(Unanswered(i)') \in Int
                     /\ Total(Unanswered(i)') = Total(Unanswered(i)) + V(i) - U(i)
  BY <1>1, UnansweredStep DEF PInv
<1>5. \A i \in Ids : /\ sum[i] \in Int /\ acked[i] \in Int
                     /\ 0 <= acked[i] /\ acked[i] + Total(Unanswered(i)) <= sum[i]
  BY DEF PInv, TypeOK, Ledger
<1> HIDE DEF U, V
<1> SUFFICES ASSUME NEW i \in Ids
             PROVE  /\ 0 <= acked'[i] /\ acked'[i] + Total(Unanswered(i)') <= sum'[i]
                    /\ sum[i] <= sum'[i]
  BY <1>2 DEF Ledger
<1>6. PICK n \in Nat, t \in Int, a \in Int, s \in Int :
         n = Delta(cop[c], i) /\ t = Total(Unanswered(i)) /\ a = acked[i] /\ s = sum[i]
  BY <1>3, <1>4, <1>5
<1>7. 0 <= a /\ a + t <= s
  BY <1>5, <1>6
<1>8. CASE Commit(c)
  <2>1. sum'[i] = s + n /\ acked'[i] = a /\ U(i) = 0 /\ V(i) = n
    BY <1>3, <1>6, <1>8 DEF Commit, PInv, TypeOK
  <2>2. Total(Unanswered(i)') = t + n
    BY <1>4, <1>6, <2>1
  <2>3. QED
    BY <1>6, <1>7, <2>1, <2>2
<1>9. CASE CommitAnswered(c)
  <2>1. sum'[i] = s /\ acked'[i] = a + n /\ U(i) = n /\ V(i) = 0
    BY <1>3, <1>6, <1>9 DEF CommitAnswered, Return, PInv, TypeOK
  <2>2. Total(Unanswered(i)') = t - n
    BY <1>4, <1>6, <2>1
  <2>3. QED
    BY <1>6, <1>7, <2>1, <2>2
<1>10. CASE ~Commit(c) /\ ~CommitAnswered(c)
  <2>1. sum'[i] = s /\ acked'[i] = a
    BY <1>6, <1>10 DEF Progress, Fault, Call, Begin, Skip, StartStatement, Execute,
       DeadlockAborted, ConnectionLost, AnswerLost
  <2>2. V(i) = 0 /\ U(i) \in {0, n}
    BY <1>1, <1>3, <1>6, <1>10
  <2>3. Total(Unanswered(i)') = t - U(i)
    BY <1>4, <1>6, <2>2
  <2>4. QED
    BY <1>6, <1>7, <2>1, <2>2, <2>3
<1>11. QED
  BY <1>8, <1>9, <1>10

LEMMA AcknowledgedIsCommitted ==
    ASSUME PInv, Ledger, NEW i \in Ids
    PROVE  sum[i] \in Int /\ acked[i] \in Int /\ 0 <= acked[i] /\ acked[i] <= sum[i]
<1>1. /\ sum[i] \in Int /\ acked[i] \in Int /\ 0 <= acked[i]
      /\ acked[i] + Total(Unanswered(i)) <= sum[i]
  BY DEF PInv, TypeOK, Ledger
<1>2. \A c \in Clients : cop[c] \in Seq(Entry) /\ NonNegative(cop[c])
  BY DEF PInv, TypeOK, Ledger
<1>3. \A c \in Clients : Unanswered(i)[c].val \in Nat
  BY <1>2, DeltaNat DEF Unanswered
<1>4. Total(Unanswered(i)) \in Nat
  BY <1>3, PgAssumption, TotalSum, SumNonNegative
<1>5. QED
  BY <1>1, <1>4

\* What the invariant adds for such handlers.
AInv == SInv /\ Ledger /\ Floors /\ ReadsSeeAcknowledged

LEMMA NothingUnanswered ==
    ASSUME NEW f, \A c \in Clients : f[c].val = 0
    PROVE  Total(f) = 0
  BY PgAssumption, TotalSum, SumZeros

LEMMA AcknowledgedInit == ServerInit => AInv
<1> SUFFICES ASSUME ServerInit PROVE AInv
  OBVIOUS
<1>1. SInv
  BY ServerInitInv
<1>2. Ledger
  <2>1. \A i \in Ids : Total(Unanswered(i)) = 0
    BY NothingUnanswered DEF ServerInit, Init, Unanswered
  <2>2. QED
    BY <2>1 DEF ServerInit, Init, Ledger, NonNegative
<1>3. Floors /\ ReadsSeeAcknowledged
  BY DEF ServerInit, Init, NoRead, Floors, ReadsSeeAcknowledged
<1>4. QED
  BY <1>1, <1>2, <1>3 DEF AInv

\* A step that leaves the reader alone leaves it right.
LEMMA FloorsStay ==
    ASSUME SInv, Floors, ReadsSeeAcknowledged, RowsKept, UNCHANGED rd,
           \A i \in Ids : sum[i] \in Int /\ sum'[i] \in Int /\ sum[i] <= sum'[i]
    PROVE  Floors' /\ ReadsSeeAcknowledged'
<1>1. Floors'
  BY DEF Floors, SInv, ReaderTypes
<1>2. ReadsSeeAcknowledged'
  <2>1. rd.result = "value" => rd.call.id \in Ids /\ table[rd.call.id] # NoRow
    BY ServerAssumption DEF SInv, ReaderTypes, RowsStay
  <2>2. QED
    BY <2>1 DEF ReadsSeeAcknowledged, RowsKept
<1>3. QED
  BY <1>1, <1>2

\* The reader's own steps: it finds at least the floor, or is not done.
LEMMA FloorsRead ==
    ASSUME SInv, SInv', Ledger, Floors, ReadsSeeAcknowledged, UNCHANGED vars,
           (\E r \in Reads : ReadCall(r)) \/ ReadStep \/ ReadFault
    PROVE  Floors' /\ ReadsSeeAcknowledged'
<1>1. sum' = sum /\ table' = table /\ raced' = raced
  BY DEF vars, dbVars
<1>2. \A i \in Ids : sum[i] \in Int /\ acked[i] \in Int /\ acked[i] <= sum[i]
  BY AcknowledgedIsCommitted DEF SInv
<1>3. CASE \E r \in Reads : ReadCall(r)
  <2>1. rd'.floor = acked /\ rd'.at = "call"
    BY <1>3 DEF ReadCall, NoRead
  <2>2. QED
    BY <1>1, <1>2, <2>1 DEF Floors, ReadsSeeAcknowledged
<1>4. CASE ReadStep \/ ReadFault
  <2>1. rd'.floor = rd.floor /\ rd'.call = rd.call
    BY <1>4 DEF ReadStep, ReadFault, GetMetric, GetAllCounters, GetAllGauges, ReadReturns,
       ReadError, SInv, ReaderTypes
  <2>2. Floors'
    BY <1>1, <2>1 DEF Floors
  <2>3. ASSUME rd'.result = "value"
        PROVE  GetMetric /\ rd.call.id \in Ids /\ (rd.call.mtype = "counter" => rd'.value = table[rd.call.id].delta)
    <3>1. rd.at \in {"call", "gauges"} /\ rd.result = Null /\ rd.call \in Reads
      BY <1>4 DEF ReadStep, ReadFault, GetMetric, GetAllCounters, GetAllGauges, SInv, ReaderTypes
    <3>2. GetMetric
      BY <1>4, <2>3, <3>1, ServerAssumption DEF ReadStep, ReadFault, GetAllCounters,
         GetAllGauges, ReadError, SInv, ReaderTypes
    <3>3. rd.call.mtype = "counter" => rd'.value = table[rd.call.id].delta
      BY <2>3, <3>1, <3>2, ServerAssumption DEF GetMetric, ReadReturns, ReadError, SInv, ReaderTypes
    <3>4. QED
      BY <3>1, <3>2, <3>3, ServerAssumption
  <2>4. ReadsSeeAcknowledged'
    <3>1. rd'.result = "value" /\ rd'.call.mtype = "counter" /\ rd'.call.id \notin raced'
          /\ table'[rd'.call.id].mtype = "counter"
          => rd'.value = sum[rd'.call.id] /\ rd'.call.id \in Ids
      BY <1>1, <2>1, <2>3 DEF SInv, PInv, Committed
    <3>2. rd'.call.id \in Ids => rd'.floor[rd'.call.id] <= sum[rd'.call.id]
                                 /\ rd'.floor[rd'.call.id] \in Int /\ sum[rd'.call.id] \in Int
      BY <1>1, <1>2, <2>2 DEF Floors, SInv, ReaderTypes
    <3>3. rd'.at = "done" /\ ~rd'.call.all /\ rd'.floor[rd'.call.id] > 0 => rd'.result # "noval"
      BY DEF SInv, FoundAcknowledged
    <3>4. QED
      BY <3>1, <3>2, <3>3 DEF ReadsSeeAcknowledged
  <2>5. QED
    BY <2>2, <2>4
<1>5. QED
  BY <1>3, <1>4

LEMMA AcknowledgedStep ==
    ASSUME \A es \in Ops : NonNegative(es), AInv, [ServerNext]_serverVars
    PROVE  AInv'
<1> USE DEF AInv
<1>1. SInv'
  BY ServerNextInv
<1>2. \A i \in Ids : sum[i] \in Int /\ sum'[i] \in Int
  BY <1>1 DEF SInv, PInv, TypeOK
<1>3. ASSUME UNCHANGED vars PROVE Ledger'
  BY <1>3 DEF Ledger, Unanswered, vars, clientVars
<1>4. CASE Writing
  <2>1. PICK c \in Clients : (\E es \in Ops : Call(c, es)) \/ Progress(c) \/ Fault(c)
    BY <1>4 DEF Writing
  <2>2. Ledger' /\ (\A i \in Ids : sum[i] <= sum'[i]) /\ RowsKept
    BY <1>1, <2>1, LedgerStep, WriterKeepsRows DEF SInv
  <2>3. QED
    BY <1>1, <1>2, <1>4, <2>2, FloorsStay DEF Writing
<1>5. CASE Reading
  BY <1>1, <1>3, <1>5, FloorsRead DEF Reading
<1>6. CASE Stop
  <2>1. RowsKept /\ sum' = sum /\ acked' = acked /\ \A c \in Clients : cst'[c] = "idle" /\ cop'[c] = <<>>
    BY <1>6 DEF Stop, RowsKept
  <2>2. Ledger'
    <3>1. \A i \in Ids : Total(Unanswered(i)') = 0
      BY <2>1, NothingUnanswered DEF Unanswered
    <3>2. \A i \in Ids : /\ acked[i] \in Int /\ sum[i] \in Int
                         /\ 0 <= acked[i] /\ acked[i] <= sum[i]
      BY AcknowledgedIsCommitted DEF SInv
    <3>3. QED
      BY <2>1, <3>1, <3>2 DEF Ledger, NonNegative
  <2>3. CASE rd' = rd
    BY <1>1, <1>2, <2>1, <2>2, <2>3, FloorsStay
  <2>4. CASE rd' = NoRead
    <3>1. \A i \in Ids : 0 <= sum[i]
      BY AcknowledgedIsCommitted DEF SInv
    <3>2. QED
      BY <1>1, <2>1, <2>2, <2>4, <3>1 DEF Floors, ReadsSeeAcknowledged, NoRead
  <2>5. QED
    BY <1>6, <2>3, <2>4 DEF Stop
<1>7. CASE PopulateDB \/ PopulateFails \/ Restart \/ ServerFinished \/ UNCHANGED serverVars
  <2>1. UNCHANGED vars /\ rd' = rd
    BY <1>7 DEF PopulateDB, PopulateFails, Restart, ServerFinished, serverVars
  <2>2. sum' = sum /\ RowsKept
    BY <2>1 DEF RowsKept, vars, dbVars
  <2>3. QED
    BY <1>1, <1>2, <1>3, <2>1, <2>2, FloorsStay
<1>8. QED
  BY <1>4, <1>5, <1>6, <1>7 DEF ServerNext

-----------------------------------------------------------------------------
(* The theorems.                                                            *)

\* The inductive invariant holds.
THEOREM PgServerInvariant == ServerSpec => []SInv
  BY ServerInitInv, ServerNextInv, PTL DEF ServerSpec

\* Counters stay exact when the server is restarted (Stop, PopulateDB).
THEOREM CounterIsExactAcrossRestarts == ServerSpec => []CounterExactUnlessRaced
<1>1. SInv => CounterExactUnlessRaced
  BY DEF SInv, PInv, Committed, CounterExactUnlessRaced
<1>2. QED
  BY <1>1, PgServerInvariant, PTL

\* The page shows no id twice and every acknowledged one, although it is read in
\* two statements (GetAllMetricsTxt).
THEOREM PageIsWhole == ServerSpec => []PageListsEachIdOnce
<1>1. SInv => PageListsEachIdOnce
  BY DEF SInv
<1>2. QED
  BY <1>1, PgServerInvariant, PTL

\* A read that fails on its own met a NULL that a type clash or a race put there
\* (GetMetric, GetAllMetricsTxt).
THEOREM ErrorsAreExplained == ServerSpec => []UnexplainedErrorsAreNulls
<1>1. SInv => UnexplainedErrorsAreNulls
  BY DEF SInv
<1>2. QED
  BY <1>1, PgServerInvariant, PTL

\* When no write lowers a counter, a read is never behind what was acknowledged
\* before it began, in this process or before a restart (GetMetric, PopulateDB).
THEOREM ReadsAreCurrent ==
    ASSUME \A es \in Ops : NonNegative(es)
    PROVE  ServerSpec => []ReadsSeeAcknowledged
<1>1. AInv /\ [ServerNext]_serverVars => AInv'
  BY AcknowledgedStep
<1>2. AInv => ReadsSeeAcknowledged
  BY DEF AInv
<1>3. QED
  BY <1>1, <1>2, AcknowledgedInit, PTL DEF ServerSpec
=============================================================================
