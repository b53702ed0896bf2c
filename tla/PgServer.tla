------------------------------ MODULE PgServer ------------------------------
(***************************************************************************)
(* The PostgreSQL configuration of the server around PgDB: Run's start-up  *)
(* (PopulateDB under the retrier), the end of the process at any moment    *)
(* and its next start, and a handler that reads (GetMetric,                *)
(* GetAllMetricsTxt, through their retriers) beside the ones that write.   *)
(*                                                                         *)
(* A read is one statement, or two for the page; each sees the committed   *)
(* rows of the moment it runs.                                             *)
(***************************************************************************)
EXTENDS PgDB

CONSTANTS
    Reads,        \* the reads the handler makes: [all, mtype, id]
    MaxReads,     \* bound: reads in a behaviour
    MaxRestarts   \* bound: starts after the first

ASSUME ServerAssumption ==
    /\ MaxReads \in Nat /\ MaxRestarts \in Nat
    /\ \A r \in Reads : r.id \in Ids /\ r.all \in BOOLEAN
                        /\ (~r.all => r.mtype \in {"gauge", "counter"})
    /\ Null \notin {"value", "noval", "page", "error"}

VARIABLES
    srv,     \* [at |-> .., attempt |-> of PopulateDB, starts |-> restarts left]
    rd,      \* the reading handler
    reads    \* reads left

serverVars == <<vars, srv, rd, reads>>

\* Where the reader is, its call, what it has read and what it returns. The
\* history parts: the counters acknowledged when the call began, and whether a
\* connection failed under it.
NoRead ==
    [at |-> "idle", call |-> Null, attempt |-> 0, counters |-> {}, gauges |-> {},
     result |-> Null, value |-> Null, floor |-> [i \in Ids |-> 0], struck |-> FALSE]

ServerInit ==
    /\ Init
    /\ srv = [at |-> "starting", attempt |-> 1, starts |-> MaxRestarts]
    /\ rd = NoRead
    /\ reads = MaxReads

-----------------------------------------------------------------------------
(* Start and end of the process.                                            *)

\* Mutant: the table is made anew.
PopulateAnew ==
    /\ srv.at = "starting"
    /\ srv' = [srv EXCEPT !.at = "up"]
    /\ table' = [i \in Ids |-> NoRow]
    /\ UNCHANGED <<owner, pend, snap, clientVars, calls, sum, acked, raced, rd, reads>>

\* PopulateDB: the table is created if it is not there, the six statements are
\* prepared.
PopulateDB ==
    /\ srv.at = "starting"
    /\ srv' = [srv EXCEPT !.at = "up"]
    /\ UNCHANGED <<vars, rd, reads>>

\* One of the seven fails: UseRetrierPopDB starts over, and in the end log.Fatal.
PopulateFails ==
    /\ srv.at = "starting" /\ Faults
    /\ srv' = IF srv.attempt < MaxAttempts THEN [srv EXCEPT !.attempt = @ + 1]
              ELSE [srv EXCEPT !.at = "ended"]
    /\ UNCHANGED <<vars, rd, reads>>

\* The process ends: CloseDB and the exit after Run, the watchdog, a crash. The
\* database rolls back what was not committed. (Bounded by the restarts left.)
Stop ==
    /\ srv.at = "up" /\ srv.starts > 0
    /\ srv' = [srv EXCEPT !.at = "ended"]
    /\ owner' = [i \in Ids |-> Null]
    /\ pend' = [c \in Clients |-> [i \in Ids |-> NoRow]]
    /\ snap' = [c \in Clients |-> [i \in Ids |-> NoRow]]
    /\ cst' = [c \in Clients |-> "idle"]
    /\ cop' = [c \in Clients |-> <<>>]
    /\ next' = [c \in Clients |-> 0]
    /\ attempt' = [c \in Clients |-> 0]
    /\ rd' = IF rd.at = "done" THEN rd ELSE NoRead
    /\ UNCHANGED <<table, calls, sum, acked, raced, reads>>

Restart ==
    /\ srv.at = "ended" /\ srv.starts > 0
    /\ srv' = [at |-> "starting", attempt |-> 1, starts |-> srv.starts - 1]
    /\ UNCHANGED <<vars, rd, reads>>

-----------------------------------------------------------------------------
(* The reading handler.                                                     *)

ReadCall(r) ==
    /\ rd.at \in {"idle", "done"} /\ reads > 0
    /\ reads' = reads - 1
    /\ rd' = [NoRead EXCEPT !.at = "call", !.call = r, !.attempt = 1, !.floor = acked]

\* The call returns to the handler.
ReadReturns(result) == rd' = [rd EXCEPT !.at = "done", !.result = result]

\* UseRetrierGetMetric and UseRetrierGetAllM: any error but ErrNoVal and
\* ErrBadMetricType is tried again, from the first statement.
ReadError(struck) ==
    \/ /\ rd.attempt < MaxAttempts
       /\ rd' = [rd EXCEPT !.at = "call", !.attempt = @ + 1, !.counters = {},
                           !.struck = @ \/ struck]
    \/ rd' = [rd EXCEPT !.at = "done", !.result = "error", !.struck = @ \/ struck]

\* Mutant: sql.ErrNoRows is passed on, which the retrier does not know.
GetMetricRowsError ==
    LET row   == table[rd.call.id]
        value == IF rd.call.mtype = "gauge" THEN row.value ELSE row.delta
    IN  /\ rd.at = "call" /\ ~rd.call.all
        /\ \/ value = Null /\ ReadError(FALSE)
           \/ value # Null /\ rd' = [rd EXCEPT !.at = "done", !.result = "value", !.value = value]
        /\ UNCHANGED reads

\* GetMetric: the row is looked up by its id alone, the column by the type asked
\* for; Scan refuses NULL.
GetMetric ==
    LET row   == table[rd.call.id]
        value == IF rd.call.mtype = "gauge" THEN row.value ELSE row.delta
    IN  /\ rd.at = "call" /\ ~rd.call.all
        /\ \/ row = NoRow /\ ReadReturns("noval")
           \/ row # NoRow /\ value = Null /\ ReadError(FALSE)
           \/ value # Null /\ rd' = [rd EXCEPT !.at = "done", !.result = "value", !.value = value]
        /\ UNCHANGED reads

\* Mutant: the page asks for rows by their columns.
OfColumn(t) == {i \in Ids : IF t = "gauge" THEN table[i].value # Null ELSE table[i].mtype = t}

OfType(t) == {i \in Ids : table[i].mtype = t}

\* GetAllMetricsTxt: getAllCounterStmt, whose NULLs Scan refuses,
GetAllCounters ==
    /\ rd.at = "call" /\ rd.call.all
    /\ \/ /\ \E i \in OfType("counter") : table[i].delta = Null
          /\ ReadError(FALSE)
       \/ /\ \A i \in OfType("counter") : table[i].delta # Null
          /\ rd' = [rd EXCEPT !.at = "gauges", !.counters = OfType("counter")]
    /\ UNCHANGED reads

\* then getAllGaugeStmt; a row made by a gauge always has a value.
GetAllGauges ==
    /\ rd.at = "gauges"
    /\ rd' = [rd EXCEPT !.at = "done", !.gauges = OfType("gauge"), !.result = "page"]
    /\ UNCHANGED reads

ReadFault ==
    /\ Faults /\ rd.at \in {"call", "gauges"}
    /\ ReadError(TRUE)
    /\ UNCHANGED reads

ReadStep == GetMetric \/ GetAllCounters \/ GetAllGauges

-----------------------------------------------------------------------------
Writing ==
    /\ srv.at = "up"
    /\ \E c \in Clients : (\E es \in Ops : Call(c, es)) \/ Progress(c) \/ Fault(c)
    /\ UNCHANGED <<srv, rd, reads>>

Reading ==
    /\ srv.at = "up"
    /\ (\E r \in Reads : ReadCall(r)) \/ ReadStep \/ ReadFault
    /\ UNCHANGED <<vars, srv>>

\* The bounds are used up.
ServerFinished ==
    /\ \/ srv.at = "ended" /\ srv.starts = 0
       \/ srv.at = "up" /\ srv.starts = 0 /\ calls = MaxCalls /\ reads = 0
    /\ \A c \in Clients : cst[c] = "idle"
    /\ rd.at \in {"idle", "done"}
    /\ UNCHANGED serverVars

ServerNext ==
    PopulateDB \/ PopulateFails \/ Stop \/ Restart \/ Writing \/ Reading \/ ServerFinished

ServerSpec == ServerInit /\ [][ServerNext]_serverVars

-----------------------------------------------------------------------------
(* Properties.                                                              *)

\* A read is never behind what was acknowledged before it began, across restarts
\* of the server: it finds the id, and the counter is not below that, unless a
\* statement raced on it (GetMetric, PopulateDB, CommitAnswered's order).
ReadsSeeAcknowledged ==
    LET i == rd.call.id
    IN  rd.at = "done" /\ ~rd.call.all /\ rd.floor[i] > 0
        => /\ rd.result # "noval"
           /\ rd.call.mtype = "counter" /\ rd.result = "value" /\ i \notin raced
              /\ table[i].mtype = "counter"
              => rd.value >= rd.floor[i]

\* The page is read in two statements, and still shows every counter that was
\* acknowledged before the call, and no id twice: an upsert never changes the
\* type of a row (GetAllMetricsTxt, insertGaugePrep, insertCounterPrep).
PageListsEachIdOnce ==
    rd.result = "page"
    => /\ rd.counters \cap rd.gauges = {}
       /\ {i \in Ids : rd.floor[i] > 0} \subseteq rd.counters \cup rd.gauges

\* A read that fails although no connection did met a NULL: the id belongs to
\* the other type, or increments of a counter raced (GetMetric, GetAllMetricsTxt).
UnexplainedErrorsAreNulls ==
    rd.result = "error" /\ ~rd.struck
    => IF rd.call.all THEN raced # {}
       ELSE /\ table[rd.call.id] # NoRow
            /\ table[rd.call.id].mtype # rd.call.mtype \/ rd.call.id \in raced

\* The inductive invariant behind them. What the reader may rely on:
ReaderTypes ==
    /\ rd \in [at : {"idle", "call", "gauges", "done"}, call : Reads \cup {Null},
              attempt : Nat, counters : SUBSET Ids, gauges : SUBSET Ids,
              result : {Null, "value", "noval", "page", "error"},
              value : Int \cup {Null}, floor : [Ids -> Int], struck : BOOLEAN]
    /\ rd.at \in {"idle", "call", "gauges"} => rd.result = Null
    /\ rd.at # "idle" => rd.call \in Reads
    /\ rd.at = "gauges" => rd.call.all
    /\ rd.at = "done" /\ rd.call.all => rd.result \in {"page", "error"}

\* the rows that were acknowledged are there, and so is one whose value it read;
RowsStay ==
    /\ \A i \in Ids : rd.floor[i] # 0 => table[i] # NoRow
    /\ rd.result = "value" => table[rd.call.id] # NoRow

\* between the statements of the page the counters it has seen stay counters,
\* and what it has not seen is a gauge.
HalfPage ==
    rd.at = "gauges" =>
    /\ rd.counters \subseteq OfType("counter")
    /\ \A i \in Ids : rd.floor[i] > 0 => i \in rd.counters \cup OfType("gauge")

FoundAcknowledged ==
    rd.at = "done" /\ ~rd.call.all /\ rd.floor[rd.call.id] > 0 => rd.result # "noval"

SInv ==
    /\ PInv /\ ReaderTypes /\ RowsStay /\ HalfPage
    /\ PageListsEachIdOnce /\ UnexplainedErrorsAreNulls /\ FoundAcknowledged

\* For handlers that only add to counters.
Floors == \A i \in Ids : rd.floor[i] <= sum[i]
=============================================================================
