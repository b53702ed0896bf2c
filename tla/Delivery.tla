------------------------------ MODULE Delivery ------------------------------
(***************************************************************************)
(* Agent, network and server together: where the polls an agent counts end *)
(* up. The agent's steps are those of module Agent; this module adds what  *)
(* is behind a call in flight: the request on its way, the handler         *)
(* (updateBatchMetricsJSON, or SendMetrics over gRPC) with its store call, *)
(* and the answer on its way back.                                         *)
(*                                                                         *)
(* The store is known by its PollCount counter alone. In memory a batch is *)
(* written in one step; PostgreSQL adds it to what the statement's snapshot *)
(* holds, and the retrier around WriteBatchMetrics can commit it again (see *)
(* PgDB). A handler goes on when its caller is gone: its request is late    *)
(* then, and runs beside the agent's next one.                             *)
(***************************************************************************)
EXTENDS Agent

CONSTANTS
    Postgres,   \* the server's store is PostgreSQL, not the one in memory
    Late,       \* bound: so many requests that nobody waits for at a time
    MaxCommits, \* bound: commits the retrier makes of one batch
    MaxStored   \* bound: polls committed in all

ASSUME DeliveryAssumption ==
    /\ Postgres \in BOOLEAN /\ Late \cap Workers = {}
    /\ MaxCommits \in Nat \ {0} /\ MaxStored \in Nat

VARIABLES
    req,         \* worker or late request -> how far its handling has got
    row,         \* the PollCount counter in the server's store
    committed,   \* history: polls of all commits
    unconfirmed, \* history: polls of the commits no agent has been told of
    raced        \* history: a statement met a row its snapshot did not have

storeVars == <<row, committed, unconfirmed, raced>>
netVars == <<req, storeVars>>
dvars == <<vars, netVars>>

\* The counter is not there, has a value, or is NULL.
Row == [kind : {"none", "value", "null"}, delta : Nat]

NoRow == [kind |-> "none", delta |-> 0]

\* "statement", "committed": the store call is between the snapshot of an
\* attempt and its commit, or between the commit and its answer.
Handling == {"sent", "statement", "committed"}

\* "stored", "unstored": the answer is 200 or OK, and the batch was committed
\* or was not; "error": any other answer.
Request == [st : {"none", "stored", "unstored", "error"} \cup Handling, polls : Nat,
            seen : Row, commits : Nat]

NoRequest == [st |-> "none", polls |-> 0, seen |-> NoRow, commits |-> 0]

DInit ==
    /\ Init
    /\ req = [x \in Workers \cup Late |-> NoRequest]
    /\ row = NoRow
    /\ committed = 0 /\ unconfirmed = 0 /\ raced = FALSE

-----------------------------------------------------------------------------
(* The server.                                                             *)

\* insertCounterPrep on the row r with the snapshot seen: a new row holds the
\* delta, an old one the delta plus what the sub-select finds, which is NULL
\* without a value.
Upsert(r, seen, polls) ==
    IF r = NoRow THEN [kind |-> "value", delta |-> polls]
    ELSE IF seen.kind = "value" THEN [kind |-> "value", delta |-> seen.delta + polls]
    ELSE [kind |-> "null", delta |-> 0]

\* The batch of x is in the store.
Store(x, seen) ==
    /\ committed' = committed + req[x].polls /\ committed' <= MaxStored
    /\ unconfirmed' = unconfirmed + req[x].polls
    /\ row' = Upsert(row, seen, req[x].polls)
    /\ raced' = (raced \/ seen # row)
    /\ req' = [req EXCEPT ![x].st = "committed", ![x].seen = NoRow, ![x].commits = @ + 1]
    /\ UNCHANGED vars

\* An attempt of the retrier takes its snapshot: the first one, or one after a
\* transaction that failed or a commit whose answer was lost.
StartStatement(x) ==
    /\ Postgres
    /\ req[x].st \in Handling /\ req[x].commits < MaxCommits
    /\ req' = [req EXCEPT ![x].st = "statement", ![x].seen = row]
    /\ UNCHANGED <<vars, storeVars>>

\* WriteBatchMetrics takes effect: the attempt gets the row and commits, with what
\* its snapshot holds; MemStorage adds, under its lock, to what is there.
WriteBatch(x) ==
    /\ req[x].st = IF Postgres THEN "statement" ELSE "sent"
    /\ Store(x, IF Postgres THEN req[x].seen ELSE row)

\* Mutant: updateBatchMetricsJSON does not look at the store's error.
AnswerIgnoringError(r, ok) == IF r.commits > 0 THEN "stored" ELSE "unstored"

\* updateBatchMetricsJSON answers 500 when the store call failed; SendMetrics
\* logs the error and answers OK.
Answer(r, ok) ==
    CASE ~Grpc /\ ~ok -> "error"
      [] (Grpc \/ ok) /\ r.commits > 0 -> "stored"
      [] OTHER -> "unstored"

\* The store call returns: nil after a commit whose answer has arrived, an error
\* when the attempts or the context have ended before (in memory only before the
\* write). The answer of a late request goes nowhere.
Return(x, ok) ==
    /\ req[x].st \in Handling
    /\ IF ok THEN req[x].st = "committed" ELSE Postgres \/ req[x].st = "sent"
    /\ req' = [req EXCEPT ![x] =
                 IF x \in Late THEN NoRequest
                 ELSE [NoRequest EXCEPT !.st = Answer(req[x], ok), !.polls = req[x].polls]]
    /\ UNCHANGED <<vars, storeVars>>

\* The request is refused (address, signature, content) or handled by nobody.
Refuse(x) ==
    /\ req[x].st = "sent"
    /\ req' = [req EXCEPT ![x] =
                 IF x \in Late THEN NoRequest
                 ELSE [NoRequest EXCEPT !.st = "error", !.polls = req[x].polls]]
    /\ UNCHANGED <<vars, storeVars>>

-----------------------------------------------------------------------------
(* The agent's steps, with their effect on the request.                    *)

Transmit(w) ==
    /\ StartAttempt(w)
    /\ req' = [req EXCEPT ![w] = [NoRequest EXCEPT !.st = "sent", !.polls = wwire'[w].polls]]
    /\ UNCHANGED storeVars

\* The answer of a request that was stored, or said so, reaches the agent.
Answered(w) ==
    /\ req[w].st \in {"stored", "unstored"}
    /\ AttemptOk(w)
    /\ req' = [req EXCEPT ![w] = NoRequest]
    /\ unconfirmed' = unconfirmed - (IF req[w].st = "stored" THEN req[w].polls ELSE 0)
    /\ UNCHANGED <<row, committed, raced>>

\* Mutant: the answer of a failed call is left for the next one.
CallFailsKeepsAnswer(w) ==
    /\ AttemptRetried(w) \/ AttemptFailed(w)
    /\ UNCHANGED netVars

\* The call fails: with an error answer, with the answer lost, or with the
\* connection broken while the request is on its way or handled. It then ends
\* there, or is handled on as a late one.
CallFails(w) ==
    /\ AttemptRetried(w) \/ AttemptFailed(w)
    /\ \/ req' = [req EXCEPT ![w] = NoRequest]
       \/ \E x \in Late :
             /\ req[w].st \in Handling /\ req[x].st = "none"
             /\ req' = [req EXCEPT ![w] = NoRequest, ![x] = req[w]]
    /\ UNCHANGED storeVars

\* Every other step of the agent leaves the request alone.
WorkerAside(w) ==
    TakeJob(w) \/ GiveUp(w) \/ CheckShutdown(w) \/ PutResult(w) \/ HandBack(w)

AgentAside ==
    /\ Poller \/ Main \/ (\E w \in Workers : WorkerAside(w)) \/ Signal \/ Interrupt
    /\ UNCHANGED netVars

AgentStep ==
    /\ Alive
    /\ \/ AgentAside
       \/ \E w \in Workers : Transmit(w) \/ Answered(w) \/ CallFails(w)

\* The server goes on when the agent has ended.
ServerStep ==
    \E x \in Workers \cup Late :
        \/ StartStatement(x) \/ WriteBatch(x)
        \/ Return(x, TRUE) \/ Return(x, FALSE) \/ Refuse(x)

Ended == Exited /\ UNCHANGED netVars

DNext == AgentStep \/ ServerStep \/ Ended

DSpec == DInit /\ [][DNext]_dvars

\* The agent is scheduled as in Agent. Nothing is assumed of network and server.
DFairSpec == DSpec /\ Fairness

-----------------------------------------------------------------------------
(* Properties.                                                             *)

\* A call in flight has a request, and nothing else has but late ones.
DTypeOK ==
    /\ req \in [Workers \cup Late -> Request]
    /\ row \in Row
    /\ committed \in Nat /\ unconfirmed \in Nat /\ raced \in BOOLEAN
    /\ \A w \in Workers : Alive => (req[w].st # "none" <=> wst[w] = "call")

\* The polls the agent saw confirmed, and forgot at the reset, are in the
\* server's counter beside everything that got there unconfirmed.
NothingLost == acked + unconfirmed <= row.delta

\* Through retries, late requests, repeated commits and lost answers a 200 of
\* /updates/ never stands for a batch that the counter lacks (server.go:263,
\* agent.go:358), unless on PostgreSQL a statement met a row that its snapshot
\* did not have: a late request handled beside the agent's next one then takes
\* increments back or leaves NULL (pgdb.go:28). The run over gRPC refutes it
\* without any race: SendMetrics answers OK after a failed store call.
ConfirmedIsStored == raced \/ NothingLost

\* The server counts a poll more than once only through commits nobody was told
\* of: what was confirmed is at most the polls taken.
CountedOnceIfConfirmed == row.delta - unconfirmed <= rndGen

-----------------------------------------------------------------------------
(* The inductive invariants behind them, beside Agent's Inv.                *)

\* A worker's request exists while its call does, also after the agent's end;
\* over HTTP no 200 stands for a batch that is not stored; an outcome that is
\* not a success confirms nothing.
Requests ==
    /\ \A w \in Workers :
          /\ req[w].st # "none" <=> wst[w] = "call"
          /\ req[w].st # "none" => req[w].polls = wwire[w].polls
          /\ ~Grpc => req[w].st # "unstored"
          /\ ~wres[w].ok => wres[w].polls = 0
    /\ errs # <<>> /\ ~errs[1].ok => errs[1].polls = 0

\* What an answer may still confirm is booked as unconfirmed.
Booked ==
    \A w \in Workers :
        /\ req[w].commits > 0 \/ req[w].st = "stored" => req[w].polls <= unconfirmed
        /\ req[w].st = "committed" => req[w].commits > 0
        /\ req[w].st \in {"none", "sent"} => req[w].commits = 0

\* The counter holds at most what was committed, and exactly that as long as no
\* statement raced.
Counter ==
    /\ row.delta <= committed
    /\ row.kind # "value" => row.delta = 0
    /\ ~raced => row.delta = committed /\ row.kind # "null"

\* A snapshot is older than the row only beside a late request.
Snapshots ==
    /\ raced => Postgres /\ Late # {}
    /\ \A h \in Workers \cup Late :
          /\ req[h].seen.delta <= committed
          /\ req[h].st = "statement" => Postgres /\ (Late = {} => req[h].seen = row)

\* So many polls more could be confirmed now.
Backed(polls) == acked + unconfirmed + polls <= committed

\* Wherever a confirmation is on its way to the reset, a commit backs it; a
\* reset that does not wait for the report confirms nothing.
Confirmations ==
    /\ Backed(0)
    /\ pc = "reset" => Backed(answer.polls)
    /\ pc = "reset" /\ (queue # <<>> \/ errs # <<>> \/ \E w \in Workers : Busy(w))
        => answer.polls = 0
    /\ errs # <<>> => Backed(errs[1].polls)
    /\ \A w \in Workers : wst[w] \in {"finish", "report"} => Backed(wres[w].polls)

\* w holds a report that no answer has confirmed yet.
Unanswered(w) == wst[w] \in {"try", "call"}

\* The server could be credited with so many polls more than its confirmed
\* commits.
Room(polls) == committed - unconfirmed + polls <= rndGen

\* There is room for the report that is out.
RoomForReport ==
    /\ Room(0)
    /\ queue # <<>> => Room(queue[1].polls)
    /\ \A w \in Workers : Unanswered(w) => Room(wjob[w].polls)

\* While the agent goes on, there is room for everything it counts.
RoomForCounter ==
    Alive /\ pc \notin {"await", "reset"} /\ ~(pc = "check" /\ ctxDone) => Room(pollCount)

\* ... and while it waits for an answer, for what it will still count after it.
RoomForRest ==
    pc = "await" =>
        /\ queue # <<>> => Room(pollCount)
        /\ errs # <<>> => Room(pollCount - errs[1].polls)
        /\ \A w \in Workers :
              /\ Unanswered(w) => Room(pollCount)
              /\ wst[w] \in {"finish", "report"} => Room(pollCount - wres[w].polls)

Credits == RoomForReport /\ RoomForCounter /\ RoomForRest

DInv ==
    /\ DTypeOK /\ Requests /\ Booked /\ Counter /\ Snapshots /\ Credits
    /\ ~Grpc => Confirmations
=============================================================================
