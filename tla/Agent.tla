------------------------------- MODULE Agent -------------------------------
(***************************************************************************)
(* The metrics agent: internal/agent/agent.go, with the gRPC transport of  *)
(* internal/agentwithgrpc and the shutdown watchdog of cmd/agent.          *)
(*                                                                         *)
(* Four kinds of goroutine share memory and two channels:                  *)
(*   - the runtime poller calls updateMetrics every poll interval;         *)
(*   - the kernel poller calls updateSysKernMetrics;                       *)
(*   - the main loop of Run builds a report, queues it, awaits the answer  *)
(*     and resets the poll counter;                                        *)
(*   - the workers take reports off jobsQueue, POST them with retries and  *)
(*     put the outcome on jobsErr.                                         *)
(* The signal handler (context cancellation) and the watchdog of main.go   *)
(* act on all of them.                                                     *)
(*                                                                         *)
(* Gauges are abstracted to the generation of the poll that produced them, *)
(* a report to the sum of its PollCount deltas and the generations of the  *)
(* gauges it carries.                                                      *)
(***************************************************************************)
EXTENDS Integers, Sequences, FiniteSets

CONSTANTS
    Workers,        \* the pool started by Run (agent.go: workers = 3)
    RateLimit,      \* config.RateLimit: capacity of jobsQueue and of jobsErr
    MaxPolls,       \* bound: runtime polls taken in a behaviour
    Grpc,           \* config.Grpc: the transport
    EncodeMayFail   \* whether json.Marshal can fail (a NaN or Inf gauge)

ASSUME AgentAssumption ==
    /\ RateLimit \in Nat
    /\ MaxPolls \in Nat \ {0}
    /\ Grpc \in BOOLEAN
    /\ EncodeMayFail \in BOOLEAN

VARIABLES
    pc,         \* where the main loop of Run is
    pollCount,  \* sysMon.pollCount
    rtGen,      \* generation of MemStats: number of ReadMemStats calls
    rndGen,     \* generation of sysMon.randomValue: number of updateMetrics done
    memLock,    \* holder of MemStats' RWMutex: the poller (write) or main (read)
    coord,      \* the start coordination channels already closed
    batch,      \* jsonMetricsModel.JSONMetricsSlice
    job,        \* metricSend: the report main is about to queue
    mJSON,      \* jsonString of the one jsonSendString of the process
    queue,      \* jobsQueue
    errs,       \* jobsErr
    answer,     \* outcome main got for its last report
    wst,        \* worker: where it is
    wjob,       \* worker: the report it took
    wtry,       \* worker: number of the current attempt
    wwire,      \* worker: the body its current attempt sends
    wres,       \* worker: the outcome of Send
    ctxDone,    \* the signal context is cancelled
    acked       \* history: polls carried by the reports main saw succeed

mainVars == <<pc, batch, job, answer>>
pollVars == <<pollCount, rtGen, rndGen, memLock, coord>>
chanVars == <<queue, errs>>
workerVars == <<wst, wjob, wtry, wwire, wres>>
vars == <<mainVars, pollVars, chanVars, workerVars, mJSON, ctxDone, acked>>

-----------------------------------------------------------------------------

\* retry.WithMaxRetries(3, ...): the first call and three more.
HttpAttempts == 4
\* grpc_retry.WithMax(3): three calls in all.
GrpcAttempts == 3
\* Mutant: one attempt too many.
AttemptsTooMany == HttpAttempts + 1
Attempts == IF Grpc THEN GrpcAttempts ELSE HttpAttempts

\* A report: the PollCount deltas in it summed up, and the generations of the
\* runtime gauges and of RandomValue it shows.
Report == [polls : Nat, rt : Nat, rnd : Nat]
NoReport == [polls |-> 0, rt |-> 0, rnd |-> 0]

\* What Send returned, with the polls the server confirmed.
Outcome == [ok : BOOLEAN, polls : Nat]
Failed == [ok |-> FALSE, polls |-> 0]

MainPC == {"parseRtm", "parseSys", "parseKern", "encode", "enqueue", "await",
           "reset", "check", "sleep", "done", "killed"}
WorkerPC == {"idle", "try", "call", "finish", "report", "stopped"}

\* Run has not returned and the watchdog has not ended the process.
Alive == pc \notin {"done", "killed"}

\* A worker that holds a report it has not yet answered for.
Busy(w) == wst[w] \in {"try", "call", "finish", "report"}

\* The payload behind a job: a gRPC job owns its message, an HTTP job is a
\* pointer to the one jsonSendString that encodeJSON overwrites.
Body(j) == IF Grpc THEN j ELSE mJSON

Init ==
    /\ pc = "parseRtm"
    /\ pollCount = 0 /\ rtGen = 0 /\ rndGen = 0
    /\ memLock = "free"
    /\ coord = {}
    /\ batch = NoReport
    /\ job = NoReport
    /\ mJSON = NoReport
    /\ queue = <<>> /\ errs = <<>>
    /\ answer = Failed
    /\ wst = [w \in Workers |-> "idle"]
    /\ wjob = [w \in Workers |-> NoReport]
    /\ wtry = [w \in Workers |-> 0]
    /\ wwire = [w \in Workers |-> NoReport]
    /\ wres = [w \in Workers |-> Failed]
    /\ ctxDone = FALSE
    /\ acked = 0

-----------------------------------------------------------------------------
(* The pollers.                                                            *)

\* updateMetrics takes MemStats' write lock and reads the runtime statistics.
PollBegin ==
    /\ memLock = "free"
    /\ rtGen < MaxPolls
    /\ memLock' = "poll"
    /\ rtGen' = rtGen + 1
    /\ UNCHANGED <<pollCount, rndGen, coord, mainVars, chanVars, workerVars,
                   mJSON, ctxDone, acked>>

\* ... then, still under that lock, takes sysMon's, counts the poll and draws
\* the random value. The first return closes startCoordChan1.
PollEnd ==
    /\ memLock = "poll"
    /\ memLock' = "free"
    /\ pollCount' = pollCount + 1
    /\ rndGen' = rndGen + 1
    /\ coord' = coord \cup {"rt"}
    /\ UNCHANGED <<rtGen, mainVars, chanVars, workerVars, mJSON, ctxDone, acked>>

\* The first updateSysKernMetrics closes startCoordChan2. Later calls only
\* replace kernel gauges, which no property tells apart.
PollKern ==
    /\ "kern" \notin coord
    /\ coord' = coord \cup {"kern"}
    /\ UNCHANGED <<pollCount, rtGen, rndGen, memLock, mainVars, chanVars,
                   workerVars, mJSON, ctxDone, acked>>

-----------------------------------------------------------------------------
(* The main loop.                                                          *)

\* Mutant: parseRtm reads the gauges without MemStats' read lock.
ParseRtmUnlocked ==
    /\ pc = "parseRtm"
    /\ "rt" \in coord
    /\ pc' = "parseSys"
    /\ batch' = [batch EXCEPT !.rt = rtGen]
    /\ UNCHANGED <<job, answer, pollVars, chanVars, workerVars, mJSON, ctxDone,
                   acked>>

\* parseRtm, up to the gauges: waits for the first poll, takes the read lock.
ParseRtm ==
    /\ pc = "parseRtm"
    /\ "rt" \in coord
    /\ memLock = "free"
    /\ memLock' = "main"
    /\ pc' = "parseSys"
    /\ batch' = [batch EXCEPT !.rt = rtGen]
    /\ UNCHANGED <<job, answer, pollCount, rtGen, rndGen, coord, chanVars,
                   workerVars, mJSON, ctxDone, acked>>

\* ... then PollCount and RandomValue under sysMon's read lock, inside the
\* first lock; both are released on return.
ParseSys ==
    /\ pc = "parseSys"
    /\ pc' = "parseKern"
    /\ memLock' = "free"
    /\ batch' = [batch EXCEPT !.polls = @ + pollCount, !.rnd = rndGen]
    /\ UNCHANGED <<job, answer, pollCount, rtGen, rndGen, coord, chanVars,
                   workerVars, mJSON, ctxDone, acked>>

\* parseKernMetrics, once the first kernel poll is in.
ParseKern ==
    /\ pc = "parseKern"
    /\ "kern" \in coord
    /\ pc' = "encode"
    /\ UNCHANGED <<batch, job, answer, pollVars, chanVars, workerVars, mJSON,
                   ctxDone, acked>>

\* EncodeProto builds a message of its own.
EncodeProto ==
    /\ Grpc
    /\ job' = batch
    /\ UNCHANGED mJSON

\* encodeJSON overwrites the shared jsonSendString and returns a pointer to it.
EncodeJSON ==
    /\ ~Grpc
    /\ job' = batch
    /\ mJSON' = batch

\* Either way the slice is cleared.
Encode ==
    /\ pc = "encode"
    /\ EncodeProto \/ EncodeJSON
    /\ batch' = NoReport
    /\ pc' = "enqueue"
    /\ UNCHANGED <<answer, pollVars, chanVars, workerVars, ctxDone, acked>>

\* Mutant: the slice is cleared only when encoding succeeds.
EncodeFailKeepsBatch ==
    /\ pc = "encode"
    /\ EncodeMayFail /\ ~Grpc
    /\ mJSON' = NoReport
    /\ pc' = "parseRtm"
    /\ UNCHANGED <<batch, job, answer, pollVars, chanVars, workerVars, ctxDone,
                   acked>>

\* json.Marshal failed: the payload is empty, the slice is cleared before the
\* error is looked at, and the loop starts over with no sleep and without
\* looking at the context. EncodeProto never fails.
EncodeFail ==
    /\ pc = "encode"
    /\ EncodeMayFail /\ ~Grpc
    /\ mJSON' = NoReport
    /\ batch' = NoReport
    /\ pc' = "parseRtm"
    /\ UNCHANGED <<job, answer, pollVars, chanVars, workerVars, ctxDone, acked>>

\* select: jobsQueue <- metricSend, with room in the buffer.
Enqueue ==
    /\ pc = "enqueue"
    /\ Len(queue) < RateLimit
    /\ queue' = Append(queue, job)
    /\ pc' = "await"
    /\ UNCHANGED <<batch, job, answer, pollVars, errs, workerVars, mJSON,
                   ctxDone, acked>>

\* select: the same send on an unbuffered channel, to a worker that waits.
HandOver(w) ==
    /\ pc = "enqueue"
    /\ RateLimit = 0
    /\ wst[w] = "idle"
    /\ wst' = [wst EXCEPT ![w] = "try"]
    /\ wjob' = [wjob EXCEPT ![w] = job]
    /\ wtry' = [wtry EXCEPT ![w] = 1]
    /\ pc' = "await"
    /\ UNCHANGED <<batch, job, answer, pollVars, chanVars, wwire, wres, mJSON,
                   ctxDone, acked>>

\* select: ctx.Done() while the queue has no room, or by the select's choice.
EnqueueCancelled ==
    /\ pc = "enqueue"
    /\ ctxDone
    /\ pc' = "await"
    /\ UNCHANGED <<batch, job, answer, pollVars, chanVars, workerVars, mJSON,
                   ctxDone, acked>>

\* Mutant: an error is treated like a success.
ReceiveIgnoringError(o) ==
    /\ answer' = o
    /\ pc' = "reset"

\* An answer in main's hands: success goes on to the reset, an error starts
\* the loop over at once (no sleep, no look at the context).
Receive(o) ==
    /\ answer' = o
    /\ pc' = IF o.ok THEN "reset" ELSE "parseRtm"

\* select: <-jobsErr.
AwaitResult ==
    /\ pc = "await"
    /\ errs # <<>>
    /\ Receive(Head(errs))
    /\ errs' = Tail(errs)
    /\ UNCHANGED <<batch, job, pollVars, queue, workerVars, mJSON, ctxDone,
                   acked>>

\* Mutant: the select does not block (it has a default branch).
AwaitDefault ==
    /\ pc = "await"
    /\ answer' = Failed
    /\ pc' = "reset"
    /\ UNCHANGED <<batch, job, pollVars, chanVars, workerVars, mJSON, ctxDone,
                   acked>>

\* select: ctx.Done() before an answer.
AwaitCancelled ==
    /\ pc = "await"
    /\ ctxDone
    /\ answer' = Failed
    /\ pc' = "reset"
    /\ UNCHANGED <<batch, job, pollVars, chanVars, workerVars, mJSON, ctxDone,
                   acked>>

\* Mutant: the counter keeps its value.
ResetForgotten ==
    /\ pc = "reset"
    /\ acked' = acked + answer.polls
    /\ answer' = Failed
    /\ pc' = "check"
    /\ UNCHANGED <<batch, job, pollVars, chanVars, workerVars, mJSON,
                   ctxDone>>

\* sysMetrics.pollCount = 0.
Reset ==
    /\ pc = "reset"
    /\ pollCount' = 0
    /\ acked' = acked + answer.polls
    /\ answer' = Failed
    /\ pc' = "check"
    /\ UNCHANGED <<batch, job, rtGen, rndGen, memLock, coord, chanVars,
                   workerVars, mJSON, ctxDone>>

\* Mutant: the context is never looked at after a cycle.
CheckDoneForgotten ==
    /\ pc = "check"
    /\ pc' = "sleep"
    /\ UNCHANGED <<batch, job, answer, pollVars, chanVars, workerVars, mJSON,
                   ctxDone, acked>>

\* shutdownCatcher: Run returns once the context is done.
CheckDone ==
    /\ pc = "check"
    /\ pc' = IF ctxDone THEN "done" ELSE "sleep"
    /\ UNCHANGED <<batch, job, answer, pollVars, chanVars, workerVars, mJSON,
                   ctxDone, acked>>

\* time.Sleep(reportInterval), which no signal cuts short.
WakeUp ==
    /\ pc = "sleep"
    /\ pc' = "parseRtm"
    /\ UNCHANGED <<batch, job, answer, pollVars, chanVars, workerVars, mJSON,
                   ctxDone, acked>>

-----------------------------------------------------------------------------
(* The workers.                                                            *)

\* range jobs: take a queued report.
TakeJob(w) ==
    /\ wst[w] = "idle"
    /\ queue # <<>>
    /\ queue' = Tail(queue)
    /\ wst' = [wst EXCEPT ![w] = "try"]
    /\ wjob' = [wjob EXCEPT ![w] = Head(queue)]
    /\ wtry' = [wtry EXCEPT ![w] = 1]
    /\ UNCHANGED <<mainVars, pollVars, errs, wwire, wres, mJSON, ctxDone, acked>>

\* retry.Do (HTTP) or the retry interceptor (gRPC) starts an attempt: the
\* context is live, and the body is read from the job now.
StartAttempt(w) ==
    /\ wst[w] = "try"
    /\ ~ctxDone
    /\ wst' = [wst EXCEPT ![w] = "call"]
    /\ wwire' = [wwire EXCEPT ![w] = Body(wjob[w])]
    /\ UNCHANGED <<mainVars, pollVars, chanVars, wjob, wtry, wres, mJSON,
                   ctxDone, acked>>

\* The context ends the retries before or between attempts: cancelled, or
\* (HTTP) past the 30 s the attempts and their back-off share.
GiveUp(w) ==
    /\ wst[w] = "try"
    /\ ctxDone \/ (~Grpc /\ wtry[w] > 1)
    /\ wst' = [wst EXCEPT ![w] = "finish"]
    /\ wres' = [wres EXCEPT ![w] = Failed]
    /\ UNCHANGED <<mainVars, pollVars, chanVars, wjob, wtry, wwire, mJSON,
                   ctxDone, acked>>

\* The server answered 200 (HTTP) or OK (gRPC).
AttemptOk(w) ==
    /\ wst[w] = "call"
    /\ wst' = [wst EXCEPT ![w] = "finish"]
    /\ wres' = [wres EXCEPT ![w] = [ok |-> TRUE, polls |-> wwire[w].polls]]
    /\ UNCHANGED <<mainVars, pollVars, chanVars, wjob, wtry, wwire, mJSON,
                   ctxDone, acked>>

\* The attempt failed (refused, lost answer, bad status) and another is left.
AttemptRetried(w) ==
    /\ wst[w] = "call"
    /\ wtry[w] < Attempts
    /\ wst' = [wst EXCEPT ![w] = "try"]
    /\ wtry' = [wtry EXCEPT ![w] = @ + 1]
    /\ UNCHANGED <<mainVars, pollVars, chanVars, wjob, wwire, wres, mJSON,
                   ctxDone, acked>>

\* The attempt failed for good: the last one, or a gRPC code that is not
\* retried (every HTTP failure is wrapped as retryable).
AttemptFailed(w) ==
    /\ wst[w] = "call"
    /\ Grpc \/ wtry[w] = Attempts
    /\ wst' = [wst EXCEPT ![w] = "finish"]
    /\ wres' = [wres EXCEPT ![w] = Failed]
    /\ UNCHANGED <<mainVars, pollVars, chanVars, wjob, wtry, wwire, mJSON,
                   ctxDone, acked>>

\* Mutant: a worker ends after a failed report, cancelled or not.
CheckShutdownOnError(w) ==
    /\ wst[w] = "finish"
    /\ wst' = [wst EXCEPT ![w] =
                  IF ctxDone \/ ~wres[w].ok THEN "stopped" ELSE "report"]
    /\ UNCHANGED <<mainVars, pollVars, chanVars, wjob, wtry, wwire, wres, mJSON,
                   ctxDone, acked>>

\* shutdownCatcher in worker: after a cancellation nothing is reported.
CheckShutdown(w) ==
    /\ wst[w] = "finish"
    /\ wst' = [wst EXCEPT ![w] = IF ctxDone THEN "stopped" ELSE "report"]
    /\ UNCHANGED <<mainVars, pollVars, chanVars, wjob, wtry, wwire, wres, mJSON,
                   ctxDone, acked>>

\* The end of an iteration of worker's loop: its variables are gone.
EndOfJob(w) ==
    /\ wst' = [wst EXCEPT ![w] = "idle"]
    /\ wjob' = [wjob EXCEPT ![w] = NoReport]
    /\ wtry' = [wtry EXCEPT ![w] = 0]
    /\ wwire' = [wwire EXCEPT ![w] = NoReport]
    /\ wres' = [wres EXCEPT ![w] = Failed]

\* errRes <- err, with room in the buffer.
PutResult(w) ==
    /\ wst[w] = "report"
    /\ Len(errs) < RateLimit
    /\ errs' = Append(errs, wres[w])
    /\ EndOfJob(w)
    /\ UNCHANGED <<mainVars, pollVars, queue, mJSON, ctxDone, acked>>

\* errRes <- err on an unbuffered channel, to the main loop that waits.
HandBack(w) ==
    /\ wst[w] = "report"
    /\ RateLimit = 0
    /\ pc = "await"
    /\ Receive(wres[w])
    /\ EndOfJob(w)
    /\ UNCHANGED <<batch, job, pollVars, chanVars, mJSON, ctxDone, acked>>

-----------------------------------------------------------------------------
(* The process.                                                            *)

\* SIGTERM, SIGINT or SIGQUIT cancels the context.
Signal ==
    /\ ~ctxDone
    /\ ctxDone' = TRUE
    /\ UNCHANGED <<mainVars, pollVars, chanVars, workerVars, mJSON, acked>>

\* main.go's AfterFunc: 30 s after the cancellation log.Fatal ends it all.
Interrupt ==
    /\ ctxDone
    /\ pc' = "killed"
    /\ UNCHANGED <<batch, job, answer, pollVars, chanVars, workerVars, mJSON,
                   ctxDone, acked>>

Poller == PollBegin \/ PollEnd \/ PollKern

Main ==
    \/ ParseRtm \/ ParseSys \/ ParseKern
    \/ Encode \/ EncodeFail
    \/ Enqueue \/ (\E w \in Workers : HandOver(w)) \/ EnqueueCancelled
    \/ AwaitResult \/ AwaitCancelled
    \/ Reset \/ CheckDone \/ WakeUp

Worker(w) ==
    \/ TakeJob(w) \/ StartAttempt(w) \/ GiveUp(w)
    \/ AttemptOk(w) \/ AttemptRetried(w) \/ AttemptFailed(w)
    \/ CheckShutdown(w) \/ PutResult(w) \/ HandBack(w)

Step == Poller \/ Main \/ (\E w \in Workers : Worker(w)) \/ Signal \/ Interrupt

\* The process has ended: nothing more happens.
Exited == ~Alive /\ UNCHANGED vars

Next == (Alive /\ Step) \/ Exited

Spec == Init /\ [][Next]_vars

\* The Go scheduler runs every runnable goroutine and its timers fire. A call
\* in flight is not scheduled by the agent: no fairness for its outcome.
WorkerLocal(w) ==
    TakeJob(w) \/ StartAttempt(w) \/ GiveUp(w) \/ CheckShutdown(w)
    \/ PutResult(w) \/ HandBack(w)

Fairness ==
    /\ WF_vars(Alive /\ PollBegin) /\ WF_vars(Alive /\ PollEnd)
    /\ WF_vars(Alive /\ PollKern)
    /\ WF_vars(Alive /\ Main)
    /\ \A w \in Workers : WF_vars(Alive /\ WorkerLocal(w))

FairSpec == Spec /\ Fairness

-----------------------------------------------------------------------------
(* Properties.                                                             *)

PollTypeOK ==
    /\ pollCount \in Nat /\ rtGen \in Nat /\ rndGen \in Nat /\ acked \in Nat
    /\ memLock \in {"free", "poll", "main"}
    /\ coord \subseteq {"rt", "kern"}

MainTypeOK ==
    /\ pc \in MainPC
    /\ batch \in Report /\ job \in Report /\ mJSON \in Report
    /\ answer \in Outcome
    /\ ctxDone \in BOOLEAN

ChanTypeOK == queue \in Seq(Report) /\ errs \in Seq(Outcome)

WorkerTypeOK ==
    /\ wst \in [Workers -> WorkerPC]
    /\ wjob \in [Workers -> Report]
    /\ wtry \in [Workers -> 0..HttpAttempts]
    /\ wwire \in [Workers -> Report]
    /\ wres \in [Workers -> Outcome]

TypeOK == PollTypeOK /\ MainTypeOK /\ ChanTypeOK /\ WorkerTypeOK

\* Everything a cycle leaves between main and the workers: a queued report, a
\* worker's report, an answer. Never more than one, and while one is out main
\* is waiting for it or on its way out. It is what lets Run share one
\* jsonSendString and one resty request among all workers without a lock, and
\* it bounds the channels, so that no send on them can block for good.
OneReportAtATime ==
    /\ Len(queue) + Cardinality({w \in Workers : Busy(w)}) + Len(errs) <= 1
    /\ queue # <<>> \/ errs # <<>> \/ (\E w \in Workers : Busy(w))
        => pc = "await" \/ ctxDone \/ ~Alive

\* What a worker puts on the wire, in every attempt, is the report main queued,
\* although HTTP reports share mJSON and every attempt reads it again.
PayloadStable ==
    \A w \in Workers : wst[w] = "call" => wwire[w] = wjob[w]

\* The polls main has seen confirmed and the polls still counted are never
\* more than the polls taken: a poll is not reported as new twice.
NoPollAckedTwice == acked + pollCount <= rndGen

\* A report shows the runtime gauges and the RandomValue of one and the same
\* poll: updateMetrics and parseRtm nest the two locks.
BatchCoherent ==
    /\ job.rt = job.rnd
    /\ mJSON.rt = mJSON.rnd
    /\ \A w \in Workers : wwire[w].rt = wwire[w].rnd

\* The counter goes back only after a report that succeeded, never after a
\* failed one, unless the process is on its way out (agent.go:358).
ResetOnlyAfterSuccess ==
    [][pollCount' < pollCount => answer.ok \/ ctxDone]_vars

\* A reset forgets polls that were never reported, but only the ones taken
\* while the report was out: what it drops beyond the confirmed report is
\* exactly the polls since that report was put together (agent.go:358-361).
ResetDropsOnlyLatePolls ==
    [][pollCount' < pollCount /\ answer.ok
          => pollCount - answer.polls = rndGen - job.rnd]_vars

\* Once the signal has come, Run returns even if the server never answers:
\* neither the watchdog nor the network is assumed to act.
ShutdownCompletes == ctxDone ~> ~Alive

\* The report loop keeps turning for as long as the process lives, unless some
\* worker hangs for good in a call: queue, workers and answers lose no wake-up.
OnlyTheNetworkStalls ==
    \/ []<>(pc = "parseRtm" \/ ~Alive)
    \/ <>[](\E w \in Workers : wst[w] = "call")

\* Calls come back, and a call that is made again and again succeeds one time.
NetworkDelivers ==
    \A w \in Workers :
        /\ SF_vars(Alive /\ AttemptOk(w))
        /\ WF_vars(Alive /\ (AttemptOk(w) \/ AttemptRetried(w) \/ AttemptFailed(w)))

\* If calls do not fail or hang for ever, polls do not stay in the agent: the
\* counter is reported and reset again and again, through failed reports,
\* used-up retries and the shared answer channel, until the agent is stopped.
ReportsGetThrough ==
    NetworkDelivers => ((pollCount > 0) ~> (pollCount = 0 \/ ctxDone))

-----------------------------------------------------------------------------
(* The inductive invariant behind the safety properties.                   *)

\* Main waits for an answer, or has been cancelled and is about to return.
Outstanding ==
    pc = "await" \/ (ctxDone /\ pc \in {"reset", "check"}) \/ ~Alive

\* Queue, workers and answers hold one report at most, in one place.
Exclusive ==
    /\ Len(queue) <= 1 /\ Len(errs) <= 1
    /\ queue # <<>> => errs = <<>> /\ Outstanding
    /\ errs # <<>> => Outstanding
    /\ \A w \in Workers :
          Busy(w) => queue = <<>> /\ errs = <<>> /\ Outstanding
    /\ \A w, v \in Workers : Busy(w) /\ Busy(v) => w = v

\* Wherever the report is, its payload is still what main encoded.
Payload ==
    /\ pc = "enqueue" /\ ~Grpc => mJSON = job
    /\ queue # <<>> /\ ~Grpc => mJSON = queue[1]
    /\ \A w \in Workers : Busy(w) /\ ~Grpc => mJSON = wjob[w]
    /\ \A w \in Workers : wst[w] = "call" => wwire[w] = wjob[w]

\* No stage of the report carries more polls than the counter still holds.
Counting ==
    /\ acked + pollCount <= rndGen
    /\ pc \notin {"parseKern", "encode"} /\ Alive => batch.polls = 0
    /\ pc \in {"parseKern", "encode"} => batch.polls <= pollCount
    /\ pc = "enqueue" => job.polls <= pollCount
    /\ pc = "await" =>
          /\ queue # <<>> => queue[1].polls <= pollCount
          /\ errs # <<>> => errs[1].polls <= pollCount
          /\ \A w \in Workers :
                /\ Busy(w) => wjob[w].polls <= pollCount
                /\ wst[w] \in {"finish", "report"} => wres[w].polls <= pollCount
    /\ pc = "reset" => answer.polls <= pollCount

\* Lock discipline of MemStats, and what every copy of a report owes to it.
Coherence ==
    /\ memLock = "poll" => rtGen = rndGen + 1
    /\ memLock # "poll" => rtGen = rndGen
    /\ Alive => (memLock = "main" <=> pc = "parseSys")
    /\ pc = "parseSys" => batch.rt = rtGen
    /\ pc \in {"parseKern", "encode"} => batch.rt = batch.rnd
    /\ job.rt = job.rnd /\ mJSON.rt = mJSON.rnd
    /\ queue # <<>> => queue[1].rt = queue[1].rnd
    /\ \A w \in Workers : wjob[w].rt = wjob[w].rnd /\ wwire[w].rt = wwire[w].rnd

\* A reset is under way only after a success or a cancellation.
ResetJustified == pc = "reset" => answer.ok \/ ctxDone

\* The counter runs ahead of the report by the polls taken since the report was
\* put together, and by nothing else; a success confirms the polls of that report.
Lateness ==
    /\ pc \in {"parseKern", "encode"} => pollCount - batch.polls = rndGen - batch.rnd
    /\ pc \in {"enqueue", "await"} \/ (pc = "reset" /\ answer.ok)
        => pollCount - job.polls = rndGen - job.rnd
    /\ pc = "await" =>
          /\ queue # <<>> => queue[1] = job
          /\ errs # <<>> /\ errs[1].ok => errs[1].polls = job.polls
          /\ \A w \in Workers :
                /\ Busy(w) => wjob[w] = job
                /\ wst[w] \in {"finish", "report"} /\ wres[w].ok
                    => wres[w].polls = job.polls
    /\ pc = "reset" /\ answer.ok => answer.polls = job.polls

Inv ==
    /\ TypeOK /\ Exclusive /\ Payload /\ Counting /\ Coherence /\ ResetJustified
    /\ Lateness
=============================================================================
