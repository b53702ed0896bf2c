# A verification project for `monitoring`

`monitoring` is a metrics system in Go: an **agent** polls the runtime and the
kernel and reports to a **server**, which keeps gauges (last value) and counters
(sum of deltas) in memory, with a save file, or in PostgreSQL. This directory
holds TLA+ models of its concurrent and failure-prone parts, the TLC
configurations that check them, and proofs for TLAPS. `PROJECT.json` is the
index: components, runs, the source lines behind every definition, hazards,
findings and theorems.

Source paths below are relative to `src/`.

## 1. Inventory

| component | state | operations | interacts with | what is hard |
|---|---|---|---|---|
| agent `internal/agent/agent.go` | `pollCount`, `randomValue`, MemStats, kernel gauges, the report slice, one shared `jsonSendString`, `jobsQueue`, `jobsErr` | `updateMetrics`, `updateSysKernMetrics`, the loop of `Run`, `worker`, `Send` | pollers, loop and workers through locks and channels; the server over HTTP | four kinds of goroutine, an unlocked shared payload, retries, a request without timeout, cancellation |
| agent gRPC `internal/agentwithgrpc` | none | `EncodeProto`, `Send`, `protoSend` | replaces the HTTP sender | other retry limits and codes |
| in-memory store `internal/storage/storage.go` | two maps, an RWMutex, the file | `WriteMetric`, `WriteBatchMetrics`, `GetMetric`, `GetAllMetricsTxt`, `SaveToFile`, `ReadFromFile` | handlers and savers | atomicity for readers, truncation before the lock, two descriptors on one file, crashes |
| PostgreSQL store `internal/storage/pgdb.go` | table `monitoring(id, mtype, delta, value)` | the same interface | handlers, through the retrier | snapshots of statements, row locks, ambiguous commits, deadlocks |
| retrier `internal/retrier` | limits only | five wrappers around store calls | between handlers and store | repeated execution of what is not idempotent |
| server `internal/server/server.go` | handlers' context, errgroup | seven HTTP handlers behind a chain of middlewares, `saveToFile`, `Run` | store, savers, signal | graceful shutdown in parallel with handlers and savers |
| gRPC service `internal/server/server_grpc.go` | none | `SendMetrics`, `ListenGrpc` | store, errgroup | OK although the store failed; `GracefulStop` without deadline |
| signing `internal/cryptandsign/cryptandsign.go` | a hash, two channels and a goroutine per response | `SignCheck`, `signResponseWriter` | wraps handlers | hand-over of the hash between goroutines |
| encryption, compression, logging | per request | middlewares and client wrappers | wrap handlers and sender | block splitting |
| configuration `cmd/*/flags.go` | none | flags, environment, JSON file | start of both programs | precedence |
| processes `cmd/*/main.go` | signal context | watchdog: `log.Fatal` 30 s after the signal | everything | races with the final save |
| `keygen`, `cmd/staticlint`, `proto`, `mocks` | none | tools and generated code | - | - |

What makes each part correct:

* *agent*: one report out at a time; what is sent is what was queued; polls are
  not reported as new twice; the counter is reset only after a success; reports
  show one poll; shutdown comes through although the network hangs.
* *store*: operations are atomic and return; a counter is the sum of the deltas
  it was acknowledged for.
* *save and restore*: a save is a snapshot; a restart invents nothing; a
  graceful exit keeps what was acknowledged; a crash does not cost an earlier save.
* *PostgreSQL*: a counter is the sum of what was committed; reads see what was
  acknowledged before them, also after a restart; calls return.
* *server*: after a signal the process ends, on both listeners.
* *request path*: what the agent encoded is what the handler gets; the answer
  tells the truth about the store, is whole and fully signed; every request ends
  and leaves no goroutine; both listeners admit the same clients.
* *configuration*: the programs' settings are what their sources say, in the
  order file, environment, flag.
* *agent and server together*: what the agent believes delivered is stored, and
  the counter is too high only by commits nobody confirmed.

The full list of hazards, each at its line with the properties that watch it, is
in `PROJECT.json`.

## 2. Modules

    Agent ------- MCAgent            agent_http, agent_grpc
      +---------- AgentProofs        TLAPS
      +---------- Delivery ----- MCDelivery     delivery_http, delivery_grpc
                    +----------- DeliveryProofs TLAPS (with AgentProofs)
    MetricStore                      abstract store (the interface's promise)
      ^ refined by
    MemStorage -- MCMemStorage       memstorage
      +---------- MemStorageProofs   TLAPS
    MemServer --- MCMemServer        memserver, memserver_shutdown, memserver_restore
      +---------- MemServerProofs    TLAPS
    PgDB -------- MCPgDB             pgdb_safety, pgdb_race
      +---------- PgDBProofs         TLAPS
      +---------- PgServer ----- MCPgServer     pgserver
                    +----------- PgServerProofs TLAPS (with PgDBProofs)
    Config
      +---------- HttpRequest -- MCHttpRequest  request
                    +----------- HttpRequestProofs TLAPS
    DataLemmas                       TLAPS: induction, sums, sizes; used by all proof
                                     modules but the two of the agent

An arrow to the right is EXTENDS. `Delivery` composes the agent with a network
and a server; `MemServer` takes store writes as atomic, which `MemStorage` shows;
`Delivery` keeps of `PgDB`'s store what concerns one counter: the snapshot, the
upsert and batches that are committed again; `HttpRequest` leaves the outcome of the store call free, because the other
modules say which outcomes there are.

### Agent

Models `internal/agent/agent.go`, `internal/agentwithgrpc` and the signal
handling of `cmd/agent/main.go`.

* The runtime poller is two actions, because it holds MemStats' lock over both:
  `PollBegin` (lock, `ReadMemStats`) and `PollEnd` (sysMon: count and random
  value; unlock). sysMon's own lock needs no variable: each of its critical
  sections is one action. `PollKern` is the first kernel poll; later ones only
  replace gauges.
* The loop of `Run` is `ParseRtm`, `ParseSys`, `ParseKern`, `Encode` or
  `EncodeFail`, `Enqueue` / `HandOver` / `EnqueueCancelled` (the first select, on
  a buffered or an unbuffered channel), `AwaitResult` / `HandBack` /
  `AwaitCancelled` (the second), `Reset`, `CheckDone`, `WakeUp`. An error sends it
  back to `ParseRtm` without the sleep and without looking at the context, as
  the two `continue`s do.
* A worker is `TakeJob`, `StartAttempt`, then `AttemptOk`, `AttemptRetried`,
  `AttemptFailed` or `GiveUp` (cancelled, or past the 30 s), `CheckShutdown`,
  `PutResult`. Each attempt reads the payload when it starts: from the job over
  gRPC, from the shared `mJSON` over HTTP.
* Data: a report is its summed `PollCount` and the generations (poll numbers) of
  its runtime gauges and of `RandomValue`. `acked` is a history variable.

### Delivery

The agent of module Agent, with what is behind a call in flight: `req[w]` is how far
the request of worker w's call has got, `req[l]`, for l in `Late`, a request whose
caller has given up, `row` the server's `PollCount`. `Transmit`, `Answered` and
`CallFails` are the agent's `StartAttempt`, `AttemptOk` and
`AttemptRetried`/`AttemptFailed` joined with their effect on the request; every other
step of the agent leaves the request alone (`AgentAside`).

The server is `updateBatchMetricsJSON` or `SendMetrics` with its store call.
`StartStatement` begins an attempt of the retrier and takes the snapshot (`seen`);
`WriteBatch` commits: on PostgreSQL `Upsert` adds to what the snapshot holds, or
leaves NULL, in memory to what is there. A commit whose answer is lost is followed
by another attempt, at most `MaxCommits` times. `Return` ends the store call with nil
or an error and `Answer` is what the client is told, which over gRPC does not depend
on the error; `Refuse` stands for every refusal. `CallFails` ends the request, loses
its answer, or makes it a late one: the handlers work on the server's context, so a
late request is handled beside the agent's next one, and then a statement can meet
a row that its snapshot did not have (`raced`). `committed`, `unconfirmed` (polls of
commits no agent was told of) and `raced` are history variables.

### MetricStore and MemStorage

`MetricStore` is what `StoreMetrics` promises: each call takes effect at one
moment between call and return; a gauge is the last value, a counter the sum;
entries that are not well formed change nothing. It says so declaratively, with
sums over the entries of a batch. `MemStorage` has the RWMutex, the loop over the
batch and the two halves of `GetAllMetricsTxt`. The mapping shows the abstract
store the maps as they were when the current writer took the lock (`base`), so
that a write takes effect when the lock is released. Both modules have a `Spec`
(safety) and a `FairSpec`: the run checks `FairSpec` against `FairSpec`, the proof is
about the two `Spec`s.

### MemServer

The server on the in-memory store, over many lives of the process. Handlers are
`Open` (a connection or stream whose message is not there yet), `Abandon` (the client
goes without sending it) or `Accept` (up to the decoded body), `CheckContext` (the retrier looks at the
server's context once, before the store call), `Write`, `Respond`. The savers
`periodic` and `final` run `SaveToFile` as `Create` (truncate, before the lock),
`RLock`, one `WriteLine` per metric, `Close`; a gauge that is NaN or infinite (`nan`;
it gets in by the URL of a single update or by gRPC, JSON has no such number) is
refused by the encoder, whose error is dropped, and has a `DropLine` instead. Each has an offset of its own in
the one file, so that a saver whose file was truncated by the other leaves a
`Hole` of NUL bytes, which `ReadFromFile` stops at. `Signal`, `ShutdownHttp`,
`HttpDown` (its deadline lets it return with handlers at work), `Exit`
(`g.Wait` waits for the final saver and not for the periodic one nor for
HTTP handlers), `Crash` (also the watchdog) and `Restart` (with `Restore`).

The gRPC listener has handlers of its own (`RpcHandlers`, empty when
`config.GrpcServer` is). They differ in `Cancelled`, where `SendMetrics` logs the
error and answers OK, and in shutdown: `StopGrpc` and `GrpcDown` are
`GracefulStop`, which has no deadline and waits for every open stream, also one
whose client has not sent its message.

The value of a metric is the number of updates applied to it: what a counter fed
with 1s holds, a version for a gauge. Lines have one length: with lines of
different length an overlap of the two savers could also tear a line, which
then does not parse and ends the restore like a hole.

### PgDB

The writes of `pgdb.go` inside the retrier. A call is `Call`, `Begin`, per entry
`Skip` or `StartStatement` and `Execute`, `Commit`, `CommitAnswered`. The database
is external; its rules (READ COMMITTED) are in the module's header: the snapshot
is taken at `StartStatement`, the row is locked and changed in its latest version
at `Execute`, and `Upsert` uses the snapshot where the SQL has a sub-select and
the latest row where it has `ON CONFLICT`. `ConnectionLost`, `AnswerLost` and
`DeadlockAborted` lead to `RetryOrFail`. A single `WriteMetric` is a transaction of
one statement.

### PgServer

What is around those writes: `PopulateDB` under its retrier at the start (a final
failure is `log.Fatal`), `Stop` at any moment (the database rolls back what was
not committed), `Restart`, and a handler that reads. `GetMetric` looks up the row
by its id alone and the column by the type asked for, so that an id used for the
other type is a NULL that `Scan` refuses; `GetAllCounters` and `GetAllGauges` are
the two statements of the page, each with a snapshot of its own. A read remembers
what was acknowledged when it began (`floor`) and whether a connection failed
under it (`struck`).

### Config

`Resolve` is one setting on its way through `servFlags`, `servEnv` and
`parseJSONconfigFile`, in the order both `main`s call them: which values the
environment passes over, which are fatal, and that a key present in the file is
taken even when it is empty; a flag that does not parse ends the program in
`flag.Parse`. `ResolveAll` is a program. It is a module without
state.

### HttpRequest

One request from the sender to the last byte of the answer. `Start` resolves both
programs' settings and lets the agent make its request (`AgentRequest`:
`encryptOAEPbyPart`, base64, then `SignNew`); then `CheckIP`, `WriteLogging`,
`GzipCompDecomp`, `SignCheck`, `AsymmetricDencryptData` and `Handle` each do their
part of `chiRouter`'s chain, or refuse. A handler is the set of its outcomes: how
the store call ended and which calls it makes on the response writer (`todo`).
Those calls go through the writers that were wrapped around the response (`w`).
Under the signer, `SignWriteHeader` starts a goroutine (`HeaderGoroutine`) and
`SignSet`, `SignSetDone`, `SignWrite` are `signResponseWriter.Write`; they meet over
`setDone` and `sendDone`, the two channels of capacity 1. Every write may find the
client gone; the handlers that look at the error of `Encode` then answer again. A
private key file without a key ends the request without an answer (`fatal`): the
server ends, or, when the file is not PEM, the handler panics and net/http closes
the connection.
`SendMetrics` is the gRPC way in.

Data: a body is a sequence of cells and whether it is base64 text. A cell of
plain text is its position, a cell of an encrypted block says which key hides
which part, so that only a whole block under the right key gives the part back. An
HMAC is its key and what it was computed over. An address is in the trusted
prefixes, outside them, or none. Metric values are left out but for the one
distinction the answers make: a NaN or infinite gauge fails to encode.

## 3. Runs

| run | result | shows |
|---|---|---|
| `agent_http` | pass | the agent over HTTP: one report at a time, a stable payload, no poll confirmed twice, coherent reports, what a reset may drop; and the invariant of the proofs |
| `agent_grpc` | pass | unbuffered channels (`RateLimit` 0) over gRPC: the same, the end after a signal, only a hanging call stalls the loop, reports get through a network that delivers |
| `memstorage` | pass | MemStorage implements MetricStore, liveness included |
| `memserver` | pass | saves are snapshots but for gauges that are no numbers, nothing is invented, an exit keeps what was acknowledged before the signal, and after a signal only an open gRPC stream without a message can hold the process |
| `memserver_shutdown` | **violation** | an update acknowledged during shutdown is not saved |
| `memserver_restore` | **violation** | a crash during a save loses the save before it |
| `pgdb_safety` | pass | counters exact unless a statement raced; every call returns |
| `pgdb_race` | **violation** | concurrent increments of a counter are lost |
| `pgserver` | pass | reads see what was acknowledged, across a restart; the page lists an id once; an error without a fault is a NULL with a known cause |
| `delivery_http` | pass | on PostgreSQL: what the agent saw confirmed is stored, unless a statement raced; the counter is too high only by unconfirmed commits; the agent ends whatever network and server do |
| `delivery_grpc` | **violation** | with the in-memory store: an OK over gRPC can stand for a batch no store holds |
| `request` | pass | seven properties of the request path and the configuration |

Run one with `tlc -workers 2 -config Agent_http.cfg MCAgent`.

**Bounds.** `MaxPolls` 5 lets polls fall into every phase of two report rounds and
of a retried report (3 in the runs with liveness, which have one poll during a
report and one after it); three workers are the code's number, more are
interchangeable with them. `RateLimit` 1 and 0 are the two kinds of channel: by
`OneReportAtATime` (proved for every `RateLimit`) no second buffer slot is ever
used.
`memstorage`: three handlers and three calls give every pair of writer and
reader with a third party waiting; the batch meets one counter twice and holds
malformed entries.
`memserver`: an HTTP and a gRPC handler, two counters, a gauge and two updates in
all: a save can be overtaken between its lines, the two savers can overlap at
different offsets, the gauge can be NaN at one save and a number at the next, and an
update can come after a restart from a partial file; crashes and restarts are
unbounded.
`pgdb_safety`: two handlers, two calls, three statements per batch, rows taken in
opposite orders; `MaxRetries` is 2 there (the code sets 3) to keep the retries of
both calls within reach.
`pgserver`: two writing calls (`MaxRetries` 1: every wrapper both retries and gives
up), one read beside or after them and one restart; writing handlers are
interchangeable.
`delivery_http`: two polls, two workers, up to two commits of one batch, one late
request, three polls committed in all: a batch can be committed twice, lost in its
answer and sent again, and its first sending can still be between snapshot and commit
when the second is confirmed. The theorems of section 4 have no such bounds.
`request`: `KeySize` 4 and `Overhead` 2 make a report of 1 to 5 bytes one to three
blocks, full and partial; thirteen deployments (each source of a setting winning
and losing, keys that fit and do not, settings that end a program) times every
request the handlers and middlewares tell apart.

Deadlock is checked in every run but `request`: a model that has used up its bound
says so in an action (`Finished`, `Exited`, `ServerFinished`). In `request` an
answered request is over; that none hangs is `EveryRequestEnds`.

**Fairness.** Agent: every poller, the loop and the local steps of a worker are
weakly fair (the Go scheduler runs what can run, timers fire); the outcome of a
call in flight, the signal and the watchdog are not. MemStorage: goroutines are
weakly fair, and the two lock operations strongly: `sync.RWMutex` makes new
readers wait behind a waiting writer and lets waiting readers in before the next
writer. MemServer: the goroutines of the group, and a save that has begun, are
weakly fair; an RPC whose message has arrived is worked off without its client, so
its steps are weakly fair and getting the write lock strongly; clients may take for
ever to send a message or never do, HTTP handlers may take for ever, and signals,
crashes (the watchdog is one), restarts and the periodic saver's sleep are not
fair. PgDB: the progress of a call is weakly fair and getting a row lock strongly
(PostgreSQL queues waiters); faults are neither fair nor bounded. `ReportsGetThrough`
is stated under `NetworkDelivers`; the other liveness properties assume nothing
of the network. Delivery: the agent's fairness and nothing of network and
server. HttpRequest: some step is taken while there is one, since its goroutines
wait only for each other. PgServer's run has no liveness property.

**Findings.** The four violations are described in `PROJECT.json`:

1. the final save is taken in parallel with `srv.Shutdown`
   (`internal/server/server.go:423-430`, `472-479`), so "save metrics result on
   shutdown" misses updates that are answered with 200 afterwards;
2. `SaveToFile` truncates before it writes (`internal/storage/storage.go:139`);
   a temporary file and a rename would keep the last save;
3. the counter upsert adds to a value read from the statement's snapshot
   (`internal/storage/pgdb.go:28`); `delta = monitoring.delta + $3` would not;
4. `SendMetrics` answers OK after a failed store call
   (`internal/server/server_grpc.go:68`), and the agent, which resets its counter
   "when metrics send procedure is success" (`internal/agent/agent.go:358`), loses
   the polls. Over HTTP `updateBatchMetricsJSON` answers 500 and the same property
   holds; what it excuses there, a statement that raced with a late request, is
   finding 3 in the hands of a single agent.

Noted on the way: a NaN or infinite gauge is accepted with 200 and is in no save
(`SaveIsSnapshot` and `ExitKeepsAcknowledged` say so); a gRPC client that opens a stream
and sends nothing keeps a signalled server until the watchdog ends it
(`OnlyAStreamStalls`). Also visible as exceptions in the properties of `request`: a value
that cannot be encoded (a NaN gauge) is answered 200 with an error text; a request
with a broken gzip header gets an empty gzip stream without `Content-Encoding`; a
private key file that cannot be read ends the server at the first update request
and not at its start, and one that is not PEM makes each of them panic; the JSON file overrules environment and flags; an IPv6 peer
without `X-Real-IP` is no address to `checkIP`; `SendMetrics` knows only the address
in the metadata.

`RateLimit` is documented as "number of requests sending to server at
the same time" (`internal/agent/config.go:11`); it is the capacity of two channels
of which one slot is used (`OneReport`), and requests in flight are never more
than one.

## 4. Proofs

Every theorem holds for every value of the constants that the named assumptions
of the modules allow. They say what kind of value a constant is (`AgentAssumption`,
`DeliveryAssumption`, `MemServerAssumption`, `MemStorageAssumption`, `PgAssumption`,
`ServerAssumption`, `BlockHoldsData`, `DeploymentAssumption`, `RequestAssumption`), and
TLC evaluates them in the runs. Three theorems have a hypothesis more; the tables name it. Check a
module with `tlapm AgentProofs.tla`.

Almost none of the properties is inductive. Each module ends with the invariant
that is, and TLC checked each of these on the module's run before it was proved.
The proofs have one lemma per action or per part of the invariant.

### Agent

For every set of workers, every `RateLimit`, both transports, any number of polls.

| theorem | property |
|---|---|
| `AgentInvariant` | `Inv`, the inductive invariant |
| `TypeCorrect` | `TypeOK` |
| `OneReport` | `OneReportAtATime` |
| `PayloadIsStable` | `PayloadStable` |
| `NoDoubleAck` | `NoPollAckedTwice` |
| `ReportsAreCoherent` | `BatchCoherent` |
| `ResetNeedsSuccess` | `ResetOnlyAfterSuccess` |
| `ResetDropsLatePolls` | `ResetDropsOnlyLatePolls` |

`OneReportAtATime` does not say where the report is nor where the loop stands;
`Exclusive` does: queue, workers and answers hold one report in one place, and only
while the loop is at `await` or is leaving with the context done. From it follows
that nobody encodes while a report is out, hence `Payload` (wherever the report is,
`mJSON` still equals it) and `Counting` (wherever it is, it carries no more polls
than `pollCount`, which only grows while it is out). `Coherence` ties the two
generations to the holder of MemStats' lock. `ResetJustified` is what `Receive`
leaves behind, and `Lateness` that what an answer confirms is what was summed up, so
that the difference was polled later. `agent_http` checks the same `Inv` with TLC.

### Delivery

| theorem | property |
|---|---|
| `DeliveryImplementsAgent` | every behaviour of the composition is one of the agent: `DSpec => Spec` |
| `DeliveryInvariant` | `Inv /\ DInv` |
| `DTypeCorrect` | `DTypeOK` |
| `ConfirmationsAreStored` | `ConfirmedIsStored`, for `~Grpc` |
| `NothingLostWithoutLateRequests` | `NothingLost`, for `~Grpc` and either `~Postgres` or `Late = {}` |
| `ConfirmedCountOnce` | `CountedOnceIfConfirmed` |

The first theorem carries the agent's invariant over to the composition. `DInv`
accounts in commits, which no race can take back: `Booked` says that what an answer
may still confirm is among the unconfirmed commits, `Confirmations`, at each place
where a confirmation can be on its way to the reset, that a commit backs it, and
`Credits`, at each place where the report or the counter can be, that the server
could be credited with it without exceeding the polls taken. `Counter` ties the row
to the commits: never more, and exactly as much until a statement raced. `Snapshots`
says when that can happen: on PostgreSQL, and only beside a late request, since a
single agent has one request out at a time. Hence the two theorems about what is
confirmed: with races excused for the store as it is, and without the excuse where
there are none. The hypothesis `~Grpc` is necessary: over gRPC the property is violated
(`delivery_grpc`).

### MemStorage

| theorem | property |
|---|---|
| `MemStorageInvariant` | `LInv`, the inductive invariant |
| `MemStorageTypes` | `TypeOK` |
| `MemStorageImplementsMetricStore` | `Spec => Abs!Spec` |

`Locks` ties each goroutine's place to the lock it holds. `Progress` says how far the
writer is: the maps are those it found with the entries before the n-th applied,
where "applied" is stated as a sum (or the last value) over a set of positions and not
as the loop does it. The step simulation then has one case per action; the one that
matters is the writer's unlock, where the loop has come to the end and the maps are
what `MetricStore` promises for the whole batch. The proof covers safety; that
calls return is in the run.

### MemServer

For any sets of handlers on both listeners, any metrics, any number of crashes.

| theorem | property |
|---|---|
| `MemServerInvariant` | `MInv`, the inductive invariant |
| `MemServerTypes` | `TypeOK` |
| `RestartInventsNothing` | `NothingInvented` |
| `UntouchedSaveIsSnapshot` | `SaveIsSnapshot` |
| `ExitKeepsWhatWasAcknowledged` | `ExitKeepsAcknowledged` |

`NothingAhead` extends `NothingInvented` to the lines of the file, which are what a
restart reads. `OwnFile` says what a saver that was not disturbed has in the file so
far: it is alone, its lines are gap-free, agree with the store, and miss only the
metrics still to do and the gauges that are no numbers. `AckedKept` follows an acknowledgement from the store through
the signal and the final save, with the gauges that save leaves out (`unsaved`), to the
file; it counts the updates that are stored
and not yet answered, since several handlers can be between the two.

### PgDB and PgServer

For any handlers, batches, ids, and every `MaxRetries`.

| theorem | property |
|---|---|
| `PgDBInvariant` | `PInv`, the inductive invariant |
| `PgDBTypes` | `TypeOK` |
| `CounterIsExact` | `CounterExactUnlessRaced` |
| `PgServerInvariant` | `SInv`, with reads and restarts |
| `CounterIsExactAcrossRestarts` | `CounterExactUnlessRaced` |
| `PageIsWhole` | `PageListsEachIdOnce` |
| `ErrorsAreExplained` | `UnexplainedErrorsAreNulls` |
| `ReadsAreCurrent` | `ReadsSeeAcknowledged`, for batches without negative deltas |

`Committed` is the property with the row's type. It is not inductive because a
transaction changes rows before it commits: `Written` says that such a row is ahead
of the committed one by exactly the entries done so far, and that a row the
transaction does not own is not touched by any of them. `Stored` keeps the rows an
answer will speak of. For the reads, `SInv` adds what a page that is half read may
rely on, and `Ledger` that what is acknowledged, with what is committed and still to
be answered, is at most what is committed. `Ledger`, and with it `ReadsAreCurrent`,
needs deltas that are not negative: a counter that goes down may rightly be less
than it was when the read began.

### HttpRequest

For every deployment, every request, every key size.

| theorem | property |
|---|---|
| `HttpRequestInvariant` | `HInv`, the inductive invariant |
| `SignerEndsAtRest` | `SignerAtRest` |
| `AnswersTellTheStore` | `AnswerTellsStore` |
| `AnswersAreWhole` | `AnswerIsWhole` |
| `SignaturesCoverAnswers` | `SignatureCoversAnswer` |
| `SameGate` | `SameGateOnBothListeners` |
| `AgentsAreUnderstood` | `AgentIsUnderstood` |

The properties are about the end of a request; `HInv` says what is true on the way.
`Answering` splits an answer by what is left of it (`AllLeft`, `BodyLeft`, `PageLeft`,
`NothingLeft`), with `Code`, the status the client will get, defined before it is
sent; `Gone` and `Unencodable` are the two ways in which a handler answers twice.
`Signing` lists the six turns that the signer's `Write` and its goroutine take over
the two channels: everything else they could do is unreachable, so that the
goroutine is gone when the last call returns. `Covered` says what the hash has taken
in at each of them, `Announced` that the headers and the log tell what was sent.
`SameGate` also needs that a program that starts has taken its setting from the
strongest source (lemma `Resolved`).

`AgentsAreUnderstood` has an invariant of its own beside `HInv`: `Carried` says what
each middleware has still to check or to undo on a report. It rests on lemma
`RoundTrip`, that `DecryptOAEPbyPart` of `EncryptOAEPbyPart` is the message whatever the
key size and the length: the parts of a message, joined, are the message
(`PartsJoined`), and cutting joined whole blocks gives the blocks back
(`WholeBlocks`).

### Induction over data

The library states induction with an operator as parameter, which the provers here
cannot instantiate. `DataLemmas` states it for sets instead (`Induct`: a set with 0
that is closed under +1 holds every natural), proved from the well-foundedness of `<`
on the naturals. From it follow the greatest element of a bounded set and how a sum
over a set of entries changes with one entry more, which is what the proofs about
the stores need of `MapThenSumSet`. The same induction gives what `FlattenSeq`, a
recursive function, computes (lemma `Flattened` of `HttpRequestProofs`).

### Only model-checked

* Liveness: `OnlyAStreamStalls`, `CallsReturn`, `EveryRequestEnds`, the agent's and the
  delivery's liveness, and the fairness half of `ImplementsMetricStore`. The prover
  has no support for fairness and ENABLED.
* The four violations, which are counterexamples and need no proof.

## 5. Not modelled

* Disk errors. A file that cannot be created is logged and stays as it was; an error
  of a write (a full disk) is dropped like that of a value that cannot be encoded,
  and the file then misses that line, or part of it, without anybody being told.
* A listener that cannot bind: it cancels the group, as `Signal` does.
* Counter overflow: `int64` sums of an agent's small deltas do not get there.
* Gauge values and the formatting of numbers; time, but for the budgets and
  deadlines that change what happens.
* The cryptographic primitives, gzip, chi, pgx and gRPC themselves: libraries, by
  what they promise. pprof and log output.
* `keygen` writes two files once; `cmd/staticlint` is a linter of the repository;
  `proto` and `mocks` are generated.

## 6. Plan

Done: all modules of section 2, with the proofs of section 4: every safety property
of a passing run is stated by a theorem. Left is what would make the theorems say
more: that the two stores' acknowledged updates are what a restarted server
answers with, and that `MemServer`'s handlers, which take a store call as one step,
are those of `MemStorage`.
