------------------------------ MODULE MemServer ------------------------------
(***************************************************************************)
(* The server with the in-memory store: the update handlers, the two       *)
(* goroutines that save the store to its file, graceful shutdown, crashes  *)
(* and the restart that restores the file (internal/server/server.go, Run, *)
(* saveToFile, updateMetrics and updateBatchMetricsJSON; server_grpc.go;   *)
(* SaveToFile and ReadFromFile of internal/storage/storage.go;             *)
(* cmd/server/main.go).                                                    *)
(*                                                                         *)
(* Store writes are one step here: module MemStorage shows that they are   *)
(* atomic. The value of a metric is the number of updates applied to it,   *)
(* which is what a counter fed with 1s holds and a version for a gauge; 0  *)
(* is a metric the store does not have.                                    *)
(*                                                                         *)
(* The file is a sequence of lines of one length. A line is a metric with  *)
(* its value; Hole is a stretch of NUL bytes, left where a saver goes on   *)
(* writing at its own offset after the other one truncated the file.       *)
(***************************************************************************)
EXTENDS Integers, Sequences, SequencesExt, FiniteSets

CONSTANTS
    Handlers,       \* request goroutines of the HTTP server
    RpcHandlers,    \* those of the gRPC server; {}: config.GrpcServer is empty
    CounterIds,     \* counters
    GaugeIds,       \* gauges
    StoreInterval,  \* config.StoreInterval: 0 saves once, at the start
    MaxUpdates,     \* bound: updates in a behaviour
    Hole,           \* a stretch of NUL bytes in the file
    MayCrash        \* whether the process can be killed

Ids == CounterIds \cup GaugeIds
AllHandlers == Handlers \cup RpcHandlers

ASSUME MemServerAssumption ==
    /\ StoreInterval \in Nat
    /\ MaxUpdates \in Nat \ {0}
    /\ CounterIds \cap GaugeIds = {} /\ IsFiniteSet(CounterIds) /\ IsFiniteSet(GaugeIds)
    /\ Handlers \cap RpcHandlers = {} /\ IsFiniteSet(Handlers) /\ IsFiniteSet(RpcHandlers)
    /\ Hole \notin [id : Ids, val : Nat]
    /\ MayCrash \in BOOLEAN

\* The goroutine started with go saveToFile(..), and the one of the errgroup
\* that waits for ctx.Done().
Savers == {"periodic", "final"}
Other(s) == IF s = "periodic" THEN "final" ELSE "periodic"

VARIABLES
    proc,       \* "running", "exited" (Run returned) or "crashed"
    store,      \* MemStorage: id -> updates applied
    nan,        \* the gauges whose value is NaN or infinite
    file,       \* the lines of config.FileStoragePath
    ctxDone,    \* the errgroup's context is done
    http,       \* "up", "closing" (srv.Shutdown runs) or "down" (it returned)
    grpc,       \* the same for GracefulStop and Serve
    hst,        \* handler -> where it is
    hbatch,     \* handler -> the ids its request updates
    sst,        \* saver -> where it is in SaveToFile
    todo,       \* saver -> ids it has still to write
    offset,     \* saver -> lines it has written
    clean,      \* history: the saver's file has not been touched by the other
    applied,    \* history: id -> updates ever applied
    acked,      \* history: id -> updates answered with 200, since the start
    ackedSig,   \* history: acked when the signal came
    lastSave,   \* history: what the last completed, untouched save holds
    unsaved     \* history: nan when the final save began

procVars == <<proc, ctxDone, http, grpc>>
handlerVars == <<hst, hbatch>>
saverVars == <<sst, todo, offset, clean>>
history == <<applied, acked, ackedSig, lastSave, unsaved>>
memVars == <<store, nan>>
vars == <<procVars, memVars, file, handlerVars, saverVars, history>>

Nothing == [i \in Ids |-> 0]

-----------------------------------------------------------------------------
(* Files.                                                                  *)

\* Lines before the first one that json.Unmarshal refuses.
Good(f) == {n \in DOMAIN f : \A m \in 1..n : f[m] # Hole}

\* Mutant: ReadFromFile adds a counter to what is there.
ReadFromFileAdds(f) ==
    [i \in Ids |-> LET ns == {n \in Good(f) : f[n].id = i}
                   IN  FoldSet(LAMBDA n, sum : f[n].val + sum, 0, ns)]

\* ReadFromFile into an empty store: every good line sets its metric, the
\* first bad one ends it, and what has been read stays.
ReadFromFile(f) ==
    [i \in Ids |-> LET ns == {n \in Good(f) : f[n].id = i}
                   IN  IF ns = {} THEN 0 ELSE f[Max(ns)].val]

\* A write of one line at line offset n: what lies between the end of the
\* file and n becomes a hole, what was at n is overwritten.
WriteAt(f, n, line) ==
    [m \in 1..Max({Len(f), n + 1}) |->
        CASE m = n + 1 -> line
          [] m # n + 1 /\ m \in DOMAIN f -> f[m]
          [] OTHER -> Hole]

-----------------------------------------------------------------------------

Init ==
    /\ proc = "running" /\ ctxDone = FALSE /\ http = "up" /\ grpc = "up"
    /\ store = Nothing /\ nan = {}
    /\ file = <<>>
    /\ hst = [h \in AllHandlers |-> "idle"]
    /\ hbatch = [h \in AllHandlers |-> {}]
    /\ sst = [s \in Savers |-> "idle"]
    /\ todo = [s \in Savers |-> {}]
    /\ offset = [s \in Savers |-> 0]
    /\ clean = [s \in Savers |-> FALSE]
    /\ applied = Nothing /\ acked = Nothing /\ ackedSig = Nothing
    /\ lastSave = Nothing /\ unsaved = {}

Running == proc = "running"

-----------------------------------------------------------------------------
(* The update handlers.                                                    *)

\* Updates applied, or answered without that, and under way.
Planned ==
    MapThenSumSet(LAMBDA i : Max({applied[i], acked[i]})
                             + Cardinality({h \in AllHandlers : hst[h] # "idle" /\ i \in hbatch[h]}),
                  Ids)

\* A client opens a request or a stream, and has not sent its message yet.
Open(h) ==
    /\ IF h \in RpcHandlers THEN grpc = "up" ELSE http = "up"
    /\ hst[h] = "idle"
    /\ hst' = [hst EXCEPT ![h] = "receiving"]
    /\ UNCHANGED <<procVars, memVars, file, hbatch, saverVars, history>>

\* It goes away without sending it.
Abandon(h) ==
    /\ hst[h] = "receiving"
    /\ hst' = [hst EXCEPT ![h] = "idle"]
    /\ UNCHANGED <<procVars, memVars, file, hbatch, saverVars, history>>

\* The message is complete and decodes to updates of the ids in b (one for
\* /update/, several for /updates/ and SendMetrics). Closing the listener does
\* not keep it out.
Accept(h, b) ==
    /\ hst[h] = "receiving"
    /\ Planned + Cardinality(b) <= MaxUpdates
    /\ hst' = [hst EXCEPT ![h] = "decoded"]
    /\ hbatch' = [hbatch EXCEPT ![h] = b]
    /\ UNCHANGED <<procVars, memVars, file, saverVars, history>>

\* retry.Do looks at the context before it calls the store.
CheckContext(h) ==
    /\ hst[h] = "decoded"
    /\ ~ctxDone
    /\ hst' = [hst EXCEPT ![h] = "writing"]
    /\ UNCHANGED <<procVars, memVars, file, hbatch, saverVars, history>>

\* Once the server shuts down nothing is stored: an HTTP request is answered
\* 500 then; SendMetrics logs the error and answers OK.
Cancelled(h) ==
    /\ hst[h] = "decoded"
    /\ ctxDone
    /\ hst' = [hst EXCEPT ![h] = IF h \in RpcHandlers THEN "stored" ELSE "idle"]
    /\ hbatch' = [hbatch EXCEPT ![h] = IF h \in RpcHandlers THEN @ ELSE {}]
    /\ UNCHANGED <<procVars, memVars, file, saverVars, history>>

\* The gauges h may set to NaN or an infinity: JSON has no such number, the path
\* of a single update (strconv.ParseFloat) and a protobuf message have.
NotNumbers(h) ==
    IF h \in RpcHandlers \/ Cardinality(hbatch[h]) = 1
    THEN SUBSET (hbatch[h] \cap GaugeIds) ELSE {{}}

\* Mutant: the store is written without the mutex SaveToFile reads under.
WriteUnlocked(h, bad) ==
    /\ hst[h] = "writing"
    /\ store' = [i \in Ids |-> IF i \in hbatch[h] THEN store[i] + 1 ELSE store[i]]
    /\ nan' = (nan \ hbatch[h]) \cup bad
    /\ applied' = [i \in Ids |-> IF i \in hbatch[h] THEN applied[i] + 1
                                 ELSE applied[i]]
    /\ hst' = [hst EXCEPT ![h] = "stored"]
    /\ UNCHANGED <<procVars, file, hbatch, saverVars, acked, ackedSig, lastSave, unsaved>>

\* WriteMetric or WriteBatchMetrics: needs the write lock. The gauges of bad get
\* a value that is not a number of JSON.
Write(h, bad) ==
    /\ hst[h] = "writing"
    /\ \A s \in Savers : sst[s] # "locked"
    /\ store' = [i \in Ids |-> IF i \in hbatch[h] THEN store[i] + 1 ELSE store[i]]
    /\ nan' = (nan \ hbatch[h]) \cup bad
    /\ applied' = [i \in Ids |-> IF i \in hbatch[h] THEN applied[i] + 1
                                 ELSE applied[i]]
    /\ hst' = [hst EXCEPT ![h] = "stored"]
    /\ UNCHANGED <<procVars, file, hbatch, saverVars, acked, ackedSig, lastSave, unsaved>>

\* The 200, or the OK, reaches the client.
Respond(h) ==
    /\ hst[h] = "stored"
    /\ acked' = [i \in Ids |-> IF i \in hbatch[h] THEN acked[i] + 1 ELSE acked[i]]
    /\ hst' = [hst EXCEPT ![h] = "idle"]
    /\ hbatch' = [hbatch EXCEPT ![h] = {}]
    /\ UNCHANGED <<procVars, memVars, file, saverVars, applied, ackedSig, lastSave, unsaved>>

-----------------------------------------------------------------------------
(* The savers.                                                             *)

\* Mutant: the file is opened for appending.
CreateAppends(s) ==
    /\ sst[s] = "idle"
    /\ s = "final" => ctxDone
    /\ sst' = [sst EXCEPT ![s] = "created"]
    /\ offset' = [offset EXCEPT ![s] = Len(file)]
    /\ clean' = [clean EXCEPT ![s] = sst[Other(s)] \notin {"created", "locked"},
                              ![Other(s)] = FALSE]
    /\ UNCHANGED <<procVars, memVars, file, handlerVars, todo, history>>

\* os.Create, before the lock is taken: the file is truncated. The final saver
\* does it once the context is done, the periodic one after every interval.
Create(s) ==
    /\ sst[s] = "idle"
    /\ s = "final" => ctxDone
    /\ sst' = [sst EXCEPT ![s] = "created"]
    /\ file' = <<>>
    /\ clean' = [clean EXCEPT ![s] = sst[Other(s)] \notin {"created", "locked"},
                              ![Other(s)] = FALSE]
    /\ UNCHANGED <<procVars, memVars, handlerVars, todo, offset, history>>

\* m.RLock(): the maps hold still from here to the end of the save.
RLock(s) ==
    /\ sst[s] = "created"
    /\ sst' = [sst EXCEPT ![s] = "locked"]
    /\ todo' = [todo EXCEPT ![s] = {i \in Ids : store[i] > 0}]
    /\ unsaved' = IF s = "final" THEN nan ELSE unsaved
    /\ UNCHANGED <<procVars, memVars, file, handlerVars, offset, clean, applied, acked,
                   ackedSig, lastSave>>

\* The loops of SaveToFile: the counters in any order, then the gauges.
NextLine(s, i) ==
    /\ sst[s] = "locked"
    /\ i \in todo[s]
    /\ i \in GaugeIds => todo[s] \cap CounterIds = {}

\* enc.Encode writes one line at this descriptor's offset.
WriteLine(s, i) ==
    /\ NextLine(s, i) /\ i \notin nan
    /\ file' = WriteAt(file, offset[s], [id |-> i, val |-> store[i]])
    /\ offset' = [offset EXCEPT ![s] = @ + 1]
    /\ todo' = [todo EXCEPT ![s] = @ \ {i}]
    /\ UNCHANGED <<procVars, memVars, handlerVars, sst, clean, history>>

\* enc.Encode refuses a gauge that is not a number: nothing is written, the
\* error is dropped and the loop goes on.
DropLine(s, i) ==
    /\ NextLine(s, i) /\ i \in nan
    /\ todo' = [todo EXCEPT ![s] = @ \ {i}]
    /\ UNCHANGED <<procVars, memVars, file, handlerVars, sst, offset, clean, history>>

\* Close and RUnlock. saveToFile with interval 0 saves once, else it sleeps and
\* saves again.
Close(s) ==
    /\ sst[s] = "locked"
    /\ todo[s] = {}
    /\ sst' = [sst EXCEPT ![s] =
                  IF s = "final" \/ StoreInterval = 0 THEN "done" ELSE "idle"]
    /\ offset' = [offset EXCEPT ![s] = 0]
    /\ lastSave' = IF clean[s] THEN ReadFromFile(file) ELSE lastSave
    /\ UNCHANGED <<procVars, memVars, file, handlerVars, todo, clean, applied,
                   acked, ackedSig, unsaved>>

-----------------------------------------------------------------------------
(* Shutdown, crash and restart.                                            *)

\* SIGTERM, SIGINT or SIGQUIT, or an error of a goroutine of the group.
Signal ==
    /\ ~ctxDone
    /\ ctxDone' = TRUE
    /\ ackedSig' = acked
    /\ UNCHANGED <<proc, http, grpc, memVars, file, handlerVars, saverVars,
                   applied, acked, lastSave, unsaved>>

\* srv.Shutdown closes the listener: no new requests.
ShutdownHttp ==
    /\ ctxDone /\ http = "up"
    /\ http' = "closing"
    /\ UNCHANGED <<proc, ctxDone, grpc, memVars, file, handlerVars, saverVars,
                   history>>

\* Mutant: srv.Shutdown without a deadline.
HttpDownNoTimeout ==
    /\ http = "closing"
    /\ \A h \in Handlers : hst[h] = "idle"
    /\ http' = "down"
    /\ UNCHANGED <<proc, ctxDone, grpc, memVars, file, handlerVars, saverVars,
                   history>>

\* It returns when the handlers have answered or its five seconds are over: a
\* handler still at work does not keep it.
HttpDown ==
    /\ http = "closing"
    /\ http' = "down"
    /\ UNCHANGED <<proc, ctxDone, grpc, memVars, file, handlerVars, saverVars,
                   history>>

\* GracefulStop, once the context is done: no new RPCs.
StopGrpc ==
    /\ ctxDone /\ grpc = "up"
    /\ grpc' = "closing"
    /\ UNCHANGED <<proc, ctxDone, http, memVars, file, handlerVars, saverVars,
                   history>>

\* It returns, and Serve with it, when the last open stream has ended, also one
\* whose client has not sent its message: there is no deadline.
GrpcDown ==
    /\ grpc = "closing"
    /\ \A h \in RpcHandlers : hst[h] = "idle"
    /\ grpc' = "down"
    /\ UNCHANGED <<proc, ctxDone, http, memVars, file, handlerVars, saverVars,
                   history>>

\* The memory of the process goes with it, and whatever its goroutines were
\* doing; the file stays as it is.
MemoryGone ==
    /\ store' = Nothing /\ nan' = {}
    /\ ctxDone' = FALSE /\ http' = "up" /\ grpc' = "up"
    /\ hst' = [h \in AllHandlers |-> "idle"]
    /\ hbatch' = [h \in AllHandlers |-> {}]
    /\ sst' = [s \in Savers |-> "idle"]
    /\ todo' = [s \in Savers |-> {}]
    /\ offset' = [s \in Savers |-> 0]

\* Mutant: Run returns without waiting for the saver.
ExitEarly ==
    /\ http = "down"
    /\ proc' = "exited"
    /\ MemoryGone
    /\ UNCHANGED <<file, clean, history>>

\* g.Wait() returns when the group's goroutines have: the final saver, both
\* servers. It does not wait for HTTP handlers nor for the periodic saver.
Exit ==
    /\ http = "down"
    /\ RpcHandlers # {} => grpc = "down"
    /\ sst["final"] = "done"
    /\ proc' = "exited"
    /\ MemoryGone
    /\ UNCHANGED <<file, clean, history>>

\* The process is killed, or the watchdog of main.go ends it 30 s after the
\* signal.
Crash ==
    /\ MayCrash
    /\ proc' = "crashed"
    /\ MemoryGone
    /\ UNCHANGED <<file, clean, history>>

\* A new process: Run with config.Restore. What an unreadable file still gave
\* is kept, the error is only logged.
Restart ==
    /\ ~Running
    /\ proc' = "running"
    /\ store' = ReadFromFile(file)
    /\ clean' = [s \in Savers |-> FALSE]
    /\ acked' = ReadFromFile(file) /\ ackedSig' = Nothing
    /\ UNCHANGED <<ctxDone, http, grpc, nan, file, handlerVars, sst, todo, offset, applied,
                   lastSave, unsaved>>

HandlerStep(h) ==
    \/ Open(h) \/ Abandon(h) \/ (\E b \in SUBSET Ids \ {{}} : Accept(h, b))
    \/ CheckContext(h) \/ Cancelled(h) \/ (\E bad \in NotNumbers(h) : Write(h, bad))
    \/ Respond(h)

SaverStep(s) ==
    Create(s) \/ RLock(s) \/ (\E i \in Ids : WriteLine(s, i) \/ DropLine(s, i)) \/ Close(s)

\* The listeners and g.Wait().
GroupStep == ShutdownHttp \/ HttpDown \/ StopGrpc \/ GrpcDown \/ Exit

ProcessStep == Signal \/ GroupStep \/ Crash

Next ==
    \/ Running /\ \E h \in AllHandlers : HandlerStep(h)
    \/ Running /\ \E s \in Savers : SaverStep(s)
    \/ Running /\ ProcessStep
    \/ Restart

Spec == Init /\ [][Next]_vars

\* The goroutines of the group run and timers fire; a save that has begun goes
\* on, an RPC whose message has arrived is worked off (it needs no client for
\* that) and sync.RWMutex lets a waiting writer in. Nothing is assumed of clients
\* and HTTP handlers (either may be slow for ever), of signals, crashes (the
\* watchdog among them) or restarts, nor of the sleep of the periodic saver.
FairSpec ==
    /\ Spec
    /\ WF_vars(Running /\ SaverStep("final"))
    /\ WF_vars(Running /\ sst["periodic"] # "idle" /\ SaverStep("periodic"))
    /\ WF_vars(Running /\ (ShutdownHttp \/ HttpDown))
    /\ WF_vars(Running /\ (StopGrpc \/ GrpcDown))
    /\ WF_vars(Running /\ Exit)
    /\ \A h \in RpcHandlers :
          /\ WF_vars(Running /\ (CheckContext(h) \/ Cancelled(h) \/ Respond(h)))
          /\ SF_vars(Running /\ \E bad \in NotNumbers(h) : Write(h, bad))

-----------------------------------------------------------------------------
(* Properties.                                                             *)

TypeOK ==
    /\ proc \in {"running", "exited", "crashed"} /\ ctxDone \in BOOLEAN
    /\ http \in {"up", "closing", "down"} /\ grpc \in {"up", "closing", "down"}
    /\ store \in [Ids -> Nat] /\ nan \subseteq GaugeIds /\ unsaved \subseteq GaugeIds
    /\ file \in Seq([id : Ids, val : Nat] \cup {Hole})
    /\ Len(file) <= Cardinality(Ids)
    /\ hst \in [AllHandlers -> {"idle", "receiving", "decoded", "writing", "stored"}]
    /\ hbatch \in [AllHandlers -> SUBSET Ids]
    /\ sst \in [Savers -> {"idle", "created", "locked", "done"}]
    /\ todo \in [Savers -> SUBSET Ids]
    /\ offset \in [Savers -> 0..Cardinality(Ids)]
    /\ clean \in [Savers -> BOOLEAN]
    /\ {applied, acked, ackedSig, lastSave} \subseteq [Ids -> Nat]

\* A save the other saver left alone ends with a file that restores to exactly
\* the store, whatever requests ran during it: SaveToFile holds the read lock.
\* Only the gauges that are NaN or infinite are missing, all of them: their
\* lines were dropped with the error of enc.Encode.
SaveIsSnapshot ==
    \A s \in Savers :
        sst[s] = "locked" /\ todo[s] = {} /\ clean[s]
            => ReadFromFile(file) = [i \in Ids |-> IF i \in nan THEN 0 ELSE store[i]]

\* A restart never invents updates: no metric is ever restored, or counted,
\* above what requests applied to it, however the savers overlapped (then a
\* line can be in the file twice) and wherever a crash cut a save.
NothingInvented == \A i \in Ids : store[i] <= applied[i]

\* A graceful exit leaves in the file every update acknowledged before the
\* signal, unless the periodic saver worked on the file during or after the
\* final save, or the metric was a gauge that is NaN or infinite at that save.
ExitKeepsAcknowledged ==
    proc = "exited" /\ clean["final"]
        => \A i \in Ids \ unsaved : ReadFromFile(file)[i] >= ackedSig[i]

\* After the signal the process ends by itself: no slow HTTP request, no saver
\* and no RPC at work holds it. Only a stream that stays open without a message,
\* which GracefulStop waits for without a deadline, can do that, and leaves it
\* to the watchdog.
OnlyAStreamStalls ==
    <>[]ctxDone => <>[](\E h \in RpcHandlers : hst[h] = "receiving")

\* server.go:423, "save metrics result on shutdown": a graceful exit leaves in
\* the file every update the server acknowledged. (Refuted by a run.)
ShutdownSavesAcknowledged ==
    proc = "exited" => \A i \in Ids : ReadFromFile(file)[i] >= acked[i]

\* config.go:13, "restore saved metrics from a file when starting the server":
\* what a completed save put in the file is there when a server starts.
\* (Refuted by a run.)
RestartFindsLastSave ==
    ~Running => \A i \in Ids : ReadFromFile(file)[i] >= lastSave[i]

-----------------------------------------------------------------------------
(* The inductive invariant behind the safety properties.                    *)

\* s has the file open.
Saving(s) == sst[s] \in {"created", "locked"}

\* A process that has ended, or has just been started, does nothing.
AtRest ==
    ~Running => /\ ~ctxDone
                /\ \A h \in AllHandlers : hst[h] = "idle"
                /\ \A s \in Savers : sst[s] = "idle"

\* A saver writes one line for each metric at most.
Offsets ==
    \A s \in Savers :
        /\ sst[s] # "locked" => todo[s] = {} /\ offset[s] = 0
        /\ offset[s] + Cardinality(todo[s]) <= Cardinality(Ids)

\* No line of the file, and no metric in memory, is ahead of the requests.
NothingAhead ==
    /\ NothingInvented
    /\ \A n \in DOMAIN file : file[n] # Hole => file[n].val <= applied[file[n].id]

\* A saver the other one left alone has the file to itself: it is empty until
\* the lock is taken, and then holds the metrics passed so far as they are in
\* memory, without a hole, but for the gauges that are no numbers. Writers wait.
OwnFile ==
    \A s \in Savers : clean[s] /\ Saving(s) =>
        /\ ~Saving(Other(s))
        /\ sst[s] = "created" => file = <<>>
        /\ sst[s] = "locked" =>
              /\ Len(file) = offset[s]
              /\ \A n \in DOMAIN file : /\ file[n] # Hole /\ file[n].id \notin nan
                                        /\ file[n].val = store[file[n].id]
              /\ \A i \in Ids \ nan : store[i] > 0 /\ i \notin todo[s]
                    => \E n \in DOMAIN file : file[n].id = i

\* Updates of i that are stored and not yet answered for.
Unanswered(i) == {h \in AllHandlers : hst[h] = "stored" /\ i \in hbatch[h]}

\* What is acknowledged is in memory until the signal, what was acknowledged
\* before it stays there, and the final save takes it to the file.
AckedKept ==
    /\ Running /\ ~ctxDone
        => \A i \in Ids : acked[i] + Cardinality(Unanswered(i)) <= store[i]
    /\ Running /\ ctxDone => \A i \in Ids : ackedSig[i] <= store[i]
    /\ sst["final"] # "idle" => ctxDone
    /\ sst["final"] = "locked" => unsaved = nan
    /\ sst["final"] = "done" /\ clean["final"]
        => /\ ~Saving("periodic")
           /\ \A i \in Ids \ unsaved : ReadFromFile(file)[i] >= ackedSig[i]
    /\ ExitKeepsAcknowledged

MInv == TypeOK /\ AtRest /\ Offsets /\ NothingAhead /\ OwnFile /\ AckedKept
=============================================================================
