--------------------------- MODULE DeliveryProofs ---------------------------
(***************************************************************************)
(* Proofs that the composed system keeps what it promises about the polls: *)
(* for every pool of workers, either transport and store, any number of    *)
(* polls, of commits a retrier makes and of late requests.                 *)
(*                                                                         *)
(* The composition implements Agent, so that Agent's invariant holds in it.*)
(* On top of it DInv is inductive: Requests ties calls to requests, Booked *)
(* and Counter say what the ledger and the counter hold, Confirmations     *)
(* follows a confirmed batch to the reset, Credits bounds what the server  *)
(* can still be credited with.                                             *)
(***************************************************************************)
EXTENDS Delivery, AgentProofs

-----------------------------------------------------------------------------
(* The composition implements the agent.                                    *)

LEMMA AgentStepIsStep ==
    ASSUME AgentStep
    PROVE  Alive /\ Step
  BY DEF AgentStep, AgentAside, Transmit, Answered, CallFails, WorkerAside, Step, Worker

LEMMA ServerStepIsAside ==
    ASSUME ServerStep
    PROVE  UNCHANGED vars
  BY DEF ServerStep, StartStatement, WriteBatch, Store, Return, Refuse

LEMMA DNextIsNext ==
    ASSUME [DNext]_dvars
    PROVE  [Next]_vars
  BY AgentStepIsStep, ServerStepIsAside DEF DNext, Next, Ended, dvars

\* With a network and a server behind its calls the agent does nothing it could
\* not do alone: everything proved of Agent holds in the composition.
THEOREM DeliveryImplementsAgent == DSpec => Spec
<1>1. DInit => Init
  BY DEF DInit
<1>2. [DNext]_dvars => [Next]_vars
  BY DNextIsNext
<1>3. QED
  BY <1>1, <1>2, PTL DEF DSpec, Spec

-----------------------------------------------------------------------------
(* The agent's steps, one invariant at a time.                              *)

\* The facts about types that the lemmas below use.
LEMMA Types ==
    ASSUME Inv, DInv
    PROVE  /\ acked \in Nat /\ pollCount \in Nat /\ rndGen \in Nat
           /\ committed \in Nat /\ unconfirmed \in Nat
           /\ pc \in MainPC /\ ctxDone \in BOOLEAN
           /\ job.polls \in Nat /\ batch.polls \in Nat
           /\ answer.polls \in Nat /\ answer.ok \in BOOLEAN
           /\ queue \in Seq(Report) /\ errs \in Seq(Outcome)
           /\ Len(queue) <= 1 /\ Len(errs) <= 1
           /\ queue # <<>> => queue[1].polls \in Nat
           /\ errs # <<>> => errs[1].polls \in Nat /\ errs[1].ok \in BOOLEAN
           /\ wst \in [Workers -> WorkerPC] /\ req \in [Workers \cup Late -> Request]
           /\ wjob \in [Workers -> Report] /\ wwire \in [Workers -> Report]
           /\ wres \in [Workers -> Outcome]
           /\ \A w \in Workers : /\ wjob[w].polls \in Nat /\ wwire[w].polls \in Nat
                                 /\ wres[w].polls \in Nat /\ wres[w].ok \in BOOLEAN
<1> USE DEF Inv, TypeOK, PollTypeOK, MainTypeOK, ChanTypeOK, WorkerTypeOK, Exclusive,
        DInv, DTypeOK
<1>1. queue # <<>> => queue[1] \in Report
  BY FirstOfSeq
<1>2. errs # <<>> => errs[1] \in Outcome
  BY FirstOfSeq
<1>3. \A w \in Workers : wjob[w] \in Report /\ wwire[w] \in Report /\ wres[w] \in Outcome
  OBVIOUS
<1>4. \A r \in Report : r.polls \in Nat
  BY DEF Report
<1>5. \A o \in Outcome : o.polls \in Nat /\ o.ok \in BOOLEAN
  BY DEF Outcome
<1>6. QED
  BY <1>1, <1>2, <1>3, <1>4, <1>5

\* What the steps of a call do to the requests and to the ledger.
LEMMA TransmitEffect ==
    ASSUME Inv, DInv, NEW w \in Workers, Transmit(w)
    PROVE  /\ StartAttempt(w)
           /\ req'[w].st = "sent" /\ req'[w].polls = wwire'[w].polls
           /\ req'[w].seen = NoRow /\ req'[w].commits = 0
           /\ \A x \in Workers \cup Late : x # w => req'[x] = req[x]
           /\ req' \in [Workers \cup Late -> Request]
           /\ wwire'[w].polls \in Nat
           /\ UNCHANGED storeVars
<1>0. wjob[w] \in Report /\ mJSON \in Report /\ \A r \in Report : r.polls \in Nat
  BY Types DEF Report, Inv, TypeOK, ChanTypeOK, WorkerTypeOK, MainTypeOK
<1>1. wwire'[w].polls \in Nat
  BY <1>0, Types DEF Transmit, StartAttempt, Body
<1>2. QED
  BY <1>1, Types DEF Transmit, Request, Handling, NoRequest, Row, NoRow

LEMMA AnsweredEffect ==
    ASSUME Inv, DInv, NEW w \in Workers, Answered(w)
    PROVE  /\ AttemptOk(w)
           /\ req'[w] = NoRequest
           /\ \A x \in Workers \cup Late : x # w => req'[x] = req[x]
           /\ req' \in [Workers \cup Late -> Request]
           /\ req[w].st \in {"stored", "unstored"}
           /\ req[w].st = "stored" => /\ unconfirmed' = unconfirmed - wwire[w].polls
                                      /\ wwire[w].polls <= unconfirmed
           /\ req[w].st = "unstored" => unconfirmed' = unconfirmed
           /\ unconfirmed' \in Nat
           /\ UNCHANGED <<row, committed, raced>>
<1>1. req[w].polls = wwire[w].polls /\ (req[w].st = "stored" => req[w].polls <= unconfirmed)
  BY DEF DInv, Requests, Booked, Answered
<1>2. NoRequest \in Request
  BY DEF Request, Handling, NoRequest, Row, NoRow
<1>3. QED
  BY <1>1, <1>2, Types DEF Answered

LEMMA CallFailsEffect ==
    ASSUME Inv, DInv, NEW w \in Workers, CallFails(w)
    PROVE  /\ AttemptRetried(w) \/ AttemptFailed(w)
           /\ req'[w] = NoRequest
           /\ \A v \in Workers : v # w => req'[v] = req[v]
           /\ \A x \in Late : req'[x] = req[x] \/ req'[x] = req[w]
           /\ req' \in [Workers \cup Late -> Request]
           /\ UNCHANGED storeVars
<1>1. NoRequest \in Request
  BY DEF Request, Handling, NoRequest, Row, NoRow
<1>2. \A x \in Late : x \notin Workers
  BY DeliveryAssumption
<1>3. QED
  BY <1>1, <1>2, Types DEF CallFails

LEMMA RequestsStep ==
    ASSUME Inv, DInv, AgentStep
    PROVE  Requests'
<1>0. Requests
  BY DEF DInv
<1> USE Types DEF Requests, Failed, WorkerPC, NoRequest, netVars, workerVars, chanVars
<1>1. CASE UNCHANGED <<wst, wwire, wres, errs, req>>
  BY <1>0, <1>1
<1>2. CASE AwaitResult /\ UNCHANGED netVars
  <2>1. errs' = <<>>
    BY <1>2, FirstOfSeq DEF AwaitResult
  <2>2. QED
    BY <1>0, <1>2, <2>1 DEF AwaitResult
<1>3. ASSUME NEW w \in Workers, HandOver(w) \/ TakeJob(w), UNCHANGED netVars
      PROVE  Requests'
  BY <1>0, <1>3 DEF HandOver, TakeJob
<1>4. ASSUME NEW w \in Workers, GiveUp(w), UNCHANGED netVars
      PROVE  Requests'
  BY <1>0, <1>4 DEF GiveUp
<1>5. ASSUME NEW w \in Workers, CheckShutdown(w), UNCHANGED netVars
      PROVE  Requests'
  BY <1>0, <1>5 DEF CheckShutdown
<1>6. ASSUME NEW w \in Workers, PutResult(w), UNCHANGED netVars
      PROVE  Requests'
  <2>1. errs' = Append(errs, wres[w])
    BY <1>6 DEF PutResult
  <2>2. errs = <<>>
    BY <1>6 DEF PutResult, Inv, Exclusive, Busy
  <2>3. errs' # <<>> /\ errs'[1] = wres[w]
    BY <2>1, <2>2
  <2>4. \A v \in Workers : wres'[v] = IF v = w THEN Failed ELSE wres[v]
    BY <1>6 DEF PutResult, EndOfJob
  <2>5. \A v \in Workers : wst'[v] = IF v = w THEN "idle" ELSE wst[v]
    BY <1>6 DEF PutResult, EndOfJob
  <2>6. /\ req' = req /\ wst[w] = "report"
        /\ \A v \in Workers : v # w => wwire'[v] = wwire[v]
    BY <1>6 DEF PutResult, EndOfJob
  <2>7. req[w].st = "none"
    BY <1>0, <2>6
  <2>8. QED
    BY <1>0, <2>3, <2>4, <2>5, <2>6, <2>7
<1>7. ASSUME NEW w \in Workers, HandBack(w), UNCHANGED netVars
      PROVE  Requests'
  <2>1. \A v \in Workers : wres'[v] = IF v = w THEN Failed ELSE wres[v]
    BY <1>7 DEF HandBack, EndOfJob
  <2>2. \A v \in Workers : wst'[v] = IF v = w THEN "idle" ELSE wst[v]
    BY <1>7 DEF HandBack, EndOfJob
  <2>3. /\ req' = req /\ wst[w] = "report" /\ errs' = errs
        /\ \A v \in Workers : v # w => wwire'[v] = wwire[v]
    BY <1>7 DEF HandBack, EndOfJob
  <2>4. req[w].st = "none"
    BY <1>0, <2>3
  <2>5. QED
    BY <1>0, <2>1, <2>2, <2>3, <2>4
<1>8. ASSUME NEW w \in Workers, Transmit(w)
      PROVE  Requests'
  BY <1>0, <1>8, TransmitEffect DEF StartAttempt
<1>9. ASSUME NEW w \in Workers, Answered(w)
      PROVE  Requests'
  BY <1>0, <1>9, AnsweredEffect DEF AttemptOk
<1>10. ASSUME NEW w \in Workers, CallFails(w)
      PROVE  Requests'
  <2>1. \A v \in Workers : req'[v] = IF v = w THEN NoRequest ELSE req[v]
    BY <1>10, CallFailsEffect
  <2>2. wst'[w] # "call" /\ \A v \in Workers : v # w => wst'[v] = wst[v]
    BY <1>10 DEF CallFails, AttemptRetried, AttemptFailed
  <2>3. \A v \in Workers : wres'[v] = wres[v] \/ wres'[v] = Failed
    BY <1>10 DEF CallFails, AttemptRetried, AttemptFailed
  <2>4. errs' = errs /\ wwire' = wwire
    BY <1>10 DEF CallFails, AttemptRetried, AttemptFailed
  <2>5. QED
    BY <1>0, <2>1, <2>2, <2>3, <2>4 DEF NoRequest
<1>11. CASE AgentAside
  <2>1. CASE Poller \/ Signal \/ Interrupt
    BY <1>1, <1>11, <2>1 DEF AgentAside, Poller, PollBegin, PollEnd, PollKern, Signal, Interrupt
  <2>2. CASE Main
    BY <1>1, <1>2, <1>3, <1>11, <2>2 DEF AgentAside, Main, ParseRtm, ParseSys, ParseKern,
       Encode, EncodeFail, Enqueue, EnqueueCancelled, AwaitCancelled, Reset, CheckDone, WakeUp
  <2>3. QED
    BY <1>3, <1>4, <1>5, <1>6, <1>7, <1>11, <2>1, <2>2 DEF AgentAside, WorkerAside
<1>12. QED
  BY <1>8, <1>9, <1>10, <1>11 DEF AgentStep

\* Over HTTP a confirmation that leaves the server stays backed until the reset
\* has added it to acked, through lost answers and through a cancelled cycle.
LEMMA ConfirmationsStep ==
    ASSUME Inv, DInv, AgentStep, ~Grpc
    PROVE  Confirmations'
<1>0. Confirmations /\ Requests
  BY DEF DInv
<1>a. /\ queue # <<>> => errs = <<>>
      /\ \A w \in Workers : Busy(w) => queue = <<>> /\ errs = <<>>
      /\ \A w, v \in Workers : Busy(w) /\ Busy(v) => w = v
      /\ queue # <<>> \/ errs # <<>> \/ (\E w \in Workers : Busy(w))
            => pc = "await" \/ pc \in {"reset", "check"} \/ ~Alive
  BY DEF Inv, Exclusive, Outstanding
<1> USE Types DEF Confirmations, Requests, Backed, Busy, Failed, MainPC, WorkerPC,
            mainVars, netVars, storeVars, workerVars, chanVars
<1>1. CASE /\ UNCHANGED <<acked, answer, chanVars, workerVars, netVars>>
           /\ pc' # "reset" \/ pc' = pc
  BY <1>0, <1>1
<1>2. CASE Enqueue /\ UNCHANGED netVars
  BY <1>0, <1>2 DEF Enqueue
<1>3. CASE AwaitResult /\ UNCHANGED netVars
  <2>1. errs # <<>> /\ errs' = <<>> /\ Head(errs) = errs[1]
    BY <1>3, FirstOfSeq DEF AwaitResult
  <2>2. answer' = errs[1] /\ UNCHANGED <<acked, queue, workerVars, netVars>>
    BY <1>3, <2>1 DEF AwaitResult, Receive
  <2>3. QED
    BY <1>0, <1>a, <2>1, <2>2
<1>4. CASE AwaitCancelled /\ UNCHANGED netVars
  BY <1>0, <1>4 DEF AwaitCancelled
<1>5. CASE Reset /\ UNCHANGED netVars
  <2>1. pc = "reset" /\ pc' = "check" /\ acked' = acked + answer.polls
    BY <1>5 DEF Reset
  <2>2. UNCHANGED <<chanVars, workerVars, netVars>>
    BY <1>5 DEF Reset
  <2>3. CASE answer.polls = 0
    BY <1>0, <2>1, <2>2, <2>3
  <2>4. CASE queue = <<>> /\ errs = <<>> /\ \A w \in Workers : ~Busy(w)
    BY <1>0, <2>1, <2>2, <2>4
  <2>5. QED
    BY <1>0, <2>1, <2>3, <2>4
<1>6. ASSUME NEW w \in Workers, HandOver(w) \/ TakeJob(w), UNCHANGED netVars
      PROVE  Confirmations'
  <2>1. /\ wst'[w] = "try" /\ \A v \in Workers : v # w => wst'[v] = wst[v]
        /\ UNCHANGED <<acked, answer, errs, wwire, wres, netVars>>
        /\ pc' # "reset" \/ (pc' = pc /\ queue # <<>>)
    BY <1>6 DEF HandOver, TakeJob
  <2>2. QED
    BY <1>0, <2>1
<1>7. ASSUME NEW w \in Workers, GiveUp(w), UNCHANGED netVars
      PROVE  Confirmations'
  <2>1. /\ wst[w] = "try" /\ wst'[w] = "finish"
        /\ \A v \in Workers : v # w => wst'[v] = wst[v] /\ wres'[v] = wres[v]
        /\ wres'[w] = Failed
        /\ UNCHANGED <<pc, acked, answer, chanVars, wwire, netVars>>
    BY <1>7 DEF GiveUp
  <2>2. QED
    BY <1>0, <2>1
<1>8. ASSUME NEW w \in Workers, CheckShutdown(w), UNCHANGED netVars
      PROVE  Confirmations'
  <2>1. /\ wst[w] = "finish" /\ wst'[w] \in {"stopped", "report"}
        /\ \A v \in Workers : v # w => wst'[v] = wst[v]
        /\ UNCHANGED <<pc, acked, answer, chanVars, wwire, wres, netVars>>
    BY <1>8 DEF CheckShutdown
  <2>2. QED
    BY <1>0, <2>1
<1>9. ASSUME NEW w \in Workers, PutResult(w), UNCHANGED netVars
      PROVE  Confirmations'
  <2>1. errs' # <<>> /\ errs'[1] = wres[w]
    BY <1>9, <1>a DEF PutResult
  <2>2. /\ wst[w] = "report" /\ wst'[w] = "idle"
        /\ \A v \in Workers :
              v # w => wst'[v] = wst[v] /\ wres'[v] = wres[v] /\ wwire'[v] = wwire[v]
        /\ UNCHANGED <<pc, acked, answer, queue, netVars>>
    BY <1>9 DEF PutResult, EndOfJob
  <2>3. QED
    BY <1>0, <2>1, <2>2
<1>10. ASSUME NEW w \in Workers, HandBack(w), UNCHANGED netVars
      PROVE  Confirmations'
  <2>1. /\ wst[w] = "report" /\ wst'[w] = "idle" /\ answer' = wres[w]
        /\ \A v \in Workers :
              v # w => wst'[v] = wst[v] /\ wres'[v] = wres[v] /\ wwire'[v] = wwire[v]
        /\ UNCHANGED <<acked, chanVars, netVars>>
    BY <1>10 DEF HandBack, EndOfJob, Receive
  <2>2. queue = <<>> /\ errs = <<>> /\ \A v \in Workers : ~Busy(v)'
    BY <1>a, <2>1
  <2>3. QED
    BY <1>0, <2>1, <2>2
<1>11. ASSUME NEW w \in Workers, Transmit(w)
      PROVE  Confirmations'
  <2>1. /\ wst[w] = "try" /\ wst'[w] = "call"
        /\ \A v \in Workers : v # w => wst'[v] = wst[v]
        /\ UNCHANGED <<pc, acked, answer, chanVars, wres, committed, unconfirmed>>
    BY <1>11 DEF Transmit, StartAttempt
  <2>2. QED
    BY <1>0, <2>1
<1>12. ASSUME NEW w \in Workers, Answered(w)
      PROVE  Confirmations'
  <2>1. /\ wst[w] = "call" /\ wst'[w] = "finish"
        /\ wres'[w].polls = wwire[w].polls
        /\ \A v \in Workers : v # w => wst'[v] = wst[v] /\ wres'[v] = wres[v]
        /\ UNCHANGED <<pc, acked, answer, chanVars, wwire, committed>>
    BY <1>12 DEF Answered, AttemptOk
  <2>2. unconfirmed' = unconfirmed - wwire[w].polls /\ unconfirmed' \in Nat
    BY <1>0, <1>12, AnsweredEffect
  <2>3. errs = <<>> /\ \A v \in Workers : v # w => ~Busy(v)
    BY <1>a, <2>1
  <2>4. pc = "reset" => answer.polls = 0
    BY <1>0, <2>1
  <2>5. Backed(0)' /\ Backed(wres[w].polls)'
    <3>1. wwire[w].polls \in Nat /\ acked' = acked /\ committed' = committed
      BY <2>1
    <3>2. acked + unconfirmed <= committed
      BY <1>0
    <3>3. /\ acked + unconfirmed' + wwire[w].polls <= committed
          /\ acked + unconfirmed' + 0 <= committed
      BY <2>2, <3>1, <3>2
    <3>4. QED
      BY <2>1, <3>1, <3>3
  <2>6. /\ errs' = <<>> /\ (pc' = "reset" => answer'.polls = 0)
        /\ \A v \in Workers : wst'[v] \in {"finish", "report"} => v = w
    BY <2>1, <2>3, <2>4
  <2>7. QED
    <3> HIDE DEF Backed
    <3>1. QED
      BY <2>5, <2>6
<1>13. ASSUME NEW w \in Workers, CallFails(w)
      PROVE  Confirmations'
  <2>1. /\ wst[w] = "call" /\ wst'[w] \in {"try", "finish"}
        /\ wst'[w] = "finish" => wres'[w] = Failed
        /\ \A v \in Workers : v # w => wst'[v] = wst[v] /\ wres'[v] = wres[v]
        /\ UNCHANGED <<pc, acked, answer, chanVars, wwire, committed, unconfirmed>>
    BY <1>13 DEF CallFails, AttemptRetried, AttemptFailed
  <2>2. QED
    BY <1>0, <2>1
<1>14. CASE AgentAside
  <2>1. CASE Poller \/ Signal \/ Interrupt
    BY <1>1, <1>14, <2>1 DEF AgentAside, Poller, PollBegin, PollEnd, PollKern, Signal, Interrupt
  <2>2. CASE Main
    BY <1>1, <1>2, <1>3, <1>4, <1>5, <1>6, <1>14, <2>2
       DEF AgentAside, Main, ParseRtm, ParseSys, ParseKern, Encode, EncodeFail,
           EnqueueCancelled, CheckDone, WakeUp
  <2>3. QED
    BY <1>6, <1>7, <1>8, <1>9, <1>10, <1>14, <2>1, <2>2 DEF AgentAside, WorkerAside
<1>15. QED
  BY <1>11, <1>12, <1>13, <1>14 DEF AgentStep

\* No step of the agent spends room twice: a report is made of polls that the
\* counter still holds, a failed one gives them back, and a lost answer moves its
\* polls to unconfirmed.
LEMMA CreditsStep ==
    ASSUME Inv, DInv, AgentStep
    PROVE  Credits'
<1>0. Credits /\ Requests
  BY DEF DInv
<1>a. /\ queue # <<>> => errs = <<>>
      /\ \A w \in Workers : Busy(w) => queue = <<>> /\ errs = <<>>
      /\ \A w, v \in Workers : Busy(w) /\ Busy(v) => w = v
      /\ queue # <<>> \/ errs # <<>> \/ (\E w \in Workers : Busy(w))
            => pc = "await" \/ pc \in {"reset", "check"} \/ ~Alive
  BY DEF Inv, Exclusive, Outstanding
<1>b. /\ pc = "enqueue" => job.polls <= pollCount
      /\ \A w \in Workers : wst[w] = "call" => wwire[w] = wjob[w]
  BY DEF Inv, Counting, Payload
<1>c. Alive
  BY DEF AgentStep
<1> USE Types DEF Credits, RoomForReport, RoomForCounter, RoomForRest, Requests,
            Unanswered, Room, Busy, Alive, Failed, MainPC, WorkerPC,
            mainVars, pollVars, netVars, storeVars, workerVars, chanVars
<1>1. CASE /\ UNCHANGED <<pollCount, rndGen, chanVars, workerVars, netVars>>
           /\ \/ pc' = pc
              \/ {pc, pc'} \cap {"await", "reset", "check"} = {}
              \/ pc' \in {"reset", "killed", "done"}
              \/ pc = "check" /\ ~ctxDone /\ pc' = "sleep"
           /\ ctxDone => ctxDone'
  BY <1>0, <1>c, <1>1
<1>2. CASE PollEnd /\ UNCHANGED netVars
  <2>1. /\ pollCount' = pollCount + 1 /\ rndGen' = rndGen + 1
        /\ UNCHANGED <<pc, ctxDone, chanVars, workerVars, netVars>>
    BY <1>2 DEF PollEnd
  <2>a. \A p \in Nat : Room(p) => committed' - unconfirmed' + p <= rndGen'
    BY <2>1
  <2>2. RoomForReport'
    BY <1>0, <2>1, <2>a
  <2>3. RoomForCounter'
    BY <1>0, <2>1
  <2>4. \A p \in Nat : Room(pollCount - p) => committed' - unconfirmed' + (pollCount' - p) <= rndGen'
    BY <2>1
  <2>5. Room(pollCount) => Room(pollCount)'
    BY <2>1
  <2>6. RoomForRest'
    <3>1. errs # <<>> => (pc = "await" => Room(pollCount - errs[1].polls)')
      BY <1>0, <2>1, <2>4
    <3>2. ASSUME NEW w \in Workers, pc = "await"
          PROVE  wst[w] \in {"finish", "report"} => Room(pollCount - wres[w].polls)'
      BY <1>0, <2>1, <2>4, <3>2
    <3>3. QED
      <4> HIDE DEF Room
      <4> QED BY <1>0, <2>1, <2>5, <3>1, <3>2
  <2>7. QED
    BY <2>2, <2>3, <2>6
<1>3. CASE Enqueue /\ UNCHANGED netVars
  <2>1. /\ pc = "enqueue" /\ pc' = "await" /\ queue' = Append(queue, job)
        /\ UNCHANGED <<pollCount, rndGen, errs, workerVars, netVars>>
    BY <1>3 DEF Enqueue
  <2>2. queue = <<>> /\ errs = <<>> /\ \A w \in Workers : ~Busy(w)
    BY <1>a, <1>c, <2>1
  <2>3. queue'[1] = job
    BY <2>1, <2>2
  <2>4. QED
    BY <1>0, <1>b, <2>1, <2>2, <2>3
<1>4. CASE EnqueueCancelled /\ UNCHANGED netVars
  <2>1. /\ pc = "enqueue" /\ pc' = "await"
        /\ UNCHANGED <<pollCount, rndGen, chanVars, workerVars, netVars>>
    BY <1>4 DEF EnqueueCancelled
  <2>2. queue = <<>> /\ errs = <<>> /\ \A w \in Workers : ~Busy(w)
    BY <1>a, <1>c, <2>1
  <2>3. QED
    BY <1>0, <2>1, <2>2
<1>5. CASE AwaitResult /\ UNCHANGED netVars
  <2>1. errs # <<>> /\ errs' = <<>> /\ Head(errs) = errs[1]
    BY <1>5, FirstOfSeq DEF AwaitResult
  <2>2. /\ pc = "await" /\ pc' = IF errs[1].ok THEN "reset" ELSE "parseRtm"
        /\ UNCHANGED <<pollCount, rndGen, queue, workerVars, netVars>>
    BY <1>5, <2>1 DEF AwaitResult, Receive
  <2>3. Room(pollCount - errs[1].polls) /\ (~errs[1].ok => errs[1].polls = 0)
    BY <1>0, <2>1, <2>2
  <2>4. QED
    BY <1>0, <2>1, <2>2, <2>3
<1>6. CASE Reset /\ UNCHANGED netVars
  <2>1. /\ pc' = "check" /\ pollCount' = 0
        /\ UNCHANGED <<rndGen, chanVars, workerVars, netVars>>
    BY <1>6 DEF Reset
  <2>2. QED
    BY <1>0, <2>1
<1>7. ASSUME NEW w \in Workers, HandOver(w), UNCHANGED netVars
      PROVE  Credits'
  <2>1. /\ pc = "enqueue" /\ pc' = "await"
        /\ wst'[w] = "try" /\ wjob'[w] = job
        /\ \A v \in Workers : v # w => wst'[v] = wst[v] /\ wjob'[v] = wjob[v]
        /\ UNCHANGED <<pollCount, rndGen, chanVars, wwire, wres, netVars>>
    BY <1>7 DEF HandOver
  <2>2. queue = <<>> /\ errs = <<>> /\ \A v \in Workers : ~Busy(v)
    BY <1>a, <1>c, <2>1
  <2>3. QED
    BY <1>0, <1>b, <2>1, <2>2
<1>8. ASSUME NEW w \in Workers, TakeJob(w), UNCHANGED netVars
      PROVE  Credits'
  <2>1. Head(queue) = queue[1] /\ queue # <<>> /\ queue' = <<>>
    BY <1>8, FirstOfSeq DEF TakeJob
  <2>2. /\ wst[w] = "idle" /\ wst'[w] = "try" /\ wjob'[w] = queue[1]
        /\ \A v \in Workers : v # w => wst'[v] = wst[v] /\ wjob'[v] = wjob[v]
        /\ UNCHANGED <<pc, ctxDone, pollCount, rndGen, errs, wwire, wres, netVars>>
    BY <1>8, <2>1 DEF TakeJob
  <2>3. QED
    BY <1>0, <2>1, <2>2
<1>9. ASSUME NEW w \in Workers, GiveUp(w), UNCHANGED netVars
      PROVE  Credits'
  <2>1. /\ wst[w] = "try" /\ wst'[w] = "finish" /\ wres'[w] = Failed
        /\ \A v \in Workers : v # w => wst'[v] = wst[v] /\ wres'[v] = wres[v]
        /\ UNCHANGED <<pc, ctxDone, pollCount, rndGen, chanVars, wjob, wwire, netVars>>
    BY <1>9 DEF GiveUp
  <2>2. wres'[w].polls = 0 /\ (pc = "await" => Room(pollCount))
    BY <1>0, <2>1
  <2>3. RoomForReport' /\ RoomForCounter'
    BY <1>0, <2>1
  <2>4. RoomForRest'
    BY <1>0, <2>1, <2>2
  <2>5. QED
    BY <2>3, <2>4
<1>10. ASSUME NEW w \in Workers, CheckShutdown(w), UNCHANGED netVars
      PROVE  Credits'
  <2>1. /\ wst[w] = "finish" /\ wst'[w] \in {"stopped", "report"}
        /\ \A v \in Workers : v # w => wst'[v] = wst[v]
        /\ UNCHANGED <<pc, ctxDone, pollCount, rndGen, chanVars, wjob, wwire, wres, netVars>>
    BY <1>10 DEF CheckShutdown
  <2>2. QED
    BY <1>0, <2>1
<1>11. ASSUME NEW w \in Workers, PutResult(w), UNCHANGED netVars
      PROVE  Credits'
  <2>1. errs' # <<>> /\ errs'[1] = wres[w]
    BY <1>11, <1>a DEF PutResult
  <2>2. /\ wst[w] = "report" /\ wst'[w] = "idle"
        /\ \A v \in Workers : v # w => /\ wst'[v] = wst[v] /\ wjob'[v] = wjob[v]
                                       /\ wres'[v] = wres[v] /\ wwire'[v] = wwire[v]
        /\ UNCHANGED <<pc, ctxDone, pollCount, rndGen, queue, netVars>>
    BY <1>11 DEF PutResult, EndOfJob
  <2>3. QED
    BY <1>0, <2>1, <2>2
<1>12. ASSUME NEW w \in Workers, HandBack(w), UNCHANGED netVars
      PROVE  Credits'
  <2>1. /\ wst[w] = "report" /\ wst'[w] = "idle"
        /\ pc = "await" /\ pc' = IF wres[w].ok THEN "reset" ELSE "parseRtm"
        /\ \A v \in Workers : v # w => wst'[v] = wst[v]
        /\ UNCHANGED <<ctxDone, pollCount, rndGen, chanVars, netVars>>
    BY <1>12 DEF HandBack, EndOfJob, Receive
  <2>2. queue = <<>> /\ errs = <<>> /\ \A v \in Workers : ~Busy(v)'
    BY <1>a, <2>1
  <2>3. Room(pollCount - wres[w].polls) /\ (~wres[w].ok => wres[w].polls = 0)
    BY <1>0, <2>1
  <2>4. QED
    BY <1>0, <2>1, <2>2, <2>3
<1>13. ASSUME NEW w \in Workers, Transmit(w)
      PROVE  Credits'
  <2>1. /\ wst[w] = "try" /\ wst'[w] = "call"
        /\ \A v \in Workers : v # w => wst'[v] = wst[v]
        /\ UNCHANGED <<pc, ctxDone, pollCount, rndGen, chanVars, wjob, wres, committed,
                       unconfirmed>>
    BY <1>13 DEF Transmit, StartAttempt
  <2>2. QED
    BY <1>0, <2>1
<1>14. ASSUME NEW w \in Workers, Answered(w)
      PROVE  Credits'
  <2>1. /\ wst[w] = "call" /\ wst'[w] = "finish"
        /\ wres'[w].polls = wwire[w].polls
        /\ \A v \in Workers : v # w => wst'[v] = wst[v] /\ wres'[v] = wres[v]
        /\ UNCHANGED <<pc, ctxDone, pollCount, rndGen, chanVars, wjob, wwire, committed>>
    BY <1>14 DEF Answered, AttemptOk
  <2>2. queue = <<>> /\ errs = <<>> /\ \A v \in Workers : v # w => ~Busy(v)
    BY <1>a, <2>1
  <2>3. PICK g \in Nat : /\ unconfirmed' = unconfirmed - g
                         /\ g \in {0, wwire[w].polls} /\ unconfirmed' \in Nat
    <3>1. CASE req[w].st = "stored"
      BY <1>14, <3>1, AnsweredEffect
    <3>2. CASE req[w].st = "unstored"
      <4>1. unconfirmed' = unconfirmed - 0 /\ 0 \in Nat
        BY <1>14, <3>2, AnsweredEffect
      <4>2. QED
        BY <1>14, <4>1, AnsweredEffect
    <3>3. QED
      BY <1>14, <3>1, <3>2, AnsweredEffect
  <2>4. /\ Room(wwire[w].polls) /\ Room(0)
        /\ pc = "await" => Room(pollCount)
    BY <1>0, <1>b, <2>1
  <2>5. /\ committed' - unconfirmed' = committed - unconfirmed + g
        /\ g <= wwire[w].polls
    BY <2>1, <2>3
  <2>6. /\ Room(0)'
        /\ pc = "await" => Room(pollCount - wres[w].polls)'
    <3>1. wwire[w].polls \in Nat
      OBVIOUS
    <3>2. Room(0)'
      BY <2>1, <2>4, <2>5, <3>1
    <3>3. pc = "await" => Room(pollCount - wres[w].polls)'
      BY <2>1, <2>4, <2>5, <3>1
    <3>4. QED
      BY <3>2, <3>3
  <2>7. /\ wst'[w] = "finish"
        /\ \A v \in Workers : v # w => wst'[v] \notin {"try", "call", "finish", "report"}
    BY <2>1, <2>2
  <2>8. RoomForReport' /\ RoomForRest'
    <3> HIDE DEF Room
    <3>1. QED
      BY <2>1, <2>2, <2>6, <2>7
  <2>9. RoomForCounter'
    BY <2>1 DEF Inv, Exclusive, Outstanding
  <2>10. QED
    BY <2>8, <2>9
<1>15. ASSUME NEW w \in Workers, CallFails(w)
      PROVE  Credits'
  <2>1. /\ wst[w] = "call" /\ wst'[w] \in {"try", "finish"}
        /\ wst'[w] = "finish" => wres'[w] = Failed
        /\ \A v \in Workers : v # w => wst'[v] = wst[v] /\ wres'[v] = wres[v]
        /\ UNCHANGED <<pc, ctxDone, pollCount, rndGen, chanVars, wjob, wwire, committed,
                       unconfirmed>>
    BY <1>15 DEF CallFails, AttemptRetried, AttemptFailed
  <2>2. pc = "await" => Room(pollCount) /\ Room(pollCount - 0)
    BY <1>0, <2>1
  <2>3. RoomForReport' /\ RoomForCounter'
    BY <1>0, <2>1
  <2>4. RoomForRest'
    BY <1>0, <2>1, <2>2
  <2>5. QED
    BY <2>3, <2>4
<1>16. CASE AgentAside
  <2>1. CASE Poller \/ Signal \/ Interrupt
    BY <1>1, <1>2, <1>16, <2>1 DEF AgentAside, Poller, PollBegin, PollKern, Signal, Interrupt
  <2>2. CASE Main
    <3>1. CASE ParseRtm \/ ParseSys \/ ParseKern \/ Encode \/ EncodeFail
      BY <1>1, <1>16, <3>1 DEF AgentAside, ParseRtm, ParseSys, ParseKern, Encode, EncodeFail
    <3>2. CASE AwaitCancelled \/ CheckDone \/ WakeUp
      BY <1>1, <1>16, <3>2 DEF AgentAside, AwaitCancelled, CheckDone, WakeUp
    <3>3. QED
      BY <1>3, <1>4, <1>5, <1>6, <1>7, <1>16, <2>2, <3>1, <3>2 DEF AgentAside, Main
  <2>3. QED
    BY <1>8, <1>9, <1>10, <1>11, <1>12, <1>16, <2>1, <2>2 DEF AgentAside, WorkerAside
<1>17. QED
  BY <1>13, <1>14, <1>15, <1>16 DEF AgentStep

\* The ledger and the counter do not move but when an answer arrives, and then
\* only what it confirms is taken off the unconfirmed polls.
LEMMA LedgerStep ==
    ASSUME Inv, DInv, AgentStep
    PROVE  Booked' /\ Counter' /\ Snapshots'
<1>0. Booked /\ Counter /\ Snapshots /\ Requests
  BY DEF DInv
<1>t. /\ committed \in Nat /\ unconfirmed \in Nat
      /\ req \in [Workers \cup Late -> Request]
      /\ \A w \in Workers : wwire[w].polls \in Nat
  BY Types
<1>r. NoRequest.seen.delta = 0 /\ NoRequest.commits = 0 /\ NoRequest.st = "none" /\ NoRow.delta = 0
  BY DEF NoRequest, NoRow
<1>1. CASE UNCHANGED netVars
  BY <1>0, <1>1 DEF Booked, Counter, Snapshots, netVars, storeVars
<1>2. ASSUME NEW w \in Workers, Transmit(w)
      PROVE  Booked' /\ Counter' /\ Snapshots'
  <2>1. Booked'
    BY <1>0, <1>2, TransmitEffect DEF Booked, storeVars
  <2>2. Counter' /\ Snapshots'
    BY <1>0, <1>2, <1>r, <1>t, TransmitEffect DEF Counter, Snapshots, storeVars
  <2>3. QED
    BY <2>1, <2>2
<1>3. ASSUME NEW w \in Workers, Answered(w)
      PROVE  Booked' /\ Counter' /\ Snapshots'
  <2>1. wst[w] = "call"
    BY <1>3 DEF Answered, AttemptOk
  <2>2. \A v \in Workers : v # w => req[v].st = "none"
    BY <1>0, <2>1 DEF Requests, Inv, Exclusive, Busy
  <2>3. \A v \in Workers : v # w => req[v].commits = 0
    BY <1>0, <2>2 DEF Booked
  <2>4. Booked'
    BY <1>3, <1>r, <2>2, <2>3, AnsweredEffect DEF Booked
  <2>5. Counter' /\ Snapshots'
    BY <1>0, <1>3, <1>r, <1>t, AnsweredEffect DEF Counter, Snapshots
  <2>6. QED
    BY <2>4, <2>5
<1>4. ASSUME NEW w \in Workers, CallFails(w)
      PROVE  Booked' /\ Counter' /\ Snapshots'
  <2>1. Booked'
    BY <1>0, <1>4, <1>r, CallFailsEffect DEF Booked, storeVars
  <2>2. Counter' /\ Snapshots'
    BY <1>0, <1>4, <1>r, <1>t, CallFailsEffect DEF Counter, Snapshots, storeVars
  <2>3. QED
    BY <2>1, <2>2
<1>5. QED
  BY <1>1, <1>2, <1>3, <1>4 DEF AgentStep, AgentAside

LEMMA DTypeStep ==
    ASSUME Inv, DInv, AgentStep
    PROVE  DTypeOK'
<1>0. DTypeOK
  BY DEF DInv
<1>1. (\A w \in Workers : Alive => (req[w].st # "none" <=> wst[w] = "call"))'
  BY RequestsStep DEF Requests
<1>2. CASE UNCHANGED netVars
  BY <1>0, <1>1, <1>2 DEF DTypeOK, netVars, storeVars
<1>3. ASSUME NEW w \in Workers, Transmit(w) \/ Answered(w) \/ CallFails(w)
      PROVE  DTypeOK'
  BY <1>0, <1>1, <1>3, TransmitEffect, AnsweredEffect, CallFailsEffect DEF DTypeOK, storeVars
<1>4. QED
  BY <1>2, <1>3 DEF AgentStep, AgentAside

-----------------------------------------------------------------------------
(* The server's steps.                                                      *)

\* No step of the server moves the agent, or the balance of committed and
\* unconfirmed polls: what is backed stays backed, what has room keeps it.
LEMMA BalanceKept ==
    ASSUME Inv, DInv, UNCHANGED vars, NEW d \in Nat,
           committed' = committed + d, unconfirmed' = unconfirmed + d
    PROVE  Credits' /\ (~Grpc => Confirmations')
<1>0. Credits /\ (~Grpc => Confirmations)
  BY DEF DInv
<1>t. /\ committed \in Nat /\ unconfirmed \in Nat /\ acked \in Nat /\ pollCount \in Nat
      /\ rndGen \in Nat /\ answer.polls \in Nat
      /\ queue # <<>> => queue[1].polls \in Nat
      /\ errs # <<>> => errs[1].polls \in Nat
      /\ \A w \in Workers : wjob[w].polls \in Nat /\ wres[w].polls \in Nat
  BY Types
<1>1. UNCHANGED <<acked, pc, pollCount, rndGen, answer, ctxDone, queue, errs,
                  wst, wjob, wwire, wres>>
  BY DEF vars, mainVars, pollVars, chanVars, workerVars
<1>2. \A p \in Int : Room(p) <=> committed' - unconfirmed' + p <= rndGen
  BY <1>t DEF Room
<1>3. \A p \in Nat : Backed(p) => acked' + unconfirmed' + p <= committed'
  BY <1>t, <1>1 DEF Backed
<1>4. RoomForReport'
  BY <1>t, <1>0, <1>1, <1>2 DEF Credits, RoomForReport, Room, Unanswered
<1>5. RoomForCounter'
  BY <1>t, <1>0, <1>1, <1>2 DEF Credits, RoomForCounter, Room, Alive
<1>6. RoomForRest'
  BY <1>t, <1>0, <1>1, <1>2 DEF Credits, RoomForRest, Room, Unanswered
<1>7. Confirmations => Confirmations'
  BY <1>t, <1>1, <1>3 DEF Confirmations, Backed, Busy
<1>8. QED
  BY <1>0, <1>4, <1>5, <1>6, <1>7 DEF Credits

\* What an upsert makes of a row: at most the polls committed in all, and exactly
\* them if the snapshot was the row.
LEMMA UpsertEffect ==
    ASSUME NEW r \in Row, NEW seen \in Row, NEW p \in Nat, NEW c \in Nat,
           r.delta <= c, seen.delta <= c, r.kind # "value" => r.delta = 0
    PROVE  /\ Upsert(r, seen, p) \in Row
           /\ Upsert(r, seen, p).delta <= c + p
           /\ Upsert(r, seen, p).kind # "value" => Upsert(r, seen, p).delta = 0
           /\ seen = r /\ r.kind # "null" /\ r.delta = c =>
                 /\ Upsert(r, seen, p).delta = c + p
                 /\ Upsert(r, seen, p).kind = "value"
<1>1. /\ r.delta \in Nat /\ seen.delta \in Nat
      /\ r.kind \in {"none", "value", "null"} /\ seen.kind \in {"none", "value", "null"}
      /\ r = [kind |-> r.kind, delta |-> r.delta]
  BY DEF Row
<1>2. CASE r = NoRow
  <2>1. Upsert(r, seen, p) = [kind |-> "value", delta |-> p] /\ r.delta = 0
    BY <1>2 DEF Upsert, NoRow
  <2>2. QED
    BY <1>1, <2>1 DEF Row
<1>3. CASE r # NoRow /\ seen.kind = "value"
  <2>1. Upsert(r, seen, p) = [kind |-> "value", delta |-> seen.delta + p]
    BY <1>3 DEF Upsert
  <2>2. QED
    BY <1>1, <2>1 DEF Row
<1>4. CASE r # NoRow /\ seen.kind # "value"
  <2>1. Upsert(r, seen, p) = [kind |-> "null", delta |-> 0]
    BY <1>4 DEF Upsert
  <2>2. seen = r => r.kind = "null"
    BY <1>1, <1>4 DEF NoRow
  <2>3. QED
    BY <1>1, <2>1, <2>2 DEF Row
<1>5. QED
  BY <1>2, <1>3, <1>4

\* A commit, in memory or of a statement with its snapshot, keeps the invariant.
LEMMA StoreStep ==
    ASSUME Inv, DInv, NEW x \in Workers \cup Late, NEW sn \in Row,
           req[x].st \in Handling, sn.delta <= committed,
           sn # row => Postgres /\ Late # {}, Store(x, sn)
    PROVE  DInv'
<1>0. DTypeOK /\ Requests /\ Booked /\ Counter /\ Snapshots
  BY DEF DInv
<1>t. /\ committed \in Nat /\ unconfirmed \in Nat /\ row \in Row /\ raced \in BOOLEAN
      /\ req \in [Workers \cup Late -> Request]
  BY <1>0 DEF DTypeOK
<1>1. req[x].polls \in Nat /\ req[x].commits \in Nat /\ NoRow \in Row
  BY <1>t DEF Request, Row, NoRow
<1> DEFINE p == req[x].polls
<1>2. /\ committed' = committed + p /\ unconfirmed' = unconfirmed + p
      /\ row' = Upsert(row, sn, p) /\ raced' = (raced \/ sn # row)
      /\ UNCHANGED vars
  BY DEF Store
<1>3. /\ req'[x] = [req[x] EXCEPT !.st = "committed", !.seen = NoRow, !.commits = @ + 1]
      /\ \A y \in Workers \cup Late : y # x => req'[y] = req[y]
      /\ req' \in [Workers \cup Late -> Request]
  BY <1>t, <1>1 DEF Store, Request, Handling
<1>4. /\ req'[x].st = "committed" /\ req'[x].seen = NoRow /\ req'[x].polls = p
      /\ req'[x].commits = req[x].commits + 1
  BY <1>t, <1>3 DEF Request
<1>5. UNCHANGED <<wst, wwire, wres, errs, pc>>
  BY <1>2 DEF vars, mainVars, pollVars, chanVars, workerVars
<1>6. Requests'
  <2>1. x \in Workers => /\ wst[x] = "call" /\ p = wwire[x].polls
    BY <1>0 DEF Requests, Handling
  <2> HIDE DEF p
  <2>2. ASSUME NEW w \in Workers
        PROVE  /\ req'[w].st # "none" <=> wst[w] = "call"
               /\ req'[w].st # "none" => req'[w].polls = wwire[w].polls
               /\ ~Grpc => req'[w].st # "unstored"
    BY <1>0, <1>3, <1>4, <2>1 DEF Requests
  <2>3. QED
    BY <1>0, <1>5, <2>2 DEF Requests
<1>7. DTypeOK'
  <2>1. row' \in Row
    BY <1>0, <1>1, <1>2, <1>t, UpsertEffect DEF Counter
  <2>2. committed' \in Nat /\ unconfirmed' \in Nat /\ raced' \in BOOLEAN
    BY <1>1, <1>2, <1>t
  <2>3. QED
    BY <1>3, <1>6, <2>1, <2>2 DEF DTypeOK, Requests
<1>8. Booked'
  <2>1. ASSUME NEW w \in Workers, w # x
        PROVE  (req[w].commits > 0 \/ req[w].st = "stored" => req[w].polls <= unconfirmed')
    <3>1. req[w].polls \in Nat
      BY <1>t DEF Request
    <3>2. QED
      BY <1>0, <1>1, <1>2, <1>t, <3>1 DEF Booked
  <2>2. p <= unconfirmed' /\ req[x].commits + 1 > 0
    BY <1>1, <1>2, <1>t
  <2>3. QED
    BY <1>0, <1>3, <1>4, <2>1, <2>2 DEF Booked
<1>9. Counter'
  <2> DEFINE u == Upsert(row, sn, p)
  <2>1. /\ u.delta <= committed + p /\ (u.kind # "value" => u.delta = 0)
        /\ sn = row /\ row.kind # "null" /\ row.delta = committed =>
              u.delta = committed + p /\ u.kind = "value"
    BY <1>0, <1>1, <1>t, UpsertEffect DEF Counter
  <2>2. ~raced' => sn = row /\ row.kind # "null" /\ row.delta = committed
    BY <1>0, <1>2 DEF Counter
  <2> HIDE DEF u, p
  <2>3. row' = u /\ committed' = committed + p
    BY <1>2 DEF u
  <2>4. QED
    BY <2>1, <2>2, <2>3 DEF Counter
<1>s. Snapshots'
  <2>1. raced' => Postgres /\ Late # {}
    BY <1>0, <1>2 DEF Snapshots
  <2>2. req'[x].seen.delta <= committed' /\ req'[x].st # "statement"
    BY <1>1, <1>2, <1>4, <1>t DEF NoRow
  <2>3. ASSUME NEW y \in Workers \cup Late, y # x
        PROVE  /\ req[y].seen.delta <= committed'
               /\ req[y].st = "statement" => Postgres /\ Late # {}
    <3>1. req[y].seen.delta \in Nat
      BY <1>t DEF Request, Row
    <3>2. req[y].seen.delta <= committed'
      BY <1>0, <1>1, <1>2, <1>t, <3>1 DEF Snapshots
    <3>3. ASSUME Late = {}, req[y].st = "statement"
          PROVE  FALSE
      <4>1. wst[x] = "call" /\ wst[y] = "call" /\ x \in Workers /\ y \in Workers
        BY <1>0, <3>3 DEF Requests, Handling
      <4>2. QED
        BY <2>3, <4>1 DEF Inv, Exclusive, Busy
    <3>4. QED
      BY <1>0, <3>2, <3>3 DEF Snapshots
  <2>4. QED
    BY <1>3, <2>1, <2>2, <2>3 DEF Snapshots
<1>10. Credits' /\ (~Grpc => Confirmations')
  BY <1>1, <1>2, BalanceKept
<1>11. QED
  BY <1>6, <1>7, <1>8, <1>9, <1>s, <1>10 DEF DInv

\* The other steps of the server change one request and nothing else.
LEMMA HandlingStep ==
    ASSUME Inv, DInv, NEW x \in Workers \cup Late, NEW r \in Request,
           UNCHANGED <<vars, storeVars>>, req' = [req EXCEPT ![x] = r],
           req[x].st \in Handling, r.seen.delta <= committed,
           x \in Workers => /\ r.st # "none" /\ r.polls = req[x].polls
                            /\ ~Grpc => r.st # "unstored"
                            /\ r.commits > 0 \/ r.st = "stored" => req[x].commits > 0
                            /\ r.st \notin {"sent", "committed"},
           r.st = "statement" => Postgres /\ r.seen = row
    PROVE  DInv'
<1>0. DTypeOK /\ Requests /\ Booked /\ Counter /\ Snapshots
  BY DEF DInv
<1>t. /\ committed \in Nat /\ unconfirmed \in Nat
      /\ req \in [Workers \cup Late -> Request]
  BY <1>0 DEF DTypeOK
<1>1. /\ req'[x] = r /\ (\A y \in Workers \cup Late : y # x => req'[y] = req[y])
      /\ req' \in [Workers \cup Late -> Request]
  BY <1>t
<1>2. UNCHANGED <<wst, wwire, wres, errs, pc, row, committed, unconfirmed, raced>>
  BY DEF vars, mainVars, pollVars, chanVars, workerVars, storeVars
<1>3. Requests'
  BY <1>0, <1>1, <1>2 DEF Requests, Handling
<1>4. DTypeOK'
  BY <1>0, <1>1, <1>2, <1>3 DEF DTypeOK, Requests
<1>5. Booked'
  BY <1>0, <1>1, <1>2 DEF Booked
<1>6. Counter' /\ Snapshots'
  BY <1>0, <1>1, <1>2 DEF Counter, Snapshots
<1>7. Credits' /\ (~Grpc => Confirmations')
  <2>1. committed' = committed + 0 /\ unconfirmed' = unconfirmed + 0
    BY <1>2, <1>t
  <2>2. QED
    BY <2>1, BalanceKept
<1>8. QED
  BY <1>3, <1>4, <1>5, <1>6, <1>7 DEF DInv

LEMMA ServerStepInv ==
    ASSUME Inv, DInv, NEW x \in Workers \cup Late,
           \/ StartStatement(x) \/ WriteBatch(x)
           \/ Return(x, TRUE) \/ Return(x, FALSE) \/ Refuse(x)
    PROVE  DInv'
<1>0. DTypeOK /\ Requests /\ Booked /\ Counter /\ Snapshots
  BY DEF DInv
<1>t. /\ committed \in Nat /\ row \in Row /\ req \in [Workers \cup Late -> Request]
      /\ req[x] \in Request /\ req[x].polls \in Nat /\ req[x].seen \in Row
      /\ req[x].commits \in Nat /\ NoRow.delta = 0 /\ NoRow \in Row
  BY <1>0 DEF DTypeOK, Request, Row, NoRow
<1>1. CASE WriteBatch(x) /\ ~Postgres
  BY <1>0, <1>1, <1>t, StoreStep DEF WriteBatch, Handling, Counter
<1>2. CASE WriteBatch(x) /\ Postgres
  <2>1. req[x].st = "statement" /\ Store(x, req[x].seen)
    BY <1>2 DEF WriteBatch
  <2>2. req[x].seen # row => Late # {}
    BY <1>0, <2>1 DEF Snapshots
  <2>3. req[x].seen # row => Postgres
    BY <1>0, <2>1 DEF Snapshots
  <2>4. QED
    BY <1>0, <1>t, <2>1, <2>2, <2>3, StoreStep DEF Snapshots, Handling
<1>3. CASE StartStatement(x)
  <2> DEFINE r == [req[x] EXCEPT !.st = "statement", !.seen = row]
  <2>1. /\ r \in Request /\ r.st = "statement" /\ r.seen = row
        /\ r.polls = req[x].polls /\ r.commits = req[x].commits
    BY <1>t DEF Request, Handling
  <2>2. /\ req' = [req EXCEPT ![x] = r] /\ req[x].st \in Handling /\ Postgres
        /\ UNCHANGED <<vars, storeVars>>
    BY <1>3, <1>t DEF StartStatement
  <2>3. row.delta <= committed
    BY <1>0 DEF Counter
  <2> HIDE DEF r
  <2>4. QED
    BY <2>1, <2>2, <2>3, HandlingStep
<1>4. ASSUME NEW ok \in BOOLEAN, Return(x, ok)
      PROVE  DInv'
  <2> DEFINE r == IF x \in Late THEN NoRequest
                  ELSE [NoRequest EXCEPT !.st = Answer(req[x], ok), !.polls = req[x].polls]
  <2>1. /\ Answer(req[x], ok) \in {"stored", "unstored", "error"}
        /\ Answer(req[x], ok) = "stored" => req[x].commits > 0
    BY <1>t DEF Answer
  <2>2. x \in Workers => (~Grpc => Answer(req[x], ok) # "unstored")
    BY <1>0, <1>4 DEF Answer, Return, Booked
  <2>3. /\ r \in Request /\ r.seen = NoRow /\ r.commits = 0 /\ r.st # "statement"
        /\ x \in Workers => r.st = Answer(req[x], ok) /\ r.polls = req[x].polls
    BY <1>t, <2>1, DeliveryAssumption DEF Request, NoRequest, Handling
  <2>4. /\ req' = [req EXCEPT ![x] = r] /\ req[x].st \in Handling
        /\ UNCHANGED <<vars, storeVars>>
    BY <1>4 DEF Return
  <2> HIDE DEF r
  <2>5. /\ r.seen.delta <= committed
        /\ x \in Workers => /\ r.st # "none" /\ r.polls = req[x].polls
                            /\ ~Grpc => r.st # "unstored"
                            /\ r.commits > 0 \/ r.st = "stored" => req[x].commits > 0
                            /\ r.st \notin {"sent", "committed"}
        /\ r.st = "statement" => Postgres /\ r.seen = row
    BY <1>t, <2>1, <2>2, <2>3
  <2>6. QED
    BY <2>3, <2>4, <2>5, HandlingStep
<1>5. CASE Refuse(x)
  <2> DEFINE r == IF x \in Late THEN NoRequest
                  ELSE [NoRequest EXCEPT !.st = "error", !.polls = req[x].polls]
  <2>1. /\ r \in Request /\ r.seen = NoRow /\ r.commits = 0 /\ r.st # "statement"
        /\ x \in Workers => r.st = "error" /\ r.polls = req[x].polls
    BY <1>t, DeliveryAssumption DEF Request, NoRequest, Handling
  <2>2. /\ req' = [req EXCEPT ![x] = r] /\ req[x].st \in Handling
        /\ UNCHANGED <<vars, storeVars>>
    BY <1>5 DEF Refuse, Handling
  <2> HIDE DEF r
  <2>3. /\ r.seen.delta <= committed
        /\ x \in Workers => /\ r.st # "none" /\ r.polls = req[x].polls
                            /\ ~Grpc => r.st # "unstored"
                            /\ r.commits > 0 \/ r.st = "stored" => req[x].commits > 0
                            /\ r.st \notin {"sent", "committed"}
        /\ r.st = "statement" => Postgres /\ r.seen = row
    BY <1>t, <2>1
  <2>4. QED
    BY <2>1, <2>2, <2>3, HandlingStep
<1>6. QED
  BY <1>1, <1>2, <1>3, <1>4, <1>5

-----------------------------------------------------------------------------
(* The theorems.                                                            *)

LEMMA DInitInv == DInit => DInv
<1> SUFFICES ASSUME DInit PROVE DInv
  OBVIOUS
<1>0. /\ acked = 0 /\ pollCount = 0 /\ rndGen = 0 /\ committed = 0 /\ unconfirmed = 0
      /\ pc = "parseRtm" /\ queue = <<>> /\ errs = <<>> /\ row = NoRow /\ raced = FALSE
      /\ \A w \in Workers : wst[w] = "idle" /\ wres[w] = Failed
      /\ \A x \in Workers \cup Late : /\ req[x].st = "none" /\ req[x].seen.delta = 0
                                      /\ req[x].commits = 0
      /\ req \in [Workers \cup Late -> Request]
  BY DEF DInit, Init, Request, NoRequest, Handling, NoRow, Row
<1>1. DTypeOK
  BY <1>0 DEF DTypeOK, Row, NoRow
<1>2. Requests /\ Booked
  BY <1>0 DEF Requests, Booked, Failed
<1>3. Counter /\ Snapshots
  BY <1>0 DEF Counter, Snapshots, NoRow
<1>4. Credits
  BY <1>0 DEF Credits, RoomForReport, RoomForCounter, RoomForRest, Room, Unanswered
<1>5. Confirmations
  BY <1>0 DEF Confirmations, Backed
<1>6. QED
  BY <1>1, <1>2, <1>3, <1>4, <1>5 DEF DInv

LEMMA DNextInv ==
    ASSUME Inv, DInv, [DNext]_dvars
    PROVE  DInv'
<1>1. CASE AgentStep
  BY <1>1, RequestsStep, LedgerStep, ConfirmationsStep, CreditsStep, DTypeStep DEF DInv
<1>2. CASE ServerStep
  BY <1>2, ServerStepInv DEF ServerStep
<1>3. CASE UNCHANGED dvars
  BY <1>3 DEF dvars, vars, mainVars, pollVars, chanVars, workerVars, netVars, storeVars, DInv,
       DTypeOK, Requests, Booked, Counter, Snapshots, Credits, RoomForReport, RoomForCounter,
       RoomForRest, Room, Unanswered, Alive, Confirmations, Backed, Busy
<1>4. QED
  BY <1>1, <1>2, <1>3 DEF DNext, Ended, Exited, dvars

\* Agent's invariant and DInv hold in the composed system over either transport
\* and with either store, with any retries, late requests, lost answers, repeated
\* commits and statements that race.
THEOREM DeliveryInvariant == DSpec => [](Inv /\ DInv)
<1>1. DSpec => []Inv
  BY DeliveryImplementsAgent, AgentInvariant, PTL
<1>2. DInit => DInv
  BY DInitInv
<1>3. Inv /\ DInv /\ [DNext]_dvars => DInv'
  BY DNextInv
<1>4. QED
  BY <1>1, <1>2, <1>3, PTL DEF DSpec

\* Types, and a request for every call in flight.
THEOREM DTypeCorrect == DSpec => []DTypeOK
<1>1. DInv => DTypeOK
  BY DEF DInv
<1>2. QED
  BY <1>1, DeliveryInvariant, PTL

\* Over HTTP the polls an agent saw confirmed are in the server's counter, unless
\* a statement of PostgreSQL met a row its snapshot did not have.
THEOREM ConfirmationsAreStored ==
    ASSUME ~Grpc
    PROVE  DSpec => []ConfirmedIsStored
<1>1. Inv /\ DInv => ConfirmedIsStored
  BY Types DEF DInv, DTypeOK, Counter, Confirmations, Backed, ConfirmedIsStored, NothingLost
<1>2. QED
  BY <1>1, DeliveryInvariant, PTL

\* They are there without that condition with the store in memory, and with
\* PostgreSQL if no request is handled beyond the end of its call.
THEOREM NothingLostWithoutLateRequests ==
    ASSUME ~Grpc, ~Postgres \/ Late = {}
    PROVE  DSpec => []NothingLost
<1>1. Inv /\ DInv => NothingLost
  BY Types DEF DInv, DTypeOK, Counter, Snapshots, Confirmations, Backed, NothingLost
<1>2. QED
  BY <1>1, DeliveryInvariant, PTL

\* Over either transport the confirmed commits count no poll twice.
THEOREM ConfirmedCountOnce == DSpec => []CountedOnceIfConfirmed
<1>1. Inv /\ DInv => CountedOnceIfConfirmed
  <2> SUFFICES ASSUME Inv, DInv PROVE CountedOnceIfConfirmed
    OBVIOUS
  <2>1. row.delta \in Nat
    BY DEF DInv, DTypeOK, Row
  <2>2. QED
    BY <2>1, Types DEF DInv, Counter, Credits, RoomForReport, Room, CountedOnceIfConfirmed
<1>2. QED
  BY <1>1, DeliveryInvariant, PTL

=============================================================================
