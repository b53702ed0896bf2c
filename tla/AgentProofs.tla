---------------------------- MODULE AgentProofs ----------------------------
(***************************************************************************)
(* Proofs that Agent keeps its safety properties for every pool of workers,*)
(* every RateLimit, either transport and any number of polls.              *)
(*                                                                         *)
(* The invariant Inv of module Agent is inductive. Its parts are proved one*)
(* lemma each, in the order in which they lean on each other: Exclusive    *)
(* needs only the types; Payload, Counting and Coherence need Exclusive.   *)
(***************************************************************************)
EXTENDS Agent, FiniteSetTheorems, SequenceTheorems, TLAPS

\* What is at the front of a channel, and what is left of a channel of one.
LEMMA FirstOfSeq ==
    ASSUME NEW S, NEW s \in Seq(S), s # <<>>
    PROVE  /\ Head(s) \in S /\ Tail(s) \in Seq(S)
           /\ s[1] = Head(s) /\ s[1] \in S
           /\ Len(s) <= 1 => Tail(s) = <<>>
<1>1. Head(s) \in S /\ Tail(s) \in Seq(S) /\ Len(Tail(s)) = Len(s) - 1
  BY HeadTailProperties
<1>2. s[1] = Head(s)
  OBVIOUS
<1>3. Len(s) \in Nat \ {0}
  BY EmptySeq
<1>4. Len(s) <= 1 => Len(Tail(s)) = 0
  BY <1>1, <1>3
<1>5. Len(Tail(s)) = 0 => Tail(s) = <<>>
  BY <1>1, EmptySeq
<1>6. QED
  BY <1>1, <1>2, <1>4, <1>5

\* Every step keeps the types, the attempt count within HttpAttempts included.
LEMMA TypeStep ==
    ASSUME TypeOK, Alive, Step
    PROVE  TypeOK'
<1> USE AgentAssumption
    DEF TypeOK, PollTypeOK, MainTypeOK, ChanTypeOK, WorkerTypeOK, HttpAttempts,
        GrpcAttempts, Attempts, Body, Alive, Busy, Report, NoReport, Outcome,
        Failed, MainPC, WorkerPC, mainVars, pollVars, chanVars, workerVars
<1>1. CASE PollBegin
  <2> HIDE DEF Report, Outcome, MainPC, WorkerPC, HttpAttempts
  <2>1. PollTypeOK'
    <3> HIDE DEF MainTypeOK, ChanTypeOK, WorkerTypeOK
    <3> QED BY <1>1 DEF PollBegin
  <2>2. MainTypeOK' /\ ChanTypeOK' /\ WorkerTypeOK'
    BY <1>1 DEF PollBegin
  <2> QED BY <2>1, <2>2
<1>2. CASE PollEnd
  <2> HIDE DEF Report, Outcome, MainPC, WorkerPC, HttpAttempts
  <2>1. PollTypeOK'
    <3> HIDE DEF MainTypeOK, ChanTypeOK, WorkerTypeOK
    <3> QED BY <1>2 DEF PollEnd
  <2>2. MainTypeOK' /\ ChanTypeOK' /\ WorkerTypeOK'
    BY <1>2 DEF PollEnd
  <2> QED BY <2>1, <2>2
<1>3. CASE PollKern
  BY <1>3 DEF PollKern
<1>4. CASE ParseRtm
  BY <1>4 DEF ParseRtm
<1>5. CASE ParseSys
  <2>1. batch.polls + pollCount \in Nat
    BY <1>5
  <2>2. batch' \in Report
    BY <1>5, <2>1 DEF ParseSys
  <2>3. QED
    BY <1>5, <2>2 DEF ParseSys
<1>6. CASE ParseKern
  BY <1>6 DEF ParseKern
<1>7. CASE Encode
  BY <1>7 DEF Encode, EncodeProto, EncodeJSON
<1>8. CASE EncodeFail
  BY <1>8 DEF EncodeFail
<1>9. CASE Enqueue
  <2> HIDE DEF Report, Outcome, WorkerPC, HttpAttempts
  <2>1. queue' \in Seq(Report)
    <3>1. Append(queue, job) \in Seq(Report)
      BY AppendProperties
    <3> QED BY <1>9, <3>1 DEF Enqueue
  <2>2. pc' \in MainPC
    BY <1>9 DEF Enqueue
  <2> HIDE DEF MainPC
  <2> QED BY <1>9, <2>1, <2>2 DEF Enqueue
<1>10. CASE EnqueueCancelled
  BY <1>10 DEF EnqueueCancelled
<1>11. CASE AwaitResult
  <2>1. Head(errs) \in Outcome /\ Tail(errs) \in Seq(Outcome)
    BY <1>11, FirstOfSeq DEF AwaitResult
  <2>2. answer' = Head(errs) /\ errs' = Tail(errs) /\ pc' \in MainPC
    BY <1>11 DEF AwaitResult, Receive
  <2>3. QED
    BY <1>11, <2>1, <2>2 DEF AwaitResult
<1>12. CASE AwaitCancelled
  BY <1>12 DEF AwaitCancelled
<1>13. CASE Reset
  <2>1. acked + answer.polls \in Nat
    OBVIOUS
  <2>2. QED
    BY <1>13, <2>1 DEF Reset
<1>14. CASE CheckDone
  BY <1>14 DEF CheckDone
<1>15. CASE WakeUp
  BY <1>15 DEF WakeUp
<1>16. CASE Signal
  BY <1>16 DEF Signal
<1>17. CASE Interrupt
  BY <1>17 DEF Interrupt
<1>18. ASSUME NEW w \in Workers, HandOver(w)
      PROVE  TypeOK'
  <2>1. wtry' \in [Workers -> 0..HttpAttempts]
    BY <1>18 DEF HandOver
  <2>2. wst' \in [Workers -> WorkerPC] /\ wjob' \in [Workers -> Report]
    BY <1>18 DEF HandOver
  <2>3. QED
    BY <1>18, <2>1, <2>2 DEF HandOver
<1>19. ASSUME NEW w \in Workers, TakeJob(w)
      PROVE  TypeOK'
  <2>1. Head(queue) \in Report /\ Tail(queue) \in Seq(Report)
    BY <1>19, FirstOfSeq DEF TakeJob
  <2>2. wtry' \in [Workers -> 0..HttpAttempts]
    BY <1>19 DEF TakeJob
  <2>3. wst' \in [Workers -> WorkerPC] /\ wjob' \in [Workers -> Report]
    BY <1>19, <2>1 DEF TakeJob
  <2>4. QED
    BY <1>19, <2>1, <2>2, <2>3 DEF TakeJob
<1>20. ASSUME NEW w \in Workers, StartAttempt(w)
      PROVE  TypeOK'
  BY <1>20 DEF StartAttempt
<1>21. ASSUME NEW w \in Workers, GiveUp(w)
      PROVE  TypeOK'
  BY <1>21 DEF GiveUp
<1>22. ASSUME NEW w \in Workers, AttemptOk(w)
      PROVE  TypeOK'
  BY <1>22 DEF AttemptOk
<1>23. ASSUME NEW w \in Workers, AttemptRetried(w)
      PROVE  TypeOK'
  <2>1. wtry[w] + 1 \in 0..HttpAttempts
    <3> HIDE DEF PollTypeOK, MainTypeOK, ChanTypeOK, Report, Outcome, Attempts
    <3>1. wtry[w] \in 0..HttpAttempts /\ wtry[w] < Attempts
      BY <1>23 DEF AttemptRetried
    <3> HIDE DEF TypeOK
    <3>2. Attempts \in {3, 4}
      BY DEF Attempts
    <3>3. QED
      BY <3>1, <3>2
  <2>2. wtry' \in [Workers -> 0..HttpAttempts]
    BY <1>23, <2>1 DEF AttemptRetried
  <2>3. wst' \in [Workers -> WorkerPC]
    BY <1>23 DEF AttemptRetried
  <2>4. QED
    BY <1>23, <2>2, <2>3 DEF AttemptRetried
<1>24. ASSUME NEW w \in Workers, AttemptFailed(w)
      PROVE  TypeOK'
  BY <1>24 DEF AttemptFailed
<1>25. ASSUME NEW w \in Workers, CheckShutdown(w)
      PROVE  TypeOK'
  BY <1>25 DEF CheckShutdown
<1>26. ASSUME NEW w \in Workers, PutResult(w)
      PROVE  TypeOK'
  <2>1. Append(errs, wres[w]) \in Seq(Outcome)
    OBVIOUS
  <2>2. /\ wst' \in [Workers -> WorkerPC] /\ wjob' \in [Workers -> Report]
        /\ wtry' \in [Workers -> 0..HttpAttempts] /\ wwire' \in [Workers -> Report]
        /\ wres' \in [Workers -> Outcome]
    <3>1. wtry' \in [Workers -> 0..HttpAttempts]
      BY <1>26 DEF PutResult, EndOfJob
    <3>2. QED
      BY <1>26, <3>1 DEF PutResult, EndOfJob
  <2>3. QED
    BY <1>26, <2>1, <2>2 DEF PutResult
<1>27. ASSUME NEW w \in Workers, HandBack(w)
      PROVE  TypeOK'
  <2>1. wres[w] \in Outcome
    OBVIOUS
  <2>2. answer' \in Outcome /\ pc' \in MainPC
    BY <1>27, <2>1 DEF HandBack, Receive
  <2>3. /\ wst' \in [Workers -> WorkerPC] /\ wjob' \in [Workers -> Report]
        /\ wtry' \in [Workers -> 0..HttpAttempts] /\ wwire' \in [Workers -> Report]
        /\ wres' \in [Workers -> Outcome]
    <3>1. wtry' \in [Workers -> 0..HttpAttempts]
      BY <1>27 DEF HandBack, EndOfJob
    <3>2. QED
      BY <1>27, <3>1 DEF HandBack, EndOfJob
  <2>4. QED
    BY <1>27, <2>2, <2>3 DEF HandBack
<1>28. QED
  BY <1>1, <1>2, <1>3, <1>4, <1>5, <1>6, <1>7, <1>8, <1>9, <1>10,
     <1>11, <1>12, <1>13, <1>14, <1>15, <1>16, <1>17, <1>18, <1>19, <1>20,
     <1>21, <1>22, <1>23, <1>24, <1>25, <1>26, <1>27
     DEF Step, Poller, Main, Worker

\* A report moves from queue to worker to answer and is never doubled on the
\* way; main leaves "await" only with the answer or with the context done.
LEMMA ExclusiveStep ==
    ASSUME TypeOK, Exclusive, Alive, Step
    PROVE  Exclusive'
<1> USE AgentAssumption
    DEF TypeOK, ChanTypeOK, WorkerTypeOK, Exclusive, Outstanding, Alive, Busy,
        Report, NoReport, Outcome, Failed, MainPC, WorkerPC, mainVars, pollVars,
        chanVars, workerVars
<1>1. CASE PollBegin
  BY <1>1 DEF PollBegin
<1>2. CASE PollEnd
  BY <1>2 DEF PollEnd
<1>3. CASE PollKern
  BY <1>3 DEF PollKern
<1>4. CASE ParseRtm
  BY <1>4 DEF ParseRtm
<1>5. CASE ParseSys
  BY <1>5 DEF ParseSys
<1>6. CASE ParseKern
  BY <1>6 DEF ParseKern
<1>7. CASE Encode
  BY <1>7 DEF Encode, EncodeProto, EncodeJSON
<1>8. CASE EncodeFail
  BY <1>8 DEF EncodeFail
<1>9. CASE Enqueue
  BY <1>9 DEF Enqueue
<1>10. CASE EnqueueCancelled
  BY <1>10 DEF EnqueueCancelled
<1>11. CASE AwaitResult
  BY <1>11 DEF AwaitResult, Receive
<1>12. CASE AwaitCancelled
  BY <1>12 DEF AwaitCancelled
<1>13. CASE Reset
  BY <1>13 DEF Reset
<1>14. CASE CheckDone
  BY <1>14 DEF CheckDone
<1>15. CASE WakeUp
  BY <1>15 DEF WakeUp
<1>16. CASE Signal
  BY <1>16 DEF Signal
<1>17. CASE Interrupt
  BY <1>17 DEF Interrupt
<1>18. ASSUME NEW w \in Workers, HandOver(w)
      PROVE  Exclusive'
  BY <1>18 DEF HandOver
<1>19. ASSUME NEW w \in Workers, TakeJob(w)
      PROVE  Exclusive'
  <2>1. queue' = <<>> /\ errs = <<>> /\ Outstanding
    <3>1. queue \in Seq(Report) /\ Len(queue) <= 1
      OBVIOUS
    <3>2. queue # <<>> /\ queue' = Tail(queue) /\ errs = <<>> /\ Outstanding
      BY <1>19 DEF TakeJob
    <3> HIDE DEF TypeOK, Exclusive, Outstanding, Report
    <3> QED BY <3>1, <3>2, FirstOfSeq
  <2>2. \A v \in Workers : Busy(v)' => v = w
    BY <1>19 DEF TakeJob
  <2>3. QED
    BY <1>19, <2>1, <2>2 DEF TakeJob
<1>20. ASSUME NEW w \in Workers, StartAttempt(w)
      PROVE  Exclusive'
  BY <1>20 DEF StartAttempt
<1>21. ASSUME NEW w \in Workers, GiveUp(w)
      PROVE  Exclusive'
  BY <1>21 DEF GiveUp
<1>22. ASSUME NEW w \in Workers, AttemptOk(w)
      PROVE  Exclusive'
  BY <1>22 DEF AttemptOk
<1>23. ASSUME NEW w \in Workers, AttemptRetried(w)
      PROVE  Exclusive'
  BY <1>23 DEF AttemptRetried
<1>24. ASSUME NEW w \in Workers, AttemptFailed(w)
      PROVE  Exclusive'
  BY <1>24 DEF AttemptFailed
<1>25. ASSUME NEW w \in Workers, CheckShutdown(w)
      PROVE  Exclusive'
  BY <1>25 DEF CheckShutdown
<1>26. ASSUME NEW w \in Workers, PutResult(w)
      PROVE  Exclusive'
  <2>1. queue = <<>> /\ errs = <<>> /\ Outstanding
    BY <1>26 DEF PutResult
  <2>2. errs' = Append(errs, wres[w]) /\ Len(errs') = 1
    BY <1>26, <2>1 DEF PutResult
  <2>3. \A v \in Workers : ~Busy(v)'
    BY <1>26 DEF PutResult, EndOfJob
  <2>4. queue' = <<>> /\ Len(queue') <= 1 /\ Outstanding'
    BY <1>26, <2>1 DEF PutResult
  <2> HIDE DEF TypeOK, Outstanding, Busy
  <2>5. QED
    BY <2>2, <2>3, <2>4
<1>27. ASSUME NEW w \in Workers, HandBack(w)
      PROVE  Exclusive'
  BY <1>27 DEF HandBack, EndOfJob, Receive
<1>28. QED
  BY <1>1, <1>2, <1>3, <1>4, <1>5, <1>6, <1>7, <1>8, <1>9, <1>10,
     <1>11, <1>12, <1>13, <1>14, <1>15, <1>16, <1>17, <1>18, <1>19, <1>20,
     <1>21, <1>22, <1>23, <1>24, <1>25, <1>26, <1>27
     DEF Step, Poller, Main, Worker

\* Nobody overwrites mJSON while a report is out: main encodes only when
\* Exclusive says that queue, workers and answers are empty.
LEMMA PayloadStep ==
    ASSUME TypeOK, Exclusive, Payload, Alive, Step
    PROVE  Payload'
<1> USE AgentAssumption
    DEF TypeOK, ChanTypeOK, WorkerTypeOK, Exclusive, Outstanding, Payload, Body,
        Alive, Busy, Report, NoReport, Outcome, Failed, MainPC, WorkerPC,
        mainVars, pollVars, chanVars, workerVars
<1>1. CASE PollBegin
  BY <1>1 DEF PollBegin
<1>2. CASE PollEnd
  BY <1>2 DEF PollEnd
<1>3. CASE PollKern
  BY <1>3 DEF PollKern
<1>4. CASE ParseRtm
  BY <1>4 DEF ParseRtm
<1>5. CASE ParseSys
  BY <1>5 DEF ParseSys
<1>6. CASE ParseKern
  BY <1>6 DEF ParseKern
<1>7. CASE Encode
  BY <1>7 DEF Encode, EncodeProto, EncodeJSON
<1>8. CASE EncodeFail
  BY <1>8 DEF EncodeFail
<1>9. CASE Enqueue
  BY <1>9 DEF Enqueue
<1>10. CASE EnqueueCancelled
  BY <1>10 DEF EnqueueCancelled
<1>11. CASE AwaitResult
  BY <1>11 DEF AwaitResult, Receive
<1>12. CASE AwaitCancelled
  BY <1>12 DEF AwaitCancelled
<1>13. CASE Reset
  BY <1>13 DEF Reset
<1>14. CASE CheckDone
  BY <1>14 DEF CheckDone
<1>15. CASE WakeUp
  BY <1>15 DEF WakeUp
<1>16. CASE Signal
  BY <1>16 DEF Signal
<1>17. CASE Interrupt
  BY <1>17 DEF Interrupt
<1>18. ASSUME NEW w \in Workers, HandOver(w)
      PROVE  Payload'
  BY <1>18 DEF HandOver
<1>19. ASSUME NEW w \in Workers, TakeJob(w)
      PROVE  Payload'
  <2>1. queue' = <<>> /\ errs = <<>> /\ Outstanding
    <3>1. queue \in Seq(Report) /\ Len(queue) <= 1
      OBVIOUS
    <3>2. queue # <<>> /\ queue' = Tail(queue) /\ errs = <<>> /\ Outstanding
      BY <1>19 DEF TakeJob
    <3> HIDE DEF TypeOK, Exclusive, Outstanding, Report
    <3> QED BY <3>1, <3>2, FirstOfSeq
  <2>2. \A v \in Workers : Busy(v)' => v = w
    BY <1>19 DEF TakeJob
  <2>3. wjob'[w] = queue[1]
    BY <1>19 DEF TakeJob
  <2>4. QED
    BY <1>19, <2>1, <2>2, <2>3 DEF TakeJob
<1>20. ASSUME NEW w \in Workers, StartAttempt(w)
      PROVE  Payload'
  BY <1>20 DEF StartAttempt
<1>21. ASSUME NEW w \in Workers, GiveUp(w)
      PROVE  Payload'
  BY <1>21 DEF GiveUp
<1>22. ASSUME NEW w \in Workers, AttemptOk(w)
      PROVE  Payload'
  BY <1>22 DEF AttemptOk
<1>23. ASSUME NEW w \in Workers, AttemptRetried(w)
      PROVE  Payload'
  BY <1>23 DEF AttemptRetried
<1>24. ASSUME NEW w \in Workers, AttemptFailed(w)
      PROVE  Payload'
  BY <1>24 DEF AttemptFailed
<1>25. ASSUME NEW w \in Workers, CheckShutdown(w)
      PROVE  Payload'
  BY <1>25 DEF CheckShutdown
<1>26. ASSUME NEW w \in Workers, PutResult(w)
      PROVE  Payload'
  BY <1>26 DEF PutResult, EndOfJob
<1>27. ASSUME NEW w \in Workers, HandBack(w)
      PROVE  Payload'
  BY <1>27 DEF HandBack, EndOfJob, Receive
<1>28. QED
  BY <1>1, <1>2, <1>3, <1>4, <1>5, <1>6, <1>7, <1>8, <1>9, <1>10,
     <1>11, <1>12, <1>13, <1>14, <1>15, <1>16, <1>17, <1>18, <1>19, <1>20,
     <1>21, <1>22, <1>23, <1>24, <1>25, <1>26, <1>27
     DEF Step, Poller, Main, Worker

\* While a report is out pollCount only grows, so the polls it carries stay
\* covered by the counter until Reset trades them for acked.
LEMMA CountingStep ==
    ASSUME TypeOK, Exclusive, Payload, Counting, Alive, Step
    PROVE  Counting'
<1> USE AgentAssumption
    DEF TypeOK, PollTypeOK, MainTypeOK, ChanTypeOK, WorkerTypeOK, Exclusive,
        Outstanding, Payload, Counting, Alive, Busy, Report, NoReport, Outcome,
        Failed, MainPC, WorkerPC, mainVars, pollVars, chanVars, workerVars
<1>1. CASE PollBegin
  BY <1>1 DEF PollBegin
<1>2. CASE PollEnd
  <2>1. pollCount' = pollCount + 1 /\ rndGen' = rndGen + 1
    BY <1>2 DEF PollEnd
  <2>2. \A n \in Nat : n <= pollCount => n <= pollCount'
    <3>1. pollCount \in Nat
      OBVIOUS
    <3> HIDE DEF TypeOK, Exclusive, Payload, Counting
    <3> QED BY <2>1, <3>1
  <2>3. \A w \in Workers : wjob[w].polls \in Nat /\ wres[w].polls \in Nat
    OBVIOUS
  <2>4. queue # <<>> => queue[1].polls \in Nat
    <3>1. queue # <<>> => queue[1] \in Report
      BY FirstOfSeq
    <3>2. QED
      BY <3>1
  <2>5. errs # <<>> => errs[1].polls \in Nat
    <3>1. errs # <<>> => errs[1] \in Outcome
      BY FirstOfSeq
    <3>2. QED
      BY <3>1
  <2>6. batch.polls \in Nat /\ job.polls \in Nat /\ answer.polls \in Nat
    OBVIOUS
  <2>7. (acked + pollCount <= rndGen)'
    <3>1. acked \in Nat /\ pollCount \in Nat /\ rndGen \in Nat
      OBVIOUS
    <3>2. acked + pollCount <= rndGen /\ acked' = acked
      BY <1>2 DEF PollEnd
    <3> HIDE DEF TypeOK, Exclusive, Payload, Counting
    <3> QED BY <2>1, <3>1, <3>2
  <2>8. QED
    BY <1>2, <2>2, <2>3, <2>4, <2>5, <2>6, <2>7 DEF PollEnd
<1>3. CASE PollKern
  BY <1>3 DEF PollKern
<1>4. CASE ParseRtm
  BY <1>4 DEF ParseRtm
<1>5. CASE ParseSys
  BY <1>5 DEF ParseSys
<1>6. CASE ParseKern
  BY <1>6 DEF ParseKern
<1>7. CASE Encode
  BY <1>7 DEF Encode, EncodeProto, EncodeJSON
<1>8. CASE EncodeFail
  BY <1>8 DEF EncodeFail
<1>9. CASE Enqueue
  BY <1>9 DEF Enqueue
<1>10. CASE EnqueueCancelled
  BY <1>10 DEF EnqueueCancelled
<1>11. CASE AwaitResult
  BY <1>11 DEF AwaitResult, Receive
<1>12. CASE AwaitCancelled
  BY <1>12 DEF AwaitCancelled
<1>13. CASE Reset
  <2>1. pc = "reset" /\ pc' = "check" /\ batch' = batch /\ pollCount' = 0
    BY <1>13 DEF Reset
  <2>2. acked' = acked + answer.polls /\ rndGen' = rndGen
    BY <1>13 DEF Reset
  <2>3. answer.polls <= pollCount /\ answer.polls \in Nat
    BY <2>1
  <2>4. acked' + pollCount' <= rndGen'
    <3>1. acked \in Nat /\ pollCount \in Nat /\ rndGen \in Nat
      OBVIOUS
    <3>2. acked + pollCount <= rndGen
      OBVIOUS
    <3>3. ASSUME NEW a \in Nat, NEW p \in Nat, NEW r \in Nat, NEW k \in Nat,
                 a + p <= r, k <= p
          PROVE  (a + k) + 0 <= r
      <4> HIDE DEF TypeOK, Exclusive, Payload, Counting
      <4> QED BY <3>3
    <3> HIDE DEF TypeOK, Exclusive, Payload, Counting
    <3> QED BY <2>1, <2>2, <2>3, <3>1, <3>2, <3>3
  <2>5. QED
    BY <2>1, <2>4
<1>14. CASE CheckDone
  BY <1>14 DEF CheckDone
<1>15. CASE WakeUp
  BY <1>15 DEF WakeUp
<1>16. CASE Signal
  BY <1>16 DEF Signal
<1>17. CASE Interrupt
  BY <1>17 DEF Interrupt
<1>18. ASSUME NEW w \in Workers, HandOver(w)
      PROVE  Counting'
  BY <1>18 DEF HandOver
<1>19. ASSUME NEW w \in Workers, TakeJob(w)
      PROVE  Counting'
  <2>1. queue' = <<>> /\ errs = <<>> /\ Outstanding
    <3>1. queue \in Seq(Report) /\ Len(queue) <= 1
      OBVIOUS
    <3>2. queue # <<>> /\ queue' = Tail(queue) /\ errs = <<>> /\ Outstanding
      BY <1>19 DEF TakeJob
    <3> HIDE DEF TypeOK, Exclusive, Outstanding, Report
    <3> QED BY <3>1, <3>2, FirstOfSeq
  <2>2. \A v \in Workers : Busy(v)' => v = w
    BY <1>19 DEF TakeJob
  <2>3. wjob'[w] = queue[1] /\ wst'[w] = "try"
    BY <1>19 DEF TakeJob
  <2>4. QED
    BY <1>19, <2>1, <2>2, <2>3 DEF TakeJob
<1>20. ASSUME NEW w \in Workers, StartAttempt(w)
      PROVE  Counting'
  BY <1>20 DEF StartAttempt
<1>21. ASSUME NEW w \in Workers, GiveUp(w)
      PROVE  Counting'
  BY <1>21 DEF GiveUp
<1>22. ASSUME NEW w \in Workers, AttemptOk(w)
      PROVE  Counting'
  BY <1>22 DEF AttemptOk
<1>23. ASSUME NEW w \in Workers, AttemptRetried(w)
      PROVE  Counting'
  BY <1>23 DEF AttemptRetried
<1>24. ASSUME NEW w \in Workers, AttemptFailed(w)
      PROVE  Counting'
  BY <1>24 DEF AttemptFailed
<1>25. ASSUME NEW w \in Workers, CheckShutdown(w)
      PROVE  Counting'
  BY <1>25 DEF CheckShutdown
<1>26. ASSUME NEW w \in Workers, PutResult(w)
      PROVE  Counting'
  <2>1. errs = <<>> /\ errs' = Append(errs, wres[w])
    BY <1>26 DEF PutResult
  <2>2. errs'[1] = wres[w]
    BY <2>1
  <2>3. \A v \in Workers : ~Busy(v)'
    BY <1>26 DEF PutResult, EndOfJob
  <2>4. QED
    BY <1>26, <2>2, <2>3 DEF PutResult, EndOfJob
<1>27. ASSUME NEW w \in Workers, HandBack(w)
      PROVE  Counting'
  BY <1>27 DEF HandBack, EndOfJob, Receive
<1>28. QED
  BY <1>1, <1>2, <1>3, <1>4, <1>5, <1>6, <1>7, <1>8, <1>9, <1>10,
     <1>11, <1>12, <1>13, <1>14, <1>15, <1>16, <1>17, <1>18, <1>19, <1>20,
     <1>21, <1>22, <1>23, <1>24, <1>25, <1>26, <1>27
     DEF Step, Poller, Main, Worker

\* Holding MemStats' lock over both reads (and both writes) keeps the two
\* generations of a report equal.
LEMMA CoherenceStep ==
    ASSUME TypeOK, Exclusive, Payload, Coherence, Alive, Step
    PROVE  Coherence'
<1> USE AgentAssumption
    DEF TypeOK, PollTypeOK, MainTypeOK, ChanTypeOK, WorkerTypeOK, Exclusive,
        Outstanding, Payload, Coherence, Body, Alive, Busy, Report, NoReport,
        Outcome, Failed, MainPC, WorkerPC, mainVars, pollVars, chanVars,
        workerVars
<1>1. CASE PollBegin
  BY <1>1 DEF PollBegin
<1>2. CASE PollEnd
  BY <1>2 DEF PollEnd
<1>3. CASE PollKern
  BY <1>3 DEF PollKern
<1>4. CASE ParseRtm
  BY <1>4 DEF ParseRtm
<1>5. CASE ParseSys
  BY <1>5 DEF ParseSys
<1>6. CASE ParseKern
  BY <1>6 DEF ParseKern
<1>7. CASE Encode
  BY <1>7 DEF Encode, EncodeProto, EncodeJSON
<1>8. CASE EncodeFail
  BY <1>8 DEF EncodeFail
<1>9. CASE Enqueue
  BY <1>9 DEF Enqueue
<1>10. CASE EnqueueCancelled
  BY <1>10 DEF EnqueueCancelled
<1>11. CASE AwaitResult
  BY <1>11 DEF AwaitResult, Receive
<1>12. CASE AwaitCancelled
  BY <1>12 DEF AwaitCancelled
<1>13. CASE Reset
  BY <1>13 DEF Reset
<1>14. CASE CheckDone
  BY <1>14 DEF CheckDone
<1>15. CASE WakeUp
  BY <1>15 DEF WakeUp
<1>16. CASE Signal
  BY <1>16 DEF Signal
<1>17. CASE Interrupt
  BY <1>17 DEF Interrupt
<1>18. ASSUME NEW w \in Workers, HandOver(w)
      PROVE  Coherence'
  BY <1>18 DEF HandOver
<1>19. ASSUME NEW w \in Workers, TakeJob(w)
      PROVE  Coherence'
  <2>1. queue \in Seq(Report) /\ queue # <<>> /\ Len(queue) <= 1
    BY <1>19 DEF TakeJob
  <2>2. queue' = <<>> /\ Head(queue) = queue[1]
    <3> HIDE DEF TypeOK, Exclusive, Payload, Coherence, Report
    <3> QED BY <1>19, <2>1, FirstOfSeq DEF TakeJob
  <2>3. wjob' = [wjob EXCEPT ![w] = queue[1]] /\ wwire' = wwire
    <3> HIDE DEF TypeOK, Exclusive, Payload, Coherence
    <3> QED BY <1>19, <2>2 DEF TakeJob
  <2>4. \A v \in Workers : wjob'[v].rt = wjob'[v].rnd
    BY <2>1, <2>3
  <2> HIDE DEF TypeOK, Exclusive, Payload
  <2>5. QED
    BY <1>19, <2>2, <2>3, <2>4 DEF TakeJob
<1>20. ASSUME NEW w \in Workers, StartAttempt(w)
      PROVE  Coherence'
  BY <1>20 DEF StartAttempt
<1>21. ASSUME NEW w \in Workers, GiveUp(w)
      PROVE  Coherence'
  BY <1>21 DEF GiveUp
<1>22. ASSUME NEW w \in Workers, AttemptOk(w)
      PROVE  Coherence'
  BY <1>22 DEF AttemptOk
<1>23. ASSUME NEW w \in Workers, AttemptRetried(w)
      PROVE  Coherence'
  BY <1>23 DEF AttemptRetried
<1>24. ASSUME NEW w \in Workers, AttemptFailed(w)
      PROVE  Coherence'
  BY <1>24 DEF AttemptFailed
<1>25. ASSUME NEW w \in Workers, CheckShutdown(w)
      PROVE  Coherence'
  BY <1>25 DEF CheckShutdown
<1>26. ASSUME NEW w \in Workers, PutResult(w)
      PROVE  Coherence'
  BY <1>26 DEF PutResult, EndOfJob
<1>27. ASSUME NEW w \in Workers, HandBack(w)
      PROVE  Coherence'
  BY <1>27 DEF HandBack, EndOfJob, Receive
<1>28. QED
  BY <1>1, <1>2, <1>3, <1>4, <1>5, <1>6, <1>7, <1>8, <1>9, <1>10,
     <1>11, <1>12, <1>13, <1>14, <1>15, <1>16, <1>17, <1>18, <1>19, <1>20,
     <1>21, <1>22, <1>23, <1>24, <1>25, <1>26, <1>27
     DEF Step, Poller, Main, Worker

\* "reset" is entered with a success, or with the context done; Receive sends
\* an error back to the start of the loop.
LEMMA ResetJustifiedStep ==
    ASSUME TypeOK, ResetJustified, Alive, Step
    PROVE  ResetJustified'
<1> USE DEF TypeOK, MainTypeOK, ResetJustified, Alive, Failed, mainVars,
            pollVars, chanVars, workerVars
<1>1. CASE Poller
  BY <1>1 DEF Poller, PollBegin, PollEnd, PollKern
<1>2. CASE Main
  BY <1>2 DEF Main, ParseRtm, ParseSys, ParseKern, Encode,
              EncodeProto, EncodeJSON, EncodeFail, Enqueue, HandOver,
              EnqueueCancelled, AwaitResult, Receive, AwaitCancelled, Reset,
              CheckDone, WakeUp
<1>3. ASSUME NEW w \in Workers, Worker(w)
      PROVE  ResetJustified'
  BY <1>3 DEF Worker, TakeJob, StartAttempt, GiveUp, AttemptOk, AttemptRetried,
              AttemptFailed, CheckShutdown, PutResult, HandBack, Receive
<1>4. CASE Signal \/ Interrupt
  BY <1>4 DEF Signal, Interrupt
<1>5. QED
  BY <1>1, <1>2, <1>3, <1>4 DEF Step

\* Polls taken while a report is out are all that separates it from the counter.
LEMMA LatenessStep ==
    ASSUME TypeOK, Exclusive, Payload, Counting, Lateness, Alive, Step
    PROVE  Lateness'
<1> USE AgentAssumption
    DEF TypeOK, PollTypeOK, MainTypeOK, ChanTypeOK, WorkerTypeOK, Exclusive,
        Outstanding, Payload, Lateness, Alive, Busy, Report, NoReport, Outcome,
        Failed, MainPC, WorkerPC, mainVars, pollVars, chanVars, workerVars
<1>1. CASE PollBegin
  BY <1>1 DEF PollBegin
<1>2. CASE PollEnd
  <2>1. pollCount' = pollCount + 1 /\ rndGen' = rndGen + 1
    BY <1>2 DEF PollEnd
  <2>2. \A k, m \in Nat : pollCount - k = rndGen - m => pollCount' - k = rndGen' - m
    <3>1. pollCount \in Nat /\ rndGen \in Nat
      OBVIOUS
    <3> HIDE DEF TypeOK, Exclusive, Payload, Lateness
    <3> QED BY <2>1, <3>1
  <2>3. batch.polls \in Nat /\ batch.rnd \in Nat /\ job.polls \in Nat /\ job.rnd \in Nat
    OBVIOUS
  <2>4. UNCHANGED <<pc, batch, job, answer, queue, errs, wst, wjob, wres>>
    BY <1>2 DEF PollEnd
  <2>5. pc \in {"parseKern", "encode"} => pollCount' - batch.polls = rndGen' - batch.rnd
    BY <2>2, <2>3
  <2>6. pc \in {"enqueue", "await"} \/ (pc = "reset" /\ answer.ok)
          => pollCount' - job.polls = rndGen' - job.rnd
    BY <2>2, <2>3
  <2> HIDE DEF TypeOK, Exclusive, Payload
  <2>7. QED
    BY <2>4, <2>5, <2>6
<1>3. CASE PollKern
  BY <1>3 DEF PollKern
<1>4. CASE ParseRtm
  BY <1>4 DEF ParseRtm
<1>5. CASE ParseSys
  <2>1. batch.polls = 0
    BY <1>5 DEF ParseSys, Counting
  <2>2. QED
    BY <1>5, <2>1 DEF ParseSys
<1>6. CASE ParseKern
  BY <1>6 DEF ParseKern
<1>7. CASE Encode
  BY <1>7 DEF Encode, EncodeProto, EncodeJSON
<1>8. CASE EncodeFail
  BY <1>8 DEF EncodeFail
<1>9. CASE Enqueue
  BY <1>9 DEF Enqueue
<1>10. CASE EnqueueCancelled
  BY <1>10 DEF EnqueueCancelled
<1>11. CASE AwaitResult
  BY <1>11 DEF AwaitResult, Receive
<1>12. CASE AwaitCancelled
  BY <1>12 DEF AwaitCancelled
<1>13. CASE Reset
  BY <1>13 DEF Reset
<1>14. CASE CheckDone
  BY <1>14 DEF CheckDone
<1>15. CASE WakeUp
  BY <1>15 DEF WakeUp
<1>16. CASE Signal
  BY <1>16 DEF Signal
<1>17. CASE Interrupt
  BY <1>17 DEF Interrupt
<1>18. ASSUME NEW w \in Workers, HandOver(w)
      PROVE  Lateness'
  BY <1>18 DEF HandOver
<1>19. ASSUME NEW w \in Workers, TakeJob(w)
      PROVE  Lateness'
  <2>1. wjob'[w] = queue[1] /\ \A v \in Workers : Busy(v)' => v = w
    BY <1>19 DEF TakeJob
  <2>2. wst'[w] = "try" /\ errs' = <<>> /\ queue' = <<>>
    <3>1. queue \in Seq(Report) /\ Len(queue) <= 1
      OBVIOUS
    <3>2. queue # <<>> /\ queue' = Tail(queue) /\ errs' = <<>> /\ wst'[w] = "try"
      BY <1>19 DEF TakeJob
    <3> HIDE DEF TypeOK, Exclusive, Outstanding, Report, Lateness
    <3> QED BY <3>1, <3>2, FirstOfSeq
  <2>3. QED
    BY <1>19, <2>1, <2>2 DEF TakeJob
<1>20. ASSUME NEW w \in Workers, StartAttempt(w)
      PROVE  Lateness'
  BY <1>20 DEF StartAttempt
<1>21. ASSUME NEW w \in Workers, GiveUp(w)
      PROVE  Lateness'
  BY <1>21 DEF GiveUp
<1>22. ASSUME NEW w \in Workers, AttemptOk(w)
      PROVE  Lateness'
  BY <1>22 DEF AttemptOk
<1>23. ASSUME NEW w \in Workers, AttemptRetried(w)
      PROVE  Lateness'
  BY <1>23 DEF AttemptRetried
<1>24. ASSUME NEW w \in Workers, AttemptFailed(w)
      PROVE  Lateness'
  BY <1>24 DEF AttemptFailed
<1>25. ASSUME NEW w \in Workers, CheckShutdown(w)
      PROVE  Lateness'
  BY <1>25 DEF CheckShutdown
<1>26. ASSUME NEW w \in Workers, PutResult(w)
      PROVE  Lateness'
  <2>1. errs = <<>> /\ errs' = Append(errs, wres[w])
    BY <1>26 DEF PutResult
  <2>2. errs'[1] = wres[w]
    BY <2>1
  <2>3. \A v \in Workers : ~Busy(v)'
    BY <1>26 DEF PutResult, EndOfJob
  <2>4. UNCHANGED <<pc, batch, job, answer, queue, pollCount, rndGen>>
    BY <1>26 DEF PutResult
  <2>5. pc = "await" /\ wres[w].ok => wres[w].polls = job.polls
    BY <1>26 DEF PutResult
  <2> HIDE DEF TypeOK, Exclusive, Payload
  <2>6. QED
    BY <2>2, <2>3, <2>4, <2>5
<1>27. ASSUME NEW w \in Workers, HandBack(w)
      PROVE  Lateness'
  <2>1. pc = "await" /\ answer' = wres[w] /\ wst[w] = "report"
    BY <1>27 DEF HandBack, Receive
  <2>2. pc' \in {"reset", "parseRtm"} /\ UNCHANGED <<job, pollCount, rndGen>>
    BY <1>27 DEF HandBack, Receive
  <2>3. wres[w].ok => wres[w].polls = job.polls /\ pollCount - job.polls = rndGen - job.rnd
    BY <2>1
  <2> HIDE DEF TypeOK, Exclusive, Payload
  <2>4. QED
    BY <2>1, <2>2, <2>3
<1>28. QED
  BY <1>1, <1>2, <1>3, <1>4, <1>5, <1>6, <1>7, <1>8, <1>9, <1>10,
     <1>11, <1>12, <1>13, <1>14, <1>15, <1>16, <1>17, <1>18, <1>19, <1>20,
     <1>21, <1>22, <1>23, <1>24, <1>25, <1>26, <1>27
     DEF Step, Poller, Main, Worker

LEMMA InitInv == Init => Inv
<1> SUFFICES ASSUME Init PROVE Inv
  OBVIOUS
<1> USE DEF Init, Report, NoReport, Outcome, Failed
<1>1. TypeOK
  <2>1. wtry \in [Workers -> 0..HttpAttempts]
    BY DEF HttpAttempts
  <2>2. queue \in Seq(Report) /\ errs \in Seq(Outcome)
    BY EmptySeq
  <2>3. QED
    BY <2>1, <2>2 DEF TypeOK, PollTypeOK, MainTypeOK, ChanTypeOK, WorkerTypeOK,
       MainPC, WorkerPC
<1>2. Exclusive /\ Payload
  BY DEF Exclusive, Payload, Busy
<1>3. Counting /\ Coherence /\ ResetJustified
  BY DEF Counting, Coherence, ResetJustified, Alive, Busy
<1>4. Lateness
  BY DEF Lateness, Busy
<1>5. QED
  BY <1>1, <1>2, <1>3, <1>4 DEF Inv

LEMMA StutterInv ==
    ASSUME Inv, UNCHANGED vars
    PROVE  Inv'
  BY DEF Inv, TypeOK, PollTypeOK, MainTypeOK, ChanTypeOK, WorkerTypeOK,
         Exclusive, Outstanding, Payload, Counting, Coherence, ResetJustified,
         Lateness, Alive, Busy, vars, mainVars, pollVars, chanVars, workerVars

LEMMA NextInv ==
    ASSUME Inv, [Next]_vars
    PROVE  Inv'
<1>1. CASE Alive /\ Step
  <2>1. /\ TypeOK /\ Exclusive /\ Payload /\ Counting /\ Coherence /\ ResetJustified
        /\ Lateness
    BY DEF Inv
  <2>2. TypeOK' /\ Exclusive' /\ Payload' /\ ResetJustified'
    BY <1>1, <2>1, TypeStep, ExclusiveStep, PayloadStep, ResetJustifiedStep
  <2>3. Counting' /\ Coherence' /\ Lateness'
    BY <1>1, <2>1, CountingStep, CoherenceStep, LatenessStep
  <2>4. QED
    BY <2>2, <2>3 DEF Inv
<1>2. CASE UNCHANGED vars
  BY <1>2, StutterInv
<1>3. QED
  BY <1>1, <1>2 DEF Next, Exited

\* The inductive invariant holds in every reachable state of the agent.
THEOREM AgentInvariant == Spec => []Inv
<1>1. Init => Inv
  BY InitInv
<1>2. Inv /\ [Next]_vars => Inv'
  BY NextInv
<1>3. QED
  BY <1>1, <1>2, PTL DEF Spec

\* Type correctness: in particular no worker ever makes more attempts than the
\* back-off allows.
THEOREM TypeCorrect == Spec => []TypeOK
<1>1. Inv => TypeOK
  BY DEF Inv
<1>2. QED
  BY <1>1, AgentInvariant, PTL

\* At most one of the workers is busy.
LEMMA BusyAtMostOne ==
    ASSUME Exclusive
    PROVE  /\ Cardinality({w \in Workers : Busy(w)}) \in 0..1
           /\ \/ \E w \in Workers : Busy(w)
              \/ Cardinality({w \in Workers : Busy(w)}) = 0
<1> DEFINE B == {w \in Workers : Busy(w)}
<1>1. CASE B = {}
  BY <1>1, FS_EmptySet
<1>2. CASE B # {}
  <2>1. PICK v \in Workers : Busy(v)
    BY <1>2
  <2>2. B = {v}
    BY <2>1 DEF Exclusive
  <2>3. Cardinality(B) = 1
    BY <2>2, FS_Singleton
  <2>4. QED
    BY <2>1, <2>3
<1>3. QED
  BY <1>1, <1>2

\* One report at a time, for any pool size and any RateLimit: the shared
\* jsonSendString and resty request have one user, and main never encodes the
\* next report while one is queued, being sent or unanswered.
THEOREM OneReport == Spec => []OneReportAtATime
<1>1. ASSUME Inv PROVE OneReportAtATime
  <2>1. TypeOK /\ Exclusive
    BY <1>1 DEF Inv
  <2>2. Len(queue) \in 0..1 /\ Len(errs) \in 0..1
    <3>1. Len(queue) \in Nat /\ Len(errs) \in Nat
      BY <2>1, LenProperties DEF TypeOK, ChanTypeOK
    <3>2. Len(queue) <= 1 /\ Len(errs) <= 1
      BY <2>1 DEF Exclusive
    <3>3. \A n \in Nat : n <= 1 => n \in 0..1
      OBVIOUS
    <3>4. QED
      BY <3>1, <3>2, <3>3, Zenon
  <2>3. queue # <<>> => Len(errs) = 0
    BY <2>1 DEF Exclusive
  <2>4. (\E w \in Workers : Busy(w)) => Len(queue) = 0 /\ Len(errs) = 0
    BY <2>1 DEF Exclusive
  <2>5. Len(queue) # 0 => queue # <<>>
    OBVIOUS
  <2>6. Len(queue) + Cardinality({w \in Workers : Busy(w)}) + Len(errs) <= 1
    <3> DEFINE C == Cardinality({w \in Workers : Busy(w)})
    <3>1. C \in 0..1 /\ (C = 0 \/ (Len(queue) = 0 /\ Len(errs) = 0))
      BY <2>1, <2>4, BusyAtMostOne
    <3>2. Len(queue) = 0 \/ Len(errs) = 0
      BY <2>3, <2>5
    <3> HIDE DEF C
    <3>3. ASSUME NEW a \in 0..1, NEW b \in 0..1, NEW c \in 0..1,
                 a = 0 \/ b = 0, c = 0 \/ (a = 0 /\ b = 0)
          PROVE  a + c + b <= 1
      BY <3>3
    <3>4. Len(queue) + C + Len(errs) <= 1
      BY <2>2, <3>1, <3>2, <3>3
    <3>5. QED
      BY <3>4 DEF C
  <2>7. queue # <<>> \/ errs # <<>> \/ (\E w \in Workers : Busy(w))
          => pc = "await" \/ ctxDone \/ ~Alive
    BY <2>1 DEF Exclusive, Outstanding
  <2>8. QED
    BY <2>6, <2>7 DEF OneReportAtATime
<1>2. QED
  BY <1>1, AgentInvariant, PTL

\* Every attempt of every worker sends the report that main queued, although
\* HTTP attempts read it again from an unlocked shared object.
THEOREM PayloadIsStable == Spec => []PayloadStable
<1>1. Inv => PayloadStable
  BY DEF Inv, Payload, PayloadStable
<1>2. QED
  BY <1>1, AgentInvariant, PTL

\* PollCount is never over-reported by the agent's own bookkeeping: what main
\* saw confirmed and what is still counted never exceed the polls taken.
THEOREM NoDoubleAck == Spec => []NoPollAckedTwice
<1>1. Inv => NoPollAckedTwice
  BY DEF Inv, Counting, NoPollAckedTwice
<1>2. QED
  BY <1>1, AgentInvariant, PTL

\* Every report shows the runtime gauges and the RandomValue of one poll.
THEOREM ReportsAreCoherent == Spec => []BatchCoherent
<1>1. Inv => BatchCoherent
  BY DEF Inv, Coherence, BatchCoherent
<1>2. QED
  BY <1>1, AgentInvariant, PTL

\* pollCount is reset only after a successful report or on the way out.
THEOREM ResetNeedsSuccess == Spec => ResetOnlyAfterSuccess
<1> DEFINE A == pollCount' < pollCount => answer.ok \/ ctxDone
<1>1. ASSUME Inv, [Next]_vars PROVE [A]_vars
  <2>1. CASE UNCHANGED vars
    BY <2>1
  <2>2. CASE Alive /\ Step
    <3>1. TypeOK /\ ResetJustified
      BY <1>1 DEF Inv
    <3>2. pollCount' # pollCount => pollCount' = pollCount + 1 \/ pc = "reset"
      BY <2>2 DEF Step, Poller, PollBegin, PollEnd, PollKern,
         Main, ParseRtm, ParseSys, ParseKern, Encode, EncodeFail, Enqueue,
         HandOver, EnqueueCancelled, AwaitResult, AwaitCancelled, Reset,
         CheckDone, WakeUp, Worker, TakeJob, StartAttempt, GiveUp, AttemptOk,
         AttemptRetried, AttemptFailed, CheckShutdown, PutResult, HandBack,
         Signal, Interrupt, pollVars
    <3>3. QED
      BY <3>1, <3>2 DEF TypeOK, PollTypeOK, ResetJustified
  <2>3. QED
    BY <1>1, <2>1, <2>2 DEF Next, Exited
<1>2. QED
  BY <1>1, AgentInvariant, PTL DEF Spec, ResetOnlyAfterSuccess

\* A reset loses no poll but the ones taken while the confirmed report was out.
THEOREM ResetDropsLatePolls == Spec => ResetDropsOnlyLatePolls
<1> DEFINE A == pollCount' < pollCount /\ answer.ok
                => pollCount - answer.polls = rndGen - job.rnd
<1>1. ASSUME Inv, [Next]_vars PROVE [A]_vars
  <2>1. CASE UNCHANGED vars
    BY <2>1
  <2>2. CASE Alive /\ Step
    <3>1. TypeOK /\ Lateness
      BY <1>1 DEF Inv
    <3>2. pollCount' # pollCount => pollCount' = pollCount + 1 \/ pc = "reset"
      BY <2>2 DEF Step, Poller, PollBegin, PollEnd, PollKern,
         Main, ParseRtm, ParseSys, ParseKern, Encode, EncodeFail, Enqueue,
         HandOver, EnqueueCancelled, AwaitResult, AwaitCancelled, Reset,
         CheckDone, WakeUp, Worker, TakeJob, StartAttempt, GiveUp, AttemptOk,
         AttemptRetried, AttemptFailed, CheckShutdown, PutResult, HandBack,
         Signal, Interrupt, pollVars
    <3>3. QED
      BY <3>1, <3>2 DEF TypeOK, PollTypeOK, Lateness
  <2>3. QED
    BY <1>1, <2>1, <2>2 DEF Next, Exited
<1>2. QED
  BY <1>1, AgentInvariant, PTL DEF Spec, ResetDropsOnlyLatePolls
=============================================================================
