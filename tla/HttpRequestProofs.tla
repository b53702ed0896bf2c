------------------------- MODULE HttpRequestProofs -------------------------
(***************************************************************************)
(* Proofs about one request to the server, from the first middleware to    *)
(* the last byte of the answer, for every deployment and every request.    *)
(* The invariant HInv says at every step what is left of the answer, whose *)
(* turn it is between the signing writer and its goroutine, and what the   *)
(* hash has taken in.                                                      *)
(***************************************************************************)
EXTENDS HttpRequest, DataLemmas, SequenceTheorems

-----------------------------------------------------------------------------
(* The answer begins.                                                       *)

\* The first calls of an answer tell the code the client will get.
LEMMA Fresh ==
    ASSUME Silent, pc \notin {"respond", "done"}, NEW calls, calls # <<>>,
           todo' = calls, UNCHANGED <<wire, signer>>
    PROVE  ~Begun' /\ wire'.texts = <<>> /\ ~wire'.gone /\ Code' = Head(calls).code
  BY DEF Silent, AtRest, Begun, Code


\* The calls a handler makes.
LEMMA HeaderCall ==
    ASSUME NEW c
    PROVE  /\ WriteHeader(c).op = "header" /\ WriteHeader(c).code = c
           /\ WriteHeader(c).checked = FALSE
  BY DEF WriteHeader

LEMMA WriteCall ==
    /\ \A t : Write(t).op = "write" /\ Write(t).text = t /\ Write(t).checked = FALSE
    /\ Encode.op = "write" /\ Encode.text = "json" /\ Encode.checked = TRUE
  BY DEF Write, Encode

LEMMA Two ==
    ASSUME NEW x, NEW y
    PROVE  /\ <<x, y>>[1] = x /\ Head(<<x, y>>) = x /\ Tail(<<x, y>>) = <<y>> /\ <<x, y>> # <<>>
           /\ Len(<<x, y>>) = 2
  OBVIOUS

LEMMA Three ==
    ASSUME NEW x, NEW y, NEW z
    PROVE  /\ <<x, y, z>>[1] = x /\ Head(<<x, y, z>>) = x /\ Tail(<<x, y, z>>) = <<y, z>>
           /\ <<x, y, z>> # <<>>
  OBVIOUS

LEMMA ErrorCalls ==
    ASSUME NEW c
    PROVE  /\ Error(c)[1] = WriteHeader(c) /\ Head(Error(c)) = WriteHeader(c)
           /\ Tail(Error(c)) = <<Write("error")>> /\ Error(c) # <<>>
<1> HIDE DEF WriteHeader, Write
<1>1. QED
  BY Two DEF Error

LEMMA FreshError ==
    ASSUME Silent, pc \notin {"respond", "done"}, NEW c \in Codes,
           todo' = Error(c), stored' \in {"none", "failed"}, UNCHANGED <<wire, signer>>
    PROVE  AllLeft' /\ ~wire'.gone /\ Code' = c
<1>1. Error(c) # <<>> /\ Head(Error(c)) = WriteHeader(c)
  BY ErrorCalls
<1>2. WriteHeader(c).code = c
  BY HeaderCall
<1>3. ~Begun' /\ wire'.texts = <<>> /\ ~wire'.gone /\ Code' = c
  BY <1>1, <1>2, Fresh
<1>4. QED
  BY <1>3 DEF AllLeft, Refused

LEMMA InitInv == Init => HInv
<1> SUFFICES ASSUME Init PROVE HInv
  OBVIOUS
<1> USE DEF Init
<1>1. Records
  BY RequestAssumption DEF Records
<1>2. Silent
  BY DEF Silent, AtRest
<1>3. Stage
  BY RequestAssumption DEF Stage, Routes, Updates, Trusted, RealIP
<1>4. Answering /\ Signing /\ Covered /\ Announced /\ Rpc
  BY DEF Answering, Signing, Covered, Announced, Rpc, AtRest
<1>5. QED
  BY <1>1, <1>2, <1>3, <1>4 DEF HInv

LEMMA CheckIPInv == HInv /\ CheckIP => HInv'
<1> SUFFICES ASSUME HInv, CheckIP PROVE HInv'
  OBVIOUS
<1> USE DEF HInv, CheckIP
<1>1. Records' /\ Rpc'
  BY DEF Records, Stage, Rpc
<1>2. Silent'
  BY DEF Silent, AtRest, Respond
<1>3. Stage'
  BY DEF Stage, Silent, Routes, Updates, Trusted, RealIP, Respond, Records
<1>4. Answering'
  <2>1. CASE pc' = "log"
    BY <2>1 DEF Answering
  <2>2. CASE ~Trusted(RealIP(req)) /\ Respond(Error(403))
    <3>1. AllLeft' /\ ~wire'.gone /\ Code' = 403
      BY <2>2, FreshError DEF Respond, Codes, Silent
    <3>2. QED
      BY <2>2, <3>1 DEF Answering, Respond, Silent, Trusted, RealIP
  <2>3. QED
    BY <2>1, <2>2
<1>5. Signing'
  BY DEF Signing, Respond, AtRest, Error, WriteHeader, Write, Stage
<1>6. Covered' /\ Announced'
  BY DEF Covered, Stage, Announced, Respond, Silent, AtRest
<1>7. QED
  BY <1>1, <1>2, <1>3, <1>4, <1>5, <1>6

\* A middleware that says nothing and passes the request on.
LEMMA Passed ==
    ASSUME HInv, pc \notin {"respond", "done"}, pc' \notin {"respond", "done"},
           UNCHANGED <<todo, hdr, wire, logged, stored, reached>>,
           signer' = signer \/ \E s : signer' = [signer EXCEPT !.sum = s]
    PROVE  Silent' /\ Answering' /\ Signing' /\ Announced' /\ Rpc'
<1> USE DEF HInv
<1>1. AtRest'
  BY DEF Silent, AtRest, Records
<1>2. QED
  BY <1>1 DEF Silent, Answering, Signing, Announced, Rpc

LEMMA WriteLoggingInv == HInv /\ WriteLogging => HInv'
<1> SUFFICES ASSUME HInv, WriteLogging PROVE HInv'
  OBVIOUS
<1> USE DEF HInv, WriteLogging
<1>1. Silent' /\ Answering' /\ Signing' /\ Announced' /\ Rpc'
  BY Passed
<1>2. Records' /\ Covered'
  BY DEF Records, Covered, Stage
<1>3. Stage'
  BY DEF Stage, Silent, Routes, Updates, Trusted, RealIP, Records
<1>4. QED
  BY <1>1, <1>2, <1>3

\* SignCheck and AsymmetricDencryptData refuse a request.
LEMMA Refusal ==
    ASSUME HInv, pc \in {"sign", "decrypt"}, Respond(Error(400)),
           UNCHANGED <<dep, req, conf, w, signer, hdr, wire, logged, stored, reached>>
    PROVE  HInv'
<1> USE DEF HInv
<1>1. AllLeft' /\ ~wire'.gone /\ Code' = 400
  BY FreshError DEF Respond, Codes, Silent
<1>2. Head(Error(400)).op = "header" /\ Error(400) # <<>> /\ AtRest'
  <2>1. AtRest'
    BY DEF Silent, AtRest
  <2>2. Head(Error(400)) = WriteHeader(400) /\ Error(400) # <<>>
    BY ErrorCalls
  <2>3. WriteHeader(400).op = "header"
    BY HeaderCall
  <2>4. QED
    BY <2>1, <2>2, <2>3
<1>3. Records' /\ Silent' /\ Rpc'
  BY DEF Records, Silent, Rpc, Respond, Stage
<1>4. Stage'
  BY DEF Stage, Silent, Routes, Updates, Trusted, RealIP, Respond, Records
<1>5. Answering'
  <2>1. Trusted(RealIP(req))'
    BY DEF Stage, Trusted, RealIP
  <2>2. QED
    BY <1>1, <2>1 DEF Answering, Respond
<1>6. Signing'
  BY <1>2 DEF Respond, Signing
<1>7. Covered' /\ Announced'
  BY <1>2 DEF Covered, Announced, Respond, Silent, AtRest
<1>8. QED
  BY <1>3, <1>4, <1>5, <1>6, <1>7

LEMMA SignCheckInv == HInv /\ SignCheck => HInv'
<1> SUFFICES ASSUME HInv, SignCheck PROVE HInv'
  OBVIOUS
<1> USE DEF HInv
<1>1. CASE pc' = "decrypt"
  <2> USE <1>1 DEF SignCheck, Respond
  <2>1. signer' = signer \/ \E s : signer' = [signer EXCEPT !.sum = s]
    OBVIOUS
  <2>2. Silent' /\ Answering' /\ Signing' /\ Announced' /\ Rpc'
    BY <2>1, Passed
  <2>3. Records'
    BY DEF Records
  <2>4. Stage'
    BY DEF Stage, Silent, Routes, Updates, Trusted, RealIP, Records
  <2>5. w'.signed => signer'.sum = IF req.sig.form = "none" THEN <<>> ELSE <<req.body>>
    <3>1. HMAC(conf.key, <<body>>).form = "hmac"
      BY DEF HMAC
    <3>2. signer.sum = <<>> /\ body = req.body /\ ~w.signed
      BY DEF Stage
    <3>3. CASE conf.key = ""
      BY <3>2, <3>3
    <3>4. CASE conf.key # "" /\ req.sig.form = "none" /\ signer' = signer
      BY <3>2, <3>4
    <3>5. CASE req.sig = HMAC(conf.key, <<body>>) /\ signer' = [signer EXCEPT !.sum = <<body>>]
      BY <3>1, <3>2, <3>5 DEF Records
    <3>6. QED
      BY <3>3, <3>4, <3>5 DEF HashedRequest
  <2>6. Covered'
    BY <2>5, <2>2 DEF Covered, Silent, AtRest
  <2>7. QED
    BY <2>2, <2>3, <2>4, <2>6
<1>2. CASE Respond(Error(400)) /\ UNCHANGED <<w, signer>>
  BY <1>2, Refusal DEF SignCheck
<1>3. QED
  BY <1>1, <1>2 DEF SignCheck

LEMMA AsymmetricDencryptDataInv == HInv /\ AsymmetricDencryptData => HInv'
<1> SUFFICES ASSUME HInv, AsymmetricDencryptData PROVE HInv'
  OBVIOUS
<1> USE DEF HInv
<1>0. /\ pc = "decrypt" /\ UNCHANGED <<dep, req, conf, w, signer, hdr, wire, logged, stored, reached>>
      /\ \/ pc' \in {"handler", "fatal"} /\ todo' = todo
         \/ Respond(Error(400))
  BY DEF AsymmetricDencryptData
<1>1. CASE pc' \in {"handler", "fatal"} /\ todo' = todo
  <2>1. Silent' /\ Answering' /\ Signing' /\ Announced' /\ Rpc'
    BY <1>0, <1>1, Passed
  <2>2. Records' /\ Covered'
    BY <1>0, <1>1 DEF Records, Covered
  <2>3. Stage'
    BY <1>0, <1>1 DEF Stage, Silent, Routes, Updates, Trusted, RealIP, Records
  <2>4. QED
    BY <2>1, <2>2, <2>3
<1>2. CASE Respond(Error(400))
  BY <1>0, <1>2, Refusal
<1>3. QED
  BY <1>0, <1>1, <1>2

LEMMA SendMetricsInv == HInv /\ SendMetrics => HInv'
<1> SUFFICES ASSUME HInv, SendMetrics PROVE HInv'
  OBVIOUS
<1> USE DEF HInv, SendMetrics
<1>1. Records' /\ Silent' /\ Signing' /\ Covered' /\ Answering'
  BY DEF Records, Silent, AtRest, Signing, Covered, Stage, Answering
<1>2. Stage'
  BY DEF Stage, Silent, Routes, Updates, Trusted, RealIP, Records
<1>3. Announced'
  BY DEF Announced, Stage, Records, Silent
<1>4. Rpc'
  <2>1. AtRest' /\ todo' = <<>>
    BY DEF Silent, AtRest
  <2>2. CASE ~Trusted(req.realIP)
    <3>1. conf'.subnet # "" /\ req'.realIP # "in"
      BY <2>2 DEF Trusted
    <3>2. wire'.status = 403 /\ stored' = "none" /\ reached' = <<>>
      BY <2>2 DEF Records, Silent
    <3>3. QED
      BY <2>1, <3>1, <3>2 DEF Rpc, Trusted
  <2>3. CASE Trusted(req.realIP)
    <3>1. conf'.subnet = "" \/ req'.realIP = "in"
      BY <2>3 DEF Trusted
    <3>2. wire'.status = 200
      BY <2>3 DEF Records
    <3>3. QED
      BY <2>1, <3>1, <3>2 DEF Rpc, Trusted
  <2>4. QED
    BY <2>2, <2>3
<1>5. QED
  BY <1>1, <1>2, <1>3, <1>4

LEMMA GzipCompDecompInv == HInv /\ GzipCompDecomp => HInv'
<1> SUFFICES ASSUME HInv, GzipCompDecomp PROVE HInv'
  OBVIOUS
<1> USE DEF HInv
<1>1. /\ pc = "gzip" /\ UNCHANGED <<dep, req, conf, body, todo, signer, stored, reached>>
      /\ \E gz \in BOOLEAN : w' = [w EXCEPT !.gz = gz]
      /\ \/ req.gz = "broken" /\ SendHeader(FALSE, 500) /\ pc' = "respond"
         \/ /\ req.gz # "broken" /\ UNCHANGED <<hdr, wire, logged>>
            /\ pc' = IF req.route \in Updates THEN "sign" ELSE "handler"
  BY DEF GzipCompDecomp
<1>2. w'.log = w.log /\ w'.signed = w.signed /\ w'.gz \in BOOLEAN
      /\ w' \in [log : BOOLEAN, gz : BOOLEAN, signed : BOOLEAN]
  BY <1>1 DEF Records
<1>3. CASE pc' = "respond"
  <2>1. wire.status = 0 /\ wire.texts = <<>> /\ ~wire.gone /\ ~hdr.enc /\ ~wire.gz /\ AtRest
        /\ stored = "none" /\ reached = <<>> /\ todo = <<>> /\ logged = 0
    BY <1>1 DEF Silent
  <2>2. /\ wire' = [wire EXCEPT !.status = 500, !.hash = hdr.hash, !.enc = FALSE]
        /\ hdr' = [hdr EXCEPT !.enc = FALSE] /\ logged' = IF w.log THEN 500 ELSE logged
        /\ req.gz = "broken"
    BY <1>1, <1>3, <2>1 DEF SendHeader, Records
  <2>3. Records' /\ Silent' /\ Rpc'
    BY <1>1, <1>2, <1>3, <2>2 DEF Records, Silent, Rpc
  <2>4. Stage'
    BY <1>1, <1>2, <1>3, <2>1 DEF Stage, Routes, Updates, Trusted, RealIP, Records
  <2>5. AtRest'
    BY <1>1, <2>1 DEF AtRest
  <2>6. wire'.status = 500 /\ wire'.texts = <<>> /\ ~wire'.gone /\ ~wire'.gz /\ ~hdr'.enc
    BY <2>1, <2>2 DEF Records
  <2>7. Trusted(RealIP(req))' /\ ~w.signed /\ w.log /\ req.route # "rpc"
    BY <1>1 DEF Stage, Trusted, RealIP
  <2>8. Answering'
    <3>1. Refused' /\ Code' = 500
      BY <1>1, <2>1, <2>6 DEF Refused, Code, Codes
    <3>2. QED
      BY <1>1, <1>2, <1>3, <2>1, <2>2, <2>6, <2>7, <3>1 DEF Answering, NothingLeft
  <2>9. Signing' /\ Covered' /\ Announced'
    BY <1>1, <1>2, <1>3, <2>1, <2>2, <2>5, <2>6, <2>7 DEF Signing, Covered, Announced
  <2>10. QED
    BY <2>3, <2>4, <2>8, <2>9
<1>4. CASE UNCHANGED <<hdr, wire, logged>> /\ pc' = IF req.route \in Updates THEN "sign" ELSE "handler"
  <2>1. Silent' /\ Answering' /\ Signing' /\ Announced' /\ Rpc'
    BY <1>1, <1>4, Passed
  <2>2. Records' /\ Covered'
    BY <1>1, <1>2, <1>4 DEF Records, Covered, Stage
  <2>3. Stage'
    BY <1>1, <1>2, <1>4 DEF Stage, Silent, Routes, Updates, Trusted, RealIP, Records
  <2>4. QED
    BY <2>1, <2>2, <2>3
<1>5. QED
  BY <1>1, <1>3, <1>4

\* What Start makes of the request keeps its fields.
LEMMA Sent ==
    ASSUME NEW r, NEW agent,
           DOMAIN r = {"client", "route", "size", "realIP", "remote", "ctype", "accept", "gz",
                       "good", "sig", "body"}
    PROVE  /\ DOMAIN AgentRequest(agent, r) = DOMAIN r
           /\ AgentRequest(agent, r).route \in {r.route, "rpc"}
  BY DEF AgentRequest

LEMMA StartInv == HInv /\ Start => HInv'
<1> SUFFICES ASSUME HInv, Start PROVE HInv'
  OBVIOUS
<1> USE DEF HInv
<1> DEFINE sent == IF req.client = "agent" THEN AgentRequest(ResolveAll(dep.agent), req) ELSE req
<1>1. /\ pc = "start" /\ UNCHANGED <<dep, conf, w, todo, signer, hdr, wire, logged, stored, reached>>
      /\ \/ pc' = "off" /\ UNCHANGED <<req, body>>
         \/ /\ ~ServerCannotStart /\ req' = sent /\ body' = sent.body
            /\ pc' = IF sent.route = "rpc" THEN "rpc" ELSE "checkIP"
  BY DEF Start
<1>2. DOMAIN sent = DOMAIN req /\ sent.route \in Routes \cup {"rpc"}
  BY Sent DEF Records, Stage
<1> HIDE DEF sent
<1>3. Silent' /\ Answering' /\ Signing' /\ Announced' /\ Rpc'
  BY <1>1, Passed
<1>4. Records'
  BY <1>1, <1>2 DEF Records
<1>5. Stage'
  <2>1. ~w.signed /\ ~w.log /\ ~w.gz /\ signer.sum = <<>>
    BY <1>1 DEF Stage
  <2>2. CASE pc' = "off"
    BY <1>1, <2>1, <2>2 DEF Stage, Silent
  <2>3. CASE ~ServerCannotStart /\ req' = sent /\ body' = sent.body
             /\ pc' = IF sent.route = "rpc" THEN "rpc" ELSE "checkIP"
    BY <1>1, <1>2, <2>1, <2>3 DEF Stage, Silent, ServerCannotStart
  <2>4. QED
    BY <1>1, <2>2, <2>3
<1>6. Covered'
  BY <1>1 DEF Covered, Stage
<1>7. QED
  BY <1>3, <1>4, <1>5, <1>6

-----------------------------------------------------------------------------
(* The handlers' answers.                                                   *)

\* An outcome of a handler behind the signer, and of any other.
UpdateOutcome(out) ==
    \/ out.store \in {"none", "failed"} /\ \E c \in Codes \ {403} : out.calls = Error(c)
    \/ /\ out.store = "ok"
       /\ out.calls \in {<<WriteHeader(200), Write("text")>>, <<WriteHeader(200), Encode>>}

ReadOutcome(out) ==
    \/ out.store = "none" /\ \E c \in Codes \ {403} : out.calls = Error(c)
    \/ /\ out.store = "read"
       /\ out.calls \in {<<WriteHeader(200), Write("text")>>, <<WriteHeader(200), Encode>>,
                         <<WriteHeader(200), Write("text"), Write("text")>>}
    \/ out.store = "nan" /\ out.calls = <<WriteHeader(200), WriteHeader(500), Write("error")>>

LEMMA Outs ==
    ASSUME NEW st, NEW calls
    PROVE  Out(st, calls).store = st /\ Out(st, calls).calls = calls
  BY DEF Out

LEMMA RefusalOutcome ==
    ASSUME NEW c \in Codes \ {403}, NEW out \in Refuse(c)
    PROVE  UpdateOutcome(out) /\ ReadOutcome(out)
<1>1. out = Out("none", Error(c))
  BY DEF Refuse
<1>2. out.store = "none" /\ out.calls = Error(c)
  BY <1>1, Outs
<1>3. QED
  BY <1>2 DEF UpdateOutcome, ReadOutcome

LEMMA Outcomes ==
    ASSUME NEW r, NEW b, r.route \in Routes, NEW out \in Handler(r, b)
    PROVE  IF r.route \in Updates THEN UpdateOutcome(out) ELSE ReadOutcome(out)
<1>1. 400 \in Codes \ {403} /\ 404 \in Codes \ {403} /\ 500 \in Codes \ {403}
  BY DEF Codes
<1>2. \A st, calls : Out(st, calls).store = st /\ Out(st, calls).calls = calls
  BY Outs
<1>3. CASE r.route = "updateURL"
  <2>1. out \in UpdateMetrics(r)
    BY <1>3 DEF Handler
  <2>2. UpdateOutcome(out)
    <3>1. \/ out \in Refuse(400) \/ out = Out("failed", Error(500))
          \/ out = Out("ok", <<WriteHeader(200), Write("text")>>)
      BY <2>1, Zenon DEF UpdateMetrics
    <3>2. QED
      BY <1>1, <1>2, <3>1, RefusalOutcome DEF UpdateOutcome
  <2>3. QED
    BY <1>3, <2>2 DEF Updates
<1>4. CASE r.route = "update"
  <2>1. out \in UpdateMetricsJSON(r, b)
    BY <1>4 DEF Handler
  <2>2. UpdateOutcome(out)
    BY <1>1, <1>2, <2>1, RefusalOutcome DEF UpdateMetricsJSON, UpdateOutcome
  <2>3. QED
    BY <1>4, <2>2 DEF Updates
<1>5. CASE r.route = "updates"
  <2>1. out \in UpdateBatchMetricsJSON(r, b)
    BY <1>5 DEF Handler
  <2>2. UpdateOutcome(out)
    BY <1>1, <1>2, <2>1, RefusalOutcome DEF UpdateBatchMetricsJSON, UpdateOutcome
  <2>3. QED
    BY <1>5, <2>2 DEF Updates
<1>6. CASE r.route = "valueJSON"
  <2>1. out \in GetMetricsJSON(r, b)
    BY <1>6 DEF Handler
  <2>2. ReadOutcome(out)
    <3>1. \/ out \in Refuse(400) \/ out \in Refuse(404)
          \/ out = Out("read", <<WriteHeader(200), Encode>>)
          \/ out = Out("nan", <<WriteHeader(200), WriteHeader(500), Write("error")>>)
      BY <2>1, Zenon DEF GetMetricsJSON
    <3>2. CASE out = Out("nan", <<WriteHeader(200), WriteHeader(500), Write("error")>>)
      BY <1>2, <3>2 DEF ReadOutcome
    <3>3. CASE out = Out("read", <<WriteHeader(200), Encode>>)
      BY <1>2, <3>3 DEF ReadOutcome
    <3>4. QED
      BY <1>1, <3>1, <3>2, <3>3, RefusalOutcome
  <2>3. QED
    BY <1>6, <2>2 DEF Updates
<1>7. CASE r.route = "value"
  <2>1. out \in GetMetrics(r)
    BY <1>7 DEF Handler
  <2>2. ReadOutcome(out)
    BY <1>1, <1>2, <2>1, RefusalOutcome DEF GetMetrics, ReadOutcome
  <2>3. QED
    BY <1>7, <2>2 DEF Updates
<1>8. CASE r.route = "all"
  <2>1. out \in GetAll
    BY <1>8 DEF Handler
  <2>2. ReadOutcome(out)
    BY <1>1, <1>2, <2>1, RefusalOutcome DEF GetAll, ReadOutcome
  <2>3. QED
    BY <1>8, <2>2 DEF Updates
<1>9. CASE r.route = "ping"
  <2>1. out \in DbPing
    BY <1>9 DEF Handler
  <2>2. ReadOutcome(out)
    BY <1>1, <1>2, <2>1, RefusalOutcome DEF DbPing, ReadOutcome
  <2>3. QED
    BY <1>9, <2>2 DEF Updates
<1>10. QED
  BY <1>3, <1>4, <1>5, <1>6, <1>7, <1>8, <1>9 DEF Routes

LEMMA HandleInv == HInv /\ Handle => HInv'
<1> SUFFICES ASSUME HInv, Handle PROVE HInv'
  OBVIOUS
<1> USE DEF HInv
<1> DEFINE seen == IF Unreadable THEN Body(FALSE, <<>>) ELSE body
<1>1. PICK out \in Handler(req, seen) : stored' = out.store /\ Respond(out.calls)
  BY DEF Handle
<1>2. pc = "handler" /\ UNCHANGED <<dep, req, conf, w, body, signer, hdr, wire, logged>>
  BY DEF Handle
<1>3. IF req.route \in Updates THEN UpdateOutcome(out) ELSE ReadOutcome(out)
  BY <1>1, <1>2, Outcomes DEF Stage
<1> HIDE DEF seen
<1>4. pc' = "respond" /\ todo' = out.calls
  BY <1>1 DEF Respond
<1>5. w.signed => req.route \in Updates
  BY DEF Stage
<1>6. AtRest' /\ wire.status = 0 /\ logged = 0 /\ ~wire.gone /\ ~wire.gz /\ ~hdr.enc
  BY <1>2 DEF Silent, AtRest
<1>7. Records' /\ Silent' /\ Rpc'
  BY <1>2, <1>4 DEF Records, Silent, Rpc, Stage
<1>8. Stage'
  <2>1. req.route \in Updates => stored' \in {"none", "failed", "ok"}
    BY <1>1, <1>3 DEF UpdateOutcome
  <2>2. QED
    BY <1>2, <1>4, <2>1 DEF Stage, Routes, Updates, Trusted, RealIP, Records
<1>9. /\ Code' # 403
      /\ (~wire'.gone /\ AllLeft') \/ Unencodable'
      /\ out.calls # <<>> /\ Head(out.calls).op = "header"
  <2>1. CASE stored' \in {"none", "failed"} /\ \E c \in Codes \ {403} : out.calls = Error(c)
    <3>1. PICK c \in Codes \ {403} : out.calls = Error(c)
      BY <2>1
    <3>2. AllLeft' /\ ~wire'.gone /\ Code' = c
      BY <1>2, <1>4, <2>1, <3>1, FreshError
    <3>3. Head(Error(c)).op = "header" /\ Error(c) # <<>>
      BY ErrorCalls, HeaderCall
    <3>4. QED
      BY <3>1, <3>2, <3>3
  <2>2. ASSUME out.calls # <<>>, Head(out.calls) = WriteHeader(200)
        PROVE  ~Begun' /\ wire'.texts = <<>> /\ ~wire'.gone /\ Code' = 200
               /\ Head(out.calls).op = "header"
    <3>1. ~Begun' /\ wire'.texts = <<>> /\ ~wire'.gone /\ Code' = Head(out.calls).code
      BY <1>2, <1>4, <2>2, Fresh
    <3>2. WriteHeader(200).code = 200 /\ WriteHeader(200).op = "header"
      BY HeaderCall
    <3>3. QED
      BY <2>2, <3>1, <3>2
  <2>3. CASE stored' \in {"ok", "read"} /\ out.calls = <<WriteHeader(200), Write("text")>>
    <3>1. out.calls # <<>> /\ Head(out.calls) = WriteHeader(200)
      BY <2>3, Two
    <3>2. QED
      BY <1>4, <2>2, <2>3, <3>1 DEF AllLeft, Granted
  <2>4. CASE stored' \in {"ok", "read"} /\ out.calls = <<WriteHeader(200), Encode>>
    <3>1. out.calls # <<>> /\ Head(out.calls) = WriteHeader(200)
      BY <2>4, Two
    <3>2. QED
      BY <1>4, <2>2, <2>4, <3>1 DEF AllLeft, Granted
  <2>5. CASE /\ stored' = "read" /\ req.route \notin Updates
             /\ out.calls = <<WriteHeader(200), Write("text"), Write("text")>>
    <3>1. out.calls # <<>> /\ Head(out.calls) = WriteHeader(200)
      BY <2>5, Three
    <3>2. QED
      BY <1>2, <1>4, <1>5, <2>2, <2>5, <3>1 DEF AllLeft, Granted
  <2>6. CASE /\ stored' = "nan" /\ req.route \notin Updates
             /\ out.calls = <<WriteHeader(200), WriteHeader(500), Write("error")>>
    <3>1. out.calls # <<>> /\ Head(out.calls) = WriteHeader(200)
      BY <2>6, Three
    <3>2. ~Begun' /\ ~wire'.gone /\ Code' = 200 /\ Head(out.calls).op = "header"
      BY <2>2, <3>1
    <3>3. QED
      BY <1>2, <1>4, <1>5, <2>6, <3>1, <3>2 DEF Unencodable
  <2>7. QED
    BY <1>1, <1>3, <2>1, <2>3, <2>4, <2>5, <2>6 DEF UpdateOutcome, ReadOutcome
<1>10. Answering'
  <2>1. Trusted(RealIP(req))'
    BY <1>2 DEF Stage, Trusted, RealIP
  <2>2. QED
    BY <1>4, <1>9, <2>1 DEF Answering
<1>11. Signing' /\ Covered' /\ Announced'
  BY <1>2, <1>4, <1>6, <1>9 DEF Signing, Covered, Announced, AtRest
<1>12. QED
  BY <1>7, <1>8, <1>10, <1>11

-----------------------------------------------------------------------------
(* The calls on the writer.                                                 *)

\* Calls change neither the request nor what the handler did.
Said == UNCHANGED <<dep, req, pc, conf, w, body, stored, reached>>

LEMMA SaidInv ==
    ASSUME HInv, pc = "respond", Said
    PROVE  Stage' /\ Silent' /\ Rpc'
  BY DEF HInv, Said, Stage, Silent, Rpc, Routes, Updates, Trusted, RealIP

LEMMA One ==
    ASSUME NEW x
    PROVE  <<x>> # <<>> /\ Head(<<x>>) = x /\ Tail(<<x>>) = <<>>
  OBVIOUS

LEMMA AppendOne ==
    ASSUME NEW x, NEW y
    PROVE  Append(<<x>>, y) = <<x, y>> /\ Append(<<>>, x) = <<x>>
<1>1. Append(<<>>, x) = <<x>>
  OBVIOUS
<1>2. <<x>> \in Seq({x, y}) /\ Len(<<x>>) = 1 /\ <<x>>[1] = x
  OBVIOUS
<1>3. /\ Append(<<x>>, y) \in Seq({x, y}) /\ Len(Append(<<x>>, y)) = 2
      /\ Append(<<x>>, y)[1] = x /\ Append(<<x>>, y)[2] = y
  BY <1>2, AppendProperties
<1>4. <<x, y>> \in Seq({x, y}) /\ Len(<<x, y>>) = 2 /\ <<x, y>>[1] = x /\ <<x, y>>[2] = y
  OBVIOUS
<1>5. Append(<<x>>, y) = <<x, y>>
  <2>1. PICK s, t : s = Append(<<x>>, y) /\ t = <<x, y>>
    OBVIOUS
  <2>2. /\ s \in Seq({x, y}) /\ t \in Seq({x, y}) /\ Len(s) = 2 /\ Len(t) = 2
        /\ s[1] = x /\ s[2] = y /\ t[1] = x /\ t[2] = y
    BY <1>3, <1>4, <2>1
  <2>3. s = t
    BY <2>2, SeqEqual
  <2>4. QED
    BY <2>1, <2>3
<1>6. QED
  BY <1>1, <1>5

\* An answer that goes on with a header has said nothing yet, or goes to a
\* client that does not hear it, or is about a value that cannot be encoded.
LEMMA HeaderCases ==
    ASSUME HInv, Call("header")
    PROVE  \/ ~wire.gone /\ AllLeft
           \/ Begun /\ todo = Error(500) /\ (Gone \/ Unencodable)
           \/ /\ Unencodable /\ ~Begun /\ ~wire.gone
              /\ todo = <<WriteHeader(200), WriteHeader(500), Write("error")>>
<1> USE DEF HInv
<1>1. pc = "respond" /\ todo # <<>> /\ Head(todo).op = "header" /\ req.route # "rpc"
  BY DEF Call, Stage
<1>2. /\ Write("error").op = "write" /\ Write("text").op = "write" /\ Encode.op = "write"
  BY WriteCall
<1>3. /\ todo # <<Write("error")>> /\ todo # <<Write("text")>> /\ todo # <<Encode>>
      /\ todo # <<Write("text"), Write("text")>>
  BY <1>1, <1>2, One, Two
<1>4. CASE ~wire.gone /\ (AllLeft \/ BodyLeft \/ PageLeft \/ NothingLeft)
  BY <1>1, <1>3, <1>4 DEF BodyLeft, PageLeft, NothingLeft
<1>5. CASE Gone
  BY <1>1, <1>3, <1>5 DEF Gone, Begun
<1>6. CASE Unencodable
  BY <1>1, <1>3, <1>6 DEF Unencodable
<1>7. QED
  BY <1>1, <1>4, <1>5, <1>6 DEF Answering

\* One that goes on with a text has begun.
LEMMA WriteCases ==
    ASSUME HInv, Call("write")
    PROVE  \/ ~wire.gone /\ (BodyLeft \/ PageLeft)
           \/ Gone /\ (todo = <<Write("error")>> \/ (~w.signed /\ todo = <<Write("text")>>))
           \/ Unencodable /\ Begun /\ todo = <<Write("error")>>
<1> USE DEF HInv
<1>1. pc = "respond" /\ todo # <<>> /\ Head(todo).op = "write" /\ req.route # "rpc"
  BY DEF Call, Stage
<1>2. \A c : WriteHeader(c).op = "header"
  BY HeaderCall
<1>3. \A c : todo # Error(c)
  <2>1. SUFFICES ASSUME NEW c, todo = Error(c) PROVE FALSE
    OBVIOUS
  <2>2. Head(todo) = WriteHeader(c)
    BY <2>1, ErrorCalls
  <2>3. QED
    BY <1>1, <1>2, <2>2
<1>4. todo # <<WriteHeader(200), Write("text")>> /\ todo # <<WriteHeader(200), Encode>>
  BY <1>1, <1>2, Two
<1>5. /\ todo # <<WriteHeader(200), Write("text"), Write("text")>>
      /\ todo # <<WriteHeader(200), WriteHeader(500), Write("error")>>
  BY <1>1, <1>2, Three
<1>6. CASE ~wire.gone /\ (AllLeft \/ BodyLeft \/ PageLeft \/ NothingLeft)
  BY <1>1, <1>3, <1>4, <1>5, <1>6 DEF AllLeft, NothingLeft
<1>7. CASE Gone
  BY <1>1, <1>3, <1>7 DEF Gone
<1>8. CASE Unencodable
  BY <1>1, <1>3, <1>5, <1>8 DEF Unencodable
<1>9. QED
  BY <1>1, <1>6, <1>7, <1>8 DEF Answering

\* What net/http makes of a header: the first one counts.
LEMMA HeaderSent ==
    ASSUME Records, NEW code \in Codes \cup {200}, SendHeader(w.gz, code), w' = w
    PROVE  /\ DOMAIN wire' = DOMAIN wire /\ DOMAIN hdr' = DOMAIN hdr
           /\ wire'.status = (IF wire.status # 0 THEN wire.status ELSE code)
           /\ wire'.hash = (IF wire.status # 0 THEN wire.hash ELSE hdr.hash)
           /\ wire'.enc = (IF wire.status # 0 THEN wire.enc ELSE hdr.enc \/ w.gz)
           /\ wire'.texts = wire.texts /\ wire'.gone = wire.gone /\ wire'.gz = wire.gz
           /\ hdr'.enc = (hdr.enc \/ w.gz) /\ hdr'.hash = hdr.hash
           /\ logged' = IF w.log THEN code ELSE logged
           /\ code \in Nat /\ code # 0
<1>1. code \in Nat /\ code # 0
  BY DEF Codes
<1>2. hdr' = [hdr EXCEPT !.enc = @ \/ w.gz]
  BY DEF SendHeader
<1>3. DOMAIN hdr' = DOMAIN hdr /\ hdr'.enc = (hdr.enc \/ w.gz) /\ hdr'.hash = hdr.hash
  BY <1>2 DEF Records
<1>4. wire' = IF wire.status # 0 THEN wire
              ELSE [wire EXCEPT !.status = code, !.hash = hdr.hash, !.enc = hdr.enc \/ w.gz]
  BY <1>3 DEF SendHeader, Records
<1>5. QED
  BY <1>1, <1>3, <1>4 DEF Records, SendHeader

\* The header of an answer has the code it will be known by, and after it the
\* body is left.
LEMMA AllLeftCode ==
    ASSUME AllLeft
    PROVE  Head(todo).code = Code /\ Code \in Codes \cup {200}
<1>1. todo # <<>>
  BY ErrorCalls, Two, Three DEF AllLeft
<1>2. QED
  BY <1>1 DEF AllLeft, Begun, Code, Refused, Granted

LEMMA AllLeftStep ==
    ASSUME AllLeft, todo' = Tail(todo), w' = w, stored' = stored, Begun', wire'.texts = wire.texts,
           Code' = Code
    PROVE  BodyLeft'
<1>1. Refused = Refused' /\ Granted = Granted'
  BY DEF Refused, Granted
<1>2. CASE Refused /\ \E c \in Codes : todo = Error(c)
  <2>1. todo' = <<Write("error")>>
    BY <1>2, ErrorCalls
  <2>2. QED
    BY <1>1, <1>2, <2>1 DEF BodyLeft, AllLeft
<1>3. CASE Granted /\ todo = <<WriteHeader(200), Write("text")>>
  <2>1. todo' = <<Write("text")>>
    BY <1>3, Two
  <2>2. QED
    BY <1>1, <1>3, <2>1 DEF BodyLeft, AllLeft
<1>4. CASE Granted /\ todo = <<WriteHeader(200), Encode>>
  <2>1. todo' = <<Encode>>
    BY <1>4, Two
  <2>2. QED
    BY <1>1, <1>4, <2>1 DEF BodyLeft, AllLeft
<1>5. CASE Granted /\ ~w.signed /\ todo = <<WriteHeader(200), Write("text"), Write("text")>>
  <2>1. todo' = <<Write("text"), Write("text")>>
    BY <1>5, Three
  <2>2. QED
    BY <1>1, <1>5, <2>1 DEF BodyLeft, AllLeft
<1>6. QED
  BY <1>2, <1>3, <1>4, <1>5 DEF AllLeft

\* What of the answer does not change while its code, the request and the outcome
\* stay.
LEMMA SameCode ==
    ASSUME HInv, pc = "respond", Said, Code' = Code,
           \/ ~wire'.gone /\ (AllLeft \/ BodyLeft \/ PageLeft \/ NothingLeft)'
           \/ Gone' \/ Unencodable'
    PROVE  Answering'
<1>1. Trusted(RealIP(req))' <=> Trusted(RealIP(req))
  BY DEF Said, Trusted, RealIP
<1>2. QED
  BY <1>1 DEF HInv, Answering, Said, Stage

LEMMA PlainWriteHeaderInv == HInv /\ PlainWriteHeader => HInv'
<1> SUFFICES ASSUME HInv, PlainWriteHeader PROVE HInv'
  OBVIOUS
<1> USE DEF HInv
<1>1. /\ pc = "respond" /\ Call("header") /\ ~w.signed /\ Said /\ signer' = signer
      /\ SendHeader(w.gz, Head(todo).code) /\ todo' = Tail(todo) /\ w' = w /\ stored' = stored
  BY DEF PlainWriteHeader, Call, Said
<1>2. AtRest /\ AtRest' /\ signer'.gor = <<>> /\ signer.gor = <<>>
  BY <1>1 DEF Signing, AtRest
<1>3. Head(todo).code \in Codes \cup {200} /\ (wire.status = 0 => Head(todo).code = Code)
  <2>1. CASE AllLeft
    BY <2>1, AllLeftCode
  <2>2. CASE Begun /\ todo = Error(500)
    <3>1. Head(todo) = WriteHeader(500) /\ WriteHeader(500).code = 500
      BY <2>2, ErrorCalls, HeaderCall
    <3>2. QED
      BY <1>2, <2>2, <3>1 DEF Begun, Codes
  <2>3. CASE Unencodable /\ ~Begun /\ todo = <<WriteHeader(200), WriteHeader(500), Write("error")>>
    <3>1. Head(todo) = WriteHeader(200)
      BY <2>3, Three
    <3>2. WriteHeader(200).code = 200
      BY HeaderCall
    <3>3. QED
      BY <2>3, <3>1, <3>2 DEF Unencodable
  <2>4. QED
    BY <1>1, <2>1, <2>2, <2>3, HeaderCases
<1> DEFINE code == Head(todo).code
<1>4. /\ DOMAIN wire' = DOMAIN wire /\ DOMAIN hdr' = DOMAIN hdr
      /\ wire'.status = (IF wire.status # 0 THEN wire.status ELSE code)
      /\ wire'.enc = (IF wire.status # 0 THEN wire.enc ELSE hdr.enc \/ w.gz)
      /\ wire'.texts = wire.texts /\ wire'.gone = wire.gone /\ wire'.gz = wire.gz
      /\ hdr'.enc = (hdr.enc \/ w.gz)
      /\ logged' = (IF w.log THEN code ELSE logged)
      /\ code \in Nat /\ code # 0
  BY <1>1, <1>3, HeaderSent
<1>5. Code' = Code /\ Begun' /\ wire'.status # 0
  BY <1>2, <1>3, <1>4 DEF Code, Begun
<1> HIDE DEF code
<1>6. Stage' /\ Silent' /\ Rpc'
  BY <1>1, SaidInv
<1>7. Records'
  BY <1>1, <1>4 DEF Records, Said
<1>8. Signing' /\ Covered'
  BY <1>1, <1>2 DEF Signing, Covered
<1>9. Answering' /\ Announced'
  <2>1. hdr'.enc => w'.gz
    BY <1>1, <1>4 DEF Announced
  <2>2. wire'.status # 0 /\ req'.route # "rpc" /\ req'.gz # "broken" => wire'.enc = w'.gz
    BY <1>1, <1>4 DEF Announced, Said, Records
  <2>3. CASE ~wire.gone /\ AllLeft
    <3>1. BodyLeft'
      BY <1>1, <1>4, <1>5, <2>3, AllLeftStep
    <3>2. wire.status = 0 /\ logged' = IF w.log THEN wire'.status ELSE 0
      BY <1>4, <2>3 DEF AllLeft, Begun, Announced, Refused, Granted
    <3>3. QED
      BY <1>1, <1>4, <1>5, <2>1, <2>2, <2>3, <3>1, <3>2, SameCode DEF Announced, Said
  <2>4. CASE Begun /\ todo = Error(500) /\ (Gone \/ Unencodable)
    <3>1. todo' = <<Write("error")>>
      BY <1>1, <2>4, ErrorCalls
    <3>2. Refused = Refused' /\ Granted = Granted'
      BY <1>1, <1>5 DEF Refused, Granted
    <3>3. Gone' \/ Unencodable'
      BY <1>1, <1>4, <1>5, <2>4, <3>1, <3>2 DEF Gone, Unencodable
    <3>4. wire'.gone \/ stored' = "nan"
      BY <1>1, <1>4, <2>4 DEF Gone, Unencodable
    <3>5. QED
      BY <1>1, <1>4, <1>5, <2>1, <2>2, <3>3, <3>4, SameCode DEF Announced, Said
  <2>5. CASE Unencodable /\ todo = <<WriteHeader(200), WriteHeader(500), Write("error")>>
    <3>1. todo' = Error(500)
      BY <1>1, <2>5, Three DEF Error
    <3>2. Unencodable' /\ stored' = "nan"
      BY <1>1, <1>5, <2>5, <3>1 DEF Unencodable
    <3>3. QED
      BY <1>1, <1>4, <1>5, <2>1, <2>2, <3>2, SameCode DEF Announced, Said
  <2>6. QED
    BY <1>1, <2>3, <2>4, <2>5, HeaderCases
<1>10. QED
  BY <1>6, <1>7, <1>8, <1>9

\* A text that is written after the header, or that finds the client gone.
LEMMA TextPut ==
    ASSUME HInv, Call("write"), wire.status # 0, PutText, Said
    PROVE  /\ Answering'
           /\ DOMAIN wire' = DOMAIN wire /\ wire'.status = wire.status
           /\ wire'.hash = wire.hash /\ wire'.enc = wire.enc
           /\ wire'.gz \in BOOLEAN /\ (wire'.gz => wire.gz \/ w.gz)
           /\ wire'.gone \in BOOLEAN /\ (wire.gone => wire'.gone)
           /\ w.signed => todo' = <<>> \/ todo' = Error(500)
           /\ w.signed /\ ~wire'.gone /\ stored # "nan"
              => todo' = <<>> /\ wire'.texts = <<Head(todo).text>>
<1> USE DEF HInv
<1>1. pc = "respond" /\ w' = w /\ stored' = stored
  BY DEF Call, Said
<1> DEFINE text == Head(todo).text
           Heard == /\ ~wire.gone /\ todo' = Tail(todo)
                    /\ wire' = [wire EXCEPT !.texts = Append(@, text), !.gz = @ \/ w.gz]
           Lost == /\ wire' = [wire EXCEPT !.gone = TRUE]
                   /\ todo' = IF Head(todo).checked THEN Error(500) ELSE Tail(todo)
<1>2. Heard \/ Lost
  BY DEF PutText, Started
<1>3. ASSUME Heard
      PROVE  /\ DOMAIN wire' = DOMAIN wire /\ wire'.status = wire.status /\ wire'.hash = wire.hash
             /\ wire'.enc = wire.enc /\ wire'.gz = (wire.gz \/ w.gz) /\ wire'.gone = wire.gone
             /\ wire'.texts = Append(wire.texts, text)
  BY <1>3 DEF Records
<1>4. ASSUME Lost
      PROVE  /\ DOMAIN wire' = DOMAIN wire /\ wire'.status = wire.status /\ wire'.hash = wire.hash
             /\ wire'.enc = wire.enc /\ wire'.gz = wire.gz /\ wire'.gone = TRUE
             /\ wire'.texts = wire.texts
  BY <1>4 DEF Records
<1>5. wire'.status = wire.status
  BY <1>2, <1>3, <1>4
<1>6. Code' = Code /\ Begun' /\ wire'.status # 0
  BY <1>5 DEF Code, Begun
<1>7. Refused = Refused' /\ Granted = Granted'
  BY <1>1, <1>6 DEF Refused, Granted
<1>8. /\ \A t : Write(t).text = t /\ Write(t).checked = FALSE
      /\ Encode.text = "json" /\ Encode.checked = TRUE
  BY WriteCall
<1> HIDE DEF text
<1>9. /\ \/ ~wire'.gone /\ (PageLeft' \/ NothingLeft')
         \/ Gone' \/ Unencodable'
      /\ w.signed => todo' = <<>> \/ todo' = Error(500)
      /\ w.signed /\ ~wire'.gone /\ stored # "nan" => todo' = <<>> /\ wire'.texts = <<text>>
  <2>1. ASSUME NEW x, todo = <<x>>
        PROVE  Head(todo) = x /\ Tail(todo) = <<>>
    BY <2>1, One
  <2>2. CASE ~wire.gone /\ BodyLeft /\ Refused /\ todo = <<Write("error")>>
    <3>1. text = "error" /\ Head(todo).checked = FALSE /\ Tail(todo) = <<>>
      BY <1>8, <2>1, <2>2 DEF text
    <3>2. CASE Heard
      <4>1. wire'.texts = <<"error">> /\ ~wire'.gone /\ todo' = <<>>
        BY <1>3, <2>2, <3>1, <3>2 DEF BodyLeft
      <4>2. QED
        BY <1>6, <1>7, <2>2, <3>1, <4>1 DEF NothingLeft
    <3>3. CASE Lost
      BY <1>4, <1>6, <1>7, <2>2, <3>1, <3>3 DEF Gone
    <3>4. QED
      BY <1>2, <3>2, <3>3
  <2>3. CASE ~wire.gone /\ BodyLeft /\ Granted /\ todo = <<Write("text")>>
    <3>1. text = "text" /\ Head(todo).checked = FALSE /\ Tail(todo) = <<>>
      BY <1>8, <2>1, <2>3 DEF text
    <3>2. CASE Heard
      <4>1. wire'.texts = <<"text">> /\ ~wire'.gone /\ todo' = <<>>
        BY <1>3, <2>3, <3>1, <3>2 DEF BodyLeft
      <4>2. QED
        BY <1>6, <1>7, <2>3, <3>1, <4>1 DEF NothingLeft
    <3>3. CASE Lost
      BY <1>4, <1>6, <1>7, <2>3, <3>1, <3>3 DEF Gone
    <3>4. QED
      BY <1>2, <3>2, <3>3
  <2>4. CASE ~wire.gone /\ BodyLeft /\ Granted /\ todo = <<Encode>>
    <3>1. text = "json" /\ Head(todo).checked = TRUE /\ Tail(todo) = <<>>
      BY <1>8, <2>1, <2>4 DEF text
    <3>2. CASE Heard
      <4>1. wire'.texts = <<"json">> /\ ~wire'.gone /\ todo' = <<>>
        BY <1>3, <2>4, <3>1, <3>2 DEF BodyLeft
      <4>2. QED
        BY <1>6, <1>7, <2>4, <3>1, <4>1 DEF NothingLeft
    <3>3. CASE Lost
      BY <1>4, <1>6, <1>7, <2>4, <3>1, <3>3 DEF Gone
    <3>4. QED
      BY <1>2, <3>2, <3>3
  <2>5. CASE ~wire.gone /\ BodyLeft /\ Granted /\ ~w.signed /\ todo = <<Write("text"), Write("text")>>
    <3>1. text = "text" /\ Head(todo).checked = FALSE /\ Tail(todo) = <<Write("text")>>
      BY <1>8, <2>5, Two DEF text
    <3>2. CASE Heard
      <4>1. wire'.texts = <<"text">> /\ ~wire'.gone /\ todo' = <<Write("text")>>
        BY <1>3, <2>5, <3>1, <3>2 DEF BodyLeft
      <4>2. QED
        BY <1>1, <1>6, <1>7, <2>5, <3>1, <4>1 DEF PageLeft
    <3>3. CASE Lost
      BY <1>1, <1>4, <1>6, <1>7, <2>5, <3>1, <3>3 DEF Gone
    <3>4. QED
      BY <1>2, <3>2, <3>3
  <2>6. CASE ~wire.gone /\ PageLeft
    <3>1. text = "text" /\ Head(todo).checked = FALSE /\ Tail(todo) = <<>>
      BY <1>8, <2>1, <2>6 DEF text, PageLeft
    <3>2. CASE Heard
      <4>1. wire'.texts = <<"text", "text">> /\ ~wire'.gone /\ todo' = <<>>
        BY <1>3, <2>6, <3>1, <3>2, AppendOne DEF PageLeft
      <4>2. QED
        BY <1>1, <1>6, <1>7, <2>6, <3>1, <4>1 DEF NothingLeft, PageLeft
    <3>3. CASE Lost
      BY <1>4, <1>6, <1>7, <2>6, <3>1, <3>3 DEF Gone, PageLeft
    <3>4. QED
      BY <1>2, <3>2, <3>3
  <2>7. CASE Gone /\ (todo = <<Write("error")>> \/ (~w.signed /\ todo = <<Write("text")>>))
    <3>1. Head(todo).checked = FALSE /\ Tail(todo) = <<>> /\ wire.gone
      BY <1>8, <2>1, <2>7 DEF Gone
    <3>2. QED
      BY <1>2, <1>4, <1>6, <1>7, <2>7, <3>1 DEF Gone
  <2>8. CASE Unencodable /\ Begun /\ todo = <<Write("error")>>
    <3>1. Head(todo).checked = FALSE /\ Tail(todo) = <<>>
      BY <1>8, <2>1, <2>8
    <3>2. QED
      BY <1>1, <1>2, <1>6, <2>8, <3>1 DEF Unencodable
  <2>9. QED
    BY <2>2, <2>3, <2>4, <2>5, <2>6, <2>7, <2>8, WriteCases DEF BodyLeft
<1>10. Answering'
  BY <1>1, <1>6, <1>9, SameCode
<1>11. QED
  BY <1>2, <1>3, <1>4, <1>9, <1>10 DEF text, Records

LEMMA PlainWriteInv == HInv /\ PlainWrite => HInv'
<1> SUFFICES ASSUME HInv, PlainWrite PROVE HInv'
  OBVIOUS
<1> USE DEF HInv
<1>1. /\ pc = "respond" /\ Call("write") /\ ~w.signed /\ Said /\ PutText
      /\ UNCHANGED <<signer, hdr, logged>>
  BY DEF PlainWrite, Call, Said
<1>2. AtRest /\ AtRest' /\ signer.gor = <<>>
  BY <1>1 DEF Signing, AtRest
<1>3. wire.status # 0
  BY <1>1, <1>2, WriteCases DEF BodyLeft, PageLeft, Gone, Begun
<1>4. /\ Answering'
      /\ DOMAIN wire' = DOMAIN wire /\ wire'.status = wire.status /\ wire'.enc = wire.enc
      /\ wire'.gz \in BOOLEAN /\ (wire'.gz => wire.gz \/ w.gz)
      /\ wire'.gone \in BOOLEAN /\ (wire.gone => wire'.gone)
  BY <1>1, <1>3, TextPut
<1>5. Stage' /\ Silent' /\ Rpc'
  BY <1>1, SaidInv
<1>6. Records'
  BY <1>1, <1>4 DEF Records, Said
<1>7. Signing' /\ Covered' /\ Announced'
  BY <1>1, <1>2, <1>4 DEF Signing, Covered, Announced, Said
<1>8. QED
  BY <1>4, <1>5, <1>6, <1>7

-----------------------------------------------------------------------------
(* The signer and its goroutine.                                            *)

\* Steps that say nothing new.
LEMMA Unmoved ==
    ASSUME HInv, pc = "respond", Said, todo' = todo, Begun' = Begun, Code' = Code,
           wire'.texts = wire.texts, wire'.gone = wire.gone,
           wire.status # 0 => wire'.status # 0
    PROVE  Answering'
<1>1. w' = w /\ req' = req /\ stored' = stored /\ req.route # "rpc"
  BY DEF Said, HInv, Stage
<1>2. Refused = Refused' /\ Granted = Granted'
  BY <1>1 DEF Refused, Granted
<1>3. CASE ~wire.gone /\ AllLeft
  BY <1>1, <1>2, <1>3, SameCode DEF AllLeft
<1>4. CASE ~wire.gone /\ BodyLeft
  BY <1>1, <1>2, <1>4, SameCode DEF BodyLeft
<1>5. CASE ~wire.gone /\ PageLeft
  BY <1>1, <1>2, <1>5, SameCode DEF PageLeft
<1>6. CASE ~wire.gone /\ NothingLeft
  BY <1>1, <1>2, <1>6, SameCode DEF NothingLeft
<1>7. CASE Gone
  BY <1>1, <1>2, <1>7, SameCode DEF Gone
<1>8. CASE Unencodable
  BY <1>1, <1>2, <1>8, SameCode DEF Unencodable
<1>9. QED
  BY <1>1, <1>3, <1>4, <1>5, <1>6, <1>7, <1>8 DEF HInv, Answering

\* A write under the signer waits for a goroutine.
Texts == {<<Write("error")>>, <<Write("text")>>, <<Encode>>}

LEMMA SingleText ==
    ASSUME todo \in Texts
    PROVE  todo # <<>> /\ Head(todo).op = "write"
<1>1. Write("error").op = "write" /\ Write("text").op = "write" /\ Encode.op = "write"
  BY WriteCall
<1>2. QED
  BY <1>1, One DEF Texts

LEMMA SignWriteHeaderInv == HInv /\ SignWriteHeader => HInv'
<1> SUFFICES ASSUME HInv, SignWriteHeader PROVE HInv'
  OBVIOUS
<1> USE DEF HInv
<1> DEFINE g == [code |-> Head(todo).code, at |-> "wait"]
<1>1. /\ pc = "respond" /\ Call("header") /\ w.signed /\ Said /\ todo' = Tail(todo)
      /\ signer' = [signer EXCEPT !.gor = Append(@, g)]
      /\ w' = w /\ stored' = stored /\ UNCHANGED <<hdr, wire, logged>>
      /\ todo # <<>> /\ Head(todo).op = "header"
  BY DEF SignWriteHeader, Call, Said
<1>2. AtRest
  BY <1>1, SingleText DEF Signing, Texts
<1>3. /\ signer'.gor = <<g>> /\ signer'.at = "idle" /\ signer'.setDone = FALSE
      /\ signer'.sendDone = FALSE /\ signer'.sum = signer.sum /\ DOMAIN signer' = DOMAIN signer
  BY <1>1, <1>2, AppendOne DEF AtRest, Records
<1>4. g.code = Head(todo).code
  OBVIOUS
<1> HIDE DEF g
<1>5. Begun' /\ signer'.gor # <<>> /\ signer'.gor[1] = g
  BY <1>3 DEF Begun
<1>6. /\ Answering' /\ todo' \in Texts /\ Head(todo).code \in Codes \cup {200}
      /\ wire.gone \/ wire.status = 0
  <2>1. CASE ~wire.gone /\ AllLeft
    <3>1. wire.status = 0 /\ Head(todo).code = Code /\ Code \in Codes \cup {200}
      BY <2>1, AllLeftCode DEF AllLeft, Begun
    <3>2. Code' = Code
      <4>1. wire'.status = 0 /\ signer'.gor # <<>> /\ signer'.gor[1].code = Code
        BY <1>1, <1>4, <1>5, <3>1
      <4>2. QED
        BY <4>1 DEF Code
    <3>3. BodyLeft'
      BY <1>1, <1>5, <2>1, <3>2, AllLeftStep
    <3>4. QED
      BY <1>1, <2>1, <3>1, <3>2, <3>3, SameCode DEF BodyLeft, Texts
  <2>2. CASE Gone /\ todo = Error(500)
    <3>1. todo' = <<Write("error")>>
      BY <1>1, <2>2, ErrorCalls
    <3>2. Head(todo) = WriteHeader(500)
      BY <2>2, ErrorCalls
    <3>3. WriteHeader(500).code = 500
      BY HeaderCall
    <3>4. Code' = Code
      BY <1>1, <2>2 DEF Code, Gone
    <3>5. Refused = Refused' /\ Granted = Granted'
      BY <1>1, <3>4 DEF Refused, Granted
    <3>6. Gone'
      BY <1>1, <2>2, <3>1, <3>5 DEF Gone
    <3>7. QED
      BY <1>1, <2>2, <3>1, <3>2, <3>3, <3>4, <3>6, SameCode DEF Gone, Texts, Codes
  <2>3. ~Unencodable
    BY <1>1 DEF Unencodable
  <2>4. QED
    BY <1>1, <2>1, <2>2, <2>3, HeaderCases
<1>7. Stage' /\ Silent' /\ Rpc'
  BY <1>1, SaidInv
<1>8. Records' /\ Announced'
  BY <1>1, <1>3 DEF Records, Announced, Said
<1>9. Signing'
  <2>1. Turn("idle", "wait", FALSE, FALSE)'
    BY <1>3, <1>6 DEF Turn, g
  <2>2. QED
    BY <1>1, <1>6, <2>1 DEF Signing, Texts, Said
<1>10. Covered'
  <2>1. todo' # <<>>
    BY <1>6, One DEF Texts
  <2>2. QED
    BY <1>1, <1>2, <1>3, <2>1 DEF Covered, Said, AtRest
<1>11. QED
  BY <1>6, <1>7, <1>8, <1>9, <1>10

\* Whatever the signer does after a WriteHeader, it is at one of its turns.
LEMMA InTurn ==
    ASSUME HInv, ~AtRest \/ (w.signed /\ Call("write"))
    PROVE  /\ pc = "respond" /\ w.signed /\ todo \in Texts /\ Call("write")
           /\ \/ Turn("idle", "wait", FALSE, FALSE) /\ (wire.gone \/ wire.status = 0)
              \/ Turn("set", "wait", FALSE, FALSE) /\ (wire.gone \/ wire.status = 0)
              \/ Turn("told", "wait", TRUE, FALSE) /\ (wire.gone \/ wire.status = 0)
              \/ Turn("told", "send", FALSE, FALSE) /\ (wire.gone \/ wire.status = 0)
              \/ Turn("told", "tell", FALSE, FALSE) /\ wire.status # 0
              \/ Turn("told", "none", FALSE, TRUE) /\ wire.status # 0
<1>1. ~(AtRest /\ (todo = <<>> \/ ~w.signed \/ Head(todo).op = "header"))
  BY DEF Call
<1>2. pc = "respond" /\ w.signed /\ todo \in Texts
  BY <1>1 DEF HInv, Signing, Texts
<1>3. Call("write")
  BY <1>2, SingleText DEF Call
<1>4. QED
  BY <1>1, <1>2, <1>3 DEF HInv, Signing

\* A turn from which only the goroutine and the channels move.
LEMMA TurnInv ==
    ASSUME HInv, pc = "respond", w.signed, todo \in Texts, Said,
           UNCHANGED <<todo, wire, logged>>, DOMAIN signer' = DOMAIN signer, Records',
           Begun' = Begun, Code' = Code, hdr'.enc = hdr.enc
    PROVE  Stage' /\ Silent' /\ Rpc' /\ Answering' /\ Announced'
<1>1. Stage' /\ Silent' /\ Rpc'
  BY SaidInv
<1>2. Answering'
  BY Unmoved
<1>3. Announced'
  BY DEF HInv, Announced, Said
<1>4. QED
  BY <1>1, <1>2, <1>3

LEMMA SignSetInv == HInv /\ SignSet => HInv'
<1> SUFFICES ASSUME HInv, SignSet PROVE HInv'
  OBVIOUS
<1> USE DEF HInv
<1> DEFINE sum == Append(signer.sum, Chunk(Head(todo).text))
<1>1. /\ Call("write") /\ w.signed /\ signer.at = "idle" /\ Said
      /\ signer' = [signer EXCEPT !.sum = sum, !.at = "set"]
      /\ hdr' = [hdr EXCEPT !.hash = HMAC(conf.key, sum)]
      /\ UNCHANGED <<todo, wire, logged>>
  BY DEF SignSet, Said
<1> HIDE DEF sum
<1>2. /\ pc = "respond" /\ todo \in Texts /\ Turn("idle", "wait", FALSE, FALSE)
      /\ wire.gone \/ wire.status = 0
  BY <1>1, InTurn DEF Turn
<1>3. /\ signer'.gor = signer.gor /\ signer'.at = "set" /\ signer'.setDone = signer.setDone
      /\ signer'.sendDone = signer.sendDone /\ signer'.sum = sum /\ DOMAIN signer' = DOMAIN signer
      /\ hdr'.hash = HMAC(conf.key, sum) /\ hdr'.enc = hdr.enc /\ DOMAIN hdr' = DOMAIN hdr
  BY <1>1 DEF Records
<1>4. Records'
  BY <1>1, <1>3 DEF Records, Said
<1>5. Begun' = Begun /\ Code' = Code
  BY <1>1, <1>3 DEF Begun, Code
<1>6. Stage' /\ Silent' /\ Rpc' /\ Answering' /\ Announced'
  BY <1>1, <1>2, <1>3, <1>4, <1>5, TurnInv
<1>7. Signing'
  <2>1. Turn("set", "wait", FALSE, FALSE)'
    BY <1>2, <1>3 DEF Turn
  <2>2. QED
    BY <1>1, <1>2, <2>1 DEF Signing, Texts, Said
<1>8. Covered'
  <2>1. todo # <<>>
    BY <1>2, SingleText
  <2>2. QED
    BY <1>1, <1>2, <1>3, <2>1 DEF Covered, Said, sum
<1>9. QED
  BY <1>4, <1>6, <1>7, <1>8

LEMMA SignSetDoneInv == HInv /\ SignSetDone => HInv'
<1> SUFFICES ASSUME HInv, SignSetDone PROVE HInv'
  OBVIOUS
<1> USE DEF HInv
<1>1. /\ signer.at = "set" /\ Said /\ signer' = [signer EXCEPT !.setDone = TRUE, !.at = "told"]
      /\ UNCHANGED <<todo, wire, hdr, logged>>
  BY DEF SignSetDone, Said
<1>2. /\ pc = "respond" /\ w.signed /\ todo \in Texts /\ Turn("set", "wait", FALSE, FALSE)
      /\ wire.gone \/ wire.status = 0
  BY <1>1, InTurn DEF Turn, AtRest
<1>3. /\ signer'.gor = signer.gor /\ signer'.at = "told" /\ signer'.setDone = TRUE
      /\ signer'.sendDone = signer.sendDone /\ signer'.sum = signer.sum
      /\ DOMAIN signer' = DOMAIN signer
  BY <1>1 DEF Records
<1>4. Records'
  BY <1>1, <1>3 DEF Records, Said
<1>5. Begun' = Begun /\ Code' = Code
  BY <1>1, <1>3 DEF Begun, Code
<1>6. Stage' /\ Silent' /\ Rpc' /\ Answering' /\ Announced'
  BY <1>1, <1>2, <1>3, <1>4, <1>5, TurnInv
<1>7. Signing'
  <2>1. Turn("told", "wait", TRUE, FALSE)'
    BY <1>2, <1>3 DEF Turn
  <2>2. QED
    BY <1>1, <1>2, <2>1 DEF Signing, Texts, Said
<1>8. Covered'
  BY <1>1, <1>2, <1>3, SingleText DEF Covered, Said
<1>9. QED
  BY <1>4, <1>6, <1>7, <1>8

LEMMA SignWriteInv == HInv /\ SignWrite => HInv'
<1> SUFFICES ASSUME HInv, SignWrite PROVE HInv'
  OBVIOUS
<1> USE DEF HInv
<1>1. /\ signer.at = "told" /\ signer.sendDone /\ Said /\ PutText
      /\ signer' = [signer EXCEPT !.sendDone = FALSE, !.at = "idle"] /\ UNCHANGED <<hdr, logged>>
  BY DEF SignWrite, Said
<1>2. /\ pc = "respond" /\ w.signed /\ todo \in Texts /\ Call("write") /\ wire.status # 0
      /\ Turn("told", "none", FALSE, TRUE)
  BY <1>1, InTurn DEF Turn, AtRest
<1>3. /\ signer'.gor = <<>> /\ signer'.at = "idle" /\ signer'.setDone = FALSE
      /\ signer'.sendDone = FALSE /\ signer'.sum = signer.sum /\ DOMAIN signer' = DOMAIN signer
  BY <1>1, <1>2 DEF Records, Turn
<1>4. /\ Answering'
      /\ DOMAIN wire' = DOMAIN wire /\ wire'.status = wire.status
      /\ wire'.hash = wire.hash /\ wire'.enc = wire.enc
      /\ wire'.gz \in BOOLEAN /\ (wire'.gz => wire.gz \/ w.gz)
      /\ wire'.gone \in BOOLEAN /\ (wire.gone => wire'.gone)
      /\ todo' = <<>> \/ todo' = Error(500)
      /\ ~wire'.gone /\ stored # "nan" => todo' = <<>> /\ wire'.texts = <<Head(todo).text>>
  BY <1>1, <1>2, TextPut
<1>5. Stage' /\ Silent' /\ Rpc'
  BY <1>1, <1>2, SaidInv
<1>6. Records'
  BY <1>1, <1>3, <1>4 DEF Records, Said
<1>7. Announced'
  BY <1>1, <1>2, <1>4 DEF Announced, Said
<1>8. Signing'
  <2>1. AtRest'
    BY <1>3 DEF AtRest
  <2>2. Head(Error(500)) = WriteHeader(500)
    BY ErrorCalls
  <2>3. WriteHeader(500).op = "header"
    BY HeaderCall
  <2>4. QED
    BY <1>4, <2>1, <2>2, <2>3 DEF Signing
<1>9. Covered'
  <2>1. SUFFICES ASSUME ~wire'.gone PROVE Covered'
    BY DEF Covered
  <2>2. stored # "nan" /\ ~wire.gone
    BY <1>2, <1>4, <2>1 DEF Stage, Records
  <2>3. todo' = <<>> /\ wire'.texts = <<Head(todo).text>>
    BY <1>4, <2>1, <2>2
  <2>4. wire'.texts[1] = Head(todo).text
    BY <2>3
  <2>5. QED
    BY <1>1, <1>2, <1>3, <1>4, <2>2, <2>3, <2>4 DEF Covered, Said
<1>10. QED
  BY <1>4, <1>5, <1>6, <1>7, <1>8, <1>9

LEMMA HeaderGoroutineInv ==
    ASSUME HInv, NEW i \in 1..2, HeaderGoroutine(i)
    PROVE  HInv'
<1> USE DEF HInv
<1>1. Said /\ todo' = todo /\ i \in DOMAIN signer.gor
  BY DEF HeaderGoroutine, Said
<1>2. signer.gor # <<>>
  BY <1>1
<1>3. PICK at \in {"wait", "send", "tell"}, c \in Codes \cup {200} :
         signer.gor = <<[code |-> c, at |-> at]>>
  BY <1>2, InTurn DEF Turn, AtRest
<1>4. i = 1 /\ signer.gor[i].at = at /\ signer.gor[i].code = c
  BY <1>1, <1>3
<1>5. /\ pc = "respond" /\ w.signed /\ todo \in Texts
      /\ signer.gor[i].at = "wait" /\ signer.setDone
         => Turn("told", "wait", TRUE, FALSE) /\ (wire.gone \/ wire.status = 0)
      /\ signer.gor[i].at = "send"
         => Turn("told", "send", FALSE, FALSE) /\ (wire.gone \/ wire.status = 0)
      /\ signer.gor[i].at = "tell" => Turn("told", "tell", FALSE, FALSE) /\ wire.status # 0
  <2>1. ASSUME NEW a, NEW g, NEW x, NEW y, Turn(a, g, x, y)
        PROVE  signer.gor[1].at = g /\ signer.setDone = x
    <3>1. g # "none" /\ signer.setDone = x
      BY <1>2, <2>1 DEF Turn
    <3>2. PICK d \in Codes \cup {200} : signer.gor = <<[code |-> d, at |-> g]>>
      BY <2>1, <3>1 DEF Turn
    <3>3. QED
      BY <3>1, <3>2
  <2>2. ~AtRest
    BY <1>2 DEF AtRest
  <2>3. QED
    BY <1>4, <2>1, <2>2, InTurn
<1>6. CASE /\ signer.gor[i].at = "wait" /\ signer.setDone
           /\ signer' = [signer EXCEPT !.gor[i].at = "send", !.setDone = FALSE]
           /\ UNCHANGED <<hdr, wire, logged>>
  <2>1. /\ signer'.gor = <<[code |-> c, at |-> "send"]>> /\ signer'.at = signer.at
        /\ signer'.setDone = FALSE /\ signer'.sendDone = signer.sendDone
        /\ signer'.sum = signer.sum /\ DOMAIN signer' = DOMAIN signer
    BY <1>3, <1>4, <1>6 DEF Records
  <2>2. signer'.gor # <<>> /\ signer'.gor[1].code = c /\ signer.gor[1].code = c
    BY <1>4, <2>1
  <2>3. Records'
    BY <1>1, <1>6, <2>1 DEF Records, Said
  <2>4. Begun' = Begun /\ Code' = Code
    BY <1>1, <1>2, <1>6, <2>2 DEF Begun, Code
  <2>5. Stage' /\ Silent' /\ Rpc' /\ Answering' /\ Announced'
    BY <1>1, <1>5, <1>6, <2>1, <2>3, <2>4, TurnInv
  <2>6. Signing'
    <3>1. Turn("told", "send", FALSE, FALSE)'
      BY <1>5, <1>6, <2>1 DEF Turn
    <3>2. QED
      BY <1>1, <1>5, <1>6, <3>1 DEF Signing, Texts, Said
  <2>7. Covered'
    BY <1>1, <1>5, <1>6, <2>1, SingleText DEF Covered, Said
  <2>8. QED
    BY <2>3, <2>5, <2>6, <2>7
<1>7. CASE /\ signer.gor[i].at = "send" /\ SendHeader(w.gz, signer.gor[i].code)
           /\ signer' = [signer EXCEPT !.gor[i].at = "tell"]
  <2>1. /\ signer'.gor = <<[code |-> c, at |-> "tell"]>> /\ signer'.at = signer.at
        /\ signer'.setDone = signer.setDone /\ signer'.sendDone = signer.sendDone
        /\ signer'.sum = signer.sum /\ DOMAIN signer' = DOMAIN signer
    BY <1>3, <1>4, <1>7 DEF Records
  <2>2. /\ DOMAIN wire' = DOMAIN wire /\ DOMAIN hdr' = DOMAIN hdr
        /\ wire'.status = (IF wire.status # 0 THEN wire.status ELSE c)
        /\ wire'.hash = (IF wire.status # 0 THEN wire.hash ELSE hdr.hash)
        /\ wire'.enc = (IF wire.status # 0 THEN wire.enc ELSE hdr.enc \/ w.gz)
        /\ wire'.texts = wire.texts /\ wire'.gone = wire.gone /\ wire'.gz = wire.gz
        /\ hdr'.enc = (hdr.enc \/ w.gz) /\ hdr'.hash = hdr.hash
        /\ logged' = (IF w.log THEN c ELSE logged)
        /\ c \in Nat /\ c # 0
    <3>1. SendHeader(w.gz, c) /\ w' = w
      BY <1>1, <1>4, <1>7 DEF Said
    <3>2. QED
      BY <3>1, HeaderSent
  <2>3. wire'.status # 0 /\ signer.gor[1].code = c
    BY <1>4, <2>2
  <2>4. Begun' = Begun /\ Code' = Code
    BY <1>2, <2>2, <2>3 DEF Begun, Code
  <2>5. Records'
    BY <1>1, <2>1, <2>2 DEF Records, Said
  <2>6. Stage' /\ Silent' /\ Rpc'
    BY <1>1, <1>5, SaidInv
  <2>7. Answering'
    BY <1>1, <1>5, <2>2, <2>3, <2>4, Unmoved
  <2>8. Announced'
    BY <1>1, <1>5, <1>7, <2>2 DEF Announced, Said, Records
  <2>9. Signing'
    <3>1. Turn("told", "tell", FALSE, FALSE)'
      BY <1>5, <1>7, <2>1 DEF Turn
    <3>2. QED
      BY <1>1, <1>5, <2>3, <3>1 DEF Signing, Texts, Said
  <2>10. Covered'
    <3>1. todo # <<>> /\ signer.at = "told" /\ (wire.gone \/ wire.status = 0)
      BY <1>5, <1>7, SingleText DEF Turn
    <3>2. QED
      BY <1>1, <1>5, <2>1, <2>2, <3>1 DEF Covered, Said
  <2>11. QED
    BY <2>5, <2>6, <2>7, <2>8, <2>9, <2>10
<1>8. CASE /\ signer.gor[i].at = "tell" /\ ~signer.sendDone
           /\ signer' = [signer EXCEPT !.gor = RemoveAt(@, i), !.sendDone = TRUE]
           /\ UNCHANGED <<hdr, wire, logged>>
  <2>1. RemoveAt(signer.gor, i) = <<>>
    BY <1>3, <1>4 DEF RemoveAt
  <2>2. /\ signer'.gor = <<>> /\ signer'.at = signer.at
        /\ signer'.setDone = signer.setDone /\ signer'.sendDone = TRUE
        /\ signer'.sum = signer.sum /\ DOMAIN signer' = DOMAIN signer
    BY <1>8, <2>1 DEF Records
  <2>3. Records'
    BY <1>1, <1>8, <2>2 DEF Records, Said
  <2>4. Begun' = Begun /\ Code' = Code
    BY <1>1, <1>5, <1>8 DEF Begun, Code
  <2>5. Stage' /\ Silent' /\ Rpc' /\ Answering' /\ Announced'
    BY <1>1, <1>5, <1>8, <2>2, <2>3, <2>4, TurnInv
  <2>6. Signing'
    <3>1. Turn("told", "none", FALSE, TRUE)'
      BY <1>5, <1>8, <2>2 DEF Turn
    <3>2. QED
      BY <1>1, <1>5, <1>8, <3>1 DEF Signing, Texts, Said
  <2>7. Covered'
    BY <1>1, <1>5, <1>8, <2>2, SingleText DEF Covered, Said
  <2>8. QED
    BY <2>3, <2>5, <2>6, <2>7
<1>9. QED
  BY <1>6, <1>7, <1>8 DEF HeaderGoroutine

LEMMA ReturnInv == HInv /\ Return => HInv'
<1> SUFFICES ASSUME HInv, Return PROVE HInv'
  OBVIOUS
<1> USE DEF HInv
<1>1. /\ pc = "respond" /\ todo = <<>> /\ pc' = "done" /\ req.route # "rpc"
      /\ UNCHANGED <<dep, req, conf, w, body, todo, signer, hdr, logged, stored, reached>>
  BY DEF Return, Stage
<1>2. AtRest /\ AtRest' /\ signer.gor = <<>>
  BY <1>1, InTurn, SingleText DEF AtRest
<1>3. wire.status # 0
  BY <1>1, <1>2, ErrorCalls, One, Two, Three
     DEF Answering, AllLeft, BodyLeft, PageLeft, NothingLeft, Gone, Unencodable, Begun
<1>4. wire' = IF w.gz /\ ~wire.gone THEN [wire EXCEPT !.gz = TRUE] ELSE wire
  BY <1>3 DEF Return, Started
<1>5. /\ DOMAIN wire' = DOMAIN wire /\ wire'.status = wire.status /\ wire'.hash = wire.hash
      /\ wire'.enc = wire.enc /\ wire'.texts = wire.texts /\ wire'.gone = wire.gone
      /\ wire'.gz = (IF w.gz /\ ~wire.gone THEN TRUE ELSE wire.gz)
  BY <1>4 DEF Records
<1>6. Records' /\ Silent' /\ Rpc'
  BY <1>1, <1>5 DEF Records, Silent, Rpc
<1>7. Stage'
  BY <1>1 DEF Stage, Routes, Updates, Trusted, RealIP
<1>8. Signing' /\ Covered'
  BY <1>1, <1>2, <1>5 DEF Signing, Covered
<1>9. Announced'
  BY <1>1, <1>5 DEF Announced, Records
<1>10. Answering'
  <2>1. Code' = Code /\ Begun' = Begun
    BY <1>1, <1>3, <1>5 DEF Code, Begun
  <2>2. Refused = Refused' /\ Granted = Granted' /\ Trusted(RealIP(req))' = Trusted(RealIP(req))
    BY <1>1, <2>1 DEF Refused, Granted, Trusted, RealIP
  <2>3. AllLeft' = AllLeft /\ BodyLeft' = BodyLeft /\ PageLeft' = PageLeft
    BY <1>1, <1>3, <1>5, <2>1, <2>2 DEF AllLeft, BodyLeft, PageLeft
  <2>4. NothingLeft' = NothingLeft /\ Gone' = Gone /\ Unencodable' = Unencodable
    BY <1>1, <1>3, <1>5, <2>1, <2>2 DEF NothingLeft, Gone, Unencodable
  <2>5. QED
    BY <1>1, <1>5, <2>1, <2>2, <2>3, <2>4 DEF Answering
<1>11. QED
  BY <1>6, <1>7, <1>8, <1>9, <1>10

-----------------------------------------------------------------------------
LEMMA NextInv == HInv /\ [Next]_vars => HInv'
<1> SUFFICES ASSUME HInv, [Next]_vars PROVE HInv'
  OBVIOUS
<1>1. CASE Start
  BY <1>1, StartInv
<1>2. CASE Serve
  BY <1>2, CheckIPInv, WriteLoggingInv, GzipCompDecompInv, SignCheckInv,
     AsymmetricDencryptDataInv, HandleInv DEF Serve
<1>3. CASE SendMetrics
  BY <1>3, SendMetricsInv
<1>4. CASE PlainWriteHeader \/ PlainWrite
  BY <1>4, PlainWriteHeaderInv, PlainWriteInv
<1>5. CASE Sign
  BY <1>5, SignWriteHeaderInv, SignSetInv, SignSetDoneInv, SignWriteInv DEF Sign
<1>6. CASE Return
  BY <1>6, ReturnInv
<1>7. CASE \E i \in 1..2 : HeaderGoroutine(i)
  BY <1>7, HeaderGoroutineInv
<1>8. CASE UNCHANGED vars
  <2> USE <1>8 DEF vars, HInv
  <2>1. Records' /\ Silent' /\ Rpc'
    BY DEF Records, Silent, Rpc, AtRest, Trusted
  <2>2. Stage'
    BY DEF Stage, Trusted, RealIP
  <2>3. AllLeft' = AllLeft /\ BodyLeft' = BodyLeft /\ PageLeft' = PageLeft
    BY DEF AllLeft, BodyLeft, PageLeft, Begun, Code, Refused, Granted
  <2>4. NothingLeft' = NothingLeft /\ Gone' = Gone /\ Unencodable' = Unencodable
    BY DEF NothingLeft, Gone, Unencodable, Begun, Code, Refused, Granted
  <2>5. Answering'
    BY <2>3, <2>4 DEF Answering, Code, Trusted, RealIP
  <2>6. Signing' /\ Covered' /\ Announced'
    BY DEF Signing, Covered, Announced, AtRest, Turn
  <2>7. QED
    BY <2>1, <2>2, <2>5, <2>6
<1>9. QED
  BY <1>1, <1>2, <1>3, <1>4, <1>5, <1>6, <1>7, <1>8 DEF Next

\* The inductive invariant of the request path: for any deployment and any
\* request, what is left of the answer, whose turn it is in the signer and what
\* the hash has taken in (chiRouter's chain and the writers it wraps).
THEOREM HttpRequestInvariant == Spec => []HInv
<1>1. Init => HInv
  BY InitInv
<1>2. HInv /\ [Next]_vars => HInv'
  BY NextInv
<1>3. QED
  BY <1>1, <1>2, PTL DEF Spec

\* No goroutine of signResponseWriter.WriteHeader outlives its request, and both
\* channels are empty: every round of the hand-over is completed.
THEOREM SignerEndsAtRest == Spec => []SignerAtRest
<1>1. HInv => SignerAtRest
  <2>1. SUFFICES ASSUME HInv, pc = "done" PROVE AtRest
    BY DEF SignerAtRest, AtRest
  <2>2. QED
    BY <2>1, InTurn
<1>2. QED
  BY <1>1, HttpRequestInvariant, PTL

\* When a request over HTTP is over, its header has been sent and all was said.
LEMMA AtTheEnd ==
    ASSUME HInv, pc = "done", req.route # "rpc"
    PROVE  /\ todo = <<>> /\ wire.status # 0 /\ Code = wire.status
           /\ (~wire.gone /\ NothingLeft) \/ Gone \/ Unencodable
<1>1. AtRest
  BY InTurn
<1>2. todo = <<>>
  BY DEF HInv, Answering
<1>3. /\ wire.status # 0
      /\ (~wire.gone /\ NothingLeft) \/ Gone \/ Unencodable
  BY <1>1, <1>2, ErrorCalls, One, Two, Three DEF HInv, Answering, AllLeft, BodyLeft,
     PageLeft, NothingLeft, Gone, Unencodable, Begun, AtRest
<1>4. QED
  BY <1>2, <1>3 DEF Code

\* An update is answered 200 exactly when the store took it, whatever the
\* middlewares and a client that goes away do to the answer (updateMetrics,
\* updateMetricsJSON, updateBatchMetricsJSON).
THEOREM AnswersTellTheStore == Spec => []AnswerTellsStore
<1>1. HInv => AnswerTellsStore
  <2>1. SUFFICES ASSUME HInv, pc = "done", req.route \in Updates
                 PROVE  wire.status = 200 <=> stored = "ok"
    BY DEF AnswerTellsStore
  <2>2. stored \in {"none", "failed", "ok"} /\ req.route # "rpc"
    BY <2>1 DEF HInv, Stage, Updates
  <2>3. Code = wire.status /\ (Refused \/ Granted)
    BY <2>1, <2>2, AtTheEnd DEF NothingLeft, Gone, Unencodable
  <2>4. QED
    BY <2>2, <2>3 DEF Refused, Granted, Codes
<1>2. QED
  BY <1>1, HttpRequestInvariant, PTL

\* A client that stays gets one answer: error text exactly with an error status,
\* Content-Encoding exactly on a compressed body, and the status in the log
\* (compressWriter, loggingResponseWriter); not so after a value that cannot be
\* encoded nor after a broken gzip header.
THEOREM AnswersAreWhole == Spec => []AnswerIsWhole
<1>1. HInv => AnswerIsWhole
  <2>1. SUFFICES ASSUME HInv, pc = "done", req.route # "rpc", ~wire.gone, stored # "nan",
                        req.gz # "broken"
                 PROVE  /\ (wire.status = 200) <=> ("error" \notin ToSet(wire.texts))
                        /\ wire.enc <=> wire.gz
                        /\ logged = IF wire.status = 403 THEN 0 ELSE wire.status
    BY DEF AnswerIsWhole
  <2>2. wire.status # 0 /\ Code = wire.status /\ NothingLeft
    BY <2>1, AtTheEnd DEF Gone, Unencodable
  <2>3. (wire.status = 200) <=> ("error" \notin ToSet(wire.texts))
    <3>1. CASE Refused /\ wire.texts = <<"error">>
      <4>1. 1 \in DOMAIN wire.texts /\ wire.texts[1] = "error"
        BY <3>1
      <4>2. QED
        BY <2>2, <3>1, <4>1 DEF Refused, Codes, ToSet
    <3>2. CASE Granted
      <4>1. wire.texts \in {<<"text">>, <<"json">>, <<"text", "text">>}
        BY <2>1, <2>2, <3>2 DEF NothingLeft, Refused, Granted
      <4>2. \A n \in DOMAIN wire.texts : wire.texts[n] # "error"
        BY <4>1
      <4>3. QED
        BY <2>2, <3>2, <4>2 DEF Granted, ToSet
    <3>3. QED
      BY <2>1, <2>2, <3>1, <3>2 DEF NothingLeft
  <2>4. wire.enc <=> wire.gz
    BY <2>1, <2>2 DEF HInv, Announced, Records
  <2>5. logged = IF wire.status = 403 THEN 0 ELSE wire.status
    BY <2>1, <2>2 DEF HInv, Announced, Stage, Answering
  <2>6. QED
    BY <2>3, <2>4, <2>5
<1>2. QED
  BY <1>1, HttpRequestInvariant, PTL

\* The hash in the header covers the signed request and the whole body, although
\* the header is sent first and by another goroutine (signResponseWriter.Write).
THEOREM SignaturesCoverAnswers == Spec => []SignatureCoversAnswer
<1>1. HInv => SignatureCoversAnswer
  <2> DEFINE asked == IF req.sig.form = "none" THEN <<>> ELSE <<req.body>>
             said == [i \in DOMAIN wire.texts |-> Chunk(wire.texts[i])]
  <2>1. SUFFICES ASSUME HInv, pc = "done", w.signed, ~wire.gone
                 PROVE  wire.hash = HMAC(conf.key, asked \o said)
    BY DEF SignatureCoversAnswer
  <2>2. req.route # "rpc"
    BY <2>1 DEF HInv, Stage, Updates
  <2>3. todo = <<>> /\ NothingLeft
    BY <2>1, <2>2, AtTheEnd DEF Gone, Unencodable
  <2>4. wire.texts \in {<<"error">>, <<"text">>, <<"json">>}
    BY <2>1, <2>3 DEF NothingLeft
  <2>5. DOMAIN wire.texts = 1..1
    BY <2>4
  <2>6. said = <<Chunk(wire.texts[1])>>
    BY <2>5
  <2>7. wire.hash = HMAC(conf.key, Append(asked, Chunk(wire.texts[1])))
    BY <2>1, <2>3 DEF HInv, Covered
  <2>8. asked \o <<Chunk(wire.texts[1])>> = Append(asked, Chunk(wire.texts[1]))
    <3>1. PICK x, y : x = req.body /\ y = Chunk(wire.texts[1])
      OBVIOUS
    <3>2. <<>> \in Seq({x, y}) /\ <<x>> \in Seq({x, y}) /\ y \in {x, y}
      OBVIOUS
    <3>3. asked = <<>> \/ asked = <<x>>
      BY <3>1
    <3>4. asked \in Seq({x, y})
      BY <3>2, <3>3
    <3> HIDE DEF asked
    <3>5. asked \o <<y>> = Append(asked, y)
      BY <3>2, <3>4, AppendIsConcat
    <3>6. QED
      BY <3>1, <3>5
  <2>9. QED
    BY <2>6, <2>7, <2>8
<1>2. QED
  BY <1>1, HttpRequestInvariant, PTL

\* A program that starts takes a setting from its strongest source.
LEMMA Resolved ==
    ASSUME NEW d \in Deployments, ResolveAll(d.server).key # Fatal
    PROVE  ResolveAll(d.server).subnet = Says(d.server["subnet"])
<1> DEFINE settings == d.server
           values == [n \in DOMAIN settings |-> Resolve(settings[n])]
<1>1. "key" \in DOMAIN settings /\ "subnet" \in DOMAIN settings
      /\ settings["subnet"].kind = "string"
  BY DeploymentAssumption
<1>2. ResolveAll(settings) = values /\ \A n \in DOMAIN settings : values[n] # Fatal
  BY <1>1 DEF ResolveAll
<1>3. ResolveAll(settings).subnet = Resolve(settings["subnet"]) /\ Resolve(settings["subnet"]) # Fatal
  BY <1>1, <1>2
<1>4. Resolve(settings["subnet"]) = Says(settings["subnet"])
  BY <1>1, <1>3 DEF Resolve, FromJSON, FromEnv, FromFlags, EnvIgnored, Says, Absent, Malformed, Fatal
<1>5. QED
  BY <1>3, <1>4

\* With trusted subnets set, HTTP and gRPC refuse exactly the same named
\* addresses, and a refused request has reached neither handler nor store
\* (checkIP, SendMetrics).
THEOREM SameGate == Spec => []SameGateOnBothListeners
<1>1. HInv => SameGateOnBothListeners
  <2> DEFINE subnet == Says(dep.server["subnet"])
  <2>1. SUFFICES ASSUME HInv, pc = "done", req.realIP # ""
                 PROVE  /\ (wire.status = 403) <=> (subnet # "" /\ req.realIP # "in")
                        /\ wire.status = 403 => reached = <<>> /\ stored = "none"
    BY DEF SameGateOnBothListeners
  <2>2. conf.subnet = subnet
    BY <2>1, Resolved DEF HInv, Stage
  <2> HIDE DEF subnet
  <2>3. Trusted(req.realIP) <=> ~(subnet # "" /\ req.realIP # "in")
    BY <2>2 DEF Trusted
  <2>4. CASE req.route = "rpc"
    <3>1. /\ wire.status = IF Trusted(req.realIP) THEN 200 ELSE 403
          /\ ~Trusted(req.realIP) => stored = "none" /\ reached = <<>>
      BY <2>1, <2>4 DEF HInv, Rpc
    <3>2. /\ wire.status = 403 <=> ~Trusted(req.realIP)
          /\ wire.status = 403 => stored = "none" /\ reached = <<>>
      BY <3>1
    <3>3. QED
      BY <2>3, <3>2
  <2>5. CASE req.route # "rpc"
    <3>1. RealIP(req) = req.realIP
      BY <2>1 DEF RealIP
    <3>2. Code = wire.status
      BY <2>1, <2>5, AtTheEnd
    <3>3. /\ Code = 403 <=> ~Trusted(RealIP(req))
          /\ Code = 403 => stored = "none" /\ reached = <<>>
      BY <2>1, <2>5 DEF HInv, Answering
    <3>4. /\ wire.status = 403 <=> ~Trusted(req.realIP)
          /\ wire.status = 403 => stored = "none" /\ reached = <<>>
      BY <3>1, <3>2, <3>3
    <3>5. QED
      BY <2>3, <3>4
  <2>6. QED
    BY <2>4, <2>5
<1>2. QED
  BY <1>1, HttpRequestInvariant, PTL

-----------------------------------------------------------------------------
(* Encryption by parts.                                                     *)

\* What FlattenSeq joins, step by step.
LEMMA Flattened ==
    ASSUME NEW S, NEW seqs \in Seq(Seq(S))
    PROVE  \E f \in [0..Len(seqs) -> Seq(S)] :
              /\ f[0] = <<>> /\ f[Len(seqs)] = FlattenSeq(seqs)
              /\ \A i \in 1..Len(seqs) : f[i] = f[i-1] \o seqs[i]
<1>0. PICK n \in Nat : n = Len(seqs) /\ \A i \in 1..n : seqs[i] \in Seq(S)
  OBVIOUS
<1> DEFINE Partial(k, f) == /\ f \in [0..k -> Seq(S)] /\ f[0] = <<>>
                            /\ \A i \in 1..k : f[i] = f[i-1] \o seqs[i]
           Extends(k) == k <= n => \E f : Partial(k, f)
           T == {k \in Nat : Extends(k)}
<1>1. 0 \in T
  <2>1. PICK f : f = [i \in 0..0 |-> <<>>]
    OBVIOUS
  <2>2. f \in [0..0 -> Seq(S)] /\ f[0] = <<>>
    BY <2>1
  <2>3. Partial(0, f)
    BY <2>2
  <2>4. QED
    BY <2>3
<1>2. ASSUME NEW k \in Nat, k \in T
      PROVE  k + 1 \in T
  <2>1. SUFFICES ASSUME k + 1 <= n PROVE \E f : Partial(k + 1, f)
    <3> HIDE DEF Partial
    <3> QED OBVIOUS
  <2>2. PICK f : Partial(k, f)
    <3> HIDE DEF Partial
    <3>1. k <= n /\ Extends(k)
      BY <1>0, <1>2, <2>1
    <3>2. QED
      BY <3>1
  <2>3. PICK g : g = [i \in 0..(k+1) |-> IF i = k + 1 THEN f[k] \o seqs[k+1] ELSE f[i]]
    OBVIOUS
  <2>4. f[k] \in Seq(S) /\ seqs[k+1] \in Seq(S)
    BY <1>0, <2>1, <2>2
  <2>5. f[k] \o seqs[k+1] \in Seq(S)
    BY <2>4
  <2>6. g \in [0..(k+1) -> Seq(S)] /\ g[0] = <<>>
    BY <2>2, <2>3, <2>5
  <2>7. ASSUME NEW i \in 1..(k+1) PROVE g[i] = g[i-1] \o seqs[i]
    <3>1. i - 1 \in 0..k /\ i \in 0..(k+1) /\ i - 1 \in 0..(k+1) /\ i - 1 # k + 1
      OBVIOUS
    <3>2. g[i-1] = f[i-1]
      BY <2>3, <3>1
    <3>3. CASE i = k + 1
      <4>1. i - 1 = k /\ k + 1 \in 0..(k+1)
        BY <3>3
      <4>2. g[k+1] = f[k] \o seqs[k+1]
        BY <2>3, <4>1
      <4>3. QED
        BY <3>2, <3>3, <4>1, <4>2
    <3>4. CASE i # k + 1
      <4>1. i \in 1..k /\ g[i] = f[i]
        BY <2>3, <3>1, <3>4
      <4>2. f[i] = f[i-1] \o seqs[i]
        BY <2>2, <4>1
      <4>3. QED
        BY <3>2, <4>1, <4>2
    <3>5. QED
      BY <3>3, <3>4
  <2>8. QED
    BY <2>6, <2>7
<1>3. \A k \in Nat : k \in T
  <2> HIDE DEF T
  <2> QED BY <1>1, <1>2, Induct
<1>4. PICK f : Partial(n, f)
  <2> HIDE DEF Partial
  <2>1. n <= n /\ Extends(n)
    BY <1>0, <1>3
  <2>2. QED
    BY <2>1
<1>5. CASE n = 0
  <2>1. seqs = <<>> /\ FlattenSeq(seqs) = <<>>
    BY <1>5, <1>0 DEF FlattenSeq
  <2>2. QED
    BY <1>4, <1>5, <2>1, <1>0
<1>6. CASE n # 0
  <2> DEFINE Is(h) == h = [i \in 1..n |-> IF i = 1 THEN seqs[i] ELSE h[i-1] \o seqs[i]]
             g == CHOOSE h : Is(h)
  <2>1. FlattenSeq(seqs) = g[n]
    BY <1>6, <1>0 DEF FlattenSeq
  <2>2. PICK h : h = [i \in 1..n |-> f[i]]
    OBVIOUS
  <2>3. f[1] = seqs[1]
    <3>1. 1 \in 1..n /\ 1 - 1 = 0
      BY <1>6
    <3>2. f[1] = f[1-1] \o seqs[1] /\ f[0] = <<>> /\ seqs[1] \in Seq(S)
      BY <1>0, <1>4, <3>1
    <3>3. f[1] = <<>> \o seqs[1]
      BY <3>1, <3>2
    <3>4. QED
      BY <3>2, <3>3
  <2>4. ASSUME NEW i \in 1..n PROVE h[i] = IF i = 1 THEN seqs[i] ELSE h[i-1] \o seqs[i]
    <3>1. CASE i = 1
      BY <2>2, <2>3, <3>1
    <3>2. CASE i # 1
      <4>1. i - 1 \in 1..n
        BY <3>2
      <4>2. h[i] = f[i] /\ h[i-1] = f[i-1]
        BY <2>2, <4>1
      <4>3. f[i] = f[i-1] \o seqs[i]
        BY <1>4
      <4>4. QED
        BY <3>2, <4>2, <4>3
    <3>3. QED
      BY <3>1, <3>2
  <2>5. Is(h)
    BY <2>2, <2>4
  <2>6. Is(g)
    <3> HIDE DEF Is
    <3> QED BY <2>5
  <2> HIDE DEF g
  <2> DEFINE U == {k \in Nat : k + 1 <= n => g[k+1] = f[k+1]}
  <2>7. 0 \in U
    BY <1>0, <1>6, <2>3, <2>6
  <2>8. ASSUME NEW k \in Nat, k \in U PROVE k + 1 \in U
    <3>1. SUFFICES ASSUME k + 2 <= n PROVE g[k+2] = f[k+2]
      <4> (k + 1) + 1 = k + 2
        OBVIOUS
      <4> QED OBVIOUS
    <3>2. k + 2 \in 1..n /\ k + 2 # 1 /\ (k + 2) - 1 = k + 1 /\ (k + 1) + 1 = k + 2 /\ k + 1 <= n
      BY <3>1
    <3>3. g[k+2] = g[(k+2)-1] \o seqs[k+2]
      BY <2>6, <3>2
    <3>4. f[k+2] = f[(k+2)-1] \o seqs[k+2]
      BY <1>4, <3>2
    <3>5. g[k+1] = f[k+1]
      BY <2>8, <3>2
    <3>6. QED
      BY <3>2, <3>3, <3>4, <3>5
  <2>9. \A k \in Nat : k \in U
    <3> HIDE DEF U
    <3> QED BY <2>7, <2>8, Induct
  <2>10. g[n] = f[n]
    <3>1. n - 1 \in Nat /\ n - 1 \in U
      BY <1>0, <1>6, <2>9
    <3>2. QED
      BY <1>0, <3>1
  <2>11. QED
    BY <1>4, <2>1, <2>10, <1>0
<1>7. QED
  BY <1>5, <1>6

\* Where the i-th block of n bytes ends.
Cut(n, size, i) == IF i * size > n THEN n ELSE i * size

\* The i-th block is not empty and not too long, and ends within the message.
LEMMA Cuts ==
    ASSUME NEW n \in Nat, NEW size \in Nat \ {0}, NEW i \in 1..((n + size - 1) \div size)
    PROVE  /\ (i - 1) * size \in Nat /\ (i - 1) * size < n
           /\ Cut(n, size, i - 1) = (i - 1) * size
           /\ Cut(n, size, i) \in Nat /\ Cut(n, size, i) <= n
           /\ (i - 1) * size < Cut(n, size, i) /\ Cut(n, size, i) <= (i - 1) * size + size
<1>1. PICK m \in Nat : m = (n + size - 1) \div size /\ m * size <= n + size - 1
  BY RoundedUp
<1>2. i \in Nat /\ i - 1 \in Nat /\ i <= m
  BY <1>1
<1>3. (i - 1) * size \in Nat /\ i * size = (i - 1) * size + size
  BY <1>2
<1>4. i * size <= m * size /\ i * size \in Nat /\ m * size \in Nat
  BY <1>2, Grows
<1>5. (i - 1) * size < n
  BY <1>1, <1>3, <1>4
<1>6. QED
  BY <1>3, <1>5 DEF Cut

\* The parts of a message: so many, none too long, each where it was cut.
LEMMA Parts ==
    ASSUME NEW S, NEW msg \in Seq(S), NEW size \in Nat \ {0}
    PROVE  LET m == (Len(msg) + size - 1) \div size
           IN  /\ m \in Nat /\ Blocks(msg, size) \in Seq(Seq(S)) /\ Len(Blocks(msg, size)) = m
               /\ \A i \in 1..m :
                     /\ Blocks(msg, size)[i] = SubSeq(msg, (i - 1) * size + 1, Cut(Len(msg), size, i))
                     /\ Len(Blocks(msg, size)[i]) = Cut(Len(msg), size, i) - (i - 1) * size
<1>1. PICK n \in Nat : n = Len(msg) /\ \A j \in 1..n : msg[j] \in S
  OBVIOUS
<1>2. PICK m \in Nat : m = (n + size - 1) \div size
  BY RoundedUp
<1> DEFINE Part(i) == SubSeq(msg, (i - 1) * size + 1, Cut(n, size, i))
<1>3. ASSUME NEW i \in 1..m
      PROVE  Part(i) \in Seq(S) /\ Len(Part(i)) = Cut(n, size, i) - (i - 1) * size
  <2>0. /\ (i - 1) * size \in Nat /\ Cut(n, size, i) \in Nat
        /\ (i - 1) * size < Cut(n, size, i) /\ Cut(n, size, i) <= n
    BY <1>2, Cuts
  <2>1. PICK a \in Nat, b \in Nat : a = (i - 1) * size /\ b = Cut(n, size, i) /\ a < b /\ b <= n
    BY <2>0
  <2>2. a + 1 \in Int /\ b \in Int /\ \A j \in (a + 1)..b : msg[j] \in S
    BY <1>1, <2>1
  <2>3. SubSeq(msg, a + 1, b) \in Seq(S) /\ Len(SubSeq(msg, a + 1, b)) = b - a
    BY <2>1, <2>2, SubSeqProperties
  <2>4. QED
    BY <2>1, <2>3
<1>4. Blocks(msg, size) = [i \in 1..m |-> Part(i)]
  BY <1>1, <1>2 DEF Blocks, Cut
<1> HIDE DEF Part
<1>5. Blocks(msg, size) \in Seq(Seq(S)) /\ Len(Blocks(msg, size)) = m
      /\ \A i \in 1..m : Blocks(msg, size)[i] = Part(i)
  BY <1>3, <1>4
<1>6. QED
  BY <1>1, <1>2, <1>3, <1>5 DEF Part

\* The parts of a message, joined, are the message.
LEMMA PartsJoined ==
    ASSUME NEW S, NEW msg \in Seq(S), NEW size \in Nat \ {0}
    PROVE  FlattenSeq(Blocks(msg, size)) = msg
<1>1. PICK n \in Nat : n = Len(msg)
  OBVIOUS
<1>2. PICK m \in Nat : m = (n + size - 1) \div size /\ n <= m * size
  BY RoundedUp
<1>3. PICK parts \in Seq(Seq(S)) :
         /\ parts = Blocks(msg, size) /\ Len(parts) = m
         /\ \A i \in 1..m : parts[i] = SubSeq(msg, (i - 1) * size + 1, Cut(n, size, i))
  BY <1>1, <1>2, Parts
<1>4. PICK f \in [0..m -> Seq(S)] :
         /\ f[0] = <<>> /\ f[m] = FlattenSeq(parts)
         /\ \A i \in 1..m : f[i] = f[i-1] \o parts[i]
  <2>1. \E f \in [0..Len(parts) -> Seq(S)] :
           /\ f[0] = <<>> /\ f[Len(parts)] = FlattenSeq(parts)
           /\ \A i \in 1..Len(parts) : f[i] = f[i-1] \o parts[i]
    BY Flattened
  <2>2. QED
    BY <1>3, <2>1
<1> DEFINE T == {i \in Nat : i <= m => f[i] = SubSeq(msg, 1, Cut(n, size, i))}
<1>5. 0 \in T
  <2>1. 0 * size = 0 /\ Cut(n, size, 0) = 0
    BY DEF Cut
  <2>2. SubSeq(msg, 1, 0) = <<>>
    BY SubSeqEmpty
  <2>3. QED
    BY <1>4, <2>1, <2>2
<1>6. ASSUME NEW i \in Nat, i \in T PROVE i + 1 \in T
  <2>1. SUFFICES ASSUME i + 1 <= m PROVE f[i + 1] = SubSeq(msg, 1, Cut(n, size, i + 1))
    OBVIOUS
  <2>2. i + 1 \in 1..m /\ (i + 1) - 1 = i /\ i <= m
    BY <2>1
  <2>3. PICK a \in Nat, b \in Nat : /\ a = i * size /\ b = Cut(n, size, i + 1) /\ a < b /\ b <= n
                                   /\ Cut(n, size, i) = a
    <3>1. PICK k \in 1..m : k = i + 1 /\ k - 1 = i
      BY <2>2
    <3>2. /\ (k - 1) * size \in Nat /\ Cut(n, size, k) \in Nat
          /\ (k - 1) * size < Cut(n, size, k) /\ Cut(n, size, k) <= n
          /\ Cut(n, size, k - 1) = (k - 1) * size
      BY <1>2, Cuts
    <3>3. QED
      BY <3>1, <3>2
  <2>4. f[i + 1] = f[i] \o parts[i + 1]
    BY <1>4, <2>2
  <2>5. f[i] = SubSeq(msg, 1, a) /\ parts[i + 1] = SubSeq(msg, a + 1, b)
    BY <1>3, <1>6, <2>2, <2>3
  <2>6. SubSeq(msg, 1, a) \o SubSeq(msg, a + 1, b) = SubSeq(msg, 1, b)
    <3>1. 1 \in 1..(Len(msg) + 1) /\ a \in (1 - 1)..Len(msg) /\ b \in a..Len(msg)
      BY <1>1, <2>3
    <3>2. QED
      BY <3>1, ConcatAdjacentSubSeq
  <2>7. QED
    BY <2>3, <2>4, <2>5, <2>6
<1>7. \A i \in Nat : i \in T
  <2> HIDE DEF T
  <2> QED BY <1>5, <1>6, Induct
<1>8. Cut(n, size, m) = n
  <2>1. m * size \in Nat
    OBVIOUS
  <2>2. QED
    BY <1>2, <2>1 DEF Cut
<1>9. f[m] = SubSeq(msg, 1, n)
  BY <1>7, <1>8
<1>10. QED
  BY <1>1, <1>3, <1>4, <1>9, SubSeqFull

\* The blocks of whole blocks joined are those blocks.
LEMMA WholeBlocks ==
    ASSUME NEW S, NEW size \in Nat \ {0}, NEW blocks \in Seq(Seq(S)),
           \A i \in 1..Len(blocks) : Len(blocks[i]) = size
    PROVE  Blocks(FlattenSeq(blocks), size) = blocks /\ FlattenSeq(blocks) \in Seq(S)
<1>1. PICK m \in Nat : m = Len(blocks) /\ \A i \in 1..m : blocks[i] \in Seq(S) /\ Len(blocks[i]) = size
  OBVIOUS
<1>2. PICK f \in [0..m -> Seq(S)] :
         /\ f[0] = <<>> /\ f[m] = FlattenSeq(blocks)
         /\ \A i \in 1..m : f[i] = f[i-1] \o blocks[i]
  <2>1. \E f \in [0..Len(blocks) -> Seq(S)] :
           /\ f[0] = <<>> /\ f[Len(blocks)] = FlattenSeq(blocks)
           /\ \A i \in 1..Len(blocks) : f[i] = f[i-1] \o blocks[i]
    BY Flattened
  <2>2. QED
    BY <1>1, <2>1
<1> DEFINE Whole(k) == /\ Len(f[k]) = k * size
                       /\ \A i \in 1..k : SubSeq(f[k], (i - 1) * size + 1, i * size) = blocks[i]
           T == {k \in Nat : k <= m => Whole(k)}
<1>3. 0 \in T
  BY <1>2
<1>4. ASSUME NEW k \in Nat, k \in T PROVE k + 1 \in T
  <2>1. SUFFICES ASSUME k + 1 <= m PROVE Whole(k + 1)
    <3> HIDE DEF Whole
    <3> QED OBVIOUS
  <2>2. Whole(k)
    <3> HIDE DEF Whole
    <3> k <= m
      BY <2>1
    <3> QED BY <1>4
  <2>3. k + 1 \in 1..m /\ (k + 1) - 1 = k /\ k \in 0..m
    BY <2>1
  <2>4. PICK s \in Seq(S), t \in Seq(S) :
          s = f[k] /\ t = blocks[k + 1] /\ f[k + 1] = s \o t /\ Len(s) = k * size /\ Len(t) = size
    <3>1. f[k] \in Seq(S) /\ blocks[k + 1] \in Seq(S) /\ f[k + 1] = f[(k + 1) - 1] \o blocks[k + 1]
      BY <1>1, <1>2, <2>3
    <3>2. Len(f[k]) = k * size /\ Len(blocks[k + 1]) = size
      BY <1>1, <2>2, <2>3
    <3>3. QED
      BY <2>3, <3>1, <3>2
  <2>5. k * size \in Nat /\ (k + 1) * size = k * size + size
    OBVIOUS
  <2>6. Len(s \o t) = (k + 1) * size
    BY <2>4, <2>5, ConcatProperties
  <2>7. ASSUME NEW i \in 1..(k + 1)
        PROVE  SubSeq(s \o t, (i - 1) * size + 1, i * size) = blocks[i]
    <3>1. i \in Nat /\ i - 1 \in Nat
      OBVIOUS
    <3>2. PICK a \in Nat, b \in Nat : a = (i - 1) * size + 1 /\ b = i * size /\ a <= b
                                     /\ b = a + size - 1
      <4>1. PICK p \in Nat : p = (i - 1) * size
        BY <3>1
      <4>2. i * size = p + size /\ size \in Nat /\ size >= 1
        BY <3>1, <4>1
      <4>3. p + 1 \in Nat /\ p + size \in Nat /\ p + 1 <= p + size /\ p + size = (p + 1) + size - 1
        BY <4>2
      <4>4. QED
        BY <4>1, <4>2, <4>3
    <3>3. CASE i \in 1..k
      <4>1. i * size <= k * size
        BY <3>1, <3>3, Grows
      <4>2. a \in 1..Len(s) /\ b \in 1..Len(s)
        <5>1. a >= 1
          BY <3>1, <3>2, Grows
        <5>2. b <= Len(s) /\ Len(s) \in Nat
          BY <2>4, <3>2, <4>1
        <5>3. QED
          BY <3>2, <5>1, <5>2
      <4>3. SubSeq(s \o t, a, b) = SubSeq(s, a, b)
        BY <4>2, SubSeqOfConcat1
      <4>4. QED
        BY <2>2, <2>4, <3>2, <3>3, <4>3
    <3>4. CASE i = k + 1
      <4>1. a = Len(s) + 1 /\ b = Len(s) + Len(t) /\ Len(s) \in Nat /\ Len(t) \in Nat \ {0}
        BY <2>3, <2>4, <2>5, <3>2, <3>4
      <4>2. SubSeq(s \o t, a, b) = SubSeq(t, a - Len(s), b - Len(s))
        BY <4>1, SubSeqOfConcat2
      <4>3. a - Len(s) = 1 /\ b - Len(s) = Len(t)
        BY <4>1
      <4>4. SubSeq(t, 1, Len(t)) = t
        BY SubSeqFull
      <4>5. SubSeq(s \o t, a, b) = t
        BY <4>2, <4>3, <4>4
      <4>6. t = blocks[i]
        BY <2>4, <3>4
      <4>7. QED
        BY <3>2, <4>5, <4>6
    <3>5. i \in 1..k \/ i = k + 1
      OBVIOUS
    <3>6. QED
      BY <3>3, <3>4, <3>5
  <2>8. QED
    BY <2>4, <2>6, <2>7
<1>5. \A k \in Nat : k \in T
  <2> HIDE DEF T
  <2> QED BY <1>3, <1>4, Induct
<1>6. Whole(m)
  <2> HIDE DEF Whole
  <2> QED BY <1>5
<1>7. PICK data \in Seq(S) : data = FlattenSeq(blocks) /\ Len(data) = m * size
                            /\ \A i \in 1..m : SubSeq(data, (i - 1) * size + 1, i * size) = blocks[i]
  BY <1>2, <1>6
<1>8. (Len(data) + size - 1) \div size = m
  BY <1>7, Exactly
<1>9. ASSUME NEW i \in 1..m PROVE ~(i * size > Len(data))
  BY <1>7, <1>9, Grows
<1>10. Blocks(data, size) = [i \in 1..m |-> blocks[i]]
  BY <1>7, <1>8, <1>9 DEF Blocks
<1>11. blocks = [i \in 1..m |-> blocks[i]]
  BY <1>1
<1>12. QED
  BY <1>7, <1>10, <1>11

\* What the agent encrypts by parts the server decrypts by blocks, for every key
\* size and every length (encryptOAEPbyPart, decryptOAEPbyPart).
LEMMA RoundTrip ==
    ASSUME NEW S, NEW msg \in Seq(S), NEW key
    PROVE  /\ EncryptOAEPbyPart(key, msg).ok
           /\ DecryptOAEPbyPart(key, EncryptOAEPbyPart(key, msg).data) = Result(TRUE, msg)
<1>1. EncryptStep \in Nat \ {0} /\ KeySize \in Nat \ {0} /\ EncryptStep = KeySize - Overhead
  BY BlockHoldsData DEF EncryptStep
<1>2. PICK n \in Nat, m \in Nat : n = Len(msg) /\ m = (n + EncryptStep - 1) \div EncryptStep
  <2>1. Len(msg) \in Nat
    OBVIOUS
  <2>2. (Len(msg) + EncryptStep - 1) \div EncryptStep \in Nat
    BY <1>1, <2>1, RoundedUp
  <2>3. QED
    BY <2>1, <2>2
<1>3. PICK parts \in Seq(Seq(S)) :
         /\ parts = Blocks(msg, EncryptStep) /\ Len(parts) = m
         /\ \A i \in 1..m : Len(parts[i]) = Cut(n, EncryptStep, i) - (i - 1) * EncryptStep
  <2> DEFINE parts == Blocks(msg, EncryptStep)
             k == (Len(msg) + EncryptStep - 1) \div EncryptStep
  <2>1. /\ parts \in Seq(Seq(S)) /\ Len(parts) = k
        /\ \A i \in 1..k : Len(parts[i]) = Cut(Len(msg), EncryptStep, i) - (i - 1) * EncryptStep
    BY <1>1, Parts
  <2>2. k = m
    BY <1>2
  <2> HIDE DEF parts, k
  <2>3. QED
    BY <1>2, <2>1, <2>2 DEF parts
<1>4. ASSUME NEW i \in 1..m PROVE ~TooLong(parts[i])
  <2>1. PICK a \in Nat, b \in Nat : a = (i - 1) * EncryptStep /\ b = Cut(n, EncryptStep, i)
                                   /\ b <= a + EncryptStep /\ a < b
    <3>1. /\ (i - 1) * EncryptStep \in Nat /\ Cut(n, EncryptStep, i) \in Nat
          /\ (i - 1) * EncryptStep < Cut(n, EncryptStep, i)
          /\ Cut(n, EncryptStep, i) <= (i - 1) * EncryptStep + EncryptStep
      BY <1>1, <1>2, Cuts
    <3>2. QED
      BY <3>1
  <2>2. Len(parts[i]) = b - a
    BY <1>3, <2>1
  <2>3. QED
    BY <1>1, <2>1, <2>2 DEF TooLong
<1>5. DOMAIN parts = 1..m
  BY <1>3
<1> DEFINE Cells == UNION {{EncryptOAEP(key, parts[i])[j] : j \in 1..KeySize} : i \in 1..m}
           blocks == [i \in DOMAIN parts |-> EncryptOAEP(key, parts[i])]
<1>6. EncryptOAEPbyPart(key, msg) = Result(TRUE, FlattenSeq(blocks))
  BY <1>3, <1>4, <1>5 DEF EncryptOAEPbyPart
<1>7. ASSUME NEW i \in 1..m
      PROVE  /\ EncryptOAEP(key, parts[i]) \in Seq(Cells) /\ Len(EncryptOAEP(key, parts[i])) = KeySize
             /\ EncryptOAEP(key, parts[i])[1].part = parts[i]
  <2>1. PICK block : block = EncryptOAEP(key, parts[i])
    OBVIOUS
  <2>2. block = [j \in 1..KeySize |-> [key |-> key, part |-> parts[i], pos |-> j]]
    BY <2>1 DEF EncryptOAEP
  <2>3. \A j \in 1..KeySize : block[j] \in Cells
    BY <2>1
  <2>4. block \in [1..KeySize -> Cells]
    <3> HIDE DEF Cells
    <3> QED BY <2>2, <2>3
  <2> HIDE DEF Cells
  <2>5. block \in Seq(Cells) /\ Len(block) = KeySize
    BY <1>1, <2>4
  <2>6. 1 \in 1..KeySize
    BY <1>1
  <2>7. block[1].part = parts[i]
    BY <2>2, <2>6
  <2>8. QED
    BY <2>1, <2>5, <2>7
<1> HIDE DEF Cells
<1>8. PICK bs \in Seq(Seq(Cells)) : bs = blocks /\ Len(bs) = m
         /\ \A i \in 1..m : bs[i] = EncryptOAEP(key, parts[i])
  <2>1. blocks = [i \in 1..m |-> EncryptOAEP(key, parts[i])]
    BY <1>5
  <2>2. blocks \in [1..m -> Seq(Cells)] /\ \A i \in 1..m : blocks[i] = EncryptOAEP(key, parts[i])
    BY <1>7, <2>1
  <2> HIDE DEF blocks
  <2>3. blocks \in Seq(Seq(Cells)) /\ Len(blocks) = m
    BY <2>2
  <2>4. QED
    BY <2>2, <2>3
<1>9. Blocks(FlattenSeq(bs), KeySize) = bs
  <2>1. \A i \in 1..Len(bs) : Len(bs[i]) = KeySize
    BY <1>7, <1>8
  <2>2. QED
    BY <1>1, <2>1, WholeBlocks
<1>10. DOMAIN bs = 1..m
  BY <1>8
<1>11. \A i \in DOMAIN bs : bs[i][1].part = parts[i]
  BY <1>7, <1>8, <1>10
<1>12. \A i \in DOMAIN bs : Sealed(key, bs[i])
  BY <1>8, <1>10, <1>11 DEF Sealed
<1>13. [i \in DOMAIN bs |-> bs[i][1].part] = parts
  <2>1. parts = [i \in 1..m |-> parts[i]]
    BY <1>3
  <2>2. QED
    BY <1>10, <1>11, <2>1
<1>14. DecryptOAEPbyPart(key, FlattenSeq(bs)) = Result(TRUE, FlattenSeq(parts))
  BY <1>9, <1>12, <1>13 DEF DecryptOAEPbyPart
<1>15. FlattenSeq(parts) = msg
  BY <1>1, <1>3, PartsJoined
<1>16. QED
  BY <1>6, <1>8, <1>14, <1>15 DEF Result

-----------------------------------------------------------------------------
(* The report of an agent.                                                  *)

\* A program whose settings parse takes each from its strongest source.
LEMMA Starts ==
    ASSUME NEW settings, NEW x \in DOMAIN settings, settings[x].kind # "addr",
           \A n \in DOMAIN settings :
              /\ settings[n].json # Malformed
              /\ settings[n].env = Malformed => settings[n].kind \notin {"int", "bool"}
              /\ settings[n].flag = Malformed => settings[n].kind \notin {"int", "bool", "enable"}
              /\ Fatal \notin {settings[n].flag, settings[n].env, settings[n].json}
    PROVE  ResolveAll(settings)[x] = Says(settings[x]) /\ ResolveAll(settings)[x] # Fatal
<1>1. \A n \in DOMAIN settings : Resolve(settings[n]) # Fatal
  BY DEF Resolve, FromJSON, FromEnv, FromFlags
<1>2. ResolveAll(settings) = [n \in DOMAIN settings |-> Resolve(settings[n])]
  BY <1>1 DEF ResolveAll
<1>3. Resolve(settings[x]) = Says(settings[x])
  BY <1>1 DEF Resolve, FromJSON, FromEnv, FromFlags, EnvIgnored, Says, Absent, Malformed, Fatal
<1>4. QED
  BY <1>1, <1>2, <1>3

\* Both programs run with what their sources say.
LEMMA Programs ==
    ASSUME Stage, BothStart
    PROVE  /\ conf.key = Says(dep.server["key"]) /\ conf.crypto = Says(dep.server["crypto"])
           /\ conf.subnet = Says(dep.server["subnet"]) /\ conf.grpc = Says(dep.server["grpc"])
           /\ conf.level = Says(dep.server["level"])
           /\ ResolveAll(dep.agent).key = Says(dep.agent["key"])
           /\ ResolveAll(dep.agent).crypto = Says(dep.agent["crypto"])
           /\ ResolveAll(dep.agent).grpc = Says(dep.agent["grpc"])
           /\ conf.key # Fatal /\ ResolveAll(dep.agent).key # Fatal
<1>1. dep \in Deployments /\ conf = ResolveAll(dep.server)
  BY DEF Stage
<1>2. ASSUME NEW settings \in {dep.server, dep.agent}, NEW n \in DOMAIN settings
      PROVE  /\ settings[n].json # Malformed
             /\ settings[n].env = Malformed => settings[n].kind \notin {"int", "bool"}
             /\ settings[n].flag = Malformed => settings[n].kind \notin {"int", "bool", "enable"}
             /\ Fatal \notin {settings[n].flag, settings[n].env, settings[n].json}
  BY <1>1, DeploymentAssumption DEF BothStart
<1>3. ASSUME NEW settings \in {dep.server, dep.agent}, NEW x \in DOMAIN settings,
             settings[x].kind # "addr"
      PROVE  ResolveAll(settings)[x] = Says(settings[x]) /\ ResolveAll(settings)[x] # Fatal
  BY <1>2, <1>3, Starts
<1>4. \A x \in {"key", "crypto", "subnet", "grpc", "level"} :
         x \in DOMAIN dep.server /\ dep.server[x].kind # "addr"
  BY <1>1, DeploymentAssumption
<1>5. \A x \in {"key", "crypto", "grpc"} : x \in DOMAIN dep.agent /\ dep.agent[x].kind # "addr"
  BY <1>1, DeploymentAssumption
<1>6. \A x \in {"key", "crypto", "subnet", "grpc", "level"} :
         conf[x] = Says(dep.server[x]) /\ conf[x] # Fatal
  BY <1>1, <1>3, <1>4
<1>7. \A x \in {"key", "crypto", "grpc"} :
         ResolveAll(dep.agent)[x] = Says(dep.agent[x]) /\ ResolveAll(dep.agent)[x] # Fatal
  BY <1>3, <1>5
<1>8. QED
  BY <1>6, <1>7

\* What the agent sends can be opened with the same key.
LEMMA Encrypted ==
    ASSUME NEW n \in Nat, NEW key
    PROVE  /\ AsymmetricEncryptData(key, Plain(n)).ok
           /\ key = "" => AsymmetricEncryptData(key, Plain(n)).body = Body(FALSE, Plain(n))
           /\ key # "" => /\ AsymmetricEncryptData(key, Plain(n)).body.b64
                          /\ DecryptOAEPbyPart(key, AsymmetricEncryptData(key, Plain(n)).body.data)
                             = Result(TRUE, Plain(n))
<1>1. PICK msg : msg = Plain(n)
  OBVIOUS
<1>2. PICK S : msg \in Seq(S)
  <2>1. msg = [i \in 1..n |-> [key |-> "", part |-> <<>>, pos |-> i]]
    BY <1>1 DEF Plain
  <2>2. msg \in [1..n -> {msg[i] : i \in 1..n}]
    BY <2>1
  <2>3. msg \in Seq({msg[i] : i \in 1..n})
    BY <2>2
  <2>4. QED
    BY <2>3
<1>3. PICK sealed : sealed = EncryptOAEPbyPart(key, msg)
  OBVIOUS
<1>4. sealed.ok /\ DecryptOAEPbyPart(key, sealed.data) = Result(TRUE, msg)
  BY <1>2, <1>3, RoundTrip
<1>5. CASE key = ""
  BY <1>5 DEF AsymmetricEncryptData
<1>6. CASE key # ""
  <2>1. AsymmetricEncryptData(key, msg) = [ok |-> sealed.ok, body |-> Body(TRUE, sealed.data)]
    BY <1>3, <1>6 DEF AsymmetricEncryptData
  <2>2. PICK e : e = AsymmetricEncryptData(key, msg)
    OBVIOUS
  <2>3. e.ok = sealed.ok /\ e.body = [b64 |-> TRUE, data |-> sealed.data]
    BY <2>1, <2>2 DEF Body
  <2>4. e.body.b64 = TRUE /\ e.body.data = sealed.data
    BY <2>3
  <2>5. e.ok /\ e.body.b64 /\ DecryptOAEPbyPart(key, e.body.data) = Result(TRUE, msg)
    BY <1>4, <2>3, <2>4
  <2>6. QED
    BY <1>1, <1>6, <2>2, <2>5
<1>7. QED
  BY <1>5, <1>6

\* A report stays one.
LEMMA StillReport ==
    ASSUME AgentReport', dep' = dep, req'.client = req.client, req'.realIP = req.realIP
    PROVE  AgentReport
  BY DEF AgentReport, BothStart, AgentFits

\* The agent and the server start, and the agent sends to a listener.
LEMMA CarriedStart == HInv /\ Carried /\ Start => Carried'
<1> DEFINE agent == ResolveAll(dep.agent)
           sent == AgentRequest(agent, req)
           fields == {"client", "route", "size", "realIP", "remote", "ctype", "accept", "gz",
                      "good", "sig", "body"}
<1>1. SUFFICES ASSUME HInv, Carried, Start, AgentReport' PROVE Carried'
  BY DEF Carried
<1>2. DOMAIN req = fields
  BY <1>1 DEF HInv, Records
<1>3. req'.client = req.client /\ req'.realIP = req.realIP /\ req'.size = req.size /\ req'.gz = req.gz
      /\ dep' = dep
  BY <1>1, <1>2 DEF Start, AgentRequest
<1>4. AgentReport /\ BothStart /\ AgentFits /\ req.client = "agent"
  BY <1>1, <1>3, StillReport DEF AgentReport
<1>5. pc = "start" /\ req.size \in Nat /\ req.gz = "no" /\ req.route = "updates"
  BY <1>1, <1>4 DEF Carried, Start
<1>6. /\ conf.subnet = Says(dep.server["subnet"]) /\ conf.grpc = Says(dep.server["grpc"])
      /\ conf.level = Says(dep.server["level"]) /\ conf.key # Fatal
      /\ agent.key = Says(dep.agent["key"]) /\ agent.crypto = Says(dep.agent["crypto"])
      /\ agent.grpc = Says(dep.agent["grpc"]) /\ agent.key # Fatal
  BY <1>1, <1>4, Programs DEF HInv
<1> HIDE DEF agent
<1>7. ~ServerCannotStart
  BY <1>4, <1>6 DEF ServerCannotStart, SetupOK, ParseSubnetPrefixesOK, BothStart
<1>8. ~AgentCannotSend(agent, req)
  <2>1. AsymmetricEncryptData(agent.crypto, Plain(req.size)).ok
    BY <1>5, Encrypted
  <2>2. agent.grpc # "true" => agent.crypto \notin KeyFileUnusable
    BY <1>4, <1>6 DEF AgentFits
  <2>3. QED
    BY <1>6, <2>1, <2>2 DEF AgentCannotSend
<1>9. CASE agent.grpc = "true"
  <2>1. sent = [req EXCEPT !.route = "rpc", !.body = Body(FALSE, Plain(req.size))]
    BY <1>9 DEF AgentRequest
  <2>2. sent.route = "rpc" /\ sent.body = Body(FALSE, Plain(req.size))
    BY <1>2, <2>1
  <2>3. conf.grpc # ""
    BY <1>4, <1>6, <1>9 DEF AgentFits
  <2> HIDE DEF sent
  <2>4. pc' = "rpc" /\ req' = sent /\ body' = sent.body
    BY <1>1, <1>4, <1>7, <1>8, <2>2, <2>3 DEF Start, agent, sent
  <2>5. QED
    BY <1>3, <1>5, <2>2, <2>4 DEF Carried
<1>10. CASE agent.grpc # "true"
  <2> DEFINE sealed == AsymmetricEncryptData(agent.crypto, Plain(req.size)).body
  <2>1. sent = [req EXCEPT !.body = sealed, !.sig = SignNew(agent.key, sealed)]
    BY <1>10 DEF AgentRequest
  <2>2. sent.route = "updates" /\ sent.body = sealed /\ sent.sig = SignNew(agent.key, sealed)
    BY <1>2, <1>5, <2>1
  <2>3. sealed = Sealing(Plain(req.size))
    BY <1>6 DEF Sealing
  <2> HIDE DEF sent, sealed
  <2>4. pc' = "checkIP" /\ req' = sent /\ body' = sent.body
    BY <1>1, <1>4, <1>7, <1>8, <2>2 DEF Start, agent, sent
  <2>5. Sealing(Plain(req.size))' = Sealing(Plain(req.size))
    BY <1>3 DEF Sealing, Plain
  <2>6. QED
    BY <1>3, <1>5, <1>6, <1>10, <2>2, <2>3, <2>4, <2>5 DEF Carried
<1>11. QED
  BY <1>9, <1>10

\* The middlewares let the report through.
LEMMA CarriedServe == HInv /\ Carried /\ (Serve \/ SendMetrics) => Carried'
<1> DEFINE plain == Body(FALSE, Plain(req.size))
<1>1. SUFFICES ASSUME HInv, Carried, Serve \/ SendMetrics, AgentReport' PROVE Carried'
  BY DEF Carried
<1>2. dep' = dep /\ req' = req
  BY <1>1 DEF Serve, CheckIP, WriteLogging, GzipCompDecomp, SignCheck, AsymmetricDencryptData,
     Handle, SendMetrics
<1>3. AgentReport /\ BothStart /\ AgentFits
  BY <1>1, <1>2, StillReport DEF AgentReport
<1>4. req.size \in Nat /\ req.gz = "no"
  BY <1>1, <1>3 DEF Carried
<1>5. /\ conf.subnet = Says(dep.server["subnet"]) /\ conf.key = Says(dep.server["key"])
      /\ conf.crypto = Says(dep.server["crypto"])
  BY <1>1, <1>3, Programs DEF HInv
<1>6. Trusted(req.realIP) /\ Trusted(RealIP(req))
  BY <1>3, <1>5 DEF Trusted, RealIP, AgentReport
<1>7. Sealing(Plain(req.size))' = Sealing(Plain(req.size))
  BY <1>2 DEF Sealing, Plain
<1>8. ASSUME pc \in {"checkIP", "log", "gzip", "sign", "decrypt"}
      PROVE  /\ req.route = "updates" /\ body = Sealing(Plain(req.size))
             /\ Says(dep.agent["grpc"]) # "true"
             /\ Says(dep.agent["crypto"]) = conf.crypto /\ conf.crypto \notin KeyFileUnusable
             /\ Says(dep.agent["key"]) # "" /\ conf.key # "" => Says(dep.agent["key"]) = conf.key
  <2>1. req.route = "updates" /\ body = Sealing(Plain(req.size)) /\ Says(dep.agent["grpc"]) # "true"
    BY <1>1, <1>3, <1>8 DEF Carried
  <2>2. QED
    BY <1>3, <1>5, <2>1 DEF AgentFits
<1>9. ASSUME pc \in {"checkIP", "log", "gzip", "sign"}
      PROVE  req.sig = SignNew(Says(dep.agent["key"]), body)
  BY <1>1, <1>3, <1>9 DEF Carried
<1>10. CASE CheckIP
  <2>1. pc = "checkIP" /\ pc' = "log" /\ UNCHANGED <<body, reached>>
    BY <1>6, <1>10 DEF CheckIP
  <2>2. QED
    BY <1>2, <1>4, <1>7, <1>8, <1>9, <2>1 DEF Carried
<1>11. CASE WriteLogging
  <2>1. pc = "log" /\ pc' = "gzip" /\ UNCHANGED <<body, reached>>
    BY <1>11 DEF WriteLogging
  <2>2. QED
    BY <1>2, <1>4, <1>7, <1>8, <1>9, <2>1 DEF Carried
<1>12. CASE GzipCompDecomp
  <2>1. pc = "gzip" /\ pc' = "sign" /\ UNCHANGED <<body, reached>>
    BY <1>4, <1>8, <1>12 DEF GzipCompDecomp, Updates
  <2>2. QED
    BY <1>2, <1>4, <1>7, <1>8, <1>9, <2>1 DEF Carried
<1>13. CASE SignCheck
  <2>1. pc = "sign" /\ UNCHANGED <<body, reached>>
    BY <1>13 DEF SignCheck
  <2>2. Says(dep.agent["key"]) = "" => req.sig.form = "none"
    <3>1. Unsigned.form = "none"
      BY DEF Unsigned
    <3>2. QED
      BY <1>9, <2>1, <3>1 DEF SignNew
  <2>3. Says(dep.agent["key"]) # "" /\ conf.key # "" => req.sig = HMAC(conf.key, <<body>>)
    BY <1>8, <1>9, <2>1 DEF SignNew
  <2>4. ~Unreadable
    BY <1>4 DEF Unreadable
  <2>5. pc' = "decrypt"
    BY <1>13, <2>2, <2>3, <2>4 DEF SignCheck
  <2>6. QED
    BY <1>2, <1>4, <1>7, <1>8, <2>1, <2>5 DEF Carried
<1>14. CASE AsymmetricDencryptData
  <2>1. pc = "decrypt" /\ UNCHANGED reached
    BY <1>14 DEF AsymmetricDencryptData
  <2>2. body = AsymmetricEncryptData(conf.crypto, Plain(req.size)).body /\ conf.crypto \notin KeyFileUnusable
    BY <1>8, <2>1 DEF Sealing
  <2>3. pc' = "handler" /\ body' = plain
    <3>1. CASE conf.crypto = ""
      <4>1. body = plain
        BY <1>4, <2>2, <3>1, Encrypted
      <4>2. QED
        BY <1>14, <3>1, <4>1 DEF AsymmetricDencryptData, KeyFileUnusable
    <3>2. CASE conf.crypto # ""
      <4>1. body.b64 /\ DecryptOAEPbyPart(conf.crypto, body.data) = Result(TRUE, Plain(req.size))
        BY <1>4, <2>2, <3>2, Encrypted
      <4>2. PICK opened : /\ opened = DecryptOAEPbyPart(conf.crypto, body.data)
                          /\ opened.ok = TRUE /\ opened.data = Plain(req.size)
        BY <4>1 DEF Result
      <4>3. ~Unreadable
        BY <1>4 DEF Unreadable
      <4>4. QED
        BY <1>14, <2>2, <3>2, <4>1, <4>2, <4>3 DEF AsymmetricDencryptData
    <3>3. QED
      BY <3>1, <3>2
  <2>4. req.route = "updates" /\ Says(dep.agent["grpc"]) # "true"
    BY <1>8, <2>1
  <2>5. plain' = plain
    BY <1>2 DEF Body, Plain
  <2>6. QED
    BY <1>2, <1>4, <2>3, <2>4, <2>5 DEF Carried
<1>15. CASE Handle \/ SendMetrics
  <2>1. pc \in {"handler", "rpc"} /\ pc' \in {"respond", "done"}
    BY <1>15 DEF Handle, Respond, SendMetrics
  <2>2. body = plain
    BY <1>1, <1>3, <2>1 DEF Carried
  <2>3. reached' = <<body>>
    BY <1>4, <1>6, <1>15 DEF Handle, SendMetrics, Unreadable
  <2>4. plain' = plain
    BY <1>2 DEF Body, Plain
  <2>5. QED
    BY <1>2, <1>4, <2>1, <2>2, <2>3, <2>4 DEF Carried
<1>16. QED
  BY <1>1, <1>10, <1>11, <1>12, <1>13, <1>14, <1>15 DEF Serve

\* The answer leaves what has reached the handler alone.
LEMMA CarriedAside ==
    ASSUME Carried, UNCHANGED <<dep, req, body, reached>>,
           pc' = pc \/ (pc = "respond" /\ pc' = "done")
    PROVE  Carried'
<1>1. SUFFICES ASSUME AgentReport' PROVE Carried'
  BY DEF Carried
<1>2. AgentReport
  BY <1>1, StillReport
<1>3. Sealing(Plain(req.size))' = Sealing(Plain(req.size)) /\ Body(FALSE, Plain(req.size))' = Body(FALSE, Plain(req.size))
  BY DEF Sealing, Plain, Body
<1>4. QED
  BY <1>2, <1>3 DEF Carried

\* A report of an agent whose settings fit the server's reaches the handler with
\* the bytes the agent encoded, for every key size and every length of the report
\* (Send, SignNew, encryptOAEPbyPart, chiRouter, SignCheck, decryptOAEPbyPart).
THEOREM AgentsAreUnderstood == Spec => []AgentIsUnderstood
<1>1. Init => Carried
  <2>1. SUFFICES ASSUME Init, AgentReport PROVE Carried
    BY DEF Carried
  <2>2. req.size \in Nat /\ req.gz = "no" /\ req.route = "updates" /\ pc = "start"
    BY <2>1, RequestAssumption DEF Init, AgentReport
  <2>3. QED
    BY <2>2 DEF Carried
<1>2. HInv /\ Carried /\ [Next]_vars => Carried'
  <2>1. SUFFICES ASSUME HInv, Carried, [Next]_vars PROVE Carried'
    OBVIOUS
  <2>2. CASE Start
    BY <2>1, <2>2, CarriedStart
  <2>3. CASE Serve \/ SendMetrics
    BY <2>1, <2>3, CarriedServe
  <2>4. CASE PlainWriteHeader \/ PlainWrite \/ Sign \/ Return \/ \E i \in 1..2 : HeaderGoroutine(i)
    <3>1. UNCHANGED <<dep, req, body, reached>> /\ (pc' = pc \/ (pc = "respond" /\ pc' = "done"))
      BY <2>4 DEF PlainWriteHeader, PlainWrite, Sign, SignWriteHeader, SignSet, SignSetDone,
         SignWrite, Return, HeaderGoroutine
    <3>2. QED
      BY <2>1, <3>1, CarriedAside
  <2>5. CASE UNCHANGED vars
    BY <2>1, <2>5, CarriedAside DEF vars
  <2>6. QED
    BY <2>1, <2>2, <2>3, <2>4, <2>5 DEF Next
<1>3. Carried => AgentIsUnderstood
  BY DEF Carried, AgentIsUnderstood, Over
<1>4. QED
  BY <1>1, <1>2, <1>3, HttpRequestInvariant, PTL DEF Spec
=============================================================================
