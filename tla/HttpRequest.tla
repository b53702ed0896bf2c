---------------------------- MODULE HttpRequest ----------------------------
(***************************************************************************)
(* One request on its way through the server: both programs come to their  *)
(* settings (Config), the client makes the request (the agent encrypts and *)
(* signs it), and chiRouter's chain serves it: checkIP, WriteLogging,      *)
(* GzipCompDecomp, SignCheck, AsymmetricDencryptData and the handler, with *)
(* the writers each of them wraps around the response. A gRPC report       *)
(* (SendMetrics) is served by the other listener.                          *)
(*                                                                         *)
(* The signer's WriteHeader starts a goroutine that sends the header once  *)
(* Write has set the hash; the two meet over two channels of capacity 1.   *)
(* A write may fail (the client is gone); the store's outcome is free.     *)
(***************************************************************************)
EXTENDS Config, Integers, SequencesExt

CONSTANTS
    KeySize,      \* bytes of an RSA block, public.Size()
    Overhead,     \* bytes OAEP takes of it, 2*hash.Size() + 2
    Deployments,  \* the sources of both programs' settings
    Requests      \* what clients send

ASSUME BlockHoldsData == KeySize \in Nat /\ Overhead \in Nat /\ KeySize > Overhead

\* The settings the programs have, and what a request is made of; the agent posts
\* its report to /updates/, uncompressed.
ASSUME DeploymentAssumption ==
    \A d \in Deployments :
        /\ {"key", "crypto", "subnet", "grpc", "level"} \subseteq DOMAIN d.server
        /\ \A n \in {"key", "crypto", "subnet", "grpc", "level"} : d.server[n].kind = "string"
        /\ {"key", "crypto", "grpc"} \subseteq DOMAIN d.agent
        /\ \A n \in {"key", "crypto"} : d.agent[n].kind = "string"
        /\ d.agent["grpc"].kind = "enable"
        /\ \A settings \in {d.server, d.agent} : \A n \in DOMAIN settings :
              Fatal \notin {settings[n].flag, settings[n].env, settings[n].json}
ASSUME RequestAssumption ==
    \A r \in Requests :
        /\ DOMAIN r = {"client", "route", "size", "realIP", "remote", "ctype", "accept", "gz",
                       "good", "sig", "body"}
        /\ r.route \in {"updateURL", "update", "updates", "valueJSON", "value", "all", "ping", "rpc"}
        /\ r.client = "agent"
           => r.route = "updates" /\ r.size \in Nat /\ r.gz = "no"

VARIABLES
    dep,     \* the deployment
    req,     \* the request
    pc,      \* the middleware the request has come to
    conf,    \* the server's settings
    w,       \* which writers are wrapped around the response
    body,    \* r.Body, as the last middleware left it
    todo,    \* calls on the response writer still to be made
    signer,  \* signResponseWriter, its channels and its goroutines
    hdr,     \* the response's header map
    wire,    \* what net/http has sent
    logged,  \* the status WriteLogging writes, 0 if none
    stored,  \* how the store call ended
    reached  \* <<the body the handler was called with>>

vars == <<dep, req, pc, conf, w, body, todo, signer, hdr, wire, logged, stored, reached>>

-----------------------------------------------------------------------------
(* Bytes: a body is base64 text or not, over cells that say which key, if   *)
(* any, hides what; an HMAC is the key and the chunks it was computed over. *)

Plain(n) == [i \in 1..n |-> [key |-> "", part |-> <<>>, pos |-> i]]
Body(b64, data) == [b64 |-> b64, data |-> data]
HMAC(key, over) == [form |-> "hmac", key |-> key, over |-> over]
\* A text of the answer, as the HMAC takes it in.
Chunk(text) == Body(FALSE, <<[key |-> text, part |-> <<>>, pos |-> 0]>>)
Unsigned == [form |-> "none", key |-> "", over |-> <<>>]

\* rsa.EncryptOAEP and rsa.DecryptOAEP: a block of the key's size hides a part
\* that is not too long, and only the whole block gives it back.
EncryptOAEP(key, part) == [i \in 1..KeySize |-> [key |-> key, part |-> part, pos |-> i]]
TooLong(part) == Len(part) > KeySize - Overhead
Sealed(key, block) == block = EncryptOAEP(key, block[1].part)

\* msg[start:finish] for start = 0, step, 2*step ...
Blocks(msg, step) ==
    [i \in 1 .. (Len(msg) + step - 1) \div step |->
        SubSeq(msg, (i - 1) * step + 1, IF i * step > Len(msg) THEN Len(msg) ELSE i * step)]

Result(ok, data) == [ok |-> ok, data |-> data]

\* Mutant: room for one byte of the padding is forgotten.
EncryptStepTooLong == KeySize - Overhead + 1

\* step := public.Size() - 2*hash.Size() - 2
EncryptStep == KeySize - Overhead

EncryptOAEPbyPart(key, msg) ==
    LET parts == Blocks(msg, EncryptStep)
    IN  IF \E i \in DOMAIN parts : TooLong(parts[i]) THEN Result(FALSE, <<>>)
        ELSE Result(TRUE, FlattenSeq([i \in DOMAIN parts |-> EncryptOAEP(key, parts[i])]))

DecryptOAEPbyPart(key, msg) ==
    LET blocks == Blocks(msg, KeySize)
    IN  IF \A i \in DOMAIN blocks : Sealed(key, blocks[i])
        THEN Result(TRUE, FlattenSeq([i \in DOMAIN blocks |-> blocks[i][1].part]))
        ELSE Result(FALSE, <<>>)

-----------------------------------------------------------------------------
(* The agent's side of a report of n bytes.                                 *)

\* AsymmetricEncryptData
AsymmetricEncryptData(pub, data) ==
    IF pub = "" THEN [ok |-> TRUE, body |-> Body(FALSE, data)]
    ELSE LET sealed == EncryptOAEPbyPart(pub, data)
         IN  [ok |-> sealed.ok, body |-> Body(TRUE, sealed.data)]

\* SignNew signs the text it is given, which is the encrypted one.
SignNew(key, sent) == IF key = "" THEN Unsigned ELSE HMAC(key, <<sent>>)

\* jsonSendString.Send, or protoSend.Send when gRPC is enabled.
AgentRequest(agent, r) ==
    LET sealed == AsymmetricEncryptData(agent.crypto, Plain(r.size))
    IN  IF agent.grpc = "true" THEN [r EXCEPT !.route = "rpc", !.body = Body(FALSE, Plain(r.size))]
        ELSE [r EXCEPT !.body = sealed.body, !.sig = SignNew(agent.key, sealed.body)]

\* Key files that hold no key: log.Fatal when the file cannot be read or parsed,
\* a panic when it is not PEM and pem.Decode gives nil.
KeyFileUnusable == {"missing", "notpem"}

\* Either of them, or an error of the encryption.
AgentCannotSend(agent, r) ==
    \/ agent.key = Fatal
    \/ agent.grpc # "true" /\ agent.crypto \in KeyFileUnusable
    \/ agent.grpc # "true" /\ ~AsymmetricEncryptData(agent.crypto, Plain(r.size)).ok

-----------------------------------------------------------------------------
(* Calls on the response writer and what each handler makes of them.        *)

WriteHeader(code) == [op |-> "header", code |-> code, text |-> "", checked |-> FALSE]
Write(text) == [op |-> "write", code |-> 0, text |-> text, checked |-> FALSE]
\* enc.Encode: one write, whose error the handler answers.
Encode == [Write("json") EXCEPT !.checked = TRUE]
Error(code) == <<WriteHeader(code), Write("error")>>

\* An outcome of a handler: how its store call ended and the calls it makes.
Out(store, calls) == [store |-> store, calls |-> calls]
Refuse(code) == {Out("none", Error(code))}

\* What json.Decoder takes for a document.
Decodes(b) == ~b.b64 /\ b.data # <<>> /\ b.data = Plain(Len(b.data))

\* Mutant: the header is written before and after the metric is stored.
UpdateMetricsTwoHeaders(r) ==
    IF r.ctype \notin {"", "text/plain"} \/ ~r.good THEN Refuse(400)
    ELSE {Out("failed", Error(500)), Out("ok", <<WriteHeader(200), WriteHeader(200), Write("text")>>)}

UpdateMetrics(r) ==
    IF r.ctype \notin {"", "text/plain"} \/ ~r.good THEN Refuse(400)
    ELSE {Out("failed", Error(500)), Out("ok", <<WriteHeader(200), Write("text")>>)}

GetMetrics(r) ==
    IF ~r.good THEN Refuse(400)
    ELSE Refuse(404) \cup {Out("read", <<WriteHeader(200), Write("text")>>)}

\* The template writes the page in pieces.
GetAll == Refuse(500) \cup {Out("read", <<WriteHeader(200), Write("text"), Write("text")>>)}

UpdateMetricsJSON(r, b) ==
    IF r.ctype # "application/json" \/ ~Decodes(b) \/ ~r.good THEN Refuse(400)
    ELSE {Out("failed", Error(500)), Out("ok", <<WriteHeader(200), Encode>>)}

\* A NaN or infinite gauge fails to encode before anything is written.
GetMetricsJSON(r, b) ==
    IF r.ctype # "application/json" \/ ~Decodes(b) THEN Refuse(400)
    ELSE Refuse(404) \cup
         (IF r.good THEN {Out("read", <<WriteHeader(200), Encode>>),
                          Out("nan", <<WriteHeader(200), WriteHeader(500), Write("error")>>)}
          ELSE {})

\* Mutant: the answer is encoded metric by metric.
UpdateBatchInPieces(r, b) ==
    IF r.ctype # "application/json" \/ ~Decodes(b) THEN Refuse(400)
    ELSE {Out("failed", Error(500)), Out("ok", <<WriteHeader(200), Encode, Encode>>)}

\* Mutant: an error of the store is logged and not answered.
UpdateBatchIgnoringError(r, b) ==
    IF r.ctype # "application/json" \/ ~Decodes(b) THEN Refuse(400)
    ELSE {Out(s, <<WriteHeader(200), Encode>>) : s \in {"failed", "ok"}}

UpdateBatchMetricsJSON(r, b) ==
    IF r.ctype # "application/json" \/ ~Decodes(b) THEN Refuse(400)
    ELSE {Out("failed", Error(500)), Out("ok", <<WriteHeader(200), Encode>>)}

DbPing == Refuse(500) \cup {Out("read", <<WriteHeader(200), Write("text")>>)}

\* chiRouter's table: the handler, and the routes whose requests are checked
\* and decrypted.
Handler(r, b) ==
    CASE r.route = "updateURL" -> UpdateMetrics(r)
      [] r.route = "update"    -> UpdateMetricsJSON(r, b)
      [] r.route = "updates"   -> UpdateBatchMetricsJSON(r, b)
      [] r.route = "valueJSON" -> GetMetricsJSON(r, b)
      [] r.route = "value"     -> GetMetrics(r)
      [] r.route = "all"       -> GetAll
      [] r.route = "ping"      -> DbPing

Updates == {"updateURL", "update", "updates"}
IsGet(r) == r.route \in {"value", "all", "ping"}

-----------------------------------------------------------------------------
Init ==
    /\ dep \in Deployments
    /\ req \in Requests
    /\ pc = "start"
    /\ conf = ResolveAll(dep.server)
    /\ w = [log |-> FALSE, gz |-> FALSE, signed |-> FALSE]
    /\ body = req.body
    /\ todo = <<>>
    /\ signer = [sum |-> <<>>, at |-> "idle", setDone |-> FALSE, sendDone |-> FALSE, gor |-> <<>>]
    /\ hdr = [hash |-> Unsigned, enc |-> FALSE]
    /\ wire = [status |-> 0, hash |-> Unsigned, enc |-> FALSE, gz |-> FALSE, texts |-> <<>>,
               gone |-> FALSE]
    /\ logged = 0
    /\ stored = "none"
    /\ reached = <<>>

\* logging.Setup and parseSubnetPrefixes know what they are given.
SetupOK(level) == level # "nolevel"
ParseSubnetPrefixesOK(subnets) == subnets # "noprefix"

\* main and Run end before they listen.
ServerCannotStart == conf.key = Fatal \/ ~SetupOK(conf.level) \/ ~ParseSubnetPrefixesOK(conf.subnet)

\* Both programs are started and the request is sent to the listener it is for.
Start ==
    LET agent == ResolveAll(dep.agent)
        sent  == IF req.client = "agent" THEN AgentRequest(agent, req) ELSE req
    IN  /\ pc = "start"
        /\ \/ /\ \/ ServerCannotStart
                 \/ req.client = "agent" /\ AgentCannotSend(agent, req)
                 \/ sent.route = "rpc" /\ conf.grpc = ""
              /\ pc' = "off"
              /\ UNCHANGED <<req, body>>
           \/ /\ ~ServerCannotStart
              /\ req.client = "agent" => ~AgentCannotSend(agent, req)
              /\ sent.route = "rpc" => conf.grpc # ""
              /\ pc' = IF sent.route = "rpc" THEN "rpc" ELSE "checkIP"
              /\ req' = sent
              /\ body' = sent.body
        /\ UNCHANGED <<dep, conf, w, todo, signer, hdr, wire, logged, stored, reached>>

Respond(calls) == pc' = "respond" /\ todo' = calls

\* Mutant: the peer's own address is looked at first.
RealIPOfPeer(r) == IF r.remote = "v6" THEN "junk" ELSE r.remote

\* The address checkIP looks at: X-Real-IP, or what precedes the first colon of
\* RemoteAddr, which of an IPv6 address is no address.
RealIP(r) == IF r.realIP # "" THEN r.realIP ELSE IF r.remote = "v6" THEN "junk" ELSE r.remote

\* subnets == nil, or one of them contains the address.
Trusted(ip) == conf.subnet = "" \/ ip = "in"

CheckIP ==
    /\ pc = "checkIP"
    /\ \/ /\ Trusted(RealIP(req))
          /\ pc' = "log"
          /\ UNCHANGED todo
       \/ /\ ~Trusted(RealIP(req))
          /\ Respond(Error(403))
    /\ UNCHANGED <<dep, req, conf, w, body, signer, hdr, wire, logged, stored, reached>>

WriteLogging ==
    /\ pc = "log"
    /\ w' = [w EXCEPT !.log = TRUE]
    /\ pc' = "gzip"
    /\ UNCHANGED <<dep, req, conf, body, todo, signer, hdr, wire, logged, stored, reached>>

\* Mutant: the encoding is set on a header map that is already sent.
SendHeaderUntold(throughGzip, code) ==
    /\ hdr' = [hdr EXCEPT !.enc = @ \/ throughGzip]
    /\ wire' = IF wire.status # 0 THEN wire ELSE [wire EXCEPT !.status = code, !.hash = hdr.hash]
    /\ logged' = IF w.log THEN code ELSE logged

\* WriteHeader of the writers below the signer: compressWriter sets the encoding,
\* net/http sends the first header only, loggingResponseWriter notes the last.
SendHeader(throughGzip, code) ==
    LET h == [hdr EXCEPT !.enc = @ \/ throughGzip]
    IN  /\ hdr' = h
        /\ wire' = IF wire.status # 0 THEN wire
                   ELSE [wire EXCEPT !.status = code, !.hash = h.hash, !.enc = h.enc]
        /\ logged' = IF w.log THEN code ELSE logged

\* net/http sends a header of its own before a body that comes without one.
Started ==
    IF wire.status # 0 THEN wire
    ELSE [wire EXCEPT !.status = 200, !.hash = hdr.hash, !.enc = hdr.enc]

\* allowedCompressTypes
Compressible == {"text/html", "application/json"}

\* GzipCompDecomp. A body whose gzip header is broken is answered on the plain
\* writer, and the deferred Close still writes an empty gzip stream.
GzipCompDecomp ==
    LET gz == req.accept /\ (IsGet(req) \/ req.ctype \in Compressible)
    IN  /\ pc = "gzip"
        /\ w' = [w EXCEPT !.gz = gz]
        /\ \/ /\ req.gz = "broken"
              /\ SendHeader(FALSE, 500)
              /\ pc' = "respond"
           \/ /\ req.gz # "broken"
              /\ pc' = IF req.route \in Updates THEN "sign" ELSE "handler"
              /\ UNCHANGED <<hdr, wire, logged>>
        /\ UNCHANGED <<dep, req, conf, body, todo, signer, stored, reached>>

\* A gzip body that is cut short fails when it is read.
Unreadable == req.gz = "cut"

\* Mutant: a fresh hash is used for the answer.
HashedAnswerOnly(b) == <<>>

\* What the HMAC has taken in when the request matches.
HashedRequest(b) == <<b>>

\* SignCheck: without a key nothing is checked or signed; without the header the
\* answer alone is signed; with it the hash goes on over the answer. A request
\* that does not match is answered on the writer below the signer.
SignCheck ==
    /\ pc = "sign"
    /\ \/ /\ conf.key = ""
          /\ pc' = "decrypt"
          /\ UNCHANGED <<todo, w, signer>>
       \/ /\ conf.key # "" /\ req.sig.form = "none"
          /\ w' = [w EXCEPT !.signed = TRUE]
          /\ pc' = "decrypt"
          /\ UNCHANGED <<todo, signer>>
       \/ /\ conf.key # "" /\ ~Unreadable /\ req.sig = HMAC(conf.key, <<body>>)
          /\ w' = [w EXCEPT !.signed = TRUE]
          /\ signer' = [signer EXCEPT !.sum = HashedRequest(body)]
          /\ pc' = "decrypt"
          /\ UNCHANGED todo
       \/ /\ conf.key # "" /\ req.sig.form # "none"
          /\ Unreadable \/ req.sig # HMAC(conf.key, <<body>>)
          /\ Respond(Error(400))
          /\ UNCHANGED <<w, signer>>
    /\ UNCHANGED <<dep, req, conf, body, hdr, wire, logged, stored, reached>>

\* AsymmetricDencryptData: a private key that cannot be read ends the server; a
\* panic on one that is not PEM ends the request, net/http recovers it and closes
\* the connection. Neither request is answered.
AsymmetricDencryptData ==
    /\ pc = "decrypt"
    /\ \/ /\ conf.crypto = ""
          /\ pc' = "handler"
          /\ UNCHANGED <<body, todo>>
       \/ /\ conf.crypto \in KeyFileUnusable
          /\ pc' = "fatal"
          /\ UNCHANGED <<body, todo>>
       \/ LET plain == DecryptOAEPbyPart(conf.crypto, body.data)
              text64 == body.b64 \/ body.data = <<>>
          IN  /\ conf.crypto \notin KeyFileUnusable \cup {""}
              /\ \/ /\ ~Unreadable /\ text64 /\ plain.ok
                    /\ body' = Body(FALSE, plain.data)
                    /\ pc' = "handler"
                    /\ UNCHANGED todo
                 \/ /\ Unreadable \/ ~text64 \/ ~plain.ok
                    /\ Respond(Error(400))
                    /\ UNCHANGED body
    /\ UNCHANGED <<dep, req, conf, w, signer, hdr, wire, logged, stored, reached>>

\* The handler up to its first call on the writer. A cut body does not decode;
\* the one of a URL update is not read.
Handle ==
    LET seen == IF Unreadable THEN Body(FALSE, <<>>) ELSE body
    IN  /\ pc = "handler"
        /\ \E out \in Handler(req, seen) :
              /\ stored' = out.store
              /\ Respond(out.calls)
        /\ reached' = <<seen>>
        /\ UNCHANGED <<dep, req, conf, w, body, signer, hdr, wire, logged>>

\* SendMetrics on the gRPC listener: only the metadata names the address, and
\* an error of the store is not answered.
SendMetrics ==
    /\ pc = "rpc"
    /\ pc' = "done"
    /\ \/ /\ ~Trusted(req.realIP)
          /\ wire' = [wire EXCEPT !.status = 403]
          /\ UNCHANGED <<stored, reached>>
       \/ /\ Trusted(req.realIP)
          /\ stored' \in {"ok", "failed"}
          /\ reached' = <<body>>
          /\ wire' = [wire EXCEPT !.status = 200]
    /\ UNCHANGED <<dep, req, conf, w, body, todo, signer, hdr, logged>>

-----------------------------------------------------------------------------
(* The calls on the writer.                                                 *)

Call(op) == pc = "respond" /\ todo # <<>> /\ Head(todo).op = op

\* The write that ends the call: the client gets the text, or is gone, and then
\* the handler that looks at the error answers again.
PutText ==
    \/ /\ ~wire.gone
       /\ wire' = [Started EXCEPT !.texts = Append(@, Head(todo).text), !.gz = @ \/ w.gz]
       /\ todo' = Tail(todo)
    \/ /\ wire' = [wire EXCEPT !.gone = TRUE]
       /\ todo' = IF Head(todo).checked THEN Error(500) ELSE Tail(todo)

PlainWriteHeader ==
    /\ Call("header") /\ ~w.signed
    /\ SendHeader(w.gz, Head(todo).code)
    /\ todo' = Tail(todo)
    /\ UNCHANGED <<dep, req, pc, conf, w, body, signer, stored, reached>>

PlainWrite ==
    /\ Call("write") /\ ~w.signed
    /\ PutText
    /\ UNCHANGED <<dep, req, pc, conf, w, body, signer, hdr, logged, stored, reached>>

\* signResponseWriter.WriteHeader
SignWriteHeader ==
    /\ Call("header") /\ w.signed
    /\ signer' = [signer EXCEPT !.gor = Append(@, [code |-> Head(todo).code, at |-> "wait"])]
    /\ todo' = Tail(todo)
    /\ UNCHANGED <<dep, req, pc, conf, w, body, hdr, wire, logged, stored, reached>>

\* signResponseWriter.Write: the hash of everything so far goes into the header,
SignSet ==
    /\ Call("write") /\ w.signed /\ signer.at = "idle"
    /\ LET sum == Append(signer.sum, Chunk(Head(todo).text))
       IN  /\ signer' = [signer EXCEPT !.sum = sum, !.at = "set"]
           /\ hdr' = [hdr EXCEPT !.hash = HMAC(conf.key, sum)]
    /\ UNCHANGED <<dep, req, pc, conf, w, body, todo, wire, logged, stored, reached>>

\* the goroutine is told,
SignSetDone ==
    /\ signer.at = "set" /\ ~signer.setDone
    /\ signer' = [signer EXCEPT !.setDone = TRUE, !.at = "told"]
    /\ UNCHANGED <<dep, req, pc, conf, w, body, todo, hdr, wire, logged, stored, reached>>

\* and once it has sent the header the body is written.
SignWrite ==
    /\ signer.at = "told" /\ signer.sendDone
    /\ signer' = [signer EXCEPT !.sendDone = FALSE, !.at = "idle"]
    /\ PutText
    /\ UNCHANGED <<dep, req, pc, conf, w, body, hdr, logged, stored, reached>>

\* The goroutine of a WriteHeader.
HeaderGoroutine(i) ==
    /\ i \in DOMAIN signer.gor
    /\ \/ /\ signer.gor[i].at = "wait" /\ signer.setDone
          /\ signer' = [signer EXCEPT !.gor[i].at = "send", !.setDone = FALSE]
          /\ UNCHANGED <<hdr, wire, logged>>
       \/ /\ signer.gor[i].at = "send"
          /\ SendHeader(w.gz, signer.gor[i].code)
          /\ signer' = [signer EXCEPT !.gor[i].at = "tell"]
       \/ /\ signer.gor[i].at = "tell" /\ ~signer.sendDone
          /\ signer' = [signer EXCEPT !.gor = RemoveAt(@, i), !.sendDone = TRUE]
          /\ UNCHANGED <<hdr, wire, logged>>
    /\ UNCHANGED <<dep, req, pc, conf, w, body, todo, stored, reached>>

\* The chain returns: the gzip stream is closed and the request is logged.
Return ==
    /\ pc = "respond" /\ todo = <<>>
    /\ pc' = "done"
    /\ wire' = IF w.gz /\ ~wire.gone THEN [Started EXCEPT !.gz = TRUE] ELSE wire
    /\ UNCHANGED <<dep, req, conf, w, body, todo, signer, hdr, logged, stored, reached>>

Serve == CheckIP \/ WriteLogging \/ GzipCompDecomp \/ SignCheck \/ AsymmetricDencryptData \/ Handle
Sign == SignWriteHeader \/ SignSet \/ SignSetDone \/ SignWrite

Next ==
    \/ Start \/ Serve \/ SendMetrics
    \/ PlainWriteHeader \/ PlainWrite \/ Sign \/ Return
    \/ \E i \in 1..2 : HeaderGoroutine(i)

Spec == Init /\ [][Next]_vars

\* Every goroutine runs: none of them ever waits for anything but the others.
FairSpec == Spec /\ WF_vars(Next)

-----------------------------------------------------------------------------
(* Properties.                                                              *)

Over == pc \in {"done", "fatal", "off"}

\* What a deployment's sources say, read from the strongest down: the file, the
\* environment (a switch can only be switched on there), the flag.
Says(s) ==
    IF s.json # Absent THEN s.json
    ELSE IF s.env = "" \/ (s.kind = "enable" /\ s.env # "true") THEN s.flag ELSE s.env

\* Both programs start: the file decodes, the numbers and switches that flags and
\* environment give parse, and level and subnets are what Run takes for such.
BothStart ==
    /\ \A settings \in {dep.server, dep.agent} : \A n \in DOMAIN settings :
          /\ settings[n].json # Malformed
          /\ settings[n].env = Malformed => settings[n].kind \notin {"int", "bool"}
          /\ settings[n].flag = Malformed => settings[n].kind \notin {"int", "bool", "enable"}
    /\ Says(dep.server["level"]) # "nolevel" /\ Says(dep.server["subnet"]) # "noprefix"

\* The agent sends by gRPC, where nothing is signed or encrypted, to a server
\* that listens for it; or by HTTP with keys that fit the server's.
AgentFits ==
    LET server(n) == Says(dep.server[n])
        agent(n)  == Says(dep.agent[n])
    IN  IF agent("grpc") = "true" THEN server("grpc") # ""
        ELSE /\ agent("crypto") = server("crypto") /\ agent("crypto") \notin KeyFileUnusable
             /\ "" \in {agent("key"), server("key")} \/ agent("key") = server("key")

\* The request is a report of such an agent, from an address the server admits.
AgentReport ==
    /\ req.client = "agent" /\ BothStart /\ AgentFits
    /\ Says(dep.server["subnet"]) # "" => req.realIP = "in"

\* A report of an agent whose settings fit the server's reaches the handler with
\* the bytes the agent encoded: encryption by parts and its inverse, base64, the
\* order of signing and encrypting on both sides, and the precedence of flags,
\* environment and file in both programs (Send, SignNew, encryptOAEPbyPart,
\* chiRouter, SignCheck, decryptOAEPbyPart, main).
AgentIsUnderstood == Over /\ AgentReport => reached = <<Body(FALSE, Plain(req.size))>>

\* Both listeners admit the same clients: with trusted subnets set, a request
\* that names its address is refused exactly when the address is not in them,
\* and a refused request has not reached a handler (checkIP, SendMetrics).
SameGateOnBothListeners ==
    pc = "done" /\ req.realIP # ""
    => (/\ (wire.status = 403) <=> (Says(dep.server["subnet"]) # "" /\ req.realIP # "in")
        /\ wire.status = 403 => reached = <<>> /\ stored = "none")

\* An update over HTTP is answered 200 exactly when the store call returned no
\* error, whatever the middlewares and a client that goes away do to the answer
\* (updateMetrics, updateMetricsJSON, updateBatchMetricsJSON). A call that returned
\* one may still have stored the update: PgDB has commits whose answer is lost.
AnswerTellsStore ==
    pc = "done" /\ req.route \in Updates => (wire.status = 200 <=> stored = "ok")

\* What a client that stays gets is one answer: error text exactly with an error
\* status, Content-Encoding exactly on a compressed body, and the log shows the
\* status that was sent. Not so after a value that cannot be encoded, nor for a
\* request whose gzip header is broken (compressWriter, loggingResponseWriter).
AnswerIsWhole ==
    pc = "done" /\ req.route # "rpc" /\ ~wire.gone /\ stored # "nan" /\ req.gz # "broken"
    => /\ (wire.status = 200) <=> ("error" \notin ToSet(wire.texts))
       /\ wire.enc <=> wire.gz
       /\ logged = IF wire.status = 403 THEN 0 ELSE wire.status

\* The hash a client that stays gets with an answer of the signer covers its
\* signed request and everything in the answer, although the header is sent
\* before the body and by another goroutine (signResponseWriter.Write).
SignatureCoversAnswer ==
    pc = "done" /\ w.signed /\ ~wire.gone
    => wire.hash = HMAC(conf.key, (IF req.sig.form = "none" THEN <<>> ELSE <<req.body>>)
                                  \o [i \in DOMAIN wire.texts |-> Chunk(wire.texts[i])])

\* No goroutine of a WriteHeader outlives its request, and nothing is left in
\* the channels for the next call to mistake for its own.
SignerAtRest ==
    pc = "done" => signer.gor = <<>> /\ ~signer.setDone /\ ~signer.sendDone

\* Every request is served to its end: Write and the goroutine of WriteHeader
\* never wait for each other in vain (signResponseWriter).
EveryRequestEnds == <>Over

-----------------------------------------------------------------------------
(* The inductive invariant behind them.                                     *)

\* The records the actions update field by field.
Records ==
    /\ w \in [log : BOOLEAN, gz : BOOLEAN, signed : BOOLEAN]
    /\ DOMAIN req = {"client", "route", "size", "realIP", "remote", "ctype", "accept", "gz",
                     "good", "sig", "body"}
    /\ DOMAIN signer = {"sum", "at", "setDone", "sendDone", "gor"}
    /\ {signer.setDone, signer.sendDone} \subseteq BOOLEAN
    /\ DOMAIN hdr = {"hash", "enc"} /\ hdr.enc \in BOOLEAN
    /\ DOMAIN wire = {"status", "hash", "enc", "gz", "texts", "gone"}
    /\ wire.status \in Nat /\ {wire.enc, wire.gz, wire.gone} \subseteq BOOLEAN

Routes == {"updateURL", "update", "updates", "valueJSON", "value", "all", "ping"}
Codes == {400, 403, 404, 500}

AtRest ==
    signer.at = "idle" /\ signer.gor = <<>> /\ ~signer.setDone /\ ~signer.sendDone

\* Before the first call on the writer nothing has been said,
Silent ==
    pc \notin {"respond", "done"}
    => /\ todo = <<>> /\ stored = "none" /\ reached = <<>> /\ logged = 0
       /\ wire.status = 0 /\ wire.texts = <<>> /\ ~wire.gone /\ ~wire.gz
       /\ ~hdr.enc /\ AtRest

\* and the request is where the chain says: it came through the subnets and is
\* signed only on its way to an update.
Stage ==
    /\ pc \in {"start", "off", "checkIP", "log", "gzip", "sign", "decrypt", "handler", "fatal",
               "rpc", "respond", "done"}
    /\ req.route \in Routes \cup {"rpc"}
    /\ pc = "rpc" => req.route = "rpc"
    /\ pc \notin {"start", "off", "rpc", "done"} => req.route # "rpc"
    /\ pc \in {"start", "off", "rpc"} \/ req.route = "rpc" => ~w.signed
    /\ pc \in {"sign", "decrypt"} \/ w.signed => req.route \in Updates
    /\ w.log <=> pc \notin {"start", "off", "checkIP", "log", "rpc"} /\ Trusted(RealIP(req))
                 /\ req.route # "rpc"
    /\ pc \in {"log", "gzip", "sign", "decrypt", "handler", "fatal"} => Trusted(RealIP(req))
    /\ pc \in {"start", "checkIP", "log", "gzip", "sign"} => ~w.signed /\ signer.sum = <<>>
    /\ pc \in {"start", "off", "rpc", "checkIP", "log", "gzip"} => ~w.gz
    /\ pc \in {"checkIP", "log", "gzip", "sign"} => body = req.body
    /\ req.route \in Updates => stored \in {"none", "failed", "ok"}
    /\ dep \in Deployments /\ conf = ResolveAll(dep.server)
    /\ pc \notin {"start", "off"} => conf.key # Fatal

\* A header has been written, by this goroutine or to be sent by another; Code is
\* the one the client gets, also before it is sent.
Begun == wire.status # 0 \/ signer.gor # <<>>
Code ==
    IF wire.status # 0 THEN wire.status
    ELSE IF signer.gor # <<>> THEN signer.gor[1].code
    ELSE IF todo # <<>> THEN Head(todo).code ELSE 0

\* How the outcome of the handler and the status go together.
Refused == stored \in {"none", "failed"} /\ Code \in Codes
Granted == stored \in {"ok", "read"} /\ Code = 200

\* What is left of an answer to a client that is there: all of it,
AllLeft ==
    /\ ~Begun /\ wire.texts = <<>>
    /\ \/ Refused /\ \E c \in Codes : todo = Error(c)
       \/ Granted /\ todo \in {<<WriteHeader(200), Write("text")>>, <<WriteHeader(200), Encode>>}
       \/ Granted /\ ~w.signed /\ todo = <<WriteHeader(200), Write("text"), Write("text")>>

\* its body,
BodyLeft ==
    /\ Begun /\ wire.texts = <<>>
    /\ \/ Refused /\ todo = <<Write("error")>>
       \/ Granted /\ todo \in {<<Write("text")>>, <<Encode>>}
       \/ Granted /\ ~w.signed /\ todo = <<Write("text"), Write("text")>>

\* the second part of a page, or nothing.
PageLeft ==
    wire.status # 0 /\ Granted /\ ~w.signed /\ wire.texts = <<"text">> /\ todo = <<Write("text")>>
NothingLeft ==
    /\ wire.status # 0 /\ todo = <<>>
    /\ \/ Refused /\ wire.texts = <<"error">>
       \/ Granted /\ wire.texts \in {<<"text">>, <<"json">>}
       \/ Granted /\ ~w.signed /\ wire.texts = <<"text", "text">>
       \/ Refused /\ ~w.signed /\ wire.texts = <<>> /\ req.gz = "broken"

\* To a client that is gone the handler may answer again, which changes nothing;
Gone ==
    /\ wire.gone /\ wire.status # 0 /\ (Refused \/ Granted)
    /\ todo \in {<<>>, Error(500), <<Write("error")>>} \/ (~w.signed /\ todo = <<Write("text")>>)

\* a value that cannot be encoded is answered with 200 and an error.
Unencodable ==
    /\ stored = "nan" /\ Code = 200 /\ ~w.signed
    /\ \/ ~Begun /\ ~wire.gone /\ todo = <<WriteHeader(200), WriteHeader(500), Write("error")>>
       \/ Begun /\ todo \in {Error(500), <<Write("error")>>, <<>>}

Answering ==
    pc \in {"respond", "done"} /\ req.route # "rpc"
    => /\ \/ ~wire.gone /\ (AllLeft \/ BodyLeft \/ PageLeft \/ NothingLeft)
          \/ Gone \/ Unencodable
       /\ pc = "done" => todo = <<>>
       /\ Code = 403 <=> ~Trusted(RealIP(req))
       /\ Code = 403 => stored = "none" /\ reached = <<>>

\* The goroutine of WriteHeader and Write take turns: it waits, Write sets the
\* hash and tells it, it sends the header and tells Write.
Turn(at, goroutine, setDone, sendDone) ==
    /\ signer.at = at /\ signer.setDone = setDone /\ signer.sendDone = sendDone
    /\ IF goroutine = "none" THEN signer.gor = <<>>
       ELSE \E c \in Codes \cup {200} : signer.gor = <<[code |-> c, at |-> goroutine]>>

Signing ==
    \/ AtRest /\ (todo = <<>> \/ ~w.signed \/ Head(todo).op = "header")
    \/ /\ pc = "respond" /\ w.signed
       /\ todo \in {<<Write("error")>>, <<Write("text")>>, <<Encode>>}
       /\ \/ Turn("idle", "wait", FALSE, FALSE) /\ (wire.gone \/ wire.status = 0)
          \/ Turn("set", "wait", FALSE, FALSE) /\ (wire.gone \/ wire.status = 0)
          \/ Turn("told", "wait", TRUE, FALSE) /\ (wire.gone \/ wire.status = 0)
          \/ Turn("told", "send", FALSE, FALSE) /\ (wire.gone \/ wire.status = 0)
          \/ Turn("told", "tell", FALSE, FALSE) /\ wire.status # 0
          \/ Turn("told", "none", FALSE, TRUE) /\ wire.status # 0

\* What the hash has taken in: the request, if it was signed, and the text that
\* is being written or has been.
Covered ==
    w.signed /\ ~wire.gone
    => LET asked == IF req.sig.form = "none" THEN <<>> ELSE <<req.body>>
       IN  /\ signer.at = "idle" /\ (pc # "respond" \/ todo # <<>>) /\ pc # "done" => signer.sum = asked
           /\ signer.at # "idle"
              => /\ signer.sum = Append(asked, Chunk(Head(todo).text))
                 /\ hdr.hash = HMAC(conf.key, signer.sum)
                 /\ wire.status # 0 => wire.hash = hdr.hash
           /\ pc \in {"respond", "done"} /\ todo = <<>>
              => wire.hash = HMAC(conf.key, Append(asked, Chunk(wire.texts[1])))

\* The encoding that is announced, and the status that is logged.
Announced ==
    /\ hdr.enc => w.gz
    /\ wire.gz => w.gz
    /\ wire.status # 0 /\ req.route # "rpc" /\ req.gz # "broken" => wire.enc = w.gz
    /\ pc = "done" /\ w.gz /\ ~wire.gone => wire.gz
    /\ ~wire.gone /\ stored # "nan" => logged = IF w.log THEN wire.status ELSE 0

\* A gRPC report was admitted or refused.
Rpc ==
    req.route = "rpc" /\ pc = "done"
    => /\ AtRest /\ todo = <<>>
       /\ wire.status = IF Trusted(req.realIP) THEN 200 ELSE 403
       /\ ~Trusted(req.realIP) => stored = "none" /\ reached = <<>>

HInv ==
    /\ Records /\ Silent /\ Stage /\ Answering /\ Signing /\ Covered /\ Announced /\ Rpc

\* The report of an agent that fits, on its way to the handler: what each
\* middleware has still to check or to undo.
Sealing(data) == AsymmetricEncryptData(Says(dep.agent["crypto"]), data).body

Carried ==
    AgentReport
    => LET plain == Body(FALSE, Plain(req.size))
       IN  /\ pc \notin {"off", "fatal"}
           /\ req.size \in Nat /\ req.gz = "no"
           /\ pc = "start" => req.route = "updates"
           /\ pc \in {"checkIP", "log", "gzip", "sign", "decrypt", "handler"}
              => req.route = "updates" /\ Says(dep.agent["grpc"]) # "true"
           /\ pc \in {"checkIP", "log", "gzip", "sign", "decrypt"} => body = Sealing(Plain(req.size))
           /\ pc \in {"checkIP", "log", "gzip", "sign"}
              => req.sig = SignNew(Says(dep.agent["key"]), body)
           /\ pc \in {"handler", "rpc"} => body = plain
           /\ pc \in {"respond", "done"} => reached = <<plain>>
=============================================================================
