--------------------------- MODULE MCHttpRequest ---------------------------
EXTENDS HttpRequest

MCSetting(kind, flag, env, json) == [kind |-> kind, flag |-> flag, env |-> env, json |-> json]
MCUnset == MCSetting("string", "", "", Absent)

\* Every setting at its default; a deployment changes some of them.
MCServer ==
    [key |-> MCUnset, crypto |-> MCUnset, subnet |-> MCUnset, grpc |-> MCUnset,
     level |-> MCSetting("string", "info", "", Absent),
     interval |-> MCSetting("int", "300", "", Absent),
     address |-> MCSetting("addr", "localhost:8080", Malformed, Absent)]
MCAgent ==
    [key |-> MCUnset, crypto |-> MCUnset, grpc |-> MCSetting("enable", "false", "", Absent),
     rate |-> MCSetting("int", "1", "", Absent)]

MCFlag(v) == MCSetting("string", v, "", Absent)
MCEnv(v) == MCSetting("string", "", v, Absent)
MCFile(env, json) == MCSetting("string", "", env, json)

MCDeployments == {
    [server |-> MCServer, agent |-> MCAgent],
    \* signed, encrypted and fenced in, from different sources
    [server |-> [MCServer EXCEPT !.key = MCEnv("s1"), !.crypto = MCFlag("k1"), !.subnet = MCEnv("net")],
     agent  |-> [MCAgent EXCEPT !.key = MCFlag("s1"), !.crypto = MCFile("", "k1")]],
    \* the file overrules the environment, with a value and with none
    [server |-> [MCServer EXCEPT !.key = MCFile("s2", "s1"), !.crypto = MCFile("k1", "")],
     agent  |-> [MCAgent EXCEPT !.key = MCEnv("s1")]],
    \* gRPC switched on by the environment
    [server |-> [MCServer EXCEPT !.grpc = MCEnv("host:3200"), !.subnet = MCFile("", "net"), !.key = MCEnv("s1")],
     agent  |-> [MCAgent EXCEPT !.grpc = MCSetting("enable", "false", "true", Absent)]],
    \* keys that differ; no gRPC listener; key files without a key
    [server |-> [MCServer EXCEPT !.crypto = MCEnv("k2")], agent |-> [MCAgent EXCEPT !.crypto = MCEnv("k1")]],
    [server |-> MCServer, agent |-> [MCAgent EXCEPT !.grpc = MCSetting("enable", "true", "no", Absent)]],
    [server |-> [MCServer EXCEPT !.crypto = MCEnv("missing")], agent |-> [MCAgent EXCEPT !.crypto = MCEnv("missing")]],
    [server |-> [MCServer EXCEPT !.crypto = MCEnv("notpem")], agent |-> [MCAgent EXCEPT !.crypto = MCEnv("notpem")]],
    \* settings that end a program at its start
    [server |-> [MCServer EXCEPT !.interval = MCSetting("int", "300", Malformed, Absent)], agent |-> MCAgent],
    [server |-> MCServer, agent |-> [MCAgent EXCEPT !.grpc = MCSetting("enable", Malformed, "true", Absent)]],
    [server |-> [MCServer EXCEPT !.subnet = MCEnv("noprefix")], agent |-> MCAgent],
    [server |-> [MCServer EXCEPT !.level = MCEnv("nolevel")], agent |-> MCAgent],
    [server |-> MCServer, agent |-> [MCAgent EXCEPT !.rate = MCSetting("int", "1", "", Malformed)]]}

MCBodies == {Body(FALSE, <<>>), Body(FALSE, Plain(3)), Body(TRUE, Plain(1)),
             Body(TRUE, EncryptOAEPbyPart("k1", Plain(3)).data)}
MCSignatures == {Unsigned, [Unsigned EXCEPT !.form = "nothex"]}
                \cup {HMAC(k, <<b>>) : k \in {"s1", "s2"}, b \in MCBodies}

MCRequest ==
    [client |-> "other", route |-> "updates", size |-> 0, realIP |-> "in", remote |-> "in",
     ctype |-> "application/json", accept |-> TRUE, gz |-> "no", good |-> TRUE,
     sig |-> Unsigned, body |-> Body(FALSE, Plain(3))]

MCRoutes == {"updateURL", "update", "updates", "valueJSON", "value", "all", "ping"}

\* The agent's reports, of up to three blocks; every address at every route;
\* every signature, body and encoding of an update; every content type.
MCRequests ==
    {[MCRequest EXCEPT !.client = "agent", !.size = n, !.realIP = ip] : n \in 1..5, ip \in {"in", "out"}}
    \cup {[MCRequest EXCEPT !.route = r, !.realIP = ip, !.remote = a] :
            r \in MCRoutes \cup {"rpc"}, ip \in {"", "in", "out", "junk"}, a \in {"in", "out", "v6"}}
    \cup {[MCRequest EXCEPT !.route = r, !.body = b, !.sig = s, !.gz = z, !.accept = x] :
            r \in Updates, b \in MCBodies, s \in MCSignatures, z \in {"no", "yes", "cut"}, x \in BOOLEAN}
    \cup {[MCRequest EXCEPT !.route = r, !.ctype = c, !.good = g, !.gz = z, !.accept = x] :
            r \in MCRoutes, c \in {"", "text/plain", "text/html", "application/json"}, g \in BOOLEAN,
            z \in {"no", "broken"}, x \in BOOLEAN}
=============================================================================
