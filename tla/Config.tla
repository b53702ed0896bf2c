------------------------------- MODULE Config -------------------------------
(***************************************************************************)
(* How both programs come to their settings: servFlags, servEnv and        *)
(* parseJSONconfigFile of cmd/server/flags.go and cmd/agent/flags.go, in   *)
(* the order main calls them. A setting is what its three sources give:    *)
(*   [kind |-> .., flag |-> .., env |-> .., json |-> ..]                   *)
(* with "" for a variable that is not set, and Absent for a key the JSON   *)
(* file does not have (or no file at all). Values that do not parse are    *)
(* Malformed.                                                              *)
(***************************************************************************)
Absent == "absent"
Malformed == "malformed"
\* log.Fatal, or flag.Parse refusing an argument: the program ends.
Fatal == "fatal"

\* servFlags: the flag, or its default; flag.Parse ends the program on a number
\* or a switch that does not parse.
FromFlags(s) ==
    IF s.kind \in {"int", "bool", "enable"} /\ s.flag = Malformed THEN Fatal ELSE s.flag

\* servEnv passes over an empty variable, an address that is not host:port, and
\* any value of the agent's GRPC but "true", which can only switch on.
EnvIgnored(s) ==
    \/ s.env = ""
    \/ s.kind = "addr" /\ s.env = Malformed
    \/ s.kind = "enable" /\ s.env # "true"

\* A number or a switch that does not parse is fatal.
FromEnv(s, value) ==
    IF value = Fatal \/ EnvIgnored(s) THEN value
    ELSE IF s.kind \in {"int", "bool"} /\ s.env = Malformed THEN Fatal ELSE s.env

\* parseJSONconfigFile: json.Unmarshal into the same struct sets the keys the
\* file has, empty or not; a file that cannot be read or decoded is fatal.
FromJSON(s, value) ==
    IF value = Fatal \/ s.json = Malformed THEN Fatal
    ELSE IF s.json = Absent THEN value ELSE s.json

\* Mutant: the file is read before the environment.
ResolveJSONFirst(s) == FromEnv(s, FromJSON(s, FromFlags(s)))

\* main: flags, then environment, then file.
Resolve(s) == FromJSON(s, FromEnv(s, FromFlags(s)))

\* The settings of a program by name, or Fatal for all of them.
ResolveAll(settings) ==
    LET values == [n \in DOMAIN settings |-> Resolve(settings[n])]
    IN  IF \E n \in DOMAIN settings : values[n] = Fatal
        THEN [n \in DOMAIN settings |-> Fatal] ELSE values
=============================================================================
