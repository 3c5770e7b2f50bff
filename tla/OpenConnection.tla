--------------------------- MODULE OpenConnection ---------------------------
(***************************************************************************)
(* Opening a connection: parseURL takes a connection name apart, Open or    *)
(* the connector looks at the protocol version, v1.Connect and              *)
(* ignite3.Connect dial and make the handshake, whose answer is a stream of *)
(* tokens as in ResultStream.  The parameters of a URL are a Go map, which  *)
(* is visited in any order.  Lost connections are IgniteClient's and        *)
(* SqlPool's.                                                               *)
(***************************************************************************)
EXTENDS SchemaStream

CONSTANTS Urls,      \* connection names: functions from parameters, as spelled, to values
          Lower,     \* strings.ToLower of the parameters
          Semver,    \* the texts that are versions, and the versions
          Decimal,   \* the texts that strconv.Atoi takes
          Literal,   \* the texts that strconv.ParseInt takes with base 0
          Servers,   \* the servers a name may lead to
          NoAuth     \* a server's credentials if it asks for none

\* What a server tells about its node; a UUID is a text.
Nodes == [IdleTimeout : Nat, ClusterNodeId : STRING, ClusterNodeName : STRING,
          ClusterIds : Seq(STRING), ClusterName : STRING, ObservableTS : Nat,
          DBMSVer : [1..3 -> 0..255], DBMSVerPatch : STRING, DBMSVerPreRelease : STRING,
          Features : Nat]

\* A server: "none", "good" or "bad" for its certificate, the version it
\* supports, the credentials it asks for, and its node.
ASSUME ServersAssumption ==
    \A s \in Servers : /\ s.cert \in {"none", "good", "bad"}
                       /\ s.version \in [1..3 -> 0..127]
                       /\ s.auth \in {NoAuth} \cup [identity : STRING, secret : STRING]
                       /\ s.node \in Nodes /\ Len(s.node.ClusterIds) <= 255
ASSUME UrlsAssumption == \A u \in Urls : DOMAIN u \subseteq DOMAIN Lower
ASSUME SemverAssumption == /\ "3.0.0" \in DOMAIN Semver
                           /\ \A text \in DOMAIN Semver : Semver[text] \in [1..3 -> Nat]

VARIABLES url,     \* the parameters of the connection name
          todo,    \* those that the loop has not visited
          ci,      \* ConnInfo, as the texts of its parameters
          server,  \* the server that is dialled
          node     \* ResponseHandshake

openVars == <<url, todo, ci, server, node>>

-----------------------------------------------------------------------------
(* The server's answer (external)                                          *)

Accepts(s, req) == req.version = s.version /\ s.auth \in {NoAuth, req.authInfo}

\* Without TLS to a server that has it, or the reverse, there is no handshake.
Reaches(tls, s) == \/ tls = "nil" /\ s.cert = "none"
                   \/ tls = "verify" /\ s.cert = "good"
                   \/ tls = "insecure" /\ s.cert # "none"

PackString(text) == IF text = "" THEN PackNil ELSE Token("str", text)
PackUuid(id) == Token("ext", id)

\* After the features come extensions, which the client does not read.
Extensions == <<PackInt(0)>>

PackNode(n) ==
    <<PackInt(n.IdleTimeout), PackUuid(n.ClusterNodeId), PackString(n.ClusterNodeName),
      PackInt(Len(n.ClusterIds))>>
    \o [i \in DOMAIN n.ClusterIds |-> PackUuid(n.ClusterIds[i])]
    \o <<PackString(n.ClusterName), PackInt(n.ObservableTS),
         PackInt(n.DBMSVer[1]), PackInt(n.DBMSVer[2]), PackInt(n.DBMSVer[3]),
         PackString(n.DBMSVerPatch), PackString(n.DBMSVerPreRelease), Token("bin", n.Features)>>

PackAnswer(s, req) ==
    <<PackInt(s.version[1]), PackInt(s.version[2]), PackInt(s.version[3])>>
    \o IF Accepts(s, req) THEN <<PackNil>> \o PackNode(s.node) \o Extensions
       ELSE <<PackUuid("trace"), PackInt(196611), PackString("class"), PackString("reason"), PackNil>>

-----------------------------------------------------------------------------
(* parseURL                                                                *)

Params == {"schema", "version", "username", "password", "tls", "tls-insecure-skip-verify",
           "page-size", "timeout"}

Default(p) == CASE p = "version" -> "3.0.0"
                [] p = "page-size" -> "10000"
                [] p = "timeout" -> "0"
                [] p \in {"tls", "tls-insecure-skip-verify"} -> "no"
                [] OTHER -> ""

OpenInit ==
    /\ api = "Open"
    /\ url \in Urls
    /\ todo = DOMAIN url
    /\ ci = [p \in Params |-> Default(p)]
    /\ server = <<>> /\ node = <<>>
    /\ phase = "url"
    /\ result = NoHeader
    /\ cols = <<>> /\ message = <<>> /\ meta = <<>> /\ cells = <<>> /\ row = <<>>
    /\ sent = 0 /\ left = 0 /\ pages = 0 /\ schemas = 0

parseYesNo(v) == v \in {"yes", "no"}

\* Fault: an empty value is a value.
DefaultStaysNever(p, v) == FALSE

\* An empty value leaves these as they are.
DefaultStays(p, v) == p \in {"version", "page-size", "timeout"} /\ v = ""

\* The parameter is known and its value can be converted.
Readable(p, v) == \/ DefaultStays(p, v)
                  \/ p \in {"schema", "username", "password"}
                  \/ p = "version" /\ v \in DOMAIN Semver
                  \/ p = "page-size" /\ v \in Decimal
                  \/ p = "timeout" /\ v \in Literal
                  \/ p \in {"tls", "tls-insecure-skip-verify"} /\ parseYesNo(v)

\* One iteration of the loop over the parameters.
parseParameter(k) ==
    /\ phase = "url" /\ k \in todo
    /\ LET p == Lower[k]
       IN  IF Readable(p, url[k])
           THEN /\ ci' = IF DefaultStays(p, url[k]) THEN ci ELSE [ci EXCEPT ![p] = url[k]]
                /\ todo' = todo \ {k}
                /\ UNCHANGED <<vars, schemas, url, server, node>>
           ELSE Stop("badUrl") /\ UNCHANGED <<schemas, openVars>>

\* The rest of parseURL.
endOfURL ==
    /\ phase = "url" /\ todo = {}
    /\ ci' = [ci EXCEPT !["schema"] = IF @ = "" THEN "PUBLIC" ELSE @]
    /\ Stop("open")
    /\ UNCHANGED <<schemas, url, todo, server, node>>

-----------------------------------------------------------------------------
(* Connect and the handshake                                               *)

TLSConfig == IF ci["tls"] = "no" THEN "nil"
             ELSE IF ci["tls-insecure-skip-verify"] = "yes" THEN "insecure" ELSE "verify"

Major == Semver[ci["version"]][1]

\* Fault: name and password are exchanged.
RequestHandshakeSwapped ==
    [version |-> [i \in 1..3 |-> Semver[ci["version"]][i] % 256],
     authInfo |-> [identity |-> ci["password"], secret |-> ci["username"]]]

\* Each part of the version is a byte.
RequestHandshake ==
    [version |-> [i \in 1..3 |-> Semver[ci["version"]][i] % 256],
     authInfo |-> [identity |-> ci["username"], secret |-> ci["password"]]]

\* Open or connector.Connect, then v1.Connect and ignite3.Connect up to the
\* answer.
Connect(s) ==
    /\ phase = "open"
    /\ server' = s
    /\ IF Major = 3 /\ Reaches(TLSConfig, s)
       THEN /\ message' = PackAnswer(s, RequestHandshake)
            /\ phase' = "handshake"
            /\ UNCHANGED <<api, cols, sent, result, meta, left, cells, row, pages>>
       ELSE Stop("refused")
    /\ UNCHANGED <<schemas, url, todo, ci, node>>

\* ReadFrom: the server's version, then nil, or a trace id, a code and three
\* texts, which end the call.
ReadVerdict ==
    /\ phase = "handshake"
    /\ IF Reads(message, <<IntCodes, IntCodes, IntCodes>>) /\ Len(message) > 3 /\ message[4].code # "ext"
       THEN /\ message' = Drop(message, 4)
            /\ phase' = "node"
            /\ UNCHANGED <<api, cols, sent, result, meta, left, cells, row, pages>>
       ELSE Stop("refused")
    /\ UNCHANGED <<schemas, openVars>>

Text == {"str", "nil"}
TextOf(t) == IF t.code = "nil" THEN "" ELSE t.val
Int8(v) == ((v + 128) % 256) - 128
Uint8(v) == v % 256

NodeHead == <<IntCodes, {"ext"}, Text, IntCodes>>

NodeForm(ids) ==
    NodeHead \o [i \in 1..ids |-> {"ext"}]
    \o <<Text, IntCodes, IntCodes, IntCodes, IntCodes, Text, Text, {"bin", "nil"}>>

\* The rest of ReadFrom.
ReadNode ==
    /\ phase = "node"
    /\ LET ids == IF Reads(message, NodeHead) THEN Uint8(message[4].val) ELSE 0
           rest == Drop(message, 4 + ids)
       IN  IF Reads(message, NodeForm(ids))
           THEN /\ node' = [IdleTimeout |-> Int8(message[1].val),
                            ClusterNodeId |-> message[2].val,
                            ClusterNodeName |-> TextOf(message[3]),
                            ClusterIds |-> [i \in 1..ids |-> message[4 + i].val],
                            ClusterName |-> TextOf(rest[1]),
                            ObservableTS |-> rest[2].val,
                            DBMSVer |-> [i \in 1..3 |-> Uint8(rest[2 + i].val)],
                            DBMSVerPatch |-> TextOf(rest[6]),
                            DBMSVerPreRelease |-> TextOf(rest[7]),
                            Features |-> rest[8].val]
                /\ message' = Drop(rest, 8)
                /\ phase' = "connected"
                /\ UNCHANGED <<api, cols, sent, result, meta, left, cells, row, pages>>
           ELSE Stop("refused") /\ UNCHANGED node
    /\ UNCHANGED <<schemas, url, todo, ci, server>>

-----------------------------------------------------------------------------

OpenNext == \/ endOfURL \/ ReadVerdict \/ ReadNode
            \/ \E k \in todo : parseParameter(k)
            \/ \E s \in Servers : Connect(s)

\* A connection is opened, or a response is read.
StreamInit == \/ OpenInit
              \/ /\ ReplyInit
                 /\ url = <<>> /\ todo = {} /\ ci = <<>> /\ server = <<>> /\ node = <<>>

StreamSpec == StreamInit /\ [][(ReplyNext /\ UNCHANGED openVars) \/ OpenNext]_<<vars, schemas, openVars>>

-----------------------------------------------------------------------------
(* Properties                                                              *)

\* A connection name means the same whatever the order of the map: it is
\* refused exactly if one of its parameters is unknown or cannot be converted,
\* and each parameter has the value that was given, or its default if none or
\* an empty one was.  Only where a name is given twice, in upper and in lower
\* case, is it open which of the two counts (driver.go:90-126).
UrlIsUnderstood ==
    LET Given(p) == {url[k] : k \in {k \in DOMAIN url : Lower[k] = p}}
        Meant(p) == CASE p \in {"version", "page-size", "timeout"} -> Given(p) \ {""}
                      [] p = "schema" -> {IF v = "" THEN "PUBLIC" ELSE v : v \in Given(p)}
                      [] OTHER -> Given(p)
        Otherwise(p) == IF p = "schema" THEN "PUBLIC" ELSE Default(p)
        Allowed(p) == CASE p \in {"tls", "tls-insecure-skip-verify"} -> {"yes", "no"}
                        [] p = "version" -> DOMAIN Semver \cup {""}
                        [] p = "page-size" -> Decimal \cup {""}
                        [] p = "timeout" -> Literal \cup {""}
                        [] OTHER -> Given(p)
        wrong == \E k \in DOMAIN url : Lower[k] \notin Params \/ url[k] \notin Allowed(Lower[k])
    IN  /\ phase = "badUrl" => wrong
        /\ api = "Open" /\ phase \notin {"url", "badUrl"} =>
               /\ ~wrong
               /\ \A p \in Params : ci[p] \in IF Meant(p) = {} THEN {Otherwise(p)} ELSE Meant(p)

\* A connection is handed out exactly if the two sides agree: on TLS, with a
\* certificate that is good unless it is not to be verified, on the
\* credentials, and on the version, of which each part is taken modulo 256.
\* What the client then knows of the node is what the server has told it, but
\* for an idle timeout above 127 ms (response-handshake.go:168-172).
ConnectedAsAgreed ==
    LET v == Semver[ci["version"]]
        agree == /\ v[1] = 3
                 /\ \A i \in 1..3 : v[i] % 256 = server.version[i]
                 /\ ci["tls"] = "yes" <=> server.cert # "none"
                 /\ server.cert = "bad" => ci["tls-insecure-skip-verify"] = "yes"
                 /\ server.auth # NoAuth => /\ server.auth.identity = ci["username"]
                                           /\ server.auth.secret = ci["password"]
    IN  /\ phase = "refused" => ~agree
        /\ phase = "connected" =>
               /\ agree
               /\ [node EXCEPT !.IdleTimeout = 0] = [server.node EXCEPT !.IdleTimeout = 0]
               /\ node.IdleTimeout = server.node.IdleTimeout <=> server.node.IdleTimeout < 128
               /\ message = Extensions
=============================================================================
