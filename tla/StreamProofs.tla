---------------------------- MODULE StreamProofs ----------------------------
(***************************************************************************)
(* Proofs about OpenConnection, ResultStream and SchemaStream, which share  *)
(* the specification StreamSpec: for any columns, tables, servers and       *)
(* connection names.  First the connection and its handshake; then the      *)
(* reading of responses, for which the inductive invariant says, phase by   *)
(* phase, which tokens are ahead of the reader.                             *)
(***************************************************************************)
EXTENDS OpenConnection, NumeralProofs, SequenceTheorems, FiniteSetTheorems

StreamNext == (ReplyNext /\ UNCHANGED openVars) \/ OpenNext
streamVars == <<vars, schemas, openVars>>

OpenPhases == {"url", "badUrl", "open", "handshake", "node", "refused", "connected"}

\* Connections and responses have phases of their own.
PhasesApart == api = "Open" <=> phase \in OpenPhases

-----------------------------------------------------------------------------
(* Least and greatest numbers                                              *)

\* Min is the least number of a set of natural numbers.
LEMMA MinIsLeast ==
    ASSUME NEW T, T \subseteq Nat, T # {}
    PROVE  Min(T) \in T /\ \A x \in T : Min(T) <= x
<1>1. \E x \in T : \A y \in T : x <= y
  BY LeastNumber
<1> QED
  BY <1>1 DEF Min

\* Max is the greatest number of a bounded one.
LEMMA MaxIsGreatest ==
    ASSUME NEW n \in Nat, NEW T, T \subseteq 1..n, T # {}
    PROVE  Max(T) \in T /\ \A x \in T : x <= Max(T)
<1> DEFINE R == {n - x : x \in T}
<1>1. R \subseteq Nat /\ R # {}
  <2>1. PICK t \in T : TRUE
    OBVIOUS
  <2>2. n - t \in R /\ \A x \in T : n - x \in Nat
    BY <2>1
  <2> QED
    BY <2>2
<1> HIDE DEF R
<1>2. PICK m \in R : \A y \in R : m <= y
  BY <1>1, LeastNumber
<1>3. PICK x \in T : m = n - x
  BY <1>2 DEF R
<1>4. \A y \in T : n - y \in R
  BY DEF R
<1>5. \A y \in T : n - x <= n - y
  BY <1>2, <1>3, <1>4
<1>6. \A y \in T : y <= x
  BY <1>5
<1>7. \E z \in T : \A y \in T : z >= y
  BY <1>6
<1> QED
  BY <1>7 DEF Max

-----------------------------------------------------------------------------
(* Connection names                                                        *)

\* The values a name gives to a parameter, those the client goes by, and the
\* one it takes otherwise.
GivenTo(p) == {url[k] : k \in {k \in DOMAIN url : Lower[k] = p}}
MeantBy(p) == CASE p \in {"version", "page-size", "timeout"} -> GivenTo(p) \ {""}
                [] p = "schema" -> {IF v = "" THEN "PUBLIC" ELSE v : v \in GivenTo(p)}
                [] OTHER -> GivenTo(p)
Unless(p) == IF p = "schema" THEN "PUBLIC" ELSE Default(p)
AllowedIn(p) == CASE p \in {"tls", "tls-insecure-skip-verify"} -> {"yes", "no"}
                  [] p = "version" -> DOMAIN Semver \cup {""}
                  [] p = "page-size" -> Decimal \cup {""}
                  [] p = "timeout" -> Literal \cup {""}
                  [] OTHER -> GivenTo(p)
WrongUrl == \E k \in DOMAIN url : Lower[k] \notin Params \/ url[k] \notin AllowedIn(Lower[k])

\* The values the loop has taken.
Taken(p) == {url[k] : k \in {k \in DOMAIN url \ todo : Lower[k] = p /\ ~DefaultStays(p, url[k])}}

\* The loop has taken what it has visited and can be read.
UrlLoop ==
    api = "Open" =>
        /\ todo \subseteq DOMAIN url
        /\ ci = [p \in Params |-> ci[p]]
        /\ \A k \in DOMAIN url \ todo : Readable(Lower[k], url[k])
        /\ phase = "url" => \A p \in Params : ci[p] \in IF Taken(p) = {} THEN {Default(p)} ELSE Taken(p)
        /\ phase = "badUrl" => WrongUrl
        /\ phase \notin {"url", "badUrl"} =>
              /\ ~WrongUrl
              /\ \A p \in Params : ci[p] \in IF MeantBy(p) = {} THEN {Unless(p)} ELSE MeantBy(p)

\* That is how a connection name is understood.
LEMMA UrlLoopSuffices == PhasesApart /\ UrlLoop => UrlIsUnderstood
BY DEF PhasesApart, OpenPhases, UrlLoop, UrlIsUnderstood, WrongUrl, AllowedIn, GivenTo, MeantBy, Unless

\* What can be read is what is allowed.
LEMMA ReadableIsAllowed ==
    ASSUME NEW k \in DOMAIN url
    PROVE  Readable(Lower[k], url[k]) <=> Lower[k] \in Params /\ url[k] \in AllowedIn(Lower[k])
<1>1. url[k] \in GivenTo(Lower[k])
  BY DEF GivenTo
<1>2. CASE Lower[k] \in {"schema", "username", "password"}
  BY <1>1, <1>2 DEF Readable, Params, AllowedIn
<1>3. CASE Lower[k] \in {"tls", "tls-insecure-skip-verify"}
  BY <1>3 DEF Readable, DefaultStays, parseYesNo, Params, AllowedIn
<1>4. CASE Lower[k] = "version"
  BY <1>4 DEF Readable, DefaultStays, Params, AllowedIn
<1>5. CASE Lower[k] = "page-size"
  BY <1>5 DEF Readable, DefaultStays, Params, AllowedIn
<1>6. CASE Lower[k] = "timeout"
  BY <1>6 DEF Readable, DefaultStays, Params, AllowedIn
<1>7. CASE Lower[k] \notin Params
  BY <1>7 DEF Readable, DefaultStays, Params
<1> QED
  BY <1>2, <1>3, <1>4, <1>5, <1>6, <1>7 DEF Params

\* One parameter more is taken.
LEMMA ParameterStep ==
    ASSUME UrlLoop, PhasesApart, NEW k \in todo, parseParameter(k)
    PROVE  UrlLoop'
<1>1. phase = "url" /\ api = "Open"
  BY DEF parseParameter, PhasesApart, OpenPhases
<1>2. k \in DOMAIN url /\ todo \subseteq DOMAIN url /\ ci = [p \in Params |-> ci[p]]
      /\ \A j \in DOMAIN url \ todo : Readable(Lower[j], url[j])
  BY <1>1 DEF UrlLoop
<1>3. CASE ~Readable(Lower[k], url[k])
  <2>1. phase' = "badUrl" /\ UNCHANGED <<api, url, todo, ci>>
    BY <1>3 DEF parseParameter, Stop, openVars
  <2>2. WrongUrl'
    BY <1>2, <1>3, <2>1, ReadableIsAllowed DEF WrongUrl, AllowedIn, GivenTo
  <2> QED
    BY <1>1, <1>2, <2>1, <2>2 DEF UrlLoop
<1>4. CASE Readable(Lower[k], url[k])
  <2>1. /\ UNCHANGED <<phase, api, url>> /\ todo' = todo \ {k}
        /\ ci' = IF DefaultStays(Lower[k], url[k]) THEN ci ELSE [ci EXCEPT ![Lower[k]] = url[k]]
    BY <1>4 DEF parseParameter, vars
  <2>2. Lower[k] \in Params
    BY <1>2, <1>4, ReadableIsAllowed
  <2>3. ci' = [p \in Params |-> ci'[p]]
    BY <1>2, <2>1, <2>2
  <2>4. ASSUME NEW p \in Params
        PROVE  ci'[p] \in IF Taken(p)' = {} THEN {Default(p)} ELSE Taken(p)'
    <3>1. ci[p] \in IF Taken(p) = {} THEN {Default(p)} ELSE Taken(p)
      BY <1>1 DEF UrlLoop
    <3>2. DOMAIN url \ todo' = (DOMAIN url \ todo) \cup {k}
      BY <1>2, <2>1
    <3>3. CASE p = Lower[k] /\ ~DefaultStays(p, url[k])
      <4>1. ci'[p] = url[k]
        BY <1>2, <2>1, <2>2, <3>3
      <4>2. url[k] \in Taken(p)'
        BY <2>1, <3>2, <3>3 DEF Taken
      <4> QED
        BY <4>1, <4>2
    <3>4. CASE ~(p = Lower[k] /\ ~DefaultStays(p, url[k]))
      <4>1. ci'[p] = ci[p]
        BY <1>2, <2>1, <2>2, <3>4
      <4>2. Taken(p)' = Taken(p)
        BY <2>1, <3>2, <3>4 DEF Taken
      <4> QED
        BY <3>1, <4>1, <4>2
    <3> QED
      BY <3>3, <3>4
  <2>5. \A j \in DOMAIN url' \ todo' : Readable(Lower[j], url'[j])
    BY <1>2, <1>4, <2>1
  <2> QED
    BY <1>1, <1>2, <2>1, <2>3, <2>4, <2>5 DEF UrlLoop
<1> QED
  BY <1>3, <1>4

\* At the end of the loop every parameter has the value that is meant.
LEMMA EndOfUrlStep ==
    ASSUME UrlLoop, PhasesApart, endOfURL
    PROVE  UrlLoop'
<1>1. /\ phase = "url" /\ api = "Open" /\ todo = {}
      /\ phase' = "open" /\ UNCHANGED <<api, url, todo>>
      /\ ci' = [ci EXCEPT !["schema"] = IF @ = "" THEN "PUBLIC" ELSE @]
  BY DEF endOfURL, Stop, PhasesApart, OpenPhases
<1>2. /\ ci = [p \in Params |-> ci[p]] /\ \A k \in DOMAIN url : Readable(Lower[k], url[k])
      /\ \A p \in Params : ci[p] \in IF Taken(p) = {} THEN {Default(p)} ELSE Taken(p)
  BY <1>1 DEF UrlLoop
<1>3. "schema" \in Params
  BY DEF Params
<1>4. ci' = [p \in Params |-> ci'[p]] /\ \A p \in Params : p # "schema" => ci'[p] = ci[p]
  BY <1>1, <1>2, <1>3
<1>5. ci'["schema"] = IF ci["schema"] = "" THEN "PUBLIC" ELSE ci["schema"]
  BY <1>1, <1>2, <1>3
<1>6. ~WrongUrl /\ ~WrongUrl'
  BY <1>1, <1>2, ReadableIsAllowed DEF WrongUrl, AllowedIn, GivenTo
<1>7. ASSUME NEW p \in Params
      PROVE  ci'[p] \in IF MeantBy(p)' = {} THEN {Unless(p)} ELSE MeantBy(p)'
  <2>1. MeantBy(p)' = MeantBy(p)
    BY <1>1 DEF MeantBy, GivenTo
  <2>2. CASE p \in {"version", "page-size", "timeout"}
    <3>1. Taken(p) = MeantBy(p)
      BY <1>1, <2>2 DEF Taken, MeantBy, GivenTo, DefaultStays
    <3> QED
      BY <1>2, <1>4, <2>1, <2>2, <3>1 DEF Unless
  <2>3. CASE p = "schema"
    <3>1. Taken(p) = GivenTo(p) /\ MeantBy(p) = {IF v = "" THEN "PUBLIC" ELSE v : v \in GivenTo(p)}
      BY <1>1, <2>3 DEF Taken, MeantBy, GivenTo, DefaultStays
    <3>2. CASE GivenTo(p) = {}
      <4>1. ci["schema"] = "" /\ MeantBy(p) = {}
        BY <1>2, <2>3, <3>1, <3>2 DEF Default
      <4> QED
        BY <1>5, <2>1, <2>3, <4>1 DEF Unless
    <3>3. CASE GivenTo(p) # {}
      BY <1>2, <1>5, <2>1, <2>3, <3>1, <3>3
    <3> QED
      BY <3>2, <3>3
  <2>4. CASE p \notin {"version", "page-size", "timeout", "schema"}
    <3>1. Taken(p) = GivenTo(p) /\ MeantBy(p) = GivenTo(p)
      BY <1>1, <2>4 DEF Taken, MeantBy, GivenTo, DefaultStays
    <3> QED
      BY <1>2, <1>4, <2>1, <2>4, <3>1 DEF Unless
  <2> QED
    BY <2>2, <2>3, <2>4
<1> QED
  BY <1>1, <1>2, <1>4, <1>6, <1>7 DEF UrlLoop

ReplyPhases == {"header", "columns", "count", "rows", "schemas", "schema", "properties", "built",
                "done", "failed", "panicked"}

\* A step of the reading of a response takes none of opening a connection,
\* and the reverse.
LEMMA PhaseStep ==
    ASSUME PhasesApart, phase \in OpenPhases \cup ReplyPhases,
           StreamNext \/ UNCHANGED streamVars
    PROVE  /\ PhasesApart' /\ phase' \in OpenPhases \cup ReplyPhases /\ api' = api
           /\ \/ api = "Open" /\ OpenNext
              \/ api # "Open" /\ ReplyNext /\ UNCHANGED openVars
              \/ UNCHANGED streamVars
<1> USE DEF OpenPhases, ReplyPhases
<1>1. CASE UNCHANGED streamVars
  BY <1>1 DEF streamVars, vars, PhasesApart
<1>2. CASE Next /\ UNCHANGED schemas /\ UNCHANGED openVars
  <2>1. phase \in ReplyPhases /\ phase' \in ReplyPhases /\ api' = api
    <3>1. ASSUME NEW r \in Rows, ReadRow(r) PROVE phase \in ReplyPhases /\ phase' \in ReplyPhases /\ api' = api
      <4> DEFINE ending == {j \in 1..Len(meta) : Ends(r, j) # "no"}
      <4>1. \A j : Ends(r, j) \in {"panicked", "failed", "no"}
        BY DEF Ends
      <4>2. ending # {} => Ends(r, Min(ending)) \in {"panicked", "failed"}
        BY <4>1, MinIsLeast
      <4> QED
        BY <3>1, <4>2 DEF ReadRow, Stop
    <3>2. CASE ReadHeader \/ ReadColumn \/ ReadRowCount \/ EndOfRows
      BY <3>2 DEF ReadHeader, ReadColumn, ReadRowCount, EndOfRows, Stop
    <3>3. ASSUME NEW n \in 1..MaxRows, NEW more \in BOOLEAN, QuerySQLCursorGetPage(n, more)
          PROVE  phase \in ReplyPhases /\ phase' \in ReplyPhases /\ api' = api
      BY <3>3 DEF QuerySQLCursorGetPage
    <3> QED
      BY <1>2, <3>1, <3>2, <3>3 DEF Next
  <2> QED
    BY <2>1, <1>2 DEF PhasesApart, ReplyNext
<1>3. CASE SchemaNext /\ UNCHANGED openVars
  <2>1. phase \in ReplyPhases /\ phase' \in ReplyPhases /\ api' = api
    BY <1>3 DEF SchemaNext, ReadSchemas, ReadSchema, ReadTableColumn, EndOfSchema, buildTuple, Stop
  <2> QED
    BY <2>1, <1>3 DEF PhasesApart, ReplyNext
<1>4. CASE OpenNext
  <2>1. phase \in OpenPhases /\ phase' \in OpenPhases /\ api' = api
    BY <1>4 DEF OpenNext, endOfURL, ReadVerdict, ReadNode, parseParameter, Connect, Stop, vars
  <2> QED
    BY <2>1, <1>4 DEF PhasesApart
<1> QED
  BY <1>1, <1>2, <1>3, <1>4 DEF StreamNext, ReplyNext

\* A step of anyone keeps to the connection name.
LEMMA UrlStep ==
    ASSUME UrlLoop, PhasesApart, phase \in OpenPhases \cup ReplyPhases,
           StreamNext \/ UNCHANGED streamVars
    PROVE  UrlLoop'
<1>1. CASE api # "Open"
  BY <1>1, PhaseStep DEF UrlLoop
<1>2. CASE UNCHANGED streamVars
  <2>1. UNCHANGED <<phase, api, url, todo, ci>>
    BY <1>2 DEF streamVars, vars, openVars
  <2>2. \A p : GivenTo(p)' = GivenTo(p) /\ Taken(p)' = Taken(p)
    BY <2>1 DEF GivenTo, Taken
  <2>3. \A p : MeantBy(p)' = MeantBy(p) /\ AllowedIn(p)' = AllowedIn(p)
    BY <2>2 DEF MeantBy, AllowedIn
  <2> QED
    BY <2>1, <2>2, <2>3 DEF UrlLoop, WrongUrl
<1>3. CASE \/ ReadVerdict \/ ReadNode \/ \E s \in Servers : Connect(s)
  <2>1. /\ UNCHANGED <<api, url, todo, ci>> /\ phase \notin {"url", "badUrl"}
        /\ phase' \notin {"url", "badUrl"}
    BY <1>3 DEF ReadVerdict, ReadNode, Connect, Stop, openVars
  <2>2. \A p : GivenTo(p)' = GivenTo(p)
    BY <2>1 DEF GivenTo
  <2>3. \A p : MeantBy(p)' = MeantBy(p) /\ AllowedIn(p)' = AllowedIn(p)
    BY <2>2 DEF MeantBy, AllowedIn
  <2> QED
    BY <2>1, <2>2, <2>3 DEF UrlLoop, WrongUrl
<1> QED
  BY <1>1, <1>2, <1>3, PhaseStep, ParameterStep, EndOfUrlStep DEF OpenNext
-----------------------------------------------------------------------------
(* Tokens                                                                  *)

Payloads == STRING \cup Int \cup BOOLEAN
Codes == {"fixnum", "int", "uint", "nil", "bool", "str", "bin", "ext"}
Tokens == [code : Codes, val : Payloads]

\* A token is a token.
LEMMA TokenType ==
    /\ \A text \in STRING : Token("str", text) \in Tokens /\ PackString(text) \in Tokens
                            /\ PackUuid(text) \in Tokens
    /\ \A n \in Int : PackInt(n) \in Tokens /\ Token("bin", n) \in Tokens
    /\ \A b \in BOOLEAN : Token("bool", b) \in Tokens
    /\ PackNil \in Tokens
<1>1. /\ \A t \in STRING : t \in Payloads
      /\ \A n \in Int : n \in Payloads
      /\ \A b \in BOOLEAN : b \in Payloads
  BY Zenon DEF Payloads
<1>2. \A code \in Codes, val \in Payloads : Token(code, val) \in Tokens
  BY DEF Tokens, Token
<1>3. \A n \in Int : Token("int", n) \in Tokens /\ Token("fixnum", n) \in Tokens
                       /\ Token("uint", n) \in Tokens /\ Token("bin", n) \in Tokens
  BY <1>1, <1>2, Zenon DEF Codes
<1>4. \A n \in Int : PackInt(n) \in Tokens
  BY <1>3 DEF PackInt
<1>5. \A text \in STRING : Token("str", text) \in Tokens /\ Token("ext", text) \in Tokens
  BY <1>1, <1>2, Zenon DEF Codes
<1>6. PackNil \in Tokens
  <2>1. 0 \in Int
    OBVIOUS
  <2> QED
    BY <1>1, <1>2, <2>1, Zenon DEF PackNil, Codes
<1>7. \A b \in BOOLEAN : Token("bool", b) \in Tokens
  BY <1>1, <1>2, Zenon DEF Codes
<1> QED
  BY <1>3, <1>4, <1>5, <1>6, <1>7 DEF PackString, PackUuid

\* What the readers see of a token.
LEMMA TokenFields ==
    /\ \A code, val : Token(code, val).code = code /\ Token(code, val).val = val
    /\ \A n : PackInt(n).code \in IntCodes /\ PackInt(n).val = n
    /\ \A text : /\ PackString(text).code \in Text /\ TextOf(PackString(text)) = text
                 /\ PackUuid(text).code = "ext" /\ PackUuid(text).val = text
    /\ PackNil.code = "nil" /\ PackNil.val = 0
BY DEF Token, PackInt, IntCodes, PackString, PackUuid, Text, TextOf, PackNil

\* The message goes on after what has been read of it.
LEMMA Peel ==
    ASSUME NEW S, NEW a \in Seq(S), NEW b \in Seq(S)
    PROVE  /\ a \o b \in Seq(S) /\ Len(a \o b) = Len(a) + Len(b)
           /\ \A i \in 1..Len(a) : (a \o b)[i] = a[i]
           /\ \A i \in 1..Len(b) : (a \o b)[Len(a) + i] = b[i]
           /\ Drop(a \o b, Len(a)) = b
<1> DEFINE m == a \o b
<1>1. /\ m \in Seq(S) /\ Len(m) = Len(a) + Len(b) /\ Len(a) \in Nat /\ Len(b) \in Nat
      /\ \A i \in 1 .. Len(a) + Len(b) : m[i] = IF i <= Len(a) THEN a[i] ELSE b[i - Len(a)]
  BY ConcatProperties
<1> HIDE DEF m
<1>2. \A i \in 1..Len(a) : m[i] = a[i]
  BY <1>1
<1>3. \A i \in 1..Len(b) : m[Len(a) + i] = b[i]
  <2> SUFFICES ASSUME NEW i \in 1..Len(b) PROVE m[Len(a) + i] = b[i]
    OBVIOUS
  <2>1. Len(a) + i \in 1..(Len(a) + Len(b)) /\ ~(Len(a) + i <= Len(a)) /\ (Len(a) + i) - Len(a) = i
    BY <1>1
  <2> QED
    BY <1>1, <2>1
<1>4. Drop(m, Len(a)) = b
  <2> DEFINE d == SubSeq(m, Len(a) + 1, Len(m))
  <2>1. \A i \in (Len(a) + 1)..Len(m) : m[i] \in S
    BY <1>1
  <2>2. /\ d \in Seq(S) /\ Len(d) = Len(b)
        /\ \A i \in 1..Len(b) : d[i] = m[(Len(a) + 1) + i - 1]
    <3>1. /\ d \in Seq(S)
          /\ Len(d) = IF Len(a) + 1 <= Len(m) THEN Len(m) - (Len(a) + 1) + 1 ELSE 0
          /\ \A i \in 1 .. Len(m) - (Len(a) + 1) + 1 : d[i] = m[(Len(a) + 1) + i - 1]
      BY <1>1, <2>1, SubSeqProperties
    <3>2. Len(m) - (Len(a) + 1) + 1 = Len(b)
      BY <1>1
    <3> HIDE DEF d
    <3> QED
      BY <1>1, <3>1, <3>2
  <2> HIDE DEF d
  <2>3. \A i \in 1..Len(b) : d[i] = b[i]
    <3>1. \A i \in 1..Len(b) : (Len(a) + 1) + i - 1 = Len(a) + i
      BY <1>1
    <3> QED
      BY <1>3, <2>2, <3>1
  <2>4. d = b
    BY <2>2, <2>3, SeqEqual
  <2> QED
    BY <2>4 DEF Drop, d
<1> QED
  BY <1>1, <1>2, <1>3, <1>4 DEF m

\* The same for tokens.
LEMMA PeelTokens ==
    \A a, b \in Seq(Tokens) :
        /\ a \o b \in Seq(Tokens) /\ Len(a \o b) = Len(a) + Len(b)
        /\ \A i \in 1..Len(a) : (a \o b)[i] = a[i]
        /\ \A i \in 1..Len(b) : (a \o b)[Len(a) + i] = b[i]
        /\ Drop(a \o b, Len(a)) = b
BY Peel

\* However they are grouped.
LEMMA TokensAssociate ==
    \A a, b, c \in Seq(Tokens) : (a \o b) \o c = a \o (b \o c)
BY ConcatAssociative

\* The typed reads of what is in front succeed, whatever follows.
LEMMA ReadsInFront ==
    ASSUME NEW S, NEW a \in Seq(S), NEW b \in Seq(S), NEW codes, Len(codes) = Len(a),
           \A k \in 1..Len(a) : a[k].code \in codes[k]
    PROVE  Reads(a \o b, codes)
BY Peel DEF Reads
-----------------------------------------------------------------------------
(* The handshake                                                           *)

\* The client and the server agree.
Agrees(s) ==
    /\ Semver[ci["version"]][1] = 3
    /\ \A i \in 1..3 : Semver[ci["version"]][i] % 256 = s.version[i]
    /\ ci["tls"] = "yes" <=> s.cert # "none"
    /\ s.cert = "bad" => ci["tls-insecure-skip-verify"] = "yes"
    /\ s.auth # NoAuth => s.auth.identity = ci["username"] /\ s.auth.secret = ci["password"]

\* The client knows of the node what the server has told it.
NodeKnown ==
    /\ [node EXCEPT !.IdleTimeout = 0] = [server.node EXCEPT !.IdleTimeout = 0]
    /\ node.IdleTimeout = server.node.IdleTimeout <=> server.node.IdleTimeout < 128
    /\ message = Extensions

\* What is left of the answer, and what it says of the agreement.
Handshake ==
    api = "Open" =>
        /\ phase = "handshake" => /\ server \in Servers
                                  /\ Major = 3 /\ Reaches(TLSConfig, server)
                                  /\ message = PackAnswer(server, RequestHandshake)
        /\ phase = "node" => /\ server \in Servers /\ Agrees(server)
                             /\ message = PackNode(server.node) \o Extensions
        /\ phase = "refused" => ~Agrees(server)
        /\ phase = "connected" => Agrees(server) /\ NodeKnown

\* That is how a connection is agreed on.
LEMMA HandshakeSuffices == PhasesApart /\ Handshake => ConnectedAsAgreed
BY DEF PhasesApart, OpenPhases, Handshake, ConnectedAsAgreed, Agrees, NodeKnown

\* The checks on both sides come to the agreement.
LEMMA AgreedMeans ==
    ASSUME UrlLoop, api = "Open", phase \notin {"url", "badUrl"}, NEW s \in Servers
    PROVE  Agrees(s) <=> Major = 3 /\ Reaches(TLSConfig, s) /\ Accepts(s, RequestHandshake)
<1>1. \A p \in Params : ci[p] \in IF MeantBy(p) = {} THEN {Unless(p)} ELSE MeantBy(p)
  BY DEF UrlLoop
<1>2. \A p \in Params : \A v \in GivenTo(p) : v \in AllowedIn(p)
  BY DEF UrlLoop, WrongUrl, GivenTo
<1>3. ci["tls"] \in {"yes", "no"}
  <2>1. ci["tls"] \in GivenTo("tls") \/ ci["tls"] = "no"
    BY <1>1 DEF Params, MeantBy, Unless, Default
  <2> QED
    BY <1>2, <2>1 DEF Params, AllowedIn
<1>4. ci["version"] \in DOMAIN Semver
  <2>1. (ci["version"] \in GivenTo("version") /\ ci["version"] # "") \/ ci["version"] = "3.0.0"
    BY <1>1 DEF Params, MeantBy, Unless, Default
  <2>2. \A v \in GivenTo("version") : v # "" => v \in DOMAIN Semver
    BY <1>2 DEF Params, AllowedIn
  <2> QED
    BY <2>1, <2>2, SemverAssumption
<1>5. /\ s.cert \in {"none", "good", "bad"} /\ s.version \in [1..3 -> 0..127]
      /\ s.auth \in {NoAuth} \cup [identity : STRING, secret : STRING]
  BY ServersAssumption
<1> DEFINE v == Semver[ci["version"]]
<1>6. v \in [1..3 -> Nat]
  BY <1>4, SemverAssumption
<1>7. (\A i \in 1..3 : v[i] % 256 = s.version[i]) <=> [i \in 1..3 |-> v[i] % 256] = s.version
  BY <1>5, <1>6
<1>8. (s.auth # NoAuth => /\ s.auth.identity = ci["username"]
                              /\ s.auth.secret = ci["password"])
        <=> s.auth \in {NoAuth, [identity |-> ci["username"], secret |-> ci["password"]]}
  <2>1. CASE s.auth = NoAuth
    BY <2>1
  <2>2. CASE s.auth # NoAuth
    <3>1. s.auth \in [identity : STRING, secret : STRING]
      BY <1>5, <2>2
    <3>2. s.auth = [identity |-> s.auth.identity, secret |-> s.auth.secret]
      BY <3>1
    <3> QED
      BY <2>2, <3>2
  <2> QED
    BY <2>1, <2>2
<1>9. Accepts(s, RequestHandshake)
        <=> /\ [i \in 1..3 |-> v[i] % 256] = s.version
            /\ s.auth \in {NoAuth, [identity |-> ci["username"], secret |-> ci["password"]]}
  BY DEF Accepts, RequestHandshake
<1>10. Reaches(TLSConfig, s)
        <=> /\ ci["tls"] = "yes" <=> s.cert # "none"
            /\ s.cert = "bad" => ci["tls-insecure-skip-verify"] = "yes"
  BY <1>3, <1>5 DEF Reaches, TLSConfig
<1> QED
  BY <1>7, <1>8, <1>9, <1>10 DEF Agrees, Major

\* A node's tokens: four, the cluster's ids, and eight.
NodeFirst(n) == <<PackInt(n.IdleTimeout), PackUuid(n.ClusterNodeId), PackString(n.ClusterNodeName),
                  PackInt(Len(n.ClusterIds))>>
NodeIds(n) == [i \in DOMAIN n.ClusterIds |-> PackUuid(n.ClusterIds[i])]
NodeLast(n) == <<PackString(n.ClusterName), PackInt(n.ObservableTS),
                 PackInt(n.DBMSVer[1]), PackInt(n.DBMSVer[2]), PackInt(n.DBMSVer[3]),
                 PackString(n.DBMSVerPatch), PackString(n.DBMSVerPreRelease), Token("bin", n.Features)>>

\* They are tokens, and together the node.
LEMMA NodeShape ==
    ASSUME NEW n \in Nodes
    PROVE  /\ NodeFirst(n) \in Seq(Tokens) /\ NodeIds(n) \in Seq(Tokens) /\ NodeLast(n) \in Seq(Tokens)
           /\ Len(NodeFirst(n)) = 4 /\ Len(NodeIds(n)) = Len(n.ClusterIds) /\ Len(NodeLast(n)) = 8
           /\ PackNode(n) \in Seq(Tokens)
           /\ PackNode(n) = NodeFirst(n) \o (NodeIds(n) \o NodeLast(n))
<1>1. /\ n.IdleTimeout \in Nat /\ n.ClusterNodeId \in STRING /\ n.ClusterNodeName \in STRING
      /\ n.ClusterIds \in Seq(STRING) /\ n.ClusterName \in STRING /\ n.ObservableTS \in Nat
      /\ n.DBMSVer \in [1..3 -> 0..255] /\ n.DBMSVerPatch \in STRING
      /\ n.DBMSVerPreRelease \in STRING /\ n.Features \in Nat
  BY DEF Nodes
<1>2. Len(n.ClusterIds) \in Nat /\ DOMAIN n.ClusterIds = 1..Len(n.ClusterIds)
      /\ \A i \in 1..Len(n.ClusterIds) : n.ClusterIds[i] \in STRING
  BY <1>1
<1>3. n.DBMSVer[1] \in 0..255 /\ n.DBMSVer[2] \in 0..255 /\ n.DBMSVer[3] \in 0..255
  BY <1>1
<1>4. \A i \in Nat : PackInt(i) \in Tokens /\ Token("bin", i) \in Tokens
  <2>1. \A i \in Nat : i \in Int
    OBVIOUS
  <2> QED
    BY <2>1, TokenType
<1>5. \A text \in STRING : PackString(text) \in Tokens /\ PackUuid(text) \in Tokens
  BY TokenType
<1>6. NodeFirst(n) \in Seq(Tokens) /\ Len(NodeFirst(n)) = 4
  <2>1. /\ PackInt(n.IdleTimeout) \in Tokens /\ PackUuid(n.ClusterNodeId) \in Tokens
        /\ PackString(n.ClusterNodeName) \in Tokens /\ PackInt(Len(n.ClusterIds)) \in Tokens
    BY <1>1, <1>2, <1>4, <1>5
  <2> QED
    BY <2>1 DEF NodeFirst
<1>7. NodeIds(n) \in Seq(Tokens) /\ Len(NodeIds(n)) = Len(n.ClusterIds)
  <2>1. \A i \in 1..Len(n.ClusterIds) : PackUuid(n.ClusterIds[i]) \in Tokens
    BY <1>2, <1>5
  <2> QED
    BY <1>2, <2>1 DEF NodeIds
<1>8. NodeLast(n) \in Seq(Tokens) /\ Len(NodeLast(n)) = 8
  <2>1. /\ PackString(n.ClusterName) \in Tokens /\ PackInt(n.ObservableTS) \in Tokens
        /\ PackString(n.DBMSVerPatch) \in Tokens /\ PackString(n.DBMSVerPreRelease) \in Tokens
        /\ Token("bin", n.Features) \in Tokens
    BY <1>1, <1>4, <1>5
  <2>2. PackInt(n.DBMSVer[1]) \in Tokens /\ PackInt(n.DBMSVer[2]) \in Tokens /\ PackInt(n.DBMSVer[3]) \in Tokens
    BY <1>3, <1>4
  <2> QED
    BY <2>1, <2>2 DEF NodeLast
<1>9. PackNode(n) = (NodeFirst(n) \o NodeIds(n)) \o NodeLast(n)
  BY DEF PackNode, NodeFirst, NodeIds, NodeLast
<1>10. PackNode(n) = NodeFirst(n) \o (NodeIds(n) \o NodeLast(n))
  BY <1>6, <1>7, <1>8, <1>9, ConcatAssociative
<1>11. PackNode(n) \in Seq(Tokens)
  BY <1>6, <1>7, <1>8, <1>9, ConcatProperties
<1> QED
  BY <1>6, <1>7, <1>8, <1>10, <1>11

\* A connection is tried: without TLS on both sides or with a version other
\* than 3 there is no handshake, and no agreement either.
LEMMA ConnectStep ==
    ASSUME UrlLoop, PhasesApart, Handshake, NEW s \in Servers, Connect(s)
    PROVE  Handshake'
<1>1. /\ phase = "open" /\ api = "Open" /\ server' = s /\ UNCHANGED <<api, ci>>
      /\ IF Major = 3 /\ Reaches(TLSConfig, s)
         THEN message' = PackAnswer(s, RequestHandshake) /\ phase' = "handshake"
         ELSE phase' = "refused"
  BY DEF Connect, Stop, PhasesApart, OpenPhases
<1>2. Agrees(server)' <=> Agrees(s)
  BY <1>1 DEF Agrees
<1>3. Agrees(s) => Major = 3 /\ Reaches(TLSConfig, s)
  BY <1>1, AgreedMeans
<1>4. Major' = Major /\ TLSConfig' = TLSConfig /\ RequestHandshake' = RequestHandshake
  BY <1>1 DEF Major, TLSConfig, RequestHandshake
<1> QED
  BY <1>1, <1>2, <1>3, <1>4 DEF Handshake

\* The verdict is nil exactly if the server accepts, and then the node follows.
LEMMA VerdictStep ==
    ASSUME UrlLoop, PhasesApart, Handshake, ReadVerdict
    PROVE  Handshake'
<1> DEFINE V == <<PackInt(server.version[1]), PackInt(server.version[2]), PackInt(server.version[3])>>
           X == <<PackUuid("trace"), PackInt(196611), PackString("class"), PackString("reason"), PackNil>>
           N == PackNode(server.node)
           reads == /\ Reads(message, <<IntCodes, IntCodes, IntCodes>>)
                    /\ Len(message) > 3 /\ message[4].code # "ext"
<1>1. /\ phase = "handshake" /\ api = "Open" /\ UNCHANGED <<api, ci, server>>
      /\ IF reads THEN message' = Drop(message, 4) /\ phase' = "node" ELSE phase' = "refused"
  BY DEF ReadVerdict, Stop, PhasesApart, OpenPhases, openVars
<1>2. /\ server \in Servers /\ Major = 3 /\ Reaches(TLSConfig, server)
      /\ message = PackAnswer(server, RequestHandshake)
  BY <1>1 DEF Handshake
<1>3. Agrees(server) <=> Accepts(server, RequestHandshake)
  BY <1>1, <1>2, AgreedMeans
<1>4. Agrees(server)' <=> Agrees(server)
  BY <1>1 DEF Agrees
<1>5. /\ server.version[1] \in Int /\ server.version[2] \in Int /\ server.version[3] \in Int
      /\ server.node \in Nodes
  <2>1. server.version \in [1..3 -> 0..127] /\ server.node \in Nodes
    BY <1>2, ServersAssumption
  <2>2. \A i \in 1..3 : server.version[i] \in 0..127
    BY <2>1
  <2> QED
    BY <2>1, <2>2
<1>6. CASE Accepts(server, RequestHandshake)
  <2> DEFINE Z == <<PackNil>>
  <2>1. message = V \o ((Z \o N) \o Extensions)
    BY <1>2, <1>6 DEF PackAnswer
  <2>2. V \in Seq(Tokens) /\ Z \in Seq(Tokens) /\ Extensions \in Seq(Tokens) /\ N \in Seq(Tokens)
    BY <1>5, TokenType, NodeShape DEF Extensions
  <2>3. /\ Len(V) = 3 /\ \A k \in 1..3 : V[k].code \in IntCodes
        /\ Len(Z) = 1 /\ Z[1].code = "nil"
    BY TokenFields
  <2> HIDE DEF V, Z, N
  <2> DEFINE R == N \o Extensions  A == V \o Z
  <2>4. R \in Seq(Tokens) /\ A \in Seq(Tokens)
    BY <2>2, PeelTokens
  <2>5. message = A \o R
    <3>1. (Z \o N) \o Extensions = Z \o R
      BY <2>2, TokensAssociate
    <3>2. V \o (Z \o R) = A \o R
      BY <2>2, <2>4, TokensAssociate
    <3> QED
      BY <2>1, <3>1, <3>2
  <2>6. /\ Len(A) = Len(V) + Len(Z)
        /\ \A i \in 1..Len(V) : A[i] = V[i]
        /\ \A i \in 1..Len(Z) : A[Len(V) + i] = Z[i]
    BY <2>2, PeelTokens
  <2> HIDE DEF A, R
  <2>7. /\ Len(message) = Len(A) + Len(R) /\ Len(R) \in Nat
        /\ \A i \in 1..Len(A) : message[i] = A[i]
        /\ Drop(message, Len(A)) = R
    BY <2>4, <2>5, PeelTokens
  <2>8. /\ Len(message) = 4 + Len(R) /\ Drop(message, 4) = R
        /\ message[1] = V[1] /\ message[2] = V[2] /\ message[3] = V[3] /\ message[4] = Z[1]
    <3>1. Len(A) = 4
      BY <2>3, <2>6
    <3>2. A[1] = V[1] /\ A[2] = V[2] /\ A[3] = V[3] /\ A[3 + 1] = Z[1]
      BY <2>3, <2>6
    <3> QED
      BY <2>7, <3>1, <3>2
  <2>9. reads
    BY <2>3, <2>7, <2>8 DEF Reads
  <2>10. phase' = "node" /\ message' = R /\ Agrees(server)'
    BY <1>1, <1>3, <1>4, <1>6, <2>8, <2>9
  <2> QED
    BY <1>1, <1>2, <2>10 DEF Handshake, N, R
<1>7. CASE ~Accepts(server, RequestHandshake)
  <2>1. message = V \o X
    BY <1>2, <1>7 DEF PackAnswer
  <2> DEFINE S == {V[1], V[2], V[3], X[1], X[2], X[3], X[4], X[5]}
  <2>2. V \in Seq(S) /\ X \in Seq(S)
    OBVIOUS
  <2>3. Len(V) = 3 /\ Len(X) = 5 /\ X[1].code = "ext"
    BY TokenFields
  <2> HIDE DEF V, X, S
  <2>4. \A i \in 1..Len(X) : message[Len(V) + i] = X[i]
    BY <2>1, <2>2, Peel
  <2>5. ~reads
    BY <2>3, <2>4
  <2>6. phase' = "refused" /\ ~Agrees(server)'
    BY <1>1, <1>3, <1>4, <1>7, <2>5
  <2> QED
    BY <2>6 DEF Handshake
<1> QED
  BY <1>6, <1>7

\* The readers of a node's tokens find them one after the other, L being the
\* number of ids.
NodeStream(m, n, L) ==
    /\ L \in Nat /\ L = Len(n.ClusterIds) /\ Len(m) = 13 + L
    /\ \A i \in 1..4 : m[i] = NodeFirst(n)[i]
    /\ \A i \in 1..L : m[4 + i] = PackUuid(n.ClusterIds[i])
    /\ \A i \in 1..8 : m[(4 + L) + i] = NodeLast(n)[i] /\ Drop(m, 4 + L)[i] = NodeLast(n)[i]
    /\ Drop(Drop(m, 4 + L), 8) = Extensions

\* That is how a node is sent.
LEMMA NodeReads ==
    ASSUME NEW n \in Nodes
    PROVE  NodeStream(PackNode(n) \o Extensions, n, Len(n.ClusterIds))
<1> DEFINE m == PackNode(n) \o Extensions  L == Len(n.ClusterIds)  rest == Drop(m, 4 + L)
<1>0. m = PackNode(n) \o Extensions /\ L = Len(n.ClusterIds) /\ rest = Drop(m, 4 + L)
  OBVIOUS
<1> HIDE DEF m, L, rest
<1> DEFINE F == NodeFirst(n)  I == NodeIds(n)  G == NodeLast(n)  E == Extensions
<1>1. F \in Seq(Tokens) /\ I \in Seq(Tokens) /\ G \in Seq(Tokens) /\ E \in Seq(Tokens)
  BY NodeShape, TokenType DEF Extensions
<1>2. Len(F) = 4 /\ Len(I) = L /\ Len(G) = 8 /\ Len(E) = 1 /\ L \in Nat
  BY <1>0, NodeShape DEF Extensions, Nodes
<1>3. \A i \in 1..L : I[i] = PackUuid(n.ClusterIds[i])
  <2>1. DOMAIN n.ClusterIds = 1..L
    BY <1>0 DEF Nodes
  <2> QED
    BY <2>1 DEF NodeIds
<1>4. m = (F \o (I \o G)) \o E
  BY <1>0, NodeShape
<1> HIDE DEF F, I, G, E
<1> DEFINE H == F \o I  K == G \o E
<1>5. H \in Seq(Tokens) /\ K \in Seq(Tokens)
  BY <1>1, PeelTokens
<1>6. m = H \o K
  <2>1. F \o (I \o G) = (F \o I) \o G
    BY <1>1, TokensAssociate
  <2>2. ((F \o I) \o G) \o E = (F \o I) \o (G \o E)
    BY <1>1, <1>5, TokensAssociate
  <2> QED
    BY <1>4, <2>1, <2>2
<1>7. /\ Len(H) = Len(F) + Len(I) /\ Len(K) = Len(G) + Len(E)
      /\ \A i \in 1..Len(F) : H[i] = F[i]
      /\ \A i \in 1..Len(I) : H[Len(F) + i] = I[i]
      /\ \A i \in 1..Len(G) : K[i] = G[i]
      /\ Drop(K, Len(G)) = E
  BY <1>1, PeelTokens
<1> HIDE DEF H, K
<1>8. /\ m \in Seq(Tokens) /\ Len(m) = Len(H) + Len(K)
      /\ \A i \in 1..Len(H) : m[i] = H[i]
      /\ \A i \in 1..Len(K) : m[Len(H) + i] = K[i]
      /\ Drop(m, Len(H)) = K
  BY <1>5, <1>6, PeelTokens
<1>9. Len(H) = 4 + L /\ Len(K) = 9
  BY <1>2, <1>7
<1>10. Len(m) = 13 + L /\ rest = K /\ Drop(rest, 8) = E
  BY <1>0, <1>2, <1>7, <1>8, <1>9
<1>11. \A i \in 1..4 : m[i] = F[i]
  <2>1. \A i \in 1..4 : i \in 1..Len(H) /\ i \in 1..Len(F)
    BY <1>2, <1>9
  <2> QED
    BY <1>7, <1>8, <2>1
<1>12. \A i \in 1..L : m[4 + i] = I[i]
  <2> SUFFICES ASSUME NEW i \in 1..L PROVE m[4 + i] = I[i]
    OBVIOUS
  <2>1. 4 + i \in 1..Len(H) /\ i \in 1..Len(I) /\ Len(F) + i = 4 + i
    BY <1>2, <1>9
  <2>2. m[4 + i] = H[4 + i] /\ H[Len(F) + i] = I[i]
    BY <1>7, <1>8, <2>1
  <2> QED
    BY <2>1, <2>2
<1>13. \A i \in 1..8 : m[(4 + L) + i] = G[i] /\ rest[i] = G[i]
  <2>1. \A i \in 1..8 : i \in 1..Len(K) /\ i \in 1..Len(G)
    BY <1>2, <1>9
  <2>2. \A i \in 1..8 : m[Len(H) + i] = G[i] /\ K[i] = G[i]
    BY <1>7, <1>8, <2>1
  <2> QED
    BY <1>9, <1>10, <2>2
<1>14. NodeStream(m, n, L)
  BY <1>0, <1>2, <1>3, <1>10, <1>11, <1>12, <1>13 DEF F, G, E, NodeStream
<1> QED
  BY <1>0, <1>14

\* The last eight.
NodeTail == <<Text, IntCodes, IntCodes, IntCodes, IntCodes, Text, Text, {"bin", "nil"}>>

\* The forms of the tokens that are read.
LEMMA NodeFormShape ==
    ASSUME NEW L \in Nat
    PROVE  /\ Len(NodeForm(L)) = 12 + L
           /\ \A i \in 1..4 : NodeForm(L)[i] = NodeHead[i]
           /\ \A i \in 1..L : NodeForm(L)[4 + i] = {"ext"}
           /\ \A i \in 1..8 : NodeForm(L)[(4 + L) + i] = NodeTail[i]
<1> DEFINE F == NodeHead  I == [i \in 1..L |-> {"ext"}]  H == F \o I  f == NodeForm(L)
           S == {IntCodes, {"ext"}, Text, {"bin", "nil"}}
<1>1. F \in Seq(S) /\ I \in Seq(S) /\ NodeTail \in Seq(S)
  BY DEF NodeHead, NodeTail
<1>2. Len(F) = 4 /\ Len(I) = L /\ Len(NodeTail) = 8
  BY DEF NodeHead, NodeTail
<1>3. f = H \o NodeTail
  BY DEF NodeForm, NodeTail
<1>4. \A i \in 1..L : I[i] = {"ext"}
  OBVIOUS
<1> HIDE DEF F, I, S, f
<1>5. H \in Seq(S)
  BY <1>1, Peel
<1>6. /\ Len(H) = Len(F) + Len(I)
      /\ \A i \in 1..Len(F) : H[i] = F[i]
      /\ \A i \in 1..Len(I) : H[Len(F) + i] = I[i]
  BY <1>1, Peel
<1> HIDE DEF H
<1>7. /\ Len(f) = Len(H) + Len(NodeTail)
      /\ \A i \in 1..Len(H) : f[i] = H[i]
      /\ \A i \in 1..Len(NodeTail) : f[Len(H) + i] = NodeTail[i]
  BY <1>1, <1>3, <1>5, Peel
<1>8. Len(H) = 4 + L /\ Len(f) = 12 + L
  BY <1>2, <1>6, <1>7
<1>9. \A i \in 1..4 : f[i] = F[i]
  <2>1. \A i \in 1..4 : i \in 1..Len(H) /\ i \in 1..Len(F)
    BY <1>2, <1>8
  <2> QED
    BY <1>6, <1>7, <2>1
<1>10. \A i \in 1..L : f[4 + i] = {"ext"}
  <2> SUFFICES ASSUME NEW i \in 1..L PROVE f[4 + i] = {"ext"}
    OBVIOUS
  <2>1. 4 + i \in 1..Len(H) /\ i \in 1..Len(I) /\ Len(F) + i = 4 + i
    BY <1>2, <1>8
  <2>2. f[4 + i] = H[4 + i] /\ H[Len(F) + i] = I[i]
    BY <1>6, <1>7, <2>1
  <2> QED
    BY <1>4, <2>1, <2>2
<1>11. \A i \in 1..8 : f[(4 + L) + i] = NodeTail[i]
  BY <1>2, <1>7, <1>8
<1> QED
  BY <1>8, <1>9, <1>10, <1>11 DEF f, F

\* The typed reads of a node succeed, with as many ids as the server has sent.
LEMMA NodeIsReadable ==
    ASSUME NEW n, NEW m, NEW L, NodeStream(m, n, L)
    PROVE  Reads(m, NodeHead) /\ m[4].val = L /\ Reads(m, NodeForm(L))
<1>1. L \in Nat /\ Len(m) = 13 + L
  BY DEF NodeStream
<1>2. /\ L = Len(n.ClusterIds)
      /\ \A i \in 1..4 : m[i] = NodeFirst(n)[i]
      /\ \A i \in 1..L : m[4 + i] = PackUuid(n.ClusterIds[i])
      /\ \A i \in 1..8 : m[(4 + L) + i] = NodeLast(n)[i]
  BY DEF NodeStream
<1>3. \A i \in 1..4 : NodeFirst(n)[i].code \in NodeHead[i]
  BY TokenFields DEF NodeFirst, NodeHead
<1>4. \A i \in 1..8 : NodeLast(n)[i].code \in NodeTail[i]
  BY TokenFields DEF NodeLast, NodeTail
<1>5. \A i \in 1..L : m[4 + i].code = "ext"
  BY <1>2, TokenFields
<1>6. Len(NodeHead) = 4
  BY DEF NodeHead
<1>7. Reads(m, NodeHead)
  <2>1. \A k \in 1..4 : m[k].code \in NodeHead[k]
    BY <1>2, <1>3
  <2> QED
    BY <1>1, <1>6, <2>1 DEF Reads
<1>8. m[4].val = L
  <2>1. m[4] = PackInt(L)
    BY <1>2 DEF NodeFirst
  <2> QED
    BY <2>1, TokenFields
<1>9. ASSUME NEW k \in 1..(12 + L) PROVE m[k].code \in NodeForm(L)[k]
  <2>1. CASE k \in 1..4
    BY <1>1, <1>2, <1>3, <2>1, NodeFormShape
  <2>2. CASE k \in 5..(4 + L)
    <3>1. k - 4 \in 1..L /\ 4 + (k - 4) = k
      BY <1>1, <2>2
    <3>2. m[4 + (k - 4)].code = "ext" /\ NodeForm(L)[4 + (k - 4)] = {"ext"}
      BY <1>1, <1>5, <3>1, NodeFormShape
    <3> QED
      BY <3>1, <3>2
  <2>3. CASE k \in (5 + L)..(12 + L)
    <3> DEFINE j == k - (4 + L)
    <3>1. j \in 1..8 /\ (4 + L) + j = k
      BY <1>1, <2>3
    <3> HIDE DEF j
    <3>2. m[(4 + L) + j] = NodeLast(n)[j] /\ NodeForm(L)[(4 + L) + j] = NodeTail[j]
      BY <1>1, <1>2, <3>1, NodeFormShape
    <3> QED
      BY <1>4, <3>1, <3>2
  <2> QED
    BY <1>1, <2>1, <2>2, <2>3
<1>10. Len(NodeForm(L)) = 12 + L
  BY <1>1, NodeFormShape
<1>11. Reads(m, NodeForm(L))
  BY <1>1, <1>9, <1>10 DEF Reads
<1> QED
  BY <1>7, <1>8, <1>11

\* A byte that is read as signed is right below 128 only.
LEMMA SignedByte == \A v \in Nat : Int8(v) = v <=> v < 128
<1> SUFFICES ASSUME NEW v \in Nat PROVE Int8(v) = v <=> v < 128
  OBVIOUS
<1>1. (v + 128) % 256 \in 0..255
  OBVIOUS
<1>2. v < 128 => (v + 128) % 256 = v + 128
  OBVIOUS
<1> QED
  BY <1>1, <1>2 DEF Int8

\* The node that is read from a message with L ids.
NodeRead(m, L) ==
    LET rest == Drop(m, 4 + L)
    IN  [IdleTimeout |-> Int8(m[1].val), ClusterNodeId |-> m[2].val, ClusterNodeName |-> TextOf(m[3]),
         ClusterIds |-> [i \in 1..L |-> m[4 + i].val], ClusterName |-> TextOf(rest[1]),
         ObservableTS |-> rest[2].val, DBMSVer |-> [i \in 1..3 |-> Uint8(rest[2 + i].val)],
         DBMSVerPatch |-> TextOf(rest[6]), DBMSVerPreRelease |-> TextOf(rest[7]),
         Features |-> rest[8].val]

\* It is the node that was sent, but for the idle timeout.
LEMMA NodeIsTrue ==
    ASSUME NEW n \in Nodes, NEW m, NEW L, NodeStream(m, n, L)
    PROVE  NodeRead(m, L) = [n EXCEPT !.IdleTimeout = Int8(n.IdleTimeout)]
<1> DEFINE rest == Drop(m, 4 + L)
<1>1. /\ \A i \in 1..4 : m[i] = NodeFirst(n)[i]
      /\ \A i \in 1..L : m[4 + i] = PackUuid(n.ClusterIds[i])
      /\ \A i \in 1..8 : rest[i] = NodeLast(n)[i]
      /\ L = Len(n.ClusterIds)
  BY DEF NodeStream
<1>a. NodeRead(m, L) =
        [IdleTimeout |-> Int8(m[1].val), ClusterNodeId |-> m[2].val, ClusterNodeName |-> TextOf(m[3]),
         ClusterIds |-> [i \in 1..L |-> m[4 + i].val], ClusterName |-> TextOf(rest[1]),
         ObservableTS |-> rest[2].val, DBMSVer |-> [i \in 1..3 |-> Uint8(rest[2 + i].val)],
         DBMSVerPatch |-> TextOf(rest[6]), DBMSVerPreRelease |-> TextOf(rest[7]),
         Features |-> rest[8].val]
  BY DEF NodeRead
<1> HIDE DEF rest
<1>2. /\ m[1].val = n.IdleTimeout /\ m[2].val = n.ClusterNodeId /\ TextOf(m[3]) = n.ClusterNodeName
  <2>1. m[1] = PackInt(n.IdleTimeout) /\ m[2] = PackUuid(n.ClusterNodeId) /\ m[3] = PackString(n.ClusterNodeName)
    BY <1>1 DEF NodeFirst
  <2> QED
    BY <2>1, TokenFields
<1>3. /\ TextOf(rest[1]) = n.ClusterName /\ rest[2].val = n.ObservableTS
      /\ TextOf(rest[6]) = n.DBMSVerPatch /\ TextOf(rest[7]) = n.DBMSVerPreRelease
      /\ rest[8].val = n.Features
  <2>1. /\ rest[1] = PackString(n.ClusterName) /\ rest[2] = PackInt(n.ObservableTS)
        /\ rest[6] = PackString(n.DBMSVerPatch) /\ rest[7] = PackString(n.DBMSVerPreRelease)
        /\ rest[8] = Token("bin", n.Features)
    BY <1>1 DEF NodeLast
  <2> QED
    BY <2>1, TokenFields
<1>4. [i \in 1..3 |-> Uint8(rest[2 + i].val)] = n.DBMSVer
  <2>1. rest[3] = PackInt(n.DBMSVer[1]) /\ rest[4] = PackInt(n.DBMSVer[2]) /\ rest[5] = PackInt(n.DBMSVer[3])
    BY <1>1 DEF NodeLast
  <2>2. n.DBMSVer \in [1..3 -> 0..255]
    BY DEF Nodes
  <2>3. rest[3].val = n.DBMSVer[1] /\ rest[4].val = n.DBMSVer[2] /\ rest[5].val = n.DBMSVer[3]
    BY <2>1, TokenFields
  <2>4. \A i \in 1..3 : rest[2 + i].val = n.DBMSVer[i] /\ n.DBMSVer[i] \in 0..255
    BY <2>2, <2>3
  <2>5. \A x \in 0..255 : Uint8(x) = x
    BY DEF Uint8
  <2>6. \A i \in 1..3 : Uint8(rest[2 + i].val) = n.DBMSVer[i]
    BY <2>4, <2>5
  <2> QED
    BY <2>2, <2>6
<1>5. [i \in 1..L |-> m[4 + i].val] = n.ClusterIds
  <2> DEFINE c == n.ClusterIds
  <2>1. c \in Seq(STRING)
    BY DEF Nodes
  <2>2. L = Len(c) /\ \A i \in 1..L : m[4 + i].val = c[i]
    BY <1>1, TokenFields
  <2> HIDE DEF c
  <2>3. c = [i \in 1..Len(c) |-> c[i]]
    BY <2>1
  <2>4. [i \in 1..L |-> m[4 + i].val] = c
    BY <2>2, <2>3
  <2> QED
    BY <2>4 DEF c
<1>6. [n EXCEPT !.IdleTimeout = Int8(n.IdleTimeout)]
        = [IdleTimeout |-> Int8(n.IdleTimeout), ClusterNodeId |-> n.ClusterNodeId,
           ClusterNodeName |-> n.ClusterNodeName, ClusterIds |-> n.ClusterIds,
           ClusterName |-> n.ClusterName, ObservableTS |-> n.ObservableTS, DBMSVer |-> n.DBMSVer,
           DBMSVerPatch |-> n.DBMSVerPatch, DBMSVerPreRelease |-> n.DBMSVerPreRelease,
           Features |-> n.Features]
  BY DEF Nodes
<1> QED
  BY <1>a, <1>2, <1>3, <1>4, <1>5, <1>6, Zenon

\* The node is read.
LEMMA ReadNodeStep ==
    ASSUME PhasesApart, Handshake, ReadNode
    PROVE  Handshake'
<1> DEFINE n == server.node
           L == Len(n.ClusterIds)
           rest == Drop(message, 4 + L)
<1>1. phase = "node" /\ api = "Open" /\ UNCHANGED <<api, ci, server>>
  BY DEF ReadNode, Stop, PhasesApart, OpenPhases
<1>2. server \in Servers /\ Agrees(server) /\ message = PackNode(n) \o Extensions
  BY <1>1 DEF Handshake
<1>3. n \in Nodes /\ Len(n.ClusterIds) <= 255 /\ NodeStream(message, n, L)
  BY <1>2, ServersAssumption, NodeReads
<1>4. Reads(message, NodeHead) /\ message[4].val = L /\ Reads(message, NodeForm(L))
  BY <1>3, NodeIsReadable
<1>5. Uint8(message[4].val) = L
  <2>1. L \in Nat /\ L <= 255
    BY <1>3 DEF NodeStream
  <2> HIDE DEF L
  <2> QED
    BY <1>4, <2>1 DEF Uint8
<1>6. node' = NodeRead(message, L) /\ message' = Drop(rest, 8) /\ phase' = "connected"
  BY <1>4, <1>5 DEF ReadNode, NodeRead
<1>7. node' = [n EXCEPT !.IdleTimeout = Int8(n.IdleTimeout)]
  BY <1>3, <1>6, NodeIsTrue
<1>8. message' = Extensions
  BY <1>3, <1>6 DEF NodeStream
<1>9. n.IdleTimeout \in Nat /\ node'.IdleTimeout = Int8(n.IdleTimeout)
  BY <1>3, <1>7 DEF Nodes
<1>10. [node' EXCEPT !.IdleTimeout = 0] = [n EXCEPT !.IdleTimeout = 0]
  BY <1>3, <1>7 DEF Nodes
<1>11. node'.IdleTimeout = n.IdleTimeout <=> n.IdleTimeout < 128
  BY <1>9, SignedByte
<1>12. NodeKnown'
  BY <1>1, <1>8, <1>10, <1>11 DEF NodeKnown, Extensions
<1>13. Agrees(server)'
  BY <1>1, <1>2 DEF Agrees
<1> QED
  BY <1>6, <1>12, <1>13 DEF Handshake

\* A step of anyone keeps to what the two sides have said.
LEMMA HandshakeStep ==
    ASSUME UrlLoop, Handshake, PhasesApart, phase \in OpenPhases \cup ReplyPhases,
           StreamNext \/ UNCHANGED streamVars
    PROVE  Handshake'
<1>1. CASE api # "Open"
  BY <1>1, PhaseStep DEF Handshake
<1>2. CASE UNCHANGED streamVars
  <2>1. UNCHANGED <<phase, api, message, ci, server, node>>
    BY <1>2 DEF streamVars, vars, openVars
  <2>2. /\ Agrees(server)' = Agrees(server) /\ NodeKnown' = NodeKnown /\ Major' = Major
        /\ TLSConfig' = TLSConfig /\ RequestHandshake' = RequestHandshake
    BY <2>1 DEF Agrees, NodeKnown, Major, TLSConfig, RequestHandshake
  <2> QED
    BY <2>1, <2>2 DEF Handshake
<1>3. CASE endOfURL \/ \E k \in todo : parseParameter(k)
  <2>1. phase' \in {"url", "badUrl", "open"}
    BY <1>3 DEF endOfURL, parseParameter, Stop, vars
  <2> QED
    BY <2>1 DEF Handshake
<1> QED
  BY <1>1, <1>2, <1>3, PhaseStep, ConnectStep, VerdictStep, ReadNodeStep DEF OpenNext

OpenInv == PhasesApart /\ phase \in OpenPhases \cup ReplyPhases /\ UrlLoop /\ Handshake

\* How far the connection is opened is an invariant.
LEMMA OpenInvariant == StreamSpec => []OpenInv
<1>1. StreamInit => OpenInv
  <2> SUFFICES ASSUME StreamInit PROVE OpenInv
    OBVIOUS
  <2>1. CASE ReplyInit
    BY <2>1 DEF OpenInv, ReplyInit, Init, SchemaInit, PhasesApart, UrlLoop, Handshake, OpenPhases, ReplyPhases
  <2>2. CASE OpenInit
    <3>1. api = "Open" /\ phase = "url" /\ todo = DOMAIN url /\ ci = [p \in Params |-> Default(p)]
      BY <2>2 DEF OpenInit
    <3>2. \A p \in Params : Taken(p) = {}
      BY <3>1 DEF Taken
    <3> QED
      BY <3>1, <3>2 DEF OpenInv, PhasesApart, UrlLoop, Handshake, OpenPhases
  <2> QED
    BY <2>1, <2>2 DEF StreamInit
<1>2. OpenInv /\ [StreamNext]_streamVars => OpenInv'
  BY PhaseStep, UrlStep, HandshakeStep DEF OpenInv
<1> QED
  BY <1>1, <1>2, PTL DEF StreamSpec, StreamNext, streamVars

\* Whatever connection names there are, and however their parameters are
\* visited, a name is understood as it is meant (driver.go:90-126).
THEOREM StreamUrlIsUnderstood == StreamSpec => []UrlIsUnderstood
<1>1. OpenInv => UrlIsUnderstood
  BY UrlLoopSuffices DEF OpenInv
<1> QED
  BY <1>1, OpenInvariant, PTL

\* Whatever servers there are, a connection is handed out exactly if the two
\* sides agree, and the node is known then (response-handshake.go).
THEOREM StreamConnectedAsAgreed == StreamSpec => []ConnectedAsAgreed
<1>1. OpenInv => ConnectedAsAgreed
  BY HandshakeSuffices DEF OpenInv
<1> QED
  BY <1>1, OpenInvariant, PTL

-----------------------------------------------------------------------------
(* The parts of a message                                                  *)

\* The n parts of a message, and how FlattenSeq adds one after the other.
AreParts(s, n) == Len(s) = n /\ n # 0 /\ \A i \in 1..n : s[i] \in Seq(Tokens)
AddedUp(s, n) == \E f \in [1..n -> Seq(Tokens)] :
                    /\ f[1] = s[1] /\ \A i \in 2..n : f[i] = f[i - 1] \o s[i]
                    /\ FlattenSeq(s) = f[n]

\* That is what FlattenSeq does.
LEMMA FlattenSteps ==
    ASSUME NEW s, NEW n \in Nat, AreParts(s, n)
    PROVE  AddedUp(s, n)
<1> DEFINE T == Seq(Tokens)
           flatten == CHOOSE f : f = [i \in 1..n |-> IF i = 1 THEN s[i] ELSE f[i - 1] \o s[i]]
<1>1. n \in Nat /\ n >= 1 /\ 1 \in 1..n /\ \A i \in 1..n : s[i] \in T
  BY DEF AreParts
<1> DEFINE c == <<>>
<1> DEFINE F == [i \in 1..n |-> [x \in T |-> x \o s[i]]]
<1>2. F \in [1..n -> [T -> T]]
  <2>1. \A x \in T, i \in 1..n : x \o s[i] \in T
    BY <1>1, PeelTokens
  <2> HIDE DEF T
  <2> QED
    BY <2>1
<1>3. c \in T
  OBVIOUS
<1>4. PICK g \in [0..n -> T] : g[0] = c /\ \A i \in 1..n : g[i] = F[i][g[i - 1]]
  <2> HIDE DEF T, F, c
  <2> QED
    BY <1>2, <1>3, RecursionExists
<1>5. \A i \in 1..n : g[i] = g[i - 1] \o s[i] /\ g[i - 1] \in T /\ g[i] \in T
  <2>1. \A i \in 1..n : i - 1 \in 0..n /\ i \in 0..n
    BY <1>1
  <2>2. \A i \in 1..n : g[i - 1] \in T /\ g[i] \in T
    BY <2>1
  <2> QED
    BY <1>4, <2>2
<1>6. g[1] = s[1]
  <2>1. g[1] = g[1 - 1] \o s[1] /\ s[1] \in T
    <3> HIDE DEF T
    <3> QED
      BY <1>1, <1>5
  <2>2. c \o s[1] = s[1]
    BY <2>1, ConcatEmptySeq
  <2>3. g[1 - 1] = c
    BY <1>4
  <2> QED
    BY <2>1, <2>2, <2>3
<1> DEFINE h == [i \in 1..n |-> g[i]]
<1>7. h \in [1..n -> T] /\ h[1] = s[1] /\ \A i \in 2..n : h[i] = h[i - 1] \o s[i]
  <2>1. \A i \in 2..n : i \in 1..n /\ i - 1 \in 1..n
    BY <1>1
  <2> QED
    BY <1>1, <1>5, <1>6, <2>1
<1>8. h = [i \in 1..n |-> IF i = 1 THEN s[i] ELSE h[i - 1] \o s[i]]
  <2>1. \A i \in 1..n : i # 1 => i \in 2..n
    BY <1>1
  <2>2. \A i \in 1..n : h[i] = IF i = 1 THEN s[i] ELSE h[i - 1] \o s[i]
    BY <1>7, <2>1
  <2> HIDE DEF h
  <2> QED
    BY <1>7, <2>2
<1>9. flatten = [i \in 1..n |-> IF i = 1 THEN s[i] ELSE flatten[i - 1] \o s[i]]
  <2> HIDE DEF h
  <2> QED
    BY <1>8
<1> HIDE DEF flatten
<1>10. flatten = h
  <2> DEFINE S == {m \in Nat : m + 1 <= n => flatten[m + 1] = h[m + 1]}
  <2>1. 0 \in S
    <3>1. 1 \in 1..n
      BY <1>1
    <3>2. flatten[1] = s[1]
      BY <1>9, <3>1
    <3> QED
      BY <1>7, <3>2
  <2>2. ASSUME NEW m \in Nat, m \in S PROVE m + 1 \in S
    <3> SUFFICES ASSUME (m + 1) + 1 <= n PROVE flatten[(m + 1) + 1] = h[(m + 1) + 1]
      OBVIOUS
    <3>1. (m + 1) + 1 \in 1..n /\ (m + 1) + 1 # 1 /\ ((m + 1) + 1) - 1 = m + 1 /\ (m + 1) + 1 \in 2..n /\ m + 1 <= n
      BY <1>1
    <3>2. flatten[(m + 1) + 1] = flatten[m + 1] \o s[(m + 1) + 1]
      BY <1>9, <3>1
    <3>3. h[(m + 1) + 1] = h[m + 1] \o s[(m + 1) + 1]
      <4> HIDE DEF h
      <4> QED
        BY <1>7, <3>1
    <3>4. flatten[m + 1] = h[m + 1]
      BY <2>2, <3>1
    <3> QED
      BY <3>2, <3>3, <3>4
  <2>3. \A m \in Nat : m \in S
    <3> HIDE DEF S
    <3> QED
      BY <2>1, <2>2, Induct
  <2>4. \A i \in 1..n : flatten[i] = h[i]
    <3> SUFFICES ASSUME NEW i \in 1..n PROVE flatten[i] = h[i]
      OBVIOUS
    <3>1. i - 1 \in Nat /\ (i - 1) + 1 = i /\ i <= n
      BY <1>1
    <3>2. i - 1 \in S
      BY <2>3, <3>1
    <3> QED
      BY <3>1, <3>2
  <2>5. \A f, e : f = [i \in 1..n |-> e[i]] => f = [i \in 1..n |-> f[i]]
    OBVIOUS
  <2>6. flatten = [i \in 1..n |-> flatten[i]]
    BY <1>9
  <2> QED
    BY <2>4, <2>6
<1>11. FlattenSeq(s) = h[n]
  <2>1. FlattenSeq(s) = flatten[n]
    BY DEF FlattenSeq, flatten, AreParts
  <2> QED
    BY <1>10, <2>1
<1> HIDE DEF h
<1> QED
  BY <1>7, <1>11 DEF AddedUp

\* The first part comes first.
LEMMA FlattenFirst ==
    ASSUME NEW s \in Seq(Seq(Tokens)), s # <<>>
    PROVE  /\ FlattenSeq(s) = s[1] \o FlattenSeq(Tail(s))
           /\ FlattenSeq(s) \in Seq(Tokens) /\ FlattenSeq(Tail(s)) \in Seq(Tokens)
<1> DEFINE t == Tail(s)  n == Len(s)
<1>1. t \in Seq(Seq(Tokens)) /\ n \in Nat /\ n >= 1 /\ Len(t) = n - 1 /\ \A i \in 1..(n - 1) : t[i] = s[i + 1]
  BY HeadTailProperties, EmptySeq
<1>2. PICK f \in [1..n -> Seq(Tokens)] :
         /\ f[1] = s[1] /\ \A i \in 2..n : f[i] = f[i - 1] \o s[i]
         /\ FlattenSeq(s) = f[n]
  <2>1. AreParts(s, n)
    BY <1>1 DEF AreParts
  <2>2. AddedUp(s, n)
    BY <1>1, <2>1, FlattenSteps
  <2> QED
    BY <2>2 DEF AddedUp
<1>3. FlattenSeq(s) \in Seq(Tokens) /\ s[1] \in Seq(Tokens)
  <2>1. n \in 1..n /\ 1 \in 1..n
    BY <1>1
  <2>2. f[n] \in Seq(Tokens) /\ f[1] \in Seq(Tokens)
    BY <1>2, <2>1
  <2> QED
    BY <1>2, <2>2
<1>4. CASE n = 1
  <2>1. t = <<>>
    <3> HIDE DEF t
    <3>1. Len(t) = 0
      BY <1>1, <1>4
    <3> QED
      BY <1>1, <3>1, EmptySeq
  <2>2. FlattenSeq(t) = <<>>
    BY <2>1 DEF FlattenSeq
  <2> HIDE DEF t
  <2>3. s[1] \o <<>> = s[1] /\ <<>> \in Seq(Tokens)
    BY <1>3, ConcatEmptySeq
  <2>4. FlattenSeq(s) = s[1]
    BY <1>2, <1>4
  <2> QED
    BY <1>3, <2>2, <2>3, <2>4 DEF t
<1>5. CASE n # 1
  <2> HIDE DEF t
  <2>1. Len(t) # 0
    BY <1>1, <1>5
  <2>2. PICK g \in [1..Len(t) -> Seq(Tokens)] :
           /\ g[1] = t[1] /\ \A i \in 2..Len(t) : g[i] = g[i - 1] \o t[i]
           /\ FlattenSeq(t) = g[Len(t)]
    <3>1. AreParts(t, Len(t))
      BY <1>1, <2>1 DEF AreParts
    <3>2. AddedUp(t, Len(t))
      BY <1>1, <3>1, FlattenSteps
    <3> QED
      BY <3>2 DEF AddedUp
  <2> DEFINE S == {m \in Nat : m + 2 <= n => f[m + 2] = s[1] \o g[m + 1]}
  <2>3. 0 \in S
    <3>1. 2 \in 2..n /\ 2 - 1 = 1 /\ 1 \in 1..(n - 1) /\ 1 + 1 = 2 /\ 0 + 2 = 2 /\ 0 + 1 = 1
      BY <1>1, <1>5
    <3>2. f[2] = f[1] \o s[2]
      BY <1>2, <3>1
    <3>3. g[1] = s[2]
      BY <1>1, <2>2, <3>1
    <3> QED
      BY <1>2, <3>1, <3>2, <3>3
  <2>4. ASSUME NEW m \in Nat, m \in S PROVE m + 1 \in S
    <3> SUFFICES ASSUME (m + 1) + 2 <= n PROVE f[(m + 1) + 2] = s[1] \o g[(m + 1) + 1]
      <4>1. m + 1 \in Nat
        OBVIOUS
      <4> QED
        BY <4>1, Zenon
    <3> DEFINE k == (m + 1) + 2
    <3>1. /\ k \in 2..n /\ k - 1 = m + 2 /\ (m + 1) + 1 = m + 2 /\ m + 2 \in 2..Len(t)
          /\ (m + 2) - 1 = m + 1 /\ m + 1 \in 1..Len(t) /\ m + 2 \in 1..(n - 1) /\ (m + 2) + 1 = k
          /\ m + 2 <= n /\ k \in 1..n
      BY <1>1
    <3>2. f[k] = f[m + 2] \o s[k]
      BY <1>2, <3>1
    <3>3. f[m + 2] = s[1] \o g[m + 1]
      BY <2>4, <3>1
    <3>4. g[m + 2] = g[m + 1] \o t[m + 2]
      BY <2>2, <3>1
    <3>5. t[m + 2] = s[k]
      BY <1>1, <3>1
    <3>6. g[m + 1] \in Seq(Tokens) /\ s[k] \in Seq(Tokens)
      <4>1. g[m + 1] \in Seq(Tokens)
        BY <2>2, <3>1
      <4>2. \A i \in 1..n : s[i] \in Seq(Tokens)
        OBVIOUS
      <4> QED
        BY <3>1, <4>1, <4>2
    <3> HIDE DEF k
    <3>7. (s[1] \o g[m + 1]) \o s[k] = s[1] \o (g[m + 1] \o s[k])
      BY <1>3, <3>6, TokensAssociate
    <3> QED
      BY <3>1, <3>2, <3>3, <3>4, <3>5, <3>7 DEF k
  <2>5. \A m \in Nat : m \in S
    <3> HIDE DEF S
    <3> QED
      BY <2>3, <2>4, Induct
  <2>6. n - 2 \in Nat /\ (n - 2) + 2 = n /\ (n - 2) + 1 = Len(t) /\ Len(t) \in 1..Len(t)
    BY <1>1, <1>5
  <2>7. f[n] = s[1] \o g[Len(t)] /\ g[Len(t)] \in Seq(Tokens)
    <3>1. n - 2 \in S
      BY <2>5, <2>6
    <3>2. f[(n - 2) + 2] = s[1] \o g[(n - 2) + 1]
      BY <2>6, <3>1
    <3> QED
      BY <2>2, <2>6, <3>2
  <2> QED
    BY <1>2, <1>3, <2>2, <2>7 DEF t
<1> QED
  BY <1>4, <1>5

\* What is still to be read after the first i of the parts of a message.
Ahead(parts, i) == FlattenSeq(SubSeq(parts, i + 1, Len(parts)))

\* At first everything, at the end nothing, and one part more each time.
LEMMA AheadSteps ==
    ASSUME NEW s \in Seq(Seq(Tokens)), NEW n, n = Len(s)
    PROVE  /\ FlattenSeq(s) = Ahead(s, 0)
           /\ Ahead(s, n) = <<>>
           /\ \A i \in 0..(n - 1) : Ahead(s, i) = s[i + 1] \o Ahead(s, i + 1)
           /\ \A i \in 0..n : Ahead(s, i) \in Seq(Tokens)
<1>1. n \in Nat
  OBVIOUS
<1>2. FlattenSeq(s) = Ahead(s, 0)
  <2>1. SubSeq(s, 1, n) = s /\ 0 + 1 = 1
    BY SubSeqFull
  <2> QED
    BY <2>1, Zenon DEF Ahead
<1>3. Ahead(s, n) = <<>>
  <2>1. n + 1 \in Int /\ n \in Int /\ n < n + 1
    BY <1>1
  <2>2. SubSeq(s, n + 1, n) = <<>>
    BY <2>1, SubSeqEmpty
  <2> QED
    BY <2>2 DEF Ahead, FlattenSeq
<1>4. ASSUME NEW i \in 0..(n - 1)
      PROVE  Ahead(s, i) = s[i + 1] \o Ahead(s, i + 1) /\ Ahead(s, i) \in Seq(Tokens)
  <2> DEFINE u == SubSeq(s, i + 1, n)
  <2>1. i + 1 \in 1..n /\ n \in (i + 1)..n /\ i + 1 \in Int /\ n \in Int /\ i + 1 <= n /\ n - (i + 1) + 1 # 0
    BY <1>1
  <2>2. Head(u) = s[i + 1] /\ Tail(u) = SubSeq(s, (i + 1) + 1, n)
    BY <2>1, HeadTailOfSubSeq
  <2>3. \A k \in (i + 1)..n : s[k] \in Seq(Tokens)
    BY <1>1
  <2>4. u \in Seq(Seq(Tokens)) /\ Len(u) = n - (i + 1) + 1
    BY <2>1, <2>3, SubSeqProperties
  <2> HIDE DEF u
  <2>5. u # <<>> /\ Head(u) = u[1]
    BY <2>1, <2>4
  <2>6. FlattenSeq(u) = u[1] \o FlattenSeq(Tail(u)) /\ FlattenSeq(u) \in Seq(Tokens)
    BY <2>4, <2>5, FlattenFirst
  <2> QED
    BY <2>2, <2>5, <2>6 DEF Ahead, u
<1>5. <<>> \in Seq(Tokens)
  OBVIOUS
<1>6. \A i \in 0..n : Ahead(s, i) \in Seq(Tokens)
  <2>1. \A i \in 0..n : i = n \/ i \in 0..(n - 1)
    BY <1>1
  <2> QED
    BY <1>3, <1>4, <1>5, <2>1
<1> QED
  BY <1>2, <1>3, <1>4, <1>6

-----------------------------------------------------------------------------
(* Columns of a result                                                     *)

\* A message that starts with a and goes on with b.
Starts(m, a, b) == m = a \o b /\ a \in Seq(Tokens) /\ b \in Seq(Tokens)

\* What that means to a reader.
LEMMA StartsMeans ==
    ASSUME NEW m, NEW a, NEW b, Starts(m, a, b)
    PROVE  /\ m \in Seq(Tokens) /\ Len(m) = Len(a) + Len(b) /\ Len(a) \in Nat /\ Len(b) \in Nat
           /\ \A i \in 1..Len(a) : m[i] = a[i]
           /\ \A i \in 1..Len(b) : m[Len(a) + i] = b[i]
           /\ Drop(m, Len(a)) = b
<1>1. m = a \o b /\ a \in Seq(Tokens) /\ b \in Seq(Tokens)
  BY DEF Starts
<1>2. Len(a) \in Nat /\ Len(b) \in Nat
  BY <1>1
<1> QED
  BY <1>1, <1>2, PeelTokens

\* One token is at the front.
LEMMA OneAhead ==
    ASSUME NEW m, NEW t, NEW b, Starts(m, <<t>>, b)
    PROVE  /\ m \in Seq(Tokens) /\ m[1] = t /\ Drop(m, 1) = b /\ Tail(m) = b /\ Len(m) >= 1 /\ m # <<>>
           /\ \A codes : t.code \in codes <=> Reads(m, <<codes>>)
<1> DEFINE a == <<t>>
<1>1. Len(a) = 1 /\ a[1] = t
  OBVIOUS
<1>2. Starts(m, a, b)
  OBVIOUS
<1> HIDE DEF a
<1>3. /\ m \in Seq(Tokens) /\ Len(m) = Len(a) + Len(b) /\ Len(b) \in Nat
      /\ \A i \in 1..Len(a) : m[i] = a[i]
      /\ Drop(m, Len(a)) = b
  BY <1>2, StartsMeans
<1>4. m[1] = t /\ Drop(m, 1) = b /\ Len(m) >= 1
  BY <1>1, <1>3
<1>5. m # <<>>
  BY <1>4
<1>6. Tail(m) = Drop(m, 1)
  BY <1>3, <1>5, TailIsSubSeq DEF Drop
<1>7. \A codes : t.code \in codes <=> Reads(m, <<codes>>)
  <2> SUFFICES ASSUME NEW codes PROVE t.code \in codes <=> Reads(m, <<codes>>)
    OBVIOUS
  <2>1. Len(<<codes>>) = 1 /\ <<codes>>[1] = codes
    OBVIOUS
  <2> QED
    BY <1>4, <2>1 DEF Reads
<1> QED
  BY <1>3, <1>4, <1>5, <1>6, <1>7

HasOrigin(c) == c.Origin # NoOrigin

\* The tokens of a column: seven, and three more for an origin.
ColumnHead(c) ==
    <<PackInt(IF HasOrigin(c) THEN 9 ELSE 6), Token("str", c.Name), Token("bool", c.Nullable),
      PackInt(c.Type), PackInt(c.Scale), PackInt(c.Precision), Token("bool", HasOrigin(c))>>
ColumnNames(cs, i) ==
    <<IF cs[i].Origin.Column = cs[i].Name THEN PackNil ELSE Token("str", cs[i].Origin.Column),
      PackName(cs, i, "Schema"), PackName(cs, i, "Table")>>

\* A column has the fields it is described by.
LEMMA ColumnFields ==
    ASSUME NEW c \in Columns
    PROVE  /\ c.Name \in STRING /\ c.Nullable \in BOOLEAN /\ c.Type \in Nat /\ c.Scale \in Int
           /\ c.Precision \in Int
           /\ HasOrigin(c) => /\ c.Origin \in [Schema : STRING, Table : STRING, Column : STRING]
                              /\ c.Origin.Column \in STRING
                              /\ c.Origin["Schema"] \in STRING /\ c.Origin["Table"] \in STRING
           /\ c = [Name |-> c.Name, Nullable |-> c.Nullable, Type |-> c.Type, Scale |-> c.Scale,
                   Precision |-> c.Precision, Origin |-> c.Origin]
<1>1. c \in [Name : STRING, Nullable : BOOLEAN, Type : Nat, Scale : Int, Precision : Int,
             Origin : {NoOrigin} \cup [Schema : STRING, Table : STRING, Column : STRING]]
  BY ColumnsAssumption
<1>2. /\ c.Name \in STRING /\ c.Nullable \in BOOLEAN /\ c.Type \in Nat /\ c.Scale \in Int
      /\ c.Precision \in Int
      /\ c.Origin \in {NoOrigin} \cup [Schema : STRING, Table : STRING, Column : STRING]
      /\ c = [Name |-> c.Name, Nullable |-> c.Nullable, Type |-> c.Type, Scale |-> c.Scale,
              Precision |-> c.Precision, Origin |-> c.Origin]
  BY <1>1
<1>3. HasOrigin(c) => c.Origin \in [Schema : STRING, Table : STRING, Column : STRING]
  BY <1>2 DEF HasOrigin
<1> QED
  BY <1>2, <1>3

\* The namesakes of a column are before it.
LEMMA NamesakesBefore ==
    ASSUME NEW cs \in Seq(Columns), NEW i \in 1..Len(cs), NEW f
    PROVE  /\ Namesakes(cs, i, f) \subseteq 1..(i - 1)
           /\ Namesakes(cs, i, f) # {} =>
                /\ Min(Namesakes(cs, i, f)) \in 1..(i - 1)
                /\ Min(Namesakes(cs, i, f)) - 1 \in Nat
                /\ HasOrigin(cs[Min(Namesakes(cs, i, f))])
                /\ cs[Min(Namesakes(cs, i, f))].Origin[f] = cs[i].Origin[f]
<1> DEFINE N == Namesakes(cs, i, f)
<1>1. \A j \in N : j \in 1..(i - 1) /\ HasOrigin(cs[j]) /\ cs[j].Origin[f] = cs[i].Origin[f]
  BY DEF Namesakes, HasOrigin
<1> HIDE DEF N
<1>2. N \subseteq 1..(i - 1) /\ N \subseteq Nat
  BY <1>1
<1>3. N # {} => Min(N) \in N
  BY <1>2, MinIsLeast
<1>4. N # {} => Min(N) \in 1..(i - 1) /\ Min(N) - 1 \in Nat
  <2>1. \A x \in 1..(i - 1) : x - 1 \in Nat
    OBVIOUS
  <2>2. N # {} => Min(N) \in 1..(i - 1)
    BY <1>2, <1>3
  <2> QED
    BY <2>1, <2>2
<1>5. N # {} => HasOrigin(cs[Min(N)]) /\ cs[Min(N)].Origin[f] = cs[i].Origin[f]
  BY <1>1, <1>3
<1> QED
  BY <1>2, <1>4, <1>5 DEF N

\* They are tokens.
LEMMA ColumnParts ==
    ASSUME NEW cs \in Seq(Columns), NEW i \in 1..Len(cs)
    PROVE  /\ ColumnHead(cs[i]) \in Seq(Tokens) /\ Len(ColumnHead(cs[i])) = 7
           /\ HasOrigin(cs[i]) => ColumnNames(cs, i) \in Seq(Tokens)
           /\ Len(ColumnNames(cs, i)) = 3
           /\ PackColumn(cs, i) = ColumnHead(cs[i]) \o IF HasOrigin(cs[i]) THEN ColumnNames(cs, i) ELSE <<>>
           /\ PackColumn(cs, i) \in Seq(Tokens)
<1> DEFINE c == cs[i]
<1>1. c \in Columns
  OBVIOUS
<1> HIDE DEF c
<1>2. ColumnHead(c) \in Seq(Tokens) /\ Len(ColumnHead(c)) = 7
  <2>1. /\ c.Name \in STRING /\ c.Nullable \in BOOLEAN /\ c.Type \in Int /\ c.Scale \in Int
        /\ c.Precision \in Int
    BY <1>1, ColumnFields
  <2>2. /\ Token("str", c.Name) \in Tokens /\ Token("bool", c.Nullable) \in Tokens
        /\ PackInt(c.Type) \in Tokens /\ PackInt(c.Scale) \in Tokens /\ PackInt(c.Precision) \in Tokens
    BY <2>1, TokenType
  <2>3. Token("bool", HasOrigin(c)) \in Tokens
    <3>1. HasOrigin(c) \in BOOLEAN
      BY DEF HasOrigin
    <3> QED
      BY <3>1, TokenType
  <2>4. PackInt(IF HasOrigin(c) THEN 9 ELSE 6) \in Tokens
    <3>1. (IF HasOrigin(c) THEN 9 ELSE 6) \in Int
      OBVIOUS
    <3> QED
      BY <3>1, TokenType
  <2> QED
    BY <2>2, <2>3, <2>4 DEF ColumnHead
<1>3. ASSUME HasOrigin(c), NEW f \in {"Schema", "Table"} PROVE PackName(cs, i, f) \in Tokens
  <2>1. c.Origin[f] \in STRING
    BY <1>1, <1>3, ColumnFields
  <2>2. Token("str", c.Origin[f]) \in Tokens
    BY <2>1, TokenType
  <2>3. Namesakes(cs, i, f) # {} => Min(Namesakes(cs, i, f)) - 1 \in Int
    BY NamesakesBefore
  <2>4. Namesakes(cs, i, f) # {} => PackInt(Min(Namesakes(cs, i, f)) - 1) \in Tokens
    BY <2>3, TokenType
  <2> QED
    BY <2>2, <2>4 DEF PackName, c
<1>4. ASSUME HasOrigin(c) PROVE ColumnNames(cs, i) \in Seq(Tokens)
  <2>1. c.Origin.Column \in STRING
    BY <1>1, <1>4, ColumnFields
  <2>2. Token("str", c.Origin.Column) \in Tokens /\ PackNil \in Tokens
    BY <2>1, TokenType
  <2>3. PackName(cs, i, "Schema") \in Tokens /\ PackName(cs, i, "Table") \in Tokens
    BY <1>3, <1>4
  <2>4. (IF c.Origin.Column = c.Name THEN PackNil ELSE Token("str", c.Origin.Column)) \in Tokens
    BY <2>2
  <2> QED
    BY <2>3, <2>4 DEF ColumnNames, c
<1>5. Len(ColumnNames(cs, i)) = 3
  BY DEF ColumnNames
<1>6. PackColumn(cs, i) = ColumnHead(c) \o IF HasOrigin(c) THEN ColumnNames(cs, i) ELSE <<>>
  BY DEF PackColumn, ColumnHead, ColumnNames, HasOrigin, c
<1>7. PackColumn(cs, i) \in Seq(Tokens)
  <2>1. <<>> \in Seq(Tokens)
    OBVIOUS
  <2>2. (IF HasOrigin(c) THEN ColumnNames(cs, i) ELSE <<>>) \in Seq(Tokens)
    BY <1>4, <2>1
  <2> QED
    BY <1>2, <1>6, <2>2, ConcatProperties
<1> QED
  BY <1>2, <1>4, <1>5, <1>6, <1>7 DEF c

\* The readers have the tokens of a column ahead of them, and then the rest.
ColumnAhead(m, cs, i, rest) ==
    /\ m \in Seq(Tokens) /\ Len(m) >= 7
    /\ \A k \in 1..7 : m[k] = ColumnHead(cs[i])[k]
    /\ HasOrigin(cs[i]) => /\ Len(Drop(m, 7)) >= 3
                           /\ \A k \in 1..3 : Drop(m, 7)[k] = ColumnNames(cs, i)[k]
                           /\ Drop(m, 10) = rest
    /\ ~HasOrigin(cs[i]) => Drop(m, 7) = rest

\* That is how a column is sent.
LEMMA ColumnIsAhead ==
    ASSUME NEW cs \in Seq(Columns), NEW i \in 1..Len(cs), NEW rest, NEW m,
           Starts(m, PackColumn(cs, i), rest)
    PROVE  ColumnAhead(m, cs, i, rest)
<1> DEFINE h == ColumnHead(cs[i])  n == ColumnNames(cs, i)
<1>1. h \in Seq(Tokens) /\ (HasOrigin(cs[i]) => n \in Seq(Tokens))
  BY ColumnParts
<1>2. Len(h) = 7 /\ Len(n) = 3
  BY ColumnParts
<1>3. PackColumn(cs, i) = h \o IF HasOrigin(cs[i]) THEN n ELSE <<>>
  BY ColumnParts
<1>4. m = PackColumn(cs, i) \o rest /\ rest \in Seq(Tokens)
  BY DEF Starts
<1> HIDE DEF h, n
<1>5. CASE HasOrigin(cs[i])
  <2>1. n \in Seq(Tokens) /\ h \in Seq(Tokens) /\ n \o rest \in Seq(Tokens) /\ h \o n \in Seq(Tokens)
    BY <1>1, <1>4, <1>5, PeelTokens
  <2>2. m = (h \o n) \o rest
    BY <1>3, <1>4, <1>5
  <2>3. m = h \o (n \o rest)
    BY <1>4, <2>1, <2>2, TokensAssociate
  <2>4. Starts(m, h, n \o rest) /\ Starts(m, h \o n, rest) /\ Starts(n \o rest, n, rest) /\ Starts(h \o n, h, n)
    BY <1>4, <2>1, <2>2, <2>3 DEF Starts
  <2> DEFINE d == n \o rest  e == h \o n
  <2> HIDE DEF d, e
  <2>5. Starts(m, h, d) /\ Starts(m, e, rest) /\ Starts(d, n, rest) /\ Starts(e, h, n)
    BY <2>4 DEF d, e
  <2>6. /\ m \in Seq(Tokens) /\ Len(m) = Len(h) + Len(d) /\ Len(d) \in Nat
        /\ \A k \in 1..Len(h) : m[k] = h[k]
        /\ Drop(m, Len(h)) = d
    BY <2>5, StartsMeans
  <2>7. /\ Len(d) = Len(n) + Len(rest) /\ Len(rest) \in Nat
        /\ \A k \in 1..Len(n) : d[k] = n[k]
    BY <2>5, StartsMeans
  <2>8. Drop(m, Len(e)) = rest
    BY <2>5, StartsMeans
  <2>9. Len(e) = Len(h) + Len(n)
    BY <2>5, StartsMeans
  <2>10. Len(e) = 10
    BY <1>2, <2>9
  <2>11. Len(m) >= 7 /\ Drop(m, 7) = d /\ \A k \in 1..7 : m[k] = h[k]
    BY <1>2, <2>6
  <2>12. Len(d) >= 3 /\ \A k \in 1..3 : d[k] = n[k]
    BY <1>2, <2>7
  <2>13. Drop(m, 10) = rest
    BY <2>8, <2>10
  <2> QED
    BY <1>5, <2>6, <2>11, <2>12, <2>13 DEF ColumnAhead, h, n
<1>6. CASE ~HasOrigin(cs[i])
  <2>1. m = h \o rest
    BY <1>1, <1>3, <1>4, <1>6, ConcatEmptySeq
  <2>2. Starts(m, h, rest)
    BY <1>1, <1>4, <2>1 DEF Starts
  <2>3. /\ m \in Seq(Tokens) /\ Len(m) = Len(h) + Len(rest) /\ Len(rest) \in Nat
        /\ \A k \in 1..Len(h) : m[k] = h[k]
        /\ Drop(m, Len(h)) = rest
    BY <2>2, StartsMeans
  <2>4. Len(m) >= 7 /\ Drop(m, 7) = rest /\ \A k \in 1..7 : m[k] = h[k]
    BY <1>2, <2>3
  <2> QED
    BY <1>6, <2>3, <2>4 DEF ColumnAhead, h
<1> QED
  BY <1>5, <1>6

\* The columns that have been read are those described, and readable.
Described == /\ cols \in Seq(Columns) /\ Len(cols) <= MaxCols
             /\ meta \in Seq(Columns) /\ Len(meta) <= Len(cols)
             /\ \A i \in 1..Len(meta) : meta[i] = cols[i] /\ ~Unreadable(i)

\* A name or an index of the origin is understood exactly if it is a name or
\* a fixnum, and it is the name that was meant.
LEMMA NameIsRead ==
    ASSUME Described, NEW j \in 1..Len(cols), j = Len(meta) + 1, NEW f \in {"Schema", "Table"},
           NEW t, t = PackName(cols, j, f)
    PROVE  LET N == Namesakes(cols, j, f)
           IN  /\ NameReads(t) <=> ~(N # {} /\ Min(N) - 1 > FixMax)
               /\ NameReads(t) => Name(t, f) = cols[j].Origin[f]
<1> DEFINE N == Namesakes(cols, j, f)  k == Min(N)
<1>1. CASE N = {}
  <2>1. t = Token("str", cols[j].Origin[f])
    BY <1>1 DEF PackName
  <2>2. t.code = "str" /\ t.val = cols[j].Origin[f]
    BY <2>1, TokenFields
  <2>3. ~TryReadPackedInt(t)
    BY <2>2 DEF TryReadPackedInt
  <2> QED
    BY <1>1, <2>2, <2>3 DEF NameReads, Name
<1>2. CASE N # {}
  <2>1. cols \in Seq(Columns) /\ Len(meta) \in Nat
    BY DEF Described
  <2>2. k \in 1..(j - 1) /\ k - 1 \in Nat /\ cols[k].Origin[f] = cols[j].Origin[f]
    BY <1>2, <2>1, NamesakesBefore
  <2>3. t = PackInt(k - 1)
    BY <1>2 DEF PackName
  <2> HIDE DEF k
  <2>4. t.val = k - 1 /\ t.code = IF k - 1 <= FixMax THEN "fixnum" ELSE "uint"
    <3>1. ~(k - 1 < 0)
      BY <2>2
    <3> QED
      BY <2>3, <3>1 DEF PackInt, Token
  <2>5. CASE k - 1 <= FixMax
    <3>1. TryReadPackedInt(t)
      BY <2>4, <2>5 DEF TryReadPackedInt
    <3>2. j - 1 = Len(meta) /\ k \in 1..Len(meta) /\ k - 1 \in 0..(Len(meta) - 1) /\ (k - 1) + 1 = k
      BY <2>1, <2>2
    <3>3. NameReads(t)
      BY <2>4, <3>1, <3>2 DEF NameReads
    <3>4. Name(t, f) = meta[k].Origin[f]
      BY <2>4, <3>1, <3>2 DEF Name
    <3>5. meta[k] = cols[k]
      BY <3>2 DEF Described
    <3>6. ~(k - 1 > FixMax)
      BY <2>2, <2>5, BoundsAssumption
    <3> QED
      BY <2>2, <3>3, <3>4, <3>5, <3>6 DEF k
  <2>6. CASE ~(k - 1 <= FixMax)
    <3>1. t.code = "uint" /\ k - 1 > FixMax
      BY <2>2, <2>4, <2>6, BoundsAssumption
    <3>2. ~TryReadPackedInt(t) /\ ~NameReads(t)
      BY <3>1 DEF TryReadPackedInt, NameReads
    <3> QED
      BY <1>2, <3>1, <3>2 DEF k
  <2> QED
    BY <2>5, <2>6
<1> QED
  BY <1>1, <1>2

\* The column that is read from the message.
ColumnRead ==
    [Name |-> message[2].val, Nullable |-> message[3].val, Type |-> message[4].val,
     Scale |-> message[5].val, Precision |-> message[6].val,
     Origin |-> IF message[7].val THEN ColumnOrigin(Drop(message, 7), message[2].val) ELSE NoOrigin]

\* A column is read exactly if it is readable, and as it was described.
LEMMA ColumnIsRead ==
    ASSUME Described, NEW j \in 1..Len(cols), j = Len(meta) + 1, NEW rest,
           ColumnAhead(message, cols, j, rest)
    PROVE  /\ ColumnReads <=> ~Unreadable(j)
           /\ ColumnReads => ColumnRead = cols[j]
           /\ Drop(message, IF message[7].val THEN 10 ELSE 7) = rest
<1> DEFINE c == cols[j]  d == Drop(message, 7)
<1>1. c \in Columns
  BY DEF Described
<1>2. /\ message \in Seq(Tokens) /\ Len(message) >= 7
      /\ \A k \in 1..7 : message[k] = ColumnHead(c)[k]
      /\ HasOrigin(c) => /\ Len(d) >= 3
                         /\ \A k \in 1..3 : d[k] = ColumnNames(cols, j)[k]
                         /\ Drop(message, 10) = rest
      /\ ~HasOrigin(c) => d = rest
  BY DEF ColumnAhead
<1>3. /\ message[1] = PackInt(IF HasOrigin(c) THEN 9 ELSE 6) /\ message[2] = Token("str", c.Name)
      /\ message[3] = Token("bool", c.Nullable) /\ message[4] = PackInt(c.Type)
      /\ message[5] = PackInt(c.Scale) /\ message[6] = PackInt(c.Precision)
      /\ message[7] = Token("bool", HasOrigin(c))
  BY <1>2 DEF ColumnHead
<1>4. /\ message[1].code \in IntCodes /\ message[2].code = "str" /\ message[3].code = "bool"
      /\ message[4].code \in IntCodes /\ message[5].code \in IntCodes /\ message[6].code \in IntCodes
      /\ message[7].code = "bool"
  BY <1>3, TokenFields
<1>5. /\ message[1].val = (IF HasOrigin(c) THEN 9 ELSE 6) /\ message[2].val = c.Name
      /\ message[3].val = c.Nullable /\ message[4].val = c.Type /\ message[5].val = c.Scale
      /\ message[6].val = c.Precision /\ message[7].val = HasOrigin(c)
  BY <1>3, TokenFields
<1>6. Reads(message, ColumnForm)
  <2>1. Len(ColumnForm) = 7
    BY DEF ColumnForm
  <2>2. \A k \in 1..7 : message[k].code \in ColumnForm[k]
    BY <1>4 DEF ColumnForm
  <2> QED
    BY <1>2, <2>1, <2>2 DEF Reads
<1> HIDE DEF c, d
<1>7. ColumnReads <=> c.Type \in ColTypes /\ (HasOrigin(c) => OriginReads(d))
  <2>1. HasOrigin(c) => message[1].val >= 9
    BY <1>5
  <2> QED
    BY <1>5, <1>6, <2>1 DEF ColumnReads, d
<1>8. CASE HasOrigin(c)
  <2> DEFINE Bad(f) == Namesakes(cols, j, f) # {} /\ Min(Namesakes(cols, j, f)) - 1 > FixMax
  <2>1. /\ d[1] = (IF c.Origin.Column = c.Name THEN PackNil ELSE Token("str", c.Origin.Column))
        /\ d[2] = PackName(cols, j, "Schema") /\ d[3] = PackName(cols, j, "Table") /\ Len(d) >= 3
    BY <1>2, <1>8 DEF ColumnNames, c
  <2>2. d[1].code \in {"nil", "str"}
    BY <2>1, TokenFields
  <2>3. NameReads(d[2]) <=> ~Bad("Schema")
    BY <2>1, NameIsRead
  <2>4. NameReads(d[3]) <=> ~Bad("Table")
    BY <2>1, NameIsRead
  <2>5. OriginReads(d) <=> ~Bad("Schema") /\ ~Bad("Table")
    BY <2>1, <2>2, <2>3, <2>4 DEF OriginReads
  <2>6. Unreadable(j) <=> c.Type \notin ColTypes \/ \E f \in {"Schema", "Table"} : Bad(f)
    BY <1>8 DEF Unreadable, HasOrigin, c
  <2>7. ColumnReads <=> ~Unreadable(j)
    BY <1>7, <1>8, <2>5, <2>6
  <2>8. ASSUME ColumnReads PROVE ColumnRead = c
    <3>1. OriginReads(d)
      BY <1>7, <1>8, <2>8
    <3>2. Name(d[2], "Schema") = c.Origin["Schema"]
      BY <2>1, <3>1, NameIsRead DEF OriginReads, c
    <3>3. Name(d[3], "Table") = c.Origin["Table"]
      BY <2>1, <3>1, NameIsRead DEF OriginReads, c
    <3>4. (IF IsNil(d) THEN c.Name ELSE d[1].val) = c.Origin.Column
      <4>1. d # <<>>
        BY <2>1
      <4>2. IsNil(d) <=> d[1].code = "nil"
        BY <4>1 DEF IsNil
      <4> QED
        BY <2>1, <4>2, TokenFields
    <3>5. c.Origin \in [Schema : STRING, Table : STRING, Column : STRING]
      BY <1>1, <1>8, ColumnFields DEF c
    <3>6. ColumnOrigin(d, c.Name) = [Column |-> c.Origin.Column, Schema |-> c.Origin.Schema,
                                     Table |-> c.Origin.Table]
      BY <3>2, <3>3, <3>4 DEF ColumnOrigin
    <3>7. ColumnOrigin(d, c.Name) = c.Origin
      BY <3>5, <3>6
    <3>8. ColumnRead = [Name |-> c.Name, Nullable |-> c.Nullable, Type |-> c.Type, Scale |-> c.Scale,
                        Precision |-> c.Precision, Origin |-> c.Origin]
      BY <1>5, <1>8, <3>7 DEF ColumnRead, d
    <3> QED
      BY <1>1, <3>8, ColumnFields DEF c
  <2>9. Drop(message, IF message[7].val THEN 10 ELSE 7) = rest
    BY <1>2, <1>5, <1>8
  <2> QED
    BY <2>7, <2>8, <2>9 DEF c
<1>9. CASE ~HasOrigin(c)
  <2>1. Unreadable(j) <=> c.Type \notin ColTypes
    BY <1>9 DEF Unreadable, HasOrigin, c
  <2>2. c.Origin = NoOrigin
    BY <1>9 DEF HasOrigin
  <2>3. ColumnRead = [Name |-> c.Name, Nullable |-> c.Nullable, Type |-> c.Type, Scale |-> c.Scale,
                      Precision |-> c.Precision, Origin |-> c.Origin]
    BY <1>5, <1>9, <2>2 DEF ColumnRead
  <2>4. ColumnRead = c
    BY <1>1, <2>3, ColumnFields DEF c
  <2>5. Drop(message, IF message[7].val THEN 10 ELSE 7) = rest
    BY <1>2, <1>5, <1>9 DEF d
  <2> QED
    BY <1>7, <1>9, <2>1, <2>4, <2>5 DEF c
<1> QED
  BY <1>8, <1>9

-----------------------------------------------------------------------------
(* The invariant of the reading of a result                                *)

\* The parts of the metadata.
ColumnTokens(cs) == [i \in 1..Len(cs) |-> PackColumn(cs, i)]

\* The n rows of a page after the first k.
RowTokens(k, n) == [i \in 1..(n - k) |-> Token("bin", k + i)]

Readers == {"QuerySQL", "QuerySQLFields", "newRows"}
Results == [ResourceId : Nat, HasRowSet : BOOLEAN, HasMore : BOOLEAN, wasApplied : BOOLEAN, AffectedRows : Int]

\* The last row has been read to its end, if there is one.
RowRead(some) == IF some THEN /\ cells \in Rows /\ row = RowOf(cells)
                              /\ \A j \in 1..Len(cols) : Ends(cells, j) = "no"
                         ELSE cells = <<>>

\* Where the reading of a result is.
InHeader == /\ meta = <<>> /\ left = 0 /\ pages = 0 /\ cells = <<>>
            /\ \/ cols # <<>> /\ \E more \in BOOLEAN : message = PackResult(cols, sent, more)
               \/ cols = <<>> /\ sent = 0 /\ \E affected \in Int : message = PackUpdate(affected)
InColumns == /\ cells = <<>> /\ pages = 0 /\ left = Len(cols) - Len(meta)
             /\ cols = <<>> => sent = 0
             /\ message = Ahead(ColumnTokens(cols), Len(meta)) \o (IF cols = <<>> THEN <<>> ELSE PackRows(sent))
InCount == /\ cells = <<>> /\ pages > 0 /\ left = 0 /\ cols # <<>> /\ Len(meta) = Len(cols)
           /\ \E more \in BOOLEAN : message = PackRows(sent) \o <<Token("bool", more)>>
PageEnds == {<<>>, <<Token("bool", TRUE)>>, <<Token("bool", FALSE)>>}
InRows == /\ cols # <<>> /\ Len(meta) = Len(cols) /\ left \in 0..sent /\ RowRead(left < sent)
          /\ \E end \in PageEnds :
                /\ end = <<>> <=> pages = 0
                /\ message = RowTokens(sent - left, sent) \o end
AtEnd == message = <<>> /\ Len(meta) = Len(cols) /\ left = 0 /\ RowRead(sent > 0)
Failed == \/ \E i \in 1..Len(cols) : Unreadable(i)
          \/ cells \in Rows /\ \E j \in 1..Len(cols) : cells[j] = "refused"
Panicked == /\ Len(meta) = Len(cols) /\ cells \in Rows
            /\ \E j \in 1..Len(cols) : Ends(cells, j) = "panicked"

ResultInv ==
    api \in Readers =>
        /\ Described /\ sent \in 0..MaxRows /\ pages \in 0..MaxPages /\ result \in Results
        /\ left \in 0..(MaxCols + MaxRows)
        /\ phase # "header" => (result.HasRowSet <=> cols # <<>>)
        /\ result.HasMore => result.HasRowSet
        /\ \/ phase = "header" /\ InHeader
           \/ phase = "columns" /\ InColumns
           \/ phase = "count" /\ InCount
           \/ phase = "rows" /\ InRows
           \/ phase = "done" /\ AtEnd
           \/ phase = "failed" /\ Failed
           \/ phase = "panicked" /\ Panicked


\* The tokens of the columns are parts of a message.
LEMMA ColumnTokensType ==
    ASSUME NEW cs \in Seq(Columns)
    PROVE  /\ ColumnTokens(cs) \in Seq(Seq(Tokens)) /\ Len(ColumnTokens(cs)) = Len(cs)
           /\ \A i \in 1..Len(cs) : ColumnTokens(cs)[i] = PackColumn(cs, i)
<1>1. \A i \in 1..Len(cs) : PackColumn(cs, i) \in Seq(Tokens)
  BY ColumnParts
<1>2. Len(cs) \in Nat
  OBVIOUS
<1> QED
  BY <1>1, <1>2 DEF ColumnTokens

\* The rows of a page, one after the other.
LEMMA RowTokensType ==
    ASSUME NEW n \in Nat, NEW k \in 0..n
    PROVE  /\ RowTokens(k, n) \in Seq(Tokens)
           /\ k = n => RowTokens(k, n) = <<>>
           /\ k < n => RowTokens(k, n) = <<Token("bin", k + 1)>> \o RowTokens(k + 1, n)
<1>1. \A j \in 0..n : \A i \in 1..(n - j) : Token("bin", j + i) \in Tokens
  <2>1. \A j \in 0..n : \A i \in 1..(n - j) : j + i \in Int
    OBVIOUS
  <2> QED
    BY <2>1, TokenType
<1>2. \A j \in 0..n : RowTokens(j, n) \in Seq(Tokens) /\ Len(RowTokens(j, n)) = n - j
                      /\ \A i \in 1..(n - j) : RowTokens(j, n)[i] = Token("bin", j + i)
  <2> SUFFICES ASSUME NEW j \in 0..n
               PROVE  /\ RowTokens(j, n) \in Seq(Tokens) /\ Len(RowTokens(j, n)) = n - j
                      /\ \A i \in 1..(n - j) : RowTokens(j, n)[i] = Token("bin", j + i)
    OBVIOUS
  <2>1. n - j \in Nat /\ \A i \in 1..(n - j) : Token("bin", j + i) \in Tokens
    BY <1>1
  <2> QED
    BY <2>1 DEF RowTokens
<1>3. k = n => RowTokens(k, n) = <<>>
  BY <1>2, EmptySeq
<1>4. ASSUME k < n PROVE RowTokens(k, n) = <<Token("bin", k + 1)>> \o RowTokens(k + 1, n)
  <2> DEFINE a == <<Token("bin", k + 1)>>  b == RowTokens(k + 1, n)  s == RowTokens(k, n)
  <2>1. k + 1 \in 0..n /\ n - (k + 1) \in Nat /\ n - k = 1 + (n - (k + 1)) /\ 1 \in 1..(n - k)
    BY <1>4
  <2>2. b \in Seq(Tokens) /\ Len(b) = n - (k + 1) /\ \A i \in 1..(n - (k + 1)) : b[i] = Token("bin", (k + 1) + i)
    BY <1>2, <2>1
  <2>3. s \in Seq(Tokens) /\ Len(s) = n - k /\ \A i \in 1..(n - k) : s[i] = Token("bin", k + i)
    BY <1>2
  <2>4. a \in Seq(Tokens) /\ a[1] = Token("bin", k + 1)
    BY <1>1, <2>1
  <2>5. Len(a) = 1
    OBVIOUS
  <2> HIDE DEF a, b, s
  <2>6. /\ a \o b \in Seq(Tokens) /\ Len(a \o b) = Len(a) + Len(b)
        /\ \A i \in 1..Len(a) : (a \o b)[i] = a[i]
        /\ \A i \in 1..Len(b) : (a \o b)[Len(a) + i] = b[i]
    BY <2>2, <2>4, PeelTokens
  <2> DEFINE m == a \o b
  <2> HIDE DEF m
  <2>7. /\ m \in Seq(Tokens) /\ Len(m) = Len(a) + Len(b)
        /\ \A i \in 1..Len(a) : m[i] = a[i]
        /\ \A i \in 1..Len(b) : m[Len(a) + i] = b[i]
    BY <2>6 DEF m
  <2>8. Len(m) = n - k
    BY <2>1, <2>2, <2>5, <2>7
  <2>9. ASSUME NEW i \in 1..(n - k) PROVE m[i] = s[i]
    <3>1. CASE i = 1
      BY <2>3, <2>4, <2>5, <2>7, <3>1
    <3>2. CASE i # 1
      <4>1. i - 1 \in 1..Len(b) /\ Len(a) + (i - 1) = i /\ (k + 1) + (i - 1) = k + i /\ i - 1 \in 1..(n - (k + 1))
        BY <2>1, <2>2, <2>5, <3>2
      <4>2. m[Len(a) + (i - 1)] = b[i - 1]
        BY <2>7, <4>1
      <4>3. b[i - 1] = Token("bin", (k + 1) + (i - 1))
        BY <2>2, <4>1
      <4> QED
        BY <2>3, <4>1, <4>2, <4>3
    <3> QED
      BY <3>1, <3>2
  <2>10. m = s
    BY <2>3, <2>7, <2>8, <2>9, SeqEqual
  <2> QED
    BY <2>10 DEF m, a, b, s
<1> QED
  BY <1>2, <1>3, <1>4

\* The number of rows, and the rows.
LEMMA PackRowsIs ==
    ASSUME NEW n \in Nat
    PROVE  PackRows(n) = <<PackInt(n)>> \o RowTokens(0, n) /\ PackRows(n) \in Seq(Tokens)
<1>1. RowTokens(0, n) = [k \in 1..n |-> Token("bin", k)]
  <2>1. n - 0 = n /\ \A k \in 1..n : 0 + k = k
    OBVIOUS
  <2> QED
    BY <2>1 DEF RowTokens
<1>2. PackRows(n) = <<PackInt(n)>> \o RowTokens(0, n)
  BY <1>1 DEF PackRows
<1>3. <<PackInt(n)>> \in Seq(Tokens)
  <2>1. n \in Int
    OBVIOUS
  <2>2. PackInt(n) \in Tokens
    BY <2>1, TokenType
  <2> QED
    BY <2>2
<1>4. RowTokens(0, n) \in Seq(Tokens)
  <2>1. 0 \in 0..n
    OBVIOUS
  <2> QED
    BY <2>1, RowTokensType
<1> QED
  BY <1>2, <1>3, <1>4, PeelTokens

-----------------------------------------------------------------------------
(* The steps of the reading of a result                                    *)

\* While the columns stay, so does what is said of them.
LEMMA SameColumns ==
    ASSUME UNCHANGED <<api, cols, meta>>
    PROVE  /\ Described' <=> Described
           /\ \A i : Unreadable(i)' <=> Unreadable(i)
           /\ Rows' = Rows
           /\ \A r, j : Ends(r, j)' = Ends(r, j)
           /\ \A r : RowOf(r)' = RowOf(r)
<1>1. \A i : Unreadable(i)' <=> Unreadable(i)
  BY DEF Unreadable, Namesakes
<1>2. Described' <=> Described
  BY <1>1 DEF Described
<1>3. Rows' = Rows
  BY DEF Rows
<1>4. \A r, j : Ends(r, j)' = Ends(r, j)
  BY DEF Ends
<1>5. \A r : RowOf(r)' = RowOf(r)
  BY DEF RowOf, Key
<1> QED
  BY <1>1, <1>2, <1>3, <1>4, <1>5

\* The header of a response.
Header(id, has, more, applied, affected, n) ==
    <<id, Token("bool", has), Token("bool", more), Token("bool", applied), PackInt(affected), PackInt(n)>>

\* It is read as it was sent.
LEMMA HeaderIsRead ==
    ASSUME NEW id \in {PackInt(1), PackNil}, NEW has, NEW more, NEW applied, NEW affected, NEW n, NEW rest,
           Starts(message, Header(id, has, more, applied, affected, n), rest)
    PROVE  /\ Reads(message, HeaderForm \o <<IntCodes>>)
           /\ message[1].val \in Nat /\ message[2].val = has /\ message[3].val = more
           /\ message[4].val = applied /\ message[5].val = affected /\ message[6].val = n
           /\ Drop(message, 6) = rest
<1> DEFINE h == Header(id, has, more, applied, affected, n)
<1>1. Len(h) = 6
  BY DEF Header
<1>2. /\ h[1] = id /\ h[2] = Token("bool", has) /\ h[3] = Token("bool", more)
      /\ h[4] = Token("bool", applied) /\ h[5] = PackInt(affected) /\ h[6] = PackInt(n)
  BY DEF Header
<1>3. Starts(message, h, rest)
  OBVIOUS
<1> HIDE DEF h
<1>4. /\ Len(message) = Len(h) + Len(rest) /\ Len(rest) \in Nat
      /\ \A i \in 1..Len(h) : message[i] = h[i]
      /\ Drop(message, Len(h)) = rest
  BY <1>3, StartsMeans
<1>5. Len(message) >= 6 /\ Drop(message, 6) = rest /\ \A i \in 1..6 : message[i] = h[i]
  BY <1>1, <1>4
<1>6. /\ message[1] = id /\ message[2] = Token("bool", has) /\ message[3] = Token("bool", more)
      /\ message[4] = Token("bool", applied) /\ message[5] = PackInt(affected) /\ message[6] = PackInt(n)
  BY <1>2, <1>5
<1>7. /\ message[2].val = has /\ message[3].val = more /\ message[4].val = applied
      /\ message[5].val = affected /\ message[6].val = n
      /\ message[2].code = "bool" /\ message[3].code = "bool" /\ message[4].code = "bool"
      /\ message[5].code \in IntCodes /\ message[6].code \in IntCodes
  BY <1>6, TokenFields
<1>8. message[1].val \in Nat /\ message[1].code \in IF IsNil(message) THEN {"nil"} ELSE IntCodes
  <2>1. message # <<>>
    BY <1>5
  <2>2. IsNil(message) <=> message[1].code = "nil"
    BY <2>1 DEF IsNil
  <2>3. CASE id = PackInt(1)
    <3>1. message[1].code \in IntCodes /\ message[1].val = 1
      BY <1>6, <2>3, TokenFields
    <3>2. "nil" \notin IntCodes
      BY DEF IntCodes
    <3> QED
      BY <2>2, <3>1, <3>2
  <2>4. CASE id = PackNil
    <3>1. message[1].code = "nil" /\ message[1].val = 0
      BY <1>6, <2>4, TokenFields
    <3> QED
      BY <2>2, <3>1
  <2> QED
    BY <2>3, <2>4
<1>9. Reads(message, HeaderForm \o <<IntCodes>>)
  <2> DEFINE f == HeaderForm  e == <<IntCodes>>
             first == IF IsNil(message) THEN {"nil"} ELSE IntCodes
             S == {first, {"bool"}, IntCodes}
  <2>1. f \in Seq(S) /\ e \in Seq(S)
    BY DEF HeaderForm
  <2>2. Len(f) = 5 /\ f[1] = first /\ f[2] = {"bool"} /\ f[3] = {"bool"} /\ f[4] = {"bool"} /\ f[5] = IntCodes
    BY DEF HeaderForm
  <2>3. Len(e) = 1 /\ e[1] = IntCodes
    OBVIOUS
  <2> HIDE DEF f, e, S
  <2>4. /\ Len(f \o e) = Len(f) + Len(e)
        /\ \A i \in 1..Len(f) : (f \o e)[i] = f[i]
        /\ \A i \in 1..Len(e) : (f \o e)[Len(f) + i] = e[i]
    BY <2>1, Peel
  <2> DEFINE g == f \o e
  <2> HIDE DEF g, first
  <2>5. /\ Len(g) = Len(f) + Len(e)
        /\ \A i \in 1..Len(f) : g[i] = f[i]
        /\ \A i \in 1..Len(e) : g[Len(f) + i] = e[i]
    BY <2>4 DEF g
  <2>6. Len(g) = 6 /\ g[5 + 1] = IntCodes /\ \A i \in 1..5 : g[i] = f[i]
    BY <2>2, <2>3, <2>5
  <2>7. message[1].code \in first
    BY <1>8 DEF first
  <2>8. \A i \in 1..6 : message[i].code \in g[i]
    BY <1>7, <2>2, <2>6, <2>7
  <2>9. Reads(message, g)
    BY <1>5, <2>6, <2>8 DEF Reads
  <2> QED
    BY <2>9 DEF g, f, e
<1> QED
  BY <1>5, <1>7, <1>8, <1>9

\* What comes after the header.
Body == Ahead(ColumnTokens(cols), 0) \o (IF cols = <<>> THEN <<>> ELSE PackRows(sent))

\* A header is a sequence of tokens.
LEMMA HeaderType ==
    ASSUME NEW id \in {PackInt(1), PackNil}, NEW has \in BOOLEAN, NEW more \in BOOLEAN,
           NEW applied \in BOOLEAN, NEW affected \in Int, NEW n \in Int
    PROVE  Header(id, has, more, applied, affected, n) \in Seq(Tokens)
<1>1. PackInt(1) \in Tokens /\ PackNil \in Tokens /\ PackInt(affected) \in Tokens /\ PackInt(n) \in Tokens
  <2>1. 1 \in Int
    OBVIOUS
  <2> QED
    BY <2>1, TokenType
<1>2. Token("bool", has) \in Tokens /\ Token("bool", more) \in Tokens /\ Token("bool", applied) \in Tokens
  BY TokenType
<1>3. id \in Tokens
  BY <1>1
<1> QED
  BY <1>1, <1>2, <1>3 DEF Header

\* Every response has a header, whose count is that of the columns.
LEMMA HeaderAhead ==
    ASSUME InHeader, Described, sent \in Nat
    PROVE  \E id \in {PackInt(1), PackNil}, has, more, applied \in BOOLEAN, affected \in Int :
              /\ Starts(message, Header(id, has, more, applied, affected, Len(cols)), Body)
              /\ has <=> cols # <<>>
              /\ more => has
<1>1. cols \in Seq(Columns) /\ Len(cols) \in Int
  BY DEF Described
<1>2. /\ ColumnTokens(cols) \in Seq(Seq(Tokens)) /\ Len(ColumnTokens(cols)) = Len(cols)
  BY <1>1, ColumnTokensType
<1> DEFINE A == Ahead(ColumnTokens(cols), 0)  R == PackRows(sent)
<1>3. A = FlattenSeq(ColumnTokens(cols)) /\ A \in Seq(Tokens)
  <2>1. 0 \in 0..Len(ColumnTokens(cols))
    BY <1>2
  <2> QED
    BY <1>2, <2>1, AheadSteps
<1>4. R \in Seq(Tokens)
  BY PackRowsIs
<1>5. CASE cols # <<>>
  <2>1. PICK more \in BOOLEAN : message = PackResult(cols, sent, more)
    BY <1>5 DEF InHeader
  <2> DEFINE id == IF more THEN PackInt(1) ELSE PackNil
             h == Header(id, TRUE, more, FALSE, -1, Len(cols))
  <2>2. message = (h \o A) \o R
    BY <1>3, <2>1 DEF PackResult, Header, ColumnTokens
  <2>3. id \in {PackInt(1), PackNil} /\ -1 \in Int
    OBVIOUS
  <2>4. h \in Seq(Tokens)
    <3> HIDE DEF id
    <3> QED
      BY <1>1, <2>3, HeaderType
  <2>5. Body = A \o R
    BY <1>5 DEF Body
  <2> HIDE DEF A, R, h
  <2>6. message = h \o (A \o R) /\ A \o R \in Seq(Tokens)
    BY <1>3, <1>4, <2>2, <2>4, TokensAssociate, PeelTokens
  <2>7. Starts(message, h, Body)
    BY <2>4, <2>5, <2>6 DEF Starts
  <2> HIDE DEF id
  <2> QED
    BY <1>5, <2>3, <2>7 DEF h
<1>6. CASE cols = <<>>
  <2>1. PICK affected \in Int : message = PackUpdate(affected)
    BY <1>6 DEF InHeader
  <2> DEFINE h == Header(PackNil, FALSE, FALSE, TRUE, affected, Len(cols))
  <2>2. Len(cols) = 0
    BY <1>6
  <2>3. message = h
    BY <2>1, <2>2 DEF PackUpdate, Header
  <2>4. h \in Seq(Tokens)
    BY <1>1, HeaderType
  <2>5. Body = <<>>
    <3>1. A = <<>>
      <4>1. Len(ColumnTokens(cols)) = 0
        BY <1>2, <2>2
      <4> QED
        BY <1>2, <4>1, AheadSteps
    <3>2. <<>> \o <<>> = <<>>
      BY ConcatEmptySeq
    <3> QED
      BY <1>6, <3>1, <3>2 DEF Body
  <2> HIDE DEF h
  <2>6. h \o <<>> = h
    BY <2>4, ConcatEmptySeq
  <2>7. <<>> \in Seq(Tokens)
    OBVIOUS
  <2>8. Starts(message, h, Body)
    BY <2>3, <2>4, <2>5, <2>6, <2>7 DEF Starts
  <2> QED
    BY <1>6, <2>8 DEF h
<1> QED
  BY <1>5, <1>6

\* The header is read.
LEMMA HeaderStep ==
    ASSUME ResultInv, api \in Readers, ReadHeader
    PROVE  ResultInv'
<1>1. /\ Described /\ sent \in 0..MaxRows /\ pages \in 0..MaxPages /\ InHeader /\ phase = "header"
  BY DEF ResultInv, ReadHeader
<1>2. sent \in Nat /\ Len(cols) \in 0..MaxCols
  BY <1>1, BoundsAssumption DEF Described
<1>3. PICK id \in {PackInt(1), PackNil}, has \in BOOLEAN, more \in BOOLEAN, applied \in BOOLEAN, affected \in Int :
         /\ Starts(message, Header(id, has, more, applied, affected, Len(cols)), Body)
         /\ has <=> cols # <<>>
         /\ more => has
  BY <1>1, <1>2, HeaderAhead
<1>4. /\ Reads(message, HeaderForm \o <<IntCodes>>)
      /\ message[1].val \in Nat /\ message[2].val = has /\ message[3].val = more
      /\ message[4].val = applied /\ message[5].val = affected /\ message[6].val = Len(cols)
      /\ Drop(message, 6) = Body
  BY <1>3, HeaderIsRead
<1>5. /\ result' = [ResourceId |-> message[1].val, HasRowSet |-> has, HasMore |-> more,
                    wasApplied |-> applied, AffectedRows |-> affected]
      /\ left' = Len(cols) /\ message' = Body /\ phase' = "columns"
      /\ UNCHANGED <<api, cols, sent, meta, cells, row, pages>>
  BY <1>4 DEF ReadHeader
<1>6. result' \in Results /\ result'.HasRowSet = has /\ result'.HasMore = more
  BY <1>4, <1>5 DEF Results
<1>7. Described'
  BY <1>1, <1>5, SameColumns
<1>8. meta = <<>> /\ pages = 0 /\ cells = <<>> /\ (cols = <<>> => sent = 0)
  BY <1>1 DEF InHeader
<1>9. InColumns'
  <2>1. Len(meta) = 0 /\ Len(cols) - 0 = Len(cols)
    BY <1>2, <1>8
  <2>2. message' = Ahead(ColumnTokens(cols), Len(meta)) \o (IF cols = <<>> THEN <<>> ELSE PackRows(sent))
    BY <1>5, <2>1 DEF Body
  <2>3. ColumnTokens(cols)' = ColumnTokens(cols)
    BY <1>5 DEF ColumnTokens
  <2> QED
    BY <1>5, <1>8, <2>1, <2>2, <2>3 DEF InColumns
<1>10. left' \in 0..(MaxCols + MaxRows)
  BY <1>2, <1>5, BoundsAssumption
<1> QED
  BY <1>1, <1>3, <1>5, <1>6, <1>7, <1>9, <1>10 DEF ResultInv

\* A column is read, or it is unreadable.
LEMMA ColumnStep ==
    ASSUME ResultInv, api \in Readers, ReadColumn
    PROVE  ResultInv'
<1> DEFINE j == Len(meta) + 1
           Z == IF cols = <<>> THEN <<>> ELSE PackRows(sent)
           ct == ColumnTokens(cols)
           rest == Ahead(ct, j) \o Z
<1>1. /\ Described /\ sent \in 0..MaxRows /\ pages \in 0..MaxPages /\ result \in Results
      /\ left \in 0..(MaxCols + MaxRows)
      /\ result.HasRowSet <=> cols # <<>>
      /\ result.HasMore => result.HasRowSet
      /\ InColumns /\ phase = "columns" /\ left > 0
  BY DEF ResultInv, ReadColumn
<1>2. /\ cols \in Seq(Columns) /\ meta \in Seq(Columns) /\ Len(meta) \in Nat /\ Len(cols) \in Nat
      /\ Len(cols) <= MaxCols /\ sent \in Nat
      /\ \A i \in 1..Len(meta) : meta[i] = cols[i] /\ ~Unreadable(i)
  BY <1>1, BoundsAssumption DEF Described
<1>3. /\ cells = <<>> /\ pages = 0 /\ left = Len(cols) - Len(meta) /\ (cols = <<>> => sent = 0)
      /\ message = Ahead(ct, Len(meta)) \o Z
  BY <1>1 DEF InColumns
<1>4. j \in 1..Len(cols) /\ Len(meta) \in 0..(Len(cols) - 1) /\ j \in 0..Len(cols)
  BY <1>1, <1>2, <1>3
<1>5. /\ ct \in Seq(Seq(Tokens)) /\ Len(ct) = Len(cols) /\ ct[j] = PackColumn(cols, j)
  BY <1>2, <1>4, ColumnTokensType
<1>6. Z \in Seq(Tokens)
  <2>1. <<>> \in Seq(Tokens)
    OBVIOUS
  <2> QED
    BY <1>2, <2>1, PackRowsIs
<1> HIDE DEF ct, Z
<1>7. Ahead(ct, Len(meta)) = PackColumn(cols, j) \o Ahead(ct, j) /\ Ahead(ct, j) \in Seq(Tokens)
  <2> DEFINE n == Len(ct)
  <2>1. (\A i \in 0..(n - 1) : Ahead(ct, i) = ct[i + 1] \o Ahead(ct, i + 1)) /\ \A i \in 0..n : Ahead(ct, i) \in Seq(Tokens)
    BY <1>5, AheadSteps
  <2> QED
    BY <1>4, <1>5, <2>1
<1>8. PackColumn(cols, j) \in Seq(Tokens)
  BY <1>2, <1>4, ColumnParts
<1> HIDE DEF j
<1>9. rest \in Seq(Tokens) /\ message = PackColumn(cols, j) \o rest
  BY <1>3, <1>6, <1>7, <1>8, TokensAssociate, PeelTokens
<1>10. Starts(message, PackColumn(cols, j), rest)
  BY <1>8, <1>9 DEF Starts
<1> HIDE DEF rest
<1>11. ColumnAhead(message, cols, j, rest)
  BY <1>2, <1>4, <1>10, ColumnIsAhead
<1>12. j = Len(meta) + 1
  BY DEF j
<1>13. /\ ColumnReads <=> ~Unreadable(j)
       /\ ColumnReads => ColumnRead = cols[j]
       /\ Drop(message, IF message[7].val THEN 10 ELSE 7) = rest
  BY <1>1, <1>4, <1>11, <1>12, ColumnIsRead
<1>14. CASE ColumnReads
  <2>1. /\ meta' = Append(meta, ColumnRead)
        /\ message' = Drop(message, IF message[7].val THEN 10 ELSE 7)
        /\ left' = left - 1
        /\ UNCHANGED <<api, cols, sent, phase, result, cells, row, pages>>
    BY <1>14 DEF ReadColumn, ColumnRead
  <2>2. meta' = Append(meta, cols[j]) /\ message' = rest /\ ~Unreadable(j) /\ cols[j] \in Columns
    BY <1>2, <1>4, <1>13, <1>14, <2>1
  <2>3. meta' \in Seq(Columns) /\ Len(meta') = j /\ (\A i \in 1..Len(meta) : meta'[i] = meta[i]) /\ meta'[j] = cols[j]
    BY <1>2, <1>12, <2>2, AppendProperties
  <2>4. \A i : Unreadable(i)' <=> Unreadable(i)
    BY <2>1 DEF Unreadable, Namesakes
  <2>5. \A i \in 1..j : meta'[i] = cols[i] /\ ~Unreadable(i)
    <3>1. \A i \in 1..j : i = j \/ i \in 1..Len(meta)
      BY <1>2, <1>12
    <3> QED
      BY <1>2, <2>2, <2>3, <3>1
  <2>6. Described'
    BY <1>2, <1>4, <2>1, <2>3, <2>4, <2>5 DEF Described
  <2>7. left' = Len(cols) - j /\ left' \in 0..(MaxCols + MaxRows)
    BY <1>1, <1>2, <1>3, <1>4, <1>12, <2>1, BoundsAssumption
  <2>8. InColumns'
    <3>1. ColumnTokens(cols)' = ct
      BY <2>1 DEF ColumnTokens, ct
    <3> QED
      BY <1>3, <2>1, <2>2, <2>3, <2>7, <3>1 DEF InColumns, rest, Z
  <2> QED
    BY <1>1, <2>1, <2>6, <2>7, <2>8 DEF ResultInv
<1>15. CASE ~ColumnReads
  <2>1. phase' = "failed" /\ UNCHANGED <<api, cols, sent, message, result, meta, left, cells, row, pages>>
    BY <1>15 DEF ReadColumn, Stop
  <2>2. Described' /\ \A i : Unreadable(i)' <=> Unreadable(i)
    BY <1>1, <2>1, SameColumns
  <2>3. Failed'
    BY <1>4, <1>13, <1>15, <2>1, <2>2 DEF Failed
  <2> QED
    BY <1>1, <2>1, <2>2, <2>3 DEF ResultInv
<1> QED
  BY <1>14, <1>15

\* The ends of a page are tokens.
LEMMA PageEndsType == \A end \in PageEnds : end \in Seq(Tokens)
<1>1. Token("bool", TRUE) \in Tokens /\ Token("bool", FALSE) \in Tokens
  BY TokenType
<1>2. <<>> \in Seq(Tokens) /\ \A t \in Tokens : <<t>> \in Seq(Tokens)
  OBVIOUS
<1> QED
  BY <1>1, <1>2, Zenon DEF PageEnds

\* What is ahead of the reader where the rows are counted.
LEMMA CountAhead ==
    ASSUME ResultInv, api \in Readers, phase \in {"columns", "count"}, left = 0, cols # <<>>
    PROVE  /\ Len(meta) = Len(cols) /\ cells = <<>>
           /\ \E end \in PageEnds : /\ end = <<>> <=> pages = 0
                                    /\ Starts(message, <<PackInt(sent)>>, RowTokens(0, sent) \o end)
<1>1. Described /\ sent \in Nat
  BY BoundsAssumption DEF ResultInv
<1>2. cols \in Seq(Columns) /\ Len(cols) \in Nat /\ Len(meta) \in Nat
  BY <1>1 DEF Described
<1> DEFINE C == <<PackInt(sent)>>  W == RowTokens(0, sent)
<1>3. PackRows(sent) = C \o W /\ PackRows(sent) \in Seq(Tokens)
  BY <1>1, PackRowsIs
<1>4. C \in Seq(Tokens) /\ W \in Seq(Tokens)
  <2>1. sent \in Int /\ 0 \in 0..sent
    BY <1>1
  <2>2. PackInt(sent) \in Tokens
    BY <2>1, TokenType
  <2>3. C \in Seq(Tokens)
    BY <2>2
  <2>4. W \in Seq(Tokens)
    BY <1>1, <2>1, RowTokensType
  <2> QED
    BY <2>3, <2>4
<1> HIDE DEF C, W
<1>5. CASE phase = "columns"
  <2>1. /\ cells = <<>> /\ pages = 0 /\ left = Len(cols) - Len(meta)
        /\ message = Ahead(ColumnTokens(cols), Len(meta)) \o PackRows(sent)
    BY <1>5 DEF ResultInv, InColumns
  <2>2. Len(meta) = Len(cols)
    BY <1>2, <2>1
  <2>3. Ahead(ColumnTokens(cols), Len(cols)) = <<>>
    BY <1>2, ColumnTokensType, AheadSteps
  <2>4. message = PackRows(sent)
    BY <1>3, <2>1, <2>2, <2>3, ConcatEmptySeq
  <2>5. W \o <<>> = W
    BY <1>4, ConcatEmptySeq
  <2>6. Starts(message, C, W \o <<>>)
    BY <1>3, <1>4, <2>4, <2>5 DEF Starts
  <2>7. <<>> \in PageEnds
    BY DEF PageEnds
  <2> QED
    BY <2>1, <2>2, <2>6, <2>7 DEF C, W
<1>6. CASE phase = "count"
  <2>1. cells = <<>> /\ pages > 0 /\ Len(meta) = Len(cols) /\ pages \in Nat
    BY <1>6, BoundsAssumption DEF ResultInv, InCount
  <2>2. PICK more \in BOOLEAN : message = PackRows(sent) \o <<Token("bool", more)>>
    BY <1>6 DEF ResultInv, InCount
  <2> DEFINE end == <<Token("bool", more)>>
  <2>3. end \in PageEnds /\ end # <<>>
    BY DEF PageEnds
  <2>4. end \in Seq(Tokens) /\ message = (C \o W) \o end
    BY <1>3, <2>2, <2>3, PageEndsType
  <2> HIDE DEF end
  <2>5. W \o end \in Seq(Tokens) /\ message = C \o (W \o end)
    BY <1>4, <2>4, TokensAssociate, PeelTokens
  <2>6. Starts(message, C, W \o end)
    BY <1>4, <2>5 DEF Starts
  <2>7. end = <<>> <=> pages = 0
    BY <2>1, <2>3
  <2> QED
    BY <2>1, <2>3, <2>6, <2>7 DEF C, W
<1> QED
  BY <1>5, <1>6

\* The rows are counted.
LEMMA RowCountStep ==
    ASSUME ResultInv, api \in Readers, ReadRowCount
    PROVE  ResultInv'
<1>1. /\ Described /\ sent \in 0..MaxRows /\ pages \in 0..MaxPages /\ result \in Results
      /\ left \in 0..(MaxCols + MaxRows)
      /\ phase # "header" => (result.HasRowSet <=> cols # <<>>)
      /\ result.HasMore => result.HasRowSet
  BY DEF ResultInv
<1>2. left = 0 /\ phase \in {"columns", "count"} /\ sent \in Nat
  BY <1>1, BoundsAssumption DEF ReadRowCount
<1>3. CASE cols = <<>>
  <2>1. phase = "columns" /\ InColumns
    BY <1>2, <1>3 DEF ResultInv, InCount
  <2>2. phase' = "done" /\ UNCHANGED <<api, cols, sent, message, result, meta, left, cells, row, pages>>
    BY <1>1, <1>3, <2>1 DEF ReadRowCount, Stop
  <2>3. cells = <<>> /\ sent = 0 /\ message = Ahead(ColumnTokens(cols), Len(meta)) \o <<>>
    BY <1>3, <2>1 DEF InColumns
  <2>4. Len(meta) = 0 /\ Len(cols) = 0 /\ cols \in Seq(Columns)
    BY <1>1, <1>3 DEF Described
  <2>5. Ahead(ColumnTokens(cols), Len(meta)) = <<>>
    <3>1. Len(ColumnTokens(cols)) = 0 /\ ColumnTokens(cols) \in Seq(Seq(Tokens))
      BY <2>4, ColumnTokensType
    <3> QED
      BY <2>4, <3>1, AheadSteps
  <2>6. message = <<>>
    BY <2>3, <2>5, ConcatEmptySeq
  <2>7. Described'
    BY <1>1, <2>2, SameColumns
  <2>8. AtEnd'
    BY <1>2, <2>2, <2>3, <2>4, <2>6 DEF AtEnd, RowRead
  <2> QED
    BY <1>1, <2>1, <2>2, <2>7, <2>8 DEF ResultInv
<1>4. CASE cols # <<>>
  <2>1. /\ Len(meta) = Len(cols) /\ cells = <<>>
        /\ \E end \in PageEnds : /\ end = <<>> <=> pages = 0
                                 /\ Starts(message, <<PackInt(sent)>>, RowTokens(0, sent) \o end)
    BY <1>2, <1>4, CountAhead
  <2>2. PICK end \in PageEnds : /\ end = <<>> <=> pages = 0
                                /\ Starts(message, <<PackInt(sent)>>, RowTokens(0, sent) \o end)
    BY <2>1
  <2>3. message[1] = PackInt(sent) /\ Drop(message, 1) = RowTokens(0, sent) \o end
        /\ \A codes : PackInt(sent).code \in codes <=> Reads(message, <<codes>>)
    BY <2>2, OneAhead
  <2>4. Reads(message, <<IntCodes>>) /\ message[1].val = sent
    BY <2>3, TokenFields
  <2>5. /\ left' = sent /\ message' = RowTokens(0, sent) \o end /\ phase' = "rows"
        /\ UNCHANGED <<api, cols, sent, result, meta, cells, row, pages>>
    BY <1>1, <1>2, <1>4, <2>3, <2>4 DEF ReadRowCount
  <2>6. sent - sent = 0 /\ ~(sent < sent) /\ sent \in 0..sent /\ sent \in 0..(MaxCols + MaxRows)
    BY <1>1, <1>2, BoundsAssumption
  <2>7. InRows'
    BY <1>4, <2>1, <2>2, <2>5, <2>6 DEF InRows, RowRead
  <2>8. Described'
    BY <1>1, <2>5, SameColumns
  <2> QED
    BY <1>1, <1>2, <2>5, <2>6, <2>7, <2>8 DEF ResultInv
<1> QED
  BY <1>3, <1>4

\* How a column ends the reading of a row, in terms of the columns described.
LEMMA EndsMeans ==
    ASSUME Described, Len(meta) = Len(cols), NEW r \in Rows, NEW j \in 1..Len(cols)
    PROVE  /\ Ends(r, j) \in {"no", "failed", "panicked"}
           /\ Ends(r, j) = "failed" => r[j] = "refused"
           /\ Ends(r, j) = "panicked" => \/ api # "newRows" /\ cols[j].Origin = NoOrigin
                                         \/ r[j] = "short"
                                         \/ r[j] = "null" /\ cols[j].Type \in Structs
           /\ Ends(r, j) = "no" => /\ r[j] # "refused" /\ r[j] # "short"
                                   /\ ~(api # "newRows" /\ cols[j].Origin = NoOrigin)
                                   /\ ~(r[j] = "null" /\ cols[j].Type \in Structs)
<1>1. meta[j] = cols[j]
  BY DEF Described
<1> QED
  BY <1>1 DEF Ends

\* A row has a cell for each column.
LEMMA RowShape ==
    ASSUME NEW r \in Rows, Len(cols) \in Nat
    PROVE  r \in [1..Len(cols) -> {"value", "null", "refused", "short"}] /\ Len(r) = Len(cols)
<1>1. r \in [1..Len(cols) -> {"value", "null", "refused", "short"}]
  BY DEF Rows
<1> QED
  BY <1>1

\* What is ahead of the reader of the rows.
LEMMA RowsAhead ==
    ASSUME ResultInv, api \in Readers, phase = "rows"
    PROVE  \E end \in PageEnds :
              /\ end = <<>> <=> pages = 0
              /\ left = 0 => message = end
              /\ left > 0 => Starts(message, <<Token("bin", sent - left + 1)>>, RowTokens(sent - left + 1, sent) \o end)
<1>1. sent \in Nat /\ InRows
  BY BoundsAssumption DEF ResultInv
<1>2. left \in 0..sent
  BY <1>1 DEF InRows
<1>3. PICK end \in PageEnds : /\ end = <<>> <=> pages = 0
                              /\ message = RowTokens(sent - left, sent) \o end
  BY <1>1 DEF InRows
<1>4. end \in Seq(Tokens)
  BY PageEndsType
<1> DEFINE k == sent - left
<1>5. k \in 0..sent /\ k \in Int /\ k + 1 \in Int
  BY <1>1, <1>2
<1>6. left = 0 => message = end
  <2> SUFFICES ASSUME left = 0 PROVE message = end
    OBVIOUS
  <2>1. k = sent
    BY <1>1, <1>2
  <2>2. RowTokens(k, sent) = <<>>
    BY <1>1, <1>5, <2>1, RowTokensType
  <2> QED
    BY <1>3, <1>4, <2>2, ConcatEmptySeq
<1>7. left > 0 => Starts(message, <<Token("bin", sent - left + 1)>>, RowTokens(sent - left + 1, sent) \o end)
  <2> SUFFICES ASSUME left > 0 PROVE Starts(message, <<Token("bin", k + 1)>>, RowTokens(k + 1, sent) \o end)
    OBVIOUS
  <2>1. k < sent /\ k + 1 \in 0..sent
    BY <1>1, <1>2
  <2> DEFINE T == <<Token("bin", k + 1)>>  W == RowTokens(k + 1, sent)
  <2>2. RowTokens(k, sent) = T \o W
    BY <1>1, <1>5, <2>1, RowTokensType
  <2>3. W \in Seq(Tokens)
    BY <1>1, <2>1, RowTokensType
  <2>4. Token("bin", k + 1) \in Tokens
    BY <1>5, TokenType
  <2>5. T \in Seq(Tokens)
    BY <2>4
  <2>6. message = (T \o W) \o end
    BY <1>3, <2>2
  <2> HIDE DEF T, W, k
  <2>7. message = T \o (W \o end) /\ W \o end \in Seq(Tokens)
    BY <1>4, <2>3, <2>5, <2>6, TokensAssociate, PeelTokens
  <2>8. Starts(message, T, W \o end)
    BY <2>5, <2>7 DEF Starts
  <2> QED
    BY <2>8 DEF T, W
<1> QED
  BY <1>3, <1>6, <1>7

\* A row is read, or it ends the reading.
LEMMA RowStep ==
    ASSUME ResultInv, api \in Readers, NEW r \in Rows, ReadRow(r)
    PROVE  ResultInv'
<1> DEFINE ending == {j \in 1..Len(meta) : Ends(r, j) # "no"}
<1>1. /\ Described /\ sent \in 0..MaxRows /\ pages \in 0..MaxPages /\ result \in Results
      /\ left \in 0..(MaxCols + MaxRows)
      /\ result.HasRowSet <=> cols # <<>>
      /\ result.HasMore => result.HasRowSet
      /\ phase = "rows" /\ left > 0 /\ InRows
  BY DEF ResultInv, ReadRow
<1>2. /\ sent \in Nat /\ left \in 0..sent /\ cols # <<>> /\ Len(meta) = Len(cols) /\ Len(cols) \in Nat
  BY <1>1, BoundsAssumption DEF InRows, Described
<1>3. PICK end \in PageEnds :
         /\ end = <<>> <=> pages = 0
         /\ Starts(message, <<Token("bin", sent - left + 1)>>, RowTokens(sent - left + 1, sent) \o end)
  BY <1>1, RowsAhead
<1>4. /\ Tail(message) = RowTokens(sent - left + 1, sent) \o end
      /\ \A codes : Token("bin", sent - left + 1).code \in codes <=> Reads(message, <<codes>>)
  <2> DEFINE t == Token("bin", sent - left + 1)  W == RowTokens(sent - left + 1, sent) \o end
  <2>1. Starts(message, <<t>>, W)
    BY <1>3
  <2> HIDE DEF t, W
  <2>2. \A codes : t.code \in codes <=> Reads(message, <<codes>>)
    BY <2>1, OneAhead
  <2>3. Tail(message) = W
    <3>1. message \in Seq(Tokens) /\ message # <<>> /\ Drop(message, 1) = W
      BY <2>1, OneAhead
    <3>2. 1 + 1 = 2
      OBVIOUS
    <3> QED
      BY <3>1, <3>2, TailIsSubSeq DEF Drop
  <2> QED
    BY <2>2, <2>3 DEF t, W
<1>5. Reads(message, <<{"bin"}>>)
  BY <1>4, TokenFields
<1>6. /\ cells' = r /\ message' = RowTokens(sent - left + 1, sent) \o end
      /\ ending = {} => row' = RowOf(r) /\ left' = left - 1 /\ phase' = phase
      /\ ending # {} => phase' = Ends(r, Min(ending)) /\ UNCHANGED <<row, left>>
      /\ UNCHANGED <<api, cols, sent, result, meta, pages>>
  BY <1>4, <1>5 DEF ReadRow
<1>7. /\ Described'
      /\ \A i : Unreadable(i)' <=> Unreadable(i)
      /\ Rows' = Rows
      /\ \A s, j : Ends(s, j)' = Ends(s, j)
      /\ \A s : RowOf(s)' = RowOf(s)
  BY <1>1, <1>6, SameColumns
<1>8. CASE ending = {}
  <2>1. \A j \in 1..Len(cols) : Ends(r, j) = "no"
    BY <1>2, <1>8
  <2>2. row' = RowOf(r) /\ left' = left - 1 /\ phase' = "rows"
    BY <1>1, <1>6, <1>8
  <2>3. left' < sent' /\ left' \in 0..sent' /\ left' \in 0..(MaxCols + MaxRows) /\ sent' - left' = sent - left + 1
    BY <1>1, <1>2, <1>6, <2>2, BoundsAssumption
  <2>4. cells' \in Rows' /\ row' = RowOf(cells)' /\ \A j \in 1..Len(cols)' : Ends(cells, j)' = "no"
    <3>1. RowOf(cells)' = RowOf(r)
      BY <1>6, <1>7 DEF RowOf, Key
    <3>2. \A j : Ends(cells, j)' = Ends(r, j)
      BY <1>6 DEF Ends
    <3> QED
      BY <1>6, <1>7, <2>1, <2>2, <3>1, <3>2
  <2>5. RowRead(left < sent)'
    BY <2>3, <2>4 DEF RowRead
  <2>6. InRows'
    BY <1>2, <1>3, <1>6, <2>3, <2>5 DEF InRows
  <2> QED
    BY <1>1, <1>6, <1>7, <2>2, <2>3, <2>6 DEF ResultInv
<1>9. CASE ending # {}
  <2>1. PICK j \in ending : j = Min(ending)
    <3>1. ending \subseteq Nat
      BY <1>2
    <3> QED
      BY <1>9, <3>1, MinIsLeast
  <2>2. j \in 1..Len(cols) /\ Ends(r, j) # "no" /\ phase' = Ends(r, j) /\ UNCHANGED left
    BY <1>2, <1>6, <1>9, <2>1
  <2> HIDE DEF ending
  <2>3. CASE Ends(r, j) = "failed"
    <3>1. r[j] = "refused"
      BY <1>1, <1>2, <2>2, <2>3, EndsMeans
    <3>2. Failed'
      BY <1>6, <1>7, <2>2, <3>1 DEF Failed
    <3> QED
      BY <1>1, <1>6, <1>7, <2>2, <2>3, <3>2 DEF ResultInv
  <2>4. CASE Ends(r, j) = "panicked"
    <3>1. Ends(cells, j)' = "panicked"
      BY <1>6, <2>4 DEF Ends
    <3>2. Panicked'
      BY <1>2, <1>6, <1>7, <2>2, <3>1 DEF Panicked
    <3> QED
      BY <1>1, <1>6, <1>7, <2>2, <2>4, <3>2 DEF ResultInv
  <2> QED
    BY <1>1, <1>2, <2>2, <2>3, <2>4, EndsMeans
<1> QED
  BY <1>8, <1>9

\* The rows end, and a page after the first says whether another follows.
LEMMA EndOfRowsStep ==
    ASSUME ResultInv, api \in Readers, EndOfRows
    PROVE  ResultInv'
<1>1. /\ Described /\ sent \in 0..MaxRows /\ pages \in 0..MaxPages /\ result \in Results
      /\ left \in 0..(MaxCols + MaxRows)
      /\ result.HasRowSet <=> cols # <<>>
      /\ result.HasMore => result.HasRowSet
      /\ phase = "rows" /\ left = 0 /\ InRows
  BY DEF ResultInv, EndOfRows
<1>2. /\ sent \in Nat /\ cols # <<>> /\ Len(meta) = Len(cols) /\ RowRead(0 < sent)
  BY <1>1, BoundsAssumption DEF InRows
<1>3. PICK end \in PageEnds : (end = <<>> <=> pages = 0) /\ message = end
  BY <1>1, RowsAhead
<1>4. ASSUME UNCHANGED <<api, cols, sent, meta, cells, row, left>>, message' = <<>>
      PROVE  Described' /\ AtEnd'
  <2>1. Described'
    BY <1>1, <1>4, SameColumns
  <2>2. RowRead(sent > 0)' = RowRead(0 < sent)
    <3>1. (sent > 0)' = (0 < sent)
      BY <1>2, <1>4
    <3> QED
      BY <1>4, <3>1 DEF RowRead, Rows, RowOf, Ends, Key
  <2> QED
    BY <1>1, <1>2, <1>4, <2>1, <2>2 DEF AtEnd
<1>5. CASE pages = 0
  <2>1. phase' = "done" /\ UNCHANGED <<api, cols, sent, message, result, meta, left, cells, row, pages>>
    BY <1>5 DEF EndOfRows, Stop
  <2>2. Described' /\ AtEnd'
    BY <1>3, <1>4, <1>5, <2>1
  <2> QED
    BY <1>1, <2>1, <2>2 DEF ResultInv
<1>6. CASE pages # 0
  <2>1. PICK more \in BOOLEAN : message = <<Token("bool", more)>>
    BY <1>3, <1>6 DEF PageEnds
  <2>2. Reads(message, <<{"bool"}>>) /\ message[1].val = more /\ Tail(message) = <<>>
    BY <2>1, TokenFields DEF Reads
  <2>3. /\ result' = [result EXCEPT !.HasMore = more] /\ message' = <<>> /\ phase' = "done"
        /\ UNCHANGED <<api, cols, sent, meta, left, cells, row, pages>>
    BY <1>6, <2>2 DEF EndOfRows
  <2>4. result' \in Results /\ result'.HasRowSet = result.HasRowSet
    BY <1>1, <2>3 DEF Results
  <2>5. Described' /\ AtEnd'
    BY <1>4, <2>3
  <2> QED
    BY <1>1, <1>2, <2>3, <2>4, <2>5 DEF ResultInv
<1> QED
  BY <1>5, <1>6

\* Another page is asked for.
LEMMA PageStep ==
    ASSUME ResultInv, api \in Readers, NEW n \in 1..MaxRows, NEW more \in BOOLEAN,
           QuerySQLCursorGetPage(n, more)
    PROVE  ResultInv'
<1>1. /\ Described /\ sent \in 0..MaxRows /\ pages \in 0..MaxPages /\ result \in Results
      /\ left \in 0..(MaxCols + MaxRows)
      /\ result.HasRowSet <=> cols # <<>>
      /\ result.HasMore => result.HasRowSet
      /\ phase = "done" /\ AtEnd /\ result.HasMore /\ pages < MaxPages
  BY DEF ResultInv, QuerySQLCursorGetPage
<1>2. /\ pages' = pages + 1 /\ sent' = n /\ message' = PackRows(n) \o <<Token("bool", more)>>
      /\ phase' = "count" /\ cells' = <<>>
      /\ UNCHANGED <<api, cols, result, meta, left>>
  BY DEF QuerySQLCursorGetPage
<1>3. Described'
  BY <1>1, <1>2, SameColumns
<1>4. pages' > 0 /\ pages' \in 0..MaxPages /\ sent' \in 0..MaxRows
  BY <1>1, <1>2, BoundsAssumption
<1>5. PackRows(sent)' = PackRows(n)
  BY <1>2 DEF PackRows
<1>6. InCount'
  BY <1>1, <1>2, <1>4, <1>5 DEF InCount, AtEnd
<1> QED
  BY <1>1, <1>2, <1>3, <1>4, <1>6 DEF ResultInv

\* A response to a statement is read from its header.
LEMMA ResultStart == Init => ResultInv
<1> SUFFICES ASSUME Init PROVE ResultInv
  OBVIOUS
<1>1. cols \in Seq(Columns) /\ Len(cols) <= MaxCols
  <2>1. \A m \in 0..MaxCols : \A s \in [1..m -> Columns] : s \in Seq(Columns) /\ Len(s) <= MaxCols
    BY BoundsAssumption
  <2>2. \A s \in BoundedSeq(Columns, MaxCols) : s \in Seq(Columns) /\ Len(s) <= MaxCols
    BY <2>1 DEF BoundedSeq, SeqOf
  <2>3. <<>> \in Seq(Columns) /\ Len(<<>>) <= MaxCols
    BY BoundsAssumption
  <2> QED
    BY <2>2, <2>3 DEF Init
<1>2. /\ meta = <<>> /\ cells = <<>> /\ left = 0 /\ pages = 0 /\ phase = "header" /\ result = NoHeader
  BY DEF Init
<1>3. meta \in Seq(Columns) /\ Len(meta) = 0
  BY <1>2
<1>4. Described
  BY <1>1, <1>3 DEF Described
<1>5. sent \in 0..MaxRows
  <2>1. sent \in 0..MaxRows \/ sent = 0
    BY Zenon DEF Init
  <2> QED
    BY <2>1, BoundsAssumption
<1>6. result \in Results /\ ~result.HasMore
  BY <1>2 DEF NoHeader, Results
<1>7. InHeader
  <2>1. CASE cols # <<>>
    <3>1. PICK more \in {FALSE, sent > 0} : message = PackResult(cols, sent, more)
      BY <2>1 DEF Init
    <3>2. more \in BOOLEAN
      <4>1. (sent > 0) \in BOOLEAN
        OBVIOUS
      <4> QED
        BY <4>1, Zenon
    <3> QED
      BY <1>2, <2>1, <3>1, <3>2 DEF InHeader
  <2>2. CASE cols = <<>>
    <3>1. sent = 0 /\ \E affected \in 0..2 : message = PackUpdate(affected)
      BY <2>2 DEF Init
    <3>2. 0..2 \subseteq Int
      OBVIOUS
    <3> QED
      BY <1>2, <2>2, <3>1, <3>2 DEF InHeader
  <2> QED
    BY <2>1, <2>2
<1>8. left \in 0..(MaxCols + MaxRows) /\ pages \in 0..MaxPages
  BY <1>2, BoundsAssumption
<1> QED
  BY <1>2, <1>4, <1>5, <1>6, <1>7, <1>8 DEF ResultInv

-----------------------------------------------------------------------------
(* The schema of a table                                                   *)

TableCols == [Name : STRING, Nullable : BOOLEAN, Type : Nat, Scale : Int, Precision : Int,
              KeyIndex : Nat \cup {-1}]

\* The tokens of a table's column: eight, and what a newer server adds.
TableHead(c, extra) ==
    <<PackInt(7 + extra), Token("str", c.Name), PackInt(c.Type), PackInt(c.KeyIndex),
      Token("bool", c.Nullable), PackInt(c.KeyIndex), PackInt(c.Scale), PackInt(c.Precision)>>
Added(extra) == [k \in 1..extra |-> PackNil]
TableTokens(t, extra) == [i \in 1..Len(t) |-> PackTableColumn(t[i], extra)]

\* They are tokens.
LEMMA TableParts ==
    ASSUME NEW c \in TableCols, NEW extra \in 0..1
    PROVE  /\ TableHead(c, extra) \in Seq(Tokens) /\ Len(TableHead(c, extra)) = 8
           /\ Added(extra) \in Seq(Tokens) /\ Len(Added(extra)) = extra
           /\ PackTableColumn(c, extra) = TableHead(c, extra) \o Added(extra)
           /\ PackTableColumn(c, extra) \in Seq(Tokens)
<1>1. /\ c.Name \in STRING /\ c.Nullable \in BOOLEAN /\ c.Type \in Int /\ c.Scale \in Int
      /\ c.Precision \in Int /\ c.KeyIndex \in Int /\ 7 + extra \in Int
  BY DEF TableCols
<1>2. /\ Token("str", c.Name) \in Tokens /\ Token("bool", c.Nullable) \in Tokens /\ PackInt(c.Type) \in Tokens
      /\ PackInt(c.Scale) \in Tokens /\ PackInt(c.Precision) \in Tokens /\ PackInt(c.KeyIndex) \in Tokens
      /\ PackInt(7 + extra) \in Tokens /\ PackNil \in Tokens
  BY <1>1, TokenType
<1>3. TableHead(c, extra) \in Seq(Tokens)
  BY <1>2 DEF TableHead
<1>4. Len(TableHead(c, extra)) = 8
  BY DEF TableHead
<1>5. Added(extra) \in Seq(Tokens) /\ Len(Added(extra)) = extra
  BY <1>2 DEF Added
<1>6. PackTableColumn(c, extra) = TableHead(c, extra) \o Added(extra)
  BY DEF PackTableColumn, TableHead, Added
<1>7. PackTableColumn(c, extra) \in Seq(Tokens)
  BY <1>3, <1>5, <1>6, PeelTokens
<1> QED
  BY <1>3, <1>4, <1>5, <1>6, <1>7

\* The column of a table that is read from a message.
TableColumnRead(m) == [Name |-> m[2].val, Type |-> m[3].val, KeyIndex |-> m[4].val, Nullable |-> m[5].val,
                       Scale |-> m[7].val, Precision |-> m[8].val]

\* A column is read as it was sent, and what was added to it is skipped.
LEMMA TableColumnIsRead ==
    ASSUME NEW c \in TableCols, NEW extra \in 0..1, NEW m, NEW rest,
           Starts(m, PackTableColumn(c, extra), rest)
    PROVE  /\ Reads(m, TableColumnForm)
           /\ Len(m) >= 8 + Skipped(m[1].val)
           /\ TableColumnRead(m) = c
           /\ Drop(m, 8 + Skipped(m[1].val)) = rest
<1> DEFINE p == PackTableColumn(c, extra)  h == TableHead(c, extra)  a == Added(extra)
<1>1. h \in Seq(Tokens) /\ a \in Seq(Tokens) /\ p = h \o a
  BY TableParts
<1>2. Len(h) = 8 /\ Len(a) = extra
  BY TableParts
<1>3. /\ h[1] = PackInt(7 + extra) /\ h[2] = Token("str", c.Name) /\ h[3] = PackInt(c.Type)
      /\ h[4] = PackInt(c.KeyIndex) /\ h[5] = Token("bool", c.Nullable) /\ h[6] = PackInt(c.KeyIndex)
      /\ h[7] = PackInt(c.Scale) /\ h[8] = PackInt(c.Precision)
  BY DEF TableHead
<1>4. Starts(m, p, rest)
  OBVIOUS
<1> HIDE DEF p, h, a
<1>5. Starts(p, h, a)
  BY <1>1 DEF Starts
<1>6. /\ Len(p) = Len(h) + Len(a)
      /\ \A i \in 1..Len(h) : p[i] = h[i]
  BY <1>5, StartsMeans
<1>7. /\ Len(m) = Len(p) + Len(rest) /\ Len(rest) \in Nat
      /\ \A i \in 1..Len(p) : m[i] = p[i]
      /\ Drop(m, Len(p)) = rest
  BY <1>4, StartsMeans
<1>8. Len(p) = 8 + extra
  BY <1>2, <1>6
<1>9. Len(m) >= 8 + extra /\ Drop(m, 8 + extra) = rest /\ \A i \in 1..8 : m[i] = h[i]
  BY <1>2, <1>6, <1>7, <1>8
<1>10. /\ m[1] = PackInt(7 + extra) /\ m[2] = Token("str", c.Name) /\ m[3] = PackInt(c.Type)
       /\ m[4] = PackInt(c.KeyIndex) /\ m[5] = Token("bool", c.Nullable) /\ m[6] = PackInt(c.KeyIndex)
       /\ m[7] = PackInt(c.Scale) /\ m[8] = PackInt(c.Precision)
  BY <1>3, <1>9
<1>11. /\ m[1].code \in IntCodes /\ m[2].code = "str" /\ m[3].code \in IntCodes /\ m[4].code \in IntCodes
       /\ m[5].code = "bool" /\ m[6].code \in IntCodes /\ m[7].code \in IntCodes /\ m[8].code \in IntCodes
       /\ m[1].val = 7 + extra
  BY <1>10, TokenFields
<1>12. /\ m[2].val = c.Name /\ m[3].val = c.Type /\ m[4].val = c.KeyIndex /\ m[5].val = c.Nullable
       /\ m[7].val = c.Scale /\ m[8].val = c.Precision
  BY <1>10, TokenFields
<1>13. Skipped(m[1].val) = extra
  BY <1>11 DEF Skipped
<1>14. Reads(m, TableColumnForm)
  <2> DEFINE form == TableColumnForm
  <2>1. Len(form) = 8
    BY DEF TableColumnForm
  <2>2. /\ form[1] = IntCodes /\ form[2] = {"str"} /\ form[3] = IntCodes /\ form[4] = IntCodes
        /\ form[5] = {"bool"} /\ form[6] = IntCodes /\ form[7] = IntCodes /\ form[8] = IntCodes
    BY DEF TableColumnForm
  <2> HIDE DEF form
  <2>3. \A k \in 1..8 : m[k].code \in form[k]
    <3>1. \A k \in 1..8 : k \in {1, 2, 3, 4, 5, 6, 7, 8}
      OBVIOUS
    <3> QED
      BY <1>11, <2>2, <3>1
  <2>4. Len(m) >= 8
    BY <1>9
  <2> QED
    BY <2>1, <2>3, <2>4 DEF Reads, form
<1>15. TableColumnRead(m) = c
  <2>1. c = [Name |-> c.Name, Type |-> c.Type, KeyIndex |-> c.KeyIndex, Nullable |-> c.Nullable,
             Scale |-> c.Scale, Precision |-> c.Precision]
    BY DEF TableCols
  <2> QED
    BY <1>12, <2>1 DEF TableColumnRead
<1> QED
  BY <1>9, <1>13, <1>14, <1>15

\* The tokens of a table's columns are parts of a message.
LEMMA TableTokensType ==
    ASSUME NEW t \in Seq(TableCols), NEW extra \in 0..1
    PROVE  /\ TableTokens(t, extra) \in Seq(Seq(Tokens)) /\ Len(TableTokens(t, extra)) = Len(t)
           /\ \A i \in 1..Len(t) : TableTokens(t, extra)[i] = PackTableColumn(t[i], extra)
<1>1. \A i \in 1..Len(t) : PackTableColumn(t[i], extra) \in Seq(Tokens)
  <2>1. \A i \in 1..Len(t) : t[i] \in TableCols
    OBVIOUS
  <2> QED
    BY <2>1, TableParts, Zenon
<1>2. Len(t) \in Nat
  OBVIOUS
<1> QED
  BY <1>1, <1>2 DEF TableTokens

\* A schema: the version, the number of columns, and the columns.
LEMMA SchemaParts ==
    ASSUME NEW v \in Int, NEW t \in Seq(TableCols), NEW extra \in 0..1
    PROVE  /\ PackSchema(v, t, extra) \in Seq(Tokens)
           /\ Ahead(TableTokens(t, extra), 0) \in Seq(Tokens)
           /\ <<PackInt(v), PackInt(Len(t))>> \in Seq(Tokens)
           /\ PackSchema(v, t, extra) = <<PackInt(v), PackInt(Len(t))>> \o Ahead(TableTokens(t, extra), 0)
<1> DEFINE T == TableTokens(t, extra)  A == Ahead(T, 0)  h == <<PackInt(v), PackInt(Len(t))>>
<1>1. T \in Seq(Seq(Tokens)) /\ Len(T) = Len(t)
  BY TableTokensType
<1> HIDE DEF T
<1>2. A = FlattenSeq(T) /\ A \in Seq(Tokens)
  <2>1. 0 \in 0..Len(T)
    BY <1>1
  <2> QED
    BY <1>1, <2>1, AheadSteps
<1>3. h \in Seq(Tokens)
  <2>1. Len(t) \in Int
    OBVIOUS
  <2>2. PackInt(v) \in Tokens /\ PackInt(Len(t)) \in Tokens
    BY <2>1, TokenType
  <2> QED
    BY <2>2
<1>4. PackSchema(v, t, extra) = h \o A
  BY <1>2 DEF PackSchema, T, TableTokens
<1>5. PackSchema(v, t, extra) \in Seq(Tokens)
  <2> HIDE DEF h, A
  <2> QED
    BY <1>2, <1>3, <1>4, PeelTokens
<1> QED
  BY <1>2, <1>3, <1>4, <1>5 DEF T

\* Whatever its version.
LEMMA SchemaTokens == \A v \in 1..2 : \A t \in Seq(TableCols) : \A extra \in 0..1 : PackSchema(v, t, extra) \in Seq(Tokens)
<1>1. \A v \in 1..2 : v \in Int
  OBVIOUS
<1> QED
  BY <1>1, SchemaParts, Zenon

\* Two integers are at the front.
LEMMA TwoAhead ==
    ASSUME NEW m, NEW v, NEW n, NEW b, Starts(m, <<PackInt(v), PackInt(n)>>, b)
    PROVE  Reads(m, <<IntCodes, IntCodes>>) /\ m[2].val = n /\ Drop(m, 2) = b
<1> DEFINE h == <<PackInt(v), PackInt(n)>>
<1>1. Len(h) = 2 /\ h[1] = PackInt(v) /\ h[2] = PackInt(n)
  OBVIOUS
<1>2. Starts(m, h, b)
  OBVIOUS
<1> HIDE DEF h
<1>3. /\ Len(m) = Len(h) + Len(b) /\ Len(b) \in Nat
      /\ \A i \in 1..Len(h) : m[i] = h[i]
      /\ Drop(m, Len(h)) = b
  BY <1>2, StartsMeans
<1>4. Len(m) >= 2 /\ Drop(m, 2) = b /\ m[1] = PackInt(v) /\ m[2] = PackInt(n)
  BY <1>1, <1>3
<1>5. m[1].code \in IntCodes /\ m[2].code \in IntCodes /\ m[2].val = n
  BY <1>4, TokenFields
<1>6. Reads(m, <<IntCodes, IntCodes>>)
  <2> DEFINE form == <<IntCodes, IntCodes>>
  <2>1. Len(form) = 2 /\ form[1] = IntCodes /\ form[2] = IntCodes
    OBVIOUS
  <2> HIDE DEF form
  <2>2. Reads(m, form)
    BY <1>4, <1>5, <2>1 DEF Reads
  <2> QED
    BY <2>2 DEF form
<1> QED
  BY <1>4, <1>5, <1>6

\* The schema that is read while s more follow, the earlier one being without
\* the newest column, and what follows it.
SchemaAt(s) == IF s = 0 THEN cols ELSE Front(cols)
RestAt(s, extra) == IF s = 0 THEN <<>> ELSE PackSchema(2, cols, extra)

\* Where the reading of a schema is.
AtSchemas == /\ phase = "schemas" /\ meta = <<>> /\ left = 0
             /\ \/ cols = <<>> /\ message = PackNoSchema
                \/ cols \in Tables /\ \E n \in 1..2, extra \in 0..1 : message = PackSchemas(cols, n, extra)
AtSchema == /\ phase = "schema" /\ cols \in Tables /\ left = 0 /\ schemas \in 1..2
            /\ \E v \in 1..2, extra \in 0..1 :
                  message = PackSchema(v, SchemaAt(schemas - 1), extra) \o RestAt(schemas - 1, extra)
InProperties == /\ phase = "properties" /\ cols \in Tables /\ schemas \in 0..1
                /\ left = Len(SchemaAt(schemas)) - Len(meta)
                /\ \E extra \in 0..1 :
                      message = Ahead(TableTokens(SchemaAt(schemas), extra), Len(meta)) \o RestAt(schemas, extra)
AtTable == /\ phase \in {"done", "built"} /\ cols \in Tables
           /\ message = <<>> /\ left = 0 /\ Len(meta) = Len(cols)
NoTable == phase = "failed" /\ cols = <<>>

\* The columns that have been read are those of the table.
TableRead == /\ result = NoHeader /\ pages = 0 /\ sent = 0 /\ cells = <<>>
             /\ meta \in Seq(TableCols) /\ Len(meta) <= Len(cols)
             /\ \A i \in 1..Len(meta) : meta[i] = cols[i]
             /\ left \in 0..MaxCols

SchemaInv ==
    api = "GetTableSchema" => TableRead /\ (AtSchemas \/ AtSchema \/ InProperties \/ AtTable \/ NoTable)

\* The schemas of a table are those of its columns.
LEMMA SchemaShape ==
    ASSUME cols \in Tables
    PROVE  /\ cols \in Seq(TableCols) /\ Len(cols) \in 1..MaxCols /\ MaxCols \in Nat
           /\ \A s : /\ SchemaAt(s) \in Seq(TableCols)
                     /\ Len(SchemaAt(s)) = IF s = 0 THEN Len(cols) ELSE Len(cols) - 1
                     /\ \A i \in 1..Len(SchemaAt(s)) : SchemaAt(s)[i] = cols[i]
           /\ \A s : \A extra \in 0..1 : RestAt(s, extra) \in Seq(Tokens)
<1>1. cols \in Seq(TableCols) /\ Len(cols) \in 1..MaxCols /\ MaxCols \in Nat
  BY TablesAssumption, BoundsAssumption DEF TableCols
<1>2. /\ Front(cols) \in Seq(TableCols) /\ Len(Front(cols)) = Len(cols) - 1
      /\ \A i \in 1..Len(Front(cols)) : Front(cols)[i] = cols[i]
  <2> DEFINE n == Len(cols) - 1
  <2>1. n \in Nat /\ 1 \in Int /\ n \in Int /\ \A i \in 1..n : cols[i] \in TableCols
    BY <1>1
  <2> HIDE DEF n
  <2>2. /\ SubSeq(cols, 1, n) \in Seq(TableCols)
        /\ Len(SubSeq(cols, 1, n)) = IF 1 <= n THEN n - 1 + 1 ELSE 0
        /\ \A i \in 1..(n - 1 + 1) : SubSeq(cols, 1, n)[i] = cols[1 + i - 1]
    BY <2>1, SubSeqProperties
  <2>3. Len(SubSeq(cols, 1, n)) = n /\ \A i \in 1..n : SubSeq(cols, 1, n)[i] = cols[i]
    <3>1. n - 1 + 1 = n /\ \A i \in 1..n : 1 + i - 1 = i
      BY <2>1
    <3>2. n = IF 1 <= n THEN n ELSE 0
      BY <2>1
    <3> QED
      BY <2>2, <3>1, <3>2
  <2> QED
    BY <2>2, <2>3 DEF Front, n
<1>3. \A extra \in 0..1 : PackSchema(2, cols, extra) \in Seq(Tokens)
  <2>1. 2 \in 1..2
    OBVIOUS
  <2> QED
    BY <1>1, <2>1, SchemaTokens, Zenon
<1>4. <<>> \in Seq(Tokens)
  OBVIOUS
<1>5. \A s : /\ SchemaAt(s) \in Seq(TableCols)
             /\ Len(SchemaAt(s)) = IF s = 0 THEN Len(cols) ELSE Len(cols) - 1
             /\ \A i \in 1..Len(SchemaAt(s)) : SchemaAt(s)[i] = cols[i]
  BY <1>1, <1>2 DEF SchemaAt
<1>6. \A s : \A extra \in 0..1 : RestAt(s, extra) \in Seq(Tokens)
  BY <1>3, <1>4 DEF RestAt
<1> QED
  BY <1>1, <1>5, <1>6

\* The schemas are counted, or there is none.
LEMMA SchemasStep ==
    ASSUME SchemaInv, api = "GetTableSchema", ReadSchemas
    PROVE  SchemaInv'
<1>1. TableRead /\ AtSchemas
  BY DEF SchemaInv, ReadSchemas, AtSchema, InProperties, AtTable, NoTable
<1>2. left = 0 /\ meta = <<>>
  BY <1>1 DEF AtSchemas
<1>3. CASE cols = <<>> /\ message = PackNoSchema
  <2>1. message[1].val = 0
    BY <1>3, TokenFields DEF PackNoSchema
  <2>2. ~(message[1].val > 0)
    BY <2>1
  <2>3. phase' = "failed" /\ UNCHANGED <<api, cols, sent, message, result, meta, left, cells, row, pages>>
    BY <2>2 DEF ReadSchemas, Stop
  <2> QED
    BY <1>1, <1>3, <2>3 DEF SchemaInv, TableRead, NoTable
<1>4. CASE cols \in Tables /\ \E n \in 1..2, extra \in 0..1 : message = PackSchemas(cols, n, extra)
  <2>1. PICK n \in 1..2, extra \in 0..1 : message = PackSchemas(cols, n, extra)
    BY <1>4
  <2> DEFINE b == PackSchema(1, SchemaAt(n - 1), extra) \o RestAt(n - 1, extra)
             p == <<PackInt(n)>>
  <2>2. /\ PackSchema(1, cols, extra) \in Seq(Tokens) /\ PackSchema(2, cols, extra) \in Seq(Tokens)
        /\ PackSchema(1, Front(cols), extra) \in Seq(Tokens)
    <3>1. cols \in Seq(TableCols) /\ SchemaAt(1) \in Seq(TableCols)
      BY <1>4, SchemaShape
    <3>2. Front(cols) \in Seq(TableCols)
      BY <3>1 DEF SchemaAt
    <3>3. 1 \in 1..2 /\ 2 \in 1..2
      OBVIOUS
    <3> QED
      BY <3>1, <3>2, <3>3, SchemaTokens, Zenon
  <2>3. p \in Seq(Tokens)
    <3>1. PackInt(n) \in Tokens
      BY TokenType
    <3> QED
      BY <3>1
  <2> HIDE DEF p
  <2>4. message = p \o b /\ b \in Seq(Tokens)
    <3>1. CASE n = 1
      <4> DEFINE q == PackSchema(1, cols, extra)
      <4>1. message = (p \o <<>>) \o q
        BY <2>1, <3>1 DEF PackSchemas, p
      <4>2. p \o <<>> = p
        BY <2>3, ConcatEmptySeq
      <4>3. b = q \o <<>>
        BY <3>1 DEF SchemaAt, RestAt
      <4>4. q \o <<>> = q
        BY <2>2, ConcatEmptySeq
      <4> HIDE DEF q, b
      <4> QED
        BY <2>2, <4>1, <4>2, <4>3, <4>4 DEF q
    <3>2. CASE n = 2
      <4> DEFINE q == PackSchema(1, Front(cols), extra)  r == PackSchema(2, cols, extra)
      <4>1. message = (p \o q) \o r
        BY <2>1, <3>2 DEF PackSchemas, p
      <4>2. b = q \o r
        BY <3>2 DEF SchemaAt, RestAt
      <4>3. q \in Seq(Tokens) /\ r \in Seq(Tokens)
        BY <2>2
      <4> HIDE DEF q, r, b
      <4>4. (p \o q) \o r = p \o (q \o r) /\ q \o r \in Seq(Tokens)
        BY <2>3, <4>3, TokensAssociate, PeelTokens
      <4> QED
        BY <4>1, <4>2, <4>4
    <3> QED
      BY <3>1, <3>2
  <2> HIDE DEF b
  <2>5. Starts(message, <<PackInt(n)>>, b)
    BY <2>3, <2>4 DEF Starts, p
  <2>6. /\ message \in Seq(Tokens) /\ message # <<>> /\ message[1] = PackInt(n) /\ Drop(message, 1) = b
        /\ \A codes : PackInt(n).code \in codes <=> Reads(message, <<codes>>)
    BY <2>5, OneAhead
  <2>7. Tail(message) = b
    <3>1. 1 + 1 = 2
      OBVIOUS
    <3> QED
      BY <2>6, <3>1, TailIsSubSeq DEF Drop
  <2>8. Reads(message, <<IntCodes>>) /\ message[1].val = n
    BY <2>6, TokenFields
  <2>9. message[1].val > 0
    BY <2>8
  <2>10. /\ schemas' = n /\ message' = b /\ phase' = "schema"
         /\ UNCHANGED <<api, cols, sent, result, meta, left, cells, row, pages>>
    BY <2>7, <2>8, <2>9 DEF ReadSchemas
  <2>11. /\ PackSchema(1, SchemaAt(schemas - 1), extra)' = PackSchema(1, SchemaAt(n - 1), extra)
         /\ RestAt(schemas - 1, extra)' = RestAt(n - 1, extra)
    BY <2>10 DEF SchemaAt, RestAt
  <2>12. 1 \in 1..2
    OBVIOUS
  <2>13. AtSchema'
    BY <1>2, <1>4, <2>10, <2>11, <2>12 DEF AtSchema, b
  <2> QED
    BY <1>1, <2>10, <2>13 DEF SchemaInv, TableRead
<1> QED
  BY <1>1, <1>3, <1>4 DEF AtSchemas

\* The number of columns of the next schema is read.
LEMMA SchemaStep ==
    ASSUME SchemaInv, api = "GetTableSchema", ReadSchema
    PROVE  SchemaInv'
<1>1. TableRead /\ AtSchema
  BY DEF SchemaInv, ReadSchema, AtSchemas, InProperties, AtTable, NoTable
<1>2. cols \in Tables /\ schemas \in 1..2
  BY <1>1 DEF AtSchema
<1>3. PICK v \in 1..2, extra \in 0..1 :
         message = PackSchema(v, SchemaAt(schemas - 1), extra) \o RestAt(schemas - 1, extra)
  BY <1>1 DEF AtSchema
<1> DEFINE s == schemas - 1  t == SchemaAt(s)  rest == RestAt(s, extra)
           A == Ahead(TableTokens(t, extra), 0)  h == <<PackInt(v), PackInt(Len(t))>>
<1>4. s \in 0..1
  BY <1>2
<1>5. t \in Seq(TableCols) /\ Len(t) \in 0..MaxCols /\ rest \in Seq(Tokens)
  BY <1>2, SchemaShape
<1> HIDE DEF t, rest
<1>6. h \in Seq(Tokens) /\ A \in Seq(Tokens) /\ PackSchema(v, t, extra) = h \o A
  <2>1. v \in Int
    OBVIOUS
  <2> QED
    BY <1>5, <2>1, SchemaParts, Zenon
<1>7. message = (h \o A) \o rest
  BY <1>3, <1>6 DEF t, rest
<1> HIDE DEF h, A
<1>8. A \o rest \in Seq(Tokens) /\ message = h \o (A \o rest)
  BY <1>5, <1>6, <1>7, TokensAssociate, PeelTokens
<1>9. Starts(message, <<PackInt(v), PackInt(Len(t))>>, A \o rest)
  BY <1>6, <1>8 DEF Starts, h
<1>10. Reads(message, <<IntCodes, IntCodes>>) /\ message[2].val = Len(t) /\ Drop(message, 2) = A \o rest
  BY <1>9, TwoAhead
<1>11. /\ left' = Len(t) /\ meta' = <<>> /\ message' = A \o rest /\ schemas' = s /\ phase' = "properties"
       /\ UNCHANGED <<api, cols, sent, result, cells, row, pages>>
  BY <1>10 DEF ReadSchema
<1>12. SchemaAt(schemas)' = t /\ RestAt(schemas, extra)' = rest
  BY <1>11 DEF SchemaAt, RestAt, t, rest
<1>13. Len(meta') = 0 /\ meta' \in Seq(TableCols) /\ Len(t) - 0 = Len(t) /\ Len(cols) \in Nat
  BY <1>2, <1>5, <1>11, SchemaShape
<1>14. Ahead(TableTokens(SchemaAt(schemas), extra), Len(meta))' = A
  BY <1>12, <1>13 DEF A
<1>15. InProperties'
  BY <1>2, <1>4, <1>11, <1>12, <1>13, <1>14 DEF InProperties
<1>16. TableRead'
  BY <1>1, <1>5, <1>11, <1>13 DEF TableRead
<1> QED
  BY <1>15, <1>16 DEF SchemaInv

\* A column of a schema is read.
LEMMA TableColumnStep ==
    ASSUME SchemaInv, api = "GetTableSchema", ReadTableColumn
    PROVE  SchemaInv'
<1>1. TableRead /\ InProperties /\ left > 0
  BY DEF SchemaInv, ReadTableColumn, AtSchemas, AtSchema, AtTable, NoTable
<1>2. cols \in Tables /\ schemas \in 0..1
  BY <1>1 DEF InProperties
<1> DEFINE t == SchemaAt(schemas)  j == Len(meta) + 1
<1>3. PICK extra \in 0..1 :
         message = Ahead(TableTokens(SchemaAt(schemas), extra), Len(meta)) \o RestAt(schemas, extra)
  BY <1>1 DEF InProperties
<1> DEFINE rest == RestAt(schemas, extra)  T == TableTokens(t, extra)
<1>4. /\ t \in Seq(TableCols) /\ Len(t) \in Nat /\ Len(t) <= Len(cols) /\ Len(cols) \in Nat /\ Len(cols) <= MaxCols
      /\ \A i \in 1..Len(t) : t[i] = cols[i]
      /\ rest \in Seq(Tokens)
  BY <1>2, SchemaShape
<1>5. /\ meta \in Seq(TableCols) /\ Len(meta) \in Nat /\ \A i \in 1..Len(meta) : meta[i] = cols[i]
      /\ left = Len(t) - Len(meta)
  BY <1>1 DEF TableRead, InProperties
<1> HIDE DEF t, rest
<1>6. j \in 1..Len(t) /\ Len(meta) \in 0..(Len(t) - 1) /\ j \in 0..Len(t)
  BY <1>1, <1>4, <1>5
<1>7. T \in Seq(Seq(Tokens)) /\ Len(T) = Len(t) /\ T[j] = PackTableColumn(t[j], extra)
  BY <1>4, <1>6, TableTokensType
<1> HIDE DEF T
<1>8. Ahead(T, Len(meta)) = PackTableColumn(t[j], extra) \o Ahead(T, j) /\ Ahead(T, j) \in Seq(Tokens)
  <2> DEFINE n == Len(T)
  <2>1. (\A i \in 0..(n - 1) : Ahead(T, i) = T[i + 1] \o Ahead(T, i + 1)) /\ \A i \in 0..n : Ahead(T, i) \in Seq(Tokens)
    BY <1>7, AheadSteps
  <2> QED
    BY <1>6, <1>7, <2>1
<1> DEFINE c == t[j]  p == PackTableColumn(c, extra)  a == Ahead(T, j)
<1>9. c \in TableCols
  BY <1>4, <1>6
<1> HIDE DEF j
<1>10. message = (p \o a) \o rest
  BY <1>3, <1>8 DEF t, T, rest
<1>11. j = Len(meta) + 1
  BY DEF j
<1> HIDE DEF c
<1>12. p \in Seq(Tokens)
  BY <1>9, TableParts
<1> HIDE DEF p
<1>13. a \in Seq(Tokens)
  BY <1>8
<1> HIDE DEF a
<1>14. a \o rest \in Seq(Tokens) /\ message = p \o (a \o rest)
  BY <1>4, <1>10, <1>12, <1>13, TokensAssociate, PeelTokens
<1> DEFINE b == a \o rest
<1>15. Starts(message, PackTableColumn(c, extra), b)
  BY <1>12, <1>14 DEF Starts, p
<1> HIDE DEF b
<1>16. /\ Reads(message, TableColumnForm) /\ Len(message) >= 8 + Skipped(message[1].val)
       /\ TableColumnRead(message) = c /\ Drop(message, 8 + Skipped(message[1].val)) = b
  BY <1>9, <1>15, TableColumnIsRead
<1>17. /\ meta' = Append(meta, TableColumnRead(message))
       /\ message' = Drop(message, 8 + Skipped(message[1].val)) /\ left' = left - 1
       /\ UNCHANGED <<api, cols, sent, phase, result, cells, row, pages, schemas>>
  BY <1>16 DEF ReadTableColumn, TableColumnRead
<1>18. meta' = Append(meta, c) /\ message' = b
  BY <1>16, <1>17
<1>19. c = cols[j]
  BY <1>4, <1>6 DEF c
<1>20. meta' \in Seq(TableCols) /\ Len(meta') = j /\ (\A i \in 1..Len(meta) : meta'[i] = meta[i]) /\ meta'[j] = c
  BY <1>5, <1>9, <1>11, <1>18, AppendProperties
<1>21. \A i \in 1..j : meta'[i] = cols[i]
  <2>1. \A i \in 1..j : i = j \/ i \in 1..Len(meta)
    BY <1>5, <1>11
  <2> QED
    BY <1>5, <1>19, <1>20, <2>1
<1>22. left' = Len(t) - j /\ left' \in 0..MaxCols /\ j <= Len(cols)
  BY <1>4, <1>5, <1>6, <1>11, <1>17, BoundsAssumption
<1>23. SchemaAt(schemas)' = t /\ RestAt(schemas, extra)' = rest
  BY <1>17 DEF SchemaAt, RestAt, t, rest
<1>24. Ahead(TableTokens(SchemaAt(schemas), extra), Len(meta))' = a
  BY <1>20, <1>23 DEF Ahead, TableTokens, T, a
<1>25. phase = "properties"
  BY <1>1 DEF InProperties
<1>26. InProperties'
  BY <1>2, <1>17, <1>18, <1>20, <1>22, <1>23, <1>24, <1>25 DEF InProperties, b
<1>27. TableRead'
  BY <1>1, <1>17, <1>20, <1>21, <1>22 DEF TableRead
<1> QED
  BY <1>26, <1>27 DEF SchemaInv

\* A schema ends: another follows, or it is the table's.
LEMMA EndOfSchemaStep ==
    ASSUME SchemaInv, api = "GetTableSchema", EndOfSchema
    PROVE  SchemaInv'
<1>1. TableRead /\ InProperties /\ left = 0
  BY DEF SchemaInv, EndOfSchema, AtSchemas, AtSchema, AtTable, NoTable
<1>2. cols \in Tables /\ schemas \in 0..1 /\ left = Len(SchemaAt(schemas)) - Len(meta)
  BY <1>1 DEF InProperties
<1>3. PICK extra \in 0..1 :
         message = Ahead(TableTokens(SchemaAt(schemas), extra), Len(meta)) \o RestAt(schemas, extra)
  BY <1>1 DEF InProperties
<1> DEFINE t == SchemaAt(schemas)  rest == RestAt(schemas, extra)  T == TableTokens(t, extra)
<1>4. t \in Seq(TableCols) /\ Len(t) \in Nat /\ rest \in Seq(Tokens) /\ cols \in Seq(TableCols)
  BY <1>2, SchemaShape
<1>5. Len(meta) \in Nat
  BY <1>1 DEF TableRead
<1> HIDE DEF rest
<1>6. Len(meta) = Len(t)
  BY <1>1, <1>2, <1>4, <1>5
<1>7. T \in Seq(Seq(Tokens)) /\ Len(T) = Len(t)
  BY <1>4, TableTokensType
<1>8. message = Ahead(T, Len(t)) \o rest
  BY <1>3, <1>6 DEF rest
<1> HIDE DEF T, t
<1>9. Ahead(T, Len(t)) = <<>>
  BY <1>7, AheadSteps
<1>10. message = rest
  BY <1>4, <1>8, <1>9, ConcatEmptySeq
<1>11. /\ phase' = IF schemas > 0 THEN "schema" ELSE "done"
       /\ UNCHANGED <<api, cols, sent, message, result, meta, left, cells, row, pages, schemas>>
  BY DEF EndOfSchema, Stop
<1>12. TableRead'
  BY <1>1, <1>11 DEF TableRead
<1>13. CASE schemas = 0
  <2>1. message = <<>> /\ Len(meta) = Len(cols)
    BY <1>6, <1>10, <1>13 DEF rest, RestAt, t, SchemaAt
  <2>2. phase' = "done"
    BY <1>11, <1>13
  <2>3. AtTable'
    BY <1>1, <1>2, <1>11, <2>1, <2>2 DEF AtTable
  <2> QED
    BY <1>12, <2>3 DEF SchemaInv
<1>14. CASE schemas = 1
  <2>1. message = PackSchema(2, cols, extra)
    BY <1>10, <1>14 DEF rest, RestAt
  <2>2. phase' = "schema" /\ schemas' \in 1..2 /\ schemas' - 1 = 0
    BY <1>11, <1>14
  <2>3. PackSchema(2, cols, extra) \in Seq(Tokens)
    <3>1. 2 \in 1..2
      OBVIOUS
    <3> QED
      BY <1>4, <3>1, SchemaTokens, Zenon
  <2>4. PackSchema(2, cols, extra) \o <<>> = PackSchema(2, cols, extra)
    BY <2>3, ConcatEmptySeq
  <2>5. PackSchema(2, SchemaAt(schemas - 1), extra)' = PackSchema(2, cols, extra) /\ RestAt(schemas - 1, extra)' = <<>>
    BY <1>11, <2>2 DEF SchemaAt, RestAt
  <2>6. 2 \in 1..2
    OBVIOUS
  <2>7. AtSchema'
    BY <1>1, <1>2, <1>11, <2>1, <2>2, <2>4, <2>5, <2>6 DEF AtSchema
  <2> QED
    BY <1>12, <2>7 DEF SchemaInv
<1> QED
  BY <1>2, <1>13, <1>14

\* A tuple is built from the table's columns, which stay.
LEMMA BuildStep ==
    ASSUME SchemaInv, api = "GetTableSchema", NEW names, NEW keyOnly, buildTuple(names, keyOnly)
    PROVE  SchemaInv'
<1>1. TableRead /\ AtTable
  BY DEF SchemaInv, buildTuple, AtSchemas, AtSchema, InProperties, NoTable
<1>2. phase' = "built" /\ UNCHANGED <<api, cols, sent, message, result, meta, left, cells, pages, schemas>>
  BY DEF buildTuple
<1>3. TableRead'
  BY <1>1, <1>2 DEF TableRead
<1>4. AtTable'
  BY <1>1, <1>2 DEF AtTable
<1> QED
  BY <1>3, <1>4 DEF SchemaInv

\* The schemas of a table are read from their number.
LEMMA SchemaStart == SchemaInit => SchemaInv
<1> SUFFICES ASSUME SchemaInit PROVE SchemaInv
  OBVIOUS
<1>1. meta \in Seq(TableCols) /\ Len(meta) = 0 /\ meta = <<>> /\ left = 0
  BY DEF SchemaInit
<1>2. Len(cols) \in Nat
  BY TablesAssumption DEF SchemaInit
<1>3. TableRead
  BY <1>1, <1>2, BoundsAssumption DEF TableRead, SchemaInit
<1>4. AtSchemas
  BY <1>1 DEF AtSchemas, SchemaInit
<1> QED
  BY <1>3, <1>4 DEF SchemaInv

-----------------------------------------------------------------------------
(* Any response                                                            *)

\* Opening a connection reads no result.
OpenQuiet ==
    api = "Open" => /\ cols = <<>> /\ sent = 0 /\ result = NoHeader /\ meta = <<>> /\ left = 0
                    /\ cells = <<>> /\ row = <<>> /\ pages = 0

ReplyInv == api \in Readers \cup {"GetTableSchema", "Open"} /\ ResultInv /\ SchemaInv /\ OpenQuiet

\* A result is read step by step.
LEMMA ResultStep ==
    ASSUME ResultInv, api \in Readers, ReplyNext
    PROVE  ResultInv'
<1>1. phase \in {"header", "columns", "count", "rows", "done", "failed", "panicked"} /\ api # "GetTableSchema"
  BY DEF ResultInv, Readers
<1>2. ~SchemaNext
  BY <1>1 DEF SchemaNext, ReadSchemas, ReadSchema, ReadTableColumn, EndOfSchema, buildTuple
<1>3. Next
  BY <1>2 DEF ReplyNext
<1> QED
  BY <1>3, HeaderStep, ColumnStep, RowCountStep, RowStep, EndOfRowsStep, PageStep DEF Next

\* And so is a schema.
LEMMA TableStep ==
    ASSUME SchemaInv, api = "GetTableSchema", ReplyNext
    PROVE  SchemaInv'
<1>1. phase \in {"schemas", "schema", "properties", "done", "built", "failed"}
  BY DEF SchemaInv, AtSchemas, AtSchema, InProperties, AtTable, NoTable
<1>2. ~Next
  BY <1>1 DEF Next, ReadHeader, ReadColumn, ReadRowCount, EndOfRows, ReadRow, QuerySQLCursorGetPage
<1>3. SchemaNext
  BY <1>2 DEF ReplyNext
<1> QED
  BY <1>3, SchemasStep, SchemaStep, TableColumnStep, EndOfSchemaStep, BuildStep DEF SchemaNext

\* Nothing happens to what is said of a response while it is left alone.
LEMMA ReplyStutter ==
    ASSUME ReplyInv, UNCHANGED <<vars, schemas>>
    PROVE  ReplyInv'
<1>1. UNCHANGED <<api, cols, sent, message, phase, result, meta, left, cells, row, pages, schemas>>
  BY DEF vars
<1>2. ResultInv'
  <2>1. /\ Described' <=> Described
        /\ \A i : Unreadable(i)' <=> Unreadable(i)
        /\ Rows' = Rows
        /\ \A r, j : Ends(r, j)' = Ends(r, j)
        /\ \A r : RowOf(r)' = RowOf(r)
    BY <1>1, SameColumns
  <2>2. (\A j : Ends(cells, j)' = Ends(cells, j)) /\ RowOf(cells)' = RowOf(cells)
    BY <1>1 DEF Ends, RowOf, Key
  <2>3. RowRead(sent > 0)' = RowRead(sent > 0) /\ RowRead(left < sent)' = RowRead(left < sent)
    BY <1>1, <2>1, <2>2 DEF RowRead
  <2>4. InHeader' <=> InHeader
    BY <1>1 DEF InHeader
  <2>5. (InColumns' <=> InColumns) /\ (InCount' <=> InCount)
    BY <1>1 DEF InColumns, InCount
  <2>6. (InRows' <=> InRows) /\ (AtEnd' <=> AtEnd)
    BY <1>1, <2>3 DEF InRows, AtEnd
  <2>7. Failed' <=> Failed
    BY <1>1, <2>1 DEF Failed
  <2>8. Panicked' <=> Panicked
    BY <1>1, <2>1, <2>2 DEF Panicked
  <2> QED
    BY <1>1, <2>1, <2>4, <2>5, <2>6, <2>7, <2>8 DEF ReplyInv, ResultInv
<1>3. SchemaInv'
  BY <1>1 DEF ReplyInv, SchemaInv, TableRead, AtSchemas, AtSchema, InProperties, AtTable, NoTable, SchemaAt, RestAt
<1>4. OpenQuiet' /\ api' = api
  BY <1>1 DEF ReplyInv, OpenQuiet
<1> QED
  BY <1>2, <1>3, <1>4 DEF ReplyInv

\* Opening a connection does nothing to a result.
LEMMA OpenStep ==
    ASSUME OpenQuiet, api = "Open", OpenNext
    PROVE  OpenQuiet'
<1>1. UNCHANGED <<api, cols, sent, result, meta, left, cells, row, pages>>
  BY DEF OpenNext, endOfURL, ReadVerdict, ReadNode, parseParameter, Connect, Stop, vars
<1> QED
  BY <1>1 DEF OpenQuiet

\* How far a response is read is an invariant.
LEMMA ReplyInvariant == StreamSpec => [](OpenInv /\ ReplyInv)
<1>1. StreamInit => ReplyInv
  <2> SUFFICES ASSUME StreamInit PROVE ReplyInv
    OBVIOUS
  <2>1. CASE OpenInit
    BY <2>1 DEF OpenInit, ReplyInv, ResultInv, SchemaInv, OpenQuiet, Readers
  <2>2. CASE Init
    <3>1. api \in Readers
      BY <2>2 DEF Init, Readers
    <3>2. ResultInv
      BY <2>2, ResultStart
    <3> QED
      BY <3>1, <3>2 DEF ReplyInv, SchemaInv, OpenQuiet, Readers
  <2>3. CASE SchemaInit
    <3>1. api = "GetTableSchema"
      BY <2>3 DEF SchemaInit
    <3>2. SchemaInv
      BY <2>3, SchemaStart
    <3> QED
      BY <3>1, <3>2 DEF ReplyInv, ResultInv, OpenQuiet, Readers
  <2> QED
    BY <2>1, <2>2, <2>3 DEF StreamInit, ReplyInit
<1>2. OpenInv /\ ReplyInv /\ [StreamNext]_streamVars => ReplyInv'
  <2> SUFFICES ASSUME OpenInv, ReplyInv, StreamNext \/ UNCHANGED streamVars
               PROVE  ReplyInv'
    OBVIOUS
  <2>1. /\ api' = api
        /\ \/ api = "Open" /\ OpenNext
           \/ api # "Open" /\ ReplyNext
           \/ UNCHANGED streamVars
    BY PhaseStep DEF OpenInv
  <2>2. api \in Readers \cup {"GetTableSchema", "Open"} /\ ResultInv /\ SchemaInv /\ OpenQuiet
    BY DEF ReplyInv
  <2>3. CASE api = "Open" /\ OpenNext
    <3>1. OpenQuiet'
      BY <2>2, <2>3, OpenStep
    <3> QED
      BY <2>1, <2>2, <2>3, <3>1 DEF ReplyInv, ResultInv, SchemaInv, Readers
  <2>4. CASE api \in Readers /\ ReplyNext
    <3>1. ResultInv'
      BY <2>2, <2>4, ResultStep
    <3> QED
      BY <2>1, <2>2, <2>4, <3>1 DEF ReplyInv, SchemaInv, OpenQuiet, Readers
  <2>5. CASE api = "GetTableSchema" /\ ReplyNext
    <3>1. SchemaInv'
      BY <2>2, <2>5, TableStep
    <3> QED
      BY <2>1, <2>2, <2>5, <3>1 DEF ReplyInv, ResultInv, OpenQuiet, Readers
  <2>6. CASE UNCHANGED streamVars
    BY <2>6, ReplyStutter DEF streamVars
  <2> QED
    BY <2>1, <2>2, <2>3, <2>4, <2>5, <2>6
<1> QED
  BY <1>1, <1>2, OpenInvariant, PTL DEF StreamSpec, StreamNext, streamVars

-----------------------------------------------------------------------------
(* What the invariant means                                                *)

\* Whatever the servers send, whoever reads it, the reader's state has its
\* type, and a column that has been read has a type of the client's table.
THEOREM StreamTypes == StreamSpec => []TypeOK
<1>1. OpenInv /\ ReplyInv => TypeOK
  <2> SUFFICES ASSUME OpenInv, ReplyInv PROVE TypeOK
    OBVIOUS
  <2>1. /\ api \in {"QuerySQL", "QuerySQLFields", "newRows", "GetTableSchema", "Open"}
        /\ phase \in OpenPhases \cup ReplyPhases
    BY DEF ReplyInv, OpenInv, Readers
  <2>2. phase \in {"header", "columns", "count", "rows", "schemas", "schema", "properties", "built",
                   "url", "open", "handshake", "node", "badUrl", "refused", "connected", "done", "failed",
                   "panicked"}
    BY <2>1 DEF OpenPhases, ReplyPhases
  <2>3. NoHeader \in Results
    BY DEF NoHeader, Results
  <2>4. CASE api \in Readers
    <3>1. /\ Described /\ sent \in 0..MaxRows /\ result \in Results /\ pages \in 0..MaxPages
          /\ left \in 0..(MaxCols + MaxRows)
      BY <2>4 DEF ReplyInv, ResultInv
    <3>2. Len(meta) <= Len(cols) /\ \A i \in 1..Len(meta) : meta[i].Type \in ColTypes
      BY <3>1 DEF Described, Unreadable
    <3> QED
      BY <2>1, <2>2, <3>1, <3>2 DEF TypeOK, Results
  <2>5. CASE api = "GetTableSchema"
    <3>1. TableRead
      BY <2>5 DEF ReplyInv, SchemaInv
    <3>2. /\ sent \in 0..MaxRows /\ result \in Results /\ pages \in 0..MaxPages
          /\ left \in 0..(MaxCols + MaxRows) /\ Len(meta) <= Len(cols)
      BY <2>3, <3>1, BoundsAssumption DEF TableRead
    <3> QED
      BY <2>1, <2>2, <2>5, <3>2 DEF TypeOK, Results
  <2>6. CASE api = "Open"
    <3>1. /\ cols = <<>> /\ sent = 0 /\ result = NoHeader /\ meta = <<>> /\ left = 0 /\ pages = 0
      BY <2>6 DEF ReplyInv, OpenQuiet
    <3>2. Len(meta) = 0 /\ Len(cols) = 0
      BY <3>1
    <3>3. /\ sent \in 0..MaxRows /\ result \in Results /\ pages \in 0..MaxPages
          /\ left \in 0..(MaxCols + MaxRows)
      BY <2>3, <3>1, BoundsAssumption
    <3> QED
      BY <2>1, <2>2, <3>2, <3>3 DEF TypeOK, Results
  <2> QED
    BY <2>1, <2>4, <2>5, <2>6 DEF Readers
<1> QED
  BY <1>1, ReplyInvariant, PTL

\* Whatever columns a statement selects, and however many, the metadata are
\* the columns the server has described (client-result-set.go:363-417).
THEOREM StreamMetadataIsTrue == StreamSpec => []MetadataIsTrue
<1>1. OpenInv /\ ReplyInv => MetadataIsTrue
  <2> SUFFICES ASSUME ReplyInv PROVE MetadataIsTrue
    OBVIOUS
  <2>1. CASE api \in Readers
    BY <2>1 DEF ReplyInv, ResultInv, Described, MetadataIsTrue
  <2>2. CASE api = "GetTableSchema"
    BY <2>2 DEF ReplyInv, SchemaInv, TableRead, MetadataIsTrue
  <2>3. CASE api = "Open"
    BY <2>3 DEF ReplyInv, OpenQuiet, MetadataIsTrue
  <2> QED
    BY <2>1, <2>2, <2>3 DEF ReplyInv
<1> QED
  BY <1>1, ReplyInvariant, PTL

\* Whatever the response, one that is read without an error has been read to
\* its end.
THEOREM StreamMessageIsConsumed == StreamSpec => []MessageIsConsumed
<1>1. OpenInv /\ ReplyInv => MessageIsConsumed
  <2> SUFFICES ASSUME OpenInv, ReplyInv, phase = "done"
               PROVE  message = <<>> /\ Len(meta) = Len(cols) /\ left = 0 /\ (sent > 0 => Len(cells) = Len(cols))
    BY DEF MessageIsConsumed
  <2>1. api # "Open"
    BY DEF OpenInv, PhasesApart, OpenPhases
  <2>2. CASE api \in Readers
    <3>1. Described /\ AtEnd /\ sent \in Nat
      BY <2>2, BoundsAssumption DEF ReplyInv, ResultInv
    <3>2. sent > 0 => cells \in Rows
      BY <3>1 DEF AtEnd, RowRead
    <3>3. Len(cols) \in Nat
      BY <3>1 DEF Described
    <3>4. sent > 0 => Len(cells) = Len(cols)
      BY <3>2, <3>3, RowShape
    <3> QED
      BY <3>1, <3>4 DEF AtEnd
  <2>3. CASE api = "GetTableSchema"
    <3>1. TableRead /\ AtTable
      BY <2>3 DEF ReplyInv, SchemaInv, AtSchemas, AtSchema, InProperties, NoTable
    <3> QED
      BY <3>1 DEF TableRead, AtTable
  <2> QED
    BY <2>1, <2>2, <2>3 DEF ReplyInv
<1> QED
  BY <1>1, ReplyInvariant, PTL

\* Whatever columns, rows and pages there are, an error has one of the causes
\* that are named, a panic too unless a NULL caused it, and none of them goes
\* by unnoticed (client-result-set.go:302-309).
THEOREM StreamFailuresHaveTheirCause == StreamSpec => []FailuresHaveTheirCause
<1>1. OpenInv /\ ReplyInv => FailuresHaveTheirCause
  <2> SUFFICES ASSUME OpenInv, ReplyInv PROVE FailuresHaveTheirCause
    OBVIOUS
  <2>1. CASE api = "Open"
    BY <2>1 DEF OpenInv, PhasesApart, OpenPhases, FailuresHaveTheirCause
  <2>2. CASE api = "GetTableSchema"
    <3>1. TableRead /\ (phase = "failed" => cols = <<>>) /\ phase # "panicked" /\ (phase = "done" => cols \in Tables)
      BY <2>2 DEF ReplyInv, SchemaInv, AtSchemas, AtSchema, InProperties, AtTable, NoTable
    <3>2. cells = <<>> /\ Len(cells) = 0
      BY <3>1 DEF TableRead
    <3>3. cols \in Tables => cols # <<>>
      BY SchemaShape
    <3> QED
      BY <2>2, <3>1, <3>2, <3>3 DEF FailuresHaveTheirCause
  <2>3. CASE api \in Readers
    <3>1. /\ Described /\ sent \in Nat /\ api # "GetTableSchema"
          /\ phase = "failed" => Failed
          /\ phase = "panicked" => Panicked
          /\ phase = "done" => AtEnd
      BY <2>3, BoundsAssumption DEF ReplyInv, ResultInv, Readers
    <3>2. Len(cols) \in Nat
      BY <3>1 DEF Described
    <3>3. Len(meta) = Len(cols) => \A i \in 1..Len(cols) : ~Unreadable(i)
      BY <3>1 DEF Described
    <3>4. CASE phase = "failed"
      <4>1. CASE \E i \in 1..Len(cols) : Unreadable(i)
        BY <3>1, <3>4, <4>1 DEF FailuresHaveTheirCause
      <4>2. CASE cells \in Rows /\ \E j \in 1..Len(cols) : cells[j] = "refused"
        <5>1. Len(cells) = Len(cols)
          BY <3>2, <4>2, RowShape
        <5> QED
          BY <3>4, <4>2, <5>1 DEF FailuresHaveTheirCause
      <4> QED
        BY <3>1, <3>4, <4>1, <4>2 DEF Failed
    <3>5. CASE phase = "panicked"
      <4>1. Len(meta) = Len(cols) /\ cells \in Rows
        BY <3>1, <3>5 DEF Panicked
      <4>2. PICK j \in 1..Len(cols) : Ends(cells, j) = "panicked"
        BY <3>1, <3>5 DEF Panicked
      <4>3. Len(cells) = Len(cols)
        BY <3>2, <4>1, RowShape
      <4>4. \/ api # "newRows" /\ cols[j].Origin = NoOrigin
            \/ cells[j] = "short"
            \/ cells[j] = "null" /\ cols[j].Type \in Structs
        BY <3>1, <4>1, <4>2, EndsMeans
      <4> QED
        BY <3>3, <3>5, <4>1, <4>3, <4>4 DEF FailuresHaveTheirCause
    <3>6. CASE phase = "done"
      <4>1. AtEnd /\ Len(meta) = Len(cols)
        BY <3>1, <3>6 DEF AtEnd
      <4>2. CASE sent > 0
        <5>1. cells \in Rows /\ \A j \in 1..Len(cols) : Ends(cells, j) = "no"
          BY <4>1, <4>2 DEF AtEnd, RowRead
        <5>2. Len(cells) = Len(cols)
          BY <3>2, <5>1, RowShape
        <5>3. \A j \in 1..Len(cols) : /\ cells[j] # "refused" /\ cells[j] # "short"
                                      /\ ~(api # "newRows" /\ cols[j].Origin = NoOrigin)
                                      /\ ~(cells[j] = "null" /\ cols[j].Type \in Structs)
          BY <3>1, <4>1, <5>1, EndsMeans
        <5> QED
          BY <3>1, <3>3, <3>6, <4>1, <5>2, <5>3 DEF FailuresHaveTheirCause
      <4>3. CASE ~(sent > 0)
        <5>1. cells = <<>> /\ Len(cells) = 0
          BY <4>1, <4>3 DEF AtEnd, RowRead
        <5> QED
          BY <3>1, <3>3, <3>6, <4>1, <5>1 DEF FailuresHaveTheirCause
      <4> QED
        BY <4>2, <4>3
    <3> QED
      BY <3>4, <3>5, <3>6 DEF FailuresHaveTheirCause
  <2> QED
    BY <2>1, <2>2, <2>3 DEF ReplyInv
<1> QED
  BY <1>1, ReplyInvariant, PTL

\* A row keeps every column exactly if no two of them have the same key.
LEMMA RowKeeps ==
    ASSUME NEW n \in Nat, n = Len(meta), NEW r
    PROVE  {RowOf(r)[k] : k \in DOMAIN RowOf(r)} = 1..n <=> \A i, j \in 1..n : i # j => Key(i) # Key(j)
<1> DEFINE S(k) == {j \in 1..n : Key(j) = k}  K == {Key(j) : j \in 1..n}
<1>1. /\ DOMAIN RowOf(r) = K
      /\ \A k \in K : RowOf(r)[k] = Max(S(k))
  BY DEF RowOf
<1>2. \A k \in K : S(k) # {} /\ S(k) \subseteq 1..n
  OBVIOUS
<1>3. \A k \in K : Max(S(k)) \in S(k)
  BY <1>2, MaxIsGreatest
<1>4. \A k \in K : Max(S(k)) \in 1..n /\ Key(Max(S(k))) = k
  BY <1>3
<1>5. ASSUME {RowOf(r)[k] : k \in DOMAIN RowOf(r)} = 1..n, NEW i \in 1..n, NEW j \in 1..n, Key(i) = Key(j)
      PROVE  i = j
  <2>1. \A x \in 1..n : \E k \in K : x = Max(S(k))
    BY <1>1, <1>5
  <2>2. ASSUME NEW x \in 1..n PROVE x = Max(S(Key(x)))
    <3>1. PICK k \in K : x = Max(S(k))
      BY <2>1
    <3>2. Key(x) = k
      BY <1>4, <3>1
    <3> QED
      BY <3>1, <3>2
  <2> QED
    BY <1>5, <2>2
<1>6. ASSUME \A i, j \in 1..n : i # j => Key(i) # Key(j)
      PROVE  {RowOf(r)[k] : k \in DOMAIN RowOf(r)} = 1..n
  <2>1. \A x \in 1..n : Key(x) \in K /\ Max(S(Key(x))) = x
    BY <1>4, <1>6
  <2>2. \A x \in 1..n : Key(x) \in K /\ RowOf(r)[Key(x)] = x
    BY <1>1, <2>1
  <2>3. \A k \in K : RowOf(r)[k] \in 1..n
    BY <1>1, <1>4
  <2> HIDE DEF K
  <2> QED
    BY <1>1, <2>2, <2>3
<1> QED
  BY <1>5, <1>6

\* Whatever columns there are, a row keeps the value of every one, except in
\* the binary client's maps, and there exactly if two columns come from
\* columns of the same name.
THEOREM StreamValuesAreKept == StreamSpec => []ValuesAreKept
<1>1. OpenInv /\ ReplyInv => ValuesAreKept
  <2> SUFFICES ASSUME OpenInv, ReplyInv, phase = "done", Len(cells) > 0
               PROVE  {row[k] : k \in DOMAIN row} = 1..Len(cols)
                        <=> \/ api = "newRows"
                            \/ \A i, j \in 1..Len(cols) : i # j => cols[i].Origin.Column # cols[j].Origin.Column
    BY DEF ValuesAreKept
  <2>1. api # "Open" /\ cells # <<>>
    BY DEF OpenInv, PhasesApart, OpenPhases
  <2>2. api \in Readers
    BY <2>1 DEF ReplyInv, SchemaInv, TableRead
  <2>3. Described /\ AtEnd
    BY <2>2 DEF ReplyInv, ResultInv
  <2>4. row = RowOf(cells) /\ Len(meta) = Len(cols)
    BY <2>1, <2>3 DEF AtEnd, RowRead
  <2>5. Len(cols) \in Nat /\ \A i \in 1..Len(cols) : meta[i] = cols[i]
    BY <2>3, <2>4 DEF Described
  <2>6. {row[k] : k \in DOMAIN row} = 1..Len(cols) <=> \A i, j \in 1..Len(cols) : i # j => Key(i) # Key(j)
    BY <2>4, <2>5, RowKeeps
  <2>7. \A i \in 1..Len(cols) : Key(i) = IF api = "newRows" THEN i ELSE cols[i].Origin.Column
    BY <2>5 DEF Key
  <2> QED
    BY <2>6, <2>7
<1> QED
  BY <1>1, ReplyInvariant, PTL

-----------------------------------------------------------------------------
(* The order of a tuple's values                                           *)

\* The columns of the key, as positions among all.
KeyPositions(t) == {i \in DOMAIN t : t[i].KeyIndex >= 0}

\* The columns of a key have its places one to one.
LEMMA OneToAPlace ==
    ASSUME NEW t \in Tables
    PROVE  /\ KeySize(t) = Cardinality(KeyPositions(t)) /\ KeySize(t) \in Nat
           /\ \A i \in KeyPositions(t) : t[i].KeyIndex \in 0..(KeySize(t) - 1)
           /\ \A k \in 0..(KeySize(t) - 1) : \E i \in KeyPositions(t) : t[i].KeyIndex = k
           /\ \A i, j \in KeyPositions(t) : t[i].KeyIndex = t[j].KeyIndex => i = j
<1> DEFINE K == KeyPositions(t)  P == 0..(KeySize(t) - 1)  f == [i \in K |-> t[i].KeyIndex]
<1>1. t \in Seq(TableCols) /\ KeyIndexes(t) = P
  BY TablesAssumption DEF TableCols
<1>2. DOMAIN t = 1..Len(t) /\ Len(t) \in Nat /\ \A i \in 1..Len(t) : t[i].KeyIndex \in Nat \cup {-1}
  <2>1. DOMAIN t = 1..Len(t) /\ Len(t) \in Nat /\ \A i \in 1..Len(t) : t[i] \in TableCols
    BY <1>1
  <2>2. \A c \in TableCols : c.KeyIndex \in Nat \cup {-1}
    BY DEF TableCols
  <2> QED
    BY <2>1, <2>2
<1>3. IsFiniteSet(K)
  <2>1. IsFiniteSet(1..Len(t))
    BY <1>2, FS_Interval
  <2>2. K \in SUBSET (1..Len(t))
    BY <1>2 DEF KeyPositions
  <2> QED
    BY <2>1, <2>2, FS_Subset
<1>4. KeySize(t) = Cardinality(K) /\ KeySize(t) \in Nat
  BY <1>3, FS_CardinalityType DEF KeySize, KeyPositions
<1>5. \A i \in K : t[i].KeyIndex \in P
  BY <1>1, <1>2 DEF KeyIndexes, KeyPositions
<1>6. ASSUME NEW k \in P PROVE \E i \in K : t[i].KeyIndex = k
  <2>1. k \in KeyIndexes(t) /\ k >= 0
    BY <1>1, <1>4
  <2> QED
    BY <2>1 DEF KeyIndexes, KeyPositions
<1>7. f \in Surjection(K, P)
  <2>1. f \in [K -> P]
    BY <1>5
  <2>2. \A k \in P : \E i \in K : f[i] = k
    BY <1>6
  <2> HIDE DEF f, K, P
  <2> QED
    BY <2>1, <2>2 DEF Surjection
<1>8. Cardinality(P) = Cardinality(K)
  <2>1. Cardinality(P) = KeySize(t)
    <3>1. 0 \in Int /\ KeySize(t) - 1 \in Int
      BY <1>4
    <3>2. Cardinality(P) = IF 0 > KeySize(t) - 1 THEN 0 ELSE KeySize(t) - 1 - 0 + 1
      BY <3>1, FS_Interval
    <3> HIDE DEF P
    <3> QED
      BY <1>4, <3>2
  <2> QED
    BY <1>4, <2>1
<1>9. f \in Injection(K, P)
  <2> HIDE DEF f, K, P
  <2> QED
    BY <1>3, <1>7, <1>8, FS_SurjSameCardinalityImpliesInj
<1>10. \A i, j \in K : f[i] = f[j] => i = j
  <2> HIDE DEF f, K, P
  <2> QED
    BY <1>9 DEF Injection, IsInjective
<1>11. \A i, j \in K : t[i].KeyIndex = t[j].KeyIndex => i = j
  BY <1>10
<1> QED
  BY <1>4, <1>5, <1>6, <1>11

\* Numbers below n that ascend n times are all of them.
LEMMA AscendingAll ==
    ASSUME NEW n \in Nat, NEW g \in [1..n -> 0..(n - 1)], \A i, j \in 1..n : i < j => g[i] < g[j]
    PROVE  \A i \in 1..n : g[i] = i - 1
<1> DEFINE U == {i \in Nat : i \in 1..n => g[i] >= i - 1}
           D == {m \in Nat : n - m \in 1..n => g[n - m] <= n - m - 1}
<1>1. \A i \in Nat : i \in U
  <2>1. 0 \in U
    OBVIOUS
  <2>2. ASSUME NEW i \in Nat, i \in U PROVE i + 1 \in U
    <3> SUFFICES ASSUME i + 1 \in 1..n PROVE g[i + 1] >= i
      OBVIOUS
    <3>1. g[i + 1] \in Nat
      OBVIOUS
    <3>2. CASE i = 0
      BY <3>1, <3>2
    <3>3. CASE i # 0
      <4>1. i \in 1..n /\ i < i + 1
        BY <3>3
      <4>2. g[i] < g[i + 1] /\ g[i] \in Nat /\ g[i] >= i - 1
        BY <2>2, <4>1
      <4> QED
        BY <3>1, <4>2
    <3> QED
      BY <3>2, <3>3
  <2> HIDE DEF U
  <2> QED
    BY <2>1, <2>2, Induct
<1>2. \A m \in Nat : m \in D
  <2>1. 0 \in D
    OBVIOUS
  <2>2. ASSUME NEW m \in Nat, m \in D PROVE m + 1 \in D
    <3> SUFFICES ASSUME n - (m + 1) \in 1..n PROVE g[n - (m + 1)] <= n - (m + 1) - 1
      OBVIOUS
    <3>1. PICK k \in 1..n : k = n - (m + 1)
      OBVIOUS
    <3>2. k + 1 = n - m /\ k + 1 \in 1..n /\ k < k + 1
      BY <3>1
    <3>3. g[k] < g[k + 1] /\ g[k] \in Nat /\ g[k + 1] \in Nat
      BY <3>2
    <3>4. g[k + 1] <= k
      <4>1. n - m \in 1..n
        BY <3>2
      <4>2. g[n - m] <= n - m - 1
        BY <2>2, <4>1
      <4>3. n - m - 1 = k
        BY <3>2
      <4>4. g[k + 1] = g[n - m]
        BY <3>2
      <4> QED
        BY <4>2, <4>3, <4>4
    <3> QED
      BY <3>1, <3>3, <3>4
  <2> HIDE DEF D
  <2> QED
    BY <2>1, <2>2, Induct
<1>3. ASSUME NEW i \in 1..n PROVE g[i] = i - 1
  <2>1. g[i] >= i - 1 /\ g[i] \in Nat
    <3>1. i \in Nat
      OBVIOUS
    <3>2. i \in U
      BY <1>1, <3>1
    <3> QED
      BY <3>2
  <2>2. PICK m \in Nat : n - m = i
    <3>1. n - i \in Nat /\ n - (n - i) = i
      OBVIOUS
    <3> QED
      BY <3>1
  <2>3. m \in D
    BY <1>2
  <2>4. g[i] <= i - 1
    BY <2>2, <2>3
  <2>5. \A a, b \in Int : a >= b /\ a <= b => a = b
    OBVIOUS
  <2>6. g[i] \in Int /\ i - 1 \in Int
    BY <2>1
  <2> HIDE DEF U, D
  <2> QED
    BY <2>1, <2>4, <2>5, <2>6
<1> QED
  BY <1>3

\* buildTuple takes the key's columns in the order the server expects.
LEMMA KeyAsExpected ==
    ASSUME cols \in Tables, meta = cols
    PROVE  KeyColumns = Expected(TRUE) /\ DOMAIN Expected(TRUE) = 1..KeySize(cols) /\ KeySize(cols) \in Nat
<1> DEFINE K == {i \in DOMAIN meta : IsKey(meta[i])}  n == KeySize(cols)
           Ascends(p) == \A i, j \in DOMAIN p :
                            i < j => p[i] # p[j] /\ meta[p[i]].KeyIndex <= meta[p[j]].KeyIndex
           sorted == CHOOSE p \in [1..Cardinality(K) -> K] : Ascends(p)
           Holder(k) == CHOOSE j \in DOMAIN cols : cols[j].KeyIndex = k - 1
<1>0. K = KeyPositions(cols)
  BY DEF KeyPositions, IsKey
<1>1. n = Cardinality(K) /\ n \in Nat /\ \A i \in K : cols[i].KeyIndex \in 0..(n - 1)
  BY <1>0, OneToAPlace
<1>2. \A k \in 0..(n - 1) : \E i \in K : cols[i].KeyIndex = k
  BY <1>0, OneToAPlace
<1>3. \A i, j \in K : cols[i].KeyIndex = cols[j].KeyIndex => i = j
  BY <1>0, OneToAPlace
<1>4. KeyColumns = [i \in DOMAIN sorted |-> meta[sorted[i]]]
  BY Zenon DEF KeyColumns
<1>5. ASSUME NEW k \in 1..n PROVE Holder(k) \in K /\ cols[Holder(k)].KeyIndex = k - 1
  <2>1. k - 1 \in 0..(n - 1)
    BY <1>1
  <2>2. PICK j \in K : cols[j].KeyIndex = k - 1
    BY <1>2, <2>1
  <2>3. j \in DOMAIN cols
    OBVIOUS
  <2>4. Holder(k) \in DOMAIN cols /\ cols[Holder(k)].KeyIndex = k - 1
    BY <2>2, <2>3
  <2> HIDE DEF Holder
  <2> QED
    BY <2>1, <2>4 DEF IsKey
<1> HIDE DEF K, n
<1>6. sorted \in [1..n -> K] /\ Ascends(sorted)
  <2> DEFINE q == [k \in 1..n |-> Holder(k)]
  <2> HIDE DEF Holder
  <2>1. q \in [1..n -> K]
    BY <1>5
  <2>2. ASSUME NEW i \in 1..n, NEW j \in 1..n, i < j
        PROVE  q[i] # q[j] /\ cols[q[i]].KeyIndex <= cols[q[j]].KeyIndex
    <3>1. cols[q[i]].KeyIndex = i - 1 /\ cols[q[j]].KeyIndex = j - 1
      BY <1>5
    <3>2. i - 1 <= j - 1 /\ i - 1 # j - 1
      BY <1>1, <2>2
    <3> HIDE DEF q
    <3> QED
      BY <3>1, <3>2
  <2>3. Ascends(q)
    BY <2>2
  <2> HIDE DEF Ascends, q
  <2>4. \E p \in [1..Cardinality(K) -> K] : Ascends(p)
    BY <1>1, <2>1, <2>3
  <2>5. sorted \in [1..Cardinality(K) -> K] /\ Ascends(sorted)
    BY <2>4
  <2> QED
    BY <1>1, <2>5
<1> HIDE DEF sorted
<1>7. \A k \in 1..n : cols[sorted[k]].KeyIndex = k - 1
  <2> DEFINE g == [k \in 1..n |-> cols[sorted[k]].KeyIndex]
  <2>1. \A k \in 1..n : sorted[k] \in K
    BY <1>6
  <2>2. g \in [1..n -> 0..(n - 1)]
    BY <1>1, <2>1
  <2>3. ASSUME NEW i \in 1..n, NEW j \in 1..n, i < j PROVE g[i] < g[j]
    <3>1. sorted[i] # sorted[j] /\ cols[sorted[i]].KeyIndex <= cols[sorted[j]].KeyIndex
      BY <1>6, <2>3
    <3>2. cols[sorted[i]].KeyIndex # cols[sorted[j]].KeyIndex
      BY <1>3, <2>1, <3>1
    <3>3. g[i] <= g[j] /\ g[i] # g[j] /\ g[i] \in 0..(n - 1) /\ g[j] \in 0..(n - 1)
      BY <2>2, <3>1, <3>2
    <3> HIDE DEF g
    <3> QED
      BY <1>1, <3>3
  <2>4. \A i \in 1..n : g[i] = i - 1
    <3> HIDE DEF g
    <3> QED
      BY <1>1, <2>2, <2>3, AscendingAll
  <2> QED
    BY <2>4
<1>8. \A k \in 1..n : sorted[k] = Holder(k)
  BY <1>3, <1>5, <1>6, <1>7
<1>9. Expected(TRUE) = [k \in 1..n |-> cols[Holder(k)]]
  BY DEF Expected, n
<1> HIDE DEF Holder
<1>10. KeyColumns = [k \in 1..n |-> cols[Holder(k)]]
  BY <1>4, <1>6, <1>8
<1> QED
  BY <1>1, <1>9, <1>10 DEF n

\* What ValuesReachTheirColumns says of a tuple.
TupleReaches(columns, vals, given) ==
    LET Places(k) == {i \in DOMAIN columns : Upper[columns[i].Name] = Upper[k]}
    IN  /\ Len(vals) = Len(columns)
        /\ \A i \in DOMAIN columns : vals[i] = Nil \/ i \in Places(vals[i])
        /\ (\A k \in given : Cardinality({i \in DOMAIN columns : vals[i] = k}) = 1)
             <=> \A k \in given :
                   /\ Cardinality({i \in Places(k) : HasKind(columns[i])}) = 1
                   /\ \A m \in given \ {k} : Upper[m] # Upper[k]

\* The values of a tuple are those given for its columns.  None is lost or
\* doubled exactly if every given name has one column, to itself.
LEMMA ValuesByName ==
    ASSUME NEW columns, NEW N \in Nat, DOMAIN columns = 1..N,
           NEW names \in SUBSET GoNames, NEW lookup \in Lookups(names)
    PROVE  TupleReaches(columns, Values(columns, lookup), names)
<1> DEFINE vals == Values(columns, lookup)
           Places(k) == {i \in DOMAIN columns : Upper[columns[i].Name] = Upper[k]}
           At(k) == {i \in DOMAIN columns : vals[i] = k}
           For(k) == {i \in Places(k) : HasKind(columns[i])}
           Alone(k) == \A m \in names \ {k} : Upper[m] # Upper[k]
<1>1. /\ DOMAIN lookup = {Upper[k] : k \in names}
      /\ \A u \in DOMAIN lookup : lookup[u] \in names /\ Upper[lookup[u]] = u
  BY DEF Lookups
<1>2. Len(vals) = Len(columns)
  BY DEF Values
<1>3. ASSUME NEW i \in DOMAIN columns
      PROVE  vals[i] = IF HasKind(columns[i]) /\ Upper[columns[i].Name] \in DOMAIN lookup
                       THEN lookup[Upper[columns[i].Name]] ELSE Nil
  BY DEF Values
<1> HIDE DEF vals
<1>4. \A i \in DOMAIN columns : vals[i] = Nil \/ i \in Places(vals[i])
  BY <1>1, <1>3
<1>5. \A k \in names : k # Nil
  BY NilAssumption
<1>6. ASSUME NEW k \in names PROVE At(k) = IF lookup[Upper[k]] = k THEN For(k) ELSE {}
  <2>1. \A i \in At(k) : i \in For(k) /\ lookup[Upper[k]] = k
    BY <1>1, <1>3, <1>5
  <2>2. lookup[Upper[k]] = k => \A i \in For(k) : i \in At(k)
    BY <1>1, <1>3
  <2> HIDE DEF At, For
  <2> QED
    BY <2>1, <2>2
<1>7. \A k \in names : Alone(k) => lookup[Upper[k]] = k
  BY <1>1
<1>8. Cardinality({}) # 1
  BY FS_EmptySet
<1>9. (\A k \in names : Cardinality(At(k)) = 1) <=> \A k \in names : Cardinality(For(k)) = 1 /\ Alone(k)
  <2>1. ASSUME \A k \in names : Cardinality(At(k)) = 1, NEW k \in names
        PROVE  Cardinality(For(k)) = 1 /\ Alone(k)
    <3>1. \A m \in names : lookup[Upper[m]] = m
      <4> HIDE DEF At, For
      <4> QED
        BY <1>6, <1>8, <2>1
    <3>2. At(k) = For(k)
      BY <1>6, <3>1
    <3>3. Alone(k)
      BY <3>1
    <3> HIDE DEF At, For, Alone
    <3> QED
      BY <2>1, <3>2, <3>3
  <2>2. ASSUME \A k \in names : Cardinality(For(k)) = 1 /\ Alone(k), NEW k \in names
        PROVE  Cardinality(At(k)) = 1
    <3> HIDE DEF At, For, Alone
    <3> QED
      BY <1>6, <1>7, <2>2
  <2> HIDE DEF At, For, Alone
  <2> QED
    BY <2>1, <2>2
<1> QED
  BY <1>2, <1>4, <1>9, Zenon DEF vals, TupleReaches

\* What a key-value call puts into a tuple is where the server looks for it,
\* for any table, and any names of a user's row: buildTuple and KeyColumns
\* (client-tuple-operations.go, client-schemas.go).
THEOREM StreamValuesReachTheirColumns == StreamSpec => []ValuesReachTheirColumns
<1>1. StreamInit => ValuesReachTheirColumns
  BY DEF StreamInit, OpenInit, ReplyInit, Init, SchemaInit, ValuesReachTheirColumns
<1>2. OpenInv /\ ReplyInv /\ ValuesReachTheirColumns /\ [StreamNext]_streamVars => ValuesReachTheirColumns'
  <2> SUFFICES ASSUME OpenInv, ReplyInv, ValuesReachTheirColumns, StreamNext \/ UNCHANGED streamVars, phase' = "built"
               PROVE  ValuesReachTheirColumns'
    BY DEF ValuesReachTheirColumns
  <2> DEFINE Reached == TupleReaches(Expected(row.keyOnly), row.vals, row.given)
  <2>0. /\ ValuesReachTheirColumns <=> (phase = "built" => Reached)
        /\ ValuesReachTheirColumns' <=> (phase' = "built" => Reached')
    BY Zenon DEF ValuesReachTheirColumns, TupleReaches
  <2>1. CASE \E names \in SUBSET GoNames, keyOnly \in BOOLEAN : buildTuple(names, keyOnly)
    <3>1. PICK names \in SUBSET GoNames, keyOnly \in BOOLEAN : buildTuple(names, keyOnly)
      BY <2>1
    <3>2. PICK lookup \in Lookups(names) :
            row' = [given |-> names, keyOnly |-> keyOnly,
                    vals |-> Values(IF keyOnly THEN KeyColumns ELSE meta, lookup)]
      BY <3>1 DEF buildTuple
    <3>3. cols' = cols /\ phase = "done" /\ api = "GetTableSchema"
      BY <3>1 DEF buildTuple
    <3>4. TableRead /\ AtTable
      BY <3>3 DEF ReplyInv, SchemaInv, AtSchemas, AtSchema, InProperties, NoTable
    <3>5. cols \in Tables /\ cols \in Seq(TableCols) /\ Len(cols) \in Nat
      BY <3>4, TablesAssumption DEF AtTable, TableCols
    <3>6. meta = cols
      BY <3>4, <3>5, SeqEqual DEF AtTable, TableRead
    <3> DEFINE columns == Expected(keyOnly)
    <3>7. (IF keyOnly THEN KeyColumns ELSE meta) = columns
      BY <3>5, <3>6, KeyAsExpected DEF Expected
    <3>8. PICK N \in Nat : DOMAIN columns = 1..N
      <4>1. CASE keyOnly
        BY <3>5, <3>6, <4>1, KeyAsExpected
      <4>2. CASE ~keyOnly
        BY <3>5, <4>2 DEF Expected
      <4> QED
        BY <4>1, <4>2
    <3>9. row'.given = names /\ row'.keyOnly = keyOnly /\ row'.vals = Values(columns, lookup)
      BY <3>2, <3>7
    <3>10. Expected(row.keyOnly)' = columns
      BY <3>3, <3>9 DEF Expected
    <3> HIDE DEF columns
    <3>11. TupleReaches(columns, row'.vals, row'.given)
      BY <3>8, <3>9, ValuesByName
    <3>12. Reached'
      BY <3>10, <3>11
    <3> QED
      BY <2>0, <3>12
  <2>2. CASE UNCHANGED <<phase, cols, row>>
    <3>1. Reached
      BY <2>0, <2>2
    <3>2. Expected(row.keyOnly)' = Expected(row.keyOnly) /\ row' = row
      BY <2>2 DEF Expected
    <3>3. Reached'
      BY <3>1, <3>2
    <3> QED
      BY <2>0, <3>3
  <2>3. \/ \E names \in SUBSET GoNames, keyOnly \in BOOLEAN : buildTuple(names, keyOnly)
        \/ UNCHANGED <<phase, cols, row>>
    <3>1. CASE UNCHANGED streamVars
      BY <3>1 DEF streamVars, vars
    <3>2. CASE OpenNext
      BY <3>2 DEF OpenNext, endOfURL, ReadVerdict, ReadNode, parseParameter, Connect, Stop, vars
    <3>3. CASE Next
      BY <3>3 DEF Next, ReadHeader, ReadColumn, ReadRowCount, EndOfRows, ReadRow, QuerySQLCursorGetPage, Stop, Ends
    <3>4. CASE SchemaNext
      BY <3>4 DEF SchemaNext, ReadSchemas, ReadSchema, ReadTableColumn, EndOfSchema, Stop
    <3> QED
      BY <3>1, <3>2, <3>3, <3>4 DEF StreamNext, ReplyNext
  <2> QED
    BY <2>1, <2>2, <2>3
<1> QED
  BY <1>1, <1>2, ReplyInvariant, PTL DEF StreamSpec, StreamNext, streamVars
=============================================================================
