-------------------------- MODULE MCResultStream ---------------------------
(***************************************************************************)
(* ResultStream, SchemaStream and OpenConnection for TLC: columns of two    *)
(* schemas and two tables, renamed or not, a computed one, and one of a     *)
(* type the client does not have; tables whose columns differ in case only, *)
(* or are of such a type; connection names of up to three parameters.       *)
(***************************************************************************)
EXTENDS OpenConnection

Column(name, type, scale, origin) ==
    [Name |-> name, Nullable |-> type # 4, Type |-> type, Scale |-> scale,
     Precision |-> IF type = 4 THEN -1 ELSE 6, Origin |-> origin]

From(schema, table, column) == [Schema |-> schema, Table |-> table, Column |-> column]

MCColumns == {Column("ID", 4, 0, From("PUBLIC", "A", "ID")),
              Column("ID0", 4, 0, From("PUBLIC", "B", "ID")),
              Column("AMOUNT", 8, 2, From("PUBLIC", "A", "AMOUNT")),
              Column("AT", 11, 0, From("S", "B", "AT")),
              Column("NOW", 12, -1, NoOrigin),
              Column("P", 17, 0, From("S", "A", "P"))}

\* Tables of up to three columns, in any order, with any key.
TableColumn(name, type, key) ==
    [Name |-> name, Nullable |-> key < 0, Type |-> type, Scale |-> 0, Precision |-> 6, KeyIndex |-> key]

NameSeqs == {s \in BoundedSeq({"ID", "Id", "REGION"}, 3) : IsInjective(s) /\ s # <<>>}
KeySeqs(n) == {k \in [1..n -> -1..(n - 1)] :
                 LET used == {k[i] : i \in 1..n} \ {-1}
                 IN  /\ used = 0..(Cardinality(used) - 1) /\ used # {}
                     /\ \A i, j \in 1..n : i # j /\ k[i] = k[j] => k[i] = -1}

MCTables == UNION {{[i \in DOMAIN s |-> TableColumn(s[i], IF s[i] = "REGION" THEN t ELSE 4, k[i])] :
                       k \in KeySeqs(Len(s)), t \in {15, 17}} : s \in NameSeqs}

MCGoNames == {"ID", "id", "region", "misspelt"}
MCUpper == [ID |-> "ID", Id |-> "ID", id |-> "ID", REGION |-> "REGION", region |-> "REGION",
            misspelt |-> "MISSPELT"]

\* The values tried for each parameter, as spelled.
Texts == [version |-> {"", "3.0.0", "v1.0.0", "3.256.0", "3.128.0", "three"},
          VERSION |-> {"", "3.0.0", "v1.0.0"},
          schema |-> {"", "S"}, Schema |-> {"", "T"},
          username |-> {"ignite", "other"}, password |-> {"secret"},
          tls |-> {"", "yes", "no"}, TLS |-> {"yes", "no"},
          skip |-> {"yes", "no"},
          pages |-> {"", "100", "0x10"}, timeout |-> {"", "100", "0x10", "soon"},
          cache |-> {"C"}]

MCLower == [k \in DOMAIN Texts |-> CASE k = "VERSION" -> "version"
                                     [] k = "Schema" -> "schema"
                                     [] k = "TLS" -> "tls"
                                     [] k = "skip" -> "tls-insecure-skip-verify"
                                     [] k = "pages" -> "page-size"
                                     [] OTHER -> k]

MCUrls == UNION {{u \in [S -> UNION {Texts[k] : k \in S}] : \A k \in S : u[k] \in Texts[k]} :
                   S \in UNION {kSubset(n, DOMAIN Texts) : n \in 0..3}}

MCSemver == ("3.0.0" :> <<3, 0, 0>>) @@ ("v1.0.0" :> <<1, 0, 0>>)
            @@ ("3.256.0" :> <<3, 256, 0>>) @@ ("3.128.0" :> <<3, 128, 0>>)
MCDecimal == {"100"}
MCLiteral == {"100", "0x10"}

Server(cert, auth, idle, ids, patch) ==
    [cert |-> cert, version |-> <<3, 0, 0>>, auth |-> auth,
     node |-> [IdleTimeout |-> idle, ClusterNodeId |-> "n", ClusterNodeName |-> "defaultNode",
               ClusterIds |-> ids, ClusterName |-> "test", ObservableTS |-> 1000, DBMSVer |-> <<3, 1, 0>>,
               DBMSVerPatch |-> patch, DBMSVerPreRelease |-> "", Features |-> 1]]

MCServers == {Server("none", NoAuth, 0, <<"c">>, ""),
              Server("none", NoAuth, 128, <<"c", "d">>, "p"),
              Server("none", [identity |-> "ignite", secret |-> "secret"], 127, <<>>, ""),
              Server("good", [identity |-> "ignite", secret |-> "secret"], 5000, <<"c">>, ""),
              Server("good", NoAuth, 0, <<"c">>, "p"),
              Server("bad", NoAuth, 0, <<"c">>, "")}
=============================================================================
