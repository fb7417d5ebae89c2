---------------------------- MODULE MCMcpServer -----------------------------
(* Servers and scripts for TLC. *)
EXTENDS McpServer, TLC

\* " a" and " _meta" have a blank before them, " " is nothing else.
MCName == {"a", "b", "c", "_meta", NoCollection, " a", " _meta", " "}
MCTrim == [n \in MCName |-> CASE n = " a" -> "a" [] n = " _meta" -> "_meta" [] n = " " -> NoCollection [] OTHER -> n]

D(x, p, n) == [x |-> x, p |-> p, n |-> n]
MCDoc == {D(TRUE, TRUE, 1), D(TRUE, FALSE, 2), D(FALSE, TRUE, 3)}

All == [field |-> "any", fn |-> "none", depth |-> 0]
M(kind, id, method) == [kind |-> kind, id |-> id, method |-> method, tool |-> "none",
                        name |-> NoCollection, many |-> FALSE, filter |-> All]
T(id, tool, name, many, filter) ==
  [M("request", id, "call") EXCEPT !.tool = tool, !.name = name, !.many = many, !.filter = filter]

Known == [All EXCEPT !.field = "x", !.fn = "known"]
Unknown == [Known EXCEPT !.fn = "unknown"]
Deep == [All EXCEPT !.depth = 2]

ReadOnly == "*" :> {"read"}
Mixed    == "*" :> {"read", "write"} @@ "a" :> {"read"} @@ "b" :> {"admin"}
Narrow   == "a" :> {"write"}
Spelled  == " a" :> {"write"} @@ "a" :> {"read"}
Listed   == {ReadOnly, Mixed, Narrow, Spelled}

Full == [c \in Collection |-> MCDoc \ {D(TRUE, TRUE, 1)}]

Server(kind, scopes, c1, c2, closes, leaves, distinct) ==
  [kind |-> kind, scopes |-> scopes, closes |-> closes, leaves |-> leaves, distinct |-> distinct,
   docs |-> Full, script |-> [c \in Client |-> IF c = "c1" THEN c1 ELSE c2]]

\* Two clients at a time, calls that overlap.
Http == {Server("http", s, <<T(1, "insert", n, FALSE, All), T(3, "find", "b", FALSE, All)>>,
                <<T(2, "delete", "b", TRUE, Known)>>, closes, ~closes, TRUE) :
           s \in Listed, n \in {"a", " a"}, closes \in BOOLEAN}

\* One client, and every kind of message.
Odd == {M("garbage", 0, "ping"), M("null", 0, "ping"), M("notification", 0, "ping"),
        M("request", 2, "list"), M("request", 2, "other"), T(2, "other", "a", FALSE, All),
        T(2, "update", "a", FALSE, Deep), T(2, "collections", NoCollection, FALSE, All),
        T(2, "find", "_meta", FALSE, All),
        T(2, "delete", " _meta", TRUE, All), T(2, "insert", " ", FALSE, All)}
Stdio == {Server("stdio", s, <<T(1, "update", "c", FALSE, Unknown), o, M("request", 4, "ping")>>, <<>>, TRUE, TRUE, TRUE)
            : s \in {ReadOnly, Mixed}, o \in Odd}

\* Clients that use the same ids.
Alike == {Server("http", Mixed, <<T(1, "find", "a", FALSE, All)>>, <<M("huge", 5, "ping"), M("request", 1, "ping")>>, FALSE, TRUE, FALSE)}

MCSetups == Http \union Stdio \union Alike
=============================================================================
