----------------------------- MODULE McpServer ------------------------------
(***************************************************************************)
(* The MCP server and its clients.  Each message is handled on its own: a  *)
(* tool call runs beside the others and is answered when it is over.  With *)
(* stdio there is one client, whose lines arrive in order, and the process *)
(* ends with its input.  With HTTP every message is a POST, and an answer  *)
(* is sent to every client that has a stream.  close() and listen() may    *)
(* come while calls run: an answer goes to the transport that is there then*)
(*                                                                         *)
(* The database is a set of documents per collection; an operation on it   *)
(* changes documents in one turn, and ends in a later one.                 *)
(***************************************************************************)
EXTENDS McpTools, Sequences

CONSTANTS Client, Doc, MaxDepth, McpSetups,
          MaxMessages  \* messages of a client, at most

\* A message: a request, a notification (also what is JSON and no object: it has
\* no id either), the JSON null, text that is no JSON, or a body beyond
\* maxBodySize.  The method is "tools/call" with its arguments, "tools/list",
\* one of those that are answered with a constant ("ping"), or none of these.
Message == [kind : {"request", "notification", "null", "garbage", "huge"}, id : Nat,
            method : {"call", "list", "ping", "other"}, tool : Tools \union {"none", "other"},
            name : Name, many : BOOLEAN, filter : Filter]

\* The id of an answer to a message whose id could not be read.
NoId == 0

\* A server and its clients.  kind of the transport; scopes; docs at the start;
\* script: what each client sends, in order; closes: whether the server is
\* closed; leaves: whether clients go away; distinct: no two requests have the
\* same id.  "another" is a name that no scopes have.
ASSUME McpAssumption ==
  /\ "another" \notin Name
  /\ MaxDepth \in Nat /\ MaxMessages \in Nat
  /\ \A s \in McpSetups :
       /\ s.kind \in {"stdio", "http"}
       /\ {s.closes, s.leaves, s.distinct} \subseteq BOOLEAN
       /\ DOMAIN s.scopes \subseteq (Name \ {NoCollection}) \union {"*"}
       /\ s.docs \in [Collection -> SUBSET Doc]
       /\ s.script \in [Client -> Seq(Message)]
       /\ \A c \in Client :
            /\ Len(s.script[c]) <= MaxMessages
            /\ \A i \in 1 .. Len(s.script[c]) :
                 s.script[c][i].kind = "request" =>
                   /\ s.script[c][i].id # NoId
                   /\ s.distinct =>
                        \A d \in Client : \A j \in 1 .. Len(s.script[d]) :
                          s.script[d][j].kind = "request" /\ s.script[d][j].id = s.script[c][i].id
                            => c = d /\ i = j

VARIABLES
  setup,      \* which never changes
  transport,  \* "open"; "closing", "closed": close() until it resolves, and after; "exited"
  streams,    \* clients that have a stream
  sent,       \* how many messages each client has sent
  pipe,       \* messages on their way, as <<client, number>>
  running,    \* tool calls: the message, the id to answer, how far it is
  got,        \* the answers each client got, in order
  replies,    \* how often each message was answered
  excused,    \* messages whose client went away, or whose server was closed
  docs,       \* the documents of each collection
  effects     \* who changed what, for the properties

vars == <<setup, transport, streams, sent, pipe, running, got, replies, excused, docs, effects>>

Messages == {m \in Client \X (1 .. MaxMessages) : m[2] <= Len(setup.script[m[1]])}
Body(m) == setup.script[m[1]][m[2]]

McpInit ==
  /\ setup \in McpSetups
  /\ transport = "open"
  /\ streams = IF setup.kind = "stdio" THEN {c \in Client : setup.script[c] # <<>>} ELSE {}
  /\ sent = [c \in Client |-> 0]
  /\ pipe = {} /\ running = {}
  /\ got = [c \in Client |-> <<>>]
  /\ replies = [m \in Messages |-> 0]
  /\ excused = {}
  /\ docs = setup.docs
  /\ effects = {}

-----------------------------------------------------------------------------
(* Answers. *)

\* send(): to stdout, until close() has resolved; to every stream, of which
\* there are none once the transport stops.
Reaches == IF transport = "open" \/ (setup.kind = "stdio" /\ transport = "closing") THEN streams ELSE {}

\* The answer to a message that carries this id.
Reply(m, id, what) ==
  /\ got' = [c \in Client |-> IF c \in Reaches THEN Append(got[c], [id |-> id, for |-> m, what |-> what])
                              ELSE got[c]]
  /\ replies' = [replies EXCEPT ![m] = @ + 1]

NoReply == UNCHANGED <<got, replies>>

-----------------------------------------------------------------------------
(* Messages arrive. *)

\* A line, or a POST; a client with no stream will not hear of it.
SendMessage(c) ==
  /\ transport # "exited"
  /\ sent[c] < Len(setup.script[c])
  /\ sent' = [sent EXCEPT ![c] = @ + 1]
  /\ LET m == <<c, sent[c] + 1>>
     IN  /\ pipe' = pipe \union {m}
         /\ excused' = IF c \in streams /\ transport = "open" THEN excused ELSE excused \union {m}
  /\ UNCHANGED <<setup, transport, streams, running, got, replies, docs, effects>>

\* stdio reads its lines in order; POSTs overtake one another, and those that
\* are under way are still read when the server stops.
Arrives(m) ==
  /\ m \in pipe
  /\ IF setup.kind = "stdio" THEN transport = "open" /\ \A o \in pipe : m[2] <= o[2]
     ELSE transport \in {"open", "closing"}
  /\ pipe' = pipe \ {m}

\* Text that is no JSON has an answer without an id; the JSON null makes the
\* handler throw, and nobody hears of it.
Malformed(m) ==
  /\ Arrives(m)
  /\ Body(m).kind # "request"
  /\ IF Body(m).kind = "garbage" THEN Reply(m, NoId, "error") ELSE NoReply
  /\ UNCHANGED <<setup, transport, streams, sent, running, excused, docs, effects>>

\* The router, for what is answered at once.
Simple(m) ==
  LET t == Body(m)
  IN  /\ Arrives(m)
      /\ t.kind = "request" /\ t.method # "call"
      /\ Reply(m, t.id, IF t.method = "list" THEN "tools" ELSE IF t.method = "ping" THEN "ok" ELSE "error")
      /\ UNCHANGED <<setup, transport, streams, sent, running, excused, docs, effects>>

\* _handleToolCall(): no such tool, no permission, arguments that callTool()
\* rejects; or the operation begins.
ToolCall(m) ==
  LET t == Body(m)
  IN  /\ Arrives(m)
      /\ t.kind = "request" /\ t.method = "call"
      /\ IF t.tool \notin Tools
         THEN Reply(m, t.id, "error") /\ UNCHANGED running
         ELSE IF ~HasScope(setup.scopes, t.name, ScopeOf(t.tool))
         THEN Reply(m, t.id, "denied") /\ UNCHANGED running
         ELSE IF Rejects(t.tool, t.name, t.filter, MaxDepth)
         THEN Reply(m, t.id, "failed") /\ UNCHANGED running
         ELSE /\ running' = running \union {[msg |-> m, id |-> t.id, stage |-> "begun"]}
              /\ NoReply
      /\ UNCHANGED <<setup, transport, streams, sent, excused, docs, effects>>

-----------------------------------------------------------------------------
(* Tool calls. *)

\* Documents that an operation may change: all that match, or the first.
Chosen(t) ==
  LET match == {d \in docs[CollectionOf(t.name)] : Matches(d, Sanitize(t.filter))}
  IN  IF t.many THEN {match} ELSE IF match = {} THEN {{}} ELSE {{d} : d \in match}

\* The turn in which a write changes the collection.
Change(r) ==
  LET t   == Body(r.msg)
      col == CollectionOf(t.name)
  IN  /\ r \in running /\ r.stage = "begun" /\ t.tool \in WriteTools
      /\ transport # "exited"
      /\ \E ds \in IF t.tool = "insert" THEN {{d} : d \in Doc \ docs[col]} ELSE Chosen(t) :
           /\ docs' = [docs EXCEPT ![col] = IF t.tool = "insert" THEN @ \union ds
                                            ELSE IF t.tool = "delete" THEN @ \ ds ELSE @]
           /\ effects' = effects \union {[msg |-> r.msg, col |-> col, doc |-> d] : d \in ds}
      /\ running' = (running \ {r}) \union {[r EXCEPT !.stage = "changed"]}
      /\ UNCHANGED <<setup, transport, streams, sent, pipe, got, replies, excused>>

\* Mutant: a call that fails is not answered.
FinishGood(r) ==
  /\ r \in running /\ transport # "exited"
  /\ running' = running \ {r}
  /\ \/ (Body(r.msg).tool \in ReadTools \/ r.stage = "changed") /\ Reply(r.msg, r.id, "ok")
     \/ NoReply
  /\ UNCHANGED <<setup, transport, streams, sent, pipe, excused, docs, effects>>

\* Mutant: the answer has the id of the last call.
FinishWithLast(r) ==
  LET ids == {q.id : q \in running}
  IN  /\ r \in running /\ transport # "exited"
      /\ running' = running \ {r}
      /\ \/ /\ Body(r.msg).tool \in ReadTools \/ r.stage = "changed"
            /\ Reply(r.msg, CHOOSE i \in ids : \A j \in ids : j <= i, "ok")
         \/ Reply(r.msg, r.id, "failed")
      /\ UNCHANGED <<setup, transport, streams, sent, pipe, excused, docs, effects>>

\* The operation ends, or fails, before the change or after it (a save).
Finish(r) ==
  /\ r \in running /\ transport # "exited"
  /\ running' = running \ {r}
  /\ \/ (Body(r.msg).tool \in ReadTools \/ r.stage = "changed") /\ Reply(r.msg, r.id, "ok")
     \/ Reply(r.msg, r.id, "failed")
  /\ UNCHANGED <<setup, transport, streams, sent, pipe, excused, docs, effects>>

-----------------------------------------------------------------------------
(* Transports. *)

Unanswered(cs) == {m \in Messages : m[1] \in cs /\ m[2] <= sent[m[1]] /\ replies[m] = 0}

\* GET /sse.
OpenStream(c) ==
  /\ setup.kind = "http" /\ transport = "open" /\ c \notin streams
  /\ streams' = streams \union {c}
  /\ UNCHANGED <<setup, transport, sent, pipe, running, got, replies, excused, docs, effects>>

\* The client goes: its stream ends; or its output does, and with it the process.
Leave(c) ==
  /\ setup.leaves /\ c \in streams
  /\ IF setup.kind = "http"
     THEN streams' = streams \ {c} /\ UNCHANGED transport
     ELSE transport = "open" /\ transport' = "exited" /\ UNCHANGED streams
  /\ excused' = excused \union Unanswered({c})
  /\ UNCHANGED <<setup, sent, pipe, running, got, replies, docs, effects>>

\* close(): the transport stops, which ends the streams of HTTP.
Close ==
  /\ setup.closes /\ transport = "open"
  /\ transport' = "closing"
  /\ streams' = IF setup.kind = "http" THEN {} ELSE streams
  /\ excused' = excused \union Unanswered(Client)
  /\ UNCHANGED <<setup, sent, pipe, running, got, replies, docs, effects>>

\* It has stopped: what was on its way is lost.
Closed ==
  /\ transport = "closing"
  /\ transport' = "closed"
  /\ pipe' = {}
  /\ UNCHANGED <<setup, streams, sent, running, got, replies, excused, docs, effects>>

\* listen() once more.
Listen ==
  /\ transport = "closed"
  /\ transport' = "open"
  /\ pipe' = {}
  /\ UNCHANGED <<setup, streams, sent, running, got, replies, excused, docs, effects>>

Handle(m) == Malformed(m) \/ Simple(m) \/ ToolCall(m)

McpNext ==
  \/ \E c \in Client : SendMessage(c) \/ OpenStream(c) \/ Leave(c)
  \/ \E m \in pipe : Handle(m)
  \/ \E r \in running : Change(r) \/ Finish(r)
  \/ Close \/ Closed \/ Listen

\* Messages arrive, and operations of the database end.
McpFairness ==
  /\ \A m \in Client \X (1 .. MaxMessages) : WF_vars(m \in pipe /\ Handle(m))
  /\ \A m \in Client \X (1 .. MaxMessages) : WF_vars(\E r \in running : r.msg = m /\ Finish(r))

McpSpec == McpInit /\ [][McpNext]_vars /\ McpFairness

-----------------------------------------------------------------------------
(* Properties. *)

NeedsAnswer(m) == Body(m).kind \in {"request", "garbage"}

\* Every variable has its type; what runs was sent, and what was answered ran.
McpTypeOK ==
  /\ transport \in {"open", "closing", "closed", "exited"}
  /\ streams \subseteq Client
  /\ \A m \in pipe \union {r.msg : r \in running} : m \in Messages /\ m[2] <= sent[m[1]] /\ replies[m] = 0
  /\ \A c \in Collection : docs[c] \subseteq Doc

\* A message is answered at most once, a notification never; and what a client
\* gets with the id of one of its requests is the answer to it, in whatever order
\* calls end, answers are broadcast, and the server is closed and started again,
\* as long as no two requests have the same id.
AnswersMatch ==
  /\ \A m \in Messages : replies[m] <= (IF NeedsAnswer(m) THEN 1 ELSE 0)
  /\ setup.distinct =>
       \A m \in Messages : \A k \in DOMAIN got[m[1]] :
         (Body(m).kind = "request" /\ got[m[1]][k].id = Body(m).id) => got[m[1]][k].for = m

\* The entry of a name, or else that of the wildcard, lets documents change.
LetsWrite(name) ==
  LET entry == IF name \in DOMAIN setup.scopes THEN name ELSE "*"
  IN  entry \in DOMAIN setup.scopes /\ setup.scopes[entry] \cap {"write", "admin"} # {}

\* Documents change only in collections, by tools that the scopes grant on their
\* collection (its entry, or else that of the wildcard) or, for a name that was
\* sent with blanks, on that name; only those change that match what the agent
\* sent as far as its predicates are registered; and tools/list shows, of the
\* tools that work on a collection, those that are granted for some name.
ScopesHold ==
  /\ \A e \in effects :
       LET t == Body(e.msg)
       IN  /\ e.col \in Collection
           /\ LetsWrite(e.col) \/ (t.name # e.col /\ LetsWrite(t.name))
           /\ t.tool # "insert" => Matches(e.doc, [t.filter EXCEPT !.fn = IF @ = "known" THEN @ ELSE "none"])
  /\ \A t \in Tools \ {"collections"} :
       t \in VisibleTools(setup.scopes) <=>
         \E c \in (DOMAIN setup.scopes \ {"*"}) \union {"another"} : HasScope(setup.scopes, c, ScopeOf(t))

\* A client that keeps its stream has an answer to every request, unless the
\* server is closed: also when the tool fails.
RequestsAreAnswered ==
  \A m \in Client \X (1 .. MaxMessages) :
    (m \in Messages /\ m[2] <= sent[m[1]] /\ NeedsAnswer(m) /\ m \notin excused)
      ~> (m \in excused \/ \E k \in DOMAIN got[m[1]] : got[m[1]][k].for = m)

-----------------------------------------------------------------------------
(* Sentences of the documentation that the code does not keep.             *)

\* http.js:8 "Multiple simultaneous SSE clients are supported": two clients that
\* number their requests from one take each other's answers.
ClientsAreApart ==
  \A c \in Client : \A m \in Messages :
    LET mine == {k \in DOMAIN got[c] : got[c][k].id = Body(m).id}
    IN  (m[1] = c /\ Body(m).kind = "request" /\ m[2] <= sent[c] /\ mine # {}) =>
          got[c][CHOOSE k \in mine : \A j \in mine : k <= j].for = m

\* index.js:207 "collection-specific rule takes precedence over wildcard": the
\* rule is looked up by the name as it was sent, which the tool trims; a name
\* with blanks around it has no rule, and is left to the wildcard.
ScopesAreOfCollections == \A e \in effects : LetsWrite(e.col)

\* index.js:182 "Tools whose scope is not granted on any collection are
\* excluded": skalex_collections has no collection, and is listed where calls
\* of it are denied.
ListedIsCallable ==
  "collections" \in VisibleTools(setup.scopes) => HasScope(setup.scopes, NoCollection, "read")
=============================================================================
