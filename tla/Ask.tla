-------------------------------- MODULE Ask ---------------------------------
(***************************************************************************)
(* db.ask(): questions that a language model translates into filters, which*)
(* are cached by collection, schema and question.  The cache is copied into*)
(* the _meta collection, saved with it, and read when the database is      *)
(* opened.  The schema of a collection that declares none is that of its   *)
(* first document, and changes with it.                                    *)
(***************************************************************************)
EXTENDS Provider, SequencesExt, FiniteSets

CONSTANTS Asker,      \* calls of ask()
          Question    \* what may be asked

\* maxSize and ttl (0: none) of the cache; schemas and time: bounds on the
\* changes of the schema and on the clock; restarts: whether the process may
\* end and start again; questions: what is asked; hash: what _djb2() makes of a
\* question and each schema, numbers of 32 bits of which any may be the same;
\* limits: of the adapter.
AskSetup == [maxSize : Nat, ttl : Nat, schemas : Nat, time : Nat, restarts : BOOLEAN,
             questions : SUBSET Question, hash : [Question -> Seq(Nat)], limits : Limits]

VARIABLES
  asking,   \* the configuration, which never changes
  schema,   \* the schema of the collection, by its number
  today,    \* the clock
  cache,    \* QueryCache: entries in the order of their keys
  meta,     \* queryCache in the document of _meta
  stored,   \* the same in storage
  asker     \* how far each call is

askVars == <<asking, schema, today, cache, meta, stored, asker>>

NoFilter == [for |-> "none", schema |-> 0, good |-> FALSE]
NoAsker == [stage |-> "idle", question |-> "none", schema |-> 0, filter |-> NoFilter,
            made |-> 0, heard |-> 0, request |-> NoRequest]

AskInit(a) ==
  /\ asking = a
  /\ schema = 1
  /\ today = 1
  /\ cache = <<>> /\ meta = <<>> /\ stored = <<>>
  /\ asker = [c \in Asker |-> NoAsker]

\* Mutant: the schema is not part of the key.
KeyOfQuestion(q, s) == asking.hash[q][1]

\* _key().
Key(q, s) == asking.hash[q][s]

Fresh(e) == asking.ttl = 0 \/ today - e.ts <= asking.ttl

\* Where a sequence of entries has a key.
At(s, k) == {i \in DOMAIN s : s[i].key = k}

\* get(): an entry that is too old is dropped.
Dropped(k) ==
  IF \E i \in At(cache, k) : ~Fresh(cache[i])
  THEN RemoveAt(cache, CHOOSE i \in At(cache, k) : ~Fresh(cache[i])) ELSE cache

\* set(): the oldest key goes when the cache is full and the key is new.
SetIn(s, e) ==
  IF At(s, e.key) # {} THEN [i \in DOMAIN s |-> IF s[i].key = e.key THEN e ELSE s[i]]
  ELSE Append(IF Len(s) >= asking.maxSize THEN Tail(s) ELSE s, e)

\* processLLMFilter() of a bad filter throws, and so does ask(); of a good one
\* it makes what find() is called with.
Ending(filter) == IF filter.good THEN "answered" ELSE "failed"

\* ask(): the schema as it is now; an answer of the cache, or a request.
Lookup(c) ==
  /\ asker[c].stage = "idle"
  /\ \E q \in asking.questions :
       LET k == Key(q, schema)
           asked == [NoAsker EXCEPT !.question = q, !.schema = schema]
       IN  /\ \/ \E i \in At(cache, k) :
                   LET e == cache[i]
                   IN  /\ Fresh(e)
                       /\ asker' = [asker EXCEPT ![c] =
                            [asked EXCEPT !.stage = Ending(e.filter), !.filter = e.filter,
                                          !.made = e.ts, !.heard = today]]
              \/ /\ \A i \in At(cache, k) : ~Fresh(cache[i])
                 /\ asker' = [asker EXCEPT ![c] = [asked EXCEPT !.stage = "generating", !.request = Send]]
           /\ cache' = Dropped(k)
  /\ UNCHANGED <<asking, schema, today, meta, stored>>

\* The model's filter, good or bad, is cached, also in _meta, and then processed.
Generated(c) ==
  /\ asker[c].stage = "generating" /\ asker[c].request.stage = "ok"
  /\ \E good \in BOOLEAN :
       LET f == [for |-> asker[c].question, schema |-> asker[c].schema, good |-> good]
       IN  /\ cache' = SetIn(cache, [key |-> Key(asker[c].question, asker[c].schema), filter |-> f, ts |-> today])
           /\ asker' = [asker EXCEPT ![c].stage = Ending(f), ![c].filter = f, ![c].made = today,
                                     ![c].heard = today, ![c].request = NoRequest]
  /\ meta' = cache'
  /\ UNCHANGED <<asking, schema, today, stored>>

AskerHears(c, moves) ==
  \E r \in moves :
    /\ asker' = [asker EXCEPT ![c].request = r,
                              ![c].stage = IF r.stage = "failed" THEN "failed" ELSE @]
    /\ UNCHANGED <<asking, schema, today, cache, meta, stored>>

AskArrival(c) == AskerHears(c, Arrivals(asker[c].request, asking.limits))
AskTimer(c) == AskerHears(c, Timers(asker[c].request, asking.limits))

\* _meta is saved; the process ends, and the cache is read when it starts.
SaveMeta ==
  /\ asking.restarts /\ stored # meta
  /\ stored' = meta
  /\ UNCHANGED <<asking, schema, today, cache, meta, asker>>

Restart ==
  /\ asking.restarts
  /\ cache' = stored /\ meta' = stored
  /\ asker' = [c \in Asker |-> IF asker[c].stage = "generating" THEN [asker[c] EXCEPT !.stage = "failed", !.request = NoRequest]
                               ELSE asker[c]]
  /\ UNCHANGED <<asking, schema, today, stored>>

SchemaChanges ==
  /\ schema < asking.schemas
  /\ schema' = schema + 1
  /\ UNCHANGED <<asking, today, cache, meta, stored, asker>>

DayPasses ==
  /\ today < asking.time
  /\ today' = today + 1
  /\ UNCHANGED <<asking, schema, cache, meta, stored, asker>>

AskStep ==
  \/ \E c \in Asker : Lookup(c) \/ Generated(c) \/ AskArrival(c)
  \/ SaveMeta \/ Restart \/ SchemaChanges \/ DayPasses

-----------------------------------------------------------------------------
(* Properties. *)

\* The cache, its copies too, has no more entries than maxSize, one for a key.
AskTypeOK ==
  /\ schema \in 1 .. asking.schemas /\ today \in 1 .. asking.time
  /\ \A s \in {cache, meta, stored} :
       /\ Len(s) <= asking.maxSize
       /\ \A i, j \in DOMAIN s : s[i].key = s[j].key => i = j
  /\ \A c \in Asker : /\ asker[c].stage \in {"idle", "generating", "answered", "failed"}
                      /\ asker[c].request.stage \in RequestStage
                      /\ asker[c].request.attempt \in 0 .. asking.limits.retries

\* The filter of a call was made for what it asks.
Own(c) == /\ asker[c].filter.for = asker[c].question
          /\ asker[c].filter.schema = asker[c].schema

\* Or for something that has the same hash.
SameHash(c) == asking.hash[asker[c].filter.for][asker[c].filter.schema]
                 = asking.hash[asker[c].question][asker[c].schema]

\* Every answer is found with a filter that the model made, no longer ago than
\* ttl, for this question and the schema the collection had when it was asked,
\* or for others of the same hash: across evictions, restarts, changes of the
\* schema, and askers that ask the same at the same time.
AnswersFit ==
  \A c \in Asker : asker[c].stage = "answered" =>
    /\ Own(c) \/ SameHash(c)
    /\ asking.ttl > 0 => asker[c].heard - asker[c].made <= asking.ttl

-----------------------------------------------------------------------------
(* A sentence of the documentation that the code does not keep, see README.  *)

\* The cache serves "the same question on the same schema" (ask.js:27).
AnswersAreOwn == \A c \in Asker : asker[c].stage = "answered" => Own(c)

=============================================================================
