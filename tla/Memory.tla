------------------------------- MODULE Memory -------------------------------
(***************************************************************************)
(* The memory of an agent: texts in a collection of their own, the oldest  *)
(* of which a language model summarises into one when there are too many.  *)
(* remember(), compress() and forget() of several callers overlap: each    *)
(* await of them is a turn of the event loop.  A text is the set of what it*)
(* tells; every text counts for one token.                                 *)
(***************************************************************************)
EXTENDS Provider, FiniteSets

CONSTANTS Caller,    \* calls of remember(), compress() and forget()
          Text       \* what is remembered

\* maxEntries (0: no limit), keepRecent and the threshold of compress(); serial:
\* one call after the other; fails: inserts and deletes may fail (with autoSave,
\* their saves do); ops: what is called; limits: of the adapters.
MemorySetup == [maxEntries : Nat, keepRecent : Nat, threshold : Nat, serial : BOOLEAN,
                fails : BOOLEAN, ops : SUBSET {"remember", "compress", "forget"}, limits : Limits]

VARIABLES
  memory,     \* the configuration, which never changes
  entries,    \* the documents of _memory_<session>, which createdAt orders
  clock,      \* the number of timestamps taken
  caller,     \* how far each call is
  remembered, \* texts whose remember() has stored them
  forgotten   \* texts whose forget() was called

memoryVars == <<memory, entries, clock, caller, remembered, forgotten>>

\* remember(): "embedding", then "stored", before it counts; compress():
\* "measuring", "listing", "summarizing", "deleting", "storing"; or failed.
CallerStage == {"idle", "embedding", "stored", "measuring", "listing", "summarizing",
                "deleting", "storing", "done", "failed"}

NoCaller == [stage |-> "idle", text |-> {}, at |-> 0, threshold |-> 0, old |-> {}, request |-> NoRequest]

MemoryInit(m) ==
  /\ memory = m
  /\ entries = {}
  /\ clock = 0
  /\ caller = [c \in Caller |-> NoCaller]
  /\ remembered = {}
  /\ forgotten = {}

CallerActive(c) == caller[c].stage \notin {"idle", "done", "failed"}

MayCall(c, op) ==
  /\ caller[c].stage = "idle" /\ op \in memory.ops
  /\ memory.serial => \A b \in Caller : ~CallerActive(b)

Goto(c, stage) == caller' = [caller EXCEPT ![c].stage = stage, ![c].request = NoRequest]

\* A document: its _id and createdAt are the time it was built at.
EntryOf(at, holds) == [at |-> at, holds |-> holds]

-----------------------------------------------------------------------------
(* remember(). *)

\* The document is built; its embedding is requested.
Remember(c) ==
  /\ MayCall(c, "remember")
  /\ \E t \in Text :
       /\ \A b \in Caller : t \notin caller[b].text
       /\ clock' = clock + 1
       /\ caller' = [caller EXCEPT ![c] = [NoCaller EXCEPT !.stage = "embedding", !.text = {t},
                                                           !.at = clock + 1, !.request = Send]]
  /\ UNCHANGED <<memory, entries, remembered, forgotten>>

\* It is inserted; if the save of it fails, remember() does.
Store(c) ==
  /\ caller[c].stage = "embedding" /\ caller[c].request.stage = "ok"
  /\ entries' = entries \union {EntryOf(caller[c].at, caller[c].text)}
  /\ remembered' = remembered \union caller[c].text
  /\ Goto(c, "stored") \/ (memory.fails /\ Goto(c, "failed"))
  /\ UNCHANGED <<memory, clock, forgotten>>

\* Mutant: compress() has the threshold it has by default.
CountAndMeasure(c) ==
  /\ caller[c].stage = "stored"
  /\ IF memory.maxEntries > 0 /\ Cardinality(entries) > memory.maxEntries
     THEN caller' = [caller EXCEPT ![c].stage = "measuring", ![c].threshold = memory.threshold]
     ELSE Goto(c, "done")
  /\ UNCHANGED <<memory, entries, clock, remembered, forgotten>>

\* count(), and compress({ threshold: 0 }) if there are too many.
Count(c) ==
  /\ caller[c].stage = "stored"
  /\ IF memory.maxEntries > 0 /\ Cardinality(entries) > memory.maxEntries
     THEN caller' = [caller EXCEPT ![c].stage = "measuring", ![c].threshold = 0]
     ELSE Goto(c, "done")
  /\ UNCHANGED <<memory, entries, clock, remembered, forgotten>>

-----------------------------------------------------------------------------
(* compress(). *)

Compress(c) ==
  /\ MayCall(c, "compress")
  /\ caller' = [caller EXCEPT ![c] = [NoCaller EXCEPT !.stage = "measuring", !.threshold = memory.threshold]]
  /\ UNCHANGED <<memory, entries, clock, remembered, forgotten>>

\* tokenCount().
Measure(c) ==
  /\ caller[c].stage = "measuring"
  /\ Goto(c, IF Cardinality(entries) <= caller[c].threshold THEN "done" ELSE "listing")
  /\ UNCHANGED <<memory, entries, clock, remembered, forgotten>>

\* All entries but the newest keepRecent, going by createdAt.
Oldest ==
  {e \in entries : Cardinality({f \in entries : f.at > e.at}) >= memory.keepRecent}

\* What is to be summarised; the language model is asked.
List(c) ==
  /\ caller[c].stage = "listing"
  /\ IF Oldest = {} THEN Goto(c, "done")
     ELSE caller' = [caller EXCEPT ![c].stage = "summarizing", ![c].old = Oldest, ![c].request = Send]
  /\ UNCHANGED <<memory, entries, clock, remembered, forgotten>>

Summarized(c) ==
  /\ caller[c].stage = "summarizing" /\ caller[c].request.stage = "ok"
  /\ Goto(c, "deleting")
  /\ UNCHANGED <<memory, entries, clock, remembered, forgotten>>

\* Mutant: everything but the newest entries is deleted, as it is by now.
DeleteByAge(c) ==
  /\ caller[c].stage = "deleting"
  /\ entries' = entries \ Oldest
  /\ Goto(c, "storing") \/ (memory.fails /\ Goto(c, "failed"))
  /\ UNCHANGED <<memory, clock, remembered, forgotten>>

\* deleteMany() of what was listed, by _id; its save may fail, and then there is
\* no summary.
DeleteOld(c) ==
  /\ caller[c].stage = "deleting"
  /\ entries' = {e \in entries : \A f \in caller[c].old : f.at # e.at}
  /\ Goto(c, "storing") \/ (memory.fails /\ Goto(c, "failed"))
  /\ UNCHANGED <<memory, clock, remembered, forgotten>>

TextOf(es) == UNION {e.holds : e \in es}

\* The summary is inserted, with the time of now and without an embedding.
StoreSummary(c) ==
  /\ caller[c].stage = "storing"
  /\ clock' = clock + 1
  /\ entries' = entries \union {EntryOf(clock + 1, TextOf(caller[c].old))}
  /\ Goto(c, "done")
  /\ UNCHANGED <<memory, remembered, forgotten>>

-----------------------------------------------------------------------------
(* forget(), and the requests. *)

Forget(c) ==
  /\ MayCall(c, "forget")
  /\ \E e \in entries :
       /\ Cardinality(e.holds) = 1
       /\ entries' = {f \in entries : f.at # e.at}
       /\ forgotten' = forgotten \union e.holds
  /\ Goto(c, "done")
  /\ UNCHANGED <<memory, clock, remembered>>

\* The request moves on; when it fails, so does the call.
CallerHears(c, moves) ==
  \E r \in moves :
    /\ caller' = [caller EXCEPT ![c].request = r,
                                ![c].stage = IF r.stage = "failed" THEN "failed" ELSE @]
    /\ UNCHANGED <<memory, entries, clock, remembered, forgotten>>

MemoryArrival(c) == CallerHears(c, Arrivals(caller[c].request, memory.limits))
MemoryTimer(c) == CallerHears(c, Timers(caller[c].request, memory.limits))

MemoryStep(c) ==
  \/ Remember(c) \/ Store(c) \/ Count(c)
  \/ Compress(c) \/ Measure(c) \/ List(c) \/ Summarized(c) \/ DeleteOld(c) \/ StoreSummary(c)
  \/ Forget(c)
  \/ MemoryArrival(c)

-----------------------------------------------------------------------------
(* Properties. *)

MemoryTypeOK ==
  /\ \A e \in entries : e.at \in 1 .. clock /\ e.holds \in SUBSET Text
  /\ \A c \in Caller : /\ caller[c].stage \in CallerStage
                       /\ caller[c].request.stage \in RequestStage
                       /\ caller[c].request.attempt \in 0 .. memory.limits.retries
  /\ remembered \subseteq Text /\ forgotten \subseteq remembered

\* However remember() and compress() of several callers overlap, and whenever the
\* language model answers or fails, what was remembered and not forgotten is in
\* an entry, as it was or in a summary, or with a call that is about to store
\* its summary.  Not said where a delete or an insert of compress() fails: the
\* entries are deleted first.
MemoriesKept ==
  ~memory.fails =>
    \A t \in remembered \ forgotten :
      \/ \E e \in entries : t \in e.holds
      \/ \E c \in Caller : caller[c].stage = "storing" /\ t \in TextOf(caller[c].old)

\* Between calls that do not overlap, each text is in one entry, and there are no
\* more entries than maxEntries, or than keepRecent and a summary if these are
\* more, unless a language model failed.
MemoryIsCompact ==
  (memory.serial /\ ~memory.fails /\ \A c \in Caller : ~CallerActive(c)) =>
    /\ \A e, f \in entries : e.holds \cap f.holds # {} => e = f
    /\ (memory.maxEntries > 0 /\ \A c \in Caller : caller[c].stage # "failed") =>
         \/ Cardinality(entries) <= memory.maxEntries
         \/ Cardinality(entries) <= memory.keepRecent + 1

-----------------------------------------------------------------------------
(* Sentences of the documentation that the code does not keep.             *)

\* documentation.md:1464 "replaces them with a single compressed entry", with
\* calls that overlap, and with a delete that fails.
OneSummary ==
  (\A c \in Caller : ~CallerActive(c)) =>
    \A t \in remembered \ forgotten :
      Cardinality({e \in entries : t \in e.holds}) = 1

\* memory.js:106 "Delete a specific memory by _id", while it is summarised.
ForgottenForGood ==
  \A e \in entries : e.holds \cap forgotten = {}
=============================================================================
