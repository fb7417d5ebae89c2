-------------------------- MODULE ConnectorsProofs --------------------------
(***************************************************************************)
(* Theorems about the parts that face models and agents: Agent (memory and *)
(* ask()), for any callers, texts and limits, and McpServer, for any       *)
(* scopes, any number of clients, whatever they send, and any collections  *)
(* and documents.                                                          *)
(***************************************************************************)
EXTENDS Agent, McpServer, SequenceTheorems, FiniteSetTheorems, TLAPS

-----------------------------------------------------------------------------
(***************************************************************************)
(* Agent: what an agent remembers is kept.                                 *)
(*                                                                         *)
(* MemoriesKept needs to know that deleteMany() by _id deletes what was    *)
(* summarised and nothing else: that documents with one _id are one        *)
(* document, those listed by a call and those it will insert included      *)
(* (IdsAreUnique); and that nothing but its own steps ends a call that is  *)
(* about to store its summary (Quiet).                                     *)
(***************************************************************************)

Entry == [at : Nat, holds : SUBSET Text]
Request == [stage : RequestStage, attempt : Nat]
CallerState == [stage : CallerStage, text : SUBSET Text, at : Nat, threshold : Nat,
                old : SUBSET Entry, request : Request]

MemoryTypes ==
  /\ memory \in MemorySetup
  /\ entries \in SUBSET Entry
  /\ clock \in Nat
  /\ caller \in [Caller -> CallerState]
  /\ remembered \in SUBSET Text
  /\ forgotten \in SUBSET Text

\* Documents there are, were, or will be inserted by remember().
Documents ==
  entries \union (UNION {caller[c].old : c \in Caller})
          \union {EntryOf(caller[c].at, caller[c].text) :
                    c \in {d \in Caller : caller[d].stage = "embedding"}}

IdsAreUnique ==
  /\ \A e \in Documents : e.at <= clock
  /\ \A e, f \in Documents : e.at = f.at => e = f

\* Where a call awaits the database, it has no request.
Quiet ==
  \A c \in Caller :
    caller[c].stage \notin {"embedding", "summarizing"} => caller[c].request.stage \notin {"sent", "waiting", "body"}

MemoryInv == MemoryTypes /\ IdsAreUnique /\ Quiet /\ MemoriesKept

-----------------------------------------------------------------------------
(* A request moves on to a request, unless it was not under way.           *)

LEMMA MovesAreRequests ==
  ASSUME NEW r \in Request, NEW l \in Limits,
         NEW q \in Arrivals(r, l) \union Timers(r, l)
  PROVE  q \in Request /\ r.stage \in {"sent", "waiting", "body"}
<1>1. FetchFails(r, l) \in Request
  BY DEF FetchFails, Request, RequestStage
<1>2. q \in {FetchFails(r, l), [r EXCEPT !.stage = "body"], [r EXCEPT !.stage = "ok"],
             [r EXCEPT !.stage = "failed"], [stage |-> "sent", attempt |-> r.attempt + 1]}
      /\ r.stage \in {"sent", "waiting", "body"}
  BY DEF Arrivals, Timers, Request
<1>3. QED
  BY <1>1, <1>2 DEF Request, RequestStage

\* No new documents, or one with a new _id.
LEMMA IdsStayUnique ==
  ASSUME MemoryTypes, IdsAreUnique, clock' \in Nat,
         \/ Documents' \subseteq Documents /\ clock <= clock'
         \/ \E n : /\ Documents' \subseteq Documents \union {n}
                   /\ n.at = clock + 1 /\ clock' = clock + 1
  PROVE  IdsAreUnique'
<1>1. Documents \subseteq Entry
  BY DEF Documents, MemoryTypes, CallerState, Entry, EntryOf
<1>2. \A e \in Documents : e.at \in Nat
  BY <1>1 DEF Entry
<1>3. CASE Documents' \subseteq Documents /\ clock <= clock'
  BY <1>2, <1>3 DEF IdsAreUnique, MemoryTypes
<1>4. CASE \E n : /\ Documents' \subseteq Documents \union {n}
                  /\ n.at = clock + 1 /\ clock' = clock + 1
  BY <1>2, <1>4 DEF IdsAreUnique, MemoryTypes
<1>5. QED
  BY <1>3, <1>4

LEMMA NoCallerIsAState ==
  NoCaller \in CallerState /\ NoCaller.old = {} /\ NoCaller.request.stage = "none"
BY DEF NoCaller, CallerState, CallerStage, NoRequest, Request, RequestStage

LEMMA InitInv == Init => MemoryInv
<1> SUFFICES ASSUME Init PROVE MemoryInv
  OBVIOUS
<1>1. PICK s \in AgentSetups : MemoryInit(s[1])
  BY DEF Init
<1>2. memory \in MemorySetup
  BY <1>1, AgentAssumption DEF MemoryInit
<1>3. NoCaller \in CallerState
  BY NoCallerIsAState
<1>4. /\ entries = {} /\ clock = 0 /\ remembered = {} /\ forgotten = {}
      /\ caller = [c \in Caller |-> NoCaller]
  BY <1>1 DEF MemoryInit
<1>5. MemoryTypes
  BY <1>2, <1>3, <1>4 DEF MemoryTypes
<1>6. Documents = {}
  BY <1>4 DEF Documents, NoCaller
<1>7. IdsAreUnique
  BY <1>6 DEF IdsAreUnique
<1>8. Quiet
  BY <1>4 DEF Quiet, NoCaller, NoRequest
<1>9. MemoriesKept
  BY <1>4 DEF MemoriesKept
<1>10. QED
  BY <1>5, <1>7, <1>8, <1>9 DEF MemoryInv

\* A call goes on, or fails, and documents stay as they are.
LEMMA CallGoesOn ==
  ASSUME MemoryInv, NEW c \in Caller, NEW q \in CallerState,
         caller' = [caller EXCEPT ![c] = q],
         UNCHANGED <<memory, entries, clock, remembered, forgotten>>,
         q.old \subseteq caller[c].old \union entries,
         q.stage = "embedding" => caller[c].stage = "embedding" /\ q.at = caller[c].at /\ q.text = caller[c].text,
         q.stage \notin {"embedding", "summarizing"} => q.request.stage \notin {"sent", "waiting", "body"},
         caller[c].stage # "storing"
  PROVE  MemoryInv'
<1> USE DEF MemoryInv
<1>1. MemoryTypes'
  BY DEF MemoryTypes
<1>2. /\ caller'[c] = q
      /\ \A d \in Caller \ {c} : caller'[d] = caller[d]
  BY DEF MemoryTypes
<1>3. IdsAreUnique'
  <2>1. (UNION {caller'[d].old : d \in Caller}) \subseteq (UNION {caller[d].old : d \in Caller}) \union entries
    BY <1>2
  <2>2. \A d \in Caller : caller'[d].stage = "embedding" =>
          caller[d].stage = "embedding" /\ EntryOf(caller'[d].at, caller'[d].text) = EntryOf(caller[d].at, caller[d].text)
    BY <1>2
  <2>3. Documents' \subseteq Documents
    BY <2>1, <2>2 DEF Documents
  <2>4. clock' \in Nat /\ clock <= clock'
    BY DEF MemoryTypes
  <2>5. QED
    BY <2>3, <2>4, IdsStayUnique
<1>4. Quiet'
  BY <1>2 DEF Quiet
<1>5. MemoriesKept'
  BY <1>2 DEF MemoriesKept, TextOf
<1>6. QED
  BY <1>1, <1>3, <1>4, <1>5

-----------------------------------------------------------------------------
(* Steps. *)

LEMMA GotoIsAState ==
  ASSUME MemoryTypes, NEW c \in Caller, NEW stage \in CallerStage
  PROVE  /\ [caller[c] EXCEPT !.stage = stage, !.request = NoRequest] \in CallerState
         /\ [caller EXCEPT ![c].stage = stage, ![c].request = NoRequest]
              = [caller EXCEPT ![c] = [caller[c] EXCEPT !.stage = stage, !.request = NoRequest]]
BY DEF MemoryTypes, CallerState, NoRequest, Request, RequestStage

LEMMA GotoKeeps ==
  ASSUME MemoryInv, NEW c \in Caller, NEW stage \in CallerStage \ {"embedding"}, Goto(c, stage),
         UNCHANGED <<memory, entries, clock, remembered, forgotten>>,
         caller[c].stage # "storing"
  PROVE  MemoryInv'
<1> DEFINE q == [caller[c] EXCEPT !.stage = stage, !.request = NoRequest]
<1>1. q \in CallerState /\ caller' = [caller EXCEPT ![c] = q]
  BY GotoIsAState DEF MemoryInv, Goto
<1>2. q.old = caller[c].old /\ q.stage = stage /\ q.request = NoRequest
  BY DEF MemoryInv, MemoryTypes, CallerState
<1> HIDE DEF q
<1>3. q.request.stage = "none"
  BY <1>2 DEF NoRequest
<1>4. QED
  BY <1>1, <1>2, <1>3, CallGoesOn

LEMMA RequestMoves ==
  ASSUME MemoryInv, NEW c \in Caller, MemoryArrival(c) \/ MemoryTimer(c)
  PROVE  MemoryInv'
<1>1. caller[c].request \in Request /\ memory.limits \in Limits /\ caller[c] \in CallerState
  BY DEF MemoryInv, MemoryTypes, CallerState, MemorySetup
<1>2. PICK r \in Arrivals(caller[c].request, memory.limits) \union Timers(caller[c].request, memory.limits) :
        /\ caller' = [caller EXCEPT ![c].request = r,
                                    ![c].stage = IF r.stage = "failed" THEN "failed" ELSE @]
        /\ UNCHANGED <<memory, entries, clock, remembered, forgotten>>
  BY DEF MemoryArrival, MemoryTimer, CallerHears
<1>3. r \in Request /\ caller[c].request.stage \in {"sent", "waiting", "body"}
  BY <1>1, <1>2, MovesAreRequests
<1>4. caller[c].stage \in {"embedding", "summarizing"}
  BY <1>3 DEF MemoryInv, Quiet
<1> DEFINE q == [caller[c] EXCEPT !.request = r, !.stage = IF r.stage = "failed" THEN "failed" ELSE @]
<1>5. q \in CallerState /\ caller' = [caller EXCEPT ![c] = q]
  BY <1>1, <1>2, <1>3 DEF CallerState, CallerStage, MemoryInv, MemoryTypes
<1>6. /\ q.old = caller[c].old /\ q.at = caller[c].at /\ q.text = caller[c].text /\ q.request = r
      /\ q.stage = IF r.stage = "failed" THEN "failed" ELSE caller[c].stage
  BY <1>1 DEF CallerState
<1> HIDE DEF q
<1>7. q.stage = "embedding" => caller[c].stage = "embedding"
  BY <1>6
<1>8. q.stage \notin {"embedding", "summarizing"} => q.request.stage \notin {"sent", "waiting", "body"}
  BY <1>4, <1>6
<1>9. QED
  BY <1>2, <1>4, <1>5, <1>6, <1>7, <1>8, CallGoesOn

LEMMA RememberKeeps ==
  ASSUME MemoryInv, NEW c \in Caller, Remember(c)
  PROVE  MemoryInv'
<1> USE DEF MemoryInv
<1>1. PICK t \in Text :
        /\ clock' = clock + 1
        /\ caller' = [caller EXCEPT ![c] = [NoCaller EXCEPT !.stage = "embedding", !.text = {t},
                                                            !.at = clock + 1, !.request = Send]]
  BY DEF Remember
<1>2. UNCHANGED <<memory, entries, remembered, forgotten>> /\ caller[c].stage = "idle"
  BY DEF Remember, MayCall
<1> DEFINE q == [NoCaller EXCEPT !.stage = "embedding", !.text = {t}, !.at = clock + 1,
                                 !.request = Send]
<1>3. q \in CallerState
  <2>1. Send \in Request /\ "embedding" \in CallerStage /\ {t} \in SUBSET Text
    BY DEF Send, Request, RequestStage, CallerStage
  <2>2. clock + 1 \in Nat
    BY DEF MemoryTypes
  <2>3. QED
    BY <2>1, <2>2, NoCallerIsAState DEF CallerState
<1>4. caller' = [caller EXCEPT ![c] = q]
  BY <1>1
<1>5. q.stage = "embedding" /\ q.at = clock + 1 /\ q.text = {t} /\ q.old = {}
  BY NoCallerIsAState DEF CallerState
<1> HIDE DEF q
<1>6. MemoryTypes'
  BY <1>1, <1>2, <1>3, <1>4 DEF MemoryTypes
<1>7. caller'[c] = q /\ \A d \in Caller \ {c} : caller'[d] = caller[d]
  BY <1>4 DEF MemoryTypes
<1>8. IdsAreUnique'
  <2>1. Documents' \subseteq Documents \union {EntryOf(clock + 1, {t})}
    BY <1>2, <1>5, <1>7, ZenonT(40) DEF Documents
  <2>2. EntryOf(clock + 1, {t}).at = clock + 1 /\ clock' \in Nat
    BY <1>1 DEF EntryOf, MemoryTypes
  <2>3. QED
    BY <1>1, <2>1, <2>2, IdsStayUnique
<1>9. Quiet'
  BY <1>5, <1>7 DEF Quiet
<1>10. MemoriesKept'
  BY <1>2, <1>5, <1>7 DEF MemoriesKept, TextOf
<1>11. QED
  BY <1>6, <1>8, <1>9, <1>10

LEMMA StoreKeeps ==
  ASSUME MemoryInv, NEW c \in Caller, Store(c)
  PROVE  MemoryInv'
<1> USE DEF MemoryInv
<1> DEFINE e == EntryOf(caller[c].at, caller[c].text)
<1>1. /\ caller[c].stage = "embedding"
      /\ entries' = entries \union {e}
      /\ remembered' = remembered \union caller[c].text
      /\ UNCHANGED <<memory, clock, forgotten>>
  BY DEF Store
<1>2. PICK stage \in {"stored", "failed"} : Goto(c, stage)
  BY DEF Store
<1> DEFINE q == [caller[c] EXCEPT !.stage = stage, !.request = NoRequest]
<1>3. q \in CallerState /\ caller' = [caller EXCEPT ![c] = q]
  BY <1>2, GotoIsAState, ZenonT(40) DEF Goto, CallerStage
<1>4. caller[c] \in CallerState
  BY DEF MemoryTypes
<1>5. q.old = caller[c].old /\ q.stage = stage /\ q.request.stage = "none"
  BY <1>4 DEF CallerState, NoRequest
<1> HIDE DEF q
<1>6. caller'[c] = q /\ \A d \in Caller \ {c} : caller'[d] = caller[d]
  BY <1>3 DEF MemoryTypes
<1>7. e \in Entry /\ e.holds = caller[c].text
  BY <1>4 DEF Entry, EntryOf, CallerState
<1>8. MemoryTypes'
  BY <1>1, <1>3, <1>4, <1>7 DEF MemoryTypes, CallerState
<1>9. IdsAreUnique'
  <2>1. e \in Documents
    BY <1>1 DEF Documents
  <2> HIDE DEF e
  <2>2. Documents' \subseteq Documents
    BY <1>1, <1>2, <1>5, <1>6, <2>1 DEF Documents
  <2>3. clock' \in Nat /\ clock <= clock'
    BY <1>1 DEF MemoryTypes
  <2>4. QED
    BY <2>2, <2>3, IdsStayUnique
<1>10. Quiet'
  BY <1>5, <1>6 DEF Quiet
<1>11. MemoriesKept'
  <2> SUFFICES ASSUME ~memory.fails, NEW t \in remembered' \ forgotten'
               PROVE  \/ \E f \in entries' : t \in f.holds
                      \/ \E d \in Caller : caller'[d].stage = "storing" /\ t \in TextOf(caller'[d].old)
    BY <1>1 DEF MemoriesKept
  <2>1. CASE t \in caller[c].text
    BY <1>1, <1>7, <2>1
  <2>2. CASE t \in remembered
    BY <1>1, <1>6, <2>2 DEF MemoriesKept
  <2>3. QED
    BY <1>1, <2>1, <2>2
<1>12. QED
  BY <1>8, <1>9, <1>10, <1>11

LEMMA ListKeeps ==
  ASSUME MemoryInv, NEW c \in Caller, List(c)
  PROVE  MemoryInv'
<1>1. caller[c].stage = "listing" /\ UNCHANGED <<memory, entries, clock, remembered, forgotten>>
  BY DEF List
<1>2. CASE Goto(c, "done")
  BY <1>1, <1>2, GotoKeeps DEF CallerStage
<1>3. CASE caller' = [caller EXCEPT ![c].stage = "summarizing", ![c].old = Oldest, ![c].request = Send]
  <2> DEFINE q == [caller[c] EXCEPT !.stage = "summarizing", !.old = Oldest, !.request = Send]
  <2>1. caller[c] \in CallerState /\ Oldest \in SUBSET Entry /\ Oldest \subseteq entries
    BY DEF MemoryInv, MemoryTypes, Oldest
  <2>2. Send \in Request /\ "summarizing" \in CallerStage
    BY DEF Send, Request, RequestStage, CallerStage
  <2>3. q \in CallerState /\ caller' = [caller EXCEPT ![c] = q]
    BY <1>3, <2>1, <2>2 DEF CallerState, MemoryInv, MemoryTypes
  <2>4. q.old = Oldest /\ q.stage = "summarizing"
    BY <2>1 DEF CallerState
  <2> HIDE DEF q
  <2>5. QED
    BY <1>1, <2>1, <2>3, <2>4, CallGoesOn
<1>4. QED
  BY <1>2, <1>3 DEF List

LEMMA CountKeeps ==
  ASSUME MemoryInv, NEW c \in Caller, Count(c)
  PROVE  MemoryInv'
<1>1. caller[c].stage = "stored" /\ UNCHANGED <<memory, entries, clock, remembered, forgotten>>
  BY DEF Count
<1>2. CASE Goto(c, "done")
  BY <1>1, <1>2, GotoKeeps DEF CallerStage
<1>3. CASE caller' = [caller EXCEPT ![c].stage = "measuring", ![c].threshold = 0]
  <2> DEFINE q == [caller[c] EXCEPT !.stage = "measuring", !.threshold = 0]
  <2>1. caller[c] \in CallerState
    BY DEF MemoryInv, MemoryTypes
  <2>2. q \in CallerState /\ caller' = [caller EXCEPT ![c] = q]
    BY <1>3, <2>1 DEF CallerState, CallerStage, MemoryInv, MemoryTypes
  <2>3. q.old = caller[c].old /\ q.stage = "measuring" /\ q.request = caller[c].request
    BY <2>1 DEF CallerState
  <2> HIDE DEF q
  <2>4. q.request.stage \notin {"sent", "waiting", "body"}
    BY <1>1, <2>3 DEF MemoryInv, Quiet
  <2>5. QED
    BY <1>1, <2>2, <2>3, <2>4, CallGoesOn
<1>4. QED
  BY <1>2, <1>3 DEF Count

LEMMA CompressKeeps ==
  ASSUME MemoryInv, NEW c \in Caller, Compress(c)
  PROVE  MemoryInv'
<1> DEFINE q == [NoCaller EXCEPT !.stage = "measuring", !.threshold = memory.threshold]
<1>1. /\ caller[c].stage = "idle" /\ UNCHANGED <<memory, entries, clock, remembered, forgotten>>
      /\ caller' = [caller EXCEPT ![c] = q]
  BY DEF Compress, MayCall
<1>2. memory.threshold \in Nat
  BY DEF MemoryInv, MemoryTypes, MemorySetup
<1>4. q \in CallerState
  BY <1>2, NoCallerIsAState DEF CallerState, CallerStage
<1>5. q.old = {} /\ q.stage = "measuring" /\ q.request.stage = "none"
  BY NoCallerIsAState DEF CallerState
<1> HIDE DEF q
<1>6. QED
  BY <1>1, <1>4, <1>5, CallGoesOn

\* What compress() deletes is what it listed: the documents with these _ids.
LEMMA DeleteOldKeeps ==
  ASSUME MemoryInv, NEW c \in Caller, DeleteOld(c)
  PROVE  MemoryInv'
<1> USE DEF MemoryInv
<1>1. /\ caller[c].stage = "deleting"
      /\ entries' = {e \in entries : \A f \in caller[c].old : f.at # e.at}
      /\ UNCHANGED <<memory, clock, remembered, forgotten>>
  BY DEF DeleteOld
<1>2. PICK stage \in {"storing", "failed"} : Goto(c, stage) /\ (~memory.fails => stage = "storing")
  BY DEF DeleteOld
<1> DEFINE q == [caller[c] EXCEPT !.stage = stage, !.request = NoRequest]
<1>3. q \in CallerState /\ caller' = [caller EXCEPT ![c] = q]
  BY <1>2, GotoIsAState DEF Goto, CallerStage
<1>4. caller[c] \in CallerState
  BY DEF MemoryTypes
<1>5. q.old = caller[c].old /\ q.stage = stage /\ q.request.stage = "none"
  BY <1>4 DEF CallerState, NoRequest
<1> HIDE DEF q
<1>6. caller'[c] = q /\ \A d \in Caller \ {c} : caller'[d] = caller[d]
  BY <1>3 DEF MemoryTypes
<1>7. MemoryTypes'
  BY <1>1, <1>3 DEF MemoryTypes
<1>8. IdsAreUnique'
  <2>1. Documents' \subseteq Documents
    BY <1>1, <1>2, <1>5, <1>6 DEF Documents
  <2>2. clock' \in Nat /\ clock <= clock'
    BY <1>1 DEF MemoryTypes
  <2>3. QED
    BY <2>1, <2>2, IdsStayUnique
<1>9. Quiet'
  BY <1>5, <1>6 DEF Quiet
<1>10. MemoriesKept'
  <2> SUFFICES ASSUME ~memory.fails, NEW t \in remembered \ forgotten
               PROVE  \/ \E e \in entries' : t \in e.holds
                      \/ \E d \in Caller : caller'[d].stage = "storing" /\ t \in TextOf(caller'[d].old)
    BY <1>1 DEF MemoriesKept
  <2>1. CASE \E d \in Caller : caller[d].stage = "storing" /\ t \in TextOf(caller[d].old)
    BY <1>1, <1>6, <2>1
  <2>2. CASE \E e \in entries : t \in e.holds
    <3>1. PICK e \in entries : t \in e.holds
      BY <2>2
    <3>2. CASE e \in entries'
      BY <3>1, <3>2
    <3>3. CASE e \notin entries'
      <4>1. PICK f \in caller[c].old : f.at = e.at
        BY <1>1, <3>3
      <4>2. e \in Documents /\ f \in Documents
        BY DEF Documents
      <4>3. e = f
        BY <4>1, <4>2 DEF IdsAreUnique
      <4>4. t \in TextOf(caller[c].old)
        BY <3>1, <4>3 DEF TextOf
      <4>5. QED
        BY <1>2, <1>5, <1>6, <4>4
    <3>4. QED
      BY <3>2, <3>3
  <2>3. QED
    BY <2>1, <2>2 DEF MemoriesKept
<1>11. QED
  BY <1>7, <1>8, <1>9, <1>10

LEMMA StoreSummaryKeeps ==
  ASSUME MemoryInv, NEW c \in Caller, StoreSummary(c)
  PROVE  MemoryInv'
<1> USE DEF MemoryInv
<1> DEFINE e == EntryOf(clock + 1, TextOf(caller[c].old))
<1>1. /\ caller[c].stage = "storing"
      /\ clock' = clock + 1
      /\ entries' = entries \union {e}
      /\ Goto(c, "done")
      /\ UNCHANGED <<memory, remembered, forgotten>>
  BY DEF StoreSummary
<1> DEFINE q == [caller[c] EXCEPT !.stage = "done", !.request = NoRequest]
<1>2. q \in CallerState /\ caller' = [caller EXCEPT ![c] = q]
  BY <1>1, GotoIsAState DEF Goto, CallerStage
<1>3. caller[c] \in CallerState
  BY DEF MemoryTypes
<1>4. q.old = caller[c].old /\ q.stage = "done" /\ q.request.stage = "none"
  BY <1>3 DEF CallerState, NoRequest
<1> HIDE DEF q
<1>5. caller'[c] = q /\ \A d \in Caller \ {c} : caller'[d] = caller[d]
  BY <1>2 DEF MemoryTypes
<1>6. TextOf(caller[c].old) \subseteq Text /\ clock + 1 \in Nat
  BY <1>3 DEF TextOf, CallerState, Entry, MemoryTypes
<1>7. e \in Entry /\ e.at = clock + 1 /\ e.holds = TextOf(caller[c].old)
  BY <1>6 DEF Entry, EntryOf
<1> HIDE DEF e
<1>8. MemoryTypes'
  BY <1>1, <1>2, <1>6, <1>7 DEF MemoryTypes
<1>9. IdsAreUnique'
  <2>1. Documents' \subseteq Documents \union {e}
    BY <1>1, <1>4, <1>5 DEF Documents
  <2>2. QED
    BY <1>1, <1>6, <1>7, <2>1, IdsStayUnique
<1>10. Quiet'
  BY <1>4, <1>5 DEF Quiet
<1>11. MemoriesKept'
  <2> SUFFICES ASSUME ~memory.fails, NEW t \in remembered \ forgotten
               PROVE  \/ \E f \in entries' : t \in f.holds
                      \/ \E d \in Caller : caller'[d].stage = "storing" /\ t \in TextOf(caller'[d].old)
    BY <1>1 DEF MemoriesKept
  <2>1. CASE t \in TextOf(caller[c].old)
    BY <1>1, <1>7, <2>1
  <2>2. CASE t \notin TextOf(caller[c].old)
    BY <1>1, <1>5, <2>2 DEF MemoriesKept
  <2>3. QED
    BY <2>1, <2>2
<1>12. QED
  BY <1>8, <1>9, <1>10, <1>11

\* What loses its entry is what the entry held, and forgotten.
LEMMA ForgetKeeps ==
  ASSUME MemoryInv, NEW c \in Caller, Forget(c)
  PROVE  MemoryInv'
<1> USE DEF MemoryInv
<1>1. PICK e \in entries :
        /\ entries' = {f \in entries : f.at # e.at}
        /\ forgotten' = forgotten \union e.holds
  BY DEF Forget
<1>2. /\ caller[c].stage = "idle" /\ Goto(c, "done")
      /\ UNCHANGED <<memory, clock, remembered>>
  BY DEF Forget, MayCall
<1> DEFINE q == [caller[c] EXCEPT !.stage = "done", !.request = NoRequest]
<1>3. q \in CallerState /\ caller' = [caller EXCEPT ![c] = q]
  BY <1>2, GotoIsAState DEF Goto, CallerStage
<1>4. caller[c] \in CallerState /\ e \in Entry
  BY DEF MemoryTypes
<1>5. q.old = caller[c].old /\ q.stage = "done" /\ q.request.stage = "none"
  BY <1>4 DEF CallerState, NoRequest
<1> HIDE DEF q
<1>6. caller'[c] = q /\ \A d \in Caller \ {c} : caller'[d] = caller[d]
  BY <1>3 DEF MemoryTypes
<1>7. MemoryTypes'
  BY <1>1, <1>2, <1>3, <1>4 DEF MemoryTypes, Entry
<1>8. IdsAreUnique'
  <2>1. Documents' \subseteq Documents
    BY <1>1, <1>5, <1>6 DEF Documents
  <2>2. clock' \in Nat /\ clock <= clock'
    BY <1>2 DEF MemoryTypes
  <2>3. QED
    BY <2>1, <2>2, IdsStayUnique
<1>9. Quiet'
  BY <1>5, <1>6 DEF Quiet
<1>10. MemoriesKept'
  <2> SUFFICES ASSUME ~memory.fails, NEW t \in remembered \ forgotten, t \notin e.holds
               PROVE  \/ \E f \in entries' : t \in f.holds
                      \/ \E d \in Caller : caller'[d].stage = "storing" /\ t \in TextOf(caller'[d].old)
    BY <1>1, <1>2 DEF MemoriesKept
  <2>1. \A f \in entries : f.at = e.at => f = e
    BY DEF IdsAreUnique, Documents
  <2>2. QED
    BY <1>1, <1>2, <1>6, <2>1 DEF MemoriesKept
<1>11. QED
  BY <1>7, <1>8, <1>9, <1>10

LEMMA MemoryUnchanged ==
  ASSUME MemoryInv, UNCHANGED memoryVars
  PROVE  MemoryInv'
BY DEF MemoryInv, memoryVars, MemoryTypes, IdsAreUnique, Documents, Quiet, MemoriesKept, TextOf

LEMMA StepKeeps ==
  ASSUME MemoryInv, [Next]_agentVars
  PROVE  MemoryInv'
<1>1. CASE UNCHANGED memoryVars
  BY <1>1, MemoryUnchanged
<1>2. ASSUME NEW c \in Caller, MemoryStep(c) PROVE MemoryInv'
  <2>1. CASE Measure(c)
    <3>1. PICK stage \in {"done", "listing"} : Goto(c, stage)
      BY <2>1 DEF Measure
    <3>2. QED
      BY <2>1, <3>1, GotoKeeps DEF Measure, CallerStage
  <2>2. CASE Summarized(c)
    BY <2>2, GotoKeeps DEF Summarized, CallerStage
  <2>3. QED
    BY <1>2, <2>1, <2>2, RememberKeeps, StoreKeeps, CountKeeps, CompressKeeps, ListKeeps,
       DeleteOldKeeps, StoreSummaryKeeps, ForgetKeeps, RequestMoves DEF MemoryStep
<1>3. ASSUME NEW c \in Caller, MemoryTimer(c) PROVE MemoryInv'
  BY <1>3, RequestMoves
<1>4. QED
  BY <1>1, <1>2, <1>3 DEF Next, Timer, agentVars

\* Whatever remember(), compress() and forget() of any callers overlap, and
\* however the language model answers, nothing remembered is lost (memory.js:165).
THEOREM NothingIsLost == Spec => []MemoriesKept
<1>1. MemoryInv /\ [Next]_agentVars => MemoryInv'
  BY StepKeeps
<1>2. MemoryInv => MemoriesKept
  BY DEF MemoryInv
<1>3. QED
  BY InitInv, <1>1, <1>2, PTL DEF Spec

-----------------------------------------------------------------------------
(* The memory stays compact while calls do not overlap. *)

\* One call at a time.
OneAtATime == \A c, d \in Caller : CallerActive(c) /\ CallerActive(d) => c = d

\* The texts of calls are different ones, and entries and summaries tell those
\* of calls that have stored theirs.
Stored(t) == \E c \in Caller : t \in caller[c].text /\ caller[c].stage # "embedding"

TextsApart ==
  /\ \A c, d \in Caller : c # d => caller[c].text \intersect caller[d].text = {}
  /\ \A c \in Caller : caller[c].stage = "idle" => caller[c].text = {}
  /\ \A e \in entries : \A t \in e.holds : Stored(t)
  /\ \A c \in Caller : \A f \in caller[c].old : \A t \in f.holds : Stored(t)

\* No text is in two entries, a summary that is about to be stored included.
EntriesApart ==
  /\ \A e, f \in entries : e.holds \intersect f.holds # {} => e = f
  /\ \A c \in Caller : caller[c].stage \in {"summarizing", "deleting"} => caller[c].old \subseteq entries
  /\ \A c \in Caller : caller[c].stage = "storing" =>
       \A e \in entries, f \in caller[c].old : e.holds \intersect f.holds = {}

Small == Cardinality(entries) <= memory.maxEntries \/ Cardinality(entries) <= memory.keepRecent + 1

Compressing == {"measuring", "listing", "summarizing", "deleting", "storing"}

\* How many entries there are, by how far the call is.
Counted ==
  /\ IsFiniteSet(entries)
  /\ memory.maxEntries > 0 /\ (\A c \in Caller : caller[c].stage # "failed") =>
       /\ (\A c \in Caller : caller[c].stage \notin Compressing \union {"stored"}) => Small
       /\ \A c \in Caller :
            /\ caller[c].stage = "measuring" => Small \/ caller[c].threshold = 0
            /\ caller[c].stage \in {"summarizing", "deleting"} =>
                 Cardinality(entries \ caller[c].old) <= memory.keepRecent
            /\ caller[c].stage = "storing" => Cardinality(entries) <= memory.keepRecent

Tidy == memory.serial /\ ~memory.fails => OneAtATime /\ TextsApart /\ EntriesApart /\ Counted

\* The newest keepRecent entries are no more than that: each has its own number
\* of newer ones.
LEMMA RecentAreFew ==
  ASSUME MemoryTypes, IdsAreUnique, IsFiniteSet(entries)
  PROVE  Cardinality(entries \ Oldest) <= memory.keepRecent
<1> DEFINE Newer(e) == {f \in entries : f.at > e.at}
           Recent == entries \ Oldest
           K == memory.keepRecent
           rank == [e \in Recent |-> Cardinality(Newer(e))]
<1>1. K \in Nat
  BY DEF MemoryTypes, MemorySetup
<1>2. \A e \in entries : e.at \in Nat
  BY DEF MemoryTypes, Entry
<1>3. \A e \in entries : IsFiniteSet(Newer(e)) /\ Cardinality(Newer(e)) \in Nat
  BY FS_Subset, FS_CardinalityType
<1>4. \A e \in Recent : Cardinality(Newer(e)) < K
  <2> SUFFICES ASSUME NEW e \in Recent PROVE Cardinality(Newer(e)) < K
    OBVIOUS
  <2> DEFINE n == Cardinality(Newer(e))
  <2>1. n \in Nat /\ ~(n >= K)
    BY <1>3 DEF Oldest
  <2> HIDE DEF n, K
  <2>2. n < K
    BY <1>1, <2>1
  <2>3. QED
    BY <2>2 DEF n, K
<1>5. rank \in [Recent -> 0 .. (K - 1)]
  BY <1>1, <1>3, <1>4
<1>6. \A e, f \in Recent : e.at < f.at => rank[e] # rank[f]
  <2> SUFFICES ASSUME NEW e \in Recent, NEW f \in Recent, e.at < f.at
               PROVE  rank[e] # rank[f]
    OBVIOUS
  <2>1. Newer(f) \subseteq Newer(e) /\ f \in Newer(e) /\ f \notin Newer(f)
    BY <1>2
  <2>2. Cardinality(Newer(f)) # Cardinality(Newer(e))
    BY <1>3, <2>1, FS_Subset
  <2>3. QED
    BY <2>2
<1>7. \A e, f \in Recent : e # f => rank[e] # rank[f]
  BY <1>2, <1>6 DEF IdsAreUnique, Documents
<1>8. IsFiniteSet(Recent) /\ Cardinality(Recent) \in Nat
  BY FS_Subset, FS_CardinalityType
<1>9. IsFiniteSet(0 .. (K - 1)) /\ Cardinality(0 .. (K - 1)) = K
  <2>1. 0 \in Int /\ K - 1 \in Int
    BY <1>1
  <2> HIDE DEF K
  <2>2. IsFiniteSet(0 .. (K - 1)) /\ Cardinality(0 .. (K - 1)) = IF 0 > K - 1 THEN 0 ELSE (K - 1) - 0 + 1
    BY <2>1, FS_Interval
  <2>3. QED
    BY <1>1, <2>2 DEF K
<1> HIDE DEF rank, Recent, K
<1>10. ~(K < Cardinality(Recent))
  BY <1>5, <1>7, <1>8, <1>9, FS_PigeonHole
<1>11. QED
  BY <1>1, <1>8, <1>10 DEF Recent, K

\* A step is one of the only call that is active, or of the one it begins.
LEMMA OnlyOneSteps ==
  ASSUME MemoryInv, OneAtATime, memory.serial, NEW c \in Caller, MemoryStep(c) \/ MemoryTimer(c)
  PROVE  /\ \A d \in Caller \ {c} : caller'[d] = caller[d] /\ ~CallerActive(d)
         /\ OneAtATime'
         /\ memory' = memory
<1>1. caller \in [Caller -> CallerState] /\ caller[c] \in CallerState
  BY DEF MemoryInv, MemoryTypes
<1>2. /\ \A d \in Caller \ {c} : caller'[d] = caller[d]
      /\ memory' = memory
  BY <1>1 DEF MemoryStep, Remember, Store, Count, Compress, Measure, List, Summarized, DeleteOld,
              StoreSummary, Forget, MemoryArrival, MemoryTimer, CallerHears, Goto
<1>3. CallerActive(c) \/ \A d \in Caller : ~CallerActive(d)
  <2>1. CASE MemoryArrival(c) \/ MemoryTimer(c)
    <3>1. caller[c].request \in Request /\ memory.limits \in Limits
      BY <1>1 DEF MemoryInv, MemoryTypes, CallerState, MemorySetup
    <3>2. caller[c].request.stage \in {"sent", "waiting", "body"}
      BY <2>1, <3>1, MovesAreRequests DEF MemoryArrival, MemoryTimer, CallerHears
    <3>3. QED
      BY <3>2 DEF MemoryInv, Quiet, CallerActive
  <2>2. QED
    BY <2>1 DEF MemoryStep, MayCall, CallerActive, Remember, Store, Count, Compress, Measure, List,
                Summarized, DeleteOld, StoreSummary, Forget
<1>4. \A d \in Caller \ {c} : ~CallerActive(d)
  BY <1>3 DEF OneAtATime
<1>5. OneAtATime'
  BY <1>2, <1>4 DEF OneAtATime, CallerActive
<1>6. QED
  BY <1>2, <1>4, <1>5

\* What is assumed of a step by one call while no other is active.
Alone(c) ==
  /\ \A d \in Caller \ {c} : caller'[d] = caller[d] /\ ~CallerActive(d)
  /\ memory' = memory
  /\ ~memory.fails

LEMMA GoesTo ==
  ASSUME MemoryTypes, NEW c \in Caller, NEW stage, Goto(c, stage)
  PROVE  /\ caller'[c].stage = stage /\ caller'[c].text = caller[c].text
         /\ caller'[c].old = caller[c].old /\ caller'[c].threshold = caller[c].threshold
BY DEF MemoryTypes, CallerState, Goto

\* Texts stay apart if a call tells what it told, or what entries tell.
LEMMA TextsStay ==
  ASSUME TextsApart, NEW c \in Caller, Alone(c), caller'[c].text = caller[c].text,
         caller'[c].stage # "idle",
         caller'[c].stage = "embedding" => caller[c].stage = "embedding",
         \A e \in entries' \union caller'[c].old : \A t \in e.holds :
           \/ \E f \in entries \union caller[c].old : t \in f.holds
           \/ t \in caller[c].text /\ caller'[c].stage # "embedding"
  PROVE  TextsApart'
<1>1. \A d \in Caller : caller'[d].text = caller[d].text
  BY DEF Alone
<1>2. \A d \in Caller : caller'[d].stage = "embedding" => caller[d].stage = "embedding"
  BY DEF Alone
<1>3. \A t : Stored(t) => Stored(t)'
  BY <1>1, <1>2 DEF Stored
<1>4. \A e \in entries' \union caller'[c].old : \A t \in e.holds : Stored(t)'
  <2> SUFFICES ASSUME NEW e \in entries' \union caller'[c].old, NEW t \in e.holds PROVE Stored(t)'
    OBVIOUS
  <2>1. CASE \E f \in entries \union caller[c].old : t \in f.holds
    BY <1>3, <2>1 DEF TextsApart
  <2>2. CASE t \in caller[c].text /\ caller'[c].stage # "embedding"
    BY <1>1, <2>2 DEF Stored
  <2>3. QED
    BY <2>1, <2>2
<1>5. \A d \in Caller : \A f \in caller'[d].old : \A t \in f.holds : Stored(t)'
  <2> SUFFICES ASSUME NEW d \in Caller, NEW f \in caller'[d].old, NEW t \in f.holds PROVE Stored(t)'
    OBVIOUS
  <2>1. CASE d = c
    BY <1>4, <2>1
  <2>2. CASE d # c
    BY <1>3, <2>2 DEF TextsApart, Alone
  <2>3. QED
    BY <2>1, <2>2
<1>6. \A d \in Caller : caller'[d].stage = "idle" => caller'[d].text = {}
  BY <1>1 DEF TextsApart, Alone
<1>7. \A a, b \in Caller : a # b => caller'[a].text \intersect caller'[b].text = {}
  BY <1>1 DEF TextsApart
<1>8. QED
  BY <1>4, <1>5, <1>6, <1>7 DEF TextsApart

\* Only the call that makes the step has something to say of the entries.
LEMMA ApartHere ==
  ASSUME NEW c \in Caller, Alone(c),
         \A e, f \in entries' : e.holds \intersect f.holds # {} => e = f,
         caller'[c].stage \in {"summarizing", "deleting"} => caller'[c].old \subseteq entries',
         caller'[c].stage = "storing" =>
           \A e \in entries', f \in caller'[c].old : e.holds \intersect f.holds = {}
  PROVE  EntriesApart'
<1>1. \A d \in Caller \ {c} : caller'[d].stage \in {"idle", "done", "failed"}
  BY DEF Alone, CallerActive
<1>2. QED
  BY <1>1 DEF EntriesApart

LEMMA CountedHere ==
  ASSUME NEW c \in Caller, Alone(c), IsFiniteSet(entries'),
         memory.maxEntries > 0 /\ (\A d \in Caller : caller'[d].stage # "failed") =>
           /\ caller'[c].stage \notin Compressing \union {"stored"} => Small'
           /\ caller'[c].stage = "measuring" => Small' \/ caller'[c].threshold = 0
           /\ caller'[c].stage \in {"summarizing", "deleting"} =>
                Cardinality(entries' \ caller'[c].old) <= memory.keepRecent
           /\ caller'[c].stage = "storing" => Cardinality(entries') <= memory.keepRecent
  PROVE  Counted'
<1>1. \A d \in Caller \ {c} : caller'[d].stage \in {"idle", "done", "failed"}
  BY DEF Alone, CallerActive
<1>2. memory' = memory
  BY DEF Alone
<1>3. QED
  BY <1>1, <1>2 DEF Counted, Compressing

\* Of a call that did not fail, nobody failed before it if nobody has after.
LEMMA CountedBefore ==
  ASSUME Counted, NEW c \in Caller, Alone(c), caller[c].stage # "failed",
         memory.maxEntries > 0, \A d \in Caller : caller'[d].stage # "failed"
  PROVE  /\ caller[c].stage \notin Compressing \union {"stored"} => Small
         /\ caller[c].stage = "measuring" => Small \/ caller[c].threshold = 0
         /\ caller[c].stage \in {"summarizing", "deleting"} =>
              Cardinality(entries \ caller[c].old) <= memory.keepRecent
         /\ caller[c].stage = "storing" => Cardinality(entries) <= memory.keepRecent
<1>1. \A d \in Caller \ {c} : caller[d].stage \in {"idle", "done"}
  BY DEF Alone, CallerActive
<1>2. QED
  BY <1>1 DEF Counted, Compressing

\* A call goes on, or ends, and leaves the entries as they are.
LEMMA TidyGoesOn ==
  ASSUME TextsApart, EntriesApart, Counted, NEW c \in Caller, Alone(c), entries' = entries,
         caller'[c].text = caller[c].text, caller[c].stage # "failed",
         caller'[c].stage # "idle", caller'[c].stage # "storing",
         caller'[c].stage = "embedding" => caller[c].stage = "embedding",
         caller'[c].old \subseteq entries \union caller[c].old,
         caller'[c].stage \in {"summarizing", "deleting"} => caller'[c].old \subseteq entries',
         memory.maxEntries > 0 /\ (\A d \in Caller : caller'[d].stage # "failed") =>
           /\ caller'[c].stage \notin Compressing \union {"stored"} => Small
           /\ caller'[c].stage = "measuring" => Small \/ caller'[c].threshold = 0
           /\ caller'[c].stage \in {"summarizing", "deleting"} =>
                Cardinality(entries \ caller'[c].old) <= memory.keepRecent
  PROVE  TextsApart' /\ EntriesApart' /\ Counted'
<1>1. TextsApart'
  BY TextsStay
<1>2. EntriesApart'
  BY ApartHere DEF EntriesApart
<1>3. memory' = memory /\ (Small <=> Small') /\ IsFiniteSet(entries')
  BY DEF Alone, Small, Counted
<1>4. Counted'
  BY <1>3, CountedHere
<1>5. QED
  BY <1>1, <1>2, <1>4

LEMMA CountTidy ==
  ASSUME MemoryInv, TextsApart, EntriesApart, Counted, NEW c \in Caller, Alone(c),
         Count(c) \/ Compress(c) \/ Measure(c)
  PROVE  TextsApart' /\ EntriesApart' /\ Counted'
<1>0. caller \in [Caller -> CallerState] /\ caller[c] \in CallerState /\ MemoryTypes
  BY DEF MemoryInv, MemoryTypes
<1>1. CASE Count(c)
  <2>1. caller[c].stage = "stored" /\ entries' = entries
    BY <1>1 DEF Count
  <2>2. CASE Goto(c, "done") /\ ~(memory.maxEntries > 0 /\ Cardinality(entries) > memory.maxEntries)
    <3>1. memory.maxEntries \in Nat /\ Cardinality(entries) \in Nat
      BY <1>0, FS_CardinalityType DEF MemoryTypes, MemorySetup, Counted
    <3>2. memory.maxEntries > 0 => Small
      BY <2>2, <3>1 DEF Small
    <3>3. /\ caller'[c].stage = "done" /\ caller'[c].text = caller[c].text
          /\ caller'[c].old = caller[c].old
      BY <1>0, <2>2, GoesTo
    <3>4. QED
      BY <2>1, <3>2, <3>3, TidyGoesOn DEF Compressing
  <2>3. CASE caller' = [caller EXCEPT ![c].stage = "measuring", ![c].threshold = 0]
    <3>1. /\ caller'[c].stage = "measuring" /\ caller'[c].threshold = 0
          /\ caller'[c].text = caller[c].text /\ caller'[c].old = caller[c].old
      BY <1>0, <2>3 DEF CallerState
    <3>2. QED
      BY <2>1, <3>1, TidyGoesOn DEF Compressing
  <2>4. QED
    BY <1>1, <2>2, <2>3 DEF Count
<1>2. CASE Compress(c)
  <2> DEFINE q == [NoCaller EXCEPT !.stage = "measuring", !.threshold = memory.threshold]
  <2>1. caller[c].stage = "idle" /\ entries' = entries /\ caller' = [caller EXCEPT ![c] = q]
    BY <1>2 DEF Compress, MayCall
  <2>2. q.text = {} /\ q.stage = "measuring" /\ q.old = {}
    BY DEF NoCaller
  <2> HIDE DEF q
  <2>3. caller'[c].text = caller[c].text /\ caller'[c].stage = "measuring" /\ caller'[c].old = {}
    BY <1>0, <2>1, <2>2 DEF TextsApart
  <2>4. memory.maxEntries > 0 /\ (\A d \in Caller : caller'[d].stage # "failed") => Small
    BY <2>1, CountedBefore DEF Compressing
  <2>5. QED
    BY <2>1, <2>3, <2>4, TidyGoesOn DEF Compressing
<1>3. CASE Measure(c)
  <2>1. caller[c].stage = "measuring" /\ entries' = entries
    BY <1>3 DEF Measure
  <2>2. CASE Goto(c, "done") /\ Cardinality(entries) <= caller[c].threshold
    <3>1. memory.keepRecent \in Nat /\ Cardinality(entries) \in Nat
      BY <1>0, FS_CardinalityType DEF MemoryTypes, MemorySetup, Counted
    <3>2. caller[c].threshold = 0 => Small
      BY <2>2, <3>1 DEF Small
    <3>3. memory.maxEntries > 0 /\ (\A d \in Caller : caller'[d].stage # "failed") => Small
      BY <2>1, <3>2, CountedBefore DEF Compressing
    <3>4. /\ caller'[c].stage = "done" /\ caller'[c].text = caller[c].text
          /\ caller'[c].old = caller[c].old
      BY <1>0, <2>2, GoesTo
    <3>5. QED
      BY <2>1, <3>3, <3>4, TidyGoesOn DEF Compressing
  <2>3. CASE Goto(c, "listing")
    <3>1. /\ caller'[c].stage = "listing" /\ caller'[c].text = caller[c].text
          /\ caller'[c].old = caller[c].old
      BY <1>0, <2>3, GoesTo
    <3>2. QED
      BY <2>1, <3>1, TidyGoesOn DEF Compressing
  <2>4. QED
    BY <1>3, <2>2, <2>3 DEF Measure
<1>4. QED
  BY <1>1, <1>2, <1>3

LEMMA ListTidy ==
  ASSUME MemoryInv, TextsApart, EntriesApart, Counted, NEW c \in Caller, Alone(c),
         List(c) \/ Summarized(c)
  PROVE  TextsApart' /\ EntriesApart' /\ Counted'
<1>0. caller \in [Caller -> CallerState] /\ caller[c] \in CallerState /\ MemoryTypes /\ IdsAreUnique
  BY DEF MemoryInv, MemoryTypes
<1>1. Cardinality(entries \ Oldest) <= memory.keepRecent /\ Oldest \subseteq entries
  BY <1>0, RecentAreFew DEF Counted, Oldest
<1>2. CASE List(c)
  <2>1. caller[c].stage = "listing" /\ entries' = entries
    BY <1>2 DEF List
  <2>2. CASE Goto(c, "done") /\ Oldest = {}
    <3>1. memory.keepRecent \in Nat /\ Cardinality(entries) \in Nat
      BY <1>0, FS_CardinalityType DEF MemoryTypes, MemorySetup, Counted
    <3>2. entries \ Oldest = entries
      BY <2>2
    <3>3. Small
      BY <1>1, <3>1, <3>2 DEF Small
    <3>4. /\ caller'[c].stage = "done" /\ caller'[c].text = caller[c].text
          /\ caller'[c].old = caller[c].old
      BY <1>0, <2>2, GoesTo
    <3>5. QED
      BY <2>1, <3>3, <3>4, TidyGoesOn DEF Compressing
  <2>3. CASE caller' = [caller EXCEPT ![c].stage = "summarizing", ![c].old = Oldest, ![c].request = Send]
    <3>1. /\ caller'[c].stage = "summarizing" /\ caller'[c].old = Oldest
          /\ caller'[c].text = caller[c].text
      BY <1>0, <2>3 DEF CallerState
    <3>2. QED
      BY <1>1, <2>1, <3>1, TidyGoesOn DEF Compressing
  <2>4. QED
    BY <1>2, <2>2, <2>3 DEF List
<1>3. CASE Summarized(c)
  <2>1. caller[c].stage = "summarizing" /\ entries' = entries /\ Goto(c, "deleting")
    BY <1>3 DEF Summarized
  <2>2. /\ caller'[c].stage = "deleting" /\ caller'[c].text = caller[c].text
        /\ caller'[c].old = caller[c].old
    BY <1>0, <2>1, GoesTo
  <2>3. caller[c].old \subseteq entries
    BY <2>1 DEF EntriesApart
  <2>4. memory.maxEntries > 0 /\ (\A d \in Caller : caller'[d].stage # "failed") =>
          Cardinality(entries \ caller[c].old) <= memory.keepRecent
    BY <2>1, CountedBefore
  <2>5. QED
    BY <2>1, <2>2, <2>3, <2>4, TidyGoesOn DEF Compressing
<1>4. QED
  BY <1>2, <1>3

\* The request of the only active call moves on, or fails.
LEMMA RequestTidy ==
  ASSUME MemoryInv, TextsApart, EntriesApart, Counted, NEW c \in Caller, Alone(c),
         MemoryArrival(c) \/ MemoryTimer(c)
  PROVE  TextsApart' /\ EntriesApart' /\ Counted'
<1>0. caller \in [Caller -> CallerState] /\ caller[c] \in CallerState
  BY DEF MemoryInv, MemoryTypes
<1>1. PICK r \in Arrivals(caller[c].request, memory.limits) \union Timers(caller[c].request, memory.limits) :
        /\ caller' = [caller EXCEPT ![c].request = r,
                                    ![c].stage = IF r.stage = "failed" THEN "failed" ELSE @]
        /\ UNCHANGED <<memory, entries, clock, remembered, forgotten>>
  BY DEF MemoryArrival, MemoryTimer, CallerHears
<1>2. caller[c].request.stage \in {"sent", "waiting", "body"}
  BY <1>0, <1>1, MovesAreRequests DEF MemoryInv, MemoryTypes, CallerState, MemorySetup
<1>3. caller[c].stage \in {"embedding", "summarizing"}
  BY <1>2 DEF MemoryInv, Quiet
<1>4. /\ caller'[c].text = caller[c].text /\ caller'[c].old = caller[c].old
      /\ caller'[c].threshold = caller[c].threshold
      /\ caller'[c].stage = caller[c].stage \/ caller'[c].stage = "failed"
  BY <1>0, <1>1 DEF CallerState
<1>5. caller'[c].stage = "summarizing" => caller'[c].old \subseteq entries'
  BY <1>1, <1>3, <1>4 DEF EntriesApart
<1>6. ASSUME memory.maxEntries > 0, \A d \in Caller : caller'[d].stage # "failed"
      PROVE  /\ caller'[c].stage \notin Compressing \union {"stored"} => Small
             /\ caller'[c].stage \in {"summarizing", "deleting"} =>
                  Cardinality(entries \ caller'[c].old) <= memory.keepRecent
  <2>1. caller'[c].stage = caller[c].stage
    BY <1>4, <1>6
  <2>2. QED
    BY <1>3, <1>4, <1>6, <2>1, CountedBefore DEF Compressing
<1>7. caller'[c].stage \in {"embedding", "summarizing", "failed"} /\ caller[c].stage # "failed"
  BY <1>3, <1>4
<1>8. QED
  BY <1>1, <1>4, <1>5, <1>6, <1>7, TidyGoesOn DEF Compressing

LEMMA RememberTidy ==
  ASSUME MemoryInv, TextsApart, EntriesApart, Counted, NEW c \in Caller, Alone(c), Remember(c)
  PROVE  TextsApart' /\ EntriesApart' /\ Counted'
<1>0. caller \in [Caller -> CallerState] /\ caller[c] \in CallerState
  BY DEF MemoryInv, MemoryTypes
<1>1. PICK t \in Text :
        /\ \A b \in Caller : t \notin caller[b].text
        /\ caller' = [caller EXCEPT ![c] = [NoCaller EXCEPT !.stage = "embedding", !.text = {t},
                                                            !.at = clock + 1, !.request = Send]]
  BY DEF Remember
<1>2. entries' = entries /\ caller[c].stage = "idle"
  BY DEF Remember, MayCall
<1>3. caller'[c].stage = "embedding" /\ caller'[c].text = {t} /\ caller'[c].old = {}
  BY <1>0, <1>1 DEF NoCaller
<1>4. \A d \in Caller \ {c} : caller'[d] = caller[d]
  BY DEF Alone
<1>5. caller[c].text = {}
  BY <1>2 DEF TextsApart
<1>6. \A u : Stored(u) => Stored(u)'
  BY <1>4, <1>5 DEF Stored
<1>7. TextsApart'
  <2>1. \A e \in entries' : \A u \in e.holds : Stored(u)'
    BY <1>2, <1>6 DEF TextsApart
  <2>2. \A d \in Caller : \A f \in caller'[d].old : \A u \in f.holds : Stored(u)'
    BY <1>3, <1>4, <1>6 DEF TextsApart
  <2>3. \A a, b \in Caller : a # b => caller'[a].text \intersect caller'[b].text = {}
    BY <1>1, <1>3, <1>4 DEF TextsApart
  <2>4. \A d \in Caller : caller'[d].stage = "idle" => caller'[d].text = {}
    BY <1>3, <1>4 DEF TextsApart
  <2>5. QED
    BY <2>1, <2>2, <2>3, <2>4 DEF TextsApart
<1>8. EntriesApart'
  BY <1>2, <1>3, ApartHere DEF EntriesApart
<1>9. Small' <=> Small
  BY <1>2 DEF Alone, Small
<1>10. memory.maxEntries > 0 /\ (\A d \in Caller : caller'[d].stage # "failed") => Small
  BY <1>2, CountedBefore DEF Compressing
<1>11. Counted'
  <2>1. IsFiniteSet(entries')
    BY <1>2 DEF Counted
  <2>2. QED
    BY <1>3, <1>9, <1>10, <2>1, CountedHere DEF Compressing
<1>12. QED
  BY <1>7, <1>8, <1>11

\* What remember() inserts no entry tells yet.
LEMMA StoreTidy ==
  ASSUME MemoryInv, TextsApart, EntriesApart, Counted, NEW c \in Caller, Alone(c), Store(c)
  PROVE  TextsApart' /\ EntriesApart' /\ Counted'
<1>0. MemoryTypes
  BY DEF MemoryInv
<1> DEFINE e == EntryOf(caller[c].at, caller[c].text)
<1>1. caller[c].stage = "embedding" /\ entries' = entries \union {e}
  BY DEF Store
<1>2. Goto(c, "stored")
  BY DEF Store, Alone
<1>3. /\ caller'[c].stage = "stored" /\ caller'[c].text = caller[c].text
      /\ caller'[c].old = caller[c].old
  BY <1>0, <1>2, GoesTo
<1>4. e.holds = caller[c].text
  BY DEF EntryOf
<1> HIDE DEF e
<1>5. \A f \in entries : f.holds \intersect e.holds = {}
  <2> SUFFICES ASSUME NEW f \in entries, NEW t \in f.holds, t \in e.holds PROVE FALSE
    OBVIOUS
  <2>1. PICK d \in Caller : t \in caller[d].text /\ caller[d].stage # "embedding"
    BY DEF TextsApart, Stored
  <2>2. d # c /\ t \in caller[c].text
    BY <1>1, <1>4, <2>1
  <2>3. QED
    BY <2>1, <2>2 DEF TextsApart
<1>6. TextsApart'
  BY <1>1, <1>3, <1>4, TextsStay
<1>7. EntriesApart'
  <2>1. \A f, g \in entries' : f.holds \intersect g.holds # {} => f = g
    BY <1>1, <1>5 DEF EntriesApart
  <2>2. QED
    BY <1>3, <2>1, ApartHere
<1>8. Counted'
  <2>1. IsFiniteSet(entries')
    BY <1>1, FS_AddElement DEF Counted
  <2>2. QED
    BY <1>3, <2>1, CountedHere DEF Compressing
<1>9. QED
  BY <1>6, <1>7, <1>8

\* What deleteMany() leaves is what was not listed.
LEMMA DeleteOldTidy ==
  ASSUME MemoryInv, TextsApart, EntriesApart, Counted, NEW c \in Caller, Alone(c), DeleteOld(c)
  PROVE  TextsApart' /\ EntriesApart' /\ Counted'
<1>0. MemoryTypes
  BY DEF MemoryInv
<1>1. /\ caller[c].stage = "deleting" /\ Goto(c, "storing")
      /\ entries' = {e \in entries : \A f \in caller[c].old : f.at # e.at}
  BY DEF DeleteOld, Alone
<1>2. caller[c].old \subseteq entries
  BY <1>1 DEF EntriesApart
<1>3. entries' = entries \ caller[c].old
  <2>1. \A e, f \in entries : e.at = f.at => e = f
    BY DEF MemoryInv, IdsAreUnique, Documents
  <2>2. QED
    BY <1>1, <1>2, <2>1
<1>4. /\ caller'[c].stage = "storing" /\ caller'[c].text = caller[c].text
      /\ caller'[c].old = caller[c].old
  BY <1>0, <1>1, GoesTo
<1>5. TextsApart'
  <2>1. entries' \subseteq entries
    BY <1>3
  <2>2. QED
    BY <1>4, <2>1, TextsStay
<1>6. EntriesApart'
  <2>1. \A e, f \in entries' : e.holds \intersect f.holds # {} => e = f
    BY <1>3 DEF EntriesApart
  <2>2. \A e \in entries', f \in caller'[c].old : e.holds \intersect f.holds = {}
    BY <1>2, <1>3, <1>4 DEF EntriesApart
  <2>3. QED
    BY <1>4, <2>1, <2>2, ApartHere
<1>7. Counted'
  <2>1. IsFiniteSet(entries')
    BY <1>3, FS_Subset DEF Counted
  <2>2. memory.maxEntries > 0 /\ (\A d \in Caller : caller'[d].stage # "failed") =>
          Cardinality(entries') <= memory.keepRecent
    BY <1>1, <1>3, CountedBefore
  <2>3. QED
    BY <1>4, <2>1, <2>2, CountedHere DEF Compressing
<1>8. QED
  BY <1>5, <1>6, <1>7

LEMMA StoreSummaryTidy ==
  ASSUME MemoryInv, TextsApart, EntriesApart, Counted, NEW c \in Caller, Alone(c), StoreSummary(c)
  PROVE  TextsApart' /\ EntriesApart' /\ Counted'
<1>0. MemoryTypes
  BY DEF MemoryInv
<1> DEFINE e == EntryOf(clock + 1, TextOf(caller[c].old))
<1>1. caller[c].stage = "storing" /\ Goto(c, "done") /\ entries' = entries \union {e}
  BY DEF StoreSummary
<1>2. e.holds = TextOf(caller[c].old)
  BY DEF EntryOf
<1> HIDE DEF e
<1>3. /\ caller'[c].stage = "done" /\ caller'[c].text = caller[c].text
      /\ caller'[c].old = caller[c].old
  BY <1>0, <1>1, GoesTo
<1>4. TextsApart'
  <2>1. \A t \in e.holds : \E f \in caller[c].old : t \in f.holds
    BY <1>2 DEF TextOf
  <2>2. QED
    BY <1>1, <1>3, <2>1, TextsStay
<1>5. EntriesApart'
  <2>1. \A f \in entries : f.holds \intersect e.holds = {}
    BY <1>1, <1>2 DEF EntriesApart, TextOf
  <2>2. \A f, g \in entries' : f.holds \intersect g.holds # {} => f = g
    BY <1>1, <2>1 DEF EntriesApart
  <2>3. QED
    BY <1>3, <2>2, ApartHere
<1>6. Counted'
  <2>1. IsFiniteSet(entries) /\ IsFiniteSet(entries')
    BY <1>1, FS_AddElement DEF Counted
  <2>2. /\ Cardinality(entries) \in Nat /\ memory.keepRecent \in Nat
        /\ Cardinality(entries') = IF e \in entries THEN Cardinality(entries) ELSE Cardinality(entries) + 1
    BY <1>0, <1>1, <2>1, FS_AddElement, FS_CardinalityType DEF MemoryTypes, MemorySetup
  <2>3. memory.maxEntries > 0 /\ (\A d \in Caller : caller'[d].stage # "failed") =>
          Cardinality(entries') <= memory.keepRecent + 1
    <3> SUFFICES ASSUME memory.maxEntries > 0, \A d \in Caller : caller'[d].stage # "failed"
                 PROVE  Cardinality(entries') <= memory.keepRecent + 1
      OBVIOUS
    <3>1. Cardinality(entries) <= memory.keepRecent
      BY <1>1, CountedBefore
    <3>2. QED
      BY <2>2, <3>1
  <2>4. memory.maxEntries > 0 /\ (\A d \in Caller : caller'[d].stage # "failed") => Small'
    BY <2>3 DEF Small, Alone
  <2>5. QED
    BY <1>3, <2>1, <2>4, CountedHere DEF Compressing
<1>7. QED
  BY <1>4, <1>5, <1>6

LEMMA ForgetTidy ==
  ASSUME MemoryInv, TextsApart, EntriesApart, Counted, NEW c \in Caller, Alone(c), Forget(c)
  PROVE  TextsApart' /\ EntriesApart' /\ Counted'
<1>0. MemoryTypes
  BY DEF MemoryInv
<1>1. caller[c].stage = "idle" /\ Goto(c, "done") /\ entries' \subseteq entries
  BY DEF Forget, MayCall
<1>2. /\ caller'[c].stage = "done" /\ caller'[c].text = caller[c].text
      /\ caller'[c].old = caller[c].old
  BY <1>0, <1>1, GoesTo
<1>3. TextsApart'
  BY <1>1, <1>2, TextsStay
<1>4. EntriesApart'
  BY <1>1, <1>2, ApartHere DEF EntriesApart
<1>5. Counted'
  <2>1. /\ IsFiniteSet(entries') /\ Cardinality(entries') \in Nat /\ Cardinality(entries) \in Nat
        /\ Cardinality(entries') <= Cardinality(entries)
    BY <1>1, FS_Subset, FS_CardinalityType DEF Counted
  <2>2. memory.maxEntries \in Nat /\ memory.keepRecent \in Nat
    BY <1>0 DEF MemoryTypes, MemorySetup
  <2>3. memory.maxEntries > 0 /\ (\A d \in Caller : caller'[d].stage # "failed") => Small
    BY <1>1, CountedBefore DEF Compressing
  <2>4. Small => Small'
    BY <2>1, <2>2 DEF Small, Alone
  <2>5. QED
    BY <1>2, <2>1, <2>3, <2>4, CountedHere DEF Compressing
<1>6. QED
  BY <1>3, <1>4, <1>5

LEMMA StepTidy ==
  ASSUME MemoryInv, Tidy, [Next]_agentVars
  PROVE  Tidy'
<1>1. CASE UNCHANGED memoryVars
  <2>1. OneAtATime' <=> OneAtATime
    BY <1>1 DEF memoryVars, OneAtATime, CallerActive
  <2>2. TextsApart' <=> TextsApart
    BY <1>1 DEF memoryVars, TextsApart, Stored
  <2>3. EntriesApart' <=> EntriesApart
    BY <1>1 DEF memoryVars, EntriesApart
  <2>4. Counted' <=> Counted
    BY <1>1 DEF memoryVars, Counted, Small
  <2>5. QED
    BY <1>1, <2>1, <2>2, <2>3, <2>4 DEF memoryVars, Tidy
<1>2. ASSUME NEW c \in Caller, MemoryStep(c) \/ MemoryTimer(c) PROVE Tidy'
  <2>1. memory' = memory
    BY <1>2 DEF MemoryStep, Remember, Store, Count, Compress, Measure, List, Summarized, DeleteOld,
                StoreSummary, Forget, MemoryArrival, MemoryTimer, CallerHears
  <2> SUFFICES ASSUME memory.serial, ~memory.fails
               PROVE  OneAtATime' /\ TextsApart' /\ EntriesApart' /\ Counted'
    BY <2>1 DEF Tidy
  <2>2. OneAtATime /\ TextsApart /\ EntriesApart /\ Counted
    BY DEF Tidy
  <2>3. OneAtATime' /\ Alone(c)
    BY <1>2, <2>2, OnlyOneSteps DEF Alone
  <2>4. QED
    BY <1>2, <2>2, <2>3, CountTidy, ListTidy, RequestTidy, RememberTidy, StoreTidy, DeleteOldTidy,
       StoreSummaryTidy, ForgetTidy DEF MemoryStep
<1>3. QED
  BY <1>1, <1>2 DEF Next, Timer, agentVars

LEMMA InitTidy == Init => Tidy
<1> SUFFICES ASSUME Init PROVE Tidy
  OBVIOUS
<1>1. entries = {} /\ caller = [c \in Caller |-> NoCaller] /\ memory.maxEntries \in Nat
  <2>1. MemoryTypes
    BY InitInv DEF MemoryInv
  <2>2. QED
    BY <2>1 DEF Init, MemoryInit, MemoryTypes, MemorySetup
<1>2. \A c \in Caller : caller[c].stage = "idle" /\ caller[c].text = {} /\ caller[c].old = {}
  BY <1>1 DEF NoCaller
<1>3. Small /\ IsFiniteSet(entries)
  BY <1>1, FS_EmptySet DEF Small
<1>4. QED
  BY <1>1, <1>2, <1>3 DEF Tidy, OneAtATime, CallerActive, TextsApart, EntriesApart, Counted

\* With calls that do not overlap, no text is in two entries, and there are no
\* more entries than maxEntries, or than keepRecent and a summary (memory.js:78).
THEOREM MemoryStaysCompact == Spec => []MemoryIsCompact
<1>1. MemoryInv /\ Tidy /\ [Next]_agentVars => (MemoryInv /\ Tidy)'
  BY StepKeeps, StepTidy
<1>2. MemoryInv /\ Tidy => MemoryIsCompact
  BY DEF MemoryIsCompact, Tidy, EntriesApart, Counted, CallerActive, Compressing, Small
<1>3. QED
  BY InitInv, InitTidy, <1>1, <1>2, PTL DEF Spec

-----------------------------------------------------------------------------
(* ask(): every entry of the cache, in memory, in _meta and in storage, is  *)
(* found under the hash of the question and the schema that its filter was  *)
(* made for, and was not made in the future.                                *)

Words == Question \union {"none"}
CachedFilter == [for : Words, schema : Nat, good : BOOLEAN]
Keys == {asking.hash[q][n] : q \in Words, n \in Nat}
Cached == [key : Keys, filter : CachedFilter, ts : Nat]
AskerState == [stage : {"idle", "generating", "answered", "failed"}, question : Words, schema : Nat,
               filter : CachedFilter, made : Nat, heard : Nat, request : Request]

\* An entry as it should be, and a cache of such entries.
Proper(e) == e \in Cached /\ e.key = Key(e.filter.for, e.filter.schema)
ProperCache(s) == s \in Seq(Cached) /\ \A i \in DOMAIN s : Proper(s[i])

AskInv ==
  /\ asking \in AskSetup
  /\ schema \in Nat /\ today \in Nat
  /\ ProperCache(cache) /\ ProperCache(meta) /\ ProperCache(stored)
  /\ asker \in [Asker -> AskerState]
  /\ \A c \in Asker : asker[c].stage # "generating" => asker[c].request.stage \notin {"sent", "waiting", "body"}
  /\ AnswersFit

\* The configuration, and with it the hash, does not change.
LEMMA ProperStays ==
  ASSUME UNCHANGED asking
  PROVE  /\ ProperCache(cache') => ProperCache(cache)'
         /\ ProperCache(meta') => ProperCache(meta)'
         /\ ProperCache(stored') => ProperCache(stored)'
BY DEF ProperCache, Proper, Cached, Keys, Key

LEMMA KeysAreTyped ==
  ASSUME NEW q \in Words, NEW n \in Nat
  PROVE  Key(q, n) \in Keys
BY DEF Key, Keys

LEMMA RemoveAtKeeps ==
  ASSUME NEW s, ProperCache(s), NEW i \in DOMAIN s
  PROVE  ProperCache(RemoveAt(s, i))
<1>1. s \in Seq(Cached) /\ i \in 1 .. Len(s) /\ Len(s) \in Nat
  BY DEF ProperCache
<1>2. /\ SubSeq(s, 1, i - 1) \in Seq(Cached) /\ SubSeq(s, i + 1, Len(s)) \in Seq(Cached)
      /\ \A j \in DOMAIN SubSeq(s, 1, i - 1) : \E m \in DOMAIN s : SubSeq(s, 1, i - 1)[j] = s[m]
      /\ \A j \in DOMAIN SubSeq(s, i + 1, Len(s)) : \E m \in DOMAIN s : SubSeq(s, i + 1, Len(s))[j] = s[m]
  BY <1>1, SubSeqProperties
<1>3. ProperCache(SubSeq(s, 1, i - 1)) /\ ProperCache(SubSeq(s, i + 1, Len(s)))
  BY <1>2 DEF ProperCache
<1>4. \A u, v \in Seq(Cached) : ProperCache(u) /\ ProperCache(v) => ProperCache(u \o v)
  <2>1. SUFFICES ASSUME NEW u \in Seq(Cached), NEW v \in Seq(Cached), ProperCache(u), ProperCache(v)
                 PROVE  ProperCache(u \o v)
    OBVIOUS
  <2>2. /\ u \o v \in Seq(Cached) /\ Len(u \o v) = Len(u) + Len(v)
        /\ \A j \in 1 .. Len(u) + Len(v) : (u \o v)[j] = IF j <= Len(u) THEN u[j] ELSE v[j - Len(u)]
    BY ConcatProperties
  <2>3. \A j \in DOMAIN (u \o v) : Proper((u \o v)[j])
    BY <2>1, <2>2 DEF ProperCache
  <2>4. QED
    BY <2>2, <2>3 DEF ProperCache
<1>5. QED
  BY <1>2, <1>3, <1>4 DEF RemoveAt

LEMMA SetInKeeps ==
  ASSUME NEW s, ProperCache(s), NEW e, Proper(e)
  PROVE  ProperCache(SetIn(s, e))
<1>1. s \in Seq(Cached) /\ e \in Cached
  BY DEF ProperCache, Proper
<1>2. CASE At(s, e.key) # {}
  <2>1. SetIn(s, e) = [i \in DOMAIN s |-> IF s[i].key = e.key THEN e ELSE s[i]]
    BY <1>2 DEF SetIn
  <2>2. SetIn(s, e) \in Seq(Cached) /\ DOMAIN SetIn(s, e) = DOMAIN s
    BY <1>1, <2>1
  <2>3. QED
    BY <2>1, <2>2 DEF ProperCache
<1>3. CASE At(s, e.key) = {}
  <2> DEFINE t == IF Len(s) >= asking.maxSize THEN Tail(s) ELSE s
  <2>1. SetIn(s, e) = Append(t, e)
    BY <1>3 DEF SetIn
  <2>2. t \in Seq(Cached) /\ \A i \in DOMAIN t : \E j \in DOMAIN s : t[i] = s[j]
    <3>1. CASE s = <<>>
      BY <3>1
    <3>2. CASE s # <<>>
      BY <1>1, <3>2, HeadTailProperties
    <3>3. QED
      BY <3>1, <3>2
  <2> HIDE DEF t
  <2>3. /\ Append(t, e) \in Seq(Cached)
        /\ \A i \in DOMAIN Append(t, e) : Append(t, e)[i] = e \/ \E j \in DOMAIN t : Append(t, e)[i] = t[j]
    BY <1>1, <2>2, AppendProperties
  <2>4. QED
    BY <2>1, <2>2, <2>3 DEF ProperCache
<1>4. QED
  BY <1>2, <1>3

LEMMA NoAskerIsAState ==
  /\ NoAsker \in AskerState /\ NoAsker.stage = "idle" /\ NoAsker.request.stage = "none"
<1>0. "none" \in Words
  BY DEF Words
<1>1. NoFilter \in CachedFilter
  BY <1>0 DEF NoFilter, CachedFilter
<1>2. NoRequest \in Request /\ NoRequest.stage = "none"
  BY DEF NoRequest, Request, RequestStage
<1>3. QED
  BY <1>0, <1>1, <1>2 DEF NoAsker, AskerState

LEMMA AskInitInv == Init => AskInv
<1> SUFFICES ASSUME Init PROVE AskInv
  OBVIOUS
<1>1. PICK s \in AgentSetups : AskInit(s[2])
  BY DEF Init
<1>2. asking \in AskSetup
  BY <1>1, AgentAssumption DEF AskInit
<1>3. /\ schema = 1 /\ today = 1 /\ cache = <<>> /\ meta = <<>> /\ stored = <<>>
      /\ asker = [c \in Asker |-> NoAsker]
  BY <1>1 DEF AskInit
<1>4. ProperCache(<<>>)
  BY DEF ProperCache
<1>5. QED
  BY <1>2, <1>3, <1>4, NoAskerIsAState DEF AskInv, AnswersFit

\* An answer that fits, or none.
Fits(q) ==
  q.stage = "answered" =>
    /\ \/ q.filter.for = q.question /\ q.filter.schema = q.schema
       \/ asking.hash[q.filter.for][q.filter.schema] = asking.hash[q.question][q.schema]
    /\ asking.ttl > 0 => q.heard - q.made <= asking.ttl

\* One call goes on.
LEMMA AskerGoesOn ==
  ASSUME AskInv, NEW c \in Asker, NEW q \in AskerState,
         asker' = [asker EXCEPT ![c] = q],
         UNCHANGED <<asking, schema, today, stored>>,
         ProperCache(cache'), ProperCache(meta'),
         q.stage # "generating" => q.request.stage \notin {"sent", "waiting", "body"},
         Fits(q)
  PROVE  AskInv'
<1>1. asker' \in [Asker -> AskerState] /\ asker'[c] = q /\ \A d \in Asker \ {c} : asker'[d] = asker[d]
  BY DEF AskInv
<1>2. AnswersFit'
  <2>1. \A d \in Asker : Fits(asker[d])
    BY DEF AskInv, AnswersFit, Fits, Own, SameHash
  <2>2. \A d \in Asker : Fits(asker'[d])
    BY <1>1, <2>1
  <2>3. QED
    BY <2>2 DEF AnswersFit, Fits, Own, SameHash
<1>3. \A d \in Asker : asker'[d].stage # "generating" => asker'[d].request.stage \notin {"sent", "waiting", "body"}
  BY <1>1 DEF AskInv
<1>4. ProperCache(stored')
  BY DEF AskInv
<1>5. asking' \in AskSetup /\ schema' \in Nat /\ today' \in Nat
  BY DEF AskInv
<1>6. ProperCache(cache)' /\ ProperCache(meta)' /\ ProperCache(stored)'
  BY <1>4, ProperStays
<1>7. QED
  BY <1>1, <1>2, <1>3, <1>5, <1>6 DEF AskInv

LEMMA DroppedIsProper ==
  ASSUME AskInv, NEW k PROVE ProperCache(Dropped(k))
<1>1. CASE \E i \in At(cache, k) : ~Fresh(cache[i])
  <2> DEFINE i == CHOOSE j \in At(cache, k) : ~Fresh(cache[j])
  <2>1. i \in At(cache, k) /\ Dropped(k) = RemoveAt(cache, i)
    BY <1>1 DEF Dropped
  <2>2. i \in DOMAIN cache
    BY <2>1 DEF At
  <2> HIDE DEF i
  <2>3. QED
    BY <2>1, <2>2, RemoveAtKeeps DEF AskInv
<1>2. CASE ~\E i \in At(cache, k) : ~Fresh(cache[i])
  BY <1>2 DEF Dropped, AskInv
<1>3. QED
  BY <1>1, <1>2

\* An answer of the cache was made for the question and schema of its key.
LEMMA LookupKeeps ==
  ASSUME AskInv, NEW c \in Asker, Lookup(c)
  PROVE  AskInv'
<1> DEFINE asked(q) == [NoAsker EXCEPT !.question = q, !.schema = schema]
<1>1. PICK q \in asking.questions :
        /\ \/ \E i \in At(cache, Key(q, schema)) :
                /\ Fresh(cache[i])
                /\ asker' = [asker EXCEPT ![c] =
                     [asked(q) EXCEPT !.stage = Ending(cache[i].filter), !.filter = cache[i].filter,
                                      !.made = cache[i].ts, !.heard = today]]
           \/ asker' = [asker EXCEPT ![c] = [asked(q) EXCEPT !.stage = "generating", !.request = Send]]
        /\ cache' = Dropped(Key(q, schema))
  BY DEF Lookup
<1>2. /\ UNCHANGED <<asking, schema, today, meta, stored>>
      /\ ProperCache(cache') /\ ProperCache(meta')
  BY <1>1, DroppedIsProper DEF Lookup, AskInv
<1>3. q \in Words /\ schema \in Nat /\ today \in Nat
  BY DEF AskInv, AskSetup, Words
<1>4. asked(q) \in AskerState /\ asked(q).question = q /\ asked(q).schema = schema /\ asked(q).request.stage = "none"
  BY <1>3, NoAskerIsAState DEF AskerState
<1> HIDE DEF asked
<1>5. CASE asker' = [asker EXCEPT ![c] = [asked(q) EXCEPT !.stage = "generating", !.request = Send]]
  <2> DEFINE r == [asked(q) EXCEPT !.stage = "generating", !.request = Send]
  <2>1. Send \in Request
    BY DEF Send, Request, RequestStage
  <2>2. r \in AskerState /\ r.stage = "generating"
    BY <1>4, <2>1 DEF AskerState
  <2>3. asker' = [asker EXCEPT ![c] = r] /\ Fits(r)
    BY <1>5, <2>2 DEF Fits
  <2> HIDE DEF r
  <2>4. QED
    BY <1>2, <2>2, <2>3, AskerGoesOn
<1>6. ASSUME NEW i \in At(cache, Key(q, schema)), Fresh(cache[i]),
             asker' = [asker EXCEPT ![c] =
               [asked(q) EXCEPT !.stage = Ending(cache[i].filter), !.filter = cache[i].filter,
                                !.made = cache[i].ts, !.heard = today]]
      PROVE  AskInv'
  <2> DEFINE e == cache[i]
  <2> DEFINE r == [asked(q) EXCEPT !.stage = Ending(e.filter), !.filter = e.filter,
                                   !.made = e.ts, !.heard = today]
  <2>1. e \in Cached /\ e.key = Key(e.filter.for, e.filter.schema) /\ e.key = Key(q, schema)
    BY <1>6 DEF At, AskInv, ProperCache, Proper
  <2>2. asking.hash[e.filter.for][e.filter.schema] = asking.hash[q][schema]
    BY <2>1 DEF Key
  <2>3. asking.ttl \in Nat /\ (asking.ttl > 0 => today - e.ts <= asking.ttl)
    BY <1>6 DEF Fresh, AskInv, AskSetup
  <2>4. Ending(e.filter) \in {"answered", "failed"}
    BY DEF Ending
  <2>5. asker' = [asker EXCEPT ![c] = r]
    BY <1>6
  <2> HIDE DEF e
  <2>6. /\ r \in AskerState /\ r.stage = Ending(e.filter) /\ r.filter = e.filter /\ r.made = e.ts
        /\ r.heard = today /\ r.question = q /\ r.schema = schema /\ r.request.stage = "none"
    BY <1>3, <1>4, <2>1, <2>4 DEF AskerState, Cached
  <2> HIDE DEF r
  <2>7. Fits(r)
    BY <2>2, <2>3, <2>6 DEF Fits
  <2>8. QED
    BY <1>2, <2>4, <2>5, <2>6, <2>7, AskerGoesOn
<1>7. QED
  BY <1>1, <1>5, <1>6

\* What the model makes is cached under what it was asked.
LEMMA GeneratedKeeps ==
  ASSUME AskInv, NEW c \in Asker, Generated(c)
  PROVE  AskInv'
<1> DEFINE f(good) == [for |-> asker[c].question, schema |-> asker[c].schema, good |-> good]
<1>1. PICK good \in BOOLEAN :
        /\ cache' = SetIn(cache, [key |-> Key(asker[c].question, asker[c].schema), filter |-> f(good), ts |-> today])
        /\ asker' = [asker EXCEPT ![c].stage = Ending(f(good)), ![c].filter = f(good), ![c].made = today,
                                  ![c].heard = today, ![c].request = NoRequest]
  BY DEF Generated
<1>2. meta' = cache' /\ UNCHANGED <<asking, schema, today, stored>>
  BY DEF Generated
<1>3. asker[c] \in AskerState /\ today \in Nat /\ ProperCache(cache) /\ asking.ttl \in Nat
  BY DEF AskInv, AskSetup
<1>4. /\ f(good) \in CachedFilter /\ f(good).for = asker[c].question /\ f(good).schema = asker[c].schema
      /\ Ending(f(good)) \in {"answered", "failed"}
  BY <1>3 DEF AskerState, CachedFilter, Ending
<1> HIDE DEF f
<1> DEFINE e == [key |-> Key(asker[c].question, asker[c].schema), filter |-> f(good), ts |-> today]
<1>5. Proper(e)
  <2>1. Key(asker[c].question, asker[c].schema) \in Keys
    BY <1>3, KeysAreTyped DEF AskerState
  <2>2. QED
    BY <1>3, <1>4, <2>1 DEF Proper, Cached
<1>6. ProperCache(cache') /\ ProperCache(meta')
  BY <1>1, <1>2, <1>3, <1>5, SetInKeeps
<1> DEFINE r == [asker[c] EXCEPT !.stage = Ending(f(good)), !.filter = f(good), !.made = today,
                                 !.heard = today, !.request = NoRequest]
<1>7. NoRequest \in Request /\ NoRequest.stage = "none"
  BY DEF NoRequest, Request, RequestStage
<1>8. r \in AskerState /\ asker' = [asker EXCEPT ![c] = r]
  BY <1>1, <1>3, <1>4, <1>7 DEF AskerState, AskInv
<1>9. /\ r.filter = f(good) /\ r.question = asker[c].question /\ r.schema = asker[c].schema
      /\ r.made = today /\ r.heard = today /\ r.request = NoRequest
  BY <1>3 DEF AskerState
<1> HIDE DEF r
<1>10. Fits(r)
  BY <1>3, <1>4, <1>9 DEF Fits
<1>11. QED
  BY <1>2, <1>6, <1>7, <1>8, <1>9, <1>10, AskerGoesOn

LEMMA AskRequestMoves ==
  ASSUME AskInv, NEW c \in Asker, AskArrival(c) \/ AskTimer(c)
  PROVE  AskInv'
<1>1. asker[c] \in AskerState /\ asker[c].request \in Request /\ asking.limits \in Limits
  BY DEF AskInv, AskerState, AskSetup
<1>2. PICK r \in Arrivals(asker[c].request, asking.limits) \union Timers(asker[c].request, asking.limits) :
        /\ asker' = [asker EXCEPT ![c].request = r,
                                  ![c].stage = IF r.stage = "failed" THEN "failed" ELSE @]
        /\ UNCHANGED <<asking, schema, today, cache, meta, stored>>
  BY DEF AskArrival, AskTimer, AskerHears
<1>3. r \in Request /\ asker[c].request.stage \in {"sent", "waiting", "body"}
  BY <1>1, <1>2, MovesAreRequests
<1>4. asker[c].stage = "generating"
  BY <1>3 DEF AskInv
<1> DEFINE q == [asker[c] EXCEPT !.request = r, !.stage = IF r.stage = "failed" THEN "failed" ELSE @]
<1>5. q \in AskerState /\ asker' = [asker EXCEPT ![c] = q]
  BY <1>1, <1>2, <1>3 DEF AskerState, AskInv
<1>6. q.request = r /\ q.stage = IF r.stage = "failed" THEN "failed" ELSE "generating"
  BY <1>1, <1>4 DEF AskerState
<1> HIDE DEF q
<1>7. (q.stage # "generating" => q.request.stage \notin {"sent", "waiting", "body"}) /\ Fits(q)
  BY <1>6 DEF Fits
<1>8. ProperCache(cache') /\ ProperCache(meta')
  BY <1>2 DEF AskInv
<1>9. QED
  BY <1>2, <1>5, <1>7, <1>8, AskerGoesOn

LEMMA RestartKeeps ==
  ASSUME AskInv, Restart
  PROVE  AskInv'
<1>1. /\ cache' = stored /\ meta' = stored
      /\ UNCHANGED <<asking, schema, today, stored>>
  BY DEF Restart
<1>2. NoRequest \in Request /\ NoRequest.stage = "none"
  BY DEF NoRequest, Request, RequestStage
<1>3. \A c \in Asker :
        \/ asker'[c] = asker[c]
        \/ /\ asker'[c] = [asker[c] EXCEPT !.stage = "failed", !.request = NoRequest]
           /\ asker'[c] \in AskerState /\ asker'[c].stage = "failed" /\ asker'[c].request.stage = "none"
  <2> SUFFICES ASSUME NEW c \in Asker, asker'[c] # asker[c]
               PROVE  /\ asker'[c] = [asker[c] EXCEPT !.stage = "failed", !.request = NoRequest]
                      /\ asker'[c] \in AskerState /\ asker'[c].stage = "failed" /\ asker'[c].request.stage = "none"
    OBVIOUS
  <2>1. asker'[c] = [asker[c] EXCEPT !.stage = "failed", !.request = NoRequest]
    BY DEF Restart
  <2>2. asker[c] \in AskerState
    BY DEF AskInv
  <2>3. QED
    BY <1>2, <2>1, <2>2 DEF AskerState
<1>4. asker' \in [Asker -> AskerState]
  <2>1. asker' = [c \in Asker |-> asker'[c]]
    BY DEF Restart
  <2>2. \A c \in Asker : asker'[c] \in AskerState
    BY <1>3 DEF AskInv
  <2>3. QED
    BY <2>1, <2>2
<1>5. AnswersFit'
  BY <1>1, <1>3 DEF AskInv, AnswersFit, Own, SameHash
<1>6. \A c \in Asker : asker'[c].stage # "generating" => asker'[c].request.stage \notin {"sent", "waiting", "body"}
  BY <1>3 DEF AskInv
<1>7. ProperCache(cache)' /\ ProperCache(meta)' /\ ProperCache(stored)'
  BY <1>1, ProperStays DEF AskInv
<1>8. QED
  BY <1>1, <1>4, <1>5, <1>6, <1>7 DEF AskInv

LEMMA AskUnchanged ==
  ASSUME AskInv, UNCHANGED <<asking, asker>>, schema' \in Nat, today' \in Nat,
         ProperCache(cache'), ProperCache(meta'), ProperCache(stored')
  PROVE  AskInv'
BY ProperStays DEF AskInv, AnswersFit, Own, SameHash

LEMMA AskStepKeeps ==
  ASSUME AskInv, [Next]_agentVars
  PROVE  AskInv'
<1>1. CASE UNCHANGED askVars
  <2>1. schema' \in Nat /\ today' \in Nat /\ ProperCache(cache') /\ ProperCache(meta') /\ ProperCache(stored')
    BY <1>1 DEF askVars, AskInv
  <2>2. QED
    BY <1>1, <2>1, AskUnchanged DEF askVars
<1>2. CASE AskStep
  <2>1. CASE SaveMeta
    BY <2>1, AskUnchanged DEF SaveMeta, AskInv
  <2>2. CASE SchemaChanges
    BY <2>2, AskUnchanged DEF SchemaChanges, AskInv
  <2>3. CASE DayPasses
    BY <2>3, AskUnchanged DEF DayPasses, AskInv
  <2>4. QED
    BY <1>2, <2>1, <2>2, <2>3, RestartKeeps, LookupKeeps, GeneratedKeeps, AskRequestMoves DEF AskStep
<1>3. ASSUME NEW c \in Asker, AskTimer(c) PROVE AskInv'
  BY <1>3, AskRequestMoves
<1>4. QED
  BY <1>1, <1>2, <1>3 DEF Next, Timer, agentVars

\* Whatever is cached, evicted, restored after a restart or asked at the same
\* time, an answer is found with a filter for its own question and schema, or
\* for those of the same hash, no older than the cache allows (ask.js:55).
THEOREM AnswersAreFitting == Spec => []AnswersFit
<1>1. AskInv /\ [Next]_agentVars => AskInv'
  BY AskStepKeeps
<1>2. AskInv => AnswersFit
  BY DEF AskInv
<1>3. QED
  BY AskInitInv, <1>1, <1>2, PTL DEF Spec

-----------------------------------------------------------------------------
(***************************************************************************)
(* McpServer: answers fit, and scopes hold.                                *)
(***************************************************************************)

USE McpAssumption, NameAssumption

\* The parts of the invariant.

Answer == [id : Nat, for : Messages, what : {"ok", "failed", "denied", "error", "tools"}]

StateType ==
  /\ setup \in McpSetups
  /\ sent \in [Client -> Nat]
  /\ pipe \subseteq Messages
  /\ running \subseteq [msg : Messages, id : Nat, stage : {"begun", "changed"}]
  /\ replies \in [Messages -> Nat]
  /\ got \in [Client -> Seq(Answer)]
  /\ docs \in [Collection -> SUBSET Doc]

\* A call that runs passed every test of the router, and keeps its id.
CallsAreChecked ==
  \A r \in running :
    LET t == Body(r.msg)
    IN  /\ t.kind = "request" /\ r.id = t.id
        /\ t.tool \in Tools
        /\ HasScope(setup.scopes, t.name, ScopeOf(t.tool))
        /\ ~Rejects(t.tool, t.name, t.filter, MaxDepth)

\* A message is to be sent, on its way, running, or done with; only a message
\* that was handled has an answer, and one at most.
HandledOnce ==
  /\ \A r, q \in running : r.msg = q.msg => r = q
  /\ \A r \in running : r.msg \notin pipe
  /\ \A m \in pipe \union {r.msg : r \in running} : m[2] <= sent[m[1]] /\ replies[m] = 0
  /\ \A m \in Messages : m[2] > sent[m[1]] => replies[m] = 0
  /\ \A m \in Messages : replies[m] <= (IF NeedsAnswer(m) THEN 1 ELSE 0)

AnswersCarryIds ==
  \A c \in Client : \A k \in DOMAIN got[c] :
    LET a == got[c][k]
    IN  NeedsAnswer(a.for) /\ a.id = (IF Body(a.for).kind = "request" THEN Body(a.for).id ELSE NoId)

\* What changed was changed by a call that passed the tests.
EffectsAreGranted ==
  \A e \in effects :
    LET t == Body(e.msg)
    IN  /\ e.msg \in Messages
        /\ e.col \in Collection /\ e.col = CollectionOf(t.name)
        /\ t.name # NoCollection /\ HasScope(setup.scopes, t.name, "write")
        /\ t.tool # "insert" => Matches(e.doc, Sanitize(t.filter))

MInv ==
  /\ CallsAreChecked
  /\ HandledOnce
  /\ AnswersCarryIds
  /\ EffectsAreGranted

-----------------------------------------------------------------------------
(* Messages and answers. *)

LEMMA MessageParts ==
  ASSUME NEW m
  PROVE  m \in Messages <=> /\ m \in Client \X (1 .. MaxMessages)
                            /\ m[2] <= Len(setup.script[m[1]])
BY DEF Messages

LEMMA MessageType ==
  ASSUME StateType, NEW m \in Messages
  PROVE  /\ m = <<m[1], m[2]>> /\ m[1] \in Client /\ m[2] \in 1 .. Len(setup.script[m[1]])
         /\ Body(m) \in Message
<1>1. m \in Client \X (1 .. MaxMessages) /\ m[2] <= Len(setup.script[m[1]])
  BY MessageParts
<1>2. setup.script \in [Client -> Seq(Message)]
  BY DEF StateType
<1>3. setup.script[m[1]] \in Seq(Message) /\ m[2] \in 1 .. Len(setup.script[m[1]])
  BY <1>1, <1>2
<1>4. Body(m) \in Message
  BY <1>3 DEF Body
<1> QED BY <1>1, <1>3, <1>4

\* What is sent does not change.
LEMMA SetupStays ==
  ASSUME setup' = setup
  PROVE  /\ Messages' = Messages /\ Answer' = Answer
         /\ \A m : Body(m)' = Body(m) /\ NeedsAnswer(m)' = NeedsAnswer(m)
<1>1. Messages' = Messages
  BY DEF Messages
<1>2. \A m : Body(m)' = Body(m) /\ NeedsAnswer(m)' = NeedsAnswer(m)
  BY DEF Body, NeedsAnswer
<1> QED BY <1>1, <1>2 DEF Answer

\* An answer is a message's own, and its first.
LEMMA ReplyType ==
  ASSUME StateType, AnswersCarryIds, setup' = setup, NEW m \in Messages, replies[m] = 0, NeedsAnswer(m),
         NEW id, id = (IF Body(m).kind = "request" THEN Body(m).id ELSE NoId),
         NEW what \in {"ok", "failed", "denied", "error", "tools"}, Reply(m, id, what)
  PROVE  /\ replies' \in [Messages -> Nat] /\ replies' = [replies EXCEPT ![m] = 1]
         /\ got' \in [Client -> Seq(Answer)]
         /\ AnswersCarryIds'
<1> DEFINE a == [id |-> id, for |-> m, what |-> what]
<1>1. replies' \in [Messages -> Nat] /\ replies' = [replies EXCEPT ![m] = 1]
  BY DEF Reply, StateType
<1>2. a \in Answer
  <2>1. Body(m).id \in Nat
    BY MessageType DEF Message
  <2> QED BY <2>1 DEF Answer, NoId
<1>3. got \in [Client -> Seq(Answer)] /\ \A c \in Client : got'[c] = got[c] \/ got'[c] = Append(got[c], a)
  BY DEF Reply, StateType
<1>4. \A c \in Client : got'[c] \in Seq(Answer)
  <2> SUFFICES ASSUME NEW c \in Client PROVE got'[c] \in Seq(Answer)
    OBVIOUS
  <2>1. got[c] \in Seq(Answer)
    BY <1>3
  <2>2. Append(got[c], a) \in Seq(Answer)
    <3> HIDE DEF a
    <3> QED BY <1>2, <2>1, AppendProperties
  <2> QED BY <1>3, <2>1, <2>2
<1>5. got' \in [Client -> Seq(Answer)]
  <2>1. got' = [c \in Client |-> got'[c]]
    BY DEF Reply
  <2> QED BY <1>4, <2>1
<1>6. ASSUME NEW c \in Client, NEW k \in DOMAIN got'[c]
      PROVE  \/ k \in DOMAIN got[c] /\ got'[c][k] = got[c][k]
             \/ got'[c][k] = a
  <2>1. CASE got'[c] = got[c]
    BY <1>6, <2>1
  <2>2. CASE got'[c] = Append(got[c], a)
    <3>1. got[c] \in Seq(Answer)
      BY <1>3
    <3>2. k \in 1 .. Len(got[c]) + 1
      BY <1>2, <1>6, <2>2, <3>1, AppendProperties
    <3>3. k = Len(got[c]) + 1 => got'[c][k] = a
      BY <1>2, <2>2, <3>1, AppendProperties
    <3>4. k \in 1 .. Len(got[c]) => k \in DOMAIN got[c] /\ got'[c][k] = got[c][k]
      BY <1>2, <2>2, <3>1, AppendProperties
    <3> QED BY <3>1, <3>2, <3>3, <3>4
  <2> QED BY <1>3, <2>1, <2>2
<1>7. AnswersCarryIds'
  <2> SUFFICES ASSUME NEW c \in Client, NEW k \in DOMAIN got'[c]
               PROVE  LET b == got'[c][k]
                      IN  /\ NeedsAnswer(b.for)
                          /\ b.id = (IF Body(b.for).kind = "request" THEN Body(b.for).id ELSE NoId)
    BY SetupStays DEF AnswersCarryIds
  <2> QED BY <1>6 DEF AnswersCarryIds
<1> QED BY <1>1, <1>5, <1>7

LEMMA InitMInv == McpInit => StateType /\ MInv
<1> SUFFICES ASSUME McpInit PROVE StateType /\ MInv
  OBVIOUS
<1>1. StateType
  <2>1. got \in [Client -> Seq(Answer)] /\ \A c \in Client : got[c] = <<>>
    BY DEF McpInit
  <2>2. docs \in [Collection -> SUBSET Doc]
    BY DEF McpInit
  <2> QED BY <2>1, <2>2 DEF McpInit, StateType
<1>2. CallsAreChecked /\ EffectsAreGranted
  BY DEF McpInit, CallsAreChecked, EffectsAreGranted
<1>3. HandledOnce
  BY DEF McpInit, HandledOnce
<1>4. AnswersCarryIds
  BY DEF McpInit, AnswersCarryIds
<1> QED BY <1>1, <1>2, <1>3, <1>4 DEF MInv

-----------------------------------------------------------------------------
(* Steps. *)

\* A step that handles no message keeps what the parts of the invariant say of
\* messages, calls and answers.
LEMMA QuietStep ==
  ASSUME StateType, MInv,
         UNCHANGED <<setup, running, got, replies, docs, effects>>,
         sent' \in [Client -> Nat], \A c \in Client : sent[c] <= sent'[c],
         pipe' \subseteq Messages,
         \A m \in pipe' : m \in pipe \/ (m[2] = sent'[m[1]] /\ m[2] > sent[m[1]])
  PROVE  StateType' /\ MInv'
<1> USE DEF MInv
<1>1. StateType'
  BY SetupStays DEF StateType
<1>2. CallsAreChecked' /\ EffectsAreGranted'
  BY SetupStays DEF CallsAreChecked, EffectsAreGranted
<1>3. AnswersCarryIds'
  BY SetupStays DEF AnswersCarryIds
<1>4. \A m \in Messages : m[1] \in Client /\ m[2] \in Nat
  BY MessageType
<1>5. \A r \in running : r.msg \in Messages
  BY DEF StateType
<1>6. sent \in [Client -> Nat] /\ pipe \subseteq Messages
  BY DEF StateType
<1>7. \A m \in Messages : sent[m[1]] \in Nat /\ sent'[m[1]] \in Nat /\ sent[m[1]] <= sent'[m[1]]
  BY <1>4, <1>6
<1>8. HandledOnce'
  <2>1. \A r \in running : r.msg \notin pipe'
    <3> SUFFICES ASSUME NEW r \in running, r.msg \in pipe' PROVE FALSE
      OBVIOUS
    <3>1. r.msg[2] <= sent[r.msg[1]] /\ r.msg \notin pipe
      BY DEF HandledOnce
    <3> QED BY <1>4, <1>5, <1>7, <3>1
  <2>2. \A m \in pipe' \union {r.msg : r \in running} : m[2] <= sent'[m[1]] /\ replies[m] = 0
    <3> SUFFICES ASSUME NEW m \in pipe' \union {r.msg : r \in running}
                 PROVE  m[2] <= sent'[m[1]] /\ replies[m] = 0
      OBVIOUS
    <3>1. m \in Messages
      BY <1>5
    <3>2. CASE m \in pipe \union {r.msg : r \in running}
      BY <1>4, <1>7, <3>1, <3>2 DEF HandledOnce
    <3>3. CASE m \notin pipe \union {r.msg : r \in running}
      BY <1>4, <1>7, <3>1, <3>3 DEF HandledOnce
    <3> QED BY <3>2, <3>3
  <2>3. \A m \in Messages : m[2] > sent'[m[1]] => replies[m] = 0
    BY <1>4, <1>7 DEF HandledOnce
  <2> QED BY <2>1, <2>2, <2>3, SetupStays DEF HandledOnce
<1> QED BY <1>1, <1>2, <1>3, <1>8

\* The end of a message that was on its way or ran, with an answer or, if it
\* needs none, without one.
LEMMA AnsweredStep ==
  ASSUME StateType, MInv, NEW m \in pipe \union {r.msg : r \in running},
         UNCHANGED <<setup, sent, docs, effects>>,
         pipe' = pipe \ {m}, running' = {r \in running : r.msg # m},
         \/ NoReply
         \/ /\ NeedsAnswer(m)
            /\ \E what \in {"ok", "failed", "denied", "error", "tools"} :
                 Reply(m, IF Body(m).kind = "request" THEN Body(m).id ELSE NoId, what)
  PROVE  StateType' /\ MInv'
<1> USE DEF MInv
<1>0. m \in Messages /\ replies[m] = 0 /\ m[2] <= sent[m[1]]
  BY DEF StateType, HandledOnce
<1>1. /\ got' \in [Client -> Seq(Answer)] /\ AnswersCarryIds'
      /\ replies' \in [Messages -> Nat]
      /\ replies' = replies \/ (NeedsAnswer(m) /\ replies' = [replies EXCEPT ![m] = 1])
  <2>1. CASE NoReply
    BY <2>1, SetupStays DEF NoReply, StateType, AnswersCarryIds
  <2>2. CASE ~NoReply
    BY <1>0, <2>2, ReplyType
  <2> QED BY <2>1, <2>2
<1>2. StateType'
  BY <1>1, SetupStays DEF StateType
<1>3. CallsAreChecked' /\ EffectsAreGranted'
  BY SetupStays DEF CallsAreChecked, EffectsAreGranted
<1>4. HandledOnce'
  <2>1. \A q \in Messages : q # m => replies'[q] = replies[q]
    BY <1>1
  <2>2. /\ pipe' \subseteq pipe /\ running' \subseteq running
        /\ pipe' \subseteq Messages /\ \A r \in running' : r.msg \in Messages /\ r.msg # m
    BY DEF StateType
  <2>3. replies'[m] <= (IF NeedsAnswer(m) THEN 1 ELSE 0)
    BY <1>0, <1>1 DEF StateType
  <2>4. \A q \in Messages : q[2] > sent[q[1]] => replies'[q] = 0
    <3>1. m[2] \in Nat /\ sent[m[1]] \in Nat
      BY <1>0, MessageType DEF StateType
    <3> QED BY <1>0, <2>1, <3>1 DEF HandledOnce
  <2>5. \A q \in Messages : replies'[q] <= (IF NeedsAnswer(q) THEN 1 ELSE 0)
    BY <2>1, <2>3 DEF HandledOnce
  <2>6. \A q \in pipe' \union {r.msg : r \in running'} : q[2] <= sent[q[1]] /\ replies'[q] = 0
    BY <2>1, <2>2 DEF HandledOnce
  <2>7. /\ \A r, q \in running' : r.msg = q.msg => r = q
        /\ \A r \in running' : r.msg \notin pipe'
    BY <2>2 DEF HandledOnce
  <2> QED BY <2>4, <2>5, <2>6, <2>7, SetupStays DEF HandledOnce
<1> QED BY <1>1, <1>2, <1>3, <1>4

\* A message that is sent is on its way.
LEMMA SendStep ==
  ASSUME StateType, MInv, NEW c \in Client, SendMessage(c)
  PROVE  StateType' /\ MInv'
<1> DEFINE m == <<c, sent[c] + 1>>
<1>1. sent \in [Client -> Nat] /\ sent' = [sent EXCEPT ![c] = @ + 1] /\ sent[c] < Len(setup.script[c])
  BY DEF SendMessage, StateType
<1>2. sent' \in [Client -> Nat] /\ \A d \in Client : sent[d] <= sent'[d]
  BY <1>1
<1>3. m \in Messages
  <2>1. setup.script[c] \in Seq(Message) /\ Len(setup.script[c]) <= MaxMessages
    BY DEF StateType
  <2>2. sent[c] + 1 \in 1 .. MaxMessages /\ sent[c] + 1 <= Len(setup.script[c])
    BY <1>1, <2>1
  <2> QED BY <2>2, MessageParts
<1>4. pipe' = pipe \union {m}
  BY DEF SendMessage
<1>5. m[2] = sent'[m[1]] /\ m[2] > sent[m[1]]
  BY <1>1
<1>6. pipe' \subseteq Messages
  BY <1>3, <1>4 DEF StateType
<1> QED BY <1>2, <1>4, <1>5, <1>6, QuietStep DEF SendMessage

\* Handling a message keeps the invariant.
LEMMA HandleStep ==
  ASSUME StateType, MInv, NEW m \in pipe, Handle(m)
  PROVE  StateType' /\ MInv'
<1> USE DEF MInv
<1> DEFINE t == Body(m)
<1>0. /\ m \in Messages /\ t \in Message
      /\ pipe' = pipe \ {m}
      /\ \A r \in running : r.msg # m
      /\ UNCHANGED <<setup, sent, docs, effects>>
  BY MessageType DEF StateType, HandledOnce, Handle, Malformed, Simple, ToolCall, Arrives
<1>1. ASSUME running' = running,
             \/ NoReply
             \/ NeedsAnswer(m) /\ \E what \in {"ok", "failed", "denied", "error", "tools"} :
                  Reply(m, IF t.kind = "request" THEN t.id ELSE NoId, what)
      PROVE  StateType' /\ MInv'
  <2>1. running' = {r \in running : r.msg # m}
    BY <1>0, <1>1
  <2> QED BY <1>0, <1>1, <2>1, AnsweredStep
<1>2. CASE Malformed(m)
  <2>1. CASE t.kind = "garbage"
    <3>1. Reply(m, NoId, "error") /\ running' = running
      BY <1>2, <2>1 DEF Malformed
    <3> QED BY <1>1, <2>1, <3>1 DEF NeedsAnswer
  <2>2. CASE t.kind # "garbage"
    BY <1>1, <1>2, <2>2 DEF Malformed
  <2> QED BY <2>1, <2>2
<1>3. CASE Simple(m)
  <2>1. t.kind = "request" /\ running' = running
    BY <1>3 DEF Simple
  <2>2. \E what \in {"tools", "ok", "error"} : Reply(m, t.id, what)
    BY <1>3 DEF Simple
  <2> QED BY <1>1, <2>1, <2>2 DEF NeedsAnswer
<1>4. CASE ToolCall(m)
  <2>1. t.kind = "request"
    BY <1>4 DEF ToolCall
  <2> DEFINE Passes == /\ t.tool \in Tools /\ HasScope(setup.scopes, t.name, ScopeOf(t.tool))
                       /\ ~Rejects(t.tool, t.name, t.filter, MaxDepth)
  <2>2. CASE ~Passes
    <3>1. /\ running' = running
          /\ \E what \in {"error", "denied", "failed"} : Reply(m, t.id, what)
      BY <1>4, <2>2 DEF ToolCall
    <3> QED BY <1>1, <2>1, <3>1 DEF NeedsAnswer
  <2>3. CASE Passes
    <3> DEFINE r == [msg |-> m, id |-> t.id, stage |-> "begun"]
    <3>1. /\ t.tool \in Tools /\ HasScope(setup.scopes, t.name, ScopeOf(t.tool))
          /\ ~Rejects(t.tool, t.name, t.filter, MaxDepth)
          /\ running' = running \union {r} /\ UNCHANGED <<got, replies>>
      BY <1>4, <2>3 DEF ToolCall, NoReply
    <3>2. StateType'
      <4>1. r \in [msg : Messages, id : Nat, stage : {"begun", "changed"}]
        BY <1>0 DEF Message
      <4> QED BY <1>0, <3>1, <4>1, SetupStays DEF StateType
    <3>3. CallsAreChecked'
      <4>1. \A q \in running' : q \in running \/ (q.msg = m /\ q.id = t.id)
        BY <3>1
      <4> QED BY <1>0, <2>1, <3>1, <4>1, SetupStays DEF CallsAreChecked
    <3>4. HandledOnce'
      <4>1. \A q \in running' : q \in running \/ (q = r /\ q.msg = m)
        BY <3>1
      <4>2. \A p, q \in running' : p.msg = q.msg => p = q
        BY <1>0, <4>1 DEF HandledOnce
      <4>3. \A q \in running' : q.msg \notin pipe'
        BY <1>0, <4>1 DEF HandledOnce
      <4>4. \A q \in pipe' \union {p.msg : p \in running'} : q \in pipe \union {p.msg : p \in running}
        BY <1>0, <4>1
      <4> QED BY <1>0, <3>1, <4>2, <4>3, <4>4, SetupStays DEF HandledOnce
    <3>5. AnswersCarryIds' /\ EffectsAreGranted'
      BY <1>0, <3>1, SetupStays DEF AnswersCarryIds, EffectsAreGranted
    <3> QED BY <3>2, <3>3, <3>4, <3>5
  <2> QED BY <2>2, <2>3
<1> QED BY <1>2, <1>3, <1>4 DEF Handle

\* The turn in which a write changes the collection keeps the invariant.
LEMMA ChangeStep ==
  ASSUME StateType, MInv, NEW r \in running, Change(r)
  PROVE  StateType' /\ MInv'
<1> USE DEF MInv
<1> DEFINE t == Body(r.msg)
           col == CollectionOf(t.name)
           q == [r EXCEPT !.stage = "changed"]
<1>1. PICK ds \in IF t.tool = "insert" THEN {{d} : d \in Doc \ docs[col]} ELSE Chosen(t) :
        /\ docs' = [docs EXCEPT ![col] = IF t.tool = "insert" THEN @ \union ds
                                         ELSE IF t.tool = "delete" THEN @ \ ds ELSE @]
        /\ effects' = effects \union {[msg |-> r.msg, col |-> col, doc |-> d] : d \in ds}
  BY DEF Change
<1>2. /\ t.tool \in WriteTools
      /\ running' = (running \ {r}) \union {q}
      /\ UNCHANGED <<setup, sent, pipe, got, replies>>
  BY DEF Change
<1>3. r \in [msg : Messages, id : Nat, stage : {"begun", "changed"}] /\ r.msg \in Messages
  BY DEF StateType
<1>4. q \in [msg : Messages, id : Nat, stage : {"begun", "changed"}] /\ q.msg = r.msg /\ q.id = r.id
  BY <1>3
<1>5. \A p \in running' : p \in running \ {r} \/ (p = q /\ p.msg = r.msg /\ p.id = r.id)
  BY <1>2, <1>4
<1>6. /\ col \in Collection /\ t.name # NoCollection
      /\ HasScope(setup.scopes, t.name, "write")
  <2>1. col \in Collection \union System \union {NoCollection}
    BY <1>3, MessageType DEF Message, CollectionOf
  <2>2. col \notin System \union {NoCollection} /\ HasScope(setup.scopes, t.name, ScopeOf(t.tool))
    BY <1>2 DEF CallsAreChecked, Rejects, WriteTools
  <2>3. t.name # NoCollection
    BY <2>2 DEF CollectionOf
  <2> QED BY <1>2, <2>1, <2>2, <2>3 DEF ScopeOf
<1>7. docs' \in [Collection -> SUBSET Doc]
  <2>1. docs \in [Collection -> SUBSET Doc]
    BY DEF StateType
  <2>2. t.tool = "insert" => ds \subseteq Doc
    BY <1>1
  <2>3. (IF t.tool = "insert" THEN docs[col] \union ds
         ELSE IF t.tool = "delete" THEN docs[col] \ ds ELSE docs[col]) \in SUBSET Doc
    BY <1>6, <2>1, <2>2
  <2> QED BY <1>1, <1>6, <2>1, <2>3
<1>8. StateType'
  BY <1>2, <1>4, <1>7, SetupStays DEF StateType
<1>9. CallsAreChecked'
  BY <1>2, <1>5, SetupStays DEF CallsAreChecked
<1>10. HandledOnce'
  <2>1. \A p, s \in running' : p.msg = s.msg => p = s
    BY <1>5 DEF HandledOnce
  <2>2. {p.msg : p \in running'} \subseteq {p.msg : p \in running}
    BY <1>5
  <2>3. \A p \in running' : p.msg \notin pipe
    BY <1>5 DEF HandledOnce
  <2> QED BY <1>2, <2>1, <2>2, <2>3, SetupStays DEF HandledOnce
<1>11. AnswersCarryIds'
  BY <1>2, SetupStays DEF AnswersCarryIds
<1>12. EffectsAreGranted'
  <2>1. t.tool # "insert" => \A d \in ds : Matches(d, Sanitize(t.filter))
    BY <1>1 DEF Chosen
  <2>2. \A e \in effects' : e \in effects \/ (e.msg = r.msg /\ e.col = col /\ e.doc \in ds)
    BY <1>1
  <2> QED BY <1>2, <1>3, <1>6, <2>1, <2>2, SetupStays DEF EffectsAreGranted
<1> QED BY <1>8, <1>9, <1>10, <1>11, <1>12

\* The end of a call keeps the invariant.
LEMMA FinishStep ==
  ASSUME StateType, MInv, NEW r \in running, Finish(r)
  PROVE  StateType' /\ MInv'
<1> USE DEF MInv
<1>1. /\ running' = running \ {r}
      /\ \E what \in {"ok", "failed"} : Reply(r.msg, r.id, what)
      /\ UNCHANGED <<setup, sent, pipe, docs, effects>>
  BY DEF Finish
<1>2. Body(r.msg).kind = "request" /\ r.id = Body(r.msg).id /\ NeedsAnswer(r.msg)
  BY DEF CallsAreChecked, NeedsAnswer
<1>3. running' = {q \in running : q.msg # r.msg} /\ pipe' = pipe \ {r.msg}
  BY <1>1 DEF HandledOnce
<1> QED BY <1>1, <1>2, <1>3, AnsweredStep

LEMMA NextMInv == StateType /\ MInv /\ [McpNext]_vars => StateType' /\ MInv'
<1> SUFFICES ASSUME StateType, MInv, [McpNext]_vars PROVE StateType' /\ MInv'
  OBVIOUS
<1>1. CASE \/ UNCHANGED vars
           \/ \E c \in Client : OpenStream(c) \/ Leave(c)
           \/ Close \/ Closed \/ Listen
  <2>1. /\ UNCHANGED <<setup, sent, running, got, replies, docs, effects>>
        /\ pipe' = pipe \/ pipe' = {}
    BY <1>1 DEF vars, OpenStream, Leave, Close, Closed, Listen
  <2>2. sent' \in [Client -> Nat] /\ \A c \in Client : sent[c] <= sent'[c]
    BY <2>1 DEF StateType
  <2>3. pipe' \subseteq Messages
    BY <2>1 DEF StateType
  <2> QED BY <2>1, <2>2, <2>3, QuietStep
<1>2. CASE ~(\/ UNCHANGED vars
             \/ \E c \in Client : OpenStream(c) \/ Leave(c)
             \/ Close \/ Closed \/ Listen)
  BY <1>2, SendStep, HandleStep, ChangeStep, FinishStep DEF McpNext
<1> QED BY <1>1, <1>2

LEMMA MInvHolds == McpSpec => [](StateType /\ MInv)
<1> QED BY InitMInv, NextMInv, PTL DEF McpSpec

-----------------------------------------------------------------------------
(* Theorems. *)

\* Of all messages, however calls overlap and end and wherever answers are
\* broadcast, none is answered twice and no notification at all; and the answer
\* with the id of a request is the answer to it where ids are distinct.
THEOREM AnswersAreMatched == McpSpec => []AnswersMatch
<1>1. StateType /\ MInv => AnswersMatch
  <2> SUFFICES ASSUME StateType, MInv PROVE AnswersMatch
    OBVIOUS
  <2>1. \A m \in Messages : replies[m] <= (IF NeedsAnswer(m) THEN 1 ELSE 0)
    BY DEF MInv, HandledOnce
  <2>2. ASSUME setup.distinct, NEW m \in Messages, NEW k \in DOMAIN got[m[1]],
               Body(m).kind = "request", got[m[1]][k].id = Body(m).id
        PROVE  got[m[1]][k].for = m
    <3> DEFINE a == got[m[1]][k]
    <3>1. m[1] \in Client /\ m[2] \in 1 .. Len(setup.script[m[1]]) /\ m = <<m[1], m[2]>>
      BY MessageType
    <3>2. a.for \in Messages
      <4>1. got[m[1]] \in Seq(Answer)
        BY <3>1 DEF StateType
      <4>2. a \in Answer
        BY <2>2, <4>1
      <4> QED BY <4>2 DEF Answer
    <3>3. /\ a.for[1] \in Client /\ a.for[2] \in 1 .. Len(setup.script[a.for[1]])
          /\ a.for = <<a.for[1], a.for[2]>>
      BY <3>2, MessageType
    <3>4. a.id = (IF Body(a.for).kind = "request" THEN Body(a.for).id ELSE NoId)
      BY <2>2, <3>1 DEF MInv, AnswersCarryIds
    <3>5. setup \in McpSetups
      BY DEF StateType
    <3>6. Body(m).id # NoId
      BY <2>2, <3>1, <3>5 DEF Body
    <3>7. Body(a.for).kind = "request" /\ Body(a.for).id = Body(m).id
      BY <2>2, <3>4, <3>6
    <3>8. \A c, d \in Client : \A i \in 1 .. Len(setup.script[c]), j \in 1 .. Len(setup.script[d]) :
            /\ setup.script[c][i].kind = "request" /\ setup.script[d][j].kind = "request"
            /\ setup.script[d][j].id = setup.script[c][i].id
            => c = d /\ i = j
      BY <2>2, <3>5
    <3>9. a.for[1] = m[1] /\ a.for[2] = m[2]
      <4> HIDE DEF a
      <4> QED BY <2>2, <3>1, <3>3, <3>7, <3>8, SMTT(30) DEF Body
    <3> QED BY <3>1, <3>3, <3>9
  <2> QED BY <2>1, <2>2 DEF AnswersMatch
<1> QED BY <1>1, MInvHolds, PTL

\* Whatever agents send, documents change only where the scopes grant it by the
\* entry that is looked up, that of the collection unless the name was sent with
\* blanks around it, and only those that the filter as the agent sent it could
\* mean; and tools/list shows what is granted for some name.
THEOREM ScopesAreKept == McpSpec => []ScopesHold
<1>1. StateType /\ MInv => ScopesHold
  <2> SUFFICES ASSUME StateType, MInv PROVE ScopesHold
    OBVIOUS
  <2>0. DOMAIN setup.scopes \subseteq (Name \ {NoCollection}) \union {"*"}
    BY DEF StateType
  <2>1. ASSUME NEW e \in effects
        PROVE  LET t == Body(e.msg)
               IN  /\ e.col \in Collection
                   /\ LetsWrite(e.col) \/ (t.name # e.col /\ LetsWrite(t.name))
                   /\ t.tool # "insert" =>
                        Matches(e.doc, [t.filter EXCEPT !.fn = IF @ = "known" THEN @ ELSE "none"])
    <3> DEFINE t == Body(e.msg)
    <3>1. /\ e.msg \in Messages /\ e.col \in Collection /\ t.name # NoCollection
          /\ HasScope(setup.scopes, t.name, "write")
          /\ t.tool # "insert" => Matches(e.doc, Sanitize(t.filter))
      BY DEF MInv, EffectsAreGranted
    <3>2. LetsWrite(t.name)
      BY <3>1 DEF HasScope, Grants, LetsWrite
    <3>3. t.filter \in Filter
      BY <3>1, MessageType DEF Message
    <3>4. [t.filter EXCEPT !.fn = IF @ = "known" THEN @ ELSE "none"] = Sanitize(t.filter)
      BY <3>3 DEF Filter, Sanitize
    <3> QED BY <3>1, <3>2, <3>4
  <2>2. ASSUME NEW t \in Tools \ {"collections"}
        PROVE  t \in VisibleTools(setup.scopes) <=>
                 \E c \in (DOMAIN setup.scopes \ {"*"}) \union {"another"} :
                   HasScope(setup.scopes, c, ScopeOf(t))
    <3>1. "another" \notin DOMAIN setup.scopes /\ NoCollection \notin DOMAIN setup.scopes
      BY <2>0 DEF NoCollection
    <3>2. "another" # NoCollection
      BY DEF NoCollection
    <3>3. t \in VisibleTools(setup.scopes) <=>
            \E c \in DOMAIN setup.scopes : Grants(setup.scopes[c], ScopeOf(t))
      BY DEF VisibleTools
    <3>4. \A c \in DOMAIN setup.scopes : Grants(setup.scopes[c], ScopeOf(t)) =>
            \/ c # "*" /\ HasScope(setup.scopes, c, ScopeOf(t))
            \/ HasScope(setup.scopes, "another", ScopeOf(t))
      BY <3>1, <3>2 DEF HasScope
    <3>5. \A c : HasScope(setup.scopes, c, ScopeOf(t)) =>
            \E d \in DOMAIN setup.scopes : Grants(setup.scopes[d], ScopeOf(t))
      BY DEF HasScope
    <3> QED BY <3>3, <3>4, <3>5
  <2> QED BY <2>1, <2>2 DEF ScopesHold
<1> QED BY <1>1, MInvHolds, PTL

=============================================================================
