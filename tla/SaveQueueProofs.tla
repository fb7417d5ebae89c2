-------------------------- MODULE SaveQueueProofs ---------------------------
(***************************************************************************)
(* SaveQueue is correct for any number of callers and mutations.           *)
(*                                                                         *)
(* SavedIsDurable is not inductive: it needs to know that the single       *)
(* writer's image covers the writer's own request, and those of the queue  *)
(* unless pendingSave says that another round is due (QueueCovered), and   *)
(* that no image in flight is older than what storage holds.               *)
(***************************************************************************)
EXTENDS SaveQueue, TLAPS

\* The queue is exactly the callers that are waiting.
QueueExact == \A c \in Caller : c \in waiters <=> call[c] = "waiting"

\* A writer serialised after it was called, and never something older than
\* what storage has; storage has its image once the adapter answered.
WriterCurrent ==
  \A c \in Caller : Writing(c) =>
    /\ asked[c] <= image[c]
    /\ disk <= image[c]
    /\ call[c] \in {"landed", "returned"} => disk = image[c]

\* Whoever waits is covered by the image in flight, or by the next round.
QueueCovered ==
  \A c, d \in Caller :
    call[c] = "waiting" /\ Writing(d) => pendingSave \/ asked[c] <= image[d]

IInv ==
  /\ TypeOK
  /\ OneWriter
  /\ QueueExact
  /\ WriterCurrent
  /\ QueueCovered
  /\ SavedIsDurable

USE SaveQueueAssumption
-----------------------------------------------------------------------------

LEMMA InitTypeOK == Init => TypeOK
<1> SUFFICES ASSUME Init PROVE TypeOK
  OBVIOUS
<1>1. /\ data = 0
      /\ disk = 0
      /\ image = [c \in Caller |-> 0]
      /\ asked = [c \in Caller |-> 0]
      /\ waiters = {}
  BY DEF Init
<1>2. dirty \in BOOLEAN /\ isSaving \in BOOLEAN /\ pendingSave \in BOOLEAN
  BY DEF Init
<1>3. call \in [Caller -> CallState]
  BY DEF Init, CallState, RestState
<1>4. QED
  BY <1>1, <1>2, <1>3 DEF TypeOK

\* Serialising for the adapter records a version that exists.
LEMMA StartWriteType ==
  ASSUME TypeOK, NEW c \in Caller, StartWrite(c), data' = data
  PROVE  /\ call' \in [Caller -> CallState]
         /\ image' \in [Caller -> Nat]
         /\ \A d \in Caller : image'[d] <= data'
<1>1. /\ data \in Nat
      /\ image \in [Caller -> Nat]
      /\ call \in [Caller -> CallState]
      /\ \A d \in Caller : image[d] <= data
  BY DEF TypeOK
<1>2. /\ image' = [image EXCEPT ![c] = data]
      /\ call' = [call EXCEPT ![c] = "writing"]
  BY DEF StartWrite
<1>3. QED
  BY <1>1, <1>2 DEF CallState, WriteState

\* Each action keeps the types and the bounds by data.
LEMMA NextTypeOK == TypeOK /\ [Next]_vars => TypeOK'
<1> SUFFICES ASSUME TypeOK, [Next]_vars PROVE TypeOK'
  OBVIOUS
<1> USE DEF TypeOK, CallState, RestState, WriteState, queue
<1>1. ASSUME NEW c \in Caller, Mutate(c) PROVE TypeOK'
  BY <1>1 DEF Mutate
<1>2. ASSUME NEW c \in Caller, MarkDirty(c) PROVE TypeOK'
  BY <1>2 DEF MarkDirty
<1>3. ASSUME NEW c \in Caller, SaveOne(c), dirty' \in BOOLEAN PROVE TypeOK'
  <2>1. /\ data' = data /\ disk' = disk
        /\ asked' \in [Caller -> Nat]
        /\ \A d \in Caller : asked'[d] <= data'
    BY <1>3 DEF SaveOne
  <2>2. CASE JoinQueue(c)
    BY <1>3, <2>1, <2>2 DEF JoinQueue
  <2>3. CASE BecomeWriter(c)
    BY <1>3, <2>1, <2>3, StartWriteType DEF BecomeWriter
  <2>4. QED
    BY <1>3, <2>2, <2>3 DEF SaveOne
<1>4. ASSUME NEW c \in Caller, Progress(c) PROVE TypeOK'
  <2>1. CASE WriteLands(c)
    BY <2>1 DEF WriteLands
  <2>2. CASE WriteRejects(c)
    BY <2>2 DEF WriteRejects
  <2>3. CASE WriteReturns(c)
    BY <2>3 DEF WriteReturns
  <2>4. CASE Resave(c)
    BY <2>4, StartWriteType DEF Resave
  <2>5. CASE ResolveAll(c) \/ RejectAll(c)
    BY <2>5 DEF ResolveAll, RejectAll, AnswerAll
  <2>6. QED
    BY <1>4, <2>1, <2>2, <2>3, <2>4, <2>5 DEF Progress
<1>5. CASE UNCHANGED vars
  BY <1>5 DEF vars
<1>6. QED
  BY <1>1, <1>2, <1>3, <1>4, <1>5
     DEF Next, MarkDirtyAndSave, Save, SaveDirty

\* The state of the write queue is well typed, and no version is used before
\* a mutation made it.
THEOREM TypeCorrect == Spec => []TypeOK
<1>1. QED
  BY InitTypeOK, NextTypeOK, PTL DEF Spec

-----------------------------------------------------------------------------

LEMMA InitIInv == Init => IInv
<1> SUFFICES ASSUME Init PROVE IInv
  OBVIOUS
<1>1. TypeOK
  BY InitTypeOK
<1>2. QED
  BY <1>1 DEF Init, IInv, OneWriter, QueueExact, WriterCurrent, QueueCovered,
              SavedIsDurable, Writing, WriteState

\* Callers that only change the collection leave every request as it was.
LEMMA ChangeKeepsIInv ==
  ASSUME IInv, NEW c \in Caller, Mutate(c) \/ MarkDirty(c)
  PROVE  IInv'
<1>1. TypeOK'
  BY NextTypeOK DEF IInv, Next
<1>2. /\ call[c] \notin WriteState \union {"waiting"}
      /\ call' = [call EXCEPT ![c] = call'[c]]
      /\ call'[c] \in {"mutated", "idle"}
      /\ UNCHANGED <<isSaving, pendingSave, waiters, image, asked, disk>>
  BY DEF Mutate, MarkDirty, Resting, RestState, WriteState, queue, IInv, TypeOK
<1>3. QED
  BY <1>1, <1>2 DEF IInv, TypeOK, OneWriter, QueueExact, WriterCurrent,
                    QueueCovered, SavedIsDurable, Writing, WriteState

\* A new request joins the queue with pendingSave up, or is the only writer.
LEMMA SaveOneKeepsIInv ==
  ASSUME IInv, TypeOK', NEW c \in Caller, SaveOne(c),
         call[c] \notin WriteState \union {"waiting"}
  PROVE  IInv'
<1> USE DEF SaveOne, IInv, TypeOK, OneWriter, QueueExact, WriterCurrent,
            QueueCovered, SavedIsDurable, Writing, WriteState
<1>1. CASE JoinQueue(c)
  BY <1>1 DEF JoinQueue
<1>2. CASE BecomeWriter(c)
  BY <1>2 DEF BecomeWriter, StartWrite
<1>3. QED
  BY <1>1, <1>2

\* The writer and its adapter: the image lands, and an answer goes out only
\* when the image covers everyone it is given to.
LEMMA ProgressKeepsIInv ==
  ASSUME IInv, NEW c \in Caller, Progress(c)
  PROVE  IInv'
<1>1. TypeOK'
  BY NextTypeOK DEF IInv, Next
<1> USE <1>1 DEF IInv, TypeOK, OneWriter, QueueExact, WriterCurrent,
                 QueueCovered, SavedIsDurable, Writing, WriteState, queue
<1>2. CASE WriteLands(c)
  BY <1>2 DEF WriteLands
<1>3. CASE WriteRejects(c)
  BY <1>3 DEF WriteRejects
<1>4. CASE WriteReturns(c)
  BY <1>4 DEF WriteReturns
<1>5. CASE Resave(c)
  BY <1>5 DEF Resave, StartWrite
<1>6. CASE ResolveAll(c)
  BY <1>6 DEF ResolveAll, AnswerAll
<1>7. CASE RejectAll(c)
  BY <1>7 DEF RejectAll, AnswerAll
<1>8. QED
  BY <1>2, <1>3, <1>4, <1>5, <1>6, <1>7 DEF Progress

LEMMA NextIInv == IInv /\ [Next]_vars => IInv'
<1> SUFFICES ASSUME IInv, [Next]_vars PROVE IInv'
  OBVIOUS
<1>1. TypeOK'
  BY NextTypeOK DEF IInv
<1>2. ASSUME NEW c \in Caller, Mutate(c) \/ MarkDirty(c) PROVE IInv'
  BY <1>2, ChangeKeepsIInv
<1>3. ASSUME NEW c \in Caller, MarkDirtyAndSave(c) \/ Save(c) \/ SaveDirty(c)
      PROVE  IInv'
  <2>1. call[c] \notin WriteState \union {"waiting"}
    BY <1>3 DEF MarkDirtyAndSave, Save, SaveDirty, Resting, RestState, WriteState
  <2>2. SaveOne(c)
    BY <1>3 DEF MarkDirtyAndSave, Save, SaveDirty
  <2>3. QED
    BY <1>1, <2>1, <2>2, SaveOneKeepsIInv
<1>4. ASSUME NEW c \in Caller, Progress(c) PROVE IInv'
  BY <1>4, ProgressKeepsIInv
<1>5. CASE UNCHANGED vars
  BY <1>5 DEF vars, queue, IInv, TypeOK, OneWriter, QueueExact, WriterCurrent,
              QueueCovered, SavedIsDurable, Writing
<1>6. QED
  BY <1>2, <1>3, <1>4, <1>5 DEF Next

LEMMA Invariance == Spec => []IInv
BY InitIInv, NextIInv, PTL DEF Spec

\* A save that resolved is durable, with any number of concurrent callers.
THEOREM SavedDurable == Spec => []SavedIsDurable
BY Invariance, PTL DEF IInv

\* There is one writer at a time, and it is there whenever somebody waits.
THEOREM SingleWriter == Spec => []OneWriter
BY Invariance, PTL DEF IInv

\* Storage only moves forward.
THEOREM DiskMonotone == Spec => DiskNeverRegresses
<1>1. IInv /\ [Next]_vars => [disk <= disk']_disk
  <2> SUFFICES ASSUME IInv, [Next]_vars, disk' # disk PROVE disk <= disk'
    OBVIOUS
  <2>1. PICK c \in Caller : WriteLands(c)
    BY DEF Next, vars, Mutate, MarkDirty, MarkDirtyAndSave, Save, SaveDirty,
           SaveOne, Progress, WriteRejects, WriteReturns, Resave, ResolveAll,
           RejectAll, AnswerAll
  <2>2. QED
    BY <2>1 DEF WriteLands, IInv, WriterCurrent, Writing, WriteState
<1>2. QED
  BY <1>1, Invariance, PTL DEF Spec, DiskNeverRegresses

-----------------------------------------------------------------------------
(* The queue implements the save contract. *)

LEMMA InitContract == Init => Contract!Init
BY Zenon DEF Init, Contract!Init, RequestOf, Writing, WriteState

\* How a step that moves one caller looks through RequestOf.
LEMMA MoveOne ==
  ASSUME TypeOK, NEW c \in Caller,
         NEW state, call' = [call EXCEPT ![c] = state]
  PROVE  [d \in Caller |-> RequestOf(d)]'
           = [[d \in Caller |-> RequestOf(d)] EXCEPT ![c] = RequestOf(c)']
<1>1. ASSUME NEW d \in Caller, d # c PROVE RequestOf(d)' = RequestOf(d)
  BY <1>1 DEF RequestOf, Writing, TypeOK
<1>2. QED
  BY <1>1

\* Every step of the queue is a step of the contract, or none.
LEMMA StepContract == IInv /\ [Next]_vars => [Contract!Next]_(Contract!vars)
<1> SUFFICES ASSUME IInv, [Next]_vars PROVE [Contract!Next]_(Contract!vars)
  OBVIOUS
<1> USE DEF IInv
<1>1. ASSUME NEW c \in Caller, Mutate(c) PROVE Contract!Change(c)
  <2>1. RequestOf(c) # "pending" /\ RequestOf(c)' = "none"
    BY <1>1 DEF Mutate, Resting, RestState, RequestOf, Writing, WriteState, TypeOK
  <2>2. QED
    BY <1>1, <2>1, MoveOne DEF Mutate, Contract!Change
<1>2. ASSUME NEW c \in Caller, MarkDirty(c) PROVE UNCHANGED Contract!vars
  <2>1. RequestOf(c)' = RequestOf(c)
    BY <1>2 DEF MarkDirty, RequestOf, Writing, WriteState, TypeOK
  <2>2. QED
    BY <1>2, <2>1, MoveOne DEF MarkDirty, Contract!vars
<1>3. ASSUME NEW c \in Caller, MarkDirtyAndSave(c) \/ Save(c) \/ SaveDirty(c)
      PROVE  Contract!Request(c)
  <2>1. SaveOne(c) /\ RequestOf(c) # "pending"
    BY <1>3 DEF MarkDirtyAndSave, Save, SaveDirty, Resting, RestState,
                RequestOf, Writing, WriteState
  <2>2. PICK state \in {"writing", "waiting"} : call' = [call EXCEPT ![c] = state]
    BY <2>1 DEF SaveOne, JoinQueue, BecomeWriter, StartWrite
  <2>3. RequestOf(c)' = "pending"
    BY <2>2 DEF RequestOf, Writing, WriteState, TypeOK
  <2>4. QED
    BY <2>1, <2>2, <2>3, MoveOne DEF SaveOne, Contract!Request
<1>4. ASSUME NEW c \in Caller, WriteLands(c) PROVE Contract!Store
  <2>1. RequestOf(c)' = RequestOf(c)
    BY <1>4 DEF WriteLands, RequestOf, Writing, WriteState, TypeOK
  <2>2. disk' \in disk .. data
    BY <1>4 DEF WriteLands, WriterCurrent, Writing, WriteState, TypeOK
  <2>3. QED
    BY <1>4, <2>1, <2>2, MoveOne DEF WriteLands, Contract!Store
<1>5. ASSUME NEW c \in Caller, WriteRejects(c) \/ WriteReturns(c) \/ Resave(c)
      PROVE  UNCHANGED Contract!vars
  <2>1. PICK state \in WriteState : call' = [call EXCEPT ![c] = state]
    BY <1>5 DEF WriteRejects, WriteReturns, Resave, StartWrite, WriteState
  <2>2. RequestOf(c)' = RequestOf(c)
    BY <1>5, <2>1 DEF WriteRejects, WriteReturns, Resave, RequestOf, Writing,
                      WriteState, TypeOK
  <2>3. QED
    BY <1>5, <2>1, <2>2, MoveOne
       DEF WriteRejects, WriteReturns, Resave, Contract!vars
<1>6. ASSUME NEW c \in Caller, ResolveAll(c) \/ RejectAll(c)
      PROVE  Contract!Settle(c)
  <2> DEFINE S == waiters \union {c}
  <2>1. \A d \in S : d \in Caller /\ RequestOf(d) = "pending"
    BY <1>6 DEF ResolveAll, RejectAll, QueueExact, RequestOf, Writing,
                WriteState, TypeOK
  <2>2. PICK answer \in {"saved", "failed"} :
          /\ call' = [d \in Caller |-> IF d \in S THEN answer ELSE call[d]]
          /\ answer = "saved" => call[c] = "returned" /\ ~pendingSave
    BY <1>6 DEF ResolveAll, RejectAll, AnswerAll
  <2>3. \A d \in Caller : RequestOf(d)' = IF d \in S THEN answer ELSE RequestOf(d)
    BY <2>1, <2>2 DEF RequestOf, Writing, WriteState
  <2>4. answer = "saved" => \A d \in S : asked[d] <= disk
    BY <1>6, <2>2 DEF WriterCurrent, QueueCovered, QueueExact, Writing,
                      WriteState, TypeOK
  <2>5. Contract!Answer(S, answer)
    BY <1>6, <2>1, <2>3
       DEF ResolveAll, RejectAll, AnswerAll, Contract!Answer
  <2>6. Contract!Saved(S) \/ Contract!Failed(S)
    BY <2>1, <2>2, <2>4, <2>5 DEF Contract!Saved, Contract!Failed, Contract!Waiting
  <2>7. S \in SUBSET Caller /\ c \in S
    BY <2>1
  <2>8. QED
    BY <2>6, <2>7 DEF Contract!Settle
<1>7. CASE UNCHANGED vars
  BY <1>7 DEF vars, Contract!vars, RequestOf, Writing
<1>8. QED
  BY <1>1, <1>2, <1>3, <1>4, <1>5, <1>6, <1>7
     DEF Next, Progress, Contract!Next

\* Callers cannot tell the coalescing queue from one that stores each request
\* by itself: the safety part of the contract, for any number of callers.
THEOREM QueueKeepsContract == Spec => Contract!SafeSpec
BY InitContract, StepContract, Invariance, PTL DEF Spec, Contract!SafeSpec

=============================================================================
