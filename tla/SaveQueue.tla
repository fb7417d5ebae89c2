----------------------------- MODULE SaveQueue ------------------------------
(***************************************************************************)
(* PersistenceManager._saveOne and _writeCollection for one collection:    *)
(* writes to the storage adapter are coalesced.  The first caller writes;  *)
(* callers that arrive while its write is in flight are queued, and the    *)
(* writer goes round again until nobody arrived during its last write.     *)
(*                                                                         *)
(* JavaScript runs to completion between two awaits, so an action is what  *)
(* one turn of the event loop does.  Contents are abstracted to a version  *)
(* number: every mutation of the collection makes the next version.        *)
(***************************************************************************)
EXTENDS Naturals

CONSTANTS Caller,      \* asynchronous activities that mutate and save
          MaxVersion   \* bound on the number of mutations

ASSUME SaveQueueAssumption == MaxVersion \in Nat

VARIABLES data,         \* version of col.data
          dirty,        \* col._dirty
          isSaving,     \* col.isSaving
          pendingSave,  \* col._pendingSave
          waiters,      \* the callers behind col._saveWaiters
          call,         \* what each caller is doing
          image,        \* version each caller last serialised for the adapter
          asked,        \* version each caller's save must make durable
          disk          \* version held by the storage adapter

queue == <<isSaving, pendingSave, waiters>>
vars == <<data, dirty, queue, call, image, asked, disk>>

\* The stages of an adapter write, as its awaiting caller goes through them.
WriteState == {"writing", "landed", "rejected", "returned"}

\* "mutated": the change is applied, the await before markDirty() is not over.
RestState == {"idle", "saved", "failed"}
CallState == RestState \union WriteState \union {"mutated", "waiting"}

Resting(c) == call[c] \in RestState
Writing(c) == call[c] \in WriteState

Init ==
  /\ data = 0
  /\ dirty = FALSE
  /\ isSaving = FALSE
  /\ pendingSave = FALSE
  /\ waiters = {}
  /\ call = [c \in Caller |-> "idle"]
  /\ image = [c \in Caller |-> 0]
  /\ asked = [c \in Caller |-> 0]
  /\ disk = 0

-----------------------------------------------------------------------------
(* Callers. *)

\* `await mutate(assertTxAlive)` changed the collection.
Mutate(c) ==
  /\ Resting(c)
  /\ data < MaxVersion
  /\ data' = data + 1
  /\ call' = [call EXCEPT ![c] = "mutated"]
  /\ UNCHANGED <<dirty, queue, image, asked, disk>>

\* Mutant: the version is read after the next mutation has begun.
StartWriteAhead(c) ==
  /\ image' = [image EXCEPT ![c] = data + 1]
  /\ call' = [call EXCEPT ![c] = "writing"]

\* Serialise the collection and hand the text to the adapter, in one turn.
StartWrite(c) ==
  /\ image' = [image EXCEPT ![c] = data]
  /\ call' = [call EXCEPT ![c] = "writing"]

\* Mutant: the arrival is queued, but the writer is not told of it.
JoinQueueSilently(c) ==
  /\ isSaving
  /\ waiters' = waiters \union {c}
  /\ call' = [call EXCEPT ![c] = "waiting"]
  /\ UNCHANGED <<isSaving, pendingSave, image>>

\* Queue behind the write in flight.
JoinQueue(c) ==
  /\ isSaving
  /\ pendingSave' = TRUE
  /\ waiters' = waiters \union {c}
  /\ call' = [call EXCEPT ![c] = "waiting"]
  /\ UNCHANGED <<isSaving, image>>

\* Mutant: a caller writes although a write is in flight.
BecomeSecondWriter(c) ==
  /\ isSaving' = TRUE
  /\ pendingSave' = FALSE
  /\ StartWrite(c)
  /\ UNCHANGED waiters

\* Nobody is writing: write.
BecomeWriter(c) ==
  /\ ~isSaving
  /\ isSaving' = TRUE
  /\ pendingSave' = FALSE
  /\ StartWrite(c)
  /\ UNCHANGED waiters

\* _saveOne() up to its first await.
SaveOne(c) ==
  /\ asked' = [asked EXCEPT ![c] = data]
  /\ JoinQueue(c) \/ BecomeWriter(c)
  /\ UNCHANGED <<data, disk>>

\* The pipeline after mutate(): markDirty(), and no save was asked for.
MarkDirty(c) ==
  /\ call[c] = "mutated"
  /\ dirty' = TRUE
  /\ call' = [call EXCEPT ![c] = "idle"]
  /\ UNCHANGED <<data, queue, image, asked, disk>>

\* The same with { save: true } or autoSave: no await in between.
MarkDirtyAndSave(c) ==
  /\ call[c] = "mutated"
  /\ dirty' = TRUE
  /\ SaveOne(c)

\* db.saveData(name).
Save(c) ==
  /\ Resting(c)
  /\ SaveOne(c)
  /\ UNCHANGED dirty

\* saveDirty() saves a collection only when it is marked dirty.
SaveDirty(c) ==
  /\ Resting(c)
  /\ dirty
  /\ SaveOne(c)
  /\ UNCHANGED dirty

-----------------------------------------------------------------------------
(* The adapter, and the writer that awaits it. *)

\* The adapter stores the text it was handed.
WriteLands(c) ==
  /\ call[c] = "writing"
  /\ call' = [call EXCEPT ![c] = "landed"]
  /\ disk' = image[c]
  /\ UNCHANGED <<data, dirty, queue, image, asked>>

\* The adapter reports an error, with or without the text stored.
WriteRejects(c) ==
  /\ call[c] \in {"writing", "landed"}
  /\ call' = [call EXCEPT ![c] = "rejected"]
  /\ UNCHANGED <<data, dirty, queue, image, asked, disk>>

\* _writeCollection resumes after the await and clears the dirty flag.
WriteReturns(c) ==
  /\ call[c] = "landed"
  /\ call' = [call EXCEPT ![c] = "returned"]
  /\ dirty' = FALSE
  /\ UNCHANGED <<data, queue, image, asked, disk>>

\* while (col._pendingSave): somebody arrived, so write the latest data.
Resave(c) ==
  /\ call[c] = "returned"
  /\ pendingSave
  /\ pendingSave' = FALSE
  /\ StartWrite(c)
  /\ UNCHANGED <<data, dirty, isSaving, waiters, asked, disk>>

\* Mutant: the writer returns without answering the queue.
AnswerWriterOnly(c, answer) ==
  /\ call' = [call EXCEPT ![c] = answer]
  /\ isSaving' = FALSE
  /\ UNCHANGED <<data, dirty, pendingSave, waiters, image, asked, disk>>

\* Answer the queued callers and the writer itself, and release the flag.
AnswerAll(c, answer) ==
  /\ call' = [d \in Caller |-> IF d \in waiters \union {c} THEN answer ELSE call[d]]
  /\ waiters' = {}
  /\ isSaving' = FALSE
  /\ UNCHANGED <<data, dirty, pendingSave, image, asked, disk>>

ResolveAll(c) ==
  /\ call[c] = "returned"
  /\ ~pendingSave
  /\ AnswerAll(c, "saved")

\* _pendingSave keeps its value: the next writer resets it.
RejectAll(c) ==
  /\ call[c] = "rejected"
  /\ AnswerAll(c, "failed")

-----------------------------------------------------------------------------

\* What the event loop does for a caller without being asked.
Progress(c) ==
  \/ WriteLands(c)
  \/ WriteRejects(c)
  \/ WriteReturns(c)
  \/ Resave(c)
  \/ ResolveAll(c)
  \/ RejectAll(c)

Next ==
  \E c \in Caller : \/ Mutate(c)
                    \/ MarkDirty(c)
                    \/ MarkDirtyAndSave(c)
                    \/ Save(c)
                    \/ SaveDirty(c)
                    \/ Progress(c)

Spec == Init /\ [][Next]_vars

\* Promises of the adapter settle, and ready continuations run.
FairSpec == Spec /\ \A c \in Caller : WF_vars(Progress(c))

-----------------------------------------------------------------------------
(* Properties. *)

\* Types, and nobody writes, asks for or stores a version not yet made.
TypeOK ==
  /\ data \in 0 .. MaxVersion
  /\ dirty \in BOOLEAN
  /\ isSaving \in BOOLEAN
  /\ pendingSave \in BOOLEAN
  /\ waiters \in SUBSET Caller
  /\ call \in [Caller -> CallState]
  /\ image \in [Caller -> Nat]
  /\ asked \in [Caller -> Nat]
  /\ \A c \in Caller : image[c] <= data /\ asked[c] <= data
  /\ disk \in 0 .. data

\* A save that resolved made durable what the collection held when it was
\* called, whichever write of whichever caller carried it: the promise of
\* "resolved only after the coalesced re-save completes" in _saveOne.
SavedIsDurable == \A c \in Caller : call[c] = "saved" => asked[c] <= disk

\* An older image of the collection never replaces a newer one in storage.
DiskNeverRegresses == [][disk <= disk']_disk

\* The flag isSaving stands for exactly one caller writing, and every queued
\* caller has one to wake it.
OneWriter ==
  /\ \A c, d \in Caller : Writing(c) /\ Writing(d) => c = d
  /\ isSaving <=> \E c \in Caller : Writing(c)
  /\ \A c \in Caller : call[c] = "waiting" => isSaving

\* A queued or writing caller is answered: the re-save loop drains, and an
\* adapter error reaches those queued behind it too.
SaveSettles ==
  \A c \in Caller :
    Writing(c) \/ call[c] = "waiting" ~> call[c] \in {"saved", "failed"}

\* What ARCHITECTURE.md says of the dirty flag: once every call has returned,
\* a collection that is not marked dirty has nothing left to save.
CleanMeansDurable == ~dirty /\ (\A c \in Caller : Resting(c)) => disk = data

-----------------------------------------------------------------------------
(* The queue keeps the contract of SaveContract. *)

RequestOf(c) ==
  CASE Writing(c) \/ call[c] = "waiting" -> "pending"
    [] call[c] = "saved" -> "saved"
    [] call[c] = "failed" -> "failed"
    [] OTHER -> "none"

Contract == INSTANCE SaveContract WITH request <- [c \in Caller |-> RequestOf(c)]

\* Callers see saves as single requests, each answered once its version is
\* durable, with no trace of the coalescing.
KeepsContract == Contract!Spec

=============================================================================
