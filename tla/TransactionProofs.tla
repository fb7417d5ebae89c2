------------------------- MODULE TransactionProofs --------------------------
(* Theorems about Transaction, for any transactions, collections and         *)
(* mutations.                                                                *)
EXTENDS Transaction, SequenceTheorems, TLAPS

USE TransactionAssumption

\* The tuples of variables.
USE DEF vars, manager, context, footprint, commit, registry, contents, calls, storage

-----------------------------------------------------------------------------
(* Types. *)

LEMMA InitTypeOK == Init => TypeOK
<1> SUFFICES ASSUME Init PROVE TypeOK
  OBVIOUS
<1>1. txState \in [Tx -> TxState] /\ \A t \in Tx : txState[t] \in InTransaction <=> ctx = t
  BY DEF Init, TxState, InTransaction, Ended
<1>2. stage \in [Write -> Stage] /\ \A w \in Write : stage[w] \notin InFlight
  BY DEF Init, Stage, InFlight
<1>3. idCounter \in Nat /\ txId \in [Tx -> 0 .. idCounter]
  BY DEF Init
<1>4. txQueue \in Seq(Tx)
  BY DEF Init
<1> QED BY <1>1, <1>2, <1>3, <1>4 DEF Init, TypeOK

\* Adding a name to the registry keeps the types of the registry.
LEMMA UseCollectionType ==
  ASSUME TypeOK, NEW c \in Coll, UseCollection(c)
  PROVE  /\ exists \subseteq exists' /\ exists' \subseteq Coll
         /\ instances' \subseteq exists'
         /\ createdIn' \in [Coll -> {ctx, NoTx}]
BY DEF UseCollection, TypeOK

\* Every step of a mutation keeps the types.
LEMMA WriteKeepsTypeOK ==
  ASSUME TypeOK, NEW w \in Write, CallOutside(w) \/ WriteProgress(w)
  PROVE  TypeOK'
<1>0. Target[w] \in Coll /\ Owner[w] \in Tx \union {NoTx}
  OBVIOUS
<1>1. CASE CallOutside(w)
  <2>1. /\ exists \subseteq exists' /\ exists' \subseteq Coll /\ Target[w] \in exists'
        /\ instances' \subseteq exists'
        /\ createdIn' \in [Coll -> {ctx, NoTx}]
    BY <1>0, <1>1, UseCollectionType DEF CallOutside, UseCollection
  <2>2. stage' \in [Write -> Stage] /\ stage' = [stage EXCEPT ![w] = "called"]
    BY <1>1 DEF CallOutside, Call, TypeOK, Stage, InFlight
  <2> QED BY <1>1, <2>1, <2>2 DEF CallOutside, TypeOK
<1>2. CASE Enter(w)
  <2>1. CASE EnterBlocked(w)
    BY <1>2, <2>1 DEF Enter, EnterBlocked, TypeOK, Stage, InFlight
  <2>2. CASE EnterDead(w)
    BY <1>2, <2>2 DEF Enter, EnterDead, TypeOK, Stage, InFlight
  <2>3. CASE EnterAlive(w)
    <3>1. Affinity(w) \in SUBSET Tx
      BY <1>0 DEF TypeOK, Affinity, CollTx, Participates, Active
    <3>2. /\ touched \subseteq touched' /\ touched' \subseteq exists
          /\ snapDirty' \subseteq touched'
          /\ snap' \in [Coll -> SUBSET Write]
      <4>1. CASE Participates(w)
        <5>1. Target[w] \in exists
          BY <1>0, <1>2, <4>1 DEF Enter, TypeOK, InFlight, Participates, Stamped
        <5>2. Snapshot(Target[w]) /\ mem[Target[w]] \in SUBSET Write
          BY <1>0, <2>3, <4>1 DEF EnterAlive, TypeOK
        <5> QED BY <1>0, <5>1, <5>2 DEF TypeOK, Snapshot
      <4>2. CASE ~Participates(w)
        BY <2>3, <4>2 DEF EnterAlive, TypeOK
      <4> QED BY <4>1, <4>2
    <3>3. ctx = NoTx => touched' = {}
      BY <2>3 DEF EnterAlive, Participates, Active, TypeOK
    <3> QED BY <1>2, <2>3, <3>1, <3>2, <3>3 DEF Enter, EnterAlive, TypeOK, Stage, InFlight
  <2> QED BY <1>2, <2>1, <2>2, <2>3 DEF Enter
<1>3. CASE Apply(w)
  BY <1>0, <1>3 DEF Apply, TypeOK, Stage, InFlight
<1>4. CASE Refuse(w)
  BY <1>4 DEF Refuse, TypeOK, Stage, InFlight
<1>5. CASE MarkDirty(w)
  BY <1>5 DEF MarkDirty, TypeOK, Stage, InFlight
<1>6. CASE Finish(w)
  BY <1>6 DEF Finish, Effects, TypeOK, Stage, InFlight
<1> QED BY <1>1, <1>2, <1>3, <1>4, <1>5, <1>6 DEF WriteProgress

\* Calling and starting a transaction keeps the types.
LEMMA StartKeepsTypeOK ==
  ASSUME TypeOK, NEW t \in Tx, TxCall(t) \/ Begin(t)
  PROVE  TypeOK'
<1>1. CASE TxCall(t)
  <2>1. txQueue' \in Seq(Tx)
    <3>1. txQueue \in Seq(Tx) /\ (txQueue' = txQueue \/ txQueue' = Append(txQueue, t))
      BY <1>1 DEF TxCall, TxRefused, TxQueued, TypeOK
    <3> QED BY <3>1, AppendProperties
  <2>2. /\ txState[t] \notin InTransaction
        /\ \E s \in {"refused", "queued"} : txState' = [txState EXCEPT ![t] = s]
    BY <1>1 DEF TxCall, TxRefused, TxQueued, InTransaction
  <2>3. /\ txState' \in [Tx -> TxState]
        /\ \A u \in Tx : txState'[u] \in InTransaction <=> ctx = u
    BY <2>2 DEF TypeOK, TxState, InTransaction, Ended
  <2> QED BY <1>1, <2>1, <2>3 DEF TxCall, TypeOK
<1>2. CASE Begin(t)
  <2>1. txQueue' \in Seq(Tx)
    <3>1. txQueue \in Seq(Tx) /\ txQueue # <<>> /\ txQueue' = Tail(txQueue)
      BY <1>2 DEF Begin, TypeOK
    <3> QED BY <3>1, HeadTailProperties
  <2>2. /\ txState' \in [Tx -> TxState]
        /\ \A u \in Tx : txState'[u] \in InTransaction <=> ctx' = u
    BY <1>2 DEF Begin, TypeOK, TxState, InTransaction, Ended
  <2>3. idCounter' \in Nat /\ txId' \in [Tx -> 0 .. idCounter']
    <3>1. idCounter \in Nat /\ idCounter' = idCounter + 1
      BY <1>2 DEF Begin, TypeOK
    <3>2. txId \in [Tx -> 0 .. idCounter] /\ txId' = [txId EXCEPT ![t] = idCounter']
      BY <1>2 DEF Begin, TypeOK
    <3> QED BY <3>1, <3>2
  <2>4. /\ preExisting' \subseteq exists' /\ touched' = {} /\ snapDirty' = {}
        /\ snap' \in [Coll -> SUBSET Write] /\ deferred' = {} /\ aborted' \in BOOLEAN
        /\ batch' \subseteq touched'
    BY <1>2 DEF Begin, EmptyContext, TypeOK
  <2>5. createdIn' \in [Coll -> {ctx', NoTx}]
    BY <1>2 DEF Begin, TypeOK
  <2> QED BY <1>2, <2>1, <2>2, <2>3, <2>4, <2>5 DEF Begin, TypeOK
<1> QED BY <1>1, <1>2

\* So does what fn() does with a collection.
LEMMA InsideKeepsTypeOK ==
  ASSUME TypeOK, NEW t \in Tx,
         \/ \E c \in Coll : TakeHandle(t, c)
         \/ \E w \in Write : CallInside(t, w) \/ CallStale(t, w)
  PROVE  TypeOK'
<1>1. ASSUME NEW c \in Coll, TakeHandle(t, c) PROVE TypeOK'
  <2>1. /\ exists \subseteq exists' /\ exists' \subseteq Coll /\ c \in exists'
        /\ instances' \subseteq exists'
        /\ createdIn' \in [Coll -> {ctx, NoTx}]
    BY <1>1, UseCollectionType DEF TakeHandle, UseCollection
  <2>2. held' \subseteq Tx \X Coll /\ held' = held \union {<<t, c>>}
    BY <1>1 DEF TakeHandle, TypeOK
  <2> QED BY <1>1, <2>1, <2>2 DEF TakeHandle, TypeOK
<1>2. ASSUME NEW w \in Write, CallInside(t, w) PROVE TypeOK'
  <2> DEFINE c == Target[w]
  <2>1. /\ exists \subseteq exists' /\ exists' \subseteq Coll /\ c \in exists'
        /\ instances' \subseteq exists'
        /\ createdIn' \in [Coll -> {ctx, NoTx}]
        /\ c \in Coll
    BY <1>2, UseCollectionType DEF CallInside, UseCollection
  <2>2. held' \subseteq Tx \X Coll /\ held' = held \union {<<t, c>>}
    BY <1>2, <2>1 DEF CallInside, TypeOK
  <2>3. stage' \in [Write -> Stage] /\ stage' = [stage EXCEPT ![w] = "called"]
    BY <1>2 DEF CallInside, Call, TypeOK, Stage, InFlight
  <2> QED BY <1>2, <2>1, <2>2, <2>3 DEF CallInside, TypeOK
<1>3. ASSUME NEW w \in Write, CallStale(t, w) PROVE TypeOK'
  <2>1. stage' \in [Write -> Stage] /\ stage' = [stage EXCEPT ![w] = "called"]
    BY <1>3 DEF CallStale, Call, TypeOK, Stage, InFlight
  <2>2. orphanOf' \in [Write -> Tx \union {NoTx}]
    BY <1>3 DEF CallStale, TypeOK
  <2>3. \A v \in Write : stage'[v] \in InFlight /\ orphanOf'[v] = NoTx => Target[v] \in exists
    <3> SUFFICES ASSUME NEW v \in Write, stage'[v] \in InFlight, orphanOf'[v] = NoTx
                 PROVE  Target[v] \in exists
      OBVIOUS
    <3>1. CASE v = w
      <4>1. <<t, Target[w]>> \in held \ lost
        BY <1>3, <3>1 DEF CallStale, TypeOK
      <4> QED BY <3>1, <4>1 DEF TypeOK
    <3>2. CASE v # w
      BY <1>3, <2>1, <3>2 DEF CallStale, TypeOK
    <3> QED BY <3>1, <3>2
  <2> QED BY <1>3, <2>1, <2>2, <2>3 DEF CallStale, TypeOK
<1> QED BY <1>1, <1>2, <1>3

\* And the end of fn(), the commit, and a timeout nobody hears.
LEMMA CommitKeepsTypeOK ==
  ASSUME TypeOK, NEW t \in Tx,
         \/ FnSettles(t) \/ TimeoutLate(t)
         \/ CommitWrite(t) \/ CommitLands(t) \/ CommitFails(t)
         \/ \E w \in Write : RunEffect(t, w)
  PROVE  TypeOK'
<1> DEFINE Moves(from, to) ==
      txState[t] \in from /\ \E s \in to : txState' = [txState EXCEPT ![t] = s]
<1>a. ASSUME Moves(InTransaction, InTransaction)
      PROVE  /\ txState' \in [Tx -> TxState]
             /\ \A u \in Tx : txState'[u] \in InTransaction <=> ctx = u
  BY <1>a DEF TypeOK, TxState
<1>1. CASE FnResolves(t)
  <2>1. Moves(InTransaction, InTransaction)
    BY <1>1 DEF FnResolves, InTransaction
  <2> QED BY <1>1, <1>a, <2>1 DEF FnResolves, FnDone, TypeOK
<1>2. CASE FnThrows(t)
  <2>1. Moves(InTransaction, InTransaction)
    BY <1>2 DEF FnThrows, InTransaction
  <2> QED BY <1>2, <1>a, <2>1 DEF FnThrows, FnDone, TypeOK
<1>3. CASE FnEndsLate(t)
  BY <1>3 DEF FnEndsLate, FnDone, TypeOK
<1>4. CASE TimeoutLate(t)
  BY <1>4 DEF TimeoutLate, TypeOK
<1>5. CASE CommitWrite(t)
  <2>1. Moves(InTransaction, InTransaction)
    BY <1>5 DEF CommitWrite, InTransaction
  <2> QED BY <1>5, <1>a, <2>1 DEF CommitWrite, TypeOK
<1>b. ASSUME NEW stored \in SUBSET batch, NEW rejected \in SUBSET {t}, Store(stored, rejected)
      PROVE  disk' \in [Coll -> SUBSET Write] /\ left' \subseteq Tx \X Coll
  BY <1>b DEF Store, TypeOK
<1>6. CASE CommitLands(t)
  <2>1. Moves(InTransaction, InTransaction)
    BY <1>6 DEF CommitLands, InTransaction
  <2>2. disk' \in [Coll -> SUBSET Write] /\ left' \subseteq Tx \X Coll
    BY <1>6, <1>b DEF CommitLands
  <2> QED BY <1>6, <1>a, <2>1, <2>2 DEF CommitLands, TypeOK
<1>7. CASE CommitFails(t)
  <2>1. Moves(InTransaction, InTransaction)
    BY <1>7 DEF CommitFails, InTransaction
  <2>2. disk' \in [Coll -> SUBSET Write] /\ left' \subseteq Tx \X Coll
    BY <1>7, <1>b DEF CommitFails
  <2> QED BY <1>7, <1>a, <2>1, <2>2 DEF CommitFails, TypeOK
<1>8. ASSUME NEW w \in Write, RunEffect(t, w) PROVE TypeOK'
  BY <1>8 DEF RunEffect, TypeOK
<1> QED BY <1>1, <1>2, <1>3, <1>4, <1>5, <1>6, <1>7, <1>8 DEF FnSettles

\* The catch block keeps the types of the database.
LEMMA RestoreType ==
  ASSUME TypeOK, Restore
  PROVE  /\ exists' = preExisting
         /\ instances' \subseteq exists' /\ dirty' \subseteq exists'
         /\ mem' \in [Coll -> SUBSET Write]
         /\ createdIn' \in [Coll -> {NoTx}]
         /\ lost' = lost \union {h \in held : h[2] \notin preExisting}
         /\ orphanOf' \in [Write -> {ctx} \union Tx \union {NoTx}]
         /\ \A w \in Write : stage[w] \in InFlight /\ orphanOf'[w] = NoTx =>
              orphanOf[w] = NoTx /\ (ctx = NoTx \/ Target[w] \in preExisting)
<1>1. /\ exists' = preExisting /\ instances' \subseteq exists' /\ dirty' \subseteq exists'
      /\ lost' = lost \union {h \in held : h[2] \notin preExisting}
  BY DEF Restore, TypeOK
<1>2. mem' \in [Coll -> SUBSET Write]
  BY DEF Restore, TypeOK
<1>3. createdIn' \in [Coll -> {NoTx}]
  BY DEF Restore, Unstamp, TypeOK
<1>4. orphanOf' \in [Write -> {ctx} \union Tx \union {NoTx}]
  BY DEF Restore, TypeOK
<1>5. \A w \in Write : stage[w] \in InFlight /\ orphanOf'[w] = NoTx =>
        orphanOf[w] = NoTx /\ (ctx = NoTx \/ Target[w] \in preExisting)
  BY DEF Restore
<1> QED BY <1>1, <1>2, <1>3, <1>4, <1>5

\* The finally block keeps the types of the manager and leaves no context.
LEMMA EndContextType ==
  ASSUME TypeOK, NEW t \in Tx, txState[t] \in InTransaction,
         NEW outcome \in {"committed", "rolledback"}, NEW timedOut \in BOOLEAN,
         EndContext(outcome, timedOut)
  PROVE  /\ txState' \in [Tx -> TxState] /\ txState' = [txState EXCEPT ![t] = outcome]
         /\ ctx' = NoTx /\ \A u \in Tx : txState'[u] \in InTransaction <=> ctx' = u
         /\ abortedIds' \subseteq Tx
         /\ aborted' = FALSE /\ preExisting' = {} /\ touched' = {} /\ batch' = {}
         /\ snapDirty' = {} /\ deferred' = {}
         /\ snap' \in [Coll -> SUBSET Write] /\ image' \in [Coll -> SUBSET Write]
         /\ UNCHANGED <<txQueue, idCounter, txId>>
<1>1. ctx = t /\ \A u \in Tx : txState[u] \in InTransaction <=> u = t
  BY DEF TypeOK
<1>2. /\ txState' \in [Tx -> TxState] /\ txState' = [txState EXCEPT ![t] = outcome]
      /\ ctx' = NoTx /\ \A u \in Tx : txState'[u] \in InTransaction <=> ctx' = u
  BY <1>1 DEF EndContext, TypeOK, TxState, Ended, InTransaction
<1>3. abortedIds' \subseteq Tx
  BY <1>1 DEF EndContext, Kept, TypeOK
<1> QED BY <1>2, <1>3 DEF EndContext, EmptyContext

\* A transaction that ends keeps the types.
LEMMA EndKeepsTypeOK ==
  ASSUME TypeOK, NEW t \in Tx, Commit(t) \/ Rollback(t) \/ TimeoutRollsBack(t)
  PROVE  TypeOK'
<1>1. CASE Commit(t)
  <2>1. txState[t] \in InTransaction /\ aborted \in BOOLEAN
    BY <1>1 DEF Commit, InTransaction, TypeOK
  <2>2. EndContext("committed", aborted) /\ Unstamp(instances)
    BY <1>1 DEF Commit
  <2>3. createdIn' \in [Coll -> {ctx', NoTx}]
    BY <2>2 DEF Unstamp, TypeOK
  <2> QED BY <1>1, <2>1, <2>2, <2>3, EndContextType, ZenonT(40) DEF Commit, TypeOK
<1>2. CASE Rollback(t) \/ TimeoutRollsBack(t)
  <2>1. txState[t] \in InTransaction /\ ctx = t
    BY <1>2 DEF Rollback, TimeoutRollsBack, InTransaction, TypeOK
  <2>2. PICK timedOut \in BOOLEAN : EndContext("rolledback", timedOut)
    BY <1>2 DEF Rollback, TimeoutRollsBack, TypeOK
  <2>3. Restore /\ UNCHANGED <<settled, storage, emitted, held, stage, affinity>>
    BY <1>2 DEF Rollback, TimeoutRollsBack
  <2>4. orphanOf' \in [Write -> Tx \union {NoTx}] /\ createdIn' \in [Coll -> {ctx', NoTx}]
    BY <2>1, <2>2, <2>3, RestoreType, EndContextType
  <2>5. \A h \in held' \ lost' : h[2] \in exists'
    BY <2>3, RestoreType
  <2>6. \A w \in Write : stage'[w] \in InFlight /\ orphanOf'[w] = NoTx => Target[w] \in exists'
    BY <2>1, <2>3, RestoreType
  <2>7. exists' \subseteq Coll /\ lost' \subseteq held'
    BY <2>3, RestoreType DEF TypeOK
  <2> QED BY <2>1, <2>2, <2>3, <2>4, <2>5, <2>6, <2>7, RestoreType, EndContextType, ZenonT(40) DEF TypeOK
<1> QED BY <1>1, <1>2

LEMMA NextTypeOK == TypeOK /\ [Next]_vars => TypeOK'
<1> SUFFICES ASSUME TypeOK, [Next]_vars PROVE TypeOK'
  OBVIOUS
<1>1. CASE UNCHANGED vars
  BY <1>1 DEF TypeOK
<1>2. CASE Next
  BY <1>2, WriteKeepsTypeOK, StartKeepsTypeOK, InsideKeepsTypeOK, CommitKeepsTypeOK,
     EndKeepsTypeOK DEF Next, TxProgress
<1> QED BY <1>1, <1>2

\* The state of the transactions, of the database and of the calls keep their
\* types and belong together, whoever calls what and whenever timers fire.
THEOREM TypeCorrect == Spec => []TypeOK
<1> QED BY InitTypeOK, NextTypeOK, PTL DEF Spec

-----------------------------------------------------------------------------
(* Rollback leaves no trace. *)

\* What fn() has to do for it, and what the window of remembered transactions:
\* no mutation outlives its transaction by Window later ones.
Discipline == AwaitsWrites /\ FreshHandles

WindowSuffices ==
  \A w \in Write :
    Owner[w] \in Tx /\ stage[w] \in InFlight => idCounter < txId[Owner[w]] + Window

\* When fn() settled, none of its mutations is in flight; it settled before its
\* transaction left "running".
SettledIsQuiet ==
  /\ \A w \in Write : Owner[w] \in settled => stage[w] \notin InFlight
  /\ \A t \in Tx : txState[t] \in InTransaction \ {"running"} => t \in settled
  /\ aborted => ctx \in settled

\* A mutation is called within its transaction, on a live, stamped collection.
CalledInside ==
  /\ \A w \in Write : stage[w] = "idle" => orphanOf[w] = NoTx
  /\ \A w \in Write, t \in Tx :
       By(t, w) /\ stage[w] = "called" =>
         ctx = t /\ <<t, Target[w]>> \in held /\ orphanOf[w] = NoTx

\* Inside mutate(), either its transaction has the snapshot or it is refused.
EnteredCovered ==
  \A w \in Write, t \in Tx :
    By(t, w) /\ stage[w] = "entered" =>
      /\ t \in affinity[w]
      /\ t \in abortedIds \/ (ctx = t /\ Target[w] \in touched)

\* Where a mutation of an uncommitted transaction can be found.
MemCovered ==
  \A w \in Write, t \in Tx, c \in Coll :
    By(t, w) /\ w \in mem[c] => txState[t] = "committed" \/ (ctx = t /\ c \in touched)

SnapClean ==
  \A w \in Write, t \in Tx, c \in Coll :
    By(t, w) /\ w \in snap[c] => txState[t] = "committed"

ImageCovered ==
  \A w \in Write, t \in Tx, c \in Coll :
    By(t, w) /\ w \in image[c] => txState[t] = "committed" \/ ctx = t

DiskCovered ==
  \A w \in Write, t \in Tx, c \in Coll :
    By(t, w) /\ w \in disk[c] => txState[t] \in {"flushing", "committed"} \/ <<t, c>> \in left

IInv ==
  /\ SettledIsQuiet
  /\ CalledInside
  /\ EnteredCovered
  /\ MemCovered
  /\ SnapClean
  /\ ImageCovered
  /\ DiskCovered

LEMMA InitIInv == Init => IInv
BY DEF Init, IInv, SettledIsQuiet, CalledInside, EnteredCovered, MemCovered,
       SnapClean, ImageCovered, DiskCovered, InTransaction, InFlight, By

\* A step of a mutation keeps the invariant.
LEMMA WriteKeepsIInv ==
  ASSUME TypeOK, IInv, NEW w \in Write, CallOutside(w) \/ WriteProgress(w)
  PROVE  IInv'
<1> USE DEF IInv
<1>0. Target[w] \in Coll /\ Owner[w] \in Tx \union {NoTx}
  OBVIOUS
<1>1. CASE CallOutside(w)
  <2>1. /\ stage' = [stage EXCEPT ![w] = "called"] /\ stage \in [Write -> Stage]
        /\ Owner[w] = NoTx /\ NoTx \notin settled
        /\ UNCHANGED <<manager, context, contents, held, lost, affinity, orphanOf>>
    BY <1>1 DEF CallOutside, Call, TypeOK
  <2>2. SettledIsQuiet' /\ CalledInside' /\ EnteredCovered'
    BY <2>1 DEF SettledIsQuiet, CalledInside, EnteredCovered, By
  <2>3. MemCovered' /\ SnapClean' /\ ImageCovered' /\ DiskCovered'
    BY <2>1 DEF MemCovered, SnapClean, ImageCovered, DiskCovered
  <2> QED BY <2>2, <2>3
<1>2. CASE Enter(w)
  <2>1. /\ stage[w] = "called" /\ stage \in [Write -> Stage]
        /\ UNCHANGED <<txState, settled, ctx, aborted, abortedIds, mem, disk, left, image, held, orphanOf>>
    BY <1>2 DEF Enter, TypeOK
  <2>2. CASE EnterBlocked(w) \/ EnterDead(w)
    <3>1. /\ stage' = [stage EXCEPT ![w] = "failed"]
          /\ UNCHANGED <<touched, snap, affinity>>
      BY <2>2 DEF EnterBlocked, EnterDead
    <3>2. SettledIsQuiet' /\ CalledInside' /\ EnteredCovered'
      BY <2>1, <3>1 DEF SettledIsQuiet, CalledInside, EnteredCovered, InFlight
    <3>3. MemCovered' /\ SnapClean' /\ ImageCovered' /\ DiskCovered'
      BY <2>1, <3>1 DEF MemCovered, SnapClean, ImageCovered, DiskCovered
    <3> QED BY <3>2, <3>3
  <2>3. CASE EnterAlive(w)
    <3>1. /\ stage' = [stage EXCEPT ![w] = "entered"]
          /\ affinity' = [affinity EXCEPT ![w] = Affinity(w)]
          /\ affinity \in [Write -> SUBSET Tx]
      BY <2>3 DEF EnterAlive, TypeOK
    <3>2. touched \subseteq touched'
      BY <2>3 DEF EnterAlive, Snapshot
    <3>3. SettledIsQuiet' /\ CalledInside'
      BY <2>1, <3>1 DEF SettledIsQuiet, CalledInside, InFlight
    <3>4. EnteredCovered'
      <4> SUFFICES ASSUME NEW v \in Write, NEW t \in Tx, By(t, v), stage'[v] = "entered"
                   PROVE  /\ t \in affinity'[v]
                          /\ t \in abortedIds' \/ (ctx' = t /\ Target[v] \in touched')
        BY DEF EnteredCovered
      <4>1. CASE v = w
        <5>1. ctx = t /\ t \notin settled /\ ~aborted /\ Stamped(w)
          BY <2>1, <4>1 DEF SettledIsQuiet, CalledInside, By, InFlight, Stamped
        <5>2. Participates(w) /\ t \in Affinity(w)
          BY <5>1 DEF Participates, Active, Affinity, By
        <5>3. Target[w] \in touched'
          BY <2>3, <5>2 DEF EnterAlive, Snapshot
        <5> QED BY <2>1, <3>1, <4>1, <5>1, <5>2, <5>3
      <4>2. CASE v # w
        BY <2>1, <3>1, <3>2, <4>2 DEF EnteredCovered
      <4> QED BY <4>1, <4>2
    <3>5. MemCovered' /\ ImageCovered' /\ DiskCovered'
      BY <2>1, <3>2 DEF MemCovered, ImageCovered, DiskCovered
    <3>6. SnapClean'
      <4> SUFFICES ASSUME NEW v \in Write, NEW t \in Tx, NEW c \in Coll, By(t, v), v \in snap'[c]
                   PROVE  txState'[t] = "committed"
        BY DEF SnapClean
      <4>1. CASE v \in snap[c]
        BY <2>1, <4>1 DEF SnapClean
      <4>2. CASE v \notin snap[c]
        <5>1. c \notin touched /\ v \in mem[c]
          <6>1. \/ snap' = snap
                \/ /\ Target[w] \notin touched
                   /\ snap' = [snap EXCEPT ![Target[w]] = mem[Target[w]]]
            BY <2>3 DEF EnterAlive, Snapshot
          <6>2. snap \in [Coll -> SUBSET Write]
            BY DEF TypeOK
          <6> QED BY <1>0, <4>2, <6>1, <6>2
        <5> QED BY <2>1, <5>1 DEF MemCovered
      <4> QED BY <4>1, <4>2
    <3> QED BY <3>3, <3>4, <3>5, <3>6
  <2> QED BY <1>2, <2>2, <2>3 DEF Enter
<1>3. CASE Apply(w)
  <2>1. /\ stage[w] = "entered" /\ stage' = [stage EXCEPT ![w] = "applied"]
        /\ stage \in [Write -> Stage] /\ mem \in [Coll -> SUBSET Write]
        /\ affinity[w] \intersect abortedIds = {}
        /\ UNCHANGED <<txState, settled, ctx, aborted, abortedIds, touched, snap, image, disk, left,
                       held, affinity, orphanOf>>
    BY <1>3 DEF Apply, TypeOK
  <2>2. SettledIsQuiet' /\ CalledInside' /\ EnteredCovered'
    BY <2>1 DEF SettledIsQuiet, CalledInside, EnteredCovered, InFlight
  <2>3. SnapClean' /\ ImageCovered' /\ DiskCovered'
    BY <2>1 DEF SnapClean, ImageCovered, DiskCovered
  <2>4. MemCovered'
    <3> SUFFICES ASSUME NEW v \in Write, NEW t \in Tx, NEW c \in Coll, By(t, v), v \in mem'[c]
                 PROVE  txState'[t] = "committed" \/ (ctx' = t /\ c \in touched')
      BY DEF MemCovered
    <3>1. CASE v \in mem[c]
      BY <2>1, <3>1 DEF MemCovered
    <3>2. CASE v \notin mem[c]
      <4>1. v = w /\ c = Target[w]
        BY <1>0, <1>3, <2>1, <3>2 DEF Apply
      <4>2. t \in affinity[w] /\ t \notin abortedIds
        BY <2>1, <4>1 DEF EnteredCovered
      <4> QED BY <2>1, <4>1, <4>2 DEF EnteredCovered
    <3> QED BY <3>1, <3>2
  <2> QED BY <2>2, <2>3, <2>4
<1>4. CASE Refuse(w) \/ MarkDirty(w) \/ Finish(w)
  <2>1. /\ \E s \in {"failed", "marked", "done"} : stage' = [stage EXCEPT ![w] = s]
        /\ stage[w] \in InFlight /\ stage \in [Write -> Stage]
        /\ UNCHANGED <<txState, settled, ctx, aborted, abortedIds, touched, snap, image, mem, disk, left,
                       held, affinity, orphanOf>>
    BY <1>4 DEF Refuse, MarkDirty, Finish, TypeOK, InFlight
  <2>2. SettledIsQuiet' /\ CalledInside' /\ EnteredCovered'
    BY <2>1 DEF SettledIsQuiet, CalledInside, EnteredCovered, InFlight
  <2>3. MemCovered' /\ SnapClean' /\ ImageCovered' /\ DiskCovered'
    BY <2>1 DEF MemCovered, SnapClean, ImageCovered, DiskCovered
  <2> QED BY <2>2, <2>3
<1> QED BY <1>1, <1>2, <1>3, <1>4 DEF WriteProgress

\* A call of transaction(), or of a mutation inside one, keeps the invariant.
LEMMA StartKeepsIInv ==
  ASSUME TypeOK, IInv, Discipline, NEW t \in Tx,
         \/ TxCall(t) \/ Begin(t)
         \/ \E c \in Coll : TakeHandle(t, c)
         \/ \E w \in Write : CallInside(t, w) \/ CallStale(t, w)
  PROVE  IInv'
<1> USE DEF IInv
<1>1. CASE TxCall(t)
  <2>1. /\ \E s \in {"refused", "queued"} : txState' = [txState EXCEPT ![t] = s]
        /\ txState[t] = "idle" /\ txState \in [Tx -> TxState]
        /\ UNCHANGED <<settled, abortedIds, context, contents, calls>>
    BY <1>1 DEF TxCall, TxRefused, TxQueued, TypeOK
  <2>2. SettledIsQuiet' /\ CalledInside' /\ EnteredCovered'
    BY <2>1 DEF SettledIsQuiet, CalledInside, EnteredCovered, InTransaction
  <2>3. MemCovered' /\ SnapClean' /\ ImageCovered' /\ DiskCovered'
    BY <2>1 DEF MemCovered, SnapClean, ImageCovered, DiskCovered
  <2> QED BY <2>2, <2>3
<1>2. CASE Begin(t)
  <2>1. /\ txState' = [txState EXCEPT ![t] = "running"]
        /\ txState[t] = "queued" /\ txState \in [Tx -> TxState]
        /\ ctx = NoTx /\ ctx' = t /\ aborted' = FALSE /\ touched' = {}
        /\ snap' = [c \in Coll |-> {}]
        /\ UNCHANGED <<settled, abortedIds, image, contents, calls>>
    BY <1>2 DEF Begin, EmptyContext, TypeOK
  <2>2. SettledIsQuiet' /\ CalledInside' /\ EnteredCovered'
    BY <2>1 DEF SettledIsQuiet, CalledInside, EnteredCovered, InTransaction, By
  <2>3. MemCovered' /\ SnapClean' /\ ImageCovered' /\ DiskCovered'
    BY <2>1 DEF MemCovered, SnapClean, ImageCovered, DiskCovered, By
  <2> QED BY <2>2, <2>3
<1>3. ASSUME NEW c \in Coll, TakeHandle(t, c) PROVE IInv'
  <2>1. /\ held \subseteq held'
        /\ UNCHANGED <<manager, context, contents, stage, affinity, orphanOf>>
    BY <1>3 DEF TakeHandle
  <2>2. SettledIsQuiet' /\ CalledInside' /\ EnteredCovered'
    BY <2>1 DEF SettledIsQuiet, CalledInside, EnteredCovered
  <2>3. MemCovered' /\ SnapClean' /\ ImageCovered' /\ DiskCovered'
    BY <2>1 DEF MemCovered, SnapClean, ImageCovered, DiskCovered
  <2> QED BY <2>2, <2>3
<1>4. ASSUME NEW w \in Write, CallInside(t, w) PROVE IInv'
  <2>1. /\ held' = held \union {<<t, Target[w]>>}
        /\ stage' = [stage EXCEPT ![w] = "called"] /\ stage \in [Write -> Stage]
        /\ ctx = t /\ t \notin settled /\ Owner[w] = t
        /\ orphanOf[w] = NoTx
        /\ UNCHANGED <<manager, context, contents, affinity, orphanOf>>
    BY <1>4 DEF CallInside, Call, FnRuns, Discipline, TypeOK, CalledInside
  <2>2. SettledIsQuiet' /\ CalledInside' /\ EnteredCovered'
    BY <2>1 DEF SettledIsQuiet, CalledInside, EnteredCovered, By
  <2>3. MemCovered' /\ SnapClean' /\ ImageCovered' /\ DiskCovered'
    BY <2>1 DEF MemCovered, SnapClean, ImageCovered, DiskCovered
  <2> QED BY <2>2, <2>3
<1>5. ASSUME NEW w \in Write, CallStale(t, w) PROVE IInv'
  BY <1>5 DEF CallStale, Discipline
<1> QED BY <1>1, <1>2, <1>3, <1>4, <1>5

\* The end of fn(), the commit and a late timeout keep the invariant.
LEMMA CommitKeepsIInv ==
  ASSUME TypeOK, IInv, Discipline, NEW t \in Tx,
         \/ FnSettles(t) \/ TimeoutLate(t)
         \/ CommitWrite(t) \/ CommitLands(t) \/ CommitFails(t)
         \/ \E w \in Write : RunEffect(t, w)
  PROVE  IInv'
<1> USE DEF IInv
<1>1. CASE FnSettles(t)
  <2>1. settled' = settled \union {t} /\ OwnInFlight(t) = {}
    BY <1>1 DEF FnSettles, FnResolves, FnThrows, FnEndsLate, FnDone, Discipline
  <2>2. /\ \/ txState' = txState
           \/ /\ txState[t] = "running"
              /\ \E s \in {"saving", "flushing", "failing"} : txState' = [txState EXCEPT ![t] = s]
        /\ txState \in [Tx -> TxState]
        /\ UNCHANGED <<abortedIds, ctx, aborted, touched, snap, image, contents, calls>>
    BY <1>1 DEF FnSettles, FnResolves, FnThrows, FnEndsLate, TypeOK
  <2>3. SettledIsQuiet' /\ CalledInside' /\ EnteredCovered'
    BY <2>1, <2>2 DEF SettledIsQuiet, CalledInside, EnteredCovered, OwnInFlight
  <2>4. MemCovered' /\ SnapClean' /\ ImageCovered' /\ DiskCovered'
    BY <2>2 DEF MemCovered, SnapClean, ImageCovered, DiskCovered
  <2> QED BY <2>3, <2>4
<1>2. CASE TimeoutLate(t)
  <2>1. /\ ctx = t /\ t \in settled
        /\ UNCHANGED <<manager, ctx, touched, snap, image, contents, calls>>
    BY <1>2 DEF TimeoutLate, TypeOK, SettledIsQuiet, InTransaction
  <2>2. SettledIsQuiet' /\ CalledInside' /\ EnteredCovered'
    BY <2>1 DEF SettledIsQuiet, CalledInside, EnteredCovered
  <2>3. MemCovered' /\ SnapClean' /\ ImageCovered' /\ DiskCovered'
    BY <2>1 DEF MemCovered, SnapClean, ImageCovered, DiskCovered
  <2> QED BY <2>2, <2>3
<1>3. CASE CommitWrite(t) \/ CommitLands(t) \/ CommitFails(t)
  <2>1. /\ \E s \in {"writing", "flushing", "failing"} : txState' = [txState EXCEPT ![t] = s]
        /\ txState[t] \in {"saving", "writing"} /\ txState \in [Tx -> TxState]
        /\ ctx = t /\ t \in settled
        /\ UNCHANGED <<settled, abortedIds, ctx, aborted, touched, snap, mem, calls>>
    BY <1>3 DEF CommitWrite, CommitLands, CommitFails, TypeOK, SettledIsQuiet, InTransaction
  <2>2. SettledIsQuiet' /\ CalledInside' /\ EnteredCovered'
    BY <2>1 DEF SettledIsQuiet, CalledInside, EnteredCovered
  <2>3. MemCovered' /\ SnapClean'
    BY <2>1 DEF MemCovered, SnapClean
  <2>4. CASE CommitWrite(t)
    <3>1. image' = [c \in Coll |-> IF c \in batch THEN mem[c] ELSE {}] /\ UNCHANGED storage
      BY <2>4 DEF CommitWrite
    <3>2. ImageCovered'
      BY <2>1, <3>1 DEF ImageCovered, MemCovered
    <3>3. DiskCovered'
      BY <2>1, <3>1 DEF DiskCovered
    <3> QED BY <2>2, <2>3, <3>2, <3>3
  <2>5. CASE CommitLands(t)
    <3>1. /\ disk' = [c \in Coll |-> IF c \in batch THEN image[c] ELSE disk[c]]
          /\ left' = {x \in left : x[2] \notin batch}
          /\ image' = image /\ txState' = [txState EXCEPT ![t] = "flushing"]
      BY <2>5 DEF CommitLands, Store
    <3>2. ImageCovered'
      BY <2>1, <3>1 DEF ImageCovered
    <3>3. DiskCovered'
      BY <2>1, <3>1 DEF DiskCovered, ImageCovered
    <3> QED BY <2>2, <2>3, <3>2, <3>3
  <2>6. CASE CommitFails(t)
    <3>1. PICK stored \in SUBSET batch :
            /\ disk' = [c \in Coll |-> IF c \in stored THEN image[c] ELSE disk[c]]
            /\ left' = {x \in left : x[2] \notin stored} \union ({t} \X stored)
      BY <2>6 DEF CommitFails, Store
    <3>2. image' = image /\ txState' = [txState EXCEPT ![t] = "failing"]
      BY <2>6 DEF CommitFails
    <3>3. ImageCovered'
      BY <2>1, <3>2 DEF ImageCovered
    <3>4. DiskCovered'
      <4> SUFFICES ASSUME NEW w \in Write, NEW u \in Tx, NEW c \in Coll, By(u, w), w \in disk'[c]
                   PROVE  txState'[u] \in {"flushing", "committed"} \/ <<u, c>> \in left'
        BY DEF DiskCovered
      <4>1. CASE c \in stored
        BY <2>1, <3>1, <3>2, <4>1 DEF ImageCovered
      <4>2. CASE c \notin stored
        BY <2>1, <3>1, <3>2, <4>2 DEF DiskCovered
      <4> QED BY <4>1, <4>2
    <3> QED BY <2>2, <2>3, <3>3, <3>4
  <2> QED BY <1>3, <2>4, <2>5, <2>6
<1>4. ASSUME NEW w \in Write, RunEffect(t, w) PROVE IInv'
  <2>1. UNCHANGED <<manager, ctx, aborted, touched, snap, image, mem, disk, left, calls>>
    BY <1>4 DEF RunEffect
  <2>2. SettledIsQuiet' /\ CalledInside' /\ EnteredCovered'
    BY <2>1 DEF SettledIsQuiet, CalledInside, EnteredCovered
  <2>3. MemCovered' /\ SnapClean' /\ ImageCovered' /\ DiskCovered'
    BY <2>1 DEF MemCovered, SnapClean, ImageCovered, DiskCovered
  <2> QED BY <2>2, <2>3
<1> QED BY <1>1, <1>2, <1>3, <1>4

\* Whoever is in flight when a transaction ends stays remembered.
LEMMA EndRemembers ==
  ASSUME TypeOK, WindowSuffices, NEW outcome, NEW timedOut \in BOOLEAN,
         EndContext(outcome, timedOut),
         NEW w \in Write, NEW t \in Tx, By(t, w), stage[w] \in InFlight,
         t \in abortedIds \/ (timedOut /\ ctx = t)
  PROVE  t \in abortedIds'
<1>1. txId \in [Tx -> Nat] /\ idCounter \in Nat /\ Window \in Nat
  BY DEF TypeOK
<1>2. idCounter < txId[t] + Window
  BY DEF WindowSuffices, By
<1>3. txId[t] + Window > idCounter
  BY <1>1, <1>2
<1>4. t \in (IF timedOut THEN abortedIds \union {ctx} ELSE abortedIds)
  OBVIOUS
<1> QED BY <1>3, <1>4 DEF EndContext, Kept

\* A transaction that ends keeps the invariant.
LEMMA EndKeepsIInv ==
  ASSUME TypeOK, IInv, WindowSuffices, NEW t \in Tx,
         Commit(t) \/ Rollback(t) \/ TimeoutRollsBack(t)
  PROVE  IInv'
<1> USE DEF IInv
<1>0. PICK outcome \in {"committed", "rolledback"}, timedOut \in BOOLEAN :
        /\ EndContext(outcome, timedOut)
        /\ outcome = "committed" => txState[t] = "flushing"
        /\ TimeoutRollsBack(t) => timedOut
  BY DEF Commit, Rollback, TimeoutRollsBack, TypeOK
<1>1. /\ ctx = t /\ txState \in [Tx -> TxState]
      /\ \A u \in Tx : txState[u] \in InTransaction <=> u = t
  BY DEF Commit, Rollback, TimeoutRollsBack, InTransaction, TypeOK
<1>2. txState' = [txState EXCEPT ![t] = outcome] /\ ctx' = NoTx /\ aborted' = FALSE
  BY <1>0, <1>1 DEF EndContext, EmptyContext
<1>3. UNCHANGED <<settled, disk, left, held, stage, affinity>>
  BY DEF Commit, Rollback, TimeoutRollsBack
<1>4. t \in settled \/ TimeoutRollsBack(t)
  BY DEF Commit, Rollback, SettledIsQuiet, InTransaction
<1>5. \A w \in Write : By(t, w) => stage[w] # "called"
  BY <1>4 DEF SettledIsQuiet, By, InFlight, TimeoutRollsBack, Quiet
<1>6. SettledIsQuiet'
  BY <1>1, <1>2, <1>3 DEF SettledIsQuiet, InTransaction
<1>7. CalledInside'
  <2>1. \A w \in Write : stage[w] = "idle" => orphanOf'[w] = orphanOf[w]
    BY DEF Commit, Rollback, TimeoutRollsBack, Restore, InFlight
  <2> QED BY <1>1, <1>3, <1>5, <2>1 DEF CalledInside
<1>8. EnteredCovered'
  <2> SUFFICES ASSUME NEW w \in Write, NEW u \in Tx, By(u, w), stage[w] = "entered"
               PROVE  u \in affinity[w] /\ u \in abortedIds'
    BY <1>3 DEF EnteredCovered
  <2>1. u \in affinity[w] /\ (u \in abortedIds \/ ctx = u)
    BY DEF EnteredCovered
  <2>2. ctx = u => timedOut
    BY <1>0, <1>1, <1>4 DEF SettledIsQuiet, By, InFlight
  <2>3. stage[w] \in InFlight
    BY DEF InFlight
  <2> QED BY <1>0, <2>1, <2>2, <2>3, EndRemembers
<1>9. MemCovered'
  <2> SUFFICES ASSUME NEW w \in Write, NEW u \in Tx, NEW c \in Coll, By(u, w), w \in mem'[c]
               PROVE  txState'[u] = "committed"
    BY DEF MemCovered
  <2>1. CASE Commit(t)
    <3>1. mem' = mem /\ txState'[t] = "committed"
      BY <1>1, <2>1 DEF Commit, EndContext
    <3> QED BY <1>1, <1>2, <3>1 DEF MemCovered
  <2>2. CASE Rollback(t) \/ TimeoutRollsBack(t)
    <3>1. mem' = [d \in Coll |-> IF d \notin preExisting THEN {}
                                 ELSE IF d \in touched THEN snap[d] ELSE mem[d]]
      BY <2>2 DEF Rollback, TimeoutRollsBack, Restore
    <3>2. (w \in snap[c] /\ c \in touched) \/ (w \in mem[c] /\ c \notin touched)
      BY <3>1
    <3>3. txState[u] = "committed"
      BY <3>2 DEF MemCovered, SnapClean
    <3> QED BY <1>1, <1>2, <3>3 DEF InTransaction
  <2> QED BY <2>1, <2>2
<1>10. SnapClean' /\ ImageCovered'
  BY <1>0 DEF EndContext, EmptyContext, SnapClean, ImageCovered
<1>11. DiskCovered'
  <2>1. txState'[t] = outcome /\ (outcome = "committed" <=> Commit(t))
    BY <1>0, <1>1, <1>2 DEF Commit, Rollback, TimeoutRollsBack, EndContext
  <2>2. txState[t] = "flushing" => outcome = "committed"
    BY <2>1 DEF Rollback, TimeoutRollsBack
  <2> QED BY <1>1, <1>2, <1>3, <2>1, <2>2 DEF DiskCovered, InTransaction
<1> QED BY <1>6, <1>7, <1>8, <1>9, <1>10, <1>11

LEMMA NextIInv ==
  ASSUME Discipline
  PROVE  TypeOK /\ IInv /\ WindowSuffices /\ [Next]_vars => IInv'
<1> SUFFICES ASSUME TypeOK, IInv, WindowSuffices, [Next]_vars PROVE IInv'
  OBVIOUS
<1>1. CASE UNCHANGED vars
  BY <1>1 DEF IInv, SettledIsQuiet, CalledInside, EnteredCovered, MemCovered,
              SnapClean, ImageCovered, DiskCovered
<1>2. CASE Next
  BY <1>2, WriteKeepsIInv, StartKeepsIInv, CommitKeepsIInv, EndKeepsIInv
  DEF Next, TxProgress
<1> QED BY <1>1, <1>2

\* A rolled-back transaction leaves nothing behind in memory, and in storage no
\* more than what the adapter stored of its batch when it rejected it, until the
\* collection is stored once more; for any number of transactions, collections
\* and mutations, as long as fn() awaits its mutations and takes fresh handles,
\* and none of its mutations outlives it by abortedIdWindow transactions.
THEOREM RollbackIsComplete ==
  ASSUME Discipline
  PROVE  Spec /\ []WindowSuffices => []RolledBackLeavesNoTrace
<1>1. TypeOK /\ IInv => RolledBackLeavesNoTrace
  BY DEF TypeOK, IInv, MemCovered, DiskCovered, RolledBackLeavesNoTrace, InTransaction
<1> QED BY <1>1, InitTypeOK, NextTypeOK, InitIInv, NextIInv, PTL DEF Spec

-----------------------------------------------------------------------------
(* Commit is complete. *)

\* A mutation is called after its transaction began, is in no deleted
\* collection while it runs, and changes memory within it.
CallsFollowBegin ==
  /\ \A w \in Write, t \in Tx :
       By(t, w) /\ txState[t] \in {"idle", "queued", "refused"} => stage[w] = "idle"
  /\ \A t \in Tx : txState[t] = "committed" => t \in settled
  /\ \A w \in Write, t \in Tx :
       By(t, w) /\ ctx = t /\ stage[w] \in InFlight => orphanOf[w] = NoTx
  /\ \A w \in Write, t \in Tx :
       By(t, w) /\ stage[w] \in {"applied", "marked"} => ctx = t

\* What the running transaction changed is in memory and will be saved.
OwnKept ==
  \A w \in Write, t \in Tx :
    By(t, w) /\ ctx = t /\ stage[w] \in {"applied", "marked", "done"} =>
      w \in mem[Target[w]] /\ Target[w] \in touched

\* How far the changes of the running transaction are on the way to storage.
OwnSaved ==
  \A w \in Write, t \in Tx :
    By(t, w) /\ ctx = t /\ stage[w] = "done" =>
      /\ txState[t] \in {"saving", "writing"} => Target[w] \in batch
      /\ txState[t] = "writing" => w \in image[Target[w]]
      /\ txState[t] = "flushing" => w \in disk[Target[w]]

\* Effects wait in the context until the batch is stored, and are not lost.
EffectsKept ==
  \A w \in Write, t \in Tx :
    By(t, w) =>
      /\ ctx = t /\ stage[w] = "done" => w \in deferred \union emitted
      /\ w \in deferred => ctx = t /\ stage[w] = "done"
      /\ w \in emitted => /\ txState[t] \in {"flushing", "committed"}
                          /\ stage[w] = "done"
                          /\ w \in disk[Target[w]]

\* What a committed transaction changed is in memory and in storage, and in
\* whatever a later transaction restores or saves.
CommittedKept ==
  \A w \in Write, t \in Tx :
    By(t, w) /\ txState[t] = "committed" /\ stage[w] = "done" =>
      /\ w \in mem[Target[w]] /\ w \in disk[Target[w]] /\ w \in emitted
      /\ Target[w] \in exists
      /\ ctx # NoTx => Target[w] \in preExisting
      /\ Target[w] \in touched => w \in snap[Target[w]]
      /\ \A u \in Tx : txState[u] = "writing" /\ Target[w] \in batch => w \in image[Target[w]]

CInv ==
  /\ CallsFollowBegin
  /\ OwnKept
  /\ OwnSaved
  /\ EffectsKept
  /\ CommittedKept

LEMMA InitCInv == Init => CInv
BY DEF Init, CInv, CallsFollowBegin, OwnKept, OwnSaved, EffectsKept, CommittedKept,
       InFlight, By

\* Where a mutation stands, by how far its transaction got.
LEMMA OwnStage ==
  ASSUME TypeOK, SettledIsQuiet, CInv, NEW w \in Write, NEW t \in Tx, By(t, w)
  PROVE  /\ txState[t] = "committed" => stage[w] \notin InFlight
         /\ txState[t] \in {"saving", "writing", "flushing", "failing"} => stage[w] \notin InFlight
         /\ w \in emitted => txState[t] \in {"flushing", "committed"}
BY DEF CInv, CallsFollowBegin, SettledIsQuiet, EffectsKept, By, InTransaction

\* A step of a mutation keeps the invariant.
LEMMA WriteKeepsCInv ==
  ASSUME TypeOK, IInv, CInv, NEW w \in Write, CallOutside(w) \/ WriteProgress(w)
  PROVE  CInv'
<1> USE DEF CInv
<1>0. /\ Target[w] \in Coll /\ Owner[w] \in Tx \union {NoTx}
      /\ stage \in [Write -> Stage] /\ mem \in [Coll -> SUBSET Write]
  BY DEF TypeOK
<1>1. CASE CallOutside(w)
  <2>1. /\ stage' = [stage EXCEPT ![w] = "called"]
        /\ \A t \in Tx : ~By(t, w)
        /\ exists \subseteq exists'
        /\ UNCHANGED <<manager, context, contents, held, lost, affinity, orphanOf>>
    BY <1>1 DEF CallOutside, Call, UseCollection, By
  <2>2. CallsFollowBegin' /\ OwnKept' /\ OwnSaved'
    BY <1>0, <2>1 DEF CallsFollowBegin, OwnKept, OwnSaved
  <2>3. EffectsKept' /\ CommittedKept'
    BY <1>0, <2>1 DEF EffectsKept, CommittedKept
  <2> QED BY <2>2, <2>3
<1>2. CASE Enter(w)
  <2>1. /\ stage[w] = "called"
        /\ \E s \in {"failed", "entered"} : stage' = [stage EXCEPT ![w] = s]
        /\ touched \subseteq touched'
        /\ UNCHANGED <<manager, ctx, aborted, preExisting, deferred, commit, registry,
                       contents, held, lost, orphanOf>>
    BY <1>2 DEF Enter, EnterBlocked, EnterDead, EnterAlive, Snapshot
  <2>2. CallsFollowBegin' /\ OwnKept' /\ OwnSaved' /\ EffectsKept'
    BY <1>0, <2>1 DEF CallsFollowBegin, OwnKept, OwnSaved, EffectsKept, InFlight
  <2>3. \A v \in Write, t \in Tx :
          /\ By(t, v) /\ txState[t] = "committed" /\ stage[v] = "done"
          /\ Target[v] \in touched'
          => v \in snap'[Target[v]]
    <3>1. \/ UNCHANGED footprint
          \/ Target[w] \in touched /\ UNCHANGED footprint
          \/ /\ Target[w] \notin touched
             /\ touched' = touched \union {Target[w]}
             /\ snap' = [snap EXCEPT ![Target[w]] = mem[Target[w]]]
      BY <1>2, ZenonT(40) DEF Enter, EnterBlocked, EnterDead, EnterAlive, Snapshot
    <3>2. snap \in [Coll -> SUBSET Write] /\ \A v \in Write : Target[v] \in Coll
      BY DEF TypeOK
    <3> QED BY <3>1, <3>2 DEF CommittedKept
  <2>4. CommittedKept'
    BY <1>0, <2>1, <2>3 DEF CommittedKept
  <2> QED BY <2>2, <2>4
<1>3. CASE Apply(w)
  <2>1. /\ stage[w] = "entered" /\ stage' = [stage EXCEPT ![w] = "applied"]
        /\ affinity[w] \intersect abortedIds = {}
        /\ UNCHANGED <<manager, context, registry, dirty, storage, emitted, held, lost,
                       affinity, orphanOf>>
    BY <1>3 DEF Apply
  <2>2. \A t \in Tx : By(t, w) => ctx = t /\ Target[w] \in touched /\ orphanOf[w] = NoTx
    BY <2>1 DEF IInv, EnteredCovered, CallsFollowBegin, InFlight
  <2>3. /\ \A v \in Write : v \in mem[Target[v]] => v \in mem'[Target[v]]
        /\ orphanOf[w] = NoTx => w \in mem'[Target[w]]
    BY <1>0, <1>3 DEF Apply
  <2>4. CallsFollowBegin' /\ OwnKept' /\ OwnSaved' /\ EffectsKept'
    BY <1>0, <2>1, <2>2, <2>3 DEF CallsFollowBegin, OwnKept, OwnSaved, EffectsKept, InFlight
  <2>5. CommittedKept'
    BY <1>0, <2>1, <2>3 DEF CommittedKept
  <2> QED BY <2>4, <2>5
<1>4. CASE Refuse(w) \/ MarkDirty(w)
  <2>1. /\ \/ stage' = [stage EXCEPT ![w] = "failed"]
           \/ stage[w] = "applied" /\ stage' = [stage EXCEPT ![w] = "marked"]
        /\ stage[w] \in {"entered", "applied"}
        /\ UNCHANGED <<manager, context, registry, mem, storage, emitted, held, lost,
                       affinity, orphanOf>>
    BY <1>4 DEF Refuse, MarkDirty
  <2>2. CallsFollowBegin' /\ OwnKept' /\ OwnSaved' /\ EffectsKept'
    BY <1>0, <2>1 DEF CallsFollowBegin, OwnKept, OwnSaved, EffectsKept, InFlight
  <2>3. CommittedKept'
    BY <1>0, <2>1 DEF CommittedKept
  <2> QED BY <2>2, <2>3
<1>5. CASE Finish(w)
  <2>1. /\ stage[w] = "marked" /\ stage[w] \in InFlight
        /\ stage' = [stage EXCEPT ![w] = "done"]
        /\ UNCHANGED <<manager, ctx, aborted, preExisting, footprint, commit, registry,
                       mem, dirty, storage, held, lost, affinity, orphanOf>>
    BY <1>5 DEF Finish, InFlight
  <2>2. \/ ctx # NoTx /\ deferred' = deferred \union {w} /\ emitted' = emitted
        \/ ctx = NoTx /\ emitted' = emitted \union {w} /\ deferred' = deferred
    BY <1>5 DEF Finish, Effects
  <2>3. \A t \in Tx : By(t, w) => /\ ctx = t
                                  /\ txState[t] = "running"
    <3> SUFFICES ASSUME NEW t \in Tx, By(t, w) PROVE ctx = t /\ txState[t] = "running"
      OBVIOUS
    <3>1. ctx = t
      BY <2>1 DEF CallsFollowBegin
    <3>2. txState[t] \in InTransaction
      BY <3>1 DEF TypeOK
    <3> QED BY <2>1, <3>1, <3>2, OwnStage DEF IInv, InTransaction
  <2>4. CallsFollowBegin' /\ OwnKept' /\ OwnSaved'
    BY <1>0, <2>1, <2>3 DEF CallsFollowBegin, OwnKept, OwnSaved, InFlight
  <2>5. EffectsKept'
    <3> SUFFICES ASSUME NEW v \in Write, NEW t \in Tx, By(t, v)
                 PROVE  /\ ctx = t /\ stage'[v] = "done" => v \in deferred' \union emitted'
                        /\ v \in deferred' => ctx = t /\ stage'[v] = "done"
                        /\ v \in emitted' => /\ txState[t] \in {"flushing", "committed"}
                                             /\ stage'[v] = "done"
                                             /\ v \in disk[Target[v]]
      BY <2>1 DEF EffectsKept, By
    <3>1. CASE v = w
      BY <1>0, <2>1, <2>2, <2>3, <3>1 DEF EffectsKept
    <3>2. CASE v # w
      BY <1>0, <2>1, <2>2, <3>2 DEF EffectsKept
    <3> QED BY <3>1, <3>2
  <2>6. CommittedKept'
    <3> SUFFICES ASSUME NEW v \in Write, NEW t \in Tx, By(t, v), txState[t] = "committed",
                        stage'[v] = "done"
                 PROVE  stage[v] = "done" /\ emitted \subseteq emitted'
      BY <2>1 DEF CommittedKept, By
    <3>1. v # w
      BY <2>3
    <3> QED BY <1>0, <2>1, <2>2, <3>1
  <2> QED BY <2>4, <2>5, <2>6
<1> QED BY <1>1, <1>2, <1>3, <1>4, <1>5 DEF WriteProgress

\* A call of transaction(), or of a mutation inside one, keeps the invariant.
LEMMA StartKeepsCInv ==
  ASSUME TypeOK, IInv, CInv, Discipline, NEW t \in Tx,
         \/ TxCall(t) \/ Begin(t)
         \/ \E c \in Coll : TakeHandle(t, c)
         \/ \E w \in Write : CallInside(t, w) \/ CallStale(t, w)
  PROVE  CInv'
<1> USE DEF CInv
<1>0. txState \in [Tx -> TxState] /\ stage \in [Write -> Stage]
  BY DEF TypeOK
<1>1. CASE TxCall(t)
  <2>1. /\ \E s \in {"refused", "queued"} : txState' = [txState EXCEPT ![t] = s]
        /\ txState[t] = "idle"
        /\ UNCHANGED <<settled, context, registry, contents, calls>>
    BY <1>1 DEF TxCall, TxRefused, TxQueued
  <2>2. ctx # t
    BY <2>1 DEF TypeOK, InTransaction
  <2>3. CallsFollowBegin' /\ OwnKept' /\ OwnSaved' /\ EffectsKept'
    BY <1>0, <2>1, <2>2 DEF CallsFollowBegin, OwnKept, OwnSaved, EffectsKept
  <2>4. CommittedKept'
    BY <1>0, <2>1 DEF CommittedKept
  <2> QED BY <2>3, <2>4
<1>2. CASE Begin(t)
  <2>1. /\ txState' = [txState EXCEPT ![t] = "running"]
        /\ txState[t] = "queued"
        /\ ctx = NoTx /\ ctx' = t /\ touched' = {} /\ deferred' = {} /\ preExisting' = exists
        /\ UNCHANGED <<settled, commit, registry, contents, calls>>
    BY <1>2 DEF Begin, EmptyContext
  <2>2. \A w \in Write : By(t, w) => stage[w] = "idle"
    BY <2>1 DEF CallsFollowBegin
  <2>3. CallsFollowBegin' /\ OwnKept' /\ OwnSaved'
    BY <1>0, <2>1, <2>2 DEF CallsFollowBegin, OwnKept, OwnSaved, InFlight, By
  <2>4. EffectsKept'
    BY <1>0, <2>1, <2>2 DEF EffectsKept, By
  <2>5. CommittedKept'
    BY <1>0, <2>1 DEF CommittedKept
  <2> QED BY <2>3, <2>4, <2>5
<1>3. ASSUME NEW c \in Coll, TakeHandle(t, c) PROVE CInv'
  <2>1. /\ exists \subseteq exists'
        /\ UNCHANGED <<manager, context, contents, stage, affinity, orphanOf>>
    BY <1>3 DEF TakeHandle, UseCollection
  <2>2. CallsFollowBegin' /\ OwnKept' /\ OwnSaved'
    BY <2>1 DEF CallsFollowBegin, OwnKept, OwnSaved
  <2>3. EffectsKept' /\ CommittedKept'
    BY <2>1 DEF EffectsKept, CommittedKept
  <2> QED BY <2>2, <2>3
<1>4. ASSUME NEW w \in Write, CallInside(t, w) PROVE CInv'
  <2>1. /\ stage' = [stage EXCEPT ![w] = "called"] /\ stage[w] = "idle"
        /\ ctx = t /\ Owner[w] = t
        /\ exists \subseteq exists'
        /\ UNCHANGED <<manager, context, contents, affinity, orphanOf>>
    BY <1>4 DEF CallInside, Call, UseCollection
  <2>2. txState[t] \in InTransaction /\ orphanOf[w] = NoTx
    BY <2>1 DEF TypeOK, IInv, CalledInside
  <2>3. CallsFollowBegin' /\ OwnKept' /\ OwnSaved'
    BY <1>0, <2>1, <2>2 DEF CallsFollowBegin, OwnKept, OwnSaved, InTransaction, By
  <2>4. EffectsKept' /\ CommittedKept'
    BY <1>0, <2>1 DEF EffectsKept, CommittedKept
  <2> QED BY <2>3, <2>4
<1>5. ASSUME NEW w \in Write, CallStale(t, w) PROVE CInv'
  BY <1>5 DEF CallStale, Discipline
<1> QED BY <1>1, <1>2, <1>3, <1>4, <1>5

\* The end of fn(), the commit and a late timeout keep the invariant.
LEMMA CommitKeepsCInv ==
  ASSUME TypeOK, IInv, CInv, Discipline, NEW t \in Tx,
         \/ FnSettles(t) \/ TimeoutLate(t)
         \/ CommitWrite(t) \/ CommitLands(t) \/ CommitFails(t)
         \/ \E w \in Write : RunEffect(t, w)
  PROVE  CInv'
<1> USE DEF CInv
<1>0. /\ txState \in [Tx -> TxState] /\ \A w \in Write : Target[w] \in Coll
      /\ \A u \in Tx : txState[u] \in InTransaction <=> ctx = u
  BY DEF TypeOK
<1>1. CASE FnSettles(t)
  <2>1. /\ settled' = settled \union {t}
        /\ \A w \in Write : By(t, w) => stage[w] \notin InFlight
    BY <1>1 DEF FnSettles, FnResolves, FnThrows, FnEndsLate, FnDone, Discipline, OwnInFlight, By
  <2>2. /\ \/ txState' = txState /\ batch' = batch
           \/ txState[t] = "running" /\ txState' = [txState EXCEPT ![t] = "failing"] /\ batch' = batch
           \/ /\ txState[t] = "running" /\ batch' = touched
              /\ txState' = [txState EXCEPT ![t] = IF touched = {} THEN "flushing" ELSE "saving"]
        /\ UNCHANGED <<ctx, aborted, preExisting, footprint, deferred, image, registry,
                       contents, calls>>
    BY <1>1 DEF FnSettles, FnResolves, FnThrows, FnEndsLate
  <2>3. CallsFollowBegin'
    BY <1>0, <2>1, <2>2 DEF CallsFollowBegin
  <2>4. OwnKept' /\ OwnSaved'
    BY <1>0, <2>2 DEF OwnKept, OwnSaved, InTransaction
  <2>5. EffectsKept'
    BY <1>0, <2>2 DEF EffectsKept, InTransaction
  <2>6. CommittedKept'
    BY <1>0, <2>2 DEF CommittedKept, InTransaction
  <2> QED BY <2>3, <2>4, <2>5, <2>6
<1>2. CASE TimeoutLate(t)
  <2>1. UNCHANGED <<manager, ctx, preExisting, footprint, deferred, commit, registry,
                    contents, calls>>
    BY <1>2 DEF TimeoutLate
  <2>2. CallsFollowBegin' /\ OwnKept' /\ OwnSaved'
    BY <2>1 DEF CallsFollowBegin, OwnKept, OwnSaved
  <2>3. EffectsKept' /\ CommittedKept'
    BY <2>1 DEF EffectsKept, CommittedKept
  <2> QED BY <2>2, <2>3
<1>3. CASE CommitWrite(t) \/ CommitLands(t) \/ CommitFails(t)
  <2>1. /\ \E s \in {"writing", "flushing", "failing"} : txState' = [txState EXCEPT ![t] = s]
        /\ txState[t] \in {"saving", "writing"} /\ ctx = t
        /\ UNCHANGED <<settled, ctx, preExisting, footprint, deferred, batch, registry, mem,
                       emitted, calls>>
    BY <1>0, <1>3 DEF CommitWrite, CommitLands, CommitFails, InTransaction
  <2>2. CallsFollowBegin' /\ OwnKept'
    BY <1>0, <2>1 DEF CallsFollowBegin, OwnKept
  <2>3. \A w \in Write, u \in Tx : By(u, w) /\ w \in emitted => txState[u] = "committed"
    BY <1>0, <2>1 DEF EffectsKept, InTransaction
  <2>4. CASE CommitWrite(t)
    <3>1. /\ image' = [c \in Coll |-> IF c \in batch THEN mem[c] ELSE {}] /\ disk' = disk
          /\ txState[t] = "saving" /\ txState' = [txState EXCEPT ![t] = "writing"]
      BY <2>4 DEF CommitWrite
    <3>2. OwnSaved'
      BY <1>0, <2>1, <3>1 DEF OwnSaved, OwnKept, InTransaction
    <3>3. EffectsKept'
      BY <1>0, <2>1, <3>1 DEF EffectsKept
    <3>4. CommittedKept'
      BY <1>0, <2>1, <3>1 DEF CommittedKept
    <3> QED BY <2>2, <3>2, <3>3, <3>4
  <2>5. CASE CommitLands(t)
    <3>1. /\ disk' = [c \in Coll |-> IF c \in batch THEN image[c] ELSE disk[c]] /\ image' = image
          /\ txState[t] = "writing" /\ txState' = [txState EXCEPT ![t] = "flushing"]
      BY <2>5 DEF CommitLands, Store
    <3>2. \A w \in Write, u \in Tx :
            By(u, w) /\ txState[u] = "committed" /\ stage[w] = "done" => w \in disk'[Target[w]]
      BY <1>0, <3>1 DEF CommittedKept
    <3>3. OwnSaved'
      BY <1>0, <2>1, <3>1 DEF OwnSaved
    <3>4. EffectsKept'
      BY <1>0, <2>1, <2>3, <3>1, <3>2 DEF EffectsKept
    <3>5. CommittedKept'
      BY <1>0, <2>1, <3>1, <3>2 DEF CommittedKept, InTransaction
    <3> QED BY <2>2, <3>3, <3>4, <3>5
  <2>6. CASE CommitFails(t)
    <3>1. PICK stored \in SUBSET batch :
            disk' = [c \in Coll |-> IF c \in stored THEN image[c] ELSE disk[c]]
      BY <2>6 DEF CommitFails, Store
    <3>2. /\ image' = image
          /\ txState[t] = "writing" /\ txState' = [txState EXCEPT ![t] = "failing"]
      BY <2>6 DEF CommitFails
    <3>3. \A w \in Write, u \in Tx :
            By(u, w) /\ txState[u] = "committed" /\ stage[w] = "done" => w \in disk'[Target[w]]
      BY <1>0, <3>1, <3>2 DEF CommittedKept
    <3>4. OwnSaved'
      BY <1>0, <2>1, <3>2 DEF OwnSaved
    <3>5. EffectsKept'
      BY <1>0, <2>1, <2>3, <3>2, <3>3 DEF EffectsKept
    <3>6. CommittedKept'
      BY <1>0, <2>1, <3>2, <3>3 DEF CommittedKept, InTransaction
    <3> QED BY <2>2, <3>4, <3>5, <3>6
  <2> QED BY <1>3, <2>4, <2>5, <2>6
<1>4. ASSUME NEW w \in Write, RunEffect(t, w) PROVE CInv'
  <2>1. /\ txState[t] = "flushing" /\ ctx = t /\ w \in deferred
        /\ deferred' = deferred \ {w} /\ emitted' = emitted \union {w}
        /\ UNCHANGED <<manager, ctx, aborted, preExisting, footprint, commit, registry,
                       mem, dirty, storage, calls>>
    BY <1>0, <1>4 DEF RunEffect, InTransaction
  <2>2. CallsFollowBegin' /\ OwnKept' /\ OwnSaved'
    BY <2>1 DEF CallsFollowBegin, OwnKept, OwnSaved
  <2>3. \A u \in Tx : By(u, w) => u = t /\ stage[w] = "done" /\ w \in disk[Target[w]]
    BY <2>1 DEF EffectsKept, OwnSaved
  <2>4. EffectsKept'
    BY <2>1, <2>3 DEF EffectsKept
  <2>5. CommittedKept'
    BY <2>1 DEF CommittedKept
  <2> QED BY <2>2, <2>4, <2>5
<1> QED BY <1>1, <1>2, <1>3, <1>4

\* A transaction that ends keeps the invariant.
LEMMA EndKeepsCInv ==
  ASSUME TypeOK, IInv, CInv, NEW t \in Tx, Commit(t) \/ Rollback(t) \/ TimeoutRollsBack(t)
  PROVE  CInv'
<1> USE DEF CInv
<1>0. /\ txState \in [Tx -> TxState] /\ \A w \in Write : Target[w] \in Coll
      /\ \A u \in Tx : txState[u] \in InTransaction <=> u = t
      /\ ctx = t /\ ctx # NoTx
  BY DEF Commit, Rollback, TimeoutRollsBack, InTransaction, TypeOK
<1>1. PICK outcome \in {"committed", "rolledback"}, timedOut \in BOOLEAN :
        EndContext(outcome, timedOut) /\ (outcome = "committed" <=> Commit(t))
  <2>1. CASE Commit(t)
    BY <2>1 DEF Commit, TypeOK
  <2>2. CASE Rollback(t) \/ TimeoutRollsBack(t)
    BY <2>2 DEF Commit, Rollback, TimeoutRollsBack, TypeOK
  <2> QED BY <2>1, <2>2
<1>2. /\ txState' = [txState EXCEPT ![t] = outcome] /\ ctx' = NoTx
      /\ preExisting' = {} /\ touched' = {} /\ deferred' = {} /\ batch' = {}
  BY <1>0, <1>1 DEF EndContext, EmptyContext
<1>3. UNCHANGED <<settled, storage, emitted, held, stage, affinity>>
  BY DEF Commit, Rollback, TimeoutRollsBack
<1>4. \A w \in Write : By(t, w) => stage[w] \notin {"called", "applied", "marked"}
  <2>1. CASE Commit(t) \/ Rollback(t)
    BY <2>1, OwnStage DEF Commit, Rollback, IInv, InFlight
  <2>2. CASE TimeoutRollsBack(t)
    BY <2>2 DEF TimeoutRollsBack, Quiet
  <2> QED BY <2>1, <2>2
<1>5. CallsFollowBegin'
  <2>1. outcome = "committed" => t \in settled
    BY <1>0, <1>1 DEF Commit, IInv, SettledIsQuiet, InTransaction
  <2> QED BY <1>0, <1>2, <1>3, <1>4, <2>1 DEF CallsFollowBegin, By
<1>6. OwnKept' /\ OwnSaved'
  BY <1>2 DEF OwnKept, OwnSaved, By
<1>7. outcome = "committed" => txState[t] = "flushing" /\ deferred = {} /\ exists' = exists /\ mem' = mem
  BY <1>1 DEF Commit
<1>8. EffectsKept'
  <2>1. \A w \in Write : By(t, w) /\ w \in emitted => outcome = "committed"
    <3>1. (\E w \in Write : By(t, w) /\ w \in emitted) => txState[t] = "flushing"
      BY <1>0 DEF EffectsKept, InTransaction
    <3>2. txState[t] = "flushing" => Commit(t)
      BY DEF Rollback, TimeoutRollsBack
    <3> QED BY <1>1, <3>1, <3>2
  <2> QED BY <1>0, <1>2, <1>3, <2>1 DEF EffectsKept, By
<1>9. \A w \in Write, u \in Tx :
        By(u, w) /\ txState[u] = "committed" /\ stage[w] = "done" =>
          w \in mem'[Target[w]] /\ Target[w] \in exists'
  <2>1. CASE Commit(t)
    BY <1>1, <1>7, <2>1 DEF CommittedKept
  <2>2. CASE Rollback(t) \/ TimeoutRollsBack(t)
    <3>1. Restore
      BY <2>2 DEF Rollback, TimeoutRollsBack
    <3> QED BY <1>0, <3>1 DEF Restore, CommittedKept
  <2> QED BY <2>1, <2>2
<1>10. \A w \in Write :
         By(t, w) /\ outcome = "committed" /\ stage[w] = "done" =>
           /\ w \in mem'[Target[w]] /\ w \in disk'[Target[w]] /\ w \in emitted'
           /\ Target[w] \in exists'
  BY <1>0, <1>3, <1>7 DEF OwnKept, OwnSaved, EffectsKept, TypeOK
<1>11. CommittedKept'
  <2> SUFFICES ASSUME NEW w \in Write, NEW u \in Tx, By(u, w), txState'[u] = "committed",
                      stage[w] = "done"
               PROVE  /\ w \in mem'[Target[w]] /\ w \in disk'[Target[w]] /\ w \in emitted'
                      /\ Target[w] \in exists'
    BY <1>2, <1>3 DEF CommittedKept, By
  <2>1. CASE u = t
    BY <1>0, <1>2, <1>10, <2>1
  <2>2. CASE u # t
    BY <1>0, <1>2, <1>3, <1>9, <2>2 DEF CommittedKept
  <2> QED BY <2>1, <2>2
<1> QED BY <1>5, <1>6, <1>8, <1>11

LEMMA NextCInv ==
  ASSUME Discipline
  PROVE  TypeOK /\ IInv /\ CInv /\ [Next]_vars => CInv'
<1> SUFFICES ASSUME TypeOK, IInv, CInv, [Next]_vars PROVE CInv'
  OBVIOUS
<1>1. CASE UNCHANGED vars
  BY <1>1 DEF CInv, CallsFollowBegin, OwnKept, OwnSaved, EffectsKept, CommittedKept
<1>2. CASE Next
  BY <1>2, WriteKeepsCInv, StartKeepsCInv, CommitKeepsCInv, EndKeepsCInv DEF Next, TxProgress
<1> QED BY <1>1, <1>2

\* The two halves of the invariant hold together.
LEMMA CInvHolds ==
  ASSUME Discipline
  PROVE  Spec /\ []WindowSuffices => [](TypeOK /\ CInv)
<1> QED BY InitTypeOK, NextTypeOK, InitIInv, NextIInv, InitCInv, NextCInv, PTL DEF Spec

\* What a mutation of a committed transaction changed stays in its collection
\* and in storage, and its effects ran, whatever later transactions of any
\* number do to the same collection, roll it back included.
THEOREM CommitsAreComplete ==
  ASSUME Discipline
  PROVE  Spec /\ []WindowSuffices => []CommitIsComplete
<1>1. CInv => CommitIsComplete
  BY DEF CInv, CommittedKept, CommitIsComplete
<1> QED BY <1>1, CInvHolds, PTL

\* No watcher, after hook or changelog hears of a mutation of a transaction
\* before the batch with it is in storage, or at all if the batch fails.
THEOREM EffectsWaitForCommit ==
  ASSUME Discipline
  PROVE  Spec /\ []WindowSuffices => []EffectsFollowCommit
<1>1. TypeOK /\ CInv => EffectsFollowCommit
  BY DEF TypeOK, CInv, EffectsKept, EffectsFollowCommit
<1> QED BY <1>1, CInvHolds, PTL

-----------------------------------------------------------------------------
(* What transactions do apart from a mutation leaves it alone. *)

\* The collections that outsiders write to are loaded by connect(), and no
\* transaction takes a handle of one.
Apart ==
  \A w \in Write : Owner[w] = NoTx =>
    /\ Target[w] \in Loaded
    /\ \A t \in Tx : <<t, Target[w]>> \notin Reads
    /\ \A v \in Write : Owner[v] \in Tx => Target[v] # Target[w]

OutsiderApart ==
  \A w \in Write : Owner[w] = NoTx =>
    /\ Target[w] \in exists
    /\ ctx # NoTx => Target[w] \in preExisting
    /\ Target[w] \notin touched
    /\ \A t \in Tx : <<t, Target[w]>> \notin held
    /\ orphanOf[w] = NoTx
    /\ stage[w] \in {"applied", "marked", "done"} => w \in mem[Target[w]]

LEMMA InitOutsiderApart == ASSUME Apart PROVE Init => OutsiderApart
BY DEF Init, Apart, OutsiderApart

\* Adding names and handles inside fn() keeps outsiders apart.
LEMMA HandleKeepsOutsiderApart ==
  ASSUME OutsiderApart, NEW t \in Tx, NEW c \in Coll,
         \A w \in Write : Owner[w] = NoTx => Target[w] # c,
         held' \subseteq held \union {<<t, c>>}, exists \subseteq exists',
         UNCHANGED <<ctx, preExisting, touched, mem>>,
         \A w \in Write : Owner[w] = NoTx => stage'[w] = stage[w] /\ orphanOf'[w] = orphanOf[w]
  PROVE  OutsiderApart'
BY DEF OutsiderApart

LEMMA NextOutsiderApart ==
  ASSUME Apart
  PROVE  TypeOK /\ OutsiderApart /\ [Next]_vars => OutsiderApart'
<1> SUFFICES ASSUME TypeOK, OutsiderApart, [Next]_vars PROVE OutsiderApart'
  OBVIOUS
<1>0. \A w \in Write : Target[w] \in Coll /\ Owner[w] \in Tx \union {NoTx}
  OBVIOUS
<1>1. CASE UNCHANGED vars
  BY <1>1 DEF OutsiderApart
<1>2. ASSUME NEW w \in Write, CallOutside(w) PROVE OutsiderApart'
  <2>1. /\ stage' = [stage EXCEPT ![w] = "called"] /\ exists \subseteq exists'
        /\ UNCHANGED <<ctx, preExisting, touched, held, orphanOf, mem>>
    BY <1>2 DEF CallOutside, Call, UseCollection
  <2> QED BY <2>1 DEF OutsiderApart, TypeOK
<1>3. ASSUME NEW w \in Write, Enter(w) PROVE OutsiderApart'
  <2>1. /\ UNCHANGED <<ctx, preExisting, exists, held, orphanOf, mem>>
        /\ \E s \in {"failed", "entered"} : stage' = [stage EXCEPT ![w] = s]
    BY <1>3 DEF Enter, EnterBlocked, EnterDead, EnterAlive
  <2>2. touched' = touched \/ (touched' = touched \union {Target[w]} /\ Participates(w))
    BY <1>3 DEF Enter, EnterBlocked, EnterDead, EnterAlive, Snapshot
  <2>3. \A v \in Write : Owner[v] = NoTx => Target[v] \notin touched'
    <3> SUFFICES ASSUME NEW v \in Write, Owner[v] = NoTx, Participates(w), Target[v] = Target[w]
                 PROVE  FALSE
      BY <2>2 DEF OutsiderApart
    <3> QED BY DEF OutsiderApart, Participates, Stamped, Active, TypeOK
  <2> QED BY <2>1, <2>3 DEF OutsiderApart, TypeOK
<1>4. ASSUME NEW w \in Write, Apply(w) PROVE OutsiderApart'
  <2>1. /\ stage' = [stage EXCEPT ![w] = "applied"]
        /\ UNCHANGED <<ctx, preExisting, touched, exists, held, orphanOf>>
        /\ mem \in [Coll -> SUBSET Write] /\ stage \in [Write -> Stage]
    BY <1>4 DEF Apply, TypeOK
  <2>2. orphanOf[w] = NoTx => mem' = [mem EXCEPT ![Target[w]] = @ \union {w}]
    BY <1>4 DEF Apply
  <2>3. orphanOf[w] # NoTx => mem' = mem
    BY <1>4 DEF Apply
  <2>4. \A v \in Write : v \in mem[Target[v]] => v \in mem'[Target[v]]
    BY <1>0, <2>1, <2>2, <2>3
  <2>5. Owner[w] = NoTx => w \in mem'[Target[w]]
    BY <1>0, <2>1, <2>2 DEF OutsiderApart
  <2> QED BY <2>1, <2>4, <2>5 DEF OutsiderApart
<1>5. ASSUME NEW w \in Write, Refuse(w) \/ MarkDirty(w) \/ Finish(w) PROVE OutsiderApart'
  <2>1. /\ \/ stage' = [stage EXCEPT ![w] = "failed"]
           \/ stage[w] = "applied" /\ stage' = [stage EXCEPT ![w] = "marked"]
           \/ stage[w] = "marked" /\ stage' = [stage EXCEPT ![w] = "done"]
        /\ UNCHANGED <<ctx, preExisting, touched, exists, held, orphanOf, mem>>
    BY <1>5 DEF Refuse, MarkDirty, Finish
  <2> QED BY <2>1 DEF OutsiderApart, TypeOK
<1>6. ASSUME NEW t \in Tx, TxCall(t) \/ Begin(t) PROVE OutsiderApart'
  <2>1. /\ UNCHANGED <<registry, contents, calls>>
        /\ \/ UNCHANGED <<ctx, preExisting, touched>>
           \/ preExisting' = exists /\ touched' = {}
    BY <1>6 DEF TxCall, Begin, EmptyContext
  <2> QED BY <2>1 DEF OutsiderApart
<1>7. ASSUME NEW t \in Tx, NEW c \in Coll, TakeHandle(t, c) PROVE OutsiderApart'
  <2>1. \A w \in Write : Owner[w] = NoTx => Target[w] # c
    BY <1>7 DEF TakeHandle, Apart
  <2>2. /\ held' = held \union {<<t, c>>} /\ exists \subseteq exists'
        /\ UNCHANGED <<ctx, preExisting, touched, mem, stage, orphanOf>>
    BY <1>7 DEF TakeHandle, UseCollection
  <2> QED BY <2>1, <2>2, HandleKeepsOutsiderApart
<1>8. ASSUME NEW t \in Tx, NEW w \in Write, CallInside(t, w) \/ CallStale(t, w)
      PROVE  OutsiderApart'
  <2>1. Owner[w] = t /\ Owner[w] # NoTx /\ Target[w] \in Coll
    BY <1>0, <1>8 DEF CallInside, CallStale
  <2>2. \A v \in Write : Owner[v] = NoTx => Target[v] # Target[w]
    BY <2>1 DEF Apart
  <2>3. /\ held' \subseteq held \union {<<t, Target[w]>>} /\ exists \subseteq exists'
        /\ UNCHANGED <<ctx, preExisting, touched, mem>>
        /\ stage' = [stage EXCEPT ![w] = "called"]
        /\ orphanOf' = orphanOf \/ \E s \in Tx \union {NoTx} : orphanOf' = [orphanOf EXCEPT ![w] = s]
    BY <1>8 DEF CallInside, CallStale, Call, UseCollection
  <2>4. \A v \in Write : Owner[v] = NoTx => stage'[v] = stage[v] /\ orphanOf'[v] = orphanOf[v]
    BY <2>1, <2>3 DEF TypeOK
  <2> QED BY <2>1, <2>2, <2>3, <2>4, HandleKeepsOutsiderApart
<1>9. ASSUME NEW t \in Tx,
             \/ FnSettles(t) \/ TimeoutLate(t)
             \/ CommitWrite(t) \/ CommitLands(t) \/ CommitFails(t)
             \/ \E w \in Write : RunEffect(t, w)
      PROVE  OutsiderApart'
  <2>1. UNCHANGED <<ctx, preExisting, touched, exists, held, orphanOf, stage, mem>>
    BY <1>9 DEF FnSettles, FnResolves, FnThrows, FnEndsLate, TimeoutLate, CommitWrite,
                CommitLands, CommitFails, RunEffect
  <2> QED BY <2>1 DEF OutsiderApart
<1>10. ASSUME NEW t \in Tx, Commit(t) PROVE OutsiderApart'
  <2>1. /\ ctx' = NoTx /\ touched' = {}
        /\ UNCHANGED <<exists, held, orphanOf, stage, mem>>
    BY <1>10 DEF Commit, EndContext, EmptyContext
  <2> QED BY <2>1 DEF OutsiderApart
<1>11. ASSUME NEW t \in Tx, Rollback(t) \/ TimeoutRollsBack(t) PROVE OutsiderApart'
  <2>1. /\ ctx' = NoTx /\ touched' = {} /\ Restore
        /\ UNCHANGED <<held, stage>>
    BY <1>11 DEF Rollback, TimeoutRollsBack, EndContext, EmptyContext
  <2>2. ctx # NoTx
    BY <1>11 DEF Rollback, TimeoutRollsBack, TypeOK, InTransaction
  <2>3. \A w \in Write : Owner[w] = NoTx =>
          /\ Target[w] \in exists'
          /\ orphanOf'[w] = orphanOf[w]
          /\ mem'[Target[w]] = mem[Target[w]]
    BY <1>0, <2>1, <2>2 DEF Restore, OutsiderApart
  <2> QED BY <2>1, <2>3 DEF OutsiderApart
<1> QED BY <1>1, <1>2, <1>3, <1>4, <1>5, <1>6, <1>7, <1>8, <1>9, <1>10, <1>11
        DEF Next, WriteProgress, TxProgress

\* Transactions that stay away from a collection never undo a mutation of it,
\* commit, roll back or time out as they may, with no discipline asked of fn().
THEOREM OutsidersSurvive ==
  ASSUME Apart
  PROVE  Spec => []OutsiderSurvives
<1>1. OutsiderApart => OutsiderSurvives
  BY DEF OutsiderApart, OutsiderSurvives
<1> QED BY <1>1, InitTypeOK, NextTypeOK, InitOutsiderApart, NextOutsiderApart, PTL DEF Spec

=============================================================================
