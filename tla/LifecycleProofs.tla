--------------------------- MODULE LifecycleProofs ---------------------------
(* Theorems about Lifecycle, for any calls of clients and any number of      *)
(* migrations.                                                               *)
EXTENDS Lifecycle, SequenceTheorems, TLAPS

USE LifecycleAssumption

\* The tuples of variables, and the sets of clients.
USE DEF vars, connection, txs, clients, memory, storage, Client, Version

-----------------------------------------------------------------------------
(* The invariants. *)

\* Who awaits connect() in a transaction, or has a context, holds the lock.
LockHeld ==
  /\ \A c \in TxClient : call[c] \in {"awaiting", "ready", "open"} => Holds(c)
  /\ \A c \in TxClient : call[c] = "open" <=> ctx = c
  /\ boot \in {"inTx", "saving"} <=> ctx = Boot

\* One disconnect() at a time, of a database that is connected; what it
\* serialised has the migrations that storage lists.
ClosingSaves ==
  \A c \in Client : call[c] = "closing" =>
    /\ c \in Closer
    /\ isConnected
    /\ image \intersect Version = diskApplied
    /\ \A d \in Closer : call[d] = "closing" => d = c

\* Storage has a first part of the migrations, each committed once.
StoredInOrder ==
  /\ \E k \in 0 .. LastVersion : diskApplied = 1 .. k
  /\ disk \intersect Version = diskApplied
  /\ runs = [v \in Version |-> IF v \in diskApplied THEN 1 ELSE 0]
  /\ isConnected => diskApplied = Version

\* The loop of run() goes on from what storage has; memory is ahead of it by
\* the migration that is being saved.
BootFollowsStorage ==
  /\ Bootstrapping => taken = diskApplied
  /\ boot \in {"queued", "inTx", "saving"} => Pending # {}
  /\ boot \in {"migrating", "queued", "inTx"} \/ isConnected =>
       applied = diskApplied /\ mem \intersect Version = diskApplied
  /\ boot \in {"off", "loading"} => mem \intersect Version \subseteq diskApplied
  /\ boot = "saving" =>
       /\ applied = taken \union {Min(Pending)}
       /\ mem \intersect Version = taken \union {Min(Pending)}

LInv ==
  /\ LockHeld
  /\ ClosingSaves
  /\ StoredInOrder
  /\ BootFollowsStorage

LEMMA InitTypeOK == Init => TypeOK /\ LInv
<1> SUFFICES ASSUME Init PROVE TypeOK /\ LInv
  OBVIOUS
<1>1. TypeOK
  <2>1. call \in [Client -> CallState] /\ boot \in BootState
    BY DEF Init, BootState, CallState
  <2>2. lock \in Seq(TxClient \union {Boot}) /\ ctx = NoTx
    BY DEF Init
  <2>3. runs \in [Version -> Nat]
    BY DEF Init
  <2> QED BY <2>1, <2>2, <2>3 DEF Init, TypeOK
<1>2. LockHeld /\ ClosingSaves
  BY DEF Init, LockHeld, ClosingSaves
<1>3. StoredInOrder
  <2>1. 0 \in 0 .. LastVersion /\ {} = 1 .. 0
    OBVIOUS
  <2> QED BY <2>1 DEF Init, StoredInOrder
<1>4. BootFollowsStorage
  BY DEF Init, BootFollowsStorage, Bootstrapping
<1> QED BY <1>1, <1>2, <1>3, <1>4 DEF LInv

-----------------------------------------------------------------------------
(* Lemmas on the lock and on the answer of connect(). *)

\* Who joins the lock leaves its holder.
LEMMA AppendKeepsHolder ==
  ASSUME TypeOK, NEW e \in TxClient \union {Boot}, lock' = Append(lock, e)
  PROVE  /\ lock' \in Seq(TxClient \union {Boot})
         /\ \A c : Holds(c) => Holds(c)'
<1>1. lock \in Seq(TxClient \union {Boot})
  BY DEF TypeOK
<1>2. /\ lock' \in Seq(TxClient \union {Boot}) /\ Len(lock') = Len(lock) + 1
      /\ \A i \in 1 .. Len(lock) : lock'[i] = lock[i]
  BY <1>1, AppendProperties
<1>3. ASSUME NEW c, Holds(c) PROVE Holds(c)'
  <2>1. Len(lock) >= 1 /\ Head(lock) = lock[1]
    BY <1>1, <1>3 DEF Holds
  <2>2. lock' # <<>> /\ Head(lock') = lock'[1]
    BY <1>1, <1>2, <2>1
  <2> QED BY <1>2, <1>3, <2>1, <2>2 DEF Holds
<1> QED BY <1>2, <1>3

LEMMA TailType ==
  ASSUME TypeOK, lock # <<>>, lock' = Tail(lock)
  PROVE  lock' \in Seq(TxClient \union {Boot})
BY HeadTailProperties DEF TypeOK

\* Whoever awaited connect() goes on or fails; nobody else notices.
LEMMA AnswerType ==
  ASSUME TypeOK, NEW connected \in BOOLEAN, AnswerAwaiting(connected)
  PROVE  /\ call' \in [Client -> CallState]
         /\ \A c \in Client : call[c] # "awaiting" => call'[c] = call[c]
         /\ \A c \in Client : call[c] = "awaiting" =>
              call'[c] = (IF ~connected THEN "failed"
                          ELSE IF c \in Connector THEN "done" ELSE "ready")
<1>1. ASSUME NEW c \in Client
      PROVE  /\ call[c] # "awaiting" => call'[c] = call[c]
             /\ call[c] = "awaiting" =>
                  call'[c] = (IF ~connected THEN "failed"
                              ELSE IF c \in Connector THEN "done" ELSE "ready")
  BY DEF AnswerAwaiting
<1>2. call' = [c \in Client |-> call'[c]] /\ call \in [Client -> CallState]
  BY DEF AnswerAwaiting, TypeOK
<1>3. call' \in [Client -> CallState]
  BY <1>1, <1>2 DEF CallState, Ended
<1> QED BY <1>1, <1>3

\* ensureConnected() and connect(): the call awaits, or goes on.
LEMMA EnsureType ==
  ASSUME TypeOK, NEW c \in Client, EnsureConnected(c) \/ (~isConnected /\ Join(c))
  PROVE  /\ \E s \in {"ready", "awaiting"} : call' = [call EXCEPT ![c] = s]
         /\ call' \in [Client -> CallState]
         /\ boot' \in BootState /\ (boot' = boot \/ (boot = "off" /\ boot' = "loading"))
         /\ isConnected => boot' = boot
BY DEF EnsureConnected, Join, Ensured, TypeOK, CallState, BootState

\* While a migration is under way, the next one is the first that storage does
\* not have.
LEMMA FirstMissing ==
  ASSUME NEW k \in 0 .. LastVersion, NEW S, S = 1 .. k, Version \ S # {}
  PROVE  Min(Version \ S) = k + 1 /\ k + 1 \in Version
<1>1. k < LastVersion
  OBVIOUS
<1>2. k + 1 \in Version \ S /\ \A y \in Version \ S : k + 1 =< y
  BY <1>1
<1>3. \A x \in Version \ S : (\A y \in Version \ S : x =< y) => x = k + 1
  BY <1>2
<1>4. Min(Version \ S) = CHOOSE x \in Version \ S : \A y \in Version \ S : x =< y
  BY DEF Min
<1> QED BY <1>2, <1>3, <1>4

LEMMA PendingMin ==
  ASSUME TypeOK, StoredInOrder, BootFollowsStorage, boot \in {"queued", "inTx", "saving"}
  PROVE  /\ taken = diskApplied
         /\ \E k \in 0 .. LastVersion :
              taken = 1 .. k /\ Min(Pending) = k + 1 /\ k + 1 \in Version
         /\ Min(Pending) \in Version \ taken
<1>1. taken = diskApplied /\ Pending # {}
  BY DEF BootFollowsStorage, Bootstrapping, BootState
<1>2. PICK k \in 0 .. LastVersion : taken = 1 .. k
  BY <1>1 DEF StoredInOrder
<1>3. Min(Pending) = k + 1 /\ k + 1 \in Version
  BY <1>1, <1>2, FirstMissing DEF Pending
<1> QED BY <1>1, <1>2, <1>3

-----------------------------------------------------------------------------
(* Types, and who has the lock. *)

\* Calls, and what they do, keep the types and the lock.
LEMMA ClientKeepsLock ==
  ASSUME TypeOK, LockHeld, NEW c \in Client, Call(c) \/ ClientStep(c)
  PROVE  TypeOK' /\ LockHeld'
<1>0. call \in [Client -> CallState] /\ lock \in Seq(TxClient \union {Boot})
  BY DEF TypeOK
<1>1. CASE Connect(c) \/ WriteCall(c)
  <2>1. /\ \E s \in {"ready", "awaiting", "done"} : call' = [call EXCEPT ![c] = s]
        /\ c \notin TxClient
        /\ call' \in [Client -> CallState]
        /\ boot' \in BootState /\ (boot' = boot \/ (boot = "off" /\ boot' = "loading"))
        /\ isConnected => boot' = boot
        /\ UNCHANGED <<isConnected, taken, txs, stale, memory, storage, image, runs, connectFirst>>
    <3>1. CASE Connect(c) /\ isConnected
      BY <3>1 DEF Connect, TypeOK, CallState, Ended, Call, ClientStep
    <3>2. CASE ~(Connect(c) /\ isConnected)
      BY <1>1, <3>2, EnsureType DEF Connect, WriteCall, Call, ClientStep
    <3> QED BY <3>1, <3>2
  <2>2. TypeOK'
    BY <2>1 DEF TypeOK, Holds
  <2>3. LockHeld'
    BY <1>0, <2>1 DEF LockHeld, Holds
  <2> QED BY <2>2, <2>3
<1>2. CASE Write(c)
  <2>1. /\ call' = [call EXCEPT ![c] = "done"] /\ c \notin TxClient
        /\ mem' \subseteq mem \union {c}
        /\ UNCHANGED <<connection, txs, stale, applied, storage, image, runs, connectFirst>>
    BY <1>2 DEF Write, Call, ClientStep
  <2>2. TypeOK'
    BY <2>1 DEF TypeOK, Holds, CallState, Ended
  <2>3. LockHeld'
    BY <1>0, <2>1 DEF LockHeld, Holds
  <2> QED BY <2>2, <2>3
<1>3. CASE TxCall(c)
  <2>1. /\ \E s \in {"failed", "queued"} : call' = [call EXCEPT ![c] = s]
        /\ call[c] = "idle"
        /\ lock' = lock \/ lock' = Append(lock, c)
        /\ c \in TxClient
        /\ UNCHANGED <<connection, ctx, stale, memory, storage, image, runs, connectFirst>>
    BY <1>3 DEF TxCall, Call, ClientStep
  <2>2. lock' \in Seq(TxClient \union {Boot}) /\ \A d : Holds(d) => Holds(d)'
    <3>1. CASE lock' = lock
      BY <1>0, <3>1 DEF Holds
    <3>2. CASE lock' = Append(lock, c)
      BY <2>1, <3>2, AppendKeepsHolder
    <3> QED BY <2>1, <3>1, <3>2
  <2>3. TypeOK'
    BY <2>1, <2>2 DEF TypeOK, CallState, Ended
  <2>4. LockHeld'
    BY <1>0, <2>1, <2>2 DEF LockHeld
  <2> QED BY <2>3, <2>4
<1>4. CASE TxEnsure(c)
  <2>1. /\ \E s \in {"ready", "awaiting"} : call' = [call EXCEPT ![c] = s]
        /\ call[c] = "queued" /\ Holds(c)
        /\ call' \in [Client -> CallState]
        /\ boot' \in BootState /\ (boot' = boot \/ (boot = "off" /\ boot' = "loading"))
        /\ isConnected => boot' = boot
        /\ UNCHANGED <<isConnected, taken, txs, stale, memory, storage, image, runs, connectFirst>>
    BY <1>4, EnsureType DEF TxEnsure, Call, ClientStep
  <2>2. TypeOK'
    BY <2>1 DEF TypeOK, Holds
  <2>3. LockHeld'
    BY <1>0, <2>1 DEF LockHeld, Holds
  <2> QED BY <2>2, <2>3
<1>5. CASE TxOpen(c)
  <2>1. /\ call' = [call EXCEPT ![c] = "open"] /\ call[c] = "ready" /\ ctx' = c
        /\ c \in TxClient /\ Holds(c)
        /\ UNCHANGED <<connection, lock, stale, memory, storage, image, runs, connectFirst>>
    BY <1>5 DEF TxOpen, Call, ClientStep, LockHeld
  <2>2. ctx = NoTx
    BY <2>1 DEF LockHeld, TypeOK, Holds
  <2>3. TypeOK'
    BY <2>1 DEF TypeOK, Holds, CallState
  <2>4. LockHeld'
    BY <1>0, <2>1, <2>2 DEF LockHeld, Holds
  <2> QED BY <2>3, <2>4
<1>6. CASE TxCommits(c) \/ TxAborts(c)
  <2>1. /\ \E s \in {"done", "failed"} : call' = [call EXCEPT ![c] = s]
        /\ call[c] = "open" /\ c \in TxClient
        /\ mem' \subseteq mem \union {c} /\ disk' \subseteq disk \union {c}
        /\ ctx' = NoTx /\ lock' = Tail(lock)
        /\ UNCHANGED <<connection, stale, applied, diskApplied, image, runs, connectFirst>>
    BY <1>6 DEF TxCommits, TxAborts, Release, Call, ClientStep
  <2>2. Holds(c) /\ ctx = c
    BY <2>1 DEF LockHeld
  <2>3. lock' \in Seq(TxClient \union {Boot})
    BY <2>1, <2>2, TailType DEF Holds
  <2>4. TypeOK'
    BY <2>1, <2>3 DEF TypeOK, CallState, Ended
  <2>5. LockHeld'
    BY <1>0, <2>1, <2>2 DEF LockHeld, Holds
  <2> QED BY <2>4, <2>5
<1>7. CASE DisconnectCall(c) \/ DisconnectLands(c) \/ DisconnectFails(c)
  <2>1. /\ \E s \in {"closing", "done", "failed"} : call' = [call EXCEPT ![c] = s]
        /\ call[c] \in {"idle", "closing"}
        /\ isConnected' \in BOOLEAN /\ (isConnected' => isConnected)
        /\ stale' \subseteq Writer
        /\ mem' \in {mem, {}} /\ disk' \in {disk, image} /\ image' \in {image, mem}
        /\ applied' \in {applied, {}} /\ diskApplied' \in {diskApplied, applied}
        /\ UNCHANGED <<boot, taken, txs, runs, connectFirst>>
    <3>1. CASE DisconnectCall(c)
      BY <3>1 DEF DisconnectCall, TypeOK, Call, ClientStep
    <3>2. CASE DisconnectLands(c)
      BY <3>2 DEF DisconnectLands, Saved, Clear, TypeOK, Call, ClientStep
    <3>3. CASE DisconnectFails(c)
      BY <3>3 DEF DisconnectFails, TypeOK, Call, ClientStep
    <3> QED BY <1>7, <3>1, <3>2, <3>3
  <2>2. TypeOK'
    BY <2>1 DEF TypeOK, CallState, Ended, Holds
  <2>3. LockHeld'
    BY <1>0, <2>1 DEF LockHeld, Holds
  <2> QED BY <2>2, <2>3
<1> QED BY <1>1, <1>2, <1>3, <1>4, <1>5, <1>6, <1>7 DEF Call, ClientStep

\* So does connect() itself.
LEMMA BootKeepsLock ==
  ASSUME TypeOK, LockHeld, StoredInOrder, BootFollowsStorage, BootStep
  PROVE  TypeOK' /\ LockHeld'
<1>0. call \in [Client -> CallState] /\ lock \in Seq(TxClient \union {Boot})
  BY DEF TypeOK
<1>1. ASSUME NEW behind, RunNext(behind), boot \in {"loading", "migrating"}, ctx' = ctx
      PROVE  /\ call' \in [Client -> CallState] /\ lock' \in Seq(TxClient \union {Boot})
             /\ boot' \in {"queued", "off"} /\ isConnected' \in BOOLEAN
             /\ isConnected' => boot' = "off"
             /\ ctx # NoTx => Holds(ctx)'
             /\ LockHeld'
  <2>0. ctx # Boot /\ ~isConnected
    BY <1>1 DEF LockHeld, TypeOK
  <2>1. CASE RunInTx(behind)
    <3>1. /\ ctx = NoTx /\ lock' = Append(lock, Boot) /\ boot' = "queued"
          /\ UNCHANGED <<isConnected, call>>
      BY <2>1 DEF RunInTx
    <3>2. lock' \in Seq(TxClient \union {Boot}) /\ \A c : Holds(c) => Holds(c)'
      BY <3>1, AppendKeepsHolder
    <3>3. LockHeld'
      BY <1>1, <2>0, <3>1, <3>2 DEF LockHeld
    <3> QED BY <1>0, <2>0, <3>1, <3>2, <3>3 DEF TypeOK
  <2>2. CASE RunInTxRefused(behind)
    <3>1. ctx # NoTx /\ boot' = "off" /\ AnswerAwaiting(FALSE) /\ UNCHANGED <<isConnected, lock>>
      BY <2>2 DEF RunInTxRefused, ConnectFails
    <3>2. /\ call' \in [Client -> CallState]
          /\ \A c \in Client : call'[c] = call[c] \/ (call[c] = "awaiting" /\ call'[c] = "failed")
      BY <3>1, AnswerType
    <3>3. LockHeld'
      BY <1>0, <1>1, <2>0, <3>1, <3>2 DEF LockHeld, Holds
    <3> QED BY <1>0, <1>1, <2>0, <3>1, <3>2, <3>3 DEF TypeOK, Holds
  <2>3. CASE Connected(behind)
    <3>1. boot' = "off" /\ isConnected' = TRUE /\ AnswerAwaiting(TRUE) /\ lock' = lock
      BY <2>3 DEF Connected
    <3>2. /\ call' \in [Client -> CallState]
          /\ \A c \in TxClient : call'[c] = call[c] \/ (call[c] = "awaiting" /\ call'[c] = "ready")
      BY <3>1, AnswerType
    <3>3. LockHeld'
      BY <1>0, <1>1, <2>0, <3>1, <3>2 DEF LockHeld, Holds
    <3> QED BY <1>0, <1>1, <2>0, <3>1, <3>2, <3>3 DEF TypeOK, Holds
  <2> QED BY <1>1, <2>1, <2>2, <2>3 DEF RunNext
<1>2. CASE LoadLands
  <2>1. /\ boot = "loading" /\ RunNext(diskApplied)
        /\ mem' = mem \union disk /\ applied' = diskApplied /\ taken' = diskApplied
        /\ UNCHANGED <<ctx, stale, storage, image, runs, connectFirst>>
    BY <1>2 DEF LoadLands, BootStep
  <2>2. TypeOK'
    BY <1>1, <2>1 DEF TypeOK, BootState
  <2> QED BY <1>1, <2>1, <2>2
<1>3. CASE RunResumes
  <2>1. /\ boot = "migrating" /\ RunNext(taken)
        /\ UNCHANGED <<taken, ctx, stale, memory, storage, image, runs, connectFirst>>
    BY <1>3 DEF RunResumes, BootStep
  <2>2. TypeOK'
    BY <1>1, <2>1 DEF TypeOK, BootState
  <2> QED BY <1>1, <2>1, <2>2
<1>4. CASE LoadFails
  <2>1. /\ boot = "loading" /\ boot' = "off" /\ AnswerAwaiting(FALSE)
        /\ lock' = IF lock # <<>> /\ Awaiting(Head(lock)) THEN Tail(lock) ELSE lock
        /\ UNCHANGED <<isConnected, taken, ctx, stale, memory, storage, image, runs, connectFirst>>
    BY <1>4 DEF LoadFails, ConnectFails, BootStep
  <2>2. /\ call' \in [Client -> CallState]
        /\ \A c \in Client : call'[c] = call[c] \/ (call[c] = "awaiting" /\ call'[c] = "failed")
        /\ \A c \in Client : call[c] # "awaiting" => call'[c] = call[c]
        /\ \A c \in Client : call'[c] # "awaiting"
    BY <2>1, AnswerType
  <2>3. CASE lock # <<>> /\ Awaiting(Head(lock))
    <3>1. lock' = Tail(lock) /\ lock' \in Seq(TxClient \union {Boot})
      BY <2>1, <2>3, TailType
    <3>2. ctx = NoTx
      BY <2>1, <2>3 DEF LockHeld, TypeOK, Holds, Awaiting
    <3>3. \A c \in TxClient : call'[c] \notin {"awaiting", "ready", "open"}
      BY <1>0, <2>2, <2>3 DEF LockHeld, Awaiting, Holds
    <3>4. TypeOK'
      BY <2>1, <2>2, <3>1, <3>2 DEF TypeOK, BootState
    <3>5. LockHeld'
      BY <2>1, <3>2, <3>3 DEF LockHeld
    <3> QED BY <3>4, <3>5
  <2>4. CASE ~(lock # <<>> /\ Awaiting(Head(lock)))
    <3>1. lock' = lock
      BY <2>1, <2>4
    <3>2. TypeOK'
      BY <2>1, <2>2, <3>1 DEF TypeOK, BootState, Holds
    <3>3. LockHeld'
      BY <1>0, <2>1, <2>2, <3>1 DEF LockHeld, Holds
    <3> QED BY <3>2, <3>3
  <2> QED BY <2>3, <2>4
<1>5. CASE MigrationBegins
  <2>1. /\ boot = "queued" /\ Holds(Boot) /\ ctx' = Boot /\ boot' = "inTx"
        /\ UNCHANGED <<isConnected, taken, lock, clients, memory, storage, image, runs, connectFirst>>
    BY <1>5 DEF MigrationBegins, BootStep
  <2>2. \A c \in TxClient : call[c] \notin {"awaiting", "ready", "open"}
    BY <2>1 DEF LockHeld, Holds
  <2>3. TypeOK'
    BY <2>1 DEF TypeOK, BootState, Holds
  <2>4. LockHeld'
    BY <2>1, <2>2 DEF LockHeld, Holds
  <2> QED BY <2>3, <2>4
<1>6. CASE Up
  <2>1. /\ boot = "inTx" /\ boot' = "saving"
        /\ mem' = mem \union {Min(Pending)} /\ applied' = taken \union {Min(Pending)}
        /\ UNCHANGED <<isConnected, taken, txs, clients, storage, image, runs, connectFirst>>
    BY <1>6 DEF Up, RecordApplied, BootStep
  <2>2. Min(Pending) \in Version
    BY <2>1, PendingMin
  <2>3. TypeOK'
    BY <2>1, <2>2 DEF TypeOK, BootState, Holds
  <2>4. LockHeld'
    BY <2>1 DEF LockHeld, Holds
  <2> QED BY <2>3, <2>4
<1>7. CASE MigrationCommits \/ MigrationFails
  <2>1. /\ boot \in {"inTx", "saving"} /\ ctx' = NoTx /\ lock' = Tail(lock)
        /\ boot' \in {"migrating", "off"}
        /\ UNCHANGED <<isConnected, stale, image, connectFirst>>
    BY <1>7 DEF MigrationCommits, MigrationFails, ConnectFails, Release, BootStep
  <2>2. ctx = Boot /\ Holds(Boot) /\ ~isConnected
    BY <2>1 DEF LockHeld, TypeOK
  <2>3. lock' \in Seq(TxClient \union {Boot})
    BY <2>1, <2>2, TailType DEF Holds
  <2>4. \A c \in TxClient : call[c] \notin {"awaiting", "ready", "open"}
    BY <2>2 DEF LockHeld, Holds
  <2>5. call' = call \/ AnswerAwaiting(FALSE)
    BY <1>7 DEF MigrationCommits, MigrationFails, ConnectFails, BootStep
  <2>6. call' \in [Client -> CallState] /\ \A c \in TxClient : call'[c] = call[c]
    BY <1>0, <2>4, <2>5, AnswerType
  <2>7. Min(Pending) \in Version
    BY <2>1, PendingMin
  <2>8. /\ mem' \subseteq Client \union Version /\ applied' \subseteq Version
        /\ disk' \subseteq Client \union Version /\ diskApplied' \subseteq Version
        /\ taken' \subseteq Version /\ runs' \in [Version -> Nat]
    <3>1. CASE MigrationCommits
      <4>1. runs' = [runs EXCEPT ![Min(Pending)] = @ + 1] /\ runs \in [Version -> Nat]
        BY <3>1 DEF MigrationCommits, TypeOK
      <4>2. runs' \in [Version -> Nat]
        BY <2>7, <4>1
      <4> QED BY <2>7, <3>1, <4>2 DEF MigrationCommits, CommitVersion, TypeOK
    <3>2. CASE MigrationFails
      BY <3>2 DEF MigrationFails, TypeOK
    <3> QED BY <1>7, <3>1, <3>2
  <2>9. TypeOK'
    BY <2>1, <2>2, <2>3, <2>6, <2>8 DEF TypeOK, BootState
  <2>10. LockHeld'
    BY <2>1, <2>4, <2>6 DEF LockHeld
  <2> QED BY <2>9, <2>10
<1> QED BY <1>2, <1>3, <1>4, <1>5, <1>6, <1>7 DEF BootStep

LEMMA NextKeepsLock ==
  TypeOK /\ LInv /\ [Next]_vars => TypeOK' /\ LockHeld'
<1> SUFFICES ASSUME TypeOK, LInv, [Next]_vars PROVE TypeOK' /\ LockHeld'
  OBVIOUS
<1>1. CASE UNCHANGED vars
  BY <1>1 DEF TypeOK, LInv, LockHeld, Holds
<1>2. CASE Next
  BY <1>2, ClientKeepsLock, BootKeepsLock DEF Next, LInv
<1> QED BY <1>1, <1>2

-----------------------------------------------------------------------------
(* What storage has, and what memory has beyond it. *)

\* Nothing that the properties of storage depend on changes.
LEMMA UnchangedStorage ==
  ASSUME StoredInOrder, BootFollowsStorage,
         UNCHANGED <<diskApplied, applied, runs, isConnected, taken>>,
         disk' \intersect Version = disk \intersect Version,
         mem' \intersect Version = mem \intersect Version,
         boot' = boot \/ {boot, boot'} \subseteq {"off", "loading"}
  PROVE  StoredInOrder' /\ BootFollowsStorage'
<1>1. StoredInOrder'
  BY DEF StoredInOrder
<1>2. BootFollowsStorage'
  BY DEF BootFollowsStorage, Bootstrapping, BootState, Pending
<1> QED BY <1>1, <1>2

LEMMA ClientKeepsStorage ==
  ASSUME TypeOK, LInv, NEW c \in Client, Call(c) \/ ClientStep(c)
  PROVE  ClosingSaves' /\ StoredInOrder' /\ BootFollowsStorage'
<1> USE DEF LInv
<1>0. call \in [Client -> CallState] /\ c \notin Version /\ \A v \in Version : v \notin Client
  BY DEF TypeOK
<1>1. CASE \/ Connect(c) \/ WriteCall(c) \/ Write(c) \/ TxCall(c) \/ TxEnsure(c)
           \/ TxOpen(c) \/ TxCommits(c) \/ TxAborts(c)
  <2>1. /\ \E s \in CallState \ {"closing"} : call' = [call EXCEPT ![c] = s]
        /\ boot' = boot \/ (boot = "off" /\ boot' = "loading")
        /\ mem' \subseteq mem \union {c} /\ mem \subseteq mem'
        /\ disk' \subseteq disk \union {c} /\ disk \subseteq disk'
        /\ UNCHANGED <<isConnected, taken, applied, diskApplied, image, runs>>
    <3>1. CASE Connect(c) \/ WriteCall(c) \/ TxEnsure(c)
      <4>1. \E s \in {"ready", "awaiting", "done"} : call' = [call EXCEPT ![c] = s]
        BY <3>1, EnsureType DEF Connect, WriteCall, TxEnsure, Join
      <4>2. boot' = boot \/ (boot = "off" /\ boot' = "loading")
        BY <3>1, EnsureType DEF Connect, WriteCall, TxEnsure, Join
      <4> QED BY <3>1, <4>1, <4>2 DEF Connect, WriteCall, TxEnsure, CallState, Ended
    <3>2. CASE Write(c) \/ TxCall(c)
      BY <3>2 DEF Write, TxCall, CallState, Ended
    <3>3. CASE TxOpen(c) \/ TxCommits(c) \/ TxAborts(c)
      BY <3>3 DEF TxOpen, TxCommits, TxAborts, CallState, Ended
    <3> QED BY <1>1, <3>1, <3>2, <3>3
  <2>2. StoredInOrder' /\ BootFollowsStorage'
    <3>1. mem' \intersect Version = mem \intersect Version
      BY <1>0, <2>1
    <3>2. disk' \intersect Version = disk \intersect Version
      BY <1>0, <2>1
    <3> QED BY <1>0, <2>1, <3>1, <3>2, UnchangedStorage
  <2>3. ClosingSaves'
    BY <1>0, <2>1 DEF ClosingSaves
  <2> QED BY <2>2, <2>3
<1>2. CASE DisconnectCall(c)
  <2>1. /\ c \in Closer /\ isConnected /\ ~Closing
        /\ call' = [call EXCEPT ![c] = "closing"] /\ image' = mem
        /\ UNCHANGED <<connection, txs, stale, memory, storage, runs>>
    BY <1>2 DEF DisconnectCall
  <2>2. StoredInOrder' /\ BootFollowsStorage'
    BY <1>0, <2>1, UnchangedStorage
  <2>3. mem \intersect Version = diskApplied
    BY <2>1 DEF BootFollowsStorage
  <2>4. ClosingSaves'
    BY <1>0, <2>1, <2>3 DEF ClosingSaves, Closing
  <2> QED BY <2>2, <2>4
<1>3. CASE DisconnectLands(c)
  <2>1. /\ call' = [call EXCEPT ![c] = "done"] /\ call[c] = "closing"
        /\ disk' = image /\ diskApplied' = applied
        /\ mem' = {} /\ applied' = {} /\ isConnected' = FALSE
        /\ UNCHANGED <<boot, taken, txs, image, runs>>
    BY <1>3 DEF DisconnectLands, Saved, Clear
  <2>2. /\ c \in Closer /\ isConnected /\ boot = "off"
        /\ image \intersect Version = diskApplied /\ applied = diskApplied
    BY <2>1 DEF ClosingSaves, BootFollowsStorage, TypeOK
  <2>3. StoredInOrder'
    BY <2>1, <2>2 DEF StoredInOrder
  <2>4. BootFollowsStorage'
    BY <2>1, <2>2 DEF BootFollowsStorage, Bootstrapping
  <2>5. ClosingSaves'
    BY <1>0, <2>1, <2>2 DEF ClosingSaves
  <2> QED BY <2>3, <2>4, <2>5
<1>4. CASE DisconnectFails(c)
  <2>1. /\ call' = [call EXCEPT ![c] = "failed"]
        /\ UNCHANGED <<connection, txs, stale, memory, storage, image, runs>>
    BY <1>4 DEF DisconnectFails
  <2>2. StoredInOrder' /\ BootFollowsStorage'
    BY <1>0, <2>1, UnchangedStorage
  <2>3. ClosingSaves'
    BY <1>0, <2>1 DEF ClosingSaves
  <2> QED BY <2>2, <2>3
<1> QED BY <1>1, <1>2, <1>3, <1>4 DEF Call, ClientStep

LEMMA BootKeepsStorage ==
  ASSUME TypeOK, LInv, BootStep
  PROVE  ClosingSaves' /\ StoredInOrder' /\ BootFollowsStorage'
<1> USE DEF LInv
<1>0. call \in [Client -> CallState] /\ \A v \in Version : v \notin Client
  BY DEF TypeOK
<1>1. boot # "off" /\ ~isConnected
  BY DEF BootStep, LoadLands, LoadFails, RunResumes, MigrationBegins, Up, MigrationCommits,
         MigrationFails, TypeOK
<1>2. ClosingSaves'
  <2>1. \A c \in Client : call[c] # "closing"
    BY <1>1 DEF ClosingSaves
  <2>2. call' = call \/ \E b \in BOOLEAN : AnswerAwaiting(b)
    BY DEF BootStep, LoadLands, LoadFails, RunResumes, MigrationBegins, Up, MigrationCommits,
           MigrationFails, RunNext, RunInTx, RunInTxRefused, Connected, ConnectFails
  <2>3. \A c \in Client : call'[c] # "closing"
    BY <2>1, <2>2, AnswerType
  <2> QED BY <2>3 DEF ClosingSaves
<1>3. ASSUME RunNext(diskApplied), mem' \intersect Version = diskApplied,
             applied' = diskApplied, taken' = diskApplied,
             UNCHANGED <<disk, diskApplied, runs>>
      PROVE  StoredInOrder' /\ BootFollowsStorage'
  <2>1. /\ boot' \in {"queued", "off"}
        /\ boot' = "queued" => Version \ diskApplied # {} /\ isConnected' = isConnected
        /\ isConnected' => isConnected \/ Version \ diskApplied = {}
    <3>1. CASE RunInTx(diskApplied)
      BY <3>1 DEF RunInTx
    <3>2. CASE RunInTxRefused(diskApplied)
      BY <1>1, <3>2 DEF RunInTxRefused, ConnectFails
    <3>3. CASE Connected(diskApplied)
      BY <3>3 DEF Connected
    <3> QED BY <1>3, <3>1, <3>2, <3>3 DEF RunNext
  <2>2. diskApplied \subseteq Version
    BY DEF TypeOK
  <2>3. StoredInOrder'
    BY <1>1, <1>3, <2>1, <2>2 DEF StoredInOrder
  <2>4. BootFollowsStorage'
    BY <1>3, <2>1 DEF BootFollowsStorage, Bootstrapping, Pending
  <2> QED BY <2>3, <2>4
<1>4. CASE LoadLands
  <2>1. mem \intersect Version \subseteq diskApplied /\ disk \intersect Version = diskApplied
    BY <1>4 DEF LoadLands, BootFollowsStorage, StoredInOrder
  <2>2. mem' \intersect Version = diskApplied
    BY <1>4, <2>1 DEF LoadLands
  <2> QED BY <1>2, <1>3, <1>4, <2>2 DEF LoadLands
<1>5. CASE RunResumes
  <2>1. taken = diskApplied /\ applied = diskApplied /\ mem \intersect Version = diskApplied
    BY <1>5 DEF RunResumes, BootFollowsStorage, Bootstrapping, BootState
  <2> QED BY <1>2, <1>3, <1>5, <2>1 DEF RunResumes
<1>6. CASE LoadFails
  <2>1. boot = "loading" /\ boot' = "off"
        /\ UNCHANGED <<isConnected, taken, ctx, stale, memory, storage, image, runs>>
    BY <1>6 DEF LoadFails, ConnectFails
  <2> QED BY <1>0, <1>2, <2>1, UnchangedStorage
<1>7. CASE MigrationBegins
  <2>1. /\ boot = "queued" /\ boot' = "inTx"
        /\ UNCHANGED <<isConnected, taken, lock, clients, memory, storage, image, runs>>
    BY <1>7 DEF MigrationBegins
  <2>2. StoredInOrder'
    BY <2>1 DEF StoredInOrder
  <2>3. BootFollowsStorage'
    BY <2>1 DEF BootFollowsStorage, Bootstrapping, BootState, Pending
  <2> QED BY <1>2, <2>2, <2>3
<1>8. CASE Up
  <2> DEFINE v == Min(Pending)
  <2>1. /\ boot = "inTx" /\ boot' = "saving"
        /\ mem' = mem \union {v} /\ applied' = taken \union {v}
        /\ UNCHANGED <<isConnected, taken, txs, clients, storage, image, runs>>
    BY <1>8 DEF Up, RecordApplied
  <2>2. v \in Version /\ taken = diskApplied /\ Pending # {} /\ Pending' = Pending
    BY <2>1, PendingMin DEF Pending
  <2>3. StoredInOrder'
    BY <2>1 DEF StoredInOrder
  <2>4. mem' \intersect Version = taken \union {v}
    BY <2>1, <2>2 DEF BootFollowsStorage
  <2>5. BootFollowsStorage'
    BY <1>1, <2>1, <2>2, <2>4 DEF BootFollowsStorage
  <2> QED BY <1>2, <2>3, <2>5
<1>9. CASE MigrationCommits
  <2> DEFINE v == Min(Pending)
  <2>1. /\ boot = "saving" /\ boot' = "migrating"
        /\ disk' = disk \union {v} /\ diskApplied' = applied
        /\ runs' = [runs EXCEPT ![v] = @ + 1] /\ taken' = taken \union {v}
        /\ UNCHANGED <<isConnected, clients, memory, image>>
    BY <1>9 DEF MigrationCommits, CommitVersion
  <2>2. PICK k \in 0 .. LastVersion : taken = 1 .. k /\ v = k + 1 /\ k + 1 \in Version
    BY <2>1, PendingMin
  <2>3. /\ v \in Version /\ v \notin diskApplied /\ taken = diskApplied
        /\ applied = taken \union {v} /\ mem \intersect Version = taken \union {v}
    BY <2>1, PendingMin DEF BootFollowsStorage
  <2>4. diskApplied' = 1 .. (k + 1) /\ k + 1 \in 0 .. LastVersion
    BY <2>1, <2>2, <2>3
  <2>5. runs' = [u \in Version |-> IF u \in diskApplied' THEN 1 ELSE 0]
    <3>1. runs = [u \in Version |-> IF u \in diskApplied THEN 1 ELSE 0]
      BY DEF StoredInOrder
    <3> QED BY <2>1, <2>3, <3>1
  <2>6. disk' \intersect Version = diskApplied'
    BY <2>1, <2>3 DEF StoredInOrder
  <2>7. StoredInOrder'
    BY <1>1, <2>1, <2>4, <2>5, <2>6 DEF StoredInOrder
  <2>8. BootFollowsStorage'
    BY <1>1, <2>1, <2>3 DEF BootFollowsStorage
  <2> QED BY <1>2, <2>7, <2>8
<1>10. CASE MigrationFails
  <2>1. /\ boot' = "off" /\ mem' = mem \ Pending
        /\ UNCHANGED <<isConnected, taken, stale, storage, image, runs>>
    BY <1>10 DEF MigrationFails, ConnectFails
  <2>2. taken = diskApplied /\ boot \in {"inTx", "saving"}
    BY <1>10, PendingMin DEF MigrationFails
  <2>3. mem \intersect Version \subseteq diskApplied \union Pending
    <3>1. CASE boot = "inTx"
      BY <3>1 DEF BootFollowsStorage
    <3>2. CASE boot = "saving"
      BY <2>2, <3>2, PendingMin DEF BootFollowsStorage, Pending
    <3> QED BY <2>2, <3>1, <3>2
  <2>4. StoredInOrder'
    BY <2>1 DEF StoredInOrder
  <2>5. BootFollowsStorage'
    BY <1>1, <2>1, <2>2, <2>3 DEF BootFollowsStorage, Bootstrapping
  <2> QED BY <1>2, <2>4, <2>5
<1> QED BY <1>4, <1>5, <1>6, <1>7, <1>8, <1>9, <1>10 DEF BootStep

LEMMA NextLInv == TypeOK /\ LInv /\ [Next]_vars => LInv'
<1> SUFFICES ASSUME TypeOK, LInv, [Next]_vars PROVE LInv'
  OBVIOUS
<1>1. CASE UNCHANGED vars
  BY <1>1 DEF LInv, LockHeld, ClosingSaves, StoredInOrder, BootFollowsStorage, Holds,
              Bootstrapping, Pending
<1>2. CASE Next
  <2>1. ClosingSaves' /\ StoredInOrder' /\ BootFollowsStorage'
    BY <1>2, ClientKeepsStorage, BootKeepsStorage DEF Next
  <2> QED BY <2>1, NextKeepsLock DEF LInv
<1> QED BY <1>1, <1>2

\* The connection, the lock and the calls keep their types, and whoever has a
\* transaction open holds the lock.
THEOREM TypeCorrect == Spec => []TypeOK
<1> QED BY InitTypeOK, NextKeepsLock, NextLInv, PTL DEF Spec

\* Migrations run in version order, once, and never again: any number of them,
\* over any number of failed and repeated connect() calls, of transactions of
\* clients between them and of disconnects.
THEOREM MigrationsRunOnce == Spec => []MigratedOnce
<1>1. StoredInOrder => MigratedOnce
  BY DEF StoredInOrder, MigratedOnce
<1> QED BY <1>1, InitTypeOK, NextKeepsLock, NextLInv, PTL DEF Spec, LInv

\* A database is connected only with every migration behind it, in storage.
THEOREM ConnectMigrates == Spec => []ConnectedMeansMigrated
<1>1. StoredInOrder => ConnectedMeansMigrated
  BY DEF StoredInOrder, ConnectedMeansMigrated
<1> QED BY <1>1, InitTypeOK, NextKeepsLock, NextLInv, PTL DEF Spec, LInv

=============================================================================
