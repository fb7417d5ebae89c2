-------------------------- MODULE FlushStoreProofs --------------------------
(***************************************************************************)
(* What saveAtomic() promises, for any collections, adapters and callers.  *)
(*                                                                         *)
(* The properties are about storage alone.  Their invariants say of every  *)
(* place a version can be in, between a mutation and its entry, how it     *)
(* compares with what was promised and with what is stored.                *)
(* The second part shows that the adapters of Storage, which store the     *)
(* entries, implement StorageContract, for any adapters, calls and files.  *)
(***************************************************************************)
EXTENDS FlushStore, Storage, SequenceTheorems, FiniteSetTheorems, TLAPS

\* The contents of collections: of versions that there are, the sentinel in
\* _meta alone.
Versions(f) ==
  /\ f \in [Name -> Contents]
  /\ \A n \in Name : f[n].version <= writes
  /\ \A n \in Coll : f[n].flush = "none"

Flights ==
  /\ saving \in [Name -> Contents \union {NoImage}]
  /\ \A n \in Name : saving[n] = NoImage \/ (saving[n] \in Contents /\ saving[n].version <= writes)
  /\ \A n \in Coll : saving[n].flush = "none"

Types ==
  /\ setup \in Setups
  /\ up \in BOOLEAN /\ reported \in BOOLEAN /\ cutShort \in BOOLEAN
  /\ writes \in 0 .. MaxWrites /\ crashes \in 0 .. MaxCrashes
  /\ Versions(mem) /\ Versions(snap) /\ Versions(image) /\ Versions(disk)
  /\ Flights
  /\ dirty \in SUBSET Name /\ snapDirty \in SUBSET Name /\ batch \in SUBSET Name
  /\ overtaken \in SUBSET Name
  /\ tx \in TxState
  /\ touched \in Seq(Name) /\ todo \in Seq(Name)
  /\ durable \in [Name -> Nat]
  /\ unmarked \subseteq Name \X (1 .. writes)

-----------------------------------------------------------------------------
(* Sequences of names. *)

LEMMA ToSetTyped ==
  ASSUME NEW S, NEW s \in Seq(S)
  PROVE  ToSet(s) \in SUBSET S
BY DEF ToSet

LEMMA ToSetEmpty == ToSet(<<>>) = {}
BY DEF ToSet

LEMMA ToSetAppend ==
  ASSUME NEW S, NEW s \in Seq(S), NEW e \in S
  PROVE  Append(s, e) \in Seq(S) /\ ToSet(Append(s, e)) = ToSet(s) \union {e}
<1>1. /\ Append(s, e) \in Seq(S) /\ Len(Append(s, e)) = Len(s) + 1
      /\ \A i \in 1 .. Len(s) : Append(s, e)[i] = s[i]
      /\ Append(s, e)[Len(s) + 1] = e
  BY AppendProperties
<1>2. DOMAIN Append(s, e) = 1 .. Len(s) + 1 /\ DOMAIN s = 1 .. Len(s) /\ Len(s) \in Nat
  BY <1>1, LenProperties
<1>3. ToSet(Append(s, e)) \subseteq ToSet(s) \union {e}
  BY <1>1, <1>2 DEF ToSet
<1>4. ToSet(s) \union {e} \subseteq ToSet(Append(s, e))
  BY <1>1, <1>2 DEF ToSet
<1>5. QED
  BY <1>1, <1>3, <1>4

\* What is stored now and what is left are all there was.
LEMMA TodoSplits ==
  ASSUME NEW S, NEW s \in Seq(S), NEW k \in 0 .. Len(s)
  PROVE  /\ SubSeq(s, k + 1, Len(s)) \in Seq(S)
         /\ ToSet(s) = ToSet(SubSeq(s, 1, k)) \union ToSet(SubSeq(s, k + 1, Len(s)))
<1> DEFINE t == SubSeq(s, 1, k)
           u == SubSeq(s, k + 1, Len(s))
<1>1. Len(s) \in Nat /\ DOMAIN s = 1 .. Len(s) /\ \A i \in 1 .. Len(s) : s[i] \in S
  BY LenProperties, ElementOfSeq
<1>2. t \in Seq(S) /\ Len(t) = k /\ \A i \in 1 .. k : t[i] = s[i]
  BY <1>1, SubSeqProperties
<1>3. u \in Seq(S) /\ Len(u) = Len(s) - k /\ \A i \in 1 .. Len(s) - k : u[i] = s[k + i]
  <2>1. k + 1 \in Int /\ Len(s) \in Int /\ \A i \in k + 1 .. Len(s) : s[i] \in S
    BY <1>1
  <2>2. /\ u \in Seq(S)
        /\ Len(u) = IF k + 1 <= Len(s) THEN Len(s) - (k + 1) + 1 ELSE 0
        /\ \A i \in 1 .. Len(s) - (k + 1) + 1 : u[i] = s[(k + 1) + i - 1]
    BY <2>1, SubSeqProperties
  <2> HIDE DEF u
  <2>3. Len(u) = Len(s) - k
    <3>1. k \in Nat /\ Len(s) \in Nat /\ k <= Len(s)
      BY <1>1
    <3>2. Len(s) - (k + 1) + 1 = Len(s) - k
      BY <3>1
    <3>3. CASE k + 1 <= Len(s)
      BY <2>2, <3>2, <3>3
    <3>4. CASE ~(k + 1 <= Len(s))
      BY <2>2, <3>1, <3>4
    <3>5. QED
      BY <3>3, <3>4
  <2>4. \A i \in 1 .. Len(s) - k : i \in 1 .. Len(s) - (k + 1) + 1 /\ (k + 1) + i - 1 = k + i
    BY <1>1
  <2>5. QED
    BY <2>2, <2>3, <2>4
<1>4. DOMAIN t = 1 .. k /\ DOMAIN u = 1 .. Len(s) - k
  BY <1>2, <1>3, LenProperties
<1> HIDE DEF t, u
<1>5. ToSet(t) \union ToSet(u) \subseteq ToSet(s)
  <2>1. \A i \in 1 .. k : i \in 1 .. Len(s)
    BY <1>1
  <2>2. \A i \in 1 .. Len(s) - k : k + i \in 1 .. Len(s)
    BY <1>1
  <2>3. ToSet(t) \subseteq ToSet(s)
    BY <1>1, <1>2, <1>4, <2>1 DEF ToSet
  <2>4. ToSet(u) \subseteq ToSet(s)
    BY <1>1, <1>3, <1>4, <2>2 DEF ToSet
  <2>5. QED
    BY <2>3, <2>4
<1>6. ASSUME NEW i \in 1 .. Len(s) PROVE s[i] \in ToSet(t) \union ToSet(u)
  <2>1. CASE i <= k
    <3>1. i \in 1 .. k /\ t[i] = s[i]
      BY <1>1, <1>2, <2>1
    <3>2. QED
      BY <1>4, <3>1 DEF ToSet
  <2>2. CASE i > k
    <3>1. i - k \in 1 .. Len(s) - k /\ u[i - k] = s[i]
      BY <1>1, <1>3, <2>2
    <3>2. QED
      BY <1>4, <3>1 DEF ToSet
  <2>3. QED
    BY <2>1, <2>2, <1>1
<1>7. QED
  BY <1>1, <1>3, <1>5, <1>6 DEF ToSet, t, u

-----------------------------------------------------------------------------
(* Types. *)

LEMMA EmptyIsContents == Empty \in Contents /\ Empty.version = 0 /\ Empty.flush = "none"
BY DEF Empty, Contents, Flush

LEMMA InitTypes == Init => Types
<1> SUFFICES ASSUME Init PROVE Types
  OBVIOUS
<1>1. Versions(mem) /\ Versions(snap) /\ Versions(image) /\ Versions(disk)
  BY EmptyIsContents DEF Init, Versions, Name
<1>2. Flights
  BY DEF Init, Flights, NoFlight, NoImage, Name
<1>3. writes \in 0 .. MaxWrites /\ crashes \in 0 .. MaxCrashes
  BY FlushStoreAssumption DEF Init
<1>4. touched \in Seq(Name) /\ todo \in Seq(Name)
  BY DEF Init
<1>5. durable \in [Name -> Nat]
  BY DEF Init
<1>6. QED
  BY <1>1, <1>2, <1>3, <1>4, <1>5 DEF Init, Types, TxState

\* Versions stay below the number of writes, which grows.
LEMMA SameVersions ==
  ASSUME Types, writes' \in 0 .. MaxWrites, writes <= writes'
  PROVE  /\ UNCHANGED mem => Versions(mem)'
         /\ UNCHANGED snap => Versions(snap)'
         /\ UNCHANGED image => Versions(image)'
         /\ UNCHANGED disk => Versions(disk)'
         /\ UNCHANGED saving => Flights'
         /\ UNCHANGED unmarked => unmarked' \subseteq Name \X (1 .. writes')
<1>1. writes \in Nat /\ writes' \in Nat
  BY FlushStoreAssumption DEF Types
<1>2. ASSUME NEW f, Versions(f) PROVE \A n \in Name : f[n].version <= writes'
  BY <1>1, <1>2 DEF Versions, Contents
<1>3. UNCHANGED saving => Flights'
  BY <1>1 DEF Types, Flights, Contents
<1>4. Name \X (1 .. writes) \subseteq Name \X (1 .. writes')
  BY <1>1
<1>5. QED
  BY <1>2, <1>3, <1>4 DEF Types, Versions

LEMMA MutatedTypes ==
  ASSUME Types, NEW n \in Name, Mutated(n)
  PROVE  /\ writes' \in 0 .. MaxWrites /\ writes <= writes' /\ Versions(mem)' /\ dirty' = dirty
         /\ mem'[n].version = writes + 1 /\ \A m \in Name : mem'[m].version >= mem[m].version
         /\ \A m \in Name \ {n} : mem'[m] = mem[m]
<1>1. writes \in Nat /\ writes' = writes + 1 /\ writes' \in 0 .. MaxWrites
  BY FlushStoreAssumption DEF Types, Mutated
<1>2. mem \in [Name -> Contents] /\ mem' = [mem EXCEPT ![n].version = writes + 1]
  BY DEF Types, Versions, Mutated
<1>3. [mem[n] EXCEPT !.version = writes + 1] \in Contents
  BY <1>1, <1>2 DEF Contents
<1>4. mem' \in [Name -> Contents] /\ mem'[n] = [mem[n] EXCEPT !.version = writes + 1]
      /\ \A m \in Name \ {n} : mem'[m] = mem[m]
  BY <1>2, <1>3
<1>5. mem[n] \in Contents /\ mem'[n].version = writes + 1 /\ mem'[n].flush = mem[n].flush
  BY <1>2, <1>4 DEF Contents
<1>6. \A m \in Name : mem[m].version \in Nat /\ mem[m].version <= writes
  BY <1>2 DEF Types, Versions, Contents
<1>7. \A m \in Name : mem'[m].version <= writes + 1 /\ mem'[m].version >= mem[m].version
  <2> TAKE m \in Name
  <2>1. CASE m = n
    BY <1>1, <1>5, <1>6, <2>1
  <2>2. CASE m # n
    BY <1>1, <1>4, <1>6, <2>2
  <2>3. QED
    BY <2>1, <2>2
<1>8. \A m \in Coll : mem'[m].flush = "none"
  BY <1>4, <1>5 DEF Types, Versions, Name
<1>9. QED
  BY <1>1, <1>4, <1>5, <1>7, <1>8 DEF Versions, Types, Mutated

\* A change is unmarked at first, and no other is marked by it.
LEMMA MutatedUnmarked ==
  ASSUME Types, NEW n \in Name, Mutated(n)
  PROVE  n \in Unmarked' /\ Unmarked \subseteq Unmarked' /\ unmarked' \subseteq Name \X (1 .. writes')
<1>1. /\ unmarked' = unmarked \union {<<n, writes'>>}
      /\ unmarked \subseteq unmarked' /\ <<n, writes'>> \in unmarked'
  BY DEF Mutated
<1>2. \A m \in unmarked' : m[1] \in Unmarked'
  BY DEF Unmarked
<1>3. <<n, writes'>>[1] = n
  OBVIOUS
<1>4. n \in Unmarked'
  BY <1>1, <1>2, <1>3
<1>5. Unmarked \subseteq Unmarked'
  <2>1. ASSUME NEW k \in Unmarked PROVE k \in Unmarked'
    <3>1. PICK m \in unmarked : k = m[1]
      BY DEF Unmarked
    <3> QED  BY <1>1, <1>2, <3>1
  <2> QED  BY <2>1
<1>6. unmarked' \subseteq Name \X (1 .. writes')
  <2>1. writes \in Nat /\ writes' = writes + 1
    BY FlushStoreAssumption DEF Types, Mutated
  <2>2. unmarked \subseteq Name \X (1 .. writes)
    BY DEF Types
  <2>3. Name \X (1 .. writes) \subseteq Name \X (1 .. writes') /\ writes' \in 1 .. writes'
    BY <2>1
  <2> QED  BY <1>1, <2>2, <2>3
<1>7. QED
  BY <1>4, <1>5, <1>6

LEMMA StepSizeFits ==
  ASSUME Types PROVE StepSize \in 0 .. Len(todo)
<1>1. setup.chunk \in Nat \ {0} /\ Len(todo) \in Nat
  BY FlushStoreAssumption, LenProperties DEF Types, Setup
<1>2. QED
  BY <1>1 DEF StepSize

\* A step of writeAll() stores some entries, and the others are left.
LEMMA StoreStepSplits ==
  ASSUME Types, StoreStep
  PROVE  \E stored \in SUBSET Name :
           /\ ToSet(todo) = stored \union ToSet(todo')
           /\ \A n \in Name : disk'[n] = IF n \in stored THEN image[n] ELSE disk[n]
           /\ todo' \in Seq(Name) /\ disk' \in [Name -> Contents]
<1> DEFINE k == StepSize
           stored == ToSet(SubSeq(todo, 1, k))
<1>1. todo \in Seq(Name) /\ k \in 0 .. Len(todo)
  BY StepSizeFits DEF Types
<1>2. todo' = SubSeq(todo, k + 1, Len(todo))
      /\ disk' = [n \in Name |-> IF n \in stored THEN image[n] ELSE disk[n]]
  BY DEF StoreStep
<1> HIDE DEF k
<1>3. todo' \in Seq(Name) /\ ToSet(todo) = stored \union ToSet(todo')
  BY <1>1, <1>2, TodoSplits
<1>4. stored \in SUBSET Name
  BY <1>1, <1>3, ToSetTyped
<1> HIDE DEF stored
<1>5. disk' \in [Name -> Contents] /\ \A n \in Name : disk'[n] = IF n \in stored THEN image[n] ELSE disk[n]
  BY <1>2 DEF Types, Versions
<1>6. QED
  BY <1>3, <1>4, <1>5

\* Writing the sentinel changes no version.
LEMMA SentinelTypes ==
  ASSUME Types, NEW v \in Flush, mem' = [mem EXCEPT ![Meta].flush = v], UNCHANGED writes
  PROVE  /\ Versions(mem)'
         /\ \A n \in Name : mem'[n].version = mem[n].version
         /\ \A n \in Coll : mem'[n] = mem[n]
<1>1. mem \in [Name -> Contents] /\ Meta \in Name /\ Meta \notin Coll /\ Coll \subseteq Name
  BY FlushStoreAssumption DEF Types, Versions, Name
<1>2. mem[Meta] \in Contents /\ [mem[Meta] EXCEPT !.flush = v] \in Contents
      /\ [mem[Meta] EXCEPT !.flush = v].version = mem[Meta].version
  BY <1>1 DEF Contents
<1>3. mem' = [mem EXCEPT ![Meta] = [mem[Meta] EXCEPT !.flush = v]]
  OBVIOUS
<1>4. mem' \in [Name -> Contents] /\ \A n \in Name \ {Meta} : mem'[n] = mem[n]
      /\ mem'[Meta].version = mem[Meta].version
  BY <1>1, <1>2, <1>3
<1>5. \A n \in Name : mem'[n].version = mem[n].version
  BY <1>4
<1>6. QED
  BY <1>1, <1>4, <1>5 DEF Versions, Types

LEMMA StepTypes == Types /\ Next => Types'
<1> SUFFICES ASSUME Types, Next PROVE Types'
  OBVIOUS
<1> USE SameVersions
<1>0. /\ setup' = setup /\ writes \in Nat /\ writes \in 0 .. MaxWrites
      /\ UNCHANGED writes => writes' \in 0 .. MaxWrites /\ writes <= writes'
  BY FlushStoreAssumption DEF Next, Types
<1>1. ASSUME NEW n \in Name, Write(n) PROVE Types'
  <2>1. Mutated(n)
    BY <1>1 DEF Write
  <2>2. QED
    BY <1>0, <1>1, <2>1, MutatedTypes, MutatedUnmarked DEF Write, Types, context, flush, history
<1>1a. ASSUME NEW n \in Name, MarkDirty(n) PROVE Types'
  <2>1. unmarked' \subseteq unmarked /\ dirty' \in SUBSET Name
    BY <1>1a DEF MarkDirty, Types
  <2>2. QED
    BY <1>0, <1>1a, <2>1 DEF MarkDirty, Types, process, context, flush, history
<1>2. ASSUME NEW n \in Name, TxWrite(n) PROVE Types'
  <2>1. Mutated(n)
    BY <1>2 DEF TxWrite
  <2>2. touched' \in Seq(Name) /\ snapDirty' \in SUBSET Name /\ overtaken' \in SUBSET Name
    <3>1. /\ touched \in Seq(Name) /\ Append(touched, n) \in Seq(Name)
          /\ snapDirty \in SUBSET Name /\ overtaken \in SUBSET Name
      BY ToSetAppend DEF Types
    <3>2. Touch(n)
      BY <1>2 DEF TxWrite
    <3>3. CASE n \in Touched
      BY <3>1, <3>2, <3>3 DEF Touch
    <3>4. CASE n \notin Touched
      <4>1. touched' = Append(touched, n) /\ snapDirty' \subseteq snapDirty \union {n}
            /\ overtaken' \subseteq overtaken \union {n}
        BY <3>2, <3>4 DEF Touch
      <4>2. QED
        BY <3>1, <4>1
    <3>5. QED
      BY <3>3, <3>4
  <2>3. Versions(snap)'
    <3>1. UNCHANGED snap \/ snap' = [snap EXCEPT ![n] = mem[n]]
      BY <1>2 DEF TxWrite, Touch
    <3>2. CASE snap' = [snap EXCEPT ![n] = mem[n]]
      <4>1. snap' \in [Name -> Contents] /\ \A m \in Name : snap'[m] \in {snap[m], mem[m]}
        BY <3>2 DEF Types, Versions
      <4>2. writes' \in Nat /\ writes <= writes'
        BY <2>1, MutatedTypes
      <4>3. \A m \in Name : /\ snap[m].version \in Nat /\ snap[m].version <= writes
                             /\ mem[m].version \in Nat /\ mem[m].version <= writes
        BY DEF Types, Versions, Contents
      <4>4. \A m \in Name : snap'[m].version <= writes'
        BY <1>0, <4>1, <4>2, <4>3
      <4>5. \A m \in Coll : snap'[m].flush = "none"
        BY <4>1 DEF Types, Versions, Name
      <4>6. QED
        BY <4>1, <4>4, <4>5 DEF Versions
    <3>3. QED
      BY <2>1, <3>1, <3>2, MutatedTypes
  <2>4. QED
    BY <1>0, <1>2, <2>1, <2>2, <2>3, MutatedTypes, MutatedUnmarked DEF TxWrite, Types, flush, history
<1>3. ASSUME NEW n \in Name, Save(n) PROVE Types'
  <2>1. Flights'
    BY <1>3 DEF Save, process, Types, Flights, Versions, Name, NoImage
  <2>2. QED
    BY <1>0, <1>3, <2>1 DEF Save, Types, process, memory, context, flush, history
<1>4. ASSUME NEW n \in Name, SaveLands(n) PROVE Types'
  <2>1. Flights'
    BY <1>4 DEF SaveLands, process, Types, Flights, Versions, Name, NoImage
  <2>2. saving[n] \in Contents
    BY <1>4 DEF SaveLands, Types, Flights
  <2>3. Versions(disk)'
    BY <1>4, <2>2 DEF SaveLands, process, Types, Versions, Flights
  <2>4. durable' \in [Name -> Nat]
    BY <1>4, <2>2 DEF SaveLands, Larger, Types, Contents
  <2>5. QED
    BY <1>0, <1>4, <2>1, <2>3, <2>4 DEF SaveLands, Types, process, context, flush
<1>5. ASSUME NEW n \in Name, SaveFails(n) PROVE Types'
  <2>1. Flights'
    BY <1>5 DEF SaveFails, process, Types, Flights, Name, NoImage
  <2>2. QED
    BY <1>0, <1>5, <2>1 DEF SaveFails, Types, process, memory, context, flush, history
<1>6. CASE Begin
  BY <1>0, <1>6 DEF Begin, Types, TxState, process, memory, flush, history
<1>7. CASE CommitNothing
  BY <1>0, <1>7 DEF CommitNothing, Closed, Types, TxState, process, memory, flush, history
<1>8. CASE Serialise
  <2>1. Versions(mem)'
    BY <1>8, SentinelTypes DEF Serialise, OpenSentinel, process, Flush
  <2>2. Versions(image)'
    BY <1>8, <2>1 DEF Serialise, Versions
  <2>3. Touched \in SUBSET Name
    BY ToSetTyped DEF Touched, Types
  <2>4. todo' \in Seq(Name)
    BY <1>8, ToSetAppend DEF Serialise, Entries, Types, Name
  <2>5. QED
    BY <1>0, <1>8, <2>1, <2>2, <2>3, <2>4 DEF Serialise, Types, TxState, process, history
<1>9. CASE Store
  <2>1. PICK stored \in SUBSET Name :
           /\ ToSet(todo) = stored \union ToSet(todo')
           /\ \A n \in Name : disk'[n] = IF n \in stored THEN image[n] ELSE disk[n]
           /\ todo' \in Seq(Name) /\ disk' \in [Name -> Contents]
    BY <1>9, StoreStepSplits DEF Store
  <2>2. Versions(disk)'
    BY <1>9, <2>1 DEF Store, process, Types, Versions, Name
  <2>3. QED
    BY <1>0, <1>9, <2>1, <2>2 DEF Store, Types, process, memory, context, history
<1>10. CASE BatchFails
  BY <1>0, <1>10 DEF BatchFails, Types, TxState, process, memory
<1>11. CASE BatchReturns
  <2>1. Versions(mem)'
    BY <1>11, SentinelTypes DEF BatchReturns, CloseSentinel, process, Flush
  <2>2. Versions(image)'
    BY <1>11, <2>1 DEF BatchReturns, CloseSentinel, process, Types, Versions, Name
  <2>3. overtaken' \in SUBSET Name
    BY <1>11, ToSetTyped DEF BatchReturns, Types, Touched
  <2>4. QED
    BY <1>0, <1>11, <2>1, <2>2, <2>3 DEF BatchReturns, Types, TxState, process, history
<1>12. ASSUME Commit, UNCHANGED image
       PROVE  durable' \in [Name -> Nat] /\ tx' \in TxState /\ touched' \in Seq(Name) /\ snapDirty' \in SUBSET Name /\ UNCHANGED snap
  BY <1>12 DEF Commit, Closed, Types, TxState, Versions, Contents
<1>13. CASE ClearLands
  <2>1. Versions(disk)'
    BY <1>13 DEF ClearLands, process, Types, Versions, Name
  <2>2. QED
    BY <1>0, <1>12, <1>13, <2>1 DEF ClearLands, Types, process, memory, flush
<1>14. CASE ClearFails
  BY <1>0, <1>12, <1>14 DEF ClearFails, Types, process, memory, flush
<1>15. CASE FnThrows
  BY <1>0, <1>15 DEF FnThrows, Types, TxState, process, memory, flush, history
<1>16. CASE Rollback
  <2>1. Versions(mem)'
    BY <1>16 DEF Rollback, Restore, process, Types, Versions, Name
  <2>2. QED
    BY <1>0, <1>16, <2>1 DEF Rollback, Restore, Closed, Types, TxState, process, flush, history
<1>17. CASE Crash
  <2>1. Versions(mem)'
    BY <1>17, EmptyIsContents, <1>0 DEF Crash, Versions, Name
  <2>2. Flights'
    BY <1>17 DEF Crash, Flights, NoFlight, NoImage, Name
  <2>3. crashes' \in 0 .. MaxCrashes
    BY <1>17, FlushStoreAssumption DEF Crash, Types
  <2>4. cutShort' \in BOOLEAN /\ up' \in BOOLEAN
    BY <1>17 DEF Crash
  <2>5. writes' \in 0 .. MaxWrites /\ Versions(snap)' /\ Versions(image)' /\ Versions(disk)'
    BY <1>0, <1>17 DEF Crash
  <2>6. unmarked' \subseteq Name \X (1 .. writes') /\ overtaken' \in SUBSET Name
    BY <1>17 DEF Crash
  <2>7. QED
    BY <1>0, <1>17, <2>1, <2>2, <2>3, <2>4, <2>5, <2>6 DEF Crash, Types, TxState
<1>18. CASE Restart
  <2>1. Versions(mem)'
    BY <1>18 DEF Restart, LoadAll, Types, Versions
  <2>2. QED
    BY <1>0, <1>18, <2>1 DEF Restart, LoadAll, Types, context, flush
<1>19. QED
  BY <1>1, <1>1a, <1>2, <1>3, <1>4, <1>5, <1>6, <1>7, <1>8, <1>9, <1>10, <1>11, <1>13, <1>14, <1>15,
     <1>16, <1>17, <1>18 DEF Next, TxStep

LEMMA SameTypes == Types /\ UNCHANGED vars => Types'
<1> SUFFICES ASSUME Types, UNCHANGED vars PROVE Types'
  OBVIOUS
<1>1. writes' \in 0 .. MaxWrites /\ writes <= writes'
  BY FlushStoreAssumption DEF Types, vars, process
<1>2. QED
  BY <1>1, SameVersions DEF Types, vars, process, memory, context, flush, history

\* The type invariant of TypeOK.
THEOREM TypeCorrect == Spec => []TypeOK
<1>1. Types => TypeOK
  BY DEF Types, Versions, Flights, TypeOK, Name
<1>2. QED
  BY InitTypes, StepTypes, SameTypes, <1>1, PTL DEF Spec


-----------------------------------------------------------------------------
(* Invariants. *)

Flushing == tx \in {"writing", "clearing"}

\* Where the transaction and the saves are, and that what a batch serialised
\* memory holds, or something newer, as long as the batch is on its way.
Flow ==
  /\ Touched \subseteq setup.inTx
  /\ \A n \in Name : saving[n] # NoImage => n \in setup.saved
  /\ tx = "none" => touched = <<>>
  /\ tx # "writing" => todo = <<>>
  /\ ToSet(todo) \subseteq Touched \union {Meta}
  /\ ~up => tx = "none" /\ saving = NoFlight
  /\ Flushing => /\ batch = Touched
                 /\ \A n \in Touched \union {Meta} : image[n].version <= mem[n].version
                 /\ image[Meta].version = mem[Meta].version

\* Wherever the next entry of a collection can come from, it is as new as what
\* a caller was promised.
Promised ==
  /\ \A n \in Name : durable[n] <= disk[n].version
  /\ up => \A n \in Name : durable[n] <= mem[n].version
  /\ \A n \in Name : saving[n] # NoImage => /\ durable[n] <= saving[n].version
                                            /\ saving[n].version <= mem[n].version
  /\ \A n \in Touched : durable[n] <= snap[n].version
  /\ Flushing => \A n \in Touched :
                   /\ durable[n] <= image[n].version
                   /\ n \in ToSet(todo) \/ disk[n].version = image[n].version

\* An open sentinel in storage has its cause, and the final write closes it.
Alarm ==
  /\ disk[Meta].flush = "open" => cutShort \/ Flushing
  /\ tx = "clearing" => image[Meta].flush = "closed"

\* A batch that is stored in one step is all there or not at all.
Counted ==
  /\ Len(touched) = Cardinality(Touched)
  /\ todo # <<>> => Touched \subseteq ToSet(todo) /\ Len(todo) <= Cardinality(Name)

\* Of a batch nothing is stored before its only step, and all of it after.
Whole ==
  /\ batch \subseteq setup.inTx
  /\ tx = "running" => \A n \in Touched : disk[n].version < mem[n].version
  /\ ~Partial

\* The collections that may differ from storage and will be saved, or are known
\* to have lost their mark.
Pending == dirty \union Unmarked \union overtaken

\* Of a collection that only transactions save: what is clean is stored, and
\* before the only step of a batch so is what its snapshot holds, if it was
\* clean; after that step what the batch serialised is.
Clean ==
  \A n \in Coll \ setup.saved :
    /\ up /\ n \notin Touched \union Pending => mem[n] = disk[n]
    /\ n \in Touched =>
         /\ tx \in {"running", "failing"} \/ todo # <<>>
              => n \in snapDirty \union overtaken \/ snap[n] = disk[n]
         /\ tx = "writing" /\ todo = <<>> => disk[n] = image[n]
         /\ tx = "clearing" => n \in Pending \/ disk[n] = mem[n]

LEMMA VersionsAreNumbers ==
  ASSUME Types
  PROVE  /\ Meta \in Name /\ Coll \subseteq Name /\ Touched \in SUBSET Name
         /\ \A n \in Name : /\ mem[n].version \in Nat /\ snap[n].version \in Nat
                            /\ image[n].version \in Nat /\ disk[n].version \in Nat
                            /\ durable[n] \in Nat
                            /\ saving[n] # NoImage => saving[n].version \in Nat
<1>1. Touched \in SUBSET Name
  BY ToSetTyped DEF Touched, Types
<1>2. QED
  BY <1>1 DEF Types, Versions, Flights, Contents, Name

\* A snapshot is made when a name is added to the touched ones.
LEMMA TouchAdds ==
  ASSUME Types, NEW n \in Name, Touch(n)
  PROVE  /\ Touched' = Touched \union {n}
         /\ n \notin Touched => Len(touched') = Len(touched) + 1 /\ snap'[n] = mem[n]
         /\ n \in Touched => touched' = touched
         /\ \A m \in Touched : snap'[m] = snap[m]
<1>1. touched \in Seq(Name) /\ snap \in [Name -> Contents] /\ Touched \in SUBSET Name
  BY VersionsAreNumbers DEF Types, Versions
<1>2. CASE n \in Touched
  BY <1>1, <1>2 DEF Touch, Touched
<1>3. CASE n \notin Touched
  <2>1. touched' = Append(touched, n) /\ snap' = [snap EXCEPT ![n] = mem[n]]
    BY <1>3 DEF Touch
  <2>2. Touched' = Touched \union {n}
    BY <1>1, <2>1, ToSetAppend DEF Touched
  <2>3. Len(touched') = Len(touched) + 1
    BY <1>1, <2>1, AppendProperties
  <2>4. QED
    BY <1>1, <1>3, <2>1, <2>2, <2>3
<1>4. QED
  BY <1>2, <1>3

\* The batch is what was touched and _meta.
LEMMA EntriesAreTouched ==
  ASSUME Types PROVE ToSet(Entries) = Touched \union {Meta}
BY ToSetAppend, VersionsAreNumbers DEF Entries, Touched, Types

\* Closed leaves nothing touched.
LEMMA ClosedEmpties ==
  ASSUME Closed PROVE tx' = "none" /\ touched' = <<>> /\ Touched' = {} /\ UNCHANGED snap
BY ToSetEmpty DEF Closed, Touched

-----------------------------------------------------------------------------
(* The way of a batch. *)

LEMMA InitFlow == Init => Flow
BY ToSetEmpty DEF Init, Flow, Flushing, Touched, NoFlight

LEMMA StepFlow == Types /\ Flow /\ Next => Flow'
<1> SUFFICES ASSUME Types, Flow, Next PROVE Flow'
  OBVIOUS
<1>0. /\ setup' = setup /\ Meta \in Name /\ Meta \notin Coll /\ Touched \in SUBSET Name
      /\ UNCHANGED touched => UNCHANGED Touched
      /\ \A n \in Touched \union {Meta} : n \in Name
  BY VersionsAreNumbers, FlushStoreAssumption DEF Next, Touched
<1>1. ASSUME NEW n \in Name, Write(n) PROVE Flow'
  <2>1. n \in Coll /\ n # Meta /\ Mutated(n)
    BY <1>0, <1>1 DEF Write
  <2>2. mem'[Meta] = mem[Meta] /\ \A m \in Name : mem'[m].version >= mem[m].version
    BY <1>0, <2>1, MutatedTypes
  <2>3. \A m \in Name : mem'[m].version \in Nat /\ mem[m].version \in Nat /\ image[m].version \in Nat
    BY <2>1, MutatedTypes, VersionsAreNumbers DEF Versions, Contents
  <2>4. UNCHANGED <<setup, up, tx, touched, batch, image, todo, saving>>
    BY <1>0, <1>1 DEF Write, context, flush
  <2>5. ASSUME Flushing' PROVE \A m \in Touched \union {Meta} : image[m].version <= mem'[m].version
    BY <1>0, <2>2, <2>3, <2>4, <2>5 DEF Flow, Flushing
  <2>6. QED
    BY <1>0, <1>1, <2>2, <2>4, <2>5 DEF Flow, Flushing
<1>1a. ASSUME NEW n \in Name, MarkDirty(n) PROVE Flow'
  BY <1>0, <1>1a DEF MarkDirty, Flow, Flushing, process, context, flush
<1>2. ASSUME NEW n \in Name, TxWrite(n) PROVE Flow'
  <2>1. Touched' = Touched \union {n} /\ n \in setup.inTx /\ tx = "running" /\ tx' = "running" /\ up
    BY <1>2, TouchAdds DEF TxWrite
  <2>2. QED
    BY <1>0, <1>2, <2>1 DEF TxWrite, Flow, Flushing, flush
<1>3. ASSUME NEW n \in Name, Save(n) PROVE Flow'
  <2>1. \A m \in Name : saving'[m] # NoImage => m = n \/ saving[m] # NoImage
    BY <1>3 DEF Save, Types, Flights
  <2>2. QED
    BY <1>0, <1>3, <2>1 DEF Save, Flow, Flushing, process, memory, context, flush
<1>4. ASSUME NEW n \in Name, SaveLands(n) \/ SaveFails(n) PROVE Flow'
  <2>1. \A m \in Name : saving'[m] # NoImage => saving[m] # NoImage
    BY <1>4 DEF SaveLands, SaveFails, Types, Flights
  <2>2. QED
    BY <1>0, <1>4, <2>1 DEF SaveLands, SaveFails, Flow, Flushing, process, memory, context, flush
<1>5. CASE Begin
  BY <1>0, <1>5 DEF Begin, Flow, Flushing, process, memory, flush
<1>6. CASE CommitNothing
  BY <1>0, <1>6, ClosedEmpties, ToSetEmpty DEF CommitNothing, Flow, Flushing, Touched, process, memory, flush
<1>7. CASE Serialise
  <2>1. ToSet(todo)' = Touched \union {Meta}
    BY <1>7, EntriesAreTouched DEF Serialise
  <2>2. \A n \in Name : mem'[n].version \in Nat
    BY <1>7, SentinelTypes DEF Serialise, OpenSentinel, process, Flush, Versions, Contents
  <2>3. QED
    BY <1>0, <1>7, <2>1, <2>2 DEF Serialise, Flow, Flushing, process
<1>8. CASE Store
  <2>1. ToSet(todo') \subseteq ToSet(todo)
    BY <1>8, StoreStepSplits DEF Store
  <2>2. QED
    BY <1>0, <1>8, <2>1 DEF Store, Flow, Flushing, process, memory, context
<1>9. CASE BatchFails
  BY <1>0, <1>9, ToSetEmpty DEF BatchFails, Flow, Flushing, process, memory
<1>10. CASE BatchReturns
  <2>1. \A n \in Name : mem'[n].version = mem[n].version
    BY <1>10, SentinelTypes DEF BatchReturns, CloseSentinel, process, Flush
  <2>2. \A n \in Name : image'[n] = IF n = Meta THEN mem'[n] ELSE image[n]
    BY <1>10 DEF BatchReturns, CloseSentinel, Types, Versions
  <2>3. /\ \A n \in Touched \union {Meta} : image'[n].version <= mem'[n].version
        /\ image'[Meta].version = mem'[Meta].version
    BY <1>0, <1>10, <2>1, <2>2, VersionsAreNumbers DEF BatchReturns, Flow, Flushing
  <2>4. QED
    BY <1>0, <1>10, <2>3, ToSetEmpty DEF BatchReturns, Flow, Flushing, process
<1>11. CASE ClearLands \/ ClearFails
  BY <1>0, <1>11, ClosedEmpties, ToSetEmpty
     DEF ClearLands, ClearFails, Commit, Flow, Flushing, process, memory, flush
<1>12. CASE FnThrows
  BY <1>0, <1>12 DEF FnThrows, Flow, Flushing, process, memory, flush
<1>13. CASE Rollback
  BY <1>0, <1>13, ClosedEmpties, ToSetEmpty DEF Rollback, Flow, Flushing, process, flush
<1>14. CASE Crash
  BY <1>0, <1>14, ToSetEmpty DEF Crash, Flow, Flushing, NoFlight, Touched
<1>15. CASE Restart
  BY <1>0, <1>15 DEF Restart, LoadAll, Flow, Flushing, context, flush
<1>16. QED
  BY <1>1, <1>1a, <1>2, <1>3, <1>4, <1>5, <1>6, <1>7, <1>8, <1>9, <1>10, <1>11, <1>12, <1>13, <1>14,
     <1>15 DEF Next, TxStep

LEMMA SameFlow == Flow /\ UNCHANGED vars => Flow'
BY DEF Flow, Flushing, Touched, vars, process, memory, context, flush, history

-----------------------------------------------------------------------------
(* What was promised is stored. *)

LEMMA InitPromised == Init => Promised
BY ToSetEmpty, EmptyIsContents DEF Init, Promised, Flushing, Touched, NoFlight, Name

\* Where nothing that Promised speaks of changes, and no promise is made.
LEMMA SamePromised ==
  ASSUME Promised, UNCHANGED <<disk, durable, saving, snap, touched>>,
         \A n \in Name : mem'[n].version = mem[n].version, up' => up,
         Flushing' => Flushing /\ UNCHANGED todo
                      /\ \A n \in Touched : image'[n].version = image[n].version
  PROVE  Promised'
BY DEF Promised, Flushing, Touched

LEMMA StepPromised == Types /\ Flow /\ Promised /\ Apart /\ Next => Promised'
<1> SUFFICES ASSUME Types, Flow, Promised, Apart, Next PROVE Promised'
  OBVIOUS
<1>0. /\ setup' = setup /\ Meta \in Name /\ Meta \notin Coll /\ Touched \in SUBSET Name
      /\ UNCHANGED touched => UNCHANGED Touched
      /\ \A n \in Touched \union {Meta} : n \in Name
      /\ \A n \in Touched : saving[n] = NoImage
  BY VersionsAreNumbers, FlushStoreAssumption DEF Next, Touched, Flow, Apart
<1> USE VersionsAreNumbers
<1>1. ASSUME NEW n \in Name, Write(n) PROVE Promised'
  <2>1. n \in Coll /\ Mutated(n)
    BY <1>1 DEF Write
  <2>2. \A m \in Name : mem'[m].version >= mem[m].version /\ mem'[m].version \in Nat
    BY <2>1, MutatedTypes DEF Versions, Contents
  <2>3. UNCHANGED <<up, tx, touched, snap, image, todo, saving, disk, durable>>
    BY <1>1 DEF Write, context, flush, history
  <2>4. up => \A m \in Name : durable[m] <= mem'[m].version
    BY <2>2 DEF Promised
  <2>5. \A m \in Name : saving[m] # NoImage => saving[m].version <= mem'[m].version
    BY <2>2 DEF Promised
  <2>6. QED
    BY <1>0, <2>3, <2>4, <2>5 DEF Promised, Flushing
<1>1a. ASSUME NEW n \in Name, MarkDirty(n) PROVE Promised'
  BY <1>0, <1>1a DEF MarkDirty, Promised, Flushing, process, context, flush, history
<1>2. ASSUME NEW n \in Name, TxWrite(n) PROVE Promised'
  <2>1. Mutated(n) /\ Touch(n) /\ up
    BY <1>2 DEF TxWrite
  <2>2. \A m \in Name : mem'[m].version >= mem[m].version /\ mem'[m].version \in Nat
    BY <2>1, MutatedTypes DEF Versions, Contents
  <2>3. UNCHANGED <<up, saving, disk, durable>> /\ tx' = "running"
    BY <1>2 DEF TxWrite, history
  <2>4. \A m \in Name : durable[m] <= mem'[m].version
    BY <2>1, <2>2 DEF Promised
  <2>5. \A m \in Name : saving[m] # NoImage => saving[m].version <= mem'[m].version
    BY <2>2 DEF Promised
  <2>6. \A m \in Touched' : durable[m] <= snap'[m].version
    BY <2>1, TouchAdds DEF Promised
  <2>7. QED
    BY <1>0, <2>3, <2>4, <2>5, <2>6 DEF Promised, Flushing
<1>3. ASSUME NEW n \in Name, Save(n) PROVE Promised'
  <2>1. \A m \in Name : saving'[m] = IF m = n THEN mem[m] ELSE saving[m]
    BY <1>3 DEF Save, Types, Flights
  <2>2. \A m \in Name : saving'[m] # NoImage => /\ durable[m] <= saving'[m].version
                                                /\ saving'[m].version <= mem[m].version
    BY <1>3, <2>1 DEF Promised, Save
  <2>3. UNCHANGED <<up, mem, tx, touched, snap, image, todo, disk, durable>>
    BY <1>3 DEF Save, process, memory, context, flush, history
  <2>4. QED
    BY <1>0, <2>2, <2>3 DEF Promised, Flushing
<1>4. ASSUME NEW n \in Name, SaveLands(n) PROVE Promised'
  <2>1. saving[n] # NoImage /\ up /\ n \notin Touched
    BY <1>0, <1>4 DEF SaveLands
  <2>2. \A m \in Name : /\ saving'[m] = IF m = n THEN NoImage ELSE saving[m]
                        /\ disk'[m] = IF m = n THEN saving[m] ELSE disk[m]
                        /\ durable'[m] = IF m = n THEN Larger(durable[m], saving[m].version) ELSE durable[m]
    BY <1>4 DEF SaveLands, Types, Flights, Versions
  <2>3. Larger(durable[n], saving[n].version) = saving[n].version
    BY <2>1 DEF Promised, Larger
  <2>4. UNCHANGED <<up, mem, tx, touched, snap, image, todo>>
    BY <1>4 DEF SaveLands, process, context, flush
  <2>5. \A m \in Name : durable'[m] <= disk'[m].version /\ durable'[m] <= mem[m].version
    BY <2>1, <2>2, <2>3 DEF Promised
  <2>6. \A m \in Name : saving'[m] # NoImage => /\ durable'[m] <= saving'[m].version
                                                /\ saving'[m].version <= mem[m].version
    BY <2>2 DEF Promised
  <2>7. \A m \in Touched : durable'[m] = durable[m] /\ disk'[m] = disk[m]
    BY <1>0, <2>1, <2>2
  <2>8. QED
    BY <1>0, <2>4, <2>5, <2>6, <2>7 DEF Promised, Flushing
<1>5. ASSUME NEW n \in Name, SaveFails(n) PROVE Promised'
  <2>1. \A m \in Name : saving'[m] # NoImage => saving'[m] = saving[m]
    BY <1>5 DEF SaveFails, Types, Flights
  <2>2. QED
    BY <1>0, <1>5, <2>1 DEF SaveFails, Promised, Flushing, process, memory, context, flush, history
<1>6. CASE Begin
  BY <1>0, <1>6 DEF Begin, Promised, Flushing, process, memory, flush, history
<1>7. CASE CommitNothing
  BY <1>0, <1>7, ClosedEmpties DEF CommitNothing, Promised, Flushing, process, memory, flush, history
<1>8. CASE Serialise
  <2>1. \A n \in Name : mem'[n].version = mem[n].version
    BY <1>8, SentinelTypes DEF Serialise, OpenSentinel, process, Flush
  <2>2. Touched \subseteq ToSet(todo)'
    BY <1>8, EntriesAreTouched DEF Serialise
  <2>3. QED
    BY <1>0, <1>8, <2>1, <2>2 DEF Serialise, Promised, Flushing, process, history
<1>9. CASE Store
  <2>1. PICK stored \in SUBSET Name :
           /\ ToSet(todo) = stored \union ToSet(todo')
           /\ \A n \in Name : disk'[n] = IF n \in stored THEN image[n] ELSE disk[n]
           /\ todo' \in Seq(Name) /\ disk' \in [Name -> Contents]
    BY <1>9, StoreStepSplits DEF Store
  <2>2. UNCHANGED <<up, mem, tx, touched, snap, image, saving, durable>> /\ up /\ Flushing
    BY <1>9 DEF Store, process, memory, context, history, Flushing
  <2>3. \A n \in stored : durable[n] <= image[n].version
    BY <1>0, <2>1, <2>2 DEF Promised, Flow
  <2>4. \A n \in Name : durable[n] <= disk'[n].version
    BY <2>1, <2>2, <2>3 DEF Promised
  <2>5. \A n \in Touched : n \in ToSet(todo') \/ disk'[n].version = image[n].version
    BY <1>0, <2>1, <2>2 DEF Promised
  <2>6. QED
    BY <1>0, <2>2, <2>4, <2>5 DEF Promised, Flushing
<1>10. CASE BatchFails
  BY <1>0, <1>10 DEF BatchFails, Promised, Flushing, process, memory
<1>11. CASE BatchReturns
  <2>1. \A n \in Name : mem'[n].version = mem[n].version
    BY <1>11, SentinelTypes DEF BatchReturns, CloseSentinel, process, Flush
  <2>2. \A n \in Name : image'[n] = IF n = Meta THEN mem'[n] ELSE image[n]
    BY <1>11 DEF BatchReturns, CloseSentinel, Types, Versions
  <2>3. Flushing /\ \A n \in Touched : image'[n].version = image[n].version
    BY <1>0, <1>11, <2>1, <2>2 DEF BatchReturns, Flow, Flushing
  <2>4. UNCHANGED <<disk, durable, saving, snap, touched, up, todo>>
    BY <1>11 DEF BatchReturns, process, history
  <2>5. QED
    BY <2>1, <2>3, <2>4, SamePromised
<1>12. ASSUME Commit, UNCHANGED <<up, mem, saving>>, tx = "clearing", up,
              disk' = disk \/ disk' = [disk EXCEPT ![Meta] = image[Meta]]
       PROVE  Promised'
  <2>1. tx' = "none" /\ Touched' = {} /\ ~Flushing'
    BY <1>12, ClosedEmpties DEF Commit, Flushing
  <2>2. ToSet(todo) = {} /\ Flushing
    BY <1>12, ToSetEmpty DEF Flow, Flushing
  <2>3. \A n \in Touched : durable[n] <= image[n].version /\ disk[n].version = image[n].version
                           /\ image[n].version <= mem[n].version
    BY <1>0, <1>12, <2>2 DEF Promised, Flow
  <2>4. \A n \in Name : durable'[n] = IF n \in Touched THEN image[n].version ELSE durable[n]
    BY <1>12 DEF Commit
  <2>5. \A n \in Name : disk'[n] = disk[n] \/ (n = Meta /\ disk'[n] = image[n])
    BY <1>12 DEF Types, Versions
  <2>6. image[Meta].version = mem[Meta].version /\ durable[Meta] <= image[Meta].version
    BY <1>0, <1>12, <2>2 DEF Promised, Flow
  <2>7. \A n \in Name : durable'[n] <= disk'[n].version
    <3> TAKE n \in Name
    <3>1. CASE n \in Touched
      BY <2>3, <2>4, <2>5, <3>1
    <3>2. CASE n \notin Touched
      BY <2>4, <2>5, <2>6, <3>2 DEF Promised
    <3>3. QED
      BY <3>1, <3>2
  <2>8. \A n \in Name : durable'[n] <= mem[n].version
    BY <1>0, <1>12, <2>3, <2>4 DEF Promised
  <2>9. \A n \in Name : saving[n] # NoImage => durable'[n] <= saving[n].version
    BY <1>0, <2>4 DEF Promised
  <2>10. QED
    BY <1>12, <2>1, <2>7, <2>8, <2>9 DEF Promised
<1>13. CASE ClearLands \/ ClearFails
  BY <1>12, <1>13 DEF ClearLands, ClearFails, process, memory
<1>14. CASE FnThrows
  BY <1>0, <1>14 DEF FnThrows, Promised, Flushing, process, memory, flush, history
<1>15. CASE Rollback
  <2>1. tx' = "none" /\ Touched' = {} /\ UNCHANGED <<up, saving, disk, durable>>
    BY <1>15, ClosedEmpties DEF Rollback, process, history
  <2>2. \A n \in Name : mem'[n] = IF n \in Touched THEN snap[n] ELSE mem[n]
    BY <1>15 DEF Rollback, Restore
  <2>3. \A n \in Name : durable[n] <= mem'[n].version
    BY <1>15, <2>2 DEF Promised, Rollback
  <2>4. \A n \in Name : saving[n] # NoImage => saving[n].version <= mem'[n].version
    BY <1>0, <2>2 DEF Promised
  <2>5. QED
    BY <2>1, <2>3, <2>4 DEF Promised, Flushing
<1>16. CASE Crash
  <2>1. tx' = "none" /\ Touched' = {} /\ ~up' /\ saving' = NoFlight /\ UNCHANGED <<disk, durable>>
    BY <1>16, ToSetEmpty DEF Crash, Touched
  <2>2. QED
    BY <2>1 DEF Promised, Flushing, NoFlight
<1>17. CASE Restart
  <2>1. mem' = disk /\ tx' = "none" /\ touched' = <<>> /\ saving' = NoFlight
        /\ UNCHANGED <<disk, durable>>
    BY <1>17 DEF Restart, LoadAll, context, flush, Flow
  <2>2. Touched' = {}
    BY <2>1, ToSetEmpty DEF Touched
  <2>3. QED
    BY <2>1, <2>2 DEF Promised, Flushing, NoFlight
<1>18. QED
  BY <1>1, <1>1a, <1>2, <1>3, <1>4, <1>5, <1>6, <1>7, <1>8, <1>9, <1>10, <1>11, <1>13, <1>14, <1>15,
     <1>16, <1>17 DEF Next, TxStep

\* After a commit or a save that a caller was told of, a crash loses nothing of
\* it: for every batch size, with lost answers, and whatever fails in between.
THEOREM CommitsAreDurable == Spec => []CommitIsDurable
<1> DEFINE Inv == Types /\ Flow /\ (Apart => Promised)
<1>1. Init => Inv
  BY InitTypes, InitFlow, InitPromised
<1>2. Inv /\ Next => Inv'
  <2>1. Next => (Apart' <=> Apart)
    BY DEF Next, Apart
  <2>2. QED
    BY <2>1, StepTypes, StepFlow, StepPromised
<1>3. Inv /\ UNCHANGED vars => Inv'
  <2> SUFFICES ASSUME Inv, UNCHANGED vars PROVE Inv'
    OBVIOUS
  <2>1. Types' /\ Flow'
    BY SameTypes, SameFlow
  <2>2. (Apart => Promised)'
    BY DEF Apart, Promised, Flushing, Touched, vars, process, memory, context, flush, history
  <2>3. QED
    BY <2>1, <2>2
<1>4. Inv => CommitIsDurable
  BY DEF Promised, CommitIsDurable
<1> HIDE DEF Inv
<1>5. QED
  BY <1>1, <1>2, <1>3, <1>4, PTL DEF Spec

-----------------------------------------------------------------------------
(* The sentinel. *)

LEMMA InitAlarm == Init => Alarm
BY EmptyIsContents DEF Init, Alarm, Name

LEMMA StepAlarm == Types /\ Flow /\ Alarm /\ Meta \notin setup.saved /\ Next => Alarm'
<1> SUFFICES ASSUME Types, Flow, Alarm, Meta \notin setup.saved, Next PROVE Alarm'
  OBVIOUS
<1>0. Meta \in Name /\ saving[Meta] = NoImage
  BY VersionsAreNumbers DEF Flow
<1>1. ASSUME NEW n \in Name, Write(n) \/ MarkDirty(n) \/ TxWrite(n) \/ Save(n) \/ SaveFails(n)
      PROVE  Alarm'
  BY <1>1 DEF Write, MarkDirty, TxWrite, Save, SaveFails, Alarm, Flushing, process, memory, context, flush, history
<1>2. ASSUME NEW n \in Name, SaveLands(n) PROVE Alarm'
  <2>1. disk'[Meta] = disk[Meta]
    BY <1>0, <1>2 DEF SaveLands, Types, Versions
  <2>2. QED
    BY <1>2, <2>1 DEF SaveLands, Alarm, Flushing, context, flush
<1>3. CASE Begin \/ CommitNothing \/ Serialise \/ BatchFails \/ FnThrows \/ Rollback
  BY <1>3 DEF Begin, CommitNothing, Serialise, BatchFails, FnThrows, Rollback, Closed,
              Alarm, Flushing, process, memory, flush, history
<1>4. CASE Store
  BY <1>4 DEF Store, Alarm, Flushing, process, memory, context, history
<1>5. CASE BatchReturns
  <2>1. image'[Meta].flush = "closed"
    <3>1. mem' = [mem EXCEPT ![Meta].flush = "closed"] /\ image' = [image EXCEPT ![Meta] = mem'[Meta]]
      BY <1>5 DEF BatchReturns, CloseSentinel
    <3>2. mem[Meta] \in Contents /\ mem \in [Name -> Contents] /\ image \in [Name -> Contents]
      BY <1>0 DEF Types, Versions
    <3>3. mem'[Meta].flush = "closed"
      BY <1>0, <3>1, <3>2 DEF Contents
    <3>4. QED
      BY <1>0, <3>1, <3>2, <3>3
  <2>2. QED
    BY <1>5, <2>1 DEF BatchReturns, Alarm, Flushing, process, history
<1>6. CASE ClearLands
  <2>1. disk'[Meta] = image[Meta] /\ image[Meta].flush = "closed"
    BY <1>0, <1>6 DEF ClearLands, Alarm, Types, Versions
  <2>2. tx' = "none"
    BY <1>6 DEF ClearLands, Commit, Closed
  <2>3. QED
    BY <2>1, <2>2 DEF Alarm
<1>7. CASE ClearFails
  BY <1>7 DEF ClearFails, Commit, Closed, Alarm
<1>8. CASE Crash
  BY <1>8 DEF Crash, Alarm, Flushing
<1>9. CASE Restart
  BY <1>9 DEF Restart, Alarm, Flushing, context, flush
<1>10. QED
  BY <1>1, <1>2, <1>3, <1>4, <1>5, <1>6, <1>7, <1>8, <1>9 DEF Next, TxStep

\* A load warns of an incomplete flush only when a flush failed or was cut off
\* and no other has ended since, unless _meta is saved by itself.
THEOREM AlarmsAreReal == Spec => AlarmIsReal
<1> DEFINE Inv == Types /\ Flow /\ (Meta \notin setup.saved => Alarm)
<1>1. Init => Inv
  BY InitTypes, InitFlow, InitAlarm
<1>2. Inv /\ Next => Inv'
  <2>1. Next => setup' = setup
    BY DEF Next
  <2>2. QED
    BY <2>1, StepTypes, StepFlow, StepAlarm
<1>3. Inv /\ UNCHANGED vars => Inv'
  <2> SUFFICES ASSUME Inv, UNCHANGED vars PROVE Inv'
    OBVIOUS
  <2>1. Types' /\ Flow'
    BY SameTypes, SameFlow
  <2>2. (Meta \notin setup.saved => Alarm)'
    BY DEF Alarm, Flushing, vars, process, memory, context, flush, history
  <2>3. QED
    BY <2>1, <2>2
<1>4. Inv /\ Next => (~up /\ up' /\ reported' /\ Meta \notin setup.saved => cutShort)
  <2> SUFFICES ASSUME Inv, Next, ~up, up', reported', Meta \notin setup.saved PROVE cutShort
    OBVIOUS
  <2>1. Restart
    BY DEF Next, TxStep, Write, MarkDirty, TxWrite, Save, SaveLands, SaveFails, Begin, CommitNothing, Serialise,
           Store, BatchFails, BatchReturns, ClearLands, ClearFails, FnThrows, Rollback, Crash
  <2>2. disk[Meta].flush = "open" /\ tx = "none"
    BY <2>1 DEF Restart, LoadAll, Flow
  <2>3. QED
    BY <2>2 DEF Alarm, Flushing
<1> HIDE DEF Inv
<1>5. QED
  BY <1>1, <1>2, <1>3, <1>4, PTL DEF Spec, AlarmIsReal

-----------------------------------------------------------------------------
(* All of a batch or nothing of it, over an adapter that stores it at once. *)

LEMMA NamesAreFinite ==
  /\ IsFiniteSet(Name)
  /\ Cardinality(Name) = Cardinality(Coll) + 1 /\ Cardinality(Coll) \in Nat
BY FlushStoreAssumption, FS_AddElement, FS_CardinalityType DEF Name

LEMMA InitWhole == Init => Whole
BY ToSetEmpty DEF Init, Whole, Partial, Touched

\* Touching nothing leaves the counts equal.
LEMMA NothingTouched ==
  ASSUME touched' = <<>> PROVE Touched' = {} /\ Len(touched') = Cardinality(Touched')
BY ToSetEmpty, FS_EmptySet DEF Touched

LEMMA SamePartial ==
  ASSUME ~Partial, batch' = batch,
         \A n \in batch : image'[n].version = image[n].version /\ disk'[n] = disk[n]
  PROVE  ~Partial'
BY DEF Partial, Stored

\* A batch has no more entries than there are names.
LEMMA EntriesFit ==
  ASSUME Types, Len(touched) = Cardinality(Touched)
  PROVE  Len(Entries) <= Cardinality(Name)
<1>1. touched \in Seq(Name) /\ Touched \in SUBSET Name /\ Meta \in Name
  BY VersionsAreNumbers DEF Types
<1>2. IsFiniteSet(Touched) /\ Cardinality(Touched) <= Cardinality(Name)
  BY <1>1, NamesAreFinite, FS_Subset
<1>3. CASE Meta \in Touched
  BY <1>2, <1>3 DEF Entries
<1>4. CASE Meta \notin Touched
  <2>1. Len(Entries) = Len(touched) + 1
    BY <1>1, <1>4, AppendProperties DEF Entries
  <2>2. Touched \union {Meta} \in SUBSET Name
        /\ Cardinality(Touched \union {Meta}) = Cardinality(Touched) + 1
    BY <1>1, <1>2, <1>4, FS_AddElement
  <2>3. Cardinality(Touched \union {Meta}) <= Cardinality(Name)
    BY <2>2, NamesAreFinite, FS_Subset
  <2>4. QED
    BY <2>1, <2>2, <2>3
<1>5. QED
  BY <1>3, <1>4

\* Where a batch is no longer than a step, the step stores it.
LEMMA StepStoresAll ==
  ASSUME Types, Atomic, Len(todo) <= Cardinality(Name), StoreStep
  PROVE  todo' = <<>> /\ \A n \in Name : disk'[n] = IF n \in ToSet(todo) THEN image[n] ELSE disk[n]
<1>1. todo \in Seq(Name) /\ Len(todo) \in Nat /\ setup.chunk \in Nat
  BY FlushStoreAssumption, LenProperties DEF Types, Setup
<1>2. StepSize = Len(todo)
  BY <1>1, NamesAreFinite DEF StepSize, Atomic
<1>3. SubSeq(todo, 1, Len(todo)) = todo
  BY <1>1
<1>4. SubSeq(todo, Len(todo) + 1, Len(todo)) = <<>>
  BY <1>1
<1>5. QED
  BY <1>2, <1>3, <1>4 DEF StoreStep

\* Each name is touched once, and a batch has no more entries than names.
LEMMA InitCounted == Init => Counted
BY ToSetEmpty, FS_EmptySet DEF Init, Counted, Touched

LEMMA StepCounted == Types /\ Flow /\ Counted /\ Atomic /\ Next => Counted'
<1> SUFFICES ASSUME Types, Flow, Counted, Atomic, Next PROVE Counted'
  OBVIOUS
<1>0. Touched \in SUBSET Name /\ (UNCHANGED touched => UNCHANGED Touched)
  BY VersionsAreNumbers DEF Touched
<1>1. ASSUME UNCHANGED <<touched, todo>> PROVE Counted'
  BY <1>0, <1>1 DEF Counted
<1>2. ASSUME touched' = <<>>, todo' = <<>> PROVE Counted'
  BY <1>2, NothingTouched DEF Counted
<1>3. ASSUME NEW n \in Name, TxWrite(n) PROVE Counted'
  <2>1. Touch(n) /\ tx = "running" /\ UNCHANGED todo
    BY <1>3 DEF TxWrite, flush
  <2>2. Touched' = Touched \union {n}
    BY <2>1, TouchAdds
  <2>3. todo' = <<>>
    BY <2>1 DEF Flow
  <2>4. Len(touched') = Cardinality(Touched')
    <3>1. CASE n \in Touched
      BY <2>1, <3>1, TouchAdds DEF Counted, Touched
    <3>2. CASE n \notin Touched
      <4>1. IsFiniteSet(Touched)
        BY <1>0, NamesAreFinite, FS_Subset
      <4>2. Cardinality(Touched \union {n}) = Cardinality(Touched) + 1
        BY <3>2, <4>1, FS_AddElement
      <4>3. Len(touched') = Len(touched) + 1
        BY <2>1, <3>2, TouchAdds
      <4>4. QED
        BY <2>2, <4>2, <4>3 DEF Counted
    <3>3. QED
      BY <3>1, <3>2
  <2>5. QED
    BY <2>3, <2>4 DEF Counted
<1>4. CASE Serialise
  <2>1. todo' = Entries /\ UNCHANGED touched
    BY <1>4 DEF Serialise
  <2>2. Touched \subseteq ToSet(todo)' /\ Len(todo') <= Cardinality(Name)
    BY <2>1, EntriesAreTouched, EntriesFit DEF Counted
  <2>3. QED
    BY <1>0, <2>1, <2>2 DEF Counted
<1>5. UNCHANGED <<touched, todo>> \/ (touched' = <<>> /\ todo' = <<>>)
        \/ (\E n \in Name : TxWrite(n)) \/ Serialise \/ Store \/ BatchFails
  BY ClosedEmpties DEF Next, TxStep, Flow, Write, MarkDirty, Save, SaveLands, SaveFails, Begin, CommitNothing,
     BatchReturns, ClearLands, ClearFails, Commit, FnThrows, Rollback, Crash, Restart, context, flush
<1>6. CASE BatchFails
  BY <1>0, <1>6 DEF BatchFails, Counted
<1>7. CASE Store
  <2>1. todo # <<>> /\ StoreStep /\ UNCHANGED touched
    BY <1>7 DEF Store, context
  <2>2. todo' = <<>>
    BY <2>1, StepStoresAll DEF Counted
  <2>3. QED
    BY <1>0, <2>1, <2>2 DEF Counted
<1>8. QED
  BY <1>1, <1>2, <1>3, <1>4, <1>5, <1>6, <1>7

LEMMA SameCounted == Counted /\ UNCHANGED vars => Counted'
BY DEF Counted, Touched, vars, context, flush

LEMMA StepWhole ==
  Types /\ Flow /\ Counted /\ Promised /\ Whole /\ Apart /\ Atomic /\ Next => Whole'
<1> SUFFICES ASSUME Types, Flow, Counted, Promised, Whole, Apart, Atomic, Next PROVE Whole'
  OBVIOUS
<1>0. /\ setup' = setup /\ Meta \in Name /\ Meta \notin Coll /\ Touched \in SUBSET Name
      /\ UNCHANGED touched => UNCHANGED Touched
      /\ batch \in SUBSET Name /\ batch \subseteq setup.inTx /\ Touched \subseteq setup.inTx
      /\ \A n \in setup.inTx \intersect Name : saving[n] = NoImage
  BY VersionsAreNumbers, FlushStoreAssumption DEF Next, Types, Touched, Flow, Whole, Apart
<1> USE VersionsAreNumbers
<1>1. ASSUME NEW n \in Name, Write(n) PROVE Whole'
  <2>1. Mutated(n)
    BY <1>1 DEF Write
  <2>2. \A m \in Name : mem'[m].version >= mem[m].version /\ mem'[m].version \in Nat
    BY <2>1, MutatedTypes DEF Versions, Contents
  <2>3. UNCHANGED <<tx, touched, batch, image, todo, disk>>
    BY <1>1 DEF Write, context, flush
  <2>4. tx = "running" => \A m \in Touched : disk[m].version < mem'[m].version
    BY <1>0, <2>2 DEF Whole
  <2>5. QED
    BY <1>0, <2>3, <2>4, SamePartial DEF Whole
<1>1a. ASSUME NEW n \in Name, MarkDirty(n) PROVE Whole'
  <2>1. UNCHANGED <<mem, tx, touched, batch, image, todo, disk>>
    BY <1>1a DEF MarkDirty, context, flush
  <2>2. QED
    BY <1>0, <2>1, SamePartial DEF Whole
<1>2. ASSUME NEW n \in Name, TxWrite(n) PROVE Whole'
  <2>1. Mutated(n) /\ Touch(n) /\ tx = "running" /\ UNCHANGED <<batch, image, todo, disk>>
    BY <1>2 DEF TxWrite, flush
  <2>2. Touched' = Touched \union {n}
    BY <2>1, TouchAdds
  <2>3. mem'[n].version = writes + 1 /\ \A m \in Name \ {n} : mem'[m] = mem[m]
    BY <2>1, MutatedTypes
  <2>4. disk[n].version <= writes /\ writes \in Nat
    BY FlushStoreAssumption DEF Types, Versions
  <2>5. \A m \in Touched' : disk[m].version < mem'[m].version
    <3>1. disk[n].version < mem'[n].version
      BY <2>3, <2>4
    <3>2. \A m \in Touched \ {n} : disk[m].version < mem'[m].version
      BY <1>0, <2>1, <2>3 DEF Whole
    <3>3. QED
      BY <2>2, <3>1, <3>2
  <2>6. QED
    BY <1>0, <2>1, <2>5, SamePartial DEF Whole
<1>3. ASSUME NEW n \in Name, Save(n) \/ SaveFails(n) PROVE Whole'
  <2>1. UNCHANGED <<mem, tx, touched, batch, image, todo, disk>>
    BY <1>3 DEF Save, SaveFails, memory, context, flush
  <2>2. QED
    BY <1>0, <2>1, SamePartial DEF Whole
<1>4. ASSUME NEW n \in Name, SaveLands(n) PROVE Whole'
  <2>1. n \notin setup.inTx
    BY <1>0, <1>4 DEF SaveLands
  <2>2. \A m \in Name \ {n} : disk'[m] = disk[m]
    BY <1>4 DEF SaveLands, Types, Versions
  <2>3. UNCHANGED <<mem, tx, touched, batch, image, todo>>
    BY <1>4 DEF SaveLands, context, flush
  <2>4. \A m \in batch \union Touched : disk'[m] = disk[m]
    BY <1>0, <2>1, <2>2
  <2>5. QED
    BY <1>0, <2>3, <2>4, SamePartial DEF Whole
<1>5. CASE Begin
  <2>1. UNCHANGED <<mem, touched, batch, image, todo, disk>> /\ touched = <<>>
    BY <1>5 DEF Begin, memory, flush, Flow
  <2>2. Touched = {}
    BY <2>1, ToSetEmpty DEF Touched
  <2>3. QED
    BY <1>0, <2>1, <2>2, SamePartial DEF Whole
<1>6. CASE CommitNothing
  <2>1. UNCHANGED <<batch, image, todo, disk>> /\ touched' = <<>> /\ tx' = "none"
    BY <1>6, ClosedEmpties DEF CommitNothing, flush
  <2>2. todo' = <<>>
    BY <1>6, <2>1 DEF CommitNothing, Flow
  <2>3. QED
    BY <1>0, <2>1, <2>2, NothingTouched, SamePartial DEF Whole
<1>7. CASE Serialise
  <2>1. /\ batch' = Touched /\ image' = mem' /\ todo' = Entries /\ tx = "running" /\ tx' = "writing"
        /\ UNCHANGED <<touched, disk>>
    BY <1>7 DEF Serialise
  <2>2. \A n \in Name : mem'[n].version = mem[n].version
    BY <1>7, SentinelTypes DEF Serialise, OpenSentinel, process, Flush
  <2>3. \A n \in batch' : disk'[n].version < image'[n].version
    BY <1>0, <2>1, <2>2 DEF Whole
  <2>4. ~Partial'
    <3>1. \A n \in batch' : disk'[n].version \in Nat /\ image'[n].version \in Nat
      BY <1>0, <2>1, <2>2
    <3>2. \A n \in batch' : ~Stored(n)'
      BY <2>3, <3>1 DEF Stored
    <3>3. QED
      BY <3>2 DEF Partial
  <2>5. QED
    BY <1>0, <2>1, <2>4 DEF Whole
<1>8. CASE Store
  <2>1. /\ UNCHANGED <<mem, tx, touched, batch, image>> /\ batch = Touched /\ tx = "writing"
        /\ todo # <<>> /\ StoreStep
    BY <1>8 DEF Store, memory, context, Flow, Flushing
  <2>2. todo' = <<>> /\ \A n \in batch : disk'[n] = image[n]
    BY <1>0, <2>1, StepStoresAll DEF Counted
  <2>3. ~Partial'
    <3>1. \A n \in batch' : Stored(n)'
      BY <1>0, <2>1, <2>2 DEF Stored
    <3>2. QED
      BY <3>1 DEF Partial
  <2>4. QED
    BY <1>0, <2>1, <2>2, <2>3 DEF Whole
<1>9. CASE BatchFails
  <2>1. UNCHANGED <<touched, batch, image, disk>> /\ todo' = <<>> /\ tx' = "failing"
    BY <1>9 DEF BatchFails
  <2>2. QED
    BY <1>0, <2>1, SamePartial DEF Whole
<1>10. CASE BatchReturns
  <2>1. UNCHANGED <<touched, batch, todo, disk>> /\ todo = <<>> /\ tx' = "clearing" /\ tx = "writing"
    BY <1>10 DEF BatchReturns
  <2>2. \A n \in Name : mem'[n].version = mem[n].version
    BY <1>10, SentinelTypes DEF BatchReturns, CloseSentinel, process, Flush
  <2>3. \A n \in Name : image'[n] = IF n = Meta THEN mem'[n] ELSE image[n]
    BY <1>10 DEF BatchReturns, CloseSentinel, Types, Versions
  <2>4. \A n \in batch : image'[n].version = image[n].version
    BY <1>0, <2>1, <2>2, <2>3 DEF Flow, Flushing
  <2>5. QED
    BY <1>0, <2>1, <2>4, SamePartial DEF Whole
<1>11. CASE ClearLands \/ ClearFails
  <2>1. /\ UNCHANGED <<batch, image, todo>> /\ tx = "clearing" /\ tx' = "none" /\ touched' = <<>>
        /\ disk' = disk \/ disk' = [disk EXCEPT ![Meta] = image[Meta]]
    BY <1>11, ClosedEmpties DEF ClearLands, ClearFails, Commit, flush
  <2>2. todo = <<>> /\ batch = Touched
    BY <2>1 DEF Flow, Flushing
  <2>3. \A n \in batch : disk[n].version = image[n].version
    BY <2>1, <2>2, ToSetEmpty DEF Promised, Flushing
  <2>4. \A n \in batch : disk'[n].version = image[n].version
    BY <1>0, <2>1, <2>3 DEF Types, Versions
  <2>5. ~Partial'
    <3>1. \A n \in batch' : Stored(n)'
      BY <1>0, <2>1, <2>4 DEF Stored
    <3>2. QED
      BY <3>1 DEF Partial
  <2>6. QED
    BY <1>0, <2>1, <2>2, <2>5, NothingTouched DEF Whole
<1>12. CASE FnThrows
  <2>1. UNCHANGED <<touched, batch, image, todo, disk>> /\ tx' = "failing"
    BY <1>12 DEF FnThrows, flush
  <2>2. QED
    BY <1>0, <2>1, SamePartial DEF Whole
<1>13. CASE Rollback
  <2>1. UNCHANGED <<batch, image, todo, disk>> /\ touched' = <<>> /\ tx' = "none" /\ todo = <<>>
    BY <1>13, ClosedEmpties DEF Rollback, flush, Flow
  <2>2. QED
    BY <1>0, <2>1, NothingTouched, SamePartial DEF Whole
<1>14. CASE Crash
  <2>1. UNCHANGED <<batch, image, disk>> /\ touched' = <<>> /\ todo' = <<>> /\ tx' = "none"
    BY <1>14 DEF Crash
  <2>2. QED
    BY <1>0, <2>1, NothingTouched, SamePartial DEF Whole
<1>15. CASE Restart
  <2>1. UNCHANGED <<batch, image, disk, touched, todo>> /\ tx' = "none"
    BY <1>15 DEF Restart, context, flush, Flow
  <2>2. QED
    BY <1>0, <2>1, SamePartial DEF Whole
<1>16. QED
  BY <1>1, <1>1a, <1>2, <1>3, <1>4, <1>5, <1>6, <1>7, <1>8, <1>9, <1>10, <1>11, <1>12, <1>13, <1>14,
     <1>15 DEF Next, TxStep

\* Over an adapter that stores a batch in one step, whatever a transaction wrote
\* to however many collections is stored together, wherever the process stops.
THEOREM CommitsAreWhole == Spec => []AllOrNothing
<1> DEFINE Inv == Types /\ Flow /\ (Atomic => Counted) /\ (Apart => Promised) /\ (Apart /\ Atomic => Whole)
<1>1. Init => Inv
  BY InitTypes, InitFlow, InitCounted, InitPromised, InitWhole
<1>2. Inv /\ Next => Inv'
  <2>1. Next => (Apart' <=> Apart) /\ (Atomic' <=> Atomic)
    BY DEF Next, Apart, Atomic
  <2>2. QED
    BY <2>1, StepTypes, StepFlow, StepCounted, StepPromised, StepWhole
<1>3. Inv /\ UNCHANGED vars => Inv'
  <2> SUFFICES ASSUME Inv, UNCHANGED vars PROVE Inv'
    OBVIOUS
  <2>1. Types' /\ Flow' /\ (Atomic => Counted)'
    BY SameTypes, SameFlow, SameCounted DEF Atomic, vars
  <2>2. (Apart => Promised)'
    BY DEF Apart, Promised, Flushing, Touched, vars, process, memory, context, flush, history
  <2>3. (Apart /\ Atomic => Whole)'
    BY DEF Apart, Atomic, Whole, Partial, Stored, Touched, vars, memory, context, flush
  <2>4. QED
    BY <2>1, <2>2, <2>3
<1>4. Inv => AllOrNothing
  BY DEF Whole, AllOrNothing
<1> HIDE DEF Inv
<1>5. QED
  BY <1>1, <1>2, <1>3, <1>4, PTL DEF Spec

-----------------------------------------------------------------------------
(* What is not marked dirty is stored. *)

LEMMA InitClean == Init => Clean
BY ToSetEmpty DEF Init, Clean, Touched, Name

\* A step that marks, or takes the mark of, no other than what it says.
LEMMA SameClean ==
  ASSUME Clean, UNCHANGED <<setup, disk, snap, snapDirty, touched, tx, todo, image>>,
         up' => up, overtaken \subseteq overtaken',
         \A n \in Coll \ setup.saved : (n \notin Pending' => mem'[n] = mem[n])
                                       /\ (n \in Pending => n \in Pending')
  PROVE  Clean'
BY DEF Clean, Touched

LEMMA StepClean ==
  Types /\ Flow /\ Counted /\ Clean /\ Atomic /\ ~setup.answersLost /\ Next => Clean'
<1> SUFFICES ASSUME Types, Flow, Counted, Clean, Atomic, ~setup.answersLost, Next PROVE Clean'
  OBVIOUS
<1>0. /\ setup' = setup /\ Meta \in Name /\ Meta \notin Coll /\ Touched \in SUBSET Name
      /\ UNCHANGED touched => UNCHANGED Touched
      /\ Coll \subseteq Name
      /\ UNCHANGED unmarked => UNCHANGED Unmarked
      /\ UNCHANGED <<dirty, unmarked, overtaken>> => UNCHANGED Pending
  BY VersionsAreNumbers, FlushStoreAssumption DEF Next, Touched, Unmarked, Pending
<1>1. ASSUME NEW n \in Name, Write(n) PROVE Clean'
  <2>1. Mutated(n) /\ UNCHANGED <<up, tx, touched, snap, snapDirty, image, todo, disk, overtaken>>
    BY <1>1 DEF Write, context, flush
  <2>2. dirty' = dirty /\ \A m \in Name \ {n} : mem'[m] = mem[m]
    BY <2>1, MutatedTypes
  <2>3. n \in Unmarked' /\ Unmarked \subseteq Unmarked'
    BY <2>1, MutatedUnmarked
  <2>4. n \in Pending' /\ Pending \subseteq Pending'
    BY <2>1, <2>2, <2>3 DEF Pending
  <2>5. QED
    BY <1>0, <2>1, <2>2, <2>4, SameClean
<1>1a. ASSUME NEW n \in Name, MarkDirty(n) PROVE Clean'
  <2>1. /\ UNCHANGED <<up, mem, tx, touched, snap, snapDirty, image, todo, disk, overtaken>>
        /\ dirty' = dirty \union {n}
    BY <1>1a DEF MarkDirty, process, context, flush
  <2>2. PICK m \in unmarked : m[1] = n /\ unmarked' = unmarked \ {m}
    BY <1>1a DEF MarkDirty
  <2>3. Unmarked \subseteq Unmarked' \union {n}
    BY <2>2 DEF Unmarked
  <2>4. Pending \subseteq Pending'
    BY <2>1, <2>3 DEF Pending
  <2>5. QED
    BY <1>0, <2>1, <2>4, SameClean
<1>2. ASSUME NEW n \in Name, TxWrite(n) PROVE Clean'
  <2>1. /\ up /\ Mutated(n) /\ Touch(n) /\ tx = "running"
        /\ UNCHANGED <<up, tx, image, todo, disk>>
    BY <1>2 DEF TxWrite, flush
  <2>2. Touched' = Touched \union {n} /\ \A m \in Touched : snap'[m] = snap[m]
    BY <2>1, TouchAdds
  <2>3. dirty' = dirty /\ \A m \in Name \ {n} : mem'[m] = mem[m]
    BY <2>1, MutatedTypes
  <2>4. /\ \A m \in Touched : m \in snapDirty' <=> m \in snapDirty
        /\ overtaken \subseteq overtaken'
    BY <2>1 DEF Touch
  <2>5. Unmarked \subseteq Unmarked'
    BY <2>1, MutatedUnmarked
  <2>6. Pending \subseteq Pending'
    BY <2>3, <2>4, <2>5 DEF Pending
  <2>7. ASSUME n \notin Touched, n \in Coll \ setup.saved
        PROVE  n \in snapDirty' \union overtaken' \/ snap'[n] = disk[n]
    <3>1. /\ snap'[n] = mem[n]
          /\ n \in dirty => n \in snapDirty'
          /\ n \in Unmarked \ dirty => n \in overtaken'
      BY <2>1, <2>7, TouchAdds DEF Touch
    <3>2. n \notin Pending => mem[n] = disk[n]
      BY <2>1, <2>7 DEF Clean
    <3>3. n \in Pending => n \in snapDirty' \union overtaken'
      BY <2>4, <3>1 DEF Pending
    <3>4. QED
      BY <3>1, <3>2, <3>3
  <2>8. todo = <<>>
    BY <2>1 DEF Flow
  <2>9. ASSUME NEW m \in Coll \ setup.saved, m \notin Touched' \union Pending'
        PROVE  mem'[m] = disk'[m]
    BY <1>0, <2>1, <2>2, <2>3, <2>6, <2>9 DEF Clean
  <2>10. ASSUME NEW m \in Coll \ setup.saved, m \in Touched'
         PROVE  m \in snapDirty' \union overtaken' \/ snap'[m] = disk'[m]
    <3>1. CASE m \in Touched
      BY <2>1, <2>2, <2>4, <3>1 DEF Clean
    <3>2. CASE m \notin Touched
      BY <2>1, <2>2, <2>7, <2>10, <3>2
    <3>3. QED
      BY <3>1, <3>2
  <2>11. QED
    BY <1>0, <2>1, <2>8, <2>9, <2>10 DEF Clean
<1>3. ASSUME NEW n \in Name, Save(n) \/ SaveFails(n) PROVE Clean'
  BY <1>0, <1>3, SameClean DEF Save, SaveFails, process, memory, context, flush
<1>4. ASSUME NEW n \in Name, SaveLands(n) PROVE Clean'
  <2>1. n \in setup.saved
    BY <1>4 DEF SaveLands, Flow
  <2>2. \A m \in Name \ {n} : disk'[m] = disk[m]
    BY <1>4 DEF SaveLands, Types, Versions
  <2>3. /\ UNCHANGED <<up, mem, unmarked, overtaken, tx, touched, snap, snapDirty, image, todo>>
        /\ dirty' = dirty \ {n}
    BY <1>4 DEF SaveLands, process, context, flush
  <2>4. Pending \subseteq Pending' \union {n}
    BY <1>0, <2>3 DEF Pending
  <2>5. QED
    BY <1>0, <2>1, <2>2, <2>3, <2>4 DEF Clean
<1>5. CASE Begin
  <2>1. UNCHANGED <<up, mem, dirty, unmarked, overtaken, touched, snap, snapDirty, image, todo, disk>>
        /\ Touched = {}
    BY <1>5, ToSetEmpty DEF Begin, process, memory, flush, Flow, Touched
  <2>2. QED
    BY <1>0, <2>1 DEF Clean
<1>6. CASE CommitNothing
  <2>1. UNCHANGED <<up, mem, dirty, unmarked, overtaken, disk>> /\ Touched = {} /\ Touched' = {}
    BY <1>6, ClosedEmpties, ToSetEmpty DEF CommitNothing, process, memory, Touched
  <2>2. QED
    BY <1>0, <2>1 DEF Clean
<1>7. CASE Serialise
  <2>1. /\ tx' = "writing" /\ tx = "running" /\ image' = mem' /\ todo' = Entries /\ mem' = OpenSentinel
        /\ UNCHANGED <<up, dirty, unmarked, overtaken, touched, snap, snapDirty, disk>>
    BY <1>7 DEF Serialise, process
  <2>2. \A n \in Coll : mem'[n] = mem[n]
    BY <1>0, <2>1 DEF OpenSentinel, Types, Versions
  <2>3. todo' # <<>>
    BY <2>1, EntriesAreTouched, ToSetEmpty
  <2>4. QED
    BY <1>0, <2>1, <2>2, <2>3 DEF Clean
<1>8. CASE Store
  <2>1. /\ UNCHANGED <<up, mem, dirty, unmarked, overtaken, tx, touched, snap, snapDirty, image>>
        /\ tx = "writing" /\ todo # <<>> /\ StoreStep
    BY <1>8 DEF Store, process, memory, context
  <2>2. todo' = <<>> /\ \A n \in Name : disk'[n] = IF n \in ToSet(todo) THEN image[n] ELSE disk[n]
    BY <2>1, StepStoresAll DEF Counted
  <2>3. Touched \subseteq ToSet(todo) /\ ToSet(todo) \subseteq Touched \union {Meta}
    BY <2>1 DEF Counted, Flow
  <2>4. \A n \in Coll : disk'[n] = IF n \in Touched THEN image[n] ELSE disk[n]
    BY <1>0, <2>2, <2>3
  <2>5. QED
    BY <1>0, <2>1, <2>2, <2>4 DEF Clean
<1>9. CASE BatchFails
  <2>1. /\ UNCHANGED <<up, mem, dirty, unmarked, overtaken, touched, snap, snapDirty, image, disk>>
        /\ todo # <<>> /\ todo' = <<>> /\ tx' = "failing"
    BY <1>9 DEF BatchFails, process, memory
  <2>2. QED
    BY <1>0, <2>1 DEF Clean
<1>10. CASE BatchReturns
  <2>1. /\ UNCHANGED <<up, unmarked, touched, snap, snapDirty, todo, disk>> /\ dirty' = dirty \ Touched
        /\ overtaken' = (overtaken \ Touched)
                         \union {n \in Touched \ Unmarked : mem[n].version # image[n].version}
        /\ tx = "writing" /\ tx' = "clearing" /\ todo = <<>> /\ CloseSentinel
    BY <1>10 DEF BatchReturns, process
  <2>2. \A n \in Coll : mem'[n] = mem[n]
    BY <1>0, <2>1 DEF CloseSentinel, Types, Versions
  <2>3. \A n \in Coll \ Touched : n \in Pending => n \in Pending'
    BY <1>0, <2>1 DEF Pending
  <2>4. ASSUME NEW n \in Coll \ setup.saved, n \in Touched, n \notin Pending'
        PROVE  disk'[n] = mem'[n]
    <3>1. mem[n].version = image[n].version
      BY <1>0, <2>1, <2>4 DEF Pending
    <3>2. mem[n] = image[n]
      <4>1. /\ mem[n] \in Contents /\ image[n] \in Contents
            /\ mem[n].flush = "none" /\ image[n].flush = "none"
        BY <1>0, <2>4 DEF Types, Versions
      <4>2. \A c \in Contents : c = [version |-> c.version, flush |-> c.flush]
        BY DEF Contents
      <4>3. QED
        BY <3>1, <4>1, <4>2
    <3>3. disk[n] = image[n]
      BY <2>1, <2>4 DEF Clean
    <3>4. QED
      BY <1>0, <2>1, <2>2, <3>2, <3>3
  <2>5. ASSUME NEW n \in Coll \ setup.saved, n \notin Touched \union Pending', up
        PROVE  mem'[n] = disk'[n]
    BY <1>0, <2>1, <2>2, <2>3, <2>5 DEF Clean
  <2>6. QED
    BY <1>0, <2>1, <2>4, <2>5 DEF Clean
<1>11. CASE ClearLands \/ ClearFails
  <2>1. /\ UNCHANGED <<up, mem, dirty, unmarked, overtaken, todo>>
        /\ tx = "clearing" /\ tx' = "none" /\ Touched' = {}
        /\ disk' = disk \/ disk' = [disk EXCEPT ![Meta] = image[Meta]]
    BY <1>11, ClosedEmpties DEF ClearLands, ClearFails, Commit, process, memory, flush
  <2>2. \A n \in Coll : disk'[n] = disk[n]
    BY <1>0, <2>1 DEF Types, Versions
  <2>3. QED
    BY <1>0, <2>1, <2>2 DEF Clean
<1>12. CASE FnThrows
  <2>1. /\ UNCHANGED <<up, mem, dirty, unmarked, overtaken, touched, snap, snapDirty, image, todo, disk>>
        /\ tx = "running" /\ tx' = "failing"
    BY <1>12 DEF FnThrows, process, memory, flush
  <2>2. QED
    BY <1>0, <2>1 DEF Clean
<1>13. CASE Rollback
  <2>1. /\ UNCHANGED <<up, unmarked, overtaken, disk>> /\ Touched' = {} /\ tx = "failing" /\ Restore
    BY <1>13, ClosedEmpties DEF Rollback, process
  <2>2. /\ dirty' = (dirty \ Touched) \union snapDirty
        /\ \A n \in Name : mem'[n] = IF n \in Touched THEN snap[n] ELSE mem[n]
    BY <2>1 DEF Restore
  <2>3. Pending \subseteq Pending' \union Touched /\ snapDirty \union overtaken \subseteq Pending'
    BY <1>0, <2>1, <2>2 DEF Pending
  <2>4. QED
    BY <1>0, <2>1, <2>2, <2>3 DEF Clean
<1>14. CASE Crash
  <2>1. ~up' /\ Touched' = {}
    BY <1>14, ToSetEmpty DEF Crash, Touched
  <2>2. QED
    BY <1>0, <2>1 DEF Clean
<1>15. CASE Restart
  <2>1. mem' = disk /\ disk' = disk /\ Touched' = {}
    BY <1>15, ToSetEmpty DEF Restart, LoadAll, context, Flow, Touched
  <2>2. QED
    BY <1>0, <2>1 DEF Clean
<1>16. QED
  BY <1>1, <1>1a, <1>2, <1>3, <1>4, <1>5, <1>6, <1>7, <1>8, <1>9, <1>10, <1>11, <1>12, <1>13, <1>14,
     <1>15 DEF Next, TxStep

\* Over an adapter that stores a batch in one step and answers for what it
\* stored, a collection that only transactions save is in storage as in memory
\* whenever it is not marked dirty, whatever was rolled back, failed or cut off,
\* and whatever others changed in it at any time, a batch under way included;
\* but for a change that is about to mark it, and for the two ways in which a
\* mark is lost, to a batch that returns after it and to a snapshot taken
\* between a change and its mark.
THEOREM CleanIsStored == Spec => []CleanMeansStored
<1> DEFINE Inv == /\ Types /\ Flow /\ (Atomic => Counted)
                  /\ Atomic /\ ~setup.answersLost => Clean
<1>1. Init => Inv
  BY InitTypes, InitFlow, InitCounted, InitClean
<1>2. Inv /\ Next => Inv'
  <2>1. Next => (Atomic' <=> Atomic) /\ setup' = setup
    BY DEF Next, Atomic
  <2>2. QED
    BY <2>1, StepTypes, StepFlow, StepCounted, StepClean
<1>3. Inv /\ UNCHANGED vars => Inv'
  <2> SUFFICES ASSUME Inv, UNCHANGED vars PROVE Inv'
    OBVIOUS
  <2>1. Types' /\ Flow' /\ (Atomic => Counted)'
    BY SameTypes, SameFlow, SameCounted DEF Atomic, vars
  <2>2. (Atomic /\ ~setup.answersLost => Clean)'
    BY SameClean DEF Atomic, Pending, Unmarked, vars, process, memory, context, flush
  <2>3. QED
    BY <2>1, <2>2
<1>4. Inv => CleanMeansStored
  <2> SUFFICES ASSUME Inv PROVE CleanMeansStored
    OBVIOUS
  <2>1. tx = "none" => Touched = {}
    BY ToSetEmpty DEF Flow, Touched
  <2>2. QED
    BY <2>1 DEF Clean, CleanMeansStored, Pending
<1> HIDE DEF Inv
<1>5. QED
  BY <1>1, <1>2, <1>3, <1>4, PTL DEF Spec

-----------------------------------------------------------------------------
(* Storage implements StorageContract. *)

USE StorageAssumption
USE DEF storageVars

\* The invariants.

State == {"idle", "preparing", "staging", "filling", "renaming", "unstaging",
          "working", "cleaning", "ok", "error"}

Staged == {"staging", "filling", "renaming", "unstaging"}

\* Files and temporary files, and the record of each call.
ThingsOK ==
  /\ adapter \in Adapters
  /\ files \in [File -> [by : Request \union {"missing", "old"}, sealed : BOOLEAN]]
  /\ \A f \in File : files[f].by = "missing" => files[f] = Missing
  /\ temps \subseteq [by : Request, file : File, whole : BOOLEAN]
  /\ request = [r \in Request |->
       [state |-> request[r].state, left |-> request[r].left,
        staged |-> request[r].staged, seen |-> request[r].seen]]
  /\ \A r \in Request : request[r].state \in State /\ request[r].staged \in Nat

\* What a call has yet to do, by how far it is.
CallOK(r) ==
  /\ r \notin Made \/ In(r, "idle") => request[r] = Idle
  /\ ~In(r, "ok") => request[r].seen = <<>>
  /\ Stores(r) => Left(r) \in Seq(File) /\ Len(Left(r)) <= Len(Asked(r).files)
  /\ ~Stores(r) /\ request[r].state \in {"preparing", "working"} => Left(r) = <<>>
  /\ In(r, "preparing") => request[r].staged = 0
  /\ In(r, "cleaning") => r \in Made /\ Asked(r).kind = "cleanOrphans"
  /\ request[r].state \in Staged => adapter.staged /\ r \in Made /\ Writes(r)
  /\ In(r, "staging") \/ In(r, "filling") => request[r].staged < Len(Left(r))
  /\ In(r, "renaming") => Left(r) # <<>>

\* The temporary files of a call that renames have all of their text.
TempOK(t) ==
  /\ request[t.by].state \notin {"idle", "preparing"}
  /\ request[t.by].state \in {"staging", "renaming"} => t.whole
  /\ In(t.by, "filling") => t.whole \/ t = Temp(t.by, Staging(t.by), FALSE)

CallsOK == \A r \in Request : CallOK(r)
TempsOK == \A t \in temps : TempOK(t)

SInv ==
  /\ ThingsOK
  /\ CallsOK
  /\ TempsOK

-----------------------------------------------------------------------------
(* What the constants, and the invariants, say of a call.                    *)

LEMMA Texted == ASSUME NEW r \in Request PROVE r \notin {"missing", "old", "unreadable"}
OBVIOUS

LEMMA AdapterFacts ==
  ASSUME ThingsOK
  PROVE  /\ adapter.chunk \in Nat /\ adapter.chunk >= 1
         /\ adapter.staged => adapter.chunk = 1
         /\ adapter.staged \in BOOLEAN /\ adapter.sealed \in BOOLEAN
         /\ \A r \in Made :
              /\ r \in Request
              /\ Asked(r).kind \in OpKind
              /\ Asked(r).files \in Seq(File)
              /\ Asked(r).kind = "read" => Asked(r).files # <<>>
BY DEF ThingsOK, Asked, Made

LEMMA ReadsOneFile ==
  ASSUME ThingsOK, NEW r \in Made, Asked(r).kind = "read"
  PROVE  Asked(r).files[1] \in File
<1>1. Asked(r).files \in Seq(File) /\ Asked(r).files # <<>>
  BY AdapterFacts
<1> QED  BY <1>1

LEMMA Fields ==
  ASSUME ThingsOK, NEW r \in Request
  PROVE  /\ request[r] = [state |-> request[r].state, left |-> request[r].left,
                          staged |-> request[r].staged, seen |-> request[r].seen]
         /\ DOMAIN request = Request
         /\ request[r].state \in State
         /\ request[r].staged \in Nat
BY DEF ThingsOK

LEMMA GoesFields ==
  ASSUME ThingsOK, NEW r \in Request, NEW state, Goes(r, state)
  PROVE  /\ request'[r] = [state |-> state, left |-> request[r].left,
                           staged |-> request[r].staged, seen |-> request[r].seen]
         /\ \A q \in Request \ {r} : request'[q] = request[q]
         /\ DOMAIN request' = Request
<1>1. DOMAIN request = Request
  BY Fields
<1>2. request' = [request EXCEPT ![r] = [request[r] EXCEPT !.state = state]]
  BY DEF Goes
<1>3. /\ request'[r] = [request[r] EXCEPT !.state = state]
      /\ \A q \in Request \ {r} : request'[q] = request[q]
      /\ DOMAIN request' = Request
  BY <1>1, <1>2
<1>4. request[r] = [state |-> request[r].state, left |-> request[r].left,
                   staged |-> request[r].staged, seen |-> request[r].seen]
  BY Fields
<1>5. request'[r] = [state |-> state, left |-> request[r].left,
                    staged |-> request[r].staged, seen |-> request[r].seen]
  BY <1>3, <1>4
<1> QED  BY <1>3, <1>5

\* A step that leaves a call as it is leaves what is known of it.
LEMMA CallStays ==
  ASSUME NEW q \in Request, CallOK(q), UNCHANGED adapter, request'[q] = request[q]
  PROVE  CallOK(q)'
BY DEF CallOK, In, Left, Made, Stores, Asked, Writes, Staged

LEMMA TempStays ==
  ASSUME NEW t, TempOK(t), request'[t.by] = request[t.by]
  PROVE  TempOK(t)'
BY DEF TempOK, In, Left, Temp, Staging

\* To show the invariant kept by a step of one call, show it of that call.
LEMMA OneCall ==
  ASSUME SInv, NEW r \in Made, UNCHANGED adapter,
         NEW state \in State, NEW left, NEW staged \in Nat, NEW seen,
         request' = [request EXCEPT ![r] =
           [state |-> state, left |-> left, staged |-> staged, seen |-> seen]],
         files' \in [File -> [by : Request \union {"missing", "old"}, sealed : BOOLEAN]],
         \A f \in File : files'[f].by = "missing" => files'[f] = Missing,
         temps' \subseteq [by : Request, file : File, whole : BOOLEAN],
         CallOK(r)',
         \A t \in temps' : t.by # r => t \in temps,
         \A t \in temps' : t.by = r => TempOK(t)'
  PROVE  SInv'
<1>1. r \in Request /\ DOMAIN request = Request
  BY AdapterFacts, Fields DEF SInv
<1>2. /\ request'[r] = [state |-> state, left |-> left, staged |-> staged, seen |-> seen]
      /\ \A q \in Request \ {r} : request'[q] = request[q]
      /\ DOMAIN request' = Request
  BY <1>1
<1>3. \A q \in Request :
        /\ request'[q] = [state |-> request'[q].state, left |-> request'[q].left,
                          staged |-> request'[q].staged, seen |-> request'[q].seen]
        /\ request'[q].state \in State /\ request'[q].staged \in Nat
  <2> TAKE q \in Request
  <2>1. CASE q = r
    BY <1>2, <2>1
  <2>2. CASE q # r
    BY <1>2, <2>2, Fields DEF SInv
  <2> QED  BY <2>1, <2>2
<1>4. request' = [q \in Request |->
        [state |-> request'[q].state, left |-> request'[q].left,
         staged |-> request'[q].staged, seen |-> request'[q].seen]]
  <2>1. request' = [q \in Request |-> request'[q]]
    BY <1>1
  <2> QED  BY <2>1, <1>3
<1>5. ThingsOK'
  BY <1>3, <1>4 DEF SInv, ThingsOK, Missing
<1>6. CallsOK'
  <2> SUFFICES ASSUME NEW q \in Request PROVE CallOK(q)'
    BY DEF CallsOK
  <2>1. CASE q = r
    BY <2>1
  <2>2. CASE q # r
    <3>1. CallOK(q) /\ request'[q] = request[q]
      BY <1>2, <2>2 DEF SInv, CallsOK
    <3> QED  BY <3>1, CallStays
  <2> QED  BY <2>1, <2>2
<1>7. TempsOK'
  <2> SUFFICES ASSUME NEW t \in temps' PROVE TempOK(t)'
    BY DEF TempsOK
  <2>1. CASE t.by = r
    BY <2>1
  <2>2. CASE t.by # r
    <3>1. t \in temps /\ TempOK(t)
      BY <2>2 DEF SInv, TempsOK
    <3>2. t.by \in Request
      BY <3>1 DEF SInv, ThingsOK
    <3>3. request'[t.by] = request[t.by]
      BY <1>2, <2>2, <3>2
    <3> QED  BY <3>1, <3>3, TempStays
  <2> QED  BY <2>1, <2>2
<1> QED  BY <1>5, <1>6, <1>7 DEF SInv

LEMMA InitSInv == ASSUME StorageInit PROVE SInv
<1>1. \A r \in Request : request[r] = Idle
  BY DEF StorageInit
<1>2. ThingsOK
  <2>1. /\ files \in [File -> [by : Request \union {"missing", "old"}, sealed : BOOLEAN]]
        /\ \A f \in File : files[f].by = "missing" => files[f] = Missing
    <3>1. files \in [File -> {Missing, Old(TRUE), Old(FALSE)}]
      BY DEF StorageInit
    <3>2. \A v \in {Missing, Old(TRUE), Old(FALSE)} :
            /\ v \in [by : Request \union {"missing", "old"}, sealed : BOOLEAN]
            /\ v.by = "missing" => v = Missing
      <4>1. \A s \in BOOLEAN : /\ [by |-> "old", sealed |-> s].by = "old"
                              /\ [by |-> "old", sealed |-> s] \in
                                   [by : Request \union {"missing", "old"}, sealed : BOOLEAN]
        OBVIOUS
      <4>2. [by |-> "missing", sealed |-> FALSE] \in
              [by : Request \union {"missing", "old"}, sealed : BOOLEAN]
        OBVIOUS
      <4> QED  BY <4>1, <4>2 DEF Missing, Old
    <3> QED  BY <3>1, <3>2
  <2>2. request = [r \in Request |->
          [state |-> request[r].state, left |-> request[r].left,
           staged |-> request[r].staged, seen |-> request[r].seen]]
    <3>1. request = [r \in Request |-> Idle]
      BY DEF StorageInit
    <3>2. \A r \in Request : Idle = [state |-> request[r].state, left |-> request[r].left,
             staged |-> request[r].staged, seen |-> request[r].seen]
      BY <1>1 DEF Idle
    <3> QED  BY <3>1, <3>2
  <2>3. \A r \in Request : request[r].state \in State /\ request[r].staged \in Nat
    BY <1>1 DEF Idle, State
  <2> QED  BY <2>1, <2>2, <2>3 DEF StorageInit, ThingsOK
<1>3. CallsOK
  <2> SUFFICES ASSUME NEW r \in Request PROVE CallOK(r)
    BY DEF CallsOK
  <2>1. request[r] = Idle /\ Left(r) = <<>> /\ In(r, "idle")
    BY <1>1 DEF Idle, Left, In
  <2>2. Stores(r) => Len(Asked(r).files) \in Nat
    BY <1>2, AdapterFacts DEF Stores
  <2> QED  BY <2>1, <2>2 DEF CallOK, Idle, In, Staged
<1>4. TempsOK
  BY DEF StorageInit, TempsOK
<1> QED  BY <1>2, <1>3, <1>4 DEF SInv

-----------------------------------------------------------------------------
(* Every step keeps the invariant.                                           *)

LEMMA GoesRecord ==
  ASSUME ThingsOK, NEW r \in Request, NEW state, Goes(r, state)
  PROVE  request' = [request EXCEPT ![r] =
           [state |-> state, left |-> request[r].left,
            staged |-> request[r].staged, seen |-> request[r].seen]]
<1>1. request' = [request EXCEPT ![r] = [request[r] EXCEPT !.state = state]]
  BY DEF Goes
<1>2. request[r] = [state |-> request[r].state, left |-> request[r].left,
                   staged |-> request[r].staged, seen |-> request[r].seen]
  BY Fields
<1>3. [request[r] EXCEPT !.state = state] =
        [state |-> state, left |-> request[r].left,
         staged |-> request[r].staged, seen |-> request[r].seen]
  BY <1>2
<1> QED  BY <1>1, <1>3

\* A call that has begun prepares no more, cleans up, or is over.
LEMMA GoesOn ==
  ASSUME SInv, NEW r \in Made, UNCHANGED <<adapter, files>>, temps' \subseteq temps,
         NEW state \in {"working", "unstaging", "ok", "error"}, Goes(r, state),
         ~In(r, "idle"), ~In(r, "ok"),
         state = "working" => In(r, "preparing"),
         state = "unstaging" => adapter.staged /\ Writes(r)
  PROVE  SInv'
<1>1. r \in Request /\ CallOK(r) /\ ThingsOK
  BY AdapterFacts DEF SInv, CallsOK
<1>2. request' = [request EXCEPT ![r] =
           [state |-> state, left |-> request[r].left,
            staged |-> request[r].staged, seen |-> request[r].seen]]
  BY <1>1, GoesRecord
<1>3. request'[r] = [state |-> state, left |-> request[r].left,
                    staged |-> request[r].staged, seen |-> request[r].seen]
  BY <1>1, GoesFields
<1>4. CallOK(r)'
  BY <1>1, <1>3 DEF CallOK, In, Left, Made, Stores, Asked, Writes, Staged
<1>5. \A t \in temps' : t.by = r => TempOK(t)'
  <2> SUFFICES ASSUME NEW t \in temps', t.by = r PROVE TempOK(t)'
    OBVIOUS
  <2>1. request'[t.by].state = state
    BY <1>3
  <2> QED  BY <2>1 DEF TempOK, In
<1>6. state \in State /\ request[r].staged \in Nat
  BY <1>1, Fields DEF State
<1>7. /\ files' \in [File -> [by : Request \union {"missing", "old"}, sealed : BOOLEAN]]
      /\ \A f \in File : files'[f].by = "missing" => files'[f] = Missing
      /\ temps' \subseteq [by : Request, file : File, whole : BOOLEAN]
  BY <1>1 DEF ThingsOK, Missing
<1> QED  BY <1>2, <1>4, <1>5, <1>6, <1>7, OneCall

LEMMA FailsKeeps ==
  ASSUME SInv, NEW r \in Made, UNCHANGED adapter, Fails(r), ~In(r, "idle"), ~In(r, "ok")
  PROVE  SInv'
BY GoesOn DEF Fails

LEMMA SimpleStepsKeep ==
  ASSUME SInv, NEW r \in Made, UNCHANGED adapter,
         StageFails(r) \/ RenameFails(r) \/ Unstage(r) \/ Cleaned(r) \/ NothingToDo(r) \/ Refused(r)
  PROVE  SInv'
<1>0. r \in Request /\ CallOK(r)
  BY AdapterFacts DEF SInv, CallsOK
<1>1. CASE StageFails(r) \/ RenameFails(r)
  BY <1>0, <1>1, GoesOn DEF StageFails, RenameFails, GivesUp, In, CallOK, Staged
<1>2. CASE Unstage(r)
  BY <1>0, <1>2, GoesOn DEF Unstage, In
<1>3. CASE Cleaned(r) \/ NothingToDo(r)
  BY <1>0, <1>3, GoesOn DEF Cleaned, NothingToDo, In
<1>4. CASE Refused(r)
  BY <1>0, <1>4, FailsKeeps DEF Refused, In
<1> QED  BY <1>1, <1>2, <1>3, <1>4

LEMMA IdleExcept ==
  ASSUME NEW left
  PROVE  [Idle EXCEPT !.state = "preparing", !.left = left]
           = [state |-> "preparing", left |-> left, staged |-> 0, seen |-> <<>>]
<1>1. [Idle EXCEPT !.state = "preparing"]
        = [state |-> "preparing", left |-> <<>>, staged |-> 0, seen |-> <<>>]
  BY DEF Idle
<1>2. [[state |-> "preparing", left |-> <<>>, staged |-> 0, seen |-> <<>>] EXCEPT !.left = left]
        = [state |-> "preparing", left |-> left, staged |-> 0, seen |-> <<>>]
  OBVIOUS
<1>3. [Idle EXCEPT !.state = "preparing", !.left = left]
        = [[Idle EXCEPT !.state = "preparing"] EXCEPT !.left = left]
  BY DEF Idle
<1> QED  BY <1>1, <1>2, <1>3

LEMMA CallKeeps ==
  ASSUME SInv, NEW r \in Made, UNCHANGED adapter, Call(r)
  PROVE  SInv'
<1> DEFINE left == IF Writes(r) \/ Asked(r).kind = "delete" THEN Asked(r).files ELSE <<>>
<1>1. r \in Request /\ CallOK(r) /\ ThingsOK /\ Asked(r).files \in Seq(File)
  BY AdapterFacts DEF SInv, CallsOK
<1>2. request' = [request EXCEPT ![r] =
         [state |-> "preparing", left |-> left, staged |-> 0, seen |-> <<>>]]
  <2>1. request' = [request EXCEPT ![r] =
          [Idle EXCEPT !.state = "preparing", !.left = left]]
    BY DEF Call
  <2>2. [Idle EXCEPT !.state = "preparing", !.left = left]
          = [state |-> "preparing", left |-> left, staged |-> 0, seen |-> <<>>]
    BY IdleExcept
  <2> QED  BY <2>1, <2>2
<1>3. request'[r] = [state |-> "preparing", left |-> left, staged |-> 0, seen |-> <<>>]
  BY <1>1, <1>2, Fields
<1>4. /\ left = IF Stores(r) THEN Asked(r).files ELSE <<>>
      /\ Len(Asked(r).files) \in Nat
  BY <1>1 DEF Stores, Writes
<1>5. CallOK(r)'
  <2> HIDE DEF left
  <2> QED  BY <1>1, <1>3, <1>4 DEF CallOK, In, Left, Made, Stores, Asked, Staged
<1>6. \A t \in temps' : t.by = r => FALSE
  BY <1>1 DEF Call, SInv, TempsOK, TempOK, In
<1>7. /\ files' \in [File -> [by : Request \union {"missing", "old"}, sealed : BOOLEAN]]
      /\ \A f \in File : files'[f].by = "missing" => files'[f] = Missing
      /\ temps' \subseteq [by : Request, file : File, whole : BOOLEAN]
  BY <1>1 DEF ThingsOK, Missing, Call
<1>8. \A t \in temps' : t.by # r => t \in temps
  BY DEF Call
<1>9. "preparing" \in State /\ 0 \in Nat
  BY DEF State
<1> HIDE DEF left
<1> QED  BY <1>2, <1>5, <1>6, <1>7, <1>8, <1>9, OneCall

LEMMA PrepareKeeps ==
  ASSUME SInv, NEW r \in Made, UNCHANGED adapter, Prepare(r)
  PROVE  SInv'
<1>1. r \in Request /\ CallOK(r) /\ ThingsOK /\ In(r, "preparing")
  BY AdapterFacts DEF SInv, CallsOK, Prepare
<1>2. CASE Fails(r)
  BY <1>1, <1>2, FailsKeeps DEF In
<1>3. CASE Goes(r, "working") /\ UNCHANGED <<files, temps>>
  BY <1>1, <1>3, GoesOn DEF In
<1>4. CASE Goes(r, "staging") /\ UNCHANGED <<files, temps>>
           /\ Writes(r) /\ adapter.staged /\ Left(r) # <<>>
  <2>1. request' = [request EXCEPT ![r] =
           [state |-> "staging", left |-> request[r].left,
            staged |-> request[r].staged, seen |-> request[r].seen]]
    BY <1>1, <1>4, GoesRecord
  <2>2. request'[r] = [state |-> "staging", left |-> request[r].left,
                      staged |-> request[r].staged, seen |-> request[r].seen]
    BY <1>1, <1>4, GoesFields
  <2>3. Len(Left(r)) > 0 /\ request[r].staged = 0
    BY <1>1, <1>4 DEF CallOK, Stores, Writes
  <2>4. CallOK(r)'
    BY <1>1, <1>4, <2>2, <2>3 DEF CallOK, In, Left, Made, Stores, Asked, Writes, Staged
  <2>5. \A t \in temps' : t.by = r => FALSE
    BY <1>1, <1>4 DEF SInv, TempsOK, TempOK, In
  <2>6. /\ files' \in [File -> [by : Request \union {"missing", "old"}, sealed : BOOLEAN]]
        /\ \A f \in File : files'[f].by = "missing" => files'[f] = Missing
        /\ temps' \subseteq [by : Request, file : File, whole : BOOLEAN]
        /\ temps' = temps
    BY <1>1, <1>4 DEF ThingsOK, Missing
  <2>7. "staging" \in State /\ request[r].staged \in Nat
    BY <2>3 DEF State
  <2> QED  BY <2>1, <2>4, <2>5, <2>6, <2>7, OneCall
<1> QED  BY <1>2, <1>3, <1>4 DEF Prepare

GoesLeft(r, x, y) == request' = [request EXCEPT ![r].state = x, ![r].left = y]

LEMMA StateAndLeft ==
  ASSUME ThingsOK, NEW r \in Request, NEW x, NEW y, GoesLeft(r, x, y)
  PROVE  /\ request' = [request EXCEPT ![r] =
             [state |-> x, left |-> y,
             staged |-> request[r].staged, seen |-> request[r].seen]]
         /\ request'[r] =
             [state |-> x, left |-> y,
             staged |-> request[r].staged, seen |-> request[r].seen]
         /\ \A q \in Request \ {r} : request'[q] = request[q]
<1> DEFINE one == [request[r] EXCEPT !.state = x]
<1>1. DOMAIN request = Request
  BY Fields
<1>2. request' = [request EXCEPT ![r] = [one EXCEPT !.left = y]]
  BY <1>1 DEF GoesLeft
<1>3. request[r] =
            [state |-> request[r].state, left |-> request[r].left,
             staged |-> request[r].staged, seen |-> request[r].seen]
  BY Fields
<1>4. one =
            [state |-> x, left |-> request[r].left,
             staged |-> request[r].staged, seen |-> request[r].seen]
  BY <1>3
<1>5. [one EXCEPT !.left = y] =
            [state |-> x, left |-> y,
             staged |-> request[r].staged, seen |-> request[r].seen]
  <2> HIDE DEF one
  <2> QED  BY <1>4
<1>6. request' = [request EXCEPT ![r] =
            [state |-> x, left |-> y,
             staged |-> request[r].staged, seen |-> request[r].seen]]
  <2> HIDE DEF one
  <2> QED  BY <1>2, <1>5
<1> HIDE DEF one
<1> QED  BY <1>1, <1>6

GoesStaged(r, x, y) == request' = [request EXCEPT ![r].state = x, ![r].staged = y]

LEMMA StateAndStaged ==
  ASSUME ThingsOK, NEW r \in Request, NEW x, NEW y, GoesStaged(r, x, y)
  PROVE  /\ request' = [request EXCEPT ![r] =
             [state |-> x, left |-> request[r].left,
             staged |-> y, seen |-> request[r].seen]]
         /\ request'[r] =
             [state |-> x, left |-> request[r].left,
             staged |-> y, seen |-> request[r].seen]
         /\ \A q \in Request \ {r} : request'[q] = request[q]
<1> DEFINE one == [request[r] EXCEPT !.state = x]
<1>1. DOMAIN request = Request
  BY Fields
<1>2. request' = [request EXCEPT ![r] = [one EXCEPT !.staged = y]]
  BY <1>1 DEF GoesStaged
<1>3. request[r] =
            [state |-> request[r].state, left |-> request[r].left,
             staged |-> request[r].staged, seen |-> request[r].seen]
  BY Fields
<1>4. one =
            [state |-> x, left |-> request[r].left,
             staged |-> request[r].staged, seen |-> request[r].seen]
  BY <1>3
<1>5. [one EXCEPT !.staged = y] =
            [state |-> x, left |-> request[r].left,
             staged |-> y, seen |-> request[r].seen]
  <2> HIDE DEF one
  <2> QED  BY <1>4
<1>6. request' = [request EXCEPT ![r] =
            [state |-> x, left |-> request[r].left,
             staged |-> y, seen |-> request[r].seen]]
  <2> HIDE DEF one
  <2> QED  BY <1>2, <1>5
<1> HIDE DEF one
<1> QED  BY <1>1, <1>6

GoesSeen(r, x, y) == request' = [request EXCEPT ![r].state = x, ![r].seen = y]

LEMMA StateAndSeen ==
  ASSUME ThingsOK, NEW r \in Request, NEW x, NEW y, GoesSeen(r, x, y)
  PROVE  /\ request' = [request EXCEPT ![r] =
             [state |-> x, left |-> request[r].left,
             staged |-> request[r].staged, seen |-> y]]
         /\ request'[r] =
             [state |-> x, left |-> request[r].left,
             staged |-> request[r].staged, seen |-> y]
         /\ \A q \in Request \ {r} : request'[q] = request[q]
<1> DEFINE one == [request[r] EXCEPT !.state = x]
<1>1. DOMAIN request = Request
  BY Fields
<1>2. request' = [request EXCEPT ![r] = [one EXCEPT !.seen = y]]
  BY <1>1 DEF GoesSeen
<1>3. request[r] =
            [state |-> request[r].state, left |-> request[r].left,
             staged |-> request[r].staged, seen |-> request[r].seen]
  BY Fields
<1>4. one =
            [state |-> x, left |-> request[r].left,
             staged |-> request[r].staged, seen |-> request[r].seen]
  BY <1>3
<1>5. [one EXCEPT !.seen = y] =
            [state |-> x, left |-> request[r].left,
             staged |-> request[r].staged, seen |-> y]
  <2> HIDE DEF one
  <2> QED  BY <1>4
<1>6. request' = [request EXCEPT ![r] =
            [state |-> x, left |-> request[r].left,
             staged |-> request[r].staged, seen |-> y]]
  <2> HIDE DEF one
  <2> QED  BY <1>2, <1>5
<1> HIDE DEF one
<1> QED  BY <1>1, <1>6

FilesOK ==
  /\ files \in [File -> [by : Request \union {"missing", "old"}, sealed : BOOLEAN]]
  /\ \A f \in File : files[f].by = "missing" => files[f] = Missing

LEMMA FilesStay ==
  ASSUME SInv, UNCHANGED files
  PROVE  FilesOK'
BY DEF SInv, ThingsOK, FilesOK, Missing

LEMMA StagingFile ==
  ASSUME SInv, NEW r \in Made, In(r, "staging") \/ In(r, "filling")
  PROVE  /\ r \in Request /\ CallOK(r) /\ ThingsOK
         /\ Stores(r) /\ Writes(r) /\ adapter.staged
         /\ Left(r) \in Seq(File) /\ request[r].staged \in Nat
         /\ request[r].staged < Len(Left(r))
         /\ Staging(r) \in File
<1>1. r \in Request /\ CallOK(r) /\ ThingsOK
  BY AdapterFacts DEF SInv, CallsOK
<1>2. Stores(r) /\ Writes(r) /\ adapter.staged
  BY <1>1 DEF CallOK, Staged, In, Stores, Writes
<1>3. Left(r) \in Seq(File) /\ request[r].staged < Len(Left(r))
  BY <1>1, <1>2 DEF CallOK
<1>4. request[r].staged \in Nat
  BY <1>1, Fields
<1>5. Staging(r) \in File
  <2>1. request[r].staged + 1 \in 1 .. Len(Left(r))
    BY <1>3, <1>4
  <2> QED  BY <1>3, <2>1 DEF Staging
<1> QED  BY <1>1, <1>2, <1>3, <1>4, <1>5

LEMMA TempType ==
  ASSUME NEW r \in Request, NEW f \in File, NEW whole \in BOOLEAN
  PROVE  Temp(r, f, whole) \in [by : Request, file : File, whole : BOOLEAN]
BY DEF Temp

LEMMA StageBeginsKeeps ==
  ASSUME SInv, NEW r \in Made, UNCHANGED adapter, StageBegins(r)
  PROVE  SInv'
<1>1. /\ r \in Request /\ CallOK(r) /\ ThingsOK /\ In(r, "staging")
      /\ Goes(r, "filling") /\ Open(r, Staging(r))
  BY StagingFile DEF StageBegins
<1>2. request' = [request EXCEPT ![r] =
         [state |-> "filling", left |-> request[r].left,
          staged |-> request[r].staged, seen |-> request[r].seen]]
  BY <1>1, GoesRecord
<1>3. request'[r] = [state |-> "filling", left |-> request[r].left,
                    staged |-> request[r].staged, seen |-> request[r].seen]
  BY <1>1, GoesFields
<1>4. CallOK(r)'
  BY <1>1, <1>3, StagingFile DEF CallOK, In, Left, Made, Stores, Asked, Writes, Staged
<1>5. \A t \in temps' : t.by = r => TempOK(t)'
  <2> SUFFICES ASSUME NEW t \in temps', t.by = r PROVE TempOK(t)'
    OBVIOUS
  <2>1. Staging(r)' = Staging(r)
    BY <1>3 DEF Staging, Left
  <2>2. t.whole \/ t = Temp(r, Staging(r), FALSE)
    BY <1>1 DEF SInv, TempsOK, TempOK, In, Open
  <2> QED  BY <1>3, <2>1, <2>2 DEF TempOK, In, Temp
<1>6. temps' \subseteq [by : Request, file : File, whole : BOOLEAN]
  <2>1. Temp(r, Staging(r), FALSE) \in [by : Request, file : File, whole : BOOLEAN]
    BY <1>1, StagingFile, TempType
  <2> QED  BY <1>1, <2>1 DEF ThingsOK, Open
<1>7. \A t \in temps' : t.by # r => t \in temps
  BY <1>1 DEF Open, Temp
<1>8. FilesOK'
  BY <1>1, FilesStay DEF Open
<1>9. "filling" \in State /\ request[r].staged \in Nat
  BY <1>1, Fields DEF State
<1> QED  BY <1>2, <1>4, <1>5, <1>6, <1>7, <1>8, <1>9, OneCall DEF FilesOK

LEMMA StageEndsKeeps ==
  ASSUME SInv, NEW r \in Made, UNCHANGED adapter, StageEnds(r)
  PROVE  SInv'
<1> DEFINE last == request[r].staged + 1 = Len(Left(r))
           state == IF last THEN "renaming" ELSE "staging"
           staged == request[r].staged + 1
           u == Temp(r, Staging(r), FALSE)
           v == Temp(r, Staging(r), TRUE)
<1>1. /\ r \in Request /\ CallOK(r) /\ ThingsOK /\ In(r, "filling")
      /\ temps' = {IF t = u THEN v ELSE t : t \in temps}
      /\ UNCHANGED files
  BY StagingFile DEF StageEnds
<1>2. GoesStaged(r, state, staged)
  <2>1. request' = [request EXCEPT ![r].state = state, ![r].staged = @ + 1]
    BY DEF StageEnds
  <2>2. request[r] = [state |-> request[r].state, left |-> request[r].left,
                     staged |-> request[r].staged, seen |-> request[r].seen]
    BY <1>1, Fields
  <2> HIDE DEF state
  <2> QED  BY <2>1, <2>2 DEF GoesStaged
<1>3. /\ request' = [request EXCEPT ![r] =
           [state |-> state, left |-> request[r].left,
            staged |-> staged, seen |-> request[r].seen]]
      /\ request'[r] = [state |-> state, left |-> request[r].left,
                        staged |-> staged, seen |-> request[r].seen]
  <2> HIDE DEF state, staged
  <2> QED  BY <1>1, <1>2, StateAndStaged
<1>4. state \in State /\ state \in {"staging", "renaming"} /\ staged \in Nat
  <2>1. state \in {"staging", "renaming"}
    OBVIOUS
  <2>2. staged \in Nat
    <3>1. request[r].staged \in Nat
      BY <1>1, Fields
    <3> QED  BY <3>1
  <2> QED  BY <2>1, <2>2 DEF State
<1>5. CallOK(r)'
  <2>1. /\ Left(r) \in Seq(File) /\ request[r].staged \in Nat
        /\ request[r].staged < Len(Left(r)) /\ Left(r) # <<>>
        /\ Stores(r) /\ Writes(r) /\ adapter.staged
    BY <1>1, StagingFile
  <2>2. Len(Left(r)) \in Nat
    BY <2>1
  <2>3. state = "staging" => request[r].staged + 1 < Len(Left(r))
    BY <2>1, <2>2
  <2> HIDE DEF state
  <2> QED
    BY <1>1, <1>3, <1>4, <2>1, <2>3 DEF CallOK, In, Left, Made, Stores, Asked, Writes, Staged
<1>6. \A t \in temps' : t.by = r => TempOK(t)'
  <2> SUFFICES ASSUME NEW t \in temps', t.by = r PROVE TempOK(t)'
    OBVIOUS
  <2>1. PICK w \in temps : t = IF w = u THEN v ELSE w
    BY <1>1
  <2>2. t.whole
    BY <1>1, <2>1 DEF SInv, TempsOK, TempOK, In, Temp
  <2> HIDE DEF state
  <2> QED  BY <1>3, <1>4, <2>2 DEF TempOK, In
<1>7. temps' \subseteq [by : Request, file : File, whole : BOOLEAN]
  <2>1. v \in [by : Request, file : File, whole : BOOLEAN]
    BY <1>1, StagingFile, TempType
  <2> HIDE DEF u, v
  <2> QED  BY <1>1, <2>1 DEF ThingsOK
<1>8. \A t \in temps' : t.by # r => t \in temps
  BY <1>1 DEF Temp
<1>9. FilesOK'
  BY <1>1, FilesStay
<1> HIDE DEF state, staged
<1> QED  BY <1>3, <1>4, <1>5, <1>6, <1>7, <1>8, <1>9, OneCall DEF FilesOK

\* How far a call is that has renamed one more file.
Renamed(r) == IF Len(Left(r)) = 1 THEN "ok" ELSE "renaming"

LEMMA Renaming ==
  ASSUME SInv, NEW r \in Made, Rename(r)
  PROVE  /\ r \in Request /\ CallOK(r) /\ ThingsOK /\ In(r, "renaming")
         /\ Stores(r) /\ Writes(r) /\ adapter.staged
         /\ Left(r) \in Seq(File) /\ Left(r) # <<>>
         /\ Len(Left(r)) \in Nat /\ Len(Left(r)) <= Len(Asked(r).files)
         /\ Len(Asked(r).files) \in Nat
         /\ request[r].seen = <<>>
         /\ files' = [files EXCEPT ![Head(Left(r))] = Written(r)]
         /\ temps' \subseteq temps
         /\ GoesLeft(r, Renamed(r), Tail(Left(r)))
<1> DEFINE f == Head(Left(r))
           t == CHOOSE u \in temps : u.by = r /\ u.file = f
<1>1. /\ r \in Request /\ CallOK(r) /\ ThingsOK /\ In(r, "renaming")
  BY AdapterFacts DEF SInv, CallsOK, Rename
<1>2. /\ Stores(r) /\ Writes(r) /\ adapter.staged
      /\ Left(r) \in Seq(File) /\ Left(r) # <<>> /\ Len(Left(r)) <= Len(Asked(r).files)
      /\ request[r].seen = <<>>
  BY <1>1 DEF CallOK, In, Staged, Writes, Stores
<1>3. Len(Left(r)) \in Nat /\ Len(Asked(r).files) \in Nat
  BY <1>1, <1>2, AdapterFacts
<1>4. t.whole
  <2>1. \E u \in temps : u.by = r /\ u.file = f
    BY DEF Rename
  <2>2. t \in temps /\ t.by = r
    BY <2>1
  <2> HIDE DEF t
  <2> QED  BY <1>1, <2>2 DEF SInv, TempsOK, TempOK, In
<1>5. temps' \subseteq temps /\ files' = [files EXCEPT ![f] = Written(r)]
  <2>1. files' = [files EXCEPT ![f] = IF t.whole THEN Written(r)
                                     ELSE [Written(r) EXCEPT !.by = "torn"]]
    BY DEF Rename
  <2>2. temps' = temps \ {t}
    BY DEF Rename
  <2> HIDE DEF t, f
  <2> QED  BY <1>4, <2>1, <2>2
<1>6. GoesLeft(r, Renamed(r), Tail(Left(r)))
  <2>1. request' = [request EXCEPT ![r].state = IF Len(Left(r)) = 1 THEN "ok" ELSE @,
                                   ![r].left = Tail(@)]
    BY DEF Rename
  <2>2. /\ request[r] = [state |-> request[r].state, left |-> request[r].left,
                         staged |-> request[r].staged, seen |-> request[r].seen]
        /\ request[r].state = "renaming"
    BY <1>1, Fields DEF In
  <2> QED  BY <2>1, <2>2 DEF Left, Renamed, GoesLeft
<1> QED  BY <1>1, <1>2, <1>3, <1>5, <1>6

LEMMA RenameKeeps ==
  ASSUME SInv, NEW r \in Made, UNCHANGED adapter, Rename(r)
  PROVE  SInv'
<1> DEFINE f == Head(Left(r))
           state == Renamed(r)
           left == Tail(Left(r))
<1>1. /\ r \in Request /\ CallOK(r) /\ ThingsOK /\ In(r, "renaming")
      /\ GoesLeft(r, state, left)
      /\ temps' \subseteq temps /\ files' = [files EXCEPT ![f] = Written(r)]
  BY Renaming
<1>2. /\ Stores(r) /\ Writes(r) /\ adapter.staged
      /\ Left(r) \in Seq(File) /\ Left(r) # <<>> /\ Len(Left(r)) <= Len(Asked(r).files)
      /\ Len(Left(r)) \in Nat /\ Len(Asked(r).files) \in Nat
      /\ request[r].seen = <<>>
  BY Renaming
<1>3. f \in File /\ left \in Seq(File) /\ Len(left) = Len(Left(r)) - 1
  BY <1>2
<1>4. /\ request' = [request EXCEPT ![r] =
           [state |-> state, left |-> left,
            staged |-> request[r].staged, seen |-> request[r].seen]]
      /\ request'[r] = [state |-> state, left |-> left,
                        staged |-> request[r].staged, seen |-> request[r].seen]
  <2> HIDE DEF state, left
  <2> QED  BY <1>1, StateAndLeft
<1>5. state = "ok" \/ (state = "renaming" /\ left # <<>>)
  <2>1. Len(Left(r)) # 1 => Len(left) > 0
    BY <1>2, <1>3
  <2>2. Len(left) > 0 => left # <<>>
    OBVIOUS
  <2> QED  BY <2>1, <2>2 DEF Renamed
<1>6. CallOK(r)'
  <2> HIDE DEF state, left
  <2>2. Len(left) <= Len(Asked(r).files)
    BY <1>2, <1>3
  <2> QED
    BY <1>1, <1>2, <1>3, <1>4, <1>5, <2>2 DEF CallOK, In, Left, Made, Stores, Asked, Writes, Staged
<1>7. \A u \in temps' : u.by = r => TempOK(u)'
  <2> SUFFICES ASSUME NEW u \in temps', u.by = r PROVE TempOK(u)'
    OBVIOUS
  <2> HIDE DEF state, left
  <2>1. u.whole
    BY <1>1 DEF SInv, TempsOK, TempOK, In
  <2> QED  BY <1>4, <1>5, <2>1 DEF TempOK, In
<1>8. FilesOK'
  <2>1. Written(r) \in [by : Request \union {"missing", "old"}, sealed : BOOLEAN]
    BY <1>1, AdapterFacts DEF Written
  <2>2. Written(r).by # "missing"
    BY <1>1, Texted DEF Written
  <2> HIDE DEF f
  <2>3. \A g \in File : files'[g] = IF g = f THEN Written(r) ELSE files[g]
    BY <1>1 DEF ThingsOK
  <2>4. files' \in [File -> [by : Request \union {"missing", "old"}, sealed : BOOLEAN]]
    BY <1>1, <2>1 DEF ThingsOK
  <2>5. \A g \in File : files'[g].by = "missing" => files'[g] = Missing
    BY <1>1, <2>2, <2>3 DEF ThingsOK
  <2> QED  BY <2>4, <2>5 DEF FilesOK, Missing
<1>9. /\ temps' \subseteq [by : Request, file : File, whole : BOOLEAN]
       /\ \A u \in temps' : u.by # r => u \in temps
  BY <1>1 DEF ThingsOK
<1>10. state \in State /\ request[r].staged \in Nat
  <2> HIDE DEF state
  <2> QED  BY <1>1, <1>5, Fields DEF State
<1> HIDE DEF state, left
<1> QED  BY <1>4, <1>6, <1>7, <1>8, <1>9, <1>10, OneCall DEF FilesOK

LEMMA TempsFine ==
  ASSUME NEW r, request'[r].state \notin {"idle", "preparing", "staging", "filling", "renaming"}
  PROVE  \A t \in temps' : t.by = r => TempOK(t)'
<1> SUFFICES ASSUME NEW t \in temps', t.by = r PROVE TempOK(t)'
  OBVIOUS
<1>1. request'[t.by].state \notin {"idle", "preparing", "staging", "filling", "renaming"}
  OBVIOUS
<1> QED  BY <1>1 DEF TempOK, In

LEMMA OrphansKeep ==
  ASSUME SInv, NEW r \in Made, UNCHANGED adapter, FindOrphans(r) \/ RemoveOrphan(r)
  PROVE  SInv'
<1> DEFINE With(left) == [state |-> "cleaning", left |-> left,
                          staged |-> request[r].staged, seen |-> request[r].seen]
<1>1. r \in Request /\ CallOK(r) /\ ThingsOK
  BY AdapterFacts DEF SInv, CallsOK
<1>2. /\ Asked(r).kind = "cleanOrphans" /\ ~In(r, "idle") /\ ~In(r, "ok")
      /\ UNCHANGED files /\ temps' \subseteq temps
  BY <1>1 DEF FindOrphans, RemoveOrphan, In, CallOK
<1> DEFINE Becomes(left) == request' = [request EXCEPT ![r] = With(left)]
<1>3. PICK left : Becomes(left)
  <2>1. CASE FindOrphans(r)
    <3>1. \E found : GoesLeft(r, "cleaning", found)
      BY <2>1 DEF FindOrphans, GoesLeft
    <3>2. PICK found : GoesLeft(r, "cleaning", found)
      BY <3>1
    <3>3. /\ request' = [request EXCEPT ![r] =
               [state |-> "cleaning", left |-> found,
                staged |-> request[r].staged, seen |-> request[r].seen]]
          /\ request'[r] =
               [state |-> "cleaning", left |-> found,
                staged |-> request[r].staged, seen |-> request[r].seen]
      BY <1>1, <3>2, StateAndLeft
    <3>4. Becomes(found)
      BY <3>3
    <3> HIDE DEF Becomes
    <3> QED  BY <3>4
  <2>2. CASE RemoveOrphan(r)
    <3> DEFINE rest == Tail(request[r].left)
    <3>1. request[r] = With(request[r].left)
      BY <1>1, <2>2, Fields DEF RemoveOrphan, In
    <3>2. request' = [request EXCEPT ![r] = [request[r] EXCEPT !.left = rest]]
      BY <2>2 DEF RemoveOrphan
    <3> HIDE DEF rest
    <3>3. [request[r] EXCEPT !.left = rest] = With(rest)
      BY <3>1
    <3>4. Becomes(rest)
      BY <3>2, <3>3
    <3> HIDE DEF Becomes
    <3> QED  BY <3>4
  <2> QED  BY <2>1, <2>2
<1>4. /\ request' = [request EXCEPT ![r] = With(left)]
      /\ request'[r] = With(left)
  BY <1>1, <1>3, Fields
<1>5. CallOK(r)'
  BY <1>1, <1>2, <1>4 DEF CallOK, In, Left, Made, Stores, Asked, Writes, Staged
<1>6. \A t \in temps' : t.by = r => TempOK(t)'
  BY <1>4, TempsFine
<1>7. FilesOK'
  BY <1>2, FilesStay
<1>8. /\ temps' \subseteq [by : Request, file : File, whole : BOOLEAN]
      /\ \A t \in temps' : t.by # r => t \in temps
  BY <1>1, <1>2 DEF ThingsOK
<1>9. "cleaning" \in State /\ request[r].staged \in Nat
  BY <1>1, Fields DEF State
<1> QED  BY <1>4, <1>5, <1>6, <1>7, <1>8, <1>9, OneCall DEF FilesOK

LEMMA SeesKeeps ==
  ASSUME SInv, NEW r \in Made, UNCHANGED adapter, Read(r) \/ List(r)
  PROVE  SInv'
<1>1. r \in Request /\ CallOK(r) /\ ThingsOK /\ In(r, "working")
  BY AdapterFacts DEF SInv, CallsOK, Read, List
<1>2. CASE Fails(r)
  BY <1>1, <1>2, FailsKeeps DEF In
<1>3. ASSUME NEW what, Sees(r, what) PROVE SInv'
  <2>1. GoesSeen(r, "ok", <<what>>)
    BY <1>3 DEF Sees, GoesSeen
  <2>2. /\ request' = [request EXCEPT ![r] =
             [state |-> "ok", left |-> request[r].left,
              staged |-> request[r].staged, seen |-> <<what>>]]
        /\ request'[r] = [state |-> "ok", left |-> request[r].left,
                          staged |-> request[r].staged, seen |-> <<what>>]
    BY <1>1, <2>1, StateAndSeen
  <2>3. CallOK(r)'
    BY <1>1, <2>2 DEF CallOK, In, Left, Made, Stores, Asked, Writes, Staged
  <2>4. \A t \in temps' : t.by = r => TempOK(t)'
    BY <2>2, TempsFine
  <2>5. FilesOK'
    BY <1>3, FilesStay DEF Sees
  <2>6. /\ temps' \subseteq [by : Request, file : File, whole : BOOLEAN]
        /\ \A t \in temps' : t.by # r => t \in temps
    BY <1>1, <1>3 DEF ThingsOK, Sees
  <2>7. "ok" \in State /\ request[r].staged \in Nat
    BY <1>1, Fields DEF State
  <2> QED  BY <2>2, <2>3, <2>4, <2>5, <2>6, <2>7, OneCall DEF FilesOK
<1>4. CASE Read(r)
  BY <1>2, <1>3, <1>4 DEF Read
<1>5. CASE List(r)
  BY <1>3, <1>5 DEF List
<1> QED  BY <1>4, <1>5

\* The entries that a step of StoreEntries stores.
AtOnce(r) == IF Len(Left(r)) < adapter.chunk THEN Len(Left(r)) ELSE adapter.chunk

LEMMA Storing ==
  ASSUME SInv, NEW r \in Made, StoreEntries(r)
  PROVE  /\ r \in Request /\ CallOK(r) /\ ThingsOK /\ In(r, "working")
         /\ Stores(r) /\ Left(r) \in Seq(File) /\ Left(r) # <<>>
         /\ Len(Left(r)) \in Nat /\ Len(Left(r)) <= Len(Asked(r).files)
         /\ Len(Asked(r).files) \in Nat
         /\ AtOnce(r) \in 1 .. Len(Left(r))
         /\ files' = [f \in File |->
              IF \E i \in 1 .. AtOnce(r) : Left(r)[i] = f
              THEN IF Asked(r).kind = "delete" THEN Missing ELSE Written(r)
              ELSE files[f]]
         /\ UNCHANGED temps
         /\ \E state \in {IF AtOnce(r) = Len(Left(r)) THEN "ok" ELSE "working", "error"} :
              GoesLeft(r, state, SubSeq(Left(r), AtOnce(r) + 1, Len(Left(r))))
<1>1. r \in Request /\ CallOK(r) /\ ThingsOK /\ In(r, "working") /\ Left(r) # <<>>
  BY AdapterFacts DEF SInv, CallsOK, StoreEntries
<1>2. Stores(r) /\ Left(r) \in Seq(File) /\ Len(Left(r)) <= Len(Asked(r).files)
  BY <1>1 DEF CallOK, In
<1>3. Len(Left(r)) \in Nat /\ Len(Left(r)) > 0 /\ Len(Asked(r).files) \in Nat
  BY <1>1, <1>2, AdapterFacts
<1>4. AtOnce(r) \in 1 .. Len(Left(r))
  BY <1>1, <1>3, AdapterFacts DEF AtOnce
<1>5. /\ files' = [f \in File |->
            IF \E i \in 1 .. AtOnce(r) : Left(r)[i] = f
            THEN IF Asked(r).kind = "delete" THEN Missing ELSE Written(r)
            ELSE files[f]]
      /\ UNCHANGED temps
  BY DEF StoreEntries, AtOnce
<1>6. \E state \in {IF AtOnce(r) = Len(Left(r)) THEN "ok" ELSE "working", "error"} :
        GoesLeft(r, state, SubSeq(Left(r), AtOnce(r) + 1, Len(Left(r))))
  <2>1. PICK state \in {IF AtOnce(r) = Len(Left(r)) THEN "ok" ELSE "working", "error"} :
          request' = [request EXCEPT ![r].state = state,
                                     ![r].left = SubSeq(@, AtOnce(r) + 1, Len(@))]
    BY DEF StoreEntries, AtOnce
  <2>2. request[r] = [state |-> request[r].state, left |-> request[r].left,
                     staged |-> request[r].staged, seen |-> request[r].seen]
    BY <1>1, Fields
  <2>3. GoesLeft(r, state, SubSeq(Left(r), AtOnce(r) + 1, Len(Left(r))))
    BY <2>1, <2>2 DEF GoesLeft, Left
  <2> QED  BY <2>3
<1> QED  BY <1>1, <1>2, <1>3, <1>4, <1>5, <1>6

LEMMA StoreKeeps ==
  ASSUME SInv, NEW r \in Made, UNCHANGED adapter, StoreEntries(r)
  PROVE  SInv'
<1> DEFINE left == SubSeq(Left(r), AtOnce(r) + 1, Len(Left(r)))
<1>1. PICK state \in {IF AtOnce(r) = Len(Left(r)) THEN "ok" ELSE "working", "error"} :
        GoesLeft(r, state, left)
  BY Storing
<1>2. /\ r \in Request /\ CallOK(r) /\ ThingsOK /\ In(r, "working") /\ UNCHANGED temps
      /\ Stores(r) /\ Len(Left(r)) <= Len(Asked(r).files) /\ Len(Asked(r).files) \in Nat
  BY Storing
<1>3. left \in Seq(File) /\ Len(left) <= Len(Asked(r).files)
  <2>1. /\ Left(r) \in Seq(File) /\ AtOnce(r) \in 1 .. Len(Left(r)) /\ Len(Left(r)) \in Nat
    BY Storing
  <2>2. left \in Seq(File) /\ Len(left) = Len(Left(r)) - AtOnce(r)
    <3>1. AtOnce(r) + 1 \in 1 .. Len(Left(r)) + 1 /\ AtOnce(r) \in Nat
      BY <2>1
    <3> QED  BY <2>1, <3>1, SubSeqProperties
  <2> HIDE DEF left
  <2> QED  BY <1>2, <2>1, <2>2
<1>4. /\ request' = [request EXCEPT ![r] =
           [state |-> state, left |-> left,
            staged |-> request[r].staged, seen |-> request[r].seen]]
      /\ request'[r] = [state |-> state, left |-> left,
                        staged |-> request[r].staged, seen |-> request[r].seen]
  <2> HIDE DEF left
  <2> QED  BY <1>1, <1>2, StateAndLeft
<1>5. state \in {"ok", "working", "error"}
  BY <1>1
<1> HIDE DEF left
<1>6. CallOK(r)'
  BY <1>2, <1>3, <1>4, <1>5 DEF CallOK, In, Left, Made, Stores, Asked, Writes, Staged
<1>7. \A t \in temps' : t.by = r => TempOK(t)'
  BY <1>4, <1>5, TempsFine
<1>8. FilesOK'
  <2>1. /\ Written(r) \in [by : Request \union {"missing", "old"}, sealed : BOOLEAN]
        /\ Missing \in [by : Request \union {"missing", "old"}, sealed : BOOLEAN]
    BY <1>2, AdapterFacts DEF Written, Missing
  <2>2. Written(r).by # "missing"
    BY <1>2, Texted DEF Written
  <2>3. files' = [f \in File |->
              IF \E i \in 1 .. AtOnce(r) : Left(r)[i] = f
              THEN IF Asked(r).kind = "delete" THEN Missing ELSE Written(r)
              ELSE files[f]]
    BY Storing
  <2>4. \A f \in File : files'[f] \in {Missing, Written(r), files[f]}
    BY <2>3
  <2>5. DOMAIN files' = File /\ files' = [f \in File |-> files'[f]]
    BY <2>3
  <2>6. files' \in [File -> [by : Request \union {"missing", "old"}, sealed : BOOLEAN]]
    BY <1>2, <2>1, <2>4, <2>5 DEF ThingsOK
  <2>7. \A f \in File : files'[f].by = "missing" => files'[f] = Missing
    BY <1>2, <2>2, <2>4 DEF ThingsOK
  <2> QED  BY <2>6, <2>7 DEF FilesOK, Missing
<1>9. /\ temps' \subseteq [by : Request, file : File, whole : BOOLEAN]
      /\ \A t \in temps' : t.by # r => t \in temps
  BY <1>2 DEF ThingsOK
<1>10. state \in State /\ request[r].staged \in Nat
  BY <1>2, <1>5, Fields DEF State
<1> QED  BY <1>4, <1>6, <1>7, <1>8, <1>9, <1>10, OneCall DEF FilesOK

\* A crash ends every call that is under way.
Over == {"idle", "ok", "error"}

LEMMA StopsRecords ==
  ASSUME ThingsOK, Stops
  PROVE  \A r \in Request :
           request'[r] = IF request[r].state \in Over THEN request[r]
                         ELSE [state |-> "error", left |-> request[r].left,
                               staged |-> request[r].staged, seen |-> request[r].seen]
<1> TAKE r \in Request
<1>1. request'[r] = IF request[r].state \in Over THEN request[r]
                    ELSE [request[r] EXCEPT !.state = "error"]
  BY DEF Stops, Over
<1>2. request[r] = [state |-> request[r].state, left |-> request[r].left,
                   staged |-> request[r].staged, seen |-> request[r].seen]
  BY Fields
<1>3. [request[r] EXCEPT !.state = "error"] =
        [state |-> "error", left |-> request[r].left,
         staged |-> request[r].staged, seen |-> request[r].seen]
  BY <1>2
<1> QED  BY <1>1, <1>3

LEMMA StopsKeeps ==
  ASSUME SInv, UNCHANGED adapter, Stops
  PROVE  SInv'
<1>1. ThingsOK /\ UNCHANGED <<files, temps>>
  BY DEF SInv, Stops
<1>2. \A r \in Request :
        /\ request[r].state \in Over => request'[r] = request[r]
        /\ request[r].state \notin Over =>
             request'[r] = [state |-> "error", left |-> request[r].left,
                            staged |-> request[r].staged, seen |-> request[r].seen]
  BY <1>1, StopsRecords
<1>3. \A r \in Request :
        /\ request'[r] = [state |-> request'[r].state, left |-> request'[r].left,
                          staged |-> request'[r].staged, seen |-> request'[r].seen]
        /\ request'[r].state \in State /\ request'[r].staged \in Nat
  <2> TAKE r \in Request
  <2>1. CASE request[r].state \in Over
    BY <1>1, <1>2, <2>1, Fields
  <2>2. CASE request[r].state \notin Over
    <3>1. request'[r] = [state |-> "error", left |-> request[r].left,
                        staged |-> request[r].staged, seen |-> request[r].seen]
      BY <1>2, <2>2
    <3>2. request[r].staged \in Nat /\ "error" \in State
      BY <1>1, Fields DEF State
    <3> QED  BY <3>1, <3>2
  <2> QED  BY <2>1, <2>2
<1>4. request' = [q \in Request |->
        [state |-> request'[q].state, left |-> request'[q].left,
         staged |-> request'[q].staged, seen |-> request'[q].seen]]
  <2>1. request' = [q \in Request |-> request'[q]]
    BY DEF Stops
  <2> QED  BY <2>1, <1>3
<1>5. ThingsOK'
  BY <1>1, <1>3, <1>4 DEF ThingsOK, Missing
<1>6. CallsOK'
  <2> SUFFICES ASSUME NEW r \in Request PROVE CallOK(r)'
    BY DEF CallsOK
  <2>1. CallOK(r)
    BY DEF SInv, CallsOK
  <2>2. CASE request[r].state \in Over
    BY <1>2, <2>1, <2>2, CallStays
  <2>3. CASE request[r].state \notin Over
    <3>1. request'[r] = [state |-> "error", left |-> request[r].left,
                        staged |-> request[r].staged, seen |-> request[r].seen]
      BY <1>2, <2>3
    <3>2. request[r].state \notin {"idle", "ok"}
      BY <2>3 DEF Over
    <3>3. r \in Made
      BY <2>1, <3>2, Fields, <1>1, <2>3 DEF CallOK, Idle, In, Over
    <3>4. Stores(r)' = Stores(r) /\ Made' = Made /\ Asked(r)' = Asked(r)
      BY DEF Stores, Made, Asked
    <3>5. request[r].seen = <<>>
      BY <2>1, <3>2 DEF CallOK, In
    <3>6. Left(r)' = Left(r) /\ Left(r)' = request'[r].left
      BY <3>1 DEF Left
    <3> QED
      BY <2>1, <3>1, <3>3, <3>4, <3>5, <3>6 DEF CallOK, In, Staged
  <2> QED  BY <2>2, <2>3
<1>7. TempsOK'
  <2> SUFFICES ASSUME NEW t \in temps' PROVE TempOK(t)'
    BY DEF TempsOK
  <2>1. t \in temps /\ TempOK(t) /\ t.by \in Request
    BY <1>1 DEF SInv, TempsOK, ThingsOK
  <2>2. CASE request[t.by].state \in Over
    BY <1>2, <2>1, <2>2, TempStays
  <2>3. CASE request[t.by].state \notin Over
    <3>1. request'[t.by] = [state |-> "error", left |-> request[t.by].left,
                           staged |-> request[t.by].staged, seen |-> request[t.by].seen]
      BY <1>2, <2>1, <2>3
    <3> QED  BY <3>1 DEF TempOK, In
  <2> QED  BY <2>2, <2>3
<1> QED  BY <1>5, <1>6, <1>7 DEF SInv

LEMMA NextSInv == ASSUME SInv, [StorageNext]_storageVars PROVE SInv'
<1>1. CASE UNCHANGED storageVars
  <2>1. ThingsOK'
    BY <1>1 DEF SInv, ThingsOK, Missing
  <2>2. CallsOK'
    BY <1>1, CallStays DEF SInv, CallsOK
  <2>3. TempsOK'
    BY <1>1, TempStays DEF SInv, TempsOK
  <2> QED  BY <2>1, <2>2, <2>3 DEF SInv
<1>2. CASE StorageNext
  <2>1. UNCHANGED adapter
    BY <1>2 DEF StorageNext
  <2>2. ASSUME NEW r \in Made,
               Call(r) \/ Prepare(r) \/ StageBegins(r) \/ StageEnds(r) \/ Rename(r)
        PROVE  SInv'
    BY <2>1, <2>2, CallKeeps, PrepareKeeps, StageBeginsKeeps, StageEndsKeeps, RenameKeeps
  <2>3. ASSUME NEW r \in Made,
               \/ StageFails(r) \/ RenameFails(r) \/ Unstage(r) \/ Cleaned(r)
               \/ NothingToDo(r) \/ Refused(r)
        PROVE  SInv'
    BY <2>1, <2>3, SimpleStepsKeep
  <2>4. ASSUME NEW r \in Made,
               FindOrphans(r) \/ RemoveOrphan(r) \/ StoreEntries(r) \/ Read(r) \/ List(r)
        PROVE  SInv'
    BY <2>1, <2>4, OrphansKeep, StoreKeeps, SeesKeeps
  <2>5. CASE Stops
    BY <2>1, <2>5, StopsKeeps
  <2> QED  BY <1>2, <2>2, <2>3, <2>4, <2>5 DEF StorageNext
<1> QED  BY <1>1, <1>2

\* Types, and that no file ever has a part of a text only: the adapter that a
\* crash interrupts leaves temporary files, never a torn one.
THEOREM StorageTypeCorrect == StorageSpec => []StorageTypeOK
<1>1. StorageInit => SInv
  BY InitSInv
<1>2. SInv /\ [StorageNext]_storageVars => SInv'
  BY NextSInv
<1>3. SInv => StorageTypeOK
  <2> SUFFICES ASSUME SInv PROVE StorageTypeOK
    OBVIOUS
  <2>1. \A r \in Request : In(r, "staging") \/ In(r, "filling") => request[r].staged < Len(Left(r))
    BY DEF SInv, CallsOK, CallOK
  <2> QED  BY <2>1 DEF SInv, ThingsOK, StorageTypeOK
<1> QED  BY <1>1, <1>2, <1>3, PTL DEF StorageSpec

-----------------------------------------------------------------------------
(* What the contract sees of a step.                                         *)

AsksNow(r) == r \in Made /\ ~In(r, "idle") /\ Asked(r).kind \in {"read", "list"}

CallView(r) ==
  [state |-> IF request[r].state \in Answers THEN request[r].state ELSE "busy",
   asks |-> AsksNow(r),
   todo |-> ToStore(r),
   seen |-> request[r].seen]

LEMMA CallsView ==
  /\ Calls = [r \in Request |-> CallView(r)]
  /\ Calls' = [r \in Request |-> CallView(r)']
BY DEF Calls, CallView, AsksNow

LEMMA ViewStays ==
  ASSUME NEW r, UNCHANGED adapter, request'[r] = request[r]
  PROVE  CallView(r)' = CallView(r)
BY DEF CallView, AsksNow, ToStore, Stores, NewText, Asked, Made, In, Left

LEMMA OthersStay ==
  ASSUME NEW r \in Request, UNCHANGED adapter,
         \A q \in Request \ {r} : request'[q] = request[q]
  PROVE  Calls' = [Calls EXCEPT ![r] = CallView(r)']
<1>1. \A q \in Request \ {r} : CallView(q)' = CallView(q)
  BY ViewStays
<1> QED  BY <1>1, CallsView

\* What it is asked to store depends on what it has left only.
LEMMA ToStoreStays ==
  ASSUME NEW r, UNCHANGED adapter, request'[r].left = request[r].left
  PROVE  ToStore(r)' = ToStore(r)
BY DEF ToStore, Stores, NewText, Asked, Made, Left

LEMMA WholeStays == ASSUME UNCHANGED adapter PROVE WholeBatches' = WholeBatches
BY DEF WholeBatches, Made, Asked

LEMMA TextsStay == ASSUME UNCHANGED <<adapter, files>> PROVE Texts' = Texts
BY DEF Texts, Readable, Missing

\* A step inside of a call is not seen.
LEMMA Inside ==
  ASSUME ThingsOK, NEW r \in Request, UNCHANGED adapter,
         request[r].state \notin Answers, request'[r].state \notin Answers,
         request'[r].left = request[r].left \/ ~Stores(r),
         request'[r].seen = request[r].seen,
         \A q \in Request \ {r} : request'[q] = request[q]
  PROVE  Calls' = Calls
<1>1. ToStore(r)' = ToStore(r)
  <2>1. CASE ~Stores(r)
    BY <2>1 DEF ToStore, Stores, Made, Asked
  <2>2. CASE request'[r].left = request[r].left
    BY <2>2, ToStoreStays
  <2> QED  BY <2>1, <2>2
<1>2. CallView(r)' = CallView(r)
  BY <1>1 DEF CallView, AsksNow, Answers, In, Made, Asked
<1>3. Calls' = [Calls EXCEPT ![r] = CallView(r)]
  BY <1>2, OthersStay
<1>4. [Calls EXCEPT ![r] = CallView(r)] = Calls
  BY CallsView
<1> QED  BY <1>3, <1>4

\* A call that is answered.
LEMMA Ends ==
  ASSUME ThingsOK, NEW r \in Request, UNCHANGED <<adapter, files>>,
         NEW state \in {"ok", "error"}, Goes(r, state),
         request[r].state \notin Answers,
         state = "ok" => ToStore(r) = <<>>,
         state = "ok" => Asked(r).kind \notin {"read", "list"}
  PROVE  Contract!End(r, state)
<1>1. /\ request'[r].state = state
      /\ request'[r].left = request[r].left
      /\ request'[r].seen = request[r].seen
      /\ \A q \in Request \ {r} : request'[q] = request[q]
  <2>1. /\ request'[r] = [state |-> state, left |-> request[r].left,
                         staged |-> request[r].staged, seen |-> request[r].seen]
        /\ \A q \in Request \ {r} : request'[q] = request[q]
    BY GoesFields
  <2> QED  BY <2>1
<1>2. ToStore(r)' = ToStore(r)
  BY <1>1, ToStoreStays
<1>3. CallView(r)' = [state |-> state, asks |-> CallView(r).asks,
                     todo |-> CallView(r).todo, seen |-> CallView(r).seen]
  BY <1>1, <1>2 DEF CallView, AsksNow, Answers, In, Made, Asked
<1>4. Calls[r] = CallView(r)
  BY CallsView
<1>5. CallView(r)' = [Calls[r] EXCEPT !.state = state]
  <2>1. CallView(r) = [state |-> CallView(r).state, asks |-> CallView(r).asks,
                      todo |-> CallView(r).todo, seen |-> CallView(r).seen]
    BY DEF CallView
  <2> QED  BY <1>3, <1>4, <2>1
<1>6. Calls' = [Calls EXCEPT ![r] = [Calls[r] EXCEPT !.state = state]]
  BY <1>1, <1>5, OthersStay
<1>7. Calls[r].state = "busy"
  BY <1>4 DEF CallView
<1>8. state = "ok" => Calls[r].todo = <<>> /\ ~Calls[r].asks
  <2>1. Calls[r].todo = ToStore(r)
    BY <1>4 DEF CallView
  <2>2. ASSUME Asked(r).kind \notin {"read", "list"} PROVE ~Calls[r].asks
    <3>1. Calls[r].asks = AsksNow(r)
      BY <1>4 DEF CallView
    <3>2. AsksNow(r) = FALSE
      BY <2>2 DEF AsksNow
    <3> QED  BY <3>1, <3>2
  <2> QED  BY <2>1, <2>2
<1>9. UNCHANGED <<WholeBatches, Texts>>
  BY WholeStays, TextsStay
<1> QED  BY <1>6, <1>7, <1>8, <1>9 DEF Contract!End, Contract!Become

LEMMA EndIsNext ==
  ASSUME NEW r \in Request, NEW state \in {"ok", "error"}, Contract!End(r, state)
  PROVE  Contract!Next
BY DEF Contract!Next

\* Entries that are stored at once.
LEMMA TodoOfRest ==
  ASSUME NEW L \in Seq(File), NEW k \in 1 .. Len(L), NEW v
  PROVE  LET list == [i \in 1 .. Len(L) |-> [file |-> L[i], val |-> v]]
             rest == SubSeq(L, k + 1, Len(L))
         IN  SubSeq(list, k + 1, Len(list)) = [i \in 1 .. Len(rest) |-> [file |-> rest[i], val |-> v]]
OBVIOUS

Taken(f, r, k) == \E i \in 1 .. k : Left(r)[i] = f
NowIn(r) == IF Asked(r).kind = "delete" THEN Missing ELSE Written(r)

TextOf(f) == IF Readable(files[f]) THEN files[f].by ELSE "unreadable"

\* What a call has stored is what it was asked to store.
LEMMA NewTexts ==
  ASSUME SInv, NEW r \in Made, Stores(r), UNCHANGED adapter, NEW k,
         files' = [f \in File |-> IF Taken(f, r, k) THEN NowIn(r) ELSE files[f]]
  PROVE  Texts' = [f \in File |-> IF Taken(f, r, k) THEN NewText(r) ELSE Texts[f]]
<1>1. r # "missing"
  BY AdapterFacts, Texted DEF SInv
<1>2. /\ Texts = [f \in File |-> TextOf(f)]
      /\ Texts' = [f \in File |-> TextOf(f)']
  BY DEF Texts, TextOf
<1>3. ASSUME NEW f \in File
      PROVE  TextOf(f)' = IF Taken(f, r, k) THEN NewText(r) ELSE Texts[f]
  <2>1. CASE Taken(f, r, k)
    <3>1. files'[f] = NowIn(r)
      BY <2>1
    <3> QED
      BY <2>1, <3>1, <1>1 DEF TextOf, Readable, NowIn, NewText, Missing, Written
  <2>2. CASE ~Taken(f, r, k)
    <3>1. files'[f] = files[f]
      BY <2>2
    <3>2. TextOf(f)' = TextOf(f)
      BY <3>1 DEF TextOf, Readable, Missing
    <3> QED  BY <1>2, <2>2, <3>2
  <2> QED  BY <2>1, <2>2
<1> QED  BY <1>2, <1>3

Shown(state) == IF state \in Answers THEN state ELSE "busy"

LEMMA Takes ==
  ASSUME SInv, NEW r \in Made, Stores(r), UNCHANGED adapter,
         Left(r) \in Seq(File), NEW k \in 1 .. Len(Left(r)),
         request[r].state \notin Answers, NEW state,
         request'[r] = [state |-> state, left |-> SubSeq(Left(r), k + 1, Len(Left(r))),
                        staged |-> request'[r].staged, seen |-> request[r].seen],
         state = "ok" => k = Len(Left(r)),
         state # "idle",
         WholeBatches => k = Len(Left(r)),
         \A q \in Request \ {r} : request'[q] = request[q],
         files' = [f \in File |-> IF Taken(f, r, k) THEN NowIn(r) ELSE files[f]]
  PROVE  Contract!Next
<1> DEFINE list == Calls[r].todo
<1>1. r \in Request /\ ThingsOK /\ Len(Left(r)) \in Nat
  BY AdapterFacts DEF SInv
<1>2. Calls[r] = CallView(r) /\ list = ToStore(r)
  BY <1>1, CallsView DEF CallView
<1>3. list = [i \in 1 .. Len(Left(r)) |-> [file |-> Left(r)[i], val |-> NewText(r)]]
  BY <1>2 DEF ToStore
<1>4. Len(list) = Len(Left(r)) /\ k \in 1 .. Len(list)
  BY <1>1, <1>3
<1>5. ToStore(r)' = SubSeq(list, k + 1, Len(list))
  <2> DEFINE rest == SubSeq(Left(r), k + 1, Len(Left(r)))
  <2>1. Stores(r)' /\ NewText(r)' = NewText(r)
    BY DEF Stores, NewText, Made, Asked
  <2>2. Left(r)' = rest
    BY DEF Left
  <2>3. ToStore(r)' = [i \in 1 .. Len(rest) |-> [file |-> rest[i], val |-> NewText(r)]]
    <3> HIDE DEF rest
    <3> QED  BY <2>1, <2>2 DEF ToStore
  <2>4. SubSeq(list, k + 1, Len(list)) = [i \in 1 .. Len(rest) |-> [file |-> rest[i], val |-> NewText(r)]]
    BY <1>3, TodoOfRest
  <2> QED  BY <2>3, <2>4
<1>6. CallView(r)' = [Calls[r] EXCEPT !.todo = SubSeq(list, k + 1, Len(list)), !.state = Shown(state)]
  <2> DEFINE cut == SubSeq(list, k + 1, Len(list))
  <2>1. Calls[r] = [state |-> CallView(r).state, asks |-> AsksNow(r),
                    todo |-> list, seen |-> request[r].seen]
    BY <1>2 DEF CallView
  <2>2. AsksNow(r)' = AsksNow(r)
    BY DEF AsksNow, In, Made, Asked, Answers
  <2>3. CallView(r)' = [state |-> Shown(state), asks |-> AsksNow(r),
                        todo |-> cut, seen |-> request[r].seen]
    <3>1. CallView(r)' = [state |-> Shown(request'[r].state), asks |-> AsksNow(r)',
                          todo |-> ToStore(r)', seen |-> request'[r].seen]
      BY DEF CallView, Shown, Answers
    <3>2. request'[r].state = state /\ request'[r].seen = request[r].seen
      OBVIOUS
    <3> HIDE DEF cut
    <3>3. ToStore(r)' = cut
      BY <1>5 DEF cut
    <3> QED  BY <2>2, <3>1, <3>2, <3>3
  <2> HIDE DEF cut, list
  <2> DEFINE one == [Calls[r] EXCEPT !.todo = cut]
  <2>4. one = [state |-> CallView(r).state, asks |-> AsksNow(r),
               todo |-> cut, seen |-> request[r].seen]
    BY <2>1
  <2>5. [Calls[r] EXCEPT !.todo = cut, !.state = Shown(state)]
          = [one EXCEPT !.state = Shown(state)]
    OBVIOUS
  <2> HIDE DEF one
  <2>6. [one EXCEPT !.state = Shown(state)] = CallView(r)'
    BY <2>3, <2>4
  <2> QED  BY <2>5, <2>6 DEF cut
<1>7. Calls' = [Calls EXCEPT ![r] = CallView(r)']
  BY <1>1, OthersStay
<1>8. Texts' = [f \in File |->
        IF \E i \in 1 .. k : list[i].file = f
        THEN list[CHOOSE i \in 1 .. k : list[i].file = f].val ELSE Texts[f]]
  <2>1. Texts' = [f \in File |-> IF Taken(f, r, k) THEN NewText(r) ELSE Texts[f]]
    BY NewTexts
  <2>2. \A i \in 1 .. k : list[i].file = Left(r)[i] /\ list[i].val = NewText(r)
    BY <1>1, <1>3
  <2> HIDE DEF list
  <2>3. ASSUME NEW f \in File
        PROVE  (IF \E i \in 1 .. k : list[i].file = f
                THEN list[CHOOSE i \in 1 .. k : list[i].file = f].val ELSE Texts[f])
                 = IF Taken(f, r, k) THEN NewText(r) ELSE Texts[f]
    BY <2>2 DEF Taken
  <2> QED  BY <2>1, <2>3
<1>9. Calls[r].state = "busy"
  BY <1>2 DEF CallView
<1>10. WholeBatches' = WholeBatches
  BY WholeStays
<1>11. Shown(state) \in {"busy", "ok", "error"} /\ (Shown(state) = "ok" => k = Len(list))
  BY <1>4 DEF Shown, Answers
<1>12. Contract!Take(r, k, Shown(state))
  <2> HIDE DEF list
  <2>1. Contract!Become(r, [Calls[r] EXCEPT !.todo = SubSeq(list, k + 1, Len(list)),
                                            !.state = Shown(state)])
    BY <1>6, <1>7 DEF Contract!Become
  <2>2. WholeBatches => k = Len(list)
    BY <1>4
  <2> QED  BY <1>8, <1>9, <1>10, <1>11, <2>1, <2>2 DEF Contract!Take, list
<1>13. k \in 1 .. Len(Calls[r].todo)
  BY <1>4
<1> QED  BY <1>1, <1>11, <1>12, <1>13 DEF Contract!Next

-----------------------------------------------------------------------------
(* Every step is one of the contract's, or is not seen.                      *)

Hidden == UNCHANGED Contract!vars

LEMMA InsideIsHidden ==
  ASSUME UNCHANGED <<adapter, files>>, Calls' = Calls
  PROVE  Hidden
BY WholeStays, TextsStay DEF Hidden, Contract!vars

LEMMA CallMaps ==
  ASSUME SInv, NEW r \in Made, UNCHANGED adapter, Call(r)
  PROVE  Contract!Next
<1> DEFINE left == IF Writes(r) \/ Asked(r).kind = "delete" THEN Asked(r).files ELSE <<>>
<1>1. r \in Request /\ ThingsOK /\ In(r, "idle") /\ UNCHANGED files
  BY AdapterFacts DEF SInv, Call
<1>2. request' = [request EXCEPT ![r] =
         [state |-> "preparing", left |-> left, staged |-> 0, seen |-> <<>>]]
  <2>1. request' = [request EXCEPT ![r] =
          [Idle EXCEPT !.state = "preparing", !.left = left]]
    BY DEF Call
  <2>2. [Idle EXCEPT !.state = "preparing", !.left = left]
          = [state |-> "preparing", left |-> left, staged |-> 0, seen |-> <<>>]
    BY IdleExcept
  <2> QED  BY <2>1, <2>2
<1>3. /\ request'[r] = [state |-> "preparing", left |-> left, staged |-> 0, seen |-> <<>>]
      /\ \A q \in Request \ {r} : request'[q] = request[q]
  <2> HIDE DEF left
  <2> QED  BY <1>1, <1>2, Fields
<1>4. request'[r].state = "preparing" /\ request'[r].seen = <<>>
  BY <1>3
<1>5. Calls[r] = CallView(r) /\ Calls'[r] = CallView(r)'
  BY <1>1, CallsView
<1>6. Calls[r].state = "idle"
  BY <1>1, <1>5 DEF CallView, In, Answers
<1>7. Calls'[r].state = "busy" /\ Calls'[r].seen = <<>>
  BY <1>4, <1>5 DEF CallView, Answers
<1>8. Calls'[r].asks => Calls'[r].todo = <<>>
  <2>1. Calls'[r].asks = AsksNow(r)' /\ Calls'[r].todo = ToStore(r)'
    BY <1>5 DEF CallView
  <2>2. ASSUME AsksNow(r)' PROVE ToStore(r)' = <<>>
    BY <2>2 DEF AsksNow, ToStore, Stores
  <2> QED  BY <2>1, <2>2
<1>9. Calls' = [Calls EXCEPT ![r] = Calls'[r]]
  BY <1>1, <1>3, <1>5, OthersStay
<1>10. UNCHANGED <<WholeBatches, Texts>>
  BY <1>1, WholeStays, TextsStay
<1>11. Contract!Begin(r, Calls'[r])
  BY <1>6, <1>7, <1>8, <1>9, <1>10 DEF Contract!Begin, Contract!Become
<1> QED  BY <1>1, <1>11 DEF Contract!Next

LEMMA GoesInside ==
  ASSUME SInv, NEW r \in Made, UNCHANGED <<adapter, files>>,
         NEW state \in State \ Answers, Goes(r, state), request[r].state \notin Answers
  PROVE  Hidden
<1>1. r \in Request /\ ThingsOK
  BY AdapterFacts DEF SInv
<1>2. /\ request'[r] = [state |-> state, left |-> request[r].left,
                        staged |-> request[r].staged, seen |-> request[r].seen]
      /\ \A q \in Request \ {r} : request'[q] = request[q]
  BY <1>1, GoesFields
<1>3. /\ request'[r].state \notin Answers
      /\ request'[r].left = request[r].left
      /\ request'[r].seen = request[r].seen
  BY <1>2
<1>4. Calls' = Calls
  BY <1>1, <1>2, <1>3, Inside
<1> QED  BY <1>4, InsideIsHidden

LEMMA FailsMaps ==
  ASSUME SInv, NEW r \in Made, UNCHANGED <<adapter, files>>,
         Goes(r, "error"), request[r].state \notin Answers
  PROVE  Contract!Next
<1>1. r \in Request /\ ThingsOK
  BY AdapterFacts DEF SInv
<1>2. Contract!End(r, "error")
  BY <1>1, Ends
<1> QED  BY <1>1, <1>2, EndIsNext

LEMMA SimpleMap ==
  ASSUME SInv, NEW r \in Made, UNCHANGED adapter,
         \/ Prepare(r) \/ StageBegins(r) \/ StageFails(r) \/ RenameFails(r)
         \/ Unstage(r) \/ Refused(r)
  PROVE  Contract!Next \/ Hidden
<1>1. /\ request[r].state \notin Answers /\ UNCHANGED files
      /\ \E state \in {"working", "staging", "filling", "unstaging", "error"} : Goes(r, state)
  BY DEF Prepare, StageBegins, StageFails, RenameFails, Unstage, Refused, Fails, GivesUp, Open,
         In, Answers
<1>2. PICK state \in {"working", "staging", "filling", "unstaging", "error"} : Goes(r, state)
  BY <1>1
<1>3. CASE state = "error"
  BY <1>1, <1>2, <1>3, FailsMaps
<1>4. CASE state # "error"
  <2>1. state \in State \ Answers
    BY <1>4 DEF State, Answers
  <2> QED  BY <1>1, <1>2, <2>1, GoesInside
<1> QED  BY <1>3, <1>4

LEMMA StageEndsMaps ==
  ASSUME SInv, NEW r \in Made, UNCHANGED adapter, StageEnds(r)
  PROVE  Hidden
<1> DEFINE last == request[r].staged + 1 = Len(Left(r))
           state == IF last THEN "renaming" ELSE "staging"
           staged == request[r].staged + 1
<1>1. r \in Request /\ ThingsOK /\ In(r, "filling") /\ UNCHANGED files
  BY StagingFile DEF StageEnds
<1>2. GoesStaged(r, state, staged)
  <2>1. request' = [request EXCEPT ![r].state = state, ![r].staged = @ + 1]
    BY DEF StageEnds
  <2>2. request[r] = [state |-> request[r].state, left |-> request[r].left,
                     staged |-> request[r].staged, seen |-> request[r].seen]
    BY <1>1, Fields
  <2> HIDE DEF state
  <2> QED  BY <2>1, <2>2 DEF GoesStaged
<1>3. state \notin Answers
  BY DEF Answers
<1> HIDE DEF state, staged
<1>4. /\ request'[r] = [state |-> state, left |-> request[r].left,
                        staged |-> staged, seen |-> request[r].seen]
      /\ \A q \in Request \ {r} : request'[q] = request[q]
  BY <1>1, <1>2, StateAndStaged
<1>5. /\ request'[r].state \notin Answers
      /\ request'[r].left = request[r].left
      /\ request'[r].seen = request[r].seen
  BY <1>3, <1>4
<1>6. request[r].state \notin Answers
  BY <1>1 DEF In, Answers
<1>7. Calls' = Calls
  BY <1>1, <1>4, <1>5, <1>6, Inside
<1> QED  BY <1>1, <1>7, InsideIsHidden

LEMMA OrphansMap ==
  ASSUME SInv, NEW r \in Made, UNCHANGED adapter, FindOrphans(r) \/ RemoveOrphan(r)
  PROVE  Hidden
<1>1. r \in Request /\ CallOK(r) /\ ThingsOK
  BY AdapterFacts DEF SInv, CallsOK
<1>2. /\ request[r].state \notin Answers /\ UNCHANGED files
      /\ Asked(r).kind = "cleanOrphans"
  BY <1>1 DEF FindOrphans, RemoveOrphan, In, Answers, CallOK
<1>3. ~Stores(r)
  BY <1>2 DEF Stores
<1>4. /\ request'[r].state \notin Answers /\ request'[r].seen = request[r].seen
      /\ \A q \in Request \ {r} : request'[q] = request[q]
  <2>1. CASE FindOrphans(r)
    <3>1. \E found : GoesLeft(r, "cleaning", found)
      BY <2>1 DEF FindOrphans, GoesLeft
    <3>2. PICK found : GoesLeft(r, "cleaning", found)
      BY <3>1
    <3>3. /\ request' = [request EXCEPT ![r] =
               [state |-> "cleaning", left |-> found,
                staged |-> request[r].staged, seen |-> request[r].seen]]
          /\ request'[r] =
               [state |-> "cleaning", left |-> found,
                staged |-> request[r].staged, seen |-> request[r].seen]
          /\ \A q \in Request \ {r} : request'[q] = request[q]
      BY <1>1, <3>2, StateAndLeft
    <3> QED  BY <3>3 DEF Answers
  <2>2. CASE RemoveOrphan(r)
    <3>1. request[r] = [state |-> "cleaning", left |-> request[r].left,
                       staged |-> request[r].staged, seen |-> request[r].seen]
      BY <1>1, <2>2, Fields DEF RemoveOrphan, In
    <3>2. request' = [request EXCEPT ![r] = [request[r] EXCEPT !.left = Tail(request[r].left)]]
      BY <2>2 DEF RemoveOrphan
    <3>3. /\ request'[r] = [request[r] EXCEPT !.left = Tail(request[r].left)]
          /\ \A q \in Request \ {r} : request'[q] = request[q]
      BY <1>1, <3>2, Fields
    <3> QED  BY <3>1, <3>3 DEF Answers
  <2> QED  BY <2>1, <2>2
<1>5. Calls' = Calls
  BY <1>1, <1>2, <1>3, <1>4, Inside
<1> QED  BY <1>2, <1>5, InsideIsHidden

LEMMA AnsweredMaps ==
  ASSUME SInv, NEW r \in Made, UNCHANGED adapter, Cleaned(r) \/ NothingToDo(r)
  PROVE  Contract!Next
<1>1. r \in Request /\ CallOK(r) /\ ThingsOK
  BY AdapterFacts DEF SInv, CallsOK
<1>2. /\ request[r].state \notin Answers /\ UNCHANGED files /\ Goes(r, "ok")
      /\ Asked(r).kind \in {"writeAll", "cleanOrphans"}
      /\ Asked(r).kind = "writeAll" => Left(r) = <<>>
  BY <1>1 DEF Cleaned, NothingToDo, In, Answers, CallOK
<1>3. ToStore(r) = <<>>
  <2>1. CASE Asked(r).kind = "writeAll"
    <3>1. Len(Left(r)) = 0
      BY <1>2, <2>1
    <3> QED  BY <3>1 DEF ToStore
  <2>2. CASE Asked(r).kind = "cleanOrphans"
    BY <2>2 DEF ToStore, Stores
  <2> QED  BY <1>2, <2>1, <2>2
<1>4. Asked(r).kind \notin {"read", "list"}
  BY <1>2
<1>5. Contract!End(r, "ok")
  BY <1>1, <1>2, <1>3, <1>4, Ends
<1> QED  BY <1>1, <1>5, EndIsNext

LEMMA RenameMaps ==
  ASSUME SInv, NEW r \in Made, UNCHANGED adapter, Rename(r)
  PROVE  Contract!Next
<1> DEFINE rest == SubSeq(Left(r), 2, Len(Left(r)))
<1>1. /\ r \in Request /\ ThingsOK /\ In(r, "renaming") /\ Stores(r) /\ Writes(r)
      /\ Left(r) \in Seq(File) /\ Left(r) # <<>>
      /\ Len(Left(r)) \in Nat /\ Len(Left(r)) <= Len(Asked(r).files)
      /\ Len(Asked(r).files) \in Nat /\ adapter.staged
      /\ GoesLeft(r, Renamed(r), Tail(Left(r)))
      /\ files' = [files EXCEPT ![Head(Left(r))] = Written(r)]
  BY Renaming
<1>2. Tail(Left(r)) = rest /\ Len(Left(r)) >= 1
  BY <1>1
<1>3. /\ request'[r] = [state |-> Renamed(r), left |-> rest,
                        staged |-> request[r].staged, seen |-> request[r].seen]
      /\ \A q \in Request \ {r} : request'[q] = request[q]
  <2> HIDE DEF rest
  <2>1. GoesLeft(r, Renamed(r), rest)
    BY <1>1, <1>2
  <2>2. /\ request' = [request EXCEPT ![r] =
             [state |-> Renamed(r), left |-> rest,
              staged |-> request[r].staged, seen |-> request[r].seen]]
        /\ request'[r] =
             [state |-> Renamed(r), left |-> rest,
              staged |-> request[r].staged, seen |-> request[r].seen]
        /\ \A q \in Request \ {r} : request'[q] = request[q]
    BY <1>1, <2>1, StateAndLeft
  <2> QED  BY <2>2
<1>4. /\ Renamed(r) = "ok" => 1 = Len(Left(r))
      /\ Renamed(r) # "idle"
  BY DEF Renamed
<1>5. WholeBatches => 1 = Len(Left(r))
  <2>1. adapter.chunk = 1
    BY <1>1, AdapterFacts
  <2>2. ASSUME WholeBatches PROVE 1 = Len(Left(r))
    <3>1. Len(Asked(r).files) <= 1
      BY <2>1, <2>2 DEF WholeBatches
    <3> DEFINE left == Len(Left(r))
               given == Len(Asked(r).files)
    <3>2. left \in Nat /\ given \in Nat /\ left <= given /\ left >= 1
      BY <1>1, <1>2
    <3>3. given <= 1
      BY <3>1
    <3> HIDE DEF rest, left, given
    <3>4. left = 1
      BY <3>2, <3>3
    <3> QED  BY <3>4 DEF left
  <2> QED  BY <2>2
<1>6. files' = [f \in File |-> IF Taken(f, r, 1) THEN NowIn(r) ELSE files[f]]
  <2>1. NowIn(r) = Written(r)
    BY <1>1 DEF NowIn, Writes
  <2>2. \A f \in File : Taken(f, r, 1) <=> f = Head(Left(r))
    BY <1>1 DEF Taken
  <2> QED  BY <1>1, <2>1, <2>2 DEF ThingsOK
<1>7. request[r].state \notin Answers /\ 1 \in 1 .. Len(Left(r))
  BY <1>1, <1>2 DEF In, Answers
<1>8. request'[r] = [state |-> Renamed(r), left |-> SubSeq(Left(r), 1 + 1, Len(Left(r))),
                     staged |-> request'[r].staged, seen |-> request[r].seen]
  BY <1>3
<1> QED  BY <1>1, <1>3, <1>4, <1>5, <1>6, <1>7, <1>8, Takes

LEMMA StoreMaps ==
  ASSUME SInv, NEW r \in Made, UNCHANGED adapter, StoreEntries(r)
  PROVE  Contract!Next
<1> DEFINE k == AtOnce(r)
           rest == SubSeq(Left(r), k + 1, Len(Left(r)))
<1>1. /\ r \in Request /\ ThingsOK /\ In(r, "working") /\ Stores(r)
      /\ Left(r) \in Seq(File) /\ Len(Left(r)) \in Nat
      /\ Len(Left(r)) <= Len(Asked(r).files) /\ Len(Asked(r).files) \in Nat
      /\ k \in 1 .. Len(Left(r))
  BY Storing
<1>2. PICK state \in {IF k = Len(Left(r)) THEN "ok" ELSE "working", "error"} :
        GoesLeft(r, state, rest)
  BY Storing
<1>3. /\ request'[r] = [state |-> state, left |-> rest,
                        staged |-> request[r].staged, seen |-> request[r].seen]
      /\ \A q \in Request \ {r} : request'[q] = request[q]
  <2> HIDE DEF rest
  <2>2. /\ request' = [request EXCEPT ![r] =
             [state |-> state, left |-> rest,
              staged |-> request[r].staged, seen |-> request[r].seen]]
        /\ request'[r] =
             [state |-> state, left |-> rest,
              staged |-> request[r].staged, seen |-> request[r].seen]
        /\ \A q \in Request \ {r} : request'[q] = request[q]
    BY <1>1, <1>2, StateAndLeft
  <2> QED  BY <2>2
<1>4. (state = "ok" => k = Len(Left(r))) /\ state # "idle"
  BY <1>2
<1>5. WholeBatches => k = Len(Left(r))
  BY <1>1, AdapterFacts DEF WholeBatches, AtOnce
<1>6. files' = [f \in File |-> IF Taken(f, r, k) THEN NowIn(r) ELSE files[f]]
  BY Storing DEF Taken, NowIn
<1>7. request[r].state \notin Answers
  BY <1>1 DEF In, Answers
<1>8. request'[r] = [state |-> state, left |-> SubSeq(Left(r), k + 1, Len(Left(r))),
                     staged |-> request'[r].staged, seen |-> request[r].seen]
  BY <1>3
<1> QED  BY <1>1, <1>3, <1>4, <1>5, <1>6, <1>7, <1>8, Takes

LEMMA LookMaps ==
  ASSUME SInv, NEW r \in Made, UNCHANGED adapter, In(r, "working"),
         Asked(r).kind \in {"read", "list"}, NEW what, Sees(r, what),
         what \in {{Texts[f]} : f \in File} \union {{f \in File : Texts[f] # "missing"}}
  PROVE  Contract!Next
<1>1. r \in Request /\ CallOK(r) /\ ThingsOK /\ UNCHANGED files
  BY AdapterFacts DEF SInv, CallsOK, Sees
<1>2. GoesSeen(r, "ok", <<what>>)
  BY DEF Sees, GoesSeen
<1>3. /\ request' = [request EXCEPT ![r] =
           [state |-> "ok", left |-> request[r].left,
            staged |-> request[r].staged, seen |-> <<what>>]]
      /\ request'[r] = [state |-> "ok", left |-> request[r].left,
                        staged |-> request[r].staged, seen |-> <<what>>]
      /\ \A q \in Request \ {r} : request'[q] = request[q]
  BY <1>1, <1>2, StateAndSeen
<1>4. Calls[r] = CallView(r)
  BY <1>1, CallsView
<1>5. Calls[r].state = "busy" /\ Calls[r].seen = <<>>
  BY <1>1, <1>4 DEF CallView, In, Answers, CallOK
<1>6. Calls[r].asks
  <2>1. Calls[r].asks = AsksNow(r)
    BY <1>4 DEF CallView
  <2>2. AsksNow(r)
    BY DEF AsksNow, In
  <2> QED  BY <2>1, <2>2
<1>7. CallView(r)' = [Calls[r] EXCEPT !.seen = <<what>>, !.state = "ok"]
  <2> DEFINE one == [Calls[r] EXCEPT !.seen = <<what>>]
  <2>1. Calls[r] = [state |-> CallView(r).state, asks |-> AsksNow(r),
                    todo |-> ToStore(r), seen |-> request[r].seen]
    BY <1>4 DEF CallView
  <2>2. AsksNow(r)' = AsksNow(r)
    BY <1>3 DEF AsksNow, In, Made, Asked
  <2>3. ToStore(r)' = ToStore(r)
    BY <1>3, ToStoreStays
  <2>4. CallView(r)' = [state |-> "ok", asks |-> AsksNow(r),
                        todo |-> ToStore(r), seen |-> <<what>>]
    <3>1. CallView(r)' = [state |-> Shown(request'[r].state), asks |-> AsksNow(r)',
                          todo |-> ToStore(r)', seen |-> request'[r].seen]
      BY DEF CallView, Shown, Answers
    <3>2. Shown(request'[r].state) = "ok" /\ request'[r].seen = <<what>>
      BY <1>3 DEF Shown, Answers
    <3> QED  BY <2>2, <2>3, <3>1, <3>2
  <2>5. one = [state |-> CallView(r).state, asks |-> AsksNow(r),
               todo |-> ToStore(r), seen |-> <<what>>]
    BY <2>1
  <2>6. [Calls[r] EXCEPT !.seen = <<what>>, !.state = "ok"] = [one EXCEPT !.state = "ok"]
    OBVIOUS
  <2> HIDE DEF one
  <2>7. [one EXCEPT !.state = "ok"] = CallView(r)'
    BY <2>4, <2>5
  <2> QED  BY <2>6, <2>7
<1>8. Calls' = [Calls EXCEPT ![r] = CallView(r)']
  BY <1>1, <1>3, OthersStay
<1>9. Contract!Become(r, [Calls[r] EXCEPT !.seen = <<what>>, !.state = "ok"])
  BY <1>7, <1>8 DEF Contract!Become
<1>10. UNCHANGED <<WholeBatches, Texts>>
  BY <1>1, WholeStays, TextsStay
<1>11. Contract!Look(r, "ok")
  BY <1>5, <1>6, <1>9, <1>10 DEF Contract!Look, Contract!Names
<1> QED  BY <1>1, <1>11 DEF Contract!Next

LEMMA ReadMaps ==
  ASSUME SInv, NEW r \in Made, UNCHANGED adapter, Read(r)
  PROVE  Contract!Next
<1> DEFINE f == Asked(r).files[1]
<1>1. In(r, "working") /\ Asked(r).kind = "read" /\ f \in File
  BY ReadsOneFile DEF Read, SInv
<1>2. CASE ~Readable(files[f])
  <2>1. Fails(r)
    BY <1>2 DEF Read
  <2> QED  BY <1>1, <2>1, FailsMaps DEF Fails, In, Answers
<1>3. CASE Readable(files[f])
  <2>1. Sees(r, {files[f].by})
    BY <1>3 DEF Read
  <2>2. Texts[f] = files[f].by
    BY <1>1, <1>3 DEF Texts
  <2> HIDE DEF f
  <2> QED  BY <1>1, <2>1, <2>2, LookMaps
<1> QED  BY <1>2, <1>3

LEMMA ListMaps ==
  ASSUME SInv, NEW r \in Made, UNCHANGED adapter, List(r)
  PROVE  Contract!Next
<1>1. In(r, "working") /\ Asked(r).kind = "list" /\ Sees(r, {f \in File : files[f] # Missing})
  BY DEF List
<1>2. \A f \in File : files[f] # Missing <=> Texts[f] # "missing"
  <2> TAKE f \in File
  <2>1. files[f].by = "missing" => files[f] = Missing
    BY DEF SInv, ThingsOK
  <2>2. Missing.by = "missing"
    BY DEF Missing
  <2>3. Readable(Missing)
    BY DEF Readable
  <2>4. Texts[f] = IF Readable(files[f]) THEN files[f].by ELSE "unreadable"
    BY DEF Texts
  <2> QED  BY <2>1, <2>2, <2>3, <2>4
<1>3. {f \in File : files[f] # Missing} = {f \in File : Texts[f] # "missing"}
  BY <1>2
<1> QED  BY <1>1, <1>3, LookMaps

LEMMA StopsMaps ==
  ASSUME SInv, UNCHANGED adapter, Stops
  PROVE  Contract!Next
<1>1. ThingsOK /\ UNCHANGED files
  BY DEF SInv, Stops
<1>2. ASSUME NEW r \in Request
      PROVE  CallView(r)' = IF Calls[r].state = "busy" THEN [Calls[r] EXCEPT !.state = "error"]
                            ELSE Calls[r]
  <2>1. Calls[r] = CallView(r)
    BY CallsView
  <2>2. CASE request[r].state \in Over
    <3>1. request'[r] = request[r]
      BY <1>1, <2>2, StopsRecords
    <3>2. CallView(r)' = CallView(r)
      BY <3>1, ViewStays
    <3>3. Calls[r].state # "busy"
      BY <2>1, <2>2 DEF CallView, Over, Answers
    <3> QED  BY <2>1, <3>2, <3>3
  <2>3. CASE request[r].state \notin Over
    <3>1. request'[r] = [state |-> "error", left |-> request[r].left,
                        staged |-> request[r].staged, seen |-> request[r].seen]
      BY <1>1, <2>3, StopsRecords
    <3>2. AsksNow(r)' = AsksNow(r) /\ ToStore(r)' = ToStore(r)
      <4>1. ToStore(r)' = ToStore(r)
        BY <3>1, ToStoreStays
      <4>2. ~In(r, "idle")' /\ ~In(r, "idle")
        BY <2>3, <3>1 DEF In, Over
      <4> QED  BY <4>1, <4>2 DEF AsksNow, Made, Asked
    <3>3. CallView(r)' = [state |-> "error", asks |-> AsksNow(r),
                          todo |-> ToStore(r), seen |-> request[r].seen]
      <4>1. CallView(r)' = [state |-> Shown(request'[r].state), asks |-> AsksNow(r)',
                            todo |-> ToStore(r)', seen |-> request'[r].seen]
        BY DEF CallView, Shown, Answers
      <4>2. Shown(request'[r].state) = "error" /\ request'[r].seen = request[r].seen
        BY <3>1 DEF Shown, Answers
      <4> QED  BY <3>2, <4>1, <4>2
    <3>4. Calls[r] = [state |-> "busy", asks |-> AsksNow(r),
                      todo |-> ToStore(r), seen |-> request[r].seen]
      BY <2>1, <2>3 DEF CallView, Over, Answers
    <3> QED  BY <3>3, <3>4
  <2> QED  BY <2>2, <2>3
<1>3. Calls' = [r \in Request |-> IF Calls[r].state = "busy" THEN [Calls[r] EXCEPT !.state = "error"]
                                  ELSE Calls[r]]
  BY <1>2, CallsView
<1>4. UNCHANGED <<WholeBatches, Texts>>
  BY <1>1, WholeStays, TextsStay
<1> QED  BY <1>3, <1>4 DEF Contract!Next, Contract!Crash

LEMMA InitMaps == ASSUME StorageInit PROVE Contract!Init
<1>1. ASSUME NEW r \in Request PROVE Calls[r] = Contract!Unasked
  <2>1. Calls[r] = CallView(r) /\ request[r] = Idle
    BY CallsView DEF StorageInit
  <2>2. ToStore(r) = <<>>
    <3>1. Left(r) = <<>> /\ Len(Left(r)) = 0
      BY <2>1 DEF Left, Idle
    <3> QED  BY <3>1 DEF ToStore
  <2>3. AsksNow(r) = FALSE
    BY <2>1 DEF AsksNow, In, Idle
  <2>4. request[r].state = "idle" /\ request[r].seen = <<>>
    BY <2>1 DEF Idle
  <2> QED  BY <2>1, <2>2, <2>3, <2>4 DEF CallView, Answers, Contract!Unasked
<1>2. WholeBatches \in BOOLEAN
  BY DEF WholeBatches
<1> QED  BY <1>1, <1>2 DEF Contract!Init

LEMMA NextMaps ==
  ASSUME SInv, [StorageNext]_storageVars
  PROVE  [Contract!Next]_(Contract!vars)
<1>1. CASE UNCHANGED storageVars
  <2>1. Calls' = Calls
    BY <1>1 DEF Calls, ToStore, Stores, NewText, Made, Asked, In, Left
  <2> QED  BY <1>1, <2>1, InsideIsHidden DEF Hidden
<1>2. CASE StorageNext
  <2>1. UNCHANGED adapter
    BY <1>2 DEF StorageNext
  <2>2. ASSUME NEW r \in Made,
               \/ Call(r) \/ Cleaned(r) \/ NothingToDo(r) \/ Rename(r) \/ StoreEntries(r)
               \/ Read(r) \/ List(r)
        PROVE  Contract!Next
    BY <2>1, <2>2, CallMaps, AnsweredMaps, RenameMaps, StoreMaps, ReadMaps, ListMaps
  <2>3. ASSUME NEW r \in Made,
               \/ Prepare(r) \/ StageBegins(r) \/ StageFails(r) \/ RenameFails(r)
               \/ Unstage(r) \/ Refused(r)
        PROVE  Contract!Next \/ Hidden
    BY <2>1, <2>3, SimpleMap
  <2>4. ASSUME NEW r \in Made, StageEnds(r) \/ FindOrphans(r) \/ RemoveOrphan(r)
        PROVE  Hidden
    BY <2>1, <2>4, StageEndsMaps, OrphansMap
  <2>5. CASE Stops
    BY <2>1, <2>5, StopsMaps
  <2>6. ASSUME ~Stops PROVE Contract!Next \/ Hidden
    <3>1. PICK r \in Made :
            \/ Call(r) \/ Prepare(r)
            \/ StageBegins(r) \/ StageEnds(r) \/ StageFails(r)
            \/ Rename(r) \/ RenameFails(r) \/ Unstage(r)
            \/ FindOrphans(r) \/ RemoveOrphan(r) \/ Cleaned(r)
            \/ StoreEntries(r) \/ NothingToDo(r)
            \/ Read(r) \/ List(r) \/ Refused(r)
      BY <1>2, <2>6 DEF StorageNext
    <3> QED  BY <2>2, <2>3, <2>4, <3>1
  <2> QED  BY <2>5, <2>6 DEF Hidden
<1> QED  BY <1>1, <1>2

\* Every adapter keeps the contract: whatever calls overlap, fail, clean up or
\* are cut off by a crash, each file has one text, whole; an entry is stored
\* between the call and its answer, and a write that resolved has stored all of
\* its entries, as one where the database does; a read or a list sees what is
\* there at one moment of its own.
THEOREM AdaptersKeepContract == StorageSpec => KeepsStorage
<1>1. StorageInit => SInv /\ Contract!Init
  BY InitSInv, InitMaps
<1>2. SInv /\ [StorageNext]_storageVars => SInv'
  BY NextSInv
<1>3. SInv /\ [StorageNext]_storageVars => [Contract!Next]_(Contract!vars)
  BY NextMaps
<1> QED  BY <1>1, <1>2, <1>3, PTL DEF StorageSpec, KeepsStorage, Contract!Spec
=============================================================================
