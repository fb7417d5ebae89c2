---------------------------- MODULE RegistryProofs ----------------------------
(***************************************************************************)
(* For orderly programs what was acknowledged stays in a file, the maps of *)
(* the registry agree and, up to the first rename, cached statistics are   *)
(* current, for any callers, names, documents and calls.                   *)
(*                                                                         *)
(* AckedIsStored needs to know where a document will be stored next: that  *)
(* memory and the writes in flight have no less of it than its file        *)
(* (Secure), that a save which was joined carries what its callers wrote   *)
(* (WillBe), and for a rename that this is so under the new name before    *)
(* the old file goes.  Between the turn that changes a collection and the  *)
(* one that saves it, nobody may lose the change (UnsavedIsHeld).          *)
(* StatsAreCurrent needs to know what is cached for a name that stands for *)
(* nothing, or not yet for what is in its file, and that a change which is *)
(* not marked will be (MarksRemain).                                       *)
(***************************************************************************)
EXTENDS Registry, FiniteSetTheorems, TLAPS

Image == [label : Names, docs : Numbers]
Store == [label : Names \union {NoCall}, docs : Numbers, statsDirty : BOOLEAN,
          saving : BOOLEAN, pending : BOOLEAN]
Handle == [store : StoreIds \union {0}, name : Names \union {NoCall}]
Job == [call : Callers \union {NoCall}, file : Names, store : StoreIds, payload : Image]
CallState == [op : Ops \union {"none"}, name : Names \union {NoCall},
              to : Names \union {NoCall}, doc : Docs \union {NoCall},
              handle : HandleIds \union {0},
              step : {"idle", "asked", "ready", "changed", "marked", "saving"}, size : 0..MaxSize]

Types ==
    /\ setup \in Setups
    /\ stores \in [StoreIds -> Store] /\ handles \in [HandleIds -> Handle]
    /\ byName \in [Names -> StoreIds \union {0}]
    /\ instances \in [Names -> HandleIds \union {0}]
    /\ disk \in [Names -> Image \union {NoFile}]
    /\ jobs \subseteq Job /\ waiting \subseteq [call : Callers, store : StoreIds]
    /\ call \in [Callers -> CallState]
    /\ acked \in Numbers
    /\ connection \in {"off", "loading", "on"}

OnCollection == {"write", "remove", "put", "seed"}

\* A store is being written exactly while there is a write of it.
OneWrite ==
    /\ \A s \in StoreIds : stores[s].saving => \E j \in jobs : j.store = s
    /\ \A j \in jobs : stores[j.store].saving
    /\ \A i, j \in jobs : i.store = j.store => i = j
    /\ \A w \in waiting : \E j \in jobs : j.store = w.store

\* The maps and the labels of stores, files and writes agree.
MapsFit ==
    /\ \A n \in Names : byName[n] # 0 => stores[byName[n]].label = n
    /\ \A n \in Names : instances[n] # 0 =>
           byName[n] # 0 /\ handles[instances[n]] = [store |-> byName[n], name |-> n]
    /\ \A j \in jobs : byName[j.file] = j.store /\ j.payload.label = j.file
    /\ \A n \in Names : disk[n] # NoFile => disk[n].label = n

\* What a call is about, by its operation; it has the instance of today.
CallsFit ==
    \A c \in Callers :
      /\ call[c].handle # 0 <=> call[c].op \in OnCollection
      /\ call[c].op \in OnCollection =>
           /\ call[c].name \in Names /\ call[c].doc \in Docs
           /\ instances[call[c].name] = call[c].handle
           /\ call[c].step # "idle"
      /\ call[c].op \in {"rename", "disconnect"} => call[c].step = "saving"
      /\ call[c].op = "rename" =>
           call[c].name \in Names /\ call[c].to \in Names /\ byName[call[c].name] = 0
      /\ call[c].op \in OnCollection \union {"rename", "disconnect", "none"}
      /\ call[c].op = "none" => call[c].step = "idle" /\ call[c].size = 0

\* Before connect() has loaded the files nothing is saved or swept.
Offline ==
    /\ timer # "old"
    /\ connection # "on" =>
         /\ jobs = {} /\ timer = "none"
         /\ \A c \in Callers : call[c].step \in {"idle", "asked"}

Awaits(c, s) == (\E j \in jobs : j.store = s /\ j.call = c) \/ [call |-> c, store |-> s] \in waiting

\* k of the document is stored under the name, and stays so.
Settled(s, n, d, k) ==
    /\ disk[n] # NoFile /\ disk[n].docs[d] >= k
    /\ \A j \in jobs : j.store = s => j.payload.docs[d] >= k

\* k of the document is in a store of ss, and in the file of the name once the
\* save that the call awaits is over.
Carries(ss, s, n, c, d, k) ==
    /\ s # 0 /\ ss[s].docs[d] >= k
    /\ \A j \in jobs : j.store = s => ss[s].pending \/ j.payload.docs[d] >= k
    /\ Awaits(c, s) \/ Settled(s, n, d, k)

WillBe(c, n, d, k) == Carries(stores, byName[n], n, c, d, k)

SavesCarry ==
    \A c \in Callers :
      call[c].op \in OnCollection /\ call[c].step = "saving" /\ call[c].size > 0 =>
        WillBe(c, call[c].name, call[c].doc, call[c].size)

\* disconnect() is alone, and awaits all there is.
LeavesLast ==
    \A c \in Callers : call[c].op = "disconnect" =>
      /\ connection = "on" /\ timer = "none"
      /\ \A b \in Callers : b # c => call[b].op = "none"
      /\ \A j \in jobs : Awaits(c, j.store)
      /\ \A n \in Names, d \in Docs : byName[n] # 0 =>
           WillBe(c, n, d, stores[byName[n]].docs[d])

\* What was acknowledged is in the file, and no write to come has less of it;
\* or it is the file of a name that was renamed, and will be under the new one.
Secure(n, d) ==
    IF byName[n] # 0
    THEN /\ stores[byName[n]].docs[d] >= acked[d]
         /\ \A j \in jobs : j.store = byName[n] => j.payload.docs[d] >= acked[d]
    ELSE \A c \in Callers : call[c].op = "rename" /\ call[c].name = n =>
           WillBe(c, call[c].to, d, acked[d])

HasPlace(d) ==
    \E n \in Names :
      /\ disk[n] # NoFile /\ disk[n].docs[d] >= acked[d]
      /\ connection = "on" => Secure(n, d)

Placed == \A d \in Docs : acked[d] > 0 => HasPlace(d)

\* A call that has changed its collection finds the change when it saves it.
UnsavedIsHeld ==
    \A c \in Callers : call[c].step \in {"changed", "marked"} =>
      stores[byName[call[c].name]].docs[call[c].doc] >= call[c].size

\* Who has a write in flight, or waits for one, is saving.
WritersSave ==
    /\ \A j \in jobs : j.call \in Callers => call[j.call].step = "saving"
    /\ \A w \in waiting : call[w.call].step = "saving"

Shape == Types /\ OneWrite /\ MapsFit /\ CallsFit /\ Offline
Inv == Shape /\ SavesCarry /\ LeavesLast /\ Placed

-----------------------------------------------------------------------------
(* Objects that are free.                                                  *)

LEMMA IdsAreNumbers == /\ 0 \notin StoreIds /\ 0 \notin HandleIds
                       /\ StoreIds \subseteq Nat /\ HandleIds \subseteq Nat
BY RegistryAssumption

LEMMA MinIsIn ==
  ASSUME NEW S \in SUBSET Nat, S # {}
  PROVE  Min(S) \in S
<1>1. PICK x \in S : \A y \in S : ~ (<<y, x>> \in OpToRel(<, Nat))
  BY NatLessThanWellFounded, WFMin
<1>2. \A y \in S : x =< y
  <2> TAKE y \in S
  <2>1. ~ (y < x)
    BY <1>1 DEF OpToRel
  <2>2. QED
    BY <2>1
<1>3. QED
  BY <1>2 DEF Min

LEMMA MaxIsIn ==
  ASSUME NEW n \in Nat, NEW S \in SUBSET (0..n), S # {}
  PROVE  Max(S) \in S /\ \A x \in S : x <= Max(S)
<1> DEFINE T == {n - x : x \in S}
<1>1. T \in SUBSET Nat /\ T # {}
  <2>1. \A x \in S : n - x \in Nat
    OBVIOUS
  <2>2. QED
    BY <2>1
<1>2. PICK t \in T : \A y \in T : ~ (<<y, t>> \in OpToRel(<, Nat))
  <2> HIDE DEF T
  <2> QED
    BY <1>1, NatLessThanWellFounded, WFMin
<1>3. PICK x \in S : t = n - x
  BY <1>2
<1>4. \A y \in S : x >= y
  <2> TAKE y \in S
  <2>1. n - y \in T
    OBVIOUS
  <2>2. ~ (n - y < t)
    BY <1>1, <1>2, <2>1 DEF OpToRel
  <2>3. QED
    BY <2>2, <1>3
<1>5. Max(S) \in S /\ \A y \in S : Max(S) >= y
  BY <1>4 DEF Max
<1>6. QED
  BY <1>5

\* Somebody who refers to an object refers to that of a name.
LEMMA LiveObjects ==
  ASSUME Shape
  PROVE  /\ LiveStores \subseteq Range(byName) \union {0}
         /\ Held \subseteq Range(instances) \union {0}
<1>1. Held \subseteq Range(instances) \union {0}
  <2>1. ASSUME NEW c \in Callers PROVE call[c].handle \in Range(instances) \union {0}
    <3>1. CASE call[c].handle # 0
      <4>1. call[c].name \in Names /\ instances[call[c].name] = call[c].handle
        BY <3>1 DEF Shape, CallsFit
      <4>2. DOMAIN instances = Names
        BY DEF Shape, Types
      <4>3. QED
        BY <4>1, <4>2 DEF Range
    <3>2. QED
      BY <3>1
  <2>2. QED
    BY <2>1 DEF Held
<1>a. DOMAIN instances = Names /\ DOMAIN byName = Names
  BY DEF Shape, Types
<1>2. ASSUME NEW h \in Held \ {0} PROVE handles[h].store \in Range(byName)
  <2>1. PICK n \in Names : instances[n] = h
    BY <1>1, <1>a DEF Range
  <2>2. handles[h] = [store |-> byName[n], name |-> n]
    BY <2>1 DEF Shape, MapsFit
  <2>3. handles[h].store = byName[n]
    BY <2>2
  <2>4. QED
    BY <1>a, <2>3 DEF Range
<1>3. ASSUME NEW j \in jobs PROVE j.store \in Range(byName)
  <2>1. j.file \in Names /\ byName[j.file] = j.store
    BY DEF Shape, Types, Job, MapsFit
  <2>2. QED
    BY <1>a, <2>1 DEF Range
<1>4. ASSUME NEW w \in waiting PROVE w.store \in Range(byName)
  BY <1>3 DEF Shape, OneWrite
<1>5. Range(byName) \subseteq Range(byName) \union {0}
  OBVIOUS
<1>6. LiveStores \subseteq Range(byName) \union {0}
  BY <1>2, <1>3, <1>4 DEF LiveStores
<1>7. QED
  BY <1>1, <1>6

LEMMA SpareStores ==
  ASSUME Shape
  PROVE  /\ IsFiniteSet(StoreIds \ LiveStores)
         /\ Cardinality(StoreIds \ LiveStores) >= Cardinality(Names)
         /\ Cardinality(Names) \in Nat
<1> DEFINE R == Range(byName) \ {0}
<1>1. /\ IsFiniteSet(R) /\ Cardinality(R) <= Cardinality(Names)
      /\ Cardinality(Names) \in Nat /\ R \subseteq StoreIds
  <2>1. byName \in Surjection(Names, Range(byName))
    BY DEF Surjection, Range, Shape, Types
  <2>2. IsFiniteSet(Range(byName)) /\ Cardinality(Range(byName)) <= Cardinality(Names)
    BY <2>1, FS_Surjection, RoomAssumption
  <2>3. IsFiniteSet(R) /\ Cardinality(R) <= Cardinality(Range(byName))
    BY <2>2, FS_Subset
  <2>4. R \subseteq StoreIds
    BY DEF Range, Shape, Types
  <2>5. Cardinality(R) \in Nat /\ Cardinality(Range(byName)) \in Nat /\ Cardinality(Names) \in Nat
    BY <2>2, <2>3, FS_CardinalityType, RoomAssumption
  <2>6. QED
    BY <2>2, <2>3, <2>4, <2>5
<1> HIDE DEF R
<1>2. /\ IsFiniteSet(StoreIds \ R)
      /\ Cardinality(StoreIds \ R) = Cardinality(StoreIds) - Cardinality(StoreIds \cap R)
      /\ Cardinality(StoreIds) \in Nat
  BY FS_Difference, FS_CardinalityType, RoomAssumption
<1>3. StoreIds \cap R = R
  BY <1>1
<1>4. Cardinality(R) \in Nat
  BY <1>1, FS_CardinalityType
<1>5. Cardinality(StoreIds \ R) >= Cardinality(Names)
  BY <1>1, <1>2, <1>3, <1>4, RoomAssumption
<1>6. StoreIds \ LiveStores = StoreIds \ (LiveStores \ {0})
  BY IdsAreNumbers
<1>7. StoreIds \ R \subseteq StoreIds \ LiveStores
  BY LiveObjects, <1>6 DEF R
<1>8. IsFiniteSet(StoreIds \ LiveStores)
  BY FS_Difference, RoomAssumption
<1>9. Cardinality(StoreIds \ R) <= Cardinality(StoreIds \ LiveStores)
  BY <1>7, <1>8, FS_Subset
<1>10. Cardinality(StoreIds \ R) \in Nat /\ Cardinality(StoreIds \ LiveStores) \in Nat
  BY <1>2, <1>8, FS_CardinalityType
<1>11. QED
  BY <1>1, <1>5, <1>8, <1>9, <1>10

LEMMA StoreIsFree ==
  ASSUME Shape, Names # {}
  PROVE  FreeStore \in StoreIds \ LiveStores
<1>1. Cardinality(Names) > 0
  BY FS_EmptySet, FS_CardinalityType, RoomAssumption
<1>2. StoreIds \ LiveStores # {}
  <2> SUFFICES ASSUME StoreIds \ LiveStores = {} PROVE FALSE
    OBVIOUS
  <2>1. Cardinality(StoreIds \ LiveStores) = 0
    BY FS_EmptySet
  <2> QED
    BY <2>1, <1>1, SpareStores
<1>3. QED
  BY <1>2, MinIsIn, IdsAreNumbers DEF FreeStore

LEMMA HandleIsFree ==
  ASSUME Shape
  PROVE  FreeHandle \in HandleIds \ Held
<1>1. IsFiniteSet(Range(instances)) /\ Cardinality(Range(instances)) <= Cardinality(Names)
  <2>1. instances \in Surjection(Names, Range(instances))
    BY DEF Surjection, Range, Shape, Types
  <2>2. QED
    BY <2>1, FS_Surjection, RoomAssumption
<1>2. HandleIds \ Held # {}
  <2> SUFFICES ASSUME HandleIds \subseteq Held PROVE FALSE
    OBVIOUS
  <2>1. HandleIds \subseteq Range(instances)
    BY LiveObjects, IdsAreNumbers
  <2>2. Cardinality(HandleIds) <= Cardinality(Range(instances))
    BY <2>1, <1>1, FS_Subset
  <2>3. /\ Cardinality(HandleIds) \in Nat /\ Cardinality(Range(instances)) \in Nat
        /\ Cardinality(Names) \in Nat
    BY <1>1, FS_CardinalityType, RoomAssumption
  <2> QED
    BY <2>2, <2>3, <1>1, RoomAssumption
<1>3. QED
  BY <1>2, MinIsIn, IdsAreNumbers DEF FreeHandle

\* There is a store for each label.
LEMMA StoresAreFree ==
  ASSUME Shape, NEW labels \in SUBSET Names
  PROVE  \E f \in [labels -> StoreIds \ LiveStores] : IsInjective(f)
<1> DEFINE spare == StoreIds \ LiveStores
<1>1. IsFiniteSet(labels) /\ Cardinality(labels) <= Cardinality(Names)
  BY FS_Subset, RoomAssumption
<1>2. /\ IsFiniteSet(spare) /\ Cardinality(spare) >= Cardinality(Names)
      /\ Cardinality(Names) \in Nat
  BY SpareStores
<1> HIDE DEF spare
<1> DEFINE k == Cardinality(labels)
           m == Cardinality(spare)
<1>3. k \in Nat /\ m \in Nat /\ ExistsBijection(1..k, labels) /\ ExistsBijection(1..m, spare)
  BY <1>1, <1>2, FS_CardinalityType
<1>4. k <= m
  BY <1>1, <1>2, <1>3
<1> HIDE DEF k, m
<1>5. PICK a \in [1..k -> labels] : \A l \in labels : \E i \in 1..k : a[i] = l
  BY <1>3 DEF ExistsBijection, Bijection, Surjection, Injection
<1>6. PICK b \in [1..m -> spare] : IsInjective(b)
  BY <1>3 DEF ExistsBijection, Bijection, Surjection, Injection
<1> DEFINE at(l) == CHOOSE i \in 1..k : a[i] = l
           f == [l \in labels |-> b[at(l)]]
<1>7. \A l \in labels : at(l) \in 1..k /\ a[at(l)] = l
  BY <1>5
<1> HIDE DEF at
<1>8. \A l \in labels : at(l) \in 1..m
  BY <1>3, <1>4, <1>7
<1>9. f \in [labels -> spare]
  BY <1>6, <1>8
<1>10. IsInjective(f)
  BY <1>6, <1>7, <1>8 DEF IsInjective
<1>11. QED
  BY <1>9, <1>10 DEF spare

-----------------------------------------------------------------------------
(* Saves.                                                                  *)

\* What a save that was joined carries, it still carries when memory has no
\* less and nothing is written meanwhile.
LEMMA CarriesStays ==
  ASSUME UNCHANGED <<jobs, waiting, disk>>,
         NEW c \in Callers, NEW n \in Names, NEW d \in Docs, NEW k \in Nat,
         WillBe(c, n, d, k),
         byName'[n] = byName[n],
         stores'[byName[n]].docs[d] >= k,
         stores'[byName[n]].pending = stores[byName[n]].pending
  PROVE  WillBe(c, n, d, k)'
BY DEF WillBe, Carries, Settled, Awaits

\* What Save does to the writes: those of the collections it finds idle begin,
\* those under way get another round.
Grows(c, names, ss) ==
    /\ \A s \in StoreIds : stores'[s].docs = ss[s].docs /\ stores'[s].label = ss[s].label
    /\ jobs \subseteq jobs' /\ waiting \subseteq waiting'
    /\ \A j \in jobs' : j \in jobs
         \/ /\ j.call = c /\ j.file \in names /\ byName'[j.file] = j.store
            /\ j.payload.label = j.file /\ j.payload.docs = ss[j.store].docs
    /\ \A w \in waiting' : w \in waiting \/ w.call = c
    /\ \A n \in names : byName'[n] # 0 => Awaits(c, byName[n])'
    /\ \A j \in jobs : ss[j.store].pending => stores'[j.store].pending
    /\ \A n \in names, j \in jobs : j.store = byName'[n] => stores'[j.store].pending

LEMMA SaveDoes ==
  ASSUME NEW c \in Callers, NEW names \in SUBSET Names, NEW ss \in [StoreIds -> Store],
         Save(c, names, ss),
         byName' \in [Names -> StoreIds \union {0}],
         jobs \subseteq Job, waiting \subseteq [call : Callers, store : StoreIds],
         \A n \in Names : byName'[n] # 0 => ss[byName'[n]].label = n,
         \A s \in StoreIds : ss[s].saving => \E j \in jobs : j.store = s,
         \A j \in jobs : ss[j.store].saving,
         \A i, j \in jobs : i.store = j.store => i = j,
         \A w \in waiting : \E j \in jobs : j.store = w.store
  PROVE  /\ stores' \in [StoreIds -> Store]
         /\ jobs' \subseteq Job /\ waiting' \subseteq [call : Callers, store : StoreIds]
         /\ OneWrite'
         /\ Grows(c, names, ss)
<1> DEFINE known == {n \in names : byName'[n] # 0}
           free  == {n \in known : ~ ss[byName'[n]].saving}
           new(n) == [call |-> c, file |-> n, store |-> byName'[n],
                      payload |-> Payload(ss[byName'[n]])]
<1>1. /\ stores' = [s \in StoreIds |->
              IF \E n \in free : byName'[n] = s
              THEN [ss[s] EXCEPT !.saving = TRUE, !.pending = FALSE]
              ELSE IF \E n \in known : byName'[n] = s
              THEN [ss[s] EXCEPT !.pending = TRUE]
              ELSE ss[s]]
      /\ jobs' = jobs \union {new(n) : n \in free}
      /\ waiting' = waiting \union {[call |-> c, store |-> byName'[n]] : n \in known \ free}
  BY DEF Save
<1>2. \A n \in known : n \in Names /\ byName'[n] \in StoreIds
  OBVIOUS
<1>3. /\ free \subseteq known /\ known \subseteq names
      /\ \A n \in known : n \in free <=> ~ ss[byName'[n]].saving
      /\ \A n \in names : n \in known <=> byName'[n] # 0
  OBVIOUS
<1>4. \A n \in free : /\ new(n) \in Job /\ new(n).call = c /\ new(n).file = n
                      /\ new(n).store = byName'[n] /\ new(n).payload.label = n
                      /\ new(n).payload.docs = ss[byName'[n]].docs
  BY <1>2, <1>3 DEF Payload, Job, Image, Store
<1> HIDE DEF known, free, new
<1>5. \A s \in StoreIds :
         /\ stores'[s] \in Store
         /\ stores'[s].docs = ss[s].docs /\ stores'[s].label = ss[s].label
         /\ stores'[s].saving <=> ss[s].saving \/ \E n \in free : byName'[n] = s
         /\ ~ (\E n \in free : byName'[n] = s) =>
              (stores'[s].pending <=> ss[s].pending \/ \E n \in known : byName'[n] = s)
  <2> TAKE s \in StoreIds
  <2>1. ss[s] \in Store
    OBVIOUS
  <2>2. CASE \E n \in free : byName'[n] = s
    <3>1. stores'[s] = [ss[s] EXCEPT !.saving = TRUE, !.pending = FALSE]
      BY <1>1, <2>2
    <3>2. QED
      BY <2>1, <2>2, <3>1 DEF Store
  <2>3. CASE ~ (\E n \in free : byName'[n] = s) /\ \E n \in known : byName'[n] = s
    <3>1. stores'[s] = [ss[s] EXCEPT !.pending = TRUE]
      BY <1>1, <2>3
    <3>2. QED
      BY <2>1, <2>3, <3>1 DEF Store
  <2>4. CASE ~ (\E n \in free : byName'[n] = s) /\ ~ \E n \in known : byName'[n] = s
    <3>1. stores'[s] = ss[s]
      BY <1>1, <2>4
    <3>2. QED
      BY <2>1, <2>4, <3>1
  <2>5. QED
    BY <2>2, <2>3, <2>4
<1>6. \A j \in jobs' : j \in jobs \/ \E n \in free : j = new(n)
  BY <1>1
<1>7. \A n \in free : new(n) \in jobs'
  BY <1>1
<1>8. \A n, m \in Names : byName'[n] = byName'[m] /\ byName'[n] # 0 => n = m
  OBVIOUS
<1>9. jobs' \subseteq Job
  BY <1>4, <1>6
<1>10. \A w \in waiting' : w \in waiting
          \/ \E n \in known \ free : w = [call |-> c, store |-> byName'[n]]
  BY <1>1
<1>11. waiting' \subseteq [call : Callers, store : StoreIds] /\ \A w \in waiting' : w \in waiting \/ w.call = c
  BY <1>2, <1>10
<1>12. OneWrite'
  <2>1. \A s \in StoreIds : stores'[s].saving => \E j \in jobs' : j.store = s
    <3> SUFFICES ASSUME NEW s \in StoreIds, stores'[s].saving
                 PROVE  \E j \in jobs' : j.store = s
      OBVIOUS
    <3>1. CASE ss[s].saving
      BY <3>1, <1>1
    <3>2. ASSUME NEW n \in free, byName'[n] = s PROVE \E j \in jobs' : j.store = s
      BY <3>2, <1>4, <1>7
    <3>3. QED
      BY <3>1, <3>2, <1>5
  <2>2. \A j \in jobs' : stores'[j.store].saving
    <3> TAKE j \in jobs'
    <3>1. j.store \in StoreIds
      BY <1>9 DEF Job
    <3>2. QED
      BY <3>1, <1>4, <1>5, <1>6
  <2>3. \A i, j \in jobs' : i.store = j.store => i = j
    <3> SUFFICES ASSUME NEW i \in jobs', NEW j \in jobs', i.store = j.store PROVE i = j
      OBVIOUS
    <3>1. \A n \in free : n \in Names /\ byName'[n] # 0 /\ ~ ss[byName'[n]].saving
      BY <1>2, <1>3
    <3>2. QED
      BY <3>1, <1>4, <1>6, <1>8
  <2>4. \A w \in waiting' : \E j \in jobs' : j.store = w.store
    <3> TAKE w \in waiting'
    <3>1. CASE w \in waiting
      BY <3>1, <1>1
    <3>2. ASSUME NEW n \in known \ free, w = [call |-> c, store |-> byName'[n]]
          PROVE  \E j \in jobs' : j.store = w.store
      <4>1. ss[byName'[n]].saving /\ byName'[n] \in StoreIds
        BY <1>2, <1>3
      <4>2. QED
        BY <4>1, <3>2, <1>1
    <3>3. QED
      BY <3>1, <3>2, <1>10
  <2>5. QED
    BY <2>1, <2>2, <2>3, <2>4 DEF OneWrite
<1>13. \A n \in names : byName'[n] # 0 => Awaits(c, byName[n])'
  <2> SUFFICES ASSUME NEW n \in names, byName'[n] # 0
               PROVE  (\E j \in jobs' : j.store = byName'[n] /\ j.call = c)
                      \/ [call |-> c, store |-> byName'[n]] \in waiting'
    BY DEF Awaits
  <2>1. n \in known
    BY <1>3
  <2>2. QED
    BY <2>1, <1>1, <1>4, <1>7, ZenonT(40)
<1>14. \A j \in jobs : ~ \E n \in free : byName'[n] = j.store
  BY <1>3
<1>15. \A j \in jobs : j.store \in StoreIds
  BY DEF Job
<1>16. \A j \in jobs : ss[j.store].pending => stores'[j.store].pending
  BY <1>5, <1>14, <1>15
<1>17. \A n \in names, j \in jobs : j.store = byName'[n] => stores'[j.store].pending
  <2> SUFFICES ASSUME NEW n \in names, NEW j \in jobs, j.store = byName'[n]
               PROVE  stores'[j.store].pending
    OBVIOUS
  <2>1. j.store \in StoreIds /\ ~ \E m \in free : byName'[m] = j.store
    BY <1>14, <1>15
  <2>2. n \in known
    BY <2>1, <1>3, IdsAreNumbers
  <2>3. QED
    BY <2>1, <2>2, <1>5
<1>18. \A j \in jobs' : j \in jobs
              \/ /\ j.call = c /\ j.file \in names /\ byName'[j.file] = j.store
                 /\ j.payload.label = j.file /\ j.payload.docs = ss[j.store].docs
  BY <1>3, <1>4, <1>6
<1>19. QED
  <2>1. Grows(c, names, ss)
    BY <1>1, <1>5, <1>11, <1>13, <1>16, <1>17, <1>18 DEF Grows
  <2>2. stores' \in [StoreIds -> Store]
    BY <1>1, <1>5
  <2>3. QED
    BY <1>9, <1>11, <1>12, <2>1, <2>2

\* A save goes on with what others have asked to be saved.
LEMMA SaveKeeps ==
  ASSUME NEW c \in Callers, NEW names \in SUBSET Names, NEW ss \in [StoreIds -> Store],
         Grows(c, names, ss), UNCHANGED disk, jobs \subseteq Job,
         NEW b \in Callers, NEW n \in Names, NEW d \in Docs, NEW k \in 0..MaxSize,
         byName'[n] \in StoreIds, Carries(ss, byName'[n], n, b, d, k)
  PROVE  WillBe(b, n, d, k)'
<1> DEFINE s == byName'[n]
<1>1. s # 0 /\ stores'[s].docs[d] >= k
  BY IdsAreNumbers DEF Grows, Carries
<1>2. ASSUME NEW j \in jobs', j.store = s
      PROVE  j \in jobs \/ j.payload.docs[d] >= k
  BY <1>2 DEF Grows, Carries
<1>3. \A j \in jobs' : j.store = s => stores'[s].pending \/ j.payload.docs[d] >= k
  BY <1>2 DEF Grows, Carries
<1>4. CASE Awaits(b, s)
  <2>1. Awaits(b, byName[n])'
    BY <1>4 DEF Awaits, Grows
  <2>2. QED
    BY <1>1, <1>3, <2>1 DEF WillBe, Carries
<1>5. CASE Settled(s, n, d, k)
  <2>1. Settled(byName[n], n, d, k)'
    BY <1>5, <1>2 DEF Settled
  <2>2. QED
    BY <1>1, <1>3, <2>1 DEF WillBe, Carries
<1>6. QED
  BY <1>4, <1>5 DEF Carries

\* It will store what memory has of the names that are saved.
LEMMA SaveMakes ==
  ASSUME NEW c \in Callers, NEW names \in SUBSET Names, NEW ss \in [StoreIds -> Store],
         Grows(c, names, ss),
         NEW n \in names, NEW d \in Docs, NEW k \in 0..MaxSize,
         byName'[n] \in StoreIds, ss[byName'[n]].docs[d] >= k
  PROVE  WillBe(c, n, d, k)'
<1>1. /\ byName'[n] # 0 /\ stores'[byName'[n]].docs[d] >= k
      /\ \A j \in jobs' : j.store = byName'[n] => stores'[byName'[n]].pending \/ j.payload.docs[d] >= k
  BY IdsAreNumbers DEF Grows
<1>2. Awaits(c, byName[n])'
  BY IdsAreNumbers DEF Grows
<1>3. QED
  BY <1>1, <1>2 DEF WillBe, Carries

-----------------------------------------------------------------------------
(* The steps.                                                              *)

LEMMA TypeFacts ==
  ASSUME Types
  PROVE  /\ MaxSize \in Nat /\ 0..MaxSize \subseteq Nat
         /\ \A d \in Docs : acked[d] \in 0..MaxSize
         /\ \A s \in StoreIds, d \in Docs : stores[s].docs[d] \in 0..MaxSize
         /\ \A c \in Callers : call[c].size \in 0..MaxSize
         /\ \A j \in jobs : j.store \in StoreIds /\ j.file \in Names /\ j.payload \in Image
         /\ \A j \in jobs, d \in Docs : j.payload.docs[d] \in 0..MaxSize
         /\ \A n \in Names : byName[n] # 0 => byName[n] \in StoreIds
         /\ \A n \in Names, d \in Docs : disk[n] # NoFile => disk[n].docs[d] \in 0..MaxSize
<1>1. MaxSize \in Nat /\ 0..MaxSize \subseteq Nat
  BY RegistryAssumption
<1>2. \A s \in StoreIds : stores[s].docs \in Numbers
  BY DEF Types, Store
<1>3. \A j \in jobs : j.store \in StoreIds /\ j.file \in Names /\ j.payload \in Image
  BY DEF Types, Job
<1>4. \A n \in Names : disk[n] # NoFile => disk[n] \in Image
  BY DEF Types
<1>5. \A i \in Image : i.docs \in Numbers
  BY DEF Image
<1>6. acked \in Numbers /\ (\A n \in Names : byName[n] # 0 => byName[n] \in StoreIds)
      /\ \A c \in Callers : call[c].size \in 0..MaxSize
  BY DEF Types, CallState
<1>7. QED
  BY <1>1, <1>2, <1>3, <1>4, <1>5, <1>6 DEF Numbers

\* stats() changes its cache only.
LEMMA StepStats ==
  ASSUME Inv, NEW n \in Names, Stats(n)
  PROVE  Inv'
<1>1. /\ stores' = [stores EXCEPT ![byName[n]].statsDirty = FALSE]
      /\ UNCHANGED <<setup, handles, byName, instances, disk, jobs, waiting, call,
                     connection, timer, acked>>
  BY DEF Stats
<1>2. Types /\ OneWrite /\ MapsFit /\ CallsFit /\ Offline /\ SavesCarry /\ LeavesLast /\ Placed
  BY DEF Inv, Shape
<1>3. \A s \in StoreIds : /\ stores'[s] \in Store
                          /\ stores'[s].docs = stores[s].docs /\ stores'[s].label = stores[s].label
                          /\ stores'[s].saving = stores[s].saving
                          /\ stores'[s].pending = stores[s].pending
  <2> TAKE s \in StoreIds
  <2>1. stores[s] \in Store /\ stores \in [StoreIds -> Store]
    BY <1>2 DEF Types
  <2>2. stores'[s] = stores[s] \/ stores'[s] = [stores[s] EXCEPT !.statsDirty = FALSE]
    BY <2>1, <1>1
  <2>3. QED
    BY <2>1, <2>2 DEF Store
<1>4. stores' \in [StoreIds -> Store]
  BY <1>1, <1>2, <1>3 DEF Types
<1>5. Types'
  BY <1>1, <1>2, <1>4 DEF Types
<1>6. OneWrite'
  BY <1>1, <1>2, <1>3, TypeFacts DEF OneWrite
<1>7. MapsFit'
  BY <1>1, <1>2, <1>3, TypeFacts DEF MapsFit
<1>8. CallsFit' /\ Offline'
  BY <1>1, <1>2 DEF CallsFit, Offline
<1>9. ASSUME NEW c \in Callers, NEW m \in Names, NEW d \in Docs, NEW k \in Nat, WillBe(c, m, d, k)
      PROVE  WillBe(c, m, d, k)'
  <2>1. byName[m] \in StoreIds /\ stores[byName[m]].docs[d] >= k
    BY <1>2, <1>9, TypeFacts DEF WillBe, Carries
  <2>2. QED
    BY <2>1, <1>1, <1>3, <1>9, CarriesStays
<1>10. SavesCarry'
  BY <1>1, <1>2, <1>9, TypeFacts DEF SavesCarry, CallsFit
<1>11. LeavesLast'
  <2> SUFFICES ASSUME NEW c \in Callers, call[c].op = "disconnect"
               PROVE  /\ \A j \in jobs : Awaits(c, j.store)'
                      /\ \A m \in Names, d \in Docs : byName[m] # 0 =>
                           WillBe(c, m, d, stores[byName[m]].docs[d])'
    BY <1>1, <1>2 DEF LeavesLast
  <2>1. \A j \in jobs : Awaits(c, j.store)'
    BY <1>1, <1>2 DEF LeavesLast, Awaits
  <2>2. ASSUME NEW m \in Names, NEW d \in Docs, byName[m] # 0
        PROVE  WillBe(c, m, d, stores[byName[m]].docs[d])'
    BY <1>1, <1>2, <1>3, <1>9, <2>2, TypeFacts DEF LeavesLast
  <2>3. QED
    BY <2>1, <2>2
<1>12. Placed'
  <2> SUFFICES ASSUME NEW d \in Docs, acked[d] > 0 PROVE HasPlace(d)'
    BY <1>1 DEF Placed
  <2>1. PICK m \in Names : /\ disk[m] # NoFile /\ disk[m].docs[d] >= acked[d]
                           /\ connection = "on" => Secure(m, d)
    BY <1>2 DEF Placed, HasPlace
  <2>2. connection = "on" => Secure(m, d)'
    BY <1>1, <1>2, <1>3, <1>9, <2>1, TypeFacts DEF Secure, CallsFit
  <2>3. QED
    BY <1>1, <2>1, <2>2 DEF HasPlace
<1>13. QED
  BY <1>5, <1>6, <1>7, <1>8, <1>10, <1>11, <1>12 DEF Inv, Shape

LEMMA MaxOfTwo ==
  ASSUME NEW a \in 0..MaxSize, NEW b \in 0..MaxSize
  PROVE  Max({a, b}) \in {a, b} /\ Max({a, b}) >= a /\ Max({a, b}) >= b
<1>1. MaxSize \in Nat /\ {a, b} \in SUBSET (0..MaxSize) /\ {a, b} # {}
  BY RegistryAssumption
<1>2. Max({a, b}) \in {a, b} /\ \A x \in {a, b} : x <= Max({a, b})
  BY <1>1, MaxIsIn
<1>3. QED
  BY <1>2

LEMMA IdleIsACall == Idle \in CallState
BY RegistryAssumption DEF Idle, CallState

\* A call resolves: its documents are where they were promised to be.
LEMMA StepResolve ==
  ASSUME Inv, NEW c \in Callers, Resolve(c)
  PROVE  Inv'
<1>1. /\ call[c].step = "saving" /\ call[c].op \in {"write", "remove", "seed"}
      /\ \A j \in jobs \union waiting : j.call # c
      /\ acked' = [acked EXCEPT ![call[c].doc] = Max({@, call[c].size})]
      /\ call' = [call EXCEPT ![c] = Idle]
      /\ UNCHANGED <<setup, stores, handles, byName, instances, disk, jobs, waiting,
                     connection, timer>>
  BY DEF Resolve, Saved, memory
<1>2. Types /\ OneWrite /\ MapsFit /\ CallsFit /\ Offline /\ SavesCarry /\ LeavesLast /\ Placed
  BY DEF Inv, Shape
<1>3. call[c].op \in OnCollection /\ call[c].name \in Names /\ call[c].doc \in Docs
  BY <1>1, <1>2 DEF CallsFit, OnCollection
<1>4. \A b \in Callers : b # c => call'[b] = call[b]
  BY <1>1, <1>2 DEF Types
<1>5. call'[c] = Idle /\ call' \in [Callers -> CallState]
  BY <1>1, <1>2, IdleIsACall DEF Types
<1>6. \A d \in Docs : acked'[d] = IF d = call[c].doc THEN Max({acked[d], call[c].size}) ELSE acked[d]
  BY <1>1, <1>2, <1>3 DEF Types, Numbers
<1>7. acked' \in Numbers
  <2> DEFINE most == Max({acked[call[c].doc], call[c].size})
  <2>1. most \in 0..MaxSize
    BY <1>2, <1>3, MaxOfTwo, TypeFacts
  <2>2. acked' = [acked EXCEPT ![call[c].doc] = most]
    BY <1>1
  <2> HIDE DEF most
  <2>3. QED
    BY <1>2, <1>3, <2>1, <2>2 DEF Types, Numbers
<1>8. Types'
  BY <1>1, <1>2, <1>5, <1>7 DEF Types
<1>9. OneWrite' /\ MapsFit'
  BY <1>1, <1>2 DEF OneWrite, MapsFit
<1>10. CallsFit' /\ Offline'
  BY <1>1, <1>2, <1>4, <1>5 DEF CallsFit, Offline, Idle, OnCollection
<1>11. \A b \in Callers, m \in Names, d \in Docs, k \in Nat : WillBe(b, m, d, k) => WillBe(b, m, d, k)'
  BY <1>1 DEF WillBe, Carries, Settled, Awaits
<1>12. SavesCarry'
  BY <1>1, <1>2, <1>4, <1>5, <1>11, TypeFacts DEF SavesCarry, CallsFit, Idle, OnCollection
<1>13. LeavesLast'
  <2>1. \A b \in Callers : call[b].op # "disconnect"
    BY <1>1, <1>2 DEF LeavesLast
  <2>2. \A b \in Callers : call'[b].op # "disconnect"
    BY <2>1, <1>4, <1>5 DEF Idle
  <2>3. QED
    BY <2>2 DEF LeavesLast
<1>14. Placed'
  <2> SUFFICES ASSUME NEW d \in Docs, acked'[d] > 0 PROVE HasPlace(d)'
    BY DEF Placed
  <2>1. acked[d] \in Nat /\ call[c].size \in 0..MaxSize /\ call[c].size \in Nat
    BY <1>2, TypeFacts
  <2>2. CASE acked'[d] = acked[d]
    <3>1. PICK m \in Names : /\ disk[m] # NoFile /\ disk[m].docs[d] >= acked[d]
                             /\ connection = "on" => Secure(m, d)
      BY <1>2, <2>2 DEF Placed, HasPlace
    <3>2. connection = "on" => Secure(m, d)'
      BY <1>1, <1>2, <1>4, <1>5, <1>11, <2>1, <2>2, <3>1 DEF Secure, CallsFit, Idle
    <3>3. QED
      BY <1>1, <2>2, <3>1, <3>2 DEF HasPlace
  <2>3. CASE acked'[d] # acked[d]
    <3>1. d = call[c].doc /\ acked'[d] = call[c].size /\ call[c].size > 0
      BY <1>2, <1>6, <2>1, <2>3, MaxOfTwo, TypeFacts
    <3>2. WillBe(c, call[c].name, d, call[c].size)
      BY <1>1, <1>2, <1>3, <3>1 DEF SavesCarry
    <3>3. ~ Awaits(c, byName[call[c].name])
      BY <1>1 DEF Awaits
    <3>4. Settled(byName[call[c].name], call[c].name, d, call[c].size)
          /\ byName[call[c].name] # 0 /\ stores[byName[call[c].name]].docs[d] >= call[c].size
      BY <3>2, <3>3 DEF WillBe, Carries
    <3>5. QED
      BY <1>1, <1>3, <3>1, <3>4 DEF HasPlace, Secure, Settled
  <2>4. QED
    BY <2>2, <2>3
<1>15. QED
  BY <1>8, <1>9, <1>10, <1>12, <1>13, <1>14 DEF Inv, Shape

\* A write is in storage, and the writer goes on with what memory has by now,
\* or has nothing more to do.
LEMMA StepWriteLands ==
  ASSUME Inv, NEW j \in jobs, WriteLands(j)
  PROVE  Inv'
<1> DEFINE s == j.store
           again == [j EXCEPT !.payload = Payload(stores[s])]
<1>1. /\ disk' = [disk EXCEPT ![j.file] = j.payload]
      /\ UNCHANGED <<setup, handles, byName, instances, call, connection, timer, acked>>
  BY DEF WriteLands
<1>2. Types /\ OneWrite /\ MapsFit /\ CallsFit /\ Offline /\ SavesCarry /\ LeavesLast /\ Placed
  BY DEF Inv, Shape
<1>3. /\ s \in StoreIds /\ j.file \in Names /\ byName[j.file] = s /\ s # 0
      /\ j \in Job /\ j.payload \in Image /\ j.payload.label = j.file
  BY <1>2, TypeFacts, IdsAreNumbers DEF MapsFit, Types
<1>4. /\ again \in Job /\ again.store = s /\ again.call = j.call /\ again.file = j.file
      /\ again.payload.docs = stores[s].docs /\ again.payload.label = j.file
  <2>1. stores[s].label = j.file /\ stores[s].docs \in Numbers
    BY <1>2, <1>3 DEF MapsFit, Types, Store
  <2>2. Payload(stores[s]) \in Image /\ Payload(stores[s]).docs = stores[s].docs
        /\ Payload(stores[s]).label = j.file
    BY <1>3, <2>1 DEF Payload, Image
  <2>3. QED
    BY <1>3, <2>2 DEF Job
<1>5. IF stores[s].pending
      THEN jobs' = (jobs \ {j}) \union {again} /\ stores' = [stores EXCEPT ![s].pending = FALSE]
           /\ waiting' = waiting
      ELSE jobs' = jobs \ {j} /\ stores' = [stores EXCEPT ![s].saving = FALSE]
           /\ waiting' = {w \in waiting : w.store # s}
  BY DEF WriteLands
<1> HIDE DEF again
<1>6. \A x \in StoreIds : /\ stores'[x] \in Store
                          /\ stores'[x].docs = stores[x].docs /\ stores'[x].label = stores[x].label
                          /\ x # s => stores'[x] = stores[x]
                          /\ x = s => stores'[x].saving = stores[s].pending /\ ~ stores'[x].pending
  <2> TAKE x \in StoreIds
  <2>1. stores[x] \in Store /\ stores \in [StoreIds -> Store]
    BY <1>2 DEF Types
  <2>2. x # s => stores'[x] = stores[x]
    BY <1>3, <1>5, <2>1
  <2>3. x = s => \/ stores[s].pending /\ stores'[x] = [stores[x] EXCEPT !.pending = FALSE]
                 \/ ~ stores[s].pending /\ stores'[x] = [stores[x] EXCEPT !.saving = FALSE]
    BY <1>3, <1>5, <2>1
  <2>4. stores[s].saving
    BY <1>2 DEF OneWrite
  <2>5. QED
    BY <2>1, <2>2, <2>3, <2>4, ZenonT(40) DEF Store
<1>7. stores' \in [StoreIds -> Store]
  BY <1>2, <1>5, <1>6 DEF Types
<1>8. /\ \A i \in jobs : i.store # s => i \in jobs'
      /\ \A i \in jobs' : (i \in jobs /\ i.store # s) \/ (i = again /\ stores[s].pending)
      /\ stores[s].pending => again \in jobs'
  BY <1>2, <1>5 DEF OneWrite
<1>9. /\ \A w \in waiting : w.store # s \/ stores[s].pending => w \in waiting'
      /\ \A w \in waiting' : w \in waiting /\ (w.store # s \/ stores[s].pending)
  BY <1>5
<1>10. /\ disk'[j.file] = j.payload /\ j.payload # NoFile
       /\ \A n \in Names : n # j.file => disk'[n] = disk[n]
       /\ disk' \in [Names -> Image \union {NoFile}]
  <2>1. j.payload # NoFile
    <3>1. Image \subseteq [label : Names \union {NoCall}, docs : [Docs -> Nat]]
      <4>1. 0..MaxSize \subseteq Nat
        BY <1>2, TypeFacts
      <4>2. Numbers \subseteq [Docs -> Nat]
        BY <4>1 DEF Numbers
      <4>3. QED
        BY <4>2 DEF Image
    <3>2. QED
      BY <1>3, <3>1, RegistryAssumption
  <2>2. QED
    BY <1>1, <1>2, <1>3, <2>1 DEF Types
<1>11. \A n \in Names : byName[n] = s <=> n = j.file
  BY <1>2, <1>3 DEF MapsFit
<1>12. Types'
  <2>1. jobs' \subseteq Job /\ waiting' \subseteq [call : Callers, store : StoreIds]
    BY <1>2, <1>4, <1>8, <1>9 DEF Types
  <2>2. QED
    BY <1>1, <1>2, <1>7, <1>10, <2>1 DEF Types
<1>13. OneWrite'
  <2>1. \A x \in StoreIds : stores'[x].saving => \E i \in jobs' : i.store = x
    BY <1>2, <1>4, <1>6, <1>8 DEF OneWrite
  <2>2. \A i \in jobs' : stores'[i.store].saving
    BY <1>2, <1>3, <1>4, <1>6, <1>8, TypeFacts DEF OneWrite
  <2>3. \A i, h \in jobs' : i.store = h.store => i = h
    BY <1>2, <1>4, <1>8 DEF OneWrite
  <2>4. \A w \in waiting' : \E i \in jobs' : i.store = w.store
    BY <1>2, <1>4, <1>8, <1>9 DEF OneWrite
  <2>5. QED
    BY <2>1, <2>2, <2>3, <2>4 DEF OneWrite
<1>14. MapsFit'
  <2>1. \A n \in Names : byName[n] # 0 => stores'[byName[n]].label = n
    BY <1>2, <1>6, TypeFacts DEF MapsFit
  <2>2. \A i \in jobs' : byName[i.file] = i.store /\ i.payload.label = i.file
    BY <1>2, <1>3, <1>4, <1>8 DEF MapsFit
  <2>3. \A n \in Names : disk'[n] # NoFile => disk'[n].label = n
    BY <1>2, <1>3, <1>10 DEF MapsFit
  <2>4. QED
    BY <1>1, <1>2, <2>1, <2>2, <2>3 DEF MapsFit
<1>15. connection = "on"
  BY <1>2 DEF Offline
<1>16. CallsFit' /\ Offline'
  BY <1>1, <1>2, <1>15 DEF CallsFit, Offline
<1>17. \A b \in Callers, x \in StoreIds : Awaits(b, x) /\ (x # s \/ stores[s].pending) => Awaits(b, x)'
  <2> SUFFICES ASSUME NEW b \in Callers, NEW x \in StoreIds, Awaits(b, x), x # s \/ stores[s].pending
               PROVE  (\E i \in jobs' : i.store = x /\ i.call = b) \/ [call |-> b, store |-> x] \in waiting'
    BY DEF Awaits
  <2>1. CASE [call |-> b, store |-> x] \in waiting
    BY <2>1, <1>9
  <2>2. ASSUME NEW i \in jobs, i.store = x, i.call = b
        PROVE  \E h \in jobs' : h.store = x /\ h.call = b
    <3>1. i.store = s => i = j
      BY <1>2 DEF OneWrite
    <3>2. QED
      BY <1>4, <1>8, <2>2, <3>1
  <2>3. QED
    BY <2>1, <2>2 DEF Awaits
<1>18. ASSUME NEW b \in Callers, NEW n \in Names, NEW d \in Docs, NEW k \in Nat, WillBe(b, n, d, k)
       PROVE  WillBe(b, n, d, k)'
  <2> DEFINE x == byName[n]
  <2>1. /\ x \in StoreIds /\ x # 0 /\ stores[x].docs[d] >= k /\ stores'[x].docs[d] >= k
        /\ \A i \in jobs : i.store = x => stores[x].pending \/ i.payload.docs[d] >= k
        /\ Awaits(b, x) \/ Settled(x, n, d, k)
    BY <1>2, <1>6, <1>18, TypeFacts DEF WillBe, Carries
  <2>2. CASE x # s
    <3>1. \A i \in jobs' : i.store = x => stores'[x].pending \/ i.payload.docs[d] >= k
      BY <1>4, <1>6, <1>8, <2>1, <2>2
    <3>2. Settled(x, n, d, k) => Settled(byName[n], n, d, k)'
      BY <1>1, <1>4, <1>8, <1>10, <1>11, <2>2 DEF Settled
    <3>3. Awaits(b, x) => Awaits(b, byName[n])'
      BY <1>1, <1>17, <2>1, <2>2
    <3>4. QED
      BY <1>1, <2>1, <3>1, <3>2, <3>3 DEF WillBe, Carries
  <2>3. CASE x = s
    <3>1. n = j.file
      BY <1>11, <2>3
    <3>2. \A i \in jobs' : i.store = x => i.payload.docs[d] >= k
      BY <1>4, <1>8, <2>1, <2>3
    <3>3. CASE stores[s].pending /\ Awaits(b, x)
      <4>1. Awaits(b, byName[n])'
        BY <1>1, <1>17, <2>1, <3>3
      <4>2. QED
        BY <1>1, <2>1, <3>2, <4>1 DEF WillBe, Carries
    <3>4. CASE ~ stores[s].pending \/ Settled(x, n, d, k)
      <4>1. j.payload.docs[d] >= k
        BY <2>1, <2>3, <3>4 DEF Settled
      <4>2. Settled(byName[n], n, d, k)'
        BY <1>1, <1>10, <3>1, <3>2, <4>1 DEF Settled
      <4>3. QED
        BY <1>1, <2>1, <3>2, <4>2 DEF WillBe, Carries
    <3>5. QED
      BY <2>1, <3>3, <3>4
  <2>4. QED
    BY <2>2, <2>3
<1>19. SavesCarry'
  BY <1>1, <1>2, <1>18, TypeFacts DEF SavesCarry, CallsFit
<1>20. LeavesLast'
  <2> SUFFICES ASSUME NEW c \in Callers, call[c].op = "disconnect"
               PROVE  /\ \A i \in jobs' : Awaits(c, i.store)'
                      /\ \A n \in Names, d \in Docs : byName[n] # 0 =>
                           WillBe(c, n, d, stores[byName[n]].docs[d])'
    BY <1>1, <1>2 DEF LeavesLast
  <2>1. ASSUME NEW i \in jobs' PROVE Awaits(c, i.store)'
    <3>1. CASE i \in jobs /\ i.store # s
      <4>1. Awaits(c, i.store) /\ i.store \in StoreIds
        BY <1>2, <3>1, TypeFacts DEF LeavesLast
      <4>2. QED
        BY <1>17, <3>1, <4>1
    <3>2. CASE i = again /\ stores[s].pending
      <4>1. Awaits(c, s) /\ i.store = s
        BY <1>2, <1>4, <3>2 DEF LeavesLast
      <4>2. QED
        BY <1>3, <1>17, <3>2, <4>1
    <3>3. QED
      BY <1>8, <3>1, <3>2
  <2>2. ASSUME NEW n \in Names, NEW d \in Docs, byName[n] # 0
        PROVE  WillBe(c, n, d, stores[byName[n]].docs[d])'
    <3>1. WillBe(c, n, d, stores[byName[n]].docs[d]) /\ stores[byName[n]].docs[d] \in Nat
      BY <1>2, <2>2, TypeFacts DEF LeavesLast
    <3>2. stores'[byName'[n]].docs[d] = stores[byName[n]].docs[d]
      BY <1>1, <1>2, <1>6, <2>2, TypeFacts
    <3>3. QED
      BY <1>18, <3>1, <3>2
  <2>3. QED
    BY <2>1, <2>2
<1>21. Placed'
  <2> SUFFICES ASSUME NEW d \in Docs, acked[d] > 0 PROVE HasPlace(d)'
    BY <1>1 DEF Placed
  <2>1. PICK m \in Names : /\ disk[m] # NoFile /\ disk[m].docs[d] >= acked[d] /\ Secure(m, d)
    BY <1>2, <1>15 DEF Placed, HasPlace
  <2>2. acked[d] \in Nat
    BY <1>2, TypeFacts
  <2>3. CASE byName[m] = 0
    <3>1. m # j.file
      BY <1>3, <2>3
    <3>2. Secure(m, d)'
      BY <1>1, <1>2, <1>18, <2>1, <2>2, <2>3 DEF Secure, CallsFit
    <3>3. QED
      BY <1>1, <1>10, <2>1, <3>1, <3>2 DEF HasPlace
  <2>4. CASE byName[m] # 0
    <3>1. /\ byName[m] \in StoreIds /\ stores[byName[m]].docs[d] >= acked[d]
          /\ \A i \in jobs : i.store = byName[m] => i.payload.docs[d] >= acked[d]
      BY <1>2, <2>1, <2>4, TypeFacts DEF Secure
    <3>2. Secure(m, d)'
      BY <1>1, <1>4, <1>6, <1>8, <2>4, <3>1 DEF Secure
    <3>3. disk'[m] # NoFile /\ disk'[m].docs[d] >= acked[d]
      BY <1>3, <1>10, <2>1, <3>1
    <3>4. QED
      BY <1>1, <3>2, <3>3 DEF HasPlace
  <2>5. QED
    BY <2>3, <2>4
<1>22. QED
  BY <1>12, <1>13, <1>14, <1>16, <1>19, <1>20, <1>21 DEF Inv, Shape

\* A write fails: those that await it go no further, the other writes go on.
LEMMA StepWriteFails ==
  ASSUME Inv, NEW j \in jobs, WriteFails(j)
  PROVE  Inv'
<1> DEFINE s == j.store
           told == {j.call} \union {w.call : w \in {v \in waiting : v.store = s}}
           left(i) == [i EXCEPT !.call = IF @ \in told THEN NoCall ELSE @]
<1>1. /\ stores' = [stores EXCEPT ![s].saving = FALSE]
      /\ jobs' = {left(i) : i \in jobs \ {j}}
      /\ waiting' = {w \in waiting : w.store # s /\ w.call \notin told}
      /\ call' = [c \in Callers |-> IF c \in told THEN Idle ELSE call[c]]
      /\ UNCHANGED <<setup, handles, byName, instances, disk, connection, timer, acked>>
  BY DEF WriteFails
<1>2. Types /\ OneWrite /\ MapsFit /\ CallsFit /\ Offline /\ SavesCarry /\ LeavesLast /\ Placed
  BY DEF Inv, Shape
<1>3. /\ s \in StoreIds /\ byName[j.file] = s /\ s # 0
      /\ \A i \in jobs : i # j => i.store # s
  BY <1>2, TypeFacts, IdsAreNumbers DEF MapsFit, OneWrite
<1>4. \A i \in jobs : /\ left(i) \in Job /\ left(i).store = i.store /\ left(i).file = i.file
                      /\ left(i).payload = i.payload
                      /\ i.call \notin told => left(i).call = i.call
  <2> TAKE i \in jobs
  <2>1. i \in Job
    BY <1>2 DEF Types
  <2> HIDE DEF told
  <2>2. QED
    BY <2>1 DEF Job
<1>5. \A b \in Callers : Awaits(b, s) => b \in told
  BY <1>2, <1>3 DEF Awaits, OneWrite
<1> HIDE DEF told, left
<1>6. \A x \in StoreIds : /\ stores'[x] \in Store
                          /\ stores'[x].docs = stores[x].docs /\ stores'[x].label = stores[x].label
                          /\ stores'[x].pending = stores[x].pending
                          /\ stores'[x].saving = (stores[x].saving /\ x # s)
  <2> TAKE x \in StoreIds
  <2>1. stores[x] \in Store /\ stores \in [StoreIds -> Store]
    BY <1>2 DEF Types
  <2>2. (x # s /\ stores'[x] = stores[x]) \/ (x = s /\ stores'[x] = [stores[x] EXCEPT !.saving = FALSE])
    BY <1>1, <1>3, <2>1
  <2>3. QED
    BY <2>1, <2>2 DEF Store
<1>7. stores' \in [StoreIds -> Store]
  BY <1>1, <1>2, <1>6 DEF Types
<1>8. /\ \A i \in jobs : i # j => left(i) \in jobs'
      /\ \A h \in jobs' : \E i \in jobs : i # j /\ h = left(i)
  BY <1>1
<1>9. Types'
  <2>1. jobs' \subseteq Job /\ waiting' \subseteq [call : Callers, store : StoreIds]
    BY <1>1, <1>2, <1>4, <1>8 DEF Types
  <2>2. call' \in [Callers -> CallState]
    BY <1>1, <1>2, IdleIsACall DEF Types
  <2>3. QED
    BY <1>1, <1>2, <1>7, <2>1, <2>2 DEF Types
<1>10. OneWrite'
  <2>1. \A x \in StoreIds : stores'[x].saving => \E h \in jobs' : h.store = x
    <3> SUFFICES ASSUME NEW x \in StoreIds, stores'[x].saving
                 PROVE  \E h \in jobs' : h.store = x
      OBVIOUS
    <3>1. stores[x].saving /\ x # s
      BY <1>6
    <3>2. PICK i \in jobs : i.store = x
      BY <1>2, <3>1 DEF OneWrite
    <3>3. QED
      BY <1>4, <1>8, <3>1, <3>2
  <2>2. \A h \in jobs' : stores'[h.store].saving
    <3> TAKE h \in jobs'
    <3>1. PICK i \in jobs : i # j /\ h = left(i)
      BY <1>8
    <3>2. i.store \in StoreIds /\ i.store # s /\ stores[i.store].saving
      BY <1>2, <1>3, <3>1, TypeFacts DEF OneWrite
    <3>3. QED
      BY <1>4, <1>6, <3>1, <3>2
  <2>3. \A h, i \in jobs' : h.store = i.store => h = i
    BY <1>2, <1>4, <1>8 DEF OneWrite
  <2>4. \A w \in waiting' : \E h \in jobs' : h.store = w.store
    <3> TAKE w \in waiting'
    <3>1. w \in waiting /\ w.store # s
      BY <1>1
    <3>2. PICK i \in jobs : i.store = w.store
      BY <1>2, <3>1 DEF OneWrite
    <3>3. QED
      BY <1>4, <1>8, <3>1, <3>2
  <2>5. QED
    BY <2>1, <2>2, <2>3, <2>4 DEF OneWrite
<1>11. MapsFit'
  <2>1. \A n \in Names : byName[n] # 0 => stores'[byName[n]].label = n
    BY <1>2, <1>6, TypeFacts DEF MapsFit
  <2>2. \A h \in jobs' : byName[h.file] = h.store /\ h.payload.label = h.file
    BY <1>2, <1>4, <1>8 DEF MapsFit
  <2>3. QED
    BY <1>1, <1>2, <2>1, <2>2 DEF MapsFit
<1>12. connection = "on"
  BY <1>2 DEF Offline
<1>13. \A b \in Callers : call'[b] = (IF b \in told THEN Idle ELSE call[b])
  BY <1>1
<1>14. CallsFit'
  BY <1>1, <1>2, <1>13 DEF CallsFit, Idle, OnCollection
<1>15. Offline'
  BY <1>1, <1>2, <1>12 DEF Offline
<1>16. ASSUME NEW b \in Callers, b \notin told, NEW n \in Names, NEW d \in Docs, NEW k \in Nat,
              WillBe(b, n, d, k)
       PROVE  WillBe(b, n, d, k)'
  <2> DEFINE x == byName[n]
  <2>1. /\ x \in StoreIds /\ x # 0 /\ stores[x].docs[d] >= k /\ stores'[x].docs[d] >= k
        /\ \A i \in jobs : i.store = x => stores[x].pending \/ i.payload.docs[d] >= k
        /\ Awaits(b, x) \/ Settled(x, n, d, k)
    BY <1>2, <1>6, <1>16, TypeFacts DEF WillBe, Carries
  <2>2. \A h \in jobs' : h.store = x => stores'[x].pending \/ h.payload.docs[d] >= k
    BY <1>4, <1>6, <1>8, <2>1
  <2>3. CASE Settled(x, n, d, k)
    <3>1. Settled(byName[n], n, d, k)'
      BY <1>1, <1>4, <1>8, <2>3 DEF Settled
    <3>2. QED
      BY <1>1, <2>1, <2>2, <3>1 DEF WillBe, Carries
  <2>4. CASE Awaits(b, x)
    <3>1. x # s
      BY <1>5, <1>16, <2>4
    <3>2. ASSUME NEW i \in jobs, i.store = x, i.call = b
          PROVE  \E h \in jobs' : h.store = x /\ h.call = b
      BY <1>4, <1>8, <1>16, <3>1, <3>2
    <3>3. [call |-> b, store |-> x] \in waiting => [call |-> b, store |-> x] \in waiting'
      BY <1>1, <1>16, <3>1
    <3>4. Awaits(b, byName[n])'
      BY <1>1, <2>4, <3>2, <3>3 DEF Awaits
    <3>5. QED
      BY <1>1, <2>1, <2>2, <3>4 DEF WillBe, Carries
  <2>5. QED
    BY <2>1, <2>3, <2>4
<1>17. SavesCarry'
  <2> SUFFICES ASSUME NEW c \in Callers, call'[c].op \in OnCollection,
                      call'[c].step = "saving", call'[c].size > 0
               PROVE  WillBe(c, call[c].name, call[c].doc, call[c].size)'
    BY DEF SavesCarry
  <2>1. c \notin told /\ call'[c] = call[c]
    BY <1>13 DEF Idle, OnCollection
  <2>2. QED
    BY <1>2, <1>16, <2>1, TypeFacts DEF SavesCarry, CallsFit
<1>18. LeavesLast'
  <2>1. \A c \in Callers : call[c].op = "disconnect" => c \in told
    BY <1>2, <1>5 DEF LeavesLast
  <2>2. \A c \in Callers : call'[c].op # "disconnect"
    BY <1>13, <2>1 DEF Idle
  <2>3. QED
    BY <2>2 DEF LeavesLast
<1>19. Placed'
  <2> SUFFICES ASSUME NEW d \in Docs, acked[d] > 0 PROVE HasPlace(d)'
    BY <1>1 DEF Placed
  <2>1. PICK m \in Names : /\ disk[m] # NoFile /\ disk[m].docs[d] >= acked[d] /\ Secure(m, d)
    BY <1>2, <1>12 DEF Placed, HasPlace
  <2>2. acked[d] \in Nat
    BY <1>2, TypeFacts
  <2>3. CASE byName[m] = 0
    <3>1. ASSUME NEW c \in Callers, call'[c].op = "rename", call'[c].name = m
          PROVE  WillBe(c, call[c].to, d, acked[d])'
      <4>1. c \notin told /\ call'[c] = call[c]
        BY <1>13, <3>1 DEF Idle
      <4>2. WillBe(c, call[c].to, d, acked[d]) /\ call[c].to \in Names
        BY <1>2, <2>1, <2>3, <3>1, <4>1 DEF Secure, CallsFit
      <4>3. WillBe(c, call[c].to, d, acked[d])
            => (byName'[call'[c].to] = byName[call[c].to] /\ acked'[d] = acked[d])
        BY <1>1, <4>1
      <4>4. QED
        BY <1>1, <1>16, <2>2, <4>1, <4>2
    <3>2. QED
      BY <1>1, <2>1, <2>3, <3>1 DEF Secure, HasPlace
  <2>4. CASE byName[m] # 0
    <3>1. /\ byName[m] \in StoreIds /\ stores[byName[m]].docs[d] >= acked[d]
          /\ \A i \in jobs : i.store = byName[m] => i.payload.docs[d] >= acked[d]
      BY <1>2, <2>1, <2>4, TypeFacts DEF Secure
    <3>2. Secure(m, d)'
      BY <1>1, <1>4, <1>6, <1>8, <2>4, <3>1 DEF Secure
    <3>3. QED
      BY <1>1, <2>1, <3>2 DEF HasPlace
  <2>5. QED
    BY <2>3, <2>4
<1>20. QED
  BY <1>9, <1>10, <1>11, <1>14, <1>15, <1>17, <1>18, <1>19 DEF Inv, Shape

\* Which calls a step finds, and with what.
LEMMA CallHolds ==
  ASSUME Types, MapsFit, CallsFit, NEW c \in Callers, call[c].op \in OnCollection
  PROVE  /\ call[c].name \in Names /\ call[c].doc \in Docs
         /\ byName[call[c].name] \in StoreIds
         /\ handles[call[c].handle].store = byName[call[c].name]
         /\ handles[call[c].handle].name = call[c].name
<1>1. /\ call[c].name \in Names /\ call[c].doc \in Docs
      /\ instances[call[c].name] = call[c].handle /\ call[c].handle # 0
  BY DEF CallsFit
<1>2. /\ handles[call[c].handle] = [store |-> byName[call[c].name], name |-> call[c].name]
      /\ byName[call[c].name] \in StoreIds
  BY <1>1, TypeFacts DEF MapsFit
<1>3. QED
  BY <1>1, <1>2

\* A call ends without a trace.
LEMMA StepEnds ==
  ASSUME Inv, NEW c \in Callers, call' = [call EXCEPT ![c] = Idle],
         UNCHANGED <<setup, stores, handles, byName, instances, disk, jobs, waiting,
                     connection, timer, acked>>
  PROVE  Inv'
<1>1. Types /\ OneWrite /\ MapsFit /\ CallsFit /\ Offline /\ SavesCarry /\ LeavesLast /\ Placed
  BY DEF Inv, Shape
<1>2. call'[c] = Idle /\ \A b \in Callers : b # c => call'[b] = call[b]
  BY <1>1 DEF Types
<1>3. Types'
  BY <1>1, IdleIsACall DEF Types
<1>4. OneWrite' /\ MapsFit'
  BY <1>1 DEF OneWrite, MapsFit
<1>5. CallsFit'
  BY <1>1, <1>2 DEF CallsFit, Idle, OnCollection
<1>6. Offline'
  BY <1>1, <1>2 DEF Offline, Idle
<1>7. ASSUME NEW b \in Callers, NEW m \in Names, NEW d \in Docs, NEW l \in Nat, WillBe(b, m, d, l)
      PROVE  WillBe(b, m, d, l)'
  BY <1>7 DEF WillBe, Carries, Settled, Awaits
<1>8. Idle.op = "none"
  BY DEF Idle
<1>9. SavesCarry'
  <2> SUFFICES ASSUME NEW b \in Callers, call'[b].op \in OnCollection,
                      call'[b].step = "saving", call'[b].size > 0
               PROVE  WillBe(b, call[b].name, call[b].doc, call[b].size)'
    BY DEF SavesCarry
  <2>1. call'[b] = call[b]
    BY <1>2, <1>8 DEF OnCollection
  <2>2. QED
    BY <1>1, <1>7, <2>1, TypeFacts DEF SavesCarry, CallsFit
<1>10. LeavesLast'
  <2> SUFFICES ASSUME NEW b \in Callers, call'[b].op = "disconnect"
               PROVE  /\ connection = "on" /\ timer = "none"
                      /\ \A a \in Callers : a # b => call'[a].op = "none"
                      /\ \A j \in jobs : Awaits(b, j.store)'
                      /\ \A m \in Names, d \in Docs : byName[m] # 0 =>
                           WillBe(b, m, d, stores[byName[m]].docs[d])'
    BY DEF LeavesLast
  <2>1. call[b].op = "disconnect"
    BY <1>2, <1>8
  <2>2. \A j \in jobs : Awaits(b, j.store)'
    BY <1>1, <2>1 DEF LeavesLast, Awaits
  <2>3. \A m \in Names, d \in Docs : byName[m] # 0 => WillBe(b, m, d, stores[byName[m]].docs[d])'
    BY <1>1, <1>7, <2>1, TypeFacts DEF LeavesLast
  <2>4. QED
    BY <1>1, <1>2, <1>8, <2>1, <2>2, <2>3 DEF LeavesLast
<1>11. Placed'
  <2> SUFFICES ASSUME NEW d \in Docs, acked[d] > 0 PROVE HasPlace(d)'
    BY DEF Placed
  <2>1. PICK m \in Names : /\ disk[m] # NoFile /\ disk[m].docs[d] >= acked[d]
                           /\ connection = "on" => Secure(m, d)
    BY <1>1 DEF Placed, HasPlace
  <2>2. ASSUME NEW b \in Callers, call'[b].op = "rename" PROVE call'[b] = call[b]
    BY <1>2, <1>8, <2>2
  <2>3. connection = "on" => Secure(m, d)'
    BY <1>1, <1>7, <2>1, <2>2, TypeFacts DEF Secure, CallsFit
  <2>4. QED
    BY <2>1, <2>3 DEF HasPlace
<1>12. QED
  BY <1>3, <1>4, <1>5, <1>6, <1>9, <1>10, <1>11 DEF Inv, Shape

\* What marking a collection does to its store.
LEMMA MarkDirtyDoes ==
  ASSUME Types, NEW n \in Names, byName[n] # 0
  PROVE  /\ MarkDirty(stores, n) \in [StoreIds -> Store]
         /\ MarkDirty(stores, n)[byName[n]].statsDirty
         /\ \A x \in StoreIds :
              /\ MarkDirty(stores, n)[x].docs = stores[x].docs
              /\ MarkDirty(stores, n)[x].label = stores[x].label
              /\ MarkDirty(stores, n)[x].saving = stores[x].saving
              /\ MarkDirty(stores, n)[x].pending = stores[x].pending
              /\ x # byName[n] => MarkDirty(stores, n)[x] = stores[x]
<1> DEFINE s == byName[n]
           marked == [stores[s] EXCEPT !.statsDirty = TRUE]
           ss == MarkDirty(stores, n)
<1>1. s \in StoreIds /\ stores \in [StoreIds -> Store] /\ stores[s] \in Store
  BY TypeFacts DEF Types
<1>2. /\ marked \in Store /\ marked.statsDirty
      /\ marked.docs = stores[s].docs /\ marked.label = stores[s].label
      /\ marked.saving = stores[s].saving /\ marked.pending = stores[s].pending
  BY <1>1 DEF Store
<1>3. ss = [stores EXCEPT ![s] = marked]
  BY DEF MarkDirty
<1> HIDE DEF marked, ss
<1>4. /\ ss \in [StoreIds -> Store] /\ ss[s] = marked
      /\ \A x \in StoreIds : x # s => ss[x] = stores[x]
  BY <1>1, <1>2, <1>3
<1>5. QED
  BY <1>2, <1>4 DEF ss

\* A call changes memory only, and removes some documents or none.
InMemory(c, removed) ==
    /\ stores' \in [StoreIds -> Store]
    /\ \A x \in StoreIds : /\ stores'[x].label = stores[x].label
                           /\ stores'[x].saving = stores[x].saving
                           /\ stores'[x].pending = stores[x].pending
    /\ \A x \in StoreIds, d \in Docs \ removed : stores'[x].docs[d] >= stores[x].docs[d]
    /\ call' \in [Callers -> CallState]
    /\ \/ call'[c] = Idle
       \/ /\ call'[c].op = call[c].op /\ call'[c].name = call[c].name
          /\ call'[c].doc = call[c].doc /\ call'[c].handle = call[c].handle
          /\ call'[c].step \in {"changed", "marked"}
    /\ \A b \in Callers \ {c} :
         /\ call'[b].op = call[b].op /\ call'[b].name = call[b].name
         /\ call'[b].to = call[b].to /\ call'[b].doc = call[b].doc
         /\ call'[b].handle = call[b].handle /\ call'[b].step = call[b].step
         /\ call'[b].size = IF call[b].doc \in removed THEN 0 ELSE call[b].size
    /\ acked' \in Numbers
    /\ \A d \in Docs : acked'[d] = IF d \in removed THEN 0 ELSE acked[d]

\* It keeps what the writes in flight will store.
LEMMA StepInMemory ==
  ASSUME Inv, NEW c \in Callers, call[c].op \in OnCollection, connection = "on",
         UNCHANGED <<setup, handles, byName, instances, disk, jobs, waiting, connection, timer>>,
         NEW removed \in SUBSET Docs, InMemory(c, removed)
  PROVE  Inv'
<1> USE DEF InMemory
<1>1. Types /\ OneWrite /\ MapsFit /\ CallsFit /\ Offline /\ SavesCarry /\ LeavesLast /\ Placed
  BY DEF Inv, Shape
<1>2. call'[c].op \in OnCollection \union {"none"} /\ call'[c].step # "saving"
  BY DEF Idle
<1>3. ASSUME NEW b \in Callers, NEW m \in Names, NEW d \in Docs \ removed, NEW l \in 0..MaxSize,
             WillBe(b, m, d, l)
      PROVE  WillBe(b, m, d, l)'
  <2>1. /\ byName[m] \in StoreIds /\ l \in Nat /\ stores[byName[m]].docs[d] >= l
        /\ stores[byName[m]].docs[d] \in Nat
    BY <1>1, <1>3, TypeFacts DEF WillBe, Carries
  <2>2. stores'[byName[m]].docs[d] \in Nat
    <3>1. stores'[byName[m]].docs \in Numbers /\ 0..MaxSize \subseteq Nat
      BY <1>1, <2>1, TypeFacts DEF Store
    <3>2. QED
      BY <3>1 DEF Numbers
  <2>3. stores'[byName[m]].docs[d] >= l
    BY <2>1, <2>2
  <2>4. QED
    BY <1>3, <2>1, <2>3, CarriesStays
<1>4. Types' /\ OneWrite' /\ MapsFit'
  <2>1. Types'
    BY <1>1 DEF Types
  <2>2. OneWrite'
    BY <1>1, TypeFacts DEF OneWrite
  <2>3. MapsFit'
    BY <1>1, TypeFacts DEF MapsFit
  <2>4. QED
    BY <2>1, <2>2, <2>3
<1>5. CallsFit'
  <2> SUFFICES ASSUME NEW b \in Callers
               PROVE  /\ call'[b].handle # 0 <=> call'[b].op \in OnCollection
                      /\ call'[b].op \in OnCollection =>
                           /\ call'[b].name \in Names /\ call'[b].doc \in Docs
                           /\ instances[call'[b].name] = call'[b].handle
                           /\ call'[b].step # "idle"
                      /\ call'[b].op \in {"rename", "disconnect"} => call'[b].step = "saving"
                      /\ call'[b].op = "rename" =>
                           call'[b].name \in Names /\ call'[b].to \in Names /\ byName[call'[b].name] = 0
                      /\ call'[b].op \in OnCollection \union {"rename", "disconnect", "none"}
                      /\ call'[b].op = "none" => call'[b].step = "idle" /\ call'[b].size = 0
    BY DEF CallsFit
  <2>1. CASE b # c
    BY <1>1, <2>1 DEF CallsFit
  <2>2. CASE call'[b] = Idle
    BY <2>2 DEF Idle, OnCollection
  <2>3. CASE b = c /\ call'[b] # Idle
    <3>1. /\ call[c].handle # 0 /\ call[c].name \in Names /\ call[c].doc \in Docs
          /\ instances[call[c].name] = call[c].handle
      BY <1>1 DEF CallsFit
    <3>2. QED
      BY <2>3, <3>1 DEF OnCollection
  <2>4. QED
    BY <2>1, <2>2, <2>3
<1>6. Offline'
  BY <1>1 DEF Offline
<1>7. SavesCarry'
  <2> SUFFICES ASSUME NEW b \in Callers, call'[b].op \in OnCollection,
                      call'[b].step = "saving", call'[b].size > 0
               PROVE  WillBe(b, call[b].name, call[b].doc, call[b].size)'
    BY DEF SavesCarry
  <2>1. b # c
    BY <1>2
  <2>2. /\ call[b].op \in OnCollection /\ call[b].step = "saving" /\ call[b].size > 0
        /\ call[b].doc \notin removed /\ call'[b].size = call[b].size
    BY <2>1
  <2>3. WillBe(b, call[b].name, call[b].doc, call[b].size)
    BY <1>1, <2>2 DEF SavesCarry
  <2>4. call[b].name \in Names /\ call[b].doc \in Docs /\ call[b].size \in 0..MaxSize
    BY <1>1, <2>2, TypeFacts DEF CallsFit
  <2>5. QED
    BY <1>3, <2>1, <2>2, <2>3, <2>4
<1>8. LeavesLast'
  <2>1. \A b \in Callers : call[b].op # "disconnect"
    BY <1>1 DEF LeavesLast, OnCollection
  <2>2. \A b \in Callers : call'[b].op # "disconnect"
    BY <1>2, <2>1 DEF OnCollection
  <2>3. QED
    BY <2>2 DEF LeavesLast
<1>9. Placed'
  <2> SUFFICES ASSUME NEW d \in Docs, acked'[d] > 0 PROVE HasPlace(d)'
    BY DEF Placed
  <2>1. d \notin removed /\ acked'[d] = acked[d] /\ acked[d] > 0 /\ acked[d] \in 0..MaxSize
    BY <1>1, TypeFacts
  <2>2. PICK m \in Names : /\ disk[m] # NoFile /\ disk[m].docs[d] >= acked[d] /\ Secure(m, d)
    BY <1>1, <2>1 DEF Placed, HasPlace
  <2>3. CASE byName[m] = 0
    <3>1. ASSUME NEW b \in Callers, call'[b].op = "rename", call'[b].name = m
          PROVE  WillBe(b, call[b].to, d, acked[d])'
      <4>1. b # c /\ call[b].op = "rename" /\ call[b].name = m /\ call'[b].to = call[b].to
        BY <1>2, <3>1 DEF OnCollection
      <4>2. WillBe(b, call[b].to, d, acked[d]) /\ call[b].to \in Names
        BY <1>1, <2>2, <2>3, <4>1 DEF Secure, CallsFit
      <4>3. QED
        BY <1>3, <2>1, <4>1, <4>2
    <3>2. QED
      BY <2>1, <2>2, <2>3, <3>1 DEF Secure, HasPlace
  <2>4. CASE byName[m] # 0
    <3>1. /\ byName[m] \in StoreIds /\ stores[byName[m]].docs[d] >= acked[d]
          /\ \A j \in jobs : j.store = byName[m] => j.payload.docs[d] >= acked[d]
      BY <1>1, <2>2, <2>4, TypeFacts DEF Secure
    <3>2. stores'[byName[m]].docs[d] >= acked[d]
      <4>1. stores'[byName[m]].docs \in Numbers /\ 0..MaxSize \subseteq Nat
        BY <1>1, <3>1, TypeFacts DEF Store
      <4>2. stores'[byName[m]].docs[d] \in Nat /\ stores[byName[m]].docs[d] \in Nat /\ acked[d] \in Nat
        BY <1>1, <2>1, <3>1, <4>1, TypeFacts DEF Numbers
      <4>3. QED
        BY <2>1, <3>1, <4>2
    <3>3. Secure(m, d)'
      BY <2>1, <2>4, <3>1, <3>2 DEF Secure
    <3>4. QED
      BY <2>1, <2>2, <3>3 DEF HasPlace
  <2>5. QED
    BY <2>3, <2>4
<1>10. QED
  BY <1>4, <1>5, <1>6, <1>7, <1>8, <1>9 DEF Inv, Shape

\* What a call does to its collection, unless there is nothing to do.
Changes(c, new, removed) ==
    LET s == byName[call[c].name]
        doc == call[c].doc
    IN  /\ removed = IF new = 0 THEN {doc} ELSE {}
        /\ new # 0 => new > stores[s].docs[doc]
        /\ stores' \in [StoreIds -> Store]
        /\ \A x \in StoreIds : /\ stores'[x].label = stores[x].label
                               /\ stores'[x].saving = stores[x].saving
                               /\ stores'[x].pending = stores[x].pending
        /\ \A x \in StoreIds, d \in Docs :
             stores'[x].docs[d] = IF x = s /\ d = doc THEN new ELSE stores[x].docs[d]
        /\ \A x \in StoreIds : x # s => stores'[x] = stores[x]
        /\ call' \in [Callers -> CallState]
        /\ call'[c].op = call[c].op /\ call'[c].name = call[c].name
        /\ call'[c].doc = call[c].doc /\ call'[c].handle = call[c].handle
        /\ call'[c].step = "changed" /\ call'[c].size = new
        /\ \A b \in Callers \ {c} :
             /\ call'[b].op = call[b].op /\ call'[b].name = call[b].name
             /\ call'[b].to = call[b].to /\ call'[b].doc = call[b].doc
             /\ call'[b].handle = call[b].handle /\ call'[b].step = call[b].step
             /\ call'[b].size = IF call[b].doc \in removed THEN 0 ELSE call[b].size
        /\ acked' \in Numbers
        /\ \A d \in Docs : acked'[d] = IF d \in removed THEN 0 ELSE acked[d]

LEMMA ChangeDoes ==
  ASSUME Inv, NEW c \in Callers, Change(c)
  PROVE  /\ call[c].op \in OnCollection /\ connection = "on"
         /\ call[c].name \in Names /\ call[c].doc \in Docs
         /\ byName[call[c].name] \in StoreIds /\ byName[call[c].name] # 0
         /\ UNCHANGED <<setup, handles, byName, instances, disk, jobs, waiting, cache,
                        connection, timer, used>>
         /\ \/ call' = [call EXCEPT ![c] = Idle] /\ UNCHANGED <<stores, acked>>
            \/ \E new \in 0..MaxSize, removed \in SUBSET Docs : Changes(c, new, removed)
<1> DEFINE k == call[c]
           n == k.name
           s == byName[n]
           old == stores[s].docs[k.doc]
           new == IF k.op = "remove" THEN 0 ELSE old + 1
           removed == {d \in {k.doc} : new = 0}
           done == [k EXCEPT !.step = "changed", !.size = new]
<1>1. Types /\ OneWrite /\ MapsFit /\ CallsFit /\ Offline /\ SavesCarry /\ LeavesLast /\ Placed
  BY DEF Inv, Shape
<1>2. k.op \in OnCollection /\ connection = "on"
  BY <1>1 DEF Change, CallsFit, Offline
<1>3. /\ n \in Names /\ k.doc \in Docs /\ s \in StoreIds /\ s # 0
      /\ handles[k.handle].store = s /\ handles[k.handle].name = n
  BY <1>1, <1>2, CallHolds, IdsAreNumbers
<1>4. /\ UNCHANGED <<setup, handles, byName, instances, disk, jobs, waiting, cache,
                     connection, timer, used>>
      /\ \/ call' = [call EXCEPT ![c] = Idle] /\ UNCHANGED <<stores, acked>>
         \/ /\ ~ (new = old \/ new > MaxSize)
            /\ stores' = [stores EXCEPT ![s].docs[k.doc] = new]
            /\ call' = [Released(removed) EXCEPT ![c] = done]
            /\ Release(removed)
  BY <1>3 DEF Change
<1>5. old \in 0..MaxSize /\ new \in Nat /\ (k.op # "remove" => new > old)
  BY <1>1, <1>3, TypeFacts
<1>6. CASE call' = [call EXCEPT ![c] = Idle] /\ UNCHANGED <<stores, acked>>
  BY <1>2, <1>3, <1>4, <1>6
<1>7. CASE /\ ~ (new = old \/ new > MaxSize)
           /\ stores' = [stores EXCEPT ![s].docs[k.doc] = new]
           /\ call' = [Released(removed) EXCEPT ![c] = done]
           /\ Release(removed)
  <2>1. removed = (IF new = 0 THEN {k.doc} ELSE {})
    OBVIOUS
  <2>2. new \in 0..MaxSize
    <3>1. new \in Nat /\ ~ (new > MaxSize) /\ MaxSize \in Nat
      BY <1>1, <1>5, <1>7, TypeFacts
    <3> HIDE DEF new
    <3>2. QED
      BY <3>1
  <2>3. new # 0 => new > old
    BY <1>5
  <2>4. /\ done \in CallState /\ done.op = k.op /\ done.name = n /\ done.doc = k.doc
        /\ done.handle = k.handle /\ done.step = "changed" /\ done.size = new
    <3>1. k \in CallState
      BY <1>1 DEF Types
    <3> HIDE DEF k, new
    <3>2. QED
      BY <2>2, <3>1 DEF CallState
  <2> HIDE DEF new, removed, done
  <2>5. /\ stores' \in [StoreIds -> Store]
        /\ \A x \in StoreIds : /\ stores'[x].label = stores[x].label
                               /\ stores'[x].saving = stores[x].saving
                               /\ stores'[x].pending = stores[x].pending
        /\ \A x \in StoreIds, d \in Docs :
             stores'[x].docs[d] = IF x = s /\ d = k.doc THEN new ELSE stores[x].docs[d]
        /\ \A x \in StoreIds : x # s => stores'[x] = stores[x]
    <3>1. stores \in [StoreIds -> Store] /\ stores[s] \in Store /\ stores[s].docs \in Numbers
      BY <1>1, <1>3 DEF Types, Store
    <3> DEFINE docs == [stores[s].docs EXCEPT ![k.doc] = new]
               store == [stores[s] EXCEPT !.docs = docs]
    <3>2. docs \in Numbers /\ \A d \in Docs : docs[d] = IF d = k.doc THEN new ELSE stores[s].docs[d]
      BY <1>3, <2>2, <3>1 DEF Numbers
    <3>3. stores' = [stores EXCEPT ![s] = store]
      BY <1>7
    <3> HIDE DEF docs
    <3>4. /\ store \in Store /\ store.docs = docs /\ store.label = stores[s].label
          /\ store.saving = stores[s].saving /\ store.pending = stores[s].pending
      BY <3>1, <3>2 DEF Store
    <3> HIDE DEF store
    <3>5. /\ stores' \in [StoreIds -> Store] /\ stores'[s] = store
          /\ \A x \in StoreIds : x # s => stores'[x] = stores[x]
      BY <1>3, <3>1, <3>3, <3>4
    <3>6. QED
      BY <3>2, <3>4, <3>5, ZenonT(40)
  <2>7. /\ call' \in [Callers -> CallState] /\ call'[c] = done
        /\ \A b \in Callers \ {c} : call'[b] = IF call[b].doc \in removed
                                     THEN [call[b] EXCEPT !.size = 0] ELSE call[b]
    <3>1. Released(removed) \in [Callers -> CallState]
      <4>1. 0 \in 0..MaxSize /\ \A b \in Callers : call[b] \in CallState
        BY <1>1, TypeFacts DEF Types
      <4>2. \A b \in Callers : [call[b] EXCEPT !.size = 0] \in CallState
        BY <4>1 DEF CallState
      <4>3. QED
        BY <4>1, <4>2 DEF Released
    <3>2. QED
      BY <1>7, <2>4, <3>1 DEF Released
  <2>8. \A b \in Callers \ {c} :
          /\ call'[b].op = call[b].op /\ call'[b].name = call[b].name
          /\ call'[b].to = call[b].to /\ call'[b].doc = call[b].doc
          /\ call'[b].handle = call[b].handle /\ call'[b].step = call[b].step
          /\ call'[b].size = IF call[b].doc \in removed THEN 0 ELSE call[b].size
    <3>1. \A b \in Callers : call[b] \in CallState
      BY <1>1 DEF Types
    <3>2. QED
      BY <2>7, <3>1 DEF CallState
  <2>9. acked' \in Numbers /\ \A d \in Docs : acked'[d] = IF d \in removed THEN 0 ELSE acked[d]
    <3>1. acked' = [d \in Docs |-> IF d \in removed THEN 0 ELSE acked[d]]
      BY <1>7 DEF Release
    <3>2. QED
      BY <1>1, <3>1, TypeFacts DEF Numbers
  <2>10. removed \in SUBSET Docs
    BY <1>3, <2>1
  <2>11. Changes(c, new, removed)
    BY <2>1, <2>3, <2>4, <2>5, <2>7, <2>8, <2>9 DEF Changes
  <2>12. QED
    BY <1>2, <1>3, <1>4, <2>2, <2>10, <2>11
<1>8. QED
  BY <1>4, <1>6, <1>7

\* A call changes its collection, or has nothing to do.
LEMMA StepChange ==
  ASSUME Inv, NEW c \in Callers, Change(c)
  PROVE  Inv'
<1>1. /\ call[c].op \in OnCollection /\ connection = "on"
      /\ call[c].name \in Names /\ call[c].doc \in Docs
      /\ byName[call[c].name] \in StoreIds
      /\ UNCHANGED <<setup, handles, byName, instances, disk, jobs, waiting, connection, timer>>
      /\ \/ call' = [call EXCEPT ![c] = Idle] /\ UNCHANGED <<stores, acked>>
         \/ \E new \in 0..MaxSize, removed \in SUBSET Docs : Changes(c, new, removed)
  BY ChangeDoes
<1>2. CASE call' = [call EXCEPT ![c] = Idle] /\ UNCHANGED <<stores, acked>>
  BY <1>1, <1>2, StepEnds
<1>3. ASSUME NEW new \in 0..MaxSize, NEW removed \in SUBSET Docs, Changes(c, new, removed)
      PROVE  Inv'
  <2> DEFINE k == call[c]
             s == byName[k.name]
  <2>1. /\ removed = IF new = 0 THEN {k.doc} ELSE {}
        /\ new # 0 => new > stores[s].docs[k.doc]
        /\ \A x \in StoreIds, d \in Docs :
             stores'[x].docs[d] = IF x = s /\ d = k.doc THEN new ELSE stores[x].docs[d]
    BY <1>3 DEF Changes
  <2>2. /\ stores' \in [StoreIds -> Store]
        /\ \A x \in StoreIds : /\ stores'[x].label = stores[x].label
                               /\ stores'[x].saving = stores[x].saving
                               /\ stores'[x].pending = stores[x].pending
    BY <1>3 DEF Changes
  <2>3. \A x \in StoreIds, d \in Docs \ removed : stores'[x].docs[d] >= stores[x].docs[d]
    <3> TAKE x \in StoreIds, d \in Docs \ removed
    <3>1. stores[x].docs[d] \in Nat /\ new \in Nat
      BY TypeFacts DEF Inv, Shape
    <3>2. QED
      BY <2>1, <3>1
  <2>4. /\ call' \in [Callers -> CallState]
        /\ acked' \in Numbers /\ \A d \in Docs : acked'[d] = IF d \in removed THEN 0 ELSE acked[d]
    BY <1>3 DEF Changes
  <2>5. \A b \in Callers \ {c} :
          /\ call'[b].op = call[b].op /\ call'[b].name = call[b].name
          /\ call'[b].to = call[b].to /\ call'[b].doc = call[b].doc
          /\ call'[b].handle = call[b].handle /\ call'[b].step = call[b].step
          /\ call'[b].size = IF call[b].doc \in removed THEN 0 ELSE call[b].size
    BY <1>3 DEF Changes
  <2>6. \/ call'[c] = Idle
        \/ /\ call'[c].op = k.op /\ call'[c].name = k.name /\ call'[c].doc = k.doc
           /\ call'[c].handle = k.handle /\ call'[c].step \in {"changed", "marked"}
    BY <1>3 DEF Changes
  <2>7. QED
    <3>1. InMemory(c, removed)
      BY <2>2, <2>3, <2>4, <2>5, <2>6 DEF InMemory
    <3>2. QED
      BY <1>1, <3>1, StepInMemory
<1>4. QED
  BY <1>1, <1>2, <1>3

\* A call goes on to save some names, that of its collection among them.
LEMMA StepSaves ==
  ASSUME Inv, NEW c \in Callers, call[c].op \in OnCollection, connection = "on",
         UNCHANGED <<setup, handles, byName, instances, disk, connection, timer, acked>>,
         call' = [call EXCEPT ![c].step = "saving"],
         NEW names \in SUBSET Names, call[c].name \in names,
         stores[byName[call[c].name]].docs[call[c].doc] >= call[c].size,
         NEW ss \in [StoreIds -> Store], Save(c, names, ss),
         \A x \in StoreIds : /\ ss[x].docs = stores[x].docs /\ ss[x].label = stores[x].label
                             /\ ss[x].saving = stores[x].saving
                             /\ ss[x].pending = stores[x].pending
  PROVE  Inv'
<1> DEFINE k == call[c]
           n == k.name
           s == byName[n]
<1>1. Types /\ OneWrite /\ MapsFit /\ CallsFit /\ Offline /\ SavesCarry /\ LeavesLast /\ Placed
  BY DEF Inv, Shape
<1>2. n \in Names /\ k.doc \in Docs /\ s \in StoreIds /\ s # 0 /\ k.size \in 0..MaxSize
  BY <1>1, CallHolds, IdsAreNumbers, TypeFacts
<1>3. \A b \in Callers : call[b].op # "disconnect"
  BY <1>1 DEF LeavesLast, OnCollection
<1>4. /\ stores' \in [StoreIds -> Store]
      /\ jobs' \subseteq Job /\ waiting' \subseteq [call : Callers, store : StoreIds]
      /\ OneWrite' /\ Grows(c, names, ss)
  <2>1. byName' \in [Names -> StoreIds \union {0}]
    BY <1>1 DEF Types
  <2>2. jobs \subseteq Job /\ waiting \subseteq [call : Callers, store : StoreIds]
    BY <1>1 DEF Types
  <2>3. \A m \in Names : byName'[m] # 0 => ss[byName'[m]].label = m
    BY <1>1, TypeFacts DEF MapsFit
  <2>4. /\ \A x \in StoreIds : ss[x].saving => \E j \in jobs : j.store = x
        /\ \A j \in jobs : ss[j.store].saving
        /\ \A i, j \in jobs : i.store = j.store => i = j
        /\ \A w \in waiting : \E j \in jobs : j.store = w.store
    BY <1>1, TypeFacts DEF OneWrite
  <2>5. QED
    BY <2>1, <2>2, <2>3, <2>4, SaveDoes
<1>5. /\ call' \in [Callers -> CallState]
      /\ call'[c].op = k.op /\ call'[c].name = n /\ call'[c].doc = k.doc
      /\ call'[c].handle = k.handle /\ call'[c].step = "saving" /\ call'[c].size = k.size
      /\ \A b \in Callers : b # c => call'[b] = call[b]
  <2>1. k \in CallState /\ call \in [Callers -> CallState]
    BY <1>1 DEF Types
  <2> DEFINE next == [k EXCEPT !.step = "saving"]
  <2>2. /\ next \in CallState /\ next.op = k.op /\ next.name = n /\ next.doc = k.doc
        /\ next.handle = k.handle /\ next.step = "saving" /\ next.size = k.size
    <3> HIDE DEF k
    <3>1. QED
      BY <2>1 DEF CallState
  <2>3. call' = [call EXCEPT ![c] = next]
    OBVIOUS
  <2> HIDE DEF next
  <2>4. call'[c] = next /\ call' \in [Callers -> CallState] /\ \A b \in Callers : b # c => call'[b] = call[b]
    BY <2>1, <2>2, <2>3
  <2>5. QED
    BY <2>2, <2>4
<1>6. ASSUME NEW b \in Callers, NEW m \in Names, NEW d \in Docs, NEW l \in 0..MaxSize,
             WillBe(b, m, d, l)
      PROVE  WillBe(b, m, d, l)'
  <2>1. byName[m] \in StoreIds /\ byName'[m] = byName[m]
    BY <1>1, <1>6, TypeFacts DEF WillBe, Carries
  <2>2. Carries(ss, byName[m], m, b, d, l)
    BY <1>6, <2>1 DEF WillBe, Carries
  <2>3. jobs \subseteq Job
    BY <1>1 DEF Types
  <2>4. QED
    BY <1>4, <2>1, <2>2, <2>3, SaveKeeps
<1>7. Types'
  BY <1>1, <1>4, <1>5 DEF Types
<1>8. MapsFit'
  <2>1. \A m \in Names : byName[m] # 0 => stores'[byName[m]].label = m
    BY <1>1, <1>4, TypeFacts DEF MapsFit, Grows
  <2>2. \A j \in jobs' : byName[j.file] = j.store /\ j.payload.label = j.file
    BY <1>1, <1>4 DEF MapsFit, Grows
  <2>3. QED
    BY <1>1, <2>1, <2>2 DEF MapsFit
<1>9. CallsFit'
  <2> SUFFICES ASSUME NEW b \in Callers
               PROVE  /\ call'[b].handle # 0 <=> call'[b].op \in OnCollection
                      /\ call'[b].op \in OnCollection =>
                           /\ call'[b].name \in Names /\ call'[b].doc \in Docs
                           /\ instances[call'[b].name] = call'[b].handle
                           /\ call'[b].step # "idle"
                      /\ call'[b].op \in {"rename", "disconnect"} => call'[b].step = "saving"
                      /\ call'[b].op = "rename" =>
                           call'[b].name \in Names /\ call'[b].to \in Names /\ byName[call'[b].name] = 0
                      /\ call'[b].op \in OnCollection \union {"rename", "disconnect", "none"}
                      /\ call'[b].op = "none" => call'[b].step = "idle" /\ call'[b].size = 0
    BY DEF CallsFit
  <2>1. CASE b # c
    BY <1>1, <1>5, <2>1 DEF CallsFit
  <2>2. CASE b = c
    BY <1>1, <1>5, <2>2 DEF CallsFit, OnCollection
  <2>3. QED
    BY <2>1, <2>2
<1>10. Offline'
  BY <1>1 DEF Offline
<1>11. SavesCarry'
  <2> SUFFICES ASSUME NEW b \in Callers, call'[b].op \in OnCollection,
                      call'[b].step = "saving", call'[b].size > 0
               PROVE  WillBe(b, call[b].name, call[b].doc, call[b].size)'
    BY DEF SavesCarry
  <2>1. CASE b = c
    <3>1. PICK m \in names, e \in Docs, l \in 0..MaxSize : m = n /\ e = k.doc /\ l = k.size
      BY <1>2
    <3>2. m \in Names /\ byName'[m] \in StoreIds /\ ss[byName'[m]].docs[e] >= l
      BY <1>2, <3>1
    <3>3. WillBe(c, m, e, l)'
      BY <1>4, <3>2, SaveMakes
    <3>4. call'[b].name = m /\ call'[b].doc = e /\ call'[b].size = l
      BY <1>5, <2>1, <3>1
    <3>5. QED
      BY <2>1, <3>3, <3>4
  <2>2. CASE b # c
    <3>1. call'[b] = call[b] /\ call[b].op \in OnCollection /\ call[b].step = "saving" /\ call[b].size > 0
      BY <1>5, <2>2
    <3>2. WillBe(b, call[b].name, call[b].doc, call[b].size)
      BY <1>1, <3>1 DEF SavesCarry
    <3>3. call[b].name \in Names /\ call[b].doc \in Docs /\ call[b].size \in 0..MaxSize
      BY <1>1, <3>1, TypeFacts DEF CallsFit
    <3>4. QED
      BY <1>6, <3>1, <3>2, <3>3
  <2>3. QED
    BY <2>1, <2>2
<1>12. LeavesLast'
  <2>1. \A b \in Callers : call'[b].op # "disconnect"
    BY <1>3, <1>5
  <2>2. QED
    BY <2>1 DEF LeavesLast
<1>13. Placed'
  <2> SUFFICES ASSUME NEW d \in Docs, acked[d] > 0 PROVE HasPlace(d)'
    BY DEF Placed
  <2>1. acked[d] \in 0..MaxSize
    BY <1>1, TypeFacts
  <2>2. PICK m \in Names : /\ disk[m] # NoFile /\ disk[m].docs[d] >= acked[d] /\ Secure(m, d)
    BY <1>1 DEF Placed, HasPlace
  <2>3. CASE byName[m] = 0
    <3>1. ASSUME NEW b \in Callers, call'[b].op = "rename", call'[b].name = m
          PROVE  WillBe(b, call[b].to, d, acked[d])'
      <4>1. b # c /\ call'[b] = call[b]
        BY <1>5, <3>1 DEF OnCollection
      <4>2. WillBe(b, call[b].to, d, acked[d]) /\ call[b].to \in Names
        BY <1>1, <2>2, <2>3, <3>1, <4>1 DEF Secure, CallsFit
      <4>3. QED
        BY <1>6, <2>1, <4>1, <4>2
    <3>2. \A b \in Callers : call'[b].op = "rename" => call'[b].to = call[b].to
      BY <1>5 DEF OnCollection
    <3>3. QED
      BY <2>2, <2>3, <3>1, <3>2 DEF Secure, HasPlace
  <2>4. CASE byName[m] # 0
    <3>1. /\ byName[m] \in StoreIds /\ ss[byName[m]].docs[d] >= acked[d]
          /\ \A j \in jobs : j.store = byName[m] => j.payload.docs[d] >= acked[d]
      BY <1>1, <2>2, <2>4, TypeFacts DEF Secure
    <3>2. Secure(m, d)'
      BY <1>4, <2>4, <3>1 DEF Secure, Grows
    <3>3. QED
      BY <2>2, <3>2 DEF HasPlace
  <2>5. QED
    BY <2>3, <2>4
<1>14. QED
  BY <1>4, <1>7, <1>8, <1>9, <1>10, <1>11, <1>12, <1>13 DEF Inv, Shape

\* A call marks its collection, and saves it or not.
LEMMA StepMark ==
  ASSUME Inv, UnsavedIsHeld, NEW c \in Callers, Mark(c)
  PROVE  Inv'
<1> DEFINE k == call[c]
           n == k.name
           ss == MarkDirty(stores, n)
<1>1. Types /\ MapsFit /\ CallsFit /\ Offline
  BY DEF Inv, Shape
<1>2. k.op \in OnCollection /\ connection = "on"
  BY <1>1 DEF Mark, CallsFit, Offline
<1>3. /\ n \in Names /\ k.doc \in Docs /\ byName[n] \in StoreIds /\ byName[n] # 0
      /\ handles[k.handle].name = n
  BY <1>1, <1>2, CallHolds, IdsAreNumbers
<1>4. /\ UNCHANGED <<setup, handles, byName, instances, disk, connection, timer, acked>>
      /\ k.step = "changed"
      /\ \/ /\ stores' = ss
            /\ call' = [call EXCEPT ![c] = IF k.op = "put" THEN Idle ELSE [k EXCEPT !.step = "marked"]]
            /\ UNCHANGED <<jobs, waiting>>
         \/ Save(c, {n}, ss) /\ call' = [call EXCEPT ![c].step = "saving"]
  BY <1>3 DEF Mark
<1>5. /\ ss \in [StoreIds -> Store]
      /\ \A x \in StoreIds : /\ ss[x].docs = stores[x].docs /\ ss[x].label = stores[x].label
                             /\ ss[x].saving = stores[x].saving
                             /\ ss[x].pending = stores[x].pending
  BY <1>1, <1>3, MarkDirtyDoes
<1>6. stores[byName[n]].docs[k.doc] >= k.size
  BY <1>4 DEF UnsavedIsHeld
<1>7. CASE Save(c, {n}, ss) /\ call' = [call EXCEPT ![c].step = "saving"]
  <2> HIDE DEF ss
  <2>1. {n} \in SUBSET Names /\ n \in {n}
    BY <1>3
  <2>2. QED
    BY <1>2, <1>4, <1>5, <1>6, <1>7, <2>1, StepSaves
<1>8. CASE /\ stores' = ss
           /\ call' = [call EXCEPT ![c] = IF k.op = "put" THEN Idle ELSE [k EXCEPT !.step = "marked"]]
           /\ UNCHANGED <<jobs, waiting>>
  <2> HIDE DEF ss
  <2>1. call \in [Callers -> CallState] /\ k \in CallState
    BY <1>1 DEF Types
  <2> DEFINE next == [k EXCEPT !.step = "marked"]
  <2>2. /\ next \in CallState /\ next.op = k.op /\ next.name = n /\ next.doc = k.doc
        /\ next.handle = k.handle /\ next.step = "marked"
    <3> HIDE DEF k
    <3>1. QED
      BY <2>1 DEF CallState
  <2>3. /\ call' \in [Callers -> CallState] /\ (call'[c] = Idle \/ call'[c] = next)
        /\ \A b \in Callers \ {c} : call'[b] = call[b]
    BY <1>8, <2>1, <2>2, IdleIsACall
  <2>4. \A x \in StoreIds, d \in Docs \ {} : stores'[x].docs[d] >= stores[x].docs[d]
    BY <1>1, <1>5, <1>8, TypeFacts
  <2>5. acked' \in Numbers /\ \A d \in Docs : acked'[d] = IF d \in {} THEN 0 ELSE acked[d]
    BY <1>1, <1>4 DEF Types
  <2>6. \A b \in Callers \ {c} :
          /\ call'[b].op = call[b].op /\ call'[b].name = call[b].name
          /\ call'[b].to = call[b].to /\ call'[b].doc = call[b].doc
          /\ call'[b].handle = call[b].handle /\ call'[b].step = call[b].step
          /\ call'[b].size = IF call[b].doc \in {} THEN 0 ELSE call[b].size
    BY <2>3
  <2>7. \/ call'[c] = Idle
        \/ /\ call'[c].op = k.op /\ call'[c].name = k.name /\ call'[c].doc = k.doc
           /\ call'[c].handle = k.handle /\ call'[c].step \in {"changed", "marked"}
    BY <2>2, <2>3
  <2>8. {} \in SUBSET Docs
    OBVIOUS
  <2>9. QED
    <3>1. InMemory(c, {})
      BY <1>5, <1>8, <2>3, <2>4, <2>5, <2>6, <2>7 DEF InMemory
    <3>2. QED
      BY <1>2, <1>4, <1>8, <2>8, <3>1, StepInMemory
<1>9. QED
  BY <1>4, <1>7, <1>8

\* seed() saves everything.
LEMMA StepSaveSeed ==
  ASSUME Inv, UnsavedIsHeld, NEW c \in Callers, SaveSeed(c)
  PROVE  Inv'
<1>1. Types /\ MapsFit /\ CallsFit /\ Offline
  BY DEF Inv, Shape
<1>2. call[c].op \in OnCollection /\ connection = "on"
  BY <1>1 DEF SaveSeed, CallsFit, Offline
<1>3. call[c].name \in Names /\ Names \in SUBSET Names
  BY <1>1, <1>2, CallHolds
<1>4. stores \in [StoreIds -> Store]
  BY <1>1 DEF Types
<1>5. stores[byName[call[c].name]].docs[call[c].doc] >= call[c].size
  BY DEF SaveSeed, UnsavedIsHeld
<1>6. QED
  BY <1>2, <1>3, <1>4, <1>5, StepSaves DEF SaveSeed

\* A crash leaves the files.
LEMMA StepCrash ==
  ASSUME Inv, Crash
  PROVE  Inv'
<1>1. /\ byName' = [n \in Names |-> 0] /\ instances' = [n \in Names |-> 0]
      /\ connection' = "off" /\ timer' = "none" /\ jobs' = {} /\ waiting' = {}
      /\ call' = [c \in Callers |-> Idle]
      /\ stores' = [s \in StoreIds |-> NewStore(NoCall)]
      /\ handles' = [h \in HandleIds |-> NoHandle]
      /\ UNCHANGED <<setup, disk, acked>>
  BY DEF Crash, Cleared
<1>2. Types /\ MapsFit /\ Placed
  BY DEF Inv, Shape
<1>3. NewStore(NoCall) \in Store /\ NoHandle \in Handle /\ NewStore(NoCall).saving = FALSE
  <2>1. Empty \in Numbers
    BY RegistryAssumption DEF Empty, Numbers
  <2>2. QED
    BY <2>1 DEF NewStore, NoHandle, Store, Handle
<1>4. Types'
  BY <1>1, <1>2, <1>3, IdleIsACall DEF Types
<1>5. OneWrite'
  BY <1>1, <1>3 DEF OneWrite
<1>6. MapsFit'
  BY <1>1, <1>2 DEF MapsFit
<1>7. \A c \in Callers : call'[c] = Idle
  BY <1>1
<1>8. CallsFit' /\ Offline' /\ SavesCarry' /\ LeavesLast'
  BY <1>1, <1>7 DEF CallsFit, Offline, SavesCarry, LeavesLast, Idle, OnCollection
<1>9. Placed'
  BY <1>1, <1>2 DEF Placed, HasPlace
<1>10. QED
  BY <1>4, <1>5, <1>6, <1>8, <1>9 DEF Inv, Shape

\* What a sweep removes is promised to nobody.
LEMMA StepSweep ==
  ASSUME Inv, NEW expired \in SUBSET Mortal, Sweep(expired)
  PROVE  Inv'
<1> DEFINE swept == {s \in Range(byName) \ {0} : \E d \in expired : stores[s].docs[d] > 0}
           rest(s) == [d \in Docs |-> IF d \in expired THEN 0 ELSE stores[s].docs[d]]
<1>1. /\ timer = "current" /\ connection = "on"
      /\ stores' = [s \in StoreIds |-> IF s \notin swept THEN stores[s]
                       ELSE [stores[s] EXCEPT !.statsDirty = TRUE, !.docs = rest(s)]]
      /\ acked' = [d \in Docs |-> IF d \in expired THEN 0 ELSE acked[d]]
      /\ call' = [c \in Callers |->
                    IF call[c].doc \in expired THEN [call[c] EXCEPT !.size = 0] ELSE call[c]]
      /\ UNCHANGED <<setup, handles, byName, instances, disk, jobs, waiting, connection, timer>>
  <2>1. \A s \in StoreIds :
          [stores[s] EXCEPT !.statsDirty = TRUE,
                            !.docs = [d \in Docs |-> IF d \in expired THEN 0 ELSE @[d]]]
          = [stores[s] EXCEPT !.statsDirty = TRUE, !.docs = rest(s)]
    OBVIOUS
  <2>2. QED
    BY <2>1 DEF Sweep, Release, Released
<1>2. Types /\ OneWrite /\ MapsFit /\ CallsFit /\ Offline /\ SavesCarry /\ LeavesLast /\ Placed
  BY DEF Inv, Shape
<1>3. \A s \in StoreIds : rest(s) \in Numbers /\ \A d \in Docs : d \notin expired => rest(s)[d] = stores[s].docs[d]
  BY <1>2, TypeFacts DEF Numbers
<1> HIDE DEF rest, swept
<1>4. \A s \in StoreIds : /\ stores'[s] \in Store /\ stores'[s].label = stores[s].label
                          /\ stores'[s].saving = stores[s].saving
                          /\ stores'[s].pending = stores[s].pending
                          /\ \A d \in Docs : d \notin expired => stores'[s].docs[d] = stores[s].docs[d]
  <2> TAKE s \in StoreIds
  <2>1. stores[s] \in Store
    BY <1>2 DEF Types
  <2>2. CASE s \notin swept
    BY <1>1, <2>1, <2>2
  <2>3. CASE s \in swept
    <3>1. stores'[s] = [stores[s] EXCEPT !.statsDirty = TRUE, !.docs = rest(s)]
      BY <1>1, <2>3
    <3>2. QED
      BY <1>3, <2>1, <3>1 DEF Store
  <2>4. QED
    BY <2>2, <2>3
<1>5. \A c \in Callers :
        /\ call'[c] \in CallState
        /\ call'[c].op = call[c].op /\ call'[c].name = call[c].name
        /\ call'[c].to = call[c].to /\ call'[c].doc = call[c].doc
        /\ call'[c].handle = call[c].handle /\ call'[c].step = call[c].step
        /\ call'[c].size = IF call[c].doc \in expired THEN 0 ELSE call[c].size
  <2> TAKE c \in Callers
  <2>1. call[c] \in CallState
    BY <1>2 DEF Types
  <2>2. call'[c] = IF call[c].doc \in expired THEN [call[c] EXCEPT !.size = 0] ELSE call[c]
    BY <1>1
  <2>3. 0 \in 0..MaxSize
    BY <1>2, TypeFacts
  <2>4. QED
    BY <2>1, <2>2, <2>3 DEF CallState
<1>6. acked' \in Numbers /\ \A d \in Docs : acked'[d] = IF d \in expired THEN 0 ELSE acked[d]
  <2>1. acked' = [d \in Docs |-> IF d \in expired THEN 0 ELSE acked[d]]
    BY <1>1
  <2>2. QED
    BY <1>2, <2>1, TypeFacts DEF Numbers
<1>7. Types'
  <2>1. stores' \in [StoreIds -> Store] /\ call' \in [Callers -> CallState]
    BY <1>1, <1>4, <1>5
  <2>2. QED
    BY <1>1, <1>2, <1>6, <2>1 DEF Types
<1>8. OneWrite'
  BY <1>1, <1>2, <1>4, TypeFacts DEF OneWrite
<1>9. MapsFit'
  BY <1>1, <1>2, <1>4, TypeFacts DEF MapsFit
<1>10. CallsFit' /\ Offline'
  <2>1. ASSUME NEW c \in Callers, call[c].op = "none" PROVE call'[c].size = 0
    BY <1>2, <1>5, <2>1 DEF CallsFit
  <2>2. CallsFit'
    <3>1. byName' = byName /\ instances' = instances
      BY <1>1
    <3>2. QED
      BY <1>2, <1>5, <2>1, <3>1 DEF CallsFit
  <2>3. Offline'
    BY <1>1, <1>2 DEF Offline
  <2>4. QED
    BY <2>2, <2>3
<1>11. ASSUME NEW b \in Callers, NEW n \in Names, NEW d \in Docs \ expired, NEW k \in Nat,
              WillBe(b, n, d, k)
       PROVE  WillBe(b, n, d, k)'
  <2>1. byName[n] \in StoreIds /\ stores[byName[n]].docs[d] >= k
    BY <1>2, <1>11, TypeFacts DEF WillBe, Carries
  <2>2. QED
    BY <1>1, <1>4, <1>11, <2>1, CarriesStays
<1>12. SavesCarry'
  <2> SUFFICES ASSUME NEW c \in Callers, call'[c].op \in OnCollection,
                      call'[c].step = "saving", call'[c].size > 0
               PROVE  WillBe(c, call[c].name, call[c].doc, call[c].size)'
    BY DEF SavesCarry
  <2>1. call[c].doc \notin expired /\ call'[c].size = call[c].size
    BY <1>5
  <2>2. WillBe(c, call[c].name, call[c].doc, call[c].size)
    BY <1>2, <1>5, <2>1 DEF SavesCarry
  <2>3. call[c].name \in Names /\ call[c].doc \in Docs /\ call[c].size \in Nat
    BY <1>2, <1>5, TypeFacts DEF CallsFit
  <2>4. QED
    BY <1>5, <1>11, <2>1, <2>2, <2>3
<1>13. LeavesLast'
  <2>1. \A c \in Callers : call'[c].op # "disconnect"
    BY <1>1, <1>2, <1>5 DEF LeavesLast
  <2>2. QED
    BY <2>1 DEF LeavesLast
<1>14. Placed'
  <2> SUFFICES ASSUME NEW d \in Docs, acked'[d] > 0 PROVE HasPlace(d)'
    BY DEF Placed
  <2>1. d \notin expired /\ acked'[d] = acked[d] /\ acked[d] > 0 /\ acked[d] \in Nat
    BY <1>2, <1>6, TypeFacts
  <2>2. PICK m \in Names : /\ disk[m] # NoFile /\ disk[m].docs[d] >= acked[d] /\ Secure(m, d)
    BY <1>1, <1>2, <2>1 DEF Placed, HasPlace
  <2>3. Secure(m, d)'
    <3>1. CASE byName[m] = 0
      <4>1. ASSUME NEW b \in Callers, call'[b].op = "rename", call'[b].name = m
            PROVE  WillBe(b, call[b].to, d, acked[d])'
        <5>1. WillBe(b, call[b].to, d, acked[d]) /\ call[b].to \in Names
          BY <1>2, <1>5, <2>2, <3>1, <4>1 DEF Secure, CallsFit
        <5>2. QED
          BY <1>5, <1>11, <2>1, <5>1
      <4>2. QED
        BY <1>1, <3>1, <4>1 DEF Secure
    <3>2. CASE byName[m] # 0
      <4>1. stores'[byName[m]].docs[d] = stores[byName[m]].docs[d]
        BY <1>2, <1>4, <2>1, <3>2, TypeFacts
      <4>2. QED
        BY <1>1, <2>1, <2>2, <3>2, <4>1 DEF Secure
    <3>3. QED
      BY <3>1, <3>2
  <2>4. QED
    BY <1>1, <2>1, <2>2, <2>3 DEF HasPlace
<1>15. QED
  BY <1>7, <1>8, <1>9, <1>10, <1>12, <1>13, <1>14 DEF Inv, Shape

\* get() finds the instance of the name, or makes one over its store.
LEMMA GetDoes ==
  ASSUME Shape, NEW name \in Names, Get(name), UNCHANGED <<jobs, waiting, disk>>
  PROVE  /\ stores' \in [StoreIds -> Store] /\ handles' \in [HandleIds -> Handle]
         /\ byName' \in [Names -> StoreIds \union {0}]
         /\ instances' \in [Names -> HandleIds \union {0}]
         /\ instances'[name] # 0
         /\ instances[name] # 0 => instances'[name] = instances[name]
         /\ \A n \in Names : n # name => byName'[n] = byName[n] /\ instances'[n] = instances[n]
         /\ \A n \in Names : byName[n] # 0 =>
              byName'[n] = byName[n] /\ stores'[byName[n]] = stores[byName[n]]
         /\ OneWrite' /\ MapsFit'
<1>1. Types /\ OneWrite /\ MapsFit /\ CallsFit
  BY DEF Shape
<1>2. CASE instances[name] # 0
  <2>1. UNCHANGED <<stores, handles, byName, instances>>
    BY <1>2 DEF Get, memory
  <2>2. QED
    BY <1>1, <1>2, <2>1 DEF Types, OneWrite, MapsFit
<1>3. CASE instances[name] = 0
  <2> DEFINE s == StoreOf(name)
             h == FreeHandle
  <2>1. /\ stores' = IF byName[name] # 0 THEN stores ELSE [stores EXCEPT ![s] = NewStore(name)]
        /\ byName' = [byName EXCEPT ![name] = s]
        /\ handles' = [handles EXCEPT ![h] = [store |-> s, name |-> name]]
        /\ instances' = [instances EXCEPT ![name] = h]
    BY <1>3 DEF Get
  <2>2. h \in HandleIds /\ h \notin Held /\ h # 0
    BY HandleIsFree, IdsAreNumbers
  <2>3. \A n \in Names : instances[n] # h
    BY <1>1, <2>2 DEF Held, Range, Types
  <2>4. s \in StoreIds /\ s # 0 /\ (byName[name] # 0 => s = byName[name])
    BY <1>1, StoreIsFree, IdsAreNumbers, TypeFacts DEF StoreOf
  <2>5. byName[name] = 0 => /\ \A n \in Names : byName[n] # s
                            /\ \A j \in jobs : j.store # s
    <3>1. ASSUME byName[name] = 0 PROVE s \notin LiveStores
      BY <3>1, StoreIsFree DEF StoreOf
    <3>2. (\A n \in Names : byName[n] \in LiveStores) /\ \A j \in jobs : j.store \in LiveStores
      BY <1>1 DEF LiveStores, Range, Types
    <3>3. QED
      BY <3>1, <3>2
  <2> HIDE DEF s, h
  <2>6. /\ NewStore(name) \in Store /\ NewStore(name).label = name /\ ~ NewStore(name).saving
        /\ [store |-> s, name |-> name] \in Handle
    <3>1. Empty \in Numbers
      BY RegistryAssumption DEF Empty, Numbers
    <3>2. QED
      BY <2>4, <3>1 DEF NewStore, Store, Handle
  <2>7. /\ stores' \in [StoreIds -> Store] /\ handles' \in [HandleIds -> Handle]
        /\ byName' \in [Names -> StoreIds \union {0}]
        /\ instances' \in [Names -> HandleIds \union {0}]
    BY <1>1, <2>1, <2>2, <2>4, <2>6 DEF Types
  <2>8. /\ byName'[name] = s /\ instances'[name] = h
        /\ handles'[h] = [store |-> s, name |-> name]
        /\ \A n \in Names : n # name => byName'[n] = byName[n] /\ instances'[n] = instances[n]
        /\ \A g \in HandleIds : g # h => handles'[g] = handles[g]
        /\ stores'[s].label = name
        /\ \A x \in StoreIds : x # s => stores'[x] = stores[x]
        /\ byName[name] # 0 => stores' = stores
        /\ byName[name] = 0 => ~ stores'[s].saving
    <3>1. byName[name] # 0 => stores[s].label = name
      BY <1>1, <2>4 DEF MapsFit
    <3>2. QED
      BY <1>1, <2>1, <2>2, <2>4, <2>6, <3>1 DEF Types
  <2>9. \A n \in Names : byName[n] # 0 => byName'[n] = byName[n] /\ stores'[byName[n]] = stores[byName[n]]
    BY <1>1, <2>4, <2>5, <2>8, TypeFacts
  <2>10. OneWrite'
    <3>1. \A j \in jobs : stores'[j.store] = stores[j.store]
      BY <1>1, <2>5, <2>8, TypeFacts
    <3>2. \A x \in StoreIds : stores'[x].saving => stores[x].saving
      BY <2>8
    <3>3. QED
      BY <1>1, <3>1, <3>2 DEF OneWrite
  <2>11. MapsFit'
    <3>1. \A n \in Names : byName'[n] # 0 => stores'[byName'[n]].label = n
      BY <1>1, <2>8, <2>9 DEF MapsFit
    <3>2. ASSUME NEW n \in Names, instances'[n] # 0
          PROVE  byName'[n] # 0 /\ handles'[instances'[n]] = [store |-> byName'[n], name |-> n]
      <4>1. CASE n = name
        BY <2>4, <2>8, <4>1
      <4>2. CASE n # name
        <5>1. instances'[n] = instances[n] /\ instances[n] \in HandleIds /\ byName'[n] = byName[n]
          BY <1>1, <2>8, <3>2, <4>2 DEF Types
        <5>2. handles'[instances[n]] = handles[instances[n]]
          BY <2>3, <2>8, <5>1
        <5>3. QED
          BY <1>1, <3>2, <5>1, <5>2 DEF MapsFit
      <4>3. QED
        BY <4>1, <4>2
    <3>3. \A j \in jobs : byName'[j.file] = j.store
      BY <1>1, <2>9, TypeFacts, IdsAreNumbers DEF MapsFit
    <3>4. QED
      BY <1>1, <3>1, <3>2, <3>3 DEF MapsFit
  <2>12. QED
    BY <1>3, <2>2, <2>7, <2>8, <2>9, <2>10, <2>11
<1>4. QED
  BY <1>2, <1>3

\* A call on a collection begins with the instance of its name.
LEMMA StepAsk ==
  ASSUME Inv, setup.alone, NEW c \in Callers, NEW op \in {"write", "remove", "put"},
         NEW name \in Names, NEW d \in Docs, Ask(c, op, name, d)
  PROVE  Inv'
<1> DEFINE entered == [Idle EXCEPT !.op = op, !.name = name, !.doc = d,
                         !.handle = instances'[name], !.step = Entered]
<1>1. /\ call[c].op = "none" /\ MayUse(name) /\ Get(name)
      /\ call' = [call EXCEPT ![c] = entered]
      /\ connection' = IF connection = "off" THEN "loading" ELSE connection
      /\ UNCHANGED <<setup, disk, jobs, waiting, timer, acked>>
  BY DEF Ask, Calls
<1>2. Shape /\ Types /\ OneWrite /\ MapsFit /\ CallsFit /\ Offline /\ SavesCarry /\ LeavesLast /\ Placed
  BY DEF Inv, Shape
<1>3. /\ stores' \in [StoreIds -> Store] /\ handles' \in [HandleIds -> Handle]
      /\ byName' \in [Names -> StoreIds \union {0}]
      /\ instances' \in [Names -> HandleIds \union {0}]
      /\ instances'[name] # 0
      /\ instances[name] # 0 => instances'[name] = instances[name]
      /\ \A n \in Names : n # name => byName'[n] = byName[n] /\ instances'[n] = instances[n]
      /\ \A n \in Names : byName[n] # 0 =>
           byName'[n] = byName[n] /\ stores'[byName[n]] = stores[byName[n]]
      /\ OneWrite' /\ MapsFit'
  BY <1>1, <1>2, GetDoes
<1>4. /\ \A b \in Callers : call[b].op # "disconnect"
      /\ \A b \in Callers : call[b].op = "rename" => call[b].name # name
      /\ connection = "on" /\ byName[name] = 0 => disk[name] = NoFile
  BY <1>1 DEF MayUse, Leaving
<1>5. /\ entered \in CallState /\ entered.op = op /\ entered.name = name /\ entered.doc = d
      /\ entered.handle = instances'[name] /\ entered.step = Entered /\ entered.size = 0
      /\ Entered \in {"ready", "asked"} /\ (Entered = "ready" <=> connection = "on")
  BY <1>3, IdleIsACall DEF Idle, CallState, Entered, Ops
<1> HIDE DEF entered
<1>6. call'[c] = entered /\ \A b \in Callers : b # c => call'[b] = call[b]
  BY <1>1, <1>2 DEF Types
<1>7. connection' = "on" <=> connection = "on"
  BY <1>1
<1>8. Types'
  BY <1>1, <1>2, <1>3, <1>5 DEF Types
<1>9. CallsFit'
  <2> SUFFICES ASSUME NEW b \in Callers
               PROVE  /\ call'[b].handle # 0 <=> call'[b].op \in OnCollection
                      /\ call'[b].op \in OnCollection =>
                           /\ call'[b].name \in Names /\ call'[b].doc \in Docs
                           /\ instances'[call'[b].name] = call'[b].handle
                           /\ call'[b].step # "idle"
                      /\ call'[b].op \in {"rename", "disconnect"} => call'[b].step = "saving"
                      /\ call'[b].op = "rename" =>
                           call'[b].name \in Names /\ call'[b].to \in Names /\ byName'[call'[b].name] = 0
                      /\ call'[b].op \in OnCollection \union {"rename", "disconnect", "none"}
                      /\ call'[b].op = "none" => call'[b].step = "idle" /\ call'[b].size = 0
    BY DEF CallsFit
  <2>1. CASE b = c
    BY <1>3, <1>5, <1>6, <2>1 DEF OnCollection
  <2>2. CASE b # c
    <3>1. call'[b] = call[b]
      BY <1>6, <2>2
    <3>2. call[b].op \in OnCollection => instances'[call[b].name] = instances[call[b].name]
      BY <1>2, <1>3 DEF CallsFit
    <3>3. call[b].op = "rename" => byName'[call[b].name] = byName[call[b].name]
      BY <1>2, <1>3, <1>4 DEF CallsFit
    <3>4. QED
      BY <1>2, <3>1, <3>2, <3>3 DEF CallsFit
  <2>3. QED
    BY <2>1, <2>2
<1>10. Offline'
  BY <1>1, <1>2, <1>5, <1>6, <1>7 DEF Offline
<1>11. ASSUME NEW b \in Callers, NEW n \in Names, NEW e \in Docs, NEW k \in Nat, WillBe(b, n, e, k)
       PROVE  WillBe(b, n, e, k)'
  <2>1. byName[n] # 0 /\ stores[byName[n]].docs[e] >= k
    BY <1>11 DEF WillBe, Carries
  <2>2. QED
    BY <1>1, <1>3, <1>11, <2>1, CarriesStays
<1>12. SavesCarry'
  <2> SUFFICES ASSUME NEW b \in Callers, call'[b].op \in OnCollection,
                      call'[b].step = "saving", call'[b].size > 0
               PROVE  WillBe(b, call[b].name, call[b].doc, call[b].size)'
    BY DEF SavesCarry
  <2>1. call'[b] = call[b]
    BY <1>5, <1>6
  <2>2. QED
    BY <1>2, <1>11, <2>1, TypeFacts DEF SavesCarry, CallsFit
<1>13. LeavesLast'
  <2>1. \A b \in Callers : call'[b].op # "disconnect"
    BY <1>4, <1>5, <1>6
  <2>2. QED
    BY <2>1 DEF LeavesLast
<1>14. Placed'
  <2> SUFFICES ASSUME NEW e \in Docs, acked[e] > 0 PROVE HasPlace(e)'
    BY <1>1 DEF Placed
  <2>1. PICK m \in Names : /\ disk[m] # NoFile /\ disk[m].docs[e] >= acked[e]
                           /\ connection = "on" => Secure(m, e)
    BY <1>2 DEF Placed, HasPlace
  <2>2. ASSUME connection = "on" PROVE Secure(m, e)'
    <3>1. CASE byName[m] # 0
      <4>1. byName'[m] = byName[m] /\ stores'[byName[m]] = stores[byName[m]]
        BY <1>3, <3>1
      <4>2. QED
        BY <1>1, <2>1, <2>2, <3>1, <4>1 DEF Secure
    <3>2. CASE byName[m] = 0
      <4>1. byName'[m] = 0
        BY <1>3, <1>4, <2>1, <2>2, <3>2
      <4>2. ASSUME NEW b \in Callers, call'[b].op = "rename", call'[b].name = m
            PROVE  WillBe(b, call[b].to, e, acked[e])'
        <5>1. call'[b] = call[b]
          BY <1>5, <1>6, <4>2
        <5>2. WillBe(b, call[b].to, e, acked[e]) /\ call[b].to \in Names /\ acked[e] \in Nat
          BY <1>2, <2>1, <2>2, <3>2, <4>2, <5>1, TypeFacts DEF Secure, CallsFit
        <5>3. QED
          BY <1>1, <1>11, <5>1, <5>2
      <4>3. QED
        BY <1>1, <4>1, <4>2 DEF Secure
    <3>3. QED
      BY <3>1, <3>2
  <2>3. QED
    BY <1>1, <1>7, <2>1, <2>2 DEF HasPlace
<1>15. QED
  BY <1>3, <1>8, <1>9, <1>10, <1>12, <1>13, <1>14 DEF Inv, Shape

\* createCollection() makes a store for a name that nobody uses.
LEMMA StepCreate ==
  ASSUME Inv, setup.alone, NEW name \in Names, Create(name)
  PROVE  Inv'
<1> DEFINE s == FreeStore
           h == FreeHandle
<1>1. /\ connection = "off" /\ ~ Busy(name)
      /\ stores' = [stores EXCEPT ![s] = NewStore(name)]
      /\ byName' = [byName EXCEPT ![name] = s]
      /\ handles' = [handles EXCEPT ![h] = [store |-> s, name |-> name]]
      /\ instances' = [instances EXCEPT ![name] = h]
      /\ UNCHANGED <<setup, disk, jobs, waiting, call, connection, timer, acked>>
  BY DEF Create
<1>2. Shape /\ Types /\ OneWrite /\ MapsFit /\ CallsFit /\ Offline /\ Placed
  BY DEF Inv, Shape
<1>3. h \in HandleIds /\ h # 0 /\ \A n \in Names : instances[n] # h
  BY <1>2, HandleIsFree, IdsAreNumbers DEF Held, Range, Types
<1>4. s \in StoreIds /\ s # 0 /\ \A n \in Names : byName[n] # s
  BY <1>2, StoreIsFree, IdsAreNumbers DEF LiveStores, Range, Types
<1> HIDE DEF s, h
<1>5. /\ NewStore(name) \in Store /\ NewStore(name).label = name /\ ~ NewStore(name).saving
      /\ [store |-> s, name |-> name] \in Handle
  <2>1. Empty \in Numbers
    BY RegistryAssumption DEF Empty, Numbers
  <2>2. QED
    BY <1>4, <2>1 DEF NewStore, Store, Handle
<1>6. Types'
  BY <1>1, <1>2, <1>3, <1>4, <1>5 DEF Types
<1>7. /\ jobs = {} /\ \A c \in Callers : call[c].step \in {"idle", "asked"}
  BY <1>1, <1>2 DEF Offline
<1>8. /\ byName'[name] = s /\ instances'[name] = h
      /\ handles'[h] = [store |-> s, name |-> name]
      /\ \A n \in Names : n # name => byName'[n] = byName[n] /\ instances'[n] = instances[n]
      /\ \A g \in HandleIds : g # h => handles'[g] = handles[g]
      /\ stores'[s] = NewStore(name)
      /\ \A x \in StoreIds : x # s => stores'[x] = stores[x]
  BY <1>1, <1>2, <1>3, <1>4 DEF Types
<1>9. OneWrite'
  <2>1. \A x \in StoreIds : ~ stores[x].saving
    BY <1>2, <1>7 DEF OneWrite
  <2>2. \A x \in StoreIds : ~ stores'[x].saving
    BY <1>5, <1>8, <2>1
  <2>3. QED
    BY <1>1, <1>2, <1>7, <2>2 DEF OneWrite
<1>10. MapsFit'
  <2>1. \A n \in Names : byName'[n] # 0 => stores'[byName'[n]].label = n
    BY <1>2, <1>4, <1>5, <1>8, TypeFacts DEF MapsFit
  <2>2. ASSUME NEW n \in Names, instances'[n] # 0
        PROVE  byName'[n] # 0 /\ handles'[instances'[n]] = [store |-> byName'[n], name |-> n]
    <3>1. CASE n = name
      BY <1>4, <1>8, <3>1
    <3>2. CASE n # name
      <4>1. instances'[n] = instances[n] /\ instances[n] \in HandleIds /\ byName'[n] = byName[n]
        BY <1>2, <1>8, <2>2, <3>2 DEF Types
      <4>2. handles'[instances[n]] = handles[instances[n]]
        BY <1>3, <1>8, <4>1
      <4>3. QED
        BY <1>2, <2>2, <4>1, <4>2 DEF MapsFit
    <3>3. QED
      BY <3>1, <3>2
  <2>3. QED
    BY <1>1, <1>2, <1>7, <2>1, <2>2 DEF MapsFit
<1>11. CallsFit'
  <2>1. ASSUME NEW c \in Callers, call[c].op \in OnCollection PROVE call[c].name # name
    <3>1. call[c].handle # 0 /\ handles[call[c].handle].name = call[c].name
      BY <1>2, <2>1, CallHolds DEF CallsFit
    <3>2. QED
      BY <1>1, <3>1 DEF Busy
  <2>2. \A c \in Callers : call[c].op # "rename"
    BY <1>2, <1>7 DEF CallsFit
  <2>3. QED
    BY <1>1, <1>2, <1>8, <2>1, <2>2 DEF CallsFit
<1>12. Offline'
  BY <1>1, <1>2 DEF Offline
<1>13. SavesCarry' /\ LeavesLast'
  <2>1. \A c \in Callers : call[c].step # "saving" /\ call[c].op # "disconnect"
    BY <1>2, <1>7 DEF CallsFit
  <2>2. QED
    BY <1>1, <2>1 DEF SavesCarry, LeavesLast
<1>14. Placed'
  BY <1>1, <1>2 DEF Placed, HasPlace
<1>15. QED
  BY <1>6, <1>9, <1>10, <1>11, <1>12, <1>13, <1>14 DEF Inv, Shape

\* A seed empties a collection that nobody uses: its documents are promised to
\* nobody, and those of other collections stay.
LEMMA StepSeed ==
  ASSUME Inv, setup.alone, NEW c \in Callers, NEW name \in Names, NEW d \in Docs, Seed(c, name, d)
  PROVE  Inv'
<1> DEFINE s == byName[name]
           h == FreeHandle
           gone == {e \in Docs : stores[s].docs[e] > 0}
           entered == [Idle EXCEPT !.op = "seed", !.name = name, !.doc = d,
                                   !.handle = h, !.step = Entered]
<1>1. /\ call[c].op = "none" /\ MayUse(name) /\ ~ Busy(name) /\ s # 0
      /\ stores' = [stores EXCEPT ![s] = [stores[s] EXCEPT !.docs = Empty]]
      /\ handles' = [handles EXCEPT ![h] = [store |-> s, name |-> name]]
      /\ instances' = [instances EXCEPT ![name] = h]
      /\ acked' = [e \in Docs |-> IF e \in gone THEN 0 ELSE acked[e]]
      /\ call' = [[b \in Callers |-> IF call[b].doc \in gone THEN [call[b] EXCEPT !.size = 0]
                                     ELSE call[b]] EXCEPT ![c] = entered]
      /\ connection' = IF connection = "off" THEN "loading" ELSE connection
      /\ UNCHANGED <<setup, byName, disk, jobs, waiting, timer>>
  BY DEF Seed, Calls, Release, Released
<1>2. Shape /\ Types /\ OneWrite /\ MapsFit /\ CallsFit /\ Offline /\ SavesCarry /\ LeavesLast /\ Placed
  BY DEF Inv, Shape
<1>3. h \in HandleIds /\ h # 0 /\ \A n \in Names : instances[n] # h
  BY <1>2, HandleIsFree, IdsAreNumbers DEF Held, Range, Types
<1>4. /\ s \in StoreIds /\ \A n \in Names : byName[n] = s => n = name
      /\ \A j \in jobs : j.store # s
  <2>1. s \in StoreIds /\ stores[s].label = name
    BY <1>1, <1>2, TypeFacts DEF MapsFit
  <2>2. \A n \in Names : byName[n] = s => stores[s].label = n
    BY <1>1, <1>2 DEF MapsFit
  <2>3. QED
    BY <1>1, <2>1, <2>2 DEF Busy
<1>5. /\ \A b \in Callers : call[b].op # "disconnect"
      /\ \A b \in Callers : call[b].op \in OnCollection => call[b].name # name
  <2>1. ASSUME NEW b \in Callers, call[b].op \in OnCollection PROVE call[b].name # name
    <3>1. call[b].handle # 0 /\ handles[call[b].handle].name = call[b].name
      BY <1>2, <2>1, CallHolds DEF CallsFit
    <3>2. QED
      BY <1>1, <3>1 DEF Busy
  <2>2. QED
    BY <1>1, <2>1 DEF MayUse, Leaving
<1>6. /\ entered \in CallState /\ entered.op = "seed" /\ entered.name = name /\ entered.doc = d
      /\ entered.handle = h /\ entered.step = Entered /\ entered.size = 0
      /\ Entered \in {"ready", "asked"} /\ (Entered = "ready" <=> connection = "on")
  BY <1>3, IdleIsACall DEF Idle, CallState, Entered, Ops
<1>7. \A e \in Docs : e \notin gone => stores[s].docs[e] = 0
  BY <1>2, <1>4, TypeFacts
<1> HIDE DEF h, gone, entered
<1>8. /\ \A x \in StoreIds : /\ stores'[x] \in Store /\ stores'[x].label = stores[x].label
                             /\ stores'[x].saving = stores[x].saving
                             /\ x # s => stores'[x] = stores[x]
      /\ stores' \in [StoreIds -> Store]
  <2>1. stores \in [StoreIds -> Store] /\ Empty \in Numbers
    BY <1>2, RegistryAssumption DEF Types, Empty, Numbers
  <2>2. stores[s] \in Store
    BY <1>4, <2>1
  <2> DEFINE blank == [stores[s] EXCEPT !.docs = Empty]
  <2>3. blank \in Store /\ blank.label = stores[s].label /\ blank.saving = stores[s].saving
    BY <2>1, <2>2 DEF Store
  <2> HIDE DEF blank
  <2>4. stores' = [stores EXCEPT ![s] = blank]
    BY <1>1 DEF blank
  <2>5. QED
    BY <1>4, <2>1, <2>3, <2>4
<1>9. /\ instances'[name] = h /\ handles'[h] = [store |-> s, name |-> name]
      /\ \A n \in Names : n # name => instances'[n] = instances[n]
      /\ \A g \in HandleIds : g # h => handles'[g] = handles[g]
      /\ handles' \in [HandleIds -> Handle] /\ instances' \in [Names -> HandleIds \union {0}]
  <2>1. [store |-> s, name |-> name] \in Handle
    BY <1>4 DEF Handle
  <2>2. QED
    BY <1>1, <1>2, <1>3, <2>1 DEF Types
<1>10. acked' \in Numbers /\ \A e \in Docs : acked'[e] = IF e \in gone THEN 0 ELSE acked[e]
  <2>1. acked' = [e \in Docs |-> IF e \in gone THEN 0 ELSE acked[e]]
    BY <1>1
  <2>2. QED
    BY <1>2, <2>1, TypeFacts DEF Numbers
<1>11. /\ call' \in [Callers -> CallState] /\ call'[c] = entered
       /\ \A b \in Callers : b # c =>
            /\ call'[b].op = call[b].op /\ call'[b].name = call[b].name
            /\ call'[b].to = call[b].to /\ call'[b].doc = call[b].doc
            /\ call'[b].handle = call[b].handle /\ call'[b].step = call[b].step
            /\ call'[b].size = IF call[b].doc \in gone THEN 0 ELSE call[b].size
  <2> DEFINE less(b) == IF call[b].doc \in gone THEN [call[b] EXCEPT !.size = 0] ELSE call[b]
  <2>1. \A b \in Callers : call[b] \in CallState /\ 0 \in 0..MaxSize
    BY <1>2, TypeFacts DEF Types
  <2>2. \A b \in Callers :
            /\ less(b) \in CallState
            /\ less(b).op = call[b].op /\ less(b).name = call[b].name
            /\ less(b).to = call[b].to /\ less(b).doc = call[b].doc
            /\ less(b).handle = call[b].handle /\ less(b).step = call[b].step
            /\ less(b).size = IF call[b].doc \in gone THEN 0 ELSE call[b].size
    BY <2>1 DEF CallState
  <2>3. call' = [[b \in Callers |-> less(b)] EXCEPT ![c] = entered]
    BY <1>1
  <2> HIDE DEF less
  <2>4. QED
    BY <1>6, <2>2, <2>3
<1>12. connection' = "on" <=> connection = "on"
  BY <1>1
<1>13. Types'
  BY <1>1, <1>2, <1>8, <1>9, <1>10, <1>11 DEF Types
<1>14. OneWrite'
  BY <1>1, <1>2, <1>8, TypeFacts DEF OneWrite
<1>15. MapsFit'
  <2>1. \A n \in Names : byName[n] # 0 => stores'[byName[n]].label = n
    BY <1>2, <1>8, TypeFacts DEF MapsFit
  <2>2. ASSUME NEW n \in Names, instances'[n] # 0
        PROVE  byName[n] # 0 /\ handles'[instances'[n]] = [store |-> byName[n], name |-> n]
    <3>1. CASE n = name
      BY <1>1, <1>9, <3>1
    <3>2. CASE n # name
      <4>1. instances'[n] = instances[n] /\ instances[n] \in HandleIds
        BY <1>2, <1>9, <2>2, <3>2 DEF Types
      <4>2. handles'[instances[n]] = handles[instances[n]]
        BY <1>3, <1>9, <4>1
      <4>3. QED
        BY <1>2, <2>2, <4>1, <4>2 DEF MapsFit
    <3>3. QED
      BY <3>1, <3>2
  <2>3. QED
    BY <1>1, <1>2, <2>1, <2>2 DEF MapsFit
<1>16. CallsFit'
  <2> SUFFICES ASSUME NEW b \in Callers
               PROVE  /\ call'[b].handle # 0 <=> call'[b].op \in OnCollection
                      /\ call'[b].op \in OnCollection =>
                           /\ call'[b].name \in Names /\ call'[b].doc \in Docs
                           /\ instances'[call'[b].name] = call'[b].handle
                           /\ call'[b].step # "idle"
                      /\ call'[b].op \in {"rename", "disconnect"} => call'[b].step = "saving"
                      /\ call'[b].op = "rename" =>
                           call'[b].name \in Names /\ call'[b].to \in Names /\ byName[call'[b].name] = 0
                      /\ call'[b].op \in OnCollection \union {"rename", "disconnect", "none"}
                      /\ call'[b].op = "none" => call'[b].step = "idle" /\ call'[b].size = 0
    BY <1>1 DEF CallsFit
  <2>1. CASE b = c
    BY <1>3, <1>6, <1>9, <1>11, <2>1 DEF OnCollection
  <2>2. CASE b # c
    <3>1. call[b].op \in OnCollection =>
            call[b].name \in Names /\ instances'[call[b].name] = instances[call[b].name]
      BY <1>2, <1>5, <1>9 DEF CallsFit
    <3>2. QED
      BY <1>2, <1>11, <2>2, <3>1 DEF CallsFit
  <2>3. QED
    BY <2>1, <2>2
<1>17. Offline'
  <2>1. connection # "on" => \A b \in Callers : call'[b].step \in {"idle", "asked"}
    BY <1>2, <1>6, <1>11 DEF Offline
  <2>2. QED
    BY <1>1, <1>2, <1>12, <2>1 DEF Offline
<1>18. ASSUME NEW b \in Callers, NEW n \in Names, NEW e \in Docs, e \notin gone, NEW k \in Nat,
              k > 0, WillBe(b, n, e, k)
       PROVE  WillBe(b, n, e, k)'
  <2>1. byName[n] \in StoreIds /\ stores[byName[n]].docs[e] >= k
    BY <1>2, <1>18, TypeFacts DEF WillBe, Carries
  <2>2. byName[n] # s
    BY <1>7, <1>18, <2>1
  <2>3. QED
    BY <1>1, <1>8, <1>18, <2>1, <2>2, CarriesStays
<1>19. SavesCarry'
  <2> SUFFICES ASSUME NEW b \in Callers, call'[b].op \in OnCollection,
                      call'[b].step = "saving", call'[b].size > 0
               PROVE  WillBe(b, call[b].name, call[b].doc, call[b].size)'
    BY DEF SavesCarry
  <2>1. b # c
    BY <1>6, <1>11
  <2>2. call[b].doc \notin gone /\ call'[b].size = call[b].size
    BY <1>11, <2>1
  <2>3. WillBe(b, call[b].name, call[b].doc, call[b].size)
    BY <1>2, <1>11, <2>1, <2>2 DEF SavesCarry
  <2>4. call[b].name \in Names /\ call[b].doc \in Docs /\ call[b].size \in Nat
    BY <1>2, <1>11, <2>1, TypeFacts DEF CallsFit
  <2>5. QED
    BY <1>11, <1>18, <2>1, <2>2, <2>3, <2>4
<1>20. LeavesLast'
  <2>1. \A b \in Callers : call'[b].op # "disconnect"
    BY <1>5, <1>6, <1>11
  <2>2. QED
    BY <2>1 DEF LeavesLast
<1>21. Placed'
  <2> SUFFICES ASSUME NEW e \in Docs, acked'[e] > 0 PROVE HasPlace(e)'
    BY DEF Placed
  <2>1. e \notin gone /\ acked'[e] = acked[e] /\ acked[e] > 0 /\ acked[e] \in Nat
    BY <1>2, <1>10, TypeFacts
  <2>2. PICK m \in Names : /\ disk[m] # NoFile /\ disk[m].docs[e] >= acked[e]
                           /\ connection = "on" => Secure(m, e)
    BY <1>2, <2>1 DEF Placed, HasPlace
  <2>3. ASSUME connection = "on" PROVE Secure(m, e)'
    <3>1. CASE byName[m] = 0
      <4>1. ASSUME NEW b \in Callers, call'[b].op = "rename", call'[b].name = m
            PROVE  WillBe(b, call[b].to, e, acked[e])'
        <5>1. b # c
          BY <1>6, <1>11, <4>1
        <5>2. WillBe(b, call[b].to, e, acked[e]) /\ call[b].to \in Names
          BY <1>2, <1>11, <2>2, <2>3, <3>1, <4>1, <5>1 DEF Secure, CallsFit
        <5>3. QED
          BY <1>11, <1>18, <2>1, <5>1, <5>2
      <4>2. QED
        BY <1>1, <3>1, <4>1 DEF Secure
    <3>2. CASE byName[m] # 0
      <4>1. byName[m] \in StoreIds /\ stores[byName[m]].docs[e] >= acked[e]
            /\ \A j \in jobs : j.store = byName[m] => j.payload.docs[e] >= acked[e]
        BY <1>2, <2>2, <2>3, <3>2, TypeFacts DEF Secure
      <4>2. byName[m] # s
        BY <1>7, <2>1, <4>1
      <4>3. QED
        BY <1>1, <1>8, <2>1, <3>2, <4>1, <4>2 DEF Secure
    <3>3. QED
      BY <3>1, <3>2
  <2>4. QED
    BY <1>1, <1>12, <2>1, <2>2, <2>3 DEF HasPlace
<1>22. QED
  BY <1>13, <1>14, <1>15, <1>16, <1>17, <1>19, <1>20, <1>21 DEF Inv, Shape

\* The store and the instance of a name nobody uses move to one nobody has,
\* and the save under the new name begins.
LEMMA StepRename ==
  ASSUME Inv, setup.alone, NEW c \in Callers, NEW from \in Names, NEW to \in Names,
         Rename(c, from, to)
  PROVE  Inv'
<1> DEFINE s == byName[from]
           h == instances[from]
           ss == [stores EXCEPT ![s].label = to]
           entered == [Idle EXCEPT !.op = "rename", !.name = from, !.to = to, !.step = "saving"]
<1>1. /\ call[c].op = "none" /\ s # 0 /\ byName[to] = 0
      /\ connection = "on" /\ MayUse(to) /\ MayUse(from) /\ ~ Busy(from) /\ ~ Busy(to)
      /\ byName' = [byName EXCEPT ![to] = s, ![from] = 0]
      /\ instances' = IF h = 0 THEN instances ELSE [instances EXCEPT ![to] = h, ![from] = 0]
      /\ handles' = IF h = 0 THEN handles ELSE [handles EXCEPT ![h].name = to]
      /\ Save(c, {to}, ss)
      /\ call' = [call EXCEPT ![c] = entered]
      /\ UNCHANGED <<setup, disk, connection, timer, acked>>
  BY DEF Rename, Calls, Relabel
<1>2. Shape /\ Types /\ OneWrite /\ MapsFit /\ CallsFit /\ Offline /\ SavesCarry /\ LeavesLast /\ Placed
  BY DEF Inv, Shape
<1>3. /\ \A b \in Callers : call[b].op # "disconnect"
      /\ \A b \in Callers : call[b].op = "rename" => call[b].name # from /\ call[b].name # to
      /\ disk[to] = NoFile /\ from # to
  BY <1>1 DEF MayUse, Leaving
<1>4. /\ s \in StoreIds /\ stores[s].label = from
      /\ \A n \in Names : byName[n] = s => n = from
      /\ \A j \in jobs : j.store # s
      /\ \A w \in waiting : w.store # s
  <2>1. s \in StoreIds /\ stores[s].label = from
    BY <1>1, <1>2, TypeFacts DEF MapsFit
  <2>2. \A n \in Names : byName[n] = s => stores[s].label = n
    BY <1>1, <1>2 DEF MapsFit
  <2>3. \A j \in jobs : j.store # s
    BY <1>1 DEF Busy
  <2>4. QED
    BY <1>2, <2>1, <2>2, <2>3 DEF OneWrite
<1>5. /\ instances[to] = 0
      /\ h # 0 => h \in HandleIds /\ handles[h] = [store |-> s, name |-> from]
      /\ \A n \in Names : instances[n] # 0 /\ instances[n] = h => n = from
  <2>1. h # 0 => h \in HandleIds /\ handles[h] = [store |-> s, name |-> from]
    BY <1>2 DEF MapsFit, Types
  <2>3. ASSUME NEW n \in Names, instances[n] # 0 PROVE handles[instances[n]].name = n
    <3>1. handles[instances[n]] = [store |-> byName[n], name |-> n]
      BY <1>2, <2>3 DEF MapsFit
    <3>2. QED
      BY <3>1
  <2>4. instances[to] = 0
    BY <1>1, <1>2 DEF MapsFit
  <2>5. QED
    BY <2>1, <2>3, <2>4
<1>6. \A b \in Callers : call[b].op \in OnCollection => call[b].name # from /\ call[b].name # to
  <2>1. ASSUME NEW b \in Callers, call[b].op \in OnCollection PROVE call[b].name # from /\ call[b].name # to
    <3>1. call[b].handle # 0 /\ handles[call[b].handle].name = call[b].name
          /\ instances[call[b].name] # 0
      BY <1>2, <2>1, CallHolds DEF CallsFit
    <3>2. QED
      BY <1>1, <1>5, <3>1 DEF Busy
  <2>2. QED
    BY <2>1
<1>7. /\ entered \in CallState /\ entered.op = "rename" /\ entered.name = from /\ entered.to = to
      /\ entered.handle = 0 /\ entered.step = "saving"
  BY IdleIsACall DEF Idle, CallState, Ops
<1> HIDE DEF entered, ss
<1>8. /\ ss \in [StoreIds -> Store] /\ ss[s].label = to
      /\ \A x \in StoreIds : /\ ss[x].docs = stores[x].docs /\ ss[x].saving = stores[x].saving
                             /\ ss[x].pending = stores[x].pending
                             /\ x # s => ss[x] = stores[x]
  <2>1. stores \in [StoreIds -> Store] /\ stores[s] \in Store
    BY <1>2, <1>4 DEF Types
  <2>2. [stores[s] EXCEPT !.label = to] \in Store
    BY <2>1 DEF Store
  <2>3. ss = [stores EXCEPT ![s] = [stores[s] EXCEPT !.label = to]]
    BY DEF ss
  <2>4. QED
    BY <1>4, <2>1, <2>2, <2>3 DEF Store
<1>9. /\ byName' \in [Names -> StoreIds \union {0}] /\ byName'[to] = s /\ byName'[from] = 0
      /\ \A n \in Names : n # from /\ n # to => byName'[n] = byName[n]
  BY <1>1, <1>2, <1>3, <1>4 DEF Types
<1>10. \A n \in Names : byName'[n] # 0 => ss[byName'[n]].label = n
  BY <1>2, <1>4, <1>8, <1>9, TypeFacts DEF MapsFit
<1>11. /\ stores' \in [StoreIds -> Store]
       /\ jobs' \subseteq Job /\ waiting' \subseteq [call : Callers, store : StoreIds]
       /\ OneWrite' /\ Grows(c, {to}, ss)
  <2>1. jobs \subseteq Job /\ waiting \subseteq [call : Callers, store : StoreIds]
    BY <1>2 DEF Types
  <2>2. /\ \A x \in StoreIds : ss[x].saving => \E j \in jobs : j.store = x
        /\ \A j \in jobs : ss[j.store].saving
        /\ \A i, j \in jobs : i.store = j.store => i = j
        /\ \A w \in waiting : \E j \in jobs : j.store = w.store
    BY <1>2, <1>8, TypeFacts DEF OneWrite
  <2>3. {to} \subseteq Names /\ byName' \in [Names -> StoreIds \union {0}] /\ Save(c, {to}, ss)
    BY <1>1, <1>9
  <2>4. QED
    BY <1>8, <1>10, <2>1, <2>2, <2>3, SaveDoes
<1>12. /\ handles' \in [HandleIds -> Handle] /\ instances' \in [Names -> HandleIds \union {0}]
       /\ instances'[from] = 0 /\ instances'[to] = h
       /\ h # 0 => handles'[h] = [store |-> s, name |-> to]
       /\ \A n \in Names : n # from /\ n # to => instances'[n] = instances[n]
       /\ \A g \in HandleIds : g # h => handles'[g] = handles[g]
  <2>1. handles \in [HandleIds -> Handle] /\ instances \in [Names -> HandleIds \union {0}]
    BY <1>2 DEF Types
  <2>2. CASE h = 0
    BY <1>1, <1>3, <1>5, <2>1, <2>2
  <2>3. CASE h # 0
    <3>1. handles' = [handles EXCEPT ![h] = [handles[h] EXCEPT !.name = to]]
      BY <1>1, <2>3
    <3>2. [handles[h] EXCEPT !.name = to] = [store |-> s, name |-> to]
      BY <1>5, <2>3
    <3>3. [store |-> s, name |-> to] \in Handle
      BY <1>4 DEF Handle
    <3>4. QED
      BY <1>1, <1>3, <1>5, <2>1, <2>3, <3>1, <3>2, <3>3
  <2>4. QED
    BY <2>2, <2>3
<1>13. call'[c] = entered /\ \A b \in Callers : b # c => call'[b] = call[b]
  BY <1>1, <1>2 DEF Types
<1>14. Types'
  BY <1>1, <1>2, <1>7, <1>9, <1>11, <1>12 DEF Types
<1>15. MapsFit'
  <2>1. \A n \in Names : byName'[n] # 0 => stores'[byName'[n]].label = n
    BY <1>9, <1>10, <1>11 DEF Grows
  <2>2. ASSUME NEW n \in Names, instances'[n] # 0
        PROVE  byName'[n] # 0 /\ handles'[instances'[n]] = [store |-> byName'[n], name |-> n]
    <3>1. CASE n = to
      BY <1>1, <1>9, <1>12, <2>2, <3>1
    <3>2. CASE n # to
      <4>1. n # from
        BY <1>12, <2>2
      <4>2. instances'[n] = instances[n] /\ instances[n] \in HandleIds /\ byName'[n] = byName[n]
            /\ instances[n] # h
        BY <1>2, <1>5, <1>9, <1>12, <2>2, <3>2, <4>1 DEF Types
      <4>3. handles'[instances[n]] = handles[instances[n]]
        BY <1>12, <4>2
      <4>4. QED
        BY <1>2, <2>2, <4>2, <4>3 DEF MapsFit
    <3>3. QED
      BY <3>1, <3>2
  <2>3. ASSUME NEW j \in jobs PROVE byName'[j.file] = j.store /\ j.payload.label = j.file
    <3>1. j.file \in Names /\ byName[j.file] = j.store /\ j.store # 0 /\ j.store # s
          /\ j.payload.label = j.file
      BY <1>2, <1>4, TypeFacts, IdsAreNumbers DEF MapsFit
    <3>2. j.file # from /\ j.file # to
      BY <1>1, <3>1
    <3>3. QED
      BY <1>9, <3>1, <3>2
  <2>4. \A j \in jobs' : byName'[j.file] = j.store /\ j.payload.label = j.file
    BY <1>11, <2>3 DEF Grows
  <2>5. QED
    BY <1>1, <1>2, <2>1, <2>2, <2>4 DEF MapsFit
<1>16. CallsFit'
  <2> SUFFICES ASSUME NEW b \in Callers
               PROVE  /\ call'[b].handle # 0 <=> call'[b].op \in OnCollection
                      /\ call'[b].op \in OnCollection =>
                           /\ call'[b].name \in Names /\ call'[b].doc \in Docs
                           /\ instances'[call'[b].name] = call'[b].handle
                           /\ call'[b].step # "idle"
                      /\ call'[b].op \in {"rename", "disconnect"} => call'[b].step = "saving"
                      /\ call'[b].op = "rename" =>
                           call'[b].name \in Names /\ call'[b].to \in Names /\ byName'[call'[b].name] = 0
                      /\ call'[b].op \in OnCollection \union {"rename", "disconnect", "none"}
                      /\ call'[b].op = "none" => call'[b].step = "idle" /\ call'[b].size = 0
    BY DEF CallsFit
  <2>1. CASE b = c
    BY <1>7, <1>9, <1>13, <2>1 DEF OnCollection
  <2>2. CASE b # c
    <3>1. call'[b] = call[b]
      BY <1>13, <2>2
    <3>2. call[b].op \in OnCollection => instances'[call[b].name] = instances[call[b].name]
      BY <1>2, <1>6, <1>12 DEF CallsFit
    <3>3. call[b].op = "rename" => byName'[call[b].name] = byName[call[b].name]
      BY <1>2, <1>3, <1>9 DEF CallsFit
    <3>4. QED
      BY <1>2, <3>1, <3>2, <3>3 DEF CallsFit
  <2>3. QED
    BY <2>1, <2>2
<1>17. Offline'
  BY <1>1, <1>2 DEF Offline
<1>18. ASSUME NEW b \in Callers, NEW n \in Names, n # from, NEW e \in Docs, NEW k \in 0..MaxSize,
              WillBe(b, n, e, k)
       PROVE  WillBe(b, n, e, k)'
  <2>1. byName[n] \in StoreIds
    BY <1>2, <1>18, TypeFacts DEF WillBe, Carries
  <2>2. n # to /\ byName'[n] = byName[n]
    BY <1>1, <1>9, <1>18, <2>1, IdsAreNumbers
  <2>3. Carries(ss, byName'[n], n, b, e, k)
    BY <1>8, <1>18, <2>1, <2>2 DEF WillBe, Carries
  <2>4. jobs \subseteq Job /\ {to} \subseteq Names
    BY <1>2 DEF Types
  <2>5. QED
    BY <1>1, <1>8, <1>11, <2>1, <2>2, <2>3, <2>4, SaveKeeps
<1>19. ASSUME NEW e \in Docs, NEW k \in 0..MaxSize, stores[s].docs[e] >= k
       PROVE  WillBe(c, to, e, k)'
  <2>1. to \in {to} /\ {to} \subseteq Names /\ byName'[to] \in StoreIds /\ ss[byName'[to]].docs[e] >= k
    BY <1>4, <1>8, <1>9, <1>19
  <2>2. QED
    BY <1>8, <1>11, <2>1, SaveMakes
<1>20. SavesCarry'
  <2> SUFFICES ASSUME NEW b \in Callers, call'[b].op \in OnCollection,
                      call'[b].step = "saving", call'[b].size > 0
               PROVE  WillBe(b, call[b].name, call[b].doc, call[b].size)'
    BY DEF SavesCarry
  <2>1. call'[b] = call[b]
    BY <1>7, <1>13 DEF OnCollection
  <2>2. call[b].name \in Names /\ call[b].doc \in Docs /\ call[b].size \in 0..MaxSize
        /\ call[b].name # from /\ WillBe(b, call[b].name, call[b].doc, call[b].size)
    BY <1>2, <1>6, <2>1, TypeFacts DEF SavesCarry, CallsFit
  <2>3. QED
    BY <1>18, <2>1, <2>2
<1>21. LeavesLast'
  <2>1. \A b \in Callers : call'[b].op # "disconnect"
    BY <1>3, <1>7, <1>13
  <2>2. QED
    BY <2>1 DEF LeavesLast
<1>22. Placed'
  <2> SUFFICES ASSUME NEW e \in Docs, acked[e] > 0 PROVE HasPlace(e)'
    BY <1>1 DEF Placed
  <2>1. acked[e] \in 0..MaxSize /\ acked[e] \in Nat
    BY <1>2, TypeFacts
  <2>2. PICK m \in Names : disk[m] # NoFile /\ disk[m].docs[e] >= acked[e] /\ Secure(m, e)
    BY <1>1, <1>2 DEF Placed, HasPlace
  <2>3. ASSUME disk[from] # NoFile, disk[from].docs[e] >= acked[e], stores[s].docs[e] >= acked[e]
        PROVE  HasPlace(e)'
    <3>1. ASSUME NEW b \in Callers, call'[b].op = "rename", call'[b].name = from
          PROVE  WillBe(b, call[b].to, e, acked[e])'
      <4>1. b = c /\ call'[b].to = to
        BY <1>3, <1>7, <1>13, <3>1
      <4>2. WillBe(c, to, e, acked[e])'
        <5>1. PICK k \in 0..MaxSize : k = acked[e]
          BY <2>1
        <5>2. WillBe(c, to, e, k)' /\ acked'[e] = k
          BY <1>1, <1>19, <2>3, <5>1
        <5>3. QED
          BY <5>2
      <4>3. QED
        BY <4>1, <4>2
    <3>2. QED
      BY <1>1, <1>9, <2>3, <3>1 DEF HasPlace, Secure
  <2>4. CASE m = from
    <3>1. stores[s].docs[e] >= acked[e]
      BY <1>1, <2>2, <2>4 DEF Secure
    <3>2. QED
      BY <2>2, <2>3, <2>4, <3>1
  <2>5. CASE m # from /\ byName[m] # 0
    <3>1. /\ byName[m] \in StoreIds /\ stores[byName[m]].docs[e] >= acked[e]
          /\ \A j \in jobs : j.store = byName[m] => j.payload.docs[e] >= acked[e]
      BY <1>2, <2>2, <2>5, TypeFacts DEF Secure
    <3>2. byName'[m] = byName[m]
      BY <1>1, <1>9, <2>5
    <3>3. ss[byName[m]].docs[e] >= acked[e]
      BY <1>8, <3>1
    <3>4. Secure(m, e)'
      BY <1>1, <1>11, <2>5, <3>1, <3>2, <3>3, ZenonT(40) DEF Secure, Grows
    <3>5. QED
      BY <1>1, <2>2, <3>4 DEF HasPlace
  <2>6. CASE m # from /\ byName[m] = 0
    <3>1. m # to /\ byName'[m] = 0
      BY <1>3, <1>9, <2>2, <2>6
    <3>2. CASE \E b \in Callers : call[b].op = "rename" /\ call[b].name = m /\ call[b].to = from
      <4>1. PICK b \in Callers : call[b].op = "rename" /\ call[b].name = m /\ call[b].to = from
        BY <3>2
      <4>2. WillBe(b, from, e, acked[e])
        BY <2>2, <2>6, <4>1 DEF Secure
      <4>3. ~ Awaits(b, s)
        BY <1>4 DEF Awaits
      <4>4. Settled(s, from, e, acked[e]) /\ stores[s].docs[e] >= acked[e]
        BY <4>2, <4>3 DEF WillBe, Carries
      <4>5. QED
        BY <2>3, <4>4 DEF Settled
    <3>3. CASE ~ \E b \in Callers : call[b].op = "rename" /\ call[b].name = m /\ call[b].to = from
      <4>1. ASSUME NEW b \in Callers, call'[b].op = "rename", call'[b].name = m
            PROVE  WillBe(b, call[b].to, e, acked[e])'
        <5>1. b # c /\ call'[b] = call[b]
          BY <1>7, <1>13, <2>6, <4>1
        <5>2. WillBe(b, call[b].to, e, acked[e]) /\ call[b].to \in Names /\ call[b].to # from
          BY <1>2, <2>2, <2>6, <3>3, <4>1, <5>1 DEF Secure, CallsFit
        <5>3. QED
          BY <1>1, <1>18, <2>1, <5>1, <5>2
      <4>2. QED
        BY <1>1, <2>2, <3>1, <4>1 DEF HasPlace, Secure
    <3>4. QED
      BY <3>2, <3>3
  <2>7. QED
    BY <2>4, <2>5, <2>6
<1>23. QED
  BY <1>11, <1>14, <1>15, <1>16, <1>17, <1>20, <1>21, <1>22 DEF Inv, Shape

\* The old file goes once the save under the new name is over.
LEMMA StepRemove ==
  ASSUME Inv, NEW c \in Callers, Remove(c)
  PROVE  Inv'
<1> DEFINE from == call[c].name
           to == call[c].to
<1>1. /\ call[c].op = "rename" /\ call[c].step = "saving"
      /\ \A j \in jobs \union waiting : j.call # c
      /\ disk' = [disk EXCEPT ![from] = NoFile] \/ disk' = disk
      /\ call' = [call EXCEPT ![c] = Idle]
      /\ jobs' = {[j EXCEPT !.call = IF @ = c THEN NoCall ELSE @] : j \in jobs}
      /\ waiting' = {w \in waiting : w.call # c}
      /\ UNCHANGED <<setup, stores, handles, byName, instances, connection, timer, acked>>
  BY DEF Remove, MayDelete, Saved, memory
<1>2. Types /\ OneWrite /\ MapsFit /\ CallsFit /\ Offline /\ SavesCarry /\ LeavesLast /\ Placed
  BY DEF Inv, Shape
<1>3. jobs' = jobs /\ waiting' = waiting
  <2>1. \A j \in jobs : [j EXCEPT !.call = IF @ = c THEN NoCall ELSE @] = j
    BY <1>1, <1>2 DEF Types, Job
  <2>2. QED
    BY <1>1, <2>1
<1>4. CASE disk' = disk
  BY <1>1, <1>3, <1>4, StepEnds
<1>5. CASE disk' = [disk EXCEPT ![from] = NoFile]
  <2>1. from \in Names /\ to \in Names /\ byName[from] = 0 /\ connection = "on"
    BY <1>1, <1>2 DEF CallsFit, Offline
  <2>2. /\ disk' \in [Names -> Image \union {NoFile}] /\ disk'[from] = NoFile
        /\ \A n \in Names : n # from => disk'[n] = disk[n]
    BY <1>2, <1>5, <2>1 DEF Types
  <2>3. call'[c] = Idle /\ Idle.op = "none" /\ \A b \in Callers : b # c => call'[b] = call[b]
    BY <1>1, <1>2 DEF Types, Idle
  <2>4. Types'
    BY <1>1, <1>2, <1>3, <2>2, IdleIsACall DEF Types
  <2>5. OneWrite' /\ MapsFit'
    BY <1>1, <1>2, <1>3, <2>2 DEF OneWrite, MapsFit
  <2>6. CallsFit' /\ Offline'
    BY <1>1, <1>2, <2>1, <2>3 DEF CallsFit, Offline, Idle, OnCollection
  <2>7. ASSUME NEW b \in Callers, NEW n \in Names, NEW d \in Docs, NEW k \in Nat, WillBe(b, n, d, k)
        PROVE  WillBe(b, n, d, k)'
    <3>1. n # from
      BY <2>1, <2>7 DEF WillBe, Carries
    <3>2. disk'[n] = disk[n]
      BY <2>2, <3>1
    <3>3. QED
      BY <1>1, <1>3, <2>7, <3>2 DEF WillBe, Carries, Settled, Awaits
  <2>8. SavesCarry'
    <3> SUFFICES ASSUME NEW b \in Callers, call'[b].op \in OnCollection,
                        call'[b].step = "saving", call'[b].size > 0
                 PROVE  WillBe(b, call[b].name, call[b].doc, call[b].size)'
      BY DEF SavesCarry
    <3>1. call'[b] = call[b]
      BY <2>3 DEF OnCollection
    <3>2. QED
      BY <1>2, <2>7, <3>1, TypeFacts DEF SavesCarry, CallsFit
  <2>9. LeavesLast'
    <3>1. \A b \in Callers : call'[b].op # "disconnect"
      BY <1>1, <1>2, <2>3 DEF LeavesLast
    <3>2. QED
      BY <3>1 DEF LeavesLast
  <2>10. Placed'
    <3> SUFFICES ASSUME NEW d \in Docs, acked[d] > 0 PROVE HasPlace(d)'
      BY <1>1 DEF Placed
    <3>1. PICK m \in Names : disk[m] # NoFile /\ disk[m].docs[d] >= acked[d] /\ Secure(m, d)
      BY <1>2, <2>1 DEF Placed, HasPlace
    <3>2. CASE m = from
      <4>1. WillBe(c, to, d, acked[d])
        BY <1>1, <2>1, <3>1, <3>2 DEF Secure
      <4>2. ~ Awaits(c, byName[to])
        BY <1>1 DEF Awaits
      <4>3. /\ byName[to] # 0 /\ stores[byName[to]].docs[d] >= acked[d]
            /\ Settled(byName[to], to, d, acked[d])
        BY <4>1, <4>2 DEF WillBe, Carries
      <4>4. to # from /\ disk'[to] = disk[to]
        BY <2>1, <2>2, <4>3
      <4>5. QED
        BY <1>1, <1>3, <2>1, <4>3, <4>4 DEF HasPlace, Secure, Settled
    <3>3. CASE m # from
      <4>1. ASSUME NEW b \in Callers, call'[b].op = "rename" PROVE call'[b] = call[b]
        BY <2>3, <4>1
      <4>2. Secure(m, d)'
        BY <1>1, <1>2, <1>3, <2>7, <3>1, <4>1, TypeFacts DEF Secure, CallsFit
      <4>3. QED
        BY <1>1, <2>2, <3>1, <3>3, <4>2 DEF HasPlace
    <3>4. QED
      BY <3>2, <3>3
  <2>11. QED
    BY <2>4, <2>5, <2>6, <2>8, <2>9, <2>10 DEF Inv, Shape
<1>6. QED
  BY <1>1, <1>4, <1>5

\* disconnect() asks for a save of everything.
LEMMA StepDisconnect ==
  ASSUME Inv, setup.alone, NEW c \in Callers, Disconnect(c)
  PROVE  Inv'
<1> DEFINE entered == [Idle EXCEPT !.op = "disconnect", !.step = "saving"]
<1>1. /\ connection = "on" /\ \A b \in Callers : call[b].op = "none"
      /\ Save(c, Names, stores)
      /\ call' = [call EXCEPT ![c] = entered] /\ timer' = "none"
      /\ UNCHANGED <<setup, handles, byName, instances, disk, connection, acked>>
  BY DEF Disconnect
<1>2. Types /\ OneWrite /\ MapsFit /\ CallsFit /\ Offline /\ SavesCarry /\ LeavesLast /\ Placed
  BY DEF Inv, Shape
<1>3. /\ stores' \in [StoreIds -> Store]
      /\ jobs' \subseteq Job /\ waiting' \subseteq [call : Callers, store : StoreIds]
      /\ OneWrite' /\ Grows(c, Names, stores)
  <2>1. /\ jobs \subseteq Job /\ waiting \subseteq [call : Callers, store : StoreIds]
        /\ byName' \in [Names -> StoreIds \union {0}] /\ stores \in [StoreIds -> Store]
    BY <1>1, <1>2 DEF Types
  <2>2. \A n \in Names : byName'[n] # 0 => stores[byName'[n]].label = n
    BY <1>1, <1>2 DEF MapsFit
  <2>3. QED
    BY <1>1, <1>2, <2>1, <2>2, SaveDoes DEF OneWrite
<1>4. entered \in CallState /\ entered.op = "disconnect" /\ entered.step = "saving"
      /\ entered.handle = 0
  BY IdleIsACall DEF Idle, CallState, Ops
<1> HIDE DEF entered
<1>5. call'[c] = entered /\ \A b \in Callers : b # c => call'[b] = call[b]
  BY <1>1, <1>2 DEF Types
<1>6. Types'
  BY <1>1, <1>2, <1>3, <1>4 DEF Types
<1>7. MapsFit'
  <2>1. \A n \in Names : byName[n] # 0 => stores'[byName[n]].label = n
    BY <1>2, <1>3, TypeFacts DEF MapsFit, Grows
  <2>2. \A j \in jobs' : byName[j.file] = j.store /\ j.payload.label = j.file
    BY <1>1, <1>2, <1>3 DEF MapsFit, Grows
  <2>3. QED
    BY <1>1, <1>2, <2>1, <2>2 DEF MapsFit
<1>8. CallsFit' /\ Offline'
  BY <1>1, <1>2, <1>4, <1>5 DEF CallsFit, Offline, OnCollection
<1>9. SavesCarry'
  BY <1>1, <1>4, <1>5 DEF SavesCarry, OnCollection
<1>10. LeavesLast'
  <2>1. ASSUME NEW j \in jobs' PROVE Awaits(c, j.store)'
    <3>1. j.file \in Names /\ byName[j.file] = j.store /\ j.store # 0
      BY <1>1, <1>3, <1>7, IdsAreNumbers DEF MapsFit, Job
    <3>2. PICK n \in Names : n = j.file
      BY <3>1
    <3>3. Awaits(c, byName[n])'
      BY <1>1, <1>3, <3>1, <3>2 DEF Grows
    <3>4. QED
      BY <1>1, <3>1, <3>2, <3>3
  <2>2. ASSUME NEW n \in Names, NEW d \in Docs, byName'[n] # 0
        PROVE  WillBe(c, n, d, stores[byName[n]].docs[d])'
    <3>1. byName'[n] = byName[n] /\ byName[n] \in StoreIds
      BY <1>1, <1>2, <2>2, TypeFacts
    <3>2. PICK k \in 0..MaxSize : k = stores[byName[n]].docs[d]
      BY <1>2, <3>1, TypeFacts
    <3>3. stores[byName'[n]].docs[d] >= k /\ byName'[n] \in StoreIds
          /\ stores \in [StoreIds -> Store]
      BY <1>2, <3>1, <3>2 DEF Types
    <3>4. WillBe(c, n, d, k)'
      BY <1>3, <3>3, SaveMakes
    <3>5. k = stores'[byName'[n]].docs[d]
      BY <1>3, <3>1, <3>2 DEF Grows
    <3>6. QED
      BY <3>4, <3>5
  <2>3. \A b \in Callers : b # c => call'[b].op = "none"
    BY <1>1, <1>5
  <2>4. QED
    BY <1>1, <2>1, <2>2, <2>3 DEF LeavesLast
<1>11. Placed'
  <2> SUFFICES ASSUME NEW d \in Docs, acked[d] > 0 PROVE HasPlace(d)'
    BY <1>1 DEF Placed
  <2>1. PICK m \in Names : disk[m] # NoFile /\ disk[m].docs[d] >= acked[d] /\ Secure(m, d)
    BY <1>1, <1>2 DEF Placed, HasPlace
  <2>2. CASE byName[m] = 0
    <3>1. \A b \in Callers : call'[b].op # "rename"
      BY <1>1, <1>4, <1>5
    <3>2. QED
      BY <1>1, <2>1, <2>2, <3>1 DEF HasPlace, Secure
  <2>3. CASE byName[m] # 0
    <3>1. byName[m] \in StoreIds
      BY <1>2, <2>3, TypeFacts
    <3>2. Secure(m, d)'
      BY <1>1, <1>3, <2>1, <2>3, <3>1 DEF Secure, Grows
    <3>3. QED
      BY <1>1, <2>1, <3>2 DEF HasPlace
  <2>4. QED
    BY <2>2, <2>3
<1>12. QED
  BY <1>3, <1>6, <1>7, <1>8, <1>9, <1>10, <1>11 DEF Inv, Shape

\* When everything is saved memory is let go: what it had is in the files.
LEMMA StepClear ==
  ASSUME Inv, NEW c \in Callers, Clear(c)
  PROVE  Inv'
<1>1. /\ call[c].op = "disconnect" /\ \A j \in jobs \union waiting : j.call # c
      /\ byName' = [n \in Names |-> 0] /\ instances' = [n \in Names |-> 0]
      /\ connection' = "off"
      /\ acked' = [d \in Docs |-> Max({acked[d], Kept(d)})]
      /\ call' = [call EXCEPT ![c] = Idle]
      /\ timer' = IF timer = "none" THEN "none" ELSE "old"
      /\ stores' = [s \in StoreIds |->
           IF s \in Range(byName) /\ ~ stores[s].saving THEN NewStore(NoCall) ELSE stores[s]]
      /\ UNCHANGED <<setup, handles, disk, jobs, waiting>>
  BY DEF Clear, Saved, Cleared
<1>2. Types /\ OneWrite /\ MapsFit /\ CallsFit /\ Offline /\ SavesCarry /\ LeavesLast /\ Placed
  BY DEF Inv, Shape
<1>3. timer = "none" /\ \A b \in Callers : b # c => call[b].op = "none"
  BY <1>1, <1>2 DEF LeavesLast
<1>4. \A s : ~ Awaits(c, s)
  BY <1>1 DEF Awaits
<1>5. jobs = {} /\ waiting = {}
  BY <1>1, <1>2, <1>4 DEF LeavesLast, OneWrite
<1>6. \A b \in Callers : call'[b] = IF b = c THEN Idle ELSE call[b]
  BY <1>1, <1>2 DEF Types
<1>7. \A b \in Callers : call'[b].op = "none" /\ call'[b].handle = 0
                         /\ call'[b].step = "idle" /\ call'[b].size = 0
  BY <1>2, <1>3, <1>6 DEF CallsFit, Idle, OnCollection
<1>8. ASSUME NEW d \in Docs
      PROVE  /\ Kept(d) \in 0..MaxSize
             /\ Kept(d) = 0 \/ \E n \in Names : disk[n] # NoFile /\ disk[n].docs[d] >= Kept(d)
  <2> DEFINE S == {stores[byName[n]].docs[d] : n \in {m \in Names : byName[m] # 0}} \union {0}
  <2>1. S \in SUBSET (0..MaxSize) /\ S # {} /\ MaxSize \in Nat
    BY <1>2, TypeFacts
  <2>2. Kept(d) = Max(S)
    BY DEF Kept
  <2>3. Max(S) \in S
    <3> HIDE DEF S
    <3>1. QED
      BY <2>1, MaxIsIn
  <2>4. CASE Max(S) = 0
    BY <2>1, <2>2, <2>3, <2>4
  <2>5. CASE Max(S) # 0
    <3>1. PICK n \in Names : byName[n] # 0 /\ Max(S) = stores[byName[n]].docs[d]
      BY <2>3, <2>5
    <3> HIDE DEF S
    <3>2. WillBe(c, n, d, Max(S))
      BY <1>1, <1>2, <3>1 DEF LeavesLast
    <3>3. Settled(byName[n], n, d, Max(S))
      BY <1>4, <3>2 DEF WillBe, Carries
    <3>4. QED
      BY <2>1, <2>2, <2>3, <3>3 DEF Settled
  <2>6. QED
    BY <2>4, <2>5
<1>9. ASSUME NEW d \in Docs
      PROVE  acked'[d] \in {acked[d], Kept(d)} /\ acked'[d] \in 0..MaxSize
  <2>1. acked[d] \in 0..MaxSize
    BY <1>2, TypeFacts
  <2>2. Max({acked[d], Kept(d)}) \in {acked[d], Kept(d)}
    BY <1>8, <2>1, MaxOfTwo
  <2>3. acked'[d] = Max({acked[d], Kept(d)})
    BY <1>1
  <2>4. QED
    BY <1>8, <2>1, <2>2, <2>3
<1>10. \A s \in StoreIds : stores'[s] \in Store /\ ~ stores'[s].saving
  <2>1. Empty \in Numbers
    BY RegistryAssumption DEF Empty, Numbers
  <2>2. NewStore(NoCall) \in Store /\ ~ NewStore(NoCall).saving
    BY <2>1 DEF NewStore, Store
  <2>3. \A s \in StoreIds : stores[s] \in Store /\ ~ stores[s].saving
    BY <1>2, <1>5 DEF Types, OneWrite
  <2>4. QED
    BY <1>1, <2>2, <2>3
<1>11. Types'
  <2>1. acked' \in Numbers
    BY <1>1, <1>9 DEF Numbers
  <2>2. call' \in [Callers -> CallState]
    BY <1>1, <1>2, IdleIsACall DEF Types
  <2>3. stores' \in [StoreIds -> Store]
    BY <1>1, <1>10
  <2>4. QED
    BY <1>1, <1>2, <2>1, <2>2, <2>3 DEF Types
<1>12. OneWrite' /\ MapsFit'
  BY <1>1, <1>2, <1>5, <1>10 DEF OneWrite, MapsFit
<1>13. CallsFit' /\ Offline' /\ SavesCarry' /\ LeavesLast'
  BY <1>1, <1>3, <1>5, <1>7 DEF CallsFit, Offline, SavesCarry, LeavesLast, OnCollection
<1>14. Placed'
  <2> SUFFICES ASSUME NEW d \in Docs, acked'[d] > 0 PROVE HasPlace(d)'
    BY DEF Placed
  <2>1. CASE acked'[d] = acked[d]
    BY <1>1, <1>2, <2>1 DEF Placed, HasPlace
  <2>2. CASE acked'[d] = Kept(d)
    <3>1. PICK n \in Names : disk[n] # NoFile /\ disk[n].docs[d] >= Kept(d)
      BY <1>8, <2>2
    <3>2. QED
      BY <1>1, <2>2, <3>1 DEF HasPlace
  <2>3. QED
    BY <1>9, <2>1, <2>2
<1>15. QED
  BY <1>11, <1>12, <1>13, <1>14 DEF Inv, Shape

\* connect() reads the files while nothing is saved: the file of a name becomes
\* its store, and an instance that was cached goes over to it.
LEMMA StepLoad ==
  ASSUME Inv, Load
  PROVE  Inv'
<1> DEFINE labels == {disk[n].label : n \in {m \in Names : disk[m] # NoFile}}
           spare == StoreIds \ LiveStores
           new == CHOOSE f \in [labels -> spare] : IsInjective(f)
<1>1. PICK file \in [labels -> Names] :
        /\ \A l \in labels : disk[file[l]] # NoFile /\ disk[file[l]].label = l
        /\ byName' = [n \in Names |-> IF n \in labels THEN new[n] ELSE byName[n]]
        /\ stores' = [s \in StoreIds |->
               IF s \in Range(new)
               THEN [NewStore(CHOOSE l \in labels : new[l] = s)
                       EXCEPT !.docs = disk[file[CHOOSE l \in labels : new[l] = s]].docs]
               ELSE stores[s]]
  BY DEF Load
<1>2. /\ connection = "loading" /\ connection' = "on" /\ handles' = Synced
      /\ timer' = IF timer = "none" THEN "current" ELSE timer
      /\ UNCHANGED <<setup, instances, disk, jobs, waiting, call, acked>>
  BY DEF Load
<1>3. Types /\ OneWrite /\ MapsFit /\ CallsFit /\ Offline /\ SavesCarry /\ LeavesLast /\ Placed
  BY DEF Inv, Shape
<1>4. /\ jobs = {} /\ waiting = {} /\ timer = "none"
      /\ \A c \in Callers : call[c].step \in {"idle", "asked"}
  BY <1>2, <1>3 DEF Offline, OneWrite
<1>5. labels \in SUBSET Names /\ \A n \in Names : n \in labels <=> disk[n] # NoFile
  BY <1>3 DEF MapsFit
<1>6. new \in [labels -> spare] /\ IsInjective(new)
  <2>1. \E f \in [labels -> spare] : IsInjective(f)
    <3> HIDE DEF labels
    <3>1. QED
      BY <1>5, StoresAreFree DEF Inv
  <2>2. QED
    BY <2>1
<1>7. spare \subseteq StoreIds /\ \A n \in Names : byName[n] \notin spare
  <2>1. Range(byName) \subseteq LiveStores
    BY DEF LiveStores
  <2>2. \A n \in Names : byName[n] \in Range(byName)
    BY <1>3 DEF Types, Range
  <2>3. QED
    BY <2>1, <2>2
<1>8. \A l \in labels : file[l] = l
  BY <1>1, <1>3, <1>5 DEF MapsFit
<1> HIDE DEF labels, spare, new
<1>9. \A n \in Names : byName'[n] = IF n \in labels THEN new[n] ELSE byName[n]
  BY <1>1
<1>10. ASSUME NEW l \in labels
       PROVE  /\ new[l] \in StoreIds /\ new[l] # 0 /\ stores'[new[l]] \in Store
              /\ stores'[new[l]].label = l /\ stores'[new[l]].docs = disk[l].docs
              /\ ~ stores'[new[l]].saving
  <2>1. new[l] \in StoreIds /\ new[l] \in Range(new) /\ new[l] # 0
    BY <1>6, <1>7, IdsAreNumbers DEF Range
  <2>2. (CHOOSE k \in labels : new[k] = new[l]) = l
    BY <1>6 DEF IsInjective
  <2>3. stores'[new[l]] = [NewStore(l) EXCEPT !.docs = disk[l].docs]
    BY <1>1, <1>8, <2>1, <2>2
  <2>4. disk[l] \in Image /\ l \in Names
    BY <1>3, <1>5 DEF Types
  <2>5. QED
    BY <2>1, <2>3, <2>4 DEF NewStore, Store, Image
<1>11. \A s \in StoreIds : s \notin Range(new) => stores'[s] = stores[s]
  BY <1>1
<1>12. \A n \in Names : byName[n] \notin Range(new)
  BY <1>6, <1>7 DEF Range
<1>13. \A s \in StoreIds : stores'[s] \in Store /\ ~ stores'[s].saving
  <2> TAKE s \in StoreIds
  <2>1. CASE s \in Range(new)
    <3>1. PICK l \in labels : s = new[l]
      BY <1>6, <2>1 DEF Range
    <3>2. QED
      BY <1>10, <3>1
  <2>2. CASE s \notin Range(new)
    BY <1>3, <1>4, <1>11, <2>2 DEF Types, OneWrite
  <2>3. QED
    BY <2>1, <2>2
<1>14. ASSUME NEW n \in Names
       PROVE  /\ byName'[n] \in StoreIds \union {0}
              /\ byName'[n] # 0 => stores'[byName'[n]].label = n
              /\ byName[n] # 0 => byName'[n] # 0
  <2>1. CASE n \in labels
    BY <1>9, <1>10, <2>1
  <2>2. CASE n \notin labels
    <3>1. byName'[n] = byName[n] /\ byName[n] \in StoreIds \union {0}
      BY <1>3, <1>9, <2>2 DEF Types
    <3>2. QED
      BY <1>3, <1>11, <1>12, <3>1 DEF MapsFit
  <2>3. QED
    BY <2>1, <2>2
<1>15. ASSUME NEW n \in Names, instances[n] # 0
       PROVE  /\ byName'[n] # 0
              /\ handles'[instances[n]] = [store |-> byName'[n], name |-> n]
  <2>1. byName[n] # 0 /\ handles[instances[n]] = [store |-> byName[n], name |-> n]
    BY <1>3, <1>15 DEF MapsFit
  <2>2. instances[n] \in HandleIds /\ byName'[n] # 0
    BY <1>3, <1>14, <1>15, <2>1 DEF Types
  <2>3. \A m \in Names : instances[m] = instances[n] => m = n
    <3>1. ASSUME NEW m \in Names, instances[m] # 0 PROVE handles[instances[m]].name = m
      <4>1. handles[instances[m]] = [store |-> byName[m], name |-> m]
        BY <1>3, <3>1 DEF MapsFit
      <4>2. QED
        BY <4>1
    <3>2. QED
      BY <1>15, <3>1
  <2>4. (CHOOSE m \in Names : instances[m] = instances[n] /\ byName'[m] # 0) = n
    BY <2>2, <2>3
  <2>5. handles'[instances[n]] = [handles[instances[n]] EXCEPT !.store = byName'[n]]
    BY <1>2, <2>2, <2>4 DEF Synced
  <2>6. QED
    BY <2>1, <2>2, <2>5
<1>16. handles' \in [HandleIds -> Handle]
  <2>1. ASSUME NEW h \in HandleIds PROVE handles'[h] \in Handle
    <3>1. handles[h] \in Handle
      BY <1>3 DEF Types
    <3>2. CASE \E n \in Names : instances[n] = h /\ byName'[n] # 0
      <4>1. PICK n \in Names : instances[n] = h /\ byName'[n] # 0
        BY <3>2
      <4>2. h # 0
        BY IdsAreNumbers
      <4>3. handles'[h] = [store |-> byName'[n], name |-> n]
        BY <1>15, <4>1, <4>2
      <4>4. QED
        BY <1>14, <4>3 DEF Handle
    <3>3. CASE ~ \E n \in Names : instances[n] = h /\ byName'[n] # 0
      BY <1>2, <3>1, <3>3 DEF Synced
    <3>4. QED
      BY <3>2, <3>3
  <2>2. QED
    BY <1>2, <2>1 DEF Synced
<1>17. Types'
  <2>1. stores' \in [StoreIds -> Store]
    BY <1>1, <1>13
  <2>2. byName' \in [Names -> StoreIds \union {0}]
    BY <1>1, <1>14
  <2>3. QED
    BY <1>2, <1>3, <1>16, <2>1, <2>2 DEF Types
<1>18. OneWrite' /\ MapsFit'
  BY <1>2, <1>3, <1>4, <1>13, <1>14, <1>15 DEF OneWrite, MapsFit
<1>19. CallsFit' /\ Offline' /\ SavesCarry' /\ LeavesLast'
  <2>1. \A c \in Callers : call[c].op \notin {"rename", "disconnect"} /\ call[c].step # "saving"
    BY <1>3, <1>4 DEF CallsFit
  <2>2. CallsFit'
    BY <1>2, <1>3, <2>1 DEF CallsFit
  <2>3. QED
    BY <1>2, <1>4, <2>1, <2>2 DEF Offline, SavesCarry, LeavesLast
<1>20. Placed'
  <2> SUFFICES ASSUME NEW d \in Docs, acked[d] > 0 PROVE HasPlace(d)'
    BY <1>2 DEF Placed
  <2>1. PICK n \in Names : disk[n] # NoFile /\ disk[n].docs[d] >= acked[d]
    BY <1>3 DEF Placed, HasPlace
  <2>2. n \in labels
    BY <1>5, <2>1
  <2>3. byName'[n] = new[n] /\ new[n] # 0 /\ stores'[new[n]].docs = disk[n].docs
    BY <1>9, <1>10, <2>2
  <2>4. Secure(n, d)'
    BY <1>2, <1>4, <2>1, <2>3 DEF Secure
  <2>5. QED
    BY <1>2, <2>1, <2>4 DEF HasPlace
<1>21. QED
  BY <1>17, <1>18, <1>19, <1>20 DEF Inv, Shape

-----------------------------------------------------------------------------
(* Between the turn that changes a collection and the one that saves it.   *)

Between == UnsavedIsHeld /\ WritersSave
OrderlyInv == setup.alone => Inv /\ Between

\* A save writes for its caller.
LEMMA SaveCalls ==
  ASSUME NEW c, NEW names, NEW ss, Save(c, names, ss)
  PROVE  /\ \A j \in jobs' : j \in jobs \/ j.call = c
         /\ \A w \in waiting' : w \in waiting \/ w.call = c
<1> DEFINE known == {n \in names : byName'[n] # 0}
           free  == {n \in known : ~ ss[byName'[n]].saving}
           new(n) == [call |-> c, file |-> n, store |-> byName'[n],
                      payload |-> Payload(ss[byName'[n]])]
           wait(n) == [call |-> c, store |-> byName'[n]]
<1>1. /\ jobs' = jobs \union {new(n) : n \in free}
      /\ waiting' = waiting \union {wait(n) : n \in known \ free}
  BY DEF Save
<1>2. \A n : new(n).call = c /\ wait(n).call = c
  OBVIOUS
<1> HIDE DEF known, free, new, wait
<1>3. QED
  BY <1>1, <1>2

\* A call between the two turns is about a collection there is.
LEMMA BetweenFacts ==
  ASSUME Inv, NEW b \in Callers, call[b].step \in {"changed", "marked"}
  PROVE  /\ connection = "on" /\ call[b].op \in OnCollection
         /\ call[b].name \in Names /\ call[b].doc \in Docs
         /\ byName[call[b].name] \in StoreIds /\ byName[call[b].name] # 0
         /\ handles[call[b].handle].store = byName[call[b].name]
         /\ handles[call[b].handle].name = call[b].name /\ call[b].handle # 0
<1>1. Types /\ MapsFit /\ CallsFit /\ Offline
  BY DEF Inv, Shape
<1>2. connection = "on" /\ call[b].op \in OnCollection
  BY <1>1 DEF Offline, CallsFit
<1>3. QED
  BY <1>1, <1>2, CallHolds, IdsAreNumbers DEF CallsFit

\* Until it marks, or saves, a call stays what it is, however others go on.
LEMMA CallsGoOn ==
  ASSUME Inv, WritersSave, setup.alone, [Next]_vars,
         NEW b \in Callers, call[b].step \in {"changed", "marked"}
  PROVE  \/ call'[b] = call[b] \/ call'[b] = [call[b] EXCEPT !.size = 0]
         \/ Mark(b) \/ SaveSeed(b) \/ Crash
<1>1. Types /\ CallsFit /\ LeavesLast /\ call \in [Callers -> CallState] /\ call[b].op \in OnCollection
  BY BetweenFacts DEF Inv, Shape, Types
<1>2. CASE UNCHANGED vars
  BY <1>2 DEF vars
<1>3. ASSUME NEW c \in Callers, NEW n \in Names, NEW d \in Docs,
             NEW op \in {"write", "remove", "put"}, Ask(c, op, n, d)
      PROVE  call'[b] = call[b]
  <2>1. b # c
    BY <1>1, <1>3 DEF Ask, Calls, OnCollection
  <2>2. QED
    BY <1>1, <1>3, <2>1 DEF Ask
<1>4. ASSUME NEW c \in Callers, NEW n \in Names, NEW d \in Docs, Seed(c, n, d)
      PROVE  call'[b] = call[b] \/ call'[b] = [call[b] EXCEPT !.size = 0]
  <2>1. b # c
    BY <1>1, <1>4 DEF Seed, Calls, OnCollection
  <2>2. QED
    BY <1>1, <1>4, <2>1 DEF Seed, Released
<1>5. ASSUME NEW c \in Callers, Change(c)
      PROVE  call'[b] = call[b] \/ call'[b] = [call[b] EXCEPT !.size = 0]
  <2>1. b # c
    BY <1>5 DEF Change
  <2>2. QED
    BY <1>1, <1>5, <2>1 DEF Change, Released
<1>6. ASSUME NEW c \in Callers, Mark(c) \/ SaveSeed(c), b # c
      PROVE  call'[b] = call[b]
  BY <1>1, <1>6 DEF Mark, SaveSeed
<1>7. ASSUME NEW c \in Callers, Resolve(c) \/ Remove(c) \/ Clear(c)
      PROVE  call'[b] = call[b]
  <2>1. b # c
    BY <1>1, <1>7 DEF Resolve, Remove, Clear, Saved, OnCollection
  <2>2. QED
    BY <1>1, <1>7, <2>1 DEF Resolve, Remove, Clear
<1>8. ASSUME NEW c \in Callers, Disconnect(c)
      PROVE  call'[b] = call[b]
  BY <1>1, <1>8 DEF Disconnect, OnCollection
<1>9. ASSUME NEW c \in Callers, NEW from \in Names, NEW to \in Names, Rename(c, from, to)
      PROVE  call'[b] = call[b]
  <2>1. /\ Calls(c, "rename")
        /\ call' = [call EXCEPT ![c] = [Idle EXCEPT !.op = "rename", !.name = from,
                                        !.to = to, !.step = "saving"]]
    BY <1>9, ZenonT(30) DEF Rename
  <2>2. b # c
    BY <1>1, <2>1 DEF Calls, OnCollection
  <2>3. QED
    BY <1>1, <2>1, <2>2
<1>10. ASSUME NEW j \in jobs, WriteLands(j) PROVE call'[b] = call[b]
  BY <1>10 DEF WriteLands
<1>11. ASSUME NEW j \in jobs, WriteFails(j) PROVE call'[b] = call[b]
  <2>1. call' = [c \in Callers |-> IF c \in {j.call} \union {w.call : w \in {v \in waiting : v.store = j.store}}
                                   THEN Idle ELSE call[c]]
    BY <1>11 DEF WriteFails
  <2>2. b # j.call /\ \A w \in waiting : b # w.call
    BY <1>11 DEF WritersSave
  <2>3. QED
    BY <2>1, <2>2
<1>12. ASSUME NEW n \in Names, Create(n) \/ Stats(n) PROVE call'[b] = call[b]
  BY <1>12 DEF Create, Stats
<1>13. ASSUME NEW expired \in SUBSET Mortal, Sweep(expired)
       PROVE  call'[b] = call[b] \/ call'[b] = [call[b] EXCEPT !.size = 0]
  BY <1>13 DEF Sweep, Released
<1>14. CASE Load
  BY <1>14 DEF Load
<1>15. QED
  BY <1>2, <1>3, <1>4, <1>5, <1>6, <1>7, <1>8, <1>9, <1>10, <1>11, <1>12, <1>13, <1>14 DEF Next

\* Who writes or waits was saving and still is.
LEMMA NextWriters ==
  ASSUME Inv, WritersSave, setup.alone, [Next]_vars
  PROVE  WritersSave'
<1>1. /\ call \in [Callers -> CallState] /\ CallsFit
      /\ \A w \in waiting : w.call \in Callers
      /\ NoCall \notin Callers
  BY RegistryAssumption DEF Inv, Shape, Types
<1>2. ASSUME NEW c \in Callers, call[c].step # "saving",
             \A b \in Callers \ {c} : call'[b].step = call[b].step,
             \/ UNCHANGED <<jobs, waiting>>
             \/ /\ call'[c].step = "saving"
                /\ \A j \in jobs' : j \in jobs \/ j.call = c
                /\ \A w \in waiting' : w \in waiting \/ w.call = c
      PROVE  WritersSave'
  <2>1. (\A j \in jobs : j.call # c) /\ \A w \in waiting : w.call # c
    BY <1>2 DEF WritersSave
  <2>2. QED
    BY <1>1, <1>2, <2>1 DEF WritersSave
<1>3. ASSUME \A b \in Callers : call'[b].step = call[b].step, UNCHANGED <<jobs, waiting>>
      PROVE  WritersSave'
  BY <1>1, <1>3 DEF WritersSave
<1>4. \A b \in Callers : [call[b] EXCEPT !.size = 0].step = call[b].step
  BY <1>1 DEF CallState
<1>5. CASE UNCHANGED vars
  BY <1>5 DEF vars, WritersSave
<1>6. ASSUME NEW c \in Callers, NEW kind, Calls(c, kind) PROVE call[c].step # "saving"
  BY <1>1, <1>6 DEF Calls, CallsFit
<1>7. ASSUME NEW c \in Callers, NEW n \in Names, NEW d \in Docs,
             NEW op \in {"write", "remove", "put"}, Ask(c, op, n, d)
      PROVE  WritersSave'
  <2>1. /\ call[c].step # "saving" /\ UNCHANGED <<jobs, waiting>>
        /\ \A b \in Callers \ {c} : call'[b].step = call[b].step
    BY <1>1, <1>6, <1>7 DEF Ask
  <2>2. QED
    BY <1>2, <2>1
<1>8. ASSUME NEW c \in Callers, NEW n \in Names, NEW d \in Docs, Seed(c, n, d)
      PROVE  WritersSave'
  <2>1. /\ call[c].step # "saving" /\ UNCHANGED <<jobs, waiting>>
        /\ \A b \in Callers \ {c} : call'[b].step = call[b].step
    BY <1>1, <1>4, <1>6, <1>8 DEF Seed, Released
  <2>2. QED
    BY <1>2, <2>1
<1>9. ASSUME NEW c \in Callers, Change(c) PROVE WritersSave'
  <2>1. /\ call[c].step # "saving" /\ UNCHANGED <<jobs, waiting>>
        /\ \A b \in Callers \ {c} : call'[b].step = call[b].step
    BY <1>1, <1>4, <1>9 DEF Change, Released
  <2>2. QED
    BY <1>2, <2>1
<1>10. ASSUME NEW c \in Callers, Mark(c) PROVE WritersSave'
  <2>1. /\ call[c].step # "saving"
        /\ \A b \in Callers \ {c} : call'[b].step = call[b].step
    BY <1>1, <1>10 DEF Mark
  <2>2. \/ UNCHANGED <<jobs, waiting>>
        \/ /\ Save(c, {handles[call[c].handle].name}, MarkDirty(stores, handles[call[c].handle].name))
           /\ call' = [call EXCEPT ![c].step = "saving"]
    BY <1>10 DEF Mark
  <2>3. call' = [call EXCEPT ![c].step = "saving"] => call'[c].step = "saving"
    BY <1>1 DEF CallState
  <2>4. QED
    BY <1>2, <2>1, <2>2, <2>3, SaveCalls
<1>11. ASSUME NEW c \in Callers, SaveSeed(c) PROVE WritersSave'
  <2>1. /\ call[c].step # "saving" /\ Save(c, Names, stores)
        /\ call' = [call EXCEPT ![c].step = "saving"]
    BY <1>11 DEF SaveSeed
  <2>2. call'[c].step = "saving" /\ \A b \in Callers \ {c} : call'[b].step = call[b].step
    BY <1>1, <2>1 DEF CallState
  <2>3. QED
    BY <1>2, <2>1, <2>2, SaveCalls
<1>12. ASSUME NEW c \in Callers, Disconnect(c) PROVE WritersSave'
  <2>1. /\ call[c].step # "saving" /\ Save(c, Names, stores)
        /\ call' = [call EXCEPT ![c] = [Idle EXCEPT !.op = "disconnect", !.step = "saving"]]
    BY <1>6, <1>12 DEF Disconnect
  <2>2. call'[c].step = "saving" /\ \A b \in Callers \ {c} : call'[b].step = call[b].step
    BY <1>1, <2>1 DEF Idle
  <2>3. QED
    BY <1>2, <2>1, <2>2, SaveCalls
<1>13. ASSUME NEW c \in Callers, NEW from \in Names, NEW to \in Names, Rename(c, from, to)
       PROVE  WritersSave'
  <2>1. /\ Calls(c, "rename") /\ Save(c, {to}, [stores EXCEPT ![byName[from]].label = to])
        /\ call' = [call EXCEPT ![c] = [Idle EXCEPT !.op = "rename", !.name = from,
                                        !.to = to, !.step = "saving"]]
    BY <1>13, ZenonT(30) DEF Rename
  <2>2. call'[c].step = "saving" /\ \A b \in Callers \ {c} : call'[b].step = call[b].step
    BY <1>1, <2>1 DEF Idle
  <2>3. QED
    BY <1>2, <1>6, <2>1, <2>2, SaveCalls
<1>14. ASSUME NEW c \in Callers, Resolve(c) \/ Clear(c) PROVE WritersSave'
  <2>1. /\ \A j \in jobs \union waiting : j.call # c
        /\ call' = [call EXCEPT ![c] = Idle] /\ UNCHANGED <<jobs, waiting>>
    BY <1>14 DEF Resolve, Clear, Saved
  <2>2. QED
    BY <1>1, <2>1 DEF WritersSave
<1>15. ASSUME NEW c \in Callers, Remove(c) PROVE WritersSave'
  <2>1. /\ call' = [call EXCEPT ![c] = Idle]
        /\ jobs' = {[j EXCEPT !.call = IF @ = c THEN NoCall ELSE @] : j \in jobs}
        /\ waiting' = {w \in waiting : w.call # c}
    BY <1>15 DEF Remove
  <2>2. jobs \subseteq Job
    BY DEF Inv, Shape, Types
  <2>3. \A j \in jobs : [j EXCEPT !.call = IF @ = c THEN NoCall ELSE @].call = IF j.call = c THEN NoCall ELSE j.call
    BY <2>2 DEF Job
  <2>4. ASSUME NEW i \in jobs', i.call \in Callers PROVE call'[i.call].step = "saving"
    <3>1. PICK j \in jobs : i = [j EXCEPT !.call = IF @ = c THEN NoCall ELSE @]
      BY <2>1, <2>4
    <3>2. i.call = j.call /\ j.call # c
      BY <1>1, <2>3, <2>4, <3>1
    <3>3. QED
      BY <1>1, <2>1, <2>4, <3>2 DEF WritersSave
  <2>5. QED
    BY <1>1, <2>1, <2>4 DEF WritersSave
<1>16. ASSUME NEW j \in jobs, WriteLands(j) PROVE WritersSave'
  <2>1. jobs \subseteq Job /\ [j EXCEPT !.payload = Payload(stores[j.store])].call = j.call
    BY DEF Inv, Shape, Types, Job
  <2>2. /\ call' = call /\ waiting' \subseteq waiting
        /\ \A i \in jobs' : i \in jobs \/ i.call = j.call
    BY <1>16, <2>1 DEF WriteLands
  <2>3. QED
    BY <2>2 DEF WritersSave
<1>17. ASSUME NEW j \in jobs, WriteFails(j) PROVE WritersSave'
  <2> DEFINE told == {j.call} \union {w.call : w \in {v \in waiting : v.store = j.store}}
  <2>1. /\ jobs' = {[i EXCEPT !.call = IF @ \in told THEN NoCall ELSE @] : i \in jobs \ {j}}
        /\ waiting' = {w \in waiting : w.store # j.store /\ w.call \notin told}
        /\ call' = [c \in Callers |-> IF c \in told THEN Idle ELSE call[c]]
    BY <1>17 DEF WriteFails
  <2> HIDE DEF told
  <2>2. jobs \subseteq Job
    BY DEF Inv, Shape, Types
  <2>3. \A i \in jobs : [i EXCEPT !.call = IF @ \in told THEN NoCall ELSE @].call
                        = IF i.call \in told THEN NoCall ELSE i.call
    BY <2>2 DEF Job
  <2>4. ASSUME NEW k \in jobs', k.call \in Callers PROVE call'[k.call].step = "saving"
    <3>1. PICK i \in jobs : k = [i EXCEPT !.call = IF @ \in told THEN NoCall ELSE @]
      BY <2>1, <2>4
    <3>2. k.call = i.call /\ i.call \notin told
      BY <1>1, <2>3, <2>4, <3>1
    <3>3. QED
      BY <2>1, <2>4, <3>2 DEF WritersSave
  <2>5. QED
    BY <1>1, <2>1, <2>4 DEF WritersSave
<1>18. ASSUME NEW n \in Names, Create(n) \/ Stats(n) PROVE WritersSave'
  BY <1>3, <1>18 DEF Create, Stats
<1>19. ASSUME NEW expired \in SUBSET Mortal, Sweep(expired) PROVE WritersSave'
  <2>1. UNCHANGED <<jobs, waiting>> /\ \A b \in Callers : call'[b].step = call[b].step
    BY <1>4, <1>19 DEF Sweep, Released
  <2>2. QED
    BY <1>3, <2>1
<1>20. CASE Load
  BY <1>3, <1>20 DEF Load
<1>21. CASE Crash
  BY <1>21 DEF Crash, WritersSave
<1>22. QED
  BY <1>5, <1>7, <1>8, <1>9, <1>10, <1>11, <1>12, <1>13, <1>14, <1>15, <1>16, <1>17,
     <1>18, <1>19, <1>20, <1>21 DEF Next

\* A save marks and changes no documents.
LEMMA SaveMarksNone ==
  ASSUME NEW c \in Callers, NEW names \in SUBSET Names, NEW ss \in [StoreIds -> Store],
         Save(c, names, ss)
  PROVE  \A s \in StoreIds : /\ stores'[s].docs = ss[s].docs
                             /\ stores'[s].statsDirty = ss[s].statsDirty
<1> SUFFICES ASSUME NEW s \in StoreIds
             PROVE  stores'[s].docs = ss[s].docs /\ stores'[s].statsDirty = ss[s].statsDirty
  OBVIOUS
<1> DEFINE known == {n \in names : byName'[n] # 0}
           free  == {n \in known : ~ ss[byName'[n]].saving}
<1>0. stores' = [x \in StoreIds |->
              IF \E n \in free : byName'[n] = x
              THEN [ss[x] EXCEPT !.saving = TRUE, !.pending = FALSE]
              ELSE IF \E n \in known : byName'[n] = x
              THEN [ss[x] EXCEPT !.pending = TRUE]
              ELSE ss[x]]
  BY DEF Save
<1> HIDE DEF known, free
<1>1. ss[s] \in Store
  OBVIOUS
<1>2. \/ stores'[s] = [ss[s] EXCEPT !.saving = TRUE, !.pending = FALSE]
      \/ stores'[s] = [ss[s] EXCEPT !.pending = TRUE]
      \/ stores'[s] = ss[s]
  BY <1>0
<1>3. QED
  BY <1>1, <1>2 DEF Store

\* A change is there still after a step that changes no documents.
LEMMA HeldQuiet ==
  ASSUME Inv, UnsavedIsHeld, UNCHANGED byName,
         \A s \in StoreIds : stores'[s].docs = stores[s].docs,
         \A b \in Callers : call'[b].step \in {"changed", "marked"} =>
           /\ call[b].step \in {"changed", "marked"} /\ call'[b].name = call[b].name
           /\ call'[b].doc = call[b].doc /\ call'[b].size = call[b].size
  PROVE  UnsavedIsHeld'
<1> SUFFICES ASSUME NEW b \in Callers, call'[b].step \in {"changed", "marked"}
             PROVE  stores'[byName[call'[b].name]].docs[call'[b].doc] >= call'[b].size
  BY DEF UnsavedIsHeld
<1>1. byName[call[b].name] \in StoreIds
  BY BetweenFacts
<1>2. QED
  BY <1>1 DEF UnsavedIsHeld

\* What a call has changed is there until it saves it, or is promised to nobody.
LEMMA NextHeld ==
  ASSUME Inv, Between, setup.alone, [Next]_vars
  PROVE  UnsavedIsHeld'
<1> DEFINE Late(b) == call[b].step \in {"changed", "marked"}
<1>1. /\ Shape /\ Types /\ MapsFit /\ CallsFit /\ Offline /\ LeavesLast
      /\ call \in [Callers -> CallState] /\ UnsavedIsHeld
  BY DEF Inv, Shape, Types, Between
<1>2. \A b \in Callers : Late(b) =>
        /\ connection = "on" /\ call[b].op \in OnCollection
        /\ call[b].name \in Names /\ call[b].doc \in Docs
        /\ byName[call[b].name] \in StoreIds /\ byName[call[b].name] # 0
        /\ handles[call[b].handle].name = call[b].name /\ call[b].handle # 0
        /\ stores[byName[call[b].name]].docs[call[b].doc] >= call[b].size
  BY <1>1, BetweenFacts DEF UnsavedIsHeld
<1>3. \A b \in Callers : [call[b] EXCEPT !.size = 0] = [call[b] EXCEPT !.size = 0]
                         /\ [call[b] EXCEPT !.size = 0].size = 0
                         /\ [call[b] EXCEPT !.size = 0].step = call[b].step
                         /\ [call[b] EXCEPT !.size = 0].name = call[b].name
                         /\ [call[b] EXCEPT !.size = 0].doc = call[b].doc
  BY <1>1 DEF CallState
<1>4. Idle.step = "idle"
  BY DEF Idle
<1>5. \A s \in StoreIds, d \in Docs : stores[s].docs[d] \in Nat
  BY <1>1, TypeFacts
<1>6. CASE UNCHANGED vars
  BY <1>1, <1>6, HeldQuiet DEF vars, memory
<1>7. ASSUME NEW c \in Callers, NEW n \in Names, NEW d \in Docs,
             NEW op \in {"write", "remove", "put"}, Ask(c, op, n, d)
      PROVE  UnsavedIsHeld'
  <2> DEFINE entered == [Idle EXCEPT !.op = op, !.name = n, !.doc = d,
                           !.handle = instances'[n], !.step = Entered]
  <2>1. Get(n) /\ call' = [call EXCEPT ![c] = entered] /\ UNCHANGED <<disk, jobs, waiting>>
    BY <1>7 DEF Ask
  <2>2. entered.step \in {"ready", "asked"}
    BY DEF Entered, Idle
  <2> HIDE DEF entered
  <2>3. \A b \in Callers : call'[b].step \in {"changed", "marked"} => b # c /\ call'[b] = call[b]
    BY <1>1, <2>1, <2>2
  <2>4. \A m \in Names : byName[m] # 0 => byName'[m] = byName[m] /\ stores'[byName[m]] = stores[byName[m]]
    BY <1>1, <2>1, GetDoes
  <2>5. QED
    BY <1>2, <2>3, <2>4 DEF UnsavedIsHeld
<1>8. ASSUME NEW c \in Callers, NEW n \in Names, NEW d \in Docs, Seed(c, n, d)
      PROVE  UnsavedIsHeld'
  <2> DEFINE gone == {e \in Docs : stores[byName[n]].docs[e] > 0}
             entered == [Idle EXCEPT !.op = "seed", !.name = n, !.doc = d,
                                     !.handle = FreeHandle, !.step = Entered]
  <2>1. /\ ~ Busy(n) /\ byName[n] # 0 /\ UNCHANGED byName
        /\ stores' = [stores EXCEPT ![byName[n]] = [stores[byName[n]] EXCEPT !.docs = Empty]]
        /\ call' = [Released(gone) EXCEPT ![c] = entered]
    BY <1>8 DEF Seed
  <2>2. entered.step \in {"ready", "asked"}
    BY DEF Entered, Idle
  <2> HIDE DEF entered, gone
  <2>3. \A b \in Callers : call'[b].step \in {"changed", "marked"} =>
          b # c /\ (call'[b] = call[b] \/ call'[b] = [call[b] EXCEPT !.size = 0])
    BY <1>1, <2>1, <2>2 DEF Released
  <2>4. \A b \in Callers : Late(b) => call[b].name # n
    BY <1>2, <2>1 DEF Busy
  <2>5. \A m \in Names : m # n /\ byName[m] # 0 => byName[m] # byName[n]
    BY <1>1, <2>1 DEF MapsFit
  <2>6. stores \in [StoreIds -> Store]
    BY <1>1 DEF Types
  <2>7. \A m \in Names : m # n /\ byName[m] \in StoreIds /\ byName[m] # 0
          => stores'[byName[m]] = stores[byName[m]]
    BY <2>1, <2>5, <2>6
  <2>8. ASSUME NEW b \in Callers, call'[b].step \in {"changed", "marked"}
        PROVE  stores'[byName'[call'[b].name]].docs[call'[b].doc] >= call'[b].size
    <3>1. /\ Late(b) /\ call'[b].name = call[b].name /\ call'[b].doc = call[b].doc
          /\ call'[b].size = call[b].size \/ call'[b].size = 0
      BY <1>3, <2>3, <2>8
    <3>2. stores'[byName'[call'[b].name]] = stores[byName[call[b].name]]
      BY <1>2, <2>1, <2>4, <2>7, <3>1
    <3>3. QED
      BY <1>2, <1>5, <3>1, <3>2
  <2>9. QED
    BY <2>8 DEF UnsavedIsHeld
<1>9. ASSUME NEW c \in Callers, Change(c) PROVE UnsavedIsHeld'
  <2>1. /\ call[c].name \in Names /\ call[c].doc \in Docs
        /\ byName[call[c].name] \in StoreIds /\ UNCHANGED byName
        /\ \/ call' = [call EXCEPT ![c] = Idle] /\ UNCHANGED <<stores, acked>>
           \/ \E new \in 0..MaxSize, removed \in SUBSET Docs : Changes(c, new, removed)
    BY <1>9, ChangeDoes
  <2>2. CASE call' = [call EXCEPT ![c] = Idle] /\ UNCHANGED <<stores, acked>>
    BY <1>1, <1>4, <2>1, <2>2, HeldQuiet
  <2>3. ASSUME NEW new \in 0..MaxSize, NEW removed \in SUBSET Docs, Changes(c, new, removed),
               NEW b \in Callers, call'[b].step \in {"changed", "marked"}
        PROVE  stores'[byName'[call'[b].name]].docs[call'[b].doc] >= call'[b].size
    <3> DEFINE s == byName[call[c].name]
    <3>1. /\ removed = IF new = 0 THEN {call[c].doc} ELSE {}
          /\ new # 0 => new > stores[s].docs[call[c].doc]
          /\ \A x \in StoreIds, d \in Docs :
               stores'[x].docs[d] = IF x = s /\ d = call[c].doc THEN new ELSE stores[x].docs[d]
      BY <2>3 DEF Changes
    <3>2. CASE b = c
      <4>1. call'[c].name = call[c].name /\ call'[c].doc = call[c].doc /\ call'[c].size = new
        BY <2>3 DEF Changes
      <4>2. QED
        BY <2>1, <3>1, <3>2, <4>1
    <3>3. CASE b # c
      <4>1. /\ call'[b].name = call[b].name /\ call'[b].doc = call[b].doc /\ Late(b)
            /\ call'[b].size = IF call[b].doc \in removed THEN 0 ELSE call[b].size
        BY <2>3, <3>3 DEF Changes
      <4> DEFINE x == byName[call[b].name]
                 e == call[b].doc
      <4>2. /\ x \in StoreIds /\ e \in Docs /\ stores[x].docs[e] >= call[b].size
            /\ stores[x].docs[e] \in Nat /\ call[b].size \in Nat
        BY <1>1, <1>2, <1>5, <4>1, TypeFacts
      <4>3. stores'[x].docs[e] = IF x = s /\ e = call[c].doc THEN new ELSE stores[x].docs[e]
        BY <3>1, <4>2
      <4> HIDE DEF x, e
      <4>4. QED
        BY <2>1, <3>1, <4>1, <4>2, <4>3 DEF x, e
    <3>4. QED
      BY <3>2, <3>3
  <2>4. QED
    BY <2>1, <2>2, <2>3 DEF UnsavedIsHeld
<1>10. ASSUME NEW c \in Callers, Mark(c) PROVE UnsavedIsHeld'
  <2> DEFINE n == call[c].name
             ss == MarkDirty(stores, n)
             next == [call[c] EXCEPT !.step = "marked"]
  <2>1. Late(c) /\ UNCHANGED byName
    BY <1>10 DEF Mark
  <2>2. n \in Names /\ byName[n] # 0 /\ handles[call[c].handle].name = n
    BY <1>2, <2>1
  <2>3. \/ stores' = ss /\ (call' = [call EXCEPT ![c] = Idle] \/ call' = [call EXCEPT ![c] = next])
        \/ Save(c, {n}, ss) /\ call' = [call EXCEPT ![c].step = "saving"]
    BY <1>10, <2>2 DEF Mark
  <2>4. ss \in [StoreIds -> Store] /\ \A x \in StoreIds : ss[x].docs = stores[x].docs
    BY <1>1, <2>2, MarkDirtyDoes
  <2>5. next.name = n /\ next.doc = call[c].doc /\ next.size = call[c].size
    BY <1>1 DEF CallState
  <2> HIDE DEF ss, next
  <2>6. {n} \in SUBSET Names
    BY <2>2
  <2>7. \A x \in StoreIds : stores'[x].docs = stores[x].docs
    BY <2>3, <2>4, <2>6, SaveMarksNone
  <2>8. [call[c] EXCEPT !.step = "saving"].step = "saving"
    BY <1>1 DEF CallState
  <2>9. \A b \in Callers : call'[b].step \in {"changed", "marked"} =>
           /\ call[b].step \in {"changed", "marked"} /\ call'[b].name = call[b].name
           /\ call'[b].doc = call[b].doc /\ call'[b].size = call[b].size
    BY <1>1, <1>4, <2>1, <2>3, <2>5, <2>8
  <2>10. QED
    BY <1>1, <2>1, <2>7, <2>9, HeldQuiet
<1>11. ASSUME NEW c \in Callers, SaveSeed(c) PROVE UnsavedIsHeld'
  <2>1. /\ Save(c, Names, stores) /\ UNCHANGED byName /\ stores \in [StoreIds -> Store]
        /\ call' = [call EXCEPT ![c].step = "saving"] /\ Names \in SUBSET Names
    BY <1>1, <1>11 DEF SaveSeed, Types
  <2>2. \A x \in StoreIds : stores'[x].docs = stores[x].docs
    BY <2>1, SaveMarksNone
  <2>3. call'[c].step = "saving" /\ \A b \in Callers : b # c => call'[b] = call[b]
    BY <1>1, <2>1 DEF CallState
  <2>4. \A b \in Callers : call'[b].step \in {"changed", "marked"} => call'[b] = call[b]
    BY <2>3
  <2>5. QED
    BY <1>1, <2>1, <2>2, <2>4, HeldQuiet
<1>12. ASSUME NEW c \in Callers, Resolve(c) \/ Remove(c) PROVE UnsavedIsHeld'
  BY <1>1, <1>4, <1>12, HeldQuiet DEF Resolve, Remove, memory
<1>13. ASSUME NEW c \in Callers, Disconnect(c) \/ Clear(c) PROVE UnsavedIsHeld'
  <2>1. \A b \in Callers : b # c => call[b].op = "none" /\ call[b].step = "idle"
    BY <1>1, <1>13 DEF Disconnect, Clear, LeavesLast, CallsFit
  <2>2. \A b \in Callers : b # c => call'[b] = call[b]
    BY <1>1, <1>13 DEF Disconnect, Clear
  <2>3. call'[c].step \in {"idle", "saving"}
    <3>1. CASE Clear(c)
      BY <1>1, <1>4, <3>1 DEF Clear
    <3>2. CASE Disconnect(c)
      <4>1. [Idle EXCEPT !.op = "disconnect", !.step = "saving"].step = "saving"
        BY DEF Idle
      <4>2. QED
        BY <1>1, <3>2, <4>1 DEF Disconnect
    <3>3. QED
      BY <1>13, <3>1, <3>2
  <2>4. QED
    BY <2>1, <2>2, <2>3 DEF UnsavedIsHeld
<1>14. ASSUME NEW c \in Callers, NEW from \in Names, NEW to \in Names, Rename(c, from, to)
       PROVE  UnsavedIsHeld'
  <2> DEFINE ss == [stores EXCEPT ![byName[from]].label = to]
             entered == [Idle EXCEPT !.op = "rename", !.name = from, !.to = to, !.step = "saving"]
  <2>1. Relabel(from, to) /\ Save(c, {to}, ss) /\ call' = [call EXCEPT ![c] = entered]
    BY <1>14, ZenonT(30) DEF Rename
  <2>2. ~ Busy(from) /\ byName[from] # 0 /\ byName[to] = 0
    BY <1>14, ZenonT(30) DEF Rename
  <2>3. byName' = [byName EXCEPT ![to] = byName[from], ![from] = 0]
    BY <2>1 DEF Relabel
  <2>4. ss \in [StoreIds -> Store] /\ \A x \in StoreIds : ss[x].docs = stores[x].docs
    <3>1. stores \in [StoreIds -> Store] /\ byName[from] \in StoreIds
      BY <1>1, <2>2, TypeFacts DEF Types
    <3>2. [stores[byName[from]] EXCEPT !.label = to] \in Store
          /\ [stores[byName[from]] EXCEPT !.label = to].docs = stores[byName[from]].docs
      BY <3>1 DEF Store
    <3>3. QED
      BY <3>1, <3>2
  <2>5. entered.step = "saving"
    BY DEF Idle
  <2> HIDE DEF ss, entered
  <2>6. \A x \in StoreIds : stores'[x].docs = stores[x].docs
    BY <2>1, <2>4, SaveMarksNone
  <2>7. \A b \in Callers : call'[b].step \in {"changed", "marked"} => call'[b] = call[b] /\ Late(b)
    BY <1>1, <2>1, <2>5
  <2>8. \A b \in Callers : Late(b) => call[b].name # from /\ call[b].name # to
    BY <1>2, <2>2 DEF Busy
  <2>9. \A n \in Names : n # from /\ n # to => byName'[n] = byName[n]
    BY <1>1, <2>3 DEF Types
  <2>10. QED
    BY <1>2, <2>6, <2>7, <2>8, <2>9 DEF UnsavedIsHeld
<1>15. ASSUME NEW j \in jobs, WriteLands(j) \/ WriteFails(j) PROVE UnsavedIsHeld'
  <2>1. /\ UNCHANGED byName /\ stores \in [StoreIds -> Store]
        /\ \/ stores' = [stores EXCEPT ![j.store].pending = FALSE]
           \/ stores' = [stores EXCEPT ![j.store].saving = FALSE]
    BY <1>1, <1>15 DEF WriteLands, WriteFails, Types
  <2>2. \A s \in StoreIds : stores'[s].docs = stores[s].docs
    <3> TAKE s \in StoreIds
    <3>1. /\ stores[s] \in Store
          /\ \/ stores'[s] = stores[s]
             \/ stores'[s] = [stores[s] EXCEPT !.pending = FALSE]
             \/ stores'[s] = [stores[s] EXCEPT !.saving = FALSE]
      BY <2>1
    <3>2. QED
      BY <3>1 DEF Store
  <2>3. \A b \in Callers : call'[b] = call[b] \/ call'[b] = Idle
    BY <1>15 DEF WriteLands, WriteFails
  <2>4. QED
    BY <1>1, <1>4, <2>1, <2>2, <2>3, HeldQuiet
<1>16. ASSUME NEW n \in Names, Stats(n) PROVE UnsavedIsHeld'
  <2>1. /\ UNCHANGED <<byName, call>> /\ stores \in [StoreIds -> Store]
        /\ stores' = [stores EXCEPT ![byName[n]].statsDirty = FALSE]
    BY <1>1, <1>16 DEF Stats, Types
  <2>2. \A s \in StoreIds : stores'[s].docs = stores[s].docs
    <3> TAKE s \in StoreIds
    <3>1. /\ stores[s] \in Store
          /\ stores'[s] = stores[s] \/ stores'[s] = [stores[s] EXCEPT !.statsDirty = FALSE]
      BY <2>1
    <3>2. QED
      BY <3>1 DEF Store
  <2>3. QED
    BY <1>1, <2>1, <2>2, HeldQuiet
<1>17. ASSUME connection # "on", UNCHANGED call PROVE UnsavedIsHeld'
  BY <1>1, <1>17 DEF UnsavedIsHeld, Offline
<1>18. ASSUME NEW n \in Names, Create(n) PROVE UnsavedIsHeld'
  BY <1>17, <1>18 DEF Create
<1>19. CASE Load
  BY <1>17, <1>19 DEF Load
<1>20. ASSUME NEW expired \in SUBSET Mortal, Sweep(expired) PROVE UnsavedIsHeld'
  <2> DEFINE rest(s) == [d \in Docs |-> IF d \in expired THEN 0 ELSE stores[s].docs[d]]
  <2>1. /\ UNCHANGED byName /\ stores \in [StoreIds -> Store]
        /\ \A s \in StoreIds : \/ stores'[s] = stores[s]
                               \/ stores'[s] = [stores[s] EXCEPT !.statsDirty = TRUE, !.docs = rest(s)]
    <3>1. \A s \in StoreIds :
            [stores[s] EXCEPT !.statsDirty = TRUE,
                              !.docs = [d \in Docs |-> IF d \in expired THEN 0 ELSE @[d]]]
            = [stores[s] EXCEPT !.statsDirty = TRUE, !.docs = rest(s)]
      OBVIOUS
    <3> HIDE DEF rest
    <3>2. QED
      BY <1>1, <1>20, <3>1 DEF Sweep, Types
  <2>2. \A s \in StoreIds, d \in Docs : d \notin expired => stores'[s].docs[d] = stores[s].docs[d]
    <3> TAKE s \in StoreIds, d \in Docs
    <3>1. d \notin expired => rest(s)[d] = stores[s].docs[d]
      OBVIOUS
    <3> HIDE DEF rest
    <3>2. stores'[s].docs = stores[s].docs \/ stores'[s].docs = rest(s)
      BY <2>1 DEF Store
    <3>3. QED
      BY <3>1, <3>2
  <2>3. \A s \in StoreIds, d \in Docs : stores'[s].docs[d] \in Nat
    <3> TAKE s \in StoreIds, d \in Docs
    <3>1. rest(s)[d] \in Nat
      BY <1>5
    <3> HIDE DEF rest
    <3>2. stores'[s].docs = stores[s].docs \/ stores'[s].docs = rest(s)
      BY <2>1 DEF Store
    <3>3. QED
      BY <1>5, <3>1, <3>2
  <2>4. \A b \in Callers : call'[b] = IF call[b].doc \in expired
                                      THEN [call[b] EXCEPT !.size = 0] ELSE call[b]
    BY <1>20 DEF Sweep, Released
  <2> HIDE DEF rest
  <2>5. ASSUME NEW b \in Callers, call'[b].step \in {"changed", "marked"}
        PROVE  stores'[byName'[call'[b].name]].docs[call'[b].doc] >= call'[b].size
    <3>1. /\ Late(b) /\ call'[b].name = call[b].name /\ call'[b].doc = call[b].doc
          /\ call'[b].size = IF call[b].doc \in expired THEN 0 ELSE call[b].size
      BY <1>3, <2>4, <2>5
    <3> DEFINE s == byName[call[b].name]
               e == call[b].doc
    <3>2. s \in StoreIds /\ e \in Docs /\ stores[s].docs[e] >= call[b].size
      BY <1>2, <3>1
    <3>3. byName'[call'[b].name] = s /\ call'[b].doc = e
      BY <2>1, <3>1
    <3> HIDE DEF s, e
    <3>4. stores'[s].docs[e] \in Nat /\ (e \notin expired => stores'[s].docs[e] = stores[s].docs[e])
      BY <2>2, <2>3, <3>2
    <3>5. CASE call[b].doc \in expired
      BY <3>1, <3>3, <3>4, <3>5
    <3>6. CASE call[b].doc \notin expired
      BY <3>1, <3>2, <3>3, <3>4, <3>6 DEF e
    <3>7. QED
      BY <3>5, <3>6
  <2>6. QED
    BY <2>5 DEF UnsavedIsHeld
<1>21. CASE Crash
  BY <1>4, <1>21 DEF Crash, UnsavedIsHeld
<1>22. QED
  BY <1>6, <1>7, <1>8, <1>9, <1>10, <1>11, <1>12, <1>13, <1>14, <1>15, <1>16,
     <1>18, <1>19, <1>20, <1>21 DEF Next

-----------------------------------------------------------------------------
(* The invariant.                                                          *)

LEMMA InitHolds ==
  ASSUME Init
  PROVE  Inv /\ Between
<1>1. /\ setup \in Setups
      /\ stores = [s \in StoreIds |-> NewStore(NoCall)]
      /\ handles = [h \in HandleIds |-> NoHandle]
      /\ byName = [n \in Names |-> 0] /\ instances = [n \in Names |-> 0]
      /\ disk = [n \in Names |-> NoFile]
      /\ jobs = {} /\ waiting = {}
      /\ call = [c \in Callers |-> Idle]
      /\ connection = "off" /\ timer = "none" /\ acked = Empty
  BY DEF Init
<1>2. Empty \in Numbers /\ \A d \in Docs : ~ Empty[d] > 0
  BY RegistryAssumption DEF Empty, Numbers
<1>3. NewStore(NoCall) \in Store /\ NoHandle \in Handle /\ NewStore(NoCall).saving = FALSE
  BY <1>2 DEF NewStore, NoHandle, Store, Handle
<1>4. Types
  BY <1>1, <1>2, <1>3, IdleIsACall DEF Types
<1>5. OneWrite /\ MapsFit
  BY <1>1, <1>3 DEF OneWrite, MapsFit
<1>6. \A c \in Callers : call[c] = Idle
  BY <1>1
<1>7. CallsFit /\ Offline /\ SavesCarry /\ LeavesLast
  BY <1>1, <1>6 DEF CallsFit, Offline, SavesCarry, LeavesLast, Idle, OnCollection
<1>8. Placed
  BY <1>1, <1>2 DEF Placed
<1>9. Between
  BY <1>1, <1>6 DEF Between, UnsavedIsHeld, WritersSave, Idle
<1>10. QED
  BY <1>4, <1>5, <1>7, <1>8, <1>9 DEF Inv, Shape

LEMMA SetupStays ==
  ASSUME [Next]_vars
  PROVE  setup' = setup
<1>1. CASE UNCHANGED vars
  BY <1>1 DEF vars
<1>2. ASSUME NEW c \in Callers,
             \/ Change(c) \/ Mark(c) \/ SaveSeed(c)
             \/ Resolve(c) \/ Remove(c) \/ Disconnect(c) \/ Clear(c)
             \/ \E n \in Names, d \in Docs : Seed(c, n, d) \/ \E op \in Ops : Ask(c, op, n, d)
             \/ \E from, to \in Names : Rename(c, from, to)
      PROVE  setup' = setup
  BY <1>2 DEF Change, Mark, SaveSeed, Resolve, Remove, Disconnect, Clear, Seed, Ask, Rename
<1>3. ASSUME NEW j \in jobs, WriteLands(j) \/ WriteFails(j) PROVE setup' = setup
  BY <1>3 DEF WriteLands, WriteFails
<1>4. ASSUME NEW n \in Names, Create(n) \/ Stats(n) PROVE setup' = setup
  BY <1>4 DEF Create, Stats
<1>5. ASSUME NEW expired \in SUBSET Mortal, Sweep(expired) PROVE setup' = setup
  BY <1>5 DEF Sweep
<1>6. CASE Load \/ Crash
  BY <1>6 DEF Load, Crash
<1>7. {"write", "remove", "put"} \subseteq Ops
  BY DEF Ops
<1>8. QED
  BY <1>1, <1>2, <1>3, <1>4, <1>5, <1>6, <1>7 DEF Next

LEMMA NextKeeps ==
  ASSUME OrderlyInv, [Next]_vars
  PROVE  OrderlyInv'
<1>0. SUFFICES ASSUME setup.alone PROVE Inv' /\ Between'
  BY SetupStays DEF OrderlyInv
<1>1. Inv /\ Between /\ UnsavedIsHeld /\ WritersSave
  BY <1>0 DEF OrderlyInv, Between
<1>2. ASSUME UNCHANGED vars PROVE Inv'
  <2>1. Shape'
    BY <1>1, <1>2 DEF vars, memory, Inv, Shape, Types, OneWrite, MapsFit, CallsFit, Offline
  <2>2. SavesCarry'
    BY <1>1, <1>2 DEF vars, memory, Inv, SavesCarry, WillBe, Carries, Settled, Awaits
  <2>3. LeavesLast'
    BY <1>1, <1>2 DEF vars, memory, Inv, LeavesLast, WillBe, Carries, Settled, Awaits
  <2>4. Placed'
    BY <1>1, <1>2 DEF vars, memory, Inv, Placed, HasPlace, Secure, WillBe, Carries, Settled, Awaits
  <2>5. QED
    BY <2>1, <2>2, <2>3, <2>4 DEF Inv
<1>3. ASSUME NEW c \in Callers, NEW n \in Names, NEW d \in Docs,
             NEW op \in {"write", "remove", "put"}, Ask(c, op, n, d)
      PROVE  Inv'
  BY <1>0, <1>1, <1>3, StepAsk
<1>4. ASSUME NEW c \in Callers, NEW n \in Names, NEW d \in Docs, Seed(c, n, d)
      PROVE  Inv'
  BY <1>0, <1>1, <1>4, StepSeed
<1>5. ASSUME NEW c \in Callers, Change(c) \/ Mark(c) \/ SaveSeed(c) PROVE Inv'
  BY <1>1, <1>5, StepChange, StepMark, StepSaveSeed
<1>6. ASSUME NEW c \in Callers, Resolve(c) PROVE Inv'
  BY <1>1, <1>6, StepResolve
<1>7. ASSUME NEW c \in Callers, Remove(c) PROVE Inv'
  BY <1>1, <1>7, StepRemove
<1>8. ASSUME NEW c \in Callers, Disconnect(c) PROVE Inv'
  BY <1>0, <1>1, <1>8, StepDisconnect
<1>9. ASSUME NEW c \in Callers, Clear(c) PROVE Inv'
  BY <1>1, <1>9, StepClear
<1>10. ASSUME NEW c \in Callers, NEW from \in Names, NEW to \in Names, Rename(c, from, to)
       PROVE  Inv'
  BY <1>0, <1>1, <1>10, StepRename
<1>11. ASSUME NEW j \in jobs, WriteLands(j) PROVE Inv'
  BY <1>1, <1>11, StepWriteLands
<1>12. ASSUME NEW j \in jobs, WriteFails(j) PROVE Inv'
  BY <1>1, <1>12, StepWriteFails
<1>13. ASSUME NEW n \in Names, Create(n) PROVE Inv'
  BY <1>0, <1>1, <1>13, StepCreate
<1>14. ASSUME NEW n \in Names, Stats(n) PROVE Inv'
  BY <1>1, <1>14, StepStats
<1>15. ASSUME NEW expired \in SUBSET Mortal, Sweep(expired) PROVE Inv'
  BY <1>1, <1>15, StepSweep
<1>16. ASSUME Load PROVE Inv'
  BY <1>1, <1>16, StepLoad
<1>17. ASSUME Crash PROVE Inv'
  BY <1>1, <1>17, StepCrash
<1>18. Between'
  BY <1>0, <1>1, NextHeld, NextWriters DEF Between
<1>19. QED
  BY <1>2, <1>3, <1>4, <1>5, <1>6, <1>7, <1>8, <1>9, <1>10, <1>11, <1>12, <1>13,
     <1>14, <1>15, <1>16, <1>17, <1>18 DEF Next

LEMMA InvIsEnough ==
  ASSUME Inv
  PROVE  TypeOK /\ AckedIsStored /\ RegistryAgrees
<1>1. Types /\ OneWrite /\ MapsFit /\ Offline /\ Placed
  BY DEF Inv, Shape
<1>2. TypeOK
  <2>1. \A s \in StoreIds : stores[s].docs \in Numbers
    BY <1>1 DEF Types, Store
  <2>2. QED
    BY <1>1, <2>1, TypeFacts DEF TypeOK, Types, OneWrite
<1>3. AckedIsStored
  BY <1>1 DEF AckedIsStored, Placed, HasPlace
<1>4. RegistryAgrees
  BY <1>1 DEF RegistryAgrees, MapsFit, Offline
<1>5. QED
  BY <1>2, <1>3, <1>4

-----------------------------------------------------------------------------
(* The cached statistics.                                                  *)

Told(docs) == [count |-> Count(docs), size |-> Size(docs)]

\* A call has changed the collection of the name, and not marked it yet.
Changed(n) == \E c \in Callers : call[c].step = "changed" /\ call[c].name = n

CacheTypes ==
    /\ used \in [calls : Nat, renames : Nat, crashed : BOOLEAN]
    /\ cache = [n \in Names |-> cache[n]]

\* What is cached was once counted in some contents.  Those of a store that is
\* not marked are what was counted, unless the files were loaded since, it was
\* emptied by a seed, or the mark is on its way.
Fits(n) ==
    cache[n] # NoFile =>
      /\ \E docs \in Numbers : cache[n] = Told(docs)
      /\ byName[n] # 0 =>
           \/ stores[byName[n]].statsDirty
           \/ Changed(n)
           \/ stores[byName[n]].docs = Empty
           \/ cache[n] \in {Told(Empty), Told(stores[byName[n]].docs)}

\* Before the first rename a name that stands for nothing has nothing cached.
NamedOnly(n) == used.renames = 0 /\ byName[n] = 0 => cache[n] = NoFile

\* Before connect() has loaded the files the collections are empty.
EmptyAtFirst(n) ==
    connection # "on" =>
      /\ byName[n] # 0 => stores[byName[n]].docs = Empty
      /\ cache[n] # NoFile => cache[n] = Told(Empty)

CachedRight == \A n \in Names : Fits(n) /\ NamedOnly(n) /\ EmptyAtFirst(n)
CacheInv == CacheTypes /\ (used.renames <= 1 => CachedRight)
OrderlyCache == setup.alone => CacheInv

\* Contents with no document are empty.
LEMMA NoneIsEmpty ==
  ASSUME NEW docs \in Numbers, Count(docs) = 0
  PROVE  docs = Empty
<1> DEFINE there == {d \in Docs : docs[d] > 0}
<1>1. there = {}
  <2>1. IsFiniteSet(there)
    BY DocsAssumption, FS_Subset
  <2>2. Cardinality(there) = 0
    BY DEF Count
  <2> HIDE DEF there
  <2>3. QED
    BY <2>1, <2>2, FS_EmptySet
<1>2. docs \in [Docs -> 0..MaxSize] /\ MaxSize \in Nat
  BY RegistryAssumption DEF Numbers
<1>3. \A d \in Docs : docs[d] = 0
  <2> SUFFICES ASSUME NEW d \in Docs PROVE docs[d] = 0
    OBVIOUS
  <2>1. docs[d] \in 0..MaxSize /\ ~ docs[d] > 0
    BY <1>1, <1>2
  <2>2. QED
    BY <1>2, <2>1
<1>4. docs = [d \in Docs |-> docs[d]]
  BY <1>2
<1>5. QED
  BY <1>3, <1>4 DEF Empty

LEMMA EmptyHasNone == Empty \in Numbers /\ Count(Empty) = 0
<1>1. {d \in Docs : Empty[d] > 0} = {}
  BY DEF Empty
<1>2. Count(Empty) = 0
  BY <1>1, FS_EmptySet DEF Count
<1>3. QED
  BY <1>2, RegistryAssumption DEF Empty, Numbers

LEMMA CacheIsEnough ==
  ASSUME Inv, CachedRight
  PROVE  StatsAreCurrent
<1> SUFFICES ASSUME NEW n \in Names, Served(n), ~ Unmarked(byName[n])
             PROVE  cache[n].size = Size(stores[byName[n]].docs)
  BY DEF StatsAreCurrent
<1> DEFINE docs == stores[byName[n]].docs
<1>0. Types /\ ~ Changed(n)
  <2>1. ASSUME NEW c \in Callers, call[c].step = "changed", call[c].name = n
        PROVE  Unmarked(byName[n])
    BY <2>1, BetweenFacts DEF Unmarked
  <2>2. QED
    BY <2>1 DEF Changed, Inv, Shape
<1>1. /\ byName[n] # 0 /\ cache[n] # NoFile /\ ~ stores[byName[n]].statsDirty
      /\ cache[n].count = Count(docs)
  BY DEF Served
<1>2. docs \in Numbers
  BY <1>0, <1>1 DEF Types, Store
<1>3. docs = Empty \/ cache[n] \in {Told(Empty), Told(docs)}
  BY <1>0, <1>1 DEF CachedRight, Fits
<1>4. PICK f \in Numbers : cache[n] = Told(f)
  BY <1>1 DEF CachedRight, Fits
<1> HIDE DEF docs
<1>5. CASE docs = Empty
  <2>1. f = Empty
    BY <1>1, <1>4, <1>5, EmptyHasNone, NoneIsEmpty DEF Told
  <2>2. QED
    BY <1>4, <1>5, <2>1 DEF Told, docs
<1>6. CASE cache[n] = Told(Empty)
  <2>1. docs = Empty
    BY <1>1, <1>2, <1>6, EmptyHasNone, NoneIsEmpty DEF Told
  <2>2. QED
    BY <1>6, <2>1 DEF Told, docs
<1>7. CASE cache[n] = Told(docs)
  BY <1>7 DEF Told, docs
<1>8. QED
  BY <1>3, <1>5, <1>6, <1>7

\* No mark that was on its way is forgotten.
MarksRemain == \A n \in Names : Changed(n) => Changed(n)'

\* The cache fits still when every collection is as it was, is marked or will
\* be, or is empty.
LEMMA CacheStays ==
  ASSUME CacheTypes, used.renames <= 1 => CachedRight,
         UNCHANGED <<byName, cache>>,
         used' \in [calls : Nat, renames : Nat, crashed : BOOLEAN],
         used'.renames = used.renames,
         connection' # "on" => connection # "on",
         \A n \in Names : byName[n] # 0 =>
           \/ /\ stores'[byName[n]].docs = stores[byName[n]].docs
              /\ stores'[byName[n]].statsDirty = stores[byName[n]].statsDirty
              /\ Changed(n) => Changed(n)'
           \/ stores'[byName[n]].docs = Empty
           \/ (stores'[byName[n]].statsDirty \/ Changed(n)') /\ connection' = "on"
  PROVE  CacheInv'
<1>1. CacheTypes'
  BY DEF CacheTypes
<1>2. ASSUME used.renames <= 1, NEW n \in Names
      PROVE  (Fits(n) /\ NamedOnly(n) /\ EmptyAtFirst(n))'
  <2>1. Fits(n) /\ NamedOnly(n) /\ EmptyAtFirst(n)
    BY <1>2 DEF CachedRight
  <2>2. Fits(n)'
    BY <2>1 DEF Fits
  <2>3. NamedOnly(n)' /\ EmptyAtFirst(n)'
    BY <2>1 DEF NamedOnly, EmptyAtFirst
  <2>4. QED
    BY <2>2, <2>3
<1>3. QED
  BY <1>1, <1>2 DEF CacheInv, CachedRight

\* A call that is made counts, a rename as one.
LEMMA CallsCount ==
  ASSUME CacheTypes, NEW c, NEW kind, Calls(c, kind)
  PROVE  /\ used' \in [calls : Nat, renames : Nat, crashed : BOOLEAN]
         /\ kind # "rename" => used'.renames = used.renames
         /\ kind = "rename" => used'.renames = used.renames + 1
<1>1. used' = [used EXCEPT !.calls = @ + 1, !.renames = @ + IF kind = "rename" THEN 1 ELSE 0]
  BY DEF Calls
<1>2. used \in [calls : Nat, renames : Nat, crashed : BOOLEAN]
  BY DEF CacheTypes
<1> DEFINE more == IF kind = "rename" THEN 1 ELSE 0
<1>3. used' = [used EXCEPT !.calls = used.calls + 1, !.renames = used.renames + more]
  BY <1>1
<1>4. more \in Nat /\ (kind = "rename" => more = 1) /\ (kind # "rename" => more = 0)
  OBVIOUS
<1> HIDE DEF more
<1>5. used' \in [calls : Nat, renames : Nat, crashed : BOOLEAN] /\ used'.renames = used.renames + more
  <2>1. used.calls + 1 \in Nat /\ used.renames + more \in Nat
    BY <1>2, <1>4
  <2> DEFINE a == used.calls + 1
             b == used.renames + more
  <2>2. used' = [used EXCEPT !.calls = a, !.renames = b] /\ a \in Nat /\ b \in Nat
    BY <1>3, <2>1
  <2> HIDE DEF a, b
  <2>3. used' \in [calls : Nat, renames : Nat, crashed : BOOLEAN] /\ used'.renames = b
    BY <1>2, <2>2
  <2>4. QED
    BY <2>3 DEF b
<1>6. QED
  BY <1>2, <1>4, <1>5

\* Writes, answers and removed files leave memory as it is.
LEMMA CacheQuiet ==
  ASSUME Inv, CacheInv, MarksRemain, UNCHANGED <<byName, cache, connection, used>>,
         \A s \in StoreIds : /\ stores'[s].docs = stores[s].docs
                             /\ stores'[s].statsDirty = stores[s].statsDirty
  PROVE  CacheInv'
<1>1. /\ CacheTypes /\ (used.renames <= 1 => CachedRight)
      /\ used' \in [calls : Nat, renames : Nat, crashed : BOOLEAN]
      /\ \A m \in Names : byName[m] # 0 => byName[m] \in StoreIds
  BY TypeFacts DEF CacheInv, CacheTypes, Inv, Shape
<1>2. QED
  BY <1>1, CacheStays DEF MarksRemain

\* A call that changes its collection has still to mark it.
LEMMA CacheChange ==
  ASSUME Inv, CacheInv, NEW c \in Callers, Change(c)
  PROVE  CacheInv'
<1>1. /\ call[c].op \in OnCollection /\ connection = "on"
      /\ UNCHANGED <<byName, cache, connection, used>>
      /\ \/ call' = [call EXCEPT ![c] = Idle] /\ UNCHANGED stores
         \/ \E new \in 0..MaxSize, removed \in SUBSET Docs : Changes(c, new, removed)
  BY ChangeDoes
<1>2. /\ CacheTypes /\ (used.renames <= 1 => CachedRight)
      /\ used' \in [calls : Nat, renames : Nat, crashed : BOOLEAN]
      /\ \A m \in Names : byName[m] # 0 => byName[m] \in StoreIds
      /\ call \in [Callers -> CallState] /\ MapsFit /\ call[c].step # "changed"
  BY <1>1, TypeFacts DEF CacheInv, CacheTypes, Inv, Shape, Types, Change
<1>3. CASE call' = [call EXCEPT ![c] = Idle] /\ UNCHANGED stores
  <2>1. MarksRemain
    BY <1>2, <1>3 DEF MarksRemain, Changed
  <2>2. QED
    BY <1>1, <1>2, <1>3, <2>1, CacheStays DEF MarksRemain
<1>4. ASSUME NEW new \in 0..MaxSize, NEW removed \in SUBSET Docs, Changes(c, new, removed)
      PROVE  CacheInv'
  <2>1. /\ \A b \in Callers \ {c} : call'[b].step = call[b].step /\ call'[b].name = call[b].name
        /\ call'[c].step = "changed" /\ call'[c].name = call[c].name
        /\ \A x \in StoreIds : x # byName[call[c].name] => stores'[x] = stores[x]
    BY <1>4 DEF Changes
  <2>2. MarksRemain /\ Changed(call[c].name)'
    BY <1>2, <2>1 DEF MarksRemain, Changed
  <2>3. \A m \in Names : byName[m] # 0 /\ byName[m] = byName[call[c].name] => m = call[c].name
    BY <1>2, ChangeDoes DEF MapsFit
  <2>4. \A m \in Names : byName[m] # 0 =>
           \/ /\ stores'[byName[m]].docs = stores[byName[m]].docs
              /\ stores'[byName[m]].statsDirty = stores[byName[m]].statsDirty
              /\ Changed(m) => Changed(m)'
           \/ Changed(m)' /\ connection' = "on"
    BY <1>1, <1>2, <2>1, <2>2, <2>3 DEF MarksRemain
  <2>5. QED
    BY <1>1, <1>2, <2>4, CacheStays
<1>5. QED
  BY <1>1, <1>3, <1>4

\* Then it does, under the name it is found by.
LEMMA CacheMark ==
  ASSUME Inv, CacheInv, NEW c \in Callers, Mark(c)
  PROVE  CacheInv'
<1> DEFINE n == call[c].name
           ss == MarkDirty(stores, n)
<1>1. /\ call[c].step = "changed" /\ UNCHANGED <<byName, cache, connection, used>>
  BY DEF Mark
<1>2. /\ connection = "on" /\ n \in Names /\ byName[n] \in StoreIds /\ byName[n] # 0
      /\ handles[call[c].handle].name = n
  BY <1>1, BetweenFacts
<1>3. stores' = ss \/ Save(c, {n}, ss)
  BY <1>2 DEF Mark
<1>4. /\ ss \in [StoreIds -> Store] /\ ss[byName[n]].statsDirty
      /\ \A x \in StoreIds : x # byName[n] => ss[x] = stores[x]
  BY <1>2, MarkDirtyDoes DEF Inv, Shape
<1> HIDE DEF ss
<1>5. {n} \in SUBSET Names
  BY <1>2
<1>6. \A x \in StoreIds : /\ stores'[x].docs = ss[x].docs
                          /\ stores'[x].statsDirty = ss[x].statsDirty
  BY <1>3, <1>4, <1>5, SaveMarksNone
<1>7. /\ CacheTypes /\ (used.renames <= 1 => CachedRight)
      /\ used' \in [calls : Nat, renames : Nat, crashed : BOOLEAN]
      /\ \A m \in Names : byName[m] # 0 => byName[m] \in StoreIds
      /\ call \in [Callers -> CallState] /\ MapsFit
  BY <1>1, TypeFacts DEF CacheInv, CacheTypes, Inv, Shape, Types
<1>8. \A m \in Names : m # n /\ Changed(m) => Changed(m)'
  <2>1. \A b \in Callers : b # c => call'[b] = call[b]
    BY <1>7 DEF Mark
  <2>2. QED
    BY <2>1 DEF Changed
<1>9. \A m \in Names : byName[m] # 0 =>
         \/ /\ stores'[byName[m]].docs = stores[byName[m]].docs
            /\ stores'[byName[m]].statsDirty = stores[byName[m]].statsDirty
            /\ Changed(m) => Changed(m)'
         \/ stores'[byName[m]].statsDirty /\ connection' = "on"
  <2> TAKE m \in Names
  <2>1. CASE m = n
    BY <1>1, <1>2, <1>4, <1>6, <2>1
  <2>2. CASE m # n /\ byName[m] # 0
    <3>1. byName[m] # byName[n]
      BY <1>2, <1>7, <2>2 DEF MapsFit
    <3>2. QED
      BY <1>4, <1>6, <1>7, <1>8, <2>2, <3>1
  <2>3. QED
    BY <2>1, <2>2
<1>10. QED
  BY <1>1, <1>7, <1>9, CacheStays

\* seed() has marked its collection, and saves everything.
LEMMA CacheSaveSeed ==
  ASSUME Inv, CacheInv, MarksRemain, NEW c \in Callers, SaveSeed(c)
  PROVE  CacheInv'
<1>1. /\ UNCHANGED <<byName, cache, connection, used>> /\ Save(c, Names, stores)
      /\ stores \in [StoreIds -> Store] /\ Names \in SUBSET Names
  BY DEF SaveSeed, Inv, Shape, Types
<1>2. QED
  BY <1>1, SaveMarksNone, CacheQuiet

LEMMA CacheWrites ==
  ASSUME Inv, CacheInv, MarksRemain, NEW j \in jobs, WriteLands(j) \/ WriteFails(j)
  PROVE  CacheInv'
<1>1. UNCHANGED <<byName, cache, connection, used>>
  BY DEF WriteLands, WriteFails
<1>2. stores \in [StoreIds -> Store]
  BY DEF Inv, Shape, Types
<1>3. \/ stores' = [stores EXCEPT ![j.store].pending = FALSE]
      \/ stores' = [stores EXCEPT ![j.store].saving = FALSE]
  BY DEF WriteLands, WriteFails
<1>4. ASSUME NEW s \in StoreIds
      PROVE  stores'[s].docs = stores[s].docs /\ stores'[s].statsDirty = stores[s].statsDirty
  <2>1. stores[s] \in Store
    BY <1>2
  <2>2. \/ stores'[s] = stores[s]
        \/ stores'[s] = [stores[s] EXCEPT !.pending = FALSE]
        \/ stores'[s] = [stores[s] EXCEPT !.saving = FALSE]
    BY <1>2, <1>3
  <2>3. QED
    BY <2>1, <2>2 DEF Store
<1>5. QED
  BY <1>1, <1>4, CacheQuiet

\* disconnect() saves everything.
LEMMA CacheDisconnect ==
  ASSUME Inv, CacheInv, MarksRemain, NEW c \in Callers, Disconnect(c)
  PROVE  CacheInv'
<1>1. /\ UNCHANGED <<byName, cache, connection>> /\ Calls(c, "disconnect")
      /\ Save(c, Names, stores)
  BY DEF Disconnect
<1>2. Types
  BY DEF Inv, Shape
<1>3. \A s \in StoreIds : /\ stores'[s].docs = stores[s].docs
                          /\ stores'[s].statsDirty = stores[s].statsDirty
  BY <1>1, <1>2, SaveMarksNone DEF Types
<1>4. /\ CacheTypes /\ (used.renames <= 1 => CachedRight)
      /\ \A m \in Names : byName[m] # 0 => byName[m] \in StoreIds
  BY <1>2, TypeFacts DEF CacheInv
<1>5. /\ used' \in [calls : Nat, renames : Nat, crashed : BOOLEAN]
      /\ used'.renames = used.renames
  BY <1>1, <1>4, CallsCount
<1>6. QED
  BY <1>1, <1>3, <1>4, <1>5, CacheStays DEF MarksRemain

\* The timer marks the collections it sweeps.
LEMMA CacheSweep ==
  ASSUME Inv, CacheInv, MarksRemain, NEW expired \in SUBSET Mortal, Sweep(expired)
  PROVE  CacheInv'
<1> DEFINE swept == {s \in Range(byName) \ {0} : \E d \in expired : stores[s].docs[d] > 0}
           rest(s) == [d \in Docs |-> IF d \in expired THEN 0 ELSE stores[s].docs[d]]
<1>1. /\ connection = "on" /\ UNCHANGED <<byName, cache, connection, used>>
      /\ stores' = [s \in StoreIds |-> IF s \notin swept THEN stores[s]
                       ELSE [stores[s] EXCEPT !.statsDirty = TRUE, !.docs = rest(s)]]
  <2>1. \A s \in StoreIds :
          [stores[s] EXCEPT !.statsDirty = TRUE,
                            !.docs = [d \in Docs |-> IF d \in expired THEN 0 ELSE @[d]]]
          = [stores[s] EXCEPT !.statsDirty = TRUE, !.docs = rest(s)]
    OBVIOUS
  <2>2. QED
    BY <2>1 DEF Sweep
<1> HIDE DEF rest, swept
<1>2. stores \in [StoreIds -> Store] /\ \A m \in Names : byName[m] # 0 => byName[m] \in StoreIds
  BY TypeFacts DEF Inv, Shape, Types
<1>3. \A s \in StoreIds : stores'[s] = stores[s] \/ stores'[s].statsDirty
  <2> TAKE s \in StoreIds
  <2>1. stores[s] \in Store
    BY <1>2
  <2>2. stores'[s] = stores[s] \/ stores'[s] = [stores[s] EXCEPT !.statsDirty = TRUE, !.docs = rest(s)]
    BY <1>1
  <2>3. QED
    BY <2>1, <2>2 DEF Store
<1>4. /\ CacheTypes /\ (used.renames <= 1 => CachedRight)
      /\ used' \in [calls : Nat, renames : Nat, crashed : BOOLEAN]
  BY <1>1 DEF CacheInv, CacheTypes
<1>5. QED
  BY <1>1, <1>2, <1>3, <1>4, CacheStays DEF MarksRemain

\* A seed empties its collection and marks nothing.
LEMMA CacheSeed ==
  ASSUME Inv, CacheInv, MarksRemain, NEW c \in Callers, NEW name \in Names, NEW d \in Docs, Seed(c, name, d)
  PROVE  CacheInv'
<1>1. /\ Calls(c, "seed") /\ byName[name] # 0 /\ UNCHANGED <<byName, cache>>
      /\ stores' = [stores EXCEPT ![byName[name]] = [stores[byName[name]] EXCEPT !.docs = Empty]]
      /\ connection' = IF connection = "off" THEN "loading" ELSE connection
  BY DEF Seed
<1>2. stores \in [StoreIds -> Store] /\ \A m \in Names : byName[m] # 0 => byName[m] \in StoreIds
  BY TypeFacts DEF Inv, Shape, Types
<1>3. \A s \in StoreIds : stores'[s] = stores[s] \/ stores'[s].docs = Empty
  <2> TAKE s \in StoreIds
  <2>1. stores[s] \in Store
    BY <1>2
  <2>2. stores'[s] = stores[s] \/ stores'[s] = [stores[s] EXCEPT !.docs = Empty]
    BY <1>1, <1>2
  <2>3. QED
    BY <2>1, <2>2 DEF Store
<1>4. CacheTypes /\ (used.renames <= 1 => CachedRight)
  BY DEF CacheInv
<1>5. /\ used' \in [calls : Nat, renames : Nat, crashed : BOOLEAN]
      /\ used'.renames = used.renames
  BY <1>1, <1>4, CallsCount
<1>6. connection' # "on" => connection # "on"
  BY <1>1
<1>7. QED
  BY <1>1, <1>2, <1>3, <1>4, <1>5, <1>6, CacheStays DEF MarksRemain

\* And when a name gets a new and empty collection.
LEMMA CacheOfNew ==
  ASSUME CacheTypes, MarksRemain, used.renames <= 1 => CachedRight, UNCHANGED cache,
         used' \in [calls : Nat, renames : Nat, crashed : BOOLEAN],
         used'.renames = used.renames,
         connection' # "on" => connection # "on",
         \A n \in Names :
           \/ byName'[n] = byName[n] /\ (byName[n] # 0 => stores'[byName[n]] = stores[byName[n]])
           \/ byName'[n] # 0 /\ stores'[byName'[n]].docs = Empty
  PROVE  CacheInv'
<1>1. CacheTypes'
  BY DEF CacheTypes
<1>2. ASSUME used.renames <= 1, NEW n \in Names
      PROVE  (Fits(n) /\ NamedOnly(n) /\ EmptyAtFirst(n))'
  <2>1. Fits(n) /\ NamedOnly(n) /\ EmptyAtFirst(n)
    BY <1>2 DEF CachedRight
  <2>2. Fits(n)'
    BY <2>1 DEF Fits, MarksRemain
  <2>3. NamedOnly(n)' /\ EmptyAtFirst(n)'
    BY <2>1 DEF NamedOnly, EmptyAtFirst
  <2>4. QED
    BY <2>2, <2>3
<1>3. QED
  BY <1>1, <1>2 DEF CacheInv, CachedRight

\* The collection of a name that had none is new and empty.
LEMMA CacheAsk ==
  ASSUME Inv, CacheInv, MarksRemain, NEW c \in Callers, NEW op \in {"write", "remove", "put"},
         NEW name \in Names, NEW d \in Docs, Ask(c, op, name, d)
  PROVE  CacheInv'
<1>1. /\ Calls(c, op) /\ Get(name) /\ UNCHANGED <<disk, jobs, waiting, cache>>
      /\ connection' = IF connection = "off" THEN "loading" ELSE connection
  BY DEF Ask
<1>2. Shape /\ Types /\ MapsFit
  BY DEF Inv, Shape
<1>3. /\ \A n \in Names : n # name => byName'[n] = byName[n]
      /\ \A n \in Names : byName[n] # 0 =>
           byName'[n] = byName[n] /\ stores'[byName[n]] = stores[byName[n]]
  BY <1>1, <1>2, GetDoes
<1>4. byName[name] = 0 => byName'[name] # 0 /\ stores'[byName'[name]].docs = Empty
  <2> SUFFICES ASSUME byName[name] = 0
               PROVE  byName'[name] # 0 /\ stores'[byName'[name]].docs = Empty
    OBVIOUS
  <2> DEFINE s == StoreOf(name)
  <2>1. instances[name] = 0
    BY <1>2 DEF MapsFit
  <2>2. stores' = [stores EXCEPT ![s] = NewStore(name)] /\ byName' = [byName EXCEPT ![name] = s]
    BY <1>1, <2>1 DEF Get
  <2>3. s \in StoreIds /\ s # 0
    BY <1>2, StoreIsFree, IdsAreNumbers DEF StoreOf
  <2> HIDE DEF s
  <2>4. byName'[name] = s /\ stores'[s] = NewStore(name)
    BY <1>2, <2>2, <2>3 DEF Types
  <2>5. QED
    BY <2>3, <2>4 DEF NewStore
<1>5. CacheTypes /\ (used.renames <= 1 => CachedRight)
  BY DEF CacheInv
<1>6. used' \in [calls : Nat, renames : Nat, crashed : BOOLEAN] /\ used'.renames = used.renames
  BY <1>1, <1>5, CallsCount
<1>7. connection' # "on" => connection # "on"
  BY <1>1
<1>8. \A n \in Names :
        \/ byName'[n] = byName[n] /\ (byName[n] # 0 => stores'[byName[n]] = stores[byName[n]])
        \/ byName'[n] # 0 /\ stores'[byName'[n]].docs = Empty
  BY <1>3, <1>4
<1>9. QED
  BY <1>1, <1>5, <1>6, <1>7, <1>8, CacheOfNew

LEMMA CacheCreate ==
  ASSUME Inv, CacheInv, MarksRemain, NEW name \in Names, Create(name)
  PROVE  CacheInv'
<1> DEFINE s == FreeStore
<1>1. /\ UNCHANGED <<cache, connection, used>>
      /\ stores' = [stores EXCEPT ![s] = NewStore(name)]
      /\ byName' = [byName EXCEPT ![name] = s]
  BY DEF Create
<1>2. Shape /\ Types
  BY DEF Inv, Shape
<1>3. s \in StoreIds /\ s # 0 /\ \A n \in Names : byName[n] # s
  BY <1>2, StoreIsFree, IdsAreNumbers DEF LiveStores, Range, Types
<1> HIDE DEF s
<1>4. /\ byName'[name] = s /\ stores'[s].docs = Empty
      /\ \A n \in Names : n # name => byName'[n] = byName[n]
      /\ \A x \in StoreIds : x # s => stores'[x] = stores[x]
  BY <1>1, <1>2, <1>3 DEF Types, NewStore
<1>5. /\ CacheTypes /\ (used.renames <= 1 => CachedRight)
      /\ used' \in [calls : Nat, renames : Nat, crashed : BOOLEAN]
  BY <1>1 DEF CacheInv, CacheTypes
<1>6. \A n \in Names :
        \/ byName'[n] = byName[n] /\ (byName[n] # 0 => stores'[byName[n]] = stores[byName[n]])
        \/ byName'[n] # 0 /\ stores'[byName'[n]].docs = Empty
  BY <1>2, <1>3, <1>4, TypeFacts
<1>7. QED
  BY <1>1, <1>5, <1>6, CacheOfNew

\* The first rename gives a collection a name that has nothing cached.
LEMMA CacheRename ==
  ASSUME setup.alone, Inv, CacheInv, MarksRemain, NEW c \in Callers, NEW from \in Names, NEW to \in Names,
         Rename(c, from, to)
  PROVE  CacheInv'
<1> DEFINE s == byName[from]
           ss == [stores EXCEPT ![s].label = to]
<1>1. /\ Calls(c, "rename") /\ s # 0 /\ byName[to] = 0 /\ from # to
      /\ connection = "on" /\ UNCHANGED <<cache, connection>>
      /\ byName' = [byName EXCEPT ![to] = s, ![from] = 0]
      /\ Save(c, {to}, ss)
  <2>1. Calls(c, "rename") /\ Relabel(from, to) /\ Save(c, {to}, ss)
    BY ZenonT(30) DEF Rename
  <2>2. /\ s # 0 /\ byName[to] = 0 /\ (setup.alone => connection = "on")
        /\ UNCHANGED <<cache, connection>>
    BY ZenonT(30) DEF Rename
  <2>3. byName' = [byName EXCEPT ![to] = s, ![from] = 0]
    BY <2>1 DEF Relabel
  <2>4. QED
    BY <2>1, <2>2, <2>3
<1>2. Types /\ \A n \in Names : byName[n] # 0 => byName[n] \in StoreIds
  BY TypeFacts DEF Inv, Shape
<1>3. ss \in [StoreIds -> Store] /\ \A x \in StoreIds :
        ss[x].docs = stores[x].docs /\ ss[x].statsDirty = stores[x].statsDirty
  <2>1. stores \in [StoreIds -> Store] /\ stores[s] \in Store
    BY <1>1, <1>2 DEF Types
  <2>2. [stores[s] EXCEPT !.label = to] \in Store
    BY <2>1 DEF Store
  <2>3. ss = [stores EXCEPT ![s] = [stores[s] EXCEPT !.label = to]]
    OBVIOUS
  <2> HIDE DEF ss
  <2>4. QED
    BY <1>1, <1>2, <2>1, <2>2, <2>3 DEF Store
<1> HIDE DEF ss
<1>4. \A x \in StoreIds : /\ stores'[x].docs = stores[x].docs
                          /\ stores'[x].statsDirty = stores[x].statsDirty
  BY <1>1, <1>3, SaveMarksNone
<1>5. /\ byName'[from] = 0
      /\ \A n \in Names : n # from /\ n # to => byName'[n] = byName[n]
  BY <1>1, <1>2 DEF Types
<1>6. /\ CacheTypes /\ (used.renames <= 1 => CachedRight) /\ used.renames \in Nat
  BY DEF CacheInv, CacheTypes
<1>7. /\ used' \in [calls : Nat, renames : Nat, crashed : BOOLEAN]
      /\ used'.renames = used.renames + 1
  BY <1>1, <1>6, CallsCount
<1>8. CacheTypes'
  BY <1>1, <1>6, <1>7 DEF CacheTypes
<1>9. ASSUME used'.renames <= 1, NEW n \in Names
      PROVE  (Fits(n) /\ NamedOnly(n) /\ EmptyAtFirst(n))'
  <2>1. used.renames = 0 /\ used'.renames # 0
    BY <1>6, <1>7, <1>9
  <2>2. cache[to] = NoFile /\ Fits(n)
    BY <1>1, <1>6, <2>1 DEF CachedRight, NamedOnly
  <2>3. Fits(n)'
    <3>1. CASE n = to
      BY <1>1, <2>2, <3>1 DEF Fits
    <3>2. CASE n = from
      BY <1>1, <1>5, <2>2, <3>2 DEF Fits
    <3>3. CASE n # to /\ n # from
      BY <1>1, <1>2, <1>4, <1>5, <2>2, <3>3 DEF Fits, MarksRemain
    <3>4. QED
      BY <3>1, <3>2, <3>3
  <2>4. NamedOnly(n)' /\ EmptyAtFirst(n)'
    BY <1>1, <2>1 DEF NamedOnly, EmptyAtFirst
  <2>5. QED
    BY <2>3, <2>4
<1>10. QED
  BY <1>8, <1>9 DEF CacheInv, CachedRight

\* disconnect() and a crash forget the names and what is cached.
LEMMA CacheCleared ==
  ASSUME CacheInv, Cleared, used' \in [calls : Nat, renames : Nat, crashed : BOOLEAN]
  PROVE  CacheInv'
<1>1. /\ byName' = [n \in Names |-> 0] /\ cache' = [n \in Names |-> NoFile]
  BY DEF Cleared
<1>2. CacheTypes'
  BY <1>1 DEF CacheTypes
<1>3. \A n \in Names : (Fits(n) /\ NamedOnly(n) /\ EmptyAtFirst(n))'
  BY <1>1 DEF Fits, NamedOnly, EmptyAtFirst
<1>4. QED
  BY <1>2, <1>3 DEF CacheInv, CachedRight

\* stats() caches what it counts.
LEMMA CacheStats ==
  ASSUME Inv, CacheInv, MarksRemain, NEW name \in Names, Stats(name)
  PROVE  CacheInv'
<1> DEFINE s == byName[name]
           docs == stores[s].docs
<1>1. /\ s # 0 /\ UNCHANGED <<byName, connection, used>>
      /\ cache' = [cache EXCEPT ![name] = Told(docs)]
      /\ stores' = [stores EXCEPT ![s] = [stores[s] EXCEPT !.statsDirty = FALSE]]
  BY DEF Stats, Told
<1>2. Types /\ MapsFit /\ \A n \in Names : byName[n] # 0 => byName[n] \in StoreIds
  BY TypeFacts DEF Inv, Shape
<1>3. stores \in [StoreIds -> Store] /\ s \in StoreIds /\ stores[s] \in Store /\ docs \in Numbers
  BY <1>1, <1>2 DEF Types, Store
<1>4. /\ stores'[s].docs = docs
      /\ \A x \in StoreIds : x # s => stores'[x] = stores[x]
  BY <1>1, <1>3 DEF Store
<1>5. \A n \in Names : byName[n] = s => n = name
  BY <1>1, <1>2 DEF MapsFit
<1>6. CacheTypes /\ (used.renames <= 1 => CachedRight)
  BY DEF CacheInv
<1>7. /\ cache' = [n \in Names |-> cache'[n]] /\ cache'[name] = Told(docs)
      /\ \A n \in Names : n # name => cache'[n] = cache[n]
  BY <1>1, <1>6 DEF CacheTypes
<1>8. CacheTypes'
  BY <1>1, <1>6, <1>7 DEF CacheTypes
<1>9. ASSUME used.renames <= 1, NEW n \in Names
      PROVE  (Fits(n) /\ NamedOnly(n) /\ EmptyAtFirst(n))'
  <2>1. Fits(n) /\ NamedOnly(n) /\ EmptyAtFirst(n)
    BY <1>6, <1>9 DEF CachedRight
  <2>2. CASE n = name
    <3>1. Fits(n)'
      BY <1>1, <1>3, <1>4, <1>7, <2>2 DEF Fits
    <3>2. NamedOnly(n)'
      BY <1>1, <2>2 DEF NamedOnly
    <3>3. EmptyAtFirst(n)'
      BY <1>1, <1>4, <1>7, <2>1, <2>2 DEF EmptyAtFirst
    <3>4. QED
      BY <3>1, <3>2, <3>3
  <2>3. CASE n # name
    <3>1. byName[n] # 0 => stores'[byName[n]] = stores[byName[n]]
      BY <1>2, <1>4, <1>5, <2>3
    <3>2. Fits(n)'
      BY <1>1, <1>7, <2>1, <2>3, <3>1 DEF Fits, MarksRemain
    <3>3. NamedOnly(n)' /\ EmptyAtFirst(n)'
      BY <1>1, <1>7, <2>1, <2>3, <3>1 DEF NamedOnly, EmptyAtFirst
    <3>4. QED
      BY <3>2, <3>3
  <2>4. QED
    BY <2>2, <2>3
<1>10. QED
  BY <1>1, <1>8, <1>9 DEF CacheInv, CachedRight

\* What was cached before the files are loaded is that of empty collections.
LEMMA CacheLoad ==
  ASSUME Inv, CacheInv, Load
  PROVE  CacheInv'
<1> DEFINE labels == {disk[n].label : n \in {m \in Names : disk[m] # NoFile}}
           spare == StoreIds \ LiveStores
           new == CHOOSE f \in [labels -> spare] : IsInjective(f)
<1>1. /\ connection = "loading" /\ connection' = "on" /\ UNCHANGED <<cache, used>>
      /\ byName' = [n \in Names |-> IF n \in labels THEN new[n] ELSE byName[n]]
  BY DEF Load
<1>2. Shape /\ Types /\ MapsFit
  BY DEF Inv, Shape
<1>3. labels \in SUBSET Names
  BY <1>2 DEF MapsFit
<1>4. new \in [labels -> spare]
  <2>1. \E f \in [labels -> spare] : IsInjective(f)
    <3> HIDE DEF labels
    <3>1. QED
      BY <1>2, <1>3, StoresAreFree
  <2>2. QED
    BY <2>1
<1> HIDE DEF labels, new
<1>5. \A l \in labels : new[l] # 0
  BY <1>4, IdsAreNumbers
<1>6. \A n \in Names : byName'[n] = 0 => byName[n] = 0
  BY <1>1, <1>5
<1>7. CacheTypes /\ (used.renames <= 1 => CachedRight)
  BY DEF CacheInv
<1>8. CacheTypes'
  BY <1>1, <1>7 DEF CacheTypes
<1>9. ASSUME used.renames <= 1, NEW n \in Names
      PROVE  (Fits(n) /\ NamedOnly(n) /\ EmptyAtFirst(n))'
  <2>1. Fits(n) /\ NamedOnly(n) /\ EmptyAtFirst(n)
    BY <1>7, <1>9 DEF CachedRight
  <2>2. cache[n] # NoFile => cache[n] = Told(Empty)
    BY <1>1, <2>1 DEF EmptyAtFirst
  <2>3. Fits(n)'
    BY <1>1, <2>1, <2>2 DEF Fits
  <2>4. NamedOnly(n)' /\ EmptyAtFirst(n)'
    BY <1>1, <1>6, <2>1 DEF NamedOnly, EmptyAtFirst
  <2>5. QED
    BY <2>3, <2>4
<1>10. QED
  BY <1>1, <1>8, <1>9 DEF CacheInv, CachedRight

LEMMA CacheNext ==
  ASSUME setup.alone, Inv, Between, CacheInv, [Next]_vars
  PROVE  CacheInv'
<1>1. used \in [calls : Nat, renames : Nat, crashed : BOOLEAN]
  BY DEF CacheInv, CacheTypes
<1>2. ASSUME NEW c \in Callers, Mark(c) PROVE CacheInv'
  BY <1>2, CacheMark
<1>3. CASE Crash
  <2>1. Cleared /\ used' = [used EXCEPT !.crashed = TRUE]
    BY <1>3 DEF Crash
  <2>2. QED
    BY <1>1, <2>1, CacheCleared
<1>4. CASE ~ Crash /\ ~ \E c \in Callers : Mark(c)
  <2>1. MarksRemain
    <3>1. ASSUME NEW n \in Names, NEW c \in Callers, call[c].step = "changed", call[c].name = n
          PROVE  Changed(n)'
      <4>1. call[c] \in CallState /\ WritersSave /\ ~ SaveSeed(c)
        BY <3>1 DEF Inv, Shape, Types, Between, SaveSeed
      <4>2. call'[c] = call[c] \/ call'[c] = [call[c] EXCEPT !.size = 0]
        BY <1>4, <3>1, <4>1, CallsGoOn
      <4>3. call'[c].step = "changed" /\ call'[c].name = n
        BY <3>1, <4>1, <4>2 DEF CallState
      <4>4. QED
        BY <4>3 DEF Changed
    <3>2. QED
      BY <3>1 DEF MarksRemain, Changed
  <2>2. CASE UNCHANGED vars
    BY <2>1, <2>2, CacheQuiet DEF vars, memory
  <2>3. ASSUME NEW c \in Callers, NEW n \in Names, NEW d \in Docs,
               NEW op \in {"write", "remove", "put"}, Ask(c, op, n, d)
        PROVE  CacheInv'
    BY <2>1, <2>3, CacheAsk
  <2>4. ASSUME NEW c \in Callers, NEW n \in Names, NEW d \in Docs, Seed(c, n, d)
        PROVE  CacheInv'
    BY <2>1, <2>4, CacheSeed
  <2>5. ASSUME NEW c \in Callers, Change(c) \/ SaveSeed(c) PROVE CacheInv'
    BY <2>1, <2>5, CacheChange, CacheSaveSeed
  <2>6. ASSUME NEW c \in Callers, Resolve(c) \/ Remove(c) PROVE CacheInv'
    BY <2>1, <2>6, CacheQuiet DEF Resolve, Remove, memory
  <2>7. ASSUME NEW c \in Callers, Disconnect(c) PROVE CacheInv'
    BY <2>1, <2>7, CacheDisconnect
  <2>8. ASSUME NEW c \in Callers, Clear(c) PROVE CacheInv'
    BY <1>1, <2>8, CacheCleared DEF Clear
  <2>9. ASSUME NEW c \in Callers, NEW from \in Names, NEW to \in Names, Rename(c, from, to)
        PROVE  CacheInv'
    BY <2>1, <2>9, CacheRename
  <2>10. ASSUME NEW j \in jobs, WriteLands(j) \/ WriteFails(j) PROVE CacheInv'
    BY <2>1, <2>10, CacheWrites
  <2>11. ASSUME NEW n \in Names, Create(n) PROVE CacheInv'
    BY <2>1, <2>11, CacheCreate
  <2>12. ASSUME NEW n \in Names, Stats(n) PROVE CacheInv'
    BY <2>1, <2>12, CacheStats
  <2>13. ASSUME NEW expired \in SUBSET Mortal, Sweep(expired) PROVE CacheInv'
    BY <2>1, <2>13, CacheSweep
  <2>14. CASE Load
    BY <2>14, CacheLoad
  <2>15. QED
    BY <1>4, <2>2, <2>3, <2>4, <2>5, <2>6, <2>7, <2>8, <2>9, <2>10, <2>11, <2>12, <2>13,
       <2>14 DEF Next
<1>5. QED
  BY <1>2, <1>3, <1>4

-----------------------------------------------------------------------------
(* The theorems.                                                           *)

LEMMA OrderlyStays == Spec => []OrderlyInv
<1>1. Init => OrderlyInv
  BY InitHolds DEF OrderlyInv
<1>2. OrderlyInv /\ [Next]_vars => OrderlyInv'
  BY NextKeeps
<1>3. QED
  BY <1>1, <1>2, PTL DEF Spec

\* For a program that keeps to itself, what a call that resolved has written
\* and what disconnect() flushed is in a file at every moment: while calls of
\* others write, fail and wait, between the two steps of a rename, through
\* seeds, sweeps, disconnects and crashes (AckedIsStored).
THEOREM AcknowledgedStays == Spec => [](setup.alone => AckedIsStored)
<1>1. OrderlyInv => (setup.alone => AckedIsStored)
  BY InvIsEnough DEF OrderlyInv
<1>2. QED
  BY <1>1, OrderlyStays, PTL

\* For such a program the registry's maps agree whenever the database is
\* connected: a store carries the name it is found under, a cached instance
\* works on the store of its name, and the TTL timer sweeps the collections of
\* today (RegistryAgrees).
THEOREM MapsAgree == Spec => [](setup.alone => RegistryAgrees)
<1>1. OrderlyInv => (setup.alone => RegistryAgrees)
  BY InvIsEnough DEF OrderlyInv
<1>2. QED
  BY <1>1, OrderlyStays, PTL

\* And the state has its type: a write in flight is that of a store marked as
\* being written, and whoever waits for a save waits for a write there is.
THEOREM TypeCorrect == Spec => [](setup.alone => TypeOK)
<1>1. OrderlyInv => (setup.alone => TypeOK)
  BY InvIsEnough DEF OrderlyInv
<1>2. QED
  BY <1>1, OrderlyStays, PTL

\* For such a program stats() never answers from its cache with the size of
\* other contents, up to the first rename and but for the turns between a
\* change and its mark (StatsAreCurrent).  After a second rename it may, since
\* renameCollection() leaves the statistics cached under the old name.
THEOREM StatisticsAgree ==
  Spec => [](setup.alone /\ used.renames <= 1 => StatsAreCurrent)
<1>1. Init => OrderlyCache
  <2> SUFFICES ASSUME Init PROVE CacheInv
    BY DEF OrderlyCache
  <2>1. /\ byName = [n \in Names |-> 0] /\ cache = [n \in Names |-> NoFile]
        /\ used = [calls |-> 0, renames |-> 0, crashed |-> FALSE]
    BY DEF Init
  <2>2. QED
    BY <2>1 DEF CacheInv, CacheTypes, CachedRight, Fits, NamedOnly, EmptyAtFirst
<1>2. OrderlyInv /\ OrderlyCache /\ [Next]_vars => OrderlyCache'
  BY SetupStays, CacheNext DEF OrderlyInv, OrderlyCache
<1>3. OrderlyInv /\ OrderlyCache => (setup.alone /\ used.renames <= 1 => StatsAreCurrent)
  BY CacheIsEnough DEF OrderlyInv, OrderlyCache, CacheInv, Inv, Shape
<1>4. QED
  BY <1>1, <1>2, <1>3, OrderlyStays, PTL DEF Spec
=============================================================================
