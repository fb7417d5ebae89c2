----------------------------- MODULE Documents ------------------------------
(***************************************************************************)
(* The operations of one collection on its documents and their indexes,    *)
(* outside any transaction: calls that found their documents, or checked   *)
(* their ids, in one turn of the event loop and write in a later one.      *)
(*                                                                         *)
(* Documents are JavaScript objects: an update puts a new object in the    *)
(* place of the old one, a soft delete changes the object it has.  So the  *)
(* contents are in a heap and everything else holds addresses.  A document *)
(* has an _id, one field with a unique index, one field of a compound      *)
(* index that must be a scalar, the call that inserted it (none if it was  *)
(* loaded) and the calls that wrote it.  What a call does after its change *)
(* (markDirty, save, events) is in Transaction and FlushStore.             *)
(***************************************************************************)
EXTENDS Naturals, Sequences, SequencesExt, FiniteSets

CONSTANTS Call,      \* calls of insertOne(), updateMany(), ...
          Id,        \* values of _id
          MaxKey,    \* bound on the values of the unique field, 1 .. MaxKey
          Setups     \* collections and what is called on them, see Setup

Key == 1 .. MaxKey
Nothing == 0         \* no object; undefined as a key

\* What insertOne() is given.
Item == [id : Id, key : Key \union {Nothing}, odd : BOOLEAN, ttl : BOOLEAN]
Object == [id : Id, key : Key \union {Nothing}, odd : BOOLEAN, ttl : BOOLEAN,
           deleted : BOOLEAN, from : SUBSET Call, by : SUBSET Call]

\* A filter on _id, on the unique field, or on neither.
Filter == [on : {"id"}, val : Id] \union [on : {"key"}, val : Key] \union [on : {"all"}]

Kind == {"insert", "ifNotExists", "update", "upsert", "upsertMany", "delete", "restore"}

\* kind and arguments of a call.  many: all documents of the filter, not one;
\* inc, set: $inc of the unique field, or a value for it; odd: give the field
\* of the compound index an object for a value.
Operation == [kind : Kind, filter : Filter, many : BOOLEAN, items : Seq(Item),
              inc : Nat, set : Key \union {Nothing}, odd : BOOLEAN]

\* softDelete, maxDocs (0: not capped), whether there is a compound index, the
\* documents loaded, and the operations that are called.
Setup == [soft : BOOLEAN, cap : Nat, compound : BOOLEAN, docs : Seq(Object),
          ops : SUBSET Operation]

\* What a collection can have in it, and calls that their functions accept:
\* documents loaded are distinct, what is inserted is given.
Proper(s) ==
  /\ \A i, j \in DOMAIN s.docs :
       /\ s.docs[i].from = {} /\ s.docs[i].by = {}
       /\ i # j => /\ s.docs[i].id # s.docs[j].id
                   /\ s.docs[i].key = s.docs[j].key => s.docs[i].key = Nothing
  /\ \A o \in s.ops :
       /\ o.kind \in {"insert", "ifNotExists", "upsert", "upsertMany"} => o.items # <<>>
       /\ o.kind = "upsertMany" /\ o.filter.on # "id" =>
            \A i \in DOMAIN o.items : o.items[i].key # Nothing

ASSUME DocumentsAssumption ==
  /\ MaxKey \in Nat
  /\ Setups \subseteq Setup
  /\ \A s \in Setups : Proper(s)

VARIABLES
  setup,    \* the collection and the operations, which never change
  store,    \* heap: the objects; data: _data, the documents in order;
            \* byId: _index; index: _fieldIndex
  stage,    \* how far each call is
  op,       \* the operation of each call
  found     \* the objects a call found, or built and checked, so far

calls == <<stage, op, found>>
vars == <<setup, store, calls>>

\* "called": it awaits connect() before it looks for documents; "entered": it
\* awaits hooks inside execute() before it writes them.
Stage == {"idle", "called", "entered", "done", "failed"}

NoOp == [kind |-> "delete", filter |-> [on |-> "all"], many |-> TRUE, items |-> <<>>,
         inc |-> 0, set |-> Nothing, odd |-> FALSE]

-----------------------------------------------------------------------------
(* Sequences, and the index engine.  h is the heap the addresses are of. *)

\* The elements of s that are in keep, in order.
Only(s, keep) ==
  LET kept[i \in 0 .. Len(s)] ==
        IF i = 0 THEN <<>>
        ELSE IF s[i] \in keep THEN Append(kept[i - 1], s[i]) ELSE kept[i - 1]
  IN  kept[Len(s)]

\* What a loop over s leaves that assigns each a of with: the last, or before.
LastOf(s, with, before) ==
  LET all == Only(s, with) IN IF all = <<>> THEN before ELSE all[Len(all)]

NoIndex == [field |-> [k \in Key |-> <<>>], unique |-> [k \in Key |-> Nothing],
            compound |-> {}]

\* _indexDoc() throws, after it changed the field and the unique indexes.
Refused(h, a) == setup.compound /\ h[a].odd

With(h, k) == {a \in DOMAIN h : h[a].key = k}

\* Documents are indexed one after the other.
IndexDocs(h, ix, new) ==
  [field    |-> [k \in Key |-> ix.field[k] \o Only(new, With(h, k))],
   unique   |-> [k \in Key |-> LastOf(new, With(h, k), ix.unique[k])],
   compound |-> ix.compound \union {a \in ToSet(new) : ~Refused(h, a)}]

\* Mutant: the value stays in the unique index.
RemoveKeepsUnique(h, ix, gone) ==
  [field    |-> [k \in Key |-> Only(ix.field[k], DOMAIN h \ (gone \intersect With(h, k)))],
   unique   |-> ix.unique,
   compound |-> ix.compound \ gone]

\* remove(), of each: from the unique index, the value goes whoever has it.
RemoveDocs(h, ix, gone) ==
  [field    |-> [k \in Key |-> Only(ix.field[k], DOMAIN h \ (gone \intersect With(h, k)))],
   unique   |-> [k \in Key |-> IF \E a \in gone : h[a].key = k THEN Nothing ELSE ix.unique[k]],
   compound |-> ix.compound \ gone]

\* _checkUnique(): another document has the value, going by _id.  add() asks it
\* too, of documents that assertUniqueBatch() has let through.
Taken(h, ix, new, id) ==
  LET k == h[new].key
  IN  /\ k # Nothing
      /\ ix.unique[k] # Nothing
      /\ h[ix.unique[k]].id # id

\* update(): if the new object is refused, the old one is indexed again, and
\* what the new one left behind stays.
Update(h, ix, old, new) ==
  IF Taken(h, ix, new, h[old].id) THEN ix
  ELSE IndexDocs(h, RemoveDocs(h, ix, {old}),
                 IF Refused(h, new) THEN <<new, old>> ELSE <<new>>)

Updates(h, ix, old, new) == ~Taken(h, ix, new, h[old].id) /\ ~Refused(h, new)

\* assertUniqueBatch(): the values are free, and distinct within the batch.
BatchIsUnique(h, ix, new) ==
  \A i \in DOMAIN new :
    h[new[i]].key # Nothing =>
      /\ ix.unique[h[new[i]].key] = Nothing
      /\ \A j \in 1 .. i - 1 : h[new[j]].key # h[new[i]].key

\* Mutant: the values are only compared within the batch.
CandidatesDiffer(h, ix, old, new) ==
  \A i, j \in DOMAIN new :
    (i # j /\ h[new[i]].key = h[new[j]].key) => h[new[i]].key = Nothing

\* assertUniqueCandidates(): the same for updates, where values that documents
\* of the batch have now are free.
CandidatesAreUnique(h, ix, old, new) ==
  LET ids == {h[a].id : a \in ToSet(old)}
  IN  \A i \in DOMAIN new :
        LET k == h[new[i]].key
        IN  k # Nothing =>
              /\ ix.unique[k] # Nothing => h[ix.unique[k]].id \in ids
              /\ \A j \in 1 .. i - 1 : h[new[j]].key = k => h[old[j]].id = h[old[i]].id

-----------------------------------------------------------------------------
(* The data store and finding documents.  st is a store. *)

Visible(st, a) == ~setup.soft \/ ~st.heap[a].deleted

Matches(st, a, filter) ==
  filter.on # "all" =>
    filter.val = IF filter.on = "id" THEN st.heap[a].id ELSE st.heap[a].key

\* The _id index, the field index, or all documents in order.
Candidates(st, filter) ==
  IF filter.on = "all" THEN st.data
  ELSE IF filter.on = "key" THEN st.index.field[filter.val]
  ELSE IF st.byId[filter.val] = Nothing THEN <<>> ELSE <<st.byId[filter.val]>>

FindAllRaw(st, filter, includeDeleted) ==
  Only(Candidates(st, filter),
       {a \in DOMAIN st.heap : includeDeleted \/ Visible(st, a)})

Docs == ToSet(store.data)

\* The first of them, as a sequence of at most one.
FindRaw(st, filter, includeDeleted) ==
  LET all == FindAllRaw(st, filter, includeDeleted)
  IN  SubSeq(all, 1, IF all = <<>> THEN 0 ELSE 1)

\* setInIndex(), one object after the other.
SetInIndex(h, byId, objects) ==
  [i \in Id |-> LastOf(objects, {a \in DOMAIN h : h[a].id = i}, byId[i])]

NoIds == [i \in Id |-> Nothing]

\* push() and spliceAt(), spliceRange().
Push(st, new) ==
  [st EXCEPT !.data = @ \o new, !.byId = SetInIndex(st.heap, @, new)]

Without(st, gone) ==
  [st EXCEPT !.data = Only(@, DOMAIN st.heap \ gone),
             !.byId = [i \in Id |-> IF \E a \in gone : st.heap[a].id = i
                                    THEN Nothing ELSE @[i]],
             !.index = RemoveDocs(st.heap, @, gone)]

\* _enforceCapAfterInsert(): the oldest documents go.
Capped(st) ==
  IF setup.cap = 0 \/ Len(st.data) <= setup.cap
    THEN st
    ELSE Without(st, ToSet(SubSeq(st.data, 1, Len(st.data) - setup.cap)))

\* New objects at the end of the heap, and their addresses.
Allocate(st, objects) == [st EXCEPT !.heap = @ \o objects]
New(st, n) == [i \in 1 .. n |-> Len(st.heap) + i]

\* replaceAt(), which goes before the index is updated.
Replace(st, old, new) ==
  [st EXCEPT !.data = [i \in DOMAIN @ |-> IF @[i] = old THEN new ELSE @[i]],
             !.byId = [@ EXCEPT ![st.heap[new].id] = new],
             !.index = Update(st.heap, @, old, new)]

\* The collection as connect() loads it.
Loaded ==
  LET addresses == [i \in DOMAIN setup.docs |-> i]
      empty == [heap |-> setup.docs, data |-> <<>>, byId |-> NoIds, index |-> NoIndex]
      full == Push(empty, addresses)
  IN  [full EXCEPT !.index = IndexDocs(setup.docs, @, addresses)]

Init ==
  /\ setup \in Setups
  /\ store = Loaded
  /\ stage = [c \in Call |-> "idle"]
  /\ op = [c \in Call |-> NoOp]
  /\ found = [c \in Call |-> <<>>]

-----------------------------------------------------------------------------
(* Calls. *)

GoesTo(c, where) == stage' = [stage EXCEPT ![c] = where]
Finds(c, objects) == found' = [found EXCEPT ![c] = objects]

Applies(c, st) == store' = st /\ GoesTo(c, "done")

\* A call is made, and awaits connect().
Start(c) ==
  /\ stage[c] = "idle"
  /\ \E o \in setup.ops : op' = [op EXCEPT ![c] = o]
  /\ GoesTo(c, "called")
  /\ UNCHANGED <<setup, store, found>>

\* A call that throws has changed no document, unless it threw half-way.
Fails(c, st) == store' = st /\ GoesTo(c, "failed")

-----------------------------------------------------------------------------
(* Insert. *)

NewObject(c, item) ==
  [id |-> item.id, key |-> item.key, odd |-> item.odd, ttl |-> item.ttl,
   deleted |-> FALSE, from |-> {c}, by |-> {c}]

\* The next item of the batch is validated and built, with awaits in between.
NextItem(c) == op[c].items[Len(found[c]) + 1]
NextBuilt(c) == Allocate(store, <<NewObject(c, NextItem(c))>>)
Built(c) == Append(found[c], Len(store.heap) + 1)

Inserting(c) == stage[c] = "called" /\ op[c].kind = "insert"
LastItem(c) == Len(found[c]) + 1 = Len(op[c].items)

\* Mutant: ids are not compared within the batch.
DuplicateInStore(c) == store.byId[NextItem(c).id] # Nothing

DuplicateId(c) ==
  \/ store.byId[NextItem(c).id] # Nothing
  \/ \E a \in ToSet(found[c]) : store.heap[a].id = NextItem(c).id

\* The last check of the batch, in the turn that inserts.
KeysAreFree(c) == BatchIsUnique(NextBuilt(c).heap, store.index, Built(c))

InsertRefused(c) ==
  /\ Inserting(c)
  /\ DuplicateId(c) \/ (LastItem(c) /\ ~KeysAreFree(c))
  /\ Fails(c, store)
  /\ UNCHANGED <<setup, op, found>>

InsertChecks(c) ==
  /\ Inserting(c)
  /\ ~DuplicateId(c)
  /\ ~LastItem(c)
  /\ store' = NextBuilt(c)
  /\ Finds(c, Built(c))
  /\ UNCHANGED <<setup, stage, op>>

\* Every document is indexed, then all are pushed.  If one is refused, those
\* before it stay in the index.
InsertLands(c) ==
  /\ Inserting(c)
  /\ ~DuplicateId(c)
  /\ LastItem(c)
  /\ KeysAreFree(c)
  /\ LET st == NextBuilt(c)
         odd == {i \in DOMAIN Built(c) : Refused(st.heap, Built(c)[i])}
         first == {Built(c)[i] : i \in {i \in DOMAIN Built(c) : \A j \in odd : i <= j}}
         added == IF odd = {} THEN Built(c) ELSE Only(Built(c), first)
         indexed == [st EXCEPT !.index = IndexDocs(st.heap, @, added)]
     IN  IF odd = {} THEN Applies(c, Capped(Push(indexed, Built(c))))
                     ELSE Fails(c, indexed)
  /\ Finds(c, Built(c))
  /\ UNCHANGED <<setup, op>>

\* insertOne() with ifNotExists: look first, then insert like any other.
InsertIfNotExists(c) ==
  /\ stage[c] = "called"
  /\ op[c].kind = "ifNotExists"
  /\ IF FindRaw(store, op[c].filter, FALSE) # <<>>
     THEN GoesTo(c, "done") /\ UNCHANGED op
     ELSE op' = [op EXCEPT ![c].kind = "insert"] /\ UNCHANGED stage
  /\ UNCHANGED <<setup, store, found>>

\* upsert(): look first, then update or insert like any other.
Upsert(c) ==
  /\ stage[c] = "called"
  /\ op[c].kind = "upsert"
  /\ op' = [op EXCEPT ![c].kind = IF FindRaw(store, op[c].filter, FALSE) # <<>>
                                  THEN "update" ELSE "insert"]
  /\ UNCHANGED <<setup, store, stage, found>>

-----------------------------------------------------------------------------
(* Update, delete and restore. *)

\* What is found now is what is written to after the hooks.
Find(c) ==
  LET o == op[c]
      all == IF o.many THEN FindAllRaw(store, o.filter, o.kind = "restore")
                       ELSE FindRaw(store, o.filter, o.kind = "restore")
      objects == Only(all, {a \in DOMAIN store.heap : o.kind = "restore" => store.heap[a].deleted})
  IN  /\ stage[c] = "called"
      /\ o.kind = "update" \/ (o.kind \in {"delete", "restore"} /\ setup.soft)
      /\ GoesTo(c, IF objects = <<>> THEN "done" ELSE "entered")
      /\ Finds(c, objects)
      /\ UNCHANGED <<setup, store, op>>

\* applyUpdate() on a copy of the document.
Updated(c, object) ==
  [object EXCEPT
     !.key = IF op[c].set # Nothing THEN op[c].set
             ELSE IF @ = Nothing THEN Nothing ELSE @ + op[c].inc,
     !.odd = @ \/ op[c].odd,
     !.by = @ \union {c}]

\* Mutant: the new object goes where the document with its _id is.
CommitById(st, old, new) ==
  LET now == {a \in ToSet(st.data) : st.heap[a].id = st.heap[new].id}
  IN  IF now = {} THEN [st |-> st, ok |-> FALSE]
      ELSE LET a == CHOOSE a \in now : TRUE
           IN  [st |-> Replace(st, a, new), ok |-> Updates(st.heap, st.index, a, new)]

\* _commitUpdatedDoc(): the object that was found must be in place still.
CommitUpdatedDoc(st, old, new) ==
  IF old \notin ToSet(st.data)
    THEN [st |-> st, ok |-> FALSE]
    ELSE [st |-> Replace(st, old, new), ok |-> Updates(st.heap, st.index, old, new)]

\* One after the other, until one throws.
CommitAll(st, old, new) ==
  LET done[i \in 0 .. Len(old)] ==
        IF i = 0 THEN [st |-> st, ok |-> TRUE]
        ELSE IF done[i - 1].ok THEN CommitUpdatedDoc(done[i - 1].st, old[i], new[i])
        ELSE done[i - 1]
  IN  done[Len(old)]

UpdateLands(c) ==
  LET old == found[c]
      st == Allocate(store, [i \in DOMAIN old |-> Updated(c, store.heap[old[i]])])
      new == New(store, Len(old))
      result == CommitAll(st, old, new)
  IN  /\ stage[c] = "entered"
      /\ op[c].kind = "update"
      /\ \A a \in ToSet(new) : st.heap[a].key \in Key \union {Nothing}
      /\ IF ~CandidatesAreUnique(st.heap, st.index, old, new) THEN Fails(c, store)
         ELSE IF ~result.ok THEN Fails(c, result.st)
         ELSE Applies(c, result.st)
      /\ UNCHANGED <<setup, op, found>>

\* _deletedAt is set or removed in the objects that were found, which the _id
\* index then has, in place or not.
SetDeleted(c, flag) ==
  [store EXCEPT
     !.heap = [a \in DOMAIN store.heap |->
                 IF a \in ToSet(found[c])
                   THEN [store.heap[a] EXCEPT !.deleted = flag, !.by = @ \union {c}]
                   ELSE store.heap[a]],
     !.byId = SetInIndex(store.heap, @, found[c])]

SoftDelete(c) ==
  /\ stage[c] = "entered"
  /\ op[c].kind = "delete"
  /\ Applies(c, SetDeleted(c, TRUE))
  /\ UNCHANGED <<setup, op, found>>

RestoreDoc(c) ==
  /\ stage[c] = "entered"
  /\ op[c].kind = "restore"
  /\ Applies(c, SetDeleted(c, FALSE))
  /\ UNCHANGED <<setup, op, found>>

\* A hard delete looks for its documents in the turn that removes them;
\* deleteMany() builds the _id index anew.
HardDelete(c) ==
  LET matching == Only(store.data, {a \in Docs : Matches(store, a, op[c].filter)})
      first == IF matching = <<>> THEN {} ELSE {Head(matching)}
      rest == Without(store, ToSet(matching))
  IN  /\ stage[c] = "called"
      /\ op[c].kind = "delete"
      /\ ~setup.soft
      /\ Applies(c, IF op[c].many
                    THEN [rest EXCEPT !.byId = SetInIndex(rest.heap, NoIds, rest.data)]
                    ELSE Without(store, first))
      /\ UNCHANGED <<setup, op, found>>

-----------------------------------------------------------------------------
(* upsertMany(): the documents of the batch one after the other, each looked *)
(* for in the turn that wrote the one before it and written after its hooks. *)

\* The filter of an item, on the field op[c].filter is on.
ItemFilter(c, item) ==
  IF op[c].filter.on = "id" THEN [on |-> "id", val |-> item.id]
                            ELSE [on |-> "key", val |-> item.key]

\* found[c]: what was written, and last, what the next one was found to be.
PickFor(c, st, item) ==
  LET existing == FindRaw(st, ItemFilter(c, item), FALSE)
  IN  IF existing = <<>> THEN <<Nothing>> ELSE existing

UpsertManyBegins(c) ==
  /\ stage[c] = "called"
  /\ op[c].kind = "upsertMany"
  /\ Finds(c, PickFor(c, store, Head(op[c].items)))
  /\ GoesTo(c, "entered")
  /\ UNCHANGED <<setup, store, op>>

UpdatedTo(c, object, item) ==
  [object EXCEPT !.key = IF item.key = Nothing THEN @ ELSE item.key,
                 !.odd = item.odd,
                 !.by = @ \union {c}]

\* The item updates what was found for it.
UpsertUpdate(c, item, old) ==
  LET st == Allocate(store, <<UpdatedTo(c, store.heap[old], item)>>)
      new == Len(st.heap)
  IN  IF CandidatesAreUnique(st.heap, st.index, <<old>>, <<new>>)
        THEN CommitUpdatedDoc(st, old, new)
        ELSE [st |-> store, ok |-> FALSE]

\* The item is inserted, unless the _id is taken or was inserted by the batch.
UpsertInsert(c, item) ==
  LET before == {op[c].items[j].id : j \in {j \in 1 .. Len(found[c]) - 1 : found[c][j] = Nothing}}
      st == Allocate(store, <<NewObject(c, item)>>)
      new == Len(st.heap)
      indexed == [st EXCEPT !.index = IndexDocs(st.heap, @, <<new>>)]
  IN  IF store.byId[item.id] # Nothing \/ item.id \in before
         \/ ~BatchIsUnique(st.heap, st.index, <<new>>) THEN [st |-> store, ok |-> FALSE]
      ELSE IF Refused(st.heap, new) THEN [st |-> indexed, ok |-> FALSE]
      ELSE [st |-> Push(indexed, <<new>>), ok |-> TRUE]

UpsertManyStep(c) ==
  LET i == Len(found[c])
      item == op[c].items[i]
      old == found[c][i]
      result == IF old = Nothing THEN UpsertInsert(c, item) ELSE UpsertUpdate(c, item, old)
  IN  /\ stage[c] = "entered"
      /\ op[c].kind = "upsertMany"
      /\ \/ /\ ~result.ok
            /\ Fails(c, result.st)
            /\ UNCHANGED found
         \/ /\ result.ok /\ i < Len(op[c].items)
            /\ store' = result.st
            /\ Finds(c, found[c] \o PickFor(c, result.st, op[c].items[i + 1]))
            /\ UNCHANGED stage
         \/ /\ result.ok /\ i = Len(op[c].items)
            /\ Applies(c, IF Nothing \in ToSet(found[c]) THEN Capped(result.st)
                                                         ELSE result.st)
            /\ UNCHANGED found
      /\ UNCHANGED <<setup, op>>

-----------------------------------------------------------------------------

\* A TTL sweep removes the documents that have expired, whoever is at work.
Sweep ==
  \E gone \in SUBSET {a \in Docs : store.heap[a].ttl} :
    /\ gone # {}
    /\ store' = Without(store, gone)
    /\ UNCHANGED <<setup, calls>>

Step(c) ==
  \/ InsertRefused(c)
  \/ InsertChecks(c)
  \/ InsertLands(c)
  \/ InsertIfNotExists(c)
  \/ Upsert(c)
  \/ Find(c)
  \/ UpdateLands(c)
  \/ SoftDelete(c)
  \/ RestoreDoc(c)
  \/ HardDelete(c)
  \/ UpsertManyBegins(c)
  \/ UpsertManyStep(c)

Next == Sweep \/ \E c \in Call : Start(c) \/ Step(c)

Spec == Init /\ [][Next]_vars

-----------------------------------------------------------------------------
(* Properties. *)

\* Values of a store whose objects are h.
Index(h) == [field : [Key -> Seq(DOMAIN h)], unique : [Key -> DOMAIN h \union {Nothing}],
             compound : SUBSET DOMAIN h]
Store(h) == [heap : {h}, data : Seq(DOMAIN h), byId : [Id -> DOMAIN h \union {Nothing}],
             index : Index(h)]

\* The operations, and what they become when a call has looked.
Underway == setup.ops \union {NoOp} \union
            {[o EXCEPT !.kind = k] : o \in setup.ops, k \in Kind}

\* The types of the variables, and what each stage implies.
TypeOK ==
  /\ setup \in Setups
  /\ store.heap \in Seq(Object)
  /\ store \in Store(store.heap)
  /\ stage \in [Call -> Stage]
  /\ op \in [Call -> Underway]
  /\ found \in [Call -> Seq(DOMAIN store.heap \union {Nothing})]
  /\ \A c \in Call : stage[c] = "entered" => found[c] # <<>>

\* Collections and calls of which every change succeeds or throws before it
\* changes anything: the index engine refuses no value, and no update of many
\* documents gives one the value that another has until its turn.
Regular ==
  /\ setup.compound => /\ \A i \in DOMAIN setup.docs : ~setup.docs[i].odd
                       /\ \A o \in setup.ops :
                            ~o.odd /\ \A i \in DOMAIN o.items : ~o.items[i].odd
  /\ \A o \in setup.ops : o.many => o.inc = 0

\* No batch is about to insert an _id that was taken after it was checked.
BatchesKeepIds ==
  \A c \in Call :
    Inserting(c) /\ LastItem(c) /\ ~DuplicateId(c) =>
      \A a \in ToSet(found[c]) : store.byId[store.heap[a].id] = Nothing

\* No two documents have the same _id or the same value of the unique field,
\* and no document is in the collection twice.
Distinct ==
  /\ IsInjective(store.data)
  /\ \A a, b \in Docs :
       a # b => /\ store.heap[a].id # store.heap[b].id
                /\ store.heap[a].key = store.heap[b].key => store.heap[a].key = Nothing

\* The _id index has exactly the documents, whatever calls were under way when
\* documents were replaced, evicted or swept.
IdsAgree ==
  ~setup.soft =>
    \A i \in Id : {a \in Docs : store.heap[a].id = i} = {store.byId[i]} \ {Nothing}

\* So have the field index, the unique index and the compound index: a value
\* nobody has is free, and a document is found by the value it has.
FieldsAgree ==
  /\ store.index.compound = Docs
  /\ \A k \in Key : LET with == {a \in Docs : store.heap[a].key = k}
                    IN  /\ ToSet(store.index.field[k]) = with
                        /\ with = {store.index.unique[k]} \ {Nothing}

\* All indexes say the same as _data, whatever was inserted, updated, deleted,
\* evicted or swept between two awaits of another call.
IndexesAgree == IdsAgree /\ FieldsAgree

\* What a call that succeeded wrote is in the document still, as long as the
\* document is there.
Kept(c) ==
  stage[c] = "done" =>
    \A a \in ToSet(found[c]) \ {Nothing}, b \in Docs :
      (store.heap[a].id = store.heap[b].id /\ store.heap[a].from = store.heap[b].from)
        => c \in store.heap[b].by

\* No insert or update that succeeded is lost to another one that found the
\* document before it.
UpdatesKept == \A c \in Call : op[c].kind \in {"insert", "update", "upsertMany"} => Kept(c)

\* No soft delete and no restore that succeeded is lost.
DeletesKept == \A c \in Call : op[c].kind \in {"delete", "restore"} => Kept(c)

\* An insert, of one document or a batch, and an update of one document leave
\* no trace when they fail.
FailedLeavesNothing ==
  \A c \in Call :
    stage[c] = "failed" /\ (op[c].kind = "insert" \/ (op[c].kind = "update" /\ ~op[c].many))
      => \A a \in Docs : c \notin store.heap[a].by

=============================================================================
