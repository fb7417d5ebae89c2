------------------------------- MODULE Query --------------------------------
(***************************************************************************)
(* Finding documents: what a filter matches, how the planner looks for it  *)
(* in the _id index, the field indexes or the data, and the two reads that *)
(* go on for several turns of the event loop: find() with populate, which  *)
(* awaits inside its loop, and search(), which awaits an embedding.        *)
(*                                                                         *)
(* What these loops hold on to are JavaScript objects: an array is changed *)
(* in place by push() and splice(), and abandoned by replaceAll(); a Set of*)
(* an index is changed in place, and abandoned when it gets empty.  Arrays *)
(* and Sets are therefore numbered here, and so are the documents.  Writes *)
(* are one turn each (Documents has what they await).                      *)
(***************************************************************************)
EXTENDS Integers, SequencesExt, FiniteSets

CONSTANTS Id,         \* values of _id
          MaxWrites,  \* bound on the writes
          Setups,     \* collections, the writes and the reads, see Init
          Filters     \* filters the planner is asked about in every state

Undefined == 0
Null == -1
Fields == <<"a", "b">>    \* the fields of a document, as filters name them
None == 0                 \* no document, no Set

VARIABLES
  setup,    \* the collection, which never changes: soft, indexed (fields with
            \* an index), compound (one on a and b), docs
            \* (loaded), puts (inserted and updated), removes (filters), gets (reads)
  heap,     \* the documents: id, a, b, vec (Undefined: no _vector), deleted
  arrays,   \* every array that was _data; the last one is
  sets,     \* every Set of an index; None where a document was taken out
  store,    \* byId: the _id index; index: the Set of each key of an index
  reader,   \* a find() or a search()
  touched,  \* what was inserted, replaced or removed since the reader began
  spliced,  \* whether an array lost a document since then
  writes    \* the number of writes

vars == <<setup, heap, arrays, sets, store, reader, touched, spliced, writes>>

data == Last(arrays)

-----------------------------------------------------------------------------
(* matchesFilter().  A filter is a function on its keys: fields of the      *)
(* document, and the logical operators, which have filters under them.      *)

Logical == {"$or", "$and", "$not"}

Number(v) == IF v = Null THEN 0 ELSE v

\* One condition: a value, or an operator.  "test" is a RegExp, a $regex or an
\* $fn, given by the values it accepts; comparing undefined is never true.
Passes(v, cond) ==
  CASE cond.op \in {"is", "$eq"} -> v = cond.val
    [] cond.op = "$ne" -> v # cond.val
    [] cond.op = "$gt" -> v # Undefined /\ Number(v) > cond.val
    [] cond.op = "$lte" -> v # Undefined /\ Number(v) <= cond.val
    [] cond.op \in {"$in", "test"} -> v \in cond.vals
    [] cond.op = "$nin" -> v \notin cond.vals

RECURSIVE MatchesFilter(_, _)

MatchesFilter(doc, filter) ==
  /\ "$or" \in DOMAIN filter => \E i \in DOMAIN filter["$or"] : MatchesFilter(doc, filter["$or"][i])
  /\ "$and" \in DOMAIN filter => \A i \in DOMAIN filter["$and"] : MatchesFilter(doc, filter["$and"][i])
  /\ "$not" \in DOMAIN filter => ~MatchesFilter(doc, filter["$not"])
  /\ \A k \in DOMAIN filter \ Logical : Passes(doc[k], filter[k])

\* The keys of a filter in the order they are written: logical ones last here.
Keys(filter) == SelectSeq(<<"id", "a", "b", "$or", "$and", "$not">>, LAMBDA k : k \in DOMAIN filter)

\* Mutant: a key that belongs to no class is dropped.
PresortDrops(filter, indexed) ==
  LET first     == SelectSeq(Keys(filter), LAMBDA k : k \in indexed)
      Rest(ops) == SelectSeq(Keys(filter), LAMBDA k : k \notin indexed \union Logical /\ filter[k].op \in ops)
  IN  first \o Rest({"is"}) \o Rest({"$ne", "$gt", "$lte", "$in", "$nin"}) \o Rest({"test"})
            \o SelectSeq(Keys(filter), LAMBDA k : k \in Logical)

\* presortFilter(): indexed fields, equality, ranges, what is expensive, and the
\* logical operators, in this order.
PresortFilter(filter, indexed) ==
  LET first     == SelectSeq(Keys(filter), LAMBDA k : k \in indexed)
      Rest(ops) == SelectSeq(Keys(filter), LAMBDA k : k \notin indexed \union Logical /\ filter[k].op \in ops)
  IN  first \o Rest({"is", "$eq"}) \o Rest({"$ne", "$gt", "$lte", "$in", "$nin"}) \o Rest({"test"})
            \o SelectSeq(Keys(filter), LAMBDA k : k \in Logical)

\* What find() evaluates for each document.
MatchesPresorted(doc, filter) ==
  LET keys == PresortFilter(filter, setup.indexed)
  IN  MatchesFilter(doc, [k \in ToSet(keys) |-> filter[k]])

-----------------------------------------------------------------------------
(* The planner. *)

IsVisible(o, includeDeleted) == ~setup.soft \/ ~heap[o].deleted \/ includeDeleted

\* Conditions that are plain values; null and undefined are.
IsPlain(filter, k) == k \in DOMAIN filter /\ filter[k].op = "is"

\* Indexes are keyed by field and value; in the key of a compound index, null
\* and undefined are the same.
FieldKey(k, v) == <<k, v>>
CompoundKey(a, b) ==
  <<"ab", IF a = Null THEN Undefined ELSE a, IF b = Null THEN Undefined ELSE b>>

Values == {Null, Undefined, 1, 2}
IndexKeys == {FieldKey(k, v) : k \in {"a", "b"}, v \in Values}
             \union {CompoundKey(v, w) : v, w \in Values}

OfSet(n) == IF n = None THEN <<>> ELSE SelectSeq(sets[n], LAMBDA o : o # None)

\* The index that find() and findMany() use: the compound one if these two
\* fields are all the plain values, or else that of the first plain value.
UsesCompound(filter) ==
  setup.compound /\ {k \in DOMAIN filter \ Logical : filter[k].op = "is"} = {"a", "b"}

UsableFields(filter) == SelectSeq(Fields, LAMBDA k : k \in setup.indexed /\ IsPlain(filter, k))

\* What a loop over the candidates holds: an array or a Set by its number.
Candidates(filter) ==
  IF UsesCompound(filter)
  THEN [on |-> "set", ref |-> store.index[CompoundKey(filter["a"].val, filter["b"].val)]]
  ELSE IF UsableFields(filter) # <<>>
  THEN LET k == UsableFields(filter)[1]
       IN  [on |-> "set", ref |-> store.index[FieldKey(k, filter[k].val)]]
  ELSE [on |-> "array", ref |-> Len(arrays)]

Slots(c) == IF c.on = "array" THEN arrays[c.ref] ELSE IF c.ref = None THEN <<>> ELSE sets[c.ref]

Elements(c) == SelectSeq(Slots(c), LAMBDA o : o # None)

\* Mutant: what the index has is not compared with the rest of the filter.
FindRawOfIndex(filter, includeDeleted) ==
  LET First(s) == IF s = <<>> THEN None ELSE s[1]
      Hit(o) == IsVisible(o, includeDeleted) /\ MatchesFilter(heap[o], filter)
      k == UsableFields(filter)[1]
  IN  IF UsableFields(filter) # <<>> THEN First(OfSet(store.index[FieldKey(k, filter[k].val)]))
      ELSE First(SelectSeq(data, Hit))

\* findRaw(), for findOne(), updateOne(), a soft deleteOne(), restore().  With an
\* _id and nothing else, nothing is compared; an _id that is an operator is
\* looked up as it is, and is the key of no document.
FindRaw(filter, includeDeleted) ==
  LET Hit(o)   == IsVisible(o, includeDeleted) /\ MatchesFilter(heap[o], filter)
      First(s) == IF SelectSeq(s, Hit) = <<>> THEN None ELSE SelectSeq(s, Hit)[1]
      item == IF IsPlain(filter, "id") THEN store.byId[filter["id"].val] ELSE None
      k    == UsableFields(filter)[1]
  IN  IF "id" \in DOMAIN filter
      THEN IF item # None /\ IsVisible(item, includeDeleted)
              /\ (DOMAIN filter # {"id"} => MatchesFilter(heap[item], filter))
           THEN item ELSE None
      ELSE IF UsableFields(filter) # <<>>
      THEN First(OfSet(store.index[FieldKey(k, filter[k].val)]))
      ELSE First(data)

\* findAllRaw(), for count(), sum(), avg(), groupBy(), updateMany(), a soft
\* deleteMany(), search() with a filter.
FindAllRaw(filter, includeDeleted) ==
  LET item == IF IsPlain(filter, "id") THEN store.byId[filter["id"].val] ELSE None
      Hit(o) == IsVisible(o, includeDeleted) /\ MatchesFilter(heap[o], filter)
  IN  IF "id" \in DOMAIN filter
      THEN IF item # None /\ Hit(item) THEN <<item>> ELSE <<>>
      ELSE SelectSeq(Elements(Candidates(filter)), Hit)

\* find() without populate: one turn.
Find(filter, includeDeleted) ==
  SelectSeq(Elements(Candidates(filter)),
            LAMBDA o : IsVisible(o, includeDeleted) /\ MatchesPresorted(heap[o], filter))

-----------------------------------------------------------------------------
(* Sorting, pages and similarity.  Fields that are sorted by have numbers or *)
(* null: against undefined, the comparison of find() calls everything equal. *)

Min2(m, n) == IF m <= n THEN m ELSE n

\* Array.sort() is stable.
SortBy(docs, field, dir) ==
  LET Of(n) == SelectSeq(docs, LAMBDA o : Number(heap[o][field]) = n)
  IN  IF dir = 1 THEN Of(0) \o Of(1) \o Of(2) ELSE Of(2) \o Of(1) \o Of(0)

\* find() with a limit; sort is empty or a field and a direction.  The first
\* page of what is not sorted is found without looking for more, or counting.
Page(filter, sort, page, limit) ==
  LET sorted == IF sort = <<>> THEN Find(filter, FALSE) ELSE SortBy(Find(filter, FALSE), sort[1], sort[2])
      n == Len(sorted)
  IN  IF sort = <<>> /\ page = 1
      THEN [docs |-> SubSeq(sorted, 1, Min2(limit, n)), pages |-> None]
      ELSE [docs |-> SubSeq(sorted, (page - 1) * limit + 1, Min2(page * limit, n)),
            pages |-> (n + limit - 1) \div limit]

\* Mutant: the limit is applied before the ranking.
RankFirst(docs, limit, minScore) ==
  LET scored == SelectSeq(docs, LAMBDA o : heap[o].vec # Undefined /\ heap[o].vec >= minScore)
      few    == SubSeq(scored, 1, Min2(limit, Len(scored)))
      Of(n)  == SelectSeq(few, LAMBDA o : heap[o].vec = n)
  IN  Of(3) \o Of(2) \o Of(1)

\* vectorSearch() and similarByVector(): the best first.  A vector is its
\* similarity to what is searched for.
Rank(docs, limit, minScore) ==
  LET scored == SelectSeq(docs, LAMBDA o : heap[o].vec # Undefined /\ heap[o].vec >= minScore)
      Of(n)  == SelectSeq(scored, LAMBDA o : heap[o].vec = n)
      sorted == Of(3) \o Of(2) \o Of(1)
  IN  SubSeq(sorted, 1, Min2(limit, Len(sorted)))

-----------------------------------------------------------------------------
(* Writes, and the indexes they keep. *)

\* The keys under which the indexes have a document.
KeysOf(o) ==
  {FieldKey(k, heap[o][k]) : k \in {f \in setup.indexed : heap[o][f] # Undefined}}
  \union (IF setup.compound THEN {CompoundKey(heap[o].a, heap[o].b)} ELSE {})

\* _indexDoc(): into the Set of each key, or a new one.
IndexDoc(ix, keys, o) ==
  LET Put(acc, k) ==
        IF acc.index[k] = None
        THEN [sets |-> Append(acc.sets, <<o>>), index |-> [acc.index EXCEPT ![k] = Len(acc.sets) + 1]]
        ELSE [acc EXCEPT !.sets[acc.index[k]] = Append(@, o)]
  IN  FoldLeft(Put, ix, SetToSeq(keys))

\* remove(): out of these Sets; one that is empty is abandoned.
RemoveDoc(ix, keys, o) ==
  LET Drop(acc, k) ==
        LET left == [i \in DOMAIN acc.sets[acc.index[k]] |->
                      IF acc.sets[acc.index[k]][i] = o THEN None ELSE acc.sets[acc.index[k]][i]]
        IN  [sets  |-> [acc.sets EXCEPT ![acc.index[k]] = left],
             index |-> IF ToSet(left) \subseteq {None} THEN [acc.index EXCEPT ![k] = None] ELSE acc.index]
  IN  FoldLeft(Drop, ix, SetToSeq(keys))

Indexes == [sets |-> sets, index |-> store.index]

\* A document as insertOne() or an update makes it.
New(d) == [id |-> d.id, a |-> d.a, b |-> d.b, vec |-> d.vec, deleted |-> FALSE]

KeysOfNew(d) ==
  {FieldKey(k, d[k]) : k \in {f \in setup.indexed : d[f] # Undefined}}
  \union (IF setup.compound THEN {CompoundKey(d.a, d.b)} ELSE {})

Written(ids) ==
  /\ writes < MaxWrites
  /\ writes' = writes + 1
  /\ touched' = IF reader.stage = "idle" THEN {} ELSE touched \union ids
  /\ UNCHANGED <<setup, reader>>

\* insertOne(): push().
Insert(d) ==
  LET o == Len(heap) + 1
  IN  /\ store.byId[d.id] = None
      /\ heap' = Append(heap, New(d))
      /\ arrays' = [arrays EXCEPT ![Len(arrays)] = Append(@, o)]
      /\ LET ix == IndexDoc(Indexes, KeysOfNew(d), o)
         IN  sets' = ix.sets /\ store' = [byId |-> [store.byId EXCEPT ![d.id] = o], index |-> ix.index]
      /\ UNCHANGED spliced
      /\ Written({d.id})

\* updateOne(): another object in its place.
Replace(d) ==
  LET old == store.byId[d.id]
      o   == Len(heap) + 1
  IN  /\ old # None /\ IsVisible(old, FALSE)
      /\ heap' = Append(heap, New(d))
      /\ arrays' = [arrays EXCEPT ![Len(arrays)] = [i \in DOMAIN @ |-> IF @[i] = old THEN o ELSE @[i]]]
      /\ LET ix == IndexDoc(RemoveDoc(Indexes, KeysOf(old), old), KeysOfNew(d), o)
         IN  sets' = ix.sets /\ store' = [byId |-> [store.byId EXCEPT ![d.id] = o], index |-> ix.index]
      /\ UNCHANGED spliced
      /\ Written({d.id})

\* deleteOne(): splice(), or the mark.
RemoveOne(id) ==
  LET old == store.byId[id]
  IN  /\ old # None /\ IsVisible(old, FALSE)
      /\ IF setup.soft
         THEN /\ heap' = [heap EXCEPT ![old].deleted = TRUE]
              /\ UNCHANGED <<arrays, sets, store, spliced>>
         ELSE /\ arrays' = [arrays EXCEPT ![Len(arrays)] = SelectSeq(@, LAMBDA o : o # old)]
              /\ LET ix == RemoveDoc(Indexes, KeysOf(old), old)
                 IN  sets' = ix.sets /\ store' = [byId |-> [store.byId EXCEPT ![id] = None], index |-> ix.index]
              /\ spliced' = (reader.stage # "idle")
              /\ UNCHANGED heap
      /\ Written({id})

\* deleteMany() of what matches: replaceAll() with the rest.
RemoveMany(filter) ==
  LET gone == SelectSeq(data, LAMBDA o : MatchesFilter(heap[o], filter))
      Out(acc, o) == RemoveDoc(acc, KeysOf(o), o)
      ix   == FoldLeft(Out, Indexes, gone)
  IN  /\ ~setup.soft /\ gone # <<>>
      /\ arrays' = Append(arrays, SelectSeq(data, LAMBDA o : o \notin ToSet(gone)))
      /\ sets' = ix.sets
      /\ store' = [byId |-> [i \in Id |-> IF store.byId[i] \in ToSet(gone) THEN None ELSE store.byId[i]],
                   index |-> ix.index]
      /\ UNCHANGED <<heap, spliced>>
      /\ Written({heap[o].id : o \in ToSet(gone)})

-----------------------------------------------------------------------------
(* find() with populate. *)

NoReader == [stage |-> "idle", get |-> [kind |-> "none"], on |-> [on |-> "array", ref |-> 1], at |-> 0,
             list |-> <<>>, got |-> <<>>]

\* Mutant: the loop ends at the first document that does not match.
AdvanceStops(r) ==
  LET slots == Slots(r.on)
      p     == r.at + 1
  IN  IF p \in DOMAIN slots /\ slots[p] # None /\ IsVisible(slots[p], FALSE)
         /\ MatchesPresorted(heap[slots[p]], r.get.filter)
      THEN [r EXCEPT !.at = p, !.got = Append(@, slots[p])]
      ELSE [r EXCEPT !.stage = "done"]

\* The loop, up to the next document it populates, or to the end.
Advance(r) ==
  LET slots == Slots(r.on)
      Hit(o) == o # None /\ IsVisible(o, FALSE) /\ MatchesPresorted(heap[o], r.get.filter)
      left  == {p \in DOMAIN slots : p > r.at /\ Hit(slots[p])}
      p     == CHOOSE q \in left : \A q2 \in left : q <= q2
  IN  IF left = {} THEN [r EXCEPT !.stage = "done"]
      ELSE [r EXCEPT !.at = p, !.got = Append(@, slots[p])]

StartFind(g) ==
  /\ reader.stage = "idle" /\ g \in setup.gets /\ g.kind = "find"
  /\ reader' = Advance([NoReader EXCEPT !.stage = "looping", !.get = g, !.on = Candidates(g.filter)])
  /\ UNCHANGED <<setup, heap, arrays, sets, store, touched, spliced, writes>>

\* The related documents are there; the next turn of the loop.
Populated ==
  /\ reader.stage = "looping"
  /\ reader' = Advance(reader)
  /\ UNCHANGED <<setup, heap, arrays, sets, store, touched, spliced, writes>>

\* search(): the candidates are the documents of the filter as they are now, or
\* the array that is _data now; the embedding is awaited.
StartSearch(g) ==
  /\ reader.stage = "idle" /\ g \in setup.gets /\ g.kind = "search"
  /\ reader' = [NoReader EXCEPT !.stage = "embedding", !.get = g, !.on.ref = Len(arrays),
                                !.list = IF g.filter = <<>> THEN <<>> ELSE FindAllRaw(g.filter, FALSE)]
  /\ UNCHANGED <<setup, heap, arrays, sets, store, touched, spliced, writes>>

Embedded ==
  /\ reader.stage = "embedding"
  /\ LET docs == IF reader.get.filter = <<>> THEN Slots(reader.on) ELSE reader.list
     IN  reader' = [reader EXCEPT !.stage = "done",
                                  !.got = Rank(docs, reader.get.limit, reader.get.minScore)]
  /\ UNCHANGED <<setup, heap, arrays, sets, store, touched, spliced, writes>>

-----------------------------------------------------------------------------
Init ==
  /\ setup \in Setups
  /\ heap = [i \in DOMAIN setup.docs |-> New(setup.docs[i])]
  /\ arrays = <<[i \in DOMAIN setup.docs |-> i]>>
  /\ LET empty == [sets |-> <<>>, index |-> [k \in IndexKeys |-> None]]
         In(acc, i) == IndexDoc(acc, KeysOfNew(setup.docs[i]), i)
         ix == FoldLeft(In, empty, [i \in DOMAIN setup.docs |-> i])
     IN  /\ sets = ix.sets
         /\ store = [byId |-> [d \in Id |-> SelectInSeq(setup.docs, LAMBDA x : x.id = d)],
                     index |-> ix.index]
  /\ reader = NoReader
  /\ touched = {}
  /\ spliced = FALSE
  /\ writes = 0

Next ==
  \/ \E d \in setup.puts : Insert(d) \/ Replace(d)
  \/ \E i \in Id : RemoveOne(i)
  \/ \E f \in setup.removes : RemoveMany(f)
  \/ \E g \in setup.gets : StartFind(g) \/ StartSearch(g)
  \/ Populated \/ Embedded

Spec == Init /\ [][Next]_vars

-----------------------------------------------------------------------------
(* Properties. *)

\* Every variable has its type; each index has the documents of _data under
\* their keys and no others, each of them once.
TypeOK ==
  /\ \A o \in DOMAIN heap : heap[o] \in [id : Id, a : Values, b : Values, vec : 0 .. 3, deleted : BOOLEAN]
  /\ IsInjective(data)
  /\ \A i \in Id : IF store.byId[i] = None THEN \A o \in ToSet(data) : heap[o].id # i
                   ELSE store.byId[i] \in ToSet(data) /\ heap[store.byId[i]].id = i
  /\ \A k \in IndexKeys :
       LET of == OfSet(store.index[k])
       IN  IsInjective(of) /\ ToSet(of) = {o \in ToSet(data) : k \in KeysOf(o)}
  /\ reader.stage \in {"idle", "looping", "embedding", "done"}
  /\ writes \in 0 .. MaxWrites

\* What an exhaustive look at the data finds.
Scan(filter, includeDeleted) ==
  SelectSeq(data, LAMBDA o : IsVisible(o, includeDeleted) /\ MatchesFilter(heap[o], filter))

\* Filters whose condition on _id is a value, and that ask an index of a single
\* field for no undefined one: such an index does not have these documents.
PlainId(filter) == "id" \in DOMAIN filter => IsPlain(filter, "id")
AsksForValues(filter) ==
  \A k \in setup.indexed : IsPlain(filter, k) => filter[k].val # Undefined

\* Whatever indexes a collection has and whatever was written, the planner finds
\* what a scan with matchesFilter() finds: find() with its presorted filter and
\* findMany() the same documents, each once; findOne() one of them if there are
\* any.  (Which one, and in which order, depends on the index.)
PlansAgree ==
  \A f \in Filters : (PlainId(f) /\ AsksForValues(f)) =>
    \A incl \in BOOLEAN :
      LET scan == Scan(f, incl)
      IN  /\ IsInjective(Find(f, incl)) /\ ToSet(Find(f, incl)) = ToSet(scan)
          /\ IsInjective(FindAllRaw(f, incl)) /\ ToSet(FindAllRaw(f, incl)) = ToSet(scan)
          /\ IF scan = <<>> THEN FindRaw(f, incl) = None ELSE FindRaw(f, incl) \in ToSet(scan)

\* The pages of find() are the result, in order and without gaps, as many as
\* totalPages says; and the first page of what is not sorted, which stops early,
\* is the same as when it is counted.
PagesAreWhole ==
  \A f \in Filters, limit \in 1 .. 3, dir \in {-1, 1} :
    (\A o \in ToSet(data) : heap[o].b # Undefined) =>
      LET n     == Len(Find(f, FALSE))
          pages == (n + limit - 1) \div limit
          whole == FlattenSeq([p \in 1 .. pages |-> Page(f, <<"b", dir>>, p, limit).docs])
      IN  /\ IsInjective(whole) /\ ToSet(whole) = ToSet(Find(f, FALSE))
          /\ \A i, j \in DOMAIN whole :
               i < j => dir * Number(heap[whole[i]].b) <= dir * Number(heap[whole[j]].b)
          /\ Page(f, <<"b", dir>>, pages + 1, limit) = [docs |-> <<>>, pages |-> pages]
          /\ Page(f, <<>>, 1, limit).docs
               \o FlattenSeq([p \in 1 .. pages - 1 |-> Page(f, <<>>, p + 1, limit).docs]) = Find(f, FALSE)

\* Every way to look for documents finds those that match, page by page.
FindsAreExact == PlansAgree /\ PagesAreWhole

\* find() with populate, which other calls overtake: every document that matches
\* and that nobody wrote meanwhile is found, by an index whatever happens, and
\* else unless a document was spliced out of the array; and none is found
\* twice, unless it was written meanwhile.
FindIsComplete ==
  (reader.stage = "done" /\ reader.get.kind = "find") =>
    /\ (reader.on.on = "set" \/ ~spliced) =>
         \A o \in ToSet(Scan(reader.get.filter, FALSE)) :
           heap[o].id \in touched \/ o \in ToSet(reader.got)
    /\ IsInjective(reader.got)
    /\ \A i, j \in DOMAIN reader.got :
         heap[reader.got[i]].id = heap[reader.got[j]].id => i = j \/ heap[reader.got[i]].id \in touched

\* search(), whose embedding other calls overtake, ranks what it returns, and
\* leaves out no document that nobody wrote meanwhile for one that is less
\* similar, nor for want of room while there is some.
SearchRanksBest ==
  (reader.stage = "done" /\ reader.get.kind = "search") =>
    LET g == reader.get
        Better(o, p) == heap[o].vec >= heap[p].vec
    IN  /\ \A i, j \in DOMAIN reader.got : i < j => Better(reader.got[i], reader.got[j])
        /\ \A o \in ToSet(Scan(g.filter, g.filter = <<>>)) :
             (heap[o].id \notin touched /\ heap[o].vec # Undefined /\ heap[o].vec >= g.minScore)
             => \/ o \in ToSet(reader.got)
                \/ Len(reader.got) = g.limit /\ \A p \in ToSet(reader.got) : Better(p, o)

-----------------------------------------------------------------------------
(* Sentences of the documentation that the code does not keep.             *)

\* collection.js:846 "Find all matching documents", also for find() with populate
\* when a document is deleted from the array it goes through.
FindsAll ==
  (reader.stage = "done" /\ reader.get.kind = "find") =>
    \A o \in ToSet(Scan(reader.get.filter, FALSE)) :
      heap[o].id \in touched \/ o \in ToSet(reader.got)

\* documentation.md: the operators of a filter are there for every field, _id
\* too, and for findOne(), count() and updateMany() as for find().
IdIsAField ==
  \A f \in Filters : AsksForValues(f) => ToSet(FindAllRaw(f, FALSE)) = ToSet(Find(f, FALSE))

\* documentation.md:194 "documents are hidden but not removed", from search()
\* without a filter too.
SearchFindsVisible ==
  (reader.stage = "done" /\ reader.get.kind = "search") =>
    \A o \in ToSet(reader.got) : IsVisible(o, FALSE) \/ heap[o].id \in touched
=============================================================================
