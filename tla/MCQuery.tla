------------------------------ MODULE MCQuery -------------------------------
(* Collections, writes, reads and filters for Query. *)
EXTENDS Query, TLC

Is(v) == [op |-> "is", val |-> v]
Op(name, v) == [op |-> name, val |-> v]
OneOf(name, s) == [op |-> name, vals |-> s]

Every == <<>>
A(c) == "a" :> c
B(c) == "b" :> c
ById(c) == "id" :> c

\* Values and every operator, alone and together with a value, under the logical
\* operators, and with an _id.
MCFilters ==
  {Every, A(Is(1)), A(Is(Null)), A(Is(Undefined)), B(Is(2)), A(Is(1)) @@ B(Is(2)), A(Is(2)) @@ B(Is(Null)),
   A(Op("$eq", 1)), A(Op("$ne", 1)) @@ B(Op("$eq", 2)), A(Op("$gt", 1)), A(Op("$lte", 1)),
   A(OneOf("$in", {1, Null})), A(OneOf("$nin", {2})) @@ B(Is(1)), A(OneOf("test", {2})) @@ B(Op("$ne", 1)),
   "$or" :> <<A(Is(1)), B(Is(1))>>, A(Is(1)) @@ ("$or" :> <<B(Is(1)), B(Op("$gt", 1))>>),
   "$and" :> <<A(Is(1)), B(Is(2))>>, ("$not" :> A(Is(1))) @@ B(Is(2)),
   ById(Is(1)), ById(Is(2)) @@ A(Is(1)), ById(Is(1)) @@ A(Is(1)) @@ B(Is(1)),
   ById(OneOf("$in", {1, 2}))}

D(i, a, b, v) == [id |-> i, a |-> a, b |-> b, vec |-> v]

Read(filter) == [kind |-> "find", filter |-> filter]
SearchFor(filter, limit) == [kind |-> "search", filter |-> filter, limit |-> limit, minScore |-> 1]

\* An index on a field, another on both.
Indexed ==
  [soft |-> FALSE, indexed |-> {"a"}, compound |-> TRUE,
   docs |-> <<D(1, 1, 2, 1), D(2, 1, 1, 3), D(3, 1, 2, 2)>>,
   puts |-> {D(1, 2, 1, 2), D(2, 1, 1, 1), D(3, Undefined, 2, 3)},
   removes |-> {A(Is(1)), A(Is(2))},
   gets |-> {Read(A(Is(1))), Read(A(Is(1)) @@ B(Is(2))), SearchFor(Every, 2), SearchFor(A(Is(1)), 1)}]

\* No index.
Plain ==
  [Indexed EXCEPT !.indexed = {}, !.compound = FALSE,
                  !.puts = {D(1, 1, 2, Undefined), D(3, 2, Null, 1)},
                  !.removes = {B(Is(1))},
                  !.gets = {Read(B(Is(2))), Read(Every), SearchFor(Every, 2), SearchFor(B(Is(2)), 1)}]

\* Soft deletes, and an index on each field.
Soft ==
  [Indexed EXCEPT !.soft = TRUE, !.indexed = {"a", "b"}, !.compound = FALSE, !.removes = {},
                  !.puts = {D(1, Null, 1, 2), D(2, 2, Undefined, 3)}]

MCSetups == {Indexed, Plain, Soft}
=============================================================================
