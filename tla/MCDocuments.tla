---------------------------- MODULE MCDocuments -----------------------------
(* Collections and operations for Documents. *)
EXTENDS Documents, TLC

Symmetry == Permutations(Call)

ById(i) == [on |-> "id", val |-> i]
ByKey(k) == [on |-> "key", val |-> k]
All == [on |-> "all"]

Plain(i, k) == [id |-> i, key |-> k, odd |-> FALSE, ttl |-> FALSE]
Doc(i, k) == Plain(i, k) @@ [deleted |-> FALSE, from |-> {}, by |-> {}]

Insert(items) == [NoOp EXCEPT !.kind = "insert", !.items = items]
IfNotExists(filter, item) ==
  [NoOp EXCEPT !.kind = "ifNotExists", !.filter = filter, !.items = <<item>>]
Change(filter, many) == [NoOp EXCEPT !.kind = "update", !.filter = filter, !.many = many]
SetKey(filter, k) == [Change(filter, FALSE) EXCEPT !.set = k]
IncKeys == [Change(All, TRUE) EXCEPT !.inc = 1]
UpsertTo(item) ==
  [NoOp EXCEPT !.kind = "upsert", !.filter = ById(item.id), !.many = FALSE,
               !.items = <<item>>, !.set = item.key]
UpsertAll(on, items) ==
  [NoOp EXCEPT !.kind = "upsertMany", !.filter = [on |-> on, val |-> 1], !.items = items]
Delete(filter, many) == [NoOp EXCEPT !.filter = filter, !.many = many]
Restore(filter) == [NoOp EXCEPT !.kind = "restore", !.filter = filter, !.many = FALSE]

TwoDocs == <<Doc(1, 1), [Doc(2, 2) EXCEPT !.ttl = TRUE]>>

\* Documents are updated, replaced, evicted, swept and deleted at once.
Hard ==
  [soft |-> FALSE, cap |-> 2, compound |-> FALSE, docs |-> TwoDocs,
   ops |-> {Insert(<<Plain(3, 3)>>), Change(ById(1), FALSE), Change(All, TRUE),
            SetKey(ById(2), 3), UpsertTo(Plain(3, 2)),
            UpsertAll("id", <<Plain(1, 3), Plain(3, 1)>>),
            UpsertAll("key", <<Plain(3, 3), Plain(1, 1)>>),
            IfNotExists(ByKey(3), Plain(3, 3)),
            Insert(<<Plain(1, 3)>>), SetKey(ByKey(2), 1), Delete(ByKey(3), TRUE),
            Delete(ById(2), FALSE), Delete(All, TRUE)}]

\* Batches, with new ids; there is no cap.
Batches ==
  [soft |-> FALSE, cap |-> 0, compound |-> TRUE, docs |-> TwoDocs,
   ops |-> {Insert(<<Plain(3, 3), Plain(4, 2)>>), Insert(<<Plain(4, 3), Plain(4, 4)>>),
            Insert(<<Plain(5, 3)>>),
            SetKey(ByKey(1), 3), SetKey(ByKey(3), 2), Change(All, TRUE),
            Delete(ByKey(3), FALSE)}]

\* Soft deletes.
Soft ==
  [soft |-> TRUE, cap |-> 0, compound |-> FALSE, docs |-> TwoDocs,
   ops |-> {Change(ById(2), FALSE), SetKey(All, 3), Delete(ById(2), FALSE), Delete(All, TRUE),
            Restore(ById(2)), Restore(All), Insert(<<Plain(2, 2)>>)}]

\* Adding one to the unique field of documents that have 1 and 2.
Shift == [Hard EXCEPT !.ops = {IncKeys, Insert(<<Plain(3, 3)>>), Delete(ById(2), FALSE)}]

MCSetups == {Hard, Batches, Soft}
ShiftSetups == {Shift}
SoftSetups == {Soft}
=============================================================================
