---------------------------- MODULE MCChangeLog -----------------------------
(* Collections, callers and watchers for ChangeLog. *)
EXTENDS ChangeLog, TLC

Symmetry == Permutations(Call)

Of(op, docs) == [op |-> op, docs |-> docs]

\* Documents that are inserted, replaced, removed and brought back by callers
\* that await one another, around a transaction that commits.
Whole ==
  [soft |-> FALSE, cap |-> 0, loaded |-> <<>>, serial |-> TRUE, fails |-> FALSE,
   tx |-> {"commit"}, expire |-> {}, buffer |-> 0, eager |-> FALSE, time |-> 2, calls |-> 4,
   requests |-> {Of("insert", <<1, 2>>), Of("update", <<1>>), Of("update", <<2, 1>>),
                 Of("delete", <<1>>), Of("insert", <<1>>),
                 Of("rewind", <<>>), Of("rewind", <<1>>)}]

\* Soft deletes, and documents brought back one by one.
Soft ==
  [Whole EXCEPT !.soft = TRUE, !.tx = {},
                !.requests = {Of("insert", <<1>>), Of("delete", <<1>>), Of("restore", <<1>>),
                              Of("update", <<1>>), Of("rewind", <<1>>)}]

\* The same with the collection as a whole, without restore().
SoftWhole ==
  [Soft EXCEPT !.requests = {Of("insert", <<1>>), Of("insert", <<2>>), Of("delete", <<1>>),
                             Of("rewind", <<>>)}]

\* Soft deletes while a transaction is active.
SoftTx ==
  [Whole EXCEPT !.soft = TRUE, !.time = 1,
                !.requests = {Of("insert", <<1>>), Of("insert", <<2>>), Of("delete", <<1, 2>>),
                              Of("restore", <<1>>), Of("update", <<1>>)}]

\* One document at a time in a collection of one; nothing says what restore()
\* of it does.
Capped ==
  [Whole EXCEPT !.cap = 1, !.time = 1, !.loaded = <<1>>,
                !.requests = {Of("insert", <<1>>), Of("insert", <<2>>), Of("update", <<2>>),
                              Of("rewind", <<>>)}]

\* Saves that fail, documents that expire, and transactions that are rolled back.
Rough ==
  [Whole EXCEPT !.serial = FALSE, !.fails = TRUE, !.expire = {2}, !.time = 1,
                !.calls = 2, !.loaded = <<1, 2>>,
                !.requests = {Of("update", <<1, 2>>), Of("delete", <<1>>)}]
RolledBack ==
  [Rough EXCEPT !.fails = FALSE, !.calls = 3, !.tx = {"abort"},
                !.requests = {Of("update", <<1>>)}]

\* An iterator and those who fill its buffer.
Iterated ==
  [Whole EXCEPT !.serial = FALSE, !.tx = {}, !.time = 1, !.calls = 3, !.buffer = 2,
                !.loaded = <<1, 2>>,
                !.requests = {Of("update", <<1, 2>>), Of("delete", <<1, 2>>)}]

MCSetups == {Whole, Soft, SoftWhole, SoftTx, Capped, Rough, RolledBack, Iterated}

\* Callers that do not await one another.
Overlap ==
  [Iterated EXCEPT !.buffer = 0,
                   !.requests = {Of("update", <<1, 2>>), Of("delete", <<1>>)}]

OverlapSetups == {Overlap}

\* A batch that is larger than the collection.
Overfull == [Capped EXCEPT !.tx = {}, !.loaded = <<>>, !.requests = {Of("insert", <<1, 2>>)}]

OverfullSetups == {Overfull}
=============================================================================
