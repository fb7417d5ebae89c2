---------------------------- MODULE MCFlushStore ----------------------------
(* FlushStore with what the adapters of the repository promise, and beside  *)
(* it the adapters themselves: a behaviour is of one or of the other.       *)
EXTENDS FlushStore, Storage, TLC

CONSTANTS a, b, r1, r2, r3, f1, f2

\* Files that are renamed one by one, an SQL database, and files again with
\* one collection in transactions and the other saved by itself.
Fs == [chunk |-> 1, answersLost |-> TRUE, inTx |-> Name, saved |-> {}, atOnce |-> 1]
Sql == [chunk |-> 3, answersLost |-> FALSE, inTx |-> Name, saved |-> {}, atOnce |-> 2]
Beside(n, m) == [Fs EXCEPT !.inTx = {n, Meta}, !.saved = {m}]

MCSetups == {Fs, Sql, Beside(a, b), Beside(b, a)}

Symmetry == Permutations({a, b})

-----------------------------------------------------------------------------

Does(kind, names) == [kind |-> kind, files |-> names]
Batch == Does("writeAll", <<f1, f2>>)
Writing == Does("write", <<f1>>)
Deleting == Does("delete", <<f1>>)
Reading == Does("read", <<f1>>)
Listing == Does("list", <<>>)
Cleaning == Does("cleanOrphans", <<>>)

Asks(x, y, z) == r1 :> x @@ r2 :> y @@ r3 :> z
Files(asks) == [staged |-> TRUE, chunk |-> 1, sealed |-> FALSE, crashes |-> TRUE, ops |-> asks]
Rows(chunk, asks) == [Files(asks) EXCEPT !.staged = FALSE, !.chunk = chunk]

\* A directory, an SQL database, D1 or LocalStorage, and a directory and a
\* database whose texts are encrypted.
InUse ==
  {Files(Asks(Batch, x, Cleaning)) : x \in {Writing, Deleting}}
  \union {Files(Asks(Batch, Writing, x)) : x \in {Listing, Reading}}
  \union {Rows(2, Asks(Batch, Deleting, Reading)), Rows(1, Asks(Batch, Writing, Listing))}
  \union {[x EXCEPT !.sealed = TRUE] :
           x \in {Files(Asks(Batch, Reading, Cleaning)), Rows(1, Asks(Batch, Reading, Cleaning))}}
NotUsed == [Rows(1, <<>>) EXCEPT !.crashes = FALSE]

MCAdapters == InUse \union {NotUsed}

MCInit ==
  /\ Init
  /\ StorageInit
  /\ IF adapter = NotUsed THEN files = [f \in File |-> Missing] ELSE setup = Sql

MCNext == \/ adapter = NotUsed /\ Next /\ UNCHANGED storageVars
          \/ adapter # NotUsed /\ StorageNext /\ UNCHANGED vars

MCSpec == MCInit /\ [][MCNext]_<<vars, storageVars>>

=============================================================================
