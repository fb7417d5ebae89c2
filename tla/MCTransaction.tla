--------------------------- MODULE MCTransaction ----------------------------
(* Instances of Transaction for TLC. *)
EXTENDS Transaction, TLC

CONSTANTS t1, t2,            \* transactions
          a, b,              \* collections
          x1, x2, y, o1, o2  \* mutations: by t1, by t1, by t2, by neither

OwnerOf == x1 :> t1 @@ x2 :> t1 @@ y :> t2 @@ o1 :> NoTx @@ o2 :> NoTx

MCOwner == [w \in Write |-> OwnerOf[w]]

\* Everybody on a, and t1 on b too.
Contended == [w \in Write |-> IF w = x2 THEN b ELSE a]

\* The transactions on a, the others on b.
Disjoint == [w \in Write |-> IF OwnerOf[w] = NoTx THEN b ELSE a]

ReadAll == Tx \X Coll
ReadOwn == Tx \X {a}
ReadNone == {}

=============================================================================
