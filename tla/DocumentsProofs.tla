-------------------------- MODULE DocumentsProofs ---------------------------
(***************************************************************************)
(* The documents of a collection are distinct, its indexes agree with them *)
(* and no write is lost, for any collection and any calls.                 *)
(*                                                                         *)
(* What loops compute comes first: each is a function on 0 .. n of which a *)
(* least counterexample is refuted.  Then what each operator on a store    *)
(* does to the documents and the indexes (Sound), the types of the whole   *)
(* state, and what calls leave behind: a step of c, whatever its action,   *)
(* is one of Acts(c), and Acts(c) keeps the facts about all other calls.   *)
(***************************************************************************)
EXTENDS Documents, SequenceTheorems, FiniteSetTheorems, NaturalsInduction,
        WellFoundedInduction, TLAPS

-----------------------------------------------------------------------------
(* Loops. *)

\* A set that has 0, and n + 1 with n, has every natural number.
LEMMA NatInductionSet ==
  ASSUME NEW S, 0 \in S, \A n \in Nat : n \in S => n + 1 \in S
  PROVE  Nat \subseteq S
<1> SUFFICES ASSUME Nat \ S # {} PROVE FALSE
  OBVIOUS
<1>1. PICK x \in Nat \ S : \A y \in Nat \ S : ~ (<<y, x>> \in OpToRel(<, Nat))
  BY NatLessThanWellFounded, WFMin
<1>2. x \in Nat /\ x \notin S
  BY <1>1
<1>3. x # 0
  BY <1>2
<1>4. x - 1 \in Nat /\ x - 1 < x
  BY <1>2, <1>3
<1>5. x - 1 \in S
  BY <1>1, <1>4 DEF OpToRel
<1>6. (x - 1) + 1 = x
  BY <1>2
<1>7. QED
  BY <1>2, <1>4, <1>5, <1>6

IsRun(f, X, base, n, step) ==
  /\ f \in [0..n -> X]
  /\ f[0] = base
  /\ \A i \in 1..n : f[i] = step[<<f[i-1], i>>]

\* A function that is defined step by step from X stays in X.
LEMMA Iteration ==
  ASSUME NEW X, NEW base \in X, NEW n \in Nat, NEW step \in [X \X (1..n) -> X]
  PROVE  \E f : IsRun(f, X, base, n, step)
<1> DEFINE Ok(k) == \E f \in [0..k -> X] :
                      f[0] = base /\ \A i \in 1..k : f[i] = step[<<f[i-1], i>>]
           S == {k \in Nat : k <= n => Ok(k)}
<1>1. 0 \in S
  <2> DEFINE g == [i \in 0..0 |-> base]
  <2>1. g \in [0..0 -> X] /\ g[0] = base
    OBVIOUS
  <2>2. 1..0 = {}
    OBVIOUS
  <2> HIDE DEF g
  <2>3. Ok(0)
    BY <2>1, <2>2
  <2>4. QED
    BY <2>3
<1>2. ASSUME NEW k \in Nat, k \in S PROVE k + 1 \in S
  <2> SUFFICES ASSUME k + 1 <= n PROVE Ok(k + 1)
    OBVIOUS
  <2>1. PICK f \in [0..k -> X] :
                f[0] = base /\ \A i \in 1..k : f[i] = step[<<f[i-1], i>>]
    BY <1>2
  <2> DEFINE g == [i \in 0..k+1 |-> IF i = k + 1 THEN step[<<f[k], k+1>>] ELSE f[i]]
  <2>2. step[<<f[k], k+1>>] \in X
    <3>1. k + 1 \in 1..n /\ f[k] \in X
      OBVIOUS
    <3>2. QED
      BY <3>1
  <2>3. g \in [0..k+1 -> X]
    BY <2>2
  <2>4. /\ g[k + 1] = step[<<f[k], k+1>>]
        /\ \A i \in 0..k : g[i] = f[i]
    OBVIOUS
  <2> HIDE DEF g
  <2>5. ASSUME NEW i \in 1..k+1 PROVE g[i] = step[<<g[i-1], i>>]
    <3>1. i - 1 \in 0..k /\ g[i - 1] = f[i - 1]
      BY <2>4
    <3>2. CASE i = k + 1
      BY <2>4, <3>1, <3>2
    <3>3. CASE i # k + 1
      <4>1. i \in 1..k /\ i \in 0..k
        BY <3>3
      <4>2. QED
        BY <2>1, <2>4, <3>1, <4>1
    <3>4. QED
      BY <3>2, <3>3
  <2>6. g[0] = base
    BY <2>1, <2>4
  <2>7. QED
    BY <2>3, <2>5, <2>6
<1> HIDE DEF S
<1>3. n \in S
  BY <1>1, <1>2, NatInductionSet
<1>4. Ok(n)
  BY <1>3 DEF S
<1>5. QED
  BY <1>4 DEF IsRun

\* Two functions begin alike, and go on alike for n steps.
AgreeStepwise(n, f, g) ==
  f[0] = g[0] /\ \A i \in 1..n : f[i-1] = g[i-1] => f[i] = g[i]

\* Two functions that begin alike and go on alike are equal.
LEMMA SameSteps ==
  ASSUME NEW n \in Nat, NEW f, NEW g, AgreeStepwise(n, f, g)
  PROVE  \A i \in 0..n : f[i] = g[i]
<1> USE DEF AgreeStepwise
<1> DEFINE S == {k \in Nat : k <= n => f[k] = g[k]}
<1>1. 0 \in S
  OBVIOUS
<1>2. ASSUME NEW k \in Nat, k \in S PROVE k + 1 \in S
  <2>1. CASE k + 1 <= n
    <3>1. k + 1 \in 1..n /\ (k + 1) - 1 = k /\ f[k] = g[k]
      BY <1>2, <2>1
    <3>2. f[(k + 1) - 1] = g[(k + 1) - 1]
      BY <3>1
    <3>3. f[k+1] = g[k+1]
      BY <3>1, <3>2
    <3>4. QED
      BY <3>3
  <2>2. CASE ~ (k + 1 <= n)
    BY <2>2
  <2>3. QED
    BY <2>1, <2>2
<1> HIDE DEF S
<1>3. Nat \subseteq S
  BY <1>1, <1>2, NatInductionSet
<1>4. QED
  BY <1>3 DEF S

\* f[i] is what the loop of Only() has after i elements.
IsFilter(f, T, s, keep) ==
  /\ f \in [0..Len(s) -> Seq(T)]
  /\ f[0] = <<>>
  /\ Only(s, keep) = f[Len(s)]
  /\ \A i \in 1..Len(s) : f[i] = IF s[i] \in keep THEN Append(f[i-1], s[i]) ELSE f[i-1]

\* The loop of Only() keeps, in order, what is in keep, for every length.
LEMMA OnlyLoop ==
  ASSUME NEW T, NEW s \in Seq(T), NEW keep
  PROVE  \E f : IsFilter(f, T, s, keep)
<1> DEFINE n == Len(s)
           X == Seq(T)
           step == [p \in X \X (1..n) |-> IF s[p[2]] \in keep THEN Append(p[1], s[p[2]]) ELSE p[1]]
           Is(f) == f = [i \in 0..n |-> IF i = 0 THEN <<>> ELSE
                        IF s[i] \in keep THEN Append(f[i - 1], s[i]) ELSE f[i - 1]]
           kept == CHOOSE f : Is(f)
<1>1. step \in [X \X (1..n) -> X]
  <2>1. \A p \in X \X (1..n) : s[p[2]] \in T /\ p[1] \in X
    OBVIOUS
  <2>2. QED
    BY <2>1
<1>2. <<>> \in X
  OBVIOUS
<1>3. n \in Nat
  OBVIOUS
<1>4. \E f : IsRun(f, X, <<>>, n, step)
  <2> HIDE DEF step, X, n
  <2>1. QED
    BY <1>1, <1>2, <1>3, Iteration
<1>5. PICK f \in [0..n -> X] : f[0] = <<>> /\ \A i \in 1..n : f[i] = step[<<f[i-1], i>>]
  <2> HIDE DEF step, X, n
  <2>1. QED
    BY <1>4 DEF IsRun
<1>6. ASSUME NEW i \in 1..n
      PROVE  f[i] = IF s[i] \in keep THEN Append(f[i-1], s[i]) ELSE f[i-1]
  <2>1. <<f[i-1], i>> \in X \X (1..n)
    <3> HIDE DEF X, n
    <3>1. i - 1 \in 0..n
      BY <1>3
    <3>2. QED
      BY <3>1
  <2>2. QED
    BY <1>5, <2>1
<1>7. Is(f)
  <2> HIDE DEF step, X, n
  <2>1. \A i \in 0..n : i # 0 => i \in 1..n
    BY <1>3
  <2>2. QED
    BY <1>5, <1>6, <2>1
<1>8. Is(kept)
  <2> HIDE DEF Is
  <2>1. QED
    BY <1>7
<1>9. Only(s, keep) = kept[n]
  BY DEF Only
<1> HIDE DEF step, X, kept
<1>10. kept[0] = f[0] /\ \A i \in 1..n : kept[i] = IF s[i] \in keep THEN Append(kept[i-1], s[i]) ELSE kept[i-1]
  <2> HIDE DEF n
  <2>1. \A i \in 0..n : kept[i] = IF i = 0 THEN <<>> ELSE
                        IF s[i] \in keep THEN Append(kept[i - 1], s[i]) ELSE kept[i - 1]
    BY <1>8
  <2>2. \A i \in 1..n : i \in 0..n /\ i # 0
    BY <1>3
  <2>3. 0 \in 0..n
    BY <1>3
  <2>4. QED
    BY <1>5, <2>1, <2>2, <2>3
<1>11. \A i \in 0..n : kept[i] = f[i]
  <2> HIDE DEF n
  <2>1. \A i \in 1..n : kept[i-1] = f[i-1] => kept[i] = f[i]
    BY <1>6, <1>10
  <2>2. kept[0] = f[0]
    BY <1>10
  <2>3. AgreeStepwise(n, kept, f)
    BY <2>1, <2>2 DEF AgreeStepwise
  <2>4. QED
    BY <1>3, <2>3, SameSteps
<1>12. kept[n] = f[n]
  BY <1>3, <1>11
<1>13. QED
  BY <1>5, <1>6, <1>9, <1>12 DEF X, IsFilter

\* Only() keeps the elements of keep, each as often as it was there.
LEMMA OnlyIs ==
  ASSUME NEW T, NEW s \in Seq(T), NEW keep
  PROVE  /\ Only(s, keep) \in Seq(T)
         /\ ToSet(Only(s, keep)) = ToSet(s) \intersect keep
         /\ IsInjective(s) => IsInjective(Only(s, keep))
         /\ Len(Only(s, keep)) <= Len(s)
<1>0. PICK f : IsFilter(f, T, s, keep)
  BY OnlyLoop
<1>1. /\ f \in [0..Len(s) -> Seq(T)]
      /\ f[0] = <<>> /\ Only(s, keep) = f[Len(s)]
      /\ \A i \in 1..Len(s) : f[i] = IF s[i] \in keep THEN Append(f[i-1], s[i]) ELSE f[i-1]
  BY <1>0 DEF IsFilter
<1>2. Len(s) \in Nat /\ Len(s) \in 0..Len(s)
  OBVIOUS
<1> DEFINE First(k) == {s[j] : j \in 1..k}
           Ok(k) == /\ ToSet(f[k]) = First(k) \intersect keep
                    /\ IsInjective(s) => IsInjective(f[k])
                    /\ Len(f[k]) <= k
           S == {k \in Nat : k <= Len(s) => Ok(k)}
<1>3. 0 \in S
  <2>1. First(0) = {}
    OBVIOUS
  <2>2. ToSet(<<>>) = {} /\ IsInjective(<<>>)
    BY DEF ToSet, IsInjective
  <2>3. QED
    BY <1>1, <2>1, <2>2
<1>4. ASSUME NEW k \in Nat, k \in S PROVE k + 1 \in S
  <2> SUFFICES ASSUME k + 1 <= Len(s) PROVE Ok(k + 1)
    OBVIOUS
  <2>1. Ok(k) /\ k + 1 \in 1..Len(s) /\ (k + 1) - 1 = k /\ k \in 0..Len(s)
    BY <1>2, <1>4
  <2>2. f[k + 1] = IF s[k + 1] \in keep THEN Append(f[k], s[k + 1]) ELSE f[k]
    BY <1>1, <2>1
  <2>3. First(k + 1) = First(k) \union {s[k + 1]}
    <3>1. \A j \in 1..k + 1 : j \in 1..k \/ j = k + 1
      OBVIOUS
    <3>2. \A j \in 1..k : j \in 1..k + 1
      OBVIOUS
    <3>3. QED
      BY <3>1, <3>2, <2>1
  <2>4. f[k] \in Seq(T) /\ s[k + 1] \in T
    BY <1>1, <2>1
  <2>5. CASE s[k + 1] \notin keep
    BY <2>1, <2>2, <2>3, <2>5
  <2>6. CASE s[k + 1] \in keep
    <3> DEFINE g == f[k] x == s[k + 1] g2 == Append(g, x)
    <3>1. ToSet(g2) = ToSet(g) \union {x}
      <4> HIDE DEF g, x
      <4>1. g \in Seq(T) /\ x \in T
        BY <2>4 DEF g, x
      <4>2. DOMAIN g2 = DOMAIN g \union {Len(g) + 1} /\ g2[Len(g) + 1] = x
        BY <4>1
      <4>3. \A i \in DOMAIN g : g2[i] = g[i]
        BY <4>1
      <4>4. QED
        BY <4>2, <4>3 DEF ToSet
    <3>2. ToSet(f[k + 1]) = First(k + 1) \intersect keep
      BY <2>1, <2>2, <2>3, <2>6, <3>1
    <3>3. ASSUME IsInjective(s) PROVE IsInjective(g2)
      <4>1. x \notin ToSet(g)
        <5>1. \A j \in 1..k : s[j] # s[k + 1]
          <6>1. \A j \in 1..k : j \in DOMAIN s /\ j # k + 1
            BY <2>1
          <6>2. k + 1 \in DOMAIN s
            BY <2>1
          <6>3. QED
            BY <3>3, <6>1, <6>2 DEF IsInjective
        <5>2. QED
          BY <2>1, <5>1
      <4>2. IsInjective(g)
        BY <2>1, <3>3
      <4> HIDE DEF g, x
      <4>3. g \in Seq(T) /\ x \in T
        BY <2>4 DEF g, x
      <4>4. DOMAIN g2 = DOMAIN g \union {Len(g) + 1} /\ g2[Len(g) + 1] = x /\ Len(g) + 1 \notin DOMAIN g
        BY <4>3
      <4>5. \A i \in DOMAIN g : g2[i] = g[i] /\ g[i] \in ToSet(g)
        BY <4>3 DEF ToSet
      <4> HIDE DEF g2
      <4>6. QED
        BY <4>1, <4>2, <4>4, <4>5 DEF IsInjective
    <3>4. Len(g2) <= k + 1
      <4> HIDE DEF g, x
      <4>1. g \in Seq(T) /\ x \in T /\ Len(g) <= k
        BY <2>1, <2>4 DEF g, x
      <4>2. Len(g2) = Len(g) + 1 /\ Len(g) \in Nat
        BY <4>1
      <4>3. QED
        BY <4>1, <4>2
    <3>5. QED
      BY <2>2, <2>6, <3>2, <3>3, <3>4
  <2>7. QED
    BY <2>5, <2>6
<1> HIDE DEF S, Ok, First
<1>5. Nat \subseteq S
  BY <1>3, <1>4, NatInductionSet
<1>6. Ok(Len(s))
  BY <1>2, <1>5 DEF S
<1>7. First(Len(s)) = ToSet(s)
  BY DEF First, ToSet
<1>8. f[Len(s)] \in Seq(T)
  BY <1>1, <1>2
<1>9. QED
  BY <1>1, <1>6, <1>7, <1>8 DEF Ok

\* What a loop of assignments leaves is one of those it made, or what was there.
LEMMA LastIs ==
  ASSUME NEW T, NEW s \in Seq(T), NEW with, NEW before
  PROVE  IF ToSet(s) \intersect with = {}
         THEN LastOf(s, with, before) = before
         ELSE LastOf(s, with, before) \in ToSet(s) \intersect with
<1> DEFINE all == Only(s, with)
<1>1. all \in Seq(T) /\ ToSet(all) = ToSet(s) \intersect with
  BY OnlyIs
<1>2. LastOf(s, with, before) = IF all = <<>> THEN before ELSE all[Len(all)]
  BY DEF LastOf
<1> HIDE DEF all
<1>3. CASE all = <<>>
  BY <1>1, <1>2, <1>3 DEF ToSet
<1>4. CASE all # <<>>
  <2>1. Len(all) \in DOMAIN all
    BY <1>1, <1>4
  <2>2. all[Len(all)] \in ToSet(all)
    BY <2>1 DEF ToSet
  <2>3. QED
    BY <1>1, <1>2, <1>4, <2>2
<1>5. QED
  BY <1>3, <1>4

\* What two sequences have, one after the other.
LEMMA RangeConcat ==
  ASSUME NEW T, NEW s \in Seq(T), NEW t \in Seq(T)
  PROVE  /\ ToSet(s \o t) = ToSet(s) \union ToSet(t)
         /\ IsInjective(s) /\ IsInjective(t) /\ ToSet(s) \intersect ToSet(t) = {}
              => IsInjective(s \o t)
<1>1. Len(s) \in Nat /\ Len(t) \in Nat /\ DOMAIN s = 1 .. Len(s) /\ DOMAIN t = 1 .. Len(t)
  OBVIOUS
<1>2. DOMAIN (s \o t) = 1 .. Len(s) + Len(t)
  OBVIOUS
<1>3. \A i \in DOMAIN s : i \in DOMAIN (s \o t) /\ (s \o t)[i] = s[i]
  OBVIOUS
<1>4. \A i \in DOMAIN t : Len(s) + i \in DOMAIN (s \o t) /\ (s \o t)[Len(s) + i] = t[i]
  OBVIOUS
<1>5. \A i \in DOMAIN (s \o t) : i \in DOMAIN s \/ \E j \in DOMAIN t : i = Len(s) + j
  <2>1. ASSUME NEW i \in 1 .. Len(s) + Len(t), i \notin 1 .. Len(s)
        PROVE  \E j \in 1 .. Len(t) : i = Len(s) + j
    <3>1. i - Len(s) \in 1 .. Len(t) /\ i = Len(s) + (i - Len(s))
      BY <1>1, <2>1
    <3>2. QED
      BY <3>1
  <2>2. QED
    BY <1>1, <1>2, <2>1
<1> DEFINE u == s \o t
<1>6. ToSet(u) = ToSet(s) \union ToSet(t)
  <2>1. \A x \in ToSet(u) : x \in ToSet(s) \union ToSet(t)
    <3> HIDE DEF u
    <3> SUFFICES ASSUME NEW i \in DOMAIN u PROVE u[i] \in ToSet(s) \union ToSet(t)
      BY DEF ToSet
    <3>1. CASE i \in DOMAIN s
      BY <1>3, <3>1 DEF ToSet, u
    <3>2. ASSUME NEW j \in DOMAIN t, i = Len(s) + j PROVE u[i] \in ToSet(t)
      BY <1>4, <3>2 DEF ToSet, u
    <3>3. QED
      BY <1>5, <3>1, <3>2 DEF u
  <2>2. \A x \in ToSet(s) : x \in ToSet(u)
    BY <1>3 DEF ToSet
  <2>3. \A x \in ToSet(t) : x \in ToSet(u)
    BY <1>4 DEF ToSet
  <2>4. QED
    BY <2>1, <2>2, <2>3
<1> HIDE DEF u
<1>7. ASSUME IsInjective(s), IsInjective(t), ToSet(s) \intersect ToSet(t) = {}
      PROVE  IsInjective(u)
  <2> SUFFICES ASSUME NEW i \in DOMAIN u, NEW j \in DOMAIN u, u[i] = u[j] PROVE i = j
    BY DEF IsInjective
  <2>1. CASE i \in DOMAIN s /\ j \in DOMAIN s
    BY <1>3, <1>7, <2>1 DEF IsInjective, u
  <2>2. ASSUME NEW a \in DOMAIN s, NEW b \in DOMAIN t, u[a] = u[Len(s) + b] PROVE FALSE
    <3>1. s[a] = t[b] /\ s[a] \in ToSet(s) /\ t[b] \in ToSet(t)
      BY <1>3, <1>4, <2>2 DEF ToSet, u
    <3>2. QED
      BY <1>7, <3>1
  <2>3. ASSUME NEW a \in DOMAIN t, NEW b \in DOMAIN t, u[Len(s) + a] = u[Len(s) + b] PROVE a = b
    BY <1>4, <1>7, <2>3 DEF IsInjective, u
  <2>4. QED
    BY <1>5, <2>1, <2>2, <2>3 DEF u
<1>8. QED
  BY <1>6, <1>7 DEF u

\* A sequence without its last element.
LEMMA Prefix ==
  ASSUME NEW T, NEW s \in Seq(T), NEW n \in Int, n <= Len(s)
  PROVE  /\ SubSeq(s, 1, n) \in Seq(T)
         /\ Len(SubSeq(s, 1, n)) = IF 1 <= n THEN n ELSE 0
         /\ ToSet(SubSeq(s, 1, n)) \subseteq ToSet(s)
<1>1. \A i \in 1 .. n : i \in DOMAIN s /\ s[i] \in T
  OBVIOUS
<1> DEFINE p == SubSeq(s, 1, n)
<1>2. p \in Seq(T) /\ Len(p) = IF 1 <= n THEN n ELSE 0
  BY <1>1, SubSeqProperties
<1>3. ASSUME NEW i \in DOMAIN p PROVE p[i] \in ToSet(s)
  <2> HIDE DEF p
  <2>1. i \in 1 .. n
    BY <1>2
  <2>2. p[i] = s[i]
    BY <1>1, <2>1, SubSeqProperties DEF p
  <2>3. QED
    BY <1>1, <2>1, <2>2 DEF ToSet
<1> HIDE DEF p
<1>4. ToSet(p) \subseteq ToSet(s)
  BY <1>3 DEF ToSet
<1>5. QED
  BY <1>2, <1>4 DEF p

-----------------------------------------------------------------------------
(* The types of what the operators on stores return.  h is the heap. *)

\* The addresses of a heap; Nothing is none.
LEMMA HeapDomain ==
  ASSUME NEW T, NEW h \in Seq(T)
  PROVE  /\ DOMAIN h = 1 .. Len(h) /\ Len(h) \in Nat
         /\ Nothing \notin DOMAIN h
         /\ \A a \in DOMAIN h : h[a] \in T
BY DEF Nothing

LEMMA HeapFields ==
  ASSUME NEW h \in Seq(Object)
  PROVE  \A a \in DOMAIN h : /\ h[a].id \in Id
                             /\ h[a].key \in Key \union {Nothing}
                             /\ h[a].odd \in BOOLEAN
                             /\ h[a].from \subseteq Call
                             /\ h[a].by \subseteq Call
<1> SUFFICES ASSUME NEW a \in DOMAIN h
             PROVE  /\ h[a].id \in Id
                    /\ h[a].key \in Key \union {Nothing}
                    /\ h[a].odd \in BOOLEAN
                    /\ h[a].from \subseteq Call
                    /\ h[a].by \subseteq Call
  OBVIOUS
<1>1. h[a] \in Object
  BY HeapDomain
<1>2. QED
  BY <1>1 DEF Object

\* Nothing is no value of the unique field.
LEMMA KeyFacts == Nothing \notin Key
BY DocumentsAssumption DEF Key, Nothing

LEMMA SetInIndexType ==
  ASSUME NEW h \in Seq(Object), NEW byId \in [Id -> DOMAIN h \union {Nothing}],
         NEW new \in Seq(DOMAIN h)
  PROVE  SetInIndex(h, byId, new) \in [Id -> DOMAIN h \union {Nothing}]
<1> DEFINE D == DOMAIN h
           with(i) == {a \in D : h[a].id = i}
<1>1. \A i \in Id : LastOf(new, with(i), byId[i]) \in D \union {Nothing}
  <2> SUFFICES ASSUME NEW i \in Id PROVE LastOf(new, with(i), byId[i]) \in D \union {Nothing}
    OBVIOUS
  <2> DEFINE W == with(i)
  <2>1. W \subseteq D
    OBVIOUS
  <2>2. byId[i] \in D \union {Nothing} /\ new \in Seq(D)
    OBVIOUS
  <2> HIDE DEF W, D
  <2>3. QED
    BY <2>1, <2>2, LastIs DEF W
<1>2. QED
  BY <1>1 DEF SetInIndex

LEMMA IndexDocsType ==
  ASSUME NEW h \in Seq(Object), NEW ix \in Index(h), NEW new \in Seq(DOMAIN h)
  PROVE  IndexDocs(h, ix, new) \in Index(h)
<1> DEFINE D == DOMAIN h
           res == IndexDocs(h, ix, new)
<1>1. /\ ix.field \in [Key -> Seq(D)]
      /\ ix.unique \in [Key -> D \union {Nothing}]
      /\ ix.compound \in SUBSET D
  BY DEF Index
<1>2. \A k : With(h, k) \subseteq D
  BY DEF With
<1>3. ASSUME NEW k \in Key
      PROVE  /\ ix.field[k] \o Only(new, With(h, k)) \in Seq(D)
             /\ LastOf(new, With(h, k), ix.unique[k]) \in D \union {Nothing}
  <2> HIDE DEF D
  <2>1. new \in Seq(D) /\ ix.field[k] \in Seq(D) /\ ix.unique[k] \in D \union {Nothing}
    BY <1>1 DEF D
  <2>2. Only(new, With(h, k)) \in Seq(D)
    BY <2>1, OnlyIs
  <2>3. LastOf(new, With(h, k), ix.unique[k]) \in D \union {Nothing}
    BY <2>1, <1>2, LastIs
  <2>4. QED
    BY <2>1, <2>2, <2>3
<1>4. ToSet(new) \subseteq D
  BY DEF ToSet
<1>5. /\ res.field \in [Key -> Seq(D)]
      /\ res.unique \in [Key -> D \union {Nothing}]
      /\ res.compound \in SUBSET D
  BY <1>1, <1>3, <1>4 DEF IndexDocs
<1>6. res = [field |-> res.field, unique |-> res.unique, compound |-> res.compound]
  BY DEF IndexDocs
<1> HIDE DEF res
<1>7. QED
  BY <1>5, <1>6 DEF Index, res

LEMMA RemoveDocsType ==
  ASSUME NEW h \in Seq(Object), NEW ix \in Index(h), NEW gone
  PROVE  RemoveDocs(h, ix, gone) \in Index(h)
<1> DEFINE D == DOMAIN h
           res == RemoveDocs(h, ix, gone)
           keep(k) == D \ (gone \intersect With(h, k))
<1>1. /\ ix.field \in [Key -> Seq(D)]
      /\ ix.unique \in [Key -> D \union {Nothing}]
      /\ ix.compound \in SUBSET D
  BY DEF Index
<1>2. ASSUME NEW k \in Key
      PROVE  Only(ix.field[k], keep(k)) \in Seq(D)
  <2> HIDE DEF D, keep
  <2>1. ix.field[k] \in Seq(D)
    BY <1>1
  <2>2. QED
    BY <2>1, OnlyIs
<1>3. /\ res.field \in [Key -> Seq(D)]
      /\ res.unique \in [Key -> D \union {Nothing}]
      /\ res.compound \in SUBSET D
  BY <1>1, <1>2 DEF RemoveDocs
<1>4. res = [field |-> res.field, unique |-> res.unique, compound |-> res.compound]
  BY DEF RemoveDocs
<1> HIDE DEF res
<1>5. QED
  BY <1>3, <1>4 DEF Index, res

LEMMA UpdateType ==
  ASSUME NEW h \in Seq(Object), NEW ix \in Index(h),
         NEW old \in DOMAIN h, NEW new \in DOMAIN h
  PROVE  Update(h, ix, old, new) \in Index(h)
<1>1. RemoveDocs(h, ix, {old}) \in Index(h)
  BY RemoveDocsType
<1>2. <<new, old>> \in Seq(DOMAIN h) /\ <<new>> \in Seq(DOMAIN h)
  OBVIOUS
<1>3. QED
  BY <1>1, <1>2, IndexDocsType DEF Update

\* A store that a step builds from another, part by part.
LEMMA StoreParts ==
  ASSUME NEW h, NEW st
  PROVE  st \in Store(h) <=>
           /\ st = [heap |-> st.heap, data |-> st.data, byId |-> st.byId, index |-> st.index]
           /\ st.heap = h
           /\ st.data \in Seq(DOMAIN h)
           /\ st.byId \in [Id -> DOMAIN h \union {Nothing}]
           /\ st.index \in Index(h)
BY DEF Store

\* What the operators return, part by part.
IsWithout(w, h, st, gone) ==
  /\ w \in Store(h)
  /\ w.heap = h
  /\ w.data = Only(st.data, DOMAIN h \ gone)
  /\ \A i \in Id : w.byId[i] = IF \E a \in gone : h[a].id = i THEN Nothing ELSE st.byId[i]
  /\ w.index = RemoveDocs(h, st.index, gone)

LEMMA WithoutType ==
  ASSUME NEW h \in Seq(Object), NEW st \in Store(h), NEW gone
  PROVE  IsWithout(Without(st, gone), h, st, gone)
<1> DEFINE res == Without(st, gone)
           data == Only(st.data, DOMAIN h \ gone)
           byId == [i \in Id |-> IF \E a \in gone : h[a].id = i THEN Nothing ELSE st.byId[i]]
           index == RemoveDocs(h, st.index, gone)
<1>1. /\ st = [heap |-> h, data |-> st.data, byId |-> st.byId, index |-> st.index]
      /\ st.heap = h /\ st.data \in Seq(DOMAIN h) /\ st.index \in Index(h)
      /\ st.byId \in [Id -> DOMAIN h \union {Nothing}]
  BY DEF Store
<1>2. res = [heap |-> h, data |-> data, byId |-> byId, index |-> index]
  <2>1. /\ data = Only(st.data, DOMAIN st.heap \ gone)
        /\ byId = [i \in Id |-> IF \E a \in gone : st.heap[a].id = i THEN Nothing ELSE st.byId[i]]
        /\ index = RemoveDocs(st.heap, st.index, gone)
    BY <1>1
  <2> HIDE DEF data, byId, index
  <2>2. res = [st EXCEPT !.data = data, !.byId = byId, !.index = index]
    BY <2>1, Zenon DEF Without
  <2> HIDE DEF res
  <2>3. QED
    BY <1>1, <2>2
<1>3. data \in Seq(DOMAIN h)
  <2>1. st.data \in Seq(DOMAIN h)
    BY <1>1
  <2>2. QED
    BY <2>1, OnlyIs
<1>4. index \in Index(h)
  BY <1>1, RemoveDocsType
<1>5. byId \in [Id -> DOMAIN h \union {Nothing}]
  BY <1>1
<1> HIDE DEF res, data, byId, index
<1>6. res \in Store(h) /\ res.heap = h /\ res.data = data /\ res.byId = byId /\ res.index = index
  BY <1>2, <1>3, <1>4, <1>5 DEF Store
<1>7. QED
  BY <1>6 DEF IsWithout, res, data, byId, index

IsPush(p, h, st, new) ==
  /\ p \in Store(h)
  /\ p.heap = h
  /\ p.data = st.data \o new
  /\ p.byId = SetInIndex(h, st.byId, new)
  /\ p.index = st.index

LEMMA PushType ==
  ASSUME NEW h \in Seq(Object), NEW st \in Store(h), NEW new \in Seq(DOMAIN h)
  PROVE  IsPush(Push(st, new), h, st, new)
<1> DEFINE res == Push(st, new)
           data == st.data \o new
           byId == SetInIndex(h, st.byId, new)
<1>1. /\ st = [heap |-> h, data |-> st.data, byId |-> st.byId, index |-> st.index]
      /\ st.heap = h /\ st.data \in Seq(DOMAIN h) /\ st.index \in Index(h)
      /\ st.byId \in [Id -> DOMAIN h \union {Nothing}]
  BY DEF Store
<1>2. res = [heap |-> h, data |-> data, byId |-> byId, index |-> st.index]
  <2>1. byId = SetInIndex(st.heap, st.byId, new)
    BY <1>1
  <2>2. data = st.data \o new
    OBVIOUS
  <2> HIDE DEF data, byId
  <2>3. res = [st EXCEPT !.data = data, !.byId = byId]
    BY <2>1, <2>2, Zenon DEF Push
  <2> HIDE DEF res
  <2>4. QED
    BY <1>1, <2>3
<1>3. data \in Seq(DOMAIN h)
  BY <1>1
<1>4. byId \in [Id -> DOMAIN h \union {Nothing}]
  BY <1>1, SetInIndexType
<1> HIDE DEF res, data, byId
<1>5. res \in Store(h) /\ res.heap = h /\ res.data = data /\ res.byId = byId /\ res.index = st.index
  BY <1>1, <1>2, <1>3, <1>4 DEF Store
<1>6. QED
  BY <1>5 DEF IsPush, res, data, byId

\* A store with another index, or another _id index.
IsIndexed(r, h, st, ix) ==
  /\ r \in Store(h)
  /\ r.heap = h
  /\ r.data = st.data
  /\ r.byId = st.byId
  /\ r.index = ix

LEMMA IndexType ==
  ASSUME NEW h, NEW st \in Store(h), NEW ix \in Index(h)
  PROVE  IsIndexed([st EXCEPT !.index = ix], h, st, ix)
BY DEF Store, IsIndexed

IsRebuilt(r, h, st, byId) ==
  /\ r \in Store(h)
  /\ r.heap = h
  /\ r.data = st.data
  /\ r.byId = byId
  /\ r.index = st.index

LEMMA RebuiltType ==
  ASSUME NEW h, NEW st \in Store(h), NEW byId \in [Id -> DOMAIN h \union {Nothing}]
  PROVE  IsRebuilt([st EXCEPT !.byId = byId], h, st, byId)
BY DEF Store, IsRebuilt

IsReplace(r, h, st, old, new) ==
  /\ r \in Store(h)
  /\ r.heap = h
  /\ r.data = [i \in DOMAIN st.data |-> IF st.data[i] = old THEN new ELSE st.data[i]]
  /\ r.byId = [st.byId EXCEPT ![h[new].id] = new]
  /\ r.index = Update(h, st.index, old, new)

LEMMA ReplaceType ==
  ASSUME NEW h \in Seq(Object), NEW st \in Store(h), NEW old \in DOMAIN h, NEW new \in DOMAIN h
  PROVE  IsReplace(Replace(st, old, new), h, st, old, new)
<1> DEFINE res == Replace(st, old, new)
           data == [i \in DOMAIN st.data |-> IF st.data[i] = old THEN new ELSE st.data[i]]
           byId == [st.byId EXCEPT ![h[new].id] = new]
           index == Update(h, st.index, old, new)
<1>1. /\ st = [heap |-> h, data |-> st.data, byId |-> st.byId, index |-> st.index]
      /\ st.heap = h /\ st.data \in Seq(DOMAIN h) /\ st.index \in Index(h)
      /\ st.byId \in [Id -> DOMAIN h \union {Nothing}]
  BY DEF Store
<1>2. res = [heap |-> h, data |-> data, byId |-> byId, index |-> index]
  <2>1. /\ byId = [st.byId EXCEPT ![st.heap[new].id] = new]
        /\ index = Update(st.heap, st.index, old, new)
    BY <1>1
  <2>2. data = [i \in DOMAIN st.data |-> IF st.data[i] = old THEN new ELSE st.data[i]]
    OBVIOUS
  <2> HIDE DEF data, byId, index
  <2>3. res = [st EXCEPT !.data = data, !.byId = byId, !.index = index]
    BY <2>1, <2>2, Zenon DEF Replace
  <2> HIDE DEF res
  <2>4. QED
    BY <1>1, <2>3
<1>3. data \in Seq(DOMAIN h)
  <2> DEFINE D == DOMAIN h  s == st.data
  <2> HIDE DEF D
  <2>1. s \in Seq(D) /\ new \in D
    BY <1>1 DEF D
  <2> HIDE DEF s
  <2>2. \A i \in DOMAIN s : s[i] \in D
    BY <2>1
  <2>3. DOMAIN s = 1 .. Len(s) /\ Len(s) \in Nat
    BY <2>1
  <2>4. [i \in 1 .. Len(s) |-> IF s[i] = old THEN new ELSE s[i]] \in Seq(D)
    BY <2>1, <2>2, <2>3
  <2>5. QED
    BY <2>3, <2>4 DEF s, D
<1>4. byId \in [Id -> DOMAIN h \union {Nothing}]
  BY <1>1
<1>5. index \in Index(h)
  BY <1>1, UpdateType
<1> HIDE DEF res, data, byId, index
<1>6. res \in Store(h) /\ res.heap = h /\ res.data = data /\ res.byId = byId /\ res.index = index
  BY <1>2, <1>3, <1>4, <1>5 DEF Store
<1>7. QED
  BY <1>6 DEF IsReplace, res, data, byId, index

\* Every object stays what it is, apart from what updates in place change.
HeapGrows(h, h2) ==
  /\ h2 \in Seq(Object)
  /\ DOMAIN h \subseteq DOMAIN h2
  /\ \A a \in DOMAIN h : /\ h2[a].id = h[a].id /\ h2[a].key = h[a].key
                         /\ h2[a].odd = h[a].odd /\ h2[a].from = h[a].from
                         /\ h[a].by \subseteq h2[a].by

\* The same store, with more objects or changed ones.
IsOver(m, h2, st) ==
  /\ m \in Store(h2)
  /\ m.heap = h2
  /\ m.data = st.data
  /\ m.byId = st.byId
  /\ m.index = st.index

LEMMA HeapType ==
  ASSUME NEW h \in Seq(Object), NEW st \in Store(h), NEW h2, DOMAIN h \subseteq DOMAIN h2
  PROVE  IsOver([st EXCEPT !.heap = h2], h2, st)
<1> DEFINE res == [st EXCEPT !.heap = h2]
<1>1. /\ st = [heap |-> h, data |-> st.data, byId |-> st.byId, index |-> st.index]
      /\ st.heap = h /\ st.data \in Seq(DOMAIN h) /\ st.index \in Index(h)
      /\ st.byId \in [Id -> DOMAIN h \union {Nothing}]
  BY DEF Store
<1>2. res = [heap |-> h2, data |-> st.data, byId |-> st.byId, index |-> st.index]
  BY <1>1
<1>3. Seq(DOMAIN h) \subseteq Seq(DOMAIN h2)
  <2> DEFINE D == DOMAIN h D2 == DOMAIN h2
  <2> HIDE DEF D, D2
  <2>1. D \subseteq D2
    BY DEF D, D2
  <2>2. \A s \in Seq(D) : s \in Seq(D2)
    BY <2>1
  <2>3. QED
    BY <2>2 DEF D, D2
<1>4. st.index \in Index(h2)
  <2>1. st.index = [field |-> st.index.field, unique |-> st.index.unique, compound |-> st.index.compound]
    BY <1>1 DEF Index
  <2>2. st.index.field \in [Key -> Seq(DOMAIN h2)]
    BY <1>1, <1>3 DEF Index
  <2>3. st.index.unique \in [Key -> DOMAIN h2 \union {Nothing}]
    BY <1>1 DEF Index
  <2>4. st.index.compound \in SUBSET DOMAIN h2
    BY <1>1 DEF Index
  <2>5. QED
    BY <2>1, <2>2, <2>3, <2>4 DEF Index
<1>5. st.byId \in [Id -> DOMAIN h2 \union {Nothing}]
  BY <1>1
<1>6. st.data \in Seq(DOMAIN h2)
  BY <1>1, <1>3
<1> HIDE DEF res
<1>7. res \in Store(h2) /\ res.heap = h2 /\ res.data = st.data /\ res.byId = st.byId /\ res.index = st.index
  BY <1>2, <1>4, <1>5, <1>6 DEF Store
<1>8. QED
  BY <1>7 DEF IsOver, res

\* The heap h2 is h with new objects.
Adds(h2, h, objects) ==
  /\ h2 \in Seq(Object)
  /\ DOMAIN h \subseteq DOMAIN h2
  /\ \A a \in DOMAIN h : h2[a] = h[a]
  /\ \A i \in DOMAIN objects : Len(h) + i \in DOMAIN h2 \ DOMAIN h /\ h2[Len(h) + i] = objects[i]
  /\ \A a \in DOMAIN h2 \ DOMAIN h : \E i \in DOMAIN objects : a = Len(h) + i

LEMMA AddsGrow ==
  ASSUME NEW h, NEW h2, NEW objects, Adds(h2, h, objects)
  PROVE  HeapGrows(h, h2)
BY DEF Adds, HeapGrows

\* One new object, at a.
LEMMA AddsOne ==
  ASSUME NEW h, NEW h2, NEW o, Adds(h2, h, <<o>>), NEW a, a = Len(h) + 1
  PROVE  DOMAIN h2 = DOMAIN h \union {a} /\ a \notin DOMAIN h /\ h2[a] = o
<1>1. DOMAIN <<o>> = {1} /\ <<o>>[1] = o
  OBVIOUS
<1>2. QED
  BY <1>1 DEF Adds

LEMMA AllocateType ==
  ASSUME NEW h \in Seq(Object), NEW st \in Store(h), NEW objects \in Seq(Object)
  PROVE  /\ IsOver(Allocate(st, objects), h \o objects, st)
         /\ Adds(h \o objects, h, objects)
<1> DEFINE h2 == h \o objects
<1>1. st.heap = h
  BY DEF Store
<1>2. Adds(h2, h, objects)
  <2> DEFINE T == Object
  <2> HIDE DEF T
  <2>1. h \in Seq(T) /\ objects \in Seq(T)
    BY DEF T
  <2>2. /\ h2 \in Seq(T) /\ DOMAIN h \subseteq DOMAIN h2
        /\ \A a \in DOMAIN h : h2[a] = h[a]
        /\ \A i \in DOMAIN objects : Len(h) + i \in DOMAIN h2 \ DOMAIN h /\ h2[Len(h) + i] = objects[i]
    BY <2>1
  <2>3. ASSUME NEW a \in DOMAIN h2 \ DOMAIN h PROVE \E i \in DOMAIN objects : a = Len(h) + i
    <3>1. /\ Len(h) \in Nat /\ Len(objects) \in Nat /\ DOMAIN h = 1 .. Len(h)
          /\ DOMAIN objects = 1 .. Len(objects) /\ DOMAIN h2 = 1 .. Len(h) + Len(objects)
      BY <2>1
    <3>2. a - Len(h) \in DOMAIN objects /\ a = Len(h) + (a - Len(h))
      BY <2>3, <3>1
    <3>3. QED
      BY <3>2
  <2>4. QED
    BY <2>2, <2>3 DEF T, Adds
<1>3. Allocate(st, objects) = [st EXCEPT !.heap = h2]
  BY <1>1 DEF Allocate
<1>4. IsOver([st EXCEPT !.heap = h2], h2, st)
  BY <1>2, HeapType DEF Adds
<1> HIDE DEF h2
<1>5. QED
  BY <1>2, <1>3, <1>4 DEF h2

-----------------------------------------------------------------------------
(* When a store is sound: the documents are distinct and the indexes say the *)
(* same as _data.  D is the documents, as a set.                             *)

\* With soft deletes, the _id index may have a document that was replaced.
IdsFit(soft, h, D, byId) ==
  /\ \A a, b \in D : h[a].id = h[b].id => a = b
  /\ \A a \in D : byId[h[a].id] # Nothing
  /\ ~soft => \A i \in Id : byId[i] # Nothing => byId[i] \in D /\ h[byId[i]].id = i

KeysFit(h, D, ix) ==
  /\ ix.compound = D
  /\ \A k \in Key :
       /\ ToSet(ix.field[k]) = {a \in D : h[a].key = k}
       /\ ix.unique[k] # Nothing => ix.unique[k] \in D /\ h[ix.unique[k]].key = k
       /\ \A a \in D : h[a].key = k => ix.unique[k] = a

Sound(soft, st) ==
  /\ IsInjective(st.data)
  /\ IdsFit(soft, st.heap, ToSet(st.data), st.byId)
  /\ KeysFit(st.heap, ToSet(st.data), st.index)

\* Objects that can be added to the documents D.
FreshIds(h, D, byId, N) ==
  /\ \A a \in N : byId[h[a].id] = Nothing
  /\ \A a, b \in N : h[a].id = h[b].id => a = b

FreshKeys(h, ix, N) ==
  \A a \in N :
    /\ ~Refused(h, a)
    /\ h[a].key # Nothing => /\ ix.unique[h[a].key] = Nothing
                             /\ \A b \in N : h[b].key = h[a].key => a = b

\* Documents are objects of the heap.
LEMMA DataInHeap ==
  ASSUME NEW h, NEW st \in Store(h)
  PROVE  ToSet(st.data) \subseteq DOMAIN h
BY DEF Store, ToSet

\* Removing documents of the indexes leaves the indexes of the rest.
LEMMA RemoveKeys ==
  ASSUME NEW h \in Seq(Object), NEW ix \in Index(h), NEW D, D \subseteq DOMAIN h,
         KeysFit(h, D, ix), NEW gone, gone \subseteq D
  PROVE  KeysFit(h, D \ gone, RemoveDocs(h, ix, gone))
<1> DEFINE res == RemoveDocs(h, ix, gone)
           H == DOMAIN h
           keep(k) == H \ (gone \intersect With(h, k))
<1>1. /\ \A k \in Key : ix.field[k] \in Seq(H)
      /\ \A k \in Key : res.field[k] = Only(ix.field[k], keep(k))
      /\ \A k \in Key : res.unique[k] = IF \E a \in gone : h[a].key = k THEN Nothing ELSE ix.unique[k]
      /\ res.compound = ix.compound \ gone
  BY DEF RemoveDocs, Index
<1> HIDE DEF res, H, keep
<1>2. ASSUME NEW k \in Key
      PROVE  ToSet(res.field[k]) = {a \in D \ gone : h[a].key = k}
  <2>1. ix.field[k] \in Seq(H)
    BY <1>1
  <2>2. ToSet(res.field[k]) = ToSet(ix.field[k]) \intersect keep(k)
    BY <1>1, <2>1, OnlyIs
  <2>3. ToSet(ix.field[k]) = {a \in D : h[a].key = k}
    BY DEF KeysFit
  <2>4. QED
    BY <2>2, <2>3 DEF keep, With, H
<1>3. ASSUME NEW k \in Key
      PROVE  /\ res.unique[k] # Nothing => res.unique[k] \in D \ gone /\ h[res.unique[k]].key = k
             /\ \A a \in D \ gone : h[a].key = k => res.unique[k] = a
  <2>1. /\ ix.unique[k] # Nothing => ix.unique[k] \in D /\ h[ix.unique[k]].key = k
        /\ \A a \in D : h[a].key = k => ix.unique[k] = a
    BY DEF KeysFit
  <2>2. QED
    BY <1>1, <2>1
<1>4. res.compound = D \ gone
  BY <1>1 DEF KeysFit
<1>5. QED
  BY <1>2, <1>3, <1>4 DEF KeysFit, res

\* Indexing fresh objects gives the indexes of all.
LEMMA AddKeys ==
  ASSUME NEW h \in Seq(Object), NEW ix \in Index(h), NEW D, D \subseteq DOMAIN h,
         KeysFit(h, D, ix), NEW new \in Seq(DOMAIN h), FreshKeys(h, ix, ToSet(new))
  PROVE  KeysFit(h, D \union ToSet(new), IndexDocs(h, ix, new))
<1> DEFINE res == IndexDocs(h, ix, new)
           H == DOMAIN h
           N == ToSet(new)
<1>1. /\ \A k \in Key : ix.field[k] \in Seq(H)
      /\ \A k \in Key : res.field[k] = ix.field[k] \o Only(new, With(h, k))
      /\ \A k \in Key : res.unique[k] = LastOf(new, With(h, k), ix.unique[k])
      /\ res.compound = ix.compound \union {a \in N : ~Refused(h, a)}
  BY DEF IndexDocs, Index
<1>2. N \subseteq H
  BY DEF ToSet
<1>3. new \in Seq(H)
  OBVIOUS
<1>4. Nothing \notin Key
  BY KeyFacts
<1> HIDE DEF res, H, N
<1>5. ASSUME NEW k \in Key
      PROVE  ToSet(res.field[k]) = {a \in D \union N : h[a].key = k}
  <2>1. ix.field[k] \in Seq(H)
    BY <1>1
  <2>2. Only(new, With(h, k)) \in Seq(H) /\ ToSet(Only(new, With(h, k))) = N \intersect With(h, k)
    BY <1>3, OnlyIs DEF N
  <2>3. ToSet(ix.field[k] \o Only(new, With(h, k))) = ToSet(ix.field[k]) \union (N \intersect With(h, k))
    <3> DEFINE s == ix.field[k]  t == Only(new, With(h, k))
    <3>1. s \in Seq(H) /\ t \in Seq(H) /\ ToSet(t) = N \intersect With(h, k)
      BY <2>1, <2>2
    <3> HIDE DEF s, t
    <3>2. ToSet(s \o t) = ToSet(s) \union ToSet(t)
      BY <3>1, RangeConcat
    <3>3. QED
      BY <3>1, <3>2 DEF s, t
  <2>4. ToSet(ix.field[k]) = {a \in D : h[a].key = k}
    BY DEF KeysFit
  <2>5. With(h, k) = {a \in H : h[a].key = k}
    BY DEF With, H
  <2>6. QED
    BY <1>1, <1>2, <2>3, <2>4, <2>5
<1>6. ASSUME NEW k \in Key
      PROVE  /\ res.unique[k] # Nothing => res.unique[k] \in D \union N /\ h[res.unique[k]].key = k
             /\ \A a \in D \union N : h[a].key = k => res.unique[k] = a
  <2>1. /\ ix.unique[k] # Nothing => ix.unique[k] \in D /\ h[ix.unique[k]].key = k
        /\ \A a \in D : h[a].key = k => ix.unique[k] = a
    BY DEF KeysFit
  <2>2. With(h, k) = {a \in H : h[a].key = k}
    BY DEF With, H
  <2>3. IF N \intersect With(h, k) = {} THEN res.unique[k] = ix.unique[k]
                                        ELSE res.unique[k] \in N \intersect With(h, k)
    BY <1>1, <1>3, LastIs DEF N
  <2>4. CASE N \intersect With(h, k) = {}
    BY <1>2, <2>1, <2>2, <2>3, <2>4
  <2>5. CASE N \intersect With(h, k) # {}
    <3>1. PICK b \in N : h[b].key = k
      BY <2>2, <2>5
    <3>2. ix.unique[k] = Nothing /\ \A a \in N : h[a].key = k => a = b
      BY <1>4, <3>1 DEF FreshKeys, N
    <3>3. \A a \in D : h[a].key # k
      <4>1. D \subseteq H
        BY DEF H
      <4>2. Nothing \notin D
        BY <4>1, HeapDomain DEF H
      <4>3. QED
        BY <2>1, <3>2, <4>2
    <3>4. QED
      BY <2>2, <2>3, <2>5, <3>1, <3>2, <3>3
  <2>6. QED
    BY <2>4, <2>5
<1>7. res.compound = D \union N
  BY <1>1 DEF KeysFit, FreshKeys, N
<1>8. QED
  BY <1>5, <1>6, <1>7 DEF KeysFit, res, N

\* No document is removed from the _id index with others.
LEMMA WithoutSound ==
  ASSUME NEW h \in Seq(Object), NEW st \in Store(h), NEW soft, Sound(soft, st),
         NEW gone, gone \subseteq ToSet(st.data)
  PROVE  /\ Sound(soft, Without(st, gone))
         /\ ToSet(Without(st, gone).data) = ToSet(st.data) \ gone
         /\ \A i \in Id : Without(st, gone).byId[i] \in {st.byId[i], Nothing}
<1> DEFINE w == Without(st, gone)
           D == ToSet(st.data)
<1>1. /\ w.heap = h
      /\ w.data = Only(st.data, DOMAIN h \ gone)
      /\ \A i \in Id : w.byId[i] = IF \E a \in gone : h[a].id = i THEN Nothing ELSE st.byId[i]
      /\ w.index = RemoveDocs(h, st.index, gone)
  <2>1. IsWithout(w, h, st, gone)
    BY WithoutType
  <2> HIDE DEF w
  <2>2. QED
    BY <2>1 DEF IsWithout
<1>2. D \subseteq DOMAIN h
  BY DataInHeap
<1>3. /\ st.heap = h /\ st.data \in Seq(DOMAIN h) /\ st.index \in Index(h)
      /\ st.byId \in [Id -> DOMAIN h \union {Nothing}]
  BY DEF Store
<1>4. ToSet(w.data) = D \intersect (DOMAIN h \ gone) /\ IsInjective(w.data)
  BY <1>1, <1>3, OnlyIs DEF Sound
<1>5. ToSet(w.data) = D \ gone
  BY <1>2, <1>4
<1>6. KeysFit(h, D, st.index) /\ IdsFit(soft, h, D, st.byId)
  BY <1>3 DEF Sound
<1> HIDE DEF w, D
<1>7. KeysFit(h, D \ gone, w.index)
  <2>1. gone \subseteq D
    BY DEF D
  <2>2. KeysFit(h, D \ gone, RemoveDocs(h, st.index, gone))
    BY <1>2, <1>3, <1>6, <2>1, RemoveKeys, SMTT(30)
  <2>3. QED
    BY <1>1, <2>2
<1>8. IdsFit(soft, h, D \ gone, w.byId)
  <2>1. \A a \in DOMAIN h : h[a].id \in Id
    BY HeapFields
  <2>2. /\ \A a, b \in D : h[a].id = h[b].id => a = b
        /\ \A a \in D : st.byId[h[a].id] # Nothing
        /\ ~soft => \A i \in Id : st.byId[i] # Nothing => st.byId[i] \in D /\ h[st.byId[i]].id = i
    BY <1>6 DEF IdsFit
  <2>3. \A i \in Id : w.byId[i] = IF \E a \in gone : h[a].id = i THEN Nothing ELSE st.byId[i]
    BY <1>1
  <2>4. gone \subseteq D
    BY DEF D
  <2>5. \A a \in D \ gone : w.byId[h[a].id] # Nothing
    BY <1>2, <2>1, <2>2, <2>3, <2>4
  <2>6. ASSUME ~soft, NEW i \in Id, w.byId[i] # Nothing
        PROVE  w.byId[i] \in D \ gone /\ h[w.byId[i]].id = i
    BY <2>2, <2>3, <2>6
  <2>7. QED
    BY <2>2, <2>5, <2>6 DEF IdsFit
<1>9. \A i \in Id : w.byId[i] \in {st.byId[i], Nothing}
  BY <1>1
<1>10. QED
  BY <1>1, <1>4, <1>5, <1>7, <1>8, <1>9 DEF Sound, w, D

\* Documents that are indexed and pushed.
LEMMA AddSound ==
  ASSUME NEW h \in Seq(Object), NEW st \in Store(h), NEW soft, Sound(soft, st),
         NEW new \in Seq(DOMAIN h), IsInjective(new),
         FreshIds(h, ToSet(st.data), st.byId, ToSet(new)),
         FreshKeys(h, st.index, ToSet(new)),
         NEW res, res \in Store(h), res.data = st.data \o new,
         res.byId = SetInIndex(h, st.byId, new), res.index = IndexDocs(h, st.index, new)
  PROVE  /\ Sound(soft, res)
         /\ ToSet(res.data) = ToSet(st.data) \union ToSet(new)
         /\ \A i \in Id : res.byId[i] \in {st.byId[i]} \union ToSet(new)
<1> DEFINE D == ToSet(st.data)
           N == ToSet(new)
           H == DOMAIN h
<1>1. /\ st.heap = h /\ st.data \in Seq(H) /\ st.index \in Index(h)
      /\ st.byId \in [Id -> H \union {Nothing}] /\ res.heap = h
  BY DEF Store
<1>2. KeysFit(h, D, st.index) /\ IdsFit(soft, h, D, st.byId) /\ IsInjective(st.data)
  BY <1>1 DEF Sound
<1>3. D \subseteq H /\ N \subseteq H /\ new \in Seq(H)
  BY DataInHeap DEF ToSet
<1>4. KeysFit(h, D \union N, res.index)
  <2> HIDE DEF D
  <2>1. st.index \in Index(h) /\ D \subseteq DOMAIN h
    BY <1>1, <1>3
  <2>2. KeysFit(h, D, st.index)
    BY <1>2
  <2>3. KeysFit(h, D \union ToSet(new), IndexDocs(h, st.index, new))
    BY <2>1, <2>2, AddKeys
  <2>4. QED
    BY <2>3
<1>5. \A a \in H : h[a].id \in Id
  BY HeapFields
<1>6. /\ \A a \in N : st.byId[h[a].id] = Nothing
      /\ \A a, b \in N : h[a].id = h[b].id => a = b
  BY DEF FreshIds
<1>7. /\ \A a, b \in D : h[a].id = h[b].id => a = b
      /\ \A a \in D : st.byId[h[a].id] # Nothing
      /\ ~soft => \A i \in Id : st.byId[i] # Nothing => st.byId[i] \in D /\ h[st.byId[i]].id = i
  BY <1>2 DEF IdsFit
<1>8. D \intersect N = {}
  BY <1>6, <1>7
<1> DEFINE with(i) == {a \in H : h[a].id = i}
<1>9. ASSUME NEW i \in Id
      PROVE  IF N \intersect with(i) = {} THEN res.byId[i] = st.byId[i]
                                          ELSE res.byId[i] \in N \intersect with(i)
  <2>1. res.byId[i] = LastOf(new, with(i), st.byId[i])
    BY DEF SetInIndex
  <2> HIDE DEF H, with
  <2>2. QED
    BY <1>3, <2>1, LastIs
<1>10. Nothing \notin H
  BY HeapDomain
<1> HIDE DEF D, N, H
<1>11. IdsFit(soft, h, D \union N, res.byId)
  <2>1. \A a, b \in D \union N : h[a].id = h[b].id => a = b
    BY <1>6, <1>7
  <2>2. ASSUME NEW a \in D \union N PROVE res.byId[h[a].id] # Nothing
    <3>1. h[a].id \in Id
      BY <1>3, <1>5
    <3>2. QED
      BY <1>3, <1>6, <1>7, <1>9, <1>10, <3>1
  <2>3. ASSUME ~soft, NEW i \in Id, res.byId[i] # Nothing
        PROVE  res.byId[i] \in D \union N /\ h[res.byId[i]].id = i
    BY <1>7, <1>9, <2>3
  <2>4. QED
    BY <2>1, <2>2, <2>3 DEF IdsFit
<1>12. ToSet(res.data) = D \union N /\ IsInjective(res.data)
  BY <1>1, <1>2, <1>3, <1>8, RangeConcat DEF D, N
<1>13. \A i \in Id : res.byId[i] \in {st.byId[i]} \union N
  BY <1>9
<1>14. QED
  BY <1>1, <1>4, <1>11, <1>12, <1>13 DEF Sound, D, N

\* Growing the heap, and with soft deletes pointing the _id index elsewhere.
LEMMA HeapSound ==
  ASSUME NEW h \in Seq(Object), NEW st \in Store(h), NEW soft, Sound(soft, st),
         NEW h2, HeapGrows(h, h2), NEW m \in Store(h2),
         m.data = st.data, m.index = st.index,
         \/ m.byId = st.byId
         \/ soft /\ \A i \in Id : st.byId[i] # Nothing => m.byId[i] # Nothing
  PROVE  Sound(soft, m)
<1> DEFINE D == ToSet(st.data)
<1>1. /\ st.heap = h /\ st.data \in Seq(DOMAIN h) /\ st.index \in Index(h)
      /\ st.byId \in [Id -> DOMAIN h \union {Nothing}] /\ m.heap = h2
  BY DEF Store
<1>2. D \subseteq DOMAIN h
  BY DataInHeap
<1>3. /\ KeysFit(h, D, st.index) /\ IdsFit(soft, h, D, st.byId) /\ IsInjective(st.data)
  BY <1>1 DEF Sound
<1> HIDE DEF D
<1>4. \A a \in D : h2[a].id = h[a].id /\ h2[a].key = h[a].key
  BY <1>2 DEF HeapGrows
<1>5. KeysFit(h2, D, st.index)
  <2>1. st.index.compound = D
    BY <1>3 DEF KeysFit
  <2>2. ASSUME NEW k \in Key
        PROVE  /\ ToSet(st.index.field[k]) = {a \in D : h2[a].key = k}
               /\ st.index.unique[k] # Nothing => st.index.unique[k] \in D /\ h2[st.index.unique[k]].key = k
               /\ \A a \in D : h2[a].key = k => st.index.unique[k] = a
    <3>1. /\ ToSet(st.index.field[k]) = {a \in D : h[a].key = k}
          /\ st.index.unique[k] # Nothing => st.index.unique[k] \in D /\ h[st.index.unique[k]].key = k
          /\ \A a \in D : h[a].key = k => st.index.unique[k] = a
      BY <1>3 DEF KeysFit
    <3>2. QED
      BY <1>4, <3>1
  <2>3. QED
    BY <2>1, <2>2 DEF KeysFit
<1>6. IdsFit(soft, h2, D, m.byId)
  <2>1. /\ \A a, b \in D : h[a].id = h[b].id => a = b
        /\ \A a \in D : st.byId[h[a].id] # Nothing
        /\ ~soft => \A i \in Id : st.byId[i] # Nothing => st.byId[i] \in D /\ h[st.byId[i]].id = i
    BY <1>3 DEF IdsFit
  <2>2. \A a \in D : h[a].id \in Id
    BY <1>2, HeapFields
  <2>3. /\ \A a, b \in D : h2[a].id = h2[b].id => a = b
        /\ \A a \in D : m.byId[h2[a].id] # Nothing
    BY <1>4, <2>1, <2>2
  <2>4. ASSUME ~soft, NEW i \in Id, m.byId[i] # Nothing
        PROVE  m.byId[i] \in D /\ h2[m.byId[i]].id = i
    BY <1>4, <2>1, <2>4
  <2>5. QED
    BY <2>3, <2>4 DEF IdsFit
<1>7. QED
  BY <1>1, <1>3, <1>5, <1>6 DEF Sound, D

\* An object takes the place of another that has its _id.
LEMMA ReplaceSound ==
  ASSUME NEW h \in Seq(Object), NEW st \in Store(h), NEW soft, Sound(soft, st),
         NEW old, old \in ToSet(st.data), NEW new, new \in DOMAIN h \ ToSet(st.data),
         h[new].id = h[old].id, ~Taken(h, st.index, new, h[old].id), ~Refused(h, new)
  PROVE  /\ Sound(soft, Replace(st, old, new))
         /\ ToSet(Replace(st, old, new).data) = (ToSet(st.data) \ {old}) \union {new}
         /\ \A i \in Id : Replace(st, old, new).byId[i] \in {st.byId[i], new}
<1> DEFINE D == ToSet(st.data)
           res == Replace(st, old, new)
<1>1. /\ st.heap = h /\ st.data \in Seq(DOMAIN h) /\ st.index \in Index(h)
      /\ st.byId \in [Id -> DOMAIN h \union {Nothing}]
  BY DEF Store
<1>2. D \subseteq DOMAIN h
  BY DataInHeap
<1>3. KeysFit(h, D, st.index) /\ IdsFit(soft, h, D, st.byId) /\ IsInjective(st.data)
  BY <1>1 DEF Sound
<1>4. IsReplace(res, h, st, old, new)
  BY <1>2, ReplaceType
<1>5. ToSet(res.data) = (D \ {old}) \union {new} /\ IsInjective(res.data)
  <2>1. res.data = [i \in DOMAIN st.data |-> IF st.data[i] = old THEN new ELSE st.data[i]]
    BY <1>4 DEF IsReplace
  <2>2. \A i, j \in DOMAIN st.data : st.data[i] = st.data[j] => i = j
    BY <1>3 DEF IsInjective
  <2>3. PICK k \in DOMAIN st.data : st.data[k] = old
    BY DEF ToSet
  <2> HIDE DEF res
  <2>4. DOMAIN res.data = DOMAIN st.data /\ res.data[k] = new
        /\ \A i \in DOMAIN st.data : i # k => res.data[i] = st.data[i]
    BY <2>1, <2>2, <2>3
  <2>5. \A i \in DOMAIN st.data : st.data[i] # new
    BY DEF ToSet
  <2>6. IsInjective(res.data)
    BY <2>2, <2>4, <2>5 DEF IsInjective
  <2>7. ToSet(res.data) = (D \ {old}) \union {new}
    <3>1. ASSUME NEW x \in ToSet(res.data) PROVE x \in (D \ {old}) \union {new}
      <4>1. PICK i \in DOMAIN st.data : x = res.data[i]
        BY <2>4 DEF ToSet
      <4>2. CASE i = k
        BY <2>4, <4>1, <4>2
      <4>3. CASE i # k
        BY <2>2, <2>3, <2>4, <4>1, <4>3 DEF ToSet
      <4>4. QED
        BY <4>2, <4>3
    <3>2. ASSUME NEW x \in D \ {old} PROVE x \in ToSet(res.data)
      <4>1. PICK i \in DOMAIN st.data : x = st.data[i]
        BY DEF ToSet
      <4>2. QED
        BY <2>3, <2>4, <4>1 DEF ToSet
    <3>3. new \in ToSet(res.data)
      BY <2>4 DEF ToSet
    <3>4. QED
      BY <3>1, <3>2, <3>3
  <2>8. QED
    BY <2>6, <2>7
<1> HIDE DEF res, D
<1>6. old \in D /\ new \notin D /\ new \in DOMAIN h /\ old \in DOMAIN h
  BY <1>2 DEF D
<1>7. /\ \A a, b \in D : h[a].id = h[b].id => a = b
      /\ \A a \in D : st.byId[h[a].id] # Nothing
      /\ ~soft => \A i \in Id : st.byId[i] # Nothing => st.byId[i] \in D /\ h[st.byId[i]].id = i
  BY <1>3 DEF IdsFit
<1>8. KeysFit(h, (D \ {old}) \union {new}, res.index)
  <2> DEFINE ix == RemoveDocs(h, st.index, {old})
             s == <<new>>
  <2>1. res.index = IndexDocs(h, ix, s)
    BY <1>4 DEF IsReplace, Update
  <2>2. KeysFit(h, D \ {old}, ix)
    BY <1>1, <1>2, <1>3, <1>6, RemoveKeys
  <2>3. ix \in Index(h)
    BY <1>1, RemoveDocsType
  <2>4. ToSet(s) = {new} /\ s \in Seq(DOMAIN h)
    BY <1>6 DEF ToSet
  <2>5. FreshKeys(h, ix, {new})
    <3>1. ASSUME h[new].key # Nothing PROVE ix.unique[h[new].key] = Nothing
      <4> DEFINE k == h[new].key
      <4>1. k \in Key
        BY <1>6, <3>1, HeapFields
      <4>2. ix.unique[k] = IF \E a \in {old} : h[a].key = k THEN Nothing ELSE st.index.unique[k]
        BY <4>1 DEF RemoveDocs
      <4>3. st.index.unique[k] = Nothing \/ h[st.index.unique[k]].id = h[old].id
        BY <3>1 DEF Taken
      <4>4. st.index.unique[k] # Nothing => st.index.unique[k] \in D /\ h[st.index.unique[k]].key = k
        BY <1>3, <4>1 DEF KeysFit
      <4> HIDE DEF ix, k
      <4>5. ix.unique[k] = Nothing
        BY <1>6, <1>7, <4>2, <4>3, <4>4
      <4>6. QED
        BY <4>5 DEF k
    <3> HIDE DEF ix
    <3>2. QED
      BY <3>1 DEF FreshKeys
  <2> HIDE DEF ix, s
  <2>6. D \ {old} \subseteq DOMAIN h
    BY <1>2
  <2>7. KeysFit(h, (D \ {old}) \union ToSet(s), IndexDocs(h, ix, s))
    BY <2>2, <2>3, <2>4, <2>5, <2>6, AddKeys
  <2>8. QED
    BY <2>1, <2>4, <2>7
<1>9. \A a \in DOMAIN h : h[a].id \in Id
  BY HeapFields
<1>10. \A i \in Id : res.byId[i] = IF i = h[new].id THEN new ELSE st.byId[i]
  BY <1>1, <1>4 DEF IsReplace
<1>11. Nothing \notin DOMAIN h
  BY HeapDomain
<1>12. IdsFit(soft, h, (D \ {old}) \union {new}, res.byId)
  <2> DEFINE E == (D \ {old}) \union {new}
  <2>1. \A a, b \in E : h[a].id = h[b].id => a = b
    BY <1>6, <1>7
  <2>2. \A a \in E : res.byId[h[a].id] # Nothing
    BY <1>2, <1>6, <1>7, <1>9, <1>10, <1>11
  <2>3. ASSUME ~soft, NEW i \in Id, res.byId[i] # Nothing
        PROVE  res.byId[i] \in E /\ h[res.byId[i]].id = i
    BY <1>6, <1>7, <1>10, <2>3
  <2> HIDE DEF E
  <2>4. IdsFit(soft, h, E, res.byId)
    BY <2>1, <2>2, <2>3 DEF IdsFit
  <2>5. QED
    BY <2>4 DEF E
<1>13. res.heap = h
  BY <1>4 DEF IsReplace
<1>14. \A i \in Id : res.byId[i] \in {st.byId[i], new}
  BY <1>10
<1>15. QED
  BY <1>5, <1>8, <1>12, <1>13, <1>14 DEF Sound, D, res

-----------------------------------------------------------------------------
(* _commitUpdatedDoc(), of one document and of many.  h is the heap, with the *)
(* new objects.                                                               *)

Result(h) == [st : Store(h), ok : BOOLEAN]

LEMMA CommitType ==
  ASSUME NEW h \in Seq(Object), NEW st \in Store(h), NEW old \in DOMAIN h, NEW new \in DOMAIN h
  PROVE  CommitUpdatedDoc(st, old, new) \in Result(h)
<1> DEFINE r == Replace(st, old, new)
           ok == Updates(st.heap, st.index, old, new)
<1>1. r \in Store(h)
  BY ReplaceType DEF IsReplace
<1>2. ok \in BOOLEAN
  BY DEF Updates
<1> HIDE DEF r, ok
<1>3. [st |-> st, ok |-> FALSE] \in Result(h) /\ [st |-> r, ok |-> ok] \in Result(h)
  BY <1>1, <1>2 DEF Result
<1>4. CASE old \notin ToSet(st.data)
  BY <1>3, <1>4 DEF CommitUpdatedDoc
<1>5. CASE old \in ToSet(st.data)
  <2>1. CommitUpdatedDoc(st, old, new) = [st |-> r, ok |-> ok]
    BY <1>5 DEF CommitUpdatedDoc, r, ok
  <2>2. QED
    BY <1>3, <2>1
<1>6. QED
  BY <1>4, <1>5

\* An object that is not in place fails; another is replaced and succeeds,
\* unless another document has its value.
IsCommitted(r, h, soft, st, old, new) ==
  IF old \notin ToSet(st.data)
  THEN r.st = st /\ r.ok = FALSE
  ELSE /\ r.ok = TRUE
       /\ r.st \in Store(h)
       /\ Sound(soft, r.st)
       /\ ToSet(r.st.data) = (ToSet(st.data) \ {old}) \union {new}
       /\ \A i \in Id : r.st.byId[i] \in {st.byId[i], new}

LEMMA CommitSound ==
  ASSUME NEW h \in Seq(Object), NEW st \in Store(h), NEW soft, Sound(soft, st),
         NEW old \in DOMAIN h, NEW new \in DOMAIN h, new \notin ToSet(st.data),
         h[new].id = h[old].id, ~Refused(h, new),
         old \in ToSet(st.data) => ~Taken(h, st.index, new, h[old].id),
         NEW r, r = CommitUpdatedDoc(st, old, new)
  PROVE  IsCommitted(r, h, soft, st, old, new)
<1>1. CASE old \notin ToSet(st.data)
  BY <1>1 DEF CommitUpdatedDoc, IsCommitted
<1>2. CASE old \in ToSet(st.data)
  <2> DEFINE s == Replace(st, old, new)
  <2>1. r = [st |-> s, ok |-> Updates(st.heap, st.index, old, new)]
    BY <1>2 DEF CommitUpdatedDoc
  <2>2. Updates(st.heap, st.index, old, new)
    <3>1. st.heap = h
      BY DEF Store
    <3>2. QED
      BY <1>2, <3>1 DEF Updates
  <2>3. IsReplace(s, h, st, old, new)
    BY ReplaceType
  <2>4. s \in Store(h)
    BY <2>3 DEF IsReplace
  <2>5. /\ Sound(soft, s)
        /\ ToSet(s.data) = (ToSet(st.data) \ {old}) \union {new}
        /\ \A i \in Id : s.byId[i] \in {st.byId[i], new}
    BY <1>2, ReplaceSound
  <2> HIDE DEF s
  <2>6. r.st = s /\ r.ok = TRUE
    BY <2>1, <2>2
  <2>7. QED
    BY <1>2, <2>4, <2>5, <2>6 DEF IsCommitted
<1>3. QED
  BY <1>1, <1>2

\* f[i] is what the loop of CommitAll() has after i documents.
IsCommit(f, h, st, old, new) ==
  /\ f \in [0..Len(old) -> Result(h)]
  /\ f[0] = [st |-> st, ok |-> TRUE]
  /\ CommitAll(st, old, new) = f[Len(old)]
  /\ \A i \in 1..Len(old) :
       f[i] = IF f[i-1].ok THEN CommitUpdatedDoc(f[i-1].st, old[i], new[i]) ELSE f[i-1]

LEMMA CommitLoop ==
  ASSUME NEW h \in Seq(Object), NEW st \in Store(h), NEW old \in Seq(DOMAIN h),
         NEW new \in Seq(DOMAIN h), Len(new) = Len(old)
  PROVE  \E f : IsCommit(f, h, st, old, new)
<1> DEFINE n == Len(old)
           X == Result(h)
           base == [st |-> st, ok |-> TRUE]
           one(r, i) == IF r.ok THEN CommitUpdatedDoc(r.st, old[i], new[i]) ELSE r
           step == [p \in X \X (1..n) |-> one(p[1], p[2])]
           Is(f) == f = [i \in 0..n |-> IF i = 0 THEN [st |-> st, ok |-> TRUE] ELSE
                        IF f[i - 1].ok THEN CommitUpdatedDoc(f[i - 1].st, old[i], new[i])
                        ELSE f[i - 1]]
           done == CHOOSE f : Is(f)
<1>1. step \in [X \X (1..n) -> X]
  <2>1. ASSUME NEW r \in X, NEW i \in 1..n PROVE one(r, i) \in X
    <3>1. old[i] \in DOMAIN h /\ new[i] \in DOMAIN h
      OBVIOUS
    <3>2. r.st \in Store(h)
      BY DEF Result
    <3>3. QED
      BY <3>1, <3>2, CommitType
  <2> HIDE DEF X, one, n
  <2>2. QED
    BY <2>1
<1>2. base \in X
  BY DEF Result
<1>3. n \in Nat
  OBVIOUS
<1>4. \E f : IsRun(f, X, base, n, step)
  <2> HIDE DEF step, X, n, base
  <2>1. QED
    BY <1>1, <1>2, <1>3, Iteration
<1>5. PICK f \in [0..n -> X] : f[0] = base /\ \A i \in 1..n : f[i] = step[<<f[i-1], i>>]
  <2> HIDE DEF step, X, n, base
  <2>1. QED
    BY <1>4 DEF IsRun
<1>6. ASSUME NEW i \in 1..n
      PROVE  f[i] = one(f[i-1], i)
  <2>1. <<f[i-1], i>> \in X \X (1..n)
    <3> HIDE DEF X, n
    <3>1. i - 1 \in 0..n
      BY <1>3
    <3>2. QED
      BY <3>1
  <2> HIDE DEF X, n, one
  <2>2. QED
    BY <1>5, <2>1
<1>7. Is(f)
  <2> HIDE DEF step, X, n
  <2>1. \A i \in 0..n : i # 0 => i \in 1..n
    BY <1>3
  <2>2. QED
    BY <1>5, <1>6, <2>1
<1>8. Is(done)
  <2> HIDE DEF Is
  <2>1. QED
    BY <1>7
<1>9. CommitAll(st, old, new) = done[n]
  BY DEF CommitAll
<1> HIDE DEF step, X, done
<1>10. done[0] = f[0] /\ \A i \in 1..n : done[i] = one(done[i-1], i)
  <2> HIDE DEF n
  <2>1. \A i \in 0..n : done[i] = IF i = 0 THEN base ELSE one(done[i - 1], i)
    BY <1>8
  <2>2. \A i \in 1..n : i \in 0..n /\ i # 0
    BY <1>3
  <2>3. 0 \in 0..n
    BY <1>3
  <2> HIDE DEF one, base
  <2>4. QED
    BY <1>5, <2>1, <2>2, <2>3
<1>11. \A i \in 0..n : done[i] = f[i]
  <2> HIDE DEF n, one
  <2>1. \A i \in 1..n : done[i-1] = f[i-1] => done[i] = f[i]
    BY <1>6, <1>10
  <2>2. done[0] = f[0]
    BY <1>10
  <2>3. AgreeStepwise(n, done, f)
    BY <2>1, <2>2 DEF AgreeStepwise
  <2>4. QED
    BY <1>3, <2>3, SameSteps
<1>12. done[n] = f[n]
  BY <1>3, <1>11
<1>13. \A i \in 1..n :
       f[i] = IF f[i-1].ok THEN CommitUpdatedDoc(f[i-1].st, old[i], new[i]) ELSE f[i-1]
  BY <1>6
<1>14. CommitAll(st, old, new) = f[n]
  BY <1>9, <1>12
<1>15. QED
  BY <1>5, <1>13, <1>14 DEF X, IsCommit

\* The new objects that take the place of documents.
Landed(D, old, new) == {new[j] : j \in {j \in DOMAIN old : old[j] \in D}}

\* No value of the new objects is in the way of one of them: they keep their
\* values, or have all the same one and the same _id.
KeepKeys(h, old, new) == \A i \in DOMAIN old : h[new[i]].key = h[old[i]].key

ShareKey(h, ix, old, new) ==
  \E k \in Key \union {Nothing} : \A i \in DOMAIN old :
    /\ h[new[i]].key = k
    /\ k # Nothing => /\ ix.unique[k] # Nothing => h[ix.unique[k]].id = h[old[i]].id
                      /\ \A j \in DOMAIN old : h[old[j]].id = h[old[i]].id

\* new[i] is to replace old[i].
Replaces(h, D, old, new) ==
  /\ old \in Seq(DOMAIN h) /\ new \in Seq(DOMAIN h) /\ Len(new) = Len(old)
  /\ \A i, j \in DOMAIN old : new[i] = new[j] => i = j
  /\ \A i \in DOMAIN old :
       /\ new[i] \notin D /\ new[i] \notin ToSet(old)
       /\ h[new[i]].id = h[old[i]].id
       /\ ~Refused(h, new[i])

\* What is so after any number of documents.
Committed(h, soft, st, old, new, r) ==
  /\ r.st \in Store(h) /\ r.ok \in BOOLEAN
  /\ Sound(soft, r.st)
  /\ ToSet(r.st.data) \subseteq ToSet(st.data) \union Landed(ToSet(st.data), old, new)
  /\ \A i \in Id : r.st.byId[i] \in {st.byId[i]} \union Landed(ToSet(st.data), old, new)

LEMMA CommitAllSound ==
  ASSUME NEW h \in Seq(Object), NEW st \in Store(h), NEW soft, Sound(soft, st),
         NEW old, NEW new, Replaces(h, ToSet(st.data), old, new),
         KeepKeys(h, old, new) \/ ShareKey(h, st.index, old, new),
         NEW r, r = CommitAll(st, old, new)
  PROVE  /\ Committed(h, soft, st, old, new, r)
         /\ r.ok => \A i \in DOMAIN old : new[i] \in ToSet(r.st.data)
         /\ ~r.ok /\ Len(old) <= 1 => r.st = st
<1> DEFINE n == Len(old)
           D == ToSet(st.data)
           L == Landed(D, old, new)
           E(q) == ToSet(q.st.data)
<1>1. /\ old \in Seq(DOMAIN h) /\ new \in Seq(DOMAIN h) /\ Len(new) = Len(old)
      /\ n \in Nat /\ DOMAIN old = 1..n
  BY DEF Replaces
<1>2. PICK f : IsCommit(f, h, st, old, new)
  BY <1>1, CommitLoop
<1>3. /\ f \in [0..n -> Result(h)]
      /\ f[0] = [st |-> st, ok |-> TRUE]
      /\ r = f[n]
      /\ \A i \in 1..n : f[i] = IF f[i-1].ok THEN CommitUpdatedDoc(f[i-1].st, old[i], new[i]) ELSE f[i-1]
  BY <1>2 DEF IsCommit
<1>4. PICK k \in Key \union {Nothing} :
         \/ KeepKeys(h, old, new)
         \/ \A i \in DOMAIN old :
              /\ h[new[i]].key = k
              /\ k # Nothing => /\ st.index.unique[k] # Nothing => h[st.index.unique[k]].id = h[old[i]].id
                                /\ \A j \in DOMAIN old : h[old[j]].id = h[old[i]].id
  <2>1. CASE KeepKeys(h, old, new)
    BY <2>1
  <2>2. CASE ShareKey(h, st.index, old, new)
    BY <2>2 DEF ShareKey
  <2>3. QED
    BY <2>1, <2>2
<1> DEFINE Free(q, i) ==
             KeepKeys(h, old, new) \/
              (/\ h[new[i]].key = k
               /\ k # Nothing => /\ q.st.index.unique[k] # Nothing => h[q.st.index.unique[k]].id = h[old[i]].id
                                 /\ \A j \in DOMAIN old : h[old[j]].id = h[old[i]].id)
           Some(i) == {new[j] : j \in {j \in 1..i : old[j] \in D}}
           Ok(i) == /\ f[i].st \in Store(h) /\ f[i].ok \in BOOLEAN
                    /\ Sound(soft, f[i].st)
                    /\ E(f[i]) \subseteq D \union Some(i)
                    /\ \A x \in Id : f[i].st.byId[x] \in {st.byId[x]} \union Some(i)
                    /\ f[i].ok => \A j \in 1..i : new[j] \in E(f[i])
                    /\ \A j \in DOMAIN old : Free(f[i], j)
                    /\ ~f[i].ok /\ i = 1 => f[i].st = st
           S == {i \in Nat : i <= n => Ok(i)}
<1>5. 0 \in S
  <2>1. f[0].st = st /\ f[0].ok = TRUE
    BY <1>3
  <2>2. Some(0) = {} /\ \A j \in 1..0 : FALSE
    OBVIOUS
  <2>3. \A j \in DOMAIN old : Free(f[0], j)
    BY <1>4, <2>1
  <2> HIDE DEF Some, Free
  <2>4. Ok(0)
    BY <2>1, <2>2, <2>3
  <2>5. QED
    BY <2>4
<1>6. ASSUME NEW i \in Nat, i \in S PROVE i + 1 \in S
  <2> SUFFICES ASSUME i + 1 <= n PROVE Ok(i + 1)
    OBVIOUS
  <2> DEFINE m == i + 1
             q == f[i]
             a == old[m]
             b == new[m]
  <2>1. /\ Ok(i) /\ m \in 1..n /\ m - 1 = i /\ m \in DOMAIN old /\ m # 0
        /\ \A j \in 1..i : j \in 1..n /\ j \in DOMAIN old /\ j # m
        /\ \A j \in 1..m : j \in 1..i \/ j = m
        /\ \A j \in 1..i : j \in 1..m
        /\ m \in 1..m
    BY <1>1, <1>6, SMTT(30)
  <2> HIDE DEF S, m
  <2>2. f[m] = IF q.ok THEN CommitUpdatedDoc(q.st, a, b) ELSE q
    BY <1>3, <2>1
  <2>3. /\ a \in DOMAIN h /\ b \in DOMAIN h /\ b \notin D /\ b \notin ToSet(old)
        /\ h[b].id = h[a].id /\ ~Refused(h, b) /\ a \in ToSet(old)
    BY <1>1, <2>1 DEF Replaces, ToSet
  <2>4. \A j \in 1..i : new[j] \notin ToSet(old) /\ new[j] # b
    BY <2>1 DEF Replaces
  <2>5. Some(i) \subseteq Some(m) /\ (a \in D => b \in Some(m))
    BY <2>1
  <2>6. CASE ~q.ok
    <3>1. f[m] = q
      BY <2>2, <2>6
    <3>2. m # 1
      <4>1. f[0].ok = TRUE
        BY <1>3
      <4>2. i # 0
        BY <2>6, <4>1
      <4>3. QED
        BY <4>2 DEF m
    <3> HIDE DEF Some, Free, q
    <3>3. Ok(m)
      BY <2>1, <2>5, <2>6, <3>1, <3>2 DEF q
    <3>4. QED
      BY <3>3 DEF m
  <2>7. CASE q.ok
    <3>1. /\ q.st \in Store(h) /\ Sound(soft, q.st) /\ E(q) \subseteq D \union Some(i)
          /\ \A x \in Id : q.st.byId[x] \in {st.byId[x]} \union Some(i)
          /\ \A j \in 1..i : new[j] \in E(q)
          /\ \A j \in DOMAIN old : Free(q, j)
      BY <2>1, <2>7
    <3>2. \A x \in Some(i) : x # b /\ x # a
      BY <2>3, <2>4
    <3> HIDE DEF Some, Free, q
    <3>3. b \notin E(q) /\ (a \in E(q) => a \in D)
      BY <2>3, <3>1, <3>2
    <3>4. KeysFit(h, E(q), q.st.index) /\ q.st.heap = h
      BY <3>1 DEF Sound, Store
    <3>5. ASSUME a \in E(q) PROVE ~Taken(h, q.st.index, b, h[a].id)
      <4> SUFFICES ASSUME h[b].key # Nothing, q.st.index.unique[h[b].key] # Nothing
                   PROVE  h[q.st.index.unique[h[b].key]].id = h[a].id
        BY DEF Taken
      <4>1. h[b].key \in Key
        BY <2>3, HeapFields
      <4>2. CASE KeepKeys(h, old, new)
        <5>1. h[a].key = h[b].key
          BY <2>1, <4>2 DEF KeepKeys
        <5>2. q.st.index.unique[h[b].key] = a
          BY <3>4, <3>5, <4>1, <5>1 DEF KeysFit
        <5>3. QED
          BY <5>2
      <4>3. CASE ~KeepKeys(h, old, new)
        BY <2>1, <3>1, <4>3 DEF Free
      <4>4. QED
        BY <4>2, <4>3
    <3>6. f[m] = CommitUpdatedDoc(q.st, a, b)
      BY <2>2, <2>7
    <3> HIDE DEF a, b
    <3>7. IF a \notin E(q)
          THEN f[m].st = q.st /\ f[m].ok = FALSE
          ELSE /\ f[m].ok = TRUE
               /\ f[m].st \in Store(h)
               /\ Sound(soft, f[m].st)
               /\ E(f[m]) = (E(q) \ {a}) \union {b}
               /\ \A x \in Id : f[m].st.byId[x] \in {q.st.byId[x], b}
      <4>1. IsCommitted(f[m], h, soft, q.st, a, b)
        BY <2>3, <3>1, <3>3, <3>5, <3>6, CommitSound
      <4>2. QED
        BY <4>1 DEF IsCommitted
    <3>8. CASE a \notin E(q)
      <4>1. f[m].st = q.st /\ f[m].ok = FALSE
        BY <3>7, <3>8
      <4>2. \A j \in DOMAIN old : Free(f[m], j)
        BY <3>1, <4>1 DEF Free
      <4>3. m = 1 => q.st = st
        <5>1. m = 1 => i = 0
          BY DEF m
        <5>2. QED
          BY <1>3, <5>1 DEF q
      <4>4. Ok(m)
        BY <2>5, <3>1, <4>1, <4>2, <4>3
      <4>5. QED
        BY <4>4 DEF m
    <3>9. CASE a \in E(q)
      <4>1. /\ f[m].ok = TRUE
            /\ f[m].st \in Store(h)
            /\ Sound(soft, f[m].st)
            /\ E(f[m]) = (E(q) \ {a}) \union {b}
            /\ \A x \in Id : f[m].st.byId[x] \in {q.st.byId[x], b}
        BY <3>7, <3>9
      <4>2. b \in Some(m) /\ Some(i) \subseteq Some(m)
        BY <2>5, <3>3, <3>9
      <4>3. ASSUME NEW j \in DOMAIN old PROVE Free(f[m], j)
        <5> SUFFICES ASSUME ~KeepKeys(h, old, new)
                     PROVE  /\ h[new[j]].key = k
                            /\ k # Nothing =>
                                 /\ f[m].st.index.unique[k] # Nothing => h[f[m].st.index.unique[k]].id = h[old[j]].id
                                 /\ \A x \in DOMAIN old : h[old[x]].id = h[old[j]].id
          BY DEF Free
        <5>1. /\ \A x \in DOMAIN old : h[new[x]].key = k
              /\ k # Nothing => \A x, y \in DOMAIN old : h[old[x]].id = h[old[y]].id
          BY <1>4
        <5>2. ASSUME k # Nothing PROVE h[f[m].st.index.unique[k]].id = h[old[j]].id
          <6>1. KeysFit(h, E(f[m]), f[m].st.index)
            BY <4>1 DEF Sound, Store
          <6>2. b \in E(f[m]) /\ h[b].key = k /\ k \in Key
            BY <2>1, <4>1, <5>1, <5>2 DEF b
          <6>3. f[m].st.index.unique[k] = b
            BY <6>1, <6>2 DEF KeysFit
          <6>4. h[old[j]].id = h[a].id
            BY <2>1, <5>1, <5>2 DEF a
          <6>5. QED
            BY <2>3, <6>3, <6>4
        <5>3. QED
          BY <5>1, <5>2
      <4>4. \A j \in 1..m : new[j] \in E(f[m])
        <5>1. \A j \in 1..i : new[j] # a
          BY <2>3, <2>4
        <5>2. QED
          BY <2>1, <3>1, <4>1, <5>1 DEF b
      <4> DEFINE g == f[m]
      <4>5. E(g) \subseteq D \union Some(m) /\ \A x \in Id : g.st.byId[x] \in {st.byId[x]} \union Some(m)
        BY <3>1, <4>1, <4>2
      <4>6. Ok(m)
        BY <4>1, <4>3, <4>4, <4>5
      <4>7. QED
        BY <4>6 DEF m
    <3>10. QED
      BY <3>8, <3>9
  <2>8. QED
    BY <2>6, <2>7
<1>7. Ok(n)
  <2> HIDE DEF S, n, Ok
  <2>1. Nat \subseteq S
    BY <1>5, <1>6, NatInductionSet
  <2>2. QED
    BY <1>1, <2>1 DEF S
<1>8. Some(n) = L
  BY <1>1 DEF Landed
<1>9. ASSUME ~r.ok, n <= 1 PROVE r.st = st
  <2>1. f[0].ok = TRUE
    BY <1>3
  <2>2. n = 0 \/ n = 1
    BY <1>1, <1>9
  <2>3. n = 1
    BY <1>3, <1>9, <2>1, <2>2
  <2>4. QED
    BY <1>3, <1>7, <1>9, <2>3
<1>10. Committed(h, soft, st, old, new, r)
  <2> HIDE DEF Some, Free, L, D
  <2>1. QED
    BY <1>3, <1>7, <1>8 DEF Committed, D, L
<1>11. r.ok => \A i \in DOMAIN old : new[i] \in ToSet(r.st.data)
  BY <1>1, <1>3, <1>7
<1>12. QED
  BY <1>9, <1>10, <1>11

-----------------------------------------------------------------------------
(* Finding documents, evicting them and loading them. *)

Listed(st) == {st.byId[i] : i \in Id} \ {Nothing}

LEMMA FindAllIs ==
  ASSUME NEW h \in Seq(Object), NEW st \in Store(h), NEW filter \in Filter, NEW deleted
  PROVE  /\ FindAllRaw(st, filter, deleted) \in Seq(DOMAIN h)
         /\ \A soft : Sound(soft, st) =>
              ToSet(FindAllRaw(st, filter, deleted)) \subseteq ToSet(st.data) \union Listed(st)
<1> DEFINE s == Candidates(st, filter)
           keep == {a \in DOMAIN st.heap : deleted \/ Visible(st, a)}
           H == DOMAIN h
<1>1. /\ st.data \in Seq(H) /\ st.byId \in [Id -> H \union {Nothing}]
      /\ st.index.field \in [Key -> Seq(H)]
  BY DEF Store, Index
<1>2. /\ s \in Seq(H)
      /\ \A soft : Sound(soft, st) => ToSet(s) \subseteq ToSet(st.data) \union Listed(st)
  <2>1. CASE filter.on = "all"
    <3>1. s = st.data
      BY <2>1 DEF Candidates
    <3>2. QED
      BY <1>1, <3>1
  <2>2. CASE filter.on = "key"
    <3>1. s = st.index.field[filter.val] /\ filter.val \in Key
      BY <2>2 DEF Candidates, Filter
    <3>2. ASSUME NEW soft, Sound(soft, st) PROVE ToSet(s) \subseteq ToSet(st.data)
      BY <3>1, <3>2 DEF Sound, KeysFit
    <3>3. QED
      BY <1>1, <3>1, <3>2
  <2>3. CASE filter.on = "id"
    <3>1. /\ filter.val \in Id
          /\ s = IF st.byId[filter.val] = Nothing THEN <<>> ELSE <<st.byId[filter.val]>>
      BY <2>3 DEF Candidates, Filter
    <3> DEFINE a == st.byId[filter.val]
    <3>2. a \in H \union {Nothing} /\ (a # Nothing => a \in Listed(st))
      BY <1>1, <3>1 DEF Listed
    <3> HIDE DEF a, s, H
    <3>3. CASE a = Nothing
      <4>1. s = <<>>
        BY <3>1, <3>3 DEF a
      <4>2. QED
        BY <4>1 DEF ToSet
    <3>4. CASE a # Nothing
      <4>1. s = <<a>>
        BY <3>1, <3>4 DEF a
      <4>2. s \in Seq(H) /\ ToSet(s) = {a}
        BY <3>2, <3>4, <4>1 DEF ToSet
      <4>3. QED
        BY <3>2, <3>4, <4>2
    <3>5. QED
      BY <3>3, <3>4
  <2>4. QED
    BY <2>1, <2>2, <2>3 DEF Filter
<1>3. FindAllRaw(st, filter, deleted) = Only(s, keep)
  BY DEF FindAllRaw
<1> HIDE DEF s, keep, H
<1>4. Only(s, keep) \in Seq(H) /\ ToSet(Only(s, keep)) \subseteq ToSet(s)
  BY <1>2, OnlyIs
<1>5. QED
  BY <1>2, <1>3, <1>4 DEF H

LEMMA FindIs ==
  ASSUME NEW h \in Seq(Object), NEW st \in Store(h), NEW filter \in Filter, NEW deleted
  PROVE  /\ FindRaw(st, filter, deleted) \in Seq(DOMAIN h)
         /\ Len(FindRaw(st, filter, deleted)) <= 1
         /\ \A soft : Sound(soft, st) =>
              ToSet(FindRaw(st, filter, deleted)) \subseteq ToSet(st.data) \union Listed(st)
<1> DEFINE all == FindAllRaw(st, filter, deleted)
           H == DOMAIN h
           one == SubSeq(all, 1, IF all = <<>> THEN 0 ELSE 1)
<1>1. /\ all \in Seq(H)
      /\ \A soft : Sound(soft, st) => ToSet(all) \subseteq ToSet(st.data) \union Listed(st)
  BY FindAllIs
<1>2. FindRaw(st, filter, deleted) = one
  BY DEF FindRaw
<1> HIDE DEF all, H
<1>3. one \in Seq(H) /\ Len(one) <= 1 /\ ToSet(one) \subseteq ToSet(all)
  <2>1. CASE all = <<>>
    BY <2>1 DEF ToSet
  <2>2. CASE all # <<>>
    <3>1. 1 <= Len(all) /\ one = SubSeq(all, 1, 1)
      BY <1>1, <2>2
    <3>2. QED
      BY <1>1, <3>1, Prefix
  <2>3. QED
    BY <2>1, <2>2
<1> HIDE DEF one
<1>4. QED
  BY <1>1, <1>2, <1>3 DEF H

\* What is left of a store.
IsRest(r, h, soft, st) ==
  /\ r.heap = h
  /\ Sound(soft, st) =>
       /\ Sound(soft, r)
       /\ ToSet(r.data) \subseteq ToSet(st.data)
       /\ \A i \in Id : r.byId[i] \in {st.byId[i], Nothing}

LEMMA CappedIs ==
  ASSUME NEW h \in Seq(Object), NEW st \in Store(h), NEW soft, setup.cap \in Nat
  PROVE  Capped(st) \in Store(h) /\ IsRest(Capped(st), h, soft, st)
<1> DEFINE gone == ToSet(SubSeq(st.data, 1, Len(st.data) - setup.cap))
           r == Without(st, gone)
<1>1. CASE setup.cap = 0 \/ Len(st.data) <= setup.cap
  <2>1. Capped(st) = st
    BY <1>1 DEF Capped
  <2>2. st.heap = h
    BY DEF Store
  <2>3. QED
    BY <2>1, <2>2 DEF IsRest
<1>2. CASE ~(setup.cap = 0 \/ Len(st.data) <= setup.cap)
  <2>1. Capped(st) = r
    BY <1>2 DEF Capped
  <2>2. gone \subseteq ToSet(st.data)
    <3>1. st.data \in Seq(DOMAIN h)
      BY DEF Store
    <3>2. Len(st.data) - setup.cap \in Int /\ Len(st.data) - setup.cap <= Len(st.data)
      BY <3>1
    <3>3. QED
      BY <3>1, <3>2, Prefix
  <2> HIDE DEF gone
  <2>3. IsWithout(r, h, st, gone)
    BY WithoutType
  <2>4. ASSUME Sound(soft, st)
        PROVE  /\ Sound(soft, r)
               /\ ToSet(r.data) = ToSet(st.data) \ gone
               /\ \A i \in Id : r.byId[i] \in {st.byId[i], Nothing}
    BY <2>2, <2>4, WithoutSound
  <2> HIDE DEF r
  <2>5. IsRest(r, h, soft, st) /\ r \in Store(h)
    BY <2>3, <2>4 DEF IsRest, IsWithout
  <2>6. QED
    BY <2>1, <2>5
<1>3. QED
  BY <1>1, <1>2

\* deleteMany() builds the _id index anew.
LEMMA RebuildSound ==
  ASSUME NEW h \in Seq(Object), NEW st \in Store(h), Sound(FALSE, st),
         NEW r, IsRebuilt(r, h, st, SetInIndex(h, NoIds, st.data))
  PROVE  /\ Sound(FALSE, r)
         /\ \A i \in Id : r.byId[i] \in ToSet(st.data) \union {Nothing}
<1> DEFINE D == ToSet(st.data)
           H == DOMAIN h
           with(i) == {a \in H : h[a].id = i}
<1>1. /\ r \in Store(h) /\ r.heap = h /\ r.data = st.data /\ r.index = st.index
      /\ r.byId = SetInIndex(h, NoIds, st.data)
  BY DEF IsRebuilt
<1>2. st.heap = h /\ st.data \in Seq(H) /\ D \subseteq H
  BY DataInHeap DEF Store
<1>3. KeysFit(h, D, st.index) /\ IdsFit(FALSE, h, D, st.byId) /\ IsInjective(st.data)
  BY <1>2 DEF Sound
<1>4. ASSUME NEW i \in Id
      PROVE  IF D \intersect with(i) = {} THEN r.byId[i] = Nothing
                                          ELSE r.byId[i] \in D \intersect with(i)
  <2>1. r.byId[i] = LastOf(st.data, with(i), Nothing)
    BY <1>1 DEF SetInIndex, NoIds
  <2> HIDE DEF H, with
  <2>2. QED
    BY <1>2, <2>1, LastIs
<1>5. Nothing \notin H
  BY HeapDomain
<1>6. \A a \in H : h[a].id \in Id
  BY HeapFields
<1> HIDE DEF D, H
<1>7. IdsFit(FALSE, h, D, r.byId)
  <2>1. \A a, b \in D : h[a].id = h[b].id => a = b
    BY <1>3 DEF IdsFit
  <2>2. \A a \in D : r.byId[h[a].id] # Nothing
    BY <1>2, <1>4, <1>5, <1>6
  <2>3. \A i \in Id : r.byId[i] # Nothing => r.byId[i] \in D /\ h[r.byId[i]].id = i
    BY <1>4
  <2>4. QED
    BY <2>1, <2>2, <2>3 DEF IdsFit
<1>8. \A i \in Id : r.byId[i] \in D \union {Nothing}
  BY <1>4
<1>9. QED
  BY <1>1, <1>2, <1>3, <1>7, <1>8 DEF Sound, D

\* The parts of a collection.
LEMMA SetupFields ==
  ASSUME NEW s \in Setups
  PROVE  /\ s.soft \in BOOLEAN /\ s.cap \in Nat /\ s.compound \in BOOLEAN
         /\ s.docs \in Seq(Object) /\ s.ops \in SUBSET Operation
         /\ Proper(s)
BY DocumentsAssumption DEF Setup

\* What connect() loads.
LEMMA LoadedIs ==
  ASSUME setup \in Setups
  PROVE  /\ Loaded \in Store(setup.docs) /\ Loaded.heap = setup.docs
         /\ Regular => Sound(setup.soft, Loaded)
         /\ ToSet(Loaded.data) = DOMAIN setup.docs
<1> DEFINE h == setup.docs
           addresses == [i \in DOMAIN h |-> i]
           empty == [heap |-> h, data |-> <<>>, byId |-> NoIds, index |-> NoIndex]
           full == Push(empty, addresses)
           ix == IndexDocs(h, NoIndex, addresses)
<1>1. h \in Seq(Object)
  BY SetupFields
<1>2. addresses \in Seq(DOMAIN h) /\ ToSet(addresses) = DOMAIN h /\ IsInjective(addresses)
  <2> DEFINE n == Len(h)
  <2>1. DOMAIN h = 1 .. n /\ n \in Nat
    BY <1>1
  <2> HIDE DEF n, h
  <2>2. addresses = [i \in 1 .. n |-> i]
    BY <2>1
  <2>3. [i \in 1 .. n |-> i] \in Seq(1 .. n)
    BY <2>1
  <2>4. DOMAIN addresses = DOMAIN h /\ \A i \in DOMAIN h : addresses[i] = i
    OBVIOUS
  <2>5. addresses \in Seq(DOMAIN h)
    BY <2>1, <2>2, <2>3
  <2> HIDE DEF addresses
  <2>6. QED
    BY <2>4, <2>5 DEF ToSet, IsInjective
<1>3. empty \in Store(h)
  <2>1. NoIndex \in Index(h)
    BY DEF NoIndex, Index
  <2>2. NoIds \in [Id -> DOMAIN h \union {Nothing}]
    BY DEF NoIds
  <2> HIDE DEF h
  <2>3. QED
    BY <2>1, <2>2 DEF Store
<1>4. IsPush(full, h, empty, addresses)
  <2> HIDE DEF addresses, empty, h
  <2>1. QED
    BY <1>1, <1>2, <1>3, PushType
<1>5. ix \in Index(h)
  <2>1. NoIndex \in Index(h)
    BY <1>3 DEF Store
  <2> HIDE DEF addresses, h
  <2>2. QED
    BY <1>1, <1>2, <2>1, IndexDocsType
<1>6. IsIndexed(Loaded, h, full, ix)
  <2>1. full \in Store(h) /\ full.index = NoIndex
    BY <1>4 DEF IsPush
  <2> HIDE DEF full, ix
  <2>2. Loaded = [full EXCEPT !.index = ix]
    <3>1. Loaded = [full EXCEPT !.index = IndexDocs(h, full.index, addresses)]
      BY DEF Loaded, full
    <3>2. QED
      BY <2>1, <3>1 DEF ix
  <2>3. QED
    BY <1>5, <2>1, <2>2, IndexType
<1>7. /\ Loaded \in Store(h) /\ Loaded.heap = h
      /\ Loaded.data = addresses
      /\ Loaded.byId = SetInIndex(h, NoIds, addresses)
      /\ Loaded.index = ix
  <2>1. <<>> \o addresses = addresses
    <3> HIDE DEF addresses
    <3>1. QED
      BY <1>2
  <2> HIDE DEF addresses, full, ix, h
  <2>2. empty.data = <<>> /\ empty.byId = NoIds
    OBVIOUS
  <2> HIDE DEF empty
  <2>3. QED
    BY <1>4, <1>6, <2>1, <2>2 DEF IsPush, IsIndexed
<1>8. ASSUME Regular PROVE Sound(setup.soft, Loaded)
  <2>1. Sound(setup.soft, empty)
    <3>1. ToSet(<<>>) = {} /\ IsInjective(<<>>)
      BY DEF ToSet, IsInjective
    <3>2. IdsFit(setup.soft, h, {}, NoIds)
      BY DEF IdsFit, NoIds
    <3>3. KeysFit(h, {}, NoIndex)
      BY <3>1 DEF KeysFit, NoIndex
    <3>4. QED
      BY <3>1, <3>2, <3>3 DEF Sound
  <2>2. FreshIds(h, ToSet(empty.data), empty.byId, ToSet(addresses))
    <3>1. \A a, b \in DOMAIN h : h[a].id = h[b].id => a = b
      BY SetupFields DEF Proper
    <3>2. \A a \in DOMAIN h : h[a].id \in Id
      BY <1>1, HeapFields
    <3>3. ToSet(addresses) = DOMAIN h /\ empty.byId = NoIds
      BY <1>2
    <3> HIDE DEF addresses, empty
    <3>4. QED
      BY <3>1, <3>2, <3>3 DEF FreshIds, NoIds
  <2>3. FreshKeys(h, empty.index, ToSet(addresses))
    <3>1. \A a, b \in DOMAIN h : a # b => (h[a].key = h[b].key => h[a].key = Nothing)
      BY SetupFields DEF Proper
    <3>2. \A a \in DOMAIN h : h[a].key \in Key \union {Nothing}
      BY <1>1, HeapFields
    <3>3. \A a \in DOMAIN h : ~Refused(h, a)
      BY <1>8 DEF Regular, Refused
    <3>4. ToSet(addresses) = DOMAIN h /\ empty.index = NoIndex
      BY <1>2
    <3>5. \A k \in Key : NoIndex.unique[k] = Nothing
      BY DEF NoIndex
    <3> HIDE DEF addresses, empty
    <3>6. QED
      BY <3>1, <3>2, <3>3, <3>4, <3>5 DEF FreshKeys
  <2>4. Loaded.data = empty.data \o addresses
    <3>1. <<>> \o addresses = addresses
      <4> HIDE DEF addresses
      <4>1. QED
        BY <1>2
    <3> HIDE DEF addresses
    <3>2. QED
      BY <1>7, <3>1
  <2>5. Loaded.byId = SetInIndex(h, empty.byId, addresses) /\ Loaded.index = IndexDocs(h, empty.index, addresses)
    BY <1>7
  <2> HIDE DEF addresses, empty, h, ix, full
  <2>6. QED
    BY <1>1, <1>2, <1>3, <1>7, <2>1, <2>2, <2>3, <2>4, <2>5, AddSound
<1>9. ToSet(Loaded.data) = DOMAIN h
  BY <1>2, <1>7
<1>10. QED
  BY <1>7, <1>8, <1>9

-----------------------------------------------------------------------------
(* The type invariant, with what it rests on: what a call has found by the    *)
(* stage it is in.                                                            *)

OpFits(o) ==
  /\ o \in Operation
  /\ o.kind \in {"insert", "ifNotExists", "upsert", "upsertMany"} => o.items # <<>>
  /\ o.kind = "upsertMany" /\ o.filter.on # "id" =>
       \A i \in DOMAIN o.items : o.items[i].key # Nothing

\* Of a call at stage s of operation o that has found f.
CallFits(s, o, f) ==
  /\ OpFits(o)
  /\ s = "idle" => f = <<>>
  /\ s = "called" =>
       IF o.kind = "insert" THEN Len(f) < Len(o.items) /\ Nothing \notin ToSet(f)
                            ELSE f = <<>>
  /\ s = "entered" =>
       /\ o.kind \in {"update", "delete", "restore", "upsertMany"}
       /\ f # <<>>
       /\ IF o.kind = "upsertMany" THEN Len(f) <= Len(o.items) ELSE Nothing \notin ToSet(f)
       /\ o.kind = "update" /\ ~o.many => Len(f) <= 1
       /\ o.kind \in {"delete", "restore"} => setup.soft

CallsFit == \A c \in Call : CallFits(stage[c], op[c], found[c])

TInv == TypeOK /\ CallsFit

\* The store after a step.
Grown ==
  /\ store'.heap \in Seq(Object)
  /\ store' \in Store(store'.heap)
  /\ DOMAIN store.heap \subseteq DOMAIN store'.heap

\* What is called fits what is called upon.
LEMMA SetupOps ==
  ASSUME setup \in Setups, NEW o \in setup.ops
  PROVE  OpFits(o)
BY SetupFields DEF OpFits, Proper

LEMMA NoOpFits == OpFits(NoOp)
<1>1. NoOp.filter \in Filter
  BY DEF NoOp, Filter
<1>2. NoOp \in Operation
  BY <1>1 DEF NoOp, Operation, Kind, Nothing
<1>3. QED
  BY <1>2 DEF OpFits, NoOp

\* A larger heap has the addresses of a smaller one.
LEMMA SeqGrows ==
  ASSUME NEW S, NEW T, S \subseteq T, NEW s \in Seq(S)
  PROVE  s \in Seq(T)
OBVIOUS

\* A step that changes the call c only.
LEMMA StepTypes ==
  ASSUME TInv, NEW c \in Call, Grown, setup' = setup,
         NEW s \in Stage, stage' = [stage EXCEPT ![c] = s],
         NEW o \in Underway, op' = [op EXCEPT ![c] = o],
         NEW f, found' = [found EXCEPT ![c] = f],
         f \in Seq(DOMAIN store'.heap \union {Nothing}), CallFits(s, o, f)
  PROVE  TInv'
<1>1. /\ stage \in [Call -> Stage] /\ op \in [Call -> Underway]
      /\ found \in [Call -> Seq(DOMAIN store.heap \union {Nothing})]
      /\ setup \in Setups
  BY DEF TInv, TypeOK
<1>2. stage' \in [Call -> Stage]
  BY <1>1
<1>3. op' \in [Call -> Underway']
  BY <1>1 DEF Underway
<1>4. found' \in [Call -> Seq(DOMAIN store'.heap \union {Nothing})]
  <2> DEFINE X == DOMAIN store.heap \union {Nothing}
             Y == DOMAIN store'.heap \union {Nothing}
  <2>1. X \subseteq Y
    BY DEF Grown
  <2>2. found \in [Call -> Seq(X)] /\ f \in Seq(Y)
    BY <1>1
  <2> HIDE DEF X, Y
  <2>3. \A d \in Call : found[d] \in Seq(Y)
    BY <2>1, <2>2, SeqGrows
  <2>4. found' \in [Call -> Seq(Y)]
    BY <2>2, <2>3
  <2>5. QED
    BY <2>4 DEF Y
<1>5. ASSUME NEW d \in Call PROVE CallFits(stage[d], op[d], found[d])'
  <2>1. stage'[d] = (IF d = c THEN s ELSE stage[d]) /\ op'[d] = (IF d = c THEN o ELSE op[d])
        /\ found'[d] = (IF d = c THEN f ELSE found[d])
    BY <1>1
  <2>2. CallFits(stage[d], op[d], found[d])
    BY DEF TInv, CallsFit
  <2>3. QED
    BY <2>1, <2>2 DEF CallFits, OpFits
<1>6. \A d \in Call : stage'[d] = "entered" => found'[d] # <<>>
  BY <1>5 DEF CallFits
<1>7. QED
  BY <1>1, <1>2, <1>3, <1>4, <1>5, <1>6 DEF TInv, TypeOK, CallsFit, Grown

\* What the type invariant says of a call.
LEMMA CallTypes ==
  ASSUME TInv, NEW c \in Call
  PROVE  /\ stage[c] \in Stage /\ op[c] \in Underway
         /\ found[c] \in Seq(DOMAIN store.heap \union {Nothing})
         /\ CallFits(stage[c], op[c], found[c])
         /\ op[c] \in Operation
BY DEF TInv, TypeOK, CallsFit, CallFits, OpFits

\* The parts of the state.
LEMMA StoreTypes ==
  ASSUME TInv
  PROVE  /\ setup \in Setups /\ setup.cap \in Nat /\ setup.soft \in BOOLEAN
         /\ store.heap \in Seq(Object) /\ store \in Store(store.heap)
         /\ \A c \in Call : /\ stage' = stage => stage' = [stage EXCEPT ![c] = stage[c]]
                            /\ op' = op => op' = [op EXCEPT ![c] = op[c]]
                            /\ found' = found => found' = [found EXCEPT ![c] = found[c]]
BY SetupFields DEF TInv, TypeOK

\* A step may leave the store alone.
LEMMA SameStore ==
  ASSUME TInv, store' = store
  PROVE  Grown
BY StoreTypes DEF Grown

\* An operation that becomes another.
LEMMA Becomes ==
  ASSUME TInv, NEW c \in Call, NEW k \in Kind,
         op[c].kind \in {"ifNotExists", "upsert"}, k \in {"insert", "update"}
  PROVE  /\ [op[c] EXCEPT !.kind = k] \in Underway
         /\ OpFits([op[c] EXCEPT !.kind = k])
         /\ [op[c] EXCEPT !.kind = k].items = op[c].items
         /\ [op[c] EXCEPT !.kind = k].kind = k
         /\ [op[c] EXCEPT !.kind = k].items # <<>>
<1> DEFINE o == [op[c] EXCEPT !.kind = k]
<1>1. OpFits(op[c]) /\ op[c] \in Underway /\ setup \in Setups
  BY CallTypes, StoreTypes DEF CallFits
<1>2. /\ o \in Operation /\ o.kind = k /\ o.items = op[c].items
  BY <1>1 DEF OpFits, Operation
<1>3. o.items # <<>>
  BY <1>1, <1>2 DEF OpFits
<1>4. o \in Underway
  <2>1. CASE op[c] \in setup.ops
    BY <2>1 DEF Underway
  <2>2. CASE op[c] = NoOp
    BY <2>2 DEF NoOp
  <2>3. ASSUME NEW p \in setup.ops, NEW j \in Kind, op[c] = [p EXCEPT !.kind = j] PROVE o \in Underway
    <3>1. p \in Operation
      BY <1>1, SetupFields
    <3>2. [[p EXCEPT !.kind = j] EXCEPT !.kind = k] = [p EXCEPT !.kind = k]
      BY <3>1 DEF Operation
    <3>3. QED
      BY <2>3, <3>2 DEF Underway
  <2>4. \/ op[c] \in setup.ops \/ op[c] = NoOp
        \/ \E p \in setup.ops, j \in Kind : op[c] = [p EXCEPT !.kind = j]
    BY <1>1 DEF Underway
  <2>5. QED
    BY <2>1, <2>2, <2>3, <2>4
<1> HIDE DEF o
<1>5. OpFits(o)
  BY <1>2, <1>3 DEF OpFits
<1>6. QED
  BY <1>2, <1>3, <1>4, <1>5 DEF o

LEMMA StartTypes ==
  ASSUME TInv, NEW c \in Call, Start(c)
  PROVE  TInv'
<1>1. PICK o \in setup.ops : op' = [op EXCEPT ![c] = o]
  BY DEF Start
<1>2. setup \in Setups /\ OpFits(o) /\ o \in Underway
  BY StoreTypes, SetupOps DEF Underway
<1>3. found[c] = <<>>
  BY CallTypes DEF Start, CallFits
<1>4. CallFits("called", o, <<>>)
  <2>1. o.kind = "insert" => 0 < Len(o.items)
    BY <1>2 DEF OpFits, Operation
  <2>2. ToSet(<<>>) = {}
    BY DEF ToSet
  <2>3. QED
    BY <1>2, <2>1, <2>2 DEF CallFits
<1>5. /\ stage' = [stage EXCEPT ![c] = "called"] /\ setup' = setup /\ Grown
      /\ found' = [found EXCEPT ![c] = <<>>]
  BY <1>3, StoreTypes, SameStore DEF Start, GoesTo
<1>6. "called" \in Stage /\ <<>> \in Seq(DOMAIN store'.heap \union {Nothing})
  BY DEF Stage
<1>7. QED
  BY <1>1, <1>2, <1>4, <1>5, <1>6, StepTypes

\* A call at the end of its way.
LEMMA EndTypes ==
  ASSUME TInv, NEW c \in Call, Grown, setup' = setup, op' = op,
         NEW s \in {"done", "failed"}, stage' = [stage EXCEPT ![c] = s],
         NEW f, found' = [found EXCEPT ![c] = f], f \in Seq(DOMAIN store'.heap \union {Nothing})
  PROVE  TInv'
<1>1. op' = [op EXCEPT ![c] = op[c]]
  BY StoreTypes
<1>2. s \in Stage /\ op[c] \in Underway /\ CallFits(s, op[c], f)
  BY CallTypes DEF Stage, CallFits
<1>3. QED
  BY <1>1, <1>2, StepTypes

\* The same, when it found no more.
LEMMA EndTypesSame ==
  ASSUME TInv, NEW c \in Call, Grown, setup' = setup, op' = op, found' = found,
         NEW s \in {"done", "failed"}, stage' = [stage EXCEPT ![c] = s]
  PROVE  TInv'
<1>1. found' = [found EXCEPT ![c] = found[c]]
  BY StoreTypes
<1>2. found[c] \in Seq(DOMAIN store'.heap \union {Nothing})
  <2>1. DOMAIN store.heap \union {Nothing} \subseteq DOMAIN store'.heap \union {Nothing}
    BY DEF Grown
  <2>2. QED
    BY <2>1, CallTypes, SeqGrows
<1>3. QED
  BY <1>1, <1>2, EndTypes

\* The next object of a batch.
IsBuilt(c, h2) ==
  /\ IsOver(NextBuilt(c), h2, store)
  /\ Adds(h2, store.heap, <<NewObject(c, NextItem(c))>>)
  /\ Built(c) \in Seq(DOMAIN h2)
  /\ Len(Built(c)) = Len(found[c]) + 1
  /\ Built(c)[Len(found[c]) + 1] = Len(store.heap) + 1
  /\ \A i \in DOMAIN found[c] : Built(c)[i] = found[c][i]
  /\ DOMAIN Built(c) = DOMAIN found[c] \union {Len(found[c]) + 1}
  /\ found[c] \in Seq(DOMAIN store.heap)
  /\ NextItem(c) \in Item /\ NextItem(c) = op[c].items[Len(found[c]) + 1]
  /\ Len(found[c]) + 1 \in DOMAIN op[c].items

\* Addresses only, if Nothing is not among them.
LEMMA SeqWithout ==
  ASSUME NEW S, NEW s \in Seq(S \union {Nothing}), Nothing \notin ToSet(s)
  PROVE  s \in Seq(S)
<1>1. \A i \in DOMAIN s : s[i] \in S
  BY DEF ToSet
<1>2. QED
  BY <1>1

LEMMA NewObjectType ==
  ASSUME NEW c \in Call, NEW item \in Item
  PROVE  NewObject(c, item) \in Object
BY DEF NewObject, Object, Item

LEMMA BuiltIs ==
  ASSUME TInv, NEW c \in Call, Inserting(c)
  PROVE  \E h2 : IsBuilt(c, h2)
<1> DEFINE h == store.heap
           f == found[c]
           n == Len(f)
           o == NewObject(c, NextItem(c))
           h2 == h \o <<o>>
           a == Len(h) + 1
<1>1. /\ h \in Seq(Object) /\ store \in Store(h)
      /\ f \in Seq(DOMAIN h \union {Nothing}) /\ op[c] \in Operation
      /\ n < Len(op[c].items) /\ Nothing \notin ToSet(f)
  BY StoreTypes, CallTypes DEF Inserting, CallFits
<1>2. f \in Seq(DOMAIN h)
  <2> HIDE DEF f, h
  <2>1. QED
    BY <1>1, SeqWithout
<1>3. n + 1 \in DOMAIN op[c].items /\ NextItem(c) \in Item
  <2>1. op[c].items \in Seq(Item)
    BY <1>1 DEF Operation
  <2>2. n \in Nat
    BY <1>2
  <2>3. n + 1 \in DOMAIN op[c].items
    BY <1>1, <2>1, <2>2
  <2>4. QED
    BY <2>1, <2>3 DEF NextItem
<1>4. o \in Object /\ <<o>> \in Seq(Object)
  BY <1>3, NewObjectType
<1>5. IsOver(NextBuilt(c), h2, store) /\ Adds(h2, h, <<o>>)
  <2> HIDE DEF o, h
  <2>1. IsOver(Allocate(store, <<o>>), h2, store) /\ Adds(h2, h, <<o>>)
    BY <1>1, <1>4, AllocateType
  <2>2. QED
    BY <2>1 DEF NextBuilt, o
<1>6. DOMAIN h2 = DOMAIN h \union {a} /\ a \notin DOMAIN h
  <2>1. a = Len(h) + 1
    OBVIOUS
  <2> HIDE DEF a, h, o, h2
  <2>2. QED
    BY <1>5, <2>1, AddsOne
<1>7. /\ Append(f, a) \in Seq(DOMAIN h2) /\ Len(Append(f, a)) = n + 1
      /\ Append(f, a)[n + 1] = a /\ \A i \in DOMAIN f : Append(f, a)[i] = f[i]
      /\ DOMAIN Append(f, a) = DOMAIN f \union {n + 1}
  <2> DEFINE D == DOMAIN h2
  <2>1. DOMAIN h \subseteq D /\ a \in D
    BY <1>6
  <2> HIDE DEF D, f, a
  <2>2. f \in Seq(D)
    BY <1>2, <2>1, SeqGrows
  <2>3. QED
    BY <2>1, <2>2 DEF D
<1>8. Built(c) = Append(f, a)
  BY DEF Built
<1> HIDE DEF h, o, h2
<1>9. IsBuilt(c, h2)
  BY <1>2, <1>3, <1>5, <1>7, <1>8 DEF IsBuilt, NextItem, h, o
<1>10. QED
  BY <1>9

LEMMA InsertRefusedTypes ==
  ASSUME TInv, NEW c \in Call, InsertRefused(c)
  PROVE  TInv'
<1>1. /\ store' = store /\ stage' = [stage EXCEPT ![c] = "failed"]
      /\ setup' = setup /\ op' = op /\ found' = found
  BY DEF InsertRefused, Fails, GoesTo
<1>2. QED
  BY <1>1, SameStore, EndTypesSame

LEMMA InsertChecksTypes ==
  ASSUME TInv, NEW c \in Call, InsertChecks(c)
  PROVE  TInv'
<1>1. /\ store' = NextBuilt(c) /\ found' = [found EXCEPT ![c] = Built(c)]
      /\ setup' = setup /\ op' = op /\ stage' = stage
      /\ Inserting(c) /\ ~LastItem(c)
  BY DEF InsertChecks, Finds
<1>2. PICK h2 : IsBuilt(c, h2)
  BY <1>1, BuiltIs
<1>3. Grown /\ store'.heap = h2
  BY <1>1, <1>2 DEF Grown, IsBuilt, IsOver, Adds
<1>4. stage[c] = "called" /\ op[c].kind = "insert" /\ CallFits(stage[c], op[c], found[c])
      /\ op[c] \in Operation
  BY <1>1, CallTypes DEF Inserting
<1>5. CallFits(stage[c], op[c], Built(c))
  <2>1. Len(Built(c)) < Len(op[c].items)
    <3>1. Len(found[c]) + 1 # Len(op[c].items)
      BY <1>1 DEF LastItem
    <3>2. Len(found[c]) \in Nat /\ Len(op[c].items) \in Nat /\ Len(found[c]) < Len(op[c].items)
      BY <1>2, <1>4 DEF IsBuilt, CallFits, Operation
    <3>3. QED
      BY <1>2, <3>1, <3>2 DEF IsBuilt
  <2>2. Nothing \notin ToSet(Built(c))
    <3>1. Nothing \notin DOMAIN h2
      BY <1>3, HeapDomain DEF Grown
    <3>2. ToSet(Built(c)) \subseteq DOMAIN h2
      BY <1>2 DEF IsBuilt, ToSet
    <3>3. QED
      BY <3>1, <3>2
  <2>3. QED
    BY <1>4, <2>1, <2>2 DEF CallFits
<1>6. Built(c) \in Seq(DOMAIN store'.heap \union {Nothing})
  BY <1>2, <1>3, SeqGrows DEF IsBuilt
<1>7. /\ stage' = [stage EXCEPT ![c] = stage[c]] /\ op' = [op EXCEPT ![c] = op[c]]
      /\ stage[c] \in Stage /\ op[c] \in Underway
  BY <1>1, StoreTypes, CallTypes
<1>8. QED
  BY <1>1, <1>3, <1>5, <1>6, <1>7, StepTypes

LEMMA InsertLandsTypes ==
  ASSUME TInv, NEW c \in Call, InsertLands(c)
  PROVE  TInv'
<1> DEFINE st == NextBuilt(c)
           odd == {i \in DOMAIN Built(c) : Refused(st.heap, Built(c)[i])}
           first == {Built(c)[i] : i \in {i \in DOMAIN Built(c) : \A j \in odd : i <= j}}
           added == IF odd = {} THEN Built(c) ELSE Only(Built(c), first)
           ix == IndexDocs(st.heap, st.index, added)
           indexed == [st EXCEPT !.index = ix]
<1>1. /\ \/ store' = Capped(Push(indexed, Built(c))) /\ stage' = [stage EXCEPT ![c] = "done"]
         \/ store' = indexed /\ stage' = [stage EXCEPT ![c] = "failed"]
      /\ found' = [found EXCEPT ![c] = Built(c)]
      /\ setup' = setup /\ op' = op /\ Inserting(c)
  BY DEF InsertLands, Finds, Applies, Fails, GoesTo
<1>2. PICK h2 : IsBuilt(c, h2)
  BY <1>1, BuiltIs
<1>3. /\ st \in Store(h2) /\ st.heap = h2 /\ h2 \in Seq(Object) /\ Built(c) \in Seq(DOMAIN h2)
      /\ DOMAIN store.heap \subseteq DOMAIN h2
  BY <1>2 DEF IsBuilt, IsOver, Adds
<1>4. added \in Seq(DOMAIN h2)
  <2> HIDE DEF odd, first
  <2>1. Only(Built(c), first) \in Seq(DOMAIN h2)
    BY <1>3, OnlyIs
  <2>2. QED
    BY <1>3, <2>1
<1>5. ix \in Index(h2)
  <2>1. st.index \in Index(h2)
    BY <1>3 DEF Store
  <2> HIDE DEF st, added
  <2>2. QED
    BY <1>3, <1>4, <2>1, IndexDocsType
<1> HIDE DEF st, ix
<1>6. indexed \in Store(h2)
  BY <1>3, <1>5, IndexType DEF IsIndexed
<1> HIDE DEF indexed
<1>7. Push(indexed, Built(c)) \in Store(h2)
  BY <1>3, <1>6, PushType DEF IsPush
<1>8. Capped(Push(indexed, Built(c))) \in Store(h2)
  BY <1>3, <1>7, CappedIs, StoreTypes
<1>9. store' \in Store(h2)
  BY <1>1, <1>6, <1>8
<1>10. Grown /\ store'.heap = h2
  <2>1. store'.heap = h2
    BY <1>9 DEF Store
  <2>2. QED
    BY <1>3, <1>9, <2>1 DEF Grown
<1>11. Built(c) \in Seq(DOMAIN store'.heap \union {Nothing})
  BY <1>3, <1>10, SeqGrows
<1>12. QED
  BY <1>1, <1>10, <1>11, EndTypes

LEMMA IfNotExistsTypes ==
  ASSUME TInv, NEW c \in Call, InsertIfNotExists(c)
  PROVE  TInv'
<1>1. /\ stage[c] = "called" /\ op[c].kind = "ifNotExists"
      /\ setup' = setup /\ store' = store /\ found' = found
  BY DEF InsertIfNotExists
<1>2. Grown /\ found' = [found EXCEPT ![c] = found[c]]
  BY <1>1, SameStore, StoreTypes
<1>3. CASE stage' = [stage EXCEPT ![c] = "done"] /\ op' = op
  BY <1>1, <1>2, <1>3, EndTypesSame
<1>4. CASE op' = [op EXCEPT ![c].kind = "insert"] /\ stage' = stage
  <2> DEFINE o == [op[c] EXCEPT !.kind = "insert"]
  <2>1. /\ o \in Underway /\ OpFits(o) /\ o.kind = "insert" /\ o.items # <<>>
    BY <1>1, Becomes DEF Kind
  <2>2. op' = [op EXCEPT ![c] = o]
    BY <1>4
  <2> HIDE DEF o
  <2>3. found[c] = <<>>
    BY <1>1, CallTypes DEF CallFits
  <2>4. CallFits("called", o, <<>>)
    <3>1. 0 < Len(o.items)
      BY <2>1 DEF OpFits, Operation
    <3>2. ToSet(<<>>) = {}
      BY DEF ToSet
    <3>3. QED
      BY <2>1, <3>1, <3>2 DEF CallFits
  <2>5. stage' = [stage EXCEPT ![c] = "called"] /\ "called" \in Stage
    BY <1>1, <1>4, StoreTypes DEF Stage
  <2>6. <<>> \in Seq(DOMAIN store'.heap \union {Nothing}) /\ found' = [found EXCEPT ![c] = <<>>]
    BY <1>2, <2>3
  <2>7. QED
    BY <1>1, <1>2, <2>1, <2>2, <2>4, <2>5, <2>6, StepTypes
<1>5. QED
  BY <1>3, <1>4 DEF InsertIfNotExists, GoesTo

LEMMA UpsertTypes ==
  ASSUME TInv, NEW c \in Call, Upsert(c)
  PROVE  TInv'
<1> DEFINE k == IF FindRaw(store, op[c].filter, FALSE) # <<>> THEN "update" ELSE "insert"
           o == [op[c] EXCEPT !.kind = k]
<1>1. /\ stage[c] = "called" /\ op[c].kind = "upsert"
      /\ setup' = setup /\ store' = store /\ stage' = stage /\ found' = found
      /\ op' = [op EXCEPT ![c] = o]
  BY DEF Upsert
<1>2. k \in {"insert", "update"} /\ k \in Kind
  BY DEF Kind
<1> HIDE DEF k
<1>3. /\ o \in Underway /\ OpFits(o) /\ o.kind = k /\ o.items # <<>>
  BY <1>1, <1>2, Becomes
<1> HIDE DEF o
<1>4. found[c] = <<>>
  BY <1>1, CallTypes DEF CallFits
<1>5. CallFits("called", o, <<>>)
  <2>1. 0 < Len(o.items)
    BY <1>3 DEF OpFits, Operation
  <2>2. ToSet(<<>>) = {}
    BY DEF ToSet
  <2>3. QED
    BY <1>3, <2>1, <2>2 DEF CallFits
<1>6. /\ stage' = [stage EXCEPT ![c] = stage[c]] /\ found' = [found EXCEPT ![c] = found[c]]
      /\ "called" \in Stage /\ Grown
  <2>1. stage' = stage /\ found' = found /\ store' = store
    BY <1>1
  <2>2. QED
    BY <2>1, StoreTypes, SameStore DEF Stage
<1>7. /\ stage' = [stage EXCEPT ![c] = "called"] /\ found' = [found EXCEPT ![c] = <<>>]
      /\ <<>> \in Seq(DOMAIN store'.heap \union {Nothing})
  <2>1. stage[c] = "called"
    BY <1>1
  <2>2. stage' = [stage EXCEPT ![c] = "called"]
    BY <1>6, <2>1, Zenon
  <2>3. found' = [found EXCEPT ![c] = <<>>]
    BY <1>4, <1>6, Zenon
  <2>4. QED
    BY <2>2, <2>3
<1>8. QED
  BY <1>1, <1>3, <1>5, <1>6, <1>7, StepTypes

\* What a call has found when it enters.
LEMMA FoundIs ==
  ASSUME TInv, NEW c \in Call, Find(c)
  PROVE  \E f \in Seq(DOMAIN store.heap) :
           /\ found' = [found EXCEPT ![c] = f]
           /\ stage' = [stage EXCEPT ![c] = IF f = <<>> THEN "done" ELSE "entered"]
           /\ ~op[c].many => Len(f) <= 1
           /\ \A soft : Sound(soft, store) => ToSet(f) \subseteq Docs \union Listed(store)
<1> DEFINE o == op[c]
           h == store.heap
           all == IF o.many THEN FindAllRaw(store, o.filter, o.kind = "restore")
                  ELSE FindRaw(store, o.filter, o.kind = "restore")
           keep == {a \in DOMAIN store.heap : o.kind = "restore" => store.heap[a].deleted}
           f == Only(all, keep)
<1>1. h \in Seq(Object) /\ store \in Store(h) /\ o.filter \in Filter
  BY StoreTypes, CallTypes DEF Operation
<1>2. /\ all \in Seq(DOMAIN h)
      /\ \A soft : Sound(soft, store) => ToSet(all) \subseteq Docs \union Listed(store)
      /\ ~o.many => Len(all) <= 1
  <2> HIDE DEF h, o
  <2>1. CASE o.many
    BY <1>1, <2>1, FindAllIs DEF Docs
  <2>2. CASE ~o.many
    BY <1>1, <2>2, FindIs DEF Docs
  <2>3. QED
    BY <2>1, <2>2
<1>3. /\ found' = [found EXCEPT ![c] = f]
      /\ stage' = [stage EXCEPT ![c] = IF f = <<>> THEN "done" ELSE "entered"]
  BY DEF Find, Finds, GoesTo
<1> HIDE DEF all, keep, h
<1>4. f \in Seq(DOMAIN h) /\ ToSet(f) \subseteq ToSet(all) /\ Len(f) <= Len(all)
  BY <1>2, OnlyIs
<1>5. ~o.many => Len(f) <= 1
  <2> HIDE DEF f, o
  <2>1. Len(f) \in Nat /\ Len(all) \in Nat
    BY <1>2, <1>4
  <2>2. QED
    BY <1>2, <1>4, <2>1
<1> HIDE DEF f
<1>6. \A soft : Sound(soft, store) => ToSet(f) \subseteq Docs \union Listed(store)
  BY <1>2, <1>4
<1>7. QED
  BY <1>3, <1>4, <1>5, <1>6 DEF h

LEMMA FindTypes ==
  ASSUME TInv, NEW c \in Call, Find(c)
  PROVE  TInv'
<1>1. PICK f \in Seq(DOMAIN store.heap) :
           /\ found' = [found EXCEPT ![c] = f]
           /\ stage' = [stage EXCEPT ![c] = IF f = <<>> THEN "done" ELSE "entered"]
           /\ ~op[c].many => Len(f) <= 1
  BY FoundIs
<1>2. /\ setup' = setup /\ store' = store /\ op' = op /\ stage[c] = "called"
      /\ op[c].kind = "update" \/ (op[c].kind \in {"delete", "restore"} /\ setup.soft)
  BY DEF Find
<1>3. Grown /\ op' = [op EXCEPT ![c] = op[c]] /\ op[c] \in Underway /\ OpFits(op[c])
  BY <1>2, SameStore, StoreTypes, CallTypes DEF CallFits
<1> DEFINE s == IF f = <<>> THEN "done" ELSE "entered"
<1>4. s \in Stage
  BY DEF Stage
<1>5. Nothing \notin ToSet(f) /\ f \in Seq(DOMAIN store'.heap \union {Nothing})
  <2>1. Nothing \notin DOMAIN store.heap
    BY HeapDomain, StoreTypes
  <2>2. ToSet(f) \subseteq DOMAIN store.heap
    BY DEF ToSet
  <2>3. QED
    BY <1>2, <2>1, <2>2, SeqGrows
<1>6. CallFits(s, op[c], f)
  BY <1>1, <1>2, <1>3, <1>5 DEF CallFits
<1> HIDE DEF s
<1>7. stage' = [stage EXCEPT ![c] = s]
  BY <1>1 DEF s
<1>8. QED
  BY <1>1, <1>2, <1>3, <1>4, <1>5, <1>6, <1>7, StepTypes

\* applyUpdate() keeps the _id.
LEMMA UpdatedIs ==
  ASSUME NEW c \in Call, op[c] \in Operation, NEW o \in Object
  PROVE  /\ Updated(c, o).key \in Key \union {Nothing} => Updated(c, o) \in Object
         /\ Updated(c, o).id = o.id /\ Updated(c, o).from = o.from
         /\ Updated(c, o).by = o.by \union {c}
         /\ Updated(c, o).odd = (o.odd \/ op[c].odd)
         /\ op[c].set # Nothing => Updated(c, o).key = op[c].set
         /\ op[c].set = Nothing /\ op[c].inc = 0 => Updated(c, o).key = o.key
<1>1. op[c].odd \in BOOLEAN /\ op[c].set \in Key \union {Nothing} /\ op[c].inc \in Nat
  BY DEF Operation
<1>2. /\ o.id \in Id /\ o.key \in Key \union {Nothing} /\ o.odd \in BOOLEAN /\ o.ttl \in BOOLEAN
      /\ o.deleted \in BOOLEAN /\ o.from \in SUBSET Call /\ o.by \in SUBSET Call
  BY DEF Object
<1> DEFINE k == IF op[c].set # Nothing THEN op[c].set
                ELSE IF o.key = Nothing THEN Nothing ELSE o.key + op[c].inc
           u == [o EXCEPT !.key = k, !.odd = @ \/ op[c].odd, !.by = @ \union {c}]
<1>3. Updated(c, o) = u
  BY DEF Updated
<1>4. /\ op[c].set # Nothing => k = op[c].set
      /\ op[c].set = Nothing /\ op[c].inc = 0 => k = o.key
  BY <1>1, <1>2, DocumentsAssumption DEF Key, Nothing
<1> HIDE DEF k
<1>5. u = [id |-> o.id, key |-> k, odd |-> o.odd \/ op[c].odd, ttl |-> o.ttl,
           deleted |-> o.deleted, from |-> o.from, by |-> o.by \union {c}]
  <2> DEFINE odd == o.odd \/ op[c].odd
  <2>1. o = [id |-> o.id, key |-> o.key, odd |-> o.odd, ttl |-> o.ttl, deleted |-> o.deleted,
             from |-> o.from, by |-> o.by]
    BY DEF Object
  <2>2. u = [o EXCEPT !.key = k, !.odd = odd, !.by = o.by \union {c}]
    OBVIOUS
  <2> HIDE DEF u, odd
  <2>3. u = [id |-> o.id, key |-> k, odd |-> odd, ttl |-> o.ttl,
             deleted |-> o.deleted, from |-> o.from, by |-> o.by \union {c}]
    BY <2>1, <2>2
  <2>4. QED
    BY <2>3 DEF odd
<1>6. /\ u.key = k /\ u.id = o.id /\ u.from = o.from /\ u.by = o.by \union {c}
      /\ u.odd = (o.odd \/ op[c].odd)
      /\ k \in Key \union {Nothing} => u \in Object
  BY <1>1, <1>2, <1>5 DEF Object
<1> HIDE DEF u
<1>7. QED
  BY <1>3, <1>4, <1>6

\* The store with the copies that updateOne() and updateMany() have changed.
IsUpdating(c, objects, st, new) ==
  /\ st.heap \in Seq(Object) /\ IsOver(st, st.heap, store)
  /\ Adds(st.heap, store.heap, objects)
  /\ found[c] \in Seq(DOMAIN store.heap)
  /\ DOMAIN objects = DOMAIN found[c]
  /\ new \in Seq(DOMAIN st.heap) /\ Len(new) = Len(found[c])
  /\ \A i \in DOMAIN found[c] :
       /\ new[i] = Len(store.heap) + i
       /\ objects[i] = Updated(c, store.heap[found[c][i]])
       /\ st.heap[new[i]] = objects[i]

LEMMA UpdatingIs ==
  ASSUME TInv, NEW c \in Call, UpdateLands(c)
  PROVE  LET old == found[c]
             objects == [i \in DOMAIN old |-> Updated(c, store.heap[old[i]])]
         IN  IsUpdating(c, objects, Allocate(store, objects), New(store, Len(old)))
<1> DEFINE old == found[c]
           h == store.heap
           objects == [i \in DOMAIN old |-> Updated(c, h[old[i]])]
           st == Allocate(store, objects)
           new == New(store, Len(old))
<1>1. /\ stage[c] = "entered" /\ op[c].kind = "update"
      /\ \A a \in ToSet(new) : st.heap[a].key \in Key \union {Nothing}
  BY DEF UpdateLands
<1>2. h \in Seq(Object) /\ store \in Store(h) /\ op[c] \in Operation
      /\ old \in Seq(DOMAIN h \union {Nothing}) /\ Nothing \notin ToSet(old)
  BY <1>1, StoreTypes, CallTypes DEF CallFits
<1>3. old \in Seq(DOMAIN h)
  <2> HIDE DEF old, h
  <2>1. QED
    BY <1>2, SeqWithout
<1>4. \A i \in DOMAIN old : h[old[i]] \in Object
  BY <1>2, <1>3
<1>5. st.heap = h \o objects
  BY <1>2 DEF Allocate, Store
<1>6. DOMAIN objects = 1 .. Len(old) /\ Len(old) \in Nat /\ Len(h) \in Nat /\ DOMAIN old = 1 .. Len(old)
  BY <1>2, <1>3
<1>7. /\ \A i \in 1 .. Len(old) : new[i] = Len(h) + i
      /\ DOMAIN new = 1 .. Len(old) /\ new \in Seq(Nat) /\ Len(new) = Len(old)
  <2>1. new = [i \in 1 .. Len(old) |-> Len(h) + i]
    BY DEF New
  <2> HIDE DEF new, old, h
  <2>2. QED
    BY <1>6, <2>1
<1>8. \A i \in DOMAIN old : objects[i] = Updated(c, h[old[i]])
  OBVIOUS
<1> DEFINE T == Object \union {Updated(c, h[old[i]]) : i \in DOMAIN old}
<1>9. objects \in Seq(T) /\ h \in Seq(T) /\ Len(objects) = Len(old)
  <2>1. objects \in [1 .. Len(old) -> T]
    BY <1>6
  <2>2. Object \subseteq T
    OBVIOUS
  <2> HIDE DEF T, objects, old, h
  <2>3. objects \in Seq(T) /\ Len(objects) = Len(old)
    BY <1>6, <2>1
  <2>4. h \in Seq(T)
    BY <1>2, <2>2, SeqGrows
  <2>5. QED
    BY <2>3, <2>4
<1>10. \A i \in DOMAIN old : (h \o objects)[Len(h) + i] = objects[i]
  <2> HIDE DEF T, objects, old, h
  <2>1. QED
    BY <1>6, <1>9
<1>11. \A i \in DOMAIN old : objects[i] \in Object
  <2> SUFFICES ASSUME NEW i \in DOMAIN old PROVE objects[i] \in Object
    OBVIOUS
  <2>1. new[i] \in ToSet(new) /\ new[i] = Len(h) + i
    BY <1>6, <1>7 DEF ToSet
  <2>2. objects[i].key \in Key \union {Nothing}
    <3>1. st.heap[new[i]].key \in Key \union {Nothing}
      BY <1>1, <2>1
    <3> HIDE DEF st, objects, new, old, h
    <3>2. QED
      BY <1>5, <1>10, <2>1, <3>1
  <2>3. h[old[i]] \in Object /\ objects[i] = Updated(c, h[old[i]])
    BY <1>4, <1>8
  <2> HIDE DEF objects, old, h
  <2>4. QED
    BY <1>2, <2>2, <2>3, UpdatedIs
<1> HIDE DEF T, objects, old, new
<1>12. objects \in Seq(Object)
  BY <1>6, <1>9, <1>11
<1>13. IsOver(st, h \o objects, store) /\ Adds(h \o objects, h, objects)
  BY <1>2, <1>12, AllocateType DEF h
<1>14. st.heap \in Seq(Object) /\ IsOver(st, st.heap, store) /\ Adds(st.heap, h, objects)
  BY <1>5, <1>13 DEF Adds
<1> HIDE DEF st
<1>15. \A i \in DOMAIN old : new[i] \in DOMAIN st.heap /\ st.heap[new[i]] = objects[i]
  <2> SUFFICES ASSUME NEW i \in DOMAIN old PROVE new[i] \in DOMAIN st.heap /\ st.heap[new[i]] = objects[i]
    OBVIOUS
  <2> HIDE DEF h
  <2> DEFINE a == Len(h) + i
  <2>1. i \in DOMAIN objects /\ new[i] = a
    BY <1>6, <1>7
  <2>2. a \in DOMAIN st.heap /\ st.heap[a] = objects[i]
    BY <1>14, <2>1 DEF Adds
  <2> HIDE DEF a
  <2>3. QED
    BY <2>1, <2>2, Zenon
<1>16. new \in Seq(DOMAIN st.heap)
  <2> DEFINE D == DOMAIN st.heap
  <2>1. \A i \in 1 .. Len(old) : new[i] \in D
    BY <1>6, <1>15
  <2> HIDE DEF D
  <2>2. new \in Seq(D)
    BY <1>6, <1>7, <2>1
  <2>3. QED
    BY <2>2 DEF D
<1>17. IsUpdating(c, objects, st, new)
  BY <1>3, <1>6, <1>7, <1>8, <1>14, <1>15, <1>16 DEF IsUpdating, old, h
<1>18. QED
  BY <1>17 DEF st, objects, new, old, h

LEMMA UpdateLandsTypes ==
  ASSUME TInv, NEW c \in Call, UpdateLands(c)
  PROVE  TInv'
<1> DEFINE old == found[c]
           objects == [i \in DOMAIN old |-> Updated(c, store.heap[old[i]])]
           st == Allocate(store, objects)
           new == New(store, Len(old))
           result == CommitAll(st, old, new)
<1>1. /\ setup' = setup /\ op' = op /\ found' = found
      /\ \/ store' = store /\ stage' = [stage EXCEPT ![c] = "failed"]
         \/ store' = result.st /\ stage' = [stage EXCEPT ![c] = "failed"]
         \/ store' = result.st /\ stage' = [stage EXCEPT ![c] = "done"]
  BY DEF UpdateLands, Fails, Applies, GoesTo
<1>2. IsUpdating(c, objects, st, new)
  BY UpdatingIs
<1> HIDE DEF objects, st, new
<1>3. /\ st.heap \in Seq(Object) /\ st \in Store(st.heap) /\ DOMAIN store.heap \subseteq DOMAIN st.heap
      /\ old \in Seq(DOMAIN store.heap) /\ new \in Seq(DOMAIN st.heap) /\ Len(new) = Len(old)
  BY <1>2 DEF IsUpdating, IsOver, Adds
<1> HIDE DEF old
<1>4. old \in Seq(DOMAIN st.heap)
  BY <1>3, SeqGrows
<1>5. PICK f : IsCommit(f, st.heap, st, old, new)
  BY <1>3, <1>4, CommitLoop
<1>6. result.st \in Store(st.heap)
  <2>1. Len(old) \in 0 .. Len(old)
    BY <1>3
  <2>2. result = f[Len(old)] /\ f[Len(old)] \in Result(st.heap)
    BY <1>5, <2>1 DEF IsCommit
  <2>3. QED
    BY <2>2 DEF Result
<1> HIDE DEF result
<1>7. Grown
  <2>1. CASE store' = store
    BY <2>1, SameStore
  <2>2. CASE store' = result.st
    <3>1. store' \in Store(st.heap)
      BY <1>6, <2>2
    <3>2. store'.heap = st.heap
      BY <3>1 DEF Store
    <3>3. QED
      BY <1>3, <3>1, <3>2 DEF Grown
  <2>3. QED
    BY <1>1, <2>1, <2>2
<1>8. QED
  BY <1>1, <1>7, EndTypesSame

\* A soft delete and restore() change objects in place.
IsSet(c, st) ==
  /\ st.heap \in Seq(Object) /\ st \in Store(st.heap)
  /\ DOMAIN st.heap = DOMAIN store.heap
  /\ HeapGrows(store.heap, st.heap)
  /\ \A a \in DOMAIN store.heap :
       st.heap[a].by = store.heap[a].by \union (IF a \in ToSet(found[c]) THEN {c} ELSE {})
  /\ st.data = store.data /\ st.index = store.index
  /\ st.byId = SetInIndex(store.heap, store.byId, found[c])
  /\ found[c] \in Seq(DOMAIN store.heap)
  /\ setup.soft

LEMMA SetDeletedIs ==
  ASSUME TInv, NEW c \in Call, stage[c] = "entered", op[c].kind \in {"delete", "restore"},
         NEW flag \in BOOLEAN
  PROVE  IsSet(c, SetDeleted(c, flag))
<1> DEFINE h == store.heap
           f == found[c]
           h2 == [a \in DOMAIN h |-> IF a \in ToSet(f)
                                     THEN [h[a] EXCEPT !.deleted = flag, !.by = @ \union {c}]
                                     ELSE h[a]]
           ids == SetInIndex(h, store.byId, f)
           st == [store EXCEPT !.heap = h2, !.byId = ids]
<1>1. h \in Seq(Object) /\ store \in Store(h) /\ setup.soft
      /\ f \in Seq(DOMAIN h \union {Nothing}) /\ Nothing \notin ToSet(f)
  BY StoreTypes, CallTypes DEF CallFits
<1>2. SetDeleted(c, flag) = st
  BY Zenon DEF SetDeleted
<1>3. f \in Seq(DOMAIN h)
  <2> HIDE DEF f, h
  <2>1. QED
    BY <1>1, SeqWithout
<1>4. ASSUME NEW a \in DOMAIN h
      PROVE  /\ h2[a] \in Object /\ h2[a].id = h[a].id /\ h2[a].key = h[a].key
             /\ h2[a].odd = h[a].odd /\ h2[a].from = h[a].from
             /\ h2[a].by = h[a].by \union (IF a \in ToSet(f) THEN {c} ELSE {})
  <2>1. h[a] \in Object
    BY <1>1
  <2> DEFINE o == h[a]
  <2>2. h2[a] = IF a \in ToSet(f) THEN [o EXCEPT !.deleted = flag, !.by = @ \union {c}] ELSE o
    OBVIOUS
  <2> HIDE DEF o, h2, f
  <2>3. /\ [o EXCEPT !.deleted = flag, !.by = @ \union {c}] \in Object
        /\ [o EXCEPT !.deleted = flag, !.by = @ \union {c}].id = o.id
        /\ [o EXCEPT !.deleted = flag, !.by = @ \union {c}].key = o.key
        /\ [o EXCEPT !.deleted = flag, !.by = @ \union {c}].odd = o.odd
        /\ [o EXCEPT !.deleted = flag, !.by = @ \union {c}].from = o.from
        /\ [o EXCEPT !.deleted = flag, !.by = @ \union {c}].by = o.by \union {c}
    BY <2>1 DEF Object, o
  <2>4. CASE a \in ToSet(f)
    BY <2>2, <2>3, <2>4 DEF o
  <2>5. CASE a \notin ToSet(f)
    BY <2>1, <2>2, <2>5 DEF o
  <2>6. QED
    BY <2>4, <2>5
<1>5. DOMAIN h2 = DOMAIN h
  OBVIOUS
<1> HIDE DEF h2, f
<1>6. h2 \in Seq(Object)
  <2>1. Len(h) \in Nat /\ DOMAIN h = 1 .. Len(h)
    BY <1>1
  <2>2. h2 \in [1 .. Len(h) -> Object]
    <3>1. h2 = [a \in DOMAIN h |-> h2[a]]
      BY DEF h2
    <3>2. QED
      BY <1>4, <2>1, <3>1
  <2> HIDE DEF h
  <2>3. QED
    BY <2>1, <2>2
<1>7. HeapGrows(h, h2)
  BY <1>4, <1>5, <1>6 DEF HeapGrows
<1>8. ids \in [Id -> DOMAIN h \union {Nothing}]
  <2>1. store.byId \in [Id -> DOMAIN h \union {Nothing}]
    BY <1>1 DEF Store
  <2> HIDE DEF h
  <2>2. QED
    BY <1>1, <1>3, <2>1, SetInIndexType
<1> HIDE DEF ids
<1>9. st = [heap |-> h2, data |-> store.data, byId |-> ids, index |-> store.index]
  <2>1. store = [heap |-> store.heap, data |-> store.data, byId |-> store.byId, index |-> store.index]
    BY <1>1, StoreParts
  <2>2. st = [store EXCEPT !.heap = h2, !.byId = ids]
    OBVIOUS
  <2> HIDE DEF h, st
  <2>3. QED
    BY <2>1, <2>2
<1>10. /\ st.heap = h2 /\ st.data = store.data /\ st.byId = ids /\ st.index = store.index
       /\ st = [heap |-> st.heap, data |-> st.data, byId |-> st.byId, index |-> st.index]
  BY <1>9
<1>11. st \in Store(h2)
  <2>1. store.data \in Seq(DOMAIN h2) /\ store.index \in Index(h2)
        /\ ids \in [Id -> DOMAIN h2 \union {Nothing}]
    BY <1>1, <1>5, <1>8, StoreParts DEF Index
  <2> HIDE DEF st
  <2>2. QED
    BY <1>10, <2>1, StoreParts
<1> HIDE DEF st
<1>12. \A a \in DOMAIN h : h2[a].by = h[a].by \union (IF a \in ToSet(f) THEN {c} ELSE {})
  BY <1>4
<1>13. IsSet(c, st)
  BY <1>1, <1>3, <1>5, <1>6, <1>7, <1>10, <1>11, <1>12 DEF IsSet, ids, h, f
<1>14. QED
  BY <1>2, <1>13

LEMMA DeleteTypes ==
  ASSUME TInv, NEW c \in Call, SoftDelete(c) \/ RestoreDoc(c)
  PROVE  TInv'
<1>1. PICK flag \in BOOLEAN : store' = SetDeleted(c, flag)
  BY DEF SoftDelete, RestoreDoc, Applies
<1>2. /\ setup' = setup /\ op' = op /\ found' = found
      /\ stage' = [stage EXCEPT ![c] = "done"]
      /\ stage[c] = "entered" /\ op[c].kind \in {"delete", "restore"}
  BY DEF SoftDelete, RestoreDoc, Applies, GoesTo
<1>3. IsSet(c, store')
  BY <1>1, <1>2, SetDeletedIs
<1>4. Grown
  BY <1>3 DEF Grown, IsSet
<1>5. QED
  BY <1>2, <1>4, EndTypesSame

\* What a hard delete leaves: the store without documents, and deleteMany()
\* with an _id index built anew.
IsCleared(st, gone) ==
  \/ st = Without(store, gone)
  \/ IsRebuilt(st, store.heap, Without(store, gone),
               SetInIndex(store.heap, NoIds, Without(store, gone).data))

LEMMA HardDeleteIs ==
  ASSUME TInv, NEW c \in Call, HardDelete(c)
  PROVE  \E gone \in SUBSET Docs : IsCleared(store', gone)
<1> DEFINE h == store.heap
           matching == Only(store.data, {a \in Docs : Matches(store, a, op[c].filter)})
           first == IF matching = <<>> THEN {} ELSE {Head(matching)}
           rest == Without(store, ToSet(matching))
           ids == SetInIndex(rest.heap, NoIds, rest.data)
<1>1. store' = IF op[c].many THEN [rest EXCEPT !.byId = ids] ELSE Without(store, first)
  BY DEF HardDelete, Applies
<1>2. h \in Seq(Object) /\ store \in Store(h) /\ store.data \in Seq(DOMAIN h)
  BY StoreTypes, StoreParts
<1>3. matching \in Seq(DOMAIN h) /\ ToSet(matching) \subseteq Docs
  <2> DEFINE keep == {a \in Docs : Matches(store, a, op[c].filter)}
  <2> HIDE DEF keep, h
  <2>1. /\ Only(store.data, keep) \in Seq(DOMAIN h)
        /\ ToSet(Only(store.data, keep)) = ToSet(store.data) \intersect keep
    BY <1>2, OnlyIs
  <2>2. QED
    BY <2>1 DEF keep, Docs
<1> HIDE DEF matching
<1>4. first \in SUBSET Docs
  <2>1. CASE matching = <<>>
    BY <2>1
  <2>2. CASE matching # <<>>
    <3>1. Head(matching) = matching[1] /\ 1 \in DOMAIN matching
      BY <1>3, <2>2
    <3>2. QED
      BY <1>3, <2>2, <3>1 DEF ToSet
  <2>3. QED
    BY <2>1, <2>2
<1> HIDE DEF first
<1>5. IsWithout(rest, h, store, ToSet(matching))
  BY <1>2, WithoutType
<1> HIDE DEF rest
<1>6. rest \in Store(h) /\ rest.heap = h /\ rest.data \in Seq(DOMAIN h)
  BY <1>5, StoreParts DEF IsWithout
<1>7. ids \in [Id -> DOMAIN h \union {Nothing}]
  <2>1. NoIds \in [Id -> DOMAIN h \union {Nothing}]
    BY DEF NoIds
  <2> HIDE DEF h
  <2>2. QED
    BY <1>2, <1>6, <2>1, SetInIndexType
<1>8. CASE op[c].many
  <2> HIDE DEF ids, h
  <2>1. IsRebuilt([rest EXCEPT !.byId = ids], h, rest, ids)
    BY <1>6, <1>7, RebuiltType
  <2>2. IsRebuilt(store', h, rest, ids)
    BY <1>1, <1>8, <2>1
  <2>3. IsCleared(store', ToSet(matching))
    BY <1>6, <2>2 DEF IsCleared, rest, ids, h
  <2>4. QED
    BY <1>3, <2>3
<1>9. CASE ~op[c].many
  <2>1. IsCleared(store', first)
    BY <1>1, <1>9 DEF IsCleared
  <2>2. QED
    BY <1>4, <2>1
<1>10. QED
  BY <1>8, <1>9

\* The store is one of the same heap.
LEMMA ClearedType ==
  ASSUME TInv, NEW gone, NEW st, IsCleared(st, gone)
  PROVE  st \in Store(store.heap) /\ st.heap = store.heap
<1>1. store.heap \in Seq(Object) /\ store \in Store(store.heap)
  BY StoreTypes
<1>2. IsWithout(Without(store, gone), store.heap, store, gone)
  BY <1>1, WithoutType
<1>3. QED
  BY <1>2 DEF IsCleared, IsRebuilt, IsWithout

LEMMA HardDeleteTypes ==
  ASSUME TInv, NEW c \in Call, HardDelete(c)
  PROVE  TInv'
<1>1. PICK gone \in SUBSET Docs : IsCleared(store', gone)
  BY HardDeleteIs
<1>2. store' \in Store(store.heap) /\ store'.heap = store.heap
  BY <1>1, ClearedType
<1>3. Grown
  BY <1>2, StoreTypes DEF Grown
<1>4. /\ setup' = setup /\ op' = op /\ found' = found
      /\ stage' = [stage EXCEPT ![c] = "done"]
  BY DEF HardDelete, Applies, GoesTo
<1>5. QED
  BY <1>3, <1>4, EndTypesSame

LEMMA SweepTypes ==
  ASSUME TInv, Sweep
  PROVE  TInv'
<1>1. PICK gone : store' = Without(store, gone)
  BY DEF Sweep
<1>2. setup' = setup /\ stage' = stage /\ op' = op /\ found' = found
  BY DEF Sweep, calls
<1>3. store.heap \in Seq(Object) /\ store \in Store(store.heap)
  BY StoreTypes
<1>4. store' \in Store(store.heap) /\ store'.heap = store.heap
  <2>1. IsWithout(Without(store, gone), store.heap, store, gone)
    BY <1>3, WithoutType
  <2>2. QED
    BY <1>1, <2>1 DEF IsWithout
<1>5. TypeOK'
  BY <1>2, <1>4 DEF TInv, TypeOK, Underway
<1>6. CallsFit'
  BY <1>2 DEF TInv, CallsFit, CallFits, OpFits
<1>7. QED
  BY <1>5, <1>6 DEF TInv

\* What upsertMany() finds for an item.
IsPick(p, h, st) ==
  /\ p \in Seq(DOMAIN h \union {Nothing})
  /\ Len(p) = 1 /\ p # <<>>
  /\ \A soft : Sound(soft, st) =>
       ToSet(p) \subseteq ToSet(st.data) \union Listed(st) \union {Nothing}

LEMMA PickIs ==
  ASSUME NEW c \in Call, op[c] \in Operation, NEW h \in Seq(Object), NEW st \in Store(h),
         NEW item \in Item, op[c].filter.on # "id" => item.key # Nothing
  PROVE  IsPick(PickFor(c, st, item), h, st)
<1> DEFINE filter == ItemFilter(c, item)
           e == FindRaw(st, filter, FALSE)
           D == DOMAIN h
           X == D \union {Nothing}
<1>1. filter \in Filter
  <2>1. item.id \in Id /\ item.key \in Key \union {Nothing}
    BY DEF Item
  <2>2. QED
    BY <2>1 DEF ItemFilter, Filter
<1>2. /\ e \in Seq(D) /\ Len(e) <= 1
      /\ \A soft : Sound(soft, st) => ToSet(e) \subseteq ToSet(st.data) \union Listed(st)
  <2> HIDE DEF filter
  <2>1. QED
    BY <1>1, FindIs
<1>3. PickFor(c, st, item) = IF e = <<>> THEN <<Nothing>> ELSE e
  BY DEF PickFor
<1> HIDE DEF e, D
<1>4. CASE e = <<>>
  <2>1. PickFor(c, st, item) = <<Nothing>>
    BY <1>3, <1>4
  <2>2. /\ <<Nothing>> \in Seq(X) /\ Len(<<Nothing>>) = 1 /\ ToSet(<<Nothing>>) = {Nothing}
        /\ <<Nothing>> # <<>>
    BY DEF ToSet
  <2>3. QED
    BY <2>1, <2>2 DEF D, IsPick
<1>5. CASE e # <<>>
  <2>1. PickFor(c, st, item) = e
    BY <1>3, <1>5
  <2>2. Len(e) = 1
    <3> DEFINE n == Len(e)
    <3>1. e \in Seq(D) /\ n <= 1
      BY <1>2
    <3>2. n \in Nat /\ n # 0
      BY <1>5, <3>1, EmptySeq
    <3> HIDE DEF n
    <3>3. n = 1
      BY <3>1, <3>2
    <3>4. QED
      BY <3>3 DEF n
  <2>3. e \in Seq(X)
    BY <1>2, SeqGrows
  <2>4. QED
    BY <1>2, <1>5, <2>1, <2>2, <2>3 DEF D, IsPick
<1>6. QED
  BY <1>4, <1>5

LEMMA UpsertManyBeginsTypes ==
  ASSUME TInv, NEW c \in Call, UpsertManyBegins(c)
  PROVE  TInv'
<1> DEFINE item == Head(op[c].items)
           f == PickFor(c, store, item)
<1>1. /\ stage[c] = "called" /\ op[c].kind = "upsertMany"
      /\ found' = [found EXCEPT ![c] = f] /\ stage' = [stage EXCEPT ![c] = "entered"]
      /\ setup' = setup /\ store' = store /\ op' = op
  BY DEF UpsertManyBegins, Finds, GoesTo
<1>2. OpFits(op[c]) /\ op[c] \in Operation /\ op[c] \in Underway
  BY CallTypes DEF CallFits
<1>3. op[c].items \in Seq(Item) /\ op[c].items # <<>>
  BY <1>1, <1>2 DEF OpFits, Operation
<1>4. item = op[c].items[1] /\ 1 \in DOMAIN op[c].items /\ item \in Item /\ Len(op[c].items) \in Nat
      /\ 1 <= Len(op[c].items)
  BY <1>3
<1>5. op[c].filter.on # "id" => item.key # Nothing
  BY <1>1, <1>2, <1>4 DEF OpFits
<1> HIDE DEF item
<1>6. /\ f \in Seq(DOMAIN store.heap \union {Nothing}) /\ Len(f) = 1 /\ f # <<>>
  <2>1. IsPick(f, store.heap, store)
    BY <1>2, <1>4, <1>5, StoreTypes, PickIs
  <2>2. QED
    BY <2>1 DEF IsPick
<1>7. Grown /\ op' = [op EXCEPT ![c] = op[c]] /\ "entered" \in Stage
  BY <1>1, SameStore, StoreTypes DEF Stage
<1> HIDE DEF f
<1>9. CallFits("entered", op[c], f)
  BY <1>1, <1>2, <1>4, <1>6 DEF CallFits
<1>10. f \in Seq(DOMAIN store'.heap \union {Nothing})
  BY <1>1, <1>6
<1>11. QED
  BY <1>1, <1>2, <1>7, <1>9, <1>10, StepTypes

\* A store with one more object, at new.
IsNext(o, st, new) ==
  /\ st.heap \in Seq(Object) /\ IsOver(st, st.heap, store)
  /\ HeapGrows(store.heap, st.heap)
  /\ Adds(st.heap, store.heap, <<o>>)
  /\ DOMAIN st.heap = DOMAIN store.heap \union {new}
  /\ new \notin DOMAIN store.heap /\ new # Nothing
  /\ st.heap[new] = o

LEMMA NextIs ==
  ASSUME TInv, NEW o \in Object
  PROVE  IsNext(o, Allocate(store, <<o>>), Len(Allocate(store, <<o>>).heap))
<1> DEFINE h == store.heap
           h2 == h \o <<o>>
           st == Allocate(store, <<o>>)
           new == Len(h2)
<1>1. h \in Seq(Object) /\ store \in Store(h) /\ <<o>> \in Seq(Object)
  BY StoreTypes
<1>2. IsOver(st, h2, store) /\ Adds(h2, h, <<o>>)
  <2> HIDE DEF h
  <2>1. QED
    BY <1>1, AllocateType
<1>3. new = Len(h) + 1
  BY <1>1
<1>4. st.heap = h2
  BY <1>2 DEF IsOver
<1> HIDE DEF h, h2, st, new
<1>5. DOMAIN h2 = DOMAIN h \union {new} /\ new \notin DOMAIN h /\ h2[new] = o
  BY <1>2, <1>3, AddsOne
<1>6. HeapGrows(h, h2) /\ h2 \in Seq(Object)
  BY <1>2, AddsGrow DEF HeapGrows
<1>7. new # Nothing
  <2>1. new \in DOMAIN h2 /\ Nothing \notin DOMAIN h2
    BY <1>5, <1>6, HeapDomain
  <2>2. QED
    BY <2>1
<1>8. IsNext(o, st, new)
  BY <1>2, <1>4, <1>5, <1>6, <1>7 DEF IsNext, h
<1>9. Len(st.heap) = new
  BY <1>4 DEF new
<1>10. QED
  BY <1>8, <1>9 DEF st

LEMMA UpdatedToIs ==
  ASSUME NEW c \in Call, NEW o \in Object, NEW item \in Item
  PROVE  /\ UpdatedTo(c, o, item) \in Object
         /\ UpdatedTo(c, o, item).id = o.id /\ UpdatedTo(c, o, item).from = o.from
         /\ UpdatedTo(c, o, item).by = o.by \union {c}
         /\ UpdatedTo(c, o, item).odd = item.odd
<1>1. item.odd \in BOOLEAN /\ item.key \in Key \union {Nothing}
  BY DEF Item
<1>2. /\ o.id \in Id /\ o.key \in Key \union {Nothing} /\ o.odd \in BOOLEAN /\ o.ttl \in BOOLEAN
      /\ o.deleted \in BOOLEAN /\ o.from \in SUBSET Call /\ o.by \in SUBSET Call
  BY DEF Object
<1> DEFINE k == IF item.key = Nothing THEN o.key ELSE item.key
           u == [o EXCEPT !.key = k, !.odd = item.odd, !.by = o.by \union {c}]
<1>3. UpdatedTo(c, o, item) = u
  BY DEF UpdatedTo
<1>4. k \in Key \union {Nothing}
  BY <1>1, <1>2
<1> HIDE DEF k
<1>5. u = [o EXCEPT !.key = k, !.odd = item.odd, !.by = o.by \union {c}]
  OBVIOUS
<1>6. o = [id |-> o.id, key |-> o.key, odd |-> o.odd, ttl |-> o.ttl, deleted |-> o.deleted,
           from |-> o.from, by |-> o.by]
  BY DEF Object
<1> HIDE DEF u
<1>7. u = [id |-> o.id, key |-> k, odd |-> item.odd, ttl |-> o.ttl,
           deleted |-> o.deleted, from |-> o.from, by |-> o.by \union {c}]
  BY <1>5, <1>6
<1>8. /\ u \in Object /\ u.id = o.id /\ u.from = o.from /\ u.by = o.by \union {c}
      /\ u.odd = item.odd
  BY <1>1, <1>2, <1>4, <1>7 DEF Object
<1>9. QED
  BY <1>3, <1>8

\* The item of the batch that is written next, and what was found for it.
IsTurn(c, i, item, old) ==
  /\ i = Len(found[c]) /\ i \in DOMAIN found[c] /\ i \in 1 .. Len(op[c].items)
  /\ item = op[c].items[i] /\ item \in Item
  /\ old = found[c][i] /\ old \in DOMAIN store.heap \union {Nothing}
  /\ op[c].items \in Seq(Item) /\ op[c] \in Operation /\ op[c] \in Underway /\ OpFits(op[c])
  /\ found[c] \in Seq(DOMAIN store.heap \union {Nothing})

LEMMA TurnIs ==
  ASSUME TInv, NEW c \in Call, stage[c] = "entered", op[c].kind = "upsertMany"
  PROVE  IsTurn(c, Len(found[c]), op[c].items[Len(found[c])], found[c][Len(found[c])])
<1> DEFINE f == found[c]
           X == DOMAIN store.heap \union {Nothing}
           i == Len(f)
           items == op[c].items
<1>1. /\ f \in Seq(X) /\ f # <<>> /\ OpFits(op[c]) /\ op[c] \in Underway
      /\ Len(f) <= Len(items)
  BY CallTypes DEF CallFits
<1>2. items \in Seq(Item) /\ op[c] \in Operation
  BY <1>1 DEF OpFits, Operation
<1> HIDE DEF f, X, items
<1>3. i \in Nat /\ i # 0 /\ Len(items) \in Nat /\ DOMAIN f = 1 .. i
  BY <1>1, <1>2, EmptySeq
<1>4. i \in 1 .. Len(items) /\ i \in DOMAIN f
  BY <1>1, <1>3
<1>5. items[i] \in Item /\ f[i] \in X
  BY <1>1, <1>2, <1>4
<1>6. QED
  BY <1>1, <1>2, <1>4, <1>5 DEF IsTurn, f, X, items

Before(c) == {op[c].items[j].id : j \in {j \in 1 .. Len(found[c]) - 1 : found[c][j] = Nothing}}

\* What writing the item leaves, r, when something was found and when nothing was.
IsUpsertUpdate(c, item, old, st, new, r) ==
  /\ IsNext(UpdatedTo(c, store.heap[old], item), st, new)
  /\ r.st \in Store(r.st.heap) /\ r.st.heap \in {store.heap, st.heap}
  /\ \/ r.ok = FALSE /\ r.st = store
     \/ /\ CandidatesAreUnique(st.heap, st.index, <<old>>, <<new>>)
        /\ r = CommitUpdatedDoc(st, old, new)

LEMMA UpsertUpdateIs ==
  ASSUME TInv, NEW c \in Call, NEW item \in Item, NEW old \in DOMAIN store.heap
  PROVE  \E st, new : IsUpsertUpdate(c, item, old, st, new, UpsertUpdate(c, item, old))
<1> DEFINE o == UpdatedTo(c, store.heap[old], item)
           st == Allocate(store, <<o>>)
           new == Len(st.heap)
           r == UpsertUpdate(c, item, old)
<1>1. o \in Object
  <2>1. store.heap[old] \in Object
    BY StoreTypes
  <2>2. QED
    BY <2>1, UpdatedToIs
<1>2. r = IF CandidatesAreUnique(st.heap, st.index, <<old>>, <<new>>)
          THEN CommitUpdatedDoc(st, old, new) ELSE [st |-> store, ok |-> FALSE]
  BY DEF UpsertUpdate
<1>3. IsNext(o, st, new)
  <2> HIDE DEF o
  <2>1. QED
    BY <1>1, NextIs
<1> HIDE DEF o, st, new, r
<1>4. /\ st.heap \in Seq(Object) /\ st \in Store(st.heap) /\ new \in DOMAIN st.heap
      /\ old \in DOMAIN st.heap
  BY <1>3 DEF IsNext, IsOver
<1>5. CommitUpdatedDoc(st, old, new) \in Result(st.heap)
  BY <1>4, CommitType
<1>6. CASE CandidatesAreUnique(st.heap, st.index, <<old>>, <<new>>)
  <2>1. r = CommitUpdatedDoc(st, old, new)
    BY <1>2, <1>6
  <2>2. r.st \in Store(st.heap)
    BY <1>5, <2>1 DEF Result
  <2>3. r.st.heap = st.heap
    BY <2>2 DEF Store
  <2>4. QED
    BY <1>3, <1>6, <2>1, <2>2, <2>3 DEF IsUpsertUpdate, o, r
<1>7. CASE ~CandidatesAreUnique(st.heap, st.index, <<old>>, <<new>>)
  <2>1. r.st = store /\ r.ok = FALSE
    BY <1>2, <1>7
  <2>2. QED
    BY <1>3, <2>1, StoreTypes DEF IsUpsertUpdate, o, r
<1>8. QED
  BY <1>6, <1>7

IsUpsertInsert(c, item, st, new, r) ==
  /\ IsNext(NewObject(c, item), st, new)
  /\ r.st \in Store(r.st.heap) /\ r.st.heap \in {store.heap, st.heap}
  /\ \/ r.ok = FALSE /\ r.st = store
     \/ /\ store.byId[item.id] = Nothing /\ item.id \notin Before(c)
        /\ BatchIsUnique(st.heap, st.index, <<new>>)
        /\ r.st.heap = st.heap
        /\ \/ Refused(st.heap, new) /\ r.ok = FALSE
           \/ /\ ~Refused(st.heap, new) /\ r.ok = TRUE
              /\ r.st.data = st.data \o <<new>>
              /\ r.st.byId = SetInIndex(st.heap, st.byId, <<new>>)
              /\ r.st.index = IndexDocs(st.heap, st.index, <<new>>)

LEMMA UpsertInsertIs ==
  ASSUME TInv, NEW c \in Call, NEW item \in Item
  PROVE  \E st, new : IsUpsertInsert(c, item, st, new, UpsertInsert(c, item))
<1> DEFINE o == NewObject(c, item)
           st == Allocate(store, <<o>>)
           new == Len(st.heap)
           ix == IndexDocs(st.heap, st.index, <<new>>)
           indexed == [st EXCEPT !.index = ix]
           before == {op[c].items[j].id : j \in {j \in 1 .. Len(found[c]) - 1 : found[c][j] = Nothing}}
           bad == store.byId[item.id] # Nothing \/ item.id \in before
                    \/ ~BatchIsUnique(st.heap, st.index, <<new>>)
           r == UpsertInsert(c, item)
<1>1. IsNext(o, st, new)
  <2>1. o \in Object
    BY NewObjectType
  <2> HIDE DEF o
  <2>2. QED
    BY <2>1, NextIs
<1>2. r = IF bad THEN [st |-> store, ok |-> FALSE]
          ELSE IF Refused(st.heap, new) THEN [st |-> indexed, ok |-> FALSE]
          ELSE [st |-> Push(indexed, <<new>>), ok |-> TRUE]
  BY DEF UpsertInsert
<1>3. before = Before(c)
  BY DEF Before
<1> HIDE DEF o, st, new, before, r
<1>4. /\ st.heap \in Seq(Object) /\ st \in Store(st.heap) /\ new \in DOMAIN st.heap
      /\ <<new>> \in Seq(DOMAIN st.heap) /\ st.index \in Index(st.heap)
  <2>1. st.heap \in Seq(Object) /\ st \in Store(st.heap) /\ new \in DOMAIN st.heap
    BY <1>1 DEF IsNext, IsOver
  <2>2. st.index \in Index(st.heap)
    BY <2>1, StoreParts
  <2> DEFINE D == DOMAIN st.heap
  <2>3. new \in D
    BY <2>1
  <2> HIDE DEF D
  <2>4. <<new>> \in Seq(D)
    BY <2>3
  <2>5. QED
    BY <2>1, <2>2, <2>4 DEF D
<1>5. ix \in Index(st.heap)
  <2> DEFINE n == <<new>>
  <2>1. n \in Seq(DOMAIN st.heap)
    BY <1>4
  <2> HIDE DEF n
  <2>2. IndexDocs(st.heap, st.index, n) \in Index(st.heap)
    BY <1>4, <2>1, IndexDocsType
  <2>3. QED
    BY <2>2 DEF n
<1> DEFINE h2 == st.heap
           one == <<new>>
<1>6. IsIndexed(indexed, h2, st, ix)
  <2> HIDE DEF ix, h2
  <2>1. ix \in Index(h2) /\ st \in Store(h2)
    BY <1>4, <1>5 DEF h2
  <2>2. QED
    BY <2>1, IndexType
<1> HIDE DEF ix, indexed
<1>7. indexed \in Store(h2) /\ indexed.data = st.data /\ indexed.byId = st.byId /\ indexed.index = ix
      /\ indexed.heap = h2
  BY <1>6 DEF IsIndexed
<1>8. IsPush(Push(indexed, one), h2, indexed, one)
  <2>1. one \in Seq(DOMAIN h2) /\ h2 \in Seq(Object)
    BY <1>4
  <2> HIDE DEF one, h2
  <2>2. QED
    BY <1>7, <2>1, PushType
<1>9. CASE bad
  <2>1. r.st = store /\ r.ok = FALSE
    BY <1>2, <1>9
  <2>2. QED
    BY <1>1, <2>1, StoreTypes DEF IsUpsertInsert, o, r
<1>10. CASE ~bad /\ Refused(st.heap, new)
  <2>1. r.st = indexed /\ r.ok = FALSE
    BY <1>2, <1>10
  <2>2. r.st \in Store(r.st.heap) /\ r.st.heap = st.heap
    BY <1>7, <2>1
  <2>3. QED
    BY <1>1, <1>3, <1>10, <2>1, <2>2 DEF IsUpsertInsert, o, r
<1>11. CASE ~bad /\ ~Refused(st.heap, new)
  <2>1. r.st = Push(indexed, one) /\ r.ok = TRUE
    BY <1>2, <1>11
  <2>2. /\ r.st \in Store(r.st.heap) /\ r.st.heap = st.heap /\ r.st.data = st.data \o one
        /\ r.st.byId = SetInIndex(st.heap, st.byId, one)
        /\ r.st.index = IndexDocs(st.heap, st.index, one)
    BY <1>7, <1>8, <2>1 DEF IsPush, ix
  <2>3. QED
    BY <1>1, <1>3, <1>11, <2>1, <2>2 DEF IsUpsertInsert, o, r
<1>12. QED
  BY <1>9, <1>10, <1>11

\* What writing an item leaves is a store.
LEMMA WrittenType ==
  ASSUME TInv, NEW c \in Call, NEW i, NEW item, NEW old, IsTurn(c, i, item, old),
         NEW r, r = IF old = Nothing THEN UpsertInsert(c, item) ELSE UpsertUpdate(c, item, old)
  PROVE  /\ r.st \in Store(r.st.heap) /\ r.st.heap \in Seq(Object)
         /\ DOMAIN store.heap \subseteq DOMAIN r.st.heap
<1>1. item \in Item /\ old \in DOMAIN store.heap \union {Nothing}
  BY DEF IsTurn
<1>2. store.heap \in Seq(Object)
  BY StoreTypes
<1>3. CASE old = Nothing
  <2>1. r = UpsertInsert(c, item)
    BY <1>3
  <2>2. PICK st, new : IsUpsertInsert(c, item, st, new, r)
    BY <1>1, <2>1, UpsertInsertIs
  <2>3. QED
    BY <1>2, <2>2 DEF IsUpsertInsert, IsNext
<1>4. CASE old # Nothing
  <2>1. r = UpsertUpdate(c, item, old) /\ old \in DOMAIN store.heap
    BY <1>1, <1>4
  <2>2. PICK st, new : IsUpsertUpdate(c, item, old, st, new, r)
    BY <1>1, <2>1, UpsertUpdateIs
  <2>3. QED
    BY <1>2, <2>2 DEF IsUpsertUpdate, IsNext
<1>5. QED
  BY <1>3, <1>4

\* The three ends of a turn.
TurnFails(c, r) == ~r.ok /\ store' = r.st /\ stage' = [stage EXCEPT ![c] = "failed"] /\ found' = found

TurnContinues(c, r, i, p) ==
  /\ r.ok /\ i < Len(op[c].items)
  /\ store' = r.st /\ stage' = stage
  /\ p = PickFor(c, r.st, op[c].items[i + 1])
  /\ found' = [found EXCEPT ![c] = found[c] \o p]

TurnEnds(c, r, i) ==
  /\ r.ok /\ i = Len(op[c].items)
  /\ store' = (IF Nothing \in ToSet(found[c]) THEN Capped(r.st) ELSE r.st)
  /\ stage' = [stage EXCEPT ![c] = "done"] /\ found' = found

\* A turn of upsertMany(), with what it wrote and what it found next.
IsStep(c, i, item, old, r, p) ==
  /\ stage[c] = "entered" /\ op[c].kind = "upsertMany"
  /\ IsTurn(c, i, item, old)
  /\ r = (IF old = Nothing THEN UpsertInsert(c, item) ELSE UpsertUpdate(c, item, old))
  /\ setup' = setup /\ op' = op
  /\ \/ TurnFails(c, r)
     \/ TurnContinues(c, r, i, p) /\ IsPick(p, r.st.heap, r.st)
     \/ TurnEnds(c, r, i)

LEMMA StepIs ==
  ASSUME TInv, NEW c \in Call, UpsertManyStep(c)
  PROVE  \E i, item, old, r, p : IsStep(c, i, item, old, r, p)
<1> DEFINE i == Len(found[c])
           item == op[c].items[i]
           old == found[c][i]
           r == IF old = Nothing THEN UpsertInsert(c, item) ELSE UpsertUpdate(c, item, old)
           p == PickFor(c, r.st, op[c].items[i + 1])
<1>1. /\ stage[c] = "entered" /\ op[c].kind = "upsertMany"
      /\ setup' = setup /\ op' = op
      /\ TurnFails(c, r) \/ TurnContinues(c, r, i, p) \/ TurnEnds(c, r, i)
  <2>1. /\ stage[c] = "entered" /\ op[c].kind = "upsertMany"
        /\ \/ /\ ~r.ok
              /\ Fails(c, r.st)
              /\ UNCHANGED found
           \/ /\ r.ok /\ i < Len(op[c].items)
              /\ store' = r.st
              /\ Finds(c, found[c] \o p)
              /\ UNCHANGED stage
           \/ /\ r.ok /\ i = Len(op[c].items)
              /\ Applies(c, IF Nothing \in ToSet(found[c]) THEN Capped(r.st) ELSE r.st)
              /\ UNCHANGED found
        /\ UNCHANGED <<setup, op>>
    BY DEF UpsertManyStep
  <2>2. p = PickFor(c, r.st, op[c].items[i + 1])
    OBVIOUS
  <2> HIDE DEF r, i, p, old, item
  <2>3. QED
    BY <2>1, <2>2 DEF Fails, Finds, Applies, GoesTo, TurnFails, TurnContinues, TurnEnds
<1>2. IsTurn(c, i, item, old)
  BY <1>1, TurnIs
<1> HIDE DEF i, item, old
<1>3. /\ r.st \in Store(r.st.heap) /\ r.st.heap \in Seq(Object)
  BY <1>2, WrittenType
<1>4. r = IF old = Nothing THEN UpsertInsert(c, item) ELSE UpsertUpdate(c, item, old)
  OBVIOUS
<1> HIDE DEF r
<1>5. ASSUME i < Len(op[c].items) PROVE IsPick(p, r.st.heap, r.st)
  <2> DEFINE it == op[c].items[i + 1]
  <2>1. i + 1 \in DOMAIN op[c].items /\ it \in Item
    BY <1>2, <1>5 DEF IsTurn
  <2>2. op[c].filter.on # "id" => it.key # Nothing
    BY <1>1, <1>2, <2>1 DEF IsTurn, OpFits
  <2>3. op[c] \in Operation
    BY <1>2 DEF IsTurn
  <2> HIDE DEF it
  <2>4. IsPick(PickFor(c, r.st, it), r.st.heap, r.st)
    BY <1>3, <2>1, <2>2, <2>3, PickIs
  <2>5. QED
    BY <2>4 DEF it
<1> HIDE DEF p
<1>6. IsStep(c, i, item, old, r, p)
  BY <1>1, <1>2, <1>4, <1>5 DEF IsStep, TurnContinues
<1>7. QED
  BY <1>6

LEMMA UpsertManyStepTypes ==
  ASSUME TInv, NEW c \in Call, UpsertManyStep(c)
  PROVE  TInv'
<1>1. PICK i, item, old, r, p : IsStep(c, i, item, old, r, p)
  BY StepIs
<1>2. /\ IsTurn(c, i, item, old) /\ setup' = setup /\ op' = op
      /\ r = IF old = Nothing THEN UpsertInsert(c, item) ELSE UpsertUpdate(c, item, old)
      /\ stage[c] = "entered" /\ op[c].kind = "upsertMany"
  BY <1>1 DEF IsStep
<1>3. /\ r.st \in Store(r.st.heap) /\ r.st.heap \in Seq(Object)
      /\ DOMAIN store.heap \subseteq DOMAIN r.st.heap
  BY <1>2, WrittenType
<1>4. CASE TurnFails(c, r)
  <2>1. Grown
    BY <1>3, <1>4 DEF TurnFails, Grown
  <2>2. QED
    BY <1>2, <1>4, <2>1, EndTypesSame DEF TurnFails
<1>5. CASE TurnEnds(c, r, i)
  <2>1. store' \in {r.st, Capped(r.st)}
    BY <1>5 DEF TurnEnds
  <2>2. Capped(r.st) \in Store(r.st.heap)
    BY <1>3, CappedIs, StoreTypes
  <2>3. store' \in Store(r.st.heap)
    BY <1>3, <2>1, <2>2
  <2>4. store'.heap = r.st.heap
    BY <2>3 DEF Store
  <2>5. Grown
    BY <1>3, <2>3, <2>4 DEF Grown
  <2>6. QED
    BY <1>2, <1>5, <2>5, EndTypesSame DEF TurnEnds
<1>6. CASE TurnContinues(c, r, i, p) /\ IsPick(p, r.st.heap, r.st)
  <2> DEFINE f == found[c] \o p
             X == DOMAIN r.st.heap \union {Nothing}
  <2>1. Grown /\ store'.heap = r.st.heap
    BY <1>3, <1>6 DEF TurnContinues, Grown
  <2>2. found[c] \in Seq(DOMAIN store.heap \union {Nothing})
    BY CallTypes
  <2>3. p \in Seq(X) /\ Len(p) = 1
    BY <1>6 DEF IsPick
  <2>4. DOMAIN store.heap \union {Nothing} \subseteq X
    BY <1>3
  <2> HIDE DEF X
  <2>5. found[c] \in Seq(X)
    BY <2>2, <2>4, SeqGrows
  <2>6. f \in Seq(X) /\ Len(f) = i + 1 /\ i + 1 \in Nat /\ i < Len(op[c].items)
        /\ Len(op[c].items) \in Nat
    <3> DEFINE g == found[c]
    <3>1. g \in Seq(X) /\ p \in Seq(X) /\ Len(p) = 1
      BY <2>3, <2>5
    <3>2. i = Len(g) /\ Len(op[c].items) \in Nat /\ i < Len(op[c].items)
      <4>1. i = Len(g) /\ op[c].items \in Seq(Item)
        BY <1>2 DEF IsTurn
      <4>2. i < Len(op[c].items)
        BY <1>6 DEF TurnContinues
      <4>3. QED
        BY <4>1, <4>2
    <3> HIDE DEF g
    <3>3. g \o p \in Seq(X) /\ Len(g \o p) = Len(g) + 1 /\ Len(g) + 1 \in Nat
      <4>1. g \o p \in Seq(X) /\ Len(g \o p) = Len(g) + Len(p)
        BY <3>1, ConcatProperties
      <4>2. Len(g) \in Nat
        BY <3>1
      <4>3. QED
        BY <3>1, <4>1, <4>2
    <3>4. QED
      BY <3>2, <3>3 DEF g
  <2>7. f # <<>>
    BY <1>2, <2>6 DEF IsTurn
  <2> HIDE DEF f
  <2>8. CallFits("entered", op[c], f)
    <3>1. Len(f) <= Len(op[c].items)
      BY <1>2, <2>6 DEF IsTurn
    <3>2. QED
      BY <1>2, <2>7, <3>1 DEF CallFits, IsTurn
  <2>9. stage' = [stage EXCEPT ![c] = "entered"] /\ "entered" \in Stage
    <3>1. stage' = [stage EXCEPT ![c] = stage[c]]
      BY <1>6, StoreTypes DEF TurnContinues
    <3>2. QED
      BY <1>2, <3>1 DEF Stage
  <2>10. op' = [op EXCEPT ![c] = op[c]] /\ op[c] \in Underway
    BY <1>2, StoreTypes DEF IsTurn
  <2>11. found' = [found EXCEPT ![c] = f] /\ f \in Seq(DOMAIN store'.heap \union {Nothing})
    BY <1>6, <2>1, <2>6 DEF TurnContinues, f, X
  <2>12. QED
    BY <1>2, <2>1, <2>8, <2>9, <2>10, <2>11, StepTypes
<1>7. QED
  BY <1>1, <1>4, <1>5, <1>6 DEF IsStep

\* So it begins.
LEMMA InitTypes == Init => TInv
<1> SUFFICES ASSUME Init PROVE TInv
  OBVIOUS
<1>1. setup \in Setups /\ store = Loaded
  BY DEF Init
<1>2. setup.docs \in Seq(Object) /\ Loaded \in Store(setup.docs) /\ Loaded.heap = setup.docs
  BY <1>1, LoadedIs, SetupFields
<1>3. store.heap \in Seq(Object) /\ store \in Store(store.heap)
  BY <1>1, <1>2
<1>4. stage \in [Call -> Stage] /\ op \in [Call -> Underway]
  BY DEF Init, Stage, Underway
<1>5. found \in [Call -> Seq(DOMAIN store.heap \union {Nothing})]
  <2>1. <<>> \in Seq(DOMAIN store.heap \union {Nothing})
    OBVIOUS
  <2>2. QED
    BY <2>1 DEF Init
<1>6. \A c \in Call : stage[c] = "idle" /\ op[c] = NoOp /\ found[c] = <<>>
  BY DEF Init
<1>7. CallsFit
  BY <1>6, NoOpFits DEF CallsFit, CallFits
<1>8. QED
  BY <1>1, <1>3, <1>4, <1>5, <1>6, <1>7 DEF TInv, TypeOK

\* Every step keeps the types.
LEMMA NextTypes == TInv /\ [Next]_vars => TInv'
<1> SUFFICES ASSUME TInv, [Next]_vars PROVE TInv'
  OBVIOUS
<1>1. CASE Sweep
  BY <1>1, SweepTypes
<1>2. ASSUME NEW c \in Call, Start(c) PROVE TInv'
  BY <1>2, StartTypes
<1>3. ASSUME NEW c \in Call, Step(c) PROVE TInv'
  BY <1>3, InsertRefusedTypes, InsertChecksTypes, InsertLandsTypes, IfNotExistsTypes,
     UpsertTypes, FindTypes, UpdateLandsTypes, DeleteTypes, HardDeleteTypes,
     UpsertManyBeginsTypes, UpsertManyStepTypes DEF Step
<1>4. CASE UNCHANGED vars
  <2>1. setup' = setup /\ store' = store /\ stage' = stage /\ op' = op /\ found' = found
    BY <1>4 DEF vars, calls
  <2>2. QED
    BY <2>1 DEF TInv, TypeOK, Underway, CallsFit, CallFits, OpFits
<1>5. QED
  BY <1>1, <1>2, <1>3, <1>4 DEF Next

\* In every state the collection, the calls and the objects they hold are what
\* they are declared to be, and a call that goes on to write has found
\* something: whatever the collection and the operations, regular or not.
THEOREM TypeCorrect == Spec => []TypeOK
<1>1. TInv => TypeOK
  BY DEF TInv
<1>2. QED
  BY <1>1, InitTypes, NextTypes, PTL DEF Spec

-----------------------------------------------------------------------------
(* What calls leave behind, of a regular collection.                          *)

OpRegular(compound, o) ==
  /\ compound => ~o.odd /\ \A i \in DOMAIN o.items : ~o.items[i].odd
  /\ o.many => o.inc = 0

\* The call that inserted an object wrote it.
HeapFits == \A a \in DOMAIN store.heap : store.heap[a].from \subseteq store.heap[a].by

\* The index engine refuses nothing.
NoneOdd ==
  /\ \A c \in Call : OpRegular(setup.compound, op[c])
  /\ setup.compound => \A a \in DOMAIN store.heap : ~store.heap[a].odd

\* What a batch has built and checked is its own.
BuiltFit(c) ==
  Inserting(c) =>
    /\ \A a \in ToSet(found[c]) : store.heap[a].from = {c} /\ store.heap[a].by = {c}
    /\ IsInjective(found[c])
    /\ \A a, b \in ToSet(found[c]) : store.heap[a].id = store.heap[b].id => a = b

\* A call that may have written something.
Wrote(c) ==
  \/ stage[c] = "done"
  \/ op[c].kind = "upsertMany" /\ stage[c] \in {"entered", "failed"}
  \/ op[c].kind = "update" /\ op[c].many /\ stage[c] = "failed"

Clean == \A c \in Call : \A a \in Docs : c \in store.heap[a].by => Wrote(c)

\* A call that may have inserted a document of _id i.
Inserted(c, i) ==
  \/ stage[c] \in {"done", "failed"}
  \/ stage[c] = "entered" /\ op[c].kind = "upsertMany" /\ i \in Before(c)

\* The objects that others than c can know.
Seen(c) ==
  (Docs \union Listed(store) \union UNION {ToSet(found[d]) : d \in Call \ {c}}) \ {Nothing}

InsertsSeen ==
  \A c \in Call : \A a \in Seen(c) :
    c \in store.heap[a].from => Inserted(c, store.heap[a].id)

\* The objects a call found and has updated or inserted.
Settled(c) ==
  IF stage[c] = "done" /\ op[c].kind \in {"insert", "update", "upsertMany"} THEN DOMAIN found[c]
  ELSE IF stage[c] = "entered" /\ op[c].kind = "upsertMany" THEN 1 .. Len(found[c]) - 1
  ELSE {}

\* The documents that are what the object a was.
SettledKept ==
  \A c \in Call : \A i \in Settled(c) : found[c][i] # Nothing =>
    \A b \in Docs :
      (/\ store.heap[b].id = store.heap[found[c][i]].id
       /\ store.heap[b].from = store.heap[found[c][i]].from) => c \in store.heap[b].by

\* What a step of c can do.  The object b is a new version of one of S; it is
\* one that c inserts now.
Version(c, b, S) ==
  \E a \in S : /\ store'.heap[b].id = store.heap[a].id
               /\ store'.heap[b].from = store.heap[a].from
               /\ store'.heap[b].by = store.heap[a].by \union {c}

Born(c, b) ==
  /\ store'.heap[b].from = {c} /\ store'.heap[b].by = {c}
  /\ ~Inserted(c, store'.heap[b].id)
  /\ Inserted(c, store.heap[b].id)'

\* The other calls.
Alone(c) ==
  /\ setup' = setup
  /\ \A d \in Call \ {c} : stage'[d] = stage[d] /\ op'[d] = op[d] /\ found'[d] = found[d]

\* The objects.
ActsOnHeap(c) ==
  /\ HeapGrows(store.heap, store'.heap)
  /\ \A a \in DOMAIN store.heap :
       \/ store'.heap[a].by = store.heap[a].by
       \/ /\ store'.heap[a].by = store.heap[a].by \union {c}
          /\ stage'[c] = "done" /\ a \in ToSet(found[c])
  /\ \A b \in DOMAIN store'.heap \ DOMAIN store.heap :
       /\ setup.compound => ~store'.heap[b].odd
       /\ \/ Version(c, b, DOMAIN store.heap)
          \/ store'.heap[b].from = {c} /\ store'.heap[b].by = {c}

\* The documents, and what the _id index has.
ActsOnDocs(c) ==
  /\ \A b \in Docs' \ Docs : Version(c, b, Docs) \/ Born(c, b)
  /\ \A b \in Listed(store)' \ (Listed(store) \union Docs) :
       \/ Version(c, b, Docs) \/ Born(c, b)
       \/ b \in ToSet(found[c]) /\ stage'[c] = "done"
  /\ Docs' \subseteq Docs \/ Wrote(c)'

\* The call itself.
ActsOnCall(c) ==
  /\ Wrote(c) => Wrote(c)'
  /\ \A i : Inserted(c, i) => Inserted(c, i)'
  /\ \A a \in ToSet(found[c])' \ {Nothing} :
       \/ a \in ToSet(found[c]) \/ a \in Docs' \/ a \in Listed(store)'
       \/ store'.heap[a].from = {c}
  /\ \A i \in Settled(c)' : found'[c][i] # Nothing =>
       \/ i \in Settled(c) /\ found'[c][i] = found[c][i]
       \/ \A b \in Docs' \intersect Docs :
            (/\ store'.heap[b].id = store'.heap[found'[c][i]].id
             /\ store'.heap[b].from = store'.heap[found'[c][i]].from) => c \in store'.heap[b].by

Acts(c) == Alone(c) /\ ActsOnHeap(c) /\ ActsOnDocs(c) /\ ActsOnCall(c)

\* Documents, listed objects and found objects are in the heap.
LEMMA InHeap ==
  ASSUME TInv
  PROVE  /\ Docs \subseteq DOMAIN store.heap
         /\ Listed(store) \subseteq DOMAIN store.heap
         /\ \A c \in Call : ToSet(found[c]) \subseteq DOMAIN store.heap \union {Nothing}
         /\ Nothing \notin DOMAIN store.heap
<1>1. store.heap \in Seq(Object) /\ store \in Store(store.heap)
  BY StoreTypes
<1>2. Docs \subseteq DOMAIN store.heap
  BY <1>1, DataInHeap DEF Docs
<1>3. Listed(store) \subseteq DOMAIN store.heap
  BY <1>1, StoreParts DEF Listed
<1>4. ASSUME NEW c \in Call PROVE ToSet(found[c]) \subseteq DOMAIN store.heap \union {Nothing}
  <2> DEFINE X == DOMAIN store.heap \union {Nothing}
  <2>1. found[c] \in Seq(X)
    BY CallTypes
  <2> HIDE DEF X
  <2>2. ToSet(found[c]) \subseteq X
    BY <2>1 DEF ToSet
  <2>3. QED
    BY <2>2 DEF X
<1>5. QED
  BY <1>1, <1>2, <1>3, <1>4, HeapDomain

\* A step of c changes no object that others have built.
LEMMA KeepsHeapFits ==
  ASSUME TInv, NEW c \in Call, Acts(c), HeapFits
  PROVE  HeapFits'
<1> SUFFICES ASSUME NEW b \in DOMAIN store'.heap PROVE store'.heap[b].from \subseteq store'.heap[b].by
  BY DEF HeapFits
<1>1. CASE b \in DOMAIN store.heap
  BY <1>1 DEF HeapFits, Acts, ActsOnHeap, HeapGrows
<1>2. CASE b \notin DOMAIN store.heap
  BY <1>2 DEF HeapFits, Acts, ActsOnHeap, Version
<1>3. QED
  BY <1>1, <1>2

\* No step brings in a value that the index engine refuses.
LEMMA KeepsNoneOdd ==
  ASSUME TInv, NEW c \in Call, Acts(c), NoneOdd, OpRegular(setup.compound, op'[c])
  PROVE  NoneOdd'
<1>1. \A d \in Call : OpRegular(setup'.compound, op'[d])
  BY DEF Acts, Alone, NoneOdd
<1>2. setup'.compound => \A a \in DOMAIN store'.heap : ~store'.heap[a].odd
  BY DEF Acts, Alone, ActsOnHeap, NoneOdd, HeapGrows
<1>3. QED
  BY <1>1, <1>2 DEF NoneOdd

\* What another batch has built and checked stays its own.
LEMMA KeepsBuilt ==
  ASSUME TInv, NEW c \in Call, Acts(c), InsertsSeen, NEW d \in Call, d # c, BuiltFit(d)
  PROVE  BuiltFit(d)'
<1>1. stage'[d] = stage[d] /\ op'[d] = op[d] /\ found'[d] = found[d]
  BY DEF Acts, Alone
<1> SUFFICES ASSUME Inserting(d)
             PROVE  /\ \A a \in ToSet(found[d]) : store'.heap[a].from = {d} /\ store'.heap[a].by = {d}
                    /\ IsInjective(found[d])
                    /\ \A a, b \in ToSet(found[d]) : store'.heap[a].id = store'.heap[b].id => a = b
  BY <1>1 DEF BuiltFit, Inserting
<1>2. ToSet(found[d]) \subseteq DOMAIN store.heap
  <2>1. Nothing \notin ToSet(found[d])
    BY CallTypes DEF Inserting, CallFits
  <2>2. QED
    BY <2>1, InHeap
<1>3. ASSUME NEW a \in ToSet(found[d])
      PROVE  /\ store'.heap[a].id = store.heap[a].id
             /\ store'.heap[a].from = {d} /\ store'.heap[a].by = {d}
  <2>1. a \in DOMAIN store.heap /\ store.heap[a].from = {d} /\ store.heap[a].by = {d}
    BY <1>2 DEF BuiltFit
  <2>2. store'.heap[a].id = store.heap[a].id /\ store'.heap[a].from = {d}
    BY <2>1 DEF Acts, ActsOnHeap, HeapGrows
  <2>3. a \notin ToSet(found[c])
    <3> SUFFICES ASSUME a \in ToSet(found[c]) PROVE FALSE
      OBVIOUS
    <3>1. a \in Seen(d)
      BY <1>2, InHeap DEF Seen
    <3>2. Inserted(d, store.heap[a].id)
      BY <2>1, <3>1 DEF InsertsSeen
    <3>3. QED
      BY <3>2 DEF Inserted, Inserting
  <2>4. store'.heap[a].by = store.heap[a].by
    BY <2>1, <2>3 DEF Acts, ActsOnHeap
  <2>5. QED
    BY <2>1, <2>2, <2>4
<1>4. QED
  BY <1>3 DEF BuiltFit

\* A call whose writes are in a document may have written.
LEMMA KeepsClean ==
  ASSUME TInv, NEW c \in Call, Acts(c), Clean
  PROVE  Clean'
<1> SUFFICES ASSUME NEW d \in Call, NEW a \in Docs', d \in store'.heap[a].by
             PROVE  Wrote(d)'
  BY DEF Clean
<1>1. d # c => Wrote(d)' = Wrote(d)
  BY DEF Wrote, Acts, Alone
<1>2. CASE a \in Docs
  <2>1. a \in DOMAIN store.heap
    BY <1>2, InHeap
  <2>2. CASE store'.heap[a].by = store.heap[a].by
    <3>1. Wrote(d)
      BY <1>2, <2>2 DEF Clean
    <3>2. QED
      BY <1>1, <3>1 DEF Acts, ActsOnCall
  <2>3. CASE store'.heap[a].by = store.heap[a].by \union {c} /\ stage'[c] = "done"
    <3>1. Wrote(c)'
      BY <2>3 DEF Wrote
    <3>2. CASE d # c
      BY <1>1, <1>2, <2>3, <3>2 DEF Clean
    <3>3. QED
      BY <3>1, <3>2
  <2>4. QED
    BY <2>1, <2>2, <2>3 DEF Acts, ActsOnHeap
<1>3. CASE a \notin Docs
  <2>1. Wrote(c)'
    BY <1>3 DEF Acts, ActsOnDocs
  <2>2. CASE d # c
    <3>1. Version(c, a, Docs)
      BY <1>3, <2>2 DEF Acts, ActsOnDocs, Born
    <3>2. PICK b \in Docs : store'.heap[a].by = store.heap[b].by \union {c}
      BY <3>1 DEF Version
    <3>3. QED
      BY <1>1, <2>2, <3>2 DEF Clean
  <2>3. QED
    BY <2>1, <2>2
<1>4. QED
  BY <1>2, <1>3

\* What other calls have done is as it was.
LEMMA OthersSame ==
  ASSUME NEW c \in Call, Acts(c), NEW d \in Call, NEW i
  PROVE  Inserted(d, i) => Inserted(d, i)'
<1>1. CASE d = c
  BY <1>1 DEF Acts, ActsOnCall
<1>2. CASE d # c
  BY <1>2 DEF Acts, Alone, Inserted, Before
<1>3. QED
  BY <1>1, <1>2

\* What d inserted and the store now has was inserted by d before or is now.
LEMMA KeepsListed ==
  ASSUME TInv, NEW c \in Call, Acts(c), InsertsSeen, NEW d \in Call,
         NEW a, a \in Docs' \/ a \in Listed(store)', d \in store'.heap[a].from
  PROVE  Inserted(d, store.heap[a].id)'
<1>1. CASE a \in Docs \/ a \in Listed(store)
  <2>1. a \in Seen(d) /\ a \in DOMAIN store.heap
    BY <1>1, InHeap DEF Seen
  <2>2. store'.heap[a].from = store.heap[a].from /\ store'.heap[a].id = store.heap[a].id
    BY <2>1 DEF Acts, ActsOnHeap, HeapGrows
  <2>3. Inserted(d, store.heap[a].id)
    BY <2>1, <2>2 DEF InsertsSeen
  <2>4. PICK i : i = store.heap[a].id
    OBVIOUS
  <2>5. Inserted(d, i)'
    BY <2>3, <2>4, OthersSame
  <2>6. QED
    BY <2>2, <2>4, <2>5
<1>2. CASE Version(c, a, Docs)
  <2>1. PICK b \in Docs : store'.heap[a].id = store.heap[b].id /\ store'.heap[a].from = store.heap[b].from
    BY <1>2 DEF Version
  <2>2. b \in Seen(d)
    BY InHeap DEF Seen
  <2>3. PICK i : i = store.heap[b].id
    OBVIOUS
  <2>4. Inserted(d, i)
    BY <2>1, <2>2, <2>3 DEF InsertsSeen
  <2>5. Inserted(d, i)'
    BY <2>4, OthersSame
  <2>6. QED
    BY <2>1, <2>3, <2>5
<1>3. CASE Born(c, a)
  BY <1>3 DEF Born
<1>4. CASE a \in ToSet(found[c]) /\ stage'[c] = "done" /\ a \in Listed(store)'
  <2>1. CASE d = c
    BY <1>4, <2>1 DEF Inserted
  <2>2. CASE d # c
    <3>1. a # Nothing
      BY <1>4 DEF Listed
    <3>2. a \in Seen(d) /\ a \in DOMAIN store.heap
      BY <1>4, <2>2, <3>1, InHeap DEF Seen
    <3>3. store'.heap[a].from = store.heap[a].from /\ store'.heap[a].id = store.heap[a].id
      BY <3>2 DEF Acts, ActsOnHeap, HeapGrows
    <3>4. PICK i : i = store.heap[a].id
      OBVIOUS
    <3>5. Inserted(d, i)
      BY <3>2, <3>3, <3>4 DEF InsertsSeen
    <3>6. Inserted(d, i)'
      BY <3>5, OthersSame
    <3>7. QED
      BY <3>3, <3>4, <3>6
  <2>3. QED
    BY <2>1, <2>2
<1>5. QED
  BY <1>1, <1>2, <1>3, <1>4 DEF Acts, ActsOnDocs

\* So for what the calls hold.
LEMMA KeepsSeen ==
  ASSUME TInv, NEW c \in Call, Acts(c), InsertsSeen
  PROVE  InsertsSeen'
<1> SUFFICES ASSUME NEW d \in Call, NEW a \in Seen(d)', d \in store'.heap[a].from
             PROVE  Inserted(d, store.heap[a].id)'
  BY DEF InsertsSeen
<1>1. CASE a \in Docs' \/ a \in Listed(store)'
  BY <1>1, KeepsListed
<1>2. ASSUME NEW e \in Call, e # d, a \in ToSet(found[e])
      PROVE  Inserted(d, store.heap[a].id)'
  <2>1. a # Nothing
    BY DEF Seen
  <2>2. a \in Seen(d) /\ a \in DOMAIN store.heap
    BY <1>2, <2>1, InHeap DEF Seen
  <2>3. store'.heap[a].from = store.heap[a].from /\ store'.heap[a].id = store.heap[a].id
    BY <2>2 DEF Acts, ActsOnHeap, HeapGrows
  <2>4. PICK i : i = store.heap[a].id
    OBVIOUS
  <2>5. Inserted(d, i)
    BY <2>2, <2>3, <2>4 DEF InsertsSeen
  <2>6. Inserted(d, i)'
    BY <2>5, OthersSame
  <2>7. QED
    BY <2>3, <2>4, <2>6
<1>3. ASSUME NEW e \in Call, e # d, a \in ToSet(found[e])', ~(a \in Docs' \/ a \in Listed(store)')
      PROVE  Inserted(d, store.heap[a].id)'
  <2>1. CASE e = c
    <3>1. a # Nothing
      BY DEF Seen
    <3>2. a \in ToSet(found[c])
      BY <1>3, <2>1, <3>1 DEF Acts, ActsOnCall
    <3>3. QED
      BY <1>2, <1>3, <2>1, <3>2
  <2>2. CASE e # c
    <3>1. found'[e] = found[e]
      BY <2>2 DEF Acts, Alone
    <3>2. QED
      BY <1>2, <1>3, <3>1
  <2>3. QED
    BY <2>1, <2>2
<1>4. \/ a \in Docs' \/ a \in Listed(store)'
      \/ \E e \in Call : e # d /\ a \in ToSet(found[e])'
  BY DEF Seen
<1>5. QED
  BY <1>1, <1>3, <1>4

\* What a call settled stays in the documents, whoever changes them.
LEMMA KeepsSettled ==
  ASSUME TInv, TInv', NEW c \in Call, Acts(c), InsertsSeen, SettledKept
  PROVE  SettledKept'
<1> SUFFICES ASSUME NEW d \in Call, NEW i \in Settled(d)', found'[d][i] # Nothing,
                    NEW b \in Docs',
                    store'.heap[b].id = store'.heap[found'[d][i]].id,
                    store'.heap[b].from = store'.heap[found'[d][i]].from
             PROVE  d \in store'.heap[b].by
  BY DEF SettledKept
<1> DEFINE a == found'[d][i]
<1>1. CASE d = c
  <2>1. CASE b \notin Docs
    <3>1. Version(c, b, Docs) \/ Born(c, b)
      BY <2>1 DEF Acts, ActsOnDocs
    <3>2. QED
      BY <1>1, <3>1 DEF Version, Born
  <2>2. CASE b \in Docs
    <3>1. CASE i \in Settled(c) /\ found'[c][i] = found[c][i]
      <4>1. a \in DOMAIN store.heap /\ b \in DOMAIN store.heap
        <5>1. i \in DOMAIN found[c]
          <6>1. found[c] \in Seq(DOMAIN store.heap \union {Nothing})
            BY CallTypes
          <6>2. DOMAIN found[c] = 1 .. Len(found[c]) /\ Len(found[c]) \in Nat
            BY <6>1
          <6>3. QED
            BY <3>1, <6>2 DEF Settled
        <5>2. found[c][i] \in ToSet(found[c])
          BY <5>1 DEF ToSet
        <5>3. QED
          BY <1>1, <2>2, <3>1, <5>2, InHeap
      <4>2. /\ store'.heap[a].id = store.heap[a].id /\ store'.heap[a].from = store.heap[a].from
            /\ store'.heap[b].id = store.heap[b].id /\ store'.heap[b].from = store.heap[b].from
            /\ store.heap[b].by \subseteq store'.heap[b].by
        BY <4>1 DEF Acts, ActsOnHeap, HeapGrows
      <4>3. c \in store.heap[b].by
        BY <1>1, <2>2, <3>1, <4>2 DEF SettledKept
      <4>4. QED
        BY <1>1, <4>2, <4>3
    <3>2. CASE ~(i \in Settled(c) /\ found'[c][i] = found[c][i])
      BY <1>1, <2>2, <3>2 DEF Acts, ActsOnCall
    <3>3. QED
      BY <3>1, <3>2
  <2>3. QED
    BY <2>1, <2>2
<1>2. CASE d # c
  <2>1. found'[d] = found[d] /\ Settled(d)' = Settled(d)
    BY <1>2 DEF Acts, Alone, Settled
  <2>2. a = found[d][i] /\ i \in Settled(d) /\ a # Nothing
    BY <2>1
  <2>3. a \in DOMAIN store.heap /\ a \in ToSet(found[d])
    <3>1. i \in DOMAIN found[d]
      <4>1. found[d] \in Seq(DOMAIN store.heap \union {Nothing})
        BY CallTypes
      <4>2. DOMAIN found[d] = 1 .. Len(found[d]) /\ Len(found[d]) \in Nat
        BY <4>1
      <4>3. QED
        BY <2>2, <4>2 DEF Settled
    <3>2. found[d][i] \in ToSet(found[d])
      BY <3>1 DEF ToSet
    <3>3. QED
      BY <2>2, <3>2, InHeap
  <2>4. store'.heap[a].id = store.heap[a].id /\ store'.heap[a].from = store.heap[a].from
    BY <2>3 DEF Acts, ActsOnHeap, HeapGrows
  <2>5. CASE b \in Docs
    <3>1. b \in DOMAIN store.heap
      BY <2>5, InHeap
    <3>2. /\ store'.heap[b].id = store.heap[b].id /\ store'.heap[b].from = store.heap[b].from
          /\ store.heap[b].by \subseteq store'.heap[b].by
      BY <3>1 DEF Acts, ActsOnHeap, HeapGrows
    <3>3. d \in store.heap[b].by
      BY <2>2, <2>4, <2>5, <3>2 DEF SettledKept
    <3>4. QED
      BY <3>2, <3>3
  <2>6. CASE b \notin Docs /\ Version(c, b, Docs)
    <3>1. PICK b0 \in Docs : /\ store'.heap[b].id = store.heap[b0].id
                             /\ store'.heap[b].from = store.heap[b0].from
                             /\ store'.heap[b].by = store.heap[b0].by \union {c}
      BY <2>6 DEF Version
    <3>2. d \in store.heap[b0].by
      BY <2>2, <2>4, <3>1 DEF SettledKept
    <3>3. QED
      BY <3>1, <3>2
  <2>7. CASE b \notin Docs /\ Born(c, b)
    <3>1. store.heap[a].from = {c} /\ store.heap[a].id = store'.heap[b].id
      BY <2>4, <2>7 DEF Born
    <3>2. a \in Seen(c)
      BY <1>2, <2>2, <2>3 DEF Seen
    <3>3. Inserted(c, store.heap[a].id)
      BY <3>1, <3>2 DEF InsertsSeen
    <3>4. QED
      BY <2>7, <3>1, <3>3 DEF Born
  <2>8. QED
    BY <2>5, <2>6, <2>7 DEF Acts, ActsOnDocs
<1>3. QED
  BY <1>1, <1>2

\* The invariant, of a regular collection.
Facts ==
  /\ Regular
  /\ Sound(setup.soft, store)
  /\ HeapFits
  /\ NoneOdd
  /\ \A c \in Call : BuiltFit(c)
  /\ Clean
  /\ InsertsSeen
  /\ SettledKept

\* What every step of c does.
Good(c) ==
  /\ Sound(setup.soft, store')
  /\ Acts(c)
  /\ OpRegular(setup.compound, op'[c])
  /\ BuiltFit(c)'

\* A good step keeps the facts.
LEMMA GoodKeeps ==
  ASSUME TInv, TInv', Facts, NEW c \in Call, Good(c)
  PROVE  Facts'
<1>1. setup' = setup /\ Acts(c)
  BY DEF Good, Acts, Alone
<1>2. Regular' /\ Sound(setup.soft, store)'
  BY <1>1 DEF Facts, Good, Regular
<1>3. HeapFits' /\ NoneOdd' /\ Clean' /\ InsertsSeen' /\ SettledKept'
  BY <1>1, KeepsHeapFits, KeepsNoneOdd, KeepsClean, KeepsSeen, KeepsSettled DEF Facts, Good
<1>4. \A d \in Call : BuiltFit(d)'
  BY <1>1, KeepsBuilt DEF Facts, Good
<1>5. QED
  BY <1>2, <1>3, <1>4 DEF Facts

\* What the call c has after a step, and nobody else.
LEMMA StepValues ==
  ASSUME TInv, NEW c \in Call, setup' = setup,
         NEW s, stage' = [stage EXCEPT ![c] = s],
         NEW o, op' = [op EXCEPT ![c] = o],
         NEW f, found' = [found EXCEPT ![c] = f]
  PROVE  Alone(c) /\ stage'[c] = s /\ op'[c] = o /\ found'[c] = f
<1>1. DOMAIN stage = Call /\ DOMAIN op = Call /\ DOMAIN found = Call
  BY DEF TInv, TypeOK
<1>2. QED
  BY <1>1 DEF Alone

\* A call that has not looked yet has written nothing.
LEMMA NotYet ==
  ASSUME NEW c \in Call, stage[c] \in {"idle", "called"}
  PROVE  ~Wrote(c) /\ \A i : ~Inserted(c, i)
BY DEF Wrote, Inserted

LEMMA OneOne ==
  ASSUME NEW f, Len(f) = 1
  PROVE  1 .. Len(f) - 1 = {}
OBVIOUS

LEMMA NoneYet ==
  ASSUME NEW f, f = <<>>
  PROVE  DOMAIN f = {} /\ ToSet(f) = {} /\ IsInjective(f)
BY DEF ToSet, IsInjective

\* A step that changes no store.
LEMMA QuietActs ==
  ASSUME TInv, NEW c \in Call, Alone(c), store' = store, stage[c] \in {"idle", "called"},
         \/ stage'[c] # "done"
         \/ op'[c].kind \notin {"insert", "update", "upsertMany"}
         \/ found'[c] = <<>>,
         stage'[c] = "entered" /\ op'[c].kind = "upsertMany" => Len(found'[c]) = 1,
         ToSet(found'[c]) \subseteq ToSet(found[c]) \union Docs \union Listed(store) \union {Nothing}
  PROVE  Acts(c)
<1>1. Docs' = Docs /\ Listed(store)' = Listed(store)
  BY DEF Docs, Listed
<1>2. ActsOnHeap(c)
  BY StoreTypes DEF ActsOnHeap, HeapGrows
<1>3. ActsOnDocs(c)
  BY <1>1 DEF ActsOnDocs
<1>4. Settled(c)' = {}
  <2>1. stage'[c] = "done" /\ op'[c].kind \in {"insert", "update", "upsertMany"} => DOMAIN found'[c] = {}
    BY NoneYet
  <2>2. stage'[c] = "entered" /\ op'[c].kind = "upsertMany" => 1 .. Len(found'[c]) - 1 = {}
    BY OneOne
  <2>3. QED
    BY <2>1, <2>2 DEF Settled
<1>5. ToSet(found[c])' = ToSet(found'[c])
  BY DEF ToSet
<1>6. ActsOnCall(c)
  BY <1>1, <1>4, <1>5, NotYet DEF ActsOnCall
<1>7. QED
  BY <1>2, <1>3, <1>6 DEF Acts

\* Each action is a good step: first those that change no document.
LEMMA StartGood ==
  ASSUME TInv, Facts, NEW c \in Call, Start(c)
  PROVE  Good(c)
<1>1. PICK o \in setup.ops : op' = [op EXCEPT ![c] = o]
  BY DEF Start
<1>2. /\ stage[c] = "idle" /\ stage' = [stage EXCEPT ![c] = "called"]
      /\ setup' = setup /\ store' = store /\ found' = found
  BY DEF Start, GoesTo
<1>3. found' = [found EXCEPT ![c] = found[c]] /\ found[c] = <<>>
  BY <1>2, StoreTypes, CallTypes DEF CallFits
<1>4. Alone(c) /\ stage'[c] = "called" /\ op'[c] = o /\ found'[c] = <<>>
  BY <1>1, <1>2, <1>3, StepValues
<1>5. ToSet(found'[c]) = {} /\ IsInjective(found'[c])
  BY <1>4, NoneYet
<1>6. Acts(c)
  BY <1>2, <1>4, <1>5, QuietActs
<1>7. OpRegular(setup.compound, op'[c])
  BY <1>4 DEF Facts, Regular, OpRegular
<1>8. BuiltFit(c)'
  BY <1>5 DEF BuiltFit
<1>9. QED
  BY <1>2, <1>6, <1>7, <1>8 DEF Good, Facts

LEMMA InsertRefusedGood ==
  ASSUME TInv, Facts, NEW c \in Call, InsertRefused(c)
  PROVE  Good(c)
<1>1. /\ store' = store /\ stage' = [stage EXCEPT ![c] = "failed"]
      /\ setup' = setup /\ op' = op /\ found' = found /\ stage[c] = "called"
  BY DEF InsertRefused, Fails, GoesTo, Inserting
<1>2. op' = [op EXCEPT ![c] = op[c]] /\ found' = [found EXCEPT ![c] = found[c]]
  BY <1>1, StoreTypes
<1>3. Alone(c) /\ stage'[c] = "failed" /\ op'[c] = op[c] /\ found'[c] = found[c]
  BY <1>1, <1>2, StepValues
<1>4. Acts(c)
  BY <1>1, <1>3, QuietActs
<1>5. OpRegular(setup.compound, op'[c]) /\ BuiltFit(c)'
  BY <1>3 DEF Facts, NoneOdd, BuiltFit, Inserting
<1>6. QED
  BY <1>1, <1>4, <1>5 DEF Good, Facts

\* A regular operation is so whatever it becomes.
LEMMA RegularBecomes ==
  ASSUME NEW compound, NEW o \in Operation, OpRegular(compound, o), NEW k
  PROVE  OpRegular(compound, [o EXCEPT !.kind = k]) /\ [o EXCEPT !.kind = k].kind = k
BY DEF OpRegular, Operation

LEMMA IfNotExistsGood ==
  ASSUME TInv, Facts, NEW c \in Call, InsertIfNotExists(c)
  PROVE  Good(c)
<1> DEFINE o == [op[c] EXCEPT !.kind = "insert"]
<1>1. /\ store' = store /\ setup' = setup /\ found' = found
      /\ stage[c] = "called" /\ op[c].kind = "ifNotExists"
      /\ \/ stage' = [stage EXCEPT ![c] = "done"] /\ op' = op
         \/ stage' = stage /\ op' = [op EXCEPT ![c] = o]
  BY DEF InsertIfNotExists, GoesTo
<1>2. op[c] \in Operation /\ found[c] = <<>>
  BY <1>1, CallTypes DEF CallFits
<1>3. OpRegular(setup.compound, op[c])
  BY DEF Facts, NoneOdd
<1>4. OpRegular(setup.compound, o) /\ o.kind = "insert"
  BY <1>2, <1>3, RegularBecomes
<1> HIDE DEF o
<1>5. /\ found' = [found EXCEPT ![c] = <<>>]
      /\ \/ stage' = [stage EXCEPT ![c] = "done"] /\ op' = [op EXCEPT ![c] = op[c]]
         \/ stage' = [stage EXCEPT ![c] = stage[c]] /\ op' = [op EXCEPT ![c] = o]
  BY <1>1, <1>2, StoreTypes
<1>6. Alone(c) /\ found'[c] = <<>>
      /\ \/ stage'[c] = "done" /\ op'[c] = op[c]
         \/ stage'[c] = "called" /\ op'[c] = o
  <2>1. CASE stage' = [stage EXCEPT ![c] = "done"] /\ op' = [op EXCEPT ![c] = op[c]]
    <3>1. setup' = setup /\ found' = [found EXCEPT ![c] = <<>>]
      BY <1>1, <1>5
    <3>2. QED
      BY <2>1, <3>1, StepValues
  <2>2. CASE stage' = [stage EXCEPT ![c] = stage[c]] /\ op' = [op EXCEPT ![c] = o]
    <3>1. stage[c] = "called"
      BY <1>1
    <3>2. stage' = [stage EXCEPT ![c] = "called"]
      BY <2>2, <3>1, Zenon
    <3>3. setup' = setup /\ found' = [found EXCEPT ![c] = <<>>] /\ op' = [op EXCEPT ![c] = o]
      BY <1>1, <1>5, <2>2
    <3>4. QED
      BY <3>2, <3>3, StepValues
  <2>3. QED
    BY <1>5, <2>1, <2>2
<1>7. ToSet(found'[c]) = {} /\ IsInjective(found'[c])
  BY <1>6, NoneYet
<1>8. Acts(c)
  BY <1>1, <1>6, <1>7, QuietActs
<1>9. OpRegular(setup.compound, op'[c]) /\ BuiltFit(c)'
  BY <1>3, <1>4, <1>6, <1>7 DEF BuiltFit
<1>10. QED
  BY <1>1, <1>8, <1>9 DEF Good, Facts

LEMMA UpsertGood ==
  ASSUME TInv, Facts, NEW c \in Call, Upsert(c)
  PROVE  Good(c)
<1> DEFINE k == IF FindRaw(store, op[c].filter, FALSE) # <<>> THEN "update" ELSE "insert"
           o == [op[c] EXCEPT !.kind = k]
<1>1. /\ stage[c] = "called" /\ op[c].kind = "upsert"
      /\ setup' = setup /\ store' = store /\ stage' = stage /\ found' = found
      /\ op' = [op EXCEPT ![c] = o]
  BY DEF Upsert
<1> HIDE DEF k
<1>2. op[c] \in Operation /\ found[c] = <<>>
  BY <1>1, CallTypes DEF CallFits
<1>3. OpRegular(setup.compound, op[c])
  BY DEF Facts, NoneOdd
<1>4. OpRegular(setup.compound, o)
  BY <1>2, <1>3, RegularBecomes
<1> HIDE DEF o
<1>5. found' = [found EXCEPT ![c] = <<>>] /\ stage' = [stage EXCEPT ![c] = "called"]
  <2>1. found' = [found EXCEPT ![c] = found[c]] /\ stage' = [stage EXCEPT ![c] = stage[c]]
    BY <1>1, StoreTypes
  <2>2. stage[c] = "called"
    BY <1>1
  <2>3. QED
    BY <1>2, <2>1, <2>2, Zenon
<1>6. Alone(c) /\ found'[c] = <<>> /\ stage'[c] = "called" /\ op'[c] = o
  <2>1. setup' = setup /\ op' = [op EXCEPT ![c] = o]
    BY <1>1
  <2>2. QED
    BY <1>5, <2>1, StepValues
<1>7. ToSet(found'[c]) = {} /\ IsInjective(found'[c])
  BY <1>2, <1>6, NoneYet
<1>8. Acts(c)
  BY <1>1, <1>6, <1>7, QuietActs
<1>9. OpRegular(setup.compound, op'[c]) /\ BuiltFit(c)'
  BY <1>4, <1>6, <1>7 DEF BuiltFit
<1>10. QED
  BY <1>1, <1>8, <1>9 DEF Good, Facts

LEMMA FindGood ==
  ASSUME TInv, Facts, NEW c \in Call, Find(c)
  PROVE  Good(c)
<1>1. PICK f \in Seq(DOMAIN store.heap) :
           /\ found' = [found EXCEPT ![c] = f]
           /\ stage' = [stage EXCEPT ![c] = IF f = <<>> THEN "done" ELSE "entered"]
           /\ \A soft : Sound(soft, store) => ToSet(f) \subseteq Docs \union Listed(store)
  BY FoundIs
<1>2. /\ setup' = setup /\ store' = store /\ op' = op /\ stage[c] = "called"
      /\ op[c].kind \in {"update", "delete", "restore"}
  BY DEF Find
<1> DEFINE s == IF f = <<>> THEN "done" ELSE "entered"
<1>3. op' = [op EXCEPT ![c] = op[c]]
  BY <1>2, StoreTypes
<1>4. Alone(c) /\ stage'[c] = s /\ op'[c] = op[c] /\ found'[c] = f
  <2>1. /\ found' = [found EXCEPT ![c] = f] /\ stage' = [stage EXCEPT ![c] = s]
        /\ setup' = setup
    BY <1>1, <1>2
  <2> HIDE DEF s
  <2>2. QED
    BY <1>3, <2>1, StepValues
<1>5. ToSet(f) \subseteq Docs \union Listed(store)
  BY <1>1 DEF Facts
<1>6. Acts(c)
  BY <1>2, <1>4, <1>5, QuietActs
<1>7. OpRegular(setup.compound, op'[c]) /\ BuiltFit(c)'
  BY <1>2, <1>4 DEF Facts, NoneOdd, BuiltFit, Inserting
<1>8. QED
  BY <1>2, <1>6, <1>7 DEF Good, Facts

LEMMA UpsertManyBeginsGood ==
  ASSUME TInv, Facts, NEW c \in Call, UpsertManyBegins(c)
  PROVE  Good(c)
<1> DEFINE item == Head(op[c].items)
           f == PickFor(c, store, item)
<1>1. /\ stage[c] = "called" /\ op[c].kind = "upsertMany"
      /\ found' = [found EXCEPT ![c] = f] /\ stage' = [stage EXCEPT ![c] = "entered"]
      /\ setup' = setup /\ store' = store /\ op' = op
  BY DEF UpsertManyBegins, Finds, GoesTo
<1>2. IsPick(f, store.heap, store)
  <2>1. OpFits(op[c]) /\ op[c] \in Operation
    BY CallTypes DEF CallFits
  <2>2. op[c].items \in Seq(Item) /\ op[c].items # <<>>
    BY <1>1, <2>1 DEF OpFits, Operation
  <2>3. item = op[c].items[1] /\ 1 \in DOMAIN op[c].items /\ item \in Item
    BY <2>2
  <2>4. op[c].filter.on # "id" => item.key # Nothing
    BY <1>1, <2>1, <2>3 DEF OpFits
  <2> HIDE DEF item
  <2>5. QED
    BY <2>1, <2>3, <2>4, StoreTypes, PickIs
<1> HIDE DEF f
<1>3. op' = [op EXCEPT ![c] = op[c]]
  BY <1>1, StoreTypes
<1>4. Alone(c) /\ stage'[c] = "entered" /\ op'[c] = op[c] /\ found'[c] = f
  BY <1>1, <1>3, StepValues
<1>5. Len(f) = 1 /\ ToSet(f) \subseteq Docs \union Listed(store) \union {Nothing}
  BY <1>2 DEF IsPick, Facts, Docs
<1>6. Acts(c)
  BY <1>1, <1>4, <1>5, QuietActs
<1>7. OpRegular(setup.compound, op'[c]) /\ BuiltFit(c)'
  BY <1>4 DEF Facts, NoneOdd, BuiltFit, Inserting
<1>8. QED
  BY <1>1, <1>6, <1>7 DEF Good, Facts

\* A batch whose next document was checked: none but this call knows its objects.
IsChecked(c, h2) ==
  /\ HeapGrows(store.heap, h2)
  /\ \A a \in DOMAIN store.heap : h2[a] = store.heap[a]
  /\ \A b \in DOMAIN h2 \ DOMAIN store.heap :
       h2[b].from = {c} /\ h2[b].by = {c} /\ (setup.compound => ~h2[b].odd)
  /\ \E new : /\ ToSet(Built(c)) = ToSet(found[c]) \union {new}
              /\ new \in DOMAIN h2 \ DOMAIN store.heap /\ h2[new].id = NextItem(c).id
  /\ ToSet(found[c]) \subseteq DOMAIN store.heap
  /\ \A a \in ToSet(Built(c)) : a \in DOMAIN h2 /\ h2[a].from = {c} /\ h2[a].by = {c}
  /\ IsInjective(Built(c))
  /\ \A a, b \in ToSet(Built(c)) : h2[a].id = h2[b].id => a = b

LEMMA CheckedIs ==
  ASSUME TInv, Facts, NEW c \in Call, Inserting(c), ~DuplicateId(c), NEW h2, IsBuilt(c, h2)
  PROVE  IsChecked(c, h2)
<1> DEFINE h == store.heap
           f == found[c]
           n == Len(f)
           o == NewObject(c, NextItem(c))
           new == Len(h) + 1
           B == Built(c)
<1>1. /\ Adds(h2, h, <<o>>)
      /\ f \in Seq(DOMAIN h) /\ DOMAIN B = DOMAIN f \union {n + 1} /\ B[n + 1] = new
      /\ \A i \in DOMAIN f : B[i] = f[i]
      /\ NextItem(c) = op[c].items[n + 1] /\ n + 1 \in DOMAIN op[c].items
  BY DEF IsBuilt
<1>2. o.from = {c} /\ o.by = {c} /\ o.id = NextItem(c).id /\ o.odd = NextItem(c).odd
  BY DEF NewObject
<1>3. new = Len(h) + 1
  OBVIOUS
<1> HIDE DEF h, o, new, B, n
<1>4. HeapGrows(h, h2) /\ DOMAIN h2 = DOMAIN h \union {new} /\ new \notin DOMAIN h /\ h2[new] = o
  <2>1. Adds(h2, h, <<o>>)
    BY <1>1
  <2>2. HeapGrows(h, h2)
    BY <2>1, AddsGrow
  <2>3. DOMAIN h2 = DOMAIN h \union {new} /\ new \notin DOMAIN h /\ h2[new] = o
    BY <1>3, <2>1, AddsOne
  <2>4. QED
    BY <2>2, <2>3
<1>5. \A a \in DOMAIN h : h2[a] = h[a]
  BY <1>1 DEF Adds
<1>6. setup.compound => ~o.odd
  BY <1>1, <1>2 DEF Facts, NoneOdd, OpRegular
<1>7. ToSet(B) = ToSet(f) \union {new}
  <2>1. n + 1 \in DOMAIN B
    BY <1>1
  <2>2. QED
    BY <1>1, <2>1 DEF ToSet
<1>8. ToSet(f) \subseteq DOMAIN h
  BY <1>1 DEF ToSet
<1>9. /\ \A a \in ToSet(f) : h[a].from = {c} /\ h[a].by = {c}
      /\ IsInjective(f)
      /\ \A a, b \in ToSet(f) : h[a].id = h[b].id => a = b
  BY DEF Facts, BuiltFit, h
<1>10. \A a \in ToSet(f) : h[a].id # o.id
  BY <1>2 DEF DuplicateId, h
<1>11. IsInjective(B)
  <2>1. \A i \in DOMAIN f : B[i] # new
    BY <1>1, <1>4, <1>8 DEF ToSet
  <2>2. \A i, j \in DOMAIN f : B[i] = B[j] => i = j
    BY <1>1, <1>9 DEF IsInjective
  <2>3. QED
    BY <1>1, <2>1, <2>2 DEF IsInjective
<1>12. \A a \in ToSet(B) : a \in DOMAIN h2 /\ h2[a].from = {c} /\ h2[a].by = {c}
  BY <1>2, <1>4, <1>5, <1>7, <1>8, <1>9
<1>13. ASSUME NEW a \in ToSet(B), NEW b \in ToSet(B), h2[a].id = h2[b].id PROVE a = b
  <2>1. CASE a \in ToSet(f) /\ b \in ToSet(f)
    BY <1>5, <1>8, <1>9, <1>13, <2>1
  <2>2. CASE a \in ToSet(f) /\ b = new
    BY <1>4, <1>5, <1>8, <1>10, <1>13, <2>2
  <2>3. CASE a = new /\ b \in ToSet(f)
    BY <1>4, <1>5, <1>8, <1>10, <1>13, <2>3
  <2>4. QED
    BY <1>7, <2>1, <2>2, <2>3
<1>14. \A b \in DOMAIN h2 \ DOMAIN h : h2[b].from = {c} /\ h2[b].by = {c} /\ (setup.compound => ~h2[b].odd)
  BY <1>2, <1>4, <1>6
<1>15. new \in DOMAIN h2 \ DOMAIN h /\ h2[new].id = NextItem(c).id
  BY <1>2, <1>4
<1>16. QED
  BY <1>4, <1>5, <1>7, <1>8, <1>11, <1>12, <1>13, <1>14, <1>15 DEF IsChecked, h, B

\* A batch builds an object that nobody else can know.
LEMMA InsertChecksGood ==
  ASSUME TInv, Facts, NEW c \in Call, InsertChecks(c)
  PROVE  Good(c)
<1>1. /\ store' = NextBuilt(c) /\ found' = [found EXCEPT ![c] = Built(c)]
      /\ setup' = setup /\ op' = op /\ stage' = stage
      /\ Inserting(c) /\ ~DuplicateId(c)
  BY DEF InsertChecks, Finds
<1>2. PICK h2 : IsBuilt(c, h2)
  BY <1>1, BuiltIs
<1>3. IsOver(store', h2, store)
  BY <1>1, <1>2 DEF IsBuilt
<1>4. /\ store'.heap = h2 /\ store' \in Store(h2)
      /\ store'.data = store.data /\ store'.byId = store.byId /\ store'.index = store.index
  BY <1>3 DEF IsOver
<1>5. IsChecked(c, h2)
  BY <1>1, <1>2, CheckedIs
<1>6. Docs' = Docs /\ Listed(store)' = Listed(store)
  BY <1>4 DEF Docs, Listed
<1>7. Sound(setup.soft, store')
  <2>1. HeapGrows(store.heap, h2)
    BY <1>5 DEF IsChecked
  <2>2. store.heap \in Seq(Object) /\ store \in Store(store.heap) /\ Sound(setup.soft, store)
    BY StoreTypes DEF Facts
  <2>3. PICK m : m = store'
    OBVIOUS
  <2>4. m \in Store(h2) /\ m.data = store.data /\ m.byId = store.byId /\ m.index = store.index
    BY <1>4, <2>3
  <2>5. Sound(setup.soft, m)
    BY <2>1, <2>2, <2>4, HeapSound
  <2>6. QED
    BY <2>3, <2>5
<1>8. Alone(c) /\ stage'[c] = "called" /\ op'[c] = op[c] /\ found'[c] = Built(c)
  <2>1. stage[c] = "called"
    BY <1>1 DEF Inserting
  <2>2. op' = [op EXCEPT ![c] = op[c]] /\ stage' = [stage EXCEPT ![c] = stage[c]]
    BY <1>1, StoreTypes
  <2>3. setup' = setup /\ found' = [found EXCEPT ![c] = Built(c)]
    BY <1>1
  <2>4. Alone(c) /\ stage'[c] = stage[c] /\ op'[c] = op[c] /\ found'[c] = Built(c)
    BY <2>2, <2>3, StepValues
  <2>5. QED
    BY <2>1, <2>4
<1>9. ActsOnHeap(c)
  BY <1>4, <1>5 DEF ActsOnHeap, IsChecked
<1>10. ActsOnDocs(c)
  BY <1>6 DEF ActsOnDocs
<1>11. ActsOnCall(c)
  <2>1. ~Wrote(c) /\ \A i : ~Inserted(c, i)
    BY <1>1, NotYet DEF Inserting
  <2>2. Settled(c)' = {}
    BY <1>8 DEF Settled
  <2>3. \A a \in ToSet(found[c])' : store'.heap[a].from = {c}
    <3>1. ToSet(found[c])' = ToSet(Built(c))
      BY <1>8 DEF ToSet
    <3>2. QED
      BY <1>4, <1>5, <3>1 DEF IsChecked
  <2>4. QED
    BY <2>1, <2>2, <2>3 DEF ActsOnCall
<1>12. OpRegular(setup.compound, op'[c])
  BY <1>8 DEF Facts, NoneOdd
<1>13. BuiltFit(c)'
  <2>1. ToSet(found'[c]) = ToSet(Built(c)) /\ IsInjective(found'[c])
    BY <1>5, <1>8 DEF IsChecked
  <2>2. QED
    BY <1>4, <1>5, <2>1 DEF BuiltFit, IsChecked
<1>14. QED
  BY <1>7, <1>8, <1>9, <1>10, <1>11, <1>12, <1>13 DEF Good, Acts

\* A call that ends has no batch any more.
LEMMA EndGood ==
  ASSUME TInv, Facts, NEW c \in Call, Alone(c), op'[c] = op[c], stage'[c] # "called"
  PROVE  OpRegular(setup.compound, op'[c]) /\ BuiltFit(c)'
BY DEF Facts, NoneOdd, BuiltFit, Inserting

\* One that ends having called: it may have written anything.
LEMMA EndsNow ==
  ASSUME NEW c \in Call, stage'[c] \in {"done", "failed"}
  PROVE  /\ \A i : Inserted(c, i)'
         /\ stage'[c] = "done" => Wrote(c)'
         /\ stage'[c] = "failed" => Settled(c)' = {}
BY DEF Inserted, Wrote, Settled

\* Documents that go take their index entries with them.
LEMMA HardDeleteGood ==
  ASSUME TInv, Facts, NEW c \in Call, HardDelete(c)
  PROVE  Good(c)
<1>1. PICK gone \in SUBSET Docs : IsCleared(store', gone)
  BY HardDeleteIs
<1>2. /\ setup' = setup /\ op' = op /\ found' = found /\ stage' = [stage EXCEPT ![c] = "done"]
      /\ setup.soft = FALSE /\ op[c].kind = "delete"
  BY StoreTypes DEF HardDelete, Applies, GoesTo
<1>3. /\ store.heap \in Seq(Object) /\ store \in Store(store.heap) /\ Sound(FALSE, store)
  BY <1>2, StoreTypes DEF Facts
<1> DEFINE w == Without(store, gone)
<1>4. IsWithout(w, store.heap, store, gone)
  BY <1>3, WithoutType
<1>5. /\ Sound(FALSE, w) /\ ToSet(w.data) = Docs \ gone
      /\ \A i \in Id : w.byId[i] \in {store.byId[i], Nothing}
  BY <1>1, <1>3, WithoutSound DEF Docs
<1> HIDE DEF w
<1>6. w \in Store(store.heap) /\ w.heap = store.heap
  BY <1>4 DEF IsWithout
<1>7. /\ Sound(FALSE, store') /\ Docs' = Docs \ gone
      /\ Listed(store)' \subseteq Listed(store) \union Docs
  <2>1. CASE store' = w
    <3>1. Sound(FALSE, store')
      BY <1>5, <2>1
    <3>2. QED
      BY <1>5, <2>1, <3>1 DEF Docs, Listed
  <2>2. CASE IsRebuilt(store', store.heap, w, SetInIndex(store.heap, NoIds, w.data))
    <3>1. PICK r : r = store'
      OBVIOUS
    <3>2. IsRebuilt(r, store.heap, w, SetInIndex(store.heap, NoIds, w.data))
      BY <2>2, <3>1
    <3>3. Sound(FALSE, r) /\ \A i \in Id : r.byId[i] \in ToSet(w.data) \union {Nothing}
      BY <1>3, <1>5, <1>6, <3>2, RebuildSound
    <3>4. r.data = w.data
      BY <3>2 DEF IsRebuilt
    <3>5. Sound(FALSE, store')
      BY <3>1, <3>3
    <3>6. QED
      BY <1>5, <3>1, <3>3, <3>4, <3>5 DEF Docs, Listed
  <2>3. QED
    BY <1>1, <2>1, <2>2 DEF IsCleared, w
<1>8. store'.heap = store.heap
  BY <1>1, ClearedType
<1>9. Alone(c) /\ stage'[c] = "done" /\ op'[c] = op[c] /\ found'[c] = found[c]
  <2>1. op' = [op EXCEPT ![c] = op[c]] /\ found' = [found EXCEPT ![c] = found[c]]
    BY <1>2, StoreTypes
  <2>2. QED
    BY <1>2, <2>1, StepValues
<1>10. ActsOnHeap(c)
  BY <1>3, <1>8 DEF ActsOnHeap, HeapGrows
<1>11. ActsOnDocs(c)
  BY <1>7 DEF ActsOnDocs
<1>12. ActsOnCall(c)
  <2>1. Settled(c)' = {}
    BY <1>2, <1>9 DEF Settled
  <2>2. ToSet(found[c])' = ToSet(found[c])
    BY <1>9 DEF ToSet
  <2>3. QED
    BY <1>9, <2>1, <2>2, EndsNow DEF ActsOnCall
<1>13. QED
  BY <1>2, <1>7, <1>9, <1>10, <1>11, <1>12, EndGood DEF Good, Acts

LEMMA SetInIndexIs ==
  ASSUME NEW h \in Seq(Object), NEW byId, NEW f \in Seq(DOMAIN h), NEW i \in Id
  PROVE  SetInIndex(h, byId, f)[i] \in {byId[i]} \union ToSet(f)
<1> DEFINE with == {a \in DOMAIN h : h[a].id = i}
           b == byId[i]
           D == DOMAIN h
<1>1. SetInIndex(h, byId, f)[i] = LastOf(f, with, b)
  BY DEF SetInIndex
<1>2. f \in Seq(D)
  OBVIOUS
<1> HIDE DEF with, b, D
<1>3. IF ToSet(f) \intersect with = {} THEN LastOf(f, with, b) = b
                                       ELSE LastOf(f, with, b) \in ToSet(f) \intersect with
  BY <1>2, LastIs
<1>4. LastOf(f, with, b) \in {b} \union ToSet(f)
  BY <1>3
<1>5. QED
  BY <1>1, <1>4 DEF b

\* Marks are set in the objects found, which are versions of themselves.
LEMMA DeleteGood ==
  ASSUME TInv, Facts, NEW c \in Call, SoftDelete(c) \/ RestoreDoc(c)
  PROVE  Good(c)
<1>1. PICK flag \in BOOLEAN : store' = SetDeleted(c, flag)
  BY DEF SoftDelete, RestoreDoc, Applies
<1>2. /\ setup' = setup /\ op' = op /\ found' = found
      /\ stage' = [stage EXCEPT ![c] = "done"]
      /\ stage[c] = "entered" /\ op[c].kind \in {"delete", "restore"}
  BY DEF SoftDelete, RestoreDoc, Applies, GoesTo
<1>3. IsSet(c, store')
  BY <1>1, <1>2, SetDeletedIs
<1>4. /\ store.heap \in Seq(Object) /\ store \in Store(store.heap) /\ Sound(setup.soft, store)
      /\ found[c] \in Seq(DOMAIN store.heap) /\ Nothing \notin ToSet(found[c])
  <2>1. Nothing \notin ToSet(found[c])
    BY <1>2, CallTypes DEF CallFits
  <2>2. QED
    BY <1>3, <2>1, StoreTypes DEF Facts, IsSet
<1>5. ASSUME NEW i \in Id PROVE store'.byId[i] \in {store.byId[i]} \union ToSet(found[c])
  <2>1. store'.byId = SetInIndex(store.heap, store.byId, found[c])
    BY <1>3 DEF IsSet
  <2>2. SetInIndex(store.heap, store.byId, found[c])[i] \in {store.byId[i]} \union ToSet(found[c])
    BY <1>4, SetInIndexIs
  <2>3. QED
    BY <2>1, <2>2
<1>6. Sound(setup.soft, store')
  <2>1. PICK m : m = store'
    OBVIOUS
  <2>2. /\ m \in Store(m.heap) /\ HeapGrows(store.heap, m.heap)
        /\ m.data = store.data /\ m.index = store.index
    BY <1>3, <2>1 DEF IsSet
  <2>3. setup.soft /\ \A i \in Id : store.byId[i] # Nothing => m.byId[i] # Nothing
    BY <1>3, <1>4, <1>5, <2>1 DEF IsSet
  <2>4. PICK soft : soft = setup.soft
    OBVIOUS
  <2>5. Sound(soft, m)
    BY <1>4, <2>2, <2>3, <2>4, HeapSound
  <2>6. QED
    BY <2>1, <2>4, <2>5
<1>7. Alone(c) /\ stage'[c] = "done" /\ op'[c] = op[c] /\ found'[c] = found[c]
  <2>1. op' = [op EXCEPT ![c] = op[c]] /\ found' = [found EXCEPT ![c] = found[c]]
    BY <1>2, StoreTypes
  <2>2. QED
    BY <1>2, <2>1, StepValues
<1>8. ActsOnHeap(c)
  <2>1. DOMAIN store'.heap = DOMAIN store.heap /\ HeapGrows(store.heap, store'.heap)
    BY <1>3 DEF IsSet
  <2>2. ASSUME NEW a \in DOMAIN store.heap
        PROVE  \/ store'.heap[a].by = store.heap[a].by
               \/ store'.heap[a].by = store.heap[a].by \union {c} /\ a \in ToSet(found[c])
    <3>1. store'.heap[a].by = store.heap[a].by \union (IF a \in ToSet(found[c]) THEN {c} ELSE {})
      BY <1>3 DEF IsSet
    <3>2. QED
      BY <3>1
  <2>3. QED
    BY <1>7, <2>1, <2>2 DEF ActsOnHeap
<1>9. ActsOnDocs(c)
  <2>1. Docs' = Docs
    BY <1>3 DEF Docs, IsSet
  <2>2. Listed(store)' \subseteq Listed(store) \union ToSet(found[c])
    BY <1>4, <1>5 DEF Listed
  <2>3. QED
    BY <1>7, <2>1, <2>2 DEF ActsOnDocs
<1>10. ActsOnCall(c)
  <2>1. Settled(c)' = {}
    BY <1>2, <1>7 DEF Settled
  <2>2. ToSet(found[c])' = ToSet(found[c])
    BY <1>7 DEF ToSet
  <2>3. QED
    BY <1>7, <2>1, <2>2, EndsNow DEF ActsOnCall
<1>11. QED
  BY <1>6, <1>7, <1>8, <1>9, <1>10, EndGood DEF Good, Acts

\* No object is refused, and the batch of c is indexed and pushed.
IsLanded(c, h2, st, res) ==
  /\ st \in Store(h2) /\ st.heap = h2
  /\ st.data = store.data /\ st.byId = store.byId /\ st.index = store.index
  /\ res = Push([st EXCEPT !.index = IndexDocs(h2, st.index, Built(c))], Built(c))

LEMMA LandedIs ==
  ASSUME TInv, Facts, NEW c \in Call, InsertLands(c), NEW h2, IsBuilt(c, h2), IsChecked(c, h2)
  PROVE  \E st, res : /\ IsLanded(c, h2, st, res)
                      /\ store' = Capped(res) /\ stage' = [stage EXCEPT ![c] = "done"]
                      /\ BatchIsUnique(h2, store.index, Built(c))
<1> DEFINE st == NextBuilt(c)
           odd == {i \in DOMAIN Built(c) : Refused(st.heap, Built(c)[i])}
           first == {Built(c)[i] : i \in {i \in DOMAIN Built(c) : \A j \in odd : i <= j}}
           added == IF odd = {} THEN Built(c) ELSE Only(Built(c), first)
           indexed == [st EXCEPT !.index = IndexDocs(st.heap, @, added)]
           ix == IndexDocs(st.heap, st.index, Built(c))
           res == Push([st EXCEPT !.index = ix], Built(c))
<1>1. /\ KeysAreFree(c)
      /\ IF odd = {} THEN Applies(c, Capped(Push(indexed, Built(c)))) ELSE Fails(c, indexed)
  BY DEF InsertLands
<1>2. IsOver(st, h2, store)
  BY DEF IsBuilt
<1>3. /\ st \in Store(h2) /\ st.heap = h2
      /\ st.data = store.data /\ st.byId = store.byId /\ st.index = store.index
  BY <1>2 DEF IsOver
<1> HIDE DEF st
<1>4. odd = {}
  <2> SUFFICES ASSUME NEW i \in DOMAIN Built(c), Refused(h2, Built(c)[i]) PROVE FALSE
    BY <1>3
  <2> DEFINE a == Built(c)[i]
  <2>1. setup.compound /\ h2[a].odd
    BY DEF Refused
  <2>2. a \in ToSet(Built(c))
    BY DEF ToSet
  <2>3. a \in DOMAIN h2
    BY <2>2 DEF IsChecked
  <2>4. CASE a \in DOMAIN store.heap
    BY <2>1, <2>4 DEF IsChecked, Facts, NoneOdd
  <2>5. CASE a \notin DOMAIN store.heap
    BY <2>1, <2>3, <2>5 DEF IsChecked
  <2>6. QED
    BY <2>4, <2>5
<1>5. added = Built(c)
  BY <1>4
<1>6. Applies(c, Capped(Push(indexed, Built(c))))
  BY <1>1, <1>4
<1> HIDE DEF odd, first, added
<1>7. indexed = [st EXCEPT !.index = IndexDocs(st.heap, st.index, added)]
  OBVIOUS
<1>8. indexed = [st EXCEPT !.index = ix]
  BY <1>5, <1>7
<1> HIDE DEF indexed
<1>9. store' = Capped(res) /\ stage' = [stage EXCEPT ![c] = "done"]
  BY <1>6, <1>8 DEF Applies, GoesTo
<1>10. IsLanded(c, h2, st, res)
  BY <1>3 DEF IsLanded
<1> HIDE DEF res
<1>11. BatchIsUnique(h2, store.index, Built(c))
  BY <1>1, <1>3 DEF KeysAreFree, st
<1>12. QED
  BY <1>9, <1>10, <1>11

\* What is indexed and pushed is fresh.
LEMMA LandsSound ==
  ASSUME TInv, Facts, BatchesKeepIds, NEW c \in Call, InsertLands(c), NEW h2, IsBuilt(c, h2),
         IsChecked(c, h2), NEW st, NEW res, IsLanded(c, h2, st, res),
         BatchIsUnique(h2, store.index, Built(c))
  PROVE  /\ res \in Store(h2)
         /\ Sound(setup.soft, res)
         /\ ToSet(res.data) = Docs \union ToSet(Built(c))
         /\ \A i \in Id : res.byId[i] \in {store.byId[i]} \union ToSet(Built(c))
<1> DEFINE h == store.heap
           B == Built(c)
           soft == setup.soft
           indexed == [st EXCEPT !.index = IndexDocs(h2, st.index, B)]
<1>1. /\ h \in Seq(Object) /\ store \in Store(h) /\ Sound(soft, store)
      /\ st \in Store(h2) /\ st.data = store.data /\ st.byId = store.byId /\ st.index = store.index
      /\ HeapGrows(h, h2) /\ h2 \in Seq(Object) /\ B \in Seq(DOMAIN h2) /\ IsInjective(B)
  BY StoreTypes DEF Facts, IsLanded, IsChecked, IsBuilt, HeapGrows
<1>2. Sound(soft, st)
  <2> HIDE DEF h, B, soft
  <2>1. QED
    BY <1>1, HeapSound
<1>3. FreshIds(h2, ToSet(st.data), st.byId, ToSet(B))
  <2>1. ASSUME NEW a \in ToSet(B) PROVE st.byId[h2[a].id] = Nothing
    <3>1. /\ Inserting(c) /\ LastItem(c) /\ ~DuplicateId(c)
      BY DEF InsertLands
    <3>2. PICK new : /\ ToSet(Built(c)) = ToSet(found[c]) \union {new}
                     /\ h2[new].id = NextItem(c).id
      BY DEF IsChecked
    <3>3. CASE a = new
      BY <1>1, <3>1, <3>2, <3>3 DEF DuplicateId
    <3>4. CASE a \in ToSet(found[c])
      <4>1. store.byId[store.heap[a].id] = Nothing
        BY <3>1, <3>4 DEF BatchesKeepIds
      <4>2. h2[a] = store.heap[a]
        BY <3>4 DEF IsChecked
      <4>3. QED
        BY <1>1, <4>1, <4>2
    <3>5. QED
      BY <3>2, <3>3, <3>4
  <2>2. QED
    BY <2>1 DEF FreshIds, IsChecked
<1>4. FreshKeys(h2, st.index, ToSet(B))
  <2>1. ASSUME NEW a \in ToSet(B) PROVE ~Refused(h2, a)
    <3>1. a \in DOMAIN h2
      BY DEF IsChecked
    <3>2. CASE a \in DOMAIN store.heap
      BY <3>2 DEF IsChecked, Facts, NoneOdd, Refused
    <3>3. CASE a \notin DOMAIN store.heap
      BY <3>1, <3>3 DEF IsChecked, Refused
    <3>4. QED
      BY <3>2, <3>3
  <2>2. ASSUME NEW a \in ToSet(B), h2[a].key # Nothing
        PROVE  /\ st.index.unique[h2[a].key] = Nothing
               /\ \A b \in ToSet(B) : h2[b].key = h2[a].key => a = b
    <3>1. PICK i \in DOMAIN B : a = B[i]
      BY DEF ToSet
    <3>2. store.index.unique[h2[a].key] = Nothing
      BY <2>2, <3>1 DEF BatchIsUnique
    <3>3. ASSUME NEW b \in ToSet(B), h2[b].key = h2[a].key PROVE a = b
      <4>1. PICK j \in DOMAIN B : b = B[j]
        BY DEF ToSet
      <4>2. i \in Nat /\ j \in Nat /\ i >= 1 /\ j >= 1
        BY <1>1
      <4>3. CASE i = j
        BY <3>1, <4>1, <4>3
      <4>4. CASE j < i
        <5>1. j \in 1 .. i - 1
          BY <4>2, <4>4
        <5>2. QED
          BY <2>2, <3>1, <3>3, <4>1, <5>1 DEF BatchIsUnique
      <4>5. CASE i < j
        <5>1. i \in 1 .. j - 1
          BY <4>2, <4>5
        <5>2. QED
          BY <2>2, <3>1, <3>3, <4>1, <5>1 DEF BatchIsUnique
      <4>6. QED
        BY <4>2, <4>3, <4>4, <4>5
    <3>4. QED
      BY <1>1, <3>2, <3>3
  <2>3. QED
    BY <2>1, <2>2 DEF FreshKeys
<1>5. IsIndexed(indexed, h2, st, IndexDocs(h2, st.index, B))
  <2>1. st.index \in Index(h2)
    BY <1>1, StoreParts
  <2> HIDE DEF B
  <2> DEFINE ix == IndexDocs(h2, st.index, B)
  <2>2. ix \in Index(h2)
    BY <1>1, <2>1, IndexDocsType
  <2> HIDE DEF ix
  <2>3. IsIndexed([st EXCEPT !.index = ix], h2, st, ix)
    BY <1>1, <2>2, IndexType
  <2>4. QED
    BY <2>3 DEF ix
<1>6. res = Push(indexed, B)
  BY DEF IsLanded
<1> HIDE DEF h, B, soft, indexed
<1>7. indexed \in Store(h2)
  BY <1>5 DEF IsIndexed
<1>8. IsPush(Push(indexed, B), h2, indexed, B)
  BY <1>1, <1>7, PushType
<1>9. IsPush(res, h2, indexed, B)
  BY <1>6, <1>8
<1>10. /\ res \in Store(h2) /\ res.data = st.data \o B
       /\ res.byId = SetInIndex(h2, st.byId, B) /\ res.index = IndexDocs(h2, st.index, B)
  BY <1>5, <1>9 DEF IsPush, IsIndexed
<1>11. /\ Sound(soft, res)
       /\ ToSet(res.data) = ToSet(st.data) \union ToSet(B)
       /\ \A i \in Id : res.byId[i] \in {st.byId[i]} \union ToSet(B)
  BY <1>1, <1>2, <1>3, <1>4, <1>10, AddSound
<1>12. QED
  BY <1>1, <1>10, <1>11 DEF Docs, B, soft

\* The objects of a batch become documents at once, all of them.
LEMMA InsertLandsGood ==
  ASSUME TInv, Facts, BatchesKeepIds, NEW c \in Call, InsertLands(c)
  PROVE  Good(c)
<1>1. /\ Inserting(c) /\ ~DuplicateId(c)
      /\ found' = [found EXCEPT ![c] = Built(c)] /\ setup' = setup /\ op' = op
  BY DEF InsertLands, Finds
<1>2. PICK h2 : IsBuilt(c, h2)
  BY <1>1, BuiltIs
<1>3. IsChecked(c, h2)
  BY <1>1, <1>2, CheckedIs
<1>4. PICK st, res : /\ IsLanded(c, h2, st, res)
                     /\ store' = Capped(res) /\ stage' = [stage EXCEPT ![c] = "done"]
                     /\ BatchIsUnique(h2, store.index, Built(c))
  BY <1>2, <1>3, LandedIs
<1>5. /\ res \in Store(h2) /\ Sound(setup.soft, res)
      /\ ToSet(res.data) = Docs \union ToSet(Built(c))
      /\ \A i \in Id : res.byId[i] \in {store.byId[i]} \union ToSet(Built(c))
  BY <1>2, <1>3, <1>4, LandsSound
<1>6. PICK soft : soft = setup.soft
  OBVIOUS
<1>7. IsRest(store', h2, soft, res)
  <2>1. IsRest(Capped(res), h2, soft, res)
    BY <1>3, <1>5, CappedIs, StoreTypes DEF IsChecked, HeapGrows
  <2>2. QED
    BY <1>4, <2>1
<1>8. /\ store'.heap = h2 /\ Sound(setup.soft, store')
      /\ Docs' \subseteq Docs \union ToSet(Built(c))
      /\ Listed(store)' \subseteq Listed(store) \union ToSet(Built(c))
  <2>1. /\ store'.heap = h2 /\ Sound(soft, store')
        /\ ToSet(store'.data) \subseteq ToSet(res.data)
        /\ \A i \in Id : store'.byId[i] \in {res.byId[i], Nothing}
    BY <1>5, <1>6, <1>7 DEF IsRest
  <2>2. QED
    BY <1>5, <1>6, <2>1 DEF Docs, Listed
<1>9. Alone(c) /\ stage'[c] = "done" /\ op'[c] = op[c] /\ found'[c] = Built(c)
  <2>1. op' = [op EXCEPT ![c] = op[c]]
    BY <1>1, StoreTypes
  <2>2. QED
    BY <1>1, <1>4, <2>1, StepValues
<1>10. ActsOnHeap(c)
  BY <1>3, <1>8 DEF ActsOnHeap, IsChecked
<1>11. ~Wrote(c) /\ \A i : ~Inserted(c, i)
  BY <1>1, NotYet DEF Inserting
<1>12. ASSUME NEW b \in ToSet(Built(c)) PROVE Born(c, b)
  <2>1. store'.heap[b].from = {c} /\ store'.heap[b].by = {c}
    BY <1>3, <1>8 DEF IsChecked
  <2>2. Inserted(c, store.heap[b].id)'
    BY <1>9 DEF Inserted
  <2>3. QED
    BY <1>11, <2>1, <2>2 DEF Born
<1>13. Wrote(c)' /\ \A i : Inserted(c, i)'
  BY <1>9, EndsNow
<1>14. ActsOnDocs(c)
  BY <1>8, <1>12, <1>13 DEF ActsOnDocs
<1>15. ActsOnCall(c)
  <2>1. \A a \in ToSet(found[c])' : store'.heap[a].from = {c}
    <3>1. ToSet(found[c])' = ToSet(Built(c))
      BY <1>9 DEF ToSet
    <3>2. QED
      BY <1>3, <1>8, <3>1 DEF IsChecked
  <2>2. ASSUME NEW i \in Settled(c)', NEW b \in Docs' \intersect Docs,
               store'.heap[b].from = store'.heap[found'[c][i]].from
        PROVE  c \in store'.heap[b].by
    <3>1. i \in DOMAIN Built(c)
      BY <1>9 DEF Settled
    <3>2. Built(c)[i] \in ToSet(Built(c))
      BY <3>1 DEF ToSet
    <3>3. h2[b].from = {c}
      BY <1>3, <1>8, <1>9, <2>2, <3>2 DEF IsChecked
    <3>4. b \in DOMAIN store.heap
      BY InHeap
    <3>5. store.heap[b].from = {c} /\ store'.heap[b] = store.heap[b]
      BY <1>3, <1>8, <3>3, <3>4 DEF IsChecked
    <3>6. store.heap[b].from \subseteq store.heap[b].by
      BY <3>4 DEF Facts, HeapFits
    <3>7. QED
      BY <3>5, <3>6
  <2>3. QED
    BY <1>13, <2>1, <2>2 DEF ActsOnCall
<1>16. OpRegular(setup.compound, op'[c]) /\ BuiltFit(c)'
  BY <1>9, EndGood
<1>17. QED
  BY <1>8, <1>9, <1>10, <1>14, <1>15, <1>16 DEF Good, Acts

\* What writing an item does, to a new object at new.
IsWritten(c, item, old, r, new) ==
  /\ Sound(setup.soft, r.st)
  /\ HeapGrows(store.heap, r.st.heap)
  /\ \A a \in DOMAIN store.heap : r.st.heap[a] = store.heap[a]
  /\ new \notin DOMAIN store.heap /\ DOMAIN r.st.heap \subseteq DOMAIN store.heap \union {new}
  /\ new \in DOMAIN r.st.heap =>
       /\ setup.compound => ~r.st.heap[new].odd
       /\ old = Nothing => /\ r.st.heap[new].from = {c} /\ r.st.heap[new].by = {c}
                           /\ r.st.heap[new].id = item.id
       /\ old # Nothing => /\ r.st.heap[new].id = store.heap[old].id
                           /\ r.st.heap[new].from = store.heap[old].from
                           /\ r.st.heap[new].by = store.heap[old].by \union {c}
  /\ ToSet(r.st.data) \subseteq Docs \union {new}
  /\ Listed(r.st) \subseteq Listed(store) \union {new}
  /\ new \in ToSet(r.st.data) \union Listed(r.st) =>
       /\ new \in DOMAIN r.st.heap
       /\ old = Nothing => item.id \notin Before(c)
       /\ old # Nothing => old \in Docs
  /\ r.ok /\ old # Nothing => new \in ToSet(r.st.data)

\* The store with the new object that nothing holds yet.
LEMMA NextSound ==
  ASSUME TInv, Facts, NEW o, NEW st, NEW new, IsNext(o, st, new)
  PROVE  /\ st.heap \in Seq(Object) /\ st \in Store(st.heap) /\ Sound(setup.soft, st)
         /\ st.data = store.data /\ st.byId = store.byId /\ st.index = store.index
         /\ \A a \in DOMAIN store.heap : st.heap[a] = store.heap[a]
         /\ new \in DOMAIN st.heap /\ new \notin Docs /\ new \notin Listed(store)
         /\ HeapGrows(store.heap, st.heap) /\ ToSet(st.data) = Docs /\ Listed(st) = Listed(store)
<1>1. /\ st.heap \in Seq(Object) /\ st \in Store(st.heap)
      /\ st.data = store.data /\ st.byId = store.byId /\ st.index = store.index
      /\ HeapGrows(store.heap, st.heap)
      /\ new \in DOMAIN st.heap /\ new \notin DOMAIN store.heap
  BY DEF IsNext, IsOver
<1>2. \A a \in DOMAIN store.heap : st.heap[a] = store.heap[a]
  BY DEF IsNext, Adds
<1>3. PICK soft : soft = setup.soft
  OBVIOUS
<1>4. store.heap \in Seq(Object) /\ store \in Store(store.heap) /\ Sound(soft, store)
  BY <1>3, StoreTypes DEF Facts
<1>5. PICK h, h2 : h = store.heap /\ h2 = st.heap
  OBVIOUS
<1>6. Sound(soft, st)
  <2>1. h \in Seq(Object) /\ store \in Store(h) /\ HeapGrows(h, h2) /\ st \in Store(h2)
    BY <1>1, <1>4, <1>5
  <2>2. QED
    BY <1>1, <1>4, <2>1, HeapSound
<1>7. QED
  BY <1>1, <1>2, <1>3, <1>6, InHeap DEF Docs, Listed

\* Nothing was written.
LEMMA NotWritten ==
  ASSUME TInv, Facts, NEW c \in Call, NEW item, NEW old, NEW r, r.st = store, r.ok = FALSE,
         NEW new, new \notin DOMAIN store.heap
  PROVE  IsWritten(c, item, old, r, new)
<1>1. HeapGrows(store.heap, store.heap)
  BY StoreTypes DEF HeapGrows
<1>2. new \notin Docs /\ new \notin Listed(store)
  BY InHeap
<1>3. QED
  BY <1>1, <1>2 DEF IsWritten, Facts, Docs

\* An item that updates a document puts one version in its place.
LEMMA UpsertUpdateWritten ==
  ASSUME TInv, Facts, NEW c \in Call, NEW item \in Item, setup.compound => ~item.odd,
         NEW old \in DOMAIN store.heap, NEW st, NEW new, NEW r,
         IsUpsertUpdate(c, item, old, st, new, r)
  PROVE  IsWritten(c, item, old, r, new)
<1> DEFINE o == UpdatedTo(c, store.heap[old], item)
<1>1. IsNext(o, st, new)
  BY DEF IsUpsertUpdate
<1>2. /\ o.id = store.heap[old].id /\ o.from = store.heap[old].from
      /\ o.by = store.heap[old].by \union {c} /\ o.odd = item.odd
  <2>1. store.heap[old] \in Object
    BY StoreTypes
  <2>2. QED
    BY <2>1, UpdatedToIs
<1> HIDE DEF o
<1>3. /\ st.heap \in Seq(Object) /\ st \in Store(st.heap) /\ Sound(setup.soft, st)
      /\ st.data = store.data /\ st.byId = store.byId /\ st.index = store.index
      /\ \A a \in DOMAIN store.heap : st.heap[a] = store.heap[a]
      /\ new \in DOMAIN st.heap /\ new \notin Docs /\ new \notin Listed(store)
      /\ HeapGrows(store.heap, st.heap) /\ ToSet(st.data) = Docs /\ Listed(st) = Listed(store)
  BY <1>1, NextSound
<1>4. /\ DOMAIN st.heap = DOMAIN store.heap \union {new}
      /\ new \notin DOMAIN store.heap /\ st.heap[new] = o /\ old # Nothing
  BY <1>1, InHeap DEF IsNext
<1>5. CASE r.ok = FALSE /\ r.st = store
  BY <1>4, <1>5, NotWritten
<1>6. CASE /\ CandidatesAreUnique(st.heap, st.index, <<old>>, <<new>>)
           /\ r = CommitUpdatedDoc(st, old, new)
  <2>1. old \in DOMAIN st.heap /\ st.heap[new].id = st.heap[old].id /\ ~Refused(st.heap, new)
    BY <1>2, <1>3, <1>4 DEF Refused
  <2>2. ~Taken(st.heap, st.index, new, st.heap[old].id)
    <3> DEFINE k == st.heap[new].key
    <3>1. ToSet(<<old>>) = {old} /\ 1 \in DOMAIN <<new>> /\ <<new>>[1] = new
      BY DEF ToSet
    <3>2. k # Nothing => (st.index.unique[k] # Nothing => st.heap[st.index.unique[k]].id = st.heap[old].id)
      BY <1>6, <3>1 DEF CandidatesAreUnique
    <3>3. QED
      BY <3>2 DEF Taken
  <2>3. PICK h2, soft : h2 = st.heap /\ soft = setup.soft
    OBVIOUS
  <2>4. IsCommitted(r, h2, soft, st, old, new)
    <3>1. /\ h2 \in Seq(Object) /\ st \in Store(h2) /\ Sound(soft, st)
          /\ old \in DOMAIN h2 /\ new \in DOMAIN h2 /\ new \notin ToSet(st.data)
          /\ h2[new].id = h2[old].id /\ ~Refused(h2, new)
          /\ ~Taken(h2, st.index, new, h2[old].id)
          /\ r = CommitUpdatedDoc(st, old, new)
      BY <1>3, <1>6, <2>1, <2>2, <2>3
    <3>2. QED
      BY <3>1, CommitSound
  <2>5. CASE old \notin ToSet(st.data)
    <3>1. r.st = st /\ r.ok = FALSE
      BY <2>4, <2>5 DEF IsCommitted
    <3>2. QED
      BY <1>2, <1>3, <1>4, <3>1 DEF IsWritten
  <2>6. CASE old \in ToSet(st.data)
    <3>1. /\ r.ok = TRUE /\ r.st \in Store(h2) /\ Sound(soft, r.st)
          /\ ToSet(r.st.data) = (ToSet(st.data) \ {old}) \union {new}
          /\ \A i \in Id : r.st.byId[i] \in {st.byId[i], new}
      BY <2>4, <2>6 DEF IsCommitted
    <3>2. r.st.heap = st.heap
      BY <2>3, <3>1 DEF Store
    <3>3. Listed(r.st) \subseteq Listed(store) \union {new}
      BY <1>3, <3>1 DEF Listed
    <3>4. ToSet(r.st.data) \subseteq Docs \union {new} /\ new \in ToSet(r.st.data) /\ old \in Docs
      BY <1>3, <2>6, <3>1
    <3>5. /\ HeapGrows(store.heap, r.st.heap)
          /\ \A a \in DOMAIN store.heap : r.st.heap[a] = store.heap[a]
          /\ new \notin DOMAIN store.heap /\ DOMAIN r.st.heap \subseteq DOMAIN store.heap \union {new}
          /\ setup.compound => ~r.st.heap[new].odd
          /\ r.st.heap[new].id = store.heap[old].id
          /\ r.st.heap[new].from = store.heap[old].from
          /\ r.st.heap[new].by = store.heap[old].by \union {c}
          /\ new \in DOMAIN r.st.heap
      BY <1>2, <1>3, <1>4, <3>2
    <3>6. Sound(setup.soft, r.st)
      BY <2>3, <3>1
    <3>7. QED
      BY <1>4, <3>3, <3>4, <3>5, <3>6 DEF IsWritten
  <2>7. QED
    BY <2>5, <2>6
<1>7. QED
  BY <1>5, <1>6 DEF IsUpsertUpdate

\* An item that is inserted is fresh.
LEMMA UpsertInsertWritten ==
  ASSUME TInv, Facts, NEW c \in Call, NEW item \in Item, setup.compound => ~item.odd,
         NEW st, NEW new, NEW r, IsUpsertInsert(c, item, st, new, r)
  PROVE  IsWritten(c, item, Nothing, r, new)
<1> DEFINE o == NewObject(c, item)
<1>1. IsNext(o, st, new)
  BY DEF IsUpsertInsert
<1>2. o.id = item.id /\ o.from = {c} /\ o.by = {c} /\ o.odd = item.odd
  BY DEF NewObject
<1> HIDE DEF o
<1>3. /\ st.heap \in Seq(Object) /\ st \in Store(st.heap) /\ Sound(setup.soft, st)
      /\ st.data = store.data /\ st.byId = store.byId /\ st.index = store.index
      /\ \A a \in DOMAIN store.heap : st.heap[a] = store.heap[a]
      /\ new \in DOMAIN st.heap /\ new \notin Docs /\ new \notin Listed(store)
      /\ HeapGrows(store.heap, st.heap) /\ ToSet(st.data) = Docs /\ Listed(st) = Listed(store)
  BY <1>1, NextSound
<1>4. /\ DOMAIN st.heap = DOMAIN store.heap \union {new}
      /\ new \notin DOMAIN store.heap /\ st.heap[new] = o
  BY <1>1 DEF IsNext
<1>5. ~Refused(st.heap, new)
  BY <1>2, <1>4 DEF Refused
<1>6. CASE r.ok = FALSE /\ r.st = store
  BY <1>4, <1>6, NotWritten
<1>7. CASE /\ store.byId[item.id] = Nothing /\ item.id \notin Before(c)
           /\ BatchIsUnique(st.heap, st.index, <<new>>)
           /\ r.st.heap = st.heap
           /\ r.ok = TRUE
           /\ r.st.data = st.data \o <<new>>
           /\ r.st.byId = SetInIndex(st.heap, st.byId, <<new>>)
           /\ r.st.index = IndexDocs(st.heap, st.index, <<new>>)
  <2> DEFINE one == <<new>>
  <2>1. PICK h2, soft, res : h2 = st.heap /\ soft = setup.soft /\ res = r.st
    OBVIOUS
  <2>2. ToSet(one) = {new} /\ IsInjective(one) /\ 1 \in DOMAIN one /\ one[1] = new
    BY DEF ToSet, IsInjective
  <2>3. one \in Seq(DOMAIN h2)
    <3> DEFINE D == DOMAIN h2
    <3>1. new \in D
      BY <1>3, <2>1
    <3> HIDE DEF D
    <3>2. one \in Seq(D)
      BY <3>1
    <3>3. QED
      BY <3>2 DEF D
  <2>4. FreshIds(h2, ToSet(st.data), st.byId, {new})
    BY <1>2, <1>3, <1>4, <1>7, <2>1 DEF FreshIds
  <2>5. FreshKeys(h2, st.index, {new})
    <3>1. st.heap[new].key # Nothing => st.index.unique[st.heap[new].key] = Nothing
      BY <1>7, <2>2 DEF BatchIsUnique
    <3>2. QED
      BY <1>5, <2>1, <3>1 DEF FreshKeys
  <2>6. res \in Store(h2)
    BY <1>7, <2>1 DEF IsUpsertInsert
  <2>7. /\ res.data = st.data \o one /\ res.byId = SetInIndex(h2, st.byId, one)
        /\ res.index = IndexDocs(h2, st.index, one)
    BY <1>7, <2>1
  <2>8. h2 \in Seq(Object) /\ st \in Store(h2) /\ Sound(soft, st)
    BY <1>3, <2>1
  <2> HIDE DEF one
  <2>9. /\ Sound(soft, res)
        /\ ToSet(res.data) = ToSet(st.data) \union ToSet(one)
        /\ \A i \in Id : res.byId[i] \in {st.byId[i]} \union ToSet(one)
    <3>1. FreshIds(h2, ToSet(st.data), st.byId, ToSet(one)) /\ FreshKeys(h2, st.index, ToSet(one))
      BY <2>2, <2>4, <2>5
    <3>2. QED
      BY <2>2, <2>3, <2>6, <2>7, <2>8, <3>1, AddSound
  <2>10. ToSet(r.st.data) \subseteq Docs \union {new} /\ Listed(r.st) \subseteq Listed(store) \union {new}
    BY <1>3, <2>1, <2>2, <2>9 DEF Listed
  <2>11. /\ HeapGrows(store.heap, r.st.heap)
         /\ \A a \in DOMAIN store.heap : r.st.heap[a] = store.heap[a]
         /\ new \notin DOMAIN store.heap /\ DOMAIN r.st.heap \subseteq DOMAIN store.heap \union {new}
         /\ setup.compound => ~r.st.heap[new].odd
         /\ r.st.heap[new].id = item.id
         /\ r.st.heap[new].from = {c} /\ r.st.heap[new].by = {c}
         /\ new \in DOMAIN r.st.heap
    BY <1>2, <1>3, <1>4, <1>7
  <2>12. Sound(setup.soft, r.st)
    BY <2>1, <2>9
  <2>13. QED
    BY <1>7, <2>10, <2>11, <2>12 DEF IsWritten
<1>8. QED
  BY <1>5, <1>6, <1>7 DEF IsUpsertInsert

LEMMA LongerIs ==
  ASSUME NEW X, NEW f \in Seq(X), NEW p \in Seq(X), Len(p) = 1
  PROVE  /\ Len(f \o p) - 1 = Len(f)
         /\ \A j \in 1 .. Len(f) : (f \o p)[j] = f[j]
         /\ ToSet(f \o p) = ToSet(f) \union ToSet(p)
<1>1. Len(f) \in Nat
  OBVIOUS
<1>2. /\ Len(f \o p) = Len(f) + Len(p)
      /\ \A j \in 1 .. Len(f) + Len(p) : (f \o p)[j] = IF j <= Len(f) THEN f[j] ELSE p[j - Len(f)]
  BY ConcatProperties
<1>3. ToSet(f \o p) = ToSet(f) \union ToSet(p)
  BY RangeConcat
<1>4. Len(f \o p) - 1 = Len(f)
  BY <1>1, <1>2
<1>5. ASSUME NEW j \in 1 .. Len(f) PROVE (f \o p)[j] = f[j]
  <2>1. j \in 1 .. Len(f) + Len(p) /\ j <= Len(f)
    BY <1>1
  <2>2. QED
    BY <1>2, <2>1
<1>6. QED
  BY <1>3, <1>4, <1>5

\* A turn of upsertMany() fails, goes on or ends.
IsOutcome(c, r, f, p) ==
  \/ stage'[c] = "failed" /\ f = found[c] /\ store' = r.st
  \/ /\ stage'[c] = "entered" /\ r.ok /\ store' = r.st
     /\ IsPick(p, r.st.heap, r.st)
     /\ f = found[c] \o p
  \/ stage'[c] = "done" /\ r.ok /\ f = found[c] /\ store' \in {r.st, Capped(r.st)}

LEMMA TurnValues ==
  ASSUME TInv, NEW c \in Call, NEW i, NEW item, NEW old, NEW r, NEW p,
         IsStep(c, i, item, old, r, p)
  PROVE  Alone(c) /\ op'[c] = op[c] /\ IsOutcome(c, r, found'[c], p)
<1>1. setup' = setup /\ op' = [op EXCEPT ![c] = op[c]]
  <2>1. setup' = setup /\ op' = op
    BY DEF IsStep
  <2>2. QED
    BY <2>1, StoreTypes
<1>2. CASE TurnFails(c, r)
  <2>1. stage' = [stage EXCEPT ![c] = "failed"] /\ found' = [found EXCEPT ![c] = found[c]]
        /\ store' = r.st
    BY <1>2, StoreTypes DEF TurnFails
  <2>2. QED
    BY <1>1, <2>1, StepValues DEF IsOutcome
<1>3. CASE TurnContinues(c, r, i, p) /\ IsPick(p, r.st.heap, r.st)
  <2>1. stage[c] = "entered"
    BY DEF IsStep
  <2>2. /\ stage' = [stage EXCEPT ![c] = stage[c]] /\ found' = [found EXCEPT ![c] = found[c] \o p]
        /\ store' = r.st /\ r.ok
    BY <1>3, StoreTypes DEF TurnContinues
  <2>3. Alone(c) /\ stage'[c] = stage[c] /\ op'[c] = op[c] /\ found'[c] = found[c] \o p
    BY <1>1, <2>2, StepValues
  <2>4. QED
    BY <1>3, <2>1, <2>2, <2>3 DEF IsOutcome
<1>4. CASE TurnEnds(c, r, i)
  <2>1. stage' = [stage EXCEPT ![c] = "done"] /\ found' = [found EXCEPT ![c] = found[c]]
        /\ store' \in {r.st, Capped(r.st)} /\ r.ok
    BY <1>4, StoreTypes DEF TurnEnds
  <2>2. Alone(c) /\ stage'[c] = "done" /\ op'[c] = op[c] /\ found'[c] = found[c]
    BY <1>1, <2>1, StepValues
  <2>3. QED
    BY <2>1, <2>2 DEF IsOutcome
<1>5. QED
  BY <1>2, <1>3, <1>4 DEF IsStep

LEMMA StepWritten ==
  ASSUME TInv, Facts, NEW c \in Call, NEW i, NEW item, NEW old, NEW r, NEW p,
         IsStep(c, i, item, old, r, p)
  PROVE  \E new : IsWritten(c, item, old, r, new)
<1>1. /\ IsTurn(c, i, item, old)
      /\ r = IF old = Nothing THEN UpsertInsert(c, item) ELSE UpsertUpdate(c, item, old)
  BY DEF IsStep
<1>2. item \in Item /\ old \in DOMAIN store.heap \union {Nothing}
  BY <1>1 DEF IsTurn
<1>3. setup.compound => ~item.odd
  BY <1>1 DEF IsTurn, Facts, NoneOdd, OpRegular
<1>4. CASE old = Nothing
  <2>1. PICK st, new : IsUpsertInsert(c, item, st, new, UpsertInsert(c, item))
    BY <1>2, UpsertInsertIs
  <2>2. r = UpsertInsert(c, item)
    BY <1>1, <1>4
  <2>3. IsWritten(c, item, Nothing, UpsertInsert(c, item), new)
    BY <1>2, <1>3, <2>1, UpsertInsertWritten
  <2>4. QED
    BY <1>4, <2>2, <2>3
<1>5. CASE old # Nothing
  <2>1. old \in DOMAIN store.heap
    BY <1>2, <1>5
  <2>2. PICK st, new : IsUpsertUpdate(c, item, old, st, new, UpsertUpdate(c, item, old))
    BY <1>2, <2>1, UpsertUpdateIs
  <2>3. r = UpsertUpdate(c, item, old)
    BY <1>1, <1>5
  <2>4. IsWritten(c, item, old, UpsertUpdate(c, item, old), new)
    BY <1>2, <1>3, <2>1, <2>2, UpsertUpdateWritten
  <2>5. QED
    BY <2>3, <2>4
<1>6. QED
  BY <1>4, <1>5

\* A turn of upsertMany() writes one item, and may find the next.
LEMMA UpsertManyStepGood ==
  ASSUME TInv, Facts, NEW c \in Call, UpsertManyStep(c)
  PROVE  Good(c)
<1>1. PICK i, item, old, r, p : IsStep(c, i, item, old, r, p)
  BY StepIs
<1>2. PICK new : IsWritten(c, item, old, r, new)
  BY <1>1, StepWritten
<1>3. Alone(c) /\ op'[c] = op[c] /\ IsOutcome(c, r, found'[c], p)
  BY <1>1, TurnValues
<1>4. /\ stage[c] = "entered" /\ op[c].kind = "upsertMany" /\ IsTurn(c, i, item, old)
      /\ r = IF old = Nothing THEN UpsertInsert(c, item) ELSE UpsertUpdate(c, item, old)
  BY <1>1 DEF IsStep
<1>5. /\ i = Len(found[c]) /\ i \in 1 .. Len(op[c].items) /\ item = op[c].items[i]
      /\ old = found[c][i] /\ old \in DOMAIN store.heap \union {Nothing}
      /\ found[c] \in Seq(DOMAIN store.heap \union {Nothing})
      /\ i \in DOMAIN found[c] /\ i \in Nat /\ DOMAIN found[c] = 1 .. i
  BY <1>4 DEF IsTurn
<1>6. /\ r.st \in Store(r.st.heap) /\ r.st.heap \in Seq(Object)
  BY <1>4, WrittenType
<1>7. /\ store'.heap = r.st.heap /\ Sound(setup.soft, store')
      /\ Docs' \subseteq ToSet(r.st.data) /\ Listed(store)' \subseteq Listed(r.st)
      /\ stage'[c] # "done" => store' = r.st
  <2>1. CASE store' = r.st
    BY <1>2, <2>1 DEF IsWritten, Docs, Listed
  <2>2. CASE store' = Capped(r.st) /\ stage'[c] = "done"
    <3>1. PICK soft, h2 : soft = setup.soft /\ h2 = r.st.heap
      OBVIOUS
    <3>2. IsRest(Capped(r.st), h2, soft, r.st)
      BY <1>6, <3>1, CappedIs, StoreTypes
    <3>3. IsRest(store', h2, soft, r.st)
      BY <2>2, <3>2
    <3>4. Sound(soft, r.st)
      BY <1>2, <3>1 DEF IsWritten
    <3>5. /\ store'.heap = h2 /\ Sound(soft, store')
          /\ ToSet(store'.data) \subseteq ToSet(r.st.data)
          /\ \A j \in Id : store'.byId[j] \in {r.st.byId[j], Nothing}
      BY <3>3, <3>4 DEF IsRest
    <3>6. QED
      BY <2>2, <3>1, <3>5 DEF Docs, Listed
  <2>3. QED
    BY <1>3, <2>1, <2>2 DEF IsOutcome
<1>8. /\ Docs' \subseteq Docs \union {new} /\ Listed(store)' \subseteq Listed(store) \union {new}
  BY <1>2, <1>7 DEF IsWritten
<1>9. Wrote(c)'
  BY <1>3, <1>4 DEF Wrote, IsOutcome
<1>10. stage'[c] = "entered" =>
         /\ Len(found'[c]) - 1 = i
         /\ \A j \in 1 .. i : found'[c][j] = found[c][j]
         /\ ToSet(found'[c]) = ToSet(found[c]) \union ToSet(p)
  <2> SUFFICES ASSUME stage'[c] = "entered"
               PROVE  /\ Len(found'[c]) - 1 = i
                      /\ \A j \in 1 .. i : found'[c][j] = found[c][j]
                      /\ ToSet(found'[c]) = ToSet(found[c]) \union ToSet(p)
    OBVIOUS
  <2>1. found'[c] = found[c] \o p /\ IsPick(p, r.st.heap, r.st)
    BY <1>3 DEF IsOutcome
  <2> DEFINE X == DOMAIN r.st.heap \union {Nothing}
  <2>2. DOMAIN store.heap \union {Nothing} \subseteq X
    BY <1>2 DEF IsWritten, HeapGrows
  <2>3. p \in Seq(X) /\ Len(p) = 1
    BY <2>1 DEF IsPick
  <2> HIDE DEF X
  <2>4. found[c] \in Seq(X)
    BY <1>5, <2>2, SeqGrows
  <2>5. QED
    BY <1>5, <2>1, <2>3, <2>4, LongerIs
<1>11. \A j : Inserted(c, j) => Inserted(c, j)'
  <2> SUFFICES ASSUME NEW j, Inserted(c, j) PROVE Inserted(c, j)'
    OBVIOUS
  <2>1. CASE stage'[c] \in {"done", "failed"}
    BY <2>1 DEF Inserted
  <2>2. CASE stage'[c] = "entered"
    <3>1. PICK k \in 1 .. Len(found[c]) - 1 : found[c][k] = Nothing /\ j = op[c].items[k].id
      BY <1>4 DEF Inserted, Before
    <3>2. k \in 1 .. Len(found'[c]) - 1 /\ found'[c][k] = Nothing
      BY <1>5, <1>10, <2>2, <3>1
    <3>3. j \in Before(c)'
      BY <1>3, <3>1, <3>2 DEF Before
    <3>4. QED
      BY <1>3, <1>4, <2>2, <3>3 DEF Inserted
  <2>3. QED
    BY <1>3, <2>1, <2>2 DEF IsOutcome
<1>12. ActsOnHeap(c)
  <2>1. HeapGrows(store.heap, store'.heap) /\ \A a \in DOMAIN store.heap : store'.heap[a] = store.heap[a]
    BY <1>2, <1>7 DEF IsWritten
  <2>2. ASSUME NEW b \in DOMAIN store'.heap \ DOMAIN store.heap
        PROVE  /\ setup.compound => ~store'.heap[b].odd
               /\ \/ Version(c, b, DOMAIN store.heap)
                  \/ store'.heap[b].from = {c} /\ store'.heap[b].by = {c}
    <3>1. b = new /\ b \in DOMAIN r.st.heap
      BY <1>2, <1>7, <2>2 DEF IsWritten
    <3>2. QED
      BY <1>2, <1>5, <1>7, <3>1 DEF IsWritten, Version
  <2>3. QED
    BY <2>1, <2>2 DEF ActsOnHeap
<1>13. ASSUME new \in ToSet(r.st.data) \union Listed(r.st) PROVE Version(c, new, Docs) \/ Born(c, new)
  <2>1. CASE old # Nothing
    BY <1>2, <1>7, <1>13, <2>1 DEF IsWritten, Version
  <2>2. CASE old = Nothing
    <3>1. /\ store'.heap[new].from = {c} /\ store'.heap[new].by = {c} /\ store'.heap[new].id = item.id
          /\ item.id \notin Before(c)
      BY <1>2, <1>7, <1>13, <2>2 DEF IsWritten
    <3>2. ~Inserted(c, item.id)
      BY <1>4, <3>1 DEF Inserted
    <3>3. PICK j : j = item.id
      OBVIOUS
    <3>4. Inserted(c, j)'
      <4>1. CASE stage'[c] \in {"done", "failed"}
        BY <4>1 DEF Inserted
      <4>2. CASE stage'[c] = "entered"
        <5>1. i \in 1 .. i
          BY <1>5
        <5>2. i \in 1 .. Len(found'[c]) - 1 /\ found'[c][i] = Nothing
          BY <1>5, <1>10, <2>2, <4>2, <5>1
        <5>3. j = op'[c].items[i].id
          BY <1>3, <1>5, <3>3
        <5>4. j \in Before(c)'
          BY <5>2, <5>3 DEF Before
        <5>5. QED
          BY <1>3, <1>4, <4>2, <5>4 DEF Inserted
      <4>3. QED
        BY <1>3, <4>1, <4>2 DEF IsOutcome
    <3>5. Inserted(c, store.heap[new].id)'
      BY <3>1, <3>3, <3>4
    <3>6. QED
      BY <3>1, <3>2, <3>5 DEF Born
  <2>3. QED
    BY <2>1, <2>2
<1>14. ActsOnDocs(c)
  <2>1. \A b \in Docs' \ Docs : Version(c, b, Docs) \/ Born(c, b)
    BY <1>7, <1>8, <1>13
  <2>2. \A b \in Listed(store)' \ (Listed(store) \union Docs) : Version(c, b, Docs) \/ Born(c, b)
    BY <1>7, <1>8, <1>13
  <2>3. QED
    BY <1>9, <2>1, <2>2 DEF ActsOnDocs
<1>15. ActsOnCall(c)
  <2>1. ToSet(found[c])' = ToSet(found'[c])
    BY DEF ToSet
  <2>2. ASSUME NEW a \in ToSet(found'[c]) \ {Nothing}
        PROVE  a \in ToSet(found[c]) \/ a \in Docs' \/ a \in Listed(store)'
    <3>1. CASE stage'[c] # "entered"
      BY <1>3, <3>1 DEF IsOutcome
    <3>2. CASE stage'[c] = "entered"
      <4>1. store' = r.st /\ IsPick(p, r.st.heap, r.st) /\ Sound(setup.soft, r.st)
        BY <1>2, <1>3, <3>2 DEF IsOutcome, IsWritten
      <4>2. ToSet(p) \subseteq ToSet(r.st.data) \union Listed(r.st) \union {Nothing}
        BY <4>1 DEF IsPick
      <4>3. ToSet(r.st.data) = Docs' /\ Listed(r.st) = Listed(store)'
        BY <4>1 DEF Docs, Listed
      <4>4. QED
        BY <1>10, <3>2, <4>2, <4>3
    <3>3. QED
      BY <3>1, <3>2
  <2>3. ASSUME NEW j \in Settled(c)', found'[c][j] # Nothing,
               ~(j \in Settled(c) /\ found'[c][j] = found[c][j]),
               NEW b \in Docs' \intersect Docs,
               store'.heap[b].id = store'.heap[found'[c][j]].id
        PROVE  c \in store'.heap[b].by
    <3>1. j \in 1 .. i /\ found'[c][j] = found[c][j] /\ r.ok
      <4>1. CASE stage'[c] = "failed"
        BY <2>3, <4>1 DEF Settled
      <4>2. CASE stage'[c] = "done"
        BY <1>3, <1>5, <2>3, <4>2 DEF Settled, IsOutcome
      <4>3. CASE stage'[c] = "entered"
        BY <1>3, <1>5, <1>10, <2>3, <4>3 DEF Settled, IsOutcome
      <4>4. QED
        BY <1>3, <4>1, <4>2, <4>3 DEF IsOutcome
    <3>2. Settled(c) = 1 .. i - 1
      BY <1>4, <1>5 DEF Settled
    <3>3. j = i
      BY <1>5, <2>3, <3>1, <3>2
    <3>4. old # Nothing /\ found'[c][j] = old
      BY <1>5, <2>3, <3>1, <3>3
    <3>5. /\ new \in ToSet(r.st.data) /\ new \in DOMAIN r.st.heap /\ new \notin DOMAIN store.heap
          /\ r.st.heap[new].id = store.heap[old].id /\ old \in DOMAIN store.heap
      BY <1>2, <1>5, <3>1, <3>4 DEF IsWritten
    <3>6. r.st.heap[old] = store.heap[old]
      BY <1>2, <3>5 DEF IsWritten
    <3>7. r.st.heap[b].id = r.st.heap[new].id
      BY <1>7, <2>3, <3>4, <3>5, <3>6
    <3>8. b \in ToSet(r.st.data)
      BY <1>7
    <3>9. b = new
      BY <1>2, <3>5, <3>7, <3>8 DEF IsWritten, Sound, IdsFit
    <3>10. b \in DOMAIN store.heap
      BY InHeap
    <3>11. QED
      BY <3>5, <3>9, <3>10
  <2>4. QED
    BY <1>9, <1>11, <2>1, <2>2, <2>3 DEF ActsOnCall
<1>16. stage'[c] # "called"
  BY <1>3 DEF IsOutcome
<1>17. OpRegular(setup.compound, op'[c]) /\ BuiltFit(c)'
  BY <1>3, <1>16, EndGood
<1>18. QED
  BY <1>3, <1>7, <1>12, <1>14, <1>15, <1>17 DEF Good, Acts

\* Updates that give their documents one value, which is free or theirs.
LEMMA ShareIs ==
  ASSUME NEW h, NEW ix, NEW old, NEW new, NEW n \in Nat,
         DOMAIN old = 1 .. n, DOMAIN new = 1 .. n,
         CandidatesAreUnique(h, ix, old, new),
         NEW k \in Key \union {Nothing}, \A i \in 1 .. n : h[new[i]].key = k
  PROVE  ShareKey(h, ix, old, new)
<1>1. CASE k = Nothing
  BY <1>1 DEF ShareKey
<1>2. CASE k # Nothing
  <2>1. ASSUME NEW i \in 1 .. n, NEW j \in 1 .. n PROVE h[old[j]].id = h[old[i]].id
    <3>1. ASSUME NEW a \in 1 .. n, NEW b \in 1 .. n, b < a PROVE h[old[b]].id = h[old[a]].id
      <4>1. b \in 1 .. a - 1
        BY <3>1
      <4>2. QED
        BY <1>2, <4>1 DEF CandidatesAreUnique
    <3>2. CASE i = j
      BY <3>2
    <3>3. CASE j < i
      BY <3>1, <3>3
    <3>4. CASE i < j
      BY <3>1, <3>4
    <3>5. QED
      BY <3>2, <3>3, <3>4
  <2>2. ASSUME NEW i \in 1 .. n, ix.unique[k] # Nothing PROVE h[ix.unique[k]].id = h[old[i]].id
    <3>1. h[ix.unique[k]].id \in {h[a].id : a \in ToSet(old)}
      BY <1>2, <2>2 DEF CandidatesAreUnique
    <3>2. PICK j \in 1 .. n : h[ix.unique[k]].id = h[old[j]].id
      BY <3>1 DEF ToSet
    <3>3. QED
      BY <2>1, <3>2
  <2>3. QED
    BY <2>1, <2>2 DEF ShareKey
<1>3. QED
  BY <1>1, <1>2

\* What the new objects of an update are.
IsUpdated(c, st, new) ==
  /\ st.heap \in Seq(Object) /\ st \in Store(st.heap) /\ Sound(setup.soft, st)
  /\ st.data = store.data /\ st.byId = store.byId /\ st.index = store.index
  /\ HeapGrows(store.heap, st.heap)
  /\ \A a \in DOMAIN store.heap : st.heap[a] = store.heap[a]
  /\ found[c] \in Seq(DOMAIN store.heap) /\ found[c] \in Seq(DOMAIN st.heap)
  /\ new \in Seq(DOMAIN st.heap) /\ Len(new) = Len(found[c])
  /\ \A i, j \in DOMAIN found[c] : new[i] = new[j] => i = j
  /\ \A i \in DOMAIN found[c] :
       /\ new[i] \in DOMAIN st.heap \ DOMAIN store.heap
       /\ st.heap[new[i]].id = store.heap[found[c][i]].id
       /\ st.heap[new[i]].from = store.heap[found[c][i]].from
       /\ st.heap[new[i]].by = store.heap[found[c][i]].by \union {c}
       /\ setup.compound => ~st.heap[new[i]].odd
       /\ st.heap[new[i]].key \in Key \union {Nothing}
       /\ op[c].set # Nothing => st.heap[new[i]].key = op[c].set
       /\ op[c].set = Nothing /\ op[c].inc = 0 => st.heap[new[i]].key = store.heap[found[c][i]].key
  /\ \A b \in DOMAIN st.heap \ DOMAIN store.heap : \E i \in DOMAIN found[c] : b = new[i]

\* The copies that an update has made are new, and nowhere yet.
LEMMA UpdatedSound ==
  ASSUME TInv, Facts, NEW c \in Call, NEW objects, NEW st, NEW new, IsUpdating(c, objects, st, new)
  PROVE  IsUpdated(c, st, new)
<1> DEFINE h == store.heap
           f == found[c]
           h2 == st.heap
           n == Len(h)
<1>1. /\ h2 \in Seq(Object) /\ st \in Store(h2)
      /\ st.data = store.data /\ st.byId = store.byId /\ st.index = store.index
      /\ Adds(h2, h, objects) /\ f \in Seq(DOMAIN h) /\ DOMAIN objects = DOMAIN f
      /\ new \in Seq(DOMAIN h2) /\ Len(new) = Len(f)
      /\ \A i \in DOMAIN f : /\ new[i] = n + i /\ objects[i] = Updated(c, h[f[i]])
                             /\ h2[new[i]] = objects[i]
  BY DEF IsUpdating, IsOver
<1>2. h \in Seq(Object) /\ store \in Store(h) /\ Sound(setup.soft, store) /\ op[c] \in Operation
  BY StoreTypes, CallTypes DEF Facts
<1>3. n \in Nat /\ DOMAIN f = 1 .. Len(f) /\ Len(f) \in Nat
  BY <1>1, <1>2
<1> HIDE DEF h, f, h2, n
<1>4. HeapGrows(h, h2)
  BY <1>1, AddsGrow
<1>5. Sound(setup.soft, st)
  <2>1. PICK soft : soft = setup.soft
    OBVIOUS
  <2>2. Sound(soft, st)
    BY <1>1, <1>2, <1>4, <2>1, HeapSound
  <2>3. QED
    BY <2>1, <2>2
<1>6. f \in Seq(DOMAIN h2)
  <2>1. DOMAIN h \subseteq DOMAIN h2
    BY <1>4 DEF HeapGrows
  <2>2. QED
    BY <1>1, <2>1, SeqGrows
<1>7. \A i, j \in DOMAIN f : new[i] = new[j] => i = j
  BY <1>1, <1>3
<1>8. \A i \in DOMAIN f : new[i] \in DOMAIN h2 \ DOMAIN h
  <2> SUFFICES ASSUME NEW i \in DOMAIN f PROVE new[i] \in DOMAIN h2 \ DOMAIN h
    OBVIOUS
  <2>1. n + i \in DOMAIN h2 \ DOMAIN h
    BY <1>1 DEF Adds, n
  <2>2. new[i] = n + i
    BY <1>1
  <2>3. QED
    BY <2>1, <2>2
<1>9. \A b \in DOMAIN h2 \ DOMAIN h : \E i \in DOMAIN f : b = new[i]
  <2> SUFFICES ASSUME NEW b \in DOMAIN h2 \ DOMAIN h PROVE \E i \in DOMAIN f : b = new[i]
    OBVIOUS
  <2>1. PICK i \in DOMAIN objects : b = n + i
    BY <1>1 DEF Adds, n
  <2>2. QED
    BY <1>1, <2>1
<1>10. ASSUME NEW i \in DOMAIN f
       PROVE  /\ h2[new[i]].id = h[f[i]].id /\ h2[new[i]].from = h[f[i]].from
              /\ h2[new[i]].by = h[f[i]].by \union {c}
              /\ setup.compound => ~h2[new[i]].odd
              /\ h2[new[i]].key \in Key \union {Nothing}
              /\ op[c].set # Nothing => h2[new[i]].key = op[c].set
              /\ op[c].set = Nothing /\ op[c].inc = 0 => h2[new[i]].key = h[f[i]].key
  <2>1. f[i] \in DOMAIN h
    BY <1>1
  <2>2. h[f[i]] \in Object
    BY <1>2, <2>1
  <2>3. h2[new[i]] = Updated(c, h[f[i]])
    BY <1>1
  <2>4. setup.compound => ~h[f[i]].odd /\ ~op[c].odd
    BY <2>1 DEF Facts, NoneOdd, OpRegular, h
  <2>5. h2[new[i]].key \in Key \union {Nothing}
    BY <1>1, <1>8, HeapFields
  <2> DEFINE o == h[f[i]]
  <2> HIDE DEF o
  <2>6. /\ Updated(c, o).id = o.id /\ Updated(c, o).from = o.from
        /\ Updated(c, o).by = o.by \union {c}
        /\ Updated(c, o).odd = (o.odd \/ op[c].odd)
        /\ op[c].set # Nothing => Updated(c, o).key = op[c].set
        /\ op[c].set = Nothing /\ op[c].inc = 0 => Updated(c, o).key = o.key
    BY <1>2, <2>2, UpdatedIs DEF o
  <2>7. QED
    BY <2>3, <2>4, <2>5, <2>6 DEF o
<1>11. \A a \in DOMAIN h : h2[a] = h[a]
  BY <1>1 DEF Adds
<1>12. QED
  BY <1>1, <1>4, <1>5, <1>6, <1>7, <1>8, <1>9, <1>10, <1>11 DEF IsUpdated, h, f, h2

\* Commits of an update all succeed, or stop at a document that is gone.
LEMMA UpdatedCommits ==
  ASSUME TInv, Facts, NEW c \in Call, stage[c] = "entered", op[c].kind = "update",
         NEW st, NEW new, IsUpdated(c, st, new),
         CandidatesAreUnique(st.heap, st.index, found[c], new),
         NEW r, r = CommitAll(st, found[c], new)
  PROVE  /\ Committed(st.heap, setup.soft, st, found[c], new, r)
         /\ r.ok => \A i \in DOMAIN found[c] : new[i] \in ToSet(r.st.data)
         /\ ~r.ok /\ ~op[c].many => r.st = st
<1> DEFINE h == store.heap
           f == found[c]
           h2 == st.heap
           soft == setup.soft
           n == Len(f)
<1>1. /\ OpRegular(setup.compound, op[c]) /\ op[c] \in Operation
      /\ f # <<>> /\ (~op[c].many => n <= 1)
  BY CallTypes DEF Facts, NoneOdd, CallFits
<1>2. /\ h2 \in Seq(Object) /\ st \in Store(h2) /\ Sound(soft, st)
      /\ f \in Seq(DOMAIN h) /\ f \in Seq(DOMAIN h2) /\ new \in Seq(DOMAIN h2) /\ Len(new) = n
  BY DEF IsUpdated
<1>3. n \in Nat /\ DOMAIN f = 1 .. n /\ DOMAIN new = 1 .. n
  BY <1>2
<1>4. ToSet(st.data) = Docs /\ Docs \subseteq DOMAIN h /\ ToSet(f) \subseteq DOMAIN h
  BY <1>2, InHeap DEF IsUpdated, Docs, ToSet
<1>5. ASSUME NEW i \in DOMAIN f
      PROVE  /\ new[i] \notin DOMAIN h /\ h2[new[i]].id = h2[f[i]].id /\ ~Refused(h2, new[i])
  <2>1. f[i] \in DOMAIN h
    BY <1>2
  <2>2. h2[f[i]] = h[f[i]]
    BY <2>1 DEF IsUpdated
  <2>3. QED
    BY <2>2 DEF IsUpdated, Refused
<1>6. Replaces(h2, ToSet(st.data), f, new)
  <2>1. \A i, j \in DOMAIN f : new[i] = new[j] => i = j
    BY DEF IsUpdated
  <2>2. \A i \in DOMAIN f : new[i] \notin ToSet(st.data) /\ new[i] \notin ToSet(f)
    BY <1>4, <1>5
  <2>3. Len(new) = Len(f)
    BY <1>2
  <2> HIDE DEF h, h2, f, n
  <2>4. QED
    BY <1>2, <1>5, <2>1, <2>2, <2>3 DEF Replaces
<1>7. KeepKeys(h2, f, new) \/ ShareKey(h2, st.index, f, new)
  <2>1. CASE op[c].set = Nothing /\ op[c].inc = 0
    <3> SUFFICES ASSUME NEW i \in DOMAIN f PROVE h2[new[i]].key = h2[f[i]].key
      BY DEF KeepKeys
    <3>1. f[i] \in DOMAIN h
      BY <1>2
    <3>2. h2[f[i]] = h[f[i]]
      BY <3>1 DEF IsUpdated
    <3>3. QED
      BY <2>1, <3>2 DEF IsUpdated
  <2>2. CASE ~(op[c].set = Nothing /\ op[c].inc = 0)
    <3>1. \E k \in Key \union {Nothing} : \A i \in 1 .. n : h2[new[i]].key = k
      <4>1. CASE op[c].set # Nothing
        <5>1. op[c].set \in Key \union {Nothing}
          BY <1>1 DEF Operation
        <5>2. \A i \in 1 .. n : h2[new[i]].key = op[c].set
          BY <1>3, <4>1 DEF IsUpdated
        <5>3. QED
          BY <5>1, <5>2
      <4>2. CASE op[c].set = Nothing
        <5>1. ~op[c].many
          BY <1>1, <2>2, <4>2 DEF OpRegular
        <5>2. n = 1
          <6> HIDE DEF n
          <6>1. n <= 1 /\ n # 0
            BY <1>1, <1>2, <5>1, EmptySeq DEF n
          <6>2. QED
            BY <1>3, <6>1
        <5>3. 1 \in DOMAIN f /\ \A i \in 1 .. n : i = 1
          <6> HIDE DEF n, f
          <6>1. QED
            BY <1>3, <5>2
        <5>4. h2[new[1]].key \in Key \union {Nothing}
          BY <5>3 DEF IsUpdated
        <5>5. QED
          BY <5>3, <5>4
      <4>3. QED
        BY <4>1, <4>2
    <3>2. CandidatesAreUnique(h2, st.index, f, new)
      OBVIOUS
    <3> HIDE DEF h, h2, f, n
    <3>3. QED
      BY <1>3, <3>1, <3>2, ShareIs
  <2>3. QED
    BY <2>1, <2>2
<1>8. r = CommitAll(st, f, new)
  OBVIOUS
<1> HIDE DEF h, h2, f, soft, n
<1>9. /\ Committed(h2, soft, st, f, new, r)
      /\ r.ok => \A i \in DOMAIN f : new[i] \in ToSet(r.st.data)
      /\ ~r.ok /\ Len(f) <= 1 => r.st = st
  BY <1>2, <1>6, <1>7, <1>8, CommitAllSound, SMTT(30)
<1>10. QED
  BY <1>1, <1>9 DEF h2, soft, f, n

\* What updateOne() and updateMany() come to: they refuse, or commit.
IsCommitting(c, st, new, r) ==
  /\ CandidatesAreUnique(st.heap, st.index, found[c], new)
  /\ r = CommitAll(st, found[c], new)
  /\ store' = r.st
  /\ stage' = [stage EXCEPT ![c] = IF r.ok THEN "done" ELSE "failed"]

UpdateEnds(c) ==
  \/ store' = store /\ stage' = [stage EXCEPT ![c] = "failed"]
  \/ \E st, new, r : IsUpdated(c, st, new) /\ IsCommitting(c, st, new, r)

LEMMA UpdateEndsSo ==
  ASSUME TInv, Facts, NEW c \in Call, UpdateLands(c)
  PROVE  UpdateEnds(c)
<1> DEFINE old == found[c]
           objects == [i \in DOMAIN old |-> Updated(c, store.heap[old[i]])]
           st == Allocate(store, objects)
           new == New(store, Len(old))
           r == CommitAll(st, old, new)
<1>1. IF ~CandidatesAreUnique(st.heap, st.index, old, new) THEN Fails(c, store)
      ELSE IF ~r.ok THEN Fails(c, r.st)
      ELSE Applies(c, r.st)
  BY DEF UpdateLands
<1>2. IsUpdating(c, objects, st, new)
  BY UpdatingIs
<1> HIDE DEF objects, st, new
<1>3. IsUpdated(c, st, new)
  BY <1>2, UpdatedSound
<1>4. r = CommitAll(st, found[c], new)
  OBVIOUS
<1> HIDE DEF r
<1>5. CASE ~CandidatesAreUnique(st.heap, st.index, old, new)
  BY <1>1, <1>5 DEF Fails, GoesTo, UpdateEnds
<1>6. CASE CandidatesAreUnique(st.heap, st.index, old, new)
  <2>1. /\ store' = r.st
        /\ stage' = [stage EXCEPT ![c] = IF r.ok THEN "done" ELSE "failed"]
    BY <1>1, <1>6 DEF Fails, Applies, GoesTo
  <2>2. IsCommitting(c, st, new, r)
    BY <1>4, <1>6, <2>1 DEF IsCommitting
  <2>3. QED
    BY <1>3, <2>2 DEF UpdateEnds
<1>7. QED
  BY <1>5, <1>6

\* A step that changes only how far c is, to "failed".
LEMMA FailGood ==
  ASSUME TInv, Facts, NEW c \in Call, store' = store, setup' = setup, op' = op, found' = found,
         stage' = [stage EXCEPT ![c] = "failed"], ~Wrote(c)
  PROVE  Good(c)
<1>1. Alone(c) /\ stage'[c] = "failed" /\ op'[c] = op[c] /\ found'[c] = found[c]
  <2>1. op' = [op EXCEPT ![c] = op[c]] /\ found' = [found EXCEPT ![c] = found[c]]
    BY StoreTypes
  <2>2. QED
    BY <2>1, StepValues
<1>2. Docs' = Docs /\ Listed(store)' = Listed(store)
  BY DEF Docs, Listed
<1>3. ActsOnHeap(c)
  <2>1. store.heap \in Seq(Object)
    BY StoreTypes
  <2>2. HeapGrows(store.heap, store'.heap)
    BY <2>1 DEF HeapGrows
  <2>3. QED
    BY <2>2 DEF ActsOnHeap
<1>4. ActsOnDocs(c)
  BY <1>2 DEF ActsOnDocs
<1>5. ActsOnCall(c)
  <2>1. ToSet(found[c])' = ToSet(found[c])
    BY <1>1 DEF ToSet
  <2>2. QED
    BY <1>1, <2>1, EndsNow DEF ActsOnCall
<1>6. Sound(setup.soft, store')
  BY DEF Facts
<1>7. QED
  BY <1>1, <1>3, <1>4, <1>5, <1>6, EndGood DEF Good, Acts

\* The objects that updateOne() and updateMany() have put in place are versions
\* of those that c found, and the only documents with their _ids.
LEMMA UpdateCommitsGood ==
  ASSUME TInv, TInv', Facts, NEW c \in Call, stage[c] = "entered", op[c].kind = "update",
         setup' = setup, op' = op, found' = found,
         NEW st, NEW new, NEW r, IsUpdated(c, st, new), IsCommitting(c, st, new, r)
  PROVE  Good(c)
<1> DEFINE h == store.heap
           f == found[c]
           h2 == st.heap
           D == Landed(Docs, f, new)
<1>1. /\ Committed(h2, setup.soft, st, f, new, r)
      /\ r.ok => \A i \in DOMAIN f : new[i] \in ToSet(r.st.data)
      /\ ~r.ok /\ ~op[c].many => r.st = st
  BY UpdatedCommits DEF IsCommitting
<1>2. /\ h2 \in Seq(Object) /\ HeapGrows(h, h2) /\ f \in Seq(DOMAIN h)
      /\ st.data = store.data /\ st.byId = store.byId
      /\ \A a \in DOMAIN h : h2[a] = h[a]
      /\ \A b \in DOMAIN h2 \ DOMAIN h : \E i \in DOMAIN f : b = new[i]
  BY DEF IsUpdated
<1>3. ASSUME NEW i \in DOMAIN f
      PROVE  /\ f[i] \in DOMAIN h /\ new[i] \in DOMAIN h2 \ DOMAIN h
             /\ h2[new[i]].id = h[f[i]].id /\ h2[new[i]].from = h[f[i]].from
             /\ h2[new[i]].by = h[f[i]].by \union {c}
             /\ setup.compound => ~h2[new[i]].odd
  BY <1>2 DEF IsUpdated
<1>4. store' = r.st /\ r.st \in Store(h2) /\ Sound(setup.soft, store') /\ store'.heap = h2
  BY <1>1 DEF IsCommitting, Committed, Store
<1>5. stage[c] = "entered" /\ ~Wrote(c)
  BY DEF Wrote
<1>6. Alone(c) /\ stage'[c] = (IF r.ok THEN "done" ELSE "failed") /\ op'[c] = op[c]
      /\ found'[c] = f
  <2> DEFINE s == IF r.ok THEN "done" ELSE "failed"
  <2>1. /\ setup' = setup /\ stage' = [stage EXCEPT ![c] = s]
        /\ op' = [op EXCEPT ![c] = op[c]] /\ found' = [found EXCEPT ![c] = found[c]]
    BY StoreTypes DEF IsCommitting
  <2> HIDE DEF s
  <2>2. Alone(c) /\ stage'[c] = s /\ op'[c] = op[c] /\ found'[c] = found[c]
    BY <2>1, StepValues
  <2>3. QED
    BY <2>2 DEF s
<1>7. stage'[c] \in {"done", "failed"}
  BY <1>6
<1>8. /\ Docs' \subseteq Docs \union D
      /\ Listed(store)' \subseteq Listed(store) \union D
  <2>1. /\ ToSet(r.st.data) \subseteq ToSet(st.data) \union Landed(ToSet(st.data), f, new)
        /\ \A i \in Id : r.st.byId[i] \in {st.byId[i]} \union Landed(ToSet(st.data), f, new)
    BY <1>1 DEF Committed
  <2>2. ToSet(st.data) = Docs /\ Docs' = ToSet(r.st.data)
    BY <1>2, <1>4 DEF Docs
  <2> HIDE DEF D
  <2>3. /\ ToSet(r.st.data) \subseteq Docs \union D
        /\ \A i \in Id : r.st.byId[i] \in {store.byId[i]} \union D
    BY <1>2, <2>1, <2>2 DEF D
  <2>4. Listed(r.st) \subseteq Listed(store) \union D
    BY <2>3 DEF Listed
  <2>5. QED
    BY <1>4, <2>2, <2>3, <2>4
<1>9. ASSUME NEW b \in D PROVE Version(c, b, Docs)
  <2>1. PICK j \in DOMAIN f : b = new[j] /\ f[j] \in Docs
    BY DEF Landed
  <2>2. QED
    BY <1>3, <1>4, <2>1 DEF Version
<1>10. ActsOnHeap(c)
  <2>1. ASSUME NEW b \in DOMAIN h2 \ DOMAIN h
        PROVE  /\ setup.compound => ~h2[b].odd
               /\ Version(c, b, DOMAIN h)
    <3>1. PICK i \in DOMAIN f : b = new[i]
      BY <1>2
    <3>2. QED
      BY <1>3, <1>4, <3>1 DEF Version
  <2>2. \A a \in DOMAIN h : h2[a].by = h[a].by
    BY <1>2
  <2>3. QED
    BY <1>2, <1>4, <2>1, <2>2 DEF ActsOnHeap
<1>11. Docs' \subseteq Docs \/ Wrote(c)'
  <2>1. CASE r.ok
    BY <1>6, <2>1 DEF Wrote
  <2>2. CASE ~r.ok /\ op[c].many
    BY <1>6, <2>2 DEF Wrote
  <2>3. CASE ~r.ok /\ ~op[c].many
    BY <1>1, <1>2, <1>4, <2>3 DEF Docs
  <2>4. QED
    BY <2>1, <2>2, <2>3
<1> HIDE DEF D
<1>12. ActsOnDocs(c)
  BY <1>8, <1>9, <1>11 DEF ActsOnDocs
<1>13. ASSUME r.ok, NEW i \in DOMAIN f, NEW b \in Docs' \intersect Docs
       PROVE  h2[b].id # h2[f[i]].id
  <2>1. h2[f[i]].id = h[f[i]].id /\ new[i] \notin DOMAIN h /\ h2[new[i]].id = h[f[i]].id
    BY <1>2, <1>3
  <2>2. b \in DOMAIN h
    BY InHeap
  <2>3. new[i] \in Docs'
    BY <1>1, <1>4, <1>13 DEF Docs
  <2>4. \A x, y \in Docs' : h2[x].id = h2[y].id => x = y
    <3>1. IdsFit(setup.soft, store'.heap, Docs', store'.byId)
      BY <1>4 DEF Sound, Docs
    <3>2. QED
      BY <1>4, <3>1 DEF IdsFit
  <2>5. QED
    BY <2>1, <2>2, <2>3, <2>4
<1>14. ActsOnCall(c)
  <2>1. ToSet(found[c])' = ToSet(found[c])
    BY <1>6 DEF ToSet
  <2>2. \A i \in Settled(c)' : found'[c][i] # Nothing =>
          \A b \in Docs' \intersect Docs :
            (/\ store'.heap[b].id = store'.heap[found'[c][i]].id
             /\ store'.heap[b].from = store'.heap[found'[c][i]].from) => c \in store'.heap[b].by
    <3>1. CASE r.ok
      <4>1. Settled(c)' = DOMAIN f
        BY <1>6, <3>1 DEF Settled
      <4>2. QED
        BY <1>4, <1>6, <1>13, <3>1, <4>1
    <3>2. CASE ~r.ok
      <4>1. Settled(c)' = {}
        BY <1>6, <3>2 DEF Settled
      <4>2. QED
        BY <4>1
    <3>3. QED
      BY <3>1, <3>2
  <2>3. QED
    BY <1>5, <1>7, <2>1, <2>2, EndsNow DEF ActsOnCall
<1>15. OpRegular(setup.compound, op'[c]) /\ BuiltFit(c)'
  BY <1>6, <1>7, EndGood
<1>16. QED
  BY <1>4, <1>6, <1>10, <1>12, <1>14, <1>15 DEF Good, Acts

\* An update refuses, or commits its copies.
LEMMA UpdateLandsGood ==
  ASSUME TInv, TInv', Facts, NEW c \in Call, UpdateLands(c)
  PROVE  Good(c)
<1>1. /\ setup' = setup /\ op' = op /\ found' = found
      /\ stage[c] = "entered" /\ op[c].kind = "update"
  BY DEF UpdateLands
<1>2. UpdateEnds(c)
  BY UpdateEndsSo
<1>3. CASE store' = store /\ stage' = [stage EXCEPT ![c] = "failed"]
  <2>1. ~Wrote(c)
    BY <1>1 DEF Wrote
  <2>2. QED
    BY <1>1, <1>3, <2>1, FailGood
<1>4. ASSUME NEW st, NEW new, NEW r, IsUpdated(c, st, new), IsCommitting(c, st, new, r)
      PROVE  Good(c)
  BY <1>1, <1>4, UpdateCommitsGood
<1>5. QED
  BY <1>2, <1>3, <1>4 DEF UpdateEnds

\* Documents go, and no call takes a step.
LEMMA FewerGood ==
  ASSUME TInv, Facts, setup' = setup, stage' = stage, op' = op, found' = found,
         store'.heap = store.heap, Docs' \subseteq Docs, Listed(store)' \subseteq Listed(store),
         Sound(setup.soft, store')
  PROVE  Facts'
<1>1. Regular'
  BY DEF Facts, Regular
<1>2. HeapFits'
  BY DEF Facts, HeapFits
<1>3. NoneOdd'
  BY DEF Facts, NoneOdd
<1>4. \A c \in Call : BuiltFit(c)'
  BY DEF Facts, BuiltFit, Inserting
<1>5. Clean'
  <2>1. \A c \in Call : Wrote(c)' = Wrote(c)
    BY DEF Wrote
  <2>2. QED
    BY <2>1 DEF Facts, Clean
<1>6. InsertsSeen'
  <2> SUFFICES ASSUME NEW c \in Call, NEW a \in Seen(c)', c \in store'.heap[a].from
               PROVE  Inserted(c, store.heap[a].id)'
    BY DEF InsertsSeen
  <2>1. a \in Seen(c)
    BY DEF Seen
  <2>2. Inserted(c, store.heap[a].id)
    BY <2>1 DEF Facts, InsertsSeen
  <2>3. QED
    BY <2>2 DEF Inserted, Before
<1>7. SettledKept'
  <2>1. \A c \in Call : Settled(c)' = Settled(c)
    BY DEF Settled
  <2>2. QED
    BY <2>1 DEF Facts, SettledKept
<1>8. Sound(setup'.soft, store')
  OBVIOUS
<1>9. QED
  BY <1>1, <1>2, <1>3, <1>4, <1>5, <1>6, <1>7, <1>8 DEF Facts

\* A sweep only takes documents away.
LEMMA SweepGood ==
  ASSUME TInv, Facts, Sweep
  PROVE  Facts'
<1>1. PICK gone : gone \subseteq Docs /\ store' = Without(store, gone)
  BY DEF Sweep
<1>2. setup' = setup /\ stage' = stage /\ op' = op /\ found' = found
  BY DEF Sweep, calls
<1>3. store.heap \in Seq(Object) /\ store \in Store(store.heap) /\ Sound(setup.soft, store)
  BY StoreTypes DEF Facts
<1>4. gone \subseteq ToSet(store.data)
  BY <1>1 DEF Docs
<1>5. PICK soft : soft = setup.soft
  OBVIOUS
<1>6. Sound(soft, store)
  BY <1>3, <1>5
<1>7. /\ Sound(soft, Without(store, gone))
      /\ ToSet(Without(store, gone).data) = ToSet(store.data) \ gone
      /\ \A i \in Id : Without(store, gone).byId[i] \in {store.byId[i], Nothing}
  BY <1>3, <1>4, <1>6, WithoutSound
<1>8. IsWithout(Without(store, gone), store.heap, store, gone)
  BY <1>3, WithoutType
<1>9. store'.heap = store.heap
  BY <1>1, <1>8 DEF IsWithout
<1>10. Docs' \subseteq Docs
  BY <1>1, <1>7 DEF Docs
<1>11. Listed(store)' \subseteq Listed(store)
  BY <1>1, <1>7 DEF Listed
<1>12. Sound(setup.soft, store')
  BY <1>1, <1>5, <1>7
<1>13. QED
  BY <1>2, <1>9, <1>10, <1>11, <1>12, FewerGood

\* A collection that was loaded has been written by no call.
LEMMA InitFacts ==
  ASSUME Init, Regular
  PROVE  Facts
<1>1. setup \in Setups /\ store = Loaded
  BY DEF Init
<1>2. /\ setup.docs \in Seq(Object) /\ Loaded \in Store(setup.docs) /\ Loaded.heap = setup.docs
      /\ Sound(setup.soft, Loaded) /\ ToSet(Loaded.data) = DOMAIN setup.docs
  BY <1>1, LoadedIs, SetupFields
<1>3. \A c \in Call : stage[c] = "idle" /\ op[c] = NoOp /\ found[c] = <<>>
  BY DEF Init
<1>4. \A a \in DOMAIN store.heap : store.heap[a].from = {} /\ store.heap[a].by = {}
  BY <1>1, <1>2, DocumentsAssumption DEF Proper
<1>5. HeapFits
  BY <1>4 DEF HeapFits
<1>6. NoneOdd
  <2>1. OpRegular(setup.compound, NoOp)
    BY DEF OpRegular, NoOp
  <2>2. QED
    BY <1>1, <1>2, <1>3, <2>1 DEF NoneOdd, Regular
<1>7. \A c \in Call : BuiltFit(c)
  BY <1>3 DEF BuiltFit, Inserting
<1>8. Docs \subseteq DOMAIN store.heap
  BY <1>1, <1>2 DEF Docs
<1>9. Clean
  BY <1>4, <1>8 DEF Clean
<1>10. InsertsSeen
  <2> SUFFICES ASSUME NEW c \in Call, NEW a \in Seen(c), c \in store.heap[a].from PROVE FALSE
    BY DEF InsertsSeen
  <2>1. Listed(store) \subseteq DOMAIN store.heap
    BY <1>1, <1>2, StoreParts DEF Listed
  <2>2. \A d \in Call : ToSet(found[d]) = {}
    BY <1>3, NoneYet
  <2>3. a \in DOMAIN store.heap
    BY <1>8, <2>1, <2>2 DEF Seen
  <2>4. QED
    BY <1>4, <2>3
<1>11. SettledKept
  BY <1>3 DEF SettledKept, Settled
<1>12. QED
  BY <1>1, <1>2, <1>5, <1>6, <1>7, <1>9, <1>10, <1>11 DEF Facts

\* The inductive invariant.
IInv == TInv /\ (Regular => Facts)

LEMMA InitIInv == Init => IInv
BY InitTypes, InitFacts DEF IInv

\* The facts are kept by every step.
LEMMA NextFacts ==
  ASSUME TInv, TInv', Facts, BatchesKeepIds, [Next]_vars
  PROVE  Facts'
<1>1. CASE Sweep
  BY <1>1, SweepGood
<1>2. ASSUME NEW c \in Call, Start(c) PROVE Good(c)
  BY <1>2, StartGood
<1>3. ASSUME NEW c \in Call, Step(c) PROVE Good(c)
  BY <1>3, InsertRefusedGood, InsertChecksGood, InsertLandsGood, IfNotExistsGood,
     UpsertGood, FindGood, UpdateLandsGood, DeleteGood, HardDeleteGood,
     UpsertManyBeginsGood, UpsertManyStepGood DEF Step
<1>4. CASE UNCHANGED vars
  <2>1. setup' = setup /\ store' = store /\ stage' = stage /\ op' = op /\ found' = found
    BY <1>4 DEF vars, calls
  <2>2. Docs' = Docs /\ Listed(store)' = Listed(store) /\ Sound(setup.soft, store')
    BY <2>1 DEF Docs, Listed, Facts
  <2>3. QED
    BY <2>1, <2>2, FewerGood
<1>5. ASSUME NEW c \in Call, Good(c) PROVE Facts'
  BY <1>5, GoodKeeps
<1>6. QED
  BY <1>1, <1>2, <1>3, <1>4, <1>5 DEF Next

\* A collection and the calls on it do not change.
LEMMA SameSetup == [Next]_vars => setup' = setup
BY DEF Next, Sweep, vars, calls, Start, Step, InsertRefused, InsertChecks, InsertLands,
   InsertIfNotExists, Upsert, Find, UpdateLands, SoftDelete, RestoreDoc, HardDelete,
   UpsertManyBegins, UpsertManyStep

LEMMA NextIInv == IInv /\ BatchesKeepIds /\ [Next]_vars => IInv'
<1> SUFFICES ASSUME IInv, BatchesKeepIds, [Next]_vars PROVE IInv'
  OBVIOUS
<1>1. TInv /\ TInv'
  BY NextTypes DEF IInv
<1>2. Regular' = Regular
  BY SameSetup DEF Regular
<1>3. Regular => Facts'
  BY <1>1, NextFacts DEF IInv
<1>4. QED
  BY <1>1, <1>2, <1>3 DEF IInv

\* What the facts say of the documents.
LEMMA FactsDistinct ==
  ASSUME TInv, Facts
  PROVE  Distinct
<1>1. /\ IsInjective(store.data) /\ IdsFit(setup.soft, store.heap, Docs, store.byId)
      /\ KeysFit(store.heap, Docs, store.index)
  BY DEF Facts, Sound, Docs
<1>2. store.heap \in Seq(Object) /\ Docs \subseteq DOMAIN store.heap
  BY StoreTypes, InHeap
<1>3. ASSUME NEW a \in Docs, NEW b \in Docs, a # b, store.heap[a].key = store.heap[b].key
      PROVE  store.heap[a].key = Nothing
  <2>1. store.heap[a].key \in Key \union {Nothing}
    BY <1>2, HeapFields
  <2>2. QED
    BY <1>1, <1>3, <2>1 DEF KeysFit
<1>4. QED
  BY <1>1, <1>3 DEF Distinct, IdsFit

\* The indexes have exactly the documents.
LEMMA FactsAgree ==
  ASSUME TInv, Facts
  PROVE  IndexesAgree
<1>1. /\ IdsFit(setup.soft, store.heap, Docs, store.byId)
      /\ KeysFit(store.heap, Docs, store.index)
  BY DEF Facts, Sound, Docs
<1>2. store.heap \in Seq(Object) /\ Docs \subseteq DOMAIN store.heap /\ Nothing \notin DOMAIN store.heap
  BY StoreTypes, InHeap
<1>3. IdsAgree
  <2> SUFFICES ASSUME ~setup.soft, NEW i \in Id
               PROVE  {a \in Docs : store.heap[a].id = i} = {store.byId[i]} \ {Nothing}
    BY DEF IdsAgree
  <2>1. ASSUME NEW a \in Docs, store.heap[a].id = i PROVE store.byId[i] = a /\ a # Nothing
    BY <1>1, <1>2, <2>1 DEF IdsFit
  <2>2. store.byId[i] # Nothing => store.byId[i] \in Docs /\ store.heap[store.byId[i]].id = i
    BY <1>1 DEF IdsFit
  <2>3. QED
    BY <2>1, <2>2
<1>4. FieldsAgree
  <2>1. ASSUME NEW k \in Key
        PROVE  {a \in Docs : store.heap[a].key = k} = {store.index.unique[k]} \ {Nothing}
    BY <1>1, <1>2 DEF KeysFit
  <2>2. QED
    BY <1>1, <2>1 DEF FieldsAgree, KeysFit
<1>5. QED
  BY <1>3, <1>4 DEF IndexesAgree

\* All that a call found is settled when it is done.
LEMMA FactsKept ==
  ASSUME TInv, Facts
  PROVE  UpdatesKept
<1> SUFFICES ASSUME NEW c \in Call, op[c].kind \in {"insert", "update", "upsertMany"},
                    stage[c] = "done",
                    NEW a \in ToSet(found[c]) \ {Nothing}, NEW b \in Docs,
                    store.heap[a].id = store.heap[b].id, store.heap[a].from = store.heap[b].from
             PROVE  c \in store.heap[b].by
  BY DEF UpdatesKept, Kept
<1>1. PICK i \in DOMAIN found[c] : a = found[c][i]
  BY DEF ToSet
<1>2. i \in Settled(c)
  BY DEF Settled
<1>3. QED
  BY <1>1, <1>2 DEF Facts, SettledKept

\* A call that leaves nothing has not written.
LEMMA FactsClean ==
  ASSUME Facts
  PROVE  FailedLeavesNothing
BY DEF Facts, Clean, Wrote, FailedLeavesNothing

-----------------------------------------------------------------------------
(* The theorems.  Regular is about the collection and the calls on it.       *)

\* No two documents ever have the same _id or the same value of the unique
\* field, and none is in the collection twice, whatever inserts, updates,
\* upserts, deletes, evictions and sweeps come between the look and the write
\* of another call, for every number of calls, ids, values and documents.
THEOREM DocumentsStayDistinct == Spec /\ []BatchesKeepIds => [](Regular => Distinct)
<1>1. IInv => (Regular => Distinct)
  BY FactsDistinct DEF IInv
<1>2. QED
  BY <1>1, InitIInv, NextIInv, PTL DEF Spec

\* The _id index, the field index, the unique index and the compound index have
\* exactly the documents of _data after every step: no value stays taken that
\* nobody has, and no document is missing where its value is looked up.
THEOREM IndexesStayExact == Spec /\ []BatchesKeepIds => [](Regular => IndexesAgree)
<1>1. IInv => (Regular => IndexesAgree)
  BY FactsAgree DEF IInv
<1>2. QED
  BY <1>1, InitIInv, NextIInv, PTL DEF Spec

\* No insert, update or upsertMany() that succeeded is undone by another that
\* found the document before it: the later of two updates of one document
\* throws, or contains what the earlier one wrote.
THEOREM NoUpdateIsLost == Spec /\ []BatchesKeepIds => [](Regular => UpdatesKept)
<1>1. IInv => (Regular => UpdatesKept)
  BY FactsKept DEF IInv
<1>2. QED
  BY <1>1, InitIInv, NextIInv, PTL DEF Spec

\* An insert, of one document or of a batch, and an update of one document that
\* throw have changed no document.
THEOREM FailuresLeaveNothing == Spec /\ []BatchesKeepIds => [](Regular => FailedLeavesNothing)
<1>1. IInv => (Regular => FailedLeavesNothing)
  BY FactsClean DEF IInv
<1>2. QED
  BY <1>1, InitIInv, NextIInv, PTL DEF Spec

-----------------------------------------------------------------------------
(* Collections on which insertMany() inserts one document at a time: the     *)
(* check of the _id and the insert are one turn.                             *)

Inserts == {"insert", "ifNotExists", "upsert"}

SingleInserts == \A o \in setup.ops : o.kind \in Inserts => Len(o.items) = 1

OneItem == \A c \in Call : op[c].kind \in Inserts => Len(op[c].items) = 1

\* Calls insert what they were given.
LEMMA OneItemKept ==
  ASSUME TInv, OneItem, SingleInserts, [Next]_vars
  PROVE  OneItem'
<1> SUFFICES ASSUME NEW d \in Call, op'[d].kind \in Inserts PROVE Len(op'[d].items) = 1
  BY DEF OneItem
<1>1. op[d] \in Operation /\ op \in [Call -> Underway]
  BY CallTypes, StoreTypes DEF TInv, TypeOK
<1>2. CASE op' = op
  BY <1>2 DEF OneItem
<1>3. ASSUME NEW c \in Call, Start(c) PROVE Len(op'[d].items) = 1
  <2>1. PICK o \in setup.ops : op' = [op EXCEPT ![c] = o]
    BY <1>3 DEF Start
  <2>2. op'[d] = IF d = c THEN o ELSE op[d]
    BY <1>1, <2>1
  <2>3. QED
    BY <2>2 DEF OneItem, SingleInserts
<1>4. ASSUME NEW c \in Call, NEW k,
             op' = [op EXCEPT ![c].kind = k], op[c].kind \in Inserts
      PROVE  Len(op'[d].items) = 1
  <2>1. CASE d # c
    BY <1>1, <1>4, <2>1 DEF OneItem
  <2>2. CASE d = c
    <3>1. op'[d] = [op[d] EXCEPT !.kind = k]
      BY <1>1, <1>4, <2>2
    <3>2. op'[d].items = op[d].items
      BY <1>1, <3>1 DEF Operation
    <3>3. QED
      BY <1>4, <2>2, <3>2 DEF OneItem
  <2>3. QED
    BY <2>1, <2>2
<1>5. ASSUME NEW c \in Call, InsertIfNotExists(c) PROVE Len(op'[d].items) = 1
  BY <1>2, <1>4, <1>5 DEF InsertIfNotExists, Inserts
<1>6. ASSUME NEW c \in Call, Upsert(c) PROVE Len(op'[d].items) = 1
  BY <1>4, <1>6 DEF Upsert, Inserts
<1>7. ASSUME NEW c \in Call, Step(c) PROVE Len(op'[d].items) = 1
  <2>1. op' = op \/ InsertIfNotExists(c) \/ Upsert(c)
    BY <1>7 DEF Step, InsertRefused, InsertChecks, InsertLands, Find, UpdateLands, SoftDelete,
       RestoreDoc, HardDelete, UpsertManyBegins, UpsertManyStep
  <2>2. QED
    BY <1>2, <1>5, <1>6, <2>1
<1>8. QED
  BY <1>2, <1>3, <1>7 DEF Next, Sweep, vars, calls

\* The first item of a batch is its last.
LEMMA OneItemIsNoBatch ==
  ASSUME TInv, OneItem
  PROVE  BatchesKeepIds
<1> SUFFICES ASSUME NEW c \in Call, Inserting(c) PROVE ToSet(found[c]) = {}
  BY DEF BatchesKeepIds
<1>1. Len(found[c]) < 1 /\ found[c] \in Seq(DOMAIN store.heap \union {Nothing})
  BY CallTypes DEF Inserting, CallFits, OneItem, Inserts
<1>2. found[c] = <<>>
  BY <1>1, EmptySeq
<1>3. QED
  BY <1>2, NoneYet

\* The four together, where no batch can come between the check of an _id and
\* its insert.
THEOREM SingleInsertsAreSafe ==
  Spec => [](Regular /\ SingleInserts =>
               Distinct /\ IndexesAgree /\ UpdatesKept /\ FailedLeavesNothing)
<1> DEFINE J == TInv /\ (SingleInserts => OneItem) /\ (Regular /\ SingleInserts => Facts)
<1>1. Init => J
  BY InitTypes, InitFacts DEF Init, OneItem, Inserts, NoOp
<1>2. J /\ [Next]_vars => J'
  <2> SUFFICES ASSUME J, [Next]_vars PROVE J'
    OBVIOUS
  <2>1. TInv /\ TInv'
    BY NextTypes
  <2>2. Regular' = Regular /\ SingleInserts' = SingleInserts
    BY SameSetup DEF Regular, SingleInserts
  <2>3. SingleInserts => OneItem'
    BY <2>1, OneItemKept
  <2>4. Regular /\ SingleInserts => Facts'
    BY <2>1, OneItemIsNoBatch, NextFacts
  <2>5. QED
    BY <2>1, <2>2, <2>3, <2>4
<1>3. J => (Regular /\ SingleInserts =>
              Distinct /\ IndexesAgree /\ UpdatesKept /\ FailedLeavesNothing)
  BY FactsDistinct, FactsAgree, FactsKept, FactsClean
<1> HIDE DEF J
<1>4. QED
  BY <1>1, <1>2, <1>3, PTL DEF Spec

=============================================================================
