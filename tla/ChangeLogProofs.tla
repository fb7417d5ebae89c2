-------------------------- MODULE ChangeLogProofs ---------------------------
(***************************************************************************)
(* Those who follow a collection hear of everything, after it was logged,  *)
(* and have in the end what the collection has: for any collection,        *)
(* callers, watchers, transactions and restores.                           *)
(*                                                                         *)
(* The loops of the code (emit(), the query of the log, its replay) are    *)
(* functions of the number of turns; what one turn keeps holds after any   *)
(* number of them (Iteration).                                             *)
(***************************************************************************)
EXTENDS ChangeLog, SequenceTheorems, FiniteSetTheorems, NaturalsInduction,
        WellFoundedInduction, TLAPS

-----------------------------------------------------------------------------
(* Loops. *)

\* A set that has 0, and n + 1 with n, has every natural number.
LEMMA NatInductionSet ==
  ASSUME NEW S, 0 \in S, \A n \in Nat : n \in S => n + 1 \in S
  PROVE  Nat \subseteq S
<1> SUFFICES ASSUME Nat \ S # {} PROVE FALSE
  OBVIOUS
<1>1. PICK x \in Nat \ S : \A y \in Nat \ S : ~ (<<y, x>> \in OpToRel(<, Nat))
  BY NatLessThanWellFounded, WFMin
<1>2. x \in Nat /\ x \notin S
  BY <1>1
<1>3. x # 0
  BY <1>2
<1>4. x - 1 \in Nat /\ x - 1 < x
  BY <1>2, <1>3
<1>5. x - 1 \in S
  BY <1>1, <1>4 DEF OpToRel
<1>6. (x - 1) + 1 = x
  BY <1>2
<1>7. QED
  BY <1>2, <1>4, <1>5, <1>6

IsRun(f, X, base, n, step) ==
  /\ f \in [0..n -> X]
  /\ f[0] = base
  /\ \A i \in 1..n : f[i] = step[<<f[i-1], i>>]

\* A function that is defined step by step from X stays in X.
LEMMA Iteration ==
  ASSUME NEW X, NEW base \in X, NEW n \in Nat, NEW step \in [X \X (1..n) -> X]
  PROVE  \E f : IsRun(f, X, base, n, step)
<1> DEFINE Ok(k) == \E f \in [0..k -> X] :
                      f[0] = base /\ \A i \in 1..k : f[i] = step[<<f[i-1], i>>]
           S == {k \in Nat : k <= n => Ok(k)}
<1>1. 0 \in S
  <2> DEFINE g == [i \in 0..0 |-> base]
  <2>1. g \in [0..0 -> X] /\ g[0] = base
    OBVIOUS
  <2>2. 1..0 = {}
    OBVIOUS
  <2> HIDE DEF g
  <2>3. Ok(0)
    BY <2>1, <2>2
  <2>4. QED
    BY <2>3
<1>2. ASSUME NEW k \in Nat, k \in S PROVE k + 1 \in S
  <2> SUFFICES ASSUME k + 1 <= n PROVE Ok(k + 1)
    OBVIOUS
  <2>1. PICK f \in [0..k -> X] :
                f[0] = base /\ \A i \in 1..k : f[i] = step[<<f[i-1], i>>]
    BY <1>2
  <2> DEFINE g == [i \in 0..k+1 |-> IF i = k + 1 THEN step[<<f[k], k+1>>] ELSE f[i]]
  <2>2. step[<<f[k], k+1>>] \in X
    <3>1. k + 1 \in 1..n /\ f[k] \in X
      OBVIOUS
    <3>2. QED
      BY <3>1
  <2>3. g \in [0..k+1 -> X]
    BY <2>2
  <2>4. /\ g[k + 1] = step[<<f[k], k+1>>]
        /\ \A i \in 0..k : g[i] = f[i]
    OBVIOUS
  <2> HIDE DEF g
  <2>5. ASSUME NEW i \in 1..k+1 PROVE g[i] = step[<<g[i-1], i>>]
    <3>1. i - 1 \in 0..k /\ g[i - 1] = f[i - 1]
      BY <2>4
    <3>2. CASE i = k + 1
      BY <2>4, <3>1, <3>2
    <3>3. CASE i # k + 1
      <4>1. i \in 1..k /\ i \in 0..k
        BY <3>3
      <4>2. QED
        BY <2>1, <2>4, <3>1, <4>1
    <3>4. QED
      BY <3>2, <3>3
  <2>6. g[0] = base
    BY <2>1, <2>4
  <2>7. QED
    BY <2>3, <2>5, <2>6
<1> HIDE DEF S
<1>3. n \in S
  BY <1>1, <1>2, NatInductionSet
<1>4. Ok(n)
  BY <1>3 DEF S
<1>5. QED
  BY <1>4 DEF IsRun

\* Two functions begin alike, and go on alike for n steps.
AgreeStepwise(n, f, g) ==
  f[0] = g[0] /\ \A i \in 1..n : f[i-1] = g[i-1] => f[i] = g[i]

\* Two functions that begin alike and go on alike are equal.
LEMMA SameSteps ==
  ASSUME NEW n \in Nat, NEW f, NEW g, AgreeStepwise(n, f, g)
  PROVE  \A i \in 0..n : f[i] = g[i]
<1> USE DEF AgreeStepwise
<1> DEFINE S == {k \in Nat : k <= n => f[k] = g[k]}
<1>1. 0 \in S
  OBVIOUS
<1>2. ASSUME NEW k \in Nat, k \in S PROVE k + 1 \in S
  <2>1. CASE k + 1 <= n
    <3>1. k + 1 \in 1..n /\ (k + 1) - 1 = k /\ f[k] = g[k]
      BY <1>2, <2>1
    <3>2. f[(k + 1) - 1] = g[(k + 1) - 1]
      BY <3>1
    <3>3. f[k+1] = g[k+1]
      BY <3>1, <3>2
    <3>4. QED
      BY <3>3
  <2>2. CASE ~ (k + 1 <= n)
    BY <2>2
  <2>3. QED
    BY <2>1, <2>2
<1> HIDE DEF S
<1>3. Nat \subseteq S
  BY <1>1, <1>2, NatInductionSet
<1>4. QED
  BY <1>3 DEF S

\* f[i] is what the loop of Only() has after i elements.
IsFilter(f, T, s, keep) ==
  /\ f \in [0..Len(s) -> Seq(T)]
  /\ f[0] = <<>>
  /\ Only(s, keep) = f[Len(s)]
  /\ \A i \in 1..Len(s) : f[i] = IF s[i] \in keep THEN Append(f[i-1], s[i]) ELSE f[i-1]

\* The loop of Only() keeps, in order, what is in keep, for every length.
LEMMA OnlyLoop ==
  ASSUME NEW T, NEW s \in Seq(T), NEW keep
  PROVE  \E f : IsFilter(f, T, s, keep)
<1> DEFINE n == Len(s)
           X == Seq(T)
           step == [p \in X \X (1..n) |-> IF s[p[2]] \in keep THEN Append(p[1], s[p[2]]) ELSE p[1]]
           Is(f) == f = [i \in 0..n |-> IF i = 0 THEN <<>> ELSE
                        IF s[i] \in keep THEN Append(f[i - 1], s[i]) ELSE f[i - 1]]
           kept == CHOOSE f : Is(f)
<1>1. step \in [X \X (1..n) -> X]
  <2>1. \A p \in X \X (1..n) : s[p[2]] \in T /\ p[1] \in X
    OBVIOUS
  <2>2. QED
    BY <2>1
<1>2. <<>> \in X
  OBVIOUS
<1>3. n \in Nat
  OBVIOUS
<1>4. \E f : IsRun(f, X, <<>>, n, step)
  <2> HIDE DEF step, X, n
  <2>1. QED
    BY <1>1, <1>2, <1>3, Iteration
<1>5. PICK f \in [0..n -> X] : f[0] = <<>> /\ \A i \in 1..n : f[i] = step[<<f[i-1], i>>]
  <2> HIDE DEF step, X, n
  <2>1. QED
    BY <1>4 DEF IsRun
<1>6. ASSUME NEW i \in 1..n
      PROVE  f[i] = IF s[i] \in keep THEN Append(f[i-1], s[i]) ELSE f[i-1]
  <2>1. <<f[i-1], i>> \in X \X (1..n)
    <3> HIDE DEF X, n
    <3>1. i - 1 \in 0..n
      BY <1>3
    <3>2. QED
      BY <3>1
  <2>2. QED
    BY <1>5, <2>1
<1>7. Is(f)
  <2> HIDE DEF step, X, n
  <2>1. \A i \in 0..n : i # 0 => i \in 1..n
    BY <1>3
  <2>2. QED
    BY <1>5, <1>6, <2>1
<1>8. Is(kept)
  <2> HIDE DEF Is
  <2>1. QED
    BY <1>7
<1>9. Only(s, keep) = kept[n]
  BY DEF Only
<1> HIDE DEF step, X, kept
<1>10. kept[0] = f[0] /\ \A i \in 1..n : kept[i] = IF s[i] \in keep THEN Append(kept[i-1], s[i]) ELSE kept[i-1]
  <2> HIDE DEF n
  <2>1. \A i \in 0..n : kept[i] = IF i = 0 THEN <<>> ELSE
                        IF s[i] \in keep THEN Append(kept[i - 1], s[i]) ELSE kept[i - 1]
    BY <1>8
  <2>2. \A i \in 1..n : i \in 0..n /\ i # 0
    BY <1>3
  <2>3. 0 \in 0..n
    BY <1>3
  <2>4. QED
    BY <1>5, <2>1, <2>2, <2>3
<1>11. \A i \in 0..n : kept[i] = f[i]
  <2> HIDE DEF n
  <2>1. \A i \in 1..n : kept[i-1] = f[i-1] => kept[i] = f[i]
    BY <1>6, <1>10
  <2>2. kept[0] = f[0]
    BY <1>10
  <2>3. AgreeStepwise(n, kept, f)
    BY <2>1, <2>2 DEF AgreeStepwise
  <2>4. QED
    BY <1>3, <2>3, SameSteps
<1>12. kept[n] = f[n]
  BY <1>3, <1>11
<1>13. QED
  BY <1>5, <1>6, <1>9, <1>12 DEF X, IsFilter

\* Only() keeps the elements of keep, each as often as it was there.
LEMMA OnlyIs ==
  ASSUME NEW T, NEW s \in Seq(T), NEW keep
  PROVE  /\ Only(s, keep) \in Seq(T)
         /\ ToSet(Only(s, keep)) = ToSet(s) \intersect keep
         /\ IsInjective(s) => IsInjective(Only(s, keep))
         /\ Len(Only(s, keep)) <= Len(s)
<1>0. PICK f : IsFilter(f, T, s, keep)
  BY OnlyLoop
<1>1. /\ f \in [0..Len(s) -> Seq(T)]
      /\ f[0] = <<>> /\ Only(s, keep) = f[Len(s)]
      /\ \A i \in 1..Len(s) : f[i] = IF s[i] \in keep THEN Append(f[i-1], s[i]) ELSE f[i-1]
  BY <1>0 DEF IsFilter
<1>2. Len(s) \in Nat /\ Len(s) \in 0..Len(s)
  OBVIOUS
<1> DEFINE First(k) == {s[j] : j \in 1..k}
           Ok(k) == /\ ToSet(f[k]) = First(k) \intersect keep
                    /\ IsInjective(s) => IsInjective(f[k])
                    /\ Len(f[k]) <= k
           S == {k \in Nat : k <= Len(s) => Ok(k)}
<1>3. 0 \in S
  <2>1. First(0) = {}
    OBVIOUS
  <2>2. ToSet(<<>>) = {} /\ IsInjective(<<>>)
    BY DEF ToSet, IsInjective
  <2>3. QED
    BY <1>1, <2>1, <2>2
<1>4. ASSUME NEW k \in Nat, k \in S PROVE k + 1 \in S
  <2> SUFFICES ASSUME k + 1 <= Len(s) PROVE Ok(k + 1)
    OBVIOUS
  <2>1. Ok(k) /\ k + 1 \in 1..Len(s) /\ (k + 1) - 1 = k /\ k \in 0..Len(s)
    BY <1>2, <1>4
  <2>2. f[k + 1] = IF s[k + 1] \in keep THEN Append(f[k], s[k + 1]) ELSE f[k]
    BY <1>1, <2>1
  <2>3. First(k + 1) = First(k) \union {s[k + 1]}
    <3>1. \A j \in 1..k + 1 : j \in 1..k \/ j = k + 1
      OBVIOUS
    <3>2. \A j \in 1..k : j \in 1..k + 1
      OBVIOUS
    <3>3. QED
      BY <3>1, <3>2, <2>1
  <2>4. f[k] \in Seq(T) /\ s[k + 1] \in T
    BY <1>1, <2>1
  <2>5. CASE s[k + 1] \notin keep
    BY <2>1, <2>2, <2>3, <2>5
  <2>6. CASE s[k + 1] \in keep
    <3> DEFINE g == f[k] x == s[k + 1] g2 == Append(g, x)
    <3>1. ToSet(g2) = ToSet(g) \union {x}
      <4> HIDE DEF g, x
      <4>1. g \in Seq(T) /\ x \in T
        BY <2>4 DEF g, x
      <4>2. DOMAIN g2 = DOMAIN g \union {Len(g) + 1} /\ g2[Len(g) + 1] = x
        BY <4>1
      <4>3. \A i \in DOMAIN g : g2[i] = g[i]
        BY <4>1
      <4>4. QED
        BY <4>2, <4>3 DEF ToSet
    <3>2. ToSet(f[k + 1]) = First(k + 1) \intersect keep
      BY <2>1, <2>2, <2>3, <2>6, <3>1
    <3>3. ASSUME IsInjective(s) PROVE IsInjective(g2)
      <4>1. x \notin ToSet(g)
        <5>1. \A j \in 1..k : s[j] # s[k + 1]
          <6>1. \A j \in 1..k : j \in DOMAIN s /\ j # k + 1
            BY <2>1
          <6>2. k + 1 \in DOMAIN s
            BY <2>1
          <6>3. QED
            BY <3>3, <6>1, <6>2 DEF IsInjective
        <5>2. QED
          BY <2>1, <5>1
      <4>2. IsInjective(g)
        BY <2>1, <3>3
      <4> HIDE DEF g, x
      <4>3. g \in Seq(T) /\ x \in T
        BY <2>4 DEF g, x
      <4>4. DOMAIN g2 = DOMAIN g \union {Len(g) + 1} /\ g2[Len(g) + 1] = x /\ Len(g) + 1 \notin DOMAIN g
        BY <4>3
      <4>5. \A i \in DOMAIN g : g2[i] = g[i] /\ g[i] \in ToSet(g)
        BY <4>3 DEF ToSet
      <4> HIDE DEF g2
      <4>6. QED
        BY <4>1, <4>2, <4>4, <4>5 DEF IsInjective
    <3>4. Len(g2) <= k + 1
      <4> HIDE DEF g, x
      <4>1. g \in Seq(T) /\ x \in T /\ Len(g) <= k
        BY <2>1, <2>4 DEF g, x
      <4>2. Len(g2) = Len(g) + 1 /\ Len(g) \in Nat
        BY <4>1
      <4>3. QED
        BY <4>1, <4>2
    <3>5. QED
      BY <2>2, <2>6, <3>2, <3>3, <3>4
  <2>7. QED
    BY <2>5, <2>6
<1> HIDE DEF S, Ok, First
<1>5. Nat \subseteq S
  BY <1>3, <1>4, NatInductionSet
<1>6. Ok(Len(s))
  BY <1>2, <1>5 DEF S
<1>7. First(Len(s)) = ToSet(s)
  BY DEF First, ToSet
<1>8. f[Len(s)] \in Seq(T)
  BY <1>1, <1>2
<1>9. QED
  BY <1>1, <1>6, <1>7, <1>8 DEF Ok

-----------------------------------------------------------------------------
(* The iterator. *)

\* Sizes: n objects were made.
Events(n) == [op : Op, id : Doc, val : 1 .. n]

\* The state of an iterator whose events are of E; size is its buffer's, and
\* one is said of a consumer that awaits each next().
Iterator(E, it) ==
  /\ DOMAIN it = DOMAIN Idle
  /\ it.queue \in Seq(E) /\ it.done \in BOOLEAN /\ it.settled \in SUBSET Nat
  /\ it.resolve \in Nat /\ it.dropped \in Nat /\ it.asked \in Nat
  /\ it.got \in Nat /\ it.published \in Nat

IterOk(it, size, one) ==
  /\ Len(it.queue) <= size
  /\ it.published = it.got + it.dropped + Len(it.queue)
  /\ it.settled \subseteq 1 .. it.asked
  /\ it.resolve # 0 => /\ it.resolve \in Waiting(it)
                       /\ it.queue = <<>> /\ ~it.done
  /\ one => Waiting(it) \subseteq {it.resolve}

\* An event that is published keeps the account, and wakes who waits.
LEMMA HearKeeps ==
  ASSUME NEW E, NEW it, Iterator(E, it), NEW e \in E, NEW size \in Nat \ {0},
         NEW one \in BOOLEAN, IterOk(it, size, one)
  PROVE  Iterator(E, Hear(it, e, size)) /\ IterOk(Hear(it, e, size), size, one)
<1> DEFINE new == Hear(it, e, size)
<1>1. CASE it.done
  BY <1>1 DEF Hear
<1>2. CASE ~it.done /\ it.resolve # 0
  <2>1. /\ new.queue = it.queue /\ new.resolve = 0 /\ new.dropped = it.dropped
        /\ new.done = it.done /\ new.asked = it.asked
        /\ new.settled = it.settled \union {it.resolve}
        /\ new.got = it.got + 1 /\ new.published = it.published + 1
        /\ Iterator(E, new)
    BY <1>2 DEF Hear, Settle, Iterator, Idle
  <2> HIDE DEF new
  <2>2. it.resolve \in 1 .. it.asked
    BY <1>2 DEF IterOk, Waiting
  <2>3. Waiting(new) = Waiting(it) \ {it.resolve}
    BY <2>1 DEF Waiting
  <2>4. new.published = new.got + new.dropped + Len(new.queue)
    BY <2>1 DEF IterOk, Iterator, Idle
  <2>5. QED
    BY <2>1, <2>2, <2>3, <2>4 DEF IterOk, new
<1>3. CASE ~it.done /\ it.resolve = 0
  <2>1. /\ new.resolve = it.resolve /\ new.done = it.done /\ new.asked = it.asked
        /\ new.settled = it.settled /\ new.got = it.got /\ new.published = it.published + 1
        /\ new.queue = Append(IF Len(it.queue) >= size THEN Tail(it.queue) ELSE it.queue, e)
        /\ new.dropped = IF Len(it.queue) >= size THEN it.dropped + 1 ELSE it.dropped
        /\ DOMAIN new = DOMAIN it
    BY <1>3 DEF Hear, Iterator, Idle
  <2>2. it.queue \in Seq(E) /\ Len(it.queue) \in Nat /\ it.dropped \in Nat /\ it.got \in Nat
    BY DEF Iterator, Idle
  <2>3. CASE Len(it.queue) >= size
    <3>1. it.queue # <<>> /\ Tail(it.queue) \in Seq(E) /\ Len(Tail(it.queue)) = Len(it.queue) - 1
      BY <2>2, <2>3
    <3>2. new.queue \in Seq(E) /\ Len(new.queue) = Len(it.queue) /\ new.dropped = it.dropped + 1
      BY <2>1, <2>3, <3>1
    <3>3. Iterator(E, new)
      BY <1>3, <2>3, <3>1 DEF Hear, Iterator, Idle
    <3> HIDE DEF new
    <3>4. Waiting(new) = Waiting(it)
      BY <2>1 DEF Waiting
    <3>5. new.published = new.got + new.dropped + Len(new.queue)
      BY <2>1, <2>2, <3>2 DEF IterOk
    <3>6. QED
      BY <1>3, <2>1, <3>2, <3>3, <3>4, <3>5 DEF IterOk, new
  <2>4. CASE ~ (Len(it.queue) >= size)
    <3>1. new.queue \in Seq(E) /\ Len(new.queue) = Len(it.queue) + 1 /\ new.dropped = it.dropped
      BY <2>1, <2>2, <2>4
    <3>2. Len(new.queue) <= size
      BY <2>2, <2>4, <3>1
    <3>3. Iterator(E, new)
      <4>1. new = [it EXCEPT !.published = it.published + 1, !.queue = Append(it.queue, e)]
        BY <1>3, <2>4 DEF Hear, Iterator, Idle
      <4>2. Append(it.queue, e) \in Seq(E)
        BY <2>2
      <4>3. QED
        BY <4>1, <4>2 DEF Iterator, Idle
    <3> HIDE DEF new
    <3>4. Waiting(new) = Waiting(it)
      BY <2>1 DEF Waiting
    <3>5. new.published = new.got + new.dropped + Len(new.queue)
      BY <2>1, <2>2, <3>1 DEF IterOk
    <3>6. QED
      BY <1>3, <2>1, <3>1, <3>2, <3>3, <3>4, <3>5 DEF IterOk, new
  <2>5. QED
    BY <2>3, <2>4
<1>4. QED
  BY <1>1, <1>2, <1>3

\* So does a call of next(), of a consumer that waits for none before it.
LEMMA AskKeeps ==
  ASSUME NEW E, NEW it, Iterator(E, it), NEW size \in Nat, NEW one \in BOOLEAN,
         IterOk(it, size, one), one => Waiting(it) = {}
  PROVE  Iterator(E, Ask(it)) /\ IterOk(Ask(it), size, one)
<1> DEFINE new == Ask(it)
           p == it.asked + 1
<1>1. /\ it.asked \in Nat /\ p \in Nat /\ p # 0 /\ p \notin it.settled /\ p \notin 1 .. it.asked
      /\ it.queue \in Seq(E) /\ it.settled \in SUBSET Nat
  BY DEF IterOk, Iterator, Idle
<1>2. 1 .. p = (1 .. it.asked) \union {p}
  BY <1>1
<1>3. CASE it.queue # <<>>
  <2>1. it.resolve = 0
    BY <1>3 DEF IterOk
  <2>2. /\ new.queue = Tail(it.queue) /\ new.resolve = it.resolve /\ new.dropped = it.dropped
        /\ new.done = it.done /\ new.asked = p /\ new.settled = it.settled \union {p}
        /\ new.got = it.got + 1 /\ new.published = it.published
    BY <1>3 DEF Ask, Settle, Iterator, Idle
  <2>3. Tail(it.queue) \in Seq(E) /\ Len(Tail(it.queue)) = Len(it.queue) - 1
        /\ Len(it.queue) \in Nat
    BY <1>1, <1>3
  <2>4. Iterator(E, new)
    <3>1. new = [it EXCEPT !.asked = p, !.settled = it.settled \union {p},
                           !.queue = Tail(it.queue), !.got = it.got + 1]
      BY <1>3 DEF Ask, Settle, Iterator, Idle
    <3>2. it.settled \union {p} \in SUBSET Nat /\ it.got + 1 \in Nat
      BY <1>1 DEF Iterator, Idle
    <3> HIDE DEF p, new
    <3>3. QED
      BY <1>1, <2>3, <3>1, <3>2 DEF Iterator, Idle
  <2> HIDE DEF new, p
  <2>5. Waiting(new) = Waiting(it)
    BY <1>1, <1>2, <2>2 DEF Waiting
  <2>6. new.published = new.got + new.dropped + Len(new.queue)
    BY <2>2, <2>3 DEF IterOk, Iterator, Idle
  <2>7. QED
    BY <1>2, <2>1, <2>2, <2>3, <2>4, <2>5, <2>6 DEF IterOk, new
<1>4. CASE it.queue = <<>> /\ it.done
  <2>1. it.resolve = 0
    BY <1>4 DEF IterOk
  <2>2. /\ new = [it EXCEPT !.asked = p, !.settled = it.settled \union {p}]
        /\ Iterator(E, new)
    BY <1>1, <1>4 DEF Ask, Settle, Iterator, Idle
  <2>3. /\ new.queue = it.queue /\ new.resolve = it.resolve /\ new.dropped = it.dropped
        /\ new.done = it.done /\ new.asked = p /\ new.settled = it.settled \union {p}
        /\ new.got = it.got /\ new.published = it.published
    BY <1>4 DEF Ask, Settle, Iterator, Idle
  <2> HIDE DEF new, p
  <2>4. Waiting(new) = Waiting(it)
    BY <1>1, <1>2, <2>3 DEF Waiting
  <2>5. QED
    BY <1>2, <2>1, <2>2, <2>3, <2>4 DEF IterOk, new
<1>5. CASE it.queue = <<>> /\ ~it.done
  <2>1. /\ new.queue = it.queue /\ new.resolve = p /\ new.dropped = it.dropped
        /\ new.done = it.done /\ new.asked = p /\ new.settled = it.settled
        /\ new.got = it.got /\ new.published = it.published
        /\ Iterator(E, new)
    BY <1>1, <1>5 DEF Ask, Iterator, Idle
  <2> HIDE DEF new, p
  <2>2. Waiting(new) = Waiting(it) \union {p}
    BY <1>1, <1>2, <2>1 DEF Waiting
  <2>3. QED
    BY <1>1, <1>2, <1>5, <2>1, <2>2 DEF IterOk, new
<1>6. QED
  BY <1>3, <1>4, <1>5

\* And return(), which answers who waits.
LEMMA LeaveKeeps ==
  ASSUME NEW E, NEW it, Iterator(E, it), NEW size \in Nat, NEW one \in BOOLEAN,
         IterOk(it, size, one)
  PROVE  Iterator(E, Leave(it)) /\ IterOk(Leave(it), size, one)
<1> DEFINE new == Leave(it)
<1>1. CASE it.resolve # 0
  <2>1. /\ new.queue = it.queue /\ new.resolve = 0 /\ new.dropped = it.dropped
        /\ new.done = TRUE /\ new.asked = it.asked
        /\ new.settled = it.settled \union {it.resolve}
        /\ new.got = it.got /\ new.published = it.published
        /\ Iterator(E, new)
    BY <1>1 DEF Leave, Settle, Iterator, Idle
  <2> HIDE DEF new
  <2>2. it.resolve \in 1 .. it.asked
    BY <1>1 DEF IterOk, Waiting
  <2>3. Waiting(new) = Waiting(it) \ {it.resolve}
    BY <2>1 DEF Waiting
  <2>4. QED
    BY <2>1, <2>2, <2>3 DEF IterOk, new
<1>2. CASE it.resolve = 0
  <2>1. /\ new.queue = it.queue /\ new.resolve = 0 /\ new.dropped = it.dropped
        /\ new.done = TRUE /\ new.asked = it.asked /\ new.settled = it.settled
        /\ new.got = it.got /\ new.published = it.published
        /\ Iterator(E, new)
    BY <1>2 DEF Leave, Iterator, Idle
  <2> HIDE DEF new
  <2>2. Waiting(new) = Waiting(it)
    BY <2>1 DEF Waiting
  <2>3. QED
    BY <1>2, <2>1, <2>2 DEF IterOk, new
<1>3. QED
  BY <1>1, <1>2

\* Iterators are functions on the names of their fields.
IsRecord(it) == it = [f \in DOMAIN it |-> it[f]]

LEMMA StaysRecord ==
  ASSUME NEW it, IsRecord(it), NEW e, NEW size
  PROVE  IsRecord(Hear(it, e, size)) /\ IsRecord(Ask(it)) /\ IsRecord(Leave(it))
<1>1. IsRecord(Hear(it, e, size))
  BY DEF Hear, Settle, IsRecord
<1>2. IsRecord(Ask(it))
  BY DEF Ask, Settle, IsRecord
<1>3. IsRecord(Leave(it))
  BY DEF Leave, Settle, IsRecord
<1>4. QED
  BY <1>1, <1>2, <1>3

\* Iterators whose events are of E, as a set.
Iterators(E) ==
  {it \in [DOMAIN Idle -> UNION {Seq(E), BOOLEAN, Nat, SUBSET Nat}] : Iterator(E, it)}

LEMMA IteratorsAre ==
  ASSUME NEW E, NEW it
  PROVE  it \in Iterators(E) <=> Iterator(E, it) /\ IsRecord(it)
<1>1. ASSUME Iterator(E, it), IsRecord(it) PROVE it \in Iterators(E)
  <2> DEFINE V == UNION {Seq(E), BOOLEAN, Nat, SUBSET Nat}
  <2>1. \A f \in DOMAIN Idle : it[f] \in V
    BY <1>1 DEF Iterator, Idle
  <2> HIDE DEF V
  <2>2. it \in [DOMAIN Idle -> V]
    BY <1>1, <2>1 DEF Iterator, IsRecord
  <2>3. QED
    BY <1>1, <2>2 DEF Iterators, V
<1>2. ASSUME it \in Iterators(E) PROVE Iterator(E, it) /\ IsRecord(it)
  <2> DEFINE V == UNION {Seq(E), BOOLEAN, Nat, SUBSET Nat}
  <2>1. it \in [DOMAIN Idle -> V] /\ Iterator(E, it)
    BY <1>2 DEF Iterators
  <2> HIDE DEF V
  <2>2. QED
    BY <2>1 DEF IsRecord
<1>3. QED
  BY <1>1, <1>2

-----------------------------------------------------------------------------
(* Publishing.                                                             *)

\* The account of the iterator, when there is one.
IterFits(n, it) ==
  /\ it \in Iterators(Events(n))
  /\ setup.buffer > 0 => IterOk(it, setup.buffer, ~setup.eager)

LEMMA SetupFields ==
  ASSUME setup \in Setup
  PROVE  /\ setup.buffer \in Nat /\ setup.eager \in BOOLEAN /\ setup.cap \in Nat
         /\ setup.loaded \in Seq(Doc) /\ IsInjective(setup.loaded)
         /\ setup.time \in Nat \ {0} /\ setup.soft \in BOOLEAN
         /\ \A r \in setup.requests : r.docs \in Seq(Doc) /\ IsInjective(r.docs)
BY DEF Setup, Batch, Request

LEMMA ListenKeeps ==
  ASSUME setup \in Setup, NEW n \in Nat, NEW it, IterFits(n, it), NEW e \in Events(n)
  PROVE  IterFits(n, Listen(it, e))
<1>1. setup.buffer \in Nat /\ (~setup.eager) \in BOOLEAN
  BY SetupFields
<1>2. Iterator(Events(n), it) /\ IsRecord(it)
  BY IteratorsAre DEF IterFits
<1>3. CASE setup.buffer = 0
  BY <1>3 DEF Listen, IterFits
<1>4. CASE setup.buffer # 0
  <2>1. setup.buffer \in Nat \ {0} /\ IterOk(it, setup.buffer, ~setup.eager)
    BY <1>1, <1>4 DEF IterFits
  <2>2. Listen(it, e) = Hear(it, e, setup.buffer)
    BY <1>4 DEF Listen
  <2>3. /\ Iterator(Events(n), Listen(it, e)) /\ IterOk(Listen(it, e), setup.buffer, ~setup.eager)
    BY <1>1, <1>2, <2>1, <2>2, HearKeeps
  <2>4. IsRecord(Listen(it, e))
    BY <1>2, <2>2, StaysRecord
  <2>5. QED
    BY <2>3, <2>4, IteratorsAre DEF IterFits
<1>5. QED
  BY <1>3, <1>4

\* What a watcher that keeps a copy has for the document of the event.
Outcome(e) == IF e.op = "delete" THEN Gone ELSE e.val

\* f[i] is the copy of a watcher after i events.
Followed(f, n, events) ==
  /\ f \in [0..Len(events) -> [Doc -> 0..n]]
  /\ f[0] = mirror /\ f[Len(events)] = mirror'
  /\ \A i \in 1..Len(events) : f[i] = [f[i-1] EXCEPT ![events[i].id] = Outcome(events[i])]

\* The loop over listeners and events ends, with an iterator whose account fits.
LEMMA PublishLoop ==
  ASSUME setup \in Setup, NEW n \in Nat, mirror \in [Doc -> 0..n], IterFits(n, iter),
         NEW events \in Seq(Events(n)), Publish(events)
  PROVE  (\E f : Followed(f, n, events)) /\ IterFits(n, iter')
<1> DEFINE l == Len(events)
           I == {it \in Iterators(Events(n)) : IterFits(n, it)}
           X == [copy : [Doc -> 0..n], it : I]
           base == [copy |-> mirror, it |-> iter]
           one(x, i) == [copy |-> Follow(x.copy, events[i]), it |-> Listen(x.it, events[i])]
           step == [p \in X \X (1..l) |-> one(p[1], p[2])]
           Is(f) == f = [i \in 0..l |-> IF i = 0 THEN base ELSE one(f[i - 1], i)]
           done == CHOOSE f : Is(f)
<1>1. ASSUME NEW x \in X, NEW i \in 1..l PROVE one(x, i) \in X
  <2>0. events[i] \in Events(n)
    OBVIOUS
  <2>1. events[i] \in Events(n) /\ events[i].id \in Doc /\ events[i].val \in 1..n
    BY <2>0 DEF Events
  <2>2. x.copy \in [Doc -> 0..n] /\ IterFits(n, x.it)
    OBVIOUS
  <2>3. Follow(x.copy, events[i]) \in [Doc -> 0..n]
    BY <2>1, <2>2 DEF Follow, Gone
  <2>4. Listen(x.it, events[i]) \in I
    BY <2>1, <2>2, ListenKeeps DEF IterFits
  <2> HIDE DEF I
  <2>5. QED
    BY <2>3, <2>4
<1>2. step \in [X \X (1..l) -> X]
  <2> HIDE DEF X, one, l
  <2>1. QED
    BY <1>1
<1>3. base \in X
  <2>1. iter \in I
    BY DEF IterFits
  <2> HIDE DEF I
  <2>2. QED
    BY <2>1
<1>4. l \in Nat
  OBVIOUS
<1>5. \E f : IsRun(f, X, base, l, step)
  <2> HIDE DEF step, X, l, base
  <2>1. QED
    BY <1>2, <1>3, <1>4, Iteration
<1>6. PICK f \in [0..l -> X] : f[0] = base /\ \A i \in 1..l : f[i] = step[<<f[i-1], i>>]
  <2> HIDE DEF step, X, l, base
  <2>1. QED
    BY <1>5 DEF IsRun
<1>7. ASSUME NEW i \in 1..l
      PROVE  f[i] = one(f[i-1], i)
  <2>1. <<f[i-1], i>> \in X \X (1..l)
    <3> HIDE DEF X, l
    <3>1. i - 1 \in 0..l
      BY <1>4
    <3>2. QED
      BY <3>1
  <2> HIDE DEF X, l, one
  <2>2. QED
    BY <1>6, <2>1
<1>8. Is(f)
  <2> HIDE DEF step, X, l, one, base
  <2>1. \A i \in 0..l : i # 0 => i \in 1..l
    BY <1>4
  <2>2. QED
    BY <1>6, <1>7, <2>1
<1>9. Is(done)
  <2> HIDE DEF Is
  <2>1. QED
    BY <1>8
<1>10. mirror' = done[l].copy /\ iter' = done[l].it
  BY DEF Publish
<1> HIDE DEF step, X, done
<1>11. done[0] = base /\ \A i \in 1..l : done[i] = one(done[i-1], i)
  <2> HIDE DEF l
  <2>1. \A i \in 0..l : done[i] = IF i = 0 THEN base ELSE one(done[i - 1], i)
    BY <1>9
  <2>2. \A i \in 1..l : i \in 0..l /\ i # 0
    BY <1>4
  <2>3. 0 \in 0..l
    BY <1>4
  <2> HIDE DEF one, base
  <2>4. QED
    BY <2>1, <2>2, <2>3
<1>12. done[l] = f[l]
  <2> HIDE DEF l, one, base
  <2>1. AgreeStepwise(l, done, f)
    BY <1>6, <1>7, <1>11 DEF AgreeStepwise
  <2>2. l \in 0..l
    BY <1>4
  <2>3. QED
    BY <1>4, <2>1, <2>2, SameSteps
<1>13. \A i \in 0..l : f[i].copy \in [Doc -> 0..n] /\ f[i].it \in I
  <2> HIDE DEF l, I
  <2>1. \A i \in 0..l : f[i] \in X
    BY <1>6
  <2>2. QED
    BY <2>1 DEF X
<1> DEFINE g == [i \in 0..l |-> f[i].copy]
<1>14. g \in [0..l -> [Doc -> 0..n]] /\ g[0] = mirror /\ g[l] = mirror'
  <2> HIDE DEF l, one, I
  <2>1. 0 \in 0..l /\ l \in 0..l
    BY <1>4
  <2>2. QED
    BY <1>6, <1>10, <1>12, <1>13, <2>1
<1>15. ASSUME NEW i \in 1..l
       PROVE  g[i] = [g[i-1] EXCEPT ![events[i].id] = Outcome(events[i])]
  <2>1. i \in 0..l /\ i - 1 \in 0..l
    BY <1>4
  <2>2. g[i] = f[i].copy /\ g[i-1] = f[i-1].copy
    BY <2>1
  <2>3. f[i].copy = Follow(f[i-1].copy, events[i])
    <3>1. f[i] = one(f[i-1], i)
      BY <1>7
    <3> HIDE DEF g, l, base
    <3>2. QED
      BY <3>1
  <2> HIDE DEF g, l
  <2>4. QED
    BY <2>2, <2>3 DEF Follow, Outcome
<1>16. IterFits(n, iter')
  <2>1. l \in 0..l
    BY <1>4
  <2>2. f[l].it \in I
    BY <1>13, <2>1
  <2> HIDE DEF l
  <2>3. QED
    BY <1>10, <1>12, <2>2
<1>17. Followed(g, n, events)
  BY <1>14, <1>15 DEF Followed
<1>18. QED
  BY <1>16, <1>17

\* v is what a watcher that keeps a copy has of d after the events: what the last
\* event on d tells, or what it had.
LastOn(events, d, j) ==
  /\ j \in DOMAIN events /\ events[j].id = d
  /\ \A k \in DOMAIN events : k > j => events[k].id # d

Tells(copy, events, d, v) ==
  \/ (\A j \in DOMAIN events : events[j].id # d) /\ v = copy[d]
  \/ \E j \in DOMAIN events : LastOn(events, d, j) /\ v = Outcome(events[j])

LEMMA PublishIs ==
  ASSUME setup \in Setup, NEW n \in Nat, mirror \in [Doc -> 0..n], IterFits(n, iter),
         NEW events \in Seq(Events(n)), Publish(events)
  PROVE  /\ mirror' \in [Doc -> 0..n] /\ IterFits(n, iter')
         /\ \A d \in Doc : Tells(mirror, events, d, mirror'[d])
<1>1. PICK f : Followed(f, n, events)
  BY PublishLoop
<1> DEFINE l == Len(events)
<1>2. /\ f \in [0..l -> [Doc -> 0..n]] /\ f[0] = mirror /\ f[l] = mirror' 
      /\ \A i \in 1..l : f[i] = [f[i-1] EXCEPT ![events[i].id] = Outcome(events[i])]
  BY <1>1 DEF Followed
<1>0. DOMAIN events = 1..l /\ l \in Nat
  OBVIOUS
<1> HIDE DEF l
<1> SUFFICES ASSUME NEW d \in Doc PROVE Tells(mirror, events, d, mirror'[d])
  BY <1>0, <1>2, PublishLoop
<1> DEFINE Ok(k) == \/ (\A j \in 1..k : events[j].id # d) /\ f[k][d] = mirror[d]
                    \/ \E j \in 1..k : /\ events[j].id = d /\ f[k][d] = Outcome(events[j])
                                       /\ \A i \in 1..k : i > j => events[i].id # d
           S == {k \in Nat : k <= l => Ok(k)}
<1>3. 0 \in S
  BY <1>0, <1>2
<1>4. ASSUME NEW k \in Nat, k \in S PROVE k + 1 \in S
  <2> SUFFICES ASSUME k + 1 <= l PROVE Ok(k + 1)
    OBVIOUS
  <2>1. k + 1 \in 1..l /\ (k + 1) - 1 = k /\ k \in 0..l /\ Ok(k)
    BY <1>0, <1>2, <1>4
  <2>2. f[k+1] = [f[k] EXCEPT ![events[k+1].id] = Outcome(events[k+1])] /\ f[k] \in [Doc -> 0..n]
    BY <1>0, <1>2, <2>1
  <2>3. /\ \A j \in 1..k+1 : j \in 1..k \/ j = k+1
        /\ \A j \in 1..k : j \in 1..k+1 /\ j # k+1 /\ k+1 > j
        /\ k+1 \in 1..k+1 /\ ~(k+1 > k+1)
    OBVIOUS
  <2> HIDE DEF S
  <2>4. CASE events[k+1].id = d
    <3>1. f[k+1][d] = Outcome(events[k+1])
      BY <2>2, <2>4
    <3>2. \A i \in 1..k+1 : i > k+1 => events[i].id # d
      BY <2>3
    <3>3. QED
      BY <2>3, <2>4, <3>1, <3>2
  <2>5. CASE events[k+1].id # d
    <3>1. f[k+1][d] = f[k][d]
      BY <2>2, <2>5
    <3>2. CASE (\A j \in 1..k : events[j].id # d) /\ f[k][d] = mirror[d]
      <4>1. \A j \in 1..k+1 : events[j].id # d
        BY <2>3, <2>5, <3>2
      <4>2. QED
        BY <3>1, <3>2, <4>1
    <3>3. ASSUME NEW j \in 1..k, events[j].id = d, f[k][d] = Outcome(events[j]),
                 \A i \in 1..k : i > j => events[i].id # d
          PROVE  Ok(k+1)
      <4>1. \A i \in 1..k+1 : i > j => events[i].id # d
        BY <2>3, <2>5, <3>3
      <4>2. j \in 1..k+1
        BY <2>3
      <4>3. QED
        BY <3>1, <3>3, <4>1, <4>2
    <3>4. QED
      BY <2>1, <3>2, <3>3
  <2>6. QED
    BY <2>4, <2>5
<1> HIDE DEF S, Ok
<1>5. Nat \subseteq S
  BY <1>3, <1>4, NatInductionSet
<1>6. Ok(l)
  BY <1>0, <1>2, <1>5 DEF S
<1>7. QED
  BY <1>0, <1>2, <1>6 DEF Ok, Tells, LastOn

-----------------------------------------------------------------------------
(* Reading the log.                                                        *)

\* What db.restore() reads of the log is in the log.
LEMMA UpToIs ==
  ASSUME NEW T, log \in Seq(T), NEW t \in Nat
  PROVE  UpTo(t) \in Seq(ToSet(log))
<1> DEFINE X == Seq(ToSet(log))
           one(x, i) == x \o Only(log, {e \in ToSet(log) : e.ts = i})
           step == [p \in X \X (1..t) |-> one(p[1], p[2])]
           Is(f) == f = [i \in 0..t |-> IF i = 0 THEN <<>> ELSE one(f[i - 1], i)]
           done == CHOOSE f : Is(f)
<1>0. log \in X
  BY DEF ToSet
<1>1. ASSUME NEW x \in X, NEW i \in 1..t PROVE one(x, i) \in X
  <2>1. Only(log, {e \in ToSet(log) : e.ts = i}) \in X
    BY <1>0, OnlyIs
  <2>2. QED
    BY <2>1
<1>2. step \in [X \X (1..t) -> X]
  <2> HIDE DEF X, one
  <2>1. QED
    BY <1>1
<1>3. <<>> \in X
  OBVIOUS
<1>5. \E f : IsRun(f, X, <<>>, t, step)
  <2> HIDE DEF step, X
  <2>1. QED
    BY <1>2, <1>3, Iteration
<1>6. PICK f \in [0..t -> X] : f[0] = <<>> /\ \A i \in 1..t : f[i] = step[<<f[i-1], i>>]
  <2> HIDE DEF step, X
  <2>1. QED
    BY <1>5 DEF IsRun
<1>7. ASSUME NEW i \in 1..t
      PROVE  f[i] = one(f[i-1], i)
  <2>1. <<f[i-1], i>> \in X \X (1..t)
    <3> HIDE DEF X
    <3>1. i - 1 \in 0..t
      OBVIOUS
    <3>2. QED
      BY <3>1
  <2> HIDE DEF X, one
  <2>2. QED
    BY <1>6, <2>1
<1>8. Is(f)
  <2> HIDE DEF step, X, one
  <2>1. \A i \in 0..t : i # 0 => i \in 1..t
    OBVIOUS
  <2>2. QED
    BY <1>6, <1>7, <2>1
<1>9. Is(done)
  <2> HIDE DEF Is
  <2>1. QED
    BY <1>8
<1>10. UpTo(t) = done[t]
  BY DEF UpTo
<1> HIDE DEF step, X, done
<1>11. done[0] = <<>> /\ \A i \in 1..t : done[i] = one(done[i-1], i)
  <2>1. \A i \in 0..t : done[i] = IF i = 0 THEN <<>> ELSE one(done[i - 1], i)
    BY <1>9
  <2>2. 0 \in 0..t /\ \A i \in 1..t : i \in 0..t /\ i # 0
    OBVIOUS
  <2> HIDE DEF one
  <2>3. QED
    BY <2>1, <2>2
<1>12. done[t] = f[t]
  <2> HIDE DEF one
  <2>1. AgreeStepwise(t, done, f)
    BY <1>6, <1>7, <1>11 DEF AgreeStepwise
  <2>2. t \in 0..t
    OBVIOUS
  <2>3. QED
    BY <2>1, <2>2, SameSteps
<1>13. QED
  BY <1>6, <1>10, <1>12 DEF X

\* One entry at most for each document.
OneEach(s) == \A i, j \in DOMAIN s : s[i].id = s[j].id => i = j

LEMMA PutIs ==
  ASSUME NEW T, NEW s \in Seq(T), OneEach(s), NEW e \in T
  PROVE  Put(s, e) \in Seq(T) /\ OneEach(Put(s, e))
<1>1. CASE \E i \in DOMAIN s : s[i].id = e.id
  <2> DEFINE r == [i \in DOMAIN s |-> IF s[i].id = e.id THEN e ELSE s[i]]
  <2>1. Put(s, e) = r
    BY <1>1 DEF Put
  <2>2. r \in Seq(T) /\ DOMAIN r = DOMAIN s
    OBVIOUS
  <2>3. \A i \in DOMAIN s : r[i].id = s[i].id
    OBVIOUS
  <2> HIDE DEF r
  <2>4. QED
    BY <2>1, <2>2, <2>3 DEF OneEach
<1>2. CASE ~ \E i \in DOMAIN s : s[i].id = e.id
  <2> DEFINE r == Append(s, e)
  <2>1. Put(s, e) = r
    BY <1>2 DEF Put
  <2>2. r \in Seq(T) /\ DOMAIN r = DOMAIN s \union {Len(s) + 1} /\ r[Len(s) + 1] = e
    OBVIOUS
  <2>3. \A i \in DOMAIN s : r[i] = s[i]
    OBVIOUS
  <2> HIDE DEF r
  <2>4. QED
    BY <1>2, <2>1, <2>2, <2>3 DEF OneEach
<1>3. QED
  BY <1>1, <1>2

\* What is replayed are entries that tell of a document, one for each.
LEMMA ReplayIs ==
  ASSUME NEW T, NEW entries \in Seq(T)
  PROVE  /\ Replay(entries) \in Seq({e \in T : e.op \notin {"delete", "restore"}})
         /\ OneEach(Replay(entries))
<1> DEFINE l == Len(entries)
           R == {e \in T : e.op # "restore"}
           X == {s \in Seq(R) : OneEach(s)}
           one(x, i) == IF entries[i].op = "restore" THEN x ELSE Put(x, entries[i])
           step == [p \in X \X (1..l) |-> one(p[1], p[2])]
           Is(f) == f = [i \in 0..l |-> IF i = 0 THEN <<>>
                                        ELSE IF entries[i].op = "restore" THEN f[i - 1]
                                        ELSE Put(f[i - 1], entries[i])]
           done == CHOOSE f : Is(f)
<1>1. ASSUME NEW x \in X, NEW i \in 1..l PROVE one(x, i) \in X
  <2>1. entries[i] \in T
    OBVIOUS
  <2>2. x \in Seq(R) /\ OneEach(x)
    OBVIOUS
  <2>3. CASE entries[i].op # "restore"
    <3>1. entries[i] \in R
      BY <2>1, <2>3
    <3> HIDE DEF R
    <3>2. Put(x, entries[i]) \in Seq(R) /\ OneEach(Put(x, entries[i]))
      BY <2>2, <3>1, PutIs
    <3>3. QED
      BY <2>3, <3>2
  <2>4. QED
    BY <2>3
<1>2. step \in [X \X (1..l) -> X]
  <2> HIDE DEF X, one, l
  <2>1. QED
    BY <1>1
<1>3. <<>> \in X
  BY DEF OneEach
<1>4. l \in Nat
  OBVIOUS
<1>5. \E f : IsRun(f, X, <<>>, l, step)
  <2> HIDE DEF step, X, l
  <2>1. QED
    BY <1>2, <1>3, <1>4, Iteration
<1>6. PICK f \in [0..l -> X] : f[0] = <<>> /\ \A i \in 1..l : f[i] = step[<<f[i-1], i>>]
  <2> HIDE DEF step, X, l
  <2>1. QED
    BY <1>5 DEF IsRun
<1>7. ASSUME NEW i \in 1..l
      PROVE  f[i] = one(f[i-1], i)
  <2>1. <<f[i-1], i>> \in X \X (1..l)
    <3> HIDE DEF X, l
    <3>1. i - 1 \in 0..l
      BY <1>4
    <3>2. QED
      BY <3>1
  <2> HIDE DEF X, l, one
  <2>2. QED
    BY <1>6, <2>1
<1>8. Is(f)
  <2> HIDE DEF step, X, l
  <2>1. \A i \in 0..l : i # 0 => i \in 1..l
    BY <1>4
  <2>2. QED
    BY <1>6, <1>7, <2>1
<1>9. Is(done)
  <2> HIDE DEF Is
  <2>1. QED
    BY <1>8
<1>10. Replay(entries) = Only(done[l], {e \in ToSet(entries) : e.op # "delete"})
  BY DEF Replay
<1> HIDE DEF step, X, done
<1>11. done[0] = <<>> /\ \A i \in 1..l : done[i] = one(done[i-1], i)
  <2> HIDE DEF l
  <2>1. \A i \in 0..l : done[i] = IF i = 0 THEN <<>>
                                  ELSE IF entries[i].op = "restore" THEN done[i - 1]
                                  ELSE Put(done[i - 1], entries[i])
    BY <1>9
  <2>2. 0 \in 0..l /\ \A i \in 1..l : i \in 0..l /\ i # 0
    BY <1>4
  <2>3. QED
    BY <2>1, <2>2
<1>12. done[l] = f[l]
  <2> HIDE DEF l, one
  <2>1. AgreeStepwise(l, done, f)
    BY <1>6, <1>7, <1>11 DEF AgreeStepwise
  <2>2. l \in 0..l
    BY <1>4
  <2>3. QED
    BY <1>4, <2>1, <2>2, SameSteps
<1> DEFINE s == done[l]
           keep == {e \in ToSet(entries) : e.op # "delete"}
           r == Only(s, keep)
<1>13. s \in Seq(R) /\ OneEach(s)
  <2> HIDE DEF l, R
  <2>1. f[l] \in X
    BY <1>4, <1>6
  <2>2. QED
    BY <1>12, <2>1 DEF X
<1> HIDE DEF s
<1>14. IsInjective(s) /\ \A a, b \in ToSet(s) : a.id = b.id => a = b
  BY <1>13 DEF OneEach, IsInjective, ToSet
<1>15. r \in Seq(R) /\ ToSet(r) = ToSet(s) \intersect keep /\ IsInjective(r)
  <2> HIDE DEF R, keep
  <2>1. QED
    BY <1>13, <1>14, OnlyIs
<1>16. r = Replay(entries)
  BY <1>10 DEF s
<1> HIDE DEF r
<1>17. OneEach(r)
  BY <1>14, <1>15 DEF OneEach, IsInjective, ToSet
<1>18. r \in Seq({e \in T : e.op \notin {"delete", "restore"}})
  <2>1. \A i \in DOMAIN r : r[i] \in keep /\ r[i] \in R
    BY <1>15 DEF ToSet
  <2>2. \A i \in DOMAIN r : r[i] \in {e \in T : e.op \notin {"delete", "restore"}}
    BY <2>1
  <2>3. QED
    BY <1>15, <2>2
<1>19. QED
  BY <1>16, <1>17, <1>18

-----------------------------------------------------------------------------
(* Types: n objects were made, and t is the time.                          *)

Objects(n) == [id : Doc, val : 1 .. n, deleted : BOOLEAN]

Entries(n, t) == [op : Op, id : Doc, val : 1 .. n, deleted : BOOLEAN, ts : 1 .. t]

Deferred(n, t) == [kind : {"event"}, event : Events(n)]
                    \union [kind : {"entry"}, op : Op, obj : 1 .. n]
                    \union [kind : {"stamped"}, entry : Entries(n, t)]

Calls(n, t) == [stage : Stage, op : Op, docs : Seq(Doc), objs : Seq(1 .. n), at : Nat,
                until : Nat, entries : Seq(Entries(n, t))]

TimeFits == /\ now \in 1 .. setup.time
            /\ past \in Seq(SUBSET SUBSET (Doc \X Nat)) /\ Len(past) = now - 1

\* Documents are objects, and each is in the collection once.
Apart(h, s) == \A i, j \in DOMAIN s : h[s[i]].id = h[s[j]].id => i = j

DocsFit == /\ heap \in Seq(Objects(Len(heap)))
           /\ data \in Seq(1 .. Len(heap)) /\ Apart(heap, data)

LogFits(n, t) == log \in Seq(Entries(n, t))

CallsFit(n, t) ==
  /\ call \in [Call -> Calls(n, t)]
  /\ \A c \in Call : /\ call[c].at <= Len(call[c].objs)
                     /\ call[c].stage = "logging" => call[c].at < Len(call[c].objs)

WatchersFit(n, t) ==
  /\ mirror \in [Doc -> 0 .. n] /\ IterFits(n, iter)
  /\ deferred \in Seq(Deferred(n, t))
  /\ tx \in {"none", "open", "flushing"} /\ (tx = "none" => deferred = <<>>)

Fits(n, t) == LogFits(n, t) /\ CallsFit(n, t) /\ WatchersFit(n, t)

TInv == setup \in Setups /\ TimeFits /\ DocsFit /\ Fits(Len(heap), now)

LEMMA SetupType ==
  ASSUME setup \in Setups
  PROVE  setup \in Setup
BY ChangeLogAssumption

LEMMA SeqGrows ==
  ASSUME NEW S, NEW T, S \subseteq T
  PROVE  Seq(S) \subseteq Seq(T)
OBVIOUS

\* What has its type keeps it when objects are made and time goes on.
LEMMA Growing ==
  ASSUME NEW n \in Nat, NEW m \in Nat, n <= m, NEW t \in Nat, NEW u \in Nat, t <= u
  PROVE  /\ Objects(n) \subseteq Objects(m) /\ Entries(n, t) \subseteq Entries(m, u)
         /\ Events(n) \subseteq Events(m) /\ Deferred(n, t) \subseteq Deferred(m, u)
         /\ Calls(n, t) \subseteq Calls(m, u)
         /\ [Doc -> 0 .. n] \subseteq [Doc -> 0 .. m]
         /\ \A it : IterFits(n, it) => IterFits(m, it)
<1>1. /\ 1 .. n \subseteq 1 .. m /\ 0 .. n \subseteq 0 .. m /\ 1 .. t \subseteq 1 .. u
      /\ Seq(1 .. n) \subseteq Seq(1 .. m)
  OBVIOUS
<1>2. Objects(n) \subseteq Objects(m) /\ Events(n) \subseteq Events(m)
  BY <1>1 DEF Objects, Events
<1>3. Entries(n, t) \subseteq Entries(m, u)
  BY <1>1 DEF Entries
<1>4. Deferred(n, t) \subseteq Deferred(m, u)
  BY <1>1, <1>2, <1>3 DEF Deferred
<1>5. Calls(n, t) \subseteq Calls(m, u)
  <2>1. Seq(Entries(n, t)) \subseteq Seq(Entries(m, u))
    BY <1>3, SeqGrows
  <2>2. QED
    BY <1>1, <2>1 DEF Calls
<1>6. [Doc -> 0 .. n] \subseteq [Doc -> 0 .. m]
  BY <1>1
<1>7. ASSUME NEW it, IterFits(n, it) PROVE IterFits(m, it)
  <2>1. Iterator(Events(n), it) /\ IsRecord(it)
    BY <1>7, IteratorsAre DEF IterFits
  <2>2. Seq(Events(n)) \subseteq Seq(Events(m))
    BY <1>2, SeqGrows
  <2>3. Iterator(Events(m), it)
    BY <2>1, <2>2 DEF Iterator
  <2>4. it \in Iterators(Events(m))
    BY <2>1, <2>3, IteratorsAre
  <2>5. QED
    BY <1>7, <2>4 DEF IterFits
<1>8. QED
  BY <1>2, <1>3, <1>4, <1>5, <1>6, <1>7

LEMMA FitsLater ==
  ASSUME NEW n \in Nat, NEW m \in Nat, n <= m, NEW t \in Nat, NEW u \in Nat, t <= u
  PROVE  /\ LogFits(n, t) => LogFits(m, u)
         /\ CallsFit(n, t) => CallsFit(m, u)
         /\ WatchersFit(n, t) => WatchersFit(m, u)
<1>1. Seq(Entries(n, t)) \subseteq Seq(Entries(m, u))
      /\ Seq(Deferred(n, t)) \subseteq Seq(Deferred(m, u))
  BY Growing, SeqGrows
<1>2. LogFits(n, t) => LogFits(m, u)
  BY <1>1 DEF LogFits
<1>3. CallsFit(n, t) => CallsFit(m, u)
  BY Growing DEF CallsFit
<1>4. WatchersFit(n, t) => WatchersFit(m, u)
  BY <1>1, Growing DEF WatchersFit
<1>5. QED
  BY <1>2, <1>3, <1>4

\* The sizes of a state.
LEMMA Sizes ==
  ASSUME TInv
  PROVE  /\ Len(heap) \in Nat /\ now \in Nat /\ DOMAIN heap = 1 .. Len(heap)
         /\ setup \in Setup /\ now >= 1
         /\ \A a \in 1 .. Len(heap) : heap[a] \in Objects(Len(heap))
<1>1. setup \in Setup
  BY SetupType DEF TInv
<1>2. now \in Nat /\ now >= 1
  BY <1>1, SetupFields DEF TInv, TimeFits
<1>3. QED
  BY <1>1, <1>2 DEF TInv, DocsFit

\* Events that are published or deferred.
LEMMA EmitKeeps ==
  ASSUME TInv, NEW m \in Nat, Len(heap) <= m, NEW events \in Seq(Events(m)),
         EmitEvents(events), tx' = tx, setup' = setup, now' = now
  PROVE  WatchersFit(m, now)'
<1>1. WatchersFit(m, now) /\ setup \in Setup /\ now \in Nat
  BY Sizes, FitsLater DEF TInv, Fits
<1>2. CASE tx = "none"
  <2>1. Publish(events) /\ deferred' = deferred
    BY <1>2 DEF EmitEvents
  <2>2. mirror' \in [Doc -> 0..m] /\ IterFits(m, iter')
    BY <1>1, <2>1, PublishIs DEF WatchersFit
  <2>3. IterFits(m, iter)'
    BY <2>2 DEF IterFits
  <2>4. QED
    BY <1>1, <1>2, <2>1, <2>2, <2>3 DEF WatchersFit
<1>3. CASE tx # "none"
  <2> DEFINE more == [i \in DOMAIN events |-> [kind |-> "event", event |-> events[i]]]
  <2>1. deferred' = deferred \o more /\ mirror' = mirror /\ iter' = iter
    BY <1>3 DEF EmitEvents
  <2>2. more \in Seq(Deferred(m, now))
    <3>1. \A i \in DOMAIN events : [kind |-> "event", event |-> events[i]] \in Deferred(m, now)
      BY DEF Deferred
    <3>2. QED
      BY <3>1
  <2> HIDE DEF more
  <2>3. deferred' \in Seq(Deferred(m, now))
    BY <1>1, <2>1, <2>2 DEF WatchersFit
  <2>4. IterFits(m, iter)'
    BY <1>1, <2>1 DEF IterFits, WatchersFit
  <2>5. QED
    BY <1>1, <1>3, <2>1, <2>3, <2>4 DEF WatchersFit
<1>4. QED
  BY <1>2, <1>3

\* Who has not called.
LEMMA IdleCall ==
  ASSUME NEW n \in Nat, NEW t \in Nat
  PROVE  NoCall \in Calls(n, t) /\ NoCall.at = 0 /\ NoCall.objs = <<>> /\ NoCall.stage = "idle"
BY DEF Calls, NoCall, Op, Stage

\* A call that ends, and one that starts.
LEMMA EndKeeps ==
  ASSUME NEW n \in Nat, NEW t \in Nat, CallsFit(n, t), NEW c \in Call,
         NEW stage \in Stage \ {"logging"}, Ended(c, stage)
  PROVE  CallsFit(n, t)'
<1> DEFINE r == [NoCall EXCEPT !.stage = stage, !.until = call[c].until]
<1>1. call \in [Call -> Calls(n, t)] /\ call[c].until \in Nat
  BY DEF CallsFit, Calls
<1>2. /\ r \in Calls(n, t) /\ r.at = 0 /\ r.objs = <<>> /\ r.stage = stage
  BY <1>1, IdleCall DEF Calls
<1>3. call' = [call EXCEPT ![c] = r]
  BY DEF Ended
<1> HIDE DEF r
<1>4. QED
  BY <1>1, <1>2, <1>3 DEF CallsFit

LEMMA StartKeeps ==
  ASSUME NEW n \in Nat, NEW t \in Nat, CallsFit(n, t), NEW c \in Call,
         NEW op \in Op, NEW docs \in Seq(Doc), NEW objs \in Seq(1 .. n),
         Started(c, "applied", op, docs, objs)
  PROVE  CallsFit(n, t)'
<1> DEFINE r == [NoCall EXCEPT !.stage = "applied", !.op = op, !.docs = docs, !.objs = objs]
<1>1. call \in [Call -> Calls(n, t)]
  BY DEF CallsFit
<1>2. /\ r \in Calls(n, t) /\ r.at = 0 /\ r.objs = objs /\ r.stage = "applied"
  <2>1. "applied" \in Stage
    BY DEF Stage
  <2>2. QED
    BY <2>1, IdleCall DEF Calls
<1>3. call' = [call EXCEPT ![c] = r]
  BY DEF Started
<1> HIDE DEF r
<1>4. Len(objs) \in Nat
  OBVIOUS
<1>5. QED
  BY <1>1, <1>2, <1>3, <1>4 DEF CallsFit

\* Objects that are made get the next addresses.
LEMMA HeapGrows ==
  ASSUME TInv, NEW new, NEW m \in Nat, m = Len(heap) + Len(new), new \in Seq(Objects(m)),
         heap' = heap \o new
  PROVE  /\ heap' \in Seq(Objects(m)) /\ Len(heap') = m
         /\ \A a \in 1 .. Len(heap) : heap'[a] = heap[a]
         /\ \A i \in DOMAIN new : heap'[Len(heap) + i] = new[i]
         /\ \A i \in DOMAIN new : Len(heap) + i \in 1 .. m /\ Len(heap) + i \notin 1 .. Len(heap)
         /\ 1 .. Len(heap) \subseteq 1 .. m
         /\ Len(heap) \in Nat /\ Len(heap) <= m
<1>1. Len(heap) \in Nat /\ heap \in Seq(Objects(Len(heap)))
  BY Sizes DEF TInv, DocsFit
<1>2. Len(new) \in Nat /\ DOMAIN new = 1 .. Len(new)
  OBVIOUS
<1> DEFINE n == Len(heap)
<1>3. heap \in Seq(Objects(m))
  <2>1. n <= m
    BY <1>1, <1>2
  <2>2. Objects(n) \subseteq Objects(m)
    BY <1>1, <2>1, Growing
  <2>3. QED
    BY <1>1, <2>2, SeqGrows
<1> HIDE DEF n
<1>4. /\ heap \o new \in Seq(Objects(m)) /\ Len(heap \o new) = Len(heap) + Len(new)
      /\ \A a \in 1 .. Len(heap) : (heap \o new)[a] = heap[a]
      /\ \A i \in 1 .. Len(new) : (heap \o new)[Len(heap) + i] = new[i]
  BY <1>1, <1>2, <1>3
<1>5. QED
  BY <1>1, <1>2, <1>4

\* What Apart says of what is in the sequence.
LEMMA ApartIs ==
  ASSUME NEW h, NEW s
  PROVE  Apart(h, s) <=> /\ IsInjective(s)
                         /\ \A a, b \in ToSet(s) : h[a].id = h[b].id => a = b
BY DEF Apart, IsInjective, ToSet

\* Documents that are left, and those that are there again.
LEMMA OnlyApart ==
  ASSUME NEW T, NEW s \in Seq(T), NEW keep, NEW h, Apart(h, s)
  PROVE  /\ Only(s, keep) \in Seq(T) /\ Apart(h, Only(s, keep))
         /\ ToSet(Only(s, keep)) = ToSet(s) \intersect keep
<1>1. IsInjective(s) /\ \A a, b \in ToSet(s) : h[a].id = h[b].id => a = b
  BY ApartIs
<1>2. /\ Only(s, keep) \in Seq(T) /\ IsInjective(Only(s, keep))
      /\ ToSet(Only(s, keep)) = ToSet(s) \intersect keep
  BY <1>1, OnlyIs
<1>3. QED
  BY <1>1, <1>2, ApartIs

\* A document that is held has one address.
LEMMA AddressIs ==
  ASSUME TInv
  PROVE  /\ \A i \in DOMAIN data : heap[data[i]].id \in Doc /\ Holds(heap[data[i]].id)
                                   /\ Address(heap[data[i]].id) = data[i]
         /\ \A d : Holds(d) => /\ Address(d) \in ToSet(data) /\ Address(d) \in 1 .. Len(heap)
                               /\ heap[Address(d)].id = d /\ d \in Doc
<1>1. /\ \A i \in DOMAIN data : data[i] \in 1 .. Len(heap)
      /\ \A a \in 1 .. Len(heap) : heap[a].id \in Doc
      /\ Apart(heap, data)
  <2>1. \A i \in DOMAIN data : data[i] \in 1 .. Len(heap)
    BY DEF TInv, DocsFit
  <2>2. \A a \in 1 .. Len(heap) : heap[a] \in Objects(Len(heap))
    BY Sizes
  <2>3. QED
    BY <2>1, <2>2 DEF TInv, DocsFit, Objects
<1>2. ASSUME NEW d, Holds(d)
      PROVE  /\ Address(d) \in ToSet(data) /\ Address(d) \in 1 .. Len(heap)
             /\ heap[Address(d)].id = d /\ d \in Doc
  <2>1. PICK i \in DOMAIN data : heap[data[i]].id = d /\ Address(d) = data[i]
    BY <1>2 DEF Holds, Address
  <2>2. QED
    BY <1>1, <2>1 DEF ToSet
<1>3. ASSUME NEW i \in DOMAIN data
      PROVE  /\ Holds(heap[data[i]].id) /\ Address(heap[data[i]].id) = data[i]
  <2>1. Holds(heap[data[i]].id)
    BY DEF Holds
  <2>2. PICK j \in DOMAIN data : heap[data[j]].id = heap[data[i]].id
                                 /\ Address(heap[data[i]].id) = data[j]
    BY DEF Address
  <2>3. j = i
    BY <1>1, <2>2 DEF Apart
  <2>4. QED
    BY <2>1, <2>2, <2>3
<1>4. QED
  BY <1>1, <1>2, <1>3

\* What queries see, of the collection's addresses s in h.
Shown(h, s, d, v) ==
  \/ \E i \in DOMAIN s : h[s[i]].id = d /\ v = IF h[s[i]].deleted THEN Gone ELSE h[s[i]].val
  \/ (\A i \in DOMAIN s : h[s[i]].id # d) /\ v = Gone

LEMMA VisibleIs ==
  ASSUME TInv, NEW d
  PROVE  /\ \A v : Shown(heap, data, d, v) <=> v = Visible(d)
         /\ Visible(d) \in 0 .. Len(heap)
         /\ Visible(d) # Gone => /\ Holds(d) /\ ~heap[Address(d)].deleted
                                 /\ Visible(d) = heap[Address(d)].val
<1>1. ASSUME Holds(d)
      PROVE  /\ \A v : Shown(heap, data, d, v) <=> v = Visible(d)
             /\ Visible(d) \in 0 .. Len(heap)
  <2>1. Visible(d) = IF heap[Address(d)].deleted THEN Gone ELSE heap[Address(d)].val
    BY <1>1 DEF Visible
  <2>2. \E i \in DOMAIN data : heap[data[i]].id = d
    BY <1>1 DEF Holds
  <2>3. \A i \in DOMAIN data : heap[data[i]].id = d => Address(d) = data[i]
    BY AddressIs
  <2>4. Address(d) \in 1 .. Len(heap)
    BY <1>1, AddressIs
  <2>5. heap[Address(d)].val \in 1 .. Len(heap) /\ Len(heap) \in Nat
    BY <2>4, Sizes DEF Objects
  <2>6. QED
    BY <2>1, <2>2, <2>3, <2>5 DEF Shown, Gone
<1>2. ASSUME ~Holds(d)
      PROVE  /\ \A v : Shown(heap, data, d, v) <=> v = Visible(d)
             /\ Visible(d) \in 0 .. Len(heap)
  BY <1>2, Sizes DEF Holds, Visible, Shown, Gone
<1>3. QED
  BY <1>1, <1>2 DEF Visible

-----------------------------------------------------------------------------
(* Types are kept: the turns in which documents change.                    *)

\* The elements of a sequence.
LEMMA Elements ==
  ASSUME NEW T, NEW s \in Seq(T)
  PROVE  Len(s) \in Nat /\ DOMAIN s = 1 .. Len(s) /\ \A i \in DOMAIN s : s[i] \in T
OBVIOUS

\* What is indexed from 1 is a sequence.
LEMMA SeqIs ==
  ASSUME NEW T, NEW s, NEW k \in Nat, s = [i \in 1 .. k |-> s[i]], \A i \in 1 .. k : s[i] \in T
  PROVE  s \in Seq(T) /\ Len(s) = k
<1>1. s \in [1 .. k -> T]
  OBVIOUS
<1>2. QED
  BY <1>1

\* What two sequences have at each place, one after the other.
LEMMA ConcatIs ==
  ASSUME NEW T, NEW s \in Seq(T), NEW t \in Seq(T)
  PROVE  /\ s \o t \in Seq(T) /\ Len(s \o t) = Len(s) + Len(t)
         /\ \A i \in DOMAIN s : i \in DOMAIN (s \o t) /\ (s \o t)[i] = s[i]
         /\ \A i \in DOMAIN t : Len(s) + i \in DOMAIN (s \o t) /\ (s \o t)[Len(s) + i] = t[i]
         /\ \A i \in DOMAIN (s \o t) :
              (i \in DOMAIN s /\ (s \o t)[i] = s[i])
              \/ \E j \in DOMAIN t : i = Len(s) + j /\ (s \o t)[i] = t[j]
<1>1. Len(s) \in Nat /\ Len(t) \in Nat /\ DOMAIN s = 1 .. Len(s) /\ DOMAIN t = 1 .. Len(t)
  OBVIOUS
<1>2. s \o t \in Seq(T) /\ Len(s \o t) = Len(s) + Len(t) /\ DOMAIN (s \o t) = 1 .. Len(s) + Len(t)
  OBVIOUS
<1>3. \A i \in DOMAIN s : i \in DOMAIN (s \o t) /\ (s \o t)[i] = s[i]
  OBVIOUS
<1>4. \A i \in DOMAIN t : Len(s) + i \in DOMAIN (s \o t) /\ (s \o t)[Len(s) + i] = t[i]
  OBVIOUS
<1>5. ASSUME NEW i \in DOMAIN (s \o t), i \notin DOMAIN s
      PROVE  \E j \in DOMAIN t : i = Len(s) + j /\ (s \o t)[i] = t[j]
  <2>1. i - Len(s) \in DOMAIN t /\ i = Len(s) + (i - Len(s))
    BY <1>1, <1>2, <1>5
  <2>2. QED
    BY <1>4, <2>1
<1>6. QED
  BY <1>2, <1>3, <1>4, <1>5

\* What is left of a sequence behind its first k elements.
LEMMA SuffixIs ==
  ASSUME NEW T, NEW s \in Seq(T), NEW k \in 0 .. Len(s)
  PROVE  /\ SubSeq(s, k + 1, Len(s)) \in Seq(T)
         /\ DOMAIN SubSeq(s, k + 1, Len(s)) = 1 .. Len(s) - k
         /\ \A i \in 1 .. Len(s) - k : /\ k + i \in DOMAIN s
                                       /\ SubSeq(s, k + 1, Len(s))[i] = s[k + i]
<1>1. Len(s) \in Nat /\ k \in Nat /\ k <= Len(s)
  OBVIOUS
<1> DEFINE r == SubSeq(s, k + 1, Len(s))
<1>2. \A i \in k + 1 .. Len(s) : i \in DOMAIN s /\ s[i] \in T
  OBVIOUS
<1>3. /\ r \in Seq(T) /\ Len(r) = IF k + 1 <= Len(s) THEN Len(s) - (k + 1) + 1 ELSE 0
      /\ \A i \in 1 .. Len(s) - (k + 1) + 1 : r[i] = s[(k + 1) + i - 1]
  BY <1>1, <1>2, SubSeqProperties
<1> HIDE DEF r
<1>4. Len(r) = Len(s) - k
  BY <1>1, <1>3
<1>5. ASSUME NEW i \in 1 .. Len(s) - k PROVE k + i \in DOMAIN s /\ r[i] = s[k + i]
  <2>1. i \in 1 .. Len(s) - (k + 1) + 1 /\ (k + 1) + i - 1 = k + i /\ k + i \in DOMAIN s
    BY <1>1
  <2>2. QED
    BY <1>3, <2>1
<1>6. QED
  BY <1>3, <1>4, <1>5 DEF r

\* A call that may start is about documents, each of them once.
LEMMA RequestIs ==
  ASSUME TInv, NEW c, NEW op, NEW docs, MayStart(c, op, docs)
  PROVE  docs \in Seq(Doc) /\ IsInjective(docs)
<1>1. [op |-> op, docs |-> docs] \in setup.requests
  BY DEF MayStart
<1>2. QED
  BY <1>1, Sizes, SetupFields

\* Objects are made, and old ones keep what they were but for the mark.
HeapStep(m) ==
  /\ Len(heap') = m /\ m \in Nat /\ Len(heap) <= m
  /\ heap' \in Seq(Objects(m))
  /\ \A a \in 1 .. Len(heap) : heap'[a].id = heap[a].id /\ heap'[a].val = heap[a].val

LEMMA StepTInv ==
  ASSUME TInv, NEW m, HeapStep(m), setup' = setup, now' = now, past' = past,
         data' \in Seq(1 .. m), Apart(heap', data'),
         LogFits(m, now)', CallsFit(m, now)', WatchersFit(m, now)'
  PROVE  TInv'
<1>1. Len(heap') = m /\ DocsFit' /\ TimeFits'
  BY DEF TInv, TimeFits, DocsFit, HeapStep
<1>2. QED
  BY <1>1 DEF TInv, Fits

\* What does not change still fits.
LEMMA SameFits ==
  ASSUME TInv, NEW m \in Nat, Len(heap) <= m, setup' = setup, now' = now
  PROVE  /\ log' = log => LogFits(m, now)'
         /\ call' = call => CallsFit(m, now)'
         /\ UNCHANGED <<mirror, iter, deferred, tx>> => WatchersFit(m, now)'
         /\ CallsFit(m, now)
<1>1. LogFits(m, now) /\ CallsFit(m, now) /\ WatchersFit(m, now)
  BY Sizes, FitsLater DEF TInv, Fits
<1>2. log' = log => LogFits(m, now)'
  BY <1>1 DEF LogFits
<1>3. call' = call => CallsFit(m, now)'
  BY <1>1 DEF CallsFit
<1>4. UNCHANGED <<mirror, iter, deferred, tx>> => WatchersFit(m, now)'
  BY <1>1 DEF WatchersFit, IterFits
<1>5. QED
  BY <1>1, <1>2, <1>3, <1>4

\* Nothing changes in the collection.
LEMMA SameDocs ==
  ASSUME TInv, NEW m, m = Len(heap), heap' = heap, data' = data,
         setup' = setup, now' = now, past' = past,
         LogFits(m, now)', CallsFit(m, now)', WatchersFit(m, now)'
  PROVE  TInv'
<1>1. HeapStep(m)
  BY Sizes DEF HeapStep, TInv, DocsFit
<1>2. data' \in Seq(1 .. m) /\ Apart(heap', data')
  BY DEF TInv, DocsFit
<1>3. QED
  BY <1>1, <1>2, StepTInv
\* New objects for ids: where they are, and what they are.
Makes(ids, m) ==
  /\ m = Len(heap) + Len(ids) /\ HeapStep(m)
  /\ \A a \in 1 .. Len(heap) : heap'[a] = heap[a]
  /\ Addresses(ids) \in Seq(1 .. m) /\ DOMAIN Addresses(ids) = DOMAIN ids
  /\ \A i \in DOMAIN ids : /\ Addresses(ids)[i] = Len(heap) + i
                           /\ Len(heap) + i \in 1 .. m /\ Len(heap) + i \notin 1 .. Len(heap)
                           /\ heap'[Len(heap) + i].id = ids[i]
                           /\ heap'[Len(heap) + i].val = Len(heap) + i
                           /\ ~heap'[Len(heap) + i].deleted

LEMMA MakesIs ==
  ASSUME TInv, NEW ids \in Seq(Doc), heap' = heap \o [i \in DOMAIN ids |-> Fresh(ids[i], i)]
  PROVE  Makes(ids, Len(heap) + Len(ids))
<1> DEFINE n == Len(heap)
           m == Len(heap) + Len(ids)
           new == [i \in DOMAIN ids |-> Fresh(ids[i], i)]
<1>1. n \in Nat /\ Len(ids) \in Nat /\ m \in Nat /\ n <= m /\ DOMAIN ids = 1 .. Len(ids)
  BY Sizes
<1>2. ASSUME NEW i \in DOMAIN ids
      PROVE  /\ n + i \in 1 .. m /\ n + i \notin 1 .. n
             /\ Fresh(ids[i], i) \in Objects(m)
             /\ Fresh(ids[i], i).id = ids[i] /\ Fresh(ids[i], i).val = n + i
             /\ ~Fresh(ids[i], i).deleted
  <2>1. n + i \in 1 .. m /\ n + i \notin 1 .. n /\ ids[i] \in Doc
    BY <1>1
  <2>2. Fresh(ids[i], i) = [id |-> ids[i], val |-> n + i, deleted |-> FALSE]
    BY DEF Fresh
  <2> HIDE DEF n, m
  <2>3. QED
    BY <2>1, <2>2 DEF Objects
<1>3. new \in Seq(Objects(m)) /\ Len(new) = Len(ids) /\ DOMAIN new = DOMAIN ids
      /\ \A i \in DOMAIN ids : new[i] = Fresh(ids[i], i)
  <2> HIDE DEF m
  <2>1. QED
    BY <1>1, <1>2
<1>4. heap' = heap \o new
  OBVIOUS
<1> HIDE DEF new
<1>5. /\ heap' \in Seq(Objects(m)) /\ Len(heap') = m
      /\ \A a \in 1 .. n : heap'[a] = heap[a]
      /\ \A i \in DOMAIN ids : heap'[n + i] = new[i]
  BY <1>1, <1>3, <1>4, HeapGrows
<1>6. /\ Addresses(ids) \in Seq(1 .. m) /\ DOMAIN Addresses(ids) = DOMAIN ids
      /\ \A i \in DOMAIN ids : Addresses(ids)[i] = n + i
  <2>1. Addresses(ids) = [i \in DOMAIN ids |-> n + i]
    BY DEF Addresses
  <2> HIDE DEF m, n
  <2>2. QED
    BY <1>1, <1>2, <2>1
<1>7. HeapStep(m)
  BY <1>1, <1>5 DEF HeapStep
<1>8. QED
  BY <1>2, <1>3, <1>5, <1>6, <1>7 DEF Makes

\* Old addresses and new ones together are of distinct documents.
LEMMA MoreApart ==
  ASSUME TInv, NEW ids \in Seq(Doc), IsInjective(ids), NEW m, Makes(ids, m),
         \A d \in ToSet(ids) : ~Holds(d)
  PROVE  /\ data \o Addresses(ids) \in Seq(1 .. m)
         /\ Apart(heap', data \o Addresses(ids))
<1> DEFINE n == Len(heap)
           s == Addresses(ids)
           all == data \o s
<1>1. data \in Seq(1 .. m) /\ s \in Seq(1 .. m) /\ data \in Seq(1 .. n)
  <2>1. 1 .. n \subseteq 1 .. m
    BY Sizes DEF Makes, HeapStep
  <2>2. data \in Seq(1 .. n)
    BY DEF TInv, DocsFit
  <2>3. data \in Seq(1 .. m)
    BY <2>1, <2>2, SeqGrows
  <2>4. QED
    BY <2>2, <2>3 DEF Makes
<1>2. \A i \in DOMAIN data : heap'[data[i]] = heap[data[i]]
  <2>1. \A a \in 1 .. n : heap'[a] = heap[a]
    BY DEF Makes
  <2>2. \A i \in DOMAIN data : data[i] \in 1 .. n
    BY <1>1
  <2>3. QED
    BY <2>1, <2>2
<1>3. \A i \in DOMAIN s : heap'[s[i]].id = ids[i] /\ i \in DOMAIN ids
  BY DEF Makes
<1>4. \A i \in DOMAIN data, j \in DOMAIN s : heap[data[i]].id # ids[j]
  BY <1>3 DEF Holds, ToSet
<1>5. Apart(heap, data)
  BY DEF TInv, DocsFit
<1>6. /\ all \in Seq(1 .. m)
      /\ \A i \in DOMAIN all : (i \in DOMAIN data /\ all[i] = data[i])
                               \/ \E j \in DOMAIN s : i = Len(data) + j /\ all[i] = s[j]
  BY <1>1, ConcatIs
<1> HIDE DEF s, all, n
<1>7. ASSUME NEW i \in DOMAIN all, NEW j \in DOMAIN all, heap'[all[i]].id = heap'[all[j]].id
      PROVE  i = j
  <2>1. CASE i \in DOMAIN data /\ all[i] = data[i] /\ j \in DOMAIN data /\ all[j] = data[j]
    BY <1>2, <1>5, <1>7, <2>1 DEF Apart
  <2>2. ASSUME NEW a \in DOMAIN s, i = Len(data) + a, all[i] = s[a],
               NEW b \in DOMAIN s, j = Len(data) + b, all[j] = s[b]
        PROVE  i = j
    <3>1. ids[a] = ids[b] /\ a \in DOMAIN ids /\ b \in DOMAIN ids
      BY <1>3, <1>7, <2>2
    <3>2. a = b
      BY <3>1 DEF IsInjective
    <3>3. QED
      BY <2>2, <3>2
  <2>3. ASSUME NEW a \in DOMAIN data, NEW b \in DOMAIN s, heap'[data[a]].id = heap'[s[b]].id
        PROVE  FALSE
    BY <1>2, <1>3, <1>4, <2>3
  <2>4. QED
    BY <1>6, <1>7, <2>1, <2>2, <2>3
<1>8. QED
  BY <1>6, <1>7 DEF Apart, all, s

\* An insertion: all that was there and is new, from which the first are evicted.
Inserted(c, docs, m, all, k) ==
  /\ docs \in Seq(Doc) /\ IsInjective(docs) /\ Makes(docs, m)
  /\ \A d \in ToSet(docs) : ~Holds(d)
  /\ all = data \o Addresses(docs) /\ all \in Seq(1 .. m) /\ Apart(heap', all)
  /\ k \in 0 .. Len(all) /\ k = IF setup.cap > 0 /\ Len(all) > setup.cap THEN Len(all) - setup.cap ELSE 0
  /\ data' \in Seq(1 .. m) /\ DOMAIN data' = 1 .. Len(all) - k
  /\ \A i \in 1 .. Len(all) - k : k + i \in DOMAIN all /\ data'[i] = all[k + i]
  /\ EmitEvents([i \in 1 .. k |-> Event("delete", all[i])])
  /\ [i \in 1 .. k |-> Event("delete", all[i])] \in Seq(Events(m))

LEMMA InsertIs ==
  ASSUME TInv, NEW c \in Call, NEW docs, Insert(c, docs)
  PROVE  \E m, all, k : Inserted(c, docs, m, all, k)
<1> DEFINE m == Len(heap) + Len(docs)
           all == data \o Addresses(docs)
           k == IF setup.cap > 0 /\ Len(all) > setup.cap THEN Len(all) - setup.cap ELSE 0
           evs == [i \in 1 .. k |-> Event("delete", all[i])]
<1>1. docs \in Seq(Doc) /\ IsInjective(docs)
  BY RequestIs DEF Insert
<1>2. Makes(docs, m)
  BY <1>1, MakesIs DEF Insert
<1>3. \A d \in ToSet(docs) : ~Holds(d)
  BY DEF Insert
<1>4. all \in Seq(1 .. m) /\ Apart(heap', all)
  BY <1>1, <1>2, <1>3, MoreApart
<1>5. data' = SubSeq(all, k + 1, Len(all)) /\ EmitEvents(evs)
  BY DEF Insert
<1> HIDE DEF m, all
<1>6. k \in 0 .. Len(all)
  <2>1. setup.cap \in Nat /\ Len(all) \in Nat
    BY <1>4, Sizes, SetupFields
  <2>2. QED
    BY <2>1
<1>7. evs \in Seq(Events(m))
  <2>1. \A i \in 1 .. k : all[i] \in 1 .. m
    <3> HIDE DEF k
    <3>1. \A i \in 1 .. k : i \in DOMAIN all
      BY <1>4, <1>6
    <3>2. m \in Nat
      BY <1>2 DEF Makes, HeapStep
    <3>3. QED
      BY <1>4, <3>1, <3>2
  <2>2. \A a \in 1 .. m : heap'[a] \in Objects(m)
    BY <1>2 DEF Makes, HeapStep
  <2>3. \A i \in 1 .. k : Event("delete", all[i]) \in Events(m)
    BY <2>1, <2>2 DEF Event, Events, Objects, Op
  <2>4. k \in Nat
    BY <1>6
  <2> HIDE DEF k
  <2>5. QED
    BY <2>3, <2>4
<1> DEFINE K == k
<1>8. K \in 0 .. Len(all) /\ data' = SubSeq(all, K + 1, Len(all)) /\ EmitEvents([i \in 1 .. K |-> Event("delete", all[i])])
      /\ [i \in 1 .. K |-> Event("delete", all[i])] \in Seq(Events(m))
      /\ K = IF setup.cap > 0 /\ Len(all) > setup.cap THEN Len(all) - setup.cap ELSE 0
  BY <1>5, <1>6, <1>7
<1> HIDE DEF K, k
<1>9. /\ data' \in Seq(1 .. m) /\ DOMAIN data' = 1 .. Len(all) - K
      /\ \A i \in 1 .. Len(all) - K : K + i \in DOMAIN all /\ data'[i] = all[K + i]
  BY <1>4, <1>8, SuffixIs
<1>10. Inserted(c, docs, m, all, K)
  BY <1>1, <1>2, <1>3, <1>4, <1>8, <1>9 DEF Inserted, all
<1>11. QED
  BY <1>10

LEMMA InsertTypes ==
  ASSUME TInv, NEW c \in Call, NEW docs, Insert(c, docs)
  PROVE  TInv'
<1>1. PICK m, all, k : Inserted(c, docs, m, all, k)
  BY InsertIs
<1>2. /\ docs \in Seq(Doc) /\ Makes(docs, m) /\ HeapStep(m) /\ m \in Nat /\ Len(heap) <= m
      /\ all \in Seq(1 .. m) /\ Apart(heap', all) /\ k \in 0 .. Len(all)
      /\ data' \in Seq(1 .. m) /\ DOMAIN data' = 1 .. Len(all) - k
      /\ \A i \in 1 .. Len(all) - k : k + i \in DOMAIN all /\ data'[i] = all[k + i]
  BY <1>1 DEF Inserted, Makes, HeapStep
<1>3. UNCHANGED <<setup, now, log, tx, past>> /\ Started(c, "applied", "insert", docs, Addresses(docs))
  BY DEF Insert
<1>4. Apart(heap', data')
  <2>1. \A i, j \in DOMAIN data' : heap'[data'[i]].id = heap'[data'[j]].id => i = j
    <3> SUFFICES ASSUME NEW i \in 1 .. Len(all) - k, NEW j \in 1 .. Len(all) - k,
                        heap'[data'[i]].id = heap'[data'[j]].id
                 PROVE  i = j
      BY <1>2
    <3>1. k + i \in DOMAIN all /\ k + j \in DOMAIN all
          /\ heap'[all[k + i]].id = heap'[all[k + j]].id
      BY <1>2
    <3>2. k + i = k + j
      BY <1>2, <3>1 DEF Apart
    <3>3. Len(all) \in Nat /\ k \in Nat
      BY <1>2
    <3>4. QED
      BY <3>2, <3>3
  <2>2. QED
    BY <2>1 DEF Apart
<1>5. WatchersFit(m, now)'
  BY <1>1, <1>2, <1>3, EmitKeeps DEF Inserted
<1>6. CallsFit(m, now) /\ LogFits(m, now)'
  BY <1>2, <1>3, SameFits
<1>7. CallsFit(m, now)'
  <2>1. Addresses(docs) \in Seq(1 .. m) /\ "insert" \in Op /\ now \in Nat
    BY <1>2, Sizes DEF Makes, Op
  <2>2. QED
    BY <1>2, <1>3, <1>6, <2>1, StartKeeps
<1>8. QED
  BY <1>2, <1>3, <1>4, <1>5, <1>6, <1>7, StepTInv

\* What a query finds of some documents.
LEMMA FoundIs ==
  ASSUME TInv, NEW docs \in Seq(Doc), IsInjective(docs)
  PROVE  /\ Found(docs) \in Seq(Doc) /\ IsInjective(Found(docs))
         /\ ToSet(Found(docs)) = ToSet(docs) \intersect {d \in Doc : Visible(d) # Gone}
         /\ \A i \in DOMAIN Found(docs) : /\ Holds(Found(docs)[i])
                                          /\ ~heap[Address(Found(docs)[i])].deleted
<1>1. /\ Found(docs) \in Seq(Doc) /\ IsInjective(Found(docs))
      /\ ToSet(Found(docs)) = ToSet(docs) \intersect {d \in Doc : Visible(d) # Gone}
  BY OnlyIs DEF Found
<1>2. \A i \in DOMAIN Found(docs) : Visible(Found(docs)[i]) # Gone
  <2>1. \A i \in DOMAIN Found(docs) : Found(docs)[i] \in ToSet(Found(docs))
    BY DEF ToSet
  <2>2. QED
    BY <1>1, <2>1
<1>3. QED
  BY <1>1, <1>2, VisibleIs

\* An update: those that are found get new objects in their places.
Updated(c, docs, found, m) ==
  /\ docs \in Seq(Doc) /\ IsInjective(docs)
  /\ found \in Seq(Doc) /\ IsInjective(found) /\ Makes(found, m)
  /\ ToSet(found) = ToSet(docs) \intersect {d \in Doc : Visible(d) # Gone}
  /\ data' \in Seq(1 .. m) /\ DOMAIN data' = DOMAIN data
  /\ \A i \in DOMAIN data :
       IF heap[data[i]].id \in ToSet(found)
       THEN \E j \in DOMAIN found : found[j] = heap[data[i]].id /\ data'[i] = Len(heap) + j
       ELSE data'[i] = data[i]
  /\ Started(c, "applied", "update", docs, Addresses(found))

LEMMA UpdateIs ==
  ASSUME TInv, NEW c \in Call, NEW docs, Update(c, docs)
  PROVE  \E found, m : Updated(c, docs, found, m)
<1> DEFINE found == Found(docs)
           m == Len(heap) + Len(found)
<1>1. docs \in Seq(Doc) /\ IsInjective(docs)
  BY RequestIs DEF Update
<1>2. /\ found \in Seq(Doc) /\ IsInjective(found)
      /\ ToSet(found) = ToSet(docs) \intersect {d \in Doc : Visible(d) # Gone}
  BY <1>1, FoundIs
<1>3. /\ heap' = heap \o [i \in DOMAIN found |-> Fresh(found[i], i)]
      /\ Started(c, "applied", "update", docs, Addresses(found))
      /\ data' = [i \in DOMAIN data |->
                   IF heap[data[i]].id \in ToSet(found)
                   THEN Addresses(found)[CHOOSE j \in DOMAIN found : found[j] = heap[data[i]].id]
                   ELSE data[i]]
  BY DEF Update
<1> HIDE DEF found
<1>4. Makes(found, m)
  BY <1>2, <1>3, MakesIs
<1> HIDE DEF m
<1>5. data \in Seq(1 .. Len(heap)) /\ Len(heap) \in Nat /\ m \in Nat /\ 1 .. Len(heap) \subseteq 1 .. m
  BY <1>4, Sizes DEF TInv, DocsFit, Makes, HeapStep
<1>6. ASSUME NEW i \in DOMAIN data
      PROVE  /\ IF heap[data[i]].id \in ToSet(found)
                THEN \E j \in DOMAIN found : found[j] = heap[data[i]].id /\ data'[i] = Len(heap) + j
                ELSE data'[i] = data[i]
             /\ data'[i] \in 1 .. m
  <2>1. CASE heap[data[i]].id \in ToSet(found)
    <3> DEFINE d == heap[data[i]].id
               j == CHOOSE j \in DOMAIN found : found[j] = d
    <3>1. j \in DOMAIN found /\ found[j] = d
      BY <2>1 DEF ToSet
    <3>2. data'[i] = Addresses(found)[j]
      BY <1>3, <2>1
    <3> HIDE DEF j
    <3>3. data'[i] = Len(heap) + j /\ data'[i] \in 1 .. m
      BY <1>4, <3>1, <3>2 DEF Makes
    <3>4. QED
      BY <2>1, <3>1, <3>3
  <2>2. CASE heap[data[i]].id \notin ToSet(found)
    <3>1. data'[i] = data[i]
      BY <1>3, <2>2
    <3>2. data[i] \in 1 .. Len(heap)
      BY <1>5
    <3>3. QED
      BY <1>5, <2>2, <3>1, <3>2
  <2>3. QED
    BY <2>1, <2>2
<1>7. data' \in Seq(1 .. m) /\ DOMAIN data' = DOMAIN data
  <2>1. DOMAIN data' = DOMAIN data /\ data' = [i \in DOMAIN data |-> data'[i]]
    BY <1>3
  <2>2. DOMAIN data = 1 .. Len(data) /\ Len(data) \in Nat
    BY <1>5
  <2>3. \A i \in 1 .. Len(data) : data'[i] \in 1 .. m
    BY <1>6, <2>2
  <2>4. data' = [i \in 1 .. Len(data) |-> data'[i]]
    BY <2>1, <2>2
  <2>5. Len(data) \in Nat
    BY <2>2
  <2>6. PICK s : s = data'
    OBVIOUS
  <2>7. s = [i \in 1 .. Len(data) |-> s[i]] /\ \A i \in 1 .. Len(data) : s[i] \in 1 .. m
    BY <2>3, <2>4, <2>6
  <2>8. s \in Seq(1 .. m)
    BY <2>5, <2>7, SeqIs
  <2>9. QED
    BY <2>1, <2>6, <2>8
<1>8. Updated(c, docs, found, m)
  BY <1>1, <1>2, <1>3, <1>4, <1>6, <1>7 DEF Updated
<1>9. QED
  BY <1>8

LEMMA UpdateTypes ==
  ASSUME TInv, NEW c \in Call, NEW docs, Update(c, docs)
  PROVE  TInv'
<1>1. PICK found, m : Updated(c, docs, found, m)
  BY UpdateIs
<1>2. /\ docs \in Seq(Doc) /\ Makes(found, m) /\ HeapStep(m) /\ m \in Nat /\ Len(heap) <= m
      /\ data' \in Seq(1 .. m) /\ DOMAIN data' = DOMAIN data
      /\ Started(c, "applied", "update", docs, Addresses(found))
  BY <1>1 DEF Updated, Makes, HeapStep
<1>3. UNCHANGED <<setup, now, log, deferred, tx, mirror, iter, past>>
  BY DEF Update
<1>4. \A i \in DOMAIN data : heap'[data'[i]].id = heap[data[i]].id
  <2> SUFFICES ASSUME NEW i \in DOMAIN data PROVE heap'[data'[i]].id = heap[data[i]].id
    OBVIOUS
  <2>1. CASE heap[data[i]].id \in ToSet(found)
    BY <1>1, <1>2, <2>1 DEF Updated, Makes
  <2>2. CASE heap[data[i]].id \notin ToSet(found)
    <3>1. data'[i] = data[i]
      BY <1>1, <2>2 DEF Updated
    <3>2. data[i] \in 1 .. Len(heap)
      BY DEF TInv, DocsFit
    <3>3. QED
      BY <1>2, <3>1, <3>2 DEF Makes
  <2>3. QED
    BY <2>1, <2>2
<1>5. Apart(heap', data')
  BY <1>2, <1>4 DEF Apart, TInv, DocsFit
<1>6. CallsFit(m, now) /\ LogFits(m, now)' /\ WatchersFit(m, now)'
  BY <1>2, <1>3, SameFits
<1>7. CallsFit(m, now)'
  <2>1. Addresses(found) \in Seq(1 .. m) /\ "update" \in Op /\ now \in Nat
    BY <1>2, Sizes DEF Makes, Op
  <2>2. QED
    BY <1>2, <1>3, <1>6, <2>1, StartKeeps
<1>8. QED
  BY <1>2, <1>3, <1>5, <1>6, <1>7, StepTInv

\* A delete: the objects that are found are marked, or taken out.
Deleted(c, docs, found, objs) ==
  /\ docs \in Seq(Doc) /\ IsInjective(docs)
  /\ found \in Seq(Doc) /\ IsInjective(found)
  /\ ToSet(found) = ToSet(docs) \intersect {d \in Doc : Visible(d) # Gone}
  /\ objs \in Seq(1 .. Len(heap)) /\ DOMAIN objs = DOMAIN found
  /\ \A i \in DOMAIN found : objs[i] \in ToSet(data) /\ heap[objs[i]].id = found[i]
  /\ HeapStep(Len(heap))
  /\ data' \in Seq(1 .. Len(heap)) /\ Apart(heap', data')
  /\ IF setup.soft
     THEN /\ \A a \in 1 .. Len(heap) : heap'[a].deleted <=> heap[a].deleted \/ a \in ToSet(objs)
          /\ data' = data
     ELSE heap' = heap /\ ToSet(data') = ToSet(data) \ ToSet(objs)
  /\ Started(c, "applied", "delete", docs, objs)

LEMMA DeleteIs ==
  ASSUME TInv, NEW c \in Call, NEW docs, Delete(c, docs)
  PROVE  \E found, objs : Deleted(c, docs, found, objs)
<1> DEFINE n == Len(heap)
           found == Found(docs)
           objs == [i \in DOMAIN found |-> Address(found[i])]
<1>1. docs \in Seq(Doc) /\ IsInjective(docs)
  BY RequestIs DEF Delete
<1>2. /\ found \in Seq(Doc) /\ IsInjective(found)
      /\ ToSet(found) = ToSet(docs) \intersect {d \in Doc : Visible(d) # Gone}
      /\ \A i \in DOMAIN found : Holds(found[i])
  BY <1>1, FoundIs
<1>3. /\ Started(c, "applied", "delete", docs, objs)
      /\ IF setup.soft
         THEN /\ heap' = [a \in DOMAIN heap |-> [heap[a] EXCEPT !.deleted = @ \/ a \in ToSet(objs)]]
              /\ data' = data
         ELSE /\ data' = Only(data, DOMAIN heap \ ToSet(objs))
              /\ heap' = heap
  BY DEF Delete
<1> HIDE DEF found
<1>4. \A i \in DOMAIN found : objs[i] \in ToSet(data) /\ objs[i] \in 1 .. n /\ heap[objs[i]].id = found[i]
  BY <1>2, AddressIs
<1>5. objs \in Seq(1 .. n) /\ DOMAIN objs = DOMAIN found
  BY <1>2, <1>4
<1> HIDE DEF objs
<1>6. n \in Nat /\ DOMAIN heap = 1 .. n /\ heap \in Seq(Objects(n)) /\ data \in Seq(1 .. n) /\ Apart(heap, data)
      /\ \A a \in 1 .. n : heap[a] \in Objects(n)
  BY Sizes DEF TInv, DocsFit
<1> HIDE DEF n
<1>7. CASE setup.soft
  <2>1. \A a \in 1 .. n : /\ heap'[a] = [heap[a] EXCEPT !.deleted = heap[a].deleted \/ a \in ToSet(objs)]
    BY <1>3, <1>6, <1>7
  <2>2. \A a \in 1 .. n : /\ heap'[a].id = heap[a].id /\ heap'[a].val = heap[a].val
                          /\ heap'[a].deleted <=> heap[a].deleted \/ a \in ToSet(objs)
                          /\ heap'[a] \in Objects(n)
    BY <1>6, <2>1 DEF Objects
  <2>3. heap' \in Seq(Objects(n)) /\ Len(heap') = n
    <3>1. DOMAIN heap' = 1 .. n /\ heap' = [a \in 1 .. n |-> heap'[a]]
      BY <1>3, <1>6, <1>7
    <3>2. QED
      BY <1>6, <2>2, <3>1
  <2>4. HeapStep(n)
    BY <1>6, <2>2, <2>3 DEF HeapStep, n
  <2>5. data' \in Seq(1 .. n) /\ Apart(heap', data')
    <3>1. \A i \in DOMAIN data : data[i] \in 1 .. n
      BY <1>6
    <3>2. QED
      BY <1>3, <1>6, <1>7, <2>2, <3>1 DEF Apart
  <2>6. QED
    BY <1>1, <1>2, <1>3, <1>4, <1>5, <1>7, <2>2, <2>4, <2>5 DEF Deleted, n
<1>8. CASE ~setup.soft
  <2>1. heap' = heap /\ data' = Only(data, DOMAIN heap \ ToSet(objs))
    BY <1>3, <1>8
  <2>2. /\ data' \in Seq(1 .. n) /\ Apart(heap, data')
        /\ ToSet(data') = ToSet(data) \intersect (DOMAIN heap \ ToSet(objs))
    BY <1>6, <2>1, OnlyApart
  <2>3. ToSet(data) \subseteq DOMAIN heap
    BY <1>6 DEF ToSet
  <2>4. ToSet(data') = ToSet(data) \ ToSet(objs)
    BY <2>2, <2>3
  <2>5. HeapStep(n)
    BY <1>6, <2>1 DEF HeapStep, n
  <2>6. QED
    BY <1>1, <1>2, <1>3, <1>4, <1>5, <1>8, <2>1, <2>2, <2>4, <2>5 DEF Deleted, n
<1>9. QED
  BY <1>7, <1>8

LEMMA DeleteTypes ==
  ASSUME TInv, NEW c \in Call, NEW docs, Delete(c, docs)
  PROVE  TInv'
<1>1. PICK found, objs : Deleted(c, docs, found, objs)
  BY DeleteIs
<1>2. /\ HeapStep(Len(heap)) /\ Len(heap) \in Nat /\ Len(heap) <= Len(heap) /\ now \in Nat
      /\ data' \in Seq(1 .. Len(heap)) /\ Apart(heap', data')
  BY <1>1, Sizes DEF Deleted
<1>3. UNCHANGED <<setup, now, log, deferred, tx, mirror, iter, past>>
  BY DEF Delete
<1>7. PICK m : m = Len(heap)
  OBVIOUS
<1>8. CallsFit(m, now) /\ LogFits(m, now)' /\ WatchersFit(m, now)'
  BY <1>2, <1>3, <1>7, SameFits
<1>9. CallsFit(m, now)'
  <2>1. docs \in Seq(Doc) /\ objs \in Seq(1 .. m) /\ "delete" \in Op
        /\ Started(c, "applied", "delete", docs, objs)
    BY <1>1, <1>7 DEF Deleted, Op
  <2>2. QED
    BY <1>2, <1>3, <1>7, <1>8, <2>1, StartKeeps
<1>10. QED
  BY <1>2, <1>3, <1>7, <1>8, <1>9, StepTInv


\* The mark is taken off an object.
LEMMA UndeleteTypes ==
  ASSUME TInv, NEW c \in Call, NEW docs, Undelete(c, docs)
  PROVE  TInv' /\ HeapStep(Len(heap))
<1>1. PICK m : m = Len(heap)
  OBVIOUS
<1>2. PICK a : a = Address(docs[1])
  OBVIOUS
<1>3. docs \in Seq(Doc) /\ a \in 1 .. m
  BY <1>1, <1>2, RequestIs, AddressIs DEF Undelete
<1>4. /\ heap' = [heap EXCEPT ![a].deleted = FALSE]
      /\ Started(c, "applied", "restore", docs, <<a>>)
      /\ UNCHANGED <<setup, data, now, log, deferred, tx, mirror, iter, past>>
  BY <1>2 DEF Undelete
<1>5. /\ m \in Nat /\ DOMAIN heap = 1 .. m /\ heap \in Seq(Objects(m)) /\ data \in Seq(1 .. m)
      /\ Apart(heap, data) /\ now \in Nat /\ \A b \in 1 .. m : heap[b] \in Objects(m)
  BY <1>1, Sizes DEF TInv, DocsFit
<1>6. \A b \in 1 .. m : /\ heap'[b].id = heap[b].id /\ heap'[b].val = heap[b].val
                        /\ heap'[b] \in Objects(m)
  <2>1. \A b \in 1 .. m : heap'[b] = IF b = a THEN [heap[b] EXCEPT !.deleted = FALSE] ELSE heap[b]
    BY <1>3, <1>4, <1>5
  <2>2. QED
    BY <1>5, <2>1 DEF Objects
<1>7. HeapStep(m)
  <2>1. DOMAIN heap' = 1 .. m /\ heap' = [b \in 1 .. m |-> heap'[b]]
    BY <1>4, <1>5
  <2>2. PICK h : h = heap'
    OBVIOUS
  <2>3. h = [b \in 1 .. m |-> h[b]] /\ \A b \in 1 .. m : h[b] \in Objects(m)
    BY <1>6, <2>1, <2>2
  <2>4. m \in Nat
    BY <1>5
  <2>5. h \in Seq(Objects(m)) /\ Len(h) = m
    BY <2>3, <2>4, SeqIs
  <2>6. QED
    BY <1>1, <1>5, <1>6, <2>2, <2>5 DEF HeapStep
<1>8. data' \in Seq(1 .. m) /\ Apart(heap', data')
  <2>1. \A i \in DOMAIN data : data[i] \in 1 .. m
    BY <1>5
  <2>2. QED
    BY <1>4, <1>5, <1>6, <2>1 DEF Apart
<1>9. CallsFit(m, now) /\ LogFits(m, now)' /\ WatchersFit(m, now)'
  BY <1>1, <1>4, <1>5, SameFits
<1>10. CallsFit(m, now)'
  <2>1. <<a>> \in Seq(1 .. m) /\ "restore" \in Op
    BY <1>3 DEF Op
  <2>2. QED
    BY <1>3, <1>4, <1>5, <1>9, <2>1, StartKeeps
<1>11. TInv'
  BY <1>4, <1>7, <1>8, <1>9, <1>10, StepTInv
<1>12. QED
  BY <1>1, <1>7, <1>11

\* Documents expire.
LEMMA SweepTypes ==
  ASSUME TInv, NEW d \in Doc, Sweep(d)
  PROVE  TInv'
<1>1. PICK m : m = Len(heap)
  OBVIOUS
<1>2. data' = Only(data, {a \in DOMAIN heap : heap[a].id # d})
      /\ UNCHANGED <<setup, heap, now, log, call, deferred, tx, mirror, iter, past>>
  BY DEF Sweep
<1>3. m \in Nat /\ data \in Seq(1 .. m) /\ Apart(heap, data) /\ heap \in Seq(Objects(m))
  BY <1>1, Sizes DEF TInv, DocsFit
<1>4. data' \in Seq(1 .. m) /\ Apart(heap', data')
  <2>1. PICK s : s = data'
    OBVIOUS
  <2>2. s \in Seq(1 .. m) /\ Apart(heap, s)
    BY <1>2, <1>3, <2>1, OnlyApart
  <2>3. QED
    BY <1>2, <2>1, <2>2 DEF Apart
<1>5. HeapStep(m)
  BY <1>1, <1>2, <1>3 DEF HeapStep
<1>6. LogFits(m, now)' /\ CallsFit(m, now)' /\ WatchersFit(m, now)'
  BY <1>1, <1>2, <1>3, SameFits
<1>7. QED
  BY <1>2, <1>4, <1>5, <1>6, StepTInv

-----------------------------------------------------------------------------
(* Types are kept: the log, the transaction, the replay.                   *)

\* How many objects there are, and what fits.
LEMMA Standing ==
  ASSUME TInv
  PROVE  \E m : /\ m = Len(heap) /\ m \in Nat /\ now \in Nat /\ now >= 1 /\ Len(heap) <= m
                /\ LogFits(m, now) /\ CallsFit(m, now) /\ WatchersFit(m, now)
                /\ \A a \in 1 .. m : heap[a] \in Objects(m)
BY Sizes DEF TInv, Fits

\* A copy of an object, stamped.
LEMMA EntryIs ==
  ASSUME NEW m \in Nat, now \in Nat, now >= 1, NEW op \in Op, NEW o, heap[o] \in Objects(m)
  PROVE  /\ Entry(op, o) \in Entries(m, now)
         /\ Entry(op, o).op = op /\ Entry(op, o).id = heap[o].id /\ Entry(op, o).val = heap[o].val
<1>1. now \in 1 .. now
  OBVIOUS
<1>2. QED
  BY <1>1 DEF Entry, Entries, Objects

\* Only a call changes, to one that fits.
LEMMA CallKeeps ==
  ASSUME NEW m \in Nat, NEW t \in Nat, CallsFit(m, t), NEW c \in Call, NEW r \in Calls(m, t),
         call' = [call EXCEPT ![c] = r], r.at <= Len(r.objs),
         r.stage = "logging" => r.at < Len(r.objs)
  PROVE  CallsFit(m, t)'
BY DEF CallsFit

LEMMA SaveFailsTypes ==
  ASSUME TInv, NEW c \in Call, SaveFails(c)
  PROVE  TInv'
<1>1. PICK m : /\ m = Len(heap) /\ m \in Nat /\ now \in Nat /\ Len(heap) <= m
               /\ LogFits(m, now) /\ CallsFit(m, now) /\ WatchersFit(m, now)
  BY Standing
<1>2. /\ Ended(c, "failed")
      /\ UNCHANGED <<setup, heap, data, now, log, deferred, tx, mirror, iter, past>>
  BY DEF SaveFails
<1>3. LogFits(m, now)' /\ WatchersFit(m, now)'
  BY <1>1, <1>2, SameFits
<1>4. "failed" \in Stage \ {"logging"}
  BY DEF Stage
<1>5. CallsFit(m, now)'
  BY <1>1, <1>2, <1>4, EndKeeps
<1>6. QED
  BY <1>1, <1>2, <1>3, <1>5, SameDocs

\* The next document of a call: it is stamped, or deferred.
LEMMA LogChangeTypes ==
  ASSUME TInv, NEW c \in Call, LogChange(c)
  PROVE  TInv'
<1>1. PICK m : /\ m = Len(heap) /\ m \in Nat /\ now \in Nat /\ now >= 1 /\ Len(heap) <= m
               /\ LogFits(m, now) /\ CallsFit(m, now) /\ WatchersFit(m, now)
               /\ \A a \in 1 .. m : heap[a] \in Objects(m)
  BY Standing
<1> DEFINE o == call[c].objs[call[c].at + 1]
<1>2. /\ call[c].stage = "applied" /\ call[c].at < Len(call[c].objs)
      /\ UNCHANGED <<setup, heap, data, now, log, tx, mirror, iter, past>>
  BY DEF LogChange
<1>3. call[c] \in Calls(m, now)
  BY <1>1 DEF CallsFit
<1>4. /\ call[c].op \in Op /\ o \in 1 .. m /\ call[c].at \in Nat /\ Len(call[c].objs) \in Nat
  <2>1. call[c].op \in Op /\ call[c].at \in Nat /\ call[c].objs \in Seq(1 .. m)
    BY <1>3 DEF Calls
  <2>2. call[c].at + 1 \in DOMAIN call[c].objs /\ Len(call[c].objs) \in Nat
    BY <1>2, <2>1
  <2>3. \A i \in DOMAIN call[c].objs : call[c].objs[i] \in 1 .. m
    BY <2>1, Elements
  <2>4. QED
    BY <2>1, <2>2, <2>3
<1>5. LogFits(m, now)'
  BY <1>1, <1>2, SameFits
<1>6. CASE tx = "none"
  <2> DEFINE r == [call[c] EXCEPT !.stage = "logging", !.entries = <<Entry(call[c].op, o)>>]
  <2>1. call' = [call EXCEPT ![c] = r] /\ deferred' = deferred
    BY <1>6 DEF LogChange
  <2>2. Entry(call[c].op, o) \in Entries(m, now)
    BY <1>1, <1>4, EntryIs
  <2>3. r \in Calls(m, now) /\ r.at = call[c].at /\ r.objs = call[c].objs
    <3>1. "logging" \in Stage /\ <<Entry(call[c].op, o)>> \in Seq(Entries(m, now))
      BY <2>2 DEF Stage
    <3>2. PICK es : es = <<Entry(call[c].op, o)>>
      OBVIOUS
    <3>3. r = [call[c] EXCEPT !.stage = "logging", !.entries = es]
      BY <3>2
    <3> HIDE DEF r, o
    <3>4. QED
      BY <1>3, <3>1, <3>2, <3>3 DEF Calls
  <2> HIDE DEF r, o
  <2>4. CallsFit(m, now)'
    <3>1. CallsFit(m, now) /\ r.at < Len(r.objs) /\ r.at <= Len(r.objs)
      BY <1>1, <1>2, <1>4, <2>3
    <3>2. PICK t : t = now
      OBVIOUS
    <3>3. CallsFit(m, t)'
      BY <1>1, <2>1, <2>3, <3>1, <3>2, CallKeeps
    <3>4. QED
      BY <1>2, <3>2, <3>3
  <2>5. WatchersFit(m, now)'
    BY <1>1, <1>2, <2>1, SameFits
  <2>6. QED
    BY <1>1, <1>2, <1>5, <2>4, <2>5, SameDocs
<1>7. CASE tx # "none"
  <2> DEFINE r == [call[c] EXCEPT !.at = call[c].at + 1]
             e == [kind |-> "entry", op |-> call[c].op, obj |-> o]
  <2>1. call' = [call EXCEPT ![c] = r] /\ deferred' = Append(deferred, e)
    BY <1>7 DEF LogChange
  <2>2. e \in Deferred(m, now)
    BY <1>4 DEF Deferred
  <2>3. r \in Calls(m, now) /\ r.at = call[c].at + 1 /\ r.objs = call[c].objs /\ r.stage = "applied"
    BY <1>2, <1>3, <1>4 DEF Calls
  <2> HIDE DEF r, e
  <2>4. CallsFit(m, now)'
    <3>1. CallsFit(m, now) /\ r.at <= Len(r.objs)
      BY <1>1, <1>2, <1>4, <2>3
    <3>2. PICK t : t = now
      OBVIOUS
    <3>3. CallsFit(m, t)'
      BY <1>1, <2>1, <2>3, <3>1, <3>2, CallKeeps
    <3>4. QED
      BY <1>2, <3>2, <3>3
  <2>5. WatchersFit(m, now)'
    BY <1>1, <1>2, <1>7, <2>1, <2>2 DEF WatchersFit, IterFits
  <2>6. QED
    BY <1>1, <1>2, <1>5, <2>4, <2>5, SameDocs
<1>8. QED
  BY <1>6, <1>7

LEMMA LoggedTypes ==
  ASSUME TInv, NEW c \in Call, Logged(c)
  PROVE  TInv'
<1>1. PICK m : /\ m = Len(heap) /\ m \in Nat /\ now \in Nat /\ Len(heap) <= m
               /\ LogFits(m, now) /\ CallsFit(m, now) /\ WatchersFit(m, now)
  BY Standing
<1>2. /\ call[c].stage = "logging" /\ log' = log \o call[c].entries
      /\ UNCHANGED <<setup, heap, data, now, deferred, tx, mirror, iter, past>>
  BY DEF Logged
<1>3. call[c] \in Calls(m, now) /\ call[c].at < Len(call[c].objs)
  BY <1>1, <1>2 DEF CallsFit
<1>4. LogFits(m, now)'
  <2>1. call[c].entries \in Seq(Entries(m, now))
    BY <1>3 DEF Calls
  <2>2. QED
    BY <1>1, <1>2, <2>1 DEF LogFits
<1>5. WatchersFit(m, now)'
  BY <1>1, <1>2, SameFits
<1>6. CallsFit(m, now)'
  <2> DEFINE r == [call[c] EXCEPT !.stage = "applied", !.at = call[c].at + 1, !.entries = <<>>]
  <2>1. CASE call' = [call EXCEPT ![c] = r]
    <3>1. r \in Calls(m, now) /\ r.at = call[c].at + 1 /\ r.objs = call[c].objs /\ r.stage = "applied"
      <4>1. "applied" \in Stage /\ <<>> \in Seq(Entries(m, now))
        BY DEF Stage
      <4>2. call[c].at + 1 \in Nat
        BY <1>3 DEF Calls
      <4>3. PICK k : k = call[c].at + 1
        OBVIOUS
      <4>4. r = [call[c] EXCEPT !.stage = "applied", !.at = k, !.entries = <<>>]
        BY <4>3
      <4> HIDE DEF r
      <4>5. QED
        BY <1>3, <4>1, <4>2, <4>3, <4>4 DEF Calls
    <3>2. call[c].at \in Nat /\ Len(call[c].objs) \in Nat
      BY <1>3 DEF Calls
    <3> HIDE DEF r
    <3>3. r.at <= Len(r.objs)
      BY <1>3, <3>1, <3>2
    <3>4. PICK t : t = now
      OBVIOUS
    <3>5. CallsFit(m, t)'
      BY <1>1, <2>1, <3>1, <3>3, <3>4, CallKeeps
    <3>6. QED
      BY <1>2, <3>4, <3>5
  <2>2. CASE Ended(c, "failed")
    <3>1. "failed" \in Stage \ {"logging"}
      BY DEF Stage
    <3>2. QED
      BY <1>1, <1>2, <2>2, <3>1, EndKeeps
  <2>3. QED
    BY <2>1, <2>2 DEF Logged
<1>7. QED
  BY <1>1, <1>2, <1>4, <1>5, <1>6, SameDocs

\* The events of a call.
LEMMA EmitTypes ==
  ASSUME TInv, NEW c \in Call, Emit(c)
  PROVE  TInv'
<1>1. PICK m : /\ m = Len(heap) /\ m \in Nat /\ now \in Nat /\ now >= 1 /\ Len(heap) <= m
               /\ LogFits(m, now) /\ CallsFit(m, now) /\ WatchersFit(m, now)
               /\ \A a \in 1 .. m : heap[a] \in Objects(m)
  BY Standing
<1> DEFINE events == [i \in DOMAIN call[c].objs |-> Event(call[c].op, call[c].objs[i])]
<1>2. /\ UNCHANGED <<setup, heap, data, now, log, tx, past>>
      /\ EmitEvents(events) /\ Ended(c, "done")
  BY DEF Emit
<1>3. call[c].objs \in Seq(1 .. m) /\ call[c].op \in Op
  BY <1>1 DEF CallsFit, Calls
<1>4. events \in Seq(Events(m))
  <2>1. \A o \in 1 .. m : heap'[o].id \in Doc /\ heap'[o].val \in 1 .. m
    BY <1>1, <1>2 DEF Objects
  <2>2. \A o \in 1 .. m : Event(call[c].op, o) \in Events(m)
    BY <1>3, <2>1 DEF Event, Events
  <2>3. \A i \in DOMAIN call[c].objs : call[c].objs[i] \in 1 .. m
    BY <1>3, Elements
  <2>4. QED
    BY <1>3, <2>2, <2>3
<1> HIDE DEF events
<1>5. WatchersFit(m, now)'
  BY <1>1, <1>2, <1>4, EmitKeeps
<1>6. LogFits(m, now)'
  BY <1>1, <1>2, SameFits
<1>7. "done" \in Stage \ {"logging"}
  BY DEF Stage
<1>8. CallsFit(m, now)'
  BY <1>1, <1>2, <1>7, EndKeeps
<1>9. QED
  BY <1>1, <1>2, <1>5, <1>6, <1>8, SameDocs

\* The transaction begins, and ends one way or the other.
LEMMA TransactionTypes ==
  ASSUME TInv, Begin \/ Commit \/ Abort \/ FlushEnds
  PROVE  TInv'
<1>1. PICK m : /\ m = Len(heap) /\ m \in Nat /\ now \in Nat /\ Len(heap) <= m
               /\ LogFits(m, now) /\ CallsFit(m, now) /\ WatchersFit(m, now)
  BY Standing
<1>2. /\ UNCHANGED <<setup, heap, data, now, log, call, mirror, iter, past>>
      /\ tx' \in {"none", "open", "flushing"}
      /\ deferred' = deferred \/ deferred' = <<>>
      /\ tx' = "none" => deferred' = <<>>
  BY DEF Begin, Commit, Abort, FlushEnds
<1>3. LogFits(m, now)' /\ CallsFit(m, now)'
  BY <1>1, <1>2, SameFits
<1>4. WatchersFit(m, now)'
  <2>1. deferred' \in Seq(Deferred(m, now))
    <3>1. deferred \in Seq(Deferred(m, now)) /\ <<>> \in Seq(Deferred(m, now))
      BY <1>1 DEF WatchersFit
    <3>2. QED
      BY <1>2, <3>1
  <2>2. mirror' \in [Doc -> 0 .. m] /\ IterFits(m, iter)'
    BY <1>1, <1>2 DEF WatchersFit, IterFits
  <2>3. QED
    BY <1>2, <2>1, <2>2 DEF WatchersFit
<1>5. QED
  BY <1>1, <1>2, <1>3, <1>4, SameDocs

\* The first of what was deferred.
LEMMA HeadIs ==
  ASSUME NEW T, NEW s \in Seq(T), s # <<>>
  PROVE  /\ Head(s) \in T /\ Tail(s) \in Seq(T) /\ Head(s) = s[1] /\ 1 \in DOMAIN s
         /\ Len(Tail(s)) = Len(s) - 1
         /\ \A i \in 1 .. Len(s) - 1 : Tail(s)[i] = s[i + 1]
OBVIOUS

LEMMA FlushEventTypes ==
  ASSUME TInv, FlushEvent
  PROVE  TInv'
<1>1. PICK m : /\ m = Len(heap) /\ m \in Nat /\ now \in Nat /\ Len(heap) <= m
               /\ LogFits(m, now) /\ CallsFit(m, now) /\ WatchersFit(m, now)
  BY Standing
<1>2. /\ tx = "flushing" /\ deferred # <<>> /\ Head(deferred).kind = "event"
      /\ Publish(<<Head(deferred).event>>) /\ deferred' = Tail(deferred)
      /\ UNCHANGED <<setup, heap, data, now, log, call, tx, past>>
  BY DEF FlushEvent
<1>3. Head(deferred) \in Deferred(m, now) /\ deferred' \in Seq(Deferred(m, now))
  BY <1>1, <1>2, HeadIs DEF WatchersFit
<1>4. <<Head(deferred).event>> \in Seq(Events(m))
  BY <1>2, <1>3 DEF Deferred
<1>5. mirror' \in [Doc -> 0 .. m] /\ IterFits(m, iter')
  BY <1>1, <1>2, <1>4, Sizes, PublishIs DEF WatchersFit
<1>6. WatchersFit(m, now)'
  BY <1>2, <1>3, <1>5 DEF WatchersFit, IterFits
<1>7. LogFits(m, now)' /\ CallsFit(m, now)'
  BY <1>1, <1>2, SameFits
<1>8. QED
  BY <1>1, <1>2, <1>6, <1>7, SameDocs

LEMMA FlushEntryTypes ==
  ASSUME TInv, FlushEntry
  PROVE  TInv'
<1>1. PICK m : /\ m = Len(heap) /\ m \in Nat /\ now \in Nat /\ now >= 1 /\ Len(heap) <= m
               /\ LogFits(m, now) /\ CallsFit(m, now) /\ WatchersFit(m, now)
               /\ \A a \in 1 .. m : heap[a] \in Objects(m)
  BY Standing
<1> DEFINE e == [kind |-> "stamped", entry |-> Entry(Head(deferred).op, Head(deferred).obj)]
<1>2. /\ tx = "flushing" /\ deferred # <<>> /\ Head(deferred).kind = "entry"
      /\ deferred' = [deferred EXCEPT ![1] = e]
      /\ UNCHANGED <<setup, heap, data, now, log, call, tx, mirror, iter, past>>
  BY DEF FlushEntry
<1>3. Head(deferred) \in Deferred(m, now) /\ 1 \in DOMAIN deferred
  BY <1>1, <1>2, HeadIs DEF WatchersFit
<1>4. Head(deferred).op \in Op /\ Head(deferred).obj \in 1 .. m
  BY <1>2, <1>3 DEF Deferred
<1>5. e \in Deferred(m, now)
  <2>1. Entry(Head(deferred).op, Head(deferred).obj) \in Entries(m, now)
    BY <1>1, <1>4, EntryIs
  <2>2. QED
    BY <2>1 DEF Deferred
<1> HIDE DEF e
<1>6. WatchersFit(m, now)'
  <2>1. deferred' \in Seq(Deferred(m, now))
    BY <1>1, <1>2, <1>3, <1>5 DEF WatchersFit
  <2>2. QED
    BY <1>1, <1>2, <2>1 DEF WatchersFit, IterFits
<1>7. LogFits(m, now)' /\ CallsFit(m, now)'
  BY <1>1, <1>2, SameFits
<1>8. QED
  BY <1>1, <1>2, <1>6, <1>7, SameDocs

LEMMA FlushLoggedTypes ==
  ASSUME TInv, FlushLogged
  PROVE  TInv'
<1>1. PICK m : /\ m = Len(heap) /\ m \in Nat /\ now \in Nat /\ Len(heap) <= m
               /\ LogFits(m, now) /\ CallsFit(m, now) /\ WatchersFit(m, now)
  BY Standing
<1>2. /\ tx = "flushing" /\ deferred # <<>> /\ Head(deferred).kind = "stamped"
      /\ log' = Append(log, Head(deferred).entry) /\ deferred' = Tail(deferred)
      /\ UNCHANGED <<setup, heap, data, now, call, tx, mirror, iter, past>>
  BY DEF FlushLogged
<1>3. Head(deferred) \in Deferred(m, now) /\ deferred' \in Seq(Deferred(m, now))
  BY <1>1, <1>2, HeadIs DEF WatchersFit
<1>4. Head(deferred).entry \in Entries(m, now)
  BY <1>2, <1>3 DEF Deferred
<1>5. LogFits(m, now)'
  BY <1>1, <1>2, <1>4 DEF LogFits
<1>6. WatchersFit(m, now)'
  BY <1>1, <1>2, <1>3 DEF WatchersFit, IterFits
<1>7. CallsFit(m, now)'
  BY <1>1, <1>2, SameFits
<1>8. QED
  BY <1>1, <1>2, <1>5, <1>6, <1>7, SameDocs

\* db.restore() is called, and has read the log.
LEMMA RewindTypes ==
  ASSUME TInv, NEW c \in Call, NEW docs, Rewind(c, docs)
  PROVE  TInv'
<1>1. PICK m : /\ m = Len(heap) /\ m \in Nat /\ now \in Nat /\ Len(heap) <= m
               /\ LogFits(m, now) /\ CallsFit(m, now) /\ WatchersFit(m, now)
  BY Standing
<1>2. docs \in Seq(Doc)
  BY RequestIs DEF Rewind
<1>3. UNCHANGED <<setup, heap, data, now, log, deferred, tx, mirror, iter, past>>
  BY DEF Rewind
<1>4. PICK t \in 1 .. now :
        call' = [call EXCEPT ![c] = [NoCall EXCEPT !.stage = "reading", !.docs = docs, !.until = t]]
  BY DEF Rewind
<1> DEFINE r == [NoCall EXCEPT !.stage = "reading", !.docs = docs, !.until = t]
<1>5. r \in Calls(m, now) /\ r.at = 0 /\ r.objs = <<>> /\ r.stage = "reading"
  <2>1. "reading" \in Stage /\ t \in Nat
    BY <1>1 DEF Stage
  <2>2. QED
    BY <1>1, <1>2, <2>1, IdleCall DEF Calls
<1> HIDE DEF r
<1>6. CallsFit(m, now)'
  <2>1. PICK u : u = now
    OBVIOUS
  <2>2. r.at <= Len(r.objs) /\ call' = [call EXCEPT ![c] = r]
    BY <1>4, <1>5 DEF r
  <2>3. CallsFit(m, u)'
    BY <1>1, <1>5, <2>1, <2>2, CallKeeps
  <2>4. QED
    BY <1>3, <2>1, <2>3
<1>7. LogFits(m, now)' /\ WatchersFit(m, now)'
  BY <1>1, <1>3, SameFits
<1>8. QED
  BY <1>1, <1>3, <1>6, <1>7, SameDocs

LEMMA ReadLogTypes ==
  ASSUME TInv, NEW c \in Call, ReadLog(c)
  PROVE  TInv' /\ call'[c].entries \in Seq(ToSet(log))
<1>1. PICK m : /\ m = Len(heap) /\ m \in Nat /\ now \in Nat /\ Len(heap) <= m
               /\ LogFits(m, now) /\ CallsFit(m, now) /\ WatchersFit(m, now)
  BY Standing
<1> DEFINE r == [call[c] EXCEPT !.stage = "read", !.entries = UpTo(call[c].until)]
<1>2. /\ call[c].stage = "reading" /\ call' = [call EXCEPT ![c] = r]
      /\ UNCHANGED <<setup, heap, data, now, log, deferred, tx, mirror, iter, past>>
  BY DEF ReadLog
<1>3. call[c] \in Calls(m, now) /\ call[c].at <= Len(call[c].objs)
  BY <1>1 DEF CallsFit
<1>4. call[c].until \in Nat
  BY <1>3 DEF Calls
<1>5. UpTo(call[c].until) \in Seq(ToSet(log)) /\ log \in Seq(Entries(m, now))
  BY <1>1, <1>4, UpToIs DEF LogFits
<1>6. UpTo(call[c].until) \in Seq(Entries(m, now))
  <2>1. ToSet(log) \subseteq Entries(m, now)
    BY <1>5 DEF ToSet
  <2>2. QED
    BY <1>5, <2>1, SeqGrows
<1>7. /\ r \in Calls(m, now) /\ r.at = call[c].at /\ r.objs = call[c].objs /\ r.stage = "read"
      /\ r.entries = UpTo(call[c].until)
  <2>1. PICK es : es = UpTo(call[c].until)
    OBVIOUS
  <2>2. r = [call[c] EXCEPT !.stage = "read", !.entries = es]
    BY <2>1
  <2>3. "read" \in Stage
    BY DEF Stage
  <2> HIDE DEF r
  <2>4. QED
    BY <1>3, <1>6, <2>1, <2>2, <2>3 DEF Calls
<1> HIDE DEF r
<1>8. CallsFit(m, now)'
  <2>1. PICK u : u = now
    OBVIOUS
  <2>2. CallsFit(m, u)'
    BY <1>1, <1>2, <1>3, <1>7, <2>1, CallKeeps
  <2>3. QED
    BY <1>2, <2>1, <2>2
<1>9. LogFits(m, now)' /\ WatchersFit(m, now)'
  BY <1>1, <1>2, SameFits
<1>10. TInv'
  BY <1>1, <1>2, <1>8, <1>9, SameDocs
<1>11. call'[c] = r
  BY <1>1, <1>2 DEF CallsFit
<1>12. QED
  BY <1>5, <1>7, <1>10, <1>11

\* Time goes on.
LEMMA TickTypes ==
  ASSUME TInv, Tick
  PROVE  TInv'
<1>1. PICK m : /\ m = Len(heap) /\ m \in Nat /\ now \in Nat /\ now >= 1 /\ Len(heap) <= m
               /\ LogFits(m, now) /\ CallsFit(m, now) /\ WatchersFit(m, now)
  BY Standing
<1>2. /\ now < setup.time /\ now' = now + 1
      /\ past' = Append(past, IF Quiet /\ ~Rewound THEN {Seen} ELSE Forgotten)
      /\ UNCHANGED <<setup, heap, data, log, call, deferred, tx, mirror, iter>>
  BY DEF Tick
<1>3. PICK v : v = now'
  OBVIOUS
<1>4. v \in Nat /\ now <= v
  BY <1>1, <1>2, <1>3
<1>5. LogFits(m, v) /\ CallsFit(m, v) /\ WatchersFit(m, v)
  BY <1>1, <1>4, FitsLater
<1>6. Fits(m, now)'
  <2>1. LogFits(m, v)' /\ CallsFit(m, v)' /\ WatchersFit(m, v)'
    BY <1>2, <1>5 DEF LogFits, CallsFit, WatchersFit, IterFits
  <2>2. QED
    BY <1>3, <2>1 DEF Fits
<1>7. TimeFits'
  <2>1. Seen \in SUBSET (Doc \X Nat)
    <3>1. \A d \in Doc : Visible(d) \in Nat
      <4>1. \A d \in Doc : Visible(d) \in 0 .. Len(heap)
        BY VisibleIs
      <4>2. QED
        BY <1>1, <4>1
    <3>2. QED
      BY <3>1 DEF Seen
  <2>2. (IF Quiet /\ ~Rewound THEN {Seen} ELSE Forgotten) \in SUBSET SUBSET (Doc \X Nat)
    BY <2>1 DEF Forgotten
  <2> DEFINE P == SUBSET SUBSET (Doc \X Nat)
             new == IF Quiet /\ ~Rewound THEN {Seen} ELSE Forgotten
  <2>3. past \in Seq(P) /\ Len(past) = now - 1 /\ setup.time \in Nat
    BY Sizes, SetupFields DEF TInv, TimeFits
  <2>4. new \in P /\ past' = Append(past, new)
    BY <1>2, <2>2
  <2> HIDE DEF P, new
  <2>5. past' \in Seq(P) /\ Len(past') = Len(past) + 1
    BY <2>3, <2>4
  <2>6. now' \in 1 .. setup.time /\ Len(past') = now' - 1
    BY <1>1, <1>2, <2>3, <2>5
  <2>7. QED
    BY <1>2, <2>5, <2>6 DEF TimeFits, P
<1>8. DocsFit'
  BY <1>2 DEF TInv, DocsFit, Apart
<1>9. QED
  BY <1>1, <1>2, <1>6, <1>7, <1>8 DEF TInv

\* The consumer of the iterator.
LEMMA PullTypes ==
  ASSUME TInv, Pull \/ Return
  PROVE  TInv'
<1>1. PICK m : /\ m = Len(heap) /\ m \in Nat /\ now \in Nat /\ Len(heap) <= m
               /\ LogFits(m, now) /\ CallsFit(m, now) /\ WatchersFit(m, now)
  BY Standing
<1>2. UNCHANGED <<setup, heap, data, now, log, call, deferred, tx, mirror, past>>
  BY DEF Pull, Return
<1>3. /\ setup.buffer \in Nat /\ setup.buffer > 0 /\ (~setup.eager) \in BOOLEAN
  BY Sizes, SetupFields DEF Pull, Return
<1>4. /\ Iterator(Events(m), iter) /\ IsRecord(iter)
      /\ IterOk(iter, setup.buffer, ~setup.eager)
  BY <1>1, <1>3, IteratorsAre DEF WatchersFit, IterFits
<1>5. \/ iter' = Ask(iter) /\ (~setup.eager => Waiting(iter) = {})
      \/ iter' = Leave(iter)
  BY DEF Pull, Return
<1>6. /\ Iterator(Events(m), iter') /\ IsRecord(iter')
      /\ IterOk(iter', setup.buffer, ~setup.eager)
  <2>1. CASE iter' = Ask(iter) /\ (~setup.eager => Waiting(iter) = {})
    <3>1. Iterator(Events(m), Ask(iter)) /\ IterOk(Ask(iter), setup.buffer, ~setup.eager)
      BY <1>3, <1>4, <2>1, AskKeeps
    <3>2. IsRecord(Ask(iter))
      BY <1>4, StaysRecord
    <3>3. QED
      BY <2>1, <3>1, <3>2
  <2>2. CASE iter' = Leave(iter)
    <3>1. Iterator(Events(m), Leave(iter)) /\ IterOk(Leave(iter), setup.buffer, ~setup.eager)
      BY <1>3, <1>4, LeaveKeeps
    <3>2. IsRecord(Leave(iter))
      BY <1>4, StaysRecord
    <3>3. QED
      BY <2>2, <3>1, <3>2
  <2>3. QED
    BY <1>5, <2>1, <2>2
<1>7. IterFits(m, iter)'
  <2>1. iter' \in Iterators(Events(m))
    BY <1>6, IteratorsAre
  <2>2. QED
    BY <1>2, <1>6, <2>1 DEF IterFits
<1>8. WatchersFit(m, now)'
  BY <1>1, <1>2, <1>7 DEF WatchersFit
<1>9. LogFits(m, now)' /\ CallsFit(m, now)'
  BY <1>1, <1>2, SameFits
<1>10. QED
  BY <1>1, <1>2, <1>8, <1>9, SameDocs

\* A collection is replaced by what was replayed.
RestoredAll(docs, m) ==
  /\ m = Len(heap) + Len(docs) /\ HeapStep(m)
  /\ \A a \in 1 .. Len(heap) : heap'[a] = heap[a]
  /\ OneEach(docs)
  /\ data' \in Seq(1 .. m) /\ DOMAIN data' = DOMAIN docs
  /\ \A i \in DOMAIN docs : /\ data'[i] = Len(heap) + i /\ Len(heap) + i \in 1 .. m
                            /\ heap'[Len(heap) + i] = Clone(docs[i])

LEMMA RestoreAllIs ==
  ASSUME TInv, NEW c \in Call, RestoreAll(c)
  PROVE  \E docs, m, gone, new :
           /\ docs \in Seq({e \in ToSet(call[c].entries) : e.op \notin {"delete", "restore"}})
           /\ RestoredAll(docs, m)
           /\ gone \in Seq(Events(m)) /\ gone = [i \in DOMAIN data |-> Event("delete", data[i])]
           /\ new \in Seq(Events(m)) /\ new = [i \in DOMAIN docs |-> Event("insert", data'[i])]
           /\ EmitEvents(gone \o new)
<1>1. PICK n : /\ n = Len(heap) /\ n \in Nat /\ now \in Nat /\ now >= 1 /\ Len(heap) <= n
               /\ LogFits(n, now) /\ CallsFit(n, now) /\ WatchersFit(n, now)
  BY Standing
<1>2. PICK docs : docs = Replay(call[c].entries)
  OBVIOUS
<1>3. /\ heap' = heap \o [i \in DOMAIN docs |-> Clone(docs[i])]
      /\ data' = Addresses(docs)
      /\ EmitEvents([i \in DOMAIN data |-> Event("delete", data[i])]
                    \o [i \in DOMAIN data' |-> Event("insert", data'[i])])
  BY <1>2 DEF RestoreAll
<1>4. call[c].entries \in Seq(Entries(n, now))
  BY <1>1 DEF CallsFit, Calls
<1> DEFINE told == {e \in ToSet(call[c].entries) : e.op \notin {"delete", "restore"}}
<1>5. docs \in Seq(told) /\ OneEach(docs)
  <2>1. call[c].entries \in Seq(ToSet(call[c].entries))
    BY <1>4 DEF ToSet
  <2>2. QED
    BY <1>2, <2>1, ReplayIs
<1>6. \A i \in DOMAIN docs : docs[i] \in Entries(n, now)
  BY <1>4, <1>5 DEF ToSet
<1> HIDE DEF told
<1>7. PICK k : k = Len(docs) /\ k \in Nat /\ DOMAIN docs = 1 .. k
  BY <1>5
<1>8. PICK m : m = n + k /\ m \in Nat /\ n <= m
  BY <1>1, <1>7
<1>9. PICK made : made = [i \in DOMAIN docs |-> Clone(docs[i])]
  OBVIOUS
<1>10. made \in Seq(Objects(m)) /\ Len(made) = k /\ DOMAIN made = DOMAIN docs
  <2>1. Objects(n) \subseteq Objects(m)
    BY <1>1, <1>8, Growing
  <2>2. \A i \in DOMAIN docs : Clone(docs[i]) \in Objects(n)
    BY <1>6 DEF Clone, Objects, Entries
  <2>3. \A i \in 1 .. k : made[i] \in Objects(m)
    BY <1>7, <1>9, <2>1, <2>2
  <2>4. made = [i \in 1 .. k |-> made[i]]
    BY <1>7, <1>9
  <2>5. QED
    BY <1>7, <1>9, <2>3, <2>4, SeqIs
<1>11. /\ heap' \in Seq(Objects(m)) /\ Len(heap') = m
       /\ \A a \in 1 .. Len(heap) : heap'[a] = heap[a]
       /\ \A i \in DOMAIN made : heap'[Len(heap) + i] = made[i]
       /\ \A i \in DOMAIN made : Len(heap) + i \in 1 .. m
  <2>1. m = Len(heap) + Len(made) /\ heap' = heap \o made
    BY <1>1, <1>3, <1>8, <1>9, <1>10
  <2>2. QED
    BY <1>8, <1>10, <2>1, HeapGrows
<1>12. data' \in Seq(1 .. m) /\ DOMAIN data' = DOMAIN docs
       /\ \A i \in DOMAIN docs : data'[i] = Len(heap) + i
  <2>1. PICK s : s = data'
    OBVIOUS
  <2>2. s = [i \in DOMAIN docs |-> Len(heap) + i]
    BY <1>3, <2>1 DEF Addresses
  <2>3. s = [i \in 1 .. k |-> s[i]] /\ \A i \in 1 .. k : s[i] \in 1 .. m
    BY <1>7, <1>10, <1>11, <2>2
  <2>4. s \in Seq(1 .. m)
    BY <1>7, <2>3, SeqIs
  <2>5. QED
    BY <2>1, <2>2, <2>4
<1>13. RestoredAll(docs, m)
  <2>1. HeapStep(m)
    BY <1>1, <1>8, <1>11 DEF HeapStep
  <2>2. \A i \in DOMAIN docs : heap'[Len(heap) + i] = Clone(docs[i])
    BY <1>9, <1>10, <1>11
  <2>3. m = Len(heap) + Len(docs)
    BY <1>1, <1>7, <1>8
  <2>4. QED
    BY <1>5, <1>10, <1>11, <1>12, <2>1, <2>2, <2>3 DEF RestoredAll
<1>14. \A a \in 1 .. m : Event("delete", a) \in Events(m) /\ Event("insert", a) \in Events(m)
  <2>1. \A a \in 1 .. m : heap'[a] \in Objects(m)
    BY <1>11, Elements
  <2>2. QED
    BY <2>1 DEF Event, Events, Objects, Op
<1>15. PICK gone, new : /\ gone = [i \in DOMAIN data |-> Event("delete", data[i])]
                        /\ new = [i \in DOMAIN docs |-> Event("insert", data'[i])]
  OBVIOUS
<1>16. gone \in Seq(Events(m))
  <2>1. PICK l : l = Len(data) /\ l \in Nat /\ DOMAIN data = 1 .. l
                 /\ \A i \in 1 .. l : data[i] \in 1 .. m
    <3>1. data \in Seq(1 .. n) /\ 1 .. n \subseteq 1 .. m
      BY <1>1, <1>8 DEF TInv, DocsFit
    <3>2. QED
      BY <3>1, Elements
  <2>2. gone = [i \in 1 .. l |-> gone[i]] /\ \A i \in 1 .. l : gone[i] \in Events(m)
    BY <1>14, <1>15, <2>1
  <2>3. QED
    BY <2>1, <2>2, SeqIs
<1>17. new \in Seq(Events(m))
  <2>1. new = [i \in 1 .. k |-> new[i]] /\ \A i \in 1 .. k : new[i] \in Events(m)
    BY <1>7, <1>10, <1>11, <1>12, <1>14, <1>15
  <2>2. QED
    BY <1>7, <2>1, SeqIs
<1>18. EmitEvents(gone \o new)
  BY <1>3, <1>12, <1>15
<1>19. QED
  BY <1>5, <1>13, <1>15, <1>16, <1>17, <1>18 DEF told

LEMMA RestoreAllTypes ==
  ASSUME TInv, NEW c \in Call, RestoreAll(c)
  PROVE  TInv'
<1>1. PICK n : /\ n = Len(heap) /\ n \in Nat /\ now \in Nat /\ now >= 1 /\ Len(heap) <= n
               /\ LogFits(n, now) /\ CallsFit(n, now) /\ WatchersFit(n, now)
  BY Standing
<1>2. PICK docs, m, gone, new :
           /\ RestoredAll(docs, m)
           /\ gone \in Seq(Events(m)) /\ new \in Seq(Events(m))
           /\ EmitEvents(gone \o new)
  BY RestoreAllIs
<1>3. UNCHANGED <<setup, now, log, tx, past>> /\ Ended(c, "done")
  BY DEF RestoreAll
<1>4. HeapStep(m) /\ m \in Nat /\ Len(heap) <= m /\ data' \in Seq(1 .. m)
  BY <1>2 DEF RestoredAll, HeapStep
<1>5. Apart(heap', data')
  <2> SUFFICES ASSUME NEW i \in DOMAIN docs, NEW j \in DOMAIN docs,
                      heap'[data'[i]].id = heap'[data'[j]].id
               PROVE  i = j
    BY <1>2 DEF RestoredAll, Apart
  <2>1. heap'[data'[i]] = Clone(docs[i]) /\ heap'[data'[j]] = Clone(docs[j])
    BY <1>2 DEF RestoredAll
  <2>2. docs[i].id = docs[j].id
    BY <2>1 DEF Clone
  <2>3. QED
    BY <1>2, <2>2 DEF RestoredAll, OneEach
<1>6. WatchersFit(m, now)'
  <2>1. gone \o new \in Seq(Events(m))
    BY <1>2
  <2>2. QED
    BY <1>2, <1>3, <1>4, <2>1, EmitKeeps
<1>7. CallsFit(m, now) /\ LogFits(m, now)'
  BY <1>3, <1>4, SameFits
<1>8. CallsFit(m, now)'
  <2>1. "done" \in Stage \ {"logging"}
    BY DEF Stage
  <2>2. QED
    BY <1>1, <1>3, <1>4, <1>7, <2>1, EndKeeps
<1>9. QED
  BY <1>3, <1>4, <1>5, <1>6, <1>7, <1>8, StepTInv

\* One document: nothing happens, or it is taken out,
TakenOut(d, m) ==
  /\ m = Len(heap) /\ Holds(d) /\ heap' = heap
  /\ data' \in Seq(1 .. m) /\ Apart(heap, data')
  /\ ToSet(data') = {a \in ToSet(data) : heap[a].id # d}
  /\ EmitEvents(<<Event("delete", Address(d))>>)

\* or an object of an entry, the last, gets its place or a new one.
PutBack(d, e, m) ==
  /\ m = Len(heap) + 1 /\ HeapStep(m)
  /\ \A a \in 1 .. Len(heap) : heap'[a] = heap[a]
  /\ e.id = d /\ e.op # "delete" /\ heap'[m] = Clone(e)
  /\ data' \in Seq(1 .. m)
  /\ \E k \in DOMAIN data' :
       /\ data'[k] = m
       /\ \A i \in DOMAIN data' : i # k => i \in DOMAIN data /\ data'[i] = data[i] /\ heap[data[i]].id # d
       /\ \A i \in DOMAIN data : heap[data[i]].id # d => i \in DOMAIN data' /\ i # k /\ data'[i] = data[i]
  /\ \E op \in {"insert", "update"} : EmitEvents(<<Event(op, m)>>)

LEMMA RestoreOneIs ==
  ASSUME TInv, NEW c \in Call, RestoreOne(c)
  PROVE  \/ UNCHANGED <<heap, data, deferred, mirror, iter>>
         \/ \E d \in Doc : \E m : d = call[c].docs[1] /\ TakenOut(d, m)
         \/ \E d \in Doc : \E m : \E e \in ToSet(call[c].entries) :
              d = call[c].docs[1] /\ PutBack(d, e, m)
<1>1. PICK n : /\ n = Len(heap) /\ n \in Nat /\ now \in Nat /\ now >= 1 /\ Len(heap) <= n
               /\ LogFits(n, now) /\ CallsFit(n, now) /\ WatchersFit(n, now)
  BY Standing
<1>2. PICK d, es : /\ d = call[c].docs[1]
                   /\ es = Only(call[c].entries, {e \in ToSet(call[c].entries) : e.id = d})
  OBVIOUS
<1>3. call[c].entries \in Seq(Entries(n, now)) /\ call[c].docs \in Seq(Doc) /\ call[c].docs # <<>>
  BY <1>1 DEF CallsFit, Calls, RestoreOne
<1>4. d \in Doc
  BY <1>2, <1>3
<1>5. es \in Seq(Entries(n, now))
      /\ ToSet(es) = ToSet(call[c].entries) \intersect {e \in ToSet(call[c].entries) : e.id = d}
  BY <1>2, <1>3, OnlyIs
<1>6. /\ data \in Seq(1 .. n) /\ Apart(heap, data) /\ DOMAIN heap = 1 .. n
      /\ heap \in Seq(Objects(n)) /\ \A a \in 1 .. n : heap[a] \in Objects(n)
  BY <1>1, Sizes DEF TInv, DocsFit
<1>7. CASE es = <<>> \/ (Last(es).op = "delete" /\ ~Holds(d))
  <2>1. CASE es = <<>>
    BY <1>2, <2>1 DEF RestoreOne
  <2>2. CASE es # <<>> /\ Last(es).op = "delete" /\ ~Holds(d)
    BY <1>2, <2>2 DEF RestoreOne
  <2>3. QED
    BY <1>7, <2>1, <2>2
<1>8. CASE es # <<>> /\ Last(es).op = "delete" /\ Holds(d)
  <2>1. /\ heap' = heap /\ data' = Only(data, {b \in DOMAIN heap : heap[b].id # d})
        /\ EmitEvents(<<Event("delete", Address(d))>>)
    BY <1>2, <1>8 DEF RestoreOne
  <2>2. PICK s : s = data'
    OBVIOUS
  <2>3. /\ s \in Seq(1 .. n) /\ Apart(heap, s)
        /\ ToSet(s) = ToSet(data) \intersect {b \in DOMAIN heap : heap[b].id # d}
    BY <1>6, <2>1, <2>2, OnlyApart
  <2>4. ToSet(data) \subseteq DOMAIN heap
    <3>1. \A i \in DOMAIN data : data[i] \in 1 .. n
      BY <1>6, Elements
    <3>2. QED
      BY <1>6, <3>1 DEF ToSet
  <2>5. TakenOut(d, n)
    BY <1>1, <1>8, <2>1, <2>2, <2>3, <2>4 DEF TakenOut
  <2>6. QED
    BY <1>2, <1>4, <2>5
<1>9. CASE es # <<>> /\ Last(es).op # "delete"
  <2>1. PICK e : e = Last(es)
    OBVIOUS
  <2>2. e \in ToSet(es) /\ e \in Entries(n, now)
    BY <1>5, <1>9, <2>1 DEF Last, ToSet
  <2>3. e \in ToSet(call[c].entries) /\ e.id = d /\ e.op # "delete"
    BY <1>5, <1>9, <2>1, <2>2
  <2>4. PICK m : m = n + 1 /\ m \in Nat /\ n <= m
    BY <1>1
  <2>5. /\ heap' = Append(heap, Clone(e))
        /\ data' = IF Holds(d)
                   THEN [i \in DOMAIN data |-> IF data[i] = Address(d) THEN m ELSE data[i]]
                   ELSE Append(data, m)
        /\ EmitEvents(<<Event(IF Holds(d) THEN "update" ELSE "insert", m)>>)
    BY <1>1, <1>2, <1>9, <2>1, <2>4 DEF RestoreOne
  <2>6. Clone(e) \in Objects(m) /\ heap \in Seq(Objects(m))
    <3>1. Objects(n) \subseteq Objects(m)
      BY <1>1, <2>4, Growing
    <3>2. Clone(e) \in Objects(n)
      BY <2>2 DEF Clone, Objects, Entries
    <3>3. QED
      BY <1>6, <3>1, <3>2, SeqGrows
  <2>7. /\ heap' \in Seq(Objects(m)) /\ Len(heap') = m /\ heap'[m] = Clone(e)
        /\ \A a \in 1 .. n : heap'[a] = heap[a]
    BY <1>1, <2>4, <2>5, <2>6
  <2>8. HeapStep(m)
    BY <1>1, <2>4, <2>7 DEF HeapStep
  <2>9. \A i \in DOMAIN data : data[i] \in 1 .. n /\ data[i] \in 1 .. m
    BY <1>1, <1>6, <2>4
  <2>10. /\ data' \in Seq(1 .. m)
         /\ \E k \in DOMAIN data' :
              /\ data'[k] = m
              /\ \A i \in DOMAIN data' :
                   i # k => i \in DOMAIN data /\ data'[i] = data[i] /\ heap[data[i]].id # d
              /\ \A i \in DOMAIN data :
                   heap[data[i]].id # d => i \in DOMAIN data' /\ i # k /\ data'[i] = data[i]
    <3>0. PICK l : l = Len(data) /\ l \in Nat /\ DOMAIN data = 1 .. l
      BY <1>6
    <3>1. CASE Holds(d)
      <4>1. PICK s : s = data'
        OBVIOUS
      <4>2. s = [i \in 1 .. l |-> IF data[i] = Address(d) THEN m ELSE data[i]]
        BY <2>5, <3>0, <3>1, <4>1
      <4>3. s = [i \in 1 .. l |-> s[i]] /\ \A i \in 1 .. l : s[i] \in 1 .. m
        <5>1. m \in 1 .. m
          BY <1>1, <2>4
        <5>2. QED
          BY <2>9, <3>0, <4>2, <5>1
      <4>4. s \in Seq(1 .. m) /\ DOMAIN s = 1 .. l
        BY <3>0, <4>2, <4>3, SeqIs
      <4>5. PICK k \in 1 .. l : data[k] = Address(d) /\ heap[data[k]].id = d
        BY <3>0, <3>1, AddressIs DEF ToSet
      <4>6. \A i \in 1 .. l : heap[data[i]].id = d <=> i = k
        BY <1>6, <3>0, <4>5 DEF Apart
      <4>7. \A i \in 1 .. l : data[i] = Address(d) <=> i = k
        <5>1. \A i \in 1 .. l : heap[data[i]].id = d => data[i] = Address(d)
          BY <3>0, <4>5, <4>6
        <5>2. \A i \in 1 .. l : data[i] = Address(d) => heap[data[i]].id = d
          BY <4>5
        <5>3. QED
          BY <4>6, <5>1, <5>2
      <4>8. s[k] = m /\ \A i \in 1 .. l : i # k => s[i] = data[i] /\ heap[data[i]].id # d
        BY <4>2, <4>5, <4>6, <4>7
      <4>9. QED
        BY <3>0, <4>1, <4>4, <4>5, <4>8
    <3>2. CASE ~Holds(d)
      <4>1. PICK s : s = data'
        OBVIOUS
      <4>2. s = Append(data, m) /\ \A i \in DOMAIN data : heap[data[i]].id # d
        BY <2>5, <3>2, <4>1 DEF Holds
      <4>3. data \in Seq(1 .. m) /\ m \in 1 .. m
        BY <1>1, <1>6, <2>4, SeqGrows
      <4>4. /\ s \in Seq(1 .. m) /\ DOMAIN s = 1 .. l + 1 /\ s[l + 1] = m
            /\ \A i \in 1 .. l : s[i] = data[i]
        BY <3>0, <4>2, <4>3
      <4>5. \A i \in 1 .. l + 1 : i # l + 1 => i \in 1 .. l
        BY <3>0
      <4>6. l + 1 \in 1 .. l + 1 /\ \A i \in 1 .. l : i \in 1 .. l + 1 /\ i # l + 1
        BY <3>0
      <4>7. QED
        BY <3>0, <4>1, <4>2, <4>4, <4>5, <4>6
    <3>3. QED
      BY <3>1, <3>2
  <2>11. \E op \in {"insert", "update"} : EmitEvents(<<Event(op, m)>>)
    BY <2>5
  <2>12. PutBack(d, e, m)
    BY <1>1, <2>3, <2>4, <2>7, <2>8, <2>10, <2>11 DEF PutBack
  <2>13. QED
    BY <1>2, <1>4, <2>3, <2>12
<1>10. QED
  BY <1>7, <1>8, <1>9

LEMMA RestoreOneTypes ==
  ASSUME TInv, NEW c \in Call, RestoreOne(c)
  PROVE  TInv'
<1>1. UNCHANGED <<setup, now, log, tx, past>> /\ Ended(c, "done")
  BY DEF RestoreOne
<1>2. "done" \in Stage \ {"logging"}
  BY DEF Stage
<1>3. PICK n : /\ n = Len(heap) /\ n \in Nat /\ now \in Nat /\ now >= 1 /\ Len(heap) <= n
               /\ LogFits(n, now) /\ CallsFit(n, now) /\ WatchersFit(n, now)
               /\ \A a \in 1 .. n : heap[a] \in Objects(n)
  BY Standing
<1>4. ASSUME NEW m \in Nat, Len(heap) <= m
      PROVE  LogFits(m, now)' /\ CallsFit(m, now)'
  <2>1. CallsFit(m, now) /\ LogFits(m, now)'
    BY <1>1, <1>4, SameFits
  <2>2. QED
    BY <1>1, <1>2, <1>3, <1>4, <2>1, EndKeeps
<1>5. ASSUME NEW m \in Nat, Len(heap) <= m, NEW op \in Op, NEW a, heap'[a] \in Objects(m),
             EmitEvents(<<Event(op, a)>>)
      PROVE  WatchersFit(m, now)'
  <2>1. <<Event(op, a)>> \in Seq(Events(m))
    BY <1>5 DEF Event, Events, Objects
  <2>2. QED
    BY <1>1, <1>5, <2>1, EmitKeeps
<1>6. CASE UNCHANGED <<heap, data, deferred, mirror, iter>>
  <2>1. WatchersFit(n, now)'
    BY <1>1, <1>3, <1>6, SameFits
  <2>2. QED
    BY <1>1, <1>3, <1>4, <1>6, <2>1, SameDocs
<1>7. ASSUME NEW d \in Doc, NEW m, TakenOut(d, m)
      PROVE  TInv'
  <2>1. /\ m = Len(heap) /\ Holds(d) /\ heap' = heap
        /\ data' \in Seq(1 .. m) /\ Apart(heap, data')
        /\ EmitEvents(<<Event("delete", Address(d))>>)
    BY <1>7 DEF TakenOut
  <2>2. HeapStep(m)
    BY <2>1, Sizes DEF HeapStep, TInv, DocsFit
  <2>3. heap'[Address(d)] \in Objects(m) /\ "delete" \in Op
    BY <1>3, <2>1, AddressIs DEF Op
  <2>4. WatchersFit(m, now)'
    BY <1>3, <1>5, <2>1, <2>3
  <2>5. QED
    BY <1>1, <1>3, <1>4, <2>1, <2>2, <2>4, StepTInv
<1>8. ASSUME NEW d \in Doc, NEW m, NEW e, PutBack(d, e, m)
      PROVE  TInv'
  <2>1. /\ HeapStep(m) /\ data' \in Seq(1 .. m) /\ heap'[m] = Clone(e) /\ e.id = d
        /\ m \in Nat /\ Len(heap) <= m /\ m \in 1 .. m
        /\ \A a \in 1 .. Len(heap) : heap'[a] = heap[a]
    BY <1>3, <1>8 DEF PutBack, HeapStep
  <2>2. PICK k \in DOMAIN data' :
              /\ data'[k] = m
              /\ \A i \in DOMAIN data' :
                   i # k => i \in DOMAIN data /\ data'[i] = data[i] /\ heap[data[i]].id # d
    BY <1>8 DEF PutBack
  <2>3. Apart(heap', data')
    <3>1. \A i \in DOMAIN data : heap'[data[i]] = heap[data[i]]
      BY <2>1 DEF TInv, DocsFit
    <3>2. heap'[data'[k]].id = d
      BY <2>1, <2>2 DEF Clone
    <3>3. Apart(heap, data)
      BY DEF TInv, DocsFit
    <3>4. QED
      BY <2>2, <3>1, <3>2, <3>3 DEF Apart
  <2>4. WatchersFit(m, now)'
    <3>1. PICK op \in {"insert", "update"} : EmitEvents(<<Event(op, m)>>)
      BY <1>8 DEF PutBack
    <3>2. heap'[m] \in Objects(m) /\ op \in Op
      BY <2>1 DEF HeapStep, Op
    <3>3. QED
      BY <1>5, <2>1, <3>1, <3>2
  <2>5. QED
    BY <1>1, <1>4, <2>1, <2>3, <2>4, StepTInv
<1>9. QED
  BY <1>6, <1>7, <1>8, RestoreOneIs

-----------------------------------------------------------------------------
(* Types: the theorem, and that of the iterator.                           *)

\* What the collection is loaded with.
LEMMA InitDocs ==
  ASSUME Init
  PROVE  \E l : /\ l = Len(setup.loaded) /\ l \in Nat /\ l = Len(heap) /\ DocsFit
                /\ \A i \in 1 .. l : heap[i].id = setup.loaded[i] /\ heap[i].val = i
                /\ mirror \in [Doc -> 0 .. l]
                /\ setup \in Setup /\ setup.loaded \in Seq(Doc) /\ IsInjective(setup.loaded)
<1>1. setup \in Setup
  BY SetupType DEF Init
<1>2. setup.loaded \in Seq(Doc) /\ IsInjective(setup.loaded)
  BY <1>1, SetupFields
<1>3. PICK l : l = Len(setup.loaded) /\ l \in Nat /\ DOMAIN setup.loaded = 1 .. l
               /\ \A i \in 1 .. l : setup.loaded[i] \in Doc
  BY <1>2, Elements
<1>4. /\ heap = [i \in 1 .. l |-> [id |-> setup.loaded[i], val |-> i, deleted |-> FALSE]]
      /\ data = [i \in 1 .. l |-> i]
  BY <1>3 DEF Init
<1>5. \A i \in 1 .. l : heap[i] \in Objects(l) /\ heap[i].id = setup.loaded[i] /\ heap[i].val = i
  BY <1>3, <1>4 DEF Objects
<1>6. heap \in Seq(Objects(l)) /\ Len(heap) = l
  <2>1. PICK s : s = heap
    OBVIOUS
  <2>2. s = [i \in 1 .. l |-> s[i]] /\ \A i \in 1 .. l : s[i] \in Objects(l)
    BY <1>4, <1>5, <2>1
  <2>3. l \in Nat
    BY <1>3
  <2>4. s \in Seq(Objects(l)) /\ Len(s) = l
    BY <2>2, <2>3, SeqIs
  <2>5. QED
    BY <2>1, <2>4
<1>7. data \in Seq(1 .. l)
  <2>1. PICK s : s = data
    OBVIOUS
  <2>2. l \in Nat /\ s = [i \in 1 .. l |-> s[i]] /\ \A i \in 1 .. l : s[i] \in 1 .. l
    BY <1>3, <1>4, <2>1
  <2>3. s \in Seq(1 .. l)
    BY <2>2, SeqIs
  <2>4. QED
    BY <2>1, <2>3
<1>8. Apart(heap, data)
  BY <1>2, <1>3, <1>4, <1>5 DEF Apart, IsInjective
<1>9. mirror \in [Doc -> 0 .. l]
  <2>1. mirror = [d \in Doc |-> IF \E i \in 1 .. l : setup.loaded[i] = d
                                THEN CHOOSE i \in 1 .. l : setup.loaded[i] = d ELSE Gone]
    BY <1>3 DEF Init
  <2>2. ASSUME NEW d \in Doc PROVE mirror[d] \in 0 .. l
    <3>1. CASE \E i \in 1 .. l : setup.loaded[i] = d
      <4>1. (CHOOSE i \in 1 .. l : setup.loaded[i] = d) \in 1 .. l
        BY <3>1
      <4>2. mirror[d] \in 1 .. l
        BY <2>1, <3>1, <4>1
      <4>3. QED
        BY <1>3, <4>2
    <3>2. CASE ~ \E i \in 1 .. l : setup.loaded[i] = d
      BY <1>3, <2>1, <3>2 DEF Gone
    <3>3. QED
      BY <3>1, <3>2
  <2>3. QED
    BY <2>1, <2>2
<1>10. QED
  BY <1>1, <1>2, <1>3, <1>5, <1>6, <1>7, <1>8, <1>9 DEF DocsFit

LEMMA InitTypes ==
  ASSUME Init
  PROVE  TInv
<1>1. PICK l : /\ l \in Nat /\ l = Len(heap) /\ DocsFit /\ mirror \in [Doc -> 0 .. l]
               /\ setup \in Setup
  BY InitDocs
<1>2. TimeFits
  <2>1. now = 1 /\ past = <<>> /\ setup.time \in Nat \ {0}
    BY <1>1, SetupFields DEF Init
  <2>2. 1 \in 1 .. setup.time /\ Len(<<>>) = 1 - 1
    BY <2>1
  <2>3. QED
    BY <2>1, <2>2 DEF TimeFits
<1>3. LogFits(l, now)
  BY DEF Init, LogFits
<1>4. CallsFit(l, now)
  <2>1. now \in Nat
    BY DEF Init
  <2>2. NoCall \in Calls(l, now) /\ NoCall.at = 0 /\ NoCall.objs = <<>> /\ NoCall.stage = "idle"
    BY <1>1, <2>1, IdleCall
  <2>3. call = [c \in Call |-> NoCall]
    BY DEF Init
  <2>4. QED
    BY <2>2, <2>3 DEF CallsFit
<1>5. IterFits(l, iter)
  <2>1. Iterator(Events(l), Idle) /\ IsRecord(Idle)
    BY DEF Iterator, Idle, IsRecord
  <2>2. setup.buffer \in Nat
    BY <1>1, SetupFields
  <2>3. IterOk(Idle, setup.buffer, ~setup.eager)
    BY <2>2 DEF IterOk, Idle, Waiting
  <2>4. Idle \in Iterators(Events(l))
    BY <2>1, IteratorsAre
  <2>5. QED
    BY <2>3, <2>4 DEF IterFits, Init
<1>6. WatchersFit(l, now)
  BY <1>1, <1>5 DEF WatchersFit, Init
<1>7. QED
  BY <1>1, <1>2, <1>3, <1>4, <1>6 DEF TInv, Fits, Init

LEMMA StutterTypes ==
  ASSUME TInv, UNCHANGED vars
  PROVE  TInv'
<1>1. PICK m : /\ m = Len(heap) /\ m \in Nat /\ now \in Nat /\ Len(heap) <= m
  BY Standing
<1>2. UNCHANGED <<setup, heap, data, now, log, call, deferred, tx, mirror, iter, past>>
  BY DEF vars
<1>3. LogFits(m, now)' /\ CallsFit(m, now)' /\ WatchersFit(m, now)'
  BY <1>1, <1>2, SameFits
<1>4. QED
  BY <1>1, <1>2, <1>3, SameDocs

LEMMA NextTypes ==
  ASSUME TInv, [Next]_vars
  PROVE  TInv'
<1>1. ASSUME NEW c \in Call, Mutate(c) PROVE TInv'
  BY <1>1, InsertTypes, UpdateTypes, DeleteTypes, UndeleteTypes DEF Mutate
<1>2. ASSUME NEW c \in Call, SaveFails(c) \/ Follows(c) \/ Restores(c) PROVE TInv'
  BY <1>2, SaveFailsTypes, LogChangeTypes, LoggedTypes, EmitTypes, ReadLogTypes,
     RestoreAllTypes, RestoreOneTypes DEF Follows, Restores
<1>3. ASSUME NEW c \in Call, NEW docs, Rewind(c, docs) PROVE TInv'
  BY <1>3, RewindTypes
<1>4. ASSUME NEW d \in Doc, Sweep(d) PROVE TInv'
  BY <1>4, SweepTypes
<1>5. CASE Begin \/ Commit \/ Abort \/ Effects
  BY <1>5, TransactionTypes, FlushEventTypes, FlushEntryTypes, FlushLoggedTypes DEF Effects
<1>6. CASE Tick \/ Pull \/ Return
  BY <1>6, TickTypes, PullTypes
<1>7. CASE UNCHANGED vars
  BY <1>7, StutterTypes
<1>8. QED
  BY <1>1, <1>2, <1>3, <1>4, <1>5, <1>6, <1>7 DEF Next

LEMMA TypesHold == Spec => []TInv
<1>1. Init => TInv
  BY InitTypes
<1>2. TInv /\ [Next]_vars => TInv'
  BY NextTypes
<1>3. QED
  BY <1>1, <1>2, PTL DEF Spec

LEMMA TypesAre ==
  ASSUME TInv
  PROVE  TypeOK
<1>1. PICK m : /\ m = Len(heap) /\ m \in Nat /\ now \in Nat /\ now >= 1 /\ Len(heap) <= m
               /\ LogFits(m, now) /\ CallsFit(m, now) /\ WatchersFit(m, now)
               /\ \A a \in 1 .. m : heap[a] \in Objects(m)
  BY Standing
<1>2. setup \in Setups /\ now \in 1 .. setup.time /\ Len(past) = now - 1
  BY DEF TInv, TimeFits
<1>3. DOMAIN heap = 1 .. m
  BY <1>1, Sizes
<1>4. \A a \in DOMAIN heap : heap[a] \in [id : Doc, val : DOMAIN heap, deleted : BOOLEAN]
  BY <1>1, <1>3 DEF Objects
<1>5. data \in Seq(1 .. m) /\ \A i, j \in DOMAIN data : heap[data[i]].id = heap[data[j]].id => i = j
  BY <1>1 DEF TInv, DocsFit, Apart
<1>6. ToSet(data) \subseteq DOMAIN heap
  <2>1. \A i \in DOMAIN data : data[i] \in 1 .. m
    BY <1>5, Elements
  <2>2. QED
    BY <1>3, <2>1 DEF ToSet
<1>7. ASSUME NEW i \in DOMAIN log
      PROVE  /\ [log[i] EXCEPT !.ts = 1] \in [op : Op, id : Doc, val : DOMAIN heap, deleted : BOOLEAN, ts : {1}]
             /\ log[i].ts \in 1 .. now
  <2>1. log[i] \in Entries(m, now)
    BY <1>1, Elements DEF LogFits
  <2>2. QED
    BY <1>3, <2>1 DEF Entries
<1>8. ASSUME NEW c \in Call
      PROVE  call[c].stage \in Stage /\ call[c].at \in 0 .. Len(call[c].objs)
  <2>1. call[c] \in Calls(m, now) /\ call[c].at <= Len(call[c].objs)
    BY <1>1 DEF CallsFit
  <2>2. call[c].stage \in Stage /\ call[c].at \in Nat /\ call[c].objs \in Seq(1 .. m)
    BY <2>1 DEF Calls
  <2>3. Len(call[c].objs) \in Nat
    BY <2>2, Elements
  <2>4. QED
    BY <2>1, <2>2, <2>3
<1>9. /\ tx \in {"none", "open", "flushing"} /\ (deferred # <<>> => tx # "none")
      /\ setup.buffer > 0 => Len(iter.queue) <= setup.buffer
  BY <1>1 DEF WatchersFit, IterFits, IterOk
<1>10. QED
  BY <1>2, <1>4, <1>5, <1>6, <1>7, <1>8, <1>9 DEF TypeOK

\* Every variable keeps its type, whatever is called in whatever order: one
\* object in the collection for a document, entries and events of objects that
\* were made, nothing deferred without a transaction (collection.js, changelog.js).
THEOREM TypeCorrect == Spec => []TypeOK
<1>1. TInv => TypeOK
  BY TypesAre
<1>2. QED
  BY <1>1, TypesHold, PTL

LEMMA AccountHolds ==
  ASSUME TInv
  PROVE  IteratorLosesNothing
<1> SUFFICES ASSUME setup.buffer > 0
             PROVE  /\ iter.published = iter.got + iter.dropped + Len(iter.queue)
                    /\ ~setup.eager /\ Waiting(iter) # {} =>
                         iter.queue = <<>> /\ ~iter.done /\ Waiting(iter) = {iter.resolve}
  BY DEF IteratorLosesNothing
<1>1. PICK m : m = Len(heap) /\ WatchersFit(m, now)
  BY Standing
<1>2. IterOk(iter, setup.buffer, ~setup.eager) /\ Iterator(Events(m), iter)
  BY <1>1, IteratorsAre DEF WatchersFit, IterFits
<1>3. ASSUME ~setup.eager, Waiting(iter) # {}
      PROVE  iter.queue = <<>> /\ ~iter.done /\ Waiting(iter) = {iter.resolve}
  <2>1. Waiting(iter) = {iter.resolve}
    BY <1>2, <1>3 DEF IterOk
  <2>2. iter.resolve # 0
    BY <2>1 DEF Waiting
  <2>3. QED
    BY <1>2, <2>1, <2>2 DEF IterOk
<1>4. QED
  BY <1>2, <1>3 DEF IterOk

\* Whatever is published while who consumes the iterator awaits next(): each event
\* is delivered, in the buffer or counted as dropped, and who waits is woken by
\* the next one (collection.js: the iterator of watch()).
THEOREM NothingIsLost == Spec => []IteratorLosesNothing
<1>1. TInv => IteratorLosesNothing
  BY AccountHolds
<1>2. QED
  BY <1>1, TypesHold, PTL

-----------------------------------------------------------------------------
(* Events are logged.  In what order: an event is published, or deferred,  *)
(* after the entry of its document, which is in the log or in front of it. *)

\* The log lg has v of d; l documents were loaded without a log.
Logs(lg, l, d, v) ==
  v \in 0 .. l \/ \E i \in DOMAIN lg : lg[i].id = d /\ lg[i].val = v

\* A deferred effect that will log v of d, whose object is in h.
WillLog(h, x, d, v) ==
  \/ x.kind = "entry" /\ h[x.obj].id = d /\ h[x.obj].val = v
  \/ x.kind = "stamped" /\ x.entry.id = d /\ x.entry.val = v

\* It is logged, or will be by one of the first n effects.
Known(h, lg, df, l, d, v, n) ==
  Logs(lg, l, d, v) \/ \E j \in DOMAIN df : j <= n /\ WillLog(h, df[j], d, v)

EffectsKnown(h, lg, df, l) ==
  \A j \in DOMAIN df :
    df[j].kind = "event" /\ df[j].event.op # "delete"
    => Known(h, lg, df, l, df[j].event.id, df[j].event.val, j - 1)

CallKnown(h, lg, df, l, r) ==
  /\ r.stage \in {"applied", "logging"} =>
       \A k \in DOMAIN r.objs :
         k <= r.at => Known(h, lg, df, l, h[r.objs[k]].id, h[r.objs[k]].val, Len(df))
  /\ r.stage = "logging" =>
       /\ Len(r.entries) = 1
       /\ r.entries[1].id = h[r.objs[r.at + 1]].id /\ r.entries[1].val = h[r.objs[r.at + 1]].val
  /\ r.stage = "read" => \A i \in DOMAIN r.entries : \E j \in DOMAIN lg : lg[j] = r.entries[i]

LInv ==
  "abort" \notin setup.tx =>
    /\ \A d \in Doc : Logs(log, Len(setup.loaded), d, mirror[d])
    /\ EffectsKnown(heap, log, deferred, Len(setup.loaded))
    /\ \A c \in Call : CallKnown(heap, log, deferred, Len(setup.loaded), call[c])

\* What is known stays known.
Later(n, h, lg, df, l, h2, lg2, df2) ==
  /\ \A a \in 1 .. n : h2[a].id = h[a].id /\ h2[a].val = h[a].val
  /\ \A i \in DOMAIN lg : i \in DOMAIN lg2 /\ lg2[i] = lg[i]
  /\ \A d, v : Known(h, lg, df, l, d, v, Len(df)) => Known(h2, lg2, df2, l, d, v, Len(df2))

LEMMA CallLater ==
  ASSUME NEW n \in Nat, NEW t \in Nat, NEW r \in Calls(n, t), r.at <= Len(r.objs),
         r.stage = "logging" => r.at < Len(r.objs),
         NEW h, NEW lg, NEW df, NEW l, NEW h2, NEW lg2, NEW df2,
         Later(n, h, lg, df, l, h2, lg2, df2), CallKnown(h, lg, df, l, r)
  PROVE  CallKnown(h2, lg2, df2, l, r)
<1>1. /\ r.at \in Nat /\ Len(r.objs) \in Nat /\ DOMAIN r.objs = 1 .. Len(r.objs)
      /\ \A k \in DOMAIN r.objs : r.objs[k] \in 1 .. n
  <2>1. r.objs \in Seq(1 .. n) /\ r.at \in Nat
    BY DEF Calls
  <2>2. QED
    BY <2>1, Elements
<1>2. ASSUME r.stage \in {"applied", "logging"}, NEW k \in DOMAIN r.objs, k <= r.at
      PROVE  Known(h2, lg2, df2, l, h2[r.objs[k]].id, h2[r.objs[k]].val, Len(df2))
  <2>1. Known(h, lg, df, l, h[r.objs[k]].id, h[r.objs[k]].val, Len(df))
    BY <1>2 DEF CallKnown
  <2>2. h2[r.objs[k]].id = h[r.objs[k]].id /\ h2[r.objs[k]].val = h[r.objs[k]].val
    BY <1>1 DEF Later
  <2>3. QED
    BY <2>1, <2>2 DEF Later
<1>3. ASSUME r.stage = "logging"
      PROVE  /\ Len(r.entries) = 1
             /\ r.entries[1].id = h2[r.objs[r.at + 1]].id
             /\ r.entries[1].val = h2[r.objs[r.at + 1]].val
  <2>1. r.at + 1 \in DOMAIN r.objs
    BY <1>1, <1>3
  <2>2. r.objs[r.at + 1] \in 1 .. n
    BY <1>1, <2>1
  <2>3. QED
    BY <1>3, <2>2 DEF CallKnown, Later
<1>4. ASSUME r.stage = "read", NEW i \in DOMAIN r.entries
      PROVE  \E j \in DOMAIN lg2 : lg2[j] = r.entries[i]
  BY <1>4 DEF CallKnown, Later
<1>5. QED
  BY <1>2, <1>3, <1>4 DEF CallKnown

\* A call of which nothing need be known.
LEMMA NothingToKnow ==
  ASSUME NEW r, NEW n, r.objs \in Seq(1 .. n),
         r.stage = "applied" => r.at = 0,
         r.stage \notin {"logging", "read"},
         NEW h, NEW lg, NEW df, NEW l
  PROVE  CallKnown(h, lg, df, l, r)
<1>1. \A k \in DOMAIN r.objs : ~(k <= 0)
  OBVIOUS
<1>2. QED
  BY <1>1 DEF CallKnown

LEMMA LoggedStep ==
  ASSUME TInv, LInv, setup' = setup,
         "abort" \notin setup.tx =>
           /\ Later(Len(heap), heap, log, deferred, Len(setup.loaded), heap', log', deferred')
           /\ \A d \in Doc : Logs(log', Len(setup.loaded), d, mirror'[d])
           /\ EffectsKnown(heap', log', deferred', Len(setup.loaded))
           /\ \A c \in Call : \/ call'[c] = call[c]
                              \/ CallKnown(heap', log', deferred', Len(setup.loaded), call'[c])
  PROVE  LInv'
<1> SUFFICES ASSUME "abort" \notin setup.tx
             PROVE  /\ \A d \in Doc : Logs(log', Len(setup.loaded), d, mirror'[d])
                    /\ EffectsKnown(heap', log', deferred', Len(setup.loaded))
                    /\ \A c \in Call : CallKnown(heap', log', deferred', Len(setup.loaded), call'[c])
  BY DEF LInv
<1>1. ASSUME NEW c \in Call, call'[c] = call[c]
      PROVE  CallKnown(heap', log', deferred', Len(setup.loaded), call'[c])
  <2>1. PICK m : /\ m = Len(heap) /\ m \in Nat /\ now \in Nat /\ CallsFit(m, now)
    BY Standing
  <2>2. /\ call[c] \in Calls(m, now) /\ call[c].at <= Len(call[c].objs)
        /\ call[c].stage = "logging" => call[c].at < Len(call[c].objs)
    BY <2>1 DEF CallsFit
  <2>3. CallKnown(heap, log, deferred, Len(setup.loaded), call[c])
    BY DEF LInv
  <2>4. CallKnown(heap', log', deferred', Len(setup.loaded), call[c])
    BY <2>1, <2>2, <2>3, CallLater
  <2>5. QED
    BY <1>1, <2>4
<1>2. QED
  BY <1>1

\* The log and the effects get longer.
Longer(s, s2) == Len(s) <= Len(s2) /\ \A i \in DOMAIN s : i \in DOMAIN s2 /\ s2[i] = s[i]

LEMMA KnownLater ==
  ASSUME TInv, NEW m, HeapStep(m), Longer(log, log'), Longer(deferred, deferred'),
         NEW l, NEW d, NEW v, NEW n \in Int, NEW k \in Int, n <= k,
         Known(heap, log, deferred, l, d, v, n)
  PROVE  Known(heap', log', deferred', l, d, v, k)
<1>1. CASE Logs(log, l, d, v)
  BY <1>1 DEF Logs, Known, Longer
<1>2. ASSUME NEW j \in DOMAIN deferred, j <= n, WillLog(heap, deferred[j], d, v)
      PROVE  Known(heap', log', deferred', l, d, v, k)
  <2>1. deferred[j] \in Deferred(Len(heap), now)
    BY Elements DEF TInv, Fits, WatchersFit
  <2>2. deferred[j].kind = "entry" => deferred[j].obj \in 1 .. Len(heap)
    BY <2>1 DEF Deferred
  <2>3. WillLog(heap', deferred[j], d, v)
    BY <1>2, <2>2 DEF WillLog, HeapStep
  <2>4. j \in DOMAIN deferred' /\ deferred'[j] = deferred[j]
    BY DEF Longer
  <2>5. j \in Int
    BY Elements DEF TInv, Fits, WatchersFit
  <2>6. j <= k
    BY <1>2, <2>5
  <2>7. QED
    BY <2>3, <2>4, <2>6 DEF Known
<1>3. QED
  BY <1>1, <1>2 DEF Known

LEMMA LaterIs ==
  ASSUME TInv, NEW m, HeapStep(m), Longer(log, log'), Longer(deferred, deferred'),
         Len(deferred') \in Nat, NEW l
  PROVE  /\ Later(Len(heap), heap, log, deferred, l, heap', log', deferred')
         /\ deferred' = deferred /\ EffectsKnown(heap, log, deferred, l)
              => EffectsKnown(heap', log', deferred', l)
<1>1. Len(deferred) \in Nat /\ Len(deferred) <= Len(deferred')
      /\ \A j \in DOMAIN deferred : j \in Nat
  BY Elements DEF TInv, Fits, WatchersFit, Longer
<1>2. \A d, v : Known(heap, log, deferred, l, d, v, Len(deferred))
                => Known(heap', log', deferred', l, d, v, Len(deferred'))
  BY <1>1, KnownLater
<1>3. Later(Len(heap), heap, log, deferred, l, heap', log', deferred')
  BY <1>2 DEF Later, HeapStep, Longer
<1>4. ASSUME deferred' = deferred, EffectsKnown(heap, log, deferred, l)
      PROVE  EffectsKnown(heap', log', deferred', l)
  <2> SUFFICES ASSUME NEW j \in DOMAIN deferred, deferred[j].kind = "event",
                      deferred[j].event.op # "delete"
               PROVE  Known(heap', log', deferred', l, deferred[j].event.id,
                            deferred[j].event.val, j - 1)
    BY <1>4 DEF EffectsKnown
  <2>1. Known(heap, log, deferred, l, deferred[j].event.id, deferred[j].event.val, j - 1)
    BY <1>4 DEF EffectsKnown
  <2>2. j - 1 \in Int /\ j - 1 <= j - 1
    BY <1>1
  <2>3. QED
    BY <2>1, <2>2, KnownLater
<1>5. QED
  BY <1>3, <1>4

\* Nothing is published, deferred or logged.
LEMMA SilentStep ==
  ASSUME TInv, LInv, NEW m, HeapStep(m), UNCHANGED <<setup, log, deferred, mirror>>,
         "abort" \notin setup.tx =>
           \A c \in Call : \/ call'[c] = call[c]
                           \/ CallKnown(heap', log', deferred', Len(setup.loaded), call'[c])
  PROVE  LInv'
<1>1. Longer(log, log') /\ Longer(deferred, deferred') /\ Len(deferred') \in Nat
  BY Elements DEF TInv, Fits, WatchersFit, LogFits, Longer
<1> DEFINE l == Len(setup.loaded)
<1>2. /\ Later(Len(heap), heap, log, deferred, l, heap', log', deferred')
      /\ EffectsKnown(heap, log, deferred, l) => EffectsKnown(heap', log', deferred', l)
  <2> HIDE DEF l
  <2>1. QED
    BY <1>1, LaterIs
<1>3. "abort" \notin setup.tx =>
           /\ \A d \in Doc : Logs(log', l, d, mirror'[d])
           /\ EffectsKnown(heap', log', deferred', l)
  BY <1>2 DEF LInv
<1>4. QED
  BY <1>2, <1>3, LoggedStep

LEMMA CallsAre ==
  ASSUME TInv, NEW m, HeapStep(m)
  PROVE  call \in [Call -> Calls(m, now)]
<1>1. m \in Nat /\ Len(heap) <= m
  BY DEF HeapStep
<1>2. CallsFit(m, now)
  BY <1>1, Sizes, FitsLater DEF TInv, Fits
<1>3. QED
  BY <1>2 DEF CallsFit

\* A call that starts or ends.
LEMMA StartsUnknown ==
  ASSUME NEW n, NEW c \in Call, NEW op, NEW docs, NEW objs \in Seq(1 .. n),
         call \in [Call -> Calls(n, now)],
         Started(c, "applied", op, docs, objs),
         NEW h, NEW lg, NEW df, NEW l
  PROVE  \A b \in Call : call'[b] = call[b] \/ CallKnown(h, lg, df, l, call'[b])
<1> DEFINE r == [NoCall EXCEPT !.stage = "applied", !.op = op, !.docs = docs, !.objs = objs]
<1>1. r.objs = objs /\ r.stage = "applied" /\ r.at = 0
  BY DEF NoCall
<1>2. call' = [call EXCEPT ![c] = r]
  BY DEF Started
<1> HIDE DEF r
<1>3. CallKnown(h, lg, df, l, r)
  BY <1>1, NothingToKnow
<1>4. QED
  BY <1>2, <1>3

LEMMA EndsUnknown ==
  ASSUME NEW n, NEW c \in Call, NEW stage \in {"done", "failed"},
         call \in [Call -> Calls(n, now)], Ended(c, stage),
         NEW h, NEW lg, NEW df, NEW l
  PROVE  \A b \in Call : call'[b] = call[b] \/ CallKnown(h, lg, df, l, call'[b])
<1> DEFINE r == [NoCall EXCEPT !.stage = stage, !.until = call[c].until]
<1>1. r.objs = <<>> /\ r.stage = stage /\ r.at = 0
  BY DEF NoCall
<1>2. call' = [call EXCEPT ![c] = r]
  BY DEF Ended
<1> HIDE DEF r
<1>3. CallKnown(h, lg, df, l, r)
  <2>1. r.objs \in Seq(1 .. 0)
    BY <1>1
  <2>2. QED
    BY <1>1, <2>1, NothingToKnow
<1>4. QED
  BY <1>2, <1>3

\* Steps of which a watcher hears nothing.
LEMMA UpdateLogs ==
  ASSUME TInv, LInv, NEW c \in Call, NEW docs, Update(c, docs)
  PROVE  LInv'
<1>1. PICK found, m : Updated(c, docs, found, m)
  BY UpdateIs
<1>2. HeapStep(m) /\ Addresses(found) \in Seq(1 .. m)
      /\ Started(c, "applied", "update", docs, Addresses(found))
  BY <1>1 DEF Updated, Makes
<1>3. UNCHANGED <<setup, log, deferred, mirror>>
  BY DEF Update
<1>4. call \in [Call -> Calls(m, now)]
  BY <1>2, CallsAre
<1>5. QED
  BY <1>2, <1>3, <1>4, StartsUnknown, SilentStep

LEMMA DeleteLogs ==
  ASSUME TInv, LInv, NEW c \in Call, NEW docs, Delete(c, docs)
  PROVE  LInv'
<1>1. PICK found, objs : Deleted(c, docs, found, objs)
  BY DeleteIs
<1>2. PICK m : m = Len(heap) /\ HeapStep(m) /\ objs \in Seq(1 .. m)
               /\ Started(c, "applied", "delete", docs, objs)
  BY <1>1 DEF Deleted
<1>3. UNCHANGED <<setup, log, deferred, mirror>>
  BY DEF Delete
<1>4. call \in [Call -> Calls(m, now)]
  BY <1>2 DEF TInv, Fits, CallsFit
<1>5. QED
  BY <1>2, <1>3, <1>4, StartsUnknown, SilentStep

LEMMA UndeleteLogs ==
  ASSUME TInv, LInv, NEW c \in Call, NEW docs, Undelete(c, docs)
  PROVE  LInv'
<1>1. PICK m : m = Len(heap)
  OBVIOUS
<1>2. HeapStep(m)
  BY <1>1, UndeleteTypes
<1>3. PICK objs : objs = <<Address(docs[1])>>
  OBVIOUS
<1>4. objs \in Seq(1 .. m)
  BY <1>1, <1>3, AddressIs DEF Undelete
<1>5. UNCHANGED <<setup, log, deferred, mirror>> /\ Started(c, "applied", "restore", docs, objs)
  BY <1>3 DEF Undelete
<1>6. call \in [Call -> Calls(m, now)]
  BY <1>1 DEF TInv, Fits, CallsFit
<1>7. QED
  BY <1>2, <1>4, <1>5, <1>6, StartsUnknown, SilentStep

\* The heap as it is.
LEMMA SameHeap ==
  ASSUME TInv, heap' = heap
  PROVE  HeapStep(Len(heap))
BY Sizes DEF HeapStep, TInv, DocsFit

LEMMA SaveFailsLogs ==
  ASSUME TInv, LInv, NEW c \in Call, SaveFails(c)
  PROVE  LInv'
<1>1. PICK m : m = Len(heap)
  OBVIOUS
<1>2. Ended(c, "failed") /\ UNCHANGED <<setup, heap, log, deferred, mirror>>
  BY DEF SaveFails
<1>3. HeapStep(m) /\ call \in [Call -> Calls(m, now)]
  BY <1>1, <1>2, SameHeap DEF TInv, Fits, CallsFit
<1>4. QED
  BY <1>2, <1>3, EndsUnknown, SilentStep

LEMMA RewindLogs ==
  ASSUME TInv, LInv, NEW c \in Call, NEW docs, Rewind(c, docs)
  PROVE  LInv'
<1>1. PICK m : m = Len(heap)
  OBVIOUS
<1>2. PICK t : call' = [call EXCEPT ![c] = [NoCall EXCEPT !.stage = "reading", !.docs = docs, !.until = t]]
  BY DEF Rewind
<1> DEFINE r == [NoCall EXCEPT !.stage = "reading", !.docs = docs, !.until = t]
<1>3. r.objs = <<>> /\ r.stage = "reading" /\ call' = [call EXCEPT ![c] = r]
  BY <1>2 DEF NoCall
<1> HIDE DEF r
<1>4. UNCHANGED <<setup, heap, log, deferred, mirror>>
  BY DEF Rewind
<1>5. HeapStep(m) /\ call \in [Call -> Calls(m, now)]
  BY <1>1, <1>4, SameHeap DEF TInv, Fits, CallsFit
<1>6. CallKnown(heap', log', deferred', Len(setup.loaded), r)
  <2>1. r.objs \in Seq(1 .. 0)
    BY <1>3
  <2>2. QED
    BY <1>3, <2>1, NothingToKnow
<1>7. \A b \in Call : call'[b] = call[b]
                      \/ CallKnown(heap', log', deferred', Len(setup.loaded), call'[b])
  BY <1>3, <1>5, <1>6
<1>8. QED
  BY <1>4, <1>5, <1>7, SilentStep

LEMMA ReadLogLogs ==
  ASSUME TInv, LInv, NEW c \in Call, ReadLog(c)
  PROVE  LInv'
<1>1. PICK m : m = Len(heap)
  OBVIOUS
<1>2. PICK r : /\ call' = [call EXCEPT ![c] = r]
               /\ r = [call[c] EXCEPT !.stage = "read", !.entries = UpTo(call[c].until)]
  BY DEF ReadLog
<1>3. UNCHANGED <<setup, heap, log, deferred, mirror>>
  BY DEF ReadLog
<1>4. HeapStep(m) /\ call \in [Call -> Calls(m, now)]
  BY <1>1, <1>3, SameHeap DEF TInv, Fits, CallsFit
<1>5. r.stage = "read" /\ call'[c] = r
  BY <1>2, <1>4 DEF Calls
<1>6. CallKnown(heap', log', deferred', Len(setup.loaded), r)
  <2>1. r.entries \in Seq(ToSet(log))
    BY <1>5, ReadLogTypes
  <2>2. \A i \in DOMAIN r.entries : \E j \in DOMAIN log : log[j] = r.entries[i]
    BY <2>1 DEF ToSet
  <2>3. QED
    BY <1>3, <1>5, <2>2 DEF CallKnown
<1>7. \A b \in Call : call'[b] = call[b]
                      \/ CallKnown(heap', log', deferred', Len(setup.loaded), call'[b])
  BY <1>2, <1>4, <1>6
<1>8. QED
  BY <1>3, <1>4, <1>7, SilentStep

LEMMA OthersLog ==
  ASSUME TInv, LInv,
         \/ \E d \in Doc : Sweep(d)
         \/ Begin \/ Commit \/ FlushEnds \/ Tick \/ Pull \/ Return \/ UNCHANGED vars
  PROVE  LInv'
<1>1. PICK m : m = Len(heap)
  OBVIOUS
<1>2. UNCHANGED <<setup, heap, log, call, deferred, mirror>>
  BY DEF Sweep, Begin, Commit, FlushEnds, Tick, Pull, Return, vars
<1>3. HeapStep(m)
  BY <1>1, <1>2, SameHeap
<1>4. QED
  BY <1>2, <1>3, SilentStep

LEMMA AbortLogs ==
  ASSUME LInv, Abort
  PROVE  LInv'
BY DEF LInv, Abort

\* Events are deferred behind the effects that are there.
LEMMA DeferIs ==
  ASSUME TInv, NEW m, NEW events \in Seq(Events(m)), EmitEvents(events), tx # "none"
  PROVE  /\ mirror' = mirror
         /\ Len(deferred) \in Nat /\ DOMAIN deferred = 1 .. Len(deferred)
         /\ Len(events) \in Nat /\ DOMAIN events = 1 .. Len(events)
         /\ Len(deferred') = Len(deferred) + Len(events)
         /\ \A i \in DOMAIN deferred : i \in DOMAIN deferred' /\ deferred'[i] = deferred[i]
         /\ \A i \in DOMAIN events :
              /\ Len(deferred) + i \in DOMAIN deferred'
              /\ deferred'[Len(deferred) + i].kind = "event"
              /\ deferred'[Len(deferred) + i].event = events[i]
         /\ \A i \in DOMAIN deferred' :
              (i \in DOMAIN deferred /\ deferred'[i] = deferred[i])
              \/ \E j \in DOMAIN events : i = Len(deferred) + j
<1>1. PICK more : more = [i \in DOMAIN events |-> [kind |-> "event", event |-> events[i]]]
  OBVIOUS
<1>2. deferred' = deferred \o more /\ mirror' = mirror
  BY <1>1 DEF EmitEvents
<1>3. PICK k : k = Len(events) /\ k \in Nat /\ DOMAIN events = 1 .. k
  BY Elements
<1>4. deferred \in Seq(Deferred(Len(heap), now))
  BY DEF TInv, Fits, WatchersFit
<1>5. PICK T : more \in Seq(T) /\ deferred \in Seq(T) /\ Len(more) = k
  <2> DEFINE T == Deferred(Len(heap), now) \union {more[i] : i \in DOMAIN more}
  <2>1. more \in Seq(T) /\ Len(more) = k
    <3>1. more = [i \in 1 .. k |-> more[i]] /\ \A i \in 1 .. k : more[i] \in T
      BY <1>1, <1>3
    <3> HIDE DEF T
    <3>2. QED
      BY <1>3, <3>1, SeqIs
  <2>2. deferred \in Seq(T)
    <3>1. Deferred(Len(heap), now) \subseteq T
      OBVIOUS
    <3> HIDE DEF T
    <3>2. QED
      BY <1>4, <3>1, SeqGrows
  <2> HIDE DEF T
  <2>3. QED
    BY <2>1, <2>2
<1>6. /\ \A i \in DOMAIN deferred : i \in DOMAIN deferred' /\ deferred'[i] = deferred[i]
      /\ \A i \in DOMAIN more : Len(deferred) + i \in DOMAIN deferred'
                                /\ deferred'[Len(deferred) + i] = more[i]
      /\ \A i \in DOMAIN deferred' :
            (i \in DOMAIN deferred /\ deferred'[i] = deferred[i])
            \/ \E j \in DOMAIN more : i = Len(deferred) + j /\ deferred'[i] = more[j]
  BY <1>2, <1>5, ConcatIs
<1>6a. Len(deferred') = Len(deferred) + k
  <2>1. Len(deferred \o more) = Len(deferred) + Len(more)
    BY <1>5, ConcatIs
  <2>2. QED
    BY <1>2, <1>5, <2>1
<1>7. /\ DOMAIN more = DOMAIN events
      /\ \A j \in DOMAIN events : more[j].kind = "event" /\ more[j].event = events[j]
      /\ Len(deferred) \in Nat /\ DOMAIN deferred = 1 .. Len(deferred)
  BY <1>1, <1>4, Elements
<1>8. QED
  BY <1>2, <1>3, <1>6, <1>6a, <1>7

\* What emit() of events, at once, tells a watcher.
LEMMA PublishTells ==
  ASSUME TInv, NEW m, HeapStep(m), NEW events \in Seq(Events(m)), Publish(events)
  PROVE  \A d \in Doc : Tells(mirror, events, d, mirror'[d])
<1>1. PICK n : n = Len(heap) /\ n \in Nat /\ WatchersFit(n, now) /\ now \in Nat /\ setup \in Setup
  BY Sizes DEF TInv, Fits
<1>2. m \in Nat /\ n <= m
  BY <1>1 DEF HeapStep
<1>3. WatchersFit(m, now)
  BY <1>1, <1>2, FitsLater
<1>4. mirror \in [Doc -> 0 .. m] /\ IterFits(m, iter)
  BY <1>3 DEF WatchersFit
<1>5. QED
  BY <1>1, <1>2, <1>4, PublishIs

\* Events of what is known are published, or deferred behind the effects.
LEMMA EmitLogged ==
  ASSUME TInv, LInv, "abort" \notin setup.tx, NEW m, HeapStep(m),
         NEW events \in Seq(Events(m)), EmitEvents(events), log' = log,
         \A i \in DOMAIN events :
           events[i].op # "delete" =>
             Known(heap, log, deferred, Len(setup.loaded), events[i].id, events[i].val, Len(deferred))
  PROVE  /\ Later(Len(heap), heap, log, deferred, Len(setup.loaded), heap', log', deferred')
         /\ \A d \in Doc : Logs(log', Len(setup.loaded), d, mirror'[d])
         /\ EffectsKnown(heap', log', deferred', Len(setup.loaded))
<1>1. PICK l : l = Len(setup.loaded) /\ l \in Nat
  BY Sizes, SetupFields, Elements
<1>2. /\ \A d \in Doc : Logs(log, l, d, mirror[d])
      /\ EffectsKnown(heap, log, deferred, l)
  BY <1>1 DEF LInv
<1>3. /\ deferred \in Seq(Deferred(Len(heap), now)) /\ log \in Seq(Entries(Len(heap), now))
      /\ tx = "none" => deferred = <<>>
  BY DEF TInv, Fits, WatchersFit, LogFits
<1>4. Longer(log, log')
  BY <1>3, Elements DEF Longer
<1>5. CASE tx = "none"
  <2>1. Publish(events) /\ deferred' = deferred /\ deferred = <<>>
    BY <1>3, <1>5 DEF EmitEvents
  <2>2. Longer(deferred, deferred') /\ Len(deferred') \in Nat
    BY <2>1 DEF Longer
  <2>3. /\ Later(Len(heap), heap, log, deferred, l, heap', log', deferred')
        /\ EffectsKnown(heap', log', deferred', l)
    BY <1>2, <1>4, <2>1, <2>2, LaterIs
  <2>4. \A d \in Doc : Tells(mirror, events, d, mirror'[d])
    BY <2>1, PublishTells
  <2>5. ASSUME NEW d \in Doc PROVE Logs(log', l, d, mirror'[d])
    <3>1. CASE mirror'[d] = mirror[d]
      BY <1>2, <3>1
    <3>2. ASSUME NEW j \in DOMAIN events, LastOn(events, d, j), mirror'[d] = Outcome(events[j])
          PROVE  Logs(log', l, d, mirror'[d])
      <4>1. CASE events[j].op = "delete"
        BY <1>1, <3>2, <4>1 DEF Outcome, Gone, Logs
      <4>2. CASE events[j].op # "delete"
        <5>1. Known(heap, log, deferred, l, d, mirror'[d], Len(deferred))
          BY <1>1, <3>2, <4>2 DEF LastOn, Outcome
        <5>2. QED
          BY <2>1, <5>1 DEF Known
      <4>3. QED
        BY <4>1, <4>2
    <3>3. QED
      BY <2>4, <3>1, <3>2 DEF Tells
  <2>6. QED
    BY <1>1, <2>3, <2>5
<1>6. CASE tx # "none"
  <2>1. /\ mirror' = mirror
        /\ Len(deferred) \in Nat /\ DOMAIN deferred = 1 .. Len(deferred)
        /\ Len(events) \in Nat /\ DOMAIN events = 1 .. Len(events)
        /\ Len(deferred') = Len(deferred) + Len(events)
        /\ \A i \in DOMAIN deferred : i \in DOMAIN deferred' /\ deferred'[i] = deferred[i]
        /\ \A i \in DOMAIN events : deferred'[Len(deferred) + i].event = events[i]
        /\ \A i \in DOMAIN deferred' :
              (i \in DOMAIN deferred /\ deferred'[i] = deferred[i])
              \/ \E j \in DOMAIN events : i = Len(deferred) + j
    BY <1>6, DeferIs
  <2>2. Len(deferred') \in Nat
    BY <2>1
  <2>3. \A i \in DOMAIN deferred : i \in Nat
    BY <2>1
  <2>6. Longer(deferred, deferred')
    BY <2>1, <2>2 DEF Longer
  <2>7. Later(Len(heap), heap, log, deferred, l, heap', log', deferred')
    BY <1>4, <2>2, <2>6, LaterIs
  <2>8. ASSUME NEW i \in DOMAIN deferred', deferred'[i].kind = "event",
               deferred'[i].event.op # "delete"
        PROVE  Known(heap', log', deferred', l, deferred'[i].event.id, deferred'[i].event.val, i - 1)
    <3>1. CASE i \in DOMAIN deferred /\ deferred'[i] = deferred[i]
      <4>1. Known(heap, log, deferred, l, deferred[i].event.id, deferred[i].event.val, i - 1)
        BY <1>2, <2>8, <3>1 DEF EffectsKnown
      <4>2. i - 1 \in Int /\ i - 1 <= i - 1
        BY <2>3, <3>1
      <4>3. QED
        BY <1>4, <2>6, <3>1, <4>1, <4>2, KnownLater
    <3>2. ASSUME NEW j \in DOMAIN events, i = Len(deferred) + j
          PROVE  Known(heap', log', deferred', l, deferred'[i].event.id, deferred'[i].event.val, i - 1)
      <4>1. deferred'[i].event = events[j]
        BY <2>1, <3>2
      <4>2. Known(heap, log, deferred, l, events[j].id, events[j].val, Len(deferred))
        BY <1>1, <2>8, <4>1
      <4>3. i - 1 \in Int /\ Len(deferred) \in Int /\ Len(deferred) <= i - 1
        BY <2>1, <3>2
      <4>4. QED
        BY <1>4, <2>6, <4>1, <4>2, <4>3, KnownLater
    <3>3. QED
      BY <2>1, <3>1, <3>2
  <2>9. EffectsKnown(heap', log', deferred', l)
    BY <2>8 DEF EffectsKnown
  <2>10. \A d \in Doc : Logs(log', l, d, mirror'[d])
    BY <1>2, <2>1
  <2>11. QED
    BY <1>1, <2>7, <2>9, <2>10
<1>7. QED
  BY <1>5, <1>6

LEMMA InsertLogs ==
  ASSUME TInv, LInv, NEW c \in Call, NEW docs, Insert(c, docs)
  PROVE  LInv'
<1>1. PICK m, all, k : Inserted(c, docs, m, all, k)
  BY InsertIs
<1>2. PICK events : /\ events = [i \in 1 .. k |-> Event("delete", all[i])]
                    /\ events \in Seq(Events(m)) /\ EmitEvents(events)
  BY <1>1 DEF Inserted
<1>3. HeapStep(m) /\ Addresses(docs) \in Seq(1 .. m)
  BY <1>1 DEF Inserted, Makes
<1>4. UNCHANGED <<setup, log>> /\ Started(c, "applied", "insert", docs, Addresses(docs))
  BY DEF Insert
<1>5. \A i \in DOMAIN events : events[i].op = "delete"
  BY <1>2 DEF Event
<1>6. call \in [Call -> Calls(m, now)]
  BY <1>3, CallsAre
<1>7. \A b \in Call : call'[b] = call[b]
                      \/ CallKnown(heap', log', deferred', Len(setup.loaded), call'[b])
  BY <1>3, <1>4, <1>6, StartsUnknown
<1>8. QED
  BY <1>2, <1>3, <1>4, <1>5, <1>7, EmitLogged, LoggedStep

LEMMA EmitLogs ==
  ASSUME TInv, LInv, NEW c \in Call, Emit(c)
  PROVE  LInv'
<1> SUFFICES ASSUME "abort" \notin setup.tx PROVE LInv'
  BY DEF LInv, Emit
<1>1. PICK m : /\ m = Len(heap) /\ m \in Nat /\ now \in Nat
               /\ CallsFit(m, now) /\ \A a \in 1 .. m : heap[a] \in Objects(m)
  BY Standing
<1>2. PICK events : events = [i \in DOMAIN call[c].objs |-> Event(call[c].op, call[c].objs[i])]
  OBVIOUS
<1>3. /\ UNCHANGED <<setup, heap, data, now, log, tx, past>>
      /\ EmitEvents(events) /\ Ended(c, "done")
      /\ call[c].stage = "applied" /\ call[c].at = Len(call[c].objs)
  BY <1>2 DEF Emit
<1>4. call[c].objs \in Seq(1 .. m) /\ call[c].op \in Op /\ call \in [Call -> Calls(m, now)]
  BY <1>1 DEF CallsFit, Calls
<1>5. PICK n : /\ n = Len(call[c].objs) /\ n \in Nat /\ DOMAIN call[c].objs = 1 .. n
               /\ \A i \in 1 .. n : call[c].objs[i] \in 1 .. m
  BY <1>4, Elements
<1>6. events \in Seq(Events(m)) /\ DOMAIN events = 1 .. n
  <2>1. \A i \in 1 .. n : Event(call[c].op, call[c].objs[i]) \in Events(m)
    BY <1>1, <1>3, <1>4, <1>5 DEF Event, Events, Objects
  <2>2. events = [i \in 1 .. n |-> events[i]] /\ \A i \in 1 .. n : events[i] \in Events(m)
    BY <1>2, <1>5, <2>1
  <2>3. QED
    BY <1>5, <2>2, SeqIs
<1>7. HeapStep(m)
  BY <1>1, <1>3, SameHeap
<1>8. ASSUME NEW i \in DOMAIN events
      PROVE  Known(heap, log, deferred, Len(setup.loaded), events[i].id, events[i].val, Len(deferred))
  <2>1. i \in DOMAIN call[c].objs /\ i <= call[c].at
    BY <1>3, <1>5, <1>6
  <2>2. Known(heap, log, deferred, Len(setup.loaded), heap[call[c].objs[i]].id,
              heap[call[c].objs[i]].val, Len(deferred))
    BY <1>3, <2>1 DEF LInv, CallKnown
  <2>3. events[i].id = heap[call[c].objs[i]].id /\ events[i].val = heap[call[c].objs[i]].val
    BY <1>2, <1>3, <2>1 DEF Event
  <2>4. QED
    BY <2>2, <2>3
<1>9. \A b \in Call : call'[b] = call[b]
                      \/ CallKnown(heap', log', deferred', Len(setup.loaded), call'[b])
  BY <1>3, <1>4, EndsUnknown
<1>10. QED
  BY <1>3, <1>6, <1>7, <1>8, <1>9, EmitLogged, LoggedStep

\* What was replayed is in the log.
LEMMA RestoreAllLogs ==
  ASSUME TInv, LInv, NEW c \in Call, RestoreAll(c)
  PROVE  LInv'
<1>0. UNCHANGED <<setup, log>> /\ Ended(c, "done") /\ call[c].stage = "read"
  BY DEF RestoreAll
<1> SUFFICES ASSUME "abort" \notin setup.tx PROVE LInv'
  BY <1>0 DEF LInv
<1>1. PICK docs, m, gone, new :
           /\ docs \in Seq({e \in ToSet(call[c].entries) : e.op \notin {"delete", "restore"}})
           /\ RestoredAll(docs, m)
           /\ gone \in Seq(Events(m)) /\ gone = [i \in DOMAIN data |-> Event("delete", data[i])]
           /\ new \in Seq(Events(m)) /\ new = [i \in DOMAIN docs |-> Event("insert", data'[i])]
           /\ EmitEvents(gone \o new)
  BY RestoreAllIs
<1>2. HeapStep(m)
  BY <1>1 DEF RestoredAll
<1>3. ASSUME NEW i \in DOMAIN new
      PROVE  Logs(log, Len(setup.loaded), new[i].id, new[i].val)
  <2>1. i \in DOMAIN docs /\ heap'[data'[i]] = Clone(docs[i])
    BY <1>1 DEF RestoredAll
  <2>2. new[i].id = docs[i].id /\ new[i].val = docs[i].val
    BY <1>1, <2>1 DEF Event, Clone
  <2>3. docs[i] \in ToSet(call[c].entries)
    BY <1>1, <2>1, Elements
  <2>4. \E j \in DOMAIN log : log[j] = docs[i]
    BY <1>0, <2>3 DEF LInv, CallKnown, ToSet
  <2>5. QED
    BY <2>2, <2>4 DEF Logs
<1>4. PICK events : events = gone \o new
  OBVIOUS
<1>9. gone \in Seq(Events(m)) /\ new \in Seq(Events(m))
  BY <1>1
<1>10. /\ events \in Seq(Events(m))
       /\ \A i \in DOMAIN events : \/ \E j \in DOMAIN gone : events[i] = gone[j]
                                  \/ \E j \in DOMAIN new : events[i] = new[j]
  <2>1. \A i \in DOMAIN (gone \o new) :
          \/ i \in DOMAIN gone /\ (gone \o new)[i] = gone[i]
          \/ \E j \in DOMAIN new : i = Len(gone) + j /\ (gone \o new)[i] = new[j]
    BY <1>9, ConcatIs
  <2>2. gone \o new \in Seq(Events(m))
    BY <1>9
  <2>3. QED
    BY <1>4, <2>1, <2>2
<1>5. ASSUME NEW i \in DOMAIN events, events[i].op # "delete"
      PROVE  Known(heap, log, deferred, Len(setup.loaded), events[i].id, events[i].val, Len(deferred))
  <2>1. (\E j \in DOMAIN gone : events[i] = gone[j]) \/ \E j \in DOMAIN new : events[i] = new[j]
    BY <1>10
  <2>2. \A j \in DOMAIN gone : gone[j].op = "delete"
    BY <1>1 DEF Event
  <2>3. QED
    BY <1>3, <1>5, <2>1, <2>2 DEF Known
<1>6. call \in [Call -> Calls(m, now)]
  BY <1>2, CallsAre
<1>7. \A b \in Call : call'[b] = call[b]
                      \/ CallKnown(heap', log', deferred', Len(setup.loaded), call'[b])
  BY <1>0, <1>6, EndsUnknown
<1>8. QED
  BY <1>0, <1>1, <1>2, <1>4, <1>5, <1>7, <1>10, EmitLogged, LoggedStep

LEMMA RestoreOneLogs ==
  ASSUME TInv, LInv, NEW c \in Call, RestoreOne(c)
  PROVE  LInv'
<1>0. UNCHANGED <<setup, now, log, tx>> /\ Ended(c, "done") /\ call[c].stage = "read"
  BY DEF RestoreOne
<1> SUFFICES ASSUME "abort" \notin setup.tx PROVE LInv'
  BY <1>0 DEF LInv
<1>1. PICK n : n = Len(heap)
  OBVIOUS
<1>2. \A b \in Call : call'[b] = call[b]
                      \/ CallKnown(heap', log', deferred', Len(setup.loaded), call'[b])
  BY <1>0, EndsUnknown DEF TInv, Fits, CallsFit
<1>3. CASE UNCHANGED <<heap, data, deferred, mirror, iter>>
  <2>1. HeapStep(n)
    BY <1>1, <1>3, SameHeap
  <2>2. QED
    BY <1>0, <1>2, <1>3, <2>1, SilentStep
<1>4. ASSUME NEW d \in Doc, NEW m, TakenOut(d, m)
      PROVE  LInv'
  <2>1. m = Len(heap) /\ Holds(d) /\ heap' = heap /\ EmitEvents(<<Event("delete", Address(d))>>)
    BY <1>4 DEF TakenOut
  <2>2. PICK events : events = <<Event("delete", Address(d))>>
    OBVIOUS
  <2>3. HeapStep(m)
    BY <2>1, SameHeap
  <2>4. Event("delete", Address(d)) \in Events(m) /\ Event("delete", Address(d)).op = "delete"
    <3>1. heap'[Address(d)] \in Objects(m)
      BY <2>1, AddressIs, Sizes
    <3>2. QED
      BY <3>1 DEF Event, Events, Objects, Op
  <2>5. events \in Seq(Events(m)) /\ \A i \in DOMAIN events : events[i].op = "delete"
    BY <2>2, <2>4
  <2>6. QED
    BY <1>0, <1>2, <2>1, <2>2, <2>3, <2>5, EmitLogged, LoggedStep
<1>5. ASSUME NEW d \in Doc, NEW m, NEW e \in ToSet(call[c].entries), PutBack(d, e, m)
      PROVE  LInv'
  <2>1. PICK op \in {"insert", "update"} : EmitEvents(<<Event(op, m)>>)
    BY <1>5 DEF PutBack
  <2>2. HeapStep(m) /\ heap'[m] = Clone(e) /\ m \in Nat /\ m >= 1
    <3>1. HeapStep(m) /\ heap'[m] = Clone(e) /\ m = Len(heap) + 1
      BY <1>5 DEF PutBack
    <3>2. QED
      BY <3>1, Sizes
  <2>3. PICK events : events = <<Event(op, m)>>
    OBVIOUS
  <2>4. Event(op, m) \in Events(m) /\ Event(op, m).id = e.id /\ Event(op, m).val = e.val
    <3>1. heap'[m] \in Objects(m)
      BY <2>2 DEF HeapStep
    <3>2. QED
      BY <2>2, <3>1 DEF Event, Events, Objects, Op, Clone
  <2>5. \E j \in DOMAIN log : log[j] = e
    BY <1>0, <1>5 DEF LInv, CallKnown, ToSet
  <2>6. Known(heap, log, deferred, Len(setup.loaded), e.id, e.val, Len(deferred))
    BY <2>5 DEF Known, Logs
  <2>7. events \in Seq(Events(m))
        /\ \A i \in DOMAIN events : events[i].id = e.id /\ events[i].val = e.val
    BY <2>3, <2>4
  <2>8. QED
    BY <1>0, <1>2, <2>1, <2>2, <2>3, <2>6, <2>7, EmitLogged, LoggedStep
<1>6. QED
  BY <1>3, <1>4, <1>5, RestoreOneIs

\* The next document of a call is stamped, or its entry is deferred.
LEMMA LogChangeLogs ==
  ASSUME TInv, LInv, NEW c \in Call, LogChange(c)
  PROVE  LInv'
<1>0. UNCHANGED <<setup, heap, data, now, log, tx, mirror, iter, past>>
  BY DEF LogChange
<1> SUFFICES ASSUME "abort" \notin setup.tx PROVE LInv'
  BY <1>0 DEF LInv
<1>1. PICK m : /\ m = Len(heap) /\ m \in Nat /\ now \in Nat
               /\ CallsFit(m, now) /\ WatchersFit(m, now) /\ LogFits(m, now)
               /\ \A a \in 1 .. m : heap[a] \in Objects(m)
  BY Standing
<1>2. PICK o : o = call[c].objs[call[c].at + 1]
  OBVIOUS
<1>3. call[c].stage = "applied" /\ call[c].at < Len(call[c].objs)
  BY DEF LogChange
<1>4. call \in [Call -> Calls(m, now)] /\ call[c] \in Calls(m, now)
  BY <1>1 DEF CallsFit
<1>5. call[c].objs \in Seq(1 .. m) /\ call[c].at \in Nat
  BY <1>4 DEF Calls
<1>6. PICK objs, at : /\ objs = call[c].objs /\ at = call[c].at /\ o = objs[at + 1]
                      /\ at \in Nat /\ at < Len(objs) /\ Len(objs) \in Nat
                      /\ DOMAIN objs = 1 .. Len(objs)
  BY <1>2, <1>3, <1>5, Elements
<1>7. HeapStep(m)
  BY <1>0, <1>1, SameHeap
<1>8. PICK l : l = Len(setup.loaded)
  OBVIOUS
<1>9. \A k \in DOMAIN objs : k <= at => Known(heap, log, deferred, l, heap[objs[k]].id, heap[objs[k]].val, Len(deferred))
  BY <1>3, <1>6, <1>8 DEF LInv, CallKnown
<1>10. CASE tx = "none"
  <2>1. PICK e : e = Entry(call[c].op, o)
    OBVIOUS
  <2>2. PICK r : r = [call[c] EXCEPT !.stage = "logging", !.entries = <<e>>]
    OBVIOUS
  <2>3. call' = [call EXCEPT ![c] = r] /\ deferred' = deferred
    BY <1>2, <1>10, <2>1, <2>2 DEF LogChange
  <2>4. r.stage = "logging" /\ r.entries = <<e>> /\ r.objs = objs /\ r.at = at
    BY <1>4, <1>6, <2>2 DEF Calls
  <2>5. e.id = heap[o].id /\ e.val = heap[o].val
    BY <2>1 DEF Entry
  <2>6. CallKnown(heap, log, deferred, l, r)
    BY <1>6, <1>9, <2>4, <2>5 DEF CallKnown
  <2>7. \A b \in Call : call'[b] = call[b] \/ CallKnown(heap', log', deferred', l, call'[b])
    BY <1>0, <1>4, <2>3, <2>6
  <2>8. QED
    BY <1>0, <1>7, <1>8, <2>3, <2>7, SilentStep
<1>11. CASE tx # "none"
  <2>1. PICK e : e = [kind |-> "entry", op |-> call[c].op, obj |-> o]
    OBVIOUS
  <2>2. PICK r : r = [call[c] EXCEPT !.at = at + 1]
    OBVIOUS
  <2>3. call' = [call EXCEPT ![c] = r] /\ deferred' = Append(deferred, e)
    BY <1>2, <1>6, <1>11, <2>1, <2>2 DEF LogChange
  <2>4. r.stage = "applied" /\ r.objs = objs /\ r.at = at + 1
    BY <1>3, <1>4, <1>6, <2>2 DEF Calls
  <2>5. PICK n : /\ n = Len(deferred) /\ n \in Nat /\ DOMAIN deferred = 1 .. n
    BY <1>1, Elements DEF WatchersFit
  <2>6. /\ Len(deferred') = n + 1 /\ DOMAIN deferred' = 1 .. n + 1 /\ deferred'[n + 1] = e
        /\ \A i \in 1 .. n : deferred'[i] = deferred[i]
    <3>1. deferred \in Seq(Deferred(m, now) \union {e})
      <4>1. Seq(Deferred(m, now)) \subseteq Seq(Deferred(m, now) \union {e})
        BY SeqGrows
      <4>2. QED
        BY <1>1, <4>1 DEF WatchersFit
    <3>2. QED
      BY <2>3, <2>5, <3>1
  <2>7. Longer(deferred, deferred') /\ Len(deferred') \in Nat
    BY <2>5, <2>6 DEF Longer
  <2>8. Longer(log, log')
    BY <1>0, <1>1, Elements DEF LogFits, Longer
  <2>9. Later(Len(heap), heap, log, deferred, l, heap', log', deferred')
    BY <1>7, <2>7, <2>8, LaterIs
  <2>10. EffectsKnown(heap', log', deferred', l)
    <3> SUFFICES ASSUME NEW j \in 1 .. n + 1, deferred'[j].kind = "event",
                        deferred'[j].event.op # "delete"
                 PROVE  Known(heap', log', deferred', l, deferred'[j].event.id,
                              deferred'[j].event.val, j - 1)
      BY <2>6 DEF EffectsKnown
    <3>1. j \in 1 .. n /\ deferred'[j] = deferred[j]
      <4>1. e.kind = "entry"
        BY <2>1
      <4>2. j # n + 1
        BY <2>6, <4>1
      <4>3. QED
        BY <2>5, <2>6, <4>2
    <3>2. Known(heap, log, deferred, l, deferred[j].event.id, deferred[j].event.val, j - 1)
      BY <1>8, <2>5, <3>1 DEF LInv, EffectsKnown
    <3>3. j - 1 \in Int /\ j - 1 <= j - 1
      BY <2>5
    <3>4. QED
      BY <1>7, <2>7, <2>8, <3>1, <3>2, <3>3, KnownLater
  <2>11. CallKnown(heap', log', deferred', l, r)
    <3> SUFFICES ASSUME NEW k \in DOMAIN objs, k <= at + 1
                 PROVE  Known(heap', log', deferred', l, heap'[objs[k]].id, heap'[objs[k]].val, n + 1)
      BY <2>4, <2>6 DEF CallKnown
    <3>1. CASE k <= at
      <4>1. Known(heap, log, deferred, l, heap[objs[k]].id, heap[objs[k]].val, n)
        BY <1>9, <2>5, <3>1
      <4>2. n \in Int /\ n + 1 \in Int /\ n <= n + 1
        BY <2>5
      <4>3. QED
        BY <1>0, <1>7, <2>7, <2>8, <4>1, <4>2, KnownLater
    <3>2. CASE k = at + 1
      <4>1. WillLog(heap', deferred'[n + 1], heap'[objs[k]].id, heap'[objs[k]].val)
        BY <1>6, <2>1, <2>6, <3>2 DEF WillLog
      <4>2. n + 1 \in DOMAIN deferred' /\ n + 1 <= n + 1
        BY <2>5, <2>6
      <4>3. QED
        BY <4>1, <4>2 DEF Known
    <3>3. QED
      BY <1>6, <3>1, <3>2
  <2>12. \A b \in Call : call'[b] = call[b] \/ CallKnown(heap', log', deferred', l, call'[b])
    BY <1>4, <2>3, <2>11
  <2>13. \A d \in Doc : Logs(log', l, d, mirror'[d])
    BY <1>0, <1>8 DEF LInv
  <2>14. QED
    BY <1>0, <1>8, <2>9, <2>10, <2>12, <2>13, LoggedStep
<1>12. QED
  BY <1>10, <1>11

\* The entry is in the log.
LEMMA LoggedLogs ==
  ASSUME TInv, LInv, NEW c \in Call, Logged(c)
  PROVE  LInv'
<1>0. UNCHANGED <<setup, heap, data, now, deferred, tx, mirror, iter, past>>
  BY DEF Logged
<1> SUFFICES ASSUME "abort" \notin setup.tx PROVE LInv'
  BY <1>0 DEF LInv
<1>1. PICK m : /\ m = Len(heap) /\ m \in Nat /\ now \in Nat
               /\ CallsFit(m, now) /\ WatchersFit(m, now) /\ LogFits(m, now)
  BY Standing
<1>2. /\ call[c].stage = "logging" /\ log' = log \o call[c].entries
      /\ call \in [Call -> Calls(m, now)] /\ call[c] \in Calls(m, now)
      /\ call[c].at < Len(call[c].objs)
  BY <1>1 DEF Logged, CallsFit
<1>3. call[c].objs \in Seq(1 .. m) /\ call[c].at \in Nat /\ call[c].entries \in Seq(Entries(m, now))
  BY <1>2 DEF Calls
<1>4. PICK objs, at, entries :
        /\ objs = call[c].objs /\ at = call[c].at /\ entries = call[c].entries
        /\ at \in Nat /\ at < Len(objs) /\ Len(objs) \in Nat /\ DOMAIN objs = 1 .. Len(objs)
        /\ entries \in Seq(Entries(m, now))
  BY <1>2, <1>3, Elements
<1>5. PICK l : l = Len(setup.loaded)
  OBVIOUS
<1>6. /\ \A k \in DOMAIN objs : k <= at => Known(heap, log, deferred, l, heap[objs[k]].id, heap[objs[k]].val, Len(deferred))
      /\ Len(entries) = 1
      /\ entries[1].id = heap[objs[at + 1]].id /\ entries[1].val = heap[objs[at + 1]].val
  BY <1>2, <1>4, <1>5 DEF LInv, CallKnown
<1>7. /\ log' \in Seq(Entries(m, now)) /\ Len(log') = Len(log) + 1
      /\ \A i \in DOMAIN log : i \in DOMAIN log' /\ log'[i] = log[i]
      /\ Len(log) + 1 \in DOMAIN log' /\ log'[Len(log) + 1] = entries[1]
  <2>1. log \in Seq(Entries(m, now)) /\ log' = log \o entries /\ 1 \in DOMAIN entries
    BY <1>1, <1>2, <1>4, <1>6 DEF LogFits
  <2>2. PICK lg, T : lg = log /\ lg \in Seq(T) /\ entries \in Seq(T) /\ T = Entries(m, now)
    BY <1>4, <2>1
  <2>3. PICK both : both = lg \o entries
    OBVIOUS
  <2>4. /\ both \in Seq(T) /\ Len(both) = Len(lg) + Len(entries)
        /\ \A i \in DOMAIN lg : i \in DOMAIN both /\ both[i] = lg[i]
        /\ \A i \in DOMAIN entries : Len(lg) + i \in DOMAIN both /\ both[Len(lg) + i] = entries[i]
    BY <2>2, <2>3, ConcatIs
  <2>5. QED
    BY <1>6, <2>1, <2>2, <2>3, <2>4
<1>8. Longer(log, log') /\ Longer(deferred, deferred') /\ Len(deferred') \in Nat
  BY <1>0, <1>1, <1>7, Elements DEF LogFits, WatchersFit, Longer
<1>9. HeapStep(m)
  BY <1>0, <1>1, SameHeap
<1>10. /\ Later(Len(heap), heap, log, deferred, l, heap', log', deferred')
       /\ EffectsKnown(heap', log', deferred', l)
  BY <1>0, <1>5, <1>8, <1>9, LaterIs DEF LInv
<1>11. \A d \in Doc : Logs(log', l, d, mirror'[d])
  BY <1>0, <1>5, <1>7 DEF LInv, Logs
<1>12. \A b \in Call : call'[b] = call[b] \/ CallKnown(heap', log', deferred', l, call'[b])
  <2>1. PICK r : r = [call[c] EXCEPT !.stage = "applied", !.at = at + 1, !.entries = <<>>]
    OBVIOUS
  <2>2. r.stage = "applied" /\ r.objs = objs /\ r.at = at + 1
    BY <1>2, <1>4, <2>1 DEF Calls
  <2>3. CallKnown(heap', log', deferred', l, r)
    <3> SUFFICES ASSUME NEW k \in DOMAIN objs, k <= at + 1
                 PROVE  Known(heap', log', deferred', l, heap'[objs[k]].id, heap'[objs[k]].val, Len(deferred'))
      BY <2>2 DEF CallKnown
    <3>1. CASE k <= at
      <4>1. Known(heap, log, deferred, l, heap[objs[k]].id, heap[objs[k]].val, Len(deferred))
        BY <1>6, <3>1
      <4>2. QED
        BY <1>0, <1>10, <4>1 DEF Later
    <3>2. CASE k = at + 1
      BY <1>0, <1>6, <1>7, <3>2 DEF Known, Logs
    <3>3. k \in Int /\ at \in Int
      BY <1>4
    <3>4. k <= at \/ k = at + 1
      BY <3>3
    <3>5. QED
      BY <3>1, <3>2, <3>4
  <2>4. CASE call' = [call EXCEPT ![c] = r]
    BY <1>2, <2>3, <2>4
  <2>5. CASE Ended(c, "failed")
    BY <1>2, <2>5, EndsUnknown
  <2>6. QED
    BY <1>4, <2>1, <2>4, <2>5 DEF Logged
<1>13. QED
  BY <1>0, <1>5, <1>10, <1>11, <1>12, LoggedStep

\* The first effect is dealt with.
LEMMA KnownShifted ==
  ASSUME TInv, heap' = heap, deferred # <<>>, deferred' = Tail(deferred),
         Longer(log, log'),
         \/ Head(deferred).kind = "event"
         \/ /\ Head(deferred).kind = "stamped"
            /\ \E i \in DOMAIN log' : log'[i] = Head(deferred).entry,
         NEW l, NEW d, NEW v, NEW n \in Int, Known(heap, log, deferred, l, d, v, n)
  PROVE  Known(heap', log', deferred', l, d, v, n - 1)
<1>1. deferred \in Seq(Deferred(Len(heap), now))
  BY DEF TInv, Fits, WatchersFit
<1>2. PICK k : k = Len(deferred) /\ k \in Nat /\ DOMAIN deferred = 1 .. k /\ k # 0
  BY <1>1
<1>3. /\ Head(deferred) = deferred[1] /\ DOMAIN deferred' = 1 .. k - 1
      /\ \A i \in 1 .. k - 1 : deferred'[i] = deferred[i + 1]
  BY <1>1, <1>2, HeadIs
<1>4. CASE Logs(log, l, d, v)
  BY <1>4 DEF Known, Logs, Longer
<1>5. ASSUME NEW j \in 1 .. k, j <= n, WillLog(heap, deferred[j], d, v)
      PROVE  Known(heap', log', deferred', l, d, v, n - 1)
  <2>1. CASE j = 1
    <3>1. /\ deferred[1].kind = "stamped" /\ deferred[1].entry.id = d /\ deferred[1].entry.val = v
      BY <1>3, <1>5, <2>1 DEF WillLog
    <3>2. QED
      BY <1>3, <3>1 DEF Known, Logs
  <2>2. CASE j # 1
    <3>1. j - 1 \in 1 .. k - 1 /\ j - 1 <= n - 1 /\ (j - 1) + 1 = j
      BY <1>2, <1>5, <2>2
    <3>2. deferred'[j - 1] = deferred[j]
      BY <1>3, <3>1
    <3>3. WillLog(heap', deferred'[j - 1], d, v)
      BY <1>5, <3>2
    <3>4. QED
      BY <1>3, <3>1, <3>3 DEF Known
  <2>3. QED
    BY <2>1, <2>2
<1>6. QED
  BY <1>2, <1>4, <1>5 DEF Known

LEMMA LaterShifted ==
  ASSUME TInv, heap' = heap, deferred # <<>>, deferred' = Tail(deferred),
         Longer(log, log'),
         \/ Head(deferred).kind = "event"
         \/ /\ Head(deferred).kind = "stamped"
            /\ \E i \in DOMAIN log' : log'[i] = Head(deferred).entry,
         NEW l, EffectsKnown(heap, log, deferred, l)
  PROVE  /\ Later(Len(heap), heap, log, deferred, l, heap', log', deferred')
         /\ EffectsKnown(heap', log', deferred', l)
<1>1. deferred \in Seq(Deferred(Len(heap), now))
  BY DEF TInv, Fits, WatchersFit
<1>2. PICK k : k = Len(deferred) /\ k \in Nat /\ DOMAIN deferred = 1 .. k /\ k # 0
  BY <1>1
<1>3. /\ Len(deferred') = k - 1 /\ DOMAIN deferred' = 1 .. k - 1
      /\ \A i \in 1 .. k - 1 : deferred'[i] = deferred[i + 1]
  BY <1>1, <1>2, HeadIs
<1>4. \A d, v : Known(heap, log, deferred, l, d, v, Len(deferred))
                => Known(heap', log', deferred', l, d, v, Len(deferred'))
  BY <1>2, <1>3, KnownShifted
<1>5. Later(Len(heap), heap, log, deferred, l, heap', log', deferred')
  BY <1>4 DEF Later, Longer
<1>6. EffectsKnown(heap', log', deferred', l)
  <2> SUFFICES ASSUME NEW j \in 1 .. k - 1, deferred'[j].kind = "event",
                      deferred'[j].event.op # "delete"
               PROVE  Known(heap', log', deferred', l, deferred'[j].event.id,
                            deferred'[j].event.val, j - 1)
    BY <1>3 DEF EffectsKnown
  <2>1. deferred'[j] = deferred[j + 1] /\ j + 1 \in 1 .. k /\ (j + 1) - 1 = j /\ j \in Int
    BY <1>2, <1>3
  <2>2. Known(heap, log, deferred, l, deferred[j + 1].event.id, deferred[j + 1].event.val, j)
    BY <1>2, <2>1 DEF EffectsKnown
  <2>3. QED
    BY <2>1, <2>2, KnownShifted
<1>7. QED
  BY <1>5, <1>6

LEMMA FlushEventLogs ==
  ASSUME TInv, LInv, FlushEvent
  PROVE  LInv'
<1>0. /\ UNCHANGED <<setup, heap, data, now, log, call, tx, past>>
      /\ deferred # <<>> /\ Head(deferred).kind = "event" /\ deferred' = Tail(deferred)
      /\ Publish(<<Head(deferred).event>>)
  BY DEF FlushEvent
<1> SUFFICES ASSUME "abort" \notin setup.tx PROVE LInv'
  BY <1>0 DEF LInv
<1>1. PICK m : /\ m = Len(heap) /\ m \in Nat /\ now \in Nat
               /\ WatchersFit(m, now) /\ LogFits(m, now)
  BY Standing
<1>2. PICK l : l = Len(setup.loaded) /\ l \in Nat
  BY Sizes, SetupFields, Elements
<1>3. EffectsKnown(heap, log, deferred, l) /\ \A d \in Doc : Logs(log, l, d, mirror[d])
  BY <1>2 DEF LInv
<1>4. Longer(log, log')
  BY <1>0, <1>1, Elements DEF LogFits, Longer
<1>5. /\ Later(Len(heap), heap, log, deferred, l, heap', log', deferred')
      /\ EffectsKnown(heap', log', deferred', l)
  BY <1>0, <1>3, <1>4, LaterShifted
<1>6. Head(deferred) \in Deferred(m, now) /\ Head(deferred) = deferred[1] /\ 1 \in DOMAIN deferred
  BY <1>0, <1>1, HeadIs DEF WatchersFit
<1>7. PICK e : e = Head(deferred).event /\ e \in Events(m)
  BY <1>0, <1>6 DEF Deferred
<1>8. e.op = "delete" \/ Logs(log, l, e.id, e.val)
  <2>1. e.op # "delete" => Known(heap, log, deferred, l, e.id, e.val, 0)
    BY <1>0, <1>3, <1>6, <1>7 DEF EffectsKnown
  <2>2. \A j \in DOMAIN deferred : ~(j <= 0)
    BY <1>1, Elements DEF WatchersFit
  <2>3. QED
    BY <2>1, <2>2 DEF Known
<1>9. \A d \in Doc : Logs(log', l, d, mirror'[d])
  <2>1. <<e>> \in Seq(Events(m)) /\ DOMAIN <<e>> = {1} /\ <<e>>[1] = e
    BY <1>7
  <2>2. \A d \in Doc : Tells(mirror, <<e>>, d, mirror'[d])
    BY <1>0, <1>1, <1>7, <2>1, Sizes, PublishIs DEF WatchersFit
  <2>3. ASSUME NEW d \in Doc PROVE mirror'[d] = mirror[d] \/ (e.id = d /\ mirror'[d] = Outcome(e))
    BY <2>1, <2>2 DEF Tells, LastOn
  <2>4. 0 \in 0 .. l
    BY <1>2
  <2>5. QED
    BY <1>0, <1>3, <1>8, <2>3, <2>4 DEF Outcome, Logs, Gone
<1>10. QED
  BY <1>0, <1>2, <1>5, <1>9, LoggedStep

LEMMA FlushLoggedLogs ==
  ASSUME TInv, LInv, FlushLogged
  PROVE  LInv'
<1>0. /\ UNCHANGED <<setup, heap, data, now, call, tx, mirror, iter, past>>
      /\ deferred # <<>> /\ Head(deferred).kind = "stamped" /\ deferred' = Tail(deferred)
      /\ log' = Append(log, Head(deferred).entry)
  BY DEF FlushLogged
<1> SUFFICES ASSUME "abort" \notin setup.tx PROVE LInv'
  BY <1>0 DEF LInv
<1>1. PICK m : /\ m = Len(heap) /\ m \in Nat /\ now \in Nat
               /\ WatchersFit(m, now) /\ LogFits(m, now)
  BY Standing
<1>2. PICK l : l = Len(setup.loaded)
  OBVIOUS
<1>3. EffectsKnown(heap, log, deferred, l) /\ \A d \in Doc : Logs(log, l, d, mirror[d])
  BY <1>2 DEF LInv
<1>4. Head(deferred).entry \in Entries(m, now)
  <2>1. Head(deferred) \in Deferred(m, now)
    BY <1>0, <1>1, HeadIs DEF WatchersFit
  <2>2. QED
    BY <1>0, <2>1 DEF Deferred
<1>5. /\ Longer(log, log')
      /\ \E i \in DOMAIN log' : log'[i] = Head(deferred).entry
  <2>1. log \in Seq(Entries(m, now)) /\ Len(log) \in Nat /\ DOMAIN log = 1 .. Len(log)
    BY <1>1 DEF LogFits
  <2>2. PICK e : e = Head(deferred).entry /\ log' = Append(log, e) /\ e \in Entries(m, now)
    BY <1>0, <1>4
  <2>3. /\ Len(log') = Len(log) + 1 /\ DOMAIN log' = 1 .. Len(log) + 1
        /\ log'[Len(log) + 1] = e /\ \A i \in 1 .. Len(log) : log'[i] = log[i]
    BY <2>1, <2>2
  <2>4. QED
    BY <2>1, <2>2, <2>3 DEF Longer
<1>6. /\ Later(Len(heap), heap, log, deferred, l, heap', log', deferred')
      /\ EffectsKnown(heap', log', deferred', l)
  BY <1>0, <1>3, <1>5, LaterShifted
<1>7. \A d \in Doc : Logs(log', l, d, mirror'[d])
  BY <1>0, <1>3, <1>5 DEF Logs, Longer
<1>8. QED
  BY <1>0, <1>2, <1>6, <1>7, LoggedStep

\* The first effect, an entry, is stamped.
LEMMA FlushEntryLogs ==
  ASSUME TInv, LInv, FlushEntry
  PROVE  LInv'
<1> DEFINE e == [kind |-> "stamped", entry |-> Entry(Head(deferred).op, Head(deferred).obj)]
<1>0. /\ UNCHANGED <<setup, heap, data, now, log, call, tx, mirror, iter, past>>
      /\ deferred # <<>> /\ Head(deferred).kind = "entry" /\ deferred' = [deferred EXCEPT ![1] = e]
  BY DEF FlushEntry
<1> SUFFICES ASSUME "abort" \notin setup.tx PROVE LInv'
  BY <1>0 DEF LInv
<1>1. PICK m : /\ m = Len(heap) /\ m \in Nat /\ now \in Nat
               /\ WatchersFit(m, now) /\ LogFits(m, now)
  BY Standing
<1>2. PICK l : l = Len(setup.loaded)
  OBVIOUS
<1>3. EffectsKnown(heap, log, deferred, l) /\ \A d \in Doc : Logs(log, l, d, mirror[d])
  BY <1>2 DEF LInv
<1>4. /\ Head(deferred) = deferred[1] /\ 1 \in DOMAIN deferred
  BY <1>0, <1>1, HeadIs DEF WatchersFit
<1>5. \A d, v : WillLog(heap, deferred[1], d, v) => WillLog(heap, e, d, v)
  BY <1>0, <1>4 DEF WillLog, Entry
<1>6. e.kind # "event"
  OBVIOUS
<1> HIDE DEF e
<1>7. /\ DOMAIN deferred' = DOMAIN deferred /\ Len(deferred') = Len(deferred)
      /\ \A j \in DOMAIN deferred : deferred'[j] = IF j = 1 THEN e ELSE deferred[j]
  BY <1>0, <1>1 DEF WatchersFit
<1>8. ASSUME NEW d, NEW v, NEW n, Known(heap, log, deferred, l, d, v, n)
      PROVE  Known(heap', log', deferred', l, d, v, n)
  BY <1>0, <1>5, <1>7, <1>8 DEF Known
<1>9. Later(Len(heap), heap, log, deferred, l, heap', log', deferred')
  BY <1>0, <1>7, <1>8 DEF Later
<1>10. EffectsKnown(heap', log', deferred', l)
  BY <1>3, <1>6, <1>7, <1>8 DEF EffectsKnown
<1>11. \A d \in Doc : Logs(log', l, d, mirror'[d])
  BY <1>0, <1>3
<1>12. QED
  BY <1>0, <1>2, <1>9, <1>10, <1>11, LoggedStep

LEMMA InitLogs ==
  ASSUME Init
  PROVE  LInv
<1>1. PICK l : /\ l = Len(setup.loaded) /\ l = Len(heap) /\ mirror \in [Doc -> 0 .. l]
  BY InitDocs
<1>2. \A d \in Doc : Logs(log, l, d, mirror[d])
  BY <1>1 DEF Logs
<1>3. EffectsKnown(heap, log, deferred, l)
  BY DEF Init, EffectsKnown
<1>4. \A c \in Call : CallKnown(heap, log, deferred, l, call[c])
  BY DEF Init, CallKnown, NoCall
<1>5. QED
  BY <1>1, <1>2, <1>3, <1>4 DEF LInv

LEMMA NextLogs ==
  ASSUME TInv, LInv, [Next]_vars
  PROVE  LInv'
<1>1. ASSUME NEW c \in Call, Mutate(c) PROVE LInv'
  BY <1>1, InsertLogs, UpdateLogs, DeleteLogs, UndeleteLogs DEF Mutate
<1>2. ASSUME NEW c \in Call, SaveFails(c) \/ Follows(c) \/ Restores(c) PROVE LInv'
  BY <1>2, SaveFailsLogs, LogChangeLogs, LoggedLogs, EmitLogs, ReadLogLogs,
     RestoreAllLogs, RestoreOneLogs DEF Follows, Restores
<1>3. ASSUME NEW c \in Call, NEW docs, Rewind(c, docs) PROVE LInv'
  BY <1>3, RewindLogs
<1>4. CASE Abort \/ FlushEvent \/ FlushEntry \/ FlushLogged
  BY <1>4, AbortLogs, FlushEventLogs, FlushEntryLogs, FlushLoggedLogs
<1>5. CASE \/ \E d \in Doc : Sweep(d)
           \/ Begin \/ Commit \/ FlushEnds \/ Tick \/ Pull \/ Return \/ UNCHANGED vars
  BY <1>5, OthersLog
<1>6. QED
  BY <1>1, <1>2, <1>3, <1>4, <1>5 DEF Next, Effects

LEMMA LogIsAhead ==
  ASSUME LInv
  PROVE  EventsAreLogged
BY DEF LInv, EventsAreLogged, Logs

\* Whoever acts upon an event finds what it tells in the log: the pipeline emits
\* after it logged, and a transaction that is flushed keeps that order, also when
\* calls that began outside it end within it (pipeline.js, transaction.js).
THEOREM EntriesComeFirst == Spec => []EventsAreLogged
<1>1. Init => LInv
  BY InitLogs
<1>2. TInv /\ LInv /\ [Next]_vars => LInv'
  BY NextLogs
<1>3. LInv => EventsAreLogged
  BY LogIsAhead
<1>4. QED
  BY <1>1, <1>2, <1>3, TypesHold, PTL DEF Spec

-----------------------------------------------------------------------------
(* A watcher has the collection.  What a step changes, the call that makes  *)
(* it has yet to publish, or publishes at once; and no other call has these *)
(* documents in its hands, since callers await one another.                 *)

On(x, d) == x.kind = "event" /\ x.event.id = d

\* The last event on d in df brings v, or there is none and the mirror mi has v.
Shows(mi, df, d, v) ==
  \/ (\A j \in DOMAIN df : ~On(df[j], d)) /\ v = mi[d]
  \/ \E j \in DOMAIN df : /\ On(df[j], d) /\ v = Outcome(df[j].event)
                          /\ \A k \in DOMAIN df : k > j => ~On(df[k], d)

Settled(h, s, mi, df, d) == \A v : Shown(h, s, d, v) => Shows(mi, df, d, v)

\* A call that has changed the collection, and has yet to publish the events.
Waits(r) == r.stage \in {"applied", "logging"}

WaitsOn(h, r, d) == Waits(r) /\ \E k \in DOMAIN r.objs : h[r.objs[k]].id = d

\* The collection is as the operation left it, as far as the object o goes.
Made(h, s, op, o) ==
  IF op = "delete" THEN \A i \in DOMAIN s : h[s[i]].id = h[o].id => h[s[i]].deleted
  ELSE ~h[o].deleted /\ \E i \in DOMAIN s : s[i] = o

\* Touched, and InFlight of a call.
Area(cap, docs) == IF docs = <<>> \/ cap > 0 THEN Doc ELSE ToSet(docs)

Flies(r) == r.stage \notin {"idle", "done", "failed"}

Claims(cap, h, s, r) ==
  Waits(r) => /\ \A k \in DOMAIN r.objs : /\ h[r.objs[k]].id \in Area(cap, r.docs)
                                          /\ Made(h, s, r.op, r.objs[k])
              /\ Apart(h, r.objs)

Separate(cap, cl) ==
  \A b, c \in Call :
    Flies(cl[b]) /\ Flies(cl[c]) /\ b # c => Area(cap, cl[b].docs) \cap Area(cap, cl[c].docs) = {}

Rewinds == \E r \in setup.requests : r.op = "rewind"

\* What MirrorAgrees presupposes of a collection.
Followable ==
  /\ setup.serial /\ ~setup.fails /\ setup.expire = {} /\ "abort" \notin setup.tx
  /\ BatchesFit
  /\ EntriesAreCopies \/ ~Rewinds

Following(cap, h, s, cl, mi, df) ==
  /\ Separate(cap, cl)
  /\ \A c \in Call : Claims(cap, h, s, cl[c])
  /\ \A d \in Doc : (\E c \in Call : WaitsOn(h, cl[c], d)) \/ Settled(h, s, mi, df, d)

MInv == Followable => Following(setup.cap, heap, data, call, mirror, deferred)

\* A step leaves alone what there is of d.
Keeps(d) ==
  \A a \in DOMAIN heap' : heap'[a].id = d =>
    /\ a \in ToSet(data') <=> a \in ToSet(data)
    /\ a \in DOMAIN heap => (heap'[a].deleted <=> heap[a].deleted)

LEMMA KeptIsShown ==
  ASSUME TInv, NEW m, HeapStep(m), data' \in Seq(1 .. m), NEW d, Keeps(d)
  PROVE  /\ \A v : Shown(heap', data', d, v) => Shown(heap, data, d, v)
         /\ \A op, o : o \in 1 .. Len(heap) /\ heap[o].id = d /\ Made(heap, data, op, o)
                       => Made(heap', data', op, o)
<1>1. /\ DOMAIN heap = 1 .. Len(heap) /\ DOMAIN heap' = 1 .. m /\ m \in Nat /\ Len(heap) \in Nat
      /\ Len(heap) <= m /\ data \in Seq(1 .. Len(heap))
      /\ \A a \in 1 .. Len(heap) : heap'[a].id = heap[a].id /\ heap'[a].val = heap[a].val
  BY Sizes, Elements DEF HeapStep, TInv, DocsFit
<1>2. /\ \A i \in DOMAIN data : data[i] \in 1 .. Len(heap) /\ data[i] \in ToSet(data)
      /\ \A i \in DOMAIN data' : data'[i] \in 1 .. m /\ data'[i] \in ToSet(data')
      /\ \A a \in ToSet(data) : \E i \in DOMAIN data : data[i] = a
      /\ \A a \in ToSet(data') : \E i \in DOMAIN data' : data'[i] = a
  BY <1>1, Elements DEF ToSet
<1>3. ASSUME NEW i \in DOMAIN data', heap'[data'[i]].id = d
      PROVE  \E j \in DOMAIN data : /\ data[j] = data'[i] /\ data[j] \in 1 .. Len(heap)
                                    /\ heap[data[j]].id = d
                                    /\ heap'[data'[i]].val = heap[data[j]].val
                                    /\ heap'[data'[i]].deleted <=> heap[data[j]].deleted
  <2>1. data'[i] \in ToSet(data)
    BY <1>1, <1>2, <1>3 DEF Keeps
  <2>2. PICK j \in DOMAIN data : data[j] = data'[i]
    BY <1>2, <2>1
  <2>3. data[j] \in DOMAIN heap /\ data[j] \in DOMAIN heap' /\ heap'[data[j]].id = d
    BY <1>1, <1>2, <1>3, <2>2
  <2>4. heap'[data[j]].deleted <=> heap[data[j]].deleted
    BY <2>3 DEF Keeps
  <2>5. data[j] \in 1 .. Len(heap) /\ heap[data[j]].id = d /\ heap'[data[j]].val = heap[data[j]].val
    BY <1>1, <1>2, <2>2, <2>3
  <2>6. QED
    BY <2>2, <2>4, <2>5
<1>4. ASSUME NEW j \in DOMAIN data, heap[data[j]].id = d
      PROVE  \E i \in DOMAIN data' : data'[i] = data[j]
  <2>1. data[j] \in DOMAIN heap' /\ heap'[data[j]].id = d
    BY <1>1, <1>2, <1>4
  <2>2. data[j] \in ToSet(data')
    BY <1>2, <2>1 DEF Keeps
  <2>3. QED
    BY <1>2, <2>2
<1>5. ASSUME NEW v, Shown(heap', data', d, v)
      PROVE  Shown(heap, data, d, v)
  <2>1. ASSUME NEW i \in DOMAIN data', heap'[data'[i]].id = d,
               v = IF heap'[data'[i]].deleted THEN Gone ELSE heap'[data'[i]].val
        PROVE  Shown(heap, data, d, v)
    <3>1. PICK j \in DOMAIN data : /\ heap[data[j]].id = d
                                   /\ heap'[data'[i]].val = heap[data[j]].val
                                   /\ heap'[data'[i]].deleted <=> heap[data[j]].deleted
      BY <1>3, <2>1
    <3>2. v = IF heap[data[j]].deleted THEN Gone ELSE heap[data[j]].val
      BY <2>1, <3>1
    <3>3. QED
      BY <3>1, <3>2 DEF Shown
  <2>2. ASSUME \A i \in DOMAIN data' : heap'[data'[i]].id # d, v = Gone
        PROVE  Shown(heap, data, d, v)
    <3>1. ASSUME NEW j \in DOMAIN data, heap[data[j]].id = d
          PROVE  FALSE
      <4>1. PICK i \in DOMAIN data' : data'[i] = data[j]
        BY <1>4, <3>1
      <4>2. heap'[data[j]].id = d
        BY <1>1, <1>2, <3>1
      <4>3. QED
        BY <2>2, <4>1, <4>2
    <3>2. QED
      BY <2>2, <3>1 DEF Shown
  <2>3. QED
    BY <1>5, <2>1, <2>2 DEF Shown
<1>6. ASSUME NEW op, NEW o \in 1 .. Len(heap), heap[o].id = d, Made(heap, data, op, o)
      PROVE  Made(heap', data', op, o)
  <2>0. heap'[o].id = d /\ o \in DOMAIN heap' /\ o \in DOMAIN heap
    BY <1>1, <1>6
  <2>1. CASE op = "delete"
    <3>1. ASSUME NEW i \in DOMAIN data', heap'[data'[i]].id = heap'[o].id
          PROVE  heap'[data'[i]].deleted
      <4>1. PICK j \in DOMAIN data : /\ heap[data[j]].id = d
                                     /\ heap'[data'[i]].deleted <=> heap[data[j]].deleted
        BY <1>3, <2>0, <3>1
      <4>2. QED
        BY <1>6, <2>1, <4>1 DEF Made
    <3>2. QED
      BY <2>1, <3>1 DEF Made
  <2>2. CASE op # "delete"
    <3>1. PICK j \in DOMAIN data : data[j] = o
      BY <1>6, <2>2 DEF Made
    <3>2. PICK i \in DOMAIN data' : data'[i] = o
      BY <1>4, <1>6, <3>1
    <3>3. ~heap'[o].deleted
      BY <1>6, <2>0, <2>2 DEF Made, Keeps
    <3>4. QED
      BY <2>2, <3>2, <3>3 DEF Made
  <2>3. QED
    BY <2>1, <2>2
<1>7. QED
  BY <1>5, <1>6

LEMMA SameArea ==
  ASSUME NEW d
  PROVE  /\ \A docs : Touched(docs) = Area(setup.cap, docs)
         /\ \A c : InFlight(c) <=> Flies(call[c])
         /\ Followable /\ setup' = setup => Followable'
         /\ setup' = setup => (Followable' => Followable)
BY DEF Touched, Area, InFlight, Flies, Followable, BatchesFit, EntriesAreCopies, Rewinds

\* What the call of a step holds: what it held, or what nobody else does.
Holding(c) ==
  /\ Claims(setup.cap, heap', data', call'[c])
  /\ Flies(call'[c]) =>
       \/ Flies(call[c]) /\ call'[c].docs = call[c].docs
       \/ \A b \in Call : b # c /\ Flies(call[b]) =>
            Area(setup.cap, call[b].docs) \cap Area(setup.cap, call'[c].docs) = {}

\* A step of c that concerns the documents D, and nothing else.
LEMMA Moves ==
  ASSUME TInv, MInv, Followable, setup' = setup, NEW m, HeapStep(m), data' \in Seq(1 .. m),
         NEW c, NEW D, \A d \in Doc \ D : Keeps(d),
         \A d \in Doc \ D : \A v : Shows(mirror, deferred, d, v) => Shows(mirror', deferred', d, v),
         \A b \in Call : b # c =>
           /\ call'[b] = call[b]
           /\ Waits(call[b]) => Area(setup.cap, call[b].docs) \cap D = {},
         c \in Call => Holding(c),
         \A d \in Doc \cap D : \/ c \in Call /\ WaitsOn(heap', call'[c], d)
                               \/ Settled(heap', data', mirror', deferred', d),
         \A d \in Doc \ D : c \in Call /\ WaitsOn(heap, call[c], d) => WaitsOn(heap', call'[c], d)
  PROVE  MInv'
<1>1. Following(setup.cap, heap, data, call, mirror, deferred)
  BY DEF MInv
<1>2. Separate(setup.cap, call')
  <2> SUFFICES ASSUME NEW a \in Call, NEW b \in Call, Flies(call'[a]), Flies(call'[b]), a # b
               PROVE  Area(setup.cap, call'[a].docs) \cap Area(setup.cap, call'[b].docs) = {}
    BY DEF Separate
  <2>1. \A e, f \in Call : Flies(call[e]) /\ Flies(call[f]) /\ e # f =>
          Area(setup.cap, call[e].docs) \cap Area(setup.cap, call[f].docs) = {}
    BY <1>1 DEF Following, Separate
  <2>2. CASE a # c /\ b # c
    BY <2>1, <2>2
  <2>3. CASE a = c
    <3>1. call'[b] = call[b]
      BY <2>3
    <3>2. QED
      BY <2>1, <2>3, <3>1 DEF Holding
  <2>4. CASE b = c
    <3>1. call'[a] = call[a]
      BY <2>4
    <3>2. QED
      BY <2>1, <2>4, <3>1 DEF Holding
  <2>5. QED
    BY <2>2, <2>3, <2>4
<1>3. ASSUME NEW b \in Call, b # c, Waits(call[b]), NEW k \in DOMAIN call[b].objs
      PROVE  /\ call'[b] = call[b] /\ call[b].objs[k] \in 1 .. Len(heap)
             /\ heap'[call[b].objs[k]].id = heap[call[b].objs[k]].id
             /\ heap[call[b].objs[k]].id \in Area(setup.cap, call[b].docs)
             /\ heap[call[b].objs[k]].id \in Doc \ D
             /\ Made(heap, data, call[b].op, call[b].objs[k])
  <2>1. call[b].objs \in Seq(1 .. Len(heap)) /\ call[b].docs \in Seq(Doc)
    BY DEF TInv, Fits, CallsFit, Calls
  <2>2. call[b].objs[k] \in 1 .. Len(heap)
    BY <2>1, Elements
  <2>3. Area(setup.cap, call[b].docs) \subseteq Doc
    BY <2>1, Elements DEF Area, ToSet
  <2>4. Claims(setup.cap, heap, data, call[b])
    BY <1>1 DEF Following
  <2>5. /\ heap[call[b].objs[k]].id \in Area(setup.cap, call[b].docs)
        /\ Made(heap, data, call[b].op, call[b].objs[k])
    BY <1>3, <2>4 DEF Claims
  <2>6. Area(setup.cap, call[b].docs) \cap D = {}
    BY <1>3
  <2>7. QED
    BY <1>3, <2>2, <2>3, <2>5, <2>6 DEF HeapStep
<1>4. ASSUME NEW b \in Call
      PROVE  Claims(setup.cap, heap', data', call'[b])
  <2>1. CASE b = c
    BY <2>1 DEF Holding
  <2>2. CASE b # c
    <3> SUFFICES ASSUME Waits(call[b]) PROVE Claims(setup.cap, heap', data', call[b])
      BY <2>2 DEF Claims
    <3>1. ASSUME NEW k \in DOMAIN call[b].objs
          PROVE  /\ heap'[call[b].objs[k]].id \in Area(setup.cap, call[b].docs)
                 /\ Made(heap', data', call[b].op, call[b].objs[k])
      <4>1. Keeps(heap[call[b].objs[k]].id)
        BY <1>3, <2>2
      <4>2. QED
        BY <1>3, <2>2, <4>1, KeptIsShown
    <3>2. Apart(heap', call[b].objs)
      <4>1. Apart(heap, call[b].objs)
        BY <1>1 DEF Following, Claims
      <4>2. QED
        BY <1>3, <2>2, <4>1 DEF Apart
    <3>3. QED
      BY <3>1, <3>2 DEF Claims
  <2>3. QED
    BY <2>1, <2>2
<1>5. ASSUME NEW d \in Doc
      PROVE  \/ \E b \in Call : WaitsOn(heap', call'[b], d)
             \/ Settled(heap', data', mirror', deferred', d)
  <2>1. CASE d \in D
    BY <2>1
  <2>2. CASE d \notin D
    <3>1. CASE Settled(heap, data, mirror, deferred, d)
      <4>1. \A v : Shown(heap', data', d, v) => Shown(heap, data, d, v)
        BY <2>2, KeptIsShown
      <4>2. QED
        BY <2>2, <3>1, <4>1 DEF Settled
    <3>2. ASSUME NEW b \in Call, WaitsOn(heap, call[b], d)
          PROVE  WaitsOn(heap', call'[b], d)
      <4>1. CASE b = c
        BY <2>2, <3>2, <4>1
      <4>2. CASE b # c
        BY <1>3, <3>2, <4>2 DEF WaitsOn
      <4>3. QED
        BY <4>1, <4>2
    <3>3. QED
      BY <1>1, <3>1, <3>2 DEF Following
  <2>3. QED
    BY <2>1, <2>2
<1>6. QED
  BY <1>2, <1>4, <1>5 DEF MInv, Following

\* What emit() of events, or their deferral, does to what a watcher will have.
LEMMA EmitShows ==
  ASSUME TInv, NEW m, HeapStep(m), NEW events \in Seq(Events(m)), EmitEvents(events),
         NEW d \in Doc
  PROVE  /\ \A v : (\A j \in DOMAIN events : events[j].id # d) /\ Shows(mirror, deferred, d, v)
                   => Shows(mirror', deferred', d, v)
         /\ \A j : LastOn(events, d, j) => Shows(mirror', deferred', d, Outcome(events[j]))
<1>1. /\ deferred \in Seq(Deferred(Len(heap), now))
      /\ tx = "none" => deferred = <<>>
  BY DEF TInv, Fits, WatchersFit
<1>2. CASE tx = "none"
  <2>1. Publish(events) /\ deferred' = <<>> /\ deferred = <<>> /\ DOMAIN deferred = {}
    BY <1>1, <1>2 DEF EmitEvents
  <2>2. Tells(mirror, events, d, mirror'[d])
    BY <2>1, PublishTells
  <2>3. \A v : Shows(mirror, deferred, d, v) => v = mirror[d]
    BY <2>1 DEF Shows
  <2>4. \A v : v = mirror'[d] => Shows(mirror', deferred', d, v)
    BY <2>1 DEF Shows
  <2>5. (\A j \in DOMAIN events : events[j].id # d) => mirror'[d] = mirror[d]
    BY <2>2 DEF Tells, LastOn
  <2>6. ASSUME NEW j, LastOn(events, d, j)
        PROVE  mirror'[d] = Outcome(events[j])
    <3>1. PICK i \in DOMAIN events : LastOn(events, d, i) /\ mirror'[d] = Outcome(events[i])
      BY <2>2, <2>6 DEF Tells, LastOn
    <3>2. j \in Nat /\ i \in Nat /\ j \in DOMAIN events
      BY <2>6, Elements DEF LastOn
    <3>3. i = j
      BY <2>6, <3>1, <3>2 DEF LastOn
    <3>4. QED
      BY <3>1, <3>3
  <2>7. QED
    BY <2>3, <2>4, <2>5, <2>6
<1>3. CASE tx # "none"
  <2>1. /\ mirror' = mirror
        /\ Len(deferred) \in Nat /\ DOMAIN deferred = 1 .. Len(deferred)
        /\ DOMAIN events = 1 .. Len(events) /\ Len(events) \in Nat
        /\ \A i \in DOMAIN deferred : i \in DOMAIN deferred' /\ deferred'[i] = deferred[i]
        /\ \A i \in DOMAIN events :
             /\ Len(deferred) + i \in DOMAIN deferred'
             /\ deferred'[Len(deferred) + i].kind = "event"
             /\ deferred'[Len(deferred) + i].event = events[i]
        /\ \A i \in DOMAIN deferred' :
             (i \in DOMAIN deferred /\ deferred'[i] = deferred[i])
             \/ \E j \in DOMAIN events : i = Len(deferred) + j
    BY <1>3, DeferIs
  <2>2. \A j \in DOMAIN events : On(deferred'[Len(deferred) + j], d) <=> events[j].id = d
    BY <2>1 DEF On
  <2>3. ASSUME NEW v, \A j \in DOMAIN events : events[j].id # d, Shows(mirror, deferred, d, v)
        PROVE  Shows(mirror', deferred', d, v)
    <3>1. \A i \in DOMAIN deferred' : On(deferred'[i], d) => i \in DOMAIN deferred /\ On(deferred[i], d)
      BY <2>1, <2>2, <2>3
    <3>2. CASE (\A j \in DOMAIN deferred : ~On(deferred[j], d)) /\ v = mirror[d]
      BY <2>1, <3>1, <3>2 DEF Shows
    <3>3. ASSUME NEW j \in DOMAIN deferred, On(deferred[j], d), v = Outcome(deferred[j].event),
                 \A k \in DOMAIN deferred : k > j => ~On(deferred[k], d)
          PROVE  Shows(mirror', deferred', d, v)
      <4>1. j \in DOMAIN deferred' /\ deferred'[j] = deferred[j]
        BY <2>1, <3>3
      <4>2. \A k \in DOMAIN deferred' : k > j => ~On(deferred'[k], d)
        BY <2>1, <3>1, <3>3
      <4>3. QED
        BY <3>3, <4>1, <4>2 DEF Shows
    <3>4. QED
      BY <2>3, <3>2, <3>3 DEF Shows
  <2>4. ASSUME NEW j, LastOn(events, d, j)
        PROVE  Shows(mirror', deferred', d, Outcome(events[j]))
    <3>1. /\ j \in DOMAIN events /\ events[j].id = d
          /\ \A k \in DOMAIN events : k > j => events[k].id # d
      BY <2>4 DEF LastOn
    <3>2. PICK i : i = Len(deferred) + j /\ i \in DOMAIN deferred'
      BY <2>1, <3>1
    <3>3. On(deferred'[i], d) /\ deferred'[i].event = events[j]
      BY <2>1, <2>2, <3>1, <3>2
    <3>4. ASSUME NEW k \in DOMAIN deferred', k > i PROVE ~On(deferred'[k], d)
      <4>1. k \notin DOMAIN deferred
        BY <2>1, <3>1, <3>2, <3>4
      <4>2. PICK e \in DOMAIN events : k = Len(deferred) + e
        BY <2>1, <4>1
      <4>3. e > j
        BY <2>1, <3>1, <3>2, <3>4, <4>2
      <4>4. QED
        BY <2>2, <3>1, <4>2, <4>3
    <3>5. QED
      BY <3>2, <3>3, <3>4 DEF Shows
  <2>5. QED
    BY <2>3, <2>4
<1>4. QED
  BY <1>2, <1>3

\* Where there is one event of each document, it is the last one.
LEMMA OnlyOne ==
  ASSUME NEW events, NEW j \in DOMAIN events,
         \A i \in DOMAIN events : events[i].id = events[j].id => i = j,
         \A i \in DOMAIN events : i \in Nat
  PROVE  LastOn(events, events[j].id, j)
BY DEF LastOn

\* A call that starts, on the documents D or some of them.
LEMMA StartsWaiting ==
  ASSUME TInv, MInv, Followable, setup' = setup, NEW m, HeapStep(m), data' \in Seq(1 .. m),
         NEW c \in Call, NEW op, NEW docs, MayStart(c, op, docs), NEW objs,
         Started(c, "applied", op, docs, objs),
         NEW D \in SUBSET Area(setup.cap, docs), \A d \in Doc \ D : Keeps(d),
         \A d \in Doc \ D : \A v : Shows(mirror, deferred, d, v) => Shows(mirror', deferred', d, v),
         \A k \in DOMAIN objs : /\ heap'[objs[k]].id \in D
                                /\ Made(heap', data', op, objs[k]),
         Apart(heap', objs),
         \A d \in Doc \cap D : \/ \E k \in DOMAIN objs : heap'[objs[k]].id = d
                               \/ Settled(heap', data', mirror', deferred', d)
  PROVE  MInv'
<1>1. PICK r : r = [NoCall EXCEPT !.stage = "applied", !.op = op, !.docs = docs, !.objs = objs]
  OBVIOUS
<1>2. r.stage = "applied" /\ r.op = op /\ r.docs = docs /\ r.objs = objs
  BY <1>1 DEF NoCall
<1>3. call' = [call EXCEPT ![c] = r] /\ DOMAIN call = Call
  BY <1>1 DEF Started, TInv, Fits, CallsFit
<1>4. call'[c] = r /\ \A b \in Call : b # c => call'[b] = call[b]
  BY <1>3
<1>5. /\ call[c].stage = "idle"
      /\ \A b \in Call : Flies(call[b]) => Area(setup.cap, call[b].docs) \cap Area(setup.cap, docs) = {}
  BY SameArea DEF MayStart, Followable
<1>6. Claims(setup.cap, heap', data', call'[c])
  BY <1>2, <1>4 DEF Claims
<1>7. Holding(c)
  BY <1>2, <1>4, <1>5, <1>6 DEF Holding
<1>8. \A b \in Call : Waits(call[b]) => Area(setup.cap, call[b].docs) \cap D = {}
  BY <1>5 DEF Waits, Flies
<1>9. \A d \in Doc \cap D : \/ WaitsOn(heap', call'[c], d)
                            \/ Settled(heap', data', mirror', deferred', d)
  BY <1>2, <1>4 DEF WaitsOn, Waits
<1>10. \A d : ~WaitsOn(heap, call[c], d)
  BY <1>5 DEF WaitsOn, Waits
<1>11. QED
  BY <1>4, <1>7, <1>8, <1>9, <1>10, Moves

\* A call that ends, and has published what it did to the documents D.
LEMMA EndsSettled ==
  ASSUME TInv, MInv, Followable, setup' = setup, NEW m, HeapStep(m), data' \in Seq(1 .. m),
         NEW c \in Call, Ended(c, "done"), Flies(call[c]),
         NEW D \in SUBSET Area(setup.cap, call[c].docs), \A d \in Doc \ D : Keeps(d),
         \A d \in Doc \ D : \A v : Shows(mirror, deferred, d, v) => Shows(mirror', deferred', d, v),
         \A d \in Doc \cap D : Settled(heap', data', mirror', deferred', d),
         \A d \in Doc \ D : ~WaitsOn(heap, call[c], d)
  PROVE  MInv'
<1>1. PICK r : r = [NoCall EXCEPT !.stage = "done", !.until = call[c].until]
  OBVIOUS
<1>2. r.stage = "done"
  BY <1>1 DEF NoCall
<1>3. call' = [call EXCEPT ![c] = r] /\ DOMAIN call = Call
  BY <1>1 DEF Ended, TInv, Fits, CallsFit
<1>4. call'[c] = r /\ \A b \in Call : b # c => call'[b] = call[b]
  BY <1>3
<1>5. Holding(c)
  BY <1>2, <1>4 DEF Holding, Claims, Waits, Flies
<1>6. \A b \in Call : b # c /\ Waits(call[b]) => Area(setup.cap, call[b].docs) \cap D = {}
  BY DEF MInv, Following, Separate, Waits, Flies
<1>7. QED
  BY <1>4, <1>5, <1>6, Moves

\* A step that changes neither the collection nor what a watcher will have, and
\* leaves a call that waits with what it waits for.
LEMMA StaysSettled ==
  ASSUME TInv, MInv, Followable, setup' = setup, heap' = heap, data' = data,
         \A d \in Doc : \A v : Shows(mirror, deferred, d, v) => Shows(mirror', deferred', d, v),
         NEW c, \A b \in Call : b # c => call'[b] = call[b],
         c \in Call => /\ Waits(call'[c]) <=> Waits(call[c])
                       /\ Flies(call'[c]) <=> Flies(call[c])
                       /\ call'[c].docs = call[c].docs
                       /\ Waits(call[c]) => call'[c].op = call[c].op /\ call'[c].objs = call[c].objs
  PROVE  MInv'
<1>1. PICK m : m = Len(heap) /\ HeapStep(m) /\ data' \in Seq(1 .. m)
  BY SameHeap DEF TInv, DocsFit
<1>2. PICK D : D = {}
  OBVIOUS
<1>3. c \in Call => Claims(setup.cap, heap, data, call[c])
  BY DEF MInv, Following
<1>4. c \in Call => Holding(c)
  BY <1>3 DEF Holding, Claims
<1>5. \A d \in Doc : c \in Call /\ WaitsOn(heap, call[c], d) => WaitsOn(heap', call'[c], d)
  BY DEF WaitsOn
<1>6. /\ \A d \in Doc \ D : Keeps(d)
      /\ \A b \in Call : Area(setup.cap, call[b].docs) \cap D = {}
  BY <1>2 DEF Keeps
<1>7. QED
  BY <1>1, <1>2, <1>4, <1>5, <1>6, Moves

\* Documents of a request are documents that the call touches.
LEMMA RequestArea ==
  ASSUME NEW docs \in Seq(Doc), NEW cap
  PROVE  ToSet(docs) \subseteq Area(cap, docs) /\ Area(cap, docs) \subseteq Doc
<1>1. ToSet(docs) \subseteq Doc
  BY Elements DEF ToSet
<1>2. QED
  BY <1>1 DEF Area

\* Nothing is published.
LEMMA StillShows ==
  ASSUME UNCHANGED <<mirror, deferred>>
  PROVE  \A d, v : Shows(mirror, deferred, d, v) => Shows(mirror', deferred', d, v)
OBVIOUS

LEMMA UpdateMirrors ==
  ASSUME TInv, MInv, Followable, NEW c \in Call, NEW docs, Update(c, docs)
  PROVE  MInv'
<1>1. PICK found, m : Updated(c, docs, found, m)
  BY UpdateIs
<1>2. /\ docs \in Seq(Doc) /\ found \in Seq(Doc) /\ IsInjective(found) /\ Makes(found, m)
      /\ ToSet(found) = ToSet(docs) \intersect {d \in Doc : Visible(d) # Gone}
      /\ data' \in Seq(1 .. m) /\ DOMAIN data' = DOMAIN data
      /\ \A i \in DOMAIN data :
           IF heap[data[i]].id \in ToSet(found)
           THEN \E j \in DOMAIN found : found[j] = heap[data[i]].id /\ data'[i] = Len(heap) + j
           ELSE data'[i] = data[i]
      /\ Started(c, "applied", "update", docs, Addresses(found))
  BY <1>1 DEF Updated
<1>3. PICK objs, D : objs = Addresses(found) /\ D = ToSet(found)
  OBVIOUS
<1>4. /\ HeapStep(m) /\ m \in Nat /\ Len(heap) \in Nat /\ DOMAIN heap = 1 .. Len(heap)
      /\ DOMAIN heap' = 1 .. m /\ m = Len(heap) + Len(found)
      /\ \A a \in 1 .. Len(heap) : heap'[a] = heap[a]
      /\ DOMAIN objs = DOMAIN found /\ DOMAIN found = 1 .. Len(found) /\ Len(found) \in Nat
      /\ \A i \in DOMAIN found : /\ objs[i] = Len(heap) + i /\ objs[i] \notin 1 .. Len(heap)
                                 /\ heap'[Len(heap) + i].id = found[i]
                                 /\ ~heap'[Len(heap) + i].deleted
      /\ \A i \in DOMAIN data : data[i] \in 1 .. Len(heap)
      /\ \A i, j \in DOMAIN found : found[i] = found[j] => i = j
  <2>1. HeapStep(m) /\ m = Len(heap) + Len(found) /\ heap' \in Seq(Objects(m)) /\ Len(heap') = m
    BY <1>2 DEF Makes, HeapStep
  <2>2. Len(heap) \in Nat /\ DOMAIN heap = 1 .. Len(heap) /\ data \in Seq(1 .. Len(heap))
    BY Sizes DEF TInv, DocsFit
  <2>3. /\ \A i \in DOMAIN data : data[i] \in 1 .. Len(heap)
        /\ DOMAIN found = 1 .. Len(found) /\ Len(found) \in Nat
        /\ DOMAIN heap' = 1 .. m /\ m \in Nat
    BY <1>2, <2>1, <2>2, Elements
  <2>4. /\ \A a \in 1 .. Len(heap) : heap'[a] = heap[a]
        /\ DOMAIN objs = DOMAIN found
        /\ \A i \in DOMAIN found : /\ objs[i] = Len(heap) + i /\ objs[i] \notin 1 .. Len(heap)
                                   /\ heap'[Len(heap) + i].id = found[i]
                                   /\ ~heap'[Len(heap) + i].deleted
    BY <1>2, <1>3 DEF Makes
  <2>5. \A i, j \in DOMAIN found : found[i] = found[j] => i = j
    BY <1>2 DEF IsInjective
  <2>6. QED
    BY <2>1, <2>2, <2>3, <2>4, <2>5
<1>5. ASSUME NEW d \in Doc \ D PROVE Keeps(d)
  <2> SUFFICES ASSUME NEW a \in DOMAIN heap', heap'[a].id = d
               PROVE  /\ a \in ToSet(data') <=> a \in ToSet(data)
                      /\ a \in DOMAIN heap => (heap'[a].deleted <=> heap[a].deleted)
    BY DEF Keeps
  <2>1. a \in 1 .. Len(heap)
    <3> SUFFICES ASSUME a \notin 1 .. Len(heap) PROVE FALSE
      OBVIOUS
    <3>1. PICK i : i = a - Len(heap) /\ i \in DOMAIN found /\ Len(heap) + i = a
      BY <1>4
    <3>2. found[i] \in D
      BY <1>3, <3>1 DEF ToSet
    <3>3. QED
      BY <1>4, <1>5, <3>1, <3>2
  <2>2. heap'[a] = heap[a] /\ heap[a].id \notin D
    BY <1>4, <1>5, <2>1
  <2>3. ASSUME NEW i \in DOMAIN data PROVE data'[i] = a <=> data[i] = a
    <3>1. CASE heap[data[i]].id \in D
      <4>1. data'[i] \notin 1 .. Len(heap)
        BY <1>2, <1>3, <1>4, <3>1
      <4>2. QED
        BY <2>1, <2>2, <3>1, <4>1
    <3>2. CASE heap[data[i]].id \notin D
      BY <1>2, <1>3, <3>2
    <3>3. QED
      BY <3>1, <3>2
  <2>4. QED
    BY <1>2, <2>2, <2>3 DEF ToSet
<1>6. ASSUME NEW k \in DOMAIN objs
      PROVE  heap'[objs[k]].id \in D /\ heap'[objs[k]].id = found[k] /\ Made(heap', data', "update", objs[k])
  <2>1. heap'[objs[k]].id = found[k] /\ ~heap'[objs[k]].deleted /\ found[k] \in D
    BY <1>3, <1>4 DEF ToSet
  <2>2. found[k] \in Doc /\ Visible(found[k]) # Gone
    BY <1>2, <1>3, <2>1
  <2>3. Holds(found[k])
    BY <2>2 DEF Visible
  <2>4. PICK i \in DOMAIN data : heap[data[i]].id = found[k]
    BY <2>3 DEF Holds
  <2>5. PICK j \in DOMAIN found : found[j] = found[k] /\ data'[i] = Len(heap) + j
    BY <1>2, <1>3, <2>1, <2>4
  <2>6. j = k
    BY <1>4, <2>5
  <2>7. data'[i] = objs[k] /\ i \in DOMAIN data'
    BY <1>2, <1>4, <2>5, <2>6
  <2>8. QED
    BY <2>1, <2>7 DEF Made
<1>7. Apart(heap', objs)
  BY <1>4, <1>6 DEF Apart
<1>8. \A d \in Doc \cap D : \E k \in DOMAIN objs : heap'[objs[k]].id = d
  BY <1>3, <1>4, <1>6 DEF ToSet
<1>9. MayStart(c, "update", docs) /\ UNCHANGED <<setup, mirror, deferred>>
      /\ Started(c, "applied", "update", docs, objs)
  BY <1>2, <1>3 DEF Update
<1>10. D \in SUBSET Area(setup.cap, docs)
  BY <1>2, <1>3, RequestArea
<1>11. /\ \A k \in DOMAIN objs : heap'[objs[k]].id \in D /\ Made(heap', data', "update", objs[k])
       /\ \A d \in Doc \ D : \A v : Shows(mirror, deferred, d, v) => Shows(mirror', deferred', d, v)
       /\ HeapStep(m) /\ data' \in Seq(1 .. m) /\ setup' = setup
  BY <1>2, <1>4, <1>6, <1>9, StillShows
<1>12. QED
  BY <1>5, <1>7, <1>8, <1>9, <1>10, <1>11, StartsWaiting

LEMMA DeleteMirrors ==
  ASSUME TInv, MInv, Followable, NEW c \in Call, NEW docs, Delete(c, docs)
  PROVE  MInv'
<1>1. PICK found, objs : Deleted(c, docs, found, objs)
  BY DeleteIs
<1>2. PICK D, m : D = ToSet(found) /\ m = Len(heap)
  OBVIOUS
<1>3. /\ docs \in Seq(Doc) /\ found \in Seq(Doc) /\ IsInjective(found)
      /\ D \subseteq ToSet(docs)
      /\ objs \in Seq(1 .. m) /\ DOMAIN objs = DOMAIN found
      /\ HeapStep(m) /\ data' \in Seq(1 .. m)
      /\ IF setup.soft
         THEN /\ \A a \in 1 .. m : heap'[a].deleted <=> heap[a].deleted \/ a \in ToSet(objs)
              /\ data' = data
         ELSE heap' = heap /\ ToSet(data') = ToSet(data) \ ToSet(objs)
      /\ Started(c, "applied", "delete", docs, objs)
  BY <1>1, <1>2 DEF Deleted
<1>4. /\ m \in Nat /\ DOMAIN heap = 1 .. m /\ DOMAIN heap' = 1 .. m /\ data \in Seq(1 .. m)
      /\ \A a \in 1 .. m : heap'[a].id = heap[a].id
      /\ \A k \in DOMAIN objs : objs[k] \in 1 .. m /\ objs[k] \in ToSet(objs)
      /\ \A k \in DOMAIN found : found[k] \in D
  <2>1. heap' \in Seq(Objects(m)) /\ Len(heap') = m /\ m \in Nat
        /\ \A a \in 1 .. m : heap'[a].id = heap[a].id
    BY <1>2, <1>3 DEF HeapStep
  <2>2. DOMAIN heap = 1 .. m /\ data \in Seq(1 .. m)
    BY <1>2, Sizes DEF TInv, DocsFit
  <2>3. QED
    BY <1>2, <1>3, <2>1, <2>2, Elements DEF ToSet
<1>5. ASSUME NEW k \in DOMAIN objs
      PROVE  /\ objs[k] \in ToSet(data) /\ heap[objs[k]].id = found[k]
             /\ heap'[objs[k]].id = found[k] /\ found[k] \in D
  BY <1>1, <1>3, <1>4 DEF Deleted
<1>6. \A a \in ToSet(objs) : heap[a].id \in D
  BY <1>5 DEF ToSet
<1>7. ASSUME NEW d \in Doc \ D PROVE Keeps(d)
  <2> SUFFICES ASSUME NEW a \in 1 .. m, heap'[a].id = d
               PROVE  /\ a \in ToSet(data') <=> a \in ToSet(data)
                      /\ heap'[a].deleted <=> heap[a].deleted
    BY <1>4 DEF Keeps
  <2>1. a \notin ToSet(objs)
    BY <1>4, <1>6, <1>7
  <2>2. QED
    BY <1>3, <2>1
<1>8. ASSUME NEW k \in DOMAIN objs, NEW i \in DOMAIN data', heap'[data'[i]].id = heap'[objs[k]].id
      PROVE  heap'[data'[i]].deleted
  <2>1. \A a, b \in ToSet(data) : heap[a].id = heap[b].id => a = b
    BY ApartIs DEF TInv, DocsFit
  <2>2. data'[i] \in 1 .. m /\ data'[i] \in ToSet(data')
    BY <1>3, Elements DEF ToSet
  <2>3. CASE setup.soft
    <3>1. data'[i] = objs[k]
      <4>1. data'[i] \in ToSet(data) /\ objs[k] \in ToSet(data) /\ objs[k] \in 1 .. m
        BY <1>3, <1>4, <1>5, <2>2, <2>3
      <4>2. heap[data'[i]].id = heap[objs[k]].id
        BY <1>4, <1>8, <2>2, <4>1
      <4>3. QED
        BY <2>1, <4>1, <4>2
    <3>2. QED
      BY <1>3, <1>4, <2>3, <3>1
  <2>4. CASE ~setup.soft
    <3>1. data'[i] \in ToSet(data) /\ data'[i] \notin ToSet(objs)
      BY <1>3, <2>2, <2>4
    <3>2. heap[data'[i]].id = heap[objs[k]].id
      BY <1>4, <1>8, <2>2
    <3>3. QED
      BY <1>4, <1>5, <2>1, <3>1, <3>2
  <2>5. QED
    BY <2>3, <2>4
<1>9. \A k \in DOMAIN objs : heap'[objs[k]].id \in D /\ Made(heap', data', "delete", objs[k])
  BY <1>5, <1>8 DEF Made
<1>10. Apart(heap', objs)
  <2>1. \A i, j \in DOMAIN found : found[i] = found[j] => i = j
    BY <1>3 DEF IsInjective
  <2>2. QED
    BY <1>3, <1>5, <2>1 DEF Apart
<1>11. ASSUME NEW d \in Doc \cap D PROVE \E k \in DOMAIN objs : heap'[objs[k]].id = d
  <2>1. PICK k \in DOMAIN found : found[k] = d
    BY <1>2, <1>11 DEF ToSet
  <2>2. QED
    BY <1>3, <1>5, <2>1
<1>12. MayStart(c, "delete", docs) /\ UNCHANGED <<setup, mirror, deferred>>
  BY DEF Delete
<1>13. /\ \A d \in Doc \ D : \A v : Shows(mirror, deferred, d, v) => Shows(mirror', deferred', d, v)
       /\ D \in SUBSET Area(setup.cap, docs) /\ setup' = setup
  BY <1>3, <1>12, StillShows, RequestArea
<1>14. QED
  BY <1>3, <1>7, <1>9, <1>10, <1>11, <1>12, <1>13, StartsWaiting

LEMMA UndeleteMirrors ==
  ASSUME TInv, MInv, Followable, NEW c \in Call, NEW docs, Undelete(c, docs)
  PROVE  MInv'
<1>1. PICK d, o, m : d = docs[1] /\ o = Address(d) /\ m = Len(heap)
  OBVIOUS
<1>2. /\ MayStart(c, "restore", docs) /\ Holds(d)
      /\ heap' = [heap EXCEPT ![o].deleted = FALSE]
      /\ Started(c, "applied", "restore", docs, <<o>>)
      /\ UNCHANGED <<setup, data, mirror, deferred>>
  BY <1>1 DEF Undelete
<1>3. HeapStep(m)
  BY <1>1, UndeleteTypes
<1>4. o \in ToSet(data) /\ o \in 1 .. m /\ heap[o].id = d /\ d \in Doc
  BY <1>1, <1>2, AddressIs
<1>5. m \in Nat /\ DOMAIN heap = 1 .. m /\ DOMAIN heap' = 1 .. m /\ data \in Seq(1 .. m)
  BY <1>1, <1>2, Sizes DEF TInv, DocsFit
<1>6. /\ ~heap'[o].deleted /\ heap'[o].id = d
      /\ \A a \in 1 .. m : heap'[a].id = heap[a].id /\ (a # o => heap'[a] = heap[a])
  <2>1. heap[o] \in Objects(m)
    BY <1>1, <1>4, Sizes
  <2>2. DOMAIN heap[o] = {"id", "val", "deleted"}
    BY <2>1 DEF Objects
  <2>3. \A a \in 1 .. m : heap'[a].id = heap[a].id
    BY <1>1, <1>3 DEF HeapStep
  <2>4. heap'[o] = [heap[o] EXCEPT !.deleted = FALSE]
    BY <1>2, <1>4, <1>5
  <2>5. ~heap'[o].deleted
    BY <2>2, <2>4
  <2>6. QED
    BY <1>2, <1>4, <1>5, <2>3, <2>5
<1>7. \A e \in Doc \ {d} : Keeps(e)
  BY <1>2, <1>4, <1>5, <1>6 DEF Keeps
<1>8. PICK objs : objs = <<o>> /\ DOMAIN objs = {1} /\ objs[1] = o
  <2>1. DOMAIN <<o>> = 1 .. 1 /\ <<o>>[1] = o
    OBVIOUS
  <2>2. 1 .. 1 = {1}
    OBVIOUS
  <2>3. QED
    BY <2>1, <2>2
<1>9. \E i \in DOMAIN data' : data'[i] = o
  BY <1>2, <1>4 DEF ToSet
<1>10. \A k \in DOMAIN objs : heap'[objs[k]].id \in {d} /\ Made(heap', data', "restore", objs[k])
  BY <1>6, <1>8, <1>9 DEF Made
<1>11. /\ Apart(heap', objs)
       /\ \A e \in Doc \cap {d} : \E k \in DOMAIN objs : heap'[objs[k]].id = e
  BY <1>6, <1>8 DEF Apart
<1>12. {d} \in SUBSET Area(setup.cap, docs)
  <2>1. docs \in Seq(Doc)
    BY <1>2, RequestIs
  <2>2. CASE docs = <<>>
    BY <1>4, <2>2 DEF Area
  <2>3. CASE docs # <<>>
    <3>1. docs[1] \in ToSet(docs)
      BY <2>1, <2>3, HeadIs DEF ToSet
    <3>2. QED
      BY <1>1, <2>1, <3>1, RequestArea
  <2>4. QED
    BY <2>2, <2>3
<1>13. /\ \A e \in Doc \ {d} : \A v : Shows(mirror, deferred, e, v) => Shows(mirror', deferred', e, v)
       /\ setup' = setup /\ Started(c, "applied", "restore", docs, objs) /\ data' \in Seq(1 .. m)
  BY <1>2, <1>5, <1>8, StillShows
<1>14. PICK D : D = {d}
  OBVIOUS
<1>15. QED
  BY <1>2, <1>3, <1>7, <1>10, <1>11, <1>12, <1>13, <1>14, StartsWaiting

\* What there was, and behind it the new objects.
LEMMA AllIs ==
  ASSUME TInv, NEW docs \in Seq(Doc), NEW m, Makes(docs, m),
         NEW all, all = data \o Addresses(docs)
  PROVE  /\ Len(all) = Len(data) + Len(docs) /\ DOMAIN all = 1 .. Len(data) + Len(docs)
         /\ \A i \in 1 .. Len(data) : all[i] = data[i]
         /\ \A i \in DOMAIN docs : all[Len(data) + i] = Len(heap) + i
<1>1. PICK objs, n, l : objs = Addresses(docs) /\ n = Len(heap) /\ l = Len(data)
  OBVIOUS
<1>2. /\ objs \in Seq(1 .. m) /\ DOMAIN objs = DOMAIN docs /\ HeapStep(m)
      /\ \A i \in DOMAIN docs : objs[i] = n + i
  BY <1>1 DEF Makes
<1>3. n \in Nat /\ m \in Nat /\ n <= m /\ data \in Seq(1 .. n)
  BY <1>1, <1>2, Sizes DEF HeapStep, TInv, DocsFit
<1>4. data \in Seq(1 .. m)
  <2>1. 1 .. n \subseteq 1 .. m
    BY <1>3
  <2>2. QED
    BY <1>3, <2>1, SeqGrows
<1>5. /\ all \in Seq(1 .. m) /\ Len(all) = l + Len(objs)
      /\ \A i \in DOMAIN data : all[i] = data[i]
      /\ \A i \in DOMAIN objs : all[l + i] = objs[i]
  BY <1>1, <1>2, <1>4, ConcatIs
<1>6. /\ Len(objs) = Len(docs) /\ DOMAIN data = 1 .. l
      /\ DOMAIN all = 1 .. Len(all)
  BY <1>1, <1>2, <1>4, <1>5, Elements
<1>7. QED
  BY <1>1, <1>2, <1>5, <1>6

\* What is evicted was there before: the batch itself fits.
LEMMA InsertedFits ==
  ASSUME TInv, Followable, NEW c \in Call, NEW docs, MayStart(c, "insert", docs),
         NEW m, NEW all, NEW k, Inserted(c, docs, m, all, k)
  PROVE  /\ k <= Len(data)
         /\ k = 0 \/ setup.cap > 0
<1>1. /\ docs \in Seq(Doc) /\ all = data \o Addresses(docs) /\ Addresses(docs) \in Seq(1 .. m)
      /\ DOMAIN Addresses(docs) = DOMAIN docs
      /\ k = IF setup.cap > 0 /\ Len(all) > setup.cap THEN Len(all) - setup.cap ELSE 0
  BY DEF Inserted, Makes
<1>2. data \in Seq(1 .. Len(heap)) /\ setup.cap \in Nat
  BY Sizes, SetupFields DEF TInv, DocsFit
<1>3. Len(data) \in Nat /\ Len(docs) \in Nat
  BY <1>1, <1>2, Elements
<1>4. Len(all) = Len(data) + Len(docs)
  BY <1>1, AllIs DEF Inserted
<1>5. setup.cap > 0 => Len(docs) <= setup.cap
  BY DEF Followable, BatchesFit, MayStart
<1>6. QED
  BY <1>1, <1>2, <1>3, <1>4, <1>5

LEMMA InsertMirrors ==
  ASSUME TInv, MInv, Followable, NEW c \in Call, NEW docs, Insert(c, docs)
  PROVE  MInv'
<1>0. /\ MayStart(c, "insert", docs) /\ setup' = setup
      /\ Started(c, "applied", "insert", docs, Addresses(docs))
  BY DEF Insert
<1>1. PICK m, all, k : Inserted(c, docs, m, all, k)
  BY InsertIs
<1>2. PICK objs, events : objs = Addresses(docs) /\ events = [i \in 1 .. k |-> Event("delete", all[i])]
  OBVIOUS
<1>3. PICK n, l : n = Len(heap) /\ l = Len(data)
  OBVIOUS
<1>4. /\ docs \in Seq(Doc) /\ Makes(docs, m) /\ HeapStep(m) /\ m = n + Len(docs)
      /\ data \in Seq(1 .. n) /\ objs \in Seq(1 .. m) /\ all = data \o objs
      /\ all \in Seq(1 .. m) /\ Apart(heap', all) /\ data' \in Seq(1 .. m)
      /\ heap' \in Seq(Objects(m)) /\ Len(heap') = m /\ m \in Nat
      /\ \A a \in 1 .. n : heap'[a] = heap[a]
      /\ EmitEvents(events) /\ events \in Seq(Events(m))
  BY <1>1, <1>2, <1>3 DEF Inserted, Makes, HeapStep, TInv, DocsFit
<1>5. /\ n \in Nat /\ l \in Nat /\ Len(docs) \in Nat /\ Len(all) \in Nat
      /\ DOMAIN heap = 1 .. n /\ DOMAIN heap' = 1 .. m /\ DOMAIN data = 1 .. l
      /\ DOMAIN docs = 1 .. Len(docs) /\ DOMAIN all = 1 .. Len(all)
      /\ \A i \in DOMAIN data : data[i] \in 1 .. n /\ heap[data[i]].id \in Doc
  BY <1>3, <1>4, Sizes, Elements, AddressIs
<1>6. /\ DOMAIN objs = DOMAIN docs
      /\ \A i \in DOMAIN docs : /\ objs[i] = n + i /\ objs[i] \notin 1 .. n
                                /\ heap'[n + i].id = docs[i] /\ ~heap'[n + i].deleted
  BY <1>2, <1>3, <1>4 DEF Makes
<1>7. /\ Len(all) = l + Len(docs)
      /\ \A i \in 1 .. l : all[i] = data[i]
      /\ \A i \in DOMAIN docs : all[l + i] = n + i
  BY <1>2, <1>3, <1>4, AllIs
<1>8. k \in Nat /\ k <= l /\ (k = 0 \/ setup.cap > 0)
  <2>1. k \in 0 .. Len(all)
    BY <1>1 DEF Inserted
  <2>2. k <= Len(data) /\ (k = 0 \/ setup.cap > 0)
    BY <1>0, <1>1, InsertedFits
  <2>3. QED
    BY <1>3, <1>5, <2>1, <2>2
<1>9. /\ DOMAIN data' = 1 .. Len(all) - k
      /\ \A i \in DOMAIN data' : k + i \in DOMAIN all /\ data'[i] = all[k + i]
  BY <1>1 DEF Inserted
<1>10. PICK gone, D : gone = {heap[data[i]].id : i \in 1 .. k} /\ D = ToSet(docs) \union gone
  OBVIOUS
<1>11. ASSUME NEW i \in 1 .. k
       PROVE  /\ i \in DOMAIN data /\ i \in DOMAIN all /\ i \in DOMAIN events
              /\ heap'[all[i]].id = heap[data[i]].id /\ heap[data[i]].id \in gone
              /\ events[i].id = heap[data[i]].id /\ Outcome(events[i]) = Gone
  <2>1. i \in DOMAIN data /\ all[i] = data[i] /\ i \in DOMAIN all
    BY <1>5, <1>7, <1>8
  <2>2. heap'[data[i]] = heap[data[i]]
    BY <1>4, <1>5, <2>1
  <2>3. QED
    BY <1>2, <1>10, <2>1, <2>2 DEF Event, Outcome
<1>12. D \in SUBSET Area(setup.cap, docs)
  <2>1. ToSet(docs) \subseteq Area(setup.cap, docs)
    BY <1>4, RequestArea
  <2>2. gone \subseteq Area(setup.cap, docs)
    <3>1. CASE k = 0
      <4>1. 1 .. k = {}
        BY <3>1
      <4>2. QED
        BY <1>10, <4>1
    <3>2. CASE setup.cap > 0
      <4>1. gone \subseteq Doc
        BY <1>5, <1>10, <1>11
      <4>2. QED
        BY <3>2, <4>1 DEF Area
    <3>3. QED
      BY <1>8, <3>1, <3>2
  <2>3. QED
    BY <1>10, <2>1, <2>2
<1>13. \A i \in DOMAIN docs : docs[i] \in D
  BY <1>10 DEF ToSet
<1>14. ASSUME NEW d \in Doc \ D PROVE Keeps(d)
  <2> SUFFICES ASSUME NEW a \in DOMAIN heap', heap'[a].id = d
               PROVE  /\ a \in ToSet(data') <=> a \in ToSet(data)
                      /\ a \in DOMAIN heap => (heap'[a].deleted <=> heap[a].deleted)
    BY DEF Keeps
  <2>1. a \in 1 .. n
    <3> SUFFICES ASSUME a \notin 1 .. n PROVE FALSE
      OBVIOUS
    <3>1. PICK i : i = a - n /\ i \in DOMAIN docs /\ n + i = a
      BY <1>4, <1>5
    <3>2. QED
      BY <1>6, <1>13, <1>14, <3>1
  <2>2. heap'[a] = heap[a] /\ heap[a].id \notin D
    BY <1>4, <1>14, <2>1
  <2>3. ASSUME NEW i \in DOMAIN data, data[i] = a PROVE a \in ToSet(data')
    <3>1. ~(i <= k)
      <4>1. i <= k => i \in 1 .. k
        BY <1>5, <1>8
      <4>2. i <= k => heap[data[i]].id \in gone
        BY <1>11, <4>1
      <4>3. QED
        BY <1>10, <2>2, <2>3, <4>2
    <3>2. PICK j : j = i - k /\ j \in DOMAIN data' /\ k + j = i
      BY <1>5, <1>7, <1>8, <1>9, <3>1
    <3>3. data'[j] = a
      BY <1>5, <1>7, <1>9, <2>3, <3>2
    <3>4. QED
      BY <3>2, <3>3 DEF ToSet
  <2>4. ASSUME NEW j \in DOMAIN data', data'[j] = a PROVE a \in ToSet(data)
    <3>1. k + j \in DOMAIN all /\ all[k + j] = a
      BY <1>9, <2>4
    <3>2. CASE k + j \in 1 .. l
      BY <1>5, <1>7, <3>1, <3>2 DEF ToSet
    <3>3. CASE k + j \notin 1 .. l
      <4>1. PICK i : i = k + j - l /\ i \in DOMAIN docs /\ l + i = k + j
        BY <1>5, <1>7, <1>8, <1>9, <3>1, <3>3
      <4>2. a = n + i
        BY <1>7, <3>1, <4>1
      <4>3. QED
        BY <1>6, <2>1, <4>1, <4>2
    <3>4. QED
      BY <3>2, <3>3
  <2>5. QED
    BY <2>2, <2>3, <2>4 DEF ToSet
<1>15. ASSUME NEW i \in DOMAIN objs
       PROVE  /\ heap'[objs[i]].id = docs[i] /\ heap'[objs[i]].id \in D
              /\ Made(heap', data', "insert", objs[i])
  <2>1. i \in DOMAIN docs /\ objs[i] = n + i /\ ~heap'[objs[i]].deleted /\ heap'[objs[i]].id = docs[i]
    BY <1>6
  <2>2. PICK j : j = l + i - k /\ j \in DOMAIN data' /\ k + j = l + i
    BY <1>5, <1>7, <1>8, <1>9, <2>1
  <2>3. data'[j] = objs[i]
    BY <1>7, <1>9, <2>1, <2>2
  <2>4. QED
    BY <1>13, <2>1, <2>2, <2>3 DEF Made
<1>16. Apart(heap', objs)
  <2>1. \A i, j \in DOMAIN docs : docs[i] = docs[j] => i = j
    BY <1>1 DEF Inserted, IsInjective
  <2>2. QED
    BY <1>6, <1>15, <2>1 DEF Apart
<1>17. ASSUME NEW d \in Doc \ D, NEW v, Shows(mirror, deferred, d, v)
       PROVE  Shows(mirror', deferred', d, v)
  <2>1. \A i \in DOMAIN events : events[i].id # d
    BY <1>2, <1>10, <1>11, <1>17
  <2>2. QED
    BY <1>4, <1>17, <2>1, EmitShows
<1>18. ASSUME NEW d \in Doc, NEW i \in 1 .. k, d = heap[data[i]].id
       PROVE  Settled(heap', data', mirror', deferred', d)
  <2>1. ASSUME NEW j \in DOMAIN data' PROVE heap'[data'[j]].id # d
    <3>1. k + j \in DOMAIN all /\ data'[j] = all[k + j] /\ k + j # i
      BY <1>5, <1>8, <1>9
    <3>2. QED
      BY <1>4, <1>11, <1>18, <3>1 DEF Apart
  <2>2. LastOn(events, d, i)
    <3>1. \A j \in DOMAIN events : j \in Nat /\ j \in 1 .. k
      BY <1>2, <1>8
    <3>2. \A j \in DOMAIN events : events[j].id = events[i].id => j = i
      <4> SUFFICES ASSUME NEW j \in 1 .. k, events[j].id = events[i].id PROVE j = i
        BY <3>1
      <4>1. heap'[all[j]].id = heap'[all[i]].id /\ i \in DOMAIN all /\ j \in DOMAIN all
        BY <1>11
      <4>2. QED
        BY <1>4, <4>1 DEF Apart
    <3>3. QED
      BY <1>11, <1>18, <3>1, <3>2, OnlyOne
  <2>3. Shows(mirror', deferred', d, Outcome(events[i]))
    BY <1>4, <2>2, EmitShows
  <2>4. QED
    BY <1>11, <2>1, <2>3 DEF Settled, Shown
<1>19. ASSUME NEW d \in Doc \cap D
       PROVE  \/ \E i \in DOMAIN objs : heap'[objs[i]].id = d
              \/ Settled(heap', data', mirror', deferred', d)
  <2>1. CASE d \in ToSet(docs)
    <3>1. PICK i \in DOMAIN docs : docs[i] = d
      BY <2>1 DEF ToSet
    <3>2. QED
      BY <1>6, <1>15, <3>1
  <2>2. CASE d \in gone
    BY <1>10, <1>18, <2>2
  <2>3. QED
    BY <1>10, <2>1, <2>2
<1>20. Started(c, "applied", "insert", docs, objs)
  BY <1>0, <1>2
<1>21. QED
  BY <1>0, <1>4, <1>12, <1>14, <1>15, <1>16, <1>17, <1>19, <1>20, StartsWaiting

\* What the calls are while they write entries.
LEMMA LogChangeIs ==
  ASSUME TInv, NEW c \in Call, LogChange(c)
  PROVE  \E o : \E k \in DOMAIN call[c].objs :
           /\ o = call[c].objs[k] /\ o \in 1 .. Len(heap)
           /\ call[c].stage = "applied" /\ call'[c].docs = call[c].docs
           /\ call'[c].op = call[c].op /\ call'[c].objs = call[c].objs
           /\ \A b \in Call : b # c => call'[b] = call[b]
           /\ \/ /\ tx = "none" /\ deferred' = deferred
                 /\ call'[c].stage = "logging" /\ call'[c].entries = <<Entry(call[c].op, o)>>
              \/ /\ tx # "none" /\ call'[c].stage = "applied"
                 /\ deferred' = Append(deferred, [kind |-> "entry", op |-> call[c].op, obj |-> o])
<1>1. PICK m : /\ m = Len(heap) /\ m \in Nat /\ CallsFit(m, now)
  BY Standing
<1>2. PICK o : o = call[c].objs[call[c].at + 1]
  OBVIOUS
<1>3. call[c] \in Calls(m, now) /\ call \in [Call -> Calls(m, now)]
  BY <1>1 DEF CallsFit
<1>4. /\ call[c].at \in Nat /\ call[c].objs \in Seq(1 .. m)
      /\ DOMAIN call[c] = {"stage", "op", "docs", "objs", "at", "until", "entries"}
  BY <1>3 DEF Calls
<1>5. call[c].stage = "applied" /\ call[c].at < Len(call[c].objs)
  BY DEF LogChange
<1>6. PICK k \in DOMAIN call[c].objs : o = call[c].objs[k] /\ o \in 1 .. m
  <2>1. /\ Len(call[c].objs) \in Nat /\ DOMAIN call[c].objs = 1 .. Len(call[c].objs)
        /\ \A i \in DOMAIN call[c].objs : call[c].objs[i] \in 1 .. m
    BY <1>4, Elements
  <2>2. call[c].at + 1 \in DOMAIN call[c].objs
    BY <1>4, <1>5, <2>1
  <2>3. QED
    BY <1>2, <2>1, <2>2
<1>7. CASE tx = "none"
  <2>1. PICK es, r : /\ es = <<Entry(call[c].op, o)>>
                     /\ r = [call[c] EXCEPT !.stage = "logging", !.entries = es]
    OBVIOUS
  <2>2. call' = [call EXCEPT ![c] = r] /\ deferred' = deferred
    BY <1>2, <1>7, <2>1 DEF LogChange
  <2>3. /\ r.stage = "logging" /\ r.entries = es /\ r.docs = call[c].docs
        /\ r.op = call[c].op /\ r.objs = call[c].objs
    BY <1>4, <2>1
  <2>4. call'[c] = r /\ \A b \in Call : b # c => call'[b] = call[b]
    BY <1>3, <2>2
  <2>5. QED
    BY <1>1, <1>5, <1>6, <1>7, <2>1, <2>2, <2>3, <2>4
<1>8. CASE tx # "none"
  <2>1. PICK r : r = [call[c] EXCEPT !.at = call[c].at + 1]
    OBVIOUS
  <2>2. /\ call' = [call EXCEPT ![c] = r]
        /\ deferred' = Append(deferred, [kind |-> "entry", op |-> call[c].op, obj |-> o])
    BY <1>2, <1>8, <2>1 DEF LogChange
  <2>3. /\ r.stage = "applied" /\ r.docs = call[c].docs
        /\ r.op = call[c].op /\ r.objs = call[c].objs
    BY <1>4, <1>5, <2>1
  <2>4. call'[c] = r /\ \A b \in Call : b # c => call'[b] = call[b]
    BY <1>3, <2>2
  <2>5. QED
    BY <1>1, <1>5, <1>6, <1>8, <2>2, <2>3, <2>4
<1>9. QED
  BY <1>7, <1>8

LEMMA LoggedIs ==
  ASSUME TInv, ~setup.fails, NEW c \in Call, Logged(c)
  PROVE  /\ call[c].stage = "logging" /\ call'[c].stage = "applied"
         /\ call'[c].docs = call[c].docs /\ call'[c].op = call[c].op
         /\ call'[c].objs = call[c].objs
         /\ \A b \in Call : b # c => call'[b] = call[b]
<1>1. PICK m : m = Len(heap) /\ CallsFit(m, now)
  BY Standing
<1>2. call[c] \in Calls(m, now) /\ call \in [Call -> Calls(m, now)]
  BY <1>1 DEF CallsFit
<1>3. DOMAIN call[c] = {"stage", "op", "docs", "objs", "at", "until", "entries"}
  BY <1>2 DEF Calls
<1>4. PICK r : r = [call[c] EXCEPT !.stage = "applied", !.at = call[c].at + 1, !.entries = <<>>]
  OBVIOUS
<1>5. call' = [call EXCEPT ![c] = r] /\ call[c].stage = "logging"
  BY <1>4 DEF Logged
<1>6. /\ r.stage = "applied" /\ r.docs = call[c].docs
      /\ r.op = call[c].op /\ r.objs = call[c].objs
  BY <1>3, <1>4
<1>7. QED
  BY <1>2, <1>5, <1>6

\* An effect that is no event is deferred, comes to be stamped, or leaves.
LEMMA EffectShows ==
  ASSUME TInv, mirror' = mirror,
         \/ \E x : x.kind # "event" /\ deferred' = Append(deferred, x)
         \/ /\ deferred # <<>> /\ Head(deferred).kind # "event"
            /\ \/ deferred' = Tail(deferred)
               \/ \E x : x.kind # "event" /\ deferred' = [deferred EXCEPT ![1] = x],
         NEW d, NEW v, Shows(mirror, deferred, d, v)
  PROVE  Shows(mirror', deferred', d, v)
<1>1. PICK n, k : /\ n = Len(heap) /\ k = Len(deferred)
  OBVIOUS
<1>2. deferred \in Seq(Deferred(n, now)) /\ k \in Nat /\ DOMAIN deferred = 1 .. k
  BY <1>1, Elements DEF TInv, Fits, WatchersFit
<1>3. ASSUME NEW p \in {0, 1},
             \A i \in DOMAIN deferred' : On(deferred'[i], d) =>
                \E j \in DOMAIN deferred : deferred[j] = deferred'[i] /\ i = j - p,
             \A j \in DOMAIN deferred : On(deferred[j], d) =>
                \E i \in DOMAIN deferred' : deferred[j] = deferred'[i] /\ i = j - p
      PROVE  Shows(mirror', deferred', d, v)
  <2>1. CASE (\A j \in DOMAIN deferred : ~On(deferred[j], d)) /\ v = mirror[d]
    BY <1>3, <2>1 DEF Shows
  <2>2. ASSUME NEW j \in DOMAIN deferred, On(deferred[j], d), v = Outcome(deferred[j].event),
               \A e \in DOMAIN deferred : e > j => ~On(deferred[e], d)
        PROVE  Shows(mirror', deferred', d, v)
    <3>1. PICK i \in DOMAIN deferred' : deferred[j] = deferred'[i] /\ i = j - p
      BY <1>3, <2>2
    <3>2. ASSUME NEW e \in DOMAIN deferred', e > i, On(deferred'[e], d) PROVE FALSE
      <4>1. PICK f \in DOMAIN deferred : deferred[f] = deferred'[e] /\ e = f - p
        BY <1>3, <3>2
      <4>2. f > j
        BY <1>2, <3>1, <3>2, <4>1
      <4>3. QED
        BY <2>2, <3>2, <4>1, <4>2
    <3>3. QED
      BY <2>2, <3>1, <3>2 DEF Shows
  <2>3. QED
    BY <2>1, <2>2 DEF Shows
<1>4. ASSUME NEW x, x.kind # "event", deferred' = Append(deferred, x)
      PROVE  Shows(mirror', deferred', d, v)
  <2>1. /\ DOMAIN deferred' = 1 .. k + 1 /\ deferred'[k + 1] = x
        /\ \A i \in 1 .. k : deferred'[i] = deferred[i]
    BY <1>1, <1>2, <1>4
  <2>2. ~On(x, d) /\ \A i \in 1 .. k : i = i - 0 /\ i \in 1 .. k + 1
    BY <1>2, <1>4 DEF On
  <2>3. /\ \A i \in 1 .. k + 1 : On(deferred'[i], d) =>
              \E j \in 1 .. k : deferred[j] = deferred'[i] /\ i = j - 0
        /\ \A j \in 1 .. k : On(deferred[j], d) =>
              \E i \in 1 .. k + 1 : deferred[j] = deferred'[i] /\ i = j - 0
    BY <1>2, <2>1, <2>2
  <2>4. QED
    BY <1>2, <1>3, <2>1, <2>3
<1>5. ASSUME NEW x, x.kind # "event", deferred # <<>>, Head(deferred).kind # "event",
             deferred' = [deferred EXCEPT ![1] = x]
      PROVE  Shows(mirror', deferred', d, v)
  <2>1. /\ DOMAIN deferred' = 1 .. k /\ k # 0 /\ Head(deferred) = deferred[1]
        /\ deferred'[1] = x /\ \A i \in 1 .. k : i # 1 => deferred'[i] = deferred[i]
    BY <1>1, <1>2, <1>5, HeadIs
  <2>2. ~On(x, d) /\ ~On(deferred[1], d) /\ \A i \in 1 .. k : i = i - 0
    BY <1>2, <1>5, <2>1 DEF On
  <2>3. \A i \in 1 .. k : /\ On(deferred'[i], d) => deferred'[i] = deferred[i]
                          /\ On(deferred[i], d) => deferred'[i] = deferred[i]
    BY <2>1, <2>2
  <2>4. QED
    BY <1>2, <1>3, <2>1, <2>2, <2>3
<1>6. ASSUME deferred # <<>>, Head(deferred).kind # "event", deferred' = Tail(deferred)
      PROVE  Shows(mirror', deferred', d, v)
  <2>1. /\ DOMAIN deferred' = 1 .. k - 1 /\ k # 0 /\ Head(deferred) = deferred[1]
        /\ \A i \in 1 .. k - 1 : deferred'[i] = deferred[i + 1]
    BY <1>1, <1>2, <1>6, HeadIs
  <2>2. ~On(deferred[1], d)
    BY <1>6, <2>1 DEF On
  <2>3. \A i \in 1 .. k - 1 : i + 1 \in 1 .. k /\ i = (i + 1) - 1 /\ i \in Nat
    BY <1>2
  <2>4. \A j \in 1 .. k : On(deferred[j], d) => j - 1 \in 1 .. k - 1 /\ deferred'[j - 1] = deferred[j]
    BY <1>2, <2>1, <2>2
  <2>5. /\ \A i \in 1 .. k - 1 : \E j \in 1 .. k : deferred[j] = deferred'[i] /\ i = j - 1
        /\ \A j \in 1 .. k : On(deferred[j], d) =>
              \E i \in 1 .. k - 1 : deferred[j] = deferred'[i] /\ i = j - 1
    BY <2>1, <2>3, <2>4
  <2>6. QED
    BY <1>2, <1>3, <2>1, <2>5
<1>7. QED
  BY <1>4, <1>5, <1>6

LEMMA LogChangeMirrors ==
  ASSUME TInv, MInv, Followable, NEW c \in Call, LogChange(c)
  PROVE  MInv'
<1>1. PICK o, k : /\ call[c].stage = "applied" /\ call'[c].docs = call[c].docs
                  /\ call'[c].op = call[c].op /\ call'[c].objs = call[c].objs
                  /\ \A b \in Call : b # c => call'[b] = call[b]
                  /\ \/ deferred' = deferred /\ call'[c].stage = "logging"
                     \/ /\ call'[c].stage = "applied"
                        /\ deferred' = Append(deferred, [kind |-> "entry", op |-> call[c].op, obj |-> o])
  BY LogChangeIs
<1>2. UNCHANGED <<setup, heap, data, mirror>>
  BY DEF LogChange
<1>3. \A d \in Doc : \A v : Shows(mirror, deferred, d, v) => Shows(mirror', deferred', d, v)
  <2>1. CASE deferred' = deferred
    BY <1>2, <2>1
  <2>2. PICK x : x = [kind |-> "entry", op |-> call[c].op, obj |-> o]
    OBVIOUS
  <2>3. CASE deferred' = Append(deferred, x)
    <3>1. x.kind # "event"
      BY <2>2
    <3>2. QED
      BY <1>2, <2>3, <3>1, EffectShows
  <2>4. QED
    BY <1>1, <2>1, <2>2, <2>3
<1>4. /\ Waits(call'[c]) /\ Waits(call[c]) /\ Flies(call'[c]) /\ Flies(call[c])
  BY <1>1 DEF Waits, Flies
<1>5. QED
  BY <1>1, <1>2, <1>3, <1>4, StaysSettled

LEMMA LoggedMirrors ==
  ASSUME TInv, MInv, Followable, NEW c \in Call, Logged(c)
  PROVE  MInv'
<1>1. UNCHANGED <<setup, heap, data, mirror, deferred>> /\ ~setup.fails
  BY DEF Logged, Followable
<1>2. /\ call[c].stage = "logging" /\ call'[c].stage = "applied"
      /\ call'[c].docs = call[c].docs /\ call'[c].op = call[c].op
      /\ call'[c].objs = call[c].objs
      /\ \A b \in Call : b # c => call'[b] = call[b]
  BY <1>1, LoggedIs
<1>3. /\ Waits(call'[c]) /\ Waits(call[c]) /\ Flies(call'[c]) /\ Flies(call[c])
  BY <1>2 DEF Waits, Flies
<1>4. \A d \in Doc : \A v : Shows(mirror, deferred, d, v) => Shows(mirror', deferred', d, v)
  BY <1>1
<1>5. QED
  BY <1>1, <1>2, <1>3, <1>4, StaysSettled

LEMMA ReadLogIs ==
  ASSUME TInv, NEW c \in Call, ReadLog(c)
  PROVE  /\ call[c].stage = "reading" /\ call'[c].stage = "read"
         /\ call'[c].docs = call[c].docs
         /\ \A b \in Call : b # c => call'[b] = call[b]
<1>1. PICK m : m = Len(heap) /\ CallsFit(m, now)
  BY Standing
<1>2. call[c] \in Calls(m, now) /\ call \in [Call -> Calls(m, now)]
  BY <1>1 DEF CallsFit
<1>3. DOMAIN call[c] = {"stage", "op", "docs", "objs", "at", "until", "entries"}
  BY <1>2 DEF Calls
<1>4. PICK es, r : es = UpTo(call[c].until) /\ r = [call[c] EXCEPT !.stage = "read", !.entries = es]
  OBVIOUS
<1>5. call' = [call EXCEPT ![c] = r] /\ call[c].stage = "reading"
  BY <1>4 DEF ReadLog
<1>6. r.stage = "read" /\ r.docs = call[c].docs
  BY <1>3, <1>4
<1>7. QED
  BY <1>2, <1>5, <1>6

LEMMA ReadLogMirrors ==
  ASSUME TInv, MInv, Followable, NEW c \in Call, ReadLog(c)
  PROVE  MInv'
<1>1. UNCHANGED <<setup, heap, data, mirror, deferred>>
  BY DEF ReadLog
<1>2. /\ call[c].stage = "reading" /\ call'[c].stage = "read"
      /\ call'[c].docs = call[c].docs
      /\ \A b \in Call : b # c => call'[b] = call[b]
  BY ReadLogIs
<1>3. /\ ~Waits(call'[c]) /\ ~Waits(call[c]) /\ Flies(call'[c]) /\ Flies(call[c])
  BY <1>2 DEF Waits, Flies
<1>4. \A d \in Doc : \A v : Shows(mirror, deferred, d, v) => Shows(mirror', deferred', d, v)
  BY <1>1
<1>5. QED
  BY <1>1, <1>2, <1>3, <1>4, StaysSettled

LEMMA RewindIs ==
  ASSUME TInv, NEW c \in Call, NEW docs, Rewind(c, docs)
  PROVE  /\ MayStart(c, "rewind", docs) /\ call'[c].stage = "reading" /\ call'[c].docs = docs
         /\ \A b \in Call : b # c => call'[b] = call[b]
<1>1. PICK t, r : /\ call' = [call EXCEPT ![c] = r]
                  /\ r = [NoCall EXCEPT !.stage = "reading", !.docs = docs, !.until = t]
  BY DEF Rewind
<1>2. r.stage = "reading" /\ r.docs = docs
  BY <1>1 DEF NoCall
<1>3. DOMAIN call = Call
  BY DEF TInv, Fits, CallsFit
<1>4. QED
  BY <1>1, <1>2, <1>3 DEF Rewind

LEMMA RewindMirrors ==
  ASSUME TInv, MInv, Followable, NEW c \in Call, NEW docs, Rewind(c, docs)
  PROVE  MInv'
<1>1. UNCHANGED <<setup, heap, data, mirror, deferred>>
  BY DEF Rewind
<1>2. /\ MayStart(c, "rewind", docs) /\ call'[c].stage = "reading" /\ call'[c].docs = docs
      /\ \A b \in Call : b # c => call'[b] = call[b]
  BY RewindIs
<1>3. /\ call[c].stage = "idle"
      /\ \A b \in Call : Flies(call[b]) => Area(setup.cap, call[b].docs) \cap Area(setup.cap, docs) = {}
  BY <1>2, SameArea DEF MayStart, Followable
<1>4. Holding(c)
  BY <1>2, <1>3 DEF Holding, Claims, Waits
<1>5. PICK m, D : m = Len(heap) /\ HeapStep(m) /\ data' \in Seq(1 .. m) /\ D = {}
  BY <1>1, SameHeap DEF TInv, DocsFit
<1>6. /\ \A d \in Doc \ D : Keeps(d)
      /\ \A b \in Call : Area(setup.cap, call[b].docs) \cap D = {}
      /\ \A d : ~WaitsOn(heap, call[c], d)
  BY <1>1, <1>3, <1>5 DEF Keeps, WaitsOn, Waits
<1>7. QED
  BY <1>1, <1>2, <1>4, <1>5, <1>6, Moves

LEMMA OthersMirror ==
  ASSUME TInv, MInv, Followable,
         Begin \/ Commit \/ FlushEnds \/ Tick \/ Pull \/ Return \/ UNCHANGED vars
  PROVE  MInv'
<1>1. UNCHANGED <<setup, heap, data, call, mirror, deferred>>
  BY DEF Begin, Commit, FlushEnds, Tick, Pull, Return, vars
<1>2. QED
  BY <1>1, SameArea DEF MInv

LEMMA FlushEntryMirrors ==
  ASSUME TInv, MInv, Followable, FlushEntry \/ FlushLogged
  PROVE  MInv'
<1>1. UNCHANGED <<setup, heap, data, call, mirror>>
  BY DEF FlushEntry, FlushLogged
<1>2. /\ deferred # <<>> /\ Head(deferred).kind # "event"
      /\ \/ deferred' = Tail(deferred)
         \/ \E x : x.kind # "event" /\ deferred' = [deferred EXCEPT ![1] = x]
  <2>1. CASE FlushLogged
    BY <2>1 DEF FlushLogged
  <2>2. CASE FlushEntry
    <3>1. PICK x : x = [kind |-> "stamped", entry |-> Entry(Head(deferred).op, Head(deferred).obj)]
      OBVIOUS
    <3>2. x.kind # "event" /\ deferred' = [deferred EXCEPT ![1] = x]
      BY <2>2, <3>1 DEF FlushEntry
    <3>3. QED
      BY <2>2, <3>2 DEF FlushEntry
  <2>3. QED
    BY <2>1, <2>2
<1>3. \A d \in Doc : \A v : Shows(mirror, deferred, d, v) => Shows(mirror', deferred', d, v)
  BY <1>1, <1>2, EffectShows
<1>4. PICK c : c \notin Call
  BY NoSetContainsEverything
<1>5. QED
  BY <1>1, <1>3, <1>4, StaysSettled

\* The event that the transaction publishes was the first one.
LEMMA FlushEventMirrors ==
  ASSUME TInv, MInv, Followable, FlushEvent
  PROVE  MInv'
<1>1. PICK m, k : /\ m = Len(heap) /\ m \in Nat /\ k = Len(deferred)
                  /\ WatchersFit(m, now)
  BY Standing
<1>2. /\ tx = "flushing" /\ deferred # <<>> /\ Head(deferred).kind = "event"
      /\ Publish(<<Head(deferred).event>>) /\ deferred' = Tail(deferred)
      /\ UNCHANGED <<setup, heap, data, call>>
  BY DEF FlushEvent
<1>3. deferred \in Seq(Deferred(m, now)) /\ k \in Nat /\ DOMAIN deferred = 1 .. k
  BY <1>1, Elements DEF WatchersFit
<1>4. /\ Head(deferred) \in Deferred(m, now) /\ Head(deferred) = deferred[1] /\ k # 0
      /\ DOMAIN deferred' = 1 .. k - 1
      /\ \A i \in 1 .. k - 1 : deferred'[i] = deferred[i + 1]
  BY <1>1, <1>2, <1>3, HeadIs
<1>5. PICK e : e = deferred[1].event /\ e \in Events(m)
  BY <1>2, <1>4 DEF Deferred
<1>6. \A d \in Doc : mirror'[d] = IF e.id = d THEN Outcome(e) ELSE mirror[d]
  <2>1. <<e>> \in Seq(Events(m)) /\ DOMAIN <<e>> = {1} /\ <<e>>[1] = e
    BY <1>5
  <2>2. \A d \in Doc : Tells(mirror, <<e>>, d, mirror'[d])
    BY <1>1, <1>2, <1>4, <1>5, <2>1, Sizes, PublishIs DEF WatchersFit
  <2>3. QED
    BY <2>1, <2>2 DEF Tells, LastOn
<1>7. \A i \in 1 .. k - 1 : i + 1 \in 1 .. k /\ i \in Nat
  BY <1>3
<1>8. ASSUME NEW d \in Doc, NEW v, Shows(mirror, deferred, d, v)
      PROVE  Shows(mirror', deferred', d, v)
  <2>1. On(deferred[1], d) <=> e.id = d
    BY <1>2, <1>4, <1>5 DEF On
  <2>2. CASE (\A j \in DOMAIN deferred : ~On(deferred[j], d)) /\ v = mirror[d]
    <3>1. e.id # d
      BY <1>3, <1>4, <2>1, <2>2
    <3>2. \A i \in DOMAIN deferred' : ~On(deferred'[i], d)
      BY <1>3, <1>4, <1>7, <2>2
    <3>3. QED
      BY <1>6, <2>2, <3>1, <3>2 DEF Shows
  <2>3. ASSUME NEW j \in DOMAIN deferred, On(deferred[j], d), v = Outcome(deferred[j].event),
               \A i \in DOMAIN deferred : i > j => ~On(deferred[i], d)
        PROVE  Shows(mirror', deferred', d, v)
    <3>1. \A i \in 1 .. k - 1 : i + 1 > j => ~On(deferred'[i], d)
      BY <1>3, <1>4, <1>7, <2>3
    <3>2. CASE j = 1
      <4>1. \A i \in DOMAIN deferred' : ~On(deferred'[i], d)
        BY <1>3, <1>4, <3>1, <3>2
      <4>2. v = mirror'[d]
        BY <1>5, <1>6, <2>1, <2>3, <3>2
      <4>3. QED
        BY <4>1, <4>2 DEF Shows
    <3>3. CASE j # 1
      <4>1. PICK i : i = j - 1 /\ i \in DOMAIN deferred' /\ deferred'[i] = deferred[j]
        BY <1>3, <1>4, <3>3
      <4>2. \A f \in DOMAIN deferred' : f > i => ~On(deferred'[f], d)
        BY <1>3, <1>4, <3>1, <4>1
      <4>3. QED
        BY <2>3, <4>1, <4>2 DEF Shows
    <3>4. QED
      BY <3>2, <3>3
  <2>4. QED
    BY <1>8, <2>2, <2>3 DEF Shows
<1>9. PICK c : c \notin Call
  BY NoSetContainsEverything
<1>10. QED
  BY <1>2, <1>8, <1>9, StaysSettled

\* What the operation made of a document is what the collection shows of it.
LEMMA MadeIs ==
  ASSUME TInv, NEW op, NEW o, Made(heap, data, op, o), NEW v, Shown(heap, data, heap[o].id, v)
  PROVE  v = IF op = "delete" THEN Gone ELSE heap[o].val
<1>1. CASE op = "delete"
  BY <1>1 DEF Made, Shown
<1>2. CASE op # "delete"
  <2>1. PICK i \in DOMAIN data : data[i] = o /\ ~heap[o].deleted
    BY <1>2 DEF Made
  <2>2. \A j \in DOMAIN data : heap[data[j]].id = heap[o].id => data[j] = o
    BY <2>1 DEF TInv, DocsFit, Apart
  <2>3. QED
    BY <1>2, <2>1, <2>2 DEF Shown
<1>3. QED
  BY <1>1, <1>2

LEMMA EmitMirrors ==
  ASSUME TInv, MInv, Followable, NEW c \in Call, Emit(c)
  PROVE  MInv'
<1>1. PICK m : /\ m = Len(heap) /\ m \in Nat /\ now \in Nat
               /\ CallsFit(m, now) /\ \A a \in 1 .. m : heap[a] \in Objects(m)
  BY Standing
<1>2. PICK events : events = [i \in DOMAIN call[c].objs |-> Event(call[c].op, call[c].objs[i])]
  OBVIOUS
<1>3. /\ UNCHANGED <<setup, heap, data>>
      /\ EmitEvents(events) /\ Ended(c, "done") /\ call[c].stage = "applied"
  BY <1>2 DEF Emit
<1>4. call[c].objs \in Seq(1 .. m) /\ call[c].op \in Op
  BY <1>1 DEF CallsFit, Calls
<1>5. PICK n : /\ n = Len(call[c].objs) /\ n \in Nat /\ DOMAIN call[c].objs = 1 .. n
               /\ \A i \in 1 .. n : call[c].objs[i] \in 1 .. m
  BY <1>4, Elements
<1>6. events \in Seq(Events(m)) /\ DOMAIN events = 1 .. n
  <2>1. \A i \in 1 .. n : Event(call[c].op, call[c].objs[i]) \in Events(m)
    BY <1>1, <1>3, <1>4, <1>5 DEF Event, Events, Objects
  <2>2. events = [i \in 1 .. n |-> events[i]] /\ \A i \in 1 .. n : events[i] \in Events(m)
    BY <1>2, <1>5, <2>1
  <2>3. QED
    BY <1>5, <2>2, SeqIs
<1>7. HeapStep(m) /\ data' \in Seq(1 .. m)
  BY <1>1, <1>3, SameHeap DEF TInv, DocsFit
<1>8. Waits(call[c]) /\ Flies(call[c])
  BY <1>3 DEF Waits, Flies
<1>9. Claims(setup.cap, heap, data, call[c])
  BY DEF MInv, Following
<1>10. PICK D : D = {heap[call[c].objs[k]].id : k \in 1 .. n}
  OBVIOUS
<1>11. D \in SUBSET Area(setup.cap, call[c].docs)
  BY <1>5, <1>8, <1>9, <1>10 DEF Claims
<1>12. \A i \in 1 .. n : /\ events[i].id = heap[call[c].objs[i]].id
                         /\ events[i].op = call[c].op /\ events[i].val = heap[call[c].objs[i]].val
  BY <1>2, <1>3, <1>5 DEF Event
<1>13. ASSUME NEW d \in Doc \ D, NEW v, Shows(mirror, deferred, d, v)
       PROVE  Shows(mirror', deferred', d, v)
  <2>1. \A i \in DOMAIN events : events[i].id # d
    BY <1>6, <1>10, <1>12, <1>13
  <2>2. QED
    BY <1>3, <1>6, <1>7, <1>13, <2>1, EmitShows
<1>14. ASSUME NEW d \in Doc \cap D
       PROVE  Settled(heap', data', mirror', deferred', d)
  <2>1. PICK k \in 1 .. n : d = heap[call[c].objs[k]].id
    BY <1>10, <1>14
  <2>2. LastOn(events, d, k)
    <3>1. \A j \in DOMAIN events : events[j].id = events[k].id => j = k
      BY <1>5, <1>6, <1>8, <1>9, <1>12, <2>1 DEF Claims, Apart
    <3>2. \A j \in DOMAIN events : j \in Nat
      BY <1>6
    <3>3. QED
      BY <1>6, <1>12, <2>1, <3>1, <3>2, OnlyOne
  <2>3. Shows(mirror', deferred', d, Outcome(events[k]))
    BY <1>3, <1>6, <1>7, <2>2, EmitShows
  <2>4. Made(heap, data, call[c].op, call[c].objs[k])
    BY <1>5, <1>8, <1>9 DEF Claims
  <2>5. ASSUME NEW v, Shown(heap, data, d, v) PROVE v = Outcome(events[k])
    BY <1>12, <2>1, <2>4, <2>5, MadeIs DEF Outcome
  <2>6. QED
    BY <1>3, <2>3, <2>5 DEF Settled
<1>15. \A d \in Doc \ D : Keeps(d) /\ ~WaitsOn(heap, call[c], d)
  BY <1>3, <1>5, <1>10 DEF Keeps, WaitsOn
<1>16. QED
  BY <1>3, <1>7, <1>8, <1>11, <1>13, <1>14, <1>15, EndsSettled

\* An entry of a document that was not deleted then.
Live(e) == e.op = "delete" \/ ~e.deleted

EntriesLive ==
  /\ ~setup.soft => \A a \in DOMAIN heap : ~heap[a].deleted
  /\ \A i \in DOMAIN log : Live(log[i])
  /\ \A j \in DOMAIN deferred : deferred[j].kind = "stamped" => Live(deferred[j].entry)
  /\ \A c \in Call : call[c].stage \in {"logging", "read"} =>
       \A i \in DOMAIN call[c].entries : Live(call[c].entries[i])

\* The entries that db.restore() reads, where there is such a call, bring back
\* what was there: a document that is marked is deleted by its last entry.
VInv ==
  /\ tx # "none" => setup.tx # {}
  /\ Followable /\ EntriesAreCopies => EntriesLive
  /\ ~Rewinds => \A c \in Call : call[c].stage \notin {"reading", "read"}

LEMMA ReadIsLive ==
  ASSUME TInv, VInv, Followable, NEW c \in Call, call[c].stage = "read"
  PROVE  /\ EntriesAreCopies /\ EntriesLive
         /\ \A e \in ToSet(call[c].entries) : Live(e)
         /\ ~Waits(call[c]) /\ Flies(call[c])
<1>1. EntriesAreCopies
  BY DEF VInv, Followable
<1>2. EntriesLive
  BY <1>1 DEF VInv
<1>3. \A e \in ToSet(call[c].entries) : Live(e)
  BY <1>2 DEF EntriesLive, ToSet
<1>4. QED
  BY <1>1, <1>2, <1>3 DEF Waits, Flies

\* The collection is replaced: deletes are published, and then inserts.
LEMMA RestoreAllMirrors ==
  ASSUME TInv, MInv, VInv, Followable, NEW c \in Call, RestoreAll(c)
  PROVE  MInv'
<1>1. /\ call[c].stage = "read" /\ call[c].docs = <<>> /\ Ended(c, "done") /\ setup' = setup
  BY DEF RestoreAll
<1>2. PICK docs, m, gone, new :
           /\ docs \in Seq({e \in ToSet(call[c].entries) : e.op \notin {"delete", "restore"}})
           /\ RestoredAll(docs, m)
           /\ gone \in Seq(Events(m)) /\ gone = [i \in DOMAIN data |-> Event("delete", data[i])]
           /\ new \in Seq(Events(m)) /\ new = [i \in DOMAIN docs |-> Event("insert", data'[i])]
           /\ EmitEvents(gone \o new)
  BY RestoreAllIs
<1>3. PICK events, n, l, k : /\ events = gone \o new /\ n = Len(heap)
                             /\ l = Len(data) /\ k = Len(docs)
  OBVIOUS
<1>4. /\ HeapStep(m) /\ m = n + k /\ \A a \in 1 .. n : heap'[a] = heap[a]
      /\ OneEach(docs) /\ data' \in Seq(1 .. m) /\ DOMAIN data' = DOMAIN docs
      /\ \A i \in DOMAIN docs : /\ data'[i] = n + i /\ n + i \in 1 .. m
                                /\ heap'[n + i] = Clone(docs[i])
  BY <1>2, <1>3 DEF RestoredAll
<1>5. /\ data \in Seq(1 .. n) /\ l \in Nat /\ DOMAIN data = 1 .. l
      /\ k \in Nat /\ DOMAIN docs = 1 .. k
      /\ \A i \in 1 .. l : data[i] \in 1 .. n
      /\ \A i \in 1 .. k : docs[i] \in ToSet(call[c].entries) /\ docs[i].op \notin {"delete", "restore"}
  BY <1>2, <1>3, Elements DEF TInv, DocsFit
<1>6. /\ Flies(call[c]) /\ ~Waits(call[c])
      /\ \A e \in ToSet(call[c].entries) : Live(e)
  BY <1>1, ReadIsLive
<1>7. ASSUME NEW i \in 1 .. k
      PROVE  /\ heap'[data'[i]].id = docs[i].id /\ heap'[data'[i]].val = docs[i].val
             /\ ~heap'[data'[i]].deleted
  <2>1. heap'[data'[i]] = Clone(docs[i])
    BY <1>4, <1>5
  <2>2. ~docs[i].deleted
    BY <1>5, <1>6 DEF Live
  <2>3. QED
    BY <2>1, <2>2 DEF Clone
<1>8. /\ events \in Seq(Events(m)) /\ EmitEvents(events)
      /\ Len(gone) = l /\ Len(new) = k
      /\ DOMAIN events = 1 .. l + k
      /\ \A i \in 1 .. l : events[i] = gone[i]
      /\ \A i \in 1 .. k : events[l + i] = new[i]
  <2>1. Len(gone) = l /\ Len(new) = k /\ DOMAIN gone = 1 .. l /\ DOMAIN new = 1 .. k
    BY <1>2, <1>5, Elements
  <2>2. events \in Seq(Events(m)) /\ Len(events) = l + k
    BY <1>2, <1>3, <2>1, ConcatIs
  <2>3. /\ \A i \in 1 .. l : events[i] = gone[i]
        /\ \A i \in 1 .. k : events[l + i] = new[i]
    BY <1>2, <1>3, <2>1, ConcatIs
  <2>4. DOMAIN events = 1 .. l + k
    BY <2>2, Elements
  <2>5. QED
    BY <1>2, <1>3, <2>1, <2>2, <2>3, <2>4
<1>9. /\ \A i \in 1 .. l : events[i].id = heap[data[i]].id /\ Outcome(events[i]) = Gone
      /\ \A i \in 1 .. k : events[l + i].id = docs[i].id /\ Outcome(events[l + i]) = docs[i].val
  <2>1. \A i \in 1 .. l : heap'[data[i]] = heap[data[i]]
    BY <1>4, <1>5
  <2>2. \A i \in 1 .. l : events[i] = Event("delete", data[i])
    BY <1>2, <1>5, <1>8
  <2>3. \A i \in 1 .. k : events[l + i] = Event("insert", data'[i])
    BY <1>2, <1>5, <1>8
  <2>4. ASSUME NEW i \in 1 .. l
        PROVE  events[i].id = heap[data[i]].id /\ Outcome(events[i]) = Gone
    <3>1. events[i] = Event("delete", data[i])
      BY <2>2
    <3>2. events[i].op = "delete" /\ events[i].id = heap'[data[i]].id
      BY <3>1 DEF Event
    <3>3. QED
      BY <2>1, <3>2 DEF Outcome
  <2>5. ASSUME NEW i \in 1 .. k
        PROVE  events[l + i].id = docs[i].id /\ Outcome(events[l + i]) = docs[i].val
    <3>1. events[l + i] = Event("insert", data'[i])
      BY <2>3
    <3>2. PICK e : e = events[l + i]
      OBVIOUS
    <3>3. e.op = "insert" /\ e.id = heap'[data'[i]].id /\ e.val = heap'[data'[i]].val
      BY <3>1, <3>2 DEF Event
    <3>4. QED
      BY <1>7, <3>2, <3>3 DEF Outcome
  <2>6. QED
    BY <2>4, <2>5
<1>10. \A i, j \in 1 .. k : docs[i].id = docs[j].id => i = j
  BY <1>4, <1>5 DEF OneEach
<1>11. \A i, j \in 1 .. l : heap[data[i]].id = heap[data[j]].id => i = j
  BY <1>5 DEF TInv, DocsFit, Apart
<1>12. ASSUME NEW j \in DOMAIN events PROVE j \in 1 .. l \/ \E i \in 1 .. k : j = l + i
  <2>1. CASE j <= l
    BY <1>5, <1>8, <2>1
  <2>2. CASE ~(j <= l)
    <3>1. j - l \in 1 .. k /\ j = l + (j - l)
      BY <1>5, <1>8, <2>2
    <3>2. QED
      BY <3>1
  <2>3. QED
    BY <2>1, <2>2
<1>13. ASSUME NEW d \in Doc, NEW i \in 1 .. k, docs[i].id = d
       PROVE  Settled(heap', data', mirror', deferred', d)
  <2>1. LastOn(events, d, l + i)
    <3>1. l + i \in DOMAIN events /\ events[l + i].id = d
      BY <1>5, <1>8, <1>9, <1>13
    <3>2. ASSUME NEW j \in DOMAIN events, j > l + i PROVE events[j].id # d
      <4>1. PICK f \in 1 .. k : j = l + f
        <5>1. j \notin 1 .. l
          BY <1>5, <3>2
        <5>2. QED
          BY <1>12, <5>1
      <4>2. f # i
        BY <1>5, <3>2, <4>1
      <4>3. QED
        BY <1>9, <1>10, <1>13, <4>1, <4>2
    <3>3. QED
      BY <3>1, <3>2 DEF LastOn
  <2>2. Shows(mirror', deferred', d, Outcome(events[l + i]))
    BY <1>4, <1>8, <2>1, EmitShows
  <2>3. ASSUME NEW v, Shown(heap', data', d, v) PROVE v = docs[i].val
    <3>1. i \in DOMAIN data' /\ heap'[data'[i]].id = d
      BY <1>4, <1>5, <1>7, <1>13
    <3>2. PICK j \in DOMAIN data' : /\ heap'[data'[j]].id = d
                                    /\ v = IF heap'[data'[j]].deleted THEN Gone ELSE heap'[data'[j]].val
      BY <2>3, <3>1 DEF Shown
    <3>3. j \in 1 .. k /\ docs[j].id = d
      BY <1>4, <1>5, <1>7, <3>2
    <3>4. j = i
      BY <1>10, <1>13, <3>3
    <3>5. QED
      BY <1>7, <3>2, <3>4
  <2>4. QED
    BY <1>9, <2>2, <2>3 DEF Settled
<1>14. ASSUME NEW d \in Doc, \A i \in 1 .. k : docs[i].id # d
       PROVE  Settled(heap', data', mirror', deferred', d)
  <2>1. \A v : Shown(heap', data', d, v) => v = Gone
    BY <1>4, <1>5, <1>7, <1>14 DEF Shown
  <2>2. ASSUME NEW i \in 1 .. l, heap[data[i]].id = d
        PROVE  Shows(mirror', deferred', d, Gone)
    <3>1. i \in DOMAIN events /\ events[i].id = d
      BY <1>5, <1>8, <1>9, <2>2
    <3>2. ASSUME NEW j \in DOMAIN events, events[j].id = events[i].id PROVE j = i
      <4>1. CASE j \in 1 .. l
        BY <1>9, <1>11, <3>2, <4>1
      <4>2. ASSUME NEW f \in 1 .. k, j = l + f PROVE FALSE
        BY <1>9, <1>14, <3>1, <3>2, <4>2
      <4>3. QED
        BY <1>12, <4>1, <4>2
    <3>3. \A j \in DOMAIN events : j \in Nat
      BY <1>8
    <3>4. LastOn(events, d, i)
      BY <3>1, <3>2, <3>3, OnlyOne
    <3>5. Shows(mirror', deferred', d, Outcome(events[i]))
      BY <1>4, <1>8, <3>4, EmitShows
    <3>6. QED
      BY <1>9, <3>5
  <2>3. ASSUME \A i \in 1 .. l : heap[data[i]].id # d
        PROVE  Shows(mirror', deferred', d, Gone)
    <3>1. ASSUME NEW j \in DOMAIN events PROVE events[j].id # d
      BY <1>9, <1>12, <1>14, <2>3
    <3>2. ~ \E b \in Call : WaitsOn(heap, call[b], d)
      <4> SUFFICES ASSUME NEW b \in Call, Waits(call[b]), NEW f \in DOMAIN call[b].objs,
                          heap[call[b].objs[f]].id = d
                   PROVE  FALSE
        BY DEF WaitsOn
      <4>1. b # c /\ Flies(call[b])
        BY <1>6 DEF Waits, Flies
      <4>2. Area(setup.cap, call[b].docs) \cap Area(setup.cap, call[c].docs) = {}
        BY <1>6, <4>1 DEF MInv, Following, Separate
      <4>3. d \in Area(setup.cap, call[b].docs)
        BY DEF MInv, Following, Claims
      <4>4. d \in Area(setup.cap, call[c].docs)
        BY <1>1 DEF Area
      <4>5. QED
        BY <4>2, <4>3, <4>4
    <3>3. Settled(heap, data, mirror, deferred, d)
      BY <3>2 DEF MInv, Following
    <3>4. Shown(heap, data, d, Gone)
      BY <1>5, <2>3 DEF Shown
    <3>5. Shows(mirror, deferred, d, Gone)
      BY <3>3, <3>4 DEF Settled
    <3>6. QED
      BY <1>4, <1>8, <3>1, <3>5, EmitShows
  <2>4. QED
    BY <2>1, <2>2, <2>3 DEF Settled
<1>15. PICK D : D = Doc
  OBVIOUS
<1>16. /\ D \in SUBSET Area(setup.cap, call[c].docs)
       /\ \A d \in Doc \cap D : Settled(heap', data', mirror', deferred', d)
  BY <1>1, <1>13, <1>14, <1>15 DEF Area
<1>17. QED
  BY <1>1, <1>4, <1>6, <1>15, <1>16, EndsSettled

\* One event, of the document that is restored.
LEMMA EmitOne ==
  ASSUME TInv, NEW m, HeapStep(m), NEW e \in Events(m), EmitEvents(<<e>>)
  PROVE  /\ \A d \in Doc : \A v : d # e.id /\ Shows(mirror, deferred, d, v)
                              => Shows(mirror', deferred', d, v)
         /\ Shows(mirror', deferred', e.id, Outcome(e))
<1>1. PICK events : events = <<e>>
  OBVIOUS
<1>2. events \in Seq(Events(m)) /\ DOMAIN events = {1} /\ events[1] = e
  BY <1>1
<1>3. e.id \in Doc
  BY DEF Events
<1>4. LastOn(events, e.id, 1)
  BY <1>2 DEF LastOn
<1>5. \A d : d # e.id => \A j \in DOMAIN events : events[j].id # d
  BY <1>2
<1>6. ASSUME NEW d \in Doc, NEW v, d # e.id, Shows(mirror, deferred, d, v)
      PROVE  Shows(mirror', deferred', d, v)
  BY <1>1, <1>2, <1>5, <1>6, EmitShows
<1>7. Shows(mirror', deferred', e.id, Outcome(events[1]))
  BY <1>1, <1>2, <1>3, <1>4, EmitShows
<1>8. QED
  BY <1>2, <1>6, <1>7

LEMMA RestoreOneMirrors ==
  ASSUME TInv, MInv, VInv, Followable, NEW c \in Call, RestoreOne(c)
  PROVE  MInv'
<1>1. /\ call[c].stage = "read" /\ call[c].docs # <<>> /\ Ended(c, "done") /\ setup' = setup
  BY DEF RestoreOne
<1>2. /\ Flies(call[c]) /\ ~Waits(call[c])
      /\ \A e \in ToSet(call[c].entries) : Live(e)
  BY <1>1, ReadIsLive
<1>3. \A d : ~WaitsOn(heap, call[c], d)
  BY <1>2 DEF WaitsOn
<1>4. PICK n : n = Len(heap) /\ n \in Nat /\ DOMAIN heap = 1 .. n /\ data \in Seq(1 .. n)
               /\ \A a \in 1 .. n : heap[a] \in Objects(n)
  BY Sizes DEF TInv, DocsFit
<1>5. ASSUME NEW d \in Doc, d = call[c].docs[1]
      PROVE  {d} \in SUBSET Area(setup.cap, call[c].docs)
  <2>1. call[c].docs \in Seq(Doc)
    BY DEF TInv, Fits, CallsFit, Calls
  <2>2. d \in ToSet(call[c].docs)
    BY <1>1, <1>5, <2>1, HeadIs DEF ToSet
  <2>3. QED
    BY <2>1, <2>2, RequestArea
<1>6. CASE UNCHANGED <<heap, data, deferred, mirror, iter>>
  <2>1. HeapStep(n) /\ data' \in Seq(1 .. n) /\ \A d : Keeps(d)
    BY <1>4, <1>6, SameHeap DEF Keeps
  <2>2. PICK D : D = {}
    OBVIOUS
  <2>3. D \in SUBSET Area(setup.cap, call[c].docs) /\ Doc \cap D = {}
    BY <2>2
  <2>4. \A d \in Doc \ D : \A v : Shows(mirror, deferred, d, v) => Shows(mirror', deferred', d, v)
    BY <1>6
  <2>5. QED
    BY <1>1, <1>2, <1>3, <2>1, <2>3, <2>4, EndsSettled
<1>7. ASSUME NEW d \in Doc, NEW m, d = call[c].docs[1], TakenOut(d, m)
      PROVE  MInv'
  <2>1. /\ m = n /\ Holds(d) /\ heap' = heap /\ data' \in Seq(1 .. m)
        /\ ToSet(data') = {a \in ToSet(data) : heap[a].id # d}
        /\ EmitEvents(<<Event("delete", Address(d))>>)
    BY <1>4, <1>7 DEF TakenOut
  <2>2. PICK e : e = Event("delete", Address(d))
    OBVIOUS
  <2>3. e \in Events(m) /\ e.id = d /\ Outcome(e) = Gone
    <3>1. Address(d) \in 1 .. n /\ heap[Address(d)].id = d
      BY <1>4, <2>1, AddressIs
    <3>2. heap'[Address(d)] \in Objects(m)
      BY <1>4, <2>1, <3>1
    <3>3. QED
      BY <2>1, <2>2, <3>1, <3>2 DEF Event, Events, Objects, Op, Outcome
  <2>4. HeapStep(m)
    BY <1>4, <2>1, SameHeap
  <2>5. /\ \A f \in Doc \ {d} : \A v : Shows(mirror, deferred, f, v) => Shows(mirror', deferred', f, v)
        /\ Shows(mirror', deferred', d, Gone)
    BY <2>1, <2>2, <2>3, <2>4, EmitOne
  <2>6. \A f \in Doc \ {d} : Keeps(f)
    BY <2>1 DEF Keeps
  <2>7. \A i \in DOMAIN data' : heap'[data'[i]].id # d
    <3>1. \A i \in DOMAIN data' : data'[i] \in ToSet(data')
      BY DEF ToSet
    <3>2. QED
      BY <2>1, <3>1
  <2>8. Settled(heap', data', mirror', deferred', d)
    BY <2>5, <2>7 DEF Settled, Shown
  <2>9. PICK D : D = {d}
    OBVIOUS
  <2>10. /\ D \in SUBSET Area(setup.cap, call[c].docs)
         /\ \A f \in Doc \ D : Keeps(f) /\ ~WaitsOn(heap, call[c], f)
         /\ \A f \in Doc \cap D : Settled(heap', data', mirror', deferred', f)
    BY <1>3, <1>5, <1>7, <2>6, <2>8, <2>9
  <2>11. \A f \in Doc \ D : \A v : Shows(mirror, deferred, f, v) => Shows(mirror', deferred', f, v)
    BY <2>5, <2>9
  <2>12. QED
    BY <1>1, <1>2, <2>1, <2>4, <2>10, <2>11, EndsSettled
<1>8. ASSUME NEW d \in Doc, NEW m, NEW e \in ToSet(call[c].entries),
             d = call[c].docs[1], PutBack(d, e, m)
      PROVE  MInv'
  <2>1. /\ m = n + 1 /\ HeapStep(m) /\ \A a \in 1 .. n : heap'[a] = heap[a]
        /\ heap' \in Seq(Objects(m)) /\ Len(heap') = m
        /\ heap'[m] = Clone(e) /\ e.id = d /\ data' \in Seq(1 .. m)
    BY <1>4, <1>8 DEF PutBack, HeapStep
  <2>2. PICK k \in DOMAIN data' :
       /\ data'[k] = m
       /\ \A i \in DOMAIN data' : i # k => i \in DOMAIN data /\ data'[i] = data[i] /\ heap[data[i]].id # d
       /\ \A i \in DOMAIN data : heap[data[i]].id # d => i \in DOMAIN data' /\ i # k /\ data'[i] = data[i]
    BY <1>8 DEF PutBack
  <2>3. PICK op \in {"insert", "update"} : EmitEvents(<<Event(op, m)>>)
    BY <1>8 DEF PutBack
  <2>4. /\ heap'[m].id = d /\ heap'[m].val = e.val /\ ~heap'[m].deleted
        /\ DOMAIN heap' = 1 .. m /\ heap'[m] \in Objects(m) /\ m \notin 1 .. n
    <3>1. ~e.deleted
      BY <1>2, <1>8 DEF PutBack, Live
    <3>2. DOMAIN heap' = 1 .. m /\ m \in 1 .. m /\ m \notin 1 .. n
      BY <1>4, <2>1
    <3>3. QED
      BY <2>1, <3>1, <3>2 DEF Clone
  <2>5. PICK ev : ev = Event(op, m)
    OBVIOUS
  <2>6. ev \in Events(m) /\ ev.id = d /\ Outcome(ev) = heap'[m].val
    BY <2>4, <2>5 DEF Event, Events, Objects, Op, Outcome
  <2>7. /\ \A f \in Doc \ {d} : \A v : Shows(mirror, deferred, f, v) => Shows(mirror', deferred', f, v)
        /\ Shows(mirror', deferred', d, heap'[m].val)
    BY <2>1, <2>3, <2>5, <2>6, EmitOne
  <2>8. \A i \in DOMAIN data : data[i] \in 1 .. n
    BY <1>4, Elements
  <2>9. ASSUME NEW f \in Doc \ {d} PROVE Keeps(f)
    <3> SUFFICES ASSUME NEW a \in DOMAIN heap', heap'[a].id = f
                 PROVE  /\ a \in ToSet(data') <=> a \in ToSet(data)
                        /\ a \in DOMAIN heap => (heap'[a].deleted <=> heap[a].deleted)
      BY DEF Keeps
    <3>1. a \in 1 .. n /\ a # m
      BY <1>4, <2>1, <2>4
    <3>2. heap'[a] = heap[a] /\ heap[a].id # d
      BY <2>1, <3>1
    <3>3. a \in ToSet(data') => a \in ToSet(data)
      BY <2>2, <3>1 DEF ToSet
    <3>4. a \in ToSet(data) => a \in ToSet(data')
      BY <2>2, <3>2 DEF ToSet
    <3>5. QED
      BY <3>2, <3>3, <3>4
  <2>10. ASSUME NEW i \in DOMAIN data', heap'[data'[i]].id = d PROVE i = k
    <3> SUFFICES ASSUME i # k PROVE FALSE
      OBVIOUS
    <3>1. i \in DOMAIN data /\ data'[i] = data[i] /\ heap[data[i]].id # d
      BY <2>2
    <3>2. heap'[data[i]] = heap[data[i]]
      BY <2>1, <2>8, <3>1
    <3>3. QED
      BY <2>10, <3>1, <3>2
  <2>11. Settled(heap', data', mirror', deferred', d)
    BY <2>2, <2>4, <2>7, <2>10 DEF Settled, Shown
  <2>12. PICK D : D = {d}
    OBVIOUS
  <2>13. /\ D \in SUBSET Area(setup.cap, call[c].docs)
         /\ \A f \in Doc \ D : Keeps(f) /\ ~WaitsOn(heap, call[c], f)
         /\ \A f \in Doc \cap D : Settled(heap', data', mirror', deferred', f)
    BY <1>3, <1>5, <1>8, <2>9, <2>11, <2>12
  <2>14. \A f \in Doc \ D : \A v : Shows(mirror, deferred, f, v) => Shows(mirror', deferred', f, v)
    BY <2>7, <2>12
  <2>15. QED
    BY <1>1, <1>2, <2>1, <2>13, <2>14, EndsSettled
<1>9. QED
  BY <1>6, <1>7, <1>8, RestoreOneIs

\* What keeps the entries those of documents that were there.
LEMMA VStep ==
  ASSUME VInv, setup' = setup, tx' # "none" => tx # "none" \/ setup.tx # {},
         \A b \in Call : \/ call'[b] = call[b]
                         \/ call'[b].stage \in {"reading", "read"} =>
                              Rewinds \/ call[b].stage \in {"reading", "read"},
         Followable /\ EntriesAreCopies /\ EntriesLive =>
           /\ ~setup.soft =>
                \A a \in DOMAIN heap' : (a \in DOMAIN heap /\ heap'[a] = heap[a]) \/ ~heap'[a].deleted
           /\ \A i \in DOMAIN log' : (\E k \in DOMAIN log : log'[i] = log[k]) \/ Live(log'[i])
           /\ \A j \in DOMAIN deferred' : deferred'[j].kind = "stamped" =>
                (\E k \in DOMAIN deferred : deferred'[j] = deferred[k]) \/ Live(deferred'[j].entry)
           /\ \A b \in Call : \/ call'[b] = call[b]
                              \/ call'[b].stage \notin {"logging", "read"}
                              \/ \A i \in DOMAIN call'[b].entries : Live(call'[b].entries[i])
  PROVE  VInv'
<1>1. (tx # "none" => setup.tx # {})'
  BY DEF VInv
<1>2. /\ Followable' => Followable
      /\ EntriesAreCopies' <=> EntriesAreCopies
      /\ Rewinds' <=> Rewinds
  BY SameArea DEF EntriesAreCopies, Rewinds
<1>3. (Followable /\ EntriesAreCopies => EntriesLive)'
  <2> SUFFICES ASSUME Followable', EntriesAreCopies' PROVE EntriesLive'
    OBVIOUS
  <2>1. Followable /\ EntriesAreCopies /\ EntriesLive
    BY <1>2 DEF VInv
  <2>2. (~setup.soft => \A a \in DOMAIN heap : ~heap[a].deleted)'
    BY <2>1 DEF EntriesLive
  <2>3. ASSUME NEW i \in DOMAIN log' PROVE Live(log'[i])
    BY <2>1 DEF EntriesLive
  <2>4. ASSUME NEW j \in DOMAIN deferred', deferred'[j].kind = "stamped"
        PROVE  Live(deferred'[j].entry)
    BY <2>1, <2>4 DEF EntriesLive
  <2>5. ASSUME NEW b \in Call, call'[b].stage \in {"logging", "read"},
               NEW i \in DOMAIN call'[b].entries
        PROVE  Live(call'[b].entries[i])
    BY <2>1, <2>5 DEF EntriesLive
  <2>6. QED
    BY <2>2, <2>3, <2>4, <2>5 DEF EntriesLive
<1>4. (~Rewinds => \A c \in Call : call[c].stage \notin {"reading", "read"})'
  BY <1>2 DEF VInv
<1>5. QED
  BY <1>1, <1>3, <1>4 DEF VInv

\* Events leave the entries that wait as they are.
LEMMA EmitStamps ==
  ASSUME TInv, NEW m, NEW events \in Seq(Events(m)), EmitEvents(events)
  PROVE  \A j \in DOMAIN deferred' : deferred'[j].kind = "stamped" =>
           \E k \in DOMAIN deferred : deferred'[j] = deferred[k]
<1>1. CASE tx = "none"
  <2>1. deferred' = deferred
    BY <1>1 DEF EmitEvents
  <2>2. QED
    BY <2>1
<1>2. CASE tx # "none"
  <2>1. /\ \A i \in DOMAIN events : deferred'[Len(deferred) + i].kind = "event"
        /\ \A i \in DOMAIN deferred' :
              (i \in DOMAIN deferred /\ deferred'[i] = deferred[i])
              \/ \E j \in DOMAIN events : i = Len(deferred) + j
    BY <1>2, DeferIs
  <2>2. QED
    BY <2>1
<1>3. QED
  BY <1>1, <1>2

\* A call that starts or ends reads no log and has no entry on its way.
LEMMA StageIs ==
  ASSUME TInv, NEW c \in Call, NEW stage,
         \/ Ended(c, stage)
         \/ \E op, docs, objs : Started(c, stage, op, docs, objs)
  PROVE  \A b \in Call : call'[b] = call[b] \/ call'[b].stage = stage
<1>1. PICK r : r.stage = stage /\ call' = [call EXCEPT ![c] = r]
  <2>1. ASSUME NEW op, NEW docs, NEW objs, Started(c, stage, op, docs, objs)
        PROVE  \E r : r.stage = stage /\ call' = [call EXCEPT ![c] = r]
    <3>1. PICK r : r = [NoCall EXCEPT !.stage = stage, !.op = op, !.docs = docs, !.objs = objs]
      OBVIOUS
    <3>2. r.stage = stage /\ call' = [call EXCEPT ![c] = r]
      BY <2>1, <3>1 DEF Started, NoCall
    <3>3. QED
      BY <3>2
  <2>2. ASSUME Ended(c, stage)
        PROVE  \E r : r.stage = stage /\ call' = [call EXCEPT ![c] = r]
    <3>1. PICK r : r = [NoCall EXCEPT !.stage = stage, !.until = call[c].until]
      OBVIOUS
    <3>2. r.stage = stage /\ call' = [call EXCEPT ![c] = r]
      BY <2>2, <3>1 DEF Ended, NoCall
    <3>3. QED
      BY <3>2
  <2>3. QED
    BY <2>1, <2>2
<1>2. DOMAIN call = Call
  BY DEF TInv, Fits, CallsFit
<1>3. QED
  BY <1>1, <1>2

\* Objects that are made are not marked.
LEMMA MadeLive ==
  ASSUME TInv, NEW ids \in Seq(Doc), NEW m, Makes(ids, m)
  PROVE  \A a \in DOMAIN heap' : (a \in DOMAIN heap /\ heap'[a] = heap[a]) \/ ~heap'[a].deleted
<1>1. PICK n, k : /\ n = Len(heap) /\ n \in Nat /\ DOMAIN heap = 1 .. n
                  /\ k = Len(ids) /\ k \in Nat /\ DOMAIN ids = 1 .. k
  BY Sizes, Elements
<1>2. /\ DOMAIN heap' = 1 .. n + k
      /\ \A a \in 1 .. n : heap'[a] = heap[a]
      /\ \A i \in 1 .. k : ~heap'[n + i].deleted
  BY <1>1, Elements DEF Makes, HeapStep
<1>3. ASSUME NEW a \in 1 .. n + k, ~(a \in 1 .. n) PROVE ~heap'[a].deleted
  <2>1. a - n \in 1 .. k /\ a = n + (a - n)
    BY <1>1, <1>3
  <2>2. QED
    BY <1>2, <2>1
<1>4. QED
  BY <1>1, <1>2, <1>3

LEMMA MutateLives ==
  ASSUME TInv, VInv, NEW c \in Call, Mutate(c)
  PROVE  VInv'
<1>1. PICK docs : Insert(c, docs) \/ Update(c, docs) \/ Delete(c, docs) \/ Undelete(c, docs)
  BY DEF Mutate
<1>2. /\ setup' = setup /\ tx' = tx /\ log' = log
      /\ \E op, ds, objs : Started(c, "applied", op, ds, objs)
  BY <1>1 DEF Insert, Update, Delete, Undelete
<1>3. \A b \in Call : call'[b] = call[b] \/ call'[b].stage = "applied"
  BY <1>2, StageIs
<1>4. \A j \in DOMAIN deferred' : deferred'[j].kind = "stamped" =>
        \E k \in DOMAIN deferred : deferred'[j] = deferred[k]
  <2>1. CASE Insert(c, docs)
    <3>1. PICK m, all, k : Inserted(c, docs, m, all, k)
      BY <2>1, InsertIs
    <3>2. PICK events : events = [i \in 1 .. k |-> Event("delete", all[i])]
      OBVIOUS
    <3>3. events \in Seq(Events(m)) /\ EmitEvents(events)
      BY <3>1, <3>2 DEF Inserted
    <3>4. QED
      BY <3>3, EmitStamps
  <2>2. CASE Update(c, docs) \/ Delete(c, docs) \/ Undelete(c, docs)
    <3>1. deferred' = deferred
      BY <2>2 DEF Update, Delete, Undelete
    <3>2. QED
      BY <3>1
  <2>3. QED
    BY <1>1, <2>1, <2>2
<1>5. ~setup.soft =>
        \A a \in DOMAIN heap' : (a \in DOMAIN heap /\ heap'[a] = heap[a]) \/ ~heap'[a].deleted
  <2>1. CASE Insert(c, docs)
    <3>1. PICK m, all, k : Inserted(c, docs, m, all, k)
      BY <2>1, InsertIs
    <3>2. docs \in Seq(Doc) /\ Makes(docs, m)
      BY <3>1 DEF Inserted
    <3>3. QED
      BY <3>2, MadeLive
  <2>2. CASE Update(c, docs)
    <3>1. PICK found, m : Updated(c, docs, found, m)
      BY <2>2, UpdateIs
    <3>2. found \in Seq(Doc) /\ Makes(found, m)
      BY <3>1 DEF Updated
    <3>3. QED
      BY <3>2, MadeLive
  <2>3. CASE Delete(c, docs)
    <3>1. ~setup.soft => heap' = heap
      BY <2>3 DEF Delete
    <3>2. QED
      BY <3>1
  <2>4. CASE Undelete(c, docs)
    BY <2>4 DEF Undelete
  <2>5. QED
    BY <1>1, <2>1, <2>2, <2>3, <2>4
<1>6. QED
  BY <1>2, <1>3, <1>4, <1>5, VStep

LEMMA LogChangeLives ==
  ASSUME TInv, MInv, VInv, NEW c \in Call, LogChange(c)
  PROVE  VInv'
<1>1. UNCHANGED <<setup, heap, data, now, log, tx>>
  BY DEF LogChange
<1>2. PICK o : \E k \in DOMAIN call[c].objs :
           /\ o = call[c].objs[k] /\ o \in 1 .. Len(heap)
           /\ call[c].stage = "applied" /\ call'[c].docs = call[c].docs
           /\ call'[c].op = call[c].op /\ call'[c].objs = call[c].objs
           /\ \A b \in Call : b # c => call'[b] = call[b]
           /\ \/ /\ tx = "none" /\ deferred' = deferred
                 /\ call'[c].stage = "logging" /\ call'[c].entries = <<Entry(call[c].op, o)>>
              \/ /\ tx # "none" /\ call'[c].stage = "applied"
                 /\ deferred' = Append(deferred, [kind |-> "entry", op |-> call[c].op, obj |-> o])
  BY LogChangeIs
<1>3. /\ \A b \in Call : b # c => call'[b] = call[b]
      /\ call'[c].stage \in {"logging", "applied"}
  BY <1>2
<1>4. ASSUME Followable PROVE Live(Entry(call[c].op, o))
  <2>1. Claims(setup.cap, heap, data, call[c])
    BY <1>4 DEF MInv, Following
  <2>2. call[c].op # "delete" => ~heap[o].deleted
    BY <1>2, <2>1 DEF Claims, Waits, Made
  <2>3. QED
    BY <2>2 DEF Live, Entry
<1>5. ASSUME Followable
      PROVE  \/ call'[c].stage \notin {"logging", "read"}
             \/ \A i \in DOMAIN call'[c].entries : Live(call'[c].entries[i])
  <2>1. PICK e : e = Entry(call[c].op, o)
    OBVIOUS
  <2>2. call'[c].stage = "applied" \/ call'[c].entries = <<e>>
    BY <1>2, <2>1
  <2>3. Live(e)
    BY <1>4, <1>5, <2>1
  <2>4. QED
    BY <2>2, <2>3
<1>6. \A j \in DOMAIN deferred' : deferred'[j].kind = "stamped" =>
        \E k \in DOMAIN deferred : deferred'[j] = deferred[k]
  <2>1. CASE deferred' = deferred
    BY <2>1
  <2>2. PICK x : x = [kind |-> "entry", op |-> call[c].op, obj |-> o]
    OBVIOUS
  <2>3. CASE deferred' = Append(deferred, x)
    <3>1. PICK T, n : deferred \in Seq(T) /\ n = Len(deferred) /\ DOMAIN deferred = 1 .. n /\ n \in Nat
      BY Elements DEF TInv, Fits, WatchersFit
    <3>2. /\ DOMAIN deferred' = 1 .. n + 1 /\ deferred'[n + 1] = x
          /\ \A i \in 1 .. n : deferred'[i] = deferred[i]
      BY <2>3, <3>1
    <3>3. x.kind = "entry"
      BY <2>2
    <3>4. QED
      BY <3>1, <3>2, <3>3
  <2>4. QED
    BY <1>2, <2>1, <2>2, <2>3
<1>7. QED
  BY <1>1, <1>3, <1>5, <1>6, VStep

LEMMA LoggedLives ==
  ASSUME TInv, VInv, NEW c \in Call, Logged(c)
  PROVE  VInv'
<1>1. UNCHANGED <<setup, heap, deferred, tx>> /\ call[c].stage = "logging"
      /\ log' = log \o call[c].entries
  BY DEF Logged
<1>2. \A b \in Call : call'[b] = call[b] \/ call'[b].stage \in {"applied", "failed"}
  <2>1. CASE Ended(c, "failed")
    BY <2>1, StageIs
  <2>2. PICK r : r = [call[c] EXCEPT !.stage = "applied", !.at = call[c].at + 1, !.entries = <<>>]
    OBVIOUS
  <2>3. CASE call' = [call EXCEPT ![c] = r]
    <3>1. PICK m : m = Len(heap) /\ CallsFit(m, now)
      BY Standing
    <3>2. call \in [Call -> Calls(m, now)]
      BY <3>1 DEF CallsFit
    <3>3. r.stage = "applied"
      BY <2>2, <3>2 DEF Calls
    <3>4. QED
      BY <2>3, <3>2, <3>3
  <2>4. QED
    BY <2>1, <2>2, <2>3 DEF Logged
<1>3. ASSUME Followable, EntriesAreCopies, EntriesLive, NEW i \in DOMAIN log'
      PROVE  (\E k \in DOMAIN log : log'[i] = log[k]) \/ Live(log'[i])
  <2>1. PICK m, es : /\ m = Len(heap) /\ LogFits(m, now) /\ CallsFit(m, now)
                     /\ es = call[c].entries
    BY Standing
  <2>2. log \in Seq(Entries(m, now)) /\ es \in Seq(Entries(m, now))
    BY <2>1 DEF LogFits, CallsFit, Calls
  <2>3. i \in DOMAIN (log \o es) /\ log'[i] = (log \o es)[i]
    BY <1>1, <2>1
  <2>4. \/ i \in DOMAIN log /\ log'[i] = log[i]
        \/ \E j \in DOMAIN es : log'[i] = es[j]
    BY <2>2, <2>3, ConcatIs
  <2>5. \A j \in DOMAIN es : Live(es[j])
    BY <1>1, <1>3, <2>1 DEF EntriesLive
  <2>6. QED
    BY <2>4, <2>5
<1>4. QED
  BY <1>1, <1>2, <1>3, VStep

\* A step of a call that publishes and ends.
LEMMA EndLives ==
  ASSUME TInv, VInv, NEW c \in Call, Ended(c, "done"), setup' = setup, tx' = tx, log' = log,
         \/ deferred' = deferred
         \/ \E m : \E events \in Seq(Events(m)) : EmitEvents(events),
         Followable /\ EntriesAreCopies /\ EntriesLive =>
           \A a \in DOMAIN heap' : (a \in DOMAIN heap /\ heap'[a] = heap[a]) \/ ~heap'[a].deleted
  PROVE  VInv'
<1>1. \A b \in Call : call'[b] = call[b] \/ call'[b].stage = "done"
  BY StageIs
<1>2. \A j \in DOMAIN deferred' : deferred'[j].kind = "stamped" =>
        \E k \in DOMAIN deferred : deferred'[j] = deferred[k]
  <2>1. CASE deferred' = deferred
    BY <2>1
  <2>2. ASSUME NEW m, NEW events \in Seq(Events(m)), EmitEvents(events)
        PROVE  \A j \in DOMAIN deferred' : deferred'[j].kind = "stamped" =>
                 \E k \in DOMAIN deferred : deferred'[j] = deferred[k]
    BY <2>2, EmitStamps
  <2>3. QED
    BY <2>1, <2>2
<1>3. QED
  BY <1>1, <1>2, VStep

LEMMA EmitLives ==
  ASSUME TInv, VInv, NEW c \in Call, Emit(c)
  PROVE  VInv'
<1>1. UNCHANGED <<setup, heap, log, tx>> /\ Ended(c, "done")
  BY DEF Emit
<1>2. PICK objs, op, events : /\ objs = call[c].objs /\ op = call[c].op
                              /\ events = [i \in DOMAIN objs |-> Event(op, objs[i])]
  OBVIOUS
<1>3. EmitEvents(events)
  BY <1>2 DEF Emit
<1>4. PICK m : events \in Seq(Events(m))
  <2>1. PICK m : /\ m = Len(heap) /\ m \in Nat /\ CallsFit(m, now)
                 /\ \A a \in 1 .. m : heap[a] \in Objects(m)
    BY Standing
  <2>2. call[c] \in Calls(m, now)
    BY <2>1 DEF CallsFit
  <2>3. op \in Op /\ objs \in Seq(1 .. m)
    BY <1>2, <2>2 DEF Calls
  <2>4. PICK k : /\ k \in Nat /\ DOMAIN objs = 1 .. k
                 /\ \A i \in 1 .. k : objs[i] \in 1 .. m
    BY <2>3, Elements
  <2>5. \A i \in 1 .. k : Event(op, objs[i]) \in Events(m)
    BY <1>1, <2>1, <2>3, <2>4 DEF Event, Events, Objects
  <2>6. events = [i \in 1 .. k |-> events[i]] /\ \A i \in 1 .. k : events[i] \in Events(m)
    BY <1>2, <2>4, <2>5
  <2>7. events \in Seq(Events(m))
    BY <2>4, <2>6, SeqIs
  <2>8. QED
    BY <2>7
<1>5. QED
  BY <1>1, <1>3, <1>4, EndLives

LEMMA RestoreAllLives ==
  ASSUME TInv, VInv, NEW c \in Call, RestoreAll(c)
  PROVE  VInv'
<1>1. /\ call[c].stage = "read" /\ Ended(c, "done") /\ UNCHANGED <<setup, log, tx>>
  BY DEF RestoreAll
<1>2. PICK docs, m, gone, new :
           /\ docs \in Seq({e \in ToSet(call[c].entries) : e.op \notin {"delete", "restore"}})
           /\ RestoredAll(docs, m)
           /\ gone \in Seq(Events(m)) /\ new \in Seq(Events(m)) /\ EmitEvents(gone \o new)
  BY RestoreAllIs
<1>3. PICK events : events = gone \o new /\ events \in Seq(Events(m)) /\ EmitEvents(events)
  <2>1. gone \o new \in Seq(Events(m))
    BY <1>2, ConcatIs
  <2>2. QED
    BY <1>2, <2>1
<1>4. ASSUME Followable, EntriesAreCopies, EntriesLive, NEW a \in DOMAIN heap'
      PROVE  (a \in DOMAIN heap /\ heap'[a] = heap[a]) \/ ~heap'[a].deleted
  <2>1. PICK n, k : /\ n = Len(heap) /\ n \in Nat /\ DOMAIN heap = 1 .. n
                    /\ k = Len(docs) /\ k \in Nat /\ DOMAIN docs = 1 .. k
                    /\ \A i \in 1 .. k : docs[i] \in ToSet(call[c].entries) /\ docs[i].op # "delete"
    <3>1. /\ Len(docs) \in Nat /\ DOMAIN docs = 1 .. Len(docs)
          /\ \A i \in 1 .. Len(docs) :
               docs[i] \in {e \in ToSet(call[c].entries) : e.op \notin {"delete", "restore"}}
      BY <1>2, Elements
    <3>2. Len(heap) \in Nat /\ DOMAIN heap = 1 .. Len(heap)
      BY Sizes
    <3>3. QED
      BY <3>1, <3>2
  <2>2. /\ DOMAIN heap' = 1 .. n + k
        /\ \A b \in 1 .. n : heap'[b] = heap[b]
        /\ \A i \in 1 .. k : heap'[n + i] = Clone(docs[i])
    BY <1>2, <2>1, Elements DEF RestoredAll, HeapStep
  <2>3. \A e \in ToSet(call[c].entries) : Live(e)
    BY <1>1, <1>4 DEF EntriesLive, ToSet
  <2>4. CASE a \in 1 .. n
    BY <2>1, <2>2, <2>4
  <2>5. CASE a \notin 1 .. n
    <3>1. PICK i \in 1 .. k : a = n + i
      <4>1. a - n \in 1 .. k /\ a = n + (a - n)
        BY <1>4, <2>1, <2>2, <2>5
      <4>2. QED
        BY <4>1
    <3>2. heap'[a] = Clone(docs[i])
      BY <2>2, <3>1
    <3>3. ~docs[i].deleted
      BY <2>1, <2>3 DEF Live
    <3>4. QED
      BY <3>2, <3>3 DEF Clone
  <2>6. QED
    BY <2>4, <2>5
<1>5. QED
  BY <1>1, <1>3, <1>4, EndLives

LEMMA RestoreOneLives ==
  ASSUME TInv, VInv, NEW c \in Call, RestoreOne(c)
  PROVE  VInv'
<1>1. /\ call[c].stage = "read" /\ Ended(c, "done") /\ UNCHANGED <<setup, log, tx>>
  BY DEF RestoreOne
<1>2. CASE heap' = heap /\ deferred' = deferred
  BY <1>1, <1>2, EndLives
<1>3. ASSUME NEW d \in Doc, NEW m, TakenOut(d, m)
      PROVE  VInv'
  <2>1. PICK e, a : e = Event("delete", a) /\ a = Address(d) /\ EmitEvents(<<e>>)
    BY <1>3 DEF TakenOut
  <2>2. PICK n : n = Len(heap) /\ n \in Nat /\ heap[a] \in Objects(n) /\ heap' = heap
    BY <1>3, <2>1, AddressIs, Sizes DEF TakenOut
  <2>3. e \in Events(n)
    BY <2>1, <2>2 DEF Event, Events, Objects, Op
  <2>4. <<e>> \in Seq(Events(n))
    BY <2>3
  <2>5. QED
    BY <1>1, <2>1, <2>2, <2>4, EndLives
<1>4. ASSUME NEW d \in Doc, NEW m, NEW x \in ToSet(call[c].entries), PutBack(d, x, m)
      PROVE  VInv'
  <2>1. PICK op \in {"insert", "update"} : EmitEvents(<<Event(op, m)>>)
    BY <1>4 DEF PutBack
  <2>2. PICK e : e = Event(op, m) /\ EmitEvents(<<e>>)
    BY <2>1
  <2>3. PICK n : n = Len(heap) /\ n \in Nat /\ DOMAIN heap = 1 .. n
    BY Sizes
  <2>4. /\ m = n + 1 /\ heap' \in Seq(Objects(m)) /\ Len(heap') = m /\ DOMAIN heap' = 1 .. m
        /\ \A a \in 1 .. n : heap'[a] = heap[a]
        /\ heap'[m] = Clone(x) /\ x.op # "delete"
    BY <1>4, <2>3, Elements DEF PutBack, HeapStep
  <2>5. heap'[m] \in Objects(m)
    BY <2>3, <2>4, Elements
  <2>6. e \in Events(m)
    BY <2>1, <2>2, <2>5 DEF Event, Events, Objects, Op
  <2>7. <<e>> \in Seq(Events(m))
    BY <2>6
  <2>8. ASSUME Followable, EntriesAreCopies, EntriesLive, NEW a \in DOMAIN heap'
        PROVE  (a \in DOMAIN heap /\ heap'[a] = heap[a]) \/ ~heap'[a].deleted
    <3>1. ~x.deleted
      BY <1>1, <2>4, <2>8 DEF EntriesLive, Live, ToSet
    <3>2. a \in 1 .. n \/ a = m
      BY <2>3, <2>4, <2>8
    <3>3. QED
      BY <2>3, <2>4, <3>1, <3>2 DEF Clone
  <2>9. QED
    BY <1>1, <2>2, <2>7, <2>8, EndLives
<1>5. QED
  BY <1>2, <1>3, <1>4, RestoreOneIs

LEMMA ReadLives ==
  ASSUME TInv, VInv, NEW c \in Call, ReadLog(c) \/ \E docs : Rewind(c, docs)
  PROVE  VInv'
<1>1. UNCHANGED <<setup, heap, log, deferred, tx>>
  BY DEF ReadLog, Rewind
<1>2. CASE ReadLog(c)
  <2>1. /\ call[c].stage = "reading" /\ call'[c].stage = "read"
        /\ \A b \in Call : b # c => call'[b] = call[b]
    BY <1>2, ReadLogIs
  <2>2. PICK es : es = call'[c].entries /\ es \in Seq(ToSet(log))
    BY <1>2, ReadLogTypes
  <2>3. ASSUME EntriesLive PROVE \A i \in DOMAIN es : Live(es[i])
    <3>1. \A i \in DOMAIN es : es[i] \in ToSet(log)
      BY <2>2, Elements
    <3>2. \A e \in ToSet(log) : Live(e)
      BY <2>3 DEF EntriesLive, ToSet
    <3>3. QED
      BY <3>1, <3>2
  <2>4. QED
    BY <1>1, <2>1, <2>2, <2>3, VStep
<1>3. ASSUME NEW docs, Rewind(c, docs) PROVE VInv'
  <2>1. /\ MayStart(c, "rewind", docs) /\ call'[c].stage = "reading"
        /\ \A b \in Call : b # c => call'[b] = call[b]
    BY <1>3, RewindIs
  <2>2. Rewinds
    <3>1. PICK r \in setup.requests : r = [op |-> "rewind", docs |-> docs]
      BY <2>1 DEF MayStart
    <3>2. r.op = "rewind"
      BY <3>1
    <3>3. QED
      BY <3>2 DEF Rewinds
  <2>3. QED
    BY <1>1, <2>1, <2>2, VStep
<1>4. QED
  BY <1>2, <1>3

LEMMA EffectsLive ==
  ASSUME TInv, VInv, FlushEvent \/ FlushEntry \/ FlushLogged
  PROVE  VInv'
<1>1. UNCHANGED <<setup, heap, call, tx>> /\ tx = "flushing" /\ deferred # <<>>
  BY DEF FlushEvent, FlushEntry, FlushLogged
<1>2. PICK n, k, h : /\ n = Len(heap) /\ k = Len(deferred) /\ h = Head(deferred)
  OBVIOUS
<1>3. /\ deferred \in Seq(Deferred(n, now)) /\ k \in Nat /\ DOMAIN deferred = 1 .. k
      /\ h = deferred[1] /\ 1 \in 1 .. k /\ h \in Deferred(n, now)
  BY <1>1, <1>2, Elements, HeadIs DEF TInv, Fits, WatchersFit
<1>4. ASSUME deferred' = Tail(deferred)
      PROVE  \A j \in DOMAIN deferred' : \E i \in DOMAIN deferred : deferred'[j] = deferred[i]
  <2>1. DOMAIN deferred' = 1 .. k - 1 /\ \A i \in 1 .. k - 1 : deferred'[i] = deferred[i + 1]
    <3>1. /\ Tail(deferred) \in Seq(Deferred(n, now)) /\ Len(Tail(deferred)) = k - 1
          /\ \A i \in 1 .. k - 1 : Tail(deferred)[i] = deferred[i + 1]
      BY <1>1, <1>2, <1>3, HeadIs
    <3>2. QED
      BY <1>4, <3>1, Elements
  <2>2. \A i \in 1 .. k - 1 : i + 1 \in 1 .. k
    BY <1>3
  <2>3. QED
    BY <1>3, <2>1, <2>2
<1>5. CASE FlushEvent
  <2>1. log' = log /\ deferred' = Tail(deferred)
    BY <1>5 DEF FlushEvent
  <2>2. QED
    BY <1>1, <1>4, <2>1, VStep
<1>6. CASE FlushEntry
  <2>1. PICK e, x : /\ e = Entry(h.op, h.obj) /\ x = [kind |-> "stamped", entry |-> e]
                    /\ h.kind = "entry" /\ log' = log /\ deferred' = [deferred EXCEPT ![1] = x]
    BY <1>2, <1>6 DEF FlushEntry
  <2>2. h.obj \in 1 .. n
    BY <1>3, <2>1 DEF Deferred
  <2>3. ASSUME Followable, EntriesAreCopies, EntriesLive PROVE Live(e)
    <3>1. ~setup.soft
      BY <1>1, <2>3 DEF VInv, EntriesAreCopies
    <3>2. h.obj \in DOMAIN heap
      BY <1>2, <2>2, Sizes
    <3>3. ~heap[h.obj].deleted
      BY <2>3, <3>1, <3>2 DEF EntriesLive
    <3>4. QED
      BY <2>1, <3>3 DEF Live, Entry
  <2>4. \A j \in DOMAIN deferred' :
          \/ j = 1 /\ deferred'[j] = x
          \/ j \in DOMAIN deferred /\ deferred'[j] = deferred[j]
    BY <1>3, <2>1
  <2>5. x.entry = e
    BY <2>1
  <2>6. QED
    BY <1>1, <2>1, <2>3, <2>4, <2>5, VStep
<1>7. CASE FlushLogged
  <2>1. PICK e : e = h.entry /\ h.kind = "stamped" /\ log' = Append(log, e) /\ deferred' = Tail(deferred)
    BY <1>2, <1>7 DEF FlushLogged
  <2>2. EntriesLive => Live(e)
    BY <1>3, <2>1 DEF EntriesLive
  <2>3. \A i \in DOMAIN log' : (i \in DOMAIN log /\ log'[i] = log[i]) \/ log'[i] = e
    <3>1. PICK l : /\ l = Len(log) /\ l \in Nat /\ DOMAIN log = 1 .. l
                   /\ log \in Seq(Entries(n, now))
      BY <1>2, Elements DEF TInv, Fits, LogFits
    <3>2. e \in Entries(n, now)
      BY <1>3, <2>1 DEF Deferred
    <3>3. /\ DOMAIN log' = 1 .. l + 1 /\ log'[l + 1] = e
          /\ \A i \in 1 .. l : log'[i] = log[i]
      BY <2>1, <3>1, <3>2
    <3>4. QED
      BY <3>1, <3>3
  <2>4. QED
    BY <1>1, <1>4, <2>1, <2>2, <2>3, VStep
<1>8. QED
  BY <1>5, <1>6, <1>7

LEMMA OthersLive ==
  ASSUME TInv, VInv,
         \/ \E c \in Call : SaveFails(c)
         \/ \E d \in Doc : Sweep(d)
         \/ Begin \/ Commit \/ Abort \/ FlushEnds \/ Tick \/ Pull \/ Return \/ UNCHANGED vars
  PROVE  VInv'
<1>1. UNCHANGED <<setup, heap, log>>
  BY DEF SaveFails, Sweep, Begin, Commit, Abort, FlushEnds, Tick, Pull, Return, vars
<1>2. tx' # "none" => tx # "none" \/ setup.tx # {}
  BY DEF SaveFails, Sweep, Begin, Commit, Abort, FlushEnds, Tick, Pull, Return, vars
<1>3. deferred' = deferred \/ deferred' = <<>>
  BY DEF SaveFails, Sweep, Begin, Commit, Abort, FlushEnds, Tick, Pull, Return, vars
<1>4. \A b \in Call : call'[b] = call[b] \/ call'[b].stage = "failed"
  <2>1. ASSUME NEW c \in Call, SaveFails(c)
        PROVE  \A b \in Call : call'[b] = call[b] \/ call'[b].stage = "failed"
    <3>1. Ended(c, "failed")
      BY <2>1 DEF SaveFails
    <3>2. QED
      BY <3>1, StageIs
  <2>2. CASE ~ \E c \in Call : SaveFails(c)
    <3>1. call' = call
      BY <2>2 DEF Sweep, Begin, Commit, Abort, FlushEnds, Tick, Pull, Return, vars
    <3>2. QED
      BY <3>1
  <2>3. QED
    BY <2>1, <2>2
<1>5. QED
  BY <1>1, <1>2, <1>3, <1>4, VStep

LEMMA InitMirrors ==
  ASSUME Init
  PROVE  MInv /\ VInv
<1>1. PICK l : /\ l = Len(setup.loaded) /\ l \in Nat /\ l = Len(heap)
               /\ \A i \in 1 .. l : heap[i].id = setup.loaded[i] /\ heap[i].val = i
               /\ setup.loaded \in Seq(Doc) /\ IsInjective(setup.loaded)
  BY InitDocs
<1>2. /\ DOMAIN setup.loaded = 1 .. l
      /\ heap = [i \in 1 .. l |-> [id |-> setup.loaded[i], val |-> i, deleted |-> FALSE]]
      /\ data = [i \in 1 .. l |-> i]
      /\ deferred = <<>> /\ log = <<>> /\ tx = "none"
  BY <1>1, Elements DEF Init
<1>3. \A i \in 1 .. l : data[i] = i /\ ~heap[i].deleted
  BY <1>2
<1>4. \A c \in Call : call[c].stage = "idle"
  BY DEF Init, NoCall
<1>5. \A c \in Call : ~Waits(call[c]) /\ ~Flies(call[c])
  BY <1>4 DEF Waits, Flies
<1>6. ASSUME NEW d \in Doc, NEW v, Shown(heap, data, d, v)
      PROVE  v = mirror[d]
  <2>1. CASE \E i \in 1 .. l : setup.loaded[i] = d
    <3>1. PICK i \in 1 .. l : setup.loaded[i] = d
      BY <2>1
    <3>2. mirror[d] = CHOOSE k \in 1 .. l : setup.loaded[k] = d
      BY <1>2, <2>1 DEF Init
    <3>3. mirror[d] \in 1 .. l /\ setup.loaded[mirror[d]] = d
      BY <3>1, <3>2
    <3>4. mirror[d] = i
      BY <1>1, <1>2, <3>1, <3>3 DEF IsInjective
    <3>5. i \in DOMAIN data /\ heap[data[i]].id = d
      BY <1>1, <1>2, <1>3, <3>1
    <3>6. PICK j \in DOMAIN data : /\ heap[data[j]].id = d
                                   /\ v = IF heap[data[j]].deleted THEN Gone ELSE heap[data[j]].val
      BY <1>6, <3>5 DEF Shown
    <3>7. j \in 1 .. l /\ data[j] = j /\ setup.loaded[j] = d
      BY <1>1, <1>2, <1>3, <3>6
    <3>8. j = i
      BY <1>1, <1>2, <3>1, <3>7 DEF IsInjective
    <3>9. QED
      BY <1>1, <1>3, <3>4, <3>6, <3>7, <3>8
  <2>2. CASE ~ \E i \in 1 .. l : setup.loaded[i] = d
    <3>1. mirror[d] = Gone
      BY <1>2, <2>2 DEF Init
    <3>2. \A j \in DOMAIN data : heap[data[j]].id # d
      BY <1>1, <1>2, <1>3, <2>2
    <3>3. QED
      BY <1>6, <3>1, <3>2 DEF Shown
  <2>3. QED
    BY <2>1, <2>2
<1>7. MInv
  <2>1. \A d \in Doc : Settled(heap, data, mirror, deferred, d)
    BY <1>2, <1>6 DEF Settled, Shows
  <2>2. QED
    BY <1>5, <2>1 DEF MInv, Following, Separate, Claims
<1>8. VInv
  <2>1. EntriesLive
    BY <1>2, <1>3, <1>4 DEF EntriesLive
  <2>2. QED
    BY <1>2, <1>4, <2>1 DEF VInv
<1>9. QED
  BY <1>7, <1>8

LEMMA NextMirrors ==
  ASSUME TInv, MInv, VInv, [Next]_vars
  PROVE  MInv'
<1>1. setup' = setup
  BY DEF Next, Mutate, SaveFails, Follows, Restores, Effects, Insert, Update, Delete, Undelete,
         LogChange, Logged, Emit, ReadLog, RestoreAll, RestoreOne, Rewind, Sweep, Begin, Commit,
         Abort, FlushEvent, FlushEntry, FlushLogged, FlushEnds, Tick, Pull, Return, vars
<1>2. CASE ~Followable
  BY <1>1, <1>2, SameArea DEF MInv
<1>3. CASE Followable
  <2>1. ASSUME NEW c \in Call, Mutate(c) PROVE MInv'
    BY <1>3, <2>1, InsertMirrors, UpdateMirrors, DeleteMirrors, UndeleteMirrors DEF Mutate
  <2>2. ASSUME NEW c \in Call, Follows(c) \/ Restores(c) PROVE MInv'
    BY <1>3, <2>2, LogChangeMirrors, LoggedMirrors, EmitMirrors, ReadLogMirrors,
       RestoreAllMirrors, RestoreOneMirrors DEF Follows, Restores
  <2>3. ASSUME NEW c \in Call, NEW docs, Rewind(c, docs) PROVE MInv'
    BY <1>3, <2>3, RewindMirrors
  <2>4. CASE FlushEvent \/ FlushEntry \/ FlushLogged
    BY <1>3, <2>4, FlushEventMirrors, FlushEntryMirrors
  <2>5. CASE Begin \/ Commit \/ FlushEnds \/ Tick \/ Pull \/ Return \/ UNCHANGED vars
    BY <1>3, <2>5, OthersMirror
  <2>6. /\ \A c \in Call : ~SaveFails(c)
        /\ \A d \in Doc : ~Sweep(d)
        /\ ~Abort
    BY <1>3 DEF Followable, SaveFails, Sweep, Abort
  <2>7. QED
    BY <2>1, <2>2, <2>3, <2>4, <2>5, <2>6 DEF Next, Effects
<1>4. QED
  BY <1>2, <1>3

LEMMA NextLives ==
  ASSUME TInv, MInv, VInv, [Next]_vars
  PROVE  VInv'
<1>1. ASSUME NEW c \in Call, Mutate(c) \/ Follows(c) \/ Restores(c) PROVE VInv'
  BY <1>1, MutateLives, LogChangeLives, LoggedLives, EmitLives, ReadLives,
     RestoreAllLives, RestoreOneLives DEF Follows, Restores
<1>2. ASSUME NEW c \in Call, NEW docs, Rewind(c, docs) PROVE VInv'
  BY <1>2, ReadLives
<1>3. CASE FlushEvent \/ FlushEntry \/ FlushLogged
  BY <1>3, EffectsLive
<1>4. CASE \/ \E c \in Call : SaveFails(c)
           \/ \E d \in Doc : Sweep(d)
           \/ Begin \/ Commit \/ Abort \/ FlushEnds \/ Tick \/ Pull \/ Return \/ UNCHANGED vars
  BY <1>4, OthersLive
<1>5. QED
  BY <1>1, <1>2, <1>3, <1>4 DEF Next, Effects

LEMMA QuietMirrors ==
  ASSUME TInv, MInv
  PROVE  MirrorAgrees
<1> SUFFICES ASSUME Followable, Quiet, NEW d \in Doc
             PROVE  mirror[d] = Visible(d)
  BY DEF MirrorAgrees, Followable, Rewinds
<1>1. \A c \in Call : ~WaitsOn(heap, call[c], d)
  BY DEF Quiet, InFlight, WaitsOn, Waits
<1>2. Settled(heap, data, mirror, deferred, d)
  BY <1>1 DEF MInv, Following
<1>3. Shown(heap, data, d, Visible(d))
  BY VisibleIs
<1>4. Shows(mirror, deferred, d, Visible(d)) /\ deferred = <<>>
  BY <1>2, <1>3 DEF Settled, Quiet
<1>5. QED
  BY <1>4 DEF Shows

\* A watcher that applies each event to a copy has the collection whenever no
\* event is on its way (collection.js, pipeline.js, event-bus.js): through
\* updates of several documents, evictions, soft deletes, db.restore(), and
\* transactions that hold events back, for any callers that await one another
\* on a document.
THEOREM WatchersAgree == Spec => []MirrorAgrees
<1>1. Init => MInv /\ VInv
  BY InitMirrors
<1>2. TInv /\ MInv /\ VInv /\ [Next]_vars => MInv' /\ VInv'
  BY NextMirrors, NextLives
<1>3. TInv /\ MInv => MirrorAgrees
  BY QuietMirrors
<1>4. QED
  BY <1>1, <1>2, <1>3, TypesHold, PTL DEF Spec
=============================================================================
