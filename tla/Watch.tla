------------------------------- MODULE Watch --------------------------------
(***************************************************************************)
(* What watch() returns without a callback: an iterator over the events of *)
(* a collection, with a buffer that drops its oldest event when it is full.*)
(* Its state is a record; the operators are the listener it registers with *)
(* the event bus and the calls of its consumer.                            *)
(*                                                                         *)
(* next() answers with a promise.  A promise is the number of the call that*)
(* it answers; resolve holds the one that the next event will settle.      *)
(***************************************************************************)
EXTENDS Naturals, Sequences

\* queue: the buffer; resolve: the promise that waits (0: none); dropped: the
\* counter; done: return() was called.  Then what the consumer knows: how often
\* it called next(), which of these promises are settled, how many events it got;
\* and how many were published while it was subscribed.
Idle == [queue |-> <<>>, resolve |-> 0, dropped |-> 0, done |-> FALSE,
         asked |-> 0, settled |-> {}, got |-> 0, published |-> 0]

Settle(it, p) == [it EXCEPT !.settled = @ \union {p}]

\* Mutant: the buffer drops without counting.
HearDropsSilently(it, event, size) ==
  IF it.done THEN it
  ELSE IF it.resolve # 0
       THEN [Settle(it, it.resolve) EXCEPT !.published = @ + 1, !.resolve = 0, !.got = @ + 1]
       ELSE [it EXCEPT !.published = @ + 1,
                       !.queue = IF Len(@) < size THEN Append(@, event) ELSE Append(Tail(@), event)]

\* The listener: an event goes to the promise that waits, or to the buffer.
\* return() has taken the listener off the bus.
Hear(it, event, size) ==
  IF it.done THEN it
  ELSE IF it.resolve # 0
       THEN [Settle(it, it.resolve) EXCEPT !.published = @ + 1, !.resolve = 0, !.got = @ + 1]
       ELSE LET full == Len(it.queue) >= size
            IN  [it EXCEPT !.published = @ + 1,
                           !.dropped   = IF full THEN @ + 1 ELSE @,
                           !.queue     = Append(IF full THEN Tail(@) ELSE @, event)]

\* next(): an event of the buffer, the end, or a promise that takes the place
\* of the one that waited.
Ask(it) ==
  LET p == it.asked + 1
      asked == [it EXCEPT !.asked = p]
  IN  IF it.queue # <<>>
      THEN [Settle(asked, p) EXCEPT !.queue = Tail(@), !.got = @ + 1]
      ELSE IF it.done THEN Settle(asked, p)
      ELSE [asked EXCEPT !.resolve = p]

\* return(): no more events, and who waits hears that it is over.
Leave(it) ==
  LET left == [it EXCEPT !.done = TRUE, !.resolve = 0]
  IN  IF it.resolve # 0 THEN Settle(left, it.resolve) ELSE left

\* Promises of next() that are not settled.
Waiting(it) == (1 .. it.asked) \ it.settled
=============================================================================
