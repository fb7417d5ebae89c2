------------------------------ MODULE MCAgent -------------------------------
(* Configurations for Agent: a memory, or somebody who asks. *)
EXTENDS Agent, TLC

Once == [retries |-> 0, timed |-> FALSE]
Twice == [retries |-> 1, timed |-> TRUE]

Memoryless ==
  [maxEntries |-> 0, keepRecent |-> 0, threshold |-> 0, serial |-> TRUE, fails |-> FALSE,
   ops |-> {}, limits |-> Once]

\* Callers that overlap, with a limit that remember() keeps to.
Crowded ==
  [Memoryless EXCEPT !.maxEntries = 1, !.keepRecent = 1, !.serial = FALSE,
                     !.ops = {"remember", "forget"}]

\* One call after the other, and a provider that is tried twice.
Orderly ==
  [Crowded EXCEPT !.serial = TRUE, !.threshold = 5, !.ops = {"remember"}, !.limits = Twice]

\* compress() on demand, beside remember(), and deletes that fail.
OnDemand ==
  [Crowded EXCEPT !.maxEntries = 0, !.threshold = 1, !.ops = {"remember", "compress"}]
Failing == [OnDemand EXCEPT !.fails = TRUE, !.keepRecent = 0, !.serial = TRUE]

\* Nobody asks, where the time is over.
Askless == [maxSize |-> 1, ttl |-> 0, schemas |-> 1, time |-> 1, restarts |-> FALSE,
            questions |-> {}, hash |-> [q \in Question |-> <<1, 1>>], limits |-> Once]

\* Questions and schemas that the hash tells apart, and questions that it does
\* not, like two that differ in "Ab" and "BA".
Apart(a) == [a EXCEPT !.hash["q1"] = <<1, 2>>, !.hash["q2"] = <<3, 4>>]
Alike(a) == [a EXCEPT !.hash = [q \in Question |-> <<1, 2>>]]

\* A cache of two, and a schema that changes.
Asked == [Askless EXCEPT !.maxSize = 2, !.schemas = 2, !.questions = {"q1", "q2"}]

\* A cache whose entries live for a day, and a process that starts again.
Daily == [Askless EXCEPT !.ttl = 1, !.time = 3, !.restarts = TRUE, !.questions = {"q1"}]

\* A cache of one, and a provider that is tried twice.
Patient == [Askless EXCEPT !.questions = {"q1", "q2"}, !.limits = Twice]

MCSetups == {<<m, Askless>> : m \in {Crowded, Orderly, OnDemand, Failing}}
            \union {<<Memoryless, Apart(a)>> : a \in {Asked, Daily, Patient}}
            \union {<<Memoryless, Alike(Asked)>>}
=============================================================================
