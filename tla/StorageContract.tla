-------------------------- MODULE StorageContract ---------------------------
(***************************************************************************)
(* What the engine may expect of a storage adapter: a file has the contents*)
(* of one write, whole, or none; a call takes effect between its beginning *)
(* and its answer, entry by entry or as one; one that failed, or was cut   *)
(* off by a crash, may have stored the first of its entries.               *)
(***************************************************************************)
EXTENDS Naturals, Sequences

CONSTANTS Request,   \* calls, each made once
          File       \* names

VARIABLES
  whole,    \* whether the entries of a batch are stored as one (never changes)
  content,  \* what each file has
  asked     \* each call: its state, the entries it has yet to store, what it saw

vars == <<whole, content, asked>>

\* An entry says what a file shall have; seen is <<>> until a call that asks
\* looks, and then a sequence of one.
Unasked == [state |-> "idle", asks |-> FALSE, todo |-> <<>>, seen |-> <<>>]

Init ==
  /\ whole \in BOOLEAN
  /\ \A r \in Request : asked[r] = Unasked

Become(r, a) == asked' = [asked EXCEPT ![r] = a]

Begin(r, a) ==
  /\ asked[r].state = "idle"
  /\ a.state = "busy" /\ a.seen = <<>> /\ (a.asks => a.todo = <<>>)
  /\ Become(r, a)
  /\ UNCHANGED <<whole, content>>

\* Entries of a call that are stored at once; the call may end with them.
Take(r, k, state) ==
  LET todo == asked[r].todo
  IN  /\ asked[r].state = "busy"
      /\ whole => k = Len(todo)
      /\ state = "ok" => k = Len(todo)
      /\ content' = [f \in File |->
           IF \E i \in 1 .. k : todo[i].file = f
           THEN todo[CHOOSE i \in 1 .. k : todo[i].file = f].val ELSE content[f]]
      /\ Become(r, [asked[r] EXCEPT !.todo = SubSeq(todo, k + 1, Len(todo)), !.state = state])
      /\ UNCHANGED whole

\* A call looks at one file, or at which there are.
Names == {f \in File : content[f] # "missing"}

Look(r, state) ==
  /\ asked[r].state = "busy" /\ asked[r].asks /\ asked[r].seen = <<>>
  /\ \E what \in {{content[f]} : f \in File} \union {Names} :
       Become(r, [asked[r] EXCEPT !.seen = <<what>>, !.state = state])
  /\ UNCHANGED <<whole, content>>

End(r, state) ==
  /\ asked[r].state = "busy"
  /\ state = "ok" => asked[r].todo = <<>> /\ (asked[r].asks => asked[r].seen # <<>>)
  /\ Become(r, [asked[r] EXCEPT !.state = state])
  /\ UNCHANGED <<whole, content>>

Crash ==
  /\ asked' = [r \in Request |-> IF asked[r].state = "busy" THEN [asked[r] EXCEPT !.state = "error"]
                                 ELSE asked[r]]
  /\ UNCHANGED <<whole, content>>

Next ==
  \/ \E r \in Request :
       \/ Begin(r, asked'[r])
       \/ \E k \in 1 .. Len(asked[r].todo), state \in {"busy", "ok", "error"} : Take(r, k, state)
       \/ \E state \in {"busy", "ok", "error"} : Look(r, state)
       \/ \E state \in {"ok", "error"} : End(r, state)
  \/ Crash

Spec == Init /\ [][Next]_vars
=============================================================================
