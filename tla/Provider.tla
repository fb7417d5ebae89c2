------------------------------ MODULE Provider ------------------------------
(***************************************************************************)
(* A request to a provider of models: generate(), summarize(), embed() of  *)
(* the adapters for OpenAI, Anthropic and Ollama, which differ in wording. *)
(* They share fetchWithRetry().  The state of a request is a record, moved *)
(* on by the callers' modules.                                             *)
(***************************************************************************)
EXTENDS Naturals

\* Of the configuration of an adapter: retries, and whether there is a timeout.
Limits == [retries : Nat, timed : BOOLEAN]

\* "sent": fetch() is awaited; "waiting": the delay before the next attempt;
\* "body": there is a response, and its body is awaited; then it is over.
RequestStage == {"none", "sent", "waiting", "body", "ok", "failed"}

NoRequest == [stage |-> "none", attempt |-> 0]

Send == [stage |-> "sent", attempt |-> 0]

\* fetch() rejects: another attempt, if there are some left.
FetchFails(r, limits) ==
  IF r.attempt < limits.retries THEN [r EXCEPT !.stage = "waiting"] ELSE [r EXCEPT !.stage = "failed"]

\* What the network and the provider do: the response, whatever its status, or
\* an error of the network; then the body of a good response, or the text of a
\* bad one.  Nobody sees to it that they do.
Arrivals(r, limits) ==
  CASE r.stage = "sent" -> {[r EXCEPT !.stage = "body"], FetchFails(r, limits)}
    [] r.stage = "body" -> {[r EXCEPT !.stage = "ok"], [r EXCEPT !.stage = "failed"]}
    [] OTHER -> {}

\* Mutant: the request is not aborted.
TimersOfDelays(r, limits) ==
  CASE r.stage = "waiting" -> {[stage |-> "sent", attempt |-> r.attempt + 1]}
    [] OTHER -> {}

\* What timers do: the abort of an attempt, which is there until the response
\* is, and the end of a delay.
Timers(r, limits) ==
  CASE r.stage = "sent" /\ limits.timed -> {FetchFails(r, limits)}
    [] r.stage = "waiting" -> {[stage |-> "sent", attempt |-> r.attempt + 1]}
    [] OTHER -> {}

Underway(r) == r.stage \in {"sent", "waiting"}
=============================================================================
