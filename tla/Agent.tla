------------------------------- MODULE Agent --------------------------------
(* The memory of an agent and the questions it asks, with one provider.     *)
EXTENDS Memory, Ask

CONSTANT AgentSetups   \* pairs of configurations: of the memory, of ask()

ASSUME AgentAssumption == AgentSetups \subseteq MemorySetup \X AskSetup

agentVars == <<memoryVars, askVars>>

Init == \E s \in AgentSetups : MemoryInit(s[1]) /\ AskInit(s[2])

Timer == \/ \E c \in Caller : MemoryTimer(c) /\ UNCHANGED askVars
         \/ \E c \in Asker : AskTimer(c) /\ UNCHANGED memoryVars

Next == \/ \E c \in Caller : MemoryStep(c) /\ UNCHANGED askVars
        \/ AskStep /\ UNCHANGED memoryVars
        \/ Timer

\* Timers go off.  Nothing is said of networks and providers.
Fairness == /\ \A c \in Caller : WF_agentVars(MemoryTimer(c) /\ UNCHANGED askVars)
            /\ \A c \in Asker : WF_agentVars(AskTimer(c) /\ UNCHANGED memoryVars)

Spec == Init /\ [][Next]_agentVars /\ Fairness

-----------------------------------------------------------------------------

TypeOK == MemoryTypeOK /\ AskTypeOK

\* With a timeout, a request has a response or is given up after its retries,
\* whatever network and provider do (fetch.js: "Per-request timeout").  The body
\* of the response has no timeout.
RequestsEnd ==
  /\ \A c \in Caller : memory.limits.timed => (Underway(caller[c].request) ~> ~Underway(caller[c].request))
  /\ \A c \in Asker : asking.limits.timed => (Underway(asker[c].request) ~> ~Underway(asker[c].request))
=============================================================================
