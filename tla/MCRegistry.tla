------------------------------ MODULE MCRegistry ------------------------------
(* Environments for TLC: orderly programs, and one that goes on using a      *)
(* collection while it is renamed.                                           *)
EXTENDS Registry, TLC

SameCallers == Permutations(Callers)

Alone(ops, fails) == [ops |-> ops, fails |-> fails, alone |-> TRUE]
Beside(ops) == [ops |-> ops, fails |-> FALSE, alone |-> FALSE]

Orderly == {Alone({"write", "put", "rename", "crash"}, TRUE),
            Alone({"write", "remove", "seed", "crash"}, TRUE),
            Alone({"write", "put", "disconnect", "create", "sweep"}, TRUE),
            Alone({"write", "rename", "disconnect"}, FALSE),
            Alone({"write", "remove", "seed", "rename", "stats", "sweep"}, FALSE)}

Careless == {Beside({"write", "rename"})}
===============================================================================
