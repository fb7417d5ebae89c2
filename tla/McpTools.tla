------------------------------ MODULE McpTools ------------------------------
(***************************************************************************)
(* The tools of the MCP server: what a call of one asks of the scopes, and *)
(* what becomes of its arguments before it reaches the database.           *)
(*                                                                         *)
(* A name is what an agent sends for a collection, with blanks around it or*)
(* without.  Scopes are a function from names, "*" among them, to          *)
(* permissions.                                                            *)
(***************************************************************************)
EXTENDS Naturals, FiniteSets

CONSTANTS Collection,
          Name,  \* names as they are sent
          Trim   \* what is left of each without the blanks around it

ReadTools  == {"collections", "schema", "find", "search", "ask"}
WriteTools == {"insert", "update", "delete"}
Tools      == ReadTools \union WriteTools

ScopeOf(tool) == IF tool \in WriteTools THEN "write" ELSE "read"

NoCollection == "none"

\* The names of system collections, which no agent reaches.
System == {"_meta"}

Grants(perms, scope) == "admin" \in perms \/ scope \in perms

\* Names without blanks are their own; a name of nothing but blanks, or with a
\* part of a path in it, is none.
ASSUME NameAssumption ==
  /\ Collection \intersect (System \union {NoCollection}) = {}
  /\ Collection \union System \union {NoCollection} \subseteq Name
  /\ Trim \in [Name -> Collection \union System \union {NoCollection}]
  /\ \A c \in Collection \union System \union {NoCollection} : Trim[c] = c

\* _hasScope(): the entry of the name as it was sent, or else of "*".
HasScope(scopes, name, scope) ==
  IF name # NoCollection /\ name \in DOMAIN scopes THEN Grants(scopes[name], scope)
  ELSE "*" \in DOMAIN scopes /\ Grants(scopes["*"], scope)

\* _validateCollection(): the collection that a tool works on.
CollectionOf(name) == Trim[name]

\* _visibleTools(): those whose scope some entry grants.
VisibleTools(scopes) == {t \in Tools : \E c \in DOMAIN scopes : Grants(scopes[c], ScopeOf(t))}

-----------------------------------------------------------------------------
(* Filters: a field that documents have or not, or none; $fn, with the name *)
(* of a predicate; and how deep the filter is nested.                       *)

Filter == [field : {"any", "x"}, fn : {"none", "known", "unknown"}, depth : Nat]

\* Mutant: $fn is taken out, whether the predicate is registered or not.
StripAll(f) == [f EXCEPT !.fn = "none"]

\* sanitizeFilter(): $fn stays if it names a predicate of the server, and is
\* taken out otherwise.
Sanitize(f) == IF f.fn = "known" THEN f ELSE [f EXCEPT !.fn = "none"]

\* A document is what it has: the field, what the predicate asks for.
Matches(doc, f) == (f.field = "x" => doc.x) /\ (f.fn # "none" => doc.p)

\* callTool() throws before it reaches the database: no name, or the name of a
\* system collection, for every tool but one; a filter that is too deep.
Rejects(tool, name, f, maxDepth) ==
  \/ tool # "collections" /\ CollectionOf(name) \in System \union {NoCollection}
  \/ tool \in {"find", "update", "delete", "search"} /\ f.depth > maxDepth
=============================================================================
