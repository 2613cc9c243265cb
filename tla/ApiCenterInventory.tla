--------------------------- MODULE ApiCenterInventory ---------------------------
(***************************************************************************)
(* ApiCenterSdkClient.listDefinitions: a walk from the services of a        *)
(* subscription over workspaces, APIs and versions to definitions, with a   *)
(* ceiling on the children of each parent and one on the whole; and what    *)
(* listCandidateHeaders of src/lib/providers/api-center.ts makes of a list  *)
(* that was cut.                                                           *)
(*                                                                         *)
(* A node is its level; what it has below it is chosen when it is listed.  *)
(***************************************************************************)
EXTENDS Integers, Sequences

CONSTANTS
  MaxServices,   \* a bound on the services there are
  MaxChildren,   \* MAX_API_CENTER_CHILDREN_PER_LEVEL
  MaxInventory   \* MAX_API_CENTER_INVENTORY

\* service, workspace, API, version, definition
Definition == 5

VARIABLES
  todo,        \* levels of the nodes to visit, the next one first
  truncated,
  definitions, \* how many are collected
  missed,      \* history: nodes that were seen and left out
  outcome      \* "pending", "ok", "threw"

inventoryVars == <<todo, truncated, definitions, missed, outcome>>

Init ==
  /\ \E n \in 0 .. MaxServices : todo = [i \in 1 .. n |-> 1]
  /\ truncated = FALSE
  /\ definitions = 0
  /\ missed = 0
  /\ outcome = "pending"

Least(a, b) == IF a < b THEN a ELSE b

\* listNamedChildren and boundedChildren; services are not bounded.
Visit ==
  /\ outcome = "pending"
  /\ todo # <<>>
  /\ Head(todo) < Definition
  /\ \E n \in 0 .. MaxChildren + 1 :
       LET kept == Least(n, MaxChildren)
       IN /\ todo' = [i \in 1 .. kept |-> Head(todo) + 1] \o Tail(todo)
          /\ truncated' = (truncated \/ n > MaxChildren)
          /\ missed' = missed + (n - kept)
  /\ UNCHANGED <<definitions, outcome>>

\* A listing fails, is denied, or is longer than its pages may be.
ListingFails ==
  /\ outcome = "pending"
  /\ todo # <<>>
  /\ Head(todo) < Definition
  /\ outcome' = "threw"
  /\ UNCHANGED <<todo, truncated, definitions, missed>>

\* Mutant of Collect: the ceiling ends the walk without a word.
CollectSilently ==
  /\ outcome = "pending"
  /\ todo # <<>>
  /\ Head(todo) = Definition
  /\ IF definitions >= MaxInventory
     THEN /\ todo' = <<>>
          /\ missed' = missed + 1
          /\ UNCHANGED <<truncated, definitions>>
     ELSE /\ todo' = Tail(todo)
          /\ definitions' = definitions + 1
          /\ UNCHANGED <<truncated, missed>>
  /\ UNCHANGED outcome

\* The ceiling counts as met only when one more definition is there.
Collect ==
  /\ outcome = "pending"
  /\ todo # <<>>
  /\ Head(todo) = Definition
  /\ IF definitions >= MaxInventory
     THEN /\ todo' = <<>>
          /\ truncated' = TRUE
          /\ missed' = missed + 1
          /\ UNCHANGED definitions
     ELSE /\ todo' = Tail(todo)
          /\ definitions' = definitions + 1
          /\ UNCHANGED <<truncated, missed>>
  /\ UNCHANGED outcome

\* listCandidateHeaders refuses a list that was cut.
Conclude ==
  /\ outcome = "pending"
  /\ todo = <<>>
  /\ outcome' = IF truncated THEN "threw" ELSE "ok"
  /\ UNCHANGED <<todo, truncated, definitions, missed>>

Next == Visit \/ ListingFails \/ Collect \/ Conclude

Spec == Init /\ [][Next]_inventoryVars

-----------------------------------------------------------------------------
TypeOK ==
  /\ \A i \in DOMAIN todo : todo[i] \in 1 .. Definition
  /\ truncated \in BOOLEAN
  /\ definitions \in 0 .. MaxInventory
  /\ missed \in Nat
  /\ outcome \in {"pending", "ok", "threw"}

\* The headers of a whole inventory are returned, never those of a part of it,
\* and an inventory that fits both ceilings exactly is whole.
InventoryIsWhole ==
  /\ outcome = "ok" => todo = <<>> /\ missed = 0
  /\ truncated <=> missed > 0
=============================================================================
