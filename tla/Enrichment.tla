------------------------------ MODULE Enrichment ------------------------------
(***************************************************************************)
(* What the runtime adds to enumerated candidates before it narrows them:  *)
(* queryResourceGraph reads the rows of all selected subscriptions in one  *)
(* query, or subscription by subscription when that fails;                 *)
(* enrichCandidatesWithSourceControl looks up the repositories bound to    *)
(* the sites and container apps among candidates and rows, and attaches    *)
(* those of this repository to the candidates.                             *)
(*                                                                         *)
(* The server holds the rows `content`; a query without failure delivers   *)
(* them in pages.  A lookup answers what it likes.                         *)
(***************************************************************************)
EXTENDS SourceControl, Filters

CONSTANTS
  Scopes,        \* selected subscriptions
  Home,          \* [Resources -> Scopes]
  Eligible,      \* resources in the selected subscriptions and resource group
  Candidates,
  At,            \* candidate -> the resource its id lies in, or Nowhere
  Nowhere,
  Web,           \* candidates of the app-service and function-bindings providers
  Ours,          \* associations with this repository and branch
  Tokens, None   \* skip tokens, and the absence of one

VARIABLES
  step,      \* "graph", "pool", "done"
  content,   \* the rows there are
  asking,    \* subscriptions of the query under way
  waiting,   \* subscriptions to be asked one by one
  token, seen, pages,
  rows,      \* graphRows
  lost,      \* history: subscriptions whose last query failed
  enriched   \* candidate -> associations attached to it

graph == <<content, asking, waiting, token, seen, pages, rows, lost>>

Init ==
  /\ PoolInit
  /\ step = "graph"
  /\ content \in SUBSET Resources
  /\ asking = Scopes
  /\ waiting = {}
  /\ token = None
  /\ seen = {}
  /\ pages = 1
  /\ rows = {}
  /\ lost = {}
  /\ enriched = [c \in Candidates |-> <<>>]

-----------------------------------------------------------------------------
(* Resource Graph.                                                         *)

Query(scopes) ==
  /\ asking' = scopes
  /\ token' = None
  /\ seen' = {}
  /\ pages' = 1

\* Candidates on a site count when a web provider listed them, candidates on a
\* container app always, and so does every row.
Mentions(listed) ==
  { [by |-> c, at |-> At[c]] :
      c \in { c \in Candidates : At[c] \in Eligible /\ (c \in Web \/ At[c] \in Apps) } }
  \cup { [by |-> r, at |-> r] : r \in listed \cap Eligible }

\* The query under way is over: go on with the next subscription, or with the
\* lookups.
NextScope(listed) ==
  /\ rows' = listed
  /\ IF waiting = {}
     THEN /\ step' = "pool"
          /\ left' = Targets(Mentions(listed))
          /\ UNCHANGED <<asking, waiting, token, seen, pages>>
     ELSE /\ \E s \in waiting : Query({s}) /\ waiting' = waiting \ {s}
          /\ UNCHANGED <<step, left>>
  /\ UNCHANGED <<content, workers, found, failed, truth, enriched>>

\* A page with no skip token is the last one; with those before it, it delivers
\* every row of the subscriptions asked.
LastRows ==
  /\ step = "graph"
  /\ NextScope(rows \cup { r \in content : Home[r] \in asking })
  /\ UNCHANGED lost

\* A page that announces another one, by a token not seen in this query.
MoreRows(next) ==
  /\ step = "graph"
  /\ next \notin seen \cup {token}
  /\ pages < MaxPages
  /\ pages' = pages + 1
  /\ seen' = IF token = None THEN seen ELSE seen \cup {token}
  /\ token' = next
  /\ UNCHANGED <<step, content, asking, waiting, rows, lost, enriched, pool>>

\* The request fails, repeats a token or runs over the ceiling: what has been
\* read of this query is dropped; a query over several subscriptions is put
\* again to each of them.
QueryFails ==
  /\ step = "graph"
  /\ IF asking = Scopes /\ Cardinality(Scopes) > 1
     THEN /\ \E s \in Scopes : Query({s}) /\ waiting' = Scopes \ {s}
          /\ UNCHANGED <<step, content, rows, lost, enriched, pool>>
     ELSE NextScope(rows) /\ lost' = lost \cup asking

-----------------------------------------------------------------------------
(* Source control.                                                         *)

LookUp ==
  /\ step # "graph"
  /\ Lookups
  /\ UNCHANGED <<step, graph, enriched>>

\* The pool rejects: the candidates are returned as they are.
GiveUp ==
  /\ step # "graph"
  /\ \E w \in DOMAIN workers, item \in left : Reject(w, item)
  /\ step' = "done"
  /\ UNCHANGED <<graph, enriched>>

OfOurs(list) == Filter(list, Ours)

\* applySourceControlAssociationsToCandidates.
Attached(c) ==
  LET own == Filter(found, {At[c]} \X Associations)
  IN OfOurs([i \in DOMAIN own |-> own[i][2]])

Attach ==
  /\ step = "pool"
  /\ PoolDone
  /\ step' = "done"
  /\ enriched' = [c \in Candidates |-> Attached(c)]
  /\ UNCHANGED <<graph, pool>>

Next ==
  \/ LastRows \/ QueryFails \/ \E next \in Tokens : MoreRows(next)
  \/ LookUp \/ GiveUp \/ Attach

enrichmentVars == <<step, graph, pool, enriched>>
Spec == Init /\ [][Next]_enrichmentVars

-----------------------------------------------------------------------------
TypeOK ==
  /\ PoolTyped
  /\ step \in {"graph", "pool", "done"}
  /\ content \subseteq Resources
  /\ asking \subseteq Scopes
  /\ waiting \subseteq Scopes
  /\ token \in Tokens \cup {None}
  /\ seen \subseteq Tokens
  /\ pages \in 1 .. MaxPages
  /\ rows \subseteq Resources
  /\ lost \subseteq Scopes
  /\ DOMAIN enriched = Candidates

\* Whatever fails and is asked again, the rows are those of exactly the
\* subscriptions whose last query succeeded, all of them: no subscription is
\* half listed, and none suffers from another.
RowsByScope ==
  step # "graph" => rows = { r \in content : Home[r] \notin lost }

\* In whatever order the lookups settle, a candidate gets the associations its
\* own resource answered with, each once and in the order of the answer, or
\* none; and when the enrichment fails no candidate gets any.
AttachedAreOwn ==
  \A c \in Candidates :
    enriched[c] =
      IF step # "done" \/ failed \/ At[c] \notin { m.at : m \in Mentions(rows) }
      THEN <<>>
      ELSE OfOurs(truth[At[c]])

EnrichmentIsTrue == RowsByScope /\ AttachedAreOwn
=============================================================================
