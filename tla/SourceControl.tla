---------------------------- MODULE SourceControl ----------------------------
(***************************************************************************)
(* querySourceControlAssociations of src/runtime.ts: mapPool looks up the  *)
(* repositories bound to sites and container apps, a few resources at a    *)
(* time, with the two reads of src/lib/azure/source-control-client.ts.     *)
(* Enrichment and Estate run it over targets of their own.                 *)
(***************************************************************************)
EXTENDS Integers, Sequences, FiniteSets

CONSTANTS
  Resources,     \* sites and container apps
  Apps,          \* the container apps among them
  Associations,  \* a repository and branch a resource may be bound to
  Idle, Stopped, \* a worker without a target, and one that has rejected
  Width,         \* SOURCE_CONTROL_ENRICHMENT_CONCURRENCY
  MaxPages       \* MAX_LIST_PAGES, MAX_ARM_LIST_PAGES

VARIABLES
  left,      \* targets no worker has taken
  workers,
  found,     \* associations in the order in which lookups settle
  failed,    \* a worker rejected
  truth      \* history: what each completed lookup returned

pool == <<left, workers, found, failed, truth>>

PoolInit ==
  /\ left = {}
  /\ workers = [w \in 1 .. Width |-> Idle]
  /\ found = <<>>
  /\ failed = FALSE
  /\ truth = [r \in Resources |-> <<>>]

\* Mutant of Targets: a resource is looked up for everyone who mentions it.
TargetsPerMention(mentions) == { [key |-> m.by, at |-> m.at] : m \in mentions }

\* byKey: one lookup per resource, whoever mentions it.
Targets(mentions) == { [key |-> m.at, at |-> m.at] : m \in mentions }

Take(w, item) ==
  /\ workers[w] = Idle
  /\ item \in left
  /\ left' = left \ {item}
  /\ workers' = [workers EXCEPT ![w] = [at |-> item.at, got |-> <<>>, pages |-> 1]]
  /\ UNCHANGED <<found, failed, truth>>

Busy(w) == workers[w] \notin {Idle, Stopped}

\* The client cannot be made: the worker rejects, and with it the pool; the
\* other workers go on unheeded.
Reject(w, item) ==
  /\ workers[w] = Idle
  /\ item \in left
  /\ left' = left \ {item}
  /\ failed' = TRUE
  /\ workers' = [workers EXCEPT ![w] = Stopped]
  /\ UNCHANGED <<found, truth>>

\* A lookup is over, with the whole list or with none of it.
LookupEnds(w, list) ==
  LET r == workers[w].at
  IN /\ found' = found \o [i \in DOMAIN list |-> <<r, list[i]>>]
     /\ truth' = [truth EXCEPT ![r] = list]
     /\ workers' = [workers EXCEPT ![w] = Idle]
     /\ UNCHANGED <<left, failed>>

\* A site has one binding at most; a container app has a page of them.
AtMost(r) == IF r \in Apps THEN 2 ELSE 1
Answers(r) == UNION { [1 .. n -> Associations] : n \in 0 .. AtMost(r) }

LookupAnswers(w) ==
  /\ Busy(w)
  /\ \E some \in Answers(workers[w].at) : LookupEnds(w, workers[w].got \o some)

\* 401, 403, 404, another status, a body over the limit or malformed, a
\* repeated or foreign next link, too many pages: nothing, whatever the pages
\* before have listed.
LookupFails(w) ==
  /\ Busy(w)
  /\ LookupEnds(w, <<>>)

\* A container app lists its bindings in pages.
LookupContinues(w) ==
  /\ Busy(w)
  /\ workers[w].at \in Apps
  /\ workers[w].pages < MaxPages
  /\ \E a \in Associations :
       workers' = [workers EXCEPT ![w].got = Append(@, a), ![w].pages = @ + 1]
  /\ UNCHANGED <<left, found, failed, truth>>

\* The workers' steps that leave the pool's outcome open.
Lookups ==
  \/ \E w \in DOMAIN workers, item \in left : Take(w, item)
  \/ \E w \in DOMAIN workers :
       LookupAnswers(w) \/ LookupFails(w) \/ LookupContinues(w)

\* Every worker has come to the end of the targets.
PoolDone == left = {} /\ \A w \in DOMAIN workers : workers[w] = Idle

PoolTyped ==
  /\ \A w \in 1 .. Width :
       Busy(w) => workers[w].at \in Resources /\ workers[w].pages \in 1 .. MaxPages
  /\ \A i \in DOMAIN found : found[i] \in Resources \X Associations
  /\ failed \in BOOLEAN
=============================================================================
