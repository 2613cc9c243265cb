-------------------------------- MODULE Estate --------------------------------
(***************************************************************************)
(* discover-estate: enumerateEstate sweeps the selected subscriptions for  *)
(* repository tags, in one query or in one per subscription side by side   *)
(* when that fails, and dedupeEstate folds the rows into a roster;         *)
(* enrichEstateWithSourceControl takes the inventory of sites and          *)
(* container apps, looks their repositories up and merges them in.         *)
(*                                                                         *)
(* The roster is a function from repositories, compared without regard to  *)
(* case, to entries; how an entry spells its repository is left out.       *)
(***************************************************************************)
EXTENDS SourceControl

CONSTANTS
  Scopes,     \* selected subscriptions, a sequence
  Home,       \* resource -> subscription
  Repos,      \* org/repo in lower case
  RepoOf,     \* [Associations -> Repos]
  Untagged    \* a resource without a repository tag

VARIABLES
  step,       \* "sweep", "settle", "inventory", "apps", "pool", "done"
  tags,       \* resource -> the repository its tags name, or Untagged
  answers,    \* subscription -> "pending", "rows", "refused"
  scope,      \* index of the subscription whose inventory is taken
  inventory,  \* resources listed by it
  roster,     \* repository -> entry
  outcome     \* "pending", "ok", "threw"

estate == <<tags, answers, scope, inventory, roster>>

Entry == [ids : SUBSET Resources, sources : SUBSET {"tag", "source-control"}]

Init ==
  /\ PoolInit
  /\ step = "sweep"
  /\ tags \in [Resources -> Repos \cup {Untagged}]
  /\ answers = [i \in DOMAIN Scopes |-> "pending"]
  /\ scope = 1
  /\ inventory = {}
  /\ roster = [k \in {} |-> {}]
  /\ outcome = "pending"

-----------------------------------------------------------------------------
(* The sweep.                                                              *)

ScopeOf(r) == CHOOSE i \in DOMAIN Scopes : Scopes[i] = Home[r]
Rows(told) == { r \in Resources : tags[r] # Untagged /\ told[ScopeOf(r)] = "rows" }

\* dedupeEstate, for the subscriptions that answered.
Roster(told) ==
  [k \in { tags[r] : r \in Rows(told) } |->
     [ids |-> { r \in Rows(told) : tags[r] = k }, sources |-> {"tag"}]]

Deduped ==
  /\ step' = "inventory"
  /\ roster' = Roster(answers')
  /\ UNCHANGED outcome

Swept ==
  /\ step = "sweep"
  /\ answers' = [i \in DOMAIN Scopes |-> "rows"]
  /\ Deduped
  /\ UNCHANGED <<tags, scope, inventory, pool>>

\* The query over all of them fails: with one subscription for good, with
\* several each is asked by itself, all at once.
SweepFails ==
  /\ step = "sweep"
  /\ IF Len(Scopes) = 1
     THEN step' = "done" /\ outcome' = "threw"
     ELSE step' = "settle" /\ UNCHANGED outcome
  /\ UNCHANGED <<estate, pool>>

\* Promise.allSettled: the last answer decides, none at all is an error.
Settle(i, how) ==
  /\ step = "settle"
  /\ answers[i] = "pending"
  /\ answers' = [answers EXCEPT ![i] = how]
  /\ IF \E j \in DOMAIN Scopes : answers'[j] = "pending"
     THEN UNCHANGED <<step, roster, outcome>>
     ELSE IF \A j \in DOMAIN Scopes : answers'[j] = "refused"
     THEN step' = "done" /\ outcome' = "threw" /\ UNCHANGED roster
     ELSE Deduped
  /\ UNCHANGED <<tags, scope, inventory, pool>>

-----------------------------------------------------------------------------
(* The inventory, subscription by subscription: sites, then container apps. *)

Listed(resources) ==
  inventory' = inventory \cup { r \in resources : Home[r] = Scopes[scope] }

\* What the roster names is a target too.
Mentions ==
  { [by |-> r, at |-> r] : r \in inventory \cup UNION { roster[k].ids : k \in DOMAIN roster } }

NextInventory ==
  /\ step' = "inventory"
  /\ scope' = scope + 1
  /\ UNCHANGED <<tags, answers, roster, outcome, pool>>

ListSites ==
  /\ step = "inventory"
  /\ scope <= Len(Scopes)
  /\ Listed(Resources \ Apps)
  /\ step' = "apps"
  /\ UNCHANGED <<tags, answers, scope, roster, outcome, pool>>

ListApps ==
  /\ step = "apps"
  /\ Listed(Apps)
  /\ NextInventory

\* A listing fails: the rest of this subscription is missing, what has been
\* listed stays.  Container apps that may not be read are an empty list.
InventoryFails ==
  /\ step \in {"inventory", "apps"}
  /\ scope <= Len(Scopes)
  /\ UNCHANGED inventory
  /\ NextInventory

StartLookups ==
  /\ step = "inventory"
  /\ scope > Len(Scopes)
  /\ step' = "pool"
  /\ left' = Targets(Mentions)
  /\ UNCHANGED <<estate, outcome, workers, found, failed, truth>>

-----------------------------------------------------------------------------
(* The merge.                                                              *)

LookUp ==
  /\ step \in {"pool", "done"}
  /\ Lookups
  /\ UNCHANGED <<step, estate, outcome>>

\* The pool rejects: the roster of the tags is reported.
GiveUp ==
  /\ step \in {"pool", "done"}
  /\ \E w \in DOMAIN workers, item \in left : Reject(w, item)
  /\ step' = "done"
  /\ outcome' = "ok"
  /\ UNCHANGED estate

BoundTo(k) == { p[1] : p \in { p \in { found[i] : i \in DOMAIN found } : RepoOf[p[2]] = k } }

\* Mutant of Merged: an entry of the tags is replaced.
MergedOver(k) ==
  IF BoundTo(k) = {} THEN roster[k]
  ELSE [ids |-> BoundTo(k), sources |-> {"source-control"}]

Merged(k) ==
  LET known == IF k \in DOMAIN roster THEN roster[k] ELSE [ids |-> {}, sources |-> {}]
  IN IF BoundTo(k) = {} THEN known
     ELSE [ids |-> known.ids \cup BoundTo(k),
           sources |-> known.sources \cup {"source-control"}]

Merge ==
  /\ step = "pool"
  /\ PoolDone
  /\ step' = "done"
  /\ outcome' = "ok"
  /\ roster' = [k \in DOMAIN roster \cup { k \in Repos : BoundTo(k) # {} } |-> Merged(k)]
  /\ UNCHANGED <<tags, answers, scope, inventory, pool>>

Next ==
  \/ Swept \/ SweepFails
  \/ \E i \in DOMAIN Scopes, how \in {"rows", "refused"} : Settle(i, how)
  \/ ListSites \/ ListApps \/ InventoryFails \/ StartLookups
  \/ LookUp \/ GiveUp \/ Merge

estateVars == <<step, estate, outcome, pool>>
Spec == Init /\ [][Next]_estateVars

-----------------------------------------------------------------------------
TypeOK ==
  /\ PoolTyped
  /\ step \in {"sweep", "settle", "inventory", "apps", "pool", "done"}
  /\ \A i \in DOMAIN Scopes : answers[i] \in {"pending", "rows", "refused"}
  /\ scope \in 1 .. Len(Scopes) + 1
  /\ inventory \subseteq Resources
  /\ \A k \in DOMAIN roster : k \in Repos /\ roster[k] \in Entry
  /\ outcome \in {"pending", "ok", "threw"}
  /\ outcome # "pending" <=> step = "done"

\* The repositories a lookup found at a resource, if lookups count.
Found(r) == IF failed THEN {} ELSE { RepoOf[truth[r][i]] : i \in DOMAIN truth[r] }

\* A roster that is reported names every resource of an answering subscription
\* that is tagged with a repository and every resource bound to one, and
\* nothing else, whichever listings failed and in whatever order the lookups
\* settled; it says of each where it was found; and a sweep nobody answered is
\* not reported as an empty estate.
RosterIsTrue ==
  outcome = "ok" =>
    /\ \E i \in DOMAIN Scopes : answers[i] = "rows"
    /\ DOMAIN roster =
         { tags[r] : r \in Rows(answers) } \cup UNION { Found(r) : r \in Resources }
    /\ \A k \in DOMAIN roster :
         LET tagged == { r \in Rows(answers) : tags[r] = k }
             bound == { r \in Resources : k \in Found(r) }
         IN /\ roster[k].ids = tagged \cup bound
            /\ "tag" \in roster[k].sources <=> tagged # {}
            /\ "source-control" \in roster[k].sources <=> bound # {}
=============================================================================
