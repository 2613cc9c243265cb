------------------------------ MODULE Narrowing ------------------------------
(***************************************************************************)
(* runNarrowingPipeline of src/lib/resolve/narrowing-pipeline.ts as a      *)
(* function of the candidates: six tiers, of which the first that matches  *)
(* any candidate orders them, and two may select one outright.             *)
(*                                                                         *)
(* A candidate is a record of what the tiers see of it:                    *)
(*   path       "exact" when its host and base path are among the gateway  *)
(*              urls of the repository, "host" when its host is named      *)
(*              without a path, "none" otherwise                           *)
(*   tags       "select" for a tag of select grade that names the          *)
(*              repository, "generic" for one of the generic keys          *)
(*   inherited  its tags are those of a service with several APIs          *)
(*   assigned   it is assigned to the gateway asked for                    *)
(*   weak       the weak tiers that match it                               *)
(*   fits       it passes the environment, version and revision selectors  *)
(***************************************************************************)
EXTENDS FiniteSets, Integers

Weak == {"iac-fingerprint", "rg-correlation", "naming-heuristic"}

Hit(ids, select) == [ids |-> ids, select |-> select]
Miss == Hit({}, FALSE)

Fitting(S) == { c \in S : c.fits }
Sole(S) == Cardinality(S) = 1

\* tierGatewayHostPath: a host without a path never selects.
HostPath(C) ==
  LET exact == { c \in C : c.path = "exact" }
  IN IF exact # {}
     THEN Hit(Fitting(exact), Sole(Fitting(exact)))
     ELSE Hit(Fitting({ c \in C : c.path = "host" }), FALSE)

\* One candidate that owns its tag is selected, more are narrowed to.
ByOwner(S) == Hit(S, Sole(S) /\ \A c \in S : ~ c.inherited)

\* tierTagPreFilter; the rows of the graph lookup are asked for only when no
\* candidate carries a tag of select grade.
TagPreFilter(C, rows) ==
  LET owners == { c \in C : "select" \in c.tags }
  IN IF owners # {} THEN ByOwner(Fitting(owners))
     ELSE IF Fitting(rows) # {} THEN ByOwner(Fitting(rows))
     ELSE Hit({ c \in C : "generic" \in c.tags }, FALSE)

\* tierGatewayAssignment.
GatewayAssignment(C) == Hit(Fitting({ c \in C : c.assigned }), FALSE)

\* The weak tiers look neither at the selectors nor at tags.
WeakTier(tier, C) == Hit({ c \in C : tier \in c.weak }, FALSE)

Tiers(C, rows) ==
  << [tier |-> "gateway-host-path", hit |-> HostPath(C)],
     [tier |-> "tag-prefilter", hit |-> TagPreFilter(C, rows)],
     [tier |-> "gateway-assignment", hit |-> GatewayAssignment(C)],
     [tier |-> "iac-fingerprint", hit |-> WeakTier("iac-fingerprint", C)],
     [tier |-> "rg-correlation", hit |-> WeakTier("rg-correlation", C)],
     [tier |-> "naming-heuristic", hit |-> WeakTier("naming-heuristic", C)] >>

NoTier == [tier |-> "none", ids |-> {}, mode |-> "none"]

\* The first tier that matches any candidate.
Narrow(C, rows) ==
  LET tiers == Tiers(C, rows)
      hits == { i \in DOMAIN tiers : tiers[i].hit.ids # {} }
  IN IF hits = {} THEN NoTier
     ELSE LET first == tiers[CHOOSE i \in hits : \A j \in hits : i <= j]
          IN [tier |-> first.tier,
              ids |-> first.hit.ids,
              mode |-> IF first.hit.select THEN "select" ELSE "narrow"]
=============================================================================
