------------------------------ MODULE ApimListing ------------------------------
(***************************************************************************)
(* What an API Management service contributes: listServices and listApis of *)
(* src/lib/azure/clients.ts, listCandidates of src/lib/providers/apim.ts,  *)
(* and what the narrowing makes of its repository tag.                     *)
(*                                                                         *)
(* One service; the provider does the same for each in turn, and an error  *)
(* at any of them ends its listing.  What the service holds is chosen at   *)
(* the start, which calls fail at each step.                               *)
(***************************************************************************)
EXTENDS Narrowing

CONSTANTS
  Apis,
  InWorkspace,  \* the APIs of workspaces
  IdOf,         \* [Apis -> id within the service or the workspace]
  GroupOf,      \* [Apis -> revisionGroup: version set, version or base id]
  Kinds,        \* API types the service may hold: "http" stands for those that
                \* can be exported as they are, "websocket" for those that
                \* cannot, "unknown" for those not in APIM_API_TYPES
  Current,      \* values of isCurrent: "yes", "no", "unset"
  Keys          \* the keys the service may be tagged with: "canonical",
                \* "custom" from repo-tag-keys-json, "none"

VARIABLES
  service,    \* what there is
  step,       \* "meta", "apis", "workspaces", "schemas", "done"
  assigned,   \* ids some self-hosted gateway is known to serve
  listed,     \* APIs listed
  toCheck,    \* gRPC APIs whose schemas are still to be listed
  protobuf,   \* grpcProtobufByApiId: the ids found to have a schema
  masked,     \* history: APIs whose schemas could not be listed
  outcome     \* "pending", "ok", "threw"

listingVars == <<service, step, assigned, listed, toCheck, protobuf, masked, outcome>>

Services ==
  [kind : [Apis -> Kinds],
   current : [Apis -> Current],
   schema : SUBSET Apis,                 \* gRPC APIs that have a protobuf schema
   tag : Keys,
   workspaces : BOOLEAN]                 \* its tier knows workspaces

Init ==
  /\ service \in { s \in Services : s.schema \subseteq { a \in Apis : s.kind[a] = "grpc" } }
  /\ step = "meta"
  /\ assigned = {}
  /\ listed = {}
  /\ toCheck = {}
  /\ protobuf = {}
  /\ masked = {}
  /\ outcome = "pending"

Threw ==
  /\ step \in {"meta", "apis", "workspaces"}
  /\ step' = "done"
  /\ outcome' = "threw"
  /\ UNCHANGED <<service, assigned, listed, toCheck, protobuf, masked>>

-----------------------------------------------------------------------------
(* The client.                                                             *)

\* Gateways and workspace links, none when the tier knows no such thing; the
\* answer is kept for listApis.
ReadMeta ==
  /\ step = "meta"
  /\ assigned' \in SUBSET { IdOf[a] : a \in Apis }
  /\ step' = "apis"
  /\ UNCHANGED <<service, listed, toCheck, protobuf, masked, outcome>>

ReadApis ==
  /\ step = "apis"
  /\ listed' = Apis \ InWorkspace
  /\ step' = "workspaces"
  /\ UNCHANGED <<service, assigned, toCheck, protobuf, masked, outcome>>

\* retainCurrentApis.
Retained(apis) ==
  LET groups == { GroupOf[a] : a \in { a \in apis : service.current[a] = "yes" } }
  IN { a \in apis : \/ service.current[a] = "yes"
                    \/ service.current[a] = "unset" /\ GroupOf[a] \notin groups }

WithWorkspaces(apis) ==
  /\ listed' = Retained(apis)
  /\ toCheck' = { a \in listed' : service.kind[a] = "grpc" }
  /\ step' = "schemas"
  /\ UNCHANGED <<service, assigned, protobuf, masked, outcome>>

\* Mutant of ReadWorkspaces: any failure is taken for a tier without them.
ReadWorkspacesSoftly ==
  /\ step = "workspaces"
  /\ WithWorkspaces(Apis) \/ WithWorkspaces(listed)

\* A tier that knows no workspaces refuses the call, which is not an error.
ReadWorkspaces ==
  /\ step = "workspaces"
  /\ WithWorkspaces(IF service.workspaces THEN Apis ELSE listed)

-----------------------------------------------------------------------------
(* The provider.                                                           *)

\* grpcHasProtobufSchema, kept by the id of the API: a service and a workspace
\* may use the same one, and the later answer stands.
SchemaIs(a, has) ==
  /\ protobuf' = IF has THEN protobuf \cup {IdOf[a]} ELSE protobuf \ {IdOf[a]}
  /\ toCheck' = toCheck \ {a}
  /\ UNCHANGED <<service, step, assigned, listed, outcome>>

\* APIs of the service come before those of workspaces.
NextToCheck(a) ==
  /\ step = "schemas"
  /\ a \in toCheck
  /\ a \in InWorkspace => toCheck \subseteq InWorkspace

CheckSchema(a) ==
  /\ NextToCheck(a)
  /\ SchemaIs(a, a \in service.schema)
  /\ UNCHANGED masked

\* An error counts as no schema.
CheckFails(a) ==
  /\ NextToCheck(a)
  /\ SchemaIs(a, FALSE)
  /\ masked' = masked \cup {a}

Supported(a) ==
  \/ service.kind[a] = "http"
  \/ service.kind[a] = "grpc" /\ IdOf[a] \in protobuf

Eligible == { a \in listed : Supported(a) }

\* Mutant of Inherited: every listed API counts.
InheritedByAll == Cardinality(listed) > 1

\* tagsForApi.
Inherited == Cardinality(Eligible) > 1

\* stripSelectGradeTags knows the canonical keys only.
Tags(a) ==
  IF service.tag = "none" \/ (service.tag = "canonical" /\ ~ Supported(a) /\ ~ Inherited)
  THEN {} ELSE {"select"}

\* An API and what the narrowing sees of it.
View(a) ==
  [api |-> a, path |-> "none", tags |-> Tags(a), inherited |-> Inherited,
   assigned |-> IdOf[a] \in assigned, weak |-> {}, fits |-> TRUE]

Candidates == { View(a) : a \in { a \in listed : service.kind[a] # "unknown" } }

Emit ==
  /\ step = "schemas"
  /\ toCheck = {}
  /\ step' = "done"
  /\ outcome' = "ok"
  /\ UNCHANGED <<service, assigned, listed, toCheck, protobuf, masked>>

Next ==
  \/ ReadMeta \/ ReadApis \/ ReadWorkspaces \/ Threw
  \/ \E a \in Apis : CheckSchema(a) \/ CheckFails(a)
  \/ Emit

Spec == Init /\ [][Next]_listingVars

-----------------------------------------------------------------------------
TypeOK ==
  /\ service \in Services
  /\ step \in {"meta", "apis", "workspaces", "schemas", "done"}
  /\ assigned \subseteq { IdOf[a] : a \in Apis }
  /\ listed \subseteq Apis
  /\ toCheck \subseteq listed
  /\ protobuf \subseteq { IdOf[a] : a \in listed }
  /\ masked \subseteq listed
  /\ outcome \in {"pending", "ok", "threw"}
  /\ outcome # "pending" <=> step = "done"

\* What can be seen, and of it what can be exported.
Visible == { a \in Apis : a \in InWorkspace => service.workspaces }
Exportable(a) ==
  service.kind[a] = "http" \/ (service.kind[a] = "grpc" /\ a \in service.schema)

\* A listing that returns holds every current API of the service and of its
\* workspaces whose type is known, and no historical one.
NoCurrentApiIsLost ==
  outcome = "ok" =>
    LET seen == { c.api : c \in Candidates }
    IN /\ { a \in Visible : service.current[a] = "yes" /\ service.kind[a] # "unknown" }
            \subseteq seen
       /\ \A a \in seen : a \in Visible /\ service.current[a] # "no"

\* No two gRPC APIs listed share an id, and every schema list could be read.
Told ==
  /\ masked = {}
  /\ \A a, b \in listed : service.kind[a] = "grpc" /\ IdOf[a] = IdOf[b] => a = b

Owner(tag) ==
  LET pick == Narrow(Candidates, {})
      able == { a \in listed : Exportable(a) }
  IN outcome = "ok" /\ Told /\ service.tag = tag =>
       /\ pick.mode = "select" => { c.api : c \in pick.ids } = able
       /\ Sole(able) <=> pick.mode = "select"

\* A canonical repository tag on the service selects an API exactly when it is
\* the only one of the service that can be exported.
ListingIsTrue == NoCurrentApiIsLost /\ Owner("canonical")

\* What docs/providers.md:133 says of every select-grade key, those of
\* repo-tag-keys-json included.
ServiceTagSelectsSoleApi == Owner("canonical") /\ Owner("custom")
=============================================================================
