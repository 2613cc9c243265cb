------------------------------ MODULE LogicExport ------------------------------
(***************************************************************************)
(* The logic-apps provider (src/lib/providers/logic-apps.ts) with its      *)
(* client logic-apps-native-client.ts: list the workflows of a subscription *)
(* and those of its Standard sites, hydrate one, and export it, by         *)
(* listSwagger or from its triggers.                                       *)
(*                                                                         *)
(* Each site has one workflow; the consumption workflow is Consumption.    *)
(* Workflows change at any time.                                           *)
(***************************************************************************)
EXTENDS Integers, Sequences, FiniteSets

CONSTANTS
  Sites,       \* Standard sites, a sequence
  Consumption,
  NoWorkflow   \* none has been chosen

VARIABLES
  enabled,     \* workflows that are not disabled
  definition,  \* workflow -> "request" (it has request triggers), "other",
               \* or "absent" (no definition)
  listSwagger, \* enable-logic-apps-list-swagger
  required,    \* require-logic-apps-native-swagger
  step,        \* "workflows", "sites", "listed", "export", "native",
               \* "synthesize", "done"
  scope,       \* index of the site whose workflows are listed
  listed,
  skipped,     \* sites whose workflows could not be listed
  chosen,
  cached,      \* what hydration read of the chosen workflow
  native,      \* history: the answer of listSwagger
  made,        \* history: the definition an export was made from
  outcome      \* "pending", "reconstructed", "partial", "unsupported", "threw"

logicVars ==
  <<enabled, definition, listSwagger, required, step, scope, listed, skipped,
    chosen, cached, native, made, outcome>>
given == <<enabled, listSwagger, required>>

Workflows == {Consumption} \cup { Sites[i] : i \in DOMAIN Sites }
Definitions == {"request", "other", "absent"}
NativeAnswers == {"swagger", "invalid", "malformed", "denied", "absent", "exhausted"}

Init ==
  /\ enabled \in SUBSET Workflows
  /\ definition \in [Workflows -> Definitions]
  /\ listSwagger \in BOOLEAN
  /\ required \in BOOLEAN
  /\ step = "workflows"
  /\ scope = 1
  /\ listed = {}
  /\ skipped = {}
  /\ chosen = NoWorkflow
  /\ cached = "none"
  /\ native = "none"
  /\ made = "none"
  /\ outcome = "pending"

Change(to) ==
  /\ step \in {"export", "native", "synthesize"}
  /\ definition' = [definition EXCEPT ![chosen] = to]
  /\ UNCHANGED <<given, step, scope, listed, skipped, chosen, cached, native,
                 made, outcome>>

Finish(how) == step' = "done" /\ outcome' = how

Threw ==
  /\ Finish("threw")
  /\ UNCHANGED <<given, definition, scope, listed, skipped, chosen, cached, native, made>>

\* A read that fails where nothing makes up for it.
ReadFails == step \in {"workflows", "sites", "listed"} /\ Threw

-----------------------------------------------------------------------------
(* The listing.                                                            *)

Lists(w) == listed' = listed \cup ({w} \cap enabled)

ListWorkflows ==
  /\ step = "workflows"
  /\ Lists(Consumption)
  /\ step' = IF Sites = <<>> THEN "listed" ELSE "sites"
  /\ UNCHANGED <<given, definition, scope, skipped, chosen, cached, native, made, outcome>>

NextSite ==
  /\ scope' = scope + 1
  /\ step' = IF scope = Len(Sites) THEN "listed" ELSE "sites"
  /\ UNCHANGED <<given, definition, chosen, cached, native, made, outcome>>

ListSite ==
  /\ step = "sites"
  /\ Lists(Sites[scope])
  /\ NextSite
  /\ UNCHANGED skipped

\* Mutant of SkipSite: what has been listed is given up too.
SkipSites ==
  /\ step = "sites"
  /\ skipped' = skipped \cup {Sites[scope]}
  /\ listed' = {}
  /\ NextSite

\* Any failure but a denial is taken for a site without workflows.
SkipSite ==
  /\ step = "sites"
  /\ skipped' = skipped \cup {Sites[scope]}
  /\ NextSite
  /\ UNCHANGED listed

-----------------------------------------------------------------------------
(* The hydration and the export of one workflow.                           *)

Hydrate(w) ==
  /\ step = "listed"
  /\ w \in listed
  /\ chosen' = w
  /\ cached' = definition[w]
  /\ IF definition[w] # "request"
     THEN Finish("unsupported")
     ELSE step' = "export" /\ UNCHANGED outcome
  /\ UNCHANGED <<given, definition, scope, listed, skipped, native, made>>

\* Only a consumption workflow is asked for its swagger.
Export ==
  /\ step = "export"
  /\ step' = IF chosen = Consumption /\ listSwagger THEN "native" ELSE "synthesize"
  /\ UNCHANGED <<given, definition, scope, listed, skipped, chosen, cached, native, made, outcome>>

\* Mutant of AskNative: retries that are used up count as a denial.
AskNativeSoftly(answer) ==
  /\ step = "native"
  /\ native' = answer
  /\ IF answer = "swagger" THEN Finish("reconstructed")
     ELSE IF answer \in {"invalid", "malformed"} /\ required
     THEN Finish("threw")
     ELSE step' = "synthesize" /\ UNCHANGED outcome
  /\ UNCHANGED <<given, definition, scope, listed, skipped, chosen, cached, made>>

\* handleListSwaggerResult: a document that cannot be used is replaced unless
\* it is required, one that is denied or not to be had always, and retries that
\* are used up are an error.
AskNative(answer) ==
  /\ step = "native"
  /\ native' = answer
  /\ IF answer = "swagger" THEN Finish("reconstructed")
     ELSE IF answer = "exhausted" \/ (answer \in {"invalid", "malformed"} /\ required)
     THEN Finish("threw")
     ELSE step' = "synthesize" /\ UNCHANGED outcome
  /\ UNCHANGED <<given, definition, scope, listed, skipped, chosen, cached, made>>

MakeFrom(what) ==
  /\ step = "synthesize"
  /\ made' = what
  /\ Finish(IF what = "request" THEN "partial" ELSE "threw")
  /\ UNCHANGED <<given, definition, scope, listed, skipped, chosen, cached, native>>

\* The detail is kept by the id it names; an id spelled otherwise is not found
\* and the workflow is read once more.
Synthesize == MakeFrom(cached) \/ MakeFrom(definition[chosen])

CallFails == step \in {"native", "synthesize"} /\ Threw

Next ==
  \/ \E to \in Definitions : Change(to)
  \/ ReadFails \/ ListWorkflows \/ ListSite \/ SkipSite
  \/ \E w \in Workflows : Hydrate(w)
  \/ Export \/ (\E answer \in NativeAnswers : AskNative(answer))
  \/ Synthesize \/ CallFails

Spec == Init /\ [][Next]_logicVars

-----------------------------------------------------------------------------
TypeOK ==
  /\ enabled \subseteq Workflows
  /\ definition \in [Workflows -> Definitions]
  /\ step \in {"workflows", "sites", "listed", "export", "native", "synthesize", "done"}
  /\ scope \in 1 .. Len(Sites) + 1
  /\ listed \subseteq Workflows
  /\ skipped \subseteq { Sites[i] : i \in DOMAIN Sites }
  /\ chosen \in Workflows \cup {NoWorkflow}
  /\ {cached, made} \subseteq Definitions \cup {"none"}
  /\ native \in NativeAnswers \cup {"none"}
  /\ outcome \in {"pending", "reconstructed", "partial", "unsupported", "threw"}
  /\ outcome # "pending" <=> step = "done"

\* A listing that returns lists every workflow that is enabled, save those of
\* the sites it had to skip.
NoWorkflowIsLost ==
  outcome \in {"reconstructed", "partial", "unsupported"} =>
    listed = enabled \ skipped

\* Whatever changes meanwhile, an export called reconstructed is a document
\* Azure has made; one called partial comes from request triggers that were
\* read, and does not stand in for a document that failed for the moment, nor
\* for a broken one where a native one is required.  Where none is required it
\* does stand in for a broken one: "malformed 200 responses fail"
\* (docs/providers.md:76) is not so in the code, and not asked for here.
LogicExportIsTrue ==
  /\ outcome = "reconstructed" =>
       native = "swagger" /\ listSwagger /\ chosen = Consumption
  /\ outcome = "partial" =>
       /\ made = "request"
       /\ native \notin {"swagger", "exhausted"}
       /\ required => native \notin {"invalid", "malformed"}

LogicIsTrue == NoWorkflowIsLost /\ LogicExportIsTrue

\* What docs/providers.md:76 says of require-logic-apps-native-swagger: where it
\* is set, no document is made from triggers once Azure was asked for one.  The
\* code falls back after a denial all the same.
RequiredIsNative == required /\ native # "none" => outcome # "partial"
=============================================================================
