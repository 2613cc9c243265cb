------------------------------ MODULE SiteExport ------------------------------
(***************************************************************************)
(* A site on its way from a header to a definition, by one of the providers *)
(* that read it: app-service (src/lib/providers/app-service.ts, with the   *)
(* client app-service-runtime-client.ts) takes the link or the file the    *)
(* site declares, function-bindings the triggers of its functions or the   *)
(* page of their OpenAPI extension.                                        *)
(*                                                                         *)
(* The site may be deployed anew between the reads.                        *)
(***************************************************************************)
EXTENDS SpecFetch

CONSTANTS
  Links,     \* links a site may declare or answer at
  NoLink,
  NoRead

VARIABLES
  site,      \* what the resource holds now
  optIn,     \* enable-app-service-scm-spec-fetch, or the one for extensions
  step,      \* "list", "hydrate", "export", "config", "scm", "fetch", "done"
  header,    \* of the listing: the link declared, or the host known
  read,      \* of the hydration
  sentTo,    \* history: hosts that were sent the bearer token
  outcome    \* "pending", "authoritative", "partial", "unsupported", "threw"

siteVars == <<site, optIn, step, header, read, sentTo, outcome>>

\* scm is the SCM host among the enabled host names: that of the site itself,
\* another one, or none.
WebApps ==
  [kind : {"app"}, link : Links \cup {NoLink}, path : BOOLEAN,
   private : BOOLEAN, scm : {"own", "foreign", "none"}]
FunctionApps ==
  [kind : {"function"}, triggers : BOOLEAN, route : BOOLEAN, host : BOOLEAN]
Held == WebApps \cup FunctionApps

Init ==
  /\ NoFetch
  /\ site \in Held
  /\ optIn \in BOOLEAN
  /\ step = "list"
  /\ header = NoRead
  /\ read = NoRead
  /\ sentTo = {}
  /\ outcome = "pending"

Redeploy(other) ==
  /\ step \in {"hydrate", "export", "config"}
  /\ other.kind = site.kind
  /\ site' = other
  /\ UNCHANGED <<optIn, step, header, read, sentTo, outcome, fetchVars>>

Finish(how) ==
  /\ step' = "done"
  /\ outcome' = how
  /\ UNCHANGED <<site, optIn, header, read, sentTo, fetchVars>>

\* A read that is denied or fails for good, at any step that reads.
SiteReadFails == step \in {"list", "hydrate", "config"} /\ Finish("threw")

-----------------------------------------------------------------------------
(* The header and its hydration.                                           *)

\* The web configuration counts as empty when it cannot be read, unless that
\* was denied; the site stays listed.
ListSite ==
  /\ step = "list"
  /\ header' \in IF site.kind = "app" THEN {site.link, NoLink} ELSE {site.host}
  /\ step' = "hydrate"
  /\ UNCHANGED <<site, optIn, read, sentTo, outcome, fetchVars>>

Hydrated(what) ==
  /\ step = "hydrate"
  /\ read' = what
  /\ step' = "export"
  /\ UNCHANGED <<site, optIn, header, sentTo, outcome, fetchVars>>

\* The link of the header comes before that of the hydration; without the web
\* configuration the link and the path may be missing.
HydrateApp ==
  /\ site.kind = "app"
  /\ \E link \in {site.link, NoLink}, path \in {site.path, FALSE} :
       Hydrated([link |-> IF header # NoLink THEN header ELSE link, path |-> path])

\* A route without a known host has no address.
HydrateFunctions ==
  /\ site.kind = "function"
  /\ Hydrated([triggers |-> site.triggers, route |-> optIn /\ site.route,
               addressed |-> optIn /\ site.route /\ header])

Supported ==
  IF site.kind = "app" THEN read.link # NoLink \/ (read.path /\ optIn)
  ELSE read.triggers \/ read.route

Unsupported == step = "export" /\ ~ Supported /\ Finish("unsupported")

-----------------------------------------------------------------------------
(* The export.                                                             *)

Fetch(u) ==
  /\ StartFetch(u)
  /\ step' = "fetch"
  /\ UNCHANGED <<site, optIn, header, read, sentTo, outcome>>

\* The guarded fetch of a declared link, or of the page of the extension.
ExportLink ==
  /\ step = "export" /\ Supported
  /\ \/ site.kind = "app" /\ read.link # NoLink /\ Fetch(read.link)
     \/ site.kind = "function" /\ read.addressed /\ \E u \in Links : Fetch(u)

Fetches ==
  /\ step = "fetch"
  /\ FetchStep
  /\ UNCHANGED siteVars

\* A page that is no OpenAPI document is an error too.
Fetched ==
  /\ step = "fetch"
  /\ fetch \in Ended
  /\ Finish("threw") \/ (fetch = "ok" /\ Finish("authoritative"))

\* The functions are those of the hydration.
ExportTriggers ==
  /\ step = "export" /\ Supported
  /\ site.kind = "function" /\ ~ read.addressed
  /\ Finish(IF read.triggers THEN "partial" ELSE "threw")

ExportPath ==
  /\ step = "export" /\ Supported
  /\ site.kind = "app" /\ read.link = NoLink
  /\ step' = "config"
  /\ UNCHANGED <<site, optIn, header, read, sentTo, outcome, fetchVars>>

\* Mutant of ScmHost: any enabled host name with an scm label is taken.
ScmHostEnabled == IF site.scm = "none" THEN "own" ELSE site.scm

\* deriveCorrelatedScmHostName: made from the default host name, and not when
\* an enabled one of its shape differs.
ScmHost == IF site.scm = "foreign" THEN "none" ELSE "own"

\* fetchApiSpecFromScm reads the site once more and asks its own host only.
AskScm ==
  /\ step = "config"
  /\ IF site.private \/ ScmHost = "none"
     THEN Finish("threw")
     ELSE /\ sentTo' = sentTo \cup {ScmHost}
          /\ step' = "scm"
          /\ UNCHANGED <<site, optIn, header, read, outcome, fetchVars>>

\* A redirect, a status, a body over the limit or empty, a timeout and a text
\* that is no OpenAPI document are errors.
ScmAnswers ==
  /\ step = "scm"
  /\ Finish("authoritative") \/ Finish("threw")

Next ==
  \/ \E other \in Held : Redeploy(other)
  \/ SiteReadFails \/ ListSite \/ HydrateApp \/ HydrateFunctions \/ Unsupported
  \/ ExportLink \/ Fetches \/ Fetched \/ ExportTriggers
  \/ ExportPath \/ AskScm \/ ScmAnswers

Spec == Init /\ [][Next]_<<siteVars, fetchVars>>

-----------------------------------------------------------------------------
TypeOK ==
  /\ FetchTyped
  /\ site \in Held
  /\ optIn \in BOOLEAN
  /\ step \in {"list", "hydrate", "export", "config", "scm", "fetch", "done"}
  /\ sentTo \subseteq {"own", "foreign", "none"}
  /\ outcome \in {"pending", "authoritative", "partial", "unsupported", "threw"}
  /\ outcome # "pending" <=> step = "done"

\* Whatever is deployed between the reads, the class of an export tells where
\* it comes from: an authoritative one is a link the site declared, whole, or
\* its own file, asked for with the switch on and where no link is known; a
\* partial one was made from triggers because no page was known, never because
\* a page could not be had.  The token goes to the site's own host alone.
SiteExportIsTrue ==
  /\ FetchedIsWhole
  /\ sentTo \subseteq {"own"}
  /\ sentTo # {} => optIn /\ site.kind = "app" /\ read.link = NoLink /\ read.path
  /\ outcome = "authoritative" => (fetch = "ok" <=> sentTo = {})
  /\ outcome = "authoritative" /\ sentTo = {} /\ site.kind = "app" => first = read.link
  /\ outcome = "partial" =>
       site.kind = "function" /\ read.triggers /\ ~ read.addressed /\ fetch = "idle"
=============================================================================
