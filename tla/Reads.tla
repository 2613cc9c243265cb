--------------------------------- MODULE Reads ---------------------------------
(* The modules that read, side by side: the closure of a native definition,   *)
(* the subscriptions, the headers of the providers, the rows and repositories *)
(* added to them, the estate, the inventories of the two API services, their  *)
(* exports and those of sites and workflows.  They share no state in the      *)
(* code: part says which of them a behaviour is about, and the variables of   *)
(* the others are Unused.  Variables of one name, as step and outcome, serve  *)
(* several parts.                                                             *)
EXTENDS NativeClosure, Integers

CONSTANTS
  \* subscriptions: those there may be, and those selected, in order
  SubscriptionIds, Selected,
  \* Fanout
  CloudKinds, HeaderWidth, MaxHeaders,
  \* SourceControl, Enrichment and Estate
  Resources, Apps, Associations, Idle, Stopped, Width, MaxPages,
  Home, InScope, Enumerated, At, Nowhere, Web, Ours, Tokens, None,
  Repos, RepoOf, Untagged,
  \* ApimListing and ApiCenterInventory
  Apis, InWorkspace, IdOf, GroupOf, Kinds, Current, Keys,
  MaxServices, MaxChildren, MaxInventory,
  \* SpecFetch, ApimExport, ApiCenterExport and SiteExport
  Urls, SafeUrls, HostOf, MaxRedirects, MaxBytes, MaxAttempts, MaxPolls, MaxWall,
  Links, NoLink, NoRead,
  \* LogicExport
  Sites, Consumption, NoWorkflow,
  \* a variable of a part the behaviour is not about
  Unused

\* A run has a subscription, and resources lie in those of the run; ceilings are
\* numbers, and one attempt is always made and one page read; a link is a URL; a
\* site is listed once; a worker is in one state at a time.
ASSUME ReadsAssumption ==
  /\ IsFiniteSet(SubscriptionIds) /\ IsFiniteSet(Apis)
  /\ Selected \in Seq(SubscriptionIds) \ {<<>>}
  /\ CloudKinds \in Seq({ CloudKinds[k] : k \in DOMAIN CloudKinds })
  /\ {HeaderWidth, MaxHeaders} \subseteq Nat
  /\ Home \in [Resources -> { Selected[i] : i \in DOMAIN Selected }]
  /\ Apps \subseteq Resources /\ InScope \subseteq Resources
  /\ RepoOf \in [Associations -> Repos]
  /\ Idle # Stopped
  /\ {Idle, Stopped} \cap
       [at : Resources, got : Seq(Associations), pages : 1 .. MaxPages] = {}
  /\ {MaxServices, MaxChildren, MaxInventory, MaxRedirects, MaxBytes,
      MaxWall} \subseteq Nat
  /\ {MaxAttempts, MaxPolls, MaxPages} \subseteq Nat \ {0}
  /\ Links \subseteq Urls
  /\ Sites \in Seq({ Sites[i] : i \in DOMAIN Sites })
  /\ \A i, j \in DOMAIN Sites : Sites[i] = Sites[j] => i = j
  /\ \A i \in DOMAIN Sites : Sites[i] # Consumption

VARIABLES
  part, step, outcome,
  access, asked, explicit, chosen,
  probes, next, working, answered, results, lateCalls, enumerated, headers,
  left, workers, found, failed, truth,
  content, asking, waiting, token, tokens, pages, rows, lost, enriched,
  tags, answers, scope, inventory, roster,
  service, assigned, listed, toCheck, protobuf, masked,
  todo, truncated, definitions, missed,
  fetch, first, url, hop, body, late, sent, whole, attempt,
  minted, tried,
  wire, polls, clock, operation, aborted, requests, atAbort, early,
  resource, optIn, header, read, sentTo,
  enabled, definition, listSwagger, required, place, offered, skipped, workflow,
  cached, native, made

accessVars == <<access, asked, explicit, chosen>>
fanVars == <<probes, next, working, answered, results, lateCalls, enumerated, headers>>
poolVars == <<left, workers, found, failed, truth>>
graphVars == <<content, asking, waiting, token, tokens, pages, rows, lost, enriched>>
estateVars == <<tags, answers, scope, inventory, roster>>
apimVars == <<service, assigned, listed, toCheck, protobuf, masked>>
centerVars == <<todo, truncated, definitions, missed>>
fetchVars == <<fetch, first, url, hop, body, late, sent, whole>>
linkVars == <<fetchVars, attempt>>
mintVars == <<minted, tried>>
pollVars == <<wire, polls, clock, operation, aborted, requests, atAbort, early>>
siteVars == <<resource, optIn, header, read, sentTo>>
flowVars == <<enabled, definition, listSwagger, required, place, offered, skipped,
              workflow, cached, native, made>>
runtimeVars == <<siteVars, flowVars>>

-----------------------------------------------------------------------------
Access == INSTANCE Scopes WITH Subscriptions <- SubscriptionIds

Fan ==
  INSTANCE Fanout
    WITH Subscriptions <- Selected, Kinds <- CloudKinds, Width <- HeaderWidth,
         late <- lateCalls

Graph ==
  INSTANCE Enrichment
    WITH Scopes <- { Selected[i] : i \in DOMAIN Selected }, Eligible <- InScope,
         Candidates <- Enumerated, seen <- tokens

Roster == INSTANCE Estate WITH Scopes <- Selected

Apim == INSTANCE ApimListing

Center == INSTANCE ApiCenterInventory

Minting == INSTANCE ApimExport

Polling == INSTANCE ApiCenterExport

Site == INSTANCE SiteExport WITH site <- resource

Logic ==
  INSTANCE LogicExport
    WITH scope <- place, listed <- offered, chosen <- workflow

-----------------------------------------------------------------------------
NoClosure ==
  /\ refs = [f \in Files |-> <<>>] /\ readable = {Root}
  /\ size = (CHOOSE s \in Sizes : TRUE) /\ limits = (CHOOSE l \in Limits : TRUE)
  /\ Init
NoAccess == access = Unused /\ asked = Unused /\ explicit = Unused /\ chosen = Unused
NoFan ==
  /\ probes = Unused /\ next = Unused /\ working = Unused /\ answered = Unused
  /\ results = Unused /\ lateCalls = Unused /\ enumerated = Unused /\ headers = Unused
NoPool ==
  /\ left = Unused /\ workers = Unused /\ found = Unused /\ failed = Unused
  /\ truth = Unused
NoGraph ==
  /\ content = Unused /\ asking = Unused /\ waiting = Unused /\ token = Unused
  /\ tokens = Unused /\ pages = Unused /\ rows = Unused /\ lost = Unused
  /\ enriched = Unused
NoEstate ==
  /\ tags = Unused /\ answers = Unused /\ scope = Unused /\ inventory = Unused
  /\ roster = Unused
NoApim ==
  /\ service = Unused /\ assigned = Unused /\ listed = Unused /\ toCheck = Unused
  /\ protobuf = Unused /\ masked = Unused
NoCenter ==
  /\ todo = Unused /\ truncated = Unused /\ definitions = Unused /\ missed = Unused
NoFetching ==
  /\ fetch = Unused /\ first = Unused /\ url = Unused /\ hop = Unused
  /\ body = Unused /\ late = Unused /\ sent = Unused /\ whole = Unused
  /\ attempt = Unused
NoMint == minted = Unused /\ tried = Unused
NoPoll ==
  /\ wire = Unused /\ polls = Unused /\ clock = Unused /\ operation = Unused
  /\ aborted = Unused /\ requests = Unused /\ atAbort = Unused
  /\ early = Unused
NoSite ==
  /\ resource = Unused /\ optIn = Unused /\ header = Unused /\ read = Unused
  /\ sentTo = Unused
NoFlow ==
  /\ enabled = Unused /\ definition = Unused /\ listSwagger = Unused
  /\ required = Unused /\ place = Unused /\ offered = Unused /\ skipped = Unused
  /\ workflow = Unused /\ cached = Unused /\ native = Unused /\ made = Unused
NoRuntime == NoSite /\ NoFlow

ClosureInit ==
  /\ part = "closure" /\ Init /\ step = Unused /\ outcome = Unused
  /\ NoAccess /\ NoFan /\ NoPool /\ NoGraph /\ NoEstate /\ NoApim /\ NoCenter
  /\ NoFetching /\ NoMint /\ NoPoll
  /\ NoRuntime
AccessInit ==
  /\ part = "access" /\ Access!Init /\ NoClosure
  /\ NoFan /\ NoPool /\ NoGraph /\ NoEstate /\ NoApim /\ NoCenter /\ NoFetching
  /\ NoMint /\ NoPoll
  /\ NoRuntime
FanInit ==
  /\ part = "fan" /\ Fan!Init /\ NoClosure /\ outcome = Unused
  /\ NoAccess /\ NoPool /\ NoGraph /\ NoEstate /\ NoApim /\ NoCenter /\ NoFetching
  /\ NoMint /\ NoPoll
  /\ NoRuntime
GraphInit ==
  /\ part = "graph" /\ Graph!Init /\ NoClosure /\ outcome = Unused
  /\ NoAccess /\ NoFan /\ NoEstate /\ NoApim /\ NoCenter /\ NoFetching /\ NoMint /\ NoPoll
  /\ NoRuntime
RosterInit ==
  /\ part = "roster" /\ Roster!Init /\ NoClosure
  /\ NoAccess /\ NoFan /\ NoGraph /\ NoApim /\ NoCenter /\ NoFetching /\ NoMint /\ NoPoll
  /\ NoRuntime
ApimInit ==
  /\ part = "apim" /\ Apim!Init /\ NoClosure
  /\ NoAccess /\ NoFan /\ NoPool /\ NoGraph /\ NoEstate /\ NoCenter /\ NoFetching
  /\ NoMint /\ NoPoll
  /\ NoRuntime
CenterInit ==
  /\ part = "center" /\ Center!Init /\ NoClosure /\ step = Unused
  /\ NoAccess /\ NoFan /\ NoPool /\ NoGraph /\ NoEstate /\ NoApim /\ NoFetching
  /\ NoMint /\ NoPoll
  /\ NoRuntime
MintingInit ==
  /\ part = "minting" /\ Minting!Init /\ NoClosure
  /\ NoAccess /\ NoFan /\ NoPool /\ NoGraph /\ NoEstate /\ NoApim /\ NoCenter /\ NoPoll
  /\ NoRuntime
PollingInit ==
  /\ part = "polling" /\ Polling!Init /\ NoClosure
  /\ NoAccess /\ NoFan /\ NoPool /\ NoGraph /\ NoEstate /\ NoApim /\ NoCenter /\ NoMint
  /\ NoRuntime

SiteInit ==
  /\ part = "site" /\ Site!Init /\ NoClosure /\ attempt = Unused
  /\ NoAccess /\ NoFan /\ NoPool /\ NoGraph /\ NoEstate /\ NoApim /\ NoCenter
  /\ NoMint /\ NoPoll /\ NoFlow
LogicInit ==
  /\ part = "logic" /\ Logic!Init /\ NoClosure
  /\ NoAccess /\ NoFan /\ NoPool /\ NoGraph /\ NoEstate /\ NoApim /\ NoCenter
  /\ NoFetching /\ NoMint /\ NoPoll /\ NoSite

ClosureStep ==
  /\ part = "closure" /\ Next
  /\ UNCHANGED <<part, step, outcome, accessVars, fanVars, poolVars, graphVars,
                 estateVars, apimVars, centerVars, linkVars, mintVars, pollVars, runtimeVars>>
AccessStep ==
  /\ part = "access" /\ Access!Next
  /\ UNCHANGED <<part, vars, fanVars, poolVars, graphVars, estateVars, apimVars,
                 centerVars, linkVars, mintVars, pollVars, runtimeVars>>
FanStep ==
  /\ part = "fan" /\ Fan!Next
  /\ UNCHANGED <<part, outcome, vars, accessVars, poolVars, graphVars, estateVars,
                 apimVars, centerVars, linkVars, mintVars, pollVars, runtimeVars>>
GraphStep ==
  /\ part = "graph" /\ Graph!Next
  /\ UNCHANGED <<part, outcome, vars, accessVars, fanVars, estateVars, apimVars,
                 centerVars, linkVars, mintVars, pollVars, runtimeVars>>
RosterStep ==
  /\ part = "roster" /\ Roster!Next
  /\ UNCHANGED <<part, vars, accessVars, fanVars, graphVars, apimVars, centerVars,
                 linkVars, mintVars, pollVars, runtimeVars>>
ApimStep ==
  /\ part = "apim" /\ Apim!Next
  /\ UNCHANGED <<part, vars, accessVars, fanVars, poolVars, graphVars, estateVars,
                 centerVars, linkVars, mintVars, pollVars, runtimeVars>>
CenterStep ==
  /\ part = "center" /\ Center!Next
  /\ UNCHANGED <<part, step, vars, accessVars, fanVars, poolVars, graphVars,
                 estateVars, apimVars, linkVars, mintVars, pollVars, runtimeVars>>
MintingStep ==
  /\ part = "minting" /\ Minting!Next
  /\ UNCHANGED <<part, vars, accessVars, fanVars, poolVars, graphVars, estateVars,
                 apimVars, centerVars, pollVars, runtimeVars>>
PollingStep ==
  /\ part = "polling" /\ Polling!Next
  /\ UNCHANGED <<part, vars, accessVars, fanVars, poolVars, graphVars, estateVars,
                 apimVars, centerVars, mintVars, runtimeVars>>
SiteStep ==
  /\ part = "site" /\ Site!Next
  /\ UNCHANGED <<part, vars, attempt, accessVars, fanVars, poolVars, graphVars,
                 estateVars, apimVars, centerVars, mintVars, pollVars, flowVars>>
LogicStep ==
  /\ part = "logic" /\ Logic!Next
  /\ UNCHANGED <<part, vars, accessVars, fanVars, poolVars, graphVars, estateVars,
                 apimVars, centerVars, linkVars, mintVars, pollVars, siteVars>>

all == <<part, step, outcome, vars, accessVars, fanVars, poolVars, graphVars,
         estateVars, apimVars, centerVars, linkVars, mintVars, pollVars, runtimeVars>>

ReadsInit ==
  \/ ClosureInit \/ AccessInit \/ FanInit \/ GraphInit \/ RosterInit
  \/ ApimInit \/ CenterInit \/ MintingInit \/ PollingInit
  \/ SiteInit \/ LogicInit

ReadsNext ==
  \/ ClosureStep \/ AccessStep \/ FanStep \/ GraphStep \/ RosterStep
  \/ ApimStep \/ CenterStep \/ MintingStep \/ PollingStep
  \/ SiteStep \/ LogicStep

ReadsSpec == ReadsInit /\ [][ReadsNext]_all
ApimSpec == ApimInit /\ [][ApimStep]_all
LogicSpec == LogicInit /\ [][LogicStep]_all

-----------------------------------------------------------------------------
Typed ==
  /\ TypeOK
  /\ part = "access" => Access!TypeOK
  /\ part = "fan" => Fan!TypeOK
  /\ part = "graph" => Graph!TypeOK
  /\ part = "roster" => Roster!TypeOK
  /\ part = "apim" => Apim!TypeOK
  /\ part = "center" => Center!TypeOK
  /\ part = "minting" => Minting!TypeOK
  /\ part = "polling" => Polling!TypeOK
  /\ part = "site" => Site!TypeOK
  /\ part = "logic" => Logic!TypeOK

ScopesVerified == part = "access" => Access!ScopesVerified
HeadersAreInOrder == part = "fan" => Fan!HeadersAreInOrder
EnrichmentIsTrue == part = "graph" => Graph!EnrichmentIsTrue
RosterIsTrue == part = "roster" => Roster!RosterIsTrue
ListingIsTrue == part = "apim" => Apim!ListingIsTrue
InventoryIsWhole == part = "center" => Center!InventoryIsWhole
ExportsAreTrue ==
  /\ part = "minting" => Minting!ExportIsTrue
  /\ part = "polling" => Polling!CenterExportIsTrue
  /\ part = "site" => Site!SiteExportIsTrue
  /\ part = "logic" => Logic!LogicIsTrue

ServiceTagSelectsSoleApi == Apim!ServiceTagSelectsSoleApi
RequiredIsNative == Logic!RequiredIsNative
================================================================================
