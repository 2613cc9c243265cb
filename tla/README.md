# A TLA+ model of postman-azure-spec-discovery-action

The action finds the API definitions behind a repository or an Azure estate:
it reads subscriptions, API Management, API Center, App Service, Logic Apps and
other Azure services, picks the service a repository belongs to (*resolve-one*),
exports every candidate (*discover-many*) or lists what is there
(*discover-estate*), and writes the definitions below an output directory. This
directory holds specifications of the parts of that program in which order,
failure and limits matter, model-checked with TLC and, where it pays, proved
with TLAPS.

Paths below are relative to the repository; `runtime.ts` is `src/runtime.ts`.

## 1. Inventory

| component | state it keeps | operations | talks to | what is hard | correct when |
|---|---|---|---|---|---|
| Export writing (`runtime.ts` 1048-1497, `lib/utils/resolve-path-within-root.ts`) | service folder, stage and backup directories | stage, copy sidecars, swap, verify, drop backup, restore; single-file and derived writes | file system, injected writer and hooks | any await may fail, the process may die, an error in a catch block | readers see the old or the new folder; a failure restores; nothing verified is lost |
| Discover-many (`runtime.ts` 3069-3272) | candidate queue, summary counters, announced exports, `writtenPaths` | cap, hydrate per provider, export, refuse, write, announce | providers, export writing | a failure of one of many, late hydration, two candidates in one folder | counters add up; what is announced is on disk |
| ARM list reader (`lib/azure/arm-rest.ts`, `cloud.ts`) | page count, seen links, attempts | next page, request, retry, next link | ARM endpoint, caller's abort signal | hostile or broken paging, retries, abort at any time | complete or an error; bounded; token stays on the host |
| Probes and header enumeration (`runtime.ts` 1591-1617, 2077-2153) | work index, results by index, deadlines | probe, list headers, time out | providers | several workers, late answers | order follows providers, one failure is contained |
| Resolve-one (`runtime.ts` 2239-3067) | candidates, evidence, resolution | bound native spec, repository spec, narrowing, hydration, export | all of the above | many early exits in a fixed order | never a guess: ambiguity ends unresolved |
| Enrichment (`runtime.ts` 1769-2013, `source-control-client.ts`, `resource-graph-query.ts`) | associations, graph rows | query in a pool, merge, fall back per scope | ARM, Resource Graph | settle order, partial failure | the same answers in any order |
| Estate (`lib/estate/enumerate.ts`, `runtime.ts` 3274-3420) | repositories | enumerate, enrich | ARM | partial failure | nothing listed twice |
| Inputs, subscriptions (`runtime.ts` 207-512, 929-986) | resolved inputs | parse, resolve subscriptions | credential, ARM | fallback on 401/403 | an explicit choice wins |
| Narrowing and selection (`lib/resolve/*`) | tiers, scores | match, rank, select | Resource Graph | ambiguity, thresholds | a unique match or none |
| API Management (`lib/azure/clients.ts`, `lib/providers/apim.ts`) | promise caches | list, export link, download | ARM, blob storage | expired links, shared promises | retried once, failures not cached |
| API Center (`lib/azure/api-center-client.ts`, `lib/providers/api-center.ts`) | poll counter, clock | list, export, poll | ARM | long-running operation | bounded polls |
| App Service, Functions, Logic Apps (their clients and providers) | caches | list, probe, export | ARM, SCM sites | missing permissions | absence is not failure |
| Other providers (`lib/providers/*`) | none between calls | map resources to candidates | ARM | - | stable ids |
| Spec fetcher (`lib/fetch/spec-fetcher.ts`) | hops, bytes, deadline | fetch, follow, read | public URLs | redirects, sizes, one deadline | every limit holds over all hops |
| Native dependency closure (`lib/repo/native-dependency-bundle.ts`, `lib/spec/dependency-fidelity.ts`) | queue, seen paths, totals | read, enqueue, stop | repository files | limits, cycles, missing files | full only when nothing was left out |
| Spec formats (`lib/spec/*`) | none | parse, normalise, derive | - | - | pure functions |
| Repository discovery and parsers (`lib/repo/*`) | findings | scan, parse, merge | repository files | - | deterministic |
| Postman credentials (`lib/postman/*`) | token, refresh promise, memoised identity | refresh, probe | Postman API | concurrent callers, deadline | telemetry only: a failure is never noticed |
| Live validation harness (`validation/scripts/validate-live-azure-surfaces.mjs`) | manifest on disk, provision units, cleanup errors, case results | provision, save, run cases in a pool, tear down, recover | the `az` command, Azure, the action itself | parallel units, kills, deployments that go on, somebody else's resources | deletes what is its own and all of it; a pass is proof |
| Entry points, logging (`index.ts`, `cli.ts`, `lib/logging/*`) | none | wire, print | runner | - | - |

`PROJECT.json` lists the same components with what is modelled of each, and
every hazard at its line.

## 2. Modules

### AtomicPublish and StagedSwap

`StagedSwap` is `materializeDefinitionMembersStaged` with `restoreDirectory`.
A directory is a function from file names to contents, `Absent` for a file that
is not there and `NoDir` for a directory that does not exist; the bytes a run
writes are the run itself, so that a file tells which run wrote it. `canonical`
is the service folder; `stage[r]` and `backup[r]` are the directories named
after run id `r`, which survive the run when it leaves them behind. `pc` walks
through the awaits; each action is one await (or a loop iteration of several
that only matter together), in its successful and its failing form:

| action | code |
|---|---|
| `Begin` | run id, symlink checks, `rm`, `mkdir` (before the `try`: no cleanup) |
| `StageMember`, `StageMemberThrows` | write, fsync, verify, injected writer, verify, hook |
| `StageDone`, `CopySidecar` | `canonicalExisted`, copy loop |
| `SwapOut`, `SwapOutThrows`, `SwapIn`, `InnerRestore` | the two renames and the inner catch |
| `Verify`, `VerifyThrows` | `afterCanonicalSwap`, canonical verification |
| `DropBackup`, `DropBackupThrows` | `rm(backupDir)`, `rm(stageDir)` |
| `Catch`, `CatchThrows`, `RestoreRemove`, `RestoreRename` | the outer catch and `restoreDirectory` |
| `Crash`, `CrashInRemove` | the process dies between or inside these |

A rename is one step, a recursive delete may stop half-way (`Remnants`). Runs
follow each other: the action's own process is the only writer of its output
directory, and a workflow may start it again after a crash. `Faults` selects
which failures can strike, so that each property is stated under exactly the
failures it survives. `prior`, `good`, `latest` and `spoiled` are history
variables.

`AtomicPublish` is what readers rely on: the folder is replaced in one step by a
complete new one, and may be taken back in one step if there was one before.
`StagedSwap` maps to it with `tree <- View`, where `View` is the folder or,
while it is out of the way, the backup it was last renamed to.

### DiscoverMany

From the partitioned header list on: cut to `max-candidates`, hydrate provider by
provider in a race with a deadline, then for each candidate skip, export, check
for a collision, refuse an incomplete source set, write, derive, announce.
Hydration may make several candidates of one header (`Becomes`): a template spec
version becomes one for each document embedded in it, none of which is the header.
`headers` are cut, `hydrated` is what came back and `queue` what is left of it;
`dropped` (a history variable) are the headers of groups that failed or were late
and those no provider is bound for. Candidates are told apart by themselves and
known to the code by `IdOf`, since two documents of a template may bear one id.
Documents are the candidates they came from, so `disk[path]` tells whose document
a path holds. `writeSpecExport` is split at its writes, `Write` (the whole staged
swap or the single file) and `Announce` (derived sidecar, registration, counters),
because either may fail alone. The name-to-folder mapping (`resolveServiceName`,
`projectFolderName`) is a set of possible folders per candidate, since many names
lead to one folder. `setup` is what a run finds: which candidates are listed as
headers, what becomes of each, the ids, the bound provider of each candidate,
those folders, the results an export may have and `max-candidates`. `Filters`
gives `Array.filter` as a recursive function over the positions of a sequence.

### ArmPages

`listArmPages`, `takeNextLink` and `armRequest`. A link stands for its page. The
server chooses each answer and each next link; the caller may abort at any
time. The delay between attempts is a step (`Wake`) and is not cut short by the
abort, as in the code.

### ResolveOne

`runResolveOne`, whose early exits follow one fixed order. `pc` names the stage
about to run:

| stage | code |
|---|---|
| `repository`, `bound`, `local`, `iac` | binding file, `nativeSpecPath`, native files, documents in templates |
| `cloud` | selector conflict, subscriptions, probes |
| `center` | an explicit API Center definition |
| `headers` | `collectCandidateHeaders`, `buildScoredHeaders` |
| `byId`, `hydrateId`, `checkId` | an explicit `api-id` |
| `narrow`, `rank` | narrowing pipeline, first ranking, the selection to hydrate |
| `hydrate` | hydration of the selection, then the second ranking and decision |
| `ready`, `export`, `done` | late hydration of the winner, export, result |

A candidate is a record of its resource, the embedded document it stands for,
its score, whether it can be exported and whether its detail is still
`pending`. Hydration replaces a header by candidates; only a template spec
version (`Expandable`) may turn into several, each with a score of its own.
`exact` is the id narrowing selects outright, and `Chosen` is how the ranking
recognises it. The resource-id order that settles equal scores is a choice.
What the repository and Azure hold, what narrowing selects and which calls fail
is chosen by the environment; a header is assumed to have its provider bound.

### NativeClosure

`resolveRepoNativeDependencyCompanions` and the verdict of
`buildRepoNativeExportBundle` with `assessNativeDependencyFidelity`. A reference
is the file it leads to, or `Away` when it has no key or leaves the directory of
the root; different spellings may lead to one file, so `refs` may repeat it.
Each action takes one item off the front of `queue`: `Miss` (no key, outside, or
a new file over the ceiling on hops or files), `Skip` (reached before),
`Unread` (cannot be read within the byte ceilings) or `Collect`. `Start` is the
ceiling on the root itself and `Conclude` the verdict, where a direct reference
counts as covered if a companion bears its base name. The files, their
references and sizes, which of them can be read and the ceilings are chosen at
the start and stay. A checkout has finitely many files, the root among them
(`ConstantsAssumption`).

### The reading parts

Eleven parts of the program read and share no state with each other. Each has a
module of its own; `Reads` puts them side by side, with `part` for the one a
behaviour is about and `ReadsAssumption` for what their constants are. They
share names of variables where they do the same thing (`step`, `outcome`).

| module | code | what its state stands for |
|---|---|---|
| `NativeClosure` | see above | |
| `Scopes` | `resolveSubscriptionIds`, `runtime.ts` 929-986 | `explicit` is the rest of the loop over the ids given; a denied lookup (`Denied`) goes to the listing, any other failure throws |
| `Fanout` | `buildBoundProviders`, `probeProviders`, `collectCandidateHeaders`, `mapWithBoundedConcurrency` | `results` are the slots of the pool, filled by position; `late` (`lateCalls` in `Reads`) are calls whose deadline has passed and whose answer nobody hears |
| `SourceControl` | `mapPool` with `querySourceControlAssociations` and `source-control-client.ts` | `found` grows in the order in which lookups settle; a rejecting worker stops, the others go on unheeded; `truth` is what each lookup returned |
| `Enrichment` | `queryResourceGraph` and `enrichCandidatesWithSourceControl` over `SourceControl` | one paged query over all subscriptions, then one by one; `content` are the rows there are |
| `Estate` | `enumerateEstate`, `dedupeEstate`, `enrichEstateWithSourceControl` over `SourceControl` | the roster as a function from repositories (in lower case) to entries |
| `ApimListing` | `listServices`, `listApis` (`clients.ts`) and `listCandidates` (`providers/apim.ts`), with `Narrowing` | one service with its APIs and workspaces; `masked` are schema lists that could not be read |
| `Narrowing` | `narrowing-pipeline.ts` | the six tiers as a function of what they see of each candidate |
| `ApiCenterInventory` | `listDefinitions` (`api-center-client.ts`) | the depth-first walk as the sequence of levels still to visit |
| `SpecFetch` | `spec-fetcher.ts` | one fetch: hops, bytes, deadline; `sent` and `whole` tell what the server did |
| `ApimExport` | `exportApi` of `ApimSdkClient` over `SpecFetch` | a link is the number under which it was minted |
| `ApiCenterExport` | `exportSpecification` over `SpecFetch` | `step` is the place in the operation, `wire` the request of that step with its retries |
| `SiteExport` | the app-service and function-bindings providers over `SpecFetch` | `site` may be deployed anew at any step; `header` and `read` are what earlier reads saw |
| `LogicExport` | the logic-apps provider and client | workflows change at any time; `cached`, `native` and `made` tell what an export was made from |

`SourceControl` and `SpecFetch` are parts others extend, as the code calls them.
A service answers, denies, fails or is late as it likes at every step. Names,
documents and addresses are model values; what the code does with them is kept
only as far as it decides (a host that is the same or another, a link that
is safe or not, a tag of select grade or not).

### LiveValidation and LiveCases

`LiveValidation` is the life of a stack of resources under the script that
validates the action against Azure: `Start` with its options, `MakeGroup`,
`SaveManifest`, the two deployments, the parallel provision units, the wait for
them, the teardown (`Cancel`, `PollCancelled`, `Delete`, `AwaitGone`, `Audit`)
or that of a group of its own (`ShowGroup` to `PollGroup`), and `End`. Azure
goes on by itself: deployments make resources (`DeploymentMakes`) and end,
deletions are carried out (`Vanishes`). A run may be killed at any step and
another one started, with the manifest of the last one on disk. The tag of a
resource says who made it.

`LiveCases` is the matrix those runs execute: the cases of the catalog with
what each expects, the pool of workers that takes them in order, the temporary
directories, the missing capabilities and the case that changes the site all
others look at. The commands of a case are synchronous, so workers take turns
only at an await. `Live` puts the two side by side in the way of `Reads`.

### MC modules

`MCStagedSwap`, `MCDiscoverMany`, `MCArmPages`, `MCResolveOne`, `MCReads` and
`MCLive` give the constants the values the configurations use and define nothing
that is checked. The four setups of `MCDiscoverMany` are a shared folder with
single files and folders of their own with source sets, each with headers that
become themselves and with one that becomes several candidates.

## 3. Runs

| run | question | result |
|---|---|---|
| staged_swap_faults | after any history of failures and crashes, what do a success and an exception mean, and is a good folder ever lost? | exactly the target; exactly the prior folder; never, unless its own backup could not be deleted |
| staged_swap_refines | do readers ever see a mixture, and does every export settle? | no mixture without failing deletes; yes |
| staged_swap_backup_removal | and if deleting the backup fails? | the remains of the old folder replace the new one (finding) |
| discover_many | headers that become one or several candidates, of one folder with single files or of their own with several, every fault, a cap | announced documents stay, the account adds up, `resolved` means complete but for dropped headers |
| discover_many_swap | a shared folder and several files | the swap drops another candidate's root (finding) |
| arm_pages | any server, abort at any time | complete or error, bounded, ends |
| resolve_one | is Azure left alone while the repository answers, are requests and selections honoured, does a ranked resolution ever guess, does every run end? | yes; yes, save template specs; no; yes |
| resolve_one_expands | and a selected template spec? | another candidate may win (finding) |
| reads | is what the reading parts return what was answered, all of it or with the gap told, in whatever order and with whatever failing? | yes, property by property below |
| apim_tag | does a tag under a custom key select the one API of a service that can be exported, as the docs say? | not next to APIs that cannot (finding) |
| logic_required | does a required native document keep the synthesis away, as the docs say? | not after a denial (finding) |
| live_validation | does teardown delete its own resources only and all of them, is the manifest there first, is the evidence of a matrix true, does every run end? | yes |

The properties of `reads`: `FullMeansClosed`, `BundleWithinLimits` and
`FullIffComplete` for the closure of a native definition; `ScopesVerified`: the
ids a run works on are those it was given and can see; `HeadersAreInOrder`: the
order of headers is that of the providers however calls settle, with nothing of
a provider that failed or came late; `EnrichmentIsTrue`: rows are those of the
subscriptions whose last query succeeded, and each candidate gets the
repositories its own resource answered with; `RosterIsTrue`: each repository
with its resources and where they were found, and no empty roster of a sweep
nobody answered; `ListingIsTrue`: no current API is lost, and a canonical tag
of a service selects exactly its only API that can be exported;
`InventoryIsWhole`: a cut is always told; `ExportsAreTrue`: an export is a whole
document, from where its class says, of an operation that has succeeded (unless
it lay in the open in an earlier answer: `early`), with the token sent to the
site's own host only, fresh links after a refusal, and no request after an
abort.

### Known behaviours without a run

These follow from the models or were met while writing them; some are choices a
reader may want to know of.

Writing and discover-many. After a crash between the two renames there is no
service folder, and its content lies in a backup directory named after a run
nobody knows. Two candidates with different root files in one folder share one
`openapi.derived.json` (`DerivedHold` speaks of folders of their own). A provider
that hydrates too late, or that fails on one header of its group, loses the whole
group with a warning only: no counter shows it and the run still reports
`resolved`. `ResolvedMeansComplete` therefore leaves out `dropped` and says that
nothing else is missing. Two documents embedded under one resource name, or
under none (`apim-api`), bear one id (`template-specs.ts` 88-150): the collision
check, which compares ids (`runtime.ts` 3212), lets the second overwrite the
first in one folder, and both are announced. `SpecsHold` is checked for
candidates with ids of their own, and proved for these or for folders apart.

Resolve-one. An exact selection has confidence 100, and another supported
candidate at exactly 100 leaves the run to review. Candidates that tie at score
0 are all hydrated, and a failing hydration of any of them fails the run. A
selection that drops behind a template spec nobody has hydrated leads to that
spec, which is hydrated at the export and of whose documents the first is taken.

Dependencies. A native file that refers to itself is never full: the assessment
looks for the root among the companions, where it cannot be, although a comment
(`native-dependency-bundle.ts` 150) says that cycles are never taken for gaps;
cycles through another file are not (`FullIffComplete`).

Reading. A rejecting lookup rejects the pool while other workers go on. How the
roster spells a repository depends on the order in which lookups settle. A
sweep of which some subscriptions fail gives no warning. A gRPC schema list that
cannot be read makes a service look as if it had fewer eligible APIs, so that
its tag may select; workspace APIs with the id of an API of the service share
its gateway assignments and its gRPC verdict; historical revisions are dropped
by groups of a version set or version that span unrelated APIs. The fetch of an
API Center link is not handed the abort signal, a retried export POST may start
more than one operation, and a payload in the open in the body of a poll is taken
before its status is looked at, of a running or failed operation too (`early` in
`ApiCenterExport`). A site whose workflows cannot be listed is skipped for
any failure but a denial, where the comment speaks of the missing capability
only; a malformed `listSwagger` answer falls back to the triggers unless a
native document is required, where `docs/providers.md` 76 says it fails. An
app-service configuration that cannot be read, without a denial, drops its link
in silence; a function app with an OpenAPI path, no known host and no triggers
counts as supported and can never be exported.

Live validation. With `--cancel-recover` the saved manifest replaces the suffix
and the marker of the request (3026): a recovery asked for one run takes down the
last saved one and reports success. `apiDefinition.url` stays cleared when the
seed of the ApiSpecPath case fails after the clear. A failed audit counts as no
residue. Recovering a run with a group of its own while `AZURE_RESOURCE_GROUP` is
set leaves that group empty. The flag `functionOpenApiExtensionSeeded` is never
set, so that its case never passes. A failing `mkdtemp` rejects the matrix while
other workers go on. A group of its own is created (2610) before the manifest is
saved (2630): a run killed in between leaves an empty group, with its marker, that
no manifest names. `NothingBeforeManifest` is about what is made within a group.

Bounds. Two runs (interchangeable) show the interaction of a run with what an
earlier one left; for more of them there are the theorems. Four file names give
each role one name (root, dependency kept, dependency dropped, sidecar). Three
headers and two providers give a pair that collides and one that does not, and a
header that becomes two candidates beside one that stays itself; two files and the
sidecar give equal and different roots. Five links with a ceiling of three pages
reach the ceiling, the repeated link and the foreign host; two attempts reach the
retry and its exhaustion. Two resources with scores on both sides of the minimum
(40) and of the confidence of an outright selection (100), and up to two embedded
documents, give winners, ties, selections that rank below others and selections
that fall apart. A root and three files with eight lists of references each give
chains, cycles through the root and beside it, diamonds, repeats, dead ends and
two files of one name; ceilings of three files or two hops, and of two bytes per
file and four in all, are each met exactly and exceeded by companions; the root is
within them or over the one on a single file. Of the other reading parts: three
subscriptions give orders of ids and a choice among several; two subscriptions
with one provider each, two local providers and two workers give a pool that is
full and workers that overtake each other; two sites and a container app, of which
two candidates share a site, give lookups that are shared, repeated and rejected,
under two pages and two tokens; three APIs of which one lies in a workspace, with
the id of one and the revision group of another, give every mixture of eligible,
unsupported and historical ones; two services with two children each and three
definitions in all meet each ceiling exactly and exceed it; four links, one unsafe
and one on another host, one redirect, two bytes and two attempts reach every end
of a fetch, a mint and a poll. For the live harness: two runs of one stack in the
shared group and one in a group of its own, one kind of resource of each sort, one
failure of `az`, one name somebody else has taken; and three cases, one of which
changes the site, with two workers. Deadlock checking is off where the modelled
call simply ends.

Fairness. `FairSpec` of `StagedSwap` and `ArmPages` assumes that the code's own
steps go on: local file operations settle, every fetch settles at the latest by
`AbortSignal.timeout`, every delay ends. That of `ResolveOne` assumes that a
stage ends: probes, enumeration and hydration race with deadlines and the
requests below them have time limits. Nothing is assumed of crashes, aborts
or the server. `RunEnds` of the live harness needs more: that `az` returns, and
that Azure ends a deployment (`DeploymentEnds`), because `az deployment group
create` (2659) waits for it without a deadline. The waits for a lane, a
cancellation and a deletion have deadlines and need nothing of Azure. A lane
request whose client has timed out is taken to have landed before that or never.

## 4. Proofs

`StagedSwapProofs`. `IInv` adds to `TypeOK` what each `pc` knows of the three
directories: members staged so far are the run's own, the stage is the target
once the sidecars are copied, the backup equals `prior` from the swap until it
is restored or dropped, a verified folder is the target. `TypeOK` alone says
nothing of the contents, so none of the others would be inductive. From `IInv`:
`SuccessIsComplete`, `Recoverable` and `RestoreIsExact` under all faults and
crashes, and `Refinement` without failing or interrupted deletes of the folder
and its backup. `spoiled` names the run whose backup could not be deleted, the
one exception the last two safety theorems state and the finding shows to be
needed; `outcome = "unrestored"` tells an exception of the catch block itself.

`SequenceFacts` holds what several of the others need. The provers take no
theorem with an operator as its parameter, so the induction theorems of the
library cannot be cited; stated for *sets* they can be. `Upwards` proves from the
well-foundedness of the naturals that a set which contains 0 and the successors
of its members up to N contains `0 .. N`, and `Smaller` that a set which contains
each subset of a finite set, as soon as it contains those with one element less,
contains them all. A recursive function is then
unfolded by showing that a function with its equation exists, which makes the
`CHOOSE` behind its definition one. The rest is what `Filter` keeps, its length,
order and injectivity, and how it meets concatenation; what the concatenation of a
sequence of sequences (`FlattenSeq`) is made of; and `Total`, the sum of a
function over a finite set, with how it changes with the set.

`DiscoverManyProofs`. The types, and the account: `AccountIsRight` at every point
of a run for any candidates and faults. `BatchFacts` says what hydration returns
for a group, the concatenation of what its headers become, by induction over the
group (`FlatInduction`): the candidates of its headers, none twice. `Distinct`
says that a candidate is in one place only, of what is still to be hydrated, the
queue, the job and the announcements. `StayInv` adds where announced documents
lie, that their paths are registered, and that an export past its check does not
collide: `SpecsHold` follows where folders are never shared, or where every export
is one file and no two candidates bear one id (the finding `discover_many_swap`
and the doubled ids of section 3 are the remaining cases), `DerivedHold` in any
setup. `Covered` says that what a header within the cap becomes has been hydrated,
unless the header waits or was dropped, and that each exportable one of these is
on its way or announced as long as nothing failed, which gives
`ResolvedMeansComplete`.

`ArmPagesProofs`. `IInv` relates `entries`, `seen` and `url`: the pages
collected are the links in `seen` and possibly the current one, each once, and
`requests <= (pages - 1) * MaxAttempts + attempt`. All safety properties of the
run follow for any set of links and any bounds.

`ResolveOneProofs`. `ChoiceInv` ties `winner` to the second ranking, `target`
to the path that produced it, and says that nothing is left to hydrate when a
decision is taken; from it follow `RepositoryFirst`, `ChoiceIsJustified` (with
its three parts) and `DecidedIsNotSkipped` for any resources and scores.
`SelectionInv` adds that a selection that is not a template spec outlives
hydration, whatever the others turn into, which gives `ExactSelectionKept`; the
finding `resolve_one_expands` shows that template specs are a real exception.

`NativeClosureProofs`. `ClosureInv` is the frontier of the search: while nothing
is missing, what was reached is in the bundle, and what the bundle refers to was
reached or is queued; an empty queue then gives `FullMeansClosed` for any files,
references and ceilings. `LimitsInv` adds that what is collected was reached,
which keeps companions distinct (`BundleWithinLimits`).
`FullIffComplete` is the converse as well: an export is full exactly if
everything within the ceiling on hops is there and fits. The reference
definition is recursive in the number of hops; the proof shows that it is the
set of the ends of paths (`HopsFacts`). `Breadth` is the invariant of a
breadth-first search, in terms of the true distances: the queue holds at most
two of them, in order, all nearer files have been reached, and what those refer
to has been reached or is queued at the distance of the front. Without the order
of the queue a file could be met first on a path that is too long and then be
skipped on a short one. `SearchInv` adds that each file comes from one of the
bundle (`Sourced`), that the bundle is within the hops, that its bytes are those
counted, and that nothing is missing when everything is there (`Whole`).

`LiveProofs`. For the stack, `OwnInv` says who can bear which marker (`Tagged`: a
place bears the marker of its own stack, and something of somebody else only in
the shared group) and what a run that is on its way knows (`Underway`: its group
is there, its manifest is saved before it deploys or starts a unit, units run only
while they are waited for). The action properties `OnlyOwnDeleted` and
`NothingBeforeManifest` follow. `Cleared` says what each step of the two ways of a
teardown has seen to; that deployments are over before the resources are waited
for is what keeps Azure from making something again behind it, and gives
`CleanMeansGone` for any number of runs, kills and faults. For the matrix,
`MatrixInv` says that gates are passed before a case is called (`Truth`), that a
case that was taken has its row or a worker unless the pool has rejected
(`Complete`), and that nobody is about to meet the changed site (`Undisturbed`).
The catalog is taken literally: that its ids are distinct is proved part by part,
since a row names its case by its id. `BothParts` carries both over to `Live`.

`ReadsProofs`. Each part has an inductive invariant and a theorem; `PartsStart`
and `PartsStep` show once that a behaviour of `ReadsSpec` is one of the part it
began with.

| part | invariant | what it says beyond the property |
|---|---|---|
| `Scopes` | `ScopesInv` | what is verified and what is still to verify make up what was given, in that order |
| `ApiCenterInventory` | `InventoryInv` | `truncated` is told when something is left out, and the walk ends with an empty list |
| `SpecFetch` | `FetchInv` | what has been received, sent and skipped of the body, and on which host the hop is; used by the next three |
| `ApimExport` | `AttemptInv` | the attempts against the links minted and how each ended |
| `ApiCenterExport` | `PollingInv` | which step may have which request, how requests, polls and the clock are bounded, none after the abort; a link is fetched of a succeeded operation or came early |
| `SiteExport` | `SiteInv` | what an earlier read saw and what may be fetched with it |
| `LogicExport` | `LogicInv` | the listing so far is that of the sites so far, and a native document is asked of one kind only |
| `ApimListing` | `ListingInv`, `SchemasInv` | what has been kept of the APIs asked about, per stage; from `Least` and `TagSelects` the tag of a service selects its only eligible API |
| `SourceControl` | `PoolInv` | a resource is looked up once and by one worker, and its finds stand in `found`, between those of others, as it answered (`PoolTrue`) |
| `Estate` | `EstateInv` | until the lookups have settled, and for good if they fail, the roster is that of the tags |
| `Enrichment` | `GraphInv` | a subscription is asked, waiting, lost, or has given all its rows; only what is mentioned is looked up |
| `Fanout` | `FanInv` | what stands in a slot is what its provider answered; headers come in order by induction over the slots (`FlattenInduction`) |

`ReadsTyped` adds the types of all of them. `PoolTrue` is the reason the order in
which lookups settle cannot matter: the filter of `found` by a resource is an
invariant although `found` itself depends on the order.

The theorems assume what the modules' constants are and no more:
`ConstantsAssumption`, `ReadsAssumption` and `WorkersAssumption`, which TLC
evaluates on the instances, and the premises of `ExportsStay` (folders apart or
single files, ids distinct) and of `Refinement` (no failing or interrupted deletes).

Every invariant the passing runs check is stated by a theorem, and so are the
refinement of `AtomicPublish` and the action properties (`AbortStopsRequests`,
`OnlyOwnDeleted`, `NothingBeforeManifest`). Only model-checked are the liveness
properties (`EveryExportSettles`, `ListEnds`, `Settles`, `RunEnds`): fairness
speaks of ENABLED, which these provers do not handle. What the findings show is
model-checked by nature.

## 5. Plan

1. Discover-many composed with the real `StagedSwap` in place of its two
   outcomes, for candidates that share a folder and a process that dies; and the
   refinement of the two-outcome step by it.
2. Abstract specifications of the reading parts (a listing in one step, a fetch
   in one step) and the parts as their refinements.
3. The parts of components that are modelled in part: the hydration of API
   Center candidates, the GraphQL, gRPC and WSDL readers, the other providers.

## 6. Not modelled

- The text of specifications and its conversion (`lib/spec/*`), the parsers of
  the repository (`lib/repo/parsers/*`) and the scan itself: pure functions or
  sequential reads of files that nothing else writes. What they find is chosen
  by the environment in `ResolveOne` and `NativeClosure`.
- Path confinement and symbolic links: a check that may throw.
- Postman credentials and telemetry: nothing of them reaches an export, and
  their failures are swallowed by design.
- Input parsing, entry points, logging and printed output.
- The verification scripts for coverage and the built bundle, which compare
  files.
- Providers that only map resources to candidates (custom APIs, Event Grid,
  Service Bus, public URLs, declared routes); what the hydration of template specs
  does to candidates is in `ResolveOne` and `DiscoverMany`.
- The GraphQL, gRPC and WSDL readers below the API Management export, and the
  deployments API Center adds to its evidence.
- Azure and Postman beyond the answers the code distinguishes.
