---------------------------- MODULE DiscoverMany ----------------------------
(***************************************************************************)
(* The second half of runDiscoverMany of src/runtime.ts, with              *)
(* hydrateHeadersForProviders and writeSpecExport: the candidate headers,  *)
(* already partitioned, are cut to max-candidates, hydrated one provider   *)
(* after the other, and exported one by one below the output directory.    *)
(* Hydration makes one candidate of most headers, and of a template spec   *)
(* version one for each document embedded in it.  Each candidate it        *)
(* returns ends up in a counter of the export summary; an exported one is  *)
(* also announced with the paths it was written to.                        *)
(*                                                                         *)
(* A document is abstracted to the candidate it came from.  The multi-file *)
(* swap, which StagedSwap models step by step, is one step here with the   *)
(* outcomes AtomicPublish allows: the new folder or the prior one.         *)
(***************************************************************************)
EXTENDS Integers, Sequences, FiniteSets, SequencesExt, FiniteSetsExt, Filters

CONSTANTS
  Candidates,     \* candidates, as enumerated or as hydrated
  HydratedBy,     \* the provider that hydrates a header, or Unbound
  Unbound,
  Folders,        \* the service folders
  Files,          \* file names in a service folder
  Derived,        \* of these, "openapi.derived.json"
  Setups,         \* what the run may find, see below
  Before,         \* content of a file written before this run
  Torn,           \* content of a file whose write was cut short
  Absent,         \* no such file
  Nobody,         \* a path no candidate has been registered for
  Faults          \* which of FaultKinds can strike

FaultKinds == {"hydrate", "export", "write", "derive"}

\* Root and companion file names, what deriveOpenApiDocument makes of the
\* document (nothing, the document itself, another document), and whether the
\* native source set is incomplete.
ExportResults ==
  [root : Files \ {Derived}, companions : SUBSET (Files \ {Derived}),
   derivation : {"none", "self", "sidecar"}, incomplete : BOOLEAN]

Providers == {HydratedBy[c] : c \in Candidates} \ {Unbound}

\* A setup: the candidates that enumeration may list as headers; what hydration
\* makes of each, no two of them the same candidate; the candidate whose id a
\* candidate bears, which is another one when a template spec embeds two
\* documents under one resource name; the bound provider findBoundProvider
\* returns for it, or Unbound; the service folders its name may lead to; the
\* results exportSpec may return; inputs.maxCandidates.
ASSUME ConstantsAssumption ==
  /\ IsFiniteSet(Candidates)
  /\ DOMAIN HydratedBy = Candidates
  /\ Derived \in Files
  /\ \A s \in Setups :
       /\ s.listed \subseteq Candidates
       /\ s.becomes \in [Candidates -> Seq(Candidates)]
       /\ \A h \in s.listed : IsInjective(s.becomes[h])
       /\ \A h, k \in s.listed :
            h # k => Range(s.becomes[h]) \cap Range(s.becomes[k]) = {}
       /\ s.idOf \in [Candidates -> Candidates]
       /\ s.exportedBy \in [Candidates -> Providers \cup {Unbound}]
       /\ s.foldersOf \in [Candidates -> SUBSET Folders]
       /\ s.exports \subseteq ExportResults
       /\ s.maxCandidates \in Nat \ {0}
  /\ Nobody \notin Candidates
  /\ {Before, Torn, Absent} \cap Candidates = {}
  /\ Faults \subseteq FaultKinds

VARIABLES
  setup,       \* what this run found
  headers,     \* partitioned headers, the enumerated candidates
  ready,       \* those with headerHydrated
  supported,   \* those that hydration reports as supported
  dryRun,      \* inputs.dryRun
  pc,          \* the next step
  waiting,     \* headers still to be hydrated
  hydrated,    \* the candidates hydration has returned
  queue,       \* those still to be exported
  job,         \* the export in progress: candidate, folder and result
  summary,     \* attempted, exported, failed, skipped
  dropped,     \* history: the headers hydration has dropped
  discovered,  \* the announced exports
  writtenPaths,\* [folder, root file] -> candidate id
  disk         \* [folder, file] -> content

input == <<setup, headers, ready, supported, dryRun>>
hydration == <<waiting, hydrated, dropped>>
vars == <<input, hydration, pc, queue, job, summary, discovered, writtenPaths,
          disk>>

Paths == Folders \X Files

Listed == setup.listed
Becomes == setup.becomes
IdOf == setup.idOf
ExportedBy == setup.exportedBy
FoldersOf == setup.foldersOf
Exports == setup.exports
MaxCandidates == setup.maxCandidates

NoJob == <<>>

\* The candidates that hydration makes of the headers of a set.
Results(hs) == UNION {Range(Becomes[h]) : h \in hs}

\* partitionedHeaders.slice(0, inputs.maxCandidates)
Capped == SubSeq(headers, 1, Min({Len(headers), MaxCandidates}))

Init ==
  /\ setup \in Setups
  /\ headers \in {s \in SeqOf(Listed, Cardinality(Listed)) : IsInjective(s)}
  /\ ready \in SUBSET {h \in Range(headers) : Becomes[h] = <<h>>}
  /\ supported \in SUBSET Results(Range(headers))
  /\ dryRun \in BOOLEAN
  /\ pc = "cap"
  /\ waiting = <<>>
  /\ hydrated = <<>>
  /\ queue = <<>>
  /\ job = NoJob
  /\ summary = [attempted |-> 0, exported |-> 0, failed |-> 0, skipped |-> 0]
  /\ dropped = {}
  /\ discovered = <<>>
  /\ writtenPaths = [p \in Paths |-> Nobody]
  /\ disk \in {[p \in Paths |-> Absent], [p \in Paths |-> Before]}

-----------------------------------------------------------------------------
(* Cap and hydration.                                                      *)

\* Headers that are complete need no hydration; a pending one for which no
\* provider is bound is left out with a warning.
Hydratable == {c \in Candidates \ ready : HydratedBy[c] # Unbound}

Cap ==
  /\ pc = "cap"
  /\ summary' = [summary EXCEPT !.skipped = Len(headers) - Len(Capped)]
  /\ hydrated' = Filter(Capped, ready)
  /\ waiting' = Filter(Capped, Hydratable)
  /\ dropped' = Range(Capped) \ (ready \cup Hydratable)
  /\ pc' = "hydrate"
  /\ UNCHANGED <<input, queue, job, discovered, writtenPaths, disk>>

\* The candidates of one provider.
OfProvider(p) == {c \in Candidates : HydratedBy[c] = p}

\* What hydrateCandidates returns for a group of headers.
Batch(group) == FlattenSeq([i \in DOMAIN group |-> Becomes[group[i]]])

\* Mutant of Hydrate: takes the first candidate of each header.
HydrateFirst(p) ==
  /\ pc = "hydrate"
  /\ \E c \in Range(waiting) : HydratedBy[c] = p
  /\ waiting' = Filter(waiting, Candidates \ OfProvider(p))
  /\ LET group == Filter(waiting, OfProvider(p)) IN
       hydrated' = hydrated \o [i \in DOMAIN group |-> Head(Becomes[group[i]])]
  /\ UNCHANGED <<input, dropped, pc, queue, job, summary, discovered,
                 writtenPaths, disk>>

\* The group of one provider, in a race with its deadline.  The groups are
\* taken in the order of a string key, here any order.  A group that fails or
\* is late is gone: options.fatal is false.
Hydrate(p) ==
  /\ pc = "hydrate"
  /\ \E c \in Range(waiting) : HydratedBy[c] = p
  /\ waiting' = Filter(waiting, Candidates \ OfProvider(p))
  /\ LET group == Filter(waiting, OfProvider(p)) IN
       \/ hydrated' = hydrated \o Batch(group) /\ UNCHANGED dropped
       \/ /\ "hydrate" \in Faults
          /\ dropped' = dropped \cup Range(group)
          /\ UNCHANGED hydrated
  /\ UNCHANGED <<input, pc, queue, job, summary, discovered, writtenPaths,
                 disk>>

HydrateDone ==
  /\ pc = "hydrate"
  /\ waiting = <<>>
  /\ queue' = hydrated
  /\ pc' = "next"
  /\ UNCHANGED <<input, hydration, job, summary, discovered, writtenPaths,
                 disk>>

-----------------------------------------------------------------------------
(* The loop over the hydrated candidates.                                  *)

Exportable(c) == c \in supported /\ ExportedBy[c] # Unbound

\* Mutant of Fail: the export stays open.
FailKeepsJob ==
  /\ summary' = [summary EXCEPT !.failed = @ + 1]
  /\ pc' = "next"
  /\ UNCHANGED <<job, discovered, writtenPaths>>

\* The catch block of the loop, or the branch for an incomplete source set.
Fail ==
  /\ summary' = [summary EXCEPT !.failed = @ + 1]
  /\ job' = NoJob
  /\ pc' = "next"
  /\ UNCHANGED <<discovered, writtenPaths>>

Skip ==
  /\ pc = "next"
  /\ queue # <<>>
  /\ ~ Exportable(Head(queue))
  /\ queue' = Tail(queue)
  /\ summary' = [summary EXCEPT !.skipped = @ + 1]
  /\ UNCHANGED <<input, hydration, pc, job, discovered, writtenPaths, disk>>

\* provider.exportSpec returns a document.
Export ==
  /\ pc = "next"
  /\ queue # <<>>
  /\ Exportable(Head(queue))
  /\ queue' = Tail(queue)
  /\ summary' = [summary EXCEPT !.attempted = @ + 1]
  /\ \E folder \in FoldersOf[Head(queue)], result \in Exports :
       job' = [candidate |-> Head(queue), folder |-> folder, result |-> result]
  /\ pc' = "write"
  /\ UNCHANGED <<input, hydration, discovered, writtenPaths, disk>>

ExportThrows ==
  /\ pc = "next"
  /\ "export" \in Faults
  /\ queue # <<>>
  /\ Exportable(Head(queue))
  /\ queue' = Tail(queue)
  /\ summary' = [summary EXCEPT !.attempted = @ + 1, !.failed = @ + 1]
  /\ UNCHANGED <<input, hydration, pc, job, discovered, writtenPaths, disk>>

Target == <<job.folder, job.result.root>>

\* Mutant of Collides: remembers the last export only.
CollidesWithAnnounced == discovered # <<>> /\ Last(discovered).spec = Target

\* A candidate with another id has been registered for the same path.
Collides == writtenPaths[Target] \notin {Nobody, IdOf[job.candidate]}

\* Mutant of Refuse: moves on without counting the candidate as failed.
RefuseUncounted ==
  /\ pc = "write"
  /\ Collides \/ job.result.incomplete
  /\ job' = NoJob
  /\ pc' = "next"
  /\ UNCHANGED <<input, hydration, queue, summary, discovered, writtenPaths,
                 disk>>

\* A collision, or a native source set with unresolved dependencies.
Refuse ==
  /\ pc = "write"
  /\ Collides \/ job.result.incomplete
  /\ Fail
  /\ UNCHANGED <<input, hydration, queue, disk>>

\* The service folder as the staged swap leaves it: the members, and the
\* derived sidecar that was there.
Swapped ==
  [p \in Paths |->
     IF p[1] # job.folder \/ p[2] = Derived THEN disk[p]
     ELSE IF p[2] \in job.result.companions \cup {job.result.root}
     THEN job.candidate
     ELSE Absent]

\* One file is written in place, several with the staged swap.
Write ==
  /\ pc = "write"
  /\ ~ (Collides \/ job.result.incomplete)
  /\ disk' = IF dryRun THEN disk
             ELSE IF job.result.companions = {}
             THEN [disk EXCEPT ![Target] = job.candidate]
             ELSE Swapped
  /\ pc' = "derive"
  /\ UNCHANGED <<input, hydration, queue, job, summary, discovered,
                 writtenPaths>>

\* The file may have been truncated before its write failed; a failed swap
\* leaves the prior folder or, without one to return to, the new one.
WriteThrows ==
  /\ pc = "write"
  /\ "write" \in Faults
  /\ ~ (Collides \/ job.result.incomplete)
  /\ ~ dryRun
  /\ disk' \in IF job.result.companions = {}
               THEN {disk, [disk EXCEPT ![Target] = Torn]}
               ELSE {disk, Swapped}
  /\ Fail
  /\ UNCHANGED <<input, hydration, queue>>

\* Where the announced derived document is: nowhere, in the export itself or
\* in the sidecar of the folder.
DerivedPath ==
  CASE job.result.derivation = "none" -> <<>>
    [] job.result.derivation = "self" -> Target
    [] job.result.derivation = "sidecar" -> <<job.folder, Derived>>

\* The derived sidecar is written, and the export is registered.
Announce ==
  /\ pc = "derive"
  /\ disk' = IF job.result.derivation = "sidecar" /\ ~ dryRun
             THEN [disk EXCEPT ![DerivedPath] = job.candidate]
             ELSE disk
  /\ writtenPaths' = [writtenPaths EXCEPT ![Target] = IdOf[job.candidate]]
  /\ discovered' = Append(discovered,
       [candidate |-> job.candidate, spec |-> Target, derived |-> DerivedPath])
  /\ summary' = [summary EXCEPT !.exported = @ + 1]
  /\ job' = NoJob
  /\ pc' = "next"
  /\ UNCHANGED <<input, hydration, queue>>

\* Mutant of DeriveThrows: swallows the error and announces the export.
DeriveThrowsAnnounces ==
  /\ pc = "derive"
  /\ "derive" \in Faults
  /\ job.result.derivation = "sidecar"
  /\ ~ dryRun
  /\ disk' = [disk EXCEPT ![DerivedPath] = Torn]
  /\ writtenPaths' = [writtenPaths EXCEPT ![Target] = IdOf[job.candidate]]
  /\ discovered' = Append(discovered,
       [candidate |-> job.candidate, spec |-> Target, derived |-> DerivedPath])
  /\ summary' = [summary EXCEPT !.exported = @ + 1]
  /\ job' = NoJob
  /\ pc' = "next"
  /\ UNCHANGED <<input, hydration, queue>>

\* The derived document cannot be written: the export is in place but counts
\* as failed, and its path is not registered.
DeriveThrows ==
  /\ pc = "derive"
  /\ "derive" \in Faults
  /\ job.result.derivation = "sidecar"
  /\ ~ dryRun
  /\ disk' \in {disk, [disk EXCEPT ![DerivedPath] = Torn]}
  /\ Fail
  /\ UNCHANGED <<input, hydration, queue>>

Finish ==
  /\ pc = "next"
  /\ queue = <<>>
  /\ pc' = "done"
  /\ UNCHANGED <<input, hydration, queue, job, summary, discovered,
                 writtenPaths, disk>>

Next ==
  \/ Cap
  \/ \E p \in Providers : Hydrate(p)
  \/ HydrateDone
  \/ Skip \/ Export \/ ExportThrows \/ Refuse
  \/ Write \/ WriteThrows \/ Announce \/ DeriveThrows
  \/ Finish

Spec == Init /\ [][Next]_vars

\* resolution-status, as buildExecutionOutputs reports it.
Status == IF summary.failed > 0 THEN "unresolved" ELSE "resolved"

-----------------------------------------------------------------------------
Contents == Candidates \cup {Before, Torn, Absent}

TypeOK ==
  /\ setup \in Setups
  /\ headers \in Seq(Listed)
  /\ ready \subseteq {h \in Range(headers) : Becomes[h] = <<h>>}
  /\ supported \subseteq Results(Range(headers))
  /\ dryRun \in BOOLEAN
  /\ pc \in {"cap", "hydrate", "next", "write", "derive", "done"}
  /\ waiting \in Seq(Listed)
  /\ hydrated \in Seq(Candidates)
  /\ queue \in Seq(Candidates)
  /\ job \in {NoJob} \cup
       [candidate : Candidates, folder : Folders, result : Exports]
  /\ job = NoJob <=> pc \notin {"write", "derive"}
  /\ summary \in [attempted : Nat, exported : Nat, failed : Nat, skipped : Nat]
  /\ dropped \subseteq Listed
  /\ discovered \in Seq([candidate : Candidates, spec : Paths,
                         derived : Paths \cup {<<>>}])
  /\ writtenPaths \in [Paths -> Candidates \cup {Nobody}]
  /\ disk \in [Paths -> Contents]

InProgress == IF pc \in {"write", "derive"} THEN 1 ELSE 0

\* The summary adds up at every point of the loop: what was attempted was
\* exported, has failed or is in progress, and each export is announced.
SummaryAddsUp ==
  /\ summary.exported = Len(discovered)
  /\ summary.attempted = summary.exported + summary.failed + InProgress

\* No candidate is counted twice or forgotten: each one that hydration returned
\* has been attempted or skipped or is still to come, and each header beyond the
\* cap counts as skipped.
EveryCandidateCounted ==
  pc \notin {"cap", "hydrate"} =>
    summary.attempted + summary.skipped + Len(queue) =
      Len(headers) - Len(Capped) + Len(hydrated)

\* Both: the account of the run is right at every point.
AccountIsRight == SummaryAddsUp /\ EveryCandidateCounted

\* "writing would silently overwrite the earlier export while summary.exported
\* still counted both": what is announced under spec-path is, when the run is
\* over and at any time before, the document of the announced candidate.
\* The check compares ids: it takes candidates with ids of their own.
SpecsHold ==
  ~ dryRun =>
    \A d \in Range(discovered) : disk[d.spec] = d.candidate

FoldersApart ==
  \A c, d \in Candidates : c # d => FoldersOf[c] \cap FoldersOf[d] = {}

\* The same for the derived documents, which all bear one name: this takes
\* candidates with folders of their own.
DerivedHold ==
  ~ dryRun /\ FoldersApart =>
    \A d \in Range(discovered) :
      d.derived # <<>> => disk[d.derived] = d.candidate

\* "discover-many exports every exportable candidate": a run that reports
\* "resolved" has announced every exportable candidate that hydration can make of
\* the headers within the cap, except of those it has dropped, which only a
\* warning tells: whatever else is dropped, all the others are complete.
ResolvedMeansComplete ==
  pc = "done" /\ Status = "resolved" =>
    \A c \in Results(Range(Capped) \ dropped) :
      Exportable(c) => \E d \in Range(discovered) : d.candidate = c
=============================================================================
