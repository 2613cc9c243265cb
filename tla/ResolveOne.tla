------------------------------ MODULE ResolveOne ------------------------------
(***************************************************************************)
(* runResolveOne of src/runtime.ts: the specification of one repository is *)
(* looked for in the repository, then in its templates, then in Azure.     *)
(* Azure is asked for cheap headers first; the headers are ranked, only    *)
(* the ones that can still win are hydrated with their detail, the ranking *)
(* is repeated, and one candidate is exported or none.                     *)
(*                                                                         *)
(* What the repository and Azure hold, and which calls fail, is chosen by  *)
(* the environment.  The order of candidates with equal confidence, by     *)
(* resource id in the code, is a choice here.  Every header is taken to    *)
(* have its provider bound, as enumeration only lists what it is bound to. *)
(***************************************************************************)
EXTENDS Naturals, FiniteSets

CONSTANTS
  Ids,         \* resource ids of headers
  Parts,       \* names of the documents a template spec may embed
  None,        \* no value
  Scores,      \* scores scoreCandidate gives
  Minimum,     \* MINIMUM_RESOLVED_CONFIDENCE
  Exact,       \* the confidence given to an exact selection
  Expandable,  \* ids of template spec versions
  Requests     \* the selectors a run may be given

\* A header before hydration or a candidate after it.
Candidate == [id : Ids, part : Parts \cup {None}, score : Scores,
              supported : BOOLEAN, pending : BOOLEAN]

ASSUME ConstantsAssumption ==
  /\ None \notin Ids \cup Parts \cup Candidate
  /\ Scores \subseteq Nat
  /\ Minimum \in Nat \ {0}
  /\ Exact \in Nat
  /\ Minimum <= Exact
  /\ Expandable \subseteq Ids
  /\ Requests \subseteq {"none", "full", "revision", "short", "center", "conflict"}

VARIABLES
  pc,         \* the stage of the run
  repo,       \* what the checked-out repository holds
  request,    \* which selector was given
  named,      \* ids the requested api-id matches
  versioned,  \* ids of the requested version and revision
  cands,      \* the candidates ranked: headers, and what hydration made of them
  todo,       \* candidates selected and not yet hydrated
  exact,      \* the id narrowing selected outright, or None
  winner,     \* the candidate decided for, or None
  target,     \* the candidate handed to exportSpec, or None
  how,        \* the path that led to the export
  outcome,    \* "pending", "resolved", "review", "incomplete", "failed"
  cloud       \* history: Azure has been called

vars == <<pc, repo, request, named, versioned, cands, todo, exact, winner,
          target, how, outcome, cloud>>

\* What a native file of the repository turns out to be.
Documents == {"unreadable", "partial", "companions", "closed"}

\* Exactly one, or several, of a kind; what a single local file is matters
\* only when there is one.
Repository ==
  {r \in [config : {"ok", "bad"}, bound : Documents \cup {"none"},
          locals : 0..2, local : Documents, iac : 0..2] :
     r.locals # 1 => r.local = "closed"}

Init ==
  /\ pc = "repository"
  /\ repo \in Repository
  /\ request \in Requests
  /\ named = {} /\ versioned = {}
  /\ cands = {} /\ todo = {}
  /\ exact = None /\ winner = None /\ target = None
  /\ how = "none"
  /\ outcome = "pending"
  /\ cloud = FALSE

Finish(with) == pc' = "done" /\ outcome' = with

Goto(stage) == pc' = stage /\ UNCHANGED outcome

Scope == <<repo, request, named, versioned>>

Choice == <<cands, todo, exact, winner, target>>

-----------------------------------------------------------------------------
(* The repository.                                                           *)

\* A malformed binding, or one in conflict with the inputs, ends the run.
ReadBinding ==
  /\ pc = "repository"
  /\ IF repo.config = "bad" THEN Finish("failed") ELSE Goto("bound")
  /\ UNCHANGED <<Scope, Choice, how, cloud>>

\* A readable native file resolves, is exported with its companions, or is
\* left to review when the closure of its references is incomplete.
Settle(document, path) ==
  \/ /\ document = "closed"
     /\ Finish("resolved") /\ how' = path
  \/ /\ document = "companions"
     /\ Goto("export") /\ how' = path
  \/ /\ document = "partial"
     /\ Finish("review") /\ UNCHANGED how

\* The nativeSpecPath of a committed binding or of a unique manifest.
BoundSpec ==
  /\ pc = "bound"
  /\ \/ repo.bound = "none" /\ Goto("local") /\ UNCHANGED how
     \/ repo.bound = "unreadable" /\ Finish("failed") /\ UNCHANGED how
     \/ repo.bound # "none" /\ Settle(repo.bound, "bound")
  /\ UNCHANGED <<Scope, Choice, cloud>>

\* Mutant of LocalSpec: several native files are passed over.
LocalSpecPassesOver ==
  /\ pc = "local"
  /\ \/ repo.locals # 1 /\ Goto("iac") /\ UNCHANGED how
     \/ /\ repo.locals = 1
        /\ \/ repo.local = "unreadable" /\ Finish("review") /\ UNCHANGED how
           \/ Settle(repo.local, "local")
  /\ UNCHANGED <<Scope, Choice, cloud>>

\* One native file settles the run, several are ambiguous.
LocalSpec ==
  /\ pc = "local"
  /\ \/ repo.locals = 0 /\ Goto("iac") /\ UNCHANGED how
     \/ repo.locals > 1 /\ Finish("review") /\ UNCHANGED how
     \/ /\ repo.locals = 1
        /\ \/ repo.local = "unreadable" /\ Finish("review") /\ UNCHANGED how
           \/ Settle(repo.local, "local")
  /\ UNCHANGED <<Scope, Choice, cloud>>

\* The same for documents embedded in templates.
IacSpec ==
  /\ pc = "iac"
  /\ \/ repo.iac = 0 /\ Goto("cloud") /\ UNCHANGED how
     \/ repo.iac = 1 /\ Goto("export") /\ how' = "iac"
     \/ repo.iac > 1 /\ Finish("review") /\ UNCHANGED how
  /\ UNCHANGED <<Scope, Choice, cloud>>

-----------------------------------------------------------------------------
(* Azure.                                                                    *)

\* Selectors for both sources are refused before the subscriptions are asked
\* for; these may fail the run, Resource Graph and the probes may not.
EnterCloud ==
  /\ pc = "cloud"
  /\ IF request = "conflict"
     THEN Finish("failed") /\ UNCHANGED cloud
     ELSE /\ cloud' = TRUE
          /\ \/ Finish("failed")
             \/ Goto(IF request = "center" THEN "center" ELSE "headers")
  /\ UNCHANGED <<Scope, Choice, how>>

\* The requested definition cannot be found, or is exported as it is.
CenterDefinition ==
  /\ pc = "center"
  /\ \/ Finish("review") /\ UNCHANGED how
     \/ Goto("export") /\ how' = "center"
  /\ UNCHANGED <<Scope, Choice, cloud>>

\* What a listing says of a resource: nothing is known to be unsupported
\* before its detail has been read.
Details == {d \in [score : Scores, supported : BOOLEAN, pending : BOOLEAN] :
              d.pending => d.supported}

\* The header of each listed resource.
Listing(f) ==
  {[id |-> i, part |-> None, score |-> f[i].score,
    supported |-> f[i].supported, pending |-> f[i].pending] : i \in DOMAIN f}

\* Headers of all providers, one for each id; template specs always come
\* without detail.  A full id matches one resource, a short name any number.
CollectHeaders ==
  /\ pc = "headers"
  /\ \E f \in UNION {[L -> Details] : L \in SUBSET Ids} :
       /\ \A i \in DOMAIN f \cap Expandable : f[i].pending
       /\ cands' = Listing(f)
  /\ IF request = "none"
     THEN named' = {} /\ versioned' = Ids /\ Goto("narrow")
     ELSE /\ named' \in SUBSET Ids
          /\ request \in {"full", "revision"} => \E id \in Ids : named' = {id}
          /\ versioned' \in SUBSET Ids
          /\ Goto("byId")
  /\ UNCHANGED <<repo, request, todo, exact, winner, target, how, cloud>>

\* What hydrating a header may return: the same resource with its support
\* known; for a template spec the documents it embeds, or none it supports.
Hydrations(h) ==
  LET read == [h EXCEPT !.pending = FALSE]
  IN  IF h.id \in Expandable
      THEN {{[read EXCEPT !.supported = FALSE]}} \cup
           {{[read EXCEPT !.part = p, !.score = f[p]] : p \in DOMAIN f} :
              f \in UNION {[P -> Scores] : P \in (SUBSET Parts) \ {{}}}}
      ELSE {{[read EXCEPT !.supported = s]} : s \in BOOLEAN}

-----------------------------------------------------------------------------
(* An explicit api-id.                                                       *)

Matches == {c \in cands : c.id \in named}

\* The header that matches; a past revision is not listed and read by itself.
FindRequested ==
  /\ pc = "byId"
  /\ \/ /\ Matches = {} \/ Cardinality(Matches) > 1
        /\ Finish("review")
        /\ UNCHANGED <<target, how, todo>>
     \/ \E c \in Matches :
          /\ Matches = {c}
          /\ target' = c /\ how' = "api"
          /\ IF c.pending THEN todo' = {c} /\ Goto("hydrateId")
                          ELSE Goto("checkId") /\ UNCHANGED todo
     \/ /\ request = "revision" /\ Matches = {}
        /\ \/ Finish("failed") /\ UNCHANGED <<target, how>>
           \/ /\ target' \in {c \in Candidate : /\ c.id \in named
                                                /\ c.part = None
                                                /\ ~ c.pending}
              /\ how' = "api"
              /\ Goto("checkId")
        /\ UNCHANGED todo
  /\ UNCHANGED <<Scope, cands, exact, winner, cloud>>

\* The requested resource is hydrated; its documents are other resources.
HydrateRequested ==
  /\ pc = "hydrateId"
  /\ todo' = {}
  /\ \/ Finish("failed") /\ UNCHANGED target
     \/ \E H \in Hydrations(target) :
          \/ target' \in {c \in H : c.part = None} /\ Goto("checkId")
          \/ (\A c \in H : c.part # None) /\ Finish("review") /\ UNCHANGED target
  /\ UNCHANGED <<Scope, cands, exact, winner, how, cloud>>

CheckRequested ==
  /\ pc = "checkId"
  /\ IF target.supported /\ target.id \in versioned
     THEN Goto("export") ELSE Finish("review")
  /\ UNCHANGED <<Scope, Choice, how, cloud>>

-----------------------------------------------------------------------------
(* Narrowing, ranking, hydration and the decision.                           *)

\* The candidate narrowing selected outright.
Chosen(c) == c.id = exact /\ c.part = None

Confidence(c) == IF Chosen(c) THEN Exact ELSE c.score

\* Those that may come first in the ranking: it is by score, then by id.
Top(C) == {c \in C : \A d \in C : d.score <= c.score}

\* Mutant of Unambiguous: a tie is broken by the id.
UnambiguousTie(C, c) == TRUE

\* resolveServiceCandidate: no other candidate, supported or not, has the
\* same score; a selection is never ambiguous.
Unambiguous(C, c) ==
  Chosen(c) \/ c.score = 0 \/ \A d \in C \ {c} : d.score # c.score

Decisive(C, c) ==
  /\ Unambiguous(C, c)
  /\ c.supported
  /\ Confidence(c) >= Minimum

\* Mutant of Best: the selection is forgotten.
BestByRank(C, first) == first

\* The selection if it is still among the candidates, else the first.
Best(C, first) ==
  IF \E c \in C : Chosen(c) THEN CHOOSE c \in C : Chosen(c) ELSE first

\* Supported candidates with the confidence of the given one.
Tied(C, first) == {c \in C : c.supported /\ Confidence(c) = Confidence(first)}

\* runNarrowingPipeline orders the headers and may select one of them.
Narrow ==
  /\ pc = "narrow"
  /\ exact' \in {None} \cup {c.id : c \in cands}
  /\ Goto("rank")
  /\ UNCHANGED <<Scope, cands, todo, winner, target, how, cloud>>

\* To be hydrated: the decisive candidate, else a tie at the top.
Selected(C, first) ==
  IF Decisive(C, Best(C, first)) THEN {Best(C, first)}
  ELSE IF Cardinality(Tied(C, first)) > 1 THEN Tied(C, first) ELSE {}

Rank ==
  /\ pc = "rank"
  /\ \/ /\ cands = {} /\ Finish("review") /\ UNCHANGED <<todo, how>>
     \/ \E first \in Top(cands) :
          LET S == Selected(cands, first)
          IN  /\ how' = "ranked"
              /\ todo' = {c \in S : c.pending}
              /\ IF S = {} THEN Finish("review") ELSE Goto("hydrate")
  /\ UNCHANGED <<Scope, cands, exact, winner, target, cloud>>

\* One of the selected headers is replaced by what hydration returns.
Hydrate ==
  /\ pc = "hydrate"
  /\ \E h \in todo, H \in UNION {Hydrations(g) : g \in todo} :
       /\ H \in Hydrations(h)
       /\ cands' = (cands \ {h}) \cup H
       /\ todo' = todo \ {h}
  /\ UNCHANGED <<Scope, pc, exact, winner, target, how, outcome, cloud>>

\* Mutant of HydrateFails: the error is kept and the stage goes on.
HydrateFailsSoft ==
  /\ pc = "hydrate"
  /\ todo # {}
  /\ todo' = {} /\ outcome' = "failed"
  /\ UNCHANGED <<Scope, pc, cands, exact, winner, target, how, cloud>>

\* An error or the deadline of a provider ends the run.
HydrateFails ==
  /\ pc = "hydrate"
  /\ todo # {}
  /\ Finish("failed")
  /\ UNCHANGED <<Scope, Choice, how, cloud>>

\* Confidence at the top of the second ranking, sorted with the selection in it.
Leading(C) == {c \in C : \A d \in C : Confidence(d) <= Confidence(c)}

\* Mutant of Decide: as long as there is a tie the ranking is repeated.
DecideRepeats ==
  /\ pc = "hydrate"
  /\ todo = {}
  /\ \E first \in Top(cands) :
       LET best == Best(cands, first)
       IN  IF Decisive(cands, best)
           THEN winner' = best /\ target' = best /\ Goto("ready")
           ELSE Goto("rank") /\ UNCHANGED <<winner, target>>
  /\ UNCHANGED <<Scope, cands, todo, exact, how, cloud>>

\* The second ranking decides: a candidate that is decisive and shares the
\* top with no other supported one, or none.
Decide ==
  /\ pc = "hydrate"
  /\ todo = {}
  /\ \E first \in Top(cands) :
       LET best == Best(cands, first)
       IN  IF Decisive(cands, best)
              /\ \A top \in Leading(cands) : Cardinality(Tied(cands, top)) <= 1
           THEN winner' = best /\ target' = best /\ Goto("ready")
           ELSE Finish("review") /\ UNCHANGED <<winner, target>>
  /\ UNCHANGED <<Scope, cands, todo, exact, how, cloud>>

\* Mutant of Ready: a winner whose detail cannot be read goes to review.
ReadyReviews ==
  /\ pc = "ready"
  /\ IF winner.pending
     THEN \/ Finish("review") /\ UNCHANGED target
          \/ /\ \E documents \in Hydrations(winner) : target' \in documents
             /\ Goto("export")
     ELSE Goto("export") /\ UNCHANGED target
  /\ UNCHANGED <<Scope, cands, todo, exact, winner, how, cloud>>

\* A winner that was not among the selected is hydrated now; of what comes
\* back the first is exported.
Ready ==
  /\ pc = "ready"
  /\ IF winner.pending
     THEN \/ Finish("failed") /\ UNCHANGED target
          \/ /\ \E documents \in Hydrations(winner) : target' \in documents
             /\ Goto("export")
     ELSE Goto("export") /\ UNCHANGED target
  /\ UNCHANGED <<Scope, cands, todo, exact, winner, how, cloud>>

-----------------------------------------------------------------------------
(* The export.                                                               *)

\* exportSpec and writeSpecExport: an error fails the run, a source set with
\* members missing is left unresolved.  What is not supported is not exported.
Export ==
  /\ pc = "export"
  /\ \E result \in {"resolved", "incomplete", "failed"} :
       /\ target # None /\ ~ target.supported => result = "failed"
       /\ Finish(result)
  /\ UNCHANGED <<Scope, Choice, how, cloud>>

Next ==
  \/ ReadBinding \/ BoundSpec \/ LocalSpec \/ IacSpec
  \/ EnterCloud \/ CenterDefinition \/ CollectHeaders
  \/ FindRequested \/ HydrateRequested \/ CheckRequested
  \/ Narrow \/ Rank \/ Hydrate \/ HydrateFails \/ Decide \/ Ready
  \/ Export

Spec == Init /\ [][Next]_vars

\* Every call of a stage ends: probes, enumeration and hydration have
\* deadlines, requests have time limits.
FairSpec == Spec /\ WF_vars(Next)

-----------------------------------------------------------------------------
TypeOK ==
  /\ pc \in {"repository", "bound", "local", "iac", "cloud", "center",
             "headers", "byId", "hydrateId", "checkId", "narrow", "rank",
             "hydrate", "ready", "export", "done"}
  /\ repo \in Repository
  /\ request \in Requests
  /\ named \in SUBSET Ids
  /\ versioned \in SUBSET Ids
  /\ cands \in SUBSET Candidate
  /\ todo \in SUBSET Candidate
  /\ exact \in Ids \cup {None}
  /\ winner \in Candidate \cup {None}
  /\ target \in Candidate \cup {None}
  /\ how \in {"none", "bound", "local", "iac", "center", "api", "ranked"}
  /\ outcome \in {"pending", "resolved", "review", "incomplete", "failed"}
  /\ outcome = "pending" <=> pc # "done"
  /\ pc \in {"hydrateId", "checkId"} => target # None
  /\ pc = "ready" => winner # None
  /\ cloud \in BOOLEAN

Resolved(path) == outcome = "resolved" /\ how = path

\* Azure is not called while the repository can answer or is ambiguous, nor
\* with selectors in conflict (README: "resolves without calling Azure").
RepositoryFirst ==
  cloud => /\ repo.config = "ok" /\ repo.bound = "none"
           /\ repo.locals = 0 /\ repo.iac = 0
           /\ request # "conflict"

\* A ranked resolution never guesses: after every hydration the winner is
\* supported, confident enough, and the exact selection or ahead of every
\* other candidate, whether that one could be exported or not.
UniqueWinner ==
  Resolved("ranked") =>
    /\ winner \in cands
    /\ winner.supported
    /\ Confidence(winner) >= Minimum
    /\ Chosen(winner) \/ \A c \in cands \ {winner} : c.score < winner.score

\* Whatever path led to it, a candidate of Azure is exported with its detail
\* read and found supported.
NeverBlind ==
  Resolved("ranked") \/ Resolved("api") => target.supported /\ ~ target.pending

\* A requested api-id resolves to the one resource it matches, in the version
\* and revision asked for, and to no document embedded in it.
RequestedApiExported ==
  Resolved("api") =>
    /\ target.id \in named \cap versioned
    /\ target.part = None
    /\ \A c \in cands : c.id \in named => c.id = target.id

\* What Azure is asked for is never a guess, by whatever path a run resolves:
\* the winner is unique, its detail read, a request honoured.
ChoiceIsJustified == RequestedApiExported /\ UniqueWinner /\ NeverBlind

\* Selected by a repository tag or by gateway and path, a resource is the only
\* one the run may resolve to, unless it is a template spec, whose documents
\* have other ids.
ExactSelectionKept ==
  Resolved("ranked") /\ exact \notin Expandable \cup {None} => target.id = exact

\* The same without the exception (README: "selects outright").
EverySelectionKept == Resolved("ranked") /\ exact # None => target.id = exact

\* A decision for a candidate ends in its export or in an error; it is not
\* turned into a review, which callers take for nothing to do.
DecidedIsNotSkipped == [][winner # None => outcome' # "review"]_vars

\* Every run returns a result or throws.
Settles == <>(pc = "done")
=============================================================================
