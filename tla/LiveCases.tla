------------------------------ MODULE LiveCases ------------------------------
(***************************************************************************)
(* runDefaultCases of validation/scripts/validate-live-azure-surfaces.mjs: *)
(* the cases of the live matrix run in a pool of workers against one stack *)
(* of resources and each leave a row of evidence.  The commands of a case  *)
(* are synchronous: workers take turns only where one awaits a temporary   *)
(* directory or the files it puts there.                                   *)
(***************************************************************************)
EXTENDS Integers, Sequences, FiniteSets, Functions, Filters

CONSTANTS
  Workers,       \* the workers of the pool, caseConcurrency of them
  CaseFilter,    \* AZURE_LIVE_CASE_FILTER
  Absent,        \* capabilities that may turn out to be missing
  Seeding,       \* cases that put files into their workspace first
  Faults,        \* which calls may fail: "temp", "clear", "seed", "restore"
  None

\* A case: the capability it needs, what it takes for a pass, and what it does
\* with an answer that is not the native one.
Case(id, gate, wants, fallback) ==
  [id |-> id, gate |-> gate, wants |-> wants, fallback |-> fallback]
Resolves(id, gate) == Case(id, gate, "resolved", "fail")
Stays(id, gate) == Case(id, gate, "unresolved", "fail")
Reviews(id, gate) == Case(id, gate, "review", "fail")
NativeOnly(id, gate) == Case(id, gate, "resolved", "requires-capability")

Baseline ==
  << Resolves("apim-explicit-api-id", None), Resolves("apim-discovery", None),
     Resolves("app-service-api-definition", None),
     Case("discover-many", None, "discovered", "fail"),
     Resolves("iac-single", None), Stays("ambiguity", None) >>

CleanRepo ==
  << Resolves("apim-clean-repo-tag", "apim-multi"),
     Resolves("apim-clean-repo-github-org-repo-pair", "apim-multi"),
     Resolves("apim-gateway-host-path", "apim-multi"),
     Stays("apim-host-only-ambiguity", "apim-multi"),
     Stays("apim-version-revision-ambiguity", "apim-multi") >>

Versions ==
  << Resolves("apim-explicit-historical-revision", "apim-multi"),
     Resolves("apim-version-set", "apim-multi") >>

Formats ==
  << Resolves("apim-soap-wsdl", "apim-soap"),
     Resolves("apim-graphql-sdl", "apim-graphql"),
     Reviews("apim-unsupported-websocket", "apim-websocket"),
     Reviews("apim-unsupported-grpc", "apim-grpc"),
     Reviews("apim-unsupported-odata", "apim-odata") >>

Center ==
  << Resolves("api-center-openapi-export", "api-center"),
     Resolves("api-center-native-non-openapi", "api-center"),
     Resolves("api-center-exact-binding", "api-center"),
     Stays("api-center-ambiguity", "api-center") >>

Integration ==
  << NativeOnly("logic-apps-list-swagger", "logic-app"),
     Resolves("logic-apps-reader-synthesis", "logic-app"),
     Resolves("custom-apis-inline-swagger", "custom-connector"),
     Resolves("template-specs-embedded-apim", "template-spec") >>

Events ==
  << Resolves("event-grid-webhook-partial", "event-grid"),
     Resolves("service-bus-topic-partial", "service-bus-standard") >>

Runtime ==
  << NativeOnly("function-bindings-openapi-extension", "function-app"),
     NativeOnly("app-service-apispecpath-runtime", "app-service") >>

Local == << Case("local-r3-format-parser-matrix", None, "local-only", "fail") >>

Catalog ==
  Baseline \o CleanRepo \o Versions \o Formats \o Center \o Integration \o Events
    \o Runtime \o Local

\* The requested cases in the order of the catalog.
Requested(ids) ==
  Filter(Catalog, {c \in Range(Catalog) : ids = {} \/ c.id \in ids})

\* What the compiled CLI answers: resolved from the source the catalog names,
\* by the native route or a fallback, or from another source; unresolved with
\* several ranked candidates or without; or an error.
Answers == {"native", "fallback", "elsewhere", "ranked", "bare", "error"}
Resolved(a) == a \in {"native", "fallback", "elsewhere"}

VARIABLES
  selected,  \* the cases of this run
  missing,   \* capabilities that provisioning did not obtain
  next,      \* the index the next free worker takes
  at,        \* the case each worker is at, 0 if it has none
  step,      \* the await it is at
  row,       \* the row of evidence a worker is about to return
  results,
  public,    \* whether the site names its definition (apiDefinition.url)
  called,    \* for each case: whether the site did when it was called
  lost,      \* whether seeding the site has failed after it was cleared
  verdict    \* "open", "returned" or "rejected"

input == <<selected, missing>>
vars == <<input, next, at, step, row, results, public, called, lost, verdict>>

Size == Len(selected)

Blank == [id |-> None, status |-> None, answer |-> None]

Init ==
  /\ selected = Requested(CaseFilter)
  /\ missing \in SUBSET Absent
  /\ next = 1
  /\ at = [w \in Workers |-> 0] /\ step = [w \in Workers |-> "off"]
  /\ row = [w \in Workers |-> Blank]
  /\ results = [i \in 1..Size |-> Blank]
  /\ public = TRUE
  /\ called = [i \in 1..Size |-> TRUE]
  /\ lost = FALSE
  /\ verdict = "open"

Row(c, status, answer) == [id |-> c.id, status |-> status, answer |-> answer]

\* A runner of mapPool takes the next case, or is done.
Take(w) ==
  /\ step[w] = "off"
  /\ IF next <= Size
     THEN /\ at' = [at EXCEPT ![w] = next] /\ next' = next + 1
          /\ step' = [step EXCEPT ![w] = "temp"]
     ELSE step' = [step EXCEPT ![w] = "end"] /\ UNCHANGED <<at, next>>
  /\ UNCHANGED <<input, row, results, public, called, lost, verdict>>

Gated(c) == c.gate \in missing

\* mkdtemp and the gate of the case; a case without its capability goes on to
\* the end.  The functions case needs a seed no run of the harness makes.
Workspace(w) ==
  /\ step[w] = "temp"
  /\ LET c == selected[at[w]]
         blocked == Gated(c) \/ c.id = "function-bindings-openapi-extension"
     IN  /\ step' = [step EXCEPT ![w] = IF blocked THEN "remove"
                       ELSE IF c.id \in Seeding THEN "seed" ELSE "call"]
         /\ row' = [row EXCEPT ![w] =
                      IF blocked THEN Row(c, "requires-capability", None) ELSE Blank]
  /\ UNCHANGED <<input, next, at, results, public, called, lost, verdict>>

\* mkdtemp is outside the try: the pool rejects, the other workers go on.
WorkspaceThrows(w) ==
  /\ "temp" \in Faults /\ step[w] = "temp"
  /\ step' = [step EXCEPT ![w] = "end"]
  /\ verdict' = "rejected"
  /\ UNCHANGED <<input, next, at, row, results, public, called, lost>>

Seed(w) ==
  /\ step[w] = "seed"
  /\ step' = [step EXCEPT ![w] = "call"]
  /\ UNCHANGED <<input, next, at, row, results, public, called, lost, verdict>>

\* expectResolved, expectUnresolved and the checks a case makes itself, with
\* assertExpectedResult.
Expected(c, a) ==
  CASE c.wants \in {"resolved", "discovered"} -> a \in {"native", "fallback"}
    [] c.wants = "unresolved" -> a = "ranked"
    [] c.wants = "review" -> a \in {"ranked", "bare"}
    [] c.wants = "local-only" -> a \in {"native", "fallback", "ranked"}

\* Mutant of Judged: a fallback is as good as the native route.
JudgedByStatus(c, a) ==
  IF c.fallback # "fail" /\ ~ Resolved(a) /\ a # "error" THEN c.fallback
  ELSE IF ~ Expected(c, a) THEN "fail"
  ELSE IF c.wants = "local-only" THEN "local-only" ELSE "pass"

\* The status of the row.  A case that is there for a native route takes a
\* fallback for a missing capability, never for a pass.
Judged(c, a) ==
  IF c.fallback # "fail" /\ ~ Resolved(a) /\ a # "error" THEN c.fallback
  ELSE IF ~ Expected(c, a) THEN "fail"
  ELSE IF c.fallback # "fail" /\ a # "native" THEN c.fallback
  ELSE IF c.wants = "local-only" THEN "local-only" ELSE "pass"

Called(w, c, a) ==
  /\ row' = [row EXCEPT ![w] = Row(c, Judged(c, a), a)]
  /\ step' = [step EXCEPT ![w] = "remove"]

\* A case calls the CLI, which sees the site as it is.
Call(w) ==
  /\ step[w] = "call"
  /\ LET c == selected[at[w]]
     IN  /\ c.id # "app-service-apispecpath-runtime"
         /\ \E a \in Answers : Called(w, c, a)
  /\ called' = [called EXCEPT ![at[w]] = public]
  /\ UNCHANGED <<input, next, at, results, public, lost, verdict>>

\* Mutant of CallCleared: the site is cleared and restored around an await.
CallClearedAwaits(w) ==
  /\ step[w] \in {"call", "cleared"}
  /\ selected[at[w]].id = "app-service-apispecpath-runtime"
  /\ IF step[w] = "call"
     THEN /\ public' = FALSE /\ step' = [step EXCEPT ![w] = "cleared"]
          /\ UNCHANGED row
     ELSE /\ public' = TRUE
          /\ \E a \in Answers : Called(w, selected[at[w]], a)
  /\ UNCHANGED <<input, next, at, results, called, lost, verdict>>

\* The case that must not pass on the URL: it clears apiDefinition.url, names a
\* path on the site instead, calls the CLI and restores the URL in its finally
\* block; all of it without an await.
CallCleared(w) ==
  /\ step[w] = "call"
  /\ LET c == selected[at[w]]
     IN  /\ c.id = "app-service-apispecpath-runtime"
         /\ \/ (\E a \in Answers : Called(w, c, a)) /\ public' = TRUE
            \/ /\ "restore" \in Faults
               /\ (\E a \in Answers : Called(w, c, a)) /\ public' = FALSE
  /\ UNCHANGED <<input, next, at, results, called, lost, verdict>>

\* One of the two patches fails: the case returns before that try block.
CallSeedFails(w) ==
  /\ step[w] = "call"
  /\ LET c == selected[at[w]]
     IN  /\ c.id = "app-service-apispecpath-runtime"
         /\ row' = [row EXCEPT ![w] = Row(c, "requires-capability", None)]
  /\ \/ "clear" \in Faults /\ UNCHANGED <<public, lost>>
     \/ "seed" \in Faults /\ public' = FALSE /\ lost' = TRUE
  /\ step' = [step EXCEPT ![w] = "remove"]
  /\ UNCHANGED <<input, next, at, results, called, verdict>>

\* Mutant of Remove: rows are appended as the cases settle.
RemoveInOrder(w) ==
  /\ step[w] = "remove"
  /\ \E i \in 1..Size :
       /\ results[i] = Blank /\ \A j \in 1..(i - 1) : results[j] # Blank
       /\ results' = [results EXCEPT ![i] = row[w]]
  /\ step' = [step EXCEPT ![w] = "off"]
  /\ UNCHANGED <<input, next, at, row, public, called, lost, verdict>>

\* The workspace is removed and the row put at the index of its case.
Remove(w) ==
  /\ step[w] = "remove"
  /\ results' = [results EXCEPT ![at[w]] = row[w]]
  /\ step' = [step EXCEPT ![w] = "off"]
  /\ UNCHANGED <<input, next, at, row, public, called, lost, verdict>>

Return ==
  /\ verdict = "open" /\ \A w \in Workers : step[w] = "end"
  /\ verdict' = "returned"
  /\ UNCHANGED <<input, next, at, step, row, results, public, called, lost>>

Next ==
  \/ Return
  \/ \E w \in Workers :
       \/ Take(w) \/ Workspace(w) \/ WorkspaceThrows(w) \/ Seed(w)
       \/ Call(w) \/ CallCleared(w) \/ CallSeedFails(w) \/ Remove(w)

Spec == Init /\ [][Next]_vars
-----------------------------------------------------------------------------
TypeOK ==
  /\ missing \subseteq Absent /\ next \in 1..(Size + 1)
  /\ \A w \in Workers :
       /\ at[w] \in 0..Size
       /\ step[w] \in {"off", "temp", "seed", "call", "cleared", "remove", "end"}
       /\ step[w] \in {"temp", "seed", "call", "remove"} => at[w] > 0
  /\ DOMAIN results = 1..Size
  /\ public \in BOOLEAN /\ called \in [1..Size -> BOOLEAN] /\ lost \in BOOLEAN
  /\ verdict \in {"open", "returned", "rejected"}

\* The evidence of a matrix that returns has one row for each selected case, in
\* the order of the catalog, in whatever order the workers finished.
ResultsInOrder ==
  verdict = "returned" => \A i \in 1..Size : results[i].id = selected[i].id

\* "never claim unrun passes", "Never accept Reader synthesis as proof": a pass
\* stands for a call that met what the catalog says of the case, with its
\* capability there and by the native route where the case is about that.
PassIsProof ==
  \A i, j \in 1..Size :
    LET c == selected[j]
        r == results[i]
    IN  r.id = c.id /\ r.status = "pass" =>
          /\ c.gate \notin missing
          /\ Expected(c, r.answer)
          /\ c.id \in {"logic-apps-list-swagger", "app-service-apispecpath-runtime"}
               => r.answer = "native"

\* Both: the evidence a matrix returns is complete, in order and true.
EvidenceIsTrue == ResultsInOrder /\ PassIsProof

\* No other case meets the site while the ApiSpecPath case has it changed,
\* as long as that case could seed and restore it.
OthersSeeDefinition ==
  ~ lost /\ "restore" \notin Faults => \A i \in 1..Size : called[i]
=============================================================================
