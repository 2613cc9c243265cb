------------------------------- MODULE ArmPages -------------------------------
(***************************************************************************)
(* listArmPages, takeNextLink and armRequest of src/lib/azure/arm-rest.ts: *)
(* every Azure list is read page by page from the management endpoint,     *)
(* each request with a bounded number of attempts, under a caller's abort  *)
(* signal.  The server decides what each response is and which link it     *)
(* announces next.                                                         *)
(*                                                                         *)
(* A link stands for the page behind it, so the entries collected are the  *)
(* sequence of the links read.                                             *)
(***************************************************************************)
EXTENDS Integers, Sequences, FiniteSets, Functions

CONSTANTS
  Links,        \* links the server may announce, and the first one
  First,        \* the link the caller starts from
  Safe,         \* links on the management host that assertSafeArmNextLink passes
  None,         \* no link
  MaxPages,     \* MAX_ARM_LIST_PAGES
  MaxAttempts   \* options.maxAttempts

ASSUME ConstantsAssumption ==
  /\ IsFiniteSet(Links)
  /\ Safe \subseteq Links
  /\ First \in Safe
  /\ None \notin Links
  /\ MaxPages \in Nat \ {0}
  /\ MaxAttempts \in Nat \ {0}

VARIABLES
  pc,        \* "page": top of the loop, "attempt", "fetch", "sleep", "done"
  url,       \* the link to read, None when the last page has been read
  seen,      \* links takeNextLink has moved on from
  pages,     \* pages begun
  attempt,   \* attempts of the current request
  entries,   \* the pages collected
  aborted,   \* the caller's signal
  outcome,   \* "pending", "ok", or what was thrown
  requests,  \* history: requests sent
  more       \* history: the last page read announced a next link

vars == <<pc, url, seen, pages, attempt, entries, aborted, outcome, requests,
          more>>

Init ==
  /\ pc = "page"
  /\ url = First
  /\ seen = {}
  /\ pages = 0
  /\ attempt = 0
  /\ entries = <<>>
  /\ aborted = FALSE
  /\ outcome = "pending"
  /\ requests = 0
  /\ more = TRUE

-----------------------------------------------------------------------------
Finish(how) == pc' = "done" /\ outcome' = how

Continue(step) == pc' = step /\ UNCHANGED outcome

\* The caller's deadline fires.
Abort ==
  /\ pc # "done"
  /\ ~ aborted
  /\ aborted' = TRUE
  /\ UNCHANGED <<pc, url, seen, pages, attempt, entries, outcome, requests, more>>

\* Mutant of NextPage: at the ceiling the pages read so far are returned.
NextPageTruncates ==
  /\ pc = "page"
  /\ url # None
  /\ pages' = pages + 1
  /\ IF pages' > MaxPages THEN Finish("ok") ELSE Continue("attempt")
  /\ attempt' = 1
  /\ UNCHANGED <<url, seen, entries, aborted, requests, more>>

\* Mutant of NextPage: no ceiling.
NextPageUnbounded ==
  /\ pc = "page"
  /\ url # None
  /\ pages' = pages + 1
  /\ Continue("attempt")
  /\ attempt' = 1
  /\ UNCHANGED <<url, seen, entries, aborted, requests, more>>

\* while (url): one more page, up to the ceiling.
NextPage ==
  /\ pc = "page"
  /\ url # None
  /\ pages' = pages + 1
  /\ IF pages' > MaxPages THEN Finish("ceiling") ELSE Continue("attempt")
  /\ attempt' = 1
  /\ UNCHANGED <<url, seen, entries, aborted, requests, more>>

Return ==
  /\ pc = "page"
  /\ url = None
  /\ Finish("ok")
  /\ UNCHANGED <<url, seen, pages, attempt, entries, aborted, requests, more>>

\* Mutant of Send: the signal is not looked at before a request.
SendAnyway ==
  /\ pc = "attempt"
  /\ requests' = requests + 1
  /\ Continue("fetch")
  /\ UNCHANGED <<url, seen, pages, attempt, entries, aborted, more>>

\* throwIfAborted, then fetch.
Send ==
  /\ pc = "attempt"
  /\ IF aborted
     THEN Finish("aborted") /\ UNCHANGED requests
     ELSE Continue("fetch") /\ requests' = requests + 1
  /\ UNCHANGED <<url, seen, pages, attempt, entries, aborted, more>>

\* What takeNextLink makes of the link a page announces.
TakeNextLink(next) ==
  IF next = None
  THEN url' = None /\ Continue("page") /\ UNCHANGED seen
  ELSE IF next = url \/ next \in seen
  THEN Finish("repeated") /\ UNCHANGED <<url, seen>>
  ELSE IF next \notin Safe
  THEN Finish("unsafe") /\ UNCHANGED <<url, seen>>
  ELSE url' = next /\ seen' = seen \cup {url} /\ Continue("page")

\* response.ok, and its body is a page with its next link.
Page(next) ==
  /\ pc = "fetch"
  /\ entries' = Append(entries, url)
  /\ more' = (next # None)
  /\ TakeNextLink(next)
  /\ UNCHANGED <<pages, attempt, aborted, requests>>

\* A status that is not retried, or a body that is not JSON: the list throws.
Permanent ==
  /\ pc = "fetch"
  /\ Finish("http")
  /\ UNCHANGED <<url, seen, pages, attempt, entries, aborted, requests, more>>

\* Mutant of Transient: retries without a limit.
TransientForever ==
  /\ pc = "fetch"
  /\ Continue("sleep")
  /\ UNCHANGED <<url, seen, pages, attempt, entries, aborted, requests, more>>

\* A transient status: wait and try again, or give the response up.
Transient ==
  /\ pc = "fetch"
  /\ IF attempt = MaxAttempts THEN Finish("http") ELSE Continue("sleep")
  /\ UNCHANGED <<url, seen, pages, attempt, entries, aborted, requests, more>>

\* fetch rejects: network failure, the request's own timeout, or the abort.
Rejected ==
  /\ pc = "fetch"
  /\ IF aborted THEN Finish("aborted")
     ELSE IF attempt = MaxAttempts THEN Finish("attempts")
     ELSE Continue("sleep")
  /\ UNCHANGED <<url, seen, pages, attempt, entries, aborted, requests, more>>

\* Mutant of Wake: the abort cuts the delay short and nothing goes on.
WakeUnlessAborted ==
  /\ pc = "sleep"
  /\ ~ aborted
  /\ attempt' = attempt + 1
  /\ Continue("attempt")
  /\ UNCHANGED <<url, seen, pages, entries, aborted, requests, more>>

\* The delay is over; the abort signal does not cut it short.
Wake ==
  /\ pc = "sleep"
  /\ attempt' = attempt + 1
  /\ Continue("attempt")
  /\ UNCHANGED <<url, seen, pages, entries, aborted, requests, more>>

Work ==
  \/ NextPage \/ Return \/ Send \/ Wake
  \/ \E next \in Links \cup {None} : Page(next)
  \/ Permanent \/ Transient \/ Rejected

Next == Work \/ Abort

Spec == Init /\ [][Next]_vars

\* Every fetch settles, at the latest by AbortSignal.timeout, and so does
\* every delay.
FairSpec == Spec /\ WF_vars(Work)

-----------------------------------------------------------------------------
TypeOK ==
  /\ pc \in {"page", "attempt", "fetch", "sleep", "done"}
  /\ url \in Links \cup {None}
  /\ seen \in SUBSET Links
  /\ pages \in 0 .. MaxPages + 1
  /\ attempt \in 0 .. MaxAttempts
  /\ entries \in Seq(Links)
  /\ aborted \in BOOLEAN
  /\ outcome \in {"pending", "ok", "ceiling", "aborted", "repeated", "unsafe",
                  "http", "attempts"}
  /\ outcome = "pending" <=> pc # "done"
  /\ requests \in Nat
  /\ more \in BOOLEAN

\* Whatever links the server announces, no page is collected twice: a repeated
\* link, even one from many pages ago, ends the list with an error.
NoPageTwice == IsInjective(entries)

\* A list that is returned is complete: it never stops short of a page the
\* server announced.  Running into the ceiling throws.
ReturnedIsComplete == outcome = "ok" => ~ more

\* The bearer token is sent to links on the management host only.
OnlySafeLinks == pc = "fetch" => url \in Safe

\* The work of one list is bounded whatever the server does.
BoundedRequests == requests <= MaxPages * MaxAttempts

\* Once the caller has aborted, no request is sent any more.
AbortStopsRequests == [][aborted => requests' = requests]_vars

\* Every list ends, by returning or throwing.
ListEnds == <>(pc = "done")
=============================================================================
