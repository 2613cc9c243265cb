------------------------------ MODULE ApimExport ------------------------------
(***************************************************************************)
(* ApimSdkClient.exportApi: ask the service for a download link and fetch  *)
(* it; a link whose signature is refused is not tried again, a new one is  *)
(* minted.  The link of the nth attempt is the nth that was minted.        *)
(***************************************************************************)
EXTENDS SpecFetch

CONSTANT MaxAttempts

VARIABLES
  step,      \* "mint", "fetch", "done"
  attempt,
  minted,    \* history: links the service has made
  tried,     \* history: for each fetch, the number of the link and how it ended
  outcome    \* "pending", "ok", "forbidden", "threw"

exportVars == <<step, attempt, minted, tried, outcome, fetchVars>>

Init ==
  /\ NoFetch
  /\ step = "mint"
  /\ attempt = 1
  /\ minted = 0
  /\ tried = <<>>
  /\ outcome = "pending"

Finish(how) == step' = "done" /\ outcome' = how

\* Mutant of Mint: a retry goes back to the link it has.
MintOnce ==
  /\ step = "mint"
  /\ minted' = 1
  /\ step' = "fetch"
  /\ \E u \in Urls : StartFetch(u)
  /\ UNCHANGED <<attempt, tried, outcome>>

\* The service makes a link, good or not; the fetch starts at once.
Mint ==
  /\ step = "mint"
  /\ minted' = minted + 1
  /\ step' = "fetch"
  /\ \E u \in Urls : StartFetch(u)
  /\ UNCHANGED <<attempt, tried, outcome>>

\* The call fails, or its answer holds no link in any of the known places.
MintFails ==
  /\ step = "mint"
  /\ Finish("threw")
  /\ UNCHANGED <<attempt, minted, tried, fetchVars>>

Fetches ==
  /\ step = "fetch"
  /\ FetchStep
  /\ UNCHANGED <<step, attempt, minted, tried, outcome>>

\* Only a 403 is worth another link.
Fetched ==
  /\ step = "fetch"
  /\ fetch \in Ended
  /\ tried' = Append(tried, <<minted, fetch>>)
  /\ IF fetch = "ok" THEN Finish("ok") /\ UNCHANGED attempt
     ELSE IF fetch = "failed" THEN Finish("threw") /\ UNCHANGED attempt
     ELSE IF attempt = MaxAttempts THEN Finish("forbidden") /\ UNCHANGED attempt
     ELSE step' = "mint" /\ attempt' = attempt + 1 /\ UNCHANGED outcome
  /\ UNCHANGED <<minted, fetchVars>>

Next == Mint \/ MintFails \/ Fetches \/ Fetched

Spec == Init /\ [][Next]_exportVars

-----------------------------------------------------------------------------
TypeOK ==
  /\ FetchTyped
  /\ step \in {"mint", "fetch", "done"}
  /\ attempt \in 1 .. MaxAttempts
  /\ minted \in 0 .. MaxAttempts
  /\ outcome \in {"pending", "ok", "forbidden", "threw"}
  /\ outcome # "pending" <=> step = "done"

\* No link is fetched twice, and another one is asked for only because the one
\* before was refused.
LinksAreFresh ==
  /\ \A i \in DOMAIN tried :
       tried[i][1] = i /\ (i < Len(tried) => tried[i][2] = "403")
  /\ outcome = "forbidden" => Len(tried) = MaxAttempts /\ tried[MaxAttempts][2] = "403"

\* An export that returns is the whole document behind the newest link.
ExportIsTrue ==
  /\ FetchedIsWhole
  /\ LinksAreFresh
  /\ outcome = "ok" => fetch = "ok" /\ tried[Len(tried)] = <<minted, "ok">>
=============================================================================
