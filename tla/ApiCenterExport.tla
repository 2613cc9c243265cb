---------------------------- MODULE ApiCenterExport ----------------------------
(***************************************************************************)
(* ApiCenterSdkClient.exportSpecification: a POST that answers at once or   *)
(* starts an operation, the polls of the operation, and the fetch of the   *)
(* document when the result is a link.  Each request is armRequest with its *)
(* own retries; the caller may abort at any time.                          *)
(*                                                                         *)
(* The service finishes the operation when it likes, and calls it finished  *)
(* only then; a document may lie in the body of any answer.                *)
(***************************************************************************)
EXTENDS SpecFetch

CONSTANTS MaxAttempts, MaxPolls, MaxWall

VARIABLES
  step,      \* "post", "check", "sleep", "poll", "fetch", "done"
  wire,      \* the request: "ready", "out", "delay" before a retry
  attempt,
  polls,     \* the poll that is under way
  clock,     \* time since the operation started
  operation, \* "none", "running", "succeeded", "failed"
  aborted,
  requests,  \* history: requests sent
  atAbort,   \* history: requests sent before the abort
  early,     \* history: the document is of an operation that had not succeeded
  outcome    \* "pending", "inline", "link", "threw"

wireVars == <<wire, attempt, requests>>
history == <<atAbort, early>>
centerVars == <<step, wireVars, polls, clock, operation, aborted, atAbort, early,
                outcome, fetchVars>>

Init ==
  /\ NoFetch
  /\ step = "post"
  /\ wire = "ready"
  /\ attempt = 1
  /\ polls = 0
  /\ clock = 0
  /\ operation = "none"
  /\ aborted = FALSE
  /\ requests = 0
  /\ atAbort = 0
  /\ early = FALSE
  /\ outcome = "pending"

-----------------------------------------------------------------------------
(* The environment.                                                        *)

Abort ==
  /\ step # "done" /\ ~ aborted
  /\ aborted' = TRUE
  /\ atAbort' = requests
  /\ UNCHANGED <<step, wireVars, polls, clock, operation, early, outcome, fetchVars>>

Progress ==
  /\ operation = "running"
  /\ operation' \in {"succeeded", "failed"}
  /\ UNCHANGED <<step, wireVars, polls, clock, aborted, history, outcome, fetchVars>>

Tick ==
  /\ step \in {"check", "sleep", "poll"}
  /\ clock <= MaxWall
  /\ clock' = clock + 1
  /\ UNCHANGED <<step, wireVars, polls, operation, aborted, history, outcome, fetchVars>>

-----------------------------------------------------------------------------
(* armRequest.                                                             *)

Asking == step \in {"post", "poll"}
Settled == wire' = "ready" /\ attempt' = 1 /\ UNCHANGED requests

Throw == step' = "done" /\ outcome' = "threw"
ThrowNow ==
  Throw /\ UNCHANGED <<wireVars, polls, clock, operation, aborted, history, fetchVars>>

\* Mutant of Send: the signal is only looked at by the poll loop.
SendUnasked ==
  /\ Asking /\ wire = "ready"
  /\ wire' = "out"
  /\ requests' = requests + 1
  /\ UNCHANGED <<step, attempt, polls, clock, operation, aborted, history, outcome, fetchVars>>

Send ==
  /\ Asking /\ wire = "ready"
  /\ IF aborted THEN ThrowNow
     ELSE /\ wire' = "out"
          /\ requests' = requests + 1
          /\ UNCHANGED <<step, attempt, polls, clock, operation, aborted, history, outcome, fetchVars>>

Retry ==
  /\ attempt < MaxAttempts
  /\ wire' = "delay"
  /\ attempt' = attempt + 1
  /\ UNCHANGED <<step, requests, polls, clock, operation, aborted, history, outcome, fetchVars>>

Wake ==
  /\ wire = "delay"
  /\ wire' = "ready"
  /\ UNCHANGED <<step, attempt, requests, polls, clock, operation, aborted, history, outcome, fetchVars>>

Out == Asking /\ wire = "out"

\* The fetch rejects; a POST whose answer was lost is sent again, although it
\* may have started an operation of its own.
Rejects == Out /\ IF aborted \/ attempt = MaxAttempts THEN ThrowNow ELSE Retry

\* A status that no retry can mend.
Permanent == Out /\ ThrowNow

\* The next turn of the poll loop, or the end of its turns.
NextPoll ==
  /\ Settled
  /\ IF polls = MaxPolls
     THEN Throw /\ UNCHANGED polls
     ELSE step' = "check" /\ polls' = polls + 1 /\ UNCHANGED outcome
  /\ UNCHANGED <<clock, operation, aborted, history, fetchVars>>

\* A transient status is retried; the last one ends a POST and is one more
\* turn to a poll.
Transient ==
  /\ Out
  /\ \/ Retry
     \/ attempt = MaxAttempts /\ step = "post" /\ ThrowNow
     \/ attempt = MaxAttempts /\ step = "poll" /\ NextPoll

-----------------------------------------------------------------------------
(* The operation.                                                          *)

\* materializeExportResult: the content or the link in the body, or neither.
Materialize(given) ==
  /\ Settled
  /\ \/ given /\ step' = "done" /\ outcome' = "inline" /\ UNCHANGED fetchVars
     \/ ~ given /\ Throw /\ UNCHANGED fetchVars
     \/ /\ given
        /\ \E u \in Urls : StartFetch(u)
        /\ step' = "fetch" /\ UNCHANGED outcome
  /\ UNCHANGED <<polls, clock, aborted, atAbort>>

Immediate ==
  /\ Out /\ step = "post"
  /\ operation' = "succeeded"
  /\ \E given \in BOOLEAN : Materialize(given)
  /\ UNCHANGED early

\* 202, with a link to poll on the management host, or an error.
Started ==
  /\ Out /\ step = "post"
  /\ \/ /\ Settled
        /\ operation' = "running"
        /\ polls' = 1
        /\ step' = "check"
        /\ UNCHANGED <<clock, aborted, history, outcome, fetchVars>>
     \/ ThrowNow

Check ==
  /\ step = "check"
  /\ IF aborted \/ clock > MaxWall THEN ThrowNow
     ELSE step' = "sleep"
          /\ UNCHANGED <<wireVars, polls, clock, operation, aborted, history, outcome, fetchVars>>

Slept ==
  /\ step = "sleep"
  /\ step' = "poll"
  /\ UNCHANGED <<wireVars, polls, clock, operation, aborted, history, outcome, fetchVars>>

\* 202 again, with a link that may be refused.
StillRunning == Out /\ step = "poll" /\ (NextPoll \/ ThrowNow)

\* What a 200 answer says of the operation, if anything, and where it has the
\* document: where it is looked for, in the wrapped result only, or nowhere.
Replies ==
  [status : {"none", "running", "succeeded", "failed"},
   document : {"found", "wrapped", "none"}]
Honest(reply) == reply.status \in {"succeeded", "failed"} => reply.status = operation

\* Mutant of Concludes: any final status gives the result.
ConcludesAnyhow(reply) ==
  /\ reply.status \in {"succeeded", "failed", "none"}
  /\ Materialize(reply.status # "none" /\ reply.document = "wrapped")
  /\ UNCHANGED <<operation, early>>

\* A body without a document: a final status, or none at all, ends the polls.
Concludes(reply) ==
  \/ /\ reply.status \in {"succeeded", "none"}
     /\ Materialize(reply.status = "succeeded" /\ reply.document = "wrapped")
     /\ UNCHANGED <<operation, early>>
  \/ reply.status = "failed" /\ ThrowNow

\* A document is taken before the status is looked at.
Polled ==
  /\ Out /\ step = "poll"
  /\ \E reply \in Replies :
       /\ Honest(reply)
       /\ \/ /\ reply.document = "found"
             /\ Materialize(TRUE)
             /\ early' = (operation # "succeeded")
             /\ UNCHANGED operation
          \/ reply.document # "found" /\ Concludes(reply)
          \/ reply.document # "found" /\ reply.status = "running" /\ NextPoll

\* The abort signal is not handed to the fetch of the link.
Fetches ==
  /\ step = "fetch"
  /\ FetchStep
  /\ UNCHANGED <<step, wireVars, polls, clock, operation, aborted, history, outcome>>

Fetched ==
  /\ step = "fetch"
  /\ fetch \in Ended
  /\ step' = "done"
  /\ outcome' = IF fetch = "ok" THEN "link" ELSE "threw"
  /\ UNCHANGED <<wireVars, polls, clock, operation, aborted, history, fetchVars>>

Next ==
  \/ Abort \/ Progress \/ Tick
  \/ Send \/ Wake \/ Rejects \/ Permanent \/ Transient
  \/ Immediate \/ Started \/ Check \/ Slept
  \/ StillRunning \/ Polled
  \/ Fetches \/ Fetched

Spec == Init /\ [][Next]_centerVars

-----------------------------------------------------------------------------
TypeOK ==
  /\ FetchTyped
  /\ step \in {"post", "check", "sleep", "poll", "fetch", "done"}
  /\ wire \in {"ready", "out", "delay"}
  /\ attempt \in 1 .. MaxAttempts
  /\ polls \in 0 .. MaxPolls
  /\ clock \in 0 .. MaxWall + 1
  /\ operation \in {"none", "running", "succeeded", "failed"}
  /\ aborted \in BOOLEAN /\ early \in BOOLEAN
  /\ outcome \in {"pending", "inline", "link", "threw"}
  /\ outcome # "pending" <=> step = "done"

\* Unless its document lay open in an answer given too early, an export is of an
\* operation that has succeeded; what was fetched is whole.
OnlyOfFinished ==
  /\ outcome \in {"inline", "link"} => operation = "succeeded" \/ early
  /\ outcome = "link" => fetch = "ok"
  /\ FetchedIsWhole

\* After the abort the service is not asked again, in the middle of retries and
\* polls too, and without one only so often.
ServiceIsSpared ==
  /\ aborted => requests = atAbort
  /\ requests <= MaxAttempts * (1 + MaxPolls)

CenterExportIsTrue == OnlyOfFinished /\ ServiceIsSpared
=============================================================================
