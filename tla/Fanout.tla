-------------------------------- MODULE Fanout --------------------------------
(***************************************************************************)
(* probeProviders and collectCandidateHeaders of src/runtime.ts, over the  *)
(* providers buildBoundProviders makes: every provider is probed at once,  *)
(* those available list their headers, a few at a time; each call races a  *)
(* deadline, and an answer after it goes unheard.                          *)
(*                                                                         *)
(* A header is a pair of the index of its provider and its number there.   *)
(***************************************************************************)
EXTENDS Integers, Sequences, FiniteSets, SequencesExt, Filters

CONSTANTS
  Subscriptions,   \* selected subscriptions, a sequence
  Kinds,           \* provider types made per subscription, a sequence
  Width,           \* HEADER_ENUMERATION_CONCURRENCY
  MaxHeaders       \* a bound on what one provider lists

VARIABLES
  step,       \* "probe", "list", "done"
  probes,     \* index of a provider -> its probe
  next,       \* index of the next available provider to list
  working,    \* positions in Available a worker is busy with
  answered,   \* history: position -> headers listed within the deadline
  results,    \* position -> headers, in the slots of the pool
  late,       \* calls past their deadline and still under way
  enumerated, \* headers counted per provider type
  headers     \* the collected headers

fanoutVars == <<step, probes, next, working, answered, results, late,
                enumerated, headers>>

-----------------------------------------------------------------------------
\* buildBoundProviders: the cloud providers of each subscription in turn, then
\* the two local ones.
Providers ==
  FlattenSeq([s \in DOMAIN Subscriptions |->
                [k \in DOMAIN Kinds |-> [type |-> Kinds[k], scope |-> Subscriptions[s]]]])
  \o << [type |-> "runtime-declared", scope |-> "local"],
        [type |-> "iac-local", scope |-> "local"] >>

All == DOMAIN Providers
Types == { Providers[i].type : i \in All }

\* The providers that list headers, in the order of Providers.
Available ==
  Filter([i \in All |-> i], { i \in All : probes[i] = "available" })

Unanswered == -1

Init ==
  /\ step = "probe"
  /\ probes = [i \in All |-> "pending"]
  /\ next = 1
  /\ working = {}
  /\ answered = [i \in All |-> 0]
  /\ results = [i \in All |-> Unanswered]
  /\ late = {}
  /\ enumerated = [t \in Types |-> 0]
  /\ headers = <<>>

-----------------------------------------------------------------------------
(* Probes.                                                                 *)

Probe(i, status) ==
  /\ step = "probe"
  /\ probes[i] = "pending"
  /\ probes' = [probes EXCEPT ![i] = status]
  /\ UNCHANGED <<step, next, working, answered, results, enumerated, headers>>

ProbeAnswers(i) ==
  /\ \E status \in {"available", "skipped:iam", "skipped:error"} : Probe(i, status)
  /\ UNCHANGED late

\* The deadline, or a rejection when the call is not under way any more.
ProbeExpires(i) ==
  /\ Probe(i, "skipped:error")
  /\ late' = late \cup {<<"probe", i>>}

Probed ==
  /\ step = "probe"
  /\ \A i \in All : probes[i] # "pending"
  /\ step' = "list"
  /\ UNCHANGED <<probes, next, working, answered, results, late, enumerated, headers>>

-----------------------------------------------------------------------------
(* Headers.                                                                *)

TypeAt(i) == Providers[Available[i]].type

StartList ==
  /\ step = "list"
  /\ next <= Len(Available)
  /\ Cardinality(working) < Width
  /\ working' = working \cup {next}
  /\ next' = next + 1
  /\ UNCHANGED <<step, probes, answered, results, late, enumerated, headers>>

\* The headers come in time.
ListAnswers(i, n) ==
  /\ i \in working
  /\ working' = working \ {i}
  /\ results' = [results EXCEPT ![i] = n]
  /\ answered' = [answered EXCEPT ![i] = n]
  /\ enumerated' = [enumerated EXCEPT ![TypeAt(i)] = @ + n]
  /\ UNCHANGED <<step, probes, next, late, headers>>

\* A failure, or the deadline: nothing, and the other providers go on.
ListFails(i) ==
  /\ i \in working
  /\ working' = working \ {i}
  /\ results' = [results EXCEPT ![i] = 0]
  /\ UNCHANGED <<step, probes, next, answered, late, enumerated, headers>>

ListExpires(i) ==
  /\ i \in working
  /\ working' = working \ {i}
  /\ results' = [results EXCEPT ![i] = 0]
  /\ late' = late \cup {<<"list", i>>}
  /\ UNCHANGED <<step, probes, next, answered, enumerated, headers>>

\* Mutant of LateAnswer: the count is taken inside the provider's own call.
LateAnswerCounts(call, n) ==
  /\ call \in late
  /\ late' = late \ {call}
  /\ enumerated' =
       IF call[1] = "list" THEN [enumerated EXCEPT ![TypeAt(call[2])] = @ + n] ELSE enumerated
  /\ UNCHANGED <<step, probes, next, working, answered, results, headers>>

\* What comes after the deadline is dropped, also in the middle of later calls.
LateAnswer(call, n) ==
  /\ call \in late
  /\ late' = late \ {call}
  /\ UNCHANGED <<step, probes, next, working, answered, results, enumerated, headers>>

\* The header lists in the order of the slots.
InSlots ==
  FlattenSeq([i \in DOMAIN Available |-> [k \in 1 .. results[i] |-> <<Available[i], k>>]])

Collect ==
  /\ step = "list"
  /\ next > Len(Available)
  /\ working = {}
  /\ headers' = InSlots
  /\ step' = "done"
  /\ UNCHANGED <<probes, next, working, answered, results, late, enumerated>>

Work ==
  \/ \E i \in All : ProbeAnswers(i) \/ ProbeExpires(i)
  \/ Probed \/ StartList \/ Collect
  \/ \E i \in All : ListFails(i) \/ ListExpires(i)
  \/ \E i \in All, n \in 0 .. MaxHeaders : ListAnswers(i, n)

Next == Work \/ \E call \in late, n \in 0 .. MaxHeaders : LateAnswer(call, n)

Spec == Init /\ [][Next]_fanoutVars

-----------------------------------------------------------------------------
TypeOK ==
  /\ step \in {"probe", "list", "done"}
  /\ \A i \in All : probes[i] \in {"pending", "available", "skipped:iam", "skipped:error"}
  /\ next \in 1 .. Len(Providers) + 1
  /\ working \subseteq 1 .. next - 1
  /\ Cardinality(working) <= Width
  /\ late \subseteq {"probe", "list"} \X All
  /\ \A t \in Types : enumerated[t] \in Nat

\* However the calls settle, the headers stand in the order of the providers,
\* each provider's as it listed them in time and nothing of one that failed or
\* came late; and the counts per type add up to them.
HeadersAreInOrder ==
  step = "done" =>
    /\ \A a, b \in DOMAIN headers :
         a < b => \/ headers[a][1] < headers[b][1]
                  \/ headers[a][1] = headers[b][1] /\ headers[a][2] < headers[b][2]
    /\ { headers[a] : a \in DOMAIN headers } =
         UNION { { <<Available[i], k>> : k \in 1 .. answered[i] } : i \in DOMAIN Available }
    /\ \A t \in Types :
         enumerated[t] = Cardinality({ a \in DOMAIN headers : Providers[headers[a][1]].type = t })
=============================================================================
