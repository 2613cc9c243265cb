---------------------------- MODULE ArmPagesProofs ----------------------------
(***************************************************************************)
(* The safety properties of ArmPages, for any server, any ceiling and any  *)
(* number of attempts.                                                     *)
(***************************************************************************)
EXTENDS ArmPages, SequenceTheorems, TLAPS

\* What takeNextLink keeps: the links moved on from are the pages collected,
\* each collected once, and the link in hand is a new one.
Frontier ==
  /\ IsInjective(entries)
  /\ pc # "done" /\ url # None => seen = Range(entries) /\ url \notin seen
  /\ url \in Safe \cup {None}
  /\ url = None => pc \in {"page", "done"} /\ ~ more
  /\ outcome = "ok" => ~ more

\* How many requests each point of the loop can have seen.
Quota ==
  /\ pc \in {"page", "attempt", "fetch", "sleep"} => pages <= MaxPages
  /\ pc = "page" => requests <= pages * MaxAttempts
  /\ pc \in {"attempt", "fetch", "sleep"} => pages >= 1 /\ attempt >= 1
  /\ pc = "attempt" => requests <= (pages - 1) * MaxAttempts + attempt - 1
  /\ pc \in {"fetch", "sleep"} =>
       requests <= (pages - 1) * MaxAttempts + attempt
  /\ pc = "sleep" => attempt < MaxAttempts
  /\ requests <= MaxPages * MaxAttempts

IInv == TypeOK /\ Frontier /\ Quota

-----------------------------------------------------------------------------
LEMMA QuotaGrows ==
  ASSUME NEW m \in Nat, NEW n \in Nat, m <= n
  PROVE  m * MaxAttempts <= n * MaxAttempts
<1>1. PICK d \in Nat : n = m + d
  <2>1. n - m \in Nat /\ n = m + (n - m)
    OBVIOUS
  <2> QED
    BY <2>1
<1>2. MaxAttempts \in Nat
  BY ConstantsAssumption
<1>3. n * MaxAttempts = m * MaxAttempts + d * MaxAttempts
  BY <1>1, <1>2
<1>4. d * MaxAttempts \in Nat /\ m * MaxAttempts \in Nat
  BY <1>2
<1> QED
  BY <1>3, <1>4

LEMMA QuotaStep ==
  ASSUME NEW p \in Nat, p >= 1
  PROVE  (p - 1) * MaxAttempts + MaxAttempts = p * MaxAttempts
  BY ConstantsAssumption

LEMMA RangeAppend ==
  ASSUME NEW S, NEW seq \in Seq(S), NEW elt \in S
  PROVE  Range(Append(seq, elt)) = Range(seq) \cup {elt}
<1>1. /\ DOMAIN seq = 1 .. Len(seq)
      /\ Len(seq) \in Nat
      /\ DOMAIN Append(seq, elt) = 1 .. Len(seq) + 1
  BY AppendProperties, LenProperties
<1>2. \A i \in 1 .. Len(seq) : Append(seq, elt)[i] = seq[i]
  BY AppendProperties
<1>3. Append(seq, elt)[Len(seq) + 1] = elt
  BY AppendProperties
<1>4. 1 .. Len(seq) + 1 = (1 .. Len(seq)) \cup {Len(seq) + 1}
  BY <1>1
<1> QED
  BY <1>1, <1>2, <1>3, <1>4 DEF Range

LEMMA InjectiveAppend ==
  ASSUME NEW S, NEW seq \in Seq(S), NEW elt \in S,
         IsInjective(seq), elt \notin Range(seq)
  PROVE  IsInjective(Append(seq, elt))
<1>1. /\ DOMAIN seq = 1 .. Len(seq)
      /\ Len(seq) \in Nat
      /\ DOMAIN Append(seq, elt) = 1 .. Len(seq) + 1
  BY AppendProperties, LenProperties
<1>2. \A i \in 1 .. Len(seq) :
        Append(seq, elt)[i] = seq[i] /\ seq[i] # elt
  BY <1>1, AppendProperties DEF Range
<1>3. Append(seq, elt)[Len(seq) + 1] = elt
  BY AppendProperties
<1>4. 1 .. Len(seq) + 1 = (1 .. Len(seq)) \cup {Len(seq) + 1}
  BY <1>1
<1> QED
  BY <1>1, <1>2, <1>3, <1>4 DEF IsInjective

-----------------------------------------------------------------------------
LEMMA Initially == Init => IInv
<1> SUFFICES ASSUME Init PROVE IInv
  OBVIOUS
<1>1. TypeOK
  <2>1. entries \in Seq(Links)
    BY EmptySeq DEF Init
  <2>2. 0 \in 0 .. MaxPages + 1 /\ 0 \in 0 .. MaxAttempts /\ First \in Links
    BY ConstantsAssumption
  <2> QED
    BY <2>1, <2>2 DEF Init, TypeOK
<1>2. Frontier
  BY ConstantsAssumption DEF Init, Frontier, IsInjective, Range
<1>3. 0 * MaxAttempts = 0 /\ MaxPages * MaxAttempts \in Nat
  BY ConstantsAssumption
<1>4. Quota
  BY <1>3, ConstantsAssumption DEF Init, Quota
<1> QED
  BY <1>1, <1>2, <1>4 DEF IInv

\* The steps that leave the pages collected and the link in hand alone.
LEMMA FrontierKept ==
  ASSUME Frontier, UNCHANGED <<url, seen, entries, more>>,
         pc # "done", url # None, outcome' # "ok"
  PROVE  Frontier'
<1>1. entries' = entries
  OBVIOUS
<1>2. IsInjective(entries') /\ Range(entries') = Range(entries)
  BY <1>1 DEF Frontier
<1>3. seen' = Range(entries') /\ url' \notin seen' /\ url' \in Safe \cup {None}
  BY <1>2 DEF Frontier
<1>4. url' # None
  OBVIOUS
<1> QED
  BY <1>2, <1>3, <1>4 DEF Frontier

LEMMA PageStep ==
  ASSUME IInv, NEW next \in Links \cup {None}, Page(next)
  PROVE  IInv'
<1>1. /\ pc = "fetch" /\ url # None /\ url \in Links
      /\ entries \in Seq(Links)
      /\ UNCHANGED <<pages, attempt, aborted, requests>>
      /\ entries' = Append(entries, url)
      /\ more' = (next # None)
  BY DEF IInv, TypeOK, Frontier, Page
<1>2. \/ next = None /\ url' = None /\ seen' = seen /\ pc' = "page"
           /\ outcome' = outcome
      \/ next # None /\ UNCHANGED <<url, seen>> /\ pc' = "done"
           /\ outcome' \in {"repeated", "unsafe"}
      \/ /\ next # None /\ next # url /\ next \notin seen /\ next \in Safe
         /\ url' = next /\ seen' = seen \cup {url}
         /\ pc' = "page" /\ outcome' = outcome
  BY DEF Page, TakeNextLink, Continue, Finish
<1>3. entries' \in Seq(Links)
  BY <1>1, AppendProperties
<1>4. TypeOK'
  <2>1. seen' \in SUBSET Links /\ url' \in Links \cup {None}
    BY <1>1, <1>2 DEF IInv, TypeOK
  <2> QED
    BY <1>1, <1>2, <1>3, <2>1 DEF IInv, TypeOK
<1>5. Frontier'
  <2>1. seen = Range(entries) /\ url \notin seen /\ IsInjective(entries)
    BY <1>1 DEF IInv, Frontier
  <2>2. IsInjective(entries')
    BY <1>1, <2>1, InjectiveAppend
  <2>3. Range(entries') = Range(entries) \cup {url}
    BY <1>1, RangeAppend
  <2>4. outcome # "ok"
    BY <1>1 DEF IInv, TypeOK
  <2>5. None \notin Safe
    BY ConstantsAssumption
  <2>6. CASE next = None
    BY <1>1, <1>2, <2>2, <2>4, <2>6 DEF Frontier, IInv
  <2>7. CASE next # None /\ UNCHANGED <<url, seen>> /\ pc' = "done"
               /\ outcome' \in {"repeated", "unsafe"}
    BY <1>1, <2>2, <2>7 DEF Frontier, IInv
  <2>8. CASE /\ next # None /\ next # url /\ next \notin seen /\ next \in Safe
             /\ url' = next /\ seen' = seen \cup {url}
             /\ pc' = "page" /\ outcome' = outcome
    <3>1. seen' = Range(entries') /\ url' \notin seen'
      BY <2>1, <2>3, <2>8
    <3> QED
      BY <1>1, <2>2, <2>4, <2>5, <2>8, <3>1 DEF Frontier
  <2> QED
    BY <1>2, <2>6, <2>7, <2>8
<1>6. Quota'
  <2>1. requests <= (pages - 1) * MaxAttempts + attempt
    BY <1>1 DEF IInv, Quota
  <2>2. pages \in Nat /\ pages >= 1 /\ attempt <= MaxAttempts
          /\ attempt \in Nat /\ requests \in Nat
    BY <1>1, ConstantsAssumption DEF IInv, TypeOK, Quota
  <2>3. (pages - 1) * MaxAttempts \in Nat /\ MaxAttempts \in Nat
    BY <2>2, ConstantsAssumption
  <2>4. requests <= pages * MaxAttempts
    BY <2>1, <2>2, <2>3, QuotaStep
  <2> QED
    BY <1>1, <1>2, <2>4 DEF IInv, Quota
<1> QED
  BY <1>4, <1>5, <1>6 DEF IInv

\* A step that only counts or waits: it keeps the frontier, so its numbers
\* are all there is to show.
LEMMA OtherSteps ==
  ASSUME IInv,
         NextPage \/ Send \/ Wake \/ Permanent \/ Transient \/ Rejected
  PROVE  IInv'
<1>1. /\ UNCHANGED <<url, seen, entries, more>>
      /\ pc \in {"page", "attempt", "fetch", "sleep"} /\ pc # "done"
      /\ url # None /\ outcome' # "ok"
  BY DEF IInv, TypeOK, Frontier, NextPage, Send, Wake, Permanent, Transient,
         Rejected, Continue, Finish
<1>2. Frontier'
  BY <1>1, FrontierKept DEF IInv
<1>3. /\ pages \in Nat /\ attempt \in Nat /\ requests \in Nat
      /\ MaxPages \in Nat /\ MaxPages >= 1
      /\ MaxAttempts \in Nat /\ MaxAttempts >= 1
      /\ attempt <= MaxAttempts /\ pages <= MaxPages
      /\ requests <= MaxPages * MaxAttempts
  BY <1>1, ConstantsAssumption DEF IInv, TypeOK, Quota
<1>4. CASE NextPage
  <2>1. /\ pc = "page" /\ pages' = pages + 1 /\ attempt' = 1
        /\ \/ pages' > MaxPages /\ pc' = "done" /\ outcome' = "ceiling"
           \/ pages' <= MaxPages /\ pc' = "attempt" /\ outcome' = outcome
        /\ UNCHANGED <<aborted, requests>>
    BY <1>3, <1>4 DEF NextPage, Finish, Continue
  <2>2. TypeOK'
    BY <1>1, <1>3, <2>1 DEF IInv, TypeOK
  <2>3. requests <= pages * MaxAttempts
    BY <2>1 DEF IInv, Quota
  <2>4. Quota'
    BY <1>3, <2>1, <2>3 DEF Quota
  <2> QED
    BY <1>2, <2>2, <2>4 DEF IInv
<1>5. CASE Send
  <2>1. /\ pc = "attempt" /\ UNCHANGED <<pages, attempt, aborted>>
        /\ \/ pc' = "done" /\ outcome' = "aborted" /\ requests' = requests
           \/ pc' = "fetch" /\ outcome' = outcome /\ requests' = requests + 1
    BY <1>5 DEF Send, Finish, Continue
  <2>2. TypeOK'
    BY <1>1, <1>3, <2>1 DEF IInv, TypeOK
  <2>3. /\ pages >= 1 /\ attempt >= 1
        /\ requests <= (pages - 1) * MaxAttempts + attempt - 1
    BY <2>1 DEF IInv, Quota
  <2>4. /\ (pages - 1) * MaxAttempts \in Nat
        /\ pages * MaxAttempts \in Nat
        /\ MaxPages * MaxAttempts \in Nat
        /\ (pages - 1) * MaxAttempts + MaxAttempts = pages * MaxAttempts
        /\ pages * MaxAttempts <= MaxPages * MaxAttempts
    <3>1. pages - 1 \in Nat
      BY <1>3, <2>3
    <3> QED
      BY <1>3, <2>3, <3>1, QuotaStep, QuotaGrows
  <2>5. /\ requests + 1 <= (pages - 1) * MaxAttempts + attempt
        /\ requests + 1 <= MaxPages * MaxAttempts
    BY <1>3, <2>3, <2>4
  <2>6. Quota'
    BY <1>3, <2>1, <2>3, <2>5 DEF Quota
  <2> QED
    BY <1>2, <2>2, <2>6 DEF IInv
<1>6. CASE Wake
  <2>1. /\ pc = "sleep" /\ pc' = "attempt" /\ attempt' = attempt + 1
        /\ UNCHANGED <<pages, aborted, requests, outcome>>
    BY <1>6 DEF Wake, Continue
  <2>2. /\ pages >= 1 /\ attempt >= 1 /\ attempt < MaxAttempts
        /\ requests <= (pages - 1) * MaxAttempts + attempt
    BY <2>1 DEF IInv, Quota
  <2>3. TypeOK'
    BY <1>1, <1>3, <2>1, <2>2 DEF IInv, TypeOK
  <2>4. (pages - 1) * MaxAttempts \in Int
    BY <1>3
  <2>5. requests <= (pages - 1) * MaxAttempts + (attempt + 1) - 1
    BY <1>3, <2>2, <2>4
  <2>6. Quota'
    BY <1>3, <2>1, <2>2, <2>5 DEF Quota
  <2> QED
    BY <1>2, <2>3, <2>6 DEF IInv
<1>7. CASE Permanent \/ Transient \/ Rejected
  <2>1. /\ pc = "fetch" /\ UNCHANGED <<pages, attempt, aborted, requests>>
        /\ \/ pc' = "done" /\ outcome' \in {"http", "attempts", "aborted"}
           \/ pc' = "sleep" /\ outcome' = outcome /\ attempt # MaxAttempts
    BY <1>7 DEF Permanent, Transient, Rejected, Finish, Continue
  <2>2. TypeOK'
    BY <1>1, <2>1 DEF IInv, TypeOK
  <2>3. /\ pages >= 1 /\ attempt >= 1
        /\ requests <= (pages - 1) * MaxAttempts + attempt
    BY <2>1 DEF IInv, Quota
  <2>4. pc' = "sleep" => attempt < MaxAttempts
    BY <1>3, <2>1
  <2>5. Quota'
    BY <1>3, <2>1, <2>3, <2>4 DEF Quota
  <2> QED
    BY <1>2, <2>2, <2>5 DEF IInv
<1> QED
  BY <1>4, <1>5, <1>6, <1>7

LEMMA Inductive == IInv /\ [Next]_vars => IInv'
<1> SUFFICES ASSUME IInv, [Next]_vars PROVE IInv'
  OBVIOUS
<1>1. CASE NextPage \/ Send \/ Wake \/ Permanent \/ Transient \/ Rejected
  BY <1>1, OtherSteps
<1>2. ASSUME NEW next \in Links \cup {None}, Page(next)
      PROVE  IInv'
  BY <1>2, PageStep
<1>3. CASE Return
  BY <1>3 DEF Return, Finish, IInv, TypeOK, Frontier, Quota
<1>4. CASE Abort
  BY <1>4 DEF Abort, IInv, TypeOK, Frontier, Quota
<1>5. CASE UNCHANGED vars
  BY <1>5 DEF vars, IInv, TypeOK, Frontier, Quota
<1> QED
  BY <1>1, <1>2, <1>3, <1>4, <1>5 DEF Next, Work

THEOREM Invariant == Spec => []IInv
  BY Initially, Inductive, PTL DEF Spec

-----------------------------------------------------------------------------
\* The variables of a listing stay within their types.
THEOREM TypeCorrect == Spec => []TypeOK
<1>1. IInv => TypeOK
  BY DEF IInv
<1> QED
  BY Invariant, <1>1, PTL

\* No server can make a list collect a page twice.
THEOREM EachPageOnce == Spec => []NoPageTwice
<1>1. IInv => NoPageTwice
  BY DEF IInv, Frontier, NoPageTwice
<1> QED
  BY Invariant, <1>1, PTL

\* A list that is returned has read up to a page without a next link.
THEOREM NoSilentTruncation == Spec => []ReturnedIsComplete
<1>1. IInv => ReturnedIsComplete
  BY DEF IInv, Frontier, ReturnedIsComplete
<1> QED
  BY Invariant, <1>1, PTL

\* Requests go to links on the management host only.
THEOREM TokenStaysHome == Spec => []OnlySafeLinks
<1>1. IInv => OnlySafeLinks
  BY DEF IInv, TypeOK, Frontier, OnlySafeLinks
<1> QED
  BY Invariant, <1>1, PTL

\* MaxPages pages of MaxAttempts requests are the most a list ever sends.
THEOREM WorkIsBounded == Spec => []BoundedRequests
<1>1. IInv => BoundedRequests
  BY DEF IInv, Quota, BoundedRequests
<1> QED
  BY Invariant, <1>1, PTL

\* After an abort nothing is sent any more.
THEOREM AbortIsFinal == Spec => AbortStopsRequests
<1>1. ASSUME [Next]_vars, aborted
      PROVE  requests' = requests
  BY <1>1 DEF Next, Work, vars, Abort, NextPage, Return, Send, Page, Permanent,
              Transient, Rejected, Wake
<1>2. [Next]_vars => [aborted => requests' = requests]_vars
  BY <1>1
<1> QED
  BY <1>2, PTL DEF Spec, AbortStopsRequests
=============================================================================
