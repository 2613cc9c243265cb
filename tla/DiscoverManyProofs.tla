-------------------------- MODULE DiscoverManyProofs --------------------------
(***************************************************************************)
(* What holds of DiscoverMany for any candidates, providers, setups and    *)
(* faults: the types, the account of the run, that a resolved run is       *)
(* complete, and under which setups announced documents stay in place.     *)
(***************************************************************************)
EXTENDS DiscoverMany, SequenceFacts

Jobs == [candidate : Candidates, folder : Folders, result : Exports]
Announcements ==
  [candidate : Candidates, spec : Paths, derived : Paths \cup {<<>>}]
Counters == [attempted : Nat, exported : Nat, failed : Nat, skipped : Nat]

-----------------------------------------------------------------------------
(* Types.                                                                   *)

LEMMA SetupFacts ==
  ASSUME setup \in Setups
  PROVE  /\ Listed \subseteq Candidates
         /\ Becomes \in [Candidates -> Seq(Candidates)]
         /\ \A h \in Listed : IsInjective(Becomes[h])
         /\ \A h, k \in Listed :
              h # k => Range(Becomes[h]) \cap Range(Becomes[k]) = {}
         /\ IdOf \in [Candidates -> Candidates]
         /\ ExportedBy \in [Candidates -> Providers \cup {Unbound}]
         /\ FoldersOf \in [Candidates -> SUBSET Folders]
         /\ Exports \subseteq ExportResults
         /\ MaxCandidates \in Nat \ {0}
  BY ConstantsAssumption
  DEF Listed, Becomes, IdOf, ExportedBy, FoldersOf, Exports, MaxCandidates

LEMMA CappedFacts ==
  ASSUME setup \in Setups, headers \in Seq(Listed)
  PROVE  /\ Capped \in Seq(Listed)
         /\ Len(Capped) \in 0 .. Len(headers)
         /\ Len(headers) \in Nat
         /\ \A i \in DOMAIN Capped : i \in DOMAIN headers /\ Capped[i] = headers[i]
<1> DEFINE n == Min({Len(headers), MaxCandidates})
<1>1. n \in 0 .. Len(headers) /\ Len(headers) \in Nat
  <2>1. Len(headers) \in Nat /\ MaxCandidates \in Nat
    BY SetupFacts
  <2>2. \E x \in {Len(headers), MaxCandidates} :
          \A y \in {Len(headers), MaxCandidates} : x <= y
    BY <2>1
  <2> QED
    BY <2>1, <2>2 DEF Min
<1> HIDE DEF n
<1>2. Capped = SubSeq(headers, 1, n)
  BY DEF Capped, n
<1>3. /\ SubSeq(headers, 1, n) \in Seq(Listed)
      /\ Len(SubSeq(headers, 1, n)) = n
      /\ DOMAIN SubSeq(headers, 1, n) = 1 .. n
      /\ \A i \in 1 .. n : SubSeq(headers, 1, n)[i] = headers[i]
  <2>1. n = 0 \/ n \in 1 .. Len(headers)
    BY <1>1
  <2> QED
    BY <1>1, <2>1
<1> QED
  BY <1>1, <1>2, <1>3

\* What hydration returns for a group: the candidates of its headers, none twice
\* when no header comes twice.
LEMMA BatchFacts ==
  ASSUME setup \in Setups, NEW group \in Seq(Listed)
  PROVE  /\ Batch(group) \in Seq(Candidates)
         /\ Range(Batch(group)) = Results(Range(group))
         /\ IsInjective(group) => IsInjective(Batch(group))
<1> DEFINE s == [i \in DOMAIN group |-> Becomes[group[i]]]
           First(n) == {group[i] : i \in 1 .. n}
           Right(n, v) ==
             /\ v \in Seq(Candidates)
             /\ Range(v) = Results(First(n))
             /\ IsInjective(group) => IsInjective(v)
           P == {x \in (1 .. Len(group)) \X Seq(Candidates) : Right(x[1], x[2])}
<1>1. /\ Len(group) \in Nat /\ DOMAIN group = 1 .. Len(group)
      /\ \A i \in 1 .. Len(group) : group[i] \in Listed
  BY LenProperties, ElementOfSeq
<1>2. /\ DOMAIN s = 1 .. Len(group) /\ Len(s) = Len(group)
      /\ \A i \in 1 .. Len(group) : s[i] = Becomes[group[i]]
      /\ \A i \in 1 .. Len(group) :
           s[i] \in Seq(Candidates) /\ IsInjective(s[i])
  BY <1>1, SetupFacts
<1>3. First(Len(group)) = Range(group)
  BY <1>1 DEF Range
<1>4. Batch(group) = FlattenSeq(s)
  BY DEF Batch
<1> HIDE DEF s
<1>5. CASE Len(group) = 0
  <2>1. Len(s) = 0 /\ Range(group) = {} /\ DOMAIN s = {}
    BY <1>1, <1>2, <1>5 DEF Range
  <2>2. FlattenSeq(s) = s
    BY <2>1 DEF FlattenSeq
  <2>3. s \in Seq(Candidates)
    BY <1>2, <2>1, SeqDef
  <2> QED
    BY <1>4, <2>1, <2>2, <2>3 DEF Range, Results, IsInjective
<1>6. CASE Len(group) # 0
  <2>1. Len(s) \in Nat \ {0} /\ 1 \in 1 .. Len(group)
    BY <1>1, <1>2, <1>6
  <2>2. PICK f : IsFlat(f, s, Len(s)) /\ FlattenSeq(s) = f[Len(s)]
    <3>1. \E f : IsFlat(f, s, Len(s))
      BY <2>1, FlatExists
    <3>2. FlattenSeq(s) = (CHOOSE g : IsFlat(g, s, Len(s)))[Len(s)]
      BY <2>1, Zenon DEF FlattenSeq, IsFlat
    <3> QED
      BY <3>1, <3>2, Zenon
  <2>3. Right(1, s[1])
    <3>1. First(1) = {group[1]}
      OBVIOUS
    <3>2. Results({group[1]}) = Range(Becomes[group[1]])
      BY DEF Results
    <3> QED
      BY <1>2, <2>1, <3>1, <3>2
  <2>4. ASSUME NEW n \in 1 .. Len(s) - 1, NEW v, Right(n, v)
        PROVE  Right(n + 1, v \o s[n + 1])
    <3>1. n + 1 \in 1 .. Len(group) /\ n \in 1 .. Len(group)
      BY <1>1, <1>2
    <3>2. First(n + 1) = First(n) \cup {group[n + 1]}
      BY <3>1
    <3>3. v \in Seq(Candidates) /\ s[n + 1] \in Seq(Candidates)
      BY <1>2, <2>4, <3>1
    <3>4. /\ v \o s[n + 1] \in Seq(Candidates)
          /\ Range(v \o s[n + 1]) = Range(v) \cup Range(s[n + 1])
          /\ IsInjective(v) /\ IsInjective(s[n + 1]) /\ Range(v) \cap Range(s[n + 1]) = {}
               => IsInjective(v \o s[n + 1])
      BY <3>3, InjectiveConcat, ConcatProperties
    <3>5. Results(First(n + 1)) = Results(First(n)) \cup Range(s[n + 1])
      <4>1. ASSUME NEW F, NEW x
            PROVE  Results(F \cup {x}) = Results(F) \cup Range(Becomes[x])
        BY DEF Results
      <4>2. s[n + 1] = Becomes[group[n + 1]]
        BY <1>2, <3>1
      <4> HIDE DEF First
      <4> QED
        BY <3>2, <4>1, <4>2
    <3>6. ASSUME IsInjective(group)
          PROVE  Range(v) \cap Range(s[n + 1]) = {}
      <4>1. \A i \in 1 .. n : i \in 1 .. Len(group) /\ group[i] # group[n + 1]
        BY <1>1, <3>1, <3>6 DEF IsInjective
      <4>2. \A i \in 1 .. n : Range(Becomes[group[i]]) \cap Range(s[n + 1]) = {}
        BY <1>1, <1>2, <3>1, <4>1, SetupFacts
      <4> QED
        BY <2>4, <4>2 DEF Results
    <3> QED
      BY <1>2, <2>4, <3>1, <3>4, <3>5, <3>6
  <2>5. <<Len(s), f[Len(s)]>> \in P
    <3>1. <<1, s[1]>> \in P
      BY <1>2, <2>1, <2>3
    <3>2. ASSUME NEW n \in 1 .. Len(s) - 1, NEW v, <<n, v>> \in P
          PROVE  <<n + 1, v \o s[n + 1]>> \in P
      <4> HIDE DEF Right
      <4>1. Right(n, v) /\ n + 1 \in 1 .. Len(group) /\ v \o s[n + 1] \in Seq(Candidates)
        <5>1. Right(n, v) /\ v \in Seq(Candidates)
          BY <3>2
        <5>2. n + 1 \in 1 .. Len(group)
          BY <1>1, <1>2
        <5> QED
          BY <1>2, <5>1, <5>2, ConcatProperties
      <4>2. Right(n + 1, v \o s[n + 1])
        BY <2>4, <4>1
      <4> QED
        BY <4>1, <4>2
    <3> HIDE DEF P
    <3> QED
      BY <2>1, <2>2, <3>1, <3>2, FlatInduction
  <2>6. Right(Len(group), FlattenSeq(s))
    BY <1>2, <2>2, <2>5
  <2> QED
    BY <1>3, <1>4, <2>6
<1> QED
  BY <1>5, <1>6

LEMMA JobFacts ==
  ASSUME setup \in Setups, job \in Jobs
  PROVE  /\ job.candidate \in Candidates
         /\ IdOf[job.candidate] \in Candidates
         /\ job.folder \in Folders
         /\ job.result \in ExportResults
         /\ Target = <<job.folder, job.result.root>>
         /\ Target \in Folders \X (Files \ {Derived})
         /\ Target \in Paths
         /\ DerivedPath \in Paths \cup {<<>>}
         /\ DerivedPath \in {<<>>, Target, <<job.folder, Derived>>}
         /\ job.result.derivation = "sidecar" =>
              DerivedPath = <<job.folder, Derived>> /\ DerivedPath \in Paths
<1>1. job.result \in ExportResults /\ Derived \in Files
  BY SetupFacts, ConstantsAssumption DEF Jobs
<1>2. IdOf[job.candidate] \in Candidates
  BY SetupFacts DEF Jobs
<1> QED
  BY <1>1, <1>2 DEF Jobs, Target, DerivedPath, Paths, ExportResults

\* Changing what one path holds keeps the type of the disk.
LEMMA DiskFacts ==
  ASSUME disk \in [Paths -> Contents], setup \in Setups, job \in Jobs
  PROVE  /\ \A p \in Paths, x \in Contents : [disk EXCEPT ![p] = x] \in [Paths -> Contents]
         /\ Swapped \in [Paths -> Contents]
         /\ Torn \in Contents /\ job.candidate \in Contents
<1>1. job.candidate \in Contents /\ Torn \in Contents /\ Absent \in Contents
  BY JobFacts DEF Contents
<1> QED
  BY <1>1 DEF Swapped

LEMMA FailFacts ==
  ASSUME summary \in Counters, Fail
  PROVE  /\ summary' \in Counters
         /\ summary'.attempted = summary.attempted
         /\ summary'.exported = summary.exported
         /\ summary'.failed = summary.failed + 1
         /\ summary'.skipped = summary.skipped
         /\ job' = NoJob /\ pc' = "next"
         /\ discovered' = discovered /\ writtenPaths' = writtenPaths
  BY DEF Counters, Fail

\* One more in one counter, or in two.
LEMMA CountAttempt ==
  ASSUME NEW s \in Counters, NEW t, t = [s EXCEPT !.attempted = @ + 1]
  PROVE  /\ t \in Counters
         /\ t.attempted = s.attempted + 1 /\ t.exported = s.exported
         /\ t.failed = s.failed /\ t.skipped = s.skipped
<1>1. t = [attempted |-> s.attempted + 1, exported |-> s.exported,
           failed |-> s.failed, skipped |-> s.skipped]
  BY DEF Counters
<1> QED
  BY <1>1 DEF Counters

LEMMA CountExport ==
  ASSUME NEW s \in Counters, NEW t, t = [s EXCEPT !.exported = @ + 1]
  PROVE  /\ t \in Counters
         /\ t.attempted = s.attempted /\ t.exported = s.exported + 1
         /\ t.failed = s.failed /\ t.skipped = s.skipped
<1>1. t = [attempted |-> s.attempted, exported |-> s.exported + 1,
           failed |-> s.failed, skipped |-> s.skipped]
  BY DEF Counters
<1> QED
  BY <1>1 DEF Counters

LEMMA CountSkip ==
  ASSUME NEW s \in Counters, NEW t, t = [s EXCEPT !.skipped = @ + 1]
  PROVE  /\ t \in Counters
         /\ t.attempted = s.attempted /\ t.exported = s.exported
         /\ t.failed = s.failed /\ t.skipped = s.skipped + 1
<1>1. t = [attempted |-> s.attempted, exported |-> s.exported,
           failed |-> s.failed, skipped |-> s.skipped + 1]
  BY DEF Counters
<1> QED
  BY <1>1 DEF Counters

LEMMA CountFailedAttempt ==
  ASSUME NEW s \in Counters, NEW t, t = [s EXCEPT !.attempted = @ + 1, !.failed = @ + 1]
  PROVE  /\ t \in Counters
         /\ t.attempted = s.attempted + 1 /\ t.exported = s.exported
         /\ t.failed = s.failed + 1 /\ t.skipped = s.skipped
<1>1. t = [attempted |-> s.attempted + 1, exported |-> s.exported,
           failed |-> s.failed + 1, skipped |-> s.skipped]
  BY DEF Counters
<1> QED
  BY <1>1 DEF Counters

LEMMA Announcing ==
  ASSUME discovered \in Seq(Announcements), NEW e \in Announcements,
         discovered' = Append(discovered, e)
  PROVE  /\ discovered' \in Seq(Announcements)
         /\ Len(discovered) \in Nat
         /\ Len(discovered') = Len(discovered) + 1
         /\ Range(discovered') = Range(discovered) \cup {e}
  BY AppendedRange, AppendProperties, LenProperties

LEMMA Typed == TypeOK =>
  /\ summary \in Counters
  /\ discovered \in Seq(Announcements)
  /\ pc \in {"write", "derive"} => job \in Jobs
  BY DEF TypeOK, Counters, Announcements, Jobs

\* A sequence is in the range of another.
LEMMA RangeIn ==
  ASSUME NEW S, NEW s \in Seq(S)
  PROVE  Range(s) \subseteq S
  BY LenProperties, ElementOfSeq DEF Range

LEMMA TypeInit == Init => TypeOK
<1> SUFFICES ASSUME Init PROVE TypeOK
  OBVIOUS
<1>1. headers \in Seq(Listed)
  <2>1. headers \in UNION {[1 .. m -> Listed] : m \in 0 .. Cardinality(Listed)}
    BY DEF Init, SeqOf
  <2>2. Cardinality(Listed) \in Nat
    <3>1. IsFiniteSet(Listed)
      BY SetupFacts, ConstantsAssumption, FS_Subset DEF Init
    <3> QED
      BY <3>1, FS_CardinalityType
  <2> QED
    BY <2>1, <2>2
<1>2. disk \in [Paths -> Contents]
  BY DEF Init, Contents
<1> QED
  BY <1>1, <1>2 DEF Init, TypeOK, NoJob

LEMMA TypeStep == TypeOK /\ [Next]_vars => TypeOK'
<1> SUFFICES ASSUME TypeOK, [Next]_vars PROVE TypeOK'
  OBVIOUS
<1> USE DEF input, hydration
<1>t. /\ summary \in Counters
      /\ discovered \in Seq(Announcements)
      /\ pc \in {"write", "derive"} => job \in Jobs
      /\ setup \in Setups /\ headers \in Seq(Listed)
      /\ disk \in [Paths -> Contents]
  BY Typed DEF TypeOK
<1>u. ASSUME UNCHANGED input
      PROVE  /\ Listed' = Listed /\ Exports' = Exports /\ Becomes' = Becomes
             /\ ready' \subseteq {h \in Range(headers') : Becomes'[h] = <<h>>}
             /\ supported' \subseteq Results(Range(headers))'
  BY <1>u DEF Listed, Exports, Becomes, TypeOK, Results
<1>n. NoJob \notin Jobs
  BY DEF NoJob, Jobs
<1>1. CASE Cap
  <2>1. /\ Capped \in Seq(Listed)
        /\ Len(headers) - Len(Capped) \in Nat
    BY <1>t, CappedFacts
  <2>2. hydrated' \in Seq(Candidates) /\ waiting' \in Seq(Listed)
    <3>1. Capped \in Seq(Candidates)
      <4>1. Seq(Listed) \subseteq Seq(Candidates)
        BY <1>t, SetupFacts
      <4> QED
        BY <2>1, <4>1
    <3> QED
      BY <1>1, <2>1, <3>1, FilterRange DEF Cap
  <2>3. dropped' \subseteq Listed
    BY <1>1, <2>1, RangeIn DEF Cap
  <2>4. summary' \in Counters
    BY <1>1, <1>t, <2>1 DEF Cap, Counters
  <2>5. UNCHANGED input
    BY <1>1 DEF Cap
  <2> QED
    BY <1>1, <1>u, <2>2, <2>3, <2>4, <2>5 DEF Cap, TypeOK, Counters
<1>2. ASSUME NEW p \in Providers, Hydrate(p)
      PROVE  TypeOK'
  <2> DEFINE group == Filter(waiting, OfProvider(p))
  <2>1. waiting \in Seq(Listed) /\ hydrated \in Seq(Candidates) /\ dropped \subseteq Listed
    BY DEF TypeOK
  <2>2. group \in Seq(Listed) /\ waiting' \in Seq(Listed)
    BY <1>2, <2>1, FilterRange DEF Hydrate
  <2>3. \/ hydrated' = hydrated \o Batch(group) /\ dropped' = dropped
        \/ dropped' = dropped \cup Range(group) /\ hydrated' = hydrated
    BY <1>2 DEF Hydrate
  <2> HIDE DEF group
  <2>4. Batch(group) \in Seq(Candidates) /\ Range(group) \subseteq Listed
    BY <1>t, <2>2, BatchFacts, RangeIn
  <2>5. hydrated' \in Seq(Candidates) /\ dropped' \subseteq Listed
    BY <2>1, <2>3, <2>4, ConcatProperties
  <2>6. UNCHANGED input
    BY <1>2 DEF Hydrate
  <2> QED
    BY <1>2, <1>u, <2>2, <2>5, <2>6 DEF Hydrate, TypeOK
<1>3. CASE HydrateDone
  BY <1>3, <1>u DEF HydrateDone, TypeOK
<1>4. CASE Skip
  <2>1. queue' \in Seq(Candidates) /\ summary' \in Counters
    BY <1>4, <1>t, CountSkip, HeadTailProperties DEF Skip, TypeOK
  <2> QED
    BY <1>4, <1>u, <2>1 DEF Skip, TypeOK, Counters
<1>5. CASE Export
  <2>1. PICK folder \in FoldersOf[Head(queue)], result \in Exports :
          job' = [candidate |-> Head(queue), folder |-> folder, result |-> result]
    BY <1>5 DEF Export
  <2>2. Head(queue) \in Candidates /\ queue' \in Seq(Candidates)
    BY <1>5, HeadTailProperties DEF Export, TypeOK
  <2>3. folder \in Folders
    BY <1>t, <2>1, <2>2, SetupFacts
  <2>4. job' \in Jobs
    BY <2>1, <2>2, <2>3 DEF Jobs
  <2>5. summary' \in Counters
    BY <1>5, <1>t, CountAttempt DEF Export
  <2> QED
    BY <1>5, <1>n, <1>u, <2>2, <2>4, <2>5 DEF Export, TypeOK, Counters, Jobs, Exports
<1>6. CASE ExportThrows
  <2>1. queue' \in Seq(Candidates) /\ summary' \in Counters
    BY <1>6, <1>t, CountFailedAttempt, HeadTailProperties DEF ExportThrows, TypeOK
  <2> QED
    BY <1>6, <1>u, <2>1 DEF ExportThrows, TypeOK, Counters
<1>7. CASE Refuse
  BY <1>7, <1>t, <1>u, FailFacts DEF Refuse, TypeOK, Counters
<1>8. CASE Write
  <2>1. pc = "write" /\ job \in Jobs
    BY <1>8, <1>t DEF Write
  <2>2. disk' \in [Paths -> Contents]
    <3>1. disk' \in {disk, [disk EXCEPT ![Target] = job.candidate], Swapped}
      BY <1>8 DEF Write
    <3> QED
      BY <1>t, <2>1, <3>1, DiskFacts, JobFacts
  <2> QED
    BY <1>8, <1>u, <2>1, <2>2 DEF Write, TypeOK, Exports, Jobs
<1>9. CASE WriteThrows
  <2>1. pc = "write" /\ job \in Jobs /\ Fail
    BY <1>9, <1>t DEF WriteThrows
  <2>2. disk' \in [Paths -> Contents]
    <3>1. disk' \in {disk, [disk EXCEPT ![Target] = Torn], Swapped}
      BY <1>9 DEF WriteThrows
    <3> QED
      BY <1>t, <2>1, <3>1, DiskFacts, JobFacts
  <2> QED
    BY <1>9, <1>t, <1>u, <2>1, <2>2, FailFacts DEF WriteThrows, TypeOK, Counters
<1>10. CASE Announce
  <2> DEFINE e == [candidate |-> job.candidate, spec |-> Target, derived |-> DerivedPath]
  <2>1. pc = "derive" /\ job \in Jobs
    BY <1>10, <1>t DEF Announce
  <2>2. e \in Announcements
    BY <1>t, <2>1, JobFacts DEF Announcements
  <2>3. discovered' \in Seq(Announcements)
    BY <1>10, <1>t, <2>2, Announcing DEF Announce
  <2>4. disk' \in [Paths -> Contents]
    <3>1. disk' = IF job.result.derivation = "sidecar" /\ ~ dryRun
                  THEN [disk EXCEPT ![DerivedPath] = job.candidate] ELSE disk
      BY <1>10 DEF Announce
    <3> QED
      BY <1>t, <2>1, <3>1, DiskFacts, JobFacts
  <2>5. writtenPaths' \in [Paths -> Candidates \cup {Nobody}]
    BY <1>10, <1>t, <2>1, JobFacts DEF Announce, TypeOK
  <2>6. summary' \in Counters
    BY <1>10, <1>t, CountExport DEF Announce
  <2> HIDE DEF e
  <2> QED
    BY <1>10, <1>u, <2>3, <2>4, <2>5, <2>6 DEF Announce, TypeOK, Counters, Announcements
<1>11. CASE DeriveThrows
  <2>1. pc = "derive" /\ job \in Jobs /\ Fail
    BY <1>11, <1>t DEF DeriveThrows
  <2>2. disk' \in [Paths -> Contents]
    <3>1. /\ job.result.derivation = "sidecar"
          /\ disk' \in {disk, [disk EXCEPT ![DerivedPath] = Torn]}
      BY <1>11 DEF DeriveThrows
    <3> QED
      BY <1>t, <2>1, <3>1, DiskFacts, JobFacts
  <2> QED
    BY <1>11, <1>t, <1>u, <2>1, <2>2, FailFacts DEF DeriveThrows, TypeOK, Counters
<1>12. CASE Finish
  BY <1>12, <1>u DEF Finish, TypeOK
<1>13. CASE UNCHANGED vars
  BY <1>13, <1>u DEF vars, TypeOK
<1> QED
  BY <1>1, <1>2, <1>3, <1>4, <1>5, <1>6, <1>7, <1>8, <1>9, <1>10, <1>11,
     <1>12, <1>13 DEF Next

\* The variables keep their types, and an export is in progress exactly between
\* the steps of one: for any candidates, setups and faults.
THEOREM TypeCorrect == Spec => []TypeOK
  BY TypeInit, TypeStep, PTL DEF Spec
-----------------------------------------------------------------------------
(* The account.                                                             *)

\* While hydration lasts nothing has been attempted, and only the headers beyond
\* the cap are counted as skipped.
AccountInv ==
  /\ TypeOK
  /\ AccountIsRight
  /\ pc \in {"cap", "hydrate"} => summary.attempted = 0
  /\ pc = "hydrate" => summary.skipped = Len(headers) - Len(Capped)

LEMMA AccountInit == Init => AccountInv
<1> SUFFICES ASSUME Init PROVE AccountInv
  OBVIOUS
<1>1. Len(<<>>) = 0
  OBVIOUS
<1> QED
  BY <1>1, TypeInit
  DEF Init, AccountInv, AccountIsRight, SummaryAddsUp, EveryCandidateCounted, InProgress

\* What was listed and what lies within the cap stay.
LEMMA CappedStays ==
  ASSUME UNCHANGED input
  PROVE  Capped' = Capped /\ headers' = headers
  BY DEF input, Capped, MaxCandidates

\* The numbers of headers, of those within the cap and of candidates.
LEMMA Lengths ==
  ASSUME TypeOK
  PROVE  /\ Len(headers) - Len(Capped) \in Nat
         /\ Len(hydrated) \in Nat /\ Len(queue) \in Nat
  BY CappedFacts, LenProperties DEF TypeOK

\* Plain arithmetic.
LEMMA Moved ==
  ASSUME NEW n \in Nat, NEW q \in Nat
  PROVE  (n + 1) + (q - 1) = n + q
  OBVIOUS

\* One candidate is taken from the queue and counted.
LEMMA TakeCounts ==
  ASSUME TypeOK, EveryCandidateCounted, pc \notin {"cap", "hydrate"},
         queue # <<>>, queue' = Tail(queue), UNCHANGED <<input, hydrated>>,
         summary'.attempted + summary'.skipped = (summary.attempted + summary.skipped) + 1
  PROVE  EveryCandidateCounted'
<1> DEFINE counted == summary.attempted + summary.skipped
           all == Len(headers) - Len(Capped) + Len(hydrated)
<1>1. counted \in Nat /\ Len(queue) \in Nat
  BY Typed, Lengths DEF Counters
<1>2. counted + Len(queue) = all
  BY DEF EveryCandidateCounted
<1>3. Len(queue') = Len(queue) - 1
  BY HeadTailProperties, LenProperties DEF TypeOK
<1>4. counted' = counted + 1 /\ all' = all
  BY CappedStays
<1> HIDE DEF counted, all
<1>5. (counted + 1) + (Len(queue) - 1) = counted + Len(queue)
  BY <1>1, Moved
<1>6. counted' + Len(queue)' = all'
  BY <1>2, <1>3, <1>4, <1>5, Zenon
<1> QED
  BY <1>6 DEF EveryCandidateCounted, counted, all

LEMMA AccountStep == AccountInv /\ [Next]_vars => AccountInv'
<1> SUFFICES ASSUME AccountInv, [Next]_vars PROVE AccountInv'
  OBVIOUS
<1> USE DEF input, hydration
<1>t. /\ TypeOK /\ TypeOK'
      /\ summary \in Counters /\ summary' \in Counters
      /\ discovered \in Seq(Announcements)
      /\ SummaryAddsUp /\ EveryCandidateCounted
      /\ Len(discovered) \in Nat
  BY TypeStep, Typed, LenProperties DEF AccountInv, AccountIsRight, TypeOK, Counters
<1>n. /\ summary.attempted \in Nat /\ summary.exported \in Nat
      /\ summary.failed \in Nat /\ summary.skipped \in Nat
  BY <1>t DEF Counters
<1>l. /\ Len(headers) - Len(Capped) \in Nat
      /\ Len(hydrated) \in Nat /\ Len(queue) \in Nat
  BY <1>t, Lengths
<1>s. ASSUME UNCHANGED <<input, hydrated, queue, summary, discovered>>,
             pc \notin {"cap", "hydrate"}, pc' \notin {"cap", "hydrate"},
             InProgress' = InProgress
      PROVE  AccountInv'
  BY <1>t, <1>s, CappedStays
  DEF AccountInv, AccountIsRight, SummaryAddsUp, EveryCandidateCounted
<1>1. CASE Cap
  <2>1. /\ pc = "cap" /\ pc' = "hydrate" /\ UNCHANGED <<input, discovered>>
        /\ summary'.attempted = summary.attempted
        /\ summary'.exported = summary.exported
        /\ summary'.failed = summary.failed
        /\ summary'.skipped = Len(headers) - Len(Capped)
    BY <1>1, <1>t DEF Cap, Counters
  <2>2. summary.attempted = 0
    BY <2>1 DEF AccountInv
  <2>3. Capped' = Capped /\ headers' = headers
    BY <2>1, CappedStays
  <2> QED
    BY <1>t, <2>1, <2>2, <2>3
    DEF AccountInv, AccountIsRight, SummaryAddsUp, EveryCandidateCounted, InProgress
<1>2. ASSUME NEW p \in Providers, Hydrate(p)
      PROVE  AccountInv'
  <2>1. pc = "hydrate" /\ pc' = "hydrate" /\ UNCHANGED <<input, summary, discovered>>
    BY <1>2 DEF Hydrate
  <2>2. Capped' = Capped /\ headers' = headers
    BY <2>1, CappedStays
  <2> QED
    BY <1>t, <2>1, <2>2
    DEF AccountInv, AccountIsRight, SummaryAddsUp, EveryCandidateCounted, InProgress
<1>3. CASE HydrateDone
  <2>1. /\ pc = "hydrate" /\ pc' = "next" /\ queue' = hydrated
        /\ UNCHANGED <<input, hydrated, summary, discovered>>
    BY <1>3 DEF HydrateDone
  <2>2. summary.attempted = 0 /\ summary.skipped = Len(headers) - Len(Capped)
    BY <2>1 DEF AccountInv
  <2>3. Capped' = Capped /\ headers' = headers
    BY <2>1, CappedStays
  <2>4. EveryCandidateCounted'
    BY <1>l, <2>1, <2>2, <2>3 DEF EveryCandidateCounted
  <2> QED
    BY <1>t, <2>1, <2>4 DEF AccountInv, AccountIsRight, SummaryAddsUp, InProgress
<1>4. CASE Skip
  <2>1. pc = "next" /\ pc' = "next" /\ UNCHANGED <<input, hydrated, discovered>>
    BY <1>4 DEF Skip
  <2>2. queue # <<>> /\ queue' = Tail(queue)
    BY <1>4 DEF Skip
  <2>3. /\ summary'.attempted = summary.attempted
        /\ summary'.exported = summary.exported
        /\ summary'.failed = summary.failed
        /\ summary'.skipped = summary.skipped + 1
    BY <1>4, <1>t, CountSkip DEF Skip
  <2>a. /\ summary.exported = Len(discovered)
        /\ summary.attempted = summary.exported + summary.failed
    BY <1>t, <1>n, <2>1 DEF SummaryAddsUp, InProgress
  <2>b. SummaryAddsUp'
    BY <1>n, <2>1, <2>3, <2>a DEF SummaryAddsUp, InProgress
  <2>c. EveryCandidateCounted'
    <3>1. summary'.attempted + summary'.skipped = (summary.attempted + summary.skipped) + 1
      BY <1>n, <2>3
    <3>2. EveryCandidateCounted /\ TypeOK /\ pc \notin {"cap", "hydrate"}
      BY <1>t, <2>1
    <3> QED
      BY <2>1, <2>2, <3>1, <3>2, TakeCounts
  <2> QED
    BY <1>t, <2>1, <2>b, <2>c DEF AccountInv, AccountIsRight
<1>5. CASE Export
  <2>1. pc = "next" /\ pc' = "write" /\ UNCHANGED <<input, hydrated, discovered>>
    BY <1>5 DEF Export
  <2>2. queue # <<>> /\ queue' = Tail(queue)
    BY <1>5 DEF Export
  <2>3. /\ summary'.attempted = summary.attempted + 1
        /\ summary'.exported = summary.exported
        /\ summary'.failed = summary.failed
        /\ summary'.skipped = summary.skipped
    BY <1>5, <1>t, CountAttempt DEF Export
  <2>a. /\ summary.exported = Len(discovered)
        /\ summary.attempted = summary.exported + summary.failed
    BY <1>t, <1>n, <2>1 DEF SummaryAddsUp, InProgress
  <2>b. SummaryAddsUp'
    BY <1>n, <2>1, <2>3, <2>a DEF SummaryAddsUp, InProgress
  <2>c. EveryCandidateCounted'
    <3>1. summary'.attempted + summary'.skipped = (summary.attempted + summary.skipped) + 1
      BY <1>n, <2>3
    <3>2. EveryCandidateCounted /\ TypeOK /\ pc \notin {"cap", "hydrate"}
      BY <1>t, <2>1
    <3> QED
      BY <2>1, <2>2, <3>1, <3>2, TakeCounts
  <2> QED
    BY <1>t, <2>1, <2>b, <2>c DEF AccountInv, AccountIsRight
<1>6. CASE ExportThrows
  <2>1. pc = "next" /\ pc' = "next" /\ UNCHANGED <<input, hydrated, discovered>>
    BY <1>6 DEF ExportThrows
  <2>2. queue # <<>> /\ queue' = Tail(queue)
    BY <1>6 DEF ExportThrows
  <2>3. /\ summary'.attempted = summary.attempted + 1
        /\ summary'.exported = summary.exported
        /\ summary'.failed = summary.failed + 1
        /\ summary'.skipped = summary.skipped
    <3>1. summary' = [summary EXCEPT !.attempted = @ + 1, !.failed = @ + 1]
      BY <1>6 DEF ExportThrows
    <3> QED
      BY <1>t, <3>1, CountFailedAttempt
  <2>a. /\ summary.exported = Len(discovered)
        /\ summary.attempted = summary.exported + summary.failed
    BY <1>t, <1>n, <2>1 DEF SummaryAddsUp, InProgress
  <2>b. SummaryAddsUp'
    BY <1>n, <2>1, <2>3, <2>a DEF SummaryAddsUp, InProgress
  <2>c. EveryCandidateCounted'
    <3>1. summary'.attempted + summary'.skipped = (summary.attempted + summary.skipped) + 1
      BY <1>n, <2>3
    <3>2. EveryCandidateCounted /\ TypeOK /\ pc \notin {"cap", "hydrate"}
      BY <1>t, <2>1
    <3> QED
      BY <2>1, <2>2, <3>1, <3>2, TakeCounts
  <2> QED
    BY <1>t, <2>1, <2>b, <2>c DEF AccountInv, AccountIsRight
<1>f. ASSUME Fail, pc \in {"write", "derive"}, UNCHANGED <<input, hydrated, queue>>
      PROVE  AccountInv'
  <2>1. /\ summary'.attempted = summary.attempted
        /\ summary'.exported = summary.exported
        /\ summary'.failed = summary.failed + 1
        /\ summary'.skipped = summary.skipped
        /\ pc' = "next" /\ discovered' = discovered
    BY <1>t, <1>f, FailFacts
  <2> QED
    BY <1>t, <1>f, <2>1, CappedStays
    DEF AccountInv, AccountIsRight, SummaryAddsUp, EveryCandidateCounted, InProgress, Counters
<1>7. CASE Refuse
  BY <1>f, <1>7 DEF Refuse
<1>8. CASE Write
  BY <1>s, <1>8 DEF Write, InProgress
<1>9. CASE WriteThrows
  BY <1>f, <1>9 DEF WriteThrows
<1>10. CASE Announce
  <2> DEFINE e == [candidate |-> job.candidate, spec |-> Target, derived |-> DerivedPath]
  <2>1. pc = "derive" /\ pc' = "next" /\ UNCHANGED <<input, hydrated, queue>>
    BY <1>10 DEF Announce
  <2>2. /\ summary'.attempted = summary.attempted
        /\ summary'.exported = summary.exported + 1
        /\ summary'.failed = summary.failed
        /\ summary'.skipped = summary.skipped
    BY <1>10, <1>t, CountExport DEF Announce
  <2>3. Len(discovered') = Len(discovered) + 1
    <3>1. discovered' = Append(discovered, e)
      BY <1>10 DEF Announce
    <3>2. e \in Announcements
      BY <1>t, <2>1, JobFacts, Typed DEF TypeOK, Announcements
    <3> HIDE DEF e
    <3> QED
      BY <1>t, <3>1, <3>2, Announcing
  <2> QED
    BY <1>t, <2>1, <2>2, <2>3, CappedStays
    DEF AccountInv, AccountIsRight, SummaryAddsUp, EveryCandidateCounted, InProgress, Counters
<1>11. CASE DeriveThrows
  BY <1>f, <1>11 DEF DeriveThrows
<1>12. CASE Finish
  BY <1>s, <1>12 DEF Finish, InProgress
<1>13. CASE UNCHANGED vars
  BY <1>t, <1>13, CappedStays DEF vars, AccountInv, AccountIsRight, SummaryAddsUp,
     EveryCandidateCounted, InProgress
<1> QED
  BY <1>1, <1>2, <1>3, <1>4, <1>5, <1>6, <1>7, <1>8, <1>9, <1>10, <1>11,
     <1>12, <1>13 DEF Next

\* What was attempted was exported, has failed or is in progress, every exported
\* candidate is announced, and each one that hydration returned is in exactly one
\* place of the account, however many it makes of a header: in every state,
\* whatever fails.
THEOREM AccountAddsUp == Spec => []AccountIsRight
<1>1. AccountInv => AccountIsRight
  BY DEF AccountInv
<1> QED
  BY AccountInit, AccountStep, <1>1, PTL DEF Spec
-----------------------------------------------------------------------------
(* A candidate is in one place only.                                        *)

\* The candidate whose export is in progress, and the announced ones.
Current == IF pc \in {"write", "derive"} THEN {job.candidate} ELSE {}
Announced == {d.candidate : d \in Range(discovered)}

\* Nothing is hydrated or exported twice: what hydration has returned is made of
\* no header that still waits, and nothing in the queue is or was exported.
Distinct ==
  /\ IsInjective(headers) /\ IsInjective(waiting)
  /\ IsInjective(hydrated) /\ IsInjective(queue)
  /\ Range(hydrated) \cap Results(Range(waiting)) = {}
  /\ Range(queue) \cap (Current \cup Announced) = {}
  /\ Current \cap Announced = {}
  /\ pc \in {"cap", "hydrate"} => Announced = {}

DistinctInv == TypeOK /\ Distinct

LEMMA EmptyFacts ==
  /\ Range(<<>>) = {}
  /\ IsInjective(<<>>)
  BY DEF Range, IsInjective

LEMMA DistinctInit == Init => DistinctInv
<1> SUFFICES ASSUME Init PROVE DistinctInv
  OBVIOUS
<1>1. /\ waiting = <<>> /\ hydrated = <<>> /\ queue = <<>>
      /\ discovered = <<>> /\ pc = "cap"
  BY DEF Init
<1>2. IsInjective(headers)
  BY DEF Init
<1> QED
  BY <1>1, <1>2, EmptyFacts, TypeInit DEF DistinctInv, Distinct, Current, Announced

LEMMA CappedInjective ==
  ASSUME TypeOK, IsInjective(headers)
  PROVE  IsInjective(Capped)
<1>1. \A i \in DOMAIN Capped : i \in DOMAIN headers /\ Capped[i] = headers[i]
  BY CappedFacts DEF TypeOK
<1> QED
  BY <1>1 DEF IsInjective

\* Headers of two sets without a common one become different candidates.
LEMMA ResultsApart ==
  ASSUME setup \in Setups, NEW A \in SUBSET Listed, NEW B \in SUBSET Listed, A \cap B = {}
  PROVE  Results(A) \cap Results(B) = {}
<1>1. \A h \in A, k \in B : Range(Becomes[h]) \cap Range(Becomes[k]) = {}
  BY SetupFacts
<1> QED
  BY <1>1 DEF Results

\* An export in progress ends: announced or not, its candidate comes no more.
LEMMA DistinctFails ==
  ASSUME DistinctInv, TypeOK', Fail, UNCHANGED <<input, waiting, hydrated, queue>>
  PROVE  DistinctInv'
<1>1. pc' = "next" /\ discovered' = discovered
  BY DEF Fail
<1>2. Current' = {} /\ Announced' = Announced
  BY <1>1 DEF Current, Announced
<1>3. headers' = headers /\ Results(Range(waiting))' = Results(Range(waiting))
  BY DEF input, Results, Becomes
<1> QED
  BY <1>1, <1>2, <1>3 DEF DistinctInv, Distinct

LEMMA DistinctStep == DistinctInv /\ [Next]_vars => DistinctInv'
<1> SUFFICES ASSUME DistinctInv, [Next]_vars PROVE DistinctInv'
  OBVIOUS
<1> USE DEF input, hydration
<1>t. /\ TypeOK /\ TypeOK' /\ Distinct
      /\ headers \in Seq(Listed) /\ waiting \in Seq(Listed)
      /\ hydrated \in Seq(Candidates) /\ queue \in Seq(Candidates)
      /\ setup \in Setups
  BY TypeStep DEF DistinctInv, TypeOK
<1>r. ASSUME UNCHANGED input
      PROVE  headers' = headers /\ Becomes' = Becomes
  BY <1>r DEF Becomes
<1>s. ASSUME UNCHANGED <<input, waiting, hydrated, queue, discovered>>,
             Current' = Current, pc' \notin {"cap", "hydrate"}
      PROVE  DistinctInv'
  BY <1>t, <1>r, <1>s DEF DistinctInv, Distinct, Announced, Results
<1>h. ASSUME pc = "next", queue # <<>>, queue' = Tail(queue),
             UNCHANGED <<input, waiting, hydrated, discovered>>,
             pc' \notin {"cap", "hydrate"}, Current' \subseteq {Head(queue)}
      PROVE  DistinctInv'
  <2>1. /\ Range(queue) = Range(Tail(queue)) \cup {Head(queue)}
        /\ IsInjective(Tail(queue)) /\ Head(queue) \notin Range(Tail(queue))
    BY <1>h, <1>t, InjectiveTail DEF Distinct
  <2>2. Announced' = Announced
    BY <1>h DEF Announced
  <2>3. headers' = headers /\ Results(Range(waiting))' = Results(Range(waiting))
    BY <1>h, <1>r DEF Results
  <2> QED
    BY <1>t, <1>h, <2>1, <2>2, <2>3 DEF DistinctInv, Distinct
<1>1. CASE Cap
  <2>1. /\ hydrated' = Filter(Capped, ready) /\ waiting' = Filter(Capped, Hydratable)
        /\ pc' = "hydrate" /\ pc = "cap" /\ UNCHANGED <<input, queue, discovered>>
    BY <1>1 DEF Cap
  <2>2. Capped \in Seq(Listed) /\ IsInjective(Capped)
    BY <1>t, CappedFacts, CappedInjective DEF Distinct
  <2>3. IsInjective(hydrated') /\ IsInjective(waiting')
    BY <2>1, <2>2, FilterInjective
  <2>4. /\ Range(hydrated') \subseteq ready \cap Listed
        /\ Range(waiting') \subseteq Hydratable \cap Listed
    BY <2>1, <2>2, FilterRange, RangeIn
  <2>5. Announced' = {} /\ Current' = {}
    BY <1>t, <2>1 DEF Distinct, Current, Announced
  <2>6. Range(hydrated') \cap Results(Range(waiting))' = {}
    <3>1. ASSUME NEW h \in Range(hydrated'), NEW k \in Range(waiting')
          PROVE  h \notin Range(Becomes[k])
      <4>1. h \in Listed /\ k \in Listed /\ h # k /\ Becomes[h] = <<h>>
        BY <1>t, <2>4 DEF Hydratable, TypeOK
      <4>2. h \in Range(Becomes[h])
        BY <4>1 DEF Range
      <4> QED
        BY <1>t, <4>1, <4>2, SetupFacts
    <3> QED
      BY <1>r, <2>1, <3>1 DEF Results
  <2> QED
    BY <1>t, <1>r, <2>1, <2>3, <2>5, <2>6 DEF DistinctInv, Distinct
<1>2. ASSUME NEW p \in Providers, Hydrate(p)
      PROVE  DistinctInv'
  <2> DEFINE group == Filter(waiting, OfProvider(p))
  <2>1. /\ waiting' = Filter(waiting, Candidates \ OfProvider(p))
        /\ hydrated' = hydrated \o Batch(group) \/ hydrated' = hydrated
        /\ pc = "hydrate" /\ UNCHANGED <<pc, input, queue, discovered>>
    BY <1>2 DEF Hydrate
  <2>2. /\ group \in Seq(Listed) /\ IsInjective(group)
        /\ Range(group) = Range(waiting) \cap OfProvider(p)
        /\ IsInjective(waiting')
        /\ Range(waiting') = Range(waiting) \cap (Candidates \ OfProvider(p))
    BY <1>t, <2>1, FilterRange, FilterInjective DEF Distinct
  <2> HIDE DEF group
  <2>3. /\ Batch(group) \in Seq(Candidates) /\ IsInjective(Batch(group))
        /\ Range(Batch(group)) = Results(Range(group))
    BY <1>t, <2>2, BatchFacts
  <2>4. /\ Results(Range(group)) \subseteq Results(Range(waiting))
        /\ Results(Range(waiting')) \subseteq Results(Range(waiting))
    BY <2>2 DEF Results
  <2>5. Results(Range(group)) \cap Results(Range(waiting')) = {}
    <3>1. Range(waiting) \subseteq Listed
      BY <1>t, RangeIn
    <3> QED
      BY <1>t, <2>2, <3>1, ResultsApart
  <2>6. /\ Range(hydrated \o Batch(group)) = Range(hydrated) \cup Results(Range(group))
        /\ IsInjective(hydrated \o Batch(group))
    <3>1. Range(hydrated) \cap Range(Batch(group)) = {}
      BY <1>t, <2>3, <2>4 DEF Distinct
    <3> QED
      BY <1>t, <2>3, <3>1, InjectiveConcat DEF Distinct
  <2>7. Announced' = Announced /\ Current' = {} /\ Current = {}
    BY <2>1 DEF Announced, Current
  <2>8. IsInjective(hydrated') /\ Range(hydrated') \cap Results(Range(waiting')) = {}
    BY <1>t, <2>1, <2>4, <2>5, <2>6 DEF Distinct
  <2>9. headers' = headers /\ Results(Range(waiting))' = Results(Range(waiting'))
    BY <1>r, <2>1 DEF Results
  <2> QED
    BY <1>t, <2>1, <2>2, <2>7, <2>8, <2>9 DEF DistinctInv, Distinct
<1>3. CASE HydrateDone
  <2>1. /\ pc = "hydrate" /\ pc' = "next" /\ queue' = hydrated
        /\ UNCHANGED <<input, waiting, hydrated, discovered>>
    BY <1>3 DEF HydrateDone
  <2>2. Announced' = {} /\ Current' = {}
    BY <1>t, <2>1 DEF Distinct, Announced, Current
  <2>3. headers' = headers /\ Results(Range(waiting))' = Results(Range(waiting))
    BY <1>r, <2>1 DEF Results
  <2> QED
    BY <1>t, <2>1, <2>2, <2>3 DEF DistinctInv, Distinct
<1>4. CASE Skip
  BY <1>h, <1>4 DEF Skip, Current
<1>5. CASE Export
  BY <1>h, <1>5 DEF Export, Current
<1>6. CASE ExportThrows
  BY <1>h, <1>6 DEF ExportThrows, Current
<1>7. CASE Refuse
  BY <1>t, <1>7, DistinctFails DEF Refuse
<1>8. CASE Write
  BY <1>s, <1>8 DEF Write, Current
<1>9. CASE WriteThrows
  BY <1>t, <1>9, DistinctFails DEF WriteThrows
<1>10. CASE Announce
  <2> DEFINE e == [candidate |-> job.candidate, spec |-> Target, derived |-> DerivedPath]
  <2>1. /\ pc = "derive" /\ pc' = "next" /\ discovered' = Append(discovered, e)
        /\ UNCHANGED <<input, waiting, hydrated, queue>>
    BY <1>10 DEF Announce
  <2>2. e \in Announcements
    BY <1>t, <2>1, JobFacts, Typed DEF Announcements
  <2>3. e.candidate = job.candidate
    OBVIOUS
  <2> HIDE DEF e
  <2>4. Range(discovered') = Range(discovered) \cup {e}
    BY <1>t, <2>1, <2>2, AppendedRange, Typed
  <2>5. Announced' = Announced \cup {job.candidate}
    BY <2>3, <2>4 DEF Announced
  <2>6. Current = {job.candidate} /\ Current' = {}
    BY <2>1 DEF Current
  <2>7. headers' = headers /\ Results(Range(waiting))' = Results(Range(waiting))
    BY <1>r, <2>1 DEF Results
  <2> QED
    BY <1>t, <2>1, <2>5, <2>6, <2>7 DEF DistinctInv, Distinct
<1>11. CASE DeriveThrows
  BY <1>t, <1>11, DistinctFails DEF DeriveThrows
<1>12. CASE Finish
  BY <1>s, <1>12 DEF Finish, Current
<1>13. CASE UNCHANGED vars
  BY <1>t, <1>r, <1>13 DEF vars, DistinctInv, Distinct, Current, Announced, Results
<1> QED
  BY <1>1, <1>2, <1>3, <1>4, <1>5, <1>6, <1>7, <1>8, <1>9, <1>10, <1>11,
     <1>12, <1>13 DEF Next

\* No candidate is hydrated, exported or announced twice, however hydration
\* groups and orders the headers and however many candidates it makes of one.
THEOREM ExportedOnce == Spec => []Distinct
<1>1. DistinctInv => Distinct
  BY DEF DistinctInv
<1> QED
  BY DistinctInit, DistinctStep, <1>1, PTL DEF Spec
-----------------------------------------------------------------------------
(* What was announced stays in place.                                       *)

SingleFiles == \A r \in Exports : r.companions = {}
OwnIds == IsInjective(IdOf)

\* No export can reach what another has written: folders of their own, or single
\* files whose paths are told apart by id.
Safe == FoldersApart \/ (SingleFiles /\ OwnIds)

\* Where an announced document and its derived document lie.
Placed(d) ==
  /\ d.spec[1] \in FoldersOf[d.candidate]
  /\ d.spec[2] # Derived
  /\ d.derived \in {<<>>, d.spec, <<d.spec[1], Derived>>}
  /\ writtenPaths[d.spec] = IdOf[d.candidate]

\* The announced paths are registered, an export past its check does not
\* collide, and what it has written is there.
Registered ==
  /\ \A d \in Range(discovered) : Placed(d)
  /\ pc \in {"write", "derive"} => job.folder \in FoldersOf[job.candidate]
  /\ pc = "derive" => ~ Collides
  /\ pc = "derive" /\ ~ dryRun => disk[Target] = job.candidate

SpecsKept == Safe => SpecsHold

StayInv == DistinctInv /\ Registered /\ SpecsKept /\ DerivedHold

LEMMA StayInit == Init => StayInv
<1> SUFFICES ASSUME Init PROVE StayInv
  OBVIOUS
<1>1. discovered = <<>> /\ pc = "cap"
  BY DEF Init
<1> QED
  BY <1>1, EmptyFacts, DistinctInit
  DEF StayInv, Registered, SpecsKept, SpecsHold, DerivedHold

\* Steps that touch neither the disk nor an announcement.
LEMMA StayStutter ==
  ASSUME StayInv, DistinctInv', UNCHANGED <<input, discovered, writtenPaths, disk>>,
         pc' \in {"write", "derive"} => job'.folder \in FoldersOf[job'.candidate],
         pc' # "derive"
  PROVE  StayInv'
<1>1. /\ UNCHANGED <<FoldersOf, Exports, IdOf>>
      /\ \A d \in Range(discovered) : Placed(d)' <=> Placed(d)
  BY DEF input, FoldersOf, Exports, IdOf, Placed
<1>2. Registered'
  BY <1>1 DEF StayInv, Registered
<1>3. SpecsKept' /\ DerivedHold'
  BY <1>1 DEF StayInv, SpecsKept, SpecsHold, DerivedHold, FoldersApart, Safe, SingleFiles, OwnIds, input
<1> QED
  BY <1>2, <1>3 DEF StayInv

\* The facts about an announced export that the steps of another one need.
LEMMA AnotherOne ==
  ASSUME StayInv, pc \in {"write", "derive"}, NEW d \in Range(discovered)
  PROVE  /\ d \in Announcements /\ job \in Jobs /\ setup \in Setups
         /\ d.candidate # job.candidate
         /\ d.spec \in Paths /\ Target \in Paths
         /\ ~ Collides /\ Safe => d.spec # Target
         /\ FoldersApart => d.spec[1] # job.folder
         /\ Placed(d)
<1>1. TypeOK /\ Distinct /\ Registered
  BY DEF StayInv, DistinctInv
<1>2. discovered \in Seq(Announcements) /\ job \in Jobs /\ setup \in Setups
  BY <1>1, Typed DEF TypeOK
<1>3. d \in Announcements
  BY <1>2, RangeIn
<1>4. d.candidate # job.candidate
  <2>1. d.candidate \in Announced /\ job.candidate \in Current
    BY DEF Announced, Current
  <2> QED
    BY <1>1, <2>1 DEF Distinct
<1>5. Placed(d) /\ job.folder \in FoldersOf[job.candidate]
  BY <1>1 DEF Registered
<1>6. d.spec \in Paths /\ d.candidate \in Candidates
  BY <1>3 DEF Announcements
<1>7. Target \in Paths /\ job.candidate \in Candidates
  BY <1>2, JobFacts
<1>9. ASSUME FoldersApart PROVE d.spec[1] # job.folder
  BY <1>4, <1>5, <1>6, <1>7, <1>9 DEF FoldersApart, Placed
<1>8. ASSUME ~ Collides, Safe PROVE d.spec # Target
  <2>1. CASE FoldersApart
    <3>1. d.spec[1] # job.folder /\ Target[1] = job.folder
      BY <1>9, <2>1 DEF Target
    <3> QED
      BY <3>1
  <2>2. CASE OwnIds
    <3>1. IdOf[d.candidate] # Nobody /\ IdOf[d.candidate] # IdOf[job.candidate]
      BY <1>2, <1>4, <1>6, <1>7, <2>2, SetupFacts, ConstantsAssumption
      DEF OwnIds, IsInjective
    <3> QED
      BY <1>5, <1>8, <3>1 DEF Collides, Placed
  <2> QED
    BY <1>8, <2>1, <2>2 DEF Safe
<1> QED
  BY <1>2, <1>3, <1>4, <1>5, <1>6, <1>7, <1>8, <1>9

\* A step of another export that leaves the announced documents alone.
LEMMA StayAlone ==
  ASSUME StayInv, DistinctInv', UNCHANGED <<input, discovered, writtenPaths>>,
         Safe =>
           \A d \in Range(discovered) : disk'[d.spec] = disk[d.spec],
         FoldersApart =>
           \A d \in Range(discovered) : d.derived # <<>> => disk'[d.derived] = disk[d.derived]
  PROVE  /\ SpecsKept' /\ DerivedHold'
         /\ \A d \in Range(discovered') : Placed(d)'
<1>1. UNCHANGED <<FoldersOf, Exports, IdOf, dryRun, Range(discovered)>>
  BY DEF input, FoldersOf, Exports, IdOf
<1>2. \A d \in Range(discovered') : Placed(d)'
  BY <1>1 DEF StayInv, Registered, Placed
<1>3. SpecsKept'
  BY <1>1 DEF StayInv, SpecsKept, SpecsHold, FoldersApart, Safe, SingleFiles, OwnIds
<1>4. DerivedHold'
  BY <1>1 DEF StayInv, DerivedHold, FoldersApart
<1> QED
  BY <1>2, <1>3, <1>4

\* What a write does to the folder, complete or not.
LEMMA WrittenApart ==
  ASSUME StayInv, pc = "write", ~ Collides,
         \E x : disk' \in IF job.result.companions = {}
                         THEN {disk, [disk EXCEPT ![Target] = x]}
                         ELSE {disk, Swapped},
         NEW d \in Range(discovered)
  PROVE  /\ Safe => disk'[d.spec] = disk[d.spec]
         /\ FoldersApart => (d.derived # <<>> => disk'[d.derived] = disk[d.derived])
<1>1. /\ job \in Jobs /\ setup \in Setups
      /\ d.spec \in Paths /\ Target \in Paths
      /\ Safe => d.spec # Target
      /\ FoldersApart => d.spec[1] # job.folder
      /\ Placed(d) /\ d \in Announcements
  BY AnotherOne
<1>2. disk \in [Paths -> Contents]
  BY DEF StayInv, DistinctInv, TypeOK
<1>3. Target = <<job.folder, job.result.root>> /\ job.result.root # Derived
  BY <1>1, JobFacts DEF ExportResults
<1>4. d.derived \in {<<>>, d.spec, <<d.spec[1], Derived>>} /\ d.spec[2] # Derived
  BY <1>1 DEF Placed
<1>5. d.derived # <<>> =>
        d.derived \in Paths /\ d.derived[1] = d.spec[1] /\ (Safe => d.derived # Target)
  <2>1. d.derived \in Paths \cup {<<>>}
    BY <1>1 DEF Announcements
  <2> QED
    BY <1>1, <1>3, <1>4, <2>1
<1>6. CASE job.result.companions = {}
  <2>1. FoldersApart => Safe
    BY DEF Safe
  <2> QED
    BY <1>1, <1>2, <1>5, <1>6, <2>1
<1>7. CASE job.result.companions # {}
  <2>1. ~ SingleFiles
    BY <1>1, <1>7 DEF SingleFiles, Jobs
  <2>2. disk' \in {disk, Swapped}
    BY <1>7
  <2>3. \A q \in Paths : q[1] # job.folder => disk'[q] = disk[q]
    BY <1>2, <2>2 DEF Swapped
  <2> QED
    BY <1>1, <1>5, <2>1, <2>3 DEF Safe
<1> QED
  BY <1>6, <1>7

LEMMA StayAnnounce == StayInv /\ DistinctInv' /\ Announce => StayInv'
<1> SUFFICES ASSUME StayInv, DistinctInv', Announce PROVE StayInv'
  OBVIOUS
<1> DEFINE e == [candidate |-> job.candidate, spec |-> Target, derived |-> DerivedPath]
<1>1. /\ pc = "derive" /\ pc' = "next" /\ UNCHANGED input
      /\ discovered' = Append(discovered, e)
      /\ writtenPaths' = [writtenPaths EXCEPT ![Target] = IdOf[job.candidate]]
      /\ disk' = IF job.result.derivation = "sidecar" /\ ~ dryRun
                 THEN [disk EXCEPT ![DerivedPath] = job.candidate]
                 ELSE disk
  BY DEF Announce
<1>2. /\ TypeOK /\ Registered /\ job \in Jobs /\ setup \in Setups
      /\ discovered \in Seq(Announcements)
  BY <1>1, Typed DEF StayInv, DistinctInv, TypeOK
<1>3. /\ writtenPaths \in [Paths -> Candidates \cup {Nobody}]
      /\ disk \in [Paths -> Contents]
  BY <1>2 DEF TypeOK
<1>4. /\ e \in Announcements
      /\ e.candidate = job.candidate /\ e.spec = Target /\ e.derived = DerivedPath
  BY <1>2, JobFacts DEF Announcements
<1>5. /\ Target = <<job.folder, job.result.root>> /\ Target \in Paths
      /\ Target[1] = job.folder /\ Target[2] # Derived
      /\ DerivedPath \in {<<>>, Target, <<job.folder, Derived>>}
      /\ job.result.derivation = "sidecar" =>
           DerivedPath = <<job.folder, Derived>> /\ DerivedPath \in Paths
      /\ job.result.derivation # "sidecar" => DerivedPath \in {<<>>, Target}
  BY <1>2, JobFacts DEF DerivedPath, ExportResults
<1> HIDE DEF e
<1>6. Range(discovered') = Range(discovered) \cup {e}
  BY <1>1, <1>2, <1>4, AppendedRange
<1>7. UNCHANGED <<FoldersOf, Exports, IdOf, dryRun>>
  BY <1>1 DEF input, FoldersOf, Exports, IdOf
<1>8. ASSUME NEW d, d = e
      PROVE  Placed(d)'
  <2>1. job.folder \in FoldersOf[job.candidate]
    BY <1>1, <1>2 DEF Registered
  <2>2. writtenPaths'[Target] = IdOf[job.candidate]
    BY <1>1, <1>3, <1>5
  <2>3. e.derived \in {<<>>, e.spec, <<e.spec[1], Derived>>}
    BY <1>4, <1>5
  <2>4. /\ e.spec[1] \in FoldersOf'[e.candidate] /\ e.spec[2] # Derived
        /\ writtenPaths'[e.spec] = IdOf'[e.candidate]
    BY <1>4, <1>5, <1>7, <2>1, <2>2
  <2> QED
    BY <1>8, <2>3, <2>4 DEF Placed
<1>9. ASSUME NEW d \in Range(discovered)
      PROVE  /\ Placed(d)'
             /\ disk'[d.spec] = disk[d.spec]
             /\ FoldersApart => (d.derived # <<>> => disk'[d.derived] = disk[d.derived])
  <2>1. /\ d \in Announcements /\ d.spec \in Paths
        /\ FoldersApart => d.spec[1] # job.folder
        /\ Placed(d)
    BY <1>1, <1>2, AnotherOne
  <2>2. Placed(d)'
    <3>1. ~ Collides
      BY <1>1, <1>2 DEF Registered
    <3>2. IdOf[d.candidate] # Nobody
      BY <1>2, <2>1, SetupFacts, ConstantsAssumption DEF Announcements
    <3>3. d.spec = Target => IdOf[d.candidate] = IdOf[job.candidate]
      BY <2>1, <3>1, <3>2 DEF Collides, Placed
    <3> QED
      BY <1>1, <1>3, <1>7, <2>1, <3>3 DEF Placed
  <2>3. d.spec # <<job.folder, Derived>>
    BY <2>1 DEF Placed
  <2>4. disk'[d.spec] = disk[d.spec]
    BY <1>1, <1>3, <1>5, <2>1, <2>3
  <2>5. ASSUME FoldersApart, d.derived # <<>>
        PROVE  disk'[d.derived] = disk[d.derived]
    <3>1. d.derived \in Paths /\ d.derived[1] = d.spec[1]
      BY <2>1, <2>5 DEF Placed, Announcements
    <3> QED
      BY <1>1, <1>3, <1>5, <2>1, <2>5, <3>1
  <2> QED
    BY <2>2, <2>4, <2>5
<1>10. Registered'
  <2>1. \A d \in Range(discovered') : Placed(d)'
    BY <1>6, <1>8, <1>9
  <2> QED
    BY <1>1, <2>1 DEF Registered
<1>11. ~ dryRun => disk'[e.spec] = e.candidate
  BY <1>1, <1>2, <1>3, <1>4, <1>5 DEF Registered
<1>12. ~ dryRun /\ e.derived # <<>> => disk'[e.derived] = e.candidate
  BY <1>1, <1>3, <1>4, <1>5, <1>11
<1>13. SpecsKept'
  <2> SUFFICES ASSUME Safe, ~ dryRun,
                      NEW d \in Range(discovered) \cup {e}
               PROVE  disk'[d.spec] = d.candidate
    BY <1>6, <1>7 DEF SpecsKept, SpecsHold, FoldersApart, Safe, SingleFiles, OwnIds
  <2>1. CASE d = e
    BY <1>11, <2>1
  <2>2. CASE d \in Range(discovered)
    BY <1>9, <2>2 DEF StayInv, SpecsKept, SpecsHold
  <2> QED
    BY <2>1, <2>2
<1>14. DerivedHold'
  <2> SUFFICES ASSUME FoldersApart, ~ dryRun,
                      NEW d \in Range(discovered) \cup {e}, d.derived # <<>>
               PROVE  disk'[d.derived] = d.candidate
    BY <1>6, <1>7 DEF DerivedHold, FoldersApart
  <2>1. CASE d = e
    BY <1>12, <2>1
  <2>2. CASE d \in Range(discovered)
    BY <1>9, <2>2 DEF StayInv, DerivedHold
  <2> QED
    BY <2>1, <2>2
<1> QED
  BY <1>10, <1>13, <1>14 DEF StayInv

LEMMA StayStep == StayInv /\ [Next]_vars => StayInv'
<1> SUFFICES ASSUME StayInv, [Next]_vars PROVE StayInv'
  OBVIOUS
<1>d. DistinctInv'
  BY DistinctStep DEF StayInv
<1>t. /\ Registered /\ setup \in Setups /\ disk \in [Paths -> Contents]
      /\ discovered \in Seq(Announcements) /\ TypeOK
      /\ pc \in {"write", "derive"} => job \in Jobs
  BY Typed DEF StayInv, DistinctInv, TypeOK
<1>1. CASE Cap
  BY <1>d, <1>1, StayStutter DEF Cap, input
<1>2. ASSUME NEW p \in Providers, Hydrate(p)
      PROVE  StayInv'
  BY <1>d, <1>2, StayStutter DEF Hydrate, input
<1>3. CASE HydrateDone
  BY <1>d, <1>3, StayStutter DEF HydrateDone, input
<1>4. CASE Skip
  BY <1>d, <1>4, StayStutter DEF Skip, input
<1>5. CASE Export
  <2>1. PICK folder \in FoldersOf[Head(queue)], result \in Exports :
          job' = [candidate |-> Head(queue), folder |-> folder, result |-> result]
    BY <1>5 DEF Export
  <2>2. job'.folder \in FoldersOf[job'.candidate]
    BY <2>1
  <2> QED
    BY <1>d, <1>5, <2>2, StayStutter DEF Export, input
<1>6. CASE ExportThrows
  BY <1>d, <1>6, StayStutter DEF ExportThrows, input
<1>7. CASE Refuse
  BY <1>d, <1>7, StayStutter DEF Refuse, Fail, input
<1>8. CASE Write
  <2>1. /\ pc = "write" /\ ~ Collides /\ pc' = "derive"
        /\ UNCHANGED <<input, job, discovered, writtenPaths>>
        /\ disk' = IF dryRun THEN disk
                   ELSE IF job.result.companions = {}
                   THEN [disk EXCEPT ![Target] = job.candidate]
                   ELSE Swapped
    BY <1>8 DEF Write
  <2>2. \E x : disk' \in IF job.result.companions = {}
                         THEN {disk, [disk EXCEPT ![Target] = x]}
                         ELSE {disk, Swapped}
    BY <2>1
  <2>3. \A d \in Range(discovered) :
          /\ Safe => disk'[d.spec] = disk[d.spec]
          /\ FoldersApart => (d.derived # <<>> => disk'[d.derived] = disk[d.derived])
    BY <2>1, <2>2, WrittenApart
  <2>4. /\ SpecsKept' /\ DerivedHold'
        /\ \A d \in Range(discovered') : Placed(d)'
    BY <1>d, <2>1, <2>3, StayAlone
  <2>5. /\ Target' = Target /\ FoldersOf' = FoldersOf
        /\ Collides' <=> Collides
    BY <2>1 DEF Target, FoldersOf, IdOf, Collides, input
  <2>6. ~ dryRun => disk'[Target] = job.candidate
    <3>1. /\ job \in Jobs /\ Target = <<job.folder, job.result.root>>
          /\ Target \in Paths /\ job.result.root # Derived
      BY <1>t, <2>1, JobFacts DEF ExportResults
    <3>2. Swapped[Target] = job.candidate
      BY <3>1 DEF Swapped
    <3> QED
      BY <1>t, <2>1, <3>1, <3>2
  <2>7. Registered'
    BY <1>t, <2>1, <2>4, <2>5, <2>6 DEF Registered, input
  <2> QED
    BY <1>d, <2>4, <2>7 DEF StayInv
<1>9. CASE WriteThrows
  <2>1. /\ pc = "write" /\ ~ Collides /\ pc' = "next"
        /\ UNCHANGED <<input, discovered, writtenPaths>>
        /\ disk' \in IF job.result.companions = {}
                     THEN {disk, [disk EXCEPT ![Target] = Torn]}
                     ELSE {disk, Swapped}
    BY <1>9 DEF WriteThrows, Fail
  <2>2. \A d \in Range(discovered) :
          /\ Safe => disk'[d.spec] = disk[d.spec]
          /\ FoldersApart => (d.derived # <<>> => disk'[d.derived] = disk[d.derived])
    BY <2>1, WrittenApart
  <2>3. /\ SpecsKept' /\ DerivedHold'
        /\ \A d \in Range(discovered') : Placed(d)'
    BY <1>d, <2>1, <2>2, StayAlone
  <2> QED
    BY <1>d, <2>1, <2>3 DEF StayInv, Registered
<1>10. CASE Announce
  BY <1>d, <1>10, StayAnnounce
<1>11. CASE DeriveThrows
  <2>1. /\ pc = "derive" /\ pc' = "next"
        /\ UNCHANGED <<input, discovered, writtenPaths>>
        /\ job.result.derivation = "sidecar"
        /\ disk' \in {disk, [disk EXCEPT ![DerivedPath] = Torn]}
    BY <1>11 DEF DeriveThrows, Fail
  <2>2. DerivedPath = <<job.folder, Derived>> /\ DerivedPath \in Paths
    BY <1>t, <2>1, JobFacts
  <2>3. ASSUME NEW d \in Range(discovered)
        PROVE  /\ disk'[d.spec] = disk[d.spec]
               /\ FoldersApart => (d.derived # <<>> => disk'[d.derived] = disk[d.derived])
    <3>1. /\ d \in Announcements /\ d.spec \in Paths /\ Placed(d)
          /\ FoldersApart => d.spec[1] # job.folder
      BY <2>1, AnotherOne
    <3>2. d.spec # DerivedPath
      BY <2>2, <3>1 DEF Placed
    <3>3. FoldersApart /\ d.derived # <<>> => d.derived \in Paths /\ d.derived # DerivedPath
      BY <2>2, <3>1 DEF Placed, Announcements
    <3> QED
      BY <1>t, <2>1, <2>2, <3>1, <3>2, <3>3
  <2>4. /\ SpecsKept' /\ DerivedHold'
        /\ \A d \in Range(discovered') : Placed(d)'
    BY <1>d, <2>1, <2>3, StayAlone
  <2> QED
    BY <1>d, <2>1, <2>4 DEF StayInv, Registered
<1>12. CASE Finish
  BY <1>d, <1>12, StayStutter DEF Finish, input
<1>13. CASE UNCHANGED vars
  BY <1>d, <1>13 DEF vars, input, StayInv, Registered, Placed, FoldersOf, IdOf, Target,
     Collides, SpecsKept, SpecsHold, DerivedHold, FoldersApart, Safe, SingleFiles, OwnIds,
     Exports
<1> QED
  BY <1>1, <1>2, <1>3, <1>4, <1>5, <1>6, <1>7, <1>8, <1>9, <1>10, <1>11,
     <1>12, <1>13 DEF Next

\* "writing would silently overwrite the earlier export": what was announced
\* under spec-path stays what it was announced as, at every point of the run and
\* whatever fails, when no two candidates share a service folder, or when every
\* export is a single file and no two candidates bear one id.
THEOREM ExportsStay ==
  ASSUME \A s \in Setups :
           \/ \A c, d \in Candidates :
                c # d => s.foldersOf[c] \cap s.foldersOf[d] = {}
           \/ /\ \A r \in s.exports : r.companions = {}
              /\ IsInjective(s.idOf)
  PROVE  Spec => []SpecsHold
<1>1. StayInv => SpecsHold
  <2>1. StayInv => setup \in Setups
    BY DEF StayInv, DistinctInv, TypeOK
  <2> QED
    BY <2>1 DEF StayInv, SpecsKept, FoldersApart, Safe, SingleFiles, OwnIds, FoldersOf,
       Exports, IdOf
<1> QED
  BY StayInit, StayStep, <1>1, PTL DEF Spec

\* The same of the derived documents, under any setup: the property itself
\* speaks of the runs whose candidates have folders of their own.
THEOREM DerivedStay == Spec => []DerivedHold
<1>1. StayInv => DerivedHold
  BY DEF StayInv
<1> QED
  BY StayInit, StayStep, <1>1, PTL DEF Spec
-----------------------------------------------------------------------------
(* A resolved run is complete.                                              *)

\* Hydration takes every header within the cap that has not been dropped, and
\* what it returned is, unless an export failed, on its way or announced.
Covered ==
  /\ pc \notin {"cap", "hydrate"} => waiting = <<>>
  /\ pc = "done" => queue = <<>>
  /\ pc # "cap" =>
       \A h \in Range(Capped) \ dropped :
         h \in Range(waiting) \/ Range(Becomes[h]) \subseteq Range(hydrated)
  /\ pc \notin {"cap", "hydrate"} /\ summary.failed = 0 =>
       \A c \in Range(hydrated) :
         Exportable(c) => c \in Range(queue) \cup Current \cup Announced

CoveredInv == TypeOK /\ Covered

LEMMA CoveredInit == Init => CoveredInv
  BY TypeInit DEF Init, CoveredInv, Covered

\* After an error the run is not resolved.
LEMMA CoveredFails ==
  ASSUME CoveredInv, TypeOK', pc \notin {"cap", "hydrate"}, pc' = "next",
         summary'.failed = summary.failed + 1, UNCHANGED <<input, hydration>>
  PROVE  CoveredInv'
<1>1. summary'.failed # 0
  <2>1. summary.failed \in Nat
    BY Typed DEF CoveredInv, Counters
  <2> QED
    BY <2>1
<1>2. Capped' = Capped /\ Becomes' = Becomes
  BY DEF input, Capped, Becomes, MaxCandidates
<1> QED
  BY <1>1, <1>2 DEF CoveredInv, Covered, hydration

LEMMA CoveredStep == CoveredInv /\ [Next]_vars => CoveredInv'
<1> SUFFICES ASSUME CoveredInv, [Next]_vars PROVE CoveredInv'
  OBVIOUS
<1> USE DEF hydration
<1>t. /\ TypeOK /\ TypeOK' /\ Covered
      /\ headers \in Seq(Listed) /\ waiting \in Seq(Listed)
      /\ hydrated \in Seq(Candidates) /\ queue \in Seq(Candidates)
      /\ setup \in Setups /\ summary \in Counters
      /\ discovered \in Seq(Announcements)
  BY TypeStep, Typed DEF CoveredInv, TypeOK
<1>i. ASSUME UNCHANGED input
      PROVE  /\ Capped' = Capped /\ Becomes' = Becomes
             /\ \A c : Exportable(c)' <=> Exportable(c)
  BY <1>i DEF input, Capped, Becomes, Exportable, ExportedBy, MaxCandidates
\* Steps of the loop that lose no candidate on its way.
<1>s. ASSUME UNCHANGED <<input, hydration>>, summary'.failed = summary.failed,
             pc \notin {"cap", "hydrate"}, pc' \notin {"cap", "hydrate"},
             pc' = "done" => queue' = <<>>,
             \A c \in Range(queue) \cup Current \cup Announced :
               Exportable(c) => c \in (Range(queue) \cup Current \cup Announced)'
      PROVE  CoveredInv'
  BY <1>t, <1>i, <1>s DEF CoveredInv, Covered
\* Steps that end an export with an error.
<1>f. ASSUME Fail, pc \in {"write", "derive"}, UNCHANGED <<input, hydration>>
      PROVE  CoveredInv'
  <2>1. summary'.failed = summary.failed + 1 /\ pc' = "next"
    BY <1>t, <1>f, FailFacts
  <2> QED
    BY <1>t, <1>f, <2>1, CoveredFails DEF CoveredInv
<1>h. ASSUME queue # <<>>, queue' = Tail(queue)
      PROVE  Range(queue) = Range(queue') \cup {Head(queue)}
  BY <1>t, <1>h, InjectiveTail
<1>1. CASE Cap
  <2>1. /\ hydrated' = Filter(Capped, ready) /\ waiting' = Filter(Capped, Hydratable)
        /\ dropped' = Range(Capped) \ (ready \cup Hydratable)
        /\ pc' = "hydrate" /\ UNCHANGED input
    BY <1>1 DEF Cap
  <2>2. Capped \in Seq(Candidates)
    <3>1. Capped \in Seq(Listed) /\ Listed \subseteq Candidates
      BY <1>t, CappedFacts, SetupFacts
    <3> QED
      BY <3>1
  <2>3. /\ Range(hydrated') = Range(Capped) \cap ready
        /\ Range(waiting') = Range(Capped) \cap Hydratable
    BY <2>1, <2>2, FilterRange
  <2>4. \A h \in ready : Becomes[h] = <<h>>
    BY <1>t DEF TypeOK
  <2>5. ASSUME NEW h \in Range(Capped) \ dropped'
        PROVE  h \in Range(waiting') \/ Range(Becomes[h]) \subseteq Range(hydrated')
    <3>1. CASE h \in Hydratable
      BY <2>3, <3>1
    <3>2. CASE h \in ready
      <4>1. Becomes[h] = <<h>> /\ Range(<<h>>) = {h}
        BY <2>4, <3>2 DEF Range
      <4> QED
        BY <2>3, <3>2, <4>1
    <3> QED
      BY <2>1, <3>1, <3>2
  <2> QED
    BY <1>t, <1>i, <2>1, <2>5 DEF CoveredInv, Covered
<1>2. ASSUME NEW p \in Providers, Hydrate(p)
      PROVE  CoveredInv'
  <2> DEFINE group == Filter(waiting, OfProvider(p))
  <2>1. /\ waiting' = Filter(waiting, Candidates \ OfProvider(p))
        /\ \/ hydrated' = hydrated \o Batch(group) /\ dropped' = dropped
           \/ dropped' = dropped \cup Range(group) /\ hydrated' = hydrated
        /\ pc = "hydrate" /\ pc' = "hydrate" /\ UNCHANGED input
    BY <1>2 DEF Hydrate
  <2>2. /\ group \in Seq(Listed)
        /\ Range(group) = Range(waiting) \cap OfProvider(p)
        /\ Range(waiting') = Range(waiting) \cap (Candidates \ OfProvider(p))
    BY <1>t, <2>1, FilterRange
  <2>3. Range(waiting) \subseteq Range(waiting') \cup Range(group)
    <3>1. Range(waiting) \subseteq Candidates
      BY <1>t, RangeIn, SetupFacts
    <3> QED
      BY <2>2, <3>1
  <2> HIDE DEF group
  <2>4. ASSUME NEW h \in Range(Capped) \ dropped'
        PROVE  h \in Range(waiting') \/ Range(Becomes[h]) \subseteq Range(hydrated')
    <3>1. CASE hydrated' = hydrated \o Batch(group) /\ dropped' = dropped
      <4>1. /\ Batch(group) \in Seq(Candidates)
            /\ Range(Batch(group)) = Results(Range(group))
        BY <1>t, <2>2, BatchFacts
      <4>2. Range(hydrated') = Range(hydrated) \cup Results(Range(group))
        BY <1>t, <3>1, <4>1, InjectiveConcat
      <4>3. h \in Range(waiting) \/ Range(Becomes[h]) \subseteq Range(hydrated)
        BY <1>t, <2>1, <2>4, <3>1 DEF Covered
      <4>4. h \in Range(group) => Range(Becomes[h]) \subseteq Results(Range(group))
        BY DEF Results
      <4> QED
        BY <2>3, <4>2, <4>3, <4>4
    <3>2. CASE dropped' = dropped \cup Range(group) /\ hydrated' = hydrated
      <4>1. h \in Range(Capped) \ dropped /\ h \notin Range(group)
        BY <2>4, <3>2
      <4>2. h \in Range(waiting) \/ Range(Becomes[h]) \subseteq Range(hydrated)
        BY <1>t, <2>1, <4>1 DEF Covered
      <4> QED
        BY <2>3, <3>2, <4>1, <4>2
    <3> QED
      BY <2>1, <3>1, <3>2
  <2> QED
    BY <1>t, <1>i, <2>1, <2>4 DEF CoveredInv, Covered
<1>3. CASE HydrateDone
  <2>1. /\ pc = "hydrate" /\ pc' = "next" /\ waiting = <<>> /\ queue' = hydrated
        /\ UNCHANGED <<input, hydration>>
    BY <1>3 DEF HydrateDone
  <2> QED
    BY <1>t, <1>i, <2>1 DEF CoveredInv, Covered
<1>4. CASE Skip
  <2>1. Range(queue) = Range(queue') \cup {Head(queue)} /\ ~ Exportable(Head(queue))
    BY <1>h, <1>4 DEF Skip
  <2>2. summary'.failed = summary.failed
    BY <1>4, <1>t, CountSkip DEF Skip
  <2> QED
    BY <1>s, <1>t, <1>4, <2>1, <2>2 DEF Skip, Current, Announced, Covered
<1>5. CASE Export
  <2>1. Range(queue) = Range(queue') \cup {Head(queue)}
    BY <1>h, <1>5 DEF Export
  <2>2. summary'.failed = summary.failed
    BY <1>5, <1>t, CountAttempt DEF Export
  <2>3. Current' = {Head(queue)} /\ Current = {}
    BY <1>5 DEF Export, Current
  <2> QED
    BY <1>s, <1>t, <1>5, <2>1, <2>2, <2>3 DEF Export, Announced, Covered
<1>6. CASE ExportThrows
  <2>1. summary'.failed = summary.failed + 1
    <3>1. summary' = [summary EXCEPT !.attempted = @ + 1, !.failed = @ + 1]
      BY <1>6 DEF ExportThrows
    <3> QED
      BY <1>t, <3>1, CountFailedAttempt
  <2> QED
    BY <1>t, <1>6, <2>1, CoveredFails DEF ExportThrows, CoveredInv
<1>7. CASE Refuse
  BY <1>f, <1>7 DEF Refuse
<1>8. CASE Write
  BY <1>s, <1>t, <1>8 DEF Write, Current, Announced, Covered
<1>9. CASE WriteThrows
  BY <1>f, <1>9 DEF WriteThrows
<1>10. CASE Announce
  <2> DEFINE e == [candidate |-> job.candidate, spec |-> Target, derived |-> DerivedPath]
  <2>1. /\ pc = "derive" /\ pc' = "next" /\ discovered' = Append(discovered, e)
        /\ UNCHANGED <<input, hydration, queue>>
    BY <1>10 DEF Announce
  <2>2. e \in Announcements
    BY <1>t, <2>1, JobFacts, Typed DEF Announcements
  <2>3. e.candidate = job.candidate
    OBVIOUS
  <2> HIDE DEF e
  <2>4. Range(discovered') = Range(discovered) \cup {e}
    BY <1>t, <2>1, <2>2, AppendedRange
  <2>5. Announced' = Announced \cup {job.candidate}
    BY <2>3, <2>4 DEF Announced
  <2>6. Current = {job.candidate}
    BY <2>1 DEF Current
  <2>7. summary'.failed = summary.failed
    BY <1>10, <1>t, CountExport DEF Announce
  <2> QED
    BY <1>s, <1>t, <2>1, <2>5, <2>6, <2>7 DEF Covered
<1>11. CASE DeriveThrows
  BY <1>f, <1>11 DEF DeriveThrows
<1>12. CASE Finish
  BY <1>s, <1>t, <1>12 DEF Finish, Current, Announced, Covered
<1>13. CASE UNCHANGED vars
  BY <1>t, <1>i, <1>13 DEF vars, CoveredInv, Covered, Current, Announced
<1> QED
  BY <1>1, <1>2, <1>3, <1>4, <1>5, <1>6, <1>7, <1>8, <1>9, <1>10, <1>11,
     <1>12, <1>13 DEF Next

\* "discover-many exports every exportable candidate": a finished run without a
\* failure has announced every exportable candidate that hydration can make of the
\* headers within the cap, save of those it dropped: for any number of candidates
\* to a header and any faults.
THEOREM ResolvedIsComplete == Spec => []ResolvedMeansComplete
<1>1. CoveredInv => ResolvedMeansComplete
  <2> SUFFICES ASSUME CoveredInv, pc = "done", Status = "resolved",
                      NEW c \in Results(Range(Capped) \ dropped), Exportable(c)
               PROVE  \E d \in Range(discovered) : d.candidate = c
    BY DEF ResolvedMeansComplete
  <2>1. summary.failed = 0
    <3>1. summary.failed \in Nat /\ ~ (summary.failed > 0)
      BY Typed DEF CoveredInv, Counters, Status
    <3> QED
      BY <3>1
  <2>2. waiting = <<>> /\ queue = <<>> /\ Current = {}
    BY DEF CoveredInv, Covered, Current
  <2>3. c \in Range(hydrated)
    <3>1. PICK h \in Range(Capped) \ dropped : c \in Range(Becomes[h])
      BY DEF Results
    <3>2. h \notin Range(waiting)
      BY <2>2, EmptyFacts
    <3> QED
      BY <3>1, <3>2 DEF CoveredInv, Covered
  <2>4. c \in Announced
    BY <2>1, <2>2, <2>3, EmptyFacts DEF CoveredInv, Covered
  <2> QED
    BY <2>4 DEF Announced
<1> QED
  BY CoveredInit, CoveredStep, <1>1, PTL DEF Spec
=============================================================================
