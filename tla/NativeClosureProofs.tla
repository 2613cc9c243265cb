------------------------- MODULE NativeClosureProofs -------------------------
(***************************************************************************)
(* Proofs about NativeClosure for any files, references and ceilings.      *)
(***************************************************************************)
EXTENDS NativeClosure, SequenceFacts, TLAPS

Refs == Files \cup {Away}

QueueItem == [to : Refs, depth : Nat]

\* A reference of a queue that leads to t.
Leads(s, t) == \E i \in DOMAIN s : s[i].to = t

\* A reference that has still to be followed.
Queued(t) == Leads(queue, t)

(***************************************************************************)
(* The frontier of the search: as long as nothing is missing, what has     *)
(* been reached is in the bundle, and what the bundle refers to has been   *)
(* reached or is queued.                                                   *)
(***************************************************************************)
ClosureInv ==
  /\ missing = {} =>
       /\ seen = Bundle
       /\ \A f \in Bundle : \A t \in Range(refs[f]) : t \in seen \/ Queued(t)
  /\ result = "full" => queue = <<>> /\ missing = {}
  /\ pc = "start" => missing = {}

\* What is collected has been reached, which keeps the companions apart.
LimitsInv ==
  /\ {Root} \cup Range(artifacts) \subseteq seen
  /\ BundleWithinLimits

-----------------------------------------------------------------------------
\* The references of a file are queue items that lead where the list says.
LEMMA ItemsFacts ==
  ASSUME NEW f \in Files, refs[f] \in Seq(Refs), NEW d \in Nat
  PROVE  /\ Items(f, d) \in Seq(QueueItem)
         /\ \A t \in Range(refs[f]) : Leads(Items(f, d), t)
<1>1. Items(f, d) \in Seq(QueueItem)
  BY DEF Items, QueueItem
<1>2. DOMAIN refs[f] = 1 .. Len(refs[f])
  OBVIOUS
<1> QED
  BY <1>1, <1>2 DEF Items, Range, Leads

LEMMA RefsTyped ==
  ASSUME refs \in [Files -> RefLists], NEW f \in Files
  PROVE  refs[f] \in Seq(Refs) /\ Range(refs[f]) \subseteq Refs
<1>1. refs[f] \in Seq(Refs)
  BY ConstantsAssumption DEF Refs
<1> QED
  BY <1>1 DEF Range

\* What is queued is at the front or behind it.
LEMMA FrontAndTail ==
  ASSUME TypeOK, queue # <<>>
  PROVE  /\ Front \in QueueItem
         /\ Tail(queue) \in Seq(QueueItem)
         /\ \A t : Queued(t) =>
              \/ t = Front.to
              \/ Leads(Tail(queue), t)
<1>1. queue \in Seq(QueueItem)
  BY DEF TypeOK, QueueItem, Refs
<1>2. Front = queue[1] /\ Front \in QueueItem /\ Tail(queue) \in Seq(QueueItem)
  BY <1>1, HeadTailProperties DEF Front
<1>3. /\ Len(Tail(queue)) = Len(queue) - 1 /\ Len(queue) \in Nat
      /\ \A i \in 1 .. Len(Tail(queue)) : Tail(queue)[i] = queue[i + 1]
  BY <1>1, HeadTailProperties
<1>4. DOMAIN queue = 1 .. Len(queue) /\ DOMAIN Tail(queue) = 1 .. Len(Tail(queue))
  BY <1>1, <1>2
<1>5. ASSUME NEW t, NEW i \in DOMAIN queue, queue[i].to = t
      PROVE  \/ t = Front.to
             \/ \E j \in DOMAIN Tail(queue) : Tail(queue)[j].to = t
  <2>1. CASE i = 1
    BY <2>1, <1>2, <1>5
  <2>2. CASE i # 1
    <3>1. i - 1 \in 1 .. Len(Tail(queue)) /\ Tail(queue)[i - 1] = queue[i]
      BY <2>2, <1>3, <1>4
    <3> QED
      BY <3>1, <1>4, <1>5
  <2> QED
    BY <2>1, <2>2
<1> QED
  BY <1>2, <1>5 DEF Queued, Leads

LEMMA InitInv == Init => TypeOK /\ ClosureInv /\ LimitsInv
<1> SUFFICES ASSUME Init PROVE TypeOK /\ ClosureInv /\ LimitsInv
  OBVIOUS
<1>1. /\ refs \in [Files -> RefLists] /\ size \in Sizes /\ limits \in Limits
      /\ Root \in Files /\ size[Root] \in Nat
  BY ConstantsAssumption DEF Init
<1>2. /\ Items(Root, 1) \in Seq(QueueItem)
      /\ \A t \in Range(refs[Root]) : Leads(Items(Root, 1), t)
  BY <1>1, RefsTyped, ItemsFacts
<1>3. Range(artifacts) = {}
  BY DEF Init, Range
<1>4. TypeOK
  BY <1>1, <1>2 DEF Init, TypeOK, QueueItem, Refs
<1>5. ClosureInv
  BY <1>2, <1>3 DEF Init, ClosureInv, Bundle, Queued
<1>6. LimitsInv
  <2>1. /\ limits.maxFiles \in Nat \ {0} /\ limits.maxTotalBytes \in Nat
        /\ Len(artifacts) = 0 /\ IsInjective(artifacts)
    BY <1>1, ConstantsAssumption DEF Init, IsInjective
  <2> QED
    BY <1>1, <1>3, <2>1 DEF Init, LimitsInv, BundleWithinLimits, Oversized
<1> QED
  BY <1>4, <1>5, <1>6

LEMMA TypeStep == TypeOK /\ [Next]_vars => TypeOK'
<1> SUFFICES ASSUME TypeOK, [Next]_vars PROVE TypeOK'
  OBVIOUS
<1> USE DEF input
<1>1. CASE Start
  <2>1. Range(refs[Root]) \subseteq Refs
    BY RefsTyped, ConstantsAssumption DEF TypeOK
  <2> QED
    BY <1>1, <2>1 DEF Start, TypeOK, Refs
<1>2. CASE Miss
  BY <1>2, FrontAndTail DEF Miss, TypeOK, QueueItem, Refs
<1>3. CASE Skip
  BY <1>3, FrontAndTail DEF Skip, TypeOK, QueueItem, Refs
<1>4. CASE Unread
  BY <1>4, FrontAndTail DEF Unread, TypeOK, QueueItem, Refs
<1>5. CASE Collect
  <2>1. Front \in QueueItem /\ Tail(queue) \in Seq(QueueItem)
    BY <1>5, FrontAndTail DEF Collect
  <2>2. Front.to \in Files /\ Front.depth + 1 \in Nat
    BY <1>5, <2>1 DEF Collect, QueueItem
  <2>3. queue' \in Seq(QueueItem)
    <3>1. Items(Front.to, Front.depth + 1) \in Seq(QueueItem)
      BY <2>2, RefsTyped, ItemsFacts DEF TypeOK
    <3> QED
      BY <1>5, <2>1, <3>1 DEF Collect
  <2>4. size[Front.to] \in Nat
    BY <2>2, ConstantsAssumption DEF TypeOK
  <2>5. artifacts' \in Seq(Files) /\ total' \in Nat
    BY <1>5, <2>2, <2>4 DEF Collect, TypeOK
  <2> QED
    BY <1>5, <2>2, <2>3, <2>5 DEF Collect, TypeOK, QueueItem, Refs
<1>6. CASE Conclude
  BY <1>6 DEF Conclude, TypeOK
<1>7. CASE UNCHANGED vars
  BY <1>7 DEF vars, TypeOK
<1> QED
  BY <1>1, <1>2, <1>3, <1>4, <1>5, <1>6, <1>7 DEF Next

\* The variables keep their types, and a verdict is given at the end and only
\* there.
THEOREM TypeCorrect == Spec => []TypeOK
<1>1. Init => TypeOK
  BY InitInv
<1> QED
  BY <1>1, TypeStep, PTL DEF Spec
-----------------------------------------------------------------------------
LEMMA InConcat ==
  ASSUME NEW s1 \in Seq(QueueItem), NEW s2 \in Seq(QueueItem), NEW t,
         Leads(s1, t) \/ Leads(s2, t)
  PROVE  Leads(s1 \o s2, t)
<1> USE DEF Leads
<1>1. /\ Len(s1) \in Nat /\ DOMAIN s1 = 1 .. Len(s1)
      /\ Len(s2) \in Nat /\ DOMAIN s2 = 1 .. Len(s2)
  OBVIOUS
<1>2. /\ DOMAIN (s1 \o s2) = 1 .. Len(s1) + Len(s2)
      /\ \A i \in 1 .. Len(s1) + Len(s2) : (s1 \o s2)[i] =
           IF i <= Len(s1) THEN s1[i] ELSE s2[i - Len(s1)]
  BY ConcatProperties
<1>3. CASE Leads(s1, t)
  BY <1>1, <1>2, <1>3
<1>4. CASE Leads(s2, t)
  <2>1. PICK i \in 1 .. Len(s2) : s2[i].to = t
    BY <1>1, <1>4
  <2>2. /\ Len(s1) + i \in 1 .. Len(s1) + Len(s2)
        /\ (s1 \o s2)[Len(s1) + i] = s2[i]
    BY <1>1, <1>2, <2>1
  <2> QED
    BY <1>2, <2>1, <2>2
<1> QED
  BY <1>3, <1>4

LEMMA ClosureKept == TypeOK /\ ClosureInv /\ [Next]_vars => ClosureInv'
<1> SUFFICES ASSUME TypeOK, ClosureInv, [Next]_vars PROVE ClosureInv'
  OBVIOUS
<1> USE DEF input, ClosureInv, Bundle
<1>1. CASE Start
  <2>1. result' # "full"
    BY <1>1 DEF Start, TypeOK
  <2>2. missing = {}
    BY <1>1 DEF Start
  <2> QED
    BY <1>1, <2>1, <2>2 DEF Start, Queued
<1>2. CASE Miss
  BY <1>2 DEF Miss, TypeOK
<1>3. CASE Skip
  <2>1. \A t : Queued(t) => t \in seen \/ Queued(t)'
    BY <1>3, FrontAndTail DEF Skip, Queued
  <2> QED
    BY <1>3, <2>1 DEF Skip, TypeOK
<1>4. CASE Unread
  BY <1>4 DEF Unread, TypeOK
<1>5. CASE Collect
  <2> DEFINE x == Front.to
             more == Items(x, Front.depth + 1)
  <2>1. /\ Front \in QueueItem /\ Tail(queue) \in Seq(QueueItem) /\ x \in Files
        /\ artifacts \in Seq(Files)
    BY <1>5, FrontAndTail DEF Collect, TypeOK
  <2>2. /\ more \in Seq(QueueItem)
        /\ \A t \in Range(refs[x]) : Leads(more, t)
    <3>1. Front.depth + 1 \in Nat
      BY <2>1 DEF QueueItem
    <3>2. refs[x] \in Seq(Refs)
      BY <2>1, RefsTyped DEF TypeOK
    <3> QED
      BY <2>1, <3>1, <3>2, ItemsFacts
  <2>3. queue' = Tail(queue) \o more
    BY <1>5 DEF Collect
  <2> HIDE DEF more
  <2>4. ASSUME NEW t, t \in Range(refs[x]) PROVE Queued(t)'
    BY <2>1, <2>2, <2>3, <2>4, InConcat DEF Queued
  <2>5. ASSUME NEW t, Queued(t) PROVE t = x \/ Queued(t)'
    <3>1. CASE Leads(Tail(queue), t)
      BY <2>1, <2>2, <2>3, <3>1, InConcat DEF Queued
    <3>2. t = x \/ Leads(Tail(queue), t)
      BY <1>5, <2>5, FrontAndTail DEF Collect
    <3> QED
      BY <3>1, <3>2
  <2>6. Bundle' = Bundle \cup {x}
    BY <1>5, <2>1, AppendedRange DEF Collect
  <2>7. seen' = seen \cup {x} /\ missing' = missing /\ refs' = refs
    BY <1>5 DEF Collect
  <2>8. result' # "full" /\ pc' # "start"
    BY <1>5 DEF Collect, TypeOK
  <2>9. missing' = {} =>
          /\ seen' = Bundle'
          /\ \A f \in Bundle' : \A t \in Range(refs'[f]) :
               t \in seen' \/ Queued(t)'
    BY <2>4, <2>5, <2>6, <2>7
  <2> QED
    BY <2>8, <2>9
<1>6. CASE Conclude
  BY <1>6 DEF Conclude, Queued
<1>7. CASE UNCHANGED vars
  BY <1>7 DEF vars, Queued
<1> QED
  BY <1>1, <1>2, <1>3, <1>4, <1>5, <1>6, <1>7 DEF Next

\* An export that is full leaves no reference of any of its files open,
\* however the files refer to each other and whichever ceilings apply.
THEOREM FullIsClosed == Spec => []FullMeansClosed
<1>1. Init => ClosureInv
  BY InitInv
<1>2. TypeOK /\ ClosureInv => FullMeansClosed
  BY DEF ClosureInv, FullMeansClosed, Bundle, Queued, Leads
<1> QED
  BY <1>1, <1>2, ClosureKept, TypeCorrect, PTL DEF Spec

-----------------------------------------------------------------------------
LEMMA LimitsStep == TypeOK /\ LimitsInv /\ [Next]_vars => LimitsInv'
<1> SUFFICES ASSUME TypeOK, LimitsInv, [Next]_vars PROVE LimitsInv'
  OBVIOUS
<1> USE DEF input, LimitsInv, BundleWithinLimits, Oversized
<1>1. CASE Start \/ Miss \/ Skip \/ Unread \/ Conclude \/ UNCHANGED vars
  BY <1>1 DEF Start, Miss, Skip, Unread, Conclude, vars
<1>2. CASE Collect
  <2> DEFINE x == Front.to
  <2>1. /\ artifacts \in Seq(Files) /\ x \in Files /\ x \notin seen
        /\ artifacts' = Append(artifacts, x)
        /\ UNCHANGED <<refs, size, limits, readable>>
    BY <1>2 DEF Collect, TypeOK
  <2>2. Range(artifacts') = Range(artifacts) \cup {x}
    BY <2>1, AppendedRange
  <2>3. /\ Len(artifacts') = Len(artifacts) + 1 /\ Len(artifacts) \in Nat
        /\ DOMAIN artifacts = 1 .. Len(artifacts)
        /\ DOMAIN artifacts' = 1 .. Len(artifacts')
        /\ \A i \in 1 .. Len(artifacts) : artifacts'[i] = artifacts[i]
        /\ artifacts'[Len(artifacts')] = x
    BY <2>1
  <2>4. x \notin Range(artifacts)
    BY <2>1
  <2>5. IsInjective(artifacts')
    BY <2>3, <2>4 DEF IsInjective, Range
  <2>6. limits.maxFiles \in Nat /\ Len(artifacts') < limits.maxFiles
    BY <1>2, <2>3, ConstantsAssumption DEF Collect, Beyond, TypeOK
  <2>7. /\ total' <= limits.maxTotalBytes
        /\ x \in readable /\ size[x] <= limits.maxBytesPerFile
    BY <1>2 DEF Collect, Fits
  <2> QED
    BY <1>2, <2>1, <2>2, <2>5, <2>6, <2>7 DEF Collect
<1> QED
  BY <1>1, <1>2 DEF Next

\* A bundle never holds a file twice and never exceeds the ceilings.
THEOREM LimitsHold == Spec => []BundleWithinLimits
<1>1. Init => LimitsInv
  BY InitInv
<1>2. LimitsInv => BundleWithinLimits
  BY DEF LimitsInv
<1> QED
  BY <1>1, <1>2, LimitsStep, TypeCorrect, PTL DEF Spec

-----------------------------------------------------------------------------
(* How far the files are from the root.                                    *)

\* The files that files of X refer to.
Referred(R, X) == { t \in Files : \E f \in X : t \in Range(R[f]) }

\* h satisfies the recursive definition of the files within k hops.
IsHops(h, R) ==
  h = [k \in Nat |->
         IF k = 0 THEN {Root}
         ELSE h[k - 1] \cup { t \in Files : \E f \in h[k - 1] : t \in Range(R[f]) }]

Hops(R) == CHOOSE h : IsHops(h, R)

LEMMA WithinHops == \A n : Within(n) = Hops(refs)[n]
BY Zenon DEF Within, Hops, IsHops

\* A path over n references.
IsPath(p, R, n) ==
  /\ p \in [0 .. n -> Files] /\ p[0] = Root
  /\ \A i \in 0 .. n - 1 : p[i + 1] \in Range(R[p[i]])

Reached(R, k) == { t \in Files : \E n \in 0 .. k : \E p : IsPath(p, R, n) /\ p[n] = t }

\* The files at the end of paths satisfy the definition.
LEMMA PathsGrow ==
  ASSUME NEW R, NEW k \in Nat
  PROVE  /\ Reached(R, 0) = {Root}
         /\ Reached(R, k + 1) = Reached(R, k) \cup Referred(R, Reached(R, k))
<1>1. Reached(R, 0) = {Root}
  <2>1. IsPath([i \in 0 .. 0 |-> Root], R, 0)
    BY ConstantsAssumption DEF IsPath
  <2>2. Root \in Reached(R, 0)
    <3>1. [i \in 0 .. 0 |-> Root][0] = Root /\ 0 \in 0 .. 0
      OBVIOUS
    <3> QED
      BY <2>1, <3>1, ConstantsAssumption DEF Reached
  <2>3. ASSUME NEW t \in Reached(R, 0) PROVE t = Root
    <3>1. PICK n \in 0 .. 0 : \E p : IsPath(p, R, n) /\ p[n] = t
      BY DEF Reached
    <3>2. n = 0
      OBVIOUS
    <3> QED
      BY <3>1, <3>2 DEF IsPath
  <2> QED
    BY <2>2, <2>3
<1>2. ASSUME NEW t \in Reached(R, k) PROVE t \in Reached(R, k + 1)
  <2>1. PICK n \in 0 .. k : \E p : IsPath(p, R, n) /\ p[n] = t
    BY DEF Reached
  <2>2. n \in 0 .. k + 1 /\ t \in Files
    BY DEF Reached
  <2> QED
    BY <2>1, <2>2 DEF Reached
<1>3. ASSUME NEW t \in Referred(R, Reached(R, k)) PROVE t \in Reached(R, k + 1)
  <2>1. PICK f \in Reached(R, k) : t \in Range(R[f])
    BY DEF Referred
  <2>15. PICK n \in 0 .. k : \E p : IsPath(p, R, n) /\ p[n] = f
    BY DEF Reached
  <2>2. PICK p : IsPath(p, R, n) /\ p[n] = f
    BY <2>15
  <2>3. t \in Files
    BY DEF Referred
  <2> DEFINE q == [i \in 0 .. n + 1 |-> IF i <= n THEN p[i] ELSE t]
  <2>4. IsPath(q, R, n + 1)
    <3>1. q \in [0 .. n + 1 -> Files] /\ q[0] = Root
      BY <2>2, <2>3 DEF IsPath
    <3>2. ASSUME NEW i \in 0 .. n PROVE q[i + 1] \in Range(R[q[i]])
      <4>1. CASE i = n
        <5>1. q[i + 1] = t /\ q[i] = f
          BY <2>2, <4>1
        <5> QED
          BY <2>1, <5>1
      <4>2. CASE i # n
        <5>1. i \in 0 .. n - 1 /\ q[i + 1] = p[i + 1] /\ q[i] = p[i]
          BY <4>2
        <5> QED
          BY <2>2, <5>1 DEF IsPath
      <4> QED
        BY <4>1, <4>2
    <3>3. (n + 1) - 1 = n
      OBVIOUS
    <3> HIDE DEF q
    <3> QED
      BY <3>1, <3>2, <3>3 DEF IsPath
  <2>5. q[n + 1] = t /\ n + 1 \in 0 .. k + 1
    OBVIOUS
  <2> HIDE DEF q
  <2> QED
    BY <2>3, <2>4, <2>5 DEF Reached
<1>4. ASSUME NEW t \in Reached(R, k + 1)
      PROVE  t \in Reached(R, k) \cup Referred(R, Reached(R, k))
  <2>0. PICK n \in 0 .. k + 1 : \E p : IsPath(p, R, n) /\ p[n] = t
    BY DEF Reached
  <2>1. PICK p : IsPath(p, R, n) /\ p[n] = t
    BY <2>0
  <2>2. t \in Files
    BY DEF Reached
  <2>3. CASE n <= k
    <3>1. n \in 0 .. k
      BY <2>3
    <3> QED
      BY <2>1, <2>2, <3>1 DEF Reached
  <2>4. CASE ~ (n <= k)
    <3>1. n = k + 1 /\ k \in 0 .. k /\ k \in 0 .. n - 1
      BY <2>4
    <3> DEFINE q == [i \in 0 .. k |-> p[i]]
    <3>2. IsPath(q, R, k)
      <4>1. q \in [0 .. k -> Files] /\ q[0] = Root
        BY <2>1, <3>1 DEF IsPath
      <4>2. ASSUME NEW i \in 0 .. k - 1 PROVE q[i + 1] \in Range(R[q[i]])
        <5>1. i \in 0 .. n - 1 /\ q[i + 1] = p[i + 1] /\ q[i] = p[i]
          BY <3>1
        <5> QED
          BY <2>1, <5>1 DEF IsPath
      <4> HIDE DEF q
      <4> QED
        BY <4>1, <4>2 DEF IsPath
    <3>3. q[k] = p[k] /\ p[k] \in Files
      BY <2>1, <3>1 DEF IsPath
    <3> HIDE DEF q
    <3>4. p[k] \in Reached(R, k)
      BY <3>1, <3>2, <3>3 DEF Reached
    <3>5. t \in Range(R[p[k]])
      BY <2>1, <3>1 DEF IsPath
    <3> QED
      BY <2>2, <3>4, <3>5 DEF Referred
  <2> QED
    BY <2>3, <2>4
<1> QED
  BY <1>1, <1>2, <1>3, <1>4

LEMMA HopsUnfold ==
  ASSUME NEW R
  PROVE  /\ Hops(R)[0] = {Root}
         /\ \A k \in Nat : Hops(R)[k + 1] = Hops(R)[k] \cup Referred(R, Hops(R)[k])
<1> DEFINE h == [k \in Nat |-> Reached(R, k)]
<1>1. ASSUME NEW k \in Nat
      PROVE  h[k] = IF k = 0 THEN {Root} ELSE h[k - 1] \cup Referred(R, h[k - 1])
  <2>1. CASE k = 0
    BY <2>1, PathsGrow
  <2>2. CASE k # 0
    <3>1. k - 1 \in Nat /\ (k - 1) + 1 = k
      BY <2>2
    <3>2. Reached(R, (k - 1) + 1) = Reached(R, k - 1) \cup Referred(R, Reached(R, k - 1))
      BY <3>1, PathsGrow
    <3>3. h[k] = Reached(R, k) /\ h[k - 1] = Reached(R, k - 1)
      BY <3>1
    <3> HIDE DEF h
    <3> QED
      BY <2>2, <3>1, <3>2, <3>3
  <2> QED
    BY <2>1, <2>2
<1>2. h = [k \in Nat |-> h[k]]
  OBVIOUS
<1> HIDE DEF h
<1>3. h = [k \in Nat |-> IF k = 0 THEN {Root} ELSE h[k - 1] \cup Referred(R, h[k - 1])]
  BY <1>1, <1>2
<1>4. IsHops(h, R)
  BY <1>3 DEF IsHops, Referred
<1> DEFINE g == Hops(R)
<1>5. IsHops(g, R)
  BY <1>4, Zenon DEF Hops
<1> HIDE DEF g
<1>6. g = [k \in Nat |-> IF k = 0 THEN {Root} ELSE g[k - 1] \cup Referred(R, g[k - 1])]
  BY <1>5 DEF IsHops, Referred
<1>7. \A k \in Nat : g[k] = IF k = 0 THEN {Root} ELSE g[k - 1] \cup Referred(R, g[k - 1])
  BY <1>6
<1>8. g[0] = {Root}
  BY <1>7
<1>9. ASSUME NEW k \in Nat PROVE g[k + 1] = g[k] \cup Referred(R, g[k])
  <2>1. k + 1 \in Nat /\ k + 1 # 0 /\ (k + 1) - 1 = k
    OBVIOUS
  <2>2. g[k + 1] = g[(k + 1) - 1] \cup Referred(R, g[(k + 1) - 1])
    BY <1>7, <2>1
  <2> QED
    BY <2>1, <2>2
<1> QED
  BY <1>8, <1>9 DEF g

\* More hops lead to more files, and never out of a set of files that holds the
\* root and whatever its files refer to.
LEMMA HopsFacts ==
  ASSUME NEW R
  PROVE  /\ \A n \in Nat : Hops(R)[n] \subseteq Files /\ Root \in Hops(R)[n]
         /\ \A m, n \in Nat : m <= n => Hops(R)[m] \subseteq Hops(R)[n]
         /\ \A B : Root \in B /\ Referred(R, B) \subseteq B =>
              \A n \in Nat : Hops(R)[n] \subseteq B
<1> DEFINE h == Hops(R)
<1>1. h[0] = {Root} /\ \A k \in Nat : h[k + 1] = h[k] \cup Referred(R, h[k])
  BY HopsUnfold
<1> HIDE DEF h
<1>2. ASSUME NEW B, Root \in B, Referred(R, B) \subseteq B, NEW n \in Nat
      PROVE  h[n] \subseteq B
  <2> DEFINE T == {k \in 0 .. n : h[k] \subseteq B}
  <2>1. 0 \in T
    BY <1>1, <1>2
  <2>2. ASSUME NEW k \in 0 .. n - 1, k \in T PROVE k + 1 \in T
    <3>1. Referred(R, h[k]) \subseteq Referred(R, B)
      BY <2>2 DEF Referred
    <3>2. h[k + 1] = h[k] \cup Referred(R, h[k])
      BY <1>1
    <3> QED
      BY <1>2, <2>2, <3>1, <3>2
  <2>3. \A k \in 0 .. n : k \in T
    <3> HIDE DEF T
    <3> QED
      BY <2>1, <2>2, Upwards
  <2> QED
    BY <2>3
<1>3. ASSUME NEW n \in Nat PROVE h[n] \subseteq Files
  <2>1. Root \in Files /\ Referred(R, Files) \subseteq Files
    BY ConstantsAssumption DEF Referred
  <2> QED
    BY <1>2, <2>1
<1>4. ASSUME NEW m \in Nat, NEW n \in Nat, m <= n
      PROVE  h[m] \subseteq h[n]
  <2> DEFINE T == {k \in 0 .. n - m : h[m] \subseteq h[m + k]}
  <2>1. 0 \in T
    BY <1>4
  <2>2. ASSUME NEW k \in 0 .. (n - m) - 1, k \in T PROVE k + 1 \in T
    <3>1. m + k \in Nat /\ m + (k + 1) = (m + k) + 1 /\ k + 1 \in 0 .. n - m
      OBVIOUS
    <3>2. h[(m + k) + 1] = h[m + k] \cup Referred(R, h[m + k])
      BY <1>1, <3>1
    <3> QED
      BY <2>2, <3>1, <3>2
  <2>3. n - m \in Nat /\ m + (n - m) = n /\ n - m \in 0 .. n - m
    BY <1>4
  <2>4. \A k \in 0 .. n - m : k \in T
    <3> HIDE DEF T
    <3> QED
      BY <2>1, <2>2, <2>3, Upwards
  <2> QED
    BY <2>3, <2>4
<1>5. ASSUME NEW n \in Nat PROVE Root \in h[n]
  BY <1>1, <1>4
<1> QED
  BY <1>2, <1>3, <1>4, <1>5 DEF h

-----------------------------------------------------------------------------
(* Breadth first search finds exactly what can be reached.                 *)

(***************************************************************************)
(* Breadth first: with nothing missing, the queue holds at most two        *)
(* distances in order, all nearer files have been reached, and what these  *)
(* refer to has been reached too or is queued at the distance of the front.*)
(***************************************************************************)
Breadth(q, s, R) ==
  q # <<>> =>
    /\ q[1].depth # 0
    /\ \A i \in DOMAIN q : q[1].depth <= q[i].depth /\ q[i].depth <= q[1].depth + 1
    /\ \A i, j \in DOMAIN q : i < j => q[i].depth <= q[j].depth
    /\ Hops(R)[q[1].depth - 1] \subseteq s
    /\ \A t \in Referred(R, Hops(R)[q[1].depth - 1]) :
         t \in s \/ \E i \in DOMAIN q : q[i].to = t /\ q[i].depth = q[1].depth

LEMMA BreadthKept ==
  ASSUME NEW R, NEW s,
         NEW q \in Seq(QueueItem), q # <<>>, Breadth(q, s, R),
         NEW more \in Seq(QueueItem), \A i \in DOMAIN more : more[i].depth = q[1].depth + 1,
         \A f \in s \cup {q[1].to} : \A t \in Range(R[f]) :
           t \in s \cup {q[1].to} \/ Leads(Tail(q) \o more, t)
  PROVE  Breadth(Tail(q) \o more, s \cup {q[1].to}, R)
<1> DEFINE w == Tail(q) \o more
           x == q[1].to
           d == q[1].depth
           e == w[1].depth
<1>1. /\ Len(q) \in Nat \ {0} /\ DOMAIN q = 1 .. Len(q) /\ q[1] \in QueueItem
      /\ Tail(q) \in Seq(QueueItem) /\ Len(Tail(q)) = Len(q) - 1
      /\ \A i \in 1 .. Len(q) - 1 : Tail(q)[i] = q[i + 1]
  BY HeadTailProperties, EmptySeq, LenProperties
<1>2. /\ w \in Seq(QueueItem) /\ Len(w) = Len(q) - 1 + Len(more) /\ DOMAIN w = 1 .. Len(w)
      /\ Len(more) \in Nat /\ DOMAIN more = 1 .. Len(more)
      /\ \A i \in 1 .. Len(w) :
           w[i] = IF i <= Len(q) - 1 THEN Tail(q)[i] ELSE more[i - (Len(q) - 1)]
  BY <1>1, ConcatProperties, LenProperties
<1> HIDE DEF w
<1>3. /\ d \in Nat \ {0}
      /\ \A i \in 1 .. Len(q) : q[i].depth \in {d, d + 1}
  <2>1. \A i \in 1 .. Len(q) : q[i].depth \in Nat /\ q[1].depth \in Nat
    <3>1. \A i \in 1 .. Len(q) : q[i] \in QueueItem
      BY ElementOfSeq
    <3> QED
      BY <1>1, <3>1 DEF QueueItem
  <2>2. d # 0 /\ \A i \in 1 .. Len(q) : d <= q[i].depth /\ q[i].depth <= d + 1
    BY <1>1 DEF Breadth
  <2> QED
    BY <1>1, <2>1, <2>2
<1>4. \A i \in 1 .. Len(w) :
        \/ i <= Len(q) - 1 /\ i + 1 \in 1 .. Len(q) /\ w[i] = q[i + 1]
        \/ ~ (i <= Len(q) - 1) /\ w[i].depth = d + 1
  <2> SUFFICES ASSUME NEW i \in 1 .. Len(w)
               PROVE  \/ i <= Len(q) - 1 /\ i + 1 \in 1 .. Len(q) /\ w[i] = q[i + 1]
                      \/ ~ (i <= Len(q) - 1) /\ w[i].depth = d + 1
    OBVIOUS
  <2>1. CASE i <= Len(q) - 1
    <3>1. i \in 1 .. Len(q) - 1 /\ i + 1 \in 1 .. Len(q)
      BY <1>1, <2>1
    <3> QED
      BY <1>1, <1>2, <2>1, <3>1
  <2>2. CASE ~ (i <= Len(q) - 1)
    <3>1. i - (Len(q) - 1) \in 1 .. Len(more)
      BY <1>1, <1>2, <2>2
    <3> QED
      BY <1>2, <2>2, <3>1
  <2> QED
    BY <2>1, <2>2
<1>5. \A i \in 1 .. Len(w) : w[i].depth \in {d, d + 1}
  BY <1>3, <1>4
<1>6. \A i, j \in 1 .. Len(w) : i < j => w[i].depth <= w[j].depth
  <2> SUFFICES ASSUME NEW i \in 1 .. Len(w), NEW j \in 1 .. Len(w), i < j
               PROVE  w[i].depth <= w[j].depth
    OBVIOUS
  <2>1. CASE j <= Len(q) - 1
    <3>1. i <= Len(q) - 1 /\ i + 1 < j + 1
      BY <1>1, <2>1
    <3>2. w[i] = q[i + 1] /\ w[j] = q[j + 1] /\ i + 1 \in DOMAIN q /\ j + 1 \in DOMAIN q
      BY <1>1, <1>4, <2>1, <3>1
    <3> QED
      BY <3>1, <3>2 DEF Breadth
  <2>2. CASE ~ (j <= Len(q) - 1)
    <3>1. w[j].depth = d + 1
      BY <1>4, <2>2
    <3> QED
      BY <1>3, <1>5, <3>1
  <2> QED
    BY <2>1, <2>2
<1> SUFFICES ASSUME w # <<>>
             PROVE  /\ e # 0
                    /\ \A i \in DOMAIN w : e <= w[i].depth /\ w[i].depth <= e + 1
                    /\ \A i, j \in DOMAIN w : i < j => w[i].depth <= w[j].depth
                    /\ Hops(R)[e - 1] \subseteq s \cup {x}
                    /\ \A t \in Referred(R, Hops(R)[e - 1]) :
                         \/ t \in s \cup {x}
                         \/ \E i \in DOMAIN w : w[i].to = t /\ w[i].depth = e
  BY DEF Breadth, w
<1>7. Len(w) \in Nat /\ 1 \in 1 .. Len(w) /\ e \in {d, d + 1}
  BY <1>2, <1>5, EmptySeq, LenProperties
<1>8. \A i \in 1 .. Len(w) : e <= w[i].depth /\ w[i].depth <= e + 1
  <2> SUFFICES ASSUME NEW i \in 1 .. Len(w)
               PROVE  e <= w[i].depth /\ w[i].depth <= e + 1
    OBVIOUS
  <2>1. i = 1 \/ 1 < i
    BY <1>7
  <2>2. e <= w[i].depth
    BY <1>3, <1>6, <1>7, <2>1
  <2> QED
    BY <1>3, <1>5, <1>7, <2>2
<1>9. CASE e = d
  <2>1. Hops(R)[e - 1] \subseteq s
    BY <1>9 DEF Breadth
  <2>2. ASSUME NEW t \in Referred(R, Hops(R)[e - 1]), t \notin s \cup {x}
        PROVE  \E i \in DOMAIN w : w[i].to = t /\ w[i].depth = e
    <3>1. PICK i \in 1 .. Len(q) : q[i].to = t /\ q[i].depth = d
      BY <1>1, <1>9, <2>2 DEF Breadth
    <3>2. i # 1
      BY <2>2, <3>1
    <3>3. i - 1 \in 1 .. Len(w) /\ i - 1 <= Len(q) - 1 /\ (i - 1) + 1 = i
      BY <1>1, <1>2, <3>2
    <3>4. w[i - 1] = q[i]
      BY <1>4, <3>3
    <3> QED
      BY <1>2, <1>9, <3>1, <3>3, <3>4
  <2> QED
    BY <1>2, <1>3, <1>6, <1>8, <1>9, <2>1, <2>2
<1>10. CASE e = d + 1
  <2>1. \A i \in 1 .. Len(w) : w[i].depth = e
    BY <1>3, <1>5, <1>8, <1>10
  <2>2. d - 1 \in Nat /\ (d - 1) + 1 = d /\ e - 1 = d
    BY <1>3, <1>10
  <2>3. Hops(R)[d] = Hops(R)[d - 1] \cup Referred(R, Hops(R)[d - 1])
    BY <2>2, HopsUnfold
  <2>4. Hops(R)[d] \subseteq s \cup {x}
    <3>1. ASSUME NEW t \in Referred(R, Hops(R)[d - 1]) PROVE t \in s \cup {x}
      <4>1. CASE t \in s
        BY <4>1
      <4>2. CASE t \notin s
        <5>1. PICK i \in 1 .. Len(q) : q[i].to = t /\ q[i].depth = d
          BY <1>1, <3>1, <4>2 DEF Breadth
        <5>2. CASE i = 1
          BY <5>1, <5>2
        <5>3. CASE i # 1
          <6>1. i - 1 \in 1 .. Len(w) /\ i - 1 <= Len(q) - 1 /\ (i - 1) + 1 = i
            BY <1>1, <1>2, <5>3
          <6>2. w[i - 1] = q[i]
            BY <1>4, <6>1
          <6> QED
            BY <1>3, <1>10, <2>1, <5>1, <6>1, <6>2
        <5> QED
          BY <5>2, <5>3
      <4> QED
        BY <4>1, <4>2
    <3>2. Hops(R)[d - 1] \subseteq s
      BY DEF Breadth
    <3> QED
      BY <2>3, <3>1, <3>2
  <2>5. ASSUME NEW t \in Referred(R, Hops(R)[d]), t \notin s \cup {x}
        PROVE  \E i \in DOMAIN w : w[i].to = t /\ w[i].depth = e
    <3>1. PICK f \in Hops(R)[d] : t \in Range(R[f])
      BY DEF Referred
    <3>2. Leads(w, t)
      BY <2>4, <2>5, <3>1 DEF w
    <3> QED
      BY <1>2, <2>1, <3>2 DEF Leads
  <2>6. /\ Hops(R)[e - 1] \subseteq s \cup {x}
        /\ \A t \in Referred(R, Hops(R)[e - 1]) :
             \/ t \in s \cup {x}
             \/ \E i \in DOMAIN w : w[i].to = t /\ w[i].depth = e
    <3> HIDE DEF d, e, x
    <3> QED
      BY <2>2, <2>4, <2>5
  <2>7. e # 0
    BY <1>3, <1>10
  <2> QED
    BY <1>2, <1>6, <1>8, <2>6, <2>7
<1> QED
  BY <1>7, <1>9, <1>10

\* What Complete says, of any references, sizes, ceilings and readable files.
Whole(R, S, L, A) ==
  /\ \A f \in Hops(R)[L.maxDepth] : Range(R[f]) \subseteq Hops(R)[L.maxDepth]
  /\ Hops(R)[L.maxDepth] \subseteq A
  /\ Cardinality(Hops(R)[L.maxDepth]) <= L.maxFiles
  /\ \A f \in Hops(R)[L.maxDepth] : S[f] <= L.maxBytesPerFile
  /\ Total(S, Hops(R)[L.maxDepth]) <= L.maxTotalBytes

LEMMA CompleteIsWhole == Complete <=> Whole(refs, size, limits, readable)
<1>1. Complete <=>
        LET closure == Hops(refs)[limits.maxDepth]
        IN  /\ \A f \in closure : Range(refs[f]) \subseteq closure
            /\ closure \subseteq readable
            /\ Cardinality(closure) <= limits.maxFiles
            /\ \A f \in closure : size[f] <= limits.maxBytesPerFile
            /\ Total(size, closure) <= limits.maxTotalBytes
  BY WithinHops DEF Complete, Total
<1> QED
  BY <1>1 DEF Whole

\* A file that is queued is as far from the root as the queue says, by way of a
\* file of the bundle.
Sourced(q, bundle, R) ==
  \A i \in DOMAIN q :
    /\ q[i].depth # 0
    /\ \E f \in bundle \cap Hops(R)[q[i].depth - 1] : q[i].to \in Range(R[f])

(***************************************************************************)
(* The search finds what there is to be found: the bundle stays within the *)
(* hops allowed and is measured exactly, and if all that can be reached is *)
(* there and fits, nothing is ever missing.                                *)
(***************************************************************************)
SearchInv ==
  /\ Root \in readable
  /\ pc = "scan" => ~ Oversized
  /\ Cardinality(Bundle) = 1 + Len(artifacts)
  /\ total = Total(size, Bundle)
  /\ Bundle \subseteq Hops(refs)[limits.maxDepth]
  /\ Sourced(queue, Bundle, refs)
  /\ missing = {} => Breadth(queue, seen, refs)
  /\ Whole(refs, size, limits, readable) => missing = {}
  /\ pc = "done" /\ Oversized => result = "partial"
  /\ pc = "done" /\ ~ Oversized /\ missing = {} /\ Root \notin Range(refs[Root]) =>
       result = "full"

LEMMA Numbers ==
  ASSUME TypeOK
  PROVE  /\ limits.maxFiles \in Nat \ {0} /\ limits.maxDepth \in Nat
         /\ limits.maxBytesPerFile \in Nat /\ limits.maxTotalBytes \in Nat
         /\ total \in Nat /\ Root \in Files /\ IsFiniteSet(Files)
         /\ size \in [Files -> Nat]
         /\ Bundle \subseteq Files
<1>1. artifacts \in Seq(Files) /\ limits \in Limits /\ size \in Sizes /\ total \in Nat
  BY DEF TypeOK
<1>2. \A i \in DOMAIN artifacts : artifacts[i] \in Files
  BY <1>1
<1> QED
  BY <1>1, <1>2, ConstantsAssumption DEF Bundle, Range

LEMMA HopsFinite ==
  ASSUME NEW R, NEW n \in Nat
  PROVE  IsFiniteSet(Hops(R)[n]) /\ Hops(R)[n] \subseteq Files
BY HopsFacts, FS_Subset, ConstantsAssumption

LEMMA WholeFits ==
  ASSUME TypeOK, Whole(refs, size, limits, readable)
  PROVE  ~ Oversized
<1> DEFINE C == Hops(refs)[limits.maxDepth]
<1>1. Root \in C /\ C \subseteq Files /\ IsFiniteSet(C)
  BY Numbers, HopsFacts, HopsFinite
<1>2. size[Root] <= limits.maxBytesPerFile /\ Total(size, C) <= limits.maxTotalBytes
  BY <1>1 DEF Whole
<1>3. \A x \in C : size[x] \in Nat
  BY <1>1, Numbers
<1> HIDE DEF C
<1>4. Total(size, C) = size[Root] + Total(size, C \ {Root})
  BY <1>1, <1>3, TotalSplits
<1>5. Total(size, C \ {Root}) \in Nat /\ Total(size, C) \in Nat /\ size[Root] \in Nat
  BY <1>1, <1>3, TotalType
<1>6. size[Root] <= limits.maxTotalBytes
  BY <1>2, <1>4, <1>5, Numbers
<1> QED
  BY <1>2, <1>5, <1>6, Numbers DEF Oversized

LEMMA SearchStarts == Init => SearchInv
<1> SUFFICES ASSUME Init PROVE SearchInv
  OBVIOUS
<1>1. TypeOK /\ Range(artifacts) = {} /\ Bundle = {Root} /\ Len(artifacts) = 0
  BY InitInv DEF Init, Range, Bundle
<1>2. Cardinality(Bundle) = 1 + Len(artifacts)
  <2>1. Cardinality({Root}) = 1
    BY FS_Singleton
  <2> QED
    BY <1>1, <2>1
<1>3. total = Total(size, Bundle)
  <2>1. \A x \in {Root} : size[x] \in Nat
    BY <1>1, Numbers
  <2>2. Total(size, {Root}) = size[Root] + Total(size, {Root} \ {Root})
    BY <2>1, FS_Singleton, TotalSplits
  <2>3. {Root} \ {Root} = {}
    OBVIOUS
  <2>4. Total(size, {Root}) = size[Root] + 0
    BY <2>2, <2>3, TotalEmpty
  <2> QED
    BY <1>1, <2>1, <2>4 DEF Init
<1>4. Bundle \subseteq Hops(refs)[limits.maxDepth]
  BY <1>1, Numbers, HopsFacts
<1>5. /\ DOMAIN queue = 1 .. Len(refs[Root])
      /\ \A i \in DOMAIN queue : queue[i].to = refs[Root][i] /\ queue[i].depth = 1
      /\ DOMAIN refs[Root] = 1 .. Len(refs[Root])
      /\ Hops(refs)[1 - 1] = {Root}
  <2>1. refs[Root] \in Seq(Refs)
    BY <1>1, RefsTyped, Numbers DEF TypeOK
  <2> QED
    BY <2>1, HopsUnfold DEF Init, Items
<1>6. Sourced(queue, Bundle, refs)
  BY <1>1, <1>5 DEF Sourced, Range
<1>7. Breadth(queue, seen, refs)
  <2>1. seen = {Root}
    BY DEF Init
  <2>2. queue # <<>> => 1 \in DOMAIN queue /\ queue[1].depth = 1
    <3>1. queue \in Seq(QueueItem)
      BY <1>1 DEF TypeOK, QueueItem, Refs
    <3> QED
      BY <1>5, <3>1
  <2>3. \A t \in Referred(refs, {Root}) : \E i \in DOMAIN queue : queue[i].to = t /\ queue[i].depth = 1
    BY <1>5 DEF Referred, Range
  <2>4. CASE queue # <<>>
    <3>1. queue[1].depth = 1 /\ Hops(refs)[queue[1].depth - 1] = {Root}
      BY <1>5, <2>2, <2>4
    <3>2. \A i \in DOMAIN queue : queue[i].depth = 1
      BY <1>5
    <3>3. /\ queue[1].depth # 0
          /\ \A i \in DOMAIN queue :
               queue[1].depth <= queue[i].depth /\ queue[i].depth <= queue[1].depth + 1
          /\ \A i, j \in DOMAIN queue : i < j => queue[i].depth <= queue[j].depth
      BY <3>1, <3>2
    <3>4. \A t \in Referred(refs, Hops(refs)[queue[1].depth - 1]) :
            \E i \in DOMAIN queue : queue[i].to = t /\ queue[i].depth = queue[1].depth
      BY <2>3, <3>1
    <3>5. Hops(refs)[queue[1].depth - 1] \subseteq seen
      BY <2>1, <3>1
    <3> QED
      BY <3>3, <3>4, <3>5 DEF Breadth
  <2>5. CASE queue = <<>>
    BY <2>5 DEF Breadth
  <2> QED
    BY <2>4, <2>5
<1> QED
  BY <1>2, <1>3, <1>4, <1>6, <1>7 DEF SearchInv, Init

\* What stays as long as no file is added to the bundle.
LEMMA SameBundle ==
  ASSUME artifacts' = artifacts, UNCHANGED input, total' = total
  PROVE  /\ Bundle' = Bundle
         /\ Cardinality(Bundle)' = Cardinality(Bundle)
         /\ Total(size, Bundle)' = Total(size, Bundle)
         /\ Hops(refs)' = Hops(refs)
         /\ (Oversized <=> Oversized')
         /\ (Whole(refs, size, limits, readable) <=> Whole(refs, size, limits, readable)')
<1>1. Bundle' = Bundle
  BY DEF Bundle
<1>2. refs' = refs /\ size' = size /\ limits' = limits /\ readable' = readable
  BY DEF input
<1> QED
  BY <1>1, <1>2 DEF Oversized

\* A reference at the front leads to a file that is one hop further than a file
\* of the bundle.
LEMMA FrontFacts ==
  ASSUME TypeOK, SearchInv, queue # <<>>
  PROVE  /\ queue \in Seq(QueueItem) /\ Front = queue[1] /\ Front \in QueueItem
         /\ Front.depth \in Nat \ {0}
         /\ \E f \in Bundle : Front.to \in Range(refs[f])
         /\ Front.to \in Files => Front.to \in Hops(refs)[Front.depth]
         /\ Sourced(Tail(queue), Bundle, refs)
<1>1. queue \in Seq(QueueItem) /\ 1 \in DOMAIN queue /\ Front = queue[1] /\ Front \in QueueItem
  <2>1. queue \in Seq(QueueItem)
    BY DEF TypeOK, QueueItem, Refs
  <2> QED
    BY <2>1, HeadTailProperties, EmptySeq, LenProperties DEF Front
<1>2. Front.depth \in Nat \ {0}
  BY <1>1 DEF SearchInv, Sourced, QueueItem
<1>3. PICK f \in Bundle \cap Hops(refs)[Front.depth - 1] : Front.to \in Range(refs[f])
  BY <1>1 DEF SearchInv, Sourced
<1>4. Front.to \in Files => Front.to \in Hops(refs)[Front.depth]
  <2>1. Front.depth - 1 \in Nat /\ (Front.depth - 1) + 1 = Front.depth
    BY <1>2
  <2>2. Hops(refs)[(Front.depth - 1) + 1] =
          Hops(refs)[Front.depth - 1] \cup Referred(refs, Hops(refs)[Front.depth - 1])
    BY <2>1, HopsUnfold
  <2> QED
    BY <1>3, <2>1, <2>2 DEF Referred
<1>5. Sourced(Tail(queue), Bundle, refs)
  <2>1. /\ DOMAIN queue = 1 .. Len(queue) /\ Len(queue) \in Nat \ {0}
        /\ DOMAIN Tail(queue) = 1 .. Len(queue) - 1
        /\ \A i \in 1 .. Len(queue) - 1 : Tail(queue)[i] = queue[i + 1]
    BY <1>1, HeadTailProperties, EmptySeq, LenProperties
  <2>2. \A i \in 1 .. Len(queue) - 1 : i + 1 \in DOMAIN queue
    BY <2>1
  <2> QED
    BY <2>1, <2>2 DEF Sourced, SearchInv
<1> QED
  BY <1>1, <1>2, <1>3, <1>4, <1>5

\* If all that can be reached is there and fits, a reference is never missing.
LEMMA NothingMissed ==
  ASSUME TypeOK, ClosureInv, LimitsInv, SearchInv, pc = "scan", queue # <<>>,
         Whole(refs, size, limits, readable)
  PROVE  /\ Front.to # Away
         /\ Front.to \in Files \ seen => ~ Beyond(Front) /\ Fits(Front.to)
<1> DEFINE C == Hops(refs)[limits.maxDepth]
           x == Front.to
<1>1. missing = {} /\ seen = Bundle /\ Breadth(queue, seen, refs) /\ Bundle \subseteq C
  BY DEF SearchInv, ClosureInv
<1>2. C \subseteq Files /\ IsFiniteSet(C)
  BY Numbers, HopsFinite
<1>3. x \in C
  <2>1. PICK f \in Bundle : x \in Range(refs[f])
    BY FrontFacts
  <2> QED
    BY <1>1, <2>1 DEF Whole
<1>4. x # Away
  BY <1>2, <1>3, ConstantsAssumption
<1>5. ASSUME x \notin seen
      PROVE  ~ Beyond(Front) /\ Fits(x)
  <2>1. Front.depth <= limits.maxDepth
    <3> SUFFICES ASSUME limits.maxDepth < Front.depth PROVE FALSE
      BY FrontFacts, Numbers
    <3>1. Front.depth - 1 \in Nat /\ limits.maxDepth <= Front.depth - 1
      BY FrontFacts, Numbers
    <3>2. C \subseteq Hops(refs)[Front.depth - 1]
      BY <3>1, Numbers, HopsFacts
    <3>3. Hops(refs)[Front.depth - 1] \subseteq seen
      BY <1>1, FrontFacts DEF Breadth
    <3> QED
      BY <1>3, <1>5, <3>2, <3>3
  <2> DEFINE more == Bundle \cup {x}
  <2>2. more \in SUBSET C /\ IsFiniteSet(more) /\ IsFiniteSet(Bundle) /\ x \notin Bundle
    BY <1>1, <1>2, <1>3, <1>5, FS_Subset
  <2>3. 1 + Len(artifacts) < limits.maxFiles
    <3>1. Cardinality(more) = Cardinality(Bundle) + 1
      BY <2>2, FS_AddElement
    <3>2. Cardinality(more) <= Cardinality(C) /\ Cardinality(C) <= limits.maxFiles
      BY <1>2, <2>2, FS_Subset DEF Whole
    <3>3. Cardinality(Bundle) = 1 + Len(artifacts) /\ Len(artifacts) \in Nat
      BY DEF SearchInv, TypeOK
    <3>4. Cardinality(C) \in Nat
      BY <1>2, FS_CardinalityType
    <3> HIDE DEF C, more
    <3> QED
      BY <3>1, <3>2, <3>3, <3>4, Numbers
  <2>4. total + size[x] <= limits.maxTotalBytes
    <3>1. \A f \in C : size[f] \in Nat
      BY <1>2, Numbers
    <3>2. more \ {x} = Bundle /\ x \in more
      BY <2>2
    <3> HIDE DEF C, more
    <3>3. Total(size, more) = size[x] + Total(size, Bundle)
      BY <1>2, <2>2, <3>1, <3>2, TotalSplits
    <3>4. Total(size, more) <= Total(size, C)
      BY <1>2, <2>2, <3>1, TotalGrows
    <3>5. Total(size, C) <= limits.maxTotalBytes
      BY DEF Whole, C
    <3>6. Total(size, more) \in Nat /\ Total(size, C) \in Nat /\ size[x] \in Nat
      BY <1>2, <1>3, <2>2, <3>1, TotalType
    <3>7. total = Total(size, Bundle)
      BY DEF SearchInv
    <3> HIDE DEF x
    <3> QED
      BY <3>3, <3>4, <3>5, <3>6, <3>7, Numbers
  <2>5. x \in readable /\ size[x] <= limits.maxBytesPerFile
    BY <1>3 DEF Whole
  <2>6. ~ Beyond(Front)
    BY <2>1, <2>3, FrontFacts, Numbers DEF Beyond, TypeOK
  <2> QED
    BY <2>4, <2>5, <2>6 DEF Fits
<1> QED
  BY <1>4, <1>5

LEMMA StartSearches ==
  ASSUME TypeOK, ClosureInv, SearchInv, Start
  PROVE  SearchInv'
<1>1. UNCHANGED <<input, queue, seen, artifacts, total>>
  BY DEF Start
<1>2. Whole(refs, size, limits, readable) => ~ Oversized
  BY WholeFits
<1>3. missing = {} /\ Breadth(queue, seen, refs)
  BY DEF ClosureInv, Start, SearchInv
<1> HIDE DEF Oversized
<1>4. CASE Oversized
  BY <1>1, <1>2, <1>3, <1>4, SameBundle DEF Start, SearchInv, input
<1>5. CASE ~ Oversized
  BY <1>1, <1>2, <1>3, <1>5, SameBundle DEF Start, SearchInv, input
<1> QED
  BY <1>4, <1>5

LEMMA MissSearches ==
  ASSUME TypeOK, ClosureInv, LimitsInv, SearchInv, Miss \/ Unread
  PROVE  SearchInv'
<1>1. /\ UNCHANGED <<input, pc, artifacts, total, result>> /\ pc = "scan"
      /\ queue # <<>> /\ queue' = Tail(queue) /\ missing' = missing \cup {Front.to}
  BY DEF Miss, Unread
<1>2. ~ Whole(refs, size, limits, readable)
  <2>1. \/ Front.to = Away
        \/ Front.to \in Files \ seen /\ (Beyond(Front) \/ ~ Fits(Front.to))
    BY DEF Miss, Unread
  <2> QED
    BY <1>1, <2>1, NothingMissed
<1>3. Sourced(Tail(queue), Bundle, refs)
  BY <1>1, FrontFacts
<1>4. missing' # {}
  BY <1>1
<1> QED
  BY <1>1, <1>2, <1>3, <1>4, SameBundle DEF SearchInv, input

LEMMA SkipSearches ==
  ASSUME TypeOK, ClosureInv, ClosureInv', SearchInv, Skip
  PROVE  SearchInv'
<1>1. /\ UNCHANGED <<input, pc, seen, artifacts, missing, total, result>> /\ pc = "scan"
      /\ queue # <<>> /\ queue' = Tail(queue) /\ Front.to \in seen
  BY DEF Skip
<1>2. Sourced(Tail(queue), Bundle, refs)
  BY <1>1, FrontFacts
<1>3. ASSUME missing = {} PROVE Breadth(Tail(queue), seen, refs)
  <2>1. Breadth(queue, seen, refs) /\ Front = queue[1] /\ queue \in Seq(QueueItem)
    BY <1>1, <1>3, FrontFacts DEF SearchInv
  <2>2. Tail(queue) \o <<>> = Tail(queue) /\ <<>> \in Seq(QueueItem) /\ DOMAIN <<>> = {}
    BY <1>1, <2>1, ConcatEmptySeq, HeadTailProperties, EmptySeq
  <2>3. seen \cup {Front.to} = seen
    BY <1>1
  <2>4. \A f \in seen : \A t \in Range(refs[f]) : t \in seen \/ Leads(Tail(queue), t)
    <3>1. /\ seen' = Bundle' /\ Bundle' = Bundle /\ refs' = refs
          /\ \A f \in Bundle' : \A t \in Range(refs'[f]) : t \in seen' \/ Queued(t)'
      BY <1>1, <1>3 DEF ClosureInv, input, Bundle
    <3>2. \A t : Queued(t)' <=> Leads(Tail(queue), t)
      BY <1>1 DEF Queued
    <3> QED
      BY <1>1, <3>1, <3>2
  <2>5. Breadth(Tail(queue) \o <<>>, seen \cup {Front.to}, refs)
    BY <1>1, <2>1, <2>2, <2>3, <2>4, BreadthKept
  <2> QED
    BY <2>2, <2>3, <2>5
<1> QED
  BY <1>1, <1>2, <1>3, SameBundle DEF SearchInv, input

LEMMA SourcedConcat ==
  ASSUME NEW R, NEW bundle, NEW q1 \in Seq(QueueItem), NEW q2 \in Seq(QueueItem),
         Sourced(q1, bundle, R), Sourced(q2, bundle, R)
  PROVE  Sourced(q1 \o q2, bundle, R)
<1>1. /\ Len(q1) \in Nat /\ DOMAIN q1 = 1 .. Len(q1)
      /\ Len(q2) \in Nat /\ DOMAIN q2 = 1 .. Len(q2)
  BY LenProperties
<1>2. /\ DOMAIN (q1 \o q2) = 1 .. Len(q1) + Len(q2)
      /\ \A i \in 1 .. Len(q1) + Len(q2) : (q1 \o q2)[i] =
           IF i <= Len(q1) THEN q1[i] ELSE q2[i - Len(q1)]
  BY ConcatProperties
<1>3. \A i \in 1 .. Len(q1) + Len(q2) :
        \/ \E j \in DOMAIN q1 : (q1 \o q2)[i] = q1[j]
        \/ \E j \in DOMAIN q2 : (q1 \o q2)[i] = q2[j]
  <2> SUFFICES ASSUME NEW i \in 1 .. Len(q1) + Len(q2)
               PROVE  \/ \E j \in DOMAIN q1 : (q1 \o q2)[i] = q1[j]
                      \/ \E j \in DOMAIN q2 : (q1 \o q2)[i] = q2[j]
    OBVIOUS
  <2>1. CASE i <= Len(q1)
    BY <1>1, <1>2, <2>1
  <2>2. CASE ~ (i <= Len(q1))
    <3>1. i - Len(q1) \in DOMAIN q2
      BY <1>1, <2>2
    <3> QED
      BY <1>2, <2>2, <3>1
  <2> QED
    BY <2>1, <2>2
<1> QED
  BY <1>2, <1>3 DEF Sourced

LEMMA CollectSearches ==
  ASSUME TypeOK, ClosureInv, ClosureInv', LimitsInv, SearchInv, Collect
  PROVE  SearchInv'
<1> DEFINE x == Front.to
           d == Front.depth
           more == Items(x, d + 1)
<1>1. /\ UNCHANGED <<input, pc, missing, result>> /\ pc = "scan" /\ queue # <<>>
      /\ x \in Files \ seen /\ ~ Beyond(Front)
      /\ seen' = seen \cup {x} /\ artifacts' = Append(artifacts, x)
      /\ total' = total + size[x] /\ queue' = Tail(queue) \o more
  BY DEF Collect
<1>2. /\ queue \in Seq(QueueItem) /\ Front = queue[1] /\ d \in Nat \ {0} /\ x \in Hops(refs)[d]
      /\ Sourced(Tail(queue), Bundle, refs) /\ Tail(queue) \in Seq(QueueItem)
  BY <1>1, FrontFacts, HeadTailProperties
<1>3. UNCHANGED <<refs, size, limits, readable>>
  BY <1>1 DEF input
<1>4. /\ Bundle' = Bundle \cup {x} /\ Len(artifacts') = Len(artifacts) + 1
      /\ Len(artifacts) \in Nat
  BY <1>1, AppendedRange, AppendProperties DEF Bundle, TypeOK
<1>5. x \notin Bundle /\ IsFiniteSet(Bundle) /\ Bundle \subseteq Files
  BY <1>1, Numbers, FS_Subset DEF LimitsInv, Bundle
<1>6. Cardinality(Bundle') = 1 + Len(artifacts')
  <2>1. Cardinality(Bundle \cup {x}) = Cardinality(Bundle) + 1
    BY <1>5, FS_AddElement
  <2>2. Cardinality(Bundle) = 1 + Len(artifacts)
    BY DEF SearchInv
  <2> QED
    BY <1>4, <2>1, <2>2
<1>7. total' = Total(size, Bundle')
  <2> DEFINE B == Bundle \cup {x}
  <2>1. IsFiniteSet(B) /\ x \in B /\ B \ {x} = Bundle /\ \A f \in B : size[f] \in Nat
    BY <1>1, <1>5, Numbers, FS_AddElement
  <2> HIDE DEF B
  <2>2. Total(size, B) = size[x] + Total(size, Bundle)
    BY <2>1, TotalSplits
  <2>3. total = Total(size, Bundle) /\ total \in Nat /\ size[x] \in Nat
    BY <2>1, Numbers DEF SearchInv
  <2>4. total' = Total(size, B)
    BY <1>1, <2>2, <2>3
  <2> QED
    BY <1>4, <2>4 DEF B
<1>8. Bundle' \subseteq Hops(refs)[limits.maxDepth]
  <2>1. d <= limits.maxDepth
    BY <1>1, <1>2, Numbers DEF Beyond
  <2>2. Hops(refs)[d] \subseteq Hops(refs)[limits.maxDepth]
    BY <1>2, <2>1, Numbers, HopsFacts
  <2> QED
    BY <1>2, <1>4, <2>2 DEF SearchInv
<1>9. /\ more \in Seq(QueueItem)
      /\ \A i \in DOMAIN more : more[i].depth = d + 1 /\ more[i].to \in Range(refs[x])
  <2>1. refs[x] \in Seq(Refs) /\ d + 1 \in Nat
    BY <1>1, <1>2, RefsTyped DEF TypeOK
  <2>2. DOMAIN refs[x] = 1 .. Len(refs[x])
    BY <2>1
  <2> QED
    BY <1>1, <2>1, <2>2, ItemsFacts DEF Items, Range
<1> HIDE DEF more, d, x
<1>10. Sourced(queue', Bundle', refs)
  <2>1. Sourced(Tail(queue), Bundle', refs)
    BY <1>2, <1>4 DEF Sourced
  <2>2. Sourced(more, Bundle', refs)
    <3>1. (d + 1) - 1 = d /\ d + 1 # 0
      BY <1>2
    <3>2. x \in Bundle' \cap Hops(refs)[d]
      BY <1>2, <1>4
    <3> QED
      BY <1>9, <3>1, <3>2 DEF Sourced
  <2> QED
    BY <1>1, <1>2, <1>9, <2>1, <2>2, SourcedConcat
<1>11. ASSUME missing = {} PROVE Breadth(queue', seen', refs)
  <2>1. Breadth(queue, seen, refs)
    BY <1>11 DEF SearchInv
  <2>2. \A f \in seen' : \A t \in Range(refs[f]) : t \in seen' \/ Leads(queue', t)
    <3>1. /\ seen' = Bundle' /\ refs' = refs
          /\ \A f \in Bundle' : \A t \in Range(refs'[f]) : t \in seen' \/ Queued(t)'
      BY <1>1, <1>3, <1>11 DEF ClosureInv
    <3>2. \A t : Queued(t)' <=> Leads(queue', t)
      BY DEF Queued
    <3> QED
      BY <3>1, <3>2
  <2>3. x = queue[1].to /\ d = queue[1].depth
    BY <1>2 DEF x, d
  <2>4. Breadth(Tail(queue) \o more, seen \cup {queue[1].to}, refs)
    BY <1>1, <1>2, <1>9, <2>1, <2>2, <2>3, BreadthKept
  <2> QED
    BY <1>1, <2>3, <2>4
<1>12. Whole(refs, size, limits, readable)' <=> Whole(refs, size, limits, readable)
  BY <1>3
<1>13. Oversized' <=> Oversized
  BY <1>3 DEF Oversized
<1> QED
  BY <1>1, <1>3, <1>6, <1>7, <1>8, <1>10, <1>11, <1>12, <1>13 DEF SearchInv

LEMMA ConcludeSearches ==
  ASSUME TypeOK, ClosureInv, LimitsInv, SearchInv, Conclude
  PROVE  SearchInv'
<1>1. /\ UNCHANGED <<input, queue, seen, artifacts, missing, total>> /\ pc = "scan"
      /\ pc' = "done" /\ queue = <<>>
      /\ result' = IF missing = {} /\ \A ref \in Range(refs[Root]) : Covered(ref)
                   THEN "full" ELSE "partial"
  BY DEF Conclude
<1>2. ~ Oversized
  BY <1>1 DEF SearchInv
<1>3. ASSUME missing = {}, Root \notin Range(refs[Root])
      PROVE  result' = "full"
  <2> SUFFICES ASSUME NEW ref \in Range(refs[Root]) PROVE Covered(ref)
    BY <1>1, <1>3
  <2>1. ~ Queued(ref)
    BY <1>1 DEF Queued, Leads
  <2>2. ref \in Bundle
    BY <1>3, <2>1 DEF ClosureInv, Bundle
  <2>3. ref \in Range(artifacts) /\ ref \in Files
    BY <1>3, <2>2, Numbers DEF Bundle
  <2> QED
    BY <2>3 DEF Covered
<1> QED
  BY <1>1, <1>2, <1>3, SameBundle DEF SearchInv, input

LEMMA SearchStep ==
  ASSUME TypeOK, ClosureInv, ClosureInv', LimitsInv, SearchInv, [Next]_vars
  PROVE  SearchInv'
<1>1. CASE UNCHANGED vars
  BY <1>1, SameBundle DEF vars, SearchInv, input
<1> QED
  BY <1>1, StartSearches, MissSearches, SkipSearches, CollectSearches, ConcludeSearches
     DEF Next

LEMMA VerdictIsRight ==
  ASSUME TypeOK, ClosureInv, LimitsInv, SearchInv
  PROVE  FullIffComplete
<1> SUFFICES ASSUME pc = "done", Root \notin Range(refs[Root])
             PROVE  result = "full" <=> Whole(refs, size, limits, readable)
  BY CompleteIsWhole DEF FullIffComplete
<1> DEFINE C == Hops(refs)[limits.maxDepth]
<1>1. ASSUME Whole(refs, size, limits, readable) PROVE result = "full"
  BY <1>1, WholeFits DEF SearchInv
<1>2. ASSUME result = "full" PROVE Whole(refs, size, limits, readable)
  <2>1. missing = {} /\ queue = <<>> /\ seen = Bundle
    BY <1>2 DEF ClosureInv
  <2>2. ~ Oversized
    BY <1>2 DEF SearchInv
  <2>3. \A f \in Bundle : Range(refs[f]) \subseteq Bundle
    BY <2>1 DEF ClosureInv, Queued, Leads
  <2>4. C = Bundle
    <3>1. Root \in Bundle /\ Referred(refs, Bundle) \subseteq Bundle
      BY <2>3 DEF Bundle, Referred
    <3>2. C \subseteq Bundle
      BY <3>1, Numbers, HopsFacts
    <3> QED
      BY <3>2 DEF SearchInv
  <2>5. \A f \in Bundle : f \in readable /\ size[f] <= limits.maxBytesPerFile
    <3>1. Root \in readable /\ size[Root] <= limits.maxBytesPerFile
      BY <2>2, Numbers DEF SearchInv, Oversized
    <3> QED
      BY <3>1 DEF Bundle, LimitsInv, BundleWithinLimits
  <2>6. Cardinality(Bundle) <= limits.maxFiles
    <3>1. Cardinality(Bundle) = 1 + Len(artifacts) /\ Len(artifacts) \in Nat
      BY DEF SearchInv, TypeOK
    <3>2. Len(artifacts) < limits.maxFiles
      BY DEF LimitsInv, BundleWithinLimits
    <3> QED
      BY <3>1, <3>2, Numbers
  <2>7. Total(size, Bundle) <= limits.maxTotalBytes
    BY <2>2 DEF SearchInv, LimitsInv, BundleWithinLimits
  <2> QED
    BY <2>3, <2>4, <2>5, <2>6, <2>7 DEF Whole
<1> QED
  BY <1>1, <1>2

\* An export is full exactly if all that can be reached from the root, each by a
\* path within the ceiling on hops, is there and fits: cycles, repeated
\* references and the order of references never decide.
THEOREM FullIffWhole == Spec => []FullIffComplete
<1>1. Init => TypeOK /\ ClosureInv /\ LimitsInv /\ SearchInv
  BY InitInv, SearchStarts
<1>2. TypeOK /\ ClosureInv /\ LimitsInv /\ SearchInv /\ [Next]_vars
        => ClosureInv' /\ LimitsInv' /\ SearchInv'
  BY ClosureKept, LimitsStep, SearchStep
<1>3. TypeOK /\ ClosureInv /\ LimitsInv /\ SearchInv => FullIffComplete
  BY VerdictIsRight
<1> QED
  BY <1>1, <1>2, <1>3, TypeCorrect, TypeStep, PTL DEF Spec
===============================================================================
