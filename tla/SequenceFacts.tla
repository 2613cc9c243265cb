----------------------------- MODULE SequenceFacts -----------------------------
(***************************************************************************)
(* Facts that several proofs need: induction over an interval and over the *)
(* subsets of a finite set, what the recursively defined Filter returns,   *)
(* and how a sum over a set changes with the set.                          *)
(***************************************************************************)
EXTENDS Filters, Functions, FiniteSetTheorems, SequenceTheorems, WellFoundedInduction, TLAPS

\* Induction over 0 .. N, stated for the set of the numbers a fact holds of.
LEMMA Upwards ==
  ASSUME NEW N \in Nat, NEW T, 0 \in T,
         \A n \in 0 .. N - 1 : n \in T => n + 1 \in T
  PROVE  \A n \in 0 .. N : n \in T
<1> DEFINE Rest == {n \in 0 .. N : n \notin T}
<1> SUFFICES ASSUME Rest # {} PROVE FALSE
  OBVIOUS
<1>1. Rest \subseteq Nat
  OBVIOUS
<1>2. PICK n \in Rest : \A m \in Rest : ~ (<<m, n>> \in OpToRel(<, Nat))
  <2> HIDE DEF Rest
  <2> QED
    BY <1>1, NatLessThanWellFounded, WFMin
<1>3. \A m \in Rest : ~ (m < n)
  BY <1>1, <1>2 DEF OpToRel
<1>4. n # 0 /\ n - 1 \in 0 .. N - 1
  OBVIOUS
<1>5. n - 1 \in T
  BY <1>3, <1>4
<1> QED
  BY <1>4, <1>5

-----------------------------------------------------------------------------
\* k satisfies the recursive definition of Kept up to N.
IsKept(k, s, K, N) ==
  k = [n \in 0 .. N |->
         IF n = 0 THEN <<>>
         ELSE IF s[n] \in K THEN Append(k[n - 1], s[n])
         ELSE k[n - 1]]

LEMMA KeptAt ==
  ASSUME NEW s, NEW K, NEW N \in Nat, NEW k, IsKept(k, s, K, N), NEW n \in 0 .. N
  PROVE  k[n] = IF n = 0 THEN <<>>
                ELSE IF s[n] \in K THEN Append(k[n - 1], s[n])
                ELSE k[n - 1]
  BY DEF IsKept

LEMMA KeptGrows ==
  ASSUME NEW s, NEW K, NEW N \in Nat, NEW k, IsKept(k, s, K, N)
  PROVE  \E g : IsKept(g, s, K, N + 1)
<1> DEFINE g == [n \in 0 .. N + 1 |->
                   IF n <= N THEN k[n]
                   ELSE IF s[n] \in K THEN Append(k[N], s[n]) ELSE k[N]]
<1>1. ASSUME NEW n \in 0 .. N + 1
      PROVE  g[n] = IF n = 0 THEN <<>>
                    ELSE IF s[n] \in K THEN Append(g[n - 1], s[n])
                    ELSE g[n - 1]
  <2>0. \A m \in 0 .. N : k[m] = IF m = 0 THEN <<>>
                                 ELSE IF s[m] \in K THEN Append(k[m - 1], s[m])
                                 ELSE k[m - 1]
    BY DEF IsKept
  <2>1. CASE n = 0
    BY <2>0, <2>1
  <2>2. CASE n # 0 /\ n <= N
    <3>1. n \in 0 .. N /\ n - 1 \in 0 .. N + 1 /\ n - 1 <= N
      BY <2>2
    <3>2. g[n - 1] = k[n - 1] /\ g[n] = k[n]
      BY <2>2, <3>1
    <3> QED
      BY <2>0, <2>2, <3>1, <3>2
  <2>3. CASE n = N + 1
    <3>1. n - 1 = N /\ N \in 0 .. N + 1 /\ n # 0 /\ ~ (n <= N)
      BY <2>3
    <3>2. g[n - 1] = k[N] /\ g[n] = IF s[n] \in K THEN Append(k[N], s[n]) ELSE k[N]
      BY <3>1
    <3> QED
      BY <3>1, <3>2
  <2> QED
    BY <2>1, <2>2, <2>3
<1>2. g = [n \in 0 .. N + 1 |-> g[n]]
  OBVIOUS
<1> HIDE DEF g
<1>3. [n \in 0 .. N + 1 |-> g[n]] =
        [n \in 0 .. N + 1 |->
           IF n = 0 THEN <<>>
           ELSE IF s[n] \in K THEN Append(g[n - 1], s[n])
           ELSE g[n - 1]]
  BY <1>1
<1> QED
  BY <1>2, <1>3 DEF IsKept

\* The recursive definition of Kept has a solution, so that Kept is one.
LEMMA KeptUnfolds ==
  ASSUME NEW s, NEW K, Len(s) \in Nat
  PROVE  IsKept(Kept(s, K), s, K, Len(s))
<1> DEFINE T == {N \in 0 .. Len(s) : \E k : IsKept(k, s, K, N)}
<1>1. 0 \in T
  <2>1. IsKept([n \in 0 .. 0 |-> <<>>], s, K, 0)
    BY DEF IsKept
  <2> QED
    BY <2>1
<1>2. ASSUME NEW N \in 0 .. Len(s) - 1, N \in T
      PROVE  N + 1 \in T
  BY <1>2, KeptGrows
<1>3. \A N \in 0 .. Len(s) : N \in T
  <2> HIDE DEF T
  <2> QED
    BY <1>1, <1>2, Upwards
<1>4. PICK k : IsKept(k, s, K, Len(s))
  BY <1>3
<1>5. Kept(s, K) = CHOOSE g : IsKept(g, s, K, Len(s))
  BY Zenon DEF Kept, IsKept
<1> QED
  BY <1>4, <1>5, Zenon

LEMMA KeptStep ==
  ASSUME NEW s, NEW K, Len(s) \in Nat
  PROVE  /\ Kept(s, K)[0] = <<>>
         /\ \A n \in 0 .. Len(s) - 1 :
              Kept(s, K)[n + 1] = IF s[n + 1] \in K
                                  THEN Append(Kept(s, K)[n], s[n + 1])
                                  ELSE Kept(s, K)[n]
<1>1. Kept(s, K)[0] = <<>>
  BY KeptUnfolds DEF IsKept
<1>2. ASSUME NEW n \in 0 .. Len(s) - 1
      PROVE  Kept(s, K)[n + 1] = IF s[n + 1] \in K
                                 THEN Append(Kept(s, K)[n], s[n + 1])
                                 ELSE Kept(s, K)[n]
  <2>1. n + 1 \in 0 .. Len(s) /\ n + 1 # 0 /\ (n + 1) - 1 = n
    OBVIOUS
  <2>2. Kept(s, K)[n + 1] = IF n + 1 = 0 THEN <<>>
                            ELSE IF s[n + 1] \in K
                            THEN Append(Kept(s, K)[(n + 1) - 1], s[n + 1])
                            ELSE Kept(s, K)[(n + 1) - 1]
    <3> DEFINE k == Kept(s, K)
    <3>1. IsKept(k, s, K, Len(s))
      BY KeptUnfolds
    <3> HIDE DEF k
    <3>2. k[n + 1] = IF n + 1 = 0 THEN <<>>
                     ELSE IF s[n + 1] \in K THEN Append(k[(n + 1) - 1], s[n + 1])
                     ELSE k[(n + 1) - 1]
      BY <2>1, <3>1, KeptAt
    <3> QED
      BY <3>2 DEF k
  <2> QED
    BY <2>1, <2>2
<1> QED
  BY <1>1, <1>2

\* Appending an element adds it to the range.
LEMMA AppendedRange ==
  ASSUME NEW S, NEW seq \in Seq(S), NEW elt
  PROVE  Range(Append(seq, elt)) = Range(seq) \cup {elt}
<1>1. seq \in Seq(S \cup {elt}) /\ elt \in S \cup {elt}
  OBVIOUS
<1>2. /\ DOMAIN seq = 1 .. Len(seq)
      /\ Len(seq) \in Nat
      /\ DOMAIN Append(seq, elt) = 1 .. Len(seq) + 1
  BY <1>1, AppendProperties, LenProperties
<1>3. \A i \in 1 .. Len(seq) : Append(seq, elt)[i] = seq[i]
  BY <1>1, AppendProperties
<1>4. Append(seq, elt)[Len(seq) + 1] = elt
  BY <1>1, AppendProperties
<1>5. 1 .. Len(seq) + 1 = (1 .. Len(seq)) \cup {Len(seq) + 1}
  BY <1>2
<1> QED
  BY <1>2, <1>3, <1>4, <1>5 DEF Range

\* The elements of a sequence that lie in a set.
LEMMA FilterRange ==
  ASSUME NEW S, NEW s \in Seq(S), NEW K
  PROVE  /\ Filter(s, K) \in Seq(S)
         /\ Range(Filter(s, K)) = Range(s) \cap K
<1> DEFINE Front(n) == {s[i] : i \in 1 .. n}
           P(n) ==
             /\ Kept(s, K)[n] \in Seq(S)
             /\ Range(Kept(s, K)[n]) = Front(n) \cap K
           T == {n \in 0 .. Len(s) : P(n)}
<1>0. Len(s) \in Nat /\ DOMAIN s = 1 .. Len(s) /\ \A i \in 1 .. Len(s) : s[i] \in S
  BY LenProperties, ElementOfSeq
<1>1. 0 \in T
  <2>1. Kept(s, K)[0] = <<>>
    BY <1>0, KeptStep
  <2>2. <<>> \in Seq(S) /\ Range(<<>>) = {} /\ Front(0) = {}
    BY DEF Range
  <2>3. P(0)
    BY <2>1, <2>2
  <2> HIDE DEF P
  <2> QED
    BY <1>0, <2>3
<1>2. ASSUME NEW n \in 0 .. Len(s) - 1, n \in T
      PROVE  n + 1 \in T
  <2>1. Front(n + 1) = Front(n) \cup {s[n + 1]} /\ s[n + 1] \in S
    BY <1>0
  <2>2. CASE s[n + 1] \in K
    <3>1. Kept(s, K)[n + 1] = Append(Kept(s, K)[n], s[n + 1])
      BY <1>0, <2>2, KeptStep
    <3>2. Kept(s, K)[n + 1] \in Seq(S)
      BY <1>2, <2>1, <3>1, AppendProperties
    <3>3. Range(Kept(s, K)[n + 1]) = Range(Kept(s, K)[n]) \cup {s[n + 1]}
      BY <1>2, <3>1, AppendedRange
    <3> QED
      BY <1>0, <1>2, <2>1, <2>2, <3>2, <3>3
  <2>3. CASE s[n + 1] \notin K
    <3>1. Kept(s, K)[n + 1] = Kept(s, K)[n]
      BY <1>0, <2>3, KeptStep
    <3> QED
      BY <1>0, <1>2, <2>1, <2>3, <3>1
  <2> QED
    BY <2>2, <2>3
<1>3. \A n \in 0 .. Len(s) : n \in T
  <2> HIDE DEF T
  <2> QED
    BY <1>0, <1>1, <1>2, Upwards
<1>4. Front(Len(s)) = Range(s)
  BY <1>0 DEF Range
<1>5. P(Len(s))
  <2> HIDE DEF P
  <2> QED
    BY <1>0, <1>3
<1> QED
  BY <1>4, <1>5 DEF Filter

\* One more element.
LEMMA KeptLength ==
  ASSUME NEW S, NEW s \in Seq(S), NEW K, NEW n \in 0 .. Len(s) - 1,
         Kept(s, K)[n] \in Seq(S)
  PROVE  /\ Kept(s, K)[n + 1] \in Seq(S)
         /\ Len(Kept(s, K)[n]) \in Nat
         /\ Len(Kept(s, K)[n + 1]) = IF s[n + 1] \in K THEN Len(Kept(s, K)[n]) + 1
                                     ELSE Len(Kept(s, K)[n])
<1>0. Len(s) \in Nat /\ s[n + 1] \in S
  BY LenProperties, ElementOfSeq
<1>1. CASE s[n + 1] \in K
  <2>1. Kept(s, K)[n + 1] = Append(Kept(s, K)[n], s[n + 1])
    BY <1>0, <1>1, KeptStep
  <2> QED
    BY <1>0, <1>1, <2>1, AppendProperties, LenProperties
<1>2. CASE s[n + 1] \notin K
  <2>1. Kept(s, K)[n + 1] = Kept(s, K)[n]
    BY <1>0, <1>2, KeptStep
  <2> QED
    BY <1>2, <2>1, LenProperties
<1> QED
  BY <1>1, <1>2

LEMMA KeptEmpty ==
  ASSUME NEW S, NEW s \in Seq(S), NEW K
  PROVE  Kept(s, K)[0] \in Seq(S) /\ Len(Kept(s, K)[0]) = 0
<1>1. Len(s) \in Nat
  BY LenProperties
<1>2. Kept(s, K)[0] = <<>>
  BY <1>1, KeptStep
<1>3. <<>> \in Seq(S) /\ Len(<<>>) = 0
  OBVIOUS
<1> QED
  BY <1>2, <1>3

\* A filter takes at most all, and all exactly when every element passes.
LEMMA FilterLength ==
  ASSUME NEW S, NEW s \in Seq(S), NEW K
  PROVE  /\ Len(Filter(s, K)) \in 0 .. Len(s)
         /\ Len(Filter(s, K)) = Len(s) <=> \A i \in DOMAIN s : s[i] \in K
<1> DEFINE In(n) == Len(Kept(s, K)[n])
           P(n) ==
             /\ Kept(s, K)[n] \in Seq(S)
             /\ In(n) \in 0 .. n
             /\ In(n) = n <=> \A i \in 1 .. n : s[i] \in K
           T == {n \in 0 .. Len(s) : P(n)}
<1>0. Len(s) \in Nat /\ DOMAIN s = 1 .. Len(s)
  BY LenProperties
<1>1. 0 \in T
  <2>1. P(0)
    BY KeptEmpty
  <2> HIDE DEF P
  <2> QED
    BY <1>0, <2>1
<1>2. ASSUME NEW n \in 0 .. Len(s) - 1, n \in T
      PROVE  n + 1 \in T
  <2>1. /\ Kept(s, K)[n + 1] \in Seq(S)
        /\ In(n) \in Nat
        /\ In(n + 1) = IF s[n + 1] \in K THEN In(n) + 1 ELSE In(n)
    BY <1>2, KeptLength
  <2>2. In(n) \in 0 .. n /\ (In(n) = n <=> \A i \in 1 .. n : s[i] \in K)
    BY <1>2
  <2>3. 1 .. n + 1 = (1 .. n) \cup {n + 1}
    BY <1>0
  <2>4. /\ In(n + 1) \in 0 .. n + 1
        /\ In(n + 1) = n + 1 <=> \A i \in 1 .. n + 1 : s[i] \in K
    <3> HIDE DEF In
    <3>1. CASE s[n + 1] \in K
      BY <1>0, <2>1, <2>2, <2>3, <3>1
    <3>2. CASE s[n + 1] \notin K
      BY <1>0, <2>1, <2>2, <2>3, <3>2
    <3> QED
      BY <3>1, <3>2
  <2>5. P(n + 1)
    BY <2>1, <2>4
  <2> HIDE DEF P
  <2> QED
    BY <1>0, <2>5
<1>3. \A n \in 0 .. Len(s) : n \in T
  <2> HIDE DEF T
  <2> QED
    BY <1>0, <1>1, <1>2, Upwards
<1>4. P(Len(s))
  <2> HIDE DEF P
  <2> QED
    BY <1>0, <1>3
<1> QED
  BY <1>0, <1>4 DEF Filter

\* Two sets without a common element take what their union takes.
LEMMA FilterUnion ==
  ASSUME NEW S, NEW s \in Seq(S), NEW K, NEW L, K \cap L = {}
  PROVE  Len(Filter(s, K)) + Len(Filter(s, L)) = Len(Filter(s, K \cup L))
<1> DEFINE In(M, n) == Len(Kept(s, M)[n])
           P(n) ==
             /\ Kept(s, K)[n] \in Seq(S) /\ Kept(s, L)[n] \in Seq(S)
             /\ Kept(s, K \cup L)[n] \in Seq(S)
             /\ In(K, n) + In(L, n) = In(K \cup L, n)
           T == {n \in 0 .. Len(s) : P(n)}
<1>0. Len(s) \in Nat
  BY LenProperties
<1>1. 0 \in T
  <2>1. P(0)
    <3>1. /\ Kept(s, K)[0] \in Seq(S) /\ In(K, 0) = 0
          /\ Kept(s, L)[0] \in Seq(S) /\ In(L, 0) = 0
          /\ Kept(s, K \cup L)[0] \in Seq(S) /\ In(K \cup L, 0) = 0
      BY KeptEmpty
    <3> HIDE DEF In
    <3> QED
      BY <3>1
  <2> HIDE DEF P
  <2> QED
    BY <1>0, <2>1
<1>2. ASSUME NEW n \in 0 .. Len(s) - 1, n \in T
      PROVE  n + 1 \in T
  <2>1. ASSUME NEW M, Kept(s, M)[n] \in Seq(S)
        PROVE  /\ Kept(s, M)[n + 1] \in Seq(S)
               /\ In(M, n) \in Nat
               /\ In(M, n + 1) = IF s[n + 1] \in M THEN In(M, n) + 1 ELSE In(M, n)
    BY <2>1, KeptLength
  <2>2. /\ Kept(s, K)[n + 1] \in Seq(S)
        /\ In(K, n) \in Nat
        /\ In(K, n + 1) = IF s[n + 1] \in K THEN In(K, n) + 1 ELSE In(K, n)
    BY <1>2, <2>1
  <2>3. /\ Kept(s, L)[n + 1] \in Seq(S)
        /\ In(L, n) \in Nat
        /\ In(L, n + 1) = IF s[n + 1] \in L THEN In(L, n) + 1 ELSE In(L, n)
    BY <1>2, <2>1
  <2>4. /\ Kept(s, K \cup L)[n + 1] \in Seq(S)
        /\ In(K \cup L, n) \in Nat
        /\ In(K \cup L, n + 1) = IF s[n + 1] \in K \cup L
                                 THEN In(K \cup L, n) + 1 ELSE In(K \cup L, n)
    BY <1>2, <2>1
  <2>5. In(K, n) + In(L, n) = In(K \cup L, n)
    BY <1>2
  <2>6. In(K, n + 1) + In(L, n + 1) = In(K \cup L, n + 1)
    <3>1. ~ (s[n + 1] \in K /\ s[n + 1] \in L)
      OBVIOUS
    <3> HIDE DEF In
    <3> QED
      BY <2>2, <2>3, <2>4, <2>5, <3>1
  <2>7. P(n + 1)
    BY <2>2, <2>3, <2>4, <2>6
  <2> HIDE DEF P
  <2> QED
    BY <1>0, <2>7
<1>3. \A n \in 0 .. Len(s) : n \in T
  <2> HIDE DEF T
  <2> QED
    BY <1>0, <1>1, <1>2, Upwards
<1>4. P(Len(s))
  <2> HIDE DEF P
  <2> QED
    BY <1>0, <1>3
<1> QED
  BY <1>4 DEF Filter

\* A sequence without repetitions stays one.
LEMMA FilterInjective ==
  ASSUME NEW S, NEW s \in Seq(S), NEW K, IsInjective(s)
  PROVE  IsInjective(Filter(s, K))
<1> DEFINE Front(n) == {s[i] : i \in 1 .. n}
           P(n) ==
             /\ Kept(s, K)[n] \in Seq(S)
             /\ Range(Kept(s, K)[n]) \subseteq Front(n)
             /\ IsInjective(Kept(s, K)[n])
           T == {n \in 0 .. Len(s) : P(n)}
<1>0. Len(s) \in Nat /\ DOMAIN s = 1 .. Len(s) /\ \A i \in 1 .. Len(s) : s[i] \in S
  BY LenProperties, ElementOfSeq
<1>1. 0 \in T
  <2>1. Kept(s, K)[0] = <<>>
    BY <1>0, KeptStep
  <2>2. <<>> \in Seq(S) /\ Range(<<>>) = {} /\ IsInjective(<<>>)
    BY DEF Range, IsInjective
  <2>3. P(0)
    BY <2>1, <2>2
  <2> HIDE DEF P
  <2> QED
    BY <1>0, <2>3
<1>2. ASSUME NEW n \in 0 .. Len(s) - 1, n \in T
      PROVE  n + 1 \in T
  <2>1. Front(n) \subseteq Front(n + 1) /\ s[n + 1] \in Front(n + 1) /\ s[n + 1] \in S
    BY <1>0
  <2>2. CASE s[n + 1] \in K
    <3> DEFINE k == Kept(s, K)[n]
    <3>1. Kept(s, K)[n + 1] = Append(k, s[n + 1])
      BY <1>0, <2>2, KeptStep
    <3>2. Kept(s, K)[n + 1] \in Seq(S)
      BY <1>2, <2>1, <3>1, AppendProperties
    <3>3. Range(Kept(s, K)[n + 1]) = Range(k) \cup {s[n + 1]}
      BY <1>2, <3>1, AppendedRange
    <3>4. s[n + 1] \notin Front(n)
      BY <1>0 DEF IsInjective
    <3>5. s[n + 1] \notin Range(k)
      BY <1>2, <3>4
    <3>6. /\ DOMAIN k = 1 .. Len(k) /\ Len(k) \in Nat
          /\ DOMAIN Append(k, s[n + 1]) = 1 .. Len(k) + 1
          /\ \A i \in 1 .. Len(k) : Append(k, s[n + 1])[i] = k[i]
          /\ Append(k, s[n + 1])[Len(k) + 1] = s[n + 1]
      BY <1>2, <2>1, AppendProperties, LenProperties
    <3>7. \A i \in 1 .. Len(k) : k[i] # s[n + 1]
      BY <3>5, <3>6 DEF Range
    <3>8. IsInjective(k)
      BY <1>2
    <3> HIDE DEF k
    <3>9. IsInjective(Append(k, s[n + 1]))
      BY <3>6, <3>7, <3>8 DEF IsInjective
    <3>10. Range(k) \subseteq Front(n)
      BY <1>2 DEF k
    <3>11. /\ IsInjective(Kept(s, K)[n + 1])
           /\ Range(Kept(s, K)[n + 1]) \subseteq Front(n + 1)
      BY <2>1, <3>1, <3>3, <3>9, <3>10 DEF k
    <3> QED
      BY <1>0, <3>2, <3>11
  <2>3. CASE s[n + 1] \notin K
    <3>1. Kept(s, K)[n + 1] = Kept(s, K)[n]
      BY <1>0, <2>3, KeptStep
    <3> QED
      BY <1>0, <1>2, <2>1, <3>1
  <2> QED
    BY <2>2, <2>3
<1>3. \A n \in 0 .. Len(s) : n \in T
  <2> HIDE DEF T
  <2> QED
    BY <1>0, <1>1, <1>2, Upwards
<1> QED
  BY <1>0, <1>3 DEF Filter

\* The head of a sequence without repetitions is not in its tail.
LEMMA InjectiveTail ==
  ASSUME NEW S, NEW s \in Seq(S), s # <<>>
  PROVE  /\ Range(s) = Range(Tail(s)) \cup {Head(s)}
         /\ IsInjective(s) => IsInjective(Tail(s)) /\ Head(s) \notin Range(Tail(s))
<1>1. /\ Len(s) \in Nat \ {0} /\ DOMAIN s = 1 .. Len(s) /\ Head(s) = s[1]
      /\ Len(Tail(s)) = Len(s) - 1 /\ DOMAIN Tail(s) = 1 .. Len(s) - 1
      /\ \A i \in 1 .. Len(s) - 1 : Tail(s)[i] = s[i + 1]
  BY HeadTailProperties, LenProperties, EmptySeq
<1>2. \A i \in 1 .. Len(s) : i = 1 \/ i - 1 \in 1 .. Len(s) - 1
  BY <1>1
<1>3. \A i \in 1 .. Len(s) - 1 : i + 1 \in 1 .. Len(s) /\ i + 1 # 1
  BY <1>1
<1>4. Range(s) \subseteq Range(Tail(s)) \cup {Head(s)}
  <2> SUFFICES ASSUME NEW i \in 1 .. Len(s) PROVE s[i] \in Range(Tail(s)) \cup {Head(s)}
    BY <1>1 DEF Range
  <2>1. CASE i = 1
    BY <1>1, <2>1
  <2>2. CASE i - 1 \in 1 .. Len(s) - 1
    <3>1. Tail(s)[i - 1] = s[i]
      BY <1>1, <2>2
    <3> QED
      BY <1>1, <2>2, <3>1 DEF Range
  <2> QED
    BY <1>2, <2>1, <2>2
<1>5. Range(Tail(s)) \cup {Head(s)} \subseteq Range(s)
  BY <1>1, <1>3 DEF Range
<1>6. ASSUME IsInjective(s)
      PROVE  IsInjective(Tail(s)) /\ Head(s) \notin Range(Tail(s))
  <2>1. \A i, j \in 1 .. Len(s) - 1 : s[i + 1] = s[j + 1] => i = j
    <3> TAKE i, j \in 1 .. Len(s) - 1
    <3> HAVE s[i + 1] = s[j + 1]
    <3>1. i + 1 = j + 1
      BY <1>1, <1>3, <1>6 DEF IsInjective
    <3> QED
      BY <1>1, <3>1
  <2>2. \A i \in 1 .. Len(s) - 1 : s[i + 1] # s[1]
    BY <1>1, <1>3, <1>6 DEF IsInjective
  <2> QED
    BY <1>1, <2>1, <2>2 DEF IsInjective, Range
<1> QED
  BY <1>4, <1>5, <1>6

\* Two such sequences without a common element, one after the other.
LEMMA InjectiveConcat ==
  ASSUME NEW S, NEW s \in Seq(S), NEW t \in Seq(S)
  PROVE  /\ Range(s \o t) = Range(s) \cup Range(t)
         /\ IsInjective(s) /\ IsInjective(t) /\ Range(s) \cap Range(t) = {}
              => IsInjective(s \o t)
<1>1. /\ Len(s) \in Nat /\ DOMAIN s = 1 .. Len(s)
      /\ Len(t) \in Nat /\ DOMAIN t = 1 .. Len(t)
      /\ DOMAIN (s \o t) = 1 .. Len(s) + Len(t)
      /\ \A i \in 1 .. Len(s) + Len(t) :
           (s \o t)[i] = IF i <= Len(s) THEN s[i] ELSE t[i - Len(s)]
  BY LenProperties, ConcatProperties
<1>2. \A i \in 1 .. Len(s) + Len(t) :
        i \in 1 .. Len(s) \/ (~ (i <= Len(s)) /\ i - Len(s) \in 1 .. Len(t))
  BY <1>1
<1>3. \A i \in 1 .. Len(s) : i \in 1 .. Len(s) + Len(t) /\ i <= Len(s)
  BY <1>1
<1>4. \A i \in 1 .. Len(t) :
        /\ i + Len(s) \in 1 .. Len(s) + Len(t)
        /\ ~ (i + Len(s) <= Len(s)) /\ (i + Len(s)) - Len(s) = i
  BY <1>1
<1>5. Range(s \o t) \subseteq Range(s) \cup Range(t)
  <2> SUFFICES ASSUME NEW i \in 1 .. Len(s) + Len(t)
               PROVE  (s \o t)[i] \in Range(s) \cup Range(t)
    BY <1>1 DEF Range
  <2> QED
    BY <1>1, <1>2 DEF Range
<1>6. Range(s) \subseteq Range(s \o t)
  BY <1>1, <1>3 DEF Range
<1>7. Range(t) \subseteq Range(s \o t)
  <2> SUFFICES ASSUME NEW i \in 1 .. Len(t) PROVE t[i] \in Range(s \o t)
    BY <1>1 DEF Range
  <2>1. (s \o t)[i + Len(s)] = t[i]
    BY <1>1, <1>4
  <2> QED
    BY <1>1, <1>4, <2>1 DEF Range
<1>8. ASSUME IsInjective(s), IsInjective(t), Range(s) \cap Range(t) = {}
      PROVE  IsInjective(s \o t)
  <2> SUFFICES ASSUME NEW i \in 1 .. Len(s) + Len(t), NEW j \in 1 .. Len(s) + Len(t),
                      (s \o t)[i] = (s \o t)[j]
               PROVE  i = j
    BY <1>1 DEF IsInjective
  <2>1. CASE i \in 1 .. Len(s) /\ j \in 1 .. Len(s)
    BY <1>1, <1>3, <1>8, <2>1 DEF IsInjective
  <2>2. CASE ~ (i <= Len(s)) /\ ~ (j <= Len(s))
    <3>1. i - Len(s) \in 1 .. Len(t) /\ j - Len(s) \in 1 .. Len(t)
      BY <1>1, <2>2
    <3>2. t[i - Len(s)] = t[j - Len(s)]
      BY <1>1, <2>2
    <3>3. i - Len(s) = j - Len(s)
      BY <1>1, <1>8, <3>1, <3>2 DEF IsInjective
    <3> QED
      BY <1>1, <3>3
  <2>3. CASE i \in 1 .. Len(s) /\ ~ (j <= Len(s))
    BY <1>1, <1>2, <1>3, <1>8, <2>3 DEF Range
  <2>4. CASE ~ (i <= Len(s)) /\ j \in 1 .. Len(s)
    BY <1>1, <1>2, <1>3, <1>8, <2>4 DEF Range
  <2> QED
    BY <1>1, <2>1, <2>2, <2>3, <2>4
<1> QED
  BY <1>5, <1>6, <1>7, <1>8

\* Appending to a concatenation appends to its end.
LEMMA ConcatAppend ==
  ASSUME NEW S, NEW s \in Seq(S), NEW t \in Seq(S), NEW x \in S
  PROVE  s \o Append(t, x) = Append(s \o t, x)
<1>1. <<x>> \in Seq(S)
  OBVIOUS
<1>2. Append(t, x) = t \o <<x>> /\ s \o t \in Seq(S)
  BY AppendIsConcat, ConcatProperties
<1>3. Append(s \o t, x) = (s \o t) \o <<x>>
  BY <1>2, AppendIsConcat
<1> QED
  BY <1>1, <1>2, <1>3, ConcatAssociative

\* A filter goes through two sequences one after the other.
LEMMA FilterConcat ==
  ASSUME NEW S, NEW s \in Seq(S), NEW t \in Seq(S), NEW K
  PROVE  Filter(s \o t, K) = Filter(s, K) \o Filter(t, K)
<1> DEFINE u == s \o t
           A == {n \in 0 .. Len(s) : Kept(u, K)[n] = Kept(s, K)[n]}
           Both(n) ==
             /\ Kept(t, K)[n] \in Seq(S)
             /\ Kept(u, K)[Len(s) + n] = Kept(s, K)[Len(s)] \o Kept(t, K)[n]
           B == {n \in 0 .. Len(t) : Both(n)}
<1>1. /\ u \in Seq(S) /\ Len(s) \in Nat /\ Len(t) \in Nat /\ Len(u) = Len(s) + Len(t)
      /\ \A i \in 1 .. Len(s) : u[i] = s[i]
      /\ \A i \in 1 .. Len(t) : u[Len(s) + i] = t[i]
  BY ConcatProperties, LenProperties
<1> HIDE DEF u
<1>2. Len(u) \in Nat
  BY <1>1
<1>3. \A n \in 0 .. Len(s) : n \in A
  <2>1. 0 \in A
    BY <1>1, <1>2, KeptStep
  <2>2. ASSUME NEW n \in 0 .. Len(s) - 1, n \in A
        PROVE  n + 1 \in A
    <3>1. n \in 0 .. Len(u) - 1 /\ n + 1 \in 1 .. Len(s)
      BY <1>1
    <3>2. /\ Kept(u, K)[n + 1] = IF u[n + 1] \in K THEN Append(Kept(u, K)[n], u[n + 1])
                                 ELSE Kept(u, K)[n]
          /\ Kept(s, K)[n + 1] = IF s[n + 1] \in K THEN Append(Kept(s, K)[n], s[n + 1])
                                 ELSE Kept(s, K)[n]
      BY <1>1, <1>2, <3>1, KeptStep
    <3>3. u[n + 1] = s[n + 1] /\ Kept(u, K)[n] = Kept(s, K)[n]
      BY <1>1, <2>2, <3>1
    <3> QED
      BY <3>1, <3>2, <3>3
  <2> HIDE DEF A
  <2> QED
    BY <1>1, <2>1, <2>2, Upwards
<1>4. Kept(u, K)[Len(s)] = Kept(s, K)[Len(s)] /\ Kept(s, K)[Len(s)] \in Seq(S)
  <2>1. Len(s) \in A
    BY <1>1, <1>3
  <2>2. Filter(s, K) \in Seq(S)
    BY FilterRange
  <2> QED
    BY <2>1, <2>2 DEF Filter
<1>5. \A n \in 0 .. Len(t) : n \in B
  <2>1. 0 \in B
    <3>1. Kept(t, K)[0] = <<>> /\ Len(s) + 0 = Len(s) /\ 0 \in 0 .. Len(t)
      BY <1>1, KeptStep
    <3>2. <<>> \in Seq(S)
      OBVIOUS
    <3>3. Kept(s, K)[Len(s)] \o <<>> = Kept(s, K)[Len(s)]
      BY <1>4, ConcatEmptySeq
    <3> QED
      BY <1>4, <3>1, <3>2, <3>3
  <2>2. ASSUME NEW n \in 0 .. Len(t) - 1, n \in B
        PROVE  n + 1 \in B
    <3>1. /\ n \in 0 .. Len(t) - 1 /\ Len(s) + n \in 0 .. Len(u) - 1
          /\ n + 1 \in 1 .. Len(t) /\ (Len(s) + n) + 1 = Len(s) + (n + 1)
          /\ n + 1 \in 0 .. Len(t)
      BY <1>1
    <3>2. /\ Kept(u, K)[(Len(s) + n) + 1] =
               IF u[(Len(s) + n) + 1] \in K
               THEN Append(Kept(u, K)[Len(s) + n], u[(Len(s) + n) + 1])
               ELSE Kept(u, K)[Len(s) + n]
          /\ Kept(t, K)[n + 1] = IF t[n + 1] \in K THEN Append(Kept(t, K)[n], t[n + 1])
                                 ELSE Kept(t, K)[n]
      BY <1>1, <1>2, <3>1, KeptStep
    <3>3. u[Len(s) + (n + 1)] = t[n + 1] /\ t[n + 1] \in S
      BY <1>1, <3>1, ElementOfSeq
    <3>4. Both(n)
      BY <2>2
    <3>5. CASE t[n + 1] \in K
      <4>1. Kept(t, K)[n + 1] = Append(Kept(t, K)[n], t[n + 1])
            /\ Kept(u, K)[Len(s) + (n + 1)] = Append(Kept(u, K)[Len(s) + n], t[n + 1])
        BY <3>1, <3>2, <3>3, <3>5
      <4>2. Kept(t, K)[n + 1] \in Seq(S)
        BY <3>3, <3>4, <4>1, AppendProperties
      <4>3. Kept(u, K)[Len(s) + (n + 1)] = Kept(s, K)[Len(s)] \o Kept(t, K)[n + 1]
        <5> DEFINE a == Kept(s, K)[Len(s)]
                   b == Kept(t, K)[n]
                   x == t[n + 1]
        <5>1. /\ a \in Seq(S) /\ b \in Seq(S) /\ x \in S
              /\ Kept(u, K)[Len(s) + n] = a \o b
              /\ Kept(t, K)[n + 1] = Append(b, x)
              /\ Kept(u, K)[Len(s) + (n + 1)] = Append(Kept(u, K)[Len(s) + n], x)
          BY <1>4, <3>3, <3>4, <4>1
        <5> HIDE DEF a, b, x
        <5>2. a \o Append(b, x) = Append(a \o b, x)
          <6>1. a \in Seq(S) /\ b \in Seq(S) /\ x \in S
            BY <5>1
          <6> QED
            BY <6>1, ConcatAppend
        <5>3. Kept(u, K)[Len(s) + (n + 1)] = a \o Kept(t, K)[n + 1]
          BY <5>1, <5>2
        <5> QED
          BY <5>3 DEF a
      <4> QED
        BY <3>1, <4>2, <4>3
    <3>6. CASE t[n + 1] \notin K
      BY <3>1, <3>2, <3>3, <3>4, <3>6
    <3> QED
      BY <3>5, <3>6
  <2> HIDE DEF B
  <2> QED
    BY <1>1, <2>1, <2>2, Upwards
<1>6. Both(Len(t))
  <2>1. Len(t) \in 0 .. Len(t)
    BY <1>1
  <2>2. Len(t) \in B
    BY <1>5, <2>1
  <2> QED
    BY <2>2
<1>7. Kept(u, K)[Len(u)] = Kept(s, K)[Len(s)] \o Kept(t, K)[Len(t)]
  BY <1>1, <1>6
<1> QED
  BY <1>7 DEF Filter, u

\* It keeps a sequence of which all elements pass.
LEMMA FilterAll ==
  ASSUME NEW S, NEW s \in Seq(S), NEW K, \A i \in 1 .. Len(s) : s[i] \in K
  PROVE  Filter(s, K) = s
<1> DEFINE P(n) ==
             /\ Kept(s, K)[n] \in Seq(S) /\ Len(Kept(s, K)[n]) = n
             /\ \A i \in 1 .. n : Kept(s, K)[n][i] = s[i]
           T == {n \in 0 .. Len(s) : P(n)}
<1>0. Len(s) \in Nat
  BY LenProperties
<1>1. 0 \in T
  <2>1. Kept(s, K)[0] \in Seq(S) /\ Len(Kept(s, K)[0]) = 0
    BY KeptEmpty
  <2>2. P(0)
    BY <2>1
  <2> QED
    BY <1>0, <2>2
<1>2. ASSUME NEW n \in 0 .. Len(s) - 1, n \in T
      PROVE  n + 1 \in T
  <2>1. n + 1 \in 1 .. Len(s) /\ n + 1 \in 0 .. Len(s)
    BY <1>0
  <2>2. s[n + 1] \in S /\ s[n + 1] \in K
    BY <2>1, ElementOfSeq
  <2>3. Kept(s, K)[n + 1] = Append(Kept(s, K)[n], s[n + 1])
    BY <1>0, <2>2, KeptStep
  <2>4. P(n)
    BY <1>2
  <2>5. /\ Kept(s, K)[n + 1] \in Seq(S) /\ Len(Kept(s, K)[n + 1]) = n + 1
        /\ \A i \in 1 .. n : Kept(s, K)[n + 1][i] = Kept(s, K)[n][i]
        /\ Kept(s, K)[n + 1][n + 1] = s[n + 1]
    BY <2>2, <2>3, <2>4, AppendProperties
  <2>6. ASSUME NEW i \in 1 .. n + 1
        PROVE  Kept(s, K)[n + 1][i] = s[i]
    <3>1. i \in 1 .. n \/ i = n + 1
      OBVIOUS
    <3> QED
      BY <2>4, <2>5, <3>1
  <2> QED
    BY <2>1, <2>5, <2>6
<1>3. \A n \in 0 .. Len(s) : n \in T
  <2> HIDE DEF T
  <2> QED
    BY <1>0, <1>1, <1>2, Upwards
<1>4. P(Len(s))
  BY <1>0, <1>3
<1> QED
  BY <1>4, SeqEqual DEF Filter

\* Of a sequence none of whose elements pass it leaves nothing.
LEMMA FilterNone ==
  ASSUME NEW S, NEW s \in Seq(S), NEW K, \A i \in 1 .. Len(s) : s[i] \notin K
  PROVE  Filter(s, K) = <<>>
<1>1. Filter(s, K) \in Seq(S) /\ Range(Filter(s, K)) = Range(s) \cap K
  BY FilterRange
<1>2. Range(s) \cap K = {}
  BY LenProperties DEF Range
<1>3. DOMAIN Filter(s, K) = {}
  BY <1>1, <1>2 DEF Range
<1>4. Len(Filter(s, K)) = 0
  BY <1>1, <1>3, LenProperties
<1> QED
  BY <1>1, <1>4, EmptySeq

Rising(s) == \A i, j \in DOMAIN s : i < j => s[i] < s[j]

\* What is kept of numbers that rise rises.
LEMMA FilterOrder ==
  ASSUME NEW s \in Seq(Int), NEW K, Rising(s)
  PROVE  Rising(Filter(s, K))
<1> DEFINE Front(n) == {s[i] : i \in 1 .. n}
           P(n) ==
             /\ Kept(s, K)[n] \in Seq(Int)
             /\ Range(Kept(s, K)[n]) \subseteq Front(n)
             /\ Rising(Kept(s, K)[n])
           T == {n \in 0 .. Len(s) : P(n)}
<1>0. Len(s) \in Nat /\ DOMAIN s = 1 .. Len(s) /\ \A i \in 1 .. Len(s) : s[i] \in Int
  BY LenProperties, ElementOfSeq
<1>1. 0 \in T
  <2>1. Kept(s, K)[0] = <<>>
    BY <1>0, KeptStep
  <2>2. <<>> \in Seq(Int) /\ Range(<<>>) = {} /\ Rising(<<>>)
    BY DEF Range, Rising
  <2>3. P(0)
    BY <2>1, <2>2
  <2> HIDE DEF P
  <2> QED
    BY <1>0, <2>3
<1>2. ASSUME NEW n \in 0 .. Len(s) - 1, n \in T
      PROVE  n + 1 \in T
  <2>1. Front(n) \subseteq Front(n + 1) /\ s[n + 1] \in Front(n + 1) /\ s[n + 1] \in Int
    BY <1>0
  <2>2. CASE s[n + 1] \in K
    <3> DEFINE k == Kept(s, K)[n]
    <3>1. Kept(s, K)[n + 1] = Append(k, s[n + 1])
      BY <1>0, <2>2, KeptStep
    <3>2. Kept(s, K)[n + 1] \in Seq(Int)
      BY <1>2, <2>1, <3>1, AppendProperties
    <3>3. Range(Kept(s, K)[n + 1]) = Range(k) \cup {s[n + 1]}
      BY <1>2, <3>1, AppendedRange
    <3>4. \A x \in Front(n) : x < s[n + 1]
      BY <1>0 DEF Rising
    <3>6. /\ DOMAIN k = 1 .. Len(k) /\ Len(k) \in Nat
          /\ DOMAIN Append(k, s[n + 1]) = 1 .. Len(k) + 1
          /\ \A i \in 1 .. Len(k) : Append(k, s[n + 1])[i] = k[i]
          /\ Append(k, s[n + 1])[Len(k) + 1] = s[n + 1]
      BY <1>2, <2>1, AppendProperties, LenProperties
    <3>7. Rising(k) /\ Range(k) \subseteq Front(n)
      BY <1>2
    <3>8. \A i \in 1 .. Len(k) : k[i] < s[n + 1]
      BY <3>4, <3>6, <3>7 DEF Range
    <3> HIDE DEF k, Front
    <3>9. Rising(Append(k, s[n + 1]))
      BY <3>6, <3>7, <3>8 DEF Rising
    <3>10. Range(k) \cup {s[n + 1]} \subseteq Front(n + 1)
      BY <2>1, <3>7
    <3>11. /\ Rising(Kept(s, K)[n + 1])
           /\ Range(Kept(s, K)[n + 1]) \subseteq Front(n + 1)
      BY <3>1, <3>3, <3>9, <3>10
    <3> QED
      BY <1>0, <3>2, <3>11
  <2>3. CASE s[n + 1] \notin K
    <3>1. Kept(s, K)[n + 1] = Kept(s, K)[n]
      BY <1>0, <2>3, KeptStep
    <3> QED
      BY <1>0, <1>2, <2>1, <3>1
  <2> QED
    BY <2>2, <2>3
<1>3. \A n \in 0 .. Len(s) : n \in T
  <2> HIDE DEF T
  <2> QED
    BY <1>0, <1>1, <1>2, Upwards
<1> QED
  BY <1>0, <1>3 DEF Filter

-----------------------------------------------------------------------------
(* Sequences put together.                                                  *)

\* f satisfies the recursive definition of FlattenSeq up to N.
IsFlat(f, s, N) == f = [i \in 1 .. N |-> IF i = 1 THEN s[i] ELSE f[i - 1] \o s[i]]

LEMMA FlatGrows ==
  ASSUME NEW s, NEW N \in Nat, NEW f, IsFlat(f, s, N)
  PROVE  \E g : IsFlat(g, s, N + 1)
<1> DEFINE g == [i \in 1 .. N + 1 |->
                   IF i <= N THEN f[i] ELSE IF i = 1 THEN s[i] ELSE f[N] \o s[i]]
<1>1. ASSUME NEW i \in 1 .. N + 1
      PROVE  g[i] = IF i = 1 THEN s[i] ELSE g[i - 1] \o s[i]
  <2>1. CASE i <= N
    <3>1. i \in 1 .. N /\ (i # 1 => i - 1 \in 1 .. N)
      BY <2>1
    <3>2. f[i] = IF i = 1 THEN s[i] ELSE f[i - 1] \o s[i]
      BY <3>1 DEF IsFlat
    <3> QED
      BY <2>1, <3>1, <3>2
  <2>2. CASE i = N + 1
    BY <2>2
  <2> QED
    BY <2>1, <2>2
<1>2. g = [i \in 1 .. N + 1 |-> IF i = 1 THEN s[i] ELSE g[i - 1] \o s[i]]
  <2> DEFINE grown(i) == IF i = 1 THEN s[i] ELSE g[i - 1] \o s[i]
             G == [i \in 1 .. N + 1 |-> grown(i)]
  <2>1. DOMAIN g = 1 .. N + 1 /\ g = [i \in 1 .. N + 1 |-> g[i]]
    OBVIOUS
  <2>2. \A i \in 1 .. N + 1 : g[i] = grown(i)
    BY <1>1
  <2> HIDE DEF g, grown
  <2>3. g = G
    BY <2>1, <2>2
  <2> QED
    BY <2>3 DEF grown
<1> QED
  BY <1>2 DEF IsFlat

\* It has a solution: the sequences before the n-th, put one behind the other.
LEMMA FlatExists ==
  ASSUME NEW s, Len(s) \in Nat \ {0}
  PROVE  \E f : IsFlat(f, s, Len(s))
<1> DEFINE T == {N \in 0 .. Len(s) : \E f : IsFlat(f, s, N)}
<1>1. 0 \in T
  <2>1. IsFlat([i \in 1 .. 0 |-> <<>>], s, 0)
    BY DEF IsFlat
  <2> QED
    BY <2>1
<1>2. ASSUME NEW N \in 0 .. Len(s) - 1, N \in T
      PROVE  N + 1 \in T
  BY <1>2, FlatGrows
<1>3. \A N \in 0 .. Len(s) : N \in T
  <2> HIDE DEF T
  <2> QED
    BY <1>1, <1>2, Upwards
<1> QED
  BY <1>3

\* Induction over the sequences put together: what holds of the first, and goes
\* on holding when one more is added, holds of all.
LEMMA FlatInduction ==
  ASSUME NEW s, Len(s) \in Nat \ {0}, NEW f, IsFlat(f, s, Len(s)), NEW P, <<1, s[1]>> \in P,
         \A n \in 1 .. Len(s) - 1 : \A v : <<n, v>> \in P => <<n + 1, v \o s[n + 1]>> \in P
  PROVE  <<Len(s), f[Len(s)]>> \in P
<1>2. \A n \in 1 .. Len(s) : f[n] = IF n = 1 THEN s[n] ELSE f[n - 1] \o s[n]
  BY DEF IsFlat
<1>1. \A n \in 1 .. Len(s) : n # 1 => f[n] = f[n - 1] \o s[n]
  BY <1>2, Zenon
<1> DEFINE N == Len(s) - 1
           In(n) == <<n + 1, f[n + 1]>> \in P
           T == {n \in 0 .. N : In(n)}
<1>3. N \in Nat /\ 0 \in T
  BY <1>2
<1>4. ASSUME NEW n \in 0 .. N - 1, n \in T
      PROVE  n + 1 \in T
  <2> DEFINE m == n + 1
  <2>1. m \in 1 .. Len(s) - 1 /\ m + 1 \in 1 .. Len(s) /\ m + 1 # 1 /\ m + 1 - 1 = m
        /\ m \in 0 .. N
    BY <1>3
  <2>2. <<m, f[m]>> \in P
    BY <1>4
  <2> HIDE DEF m
  <2>3. <<m + 1, f[m] \o s[m + 1]>> \in P
    BY <2>1, <2>2
  <2>4. f[m + 1] = f[m] \o s[m + 1]
    <3> DEFINE q == m + 1
    <3>1. q \in 1 .. Len(s) /\ q # 1 /\ q - 1 = m
      BY <2>1
    <3> HIDE DEF q
    <3>2. f[q] = f[q - 1] \o s[q]
      BY <1>1, <3>1, Zenon
    <3>3. f[q] = f[m] \o s[q]
      BY <3>1, <3>2, Zenon
    <3> QED
      BY <3>3, Zenon DEF q
  <2>5. In(m)
    BY <2>3, <2>4, Zenon
  <2> HIDE DEF In
  <2>6. m \in T
    BY <2>1, <2>5
  <2> QED
    BY <2>6 DEF m
<1>5. N \in T
  <2> HIDE DEF In
  <2> HIDE DEF T, N
  <2>1. \A n \in 0 .. N : n \in T
    BY <1>3, <1>4, Upwards
  <2> QED
    BY <1>3, <2>1
<1> QED
  BY <1>5

-----------------------------------------------------------------------------
(* Sums over finite sets.                                                   *)

\* Induction over the subsets of a finite set: what holds of the empty set,
\* and of a set when it holds of that set without any one of its elements.
LEMMA Smaller ==
  ASSUME NEW S, IsFiniteSet(S), NEW Q, {} \in Q,
         \A T \in SUBSET S : T # {} /\ (\A x \in T : T \ {x} \in Q) => T \in Q
  PROVE  \A T \in SUBSET S : T \in Q
<1> DEFINE W == {n \in 0 .. Cardinality(S) :
                   \A T \in SUBSET S : Cardinality(T) = n => T \in Q}
<1>1. /\ Cardinality(S) \in Nat
      /\ \A T \in SUBSET S : IsFiniteSet(T) /\ Cardinality(T) \in 0 .. Cardinality(S)
  BY FS_Subset, FS_CardinalityType
<1>2. 0 \in W
  <2>1. \A T \in SUBSET S : Cardinality(T) = 0 => T = {}
    BY <1>1, FS_EmptySet
  <2>2. 0 \in 0 .. Cardinality(S)
    BY <1>1
  <2>3. \A T \in SUBSET S : Cardinality(T) = 0 => T \in Q
    BY <2>1
  <2> QED
    BY <2>2, <2>3
<1>3. ASSUME NEW n \in 0 .. Cardinality(S) - 1, n \in W
      PROVE  n + 1 \in W
  <2>1. ASSUME NEW T \in SUBSET S, Cardinality(T) = n + 1
        PROVE  T \in Q
    <3>1. T # {}
      BY <1>1, <2>1, FS_EmptySet
    <3>2. \A x \in T : T \ {x} \in SUBSET S /\ Cardinality(T \ {x}) = n
      <4> SUFFICES ASSUME NEW x \in T
                   PROVE  T \ {x} \in SUBSET S /\ Cardinality(T \ {x}) = n
        OBVIOUS
      <4>1. Cardinality(T \ {x}) = Cardinality(T) - 1
        BY <1>1, FS_RemoveElement
      <4> QED
        BY <2>1, <4>1
    <3> QED
      BY <1>3, <3>1, <3>2
  <2>2. n + 1 \in 0 .. Cardinality(S)
    BY <1>1
  <2> QED
    BY <2>1, <2>2
<1>4. \A n \in 0 .. Cardinality(S) : n \in W
  <2> HIDE DEF W
  <2> QED
    BY <1>1, <1>2, <1>3, Upwards
<1> QED
  BY <1>1, <1>4

\* The element a sum takes out of a set first.
Pick(T) == CHOOSE x \in T : TRUE

\* s satisfies the recursive definition of a sum over the subsets of S.
IsSum(s, fun, S) ==
  s = [T \in SUBSET S |->
         IF T = {} THEN 0
         ELSE LET x == CHOOSE x \in T : TRUE IN fun[x] + s[T \ {x}]]

Total(fun, S) == FoldFunctionOnSet(+, 0, fun, S)

LEMMA PickIn == \A T : T # {} => Pick(T) \in T
BY DEF Pick

LEMMA SumIs ==
  ASSUME NEW s, NEW fun, NEW S
  PROVE  IsSum(s, fun, S) <=>
           s = [T \in SUBSET S |->
                  IF T = {} THEN 0 ELSE fun[Pick(T)] + s[T \ {Pick(T)}]]
BY DEF IsSum, Pick

LEMMA SumAt ==
  ASSUME NEW s, NEW fun, NEW S, IsSum(s, fun, S), NEW T \in SUBSET S
  PROVE  s[T] = IF T = {} THEN 0 ELSE fun[Pick(T)] + s[T \ {Pick(T)}]
<1>1. s = [U \in SUBSET S |->
             IF U = {} THEN 0 ELSE fun[Pick(U)] + s[U \ {Pick(U)}]]
  BY SumIs
<1> QED
  BY <1>1

\* The recursive definition has a solution over any finite set.
LEMMA SumExists ==
  ASSUME NEW fun, NEW S, IsFiniteSet(S)
  PROVE  \E s : IsSum(s, fun, S)
<1> DEFINE D(n) == {T \in SUBSET S : Cardinality(T) <= n}
           Part(s, n) == \A T \in D(n) :
             s[T] = IF T = {} THEN 0 ELSE fun[Pick(T)] + s[T \ {Pick(T)}]
           N == Cardinality(S)
           W == {n \in 0 .. N : \E s : Part(s, n)}
<1>1. /\ N \in Nat
      /\ \A T \in SUBSET S : IsFiniteSet(T) /\ Cardinality(T) \in 0 .. N
  BY FS_Subset, FS_CardinalityType
<1>2. 0 \in W
  <2>1. \A T \in D(0) : T = {}
    <3>1. \A T \in D(0) : Cardinality(T) = 0
      BY <1>1
    <3> QED
      BY <1>1, <3>1, FS_EmptySet
  <2>2. Part([T \in D(0) |-> 0], 0)
    BY <2>1
  <2>3. 0 \in 0 .. N
    BY <1>1
  <2>4. \E s : Part(s, 0)
    BY <2>2
  <2> HIDE DEF Part, N
  <2> QED
    BY <2>3, <2>4
<1>3. ASSUME NEW n \in 0 .. N - 1, n \in W
      PROVE  n + 1 \in W
  <2>1. PICK s : Part(s, n)
    BY <1>3
  <2> DEFINE g == [T \in D(n + 1) |->
                     IF T = {} THEN 0 ELSE fun[Pick(T)] + s[T \ {Pick(T)}]]
  <2>2. \A T \in D(n) : T \in D(n + 1) /\ g[T] = s[T]
    <3>1. \A T \in D(n) : T \in D(n + 1)
      BY <1>1
    <3> QED
      BY <2>1, <3>1
  <2>3. \A T \in D(n + 1) : T # {} => T \ {Pick(T)} \in D(n)
    <3> SUFFICES ASSUME NEW T \in D(n + 1), T # {}
                 PROVE  T \ {Pick(T)} \in D(n)
      OBVIOUS
    <3>1. Pick(T) \in T /\ IsFiniteSet(T) /\ Cardinality(T) \in 0 .. N
      BY <1>1, PickIn
    <3>2. Cardinality(T \ {Pick(T)}) = Cardinality(T) - 1
      BY <3>1, FS_RemoveElement
    <3> QED
      BY <1>1, <3>1, <3>2
  <2>4. ASSUME NEW T \in D(n + 1)
        PROVE  g[T] = IF T = {} THEN 0 ELSE fun[Pick(T)] + g[T \ {Pick(T)}]
    <3>1. CASE T = {}
      BY <3>1
    <3>2. CASE T # {}
      <4>1. g[T] = fun[Pick(T)] + s[T \ {Pick(T)}]
        BY <3>2
      <4>2. g[T \ {Pick(T)}] = s[T \ {Pick(T)}]
        BY <2>2, <2>3, <3>2
      <4> QED
        BY <3>2, <4>1, <4>2
    <3> QED
      BY <3>1, <3>2
  <2> HIDE DEF g
  <2>5. Part(g, n + 1)
    BY <2>4
  <2>6. n + 1 \in 0 .. N
    BY <1>1
  <2>7. \E h : Part(h, n + 1)
    BY <2>5
  <2> HIDE DEF Part, N
  <2> QED
    BY <2>6, <2>7
<1>4. N \in W
  <2>1. \A n \in 0 .. N : n \in W
    <3> HIDE DEF W, N
    <3> QED
      BY <1>1, <1>2, <1>3, Upwards
  <2> QED
    BY <1>1, <2>1
<1>5. PICK w : Part(w, N)
  BY <1>4
<1> DEFINE r == [T \in SUBSET S |-> w[T]]
<1>6. ASSUME NEW T \in SUBSET S
      PROVE  r[T] = IF T = {} THEN 0 ELSE fun[Pick(T)] + r[T \ {Pick(T)}]
  <2>1. T \in D(N) /\ T \ {Pick(T)} \in SUBSET S
    BY <1>1
  <2> QED
    BY <1>5, <2>1
<1>7. r = [T \in SUBSET S |-> r[T]]
  OBVIOUS
<1> HIDE DEF r
<1>8. r = [T \in SUBSET S |->
             IF T = {} THEN 0 ELSE fun[Pick(T)] + r[T \ {Pick(T)}]]
  BY <1>6, <1>7
<1> QED
  BY <1>8, SumIs

LEMMA TotalIs ==
  ASSUME NEW fun, NEW S, IsFiniteSet(S)
  PROVE  \E s : IsSum(s, fun, S) /\ Total(fun, S) = s[S]
<1>1. Total(fun, S) = (CHOOSE s : IsSum(s, fun, S))[S]
  BY Zenon DEF Total, IsSum, FoldFunctionOnSet, MapThenFoldSet
<1> QED
  BY <1>1, SumExists

\* Sums agree on the sets they share.
LEMMA SumsAgree ==
  ASSUME NEW fun, NEW A, IsFiniteSet(A), NEW B \in SUBSET A,
         NEW s, IsSum(s, fun, A), NEW r, IsSum(r, fun, B)
  PROVE  s[B] = r[B]
<1> DEFINE Q == {T \in SUBSET B : s[T] = r[T]}
<1>1. IsFiniteSet(B)
  BY FS_Subset
<1>2. {} \in Q
  <2>1. s[{}] = 0 /\ r[{}] = 0
    BY SumAt
  <2> QED
    BY <2>1
<1>3. ASSUME NEW T \in SUBSET B, T # {}, \A x \in T : T \ {x} \in Q
      PROVE  T \in Q
  <2>1. Pick(T) \in T
    BY <1>3, PickIn
  <2>2. s[T \ {Pick(T)}] = r[T \ {Pick(T)}]
    BY <1>3, <2>1
  <2>3. s[T] = fun[Pick(T)] + s[T \ {Pick(T)}]
    BY <1>3, SumAt
  <2>4. r[T] = fun[Pick(T)] + r[T \ {Pick(T)}]
    BY <1>3, SumAt
  <2> QED
    BY <2>2, <2>3, <2>4
<1>4. \A T \in SUBSET B : T \in Q
  <2> HIDE DEF Q
  <2> QED
    BY <1>1, <1>2, <1>3, Smaller
<1> QED
  BY <1>4

LEMMA TotalEmpty ==
  ASSUME NEW fun
  PROVE  Total(fun, {}) = 0
<1>1. PICK s : IsSum(s, fun, {}) /\ Total(fun, {}) = s[{}]
  BY TotalIs, FS_EmptySet
<1> QED
  BY <1>1, SumAt

LEMMA TotalTakes ==
  ASSUME NEW fun, NEW S, IsFiniteSet(S), S # {}
  PROVE  Total(fun, S) = fun[Pick(S)] + Total(fun, S \ {Pick(S)})
<1> DEFINE B == S \ {Pick(S)}
<1>1. PICK s : IsSum(s, fun, S) /\ Total(fun, S) = s[S]
  BY TotalIs
<1>2. B \in SUBSET S /\ IsFiniteSet(B)
  BY FS_Subset
<1> HIDE DEF B
<1>3. PICK r : IsSum(r, fun, B) /\ Total(fun, B) = r[B]
  BY <1>2, TotalIs
<1>4. s[B] = r[B]
  BY <1>1, <1>2, <1>3, SumsAgree
<1>5. s[S] = fun[Pick(S)] + s[S \ {Pick(S)}]
  BY <1>1, SumAt
<1> QED
  BY <1>1, <1>3, <1>4, <1>5 DEF B

\* A sum is a number, whichever element is taken out first.
LEMMA TotalType ==
  ASSUME NEW S, IsFiniteSet(S), NEW fun, \A x \in S : fun[x] \in Nat
  PROVE  \A T \in SUBSET S : Total(fun, T) \in Nat
<1> DEFINE Q == {T \in SUBSET S : Total(fun, T) \in Nat}
<1>1. {} \in Q
  BY TotalEmpty
<1>2. ASSUME NEW T \in SUBSET S, T # {}, \A x \in T : T \ {x} \in Q
      PROVE  T \in Q
  <2>1. Pick(T) \in T /\ IsFiniteSet(T)
    BY <1>2, PickIn, FS_Subset
  <2>2. Total(fun, T) = fun[Pick(T)] + Total(fun, T \ {Pick(T)})
    BY <1>2, <2>1, TotalTakes
  <2>3. Total(fun, T \ {Pick(T)}) \in Nat /\ fun[Pick(T)] \in Nat
    BY <1>2, <2>1
  <2> QED
    BY <2>2, <2>3
<1>3. \A T \in SUBSET S : T \in Q
  <2> HIDE DEF Q
  <2> QED
    BY <1>1, <1>2, Smaller
<1> QED
  BY <1>3

LEMMA TotalSplits ==
  ASSUME NEW S, IsFiniteSet(S), NEW fun, \A x \in S : fun[x] \in Nat
  PROVE  \A T \in SUBSET S : \A x \in T :
           Total(fun, T) = fun[x] + Total(fun, T \ {x})
<1> DEFINE t(T) == Total(fun, T)
           Q == {T \in SUBSET S : \A x \in T : t(T) = fun[x] + t(T \ {x})}
<1>1. {} \in Q
  OBVIOUS
<1>2. ASSUME NEW T \in SUBSET S, T # {}, \A x \in T : T \ {x} \in Q
      PROVE  T \in Q
  <2> SUFFICES ASSUME NEW x \in T PROVE t(T) = fun[x] + t(T \ {x})
    OBVIOUS
  <2> DEFINE c == Pick(T)
             R == T \ {c, x}
  <2>1. c \in T /\ IsFiniteSet(T) /\ IsFiniteSet(T \ {x})
    BY <1>2, PickIn, FS_Subset
  <2>2. t(T) = fun[c] + t(T \ {c})
    BY <1>2, <2>1, TotalTakes
  <2>3. CASE x = c
    BY <2>2, <2>3
  <2>4. CASE x # c
    <3>1. /\ R \in SUBSET S /\ (T \ {c}) \ {x} = R /\ (T \ {x}) \ {c} = R
          /\ x \in T \ {c} /\ c \in T \ {x} /\ x \in S /\ c \in S
      BY <2>1, <2>4
    <3>2. T \ {c} \in Q /\ T \ {x} \in Q
      BY <1>2, <2>1
    <3> HIDE DEF c, R
    <3>3. t(T \ {c}) = fun[x] + t(R)
      BY <3>1, <3>2
    <3>4. t(T \ {x}) = fun[c] + t(R)
      BY <3>1, <3>2
    <3>5. t(R) \in Nat /\ fun[x] \in Nat /\ fun[c] \in Nat
      BY <3>1, TotalType
    <3> HIDE DEF t
    <3> QED
      BY <2>2, <3>3, <3>4, <3>5
  <2> QED
    BY <2>3, <2>4
<1>3. \A T \in SUBSET S : T \in Q
  <2> HIDE DEF Q
  <2> QED
    BY <1>1, <1>2, Smaller
<1> QED
  BY <1>3

\* A sum over more is no smaller.
LEMMA TotalGrows ==
  ASSUME NEW S, IsFiniteSet(S), NEW fun, \A x \in S : fun[x] \in Nat,
         NEW T \in SUBSET S
  PROVE  Total(fun, T) <= Total(fun, S)
<1> DEFINE Q == {U \in SUBSET S :
                   \A V \in SUBSET U : Total(fun, V) <= Total(fun, U)}
<1>0. \A U \in SUBSET S : Total(fun, U) \in Nat
  BY TotalType
<1>1. {} \in Q
  BY TotalEmpty
<1>2. ASSUME NEW U \in SUBSET S, U # {}, \A x \in U : U \ {x} \in Q
      PROVE  U \in Q
  <2> SUFFICES ASSUME NEW V \in SUBSET U PROVE Total(fun, V) <= Total(fun, U)
    OBVIOUS
  <2>1. CASE V = U
    BY <1>0, <2>1
  <2>2. CASE V # U
    <3>1. PICK x \in U : x \notin V
      BY <2>2
    <3>2. V \in SUBSET (U \ {x}) /\ U \ {x} \in SUBSET S /\ x \in S
      BY <3>1
    <3>3. Total(fun, V) <= Total(fun, U \ {x})
      BY <1>2, <3>1, <3>2
    <3>4. Total(fun, U) = fun[x] + Total(fun, U \ {x})
      BY <3>1, TotalSplits
    <3>5. /\ Total(fun, V) \in Nat /\ Total(fun, U \ {x}) \in Nat
          /\ fun[x] \in Nat /\ Total(fun, U) \in Nat
      BY <1>0, <3>2
    <3> QED
      BY <3>3, <3>4, <3>5
  <2> QED
    BY <2>1, <2>2
<1>3. \A U \in SUBSET S : U \in Q
  <2> HIDE DEF Q
  <2> QED
    BY <1>1, <1>2, Smaller
<1> QED
  BY <1>3
================================================================================
