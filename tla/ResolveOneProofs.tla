--------------------------- MODULE ResolveOneProofs ---------------------------
(***************************************************************************)
(* Proofs about ResolveOne, for any headers, scores, minimum and template  *)
(* specs.  The types come first; the decision is then shown to be unique   *)
(* from an invariant that ties the winner to the second ranking and the    *)
(* target to the path that led to it.                                      *)
(***************************************************************************)
EXTENDS ResolveOne, TLAPS

\* What hydration returns for a header: candidates of the same id whose detail
\* has been read, the header itself unless it is a template spec.
LEMMA HydrationsFacts ==
  ASSUME NEW h \in Candidate, NEW H \in Hydrations(h)
  PROVE  /\ H \in SUBSET Candidate
         /\ \A c \in H : c.id = h.id /\ ~ c.pending
         /\ h.id \notin Expandable => \E c \in H : c.part = h.part
<1> DEFINE read == [h EXCEPT !.pending = FALSE]
<1>1. read \in Candidate /\ read.id = h.id /\ ~ read.pending /\ read.part = h.part
  BY DEF Candidate
<1>2. CASE h.id \in Expandable /\ H = {[read EXCEPT !.supported = FALSE]}
  BY <1>1, <1>2 DEF Candidate
<1>3. ASSUME h.id \in Expandable,
             NEW P \in (SUBSET Parts) \ {{}}, NEW f \in [P -> Scores],
             H = {[read EXCEPT !.part = p, !.score = f[p]] : p \in DOMAIN f}
      PROVE  /\ H \in SUBSET Candidate
             /\ \A c \in H : c.id = h.id /\ ~ c.pending
  <2>1. ASSUME NEW p \in P
        PROVE  LET c == [read EXCEPT !.part = p, !.score = f[p]]
               IN  c \in Candidate /\ c.id = h.id /\ ~ c.pending
    BY <1>1, p \in Parts, f[p] \in Scores DEF Candidate
  <2>2. DOMAIN f = P
    OBVIOUS
  <2> QED BY <1>3, <2>1, <2>2
<1>4. ASSUME h.id \notin Expandable, NEW s \in BOOLEAN,
             H = {[read EXCEPT !.supported = s]}
      PROVE  /\ H \in SUBSET Candidate
             /\ \A c \in H : c.id = h.id /\ ~ c.pending /\ c.part = h.part
             /\ H # {}
  BY <1>1, <1>4 DEF Candidate
<1>5. CASE h.id \in Expandable
  <2>1. \/ H = {[read EXCEPT !.supported = FALSE]}
        \/ \E P \in (SUBSET Parts) \ {{}} : \E f \in [P -> Scores] :
             H = {[read EXCEPT !.part = p, !.score = f[p]] : p \in DOMAIN f}
    <3> DEFINE documents(f) ==
                 {[read EXCEPT !.part = p, !.score = f[p]] : p \in DOMAIN f}
               F == UNION {[P -> Scores] : P \in (SUBSET Parts) \ {{}}}
    <3>1. H \in {{[read EXCEPT !.supported = FALSE]}} \cup {documents(f) : f \in F}
      BY <1>5, Zenon DEF Hydrations
    <3>2. CASE H = {[read EXCEPT !.supported = FALSE]}
      BY <3>2
    <3>3. CASE H \in {documents(f) : f \in F}
      <4>1. PICK f \in F : H = documents(f)
        BY <3>3, Zenon
      <4>2. PICK P \in (SUBSET Parts) \ {{}} : f \in [P -> Scores]
        BY <4>1
      <4> QED BY <4>1, <4>2, Zenon
    <3> QED BY <3>1, <3>2, <3>3
  <2> QED BY <1>2, <1>3, <1>5, <2>1
<1>6. CASE h.id \notin Expandable
  <2>1. \E s \in BOOLEAN : H = {[read EXCEPT !.supported = s]}
    BY <1>6 DEF Hydrations
  <2> QED BY <1>4, <1>6, <2>1
<1> QED BY <1>5, <1>6

\* A listing holds headers, whole resources and no parts of them.
LEMMA ListingFacts ==
  ASSUME NEW L \in SUBSET Ids, NEW f \in [L -> Details]
  PROVE  Listing(f) \in SUBSET Candidate /\ \A c \in Listing(f) : c.part = None
<1>1. ASSUME NEW i \in L
      PROVE  [id |-> i, part |-> None, score |-> f[i].score,
              supported |-> f[i].supported, pending |-> f[i].pending] \in Candidate
  <2>1. f[i] \in Details
    OBVIOUS
  <2> QED BY <2>1 DEF Details, Candidate
<1> QED BY <1>1 DEF Listing

-----------------------------------------------------------------------------
LEMMA TypeInit == Init => TypeOK
  BY DEF Init, TypeOK

LEMMA TypeNext == TypeOK /\ [Next]_vars => TypeOK'
<1> SUFFICES ASSUME TypeOK, [Next]_vars PROVE TypeOK'
  OBVIOUS
<1> USE DEF TypeOK, Scope, Choice, Finish, Goto
<1>1. CASE ReadBinding
  BY <1>1 DEF ReadBinding
<1>2. CASE BoundSpec
  BY <1>2 DEF BoundSpec, Settle
<1>3. CASE LocalSpec
  BY <1>3 DEF LocalSpec, Settle
<1>4. CASE IacSpec
  BY <1>4 DEF IacSpec
<1>5. CASE EnterCloud
  BY <1>5 DEF EnterCloud
<1>6. CASE CenterDefinition
  BY <1>6 DEF CenterDefinition
<1>7. CASE CollectHeaders
  <2>1. cands' \in SUBSET Candidate
    BY <1>7, ListingFacts DEF CollectHeaders
  <2> QED BY <1>7, <2>1 DEF CollectHeaders
<1>8. CASE FindRequested
  BY <1>8, ConstantsAssumption DEF FindRequested, Matches
<1>9. CASE HydrateRequested
  <2>1. target' \in Candidate
    BY <1>9, HydrationsFacts, target \in Candidate DEF HydrateRequested
  <2> QED BY <1>9, <2>1, ConstantsAssumption DEF HydrateRequested
<1>10. CASE CheckRequested
  BY <1>10 DEF CheckRequested
<1>11. CASE Narrow
  BY <1>11 DEF Narrow, Candidate
<1>12. CASE Rank
  <2>1. ASSUME NEW first \in Top(cands)
        PROVE  Selected(cands, first) \in SUBSET Candidate
    BY <2>1 DEF Selected, Best, Tied, Top
  <2> QED BY <1>12, <2>1 DEF Rank
<1>13. CASE Hydrate
  <2>1. cands' \in SUBSET Candidate /\ todo' \in SUBSET Candidate
    BY <1>13, HydrationsFacts DEF Hydrate
  <2> QED BY <1>13, <2>1 DEF Hydrate
<1>14. CASE HydrateFails
  BY <1>14 DEF HydrateFails
<1>15. CASE Decide
  BY <1>15, ConstantsAssumption DEF Decide, Best, Top
<1>16. CASE Ready
  BY <1>16, HydrationsFacts, winner \in Candidate DEF Ready
<1>17. CASE Export
  BY <1>17 DEF Export
<1>18. CASE UNCHANGED vars
  BY <1>18 DEF vars
<1> QED
  BY <1>1, <1>2, <1>3, <1>4, <1>5, <1>6, <1>7, <1>8, <1>9, <1>10, <1>11, <1>12,
     <1>13, <1>14, <1>15, <1>16, <1>17, <1>18 DEF Next

\* The variables keep their types, and a run has an outcome exactly when it is
\* done.
THEOREM TypeCorrect == Spec => []TypeOK
  BY TypeInit, TypeNext, PTL DEF Spec

-----------------------------------------------------------------------------
\* How far a run that calls Azure has come with the repository.
RepositoryInv ==
  /\ RepositoryFirst
  /\ pc \in {"bound", "local", "iac", "cloud"} => repo.config = "ok"
  /\ pc \in {"local", "iac", "cloud"} => repo.bound = "none"
  /\ pc \in {"iac", "cloud"} => repo.locals = 0
  /\ pc = "cloud" => repo.iac = 0

\* Azure is called only when the repository has neither an answer nor an
\* ambiguity.
THEOREM RepositoryComesFirst == Spec => []RepositoryFirst
<1>1. Init => RepositoryInv
  BY DEF Init, RepositoryInv, RepositoryFirst
<1>2. TypeOK /\ RepositoryInv /\ [Next]_vars => RepositoryInv'
  <2> SUFFICES ASSUME TypeOK, RepositoryInv, [Next]_vars PROVE RepositoryInv'
    OBVIOUS
  <2> USE DEF RepositoryInv, RepositoryFirst, Scope, Choice, Finish, Goto
  <2>1. CASE ReadBinding
    BY <2>1 DEF ReadBinding, TypeOK, Repository
  <2>2. CASE BoundSpec
    BY <2>2 DEF BoundSpec, Settle
  <2>3. CASE LocalSpec
    BY <2>3 DEF LocalSpec, Settle
  <2>4. CASE IacSpec
    BY <2>4 DEF IacSpec
  <2>5. CASE EnterCloud
    BY <2>5 DEF EnterCloud
  <2>6. CASE \/ CenterDefinition \/ CollectHeaders
             \/ FindRequested \/ HydrateRequested \/ CheckRequested
    BY <2>6 DEF CenterDefinition, CollectHeaders, FindRequested,
                HydrateRequested, CheckRequested
  <2>7. CASE \/ Narrow \/ Rank \/ Hydrate \/ HydrateFails \/ Decide \/ Ready
             \/ Export
    BY <2>7 DEF Narrow, Rank, Hydrate, HydrateFails, Decide, Ready, Export
  <2>8. CASE UNCHANGED vars
    BY <2>8 DEF vars
  <2> QED BY <2>1, <2>2, <2>3, <2>4, <2>5, <2>6, <2>7, <2>8 DEF Next
<1> QED BY <1>1, <1>2, TypeCorrect, PTL DEF Spec, RepositoryInv

-----------------------------------------------------------------------------
\* Stages before a candidate of Azure has been singled out.
Open == {"repository", "bound", "local", "iac", "cloud", "center", "headers",
         "byId", "narrow", "rank", "hydrate"}

Exporting == pc = "export" \/ outcome = "resolved"

\* The requested resource, and the only one the request matches.
Requested ==
  /\ target.part = None
  /\ target.id \in named
  /\ \A c \in cands : c.id \in named => c.id = target.id

\* What the choice of a winner and of a target rests on at each stage.
ChoiceInv ==
  /\ pc \in Open => winner = None /\ how \notin {"api"}
  /\ pc \in Open => (how = "ranked" <=> pc = "hydrate")
  /\ pc \in {"byId", "narrow"} => \A c \in cands : c.part = None
  /\ pc \in {"hydrateId", "checkId"} => how = "api" /\ Requested
  /\ pc = "checkId" => ~ target.pending
  /\ pc = "ready" => how = "ranked" /\ target = winner
  /\ winner # None =>
       /\ pc \in {"ready", "export", "done"}
       /\ how = "ranked"
       /\ winner \in cands
       /\ Decisive(cands, winner)
       /\ Chosen(winner) \/ winner \in Top(cands)
  /\ Exporting /\ how = "ranked" =>
       /\ winner # None
       /\ target # None /\ target.id = winner.id
       /\ ~ target.pending
  /\ Exporting /\ how = "api" =>
       /\ target # None /\ target.id \in versioned /\ Requested
       /\ ~ target.pending
  /\ outcome = "resolved" /\ how \in {"ranked", "api"} => target.supported

\* Who is decisive, selected or first depends on the candidates and on the
\* selection only.
LEMMA DecisionFrame ==
  ASSUME cands' = cands, exact' = exact
  PROVE  /\ \A c : Decisive(cands, c)' = Decisive(cands, c)
         /\ \A c : Chosen(c)' = Chosen(c)
         /\ Top(cands)' = Top(cands)
  BY DEF Decisive, Unambiguous, Confidence, Chosen, Top

LEMMA ChoiceInit == Init => ChoiceInv
  BY DEF Init, ChoiceInv, Open, Exporting

LEMMA ChoiceNext == TypeOK /\ ChoiceInv /\ [Next]_vars => ChoiceInv'
<1> SUFFICES ASSUME TypeOK, ChoiceInv, [Next]_vars PROVE ChoiceInv'
  OBVIOUS
<1> USE DEF Scope, Choice, Finish, Goto
<1>1. CASE ReadBinding
  BY <1>1 DEF ReadBinding, ChoiceInv, Open, Exporting, TypeOK
<1>2. CASE BoundSpec
  BY <1>2 DEF BoundSpec, Settle, ChoiceInv, Open, Exporting, TypeOK
<1>3. CASE LocalSpec
  BY <1>3 DEF LocalSpec, Settle, ChoiceInv, Open, Exporting, TypeOK
<1>4. CASE IacSpec
  BY <1>4 DEF IacSpec, ChoiceInv, Open, Exporting, TypeOK
<1>5. CASE EnterCloud
  BY <1>5 DEF EnterCloud, ChoiceInv, Open, Exporting, TypeOK
<1>6. CASE CenterDefinition
  BY <1>6 DEF CenterDefinition, ChoiceInv, Open, Exporting, TypeOK
<1>7. CASE CollectHeaders
  <2>1. \A c \in cands' : c.part = None
    BY <1>7, ListingFacts DEF CollectHeaders
  <2> QED BY <1>7, <2>1 DEF CollectHeaders, ChoiceInv, Open, Exporting, TypeOK
<1>8. CASE FindRequested
  BY <1>8 DEF FindRequested, Matches, ChoiceInv, Open, Exporting, Requested, TypeOK
<1>9. CASE HydrateRequested
  <2>1. target \in Candidate /\ Requested /\ how = "api" /\ winner = None
    BY <1>9 DEF HydrateRequested, ChoiceInv, TypeOK
  <2>2. CASE pc' = "checkId"
    <3>1. target'.part = None /\ target'.id = target.id /\ ~ target'.pending
      BY <1>9, <2>1, <2>2, HydrationsFacts DEF HydrateRequested
    <3> QED BY <1>9, <2>1, <2>2, <3>1
            DEF HydrateRequested, ChoiceInv, Open, Exporting, Requested, TypeOK
  <2>3. CASE pc' = "done"
    BY <1>9, <2>1, <2>3 DEF HydrateRequested, ChoiceInv, Open, Exporting, TypeOK
  <2> QED BY <1>9, <2>2, <2>3 DEF HydrateRequested
<1>10. CASE CheckRequested
  BY <1>10 DEF CheckRequested, ChoiceInv, Open, Exporting, Requested, TypeOK
<1>11. CASE Narrow
  BY <1>11 DEF Narrow, ChoiceInv, Open, Exporting, TypeOK
<1>12. CASE Rank
  BY <1>12 DEF Rank, ChoiceInv, Open, Exporting, TypeOK
<1>13. CASE Hydrate \/ HydrateFails
  BY <1>13 DEF Hydrate, HydrateFails, ChoiceInv, Open, Exporting, TypeOK
<1>14. CASE Decide
  <2> PICK first \in Top(cands) :
        IF Decisive(cands, Best(cands, first))
           /\ \A top \in Leading(cands) : Cardinality(Tied(cands, top)) <= 1
        THEN /\ winner' = Best(cands, first)
             /\ target' = Best(cands, first)
             /\ Goto("ready")
        ELSE Finish("review") /\ UNCHANGED <<winner, target>>
    BY <1>14 DEF Decide
  <2>1. Best(cands, first) \in cands
    BY DEF Best, Top
  <2>2. Chosen(Best(cands, first)) \/ Best(cands, first) \in Top(cands)
    BY DEF Best
  <2>3. how = "ranked" /\ winner = None
    BY <1>14 DEF Decide, ChoiceInv, Open
  <2> QED
    BY <1>14, <2>1, <2>2, <2>3, DecisionFrame
    DEF Decide, ChoiceInv, Open, Exporting, TypeOK
<1>15. CASE Ready
  <2>1. winner \in Candidate /\ target = winner /\ how = "ranked"
    BY <1>15 DEF Ready, ChoiceInv, TypeOK
  <2>2. CASE pc' = "export"
    <3>1. target' # None /\ target'.id = winner.id /\ ~ target'.pending
      BY <1>15, <2>1, <2>2, HydrationsFacts, ConstantsAssumption DEF Ready
    <3> QED BY <1>15, <2>1, <2>2, <3>1, DecisionFrame
            DEF Ready, ChoiceInv, Open, Exporting, TypeOK
  <2>3. CASE pc' = "done"
    BY <1>15, <2>1, <2>3, DecisionFrame
    DEF Ready, ChoiceInv, Open, Exporting, TypeOK
  <2> QED BY <1>15, <2>2, <2>3 DEF Ready
<1>16. CASE Export
  BY <1>16, DecisionFrame DEF Export, ChoiceInv, Open, Exporting, Requested, TypeOK
<1>17. CASE UNCHANGED vars
  BY <1>17, DecisionFrame DEF vars, ChoiceInv, Open, Exporting, Requested, TypeOK
<1> QED
  BY <1>1, <1>2, <1>3, <1>4, <1>5, <1>6, <1>7, <1>8, <1>9, <1>10, <1>11, <1>12,
     <1>13, <1>14, <1>15, <1>16, <1>17 DEF Next

THEOREM ChoiceInvariant == Spec => []ChoiceInv
  BY ChoiceInit, ChoiceNext, TypeCorrect, PTL DEF Spec

\* After every hydration the winner is ahead of all others or the exact
\* selection: a tie, with whatever candidate, is never resolved.
THEOREM WinnerIsUnique == Spec => []UniqueWinner
<1>1. TypeOK /\ ChoiceInv => UniqueWinner
  <2> SUFFICES ASSUME TypeOK, ChoiceInv, Resolved("ranked") PROVE UniqueWinner
    BY DEF UniqueWinner
  <2>1. /\ winner \in cands /\ Decisive(cands, winner)
        /\ Chosen(winner) \/ winner \in Top(cands)
    BY DEF ChoiceInv, Exporting, Resolved
  <2>2. ASSUME ~ Chosen(winner), NEW c \in cands \ {winner}
        PROVE  c.score < winner.score
    <3>1. c.score \in Nat /\ winner.score \in Nat
      BY <2>1, ConstantsAssumption DEF TypeOK, Candidate
    <3>2. winner.score # 0 /\ c.score # winner.score
      BY <2>1, <2>2, <3>1, ConstantsAssumption DEF Decisive, Unambiguous, Confidence
    <3>3. c.score <= winner.score
      BY <2>1, <2>2 DEF Top
    <3> QED BY <3>1, <3>2, <3>3
  <2> QED BY <2>1, <2>2 DEF UniqueWinner, Decisive
<1> QED BY <1>1, TypeCorrect, ChoiceInvariant, PTL

\* What is exported from Azure has been read in detail and is supported.
THEOREM ExportedIsRead == Spec => []NeverBlind
<1>1. ChoiceInv => NeverBlind
  BY DEF ChoiceInv, NeverBlind, Resolved, Exporting
<1> QED BY <1>1, ChoiceInvariant, PTL

\* A requested api-id leads to the one resource it matches, in the requested
\* version and revision.
THEOREM RequestIsHonoured == Spec => []RequestedApiExported
<1>1. ChoiceInv => RequestedApiExported
  BY DEF ChoiceInv, RequestedApiExported, Resolved, Exporting, Requested
<1> QED BY <1>1, ChoiceInvariant, PTL

\* All three: no resolution by Azure is a guess.
THEOREM NoGuess == Spec => []ChoiceIsJustified
  BY WinnerIsUnique, ExportedIsRead, RequestIsHonoured, PTL DEF ChoiceIsJustified

\* From the decision on, the run exports or fails.
THEOREM DecisionStands == Spec => DecidedIsNotSkipped
<1>1. TypeOK /\ ChoiceInv /\ [Next]_vars => [winner # None => outcome' # "review"]_vars
  <2> SUFFICES ASSUME TypeOK, ChoiceInv, Next, winner # None
               PROVE  outcome' # "review"
    OBVIOUS
  <2>1. pc \in {"ready", "export", "done"} /\ winner \in Candidate
    BY DEF ChoiceInv, TypeOK
  <2>2. Ready \/ Export
    BY <2>1
    DEF Next, ReadBinding, BoundSpec, LocalSpec, IacSpec, EnterCloud,
        CenterDefinition, CollectHeaders, FindRequested, HydrateRequested,
        CheckRequested, Narrow, Rank, Hydrate, HydrateFails, Decide
  <2> QED BY <2>2 DEF Ready, Export, Finish, Goto, TypeOK
<1> QED BY <1>1, TypeCorrect, ChoiceInvariant, PTL DEF Spec, DecidedIsNotSkipped

-----------------------------------------------------------------------------
\* Hydration keeps a selection that is not a template spec.
SelectionInv ==
  exact \notin Expandable \cup {None} =>
    /\ pc \in {"rank", "hydrate", "ready", "export", "done"}
    /\ pc \in {"rank", "hydrate"} => \E c \in cands : Chosen(c)
    /\ winner # None => winner.id = exact

\* An exact selection that is not a template spec is what the run resolves to,
\* if it resolves by ranking, whatever the other candidates turn into.
THEOREM SelectionIsKept == Spec => []ExactSelectionKept
<1>1. Init => SelectionInv
  BY DEF Init, SelectionInv
<1>2. TypeOK /\ ChoiceInv /\ SelectionInv /\ [Next]_vars => SelectionInv'
  <2> SUFFICES ASSUME TypeOK, ChoiceInv, SelectionInv, [Next]_vars
               PROVE  SelectionInv'
    OBVIOUS
  <2> USE DEF SelectionInv, Scope, Choice, Finish, Goto
  <2>1. CASE \/ ReadBinding \/ BoundSpec \/ LocalSpec \/ IacSpec \/ EnterCloud
             \/ CenterDefinition \/ CollectHeaders
             \/ FindRequested \/ HydrateRequested \/ CheckRequested
    BY <2>1 DEF ReadBinding, BoundSpec, Settle, LocalSpec, IacSpec, EnterCloud,
                CenterDefinition, CollectHeaders, FindRequested,
                HydrateRequested, CheckRequested
  <2>2. CASE Narrow
    BY <2>2 DEF Narrow, ChoiceInv, Open, Chosen
  <2>3. CASE Rank
    BY <2>3 DEF Rank, ChoiceInv, Open, Chosen
  <2>4. CASE Hydrate
    <3> PICK h \in todo : \E H \in Hydrations(h) : cands' = (cands \ {h}) \cup H
      BY <2>4 DEF Hydrate
    <3>1. PICK H \in Hydrations(h) : cands' = (cands \ {h}) \cup H
      OBVIOUS
    <3>2. h \in Candidate
      BY DEF TypeOK
    <3>3. h.id \notin Expandable => \E c \in H : c.part = h.part /\ c.id = h.id
      BY <3>1, <3>2, HydrationsFacts
    <3>4. exact \notin Expandable /\ (\E c \in cands : Chosen(c)) =>
            \E c \in cands' : c.id = exact /\ c.part = None
      BY <3>1, <3>3 DEF Chosen
    <3> QED BY <2>4, <3>4 DEF Hydrate, Chosen, ChoiceInv, Open
  <2>5. CASE HydrateFails
    BY <2>5 DEF HydrateFails, ChoiceInv, Open
  <2>6. CASE Decide
    <3>1. exact \notin Expandable \cup {None} =>
            \A first : Chosen(Best(cands, first))
      BY <2>6 DEF Decide, Best
    <3> QED BY <2>6, <3>1 DEF Decide, Chosen, ChoiceInv, Open
  <2>7. CASE Ready \/ Export
    BY <2>7 DEF Ready, Export
  <2>8. CASE UNCHANGED vars
    BY <2>8 DEF vars, Chosen
  <2> QED BY <2>1, <2>2, <2>3, <2>4, <2>5, <2>6, <2>7, <2>8 DEF Next
<1>3. ChoiceInv /\ SelectionInv => ExactSelectionKept
  BY DEF ChoiceInv, SelectionInv, ExactSelectionKept, Resolved, Exporting
<1> QED BY <1>1, <1>2, <1>3, TypeCorrect, ChoiceInvariant, PTL DEF Spec
===============================================================================
