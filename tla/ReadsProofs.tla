------------------------------ MODULE ReadsProofs ------------------------------
(***************************************************************************)
(* Proofs about the modules that Reads puts side by side, for any          *)
(* subscriptions, links, hosts, sites and ceilings.                        *)
(*                                                                         *)
(* Each part has an inductive invariant of its own, and one theorem; that  *)
(* it is about the steps of ReadsSpec is shown once, in PartsStart and     *)
(* PartsStep.                                                              *)
(***************************************************************************)
EXTENDS Reads, NativeClosureProofs

\* What the exports know of the fetches they start, whichever starts them.
Link == INSTANCE SpecFetch

LEMMA Ceilings ==
  /\ {MaxServices, MaxChildren, MaxInventory, MaxRedirects, MaxBytes, MaxWall} \subseteq Nat
  /\ {MaxAttempts, MaxPolls, MaxPages} \subseteq Nat \ {0}
BY ReadsAssumption

-----------------------------------------------------------------------------
(* The parts.                                                              *)

\* A behaviour begins as one of the parts does.
LEMMA PartsStart ==
  ASSUME ReadsInit
  PROVE  /\ part = "access" => Access!Init
         /\ part = "center" => Center!Init
         /\ part = "minting" => Minting!Init
         /\ part = "polling" => Polling!Init
         /\ part = "site" => Site!Init
         /\ part = "logic" => Logic!Init
         /\ part = "apim" => Apim!Init
         /\ part = "graph" => Graph!Init
         /\ part = "roster" => Roster!Init
         /\ part = "fan" => Fan!Init
BY DEF ReadsInit, ClosureInit, AccessInit, FanInit, GraphInit, RosterInit, ApimInit,
       CenterInit, MintingInit, PollingInit, SiteInit, LogicInit

\* It stays with that part, and takes its steps.
LEMMA PartsStep ==
  ASSUME [ReadsNext]_all
  PROVE  /\ part' = part
         /\ part = "access" => [Access!Next]_Access!scopesVars
         /\ part = "center" => [Center!Next]_Center!inventoryVars
         /\ part = "minting" => [Minting!Next]_Minting!exportVars
         /\ part = "polling" => [Polling!Next]_Polling!centerVars
         /\ part = "site" => [Site!Next]_<<Site!siteVars, Site!fetchVars>>
         /\ part = "logic" => [Logic!Next]_Logic!logicVars
         /\ part = "apim" => [Apim!Next]_Apim!listingVars
         /\ part = "graph" => [Graph!Next]_Graph!enrichmentVars
         /\ part = "roster" => [Roster!Next]_Roster!estateVars
         /\ part = "fan" => [Fan!Next]_Fan!fanoutVars
<1>1. CASE ReadsNext
  BY <1>1 DEF ReadsNext, ClosureStep, AccessStep, FanStep, GraphStep, RosterStep,
              ApimStep, CenterStep, MintingStep, PollingStep, SiteStep, LogicStep
<1>2. CASE UNCHANGED all
  <2>1. /\ UNCHANGED <<part, step, outcome, accessVars, fanVars, poolVars, graphVars,
                       estateVars, apimVars, centerVars>>
        /\ UNCHANGED <<linkVars, mintVars, pollVars, siteVars, flowVars>>
    BY <1>2 DEF all, runtimeVars
  <2>2. UNCHANGED <<fetchVars, attempt>>
    BY <2>1 DEF linkVars
  <2>3. UNCHANGED Access!scopesVars /\ UNCHANGED Center!inventoryVars
    BY <2>1 DEF accessVars, Access!scopesVars, centerVars, Center!inventoryVars
  <2>4. UNCHANGED Minting!exportVars
    BY <2>1, <2>2 DEF Minting!exportVars, Minting!fetchVars, fetchVars, mintVars
  <2>5. UNCHANGED Polling!centerVars
    BY <2>1, <2>2 DEF Polling!centerVars, Polling!wireVars, Polling!fetchVars, fetchVars,
                      pollVars
  <2>6. UNCHANGED <<Site!siteVars, Site!fetchVars>>
    BY <2>1, <2>2 DEF Site!siteVars, Site!fetchVars, fetchVars, siteVars
  <2>7. UNCHANGED Logic!logicVars /\ UNCHANGED Apim!listingVars
    BY <2>1 DEF Logic!logicVars, flowVars, Apim!listingVars, apimVars
  <2>8. UNCHANGED Graph!enrichmentVars /\ UNCHANGED Roster!estateVars
    BY <2>1 DEF Graph!enrichmentVars, Graph!graph, Graph!pool, graphVars, poolVars,
                Roster!estateVars, Roster!estate, Roster!pool, estateVars
  <2>9. UNCHANGED Fan!fanoutVars
    BY <2>1 DEF Fan!fanoutVars, fanVars
  <2> QED
    BY <2>1, <2>3, <2>4, <2>5, <2>6, <2>7, <2>8, <2>9
<1> QED
  BY <1>1, <1>2

-----------------------------------------------------------------------------
(* Scopes.                                                                 *)

LEMMA AccessCardinality == \A S : Access!Cardinality(S) = Cardinality(S)
BY DEF Access!Cardinality, Cardinality, Access!IsFiniteSet, IsFiniteSet

\* What is verified so far is a prefix of what was given, and every id of it
\* can be seen; without ids nothing is verified before the choice.
ScopesInv ==
  /\ access.enabled \in SUBSET SubscriptionIds
  /\ {asked, explicit, chosen} \subseteq Seq(SubscriptionIds)
  /\ step \in {"verify", "list", "done"}
  /\ outcome \in {"pending", "ok", "lookup", "listing", "invisible", "ambiguous"}
  /\ outcome # "pending" <=> step = "done"
  /\ step = "verify" => explicit # <<>>
  /\ asked # <<>> =>
       /\ asked = chosen \o explicit
       /\ Access!Elements(chosen) \subseteq access.readable \cup access.listed
       /\ step = "list" => explicit # <<>>
       /\ outcome = "ok" => explicit = <<>>
  /\ asked = <<>> =>
       /\ explicit = <<>>
       /\ step # "done" => chosen = <<>>
       /\ outcome = "ok" => \E id \in access.enabled :
                              chosen = <<id>> /\ access.enabled = {id}

\* What one more id adds.
LEMMA AppendFacts ==
  ASSUME NEW S, NEW s \in Seq(S), NEW t \in Seq(S), t # <<>>
  PROVE  /\ Append(s, Head(t)) \in Seq(S)
         /\ Tail(t) \in Seq(S)
         /\ Append(s, Head(t)) \o Tail(t) = s \o t
         /\ Access!Elements(Append(s, Head(t))) = Access!Elements(s) \cup {Head(t)}
<1>1. Head(t) \in S /\ Tail(t) \in Seq(S) /\ Len(Tail(t)) = Len(t) - 1
  BY HeadTailProperties
<1>2. Append(s, Head(t)) \in Seq(S) /\ Len(Append(s, Head(t))) = Len(s) + 1
  BY <1>1, AppendProperties
<1>3. /\ \A i \in 1 .. Len(s) : Append(s, Head(t))[i] = s[i]
      /\ Append(s, Head(t))[Len(s) + 1] = Head(t)
  BY <1>1, AppendProperties
<1>4. Append(s, Head(t)) \o Tail(t) = s \o t
  BY <1>1, <1>2, <1>3, SeqEqual
<1>5. DOMAIN s = 1 .. Len(s) /\ Len(s) \in Nat
      /\ DOMAIN Append(s, Head(t)) = 1 .. Len(s) + 1
  BY <1>1, AppendProperties, LenProperties
<1> QED
  BY <1>1, <1>2, <1>3, <1>4, <1>5, SMTT(30) DEF Access!Elements

LEMMA AccessStarts == Access!Init => ScopesInv
<1> SUFFICES ASSUME Access!Init PROVE ScopesInv
  OBVIOUS
<1>1. asked \in Seq(SubscriptionIds)
  <2>1. asked \in [1 .. 2 -> SubscriptionIds] \cup [1 .. 1 -> SubscriptionIds] \cup {<<>>}
    BY DEF Access!Init
  <2>2. ASSUME NEW n \in Nat, asked \in [1 .. n -> SubscriptionIds]
        PROVE  asked \in Seq(SubscriptionIds)
    BY <2>2, SeqDef
  <2>3. CASE asked \in [1 .. 2 -> SubscriptionIds]
    BY <2>2, <2>3
  <2>4. CASE asked \in [1 .. 1 -> SubscriptionIds]
    BY <2>2, <2>4
  <2>5. CASE asked = <<>>
    <3>1. <<>> \in Seq(SubscriptionIds)
      OBVIOUS
    <3> QED
      BY <2>5, <3>1
  <2>6. \/ asked \in [1 .. 2 -> SubscriptionIds]
        \/ asked \in [1 .. 1 -> SubscriptionIds]
        \/ asked = <<>>
    BY <2>1, Zenon
  <2> QED
    BY <2>3, <2>4, <2>5, <2>6, Zenon
<1>2. <<>> \o asked = asked
  BY <1>1, ConcatEmptySeq
<1>3. Access!Elements(<<>>) = {}
  BY DEF Access!Elements
<1>4. <<>> \in Seq(SubscriptionIds)
  OBVIOUS
<1> QED
  BY <1>1, <1>2, <1>3, <1>4 DEF Access!Init, ScopesInv

\* An id given is accepted: it was read by id, or is listed.
LEMMA AccessAccepting ==
  ASSUME ScopesInv, asked # <<>>, explicit # <<>>,
         Head(explicit) \in access.readable \cup access.listed,
         Access!Accept(Head(explicit), Tail(explicit))
  PROVE  ScopesInv'
<1>1. /\ chosen' = Append(chosen, Head(explicit))
      /\ explicit' = Tail(explicit)
      /\ chosen \in Seq(SubscriptionIds) /\ explicit \in Seq(SubscriptionIds)
      /\ access' = access /\ asked' = asked
  BY DEF ScopesInv, Access!Accept
<1>2. /\ chosen' \in Seq(SubscriptionIds)
      /\ explicit' \in Seq(SubscriptionIds)
      /\ chosen' \o explicit' = chosen \o explicit
      /\ Access!Elements(chosen') = Access!Elements(chosen) \cup {Head(explicit)}
  BY <1>1, AppendFacts, SMTT(30)
<1>3. Access!Elements(chosen)' = Access!Elements(chosen')
  BY DEF Access!Elements
<1> QED
  BY <1>1, <1>2, <1>3 DEF ScopesInv, Access!Accept

LEMMA AccessStays ==
  ASSUME ScopesInv, [Access!Next]_Access!scopesVars
  PROVE  ScopesInv'
<1>1. CASE Access!LookedUp
  <2>1. asked # <<>> /\ explicit # <<>>
    BY <1>1 DEF Access!LookedUp, ScopesInv
  <2> QED
    BY <1>1, <2>1, AccessAccepting DEF Access!LookedUp
<1>2. CASE Access!Denied
  BY <1>2 DEF Access!Denied, ScopesInv, Access!Elements
<1>3. CASE Access!LookupFails
  BY <1>3 DEF Access!LookupFails, Access!Throw, ScopesInv, Access!Elements
<1>4. CASE Access!Listed
  <2>1. asked # <<>>
    BY <1>4 DEF Access!Listed, ScopesInv
  <2>2. CASE Head(explicit) \in access.listed
    BY <1>4, <2>1, <2>2, AccessAccepting DEF Access!Listed
  <2>3. CASE Head(explicit) \notin access.listed
    BY <1>4, <2>3 DEF Access!Listed, Access!Throw, ScopesInv, Access!Elements
  <2> QED
    BY <2>2, <2>3
<1>5. CASE Access!TakeOnly
  <2>1. asked = <<>> /\ explicit = <<>> /\ chosen = <<>>
    BY <1>5 DEF Access!TakeOnly, ScopesInv
  <2>2. CASE Access!Cardinality(access.enabled) = 1
                /\ \E id \in access.enabled : Access!Accept(id, <<>>)
    <3>1. PICK id \in access.enabled : Access!Accept(id, <<>>)
      BY <2>2
    <3>2. IsFiniteSet(access.enabled)
      BY FS_Subset, ReadsAssumption DEF ScopesInv
    <3>3. access.enabled = {id}
      BY <2>2, <3>2, AccessCardinality, FS_Singleton
    <3>4. id \in SubscriptionIds
      BY DEF ScopesInv
    <3>5. chosen' = <<id>> /\ chosen' \in Seq(SubscriptionIds)
      BY <2>1, <3>1, <3>4 DEF Access!Accept
    <3> QED
      BY <2>1, <3>1, <3>3, <3>5 DEF Access!Accept, ScopesInv
  <2>3. CASE Access!Cardinality(access.enabled) # 1 /\ Access!Throw("ambiguous")
    BY <2>1, <2>3 DEF Access!Throw, ScopesInv, Access!Elements
  <2> QED
    BY <1>5, <2>2, <2>3 DEF Access!TakeOnly
<1>6. CASE Access!ListingFails
  BY <1>6 DEF Access!ListingFails, Access!Throw, ScopesInv, Access!Elements
<1>7. CASE UNCHANGED Access!scopesVars
  BY <1>7 DEF Access!scopesVars, ScopesInv, Access!Elements
<1> QED
  BY <1>1, <1>2, <1>3, <1>4, <1>5, <1>6, <1>7 DEF Access!Next

LEMMA AccessMeans == ScopesInv => Access!ScopesVerified
<1> SUFFICES ASSUME ScopesInv, outcome = "ok"
             PROVE  IF asked = <<>>
                    THEN Len(chosen) = 1 /\ Access!Elements(chosen) = access.enabled
                    ELSE chosen = asked
                         /\ Access!Elements(chosen) \subseteq access.readable \cup access.listed
  BY DEF Access!ScopesVerified
<1>1. CASE asked = <<>>
  <2>1. PICK id \in access.enabled : chosen = <<id>> /\ access.enabled = {id}
    BY <1>1 DEF ScopesInv
  <2> QED
    BY <1>1, <2>1 DEF Access!Elements
<1>2. CASE asked # <<>>
  <2>1. asked = chosen \o explicit /\ explicit = <<>> /\ chosen \in Seq(SubscriptionIds)
    BY <1>2 DEF ScopesInv
  <2>2. chosen \o explicit = chosen
    BY <2>1, ConcatEmptySeq
  <2> QED
    BY <1>2, <2>1, <2>2 DEF ScopesInv
<1> QED
  BY <1>1, <1>2

LEMMA AccessHolds == ReadsSpec => [](part = "access" => ScopesInv)
<1> DEFINE Inv == part = "access" => ScopesInv
<1>1. ReadsInit => Inv
  BY PartsStart, AccessStarts
<1>2. Inv /\ [ReadsNext]_all => Inv'
  BY PartsStep, AccessStays
<1> QED
  BY <1>1, <1>2, PTL DEF ReadsSpec

\* A run that goes on does so with exactly the ids it was given, each seen by
\* the credential, or with the only enabled subscription there is.
THEOREM ScopesAreVerified == ReadsSpec => []ScopesVerified
<1>1. (part = "access" => ScopesInv) => ScopesVerified
  BY AccessMeans DEF ScopesVerified
<1> QED
  BY <1>1, AccessHolds, PTL

-----------------------------------------------------------------------------
(* ApiCenterInventory.                                                     *)

\* Whatever is left out is told by `truncated`, and a walk that ends well has
\* nothing left to visit and was never cut.
InventoryInv ==
  /\ todo \in Seq(1 .. Center!Definition)
  /\ truncated \in BOOLEAN
  /\ definitions \in 0 .. MaxInventory
  /\ missed \in Nat
  /\ outcome \in {"pending", "ok", "threw"}
  /\ truncated <=> missed > 0
  /\ outcome = "ok" => todo = <<>> /\ ~ truncated

LEMMA CenterStarts ==
  ASSUME Center!Init
  PROVE  InventoryInv
<1>1. PICK n \in 0 .. MaxServices : todo = [i \in 1 .. n |-> 1]
  BY DEF Center!Init
<1>2. todo \in Seq(1 .. Center!Definition)
  BY <1>1, SeqDef, Ceilings DEF Center!Definition
<1>3. truncated \in BOOLEAN /\ ~ truncated
  BY Zenon DEF Center!Init
<1>4. ~ (missed > 0)
  BY DEF Center!Init
<1> QED
  BY <1>2, <1>3, <1>4, Ceilings DEF Center!Init, InventoryInv

\* The children put before the rest of the walk are one level further down.
LEMMA Deeper ==
  ASSUME todo \in Seq(1 .. Center!Definition), todo # <<>>, Head(todo) < Center!Definition,
         NEW kept \in Nat
  PROVE  [i \in 1 .. kept |-> Head(todo) + 1] \o Tail(todo) \in Seq(1 .. Center!Definition)
<1>1. Head(todo) \in 1 .. Center!Definition /\ Tail(todo) \in Seq(1 .. Center!Definition)
  BY HeadTailProperties
<1>2. Head(todo) + 1 \in 1 .. Center!Definition
  BY <1>1 DEF Center!Definition
<1>3. [i \in 1 .. kept |-> Head(todo) + 1] \in Seq(1 .. Center!Definition)
  BY <1>2, SeqDef
<1> QED
  BY <1>1, <1>3, ConcatProperties

LEMMA CenterStays ==
  ASSUME InventoryInv, [Center!Next]_Center!inventoryVars
  PROVE  InventoryInv'
<1>1. CASE Center!Visit
  <2>1. PICK n \in 0 .. MaxChildren + 1 :
          /\ todo' = [i \in 1 .. Center!Least(n, MaxChildren) |-> Head(todo) + 1] \o Tail(todo)
          /\ truncated' = (truncated \/ n > MaxChildren)
          /\ missed' = missed + (n - Center!Least(n, MaxChildren))
    BY <1>1 DEF Center!Visit
  <2>2. Center!Least(n, MaxChildren) \in Nat
    BY Ceilings DEF Center!Least
  <2>3. todo' \in Seq(1 .. Center!Definition)
    BY <1>1, <2>1, <2>2, Deeper DEF Center!Visit, InventoryInv
  <2>4. CASE n > MaxChildren
    <3>1. missed' = missed + 1 /\ missed' \in Nat
      BY <2>1, <2>4, Ceilings, SMTT(30) DEF Center!Least, InventoryInv
    <3>2. truncated' = TRUE
      BY <2>1, <2>4
    <3> QED
      BY <1>1, <2>3, <3>1, <3>2 DEF Center!Visit, InventoryInv
  <2>5. CASE ~ (n > MaxChildren)
    <3>1. missed' = missed
      BY <2>1, <2>5, Ceilings, SMTT(30) DEF Center!Least, InventoryInv
    <3>2. truncated' = truncated
      BY <2>1, <2>5, Zenon DEF InventoryInv
    <3> QED
      BY <1>1, <2>3, <3>1, <3>2 DEF Center!Visit, InventoryInv
  <2> QED
    BY <2>4, <2>5
<1>2. CASE Center!ListingFails
  BY <1>2 DEF Center!ListingFails, InventoryInv
<1>3. CASE Center!Collect
  <2>1. Tail(todo) \in Seq(1 .. Center!Definition) /\ <<>> \in Seq(1 .. Center!Definition)
    BY <1>3, HeadTailProperties, EmptySeq DEF Center!Collect, InventoryInv
  <2>2. CASE definitions >= MaxInventory
    BY <1>3, <2>1, <2>2, Ceilings DEF Center!Collect, InventoryInv
  <2>3. CASE ~ (definitions >= MaxInventory)
    <3>1. definitions' \in 0 .. MaxInventory
      BY <1>3, <2>3, Ceilings DEF Center!Collect, InventoryInv
    <3> QED
      BY <1>3, <2>1, <2>3, <3>1 DEF Center!Collect, InventoryInv
  <2> QED
    BY <2>2, <2>3
<1>4. CASE Center!Conclude
  BY <1>4 DEF Center!Conclude, InventoryInv
<1>5. CASE UNCHANGED Center!inventoryVars
  BY <1>5 DEF Center!inventoryVars, InventoryInv
<1> QED
  BY <1>1, <1>2, <1>3, <1>4, <1>5 DEF Center!Next

LEMMA CenterHolds == ReadsSpec => [](part = "center" => InventoryInv)
<1> DEFINE Inv == part = "center" => InventoryInv
<1>1. ReadsInit => Inv
  BY PartsStart, CenterStarts
<1>2. Inv /\ [ReadsNext]_all => Inv'
  BY PartsStep, CenterStays
<1> QED
  BY <1>1, <1>2, PTL DEF ReadsSpec

\* The headers of a service come from a whole inventory or not at all: a
\* ceiling on any level, or on the whole, that left something out stops the
\* listing, and a ceiling that was only just met does not.
THEOREM InventoryStaysWhole == ReadsSpec => []InventoryIsWhole
<1>1. (part = "center" => InventoryInv) => InventoryIsWhole
  BY DEF InventoryInv, Center!InventoryIsWhole, InventoryIsWhole
<1> QED
  BY <1>1, CenterHolds, PTL

-----------------------------------------------------------------------------
(* SpecFetch.                                                              *)

\* The fetch under way: nothing is lost of the body between what the server
\* sends and what is kept, and no hop leaves the first host.
FetchInv ==
  /\ Link!FetchTyped
  /\ fetch \notin {"idle", "failed"} => HostOf[url] = HostOf[first]
  /\ fetch \in {"resolve", "request"} => body = 0 /\ sent = 0 /\ ~ whole
  /\ fetch = "read" => body = sent /\ ~ whole
  /\ fetch = "ok" => body = sent /\ whole /\ ~ late

\* No fetch has been asked for.
LEMMA FetchIdle ==
  ASSUME Link!NoFetch
  PROVE  FetchInv
<1>1. late \in BOOLEAN /\ whole \in BOOLEAN
  BY Zenon DEF Link!NoFetch
<1>2. Link!FetchTyped
  BY <1>1, Ceilings DEF Link!NoFetch, Link!FetchTyped
<1> QED
  BY <1>2 DEF Link!NoFetch, FetchInv

LEMMA FetchStarts ==
  ASSUME NEW u \in Urls, Link!StartFetch(u)
  PROVE  FetchInv'
<1>1. /\ first' = u /\ url' = u /\ hop' = 0 /\ body' = 0 /\ sent' = 0
      /\ late' = FALSE /\ whole' = FALSE
      /\ fetch' \in {"resolve", "failed"}
  BY DEF Link!StartFetch
<1>2. late' \in BOOLEAN /\ whole' \in BOOLEAN
  BY <1>1, Zenon
<1>3. Link!FetchTyped'
  BY <1>1, <1>2, Ceilings DEF Link!FetchTyped, Link!Ended
<1> QED
  BY <1>1, <1>3 DEF FetchInv

LEMMA FetchSteps ==
  ASSUME FetchInv, Link!FetchStep
  PROVE  FetchInv'
<1>1. CASE Link!Resolve
  BY <1>1 DEF Link!Resolve, Link!Ends, FetchInv, Link!FetchTyped, Link!Ended
<1>2. CASE Link!RequestFails
  BY <1>2 DEF Link!RequestFails, Link!Ends, FetchInv, Link!FetchTyped, Link!Ended
<1>3. CASE \E u \in Urls : Link!Redirect(u)
  <2>1. PICK u \in Urls : Link!Redirect(u)
    BY <1>3
  <2> QED
    BY <2>1, Ceilings DEF Link!Redirect, Link!Answerable, Link!Ends, FetchInv, Link!FetchTyped, Link!Ended
<1>4. CASE Link!Refused
  BY <1>4 DEF Link!Refused, Link!Answerable, Link!Ends, FetchInv, Link!FetchTyped, Link!Ended
<1>5. CASE Link!Accepted
  BY <1>5 DEF Link!Accepted, Link!Answerable, Link!Ends, FetchInv, Link!FetchTyped, Link!Ended
<1>6. CASE \E n \in 1 .. MaxBytes : Link!Chunk(n)
  <2>1. PICK n \in 1 .. MaxBytes : Link!Chunk(n)
    BY <1>6
  <2>2. sent' \in Nat
    BY <2>1, Ceilings DEF Link!Chunk, FetchInv, Link!FetchTyped
  <2> QED
    BY <2>1, <2>2, Ceilings DEF Link!Chunk, FetchInv, Link!FetchTyped, Link!Ended
<1>7. CASE Link!BodyEnds
  BY <1>7 DEF Link!BodyEnds, FetchInv, Link!FetchTyped, Link!Ended
<1>8. CASE Link!ReadFails
  BY <1>8 DEF Link!ReadFails, Link!Ends, FetchInv, Link!FetchTyped, Link!Ended
<1>9. CASE Link!Deadline
  BY <1>9 DEF Link!Deadline, Link!Fetching, FetchInv, Link!FetchTyped, Link!Ended
<1> QED
  BY <1>1, <1>2, <1>3, <1>4, <1>5, <1>6, <1>7, <1>8, <1>9 DEF Link!FetchStep
LEMMA FetchKept ==
  ASSUME FetchInv, UNCHANGED Link!fetchVars
  PROVE  FetchInv'
BY DEF FetchInv, Link!fetchVars, Link!FetchTyped, Link!Ended

\* The fetches of the three exports are the one above.
LEMMA IdleAlike ==
  ASSUME Minting!NoFetch \/ Polling!NoFetch \/ Site!NoFetch
  PROVE  Link!NoFetch
BY DEF Minting!NoFetch, Polling!NoFetch, Site!NoFetch, Link!NoFetch

LEMMA StartsAlike ==
  ASSUME NEW u, Minting!StartFetch(u) \/ Polling!StartFetch(u) \/ Site!StartFetch(u)
  PROVE  Link!StartFetch(u)
BY DEF Minting!StartFetch, Polling!StartFetch, Site!StartFetch, Link!StartFetch

LEMMA FetchesKept ==
  ASSUME FetchInv,
         \/ UNCHANGED Minting!fetchVars
         \/ UNCHANGED Polling!fetchVars
         \/ UNCHANGED Site!fetchVars
  PROVE  FetchInv'
<1>1. UNCHANGED Link!fetchVars
  BY DEF Link!fetchVars, Minting!fetchVars, Polling!fetchVars, Site!fetchVars
<1> QED
  BY <1>1, FetchKept

LEMMA MintingFetchSteps ==
  ASSUME Minting!FetchStep
  PROVE  Link!FetchStep
BY DEF Minting!FetchStep, Link!FetchStep, Minting!Resolve, Link!Resolve,
       Minting!RequestFails, Link!RequestFails, Minting!Redirect,
       Link!Redirect, Minting!Refused, Link!Refused, Minting!Accepted,
       Link!Accepted, Minting!Chunk, Link!Chunk, Minting!BodyEnds,
       Link!BodyEnds, Minting!ReadFails, Link!ReadFails, Minting!Deadline,
       Link!Deadline, Minting!Ends, Link!Ends, Minting!Answerable,
       Link!Answerable, Minting!Fetching, Link!Fetching

LEMMA PollingFetchSteps ==
  ASSUME Polling!FetchStep
  PROVE  Link!FetchStep
BY DEF Polling!FetchStep, Link!FetchStep, Polling!Resolve, Link!Resolve,
       Polling!RequestFails, Link!RequestFails, Polling!Redirect,
       Link!Redirect, Polling!Refused, Link!Refused, Polling!Accepted,
       Link!Accepted, Polling!Chunk, Link!Chunk, Polling!BodyEnds,
       Link!BodyEnds, Polling!ReadFails, Link!ReadFails, Polling!Deadline,
       Link!Deadline, Polling!Ends, Link!Ends, Polling!Answerable,
       Link!Answerable, Polling!Fetching, Link!Fetching

LEMMA SiteFetchSteps ==
  ASSUME Site!FetchStep
  PROVE  Link!FetchStep
BY DEF Site!FetchStep, Link!FetchStep, Site!Resolve, Link!Resolve,
       Site!RequestFails, Link!RequestFails, Site!Redirect, Link!Redirect,
       Site!Refused, Link!Refused, Site!Accepted, Link!Accepted, Site!Chunk,
       Link!Chunk, Site!BodyEnds, Link!BodyEnds, Site!ReadFails,
       Link!ReadFails, Site!Deadline, Link!Deadline, Site!Ends, Link!Ends,
       Site!Answerable, Link!Answerable, Site!Fetching, Link!Fetching

-----------------------------------------------------------------------------
(* ApimExport.                                                             *)

\* A link is made for each attempt, and each attempt but the newest was refused.
AttemptInv ==
  /\ step \in {"mint", "fetch", "done"}
  /\ outcome \in {"pending", "ok", "forbidden", "threw"}
  /\ minted \in 0 .. MaxAttempts /\ attempt \in 1 .. MaxAttempts
  /\ outcome # "pending" <=> step = "done"
  /\ tried \in Seq(Nat \X Minting!Ended)
  /\ step = "mint" => minted = Len(tried) /\ attempt = Len(tried) + 1
  /\ step = "fetch" => minted = Len(tried) + 1 /\ attempt = Len(tried) + 1
  /\ step # "done" =>
       outcome = "pending" /\ \A i \in 1 .. Len(tried) : tried[i][2] = "403"
  /\ \A i \in 1 .. Len(tried) :
       tried[i][1] = i /\ (i < Len(tried) => tried[i][2] = "403")
  /\ outcome = "forbidden" => Len(tried) = MaxAttempts /\ tried[MaxAttempts][2] = "403"
  /\ outcome = "ok" =>
       fetch = "ok" /\ Len(tried) \in Nat \ {0} /\ tried[Len(tried)] = <<minted, "ok">>

LEMMA MintingStarts ==
  ASSUME Minting!Init
  PROVE  FetchInv /\ AttemptInv
<1>1. FetchInv
  BY IdleAlike, FetchIdle DEF Minting!Init
<1>2. tried = <<>> /\ Len(tried) = 0 /\ tried \in Seq(Nat \X Minting!Ended)
  BY EmptySeq DEF Minting!Init
<1>3. AttemptInv
  BY <1>2, Ceilings DEF Minting!Init, AttemptInv
<1> QED
  BY <1>1, <1>3

\* The attempt that just ended joins those before it.
LEMMA Tries ==
  ASSUME FetchInv, AttemptInv, Minting!Fetched
  PROVE  AttemptInv'
<1>1. /\ step = "fetch" /\ fetch \in Minting!Ended
      /\ minted \in Nat /\ minted = Len(tried) + 1 /\ attempt = Len(tried) + 1
      /\ tried \in Seq(Nat \X Minting!Ended) /\ Len(tried) \in Nat
      /\ tried' = Append(tried, <<minted, fetch>>)
      /\ minted' = minted /\ fetch' = fetch
      /\ \A i \in 1 .. Len(tried) : tried[i][1] = i /\ tried[i][2] = "403"
  BY LenProperties DEF Minting!Fetched, AttemptInv, Minting!fetchVars
<1>2. <<minted, fetch>> \in Nat \X Minting!Ended
  BY <1>1
<1>3. /\ tried' \in Seq(Nat \X Minting!Ended)
      /\ Len(tried') = Len(tried) + 1
      /\ \A i \in 1 .. Len(tried) : tried'[i] = tried[i]
      /\ tried'[Len(tried) + 1] = <<minted, fetch>>
  BY <1>1, <1>2, AppendProperties
<1>4. \A i \in 1 .. Len(tried') :
        tried'[i][1] = i /\ (i < Len(tried') => tried'[i][2] = "403")
  <2> SUFFICES ASSUME NEW i \in 1 .. Len(tried')
               PROVE  tried'[i][1] = i /\ (i < Len(tried') => tried'[i][2] = "403")
    OBVIOUS
  <2>1. CASE i \in 1 .. Len(tried)
    BY <1>1, <1>3, <2>1
  <2>2. CASE i = Len(tried) + 1
    BY <1>1, <1>3, <2>2
  <2> QED
    BY <1>1, <1>3, <2>1, <2>2
<1>5. CASE fetch = "ok"
  BY <1>1, <1>3, <1>4, <1>5 DEF Minting!Fetched, Minting!Finish, AttemptInv
<1>6. CASE fetch = "failed"
  BY <1>1, <1>3, <1>4, <1>6 DEF Minting!Fetched, Minting!Finish, AttemptInv
<1>7. CASE fetch = "403" /\ attempt = MaxAttempts
  BY <1>1, <1>3, <1>4, <1>7 DEF Minting!Fetched, Minting!Finish, AttemptInv
<1>8. CASE fetch = "403" /\ attempt # MaxAttempts
  <2>1. \A i \in 1 .. Len(tried') : tried'[i][2] = "403"
    BY <1>1, <1>3, <1>4, <1>8
  <2>2. /\ step' = "mint" /\ attempt' = attempt + 1 /\ outcome' = outcome
        /\ attempt \in 1 .. MaxAttempts /\ outcome = "pending"
    BY <1>1, <1>8 DEF Minting!Fetched, AttemptInv
  <2>3. minted' = Len(tried') /\ minted' \in Nat /\ attempt' = Len(tried') + 1
    BY <1>1, <1>3, <1>8, <2>2 DEF Minting!Fetched
  <2>4. MaxAttempts \in Nat /\ attempt' \in 1 .. MaxAttempts
    BY <1>1, <1>8, <2>2, Ceilings
  <2> QED
    BY <1>3, <1>4, <2>1, <2>2, <2>3, <2>4 DEF AttemptInv
<1> QED
  BY <1>1, <1>5, <1>6, <1>7, <1>8 DEF Minting!Ended

LEMMA MintingStays ==
  ASSUME FetchInv, AttemptInv, [Minting!Next]_Minting!exportVars
  PROVE  FetchInv' /\ AttemptInv'
<1>1. CASE Minting!Mint
  <2>1. FetchInv'
    <3>1. PICK u \in Urls : Minting!StartFetch(u)
      BY <1>1 DEF Minting!Mint
    <3> QED
      BY <3>1, StartsAlike, FetchStarts
  <2>2. AttemptInv'
    <3>1. /\ minted \in Nat /\ minted = Len(tried) /\ attempt = Len(tried) + 1
          /\ outcome = "pending"
          /\ step' = "fetch" /\ minted' = minted + 1
          /\ attempt' = attempt /\ tried' = tried /\ outcome' = outcome
      BY <1>1 DEF Minting!Mint, AttemptInv
    <3> QED
      BY <1>1, <3>1 DEF Minting!Mint, AttemptInv
  <2> QED
    BY <2>1, <2>2
<1>2. CASE Minting!MintFails
  <2>1. FetchInv'
    BY <1>2, FetchesKept DEF Minting!MintFails
  <2>2. AttemptInv'
    BY <1>2 DEF Minting!MintFails, Minting!Finish, Minting!fetchVars, AttemptInv
  <2> QED
    BY <2>1, <2>2
<1>3. CASE Minting!Fetches
  <2>1. FetchInv'
    BY <1>3, MintingFetchSteps, FetchSteps DEF Minting!Fetches
  <2>2. AttemptInv'
    BY <1>3 DEF Minting!Fetches, AttemptInv
  <2> QED
    BY <2>1, <2>2
<1>4. CASE Minting!Fetched
  <2>1. FetchInv'
    BY <1>4, FetchesKept DEF Minting!Fetched
  <2> QED
    BY <1>4, <2>1, Tries
<1>5. CASE UNCHANGED Minting!exportVars
  <2>1. FetchInv'
    BY <1>5, FetchesKept DEF Minting!exportVars
  <2>2. AttemptInv'
    BY <1>5 DEF Minting!exportVars, Minting!fetchVars, AttemptInv
  <2> QED
    BY <2>1, <2>2
<1> QED
  BY <1>1, <1>2, <1>3, <1>4, <1>5 DEF Minting!Next

LEMMA MintingMeans ==
  ASSUME FetchInv, AttemptInv
  PROVE  Minting!ExportIsTrue /\ Minting!TypeOK
<1>1. Minting!FetchedIsWhole
  BY DEF FetchInv, Minting!FetchedIsWhole
<1>2. DOMAIN tried = 1 .. Len(tried)
  BY LenProperties DEF AttemptInv
<1>3. Minting!LinksAreFresh
  BY <1>2 DEF AttemptInv, Minting!LinksAreFresh
<1>4. Minting!ExportIsTrue
  BY <1>1, <1>3 DEF AttemptInv, Minting!ExportIsTrue
<1>5. Minting!FetchTyped
  BY DEF FetchInv, Minting!FetchTyped, Link!FetchTyped, Minting!Ended, Link!Ended
<1> QED
  BY <1>4, <1>5 DEF AttemptInv, Minting!TypeOK

-----------------------------------------------------------------------------
(* ApiCenterExport.                                                        *)

\* Requests sent so far: every turn but the one under way used its attempts up
\* at most, and after the abort none is sent.
PollingCount ==
  /\ requests \in Nat /\ atAbort \in Nat
  /\ aborted => requests = atAbort
  /\ step \in {"done", "fetch"} => requests <= MaxAttempts * polls + MaxAttempts
  /\ step \notin {"done", "fetch"} =>
       requests <= MaxAttempts * polls + (attempt - 1) + (IF wire = "out" THEN 1 ELSE 0)
  /\ step = "post" => polls = 0
  /\ step \in {"check", "sleep"} => wire = "ready" /\ attempt = 1

\* A document that did not come too early is asked for and returned only of an
\* operation that has succeeded, which it does once and for all.
PollingEnd ==
  /\ step = "fetch" => operation = "succeeded" \/ early
  /\ outcome \in {"inline", "link"} => operation = "succeeded" \/ early
  /\ outcome = "link" => fetch = "ok"

PollingTypes ==
  /\ step \in {"post", "check", "sleep", "poll", "fetch", "done"}
  /\ wire \in {"ready", "out", "delay"}
  /\ attempt \in 1 .. MaxAttempts
  /\ polls \in 0 .. MaxPolls
  /\ clock \in 0 .. MaxWall + 1
  /\ operation \in {"none", "running", "succeeded", "failed"}
  /\ aborted \in BOOLEAN /\ early \in BOOLEAN
  /\ outcome \in {"pending", "inline", "link", "threw"}
  /\ outcome # "pending" <=> step = "done"

PollingInv == FetchInv /\ PollingTypes /\ PollingCount /\ PollingEnd

LEMMA Turns ==
  ASSUME NEW p \in 0 .. MaxPolls
  PROVE  /\ MaxAttempts \in Nat /\ MaxAttempts * p \in Nat
         /\ MaxAttempts * 0 = 0 /\ MaxAttempts * 1 = MaxAttempts
         /\ MaxAttempts * (p + 1) = MaxAttempts * p + MaxAttempts
         /\ MaxAttempts * p + MaxAttempts <= MaxAttempts * (1 + MaxPolls)
<1>1. MaxAttempts \in Nat /\ MaxPolls \in Nat /\ p \in Nat
  BY Ceilings
<1>2. PICK d \in Nat : MaxPolls = p + d
  <2>1. MaxPolls - p \in Nat /\ MaxPolls = p + (MaxPolls - p)
    BY <1>1
  <2> QED
    BY <2>1
<1>3. MaxAttempts * (1 + MaxPolls) = MaxAttempts + MaxAttempts * p + MaxAttempts * d
  BY <1>1, <1>2
<1>4. MaxAttempts * p \in Nat /\ MaxAttempts * d \in Nat
  BY <1>1, <1>2
<1> QED
  BY <1>1, <1>3, <1>4

LEMMA PollingStarts ==
  ASSUME Polling!Init
  PROVE  PollingInv
<1>1. FetchInv
  BY IdleAlike, FetchIdle DEF Polling!Init
<1>2. aborted \in BOOLEAN /\ ~ aborted /\ early \in BOOLEAN
  BY Zenon DEF Polling!Init
<1>3. MaxAttempts * 0 = 0
  BY Ceilings
<1>4. PollingTypes
  BY <1>2, Ceilings DEF Polling!Init, PollingTypes
<1>5. PollingCount
  BY <1>2, <1>3 DEF Polling!Init, PollingCount
<1> QED
  BY <1>1, <1>4, <1>5 DEF Polling!Init, PollingInv, PollingEnd

\* A call that ends with an error has asked as often as before.
LEMMA PollingThrows ==
  ASSUME PollingInv, Polling!ThrowNow
  PROVE  PollingInv'
<1>1. /\ step' = "done" /\ outcome' = "threw"
      /\ UNCHANGED <<wire, attempt, requests, polls, clock, operation, aborted, atAbort, early>>
      /\ UNCHANGED Polling!fetchVars
  BY DEF Polling!ThrowNow, Polling!Throw, Polling!history, Polling!wireVars
<1>2. FetchInv'
  BY <1>1, FetchesKept DEF PollingInv
<1>3. PollingTypes'
  BY <1>1 DEF PollingInv, PollingTypes
<1>4. PollingCount'
  BY <1>1, Turns DEF PollingInv, PollingCount, PollingTypes
<1> QED
  BY <1>1, <1>2, <1>3, <1>4 DEF PollingInv, PollingEnd

\* The call goes on at another turn, step, attempt or state of the request, and
\* nothing has been fetched.
LEMMA PollingGoes ==
  ASSUME PollingInv, step \notin {"done", "fetch"}, step' \notin {"done", "fetch"},
         PollingTypes', PollingCount',
         UNCHANGED <<outcome, Polling!fetchVars>>
  PROVE  PollingInv'
<1>1. FetchInv'
  BY FetchesKept DEF PollingInv
<1>2. outcome = "pending" /\ outcome' = "pending"
  BY DEF PollingInv, PollingTypes
<1> QED
  BY <1>1, <1>2 DEF PollingInv, PollingEnd

LEMMA PollingRetries ==
  ASSUME PollingInv, Polling!Out, Polling!Retry
  PROVE  PollingInv'
<1>1. /\ step \in {"post", "poll"} /\ wire = "out" /\ attempt < MaxAttempts
      /\ wire' = "delay" /\ attempt' = attempt + 1
      /\ UNCHANGED <<step, requests, polls, clock, operation, aborted, atAbort, early, outcome>>
      /\ UNCHANGED Polling!fetchVars
  BY DEF Polling!Out, Polling!Asking, Polling!Retry, Polling!history
<1>2. PollingTypes'
  BY <1>1, Ceilings DEF PollingInv, PollingTypes
<1>3. PollingCount'
  BY <1>1, Turns DEF PollingInv, PollingCount, PollingTypes
<1> QED
  BY <1>1, <1>2, <1>3, PollingGoes

LEMMA PollingTurns ==
  ASSUME PollingInv, Polling!Out, step = "poll", Polling!NextPoll
  PROVE  PollingInv'
<1>1. /\ wire = "out" /\ wire' = "ready" /\ attempt' = 1
      /\ UNCHANGED <<requests, clock, operation, aborted, atAbort, early>>
      /\ UNCHANGED Polling!fetchVars
      /\ attempt \in 1 .. MaxAttempts /\ polls \in 0 .. MaxPolls /\ MaxPolls \in Nat
      /\ requests <= MaxAttempts * polls + (attempt - 1) + 1
  BY Ceilings
     DEF Polling!Out, Polling!NextPoll, Polling!history, Polling!Settled, PollingInv, PollingTypes, PollingCount
<1>2. requests \in Nat /\ requests <= MaxAttempts * polls + MaxAttempts
  BY <1>1, Turns DEF PollingInv, PollingCount
<1>0. /\ wire' = "ready" /\ attempt' = 1 /\ 1 \in 1 .. MaxAttempts
       /\ outcome = "pending" /\ polls \in 0 .. MaxPolls
       /\ clock' \in 0 .. MaxWall + 1 /\ aborted' \in BOOLEAN /\ early' \in BOOLEAN
       /\ operation' \in {"none", "running", "succeeded", "failed"}
  <2>1. 1 \in 1 .. MaxAttempts
    BY Ceilings
  <2>2. PollingTypes /\ step = "poll"
    BY DEF PollingInv
  <2> QED
    BY <1>1, <2>1, <2>2, Zenon DEF PollingTypes
<1>3. CASE polls = MaxPolls
  <2>1. step' = "done" /\ outcome' = "threw" /\ polls' = polls
    BY <1>3 DEF Polling!NextPoll, Polling!Throw
  <2>2. FetchInv'
    BY <1>1, FetchesKept DEF PollingInv
  <2>3. PollingTypes'
    BY <1>0, <2>1 DEF PollingTypes
  <2>4. PollingCount'
    BY <1>1, <1>2, <2>1 DEF PollingInv, PollingCount
  <2> QED
    BY <2>1, <2>2, <2>3, <2>4 DEF PollingInv, PollingEnd
<1>4. CASE polls # MaxPolls
  <2>1. step' = "check" /\ polls' = polls + 1 /\ outcome' = outcome
    BY <1>4 DEF Polling!NextPoll
  <2>2. polls' \in 0 .. MaxPolls
    BY <1>1, <1>4, <2>1
  <2>3. PollingTypes'
    BY <1>0, <2>1, <2>2 DEF PollingTypes
  <2>4. requests' <= MaxAttempts * polls' /\ MaxAttempts * polls' \in Nat
    BY <1>1, <1>2, <2>1, <2>2, Turns
  <2>5. /\ requests' \in Nat /\ atAbort' \in Nat /\ (aborted' => requests' = atAbort')
        /\ wire' = "ready" /\ attempt' = 1
    BY <1>1 DEF PollingInv, PollingCount
  <2>6. PollingCount'
    <3> DEFINE m == MaxAttempts * polls'
    <3>1. m \in Nat /\ requests' <= m /\ requests' <= m + (1 - 1) + 0
      BY <2>4, <2>5
    <3> HIDE DEF m
    <3>2. requests' <= m + (attempt' - 1) + (IF wire' = "out" THEN 1 ELSE 0)
      BY <2>5, <3>1
    <3> QED
      BY <2>1, <2>5, <3>2 DEF PollingCount, m
  <2> QED
    BY <1>1, <2>1, <2>3, <2>6, PollingGoes
<1> QED
  BY <1>3, <1>4

\* The answer, or what was polled, is turned into a document.
LEMMA PollingMaterializes ==
  ASSUME NEW given \in BOOLEAN, PollingInv, Polling!Out, Polling!Materialize(given),
         operation' \in {"none", "running", "succeeded", "failed"}, early' \in BOOLEAN,
         given => operation' = "succeeded" \/ early'
  PROVE  PollingInv'
<1>1. /\ step \in {"post", "poll"} /\ wire = "out" /\ wire' = "ready" /\ attempt' = 1
      /\ UNCHANGED <<requests, polls, clock, aborted, atAbort>>
      /\ attempt \in 1 .. MaxAttempts /\ polls \in 0 .. MaxPolls
      /\ outcome = "pending" /\ MaxAttempts \in Nat \ {0}
      /\ requests <= MaxAttempts * polls + (attempt - 1) + 1
  BY Ceilings
     DEF Polling!Out, Polling!Asking, Polling!Materialize, Polling!Settled, PollingInv,
         PollingTypes, PollingCount
<1>2. requests \in Nat /\ requests <= MaxAttempts * polls + MaxAttempts
  BY <1>1, Turns DEF PollingInv, PollingCount
<1>3. \/ /\ step' = "done"
         /\ \/ outcome' = "threw"
            \/ outcome' = "inline" /\ given
         /\ UNCHANGED Polling!fetchVars
      \/ /\ \E u \in Urls : Polling!StartFetch(u)
         /\ step' = "fetch" /\ outcome' = outcome /\ given
  BY DEF Polling!Materialize, Polling!Throw
<1>4. FetchInv'
  <2>1. CASE UNCHANGED Polling!fetchVars
    BY <2>1, FetchesKept DEF PollingInv
  <2>2. ASSUME NEW u \in Urls, Polling!StartFetch(u)
        PROVE  FetchInv'
    BY <2>2, StartsAlike, FetchStarts
  <2> QED
    BY <1>3, <2>1, <2>2
<1>5. PollingTypes'
  BY <1>1, <1>3 DEF PollingInv, PollingTypes
<1>6. PollingCount'
  BY <1>1, <1>2, <1>3 DEF PollingInv, PollingCount
<1> QED
  BY <1>1, <1>3, <1>4, <1>5, <1>6 DEF PollingInv, PollingEnd

LEMMA PollingStays ==
  ASSUME PollingInv, [Polling!Next]_Polling!centerVars
  PROVE  PollingInv'
<1>1. CASE Polling!Abort
  <2>1. /\ aborted' = TRUE /\ atAbort' = requests /\ ~ aborted /\ aborted' \in BOOLEAN
        /\ UNCHANGED <<step, wire, attempt, requests, polls, clock, operation, early, outcome>>
        /\ UNCHANGED Polling!fetchVars
    BY <1>1, Zenon DEF Polling!Abort, Polling!wireVars
  <2>2. FetchInv'
    BY <2>1, FetchesKept DEF PollingInv
  <2>3. fetch' = fetch
    BY <2>1 DEF Polling!fetchVars
  <2> QED
    BY <2>1, <2>2, <2>3 DEF PollingInv, PollingTypes, PollingCount, PollingEnd
<1>2. CASE Polling!Progress
  <2>1. /\ operation = "running" /\ operation' \in {"succeeded", "failed"}
        /\ UNCHANGED <<step, wire, attempt, requests, polls, clock, aborted, atAbort, early, outcome>>
        /\ UNCHANGED Polling!fetchVars
    BY <1>2 DEF Polling!Progress, Polling!wireVars, Polling!history
  <2>2. FetchInv'
    BY <2>1, FetchesKept DEF PollingInv
  <2>3. fetch' = fetch
    BY <2>1 DEF Polling!fetchVars
  <2> QED
    BY <2>1, <2>2, <2>3 DEF PollingInv, PollingTypes, PollingCount, PollingEnd
<1>3. CASE Polling!Tick
  <2>1. /\ step \in {"check", "sleep", "poll"} /\ clock <= MaxWall /\ clock' = clock + 1
        /\ UNCHANGED <<step, wire, attempt, requests, polls, operation, aborted, atAbort, early, outcome>>
        /\ UNCHANGED Polling!fetchVars
    BY <1>3 DEF Polling!Tick, Polling!wireVars, Polling!history
  <2>2. PollingTypes'
    BY <2>1, Ceilings DEF PollingInv, PollingTypes
  <2>3. PollingCount'
    BY <2>1 DEF PollingInv, PollingCount
  <2> QED
    BY <2>1, <2>2, <2>3, PollingGoes
<1>4. CASE Polling!Send
  <2>1. CASE aborted
    BY <1>4, <2>1, PollingThrows DEF Polling!Send
  <2>2. CASE ~ aborted
    <3>1. /\ step \in {"post", "poll"} /\ wire = "ready" /\ wire' = "out"
          /\ requests' = requests + 1
          /\ UNCHANGED <<step, attempt, polls, clock, operation, aborted, atAbort, early, outcome>>
          /\ UNCHANGED Polling!fetchVars
      BY <1>4, <2>2 DEF Polling!Send, Polling!Asking, Polling!history
    <3>2. PollingTypes'
      BY <3>1 DEF PollingInv, PollingTypes
    <3>3. PollingCount'
      <4> DEFINE m == MaxAttempts * polls
      <4>1. /\ requests \in Nat /\ atAbort \in Nat /\ (step = "post" => polls = 0)
            /\ m \in Nat /\ attempt \in Nat
            /\ requests <= m + (attempt - 1) + 0
        BY <3>1, Turns DEF PollingInv, PollingCount, PollingTypes
      <4> HIDE DEF m
      <4>2. requests + 1 <= m + (attempt - 1) + 1 /\ requests + 1 \in Nat
        BY <4>1
      <4>3. m' = m
        BY <3>1 DEF m
      <4>4. requests' <= m' + (attempt' - 1) + (IF wire' = "out" THEN 1 ELSE 0)
        BY <3>1, <4>2, <4>3
      <4> QED
        BY <2>2, <3>1, <4>1, <4>2, <4>4 DEF PollingCount, m
    <3> QED
      BY <3>1, <3>2, <3>3, PollingGoes
  <2> QED
    BY <2>1, <2>2
<1>5. CASE Polling!Wake
  <2>1. /\ wire = "delay" /\ wire' = "ready"
        /\ UNCHANGED <<step, attempt, requests, polls, clock, operation, aborted, atAbort, early, outcome>>
        /\ UNCHANGED Polling!fetchVars
    BY <1>5 DEF Polling!Wake, Polling!history
  <2>2. FetchInv'
    BY <2>1, FetchesKept DEF PollingInv
  <2>3. fetch' = fetch
    BY <2>1 DEF Polling!fetchVars
  <2>4. PollingTypes'
    BY <2>1 DEF PollingInv, PollingTypes
  <2>5. PollingCount'
    BY <2>1 DEF PollingInv, PollingCount
  <2> QED
    BY <2>1, <2>2, <2>3, <2>4, <2>5 DEF PollingInv, PollingEnd
<1>6. CASE Polling!Rejects
  BY <1>6, PollingThrows, PollingRetries DEF Polling!Rejects
<1>7. CASE Polling!Permanent
  BY <1>7, PollingThrows DEF Polling!Permanent
<1>8. CASE Polling!Transient
  BY <1>8, PollingThrows, PollingRetries, PollingTurns DEF Polling!Transient
<1>9. CASE Polling!Immediate
  <2>1. PICK given \in BOOLEAN : Polling!Materialize(given)
    BY <1>9 DEF Polling!Immediate
  <2>2. Polling!Out /\ operation' = "succeeded" /\ early' = early
    BY <1>9 DEF Polling!Immediate
  <2>3. early' \in BOOLEAN
    BY <2>2 DEF PollingInv, PollingTypes
  <2> QED
    BY <2>1, <2>2, <2>3, PollingMaterializes
<1>10. CASE Polling!Started
  <2>1. CASE Polling!ThrowNow
    BY <2>1, PollingThrows
  <2>2. CASE ~ Polling!ThrowNow
    <3>1. /\ step = "post" /\ wire = "out" /\ wire' = "ready" /\ attempt' = 1
          /\ operation' = "running" /\ polls' = 1 /\ step' = "check"
          /\ UNCHANGED <<requests, clock, aborted, atAbort, early, outcome>>
          /\ UNCHANGED Polling!fetchVars
      BY <1>10, <2>2 DEF Polling!Started, Polling!Out, Polling!Settled, Polling!history
    <3>2. /\ polls = 0 /\ attempt \in 1 .. MaxAttempts /\ requests \in Nat
          /\ requests <= MaxAttempts * 0 + (attempt - 1) + 1
      BY <3>1 DEF PollingInv, PollingTypes, PollingCount
    <3>3. requests <= MaxAttempts * 1
      BY <3>2, Ceilings
    <3>4. PollingTypes'
      BY <3>1, Ceilings DEF PollingInv, PollingTypes
    <3>5. MaxAttempts * 1 = MaxAttempts * polls'
      BY <3>1
    <3>6. PollingCount'
      <4> DEFINE m == MaxAttempts * polls'
      <4>1. m \in Nat /\ requests' <= m
        BY <3>1, <3>3, <3>5, Ceilings
      <4> HIDE DEF m
      <4>2. requests' <= m + (attempt' - 1) + (IF wire' = "out" THEN 1 ELSE 0)
        BY <3>1, <3>2, <4>1
      <4>3. atAbort' \in Nat /\ (aborted' => requests' = atAbort')
        BY <3>1 DEF PollingInv, PollingCount
      <4> QED
        BY <3>1, <3>2, <4>2, <4>3 DEF PollingCount, m
    <3> QED
      BY <3>1, <3>4, <3>6, PollingGoes
  <2> QED
    BY <2>1, <2>2
<1>11. CASE Polling!Check
  <2>1. CASE aborted \/ clock > MaxWall
    BY <1>11, <2>1, PollingThrows DEF Polling!Check
  <2>2. CASE ~ (aborted \/ clock > MaxWall)
    <3>1. /\ step = "check" /\ step' = "sleep"
          /\ UNCHANGED <<wire, attempt, requests, polls, clock, operation, aborted, atAbort, early, outcome>>
          /\ UNCHANGED Polling!fetchVars
      BY <1>11, <2>2 DEF Polling!Check, Polling!wireVars, Polling!history
    <3>2. PollingTypes'
      BY <3>1 DEF PollingInv, PollingTypes
    <3>3. PollingCount'
      BY <3>1 DEF PollingInv, PollingCount
    <3> QED
      BY <3>1, <3>2, <3>3, PollingGoes
  <2> QED
    BY <2>1, <2>2
<1>12. CASE Polling!Slept
  <2>1. /\ step = "sleep" /\ step' = "poll"
        /\ UNCHANGED <<wire, attempt, requests, polls, clock, operation, aborted, atAbort, early, outcome>>
        /\ UNCHANGED Polling!fetchVars
    BY <1>12 DEF Polling!Slept, Polling!wireVars, Polling!history
  <2>2. PollingTypes'
    BY <2>1 DEF PollingInv, PollingTypes
  <2>3. PollingCount'
    BY <2>1 DEF PollingInv, PollingCount
  <2> QED
    BY <2>1, <2>2, <2>3, PollingGoes
<1>13. CASE Polling!StillRunning
  BY <1>13, PollingThrows, PollingTurns DEF Polling!StillRunning
<1>14. CASE Polling!Polled
  <2>1. PICK reply \in Polling!Replies :
          /\ Polling!Honest(reply)
          /\ \/ /\ Polling!Materialize(TRUE)
                /\ early' = (operation # "succeeded") /\ UNCHANGED operation
             \/ Polling!Concludes(reply)
             \/ Polling!NextPoll
    BY <1>14 DEF Polling!Polled
  <2>2. /\ Polling!Out /\ step = "poll" /\ early \in BOOLEAN
        /\ operation \in {"none", "running", "succeeded", "failed"}
    BY <1>14 DEF Polling!Polled, PollingInv, PollingTypes
  <2>3. CASE Polling!NextPoll
    BY <2>2, <2>3, PollingTurns
  <2>4. CASE Polling!Concludes(reply)
    <3> DEFINE given == reply.status = "succeeded" /\ reply.document = "wrapped"
    <3>1. CASE Polling!ThrowNow
      BY <3>1, PollingThrows
    <3>2. CASE Polling!Materialize(given) /\ UNCHANGED <<operation, early>>
      <4>1. given => operation = "succeeded"
        BY <2>1 DEF Polling!Honest
      <4> HIDE DEF given
      <4>2. given \in BOOLEAN
        BY DEF given
      <4> QED
        BY <2>2, <3>2, <4>1, <4>2, PollingMaterializes
    <3> QED
      BY <2>4, <3>1, <3>2 DEF Polling!Concludes
  <2>5. CASE /\ Polling!Materialize(TRUE)
             /\ early' = (operation # "succeeded") /\ UNCHANGED operation
    <3>1. early' \in BOOLEAN /\ (operation' = "succeeded" \/ early')
      BY <2>5
    <3> QED
      BY <2>2, <2>5, <3>1, PollingMaterializes
  <2> QED
    BY <2>1, <2>3, <2>4, <2>5
<1>15. CASE Polling!Fetches
  <2>1. /\ step = "fetch" /\ outcome = "pending"
        /\ UNCHANGED <<step, wire, attempt, requests, polls, clock, operation, aborted, atAbort, early, outcome>>
    BY <1>15 DEF Polling!Fetches, Polling!wireVars, Polling!history, PollingInv, PollingTypes
  <2>2. FetchInv'
    BY <1>15, PollingFetchSteps, FetchSteps DEF Polling!Fetches, PollingInv
  <2>3. PollingTypes'
    BY <2>1 DEF PollingInv, PollingTypes
  <2>4. PollingCount'
    BY <2>1 DEF PollingInv, PollingCount
  <2> QED
    BY <2>1, <2>2, <2>3, <2>4 DEF PollingInv, PollingEnd
<1>16. CASE Polling!Fetched
  <2>1. /\ step = "fetch" /\ step' = "done"
        /\ outcome' = IF fetch = "ok" THEN "link" ELSE "threw"
        /\ UNCHANGED <<wire, attempt, requests, polls, clock, operation, aborted, atAbort, early>>
        /\ UNCHANGED Polling!fetchVars
    BY <1>16 DEF Polling!Fetched, Polling!wireVars, Polling!history
  <2>2. FetchInv'
    BY <2>1, FetchesKept DEF PollingInv
  <2>3. fetch' = fetch
    BY <2>1 DEF Polling!fetchVars
  <2>4. PollingTypes'
    BY <2>1 DEF PollingInv, PollingTypes
  <2>5. PollingCount'
    BY <2>1 DEF PollingInv, PollingCount
  <2> QED
    BY <2>1, <2>2, <2>3, <2>4, <2>5 DEF PollingInv, PollingEnd
<1>17. CASE UNCHANGED Polling!centerVars
  <2>1. /\ UNCHANGED <<step, wire, attempt, requests, polls, clock, operation, aborted, atAbort, early, outcome>>
        /\ UNCHANGED Polling!fetchVars
    BY <1>17 DEF Polling!centerVars, Polling!wireVars, Polling!history
  <2>2. FetchInv'
    BY <2>1, FetchesKept DEF PollingInv
  <2>3. fetch' = fetch
    BY <2>1 DEF Polling!fetchVars
  <2>4. PollingTypes'
    BY <2>1 DEF PollingInv, PollingTypes
  <2>5. PollingCount'
    BY <2>1 DEF PollingInv, PollingCount
  <2> QED
    BY <2>1, <2>2, <2>3, <2>4, <2>5 DEF PollingInv, PollingEnd
<1> QED
  BY <1>1, <1>2, <1>3, <1>4, <1>5, <1>6, <1>7, <1>8, <1>9, <1>10, <1>11, <1>12,
     <1>13, <1>14, <1>15, <1>16, <1>17 DEF Polling!Next

LEMMA PollingMeans ==
  ASSUME PollingInv
  PROVE  Polling!CenterExportIsTrue /\ Polling!TypeOK
<1>1. Polling!FetchedIsWhole
  BY DEF PollingInv, FetchInv, Polling!FetchedIsWhole
<1>2. requests <= MaxAttempts * polls + MaxAttempts
  BY Turns DEF PollingInv, PollingCount, PollingTypes
<1>3. requests <= MaxAttempts * (1 + MaxPolls)
  <2>1. polls \in 0 .. MaxPolls /\ requests \in Nat
    BY DEF PollingInv, PollingCount, PollingTypes
  <2>2. MaxAttempts * polls + MaxAttempts <= MaxAttempts * (1 + MaxPolls)
    BY <2>1, Turns
  <2>3. MaxAttempts * polls + MaxAttempts \in Nat /\ MaxAttempts * (1 + MaxPolls) \in Nat
    BY <2>1, Ceilings
  <2> QED
    BY <1>2, <2>1, <2>2, <2>3
<1>4. Polling!CenterExportIsTrue
  BY <1>1, <1>3 DEF Polling!CenterExportIsTrue, Polling!OnlyOfFinished,
                    Polling!ServiceIsSpared, PollingInv, PollingCount, PollingEnd
<1>5. Polling!FetchTyped
  BY DEF PollingInv, FetchInv, Polling!FetchTyped, Link!FetchTyped, Polling!Ended, Link!Ended
<1> QED
  BY <1>4, <1>5 DEF Polling!TypeOK, PollingInv, PollingTypes
-----------------------------------------------------------------------------
(* SiteExport.                                                             *)

\* The link of a web app was declared by it; nothing is fetched before the
\* export, and the file of the site is asked for where there is no link.
SiteReads ==
  /\ step = "hydrate" /\ resource.kind = "app" => header \in Links \cup {NoLink}
  /\ step = "export" /\ resource.kind = "app" => read.link \in Links \cup {NoLink}
  /\ step \in {"list", "hydrate", "export", "config", "scm"} => fetch = "idle"
  /\ step \in {"list", "hydrate", "export", "config", "fetch"} => sentTo = {}
  /\ step \in {"config", "scm"} =>
       optIn /\ resource.kind = "app" /\ read.link = NoLink /\ read.path
  /\ step = "fetch" /\ resource.kind = "app" => first = read.link
  /\ step = "scm" => sentTo = {"own"}

SiteTypes ==
  /\ resource \in Site!Held
  /\ optIn \in BOOLEAN
  /\ step \in {"list", "hydrate", "export", "config", "scm", "fetch", "done"}
  /\ outcome \in {"pending", "authoritative", "partial", "unsupported", "threw"}
  /\ outcome # "pending" <=> step = "done"

\* Of all this an export that has ended keeps what it says of itself.
SiteEnd ==
  /\ sentTo \subseteq {"own"}
  /\ sentTo # {} =>
       optIn /\ resource.kind = "app" /\ read.link = NoLink /\ read.path
  /\ outcome = "authoritative" => (fetch = "ok" <=> sentTo = {})
  /\ outcome = "authoritative" /\ sentTo = {} /\ resource.kind = "app" =>
       first = read.link
  /\ outcome = "partial" =>
       resource.kind = "function" /\ read.triggers /\ ~ read.addressed /\ fetch = "idle"

SiteInv == FetchInv /\ SiteTypes /\ SiteReads /\ SiteEnd

LEMMA HeldFacts ==
  ASSUME NEW h \in Site!Held
  PROVE  /\ h.kind \in {"app", "function"}
         /\ h.kind = "app" => h.link \in Links \cup {NoLink}
BY DEF Site!Held, Site!WebApps, Site!FunctionApps

\* A fetch keeps the link it was started with, and one that is idle stays so.
LEMMA FetchFirst ==
  ASSUME Link!FetchStep
  PROVE  first' = first
BY DEF Link!FetchStep, Link!Resolve, Link!RequestFails, Link!Redirect, Link!Refused,
       Link!Accepted, Link!Chunk, Link!BodyEnds, Link!ReadFails, Link!Deadline,
       Link!Ends

LEMMA SiteStarts ==
  ASSUME Site!Init
  PROVE  SiteInv
<1>1. FetchInv /\ fetch = "idle"
  BY IdleAlike, FetchIdle DEF Site!Init, Site!NoFetch
<1>2. SiteTypes
  BY Zenon DEF Site!Init, SiteTypes
<1> QED
  BY <1>1, <1>2 DEF Site!Init, SiteInv, SiteReads, SiteEnd

\* What the steps between list and export leave alone.
LEMMA SiteQuiet ==
  ASSUME SiteInv, UNCHANGED Site!fetchVars
  PROVE  FetchInv' /\ fetch' = fetch /\ first' = first
<1>1. FetchInv'
  BY FetchesKept DEF SiteInv
<1> QED
  BY <1>1 DEF Site!fetchVars

LEMMA SiteFinishes ==
  ASSUME SiteInv, NEW how \in {"authoritative", "partial", "unsupported", "threw"},
         Site!Finish(how),
         how = "authoritative" =>
           \/ step = "fetch" /\ fetch = "ok"
           \/ step = "scm",
         how = "partial" =>
           /\ resource.kind = "function" /\ read.triggers /\ ~ read.addressed
           /\ step = "export"
  PROVE  SiteInv'
<1>1. /\ step' = "done" /\ outcome' = how
      /\ UNCHANGED <<resource, optIn, header, read, sentTo>>
      /\ UNCHANGED Site!fetchVars
  BY DEF Site!Finish
<1>2. FetchInv' /\ fetch' = fetch /\ first' = first
  BY <1>1, SiteQuiet
<1>3. SiteTypes'
  BY <1>1 DEF SiteInv, SiteTypes
<1>4. SiteReads'
  BY <1>1 DEF SiteReads
<1>5. SiteEnd'
  BY <1>1, <1>2 DEF SiteInv, SiteReads, SiteEnd
<1> QED
  BY <1>2, <1>3, <1>4, <1>5 DEF SiteInv

\* Nothing has ended, and nothing was sent.
LEMMA SiteGoes ==
  ASSUME SiteInv, FetchInv', SiteTypes', SiteReads', outcome' = "pending", sentTo' = {}
  PROVE  SiteInv'
BY DEF SiteInv, SiteEnd

LEMMA SiteStays ==
  ASSUME SiteInv, [Site!Next]_<<Site!siteVars, Site!fetchVars>>
  PROVE  SiteInv'
<1>1. ASSUME NEW other \in Site!Held, Site!Redeploy(other)
      PROVE  SiteInv'
  <2>1. /\ step \in {"hydrate", "export", "config"} /\ resource' = other
        /\ resource'.kind = resource.kind
        /\ UNCHANGED <<optIn, step, header, read, sentTo, outcome>>
        /\ UNCHANGED Site!fetchVars
    BY <1>1 DEF Site!Redeploy
  <2>2. FetchInv' /\ fetch' = fetch /\ first' = first
    BY <2>1, SiteQuiet
  <2>3. SiteTypes'
    BY <2>1 DEF SiteInv, SiteTypes
  <2>4. SiteReads'
    BY <2>1, <2>2 DEF SiteInv, SiteReads
  <2>5. outcome' = "pending" /\ sentTo' = {}
    BY <2>1 DEF SiteInv, SiteTypes, SiteReads
  <2> QED
    BY <2>2, <2>3, <2>4, <2>5, SiteGoes
<1>2. CASE Site!SiteReadFails
  BY <1>2, SiteFinishes DEF Site!SiteReadFails
<1>3. CASE Site!ListSite
  <2>1. /\ step = "list" /\ step' = "hydrate"
        /\ header' \in IF resource.kind = "app" THEN {resource.link, NoLink}
                       ELSE {resource.host}
        /\ UNCHANGED <<resource, optIn, read, sentTo, outcome>>
        /\ UNCHANGED Site!fetchVars
    BY <1>3 DEF Site!ListSite
  <2>2. FetchInv' /\ fetch' = fetch /\ first' = first
    BY <2>1, SiteQuiet
  <2>3. SiteTypes'
    BY <2>1 DEF SiteInv, SiteTypes
  <2>4. fetch = "idle" /\ sentTo = {} /\ outcome = "pending" /\ resource \in Site!Held
    BY <2>1 DEF SiteInv, SiteTypes, SiteReads
  <2>5. SiteReads'
    BY <2>1, <2>2, <2>4, HeldFacts DEF SiteReads
  <2> QED
    BY <2>1, <2>2, <2>3, <2>4, <2>5, SiteGoes
<1>4. CASE Site!HydrateApp \/ Site!HydrateFunctions
  <2>1. /\ step = "hydrate" /\ step' = "export"
        /\ UNCHANGED <<resource, optIn, header, sentTo, outcome>>
        /\ UNCHANGED Site!fetchVars
    BY <1>4 DEF Site!HydrateApp, Site!HydrateFunctions, Site!Hydrated
  <2>2. FetchInv' /\ fetch' = fetch /\ first' = first
    BY <2>1, SiteQuiet
  <2>3. SiteTypes'
    BY <2>1 DEF SiteInv, SiteTypes
  <2>4. fetch = "idle" /\ sentTo = {} /\ outcome = "pending" /\ resource \in Site!Held
    BY <2>1 DEF SiteInv, SiteTypes, SiteReads
  <2>5. resource.kind = "app" => read'.link \in Links \cup {NoLink}
    <3> SUFFICES ASSUME resource.kind = "app" PROVE read'.link \in Links \cup {NoLink}
      OBVIOUS
    <3>1. header \in Links \cup {NoLink} /\ resource.link \in Links \cup {NoLink}
      BY <2>1, <2>4, HeldFacts DEF SiteInv, SiteReads
    <3>2. PICK link \in {resource.link, NoLink}, path \in {resource.path, FALSE} :
            read' = [link |-> IF header # NoLink THEN header ELSE link, path |-> path]
      BY <1>4 DEF Site!HydrateApp, Site!HydrateFunctions, Site!Hydrated
    <3> QED
      BY <3>1, <3>2
  <2>6. SiteReads'
    BY <2>1, <2>2, <2>4, <2>5 DEF SiteReads
  <2> QED
    BY <2>1, <2>2, <2>3, <2>4, <2>6, SiteGoes
<1>5. CASE Site!Unsupported
  BY <1>5, SiteFinishes DEF Site!Unsupported
<1>6. CASE Site!ExportLink
  <2>1. /\ step = "export" /\ step' = "fetch"
        /\ UNCHANGED <<resource, optIn, header, read, sentTo, outcome>>
    BY <1>6 DEF Site!ExportLink, Site!Fetch
  <2>2. PICK u : /\ Site!StartFetch(u)
                 /\ u \in Links
                 /\ resource.kind = "app" => u = read.link
    BY <1>6 DEF Site!ExportLink, Site!Fetch, SiteInv, SiteReads
  <2>3. FetchInv' /\ first' = u
    <3>1. u \in Urls
      BY <2>2, ReadsAssumption
    <3>2. Link!StartFetch(u)
      BY <2>2, StartsAlike
    <3> QED
      BY <3>1, <3>2, FetchStarts DEF Link!StartFetch
  <2>4. SiteTypes'
    BY <2>1 DEF SiteInv, SiteTypes
  <2>5. sentTo = {} /\ outcome = "pending"
    BY <2>1 DEF SiteInv, SiteTypes, SiteReads
  <2>6. SiteReads'
    BY <2>1, <2>2, <2>3, <2>5 DEF SiteReads
  <2> QED
    BY <2>1, <2>3, <2>4, <2>5, <2>6, SiteGoes
<1>7. CASE Site!Fetches
  <2>1. /\ step = "fetch"
        /\ UNCHANGED <<resource, optIn, step, header, read, sentTo, outcome>>
    BY <1>7 DEF Site!Fetches, Site!siteVars
  <2>2. FetchInv' /\ first' = first
    BY <1>7, SiteFetchSteps, FetchSteps, FetchFirst DEF Site!Fetches, SiteInv
  <2>3. SiteTypes'
    BY <2>1 DEF SiteInv, SiteTypes
  <2>4. sentTo = {} /\ outcome = "pending"
    BY <2>1 DEF SiteInv, SiteTypes, SiteReads
  <2>5. SiteReads'
    BY <2>1, <2>2, <2>4 DEF SiteInv, SiteReads
  <2> QED
    BY <2>1, <2>2, <2>3, <2>4, <2>5, SiteGoes
<1>8. CASE Site!Fetched
  BY <1>8, SiteFinishes DEF Site!Fetched
<1>9. CASE Site!ExportTriggers
  BY <1>9, SiteFinishes DEF Site!ExportTriggers
<1>10. CASE Site!ExportPath
  <2>1. /\ step = "export" /\ step' = "config"
        /\ resource.kind = "app" /\ read.link = NoLink /\ read.path /\ optIn
        /\ UNCHANGED <<resource, optIn, header, read, sentTo, outcome>>
        /\ UNCHANGED Site!fetchVars
    BY <1>10 DEF Site!ExportPath, Site!Supported
  <2>2. FetchInv' /\ fetch' = fetch /\ first' = first
    BY <2>1, SiteQuiet
  <2>3. SiteTypes'
    BY <2>1 DEF SiteInv, SiteTypes
  <2>4. fetch = "idle" /\ sentTo = {} /\ outcome = "pending"
    BY <2>1 DEF SiteInv, SiteTypes, SiteReads
  <2>5. SiteReads'
    BY <2>1, <2>2, <2>4 DEF SiteReads
  <2> QED
    BY <2>1, <2>2, <2>3, <2>4, <2>5, SiteGoes
<1>11. CASE Site!AskScm
  <2>1. CASE resource.private \/ Site!ScmHost = "none"
    <3>1. Site!Finish("threw")
      BY <1>11, <2>1 DEF Site!AskScm
    <3> QED
      BY <3>1, SiteFinishes
  <2>2. CASE ~ (resource.private \/ Site!ScmHost = "none")
    <3>1. /\ step = "config" /\ step' = "scm" /\ sentTo' = sentTo \cup {"own"}
          /\ UNCHANGED <<resource, optIn, header, read, outcome>>
          /\ UNCHANGED Site!fetchVars
      BY <1>11, <2>2 DEF Site!AskScm, Site!ScmHost
    <3>2. FetchInv' /\ fetch' = fetch /\ first' = first
      BY <3>1, SiteQuiet
    <3>3. SiteTypes'
      BY <3>1 DEF SiteInv, SiteTypes
    <3>4. /\ fetch = "idle" /\ sentTo = {} /\ outcome = "pending"
          /\ resource.kind = "app" /\ read.link = NoLink /\ read.path /\ optIn
      BY <3>1 DEF SiteInv, SiteTypes, SiteReads
    <3>5. SiteReads' /\ SiteEnd'
      BY <3>1, <3>2, <3>4 DEF SiteReads, SiteEnd
    <3> QED
      BY <3>2, <3>3, <3>5 DEF SiteInv
  <2> QED
    BY <2>1, <2>2
<1>12. CASE Site!ScmAnswers
  BY <1>12, SiteFinishes DEF Site!ScmAnswers
<1>13. CASE UNCHANGED <<Site!siteVars, Site!fetchVars>>
  <2>1. /\ UNCHANGED <<resource, optIn, step, header, read, sentTo, outcome>>
        /\ UNCHANGED Site!fetchVars
    BY <1>13 DEF Site!siteVars
  <2>2. FetchInv' /\ fetch' = fetch /\ first' = first
    BY <2>1, SiteQuiet
  <2>3. SiteTypes'
    BY <2>1 DEF SiteInv, SiteTypes
  <2>4. SiteReads'
    BY <2>1, <2>2 DEF SiteInv, SiteReads
  <2>5. SiteEnd'
    BY <2>1, <2>2 DEF SiteInv, SiteEnd
  <2> QED
    BY <2>2, <2>3, <2>4, <2>5 DEF SiteInv
<1> QED
  BY <1>1, <1>2, <1>3, <1>4, <1>5, <1>6, <1>7, <1>8, <1>9, <1>10, <1>11, <1>12, <1>13
     DEF Site!Next

LEMMA SiteMeans ==
  ASSUME SiteInv
  PROVE  Site!SiteExportIsTrue /\ Site!TypeOK
<1>1. Site!FetchedIsWhole
  BY DEF SiteInv, FetchInv, Site!FetchedIsWhole
<1>2. Site!FetchTyped
  BY DEF SiteInv, FetchInv, Site!FetchTyped, Link!FetchTyped, Site!Ended, Link!Ended
<1>3. Site!SiteExportIsTrue
  BY <1>1 DEF SiteInv, SiteEnd, Site!SiteExportIsTrue
<1> QED
  BY <1>2, <1>3 DEF Site!TypeOK, SiteInv, SiteTypes, SiteEnd

-----------------------------------------------------------------------------
(* LogicExport.                                                            *)

\* What the listing has gone through before the site at hand.
Passed == {Consumption} \cup { Sites[i] : i \in 1 .. place - 1 }

\* The listing so far is that of the sites so far.
LogicListing ==
  /\ place \in 1 .. Len(Sites) + 1
  /\ skipped \subseteq { Sites[i] : i \in 1 .. place - 1 }
  /\ step = "workflows" => place = 1 /\ offered = {} /\ skipped = {}
  /\ step = "sites" => place <= Len(Sites) /\ offered = (enabled \cap Passed) \ skipped
  /\ \/ step \in {"listed", "export", "native", "synthesize"}
     \/ outcome \in {"reconstructed", "partial", "unsupported"}
     => offered = enabled \ skipped

LogicTypes ==
  /\ enabled \subseteq Logic!Workflows
  /\ definition \in [Logic!Workflows -> Logic!Definitions]
  /\ step \in {"workflows", "sites", "listed", "export", "native", "synthesize", "done"}
  /\ offered \subseteq Logic!Workflows
  /\ workflow \in Logic!Workflows \cup {NoWorkflow}
  /\ step \in {"export", "native", "synthesize"} => workflow \in Logic!Workflows
  /\ {cached, made} \subseteq Logic!Definitions \cup {"none"}
  /\ native \in Logic!NativeAnswers \cup {"none"}
  /\ outcome \in {"pending", "reconstructed", "partial", "unsupported", "threw"}
  /\ outcome # "pending" <=> step = "done"

\* Azure is asked for the document of a consumption workflow only, and what is
\* made from triggers afterwards replaces none it had to return.
LogicNative ==
  /\ step \in {"workflows", "sites", "listed", "export", "native"} => native = "none"
  /\ step = "native" => listSwagger /\ workflow = Consumption
  /\ step = "synthesize" \/ outcome = "partial" =>
       /\ native \notin {"swagger", "exhausted"}
       /\ required => native \notin {"invalid", "malformed"}
  /\ outcome = "partial" => made = "request"
  /\ outcome = "reconstructed" =>
       native = "swagger" /\ listSwagger /\ workflow = Consumption

LogicInv == LogicTypes /\ LogicListing /\ LogicNative

LEMMA SitesFacts ==
  /\ Len(Sites) \in Nat /\ DOMAIN Sites = 1 .. Len(Sites)
  /\ Logic!Workflows = {Consumption} \cup { Sites[i] : i \in 1 .. Len(Sites) }
  /\ Sites = <<>> <=> Len(Sites) = 0
<1> DEFINE S == { Sites[i] : i \in DOMAIN Sites }
<1>1. Sites \in Seq(S)
  BY ReadsAssumption
<1> HIDE DEF S
<1> QED
  BY <1>1, LenProperties, EmptySeq DEF Logic!Workflows

LEMMA LogicStarts ==
  ASSUME Logic!Init
  PROVE  LogicInv
<1>1. LogicTypes
  BY DEF Logic!Init, LogicTypes
<1>2. LogicListing
  BY SitesFacts DEF Logic!Init, LogicListing
<1>3. LogicNative
  BY DEF Logic!Init, LogicNative
<1> QED
  BY <1>1, <1>2, <1>3 DEF LogicInv

\* After the site at hand comes the next, or the end of the list.
LEMMA NextPlace ==
  ASSUME LogicInv, step = "sites", Logic!NextSite, enabled' = enabled,
         \/ offered' = offered \cup ({Sites[place]} \cap enabled) /\ skipped' = skipped
         \/ offered' = offered /\ skipped' = skipped \cup {Sites[place]}
  PROVE  LogicListing'
<1>1. /\ place \in 1 .. Len(Sites) /\ place' = place + 1 /\ Len(Sites) \in Nat
      /\ outcome' = outcome /\ outcome = "pending"
      /\ step' = IF place = Len(Sites) THEN "listed" ELSE "sites"
      /\ skipped \subseteq { Sites[i] : i \in 1 .. place - 1 }
      /\ offered = (enabled \cap Passed) \ skipped
      /\ enabled \subseteq Logic!Workflows
  <2>1. Len(Sites) \in Nat /\ place' = place + 1 /\ outcome' = outcome
        /\ step' = IF place = Len(Sites) THEN "listed" ELSE "sites"
    BY SitesFacts DEF Logic!NextSite
  <2>2. outcome = "pending" /\ enabled \subseteq Logic!Workflows
    BY DEF LogicInv, LogicTypes
  <2>3. /\ place \in 1 .. Len(Sites) + 1 /\ place <= Len(Sites)
        /\ skipped \subseteq { Sites[i] : i \in 1 .. place - 1 }
        /\ offered = (enabled \cap Passed) \ skipped
    BY DEF LogicInv, LogicListing
  <2> QED
    BY <2>1, <2>2, <2>3
<1>2. 1 .. place' - 1 = (1 .. place - 1) \cup {place}
  BY <1>1
<1>3. { Sites[i] : i \in 1 .. place' - 1 } =
        { Sites[i] : i \in 1 .. place - 1 } \cup {Sites[place]}
  BY <1>2
<1>4. Sites[place] \notin Passed
  <2>1. ASSUME NEW i \in 1 .. place - 1
        PROVE  Sites[place] # Sites[i]
    <3>1. place \in 1 .. Len(Sites) /\ Len(Sites) \in Nat
      BY <1>1
    <3>2. i \in 1 .. Len(Sites) /\ i # place
      BY <3>1
    <3> QED
      BY <3>1, <3>2, SitesFacts, ReadsAssumption
  <2>2. Sites[place] # Consumption
    BY <1>1, SitesFacts, ReadsAssumption
  <2> QED
    BY <2>1, <2>2 DEF Passed
<1>5. Passed' = Passed \cup {Sites[place]}
  BY <1>3 DEF Passed
<1>6. Sites[place] \notin skipped
  BY <1>1, <1>4 DEF Passed
<1>7. offered' = (enabled' \cap Passed') \ skipped'
  BY <1>1, <1>4, <1>5, <1>6
<1>8. skipped' \subseteq { Sites[i] : i \in 1 .. place' - 1 }
  BY <1>1, <1>3
<1>9. CASE place = Len(Sites)
  <2>1. Passed' = Logic!Workflows
    BY <1>1, <1>9, SitesFacts DEF Passed
  <2>2. offered' = enabled' \ skipped'
    BY <1>1, <1>7, <2>1
  <2> QED
    BY <1>1, <1>8, <1>9, <2>2 DEF LogicListing
<1>10. CASE place # Len(Sites)
  BY <1>1, <1>7, <1>8, <1>10 DEF LogicListing
<1> QED
  BY <1>9, <1>10

\* Once it is listed, the listing is left alone.
LEMMA ListingKept ==
  ASSUME LogicTypes, LogicListing, step # "sites", step # "workflows", step' # "sites",
         step' # "workflows", step # "done",
         UNCHANGED <<enabled, place, offered, skipped>>
  PROVE  LogicListing'
BY DEF LogicListing, LogicTypes

LEMMA LogicStays ==
  ASSUME LogicInv, [Logic!Next]_Logic!logicVars
  PROVE  LogicInv'
<1> USE DEF LogicInv
<1>1. ASSUME NEW to \in Logic!Definitions, Logic!Change(to)
      PROVE  LogicInv'
  <2>1. /\ step \in {"export", "native", "synthesize"}
        /\ definition' = [definition EXCEPT ![workflow] = to]
        /\ UNCHANGED <<enabled, listSwagger, required, step, place, offered, skipped,
                       workflow, cached, native, made, outcome>>
    BY <1>1 DEF Logic!Change, Logic!given
  <2>2. LogicTypes'
    BY <2>1 DEF LogicTypes
  <2>3. LogicListing'
    BY <2>1 DEF LogicListing
  <2>4. LogicNative'
    BY <2>1 DEF LogicNative
  <2> QED
    BY <2>2, <2>3, <2>4
<1>2. CASE Logic!Threw /\ step # "done"
  <2>1. /\ step' = "done" /\ outcome' = "threw"
        /\ UNCHANGED <<enabled, listSwagger, required, definition, place, offered, skipped,
                       workflow, cached, native, made>>
    BY <1>2 DEF Logic!Threw, Logic!Finish, Logic!given
  <2>2. LogicTypes'
    BY <2>1 DEF LogicTypes
  <2>3. LogicListing'
    BY <2>1 DEF LogicListing
  <2>4. LogicNative'
    BY <2>1 DEF LogicNative
  <2> QED
    BY <2>2, <2>3, <2>4
<1>3. CASE Logic!ListWorkflows
  <2>1. /\ step = "workflows" /\ offered' = offered \cup ({Consumption} \cap enabled)
        /\ step' = IF Sites = <<>> THEN "listed" ELSE "sites"
        /\ UNCHANGED <<enabled, listSwagger, required, definition, place, skipped,
                       workflow, cached, native, made, outcome>>
    BY <1>3 DEF Logic!ListWorkflows, Logic!Lists, Logic!given
  <2>2. LogicTypes'
    BY <2>1 DEF LogicTypes, Logic!Workflows
  <2>3. LogicListing'
    <3>1. /\ place = 1 /\ offered = {} /\ skipped = {} /\ enabled \subseteq Logic!Workflows
          /\ outcome = "pending" /\ Len(Sites) \in Nat
      BY <2>1, SitesFacts DEF LogicListing, LogicTypes
    <3>2. 1 .. place - 1 = {}
      BY <3>1
    <3>3. Passed' = {Consumption}
      BY <2>1, <3>2 DEF Passed
    <3>4. offered' = (enabled' \cap Passed') \ skipped' /\ skipped' = {}
      BY <2>1, <3>1, <3>3
    <3>5. CASE Sites = <<>>
      <4>1. offered' = enabled' \ skipped' /\ step' = "listed"
        BY <2>1, <3>1, <3>4, <3>5, SitesFacts
      <4> QED
        BY <2>1, <3>1, <3>4, <4>1 DEF LogicListing
    <3>6. CASE Sites # <<>>
      <4>1. place <= Len(Sites) /\ step' = "sites"
        BY <2>1, <3>1, <3>6, SitesFacts
      <4> QED
        BY <2>1, <3>1, <3>4, <4>1 DEF LogicListing
    <3> QED
      BY <3>5, <3>6
  <2>4. LogicNative'
    BY <2>1 DEF LogicNative, LogicTypes
  <2> QED
    BY <2>2, <2>3, <2>4
<1>4. CASE Logic!ListSite \/ Logic!SkipSite
  <2>1. /\ step = "sites" /\ Logic!NextSite
        /\ step' \in {"sites", "listed"}
        /\ UNCHANGED <<enabled, listSwagger, required, definition,
                       workflow, cached, native, made, outcome>>
        /\ \/ offered' = offered \cup ({Sites[place]} \cap enabled) /\ skipped' = skipped
           \/ offered' = offered /\ skipped' = skipped \cup {Sites[place]}
    BY <1>4 DEF Logic!ListSite, Logic!SkipSite, Logic!NextSite, Logic!Lists, Logic!given
  <2>2. LogicTypes'
    <3>1. offered' \subseteq Logic!Workflows
      BY <2>1 DEF LogicTypes
    <3> QED
      BY <2>1, <3>1 DEF LogicTypes
  <2>3. LogicListing'
    BY <2>1, NextPlace
  <2>4. LogicNative'
    BY <2>1 DEF LogicNative, LogicTypes
  <2> QED
    BY <2>2, <2>3, <2>4
<1>5. ASSUME NEW w \in Logic!Workflows, Logic!Hydrate(w)
      PROVE  LogicInv'
  <2>1. /\ step = "listed" /\ workflow' = w /\ cached' = definition[w]
        /\ \/ step' = "done" /\ outcome' = "unsupported"
           \/ step' = "export" /\ outcome' = outcome
        /\ UNCHANGED <<enabled, listSwagger, required, definition, place, offered, skipped,
                       native, made>>
    BY <1>5 DEF Logic!Hydrate, Logic!Finish, Logic!given
  <2>2. LogicTypes'
    BY <2>1 DEF LogicTypes
  <2>3. LogicListing'
    BY <2>1, ListingKept
  <2>4. LogicNative'
    BY <2>1 DEF LogicNative, LogicTypes
  <2> QED
    BY <2>2, <2>3, <2>4
<1>6. CASE Logic!Export
  <2>1. /\ step = "export"
        /\ step' = IF workflow = Consumption /\ listSwagger THEN "native" ELSE "synthesize"
        /\ UNCHANGED <<enabled, listSwagger, required, definition, place, offered, skipped,
                       workflow, cached, native, made, outcome>>
    BY <1>6 DEF Logic!Export, Logic!given
  <2>2. LogicTypes'
    BY <2>1 DEF LogicTypes
  <2>3. LogicListing'
    BY <2>1, ListingKept
  <2>4. LogicNative'
    BY <2>1 DEF LogicNative, LogicTypes
  <2> QED
    BY <2>2, <2>3, <2>4
<1>7. ASSUME NEW answer \in Logic!NativeAnswers, Logic!AskNative(answer)
      PROVE  LogicInv'
  <2>1. /\ step = "native" /\ native' = answer
        /\ \/ answer = "swagger" /\ step' = "done" /\ outcome' = "reconstructed"
           \/ step' = "done" /\ outcome' = "threw"
           \/ /\ answer \notin {"swagger", "exhausted"}
              /\ required => answer \notin {"invalid", "malformed"}
              /\ step' = "synthesize" /\ outcome' = outcome
        /\ UNCHANGED <<enabled, listSwagger, required, definition, place, offered, skipped,
                       workflow, cached, made>>
    BY <1>7 DEF Logic!AskNative, Logic!Finish, Logic!given
  <2>2. LogicTypes'
    BY <2>1 DEF LogicTypes
  <2>3. LogicListing'
    BY <2>1, ListingKept
  <2>4. LogicNative'
    BY <2>1 DEF LogicNative, LogicTypes
  <2> QED
    BY <2>2, <2>3, <2>4
<1>8. ASSUME NEW what, what = cached \/ what = definition[workflow], Logic!MakeFrom(what)
      PROVE  LogicInv'
  <2>1. /\ step = "synthesize" /\ made' = what /\ step' = "done"
        /\ outcome' = IF what = "request" THEN "partial" ELSE "threw"
        /\ UNCHANGED <<enabled, listSwagger, required, definition, place, offered, skipped,
                       workflow, cached, native>>
    BY <1>8 DEF Logic!MakeFrom, Logic!Finish, Logic!given
  <2>2. LogicTypes'
    BY <1>8, <2>1 DEF LogicTypes
  <2>3. LogicListing'
    BY <2>1, ListingKept
  <2>4. LogicNative'
    BY <2>1 DEF LogicNative, LogicTypes
  <2> QED
    BY <2>2, <2>3, <2>4
<1>9. CASE UNCHANGED Logic!logicVars
  <2>1. UNCHANGED <<enabled, listSwagger, required, definition, step, place, offered,
                    skipped, workflow, cached, native, made, outcome>>
    BY <1>9 DEF Logic!logicVars
  <2>2. LogicTypes'
    BY <2>1 DEF LogicTypes
  <2>3. LogicListing'
    <3>1. Passed' = Passed
      BY <2>1 DEF Passed
    <3> QED
      BY <2>1, <3>1 DEF LogicListing
  <2>4. LogicNative'
    BY <2>1 DEF LogicNative
  <2> QED
    BY <2>2, <2>3, <2>4
<1>10. Logic!ReadFails \/ Logic!CallFails => Logic!Threw /\ step # "done"
  BY DEF Logic!ReadFails, Logic!CallFails
<1> QED
  BY <1>1, <1>2, <1>3, <1>4, <1>5, <1>6, <1>7, <1>8, <1>9, <1>10
     DEF Logic!Next, Logic!Synthesize

LEMMA LogicMeans ==
  ASSUME LogicInv
  PROVE  Logic!LogicIsTrue /\ Logic!TypeOK
<1>1. Logic!NoWorkflowIsLost
  BY DEF LogicInv, LogicListing, Logic!NoWorkflowIsLost
<1>2. Logic!LogicExportIsTrue
  BY DEF LogicInv, LogicNative, Logic!LogicExportIsTrue
<1>3. skipped \subseteq { Sites[i] : i \in DOMAIN Sites }
  BY SitesFacts DEF LogicInv, LogicListing
<1> QED
  BY <1>1, <1>2, <1>3 DEF Logic!LogicIsTrue, Logic!TypeOK, LogicInv, LogicTypes, LogicListing

-----------------------------------------------------------------------------
(* The exports.                                                            *)

ExportsInv ==
  /\ part = "minting" => FetchInv /\ AttemptInv
  /\ part = "polling" => PollingInv
  /\ part = "site" => SiteInv
  /\ part = "logic" => LogicInv

LEMMA ExportsHold == ReadsSpec => []ExportsInv
<1>1. ReadsInit => ExportsInv
  BY PartsStart, MintingStarts, PollingStarts, SiteStarts, LogicStarts DEF ExportsInv
<1>2. ExportsInv /\ [ReadsNext]_all => ExportsInv'
  <2> SUFFICES ASSUME ExportsInv, [ReadsNext]_all PROVE ExportsInv'
    OBVIOUS
  <2>1. CASE part = "minting"
    BY <2>1, PartsStep, MintingStays DEF ExportsInv
  <2>2. CASE part = "polling"
    BY <2>2, PartsStep, PollingStays DEF ExportsInv
  <2>3. CASE part = "site"
    BY <2>3, PartsStep, SiteStays DEF ExportsInv
  <2>4. CASE part = "logic"
    BY <2>4, PartsStep, LogicStays DEF ExportsInv
  <2>5. CASE part \notin {"minting", "polling", "site", "logic"}
    BY <2>5, PartsStep DEF ExportsInv
  <2> QED
    BY <2>1, <2>2, <2>3, <2>4, <2>5
<1> QED
  BY <1>1, <1>2, PTL DEF ReadsSpec

\* What an export hands on is the whole document of a link made for it, comes
\* from where its class says it does, was asked for where it may be, and no
\* listing loses a workflow: src/lib/azure/apim-client.ts,
\* src/lib/azure/apic-client.ts, src/lib/fetch/spec-fetcher.ts,
\* src/lib/providers/app-service.ts and src/lib/providers/logic-apps.ts.
THEOREM ExportsStayTrue == ReadsSpec => []ExportsAreTrue
<1>1. ExportsInv => ExportsAreTrue
  BY MintingMeans, PollingMeans, SiteMeans, LogicMeans DEF ExportsInv, ExportsAreTrue
<1> QED
  BY <1>1, ExportsHold, PTL

-----------------------------------------------------------------------------
(* ApimListing and Narrowing.                                              *)

LEMMA ApimCardinality == \A S : Apim!Cardinality(S) = Cardinality(S)
BY DEF Apim!Cardinality, Cardinality, Apim!IsFiniteSet, IsFiniteSet

\* The APIs there are to list once the workspaces have answered.
Reachable == IF service.workspaces THEN Apis ELSE Apis \ InWorkspace

GrpcListed == { a \in listed : service.kind[a] = "grpc" }

\* No id is used by two of them, and no answer is missing.
SchemasTold ==
  masked = {} /\ \A a, b \in GrpcListed : IdOf[a] = IdOf[b] => a = b

\* What is kept of the APIs that have been asked about is what was answered.
ListingInv ==
  /\ service \in Apim!Services
  /\ step \in {"meta", "apis", "workspaces", "schemas", "done"}
  /\ outcome \in {"pending", "ok", "threw"}
  /\ outcome # "pending" <=> step = "done"
  /\ assigned \subseteq { IdOf[a] : a \in Apis }
  /\ step \in {"meta", "apis"} => listed = {}
  /\ step = "workspaces" => listed = Apis \ InWorkspace
  /\ step \in {"meta", "apis", "workspaces"} => protobuf = {} /\ masked = {}
  /\ step = "schemas" \/ outcome = "ok" => listed = Apim!Retained(Reachable)
  /\ listed \subseteq Apis
  /\ toCheck \subseteq GrpcListed
  /\ protobuf \subseteq { IdOf[a] : a \in listed } /\ masked \subseteq listed
  /\ outcome = "ok" => toCheck = {}

SchemasInv ==
  step = "schemas" \/ outcome = "ok" =>
    (SchemasTold =>
       \A a \in GrpcListed \ toCheck : IdOf[a] \in protobuf <=> a \in service.schema)

LEMMA ListingStarts ==
  ASSUME Apim!Init
  PROVE  ListingInv /\ SchemasInv
<1>1. service \in Apim!Services
  BY DEF Apim!Init
<1> QED
  BY <1>1 DEF Apim!Init, ListingInv, SchemasInv, GrpcListed

LEMMA ListingAsks ==
  ASSUME ListingInv, SchemasInv, NEW a, NEW has, Apim!NextToCheck(a),
         Apim!SchemaIs(a, has),
         \/ has = (a \in service.schema) /\ masked' = masked
         \/ has = FALSE /\ masked' = masked \cup {a}
  PROVE  ListingInv' /\ SchemasInv'
<1>1. /\ step = "schemas" /\ a \in toCheck /\ a \in GrpcListed /\ a \in listed
      /\ outcome = "pending"
  BY DEF Apim!NextToCheck, ListingInv, GrpcListed
<1>2. /\ protobuf' = IF has THEN protobuf \cup {IdOf[a]} ELSE protobuf \ {IdOf[a]}
      /\ toCheck' = toCheck \ {a}
      /\ UNCHANGED <<service, step, assigned, listed, outcome>>
  BY DEF Apim!SchemaIs
<1>3. GrpcListed' = GrpcListed /\ Reachable' = Reachable
      /\ Apim!Retained(Reachable)' = Apim!Retained(Reachable)
  BY <1>2 DEF GrpcListed, Reachable, Apim!Retained
<1>4. ListingInv'
  <2>1. protobuf' \subseteq { IdOf[b] : b \in listed' }
    BY <1>1, <1>2 DEF ListingInv
  <2>2. masked' \subseteq listed' /\ toCheck' \subseteq GrpcListed'
    BY <1>1, <1>2, <1>3 DEF ListingInv
  <2>3. Reachable' = Reachable /\ listed' = Apim!Retained(Reachable)'
    BY <1>1, <1>2, <1>3 DEF ListingInv
  <2> QED
    BY <1>1, <1>2, <2>1, <2>2, <2>3 DEF ListingInv
<1>5. SchemasInv'
  <2> SUFFICES ASSUME SchemasTold', NEW b \in GrpcListed' \ toCheck'
               PROVE  IdOf[b] \in protobuf' <=> b \in service.schema
    BY <1>2 DEF SchemasInv
  <2>1. /\ masked' = masked /\ masked = {} /\ has = (a \in service.schema)
        /\ SchemasTold
    BY <1>3 DEF SchemasTold
  <2>2. CASE b = a
    BY <1>2, <2>1, <2>2
  <2>3. CASE b # a
    <3>1. IdOf[b] # IdOf[a]
      BY <1>1, <1>3, <2>3 DEF SchemasTold
    <3>2. IdOf[b] \in protobuf' <=> IdOf[b] \in protobuf
      BY <1>2, <3>1
    <3>3. b \in GrpcListed \ toCheck
      BY <1>2, <1>3, <2>3
    <3> QED
      BY <1>1, <2>1, <3>2, <3>3 DEF SchemasInv
  <2> QED
    BY <2>2, <2>3
<1> QED
  BY <1>4, <1>5

LEMMA ListingStays ==
  ASSUME ListingInv, SchemasInv, [Apim!Next]_Apim!listingVars
  PROVE  ListingInv' /\ SchemasInv'
<1>1. CASE Apim!ReadMeta
  <2>1. /\ step = "meta" /\ step' = "apis"
        /\ assigned' \subseteq { IdOf[a] : a \in Apis }
        /\ UNCHANGED <<service, listed, toCheck, protobuf, masked, outcome>>
    BY <1>1 DEF Apim!ReadMeta
  <2>2. GrpcListed' = GrpcListed /\ outcome = "pending"
    BY <2>1 DEF GrpcListed, ListingInv
  <2> QED
    BY <2>1, <2>2 DEF ListingInv, SchemasInv
<1>2. CASE Apim!ReadApis
  <2>1. /\ step = "apis" /\ step' = "workspaces" /\ listed' = Apis \ InWorkspace
        /\ UNCHANGED <<service, assigned, toCheck, protobuf, masked, outcome>>
    BY <1>2 DEF Apim!ReadApis
  <2>2. outcome = "pending" /\ listed = {} /\ protobuf = {} /\ toCheck = {} /\ masked = {}
    BY <2>1 DEF ListingInv, GrpcListed
  <2> QED
    BY <2>1, <2>2 DEF ListingInv, SchemasInv
<1>3. CASE Apim!ReadWorkspaces
  <2>1. /\ step = "workspaces" /\ step' = "schemas"
        /\ UNCHANGED <<service, assigned, protobuf, masked, outcome>>
        /\ toCheck' = { a \in listed' : service.kind[a] = "grpc" }
    BY <1>3 DEF Apim!ReadWorkspaces, Apim!WithWorkspaces
  <2>2. listed' = Apim!Retained(Reachable)
    BY <1>3, <2>1 DEF Apim!ReadWorkspaces, Apim!WithWorkspaces, Reachable, ListingInv
  <2>3. Apim!Retained(Reachable)' = Apim!Retained(Reachable)
    BY <2>1 DEF Apim!Retained, Reachable
  <2>4. toCheck' = GrpcListed' /\ outcome = "pending" /\ protobuf = {}
    BY <2>1 DEF GrpcListed, ListingInv
  <2>5. listed' \subseteq Apis
    BY <2>2 DEF Apim!Retained, Reachable
  <2>6. masked \subseteq listed'
    BY <2>1, <2>2 DEF ListingInv
  <2> QED
    BY <2>1, <2>2, <2>3, <2>4, <2>5, <2>6 DEF ListingInv, SchemasInv
<1>4. CASE Apim!Threw
  <2>1. /\ step' = "done" /\ outcome' = "threw"
        /\ UNCHANGED <<service, assigned, listed, toCheck, protobuf, masked>>
    BY <1>4 DEF Apim!Threw
  <2>2. GrpcListed' = GrpcListed
    BY <2>1 DEF GrpcListed
  <2> QED
    BY <2>1, <2>2 DEF ListingInv, SchemasInv
<1>5. ASSUME NEW a \in Apis, Apim!CheckSchema(a) \/ Apim!CheckFails(a)
      PROVE  ListingInv' /\ SchemasInv'
  <2>1. CASE Apim!CheckSchema(a)
    BY <2>1, ListingAsks DEF Apim!CheckSchema
  <2>2. CASE Apim!CheckFails(a)
    BY <2>2, ListingAsks DEF Apim!CheckFails
  <2> QED
    BY <1>5, <2>1, <2>2
<1>6. CASE Apim!Emit
  <2>1. /\ step = "schemas" /\ toCheck = {} /\ step' = "done" /\ outcome' = "ok"
        /\ UNCHANGED <<service, assigned, listed, toCheck, protobuf, masked>>
    BY <1>6 DEF Apim!Emit
  <2>2. GrpcListed' = GrpcListed /\ Apim!Retained(Reachable)' = Apim!Retained(Reachable)
        /\ SchemasTold' = SchemasTold
    BY <2>1 DEF GrpcListed, Apim!Retained, Reachable, SchemasTold
  <2> QED
    BY <2>1, <2>2 DEF ListingInv, SchemasInv
<1>7. CASE UNCHANGED Apim!listingVars
  <2>1. UNCHANGED <<service, step, assigned, listed, toCheck, protobuf, masked, outcome>>
    BY <1>7 DEF Apim!listingVars
  <2>2. GrpcListed' = GrpcListed /\ Apim!Retained(Reachable)' = Apim!Retained(Reachable)
        /\ SchemasTold' = SchemasTold
    BY <2>1 DEF GrpcListed, Apim!Retained, Reachable, SchemasTold
  <2> QED
    BY <2>1, <2>2 DEF ListingInv, SchemasInv
<1> QED
  BY <1>1, <1>2, <1>3, <1>4, <1>5, <1>6, <1>7 DEF Apim!Next

\* Of some numbers one is the least.
LEMMA Least ==
  ASSUME NEW S \in SUBSET Nat, S # {}
  PROVE  \E n \in S : \A m \in S : n <= m
<1>1. PICK n \in S : \A m \in S : ~ (<<m, n>> \in OpToRel(<, Nat))
  BY NatLessThanWellFounded, WFMin
<1>2. \A m \in S : m \in Nat /\ n \in Nat /\ ~ (m < n)
  BY <1>1 DEF OpToRel
<1> QED
  BY <1>2

\* Candidates without a gateway path are selected by the tag tier alone.
LEMMA TagSelects ==
  ASSUME NEW C, \A c \in C : c.path = "none"
  PROVE  LET tag == Apim!TagPreFilter(C, {})
             pick == Apim!Narrow(C, {})
         IN /\ pick.mode = "select" <=> tag.ids # {} /\ tag.select
            /\ pick.mode = "select" => pick.ids = tag.ids
<1> DEFINE tag == Apim!TagPreFilter(C, {})
           tiers == Apim!Tiers(C, {})
           hits == { i \in 1 .. 6 : tiers[i].hit.ids # {} }
           least == CHOOSE i \in hits : \A j \in hits : i <= j
<1>1. /\ DOMAIN tiers = 1 .. 6
      /\ tiers[1].hit = Apim!HostPath(C)
      /\ tiers[2].hit = tag
      /\ \A i \in 3 .. 6 : tiers[i].hit.select = FALSE
  <2>1. /\ Len(tiers) = 6 /\ DOMAIN tiers = 1 .. 6
        /\ tiers[1].hit = Apim!HostPath(C) /\ tiers[2].hit = tag
    BY DEF Apim!Tiers
  <2>2. /\ tiers[3].hit.select = FALSE /\ tiers[4].hit.select = FALSE
        /\ tiers[5].hit.select = FALSE /\ tiers[6].hit.select = FALSE
    BY DEF Apim!Tiers, Apim!GatewayAssignment, Apim!WeakTier, Apim!Hit
  <2>3. \A i \in 3 .. 6 : i \in {3, 4, 5, 6}
    OBVIOUS
  <2> HIDE DEF tiers
  <2> QED
    BY <2>1, <2>2, <2>3
<1>2. Apim!HostPath(C).ids = {}
  <2>1. { c \in C : c.path = "exact" } = {} /\ { c \in C : c.path = "host" } = {}
    OBVIOUS
  <2>2. Apim!HostPath(C) = Apim!Hit(Apim!Fitting({}), FALSE)
    BY <2>1 DEF Apim!HostPath
  <2> QED
    BY <2>2 DEF Apim!Hit, Apim!Fitting
<1>3. Apim!Narrow(C, {}) =
        IF hits = {} THEN Apim!NoTier
        ELSE [tier |-> tiers[least].tier, ids |-> tiers[least].hit.ids,
              mode |-> IF tiers[least].hit.select THEN "select" ELSE "narrow"]
  BY <1>1 DEF Apim!Narrow
<1> HIDE DEF tiers, tag
<1>4. 1 \notin hits /\ (2 \in hits <=> tag.ids # {})
  BY <1>1, <1>2
<1>5. hits # {} => least \in hits /\ \A j \in hits : least <= j
  <2> SUFFICES ASSUME hits # {} PROVE \E i \in hits : \A j \in hits : i <= j
    OBVIOUS
  <2>1. hits \in SUBSET Nat
    OBVIOUS
  <2> HIDE DEF hits
  <2> QED
    BY <2>1, Least
<1>6. Apim!NoTier.mode = "none"
  BY DEF Apim!NoTier
<1>7. CASE tag.ids # {}
  <2>1. hits # {} /\ least \in hits /\ least <= 2 /\ least \in 1 .. 6 /\ least # 1
    BY <1>4, <1>5, <1>7
  <2> HIDE DEF least, hits
  <2>2. least = 2
    BY <2>1
  <2>3. /\ Apim!Narrow(C, {}).ids = tag.ids
        /\ Apim!Narrow(C, {}).mode = IF tag.select THEN "select" ELSE "narrow"
    BY <1>1, <1>3, <2>1, <2>2
  <2> QED
    BY <1>7, <2>3 DEF tag
<1>8. CASE tag.ids = {}
  <2>1. hits # {} => least \in 3 .. 6
    <3> SUFFICES ASSUME hits # {} PROVE least \in 3 .. 6
      OBVIOUS
    <3>1. least \in hits /\ least \in 1 .. 6
      BY <1>5
    <3>2. least # 1 /\ least # 2
      BY <1>4, <1>8, <3>1
    <3> HIDE DEF least
    <3> QED
      BY <3>1, <3>2
  <2> HIDE DEF least, hits
  <2>2. Apim!Narrow(C, {}).mode # "select"
    BY <1>1, <1>3, <1>6, <2>1
  <2> QED
    BY <1>8, <2>2 DEF tag
<1> QED
  BY <1>7, <1>8

LEMMA NoneLost == ListingInv => Apim!NoCurrentApiIsLost
<1> SUFFICES ASSUME ListingInv, outcome = "ok" PROVE Apim!NoCurrentApiIsLost
  BY DEF Apim!NoCurrentApiIsLost
<1> DEFINE known == { a \in listed : service.kind[a] # "unknown" }
<1>1. { c.api : c \in Apim!Candidates } = known
  <2>1. \A a : Apim!View(a).api = a
    BY DEF Apim!View
  <2>2. Apim!Candidates = { Apim!View(a) : a \in known }
    BY DEF Apim!Candidates
  <2> HIDE DEF known
  <2> QED
    BY <2>1, <2>2
<1>2. listed = Apim!Retained(Reachable)
  BY DEF ListingInv
<1>3. /\ { a \in Apim!Visible : service.current[a] = "yes" /\ service.kind[a] # "unknown" }
           \subseteq known
      /\ \A a \in known : a \in Apim!Visible /\ service.current[a] # "no"
  BY <1>2 DEF Apim!Retained, Reachable, Apim!Visible
<1> QED
  BY <1>1, <1>3 DEF Apim!NoCurrentApiIsLost

\* What the tag tier does with the candidates of a tagged service.
LEMMA OwnerFacts ==
  ASSUME ListingInv, SchemasInv, IsFiniteSet(Apis), outcome = "ok", Apim!Told,
         service.tag = "canonical"
  PROVE  LET able == { a \in listed : Apim!Exportable(a) }
             tag == Apim!TagPreFilter(Apim!Candidates, {})
         IN /\ Cardinality(able) = 1 <=> tag.ids # {} /\ tag.select
            /\ tag.ids # {} /\ tag.select => { c.api : c \in tag.ids } = able
<1> DEFINE able == { a \in listed : Apim!Exportable(a) }
           known == { a \in listed : service.kind[a] # "unknown" }
           tag == Apim!TagPreFilter(Apim!Candidates, {})
           owners == { c \in Apim!Candidates : "select" \in c.tags }
<1>1. \A a \in listed : Apim!Supported(a) <=> Apim!Exportable(a)
  <2>1. SchemasTold /\ toCheck = {}
    BY DEF Apim!Told, SchemasTold, GrpcListed, ListingInv
  <2> QED
    BY <2>1 DEF SchemasInv, GrpcListed, Apim!Supported, Apim!Exportable
<1>2. Apim!Eligible = able
  BY <1>1 DEF Apim!Eligible
<1>3. IsFiniteSet(able) /\ Cardinality(able) \in Nat
  BY FS_Subset, FS_CardinalityType DEF ListingInv
<1>4. Apim!Inherited <=> Cardinality(able) > 1
  BY <1>2, ApimCardinality DEF Apim!Inherited
<1>5. Apim!Candidates = { Apim!View(a) : a \in known }
  BY DEF Apim!Candidates
<1>6. \A a \in able : a \in known
  BY DEF Apim!Exportable
<1>7. \A a \in known : "select" \in Apim!View(a).tags <=> a \in able \/ Apim!Inherited
  BY <1>1 DEF Apim!View, Apim!Tags
<1>8. owners = { Apim!View(a) : a \in { a \in known : a \in able \/ Apim!Inherited } }
  BY <1>5, <1>7
<1>9. \A a : Apim!View(a).fits /\ Apim!View(a).api = a /\ (Apim!View(a).inherited <=> Apim!Inherited)
  BY DEF Apim!View
<1>10. Apim!Fitting(owners) = owners /\ Apim!Fitting({}) = {}
  BY <1>8, <1>9 DEF Apim!Fitting
<1>11. owners # {} => tag = Apim!ByOwner(owners)
  BY <1>10 DEF Apim!TagPreFilter
<1>12. owners = {} => tag = Apim!Hit({ c \in Apim!Candidates : "generic" \in c.tags }, FALSE)
  BY <1>10 DEF Apim!TagPreFilter
<1>13. /\ Apim!ByOwner(owners).ids = owners
       /\ Apim!ByOwner(owners).select <=>
            Cardinality(owners) = 1 /\ \A c \in owners : ~ c.inherited
  BY ApimCardinality DEF Apim!ByOwner, Apim!Hit, Apim!Sole
<1>14. Apim!Hit({ c \in Apim!Candidates : "generic" \in c.tags }, FALSE).select = FALSE
  BY DEF Apim!Hit
<1> HIDE DEF able, known, tag, owners
<1>15. CASE Cardinality(able) = 1
  <2>1. PICK a : able = {a}
    BY <1>3, <1>15, FS_Singleton
  <2>2. ~ Apim!Inherited
    BY <1>4, <1>15
  <2>3. owners = {Apim!View(a)}
    BY <1>6, <1>8, <2>1, <2>2
  <2>4. Cardinality(owners) = 1
    BY <2>3, FS_Singleton
  <2>5. tag.ids = owners /\ tag.select
    BY <1>9, <1>11, <1>13, <2>2, <2>3, <2>4
  <2>6. { c.api : c \in tag.ids } = able
    BY <1>9, <2>1, <2>3, <2>5
  <2> QED
    BY <1>15, <2>3, <2>5, <2>6 DEF tag, able
<1>16. CASE Cardinality(able) > 1
  <2>1. Apim!Inherited
    BY <1>4, <1>16
  <2>2. \A c \in owners : c.inherited
    BY <1>8, <1>9, <2>1
  <2>3. owners # {} => ~ tag.select
    BY <1>11, <1>13, <2>2
  <2>4. owners = {} => ~ tag.select
    BY <1>12, <1>14
  <2>5. ~ tag.select /\ Cardinality(able) # 1
    BY <1>16, <2>3, <2>4
  <2> QED
    BY <2>5 DEF tag, able
<1>17. CASE Cardinality(able) = 0
  <2>1. able = {} /\ ~ Apim!Inherited
    BY <1>3, <1>4, <1>17, FS_EmptySet
  <2>2. owners = {}
    BY <1>8, <2>1
  <2>3. ~ tag.select
    BY <1>12, <1>14, <2>2
  <2>4. Cardinality(able) # 1
    BY <1>17
  <2> QED
    BY <2>3, <2>4 DEF tag, able
<1> QED
  BY <1>3, <1>15, <1>16, <1>17

LEMMA ListingHolds == ReadsSpec => [](part = "apim" => ListingInv /\ SchemasInv)
<1> DEFINE Inv == part = "apim" => ListingInv /\ SchemasInv
<1>1. ReadsInit => Inv
  BY PartsStart, ListingStarts
<1>2. Inv /\ [ReadsNext]_all => Inv'
  <2> SUFFICES ASSUME Inv, [ReadsNext]_all, part' = "apim"
               PROVE  ListingInv' /\ SchemasInv'
    OBVIOUS
  <2> QED
    BY PartsStep, ListingStays
<1> QED
  BY <1>1, <1>2, PTL DEF ReadsSpec

\* What a service contributes is all that is current, and its repository tag
\* selects the one API that can be exported, or none: listApis of
\* src/lib/azure/clients.ts, src/lib/providers/apim.ts and
\* src/lib/resolve/narrowing-pipeline.ts.
THEOREM ListingStaysTrue == ReadsSpec => []ListingIsTrue
<1>1. (part = "apim" => ListingInv /\ SchemasInv) => ListingIsTrue
  <2> SUFFICES ASSUME ListingInv, SchemasInv PROVE Apim!ListingIsTrue
    BY DEF ListingIsTrue
  <2>1. Apim!NoCurrentApiIsLost
    BY NoneLost
  <2>2. Apim!Owner("canonical")
    <3> SUFFICES ASSUME outcome = "ok", Apim!Told, service.tag = "canonical"
                 PROVE  LET pick == Apim!Narrow(Apim!Candidates, {})
                            able == { a \in listed : Apim!Exportable(a) }
                        IN /\ pick.mode = "select" => { c.api : c \in pick.ids } = able
                           /\ Apim!Sole(able) <=> pick.mode = "select"
      BY DEF Apim!Owner
    <3>1. \A c \in Apim!Candidates : c.path = "none"
      BY DEF Apim!Candidates, Apim!View
    <3> DEFINE able == { a \in listed : Apim!Exportable(a) }
               tag == Apim!TagPreFilter(Apim!Candidates, {})
               pick == Apim!Narrow(Apim!Candidates, {})
    <3>2. /\ Cardinality(able) = 1 <=> tag.ids # {} /\ tag.select
          /\ tag.ids # {} /\ tag.select => { c.api : c \in tag.ids } = able
      BY OwnerFacts, ReadsAssumption
    <3>3. /\ pick.mode = "select" <=> tag.ids # {} /\ tag.select
          /\ pick.mode = "select" => pick.ids = tag.ids
      BY <3>1, TagSelects
    <3>4. Apim!Sole(able) <=> Cardinality(able) = 1
      BY ApimCardinality DEF Apim!Sole
    <3> HIDE DEF able, tag, pick
    <3>5. /\ pick.mode = "select" => { c.api : c \in pick.ids } = able
          /\ Apim!Sole(able) <=> pick.mode = "select"
      BY <3>2, <3>3, <3>4
    <3> QED
      BY <3>5 DEF able, pick
  <2> QED
    BY <2>1, <2>2 DEF Apim!ListingIsTrue
<1> QED
  BY <1>1, ListingHolds, PTL

-----------------------------------------------------------------------------
(* SourceControl.                                                          *)

\* The pool that the enrichment and the estate run.
Pool == INSTANCE SourceControl

LookupStates == [at : Resources, got : Seq(Associations), pages : 1 .. MaxPages]
InHand(w, r) == workers[w] \in LookupStates /\ workers[w].at = r
Item(r) == [key |-> r, at |-> r]
Pairs(r, list) == [i \in DOMAIN list |-> <<r, list[i]>>]
Of(r) == {r} \X Associations

PoolShape ==
  /\ left \subseteq { Item(r) : r \in Resources }
  /\ workers \in [1 .. Width -> {Idle, Stopped} \cup LookupStates]
  /\ found \in Seq(Resources \X Associations)
  /\ failed \in BOOLEAN
  /\ truth \in [Resources -> Seq(Associations)]
  /\ failed => \E w \in 1 .. Width : workers[w] = Stopped

\* A resource is looked up by one worker, once.
PoolOnce ==
  /\ \A r \in Resources : Item(r) \in left => truth[r] = <<>>
  /\ \A w \in 1 .. Width, r \in Resources :
       InHand(w, r) => truth[r] = <<>> /\ Item(r) \notin left
  /\ \A v, w \in 1 .. Width, r \in Resources : InHand(v, r) /\ InHand(w, r) => v = w

\* Between the finds of others, those of a resource stand as it answered.
PoolTrue == \A r \in Resources : Filter(found, Of(r)) = Pairs(r, truth[r])

PoolInv == PoolShape /\ PoolOnce /\ PoolTrue

\* Resources that have been, are being or will be looked up.
Touched ==
  { r \in Resources : \/ truth[r] # <<>> \/ Item(r) \in left
                      \/ \E w \in 1 .. Width : InHand(w, r) }

LEMMA PairsFacts ==
  ASSUME NEW r \in Resources, NEW list \in Seq(Associations)
  PROVE  /\ Pairs(r, list) \in Seq(Resources \X Associations)
         /\ Len(Pairs(r, list)) = Len(list)
         /\ \A i \in 1 .. Len(list) : Pairs(r, list)[i] = <<r, list[i]>>
         /\ \A i \in 1 .. Len(list) : list[i] \in Associations
<1>1. Len(list) \in Nat /\ DOMAIN list = 1 .. Len(list)
  BY LenProperties
<1>2. \A i \in 1 .. Len(list) : list[i] \in Associations
  BY ElementOfSeq
<1>3. Pairs(r, list) \in [1 .. Len(list) -> Resources \X Associations]
  BY <1>1, <1>2 DEF Pairs
<1>4. Pairs(r, list) \in Seq(Resources \X Associations)
  BY <1>1, <1>3, SeqDef
<1>5. Len(Pairs(r, list)) = Len(list)
  BY <1>1, <1>3, <1>4, LenProperties
<1> QED
  BY <1>1, <1>2, <1>4, <1>5 DEF Pairs

\* What one more answer adds to the finds of each resource.
LEMMA PairsAdd ==
  ASSUME found \in Seq(Resources \X Associations), NEW r \in Resources,
         NEW list \in Seq(Associations), NEW q \in Resources
  PROVE  Filter(found \o Pairs(r, list), Of(q)) =
           IF q = r THEN Filter(found, Of(q)) \o Pairs(r, list) ELSE Filter(found, Of(q))
<1> DEFINE S == Resources \X Associations
           p == Pairs(r, list)
           K == Of(q)
<1>1. /\ p \in Seq(S) /\ Len(p) = Len(list)
      /\ \A i \in 1 .. Len(p) : p[i] = <<r, list[i]>> /\ list[i] \in Associations
  BY PairsFacts
<1>2. q = r => \A i \in 1 .. Len(p) : p[i] \in K
  BY <1>1 DEF Of
<1>3. q # r => \A i \in 1 .. Len(p) : p[i] \notin K
  BY <1>1 DEF Of
<1> HIDE DEF p, S, K
<1>4. found \in Seq(S)
  BY DEF S
<1>5. Filter(found \o p, K) = Filter(found, K) \o Filter(p, K)
  BY <1>1, <1>4, FilterConcat
<1>6. q = r => Filter(p, K) = p
  BY <1>1, <1>2, FilterAll
<1>7. q # r => Filter(p, K) = <<>>
  BY <1>1, <1>3, FilterNone
<1>8. Filter(found, K) \in Seq(S)
  BY <1>4, FilterRange
<1>9. Filter(found, K) \o <<>> = Filter(found, K)
  BY <1>8, ConcatEmptySeq
<1> QED
  BY <1>5, <1>6, <1>7, <1>9 DEF p, K

\* A lookup ends.
LEMMA PoolEnds ==
  ASSUME PoolInv, NEW w \in 1 .. Width, NEW r \in Resources, InHand(w, r),
         NEW list \in Seq(Associations),
         found' = found \o Pairs(r, list),
         truth' = [truth EXCEPT ![r] = list],
         workers' = [workers EXCEPT ![w] = Idle],
         UNCHANGED <<left, failed>>
  PROVE  PoolInv' /\ Touched' \subseteq Touched
<1>1. /\ workers \in [1 .. Width -> {Idle, Stopped} \cup LookupStates]
      /\ truth \in [Resources -> Seq(Associations)]
      /\ found \in Seq(Resources \X Associations)
      /\ Idle \notin LookupStates /\ Stopped \notin LookupStates /\ Idle # Stopped
  BY ReadsAssumption DEF PoolInv, PoolShape, LookupStates
<1>2. truth[r] = <<>> /\ Item(r) \notin left
  BY DEF PoolInv, PoolOnce
<1>3. \A v \in 1 .. Width, q \in Resources : InHand(v, q)' <=> InHand(v, q) /\ v # w
  BY <1>1 DEF InHand
<1>4. \A q \in Resources : truth'[q] = IF q = r THEN list ELSE truth[q]
  BY <1>1
<1>5. PoolShape'
  <2>1. Pairs(r, list) \in Seq(Resources \X Associations)
    BY PairsFacts
  <2>2. found' \in Seq(Resources \X Associations)
    BY <1>1, <2>1, ConcatProperties
  <2>3. failed' => \E v \in 1 .. Width : workers'[v] = Stopped
    <3> SUFFICES ASSUME failed' PROVE \E v \in 1 .. Width : workers'[v] = Stopped
      OBVIOUS
    <3>1. PICK v \in 1 .. Width : workers[v] = Stopped
      BY DEF PoolInv, PoolShape
    <3>2. v # w
      BY <1>1, <3>1 DEF InHand
    <3> QED
      BY <1>1, <3>1, <3>2
  <2>4. workers' \in [1 .. Width -> {Idle, Stopped} \cup LookupStates]
        /\ truth' \in [Resources -> Seq(Associations)]
    BY <1>1
  <2> QED
    BY <2>2, <2>3, <2>4 DEF PoolInv, PoolShape
<1>6. PoolOnce'
  <2>1. \A q \in Resources : Item(q) \in left' => truth'[q] = <<>>
    BY <1>2, <1>4 DEF PoolInv, PoolOnce
  <2>2. \A v \in 1 .. Width, q \in Resources :
          InHand(v, q)' => truth'[q] = <<>> /\ Item(q) \notin left'
    <3> SUFFICES ASSUME NEW v \in 1 .. Width, NEW q \in Resources, InHand(v, q)'
                 PROVE  truth'[q] = <<>> /\ Item(q) \notin left'
      OBVIOUS
    <3>1. InHand(v, q) /\ v # w
      BY <1>3
    <3>2. q # r
      BY <3>1 DEF PoolInv, PoolOnce
    <3> QED
      BY <1>4, <3>1, <3>2 DEF PoolInv, PoolOnce
  <2>3. \A v, u \in 1 .. Width, q \in Resources : InHand(v, q)' /\ InHand(u, q)' => v = u
    BY <1>3 DEF PoolInv, PoolOnce
  <2> QED
    BY <2>1, <2>2, <2>3 DEF PoolOnce, Item
<1>7. PoolTrue'
  <2> SUFFICES ASSUME NEW q \in Resources
               PROVE  Filter(found', Of(q)) = Pairs(q, truth'[q])
    BY DEF PoolTrue, Of, Pairs
  <2>1. Filter(found', Of(q)) =
          IF q = r THEN Filter(found, Of(q)) \o Pairs(r, list) ELSE Filter(found, Of(q))
    BY <1>1, PairsAdd
  <2>2. Filter(found, Of(q)) = Pairs(q, truth[q])
    BY DEF PoolInv, PoolTrue
  <2>3. CASE q = r
    <3>1. Pairs(q, truth[q]) = <<>>
      BY <1>2, <2>3 DEF Pairs
    <3>2. <<>> \o Pairs(r, list) = Pairs(r, list)
      BY PairsFacts, ConcatEmptySeq
    <3> QED
      BY <1>4, <2>1, <2>2, <2>3, <3>1, <3>2
  <2>4. CASE q # r
    BY <1>4, <2>1, <2>2, <2>4
  <2> QED
    BY <2>3, <2>4
<1>8. Touched' \subseteq Touched
  BY <1>3, <1>4 DEF Touched, Item
<1> QED
  BY <1>5, <1>6, <1>7, <1>8 DEF PoolInv

\* A worker takes a target, or goes on with the one it has.
LEMMA PoolWorks ==
  ASSUME PoolInv, NEW w \in 1 .. Width, NEW r \in Resources, NEW state \in LookupStates,
         state.at = r,
         workers' = [workers EXCEPT ![w] = state],
         UNCHANGED <<found, failed, truth>>,
         \/ workers[w] = Idle /\ Item(r) \in left /\ left' = left \ {Item(r)}
         \/ InHand(w, r) /\ left' = left
  PROVE  PoolInv' /\ Touched' \subseteq Touched
<1>1. /\ workers \in [1 .. Width -> {Idle, Stopped} \cup LookupStates]
      /\ Idle \notin LookupStates /\ Stopped \notin LookupStates /\ Idle # Stopped
  BY ReadsAssumption DEF PoolInv, PoolShape, LookupStates
<1>2. \A v \in 1 .. Width, q \in Resources :
        InHand(v, q)' <=> IF v = w THEN q = r ELSE InHand(v, q)
  BY <1>1 DEF InHand
<1>3. workers[w] # Stopped
  BY <1>1 DEF InHand
<1>4. truth[r] = <<>> /\ Item(r) \notin left' /\ left' \subseteq left
  BY DEF PoolInv, PoolOnce
<1>5. \A v \in 1 .. Width : InHand(v, r) => v = w
  BY DEF PoolInv, PoolOnce
<1>6. PoolShape'
  <2>1. failed' => \E v \in 1 .. Width : workers'[v] = Stopped
    <3> SUFFICES ASSUME failed' PROVE \E v \in 1 .. Width : workers'[v] = Stopped
      OBVIOUS
    <3>1. PICK v \in 1 .. Width : workers[v] = Stopped
      BY DEF PoolInv, PoolShape
    <3> QED
      BY <1>1, <1>3, <3>1
  <2>2. workers' \in [1 .. Width -> {Idle, Stopped} \cup LookupStates]
    BY <1>1
  <2>3. left' \subseteq { Item(q) : q \in Resources }
    BY <1>4 DEF PoolInv, PoolShape
  <2> QED
    BY <2>1, <2>2, <2>3 DEF PoolInv, PoolShape, Item
<1>7. PoolOnce'
  <2>1. \A q \in Resources : Item(q) \in left' => truth'[q] = <<>>
    BY <1>4 DEF PoolInv, PoolOnce
  <2>2. \A v \in 1 .. Width, q \in Resources :
          InHand(v, q)' => truth'[q] = <<>> /\ Item(q) \notin left'
    BY <1>2, <1>4 DEF PoolInv, PoolOnce
  <2>3. \A v, u \in 1 .. Width, q \in Resources : InHand(v, q)' /\ InHand(u, q)' => v = u
    BY <1>2, <1>5 DEF PoolInv, PoolOnce
  <2> QED
    BY <2>1, <2>2, <2>3 DEF PoolOnce, Item
<1>8. PoolTrue'
  BY DEF PoolInv, PoolTrue, Of, Pairs
<1>9. Touched' \subseteq Touched
  BY <1>2, <1>4 DEF Touched, Item
<1> QED
  BY <1>6, <1>7, <1>8, <1>9 DEF PoolInv

\* A worker stops.
LEMMA PoolStops ==
  ASSUME PoolInv, NEW w \in DOMAIN workers, NEW item \in left, Pool!Reject(w, item)
  PROVE  PoolInv' /\ Touched' \subseteq Touched
<1>1. /\ workers \in [1 .. Width -> {Idle, Stopped} \cup LookupStates]
      /\ Idle \notin LookupStates /\ Stopped \notin LookupStates /\ Idle # Stopped
      /\ w \in 1 .. Width
  BY ReadsAssumption DEF PoolInv, PoolShape, LookupStates
<1>2. /\ workers[w] = Idle /\ left' = left \ {item} /\ failed' = TRUE
      /\ workers' = [workers EXCEPT ![w] = Stopped]
      /\ UNCHANGED <<found, truth>>
  BY DEF Pool!Reject
<1>3. \A v \in 1 .. Width, q \in Resources : InHand(v, q)' <=> InHand(v, q)
  BY <1>1, <1>2 DEF InHand
<1>4. PoolShape'
  <2>1. workers'[w] = Stopped /\ failed' \in BOOLEAN
        /\ workers' \in [1 .. Width -> {Idle, Stopped} \cup LookupStates]
    BY <1>1, <1>2
  <2>2. left' \subseteq { Item(q) : q \in Resources }
    BY <1>2 DEF PoolInv, PoolShape
  <2> QED
    BY <1>1, <1>2, <2>1, <2>2 DEF PoolInv, PoolShape, Item
<1>5. PoolOnce'
  <2>1. \A q \in Resources : Item(q) \in left' => truth'[q] = <<>>
    BY <1>2 DEF PoolInv, PoolOnce
  <2>2. \A v \in 1 .. Width, q \in Resources :
          InHand(v, q)' => truth'[q] = <<>> /\ Item(q) \notin left'
    BY <1>2, <1>3 DEF PoolInv, PoolOnce
  <2>3. \A v, u \in 1 .. Width, q \in Resources : InHand(v, q)' /\ InHand(u, q)' => v = u
    BY <1>3 DEF PoolInv, PoolOnce
  <2> QED
    BY <2>1, <2>2, <2>3 DEF PoolOnce, Item
<1>6. PoolTrue'
  BY <1>2 DEF PoolInv, PoolTrue, Of, Pairs
<1>7. Touched' \subseteq Touched
  BY <1>2, <1>3 DEF Touched, Item
<1> QED
  BY <1>4, <1>5, <1>6, <1>7 DEF PoolInv

LEMMA PoolLookups ==
  ASSUME PoolInv, Pool!Lookups
  PROVE  PoolInv' /\ Touched' \subseteq Touched /\ failed' = failed
<1>0. /\ workers \in [1 .. Width -> {Idle, Stopped} \cup LookupStates]
      /\ left \subseteq { Item(r) : r \in Resources }
      /\ MaxPages \in Nat \ {0}
  BY ReadsAssumption DEF PoolInv, PoolShape
<1>1. ASSUME NEW w \in DOMAIN workers, NEW item \in left, Pool!Take(w, item)
      PROVE  PoolInv' /\ Touched' \subseteq Touched /\ failed' = failed
  <2>1. w \in 1 .. Width
    BY <1>0
  <2>2. PICK r \in Resources : item = Item(r)
    BY <1>0
  <2> DEFINE state == [at |-> r, got |-> <<>>, pages |-> 1]
  <2>3. state \in LookupStates /\ state.at = r
    <3>1. <<>> \in Seq(Associations) /\ 1 \in 1 .. MaxPages
      BY <1>0
    <3> QED
      BY <3>1 DEF LookupStates
  <2>4. /\ workers[w] = Idle /\ Item(r) \in left /\ left' = left \ {Item(r)}
        /\ workers' = [workers EXCEPT ![w] = state]
        /\ UNCHANGED <<found, failed, truth>>
    BY <1>1, <2>2 DEF Pool!Take, Item
  <2> HIDE DEF state
  <2> QED
    BY <2>1, <2>3, <2>4, PoolWorks
<1>2. ASSUME NEW w \in DOMAIN workers,
             Pool!LookupAnswers(w) \/ Pool!LookupFails(w) \/ Pool!LookupContinues(w)
      PROVE  PoolInv' /\ Touched' \subseteq Touched /\ failed' = failed
  <2> DEFINE r == workers[w].at
             was == workers[w]
  <2>1. /\ w \in 1 .. Width /\ was \in LookupStates /\ r = was.at /\ r \in Resources
        /\ was.got \in Seq(Associations) /\ was.pages \in 1 .. MaxPages /\ InHand(w, r)
    BY <1>0, <1>2 DEF Pool!LookupAnswers, Pool!LookupFails, Pool!LookupContinues, Pool!Busy,
                      LookupStates, InHand
  <2>2. ASSUME NEW list \in Seq(Associations), Pool!LookupEnds(w, list)
        PROVE  PoolInv' /\ Touched' \subseteq Touched /\ failed' = failed
    <3>1. /\ found' = found \o Pairs(r, list)
          /\ truth' = [truth EXCEPT ![r] = list]
          /\ workers' = [workers EXCEPT ![w] = Idle]
          /\ UNCHANGED <<left, failed>>
      BY <2>2 DEF Pool!LookupEnds, Pairs
    <3> HIDE DEF r
    <3> QED
      BY <2>1, <3>1, PoolEnds
  <2>3. CASE Pool!LookupAnswers(w)
    <3>1. PICK some \in Pool!Answers(was.at) : Pool!LookupEnds(w, was.got \o some)
      BY <2>3 DEF Pool!LookupAnswers
    <3>2. some \in Seq(Associations)
      BY SeqDef DEF Pool!Answers, Pool!AtMost
    <3>3. was.got \o some \in Seq(Associations)
      BY <2>1, <3>2, ConcatProperties
    <3> QED
      BY <2>2, <3>1, <3>3
  <2>4. CASE Pool!LookupFails(w)
    <3>1. <<>> \in Seq(Associations)
      OBVIOUS
    <3> QED
      BY <2>2, <2>4, <3>1 DEF Pool!LookupFails
  <2>5. CASE Pool!LookupContinues(w)
    <3>1. PICK a \in Associations :
            workers' = [workers EXCEPT ![w].got = Append(@, a), ![w].pages = @ + 1]
      BY <2>5 DEF Pool!LookupContinues
    <3> DEFINE state == [at |-> r, got |-> Append(was.got, a), pages |-> was.pages + 1]
    <3>2. was.pages < MaxPages /\ UNCHANGED <<left, found, failed, truth>>
      BY <2>5 DEF Pool!LookupContinues
    <3>3. was = [at |-> r, got |-> was.got, pages |-> was.pages]
      BY <2>1 DEF LookupStates
    <3>4. workers' = [workers EXCEPT ![w] = state]
      <4>1. DOMAIN workers = 1 .. Width /\ DOMAIN workers' = DOMAIN workers
        BY <1>0, <3>1
      <4>2. \A v \in DOMAIN workers : v # w => workers'[v] = workers[v]
        BY <3>1
      <4>3. workers'[w] = [was EXCEPT !.got = Append(was.got, a), !.pages = was.pages + 1]
        BY <3>1
      <4>4. workers'[w] = state
        BY <3>3, <4>3
      <4> HIDE DEF state
      <4> QED
        BY <1>0, <2>1, <3>1, <4>1, <4>2, <4>4
    <3>5. state \in LookupStates /\ state.at = r
      <4>1. Append(was.got, a) \in Seq(Associations) /\ was.pages + 1 \in 1 .. MaxPages
        BY <1>0, <2>1, <3>2, AppendProperties
      <4> QED
        BY <2>1, <4>1 DEF LookupStates
    <3> HIDE DEF state, r
    <3> QED
      BY <2>1, <3>2, <3>4, <3>5, PoolWorks
  <2> QED
    BY <1>2, <2>3, <2>4, <2>5
<1> QED
  BY <1>1, <1>2 DEF Pool!Lookups

PoolIdle ==
  /\ workers = [w \in 1 .. Width |-> Idle]
  /\ found = <<>>
  /\ failed = FALSE
  /\ truth = [r \in Resources |-> <<>>]

LEMMA PoolStarts ==
  ASSUME PoolIdle, left = {}
  PROVE  PoolInv
<1>1. Idle \notin LookupStates /\ Idle # Stopped
  BY ReadsAssumption DEF LookupStates
<1>2. \A w \in 1 .. Width, r \in Resources : ~ InHand(w, r)
  BY <1>1 DEF PoolIdle, InHand
<1>3. PoolShape
  <2>1. <<>> \in Seq(Resources \X Associations) /\ <<>> \in Seq(Associations)
    OBVIOUS
  <2> QED
    BY <2>1 DEF PoolIdle, PoolShape
<1>4. PoolOnce
  BY <1>2 DEF PoolOnce
<1>5. PoolTrue
  <2> SUFFICES ASSUME NEW r \in Resources
               PROVE  Filter(found, Of(r)) = Pairs(r, truth[r])
    BY DEF PoolTrue
  <2> DEFINE S == Resources \X Associations
             K == Of(r)
  <2>1. found \in Seq(S) /\ \A i \in 1 .. Len(found) : found[i] \notin K
    <3>1. found = <<>> /\ Len(found) = 0 /\ 1 .. 0 = {}
      BY DEF PoolIdle
    <3> QED
      BY <3>1
  <2>2. Filter(found, K) = <<>>
    <3> HIDE DEF S, K
    <3> QED
      BY <2>1, FilterNone
  <2>3. Pairs(r, truth[r]) = <<>>
    BY DEF PoolIdle, Pairs
  <2> QED
    BY <2>2, <2>3
<1> QED
  BY <1>3, <1>4, <1>5 DEF PoolInv

\* Targets are given to a pool that has not begun.
LEMMA PoolLoads ==
  ASSUME PoolInv, PoolIdle, left' \subseteq { Item(r) : r \in Resources },
         UNCHANGED <<workers, found, failed, truth>>
  PROVE  PoolInv' /\ Touched' = { r \in Resources : Item(r) \in left' }
<1>1. Idle \notin LookupStates
  BY ReadsAssumption DEF LookupStates
<1>2. \A w \in 1 .. Width, r \in Resources : ~ InHand(w, r)'
  BY <1>1 DEF PoolIdle, InHand
<1>3. \A r \in Resources : truth'[r] = <<>>
  BY DEF PoolIdle
<1>4. PoolShape'
  BY DEF PoolInv, PoolShape, Item
<1>5. PoolOnce'
  BY <1>2, <1>3 DEF PoolOnce
<1>6. PoolTrue'
  BY DEF PoolInv, PoolTrue, Of, Pairs
<1>7. Touched' = { r \in Resources : Item(r) \in left' }
  BY <1>2, <1>3 DEF Touched, Item
<1> QED
  BY <1>4, <1>5, <1>6, <1>7 DEF PoolInv

LEMMA PoolKept ==
  ASSUME PoolInv, UNCHANGED <<left, workers, found, failed, truth>>
  PROVE  PoolInv' /\ Touched' = Touched /\ (PoolIdle => PoolIdle')
<1>1. PoolShape' /\ PoolOnce'
  BY DEF PoolInv, PoolShape, PoolOnce, Item, InHand
<1>2. PoolTrue'
  BY DEF PoolInv, PoolTrue, Of, Pairs
<1>3. Touched' = Touched
  BY DEF Touched, Item, InHand
<1>4. PoolIdle => PoolIdle'
  BY DEF PoolIdle
<1> QED
  BY <1>1, <1>2, <1>3, <1>4 DEF PoolInv

\* A pool that is through has not failed, and nothing in it moves any more.
LEMMA PoolRests ==
  ASSUME PoolInv, Pool!PoolDone
  PROVE  /\ ~ failed /\ left = {} /\ ~ Pool!Lookups
         /\ \A w \in DOMAIN workers : ~ Pool!Busy(w)
<1>1. DOMAIN workers = 1 .. Width /\ Idle # Stopped
  BY ReadsAssumption DEF PoolInv, PoolShape
<1>2. left = {} /\ \A w \in DOMAIN workers : workers[w] = Idle
  BY DEF Pool!PoolDone
<1>3. ~ failed
  BY <1>1, <1>2 DEF PoolInv, PoolShape
<1>4. \A w \in DOMAIN workers : ~ Pool!Busy(w)
  BY <1>2 DEF Pool!Busy
<1> QED
  BY <1>2, <1>3, <1>4 DEF Pool!Lookups, Pool!LookupAnswers, Pool!LookupFails,
                          Pool!LookupContinues

\* The resources with a find, and what is found there.
LEMMA FindsAre ==
  ASSUME PoolInv, NEW r \in Resources, NEW a
  PROVE  <<r, a>> \in Range(found) <=> \E i \in DOMAIN truth[r] : a = truth[r][i]
<1> DEFINE S == Resources \X Associations
           K == Of(r)
<1>1. /\ found \in Seq(S) /\ truth[r] \in Seq(Associations)
      /\ Filter(found, K) = Pairs(r, truth[r])
  BY DEF PoolInv, PoolShape, PoolTrue
<1>2. Range(Filter(found, K)) = Range(found) \cap K
  <2> HIDE DEF S, K
  <2> QED
    BY <1>1, FilterRange
<1>3. Range(Pairs(r, truth[r])) = { <<r, truth[r][i]>> : i \in DOMAIN truth[r] }
  BY DEF Range, Pairs
<1>4. \A i \in DOMAIN truth[r] : truth[r][i] \in Associations
  BY <1>1, ElementOfSeq, LenProperties
<1>5. Range(found) \subseteq S
  BY <1>1, ElementOfSeq, LenProperties DEF Range
<1>6. <<r, a>> \in Range(found) <=> <<r, a>> \in Range(Pairs(r, truth[r]))
  BY <1>1, <1>2, <1>5 DEF Of
<1> QED
  BY <1>3, <1>6

LEMMA PoolTypes ==
  ASSUME PoolInv
  PROVE  Pool!PoolTyped
<1>1. \A w \in 1 .. Width :
        Pool!Busy(w) => workers[w].at \in Resources /\ workers[w].pages \in 1 .. MaxPages
  BY DEF PoolInv, PoolShape, Pool!Busy, LookupStates
<1>2. \A i \in DOMAIN found : found[i] \in Resources \X Associations
  BY ElementOfSeq, LenProperties DEF PoolInv, PoolShape
<1> QED
  BY <1>1, <1>2 DEF Pool!PoolTyped, PoolInv, PoolShape

-----------------------------------------------------------------------------
(* Estate.                                                                 *)

\* The pool of the estate is the one above.
LEMMA RosterLookups ==
  ASSUME Roster!Lookups
  PROVE  Pool!Lookups
BY DEF Roster!Lookups, Pool!Lookups, Roster!Take, Pool!Take, Roster!LookupAnswers,
       Pool!LookupAnswers, Roster!LookupFails, Pool!LookupFails, Roster!LookupContinues,
       Pool!LookupContinues, Roster!LookupEnds, Pool!LookupEnds, Roster!Busy, Pool!Busy,
       Roster!Answers, Pool!Answers, Roster!AtMost, Pool!AtMost

EstateTypes ==
  /\ step \in {"sweep", "settle", "inventory", "apps", "pool", "done"}
  /\ outcome \in {"pending", "ok", "threw"}
  /\ outcome # "pending" <=> step = "done"
  /\ tags \in [Resources -> Repos \cup {Untagged}]
  /\ answers \in [DOMAIN Selected -> {"pending", "rows", "refused"}]
  /\ scope \in 1 .. Len(Selected) + 1
  /\ step = "apps" => scope <= Len(Selected)
  /\ inventory \subseteq Resources
  /\ DOMAIN roster \subseteq Repos
  /\ \A k \in DOMAIN roster : roster[k] \in Roster!Entry

\* What RosterIsTrue says of a roster.
RosterTells ==
  /\ DOMAIN roster =
       { tags[r] : r \in Roster!Rows(answers) } \cup UNION { Roster!Found(r) : r \in Resources }
  /\ \A k \in DOMAIN roster :
       LET tagged == { r \in Roster!Rows(answers) : tags[r] = k }
           bound == { r \in Resources : k \in Roster!Found(r) }
       IN /\ roster[k].ids = tagged \cup bound
          /\ "tag" \in roster[k].sources <=> tagged # {}
          /\ "source-control" \in roster[k].sources <=> bound # {}

\* Until the lookups have all settled, and for good if they fail, the roster is
\* that of the tags.
EstateInv ==
  /\ EstateTypes
  /\ PoolInv
  /\ step \notin {"pool", "done"} \/ outcome = "threw" => PoolIdle /\ left = {}
  /\ step = "pool" => ~ failed
  /\ step \in {"inventory", "apps", "pool"} \/ outcome = "ok" =>
       \E i \in DOMAIN Selected : answers[i] = "rows"
  /\ step \in {"inventory", "apps", "pool"} \/ (outcome = "ok" /\ failed) =>
       roster = Roster!Roster(answers)
  /\ outcome = "ok" /\ ~ failed => Pool!PoolDone /\ RosterTells

LEMMA RowsTyped ==
  ASSUME tags \in [Resources -> Repos \cup {Untagged}], NEW told
  PROVE  /\ DOMAIN Roster!Roster(told) = { tags[r] : r \in Roster!Rows(told) }
         /\ DOMAIN Roster!Roster(told) \subseteq Repos
         /\ \A k \in DOMAIN Roster!Roster(told) :
              /\ Roster!Roster(told)[k] =
                   [ids |-> { r \in Roster!Rows(told) : tags[r] = k }, sources |-> {"tag"}]
              /\ Roster!Roster(told)[k] \in Roster!Entry
<1>1. Roster!Rows(told) \subseteq Resources /\ \A r \in Roster!Rows(told) : tags[r] \in Repos
  BY DEF Roster!Rows
<1>2. /\ DOMAIN Roster!Roster(told) = { tags[r] : r \in Roster!Rows(told) }
      /\ \A k \in DOMAIN Roster!Roster(told) :
           Roster!Roster(told)[k] =
             [ids |-> { r \in Roster!Rows(told) : tags[r] = k }, sources |-> {"tag"}]
  BY DEF Roster!Roster
<1>3. \A k \in DOMAIN Roster!Roster(told) : Roster!Roster(told)[k] \in Roster!Entry
  <2> SUFFICES ASSUME NEW k \in DOMAIN Roster!Roster(told)
               PROVE  Roster!Roster(told)[k] \in Roster!Entry
    OBVIOUS
  <2> DEFINE t == { r \in Roster!Rows(told) : tags[r] = k }
  <2>1. t \in SUBSET Resources /\ Roster!Roster(told)[k] = [ids |-> t, sources |-> {"tag"}]
    BY <1>1, <1>2
  <2> HIDE DEF t
  <2>2. {"tag"} \in SUBSET {"tag", "source-control"}
    OBVIOUS
  <2>3. [ids |-> t, sources |-> {"tag"}] \in Roster!Entry
    BY <2>1, <2>2 DEF Roster!Entry
  <2> QED
    BY <2>1, <2>3
<1> QED
  BY <1>1, <1>2, <1>3

LEMMA RepoFacts == \A x \in Associations : RepoOf[x] \in Repos
BY ReadsAssumption

LEMMA SelectedFacts ==
  Len(Selected) \in Nat \ {0} /\ DOMAIN Selected = 1 .. Len(Selected)
BY ReadsAssumption, LenProperties, EmptySeq

LEMMA EstateStarts ==
  ASSUME Roster!Init
  PROVE  EstateInv
<1>1. PoolIdle /\ left = {}
  BY DEF Roster!Init, Roster!PoolInit, PoolIdle
<1>2. EstateTypes
  <2>1. tags \in [Resources -> Repos \cup {Untagged}] /\ inventory = {}
        /\ DOMAIN roster = {} /\ scope = 1 /\ step = "sweep" /\ outcome = "pending"
    BY DEF Roster!Init
  <2>2. answers \in [DOMAIN Selected -> {"pending", "rows", "refused"}]
    BY DEF Roster!Init
  <2> QED
    BY <2>1, <2>2, SelectedFacts DEF EstateTypes
<1>3. step = "sweep" /\ outcome = "pending"
  BY DEF Roster!Init
<1> QED
  BY <1>1, <1>2, <1>3, PoolStarts DEF EstateInv

\* The rows are folded when the last answer is in.
LEMMA EstateDedupes ==
  ASSUME EstateInv, step \in {"sweep", "settle"}, Roster!Deduped,
         answers' \in [DOMAIN Selected -> {"pending", "rows", "refused"}],
         \E i \in DOMAIN Selected : answers'[i] = "rows",
         UNCHANGED <<tags, scope, inventory, left, workers, found, failed, truth>>
  PROVE  EstateInv'
<1>1. step' = "inventory" /\ roster' = Roster!Roster(answers') /\ outcome' = outcome
  BY DEF Roster!Deduped
<1>2. outcome = "pending" /\ PoolIdle /\ left = {}
  BY DEF EstateInv, EstateTypes
<1>3. PoolInv' /\ PoolIdle'
  BY <1>2, PoolKept DEF EstateInv
<1>4. tags \in [Resources -> Repos \cup {Untagged}]
  BY DEF EstateInv, EstateTypes
<1>5. /\ DOMAIN roster' \subseteq Repos
      /\ \A k \in DOMAIN roster' : roster'[k] \in Roster!Entry
  BY <1>1, <1>4, RowsTyped
<1>6. EstateTypes'
  BY <1>1, <1>2, <1>5 DEF EstateInv, EstateTypes
<1>7. Roster!Roster(answers)' = Roster!Roster(answers')
  BY DEF Roster!Roster, Roster!Rows, Roster!ScopeOf
<1> QED
  BY <1>1, <1>2, <1>3, <1>6, <1>7 DEF EstateInv

\* An error before the lookups ends the call.
LEMMA EstateThrows ==
  ASSUME EstateInv, step \in {"sweep", "settle"}, step' = "done", outcome' = "threw",
         answers' \in [DOMAIN Selected -> {"pending", "rows", "refused"}],
         UNCHANGED <<tags, scope, inventory, roster, left, workers, found, failed, truth>>
  PROVE  EstateInv'
<1>1. PoolInv' /\ PoolIdle'
  BY PoolKept DEF EstateInv
<1>2. EstateTypes'
  BY DEF EstateInv, EstateTypes
<1> QED
  BY <1>1, <1>2 DEF EstateInv

\* The inventory goes on.
LEMMA EstateGoes ==
  ASSUME EstateInv, step \in {"inventory", "apps"}, step' \in {"inventory", "apps"},
         EstateTypes',
         UNCHANGED <<tags, answers, roster, outcome, left, workers, found, failed, truth>>
  PROVE  EstateInv'
<1>1. PoolInv' /\ PoolIdle'
  BY PoolKept DEF EstateInv
<1>2. Roster!Roster(answers)' = Roster!Roster(answers)
  BY DEF Roster!Roster, Roster!Rows, Roster!ScopeOf
<1>3. outcome' = "pending" /\ left' = {}
  BY DEF EstateInv, EstateTypes
<1> QED
  BY <1>1, <1>2, <1>3 DEF EstateInv

\* What the lookups found is what BoundTo takes from it.
LEMMA BoundFacts ==
  ASSUME PoolInv, ~ failed, NEW k
  PROVE  /\ Roster!BoundTo(k) = { r \in Resources : k \in Roster!Found(r) }
         /\ \A r \in Resources : Roster!Found(r) \subseteq Repos
<1>1. /\ found \in Seq(Resources \X Associations)
      /\ truth \in [Resources -> Seq(Associations)]
  BY DEF PoolInv, PoolShape
<1>2. { found[i] : i \in DOMAIN found } = Range(found)
  BY DEF Range
<1>3. Range(found) \subseteq Resources \X Associations
  BY <1>1, ElementOfSeq, LenProperties DEF Range
<1>4. \A r \in Resources : Roster!Found(r) = { RepoOf[truth[r][i]] : i \in DOMAIN truth[r] }
  BY DEF Roster!Found
<1>5. ASSUME NEW r \in Resources
      PROVE  r \in Roster!BoundTo(k) <=> k \in Roster!Found(r)
  <2>1. r \in Roster!BoundTo(k) <=> \E a \in Associations : <<r, a>> \in Range(found) /\ RepoOf[a] = k
    <3> DEFINE F == { found[i] : i \in DOMAIN found }
    <3>1. Roster!BoundTo(k) = { p[1] : p \in { p \in F : RepoOf[p[2]] = k } }
      BY DEF Roster!BoundTo
    <3>2. F = Range(found) /\ \A p \in F : p[2] \in Associations /\ p = <<p[1], p[2]>>
      BY <1>2, <1>3
    <3> HIDE DEF F
    <3> QED
      BY <3>1, <3>2
  <2>2. \A i \in DOMAIN truth[r] : truth[r][i] \in Associations
    BY <1>1, ElementOfSeq, LenProperties
  <2>3. \A a : <<r, a>> \in Range(found) <=> \E i \in DOMAIN truth[r] : a = truth[r][i]
    BY FindsAre
  <2>4. k \in Roster!Found(r) <=> \E i \in DOMAIN truth[r] : k = RepoOf[truth[r][i]]
    BY <1>4
  <2>5. CASE r \in Roster!BoundTo(k)
    <3>1. PICK a \in Associations : <<r, a>> \in Range(found) /\ RepoOf[a] = k
      BY <2>1, <2>5
    <3>2. PICK i \in DOMAIN truth[r] : a = truth[r][i]
      BY <2>3, <3>1
    <3> QED
      BY <2>4, <2>5, <3>1, <3>2
  <2>6. CASE k \in Roster!Found(r)
    <3>1. PICK i \in DOMAIN truth[r] : k = RepoOf[truth[r][i]]
      BY <2>4, <2>6
    <3>2. <<r, truth[r][i]>> \in Range(found) /\ truth[r][i] \in Associations
      BY <2>2, <2>3
    <3> QED
      BY <2>1, <2>6, <3>1, <3>2
  <2> QED
    BY <2>5, <2>6
<1>6. Roster!BoundTo(k) \subseteq Resources
  BY <1>2, <1>3 DEF Roster!BoundTo
<1>7. ASSUME NEW r \in Resources
      PROVE  Roster!Found(r) \subseteq Repos
  <2>1. \A i \in DOMAIN truth[r] : truth[r][i] \in Associations
    BY <1>1, ElementOfSeq, LenProperties
  <2> QED
    BY <1>4, <2>1, RepoFacts
<1> QED
  BY <1>5, <1>6, <1>7

LEMMA EstateMerges ==
  ASSUME EstateInv, Roster!Merge
  PROVE  EstateInv'
<1>1. /\ step = "pool" /\ Roster!PoolDone /\ step' = "done" /\ outcome' = "ok"
      /\ roster' = [k \in DOMAIN roster \cup { k \in Repos : Roster!BoundTo(k) # {} } |->
                      Roster!Merged(k)]
      /\ UNCHANGED <<tags, answers, scope, inventory, left, workers, found, failed, truth>>
  BY DEF Roster!Merge, Roster!pool
<1>2. Pool!PoolDone /\ Pool!PoolDone'
  BY <1>1 DEF Roster!PoolDone, Pool!PoolDone
<1>3. /\ PoolInv /\ ~ failed /\ roster = Roster!Roster(answers)
      /\ tags \in [Resources -> Repos \cup {Untagged}]
      /\ \E i \in DOMAIN Selected : answers[i] = "rows"
  BY <1>1 DEF EstateInv, EstateTypes
<1> DEFINE Rows == Roster!Rows(answers)
           bound(k) == { r \in Resources : k \in Roster!Found(r) }
           tagged(k) == { r \in Rows : tags[r] = k }
<1>4. /\ DOMAIN roster = { tags[r] : r \in Rows } /\ DOMAIN roster \subseteq Repos
      /\ \A k \in DOMAIN roster : roster[k] = [ids |-> tagged(k), sources |-> {"tag"}]
  BY <1>3, RowsTyped
<1>5. /\ \A k : Roster!BoundTo(k) = bound(k)
      /\ \A r \in Resources : Roster!Found(r) \subseteq Repos
  BY <1>3, BoundFacts
<1>6. Rows \subseteq Resources
  BY DEF Roster!Rows
<1>7. /\ \A r \in Resources : Roster!Found(r)' = Roster!Found(r)
      /\ Roster!Rows(answers)' = Rows
  BY <1>1 DEF Roster!Found, Roster!Rows, Roster!ScopeOf
<1>8. { k \in Repos : Roster!BoundTo(k) # {} } = UNION { Roster!Found(r) : r \in Resources }
  BY <1>5
<1>9. DOMAIN roster' = { tags[r] : r \in Rows } \cup UNION { Roster!Found(r) : r \in Resources }
  BY <1>1, <1>4, <1>8
<1>10. \A k \in DOMAIN roster' :
         roster'[k] =
           [ids |-> tagged(k) \cup bound(k),
            sources |-> (IF tagged(k) # {} THEN {"tag"} ELSE {}) \cup
                        (IF bound(k) # {} THEN {"source-control"} ELSE {})]
  <2> SUFFICES ASSUME NEW k \in DOMAIN roster'
               PROVE  roster'[k] =
                        [ids |-> tagged(k) \cup bound(k),
                         sources |-> (IF tagged(k) # {} THEN {"tag"} ELSE {}) \cup
                                     (IF bound(k) # {} THEN {"source-control"} ELSE {})]
    OBVIOUS
  <2>1. roster'[k] = Roster!Merged(k)
    BY <1>1
  <2>2. k \in DOMAIN roster <=> tagged(k) # {}
    BY <1>4
  <2>3. CASE k \in DOMAIN roster
    <3>1. tagged(k) # {}
      BY <2>2, <2>3
    <3>2. roster[k] = [ids |-> tagged(k), sources |-> {"tag"}]
      BY <1>4, <2>3
    <3> HIDE DEF tagged, bound
    <3> QED
      BY <1>5, <2>1, <2>3, <3>1, <3>2 DEF Roster!Merged
  <2>4. CASE k \notin DOMAIN roster
    <3>1. tagged(k) = {}
      BY <2>2, <2>4
    <3>2. bound(k) # {}
      BY <1>4, <1>8, <1>9, <1>5, <2>4
    <3> HIDE DEF tagged, bound
    <3> QED
      BY <1>5, <2>1, <2>4, <3>1, <3>2 DEF Roster!Merged
  <2> QED
    BY <2>3, <2>4
<1>11. RosterTells'
  <2>1. DOMAIN roster' = { tags'[r] : r \in Roster!Rows(answers)' }
                           \cup UNION { Roster!Found(r)' : r \in Resources }
    BY <1>1, <1>7, <1>9
  <2>2. ASSUME NEW k \in DOMAIN roster'
        PROVE  /\ { r \in Roster!Rows(answers)' : tags'[r] = k } = tagged(k)
               /\ { r \in Resources : k \in Roster!Found(r)' } = bound(k)
               /\ roster'[k].ids = tagged(k) \cup bound(k)
               /\ "tag" \in roster'[k].sources <=> tagged(k) # {}
               /\ "source-control" \in roster'[k].sources <=> bound(k) # {}
    <3>1. /\ { r \in Roster!Rows(answers)' : tags'[r] = k } = tagged(k)
          /\ { r \in Resources : k \in Roster!Found(r)' } = bound(k)
      BY <1>1, <1>7
    <3>2. /\ roster'[k].ids = tagged(k) \cup bound(k)
          /\ "tag" \in roster'[k].sources <=> tagged(k) # {}
          /\ "source-control" \in roster'[k].sources <=> bound(k) # {}
      <4> HIDE DEF tagged, bound
      <4> QED
        BY <1>10
    <3> QED
      BY <3>1, <3>2
  <2> HIDE DEF tagged, bound
  <2> QED
    BY <2>1, <2>2 DEF RosterTells
<1>12. EstateTypes'
  <2>1. DOMAIN roster' \subseteq Repos
    BY <1>1, <1>4
  <2>2. \A k \in DOMAIN roster' : roster'[k] \in Roster!Entry
    <3>1. \A k : tagged(k) \subseteq Resources /\ bound(k) \subseteq Resources
      BY <1>6
    <3> HIDE DEF tagged, bound
    <3> QED
      BY <1>10, <3>1 DEF Roster!Entry
  <2> QED
    BY <1>1, <2>1, <2>2 DEF EstateInv, EstateTypes
<1>13. PoolInv'
  BY <1>1, <1>3, PoolKept
<1> QED
  BY <1>1, <1>2, <1>3, <1>11, <1>12, <1>13 DEF EstateInv

LEMMA EstateStays ==
  ASSUME EstateInv, [Roster!Next]_Roster!estateVars
  PROVE  EstateInv'
<1>1. CASE Roster!Swept
  <2>1. /\ step = "sweep" /\ answers' = [i \in DOMAIN Selected |-> "rows"]
        /\ Roster!Deduped
        /\ UNCHANGED <<tags, scope, inventory, left, workers, found, failed, truth>>
    BY <1>1 DEF Roster!Swept, Roster!pool
  <2>2. /\ answers' \in [DOMAIN Selected -> {"pending", "rows", "refused"}]
        /\ \E i \in DOMAIN Selected : answers'[i] = "rows"
    BY <2>1, SelectedFacts
  <2> QED
    BY <2>1, <2>2, EstateDedupes
<1>2. CASE Roster!SweepFails
  <2>1. /\ step = "sweep"
        /\ \/ step' = "done" /\ outcome' = "threw"
           \/ step' = "settle" /\ outcome' = outcome
        /\ UNCHANGED <<tags, answers, scope, inventory, roster>>
        /\ UNCHANGED <<left, workers, found, failed, truth>>
    BY <1>2 DEF Roster!SweepFails, Roster!estate, Roster!pool
  <2>2. answers' \in [DOMAIN Selected -> {"pending", "rows", "refused"}]
    BY <2>1 DEF EstateInv, EstateTypes
  <2>3. CASE step' = "settle" /\ outcome' = outcome
    <3>1. PoolInv' /\ PoolIdle'
      BY <2>1, PoolKept DEF EstateInv
    <3>2. outcome = "pending" /\ left = {}
      BY <2>1 DEF EstateInv, EstateTypes
    <3>3. EstateTypes'
      BY <2>1, <2>3 DEF EstateInv, EstateTypes
    <3> QED
      BY <2>1, <2>3, <3>1, <3>2, <3>3 DEF EstateInv
  <2> QED
    BY <2>1, <2>2, <2>3, EstateThrows
<1>3. ASSUME NEW i \in DOMAIN Selected, NEW how \in {"rows", "refused"},
             Roster!Settle(i, how)
      PROVE  EstateInv'
  <2>1. /\ step = "settle" /\ answers' = [answers EXCEPT ![i] = how]
        /\ UNCHANGED <<tags, scope, inventory, left, workers, found, failed, truth>>
    BY <1>3 DEF Roster!Settle, Roster!pool
  <2>2. answers' \in [DOMAIN Selected -> {"pending", "rows", "refused"}]
    BY <2>1 DEF EstateInv, EstateTypes
  <2>3. CASE \E j \in DOMAIN Selected : answers'[j] = "pending"
    <3>1. UNCHANGED <<step, roster, outcome>>
      BY <1>3, <2>3 DEF Roster!Settle
    <3>2. PoolInv' /\ PoolIdle'
      BY <2>1, PoolKept DEF EstateInv
    <3>3. outcome = "pending" /\ left = {}
      BY <2>1 DEF EstateInv, EstateTypes
    <3>4. EstateTypes'
      BY <2>1, <2>2, <3>1 DEF EstateInv, EstateTypes
    <3> QED
      BY <2>1, <3>1, <3>2, <3>3, <3>4 DEF EstateInv
  <2>4. CASE /\ ~ \E j \in DOMAIN Selected : answers'[j] = "pending"
             /\ \A j \in DOMAIN Selected : answers'[j] = "refused"
    <3>1. step' = "done" /\ outcome' = "threw" /\ roster' = roster
      BY <1>3, <2>4 DEF Roster!Settle
    <3> QED
      BY <2>1, <2>2, <3>1, EstateThrows
  <2>5. CASE /\ ~ \E j \in DOMAIN Selected : answers'[j] = "pending"
             /\ ~ \A j \in DOMAIN Selected : answers'[j] = "refused"
    <3>1. Roster!Deduped
      BY <1>3, <2>5 DEF Roster!Settle
    <3>2. \E j \in DOMAIN Selected : answers'[j] = "rows"
      BY <2>2, <2>5
    <3> QED
      BY <2>1, <2>2, <3>1, <3>2, EstateDedupes
  <2> QED
    BY <2>3, <2>4, <2>5
<1>4. CASE Roster!ListSites \/ Roster!ListApps \/ Roster!InventoryFails
  <2>1. /\ step \in {"inventory", "apps"} /\ scope <= Len(Selected)
        /\ \/ step' = "apps" /\ scope' = scope
           \/ step' = "inventory" /\ scope' = scope + 1
        /\ UNCHANGED <<tags, answers, roster, outcome, left, workers, found, failed, truth>>
    BY <1>4 DEF Roster!ListSites, Roster!ListApps, Roster!InventoryFails,
                Roster!NextInventory, Roster!pool, EstateInv, EstateTypes
  <2>2. inventory' \subseteq Resources
    <3>1. inventory \subseteq Resources
      BY DEF EstateInv, EstateTypes
    <3>2. \/ inventory' = inventory
          \/ \E some \in SUBSET Resources : inventory' = inventory \cup some
      <4>1. CASE Roster!ListSites
        <5>1. Roster!Listed(Resources \ Apps)
          BY <4>1 DEF Roster!ListSites
        <5>2. { r \in Resources \ Apps : Home[r] = Selected[scope] } \in SUBSET Resources
          OBVIOUS
        <5> QED
          BY <5>1, <5>2 DEF Roster!Listed
      <4>2. CASE Roster!ListApps
        <5>1. Roster!Listed(Apps)
          BY <4>2 DEF Roster!ListApps
        <5>2. { r \in Apps : Home[r] = Selected[scope] } \in SUBSET Resources
          BY ReadsAssumption
        <5> QED
          BY <5>1, <5>2 DEF Roster!Listed
      <4>3. CASE Roster!InventoryFails
        BY <4>3 DEF Roster!InventoryFails
      <4> QED
        BY <1>4, <4>1, <4>2, <4>3
    <3> QED
      BY <3>1, <3>2
  <2>3. scope' \in 1 .. Len(Selected) + 1 /\ (step' = "apps" => scope' <= Len(Selected))
    <3>1. scope \in 1 .. Len(Selected) + 1
      BY DEF EstateInv, EstateTypes
    <3> QED
      BY <2>1, <3>1, SelectedFacts
  <2>4. step' \in {"inventory", "apps"} /\ outcome' = "pending"
    BY <2>1 DEF EstateInv, EstateTypes
  <2>5. EstateTypes'
    BY <2>1, <2>2, <2>3, <2>4 DEF EstateInv, EstateTypes
  <2> QED
    BY <2>1, <2>4, <2>5, EstateGoes
<1>5. CASE Roster!StartLookups
  <2>1. /\ step = "inventory" /\ step' = "pool" /\ left' = Roster!Targets(Roster!Mentions)
        /\ UNCHANGED <<tags, answers, scope, inventory, roster, outcome>>
        /\ UNCHANGED <<workers, found, failed, truth>>
    BY <1>5 DEF Roster!StartLookups, Roster!estate
  <2>2. \A k \in DOMAIN roster : roster[k].ids \subseteq Resources
    BY DEF EstateInv, EstateTypes, Roster!Entry
  <2>3. \A m \in Roster!Mentions : m.at \in Resources
    <3>1. inventory \cup UNION { roster[k].ids : k \in DOMAIN roster } \subseteq Resources
      BY <2>2 DEF EstateInv, EstateTypes
    <3> QED
      BY <3>1 DEF Roster!Mentions
  <2>4. left' \subseteq { Item(r) : r \in Resources }
    BY <2>1, <2>3 DEF Roster!Targets, Item
  <2>5. PoolInv /\ PoolIdle /\ outcome = "pending" /\ ~ failed
    BY <2>1 DEF EstateInv, EstateTypes, PoolIdle
  <2>6. PoolInv'
    BY <2>1, <2>4, <2>5, PoolLoads
  <2>7. Roster!Roster(answers)' = Roster!Roster(answers)
    BY <2>1 DEF Roster!Roster, Roster!Rows, Roster!ScopeOf
  <2>8. EstateTypes'
    BY <2>1 DEF EstateInv, EstateTypes
  <2> QED
    BY <2>1, <2>5, <2>6, <2>7, <2>8 DEF EstateInv
<1>6. CASE Roster!LookUp \/ Roster!GiveUp
  <2>1. /\ step \in {"pool", "done"}
        /\ UNCHANGED <<tags, answers, scope, inventory, roster>>
    BY <1>6 DEF Roster!LookUp, Roster!GiveUp, Roster!estate
  <2>2. PoolInv /\ ~ Pool!PoolDone
    <3>1. CASE Roster!LookUp
      BY <3>1, RosterLookups, PoolRests DEF Roster!LookUp, EstateInv
    <3>2. CASE Roster!GiveUp
      BY <3>2, PoolRests DEF Roster!GiveUp, EstateInv
    <3> QED
      BY <1>6, <3>1, <3>2
  <2>3. \/ /\ Roster!LookUp /\ PoolInv' /\ failed' = failed
           /\ step' = step /\ outcome' = outcome
        \/ /\ Roster!GiveUp /\ PoolInv' /\ failed'
           /\ step' = "done" /\ outcome' = "ok"
    <3>1. CASE Roster!LookUp
      BY <2>2, <3>1, RosterLookups, PoolLookups DEF Roster!LookUp
    <3>2. CASE Roster!GiveUp
      <4>1. PICK w \in DOMAIN workers, item \in left : Pool!Reject(w, item)
        BY <3>2 DEF Roster!GiveUp, Roster!Reject, Pool!Reject
      <4> QED
        BY <2>2, <3>2, <4>1, PoolStops DEF Roster!GiveUp, Pool!Reject
    <3> QED
      BY <1>6, <3>1, <3>2
  <2>4. step = "pool" \/ (step = "done" /\ outcome = "ok" /\ failed)
    <3>1. ~ (PoolIdle /\ left = {})
      BY <2>2 DEF PoolIdle, Pool!PoolDone, PoolInv, PoolShape
    <3>2. outcome \in {"pending", "ok", "threw"} /\ outcome # "threw"
      BY <3>1 DEF EstateInv, EstateTypes
    <3> QED
      BY <2>1, <2>2, <3>2 DEF EstateInv, EstateTypes
  <2>5. Roster!Roster(answers)' = Roster!Roster(answers)
    BY <2>1 DEF Roster!Roster, Roster!Rows, Roster!ScopeOf
  <2>6. EstateTypes'
    BY <2>1, <2>3 DEF EstateInv, EstateTypes
  <2>7. roster = Roster!Roster(answers) /\ \E i \in DOMAIN Selected : answers[i] = "rows"
    BY <2>4 DEF EstateInv
  <2>8. roster' = Roster!Roster(answers)' /\ (\E i \in DOMAIN Selected : answers[i] = "rows")'
    BY <2>1, <2>5, <2>7
  <2>9. CASE failed' = failed /\ step' = step /\ outcome' = outcome
    <3>1. outcome' # "threw" /\ (step' = "pool" => ~ failed') /\ (outcome' = "ok" => failed')
      BY <2>4, <2>9 DEF EstateInv, EstateTypes
    <3> QED
      BY <2>3, <2>4, <2>6, <2>8, <2>9, <3>1 DEF EstateInv
  <2>10. CASE failed' /\ step' = "done" /\ outcome' = "ok"
    BY <2>3, <2>6, <2>8, <2>10 DEF EstateInv
  <2> QED
    BY <2>3, <2>9, <2>10
<1>7. CASE Roster!Merge
  BY <1>7, EstateMerges
<1>8. CASE UNCHANGED Roster!estateVars
  <2>1. /\ UNCHANGED <<step, tags, answers, scope, inventory, roster, outcome>>
        /\ UNCHANGED <<left, workers, found, failed, truth>>
    BY <1>8 DEF Roster!estateVars, Roster!estate, Roster!pool
  <2>2. PoolInv' /\ (PoolIdle => PoolIdle')
    BY <2>1, PoolKept DEF EstateInv
  <2>3. Roster!Roster(answers)' = Roster!Roster(answers)
    BY <2>1 DEF Roster!Roster, Roster!Rows, Roster!ScopeOf
  <2>4. EstateTypes'
    BY <2>1 DEF EstateInv, EstateTypes
  <2>5. Pool!PoolDone => Pool!PoolDone'
    BY <2>1 DEF Pool!PoolDone
  <2>6. /\ \A r : Roster!Found(r)' = Roster!Found(r)
        /\ Roster!Rows(answers)' = Roster!Rows(answers)
    BY <2>1 DEF Roster!Found, Roster!Rows, Roster!ScopeOf
  <2>7. RosterTells => RosterTells'
    BY <2>1, <2>6 DEF RosterTells
  <2> QED
    BY <2>1, <2>2, <2>3, <2>4, <2>5, <2>7 DEF EstateInv
<1> QED
  BY <1>1, <1>2, <1>3, <1>4, <1>5, <1>6, <1>7, <1>8 DEF Roster!Next

LEMMA EstateMeans ==
  ASSUME EstateInv
  PROVE  Roster!RosterIsTrue /\ Roster!TypeOK
<1>1. Roster!TypeOK
  <2>1. Roster!PoolTyped
    BY PoolTypes DEF EstateInv, Roster!PoolTyped, Pool!PoolTyped, Roster!Busy, Pool!Busy
  <2> QED
    BY <2>1 DEF EstateInv, EstateTypes, Roster!TypeOK
<1>2. ASSUME outcome = "ok", failed
      PROVE  RosterTells
  <2>1. roster = Roster!Roster(answers) /\ tags \in [Resources -> Repos \cup {Untagged}]
    BY <1>2 DEF EstateInv, EstateTypes
  <2>2. \A r \in Resources : Roster!Found(r) = {}
    BY <1>2 DEF Roster!Found
  <2>3. /\ DOMAIN roster = { tags[r] : r \in Roster!Rows(answers) }
        /\ \A k \in DOMAIN roster :
             roster[k] =
               [ids |-> { r \in Roster!Rows(answers) : tags[r] = k }, sources |-> {"tag"}]
    BY <2>1, RowsTyped
  <2>4. UNION { Roster!Found(r) : r \in Resources } = {}
        /\ \A k : { r \in Resources : k \in Roster!Found(r) } = {}
    BY <2>2
  <2>5. \A k \in DOMAIN roster :
          LET tagged == { r \in Roster!Rows(answers) : tags[r] = k }
              bound == { r \in Resources : k \in Roster!Found(r) }
          IN /\ roster[k].ids = tagged \cup bound
             /\ "tag" \in roster[k].sources <=> tagged # {}
             /\ "source-control" \in roster[k].sources <=> bound # {}
    <3> SUFFICES ASSUME NEW k \in DOMAIN roster
                 PROVE  LET tagged == { r \in Roster!Rows(answers) : tags[r] = k }
                            bound == { r \in Resources : k \in Roster!Found(r) }
                        IN /\ roster[k].ids = tagged \cup bound
                           /\ "tag" \in roster[k].sources <=> tagged # {}
                           /\ "source-control" \in roster[k].sources <=> bound # {}
      OBVIOUS
    <3> DEFINE tagged == { r \in Roster!Rows(answers) : tags[r] = k }
               bound == { r \in Resources : k \in Roster!Found(r) }
    <3>1. tagged # {} /\ bound = {}
      BY <2>3, <2>4
    <3>2. roster[k] = [ids |-> tagged, sources |-> {"tag"}]
      BY <2>3
    <3> HIDE DEF tagged, bound
    <3>3. /\ roster[k].ids = tagged \cup bound
          /\ "tag" \in roster[k].sources <=> tagged # {}
          /\ "source-control" \in roster[k].sources <=> bound # {}
      BY <3>1, <3>2
    <3> QED
      BY <3>3 DEF tagged, bound
  <2> QED
    BY <2>3, <2>4, <2>5 DEF RosterTells
<1>3. outcome = "ok" => RosterTells /\ \E i \in DOMAIN Selected : answers[i] = "rows"
  BY <1>2 DEF EstateInv
<1>4. Roster!RosterIsTrue
  BY <1>3 DEF RosterTells, Roster!RosterIsTrue
<1> QED
  BY <1>1, <1>4

LEMMA EstateHolds == ReadsSpec => [](part = "roster" => EstateInv)
<1> DEFINE Inv == part = "roster" => EstateInv
<1>1. ReadsInit => Inv
  BY PartsStart, EstateStarts
<1>2. Inv /\ [ReadsNext]_all => Inv'
  <2> SUFFICES ASSUME Inv, [ReadsNext]_all, part' = "roster"
               PROVE  EstateInv'
    OBVIOUS
  <2> QED
    BY PartsStep, EstateStays
<1> QED
  BY <1>1, <1>2, PTL DEF ReadsSpec

\* A roster that is reported names what is tagged and what is bound, and says
\* which: enumerateEstate, dedupeEstate and enrichEstateWithSourceControl of
\* src/lib/estate and src/runtime.ts.
THEOREM RosterStaysTrue == ReadsSpec => []RosterIsTrue
<1>1. (part = "roster" => EstateInv) => RosterIsTrue
  BY EstateMeans DEF RosterIsTrue
<1> QED
  BY <1>1, EstateHolds, PTL

-----------------------------------------------------------------------------
(* Enrichment.                                                             *)

LEMMA GraphLookups ==
  ASSUME Graph!Lookups
  PROVE  Pool!Lookups
BY DEF Graph!Lookups, Pool!Lookups, Graph!Take, Pool!Take, Graph!LookupAnswers,
       Pool!LookupAnswers, Graph!LookupFails, Pool!LookupFails, Graph!LookupContinues,
       Pool!LookupContinues, Graph!LookupEnds, Pool!LookupEnds, Graph!Busy, Pool!Busy,
       Graph!Answers, Pool!Answers, Graph!AtMost, Pool!AtMost

Chosen == { Selected[i] : i \in DOMAIN Selected }
Mentioned(heard) == { m.at : m \in Graph!Mentions(heard) }
Answered(but) == { r \in content : Home[r] \notin but }

GraphTypes ==
  /\ step \in {"graph", "pool", "done"}
  /\ content \subseteq Resources
  /\ asking \subseteq Chosen
  /\ waiting \subseteq Chosen
  /\ token \in Tokens \cup {None}
  /\ tokens \subseteq Tokens
  /\ pages \in 1 .. MaxPages
  /\ rows \subseteq Resources
  /\ lost \subseteq Chosen
  /\ DOMAIN enriched = Enumerated

\* A subscription is being asked, waits, has been lost or has given all its rows.
GraphRows ==
  /\ step = "graph" =>
       /\ asking \cap waiting = {} /\ lost \cap (asking \cup waiting) = {}
       /\ rows = Answered(asking \cup waiting \cup lost)
  /\ step # "graph" => rows = Answered(lost)

\* Only what is mentioned is looked up, and only the end of the pool attaches.
GraphInv ==
  /\ GraphTypes
  /\ GraphRows
  /\ PoolInv
  /\ step = "graph" => PoolIdle /\ left = {}
  /\ step # "graph" => Touched \subseteq Mentioned(rows)
  /\ step = "pool" => ~ failed
  /\ step = "done" /\ ~ failed => Pool!PoolDone
  /\ Graph!AttachedAreOwn

LEMMA MentionedFacts ==
  ASSUME NEW heard \in SUBSET Resources
  PROVE  /\ Mentioned(heard) \subseteq Resources
         /\ { r \in Resources : Item(r) \in Graph!Targets(Graph!Mentions(heard)) }
              \subseteq Mentioned(heard)
         /\ Graph!Targets(Graph!Mentions(heard)) \subseteq { Item(r) : r \in Resources }
<1>1. \A m \in Graph!Mentions(heard) : m.at \in Resources
  BY ReadsAssumption DEF Graph!Mentions
<1>2. Mentioned(heard) \subseteq Resources
  BY <1>1 DEF Mentioned
<1>3. Graph!Targets(Graph!Mentions(heard)) = { Item(m.at) : m \in Graph!Mentions(heard) }
  BY DEF Graph!Targets, Item
<1>4. ASSUME NEW r \in Resources, Item(r) \in Graph!Targets(Graph!Mentions(heard))
      PROVE  r \in Mentioned(heard)
  <2>1. PICK m \in Graph!Mentions(heard) : Item(r) = Item(m.at)
    BY <1>3, <1>4
  <2>2. r = m.at
    BY <2>1 DEF Item
  <2> QED
    BY <2>2 DEF Mentioned
<1> QED
  BY <1>1, <1>2, <1>3, <1>4

LEMMA GraphStarts ==
  ASSUME Graph!Init
  PROVE  GraphInv
<1>1. PoolIdle /\ left = {} /\ step = "graph"
  BY DEF Graph!Init, Graph!PoolInit, PoolIdle
<1>2. /\ content \in SUBSET Resources /\ asking = Chosen /\ waiting = {} /\ token = None
      /\ tokens = {} /\ pages = 1 /\ rows = {} /\ lost = {}
      /\ enriched = [c \in Enumerated |-> <<>>]
  BY DEF Graph!Init, Chosen
<1>3. 1 \in 1 .. MaxPages
  BY ReadsAssumption
<1>4. GraphTypes
  BY <1>1, <1>2, <1>3 DEF GraphTypes
<1>5. Answered(Chosen) = {}
  BY <1>2, ReadsAssumption DEF Answered, Chosen
<1>6. GraphRows
  BY <1>1, <1>2, <1>5 DEF GraphRows
<1>7. Graph!AttachedAreOwn
  BY <1>1, <1>2 DEF Graph!AttachedAreOwn
<1> QED
  BY <1>1, <1>4, <1>6, <1>7, PoolStarts DEF GraphInv

\* The query under way is over.
LEMMA GraphGoesOn ==
  ASSUME GraphInv, step = "graph", NEW heard \in SUBSET Resources,
         lost' \subseteq Chosen, lost' \cap waiting = {},
         heard = Answered(waiting \cup lost'),
         Graph!NextScope(heard)
  PROVE  GraphInv'
<1>1. /\ rows' = heard
      /\ UNCHANGED <<content, workers, found, failed, truth, enriched>>
  BY DEF Graph!NextScope
<1>2. PoolInv /\ PoolIdle /\ left = {} /\ ~ failed /\ \A c \in Enumerated : enriched[c] = <<>>
  BY DEF GraphInv, PoolIdle, Graph!AttachedAreOwn
<1>3. /\ content \subseteq Resources /\ asking \subseteq Chosen /\ waiting \subseteq Chosen
      /\ token \in Tokens \cup {None} /\ tokens \subseteq Tokens /\ pages \in 1 .. MaxPages
      /\ DOMAIN enriched = Enumerated /\ 1 \in 1 .. MaxPages
  BY ReadsAssumption DEF GraphInv, GraphTypes
<1>4. \A but : Answered(but)' = Answered(but)
  BY <1>1 DEF Answered
<1>5. CASE waiting = {}
  <2>1. /\ step' = "pool" /\ left' = Graph!Targets(Graph!Mentions(heard))
        /\ UNCHANGED <<asking, waiting, token, tokens, pages>>
    BY <1>5 DEF Graph!NextScope
  <2>2. GraphTypes'
    BY <1>1, <1>3, <2>1 DEF GraphTypes
  <2>3. GraphRows'
    <3>1. waiting \cup lost' = lost'
      BY <1>5
    <3> QED
      BY <1>1, <1>4, <2>1, <3>1 DEF GraphRows, Answered
  <2>4. PoolInv' /\ Touched' = { r \in Resources : Item(r) \in left' }
    BY <1>1, <1>2, <2>1, MentionedFacts, PoolLoads
  <2>5. Mentioned(rows)' = Mentioned(heard)
    BY <1>1 DEF Mentioned, Graph!Mentions
  <2>6. Touched' \subseteq Mentioned(rows)'
    BY <2>1, <2>4, <2>5, MentionedFacts
  <2>7. Graph!AttachedAreOwn'
    BY <1>1, <1>2, <2>1 DEF Graph!AttachedAreOwn
  <2> QED
    BY <1>1, <1>2, <2>1, <2>2, <2>3, <2>4, <2>6, <2>7 DEF GraphInv
<1>6. CASE waiting # {}
  <2>1. PICK s \in waiting : Graph!Query({s}) /\ waiting' = waiting \ {s}
    BY <1>6 DEF Graph!NextScope
  <2>2. /\ step' = "graph" /\ left' = left
        /\ asking' = {s} /\ token' = None /\ tokens' = {} /\ pages' = 1
    BY <1>6, <2>1 DEF Graph!NextScope, Graph!Query
  <2>3. GraphTypes'
    BY <1>1, <1>3, <2>1, <2>2 DEF GraphTypes
  <2>4. GraphRows'
    <3>1. waiting \cup lost' = asking' \cup waiting' \cup lost'
      BY <2>1, <2>2
    <3>2. asking' \cap waiting' = {} /\ lost' \cap (asking' \cup waiting') = {}
      BY <2>1, <2>2
    <3>3. rows' = Answered(asking' \cup waiting' \cup lost')
      BY <1>1, <3>1
    <3> QED
      BY <1>1, <2>2, <3>2, <3>3 DEF GraphRows, Answered
  <2>5. PoolInv' /\ PoolIdle'
    BY <1>1, <1>2, <2>2, PoolKept
  <2>6. Graph!AttachedAreOwn'
    BY <1>1, <1>2, <2>2 DEF Graph!AttachedAreOwn
  <2> QED
    BY <1>1, <1>2, <2>2, <2>3, <2>4, <2>5, <2>6 DEF GraphInv
<1> QED
  BY <1>5, <1>6

\* What the pool's end attaches to a candidate.
LEMMA OwnFacts ==
  ASSUME PoolInv, Touched \subseteq Mentioned(rows), rows \in SUBSET Resources,
         NEW c \in Enumerated
  PROVE  Graph!Attached(c) =
           IF At[c] \in Mentioned(rows) THEN Graph!OfOurs(truth[At[c]]) ELSE <<>>
<1> DEFINE own == Filter(found, {At[c]} \X Associations)
           second == [i \in DOMAIN own |-> own[i][2]]
<1>1. Graph!Attached(c) = Filter(second, Ours)
  BY DEF Graph!Attached, Graph!OfOurs, Graph!Filter, Graph!Kept, Filter, Kept
<1>2. found \in Seq(Resources \X Associations) /\ truth \in [Resources -> Seq(Associations)]
  BY DEF PoolInv, PoolShape
<1>3. CASE At[c] \in Resources
  <2> DEFINE list == truth[At[c]]
  <2>1. list \in Seq(Associations) /\ own = Pairs(At[c], list)
    BY <1>2, <1>3 DEF PoolInv, PoolTrue, Of
  <2>2. DOMAIN list = 1 .. Len(list) /\ Len(list) \in Nat /\ list = [i \in DOMAIN list |-> list[i]]
    BY <2>1, LenProperties
  <2> HIDE DEF list, own
  <2>3. second = list
    BY <2>1, <2>2 DEF Pairs
  <2>4. Filter(<<>>, Ours) = <<>>
    <3>1. <<>> \in Seq(Associations) /\ Len(<<>>) = 0 /\ 1 .. 0 = {}
      OBVIOUS
    <3> QED
      BY <3>1, FilterNone
  <2>5. At[c] \notin Mentioned(rows) => list = <<>>
    BY <1>3 DEF Touched, list
  <2>6. Graph!OfOurs(list) = Filter(list, Ours)
    BY DEF Graph!OfOurs, Graph!Filter, Graph!Kept, Filter, Kept
  <2> HIDE DEF second
  <2> QED
    BY <1>1, <2>3, <2>4, <2>5, <2>6 DEF list
<1>4. CASE At[c] \notin Resources
  <2>1. At[c] \notin Mentioned(rows)
    BY <1>4, MentionedFacts
  <2>2. own = <<>>
    <3> DEFINE S == Resources \X Associations
               K == {At[c]} \X Associations
    <3>1. found \in Seq(S) /\ \A i \in 1 .. Len(found) : found[i] \in S
      BY <1>2, ElementOfSeq
    <3>2. \A i \in 1 .. Len(found) : found[i] \notin K
      BY <1>4, <3>1
    <3> HIDE DEF S, K
    <3>3. Filter(found, K) = <<>>
      BY <3>1, <3>2, FilterNone
    <3> QED
      BY <3>3 DEF K
  <2> HIDE DEF own
  <2>3. second = <<>>
    BY <2>2
  <2>4. Filter(<<>>, Ours) = <<>>
    <3>1. <<>> \in Seq(Associations) /\ Len(<<>>) = 0 /\ 1 .. 0 = {}
      OBVIOUS
    <3> QED
      BY <3>1, FilterNone
  <2> HIDE DEF second
  <2> QED
    BY <1>1, <2>1, <2>3, <2>4
<1> QED
  BY <1>3, <1>4

LEMMA GraphStays ==
  ASSUME GraphInv, [Graph!Next]_Graph!enrichmentVars
  PROVE  GraphInv'
<1>1. CASE Graph!LastRows
  <2> DEFINE mine == { r \in content : Home[r] \in asking }
  <2>1. step = "graph" /\ Graph!NextScope(rows \cup mine) /\ lost' = lost
    BY <1>1 DEF Graph!LastRows
  <2>2. /\ rows = Answered(asking \cup waiting \cup lost) /\ content \subseteq Resources
        /\ asking \cap waiting = {} /\ lost \cap (asking \cup waiting) = {}
        /\ lost \subseteq Chosen
    BY <2>1 DEF GraphInv, GraphRows, GraphTypes
  <2>3. rows \cup mine = Answered(waiting \cup lost') /\ rows \cup mine \in SUBSET Resources
    BY <2>1, <2>2 DEF Answered
  <2> HIDE DEF mine
  <2>4. lost' \subseteq Chosen /\ lost' \cap waiting = {}
    BY <2>1, <2>2
  <2> QED
    BY <2>1, <2>3, <2>4, GraphGoesOn
<1>2. CASE Graph!QueryFails
  <2>1. /\ step = "graph" /\ rows = Answered(asking \cup waiting \cup lost)
        /\ content \subseteq Resources /\ rows \subseteq Resources
        /\ asking \cap waiting = {} /\ lost \cap (asking \cup waiting) = {}
        /\ lost \subseteq Chosen /\ asking \subseteq Chosen /\ waiting \subseteq Chosen
        /\ DOMAIN enriched = Enumerated
    BY <1>2 DEF Graph!QueryFails, GraphInv, GraphRows, GraphTypes
  <2>2. CASE asking = Chosen /\ Graph!Cardinality(Chosen) > 1
    <3>1. PICK s \in Chosen : Graph!Query({s}) /\ waiting' = Chosen \ {s}
      BY <1>2, <2>2 DEF Graph!QueryFails, Chosen
    <3>2. /\ asking' = {s} /\ token' = None /\ tokens' = {} /\ pages' = 1
          /\ UNCHANGED <<step, content, rows, lost, enriched>>
          /\ UNCHANGED <<left, workers, found, failed, truth>>
      BY <1>2, <2>2, <3>1 DEF Graph!QueryFails, Graph!Query, Chosen, Graph!pool
    <3>3. waiting = {} /\ lost = {}
      BY <2>1, <2>2
    <3>4. GraphTypes'
      <4>1. 1 \in 1 .. MaxPages
        BY ReadsAssumption
      <4> QED
        BY <2>1, <3>1, <3>2, <4>1 DEF GraphTypes, Chosen
    <3>5. GraphRows'
      <4>1. asking' \cup waiting' \cup lost' = asking \cup waiting \cup lost
        BY <2>2, <3>1, <3>2, <3>3
      <4>2. rows' = Answered(asking' \cup waiting' \cup lost')
        BY <2>1, <3>2, <4>1
      <4>3. asking' \cap waiting' = {} /\ lost' \cap (asking' \cup waiting') = {}
        BY <3>1, <3>2, <3>3
      <4> QED
        BY <2>1, <3>2, <4>2, <4>3 DEF GraphRows, Answered
    <3>6. PoolInv' /\ PoolIdle' /\ left' = {}
      BY <2>1, <3>2, PoolKept DEF GraphInv
    <3>7. Graph!AttachedAreOwn'
      BY <2>1, <3>2 DEF GraphInv, Graph!AttachedAreOwn
    <3> QED
      BY <2>1, <3>2, <3>4, <3>5, <3>6, <3>7 DEF GraphInv
  <2>3. CASE ~ (asking = Chosen /\ Graph!Cardinality(Chosen) > 1)
    <3>1. Graph!NextScope(rows) /\ lost' = lost \cup asking
      BY <1>2, <2>3 DEF Graph!QueryFails, Chosen
    <3>2. /\ lost' \subseteq Chosen /\ lost' \cap waiting = {}
          /\ asking \cup waiting \cup lost = waiting \cup lost'
      BY <2>1, <3>1
    <3>3. rows = Answered(waiting \cup lost') /\ rows \in SUBSET Resources
      BY <2>1, <3>2
    <3> QED
      BY <2>1, <3>1, <3>2, <3>3, GraphGoesOn
  <2> QED
    BY <2>2, <2>3
<1>3. ASSUME NEW n \in Tokens, Graph!MoreRows(n)
      PROVE  GraphInv'
  <2>1. /\ step = "graph" /\ pages < MaxPages /\ pages' = pages + 1 /\ token' = n
        /\ tokens' = (IF token = None THEN tokens ELSE tokens \cup {token})
        /\ UNCHANGED <<step, content, asking, waiting, rows, lost, enriched>>
        /\ UNCHANGED <<left, workers, found, failed, truth>>
    BY <1>3 DEF Graph!MoreRows, Graph!pool
  <2>2. pages' \in 1 .. MaxPages
    <3>1. pages \in 1 .. MaxPages /\ MaxPages \in Nat
      BY ReadsAssumption DEF GraphInv, GraphTypes
    <3> QED
      BY <2>1, <3>1
  <2>3. token' \in Tokens \cup {None} /\ tokens' \subseteq Tokens
    BY <2>1 DEF GraphInv, GraphTypes
  <2>4. GraphTypes'
    BY <2>1, <2>2, <2>3 DEF GraphInv, GraphTypes, Chosen
  <2>5. GraphRows'
    BY <2>1 DEF GraphInv, GraphRows, Answered
  <2>6. PoolInv' /\ PoolIdle' /\ left' = {}
    BY <2>1, PoolKept DEF GraphInv
  <2>7. Graph!AttachedAreOwn'
    BY <2>1 DEF GraphInv, Graph!AttachedAreOwn
  <2> QED
    BY <2>1, <2>4, <2>5, <2>6, <2>7 DEF GraphInv
<1>4. CASE Graph!LookUp \/ Graph!GiveUp
  <2>1. /\ step # "graph" /\ PoolInv /\ Touched \subseteq Mentioned(rows)
        /\ UNCHANGED <<content, asking, waiting, token, tokens, pages, rows, lost, enriched>>
    BY <1>4 DEF Graph!LookUp, Graph!GiveUp, Graph!graph, GraphInv
  <2>2. ~ Pool!PoolDone
    <3>1. CASE Graph!LookUp
      BY <2>1, <3>1, GraphLookups, PoolRests DEF Graph!LookUp
    <3>2. CASE Graph!GiveUp
      BY <2>1, <3>2, PoolRests DEF Graph!GiveUp
    <3> QED
      BY <1>4, <3>1, <3>2
  <2>3. \/ PoolInv' /\ Touched' \subseteq Touched /\ failed' = failed /\ step' = step
        \/ PoolInv' /\ Touched' \subseteq Touched /\ failed' /\ step' = "done"
    <3>1. CASE Graph!LookUp
      BY <2>1, <3>1, GraphLookups, PoolLookups DEF Graph!LookUp
    <3>2. CASE Graph!GiveUp
      <4>1. PICK w \in DOMAIN workers, item \in left : Pool!Reject(w, item)
        BY <3>2 DEF Graph!GiveUp, Graph!Reject, Pool!Reject
      <4> QED
        BY <2>1, <3>2, <4>1, PoolStops DEF Graph!GiveUp, Pool!Reject
    <3> QED
      BY <1>4, <3>1, <3>2
  <2>4. step = "pool" \/ (step = "done" /\ failed)
    BY <2>1, <2>2 DEF GraphInv, GraphTypes
  <2>5. \A c \in Enumerated : enriched[c] = <<>>
    BY <2>4 DEF GraphInv, Graph!AttachedAreOwn
  <2>6. step' \in {"pool", "done"} /\ (step' = "done" => failed') /\ (step' = "pool" => ~ failed')
    BY <2>3, <2>4 DEF GraphInv
  <2>7. GraphTypes' /\ GraphRows'
    <3>1. GraphTypes'
      BY <2>1, <2>6 DEF GraphInv, GraphTypes, Chosen
    <3>2. GraphRows'
      BY <2>1, <2>6 DEF GraphInv, GraphRows, Answered
    <3> QED
      BY <3>1, <3>2
  <2>8. Mentioned(rows)' = Mentioned(rows)
    BY <2>1 DEF Mentioned, Graph!Mentions
  <2>9. Graph!AttachedAreOwn'
    BY <2>1, <2>5, <2>6 DEF Graph!AttachedAreOwn
  <2> QED
    BY <2>1, <2>3, <2>6, <2>7, <2>8, <2>9 DEF GraphInv
<1>5. CASE Graph!Attach
  <2>1. /\ step = "pool" /\ Graph!PoolDone /\ step' = "done"
        /\ enriched' = [c \in Enumerated |-> Graph!Attached(c)]
        /\ UNCHANGED <<content, asking, waiting, token, tokens, pages, rows, lost>>
        /\ UNCHANGED <<left, workers, found, failed, truth>>
    BY <1>5 DEF Graph!Attach, Graph!graph, Graph!pool
  <2>2. Pool!PoolDone /\ Pool!PoolDone'
    BY <2>1 DEF Graph!PoolDone, Pool!PoolDone
  <2>3. /\ PoolInv /\ Touched \subseteq Mentioned(rows) /\ ~ failed /\ rows \in SUBSET Resources
    BY <2>1 DEF GraphInv, GraphTypes
  <2>4. PoolInv' /\ Touched' = Touched
    BY <2>1, <2>3, PoolKept
  <2>5. GraphTypes'
    BY <2>1 DEF GraphInv, GraphTypes, Chosen
  <2>6. GraphRows'
    BY <2>1 DEF GraphInv, GraphRows, Answered
  <2>7. Mentioned(rows)' = Mentioned(rows)
    BY <2>1 DEF Mentioned, Graph!Mentions
  <2>8. Graph!AttachedAreOwn'
    <3>1. \A c \in Enumerated :
            enriched'[c] = IF At[c] \in Mentioned(rows) THEN Graph!OfOurs(truth[At[c]]) ELSE <<>>
      BY <2>1, <2>3, OwnFacts
    <3>2. \A c : Graph!OfOurs(truth[At[c]])' = Graph!OfOurs(truth[At[c]])
      BY <2>1 DEF Graph!OfOurs, Graph!Filter, Graph!Kept
    <3>3. Mentioned(rows)' = { m.at : m \in Graph!Mentions(rows) }'
      BY DEF Mentioned
    <3>4. step' = "done" /\ ~ failed'
      BY <2>1, <2>3
    <3> QED
      BY <2>7, <3>1, <3>2, <3>3, <3>4 DEF Graph!AttachedAreOwn
  <2> QED
    BY <2>1, <2>2, <2>3, <2>4, <2>5, <2>6, <2>7, <2>8 DEF GraphInv
<1>6. CASE UNCHANGED Graph!enrichmentVars
  <2>1. /\ UNCHANGED <<step, content, asking, waiting, token, tokens, pages, rows, lost, enriched>>
        /\ UNCHANGED <<left, workers, found, failed, truth>>
    BY <1>6 DEF Graph!enrichmentVars, Graph!graph, Graph!pool
  <2>2. PoolInv' /\ Touched' = Touched /\ (PoolIdle => PoolIdle')
    BY <2>1, PoolKept DEF GraphInv
  <2>3. GraphTypes'
    BY <2>1 DEF GraphInv, GraphTypes, Chosen
  <2>4. GraphRows'
    BY <2>1 DEF GraphInv, GraphRows, Answered
  <2>5. Mentioned(rows)' = Mentioned(rows) /\ (Pool!PoolDone => Pool!PoolDone')
    BY <2>1 DEF Mentioned, Graph!Mentions, Pool!PoolDone
  <2>6. Graph!AttachedAreOwn'
    <3>1. \A c : Graph!OfOurs(truth[At[c]])' = Graph!OfOurs(truth[At[c]])
      BY <2>1 DEF Graph!OfOurs, Graph!Filter, Graph!Kept
    <3>2. { m.at : m \in Graph!Mentions(rows) }' = { m.at : m \in Graph!Mentions(rows) }
      BY <2>1 DEF Graph!Mentions
    <3>3. Graph!AttachedAreOwn
      BY DEF GraphInv
    <3> QED
      BY <2>1, <3>1, <3>2, <3>3 DEF Graph!AttachedAreOwn
  <2> QED
    BY <2>1, <2>2, <2>3, <2>4, <2>5, <2>6 DEF GraphInv
<1> QED
  BY <1>1, <1>2, <1>3, <1>4, <1>5, <1>6 DEF Graph!Next

LEMMA GraphMeans ==
  ASSUME GraphInv
  PROVE  Graph!EnrichmentIsTrue /\ Graph!TypeOK
<1>1. Graph!TypeOK
  <2>1. Graph!PoolTyped
    BY PoolTypes DEF GraphInv, Graph!PoolTyped, Pool!PoolTyped, Graph!Busy, Pool!Busy
  <2> QED
    BY <2>1 DEF GraphInv, GraphTypes, Graph!TypeOK, Chosen
<1>2. Graph!RowsByScope
  BY DEF GraphInv, GraphRows, Answered, Graph!RowsByScope
<1> QED
  BY <1>1, <1>2 DEF GraphInv, Graph!EnrichmentIsTrue

LEMMA GraphHolds == ReadsSpec => [](part = "graph" => GraphInv)
<1> DEFINE Inv == part = "graph" => GraphInv
<1>1. ReadsInit => Inv
  BY PartsStart, GraphStarts
<1>2. Inv /\ [ReadsNext]_all => Inv'
  <2> SUFFICES ASSUME Inv, [ReadsNext]_all, part' = "graph"
               PROVE  GraphInv'
    OBVIOUS
  <2> QED
    BY PartsStep, GraphStays
<1> QED
  BY <1>1, <1>2, PTL DEF ReadsSpec

\* No subscription is half listed, and a candidate is given the repositories of
\* its own resource, in order, or none: queryResourceGraph and
\* enrichCandidatesWithSourceControl of src/runtime.ts.
THEOREM EnrichmentStaysTrue == ReadsSpec => []EnrichmentIsTrue
<1>1. (part = "graph" => GraphInv) => EnrichmentIsTrue
  BY GraphMeans DEF EnrichmentIsTrue
<1> QED
  BY <1>1, GraphHolds, PTL

-----------------------------------------------------------------------------
(* Fanout.                                                                 *)

\* What puts the slots together is such a solution.
LEMMA FlattenSteps ==
  ASSUME NEW s, Len(s) \in Nat \ {0}
  PROVE  \E f : IsFlat(f, s, Len(s)) /\ Fan!FlattenSeq(s) = f[Len(s)]
<1>1. PICK f : IsFlat(f, s, Len(s))
  BY FlatExists
<1>2. Fan!FlattenSeq(s) = (CHOOSE g : IsFlat(g, s, Len(s)))[Len(s)]
  BY Zenon DEF Fan!FlattenSeq, IsFlat
<1> QED
  BY <1>1, <1>2, Zenon

\* What holds of the first, and goes on holding when one more is added, holds of
\* all of them.
LEMMA FlattenInduction ==
  ASSUME NEW s, Len(s) \in Nat \ {0}, NEW P, <<1, s[1]>> \in P,
         \A n \in 1 .. Len(s) - 1 : \A v : <<n, v>> \in P => <<n + 1, v \o s[n + 1]>> \in P
  PROVE  <<Len(s), Fan!FlattenSeq(s)>> \in P
<1>1. PICK f : IsFlat(f, s, Len(s)) /\ Fan!FlattenSeq(s) = f[Len(s)]
  BY FlattenSteps
<1>2. <<Len(s), f[Len(s)]>> \in P
  BY <1>1, FlatInduction
<1> QED
  BY <1>1, <1>2

\* The providers are numbered.
LEMMA ProvidersFacts ==
  /\ Fan!All = 1 .. Len(Fan!Providers) /\ Len(Fan!Providers) \in Nat
<1> DEFINE cloud(i) == [k \in DOMAIN CloudKinds |-> [type |-> CloudKinds[k], scope |-> Selected[i]]]
           slots == [i \in DOMAIN Selected |-> cloud(i)]
           X == { [type |-> CloudKinds[k], scope |-> Selected[i]] :
                    k \in DOMAIN CloudKinds, i \in DOMAIN Selected }
           local == << [type |-> "runtime-declared", scope |-> "local"],
                       [type |-> "iac-local", scope |-> "local"] >>
           Y == X \cup { local[1], local[2] }
           P == (1 .. Len(Selected)) \X Seq(X)
<1>1. Len(Selected) \in Nat \ {0} /\ DOMAIN Selected = 1 .. Len(Selected)
  BY SelectedFacts
<1>2. DOMAIN CloudKinds = 1 .. Len(CloudKinds) /\ Len(CloudKinds) \in Nat
  BY ReadsAssumption, LenProperties
<1>3. \A i \in DOMAIN Selected : cloud(i) \in Seq(X)
  <2> SUFFICES ASSUME NEW i \in DOMAIN Selected PROVE cloud(i) \in Seq(X)
    OBVIOUS
  <2>1. cloud(i) \in [1 .. Len(CloudKinds) -> X]
    BY <1>2
  <2> HIDE DEF X
  <2> QED
    BY <1>2, <2>1, SeqDef
<1>4. Len(slots) = Len(Selected) /\ \A i \in 1 .. Len(Selected) : slots[i] = cloud(i)
  <2>1. slots \in [1 .. Len(Selected) -> Seq(X)]
    BY <1>1, <1>3
  <2>2. slots \in Seq(Seq(X)) /\ DOMAIN slots = 1 .. Len(Selected)
    BY <1>1, <2>1, SeqDef
  <2>3. Len(slots) = Len(Selected)
    BY <1>1, <2>2, LenProperties
  <2> QED
    BY <1>1, <2>3
<1>45. \A i \in 1 .. Len(Selected) : slots[i] \in Seq(X)
  <2> HIDE DEF cloud, slots, X
  <2> QED
    BY <1>1, <1>3, <1>4
<1> HIDE DEF slots, X
<1>5. <<1, slots[1]>> \in P
  BY <1>1, <1>45
<1>6. ASSUME NEW n \in 1 .. Len(slots) - 1, NEW v, <<n, v>> \in P
      PROVE  <<n + 1, v \o slots[n + 1]>> \in P
  <2>1. n + 1 \in 1 .. Len(Selected) /\ v \in Seq(X)
    BY <1>1, <1>4, <1>6
  <2>2. slots[n + 1] \in Seq(X)
    BY <1>45, <2>1
  <2>3. v \o slots[n + 1] \in Seq(X)
    BY <2>1, <2>2, ConcatProperties
  <2> QED
    BY <2>1, <2>3
<1>7. Fan!FlattenSeq(slots) \in Seq(X)
  <2>1. Len(slots) \in Nat \ {0}
    BY <1>1, <1>4
  <2> HIDE DEF P
  <2>2. <<Len(slots), Fan!FlattenSeq(slots)>> \in P
    BY <1>5, <1>6, <2>1, FlattenInduction
  <2> QED
    BY <2>2 DEF P
<1>8. Fan!Providers = Fan!FlattenSeq(slots) \o local
  BY DEF Fan!Providers, slots
<1>9. local \in Seq(Y) /\ X \subseteq Y
  OBVIOUS
<1> HIDE DEF local, Y
<1>10. Fan!FlattenSeq(slots) \in Seq(Y)
  BY <1>7, <1>9, SeqDef
<1>11. Fan!Providers \in Seq(Y)
  BY <1>8, <1>9, <1>10, ConcatProperties
<1> QED
  BY <1>11, LenProperties DEF Fan!All

\* Some of the providers are listed in the order of all.
Numbered(K) == Filter([i \in Fan!All |-> i], K)

LEMMA NumberedFacts ==
  ASSUME NEW K
  PROVE  /\ Len(Numbered(K)) \in 0 .. Len(Fan!Providers)
         /\ DOMAIN Numbered(K) = 1 .. Len(Numbered(K))
         /\ \A i \in DOMAIN Numbered(K) : Numbered(K)[i] \in Fan!All
         /\ Rising(Numbered(K))
<1> DEFINE n == Len(Fan!Providers)
           s == [i \in Fan!All |-> i]
<1>1. n \in Nat /\ Fan!All = 1 .. n
  BY ProvidersFacts
<1>2. s \in Seq(Fan!All) /\ s \in Seq(Int) /\ Len(s) = n
  <2>1. s \in [1 .. n -> Fan!All] /\ s \in [1 .. n -> Int] /\ DOMAIN s = 1 .. n
    BY <1>1
  <2> HIDE DEF s, n
  <2>2. s \in Seq(Fan!All) /\ s \in Seq(Int)
    BY <1>1, <2>1, SeqDef
  <2> QED
    BY <1>1, <2>1, <2>2, LenProperties
<1>3. Rising(s)
  BY <1>1 DEF Rising
<1> HIDE DEF s, n
<1>4. Len(Filter(s, K)) \in 0 .. n
  BY <1>2, FilterLength
<1>5. Filter(s, K) \in Seq(Fan!All)
  BY <1>2, FilterRange
<1>6. Rising(Filter(s, K))
  BY <1>2, <1>3, FilterOrder
<1> QED
  BY <1>4, <1>5, <1>6, ElementOfSeq, LenProperties DEF n, s, Numbered

LEMMA AvailableIs ==
  Fan!Available = Numbered({ i \in Fan!All : probes[i] = "available" })
BY DEF Fan!Available, Fan!Filter, Fan!Kept, Filter, Kept, Numbered

LEMMA AvailableFacts ==
  /\ Len(Fan!Available) \in 0 .. Len(Fan!Providers)
  /\ DOMAIN Fan!Available = 1 .. Len(Fan!Available)
  /\ \A i \in DOMAIN Fan!Available : Fan!Available[i] \in Fan!All
  /\ Rising(Fan!Available)
BY AvailableIs, NumberedFacts

\* The headers of a provider are in order, and those of an earlier one first.
Ordered(v) ==
  \A a, b \in DOMAIN v :
    a < b => \/ v[a][1] < v[b][1]
             \/ v[a][1] = v[b][1] /\ v[a][2] < v[b][2]

Slot(i) == [k \in 1 .. results[i] |-> <<Fan!Available[i], k>>]
Heads(i) == { <<Fan!Available[i], k>> : k \in 1 .. results[i] }

LEMMA SlotFacts ==
  ASSUME NEW i \in DOMAIN Fan!Available, results[i] \in Nat
  PROVE  /\ Slot(i) \in Seq(Fan!All \X Nat) /\ Len(Slot(i)) = results[i]
         /\ Range(Slot(i)) = Heads(i) /\ Ordered(Slot(i))
         /\ \A k \in 1 .. results[i] : Slot(i)[k] = <<Fan!Available[i], k>>
<1>1. Slot(i) \in [1 .. results[i] -> Fan!All \X Nat]
  BY AvailableFacts DEF Slot
<1>2. Slot(i) \in Seq(Fan!All \X Nat)
  BY <1>1, SeqDef
<1>3. Len(Slot(i)) = results[i]
  BY <1>1, <1>2, LenProperties
<1>4. Range(Slot(i)) = Heads(i)
  BY DEF Range, Slot, Heads
<1>5. Ordered(Slot(i))
  BY DEF Ordered, Slot
<1> QED
  BY <1>2, <1>3, <1>4, <1>5 DEF Slot

\* v holds the headers of the first n.
Holds(v, n) == \A h : h \in Range(v) <=> \E i \in 1 .. n : h \in Heads(i)

LEMMA SlotAdds ==
  ASSUME NEW n \in Nat \ {0}, n + 1 \in DOMAIN Fan!Available, results[n + 1] \in Nat,
         NEW v \in Seq(Fan!All \X Nat), Ordered(v),
         Holds(v, n)
  PROVE  /\ v \o Slot(n + 1) \in Seq(Fan!All \X Nat) /\ Ordered(v \o Slot(n + 1))
         /\ Holds(v \o Slot(n + 1), n + 1)
<1> DEFINE x == Slot(n + 1)
           w == v \o x
           here == Fan!Available[n + 1]
<1>0. Fan!All \subseteq Nat
  BY ProvidersFacts
<1>1. /\ x \in Seq(Fan!All \X Nat) /\ Len(x) = results[n + 1] /\ Range(x) = Heads(n + 1)
      /\ Ordered(x) /\ \A k \in 1 .. Len(x) : x[k] = <<here, k>>
  BY SlotFacts
<1>2. /\ w \in Seq(Fan!All \X Nat) /\ Len(v) \in Nat /\ Len(x) \in Nat
      /\ DOMAIN v = 1 .. Len(v) /\ DOMAIN x = 1 .. Len(x) /\ DOMAIN w = 1 .. Len(v) + Len(x)
      /\ \A i \in 1 .. Len(v) + Len(x) :
           w[i] = IF i <= Len(v) THEN v[i] ELSE x[i - Len(v)]
  <2> HIDE DEF x
  <2>1. Len(v) \in Nat /\ Len(x) \in Nat /\ DOMAIN v = 1 .. Len(v) /\ DOMAIN x = 1 .. Len(x)
    BY <1>1, LenProperties
  <2>2. /\ w \in Seq(Fan!All \X Nat) /\ Len(w) = Len(v) + Len(x)
        /\ \A i \in 1 .. Len(v) + Len(x) :
             w[i] = IF i <= Len(v) THEN v[i] ELSE x[i - Len(v)]
    BY <1>1, ConcatProperties
  <2> HIDE DEF w
  <2>3. DOMAIN w = 1 .. Len(v) + Len(x)
    BY <2>2, LenProperties
  <2> QED
    BY <2>1, <2>2, <2>3
<1>3. Range(w) = Range(v) \cup Range(x)
  <2> HIDE DEF x
  <2> QED
    BY <1>1, InjectiveConcat
<1>4. \A a \in 1 .. Len(v) : v[a][1] < here
  <2> SUFFICES ASSUME NEW a \in 1 .. Len(v) PROVE v[a][1] < here
    OBVIOUS
  <2>1. v[a] \in Range(v)
    BY <1>2 DEF Range
  <2>2. PICK i \in 1 .. n : v[a] \in Heads(i)
    BY <2>1 DEF Holds
  <2>3. v[a][1] = Fan!Available[i]
    BY <2>2 DEF Heads
  <2>4. i \in DOMAIN Fan!Available /\ i < n + 1
    BY AvailableFacts
  <2>5. Fan!Available[i] < here
    BY <2>4, AvailableFacts DEF Rising
  <2> QED
    BY <2>3, <2>5
<1> HIDE DEF x, w, here
<1>5. Ordered(w)
  <2> SUFFICES ASSUME NEW a \in DOMAIN w, NEW b \in DOMAIN w, a < b
               PROVE  \/ w[a][1] < w[b][1]
                      \/ w[a][1] = w[b][1] /\ w[a][2] < w[b][2]
    BY DEF Ordered
  <2>1. CASE b <= Len(v)
    <3>1. w[a] = v[a] /\ w[b] = v[b] /\ a \in DOMAIN v /\ b \in DOMAIN v
      BY <1>2, <2>1
    <3> QED
      BY <3>1 DEF Ordered
  <2>2. CASE ~ (b <= Len(v)) /\ a <= Len(v)
    <3>1. w[a] = v[a] /\ a \in 1 .. Len(v)
      BY <1>2, <2>2
    <3>2. w[b] = x[b - Len(v)] /\ b - Len(v) \in 1 .. Len(x)
      <4>1. Len(v) \in Nat /\ Len(x) \in Nat /\ b \in 1 .. Len(v) + Len(x)
        BY <1>2
      <4>2. b - Len(v) \in 1 .. Len(x)
        BY <2>2, <4>1
      <4> QED
        BY <1>2, <2>2, <4>1, <4>2
    <3>3. w[b][1] = here
      BY <1>1, <3>2
    <3> QED
      BY <1>4, <3>1, <3>3
  <2>3. CASE ~ (a <= Len(v))
    <3>1. /\ w[a] = x[a - Len(v)] /\ a - Len(v) \in 1 .. Len(x)
          /\ w[b] = x[b - Len(v)] /\ b - Len(v) \in 1 .. Len(x)
          /\ a - Len(v) < b - Len(v)
      <4>1. /\ Len(v) \in Nat /\ Len(x) \in Nat
            /\ a \in 1 .. Len(v) + Len(x) /\ b \in 1 .. Len(v) + Len(x)
        BY <1>2
      <4>2. /\ a - Len(v) \in 1 .. Len(x) /\ b - Len(v) \in 1 .. Len(x)
            /\ a - Len(v) < b - Len(v) /\ ~ (b <= Len(v))
        BY <2>3, <4>1, SMTT(30)
      <4> QED
        BY <1>2, <2>3, <4>1, <4>2
    <3>2. w[a] = <<here, a - Len(v)>> /\ w[b] = <<here, b - Len(v)>>
      BY <1>1, <3>1
    <3> QED
      BY <3>1, <3>2
  <2> QED
    BY <1>2, <2>1, <2>2, <2>3
<1>6. Holds(w, n + 1)
  <2>1. \A i : i \in 1 .. n + 1 <=> i \in 1 .. n \/ i = n + 1
    OBVIOUS
  <2>2. \A h : h \in Range(w) <=> h \in Range(v) \/ h \in Heads(n + 1)
    BY <1>1, <1>3
  <2>3. \A h : h \in Range(v) <=> \E i \in 1 .. n : h \in Heads(i)
    BY DEF Holds
  <2> QED
    BY <2>1, <2>2, <2>3 DEF Holds
<1> QED
  BY <1>1, <1>2, <1>3, <1>5, <1>6 DEF w, x

LEMMA InSlotsFacts ==
  ASSUME \A i \in DOMAIN Fan!Available : results[i] \in Nat
  PROVE  /\ Fan!InSlots \in Seq(Fan!All \X Nat) /\ Ordered(Fan!InSlots)
         /\ Holds(Fan!InSlots, Len(Fan!Available))
<1> DEFINE N == Len(Fan!Available)
           slots == [i \in DOMAIN Fan!Available |-> Slot(i)]
           S == Seq(Fan!All \X Nat)
           Is(n, v) == v \in S /\ Ordered(v) /\ Holds(v, n)
           P == { p \in (1 .. N) \X S : Is(p[1], p[2]) }
<1>1. Fan!InSlots = Fan!FlattenSeq(slots)
  BY DEF Fan!InSlots, Slot
<1>2. N \in Nat /\ DOMAIN Fan!Available = 1 .. N
  BY AvailableFacts
<1>3. Len(slots) = N /\ \A i \in 1 .. N : slots[i] = Slot(i)
  <2>1. \A i \in 1 .. N : Slot(i) \in S
    BY <1>2, SlotFacts
  <2> HIDE DEF S, N
  <2>2. slots \in [1 .. N -> S]
    BY <1>2, <2>1
  <2>3. slots \in Seq(S) /\ DOMAIN slots = 1 .. N
    BY <1>2, <2>2, SeqDef
  <2> QED
    BY <1>2, <2>3, LenProperties
<1>4. CASE N = 0
  <2>1. Len(slots) = 0 /\ DOMAIN slots = {}
    BY <1>2, <1>3, <1>4
  <2>2. Fan!FlattenSeq(slots) = slots
    BY <2>1 DEF Fan!FlattenSeq
  <2>3. slots = <<>>
    BY <1>2, <1>4
  <2>4. <<>> \in S /\ Ordered(<<>>) /\ Range(<<>>) = {}
    BY DEF Ordered, Range
  <2>5. Holds(<<>>, N)
    BY <1>4, <2>4 DEF Holds
  <2> QED
    BY <1>1, <2>2, <2>3, <2>4, <2>5
<1>5. CASE N # 0
  <2> HIDE DEF slots
  <2>1. <<1, slots[1]>> \in P
    <3>1. 1 \in DOMAIN Fan!Available /\ slots[1] = Slot(1)
      BY <1>2, <1>3, <1>5
    <3>2. Slot(1) \in S /\ Ordered(Slot(1)) /\ Range(Slot(1)) = Heads(1)
      BY <3>1, SlotFacts
    <3>3. Holds(Slot(1), 1)
      <4>1. \A i : i \in 1 .. 1 <=> i = 1
        OBVIOUS
      <4> QED
        BY <3>2, <4>1 DEF Holds
    <3>4. Is(1, slots[1]) /\ 1 \in 1 .. N /\ slots[1] \in S
      BY <1>2, <1>5, <3>1, <3>2, <3>3
    <3> HIDE DEF Is, S
    <3> QED
      BY <3>4
  <2>2. ASSUME NEW n \in 1 .. Len(slots) - 1, NEW v, <<n, v>> \in P
        PROVE  <<n + 1, v \o slots[n + 1]>> \in P
    <3>1. Is(n, v) /\ n + 1 \in 1 .. N /\ n \in Nat \ {0}
      BY <1>2, <1>3, <2>2
    <3>2. slots[n + 1] = Slot(n + 1) /\ n + 1 \in DOMAIN Fan!Available
      BY <1>2, <1>3, <3>1
    <3>3. Is(n + 1, v \o Slot(n + 1))
      BY <3>1, <3>2, SlotAdds
    <3>4. v \o Slot(n + 1) \in S
      BY <3>3
    <3> HIDE DEF Is, S
    <3> QED
      BY <3>1, <3>2, <3>3, <3>4
  <2>3. <<Len(slots), Fan!FlattenSeq(slots)>> \in P
    <3> HIDE DEF P
    <3>1. Len(slots) \in Nat \ {0}
      BY <1>2, <1>3, <1>5
    <3> QED
      BY <2>1, <2>2, <3>1, FlattenInduction
  <2>4. Is(N, Fan!FlattenSeq(slots))
    <3> HIDE DEF Is, S
    <3> QED
      BY <1>3, <2>3
  <2> QED
    BY <1>1, <1>2, <2>4
<1> QED
  BY <1>4, <1>5

LEMMA FanCardinality == \A S : Fan!Cardinality(S) = Cardinality(S)
BY DEF Fan!Cardinality, Cardinality

\* The headers of one type that came in time.
Counted(t) ==
  { h \in Fan!All \X Nat :
      /\ Fan!Providers[h[1]].type = t
      /\ \E i \in DOMAIN Fan!Available : h[1] = Fan!Available[i] /\ h[2] \in 1 .. answered[i] }

FanTypes ==
  /\ step \in {"probe", "list", "done"}
  /\ probes \in [Fan!All -> {"pending", "available", "skipped:iam", "skipped:error"}]
  /\ next \in 1 .. Len(Fan!Available) + 1
  /\ working \subseteq 1 .. next - 1
  /\ IsFiniteSet(working) /\ Cardinality(working) <= HeaderWidth
  /\ answered \in [Fan!All -> Nat]
  /\ results \in [Fan!All -> Nat \cup {-1}]
  /\ lateCalls \subseteq {"probe", "list"} \X Fan!All
  /\ enumerated \in [Fan!Types -> Nat]

FanCounts ==
  \A t \in Fan!Types : IsFiniteSet(Counted(t)) /\ enumerated[t] = Cardinality(Counted(t))

\* A provider counts when it has answered, and then with what stands in its slot.
FanInv ==
  /\ FanTypes
  /\ step = "probe" => next = 1
  /\ \A i \in Fan!All : i >= next \/ i \in working => answered[i] = 0
  /\ \A i \in 1 .. next - 1 : i \notin working => results[i] = answered[i]
  /\ FanCounts
  /\ step = "done" => next > Len(Fan!Available) /\ working = {} /\ headers = Fan!InSlots

LEMMA FanStarts ==
  ASSUME Fan!Init
  PROVE  FanInv
<1>1. /\ step = "probe" /\ probes = [i \in Fan!All |-> "pending"] /\ next = 1 /\ working = {}
      /\ answered = [i \in Fan!All |-> 0] /\ results = [i \in Fan!All |-> -1]
      /\ lateCalls = {} /\ enumerated = [t \in Fan!Types |-> 0]
  BY DEF Fan!Init, Fan!Unanswered
<1>2. FanTypes
  <2>1. IsFiniteSet(working) /\ Cardinality(working) <= HeaderWidth
    BY <1>1, FS_EmptySet, ReadsAssumption
  <2>2. next \in 1 .. Len(Fan!Available) + 1
    BY <1>1, AvailableFacts, ProvidersFacts
  <2>3. answered \in [Fan!All -> Nat] /\ enumerated \in [Fan!Types -> Nat]
        /\ results \in [Fan!All -> Nat \cup {-1}]
    BY <1>1
  <2> QED
    BY <1>1, <2>1, <2>2, <2>3 DEF FanTypes
<1>3. \A i \in DOMAIN Fan!Available : answered[i] = 0
  BY <1>1, AvailableFacts, ProvidersFacts
<1>4. FanCounts
  <2>1. \A t : Counted(t) = {}
    BY <1>3 DEF Counted
  <2> QED
    BY <1>1, <2>1, FS_EmptySet DEF FanCounts
<1> QED
  BY <1>1, <1>2, <1>4 DEF FanInv

\* n headers of one provider.
LEMMA OneCount ==
  ASSUME NEW x, NEW n \in Nat
  PROVE  /\ IsFiniteSet({ <<x, k>> : k \in 1 .. n })
         /\ Cardinality({ <<x, k>> : k \in 1 .. n }) = n
<1> DEFINE S == { <<x, k>> : k \in 1 .. n }
           f == [k \in 1 .. n |-> <<x, k>>]
<1>1. f \in Bijection(1 .. n, S)
  BY DEF Bijection, Injection, IsInjective, Surjection
<1>2. IsFiniteSet(1 .. n) /\ Cardinality(1 .. n) = n
  BY FS_Interval
<1> HIDE DEF S, f
<1>3. ExistsBijection(1 .. n, S)
  BY <1>1 DEF ExistsBijection
<1>4. IsFiniteSet(S) /\ Cardinality(S) = n
  BY <1>2, <1>3, FS_Bijection
<1> QED
  BY <1>4 DEF S

LEMMA CountedKept ==
  ASSUME UNCHANGED <<probes, answered>>
  PROVE  /\ Fan!Available' = Fan!Available
         /\ \A t : Counted(t)' = Counted(t)
<1>1. Fan!Available' = Fan!Available
  BY DEF Fan!Available, Fan!Filter, Fan!Kept, Fan!All, Fan!Providers
<1> QED
  BY <1>1 DEF Counted, Fan!All, Fan!Providers

\* A provider is through, with n headers or with none.
LEMMA FanSettles ==
  ASSUME FanInv, NEW i \in working, NEW n \in Nat,
         results' = [results EXCEPT ![i] = n],
         answered' = [answered EXCEPT ![i] = n],
         enumerated' = [enumerated EXCEPT ![Fan!TypeAt(i)] = @ + n],
         working' = working \ {i},
         lateCalls' \subseteq {"probe", "list"} \X Fan!All,
         step' = step, step # "done", step # "probe",
         UNCHANGED <<probes, next, headers>>
  PROVE  FanInv'
<1>1. Fan!Available' = Fan!Available
  BY DEF Fan!Available, Fan!Filter, Fan!Kept, Fan!All, Fan!Providers
<1>2. /\ i \in DOMAIN Fan!Available /\ i \in 1 .. next - 1 /\ i \in Fan!All
      /\ DOMAIN Fan!Available = 1 .. Len(Fan!Available) /\ Len(Fan!Available) \in Nat
      /\ DOMAIN Fan!Available \subseteq Fan!All
      /\ next \in 1 .. Len(Fan!Available) + 1
      /\ Fan!Available[i] \in Fan!All
      /\ Fan!All \subseteq Nat
  BY AvailableFacts, ProvidersFacts DEF FanInv, FanTypes
<1>3. answered[i] = 0
  BY <1>2 DEF FanInv
<1> DEFINE x == Fan!Available[i]
           new == { <<x, k>> : k \in 1 .. n }
           type == Fan!TypeAt(i)
<1>4. \A j \in DOMAIN Fan!Available : Fan!Available[j] = x => j = i
  BY <1>2, AvailableFacts DEF Rising
<1>5. type = Fan!Providers[x].type /\ type \in Fan!Types
  BY <1>2 DEF Fan!TypeAt, Fan!Types
<1>6. answered \in [Fan!All -> Nat] /\ results \in [Fan!All -> Nat \cup {-1}]
      /\ enumerated \in [Fan!Types -> Nat]
  BY DEF FanInv, FanTypes
<1>7. \A j \in Fan!All : answered'[j] = IF j = i THEN n ELSE answered[j]
  BY <1>2, <1>6
<1>8. ASSUME NEW t \in Fan!Types
      PROVE  Counted(t)' = IF t = type THEN Counted(t) \cup new ELSE Counted(t)
  <2>1. ASSUME NEW h \in Fan!All \X Nat
        PROVE  h \in Counted(t)' <=> h \in Counted(t) \/ (t = type /\ h \in new)
    <3>1. h \in Counted(t)' <=>
            /\ Fan!Providers[h[1]].type = t
            /\ \E j \in DOMAIN Fan!Available :
                 h[1] = Fan!Available[j] /\ h[2] \in 1 .. answered'[j]
      BY <1>1 DEF Counted, Fan!All, Fan!Providers
    <3>2. h \in Counted(t) <=>
            /\ Fan!Providers[h[1]].type = t
            /\ \E j \in DOMAIN Fan!Available :
                 h[1] = Fan!Available[j] /\ h[2] \in 1 .. answered[j]
      BY DEF Counted
    <3>3. h \in new <=> h[1] = x /\ h[2] \in 1 .. n
      OBVIOUS
    <3> HIDE DEF new
    <3>4. CASE h[1] = x
      <4>1. h \notin Counted(t)
        BY <1>3, <1>4, <3>2, <3>4
      <4>2. h \in Counted(t)' <=> Fan!Providers[x].type = t /\ h[2] \in 1 .. n
        BY <1>2, <1>4, <1>7, <3>1, <3>4
      <4> QED
        BY <1>5, <3>3, <3>4, <4>1, <4>2
    <3>5. CASE h[1] # x
      <4>1. \A j \in DOMAIN Fan!Available : h[1] = Fan!Available[j] => answered'[j] = answered[j]
        BY <1>2, <1>7, <3>5
      <4> QED
        BY <3>1, <3>2, <3>3, <3>5, <4>1
    <3> QED
      BY <3>4, <3>5
  <2>2. Counted(t)' \subseteq Fan!All \X Nat /\ Counted(t) \subseteq Fan!All \X Nat
    BY DEF Counted, Fan!All, Fan!Providers
  <2>3. new \subseteq Fan!All \X Nat
    BY <1>2
  <2> HIDE DEF new, type
  <2> QED
    BY <2>1, <2>2, <2>3
<1>9. \A t : Counted(t) \cap new = {}
  <2> SUFFICES ASSUME NEW t, NEW h \in Counted(t), h \in new PROVE FALSE
    OBVIOUS
  <2>1. h[1] = x
    OBVIOUS
  <2>2. PICK j \in DOMAIN Fan!Available : h[1] = Fan!Available[j] /\ h[2] \in 1 .. answered[j]
    BY DEF Counted
  <2> QED
    BY <1>3, <1>4, <2>1, <2>2
<1>10. FanCounts'
  <2> SUFFICES ASSUME NEW t \in Fan!Types
               PROVE  IsFiniteSet(Counted(t)') /\ enumerated'[t] = Cardinality(Counted(t)')
    BY DEF FanCounts, Fan!Types, Fan!All, Fan!Providers
  <2>1. IsFiniteSet(Counted(t)) /\ enumerated[t] = Cardinality(Counted(t)) /\ enumerated[t] \in Nat
    BY <1>6 DEF FanInv, FanCounts
  <2>2. IsFiniteSet(new) /\ Cardinality(new) = n
    BY OneCount
  <2>3. CASE t = type
    <3>1. enumerated'[t] = enumerated[t] + n
      BY <1>5, <1>6, <2>3
    <3>2. Counted(t)' = Counted(t) \cup new
      BY <1>8, <2>3
    <3> HIDE DEF new
    <3>3. /\ IsFiniteSet(Counted(t) \cup new)
          /\ Cardinality(Counted(t) \cup new) =
               Cardinality(Counted(t)) + Cardinality(new) - Cardinality(Counted(t) \cap new)
      BY <2>1, <2>2, FS_Union
    <3>4. Cardinality(Counted(t) \cap new) = 0
      BY <1>9, FS_EmptySet
    <3>5. enumerated'[t] = Cardinality(Counted(t)) + Cardinality(new) - 0
      BY <2>1, <2>2, <3>1
    <3> QED
      BY <3>2, <3>3, <3>4, <3>5
  <2>4. CASE t # type
    BY <1>5, <1>6, <1>8, <2>1, <2>4
  <2> QED
    BY <2>3, <2>4
<1>11. FanTypes'
  <2>1. working' \subseteq 1 .. next - 1 /\ IsFiniteSet(working')
        /\ Cardinality(working') <= HeaderWidth
    <3>1. IsFiniteSet(working) /\ Cardinality(working) <= HeaderWidth /\ Cardinality(working) \in Nat
      BY FS_CardinalityType DEF FanInv, FanTypes
    <3>2. IsFiniteSet(working') /\ Cardinality(working') = Cardinality(working) - 1
      BY <3>1, FS_RemoveElement
    <3>3. HeaderWidth \in Nat
      BY ReadsAssumption
    <3> QED
      BY <3>1, <3>2, <3>3 DEF FanInv, FanTypes
  <2>2. /\ answered' \in [Fan!All -> Nat] /\ results' \in [Fan!All -> Nat \cup {-1}]
        /\ enumerated' \in [Fan!Types -> Nat]
    BY <1>2, <1>5, <1>6, SMTT(30)
  <2> QED
    BY <1>1, <2>1, <2>2 DEF FanInv, FanTypes, Fan!All, Fan!Providers, Fan!Types
<1>12. \A j \in Fan!All : j >= next' \/ j \in working' => answered'[j] = 0
  BY <1>2, <1>7 DEF FanInv
<1>13. \A j \in 1 .. next' - 1 : j \notin working' => results'[j] = answered'[j]
  BY <1>2, <1>6, <1>7 DEF FanInv
<1> QED
  BY <1>10, <1>11, <1>12, <1>13 DEF FanInv, Fan!All, Fan!Providers

\* A provider fails: it counts nothing.
LEMMA FanFails ==
  ASSUME FanInv, NEW i \in working,
         results' = [results EXCEPT ![i] = 0],
         working' = working \ {i},
         lateCalls' \subseteq {"probe", "list"} \X Fan!All,
         step' = step, step # "done", step # "probe",
         UNCHANGED <<probes, next, headers, answered, enumerated>>
  PROVE  FanInv'
<1>1. /\ answered \in [Fan!All -> Nat] /\ enumerated \in [Fan!Types -> Nat] /\ 0 \in Nat
      /\ i \in DOMAIN Fan!Available /\ i \in Fan!All /\ Fan!Available[i] \in Fan!All
  <2>1. /\ answered \in [Fan!All -> Nat] /\ enumerated \in [Fan!Types -> Nat]
        /\ next \in 1 .. Len(Fan!Available) + 1 /\ i \in 1 .. next - 1
    BY DEF FanInv, FanTypes
  <2>2. i \in 1 .. Len(Fan!Available) /\ i \in 1 .. Len(Fan!Providers)
    BY <2>1, AvailableFacts, ProvidersFacts
  <2> QED
    BY <2>1, <2>2, AvailableFacts, ProvidersFacts
<1>2. answered[i] = 0
  BY <1>1 DEF FanInv
<1>3. answered' = [answered EXCEPT ![i] = 0]
  BY <1>1, <1>2
<1>4. Fan!TypeAt(i) \in Fan!Types
  BY <1>1 DEF Fan!TypeAt, Fan!Types
<1>5. enumerated' = [enumerated EXCEPT ![Fan!TypeAt(i)] = @ + 0]
  BY <1>1, <1>4
<1> QED
  BY <1>1, <1>3, <1>5, FanSettles

\* A probe is over.
LEMMA FanProbes ==
  ASSUME FanInv, NEW i \in Fan!All, NEW status \in {"available", "skipped:iam", "skipped:error"},
         Fan!Probe(i, status), lateCalls' \subseteq {"probe", "list"} \X Fan!All
  PROVE  FanInv'
<1>1. /\ step = "probe" /\ probes' = [probes EXCEPT ![i] = status]
      /\ UNCHANGED <<step, next, working, answered, results, enumerated, headers>>
  BY DEF Fan!Probe
<1>2. next = 1 /\ \A j \in Fan!All : answered[j] = 0
  BY <1>1, ProvidersFacts DEF FanInv
<1> DEFINE K == { j \in Fan!All : probes'[j] = "available" }
<1>3. Fan!Available' = Numbered(K)
  BY DEF Fan!Available, Fan!Filter, Fan!Kept, Filter, Kept, Numbered, Fan!All, Fan!Providers
<1> HIDE DEF K
<1>4. /\ Len(Fan!Available') \in Nat /\ DOMAIN Fan!Available' \subseteq Fan!All
  BY <1>3, NumberedFacts, ProvidersFacts
<1>45. Fan!All' = Fan!All /\ Fan!Types' = Fan!Types
  BY DEF Fan!All, Fan!Providers, Fan!Types
<1>5. FanTypes'
  <2>1. probes' \in [Fan!All -> {"pending", "available", "skipped:iam", "skipped:error"}]
    BY <1>1 DEF FanInv, FanTypes
  <2>2. next' \in 1 .. Len(Fan!Available') + 1
    BY <1>1, <1>2, <1>4
  <2>3. FanTypes
    BY DEF FanInv
  <2> QED
    BY <1>1, <1>45, <2>1, <2>2, <2>3 DEF FanTypes
<1>6. FanCounts'
  <2>1. \A t : Counted(t) = {}
    BY <1>2, AvailableFacts, ProvidersFacts DEF Counted
  <2>2. \A t : Counted(t)' = {}
    <3>1. \A j \in DOMAIN Fan!Available' : answered'[j] = 0
      BY <1>1, <1>2, <1>4
    <3> QED
      BY <3>1 DEF Counted
  <2> QED
    BY <1>1, <2>1, <2>2 DEF FanInv, FanCounts, Fan!Types, Fan!All, Fan!Providers
<1> QED
  BY <1>1, <1>2, <1>5, <1>6 DEF FanInv, Fan!All, Fan!Providers

LEMMA FanStays ==
  ASSUME FanInv, [Fan!Next]_Fan!fanoutVars
  PROVE  FanInv'
<1>0. lateCalls \subseteq {"probe", "list"} \X Fan!All
  BY DEF FanInv, FanTypes
<1>1. ASSUME NEW i \in Fan!All, Fan!ProbeAnswers(i) \/ Fan!ProbeExpires(i)
      PROVE  FanInv'
  <2>1. lateCalls' \subseteq {"probe", "list"} \X Fan!All
    BY <1>0, <1>1 DEF Fan!ProbeAnswers, Fan!ProbeExpires
  <2>2. \E status \in {"available", "skipped:iam", "skipped:error"} : Fan!Probe(i, status)
    BY <1>1 DEF Fan!ProbeAnswers, Fan!ProbeExpires
  <2> QED
    BY <2>1, <2>2, FanProbes
<1>2. CASE Fan!Probed
  <2>1. /\ step = "probe" /\ step' = "list"
        /\ UNCHANGED <<probes, next, working, answered, results, lateCalls, enumerated, headers>>
    BY <1>2 DEF Fan!Probed
  <2>2. Fan!Available' = Fan!Available /\ \A t : Counted(t)' = Counted(t)
    BY <2>1, CountedKept
  <2>3. FanTypes'
    BY <2>1, <2>2 DEF FanInv, FanTypes, Fan!All, Fan!Providers, Fan!Types
  <2>4. FanCounts'
    BY <2>1, <2>2 DEF FanInv, FanCounts, Fan!Types, Fan!All, Fan!Providers
  <2> QED
    BY <2>1, <2>3, <2>4 DEF FanInv, Fan!All, Fan!Providers
<1>3. CASE Fan!StartList
  <2>1. /\ step = "list" /\ next <= Len(Fan!Available) /\ Cardinality(working) < HeaderWidth
        /\ working' = working \cup {next} /\ next' = next + 1
        /\ UNCHANGED <<step, probes, answered, results, lateCalls, enumerated, headers>>
    BY <1>3, FanCardinality DEF Fan!StartList
  <2>2. Fan!Available' = Fan!Available /\ \A t : Counted(t)' = Counted(t)
    BY <2>1, CountedKept
  <2>3. /\ next \in 1 .. Len(Fan!Available) /\ Len(Fan!Available) \in Nat
        /\ next \in Fan!All /\ Fan!All \subseteq Nat
        /\ working \subseteq 1 .. next - 1
    BY <2>1, AvailableFacts, ProvidersFacts DEF FanInv, FanTypes
  <2>4. IsFiniteSet(working') /\ Cardinality(working') <= HeaderWidth
    <3>1. IsFiniteSet(working) /\ Cardinality(working) \in Nat /\ HeaderWidth \in Nat
      BY FS_CardinalityType, ReadsAssumption DEF FanInv, FanTypes
    <3>2. /\ IsFiniteSet(working')
          /\ Cardinality(working') \in {Cardinality(working), Cardinality(working) + 1}
      BY <2>1, <3>1, FS_AddElement
    <3> QED
      BY <2>1, <3>1, <3>2
  <2>5. working' \subseteq 1 .. next' - 1 /\ next' \in 1 .. Len(Fan!Available) + 1
    BY <2>1, <2>3
  <2>6. FanTypes'
    BY <2>1, <2>2, <2>4, <2>5 DEF FanInv, FanTypes, Fan!All, Fan!Providers, Fan!Types
  <2>7. FanCounts'
    BY <2>1, <2>2 DEF FanInv, FanCounts, Fan!Types, Fan!All, Fan!Providers
  <2>8. \A i \in Fan!All : i >= next' \/ i \in working' => answered'[i] = 0
    BY <2>1, <2>3 DEF FanInv
  <2>9. \A i \in 1 .. next' - 1 : i \notin working' => results'[i] = answered'[i]
    BY <2>1, <2>3 DEF FanInv
  <2> QED
    BY <2>1, <2>6, <2>7, <2>8, <2>9 DEF FanInv, Fan!All, Fan!Providers
<1>4. CASE Fan!Collect
  <2>1. /\ step = "list" /\ step' = "done" /\ next > Len(Fan!Available) /\ working = {}
        /\ headers' = Fan!InSlots
        /\ UNCHANGED <<probes, next, working, answered, results, lateCalls, enumerated>>
    BY <1>4 DEF Fan!Collect
  <2>2. Fan!Available' = Fan!Available /\ \A t : Counted(t)' = Counted(t)
    BY <2>1, CountedKept
  <2>3. Fan!InSlots' = Fan!InSlots
    BY <2>1, <2>2 DEF Fan!InSlots, Fan!FlattenSeq
  <2>4. FanTypes'
    BY <2>1, <2>2 DEF FanInv, FanTypes, Fan!All, Fan!Providers, Fan!Types
  <2>5. FanCounts'
    BY <2>1, <2>2 DEF FanInv, FanCounts, Fan!Types, Fan!All, Fan!Providers
  <2> QED
    BY <2>1, <2>2, <2>3, <2>4, <2>5 DEF FanInv, Fan!All, Fan!Providers
<1>5. ASSUME NEW i \in Fan!All,
             \/ Fan!ListFails(i) \/ Fan!ListExpires(i)
             \/ \E n \in 0 .. MaxHeaders : Fan!ListAnswers(i, n)
      PROVE  FanInv'
  <2>1. /\ i \in working /\ working' = working \ {i}
        /\ UNCHANGED <<step, probes, next, headers>>
    BY <1>5 DEF Fan!ListFails, Fan!ListExpires, Fan!ListAnswers
  <2>2. step # "done" /\ step # "probe"
    BY <2>1 DEF FanInv, FanTypes
  <2>3. lateCalls' \subseteq {"probe", "list"} \X Fan!All
    BY <1>0, <1>5 DEF Fan!ListFails, Fan!ListExpires, Fan!ListAnswers
  <2>4. CASE Fan!ListFails(i) \/ Fan!ListExpires(i)
    <3>1. results' = [results EXCEPT ![i] = 0] /\ UNCHANGED <<answered, enumerated>>
      BY <2>4 DEF Fan!ListFails, Fan!ListExpires
    <3> QED
      BY <2>1, <2>2, <2>3, <3>1, FanFails
  <2>5. ASSUME NEW n \in 0 .. MaxHeaders, Fan!ListAnswers(i, n)
        PROVE  FanInv'
    <3>1. /\ results' = [results EXCEPT ![i] = n] /\ answered' = [answered EXCEPT ![i] = n]
          /\ enumerated' = [enumerated EXCEPT ![Fan!TypeAt(i)] = @ + n]
          /\ n \in Nat
      BY <2>5 DEF Fan!ListAnswers
    <3> QED
      BY <2>1, <2>2, <2>3, <3>1, FanSettles
  <2> QED
    BY <1>5, <2>4, <2>5
<1>6. ASSUME \/ UNCHANGED Fan!fanoutVars
             \/ \E call \in lateCalls, n \in 0 .. MaxHeaders : Fan!LateAnswer(call, n)
      PROVE  FanInv'
  <2>1. /\ UNCHANGED <<step, probes, next, working, answered, results, enumerated, headers>>
        /\ lateCalls' \subseteq lateCalls
    BY <1>6 DEF Fan!fanoutVars, Fan!LateAnswer
  <2>2. Fan!Available' = Fan!Available /\ \A t : Counted(t)' = Counted(t)
    BY <2>1, CountedKept
  <2>3. Fan!InSlots' = Fan!InSlots
    BY <2>1, <2>2 DEF Fan!InSlots, Fan!FlattenSeq
  <2>4. FanTypes'
    <3>1. lateCalls' \subseteq {"probe", "list"} \X Fan!All
      BY <1>0, <2>1
    <3> QED
      BY <2>1, <2>2, <3>1 DEF FanInv, FanTypes, Fan!All, Fan!Providers, Fan!Types
  <2>5. FanCounts'
    BY <2>1, <2>2 DEF FanInv, FanCounts, Fan!Types, Fan!All, Fan!Providers
  <2> QED
    BY <2>1, <2>2, <2>3, <2>4, <2>5 DEF FanInv, Fan!All, Fan!Providers
<1> QED
  BY <1>1, <1>2, <1>3, <1>4, <1>5, <1>6 DEF Fan!Next, Fan!Work

LEMMA FanMeans ==
  ASSUME FanInv
  PROVE  Fan!HeadersAreInOrder /\ Fan!TypeOK
<1>0. /\ FanTypes /\ Fan!All = 1 .. Len(Fan!Providers) /\ Len(Fan!Providers) \in Nat
      /\ Len(Fan!Available) \in 0 .. Len(Fan!Providers)
      /\ DOMAIN Fan!Available = 1 .. Len(Fan!Available)
      /\ \A i \in DOMAIN Fan!Available : Fan!Available[i] \in Fan!All
  BY AvailableFacts, ProvidersFacts DEF FanInv
<1>1. Fan!TypeOK
  <2>1. next \in 1 .. Len(Fan!Providers) + 1
    BY <1>0 DEF FanTypes
  <2>2. Fan!Cardinality(working) <= HeaderWidth
    BY <1>0, FanCardinality DEF FanTypes
  <2>3. /\ \A i \in Fan!All :
             probes[i] \in {"pending", "available", "skipped:iam", "skipped:error"}
        /\ \A t \in Fan!Types : enumerated[t] \in Nat
    BY <1>0 DEF FanTypes
  <2> QED
    BY <1>0, <2>1, <2>2, <2>3 DEF FanTypes, Fan!TypeOK
<1>2. ASSUME step = "done"
      PROVE  Fan!HeadersAreInOrder
  <2>1. headers = Fan!InSlots /\ \A i \in DOMAIN Fan!Available : results[i] = answered[i]
    BY <1>0, <1>2 DEF FanInv, FanTypes
  <2>2. /\ \A i \in DOMAIN Fan!Available : answered[i] \in Nat /\ results[i] \in Nat
    BY <1>0, <2>1 DEF FanTypes
  <2>3. /\ headers \in Seq(Fan!All \X Nat) /\ Ordered(headers)
        /\ Holds(headers, Len(Fan!Available))
    BY <2>1, <2>2, InSlotsFacts
  <2>4. \A h : h \in Range(headers) <=>
               \E i \in DOMAIN Fan!Available : h \in { <<Fan!Available[i], k>> : k \in 1 .. answered[i] }
    BY <1>0, <2>1, <2>3 DEF Holds, Heads
  <2>5. { headers[a] : a \in DOMAIN headers } =
          UNION { { <<Fan!Available[i], k>> : k \in 1 .. answered[i] } : i \in DOMAIN Fan!Available }
    BY <2>4 DEF Range
  <2>6. ASSUME NEW t \in Fan!Types
        PROVE  enumerated[t] =
                 Cardinality({ a \in DOMAIN headers : Fan!Providers[headers[a][1]].type = t })
    <3> DEFINE A == { a \in DOMAIN headers : Fan!Providers[headers[a][1]].type = t }
               f == [a \in A |-> headers[a]]
    <3>1. /\ DOMAIN headers = 1 .. Len(headers) /\ Len(headers) \in Nat
          /\ \A a \in DOMAIN headers : headers[a] \in Fan!All \X Nat
      BY <2>3, LenProperties, ElementOfSeq
    <3>2. \A h \in Fan!All \X Nat :
            h \in Counted(t) <=> h \in Range(headers) /\ Fan!Providers[h[1]].type = t
      <4>1. \A h \in Fan!All \X Nat :
              (\E i \in DOMAIN Fan!Available : h \in { <<Fan!Available[i], k>> : k \in 1 .. answered[i] })
              <=> \E i \in DOMAIN Fan!Available : h[1] = Fan!Available[i] /\ h[2] \in 1 .. answered[i]
        OBVIOUS
      <4> QED
        BY <2>4, <4>1 DEF Counted
    <3>3. Counted(t) \subseteq Fan!All \X Nat
      BY DEF Counted
    <3>4. \A a, b \in DOMAIN headers : headers[a] = headers[b] => a = b
      <4> SUFFICES ASSUME NEW a \in DOMAIN headers, NEW b \in DOMAIN headers, a < b
                   PROVE  headers[a] # headers[b]
        BY <3>1
      <4>1. /\ headers[a][1] \in Nat /\ headers[a][2] \in Nat
            /\ headers[b][1] \in Nat /\ headers[b][2] \in Nat
        BY <1>0, <3>1
      <4> QED
        BY <2>3, <4>1, SMTT(30) DEF Ordered
    <3>5. f \in Bijection(A, Counted(t))
      <4>1. \A a \in A : f[a] \in Counted(t)
        BY <3>1, <3>2 DEF Range
      <4>2. \A h \in Counted(t) : \E a \in A : f[a] = h
        BY <3>1, <3>2, <3>3 DEF Range
      <4>3. \A a, b \in A : f[a] = f[b] => a = b
        BY <3>4
      <4>4. DOMAIN f = A
        OBVIOUS
      <4>5. f \in [A -> Counted(t)]
        BY <4>1
      <4> HIDE DEF f, A
      <4> QED
        BY <4>1, <4>2, <4>3, <4>4, <4>5 DEF Bijection, Injection, IsInjective, Surjection
    <3>6. IsFiniteSet(A)
      <4>1. IsFiniteSet(1 .. Len(headers))
        BY <3>1, FS_Interval
      <4>2. A \in SUBSET (1 .. Len(headers))
        BY <3>1
      <4> HIDE DEF A
      <4> QED
        BY <4>1, <4>2, FS_Subset
    <3> HIDE DEF A, f
    <3>7. Cardinality(Counted(t)) = Cardinality(A)
      BY <3>5, <3>6, FS_Bijection DEF ExistsBijection
    <3>8. enumerated[t] = Cardinality(A)
      BY <3>7 DEF FanInv, FanCounts
    <3> QED
      BY <3>8 DEF A
  <2> QED
    BY <2>3, <2>5, <2>6, FanCardinality DEF Ordered, Fan!HeadersAreInOrder
<1> QED
  BY <1>1, <1>2 DEF Fan!HeadersAreInOrder

LEMMA FanHolds == ReadsSpec => [](part = "fan" => FanInv)
<1> DEFINE Inv == part = "fan" => FanInv
<1>1. ReadsInit => Inv
  BY PartsStart, FanStarts
<1>2. Inv /\ [ReadsNext]_all => Inv'
  <2> SUFFICES ASSUME Inv, [ReadsNext]_all, part' = "fan"
               PROVE  FanInv'
    OBVIOUS
  <2> QED
    BY PartsStep, FanStays
<1> QED
  BY <1>1, <1>2, PTL DEF ReadsSpec

\* However the calls of the providers settle, their headers are collected in the
\* order of the providers, each counted once and none that came late:
\* probeProviders and collectCandidateHeaders of src/runtime.ts.
THEOREM HeadersStayInOrder == ReadsSpec => []HeadersAreInOrder
<1>1. (part = "fan" => FanInv) => HeadersAreInOrder
  BY FanMeans DEF HeadersAreInOrder
<1> QED
  BY <1>1, FanHolds, PTL

-----------------------------------------------------------------------------
(* All parts.                                                              *)

\* What reads but resolves no closure leaves the variables of the closure as
\* they are, so that the theorems about NativeClosure hold of ReadsSpec.
LEMMA ClosureSteps == ReadsSpec => Spec
<1>1. ReadsInit => Init
  BY DEF ReadsInit, ClosureInit, NoClosure, AccessInit, FanInit, GraphInit, RosterInit,
         ApimInit, CenterInit, MintingInit, PollingInit, SiteInit, LogicInit
<1>2. [ReadsNext]_all => [Next]_vars
  BY DEF ReadsNext, all, ClosureStep, AccessStep, FanStep, GraphStep, RosterStep, ApimStep,
         CenterStep, MintingStep, PollingStep, SiteStep, LogicStep
<1> QED
  BY <1>1, <1>2, PTL DEF ReadsSpec, Spec

LEMMA AccessTyped == ScopesInv => Access!TypeOK
<1> SUFFICES ASSUME ScopesInv PROVE Access!TypeOK
  OBVIOUS
<1>1. \A i \in DOMAIN chosen : chosen[i] \in SubscriptionIds
  <2>1. chosen \in Seq(SubscriptionIds)
    BY DEF ScopesInv
  <2> QED
    BY <2>1
<1> QED
  BY <1>1 DEF ScopesInv, Access!TypeOK

LEMMA ListingTyped == ListingInv => Apim!TypeOK
BY DEF ListingInv, Apim!TypeOK, GrpcListed

LEMMA InventoryTyped == InventoryInv => Center!TypeOK
<1> SUFFICES ASSUME InventoryInv PROVE Center!TypeOK
  OBVIOUS
<1>1. \A i \in DOMAIN todo : todo[i] \in 1 .. Center!Definition
  <2>1. todo \in Seq(1 .. Center!Definition)
    BY DEF InventoryInv
  <2> HIDE DEF Center!Definition
  <2> QED
    BY <2>1, ElementOfSeq, LenProperties
<1> QED
  BY <1>1 DEF InventoryInv, Center!TypeOK

\* Every part keeps its variables in their types, and gives an outcome at the
\* end and only there.
THEOREM ReadsTyped == ReadsSpec => []Typed
<1> DEFINE Inv == /\ TypeOK /\ ExportsInv
                  /\ part = "access" => ScopesInv
                  /\ part = "center" => InventoryInv
                  /\ part = "apim" => ListingInv /\ SchemasInv
                  /\ part = "roster" => EstateInv
                  /\ part = "graph" => GraphInv
                  /\ part = "fan" => FanInv
<1>1. ReadsSpec => []Inv
  BY ClosureSteps, TypeCorrect, ExportsHold, AccessHolds, CenterHolds, ListingHolds,
     EstateHolds, GraphHolds, FanHolds, PTL
<1>2. Inv => Typed
  BY AccessTyped, ListingTyped, InventoryTyped, MintingMeans, PollingMeans, SiteMeans,
     LogicMeans, EstateMeans, GraphMeans, FanMeans DEF Typed, ExportsInv
<1> QED
  BY <1>1, <1>2, PTL
================================================================================
