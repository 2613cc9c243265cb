-------------------------------- MODULE Scopes --------------------------------
(***************************************************************************)
(* resolveSubscriptionIds of src/runtime.ts with the get and list calls of *)
(* SubscriptionsSdkClient: the subscriptions a run works on.  Explicit ids *)
(* are verified one after the other, by a direct lookup or, when that is   *)
(* denied, by the listing; without any, the only enabled subscription is   *)
(* taken.                                                                  *)
(***************************************************************************)
EXTENDS Integers, Sequences, FiniteSets

CONSTANT Subscriptions

VARIABLES
  access,    \* what the credential sees: listed, of these enabled; readable by id
  step,      \* "verify", "list", "done"
  asked,     \* the ids given, sorted
  explicit,  \* those still to verify, in order
  chosen,    \* ids verified
  outcome    \* "pending", "ok", or why it threw

scopesVars == <<access, step, asked, explicit, chosen, outcome>>

Init ==
  /\ access \in { a \in [listed : SUBSET Subscriptions, enabled : SUBSET Subscriptions,
                         readable : SUBSET Subscriptions] : a.enabled \subseteq a.listed }
  /\ asked \in { s \in [1 .. 2 -> Subscriptions] : s[1] # s[2] }
               \cup [1 .. 1 -> Subscriptions] \cup {<<>>}
  /\ explicit = asked
  /\ step = IF asked = <<>> THEN "list" ELSE "verify"
  /\ chosen = <<>>
  /\ outcome = "pending"

Throw(why) ==
  /\ step' = "done"
  /\ outcome' = why
  /\ UNCHANGED <<access, asked, explicit, chosen>>

\* One more id is verified; the run goes on with the next, or has them all.
Accept(id, rest) ==
  /\ chosen' = Append(chosen, id)
  /\ explicit' = rest
  /\ step' = IF rest = <<>> THEN "done" ELSE "verify"
  /\ outcome' = IF rest = <<>> THEN "ok" ELSE "pending"
  /\ UNCHANGED <<access, asked>>

LookedUp ==
  /\ step = "verify"
  /\ Head(explicit) \in access.readable
  /\ Accept(Head(explicit), Tail(explicit))

\* 401 or 403: the listing has to show the id.
Denied ==
  /\ step = "verify"
  /\ step' = "list"
  /\ UNCHANGED <<access, asked, explicit, chosen, outcome>>

LookupFails == step = "verify" /\ Throw("lookup")

\* Mutant of Listed: a denied id is taken when the listing can be read.
ListedUnseen ==
  /\ step = "list"
  /\ explicit # <<>>
  /\ Accept(Head(explicit), Tail(explicit))

Listed ==
  /\ step = "list"
  /\ explicit # <<>>
  /\ IF Head(explicit) \in access.listed
     THEN Accept(Head(explicit), Tail(explicit))
     ELSE Throw("invisible")

\* Nothing explicit: exactly one enabled subscription.
TakeOnly ==
  /\ step = "list"
  /\ explicit = <<>>
  /\ \/ /\ Cardinality(access.enabled) = 1
        /\ \E id \in access.enabled : Accept(id, <<>>)
     \/ Cardinality(access.enabled) # 1 /\ Throw("ambiguous")

ListingFails == step = "list" /\ Throw("listing")

Next ==
  \/ LookedUp \/ Denied \/ LookupFails
  \/ Listed \/ TakeOnly \/ ListingFails

Spec == Init /\ [][Next]_scopesVars

-----------------------------------------------------------------------------
TypeOK ==
  /\ step \in {"verify", "list", "done"}
  /\ \A i \in DOMAIN chosen : chosen[i] \in Subscriptions
  /\ outcome \in {"pending", "ok", "lookup", "listing", "invisible", "ambiguous"}
  /\ outcome # "pending" <=> step = "done"

Elements(s) == { s[i] : i \in DOMAIN s }

\* The ids a run goes on with are those it was given, in that order and all of
\* them, each readable by id or listed; a run that was given none has the only
\* enabled one.  No other subscription is ever used.
ScopesVerified ==
  outcome = "ok" =>
    IF asked = <<>>
    THEN Len(chosen) = 1 /\ Elements(chosen) = access.enabled
    ELSE chosen = asked /\ Elements(chosen) \subseteq access.readable \cup access.listed
=============================================================================
