--------------------------- MODULE LiveValidation ---------------------------
(***************************************************************************)
(* validation/scripts/validate-live-azure-surfaces.mjs: a run provisions a *)
(* stack of Azure resources, validates the action against it and takes it  *)
(* down again.  Runs follow each other and may be killed; Azure goes on    *)
(* with what they started.  A stack is the set of names made from one      *)
(* suffix, in the shared resource group or in a group of its own; a run    *)
(* recognises what it owns by a tag, its marker.                           *)
(***************************************************************************)
EXTENDS Integers, Sequences, FiniteSets, Filters

CONSTANTS
  Options,      \* the sets of options runs are started with
  Stacks,       \* the suffixes
  Homes,        \* which of them may live in a group of their own, or not
  Persistent,   \* the suffix of the stack that is kept alive
  MarkerOf,     \* the marker a run gives a stack unless it resumes one
  Core, Ext,    \* the kinds of resources the two deployments make
  Lanes,        \* the kinds the optional provision units make one by one
  Connectors,   \* those that one request makes
  Nested,       \* kinds without a tag, each below a tagged one
  Parent,
  Optional,     \* provision units that make nothing with a tag
  FatalUnits,   \* provision units whose failure ends the run
  CleanupOrder, \* CLEANUP_RESOURCE_ORDER
  None,         \* nothing there
  Foreign,      \* the tag of what belongs to somebody else
  Untagged,
  Taken,        \* names in the shared group that somebody else may bear
  MaxRuns, MaxPolls, MaxFaults  \* bounds of the model

Kinds == Core \cup Ext \cup Lanes \cup Nested
Deployments == {"core", "ext"}
Makes(d) == IF d = "core" THEN Core ELSE Ext
Markers == {MarkerOf[s] : s \in Stacks}
Groups == {"shared"} \cup Stacks
Places == {p \in [group : Groups, stack : Stacks] : p.group \in {"shared", p.stack}}
Manifests == [place : Places, marker : Markers]

\* --keep-alive and --teardown exclude each other; nobody else puts anything
\* into a group a run made for itself.
ASSUME ConstantsAssumption ==
  /\ \A f \in Options : ~ ({"keep", "teardown"} \subseteq f)
  /\ "shared" \notin Stacks
  /\ {None, Foreign, Untagged, "over"} \cap Markers = {}
  /\ None \notin Manifests \cup {Foreign, Untagged} /\ Foreign # Untagged
  /\ Connectors \subseteq Lanes
  /\ \A t \in Taken : t[1] \in Places /\ t[1].group = "shared" /\ t[2] \in Kinds
  /\ CleanupOrder \in Seq(Kinds)
  /\ MaxRuns \in Nat /\ MaxPolls \in Nat /\ MaxFaults \in Nat

VARIABLES
  tag,          \* the tag of each kind of resource in each place
  leaving,      \* resources being deleted
  groupTag,     \* the tag of each resource group
  dep,          \* deployments: None, "over" or the marker they run for
  saved,        \* live-resource-manifest.local.json
  flags, owns,  \* the options of the run, and whether no group is shared
  man,          \* its manifest
  pc, provisioned,
  unit,         \* the parallel provision units
  failed,       \* validationFailure
  dirty,        \* cleanupErrors, cleanupFailure
  todo, polls,
  last, runs,   \* how the last run ended; the runs so far
  faults        \* failures of az so far

azure == <<tag, leaving, groupTag, dep>>
self == <<flags, owns>>
count == <<runs, faults>>
vars == <<azure, saved, self, man, pc, provisioned, unit, failed, dirty, todo,
          polls, last, count>>

AllUnits == Lanes \cup Optional \cup FatalUnits
Units(state) == [u \in AllUnits |-> state]

Init ==
  /\ \E taken \in SUBSET Taken :
       tag = [p \in Places |-> [k \in Kinds |->
                IF <<p, k>> \in taken THEN Foreign ELSE None]]
  /\ leaving = {}
  /\ groupTag = [g \in Groups |-> IF g = "shared" THEN Foreign ELSE None]
  /\ dep = [p \in Places |-> [d \in Deployments |-> None]]
  /\ saved = None
  /\ flags = {} /\ owns = TRUE /\ man = None
  /\ pc = "idle" /\ provisioned = FALSE /\ unit = Units("off")
  /\ failed = FALSE /\ dirty = FALSE /\ todo = <<>> /\ polls = 0
  /\ last = "none" /\ runs = 0 /\ faults = 0

here == man.place
mine == man.marker

\* A call to az succeeds, or fails within the bound of the model.
Calm == UNCHANGED count
Fault == faults < MaxFaults /\ faults' = faults + 1 /\ UNCHANGED runs

\* runLiveValidation up to the names of the manifest.  Without a resumed suffix
\* a run takes a fresh one or, with --keep-alive, the persistent one.
Start(f, own, resume) ==
  /\ pc = "idle" /\ runs < MaxRuns
  \* What is resumed is an earlier run; it is provisioned again as it was.
  /\ resume # None => runs > 0
  /\ "provision" \in f /\ resume # None => resume.marker = MarkerOf[resume.stack]
  /\ \E s \in Stacks :
       /\ <<s, own>> \in Homes
       /\ \/ resume # None /\ s = resume.stack
          \/ resume = None /\ "keep" \in f /\ s = Persistent
          \/ /\ resume = None /\ "keep" \notin f /\ s # Persistent
             /\ groupTag[s] = None
             /\ \A p \in Places : p.stack = s => \A k \in Kinds : tag[p][k] \in {None, Foreign}
       /\ man' = [place |-> [group |-> IF own THEN s ELSE "shared", stack |-> s],
                  marker |-> IF resume # None THEN resume.marker ELSE MarkerOf[s]]
  /\ flags' = f /\ owns' = own
  /\ provisioned' = (resume # None \/ "recover" \in f)
  /\ pc' = IF "provision" \in f THEN "group"
           ELSE IF "recover" \in f THEN "load" ELSE "cases"
  /\ unit' = Units("off") /\ failed' = FALSE /\ dirty' = FALSE
  /\ last' = "none" /\ runs' = runs + 1
  /\ UNCHANGED <<azure, saved, todo, polls, faults>>

Throw == failed' = TRUE /\ pc' = "finally"
NoThrow == UNCHANGED failed

\* group create, which also sets the tag of a group that exists, or the check
\* of the shared group.
MakeGroup ==
  /\ pc = "group"
  /\ \/ Calm /\ NoThrow /\ provisioned' = TRUE /\ pc' = "save"
     \/ Fault /\ Throw /\ UNCHANGED provisioned
  /\ groupTag' = IF owns /\ pc' = "save"
                 THEN [groupTag EXCEPT ![here.group] = mine] ELSE groupTag
  /\ UNCHANGED <<tag, leaving, dep, saved, self, man, unit, dirty, todo, polls, last>>

\* Mutant of SaveManifest: the manifest is saved once all is provisioned.
SaveManifestLater ==
  /\ pc = "save" /\ pc' = "deployCore"
  /\ UNCHANGED <<azure, saved, self, man, provisioned, unit, failed, dirty, todo,
                 polls, last, count>>

SaveManifest ==
  /\ pc = "save" /\ pc' = "deployCore"
  /\ saved' = man
  /\ UNCHANGED <<azure, self, man, provisioned, unit, failed, dirty, todo, polls,
                 last, count>>

\* --keep-alive looks for the stack before it deploys it again.
Current(d) ==
  "keep" \in flags /\ IF d = "core" THEN \E k \in Core : tag[here][k] = mine
                      ELSE \A k \in Ext \ Nested : tag[here][k] = mine

Running(d) == dep[here][d] \in Markers
Active == {d \in Deployments : Running(d)}

\* A deployment of that name which still runs is not replaced.
Submit(d, await) ==
  /\ ~ Current(d) /\ ~ Running(d)
  /\ pc' = await /\ dep' = [dep EXCEPT ![here][d] = mine]

DeployCore ==
  /\ pc = "deployCore"
  /\ \/ Submit("core", "awaitCore") /\ NoThrow
     \/ Current("core") /\ pc' = "units" /\ NoThrow /\ UNCHANGED dep
     \/ ~ Current("core") /\ Running("core") /\ Throw /\ UNCHANGED dep
  /\ unit' = Units(IF pc' = "units" THEN "run" ELSE "off")
  /\ UNCHANGED <<tag, leaving, groupTag, saved, self, man, provisioned, dirty, todo,
                 polls, last, count>>

Made(d) == dep[here][d] = "over" /\ \A k \in Makes(d) : tag[here][k] # None
Broken(d) == dep[here][d] = "over" /\ ~ Made(d)

\* az waits for the deployment; if only the client fails, Azure goes on.
AwaitCore ==
  /\ pc = "awaitCore"
  /\ \/ Made("core") /\ Calm /\ NoThrow /\ pc' = "units" /\ unit' = Units("run")
     \/ /\ (Broken("core") /\ Calm) \/ Fault
        /\ Throw /\ UNCHANGED unit
  /\ UNCHANGED <<azure, saved, self, man, provisioned, dirty, todo, polls, last>>

Going(u, state) == pc # "idle" /\ unit[u] = state
Settle(u) == unit' = [unit EXCEPT ![u] = "settled"]

\* A resource is created under the marker, whoever owns what bears that name.
Put(k) ==
  /\ groupTag[here.group] # None
  /\ tag' = [tag EXCEPT ![here][k] = mine]
  /\ leaving' = leaving \ {<<here, k>>}
  /\ unit' = [unit EXCEPT ![k] = "made"]

\* provisionCustomConnectorBounded: one request, unless it is there already.
Connector(k) ==
  /\ k \in Connectors /\ Going(k, "run")
  /\ \/ tag[here][k] = mine /\ Settle(k) /\ UNCHANGED <<tag, leaving>>
     \/ tag[here][k] # mine /\ Put(k)
  /\ UNCHANGED <<groupTag, dep, saved, self, man, pc, provisioned, failed, dirty, todo,
                 polls, last, count>>

\* provisionApiCenter, provisionServiceBusIfGuarded: a service or a namespace
\* first, what belongs below it after that.
Namespace(k) ==
  /\ k \in Lanes \ Connectors /\ Going(k, "run")
  /\ Put(k)
  /\ UNCHANGED <<groupTag, dep, saved, self, man, pc, provisioned, failed, dirty, todo,
                 polls, last, count>>

Below(k) ==
  /\ Going(k, "made") /\ Settle(k)
  /\ tag' = IF tag[here][k] # mine THEN tag
            ELSE [tag EXCEPT ![here] = [n \in Kinds |->
                    IF n \in Nested /\ Parent[n] = k THEN Untagged ELSE tag[here][n]]]
  /\ UNCHANGED <<leaving, groupTag, dep, saved, self, man, pc, provisioned, failed,
                 dirty, todo, polls, last, count>>

\* A lane that fails at any point, its preflight included, costs a capability;
\* it never rejects.
LaneGivesUp(k) ==
  /\ k \in Lanes /\ (Going(k, "run") \/ Going(k, "made"))
  /\ Fault /\ Settle(k)
  /\ UNCHANGED <<azure, saved, self, man, pc, provisioned, failed, dirty, todo, polls,
                 last>>

\* provisionOptionalApimApis: each API stands for itself, below the APIM service.
OptionalApis(u) ==
  /\ u \in Optional /\ Going(u, "run") /\ Settle(u)
  /\ UNCHANGED <<azure, saved, self, man, pc, provisioned, failed, dirty, todo, polls,
                 last, count>>

\* The stub deployment and the wait for an export that works.
FatalEnds(u) ==
  /\ u \in FatalUnits /\ Going(u, "run")
  /\ \/ Calm /\ Settle(u)
     \/ Fault /\ unit' = [unit EXCEPT ![u] = "rejected"]
  /\ UNCHANGED <<azure, saved, self, man, pc, provisioned, failed, dirty, todo, polls,
                 last>>

Rejected == \E u \in FatalUnits : unit[u] = "rejected"

\* Mutant of AllSettled: Promise.all.
AllOrFirstRejected ==
  /\ pc = "units"
  /\ \/ Rejected /\ Throw
     \/ /\ \A u \in DOMAIN unit : unit[u] = "settled"
        /\ pc' = "health" /\ NoThrow
  /\ UNCHANGED <<azure, saved, self, man, provisioned, unit, dirty, todo, polls, last,
                 count>>

\* Promise.allSettled: all units are waited for, also when one has failed.
AllSettled ==
  /\ pc = "units"
  /\ \A u \in DOMAIN unit : unit[u] \in {"settled", "rejected"}
  /\ IF Rejected THEN Throw ELSE pc' = "health" /\ NoThrow
  /\ UNCHANGED <<azure, saved, self, man, provisioned, unit, dirty, todo, polls, last,
                 count>>

\* The extended stack is deployed if the stub answers; that it cannot be
\* deployed, or not in time, costs capabilities and no more.
DeployExt ==
  /\ pc = "health"
  /\ \/ Calm /\ Submit("ext", "awaitExt")
     \/ Calm /\ (Current("ext") \/ Running("ext")) /\ pc' = "saveAgain" /\ UNCHANGED dep
     \/ Fault /\ pc' = "saveAgain" /\ UNCHANGED dep
  /\ UNCHANGED <<tag, leaving, groupTag, saved, self, man, provisioned, unit, failed,
                 dirty, todo, polls, last>>

AwaitExt ==
  /\ pc = "awaitExt" /\ pc' = "saveAgain"
  /\ (dep[here]["ext"] = "over" /\ Calm) \/ Fault
  /\ UNCHANGED <<azure, saved, self, man, provisioned, unit, failed, dirty, todo,
                 polls, last>>

SaveAgain ==
  /\ pc = "saveAgain" /\ pc' = "cases"
  /\ saved' = man
  /\ UNCHANGED <<azure, self, man, provisioned, unit, failed, dirty, todo, polls, last,
                 count>>

\* --cancel-recover takes the saved manifest for its own, if there is one.
Load ==
  /\ pc = "load" /\ pc' = "cases"
  /\ man' = IF saved # None THEN saved ELSE man
  /\ UNCHANGED <<azure, saved, self, provisioned, unit, failed, dirty, todo, polls,
                 last, count>>

\* The case matrix, which --cancel-recover leaves out, and its verdict.
Cases ==
  /\ pc = "cases"
  /\ pc' = "finally"
  /\ failed' \in {FALSE, "recover" \notin flags}
  /\ UNCHANGED <<azure, saved, self, man, provisioned, unit, dirty, todo, polls, last,
                 count>>

-----------------------------------------------------------------------------
(* Teardown.                                                                  *)
Finally ==
  /\ pc = "finally"
  /\ pc' = IF "teardown" \in flags /\ "keep" \notin flags /\ provisioned
           THEN IF owns THEN "showGroup" ELSE "cancel"
           ELSE "end"
  /\ todo' = <<"ext", "core">> /\ polls' = 0
  /\ UNCHANGED <<azure, saved, self, man, provisioned, unit, failed, dirty, last, count>>

\* teardownSharedGroupResources: deployments that run are told to stop; the ones
\* to wait for stay in todo.
Cancel ==
  /\ pc = "cancel"
  /\ \/ Calm /\ todo' = Filter(todo, Active) /\ UNCHANGED dirty
     \/ /\ Fault /\ dirty' = TRUE
        /\ \E d \in Deployments : todo' = Filter(todo, Active \ {d})
  /\ pc' = "poll"
  /\ UNCHANGED <<azure, saved, self, man, provisioned, unit, failed, polls, last>>

\* They are waited for until they have stopped, or the deadline or an error.
PollCancelled ==
  /\ pc = "poll"
  /\ LET active == Filter(todo, Active)
     IN  \/ /\ active = <<>> \/ polls = MaxPolls
            /\ dirty' = (dirty \/ active # <<>>)
            /\ pc' = "delete" /\ todo' = CleanupOrder /\ polls' = 0 /\ Calm
         \/ /\ active # <<>> /\ polls < MaxPolls
            /\ todo' = active /\ polls' = polls + 1 /\ Calm
            /\ UNCHANGED <<dirty, pc>>
         \/ /\ active # <<>> /\ Fault
            /\ todo' = Tail(active) /\ dirty' = TRUE
            /\ UNCHANGED <<pc, polls>>
  /\ UNCHANGED <<azure, saved, self, man, provisioned, unit, failed, last>>

\* Mutant of Owned: the name is proof enough.
OwnedByName(k) == tag[here][k] # None

\* shouldDeleteResource, for a nested one of its parent.
Owned(k) == tag[here][IF k \in Nested THEN Parent[k] ELSE k] = mine

\* One resource after the other, children first; only what is owned is deleted.
Delete ==
  /\ pc = "delete" /\ todo # <<>>
  /\ LET k == Head(todo)
     IN  \/ /\ Calm /\ UNCHANGED dirty
            /\ leaving' = IF tag[here][k] # None /\ Owned(k)
                          THEN leaving \cup {<<here, k>>} ELSE leaving
         \/ Fault /\ dirty' = TRUE /\ UNCHANGED leaving
  /\ todo' = Tail(todo)
  /\ UNCHANGED <<tag, groupTag, dep, saved, self, man, pc, provisioned, unit, failed,
                 polls, last>>

\* The records of the deployments go; a running one cannot be deleted.
DeleteRecords ==
  /\ pc = "delete" /\ todo = <<>>
  /\ dep' = [dep EXCEPT ![here] = [d \in Deployments |->
               IF Running(d) THEN dep[here][d] ELSE None]]
  /\ \/ Calm /\ dirty' = (dirty \/ \E d \in Deployments : Running(d))
     \/ Fault /\ dirty' = TRUE
  /\ pc' = "await"
  /\ UNCHANGED <<tag, leaving, groupTag, saved, self, man, provisioned, unit, failed,
                 todo, polls, last>>

Marked(ps) == \E p \in ps, k \in Kinds : tag[p][k] = mine
InGroup == {p \in Places : p.group = here.group}

\* Mutant of AwaitGone: the deadline is noticed one poll late.
AwaitGoneLate ==
  /\ pc = "await"
  /\ \/ /\ ~ Marked(InGroup) \/ polls > MaxPolls
        /\ dirty' = (dirty \/ Marked(InGroup))
        /\ pc' = "audit" /\ UNCHANGED polls /\ Calm
     \/ /\ Marked(InGroup) /\ polls <= MaxPolls
        /\ polls' = polls + 1 /\ UNCHANGED <<dirty, pc>> /\ Calm
  /\ UNCHANGED <<azure, saved, self, man, provisioned, unit, failed, todo, last>>

\* Mutant of AwaitGone: there is no deadline.
AwaitGoneForever ==
  /\ pc = "await"
  /\ \/ ~ Marked(InGroup) /\ pc' = "audit" /\ UNCHANGED dirty /\ Calm
     \/ Fault /\ dirty' = TRUE /\ pc' = "end"
  /\ UNCHANGED <<azure, saved, self, man, provisioned, unit, failed, todo, polls, last>>

\* The group is listed until nothing in it bears the marker, or the deadline.
\* The call is not guarded: its error ends the teardown.
AwaitGone ==
  /\ pc = "await"
  /\ \/ /\ ~ Marked(InGroup) \/ polls = MaxPolls
        /\ dirty' = (dirty \/ Marked(InGroup))
        /\ pc' = "audit" /\ UNCHANGED polls /\ Calm
     \/ /\ Marked(InGroup) /\ polls < MaxPolls
        /\ polls' = polls + 1 /\ UNCHANGED <<dirty, pc>> /\ Calm
     \/ Fault /\ dirty' = TRUE /\ pc' = "end" /\ UNCHANGED polls
  /\ UNCHANGED <<azure, saved, self, man, provisioned, unit, failed, todo, last>>

\* residualResourceGraphAudit: an index that may be behind.  An audit that fails
\* is passed over.
Audit ==
  /\ pc = "audit"
  /\ dirty' \in {dirty, TRUE}
  /\ pc' = "end"
  /\ UNCHANGED <<azure, saved, self, man, provisioned, unit, failed, todo, polls, last,
                 count>>

\* teardownDedicatedResourceGroup and shouldDeleteGroup.
ShowGroup ==
  /\ pc = "showGroup"
  /\ \/ /\ groupTag[here.group] = None /\ pc' = "audit" /\ UNCHANGED dirty /\ Calm
     \/ /\ groupTag[here.group] = mine /\ pc' = "deleteGroup" /\ UNCHANGED dirty /\ Calm
     \/ /\ (groupTag[here.group] \notin {None, mine} /\ Calm) \/ Fault
        /\ pc' = "end" /\ dirty' = TRUE
  /\ UNCHANGED <<azure, saved, self, man, provisioned, unit, failed, todo, polls, last>>

\* group delete returns when the group is gone, with all that was in it.  If the
\* call fails the group may be gone or not.
DeleteGroup ==
  /\ pc = "deleteGroup"
  /\ \/ Calm /\ pc' = "pollGroup" /\ UNCHANGED dirty
     \/ Fault /\ pc' = "end" /\ dirty' = TRUE
  /\ \/ /\ groupTag' = [groupTag EXCEPT ![here.group] = None]
        /\ tag' = [p \in Places |-> IF p.group = here.group
                                    THEN [k \in Kinds |-> None] ELSE tag[p]]
        /\ dep' = [p \in Places |-> IF p.group = here.group
                                    THEN [d \in Deployments |-> None] ELSE dep[p]]
        /\ leaving' = {l \in leaving : l[1].group # here.group}
     \/ pc' = "end" /\ UNCHANGED azure
  /\ UNCHANGED <<saved, self, man, provisioned, unit, failed, todo, polls, last>>

\* The absence is confirmed; ARM may still show the group for a while.
PollGroup ==
  /\ pc = "pollGroup"
  /\ \/ Calm /\ pc' = "audit" /\ UNCHANGED <<polls, dirty>>
     \/ Calm /\ polls < MaxPolls /\ polls' = polls + 1 /\ UNCHANGED <<pc, dirty>>
     \/ /\ (polls = MaxPolls /\ Calm) \/ Fault
        /\ pc' = "end" /\ dirty' = TRUE /\ UNCHANGED polls
  /\ UNCHANGED <<azure, saved, self, man, provisioned, unit, failed, todo, last>>

\* What the process has in memory goes with it.
Forget ==
  /\ unit' = Units("off") /\ failed' = FALSE /\ dirty' = FALSE
  /\ todo' = <<>> /\ polls' = 0

\* The evidence is published, and a failed cleanup outranks a failed validation.
End ==
  /\ pc = "end" /\ pc' = "idle"
  /\ last' = IF dirty THEN "dirty" ELSE IF failed THEN "failed" ELSE "ok"
  /\ Forget
  /\ UNCHANGED <<azure, saved, self, man, provisioned, count>>

\* The process is killed, or the pipeline cancelled.
Kill ==
  /\ pc # "idle" /\ pc' = "idle"
  /\ Fault /\ last' = "killed"
  /\ Forget /\ man' = None /\ flags' = {} /\ owns' = TRUE
  /\ provisioned' = FALSE
  /\ UNCHANGED <<azure, saved>>

-----------------------------------------------------------------------------
(* Azure: external.                                                           *)
\* A running deployment makes its resources, a nested one below its parent.
DeploymentMakes(p, d, k) ==
  /\ dep[p][d] \in Markers /\ groupTag[p.group] # None
  /\ k \in Makes(d) /\ (k \in Nested => tag[p][Parent[k]] # None)
  /\ LET t == IF k \in Nested THEN Untagged ELSE dep[p][d]
     IN  tag[p][k] # t /\ tag' = [tag EXCEPT ![p][k] = t]
  /\ leaving' = leaving \ {<<p, k>>}
  /\ UNCHANGED <<groupTag, dep, saved, self, man, pc, provisioned, unit, failed, dirty,
                 todo, polls, last, count>>

\* It ends when all is made, when it was cancelled or when it fails.
DeploymentEnds(p, d) ==
  /\ dep[p][d] \in Markers
  /\ dep' = [dep EXCEPT ![p][d] = "over"]
  /\ UNCHANGED <<tag, leaving, groupTag, saved, self, man, pc, provisioned, unit,
                 failed, dirty, todo, polls, last, count>>

\* A deletion is carried out, with what lies below.
Vanishes(p, k) ==
  /\ <<p, k>> \in leaving
  /\ tag' = [tag EXCEPT ![p] = [n \in Kinds |->
               IF n = k \/ (n \in Nested /\ Parent[n] = k) THEN None ELSE tag[p][n]]]
  /\ leaving' = {l \in leaving : tag'[l[1]][l[2]] # None}
  /\ UNCHANGED <<groupTag, dep, saved, self, man, pc, provisioned, unit, failed, dirty,
                 todo, polls, last, count>>

Azure ==
  \E p \in Places :
    \/ \E d \in Deployments :
         DeploymentEnds(p, d) \/ \E k \in Kinds : DeploymentMakes(p, d, k)
    \/ \E k \in Kinds : Vanishes(p, k)

Resumes == {None} \cup [stack : Stacks, marker : Markers]

Provision ==
  \/ MakeGroup \/ SaveManifest \/ DeployCore \/ AwaitCore \/ AllSettled
  \/ DeployExt \/ AwaitExt \/ SaveAgain
  \/ \E u \in AllUnits :
       Connector(u) \/ Namespace(u) \/ Below(u) \/ LaneGivesUp(u) \/ OptionalApis(u)
         \/ FatalEnds(u)
Teardown ==
  \/ Finally \/ Cancel \/ PollCancelled \/ Delete \/ DeleteRecords \/ AwaitGone
  \/ Audit \/ ShowGroup \/ DeleteGroup \/ PollGroup
Run == Provision \/ Load \/ Cases \/ Teardown \/ End

Next ==
  \/ \E f \in Options, own \in BOOLEAN, r \in Resumes : Start(f, own, r)
  \/ Run \/ Kill \/ Azure

Spec == Init /\ [][Next]_vars

\* A run goes on while it is not killed, and Azure ends a deployment; what it
\* has been told to delete it may keep for ever.
Fairness ==
  WF_vars(Run) /\ WF_vars(\E p \in Places, d \in Deployments : DeploymentEnds(p, d))
FairSpec == Spec /\ Fairness
-----------------------------------------------------------------------------
Steps == {"idle", "group", "save", "deployCore", "awaitCore", "units", "health",
          "awaitExt", "saveAgain", "load", "cases", "finally", "cancel", "poll",
          "delete", "await", "audit", "showGroup", "deleteGroup", "pollGroup", "end"}

TypeOK ==
  /\ tag \in [Places -> [Kinds -> Markers \cup {None, Untagged, Foreign}]]
  /\ leaving \in SUBSET (Places \X Kinds)
  /\ groupTag \in [Groups -> Markers \cup {None, Foreign}]
  /\ dep \in [Places -> [Deployments -> Markers \cup {None, "over"}]]
  /\ saved \in Manifests \cup {None}
  /\ flags \in Options \cup {{}} /\ owns \in BOOLEAN
  /\ man \in Manifests \cup {None} /\ (man = None => pc = "idle")
  /\ pc \in Steps /\ provisioned \in BOOLEAN
  /\ unit \in [AllUnits -> {"off", "run", "made", "settled", "rejected"}]
  /\ failed \in BOOLEAN /\ dirty \in BOOLEAN
  /\ todo \in Seq(Deployments \cup Kinds)
  /\ pc = "delete" => todo \in Seq(Kinds)
  /\ polls \in 0..MaxPolls /\ runs \in 0..MaxRuns /\ faults \in 0..MaxFaults
  /\ last \in {"none", "ok", "failed", "dirty", "killed"}

\* "Never delete the shared resource group", and never what another run made:
\* whatever a run deletes bears its marker or lies below what does, in its own
\* place, and a group goes only with the marker on it.
OnlyOwnDeleted ==
  [][ /\ \A l \in leaving' \ leaving :
           LET top == IF l[2] \in Nested THEN Parent[l[2]] ELSE l[2]
           IN  l[1] = here /\ tag[here][top] = mine
      /\ \A g \in Groups : groupTag[g] # None /\ groupTag'[g] = None =>
           /\ groupTag[g] = mine
           /\ \A p \in Places, k \in Kinds :
                p.group = g => tag[p][k] \in {None, Untagged, mine} ]_vars

\* A run that reports a clean teardown has left nothing that bears its marker,
\* and nothing turns up later: no lane and no deployment goes on behind it.
TornDown == pc = "idle" /\ last \in {"ok", "failed"} /\ provisioned
              /\ "teardown" \in flags
CleanMeansGone ==
  TornDown =>
    /\ \A k \in Kinds : tag[here][k] # mine
    /\ \A d \in Deployments : dep[here][d] # mine
    /\ owns => groupTag[here.group] = None

\* A run can find again what it makes within a group: it starts no deployment and
\* its lanes put nothing there before the manifest that names the stack is on disk.
\* (A group of its own it creates first, with its marker; a run killed just then
\* leaves an empty group that no manifest names.)
NothingBeforeManifest ==
  [][ (unit' # unit /\ tag' # tag) \/ (dep' # dep /\ pc \in {"deployCore", "health"})
      => saved = man ]_vars

\* A run ends if az returns and Azure ends its deployments: it waits for a lane, a
\* cancellation or a deletion until a deadline, but az deployment group create for
\* as long as the deployment lasts.
RunEnds == pc # "idle" ~> pc = "idle"
=============================================================================
