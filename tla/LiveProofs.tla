------------------------------ MODULE LiveProofs ------------------------------
(***************************************************************************)
(* What holds of the harness for any stacks, kinds of resources, options,  *)
(* names taken by others, and any number of runs, faults and polls; and of *)
(* its case matrix for any number of workers.                              *)
EXTENDS Live, SequenceFacts

-----------------------------------------------------------------------------
(* The stack: types.                                                        *)

LEMMA HereFacts ==
  ASSUME man \in Manifests
  PROVE  /\ here \in Places /\ mine \in Markers
         /\ here.stack \in Stacks /\ here.group \in Groups
         /\ here.group \in {"shared", here.stack}
  BY DEF Manifests, here, mine, Places

LEMMA PlaceFacts ==
  ASSUME NEW p \in Places
  PROVE  p.stack \in Stacks /\ p.group \in Groups /\ p.group \in {"shared", p.stack}
  BY DEF Places

LEMMA UnitTypes ==
  ASSUME TypeOK, NEW state \in {"off", "run", "made", "settled", "rejected"}
  PROVE  /\ Units(state) \in [AllUnits -> {"off", "run", "made", "settled", "rejected"}]
         /\ \A u \in AllUnits :
              [unit EXCEPT ![u] = state]
                \in [AllUnits -> {"off", "run", "made", "settled", "rejected"}]
  BY DEF TypeOK, Units

LEMMA FilterTypes ==
  ASSUME TypeOK, NEW K
  PROVE  Filter(todo, K) \in Seq(Deployments \cup Kinds)
  BY FilterRange DEF TypeOK

LEMMA LiveTypeInit == Init => TypeOK
<1> SUFFICES ASSUME Init PROVE TypeOK
  OBVIOUS
<1>1. tag \in [Places -> [Kinds -> Markers \cup {None, Untagged, Foreign}]]
  BY DEF Init
<1>2. groupTag \in [Groups -> Markers \cup {None, Foreign}]
  BY DEF Init
<1>3. dep \in [Places -> [Deployments -> Markers \cup {None, "over"}]]
  BY DEF Init
<1>4. unit \in [AllUnits -> {"off", "run", "made", "settled", "rejected"}]
  BY DEF Init, Units
<1>5. todo \in Seq(Deployments \cup Kinds)
  BY DEF Init
<1>6. leaving \in SUBSET (Places \X Kinds) /\ saved = None /\ man = None
  BY DEF Init
<1>7. /\ polls \in 0..MaxPolls /\ runs \in 0..MaxRuns /\ faults \in 0..MaxFaults
  BY ConstantsAssumption DEF Init
<1>8. /\ flags = {} /\ owns \in BOOLEAN /\ pc = "idle" /\ provisioned \in BOOLEAN
      /\ failed \in BOOLEAN /\ dirty \in BOOLEAN /\ last = "none"
  BY DEF Init
<1> QED
  BY <1>1, <1>2, <1>3, <1>4, <1>5, <1>6, <1>7, <1>8 DEF TypeOK, Steps

\* What a step does to the counters.
LEMMA CountTypes ==
  ASSUME TypeOK, Calm \/ Fault
  PROVE  runs' \in 0..MaxRuns /\ faults' \in 0..MaxFaults
  BY ConstantsAssumption DEF TypeOK, Calm, Fault, count

\* What a step does to one resource.
LEMMA TagTypes ==
  ASSUME TypeOK, NEW q \in Places, NEW t \in Markers \cup {None, Untagged, Foreign}
  PROVE  /\ \A k \in Kinds : [tag EXCEPT ![q][k] = t]
                \in [Places -> [Kinds -> Markers \cup {None, Untagged, Foreign}]]
         /\ \A S : [tag EXCEPT ![q] = [n \in Kinds |-> IF n \in S THEN t ELSE tag[q][n]]]
                \in [Places -> [Kinds -> Markers \cup {None, Untagged, Foreign}]]
  BY DEF TypeOK

LEMMA LiveTypeStep == TypeOK /\ [Next]_vars => TypeOK'
<1> SUFFICES ASSUME TypeOK, [Next]_vars PROVE TypeOK'
  OBVIOUS
<1> USE DEF azure, self, count
<1> DEFINE UnitType == [AllUnits -> {"off", "run", "made", "settled", "rejected"}]
           TagType == [Places -> [Kinds -> Markers \cup {None, Untagged, Foreign}]]
           Ends == {"none", "ok", "failed", "dirty", "killed"}
<1>t. /\ leaving \in SUBSET (Places \X Kinds) /\ pc \in Steps
      /\ provisioned \in BOOLEAN /\ failed \in BOOLEAN /\ dirty \in BOOLEAN
      /\ unit \in UnitType /\ tag \in TagType
      /\ groupTag \in [Groups -> Markers \cup {None, Foreign}]
      /\ dep \in [Places -> [Deployments -> Markers \cup {None, "over"}]]
      /\ todo \in Seq(Deployments \cup Kinds) /\ polls \in 0..MaxPolls
      /\ pc = "delete" => todo \in Seq(Kinds)
      /\ last \in Ends /\ saved \in Manifests \cup {None}
  BY DEF TypeOK
<1>h. pc # "idle" => /\ man \in Manifests /\ man # None
                     /\ here \in Places /\ mine \in Markers
                     /\ here.stack \in Stacks /\ here.group \in Groups
  BY HereFacts, ConstantsAssumption DEF TypeOK
<1> HIDE DEF UnitType, TagType, Ends
\* A step of a run that leaves Azure and the manifests alone.
<1>a. ASSUME UNCHANGED <<azure, saved, self, man>>, pc' \in Steps, pc # "idle",
             provisioned' \in BOOLEAN, failed' \in BOOLEAN, dirty' \in BOOLEAN,
             unit' \in UnitType,
             todo' \in Seq(Deployments \cup Kinds), polls' \in 0..MaxPolls,
             pc' = "delete" => todo' \in Seq(Kinds),
             Calm \/ Fault, last' \in Ends
      PROVE  TypeOK'
  <2>1. runs' \in 0..MaxRuns /\ faults' \in 0..MaxFaults
    BY <1>a, CountTypes
  <2> QED
    BY <1>a, <1>h, <2>1 DEF TypeOK, UnitType, Ends
\* A step that changes Azure, and at most the units, the step and an error.
<1>z. ASSUME UNCHANGED <<saved, self, man, provisioned, dirty, todo, polls, last>>,
             pc' \in Steps, pc' = pc \/ (pc # "idle" /\ pc' # "delete"), failed' \in BOOLEAN,
             unit' \in UnitType, Calm \/ Fault,
             tag' \in TagType, leaving' \in SUBSET (Places \X Kinds),
             groupTag' \in [Groups -> Markers \cup {None, Foreign}],
             dep' \in [Places -> [Deployments -> Markers \cup {None, "over"}]]
      PROVE  TypeOK'
  <2>1. runs' \in 0..MaxRuns /\ faults' \in 0..MaxFaults
    BY <1>z, CountTypes
  <2>2. man = None => pc = "idle" /\ pc' = "idle"
    BY <1>h, <1>z
  <2> QED
    BY <1>z, <2>1, <2>2 DEF TypeOK, UnitType, TagType
<1>1. ASSUME NEW f \in Options, NEW own \in BOOLEAN, NEW r \in Resumes, Start(f, own, r)
      PROVE  TypeOK'
  <2>1. PICK s \in Stacks :
          /\ r # None => s = r.stack
          /\ man' = [place |-> [group |-> IF own THEN s ELSE "shared", stack |-> s],
                     marker |-> IF r # None THEN r.marker ELSE MarkerOf[s]]
    BY <1>1 DEF Start
  <2>2. man' \in Manifests
    BY <2>1 DEF Manifests, Places, Groups, Markers, Resumes
  <2>3. man' # None
    BY <2>2, ConstantsAssumption
  <2>4. /\ UNCHANGED <<azure, saved, todo, polls, faults>>
        /\ flags' = f /\ owns' = own /\ failed' = FALSE /\ dirty' = FALSE
        /\ unit' = Units("off") /\ last' = "none" /\ provisioned' \in BOOLEAN
    BY <1>1 DEF Start
  <2>5. pc' \in Steps /\ pc' # "delete"
    BY <1>1 DEF Start, Steps
  <2>6. runs' \in 0..MaxRuns
    BY <1>1, ConstantsAssumption DEF Start, TypeOK
  <2>7. unit' \in UnitType
    BY <2>4, UnitTypes DEF UnitType
  <2> QED
    BY <2>2, <2>3, <2>4, <2>5, <2>6, <2>7 DEF TypeOK, UnitType
<1>2. CASE MakeGroup
  <2>1. groupTag' \in [Groups -> Markers \cup {None, Foreign}]
    BY <1>2, <1>h, <1>t DEF MakeGroup
  <2>2. /\ UNCHANGED <<tag, leaving, dep, saved, self, man, unit, dirty, todo, polls, last>>
        /\ (Calm \/ Fault) /\ pc = "group" /\ pc' \in Steps \ {"delete"}
        /\ failed' \in BOOLEAN /\ provisioned' \in BOOLEAN
    BY <1>2, <1>t DEF MakeGroup, Throw, NoThrow, Steps
  <2>3. runs' \in 0..MaxRuns /\ faults' \in 0..MaxFaults
    BY <2>2, CountTypes
  <2> QED
    BY <1>h, <2>1, <2>2, <2>3 DEF TypeOK
<1>3. CASE SaveManifest
  BY <1>3, <1>h DEF SaveManifest, TypeOK, Steps
<1>4. CASE DeployCore
  <2>1. /\ UNCHANGED <<tag, leaving, groupTag, saved, self, man, provisioned, dirty, todo,
                       polls, last, count>>
        /\ pc = "deployCore" /\ pc' \in Steps \ {"delete"} /\ failed' \in BOOLEAN
        /\ dep' = dep \/ dep' = [dep EXCEPT ![here]["core"] = mine]
        /\ unit' = Units("run") \/ unit' = Units("off")
    BY <1>4, <1>t DEF DeployCore, Submit, Throw, NoThrow, Steps
  <2>2. dep' \in [Places -> [Deployments -> Markers \cup {None, "over"}]]
    BY <1>t, <1>h, <2>1 DEF Deployments
  <2>3. unit' \in UnitType
    BY <2>1, UnitTypes DEF UnitType
  <2> QED
    BY <1>z, <1>t, <2>1, <2>2, <2>3 DEF Calm
<1>5. CASE AwaitCore
  <2>1. unit' \in UnitType
    BY <1>5, <1>t, UnitTypes DEF AwaitCore, UnitType
  <2> QED
    BY <1>5, <1>a, <1>t, <2>1 DEF AwaitCore, Throw, NoThrow, Steps
<1>6. CASE AllSettled
  BY <1>6, <1>a, <1>t DEF AllSettled, Throw, NoThrow, Steps, Calm
<1>7. CASE DeployExt
  <2>1. /\ UNCHANGED <<tag, leaving, groupTag, saved, self, man, provisioned, unit, failed,
                       dirty, todo, polls, last>>
        /\ (Calm \/ Fault) /\ pc = "health" /\ pc' \in Steps \ {"delete"}
        /\ dep' = dep \/ dep' = [dep EXCEPT ![here]["ext"] = mine]
    BY <1>7, <1>t DEF DeployExt, Submit, Steps
  <2>2. dep' \in [Places -> [Deployments -> Markers \cup {None, "over"}]]
    BY <1>t, <1>h, <2>1 DEF Deployments
  <2> QED
    BY <1>z, <1>t, <2>1, <2>2
<1>8. CASE AwaitExt
  BY <1>8, <1>a, <1>t DEF AwaitExt, Steps
<1>9. CASE SaveAgain
  BY <1>9, <1>h DEF SaveAgain, TypeOK, Steps
\* The parallel units.
<1>p. ASSUME NEW k \in Lanes, Put(k), pc # "idle", UNCHANGED count,
             UNCHANGED <<groupTag, dep, saved, self, man, pc, provisioned, failed, dirty,
                         todo, polls, last>>
      PROVE  TypeOK'
  <2>1. k \in Kinds /\ k \in AllUnits
    BY DEF Kinds, AllUnits
  <2>2. tag' \in TagType
    BY <1>p, <1>h, <2>1, TagTypes DEF Put, TagType
  <2>3. unit' \in UnitType
    BY <1>p, <2>1, UnitTypes DEF Put, UnitType
  <2>4. leaving' \in SUBSET (Places \X Kinds)
    BY <1>p, <1>t DEF Put
  <2> QED
    BY <1>p, <1>t, <1>z, <2>2, <2>3, <2>4 DEF Calm
<1>s. ASSUME NEW k \in AllUnits, Settle(k), pc # "idle", Calm \/ Fault,
             UNCHANGED <<azure, saved, self, man, pc, provisioned, failed, dirty,
                         todo, polls, last>>
      PROVE  TypeOK'
  <2>1. unit' \in UnitType
    BY <1>s, UnitTypes DEF Settle, UnitType
  <2> QED
    BY <1>s, <1>a, <1>t, <2>1
<1>10. ASSUME NEW u \in AllUnits, Connector(u)
       PROVE  TypeOK'
  <2>1. u \in Lanes /\ pc # "idle"
    BY <1>10, ConstantsAssumption DEF Connector, Going
  <2>2. CASE Put(u)
    BY <1>10, <1>p, <2>1, <2>2 DEF Connector
  <2>3. CASE Settle(u) /\ UNCHANGED <<tag, leaving>>
    BY <1>10, <1>s, <2>1, <2>3 DEF Connector, Calm
  <2> QED
    BY <1>10, <2>2, <2>3 DEF Connector
<1>11. ASSUME NEW u \in AllUnits, Namespace(u)
       PROVE  TypeOK'
  BY <1>11, <1>p DEF Namespace, Going
<1>12. ASSUME NEW u \in AllUnits, Below(u)
       PROVE  TypeOK'
  <2>1. tag' \in TagType
    <3> DEFINE S == {m \in Nested : Parent[m] = u}
    <3>1. \/ tag' = tag
          \/ tag' = [tag EXCEPT ![here] = [n \in Kinds |->
                       IF n \in S THEN Untagged ELSE tag[here][n]]]
      BY <1>12 DEF Below
    <3> HIDE DEF S
    <3>2. here \in Places
      BY <1>12, <1>h DEF Below, Going
    <3>3. ASSUME NEW R
          PROVE  [tag EXCEPT ![here] = [n \in Kinds |->
                    IF n \in R THEN Untagged ELSE tag[here][n]]] \in TagType
      <4>1. \A T : [tag EXCEPT ![here] = [n \in Kinds |->
                       IF n \in T THEN Untagged ELSE tag[here][n]]] \in TagType
        BY <3>2, TagTypes DEF TagType
      <4> QED
        BY <4>1
    <3>4. tag \in TagType
      BY <1>t
    <3> HIDE DEF TagType
    <3> QED
      BY <3>1, <3>3, <3>4
  <2>2. unit' \in UnitType
    BY <1>12, UnitTypes DEF Below, Settle, UnitType
  <2> QED
    BY <1>12, <1>t, <1>z, <2>1, <2>2 DEF Below, Going, Calm
<1>13. ASSUME NEW u \in AllUnits, LaneGivesUp(u)
       PROVE  TypeOK'
  BY <1>13, <1>s DEF LaneGivesUp, Going
<1>14. ASSUME NEW u \in AllUnits, OptionalApis(u)
       PROVE  TypeOK'
  BY <1>14, <1>s DEF OptionalApis, Going, Calm
<1>15. ASSUME NEW u \in AllUnits, FatalEnds(u)
       PROVE  TypeOK'
  <2>1. unit' \in UnitType
    BY <1>15, UnitTypes DEF FatalEnds, Settle, UnitType
  <2> QED
    BY <1>15, <1>a, <1>t, <2>1 DEF FatalEnds, Going
<1>16. CASE Load
  BY <1>16, <1>h, <1>t DEF Load, TypeOK, Steps
<1>17. CASE Cases
  BY <1>17, <1>a, <1>t DEF Cases, Steps, Calm
<1>18. CASE Finally
  <2>1. todo' \in Seq(Deployments \cup Kinds) /\ polls' \in 0..MaxPolls
    BY <1>18, ConstantsAssumption DEF Finally, Deployments
  <2> QED
    BY <1>18, <1>a, <1>t, <2>1 DEF Finally, Steps, Calm
<1>19. CASE Cancel
  <2>1. todo' \in Seq(Deployments \cup Kinds)
    BY <1>19, FilterTypes DEF Cancel
  <2> QED
    BY <1>19, <1>a, <1>t, <2>1 DEF Cancel, Steps
<1>20. CASE PollCancelled
  <2> DEFINE active == Filter(todo, Active)
  <2>1. active \in Seq(Deployments \cup Kinds)
    BY FilterTypes
  <2>2. /\ UNCHANGED <<azure, saved, self, man, provisioned, unit, failed, last>>
        /\ pc = "poll" /\ (Calm \/ Fault)
        /\ \/ pc' = "delete" /\ dirty' = (dirty \/ active # <<>>)
              /\ todo' = CleanupOrder /\ polls' = 0
           \/ polls < MaxPolls /\ todo' = active /\ polls' = polls + 1 /\ UNCHANGED <<dirty, pc>>
           \/ active # <<>> /\ todo' = Tail(active) /\ dirty' = TRUE /\ UNCHANGED <<pc, polls>>
    BY <1>20 DEF PollCancelled
  <2> HIDE DEF active
  <2>3. todo' \in Seq(Deployments \cup Kinds)
    <3>1. CleanupOrder \in Seq(Deployments \cup Kinds)
      BY ConstantsAssumption
    <3>2. active # <<>> => Tail(active) \in Seq(Deployments \cup Kinds)
      BY <2>1, HeadTailProperties
    <3> QED
      BY <2>1, <2>2, <3>1, <3>2
  <2>4. polls' \in 0..MaxPolls
    BY <1>t, <2>2, ConstantsAssumption
  <2>5. pc' \in Steps /\ dirty' \in BOOLEAN
    BY <1>t, <2>2 DEF Steps
  <2> QED
    <3>1. UNCHANGED <<azure, saved, self, man, provisioned, unit, failed, last>>
      BY <2>2
    <3>2. pc # "idle" /\ (Calm \/ Fault)
      BY <1>20 DEF PollCancelled
    <3>3. pc' = "delete" => todo' \in Seq(Kinds)
      <4>1. pc' = "delete" => todo' = CleanupOrder
        BY <1>20 DEF PollCancelled
      <4> QED
        BY <4>1, ConstantsAssumption
    <3> QED
      BY <1>a, <1>t, <2>3, <2>4, <2>5, <3>1, <3>2, <3>3
<1>21. CASE Delete
  <2>1. Head(todo) \in Kinds /\ Tail(todo) \in Seq(Kinds)
    BY <1>21, <1>t, HeadTailProperties DEF Delete
  <2>2. todo' \in Seq(Kinds) /\ todo' \in Seq(Deployments \cup Kinds)
    BY <1>21, <2>1 DEF Delete
  <2>3. leaving' \in SUBSET (Places \X Kinds)
    BY <1>21, <1>h, <1>t, <2>1 DEF Delete
  <2>4. /\ UNCHANGED <<tag, groupTag, dep, saved, self, man, pc, provisioned, unit, failed,
                       polls, last>>
        /\ (Calm \/ Fault) /\ dirty' \in BOOLEAN
    BY <1>21, <1>t DEF Delete
  <2>5. runs' \in 0..MaxRuns /\ faults' \in 0..MaxFaults
    BY <2>4, CountTypes
  <2> QED
    BY <2>2, <2>3, <2>4, <2>5 DEF TypeOK
<1>22. CASE DeleteRecords
  <2>1. dep' \in [Places -> [Deployments -> Markers \cup {None, "over"}]]
    BY <1>22, <1>h, <1>t DEF DeleteRecords
  <2>2. /\ UNCHANGED <<tag, leaving, groupTag, saved, self, man, provisioned, unit, failed,
                       todo, polls, last>>
        /\ (Calm \/ Fault) /\ dirty' \in BOOLEAN /\ pc' = "await" /\ pc = "delete"
    BY <1>22, <1>t DEF DeleteRecords
  <2>3. runs' \in 0..MaxRuns /\ faults' \in 0..MaxFaults
    BY <2>2, CountTypes
  <2> QED
    BY <1>h, <2>1, <2>2, <2>3 DEF TypeOK, Steps
<1>23. CASE AwaitGone
  <2>1. polls' \in 0..MaxPolls
    BY <1>23, <1>t, ConstantsAssumption DEF AwaitGone
  <2> QED
    BY <1>23, <1>a, <1>t, <2>1 DEF AwaitGone, Steps
<1>24. CASE Audit
  BY <1>24, <1>a, <1>t DEF Audit, Steps, Calm
<1>25. CASE ShowGroup
  BY <1>25, <1>a, <1>t DEF ShowGroup, Steps
<1>26. CASE DeleteGroup
  <2>1. /\ UNCHANGED <<saved, self, man, provisioned, unit, failed, todo, polls, last>>
        /\ (Calm \/ Fault) /\ dirty' \in BOOLEAN /\ pc' \in Steps
        /\ pc = "deleteGroup" /\ pc' # "delete"
    BY <1>26, <1>t DEF DeleteGroup, Steps
  <2>2. /\ tag' \in TagType /\ leaving' \in SUBSET (Places \X Kinds)
        /\ groupTag' \in [Groups -> Markers \cup {None, Foreign}]
        /\ dep' \in [Places -> [Deployments -> Markers \cup {None, "over"}]]
    <3>1. CASE UNCHANGED azure
      BY <1>t, <3>1
    <3>2. CASE ~ UNCHANGED azure
      <4>1. /\ groupTag' = [groupTag EXCEPT ![here.group] = None]
            /\ tag' = [p \in Places |-> IF p.group = here.group
                                        THEN [k \in Kinds |-> None] ELSE tag[p]]
            /\ dep' = [p \in Places |-> IF p.group = here.group
                                        THEN [d \in Deployments |-> None] ELSE dep[p]]
            /\ leaving' = {l \in leaving : l[1].group # here.group}
        BY <1>26, <3>2 DEF DeleteGroup
      <4>2. tag' \in TagType
        BY <1>t, <4>1 DEF TagType
      <4>3. dep' \in [Places -> [Deployments -> Markers \cup {None, "over"}]]
        BY <1>t, <4>1
      <4>4. leaving' \in SUBSET (Places \X Kinds)
        BY <1>t, <4>1
      <4>5. groupTag' \in [Groups -> Markers \cup {None, Foreign}]
        BY <1>t, <4>1
      <4> QED
        BY <4>2, <4>3, <4>4, <4>5
    <3> QED
      BY <3>1, <3>2
  <2>3. runs' \in 0..MaxRuns /\ faults' \in 0..MaxFaults
    BY <2>1, CountTypes
  <2> QED
    BY <1>h, <2>1, <2>2, <2>3 DEF TypeOK, TagType
<1>27. CASE PollGroup
  <2>1. polls' \in 0..MaxPolls
    BY <1>27, <1>t, ConstantsAssumption DEF PollGroup
  <2> QED
    BY <1>27, <1>a, <1>t, <2>1 DEF PollGroup, Steps
\* What Forget leaves.
<1>f. ASSUME Forget
      PROVE  /\ unit' \in UnitType /\ failed' = FALSE /\ dirty' = FALSE
             /\ todo' \in Seq(Deployments \cup Kinds) /\ polls' \in 0..MaxPolls
             /\ todo' \in Seq(Kinds)
  <2>1. unit' \in UnitType
    BY <1>f, UnitTypes DEF Forget, UnitType
  <2> QED
    BY <1>f, <2>1, ConstantsAssumption DEF Forget
<1>28. CASE End
  BY <1>28, <1>a, <1>f, <1>t DEF End, Steps, Calm, Ends
<1>29. CASE Kill
  <2>1. /\ UNCHANGED <<azure, saved>> /\ flags' = {} /\ owns' = TRUE /\ man' = None
        /\ pc' = "idle" /\ provisioned' = FALSE /\ last' = "killed" /\ Fault
    BY <1>29 DEF Kill
  <2>2. runs' \in 0..MaxRuns /\ faults' \in 0..MaxFaults
    BY <2>1, CountTypes
  <2>3. Forget
    BY <1>29 DEF Kill
  <2> QED
    BY <1>f, <2>1, <2>2, <2>3 DEF TypeOK, UnitType, Steps
<1>30. ASSUME NEW q \in Places, NEW d \in Deployments, NEW k \in Kinds, DeploymentMakes(q, d, k)
       PROVE  TypeOK'
  <2>1. tag' \in TagType
    <3>1. PICK t \in {Untagged, dep[q][d]} : tag' = [tag EXCEPT ![q][k] = t]
      BY <1>30 DEF DeploymentMakes
    <3>2. t \in Markers \cup {None, Untagged, Foreign}
      BY <1>30 DEF DeploymentMakes
    <3> QED
      BY <3>1, <3>2, TagTypes DEF TagType
  <2>2. leaving' \in SUBSET (Places \X Kinds)
    BY <1>30, <1>t DEF DeploymentMakes
  <2> QED
    BY <1>30, <1>t, <1>z, <2>1, <2>2 DEF DeploymentMakes, Calm
<1>31. ASSUME NEW q \in Places, NEW d \in Deployments, DeploymentEnds(q, d)
       PROVE  TypeOK'
  <2>1. dep' \in [Places -> [Deployments -> Markers \cup {None, "over"}]]
    BY <1>31, <1>t DEF DeploymentEnds
  <2> QED
    BY <1>31, <1>t, <1>z, <2>1 DEF DeploymentEnds, Calm
<1>32. ASSUME NEW q \in Places, NEW k \in Kinds, Vanishes(q, k)
       PROVE  TypeOK'
  <2>1. tag' \in TagType
    <3>1. tag' = [tag EXCEPT ![q] = [n \in Kinds |->
                    IF n \in {m \in Kinds : m = k \/ (m \in Nested /\ Parent[m] = k)}
                    THEN None ELSE tag[q][n]]]
      BY <1>32 DEF Vanishes
    <3> QED
      BY <3>1, TagTypes DEF TagType
  <2>2. leaving' \in SUBSET (Places \X Kinds)
    BY <1>32, <1>t DEF Vanishes
  <2> QED
    BY <1>32, <1>t, <1>z, <2>1, <2>2 DEF Vanishes, Calm
<1>33. CASE UNCHANGED vars
  BY <1>33 DEF vars, TypeOK
<1> QED
  BY <1>1, <1>2, <1>3, <1>4, <1>5, <1>6, <1>7, <1>8, <1>9, <1>10, <1>11, <1>12,
     <1>13, <1>14, <1>15, <1>16, <1>17, <1>18, <1>19, <1>20, <1>21, <1>22, <1>23,
     <1>24, <1>25, <1>26, <1>27, <1>28, <1>29, <1>30, <1>31, <1>32, <1>33
  DEF Next, Run, Provision, Teardown, Azure

-----------------------------------------------------------------------------
(* The stack: who bears which marker.                                       *)

Provisioning == {"group", "save", "deployCore", "awaitCore", "units", "health",
                 "awaitExt", "saveAgain"}
Grown == Provisioning \ {"group"}
Recorded == Grown \ {"save"}

\* A place only ever bears the marker of its stack, and nothing of somebody else
\* unless it is in the shared group; a group that is not there is empty.
OwnTags ==
  \A q \in Places, k \in Kinds :
    /\ tag[q][k] \in Markers => tag[q][k] = MarkerOf[q.stack]
    /\ tag[q][k] = Foreign => q.group = "shared"
OwnDeployments ==
  \A q \in Places, d \in Deployments :
    dep[q][d] \in Markers => dep[q][d] = MarkerOf[q.stack]
OwnGroups ==
  /\ groupTag["shared"] = Foreign
  /\ \A g \in Stacks : groupTag[g] \in {None, MarkerOf[g]}
GoneGroups ==
  \A q \in Places : groupTag[q.group] = None =>
    /\ \A k \in Kinds : tag[q][k] = None
    /\ \A d \in Deployments : dep[q][d] \notin Markers
Tagged == OwnTags /\ OwnDeployments /\ OwnGroups /\ GoneGroups

\* A run that provisions uses the names and the marker of its stack, in a group
\* that is there and, once it deploys, with its manifest on disk.  Units go on
\* only while they are waited for.
Underway ==
  /\ \A u \in AllUnits : unit[u] \in {"run", "made"} => pc = "units"
  /\ pc \in Provisioning => mine = MarkerOf[here.stack] /\ (owns <=> here.group # "shared")
  /\ pc \in Grown => groupTag[here.group] # None
  /\ pc \in Recorded => saved = man
  /\ saved # None => saved.marker = MarkerOf[saved.place.stack]
  /\ pc = "deleteGroup" => groupTag[here.group] = mine

OwnInv == TypeOK /\ Tagged /\ Underway

LEMMA ConstantFacts ==
  /\ None \notin Markers /\ Foreign \notin Markers /\ Untagged \notin Markers
  /\ "over" \notin Markers /\ "shared" \notin Stacks
  /\ None # Foreign /\ None # Untagged /\ Foreign # Untagged
  /\ None \notin Manifests
  BY ConstantsAssumption

LEMMA OwnInit == Init => OwnInv
<1> SUFFICES ASSUME Init PROVE OwnInv
  OBVIOUS
<1>1. TypeOK
  BY LiveTypeInit
<1>2. ASSUME NEW q \in Places, NEW k \in Kinds
      PROVE  /\ tag[q][k] \in {None, Foreign}
             /\ tag[q][k] = Foreign => q.group = "shared"
  <2>1. PICK taken \in SUBSET Taken :
          tag = [p \in Places |-> [n \in Kinds |-> IF <<p, n>> \in taken THEN Foreign ELSE None]]
    BY DEF Init
  <2>2. tag[q][k] = IF <<q, k>> \in taken THEN Foreign ELSE None
    BY <2>1
  <2>3. <<q, k>> \in Taken => q.group = "shared"
    BY ConstantsAssumption
  <2> QED
    BY <2>2, <2>3, ConstantFacts
<1>3. \A q \in Places, d \in Deployments : dep[q][d] = None
  BY DEF Init
<1>4. \A g \in Groups : groupTag[g] = IF g = "shared" THEN Foreign ELSE None
  BY DEF Init
<1>5. Tagged
  <2>1. OwnTags
    BY <1>2, ConstantFacts DEF OwnTags
  <2>2. OwnDeployments /\ OwnGroups
    BY <1>3, <1>4, ConstantFacts DEF OwnDeployments, OwnGroups, Groups
  <2>3. GoneGroups
    <3>1. \A q \in Places : groupTag[q.group] = None => q.group # "shared"
      BY <1>4, ConstantFacts, PlaceFacts
    <3> QED
      BY <1>2, <1>3, <3>1, ConstantFacts DEF GoneGroups
  <2> QED
    BY <2>1, <2>2, <2>3 DEF Tagged
<1>6. Underway
  <2>1. \A u \in AllUnits : unit[u] = "off"
    BY DEF Init, Units
  <2>2. pc = "idle" /\ saved = None
    BY DEF Init
  <2> QED
    BY <2>1, <2>2 DEF Underway, Provisioning, Grown, Recorded
<1> QED
  BY <1>1, <1>5, <1>6 DEF OwnInv

\* What Azure does behind a run leaves the run itself, the files and the groups alone.
LEMMA AzureAlone ==
  Azure => UNCHANGED <<groupTag, saved, self, man, pc, provisioned, unit, failed, dirty,
                       todo, polls, last, count>>
<1>1. ASSUME NEW p \in Places, NEW d \in Deployments, NEW k \in Kinds,
             DeploymentMakes(p, d, k)
      PROVE  UNCHANGED <<groupTag, saved, self, man, pc, provisioned, unit, failed,
                         dirty, todo, polls, last, count>>
  BY <1>1 DEF DeploymentMakes
<1>2. ASSUME NEW p \in Places, NEW d \in Deployments, DeploymentEnds(p, d)
      PROVE  UNCHANGED <<groupTag, saved, self, man, pc, provisioned, unit, failed,
                         dirty, todo, polls, last, count>>
  BY <1>2 DEF DeploymentEnds
<1>3. ASSUME NEW p \in Places, NEW k \in Kinds, Vanishes(p, k)
      PROVE  UNCHANGED <<groupTag, saved, self, man, pc, provisioned, unit, failed,
                         dirty, todo, polls, last, count>>
  BY <1>3 DEF Vanishes
<1> QED
  BY <1>1, <1>2, <1>3, Zenon DEF Azure

\* The steps that change something of Azure.
LEMMA AzureSteps ==
  ASSUME [Next]_vars
  PROVE  \/ UNCHANGED azure
         \/ MakeGroup \/ DeployCore \/ DeployExt \/ Delete \/ DeleteRecords \/ DeleteGroup
         \/ \E u \in AllUnits : Connector(u) \/ Namespace(u) \/ Below(u)
         \/ Azure
<1> USE DEF azure
<1>1. ASSUME NEW f \in Options, NEW own \in BOOLEAN, NEW r \in Resumes, Start(f, own, r)
      PROVE  UNCHANGED azure
  BY <1>1 DEF Start
<1>2. SaveManifest \/ AwaitCore \/ AllSettled \/ AwaitExt \/ SaveAgain => UNCHANGED azure
  BY DEF SaveManifest, AwaitCore, AllSettled, AwaitExt, SaveAgain
<1>3. ASSUME NEW u \in AllUnits, LaneGivesUp(u) \/ OptionalApis(u) \/ FatalEnds(u)
      PROVE  UNCHANGED azure
  BY <1>3 DEF LaneGivesUp, OptionalApis, FatalEnds
<1>4. Load \/ Cases \/ Finally \/ Cancel \/ PollCancelled \/ AwaitGone \/ Audit
        \/ ShowGroup \/ PollGroup \/ End \/ Kill => UNCHANGED azure
  BY DEF Load, Cases, Finally, Cancel, PollCancelled, AwaitGone, Audit, ShowGroup,
     PollGroup, End, Kill
<1>5. UNCHANGED vars => UNCHANGED azure
  BY DEF vars
<1> QED
  BY <1>1, <1>2, <1>3, <1>4, <1>5 DEF Next, Run, Provision, Teardown

LEMMA TaggedStep == OwnInv /\ [Next]_vars => Tagged'
<1> SUFFICES ASSUME OwnInv, [Next]_vars PROVE Tagged'
  OBVIOUS
<1> USE DEF azure
<1>t. /\ TypeOK /\ Tagged /\ Underway
      /\ tag \in [Places -> [Kinds -> Markers \cup {None, Untagged, Foreign}]]
      /\ groupTag \in [Groups -> Markers \cup {None, Foreign}]
      /\ dep \in [Places -> [Deployments -> Markers \cup {None, "over"}]]
  BY DEF OwnInv, TypeOK
<1>h. pc # "idle" => /\ here \in Places /\ mine \in Markers
                     /\ here.stack \in Stacks /\ here.group \in Groups
                     /\ here.group \in {"shared", here.stack}
  BY <1>t, HereFacts DEF TypeOK
\* One resource of a place whose group is there gets a tag that may be there.
<1>o. ASSUME NEW q \in Places, NEW S \in SUBSET Kinds, NEW t \in {None, Untagged, MarkerOf[q.stack]},
             t = None \/ groupTag[q.group] # None, UNCHANGED <<groupTag, dep>>,
             \A p \in Places, k \in Kinds :
               tag'[p][k] = IF p = q /\ k \in S THEN t ELSE tag[p][k]
      PROVE  Tagged'
  <2>1. OwnTags'
    <3> SUFFICES ASSUME NEW p \in Places, NEW k \in Kinds
                 PROVE  /\ tag'[p][k] \in Markers => tag'[p][k] = MarkerOf[p.stack]
                        /\ tag'[p][k] = Foreign => p.group = "shared"
      BY DEF OwnTags
    <3>1. CASE p = q /\ k \in S
      <4>1. tag'[p][k] = t /\ MarkerOf[q.stack] \in Markers
        BY <1>o, <3>1, PlaceFacts DEF Markers
      <4> QED
        BY <1>o, <3>1, <4>1, ConstantFacts
    <3>2. CASE ~ (p = q /\ k \in S)
      <4>1. tag'[p][k] = tag[p][k]
        BY <1>o, <3>2
      <4> QED
        BY <1>t, <4>1 DEF Tagged, OwnTags
    <3> QED
      BY <3>1, <3>2
  <2>2. OwnDeployments' /\ OwnGroups'
    BY <1>t, <1>o DEF Tagged, OwnDeployments, OwnGroups
  <2>3. GoneGroups'
    BY <1>t, <1>o DEF Tagged, GoneGroups
  <2> QED
    BY <2>1, <2>2, <2>3 DEF Tagged
\* One deployment.
<1>d. ASSUME NEW q \in Places, NEW d \in Deployments, NEW t \in {None, "over", MarkerOf[q.stack]},
             t \notin Markers \/ groupTag[q.group] # None, UNCHANGED <<groupTag, tag>>,
             \A p \in Places, e \in Deployments :
               dep'[p][e] = IF p = q /\ e = d THEN t ELSE dep[p][e]
      PROVE  Tagged'
  <2>1. OwnTags' /\ OwnGroups'
    BY <1>t, <1>d DEF Tagged, OwnTags, OwnGroups
  <2>2. OwnDeployments'
    <3> SUFFICES ASSUME NEW p \in Places, NEW e \in Deployments, dep'[p][e] \in Markers
                 PROVE  dep'[p][e] = MarkerOf[p.stack]
      BY DEF OwnDeployments
    <3>1. dep'[p][e] = IF p = q /\ e = d THEN t ELSE dep[p][e]
      BY <1>d
    <3> QED
      BY <1>t, <3>1, ConstantFacts DEF Tagged, OwnDeployments
  <2>3. GoneGroups'
    BY <1>t, <1>d DEF Tagged, GoneGroups
  <2> QED
    BY <2>1, <2>2, <2>3 DEF Tagged
<1>1. CASE UNCHANGED azure
  BY <1>t, <1>1 DEF Tagged, OwnTags, OwnDeployments, OwnGroups, GoneGroups
<1>2. CASE MakeGroup
  <2>1. /\ UNCHANGED <<tag, dep>> /\ pc = "group"
        /\ groupTag' = groupTag \/ (owns /\ groupTag' = [groupTag EXCEPT ![here.group] = mine])
    BY <1>2 DEF MakeGroup
  <2>2. CASE groupTag' = groupTag
    BY <1>t, <2>1, <2>2 DEF Tagged, OwnTags, OwnDeployments, OwnGroups, GoneGroups
  <2>3. CASE owns /\ groupTag' = [groupTag EXCEPT ![here.group] = mine]
    <3>1. here.group = here.stack /\ mine = MarkerOf[here.stack] /\ mine # None
      BY <1>h, <1>t, <2>1, <2>3, ConstantFacts DEF Underway, Provisioning
    <3>2. \A g \in Groups : groupTag'[g] = IF g = here.group THEN mine ELSE groupTag[g]
      BY <1>t, <2>3
    <3>3. OwnTags' /\ OwnDeployments'
      BY <1>t, <2>1 DEF Tagged, OwnTags, OwnDeployments
    <3>4. OwnGroups'
      BY <1>h, <1>t, <2>1, <3>1, <3>2, ConstantFacts DEF Tagged, OwnGroups, Groups
    <3>5. \A q \in Places : groupTag'[q.group] = None => groupTag[q.group] = None
      BY <3>1, <3>2, PlaceFacts
    <3>6. GoneGroups'
      BY <1>t, <2>1, <3>5 DEF Tagged, GoneGroups
    <3> QED
      BY <3>3, <3>4, <3>6 DEF Tagged
  <2> QED
    BY <2>1, <2>2, <2>3
\* What a run deploys.
<1>s. ASSUME NEW d \in Deployments, pc \in Recorded, UNCHANGED <<tag, groupTag>>,
             dep' = dep \/ dep' = [dep EXCEPT ![here][d] = mine]
      PROVE  Tagged'
  <2>1. CASE dep' = dep
    BY <1>t, <1>s, <2>1 DEF Tagged, OwnTags, OwnDeployments, OwnGroups, GoneGroups
  <2>2. CASE dep' = [dep EXCEPT ![here][d] = mine]
    <3> DEFINE q == here
               t == mine
    <3>1. /\ t \in {None, "over", MarkerOf[q.stack]} /\ groupTag[q.group] # None
          /\ q \in Places
      BY <1>h, <1>s, <1>t DEF Underway, Recorded, Grown, Provisioning
    <3>2. \A p \in Places, e \in Deployments :
            dep'[p][e] = IF p = q /\ e = d THEN t ELSE dep[p][e]
      BY <1>t, <2>2, <3>1
    <3>3. UNCHANGED <<groupTag, tag>>
      BY <1>s
    <3> HIDE DEF q, t
    <3> QED
      BY <1>d, <3>1, <3>2, <3>3
  <2> QED
    BY <1>s, <2>1, <2>2
<1>3. CASE DeployCore
  <2>1. /\ UNCHANGED <<tag, groupTag>> /\ pc \in Recorded /\ "core" \in Deployments
        /\ dep' = dep \/ dep' = [dep EXCEPT ![here]["core"] = mine]
    BY <1>3 DEF DeployCore, Submit, Recorded, Grown, Provisioning, Deployments
  <2> QED
    BY <1>s, <2>1
<1>4. CASE DeployExt
  <2>1. /\ UNCHANGED <<tag, groupTag>> /\ pc \in Recorded /\ "ext" \in Deployments
        /\ dep' = dep \/ dep' = [dep EXCEPT ![here]["ext"] = mine]
    BY <1>4 DEF DeployExt, Submit, Recorded, Grown, Provisioning, Deployments
  <2> QED
    BY <1>s, <2>1
<1>5. CASE Delete
  BY <1>t, <1>5 DEF Delete, Tagged, OwnTags, OwnDeployments, OwnGroups, GoneGroups
<1>6. CASE DeleteRecords
  <2>1. UNCHANGED <<tag, groupTag>> /\ pc = "delete"
    BY <1>6 DEF DeleteRecords
  <2>2. \A p \in Places, d \in Deployments : dep'[p][d] \in {dep[p][d], None}
    BY <1>6, <1>h, <1>t, <2>1 DEF DeleteRecords
  <2> QED
    <3>1. OwnTags' /\ OwnGroups'
      BY <1>t, <2>1 DEF Tagged, OwnTags, OwnGroups
    <3>2. OwnDeployments'
      BY <1>t, <2>2, ConstantFacts DEF Tagged, OwnDeployments
    <3>3. GoneGroups'
      BY <1>t, <2>1, <2>2, ConstantFacts DEF Tagged, GoneGroups
    <3> QED
      BY <3>1, <3>2, <3>3 DEF Tagged
<1>7. CASE DeleteGroup
  <2>1. CASE UNCHANGED azure
    BY <1>1, <2>1
  <2>2. CASE ~ UNCHANGED azure
    <3>1. /\ groupTag' = [groupTag EXCEPT ![here.group] = None]
          /\ tag' = [p \in Places |-> IF p.group = here.group
                                      THEN [k \in Kinds |-> None] ELSE tag[p]]
          /\ dep' = [p \in Places |-> IF p.group = here.group
                                      THEN [d \in Deployments |-> None] ELSE dep[p]]
          /\ pc = "deleteGroup"
      BY <1>7, <2>2 DEF DeleteGroup
    <3>2. here.group \in Stacks
      BY <1>h, <1>t, <3>1, ConstantFacts DEF Underway, Tagged, OwnGroups
    <3>3. \A g \in Groups : groupTag'[g] = IF g = here.group THEN None ELSE groupTag[g]
      BY <1>t, <3>1
    <3>4. \A p \in Places, k \in Kinds : tag'[p][k] = IF p.group = here.group THEN None ELSE tag[p][k]
      BY <3>1
    <3>5. \A p \in Places, d \in Deployments : dep'[p][d] = IF p.group = here.group THEN None ELSE dep[p][d]
      BY <3>1
    <3>n. None \notin Markers /\ None # Foreign
      BY ConstantFacts
    <3>6. OwnTags' /\ OwnDeployments'
      <4>1. OwnTags'
        BY <1>t, <3>4, <3>n DEF Tagged, OwnTags
      <4>2. OwnDeployments'
        BY <1>t, <3>5, <3>n DEF Tagged, OwnDeployments
      <4> QED
        BY <4>1, <4>2
    <3>7. OwnGroups'
      BY <1>t, <3>2, <3>3, ConstantFacts DEF Tagged, OwnGroups, Groups
    <3>8. GoneGroups'
      <4> SUFFICES ASSUME NEW q \in Places, groupTag'[q.group] = None
                   PROVE  /\ \A k \in Kinds : tag'[q][k] = None
                          /\ \A d \in Deployments : dep'[q][d] \notin Markers
        BY DEF GoneGroups
      <4>1. q.group = here.group \/ groupTag[q.group] = None
        BY <3>3, PlaceFacts
      <4> QED
        BY <1>t, <3>4, <3>5, <4>1, ConstantFacts DEF Tagged, GoneGroups
    <3> QED
      BY <3>6, <3>7, <3>8 DEF Tagged
  <2> QED
    BY <2>1, <2>2
\* What a unit makes.
<1>p. ASSUME NEW k \in Lanes, Put(k), pc = "units", UNCHANGED <<groupTag, dep>>
      PROVE  Tagged'
  <2> DEFINE q == here
             t == mine
             S == {k}
  <2>1. /\ t \in {None, Untagged, MarkerOf[q.stack]} /\ groupTag[q.group] # None
        /\ q \in Places
    BY <1>h, <1>p, <1>t DEF Underway, Grown, Provisioning
  <2>2. tag' = [tag EXCEPT ![q][k] = t]
    BY <1>p DEF Put
  <2>3. \A p \in Places, n \in Kinds :
          tag'[p][n] = IF p = q /\ n \in S THEN t ELSE tag[p][n]
    BY <1>t, <2>1, <2>2
  <2>4. S \in SUBSET Kinds
    BY DEF Kinds
  <2>5. UNCHANGED <<groupTag, dep>>
    BY <1>p
  <2> HIDE DEF q, t, S
  <2> QED
    BY <1>o, <2>1, <2>3, <2>4, <2>5
<1>8. ASSUME NEW u \in AllUnits, Connector(u)
      PROVE  Tagged'
  <2>1. u \in Lanes /\ pc = "units" /\ UNCHANGED <<groupTag, dep>>
    BY <1>8, <1>t, ConstantsAssumption DEF Connector, Going, Underway
  <2>2. CASE Put(u)
    BY <1>p, <2>1, <2>2
  <2>3. CASE UNCHANGED <<tag, leaving>>
    BY <1>1, <2>1, <2>3
  <2> QED
    BY <1>8, <2>2, <2>3 DEF Connector
<1>9. ASSUME NEW u \in AllUnits, Namespace(u)
      PROVE  Tagged'
  <2>1. u \in Lanes /\ pc = "units" /\ Put(u) /\ UNCHANGED <<groupTag, dep>>
    BY <1>9, <1>t DEF Namespace, Going, Underway
  <2> QED
    BY <1>p, <2>1
<1>10. ASSUME NEW u \in AllUnits, Below(u)
       PROVE  Tagged'
  <2> DEFINE S == {n \in Kinds : n \in Nested /\ Parent[n] = u}
  <2>1. pc = "units" /\ UNCHANGED <<leaving, groupTag, dep>>
    BY <1>10, <1>t DEF Below, Going, Underway
  <2>2. here \in Places /\ groupTag[here.group] # None
    BY <1>h, <1>t, <2>1 DEF Underway, Grown, Provisioning
  <2>3. CASE tag' = tag
    BY <1>1, <2>1, <2>3
  <2>4. CASE tag' = [tag EXCEPT ![here] = [n \in Kinds |->
                       IF n \in Nested /\ Parent[n] = u THEN Untagged ELSE tag[here][n]]]
    <3>1. \A p \in Places, n \in Kinds :
            tag'[p][n] = IF p = here /\ n \in S THEN Untagged ELSE tag[p][n]
      BY <1>t, <2>2, <2>4
    <3> HIDE DEF S
    <3>2. S \in SUBSET Kinds
      BY DEF S
    <3> QED
      BY <1>o, <2>1, <2>2, <3>1, <3>2
  <2> QED
    BY <1>10, <2>3, <2>4 DEF Below
<1>11. ASSUME NEW q \in Places, NEW d \in Deployments, NEW k \in Kinds, DeploymentMakes(q, d, k)
       PROVE  Tagged'
  <2>1. PICK t \in {Untagged, dep[q][d]} : tag' = [tag EXCEPT ![q][k] = t]
    BY <1>11 DEF DeploymentMakes
  <2>2. /\ dep[q][d] \in Markers /\ groupTag[q.group] # None
        /\ UNCHANGED <<groupTag, dep>>
    BY <1>11 DEF DeploymentMakes
  <2>3. t \in {None, Untagged, MarkerOf[q.stack]}
    BY <1>t, <2>2 DEF Tagged, OwnDeployments
  <2> DEFINE S == {k}
  <2>4. \A p \in Places, n \in Kinds :
          tag'[p][n] = IF p = q /\ n \in S THEN t ELSE tag[p][n]
    BY <1>t, <2>1
  <2>5. S \in SUBSET Kinds
    OBVIOUS
  <2> HIDE DEF S
  <2> QED
    BY <1>o, <2>2, <2>3, <2>4, <2>5
<1>12. ASSUME NEW q \in Places, NEW d \in Deployments, DeploymentEnds(q, d)
       PROVE  Tagged'
  <2>1. dep' = [dep EXCEPT ![q][d] = "over"] /\ UNCHANGED <<tag, groupTag>>
    BY <1>12 DEF DeploymentEnds
  <2>2. \A p \in Places, e \in Deployments :
          dep'[p][e] = IF p = q /\ e = d THEN "over" ELSE dep[p][e]
    BY <1>t, <2>1
  <2> QED
    BY <1>d, <2>1, <2>2, ConstantFacts
<1>13. ASSUME NEW q \in Places, NEW k \in Kinds, Vanishes(q, k)
       PROVE  Tagged'
  <2> DEFINE S == {n \in Kinds : n = k \/ (n \in Nested /\ Parent[n] = k)}
  <2>1. /\ UNCHANGED <<groupTag, dep>>
        /\ tag' = [tag EXCEPT ![q] = [n \in Kinds |->
             IF n = k \/ (n \in Nested /\ Parent[n] = k) THEN None ELSE tag[q][n]]]
    BY <1>13 DEF Vanishes
  <2>2. \A p \in Places, n \in Kinds :
          tag'[p][n] = IF p = q /\ n \in S THEN None ELSE tag[p][n]
    BY <1>t, <2>1
  <2> HIDE DEF S
  <2>3. S \in SUBSET Kinds
    BY DEF S
  <2> QED
    BY <1>o, <2>1, <2>2, <2>3
<1> QED
  BY <1>1, <1>2, <1>3, <1>4, <1>5, <1>6, <1>7, <1>8, <1>9, <1>10, <1>11, <1>12, <1>13,
     AzureSteps DEF Azure

LEMMA UnderwayStep == OwnInv /\ [Next]_vars => Underway'
<1> SUFFICES ASSUME OwnInv, [Next]_vars PROVE Underway'
  OBVIOUS
<1> USE DEF azure, self, count, Grown, Recorded, Provisioning
<1>t. /\ TypeOK /\ Tagged /\ Underway
      /\ groupTag \in [Groups -> Markers \cup {None, Foreign}]
      /\ unit \in [AllUnits -> {"off", "run", "made", "settled", "rejected"}]
  BY DEF OwnInv, TypeOK
<1>h. pc # "idle" => /\ man \in Manifests
                     /\ here \in Places /\ mine \in Markers
                     /\ here.stack \in Stacks /\ here.group \in Groups
                     /\ here.group \in {"shared", here.stack}
  BY <1>t, HereFacts DEF TypeOK
\* No step but the deletion of a group makes one go, and none marks a marked one.
<1>k. ASSUME UNCHANGED <<saved, self, man, groupTag>>,
             pc' = pc \/ (/\ pc' \in Provisioning => pc \in Provisioning
                          /\ pc' \in Grown => pc \in Grown
                          /\ pc' \in Recorded => pc \in Recorded
                          /\ pc' # "deleteGroup"),
             \A u \in AllUnits : unit'[u] \in {"run", "made"} =>
               pc' = "units" 
      PROVE  Underway'
  BY <1>t, <1>k DEF Underway, here, mine
\* The same for a step that leaves the units alone and does not end their wait.
<1>u. ASSUME UNCHANGED unit, pc # "units" \/ pc' = "units"
      PROVE  \A u \in AllUnits : unit'[u] \in {"run", "made"} => pc' = "units"
  BY <1>t, <1>u DEF Underway
<1>o. ASSUME UNCHANGED unit, pc # "units"
      PROVE  \A u \in AllUnits : unit'[u] \notin {"run", "made"}
  BY <1>t, <1>o DEF Underway
<1>f. ASSUME unit' = Units("off")
      PROVE  \A u \in AllUnits : unit'[u] \notin {"run", "made"}
  BY <1>f DEF Units
<1>1. ASSUME NEW f \in Options, NEW own \in BOOLEAN, NEW r \in Resumes, Start(f, own, r)
      PROVE  Underway'
  <2>1. PICK s \in Stacks :
          /\ r # None => s = r.stack
          /\ man' = [place |-> [group |-> IF own THEN s ELSE "shared", stack |-> s],
                     marker |-> IF r # None THEN r.marker ELSE MarkerOf[s]]
    BY <1>1 DEF Start
  <2>2. /\ UNCHANGED <<groupTag, saved>> /\ owns' = own /\ unit' = Units("off")
        /\ pc' \in {"group", "load", "cases"}
        /\ pc' = "group" => "provision" \in f
        /\ "provision" \in f /\ r # None => r.marker = MarkerOf[r.stack]
    BY <1>1 DEF Start
  <2>3. pc' = "group" => mine' = MarkerOf[here'.stack] /\ (owns' <=> here'.group # "shared")
    BY <2>1, <2>2, ConstantFacts DEF here, mine
  <2>4. \A u \in AllUnits : unit'[u] \notin {"run", "made"}
    BY <1>f, <2>2
  <2> QED
    BY <1>t, <2>2, <2>3, <2>4 DEF Underway
<1>2. CASE MakeGroup
  <2>1. /\ UNCHANGED <<saved, self, man, unit>> /\ pc = "group" /\ pc' \in {"save", "finally"}
        /\ groupTag' = IF owns /\ pc' = "save"
                       THEN [groupTag EXCEPT ![here.group] = mine] ELSE groupTag
    BY <1>2 DEF MakeGroup, Throw
  <2>2. \A u \in AllUnits : unit'[u] \notin {"run", "made"}
    BY <1>o, <2>1
  <2>3. pc' = "save" => groupTag'[here.group] # None
    <3>1. CASE owns
      BY <1>h, <1>t, <2>1, <3>1, ConstantFacts
    <3>2. CASE ~ owns
      <4>1. here.group = "shared"
        BY <1>t, <2>1, <3>2 DEF Underway
      <4> QED
        BY <1>t, <2>1, <3>2, <4>1, ConstantFacts DEF Tagged, OwnGroups
    <3> QED
      BY <3>1, <3>2
  <2> QED
    BY <1>t, <2>1, <2>2, <2>3 DEF Underway, here, mine
<1>3. CASE SaveManifest
  <2>1. /\ UNCHANGED <<azure, self, man, unit>> /\ pc = "save" /\ pc' = "deployCore" /\ saved' = man
    BY <1>3 DEF SaveManifest
  <2>2. \A u \in AllUnits : unit'[u] \notin {"run", "made"}
    BY <1>o, <2>1
  <2> QED
    BY <1>t, <2>1, <2>2 DEF Underway, here, mine
<1>4. CASE DeployCore
  <2>1. /\ UNCHANGED <<saved, self, man, groupTag>> /\ pc = "deployCore"
        /\ pc' \in {"awaitCore", "units", "finally"}
        /\ unit' = Units(IF pc' = "units" THEN "run" ELSE "off")
    BY <1>4 DEF DeployCore, Submit, Throw
  <2>2. \A u \in AllUnits : unit'[u] \in {"run", "made"} => pc' = "units"
    BY <1>f, <2>1
  <2> QED
    BY <1>k, <2>1, <2>2
<1>5. CASE AwaitCore
  <2>1. /\ UNCHANGED <<saved, self, man, groupTag>> /\ pc = "awaitCore"
        /\ \/ pc' = "units"
           \/ pc' = "finally" /\ UNCHANGED unit
    BY <1>5 DEF AwaitCore, Throw
  <2>2. \A u \in AllUnits : unit'[u] \in {"run", "made"} => pc' = "units"
    BY <1>o, <2>1
  <2> QED
    BY <1>k, <2>1, <2>2
<1>6. CASE AllSettled
  <2>1. /\ UNCHANGED <<saved, self, man, groupTag, unit>> /\ pc = "units"
        /\ pc' \in {"finally", "health"}
        /\ \A u \in DOMAIN unit : unit[u] \in {"settled", "rejected"}
    BY <1>6 DEF AllSettled, Throw
  <2>2. \A u \in AllUnits : unit'[u] \notin {"run", "made"}
    BY <1>t, <2>1
  <2> QED
    BY <1>k, <2>1, <2>2
<1>7. CASE DeployExt
  <2>1. /\ UNCHANGED <<saved, self, man, groupTag, unit>> /\ pc = "health"
        /\ pc' \in {"awaitExt", "saveAgain"}
    BY <1>7 DEF DeployExt, Submit
  <2> QED
    BY <1>k, <1>o, <2>1
<1>8. CASE AwaitExt
  BY <1>8, <1>k, <1>o DEF AwaitExt
<1>9. CASE SaveAgain
  <2>1. /\ UNCHANGED <<azure, self, man, unit>> /\ pc = "saveAgain" /\ pc' = "cases" /\ saved' = man
    BY <1>9 DEF SaveAgain
  <2>2. \A u \in AllUnits : unit'[u] \notin {"run", "made"}
    BY <1>o, <2>1
  <2> QED
    BY <1>t, <2>1, <2>2 DEF Underway, here, mine
<1>10. ASSUME NEW u \in AllUnits,
              Connector(u) \/ Namespace(u) \/ Below(u) \/ LaneGivesUp(u) \/ OptionalApis(u)
                \/ FatalEnds(u)
       PROVE  Underway'
  <2>1. /\ UNCHANGED <<saved, self, man, groupTag, pc>>
        /\ Going(u, "run") \/ Going(u, "made")
    BY <1>10 DEF Connector, Namespace, Below, LaneGivesUp, OptionalApis, FatalEnds
  <2>2. pc = "units"
    BY <1>t, <2>1 DEF Going, Underway
  <2> QED
    BY <1>k, <2>1, <2>2
<1>11. CASE Load
  <2>1. /\ UNCHANGED <<azure, saved, self, unit>> /\ pc = "load" /\ pc' = "cases"
    BY <1>11 DEF Load
  <2>2. \A u \in AllUnits : unit'[u] \notin {"run", "made"}
    BY <1>o, <2>1
  <2> QED
    BY <1>t, <2>1, <2>2 DEF Underway
<1>12. CASE Cases
  BY <1>12, <1>k, <1>o DEF Cases
<1>13. CASE Finally
  <2>1. pc' \in {"showGroup", "cancel", "end"}
    BY <1>13 DEF Finally
  <2> QED
    BY <1>13, <1>k, <1>o, <2>1 DEF Finally
<1>14. CASE Cancel
  BY <1>14, <1>k, <1>o DEF Cancel
<1>15. CASE PollCancelled
  <2>1. /\ UNCHANGED <<saved, self, man, groupTag, unit>> /\ pc = "poll" /\ pc' \in {"poll", "delete"}
    BY <1>15 DEF PollCancelled
  <2> QED
    BY <1>k, <1>o, <2>1
<1>16. CASE Delete
  BY <1>16, <1>k, <1>o DEF Delete
<1>17. CASE DeleteRecords
  BY <1>17, <1>k, <1>o DEF DeleteRecords
<1>18. CASE AwaitGone
  <2>1. /\ UNCHANGED <<saved, self, man, groupTag, unit>> /\ pc = "await"
        /\ pc' \in {"await", "audit", "end"}
    BY <1>18 DEF AwaitGone
  <2> QED
    BY <1>k, <1>o, <2>1
<1>19. CASE Audit
  BY <1>19, <1>k, <1>o DEF Audit
<1>20. CASE ShowGroup
  <2>1. /\ UNCHANGED <<saved, self, man, groupTag, unit>> /\ pc = "showGroup"
        /\ pc' \in {"audit", "deleteGroup", "end"}
        /\ pc' = "deleteGroup" => groupTag[here.group] = mine
    BY <1>20 DEF ShowGroup
  <2>2. \A u \in AllUnits : unit'[u] \notin {"run", "made"}
    BY <1>o, <2>1
  <2> QED
    BY <1>t, <2>1, <2>2 DEF Underway, here, mine
<1>21. CASE DeleteGroup
  <2>1. /\ UNCHANGED <<saved, self, man, unit>> /\ pc = "deleteGroup"
        /\ pc' \in {"pollGroup", "end"}
    BY <1>21 DEF DeleteGroup
  <2>2. \A u \in AllUnits : unit'[u] \notin {"run", "made"}
    BY <1>o, <2>1
  <2> QED
    BY <1>t, <2>1, <2>2 DEF Underway
<1>22. CASE PollGroup
  <2>1. /\ UNCHANGED <<saved, self, man, groupTag, unit>> /\ pc = "pollGroup"
        /\ pc' \in {"pollGroup", "audit", "end"}
    BY <1>22 DEF PollGroup
  <2> QED
    BY <1>k, <1>o, <2>1
<1>23. CASE End
  <2>1. /\ UNCHANGED saved /\ pc' = "idle" /\ unit' = Units("off")
    BY <1>23 DEF End, Forget
  <2> QED
    BY <1>f, <1>t, <2>1 DEF Underway
<1>24. CASE Kill
  <2>1. /\ UNCHANGED saved /\ pc' = "idle" /\ unit' = Units("off")
    BY <1>24 DEF Kill, Forget
  <2> QED
    BY <1>f, <1>t, <2>1 DEF Underway
<1>25. CASE Azure
  <2>1. UNCHANGED <<groupTag, saved, self, man, pc, unit>>
    BY <1>25, AzureAlone
  <2> QED
    BY <1>k, <1>u, <2>1
<1>26. CASE UNCHANGED vars
  BY <1>26, <1>k, <1>u DEF vars
<1> QED
  BY <1>1, <1>2, <1>3, <1>4, <1>5, <1>6, <1>7, <1>8, <1>9, <1>10, <1>11, <1>12, <1>13,
     <1>14, <1>15, <1>16, <1>17, <1>18, <1>19, <1>20, <1>21, <1>22, <1>23, <1>24, <1>25,
     <1>26 DEF Next, Run, Provision, Teardown

LEMMA OwnStep == OwnInv /\ [Next]_vars => OwnInv'
  BY LiveTypeStep, TaggedStep, UnderwayStep DEF OwnInv

\* The types, for any number of runs, faults and polls.
THEOREM LiveTypes == Spec => []TypeOK
  BY LiveTypeInit, LiveTypeStep, PTL DEF Spec
-----------------------------------------------------------------------------
(* The stack: the action properties.                                        *)

\* What one step may do: the bodies of the two properties.
OwnDeletion ==
  /\ \A l \in leaving' \ leaving :
       LET top == IF l[2] \in Nested THEN Parent[l[2]] ELSE l[2]
       IN  l[1] = here /\ tag[here][top] = mine
  /\ \A g \in Groups : groupTag[g] # None /\ groupTag'[g] = None =>
       /\ groupTag[g] = mine
       /\ \A p \in Places, k \in Kinds :
            p.group = g => tag[p][k] \in {None, Untagged, mine}

Recoverable ==
  (unit' # unit /\ tag' # tag) \/ (dep' # dep /\ pc \in {"deployCore", "health"})
    => saved = man

LEMMA OwnDeletionStep == OwnInv /\ [Next]_vars => OwnDeletion
<1> SUFFICES ASSUME OwnInv, [Next]_vars PROVE OwnDeletion
  OBVIOUS
<1> USE DEF azure
<1>t. /\ TypeOK /\ Tagged /\ Underway
      /\ tag \in [Places -> [Kinds -> Markers \cup {None, Untagged, Foreign}]]
      /\ groupTag \in [Groups -> Markers \cup {None, Foreign}]
  BY DEF OwnInv, TypeOK
<1>h. pc # "idle" => /\ here \in Places /\ mine \in Markers
                     /\ here.stack \in Stacks /\ here.group \in Groups
                     /\ here.group \in {"shared", here.stack}
  BY <1>t, HereFacts DEF TypeOK
<1>a. ASSUME leaving' \subseteq leaving, groupTag' = groupTag
      PROVE  OwnDeletion
  BY <1>a DEF OwnDeletion
<1>1. CASE UNCHANGED azure
  BY <1>1, <1>a
<1>2. CASE MakeGroup
  <2>1. /\ leaving' = leaving /\ pc = "group"
        /\ groupTag' = groupTag \/ groupTag' = [groupTag EXCEPT ![here.group] = mine]
    BY <1>2 DEF MakeGroup
  <2>2. \A g \in Groups : groupTag'[g] = groupTag[g] \/ groupTag'[g] = mine
    BY <1>t, <2>1
  <2>3. mine # None
    BY <1>h, <2>1, ConstantFacts
  <2> QED
    BY <2>1, <2>2, <2>3 DEF OwnDeletion
<1>3. CASE DeployCore \/ DeployExt \/ DeleteRecords
  BY <1>3, <1>a DEF DeployCore, DeployExt, DeleteRecords
<1>4. CASE Delete
  <2>1. /\ groupTag' = groupTag
        /\ \/ leaving' = leaving
           \/ leaving' = leaving \cup {<<here, Head(todo)>>} /\ Owned(Head(todo))
    BY <1>4 DEF Delete
  <2> DEFINE k == Head(todo)
  <2>2. CASE leaving' = leaving \cup {<<here, k>>} /\ Owned(k)
    <3>1. \A l \in leaving' \ leaving : l[1] = here /\ l[2] = k
      BY <2>2
    <3>2. tag[here][IF k \in Nested THEN Parent[k] ELSE k] = mine
      BY <2>2 DEF Owned
    <3> HIDE DEF k
    <3> QED
      BY <2>1, <3>1, <3>2 DEF OwnDeletion
  <2> QED
    BY <1>a, <2>1, <2>2
<1>5. CASE DeleteGroup
  <2>1. /\ leaving' \subseteq leaving /\ pc = "deleteGroup"
        /\ groupTag' = groupTag \/ groupTag' = [groupTag EXCEPT ![here.group] = None]
    BY <1>5 DEF DeleteGroup
  <2>2. groupTag[here.group] = mine /\ here.group \in Stacks /\ mine = MarkerOf[here.group]
    BY <1>h, <1>t, <2>1, ConstantFacts DEF Underway, Tagged, OwnGroups
  <2>3. \A g \in Groups : groupTag[g] # None /\ groupTag'[g] = None => g = here.group
    BY <1>t, <2>1
  <2>4. ASSUME NEW p \in Places, NEW k \in Kinds, p.group = here.group
        PROVE  tag[p][k] \in {None, Untagged, mine}
    <3>1. p.stack = here.group /\ p.group # "shared"
      BY <2>2, <2>4, PlaceFacts, ConstantFacts
    <3> QED
      BY <1>t, <2>2, <2>4, <3>1 DEF Tagged, OwnTags
  <2> QED
    BY <2>1, <2>2, <2>3, <2>4 DEF OwnDeletion
<1>6. ASSUME NEW u \in AllUnits, Connector(u) \/ Namespace(u) \/ Below(u)
      PROVE  OwnDeletion
  BY <1>6, <1>a DEF Connector, Namespace, Below, Put
<1>7. CASE Azure
  <2>1. leaving' \subseteq leaving
    <3>1. ASSUME NEW p \in Places, NEW d \in Deployments, NEW k \in Kinds,
                 DeploymentMakes(p, d, k)
          PROVE  leaving' \subseteq leaving
      BY <3>1 DEF DeploymentMakes
    <3>2. ASSUME NEW p \in Places, NEW k \in Kinds, Vanishes(p, k)
          PROVE  leaving' \subseteq leaving
      BY <3>2 DEF Vanishes
    <3>3. ASSUME NEW p \in Places, NEW d \in Deployments, DeploymentEnds(p, d)
          PROVE  leaving' = leaving
      BY <3>3 DEF DeploymentEnds
    <3> QED
      BY <1>7, <3>1, <3>2, <3>3 DEF Azure
  <2> QED
    BY <1>7, <1>a, <2>1, AzureAlone
<1> QED
  BY <1>1, <1>2, <1>3, <1>4, <1>5, <1>6, <1>7, AzureSteps

LEMMA RecoverableStep == OwnInv /\ [Next]_vars => Recoverable
<1> SUFFICES ASSUME OwnInv, [Next]_vars PROVE Recoverable
  OBVIOUS
<1> USE DEF azure
<1>t. Underway
  BY DEF OwnInv
<1>1. CASE UNCHANGED azure
  BY <1>1 DEF Recoverable
<1>2. CASE MakeGroup \/ Delete \/ DeleteRecords \/ DeleteGroup
  BY <1>2 DEF MakeGroup, Delete, DeleteRecords, DeleteGroup, Recoverable
<1>3. CASE DeployCore \/ DeployExt
  <2>1. pc \in {"deployCore", "health"}
    BY <1>3 DEF DeployCore, DeployExt
  <2> QED
    BY <1>t, <2>1 DEF Underway, Recorded, Grown, Provisioning, Recoverable
<1>4. ASSUME NEW u \in AllUnits, Connector(u) \/ Namespace(u) \/ Below(u)
      PROVE  Recoverable
  <2>1. pc = "units"
    BY <1>4, <1>t DEF Connector, Namespace, Below, Going, Underway
  <2> QED
    BY <1>t, <2>1 DEF Underway, Recorded, Grown, Provisioning, Recoverable
<1>5. CASE Azure
  <2>1. UNCHANGED unit
    BY <1>5, AzureAlone
  <2> QED
    BY <1>t, <2>1 DEF Underway, Recorded, Grown, Provisioning, Recoverable
<1> QED
  BY <1>1, <1>2, <1>3, <1>4, <1>5, AzureSteps

\* "Never delete the shared resource group", and never what another run made:
\* whoever took which names, whatever was resumed and whatever failed.
THEOREM DeletesItsOwn == Spec => OnlyOwnDeleted
<1>1. OwnInv /\ [Next]_vars => [OwnDeletion]_vars
  BY OwnDeletionStep
<1> QED
  BY OwnInit, OwnStep, <1>1, PTL DEF Spec, OnlyOwnDeleted, OwnDeletion

\* No deployment is started and no lane puts anything into a group before the
\* manifest that names the stack is on disk, whatever else other runs left there.
THEOREM ManifestFirst == Spec => NothingBeforeManifest
<1>1. OwnInv /\ [Next]_vars => [Recoverable]_vars
  BY RecoverableStep
<1> QED
  BY OwnInit, OwnStep, <1>1, PTL DEF Spec, NothingBeforeManifest, Recoverable
-----------------------------------------------------------------------------
(* The stack: a clean teardown.                                             *)

\* A teardown is over without an error, of the run that is on or of the last one.
Down ==
  /\ "teardown" \in flags /\ provisioned
  /\ \/ pc \in {"audit", "end"} /\ ~ dirty
     \/ pc = "idle" /\ last \in {"ok", "failed"}

NothingLeft ==
  /\ \A k \in Kinds : tag[here][k] # mine
  /\ \A d \in Deployments : dep[here][d] \notin Markers
  /\ owns => groupTag[here.group] = None

\* The two ways of a teardown, and what each has seen to when it comes to the
\* audit: deployments that could make something again are over before the
\* resources are waited for.
Cleared ==
  /\ provisioned => man # None
  /\ pc \in {"cancel", "poll", "delete", "await"} => ~ owns
  /\ pc \in {"showGroup", "deleteGroup", "pollGroup"} => owns
  /\ pc = "pollGroup" => groupTag[here.group] = None
  /\ pc = "await" /\ ~ dirty => \A d \in Deployments : dep[here][d] \notin Markers
  /\ Down => NothingLeft

Early == Provisioning \cup {"load", "cases", "finally"}

LEMMA ClearedStep == OwnInv /\ Cleared /\ [Next]_vars => Cleared'
<1> SUFFICES ASSUME OwnInv, Cleared, [Next]_vars PROVE Cleared'
  OBVIOUS
<1> USE DEF azure, self, count
<1>t. /\ TypeOK /\ Tagged /\ Underway
      /\ tag \in [Places -> [Kinds -> Markers \cup {None, Untagged, Foreign}]]
      /\ groupTag \in [Groups -> Markers \cup {None, Foreign}]
      /\ dep \in [Places -> [Deployments -> Markers \cup {None, "over"}]]
      /\ dirty \in BOOLEAN /\ owns \in BOOLEAN /\ flags \in Options \cup {{}}
  BY DEF OwnInv, TypeOK
<1>m. man # None => man \in Manifests
  BY <1>t DEF TypeOK
<1>h. man \in Manifests => /\ here \in Places /\ mine \in Markers
                           /\ here.stack \in Stacks /\ here.group \in Groups
  BY HereFacts
<1>i. pc # "idle" => man # None
  BY <1>t DEF TypeOK
\* Before the teardown.
<1>e. ASSUME pc' \in Early, provisioned' => man' # None
      PROVE  Cleared'
  BY <1>e DEF Cleared, Down, Early, Provisioning
\* What is gone from the place of the run does not come back.
<1>n. ASSUME UNCHANGED <<self, man, groupTag>>, NothingLeft,
             \A k \in Kinds : tag'[here][k] = mine => tag[here][k] = mine,
             \A d \in Deployments : dep'[here][d] \in Markers => dep[here][d] \in Markers
      PROVE  NothingLeft'
  BY <1>n DEF NothingLeft, here, mine
\* A step that leaves Azure alone.
<1>s. ASSUME UNCHANGED azure, UNCHANGED <<self, man, provisioned>>, NothingLeft
      PROVE  NothingLeft'
  BY <1>s DEF NothingLeft, here, mine
<1>1. ASSUME NEW f \in Options, NEW own \in BOOLEAN, NEW r \in Resumes, Start(f, own, r)
      PROVE  Cleared'
  <2>1. PICK s \in Stacks :
          /\ r # None => s = r.stack
          /\ man' = [place |-> [group |-> IF own THEN s ELSE "shared", stack |-> s],
                     marker |-> IF r # None THEN r.marker ELSE MarkerOf[s]]
    BY <1>1 DEF Start
  <2>2. man' \in Manifests
    BY <2>1 DEF Manifests, Places, Groups, Markers, Resumes
  <2>3. pc' \in Early
    BY <1>1 DEF Start, Early, Provisioning
  <2> QED
    BY <1>e, <2>2, <2>3, ConstantFacts
<1>2. CASE MakeGroup \/ SaveManifest \/ DeployCore \/ AwaitCore \/ AllSettled \/ DeployExt
           \/ AwaitExt \/ SaveAgain \/ Cases
  <2>1. pc # "idle" /\ UNCHANGED man
    BY <1>2 DEF MakeGroup, SaveManifest, DeployCore, AwaitCore, AllSettled, DeployExt,
       AwaitExt, SaveAgain, Cases
  <2>2. pc' \in Early
    BY <1>2 DEF MakeGroup, SaveManifest, DeployCore, AwaitCore, AllSettled, DeployExt,
       AwaitExt, SaveAgain, Cases, Submit, Throw, Early, Provisioning
  <2> QED
    BY <1>e, <1>i, <2>1, <2>2
<1>3. ASSUME NEW u \in AllUnits,
             Connector(u) \/ Namespace(u) \/ Below(u) \/ LaneGivesUp(u) \/ OptionalApis(u)
               \/ FatalEnds(u)
      PROVE  Cleared'
  <2>1. UNCHANGED <<pc, man>> /\ (Going(u, "run") \/ Going(u, "made"))
    BY <1>3 DEF Connector, Namespace, Below, LaneGivesUp, OptionalApis, FatalEnds
  <2>2. pc = "units"
    BY <1>t, <2>1 DEF Going, Underway
  <2> QED
    BY <1>e, <1>i, <2>1, <2>2 DEF Early, Provisioning
<1>4. CASE Load
  <2>1. pc = "load" /\ pc' = "cases" /\ man' # None
    BY <1>4, <1>i DEF Load
  <2> QED
    BY <1>e, <2>1 DEF Early
<1>5. CASE Finally
  <2>1. /\ UNCHANGED <<azure, self, man, provisioned, dirty>> /\ pc = "finally"
        /\ pc' = IF "teardown" \in flags /\ "keep" \notin flags /\ provisioned
                 THEN IF owns THEN "showGroup" ELSE "cancel"
                 ELSE "end"
    BY <1>5 DEF Finally
  <2>2. "teardown" \in flags => "keep" \notin flags
    BY <1>t, ConstantsAssumption
  <2>3. ~ Down'
    BY <2>1, <2>2 DEF Down
  <2> QED
    BY <1>i, <2>1, <2>3 DEF Cleared
<1>6. CASE Cancel \/ PollCancelled \/ Delete
  <2>1. /\ UNCHANGED <<self, man, provisioned>>
        /\ pc \in {"cancel", "poll", "delete"} /\ pc' \in {"poll", "delete"}
    BY <1>6 DEF Cancel, PollCancelled, Delete
  <2> QED
    BY <1>i, <2>1 DEF Cleared, Down
<1>7. CASE DeleteRecords
  <2>1. /\ UNCHANGED <<self, man, provisioned>> /\ pc = "delete" /\ pc' = "await"
        /\ dep' = [dep EXCEPT ![here] = [d \in Deployments |->
                     IF Running(d) THEN dep[here][d] ELSE None]]
        /\ ~ dirty' => \A d \in Deployments : ~ Running(d)
    BY <1>7 DEF DeleteRecords
  <2>2. here \in Places
    BY <1>h, <1>i, <1>m, <2>1
  <2>3. ~ dirty' => \A d \in Deployments : dep'[here][d] = None
    BY <1>t, <2>1, <2>2
  <2>4. here' = here
    BY <2>1 DEF here
  <2> QED
    BY <1>i, <2>1, <2>3, <2>4, ConstantFacts DEF Cleared, Down
<1>8. CASE AwaitGone
  <2>1. /\ UNCHANGED <<azure, self, man, provisioned>> /\ pc = "await"
        /\ \/ pc' = "audit" /\ dirty' = (dirty \/ Marked(InGroup))
           \/ pc' = pc /\ UNCHANGED dirty
           \/ pc' = "end" /\ dirty' = TRUE
    BY <1>8 DEF AwaitGone
  <2>2. here \in InGroup
    BY <1>h, <1>i, <1>m, <2>1 DEF InGroup
  <2>3. CASE pc' = "audit" /\ dirty' = (dirty \/ Marked(InGroup))
    <3>1. ~ dirty' => NothingLeft
      BY <2>1, <2>2, <2>3 DEF Marked, Cleared, NothingLeft
    <3> QED
      BY <1>i, <1>s, <2>1, <2>3, <3>1 DEF Cleared, Down
  <2>4. CASE pc' = pc /\ UNCHANGED dirty
    BY <2>1, <2>4 DEF Cleared, Down, here
  <2>5. CASE pc' = "end" /\ dirty' = TRUE
    BY <1>i, <2>1, <2>5 DEF Cleared, Down
  <2> QED
    BY <2>1, <2>3, <2>4, <2>5
<1>9. CASE Audit
  <2>0. dirty' = dirty \/ dirty' = TRUE
    BY <1>9 DEF Audit
  <2>1. UNCHANGED <<azure, self, man, provisioned>> /\ pc = "audit" /\ pc' = "end"
    BY <1>9 DEF Audit
  <2>2. Down' => Down
    BY <1>t, <2>0, <2>1 DEF Down
  <2> QED
    BY <1>i, <1>s, <2>1, <2>2 DEF Cleared
<1>10. CASE ShowGroup
  <2>1. /\ UNCHANGED <<azure, self, man, provisioned>> /\ pc = "showGroup"
        /\ \/ pc' = "audit" /\ groupTag[here.group] = None
           \/ pc' = "deleteGroup"
           \/ pc' = "end" /\ dirty' = TRUE
    BY <1>10 DEF ShowGroup
  <2>2. here \in Places /\ mine \in Markers
    BY <1>h, <1>i, <1>m, <2>1
  <2>3. CASE pc' = "audit" /\ groupTag[here.group] = None
    <3>1. NothingLeft
      BY <1>t, <2>2, <2>3, ConstantFacts DEF NothingLeft, Tagged, GoneGroups
    <3> QED
      BY <1>i, <1>s, <2>1, <2>3, <3>1 DEF Cleared, Down
  <2>4. CASE pc' = "deleteGroup"
    BY <1>i, <2>1, <2>4 DEF Cleared, Down
  <2>5. CASE pc' = "end" /\ dirty' = TRUE
    BY <1>i, <2>1, <2>5 DEF Cleared, Down
  <2> QED
    BY <2>1, <2>3, <2>4, <2>5
<1>11. CASE DeleteGroup
  <2>1. /\ UNCHANGED <<self, man, provisioned>> /\ pc = "deleteGroup"
        /\ \/ pc' = "pollGroup" /\ groupTag' = [groupTag EXCEPT ![here.group] = None]
           \/ pc' = "end" /\ dirty' = TRUE
    BY <1>11 DEF DeleteGroup
  <2>2. here.group \in Groups /\ here' = here
    BY <1>h, <1>i, <1>m, <2>1 DEF here
  <2>3. CASE pc' = "pollGroup" /\ groupTag' = [groupTag EXCEPT ![here.group] = None]
    <3>1. groupTag'[here.group] = None
      BY <1>t, <2>2, <2>3
    <3> QED
      BY <1>i, <2>1, <2>2, <2>3, <3>1 DEF Cleared, Down
  <2>4. CASE pc' = "end" /\ dirty' = TRUE
    BY <1>i, <2>1, <2>4 DEF Cleared, Down
  <2> QED
    BY <2>1, <2>3, <2>4
<1>12. CASE PollGroup
  <2>1. /\ UNCHANGED <<azure, self, man, provisioned>> /\ pc = "pollGroup"
        /\ \/ pc' = "audit"
           \/ pc' = pc
           \/ pc' = "end" /\ dirty' = TRUE
    BY <1>12 DEF PollGroup
  <2>2. here \in Places /\ mine \in Markers /\ here' = here
    BY <1>h, <1>i, <1>m, <2>1 DEF here
  <2>3. CASE pc' = "audit"
    <3>1. NothingLeft
      BY <1>t, <2>1, <2>2, ConstantFacts DEF NothingLeft, Tagged, GoneGroups, Cleared
    <3> QED
      BY <1>i, <1>s, <2>1, <2>3, <3>1 DEF Cleared, Down
  <2>4. CASE pc' = pc
    BY <1>i, <2>1, <2>2, <2>4 DEF Cleared, Down
  <2>5. CASE pc' = "end" /\ dirty' = TRUE
    BY <1>i, <2>1, <2>5 DEF Cleared, Down
  <2> QED
    BY <2>1, <2>3, <2>4, <2>5
<1>13. CASE End
  <2>1. /\ UNCHANGED <<azure, self, man, provisioned>> /\ pc = "end" /\ pc' = "idle"
        /\ last' = IF dirty THEN "dirty" ELSE IF failed THEN "failed" ELSE "ok"
    BY <1>13 DEF End
  <2>2. Down' => Down
    BY <1>t, <2>1 DEF Down
  <2> QED
    BY <1>i, <1>s, <2>1, <2>2 DEF Cleared
<1>14. CASE Kill
  <2>1. pc' = "idle" /\ provisioned' = FALSE
    BY <1>14 DEF Kill
  <2> QED
    BY <2>1 DEF Cleared, Down
\* Azure, behind the run or after it.
<1>15. CASE Azure
  <2>1. UNCHANGED <<groupTag, self, man, pc, provisioned, dirty, last>>
    BY <1>15, AzureAlone
  <2>2. \A p \in Places, d \in Deployments : dep'[p][d] \in Markers => dep[p][d] \in Markers
    <3>1. ASSUME NEW q \in Places, NEW e \in Deployments, DeploymentEnds(q, e),
                 NEW p \in Places, NEW d \in Deployments
          PROVE  dep'[p][d] \in {dep[p][d], "over"}
      BY <1>t, <3>1 DEF DeploymentEnds
    <3> QED
      BY <1>15, <3>1, ConstantFacts DEF Azure, DeploymentMakes, Vanishes
  <2>3. ASSUME man \in Manifests, \A d \in Deployments : dep[here][d] \notin Markers,
               NEW k \in Kinds, tag'[here][k] = mine
        PROVE  tag[here][k] = mine
    <3>0. here \in Places /\ mine \in Markers
      BY <1>h, <2>3
    <3>1. ASSUME NEW q \in Places, NEW e \in Deployments, DeploymentEnds(q, e)
          PROVE  tag'[here][k] = tag[here][k]
      BY <3>1 DEF DeploymentEnds
    <3>2. ASSUME NEW q \in Places, NEW e \in Deployments, NEW n \in Kinds,
                 DeploymentMakes(q, e, n)
          PROVE  tag'[here][k] = tag[here][k]
      <4>1. q # here
        BY <2>3, <3>2 DEF DeploymentMakes
      <4>2. \E t : tag' = [tag EXCEPT ![q][n] = t]
        BY <3>2 DEF DeploymentMakes
      <4> QED
        BY <1>t, <3>0, <4>1, <4>2
    <3>3. ASSUME NEW q \in Places, NEW n \in Kinds, Vanishes(q, n)
          PROVE  tag'[here][k] \in {tag[here][k], None}
      BY <1>t, <3>0, <3>3 DEF Vanishes
    <3> QED
      BY <1>15, <2>3, <3>0, <3>1, <3>2, <3>3, ConstantFacts DEF Azure
  <2>4. Down => man \in Manifests
    BY <1>m DEF Down, Cleared
  <2>5. Down => NothingLeft'
    <3> SUFFICES ASSUME Down PROVE NothingLeft'
      OBVIOUS
    <3>1. NothingLeft /\ here \in Places
      BY <1>h, <2>4 DEF Cleared
    <3>2. \A d \in Deployments : dep'[here][d] \in Markers => dep[here][d] \in Markers
      BY <2>2, <3>1
    <3>3. \A k \in Kinds : tag'[here][k] = mine => tag[here][k] = mine
      BY <2>3, <2>4, <3>1 DEF NothingLeft
    <3> QED
      BY <1>n, <2>1, <3>1, <3>2, <3>3
  <2>6. pc = "await" => here \in Places /\ here' = here
    BY <1>h, <1>i, <1>m, <2>1 DEF here
  <2>7. Down' <=> Down
    BY <2>1 DEF Down
  <2>8. pc = "pollGroup" => groupTag'[here'.group] = None
    BY <2>1 DEF Cleared, here
  <2>9. pc = "await" /\ ~ dirty => \A d \in Deployments : dep'[here'][d] \notin Markers
    BY <2>2, <2>6 DEF Cleared
  <2> QED
    BY <2>1, <2>5, <2>7, <2>8, <2>9 DEF Cleared
<1>16. CASE UNCHANGED vars
  <2>1. UNCHANGED <<azure, self, man, pc, provisioned, dirty, last>>
    BY <1>16 DEF vars
  <2>2. Down' <=> Down
    BY <2>1 DEF Down
  <2> QED
    BY <1>s, <2>1, <2>2 DEF Cleared, here
<1> QED
  BY <1>1, <1>2, <1>3, <1>4, <1>5, <1>6, <1>7, <1>8, <1>9, <1>10, <1>11, <1>12, <1>13,
     <1>14, <1>15, <1>16 DEF Next, Run, Provision, Teardown

LEMMA ClearedInit == Init => Cleared
  BY DEF Init, Cleared, Down

\* A run that reports a clean teardown has left nothing that bears its marker,
\* and nothing turns up later, whatever was killed or failed before.
THEOREM CleanTeardown == Spec => []CleanMeansGone
<1>1. OwnInv /\ Cleared => CleanMeansGone
  <2> SUFFICES ASSUME OwnInv, Cleared, TornDown
               PROVE  /\ \A k \in Kinds : tag[here][k] # mine
                      /\ \A d \in Deployments : dep[here][d] # mine
                      /\ owns => groupTag[here.group] = None
    BY DEF CleanMeansGone
  <2>1. NothingLeft
    BY DEF TornDown, Down, Cleared
  <2>2. mine \in Markers
    <3>1. man # None
      BY DEF TornDown, Cleared
    <3>2. man \in Manifests
      BY <3>1 DEF OwnInv, TypeOK
    <3> QED
      BY <3>2, HereFacts
  <2> QED
    BY <2>1, <2>2 DEF NothingLeft
<1> QED
  BY OwnInit, OwnStep, ClearedInit, ClearedStep, <1>1, PTL DEF Spec
-----------------------------------------------------------------------------
(* The matrix: what the catalog says.                                       *)

NativeCases == {"logic-apps-list-swagger", "app-service-apispecpath-runtime"}

\* What the proofs need of the cases of a part of the catalog whose ids are I.
Part(s, I) ==
  /\ s \in Seq(Range(s))
  /\ \A c, d \in Range(s) : c.id = d.id => c = d
  /\ \A c \in Range(s) :
       /\ c.id \in I
       /\ c.fallback \in {"fail", "requires-capability"}
       /\ c.id \in NativeCases => c.fallback # "fail"

LEMMA JoinedParts ==
  ASSUME NEW s, NEW t, NEW I, NEW J, Part(s, I), Part(t, J), I \cap J = {}
  PROVE  Part(s \o t, I \cup J)
<1> DEFINE S == Range(s) \cup Range(t)
<1>1. s \in Seq(S) /\ t \in Seq(S)
  BY DEF Part
<1>2. s \o t \in Seq(S) /\ Len(s \o t) = Len(s) + Len(t)
  BY <1>1, ConcatProperties
<1>3. Range(s \o t) = S
  <2>1. \A i \in 1 .. Len(s) : (s \o t)[i] = s[i]
    BY <1>1, ConcatProperties
  <2>2. \A i \in 1 .. Len(t) : (s \o t)[Len(s) + i] = t[i]
    BY <1>1, ConcatProperties
  <2>3. /\ Len(s) \in Nat /\ Len(t) \in Nat
        /\ DOMAIN s = 1 .. Len(s) /\ DOMAIN t = 1 .. Len(t)
        /\ DOMAIN (s \o t) = 1 .. Len(s) + Len(t)
    BY <1>1, <1>2, LenProperties
  <2>4. S \subseteq Range(s \o t)
    <3>1. \A i \in 1 .. Len(s) : i \in 1 .. Len(s) + Len(t)
      BY <2>3
    <3>2. \A i \in 1 .. Len(t) : Len(s) + i \in 1 .. Len(s) + Len(t)
      BY <2>3
    <3> QED
      BY <2>1, <2>2, <2>3, <3>1, <3>2 DEF Range
  <2>5. Range(s \o t) \subseteq S
    <3>1. ASSUME NEW i \in 1 .. Len(s) + Len(t)
          PROVE  (s \o t)[i] \in S
      BY <1>2, <3>1, ElementOfSeq
    <3> QED
      BY <2>3, <3>1 DEF Range
  <2> QED
    BY <2>4, <2>5
<1>4. \A c \in Range(s) : c.id \in I
  BY DEF Part
<1>5. \A c \in Range(t) : c.id \in J
  BY DEF Part
<1>6. \A c, d \in S : c.id = d.id => c = d
  BY <1>4, <1>5 DEF Part
<1> QED
  BY <1>2, <1>3, <1>4, <1>5, <1>6 DEF Part

LEMMA IsPart ==
  ASSUME NEW s, NEW I, NEW C, Range(s) = C, s \in Seq(C),
         \A c, d \in C : c.id = d.id => c = d,
         \A c \in C : /\ c.id \in I
                      /\ c.fallback \in {"fail", "requires-capability"}
                      /\ c.id \in NativeCases => c.fallback # "fail"
  PROVE  Part(s, I)
  BY DEF Part

\* The ids of the parts, by which the catalog falls apart.
BaselineIds ==
  {"apim-explicit-api-id", "apim-discovery", "app-service-api-definition",
   "discover-many", "iac-single", "ambiguity"}
CleanRepoIds ==
  {"apim-clean-repo-tag", "apim-clean-repo-github-org-repo-pair",
   "apim-gateway-host-path", "apim-host-only-ambiguity",
   "apim-version-revision-ambiguity"}
VersionsIds ==
  {"apim-explicit-historical-revision", "apim-version-set"}
FormatsIds ==
  {"apim-soap-wsdl", "apim-graphql-sdl", "apim-unsupported-websocket",
   "apim-unsupported-grpc", "apim-unsupported-odata"}
CenterIds ==
  {"api-center-openapi-export", "api-center-native-non-openapi",
   "api-center-exact-binding", "api-center-ambiguity"}
IntegrationIds ==
  {"logic-apps-list-swagger", "logic-apps-reader-synthesis",
   "custom-apis-inline-swagger", "template-specs-embedded-apim"}
EventsIds ==
  {"event-grid-webhook-partial", "service-bus-topic-partial"}
RuntimeIds ==
  {"function-bindings-openapi-extension", "app-service-apispecpath-runtime"}
LocalIds ==
  {"local-r3-format-parser-matrix"}

LEMMA CatalogParts ==
  /\ Part(Matrix!Baseline, BaselineIds)
  /\ Part(Matrix!CleanRepo, CleanRepoIds)
  /\ Part(Matrix!Versions, VersionsIds)
  /\ Part(Matrix!Formats, FormatsIds)
  /\ Part(Matrix!Center, CenterIds)
  /\ Part(Matrix!Integration, IntegrationIds)
  /\ Part(Matrix!Events, EventsIds)
  /\ Part(Matrix!Runtime, RuntimeIds)
  /\ Part(Matrix!Local, LocalIds)
<1> USE DEF Matrix!Case, Matrix!Resolves, Matrix!Stays, Matrix!Reviews, Matrix!NativeOnly
<1>1. Part(Matrix!Baseline, BaselineIds)
  <2> DEFINE C == {Matrix!Resolves("apim-explicit-api-id", None),
                   Matrix!Resolves("apim-discovery", None),
                   Matrix!Resolves("app-service-api-definition", None),
                   Matrix!Case("discover-many", None, "discovered", "fail"),
                   Matrix!Resolves("iac-single", None),
                   Matrix!Stays("ambiguity", None)}
  <2>1. Range(Matrix!Baseline) = C /\ Matrix!Baseline \in Seq(C)
    BY DEF Matrix!Baseline, Range
  <2>2. \A c, d \in C : c.id = d.id => c = d
    OBVIOUS
  <2>3. \A c \in C : /\ c.id \in BaselineIds
                     /\ c.fallback \in {"fail", "requires-capability"}
                     /\ c.id \in NativeCases => c.fallback # "fail"
    BY DEF BaselineIds, NativeCases
  <2> HIDE DEF C
  <2> QED
    BY <2>1, <2>2, <2>3, IsPart
<1>2. Part(Matrix!CleanRepo, CleanRepoIds)
  <2> DEFINE C == {Matrix!Resolves("apim-clean-repo-tag", "apim-multi"),
                   Matrix!Resolves("apim-clean-repo-github-org-repo-pair", "apim-multi"),
                   Matrix!Resolves("apim-gateway-host-path", "apim-multi"),
                   Matrix!Stays("apim-host-only-ambiguity", "apim-multi"),
                   Matrix!Stays("apim-version-revision-ambiguity", "apim-multi")}
  <2>1. Range(Matrix!CleanRepo) = C /\ Matrix!CleanRepo \in Seq(C)
    BY DEF Matrix!CleanRepo, Range
  <2>2. \A c, d \in C : c.id = d.id => c = d
    OBVIOUS
  <2>3. \A c \in C : /\ c.id \in CleanRepoIds
                     /\ c.fallback \in {"fail", "requires-capability"}
                     /\ c.id \in NativeCases => c.fallback # "fail"
    BY DEF CleanRepoIds, NativeCases
  <2> HIDE DEF C
  <2> QED
    BY <2>1, <2>2, <2>3, IsPart
<1>3. Part(Matrix!Versions, VersionsIds)
  <2> DEFINE C == {Matrix!Resolves("apim-explicit-historical-revision", "apim-multi"),
                   Matrix!Resolves("apim-version-set", "apim-multi")}
  <2>1. Range(Matrix!Versions) = C /\ Matrix!Versions \in Seq(C)
    BY DEF Matrix!Versions, Range
  <2>2. \A c, d \in C : c.id = d.id => c = d
    OBVIOUS
  <2>3. \A c \in C : /\ c.id \in VersionsIds
                     /\ c.fallback \in {"fail", "requires-capability"}
                     /\ c.id \in NativeCases => c.fallback # "fail"
    BY DEF VersionsIds, NativeCases
  <2> HIDE DEF C
  <2> QED
    BY <2>1, <2>2, <2>3, IsPart
<1>4. Part(Matrix!Formats, FormatsIds)
  <2> DEFINE C == {Matrix!Resolves("apim-soap-wsdl", "apim-soap"),
                   Matrix!Resolves("apim-graphql-sdl", "apim-graphql"),
                   Matrix!Reviews("apim-unsupported-websocket", "apim-websocket"),
                   Matrix!Reviews("apim-unsupported-grpc", "apim-grpc"),
                   Matrix!Reviews("apim-unsupported-odata", "apim-odata")}
  <2>1. Range(Matrix!Formats) = C /\ Matrix!Formats \in Seq(C)
    BY DEF Matrix!Formats, Range
  <2>2. \A c, d \in C : c.id = d.id => c = d
    OBVIOUS
  <2>3. \A c \in C : /\ c.id \in FormatsIds
                     /\ c.fallback \in {"fail", "requires-capability"}
                     /\ c.id \in NativeCases => c.fallback # "fail"
    BY DEF FormatsIds, NativeCases
  <2> HIDE DEF C
  <2> QED
    BY <2>1, <2>2, <2>3, IsPart
<1>5. Part(Matrix!Center, CenterIds)
  <2> DEFINE C == {Matrix!Resolves("api-center-openapi-export", "api-center"),
                   Matrix!Resolves("api-center-native-non-openapi", "api-center"),
                   Matrix!Resolves("api-center-exact-binding", "api-center"),
                   Matrix!Stays("api-center-ambiguity", "api-center")}
  <2>1. Range(Matrix!Center) = C /\ Matrix!Center \in Seq(C)
    BY DEF Matrix!Center, Range
  <2>2. \A c, d \in C : c.id = d.id => c = d
    OBVIOUS
  <2>3. \A c \in C : /\ c.id \in CenterIds
                     /\ c.fallback \in {"fail", "requires-capability"}
                     /\ c.id \in NativeCases => c.fallback # "fail"
    BY DEF CenterIds, NativeCases
  <2> HIDE DEF C
  <2> QED
    BY <2>1, <2>2, <2>3, IsPart
<1>6. Part(Matrix!Integration, IntegrationIds)
  <2> DEFINE C == {Matrix!NativeOnly("logic-apps-list-swagger", "logic-app"),
                   Matrix!Resolves("logic-apps-reader-synthesis", "logic-app"),
                   Matrix!Resolves("custom-apis-inline-swagger", "custom-connector"),
                   Matrix!Resolves("template-specs-embedded-apim", "template-spec")}
  <2>1. Range(Matrix!Integration) = C /\ Matrix!Integration \in Seq(C)
    BY DEF Matrix!Integration, Range
  <2>2. \A c, d \in C : c.id = d.id => c = d
    OBVIOUS
  <2>3. \A c \in C : /\ c.id \in IntegrationIds
                     /\ c.fallback \in {"fail", "requires-capability"}
                     /\ c.id \in NativeCases => c.fallback # "fail"
    BY DEF IntegrationIds, NativeCases
  <2> HIDE DEF C
  <2> QED
    BY <2>1, <2>2, <2>3, IsPart
<1>7. Part(Matrix!Events, EventsIds)
  <2> DEFINE C == {Matrix!Resolves("event-grid-webhook-partial", "event-grid"),
                   Matrix!Resolves("service-bus-topic-partial", "service-bus-standard")}
  <2>1. Range(Matrix!Events) = C /\ Matrix!Events \in Seq(C)
    BY DEF Matrix!Events, Range
  <2>2. \A c, d \in C : c.id = d.id => c = d
    OBVIOUS
  <2>3. \A c \in C : /\ c.id \in EventsIds
                     /\ c.fallback \in {"fail", "requires-capability"}
                     /\ c.id \in NativeCases => c.fallback # "fail"
    BY DEF EventsIds, NativeCases
  <2> HIDE DEF C
  <2> QED
    BY <2>1, <2>2, <2>3, IsPart
<1>8. Part(Matrix!Runtime, RuntimeIds)
  <2> DEFINE C == {Matrix!NativeOnly("function-bindings-openapi-extension", "function-app"),
                   Matrix!NativeOnly("app-service-apispecpath-runtime", "app-service")}
  <2>1. Range(Matrix!Runtime) = C /\ Matrix!Runtime \in Seq(C)
    BY DEF Matrix!Runtime, Range
  <2>2. \A c, d \in C : c.id = d.id => c = d
    OBVIOUS
  <2>3. \A c \in C : /\ c.id \in RuntimeIds
                     /\ c.fallback \in {"fail", "requires-capability"}
                     /\ c.id \in NativeCases => c.fallback # "fail"
    BY DEF RuntimeIds, NativeCases
  <2> HIDE DEF C
  <2> QED
    BY <2>1, <2>2, <2>3, IsPart
<1>9. Part(Matrix!Local, LocalIds)
  <2> DEFINE C == {Matrix!Case("local-r3-format-parser-matrix", None, "local-only", "fail")}
  <2>1. Range(Matrix!Local) = C /\ Matrix!Local \in Seq(C)
    BY DEF Matrix!Local, Range
  <2>2. \A c, d \in C : c.id = d.id => c = d
    OBVIOUS
  <2>3. \A c \in C : /\ c.id \in LocalIds
                     /\ c.fallback \in {"fail", "requires-capability"}
                     /\ c.id \in NativeCases => c.fallback # "fail"
    BY DEF LocalIds, NativeCases
  <2> HIDE DEF C
  <2> QED
    BY <2>1, <2>2, <2>3, IsPart
<1> QED
  BY <1>1, <1>2, <1>3, <1>4, <1>5, <1>6, <1>7, <1>8, <1>9

LEMMA SameFilter ==
  ASSUME NEW s, NEW K
  PROVE  Matrix!Filter(s, K) = Filter(s, K) /\ Matrix!Range(s) = Range(s)
  BY DEF Matrix!Filter, Matrix!Kept, Filter, Kept, Matrix!Range, Range

AllIds ==
  BaselineIds \cup CleanRepoIds \cup VersionsIds \cup FormatsIds \cup CenterIds
    \cup IntegrationIds \cup EventsIds \cup RuntimeIds \cup LocalIds

LEMMA CatalogIsSound == Part(Matrix!Catalog, AllIds)
<1> DEFINE I2 == BaselineIds \cup CleanRepoIds
           I3 == I2 \cup VersionsIds
           I4 == I3 \cup FormatsIds
           I5 == I4 \cup CenterIds
           I6 == I5 \cup IntegrationIds
           I7 == I6 \cup EventsIds
           I8 == I7 \cup RuntimeIds
           S2 == Matrix!Baseline \o Matrix!CleanRepo
           S3 == S2 \o Matrix!Versions
           S4 == S3 \o Matrix!Formats
           S5 == S4 \o Matrix!Center
           S6 == S5 \o Matrix!Integration
           S7 == S6 \o Matrix!Events
           S8 == S7 \o Matrix!Runtime
<1>d. /\ BaselineIds \cap CleanRepoIds = {} /\ I2 \cap VersionsIds = {}
      /\ I3 \cap FormatsIds = {} /\ I4 \cap CenterIds = {} /\ I5 \cap IntegrationIds = {}
      /\ I6 \cap EventsIds = {} /\ I7 \cap RuntimeIds = {} /\ I8 \cap LocalIds = {}
  BY DEF BaselineIds, CleanRepoIds, VersionsIds, FormatsIds, CenterIds, IntegrationIds,
     EventsIds, RuntimeIds, LocalIds
<1>c. Matrix!Catalog = S8 \o Matrix!Local
  BY DEF Matrix!Catalog
<1>i. AllIds = I8 \cup LocalIds
  BY DEF AllIds
<1> HIDE DEF I2, I3, I4, I5, I6, I7, I8, S2, S3, S4, S5, S6, S7, S8
<1>2. Part(S2, I2)
  BY CatalogParts, <1>d, JoinedParts DEF S2, I2
<1>3. Part(S3, I3)
  BY CatalogParts, <1>2, <1>d, JoinedParts DEF S3, I3
<1>4. Part(S4, I4)
  BY CatalogParts, <1>3, <1>d, JoinedParts DEF S4, I4
<1>5. Part(S5, I5)
  BY CatalogParts, <1>4, <1>d, JoinedParts DEF S5, I5
<1>6. Part(S6, I6)
  BY CatalogParts, <1>5, <1>d, JoinedParts DEF S6, I6
<1>7. Part(S7, I7)
  BY CatalogParts, <1>6, <1>d, JoinedParts DEF S7, I7
<1>8. Part(S8, I8)
  BY CatalogParts, <1>7, <1>d, JoinedParts DEF S8, I8
<1> QED
  BY CatalogParts, <1>8, <1>d, <1>c, <1>i, JoinedParts
-----------------------------------------------------------------------------
Size == Matrix!Size
Blank == Matrix!Blank

\* A row that says no more than its case has shown.
Truthful(r, c) ==
  /\ r.id = c.id
  /\ r.status = "pass" => /\ c.gate \notin missing
                          /\ Matrix!Expected(c, r.answer)
                          /\ c.id \in NativeCases => r.answer = "native"

Busy == {"temp", "seed", "call", "remove"}

Pool ==
  /\ DOMAIN at = Workers /\ DOMAIN step = Workers /\ DOMAIN row = Workers
  /\ selected = Matrix!Requested(CaseFilter)

\* Gates are passed before a case is called, and rows are true when they are
\* written and where they are put.
Truth ==
  /\ \A w \in Workers : step[w] \in {"seed", "call"} => selected[at[w]].gate \notin missing
  /\ \A w \in Workers : step[w] = "remove" => Truthful(row[w], selected[at[w]])
  /\ \A i \in 1 .. Size : results[i] = Blank \/ Truthful(results[i], selected[i])

\* Unless the pool has rejected, a case that was taken has its row or a worker.
Complete ==
  /\ verdict # "rejected" =>
       /\ \A i \in 1 .. Size : i < next =>
            \/ results[i].id = selected[i].id
            \/ \E w \in Workers : at[w] = i /\ step[w] \in Busy
       /\ \A w \in Workers : step[w] = "end" => next = Size + 1
  /\ verdict = "returned" => \A w \in Workers : step[w] = "end"

Undisturbed ==
  ~ lost /\ "restore" \notin Faults => public = TRUE /\ \A i \in 1 .. Size : called[i]

MatrixInv == Matrix!TypeOK /\ Pool /\ Truth /\ Complete /\ Undisturbed

LEMMA SelectedFacts ==
  ASSUME selected = Matrix!Requested(CaseFilter)
  PROVE  /\ Size \in Nat /\ DOMAIN selected = 1 .. Size
         /\ \A i, j \in 1 .. Size : selected[i].id = selected[j].id => selected[i] = selected[j]
         /\ \A i \in 1 .. Size :
              /\ selected[i].fallback \in {"fail", "requires-capability"}
              /\ selected[i].id \in NativeCases => selected[i].fallback # "fail"
<1> DEFINE C == Matrix!Catalog
           K == {c \in Matrix!Range(C) : CaseFilter = {} \/ c.id \in CaseFilter}
<1>1. selected = Filter(C, K)
  BY SameFilter DEF Matrix!Requested
<1>2. Part(C, AllIds)
  BY CatalogIsSound
<1> HIDE DEF C, K
<1>3. C \in Seq(Range(C))
  BY <1>2 DEF Part
<1>4. selected \in Seq(Range(C))
  BY <1>1, <1>3, FilterRange
<1>5. /\ Len(selected) \in Nat /\ DOMAIN selected = 1 .. Len(selected)
      /\ \A i \in 1 .. Len(selected) : selected[i] \in Range(C)
  BY <1>4, LenProperties, ElementOfSeq
<1>6. /\ \A i, j \in 1 .. Len(selected) : selected[i].id = selected[j].id => selected[i] = selected[j]
      /\ \A i \in 1 .. Len(selected) :
           /\ selected[i].fallback \in {"fail", "requires-capability"}
           /\ selected[i].id \in NativeCases => selected[i].fallback # "fail"
  BY <1>2, <1>5 DEF Part
<1> QED
  BY <1>5, <1>6 DEF Size, Matrix!Size

LEMMA MatrixStarts == Matrix!Init => MatrixInv
<1> SUFFICES ASSUME Matrix!Init PROVE MatrixInv
  OBVIOUS
<1> USE DEF Matrix!Init, Size, Blank
<1>1. Size \in Nat
  BY SelectedFacts
<1>2. Matrix!TypeOK
  <2>1. missing \subseteq Absent /\ next \in 1 .. Matrix!Size + 1
    BY <1>1
  <2>2. \A w \in Workers : at[w] = 0 /\ step[w] = "off"
    OBVIOUS
  <2>3. DOMAIN results = 1 .. Matrix!Size
    OBVIOUS
  <2>4. public \in BOOLEAN /\ called \in [1 .. Matrix!Size -> BOOLEAN] /\ lost \in BOOLEAN
    OBVIOUS
  <2>5. verdict \in {"open", "returned", "rejected"}
    OBVIOUS
  <2> QED
    BY <1>1, <2>1, <2>2, <2>3, <2>4, <2>5 DEF Matrix!TypeOK
<1>3. Pool
  BY DEF Pool
<1>4. Truth
  BY DEF Truth
<1>5. Complete
  BY <1>1 DEF Complete
<1>6. Undisturbed
  BY DEF Undisturbed
<1> QED
  BY <1>2, <1>3, <1>4, <1>5, <1>6 DEF MatrixInv

\* What Judged makes of an answer.
LEMMA JudgedIsTrue ==
  ASSUME NEW c, NEW a, c.fallback \in {"fail", "requires-capability"},
         c.id \in NativeCases => c.fallback # "fail", c.gate \notin missing
  PROVE  Truthful(Matrix!Row(c, Matrix!Judged(c, a), a), c)
<1> DEFINE r == Matrix!Row(c, Matrix!Judged(c, a), a)
<1>1. r.id = c.id /\ r.status = Matrix!Judged(c, a) /\ r.answer = a
  BY DEF Matrix!Row
<1>2. Matrix!Judged(c, a) = "pass" => Matrix!Expected(c, a) /\ (c.fallback # "fail" => a = "native")
  BY Zenon DEF Matrix!Judged
<1> HIDE DEF r
<1>3. Truthful(r, c)
  BY <1>1, <1>2 DEF Truthful
<1> QED
  BY <1>3 DEF r

\* The cases of a run are chosen once, and capabilities do not come back.
LEMMA InputStays ==
  ASSUME [Matrix!Next]_(Matrix!vars)
  PROVE  UNCHANGED <<selected, missing>> /\ Size' = Size
<1>1. UNCHANGED <<selected, missing>>
  BY DEF Matrix!Next, Matrix!vars, Matrix!input, Matrix!Return, Matrix!Take, Matrix!Workspace,
     Matrix!WorkspaceThrows, Matrix!Seed, Matrix!Call, Matrix!CallCleared,
     Matrix!CallSeedFails, Matrix!Remove
<1> QED
  BY <1>1 DEF Size, Matrix!Size

LEMMA MatrixTypeStep == MatrixInv /\ [Matrix!Next]_(Matrix!vars) => Matrix!TypeOK' /\ Pool'
<1> SUFFICES ASSUME MatrixInv, [Matrix!Next]_(Matrix!vars) PROVE Matrix!TypeOK' /\ Pool'
  OBVIOUS
<1> USE DEF Size
<1>i. UNCHANGED <<selected, missing>> /\ Size' = Size
  BY InputStays
<1>t. Matrix!TypeOK /\ Pool /\ Size \in Nat
  BY SelectedFacts DEF MatrixInv, Pool
\* A worker goes on to another step of the case it is at.
<1>s. ASSUME NEW w \in Workers, NEW t \in {"off", "seed", "call", "remove", "end"},
             step[w] \in Busy, step' = [step EXCEPT ![w] = t], UNCHANGED <<next, at>>,
             DOMAIN row' = Workers, DOMAIN results' = 1 .. Size,
             public' \in BOOLEAN, called' \in [1 .. Size -> BOOLEAN], lost' \in BOOLEAN,
             verdict' \in {"open", "returned", "rejected"}
      PROVE  Matrix!TypeOK' /\ Pool'
  <2>1. \A v \in Workers : step'[v] = IF v = w THEN t ELSE step[v]
    BY <1>s, <1>t DEF Pool
  <2>2. at[w] > 0 
    BY <1>s, <1>t DEF Busy, Matrix!TypeOK
  <2>3. Matrix!TypeOK'
    BY <1>s, <1>i, <1>t, <2>1, <2>2 DEF Matrix!TypeOK
  <2>4. Pool'
    BY <1>s, <1>i, <1>t DEF Pool
  <2> QED
    BY <2>3, <2>4
<1>1. ASSUME NEW w \in Workers, Matrix!Take(w)
      PROVE  Matrix!TypeOK' /\ Pool'
  <2>1. /\ step[w] = "off"
        /\ UNCHANGED <<row, results, public, called, lost, verdict>>
        /\ \/ /\ next <= Size /\ at' = [at EXCEPT ![w] = next] /\ next' = next + 1
              /\ step' = [step EXCEPT ![w] = "temp"]
           \/ step' = [step EXCEPT ![w] = "end"] /\ UNCHANGED <<at, next>>
    BY <1>1 DEF Matrix!Take
  <2>2. Pool'
    BY <1>i, <1>t, <2>1 DEF Pool
  <2>3. \A v \in Workers : step'[v] = step[v] \/ (v = w /\ step'[v] = "end")
                             \/ (v = w /\ step'[v] = "temp" /\ at'[v] = next /\ next <= Size)
    BY <1>t, <2>1 DEF Pool
  <2>4. \A v \in Workers : at'[v] = at[v] \/ (v = w /\ at'[v] = next /\ next <= Size)
    BY <1>t, <2>1 DEF Pool
  <2>5. next \in 1 .. Size + 1 /\ next' \in 1 .. Size + 1
    BY <1>t, <2>1 DEF Matrix!TypeOK
  <2>6. \A v \in Workers : /\ at'[v] \in 0 .. Size
                           /\ step'[v] \in {"temp", "seed", "call", "remove"} => at'[v] > 0
    <3> SUFFICES ASSUME NEW v \in Workers
                 PROVE  /\ at'[v] \in 0 .. Size
                        /\ step'[v] \in {"temp", "seed", "call", "remove"} => at'[v] > 0
      OBVIOUS
    <3>1. at[v] \in 0 .. Size /\ (step[v] \in {"temp", "seed", "call", "remove"} => at[v] > 0)
      BY <1>t DEF Matrix!TypeOK
    <3> QED
      BY <1>t, <2>3, <2>4, <2>5, <3>1
  <2> QED
    BY <1>i, <1>t, <2>1, <2>2, <2>3, <2>5, <2>6 DEF Matrix!TypeOK
<1>2. ASSUME NEW w \in Workers, Matrix!Workspace(w)
      PROVE  Matrix!TypeOK' /\ Pool'
  <2>1. /\ step[w] = "temp" /\ UNCHANGED <<next, at, results, public, called, lost, verdict>>
        /\ \E t \in {"remove", "seed", "call"} : step' = [step EXCEPT ![w] = t]
        /\ DOMAIN row' = DOMAIN row
    BY <1>2 DEF Matrix!Workspace
  <2> QED
    BY <1>s, <1>t, <2>1 DEF Busy, Matrix!TypeOK, Pool
<1>3. ASSUME NEW w \in Workers, Matrix!WorkspaceThrows(w) \/ Matrix!Seed(w)
      PROVE  Matrix!TypeOK' /\ Pool'
  BY <1>3, <1>s, <1>t DEF Matrix!WorkspaceThrows, Matrix!Seed, Busy, Matrix!TypeOK, Pool
<1>4. ASSUME NEW w \in Workers,
             Matrix!Call(w) \/ Matrix!CallCleared(w) \/ Matrix!CallSeedFails(w)
      PROVE  Matrix!TypeOK' /\ Pool'
  <2>1. /\ step[w] = "call" /\ UNCHANGED <<next, at, results, verdict>>
        /\ step' = [step EXCEPT ![w] = "remove"]
        /\ DOMAIN row' = DOMAIN row
    BY <1>4 DEF Matrix!Call, Matrix!CallCleared, Matrix!CallSeedFails, Matrix!Called
  <2>2. public' \in BOOLEAN /\ lost' \in BOOLEAN
    BY <1>4, <1>t DEF Matrix!Call, Matrix!CallCleared, Matrix!CallSeedFails, Matrix!TypeOK
  <2>3. called' = called \/ called' = [called EXCEPT ![at[w]] = public]
    BY <1>4 DEF Matrix!Call, Matrix!CallCleared, Matrix!CallSeedFails
  <2>4. called' \in [1 .. Size -> BOOLEAN]
    BY <1>t, <2>3 DEF Matrix!TypeOK
  <2> QED
    BY <1>s, <1>t, <2>1, <2>2, <2>4 DEF Busy, Matrix!TypeOK, Pool
<1>5. ASSUME NEW w \in Workers, Matrix!Remove(w)
      PROVE  Matrix!TypeOK' /\ Pool'
  <2>1. /\ step[w] = "remove" /\ UNCHANGED <<next, at, row, public, called, lost, verdict>>
        /\ step' = [step EXCEPT ![w] = "off"]
        /\ DOMAIN results' = DOMAIN results
    BY <1>5 DEF Matrix!Remove
  <2> QED
    BY <1>s, <1>t, <2>1 DEF Busy, Matrix!TypeOK, Pool
<1>6. CASE Matrix!Return
  BY <1>6, <1>i, <1>t DEF Matrix!Return, Matrix!TypeOK, Pool
<1>7. CASE UNCHANGED Matrix!vars
  BY <1>7, <1>i, <1>t DEF Matrix!vars, Matrix!TypeOK, Pool
<1> QED
  BY <1>1, <1>2, <1>3, <1>4, <1>5, <1>6, <1>7 DEF Matrix!Next

LEMMA TruthStep == MatrixInv /\ [Matrix!Next]_(Matrix!vars) => Truth'
<1> SUFFICES ASSUME MatrixInv, [Matrix!Next]_(Matrix!vars) PROVE Truth'
  OBVIOUS
<1>i. UNCHANGED <<selected, missing>> /\ Size' = Size
  BY InputStays
<1>t. Matrix!TypeOK /\ Pool /\ Truth /\ Size \in Nat
  BY SelectedFacts DEF MatrixInv, Pool
<1>a. \A w \in Workers : step[w] \in Busy => at[w] \in 1 .. Size
  BY <1>t DEF Matrix!TypeOK, Busy, Size
\* What was true stays so.
<1>b. \A r, c : Truthful(r, c) => Truthful(r, c)'
  BY <1>i DEF Truthful
<1>s. ASSUME NEW w \in Workers, NEW t, step' = [step EXCEPT ![w] = t], UNCHANGED <<at, results>>,
             row' = row \/ \E r : row' = [row EXCEPT ![w] = r],
             t \in {"seed", "call"} => selected[at[w]].gate \notin missing,
             t = "remove" => Truthful(row'[w], selected[at[w]])
      PROVE  Truth'
  <2>1. \A v \in Workers : step'[v] = IF v = w THEN t ELSE step[v]
    BY <1>s, <1>t DEF Pool
  <2>2. \A v \in Workers : v # w => row'[v] = row[v]
    BY <1>s, <1>t DEF Pool
  <2>3. \A v \in Workers : step'[v] = "remove" => Truthful(row'[v], selected[at[v]])
    BY <1>s, <1>t, <2>1, <2>2 DEF Truth
  <2>4. \A v \in Workers : step'[v] \in {"seed", "call"} => selected[at[v]].gate \notin missing
    BY <1>s, <1>t, <2>1, <2>2 DEF Truth
  <2> QED
    BY <1>i, <1>s, <1>t, <2>3, <2>4 DEF Truth, Truthful, Blank, Matrix!Blank
<1>1. ASSUME NEW w \in Workers, Matrix!Take(w)
      PROVE  Truth'
  <2>1. /\ step[w] = "off" /\ UNCHANGED <<row, results>>
        /\ DOMAIN at' = DOMAIN at
        /\ \/ step' = [step EXCEPT ![w] = "temp"]
           \/ step' = [step EXCEPT ![w] = "end"]
        /\ at' = at \/ at' = [at EXCEPT ![w] = next]
    BY <1>1 DEF Matrix!Take
  <2>2. \A v \in Workers : v # w => step'[v] = step[v] /\ at'[v] = at[v]
    BY <1>t, <2>1 DEF Pool
  <2>3. step'[w] \in {"temp", "end"}
    BY <1>t, <2>1 DEF Pool
  <2>4. \A v \in Workers : step'[v] \in {"seed", "call"} => selected'[at'[v]].gate \notin missing'
    BY <1>i, <1>t, <2>2, <2>3 DEF Truth
  <2>5. \A v \in Workers : step'[v] = "remove" => Truthful(row'[v], selected[at'[v]])
    BY <1>i, <1>t, <2>1, <2>2, <2>3 DEF Truth
  <2> QED
    BY <1>i, <1>t, <2>1, <2>4, <2>5 DEF Truth, Truthful, Blank, Matrix!Blank
<1>2. ASSUME NEW w \in Workers, Matrix!Workspace(w)
      PROVE  Truth'
  <2> DEFINE c == selected[at[w]]
             blocked == Matrix!Gated(c) \/ c.id = "function-bindings-openapi-extension"
             r == IF blocked THEN Matrix!Row(c, "requires-capability", None) ELSE Blank
             t == IF blocked THEN "remove" ELSE IF c.id \in Seeding THEN "seed" ELSE "call"
  <2>1. /\ UNCHANGED <<at, results>>
        /\ step' = [step EXCEPT ![w] = t] /\ row' = [row EXCEPT ![w] = r]
    BY <1>2 DEF Matrix!Workspace, Blank
  <2>2. row'[w] = r
    BY <1>t, <2>1 DEF Pool
  <2>3. t \in {"seed", "call"} => c.gate \notin missing
    BY DEF Matrix!Gated
  <2>4. t = "remove" => Truthful(r, c)
    BY DEF Matrix!Row, Truthful
  <2> HIDE DEF t, r
  <2>5. row' = row \/ \E q : row' = [row EXCEPT ![w] = q]
    BY <2>1
  <2> QED
    BY <1>s, <2>1, <2>2, <2>3, <2>4, <2>5
<1>3. ASSUME NEW w \in Workers, Matrix!WorkspaceThrows(w)
      PROVE  Truth'
  <2>1. UNCHANGED <<at, row, results>> /\ step' = [step EXCEPT ![w] = "end"]
    BY <1>3 DEF Matrix!WorkspaceThrows
  <2> QED
    BY <1>s, <2>1
<1>4. ASSUME NEW w \in Workers, Matrix!Seed(w)
      PROVE  Truth'
  <2>1. UNCHANGED <<at, row, results>> /\ step' = [step EXCEPT ![w] = "call"]
    BY <1>4 DEF Matrix!Seed
  <2>2. selected[at[w]].gate \notin missing
    BY <1>4, <1>t DEF Matrix!Seed, Truth
  <2> QED
    BY <1>s, <2>1, <2>2
<1>5. ASSUME NEW w \in Workers,
             Matrix!Call(w) \/ Matrix!CallCleared(w) \/ Matrix!CallSeedFails(w)
      PROVE  Truth'
  <2> DEFINE c == selected[at[w]]
  <2>1. UNCHANGED <<at, results>> /\ step[w] = "call" /\ step' = [step EXCEPT ![w] = "remove"]
    BY <1>5 DEF Matrix!Call, Matrix!CallCleared, Matrix!CallSeedFails, Matrix!Called
  <2>2. \/ \E a \in Matrix!Answers :
             row' = [row EXCEPT ![w] = Matrix!Row(c, Matrix!Judged(c, a), a)]
        \/ row' = [row EXCEPT ![w] = Matrix!Row(c, "requires-capability", None)]
    BY <1>5 DEF Matrix!Call, Matrix!CallCleared, Matrix!CallSeedFails, Matrix!Called
  <2>3. /\ c.gate \notin missing
        /\ c.fallback \in {"fail", "requires-capability"}
        /\ c.id \in NativeCases => c.fallback # "fail"
    BY <1>a, <1>t, <2>1, SelectedFacts DEF Truth, Busy, Pool
  <2>4. Truthful(Matrix!Row(c, "requires-capability", None), c)
    BY DEF Matrix!Row, Truthful
  <2>5. \A a \in Matrix!Answers : Truthful(Matrix!Row(c, Matrix!Judged(c, a), a), c)
    <3> HIDE DEF c
    <3> QED
      BY <2>3, JudgedIsTrue
  <2>6. PICK r : row' = [row EXCEPT ![w] = r] /\ Truthful(r, c)
    BY <2>2, <2>4, <2>5
  <2>7. row'[w] = r
    BY <1>t, <2>6 DEF Pool
  <2> QED
    BY <1>s, <2>1, <2>6, <2>7
<1>6. ASSUME NEW w \in Workers, Matrix!Remove(w)
      PROVE  Truth'
  <2>1. /\ UNCHANGED <<at, row>> /\ step[w] = "remove" /\ step' = [step EXCEPT ![w] = "off"]
        /\ results' = [results EXCEPT ![at[w]] = row[w]]
    BY <1>6 DEF Matrix!Remove
  <2>2. \A v \in Workers : step'[v] = IF v = w THEN "off" ELSE step[v]
    BY <1>t, <2>1 DEF Pool
  <2>3. \A i \in 1 .. Size : results'[i] = results[i] \/ (i = at[w] /\ results'[i] = row[w])
    BY <1>t, <2>1 DEF Matrix!TypeOK, Size
  <2>4. Truthful(row[w], selected[at[w]])
    BY <1>t, <2>1 DEF Truth
  <2>5. \A i \in 1 .. Size : results'[i] = Blank \/ Truthful(results'[i], selected[i])
    BY <1>t, <2>3, <2>4 DEF Truth
  <2> QED
    BY <1>i, <1>t, <2>1, <2>2, <2>5 DEF Truth, Truthful, Blank, Matrix!Blank
<1>7. CASE Matrix!Return \/ UNCHANGED Matrix!vars
  <2>1. UNCHANGED <<at, step, row, results>>
    BY <1>7 DEF Matrix!Return, Matrix!vars
  <2> QED
    BY <1>i, <1>t, <2>1 DEF Truth, Truthful, Blank, Matrix!Blank
<1> QED
  BY <1>1, <1>2, <1>3, <1>4, <1>5, <1>6, <1>7 DEF Matrix!Next

LEMMA CompleteStep == MatrixInv /\ [Matrix!Next]_(Matrix!vars) => Complete'
<1> SUFFICES ASSUME MatrixInv, [Matrix!Next]_(Matrix!vars) PROVE Complete'
  OBVIOUS
<1>i. UNCHANGED <<selected, missing>> /\ Size' = Size
  BY InputStays
<1>t. Matrix!TypeOK /\ Pool /\ Truth /\ Complete /\ Size \in Nat
  BY SelectedFacts DEF MatrixInv, Pool
<1>n. next \in 1 .. Size + 1
  BY <1>t DEF Matrix!TypeOK, Size
\* A worker goes on with its case.
<1>s. ASSUME NEW w \in Workers, NEW t \in Busy, step[w] \in Busy,
             step' = [step EXCEPT ![w] = t],
             UNCHANGED <<next, at, results, verdict>>
      PROVE  Complete'
  <2>1. \A v \in Workers : step'[v] = IF v = w THEN t ELSE step[v]
    BY <1>s, <1>t DEF Pool
  <2>2. \A v \in Workers : (step'[v] = "end" <=> step[v] = "end") /\ (step'[v] \in Busy <=> step[v] \in Busy)
    BY <1>s, <2>1 DEF Busy
  <2> QED
    BY <1>i, <1>s, <1>t, <2>2 DEF Complete
<1>1. ASSUME NEW w \in Workers, Matrix!Take(w)
      PROVE  Complete'
  <2>0. /\ step[w] = "off" /\ UNCHANGED <<results, verdict>>
        /\ \/ /\ next <= Size /\ at' = [at EXCEPT ![w] = next] /\ next' = next + 1
              /\ step' = [step EXCEPT ![w] = "temp"]
           \/ ~ (next <= Size) /\ step' = [step EXCEPT ![w] = "end"] /\ UNCHANGED <<at, next>>
    BY <1>1 DEF Matrix!Take, Size
  <2>1. \A v \in Workers : v # w => step'[v] = step[v] /\ at'[v] = at[v]
    BY <1>t, <2>0 DEF Pool
  <2>2. verdict # "returned"
    BY <1>t, <2>0 DEF Complete
  <2>3. CASE next <= Size
    <3>1. next' = next + 1 /\ at'[w] = next /\ step'[w] = "temp"
      BY <1>t, <2>0, <2>3 DEF Pool
    <3>2. ASSUME verdict # "rejected", NEW i \in 1 .. Size, i < next'
          PROVE  \/ results'[i].id = selected'[i].id
                 \/ \E v \in Workers : at'[v] = i /\ step'[v] \in Busy
      <4>1. CASE i = next
        BY <3>1, <4>1 DEF Busy
      <4>2. CASE i < next
        <5>1. \/ results[i].id = selected[i].id
              \/ \E v \in Workers : at[v] = i /\ step[v] \in Busy
          BY <1>t, <3>2, <4>2 DEF Complete
        <5>2. step[w] \notin Busy
          BY <2>0 DEF Busy
        <5> QED
          BY <1>i, <2>0, <2>1, <5>1, <5>2
      <4> QED
        BY <1>n, <3>1, <3>2, <4>1, <4>2
    <3>3. verdict # "rejected" => \A v \in Workers : step'[v] # "end"
      BY <1>t, <1>n, <2>1, <2>3, <3>1 DEF Complete
    <3> QED
      BY <1>i, <2>0, <2>2, <3>2, <3>3 DEF Complete
  <2>4. CASE ~ (next <= Size)
    <3>1. UNCHANGED <<at, next>> /\ step'[w] = "end" /\ next = Size + 1
      BY <1>n, <1>t, <2>0, <2>4 DEF Pool
    <3>2. \A v \in Workers : step[v] \in Busy => step'[v] \in Busy
      BY <2>0, <2>1 DEF Busy
    <3> QED
      BY <1>i, <1>t, <2>0, <2>1, <2>2, <3>1, <3>2 DEF Complete
  <2> QED
    BY <2>3, <2>4
<1>2. ASSUME NEW w \in Workers, Matrix!Workspace(w)
      PROVE  Complete'
  <2>1. /\ step[w] = "temp" /\ UNCHANGED <<next, at, results, verdict>>
        /\ \E t \in {"remove", "seed", "call"} : step' = [step EXCEPT ![w] = t]
    BY <1>2 DEF Matrix!Workspace
  <2> QED
    BY <1>s, <2>1 DEF Busy
<1>3. ASSUME NEW w \in Workers, Matrix!WorkspaceThrows(w)
      PROVE  Complete'
  BY <1>3 DEF Matrix!WorkspaceThrows, Complete
<1>4. ASSUME NEW w \in Workers,
             Matrix!Seed(w) \/ Matrix!Call(w) \/ Matrix!CallCleared(w) \/ Matrix!CallSeedFails(w)
      PROVE  Complete'
  <2>1. /\ step[w] \in {"seed", "call"} /\ UNCHANGED <<next, at, results, verdict>>
        /\ \E t \in {"remove", "call"} : step' = [step EXCEPT ![w] = t]
    BY <1>4 DEF Matrix!Seed, Matrix!Call, Matrix!CallCleared, Matrix!CallSeedFails, Matrix!Called
  <2> QED
    BY <1>s, <2>1 DEF Busy
<1>5. ASSUME NEW w \in Workers, Matrix!Remove(w)
      PROVE  Complete'
  <2>1. /\ step[w] = "remove" /\ UNCHANGED <<next, at, verdict>>
        /\ step' = [step EXCEPT ![w] = "off"]
        /\ results' = [results EXCEPT ![at[w]] = row[w]]
    BY <1>5 DEF Matrix!Remove
  <2>2. \A v \in Workers : step'[v] = IF v = w THEN "off" ELSE step[v]
    BY <1>t, <2>1 DEF Pool
  <2>3. \A i \in 1 .. Size : results'[i] = IF i = at[w] THEN row[w] ELSE results[i]
    BY <1>t, <2>1 DEF Matrix!TypeOK, Size
  <2>4. row[w].id = selected[at[w]].id
    BY <1>t, <2>1 DEF Truth, Truthful
  <2>5. ASSUME verdict # "rejected", NEW i \in 1 .. Size, i < next
        PROVE  \/ results'[i].id = selected[i].id
               \/ \E v \in Workers : at[v] = i /\ step'[v] \in Busy
    <3>1. CASE i = at[w]
      BY <2>3, <2>4, <3>1
    <3>2. CASE i # at[w]
      <4>1. \/ results[i].id = selected[i].id
            \/ \E v \in Workers : at[v] = i /\ step[v] \in Busy
        BY <1>t, <2>5 DEF Complete
      <4> QED
        BY <2>2, <2>3, <3>2, <4>1
    <3> QED
      BY <3>1, <3>2
  <2>6. \A v \in Workers : step'[v] = "end" => step[v] = "end"
    BY <2>2
  <2>7. verdict # "returned"
    BY <1>t, <2>1 DEF Complete
  <2> QED
    BY <1>i, <1>t, <2>1, <2>5, <2>6, <2>7 DEF Complete
<1>6. CASE Matrix!Return
  BY <1>6, <1>i, <1>t DEF Matrix!Return, Complete
<1>7. CASE UNCHANGED Matrix!vars
  BY <1>7, <1>i, <1>t DEF Matrix!vars, Complete
<1> QED
  BY <1>1, <1>2, <1>3, <1>4, <1>5, <1>6, <1>7 DEF Matrix!Next

LEMMA UndisturbedStep == MatrixInv /\ [Matrix!Next]_(Matrix!vars) => Undisturbed'
<1> SUFFICES ASSUME MatrixInv, [Matrix!Next]_(Matrix!vars), ~ lost', "restore" \notin Faults
             PROVE  public' = TRUE /\ \A i \in 1 .. Size' : called'[i]
  BY DEF Undisturbed
<1>i. Size' = Size
  BY InputStays
<1>t. Matrix!TypeOK
  BY DEF MatrixInv
<1>q. ~ lost => public = TRUE /\ \A i \in 1 .. Size : called[i]
  BY DEF MatrixInv, Undisturbed
<1>1. ASSUME NEW w \in Workers, Matrix!Call(w)
      PROVE  public' = TRUE /\ \A i \in 1 .. Size' : called'[i]
  <2>1. UNCHANGED <<public, lost>> /\ called' = [called EXCEPT ![at[w]] = public]
    BY <1>1 DEF Matrix!Call
  <2> QED
    BY <1>i, <1>q, <1>t, <2>1 DEF Matrix!TypeOK, Size
<1>2. ASSUME NEW w \in Workers, Matrix!CallCleared(w) \/ Matrix!CallSeedFails(w)
      PROVE  public' = TRUE /\ \A i \in 1 .. Size' : called'[i]
  BY <1>2, <1>i, <1>q DEF Matrix!CallCleared, Matrix!CallSeedFails
<1>3. ASSUME NEW w \in Workers,
             Matrix!Take(w) \/ Matrix!Workspace(w) \/ Matrix!WorkspaceThrows(w)
               \/ Matrix!Seed(w) \/ Matrix!Remove(w)
      PROVE  public' = TRUE /\ \A i \in 1 .. Size' : called'[i]
  BY <1>3, <1>i, <1>q DEF Matrix!Take, Matrix!Workspace, Matrix!WorkspaceThrows, Matrix!Seed,
     Matrix!Remove
<1>4. CASE Matrix!Return \/ UNCHANGED Matrix!vars
  BY <1>4, <1>i, <1>q DEF Matrix!Return, Matrix!vars
<1> QED
  BY <1>1, <1>2, <1>3, <1>4 DEF Matrix!Next

LEMMA MatrixStays == MatrixInv /\ [Matrix!Next]_(Matrix!vars) => MatrixInv'
  BY MatrixTypeStep, TruthStep, CompleteStep, UndisturbedStep DEF MatrixInv

\* The matrix, by itself.
LEMMA MatrixHolds == Matrix!Spec => []MatrixInv
  BY MatrixStarts, MatrixStays, PTL DEF Matrix!Spec
-----------------------------------------------------------------------------
(* Both parts together.                                                     *)

\* A behaviour of the harness is one of the stack and one of the matrix.

LEMMA BothParts == BothSpec => Spec /\ Matrix!Spec
<1>1. LiveInit \/ MatrixInit => Init /\ Matrix!Init
  BY DEF LiveInit, MatrixInit
<1>2. [LiveStep \/ MatrixStep]_all => [Next]_vars /\ [Matrix!Next]_(Matrix!vars)
  BY DEF LiveStep, MatrixStep, all, cases, Matrix!vars, Matrix!input
<1> QED
  BY <1>1, <1>2, PTL DEF BothSpec, Spec, Matrix!Spec

\* The types of both.
THEOREM BothTyped == BothSpec => []Typed
<1>1. MatrixInv => Matrix!TypeOK
  BY DEF MatrixInv
<1> QED
  BY BothParts, LiveTypes, MatrixHolds, <1>1, PTL DEF Typed

\* A matrix that returns has a row for each selected case, in the order of the
\* catalog, and a pass stands for a call that met what the catalog asks for.
THEOREM EvidenceHolds == BothSpec => []EvidenceIsTrue
<1>1. MatrixInv => Matrix!EvidenceIsTrue
  <2> SUFFICES ASSUME MatrixInv PROVE Matrix!ResultsInOrder /\ Matrix!PassIsProof
    BY DEF Matrix!EvidenceIsTrue
  <2>t. Truth /\ Complete /\ selected = Matrix!Requested(CaseFilter)
    BY DEF MatrixInv, Pool
  <2>1. Matrix!ResultsInOrder
    <3> SUFFICES ASSUME verdict = "returned", NEW i \in 1 .. Size
                 PROVE  results[i].id = selected[i].id
      BY DEF Matrix!ResultsInOrder, Size
    <3>1. \A w \in Workers : step[w] = "end" /\ next = Size + 1
      BY <2>t DEF Complete
    <3>2. next = Size + 1 /\ \A w \in Workers : step[w] \notin Busy
      BY <3>1, WorkersAssumption DEF Busy
    <3>3. i < next
      BY <2>t, <3>2, SelectedFacts
    <3> QED
      BY <2>t, <3>2, <3>3 DEF Complete
  <2>2. Matrix!PassIsProof
    <3> SUFFICES ASSUME NEW i \in 1 .. Size, NEW j \in 1 .. Size,
                        results[i].id = selected[j].id, results[i].status = "pass"
                 PROVE  /\ selected[j].gate \notin missing
                        /\ Matrix!Expected(selected[j], results[i].answer)
                        /\ selected[j].id \in NativeCases => results[i].answer = "native"
      BY DEF Matrix!PassIsProof, Size, NativeCases
    <3>1. results[i] # Blank
      BY WorkersAssumption DEF Blank, Matrix!Blank
    <3>2. Truthful(results[i], selected[i])
      BY <2>t, <3>1 DEF Truth
    <3>3. selected[i] = selected[j]
      BY <2>t, <3>2, SelectedFacts DEF Truthful
    <3> QED
      BY <3>2, <3>3 DEF Truthful
  <2> QED
    BY <2>1, <2>2
<1> QED
  BY BothParts, MatrixHolds, <1>1, PTL DEF EvidenceIsTrue

\* No case meets the site while another one has it changed.
THEOREM SiteIsSeenWhole == BothSpec => []OthersSeeDefinition
<1>1. MatrixInv => Matrix!OthersSeeDefinition
  BY DEF MatrixInv, Undisturbed, Matrix!OthersSeeDefinition, Size
<1> QED
  BY BothParts, MatrixHolds, <1>1, PTL DEF OthersSeeDefinition
=============================================================================
