-------------------------- MODULE StagedSwapProofs --------------------------
(***************************************************************************)
(* Proofs about StagedSwap for any number of runs, any set of files and    *)
(* any combination of faults, save where a theorem names the faults it     *)
(* leaves out.                                                             *)
(***************************************************************************)
EXTENDS StagedSwap, TLAPS

(***************************************************************************)
(* What holds of the directories at each step of a run.  The staged tree   *)
(* grows into Target; from the swap on Target is the service folder and    *)
(* the prior folder, if there was one, is the backup.                      *)
(***************************************************************************)
Fresh ==
  /\ \A r \in Runs \ used : backup[r] = NoDir
  /\ pc \in {"stage", "copy"} => backup[active] = NoDir

StagePhase ==
  pc = "stage" =>
    /\ stage[active] \in Tree
    /\ canonical # NoDir => prior = canonical
    /\ \A f \in Files \ owned : stage[active][f] = Absent

CopyPhase ==
  pc = "copy" =>
    /\ stage[active] \in Tree
    /\ existed <=> canonical # NoDir
    /\ existed => prior = canonical
    /\ \A f \in Files :
         \/ f \in owned /\ stage[active][f] = active
         \/ f \notin owned /\ stage[active][f] = Absent
         \/ f \in Kept /\ existed /\ stage[active][f] = canonical[f]

SwapPhase ==
  /\ pc = "swapIn" => stage[active] = Target /\ stage[active] # NoDir
  /\ pc \in {"swapIn", "innerRestore", "restoreRename"} => canonical = NoDir
  /\ pc \in {"verify", "dropBackup"} => canonical = Target /\ canonical # NoDir
  /\ pc \in {"swapIn", "verify"} /\ existed =>
       backup[active] = prior /\ prior # NoDir
  /\ pc = "innerRestore" => existed /\ backup[active] = prior /\ prior # NoDir
  /\ pc \in {"restore", "restoreRename"} => backup[active] # NoDir

IInv == TypeOK /\ Fresh /\ StagePhase /\ CopyPhase /\ SwapPhase

-----------------------------------------------------------------------------
LEMMA RemnantsAreTrees ==
  ASSUME NEW dir \in Tree
  PROVE  /\ Remnants(dir) \subseteq Tree
         /\ NoDir \notin Remnants(dir)
<1>1. Remnants(dir) \subseteq Tree
  BY DEF Remnants, Tree
<1>. QED
  BY <1>1, ConstantsAssumption

LEMMA IInvInit == Init => IInv
<1> SUFFICES ASSUME Init PROVE IInv
  OBVIOUS
<1> USE ConstantsAssumption DEF Init
<1>1. canonical \in Dir
  BY DEF Dir, Tree, Contents
<1>2. TypeOK
  BY <1>1 DEF TypeOK, Dir, Steps
<1>3. Fresh /\ StagePhase /\ CopyPhase /\ SwapPhase
  BY DEF Fresh, StagePhase, CopyPhase, SwapPhase
<1>. QED
  BY <1>2, <1>3 DEF IInv

\* While a run is active its id is one of those drawn.
LEMMA ActiveRun == TypeOK /\ pc # "idle" => active \in used /\ active \in Runs
BY DEF TypeOK

LEMMA BeginStep ==
  ASSUME IInv, NEW r \in Runs, NEW members \in MemberSets, Begin(r, members)
  PROVE  IInv'
<1> USE ConstantsAssumption DEF IInv
<1>1. EmptyDir \in Tree
  BY DEF EmptyDir, Tree
<1>2. View \in Dir
  BY DEF TypeOK, View, Dir
<1>3. TypeOK'
  <2>1. CASE pc' = "idle"
    BY <1>1, <1>2, <2>1 DEF TypeOK, Dir, Begin, Steps, local
  <2>2. CASE pc' = "stage"
    <3>1. /\ stage' = [stage EXCEPT ![r] = EmptyDir]
          /\ backup' = [backup EXCEPT ![r] = NoDir]
          /\ prior' = View /\ active' = r /\ owned' = members
          /\ used' = used \cup {r}
          /\ existed' \in BOOLEAN
      BY <2>2 DEF Begin, TypeOK
    <3>2. UNCHANGED <<canonical, outcome, good, latest, spoiled>>
      BY <2>2 DEF Begin, TypeOK
    <3>. QED
      BY <1>1, <1>2, <2>2, <3>1, <3>2 DEF TypeOK, Dir, Steps
  <2>. QED
    BY <2>1, <2>2 DEF Begin
<1>4. CASE pc' = "idle"
  BY <1>3, <1>4 DEF Begin, TypeOK, Fresh, StagePhase, CopyPhase, SwapPhase
<1>5. CASE pc' = "stage"
  <2>1. /\ stage'[r] = EmptyDir /\ active' = r /\ canonical' = canonical
        /\ prior' = View
    BY <1>5 DEF Begin, TypeOK
  <2>2. StagePhase'
    BY <2>1, <1>1 DEF StagePhase, View, EmptyDir
  <2>3. Fresh'
    BY <1>5, <2>1 DEF Fresh, Begin, TypeOK
  <2>. QED
    BY <1>3, <1>5, <2>2, <2>3 DEF CopyPhase, SwapPhase
<1>. QED
  BY <1>4, <1>5 DEF Begin

LEMMA StageMemberStep ==
  ASSUME IInv, NEW f \in Files, StageMember(f)
  PROVE  IInv'
<1> USE ConstantsAssumption DEF IInv, Goto, End, disk, local, history
<1>1. active \in Runs /\ active \in used /\ stage[active] \in Tree
  BY DEF TypeOK, StagePhase, StageMember
<1>2. PICK bytes \in Contents :
        /\ stage' = [stage EXCEPT ![active][f] = bytes]
        /\ pc' \in {"stage", "catch"}
  BY <1>1 DEF StageMember, Contents
<1>3. stage'[active] \in Tree /\ stage' \in [Runs -> Dir]
  BY <1>1, <1>2 DEF Tree, Dir, TypeOK
<1>4. TypeOK'
  BY <1>1, <1>2, <1>3 DEF TypeOK, Dir, Steps, StageMember
<1>5. StagePhase'
  BY <1>1, <1>2, <1>3 DEF StagePhase, StageMember, TypeOK, Tree
<1>6. Fresh' /\ CopyPhase' /\ SwapPhase'
  BY <1>2 DEF Fresh, CopyPhase, SwapPhase, StageMember
<1>. QED
  BY <1>4, <1>5, <1>6

LEMMA CopySidecarStep ==
  ASSUME IInv, NEW f \in Files, CopySidecar(f)
  PROVE  IInv'
<1> USE ConstantsAssumption DEF IInv, Goto, End, disk, local, history
<1>1. /\ active \in Runs /\ active \in used /\ stage[active] \in Tree
      /\ canonical \in Tree
  BY DEF TypeOK, Dir, CopyPhase, CopySidecar
<1>2. PICK bytes \in Contents \cup {Absent} :
        /\ stage' = [stage EXCEPT ![active][f] = bytes]
        /\ \/ pc' = "copy" /\ bytes = canonical[f]
           \/ pc' = "catch"
  BY <1>1 DEF CopySidecar, Contents, Tree
<1>3. stage'[active] \in Tree /\ stage' \in [Runs -> Dir]
  BY <1>1, <1>2 DEF Tree, Dir, TypeOK
<1>4. TypeOK'
  BY <1>1, <1>2, <1>3 DEF TypeOK, Dir, Steps, CopySidecar
<1>5. CopyPhase'
  BY <1>1, <1>2, <1>3 DEF CopyPhase, CopySidecar, TypeOK, Tree, Kept
<1>6. Fresh' /\ StagePhase' /\ SwapPhase'
  BY <1>2 DEF Fresh, StagePhase, SwapPhase, CopySidecar
<1>. QED
  BY <1>4, <1>5, <1>6

\* When every kept sidecar is copied, the stage is the target.
LEMMA StageIsTarget ==
  ASSUME IInv, pc = "copy",
         existed => \A f \in Kept : stage[active][f] = canonical[f]
  PROVE  stage[active] = Target
<1> USE ConstantsAssumption DEF IInv
<1>1. stage[active] \in Tree
  BY DEF CopyPhase
<1>2. ASSUME NEW f \in Files PROVE stage[active][f] = Target[f]
  <2>1. CASE f \in owned
    BY <2>1 DEF Target, CopyPhase, Kept
  <2>2. CASE f \notin owned /\ f \in Kept /\ existed
    BY <2>2 DEF Target, CopyPhase, Kept
  <2>3. CASE f \notin owned /\ ~ (f \in Kept /\ existed)
    <3>1. stage[active][f] = Absent
      BY <2>3 DEF CopyPhase
    <3>2. f \in Sidecars /\ existed => prior[f] = Absent
      BY <2>3 DEF CopyPhase, Kept
    <3>. QED
      BY <2>3, <3>1, <3>2 DEF Target
  <2>. QED
    BY <2>1, <2>2, <2>3
<1>3. Target = [f \in Files |-> Target[f]]
  BY DEF Target
<1>. QED
  BY <1>1, <1>2, <1>3 DEF Tree

LEMMA SwapOutStep == IInv /\ SwapOut => IInv'
<1> SUFFICES ASSUME IInv, SwapOut PROVE IInv'
  OBVIOUS
<1> USE ConstantsAssumption
    DEF IInv, SwapOut, Goto, End, disk, local, history
<1>1. active \in Runs /\ active \in used
  BY DEF TypeOK
<1>2. stage[active] = Target /\ Target' = Target
  BY StageIsTarget DEF Target
<1>3. TypeOK'
  BY <1>1 DEF TypeOK, Dir, Steps
<1>4. Fresh' /\ StagePhase' /\ CopyPhase'
  BY <1>1 DEF Fresh, StagePhase, CopyPhase, TypeOK
<1>5. SwapPhase'
  BY <1>1, <1>2 DEF SwapPhase, CopyPhase, TypeOK
<1>. QED
  BY <1>3, <1>4, <1>5

LEMMA WorkStep == IInv /\ Work => IInv'
<1> SUFFICES ASSUME IInv, Work PROVE IInv'
  OBVIOUS
<1> USE ConstantsAssumption DEF IInv, Goto, End, disk, local, history
<1>0. active \in Runs /\ active \in used
  BY DEF TypeOK, Work, StageMember, StageMemberThrows, CopySidecar, StageDone,
     SwapOut, SwapOutThrows, SwapIn, InnerRestore, Verify, VerifyThrows,
     DropBackup, DropBackupThrows, Catch, CatchThrows, RestoreRemove,
     RestoreRename
<1>1. ASSUME NEW f \in Files, StageMemberThrows(f) PROVE IInv'
  <2>1. TypeOK'
    BY <1>0, <1>1 DEF TypeOK, Dir, Steps, StageMemberThrows, Tree, Contents, StagePhase
  <2>2. Fresh' /\ StagePhase' /\ CopyPhase' /\ SwapPhase'
    BY <1>0, <1>1
    DEF Fresh, StagePhase, CopyPhase, SwapPhase, TypeOK, Dir, StageMemberThrows
  <2>. QED
    BY <2>1, <2>2
<1>2. CASE StageDone
  <2>1. TypeOK'
    BY <1>0, <1>2 DEF TypeOK, Dir, Steps, StageDone
  <2>2. Fresh' /\ StagePhase' /\ CopyPhase' /\ SwapPhase'
    BY <1>0, <1>2
    DEF Fresh, StagePhase, CopyPhase, SwapPhase, TypeOK, Dir, StageDone
  <2>. QED
    BY <2>1, <2>2
<1>3. CASE SwapOutThrows
  <2>1. TypeOK'
    BY <1>0, <1>3 DEF TypeOK, Dir, Steps, SwapOutThrows
  <2>2. Fresh' /\ StagePhase' /\ CopyPhase' /\ SwapPhase'
    BY <1>0, <1>3
    DEF Fresh, StagePhase, CopyPhase, SwapPhase, TypeOK, Dir, SwapOutThrows
  <2>. QED
    BY <2>1, <2>2
<1>4. CASE SwapIn
  <2>1. TypeOK'
    BY <1>0, <1>4 DEF TypeOK, Dir, Steps, SwapIn
  <2>2. Fresh' /\ StagePhase' /\ CopyPhase' /\ SwapPhase'
    BY <1>0, <1>4
    DEF Fresh, StagePhase, CopyPhase, SwapPhase, TypeOK, Dir, SwapIn, Target
  <2>. QED
    BY <2>1, <2>2
<1>5. CASE InnerRestore
  <2>1. TypeOK'
    BY <1>0, <1>5 DEF TypeOK, Dir, Steps, InnerRestore
  <2>2. Fresh' /\ StagePhase' /\ CopyPhase' /\ SwapPhase'
    BY <1>0, <1>5
    DEF Fresh, StagePhase, CopyPhase, SwapPhase, TypeOK, Dir, InnerRestore
  <2>. QED
    BY <2>1, <2>2
<1>6. CASE Verify
  <2>1. TypeOK'
    BY <1>0, <1>6 DEF TypeOK, Dir, Steps, Verify
  <2>2. Fresh' /\ StagePhase' /\ CopyPhase' /\ SwapPhase'
    BY <1>0, <1>6
    DEF Fresh, StagePhase, CopyPhase, SwapPhase, TypeOK, Dir, Verify, Target
  <2>. QED
    BY <2>1, <2>2
<1>7. CASE VerifyThrows
  <2>1. TypeOK'
    BY <1>0, <1>7 DEF TypeOK, Dir, Steps, VerifyThrows
  <2>2. Fresh' /\ StagePhase' /\ CopyPhase' /\ SwapPhase'
    BY <1>0, <1>7
    DEF Fresh, StagePhase, CopyPhase, SwapPhase, TypeOK, Dir, VerifyThrows
  <2>. QED
    BY <2>1, <2>2
<1>8. CASE DropBackup
  <2>1. TypeOK'
    BY <1>0, <1>8 DEF TypeOK, Dir, Steps, DropBackup
  <2>2. Fresh' /\ StagePhase' /\ CopyPhase' /\ SwapPhase'
    BY <1>0, <1>8
    DEF Fresh, StagePhase, CopyPhase, SwapPhase, TypeOK, Dir, DropBackup
  <2>. QED
    BY <2>1, <2>2
<1>9. CASE DropBackupThrows
  <2>1. TypeOK'
    BY <1>0, <1>9, RemnantsAreTrees DEF TypeOK, Dir, Steps, DropBackupThrows
  <2>2. Fresh' /\ StagePhase' /\ CopyPhase' /\ SwapPhase'
    BY <1>0, <1>9, RemnantsAreTrees
    DEF Fresh, StagePhase, CopyPhase, SwapPhase, TypeOK, Dir, DropBackupThrows
  <2>. QED
    BY <2>1, <2>2
<1>10. CASE Catch
  <2>1. TypeOK'
    BY <1>0, <1>10 DEF TypeOK, Dir, Steps, Catch
  <2>2. Fresh' /\ StagePhase' /\ CopyPhase' /\ SwapPhase'
    BY <1>0, <1>10
    DEF Fresh, StagePhase, CopyPhase, SwapPhase, TypeOK, Dir, Catch
  <2>. QED
    BY <2>1, <2>2
<1>11. CASE CatchThrows
  <2>1. TypeOK'
    BY <1>0, <1>11, RemnantsAreTrees DEF TypeOK, Dir, Steps, CatchThrows
  <2>2. Fresh' /\ StagePhase' /\ CopyPhase' /\ SwapPhase'
    BY <1>0, <1>11, RemnantsAreTrees
    DEF Fresh, StagePhase, CopyPhase, SwapPhase, TypeOK, Dir, CatchThrows
  <2>. QED
    BY <2>1, <2>2
<1>12. CASE RestoreRemove
  <2>1. TypeOK'
    BY <1>0, <1>12, RemnantsAreTrees DEF TypeOK, Dir, Steps, RestoreRemove
  <2>2. Fresh' /\ StagePhase' /\ CopyPhase' /\ SwapPhase'
    BY <1>0, <1>12, RemnantsAreTrees
    DEF Fresh, StagePhase, CopyPhase, SwapPhase, TypeOK, Dir, RestoreRemove
  <2>. QED
    BY <2>1, <2>2
<1>13. CASE RestoreRename
  <2>1. TypeOK'
    BY <1>0, <1>13 DEF TypeOK, Dir, Steps, RestoreRename
  <2>2. Fresh' /\ StagePhase' /\ CopyPhase' /\ SwapPhase'
    BY <1>0, <1>13
    DEF Fresh, StagePhase, CopyPhase, SwapPhase, TypeOK, Dir, RestoreRename
  <2>. QED
    BY <2>1, <2>2
<1>. QED
  BY StageMemberStep, CopySidecarStep, SwapOutStep,
     <1>1, <1>2, <1>3, <1>4, <1>5, <1>6, <1>7, <1>8,
     <1>9, <1>10, <1>11, <1>12, <1>13 DEF Work

LEMMA IInvStep == IInv /\ [Next]_vars => IInv'
<1> SUFFICES ASSUME IInv, [Next]_vars PROVE IInv'
  OBVIOUS
<1> USE ConstantsAssumption DEF IInv, Goto, End, disk, local, history
<1>1. CASE UNCHANGED vars
  BY <1>1 DEF vars, TypeOK, Fresh, StagePhase, CopyPhase, SwapPhase, Kept,
              Target
<1>2. CASE Crash
  BY <1>2 DEF Crash, TypeOK, Fresh, StagePhase, CopyPhase, SwapPhase, Steps
<1>3. CASE CrashInRemove
  <2>1. active \in Runs /\ active \in used
    BY <1>3 DEF TypeOK, CrashInRemove
  <2>2. TypeOK'
    BY <1>3, <2>1, RemnantsAreTrees DEF TypeOK, Dir, Steps, CrashInRemove
  <2>3. Fresh' /\ StagePhase' /\ CopyPhase' /\ SwapPhase'
    BY <1>3, <2>1
    DEF Fresh, StagePhase, CopyPhase, SwapPhase, TypeOK, CrashInRemove
  <2>. QED
    BY <2>2, <2>3
<1>. QED
  BY <1>1, <1>2, <1>3, BeginStep, WorkStep DEF Next

LEMMA IInvAlways == Spec => []IInv
BY IInvInit, IInvStep, PTL DEF Spec

\* The variables keep their types; in particular a run is active exactly while
\* a step of materializeDefinitionMembersStaged is pending.
THEOREM TypeCorrect == Spec => []TypeOK
<1>1. IInv => TypeOK
  BY DEF IInv
<1>. QED
  BY <1>1, IInvAlways, PTL

-----------------------------------------------------------------------------
\* A call that returns has published exactly its members and the prior
\* sidecars, for any number of runs and whatever failed or crashed before.
THEOREM SuccessIsComplete == Spec => SuccessPublishesTarget
<1>1. IInv /\ [Next]_vars =>
        [Settles("ok") => /\ canonical' = Target
                          /\ stage'[active] = NoDir
                          /\ backup'[active] = NoDir]_vars
  <2> SUFFICES ASSUME IInv, Next, Settles("ok")
               PROVE  /\ canonical' = Target
                      /\ stage'[active] = NoDir
                      /\ backup'[active] = NoDir
    OBVIOUS
  <2>1. DropBackup
    BY ConstantsAssumption
    DEF Next, Work, Settles, Begin, StageMember, StageMemberThrows,
        CopySidecar, StageDone, SwapOut, SwapOutThrows, SwapIn, InnerRestore,
        Verify, VerifyThrows, DropBackupThrows, Catch, CatchThrows,
        RestoreRemove, RestoreRename, Crash, CrashInRemove, Goto, End
  <2>. QED
    BY <2>1 DEF DropBackup, IInv, SwapPhase, TypeOK, Settles
<1>. QED
  BY <1>1, IInvAlways, PTL DEF Spec, SuccessPublishesTarget

-----------------------------------------------------------------------------
(***************************************************************************)
(* Recoverability.  Between the swap and the end of the verification the   *)
(* last good folder must be in a backup, since the service folder is about *)
(* to be replaced or is the unverified new one; as long as a backup of the *)
(* run exists, the catch block may delete the service folder.              *)
(***************************************************************************)
InBackup == good = NoDir \/ \E r \in Runs : backup[r] = good

GoodInv ==
  spoiled = NoRun =>
    /\ good = NoDir \/ good = canonical \/ \E r \in Runs : backup[r] = good
    /\ pc \in {"swapIn", "innerRestore", "verify", "restore", "restoreRename"}
         => InBackup
    /\ pc = "catch" /\ backup[active] # NoDir => InBackup
    /\ pc = "dropBackup" => good = canonical

LEMMA GoodWork ==
  ASSUME IInv, IInv', GoodInv, Work
  PROVE  GoodInv'
<1> USE ConstantsAssumption
    DEF IInv, GoodInv, InBackup, Goto, End, disk,
            local, history
<1>0. active \in Runs /\ backup \in [Runs -> Dir] /\ good \in Dir
  BY DEF TypeOK, Work, StageMember, StageMemberThrows, CopySidecar, StageDone,
     SwapOut, SwapOutThrows, SwapIn, InnerRestore, Verify, VerifyThrows,
     DropBackup, DropBackupThrows, Catch, CatchThrows, RestoreRemove,
     RestoreRename
<1>1. CASE \E f \in Files : \/ StageMember(f) \/ StageMemberThrows(f)
                             \/ CopySidecar(f)
  BY <1>0, <1>1 DEF StageMember, StageMemberThrows, CopySidecar, Fresh
<1>2. CASE StageDone \/ SwapOutThrows
  BY <1>0, <1>2 DEF StageDone, SwapOutThrows, Fresh
<1>3. CASE SwapOut
  BY <1>0, <1>3 DEF SwapOut, Fresh, CopyPhase
<1>4. CASE SwapIn
  BY <1>0, <1>4 DEF SwapIn, SwapPhase
<1>5. CASE InnerRestore
  BY <1>0, <1>5 DEF InnerRestore, SwapPhase
<1>6. CASE Verify \/ VerifyThrows
  BY <1>0, <1>6 DEF Verify, VerifyThrows
<1>7. CASE DropBackup \/ DropBackupThrows
  BY <1>0, <1>7 DEF DropBackup, DropBackupThrows
<1>8. CASE Catch \/ CatchThrows
  BY <1>0, <1>8 DEF Catch, CatchThrows
<1>9. CASE RestoreRemove
  BY <1>0, <1>9 DEF RestoreRemove
<1>10. CASE RestoreRename
  BY <1>0, <1>10 DEF RestoreRename, SwapPhase
<1>. QED
  BY <1>1, <1>2, <1>3, <1>4, <1>5, <1>6, <1>7, <1>8, <1>9, <1>10 DEF Work

LEMMA GoodStep ==
  ASSUME IInv, IInv', GoodInv, [Next]_vars
  PROVE  GoodInv'
<1> USE ConstantsAssumption
    DEF IInv, GoodInv, InBackup, Goto, End, disk,
            local, history
<1>1. ASSUME NEW r \in Runs, NEW members \in MemberSets, Begin(r, members)
      PROVE  GoodInv'
  BY <1>1 DEF Begin, Fresh, TypeOK
<1>2. CASE Crash
  BY <1>2 DEF Crash
<1>3. CASE CrashInRemove
  BY <1>3 DEF CrashInRemove, TypeOK
<1>4. CASE UNCHANGED vars
  BY <1>4 DEF vars
<1>. QED
  BY <1>1, <1>2, <1>3, <1>4, GoodWork DEF Next

\* The last verified folder survives every run and every crash, in place or as
\* a backup, unless its own backup could not be deleted.
THEOREM Recoverable == Spec => []LastGoodRecoverable
<1>1. Init => GoodInv
  BY DEF Init, GoodInv
<1>2. IInv /\ IInv' /\ GoodInv /\ [Next]_vars => GoodInv'
  BY GoodStep
<1>3. GoodInv => LastGoodRecoverable
  BY DEF GoodInv, LastGoodRecoverable
<1>. QED
  BY <1>1, <1>2, <1>3, IInvAlways, PTL DEF Spec

-----------------------------------------------------------------------------
(***************************************************************************)
(* Exact restore.  Where the prior folder is while a run may still fail.   *)
(***************************************************************************)
PriorInv ==
  /\ pc = "stage" => ~ existed
  /\ pc # "idle" /\ existed => prior # NoDir
  /\ pc = "catch" /\ existed /\ spoiled # active =>
       \/ canonical = prior /\ backup[active] = NoDir
       \/ backup[active] = prior
  /\ pc \in {"restore", "restoreRename"} /\ existed /\ spoiled # active =>
       backup[active] = prior
  /\ pc \in {"restore", "restoreRename"} => stage[active] = NoDir

LEMMA PriorStep ==
  ASSUME IInv, IInv', PriorInv, [Next]_vars
  PROVE  PriorInv'
<1> USE ConstantsAssumption
    DEF IInv, PriorInv, Goto, End, disk, local, history
<1>1. ASSUME NEW r \in Runs, NEW members \in MemberSets, Begin(r, members)
      PROVE  PriorInv'
  BY <1>1 DEF Begin, TypeOK, View
<1>2. CASE \E f \in Files : \/ StageMember(f) \/ StageMemberThrows(f)
                             \/ CopySidecar(f)
  BY <1>2 DEF StageMember, StageMemberThrows, CopySidecar, Fresh, CopyPhase
<1>3. CASE StageDone \/ SwapOutThrows
  BY <1>3 DEF StageDone, SwapOutThrows, Fresh, CopyPhase
<1>4. CASE SwapOut
  BY <1>4 DEF SwapOut, Fresh, CopyPhase, TypeOK
<1>5. CASE SwapIn
  BY <1>5 DEF SwapIn, SwapPhase
<1>6. CASE InnerRestore
  BY <1>6 DEF InnerRestore, SwapPhase, TypeOK
<1>7. CASE Verify \/ VerifyThrows
  BY <1>7 DEF Verify, VerifyThrows, SwapPhase
<1>8. CASE DropBackup \/ DropBackupThrows
  BY <1>8 DEF DropBackup, DropBackupThrows, TypeOK
<1>9. CASE Catch \/ CatchThrows
  BY <1>9 DEF Catch, CatchThrows, TypeOK
<1>10. CASE RestoreRemove \/ RestoreRename
  BY <1>10 DEF RestoreRemove, RestoreRename, TypeOK
<1>11. CASE Crash \/ CrashInRemove
  BY <1>11 DEF Crash, CrashInRemove
<1>12. CASE UNCHANGED vars
  BY <1>12 DEF vars
<1>. QED
  BY <1>1, <1>2, <1>3, <1>4, <1>5, <1>6, <1>7, <1>8, <1>9, <1>10, <1>11,
     <1>12 DEF Next, Work

\* A call whose catch block gets through leaves the folder it found exactly as
\* it was and no residue, whatever failed, unless it could not delete its
\* backup.
THEOREM RestoreIsExact == Spec => FailureRestoresPrior
<1>1. Init => PriorInv
  BY DEF Init, PriorInv
<1>2. IInv /\ IInv' /\ PriorInv /\ [Next]_vars => PriorInv'
  BY PriorStep
<1>3. IInv /\ PriorInv /\ [Next]_vars =>
        [Settles("failed") /\ existed /\ spoiled # active =>
           /\ canonical' = prior
           /\ stage'[active] = NoDir
           /\ backup'[active] = NoDir]_vars
  <2> SUFFICES ASSUME IInv, PriorInv, Next, Settles("failed"), existed,
                      spoiled # active
               PROVE  /\ canonical' = prior
                      /\ stage'[active] = NoDir
                      /\ backup'[active] = NoDir
    OBVIOUS
  <2>1. \/ Catch
        \/ RestoreRename /\ canonical' = backup[active]
           /\ backup' = [backup EXCEPT ![active] = NoDir]
    BY ConstantsAssumption
    DEF Next, Work, Settles, Begin, StageMember, StageMemberThrows,
        CopySidecar, StageDone, SwapOut, SwapOutThrows, SwapIn, InnerRestore,
        Verify, VerifyThrows, DropBackup, DropBackupThrows, CatchThrows,
        RestoreRemove, RestoreRename, Crash, CrashInRemove, Goto, End
  <2>2. active \in Runs /\ stage \in [Runs -> Dir] /\ backup \in [Runs -> Dir]
    BY DEF IInv, TypeOK, Settles
  <2>3. CASE Catch
    <3>1. canonical = prior /\ backup[active] = NoDir
      BY <2>2, <2>3, ConstantsAssumption
      DEF Catch, PriorInv, Settles, Goto, IInv, CopyPhase, SwapPhase, TypeOK
    <3>. QED
      BY <2>2, <2>3, <3>1 DEF Catch, local, history
  <2>4. CASE RestoreRename /\ canonical' = backup[active]
             /\ backup' = [backup EXCEPT ![active] = NoDir]
    BY <2>2, <2>4 DEF RestoreRename, PriorInv, local, history
  <2>. QED
    BY <2>1, <2>3, <2>4
<1>. QED
  BY <1>1, <1>2, <1>3, IInvAlways, PTL DEF Spec, FailureRestoresPrior

-----------------------------------------------------------------------------
(***************************************************************************)
(* Refinement.  The published folder changes twice at most in a run: when  *)
(* the stage is renamed into place, and when the catch block removes it    *)
(* again, which makes the backup the published folder.                     *)
(***************************************************************************)
ViewInv ==
  /\ pc # "idle" => owned \in MemberSets
  /\ pc \in {"stage", "copy", "swapIn", "innerRestore"} => View = prior
  /\ pc = "innerRestore" => latest = active
  /\ pc \in {"swapIn", "verify"} =>
       \/ existed /\ latest = active
       \/ ~ existed /\ backup[active] = NoDir
  /\ pc \in {"catch", "restore", "restoreRename"} =>
       \/ backup[active] = NoDir
       \/ latest = active /\ backup[active] = prior

TamedFaults == FaultKinds \ {"rmBackup", "rmCanonical", "crashRm"}

LEMMA ViewStep ==
  ASSUME Faults \subseteq TamedFaults, IInv, IInv', ViewInv, [Next]_vars
  PROVE  ViewInv'
<1> USE ConstantsAssumption
    DEF IInv, ViewInv, TamedFaults, Goto, End, disk, local, history
<1>1. ASSUME NEW r \in Runs, NEW members \in MemberSets, Begin(r, members)
      PROVE  ViewInv'
  BY <1>1 DEF Begin, TypeOK, View, Fresh
<1>2. CASE \E f \in Files : \/ StageMember(f) \/ StageMemberThrows(f)
                             \/ CopySidecar(f)
  BY <1>2 DEF StageMember, StageMemberThrows, CopySidecar, Fresh, View
<1>3. CASE StageDone \/ SwapOutThrows
  BY <1>3 DEF StageDone, SwapOutThrows, Fresh, View
<1>4. CASE SwapOut
  BY <1>4 DEF SwapOut, Fresh, CopyPhase, TypeOK, View
<1>5. CASE SwapIn
  BY <1>5 DEF SwapIn, SwapPhase, View
<1>6. CASE InnerRestore
  BY <1>6 DEF InnerRestore, SwapPhase, TypeOK
<1>7. CASE Verify \/ VerifyThrows
  BY <1>7 DEF Verify, VerifyThrows, SwapPhase
<1>8. CASE DropBackup \/ DropBackupThrows
  BY <1>8 DEF DropBackup, DropBackupThrows, TypeOK
<1>9. CASE Catch \/ CatchThrows
  BY <1>9 DEF Catch, CatchThrows, TypeOK
<1>10. CASE RestoreRemove \/ RestoreRename
  BY <1>10 DEF RestoreRemove, RestoreRename, TypeOK
<1>11. CASE Crash \/ CrashInRemove
  BY <1>11 DEF Crash, CrashInRemove
<1>12. CASE UNCHANGED vars
  BY <1>12 DEF vars, View
<1>. QED
  BY <1>1, <1>2, <1>3, <1>4, <1>5, <1>6, <1>7, <1>8, <1>9, <1>10, <1>11,
     <1>12 DEF Next, Work

\* What is renamed into place is complete in the sense of AtomicPublish.
LEMMA TargetIsComplete ==
  ASSUME IInv, ViewInv, pc = "swapIn"
  PROVE  Target \in Publication!Complete(active)
<1> DEFINE kept == IF existed THEN Sidecars ELSE {}
<1>1. owned \in MemberSets
  BY DEF ViewInv
<1>2. kept \in IF prior = NoDir THEN {{}} ELSE {{}, Sidecars}
  BY DEF IInv, SwapPhase
<1>3. Target = [f \in Files |-> IF f \in owned THEN active
                               ELSE IF f \in kept THEN prior[f]
                               ELSE Absent]
  BY DEF Target
<1>. QED
  BY <1>1, <1>2, <1>3 DEF Publication!Complete

LEMMA PublicationStep ==
  ASSUME Faults \subseteq TamedFaults, IInv, IInv', ViewInv, ViewInv',
         [Next]_vars
  PROVE  [Publication!Next]_(Publication!vars)
<1> USE ConstantsAssumption
    DEF IInv, ViewInv, TamedFaults, Goto, End, disk, local, history,
        Publication!Next, Publication!vars
<1>1. ASSUME NEW r \in Runs, NEW members \in MemberSets, Begin(r, members)
      PROVE  (\E q \in Runs : Publication!Begin(q))
             \/ UNCHANGED Publication!vars
  BY <1>1 DEF Begin, TypeOK, View, Fresh, Publication!Begin
<1>2. CASE \E f \in Files : \/ StageMember(f) \/ StageMemberThrows(f)
                             \/ CopySidecar(f)
  BY <1>2 DEF StageMember, StageMemberThrows, CopySidecar, View
<1>3. CASE StageDone \/ SwapOutThrows
  BY <1>3 DEF StageDone, SwapOutThrows, View
<1>4. CASE SwapOut
  BY <1>4 DEF SwapOut, Fresh, CopyPhase, TypeOK, View
<1>5. CASE SwapIn
  <2>1. CASE canonical' = stage[active] /\ pc' = "verify"
    <3>1. View' = Target /\ View = prior
      BY <1>5, <2>1 DEF SwapIn, SwapPhase, TypeOK, View
    <3>2. Publication!Publish
      BY <1>5, <2>1, <3>1, TargetIsComplete
      DEF SwapIn, TypeOK, Publication!Publish
    <3>. QED
      BY <3>2
  <2>2. CASE UNCHANGED <<canonical, stage>>
    BY <1>5, <2>2 DEF SwapIn, View
  <2>. QED
    BY <1>5, <2>1, <2>2 DEF SwapIn
<1>6. CASE InnerRestore
  BY <1>6 DEF InnerRestore, SwapPhase, TypeOK, View
<1>7. CASE Verify \/ VerifyThrows
  BY <1>7 DEF Verify, VerifyThrows, View
<1>8. CASE DropBackup \/ DropBackupThrows
  BY <1>8 DEF DropBackup, DropBackupThrows, TypeOK, View, SwapPhase,
              StagePhase, Publication!Finish
<1>9. CASE Catch \/ CatchThrows
  BY <1>9 DEF Catch, CatchThrows, TypeOK, View, Publication!Finish
<1>10. CASE RestoreRemove
  BY <1>10 DEF RestoreRemove, TypeOK, View, SwapPhase, Publication!Rollback
<1>11. CASE RestoreRename
  BY <1>11 DEF RestoreRename, TypeOK, View, SwapPhase, Publication!Finish
<1>12. CASE Crash \/ CrashInRemove
  BY <1>12 DEF Crash, CrashInRemove, TypeOK, View, Publication!Finish
<1>13. CASE UNCHANGED vars
  BY <1>13 DEF vars, View
<1>. QED
  BY <1>1, <1>2, <1>3, <1>4, <1>5, <1>6, <1>7, <1>8, <1>9, <1>10, <1>11,
     <1>12, <1>13 DEF Next, Work

\* As long as recursive deletes of the service folder and of its backup are all
\* or nothing, a reader sees the prior folder or a complete new one at any time,
\* across failures and crashes: StagedSwap implements AtomicPublish.
THEOREM Refinement ==
  ASSUME Faults \subseteq TamedFaults
  PROVE  Spec => ImplementsAtomicPublish
<1>1. Init => Publication!Init
  BY DEF Init, View, Publication!Init
<1>2. Init => ViewInv
  BY DEF Init, ViewInv
<1>3. IInv /\ IInv' /\ ViewInv /\ [Next]_vars => ViewInv'
  BY ViewStep
<1>4. IInv /\ IInv' /\ ViewInv /\ ViewInv' /\ [Next]_vars =>
        [Publication!Next]_(Publication!vars)
  BY PublicationStep
<1>. QED
  BY <1>1, <1>2, <1>3, <1>4, IInvAlways, PTL
  DEF Spec, ImplementsAtomicPublish, Publication!Spec
=============================================================================
