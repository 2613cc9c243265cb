------------------------------ MODULE StagedSwap ------------------------------
(***************************************************************************)
(* materializeDefinitionMembersStaged and restoreDirectory of              *)
(* src/runtime.ts: how a multi-file export replaces the folder of a        *)
(* service.  A run writes and verifies every definition member in          *)
(* <folder>.stage-<runId>, copies the preserved sidecars of the old folder *)
(* next to them, renames the old folder to <folder>.backup-<runId>,        *)
(* renames the stage into place, verifies the members once more and only   *)
(* then deletes the backup.  Every await is a step of its own, each may    *)
(* fail, and the process may die between or inside them; the next run      *)
(* picks a fresh run id and finds the directories as they were left.       *)
(*                                                                         *)
(* A directory is a function from file names to contents, with Absent for  *)
(* a file that is not there, or NoDir when the directory does not exist.   *)
(* The bytes a run writes are abstracted to the run itself.                *)
(***************************************************************************)
CONSTANTS
  Runs,        \* run ids; each randomUUID is used at most once
  Files,       \* the file names that occur in a service folder
  Sidecars,    \* those isPreservedNonDefinitionSidecar accepts
  MemberSets,  \* the sets of definition members an export may consist of
  Original,    \* content of a file that was there before the first run
  Torn,        \* content of a file whose write was cut short or altered
  Absent,      \* no such file
  NoDir,       \* no such directory
  NoRun,       \* no run is active
  Faults       \* which of FaultKinds can strike

FaultKinds ==
  {"write", "rename", "verify", "restore", "rmStage", "rmBackup",
   "rmCanonical", "crash", "crashRm"}

Contents == Runs \cup {Original, Torn}

Tree == [Files -> Contents \cup {Absent}]

ASSUME ConstantsAssumption ==
  /\ Sidecars \subseteq Files
  /\ MemberSets \subseteq SUBSET Files
  /\ Absent \notin Contents
  /\ NoDir \notin Tree
  /\ NoRun \notin Runs
  /\ Original \notin Runs
  /\ Torn \notin Runs \cup {Original}
  /\ Faults \subseteq FaultKinds

VARIABLES
  canonical,  \* the service folder
  stage,      \* stage[r]: <folder>.stage-<r>
  backup,     \* backup[r]: <folder>.backup-<r>
  used,       \* the run ids drawn so far
  active,     \* the run in progress, or NoRun
  pc,         \* its next step
  owned,      \* its ownedRelativePaths
  existed,    \* its canonicalExisted
  outcome,    \* how the last run ended
  prior,      \* history: what was published when the run began
  good,       \* history: the last folder that was verified, or found at first
  latest,     \* history: the run that last renamed the folder to its backup
  spoiled     \* history: the run that could not delete its backup, until
              \* another folder is verified

disk == <<canonical, stage, backup>>
local == <<owned, existed>>
history == <<prior, good, latest, spoiled>>
vars == <<canonical, stage, backup, used, active, pc, owned, existed, outcome,
          prior, good, latest, spoiled>>

Steps ==
  {"idle", "stage", "copy", "swapIn", "innerRestore", "verify", "dropBackup",
   "catch", "restore", "restoreRename"}

Dir == Tree \cup {NoDir}

EmptyDir == [f \in Files |-> Absent]

\* What a recursive delete that stops half-way may leave of a directory.
Remnants(dir) ==
  { [f \in Files |-> IF f \in gone THEN Absent ELSE dir[f]] :
      gone \in SUBSET Files }

\* What is published: the folder or, while it is out of the way, the backup it
\* was last renamed to.
View ==
  IF canonical # NoDir THEN canonical
  ELSE IF latest # NoRun THEN backup[latest]
  ELSE NoDir

\* The prior sidecars the run carries over: owned names are skipped.
Kept == {f \in Sidecars \ owned : canonical[f] # Absent}

\* The folder the run is to publish.
Target ==
  [f \in Files |->
     IF f \in owned THEN active
     ELSE IF f \in Sidecars /\ existed THEN prior[f]
     ELSE Absent]

Init ==
  /\ canonical \in {NoDir} \cup
       { [f \in Files |-> IF f \in there THEN Original ELSE Absent] :
           there \in SUBSET Files }
  /\ stage = [r \in Runs |-> NoDir]
  /\ backup = [r \in Runs |-> NoDir]
  /\ used = {}
  /\ active = NoRun
  /\ pc = "idle"
  /\ owned = {}
  /\ existed = FALSE
  /\ outcome = "none"
  /\ prior = canonical
  /\ good = canonical
  /\ latest = NoRun
  /\ spoiled = NoRun

-----------------------------------------------------------------------------
Goto(step) == pc' = step /\ UNCHANGED <<used, active, outcome>>

\* Mutant of End: the run is not cleared.
EndKeepsRun(how) == pc' = "idle" /\ outcome' = how /\ UNCHANGED <<used, active>>

\* The call settles: it returns ("ok"), throws ("failed"), throws from inside
\* the catch block ("unrestored") or the process dies.
End(how) ==
  /\ pc' = "idle"
  /\ active' = NoRun
  /\ outcome' = how
  /\ UNCHANGED used

\* Draw a run id, clear what bears it (nothing does: it is fresh), create the
\* empty stage directory.  A symbolic link in the way or a failing mkdir throws
\* before the try block, with no cleanup.
Begin(r, members) ==
  /\ pc = "idle"
  /\ r \notin used
  /\ used' = used \cup {r}
  /\ \/ /\ prior' = View
        /\ stage' = [stage EXCEPT ![r] = EmptyDir]
        /\ backup' = [backup EXCEPT ![r] = NoDir]
        /\ active' = r
        /\ owned' = members
        /\ existed' = FALSE
        /\ pc' = "stage"
        /\ UNCHANGED outcome
     \/ /\ "write" \in Faults
        /\ outcome' = "refused"
        /\ UNCHANGED <<prior, stage, backup, active, local, pc>>
  /\ UNCHANGED <<canonical, good, latest, spoiled>>

\* writeFileWithinRoot, fsync, read back and compare; then the injected writer
\* on the same staged path, and the same again.  Bytes that differ throw.
StageMember(f) ==
  /\ pc = "stage"
  /\ f \in owned
  /\ stage[active][f] = Absent
  /\ \E bytes \in {active} \cup (IF "write" \in Faults THEN {Torn} ELSE {}) :
       /\ stage' = [stage EXCEPT ![active][f] = bytes]
       /\ Goto(IF bytes = active THEN "stage" ELSE "catch")
  /\ UNCHANGED <<canonical, backup, local, history>>

\* The write itself or the afterStageMemberWrite hook throws.
StageMemberThrows(f) ==
  /\ pc = "stage"
  /\ "write" \in Faults
  /\ f \in owned
  /\ \E bytes \in {stage[active][f], active} :
       stage' = [stage EXCEPT ![active][f] = bytes]
  /\ Goto("catch")
  /\ UNCHANGED <<canonical, backup, local, history>>

\* Mutant of StageDone: goes on once the first member is staged.
StageDoneEarly ==
  /\ pc = "stage"
  /\ \E f \in owned : stage[active][f] = active
  /\ existed' = (canonical # NoDir)
  /\ Goto("copy")
  /\ UNCHANGED <<disk, owned, history>>

\* Every member is staged: canonicalExisted is read once, here.
StageDone ==
  /\ pc = "stage"
  /\ \A f \in owned : stage[active][f] = active
  /\ existed' = (canonical # NoDir)
  /\ Goto("copy")
  /\ UNCHANGED <<disk, owned, history>>

CopySidecar(f) ==
  /\ pc = "copy"
  /\ existed
  /\ f \in Kept
  /\ stage[active][f] = Absent
  /\ \/ /\ stage' = [stage EXCEPT ![active][f] = canonical[f]]
        /\ Goto("copy")
     \/ /\ "write" \in Faults
        /\ \E bytes \in {Absent, Torn} :
             stage' = [stage EXCEPT ![active][f] = bytes]
        /\ Goto("catch")
  /\ UNCHANGED <<canonical, backup, local, history>>

\* Mutant of SwapOut: does not wait for the preserved sidecars.
SwapOutEarly ==
  /\ pc = "copy"
  /\ IF existed
     THEN /\ backup' = [backup EXCEPT ![active] = canonical]
          /\ canonical' = NoDir
          /\ latest' = active
     ELSE UNCHANGED <<backup, canonical, latest>>
  /\ Goto("swapIn")
  /\ UNCHANGED <<stage, local, prior, good, spoiled>>

\* The old folder, if there is one, steps aside.
SwapOut ==
  /\ pc = "copy"
  /\ existed => \A f \in Kept : stage[active][f] = canonical[f]
  /\ IF existed
     THEN /\ backup' = [backup EXCEPT ![active] = canonical]
          /\ canonical' = NoDir
          /\ latest' = active
     ELSE UNCHANGED <<backup, canonical, latest>>
  /\ Goto("swapIn")
  /\ UNCHANGED <<stage, local, prior, good, spoiled>>

\* The symbolic-link checks before the renames, or the first rename, throw.
SwapOutThrows ==
  /\ pc = "copy"
  /\ "rename" \in Faults
  /\ existed => \A f \in Kept : stage[active][f] = canonical[f]
  /\ Goto("catch")
  /\ UNCHANGED <<disk, local, history>>

\* Mutant of SwapIn: deletes the backup before the verification.
SwapInDropsBackup ==
  /\ pc = "swapIn"
  /\ canonical' = stage[active]
  /\ stage' = [stage EXCEPT ![active] = NoDir]
  /\ backup' = [backup EXCEPT ![active] = NoDir]
  /\ Goto("verify")
  /\ UNCHANGED <<local, history>>

\* The stage is renamed into place; if that throws, the inner catch block
\* puts the backup back before it rethrows.
SwapIn ==
  /\ pc = "swapIn"
  /\ \/ /\ canonical' = stage[active]
        /\ stage' = [stage EXCEPT ![active] = NoDir]
        /\ Goto("verify")
     \/ /\ "rename" \in Faults
        /\ Goto(IF existed THEN "innerRestore" ELSE "catch")
        /\ UNCHANGED <<canonical, stage>>
  /\ UNCHANGED <<backup, local, history>>

\* Mutant of InnerRestore: retries the swap without a limit.
InnerRestoreRetries ==
  /\ pc = "innerRestore"
  /\ canonical' = backup[active]
  /\ backup' = [backup EXCEPT ![active] = NoDir]
  /\ Goto("copy")
  /\ UNCHANGED <<stage, local, history>>

\* restoreDirectory from the inner catch block: there is no folder to remove
\* first.  Whether it succeeds or throws, the outer catch block runs next.
InnerRestore ==
  /\ pc = "innerRestore"
  /\ \/ /\ canonical' = backup[active]
        /\ backup' = [backup EXCEPT ![active] = NoDir]
     \/ /\ "restore" \in Faults
        /\ UNCHANGED <<canonical, backup>>
  /\ Goto("catch")
  /\ UNCHANGED <<stage, local, history>>

\* The afterCanonicalSwap hook and the verification of the canonical members.
Verify ==
  /\ pc = "verify"
  /\ \A f \in owned : canonical[f] = active
  /\ good' = canonical
  /\ spoiled' = NoRun
  /\ Goto("dropBackup")
  /\ UNCHANGED <<disk, local, prior, latest>>

VerifyThrows ==
  /\ pc = "verify"
  /\ "verify" \in Faults \/ \E f \in owned : canonical[f] # active
  /\ Goto("catch")
  /\ UNCHANGED <<disk, local, history>>

\* rm(backupDir), then rm(stageDir), which the rename has taken away already.
DropBackup ==
  /\ pc = "dropBackup"
  /\ backup' = [backup EXCEPT ![active] = NoDir]
  /\ stage' = [stage EXCEPT ![active] = NoDir]
  /\ End("ok")
  /\ UNCHANGED <<canonical, local, history>>

\* rm(backupDir) throws after it has deleted some of the files.
DropBackupThrows ==
  /\ pc = "dropBackup"
  /\ "rmBackup" \in Faults
  /\ backup[active] # NoDir
  /\ \E left \in Remnants(backup[active]) :
       backup' = [backup EXCEPT ![active] = left]
  /\ Goto("catch")
  /\ spoiled' = active
  /\ UNCHANGED <<canonical, stage, local, prior, good, latest>>

\* Mutant of Catch: cleans up the stage and forgets the backup.
CatchForgetsBackup ==
  /\ pc = "catch"
  /\ stage' = [stage EXCEPT ![active] = NoDir]
  /\ End("failed")
  /\ UNCHANGED <<canonical, backup, local, history>>

\* The outer catch block: rm(stageDir), then restore if there is a backup.
Catch ==
  /\ pc = "catch"
  /\ stage' = [stage EXCEPT ![active] = NoDir]
  /\ IF backup[active] # NoDir THEN Goto("restore") ELSE End("failed")
  /\ UNCHANGED <<canonical, backup, local, history>>

\* rm(stageDir) throws inside the catch block, and the restore is skipped.
CatchThrows ==
  /\ pc = "catch"
  /\ "rmStage" \in Faults
  /\ stage[active] # NoDir
  /\ \E left \in Remnants(stage[active]) :
       stage' = [stage EXCEPT ![active] = left]
  /\ End("unrestored")
  /\ UNCHANGED <<canonical, backup, local, history>>

\* restoreDirectory: remove the folder if there is one ...
RestoreRemove ==
  /\ pc = "restore"
  /\ \/ /\ canonical' = NoDir
        /\ Goto("restoreRename")
     \/ /\ "rmCanonical" \in Faults
        /\ canonical # NoDir
        /\ canonical' \in Remnants(canonical)
        /\ End("unrestored")
  /\ UNCHANGED <<stage, backup, local, history>>

\* ... and rename the backup into its place.
RestoreRename ==
  /\ pc = "restoreRename"
  /\ \/ /\ canonical' = backup[active]
        /\ backup' = [backup EXCEPT ![active] = NoDir]
        /\ End("failed")
     \/ /\ "restore" \in Faults
        /\ End("unrestored")
        /\ UNCHANGED <<canonical, backup>>
  /\ UNCHANGED <<stage, local, history>>

\* The process dies between two steps.
Crash ==
  /\ pc # "idle"
  /\ "crash" \in Faults
  /\ End("crashed")
  /\ UNCHANGED <<disk, local, history>>

\* The process dies inside a recursive delete.
CrashInRemove ==
  /\ "crashRm" \in Faults
  /\ \/ /\ pc = "catch" /\ stage[active] # NoDir
        /\ \E left \in Remnants(stage[active]) :
             stage' = [stage EXCEPT ![active] = left]
        /\ UNCHANGED <<canonical, backup>>
     \/ /\ pc = "dropBackup" /\ backup[active] # NoDir
        /\ \E left \in Remnants(backup[active]) :
             backup' = [backup EXCEPT ![active] = left]
        /\ UNCHANGED <<canonical, stage>>
     \/ /\ pc = "restore" /\ canonical # NoDir
        /\ canonical' \in Remnants(canonical)
        /\ UNCHANGED <<stage, backup>>
  /\ End("crashed")
  /\ UNCHANGED <<local, history>>

-----------------------------------------------------------------------------
\* The steps the code itself takes, on success and on an exception.
Work ==
  \/ \E f \in Files : StageMember(f) \/ StageMemberThrows(f) \/ CopySidecar(f)
  \/ StageDone \/ SwapOut \/ SwapOutThrows \/ SwapIn \/ InnerRestore
  \/ Verify \/ VerifyThrows \/ DropBackup \/ DropBackupThrows
  \/ Catch \/ CatchThrows \/ RestoreRemove \/ RestoreRename

Next ==
  \/ \E r \in Runs, members \in MemberSets : Begin(r, members)
  \/ Work
  \/ Crash
  \/ CrashInRemove

Spec == Init /\ [][Next]_vars

\* A started export keeps executing: its awaits are on local file operations,
\* which the platform settles one way or the other.
FairSpec == Spec /\ WF_vars(Work)

-----------------------------------------------------------------------------
TypeOK ==
  /\ canonical \in Dir
  /\ stage \in [Runs -> Dir]
  /\ backup \in [Runs -> Dir]
  /\ used \in SUBSET Runs
  /\ active \in used \cup {NoRun}
  /\ pc \in Steps
  /\ pc = "idle" <=> active = NoRun
  /\ owned \in MemberSets \cup {{}}
  /\ existed \in BOOLEAN
  /\ outcome \in {"none", "refused", "ok", "failed", "unrestored", "crashed"}
  /\ prior \in Dir
  /\ good \in Dir
  /\ latest \in Runs \cup {NoRun}
  /\ spoiled \in Runs \cup {NoRun}

\* The active run settles in this step, in the given way.
Settles(how) == active # NoRun /\ active' = NoRun /\ outcome' = how

\* Whatever fails, wherever the process dies and however often the export is
\* run again: the last folder that passed verification (or was there at first)
\* is intact, as the service folder or as one of the backups beside it, unless
\* deleting its own backup has failed.
LastGoodRecoverable ==
  spoiled = NoRun =>
    good = NoDir \/ good = canonical \/ \E r \in Runs : backup[r] = good

\* When a call throws after it found a service folder, and its catch block got
\* through, that folder is back, file for file, and neither the stage nor the
\* backup directory of the run is left; a backup that could not be deleted is
\* the exception.
FailureRestoresPrior ==
  [][ Settles("failed") /\ existed /\ spoiled # active =>
        /\ canonical' = prior
        /\ stage'[active] = NoDir
        /\ backup'[active] = NoDir ]_vars

\* "Prefer exact prior-tree restore on any post-backup failure": the same with
\* no exception.
AnyFailureRestoresPrior ==
  [][ Settles("failed") /\ existed => canonical' = prior ]_vars

\* A call that returns has published exactly its own members plus the prior
\* sidecars: stale members of an earlier set are gone, no member is torn, and
\* the directories of the run are gone, even after earlier crashed runs.
SuccessPublishesTarget ==
  [][ Settles("ok") =>
        /\ canonical' = Target
        /\ stage'[active] = NoDir
        /\ backup'[active] = NoDir ]_vars

\* The contract the folder's readers rely on, as a specification of its own.
Publication ==
  INSTANCE AtomicPublish WITH tree <- View, open <- active, base <- prior

ImplementsAtomicPublish == Publication!Spec

\* Every export that starts settles, exceptions included.
EveryExportSettles == pc # "idle" ~> pc = "idle"
=============================================================================
