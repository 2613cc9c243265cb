---------------------------- MODULE AtomicPublish ----------------------------
(***************************************************************************)
(* What a multi-file export promises the readers of a service folder, with *)
(* directories, renames and deletes left out: at any time they find either *)
(* the folder that was published before the export began or the complete   *)
(* new one, which replaces it in one step and may be taken back in one     *)
(* step.  StagedSwap is shown to implement this specification.             *)
(***************************************************************************)
CONSTANTS Runs, Files, Sidecars, MemberSets, Absent, NoDir, NoRun

VARIABLES
  tree,  \* the published folder, or NoDir
  open,  \* the export in progress, or NoRun
  base   \* the folder published when it began

vars == <<tree, open, base>>

\* A complete folder of export r: all its members at its own version, and the
\* prior sidecars either all kept or, when the prior folder was lost to a
\* crashed export, all dropped.
Complete(r) ==
  { [f \in Files |->
       IF f \in members THEN r
       ELSE IF f \in kept THEN base[f]
       ELSE Absent] :
      members \in MemberSets,
      kept \in IF base = NoDir THEN {{}} ELSE {{}, Sidecars} }

Init ==
  /\ base = tree
  /\ open = NoRun

Begin(r) ==
  /\ open = NoRun
  /\ open' = r
  /\ base' = tree
  /\ UNCHANGED tree

\* The new folder appears, all of it at once.
Publish ==
  /\ open # NoRun
  /\ tree = base
  /\ tree' \in Complete(open)
  /\ UNCHANGED <<open, base>>

\* The new folder is taken back, which takes a prior one to go back to.
Rollback ==
  /\ open # NoRun
  /\ base # NoDir
  /\ tree' = base
  /\ UNCHANGED <<open, base>>

Finish ==
  /\ open # NoRun
  /\ open' = NoRun
  /\ UNCHANGED <<tree, base>>

Next == (\E r \in Runs : Begin(r)) \/ Publish \/ Rollback \/ Finish

Spec == Init /\ [][Next]_vars
=============================================================================
