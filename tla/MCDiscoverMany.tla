---------------------------- MODULE MCDiscoverMany ----------------------------
(* Instances of DiscoverMany for TLC.  The headers of two providers; one    *)
(* may be a template spec version that becomes two candidates.  The service  *)
(* names lead to one folder they share or to one each, the exports are       *)
(* single files or source sets, and all may be within the cap and bound to a *)
(* client or not.                                                            *)
EXTENDS DiscoverMany

CONSTANTS c1, c2, c3, c4, p1, p2, shared, f1, f2, f3, f4, root, other, sidecar

Hydrators == (c1 :> p1) @@ (c2 :> p2) @@ (c3 :> p2) @@ (c4 :> p1)

\* A candidate may belong to a subscription no client is bound to: it is hydrated
\* by the first adapter of its type, and no bound provider exports it.
C3Unbound == [Hydrators EXCEPT ![c3] = Unbound]

\* Each header is one candidate, or the first one embeds two documents, which
\* its own provider exports.
Itself == [c \in {c1, c2, c3, c4} |-> <<c>>]
C1Expands == [Itself EXCEPT ![c1] = <<c3, c4>>]
C1Exports == [Hydrators EXCEPT ![c3] = p1]

SharedFolder == [c \in {c1, c2, c3, c4} |-> {shared}]
OwnFolders == (c1 :> {f1}) @@ (c2 :> {f2}) @@ (c3 :> {f3}) @@ (c4 :> {f4})

Exported(r, companions, derivation, incomplete) ==
  [root |-> r, companions |-> companions, derivation |-> derivation,
   incomplete |-> incomplete]

\* One file each, with every way to derive, and a refused source set.
SingleFile ==
  {Exported(root, {}, "self", FALSE), Exported(root, {}, "sidecar", FALSE),
   Exported(other, {}, "sidecar", FALSE), Exported(other, {}, "none", TRUE)}

\* A native source set with a companion beside single files.
MultiFile == SingleFile \cup {Exported(other, {root}, "sidecar", FALSE)}

\* Each candidate bears an id of its own.
Found(listed, becomes, exportedBy, foldersOf, exports, maxCandidates) ==
  [listed |-> listed, becomes |-> becomes, idOf |-> [c \in Candidates |-> c],
   exportedBy |-> exportedBy, foldersOf |-> foldersOf, exports |-> exports,
   maxCandidates |-> maxCandidates]

\* A shared folder with single files, where one header becomes two candidates or
\* each is its own; folders of their own with source sets, where the cap cuts.
Confined ==
  {Found({c1, c2}, C1Expands, C1Exports, SharedFolder, SingleFile, 2),
   Found({c1, c2, c3}, Itself, Hydrators, SharedFolder, SingleFile, 3),
   Found({c1, c2}, C1Expands, C1Exports, OwnFolders, MultiFile, 1),
   Found({c1, c2, c3}, Itself, C3Unbound, OwnFolders, MultiFile, 2)}

\* A shared folder with source sets.
Mixed == {Found({c1, c2, c3}, Itself, Hydrators, SharedFolder, MultiFile, 3)}
=============================================================================
