---------------------------- MODULE NativeClosure ----------------------------
(***************************************************************************)
(* resolveRepoNativeDependencyCompanions and buildRepoNativeExportBundle   *)
(* of src/lib/repo/native-dependency-bundle.ts: a protobuf or WSDL file    *)
(* is exported with the files it imports, directly or through others.  The *)
(* references are followed breadth first, under ceilings on files, hops    *)
(* and bytes; the export is "full" only if none was left unresolved.       *)
(*                                                                         *)
(* A reference is the file it leads to, or Away when it has no key         *)
(* (absolute, remote, climbing) or leaves the directory of the root.       *)
(* Different spellings may lead to one file, so a list may repeat it.      *)
(***************************************************************************)
EXTENDS Naturals, Sequences, FiniteSets, Functions

CONSTANTS
  Files,      \* files below the directory of the root
  Root,       \* the primary file
  Away,       \* a reference that cannot be followed
  RefLists,   \* the lists of references a file may contain
  Sizes,      \* the sizes the files may have, as functions on Files
  Basename,   \* the last segment of each path
  Limits      \* the ceilings a call may have: NATIVE_CLOSURE_LIMITS or, in
              \* tests, lower ones

ASSUME ConstantsAssumption ==
  /\ IsFiniteSet(Files) /\ Root \in Files
  /\ Away \notin Files
  /\ RefLists \subseteq Seq(Files \cup {Away})
  /\ Sizes \subseteq [Files -> Nat]
  /\ DOMAIN Basename = Files
  /\ Limits \subseteq [maxFiles : Nat \ {0}, maxDepth : Nat,
                       maxBytesPerFile : Nat \ {0}, maxTotalBytes : Nat \ {0}]

VARIABLES
  refs,       \* the references in each file
  size,       \* the size of each file
  limits,     \* the ceilings of this call; the root counts as a file
  readable,   \* the files that are there and regular
  pc,         \* "start", "scan", "done"
  queue,      \* references to follow, with their distance from the root
  seen,       \* files reached
  artifacts,  \* companions collected
  missing,    \* references reported missing
  total,      \* bytes collected
  result      \* "none", "full" or "partial"

input == <<refs, size, limits, readable>>
vars == <<input, pc, queue, seen, artifacts, missing, total, result>>

\* The references of f as queue items.
Items(f, depth) ==
  [i \in 1 .. Len(refs[f]) |-> [to |-> refs[f][i], depth |-> depth]]

Init ==
  /\ refs \in [Files -> RefLists]
  /\ size \in Sizes
  /\ limits \in Limits
  /\ readable \in {R \in SUBSET Files : Root \in R}
  /\ pc = "start"
  /\ queue = Items(Root, 1)
  /\ seen = {Root}
  /\ artifacts = <<>>
  /\ missing = {}
  /\ total = size[Root]
  /\ result = "none"

Oversized ==
  size[Root] > limits.maxBytesPerFile \/ size[Root] > limits.maxTotalBytes

\* Mutant of Start: an oversized root returns without a verdict.
StartUndecided ==
  /\ pc = "start"
  /\ pc' = IF Oversized
           THEN "done" ELSE "scan"
  /\ UNCHANGED <<input, queue, seen, artifacts, missing, total, result>>

\* A root over a byte ceiling is partial, with or without references.
Start ==
  /\ pc = "start"
  /\ IF Oversized
     THEN /\ pc' = "done" /\ result' = "partial"
          /\ missing' = Range(refs[Root])
     ELSE pc' = "scan" /\ UNCHANGED <<missing, result>>
  /\ UNCHANGED <<input, queue, seen, artifacts, total>>

\* The reference to follow next.
Front == Head(queue)

\* Mutant of Beyond: the root is not counted.
BeyondByOne(item) ==
  item.depth > limits.maxDepth \/ Len(artifacts) >= limits.maxFiles

\* Over the ceiling on hops, or on files with the root among them.
Beyond(item) ==
  item.depth > limits.maxDepth \/ 1 + Len(artifacts) >= limits.maxFiles

Fits(f) ==
  /\ f \in readable
  /\ size[f] <= limits.maxBytesPerFile
  /\ total + size[f] <= limits.maxTotalBytes

\* A reference that cannot be followed, or a new file beyond a ceiling.
Miss ==
  /\ pc = "scan" /\ queue # <<>>
  /\ \/ Front.to = Away
     \/ Front.to \in Files \ seen /\ Beyond(Front)
  /\ missing' = missing \cup {Front.to}
  /\ queue' = Tail(queue)
  /\ UNCHANGED <<input, pc, seen, artifacts, total, result>>

\* A file reached before, the root among them, costs nothing.
Skip ==
  /\ pc = "scan" /\ queue # <<>>
  /\ Front.to \in seen
  /\ queue' = Tail(queue)
  /\ UNCHANGED <<input, pc, seen, artifacts, missing, total, result>>

\* Mutant of Unread: the file is marked as reached and not reported.
UnreadSilently ==
  /\ pc = "scan" /\ queue # <<>>
  /\ Front.to \in Files \ seen
  /\ ~ Beyond(Front)
  /\ ~ Fits(Front.to)
  /\ seen' = seen \cup {Front.to}
  /\ queue' = Tail(queue)
  /\ UNCHANGED <<input, pc, artifacts, missing, total, result>>

\* A new file that cannot be read within the ceilings is not tried again.
Unread ==
  /\ pc = "scan" /\ queue # <<>>
  /\ Front.to \in Files \ seen
  /\ ~ Beyond(Front)
  /\ ~ Fits(Front.to)
  /\ seen' = seen \cup {Front.to}
  /\ missing' = missing \cup {Front.to}
  /\ queue' = Tail(queue)
  /\ UNCHANGED <<input, pc, artifacts, total, result>>

\* Mutant of Collect: depth first.
CollectDepthFirst ==
  /\ pc = "scan" /\ queue # <<>>
  /\ Front.to \in Files \ seen
  /\ ~ Beyond(Front)
  /\ Fits(Front.to)
  /\ seen' = seen \cup {Front.to}
  /\ artifacts' = Append(artifacts, Front.to)
  /\ total' = total + size[Front.to]
  /\ queue' = Items(Front.to, Front.depth + 1) \o Tail(queue)
  /\ UNCHANGED <<input, pc, missing, result>>

\* A new file is collected and its references are queued behind the others.
Collect ==
  /\ pc = "scan" /\ queue # <<>>
  /\ Front.to \in Files \ seen
  /\ ~ Beyond(Front)
  /\ Fits(Front.to)
  /\ seen' = seen \cup {Front.to}
  /\ artifacts' = Append(artifacts, Front.to)
  /\ total' = total + size[Front.to]
  /\ queue' = Tail(queue) \o Items(Front.to, Front.depth + 1)
  /\ UNCHANGED <<input, pc, missing, result>>

\* assessNativeDependencyFidelity: a direct reference of the root is covered if
\* some companion has its base name.
Covered(ref) ==
  ref \in Files /\ \E f \in Range(artifacts) : Basename[f] = Basename[ref]

Conclude ==
  /\ pc = "scan" /\ queue = <<>>
  /\ pc' = "done"
  /\ result' = IF missing = {} /\ \A ref \in Range(refs[Root]) : Covered(ref)
               THEN "full" ELSE "partial"
  /\ UNCHANGED <<input, queue, seen, artifacts, missing, total>>

Next == Start \/ Miss \/ Skip \/ Unread \/ Collect \/ Conclude

Spec == Init /\ [][Next]_vars

-----------------------------------------------------------------------------
TypeOK ==
  /\ refs \in [Files -> RefLists]
  /\ size \in Sizes
  /\ limits \in Limits
  /\ readable \in SUBSET Files
  /\ pc \in {"start", "scan", "done"}
  /\ queue \in Seq([to : Files \cup {Away}, depth : Nat])
  /\ seen \in SUBSET Files
  /\ artifacts \in Seq(Files)
  /\ missing \in SUBSET (Files \cup {Away})
  /\ total \in Nat
  /\ result \in {"none", "full", "partial"}
  /\ result = "none" <=> pc # "done"

Bundle == {Root} \cup Range(artifacts)

\* "no authoritative/full closure without dependency bytes": in an export that
\* is full, every reference of every file leads to a file of the export.
FullMeansClosed ==
  result = "full" => \A f \in Bundle : Range(refs[f]) \subseteq Bundle

\* "101 total allowed": the export holds each file once, never the root as a
\* companion, and keeps within the ceilings on files and bytes.
BundleWithinLimits ==
  /\ IsInjective(artifacts) /\ Root \notin Range(artifacts)
  /\ Len(artifacts) < limits.maxFiles
  /\ ~ Oversized => total <= limits.maxTotalBytes
  /\ \A f \in Range(artifacts) : f \in readable /\ size[f] <= limits.maxBytesPerFile

\* The files at most n hops from the root.
Within(n) ==
  LET hops[k \in Nat] ==
        IF k = 0 THEN {Root}
        ELSE hops[k - 1] \cup
               {t \in Files : \E f \in hops[k - 1] : t \in Range(refs[f])}
  IN  hops[n]

\* What the repository has to offer, whatever the order it is looked at: all
\* that can be reached from the root, by a path within the ceiling each, is
\* there and fits.
Complete ==
  LET closure == Within(limits.maxDepth)
  IN  /\ \A f \in closure : Range(refs[f]) \subseteq closure
      /\ closure \subseteq readable
      /\ Cardinality(closure) <= limits.maxFiles
      /\ \A f \in closure : size[f] <= limits.maxBytesPerFile
      /\ FoldFunctionOnSet(+, 0, size, closure) <= limits.maxTotalBytes

\* "cycles and duplicate refs never false-positive as partial": the verdict
\* depends on what the files hold and on no order of references, as long as
\* the root does not refer to itself.
FullIffComplete ==
  pc = "done" /\ Root \notin Range(refs[Root]) =>
    (result = "full" <=> Complete)
=============================================================================
