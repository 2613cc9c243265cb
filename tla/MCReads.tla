-------------------------------- MODULE MCReads --------------------------------
(* Instances for TLC of the modules that read.                                *)
EXTENDS Reads, TLC

CONSTANTS
  root, a, b, c,                 \* files
  s1, s2, s3,                    \* subscriptions
  site, lone, app,               \* resources
  h1, h2, h3, h4,                \* candidates
  mine, other, repo, stranger,   \* associations and the repositories they name
  t1, t2,
  api, sib, wsp, id1, id2, g1, g2,
  u1, u2, u3, u4, host1, host2

\* A root and three files, c in a directory of its own, with lists that make
\* chains, cycles, diamonds, repeated and unresolvable references, and sizes at
\* and over the ceilings.
Lists ==
  {<<>>, <<a>>, <<c>>, <<a, b>>, <<b, a>>, <<b, b>>, <<root>>, <<Away, a>>}

Small == [f \in {root, a, b, c} |-> 1]

SizeChoices ==
  {Small, [Small EXCEPT ![root] = 4], [Small EXCEPT ![a] = 2, ![b] = 3, ![c] = 2]}

Ceilings(files, hops) ==
  [maxFiles |-> files, maxDepth |-> hops,
   maxBytesPerFile |-> 2, maxTotalBytes |-> 4]

LimitChoices == {Ceilings(3, 3), Ceilings(4, 2)}

\* b and c bear the same name in two directories.
Names == (root :> "root") @@ (a :> "a") @@ (b :> "b") @@ (c :> "b")

\* Three subscriptions for the choice of them, two for the rest.
Two == <<s1, s2>>
ApimOnly == <<"apim">>

\* Two candidates on one site, one on a container app, one on no resource, and
\* a site only the graph knows.
Located == (site :> s1) @@ (app :> s2) @@ (lone :> s1)
Placed == (h1 :> site) @@ (h2 :> site) @@ (h3 :> app) @@ (h4 :> Nowhere)
Bound == (mine :> repo) @@ (other :> stranger)

\* A workspace API that shares its id with one API of the service and its
\* revision group with the other.
Ids == (api :> id1) @@ (sib :> id2) @@ (wsp :> id1)
Groups == (api :> g1) @@ (sib :> g2) @@ (wsp :> g2)

\* u3 is on another host, u4 no target a client may be sent to.
Hosts == (u1 :> host1) @@ (u2 :> host1) @@ (u3 :> host2) @@ (u4 :> host1)

Standard == <<site, lone>>
================================================================================
