----------------------------- MODULE MCResolveOne -----------------------------
(* Instances of ResolveOne for TLC: two or three resources, scores below, at *)
(* and above the minimum and the confidence of an exact selection, with and  *)
(* without a template spec that embeds up to two documents.                  *)
EXTENDS ResolveOne
===============================================================================
