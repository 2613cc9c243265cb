-------------------------------- MODULE Filters --------------------------------
(* Array.prototype.filter: the elements of a sequence that lie in a set, in   *)
(* their order.  SelectSeq computes the same from a test; as a recursive      *)
(* function the result can be reasoned about.                                 *)
EXTENDS Integers, Sequences

\* What is kept of the first n elements.
Kept(s, K) ==
  LET kept[n \in 0 .. Len(s)] ==
        IF n = 0 THEN <<>>
        ELSE IF s[n] \in K THEN Append(kept[n - 1], s[n])
        ELSE kept[n - 1]
  IN  kept

Filter(s, K) == Kept(s, K)[Len(s)]
================================================================================
