-------------------------------- MODULE Sums --------------------------------
(***************************************************************************)
(* What a loop adds up or picks out, as a recursive function whose every   *)
(* step can be reasoned about.                                             *)
(***************************************************************************)
EXTENDS Integers, Sequences

\* a[1] + ... + a[n].
SumTo(a, n) ==
  LET upTo[k \in 0 .. n] == IF k = 0 THEN 0 ELSE upTo[k - 1] + a[k]
  IN  upTo[n]

\* The elements of s that are in S, in their order.
Kept(s, S) ==
  LET upTo[k \in 0 .. Len(s)] ==
        IF k = 0 THEN << >> ELSE IF s[k] \in S THEN Append(upTo[k - 1], s[k]) ELSE upTo[k - 1]
  IN  upTo[Len(s)]
=============================================================================
