-------------------------------- MODULE Kept --------------------------------
(***************************************************************************)
(* Array.prototype.filter: SelectSeq with a set in the place of the test,  *)
(* and the same recursion, which a proof can expand.                       *)
(***************************************************************************)
EXTENDS Sequences, Naturals

\* The elements of seq that are in S, in their order.
Kept(seq, S) ==
  LET kept[k \in 0 .. Len(seq)] ==
        IF k = 0 THEN <<>>
        ELSE IF seq[k] \in S THEN Append(kept[k - 1], seq[k]) ELSE kept[k - 1]
  IN kept[Len(seq)]
=============================================================================
