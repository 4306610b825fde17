----------------------------- MODULE Subsequence -----------------------------
(***************************************************************************)
(* Subsequences by position, as a recursive function, about which theorems  *)
(* can be proved as they cannot about SelectSeq.                            *)
(***************************************************************************)
EXTENDS Integers, Sequences

\* The elements of s at the positions in at, in their order.
Pick(s, at) ==
    LET picked[n \in 0 .. Len(s)] ==
            IF n = 0 THEN <<>>
            ELSE IF n \in at THEN Append(picked[n - 1], s[n]) ELSE picked[n - 1]
    IN  picked[Len(s)]
===============================================================================
