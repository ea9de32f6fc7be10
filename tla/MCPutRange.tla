----------------------------- MODULE MCPutRange -----------------------------
(* Offsets 0 and 1 around a file of one byte, and two ranges that end      *)
(* at the largest integer: from 0, where the length overflows, and from 1.  *)
EXTENDS PutRange, TLC

Bytes_(start, end, total) == [start |-> start, end |-> end, total |-> total]
MCHeaders ==
    {Bytes_(0, 1, Star), Bytes_(1, 1, Star), Bytes_(1, 0, Star),
     Bytes_(0, 1, 1), Bytes_(0, MaxInt, Star), Bytes_(1, MaxInt, Star)}
\* Two appends of different lengths.
MCAppends == {Bytes_(0, 0, Star), Bytes_(0, 1, Star)}
MCSymmetry == Permutations(Client)
=============================================================================
