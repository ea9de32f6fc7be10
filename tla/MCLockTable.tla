---------------------------- MODULE MCLockTable -----------------------------
(* The root, a collection and its member.  The tokens are interchangeable  *)
(* and every property here is one of safety.                               *)
EXTENDS LockTable, TLC

MCName     == {"a", "b"}
MCResource == {<< >>, <<"a">>, <<"a", "b">>}
MCTimeouts == {-1, 0, 1}
MCSymmetry == Permutations(Token)
=============================================================================
