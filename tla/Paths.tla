------------------------------- MODULE Paths -------------------------------
(***************************************************************************)
(* The path algebra of path.go.  A path that has been through cleanPath is *)
(* the sequence of its components, so "/" is the empty sequence and        *)
(* "/a/b" is <<"a", "b">>: the separator, and the care the code takes with *)
(* it, is below this abstraction.                                          *)
(***************************************************************************)
EXTENDS Sequences, Integers

\* The export root, "/".
Root == << >>

\* under(parent, p): p is parent, or lies beneath it.
Under(parent, p) ==
    /\ Len(parent) <= Len(p)
    /\ \A i \in 1..Len(parent) : parent[i] = p[i]

\* strictlyUnder(parent, p): under, excluding the parent itself.
StrictlyUnder(parent, p) == p # parent /\ Under(parent, p)

\* parentOf(p): the containing directory, clamped at the root.
ParentOf(p) == IF p = Root THEN Root ELSE SubSeq(p, 1, Len(p) - 1)

\* The same place under dst as q is under src.
Rebase(src, dst, q) == dst \o SubSeq(q, Len(src) + 1, Len(q))

=============================================================================
