------------------------- MODULE WebDAVServerProofs -------------------------
(***************************************************************************)
(* What the writing methods keep, for any number of clients and requests,  *)
(* any tree, any set of paths and any driver: the inductive invariant of   *)
(* WebDAVServer and the properties that follow from it.                    *)
(***************************************************************************)
EXTENDS WebDAVServer, LockSystemProofs

-----------------------------------------------------------------------------
(* What the driver calls of write.go do to the exported tree: each of them, *)
(* whole or cut short by a failure, leaves a tree.                          *)

\* What every lemma below starts from.
LEMMA ResourcesAreSequences ==
    /\ \A p \in Resource : p \in Seq(Name)
    /\ Root \in Resource
    /\ \A p \in Resource, q \in Seq(Name) : Under(q, p) => q \in Resource
<1>1. ASSUME NEW p \in Resource, NEW q \in Seq(Name), Under(q, p)
      PROVE  q \in Resource
  <2>1. Len(q) \in 0..Len(p) /\ q = SubSeq(p, 1, Len(q))
    BY <1>1, AncestorIsPrefix, ResourceAssumption
  <2>. QED
    BY <2>1, ResourceAssumption
<1>. QED
  BY <1>1, ResourceAssumption

LEMMA ParentInResource ==
    ASSUME NEW p \in Resource
    PROVE  ParentOf(p) \in Resource
<1>1. CASE p = Root
  BY <1>1 DEF ParentOf
<1>2. CASE p # Root
  <2>1. ParentOf(p) \in Seq(Name) /\ Under(ParentOf(p), p)
    BY <1>2, ParentIsLast, ResourcesAreSequences DEF StrictlyUnder
  <2>. QED
    BY <2>1, ResourcesAreSequences
<1>. QED
  BY <1>1, <1>2

\* What exists under a resource exists with everything above it.
LEMMA AboveExists ==
    ASSUME TreeShape(tree), NEW p \in DOMAIN tree, NEW q \in Resource, Under(q, p)
    PROVE  q \in DOMAIN tree /\ (q # p => tree[q] = "dir")
  BY DEF TreeShape, StrictlyUnder

-----------------------------------------------------------------------------
\* A name whose directory exists has directories all the way up.
LEMMA DirsAbove ==
    ASSUME TreeShape(tree), NEW p \in Resource, p # Root, IsDir(ParentOf(p)),
           NEW q \in Resource, StrictlyUnder(q, p)
    PROVE  q \in DOMAIN tree /\ tree[q] = "dir"
<1>1. Under(q, ParentOf(p))
  BY ParentIsLast, ResourcesAreSequences
<1>2. ParentOf(p) \in DOMAIN tree /\ tree[ParentOf(p)] = "dir"
  BY DEF IsDir, Exists
<1>. QED
  BY <1>1, <1>2, AboveExists

\* A resource is created in a directory, or replaced by a file.
LEMMA PutShape ==
    ASSUME TreeShape(tree), NEW p \in Resource, p # Root, IsDir(ParentOf(p)),
           ~IsDir(p), NEW kind \in {"dir", "file"}
    PROVE  TreeShape(Put(tree, p, kind))
<1> DEFINE new == Put(tree, p, kind)
<1>1. /\ DOMAIN new = DOMAIN tree \cup {p}
      /\ new \in [DOMAIN new -> {"dir", "file"}]
      /\ new[p] = kind /\ \A q \in DOMAIN tree : q # p => new[q] = tree[q]
  BY DEF Put, TreeShape
<1>2. DOMAIN new \subseteq Resource /\ Root \in DOMAIN new /\ new[Root] = "dir"
  BY <1>1 DEF TreeShape
<1>3. ASSUME NEW q \in DOMAIN new, NEW r \in Resource, StrictlyUnder(r, q)
      PROVE  r \in DOMAIN new /\ new[r] = "dir"
  <2>. HIDE DEF new
  <2>1. r \in DOMAIN tree /\ tree[r] = "dir"
    BY <1>1, <1>3, DirsAbove DEF TreeShape
  <2>2. r # p
    BY <2>1 DEF IsDir, Exists
  <2>. QED
    BY <1>1, <2>1, <2>2
<1>. QED
  BY <1>1, <1>2, <1>3 DEF TreeShape

LEMMA WriteShape ==
    ASSUME TreeShape(tree), NEW p \in Resource, CanWrite(p)
    PROVE  TreeShape(Put(tree, p, "file"))
<1>1. ~IsDir(p)
  BY DEF CanWrite, IsDir
<1>2. p # Root
  BY <1>1 DEF TreeShape, IsDir, Exists
<1>. QED
  BY <1>1, <1>2, PutShape DEF CanWrite

-----------------------------------------------------------------------------
\* removeTree, whatever it fails on: what is above a survivor survives.
LEMMA RemovedShape ==
    ASSUME TreeShape(tree), NEW p \in Resource, p # Root,
           NEW stuck \in SUBSET Members(p), NEW blind \in SUBSET stuck
    PROVE  TreeShape(Removed(p, stuck, blind))
<1> DEFINE kept == Survivors(p, stuck, blind)
           new  == Removed(p, stuck, blind)
           left == DOMAIN tree \ (Members(p) \ kept)
<1>1. /\ DOMAIN new = left /\ left \subseteq DOMAIN tree
      /\ \A q \in left : new[q] = tree[q]
      /\ new \in [DOMAIN new -> {"dir", "file"}]
  BY DEF Removed, Drop, Restrict, TreeShape
<1>2. left \subseteq Resource
  BY <1>1 DEF TreeShape
<1>3. Root \in left /\ new[Root] = "dir"
  <2>1. ~Under(p, Root)
    BY RootAbove, ResourcesAreSequences
  <2>. QED
    BY <1>1, <2>1 DEF TreeShape, Members
<1>4. ASSUME NEW q \in left, NEW r \in Resource, StrictlyUnder(r, q)
      PROVE  r \in left /\ new[r] = "dir"
  <2>1. r \in DOMAIN tree /\ tree[r] = "dir" /\ q \in DOMAIN tree
    BY <1>1, <1>4 DEF TreeShape
  <2>2. CASE ~Under(p, r)
    BY <1>1, <2>1, <2>2 DEF Members
  <2>3. CASE Under(p, r)
    <3>1. Under(r, q) /\ Under(p, q)
      BY <1>2, <1>4, <2>3, UnderTransitive, ResourcesAreSequences DEF StrictlyUnder
    <3>2. q \in kept /\ r \in Members(p)
      BY <2>1, <2>3, <3>1 DEF Members
    <3>3. stuck \subseteq Resource
      BY DEF Members, TreeShape
    <3>4. CASE \E s \in stuck : Under(q, s)
      <4>1. \E s \in stuck : Under(r, s)
        BY <1>2, <3>1, <3>3, <3>4, UnderTransitive, ResourcesAreSequences
      <4>. QED
        BY <1>1, <2>1, <3>2, <4>1 DEF Survivors
    <3>5. CASE \E d \in blind : Under(d, q)
      <4>1. PICK d \in blind : Under(d, q)
        BY <3>5
      <4>2. Under(d, r) \/ Under(r, d)
        BY <1>2, <3>1, <3>3, <4>1, AncestorsComparable, ResourcesAreSequences
      <4>. QED
        BY <1>1, <2>1, <3>2, <4>1, <4>2 DEF Survivors
    <3>. QED
      BY <3>2, <3>4, <3>5 DEF Survivors
  <2>. QED
    BY <2>2, <2>3
<1>. HIDE DEF new
<1>. QED
  BY <1>1, <1>2, <1>3, <1>4 DEF TreeShape, new

\* What removeTree leaves alone, and that it leaves nothing when nothing fails.
LEMMA RemovedIs ==
    ASSUME NEW p, NEW stuck, NEW blind
    PROVE  /\ DOMAIN Removed(p, stuck, blind) \subseteq DOMAIN tree
           /\ \A q \in DOMAIN tree : ~Under(p, q) =>
                 /\ q \in DOMAIN Removed(p, stuck, blind)
                 /\ Removed(p, stuck, blind)[q] = tree[q]
           /\ \A q \in DOMAIN Removed(p, {}, {}) : ~Under(p, q)
<1>1. Survivors(p, {}, {}) = {}
  BY DEF Survivors
<1>. QED
  BY <1>1 DEF Removed, Drop, Restrict, Members

-----------------------------------------------------------------------------
\* Where MOVE and COPY take src: to a name that is free, in a directory, and
\* not beneath src.
Ready(src, dst) ==
    /\ src \in Resource /\ dst \in Resource
    /\ dst # Root /\ ~Exists(dst) /\ IsDir(ParentOf(dst)) /\ ~Under(src, dst)
    /\ \A q \in Resource : Under(src, q) => Rebase(src, dst, q) \in Resource

\* S holds, of the resources in T, all that are above one of its own.
Closed(S, T) == \A q \in S, r \in T : StrictlyUnder(r, q) => r \in S

\* The part rest of the tree, with the part from of src put at dst.
Graft(src, dst, rest, from) ==
    LET made == {Rebase(src, dst, q) : q \in from}
    IN  [p \in rest \cup made |-> IF p \in made THEN tree[Rebase(dst, src, p)]
                                               ELSE tree[p]]

\* It is a tree when rest holds the directory of dst and both parts hold the
\* directories of what they hold.
LEMMA GraftShape ==
    ASSUME TreeShape(tree), NEW src, NEW dst, Ready(src, dst),
           NEW rest \in SUBSET DOMAIN tree, ParentOf(dst) \in rest,
           Closed(rest, Resource),
           NEW from \in SUBSET Members(src),
           Closed(from, Members(src))
    PROVE  TreeShape(Graft(src, dst, rest, from))
<1> DEFINE made == {Rebase(src, dst, q) : q \in from}
           new  == Graft(src, dst, rest, from)
<1>1. /\ src \in Resource /\ dst \in Resource /\ src \in Seq(Name) /\ dst \in Seq(Name)
      /\ DOMAIN tree \subseteq Resource
      /\ \A q \in from : q \in DOMAIN tree /\ q \in Resource /\ q \in Seq(Name) /\ Under(src, q)
  BY ResourcesAreSequences DEF Ready, Members, TreeShape
<1>2. ASSUME NEW q \in from
      PROVE  /\ Rebase(src, dst, q) \in Resource
             /\ Under(dst, Rebase(src, dst, q))
             /\ Rebase(dst, src, Rebase(src, dst, q)) = q
  BY <1>1, RebaseUnder, RebaseInverse DEF Ready
<1>3. ASSUME NEW r \in DOMAIN tree PROVE r \notin made
  <2>1. ASSUME r \in made PROVE FALSE
    <3>1. r \in Resource /\ Under(dst, r)
      BY <1>2, <2>1
    <3>. QED
      BY <1>1, <3>1, AboveExists DEF Ready, Exists
  <2>. QED
    BY <2>1
<1>4. /\ DOMAIN new = rest \cup made
      /\ \A p \in rest : new[p] = tree[p]
      /\ \A p \in made : new[p] = tree[Rebase(dst, src, p)]
      /\ new = [p \in DOMAIN new |-> new[p]]
  BY <1>3 DEF Graft
<1>5. new \in [DOMAIN new -> {"dir", "file"}]
  <2>1. \A p \in rest : tree[p] \in {"dir", "file"}
    BY DEF TreeShape
  <2>2. \A p \in made : tree[Rebase(dst, src, p)] \in {"dir", "file"}
    BY <1>1, <1>2 DEF TreeShape
  <2>. HIDE DEF new
  <2>. QED
    BY <1>4, <2>1, <2>2
<1>6. DOMAIN new \subseteq Resource
  BY <1>1, <1>2, <1>4
<1>. HIDE DEF new
<1>7. ParentOf(dst) \in Resource /\ tree[ParentOf(dst)] = "dir"
  BY <1>1 DEF Ready, IsDir
<1>8. ASSUME NEW r \in Resource, Under(r, ParentOf(dst))
      PROVE  r \in DOMAIN new /\ new[r] = "dir"
  <2>1. r \in rest
    BY <1>8 DEF StrictlyUnder, Closed
  <2>2. tree[r] = "dir"
    BY <1>7, <1>8 DEF TreeShape, StrictlyUnder
  <2>. QED
    BY <1>4, <2>1, <2>2
<1>9. Root \in DOMAIN new /\ new[Root] = "dir"
  BY <1>7, <1>8, RootAbove, ResourcesAreSequences
<1>10. ASSUME NEW p \in rest, NEW r \in Resource, StrictlyUnder(r, p)
       PROVE  r \in DOMAIN new /\ new[r] = "dir"
  BY <1>4, <1>10 DEF TreeShape, Closed
<1>11. ASSUME NEW q \in from, NEW r \in Resource, StrictlyUnder(r, Rebase(src, dst, q))
       PROVE  r \in DOMAIN new /\ new[r] = "dir"
  <2> DEFINE p == Rebase(src, dst, q)
             b == Rebase(dst, src, r)
  <2>1. r \in Seq(Name) /\ p \in Seq(Name) /\ Under(dst, p) /\ Under(r, p) /\ r # p
    BY <1>1, <1>2, <1>11, ResourcesAreSequences DEF StrictlyUnder
  <2>2. CASE Under(dst, r)
    <3>1. /\ b \in Seq(Name) /\ Under(src, b) /\ Under(b, q)
          /\ r = Rebase(src, dst, b)
      BY <1>1, <2>1, <2>2, RebaseBetween
    <3>. HIDE DEF b
    <3>2. StrictlyUnder(b, q)
      BY <2>1, <3>1 DEF StrictlyUnder
    <3>3. b \in Resource
      BY <1>1, <3>1, ResourcesAreSequences
    <3>4. b \in DOMAIN tree /\ tree[b] = "dir"
      BY <1>1, <3>2, <3>3 DEF TreeShape
    <3>5. b \in from
      BY <3>1, <3>2, <3>4 DEF Members, Closed
    <3>. QED
      BY <1>2, <1>4, <3>1, <3>4, <3>5
  <2>3. CASE ~Under(dst, r)
    <3>1. StrictlyUnder(r, dst)
      BY <1>1, <2>1, <2>3, AncestorsComparable, UnderReflexive DEF StrictlyUnder
    <3>2. Under(r, ParentOf(dst))
      BY <1>1, <2>1, <3>1, ParentIsLast DEF Ready
    <3>. QED
      BY <1>8, <3>2
  <2>. QED
    BY <2>2, <2>3
<1>12. ASSUME NEW p \in DOMAIN new, NEW r \in Resource, StrictlyUnder(r, p)
       PROVE  r \in DOMAIN new /\ new[r] = "dir"
  BY <1>4, <1>10, <1>11, <1>12
<1>. QED
  BY <1>5, <1>6, <1>9, <1>12 DEF TreeShape, new

\* Rename takes the subtree and leaves nothing of it behind.
LEMMA RenamedShape ==
    ASSUME TreeShape(tree), NEW src, NEW dst, Ready(src, dst), Exists(src)
    PROVE  /\ TreeShape(Renamed(src, dst))
           /\ \A p \in DOMAIN Renamed(src, dst) : ~Under(src, p)
           /\ \A p \in DOMAIN tree : ~Under(src, p) => p \in DOMAIN Renamed(src, dst)
<1> DEFINE rest  == DOMAIN tree \ Members(src)
           moved == {Rebase(src, dst, q) : q \in Members(src)}
<1>1. /\ src \in Seq(Name) /\ dst \in Seq(Name) /\ dst \in Resource /\ dst # Root
      /\ DOMAIN tree \subseteq Resource /\ DOMAIN tree \subseteq Seq(Name)
      /\ ~Under(src, dst)
  BY ResourcesAreSequences DEF Ready, TreeShape
<1>2. Closed(rest, Resource)
  <2>1. ASSUME NEW q \in rest, NEW r \in Resource, StrictlyUnder(r, q)
        PROVE  r \in rest
    <3>1. r \in DOMAIN tree
      BY <2>1 DEF TreeShape
    <3>2. ~Under(src, r)
      BY <1>1, <2>1, <3>1, UnderTransitive DEF Members, StrictlyUnder
    <3>. QED
      BY <3>1, <3>2 DEF Members
  <2>. QED
    BY <2>1 DEF Closed
<1>3. ParentOf(dst) \in rest
  <2>1. ParentOf(dst) \in DOMAIN tree
    BY DEF Ready, IsDir, Exists
  <2>2. ~Under(src, ParentOf(dst))
    BY <1>1, <2>1, ParentIsLast, UnderTransitive DEF StrictlyUnder
  <2>. QED
    BY <2>1, <2>2 DEF Members
<1>4. TreeShape(Renamed(src, dst))
  <2>1. Closed(Members(src), Members(src)) /\ Members(src) \in SUBSET Members(src)
    BY DEF Closed
  <2>2. TreeShape(Graft(src, dst, rest, Members(src)))
    BY <1>2, <1>3, <2>1, GraftShape
  <2>3. Renamed(src, dst) = Graft(src, dst, rest, Members(src))
    BY DEF Renamed, Graft
  <2>. QED
    BY <2>2, <2>3
<1>5. ASSUME NEW q \in Members(src) PROVE ~Under(src, Rebase(src, dst, q))
  <2> DEFINE p == Rebase(src, dst, q)
  <2>1. p \in Seq(Name) /\ Under(dst, p)
    BY <1>1, RebaseUnder DEF Members
  <2>2. ASSUME Under(src, p) PROVE FALSE
    <3>1. Under(dst, src)
      BY <1>1, <2>1, <2>2, AncestorsComparable
    <3>. QED
      BY <1>1, <3>1, AboveExists DEF Ready, Exists
  <2>. QED
    BY <2>2
<1>6. DOMAIN Renamed(src, dst) = rest \cup moved
  BY DEF Renamed
<1>. QED
  BY <1>4, <1>5, <1>6 DEF Members

\* A copy, whole or cut short, is made from the top down.
LEMMA CopyShape ==
    ASSUME TreeShape(tree), NEW src, NEW dst, Ready(src, dst), NEW depth \in Depths,
           NEW stuck \in SUBSET Members(src), NEW left \in SUBSET Uncopied(src, depth, stuck)
    PROVE  TreeShape(WithCopies(src, dst, Copied(src, depth, stuck) \cup left))
<1> DEFINE from == Copied(src, depth, stuck) \cup left
<1>1. /\ from \in SUBSET Members(src) /\ from \subseteq ToCopy(src, depth)
      /\ src \in Seq(Name)
      /\ DOMAIN tree \subseteq Resource /\ Members(src) \subseteq Seq(Name)
  BY ResourcesAreSequences
  DEF Ready, TreeShape, Members, Copied, Uncopied, ToCopy
<1>2. ASSUME NEW q \in from, NEW r \in Members(src), StrictlyUnder(r, q)
      PROVE  r \in Copied(src, depth, stuck)
  <2>1. r \in ToCopy(src, depth)
    <3>1. q = src => r = src
      BY <1>1, <1>2, UnderAntisymmetric DEF StrictlyUnder, Members
    <3>. QED
      BY <1>1, <1>2, <3>1 DEF ToCopy, Depths
  <2>2. ASSUME NEW s \in stuck, Under(s, r) PROVE FALSE
    <3>1. Under(s, q) /\ s # q
      BY <1>1, <1>2, <2>2, UnderTransitive, UnderAntisymmetric DEF StrictlyUnder
    <3>. QED
      BY <2>2, <3>1 DEF Copied, Uncopied
  <2>. QED
    BY <2>1, <2>2 DEF Copied
<1>3. Closed(DOMAIN tree, Resource) /\ Closed(from, Members(src))
  BY <1>2 DEF TreeShape, Closed
<1>4. ParentOf(dst) \in DOMAIN tree
  BY DEF Ready, IsDir, Exists
<1>5. WithCopies(src, dst, from) = Graft(src, dst, DOMAIN tree, from)
  BY DEF WithCopies, Graft
<1>. HIDE DEF from
<1>6. TreeShape(Graft(src, dst, DOMAIN tree, from))
  BY <1>1, <1>3, <1>4, GraftShape
<1>. QED
  BY <1>5, <1>6 DEF from

-----------------------------------------------------------------------------
(* What a removal that fails answers.                                       *)

\* No path of the tree is longer than some number.
Bounded(t) == \E n \in Nat : \A p \in DOMAIN t : Len(p) <= n

\* What the removal of p may fail on.
Meets(p, stuck, blind) ==
    /\ TreeShape(tree) /\ Bounded(tree) /\ p \in DOMAIN tree
    /\ stuck \subseteq Members(p) /\ blind \subseteq stuck

\* The failures beneath q, without recursion: a collection that could not be
\* listed, or what has no failure beneath it, and neither beneath a collection
\* that could not be listed.
Named(q, stuck, blind) ==
    {r \in Members(q) \cap stuck :
        /\ r \in blind \/ \A s \in stuck : ~StrictlyUnder(r, s)
        /\ \A d \in blind : Under(q, d) => ~StrictlyUnder(d, r)}

LEMMA MeetsTypes ==
    ASSUME NEW p, NEW stuck, NEW blind, Meets(p, stuck, blind)
    PROVE  /\ DOMAIN tree \subseteq Resource /\ DOMAIN tree \subseteq Seq(Name)
           /\ Members(p) \subseteq DOMAIN tree /\ stuck \subseteq DOMAIN tree
           /\ blind \subseteq DOMAIN tree
           /\ \A q \in Members(p), r \in DOMAIN tree : Under(q, r) => r \in Members(p)
<1>1. DOMAIN tree \subseteq Resource /\ DOMAIN tree \subseteq Seq(Name)
  BY ResourcesAreSequences DEF Meets, TreeShape
<1>2. Members(p) \subseteq DOMAIN tree
  BY DEF Members
<1>3. ASSUME NEW q \in Members(p), NEW r \in DOMAIN tree, Under(q, r)
      PROVE  r \in Members(p)
  <2>1. q \in DOMAIN tree /\ Under(p, q) /\ p \in DOMAIN tree
    BY DEF Members, Meets
  <2>2. Under(p, r)
    BY <1>1, <1>3, <2>1, UnderTransitive
  <2>. QED
    BY <2>2 DEF Members
<1>. QED
  BY <1>1, <1>2, <1>3 DEF Meets

\* A collection that could not be listed is named, or one above it is.
LEMMA BlindIsNamed ==
    ASSUME NEW p, NEW stuck, NEW blind, Meets(p, stuck, blind),
           NEW q \in Members(p), NEW d \in blind, Under(q, d)
    PROVE  \E r \in Named(q, stuck, blind) : Under(r, d)
<1> DEFINE T == {x \in blind : Under(q, x) /\ Under(x, d)}
<1>1. /\ DOMAIN tree \subseteq Seq(Name) /\ stuck \subseteq DOMAIN tree
      /\ blind \subseteq DOMAIN tree /\ blind \subseteq stuck
  BY MeetsTypes DEF Meets
<1>2. T \subseteq Seq(Name) /\ d \in T
  BY <1>1, UnderReflexive
<1>3. PICK r \in T : \A x \in T : Len(r) <= Len(x)
  BY <1>2, Shortest
<1>4. ASSUME NEW e \in blind, Under(q, e), StrictlyUnder(e, r)
      PROVE  FALSE
  <2>1. Under(e, d)
    BY <1>1, <1>3, <1>4, UnderTransitive DEF StrictlyUnder
  <2>2. Len(r) <= Len(e)
    BY <1>3, <1>4, <2>1
  <2>3. Len(e) < Len(r)
    BY <1>1, <1>3, <1>4, UnderShorter
  <2>. QED
    BY <1>1, <1>3, <2>2, <2>3, LenProperties
<1>5. r \in Members(q) \cap stuck
  BY <1>1, <1>3 DEF Members
<1>. QED
  BY <1>3, <1>4, <1>5 DEF Named

\* Whatever fails, something on its way is named.
LEMMA StuckIsNamed ==
    ASSUME NEW p, NEW stuck, NEW blind, Meets(p, stuck, blind),
           NEW q \in Members(p), NEW s \in stuck, Under(q, s)
    PROVE  \E r \in Named(q, stuck, blind) : Under(r, s) \/ Under(s, r)
<1> DEFINE T == {x \in stuck : Under(s, x)}
<1>1. /\ DOMAIN tree \subseteq Seq(Name) /\ stuck \subseteq DOMAIN tree
      /\ blind \subseteq DOMAIN tree /\ blind \subseteq stuck /\ q \in DOMAIN tree
  BY MeetsTypes DEF Meets, Members
<1>2. PICK n \in Nat : \A x \in DOMAIN tree : Len(x) <= n
  BY DEF Meets, Bounded
<1>3. T \subseteq Seq(Name) /\ s \in T /\ \A x \in T : Len(x) <= n
  BY <1>1, <1>2, UnderReflexive
<1>4. PICK r \in T : \A x \in T : Len(x) <= Len(r)
  BY <1>2, <1>3, Longest
<1>5. ASSUME NEW x \in stuck, StrictlyUnder(r, x)
      PROVE  FALSE
  <2>1. Under(s, x)
    BY <1>1, <1>4, <1>5, UnderTransitive DEF StrictlyUnder
  <2>2. Len(x) <= Len(r) /\ Len(r) < Len(x)
    BY <1>1, <1>4, <1>5, <2>1, UnderShorter
  <2>. QED
    BY <1>1, <1>4, <2>2, LenProperties
<1>6. r \in Members(q) \cap stuck
  <2>1. Under(q, r)
    BY <1>1, <1>4, UnderTransitive
  <2>. QED
    BY <1>1, <1>4, <2>1 DEF Members
<1>7. CASE r \in Named(q, stuck, blind)
  BY <1>4, <1>7
<1>8. CASE r \notin Named(q, stuck, blind)
  <2>1. PICK d \in blind : Under(q, d) /\ StrictlyUnder(d, r)
    BY <1>5, <1>6, <1>8 DEF Named
  <2>2. PICK e \in Named(q, stuck, blind) : Under(e, d)
    BY <2>1, BlindIsNamed
  <2>3. e \in DOMAIN tree
    BY <2>2 DEF Named, Members
  <2>4. Under(e, r)
    BY <1>1, <1>4, <2>1, <2>2, <2>3, UnderTransitive DEF StrictlyUnder
  <2>. QED
    BY <1>1, <1>4, <2>2, <2>3, <2>4, AncestorsComparable
<1>. QED
  BY <1>7, <1>8

LEMMA ChildrenAre ==
    ASSUME TreeShape(tree), NEW q \in DOMAIN tree
    PROVE  /\ \A k \in Children(q) : k \in DOMAIN tree /\ StrictlyUnder(q, k)
           /\ \A r \in DOMAIN tree : StrictlyUnder(q, r) => \E k \in Children(q) : Under(k, r)
<1>1. DOMAIN tree \subseteq Resource /\ DOMAIN tree \subseteq Seq(Name)
  BY ResourcesAreSequences DEF TreeShape
<1>2. ASSUME NEW k \in Children(q)
      PROVE  k \in DOMAIN tree /\ StrictlyUnder(q, k)
  <2>1. k \in DOMAIN tree /\ k # q /\ ParentOf(k) = q
    BY DEF Children
  <2>2. k # Root
    BY <2>1 DEF ParentOf
  <2>. QED
    BY <1>1, <2>1, <2>2, ParentIsLast
<1>3. ASSUME NEW r \in DOMAIN tree, StrictlyUnder(q, r)
      PROVE  \E k \in Children(q) : Under(k, r)
  <2>1. PICK k \in Seq(Name) : k # q /\ ParentOf(k) = q /\ Under(k, r)
    BY <1>1, <1>3, NextOnTheWay
  <2>2. k \in DOMAIN tree
    BY <1>1, <2>1, ResourcesAreSequences, AboveExists
  <2>. QED
    BY <2>1, <2>2 DEF Children
<1>. QED
  BY <1>2, <1>3

LEMMA ChildrenDisjoint ==
    ASSUME TreeShape(tree), NEW q \in DOMAIN tree,
           NEW j \in Children(q), NEW k \in Children(q), Under(j, k)
    PROVE  j = k
<1>1. /\ j \in DOMAIN tree /\ StrictlyUnder(q, j) /\ k \in DOMAIN tree /\ StrictlyUnder(q, k)
      /\ DOMAIN tree \subseteq Seq(Name) /\ ParentOf(k) = q
  BY ChildrenAre, ResourcesAreSequences DEF TreeShape, Children
<1>2. k # Root
  BY <1>1, RootAbove DEF StrictlyUnder
<1>3. j # k => Under(j, q)
  BY <1>1, <1>2, ParentIsLast DEF StrictlyUnder
<1>. QED
  BY <1>1, <1>3, UnderAntisymmetric DEF StrictlyUnder

\* What is named beneath a collection that was listed is what is named beneath
\* its members, itself aside.
LEMMA NamedBeneath ==
    ASSUME NEW p, NEW stuck, NEW blind, Meets(p, stuck, blind),
           NEW q \in Members(p), q \notin blind
    PROVE  UNION {Named(k, stuck, blind) : k \in Children(q)} = Named(q, stuck, blind) \ {q}
<1>1. /\ DOMAIN tree \subseteq Seq(Name) /\ stuck \subseteq DOMAIN tree
      /\ blind \subseteq DOMAIN tree /\ blind \subseteq stuck /\ q \in DOMAIN tree
      /\ TreeShape(tree)
  BY MeetsTypes DEF Meets, Members
<1>2. ASSUME NEW k \in Children(q), NEW r \in Named(k, stuck, blind)
      PROVE  r \in Named(q, stuck, blind) \ {q}
  <2>1. k \in DOMAIN tree /\ StrictlyUnder(q, k)
    BY <1>1, ChildrenAre
  <2>2. r \in DOMAIN tree /\ r \in stuck /\ Under(k, r)
    BY DEF Named, Members
  <2>3. Under(q, r)
    BY <1>1, <2>1, <2>2, UnderTransitive DEF StrictlyUnder
  <2>4. r # q
    BY <1>1, <2>1, <2>2, UnderAntisymmetric DEF StrictlyUnder
  <2>5. ASSUME NEW d \in blind, Under(q, d), StrictlyUnder(d, r)
        PROVE  FALSE
    <3>1. StrictlyUnder(q, d)
      BY <2>5 DEF StrictlyUnder
    <3>2. PICK j \in Children(q) : Under(j, d)
      BY <1>1, <3>1, ChildrenAre
    <3>3. j \in DOMAIN tree /\ Under(j, r)
      BY <1>1, <2>2, <2>5, <3>2, ChildrenAre, UnderTransitive DEF StrictlyUnder
    <3>4. Under(j, k) \/ Under(k, j)
      BY <1>1, <2>1, <2>2, <3>3, AncestorsComparable
    <3>5. j = k
      BY <1>1, <2>1, <3>2, <3>3, <3>4, ChildrenDisjoint
    <3>. QED
      BY <2>5, <3>2, <3>5 DEF Named
  <2>6. r \in Members(q)
    BY <2>2, <2>3 DEF Members
  <2>. QED
    BY <2>2, <2>4, <2>5, <2>6 DEF Named
<1>3. ASSUME NEW r \in Named(q, stuck, blind) \ {q}
      PROVE  \E k \in Children(q) : r \in Named(k, stuck, blind)
  <2>1. r \in DOMAIN tree /\ r \in stuck /\ StrictlyUnder(q, r)
    BY DEF Named, Members, StrictlyUnder
  <2>2. PICK k \in Children(q) : Under(k, r)
    BY <1>1, <2>1, ChildrenAre
  <2>3. k \in DOMAIN tree /\ StrictlyUnder(q, k)
    BY <1>1, ChildrenAre
  <2>4. \A d \in blind : Under(k, d) => Under(q, d)
    BY <1>1, <2>3, UnderTransitive DEF StrictlyUnder
  <2>5. r \in Members(k)
    BY <2>1, <2>2 DEF Members
  <2>. QED
    BY <2>1, <2>4, <2>5 DEF Named
<1>. QED
  BY <1>2, <1>3

\* What removeTree answers for q when f is what it answers beneath.
Fails(f, q, stuck, blind) ==
    IF q \in blind THEN {q}
    ELSE LET below == UNION {f[r] : r \in Children(q)}
         IN  IF below # {} THEN below ELSE {q} \cap stuck

IsFailures(f, p, stuck, blind) == f = [q \in Members(p) |-> Fails(f, q, stuck, blind)]

LEMMA NamedFails ==
    ASSUME NEW p, NEW stuck, NEW blind, Meets(p, stuck, blind),
           NEW f, NEW q \in Members(p),
           \A k \in Children(q) : f[k] = Named(k, stuck, blind)
    PROVE  Fails(f, q, stuck, blind) = Named(q, stuck, blind)
<1>1. /\ DOMAIN tree \subseteq Seq(Name) /\ stuck \subseteq DOMAIN tree
      /\ blind \subseteq DOMAIN tree /\ blind \subseteq stuck /\ q \in DOMAIN tree
      /\ TreeShape(tree)
  BY MeetsTypes DEF Meets, Members
<1> DEFINE named == Named(q, stuck, blind)
           below == UNION {f[k] : k \in Children(q)}
<1>2. q \in Members(q)
  BY <1>1, UnderReflexive DEF Members
<1>3. \A d \in blind : Under(q, d) => ~StrictlyUnder(d, q)
  BY <1>1, UnderAntisymmetric DEF StrictlyUnder
<1>4. CASE q \in blind
  <2>1. \A r \in named : r = q
    BY <1>4, <1>1, UnderReflexive DEF Named, Members, StrictlyUnder
  <2>2. q \in named
    BY <1>1, <1>2, <1>3, <1>4 DEF Named
  <2>. QED
    BY <1>4, <2>1, <2>2 DEF Fails
<1>5. CASE q \notin blind
  <2>1. below = named \ {q}
    BY <1>5, NamedBeneath
  <2>2. Fails(f, q, stuck, blind) = IF below # {} THEN below ELSE {q} \cap stuck
    BY <1>5 DEF Fails
  <2>3. CASE below # {}
    <3>1. PICK r \in named : r # q
      BY <2>1, <2>3
    <3>2. r \in stuck /\ StrictlyUnder(q, r)
      BY <3>1 DEF Named, Members, StrictlyUnder
    <3>3. q \notin named
      BY <1>5, <3>2 DEF Named
    <3>. QED
      BY <2>1, <2>2, <2>3, <3>3
  <2>4. CASE below = {}
    <3>1. ASSUME NEW s \in stuck, StrictlyUnder(q, s)
          PROVE  FALSE
      <4>1. PICK k \in Children(q) : Under(k, s)
        BY <1>1, <3>1, ChildrenAre
      <4>2. k \in Members(p)
        BY <1>1, <4>1, ChildrenAre, MeetsTypes DEF StrictlyUnder
      <4>3. Named(k, stuck, blind) # {}
        BY <4>1, <4>2, StuckIsNamed
      <4>. QED
        BY <2>4, <4>1, <4>3
    <3>2. q \in stuck => q \in named
      BY <1>2, <1>3, <3>1 DEF Named
    <3>3. named \subseteq stuck
      BY DEF Named
    <3>. QED
      BY <2>1, <2>2, <2>4, <3>2, <3>3
  <2>. QED
    BY <2>3, <2>4
<1>. QED
  BY <1>4, <1>5

\* The recursion has that answer and no other.
LEMMA FailuresAreNamed ==
    ASSUME NEW p, NEW stuck, NEW blind, Meets(p, stuck, blind),
           NEW f, IsFailures(f, p, stuck, blind), NEW q \in Members(p)
    PROVE  f[q] = Named(q, stuck, blind)
<1> DEFINE T == {x \in Members(p) : f[x] # Named(x, stuck, blind)}
<1>1. SUFFICES ASSUME T # {} PROVE FALSE
  OBVIOUS
<1>2. /\ DOMAIN tree \subseteq Seq(Name) /\ Members(p) \subseteq DOMAIN tree
      /\ TreeShape(tree)
  BY MeetsTypes DEF Meets
<1>3. PICK n \in Nat : \A x \in DOMAIN tree : Len(x) <= n
  BY DEF Meets, Bounded
<1>4. T \subseteq Seq(Name) /\ \A x \in T : Len(x) <= n
  BY <1>2, <1>3
<1>5. PICK x \in T : \A y \in T : Len(y) <= Len(x)
  BY <1>1, <1>3, <1>4, Longest
<1>6. ASSUME NEW k \in Children(x)
      PROVE  f[k] = Named(k, stuck, blind)
  <2>1. k \in DOMAIN tree /\ StrictlyUnder(x, k)
    BY <1>2, <1>5, ChildrenAre
  <2>2. k \in Members(p)
    BY <1>5, <2>1, MeetsTypes DEF StrictlyUnder
  <2>3. Len(x) < Len(k)
    BY <1>2, <1>5, <2>1, UnderShorter
  <2>4. Len(x) \in Nat /\ Len(k) \in Nat
    BY <1>2, <1>5, <2>1, LenProperties
  <2>. QED
    BY <1>5, <2>2, <2>3, <2>4
<1>7. Fails(f, x, stuck, blind) = Named(x, stuck, blind)
  BY <1>5, <1>6, NamedFails
<1>8. f[x] = Fails(f, x, stuck, blind)
  <2>1. f = [y \in Members(p) |-> Fails(f, y, stuck, blind)]
    BY DEF IsFailures
  <2>. HIDE DEF T
  <2>2. x \in Members(p)
    BY <1>5 DEF T
  <2>. QED
    BY <2>1, <2>2
<1>. QED
  BY <1>5, <1>7, <1>8

LEMMA FailuresExist ==
    ASSUME NEW p, NEW stuck, NEW blind, Meets(p, stuck, blind)
    PROVE  \E f : IsFailures(f, p, stuck, blind)
<1> DEFINE f == [q \in Members(p) |-> Named(q, stuck, blind)]
<1>1. ASSUME NEW q \in Members(p)
      PROVE  Fails(f, q, stuck, blind) = Named(q, stuck, blind)
  <2>1. ASSUME NEW k \in Children(q) PROVE k \in Members(p)
    <3>1. q \in DOMAIN tree /\ TreeShape(tree)
      BY DEF Meets, Members
    <3>. QED
      BY <2>1, <3>1, ChildrenAre, MeetsTypes DEF StrictlyUnder
  <2>2. \A k \in Children(q) : f[k] = Named(k, stuck, blind)
    BY <2>1
  <2>. HIDE DEF f
  <2>. QED
    BY <2>2, NamedFails
<1>2. f = [q \in Members(p) |-> Fails(f, q, stuck, blind)]
  BY <1>1
<1>. HIDE DEF f
<1>. QED
  BY <1>2 DEF IsFailures

LEMMA UnremovedIs ==
    ASSUME NEW p, NEW stuck, NEW blind, Meets(p, stuck, blind)
    PROVE  Unremoved(p, stuck, blind) = Named(p, stuck, blind)
<1> DEFINE f == CHOOSE f : IsFailures(f, p, stuck, blind)
<1>1. IsFailures(f, p, stuck, blind)
  BY FailuresExist
<1>2. Unremoved(p, stuck, blind) = f[p]
  BY <1>1 DEF Unremoved, IsFailures, Fails
<1>3. p \in Members(p)
  BY MeetsTypes, UnderReflexive DEF Meets, Members
<1>. HIDE DEF f
<1>. QED
  BY <1>1, <1>2, <1>3, FailuresAreNamed

\* The rows of a removal that failed tell what is left.
LEMMA RemovalTells ==
    ASSUME NEW p, NEW stuck, NEW blind, Meets(p, stuck, blind), stuck # {},
           NEW rows, rows = Unremoved(p, stuck, blind),
           NEW new, new = Removed(p, stuck, blind)
    PROVE  /\ rows # {} /\ rows \subseteq DOMAIN new
           /\ \A q, r \in rows : ~StrictlyUnder(q, r)
           /\ \A q \in Members(p) \cap DOMAIN new :
                 \E r \in rows : Under(r, q) \/ Under(q, r)
<1>1. /\ DOMAIN tree \subseteq Seq(Name) /\ stuck \subseteq DOMAIN tree
      /\ blind \subseteq stuck /\ stuck \subseteq Members(p)
  BY MeetsTypes DEF Meets
<1>2. rows = Named(p, stuck, blind)
  BY UnremovedIs
<1>3. p \in Members(p) /\ \A s \in stuck : Under(p, s)
  BY MeetsTypes, UnderReflexive DEF Meets, Members
<1>4. DOMAIN new = DOMAIN tree \ (Members(p) \ Survivors(p, stuck, blind))
  BY DEF Removed, Drop, Restrict
<1>5. rows # {}
  BY <1>2, <1>3, StuckIsNamed
<1>6. ASSUME NEW r \in rows PROVE r \in DOMAIN new
  <2>1. r \in stuck /\ r \in DOMAIN tree /\ r \in Members(p)
    BY <1>1, <1>2 DEF Named
  <2>2. r \in Survivors(p, stuck, blind)
    BY <1>1, <2>1, UnderReflexive DEF Survivors
  <2>. QED
    BY <1>4, <2>1, <2>2
<1>7. ASSUME NEW q \in rows, NEW r \in rows, StrictlyUnder(q, r)
      PROVE  FALSE
  BY <1>2, <1>7 DEF Named, Members
<1>8. ASSUME NEW q \in Members(p), q \in DOMAIN new
      PROVE  \E r \in rows : Under(r, q) \/ Under(q, r)
  <2>1. q \in Survivors(p, stuck, blind) /\ q \in DOMAIN tree
    BY <1>4, <1>8 DEF Members
  <2>2. CASE \E s \in stuck : Under(q, s)
    <3>1. PICK s \in stuck : Under(q, s)
      BY <2>2
    <3>2. PICK r \in Named(p, stuck, blind) : Under(r, s) \/ Under(s, r)
      BY <1>3, StuckIsNamed
    <3>3. r \in DOMAIN tree
      BY <3>2 DEF Named, Members
    <3>4. Under(s, r) => Under(q, r)
      BY <1>1, <2>1, <3>1, <3>3, UnderTransitive
    <3>5. Under(r, s) => Under(r, q) \/ Under(q, r)
      BY <1>1, <2>1, <3>1, <3>3, AncestorsComparable
    <3>. QED
      BY <1>2, <3>2, <3>4, <3>5
  <2>3. CASE \E d \in blind : Under(d, q)
    <3>1. PICK d \in blind : Under(d, q)
      BY <2>3
    <3>2. PICK r \in Named(p, stuck, blind) : Under(r, d)
      BY <1>1, <1>3, <3>1, BlindIsNamed
    <3>3. r \in DOMAIN tree /\ d \in DOMAIN tree
      BY <1>1, <3>2 DEF Named, Members
    <3>4. Under(r, q)
      BY <1>1, <2>1, <3>1, <3>2, <3>3, UnderTransitive
    <3>. QED
      BY <1>2, <3>2, <3>4
  <2>. QED
    BY <2>1, <2>2, <2>3 DEF Survivors
<1>. QED
  BY <1>5, <1>6, <1>7, <1>8

\* The rows of a copy that failed tell what was not copied.
LEMMA CopyTells ==
    ASSUME TreeShape(tree), NEW src \in Resource, NEW dst \in Resource, NEW depth,
           NEW stuck \in SUBSET ToCopy(src, depth),
           NEW left \in SUBSET Uncopied(src, depth, stuck),
           NEW new, new = WithCopies(src, dst, Copied(src, depth, stuck) \cup left),
           NEW q \in ToCopy(src, depth)
    PROVE  \/ Rebase(src, dst, q) \in DOMAIN new
           \/ \E x \in Uncopied(src, depth, stuck) :
                 Under(Rebase(src, dst, x), Rebase(src, dst, q))
<1>1. /\ DOMAIN tree \subseteq Seq(Name) /\ src \in Seq(Name) /\ dst \in Seq(Name)
  BY ResourcesAreSequences DEF TreeShape
<1>2. ToCopy(src, depth) \subseteq Members(src) /\ Members(src) \subseteq DOMAIN tree
  BY DEF ToCopy, Members
<1>3. CASE q \in Copied(src, depth, stuck)
  BY <1>3 DEF WithCopies
<1>4. CASE q \notin Copied(src, depth, stuck)
  <2> DEFINE T == {x \in stuck : Under(x, q)}
  <2>1. T # {} /\ T \subseteq Seq(Name)
    BY <1>1, <1>2, <1>4 DEF Copied
  <2>2. PICK x \in T : \A y \in T : Len(x) <= Len(y)
    BY <2>1, Shortest
  <2>3. ASSUME NEW y \in stuck \ {x}, Under(y, x)
        PROVE  FALSE
    <3>1. Under(y, q)
      BY <1>1, <1>2, <2>2, <2>3, UnderTransitive
    <3>2. Len(x) <= Len(y) /\ Len(y) < Len(x)
      BY <1>1, <1>2, <2>2, <2>3, <3>1, UnderShorter DEF StrictlyUnder
    <3>. QED
      BY <1>1, <1>2, <2>2, <3>2, LenProperties
  <2>4. x \in Uncopied(src, depth, stuck)
    BY <2>2, <2>3 DEF Uncopied
  <2>5. x \in Members(src) /\ Under(src, x) /\ x \in Seq(Name) /\ q \in Seq(Name)
    BY <1>1, <1>2, <2>2 DEF Members
  <2>6. Under(Rebase(src, dst, x), Rebase(src, dst, q))
    BY <1>1, <2>2, <2>5, RebaseMonotone
  <2>. QED
    BY <2>4, <2>6
<1>. QED
  BY <1>3, <1>4

-----------------------------------------------------------------------------
(* The inductive invariant. *)

\* The fields of a request in flight or answered.
Flight(r) ==
    r = [pc |-> r.pc, call |-> r.call, tokens |-> r.tokens, since |-> r.since,
         existed |-> r.existed, srcDir |-> r.srcDir, touched |-> r.touched,
         status |-> r.status, granted |-> r.granted, rows |-> r.rows]

\* Where a request can be is decided by its method.
PCFits(pc, method) ==
    /\ pc \in PCs \ {"idle"}
    /\ pc \in {"stat", "body", "write"}   => method = "PUT"
    /\ pc \in {"probe", "mkcol"}          => method = "MKCOL"
    /\ pc = "remove"                      => method = "DELETE"
    /\ pc = "release"                     => method \in {"DELETE", "MOVE"}
    /\ pc = "check"                       => method \in {"PUT", "MKCOL", "DELETE", "MOVE"}
    /\ pc \in {"checkDst", "prepare", "releaseDst", "transfer"} => method \in {"MOVE", "COPY"}
    /\ pc \in {"lockStat", "lockCreate"}  => method = "LOCK"
    /\ pc = "refresh"                     => method = "REFRESH"
    /\ pc = "unlock"                      => method = "UNLOCK"

\* Where nothing has been touched yet.
Untouched == {"check", "checkDst", "stat", "body", "write", "probe", "mkcol",
              "remove", "prepare", "refresh", "unlock"}

Refusals == {400, 403, 405, 409, 412, 415, 423}

\* A request, given the tokens minted so far.
RequestOK(r, minted) ==
    \/ r = Idle
    \/ /\ Flight(r)
       /\ r.call \in Requests
       /\ PCFits(r.pc, r.call.method)
       /\ r.tokens \subseteq minted /\ r.since \subseteq minted /\ r.granted \subseteq minted
       /\ r.pc # "answered" /\ r.call.method \in {"PUT", "DELETE", "MOVE"} => r.call.path # Root
       /\ r.pc \in Untouched => ~r.touched
       /\ r.pc = "answered" /\ r.call.method # "LOCK" /\ r.status \in Refusals => ~r.touched

\* The lock table is sound, and everything else has its type.
TypeInv ==
    /\ Sound(table)
    /\ DOMAIN table.byToken \subseteq issued
    /\ issued \subseteq Token
    /\ now \in 0..MaxTime
    /\ known \in [Client -> SUBSET issued]
    /\ req = [c \in Client |-> req[c]]
    /\ \A c \in Client : RequestOK(req[c], issued)

-----------------------------------------------------------------------------
LEMMA InFlightIs ==
    ASSUME TypeInv, NEW c \in Client, req[c].pc # "idle"
    PROVE  /\ Flight(req[c])
           /\ Call(c) \in Requests /\ Call(c) \in Calls
           /\ Src(c) \in Resource /\ Dst(c) \in Resource /\ Call(c).depth \in Depths
           /\ PCFits(req[c].pc, Call(c).method)
           /\ req[c].tokens \subseteq issued /\ req[c].since \subseteq issued
           /\ req[c].granted \subseteq issued
<1>1. RequestOK(req[c], issued) /\ req[c] # Idle
  BY DEF TypeInv, Idle
<1>2. Call(c) \in Requests /\ Call(c) \in Calls
  BY <1>1, RequestsAssumption DEF RequestOK, Call
<1>. QED
  BY <1>1, <1>2 DEF RequestOK, Call, Calls, Src, Dst

(* The table. *)

LEMMA EmptyIsPart ==
    ASSUME NEW tb
    PROVE  EmptyTable = Part(tb, {})
<1>1. Restrict(tb.byToken, {}) = << >>
  BY DEF Restrict
<1>2. Restrict(tb.byPath, {p \in DOMAIN tb.byPath : tb.byPath[p] \in {}}) = << >>
  BY DEF Restrict
<1>. QED
  BY <1>1, <1>2 DEF Part, EmptyTable

LEMMA SweepKeeps ==
    ASSUME NEW tb, Sound(tb), NEW time
    PROVE  /\ Sound(Sweep(tb, time))
           /\ DOMAIN Sweep(tb, time).byToken = {t \in DOMAIN tb.byToken : ~(time > tb.byToken[t].expiry)}
           /\ \A t \in DOMAIN Sweep(tb, time).byToken : Sweep(tb, time).byToken[t] = tb.byToken[t]
<1> DEFINE live  == DOMAIN tb.byToken \ Expired(tb, time)
           swept == Sweep(tb, time)
<1>1. swept = Part(tb, live) /\ live \in SUBSET DOMAIN tb.byToken
  BY SweepIsPart
<1>2. /\ Sound(swept) /\ DOMAIN swept.byToken = live
      /\ \A t \in DOMAIN swept.byToken : swept.byToken[t] = tb.byToken[t]
  BY <1>1, PartSound
<1>. QED
  BY <1>2 DEF Expired

\* What a step may do to the table: keep a part of it, extend a lock in force,
\* or add one under a token that is new.
Extends(t, expiry) ==
    /\ t \in DOMAIN Swept.byToken /\ expiry \in Int
    /\ table' = Extend(Swept, t, expiry)
    /\ issued' = issued

Grants(t, p, depth, expiry) ==
    /\ t \in Token \ issued /\ p \in Resource /\ depth \in Depths /\ expiry \in Int
    /\ Conflict(Swept, p, depth) = {}
    /\ table' = Insert(Swept, t, [path |-> p, depth |-> depth, expiry |-> expiry])
    /\ issued' = issued \cup {t}

Shrinks ==
    /\ \E S \in SUBSET DOMAIN table.byToken : table' = Part(table, S)
    /\ issued' = issued

TableStep ==
    \/ Shrinks
    \/ \E t, expiry : Extends(t, expiry)
    \/ \E t, p, depth, expiry : Grants(t, p, depth, expiry)

\* A part of a part.
LEMMA PartOfPart ==
    ASSUME NEW tb, Sound(tb), NEW S \in SUBSET DOMAIN tb.byToken, NEW T \in SUBSET S
    PROVE  Part(Part(tb, S), T) = Part(tb, T)
<1> DEFINE one == Part(tb, S)
<1>1. /\ DOMAIN one.byToken = S
      /\ \A t \in S : one.byToken[t] = tb.byToken[t]
      /\ \A p \in DOMAIN tb.byPath : p \in DOMAIN one.byPath <=> tb.byPath[p] \in S
      /\ \A p \in DOMAIN one.byPath : p \in DOMAIN tb.byPath /\ one.byPath[p] = tb.byPath[p]
  BY PartSound
<1>. HIDE DEF one
<1>2. {p \in DOMAIN one.byPath : one.byPath[p] \in T}
        = {p \in DOMAIN tb.byPath : tb.byPath[p] \in T}
  BY <1>1
<1>3. Restrict(one.byToken, T) = Restrict(tb.byToken, T)
  BY <1>1 DEF Restrict
<1>4. Restrict(one.byPath, {p \in DOMAIN one.byPath : one.byPath[p] \in T})
        = Restrict(tb.byPath, {p \in DOMAIN tb.byPath : tb.byPath[p] \in T})
  BY <1>1, <1>2 DEF Restrict
<1>5. Part(one, T) = Part(tb, T)
  BY <1>3, <1>4 DEF Part
<1>. QED
  BY <1>5 DEF one

LEMMA WholeIsPart ==
    ASSUME NEW tb, Sound(tb)
    PROVE  tb = Part(tb, DOMAIN tb.byToken)
<1>1. Restrict(tb.byToken, DOMAIN tb.byToken) = tb.byToken
  BY DEF Restrict, Sound, TypedTable
<1>2. {p \in DOMAIN tb.byPath : tb.byPath[p] \in DOMAIN tb.byToken} = DOMAIN tb.byPath
  BY DEF Sound, Agree
<1>3. Restrict(tb.byPath, DOMAIN tb.byPath) = tb.byPath
  BY DEF Restrict, Sound, TypedTable
<1>. QED
  BY <1>1, <1>2, <1>3 DEF Part, Sound, TypedTable

LEMMA SweepShrinks ==
    ASSUME Sound(table), issued' = issued, table' = Swept
    PROVE  Shrinks
<1>1. DOMAIN table.byToken \ Expired(table, now) \in SUBSET DOMAIN table.byToken
  OBVIOUS
<1>. QED
  BY <1>1, SweepIsPart DEF Swept, Shrinks

LEMMA UnlockShrinks ==
    ASSUME Sound(table), issued' = issued, NEW p, NEW t,
           Refreshable(Swept, p, {t}) # {}, table' = Unlock(Swept, p, t)
    PROVE  Shrinks
<1> DEFINE live == DOMAIN table.byToken \ Expired(table, now)
<1>1. Swept = Part(table, live) /\ live \in SUBSET DOMAIN table.byToken
  BY SweepIsPart DEF Swept
<1>2. Sound(Swept) /\ DOMAIN Swept.byToken = live
  BY <1>1, PartSound
<1>. HIDE DEF live
<1>3. Unlock(Swept, p, t) = Part(Swept, live \ {t})
  BY <1>2, UnlockIsPart
<1>4. Part(Swept, live \ {t}) = Part(table, live \ {t})
  BY <1>1, PartOfPart
<1>5. live \ {t} \in SUBSET DOMAIN table.byToken
  BY <1>1
<1>. QED
  BY <1>3, <1>4, <1>5 DEF Shrinks

\* The step a step of the server is for the table.
LEMMA NextTable ==
    ASSUME TypeInv, [Next]_vars
    PROVE  TableStep
<1>1. ASSUME table' = table, issued' = issued PROVE Shrinks
  BY <1>1, WholeIsPart DEF Shrinks, TypeInv
<1>. USE DEF TableStep
<1>2. CASE UNCHANGED vars
  BY <1>1, <1>2 DEF vars
<1>3. CASE Tick
  BY <1>1, <1>3 DEF Tick
<1>4. CASE Crash
  BY <1>4, EmptyIsPart DEF Crash, Shrinks
<1>5. ASSUME NEW c \in Client, NEW call \in Requests, Receive(c, call) \/ RefuseRoot(c, call)
      PROVE  TableStep
  BY <1>1, <1>5 DEF Receive, RefuseRoot
<1>6. ASSUME NEW c \in Client, Await(c)
      PROVE  TableStep
  BY <1>1, <1>6 DEF Await, BodyArrives, BodyFails, MkcolBody, MkcolNoBody
<1>7. ASSUME NEW c \in Client, Serve(c)
      PROVE  TableStep
  <2>1. CASE Deliver(c)
    BY <1>1, <2>1 DEF Deliver
  <2>2. CASE CheckPasses(c) \/ CheckRefused(c)
    BY <2>2, SweepShrinks DEF CheckPasses, CheckRefused, TypeInv
  <2>3. CASE PutStat(c) \/ PutWrite(c) \/ MkcolRefused(c) \/ Mkcol(c)
    BY <1>1, <2>3 DEF PutStat, PutWrite, MkcolRefused, Mkcol
  <2>4. CASE DeleteRefused(c) \/ DeleteAll(c) \/ DeletePartly(c)
    BY <1>1, <2>4 DEF DeleteRefused, DeleteAll, DeletePartly
  <2>5. CASE ReleaseSource(c) \/ ReleaseDestination(c)
    BY <2>5, ReleaseIsPart DEF ReleaseSource, ReleaseDestination, Shrinks, TypeInv
  <2>6. CASE PrepareRefused(c) \/ PrepareFresh(c) \/ PrepareOverwrite(c) \/ PreparePartly(c)
    BY <1>1, <2>6 DEF PrepareRefused, PrepareFresh, PrepareOverwrite, PreparePartly
  <2>7. CASE Rename(c) \/ RenameFails(c) \/ Copy(c) \/ CopyPartly(c) \/ CopyOfNothing(c)
    BY <1>1, <2>7 DEF Rename, RenameFails, Copy, CopyPartly, CopyOfNothing
  <2>8. CASE LockStat(c)
    BY <1>1, <2>8 DEF LockStat
  <2>9. CASE LockRefused(c) \/ LockNoToken(c)
    BY <2>9, SweepShrinks DEF LockRefused, LockNoToken, TypeInv
  <2>10. CASE LockGranted(c)
    <3>1. Src(c) \in Resource /\ Call(c).depth \in Depths
      BY <2>10, InFlightIs DEF LockGranted, At
    <3>2. PICK t \in Token \ issued, timeout \in Timeouts :
             /\ table' = Insert(Swept, t, [path |-> Src(c), depth |-> Call(c).depth,
                                           expiry |-> now + timeout])
             /\ issued' = issued \cup {t}
      BY <2>10 DEF LockGranted
    <3>3. now + timeout \in Int
      BY ClockAssumption DEF TypeInv
    <3>4. Grants(t, Src(c), Call(c).depth, now + timeout)
      BY <2>10, <3>1, <3>2, <3>3 DEF Grants, LockGranted
    <3>. QED
      BY <3>4
  <2>11. CASE RefreshLock(c)
    <3>1. CASE table' = Swept
      BY <2>11, <3>1, SweepShrinks DEF RefreshLock, TypeInv
    <3>2. CASE \E t \in Refreshable(Swept, Src(c), req[c].tokens), timeout \in Timeouts :
                  table' = Extend(Swept, t, now + timeout)
      <4>1. PICK t \in Refreshable(Swept, Src(c), req[c].tokens), timeout \in Timeouts :
                  table' = Extend(Swept, t, now + timeout)
        BY <3>2
      <4>2. now + timeout \in Int
        BY ClockAssumption DEF TypeInv
      <4>3. Extends(t, now + timeout)
        BY <2>11, <4>1, <4>2 DEF Extends, RefreshLock, Refreshable
      <4>. QED
        BY <4>3
    <3>. QED
      BY <2>11, <3>1, <3>2 DEF RefreshLock
  <2>12. CASE UnlockLock(c)
    <3>1. CASE table' = table
      BY <1>1, <2>12, <3>1 DEF UnlockLock
    <3>2. CASE table' = Swept
      BY <2>12, <3>2, SweepShrinks DEF UnlockLock, TypeInv
    <3>3. ASSUME NEW t, Refreshable(Swept, Src(c), {t}) # {}, table' = Unlock(Swept, Src(c), t)
          PROVE  Shrinks
      BY <2>12, <3>3, UnlockShrinks DEF UnlockLock, TypeInv
    <3>. QED
      BY <2>12, <3>1, <3>2, <3>3 DEF UnlockLock
  <2>. QED
    BY <1>7, <2>1, <2>2, <2>3, <2>4, <2>5, <2>6, <2>7, <2>8, <2>9, <2>10, <2>11, <2>12 DEF Serve
<1>. QED
  BY <1>2, <1>3, <1>4, <1>5, <1>6, <1>7 DEF Next

-----------------------------------------------------------------------------
(* What a step of the table keeps. *)

\* The lock of t is the one it was, whatever became of its expiry.
SameLock(t) ==
    /\ table'.byToken[t].path = table.byToken[t].path
    /\ table'.byToken[t].depth = table.byToken[t].depth

LEMMA TableStepKeeps ==
    ASSUME TypeInv, TableStep, now' \in Nat, now' >= now
    PROVE  /\ Sound(table')
           /\ DOMAIN table'.byToken \subseteq issued'
           /\ issued \subseteq issued' /\ issued' \subseteq Token
           /\ \A t \in DOMAIN Swept'.byToken :
                 t \in issued => t \in DOMAIN Swept.byToken /\ SameLock(t)
<1> DEFINE swept == Swept
<1>1. /\ Sound(swept)
      /\ DOMAIN swept.byToken = {t \in DOMAIN table.byToken : ~(now > table.byToken[t].expiry)}
      /\ \A t \in DOMAIN swept.byToken : swept.byToken[t] = table.byToken[t]
  BY SweepKeeps DEF Swept, TypeInv
<1>2. /\ Sound(table) /\ DOMAIN table.byToken \subseteq issued /\ issued \subseteq Token
      /\ now \in Nat
      /\ \A t \in DOMAIN table.byToken : table.byToken[t].expiry \in Int
  BY ClockAssumption DEF TypeInv, Sound, TypedTable, LockInfo
<1>. HIDE DEF swept
<1>3. ASSUME Sound(table')
      PROVE  DOMAIN Swept'.byToken
               = {t \in DOMAIN table'.byToken : ~(now' > table'.byToken[t].expiry)}
  BY <1>3, SweepKeeps DEF Swept
<1>4. CASE Shrinks
  <2>1. PICK S \in SUBSET DOMAIN table.byToken : table' = Part(table, S)
    BY <1>4 DEF Shrinks
  <2>2. /\ Sound(table') /\ DOMAIN table'.byToken = S
        /\ \A t \in S : table'.byToken[t] = table.byToken[t]
    BY <1>2, <2>1, PartSound
  <2>3. \A t \in DOMAIN Swept'.byToken : t \in DOMAIN swept.byToken /\ SameLock(t)
    BY <1>1, <1>2, <1>3, <2>2 DEF SameLock
  <2>. QED
    BY <1>2, <1>4, <2>2, <2>3 DEF Shrinks, swept
<1>5. ASSUME NEW t, NEW expiry, Extends(t, expiry)
      PROVE  /\ Sound(table') /\ DOMAIN table'.byToken = DOMAIN swept.byToken
             /\ issued' = issued
             /\ \A u \in DOMAIN swept.byToken : SameLock(u)
  <2>1. /\ t \in DOMAIN swept.byToken /\ expiry \in Int
        /\ table' = Extend(swept, t, expiry) /\ issued' = issued
    BY <1>5 DEF Extends, swept
  <2>2. /\ Sound(table') /\ DOMAIN table'.byToken = DOMAIN swept.byToken
    BY <1>1, <2>1, ExtendSound
  <2>3. /\ swept.byToken \in [DOMAIN swept.byToken -> LockInfo]
        /\ swept = [byToken |-> swept.byToken, byPath |-> swept.byPath]
    BY <1>1 DEF Sound, TypedTable
  <2>4. table'.byToken = [swept.byToken EXCEPT ![t].expiry = expiry]
    BY <2>1, <2>3 DEF Extend
  <2>5. \A u \in DOMAIN swept.byToken : /\ table'.byToken[u].path = swept.byToken[u].path
                                        /\ table'.byToken[u].depth = swept.byToken[u].depth
    BY <2>1, <2>3, <2>4 DEF LockInfo
  <2>. QED
    BY <1>1, <2>1, <2>2, <2>5 DEF SameLock
<1>6. ASSUME NEW t, NEW p, NEW depth, NEW expiry, Grants(t, p, depth, expiry)
      PROVE  /\ Sound(table') /\ DOMAIN table'.byToken = DOMAIN swept.byToken \cup {t}
             /\ issued' = issued \cup {t} /\ t \in Token \ issued
             /\ \A u \in DOMAIN swept.byToken : SameLock(u)
  <2> DEFINE lock == [path |-> p, depth |-> depth, expiry |-> expiry]
  <2>1. /\ t \in Token \ issued /\ p \in Resource /\ depth \in Depths /\ expiry \in Int
        /\ Conflict(swept, p, depth) = {}
        /\ table' = Insert(swept, t, lock)
        /\ issued' = issued \cup {t}
    BY <1>6 DEF Grants, swept
  <2>2. t \in Token \ DOMAIN swept.byToken
    BY <1>1, <1>2, <2>1
  <2>3. /\ Sound(table') /\ DOMAIN table'.byToken = DOMAIN swept.byToken \cup {t}
    BY <1>1, <2>1, <2>2, InsertSound
  <2>4. \A u \in DOMAIN swept.byToken : table'.byToken[u] = swept.byToken[u]
    BY <2>1, <2>2 DEF Insert, Put
  <2>. QED
    BY <1>1, <2>1, <2>3, <2>4 DEF SameLock
<1>7. CASE \E t, expiry : Extends(t, expiry)
  <2>1. /\ Sound(table') /\ DOMAIN table'.byToken = DOMAIN swept.byToken
        /\ issued' = issued
        /\ \A u \in DOMAIN swept.byToken : SameLock(u)
    BY <1>5, <1>7
  <2>2. DOMAIN Swept'.byToken \subseteq DOMAIN table'.byToken
    BY <1>3, <2>1
  <2>. QED
    BY <1>1, <1>2, <2>1, <2>2 DEF swept
<1>8. CASE \E t, p, depth, expiry : Grants(t, p, depth, expiry)
  <2>1. PICK t : /\ Sound(table') /\ DOMAIN table'.byToken = DOMAIN swept.byToken \cup {t}
                 /\ issued' = issued \cup {t} /\ t \in Token \ issued
                 /\ \A u \in DOMAIN swept.byToken : SameLock(u)
    BY <1>6, <1>8
  <2>2. DOMAIN Swept'.byToken \subseteq DOMAIN table'.byToken
    BY <1>3, <2>1
  <2>. QED
    BY <1>1, <1>2, <2>1, <2>2 DEF swept
<1>. QED
  BY <1>4, <1>7, <1>8 DEF TableStep

-----------------------------------------------------------------------------
(* The requests. *)

\* Only the request of c changes.
Moves(c) ==
    /\ req' = [d \in Client |-> req'[d]]
    /\ \A d \in Client \ {c} : req'[d] = req[d]

LEMMA UpdateIs ==
    ASSUME TypeInv, NEW c \in Client, NEW r, req' = [req EXCEPT ![c] = r]
    PROVE  Moves(c) /\ req'[c] = r
<1>1. DOMAIN req = Client
  BY DEF TypeInv
<1>. QED
  BY <1>1 DEF Moves

LEMMA DoneIs ==
    ASSUME NEW r, Flight(r), NEW status
    PROVE  /\ Flight(Done(r, status))
           /\ Done(r, status).pc = "answered" /\ Done(r, status).call = r.call
           /\ Done(r, status).tokens = {} /\ Done(r, status).since = {}
           /\ Done(r, status).touched = r.touched /\ Done(r, status).status = status
           /\ Done(r, status).granted = r.granted /\ Done(r, status).rows = r.rows
  BY DEF Done, Flight

\* What a step leaves of the request it serves.
Carries(c) ==
    /\ Flight(req'[c])
    /\ req'[c].call = req[c].call /\ req'[c].granted = req[c].granted
    /\ req'[c].tokens = req[c].tokens /\ req'[c].since = req[c].since

Answers(c, status, touched) ==
    /\ Flight(req'[c])
    /\ req'[c].pc = "answered" /\ req'[c].status = status /\ req'[c].touched = touched
    /\ req'[c].call = req[c].call
    /\ req'[c].tokens = {} /\ req'[c].since = {}

LEMMA GotoIs ==
    ASSUME TypeInv, NEW c \in Client, Flight(req[c]), NEW pc, Goto(c, pc)
    PROVE  /\ Moves(c) /\ Carries(c)
           /\ req'[c].pc = pc /\ req'[c].touched = req[c].touched
           /\ req'[c].existed = req[c].existed
<1> DEFINE r == [pc |-> pc, call |-> req[c].call, tokens |-> req[c].tokens,
                 since |-> req[c].since, existed |-> req[c].existed,
                 srcDir |-> req[c].srcDir, touched |-> req[c].touched,
                 status |-> req[c].status, granted |-> req[c].granted,
                 rows |-> req[c].rows]
<1>1. [req[c] EXCEPT !.pc = pc] = r
  BY DEF Flight
<1>2. req' = [req EXCEPT ![c] = [req[c] EXCEPT !.pc = pc]]
  BY DEF Goto
<1>3. Moves(c) /\ req'[c] = r
  BY <1>1, <1>2, UpdateIs
<1>. QED
  BY <1>3 DEF Carries, Flight

LEMMA RespondIs ==
    ASSUME TypeInv, NEW c \in Client, Flight(req[c]), NEW status, Respond(c, status)
    PROVE  /\ Moves(c) /\ Answers(c, status, req[c].touched)
           /\ req'[c].granted = req[c].granted
<1>1. Moves(c) /\ req'[c] = Done(req[c], status)
  BY UpdateIs DEF Respond
<1>. QED
  BY <1>1, DoneIs DEF Answers

LEMMA LookedIs ==
    ASSUME NEW r, Flight(r), NEW pc, NEW existed
    PROVE  Looked(r, pc, existed) =
             [pc |-> pc, call |-> r.call, tokens |-> r.tokens, since |-> r.since,
              existed |-> existed, srcDir |-> r.srcDir, touched |-> r.touched,
              status |-> r.status, granted |-> r.granted, rows |-> r.rows]
<1> DEFINE one == [r EXCEPT !.pc = pc]
<1>1. one = [pc |-> pc, call |-> r.call, tokens |-> r.tokens, since |-> r.since,
             existed |-> r.existed, srcDir |-> r.srcDir, touched |-> r.touched,
             status |-> r.status, granted |-> r.granted, rows |-> r.rows]
  BY DEF Flight
<1>2. Looked(r, pc, existed) = [one EXCEPT !.existed = existed]
  BY DEF Looked
<1>. HIDE DEF one
<1>. QED
  BY <1>1, <1>2

LEMMA TouchedIs ==
    ASSUME NEW r, Flight(r), NEW pc, NEW existed
    PROVE  Touched(r, pc, existed) =
             [pc |-> pc, call |-> r.call, tokens |-> r.tokens, since |-> r.since,
              existed |-> existed, srcDir |-> r.srcDir, touched |-> TRUE,
              status |-> r.status, granted |-> r.granted, rows |-> r.rows]
<1> DEFINE one == Looked(r, pc, existed)
<1>1. one = [pc |-> pc, call |-> r.call, tokens |-> r.tokens, since |-> r.since,
             existed |-> existed, srcDir |-> r.srcDir, touched |-> r.touched,
             status |-> r.status, granted |-> r.granted, rows |-> r.rows]
  BY LookedIs
<1>2. Touched(r, pc, existed) = [one EXCEPT !.touched = TRUE]
  BY DEF Touched
<1>. HIDE DEF one
<1>. QED
  BY <1>1, <1>2

LEMMA ActedIs ==
    ASSUME TypeInv, NEW c \in Client, Flight(req[c]), NEW pc, NEW existed,
           Acted(c, pc, existed)
    PROVE  /\ Moves(c) /\ Carries(c)
           /\ req'[c].pc = pc /\ req'[c].touched = TRUE /\ req'[c].existed = existed
<1>1. Moves(c) /\ req'[c] = Touched(req[c], pc, existed)
  BY UpdateIs DEF Acted
<1>. QED
  BY <1>1, TouchedIs DEF Carries, Flight

LEMMA ActedAndRespondIs ==
    ASSUME TypeInv, NEW c \in Client, Flight(req[c]), NEW status,
           ActedAndRespond(c, status)
    PROVE  /\ Moves(c) /\ Answers(c, status, TRUE)
           /\ req'[c].granted = req[c].granted
<1>1. Moves(c) /\ req'[c] = [Done(req[c], status) EXCEPT !.touched = TRUE]
  BY UpdateIs DEF ActedAndRespond
<1>. QED
  BY <1>1 DEF Answers, Done, Flight

LEMMA MultistatusIs ==
    ASSUME TypeInv, NEW c \in Client, Flight(req[c]), NEW rows, Multistatus(c, rows)
    PROVE  /\ Moves(c) /\ Answers(c, 207, TRUE)
           /\ req'[c].granted = req[c].granted /\ req'[c].rows = rows
<1>. DEFINE d == Done(req[c], 207)
<1>1. Moves(c) /\ req'[c] = [d EXCEPT !.touched = TRUE, !.rows = rows]
  BY UpdateIs DEF Multistatus
<1>2. /\ Flight(d) /\ d.pc = "answered" /\ d.call = req[c].call
      /\ d.tokens = {} /\ d.since = {} /\ d.status = 207 /\ d.granted = req[c].granted
  BY DoneIs
<1>. HIDE DEF d
<1>3. req'[c] = [pc |-> d.pc, call |-> d.call, tokens |-> d.tokens, since |-> d.since,
                 existed |-> d.existed, srcDir |-> d.srcDir, touched |-> TRUE,
                 status |-> d.status, granted |-> d.granted, rows |-> rows]
  <2>1. /\ req'[c] = [d EXCEPT !.touched = TRUE, !.rows = rows]
        /\ d = [pc |-> d.pc, call |-> d.call, tokens |-> d.tokens, since |-> d.since,
                existed |-> d.existed, srcDir |-> d.srcDir, touched |-> d.touched,
                status |-> d.status, granted |-> d.granted, rows |-> d.rows]
    BY <1>1, <1>2 DEF Flight
  <2>. QED
    BY <2>1
<1>4. /\ Answers(c, 207, TRUE) /\ req'[c].granted = req[c].granted
      /\ req'[c].rows = rows
  BY <1>2, <1>3 DEF Answers, Flight
<1>. QED
  BY <1>1, <1>4

LEMMA LookedFromIs ==
    ASSUME TypeInv, NEW c \in Client, Flight(req[c]), NEW pc, NEW existed, NEW dir,
           \/ req' = [req EXCEPT ![c] = [Looked(@, pc, existed) EXCEPT !.srcDir = dir]]
           \/ req' = [req EXCEPT ![c] = Looked(@, pc, existed)]
    PROVE  /\ Moves(c) /\ Carries(c)
           /\ req'[c].pc = pc /\ req'[c].touched = req[c].touched
<1> DEFINE one == Looked(req[c], pc, existed)
<1>1. one = [pc |-> pc, call |-> req[c].call, tokens |-> req[c].tokens,
             since |-> req[c].since, existed |-> existed, srcDir |-> req[c].srcDir,
             touched |-> req[c].touched, status |-> req[c].status,
             granted |-> req[c].granted, rows |-> req[c].rows]
  BY LookedIs
<1>2. Moves(c) /\ (req'[c] = one \/ req'[c] = [one EXCEPT !.srcDir = dir])
  BY UpdateIs
<1>. HIDE DEF one
<1>. QED
  BY <1>1, <1>2 DEF Carries, Flight

LEMMA TouchedFromIs ==
    ASSUME TypeInv, NEW c \in Client, Flight(req[c]), NEW pc, NEW existed, NEW dir,
           req' = [req EXCEPT ![c] = [Touched(@, pc, existed) EXCEPT !.srcDir = dir]]
    PROVE  /\ Moves(c) /\ Carries(c)
           /\ req'[c].pc = pc /\ req'[c].touched = TRUE
<1> DEFINE one == Touched(req[c], pc, existed)
<1>1. one = [pc |-> pc, call |-> req[c].call, tokens |-> req[c].tokens,
             since |-> req[c].since, existed |-> existed, srcDir |-> req[c].srcDir,
             touched |-> TRUE, status |-> req[c].status,
             granted |-> req[c].granted, rows |-> req[c].rows]
  BY TouchedIs
<1>2. Moves(c) /\ req'[c] = [one EXCEPT !.srcDir = dir]
  BY UpdateIs
<1>. HIDE DEF one
<1>. QED
  BY <1>1, <1>2 DEF Carries, Flight

-----------------------------------------------------------------------------
(* A request goes on, or is answered. *)

LEMMA GoesOnOK ==
    ASSUME TypeInv, NEW c \in Client, req[c].pc \notin {"idle", "answered"},
           Carries(c), req'[c].pc # "answered", PCFits(req'[c].pc, Call(c).method),
           req'[c].pc \in Untouched => ~req'[c].touched
    PROVE  RequestOK(req'[c], issued)
<1>1. RequestOK(req[c], issued) /\ req[c] # Idle
  BY DEF TypeInv, Idle
<1>. QED
  BY <1>1 DEF RequestOK, Carries, Call

LEMMA AnswerOK ==
    ASSUME TypeInv, NEW c \in Client, req[c].pc # "idle",
           NEW status, NEW touched, Answers(c, status, touched),
           NEW minted, req'[c].granted \subseteq minted,
           touched /\ Call(c).method # "LOCK" => status \notin Refusals
    PROVE  RequestOK(req'[c], minted)
<1>1. RequestOK(req[c], issued) /\ req[c] # Idle
  BY DEF TypeInv, Idle
<1>2. PCFits("answered", Call(c).method)
  BY DEF PCFits, PCs
<1>3. "answered" \notin Untouched
  BY DEF Untouched
<1>. QED
  BY <1>1, <1>2, <1>3 DEF RequestOK, Answers, Call

LEMMA RequestOKGrows ==
    ASSUME NEW r, NEW minted, NEW more, minted \subseteq more, RequestOK(r, minted)
    PROVE  RequestOK(r, more)
  BY DEF RequestOK

-----------------------------------------------------------------------------
(* How a step moves the request it serves. *)

\* Where fsmu is kept from one step to the next.
Holding == {"release", "releaseDst", "transfer"}

FsmuStep(c) ==
    \/ req[c].pc \notin Holding /\ req'[c].pc \notin Holding /\ fsmu' = fsmu
    \/ req[c].pc \in Holding /\ req'[c].pc \in Holding /\ fsmu' = fsmu
    \/ req[c].pc \notin Holding /\ req'[c].pc \in Holding /\ fsmu = Nobody /\ fsmu' = c
    \/ req[c].pc \in Holding /\ req'[c].pc \notin Holding /\ fsmu = c /\ fsmu' = Nobody

Hops == {<<"stat", "body">>, <<"body", "write">>, <<"probe", "mkcol">>,
         <<"remove", "release">>, <<"prepare", "releaseDst">>, <<"prepare", "transfer">>,
         <<"releaseDst", "transfer">>, <<"transfer", "release">>,
         <<"lockStat", "lockCreate">>}

Arrives(c) ==
    /\ req[c].pc = "idle"
    /\ \E call \in Requests, tokens \in SUBSET known[c] :
          /\ ~(call.method \in {"PUT", "DELETE", "MOVE"} /\ call.path = Root)
          /\ req'[c] = InFlight(call, tokens, FirstStep(call.method))

Hop(c) ==
    \/ Carries(c) /\ <<req[c].pc, req'[c].pc>> \in Hops
    \/ Carries(c) /\ CheckPasses(c)
    \/ Arrives(c)
    \/ req'[c].pc \in {"idle", "answered"}

Served(c) == Moves(c) /\ RequestOK(req'[c], issued') /\ FsmuStep(c) /\ Hop(c)

LEMMA HopServed ==
    ASSUME TypeInv, NEW c \in Client, Moves(c), Carries(c), issued' = issued,
           <<req[c].pc, req'[c].pc>> \in Hops,
           req'[c].pc \in Untouched => req'[c].touched = req[c].touched,
           FsmuStep(c),
           req'[c].pc = "release" => Call(c).method \in {"DELETE", "MOVE"}
    PROVE  Served(c)
<1>1. req[c].pc \notin {"idle", "answered"} /\ req'[c].pc # "answered"
  BY DEF Hops
<1>2. PCFits(req[c].pc, Call(c).method)
  BY <1>1, InFlightIs
<1>3. PCFits(req'[c].pc, Call(c).method)
  BY <1>2 DEF PCFits, PCs, Hops
<1>4. req'[c].pc \in Untouched => req[c].pc \in Untouched
  BY DEF Hops, Untouched
<1>5. req[c].pc \in Untouched => ~req[c].touched
  <2>1. RequestOK(req[c], issued) /\ req[c] # Idle
    BY <1>1 DEF TypeInv, Idle
  <2>. QED
    BY <2>1 DEF RequestOK
<1>6. RequestOK(req'[c], issued)
  BY <1>1, <1>3, <1>4, <1>5, GoesOnOK
<1>. QED
  BY <1>6 DEF Served, Hop

LEMMA AnswerServed ==
    ASSUME TypeInv, NEW c \in Client, req[c].pc # "idle", Moves(c),
           NEW status, NEW touched, Answers(c, status, touched),
           issued \subseteq issued', req'[c].granted \subseteq issued',
           touched /\ Call(c).method # "LOCK" => status \notin Refusals,
           \/ req[c].pc \notin Holding /\ fsmu' = fsmu
           \/ req[c].pc \in Holding /\ fsmu = c /\ fsmu' = Nobody
    PROVE  Served(c)
<1>1. RequestOK(req'[c], issued')
  BY AnswerOK
<1>2. req'[c].pc = "answered" /\ "answered" \notin Holding
  BY DEF Answers, Holding
<1>. QED
  BY <1>1, <1>2 DEF Served, Hop, FsmuStep

\* An answer to a request that has touched nothing.
LEMMA RefusalServed ==
    ASSUME TypeInv, NEW c \in Client, req[c].pc \in Untouched \cup {"lockStat", "lockCreate"},
           NEW status, Respond(c, status), issued' = issued, fsmu' = fsmu
    PROVE  Served(c)
<1>1. req[c].pc # "idle" /\ req[c].pc \notin Holding
  BY DEF Untouched, Holding
<1>2. RequestOK(req[c], issued) /\ req[c] # Idle
  BY <1>1 DEF TypeInv, Idle
<1>3. Flight(req[c]) /\ req[c].granted \subseteq issued
  BY <1>1, InFlightIs
<1>4. /\ Moves(c) /\ Answers(c, status, req[c].touched)
      /\ req'[c].granted = req[c].granted
  BY <1>3, RespondIs
<1>5. req[c].touched => Call(c).method = "LOCK"
  BY <1>2 DEF RequestOK, PCFits, Call, Untouched
<1>6. Moves(c) /\ Answers(c, status, req[c].touched)
  BY <1>4
<1>7. issued \subseteq issued' /\ req'[c].granted \subseteq issued'
  BY <1>3, <1>4
<1>. QED
  BY <1>1, <1>5, <1>6, <1>7, AnswerServed

\* An answer to a request that has changed the tree.
LEMMA ActedServed ==
    ASSUME TypeInv, NEW c \in Client, req[c].pc # "idle", issued' = issued,
           \/ req[c].pc \notin Holding /\ fsmu' = fsmu
           \/ req[c].pc \in Holding /\ fsmu = c /\ fsmu' = Nobody,
           NEW status \in {201, 204}, ActedAndRespond(c, status)
    PROVE  Served(c)
<1>1. Flight(req[c]) /\ req[c].granted \subseteq issued
  BY InFlightIs
<1>2. /\ Moves(c) /\ Answers(c, status, TRUE)
      /\ req'[c].granted = req[c].granted
  BY <1>1, ActedAndRespondIs
<1>3. status \notin Refusals
  BY DEF Refusals
<1>4. Moves(c) /\ Answers(c, status, req'[c].touched)
  BY <1>2 DEF Answers
<1>5. issued \subseteq issued' /\ req'[c].granted \subseteq issued'
  BY <1>1, <1>2
<1>. QED
  BY <1>3, <1>4, <1>5, AnswerServed

LEMMA MultistatusServed ==
    ASSUME TypeInv, NEW c \in Client, req[c].pc # "idle", issued' = issued,
           \/ req[c].pc \notin Holding /\ fsmu' = fsmu
           \/ req[c].pc \in Holding /\ fsmu = c /\ fsmu' = Nobody,
           NEW rows, Multistatus(c, rows)
    PROVE  Served(c)
<1>1. Flight(req[c]) /\ req[c].granted \subseteq issued
  BY InFlightIs
<1>2. /\ Moves(c) /\ Answers(c, 207, TRUE)
      /\ req'[c].granted = req[c].granted
  BY <1>1, MultistatusIs
<1>3. 207 \notin Refusals
  BY DEF Refusals
<1>4. Moves(c) /\ Answers(c, 207, req'[c].touched)
  BY <1>2 DEF Answers
<1>5. issued \subseteq issued' /\ req'[c].granted \subseteq issued'
  BY <1>1, <1>2
<1>. QED
  BY <1>3, <1>4, <1>5, AnswerServed

\* The answer with which a request gives fsmu back.
LEMMA GivesServed ==
    ASSUME TypeInv, NEW c \in Client, req[c].pc \in Holding, issued' = issued,
           fsmu = c, fsmu' = Nobody,
           NEW status \in {201, 204, 404, 500}, Respond(c, status)
    PROVE  Served(c)
<1>1. Flight(req[c]) /\ req[c].granted \subseteq issued /\ req[c].pc # "idle"
  BY InFlightIs DEF Holding
<1>2. /\ Moves(c) /\ Answers(c, status, req[c].touched)
      /\ req'[c].granted = req[c].granted
  BY <1>1, RespondIs
<1>3. status \notin Refusals
  BY DEF Refusals
<1>4. Moves(c) /\ Answers(c, status, req[c].touched)
  BY <1>2
<1>5. issued \subseteq issued' /\ req'[c].granted \subseteq issued'
  BY <1>1, <1>2
<1>. QED
  BY <1>1, <1>3, <1>4, <1>5, AnswerServed

\* What the server does for a request.
LEMMA ServeServed ==
    ASSUME TypeInv, NEW c \in Client, Serve(c) \/ Await(c)
    PROVE  Served(c)
<1>1. CASE Deliver(c)
  <2>1. Moves(c) /\ req'[c] = Idle
    BY <1>1, UpdateIs DEF Deliver
  <2>2. req[c].pc \notin Holding /\ Idle.pc \notin Holding /\ fsmu' = fsmu
    BY <1>1 DEF Deliver, At, Holding, Idle
  <2>. QED
    BY <2>1, <2>2 DEF Served, RequestOK, Hop, FsmuStep, Idle
<1>2. CASE CheckPasses(c)
  <2>1. /\ req[c].pc \in {"check", "checkDst"} /\ Goto(c, AfterCheck(c))
        /\ fsmu' = fsmu /\ issued' = issued
    BY <1>2 DEF CheckPasses, At
  <2>2. Flight(req[c]) /\ PCFits(req[c].pc, Call(c).method)
    BY <2>1, InFlightIs
  <2>3. /\ Moves(c) /\ Carries(c) /\ req'[c].pc = AfterCheck(c)
        /\ req'[c].touched = req[c].touched
    BY <2>1, <2>2, GotoIs
  <2>4. /\ AfterCheck(c) \in {"stat", "probe", "remove", "checkDst", "prepare"}
        /\ PCFits(AfterCheck(c), Call(c).method)
    BY <2>1, <2>2 DEF AfterCheck, PCFits, PCs, At
  <2>5. RequestOK(req[c], issued) /\ req[c] # Idle
    BY <2>1 DEF TypeInv, Idle
  <2>6. ~req[c].touched
    BY <2>1, <2>5 DEF RequestOK, Untouched
  <2>7. RequestOK(req'[c], issued)
    BY <2>1, <2>3, <2>4, <2>6, GoesOnOK
  <2>8. req[c].pc \notin Holding /\ req'[c].pc \notin Holding
    BY <2>1, <2>3, <2>4 DEF Holding
  <2>. QED
    BY <1>2, <2>1, <2>3, <2>7, <2>8 DEF Served, Hop, FsmuStep
<1>3. CASE CheckRefused(c)
  BY <1>3, RefusalServed DEF CheckRefused, At, Untouched
<1>4. CASE PutStat(c)
  <2>1. CASE req' = [req EXCEPT ![c] = Looked(@, "body", Exists(Src(c)))]
    <3>1. req[c].pc = "stat" /\ Flight(req[c]) /\ PCFits(req[c].pc, Call(c).method)
      BY <1>4, <2>1, InFlightIs DEF PutStat, At
    <3>2. Moves(c) /\ Carries(c) /\ req'[c].pc = "body" /\ req'[c].touched = req[c].touched
      BY <1>4, <2>1, <3>1, LookedFromIs DEF PutStat
    <3>3. FsmuStep(c)
      BY <1>4, <2>1, <3>1, <3>2 DEF PutStat, FsmuStep, Holding, FsFree
    <3>. QED
      BY <1>4, <2>1, <3>1, <3>2, <3>3, HopServed DEF PutStat, Hops, PCFits, Untouched
  <2>2. CASE req' = [req EXCEPT ![c] = Looked(@, "body", FALSE)]
    <3>1. req[c].pc = "stat" /\ Flight(req[c]) /\ PCFits(req[c].pc, Call(c).method)
      BY <1>4, <2>2, InFlightIs DEF PutStat, At
    <3>2. Moves(c) /\ Carries(c) /\ req'[c].pc = "body" /\ req'[c].touched = req[c].touched
      BY <1>4, <2>2, <3>1, LookedFromIs DEF PutStat
    <3>3. FsmuStep(c)
      BY <1>4, <2>2, <3>1, <3>2 DEF PutStat, FsmuStep, Holding, FsFree
    <3>. QED
      BY <1>4, <2>2, <3>1, <3>2, <3>3, HopServed DEF PutStat, Hops, PCFits, Untouched
  <2>3. CASE Respond(c, 409) \/ Respond(c, 500)
    BY <1>4, <2>3, RefusalServed DEF PutStat, At, Untouched
  <2>. QED
    BY <1>4, <2>1, <2>2, <2>3 DEF PutStat
<1>5. CASE BodyArrives(c)
  <2>1. req[c].pc = "body" /\ Flight(req[c]) /\ PCFits(req[c].pc, Call(c).method)
    BY <1>5, InFlightIs DEF BodyArrives, At
  <2>2. Moves(c) /\ Carries(c) /\ req'[c].pc = "write" /\ req'[c].touched = req[c].touched
    BY <1>5, <2>1, GotoIs DEF BodyArrives
  <2>3. FsmuStep(c)
    BY <1>5, <2>1, <2>2 DEF BodyArrives, FsmuStep, Holding
  <2>. QED
    BY <1>5, <2>1, <2>2, <2>3, HopServed DEF BodyArrives, Hops, PCFits, Untouched
<1>6. CASE BodyFails(c)
  BY <1>6, RefusalServed DEF BodyFails, At, Untouched
<1>7. CASE PutWrite(c)
  <2>1. CASE ActedAndRespond(c, IF req[c].existed THEN 204 ELSE 201)
    BY <1>7, <2>1, ActedServed DEF PutWrite, At, Holding
  <2>2. CASE Respond(c, 500)
    BY <1>7, <2>2, RefusalServed DEF PutWrite, At, Untouched
  <2>. QED
    BY <1>7, <2>1, <2>2 DEF PutWrite
<1>8. CASE MkcolBody(c)
  BY <1>8, RefusalServed DEF MkcolBody, At, Untouched
<1>9. CASE MkcolNoBody(c)
  <2>1. req[c].pc = "probe" /\ Flight(req[c]) /\ PCFits(req[c].pc, Call(c).method)
    BY <1>9, InFlightIs DEF MkcolNoBody, At
  <2>2. Moves(c) /\ Carries(c) /\ req'[c].pc = "mkcol" /\ req'[c].touched = req[c].touched
    BY <1>9, <2>1, GotoIs DEF MkcolNoBody
  <2>3. FsmuStep(c)
    BY <1>9, <2>1, <2>2 DEF MkcolNoBody, FsmuStep, Holding
  <2>. QED
    BY <1>9, <2>1, <2>2, <2>3, HopServed DEF MkcolNoBody, Hops, PCFits, Untouched
<1>10. CASE MkcolRefused(c)
  BY <1>10, RefusalServed DEF MkcolRefused, At, Untouched
<1>11. CASE Mkcol(c)
  BY <1>11, ActedServed DEF Mkcol, At, Holding, Holds, Give
<1>12. CASE DeleteRefused(c)
  BY <1>12, RefusalServed DEF DeleteRefused, At, Untouched
<1>13. CASE DeleteAll(c)
  <2>1. req[c].pc = "remove" /\ Flight(req[c]) /\ PCFits(req[c].pc, Call(c).method)
    BY <1>13, InFlightIs DEF DeleteAll, At
  <2>2. Moves(c) /\ Carries(c) /\ req'[c].pc = "release"
    BY <1>13, <2>1, ActedIs DEF DeleteAll
  <2>3. FsmuStep(c)
    BY <1>13, <2>1, <2>2 DEF DeleteAll, FsmuStep, Holding, FsFree, Take
  <2>. QED
    BY <1>13, <2>1, <2>2, <2>3, HopServed DEF DeleteAll, Hops, PCFits, Untouched
<1>14. CASE DeletePartly(c)
  BY <1>14, MultistatusServed DEF DeletePartly, At, Holding, Holds, Give
<1>15. CASE ReleaseSource(c)
  BY <1>15, GivesServed DEF ReleaseSource, At, Holding, Holds, Give
<1>16. CASE PrepareRefused(c)
  BY <1>16, RefusalServed DEF PrepareRefused, At, Untouched
<1>17. CASE PrepareFresh(c)
  <2>1. req[c].pc = "prepare" /\ Flight(req[c]) /\ PCFits(req[c].pc, Call(c).method)
    BY <1>17, InFlightIs DEF PrepareFresh, At
  <2>2. Moves(c) /\ Carries(c) /\ req'[c].pc = "transfer"
    BY <1>17, <2>1, LookedFromIs DEF PrepareFresh
  <2>3. FsmuStep(c)
    BY <1>17, <2>1, <2>2 DEF PrepareFresh, FsmuStep, Holding, FsFree, Take
  <2>. QED
    BY <1>17, <2>1, <2>2, <2>3, HopServed DEF PrepareFresh, Hops, PCFits, Untouched
<1>18. CASE PrepareOverwrite(c)
  <2>1. req[c].pc = "prepare" /\ Flight(req[c]) /\ PCFits(req[c].pc, Call(c).method)
    BY <1>18, InFlightIs DEF PrepareOverwrite, At
  <2>2. Moves(c) /\ Carries(c) /\ req'[c].pc = "releaseDst"
    BY <1>18, <2>1, TouchedFromIs DEF PrepareOverwrite
  <2>3. FsmuStep(c)
    BY <1>18, <2>1, <2>2 DEF PrepareOverwrite, FsmuStep, Holding, FsFree, Take
  <2>. QED
    BY <1>18, <2>1, <2>2, <2>3, HopServed DEF PrepareOverwrite, Hops, PCFits, Untouched
<1>19. CASE PreparePartly(c)
  BY <1>19, MultistatusServed DEF PreparePartly, At, Holding, Holds, Give
<1>20. CASE ReleaseDestination(c)
  <2>1. req[c].pc = "releaseDst" /\ Flight(req[c]) /\ PCFits(req[c].pc, Call(c).method)
    BY <1>20, InFlightIs DEF ReleaseDestination, At
  <2>2. Moves(c) /\ Carries(c) /\ req'[c].pc = "transfer"
    BY <1>20, <2>1, GotoIs DEF ReleaseDestination
  <2>3. FsmuStep(c)
    BY <1>20, <2>1, <2>2 DEF ReleaseDestination, FsmuStep, Holding
  <2>. QED
    BY <1>20, <2>1, <2>2, <2>3, HopServed DEF ReleaseDestination, Hops, PCFits, Untouched
<1>21. CASE Rename(c)
  <2>1. req[c].pc = "transfer" /\ Flight(req[c]) /\ PCFits(req[c].pc, Call(c).method)
    BY <1>21, InFlightIs DEF Rename, At
  <2>2. Moves(c) /\ Carries(c) /\ req'[c].pc = "release"
    BY <1>21, <2>1, ActedIs DEF Rename
  <2>3. FsmuStep(c)
    BY <1>21, <2>1, <2>2 DEF Rename, FsmuStep, Holding
  <2>. QED
    BY <1>21, <2>1, <2>2, <2>3, HopServed DEF Rename, Hops, PCFits, Untouched
<1>22. CASE RenameFails(c)
  BY <1>22, GivesServed DEF RenameFails, At, Holding, Holds, Give
<1>23. CASE Copy(c)
  BY <1>23, ActedServed DEF Copy, At, Holding, Holds, Give
<1>24. CASE CopyPartly(c)
  BY <1>24, MultistatusServed DEF CopyPartly, At, Holding, Holds, Give
<1>25. CASE CopyOfNothing(c)
  <2>1. CASE ActedAndRespond(c, 204)
    BY <1>25, <2>1, ActedServed DEF CopyOfNothing, At, Holding, Holds, Give
  <2>2. CASE Multistatus(c, {Dst(c)})
    BY <1>25, <2>2, MultistatusServed DEF CopyOfNothing, At, Holding, Holds, Give
  <2>. QED
    BY <1>25, <2>1, <2>2 DEF CopyOfNothing
<1>26. CASE LockStat(c)
  <2>1. CASE req' = [req EXCEPT ![c] = Looked(@, "lockCreate", TRUE)]
    <3>1. req[c].pc = "lockStat" /\ Flight(req[c]) /\ PCFits(req[c].pc, Call(c).method)
      BY <1>26, <2>1, InFlightIs DEF LockStat, At
    <3>2. Moves(c) /\ Carries(c) /\ req'[c].pc = "lockCreate" /\ req'[c].touched = req[c].touched
      BY <1>26, <2>1, <3>1, LookedFromIs DEF LockStat
    <3>3. FsmuStep(c)
      BY <1>26, <2>1, <3>1, <3>2 DEF LockStat, FsmuStep, Holding
    <3>. QED
      BY <1>26, <2>1, <3>1, <3>2, <3>3, HopServed DEF LockStat, Hops, PCFits, Untouched
  <2>2. CASE Acted(c, "lockCreate", FALSE)
    <3>1. req[c].pc = "lockStat" /\ Flight(req[c]) /\ PCFits(req[c].pc, Call(c).method)
      BY <1>26, <2>2, InFlightIs DEF LockStat, At
    <3>2. Moves(c) /\ Carries(c) /\ req'[c].pc = "lockCreate"
      BY <1>26, <2>2, <3>1, ActedIs DEF LockStat
    <3>3. FsmuStep(c)
      BY <1>26, <2>2, <3>1, <3>2 DEF LockStat, FsmuStep, Holding
    <3>. QED
      BY <1>26, <2>2, <3>1, <3>2, <3>3, HopServed DEF LockStat, Hops, PCFits, Untouched
  <2>3. CASE Respond(c, 500)
    BY <1>26, <2>3, RefusalServed DEF LockStat, At
  <2>. QED
    BY <1>26, <2>1, <2>2, <2>3 DEF LockStat
<1>27. CASE LockRefused(c)
  BY <1>27, RefusalServed DEF LockRefused, At
<1>28. CASE LockNoToken(c)
  BY <1>28, RefusalServed DEF LockNoToken, At
<1>29. CASE LockGranted(c)
  <2> DEFINE status == IF req[c].existed THEN 200 ELSE 201
  <2>1. req[c].pc = "lockCreate" /\ Flight(req[c]) /\ PCFits(req[c].pc, Call(c).method)
    BY <1>29, InFlightIs DEF LockGranted, At
  <2>2. PICK t \in Token \ issued :
           /\ issued' = issued \cup {t}
           /\ req' = [req EXCEPT ![c] = [Done(@, status) EXCEPT !.granted = {t}]]
    BY <1>29 DEF LockGranted
  <2>. HIDE DEF status
  <2>3. Moves(c) /\ req'[c] = [Done(req[c], status) EXCEPT !.granted = {t}]
    BY <2>2, UpdateIs
  <2>4. Answers(c, status, req[c].touched) /\ req'[c].granted = {t}
    BY <2>1, <2>3 DEF Answers, Done, Flight
  <2>. QED
    BY <1>29, <2>1, <2>2, <2>3, <2>4, AnswerServed DEF LockGranted, Holding, PCFits
<1>30. CASE RefreshLock(c)
  BY <1>30, RefusalServed DEF RefreshLock, At, Untouched
<1>31. CASE UnlockLock(c)
  BY <1>31, RefusalServed DEF UnlockLock, At, Untouched
<1>. QED
  BY <1>1, <1>2, <1>3, <1>4, <1>5, <1>6, <1>7, <1>8, <1>9, <1>10, <1>11, <1>12, <1>13, <1>14, <1>15, <1>16, <1>17, <1>18, <1>19, <1>20, <1>21, <1>22, <1>23, <1>24, <1>25, <1>26, <1>27, <1>28, <1>29, <1>30, <1>31 DEF Serve, Await

LEMMA ArrivalServed ==
    ASSUME TypeInv, NEW c \in Client, NEW call \in Requests,
           Receive(c, call) \/ RefuseRoot(c, call)
    PROVE  Served(c)
<1>1. issued' = issued /\ fsmu' = fsmu /\ req[c].pc = "idle" /\ known[c] \subseteq issued
  BY DEF Receive, RefuseRoot, At, TypeInv
<1>2. call \in Calls /\ call.method \in Methods
  BY RequestsAssumption DEF Calls
<1>3. CASE Receive(c, call)
  <2>1. PICK tokens \in SUBSET known[c] :
           req' = [req EXCEPT ![c] = InFlight(call, tokens, FirstStep(call.method))]
    BY <1>3 DEF Receive
  <2>2. Moves(c) /\ req'[c] = InFlight(call, tokens, FirstStep(call.method))
    BY <2>1, UpdateIs
  <2>3. ~(call.method \in {"PUT", "DELETE", "MOVE"} /\ call.path = Root)
    BY <1>3 DEF Receive
  <2>4. /\ PCFits(FirstStep(call.method), call.method)
        /\ FirstStep(call.method) \notin Holding \cup {"answered", "idle"}
    BY <1>2 DEF FirstStep, Methods, PCFits, PCs, Holding
  <2>5. RequestOK(req'[c], issued)
    BY <1>1, <2>2, <2>3, <2>4 DEF RequestOK, InFlight, Flight
  <2>6. req[c].pc \notin Holding /\ req'[c].pc \notin Holding
    BY <1>1, <2>2, <2>4 DEF Holding, InFlight
  <2>7. Arrives(c)
    BY <1>1, <2>2, <2>3 DEF Arrives
  <2>. QED
    BY <1>1, <2>2, <2>5, <2>6, <2>7 DEF Served, FsmuStep, Hop
<1>4. CASE RefuseRoot(c, call)
  <2>. DEFINE start  == InFlight(call, {}, "answered")
              status == IF call.method = "PUT" THEN 405 ELSE 403
  <2>1. req' = [req EXCEPT ![c] = Done(start, status)]
    BY <1>4 DEF RefuseRoot
  <2>. HIDE DEF start, status
  <2>2. Moves(c) /\ req'[c] = Done(start, status)
    BY <2>1, UpdateIs
  <2>3. Flight(start) /\ start.call = call /\ start.granted = {} /\ start.touched = FALSE
    BY DEF start, InFlight, Flight
  <2>4. /\ Flight(req'[c]) /\ req'[c].pc = "answered" /\ req'[c].call = call
        /\ req'[c].tokens = {} /\ req'[c].since = {} /\ req'[c].granted = {}
        /\ req'[c].touched = FALSE
    BY <2>2, <2>3, DoneIs
  <2>5. PCFits("answered", call.method) /\ "answered" \notin Holding \cup Untouched
    BY DEF PCFits, PCs, Holding, Untouched
  <2>6. RequestOK(req'[c], issued)
    BY <2>4, <2>5 DEF RequestOK
  <2>7. req[c].pc \notin Holding
    BY <1>1 DEF Holding
  <2>. QED
    BY <1>1, <2>2, <2>4, <2>5, <2>6, <2>7 DEF Served, FsmuStep, Hop
<1>. QED
  BY <1>3, <1>4

Restarts ==
    /\ req' = [c \in Client |-> Idle] /\ fsmu' = Nobody
    /\ table' = EmptyTable /\ tree' = tree

\* A step serves one request, or none, or ends them all.
LEMMA NextRequest ==
    ASSUME TypeInv, [Next]_vars
    PROVE  \/ \E c \in Client : Served(c)
           \/ req' = req /\ fsmu' = fsmu /\ tree' = tree /\ table' = table
           \/ Restarts
<1>1. CASE UNCHANGED vars
  BY <1>1 DEF vars
<1>2. CASE Tick
  BY <1>2 DEF Tick
<1>3. CASE Crash
  BY <1>3 DEF Crash, Restarts
<1>. QED
  BY <1>1, <1>2, <1>3, ArrivalServed, ServeServed DEF Next

\* The clock, and what clients know.
LEMMA NextOthers ==
    ASSUME TypeInv, [Next]_vars
    PROVE  /\ now' \in 0..MaxTime /\ now' \in Nat /\ now' >= now
           /\ \/ known' = known
              \/ \E c \in Client : known' = [known EXCEPT ![c] = @ \cup req[c].granted]
                                   /\ req[c].pc = "answered"
<1>0. now \in 0..MaxTime /\ MaxTime \in Nat
  BY ClockAssumption DEF TypeInv
<1>1. CASE UNCHANGED vars
  BY <1>0, <1>1 DEF vars
<1>2. CASE Tick
  BY <1>0, <1>2 DEF Tick
<1>3. CASE Crash
  BY <1>0, <1>3 DEF Crash
<1>4. ASSUME NEW c \in Client, NEW call \in Requests, Receive(c, call) \/ RefuseRoot(c, call)
      PROVE  now' = now /\ known' = known
  BY <1>4 DEF Receive, RefuseRoot
<1>5. ASSUME NEW c \in Client, Await(c) PROVE now' = now /\ known' = known
  BY <1>5 DEF Await, BodyArrives, BodyFails, MkcolBody, MkcolNoBody
<1>6. ASSUME NEW c \in Client, Serve(c)
      PROVE  /\ now' = now
             /\ \/ known' = known
                \/ known' = [known EXCEPT ![c] = @ \cup req[c].granted] /\ req[c].pc = "answered"
  BY <1>6 DEF Serve, Deliver, CheckPasses, CheckRefused, PutStat, PutWrite, MkcolRefused,
     Mkcol, DeleteRefused, DeleteAll, DeletePartly, ReleaseSource, PrepareRefused,
     PrepareFresh, PrepareOverwrite, PreparePartly, ReleaseDestination, Rename, RenameFails,
     Copy, CopyPartly, CopyOfNothing, LockStat, LockRefused, LockGranted, LockNoToken,
     RefreshLock, UnlockLock, At
<1>. QED
  BY <1>0, <1>1, <1>2, <1>3, <1>4, <1>5, <1>6 DEF Next

LEMMA TypeInvInit == Init => TypeInv
<1>. SUFFICES ASSUME Init PROVE TypeInv
  OBVIOUS
<1>1. Sound(EmptyTable) /\ DOMAIN EmptyTable.byToken = {}
  BY DEF Sound, EmptyTable, TypedTable, Agree, Excluding
<1>2. \A c \in Client : RequestOK(req[c], issued)
  BY DEF Init, RequestOK
<1>. QED
  BY <1>1, <1>2, ClockAssumption DEF Init, TypeInv

LEMMA TypeInvStep ==
    ASSUME TypeInv, [Next]_vars
    PROVE  TypeInv'
<1>1. /\ Sound(table')
      /\ DOMAIN table'.byToken \subseteq issued'
      /\ issued \subseteq issued' /\ issued' \subseteq Token
      /\ now' \in 0..MaxTime
  BY NextTable, NextOthers, TableStepKeeps
<1>2. known' \in [Client -> SUBSET issued']
  <2>1. known \in [Client -> SUBSET issued']
    BY <1>1 DEF TypeInv
  <2>2. ASSUME NEW c \in Client, known' = [known EXCEPT ![c] = @ \cup req[c].granted],
               req[c].pc = "answered"
        PROVE  known' \in [Client -> SUBSET issued']
    <3>1. req[c].granted \subseteq issued'
      BY <1>1, <2>2, InFlightIs
    <3>. QED
      BY <2>1, <2>2, <3>1
  <2>. QED
    BY <2>1, <2>2, NextOthers
<1>3. req' = [c \in Client |-> req'[c]] /\ \A c \in Client : RequestOK(req'[c], issued')
  <2>1. ASSUME NEW c \in Client, RequestOK(req[c], issued)
        PROVE  RequestOK(req[c], issued')
    BY <1>1, <2>1, RequestOKGrows
  <2>2. \A c \in Client : RequestOK(req[c], issued')
    BY <2>1 DEF TypeInv
  <2>3. CASE req' = req
    BY <2>2, <2>3 DEF TypeInv
  <2>4. CASE Restarts
    BY <2>4 DEF Restarts, RequestOK
  <2>5. ASSUME NEW c \in Client, Served(c)
        PROVE  req' = [d \in Client |-> req'[d]] /\ \A d \in Client : RequestOK(req'[d], issued')
    BY <2>2, <2>5 DEF Served, Moves
  <2>. QED
    BY <2>3, <2>4, <2>5, NextRequest
<1>. QED
  BY <1>1, <1>2, <1>3 DEF TypeInv

-----------------------------------------------------------------------------
(* Who holds fsmu. *)

MutexInv ==
    /\ fsmu \in Client \cup {Nobody}
    /\ \A c \in Client : req[c].pc \in Holding <=> fsmu = c

LEMMA MutexStep ==
    ASSUME TypeInv, MutexInv, [Next]_vars
    PROVE  MutexInv'
<1>1. CASE req' = req /\ fsmu' = fsmu
  BY <1>1 DEF MutexInv
<1>2. CASE Restarts
  BY <1>2, ClientAssumption DEF Restarts, MutexInv, Idle, Holding
<1>3. ASSUME NEW c \in Client, Served(c)
      PROVE  MutexInv'
  <2>1. \A d \in Client : d # c => req'[d] = req[d]
    BY <1>3 DEF Served, Moves
  <2>2. FsmuStep(c)
    BY <1>3 DEF Served
  <2>. QED
    BY <2>1, <2>2, ClientAssumption DEF FsmuStep, MutexInv
<1>. QED
  BY <1>1, <1>2, <1>3, NextRequest

-----------------------------------------------------------------------------
(* The tree, and what a request that holds fsmu has made of it. *)

\* The source is gone with all that was beneath it.
Gone(c) == \A p \in DOMAIN tree : ~Under(Src(c), p)

\* The destination is free, in a directory, and not beneath the source.
Free(c) ==
    /\ Dst(c) # Root /\ ~Exists(Dst(c)) /\ IsDir(ParentOf(Dst(c)))
    /\ ~Under(Src(c), Dst(c))

TreeInv ==
    /\ TreeShape(tree)
    /\ \A c \in Client : /\ At(c, "release") => Gone(c)
                         /\ At(c, "releaseDst") \/ At(c, "transfer") => Free(c)

LEMMA FreeIsReady ==
    ASSUME TypeInv, NEW c \in Client, At(c, "releaseDst") \/ At(c, "transfer"), Free(c)
    PROVE  Ready(Src(c), Dst(c))
<1>1. /\ Call(c) \in Requests /\ Src(c) \in Resource /\ Dst(c) \in Resource
      /\ Call(c).method \in {"MOVE", "COPY"}
  BY InFlightIs DEF At, PCFits
<1>2. \A q \in Resource : Under(Src(c), q) => Rebase(Src(c), Dst(c), q) \in Resource
  BY <1>1, RequestsAssumption DEF Src, Dst
<1>. QED
  BY <1>1, <1>2 DEF Ready, Free

LEMMA RefusalIsNone ==
    ASSUME NEW c, Refusal(c) = 0
    PROVE  /\ Exists(Src(c)) /\ Dst(c) # Root /\ IsDir(ParentOf(Dst(c)))
           /\ ~Under(Src(c), Dst(c))
  BY DEF Refusal, StrictlyUnder

\* A directory keeps its place when what is beneath it is removed.
LEMMA RemovedKeepsParent ==
    ASSUME TreeShape(tree), NEW p \in Resource, p # Root, IsDir(ParentOf(p))
    PROVE  /\ ParentOf(p) \in DOMAIN Removed(p, {}, {})
           /\ Removed(p, {}, {})[ParentOf(p)] = "dir"
           /\ p \notin DOMAIN Removed(p, {}, {})
<1>1. p \in Seq(Name) /\ ParentOf(p) \in Seq(Name) /\ StrictlyUnder(ParentOf(p), p)
  BY ParentIsLast, ResourcesAreSequences
<1>2. ~Under(p, ParentOf(p))
  BY <1>1, UnderAntisymmetric DEF StrictlyUnder
<1>3. Under(p, p)
  BY <1>1, UnderReflexive
<1>. QED
  BY <1>2, <1>3, RemovedIs DEF IsDir, Exists

\* What one request's step does to the tree.
ServesTree(c) ==
    /\ TreeShape(tree')
    /\ tree' # tree => fsmu \in {Nobody, c}
    /\ At(c, "release")' => Gone(c)'
    /\ At(c, "releaseDst")' \/ At(c, "transfer")' => Free(c)'

\* A step that does not keep fsmu leaves nothing to show but a tree.
LEMMA NotHolding ==
    ASSUME TypeInv, MutexInv, NEW c \in Client, Served(c),
           \/ req[c].pc \notin Holding /\ fsmu' = fsmu
           \/ fsmu = c /\ fsmu' = Nobody,
           TreeShape(tree'), tree' # tree => fsmu \in {Nobody, c}
    PROVE  ServesTree(c)
<1>1. req'[c].pc \notin Holding
  BY ClientAssumption DEF Served, FsmuStep, MutexInv
<1>. QED
  BY <1>1 DEF ServesTree, At, Holding

LEMMA ServeTree ==
    ASSUME TypeInv, MutexInv, TreeInv, NEW c \in Client, Serve(c) \/ Await(c)
    PROVE  ServesTree(c)
<1>. USE DEF TreeInv
<1>1. Served(c)
  BY ServeServed
<1>2. ASSUME req[c].pc # "idle"
      PROVE  /\ Src(c) \in Resource /\ Dst(c) \in Resource
             /\ PCFits(req[c].pc, Call(c).method)
             /\ req[c].pc = "remove" => Src(c) # Root
  <2>1. RequestOK(req[c], issued) /\ req[c] # Idle
    BY <1>2 DEF TypeInv, Idle
  <2>. QED
    BY <1>2, <2>1, InFlightIs DEF RequestOK, PCFits, Src, Call
<1>3. CASE Await(c)
  BY <1>1, <1>3, NotHolding
  DEF Await, BodyArrives, BodyFails, MkcolBody, MkcolNoBody, At, Holding
<1>4. CASE Deliver(c) \/ CheckPasses(c) \/ CheckRefused(c) \/ PutStat(c) \/ MkcolRefused(c)
           \/ DeleteRefused(c) \/ PrepareRefused(c)
  BY <1>1, <1>4, NotHolding
  DEF Deliver, CheckPasses, CheckRefused, PutStat, MkcolRefused, DeleteRefused,
      PrepareRefused, At, Holding
<1>5. CASE LockRefused(c) \/ LockGranted(c) \/ LockNoToken(c) \/ RefreshLock(c)
           \/ UnlockLock(c)
  BY <1>1, <1>5, NotHolding
  DEF LockRefused, LockGranted, LockNoToken, RefreshLock, UnlockLock, At, Holding
<1>6. CASE PutWrite(c)
  <2>1. TreeShape(tree')
    BY <1>2, <1>6, WriteShape DEF PutWrite, At
  <2>. QED
    BY <1>1, <1>6, <2>1, NotHolding DEF PutWrite, At, Holding, FsFree
<1>7. CASE Mkcol(c)
  <2>1. Src(c) # Root /\ ~IsDir(Src(c))
    BY <1>7 DEF Mkcol, TreeShape, Exists, IsDir
  <2>2. TreeShape(tree')
    BY <1>2, <1>7, <2>1, PutShape DEF Mkcol, At
  <2>. QED
    BY <1>1, <1>7, <2>2, NotHolding DEF Mkcol, At, Holding, FsFree
<1>8. CASE DeletePartly(c)
  <2>1. PICK stuck \in Stuck(Src(c)) \ {{}} : \E blind \in Blind(stuck) :
           tree' = Removed(Src(c), stuck, blind)
    BY <1>8 DEF DeletePartly
  <2>2. TreeShape(tree')
    BY <1>2, <1>8, <2>1, RemovedShape DEF DeletePartly, At, Stuck, Blind
  <2>. QED
    BY <1>1, <1>8, <2>2, NotHolding DEF DeletePartly, At, Holding, FsFree
<1>9. CASE PreparePartly(c)
  <2>1. PICK stuck \in Stuck(Dst(c)) \ {{}} : \E blind \in Blind(stuck) :
           tree' = Removed(Dst(c), stuck, blind)
    BY <1>9 DEF PreparePartly
  <2>2. Dst(c) # Root
    BY <1>9, RefusalIsNone DEF PreparePartly
  <2>3. TreeShape(tree')
    BY <1>2, <1>9, <2>1, <2>2, RemovedShape DEF PreparePartly, At, Stuck, Blind
  <2>. QED
    BY <1>1, <1>9, <2>3, NotHolding DEF PreparePartly, At, Holding, FsFree
<1>10. CASE LockStat(c)
  <2>1. TreeShape(tree')
    BY <1>2, <1>10, WriteShape DEF LockStat, At
  <2>. QED
    BY <1>1, <1>10, <2>1, NotHolding DEF LockStat, At, Holding, FsFree
<1>11. CASE DeleteAll(c)
  <2>1. tree' = Removed(Src(c), {}, {}) /\ fsmu = Nobody /\ req[c].pc = "remove"
    BY <1>11 DEF DeleteAll, FsFree, At
  <2>2. TreeShape(tree')
    BY <1>2, <2>1, RemovedShape
  <2>3. req'[c].pc = "release" /\ req'[c].call = req[c].call
    BY <1>11, <2>1, InFlightIs, ActedIs DEF DeleteAll, Carries
  <2>4. Gone(c)'
    BY <2>1, <2>3, RemovedIs DEF Gone, Src, Call
  <2>. QED
    BY <2>1, <2>2, <2>3, <2>4 DEF ServesTree, At
<1>12. CASE PrepareFresh(c)
  <2>1. tree' = tree /\ Refusal(c) = 0 /\ ~Exists(Dst(c)) /\ req[c].pc = "prepare"
    BY <1>12 DEF PrepareFresh, At
  <2>2. req'[c].pc = "transfer" /\ req'[c].call = req[c].call
    BY <1>12, <2>1, InFlightIs, LookedFromIs DEF PrepareFresh, Carries
  <2>3. Free(c)'
    BY <2>1, <2>2, RefusalIsNone DEF Free, Exists, IsDir, Src, Dst, Call
  <2>. QED
    BY <2>1, <2>2, <2>3 DEF ServesTree, At
<1>13. CASE PrepareOverwrite(c)
  <2>1. /\ tree' = Removed(Dst(c), {}, {}) /\ fsmu = Nobody /\ req[c].pc = "prepare"
        /\ Refusal(c) = 0
    BY <1>13 DEF PrepareOverwrite, FsFree, At
  <2>2. /\ Dst(c) # Root /\ IsDir(ParentOf(Dst(c))) /\ ~Under(Src(c), Dst(c))
        /\ Dst(c) \in Resource
    BY <1>2, <2>1, RefusalIsNone
  <2>3. TreeShape(tree')
    BY <2>1, <2>2, RemovedShape
  <2>4. req'[c].pc = "releaseDst" /\ req'[c].call = req[c].call
    BY <1>13, <2>1, InFlightIs, TouchedFromIs DEF PrepareOverwrite, Carries
  <2>5. Free(c)'
    BY <2>1, <2>2, <2>4, RemovedKeepsParent DEF Free, Exists, IsDir, Src, Dst, Call
  <2>. QED
    BY <2>1, <2>3, <2>4, <2>5 DEF ServesTree, At
<1>14. CASE ReleaseDestination(c)
  <2>1. tree' = tree /\ req[c].pc = "releaseDst"
    BY <1>14 DEF ReleaseDestination, At
  <2>2. req'[c].pc = "transfer" /\ req'[c].call = req[c].call
    BY <1>14, <2>1, InFlightIs, GotoIs DEF ReleaseDestination, Carries
  <2>3. Free(c)'
    BY <2>1, <2>2 DEF Free, Exists, IsDir, Src, Dst, Call, At
  <2>. QED
    BY <2>1, <2>2, <2>3 DEF ServesTree, At
<1>15. CASE Rename(c)
  <2>1. /\ tree' = Renamed(Src(c), Dst(c)) /\ fsmu = c /\ req[c].pc = "transfer"
        /\ Exists(Src(c))
    BY <1>15 DEF Rename, Holds, At
  <2>2. Ready(Src(c), Dst(c))
    BY <2>1, FreeIsReady DEF At
  <2>3. TreeShape(tree') /\ \A p \in DOMAIN tree' : ~Under(Src(c), p)
    BY <2>1, <2>2, RenamedShape
  <2>4. req'[c].pc = "release" /\ req'[c].call = req[c].call
    BY <1>15, <2>1, InFlightIs, ActedIs DEF Rename, Carries
  <2>5. Gone(c)'
    BY <2>3, <2>4 DEF Gone, Src, Call
  <2>. QED
    BY <2>1, <2>3, <2>4, <2>5 DEF ServesTree, At
<1>16. CASE ReleaseSource(c) \/ RenameFails(c)
  BY <1>1, <1>16, NotHolding DEF ReleaseSource, RenameFails, Holds, Give
<1>17. CASE Copy(c)
  <2>1. /\ tree' = WithCopies(Src(c), Dst(c), Copied(Src(c), Call(c).depth, {}) \cup {})
        /\ fsmu = c /\ fsmu' = Nobody /\ req[c].pc = "transfer"
    BY <1>17 DEF Copy, Holds, Give, At
  <2>2. Ready(Src(c), Dst(c)) /\ Call(c).depth \in Depths
    BY <2>1, FreeIsReady, InFlightIs DEF At
  <2>3. TreeShape(tree')
    BY <2>1, <2>2, CopyShape
  <2>. QED
    BY <1>1, <2>1, <2>3, NotHolding
<1>18. CASE CopyPartly(c)
  <2>1. fsmu = c /\ fsmu' = Nobody /\ req[c].pc = "transfer"
    BY <1>18 DEF CopyPartly, Holds, Give, At
  <2>2. PICK stuck \in CopyStuck(c) :
           \E left \in SUBSET Uncopied(Src(c), Call(c).depth, stuck) :
              tree' = WithCopies(Src(c), Dst(c),
                                 Copied(Src(c), Call(c).depth, stuck) \cup left)
    BY <1>18 DEF CopyPartly
  <2>3. Ready(Src(c), Dst(c)) /\ Call(c).depth \in Depths
    BY <2>1, FreeIsReady, InFlightIs DEF At
  <2>4. stuck \in SUBSET Members(Src(c))
    BY <2>2 DEF CopyStuck, ToCopy
  <2>5. TreeShape(tree')
    <3>1. PICK left \in SUBSET Uncopied(Src(c), Call(c).depth, stuck) :
             tree' = WithCopies(Src(c), Dst(c),
                                Copied(Src(c), Call(c).depth, stuck) \cup left)
      BY <2>2
    <3>2. TreeShape(WithCopies(Src(c), Dst(c),
                               Copied(Src(c), Call(c).depth, stuck) \cup left))
      BY <2>3, <2>4, CopyShape
    <3>. QED
      BY <3>1, <3>2
  <2>. QED
    BY <1>1, <2>1, <2>5, NotHolding
<1>19. CASE CopyOfNothing(c)
  <2>1. fsmu = c /\ fsmu' = Nobody /\ req[c].pc = "transfer"
    BY <1>19 DEF CopyOfNothing, Holds, Give, At
  <2>2. Dst(c) # Root /\ ~IsDir(Dst(c)) /\ IsDir(ParentOf(Dst(c))) /\ Dst(c) \in Resource
    BY <1>2, <2>1 DEF At, Free, IsDir
  <2>3. TreeShape(tree')
    BY <1>19, <2>2, PutShape DEF CopyOfNothing
  <2>. QED
    BY <1>1, <2>1, <2>3, NotHolding
<1>. QED
  BY <1>3, <1>4, <1>5, <1>6, <1>7, <1>8, <1>9, <1>10, <1>11, <1>12, <1>13, <1>14,
     <1>15, <1>16, <1>17, <1>18, <1>19 DEF Serve

LEMMA TreeStep ==
    ASSUME TypeInv, MutexInv, TreeInv, [Next]_vars
    PROVE  TreeInv'
<1>1. ASSUME tree' = tree, NEW d \in Client, req'[d] = req[d]
      PROVE  /\ At(d, "release")' => Gone(d)'
             /\ At(d, "releaseDst")' \/ At(d, "transfer")' => Free(d)'
  BY <1>1 DEF TreeInv, At, Gone, Free, Exists, IsDir, Src, Dst, Call
<1>2. CASE UNCHANGED vars \/ Tick
  BY <1>1, <1>2 DEF vars, Tick, TreeInv
<1>3. CASE Crash
  BY <1>3 DEF Crash, TreeInv, At, Idle
<1>4. ASSUME NEW c \in Client, NEW call \in Requests, Receive(c, call) \/ RefuseRoot(c, call)
      PROVE  TreeInv'
  <2>1. Served(c)
    BY <1>4, ArrivalServed
  <2>2. tree' = tree /\ fsmu' = fsmu /\ req[c].pc \notin Holding
    BY <1>4 DEF Receive, RefuseRoot, At, Holding
  <2>3. ServesTree(c)
    BY <2>1, <2>2, NotHolding DEF TreeInv
  <2>4. \A d \in Client : d # c => req'[d] = req[d]
    BY <2>1 DEF Served, Moves
  <2>. QED
    BY <1>1, <2>2, <2>3, <2>4 DEF ServesTree, TreeInv
<1>5. ASSUME NEW c \in Client, Serve(c) \/ Await(c)
      PROVE  TreeInv'
  <2>1. ServesTree(c)
    BY <1>5, ServeTree
  <2>2. \A d \in Client : d # c => req'[d] = req[d]
    BY <1>5, ServeServed DEF Served, Moves
  <2>3. ASSUME NEW d \in Client, d # c
        PROVE  /\ At(d, "release")' => Gone(d)'
               /\ At(d, "releaseDst")' \/ At(d, "transfer")' => Free(d)'
    <3>1. CASE tree' = tree
      BY <1>1, <2>2, <2>3, <3>1
    <3>2. CASE tree' # tree
      <4>1. fsmu # d
        BY <2>1, <2>3, <3>2, ClientAssumption DEF ServesTree
      <4>. QED
        BY <2>2, <2>3, <4>1 DEF MutexInv, At, Holding
    <3>. QED
      BY <3>1, <3>2
  <2>. QED
    BY <2>1, <2>3 DEF ServesTree, TreeInv
<1>. QED
  BY <1>2, <1>3, <1>4, <1>5 DEF Next

-----------------------------------------------------------------------------
(* No path of the tree is longer than some number, at any moment.  Without  *)
(* that, what a removal fails on has no lowest member.                      *)

DepthInv == Bounded(tree)

LEMMA GrownBounded ==
    ASSUME TreeShape(tree), Bounded(tree), NEW src \in Seq(Name), NEW dst \in Seq(Name),
           NEW new,
           \A p \in DOMAIN new : \/ p \in DOMAIN tree \/ p = dst
                                 \/ \E q \in Members(src) : p = Rebase(src, dst, q)
    PROVE  Bounded(new)
<1>1. DOMAIN tree \subseteq Seq(Name)
  BY ResourcesAreSequences DEF TreeShape
<1>2. PICK n \in Nat : \A p \in DOMAIN tree : Len(p) <= n
  BY DEF Bounded
<1>3. Len(src) \in Nat /\ Len(dst) \in Nat /\ \A p \in DOMAIN tree : Len(p) \in Nat
  BY <1>1, LenProperties
<1>4. ASSUME NEW q \in Members(src)
      PROVE  Len(Rebase(src, dst, q)) <= n + Len(dst)
  <2>1. q \in DOMAIN tree /\ Under(src, q)
    BY DEF Members
  <2>2. Len(Rebase(src, dst, q)) = Len(dst) + Len(q) - Len(src)
    BY <1>1, <2>1, RebaseIs
  <2>. QED
    BY <1>2, <1>3, <2>1, <2>2
<1>5. \A p \in DOMAIN new : Len(p) <= n + Len(dst)
  BY <1>2, <1>3, <1>4
<1>. QED
  BY <1>2, <1>3, <1>5 DEF Bounded

LEMMA ServeBounded ==
    ASSUME TypeInv, TreeShape(tree), Bounded(tree), NEW c \in Client, Serve(c) \/ Await(c)
    PROVE  Bounded(tree')
<1>1. ASSUME tree' = tree PROVE Bounded(tree')
  BY <1>1
<1>2. req[c].pc # "idle" => Src(c) \in Seq(Name) /\ Dst(c) \in Seq(Name)
  BY InFlightIs, ResourcesAreSequences
<1>3. ASSUME NEW p \in Seq(Name), NEW kind, tree' = Put(tree, p, kind)
      PROVE  Bounded(tree')
  <2>1. \A q \in DOMAIN tree' : q \in DOMAIN tree \/ q = p
    BY <1>3 DEF Put
  <2>. QED
    BY <2>1, GrownBounded
<1>4. ASSUME NEW p, NEW stuck, NEW blind, tree' = Removed(p, stuck, blind)
      PROVE  Bounded(tree')
  BY <1>4, RemovedIs DEF Bounded
<1>5. ASSUME NEW from, from \subseteq Members(Src(c)), req[c].pc # "idle",
             tree' = WithCopies(Src(c), Dst(c), from)
      PROVE  Bounded(tree')
  <2>1. \A p \in DOMAIN tree' : \/ p \in DOMAIN tree
                                \/ \E q \in Members(Src(c)) : p = Rebase(Src(c), Dst(c), q)
    BY <1>5 DEF WithCopies
  <2>. QED
    BY <1>2, <1>5, <2>1, GrownBounded
<1>6. CASE Await(c)
  BY <1>1, <1>6 DEF Await, BodyArrives, BodyFails, MkcolBody, MkcolNoBody
<1>7. CASE Deliver(c) \/ CheckPasses(c) \/ CheckRefused(c) \/ PutStat(c)
           \/ MkcolRefused(c) \/ DeleteRefused(c) \/ ReleaseSource(c) \/ PrepareRefused(c)
           \/ PrepareFresh(c) \/ ReleaseDestination(c) \/ RenameFails(c)
  BY <1>1, <1>7 DEF Deliver, CheckPasses, CheckRefused, PutStat, MkcolRefused,
     DeleteRefused, ReleaseSource, PrepareRefused, PrepareFresh, ReleaseDestination, RenameFails
<1>8. CASE LockRefused(c) \/ LockGranted(c) \/ LockNoToken(c) \/ RefreshLock(c) \/ UnlockLock(c)
  BY <1>1, <1>8 DEF LockRefused, LockGranted, LockNoToken, RefreshLock, UnlockLock
<1>9. CASE PutWrite(c) \/ Mkcol(c) \/ LockStat(c) \/ CopyOfNothing(c)
  <2>1. Src(c) \in Seq(Name) /\ Dst(c) \in Seq(Name)
    BY <1>2, <1>9 DEF PutWrite, Mkcol, LockStat, CopyOfNothing, At
  <2>. QED
    BY <1>1, <1>3, <1>9, <2>1 DEF PutWrite, Mkcol, LockStat, CopyOfNothing
<1>10. CASE DeleteAll(c) \/ DeletePartly(c) \/ PrepareOverwrite(c) \/ PreparePartly(c)
  BY <1>4, <1>10 DEF DeleteAll, DeletePartly, PrepareOverwrite, PreparePartly
<1>11. CASE Copy(c)
  <2>1. Copied(Src(c), Call(c).depth, {}) \subseteq Members(Src(c))
    BY DEF Copied, ToCopy
  <2>. QED
    BY <1>5, <1>11, <2>1 DEF Copy, At
<1>12. CASE CopyPartly(c)
  <2>1. PICK stuck, left :
           /\ left \in SUBSET Uncopied(Src(c), Call(c).depth, stuck)
           /\ tree' = WithCopies(Src(c), Dst(c), Copied(Src(c), Call(c).depth, stuck) \cup left)
    BY <1>12 DEF CopyPartly
  <2>2. Copied(Src(c), Call(c).depth, stuck) \cup left \subseteq Members(Src(c))
    BY <2>1 DEF Copied, Uncopied, ToCopy
  <2>. QED
    BY <1>5, <1>12, <2>1, <2>2 DEF CopyPartly, At
<1>13. CASE Rename(c)
  <2>1. req[c].pc # "idle" /\ tree' = Renamed(Src(c), Dst(c))
    BY <1>13 DEF Rename, At
  <2>2. \A p \in DOMAIN tree' : \/ p \in DOMAIN tree
                                \/ \E q \in Members(Src(c)) : p = Rebase(Src(c), Dst(c), q)
    BY <2>1 DEF Renamed
  <2>. QED
    BY <1>2, <2>1, <2>2, GrownBounded
<1>. QED
  BY <1>6, <1>7, <1>8, <1>9, <1>10, <1>11, <1>12, <1>13 DEF Serve

LEMMA DepthStep ==
    ASSUME TypeInv, TreeInv, DepthInv, [Next]_vars
    PROVE  DepthInv'
<1>1. CASE tree' = tree
  BY <1>1 DEF DepthInv
<1>2. ASSUME NEW c \in Client, Serve(c) \/ Await(c)
      PROVE  DepthInv'
  BY <1>2, ServeBounded DEF DepthInv, TreeInv
<1>3. ASSUME NEW c \in Client, NEW call \in Requests, Receive(c, call) \/ RefuseRoot(c, call)
      PROVE  tree' = tree
  BY <1>3 DEF Receive, RefuseRoot
<1>. QED
  BY <1>1, <1>2, <1>3 DEF Next, vars, Tick, Crash

-----------------------------------------------------------------------------
(* What a request has been asked about. *)

\* The resources whose locks a request has answered for.  Between the two
\* checks of a MOVE the first is not forgotten.
Guarded(c) ==
    Targets(c) \cup (IF At(c, "checkDst") /\ Call(c).method = "MOVE" THEN {Src(c)} ELSE {})

GuardInv ==
    \A c \in Client : \A p \in Guarded(c) : Covering(p) \cap req[c].since \subseteq req[c].tokens

\* A lock that was minted and no longer covers a path does not come back.
LEMMA CoveringShrinks ==
    ASSUME TypeInv, [Next]_vars, NEW p
    PROVE  Covering(p)' \cap issued \subseteq Covering(p)
<1>1. \A t \in DOMAIN Swept'.byToken :
         t \in issued => t \in DOMAIN Swept.byToken /\ SameLock(t)
  BY NextTable, NextOthers, TableStepKeeps
<1>2. ASSUME NEW t \in Covering(p)', t \in issued
      PROVE  t \in Covering(p)
  <2>1. t \in DOMAIN Swept'.byToken /\ Covers(table'.byToken[t], p)
    BY <1>2 DEF Covering
  <2>2. t \in DOMAIN Swept.byToken /\ SameLock(t)
    BY <1>1, <1>2, <2>1
  <2>3. Covers(table.byToken[t], p)
    BY <2>1, <2>2 DEF SameLock, Covers
  <2>. QED
    BY <2>2, <2>3 DEF Covering
<1>. QED
  BY <1>2

\* Where nothing is guarded.
LEMMA Unguarded ==
    ASSUME NEW c, req[c].pc \in {"idle", "answered", "check", "lockStat", "lockCreate", "refresh",
                                 "unlock", "release", "releaseDst", "transfer"}
    PROVE  Guarded(c) = {}
  BY DEF Guarded, Targets, At

\* A check that passes has compared every lock that covers the path.
LEMMA CheckCovers ==
    ASSUME TypeInv, NEW c \in Client, CheckPasses(c)
    PROVE  Covering(Checked(c)) \subseteq req[c].tokens
<1>1. /\ req[c].pc \in {"check", "checkDst"}
      /\ Confirms(Swept, Checked(c), req[c].tokens)
  BY DEF CheckPasses, At
<1>2. Checked(c) \in Resource
  BY <1>1, InFlightIs DEF Checked
<1>3. Sound(Swept) /\ \A t \in DOMAIN Swept.byToken : Swept.byToken[t] = table.byToken[t]
  BY SweepKeeps DEF Swept, TypeInv
<1>4. \A t \in DOMAIN Swept.byToken :
         Covers(Swept.byToken[t], Checked(c)) => t \in req[c].tokens
  BY <1>1, <1>2, <1>3, ConfirmExact
<1>. QED
  BY <1>3, <1>4 DEF Covering

LEMMA GuardStep ==
    ASSUME TypeInv, GuardInv, [Next]_vars
    PROVE  GuardInv'
<1>1. ASSUME NEW d \in Client, req'[d].tokens = req[d].tokens, req'[d].since = req[d].since,
             req'[d].since \subseteq issued, NEW p, Covering(p) \cap req[d].since \subseteq req[d].tokens
      PROVE  Covering(p)' \cap req'[d].since \subseteq req'[d].tokens
  BY <1>1, CoveringShrinks
<1>2. ASSUME NEW d \in Client, req'[d] = req[d]
      PROVE  \A p \in Guarded(d)' : Covering(p)' \cap req'[d].since \subseteq req'[d].tokens
  <2>1. Guarded(d)' = Guarded(d)
    BY <1>2 DEF Guarded, Targets, At, Call, Src, Dst
  <2>2. CASE req[d].pc = "idle"
    BY <2>1, <2>2, Unguarded
  <2>3. CASE req[d].pc # "idle"
    BY <1>1, <1>2, <2>1, <2>3, InFlightIs DEF GuardInv
  <2>. QED
    BY <2>2, <2>3
<1>3. ASSUME NEW c \in Client, Served(c)
      PROVE  \A p \in Guarded(c)' : Covering(p)' \cap req'[c].since \subseteq req'[c].tokens
  <2>1. ASSUME req[c].pc # "idle", Carries(c), NEW p \in Guarded(c)', p \in Guarded(c)
        PROVE  Covering(p)' \cap req'[c].since \subseteq req'[c].tokens
    BY <1>1, <2>1, InFlightIs DEF Carries, GuardInv
  <2>2. CASE Carries(c) /\ <<req[c].pc, req'[c].pc>> \in Hops
    <3>1. req[c].pc # "idle" /\ Guarded(c)' \subseteq Guarded(c)
      BY <2>2 DEF Hops, Carries, Guarded, Targets, At, Call, Src, Dst
    <3>. QED
      BY <2>1, <2>2, <3>1
  <2>3. CASE Carries(c) /\ CheckPasses(c)
    <3>1. /\ req[c].pc \in {"check", "checkDst"} /\ Goto(c, AfterCheck(c))
      BY <2>3 DEF CheckPasses, At
    <3>2. PCFits(req[c].pc, Call(c).method) /\ Flight(req[c]) /\ req[c].since \subseteq issued
      BY <3>1, InFlightIs
    <3>3. req'[c].pc = AfterCheck(c) /\ req'[c].call = req[c].call
      BY <3>1, <3>2, GotoIs DEF Carries
    <3>4. Guarded(c)' \subseteq Guarded(c) \cup {Checked(c)}
      <4>1. CASE req[c].pc = "check"
        BY <3>2, <3>3, <4>1
        DEF PCFits, AfterCheck, Guarded, Targets, Checked, At, Call, Src, Dst
      <4>2. CASE req[c].pc = "checkDst"
        BY <3>2, <3>3, <4>2
        DEF PCFits, AfterCheck, Guarded, Targets, Checked, At, Call, Src, Dst
      <4>. QED
        BY <3>1, <4>1, <4>2
    <3>5. ASSUME NEW p, p = Checked(c)
          PROVE  Covering(p)' \cap req'[c].since \subseteq req'[c].tokens
      <4>1. Covering(p) \cap req[c].since \subseteq req[c].tokens
        BY <2>3, <3>5, CheckCovers
      <4>2. /\ req'[c].tokens = req[c].tokens /\ req'[c].since = req[c].since
            /\ req'[c].since \subseteq issued
        BY <2>3, <3>2 DEF Carries
      <4>. QED
        BY <1>1, <4>1, <4>2
    <3>6. req[c].pc # "idle"
      BY <3>1
    <3>. QED
      BY <2>1, <2>3, <3>4, <3>5, <3>6
  <2>4. CASE Arrives(c)
    <3>1. PICK call \in Requests, tokens \in SUBSET known[c] :
             req'[c] = InFlight(call, tokens, FirstStep(call.method))
      BY <2>4 DEF Arrives
    <3>2. call.method \in Methods
      BY RequestsAssumption DEF Calls
    <3>3. Guarded(c)' = {}
      BY <3>1, <3>2 DEF Guarded, Targets, At, Call, InFlight, FirstStep, Methods
    <3>. QED
      BY <3>3
  <2>5. CASE req'[c].pc \in {"idle", "answered"}
    BY <2>5 DEF Guarded, Targets, At
  <2>. QED
    BY <1>3, <2>2, <2>3, <2>4, <2>5 DEF Served, Hop
<1>4. CASE req' = req
  BY <1>2, <1>4 DEF GuardInv
<1>5. CASE Restarts
  BY <1>5 DEF Restarts, GuardInv, Guarded, Targets, At, Idle
<1>6. ASSUME NEW c \in Client, Served(c)
      PROVE  GuardInv'
  BY <1>2, <1>3, <1>6 DEF Served, Moves, GuardInv
<1>. QED
  BY <1>4, <1>5, <1>6, NextRequest

-----------------------------------------------------------------------------
(* What happens to the locks of what a request removes. *)

\* A DELETE or a MOVE succeeds only as it releases its source.
LEMMA SuccessReleases ==
    ASSUME TypeInv, NEW c \in Client, Serve(c) \/ Await(c),
           req[c].pc \notin {"idle", "answered"}, req'[c].pc = "answered",
           Call(c).method \in {"DELETE", "MOVE"}, req'[c].status \in {201, 204}
    PROVE  ReleaseSource(c)
<1>1. Flight(req[c]) /\ PCFits(req[c].pc, Call(c).method)
  BY InFlightIs
<1>2. ASSUME NEW pc, Goto(c, pc) PROVE pc = "answered"
  BY <1>1, <1>2, GotoIs
<1>3. ASSUME NEW status, Respond(c, status) PROVE status \in {201, 204}
  BY <1>1, <1>3, RespondIs DEF Answers
<1>4. ASSUME NEW rows, Multistatus(c, rows) PROVE FALSE
  <2>1. Flight(req[c])
    BY <1>1
  <2>2. Answers(c, 207, TRUE)
    BY <1>4, <2>1, MultistatusIs
  <2>. QED
    BY <2>2 DEF Answers
<1>5. ASSUME NEW pc, NEW existed, Acted(c, pc, existed) PROVE pc = "answered"
  BY <1>1, <1>5, ActedIs
<1>6. ~(Await(c) \/ PutStat(c) \/ PutWrite(c) \/ MkcolRefused(c) \/ Mkcol(c))
  BY <1>1 DEF Await, BodyArrives, BodyFails, MkcolBody, MkcolNoBody, PutStat, PutWrite,
     MkcolRefused, Mkcol, At, PCFits
<1>7. ~(LockStat(c) \/ LockRefused(c) \/ LockGranted(c) \/ LockNoToken(c) \/ RefreshLock(c)
        \/ UnlockLock(c) \/ Copy(c) \/ CopyPartly(c) \/ CopyOfNothing(c) \/ Deliver(c))
  BY <1>1 DEF LockStat, LockRefused, LockGranted, LockNoToken, RefreshLock, UnlockLock,
     Copy, CopyPartly, CopyOfNothing, Deliver, At, PCFits
<1>8. ~CheckPasses(c)
  BY <1>1, <1>2 DEF CheckPasses, AfterCheck, PCFits, At
<1>9. ~(ReleaseDestination(c) \/ DeleteAll(c) \/ Rename(c))
  BY <1>2, <1>5 DEF ReleaseDestination, DeleteAll, Rename
<1>10. ~(PrepareFresh(c) \/ PrepareOverwrite(c))
  <2>1. ASSUME PrepareFresh(c) PROVE FALSE
    <3>1. req'[c].pc = "transfer"
      BY <1>1, <2>1, LookedFromIs, ZenonT(30) DEF PrepareFresh
    <3>. QED
      BY <3>1
  <2>2. ASSUME PrepareOverwrite(c) PROVE FALSE
    <3>1. req'[c].pc = "releaseDst"
      BY <1>1, <2>2, TouchedFromIs DEF PrepareOverwrite
    <3>. QED
      BY <3>1
  <2>. QED
    BY <2>1, <2>2
<1>11. ~(CheckRefused(c) \/ DeleteRefused(c) \/ PrepareRefused(c))
  BY <1>3 DEF CheckRefused, DeleteRefused, PrepareRefused, Refusal
<1>12. ~(DeletePartly(c) \/ PreparePartly(c))
  BY <1>4 DEF DeletePartly, PreparePartly
<1>13. ~RenameFails(c)
  BY <1>3 DEF RenameFails
<1>. QED
  BY <1>6, <1>7, <1>8, <1>9, <1>10, <1>11, <1>12, <1>13 DEF Serve

\* A released tree has no lock left in it, and lost none outside it.
LEMMA ReleaseTreeIs ==
    ASSUME Sound(table), NEW p, table' = ReleaseTree(table, p)
    PROVE  /\ \A t \in DOMAIN table'.byToken : ~Under(p, table'.byToken[t].path)
           /\ \A t \in DOMAIN table.byToken :
                 t \notin DOMAIN table'.byToken => Under(p, table.byToken[t].path)
<1> DEFINE kept == {t \in DOMAIN table.byToken : ~Under(p, table.byToken[t].path)}
<1>1. table' = Part(table, kept) /\ kept \in SUBSET DOMAIN table.byToken
  BY ReleaseIsPart
<1>2. DOMAIN table'.byToken = kept /\ \A t \in kept : table'.byToken[t] = table.byToken[t]
  BY <1>1, PartSound
<1>. QED
  BY <1>2

\* Only the last step of a request releases a tree, and only one that is gone;
\* any other lock that goes is unlocked.
LEMMA ServeReleases ==
    ASSUME TypeInv, TreeInv, NEW c \in Client, Serve(c) \/ Await(c)
    PROVE  ReleasesOnlyGone
<1>1. /\ Sound(table) /\ Sound(Swept)
      /\ DOMAIN Swept.byToken \subseteq DOMAIN table.byToken
      /\ \A t \in DOMAIN Swept.byToken : Swept.byToken[t] = table.byToken[t]
  BY SweepKeeps DEF Swept, TypeInv
<1>2. ASSUME table' = table \/ table' = Swept
      PROVE  ReleasesOnlyGone
  BY <1>1, <1>2 DEF ReleasesOnlyGone
<1>3. CASE ReleaseSource(c)
  <2>1. table' = ReleaseTree(table, Src(c)) /\ Gone(c)
    BY <1>3 DEF ReleaseSource, TreeInv
  <2>2. \A t \in DOMAIN table.byToken :
           t \notin DOMAIN table'.byToken => Under(Src(c), table.byToken[t].path)
    BY <1>1, <2>1, ReleaseTreeIs
  <2>. QED
    BY <1>1, <2>1, <2>2 DEF ReleasesOnlyGone, Gone, Exists
<1>4. CASE ReleaseDestination(c)
  <2>1. table' = ReleaseTree(table, Dst(c)) /\ ~Exists(Dst(c)) /\ req[c].pc = "releaseDst"
    BY <1>4 DEF ReleaseDestination, TreeInv, Free, At
  <2>2. \A t \in DOMAIN table.byToken :
           t \notin DOMAIN table'.byToken => Under(Dst(c), table.byToken[t].path)
    BY <1>1, <2>1, ReleaseTreeIs
  <2>3. \A p \in DOMAIN tree : ~Under(Dst(c), p)
    BY <2>1, InFlightIs, AboveExists DEF TreeInv, Exists
  <2>. QED
    BY <1>1, <2>2, <2>3 DEF ReleasesOnlyGone, Exists
<1>5. CASE LockGranted(c)
  <2>1. \A t \in DOMAIN Swept.byToken : t \in DOMAIN table'.byToken
    BY <1>5 DEF LockGranted, Insert, Put
  <2>. QED
    BY <2>1 DEF ReleasesOnlyGone
<1>6. CASE RefreshLock(c)
  <2>1. ASSUME NEW t \in Refreshable(Swept, Src(c), req[c].tokens), NEW timeout \in Timeouts,
               table' = Extend(Swept, t, now + timeout)
        PROVE  ReleasesOnlyGone
    <3>1. now + timeout \in Int /\ t \in DOMAIN Swept.byToken
      BY <2>1, ClockAssumption DEF Refreshable, TypeInv
    <3>2. DOMAIN table'.byToken = DOMAIN Swept.byToken
      BY <1>1, <2>1, <3>1, ExtendSound
    <3>. QED
      BY <3>2 DEF ReleasesOnlyGone
  <2>. QED
    BY <1>2, <1>6, <2>1 DEF RefreshLock
<1>7. CASE UnlockLock(c)
  <2>1. ASSUME NEW t \in req[c].tokens, table' = Unlock(Swept, Src(c), t), Respond(c, 204)
        PROVE  ReleasesOnlyGone
    <3>1. req[c].pc = "unlock" /\ Flight(req[c])
      BY <1>7, InFlightIs DEF UnlockLock, At
    <3>2. req'[c].pc = "answered" /\ req'[c].status = 204
      BY <2>1, <3>1, RespondIs DEF Answers
    <3>3. DOMAIN table'.byToken = DOMAIN Swept.byToken \ {t}
      BY <2>1 DEF Unlock, Drop, Restrict
    <3>. QED
      BY <2>1, <3>1, <3>2, <3>3 DEF ReleasesOnlyGone, At
  <2>. QED
    BY <1>2, <1>7, <2>1 DEF UnlockLock
<1>8. CASE Await(c)
  BY <1>2, <1>8 DEF Await, BodyArrives, BodyFails, MkcolBody, MkcolNoBody
<1>9. CASE Deliver(c) \/ CheckPasses(c) \/ CheckRefused(c) \/ PutStat(c) \/ PutWrite(c)
           \/ MkcolRefused(c) \/ Mkcol(c) \/ DeleteRefused(c) \/ DeleteAll(c) \/ DeletePartly(c)
  BY <1>2, <1>9 DEF Deliver, CheckPasses, CheckRefused, PutStat, PutWrite, MkcolRefused,
     Mkcol, DeleteRefused, DeleteAll, DeletePartly
<1>10. CASE PrepareRefused(c) \/ PrepareFresh(c) \/ PrepareOverwrite(c) \/ PreparePartly(c)
            \/ Rename(c) \/ RenameFails(c) \/ Copy(c) \/ CopyPartly(c) \/ CopyOfNothing(c)
            \/ LockStat(c) \/ LockRefused(c) \/ LockNoToken(c)
  BY <1>2, <1>10 DEF PrepareRefused, PrepareFresh, PrepareOverwrite, PreparePartly, Rename,
     RenameFails, Copy, CopyPartly, CopyOfNothing, LockStat, LockRefused, LockNoToken
<1>. QED
  BY <1>3, <1>4, <1>5, <1>6, <1>7, <1>8, <1>9, <1>10 DEF Serve

\* What goes from the tree goes with a 207, or by a step that will release it.
LEMMA ServeTakes ==
    ASSUME TypeInv, NEW c \in Client, Serve(c) \/ Await(c), NEW path
    PROVE  TakenWithItsLock(path)
<1>1. ASSUME DOMAIN tree \subseteq DOMAIN tree'
      PROVE  TakenWithItsLock(path)
  BY <1>1 DEF TakenWithItsLock, Exists
<1>2. CASE Await(c)
  BY <1>1, <1>2 DEF Await, BodyArrives, BodyFails, MkcolBody, MkcolNoBody
<1>3. CASE Deliver(c) \/ CheckPasses(c) \/ CheckRefused(c) \/ PutStat(c)
           \/ MkcolRefused(c) \/ DeleteRefused(c) \/ ReleaseSource(c) \/ PrepareRefused(c)
           \/ PrepareFresh(c) \/ ReleaseDestination(c) \/ RenameFails(c)
  BY <1>1, <1>3 DEF Deliver, CheckPasses, CheckRefused, PutStat, MkcolRefused,
     DeleteRefused, ReleaseSource, PrepareRefused, PrepareFresh, ReleaseDestination, RenameFails
<1>4. CASE LockRefused(c) \/ LockGranted(c) \/ LockNoToken(c) \/ RefreshLock(c) \/ UnlockLock(c)
  BY <1>1, <1>4 DEF LockRefused, LockGranted, LockNoToken, RefreshLock, UnlockLock
<1>5. ASSUME NEW p, NEW kind, tree' = Put(tree, p, kind)
      PROVE  TakenWithItsLock(path)
  BY <1>1, <1>5 DEF Put
<1>6. ASSUME NEW from, tree' = WithCopies(Src(c), Dst(c), from)
      PROVE  TakenWithItsLock(path)
  BY <1>1, <1>6 DEF WithCopies
<1>7. CASE PutWrite(c) \/ Mkcol(c) \/ LockStat(c) \/ CopyOfNothing(c)
  BY <1>1, <1>5, <1>7 DEF PutWrite, Mkcol, LockStat, CopyOfNothing
<1>8. CASE Copy(c) \/ CopyPartly(c)
  BY <1>6, <1>8 DEF Copy, CopyPartly
<1>9. CASE DeletePartly(c) \/ PreparePartly(c)
  <2>1. req[c].pc \in {"remove", "prepare"} /\ Flight(req[c])
    BY <1>9, InFlightIs DEF DeletePartly, PreparePartly, At
  <2>2. req'[c].pc = "answered" /\ req'[c].status = 207
    BY <1>9, <2>1, MultistatusIs DEF DeletePartly, PreparePartly, Answers
  <2>. QED
    BY <2>1, <2>2 DEF TakenWithItsLock
<1>10. CASE DeleteAll(c)
  <2>1. /\ req[c].pc = "remove" /\ Flight(req[c])
        /\ tree' = Removed(Src(c), {}, {}) /\ fsmu' = c
    BY <1>10, InFlightIs DEF DeleteAll, At, Take
  <2>2. req'[c].pc = "release"
    BY <1>10, <2>1, ActedIs DEF DeleteAll
  <2>. QED
    BY <2>1, <2>2, RemovedIs DEF TakenWithItsLock, At, Exists
<1>11. CASE PrepareOverwrite(c)
  <2>1. /\ req[c].pc = "prepare" /\ Flight(req[c])
        /\ tree' = Removed(Dst(c), {}, {}) /\ fsmu' = c
    BY <1>11, InFlightIs DEF PrepareOverwrite, At, Take
  <2>2. req'[c].pc = "releaseDst"
    BY <1>11, <2>1, TouchedFromIs DEF PrepareOverwrite
  <2>. QED
    BY <2>1, <2>2, RemovedIs DEF TakenWithItsLock, At, Exists
<1>12. CASE Rename(c)
  <2>1. /\ req[c].pc = "transfer" /\ Flight(req[c])
        /\ tree' = Renamed(Src(c), Dst(c)) /\ fsmu' = c
    BY <1>12, InFlightIs DEF Rename, At, Holds
  <2>2. req'[c].pc = "release"
    BY <1>12, <2>1, ActedIs DEF Rename
  <2>3. \A p \in DOMAIN tree : ~Under(Src(c), p) => p \in DOMAIN tree'
    BY <2>1 DEF Renamed, Members
  <2>. QED
    BY <2>1, <2>2, <2>3 DEF TakenWithItsLock, At, Exists
<1>. QED
  BY <1>2, <1>3, <1>4, <1>7, <1>8, <1>9, <1>10, <1>11, <1>12 DEF Serve

LEMMA ServeCleans ==
    ASSUME TypeInv, NEW c \in Client, Serve(c) \/ Await(c)
    PROVE  SourceReleased(c) /\ DestinationReleased(c)
<1>1. Sound(table)
  BY DEF TypeInv
<1>2. SourceReleased(c)
  <2>. SUFFICES ASSUME req[c].pc \notin {"idle", "answered"}, req'[c].pc = "answered",
                       Call(c).method \in {"DELETE", "MOVE"}, req'[c].status \in {201, 204},
                       NEW t \in DOMAIN table'.byToken
                PROVE  ~Under(Src(c), table'.byToken[t].path)
    BY DEF SourceReleased, At
  <2>1. table' = ReleaseTree(table, Src(c))
    BY SuccessReleases DEF ReleaseSource
  <2>. QED
    BY <1>1, <2>1, ReleaseTreeIs
<1>3. DestinationReleased(c)
  <2>. SUFFICES ASSUME req[c].pc = "releaseDst", NEW t \in DOMAIN table'.byToken
                PROVE  ~Under(Dst(c), table'.byToken[t].path)
    BY DEF DestinationReleased, At
  <2>1. ReleaseDestination(c)
    BY DEF Serve, Await, BodyArrives, BodyFails, MkcolBody, MkcolNoBody, Deliver, CheckPasses,
       CheckRefused, PutStat, PutWrite, MkcolRefused, Mkcol, DeleteRefused, DeleteAll,
       DeletePartly, ReleaseSource, PrepareRefused, PrepareFresh, PrepareOverwrite,
       PreparePartly, Rename, RenameFails, Copy, CopyPartly, CopyOfNothing, LockStat,
       LockRefused, LockGranted, LockNoToken, RefreshLock, UnlockLock, At
  <2>. QED
    BY <1>1, <2>1, ReleaseTreeIs DEF ReleaseDestination
<1>. QED
  BY <1>2, <1>3

-----------------------------------------------------------------------------
(* What a multistatus tells. *)

\* The step answers 207.
Reports(c) ==
    /\ req[c].pc \notin {"idle", "answered"}
    /\ req'[c].pc = "answered" /\ req'[c].status = 207

LEMMA OnlyFailuresAre207 ==
    ASSUME TypeInv, NEW c \in Client, Serve(c) \/ Await(c), Reports(c)
    PROVE  DeletePartly(c) \/ PreparePartly(c) \/ CopyPartly(c) \/ CopyOfNothing(c)
<1>0. Flight(req[c])
  BY InFlightIs DEF Reports
<1>1. PCFits(req[c].pc, Call(c).method)
  BY InFlightIs DEF Reports
<1>2. ASSUME NEW pc, Goto(c, pc) PROVE pc = "answered"
  BY <1>0, <1>2, GotoIs DEF Reports
<1>3. ASSUME NEW status, Respond(c, status) PROVE status = 207
  <2>1. Answers(c, status, req[c].touched)
    BY <1>0, <1>3, RespondIs
  <2>. QED
    BY <2>1 DEF Answers, Reports
<1>4. ASSUME NEW status, ActedAndRespond(c, status) PROVE status = 207
  <2>1. Answers(c, status, TRUE)
    BY <1>0, <1>4, ActedAndRespondIs
  <2>. QED
    BY <2>1 DEF Answers, Reports
<1>5. ASSUME NEW pc, NEW existed, Acted(c, pc, existed) PROVE pc = "answered"
  <2>1. req'[c].pc = pc
    BY <1>0, <1>5, ActedIs
  <2>. QED
    BY <2>1 DEF Reports
<1>6. ASSUME NEW pc, NEW existed, req' = [req EXCEPT ![c] = Looked(req[c], pc, existed)]
      PROVE  pc = "answered"
  <2>1. req'[c] = Looked(req[c], pc, existed)
    BY <1>6, UpdateIs
  <2>. QED
    BY <1>0, <2>1, LookedIs DEF Reports
<1>7. ~Await(c)
  BY <1>2, <1>3 DEF Await, BodyArrives, BodyFails, MkcolBody, MkcolNoBody
<1>8. ~(PutWrite(c) \/ MkcolRefused(c) \/ Mkcol(c))
  BY <1>3, <1>4 DEF PutWrite, MkcolRefused, Mkcol
<1>9. ~PutStat(c)
  <2>1. ASSUME NEW existed, req' = [req EXCEPT ![c] = Looked(req[c], "body", existed)]
        PROVE  FALSE
    <3>1. "body" = "answered"
      BY <1>6, <2>1
    <3>. QED
      BY <3>1
  <2>2. req' # [req EXCEPT ![c] = Looked(req[c], "body", Exists(Src(c)))]
    BY <2>1
  <2>3. req' # [req EXCEPT ![c] = Looked(req[c], "body", FALSE)]
    BY <2>1
  <2>4. ~Respond(c, 409) /\ ~Respond(c, 500)
    BY <1>3
  <2>. QED
    BY <2>2, <2>3, <2>4 DEF PutStat
<1>10. ~LockStat(c)
  <2>1. ASSUME req' = [req EXCEPT ![c] = Looked(req[c], "lockCreate", TRUE)]
        PROVE  FALSE
    <3>1. "lockCreate" = "answered"
      BY <1>6, <2>1
    <3>. QED
      BY <3>1
  <2>2. ~Acted(c, "lockCreate", FALSE)
    BY <1>5
  <2>3. ~Respond(c, 500)
    BY <1>3
  <2>. QED
    BY <2>1, <2>2, <2>3 DEF LockStat
<1>11. ~(LockRefused(c) \/ LockNoToken(c) \/ RefreshLock(c) \/ UnlockLock(c))
  <2>1. ~(LockRefused(c) \/ LockNoToken(c))
    BY <1>3 DEF LockRefused, LockNoToken
  <2>2. ~RefreshLock(c)
    BY <1>3 DEF RefreshLock
  <2>3. ~UnlockLock(c)
    <3>1. ~Respond(c, 204) /\ ~Respond(c, 400) /\ ~Respond(c, 409)
      BY <1>3
    <3>2. UnlockLock(c) => Respond(c, 204) \/ Respond(c, 400) \/ Respond(c, 409)
      BY DEF UnlockLock
    <3>. QED
      BY <3>1, <3>2
  <2>. QED
    BY <2>1, <2>2, <2>3
<1>12. ~LockGranted(c)
  <2>. SUFFICES ASSUME LockGranted(c) PROVE FALSE
    OBVIOUS
  <2> DEFINE d == Done(req[c], IF req[c].existed THEN 200 ELSE 201)
  <2>1. PICK t : req' = [req EXCEPT ![c] = [d EXCEPT !.granted = {t}]]
    BY DEF LockGranted
  <2>2. req'[c] = [d EXCEPT !.granted = {t}]
    BY <2>1, UpdateIs
  <2>3. Flight(d) /\ d.status \in {200, 201}
    BY <1>0, DoneIs
  <2>. HIDE DEF d
  <2>. QED
    BY <2>2, <2>3 DEF Flight, Reports
<1>13. ~(CheckPasses(c) \/ ReleaseDestination(c) \/ DeleteAll(c) \/ Rename(c) \/ Deliver(c))
  <2>1. ~CheckPasses(c)
    BY <1>1, <1>2 DEF CheckPasses, AfterCheck, PCFits, At
  <2>2. ~(ReleaseDestination(c) \/ DeleteAll(c) \/ Rename(c))
    BY <1>2, <1>5 DEF ReleaseDestination, DeleteAll, Rename
  <2>3. ~Deliver(c)
    BY DEF Deliver, At, Reports
  <2>. QED
    BY <2>1, <2>2, <2>3
<1>14. ~(PrepareFresh(c) \/ PrepareOverwrite(c))
  <2>1. ASSUME PrepareFresh(c) PROVE FALSE
    <3>1. PICK dir : req' = [req EXCEPT ![c] = [Looked(@, "transfer", FALSE) EXCEPT !.srcDir = dir]]
      BY <2>1 DEF PrepareFresh
    <3>2. req'[c].pc = "transfer"
      BY <1>0, <3>1, LookedFromIs
    <3>. QED
      BY <3>2 DEF Reports
  <2>2. ASSUME PrepareOverwrite(c) PROVE FALSE
    <3>1. PICK dir : req' = [req EXCEPT ![c] = [Touched(@, "releaseDst", TRUE) EXCEPT !.srcDir = dir]]
      BY <2>2 DEF PrepareOverwrite
    <3>2. req'[c].pc = "releaseDst"
      BY <1>0, <3>1, TouchedFromIs
    <3>. QED
      BY <3>2 DEF Reports
  <2>. QED
    BY <2>1, <2>2
<1>15. ~(CheckRefused(c) \/ DeleteRefused(c) \/ PrepareRefused(c) \/ ReleaseSource(c)
         \/ RenameFails(c))
  BY <1>3 DEF CheckRefused, DeleteRefused, PrepareRefused, Refusal, ReleaseSource, RenameFails
<1>16. ~Copy(c)
  BY <1>4 DEF Copy
<1>. QED
  BY <1>7, <1>8, <1>9, <1>10, <1>11, <1>12, <1>13, <1>14, <1>15, <1>16 DEF Serve

LEMMA ServeTells ==
    ASSUME TypeInv, TreeInv, DepthInv, NEW c \in Client, Serve(c) \/ Await(c)
    PROVE  RowsTell(c)
<1>. SUFFICES ASSUME Reports(c) PROVE RowsTell(c)
  BY DEF RowsTell, Reports, At
<1>0. Flight(req[c])
  BY InFlightIs DEF Reports
<1>1. /\ PCFits(req[c].pc, Call(c).method)
      /\ Src(c) \in Resource /\ Dst(c) \in Resource
  BY InFlightIs DEF Reports
<1>2. TreeShape(tree) /\ Bounded(tree)
  BY DEF TreeInv, DepthInv
<1>8. ASSUME NEW rows, Multistatus(c, rows) PROVE req'[c].rows = rows
  BY <1>0, <1>8, MultistatusIs
<1>3. ASSUME NEW p, Exists(p), p = IF Call(c).method = "DELETE" THEN Src(c) ELSE Dst(c),
             At(c, "remove") \/ At(c, "prepare"),
             NEW stuck \in Stuck(p) \ {{}}, NEW blind \in Blind(stuck),
             tree' = Removed(p, stuck, blind), req'[c].rows = Unremoved(p, stuck, blind)
      PROVE  RowsTell(c)
  <2>1. Meets(p, stuck, blind) /\ stuck # {}
    BY <1>2, <1>3 DEF Meets, Exists, Stuck, Blind
  <2> DEFINE rows == req'[c].rows
  <2>2. /\ rows # {} /\ rows \subseteq DOMAIN tree'
        /\ \A q, r \in rows : ~StrictlyUnder(q, r)
        /\ \A q \in Members(p) \cap DOMAIN tree' :
              \E r \in rows : Under(r, q) \/ Under(q, r)
    BY <1>3, <2>1, RemovalTells
  <2>. QED
    BY <1>3, <2>2 DEF RowsTell
<1>4. CASE DeletePartly(c)
  <2>1. PICK stuck \in Stuck(Src(c)) \ {{}} : \E blind \in Blind(stuck) :
           /\ tree' = Removed(Src(c), stuck, blind)
           /\ Multistatus(c, Unremoved(Src(c), stuck, blind))
    BY <1>4 DEF DeletePartly
  <2>2. PICK blind \in Blind(stuck) :
           /\ tree' = Removed(Src(c), stuck, blind)
           /\ Multistatus(c, Unremoved(Src(c), stuck, blind))
    BY <2>1
  <2>3. req'[c].rows = Unremoved(Src(c), stuck, blind)
    BY <2>2, <1>8
  <2>4. At(c, "remove") /\ Call(c).method = "DELETE" /\ Exists(Src(c))
    BY <1>1, <1>4 DEF DeletePartly, PCFits, At
  <2>. QED
    BY <1>3, <2>2, <2>3, <2>4
<1>5. CASE PreparePartly(c)
  <2>1. PICK stuck \in Stuck(Dst(c)) \ {{}} : \E blind \in Blind(stuck) :
           /\ tree' = Removed(Dst(c), stuck, blind)
           /\ Multistatus(c, Unremoved(Dst(c), stuck, blind))
    BY <1>5 DEF PreparePartly
  <2>2. PICK blind \in Blind(stuck) :
           /\ tree' = Removed(Dst(c), stuck, blind)
           /\ Multistatus(c, Unremoved(Dst(c), stuck, blind))
    BY <2>1
  <2>3. req'[c].rows = Unremoved(Dst(c), stuck, blind)
    BY <2>2, <1>8
  <2>4. At(c, "prepare") /\ Call(c).method # "DELETE" /\ Exists(Dst(c))
    BY <1>1, <1>5 DEF PreparePartly, PCFits, At
  <2>. QED
    BY <1>3, <2>2, <2>3, <2>4
<1>6. CASE CopyPartly(c)
  <2> DEFINE depth == Call(c).depth
  <2>1. PICK stuck \in CopyStuck(c) \ {{}} :
           /\ \E left \in SUBSET Uncopied(Src(c), depth, stuck) :
                 tree' = WithCopies(Src(c), Dst(c), Copied(Src(c), depth, stuck) \cup left)
           /\ Multistatus(c, {Rebase(Src(c), Dst(c), q) : q \in Uncopied(Src(c), depth, stuck)})
    BY <1>6 DEF CopyPartly
  <2>2. PICK left \in SUBSET Uncopied(Src(c), depth, stuck) :
           tree' = WithCopies(Src(c), Dst(c), Copied(Src(c), depth, stuck) \cup left)
    BY <2>1
  <2>3. req'[c].rows = {Rebase(Src(c), Dst(c), q) : q \in Uncopied(Src(c), depth, stuck)}
    BY <2>1, <1>8
  <2>4. ~(At(c, "remove") \/ At(c, "prepare"))
    BY <1>6 DEF CopyPartly, At
  <2>5. stuck \in SUBSET ToCopy(Src(c), depth)
    BY <2>1 DEF CopyStuck
  <2>. HIDE DEF depth
  <2>6. ASSUME NEW q \in ToCopy(Src(c), depth)
        PROVE  \/ Rebase(Src(c), Dst(c), q) \in DOMAIN tree'
               \/ \E r \in req'[c].rows : Under(r, Rebase(Src(c), Dst(c), q))
    <3>1. TreeShape(tree) /\ Src(c) \in Resource /\ Dst(c) \in Resource
      BY <1>1, <1>2
    <3>2. \/ Rebase(Src(c), Dst(c), q) \in DOMAIN tree'
          \/ \E x \in Uncopied(Src(c), depth, stuck) :
                Under(Rebase(Src(c), Dst(c), x), Rebase(Src(c), Dst(c), q))
      BY <2>2, <2>5, <3>1, CopyTells
    <3>. QED
      BY <2>3, <3>2
  <2>. QED
    BY <2>4, <2>6 DEF RowsTell, depth
<1>7. CASE CopyOfNothing(c)
  <2>1. ~Exists(Src(c)) /\ ~(At(c, "remove") \/ At(c, "prepare"))
    BY <1>7 DEF CopyOfNothing, At
  <2>2. Members(Src(c)) = {}
    BY <1>1, <1>2, <2>1, AboveExists DEF Members, Exists
  <2>3. ToCopy(Src(c), Call(c).depth) = {}
    BY <2>2 DEF ToCopy
  <2>. QED
    BY <2>1, <2>3 DEF RowsTell
<1>9. DeletePartly(c) \/ PreparePartly(c) \/ CopyPartly(c) \/ CopyOfNothing(c)
  BY OnlyFailuresAre207
<1>. QED
  BY <1>4, <1>5, <1>6, <1>7, <1>9

-----------------------------------------------------------------------------
(* The steps of any request, and the others. *)

LEMMA NextReleases ==
    ASSUME TypeInv, TreeInv, [Next]_vars
    PROVE  ReleasesOnlyGone
<1>1. DOMAIN Swept.byToken \subseteq DOMAIN table.byToken
  BY SweepKeeps DEF Swept, TypeInv
<1>2. ASSUME table' = table PROVE ReleasesOnlyGone
  BY <1>1, <1>2 DEF ReleasesOnlyGone
<1>3. CASE UNCHANGED vars \/ Tick
  BY <1>2, <1>3 DEF vars, Tick
<1>4. CASE Crash
  BY <1>4 DEF Crash, ReleasesOnlyGone
<1>5. ASSUME NEW c \in Client, NEW call \in Requests, Receive(c, call) \/ RefuseRoot(c, call)
      PROVE  ReleasesOnlyGone
  BY <1>2, <1>5 DEF Receive, RefuseRoot
<1>. QED
  BY <1>3, <1>4, <1>5, ServeReleases DEF Next

LEMMA NextTakes ==
    ASSUME TypeInv, [Next]_vars, NEW path
    PROVE  TakenWithItsLock(path)
<1>1. ASSUME tree' = tree PROVE TakenWithItsLock(path)
  BY <1>1 DEF TakenWithItsLock, Exists
<1>2. CASE UNCHANGED vars \/ Tick \/ Crash
  BY <1>1, <1>2 DEF vars, Tick, Crash
<1>3. ASSUME NEW c \in Client, NEW call \in Requests, Receive(c, call) \/ RefuseRoot(c, call)
      PROVE  TakenWithItsLock(path)
  BY <1>1, <1>3 DEF Receive, RefuseRoot
<1>. QED
  BY <1>2, <1>3, ServeTakes DEF Next

LEMMA NextCleans ==
    ASSUME TypeInv, [Next]_vars, NEW c \in Client
    PROVE  SourceReleased(c) /\ DestinationReleased(c)
<1>1. ASSUME req'[c] = req[c]
      PROVE  SourceReleased(c) /\ DestinationReleased(c)
  BY <1>1 DEF SourceReleased, DestinationReleased, At
<1>2. CASE UNCHANGED vars \/ Tick
  BY <1>1, <1>2 DEF vars, Tick
<1>3. CASE Crash
  BY <1>3 DEF Crash, SourceReleased, DestinationReleased, EmptyTable, At, Idle
<1>4. ASSUME NEW d \in Client, NEW call \in Requests, Receive(d, call) \/ RefuseRoot(d, call)
      PROVE  SourceReleased(c) /\ DestinationReleased(c)
  <2>1. CASE d = c
    BY <1>4, <2>1 DEF Receive, RefuseRoot, SourceReleased, DestinationReleased, At
  <2>2. CASE d # c
    BY <1>1, <1>4, <2>2, ArrivalServed DEF Served, Moves
  <2>. QED
    BY <2>1, <2>2
<1>5. ASSUME NEW d \in Client, Serve(d) \/ Await(d)
      PROVE  SourceReleased(c) /\ DestinationReleased(c)
  <2>1. CASE d = c
    BY <1>5, <2>1, ServeCleans
  <2>2. CASE d # c
    BY <1>1, <1>5, <2>2, ServeServed DEF Served, Moves
  <2>. QED
    BY <2>1, <2>2
<1>. QED
  BY <1>2, <1>3, <1>4, <1>5 DEF Next

LEMMA NextTells ==
    ASSUME TypeInv, TreeInv, DepthInv, [Next]_vars, NEW c \in Client
    PROVE  RowsTell(c)
<1>1. ASSUME req'[c] = req[c]
      PROVE  RowsTell(c)
  BY <1>1 DEF RowsTell, At
<1>2. CASE UNCHANGED vars \/ Tick
  BY <1>1, <1>2 DEF vars, Tick
<1>3. CASE Crash
  BY <1>3 DEF Crash, RowsTell, At, Idle
<1>4. ASSUME NEW d \in Client, NEW call \in Requests, Receive(d, call) \/ RefuseRoot(d, call)
      PROVE  RowsTell(c)
  <2>1. CASE d = c
    BY <1>4, <2>1 DEF Receive, RefuseRoot, RowsTell, At
  <2>2. CASE d # c
    BY <1>1, <1>4, <2>2, ArrivalServed DEF Served, Moves
  <2>. QED
    BY <2>1, <2>2
<1>5. ASSUME NEW d \in Client, Serve(d) \/ Await(d)
      PROVE  RowsTell(c)
  <2>1. CASE d = c
    BY <1>5, <2>1, ServeTells
  <2>2. CASE d # c
    BY <1>1, <1>5, <2>2, ServeServed DEF Served, Moves
  <2>. QED
    BY <2>1, <2>2
<1>. QED
  BY <1>2, <1>3, <1>4, <1>5 DEF Next

-----------------------------------------------------------------------------
(* The inductive invariant, and what follows from it. *)

IInv == TypeInv /\ MutexInv /\ TreeInv /\ DepthInv /\ GuardInv

LEMMA IInvInit == Init => IInv
<1>. SUFFICES ASSUME Init PROVE IInv
  OBVIOUS
<1>1. TypeInv
  BY TypeInvInit
<1>2. \A c \in Client : req[c].pc = "idle"
  BY DEF Init, Idle
<1>3. MutexInv
  BY <1>2, ClientAssumption DEF Init, MutexInv, Holding
<1>4. TreeInv
  BY <1>2, InitTreeAssumption DEF Init, TreeInv, At
<1>5. GuardInv
  BY <1>2, Unguarded DEF GuardInv
<1>6. DepthInv
  <2>1. PICK p \in DOMAIN InitTree : \A q \in DOMAIN InitTree : Len(q) <= Len(p)
    BY InitTreeAssumption
  <2>2. Len(p) \in Nat
    BY InitTreeAssumption, ResourcesAreSequences, LenProperties DEF TreeShape
  <2>. QED
    BY <2>1, <2>2 DEF Init, DepthInv, Bounded
<1>. QED
  BY <1>1, <1>3, <1>4, <1>5, <1>6 DEF IInv

LEMMA IInvStep == IInv /\ [Next]_vars => IInv'
  BY TypeInvStep, MutexStep, TreeStep, DepthStep, GuardStep DEF IInv

\* Whatever requests are served together, and wherever the process dies: the
\* tree keeps its shape, the lock table stays sound, fsmu is held by exactly
\* the request that is between two of its sections, and every request that is
\* about to act has the tokens its checks asked for.
THEOREM Inductive == Spec => []IInv
<1>. QED
  BY IInvInit, IInvStep, PTL DEF Spec

\* The types, for any requests and any driver: no sequence of writes, however
\* they fail, leaves a member without its directory, or the root a file
\* (write.go:109-129, 153-178, 194-265, 384-499).
THEOREM TypeCorrect == Spec => []TypeOK
<1>1. IInv => TypeOK
  <2>. SUFFICES ASSUME IInv PROVE TypeOK
    OBVIOUS
  <2>1. ASSUME NEW c \in Client
        PROVE  req[c].pc \in PCs /\ (~At(c, "idle") => Call(c) \in Calls) /\ known[c] \subseteq issued
    <3>1. known[c] \subseteq issued
      BY DEF IInv, TypeInv
    <3>2. CASE req[c].pc = "idle"
      BY <3>1, <3>2 DEF At, PCs
    <3>3. CASE req[c].pc # "idle"
      BY <3>1, <3>3, InFlightIs DEF IInv, PCFits
    <3>. QED
      BY <3>2, <3>3
  <2>. QED
    BY <2>1 DEF IInv, TypeInv, MutexInv, TreeInv, Sound, TypedTable, TypeOK
<1>. QED
  BY <1>1, Inductive, PTL

\* A request that is about to act holds the token of every lock that covers
\* what it names and was granted before it arrived (write.go:55, 94, 109,
\* 371-381), however many requests come between its check and its act.
THEOREM WithinLocks == Spec => []ActsWithinLocks
<1>1. IInv => ActsWithinLocks
  BY DEF IInv, GuardInv, Guarded, ActsWithinLocks
<1>. QED
  BY <1>1, Inductive, PTL

\* A request that the handler itself refuses has not touched the tree: every
\* question of write.go is asked before the first change.
THEOREM RefusalsAreClean == Spec => []RefusalsChangeNothing
<1>1. IInv => RefusalsChangeNothing
  <2>. SUFFICES ASSUME IInv, NEW c \in Client, req[c].pc = "answered",
                       Call(c).method # "LOCK", req[c].status \in Refusals
                PROVE  ~req[c].touched
    BY DEF RefusalsChangeNothing, At, Refusals
  <2>1. RequestOK(req[c], issued) /\ req[c] # Idle
    BY DEF IInv, TypeInv, Idle
  <2>. QED
    BY <2>1 DEF RequestOK, Call
<1>. QED
  BY <1>1, Inductive, PTL

\* A lock in force goes only when it is unlocked, when the process dies, or
\* when its resource is gone (lock.go:254-282): fsmu is held from the removal
\* to the release, so nobody puts the resource back in between.
THEOREM ReleaseIsRight == Spec => ReleasedOnlyWhenGone
<1>1. IInv /\ [Next]_vars => [ReleasesOnlyGone]_vars
  BY NextReleases DEF IInv
<1>. QED
  BY <1>1, Inductive, PTL DEF Spec, ReleasedOnlyWhenGone

\* No lock is left on a name that a request has emptied (lock.go:267-270,
\* write.go:202-204, 353-358, 390-398).
THEOREM LocksFollow == Spec => LocksGoWithTheirResource
<1> DEFINE Kept == /\ \A c \in Client : SourceReleased(c) /\ DestinationReleased(c)
                   /\ \A t \in DOMAIN Swept.byToken : TakenWithItsLock(table.byToken[t].path)
<1>1. IInv /\ [Next]_vars => [Kept]_vars
  BY NextCleans, NextTakes DEF IInv
<1>2. Spec => [][Kept]_vars
  <2>. HIDE DEF Kept
  <2>. QED
    BY <1>1, Inductive, PTL DEF Spec
<1>. QED
  BY <1>2 DEF LocksGoWithTheirResource

\* A 207 tells what is left, not what is gone (write.go:208-265, 442-499),
\* whatever the driver fails on: of a removal, every member named is still
\* there, none is derived from another, and all that is left has a row, or is
\* above or beneath one; of a COPY, all is there that is not beneath a row.
THEOREM RowsAreRight == Spec => RowsTellWhatIsLeft
<1> DEFINE Told == \A c \in Client : RowsTell(c)
<1>1. IInv /\ [Next]_vars => [Told]_vars
  BY NextTells DEF IInv
<1>2. Spec => [][Told]_vars
  <2>. HIDE DEF Told
  <2>. QED
    BY <1>1, Inductive, PTL DEF Spec
<1>. QED
  BY <1>2 DEF RowsTellWhatIsLeft

=============================================================================
