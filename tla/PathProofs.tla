----------------------------- MODULE PathProofs -----------------------------
(***************************************************************************)
(* Lemmas about the path algebra of path.go: under is an order in which    *)
(* the ancestors of a path are a chain, parentOf is the last of them, and  *)
(* a rebased subtree is the same tree in another place.                    *)
(***************************************************************************)
EXTENDS Paths, SequenceTheorems, WellFoundedInduction, TLAPS

LEMMA UnderReflexive ==
    ASSUME NEW S, NEW p \in Seq(S)
    PROVE  Under(p, p)
  BY LenProperties DEF Under

LEMMA UnderTransitive ==
    ASSUME NEW S, NEW p \in Seq(S), NEW q \in Seq(S), NEW r \in Seq(S),
           Under(p, q), Under(q, r)
    PROVE  Under(p, r)
<1>1. Len(p) \in Nat /\ Len(q) \in Nat /\ Len(r) \in Nat
  BY LenProperties
<1>. QED
  BY <1>1 DEF Under

LEMMA UnderAntisymmetric ==
    ASSUME NEW S, NEW p \in Seq(S), NEW q \in Seq(S), Under(p, q), Under(q, p)
    PROVE  p = q
<1>1. Len(p) \in Nat /\ Len(q) \in Nat
  BY LenProperties
<1>2. Len(p) = Len(q)
  BY <1>1 DEF Under
<1>3. \A i \in 1..Len(p) : p[i] = q[i]
  BY DEF Under
<1>. QED
  BY <1>2, <1>3, SeqEqual

LEMMA UnderShorter ==
    ASSUME NEW S, NEW p \in Seq(S), NEW q \in Seq(S), StrictlyUnder(p, q)
    PROVE  Len(p) < Len(q)
<1>1. Len(p) \in Nat /\ Len(q) \in Nat
  BY LenProperties
<1>2. ASSUME Len(p) = Len(q) PROVE FALSE
  BY <1>2, SeqEqual DEF StrictlyUnder, Under
<1>. QED
  BY <1>1, <1>2 DEF StrictlyUnder, Under

\* Two ancestors of one path are ancestors of each other.
LEMMA AncestorsComparable ==
    ASSUME NEW S, NEW p \in Seq(S), NEW q \in Seq(S), NEW r \in Seq(S),
           Under(q, p), Under(r, p)
    PROVE  Under(q, r) \/ Under(r, q)
<1>1. /\ Len(q) \in Nat /\ Len(r) \in Nat /\ Len(p) \in Nat
  BY LenProperties
<1>2. CASE Len(q) <= Len(r)
  BY <1>1, <1>2 DEF Under
<1>3. CASE Len(r) <= Len(q)
  BY <1>1, <1>3 DEF Under
<1>. QED
  BY <1>1, <1>2, <1>3

LEMMA RootAbove ==
    ASSUME NEW S, NEW p \in Seq(S)
    PROVE  Root \in Seq(S) /\ Under(Root, p) /\ (Under(p, Root) => p = Root)
<1>1. Root \in Seq(S) /\ Len(Root) = 0
  BY EmptySeq DEF Root
<1>2. Under(Root, p)
  BY <1>1, LenProperties DEF Under
<1>. QED
  BY <1>1, <1>2, UnderAntisymmetric

\* The prefixes of a path.
LEMMA Prefix ==
    ASSUME NEW S, NEW p \in Seq(S), NEW n \in 0..Len(p)
    PROVE  /\ SubSeq(p, 1, n) \in Seq(S)
           /\ Len(SubSeq(p, 1, n)) = n
           /\ \A i \in 1..n : SubSeq(p, 1, n)[i] = p[i]
           /\ Under(SubSeq(p, 1, n), p)
<1>1. Len(p) \in Nat /\ \A i \in 1..n : p[i] \in S
  BY LenProperties, ElementOfSeq
<1>2. /\ SubSeq(p, 1, n) \in Seq(S)
      /\ Len(SubSeq(p, 1, n)) = IF 1 <= n THEN n - 1 + 1 ELSE 0
      /\ \A i \in 1..n - 1 + 1 : SubSeq(p, 1, n)[i] = p[1 + i - 1]
  BY <1>1, SubSeqProperties
<1>3. /\ Len(SubSeq(p, 1, n)) = n
      /\ \A i \in 1..n : SubSeq(p, 1, n)[i] = p[i]
  BY <1>1, <1>2
<1>. QED
  BY <1>1, <1>2, <1>3 DEF Under

\* The ancestors of a path but the last are those of its parent.
LEMMA ParentIsLast ==
    ASSUME NEW S, NEW p \in Seq(S), p # Root
    PROVE  /\ ParentOf(p) \in Seq(S)
           /\ StrictlyUnder(ParentOf(p), p)
           /\ \A q \in Seq(S) : StrictlyUnder(q, p) => Under(q, ParentOf(p))
<1>1. Len(p) \in Nat /\ Len(p) # 0
  BY LenProperties, EmptySeq DEF Root
<1>2. Len(p) - 1 \in 0..Len(p)
  BY <1>1
<1> DEFINE up == SubSeq(p, 1, Len(p) - 1)
<1>3. /\ up \in Seq(S) /\ Len(up) = Len(p) - 1 /\ Under(up, p)
      /\ \A i \in 1..Len(p) - 1 : up[i] = p[i]
  BY <1>2, Prefix
<1>4. ParentOf(p) = up
  BY DEF ParentOf
<1>5. up # p
  BY <1>1, <1>3
<1>6. ASSUME NEW q \in Seq(S), StrictlyUnder(q, p)
      PROVE  Under(q, up)
  <2>1. Len(q) \in Nat /\ Len(q) < Len(p)
    BY <1>6, UnderShorter, LenProperties
  <2>. HIDE DEF up
  <2>. QED
    BY <1>1, <1>3, <1>6, <2>1 DEF StrictlyUnder, Under
<1>. QED
  BY <1>3, <1>4, <1>5, <1>6 DEF StrictlyUnder

-----------------------------------------------------------------------------
\* What a rebased path is, component by component.
LEMMA RebaseIs ==
    ASSUME NEW S, NEW src \in Seq(S), NEW dst \in Seq(S), NEW q \in Seq(S),
           Under(src, q)
    PROVE  /\ Rebase(src, dst, q) \in Seq(S)
           /\ Len(Rebase(src, dst, q)) = Len(dst) + Len(q) - Len(src)
           /\ \A i \in 1..Len(Rebase(src, dst, q)) :
                 Rebase(src, dst, q)[i] = IF i <= Len(dst) THEN dst[i]
                                          ELSE q[i - Len(dst) + Len(src)]
<1> DEFINE tail == SubSeq(q, Len(src) + 1, Len(q))
<1>1. /\ Len(src) \in Nat /\ Len(dst) \in Nat /\ Len(q) \in Nat /\ Len(src) <= Len(q)
      /\ \A i \in 1..Len(q) : q[i] \in S
  BY LenProperties, ElementOfSeq DEF Under
<1>2. /\ tail \in Seq(S)
      /\ Len(tail) = IF Len(src) + 1 <= Len(q) THEN Len(q) - (Len(src) + 1) + 1 ELSE 0
      /\ \A i \in 1..Len(q) - (Len(src) + 1) + 1 : tail[i] = q[(Len(src) + 1) + i - 1]
  <2>1. Len(src) + 1 \in Int /\ Len(q) \in Int /\ \A i \in Len(src) + 1..Len(q) : q[i] \in S
    BY <1>1
  <2>. QED
    BY <2>1, SubSeqProperties
<1>. HIDE DEF tail
<1>3. Len(tail) = Len(q) - Len(src) /\ \A i \in 1..Len(q) - Len(src) : tail[i] = q[Len(src) + i]
  BY <1>1, <1>2
<1>4. /\ dst \o tail \in Seq(S)
      /\ Len(dst \o tail) = Len(dst) + Len(tail)
      /\ \A i \in 1..Len(dst) + Len(tail) :
            (dst \o tail)[i] = IF i <= Len(dst) THEN dst[i] ELSE tail[i - Len(dst)]
  BY <1>2, ConcatProperties
<1>5. Rebase(src, dst, q) = dst \o tail
  BY DEF Rebase, tail
<1> DEFINE r == dst \o tail
<1>. HIDE DEF r
<1>6. ASSUME NEW i \in 1..Len(r)
      PROVE  r[i] = IF i <= Len(dst) THEN dst[i] ELSE q[i - Len(dst) + Len(src)]
  <2>1. r[i] = IF i <= Len(dst) THEN dst[i] ELSE tail[i - Len(dst)]
    BY <1>4 DEF r
  <2>2. ASSUME ~(i <= Len(dst)) PROVE tail[i - Len(dst)] = q[i - Len(dst) + Len(src)]
    <3>1. /\ i - Len(dst) \in 1..Len(q) - Len(src)
          /\ Len(src) + (i - Len(dst)) = i - Len(dst) + Len(src)
      BY <1>1, <1>3, <1>4, <2>2 DEF r
    <3>. QED
      BY <1>3, <3>1
  <2>. QED
    BY <2>1, <2>2
<1>. QED
  BY <1>1, <1>3, <1>4, <1>5, <1>6 DEF r

LEMMA RebaseUnder ==
    ASSUME NEW S, NEW src \in Seq(S), NEW dst \in Seq(S), NEW q \in Seq(S),
           Under(src, q)
    PROVE  Rebase(src, dst, q) \in Seq(S) /\ Under(dst, Rebase(src, dst, q))
<1> DEFINE r == Rebase(src, dst, q)
<1>1. /\ Len(src) \in Nat /\ Len(dst) \in Nat /\ Len(q) \in Nat /\ Len(src) <= Len(q)
  BY LenProperties DEF Under
<1>2. /\ r \in Seq(S)
      /\ Len(r) = Len(dst) + Len(q) - Len(src)
      /\ \A i \in 1..Len(r) : r[i] = IF i <= Len(dst) THEN dst[i]
                                     ELSE q[i - Len(dst) + Len(src)]
  BY RebaseIs
<1>. HIDE DEF r
<1>3. Len(dst) <= Len(r) /\ \A i \in 1..Len(dst) : dst[i] = r[i]
  BY <1>1, <1>2
<1>4. Under(dst, r)
  BY <1>3 DEF Under
<1>. QED
  BY <1>2, <1>4 DEF r

\* Rebasing back is the identity.
LEMMA RebaseInverse ==
    ASSUME NEW S, NEW src \in Seq(S), NEW dst \in Seq(S), NEW q \in Seq(S),
           Under(src, q)
    PROVE  Rebase(dst, src, Rebase(src, dst, q)) = q
<1> DEFINE r == Rebase(src, dst, q)
           b == Rebase(dst, src, r)
<1>1. /\ Len(src) \in Nat /\ Len(dst) \in Nat /\ Len(q) \in Nat /\ Len(src) <= Len(q)
      /\ \A i \in 1..Len(src) : src[i] = q[i]
  BY LenProperties DEF Under
<1>2. /\ Len(r) = Len(dst) + Len(q) - Len(src)
      /\ \A i \in 1..Len(r) : r[i] = IF i <= Len(dst) THEN dst[i]
                                     ELSE q[i - Len(dst) + Len(src)]
  BY RebaseIs
<1>3. r \in Seq(S) /\ Under(dst, r)
  BY RebaseUnder
<1>. HIDE DEF r
<1>4. /\ b \in Seq(S)
      /\ Len(b) = Len(src) + Len(r) - Len(dst)
      /\ \A i \in 1..Len(b) : b[i] = IF i <= Len(src) THEN src[i]
                                     ELSE r[i - Len(src) + Len(dst)]
  BY <1>3, RebaseIs
<1>. HIDE DEF b
<1>5. Len(b) = Len(q)
  BY <1>1, <1>2, <1>4
<1>6. ASSUME NEW i \in 1..Len(q) PROVE b[i] = q[i]
  <2>1. CASE i <= Len(src)
    BY <1>1, <1>4, <1>5, <2>1
  <2>2. CASE ~(i <= Len(src))
    <3>1. /\ i - Len(src) + Len(dst) \in 1..Len(r)
          /\ ~(i - Len(src) + Len(dst) <= Len(dst))
          /\ i - Len(src) + Len(dst) - Len(dst) + Len(src) = i
      BY <1>1, <1>2, <2>2
    <3>2. b[i] = r[i - Len(src) + Len(dst)]
      BY <1>4, <1>5, <2>2
    <3>. DEFINE j == i - Len(src) + Len(dst)
    <3>3. j \in 1..Len(r) /\ ~(j <= Len(dst)) /\ j - Len(dst) + Len(src) = i /\ b[i] = r[j]
      BY <3>1, <3>2
    <3>. HIDE DEF j
    <3>4. r[j] = q[j - Len(dst) + Len(src)]
      BY <1>2, <3>3
    <3>. QED
      BY <3>3, <3>4
  <2>. QED
    BY <2>1, <2>2
<1>. QED
  BY <1>4, <1>5, <1>6, SeqEqual DEF b, r

\* An ancestor is a prefix.
LEMMA AncestorIsPrefix ==
    ASSUME NEW S, NEW p \in Seq(S), NEW q \in Seq(S), Under(p, q)
    PROVE  Len(p) \in 0..Len(q) /\ p = SubSeq(q, 1, Len(p))
<1>1. Len(p) \in 0..Len(q)
  BY LenProperties DEF Under
<1>2. /\ SubSeq(q, 1, Len(p)) \in Seq(S)
      /\ Len(SubSeq(q, 1, Len(p))) = Len(p)
      /\ \A i \in 1..Len(p) : SubSeq(q, 1, Len(p))[i] = q[i]
  BY <1>1, Prefix
<1>3. \A i \in 1..Len(p) : p[i] = SubSeq(q, 1, Len(p))[i]
  BY <1>2 DEF Under
<1>. QED
  BY <1>1, <1>2, <1>3, SeqEqual

\* What lies between dst and a rebased path is a rebased path.
LEMMA RebaseBetween ==
    ASSUME NEW S, NEW src \in Seq(S), NEW dst \in Seq(S), NEW q \in Seq(S),
           NEW p \in Seq(S), Under(src, q), Under(dst, p), Under(p, Rebase(src, dst, q))
    PROVE  /\ Rebase(dst, src, p) \in Seq(S)
           /\ Under(src, Rebase(dst, src, p)) /\ Under(Rebase(dst, src, p), q)
           /\ p = Rebase(src, dst, Rebase(dst, src, p))
<1> DEFINE r == Rebase(src, dst, q)
           b == Rebase(dst, src, p)
<1>1. /\ Len(src) \in Nat /\ Len(dst) \in Nat /\ Len(q) \in Nat /\ Len(p) \in Nat
      /\ Len(src) <= Len(q) /\ Len(dst) <= Len(p)
      /\ \A i \in 1..Len(src) : src[i] = q[i]
  BY LenProperties DEF Under
<1>2. /\ Len(r) = Len(dst) + Len(q) - Len(src)
      /\ \A i \in 1..Len(r) : r[i] = IF i <= Len(dst) THEN dst[i]
                                     ELSE q[i - Len(dst) + Len(src)]
  BY RebaseIs
<1>3. Len(p) <= Len(r) /\ \A i \in 1..Len(p) : p[i] = r[i]
  BY DEF Under
<1>. HIDE DEF r
<1>4. /\ Len(b) = Len(src) + Len(p) - Len(dst)
      /\ \A i \in 1..Len(b) : b[i] = IF i <= Len(src) THEN src[i]
                                     ELSE p[i - Len(src) + Len(dst)]
  BY RebaseIs
<1>5. b \in Seq(S) /\ Under(src, b)
  BY RebaseUnder
<1>6. p = Rebase(src, dst, b)
  BY RebaseInverse
<1>. HIDE DEF b
<1>7. ASSUME NEW i \in 1..Len(b) PROVE b[i] = q[i]
  <2>1. CASE i <= Len(src)
    BY <1>1, <1>4, <2>1
  <2>2. CASE ~(i <= Len(src))
    <3> DEFINE j == i - Len(src) + Len(dst)
    <3>1. /\ j \in 1..Len(p) /\ j \in 1..Len(r) /\ ~(j <= Len(dst))
          /\ j - Len(dst) + Len(src) = i
      BY <1>1, <1>2, <1>3, <1>4, <2>2
    <3>2. b[i] = p[j]
      BY <1>4, <2>2
    <3>. HIDE DEF j
    <3>. QED
      BY <1>2, <1>3, <3>1, <3>2
  <2>. QED
    BY <2>1, <2>2
<1>8. Under(b, q)
  BY <1>1, <1>2, <1>3, <1>4, <1>7 DEF Under
<1>. QED
  BY <1>5, <1>6, <1>8 DEF b

\* The next step on the way down from q to r.
LEMMA NextOnTheWay ==
    ASSUME NEW S, NEW q \in Seq(S), NEW r \in Seq(S), StrictlyUnder(q, r)
    PROVE  \E k \in Seq(S) : k # q /\ ParentOf(k) = q /\ Under(k, r)
<1>1. Len(q) \in Nat /\ Len(r) \in Nat /\ Len(q) < Len(r)
  BY UnderShorter, LenProperties
<1>2. PICK n \in 0..Len(r) : n = Len(q) + 1
  BY <1>1
<1> DEFINE k == SubSeq(r, 1, n)
<1>3. /\ k \in Seq(S) /\ Len(k) = n /\ Under(k, r)
      /\ \A i \in 1..n : k[i] = r[i]
  BY Prefix
<1>. HIDE DEF k
<1>4. k # Root /\ k # q
  BY <1>1, <1>2, <1>3, EmptySeq DEF Root
<1>5. ParentOf(k) = SubSeq(k, 1, Len(q))
  BY <1>1, <1>2, <1>3, <1>4 DEF ParentOf
<1>6. /\ Len(SubSeq(k, 1, Len(q))) = Len(q) /\ SubSeq(k, 1, Len(q)) \in Seq(S)
      /\ \A i \in 1..Len(q) : SubSeq(k, 1, Len(q))[i] = k[i]
  <2>1. Len(q) \in 0..Len(k)
    BY <1>1, <1>2, <1>3
  <2>. QED
    BY <1>3, <2>1, Prefix
<1>7. \A i \in 1..Len(q) : k[i] = q[i]
  BY <1>1, <1>2, <1>3 DEF StrictlyUnder, Under
<1>8. SubSeq(k, 1, Len(q)) = q
  BY <1>6, <1>7, SeqEqual
<1>. QED
  BY <1>3, <1>4, <1>5, <1>8

\* Rebasing keeps the order.
LEMMA RebaseMonotone ==
    ASSUME NEW S, NEW src \in Seq(S), NEW dst \in Seq(S), NEW p \in Seq(S), NEW q \in Seq(S),
           Under(src, p), Under(p, q)
    PROVE  Under(Rebase(src, dst, p), Rebase(src, dst, q))
<1> DEFINE a == Rebase(src, dst, p)
           b == Rebase(src, dst, q)
<1>1. Under(src, q)
  BY UnderTransitive
<1>2. /\ Len(src) \in Nat /\ Len(dst) \in Nat /\ Len(p) \in Nat /\ Len(q) \in Nat
      /\ Len(src) <= Len(p) /\ Len(p) <= Len(q)
      /\ \A i \in 1..Len(p) : p[i] = q[i]
  BY LenProperties DEF Under
<1>3. /\ Len(a) = Len(dst) + Len(p) - Len(src)
      /\ \A i \in 1..Len(a) : a[i] = IF i <= Len(dst) THEN dst[i]
                                     ELSE p[i - Len(dst) + Len(src)]
  BY RebaseIs
<1>4. /\ Len(b) = Len(dst) + Len(q) - Len(src)
      /\ \A i \in 1..Len(b) : b[i] = IF i <= Len(dst) THEN dst[i]
                                     ELSE q[i - Len(dst) + Len(src)]
  BY <1>1, RebaseIs
<1>. HIDE DEF a, b
<1>5. Len(a) <= Len(b)
  BY <1>2, <1>3, <1>4
<1>6. ASSUME NEW i \in 1..Len(a) PROVE a[i] = b[i]
  <2>1. i \in 1..Len(b)
    BY <1>2, <1>3, <1>4, <1>5
  <2>2. ASSUME ~(i <= Len(dst)) PROVE i - Len(dst) + Len(src) \in 1..Len(p)
    BY <1>2, <1>3, <2>2
  <2>. DEFINE j == i - Len(dst) + Len(src)
  <2>3. ~(i <= Len(dst)) => p[j] = q[j]
    BY <1>2, <2>2
  <2>4. a[i] = IF i <= Len(dst) THEN dst[i] ELSE p[j]
    BY <1>3
  <2>5. b[i] = IF i <= Len(dst) THEN dst[i] ELSE q[j]
    BY <1>4, <2>1
  <2>. HIDE DEF j
  <2>. QED
    BY <2>3, <2>4, <2>5
<1>. QED
  BY <1>5, <1>6 DEF Under, a, b

-----------------------------------------------------------------------------
(* Of any set of numbers there is a least: what an induction over the       *)
(* length of paths comes to.                                                *)

LEMMA LeastNumber ==
    ASSUME NEW T, T \subseteq Nat, T # {}
    PROVE  \E m \in T : \A k \in T : m <= k
<1> DEFINE R == {ss \in Nat \X Nat : ss[1] < ss[2]}
<1>1. R = OpToRel(<, Nat)
  BY DEF OpToRel
<1>2. IsWellFoundedOn(R, Nat)
  BY <1>1, NatLessThanWellFounded, Zenon
<1>3. PICK m \in T : \A k \in T : << k, m >> \notin R
  BY <1>2, WFMin
<1>4. ASSUME NEW k \in T PROVE m <= k
  <2>1. k \in Nat /\ m \in Nat /\ << k, m >> \notin R
    BY <1>3
  <2>. QED
    BY <2>1
<1>. QED
  BY <1>4

\* Of a set of paths, one of the shortest; when none is longer than n, one of
\* the longest.
LEMMA Shortest ==
    ASSUME NEW S, NEW T, T \subseteq Seq(S), T # {}
    PROVE  \E p \in T : \A q \in T : Len(p) <= Len(q)
<1> DEFINE lengths == {Len(p) : p \in T}
<1>1. lengths \subseteq Nat /\ lengths # {}
  BY LenProperties
<1>2. PICK m \in lengths : \A k \in lengths : m <= k
  BY <1>1, LeastNumber
<1>. QED
  BY <1>2

LEMMA Longest ==
    ASSUME NEW S, NEW T, T \subseteq Seq(S), T # {},
           NEW n \in Nat, \A p \in T : Len(p) <= n
    PROVE  \E p \in T : \A q \in T : Len(q) <= Len(p)
<1> DEFINE slack == {n - Len(p) : p \in T}
<1>1. \A p \in T : Len(p) \in Nat /\ n - Len(p) \in Nat
  BY LenProperties
<1>2. slack \subseteq Nat /\ slack # {}
  BY <1>1
<1>3. PICK m \in slack : \A k \in slack : m <= k
  BY <1>2, LeastNumber
<1>4. PICK p \in T : m = n - Len(p)
  BY <1>3
<1>5. \A q \in T : n - Len(p) <= n - Len(q)
  BY <1>3, <1>4
<1>. QED
  BY <1>1, <1>4, <1>5

=============================================================================
