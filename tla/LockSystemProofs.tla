-------------------------- MODULE LockSystemProofs --------------------------
(***************************************************************************)
(* Lemmas about the lock table as a value.  Every method but create leaves *)
(* a part of the table it found (after the sweep), so most of them reduce  *)
(* to one lemma about such parts; create is the one that has to ask        *)
(* conflict.                                                               *)
(***************************************************************************)
EXTENDS LockSystem, PathProofs, FiniteSetTheorems

\* The part of a table that holds the locks of the tokens in S.
Part(tb, S) ==
    [byToken |-> Restrict(tb.byToken, S),
     byPath  |-> Restrict(tb.byPath, {p \in DOMAIN tb.byPath : tb.byPath[p] \in S})]

Sound(tb) == TypedTable(tb) /\ Agree(tb) /\ Excluding(tb)

-----------------------------------------------------------------------------
\* Any part of a sound table is sound.
LEMMA PartSound ==
    ASSUME NEW tb, Sound(tb), NEW S \in SUBSET DOMAIN tb.byToken
    PROVE  /\ Sound(Part(tb, S))
           /\ DOMAIN Part(tb, S).byToken = S
           /\ \A t \in S : Part(tb, S).byToken[t] = tb.byToken[t]
           /\ \A p \in DOMAIN tb.byPath : p \in DOMAIN Part(tb, S).byPath <=> tb.byPath[p] \in S
           /\ \A p \in DOMAIN Part(tb, S).byPath : /\ p \in DOMAIN tb.byPath
                                                   /\ Part(tb, S).byPath[p] = tb.byPath[p]
<1> DEFINE part == Part(tb, S)
           kept == {p \in DOMAIN tb.byPath : tb.byPath[p] \in S}
<1>1. /\ DOMAIN part.byToken = S
      /\ DOMAIN part.byPath = kept
      /\ \A t \in S : part.byToken[t] = tb.byToken[t]
      /\ \A p \in kept : part.byPath[p] = tb.byPath[p]
  BY DEF Part, Restrict
<1>2. TypedTable(part)
  <2>1. \A t \in S : tb.byToken[t] \in LockInfo
    BY DEF Sound, TypedTable
  <2>2. \A p \in kept : tb.byPath[p] \in Token
    BY DEF Sound, TypedTable
  <2>3. S \subseteq Token /\ kept \subseteq Resource
    BY DEF Sound, TypedTable
  <2>. QED
    BY <1>1, <2>1, <2>2, <2>3 DEF TypedTable, Part, Restrict
<1>3. Agree(part)
  BY <1>1 DEF Sound, Agree
<1>4. Excluding(part)
  BY <1>1 DEF Sound, Excluding
<1>. QED
  BY <1>1, <1>2, <1>3, <1>4 DEF Sound

\* A sweep keeps exactly the locks that have not expired.
LEMMA SweepIsPart ==
    ASSUME NEW tb, Sound(tb), NEW time
    PROVE  Sweep(tb, time) = Part(tb, DOMAIN tb.byToken \ Expired(tb, time))
<1> DEFINE gone == Expired(tb, time)
<1>1. gone \subseteq DOMAIN tb.byToken
  BY DEF Expired
<1>2. DOMAIN tb.byPath \ {tb.byToken[t].path : t \in gone}
        = {p \in DOMAIN tb.byPath : tb.byPath[p] \in DOMAIN tb.byToken \ gone}
  BY <1>1 DEF Sound, Agree
<1>. QED
  BY <1>2 DEF Sweep, Part, Drop

\* An unlock of the token that holds path p keeps every other lock.
LEMMA UnlockIsPart ==
    ASSUME NEW tb, Sound(tb), NEW p, NEW t, Refreshable(tb, p, {t}) # {}
    PROVE  Unlock(tb, p, t) = Part(tb, DOMAIN tb.byToken \ {t})
<1>1. t \in DOMAIN tb.byToken /\ tb.byToken[t].path = p
  BY DEF Refreshable
<1>2. DOMAIN tb.byPath \ {p}
        = {q \in DOMAIN tb.byPath : tb.byPath[q] \in DOMAIN tb.byToken \ {t}}
  BY <1>1 DEF Sound, Agree
<1>. QED
  BY <1>2 DEF Unlock, Part, Drop

\* A released tree takes with it exactly the locks at or under it.
LEMMA ReleaseIsPart ==
    ASSUME NEW tb, Sound(tb), NEW p
    PROVE  ReleaseTree(tb, p)
             = Part(tb, {t \in DOMAIN tb.byToken : ~Under(p, tb.byToken[t].path)})
<1> DEFINE gone == {q \in DOMAIN tb.byPath : Under(p, q)}
           kept == {t \in DOMAIN tb.byToken : ~Under(p, tb.byToken[t].path)}
<1>1. DOMAIN tb.byToken \ {tb.byPath[q] : q \in gone} = kept
  BY DEF Sound, Agree
<1>2. DOMAIN tb.byPath \ gone = {q \in DOMAIN tb.byPath : tb.byPath[q] \in kept}
  BY DEF Sound, Agree
<1>. QED
  BY <1>1, <1>2 DEF ReleaseTree, Part, Drop

-----------------------------------------------------------------------------
\* When conflict finds nothing, the path is not locked, nothing above it is
\* locked to infinity, and nothing beneath it is locked if the request is for
\* depth infinity.
LEMMA NoConflict ==
    ASSUME NEW tb, NEW p, NEW depth, Conflict(tb, p, depth) = {}
    PROVE  /\ p \notin DOMAIN tb.byPath
           /\ LockedAbove(tb, p) = {}
           /\ depth = "infinity" => LockedBelow(tb, p) = {}
  BY DEF Conflict

\* A lock that conflicts with nothing can enter a sound table.
LEMMA InsertSound ==
    ASSUME NEW tb, Sound(tb), NEW p \in Resource, NEW depth \in Depths,
           NEW expiry \in Int, NEW t \in Token \ DOMAIN tb.byToken,
           Conflict(tb, p, depth) = {}
    PROVE  /\ Sound(Insert(tb, t, [path |-> p, depth |-> depth, expiry |-> expiry]))
           /\ DOMAIN Insert(tb, t, [path |-> p, depth |-> depth,
                                    expiry |-> expiry]).byToken
                = DOMAIN tb.byToken \cup {t}
<1> DEFINE lock == [path |-> p, depth |-> depth, expiry |-> expiry]
           new  == Insert(tb, t, lock)
<1>1. /\ new = [byToken |-> new.byToken, byPath |-> new.byPath]
      /\ new.byToken = [u \in DOMAIN tb.byToken \cup {t} |->
                          IF u = t THEN lock ELSE tb.byToken[u]]
      /\ new.byPath = [q \in DOMAIN tb.byPath \cup {p} |->
                          IF q = p THEN t ELSE tb.byPath[q]]
  BY DEF Insert, Put
<1>2. p \notin DOMAIN tb.byPath
  BY NoConflict
<1>3. lock \in LockInfo
  BY DEF LockInfo
<1>4. TypedTable(new)
  <2>1. \A u \in DOMAIN tb.byToken : tb.byToken[u] \in LockInfo
    BY DEF Sound, TypedTable
  <2>2. \A q \in DOMAIN tb.byPath : tb.byPath[q] \in Token
    BY DEF Sound, TypedTable
  <2>3. DOMAIN tb.byToken \subseteq Token /\ DOMAIN tb.byPath \subseteq Resource
    BY DEF Sound, TypedTable
  <2>. HIDE DEF new, lock
  <2>. QED
    BY <1>1, <1>3, <2>1, <2>2, <2>3 DEF TypedTable
<1>5. Agree(new)
  <2>1. \A u \in DOMAIN tb.byToken : tb.byToken[u].path # p
    BY <1>2 DEF Sound, Agree
  <2>2. \A q \in DOMAIN tb.byPath : tb.byPath[q] # t
    BY DEF Sound, Agree
  <2>3. lock.path = p
    OBVIOUS
  <2>. HIDE DEF new, lock
  <2>. QED
    BY <1>1, <2>1, <2>2, <2>3 DEF Sound, Agree
<1>6. Excluding(new)
  <2>1. \A u \in DOMAIN tb.byToken :
           tb.byToken[u].depth = "infinity" => ~StrictlyUnder(tb.byToken[u].path, p)
    BY NoConflict DEF LockedAbove, Sound, Agree
  <2>2. depth = "infinity" =>
           \A u \in DOMAIN tb.byToken : ~StrictlyUnder(p, tb.byToken[u].path)
    BY NoConflict DEF LockedBelow, Sound, Agree
  <2>3. lock.path = p /\ lock.depth = depth
    OBVIOUS
  <2>4. ~StrictlyUnder(p, p)
    BY DEF StrictlyUnder
  <2>. HIDE DEF new, lock
  <2>. QED
    BY <1>1, <2>1, <2>2, <2>3, <2>4 DEF Sound, Excluding
<1>7. DOMAIN new.byToken = DOMAIN tb.byToken \cup {t}
  BY <1>1
<1>. QED
  BY <1>4, <1>5, <1>6, <1>7 DEF Sound

\* A refresh changes one expiry and nothing else.
LEMMA ExtendSound ==
    ASSUME NEW tb, Sound(tb), NEW t \in DOMAIN tb.byToken, NEW expiry \in Int
    PROVE  /\ Sound(Extend(tb, t, expiry))
           /\ DOMAIN Extend(tb, t, expiry).byToken = DOMAIN tb.byToken
<1> DEFINE new == Extend(tb, t, expiry)
<1>1. /\ tb.byToken \in [DOMAIN tb.byToken -> LockInfo]
      /\ tb = [byToken |-> tb.byToken, byPath |-> tb.byPath]
  BY DEF Sound, TypedTable
<1>2. new = [byToken |-> [tb.byToken EXCEPT ![t].expiry = expiry], byPath |-> tb.byPath]
  BY <1>1 DEF Extend
<1>3. /\ DOMAIN new.byToken = DOMAIN tb.byToken
      /\ new.byPath = tb.byPath
      /\ \A u \in DOMAIN tb.byToken :
            /\ new.byToken[u] \in LockInfo
            /\ new.byToken[u].path = tb.byToken[u].path
            /\ new.byToken[u].depth = tb.byToken[u].depth
  BY <1>1, <1>2 DEF LockInfo
<1>4. TypedTable(new)
  <2>1. new.byToken \in [DOMAIN tb.byToken -> LockInfo]
    BY <1>1, <1>2 DEF LockInfo
  <2>. QED
    BY <1>2, <1>3, <2>1 DEF Sound, TypedTable
<1>5. Agree(new)
  BY <1>3 DEF Sound, Agree
<1>6. Excluding(new)
  BY <1>3 DEF Sound, Excluding
<1>. QED
  BY <1>3, <1>4, <1>5, <1>6 DEF Sound

-----------------------------------------------------------------------------
\* What a request for a lock runs into.
Blocks(l, p, depth) ==
    Covers(l, p) \/ (depth = "infinity" /\ StrictlyUnder(p, l.path))

\* In a sound table at most one lock covers a path.
LEMMA OneLockCovers ==
    ASSUME NEW tb, Sound(tb), NEW p \in Resource,
           NEW t \in DOMAIN tb.byToken, NEW u \in DOMAIN tb.byToken,
           Covers(tb.byToken[t], p), Covers(tb.byToken[u], p)
    PROVE  t = u
<1> DEFINE q == tb.byToken[t].path
           r == tb.byToken[u].path
<1>1. q \in Resource /\ r \in Resource
  BY DEF Sound, TypedTable, LockInfo
<1>2. /\ q # p => Under(q, p) /\ tb.byToken[t].depth = "infinity"
      /\ r # p => Under(r, p) /\ tb.byToken[u].depth = "infinity"
  BY DEF Covers, StrictlyUnder
<1>3. /\ tb.byToken[t].depth = "infinity" => ~StrictlyUnder(q, r)
      /\ tb.byToken[u].depth = "infinity" => ~StrictlyUnder(r, q)
  BY DEF Sound, Excluding
<1>4. Under(q, p) /\ Under(r, p)
  BY <1>1, <1>2, UnderReflexive, ResourceAssumption
<1>5. Under(q, r) \/ Under(r, q)
  BY <1>1, <1>4, AncestorsComparable, ResourceAssumption
<1>6. q = r
  BY <1>1, <1>2, <1>3, <1>5 DEF StrictlyUnder
<1>. QED
  BY <1>6 DEF Sound, Agree

\* conflict finds nothing exactly when no lock of the table blocks.
LEMMA ConflictFree ==
    ASSUME NEW tb, Sound(tb), NEW p, NEW depth
    PROVE  Conflict(tb, p, depth) = {}
             <=> \A t \in DOMAIN tb.byToken : ~Blocks(tb.byToken[t], p, depth)
<1>1. ASSUME Conflict(tb, p, depth) = {}, NEW t \in DOMAIN tb.byToken
      PROVE  ~Blocks(tb.byToken[t], p, depth)
  BY <1>1, NoConflict
  DEF Sound, Agree, Blocks, Covers, LockedAbove, LockedBelow
<1>2. ASSUME \A t \in DOMAIN tb.byToken : ~Blocks(tb.byToken[t], p, depth)
      PROVE  Conflict(tb, p, depth) = {}
  <2>1. p \notin DOMAIN tb.byPath
    BY <1>2 DEF Sound, Agree, Blocks, Covers
  <2>2. LockedAbove(tb, p) = {}
    BY <1>2 DEF Sound, Agree, Blocks, Covers, LockedAbove
  <2>3. depth = "infinity" => LockedBelow(tb, p) = {}
    BY <1>2 DEF Sound, Agree, Blocks, LockedBelow
  <2>. QED
    BY <2>1, <2>2, <2>3 DEF Conflict
<1>. QED
  BY <1>1, <1>2

\* confirm, which compares one lock, agrees with a look at all of them.
LEMMA ConfirmExact ==
    ASSUME NEW tb, Sound(tb), NEW p \in Resource, NEW tokens
    PROVE  Confirms(tb, p, tokens)
             <=> \A t \in DOMAIN tb.byToken :
                    Covers(tb.byToken[t], p) => t \in tokens
<1>1. CASE p \in DOMAIN tb.byPath
  <2>1. /\ tb.byPath[p] \in DOMAIN tb.byToken
        /\ Covers(tb.byToken[tb.byPath[p]], p)
    BY <1>1 DEF Sound, Agree, Covers
  <2>2. \A t \in DOMAIN tb.byToken :
           Covers(tb.byToken[t], p) => t = tb.byPath[p]
    BY <2>1, OneLockCovers
  <2>3. Conflict(tb, p, "zero") = {tb.byPath[p]}
    BY <1>1 DEF Conflict
  <2>. QED
    BY <2>1, <2>2, <2>3 DEF Confirms
<1>2. CASE p \notin DOMAIN tb.byPath /\ LockedAbove(tb, p) # {}
  <2>1. PICK q \in LockedAbove(tb, p) : TRUE
    BY <1>2
  <2>2. \A r \in LockedAbove(tb, p) :
           /\ tb.byPath[r] \in DOMAIN tb.byToken
           /\ Covers(tb.byToken[tb.byPath[r]], p)
           /\ tb.byToken[tb.byPath[r]].path = r
    BY DEF LockedAbove, Sound, Agree, Covers
  <2>3. \A t \in DOMAIN tb.byToken :
           Covers(tb.byToken[t], p) => t = tb.byPath[q]
    BY <2>1, <2>2, OneLockCovers
  <2>4. LockedAbove(tb, p) = {q}
    BY <2>1, <2>2, <2>3
  <2>5. Nearest(LockedAbove(tb, p)) = q
    BY <2>4 DEF Nearest
  <2>6. Conflict(tb, p, "zero") = {tb.byPath[q]}
    BY <1>2, <2>5 DEF Conflict
  <2>. QED
    BY <2>1, <2>2, <2>3, <2>6 DEF Confirms
<1>3. CASE p \notin DOMAIN tb.byPath /\ LockedAbove(tb, p) = {}
  <2>1. Conflict(tb, p, "zero") = {}
    BY <1>3 DEF Conflict
  <2>2. \A t \in DOMAIN tb.byToken : ~Covers(tb.byToken[t], p)
    BY <2>1, ConflictFree DEF Blocks
  <2>. QED
    BY <2>1, <2>2 DEF Confirms
<1>. QED
  BY <1>1, <1>2, <1>3

=============================================================================
