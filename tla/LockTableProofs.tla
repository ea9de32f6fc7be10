-------------------------- MODULE LockTableProofs ---------------------------
(***************************************************************************)
(* Theorems about the lock table as a state machine.  The lemmas about the *)
(* table as a value are LockSystemProofs'.                                 *)
(***************************************************************************)
EXTENDS LockTable, LockSystemProofs

-----------------------------------------------------------------------------
\* The inductive invariant.  TypeOK, IndexesAgree, Exclusive and Bounded are
\* inductive only together: create needs the maps to agree to conclude from
\* byPath that no lock of byToken conflicts.
Inside(tb) ==
    /\ Sound(tb)
    /\ DOMAIN tb.byToken \subseteq issued
    /\ IsFiniteSet(DOMAIN tb.byToken)
    /\ Cardinality(DOMAIN tb.byToken) <= MaxLocks

IInv ==
    /\ Inside(table)
    /\ now \in Nat
    /\ issued \subseteq Token
    /\ answer \in Answers

LEMMA EmptyInside == Inside(EmptyTable)
<1>1. /\ EmptyTable.byToken = << >>
      /\ EmptyTable.byPath = << >>
      /\ EmptyTable = [byToken |-> EmptyTable.byToken, byPath |-> EmptyTable.byPath]
  BY DEF EmptyTable
<1>2. DOMAIN << >> = {}
  OBVIOUS
<1>3. \A R : << >> \in [DOMAIN << >> -> R]
  OBVIOUS
<1>4. IsFiniteSet({}) /\ Cardinality({}) = 0
  BY FS_EmptySet
<1>5. TypedTable(EmptyTable)
  BY <1>1, <1>2, <1>3 DEF TypedTable
<1>6. Agree(EmptyTable) /\ Excluding(EmptyTable)
  BY <1>1, <1>2 DEF Agree, Excluding
<1>. QED
  BY <1>1, <1>2, <1>4, <1>5, <1>6, MaxLocksAssumption DEF Inside, Sound

LEMMA PartInside ==
    ASSUME NEW tb, Inside(tb), NEW S \in SUBSET DOMAIN tb.byToken
    PROVE  Inside(Part(tb, S))
<1>1. Sound(Part(tb, S)) /\ DOMAIN Part(tb, S).byToken = S
  BY PartSound DEF Inside
<1>2. IsFiniteSet(S) /\ Cardinality(S) <= Cardinality(DOMAIN tb.byToken)
  BY FS_Subset DEF Inside
<1>3. Cardinality(S) \in Nat /\ Cardinality(DOMAIN tb.byToken) \in Nat
  BY <1>2, FS_CardinalityType DEF Inside
<1>. QED
  BY <1>1, <1>2, <1>3, MaxLocksAssumption DEF Inside

LEMMA SweptInside ==
    ASSUME IInv
    PROVE  Inside(Swept)
<1>1. DOMAIN table.byToken \ Expired(table, now) \in SUBSET DOMAIN table.byToken
  OBVIOUS
<1>2. Swept = Part(table, DOMAIN table.byToken \ Expired(table, now))
  BY SweepIsPart DEF IInv, Inside, Swept
<1>. QED
  BY <1>1, <1>2, PartInside DEF IInv

\* An answer is one of the answers.
LEMMA AnswerTyped ==
    ASSUME NEW op \in Ops, NEW p \in Resource, NEW depth \in Depths,
           NEW tokens \in SUBSET Token, NEW result \in Results,
           Answer(op, p, depth, tokens, result)
    PROVE  answer' \in Answers
  BY DEF Answer, Answers

\* The invariant holds at the start and every step preserves it.
LEMMA Initial == Init => IInv
<1>. SUFFICES ASSUME Init PROVE IInv
  OBVIOUS
<1>1. Inside(table)
  <2>1. Inside(EmptyTable)
    BY EmptyInside
  <2>. QED
    BY <2>1 DEF Init
<1>2. answer \in Answers
  BY ResourceAssumption DEF Init, Answers, Ops, Results, Depths
<1>. QED
  BY <1>1, <1>2 DEF Init, IInv

\* A step whose table is inside the bounds, and which mints no token,
\* preserves the invariant.
LEMMA Quiet ==
    ASSUME IInv, Inside(table'), UNCHANGED << now, issued >>, answer' \in Answers
    PROVE  IInv'
<1>1. Inside(table)'
  BY DEF Inside
<1>. QED
  BY <1>1 DEF IInv

LEMMA Inductive == IInv /\ [Next]_vars => IInv'
<1>. SUFFICES ASSUME IInv, [Next]_vars PROVE IInv'
  OBVIOUS
<1>. USE DEF Ops, Results, Depths
<1>0. Inside(Swept)
  BY SweptInside
<1>1. ASSUME NEW p \in Resource, NEW depth \in Depths, CreateLocked(p, depth)
      PROVE  IInv'
  BY <1>0, <1>1, AnswerTyped, Quiet DEF CreateLocked
<1>2. ASSUME NEW p \in Resource, NEW depth \in Depths, CreateFull(p, depth)
      PROVE  IInv'
  BY <1>0, <1>2, AnswerTyped, Quiet DEF CreateFull
<1>3. ASSUME NEW p \in Resource, NEW depth \in Depths, CreateNoToken(p, depth)
      PROVE  IInv'
  BY <1>0, <1>3, AnswerTyped, Quiet DEF CreateNoToken
<1>4. ASSUME NEW p \in Resource, NEW depth \in Depths, NEW timeout \in Timeouts,
             NEW t \in Token, CreateGranted(p, depth, timeout, t)
      PROVE  IInv'
  <2>1. /\ Conflict(Swept, p, depth) = {}
        /\ ~IsFull(Swept)
        /\ t \in Token \ DOMAIN Swept.byToken
        /\ now + timeout \in Int
    BY <1>0, <1>4, TimeoutsAssumption DEF CreateGranted, Inside, IInv
  <2>2. /\ Sound(table')
        /\ DOMAIN table'.byToken = DOMAIN Swept.byToken \cup {t}
    BY <1>0, <1>4, <2>1, InsertSound DEF CreateGranted, Inside
  <2>3. /\ IsFiniteSet(DOMAIN table'.byToken)
        /\ Cardinality(DOMAIN table'.byToken) = Cardinality(DOMAIN Swept.byToken) + 1
        /\ Cardinality(DOMAIN Swept.byToken) \in Nat
    BY <1>0, <2>1, <2>2, FS_AddElement, FS_CardinalityType DEF Inside
  <2>4. Cardinality(DOMAIN table'.byToken) <= MaxLocks
    BY <2>1, <2>3, MaxLocksAssumption DEF IsFull
  <2>5. DOMAIN table'.byToken \subseteq issued'
    BY <1>0, <1>4, <2>2 DEF CreateGranted, Inside
  <2>6. answer' \in Answers
    BY <1>4, AnswerTyped DEF CreateGranted
  <2>7. Inside(table)'
    BY <2>2, <2>3, <2>4, <2>5 DEF Inside
  <2>. QED
    BY <1>4, <2>6, <2>7 DEF CreateGranted, IInv
<1>5. ASSUME NEW p \in Resource, NEW tokens \in SUBSET issued,
             NEW timeout \in Timeouts, RefreshGranted(p, tokens, timeout)
      PROVE  IInv'
  <2>1. PICK t \in Refreshable(Swept, p, tokens) :
           table' = Extend(Swept, t, now + timeout)
    BY <1>5 DEF RefreshGranted
  <2>2. t \in DOMAIN Swept.byToken /\ now + timeout \in Int
    BY <2>1, TimeoutsAssumption DEF Refreshable, IInv
  <2>3. Inside(table')
    BY <1>0, <2>1, <2>2, ExtendSound DEF Inside
  <2>4. answer' \in Answers
    BY <1>5, AnswerTyped DEF RefreshGranted, IInv
  <2>. QED
    BY <1>5, <2>3, <2>4, Quiet DEF RefreshGranted
<1>6. ASSUME NEW p \in Resource, NEW tokens \in SUBSET issued,
             RefreshNoSuchLock(p, tokens)
      PROVE  IInv'
  <2>1. answer' \in Answers
    BY <1>6, AnswerTyped DEF RefreshNoSuchLock, IInv
  <2>. QED
    BY <1>0, <1>6, <2>1, Quiet DEF RefreshNoSuchLock
<1>7. ASSUME NEW p \in Resource, NEW t \in issued, UnlockGranted(p, t)
      PROVE  IInv'
  <2>1. table' = Part(Swept, DOMAIN Swept.byToken \ {t})
    BY <1>0, <1>7, UnlockIsPart DEF UnlockGranted, Inside
  <2>2. Inside(table')
    BY <1>0, <2>1, PartInside
  <2>3. answer' \in Answers
    BY <1>7, AnswerTyped DEF UnlockGranted, IInv
  <2>. QED
    BY <1>7, <2>2, <2>3, Quiet DEF UnlockGranted
<1>8. ASSUME NEW p \in Resource, NEW t \in issued, UnlockNoSuchLock(p, t)
      PROVE  IInv'
  <2>1. answer' \in Answers
    BY <1>8, AnswerTyped DEF UnlockNoSuchLock, IInv
  <2>. QED
    BY <1>0, <1>8, <2>1, Quiet DEF UnlockNoSuchLock
<1>9. ASSUME NEW p \in Resource, Release(p)
      PROVE  IInv'
  <2>1. table' = Part(table, {t \in DOMAIN table.byToken :
                                 ~Under(p, table.byToken[t].path)})
    BY <1>9, ReleaseIsPart DEF Release, IInv, Inside
  <2>2. Inside(table')
    BY <2>1, PartInside DEF IInv
  <2>3. answer' \in Answers
    BY <1>9, AnswerTyped DEF Release
  <2>. QED
    BY <1>9, <2>2, <2>3, Quiet DEF Release
<1>10. ASSUME NEW p \in Resource, NEW tokens \in SUBSET issued, Confirm(p, tokens)
       PROVE  IInv'
  <2>1. answer' \in Answers
    BY <1>10, AnswerTyped DEF Confirm, IInv
  <2>. QED
    BY <1>0, <1>10, <2>1, Quiet DEF Confirm
<1>11. ASSUME NEW p \in Resource, Find(p)
       PROVE  IInv'
  <2>1. p \in DOMAIN Swept.byPath => Swept.byPath[p] \in Token
    BY <1>0 DEF Inside, Sound, TypedTable
  <2>2. answer' \in Answers
    BY <1>11, <2>1, AnswerTyped DEF Find
  <2>. QED
    BY <1>0, <1>11, <2>2, Quiet DEF Find
<1>12. CASE Tick
  BY <1>12 DEF Tick, IInv, Inside
<1>13. CASE Restart
  <2>1. answer' \in Answers
    BY <1>13, ResourceAssumption, AnswerTyped DEF Restart
  <2>2. Inside(table')
    BY <1>13, EmptyInside DEF Restart
  <2>. QED
    BY <1>13, <2>1, <2>2, Quiet DEF Restart
<1>14. CASE UNCHANGED vars
  BY <1>14 DEF vars, IInv, Inside
<1>. HIDE DEF Ops, Results, Depths
<1>. QED
  BY <1>1, <1>2, <1>3, <1>4, <1>5, <1>6, <1>7, <1>8, <1>9, <1>10, <1>11, <1>12,
     <1>13, <1>14
  DEF Next, Create, Refresh, UnlockCall

\* What the invariant is for.
LEMMA Implied == IInv => TypeOK /\ IndexesAgree /\ Exclusive /\ Bounded
  BY DEF IInv, Inside, Sound, TypeOK, IndexesAgree, Exclusive, Bounded

LEMMA Invariant == Spec => []IInv
  BY Initial, Inductive, PTL DEF Spec

-----------------------------------------------------------------------------
\* Every reachable lock table is well typed and holds only tokens that were
\* handed out (lock.go:109-128).
THEOREM TypeCorrect == Spec => []TypeOK
  BY Invariant, Implied, PTL

\* No sequence of calls, in whatever order the handlers make them, lets byToken
\* and byPath disagree (lock.go:161-280).
THEOREM IndexesAlwaysAgree == Spec => []IndexesAgree
  BY Invariant, Implied, PTL

\* However many clients, paths, tokens and timeouts there are, no two locks
\* the table holds overlap (lock.go:178-226).
THEOREM AlwaysExclusive == Spec => []Exclusive
  BY Invariant, Implied, PTL

\* The table never outgrows maxLocks (lock.go:208-210).
THEOREM AlwaysBounded == Spec => []Bounded
  BY Invariant, Implied, PTL

-----------------------------------------------------------------------------
(* The lock table of lock.go implements WriteLocks.  A step of the table   *)
(* starts by sweeping, and a sweep does not change the locks in force;     *)
(* what is left to show is that conflict, which looks at one lock at a     *)
(* time, gives the answer a look at every lock in force would give.        *)

\* Both modules speak of the same paths.
LEMMA SamePaths ==
    ASSUME NEW q, NEW p
    PROVE  /\ Promise!Under(q, p) <=> Under(q, p)
           /\ Promise!StrictlyUnder(q, p) <=> StrictlyUnder(q, p)
  BY DEF Promise!Under, Promise!StrictlyUnder, Under, StrictlyUnder

\* And a lock of the table covers and blocks what the promise says it does.
LEMMA SameCovers ==
    ASSUME NEW l, NEW p, NEW depth
    PROVE  /\ Promise!Covers(l, p) <=> Covers(l, p)
           /\ Promise!Blocks(l, p, depth) <=> Blocks(l, p, depth)
  BY SamePaths DEF Promise!Covers, Promise!Blocks, Covers, Blocks

-----------------------------------------------------------------------------
\* The locks of a table none of whose locks has expired.
Entries(tb) == {Entry(tb, t) : t \in DOMAIN tb.byToken}

Current(tb) == \A t \in DOMAIN tb.byToken : now <= tb.byToken[t].expiry

\* What a call starts from: the sweep leaves exactly the locks in force.
LEMMA HeldIsSwept ==
    ASSUME IInv
    PROVE  /\ Sound(Swept)
           /\ Current(Swept)
           /\ Held = Entries(Swept)
<1> DEFINE kept == DOMAIN table.byToken \ Expired(table, now)
<1>1. Sound(table)
  BY DEF IInv, Inside
<1>2. Swept = Part(table, kept)
  BY <1>1, SweepIsPart DEF Swept
<1>3. /\ Sound(Swept)
      /\ DOMAIN Swept.byToken = kept
      /\ \A t \in kept : Swept.byToken[t] = table.byToken[t]
  BY <1>1, <1>2, PartSound
<1>4. \A t \in kept : now <= table.byToken[t].expiry
  BY <1>1 DEF Expired, IInv, Sound, TypedTable, LockInfo
<1>5. Entries(Swept) = Held
  BY <1>3 DEF Entries, Held, Entry
<1>. QED
  BY <1>3, <1>4, <1>5 DEF Current

\* What a call leaves while the clock stands still: the entries of the new
\* table that are in force.  A lock just granted for less than no time is in
\* the table and is not one of them.
LEMMA HeldAfter ==
    ASSUME IInv, Sound(table'), now' = now
    PROVE  Held' = {l \in Entries(table') : Promise!InForce(l, now)}
<1>1. \A t \in DOMAIN table'.byToken :
         /\ Entry(table', t).expiry = table'.byToken[t].expiry
         /\ table'.byToken[t].expiry \in Int
  BY DEF Entry, Sound, TypedTable, LockInfo
<1>2. \A t \in DOMAIN table'.byToken :
         t \notin Expired(table', now) <=> Promise!InForce(Entry(table', t), now)
  BY <1>1 DEF Expired, IInv, Promise!InForce
<1>3. Held' = {Entry(table', t) : t \in DOMAIN table'.byToken \ Expired(table', now)}
  BY DEF Held, Entry, Expired
<1>. QED
  BY <1>2, <1>3 DEF Entries

\* The swept table holds nothing that is not in force.
LEMMA SweptInForce ==
    ASSUME IInv, NEW l \in Entries(Swept)
    PROVE  Promise!InForce(l, now)
  BY HeldIsSwept DEF Entries, Entry, Current, Promise!InForce

\* A call that only sweeps leaves the locks in force as they were.
LEMMA HeldKept ==
    ASSUME IInv, table' = Swept, now' = now
    PROVE  Held' = Held
  BY HeldIsSwept, HeldAfter, SweptInForce

\* There are as many locks in force as tokens in the swept table.
LEMMA HeldCardinality ==
    ASSUME IInv
    PROVE  /\ Cardinality(Held) = Cardinality(DOMAIN Swept.byToken)
           /\ Cardinality(Held) \in Nat
<1> DEFINE toks == DOMAIN Swept.byToken
           f == [t \in toks |-> Entry(Swept, t)]
<1>1. IsFiniteSet(toks)
  BY SweptInside DEF Inside
<1>2. f \in Bijection(toks, Entries(Swept))
  BY DEF Bijection, Injection, Surjection, IsInjective, Entries, Entry
<1>3. Cardinality(Entries(Swept)) = Cardinality(toks)
  BY <1>1, <1>2, FS_Bijection DEF ExistsBijection
<1>. QED
  BY <1>1, <1>3, HeldIsSwept, FS_CardinalityType

\* Whether a lock may be granted.
LEMMA FreeExact ==
    ASSUME IInv, NEW p, NEW depth
    PROVE  /\ Conflict(Swept, p, depth) = {} <=> Promise!Free(p, depth)
           /\ IsFull(Swept) <=> ~Promise!HasRoom
<1>1. Promise!Free(p, depth)
        <=> \A t \in DOMAIN Swept.byToken : ~Promise!Blocks(Swept.byToken[t], p, depth)
  <2>1. \A t \in DOMAIN Swept.byToken :
           Promise!Blocks(Entry(Swept, t), p, depth)
             <=> Promise!Blocks(Swept.byToken[t], p, depth)
    BY DEF Promise!Blocks, Promise!Covers, Entry
  <2>. QED
    BY <2>1, HeldIsSwept DEF Promise!Free, Entries
<1>2. IsFull(Swept) <=> ~Promise!HasRoom
  <2>1. Promise!Cardinality(Held) = Cardinality(Held)
    BY DEF Promise!Cardinality, Cardinality, Promise!IsFiniteSet, IsFiniteSet
  <2>. QED
    BY <2>1, HeldCardinality, MaxLocksAssumption DEF IsFull, Promise!HasRoom
<1>. QED
  BY <1>1, <1>2, HeldIsSwept, ConflictFree, SameCovers

-----------------------------------------------------------------------------
\* The answers are recorded the same way.
LEMMA SameAnswer ==
    ASSUME NEW op, NEW p, NEW depth, NEW tokens, NEW result
    PROVE  Promise!Answer(op, p, depth, tokens, result)
             <=> Answer(op, p, depth, tokens, result)
  BY DEF Promise!Answer, Answer

LEMMA RefinesInit == Init => Promise!Init
<1>. SUFFICES ASSUME Init PROVE Promise!Init
  OBVIOUS
<1>1. DOMAIN table.byToken = {}
  BY DEF Init, EmptyTable
<1>2. Held = {}
  BY <1>1 DEF Held
<1>3. Promise!Root = Root
  BY DEF Promise!Root, Root
<1>. QED
  BY <1>2, <1>3 DEF Init, Promise!Init

\* Every step of the table is a step of the promise, or changes nothing the
\* promise can see.
LEMMA RefinesNext == IInv /\ [Next]_vars => [Promise!Next]_Promise!vars
<1>. SUFFICES ASSUME IInv, [Next]_vars PROVE [Promise!Next]_Promise!vars
  OBVIOUS
<1>0. /\ Sound(Swept) /\ Current(Swept) /\ Held = Entries(Swept)
      /\ issued \subseteq Token
  BY HeldIsSwept DEF IInv
<1>. USE DEF Promise!Depths, Depths
<1>1. ASSUME NEW p \in Resource, NEW depth \in Depths, CreateLocked(p, depth)
      PROVE  Promise!Refuse(p, depth)
  BY <1>1, FreeExact, HeldKept, SameAnswer DEF CreateLocked, Promise!Refuse
<1>2. ASSUME NEW p \in Resource, NEW depth \in Depths, CreateFull(p, depth)
      PROVE  Promise!Refuse(p, depth)
  BY <1>2, FreeExact, HeldKept, SameAnswer DEF CreateFull, Promise!Refuse
<1>3. ASSUME NEW p \in Resource, NEW depth \in Depths, CreateNoToken(p, depth)
      PROVE  Promise!Refuse(p, depth)
  BY <1>3, FreeExact, HeldKept, SameAnswer DEF CreateNoToken, Promise!Refuse
<1>4. ASSUME NEW p \in Resource, NEW depth \in Depths, NEW timeout \in Timeouts,
             NEW t \in Token, CreateGranted(p, depth, timeout, t)
      PROVE  Promise!Grant(p, depth, timeout, t)
  <2> DEFINE lock == [path |-> p, depth |-> depth, expiry |-> now + timeout]
  <2>1. /\ Conflict(Swept, p, depth) = {}
        /\ t \in Token \ DOMAIN Swept.byToken
        /\ now + timeout \in Int
        /\ table' = Insert(Swept, t, lock)
    BY <1>4, SweptInside, TimeoutsAssumption DEF CreateGranted, Inside, IInv
  <2>2. Sound(table') /\ DOMAIN table'.byToken = DOMAIN Swept.byToken \cup {t}
    BY <1>0, <2>1, InsertSound
  <2>3. /\ table'.byToken[t] = lock
        /\ \A u \in DOMAIN Swept.byToken : table'.byToken[u] = Swept.byToken[u]
    BY <2>1 DEF Insert, Put
  <2>5. Held' = {l \in Entries(table') : Promise!InForce(l, now)}
    BY <1>4, <2>2, HeldAfter DEF CreateGranted
  <2>6. Entries(table') = Entries(Swept) \cup
          {[token |-> t, path |-> p, depth |-> depth, expiry |-> now + timeout]}
    <3>1. Entry(table', t)
            = [token |-> t, path |-> p, depth |-> depth, expiry |-> now + timeout]
      BY <2>3 DEF Entry
    <3>2. \A u \in DOMAIN Swept.byToken : Entry(table', u) = Entry(Swept, u)
      BY <2>3 DEF Entry
    <3>. QED
      BY <2>2, <3>1, <3>2 DEF Entries
  <2>7. Held' = Held \cup
          {l \in {[token |-> t, path |-> p, depth |-> depth,
                  expiry |-> now + timeout]} : Promise!InForce(l, now)}
    BY <1>0, <2>5, <2>6, SweptInForce
  <2>. QED
    BY <1>0, <1>4, <2>7, FreeExact, SameAnswer DEF CreateGranted, Promise!Grant
<1>5. ASSUME NEW p \in Resource, NEW tokens \in SUBSET issued,
             NEW timeout \in Timeouts, RefreshGranted(p, tokens, timeout)
      PROVE  Promise!Refresh(p, tokens, timeout)
  <2>1. PICK t \in Refreshable(Swept, p, tokens) :
           table' = Extend(Swept, t, now + timeout)
    BY <1>5 DEF RefreshGranted
  <2>2. /\ t \in DOMAIN Swept.byToken /\ t \in tokens /\ Swept.byToken[t].path = p
        /\ now + timeout \in Int
    BY <2>1, TimeoutsAssumption DEF Refreshable, IInv
  <2>3. Sound(table') /\ DOMAIN table'.byToken = DOMAIN Swept.byToken
    BY <1>0, <2>1, <2>2, ExtendSound
  <2>4. /\ table'.byToken[t] = [Swept.byToken[t] EXCEPT !.expiry = now + timeout]
        /\ \A u \in DOMAIN Swept.byToken \ {t} : table'.byToken[u] = Swept.byToken[u]
    <3>1. /\ Swept.byToken \in [DOMAIN Swept.byToken -> LockInfo]
          /\ Swept = [byToken |-> Swept.byToken, byPath |-> Swept.byPath]
      BY <1>0 DEF Sound, TypedTable
    <3>2. table'.byToken = [Swept.byToken EXCEPT ![t].expiry = now + timeout]
      BY <2>1, <3>1 DEF Extend
    <3>. QED
      BY <2>2, <3>1, <3>2
  <2>5. Swept.byToken[t] \in LockInfo
    BY <1>0, <2>2 DEF Sound, TypedTable
  <2>7. Held' = {l \in Entries(table') : Promise!InForce(l, now)}
    BY <1>5, <2>3, HeldAfter DEF RefreshGranted
  <2>8. Entry(table', t) = [Entry(Swept, t) EXCEPT !.expiry = now + timeout]
    BY <2>4, <2>5 DEF Entry, LockInfo
  <2>9. \A u \in DOMAIN Swept.byToken \ {t} :
           /\ Entry(table', u) = Entry(Swept, u)
           /\ Entry(Swept, u) # Entry(Swept, t)
    BY <2>4 DEF Entry
  <2>10. Entries(table') = (Entries(Swept) \ {Entry(Swept, t)})
           \cup {[Entry(Swept, t) EXCEPT !.expiry = now + timeout]}
    BY <2>2, <2>3, <2>8, <2>9 DEF Entries
  <2>11. /\ Entry(Swept, t) \in Held
         /\ Entry(Swept, t).path = p
         /\ Entry(Swept, t).token \in tokens
    BY <1>0, <2>2 DEF Entries, Entry
  <2>12. Held' = (Held \ {Entry(Swept, t)}) \cup
           {k \in {[Entry(Swept, t) EXCEPT !.expiry = now + timeout]} :
               Promise!InForce(k, now)}
    BY <1>0, <2>7, <2>10, SweptInForce
  <2>. QED
    BY <1>0, <1>5, <2>11, <2>12, SameAnswer DEF RefreshGranted, Promise!Refresh
<1>6. ASSUME NEW p \in Resource, NEW tokens \in SUBSET issued,
             RefreshNoSuchLock(p, tokens)
      PROVE  Promise!RefuseRefresh(p, tokens)
  <2>1. \A l \in Held : ~(l.path = p /\ l.token \in tokens)
    BY <1>0, <1>6 DEF RefreshNoSuchLock, Refreshable, Entries, Entry
  <2>. QED
    BY <1>6, <2>1, HeldKept, SameAnswer DEF RefreshNoSuchLock, Promise!RefuseRefresh
<1>7. ASSUME NEW p \in Resource, NEW t \in issued, UnlockGranted(p, t)
      PROVE  Promise!Unlock(p, t)
  <2>1. t \in DOMAIN Swept.byToken /\ Swept.byToken[t].path = p
    BY <1>7 DEF UnlockGranted, Refreshable
  <2>2. table' = Part(Swept, DOMAIN Swept.byToken \ {t})
    BY <1>0, <1>7, UnlockIsPart DEF UnlockGranted
  <2>3. /\ Sound(table')
        /\ DOMAIN table'.byToken = DOMAIN Swept.byToken \ {t}
        /\ \A u \in DOMAIN Swept.byToken \ {t} : table'.byToken[u] = Swept.byToken[u]
    BY <1>0, <2>2, PartSound
  <2>5. Held' = {l \in Entries(table') : Promise!InForce(l, now)}
    BY <1>7, <2>3, HeldAfter DEF UnlockGranted
  <2>6. \A u \in DOMAIN Swept.byToken \ {t} :
           Entry(table', u) = Entry(Swept, u) /\ Entry(Swept, u) # Entry(Swept, t)
    BY <2>3 DEF Entry
  <2>7. Entries(table') = Entries(Swept) \ {Entry(Swept, t)}
    BY <2>3, <2>6 DEF Entries
  <2>8. /\ Entry(Swept, t) \in Held
        /\ Entry(Swept, t).path = p
        /\ Entry(Swept, t).token = t
    BY <1>0, <2>1 DEF Entries, Entry
  <2>. QED
    BY <1>0, <1>7, <2>5, <2>7, <2>8, SweptInForce, SameAnswer DEF UnlockGranted, Promise!Unlock
<1>8. ASSUME NEW p \in Resource, NEW t \in issued, UnlockNoSuchLock(p, t)
      PROVE  Promise!RefuseUnlock(p, t)
  <2>1. \A l \in Held : ~(l.path = p /\ l.token = t)
    BY <1>0, <1>8 DEF UnlockNoSuchLock, Refreshable, Entries, Entry
  <2>. QED
    BY <1>8, <2>1, HeldKept, SameAnswer DEF UnlockNoSuchLock, Promise!RefuseUnlock
<1>9. ASSUME NEW p \in Resource, Release(p)
      PROVE  Promise!Release(p)
  <2> DEFINE kept == {t \in DOMAIN table.byToken : ~Under(p, table.byToken[t].path)}
  <2>1. Sound(table) /\ kept \in SUBSET DOMAIN table.byToken
    BY DEF IInv, Inside
  <2>2. table' = Part(table, kept)
    BY <1>9, <2>1, ReleaseIsPart DEF Release
  <2>3. /\ DOMAIN table'.byToken = kept
        /\ \A t \in kept : table'.byToken[t] = table.byToken[t]
    BY <2>1, <2>2, PartSound
  <2>4. \A t \in kept : /\ t \in Expired(table', now) <=> t \in Expired(table, now)
                        /\ Entry(table', t) = Entry(table, t)
    BY <2>3 DEF Expired, Entry
  <2>5. Held' = {Entry(table', t) : t \in DOMAIN table'.byToken \ Expired(table', now)}
    BY <1>9 DEF Held, Entry, Expired, Release
  <2>6. Held' = {l \in Held : ~Under(p, l.path)}
    <3>1. \A t : Entry(table, t).path = table.byToken[t].path
      BY DEF Entry
    <3>. HIDE DEF kept
    <3>2. \A t \in DOMAIN table.byToken : t \in kept <=> ~Under(p, table.byToken[t].path)
      BY DEF kept
    <3>. QED
      BY <2>1, <2>3, <2>4, <2>5, <3>1, <3>2 DEF Held
  <2>7. Held' = {l \in Held : ~Promise!Under(p, l.path)}
    BY <2>6, SamePaths
  <2>. QED
    BY <1>9, <2>7, SameAnswer DEF Release, Promise!Release
<1>10. ASSUME NEW p \in Resource, NEW tokens \in SUBSET issued, Confirm(p, tokens)
       PROVE  Promise!Confirm(p, tokens)
  <2>1. \A t \in DOMAIN Swept.byToken :
           /\ Promise!Covers(Entry(Swept, t), p) <=> Promise!Covers(Swept.byToken[t], p)
           /\ Entry(Swept, t).token = t
    BY DEF Promise!Covers, Entry
  <2>2. Confirms(Swept, p, tokens)
          <=> \A l \in Held : Promise!Covers(l, p) => l.token \in tokens
    BY <1>0, <2>1, ConfirmExact, SameCovers DEF Entries
  <2>. QED
    BY <1>10, <2>2, HeldKept, SameAnswer DEF Confirm, Promise!Confirm
<1>11. ASSUME NEW p \in Resource, Find(p)
       PROVE  Promise!Find(p)
  <2>1. {l.token : l \in {m \in Held : m.path = p}}
          = {t \in DOMAIN Swept.byToken : Swept.byToken[t].path = p}
    <3>1. \A t : /\ Entry(Swept, t).path = Swept.byToken[t].path
                 /\ Entry(Swept, t).token = t
      BY DEF Entry
    <3>. QED
      BY <1>0, <3>1 DEF Entries
  <2>2. {t \in DOMAIN Swept.byToken : Swept.byToken[t].path = p}
          = IF p \in DOMAIN Swept.byPath THEN {Swept.byPath[p]} ELSE {}
    BY <1>0 DEF Sound, Agree
  <2>. QED
    BY <1>11, <2>1, <2>2, HeldKept, SameAnswer DEF Find, Promise!Find
<1>12. CASE Tick
  <2>1. \A t \in DOMAIN table.byToken : table.byToken[t].expiry \in Int /\ now \in Nat
    BY DEF IInv, Inside, Sound, TypedTable, LockInfo
  <2>2. \A t \in DOMAIN table.byToken :
           t \notin Expired(table, now + 1)
             <=> t \notin Expired(table, now) /\ now + 1 <= table.byToken[t].expiry
    BY <2>1 DEF Expired
  <2>3. Held' = {Entry(table, t) : t \in DOMAIN table.byToken \ Expired(table, now + 1)}
    BY <1>12 DEF Tick, Held, Entry, Expired
  <2>4. \A t : Entry(table, t).expiry = table.byToken[t].expiry
    BY DEF Entry
  <2>5. Held' = {l \in Held : Promise!InForce(l, now + 1)}
    BY <2>2, <2>3, <2>4 DEF Held, Promise!InForce
  <2>. QED
    BY <1>12, <2>5 DEF Tick, Promise!Tick, Promise!Next
<1>13. CASE Restart
  <2>1. DOMAIN table'.byToken = {}
    BY <1>13 DEF Restart, EmptyTable
  <2>2. Held' = {}
    BY <2>1 DEF Held
  <2>3. Promise!Root = Root
    BY DEF Promise!Root, Root
  <2>. QED
    BY <1>13, <2>2, <2>3, SameAnswer DEF Restart, Promise!Restart, Promise!Next
<1>14. CASE UNCHANGED vars
  BY <1>14 DEF vars, Promise!vars, Held, Entry, Expired
<1>15. CASE \E p \in Resource, depth \in Depths : Create(p, depth)
  BY <1>1, <1>2, <1>3, <1>4, <1>15 DEF Create, Promise!Next
<1>16. CASE \E p \in Resource, tokens \in SUBSET issued : Refresh(p, tokens)
  BY <1>5, <1>6, <1>16 DEF Refresh, Promise!Next
<1>17. CASE \E p \in Resource, tokens \in SUBSET issued : Confirm(p, tokens)
  BY <1>10, <1>17 DEF Promise!Next
<1>18. CASE \E p \in Resource, t \in issued : UnlockCall(p, t)
  BY <1>7, <1>8, <1>18 DEF UnlockCall, Promise!Next
<1>19. CASE \E p \in Resource : Release(p) \/ Find(p)
  BY <1>9, <1>11, <1>19 DEF Promise!Next
<1>. QED
  BY <1>12, <1>13, <1>14, <1>15, <1>16, <1>17, <1>18, <1>19 DEF Next

\* Whatever the paths, tokens, timeouts and the size of the table, the lazily
\* swept, doubly indexed table answers and behaves as a set of locks that each
\* go the moment they expire (lock.go:154-306).
THEOREM Implementation == Spec => ImplementsWriteLocks
<1>1. Init => Promise!Init
  BY RefinesInit
<1>2. IInv /\ [Next]_vars => [Promise!Next]_Promise!vars
  BY RefinesNext
<1>. QED
  BY <1>1, <1>2, Invariant, PTL DEF Spec, ImplementsWriteLocks, Promise!Spec

=============================================================================
