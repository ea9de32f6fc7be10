----------------------------- MODULE LockSystem -----------------------------
(***************************************************************************)
(* The lock table of lock.go as a value, and what the methods of           *)
(* lockSystem compute from it.  LockTable turns the methods into steps;    *)
(* WebDAVServer calls them from the request handlers.                      *)
(*                                                                         *)
(* A *lockInfo is shared by the two maps.  Its token is its identity, so   *)
(* byToken holds the lock and byPath holds the token of the lock on a      *)
(* path.  The owner and the timeout that only responses repeat are left    *)
(* out of the lock.                                                        *)
(***************************************************************************)
EXTENDS Paths, FiniteSets, Functions

CONSTANTS
    Name,       \* the path components in use
    Resource,   \* the paths requests name
    Token,      \* the lock tokens the CSPRNG may mint
    MaxLocks    \* maxLocks, the bound on the table

ASSUME ResourceAssumption ==
    /\ Resource \subseteq Seq(Name)
    /\ Root \in Resource
    /\ \A p \in Resource : \A n \in 0..Len(p) : SubSeq(p, 1, n) \in Resource

ASSUME MaxLocksAssumption == MaxLocks \in Nat

Depths == {"zero", "infinity"}

\* lockInfo, less what only responses repeat.  expiry is a time on the
\* server's own clock: now plus a timeout that parseTimeout may have made
\* negative, so before the clock began is possible too.
LockInfo == [path : Resource, depth : Depths, expiry : Int]

\* newLockSystem
EmptyTable == [byToken |-> << >>, byPath |-> << >>]

\* delete(m, k) for every k of keys, and m[k] = v.
Drop(m, keys) == Restrict(m, DOMAIN m \ keys)

Put(m, k, v) == [x \in DOMAIN m \cup {k} |-> IF x = k THEN v ELSE m[x]]

\* sweep: drop the expired locks.  It deletes byPath by the path the lock
\* names, not by what byPath holds there.
Expired(tb, now) == {t \in DOMAIN tb.byToken : now > tb.byToken[t].expiry}

Sweep(tb, now) ==
    [byToken |-> Drop(tb.byToken, Expired(tb, now)),
     byPath  |-> Drop(tb.byPath, {tb.byToken[t].path : t \in Expired(tb, now)})]

\* The ancestors of p that hold a lock of depth infinity, and the locked
\* members of p.
LockedAbove(tb, p) ==
    {q \in DOMAIN tb.byPath : /\ StrictlyUnder(q, p)
                              /\ tb.byToken[tb.byPath[q]].depth = "infinity"}

LockedBelow(tb, p) == {q \in DOMAIN tb.byPath : StrictlyUnder(p, q)}

Nearest(above) == CHOOSE q \in above : \A r \in above : Len(r) <= Len(q)

\* Mutant of Conflict: the third question is forgotten, so a collection can be
\* locked to infinity over a locked member.
ConflictNotBelow(tb, p, depth) ==
    IF p \in DOMAIN tb.byPath THEN {tb.byPath[p]}
    ELSE IF LockedAbove(tb, p) # {}
         THEN {tb.byPath[Nearest(LockedAbove(tb, p))]}
         ELSE {}

\* conflict: the locks the call may return, none when it returns nil.  The
\* path itself is asked first, then its ancestors from the nearest up, and
\* the members, in the order the map yields them, only for a depth-infinity
\* request.
Conflict(tb, p, depth) ==
    IF p \in DOMAIN tb.byPath THEN {tb.byPath[p]}
    ELSE IF LockedAbove(tb, p) # {}
         THEN {tb.byPath[Nearest(LockedAbove(tb, p))]}
         ELSE IF depth = "infinity"
              THEN {tb.byPath[q] : q \in LockedBelow(tb, p)}
              ELSE {}

\* Mutant of Insert: byPath gets key and value the wrong way round.
InsertSwapped(tb, t, lock) ==
    [byToken |-> Put(tb.byToken, t, lock),
     byPath  |-> Put(tb.byPath, t, lock.path)]

\* create, once nothing conflicts: the new lock enters both maps.
Insert(tb, t, lock) ==
    [byToken |-> Put(tb.byToken, t, lock),
     byPath  |-> Put(tb.byPath, lock.path, t)]

\* Mutant of IsFull: off by one.
IsOverfull(tb) == Cardinality(DOMAIN tb.byToken) > MaxLocks

IsFull(tb) == Cardinality(DOMAIN tb.byToken) >= MaxLocks

\* refresh: the submitted tokens that name a lock on exactly this path.
Refreshable(tb, p, tokens) ==
    {t \in tokens \cap DOMAIN tb.byToken : tb.byToken[t].path = p}

Extend(tb, t, expiry) == [tb EXCEPT !.byToken[t].expiry = expiry]

\* unlock: the path deleted is the one the request names.
Unlock(tb, p, t) ==
    [byToken |-> Drop(tb.byToken, {t}), byPath |-> Drop(tb.byPath, {p})]

\* Mutant of ReleaseTree: the tokens stay.
ReleasePathsOnly(tb, p) ==
    [tb EXCEPT !.byPath = Drop(@, {q \in DOMAIN tb.byPath : Under(p, q)})]

\* releaseTree: every lock found through byPath at or under p goes.  Expired
\* locks are not swept first.
ReleaseTree(tb, p) ==
    LET gone == {q \in DOMAIN tb.byPath : Under(p, q)}
    IN  [byToken |-> Drop(tb.byToken, {tb.byPath[q] : q \in gone}),
         byPath  |-> Drop(tb.byPath, gone)]

\* confirm: what it answers, given a table that has been swept.  Only the
\* one lock that conflict returns is compared with the submitted tokens.
Confirms(tb, p, tokens) == Conflict(tb, p, "zero") \subseteq tokens

-----------------------------------------------------------------------------
\* A table whose maps have the types of their Go declarations.
TypedTable(tb) ==
    /\ tb = [byToken |-> tb.byToken, byPath |-> tb.byPath]
    /\ tb.byToken \in [DOMAIN tb.byToken -> LockInfo]
    /\ DOMAIN tb.byToken \subseteq Token
    /\ tb.byPath \in [DOMAIN tb.byPath -> Token]
    /\ DOMAIN tb.byPath \subseteq Resource

\* The two maps name the same locks: each token's lock is the lock of its
\* path, and each path's lock is an entry of byToken for that path.
Agree(tb) ==
    /\ \A t \in DOMAIN tb.byToken :
          /\ tb.byToken[t].path \in DOMAIN tb.byPath
          /\ tb.byPath[tb.byToken[t].path] = t
    /\ \A p \in DOMAIN tb.byPath :
          /\ tb.byPath[p] \in DOMAIN tb.byToken
          /\ tb.byToken[tb.byPath[p]].path = p

\* A lock covers its resource and, at depth infinity, what is beneath it.
Covers(l, p) == l.path = p \/ (l.depth = "infinity" /\ StrictlyUnder(l.path, p))

\* No lock of depth infinity has another lock beneath it.
Excluding(tb) ==
    \A t, u \in DOMAIN tb.byToken :
        tb.byToken[t].depth = "infinity" =>
            ~StrictlyUnder(tb.byToken[t].path, tb.byToken[u].path)

=============================================================================
