----------------------------- MODULE LockTable ------------------------------
(***************************************************************************)
(* The lockSystem of lock.go as a state machine: one action per outcome of *)
(* each method, every method running whole under ls.mu.  The clock moves   *)
(* between calls and expired locks stay in the table until a call sweeps   *)
(* them.  Restart is the death of the process and its lock table.          *)
(***************************************************************************)
EXTENDS LockSystem

CONSTANTS
    Timeouts,   \* the timeouts granted, in ticks: parseTimeout's may be negative
    MaxTime     \* bound: the clock stops here

ASSUME TimeoutsAssumption == Timeouts \subseteq Int
ASSUME MaxTimeAssumption == MaxTime \in Nat

VARIABLES
    table,      \* byToken and byPath
    now,        \* ls.now()
    issued,     \* every token newToken ever returned: the ones clients know
    answer      \* the last call, with its arguments and what it answered

vars == << table, now, issued, answer >>

Ops     == {"none", "lock", "refresh", "unlock", "release", "confirm", "find",
            "restart"}
Results == {"ok", "locked", "full", "error", "noSuchLock"}
Answers == [op : Ops, path : Resource, depth : Depths, tokens : SUBSET Token,
            result : Results]

Answer(op, p, depth, tokens, result) ==
    answer' = [op |-> op, path |-> p, depth |-> depth, tokens |-> tokens,
               result |-> result]

\* The table every method but releaseTree starts from.
Swept == Sweep(table, now)

Init ==
    /\ table = EmptyTable
    /\ now = 0
    /\ issued = {}
    /\ answer = [op |-> "none", path |-> Root, depth |-> "zero", tokens |-> {},
                 result |-> "ok"]

-----------------------------------------------------------------------------
CreateLocked(p, depth) ==
    /\ Conflict(Swept, p, depth) # {}
    /\ table' = Swept
    /\ Answer("lock", p, depth, {}, "locked")
    /\ UNCHANGED << now, issued >>

CreateFull(p, depth) ==
    /\ Conflict(Swept, p, depth) = {}
    /\ IsFull(Swept)
    /\ table' = Swept
    /\ Answer("lock", p, depth, {}, "full")
    /\ UNCHANGED << now, issued >>

\* newToken fails: the CSPRNG is not available.
CreateNoToken(p, depth) ==
    /\ Conflict(Swept, p, depth) = {}
    /\ ~IsFull(Swept)
    /\ table' = Swept
    /\ Answer("lock", p, depth, {}, "error")
    /\ UNCHANGED << now, issued >>

\* A minted token is one nobody has seen before.
CreateGranted(p, depth, timeout, t) ==
    /\ Conflict(Swept, p, depth) = {}
    /\ ~IsFull(Swept)
    /\ t \notin issued
    /\ table' = Insert(Swept, t, [path |-> p, depth |-> depth,
                                  expiry |-> now + timeout])
    /\ issued' = issued \cup {t}
    /\ Answer("lock", p, depth, {t}, "ok")
    /\ UNCHANGED now

\* Mutant of RefreshGranted: it does not sweep first, and revives a lock that
\* has expired.
RefreshUnswept(p, tokens, timeout) ==
    /\ \E t \in Refreshable(table, p, tokens) :
          table' = Extend(table, t, now + timeout)
    /\ Answer("refresh", p, "zero", tokens, "ok")
    /\ UNCHANGED << now, issued >>

RefreshGranted(p, tokens, timeout) ==
    /\ \E t \in Refreshable(Swept, p, tokens) :
          table' = Extend(Swept, t, now + timeout)
    /\ Answer("refresh", p, "zero", tokens, "ok")
    /\ UNCHANGED << now, issued >>

RefreshNoSuchLock(p, tokens) ==
    /\ Refreshable(Swept, p, tokens) = {}
    /\ table' = Swept
    /\ Answer("refresh", p, "zero", tokens, "noSuchLock")
    /\ UNCHANGED << now, issued >>

UnlockGranted(p, t) ==
    /\ Refreshable(Swept, p, {t}) # {}
    /\ table' = Unlock(Swept, p, t)
    /\ Answer("unlock", p, "zero", {t}, "ok")
    /\ UNCHANGED << now, issued >>

UnlockNoSuchLock(p, t) ==
    /\ Refreshable(Swept, p, {t}) = {}
    /\ table' = Swept
    /\ Answer("unlock", p, "zero", {t}, "noSuchLock")
    /\ UNCHANGED << now, issued >>

Release(p) ==
    /\ table' = ReleaseTree(table, p)
    /\ Answer("release", p, "zero", {}, "ok")
    /\ UNCHANGED << now, issued >>

Confirm(p, tokens) ==
    /\ table' = Swept
    /\ Answer("confirm", p, "zero", tokens,
              IF Confirms(Swept, p, tokens) THEN "ok" ELSE "locked")
    /\ UNCHANGED << now, issued >>

Find(p) ==
    /\ table' = Swept
    /\ Answer("find", p, "zero",
              IF p \in DOMAIN Swept.byPath THEN {Swept.byPath[p]} ELSE {}, "ok")
    /\ UNCHANGED << now, issued >>

Tick ==
    /\ now < MaxTime
    /\ now' = now + 1
    /\ UNCHANGED << table, issued, answer >>

Restart ==
    /\ table' = EmptyTable
    /\ Answer("restart", Root, "zero", {}, "ok")
    /\ UNCHANGED << now, issued >>

-----------------------------------------------------------------------------
Create(p, depth) ==
    \/ CreateLocked(p, depth)
    \/ CreateFull(p, depth)
    \/ CreateNoToken(p, depth)
    \/ \E timeout \in Timeouts, t \in Token : CreateGranted(p, depth, timeout, t)

Refresh(p, tokens) ==
    \/ \E timeout \in Timeouts : RefreshGranted(p, tokens, timeout)
    \/ RefreshNoSuchLock(p, tokens)

UnlockCall(p, t) == UnlockGranted(p, t) \/ UnlockNoSuchLock(p, t)

Next ==
    \/ \E p \in Resource, depth \in Depths : Create(p, depth)
    \/ \E p \in Resource, tokens \in SUBSET issued : Refresh(p, tokens)
    \/ \E p \in Resource, tokens \in SUBSET issued : Confirm(p, tokens)
    \/ \E p \in Resource, t \in issued : UnlockCall(p, t)
    \/ \E p \in Resource : Release(p)
    \/ \E p \in Resource : Find(p)
    \/ Tick
    \/ Restart

Spec == Init /\ [][Next]_vars

-----------------------------------------------------------------------------
\* The table, the clock, the tokens and the answers have their types.
TypeOK ==
    /\ TypedTable(table)
    /\ DOMAIN table.byToken \subseteq issued
    /\ now \in Nat
    /\ issued \subseteq Token
    /\ answer \in Answers

\* byToken and byPath name the same locks after every call.  A call that
\* deletes from one map and not the other leaves a resource locked by a token
\* nobody can release, or a token that opens nothing.
IndexesAgree == Agree(table)

\* The locks exclude each other, expired ones the table still holds included.
\* This is what conflict's three questions are for, and what makes the single
\* lock it returns the only one that confirm needs to look at.
Exclusive == Excluding(table)

\* The table holds no more than maxLocks locks.
Bounded == Cardinality(DOMAIN table.byToken) <= MaxLocks

-----------------------------------------------------------------------------
\* A lock as its holder knows it.
Entry(tb, t) ==
    [token |-> t, path |-> tb.byToken[t].path, depth |-> tb.byToken[t].depth,
     expiry |-> tb.byToken[t].expiry]

\* The locks in force are the ones a sweep would keep.
Held == {Entry(table, t) : t \in DOMAIN table.byToken \ Expired(table, now)}

Promise == INSTANCE WriteLocks WITH held <- Held, clock <- now

\* Lazy expiry cannot be observed (lock.go:155-160): every call answers, and
\* leaves the locks, as if each lock went the moment its time was up.
ImplementsWriteLocks == Promise!Spec

=============================================================================
