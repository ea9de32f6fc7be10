----------------------------- MODULE WriteLocks -----------------------------
(***************************************************************************)
(* What the exclusive write locks of lock.go promise their callers, with   *)
(* no table, no index and no lazy expiry: a set of held locks from which a *)
(* lock goes the moment its time is up, and the answer each call must give *)
(* as a function of the locks held at that moment.  LockTable implements   *)
(* it.                                                                     *)
(***************************************************************************)
EXTENDS Paths, FiniteSets

CONSTANTS Name, Resource, Token, MaxLocks, Timeouts, MaxTime

VARIABLES
    held,       \* the locks in force
    clock,
    issued,     \* the tokens ever handed out
    answer      \* the last call and what it answered

vars == << held, clock, issued, answer >>

Depths == {"zero", "infinity"}
Lock   == [token : Token, path : Resource, depth : Depths, expiry : Int]

\* A lock is in force up to and including its expiry.
InForce(l, time) == time <= l.expiry

\* A lock covers the resource it names and, at depth infinity, everything
\* beneath it.
Covers(l, p) == l.path = p \/ (l.depth = "infinity" /\ StrictlyUnder(l.path, p))

\* Two exclusive locks exclude each other when either covers the other.
Blocks(l, p, depth) ==
    Covers(l, p) \/ (depth = "infinity" /\ StrictlyUnder(p, l.path))

Answer(op, p, depth, tokens, result) ==
    answer' = [op |-> op, path |-> p, depth |-> depth, tokens |-> tokens,
               result |-> result]

Init ==
    /\ held = {}
    /\ clock = 0
    /\ issued = {}
    /\ answer = [op |-> "none", path |-> Root, depth |-> "zero", tokens |-> {},
                 result |-> "ok"]

-----------------------------------------------------------------------------
\* A lock is granted exactly when no held lock blocks it and there is room.
\* One granted for less than no time is answered like any other, and was never
\* in force.
Free(p, depth) == \A l \in held : ~Blocks(l, p, depth)

HasRoom == Cardinality(held) < MaxLocks

Grant(p, depth, timeout, t) ==
    /\ Answer("lock", p, depth, {t}, "ok")
    /\ Free(p, depth)
    /\ HasRoom
    /\ t \notin issued
    /\ held' = held \cup
         {l \in {[token |-> t, path |-> p, depth |-> depth,
                 expiry |-> clock + timeout]} : InForce(l, clock)}
    /\ issued' = issued \cup {t}
    /\ UNCHANGED clock

Refuse(p, depth) ==
    /\ \/ Answer("lock", p, depth, {}, "locked") /\ ~Free(p, depth)
       \/ Answer("lock", p, depth, {}, "full")   /\ Free(p, depth) /\ ~HasRoom
       \/ Answer("lock", p, depth, {}, "error")  /\ Free(p, depth) /\ HasRoom
    /\ UNCHANGED << held, clock, issued >>

\* A refresh needs the token of a lock held on exactly this path.
Refresh(p, tokens, timeout) ==
    /\ Answer("refresh", p, "zero", tokens, "ok")
    /\ \E l \in held :
          /\ l.path = p
          /\ l.token \in tokens
          /\ held' = (held \ {l}) \cup
               {k \in {[l EXCEPT !.expiry = clock + timeout]} : InForce(k, clock)}
    /\ UNCHANGED << clock, issued >>

RefuseRefresh(p, tokens) ==
    /\ Answer("refresh", p, "zero", tokens, "noSuchLock")
    /\ \A l \in held : ~(l.path = p /\ l.token \in tokens)
    /\ UNCHANGED << held, clock, issued >>

\* An unlock releases the lock its token names, and only at its own path.
Unlock(p, t) ==
    /\ Answer("unlock", p, "zero", {t}, "ok")
    /\ \E l \in held : l.path = p /\ l.token = t /\ held' = held \ {l}
    /\ UNCHANGED << clock, issued >>

RefuseUnlock(p, t) ==
    /\ Answer("unlock", p, "zero", {t}, "noSuchLock")
    /\ \A l \in held : ~(l.path = p /\ l.token = t)
    /\ UNCHANGED << held, clock, issued >>

\* When a tree of resources goes, so do the locks on it.
Release(p) ==
    /\ Answer("release", p, "zero", {}, "ok")
    /\ held' = {l \in held : ~Under(p, l.path)}
    /\ UNCHANGED << clock, issued >>

\* A write is allowed exactly when the request submits the token of every
\* lock that covers the resource.
Confirm(p, tokens) ==
    /\ Answer("confirm", p, "zero", tokens,
              IF \A l \in held : Covers(l, p) => l.token \in tokens
              THEN "ok" ELSE "locked")
    /\ UNCHANGED << held, clock, issued >>

\* Discovery shows the lock on exactly this resource, or none.
Find(p) ==
    /\ Answer("find", p, "zero", {l.token : l \in {m \in held : m.path = p}}, "ok")
    /\ UNCHANGED << held, clock, issued >>

\* Time passes, and a lock whose time is up is gone at once.
Tick ==
    /\ clock < MaxTime
    /\ clock' = clock + 1
    /\ held' = {l \in held : InForce(l, clock + 1)}
    /\ UNCHANGED << issued, answer >>

\* No lock survives a restart of the process.
Restart ==
    /\ held' = {}
    /\ Answer("restart", Root, "zero", {}, "ok")
    /\ UNCHANGED << clock, issued >>

Next ==
    \/ \E p \in Resource, depth \in Depths :
          \/ \E timeout \in Timeouts, t \in Token : Grant(p, depth, timeout, t)
          \/ Refuse(p, depth)
    \/ \E p \in Resource, tokens \in SUBSET issued :
          \/ \E timeout \in Timeouts : Refresh(p, tokens, timeout)
          \/ RefuseRefresh(p, tokens)
          \/ Confirm(p, tokens)
    \/ \E p \in Resource, t \in issued : Unlock(p, t) \/ RefuseUnlock(p, t)
    \/ \E p \in Resource : Release(p) \/ Find(p)
    \/ Tick
    \/ Restart

Spec == Init /\ [][Next]_vars

=============================================================================
