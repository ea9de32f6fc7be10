---------------------------- MODULE WebDAVServer ----------------------------
(***************************************************************************)
(* The writing methods of one Handler, served concurrently: net/http runs  *)
(* every request in a goroutine of its own (server.go:93-100).  A request  *)
(* is checked against the lock table under ls.mu and acts on the tree      *)
(* under fsmu; between two such sections any other request may run.  A     *)
(* section under one mutex is one step, except that releaseTree is called  *)
(* with fsmu held and takes ls.mu itself, so the methods that call it hold *)
(* fsmu from one step to another.                                          *)
(*                                                                         *)
(* What the model leaves out: the bytes of a file, properties, and the     *)
(* reading methods, which change none of this state.                       *)
(***************************************************************************)
EXTENDS LockSystem

CONSTANTS
    Client,
    Requests,    \* the calls clients may send
    Unreliable,  \* the paths on which the driver may fail an operation
    Timeouts,    \* the timeouts LOCK grants, in ticks: may be negative
    MaxTime,     \* bound: the clock stops here
    InitTree     \* the tree the server is started on

VARIABLES
    tree,        \* the exported filesystem: path to "dir" or "file"
    table, now, issued,     \* the lock table, its clock, the tokens minted
    fsmu,        \* who holds Handler.fsmu across steps, or Nobody
    req,         \* the request each client has in flight
    known        \* the lock tokens each client has been told

vars == << tree, table, now, issued, fsmu, req, known >>

Nobody == "nobody"

Methods == {"PUT", "MKCOL", "DELETE", "MOVE", "COPY", "LOCK", "REFRESH", "UNLOCK"}

\* A call: depth is the Depth header, overwrite the Overwrite header.
\* REFRESH is a LOCK with an empty body.
Calls == [method : Methods, path : Resource, dst : Resource, depth : Depths,
          overwrite : {"T", "F", "bad"}]

\* The shape of a filesystem: the root is a directory, and all that contains
\* anything is a directory.
TreeShape(t) ==
    /\ t \in [DOMAIN t -> {"dir", "file"}]
    /\ DOMAIN t \subseteq Resource
    /\ Root \in DOMAIN t /\ t[Root] = "dir"
    /\ \A p \in DOMAIN t, q \in Resource :
          StrictlyUnder(q, p) => q \in DOMAIN t /\ t[q] = "dir"

\* Nothing is deeper than its deepest member.
ASSUME InitTreeAssumption ==
    /\ TreeShape(InitTree)
    /\ \E p \in DOMAIN InitTree : \A q \in DOMAIN InitTree : Len(q) <= Len(p)

\* The code bounds no path.  Where Resource is bounded, it has to hold every
\* path to which a MOVE or COPY can take something.
ASSUME RequestsAssumption ==
    /\ Requests \subseteq Calls
    /\ \A call \in Requests : call.method \in {"MOVE", "COPY"} =>
          \A p \in Resource : Under(call.path, p) => Rebase(call.path, call.dst, p) \in Resource

ASSUME ClockAssumption == MaxTime \in Nat /\ Timeouts \subseteq Int

ASSUME ClientAssumption == Nobody \notin Client

Idle == [pc |-> "idle"]

At(c, pc) == req[c].pc = pc
Call(c)   == req[c].call
Src(c)    == Call(c).path
Dst(c)    == Call(c).dst

\* An answered request keeps its call, whether it touched the tree, and what
\* it was granted; the rest is forgotten.
Done(r, status) ==
    [pc |-> "answered", call |-> r.call, tokens |-> {}, since |-> {},
     existed |-> FALSE, srcDir |-> FALSE, touched |-> r.touched, status |-> status,
     granted |-> r.granted, rows |-> r.rows]

Goto(c, pc)        == req' = [req EXCEPT ![c].pc = pc]
Respond(c, status) == req' = [req EXCEPT ![c] = Done(@, status)]
\* After a step that has looked whether the target exists, and after one that
\* changed the tree, or tried to.
Looked(r, pc, existed)  == [r EXCEPT !.pc = pc, !.existed = existed]
Touched(r, pc, existed) == [Looked(r, pc, existed) EXCEPT !.touched = TRUE]
Acted(c, pc, existed)   == req' = [req EXCEPT ![c] = Touched(@, pc, existed)]
ActedAndRespond(c, status) ==
    req' = [req EXCEPT ![c] = [Done(@, status) EXCEPT !.touched = TRUE]]
\* A multistatus names the members that failed.
Multistatus(c, rows) ==
    req' = [req EXCEPT ![c] = [Done(@, 207) EXCEPT !.touched = TRUE, !.rows = rows]]

\* fsmu is free for a section that begins, and in one step ends, here.
FsFree    == fsmu = Nobody
Take(c)   == fsmu' = c
Holds(c)  == fsmu = c
Give      == fsmu' = Nobody

Swept == Sweep(table, now)

-----------------------------------------------------------------------------
(* The driver, as the handlers use it. *)

Exists(p)   == p \in DOMAIN tree
IsDir(p)    == Exists(p) /\ tree[p] = "dir"
CanFail(p)  == p \in Unreliable
\* WriteFile creates or replaces a file in an existing directory.
CanWrite(p) == IsDir(ParentOf(p)) /\ (Exists(p) => ~IsDir(p))
Members(p)  == {q \in DOMAIN tree : Under(p, q)}
Children(p) == {q \in DOMAIN tree : q # p /\ ParentOf(q) = p}

\* removeTree: a member survives when the driver fails on it or on anything
\* beneath it.  A directory the driver cannot list (one of blind) keeps all
\* it has.
Survivors(p, stuck, blind) ==
    {q \in Members(p) : \/ \E r \in stuck : Under(q, r)
                        \/ \E d \in blind : Under(d, q)}

\* Mutant of Removed: the members of a directory are left behind.
RemovedShallow(p, stuck, blind) == Drop(tree, {p} \ Survivors(p, stuck, blind))

Removed(p, stuck, blind) == Drop(tree, Members(p) \ Survivors(p, stuck, blind))

\* What the driver may fail on in a subtree, all at once.
Stuck(p)       == SUBSET {q \in Members(p) : CanFail(q)}
Blind(stuck)   == SUBSET {q \in stuck : IsDir(q)}

\* Mutant of Unremoved: a collection is removed after its members, whatever
\* became of them, and fails as well.
UnremovedDerived(p, stuck, blind) ==
    LET failures[q \in Members(p)] ==
            IF q \in blind THEN {q}
            ELSE LET below == UNION {failures[r] : r \in Children(q)}
                 IN  IF below # {} THEN below \cup {q} ELSE {q} \cap stuck
    IN  failures[p]

\* removeTree's failures: a collection that cannot be listed; of any other
\* those of its members, its own only when there are none.
Unremoved(p, stuck, blind) ==
    LET failures[q \in Members(p)] ==
            IF q \in blind THEN {q}
            ELSE LET below == UNION {failures[r] : r \in Children(q)}
                 IN  IF below # {} THEN below ELSE {q} \cap stuck
    IN  failures[p]

\* Rename moves the whole subtree.
Renamed(src, dst) ==
    LET moved == {Rebase(src, dst, q) : q \in Members(src)}
        rest  == DOMAIN tree \ Members(src)
    IN  [p \in rest \cup moved |-> IF p \in moved THEN tree[Rebase(dst, src, p)]
                                                  ELSE tree[p]]

\* copyTree: the members to copy, what fails stopping the copy beneath it.
ToCopy(src, depth) == IF depth = "infinity" THEN Members(src) ELSE {src} \cap Members(src)
Copied(src, depth, stuck) ==
    {q \in ToCopy(src, depth) : \A r \in stuck : ~Under(r, q)}
\* What failed.  A file whose copy failed half way, or a directory that was
\* made and then could not be listed, may be left behind.
Uncopied(src, depth, stuck) ==
    {q \in ToCopy(src, depth) \cap stuck : \A r \in stuck \ {q} : ~Under(r, q)}
WithCopies(src, dst, from) ==
    LET made == {Rebase(src, dst, q) : q \in from}
    IN  [p \in DOMAIN tree \cup made |-> IF p \in made THEN tree[Rebase(dst, src, p)]
                                                       ELSE tree[p]]

-----------------------------------------------------------------------------
(* A request arrives and is dispatched. *)

FirstStep(method) ==
    CASE method \in {"PUT", "MKCOL", "DELETE", "MOVE"} -> "check"
      [] method = "COPY"    -> "checkDst"
      [] method = "LOCK"    -> "lockStat"
      [] method = "REFRESH" -> "refresh"
      [] method = "UNLOCK"  -> "unlock"

\* since: the tokens minted before the request arrived, kept for the
\* properties only.
InFlight(call, tokens, pc) ==
    [pc |-> pc, call |-> call, tokens |-> tokens, since |-> issued,
     existed |-> FALSE, srcDir |-> FALSE, touched |-> FALSE, status |-> 0,
     granted |-> {}, rows |-> {}]

Receive(c, call) ==
    /\ At(c, "idle")
    /\ ~(call.method \in {"PUT", "DELETE", "MOVE"} /\ call.path = Root)
    /\ \E tokens \in SUBSET known[c] :
          req' = [req EXCEPT ![c] = InFlight(call, tokens, FirstStep(call.method))]
    /\ UNCHANGED << tree, table, now, issued, fsmu, known >>

\* The root can be neither written, deleted nor moved.
RefuseRoot(c, call) ==
    /\ At(c, "idle")
    /\ call.method \in {"PUT", "DELETE", "MOVE"} /\ call.path = Root
    /\ req' = [req EXCEPT ![c] = Done(InFlight(call, {}, "answered"), IF call.method = "PUT" THEN 405 ELSE 403)]
    /\ UNCHANGED << tree, table, now, issued, fsmu, known >>

\* The client reads the response: from now on it knows its token.
Deliver(c) ==
    /\ At(c, "answered")
    /\ known' = [known EXCEPT ![c] = @ \cup req[c].granted]
    /\ req' = [req EXCEPT ![c] = Idle]
    /\ UNCHANGED << tree, table, now, issued, fsmu >>

-----------------------------------------------------------------------------
(* checkLocks, under ls.mu. *)

\* Mutant of AfterCheck: a MOVE is checked at its source only.
AfterOneCheck(c) ==
    CASE Call(c).method = "PUT"    -> "stat"
      [] Call(c).method = "MKCOL"  -> "probe"
      [] Call(c).method = "DELETE" -> "remove"
      [] Call(c).method \in {"MOVE", "COPY"} -> "prepare"

AfterCheck(c) ==
    CASE Call(c).method = "PUT"    -> "stat"
      [] Call(c).method = "MKCOL"  -> "probe"
      [] Call(c).method = "DELETE" -> "remove"
      [] Call(c).method = "MOVE"   -> IF At(c, "check") THEN "checkDst" ELSE "prepare"
      [] Call(c).method = "COPY"   -> "prepare"

Checked(c) == IF At(c, "check") THEN Src(c) ELSE Dst(c)

CheckPasses(c) ==
    /\ At(c, "check") \/ At(c, "checkDst")
    /\ Confirms(Swept, Checked(c), req[c].tokens)
    /\ table' = Swept
    /\ Goto(c, AfterCheck(c))
    /\ UNCHANGED << tree, now, issued, fsmu, known >>

CheckRefused(c) ==
    /\ At(c, "check") \/ At(c, "checkDst")
    /\ ~Confirms(Swept, Checked(c), req[c].tokens)
    /\ table' = Swept
    /\ Respond(c, 423)
    /\ UNCHANGED << tree, now, issued, fsmu, known >>

-----------------------------------------------------------------------------
(* PUT: stat under fsmu, read the body with nothing held, write under fsmu. *)

\* Mutant of PutStat: fsmu is kept while the body is read.
PutStatHolding(c) ==
    /\ At(c, "stat") /\ FsFree
    /\ IsDir(ParentOf(Src(c)))
    /\ req' = [req EXCEPT ![c] = Looked(@, "body", Exists(Src(c)))]
    /\ Take(c)
    /\ UNCHANGED << tree, table, now, issued, known >>

\* A Stat that fails, for whatever reason, says that nothing was there.
PutStat(c) ==
    /\ At(c, "stat") /\ FsFree
    /\ \/ /\ IsDir(ParentOf(Src(c)))
          /\ req' = [req EXCEPT ![c] = Looked(@, "body", Exists(Src(c)))]
       \/ /\ IsDir(ParentOf(Src(c))) /\ CanFail(Src(c))
          /\ req' = [req EXCEPT ![c] = Looked(@, "body", FALSE)]
       \/ ~IsDir(ParentOf(Src(c))) /\ Respond(c, 409)
       \/ CanFail(ParentOf(Src(c))) /\ Respond(c, 500)
    /\ UNCHANGED << tree, table, now, issued, fsmu, known >>

BodyArrives(c) ==
    /\ At(c, "body")
    /\ Goto(c, "write")
    /\ UNCHANGED << tree, table, now, issued, fsmu, known >>

\* Too large, or cut off.
BodyFails(c) ==
    /\ At(c, "body")
    /\ Respond(c, 400)
    /\ UNCHANGED << tree, table, now, issued, fsmu, known >>

PutWrite(c) ==
    /\ At(c, "write") /\ FsFree
    /\ \/ /\ CanWrite(Src(c))
          /\ tree' = Put(tree, Src(c), "file")
          /\ ActedAndRespond(c, IF req[c].existed THEN 204 ELSE 201)
       \/ /\ ~CanWrite(Src(c)) \/ CanFail(Src(c))
          /\ Respond(c, 500)
          /\ UNCHANGED tree
    /\ UNCHANGED << table, now, issued, fsmu, known >>

(* MKCOL: a first byte of body is waited for with nothing held, and refused *)
(* if it comes; the rest is one section under fsmu.                         *)

MkcolBody(c) ==
    /\ At(c, "probe")
    /\ Respond(c, 415)
    /\ UNCHANGED << tree, table, now, issued, fsmu, known >>

MkcolNoBody(c) ==
    /\ At(c, "probe")
    /\ Goto(c, "mkcol")
    /\ UNCHANGED << tree, table, now, issued, fsmu, known >>

\* Mutant of MkcolRefused: MkDir is tried before anything is asked.
MkcolAsksLate(c) ==
    /\ At(c, "mkcol") /\ FsFree
    /\ Exists(Src(c)) /\ ActedAndRespond(c, 405)
    /\ UNCHANGED << tree, table, now, issued, fsmu, known >>

MkcolRefused(c) ==
    /\ At(c, "mkcol") /\ FsFree
    /\ \/ Exists(Src(c)) /\ Respond(c, 405)
       \/ ~Exists(Src(c)) /\ ~IsDir(ParentOf(Src(c))) /\ Respond(c, 409)
       \/ (CanFail(Src(c)) \/ CanFail(ParentOf(Src(c)))) /\ Respond(c, 500)
    /\ UNCHANGED << tree, table, now, issued, fsmu, known >>

Mkcol(c) ==
    /\ At(c, "mkcol") /\ FsFree
    /\ ~Exists(Src(c)) /\ IsDir(ParentOf(Src(c)))
    /\ tree' = Put(tree, Src(c), "dir")
    /\ ActedAndRespond(c, 201)
    /\ UNCHANGED << table, now, issued, fsmu, known >>

-----------------------------------------------------------------------------
(* DELETE: removeTree, then releaseTree, under one hold of fsmu. *)

DeleteRefused(c) ==
    /\ At(c, "remove") /\ FsFree
    /\ \/ ~Exists(Src(c)) /\ Respond(c, 404)
       \/ CanFail(Src(c)) /\ Respond(c, 500)
    /\ UNCHANGED << tree, table, now, issued, fsmu, known >>

\* Everything went: the locks go too, before fsmu is released.
DeleteAll(c) ==
    /\ At(c, "remove") /\ FsFree
    /\ Exists(Src(c))
    /\ tree' = Removed(Src(c), {}, {})
    /\ Acted(c, "release", TRUE)
    /\ Take(c)
    /\ UNCHANGED << table, now, issued, known >>

\* Mutant of DeletePartly: the failures are not looked at, and the locks of
\* the members that survived are released with the others.
DeletePartlyReleases(c) ==
    /\ At(c, "remove") /\ FsFree
    /\ Exists(Src(c))
    /\ \E stuck \in Stuck(Src(c)) \ {{}} : \E blind \in Blind(stuck) :
          tree' = Removed(Src(c), stuck, blind)
    /\ Acted(c, "release", TRUE)
    /\ Take(c)
    /\ UNCHANGED << table, now, issued, known >>

\* Some members could not be removed: 207 names them, and no lock goes.
DeletePartly(c) ==
    /\ At(c, "remove") /\ FsFree
    /\ Exists(Src(c))
    /\ \E stuck \in Stuck(Src(c)) \ {{}} : \E blind \in Blind(stuck) :
          /\ tree' = Removed(Src(c), stuck, blind)
          /\ Multistatus(c, Unremoved(Src(c), stuck, blind))
    /\ UNCHANGED << table, now, issued, fsmu, known >>

\* The end of DELETE, and of MOVE.
ReleaseSource(c) ==
    /\ At(c, "release") /\ Holds(c)
    /\ table' = ReleaseTree(table, Src(c))
    /\ Respond(c, IF req[c].existed THEN 204 ELSE 201)
    /\ Give
    /\ UNCHANGED << tree, now, issued, known >>

-----------------------------------------------------------------------------
(* MOVE and COPY: prepareDestination, then the transfer, under one hold of *)
(* fsmu.                                                                   *)

\* The refusals, in the order the code asks.  0 is none.
Refusal(c) ==
    IF ~Exists(Src(c)) THEN 404
    ELSE IF Dst(c) = Src(c) \/ Dst(c) = Root \/ StrictlyUnder(Src(c), Dst(c)) THEN 403
    ELSE IF Call(c).overwrite = "bad" THEN 400
    ELSE IF ~IsDir(ParentOf(Dst(c))) THEN 409
    ELSE IF Exists(Dst(c)) /\ Call(c).overwrite = "F" THEN 412
    ELSE 0

PrepareRefused(c) ==
    /\ At(c, "prepare") /\ FsFree
    /\ \/ Refusal(c) # 0 /\ Respond(c, Refusal(c))
       \/ (\E p \in {Src(c), ParentOf(Dst(c)), Dst(c)} : CanFail(p)) /\ Respond(c, 500)
    /\ UNCHANGED << tree, table, now, issued, fsmu, known >>

PrepareFresh(c) ==
    /\ At(c, "prepare") /\ FsFree
    /\ Refusal(c) = 0 /\ ~Exists(Dst(c))
    /\ req' = [req EXCEPT ![c] =
          [Looked(@, "transfer", FALSE) EXCEPT !.srcDir = IsDir(Src(c))]]
    /\ Take(c)
    /\ UNCHANGED << tree, table, now, issued, known >>

\* An existing destination is removed first, its locks after it.
PrepareOverwrite(c) ==
    /\ At(c, "prepare") /\ FsFree
    /\ Refusal(c) = 0 /\ Exists(Dst(c))
    /\ tree' = Removed(Dst(c), {}, {})
    /\ req' = [req EXCEPT ![c] =
          [Touched(@, "releaseDst", TRUE) EXCEPT !.srcDir = IsDir(Src(c))]]
    /\ Take(c)
    /\ UNCHANGED << table, now, issued, known >>

PreparePartly(c) ==
    /\ At(c, "prepare") /\ FsFree
    /\ Refusal(c) = 0 /\ Exists(Dst(c))
    /\ \E stuck \in Stuck(Dst(c)) \ {{}} : \E blind \in Blind(stuck) :
          /\ tree' = Removed(Dst(c), stuck, blind)
          /\ Multistatus(c, Unremoved(Dst(c), stuck, blind))
    /\ UNCHANGED << table, now, issued, fsmu, known >>

ReleaseDestination(c) ==
    /\ At(c, "releaseDst") /\ Holds(c)
    /\ table' = ReleaseTree(table, Dst(c))
    /\ Goto(c, "transfer")
    /\ UNCHANGED << tree, now, issued, fsmu, known >>

\* Mutant of Rename: the locks stay where the source was.
RenameKeepsLocks(c) ==
    /\ At(c, "transfer") /\ Holds(c) /\ Call(c).method = "MOVE"
    /\ Exists(Src(c)) /\ IsDir(ParentOf(Dst(c)))
    /\ tree' = Renamed(Src(c), Dst(c))
    /\ ActedAndRespond(c, IF req[c].existed THEN 204 ELSE 201)
    /\ Give
    /\ UNCHANGED << table, now, issued, known >>

Rename(c) ==
    /\ At(c, "transfer") /\ Holds(c) /\ Call(c).method = "MOVE"
    /\ Exists(Src(c)) /\ IsDir(ParentOf(Dst(c)))
    /\ tree' = Renamed(Src(c), Dst(c))
    /\ Acted(c, "release", req[c].existed)
    /\ UNCHANGED << table, now, issued, fsmu, known >>

\* Overwriting an ancestor of the source has removed the source, or the driver
\* fails on either end: the destination it was to replace is gone already.
RenameFails(c) ==
    /\ At(c, "transfer") /\ Holds(c) /\ Call(c).method = "MOVE"
    /\ ~Exists(Src(c)) \/ CanFail(Src(c)) \/ CanFail(Dst(c))
    /\ Respond(c, IF Exists(Src(c)) THEN 500 ELSE 404)
    /\ Give
    /\ UNCHANGED << tree, table, now, issued, known >>

Copy(c) ==
    /\ At(c, "transfer") /\ Holds(c) /\ Call(c).method = "COPY"
    /\ Exists(Src(c))
    /\ tree' = WithCopies(Src(c), Dst(c), Copied(Src(c), Call(c).depth, {}))
    /\ ActedAndRespond(c, IF req[c].existed THEN 204 ELSE 201)
    /\ Give
    /\ UNCHANGED << table, now, issued, known >>

\* What may fail to be copied, all at once: the driver fails on the member or
\* on its copy, as it does when MkDir fails.
CopyStuck(c) ==
    SUBSET {q \in ToCopy(Src(c), Call(c).depth) :
              CanFail(q) \/ CanFail(Rebase(Src(c), Dst(c), q))}

\* Some members could not be copied.  What was copied stays.
CopyPartly(c) ==
    /\ At(c, "transfer") /\ Holds(c) /\ Call(c).method = "COPY"
    /\ Exists(Src(c))
    /\ \E stuck \in CopyStuck(c) \ {{}} :
          LET failed == Uncopied(Src(c), Call(c).depth, stuck)
          IN  /\ \E left \in SUBSET failed :
                    tree' = WithCopies(Src(c), Dst(c), Copied(Src(c), Call(c).depth, stuck) \cup left)
              /\ Multistatus(c, {Rebase(Src(c), Dst(c), q) : q \in failed})
    /\ Give
    /\ UNCHANGED << table, now, issued, known >>

\* The source went with the destination that was its ancestor.  Of a
\* collection the directory is made before the listing fails, and when its
\* members are not wanted nothing fails at all, unless MkDir does.
CopyOfNothing(c) ==
    /\ At(c, "transfer") /\ Holds(c) /\ Call(c).method = "COPY"
    /\ ~Exists(Src(c))
    /\ \/ /\ req[c].srcDir
          /\ tree' = Put(tree, Dst(c), "dir")
          /\ IF Call(c).depth = "zero" THEN ActedAndRespond(c, 204)
                                       ELSE Multistatus(c, {Dst(c)})
       \/ /\ ~req[c].srcDir \/ CanFail(Dst(c))
          /\ UNCHANGED tree
          /\ Multistatus(c, {Dst(c)})
    /\ Give
    /\ UNCHANGED << table, now, issued, known >>

-----------------------------------------------------------------------------
(* LOCK: a missing resource is created under fsmu, and only then is the    *)
(* lock asked for.                                                         *)

LockStat(c) ==
    /\ At(c, "lockStat") /\ FsFree
    /\ \/ /\ Exists(Src(c))
          /\ req' = [req EXCEPT ![c] = Looked(@, "lockCreate", TRUE)]
          /\ UNCHANGED tree
       \/ /\ ~Exists(Src(c)) /\ CanWrite(Src(c))
          /\ tree' = Put(tree, Src(c), "file")
          /\ Acted(c, "lockCreate", FALSE)
       \/ /\ CanFail(Src(c)) \/ (~Exists(Src(c)) /\ ~CanWrite(Src(c)))
          /\ Respond(c, 500)
          /\ UNCHANGED tree
    /\ UNCHANGED << table, now, issued, fsmu, known >>

LockRefused(c) ==
    /\ At(c, "lockCreate")
    /\ \/ Conflict(Swept, Src(c), Call(c).depth) # {} /\ Respond(c, 423)
       \/ /\ Conflict(Swept, Src(c), Call(c).depth) = {} /\ IsFull(Swept)
          /\ Respond(c, 500)
    /\ table' = Swept
    /\ UNCHANGED << tree, now, issued, fsmu, known >>

LockGranted(c) ==
    /\ At(c, "lockCreate")
    /\ Conflict(Swept, Src(c), Call(c).depth) = {} /\ ~IsFull(Swept)
    /\ \E t \in Token \ issued, timeout \in Timeouts :
          /\ table' = Insert(Swept, t, [path |-> Src(c), depth |-> Call(c).depth,
                                        expiry |-> now + timeout])
          /\ issued' = issued \cup {t}
          /\ req' = [req EXCEPT ![c] =
                [Done(@, IF req[c].existed THEN 200 ELSE 201) EXCEPT !.granted = {t}]]
    /\ UNCHANGED << tree, now, fsmu, known >>

\* newToken fails.
LockNoToken(c) ==
    /\ At(c, "lockCreate")
    /\ Conflict(Swept, Src(c), Call(c).depth) = {} /\ ~IsFull(Swept)
    /\ table' = Swept
    /\ Respond(c, 500)
    /\ UNCHANGED << tree, now, issued, fsmu, known >>

RefreshLock(c) ==
    /\ At(c, "refresh")
    /\ \/ /\ \E t \in Refreshable(Swept, Src(c), req[c].tokens), timeout \in Timeouts :
                table' = Extend(Swept, t, now + timeout)
          /\ Respond(c, 200)
       \/ /\ Refreshable(Swept, Src(c), req[c].tokens) = {}
          /\ table' = Swept
          /\ Respond(c, 412)
    /\ UNCHANGED << tree, now, issued, fsmu, known >>

\* UNLOCK carries one token in its Lock-Token header.
UnlockLock(c) ==
    /\ At(c, "unlock")
    /\ \/ req[c].tokens = {} /\ Respond(c, 400) /\ UNCHANGED table
       \/ \E t \in req[c].tokens :
             \/ /\ Refreshable(Swept, Src(c), {t}) # {}
                /\ table' = Unlock(Swept, Src(c), t)
                /\ Respond(c, 204)
             \/ /\ Refreshable(Swept, Src(c), {t}) = {}
                /\ table' = Swept
                /\ Respond(c, 409)
    /\ UNCHANGED << tree, now, issued, fsmu, known >>

-----------------------------------------------------------------------------
Tick ==
    /\ now < MaxTime
    /\ now' = now + 1
    /\ UNCHANGED << tree, table, issued, fsmu, req, known >>

\* The process dies: its lock table and the requests in flight go, the tree
\* stays as the last step left it.
Crash ==
    /\ table' = EmptyTable
    /\ fsmu' = Nobody
    /\ req' = [c \in Client |-> Idle]
    /\ UNCHANGED << tree, now, issued, known >>

Init ==
    /\ tree = InitTree
    /\ table = EmptyTable
    /\ now = 0
    /\ issued = {}
    /\ fsmu = Nobody
    /\ req = [c \in Client |-> Idle]
    /\ known = [c \in Client |-> {}]

\* What only the client decides: whether, and when, a body comes.
Await(c) == BodyArrives(c) \/ BodyFails(c) \/ MkcolBody(c) \/ MkcolNoBody(c)

\* What the server does for a request, the waiting for its body aside.
Serve(c) ==
    \/ Deliver(c) \/ CheckPasses(c) \/ CheckRefused(c)
    \/ PutStat(c) \/ PutWrite(c)
    \/ MkcolRefused(c) \/ Mkcol(c)
    \/ DeleteRefused(c) \/ DeleteAll(c) \/ DeletePartly(c) \/ ReleaseSource(c)
    \/ PrepareRefused(c) \/ PrepareFresh(c) \/ PrepareOverwrite(c)
    \/ PreparePartly(c) \/ ReleaseDestination(c)
    \/ Rename(c) \/ RenameFails(c) \/ Copy(c) \/ CopyPartly(c) \/ CopyOfNothing(c)
    \/ LockStat(c) \/ LockRefused(c) \/ LockGranted(c) \/ LockNoToken(c)
    \/ RefreshLock(c) \/ UnlockLock(c)

Next ==
    \/ \E c \in Client, call \in Requests : Receive(c, call) \/ RefuseRoot(c, call)
    \/ \E c \in Client : Await(c) \/ Serve(c)
    \/ Tick
    \/ Crash

Spec == Init /\ [][Next]_vars

\* A goroutine that waits for a mutex gets it in the end: sync.Mutex hands
\* over to a waiter of a millisecond (its starvation mode), so the fairness is
\* strong.  Nothing is assumed of clients: not that a body ever arrives.
FairSpec == Spec /\ \A c \in Client : SF_vars(Serve(c))

-----------------------------------------------------------------------------
PCs == {"idle", "check", "checkDst", "stat", "body", "write", "probe", "mkcol",
        "remove", "release", "prepare", "releaseDst", "transfer", "lockStat", "lockCreate",
        "refresh", "unlock", "answered"}

\* The types, with the shape of the tree.
TypeOK ==
    /\ TreeShape(tree)
    /\ TypedTable(table)
    /\ now \in 0..MaxTime
    /\ issued \subseteq Token
    /\ fsmu \in Client \cup {Nobody}
    /\ \A c \in Client : /\ req[c].pc \in PCs
                         /\ ~At(c, "idle") => Call(c) \in Calls
                         /\ known[c] \subseteq issued

\* The locks a request's act on p runs into.
Covering(p) ==
    {t \in DOMAIN Swept.byToken : Covers(table.byToken[t], p)}

\* The resources a request that is about to act will change by name.
Targets(c) ==
    CASE At(c, "stat") \/ At(c, "body") \/ At(c, "write") \/ At(c, "probe")
           \/ At(c, "mkcol") \/ At(c, "remove") -> {Src(c)}
      [] At(c, "prepare") -> IF Call(c).method = "MOVE" THEN {Src(c), Dst(c)}
                                                        ELSE {Dst(c)}
      [] OTHER -> {}

\* A request that is about to act holds the token of every lock that covers
\* what it names, unless the lock was granted after the request arrived.  The
\* check is not repeated when the body has been read or fsmu obtained, so a
\* lock granted in between is not seen (write.go:55, 94, 109), but one that
\* was there first always is: it cannot have been asked about too early, at
\* the wrong path, or at one end of a MOVE only (write.go:371-381).
ActsWithinLocks ==
    \A c \in Client : \A p \in Targets(c) :
        Covering(p) \cap req[c].since \subseteq req[c].tokens

\* A request the handler itself refuses has not touched the tree: every
\* question is asked before the first change.  The answers that pass on an
\* error of the driver (500 here, whatever statusFor makes of it in the code)
\* promise nothing, and LOCK is left out: see DeepLocksBlockNewMembers.
RefusalsChangeNothing ==
    \A c \in Client :
        At(c, "answered") /\ Call(c).method # "LOCK"
            /\ req[c].status \in {400, 403, 405, 409, 412, 415, 423}
        => ~req[c].touched

\* The step of the next property.
RowsTell(c) ==
    LET rows    == req'[c].rows
        removed == IF Call(c).method = "DELETE" THEN Src(c) ELSE Dst(c)
    IN  ~At(c, "idle") /\ ~At(c, "answered") /\ (At(c, "answered"))' /\ req'[c].status = 207 =>
          IF At(c, "remove") \/ At(c, "prepare")
          THEN /\ rows # {} /\ rows \subseteq DOMAIN tree'
               /\ \A p, q \in rows : ~StrictlyUnder(p, q)
               /\ \A p \in Members(removed) \cap DOMAIN tree' :
                     \E r \in rows : Under(r, p) \/ Under(p, r)
          ELSE \A q \in ToCopy(Src(c), Call(c).depth) :
                  \/ Rebase(Src(c), Dst(c), q) \in DOMAIN tree'
                  \/ \E r \in rows : Under(r, Rebase(Src(c), Dst(c), q))

\* A 207 tells what is left, not what is gone (write.go:208-210): every member
\* a DELETE or an overwrite names is still there, no row is derived from
\* another (write.go:252-254), and everything left is a member with a row, or
\* above or beneath one.  A COPY that says a member failed has copied all that
\* is not beneath such a member.
RowsTellWhatIsLeft == [][\A c \in Client : RowsTell(c)]_vars

\* The steps of the next two properties.
ReleasesOnlyGone ==
    \A t \in DOMAIN Swept.byToken :
       \/ t \in DOMAIN table'.byToken
       \/ ~Exists(table.byToken[t].path)
       \/ \E c \in Client : /\ At(c, "unlock") /\ t \in req[c].tokens
                            /\ At(c, "answered")' /\ req'[c].status = 204
       \/ table' = EmptyTable /\ \A c \in Client : req'[c] = Idle

TakenWithItsLock(path) ==
    Exists(path) /\ path \notin DOMAIN tree' =>
        \E c \in Client :
           /\ req'[c] # req[c]
           /\ \/ req'[c].status = 207
              \/ fsmu' = c /\ At(c, "release")' /\ Under(Src(c), path)
              \/ fsmu' = c /\ At(c, "releaseDst")' /\ Under(Dst(c), path)

SourceReleased(c) ==
    /\ ~At(c, "idle") /\ ~At(c, "answered") /\ At(c, "answered")'
    /\ Call(c).method \in {"DELETE", "MOVE"} /\ req'[c].status \in {201, 204}
    => \A t \in DOMAIN table'.byToken : ~Under(Src(c), table'.byToken[t].path)

DestinationReleased(c) ==
    At(c, "releaseDst") /\ ~(At(c, "releaseDst")') =>
        \A t \in DOMAIN table'.byToken : ~Under(Dst(c), table'.byToken[t].path)

\* A lock that is in force goes only when its holder unlocks it, when the
\* process dies, or when its resource is no longer there: releaseTree
\* (lock.go:271) never takes a lock from a resource that a failed or refused
\* request left in place.
ReleasedOnlyWhenGone == [][ReleasesOnlyGone]_vars

\* No lock is left on a name that a request has emptied, where it would block
\* whoever creates it next (lock.go:267-270).  A step that takes a locked
\* resource away answers 207, which releases nothing, or keeps fsmu and goes on
\* to release what it removed; when a DELETE or a MOVE has succeeded no lock
\* stands on its source or beneath it, whoever was granted one meanwhile, and
\* none on an overwritten destination when the transfer begins.
LocksGoWithTheirResource ==
    [][/\ \A c \in Client : SourceReleased(c) /\ DestinationReleased(c)
       /\ \A t \in DOMAIN Swept.byToken : TakenWithItsLock(table.byToken[t].path)]_vars

\* A lock of depth infinity blocks writes anywhere beneath it (lock.go:46-47):
\* nothing new appears there but by a request that submits its token, or that
\* arrived before the lock was granted.  LOCK itself does not keep this: it
\* creates the missing resource before it asks for the lock.
DeepLocksBlockNewMembers ==
    [][\A p \in DOMAIN tree' \ DOMAIN tree, t \in DOMAIN Swept.byToken :
          /\ table.byToken[t].depth = "infinity"
          /\ StrictlyUnder(table.byToken[t].path, p)
          => \E c \in Client : /\ req'[c] # req[c]
                               /\ t \in req[c].tokens \/ t \notin req[c].since]_vars

\* A lock in force goes only with the process, or by a request that submits
\* its token, or that arrived before the lock was granted: one that conflicts
\* with it and does not submit it is refused (README.md:195-196).  Requests
\* on a collection are not checked against the locks on its members.
LocksGoOnlyByToken ==
    [][\A t \in DOMAIN Swept.byToken :
          \/ t \in DOMAIN table'.byToken
          \/ \E c \in Client : /\ ~At(c, "idle") /\ req'[c] # req[c]
                               /\ t \in req[c].tokens \/ t \notin req[c].since
          \/ table' = EmptyTable /\ \A c \in Client : req'[c] = Idle]_vars

\* Every request is answered or waits for its own client's body, whatever
\* other clients do with theirs: a stalled upload blocks nobody, and the two
\* mutexes, taken in the order fsmu, ls.mu, never deadlock.
StalledUploadsBlockNobody ==
    \A c \in Client : (~At(c, "idle") ~> (At(c, "idle") \/ At(c, "body") \/ At(c, "probe")))

=============================================================================
