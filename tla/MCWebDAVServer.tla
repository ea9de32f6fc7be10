-------------------------- MODULE MCWebDAVServer ---------------------------
(***************************************************************************)
(* Two clients on a tree of two collections.  The requests are the ones    *)
(* that can meet: on /a, on its member /a/b, and on /c, the place things   *)
(* are moved and copied to.                                                *)
(***************************************************************************)
EXTENDS WebDAVServer, TLC

MCName     == {"a", "b", "c"}
A  == <<"a">>
AB == <<"a", "b">>
C  == <<"c">>
CB == <<"c", "b">>
MCResource == {Root, A, AB, C, CB}

MCInitTree == Put(Put(Put(<< >>, Root, "dir"), A, "dir"), AB, "file")

On(method, path) ==
    [method |-> method, path |-> path, dst |-> path, depth |-> "zero",
     overwrite |-> "T"]
To(method, path, dst, depth, overwrite) ==
    [method |-> method, path |-> path, dst |-> dst, depth |-> depth,
     overwrite |-> overwrite]
Deep(call) == [call EXCEPT !.depth = "infinity"]

\* What meets over locks: /a, what is in it, and where it is moved to.
MCLockRequests ==
    {On("PUT", AB), On("DELETE", A), Deep(On("LOCK", A)), On("LOCK", C),
     On("UNLOCK", A), On("REFRESH", A), To("MOVE", A, C, "zero", "T")}

\* Locks on a collection and on its member, and what removes them.
MCMemberRequests ==
    {On("LOCK", AB), Deep(On("LOCK", A)), On("DELETE", AB), On("DELETE", A)}

\* What changes the tree.
MCTreeRequests ==
    {On("PUT", Root), On("PUT", AB), On("MKCOL", AB), On("DELETE", A),
     To("COPY", A, C, "infinity", "F"), To("COPY", AB, A, "zero", "T"),
     To("COPY", AB, C, "zero", "bad"), To("MOVE", AB, A, "zero", "T"),
     To("MOVE", A, C, "zero", "T")}

\* Where the driver may fail: on the member; on the collections as well.
MCUnreliable     == {AB}
MCTreeUnreliable == {A, AB, C}

MCSymmetry == Permutations(Client) \cup Permutations(Token)
=============================================================================
