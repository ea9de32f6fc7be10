------------------------------- MODULE Driver -------------------------------
(***************************************************************************)
(* What the reading methods share: one exported directory, the driver that *)
(* reads it through a single file with a single seek position              *)
(* (server.go:93-99), the mutex in front of that driver, and the writers,  *)
(* which change the directory under the same mutex.  A byte is its version *)
(* and its place in it, so a body shows where it came from.                *)
(***************************************************************************)
EXTENDS Integers, Sequences, FiniteSets, Functions

CONSTANTS
    Client,
    Name,        \* the names the root may hold
    Asks,        \* what the bodies of PROPFINDs ask for
    Size         \* the versions a file may have, and the length of each

Root    == "root"
Nobody  == "nobody"
Missing == [kind |-> "missing", bytes |-> << >>]
Folder  == [kind |-> "dir", bytes |-> << >>]
Version(v) == [kind |-> "file", bytes |-> [i \in 1..Size[v] |-> << v, i >>]]

ASSUME DriverAssumption ==
    /\ Root \notin Name /\ Nobody \notin Client
    /\ Size \in [DOMAIN Size -> Nat]

VARIABLES
    dir,         \* the exported tree: name to Folder or to a version
    seek,        \* where the driver's one file was last positioned
    fsmu,        \* who holds Handler.fsmu across steps, or Nobody
    handles,     \* the requests the driver has a file open for
    opener,      \* whether the driver implements Opener
    capacity,    \* whether the capacity function knows the total
    req          \* the request each client has in flight

vars == << dir, seek, fsmu, handles, opener, capacity, req >>

Idle      == [pc |-> "idle"]
At(c, pc) == req[c].pc = pc
Go(c, pc) == req' = [req EXCEPT ![c].pc = pc]
Answer(c) == req' = [req EXCEPT ![c] = [pc |-> "answered"]]

FsFree   == fsmu = Nobody
Take(c)  == fsmu' = c
Holds(c) == fsmu = c
Give     == fsmu' = Nobody

\* Stat, and ListDir without the entries "." and "..".
Stat(p)    == IF p = Root THEN Folder
              ELSE IF p \in DOMAIN dir THEN dir[p] ELSE Missing
Members(p) == IF p = Root THEN DOMAIN dir ELSE {}

With(n, r) == [m \in DOMAIN dir \cup {n} |-> IF m = n THEN r ELSE dir[m]]

\* A GET that has its file open.
HasOpen(c) == ~At(c, "idle") /\ "opened" \in DOMAIN req[c]

\* A writer's section under fsmu.  A request whose file is written meanwhile
\* is marked, for the properties only.
Becomes(new) ==
    /\ FsFree
    /\ dir' = new
    /\ req' = [c \in Client |->
                 IF HasOpen(c) /\ (req[c].name \notin DOMAIN new
                                   \/ new[req[c].name] # Stat(req[c].name))
                 THEN [req[c] EXCEPT !.written = TRUE] ELSE req[c]]
    /\ UNCHANGED << seek, fsmu, handles, opener, capacity >>

PutFile(n) ==
    /\ Stat(n) # Folder
    /\ \E v \in DOMAIN Size : Becomes(With(n, Version(v)))

MakeDir(n) == Stat(n) = Missing /\ Becomes(With(n, Folder))

Remove(n) == Stat(n) # Missing /\ Becomes(Restrict(dir, DOMAIN dir \ {n}))

\* The caller's function, asked at any time, may come to know the total, or
\* no longer know it.
CapacityChanges ==
    /\ capacity' = ~capacity
    /\ UNCHANGED << dir, seek, fsmu, handles, opener, req >>

\* The response was small enough to go without waiting for the client.
Deliver(c) ==
    /\ At(c, "answered")
    /\ req' = [req EXCEPT ![c] = Idle]
    /\ UNCHANGED << dir, seek, fsmu, handles, opener, capacity >>

=============================================================================
