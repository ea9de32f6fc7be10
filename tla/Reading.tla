------------------------------ MODULE Reading ------------------------------
(***************************************************************************)
(* All the reading methods of one Handler at once, with writers: files     *)
(* served at their clients' pace, listings made under fsmu, and the one    *)
(* driver beneath them.                                                    *)
(***************************************************************************)
EXTENDS ReadFile, Listing

Init ==
    /\ dir \in [Name -> {Version(v) : v \in DOMAIN Size}]
    /\ seek = Left
    /\ fsmu = Nobody
    /\ handles = {}
    /\ opener \in BOOLEAN
    /\ capacity = TRUE
    /\ req = [c \in Client |-> Idle]

\* What clients decide: to ask, and when to take what they are sent.
Ask(c) ==
    \/ Proppatch(c)
    \/ \E p \in Name \cup {Root} :
        \/ Get(c, p)
        \/ \E asks \in Asks, depth \in Depths : Propfind(c, p, asks, depth)

Await(c) == ClientTakes(c) \/ ClientLeaves(c) \/ ClientTakesRows(c)

Serve(c) == GetSteps(c) \/ ListSteps(c) \/ Deliver(c)

Write ==
    \E n \in Name : PutFile(n) \/ MakeDir(n) \/ Remove(n)

Next ==
    \/ \E c \in Client : Ask(c) \/ Await(c) \/ Serve(c)
    \/ Write
    \/ CapacityChanges

Spec == Init /\ [][Next]_vars

\* A goroutine that waits for fsmu gets it in the end (sync.Mutex's
\* starvation mode), so the fairness is strong.  Nothing is assumed of clients.
FairSpec == Spec /\ \A c \in Client : SF_vars(Serve(c))

-----------------------------------------------------------------------------
PCs == {"idle", "answered", "get", "open", "serve", "read", "reading", "send",
        "close", "closing", "propfind", "rows", "reply", "proppatch"}

\* The types, with the steps at which a request has fsmu: no other step of
\* its life has it, and no two requests do.
TypeOK ==
    /\ DOMAIN dir \subseteq Name
    /\ \A n \in DOMAIN dir : dir[n] \in {Folder} \cup {Version(v) : v \in DOMAIN Size}
    /\ handles \subseteq Client
    /\ \A c \in Client :
          /\ req[c].pc \in PCs
          /\ Holds(c) <=> req[c].pc \in {"open", "reading", "rows", "reply"}

\* The requests inside a call of the driver's: they hold its mutex, or they
\* are closing its file.
InDriver(c) == (Holds(c) /\ ~At(c, "reply")) \/ At(c, "closing")

\* fsmu serialises all access to the exported filesystem (server.go:93).  The
\* closer of a file does not take it (get.go:99).
DriverCallsSerialised ==
    \A c, d \in Client : InDriver(c) /\ InDriver(d) => c = d

\* A slow client cannot hold the driver hostage while it takes a body
\* (get.go:37-40): every request is answered, or waits for its own client, or
\* for the client of a listing, whose response is written with fsmu held.
StalledBodiesBlockNobody ==
    \A c \in Client :
        ~At(c, "idle") ~> \/ At(c, "idle") \/ At(c, "send")
                          \/ \E d \in Client : At(d, "reply")

=============================================================================
