------------------------------ MODULE Listing ------------------------------
(***************************************************************************)
(* PROPFIND, the index of a collection, and PROPPATCH (propfind.go,        *)
(* get.go:125-176).  A listing is made and sent to its client under one    *)
(* hold of fsmu; the capacity of the volume is asked for in between, and   *)
(* can change between two questions.  A row shows of a resource what Stat  *)
(* said of it; lockdiscovery is LockTable's Find and is left out.          *)
(***************************************************************************)
EXTENDS Driver

\* What a PROPFIND asks for, and its Depth; the index asks for less.
Bodies == {"allprop", "propname", "quota"}
ASSUME AsksAssumption == Asks \subseteq Bodies
Depths == {"zero", "one"}
Quota  == << "available", "used" >>

\* infoFromStat, and the row of a resource whose Stat failed.
Shows(r) == << r.kind, Len(r.bytes) >>
Failed   == << "failed", 0 >>

\* names: the quota properties the row is to have; given: those it has values
\* for; todo: those it has still to ask for.
Row(shows, names, todo) ==
    [shows |-> shows, names |-> names, given |-> {}, todo |-> todo]

\* The rows are done when every resource has one and no value is due.
Due(c)      == {p \in DOMAIN req[c].rows : req[c].rows[p].todo # << >>}
Unlisted(c) == req[c].members \ DOMAIN req[c].rows
Listed(c)   == Due(c) = {} /\ Unlisted(c) = {}

WithRow(c, p, row) ==
    [q \in DOMAIN req[c].rows \cup {p} |-> IF q = p THEN row ELSE req[c].rows[q]]

Listing(p, asks, depth, pc, members, list) ==
    [pc |-> pc, name |-> p, asks |-> asks, depth |-> depth, members |-> members,
     list |-> list, rows |-> << >>]

\* parseDepth and parsePropfind accept the request.
Propfind(c, p, asks, depth) ==
    /\ At(c, "idle")
    /\ req' = [req EXCEPT ![c] = Listing(p, asks, depth, "propfind", {p}, FALSE)]
    /\ UNCHANGED << dir, seek, fsmu, handles, opener, capacity >>

\* Mutant of Self: the listing is made without fsmu.
SelfUnlocked(c) ==
    /\ At(c, "propfind") /\ FsFree
    /\ Stat(req[c].name) # Missing
    /\ req' = [req EXCEPT ![c].pc = "rows",
                         ![c].list = req[c].depth = "one" /\ Stat(req[c].name) = Folder]
    /\ UNCHANGED << dir, seek, fsmu, handles, opener, capacity >>

Self(c) ==
    /\ At(c, "propfind") /\ FsFree
    /\ Stat(req[c].name) # Missing
    /\ req' = [req EXCEPT ![c].pc = "rows",
                         ![c].list = req[c].depth = "one" /\ Stat(req[c].name) = Folder]
    /\ Take(c)
    /\ UNCHANGED << dir, seek, handles, opener, capacity >>

SelfFails(c) ==
    /\ At(c, "propfind") /\ FsFree
    /\ Answer(c)
    /\ UNCHANGED << dir, seek, fsmu, handles, opener, capacity >>

\* GET of a collection has fsmu already, and no row for itself.
Index(c) ==
    /\ At(c, "get") /\ FsFree
    /\ Stat(req[c].name) = Folder
    /\ req' = [req EXCEPT ![c] = Listing(req[c].name, "index", "one", "rows", {}, TRUE)]
    /\ Take(c)
    /\ UNCHANGED << dir, seek, handles, opener, capacity >>

\* The members come after the row of the collection itself.
ListDir(c) ==
    /\ At(c, "rows") /\ Listed(c) /\ req[c].list
    /\ req' = [req EXCEPT ![c].list = FALSE, ![c].members = @ \cup Members(req[c].name)]
    /\ UNCHANGED << dir, seek, fsmu, handles, opener, capacity >>

ListDirFails(c) ==
    /\ At(c, "rows") /\ Listed(c) /\ req[c].list
    /\ Answer(c)
    /\ Give
    /\ UNCHANGED << dir, seek, handles, opener, capacity >>

\* propNames asks the capacity whether a collection has the quota properties;
\* a client may also ask for them by name.
QuotaNames(c, shows) ==
    CASE req[c].asks = "quota" -> Range(Quota)
      [] req[c].asks \in {"allprop", "propname"} ->
            IF shows[1] = "dir" /\ capacity THEN Range(Quota) ELSE {}
      [] OTHER -> {}

\* One row: info, and respond up to the first value that is asked for.
Respond(c) ==
    /\ At(c, "rows") /\ Due(c) = {}
    /\ \E p \in Unlisted(c) :
          LET shows == Shows(Stat(p))
              names == QuotaNames(c, shows)
          IN  req' = [req EXCEPT ![c].rows =
                 WithRow(c, p, Row(shows, names,
                    IF req[c].asks \in {"allprop", "quota"} /\ shows[1] = "dir" /\ names # {}
                    THEN Quota ELSE << >>))]
    /\ UNCHANGED << dir, seek, fsmu, handles, opener, capacity >>

\* A member that Stat cannot describe has a row that says so.
RespondFailed(c) ==
    /\ At(c, "rows") /\ Due(c) = {}
    /\ \E p \in Unlisted(c) \ {req[c].name} :
          req' = [req EXCEPT ![c].rows = WithRow(c, p, Row(Failed, {}, << >>))]
    /\ UNCHANGED << dir, seek, fsmu, handles, opener, capacity >>

\* propValue asks the capacity again, for each of the two.
PropValue(c) ==
    /\ At(c, "rows")
    /\ \E p \in Due(c) :
          LET row == req[c].rows[p]
          IN  req' = [req EXCEPT ![c].rows = WithRow(c, p,
                 [row EXCEPT !.todo = Tail(row.todo),
                             !.given = IF capacity THEN @ \cup {Head(row.todo)} ELSE @])]
    /\ UNCHANGED << dir, seek, fsmu, handles, opener, capacity >>

\* writeMultistatus, or the index's Write, with fsmu still held.
WriteRows(c) ==
    /\ At(c, "rows") /\ Listed(c) /\ ~req[c].list
    /\ Go(c, "reply")
    /\ UNCHANGED << dir, seek, fsmu, handles, opener, capacity >>

\* The client takes the response, in its own time; the deferred Unlock.
ClientTakesRows(c) ==
    /\ At(c, "reply")
    /\ req' = [req EXCEPT ![c] = Idle]
    /\ Give
    /\ UNCHANGED << dir, seek, handles, opener, capacity >>

\* PROPPATCH: one Stat under fsmu, and 403 for every property.
Proppatch(c) ==
    /\ At(c, "idle")
    /\ req' = [req EXCEPT ![c] = [pc |-> "proppatch"]]
    /\ UNCHANGED << dir, seek, fsmu, handles, opener, capacity >>

ProppatchDone(c) ==
    /\ At(c, "proppatch") /\ FsFree
    /\ Answer(c)
    /\ UNCHANGED << dir, seek, fsmu, handles, opener, capacity >>

ListSteps(c) ==
    \/ Self(c) \/ SelfFails(c) \/ Index(c) \/ ListDir(c) \/ ListDirFails(c)
    \/ Respond(c) \/ RespondFailed(c) \/ PropValue(c) \/ WriteRows(c)
    \/ ProppatchDone(c)

-----------------------------------------------------------------------------
\* The rows a client is sent are the directory of one moment: each shows its
\* resource as it is, and none of a listing of depth one is missing or gone,
\* whoever writes meanwhile.
RowsOfOneMoment ==
    \A c \in Client : At(c, "reply") =>
        /\ DOMAIN req[c].rows \ {req[c].name} =
              IF req[c].depth = "one" THEN Members(req[c].name) ELSE {}
        /\ \A p \in DOMAIN req[c].rows :
              req[c].rows[p].shows \in {Shows(Stat(p)), Failed}

\* propNames lists only names propValue knows: no request can reach a property
\* that has a name and no value (propfind.go:260-263).  The two ask the capacity
\* one after the other, and what they are told may differ.
NamedPropertiesHaveValues ==
    \A c \in Client : At(c, "reply") /\ req[c].asks = "allprop" =>
        \A p \in DOMAIN req[c].rows : req[c].rows[p].names \subseteq req[c].rows[p].given

=============================================================================
