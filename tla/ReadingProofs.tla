--------------------------- MODULE ReadingProofs ----------------------------
(***************************************************************************)
(* What readers are promised, for any number of clients and names, any     *)
(* versions of any length, and either kind of driver: the inductive        *)
(* invariant of Reading and the properties that follow from it.            *)
(***************************************************************************)
EXTENDS Reading, SequenceTheorems, TLAPS

Sending == {"serve", "read", "reading", "send"}
Served  == Sending \cup {"close", "closing"}
Rowing  == {"propfind", "rows", "reply"}
Holding == {"open", "reading", "rows", "reply"}
Byte    == (DOMAIN Size) \X Nat

\* A GET with its file open: the interval it was asked for, and no more of it
\* in the body.
SendOK(r) ==
    /\ DOMAIN r = {"pc", "name", "tag", "host", "opened", "from", "to", "body", "written"}
    /\ r.pc \in Sending
    /\ r.host \in BOOLEAN /\ r.written \in BOOLEAN
    /\ r.opened \in Seq(Byte) /\ r.body \in Seq(Byte)
    /\ r.from \in Nat /\ r.to \in Nat /\ r.from <= r.to /\ r.to <= Len(r.opened)
    /\ Len(r.body) <= r.to - r.from
    /\ r.pc = "serve" => r.body = << >>
    /\ r.pc \in {"read", "reading"} => Len(r.body) < r.to - r.from
    /\ r.tag = ETag(r.name, r.opened)

\* Whatever it shows, a row has these fields.
RowOK(row) == DOMAIN row = {"shows", "names", "given", "todo"}

ListOK(r) ==
    /\ DOMAIN r = {"pc", "name", "asks", "depth", "members", "list", "rows"}
    /\ r.pc \in Rowing
    /\ r.list \in BOOLEAN
    /\ DOMAIN r.rows \subseteq r.members
    /\ \A p \in DOMAIN r.rows : RowOK(r.rows[p])
    /\ r.pc = "propfind" => r.rows = << >> /\ r.members = {r.name} /\ ~r.list
    /\ r.list => r.depth = "one" /\ r.members \subseteq {r.name}
    /\ r.pc = "reply" =>
          ~r.list /\ r.members = DOMAIN r.rows

RequestOK(r) ==
    \/ r.pc \in {"idle", "answered", "proppatch"} /\ DOMAIN r = {"pc"}
    \/ r.pc = "get" /\ DOMAIN r = {"pc", "name"}
    \/ r.pc = "open" /\ DOMAIN r = {"pc", "name", "tag"}
    \/ SendOK(r)
    \/ r.pc \in {"close", "closing"} /\ DOMAIN r = {"pc", "host"} /\ r.host \in BOOLEAN
    \/ ListOK(r)

DirInv ==
    /\ DOMAIN dir \subseteq Name
    /\ \A n \in DOMAIN dir : dir[n] \in {Folder} \cup {Version(v) : v \in DOMAIN Size}

TypeInv ==
    /\ DirInv
    /\ opener \in BOOLEAN /\ capacity \in BOOLEAN
    /\ DOMAIN req = Client
    /\ \A c \in Client : RequestOK(req[c])

\* Who has fsmu, and who the driver has a file open for.
MutexInv ==
    /\ fsmu \in Client \cup {Nobody}
    /\ \A c \in Client : req[c].pc \in Holding <=> fsmu = c

HandlesInv == handles = {c \in Client : opener /\ req[c].pc \in Served}

(* What a request took from the state, and whether it is still so. *)

\* Until somebody writes the file, its bytes are the ones that were opened, and
\* what was sent is of them.  What is sent of a copy always is.
SendView(r) ==
    /\ ~r.written => Stat(r.name).bytes = r.opened
    /\ ~r.written \/ ~opener =>
          \A i \in 1..Len(r.body) : r.body[i] = r.opened[r.from + i]
    /\ ~opener => ~r.host

\* A listing that is past listing has the directory's members, and its rows are
\* of now.
ListView(r) ==
    /\ ~r.list => r.members \ {r.name} = IF r.depth = "one" THEN Members(r.name) ELSE {}
    /\ \A p \in DOMAIN r.rows : r.rows[p].shows \in {Shows(Stat(p)), Failed}

View(c) ==
    /\ At(c, "open") => req[c].tag = ETag(req[c].name, Stat(req[c].name).bytes)
    /\ req[c].pc \in Sending => SendView(req[c])
    /\ At(c, "reading") => opener /\ seek = << req[c].name, Offset(c) >>
    /\ req[c].pc \in {"rows", "reply"} => ListView(req[c])

IInv ==
    /\ TypeInv /\ MutexInv /\ HandlesInv
    /\ \A c \in Client : View(c)

-----------------------------------------------------------------------------
(* The directory. *)

LEMMA VersionIs ==
    ASSUME NEW v \in DOMAIN Size
    PROVE  Version(v).bytes \in Seq(Byte) /\ Version(v).kind = "file"
<1>1. Size[v] \in Nat
  BY DriverAssumption
<1>2. \A i \in 1..Size[v] : << v, i >> \in Byte
  BY <1>1 DEF Byte
<1>3. [i \in 1..Size[v] |-> << v, i >>] \in Seq(Byte)
  BY <1>1, <1>2
<1>. QED
  BY <1>3 DEF Version

LEMMA StatIs ==
    ASSUME DirInv, NEW p
    PROVE  /\ Stat(p).bytes \in Seq(Byte)
           /\ Stat(p).kind = "file" => p \in DOMAIN dir
           /\ Stat(p) # Folder => Members(p) = {}
           /\ Root \notin Members(p)
<1>1. Folder.bytes = << >> /\ Folder.kind = "dir"
  BY DEF Folder
<1>2. Missing.bytes = << >> /\ Missing.kind = "missing"
  BY DEF Missing
<1>3. << >> \in Seq(Byte)
  OBVIOUS
<1>4. ASSUME p \in DOMAIN dir PROVE dir[p].bytes \in Seq(Byte)
  BY <1>1, <1>3, <1>4, VersionIs DEF DirInv
<1>5. Stat(p).bytes \in Seq(Byte)
  BY <1>1, <1>2, <1>3, <1>4 DEF Stat
<1>6. Stat(p).kind = "file" => p \in DOMAIN dir
  BY <1>1, <1>2 DEF Stat
<1>7. Stat(p) # Folder => Members(p) = {}
  BY DEF Stat, Members
<1>8. Root \notin Members(p)
  BY DriverAssumption DEF Members, DirInv
<1>. QED
  BY <1>5, <1>6, <1>7, <1>8

LEMMA HasOpenIs ==
    ASSUME TypeInv, NEW c \in Client
    PROVE  HasOpen(c) <=> req[c].pc \in Sending
<1>1. RequestOK(req[c])
  BY DEF TypeInv
<1>. QED
  BY <1>1 DEF RequestOK, SendOK, ListOK, HasOpen, At, Sending, Rowing

LEMMA ClientIsSomebody == Nobody \notin Client
BY DriverAssumption

-----------------------------------------------------------------------------
(* A step of a client's request leaves the directory, the kind of driver    *)
(* and the other requests as they are.                                      *)

Alone(c) ==
    /\ c \in Client
    /\ DOMAIN req' = Client
    /\ \A d \in Client \ {c} : req'[d] = req[d]
    /\ dir' = dir /\ opener' = opener /\ capacity' = capacity

MutexStep(c) ==
    \/ fsmu' = fsmu /\ (req'[c].pc \in Holding <=> req[c].pc \in Holding)
    \/ FsFree /\ fsmu' = c /\ req'[c].pc \in Holding
    \/ Holds(c) /\ fsmu' = Nobody /\ req'[c].pc \notin Holding

HandleStep(c) ==
    \/ handles' = handles /\ (req'[c].pc \in Served <=> req[c].pc \in Served)
    \/ opener /\ handles' = handles \cup {c} /\ req'[c].pc \in Served
    \/ ~opener /\ handles' = handles
    \/ handles' = handles \ {c} /\ req'[c].pc \notin Served

Goes(c) ==
    /\ Alone(c)
    /\ RequestOK(req'[c])
    /\ MutexStep(c)
    /\ HandleStep(c)
    /\ seek' = seek \/ FsFree \/ Holds(c)
    /\ View(c)'

LEMMA StatKept ==
    ASSUME NEW c, Alone(c), NEW p
    PROVE  Stat(p)' = Stat(p) /\ Members(p)' = Members(p)
BY DEF Alone, Stat, Members

\* Nobody else sees it.
LEMMA OthersSeeTheSame ==
    ASSUME IInv, NEW c, Goes(c), NEW d \in Client \ {c}
    PROVE  View(d)'
<1>1. View(d) /\ req'[d] = req[d] /\ Alone(c)
  BY DEF IInv, Goes, Alone
<1>2. ASSUME At(d, "open")'
      PROVE  (req[d].tag = ETag(req[d].name, Stat(req[d].name).bytes))'
  <2>1. req[d].tag = ETag(req[d].name, Stat(req[d].name).bytes)
    BY <1>1, <1>2 DEF View, At
  <2>2. Stat(req[d].name)' = Stat(req[d].name)
    BY <1>1, StatKept
  <2>. QED
    BY <1>1, <2>1, <2>2 DEF ETag
<1>3. ASSUME req'[d].pc \in Sending PROVE SendView(req[d])'
  <2>1. SendView(req[d])
    BY <1>1, <1>3 DEF View
  <2>2. Stat(req[d].name)' = Stat(req[d].name)
    BY <1>1, StatKept
  <2>3. opener' = opener
    BY <1>1 DEF Alone
  <2>. QED
    BY <1>1, <2>1, <2>2, <2>3 DEF SendView
<1>4. ASSUME At(d, "reading")' PROVE opener' /\ seek' = << req'[d].name, Offset(d)' >>
  <2>1. fsmu = d
    BY <1>1, <1>4 DEF IInv, MutexInv, At, Holding
  <2>2. seek' = seek
    BY <2>1, ClientIsSomebody DEF Goes, FsFree, Holds, Alone
  <2>. QED
    BY <1>1, <1>4, <2>2 DEF View, At, Offset, Alone
<1>5. ASSUME req'[d].pc \in {"rows", "reply"} PROVE ListView(req[d])'
  <2>1. ListView(req[d])
    BY <1>1, <1>5 DEF View
  <2>2. Members(req[d].name)' = Members(req[d].name)
    BY <1>1, StatKept
  <2>3. \A p : Stat(p)' = Stat(p)
    BY <1>1, StatKept
  <2>4. capacity' = capacity
    BY <1>1 DEF Alone
  <2>. QED
    BY <1>1, <2>1, <2>2, <2>3, <2>4 DEF ListView
<1>. QED
  BY <1>2, <1>3, <1>4, <1>5 DEF View

LEMMA GoesIsEnough ==
    ASSUME IInv, NEW c, Goes(c)
    PROVE  IInv'
<1>1. c \in Client /\ Alone(c)
  BY DEF Goes, Alone
<1>2. TypeInv'
  BY <1>1 DEF IInv, TypeInv, DirInv, Goes, Alone
<1>3. MutexInv'
  <2>1. \A d \in Client \ {c} : req'[d].pc \in Holding <=> fsmu = d
    BY <1>1 DEF IInv, MutexInv, Alone
  <2>. QED
    BY <1>1, <2>1, ClientIsSomebody DEF IInv, MutexInv, Goes, MutexStep, FsFree, Holds
<1>4. HandlesInv'
  <2>1. handles = {d \in Client : opener /\ req[d].pc \in Served}
    BY DEF IInv, HandlesInv
  <2>2. opener' = opener /\ \A d \in Client \ {c} : req'[d].pc = req[d].pc
    BY <1>1 DEF Alone
  <2>. QED
    BY <1>1, <2>1, <2>2 DEF Goes, HandleStep, HandlesInv
<1>5. \A d \in Client : View(d)'
  BY OthersSeeTheSame DEF Goes
<1>. QED
  BY <1>2, <1>3, <1>4, <1>5 DEF IInv

-----------------------------------------------------------------------------
(* What a request is, by the step it is at.                                 *)

LEMMA Shapes ==
    ASSUME IInv, NEW c \in Client
    PROVE  /\ RequestOK(req[c]) /\ View(c)
           /\ req[c].pc \in Sending => SendOK(req[c])
           /\ req[c].pc \in Rowing => ListOK(req[c])
           /\ req[c].pc \in {"close", "closing"} => req[c].host \in BOOLEAN
           /\ req[c].pc \in Holding <=> Holds(c)
<1>1. RequestOK(req[c]) /\ View(c) /\ (req[c].pc \in Holding <=> Holds(c))
  BY DEF IInv, TypeInv, MutexInv, Holds
<1>. QED
  BY <1>1 DEF RequestOK, SendOK, ListOK, Sending, Rowing

LEMMA StepTo ==
    ASSUME IInv, NEW c \in Client, NEW r, req' = [req EXCEPT ![c] = r],
           UNCHANGED << dir, opener, capacity >>
    PROVE  Alone(c) /\ req'[c] = r
BY DEF IInv, TypeInv, Alone

\* Where a request takes nothing from the state there is nothing to see.
LEMMA Unseen ==
    ASSUME NEW c, req'[c].pc \notin Sending \cup Holding
    PROVE  View(c)'
BY DEF View, At, Sending, Holding

LEMMA Quiet ==
    ASSUME IInv, NEW c \in Client, NEW r, req' = [req EXCEPT ![c] = r],
           UNCHANGED << dir, opener, capacity >>,
           r.pc \notin Sending \cup Holding, RequestOK(r),
           seek' = seek \/ Holds(c),
           fsmu' = IF Holds(c) THEN Nobody ELSE fsmu,
           \/ handles' = handles /\ (r.pc \in Served <=> req[c].pc \in Served)
           \/ handles' = handles \ {c} /\ r.pc \notin Served
    PROVE  Goes(c)
<1>1. Alone(c) /\ req'[c] = r
  BY StepTo
<1>2. View(c)'
  BY <1>1, Unseen
<1>3. MutexStep(c)
  BY <1>1, Shapes DEF MutexStep
<1>4. HandleStep(c)
  BY <1>1 DEF HandleStep
<1>. QED
  BY <1>1, <1>2, <1>3, <1>4 DEF Goes

LEMMA Plain ==
    RequestOK([pc |-> "idle"]) /\ RequestOK([pc |-> "answered"]) /\ RequestOK([pc |-> "proppatch"])
BY DEF RequestOK

\* A request that is answered, or over.
LEMMA AnswerGoes ==
    ASSUME IInv, NEW c \in Client,
           InfoRefused(c) \/ OpenFails(c) \/ SelfFails(c) \/ ListDirFails(c)
           \/ ProppatchDone(c) \/ CloseDone(c)
    PROVE  Goes(c)
<1>1. req' = [req EXCEPT ![c] = [pc |-> "answered"]]
  BY DEF InfoRefused, OpenFails, SelfFails, ListDirFails, ProppatchDone, CloseDone, Answer
<1>2. UNCHANGED << dir, opener, capacity, seek >>
  BY DEF InfoRefused, OpenFails, SelfFails, ListDirFails, ProppatchDone, CloseDone
<1>3. fsmu' = IF Holds(c) THEN Nobody ELSE fsmu
  BY Shapes DEF InfoRefused, OpenFails, SelfFails, ListDirFails, ProppatchDone, CloseDone,
                At, Holding, Give
<1>4. \/ handles' = handles /\ req[c].pc \notin Served
      \/ handles' = handles \ {c}
  BY DEF InfoRefused, OpenFails, SelfFails, ListDirFails, ProppatchDone, CloseDone,
         At, Served, Sending
<1>. QED
  BY <1>1, <1>2, <1>3, <1>4, Plain, Quiet DEF Served, Sending, Holding

LEMMA IdleGoes ==
    ASSUME IInv, NEW c \in Client, ClientTakesRows(c) \/ Deliver(c)
    PROVE  Goes(c)
<1>1. req' = [req EXCEPT ![c] = [pc |-> "idle"]]
  BY DEF ClientTakesRows, Deliver, Idle
<1>2. UNCHANGED << dir, opener, capacity, seek, handles >>
  BY DEF ClientTakesRows, Deliver
<1>3. fsmu' = IF Holds(c) THEN Nobody ELSE fsmu
  BY Shapes DEF ClientTakesRows, Deliver, At, Holding, Give
<1>4. req[c].pc \notin Served
  BY DEF ClientTakesRows, Deliver, At, Served, Sending
<1>. QED
  BY <1>1, <1>2, <1>3, <1>4, Plain, Quiet DEF Served, Sending, Holding

LEMMA AskGoes ==
    ASSUME IInv, NEW c \in Client, Ask(c)
    PROVE  Goes(c)
<1>1. /\ UNCHANGED << dir, opener, capacity, seek, handles, fsmu >>
      /\ req[c].pc = "idle"
  BY DEF Ask, Proppatch, Get, Propfind, At
<1>2. ~Holds(c) /\ req[c].pc \notin Served
  BY <1>1, Shapes DEF Served, Sending, Holding
<1>3. CASE Proppatch(c)
  <2>1. req' = [req EXCEPT ![c] = [pc |-> "proppatch"]]
    BY <1>3 DEF Proppatch
  <2>. QED
    BY <1>1, <1>2, <2>1, Plain, Quiet DEF Served, Sending, Holding
<1>4. ASSUME NEW p, Get(c, p) PROVE Goes(c)
  <2>1. req' = [req EXCEPT ![c] = [pc |-> "get", name |-> p]]
    BY <1>4 DEF Get
  <2>2. RequestOK([pc |-> "get", name |-> p])
    BY DEF RequestOK
  <2>. QED
    BY <1>1, <1>2, <2>1, <2>2, Quiet DEF Served, Sending, Holding
<1>5. ASSUME NEW p, NEW asks, NEW depth, Propfind(c, p, asks, depth) PROVE Goes(c)
  <2>. DEFINE r == Listing(p, asks, depth, "propfind", {p}, FALSE)
  <2>1. req' = [req EXCEPT ![c] = r]
    BY <1>5 DEF Propfind
  <2>2. ListOK(r)
    BY DEF Listing, ListOK, Rowing
  <2>3. r.pc = "propfind"
    BY DEF Listing
  <2>4. RequestOK(r)
    BY <2>2 DEF RequestOK
  <2>5. r.pc \notin Sending \cup Holding /\ r.pc \notin Served
    BY <2>3 DEF Served, Sending, Holding
  <2>. HIDE DEF r
  <2>. QED
    BY <1>1, <1>2, <2>1, <2>4, <2>5, Quiet
<1>. QED
  BY <1>3, <1>4, <1>5 DEF Ask

-----------------------------------------------------------------------------
(* The steps of a GET.                                                      *)

\* What ends a body: the file is still to be closed.
LEMMA FinishGoes ==
    ASSUME IInv, NEW c \in Client, req[c].pc \in Sending,
           req' = [req EXCEPT ![c] = [pc |-> "close", host |-> req[c].host]],
           UNCHANGED << dir, handles, opener, capacity >>,
           seek' = seek \/ Holds(c),
           fsmu' = IF Holds(c) THEN Nobody ELSE fsmu
    PROVE  Goes(c)
<1>1. req[c].host \in BOOLEAN
  BY Shapes DEF SendOK
<1>2. RequestOK([pc |-> "close", host |-> req[c].host])
  BY <1>1 DEF RequestOK
<1>. QED
  BY <1>2, Quiet DEF Served, Sending, Holding

LEMMA InfoGoes ==
    ASSUME IInv, NEW c \in Client, Info(c)
    PROVE  Goes(c)
<1>. DEFINE r == [pc |-> "open", name |-> req[c].name,
                  tag |-> ETag(req[c].name, Stat(req[c].name).bytes)]
<1>1. Alone(c) /\ req'[c] = r
  BY StepTo DEF Info
<1>2. RequestOK(r)
  BY DEF RequestOK
<1>3. MutexStep(c)
  BY <1>1 DEF MutexStep, Info, Take, Holding
<1>4. HandleStep(c)
  BY <1>1 DEF HandleStep, Info, Served, Sending, At
<1>5. (req[c].tag = ETag(req[c].name, Stat(req[c].name).bytes))'
  BY <1>1, StatKept
<1>6. View(c)'
  BY <1>1, <1>5 DEF View, At, Sending
<1>. QED
  BY <1>1, <1>2, <1>3, <1>4, <1>6 DEF Goes, Info

LEMMA OpenGoes ==
    ASSUME IInv, NEW c \in Client, Open(c)
    PROVE  Goes(c)
<1>1. PICK host \in BOOLEAN :
         req' = [req EXCEPT ![c] = Opened(c, host)] /\ (~opener => ~host)
  BY DEF Open
<1>. DEFINE r == Opened(c, host)
<1>2. Alone(c) /\ req'[c] = r
  BY <1>1, StepTo DEF Open
<1>3. req[c].pc = "open" /\ req[c].tag = ETag(req[c].name, Stat(req[c].name).bytes)
  BY Shapes DEF Open, View, At
<1>4. Stat(req[c].name).bytes \in Seq(Byte)
  BY StatIs DEF IInv, TypeInv
<1>5. /\ r.pc = "serve" /\ r.name = req[c].name /\ r.tag = req[c].tag /\ r.host = host
      /\ r.opened = Stat(req[c].name).bytes /\ r.from = 0 /\ r.to = 0 /\ r.body = << >>
      /\ r.written = FALSE
      /\ DOMAIN r = {"pc", "name", "tag", "host", "opened", "from", "to", "body", "written"}
  BY DEF Opened
<1>. HIDE DEF r
<1>6. SendOK(r)
  <2>1. Len(r.body) = 0 /\ r.body \in Seq(Byte)
    BY <1>5
  <2>2. Len(r.opened) \in Nat /\ r.opened \in Seq(Byte)
    BY <1>4, <1>5
  <2>3. r.tag = ETag(r.name, r.opened)
    BY <1>3, <1>5
  <2>4. r.host \in BOOLEAN /\ r.written \in BOOLEAN
    BY <1>1, <1>5
  <2>5. /\ r.from \in Nat /\ r.to \in Nat /\ r.from <= r.to /\ r.to <= Len(r.opened)
        /\ Len(r.body) <= r.to - r.from
    BY <1>5, <2>1, <2>2
  <2>. QED
    BY <1>5, <2>1, <2>2, <2>3, <2>4, <2>5 DEF SendOK, Sending
<1>7. MutexStep(c)
  BY <1>2, <1>3, <1>5, Shapes DEF MutexStep, Open, Give, Holding
<1>8. HandleStep(c)
  BY <1>2, <1>3, <1>5 DEF HandleStep, Open, Served, Sending, IInv, HandlesInv
<1>9. SendView(req[c])'
  BY <1>1, <1>2, <1>5, StatKept DEF SendView, Open
<1>10. View(c)'
  BY <1>2, <1>5, <1>9 DEF View, At, Sending
<1>. QED
  BY <1>2, <1>6, <1>7, <1>8, <1>10 DEF Goes, Open, RequestOK

\* A step that leaves what was opened, and what was sent of it.
LEMMA SameBody ==
    ASSUME IInv, NEW c \in Client, req[c].pc \in Sending, Alone(c),
           req'[c].name = req[c].name, req'[c].opened = req[c].opened,
           req'[c].from = req[c].from, req'[c].body = req[c].body,
           req'[c].written = req[c].written, req'[c].host = req[c].host
    PROVE  SendView(req[c])'
<1>1. SendView(req[c])
  BY Shapes DEF View
<1>2. Stat(req[c].name)' = Stat(req[c].name)
  BY StatKept
<1>. QED
  BY <1>1, <1>2 DEF SendView, Alone

LEMMA ServeContentGoes ==
    ASSUME IInv, NEW c \in Client, ServeContent(c)
    PROVE  Goes(c)
<1>1. req[c].pc = "serve" /\ SendOK(req[c]) /\ SendView(req[c]) /\ ~Holds(c)
  BY Shapes DEF ServeContent, At, Sending, Holding, View
<1>2. PICK from \in 0..Len(req[c].opened) : \E to \in from..Len(req[c].opened) :
          IF from = to THEN Finish(c)
          ELSE req' = [req EXCEPT ![c].pc = "read", ![c].from = from, ![c].to = to]
  BY DEF ServeContent
<1>3. PICK to \in from..Len(req[c].opened) :
          IF from = to THEN Finish(c)
          ELSE req' = [req EXCEPT ![c].pc = "read", ![c].from = from, ![c].to = to]
  BY <1>2
<1>4. CASE from = to
  BY <1>1, <1>3, <1>4, FinishGoes DEF Finish, ServeContent, Sending
<1>5. CASE from # to
  <2>. DEFINE r == [req[c] EXCEPT !.pc = "read", !.from = from, !.to = to]
  <2>1. req' = [req EXCEPT ![c] = r]
    BY <1>3, <1>5
  <2>2. Alone(c) /\ req'[c] = r
    BY <2>1, StepTo DEF ServeContent
  <2>3. /\ r.pc = "read" /\ r.name = req[c].name /\ r.tag = req[c].tag /\ r.host = req[c].host
        /\ r.opened = req[c].opened /\ r.from = from /\ r.to = to /\ r.body = req[c].body
        /\ r.written = req[c].written
        /\ DOMAIN r = {"pc", "name", "tag", "host", "opened", "from", "to", "body", "written"}
    BY <1>1 DEF SendOK
  <2>. HIDE DEF r
  <2>4. SendOK(r)
    BY <1>1, <1>5, <2>3 DEF SendOK, Sending
  <2>5. MutexStep(c)
    BY <1>1, <2>2, <2>3 DEF MutexStep, ServeContent, Holding
  <2>6. HandleStep(c)
    BY <1>1, <2>2, <2>3 DEF HandleStep, ServeContent, Served, Sending
  <2>7. req[c].body = << >>
    BY <1>1 DEF SendOK
  <2>8. SendView(req[c])'
    <3>1. Stat(req[c].name)' = Stat(req[c].name)
      BY <2>2, <2>3, StatKept
    <3>2. opener' = opener
      BY <2>2 DEF Alone
    <3>. QED
      BY <1>1, <2>2, <2>3, <2>7, <3>1, <3>2 DEF SendView
  <2>9. View(c)'
    BY <2>2, <2>3, <2>8 DEF View, At
  <2>. QED
    BY <2>2, <2>4, <2>5, <2>6, <2>9 DEF Goes, ServeContent, RequestOK
<1>. QED
  BY <1>4, <1>5

LEMMA ReadAtGoes ==
    ASSUME IInv, NEW c \in Client, ReadAt(c)
    PROVE  Goes(c)
<1>1. req[c].pc = "read" /\ SendOK(req[c])
  BY Shapes DEF ReadAt, At, Sending
<1>. DEFINE r == [req[c] EXCEPT !.pc = "reading"]
<1>2. Alone(c) /\ req'[c] = r
  BY StepTo DEF ReadAt, Go
<1>3. /\ r.pc = "reading" /\ r.name = req[c].name /\ r.tag = req[c].tag /\ r.host = req[c].host
      /\ r.opened = req[c].opened /\ r.from = req[c].from /\ r.to = req[c].to
      /\ r.body = req[c].body /\ r.written = req[c].written
      /\ DOMAIN r = {"pc", "name", "tag", "host", "opened", "from", "to", "body", "written"}
  BY <1>1 DEF SendOK
<1>. HIDE DEF r
<1>4. SendOK(r)
  BY <1>1, <1>3 DEF SendOK, Sending
<1>5. MutexStep(c)
  BY <1>2, <1>3 DEF MutexStep, ReadAt, Take, Holding
<1>6. HandleStep(c)
  BY <1>1, <1>2, <1>3 DEF HandleStep, ReadAt, Served, Sending
<1>7. SendView(req[c])'
  BY <1>1, <1>2, <1>3, SameBody DEF Sending
<1>8. opener' /\ seek' = << req'[c].name, Offset(c)' >>
  BY <1>2, <1>3 DEF ReadAt, ByDriver, Offset
<1>9. View(c)'
  BY <1>2, <1>3, <1>7, <1>8 DEF View, At
<1>. QED
  BY <1>2, <1>4, <1>5, <1>6, <1>9 DEF Goes, ReadAt, RequestOK

LEMMA ClientTakesGoes ==
    ASSUME IInv, NEW c \in Client, ClientTakes(c)
    PROVE  Goes(c)
<1>1. req[c].pc = "send" /\ SendOK(req[c]) /\ ~Holds(c)
  BY Shapes DEF ClientTakes, At, Sending, Holding
<1>2. CASE BodyDone(c)
  BY <1>1, <1>2, FinishGoes DEF Finish, ClientTakes, Sending
<1>3. CASE ~BodyDone(c)
  <2>. DEFINE r == [req[c] EXCEPT !.pc = "read"]
  <2>1. Alone(c) /\ req'[c] = r
    BY <1>3, StepTo DEF ClientTakes, Go
  <2>2. /\ r.pc = "read" /\ r.name = req[c].name /\ r.tag = req[c].tag /\ r.host = req[c].host
        /\ r.opened = req[c].opened /\ r.from = req[c].from /\ r.to = req[c].to
        /\ r.body = req[c].body /\ r.written = req[c].written
        /\ DOMAIN r = {"pc", "name", "tag", "host", "opened", "from", "to", "body", "written"}
    BY <1>1 DEF SendOK
  <2>. HIDE DEF r
  <2>3. Len(req[c].body) < req[c].to - req[c].from
    BY <1>1, <1>3 DEF BodyDone, Wanted, SendOK
  <2>4. SendOK(r)
    BY <1>1, <2>2, <2>3 DEF SendOK, Sending
  <2>5. MutexStep(c)
    BY <1>1, <2>1, <2>2 DEF MutexStep, ClientTakes, Holding
  <2>6. HandleStep(c)
    BY <1>1, <2>1, <2>2 DEF HandleStep, ClientTakes, Served, Sending
  <2>7. SendView(req[c])'
    BY <1>1, <2>1, <2>2, SameBody DEF Sending
  <2>8. View(c)'
    BY <2>1, <2>2, <2>7 DEF View, At
  <2>. QED
    BY <2>1, <2>4, <2>5, <2>6, <2>8 DEF Goes, ClientTakes, RequestOK
<1>. QED
  BY <1>2, <1>3

LEMMA ClientLeavesGoes ==
    ASSUME IInv, NEW c \in Client, ClientLeaves(c)
    PROVE  Goes(c)
<1>1. req[c].pc = "send" /\ ~Holds(c)
  BY Shapes DEF ClientLeaves, At, Holding
<1>. QED
  BY <1>1, FinishGoes DEF ClientLeaves, Finish, Sending

\* A read of bytes that, while nobody has written, are the ones opened.
LEMMA GotGoes ==
    ASSUME IInv, NEW c \in Client, req[c].pc \in {"read", "reading"},
           NEW bytes \in Seq(Byte), Got(c, bytes, Offset(c)),
           ~req[c].written \/ ~opener => bytes = req[c].opened,
           UNCHANGED << dir, handles, opener, capacity >>,
           seek' = seek \/ Holds(c),
           fsmu' = IF Holds(c) THEN Nobody ELSE fsmu
    PROVE  Goes(c)
<1>1. SendOK(req[c]) /\ SendView(req[c])
  BY Shapes DEF Sending, View
<1>2. /\ req[c].from \in Nat /\ req[c].to \in Nat
      /\ Len(req[c].body) \in Nat /\ req[c].body \in Seq(Byte)
      /\ Len(req[c].body) < req[c].to - req[c].from
      /\ req[c].to <= Len(req[c].opened)
  BY <1>1 DEF SendOK
<1>3. CASE ~(Offset(c) < Len(bytes))
  BY <1>3, FinishGoes DEF Got, Sending
<1>4. CASE Offset(c) < Len(bytes)
  <2>. DEFINE byte == bytes[Offset(c) + 1]
  <2>. DEFINE r == [req[c] EXCEPT !.pc = "send", !.body = Append(@, byte)]
  <2>1. Alone(c) /\ req'[c] = r
    <3>1. req' = [req EXCEPT ![c] = r]
      BY <1>4 DEF Got
    <3>. QED
      BY <3>1, StepTo
  <2>2. /\ r.pc = "send" /\ r.name = req[c].name /\ r.tag = req[c].tag /\ r.host = req[c].host
        /\ r.opened = req[c].opened /\ r.from = req[c].from /\ r.to = req[c].to
        /\ r.body = Append(req[c].body, byte) /\ r.written = req[c].written
        /\ DOMAIN r = {"pc", "name", "tag", "host", "opened", "from", "to", "body", "written"}
    BY <1>1 DEF SendOK
  <2>. HIDE DEF r
  <2>3. byte \in Byte
    BY <1>2, <1>4 DEF Offset
  <2>. HIDE DEF byte
  <2>4. /\ r.body \in Seq(Byte) /\ Len(r.body) = Len(req[c].body) + 1
        /\ \A i \in 1..Len(req[c].body) : r.body[i] = req[c].body[i]
        /\ r.body[Len(req[c].body) + 1] = byte
    BY <1>2, <2>2, <2>3
  <2>5. Len(r.body) <= r.to - r.from
    BY <1>2, <2>2, <2>4
  <2>6. SendOK(r)
    BY <1>1, <2>2, <2>4, <2>5 DEF SendOK, Sending
  <2>7. MutexStep(c)
    BY <2>1, <2>2, Shapes DEF MutexStep, Holding
  <2>8. HandleStep(c)
    BY <2>1, <2>2 DEF HandleStep, Served, Sending
  <2>8a. Offset(c) + 1 = req[c].from + (Len(req[c].body) + 1)
    BY <1>2 DEF Offset
  <2>9. ASSUME ~req[c].written \/ ~opener, NEW i \in 1..Len(r.body)
        PROVE  r.body[i] = r.opened[r.from + i]
    <3>1. CASE i \in 1..Len(req[c].body)
      BY <1>1, <2>2, <2>4, <2>9, <3>1 DEF SendView
    <3>2. CASE i = Len(req[c].body) + 1
      <4>1. byte = req[c].opened[Offset(c) + 1]
        BY <2>9 DEF byte
      <4>2. Offset(c) + 1 = req[c].from + i
        BY <3>2, <2>8a
      <4>. QED
        BY <2>2, <2>4, <3>2, <4>1, <4>2
    <3>. QED
      BY <1>2, <2>4, <3>1, <3>2
  <2>10. Stat(req[c].name)' = Stat(req[c].name)
    BY <2>1, <2>2, StatKept
  <2>11. opener' = opener
    BY <2>1 DEF Alone
  <2>12. SendView(req[c])'
    <3>1. (~req[c].written => Stat(req[c].name).bytes = req[c].opened)'
      BY <1>1, <2>1, <2>2, <2>10 DEF SendView
    <3>2. (~opener => ~req[c].host)'
      BY <1>1, <2>1, <2>2, <2>11 DEF SendView
    <3>3. (~req[c].written \/ ~opener =>
              \A i \in 1..Len(req[c].body) : req[c].body[i] = req[c].opened[req[c].from + i])'
      BY <2>1, <2>2, <2>9, <2>11
    <3>. QED
      BY <3>1, <3>2, <3>3 DEF SendView
  <2>13. View(c)'
    BY <2>1, <2>2, <2>12 DEF View, At
  <2>. QED
    BY <2>1, <2>6, <2>7, <2>8, <2>13 DEF Goes, RequestOK
<1>. QED
  BY <1>3, <1>4

LEMMA ReadGoes ==
    ASSUME IInv, NEW c \in Client, ReadDone(c) \/ ReadFails(c) \/ ReadElsewhere(c)
    PROVE  Goes(c)
<1>1. req[c].pc \in {"read", "reading"} /\ SendOK(req[c]) /\ SendView(req[c])
  BY Shapes DEF ReadDone, ReadFails, ReadElsewhere, At, Sending, View
<1>2. req[c].opened \in Seq(Byte) /\ Stat(req[c].name).bytes \in Seq(Byte)
  BY <1>1, StatIs DEF SendOK, IInv, TypeInv
<1>3. CASE ReadDone(c)
  <2>1. Holds(c) /\ opener /\ seek = << req[c].name, Offset(c) >>
    BY <1>3, Shapes DEF ReadDone, View, At, Holding
  <2>2. PICK bytes \in {Stat(seek[1]).bytes, req[c].opened} : Got(c, bytes, seek[2])
    BY <1>3 DEF ReadDone
  <2>3. bytes \in {Stat(req[c].name).bytes, req[c].opened} /\ Got(c, bytes, Offset(c))
    BY <2>1, <2>2
  <2>4. ~req[c].written \/ ~opener => bytes = req[c].opened
    BY <1>1, <2>1, <2>3 DEF SendView
  <2>. QED
    BY <1>1, <1>2, <1>3, <2>1, <2>3, <2>4, GotGoes DEF ReadDone, Give
<1>4. CASE ReadFails(c)
  <2>1. Holds(c)
    BY <1>4, Shapes DEF ReadFails, At, Holding
  <2>. QED
    BY <1>1, <1>4, <2>1, FinishGoes DEF ReadFails, Finish, Give, Sending
<1>5. CASE ReadElsewhere(c)
  <2>1. ~Holds(c) /\ (req[c].host => opener)
    BY <1>1, <1>5, Shapes DEF ReadElsewhere, At, Holding, SendView, SendOK, IInv, TypeInv
  <2>2. UNCHANGED << dir, seek, fsmu, handles, opener, capacity >>
    BY <1>5 DEF ReadElsewhere
  <2>3. CASE Got(c, req[c].opened, Offset(c))
    BY <1>1, <1>2, <2>1, <2>2, <2>3, GotGoes
  <2>4. CASE req[c].host /\ Got(c, Stat(req[c].name).bytes, Offset(c))
    <3>1. ~req[c].written \/ ~opener => Stat(req[c].name).bytes = req[c].opened
      BY <1>1, <2>1, <2>4 DEF SendView
    <3>. QED
      BY <1>1, <1>2, <2>1, <2>2, <2>4, <3>1, GotGoes
  <2>. QED
    BY <1>5, <2>3, <2>4 DEF ReadElsewhere
<1>. QED
  BY <1>3, <1>4, <1>5

\* The closer: through the driver in two steps.
LEMMA CloseGoes ==
    ASSUME IInv, NEW c \in Client, Close(c)
    PROVE  Goes(c)
<1>1. /\ req[c].pc = "close" /\ DOMAIN req[c] = {"pc", "host"} /\ req[c].host \in BOOLEAN
      /\ ~Holds(c)
  BY Shapes DEF Close, At, Holding, RequestOK, SendOK, ListOK, Sending, Rowing
<1>2. CASE ByDriver(c)
  <2>. DEFINE r == [req[c] EXCEPT !.pc = "closing"]
  <2>1. req' = [req EXCEPT ![c] = r] /\ handles' = handles
    BY <1>2 DEF Close, Go
  <2>2. RequestOK(r) /\ r.pc = "closing"
    BY <1>1 DEF RequestOK
  <2>. HIDE DEF r
  <2>. QED
    BY <1>1, <2>1, <2>2, Quiet DEF Close, Served, Sending, Holding
<1>3. CASE ~ByDriver(c)
  <2>1. req' = [req EXCEPT ![c] = [pc |-> "answered"]] /\ handles' = handles \ {c}
    BY <1>3 DEF Close, Answer
  <2>. QED
    BY <1>1, <2>1, Plain, Quiet DEF Close, Served, Sending, Holding
<1>. QED
  BY <1>2, <1>3

-----------------------------------------------------------------------------
(* The steps of a listing.                                                  *)

\* In the record of a listing under way, what ListOK and ListView say of it;
\* the rows are kept apart.
RowsOK(r)   == \A p \in DOMAIN r.rows : RowOK(r.rows[p])
RowsShow(r) == \A p \in DOMAIN r.rows : r.rows[p].shows \in {Shows(Stat(p)), Failed}

\* What listing adds to the fields beside the rows.
Fields(r) ==
    /\ DOMAIN r = {"pc", "name", "asks", "depth", "members", "list", "rows"}
    /\ r.list \in BOOLEAN
    /\ DOMAIN r.rows \subseteq r.members
    /\ r.list => r.depth = "one" /\ r.members \subseteq {r.name}

MembersOK(r) ==
    ~r.list => r.members \ {r.name} = IF r.depth = "one" THEN Members(r.name) ELSE {}

LEMMA RowsIs ==
    ASSUME IInv, NEW c \in Client, req[c].pc = "rows"
    PROVE  /\ Fields(req[c]) /\ MembersOK(req[c])
           /\ RowsOK(req[c]) /\ RowsShow(req[c])
           /\ Holds(c)
<1>1. ListOK(req[c]) /\ ListView(req[c]) /\ Holds(c)
  BY Shapes DEF Rowing, Holding, View
<1>. QED
  BY <1>1 DEF ListOK, ListView, Fields, MembersOK, RowsOK, RowsShow

\* A step into the rows, or from one of them to another.
LEMMA RowsGoes ==
    ASSUME IInv, NEW c \in Client, Alone(c),
           req'[c].pc = "rows",
           req[c].pc \notin Served,
           UNCHANGED << seek, handles >>,
           fsmu' = c, FsFree \/ Holds(c),
           Fields(req'[c]), MembersOK(req[c])',
           RowsOK(req'[c]), RowsShow(req[c])'
    PROVE  Goes(c)
<1>1. ListOK(req'[c])
  <2>1. req'[c].pc \notin {"propfind", "reply"} /\ req'[c].pc \in Rowing
    BY DEF Rowing
  <2>. QED
    BY <2>1 DEF ListOK, Fields, RowsOK
<1>2. RequestOK(req'[c])
  BY <1>1 DEF RequestOK
<1>3. MutexStep(c)
  BY Shapes DEF MutexStep, Holds, Holding
<1>4. HandleStep(c)
  BY DEF HandleStep, Served, Sending
<1>5. ListView(req[c])'
  BY DEF ListView, MembersOK, RowsShow
<1>6. View(c)'
  BY <1>5 DEF View, At, Sending
<1>. QED
  BY <1>2, <1>3, <1>4, <1>6 DEF Goes

LEMMA SelfGoes ==
    ASSUME IInv, NEW c \in Client, Self(c)
    PROVE  Goes(c)
<1>1. req[c].pc = "propfind" /\ ListOK(req[c])
  BY Shapes DEF Self, At, Rowing
<1>. DEFINE full == req[c].depth = "one" /\ Stat(req[c].name) = Folder
<1>. DEFINE r == [req[c] EXCEPT !.pc = "rows", !.list = full]
<1>2. Alone(c) /\ req'[c] = r
  <2>1. req' = [req EXCEPT ![c] = r]
    BY DEF Self
  <2>. QED
    BY <2>1, StepTo DEF Self
<1>3. /\ r.pc = "rows" /\ r.name = req[c].name /\ r.depth = req[c].depth
      /\ r.members = {req[c].name} /\ r.list = full /\ r.rows = << >>
      /\ DOMAIN r = {"pc", "name", "asks", "depth", "members", "list", "rows"}
  BY <1>1 DEF ListOK
<1>. HIDE DEF r
<1>4. DOMAIN r.rows = {}
  BY <1>3
<1>5. Fields(r)
  BY <1>1, <1>3, <1>4 DEF Fields, ListOK
<1>6. RowsOK(r)
  BY <1>4 DEF RowsOK
<1>7. RowsShow(req[c])'
  BY <1>2, <1>4 DEF RowsShow
<1>8. MembersOK(req[c])'
  <2>1. Members(req[c].name)' = Members(req[c].name)
    BY <1>2, <1>3, StatKept
  <2>2. Stat(req[c].name) # Folder => Members(req[c].name) = {}
    BY StatIs DEF IInv, TypeInv
  <2>. QED
    BY <1>2, <1>3, <2>1, <2>2 DEF MembersOK
<1>. QED
  BY <1>1, <1>2, <1>3, <1>5, <1>6, <1>7, <1>8, RowsGoes DEF Self, Take, Served, Sending

LEMMA IndexGoes ==
    ASSUME IInv, NEW c \in Client, Index(c)
    PROVE  Goes(c)
<1>. DEFINE r == Listing(req[c].name, "index", "one", "rows", {}, TRUE)
<1>1. Alone(c) /\ req'[c] = r
  BY StepTo DEF Index
<1>2. /\ r.pc = "rows" /\ r.name = req[c].name /\ r.depth = "one"
      /\ r.members = {} /\ r.list = TRUE /\ r.rows = << >>
      /\ DOMAIN r = {"pc", "name", "asks", "depth", "members", "list", "rows"}
  BY DEF Listing
<1>. HIDE DEF r
<1>3. DOMAIN r.rows = {}
  BY <1>2
<1>4. Fields(r)
  BY <1>2, <1>3 DEF Fields
<1>5. RowsOK(r)
  BY <1>3 DEF RowsOK
<1>6. RowsShow(req[c])'
  BY <1>1, <1>3 DEF RowsShow
<1>7. MembersOK(req[c])'
  BY <1>1, <1>2 DEF MembersOK
<1>. QED
  BY <1>1, <1>2, <1>4, <1>5, <1>6, <1>7, RowsGoes DEF Index, Take, At, Served, Sending

LEMMA ListDirGoes ==
    ASSUME IInv, NEW c \in Client, ListDir(c)
    PROVE  Goes(c)
<1>1. /\ Fields(req[c]) /\ MembersOK(req[c])
      /\ RowsOK(req[c]) /\ RowsShow(req[c])
      /\ Holds(c) /\ req[c].pc = "rows" /\ req[c].list
  BY RowsIs DEF ListDir, At
<1>. DEFINE all == req[c].members \cup Members(req[c].name)
<1>. DEFINE r == [req[c] EXCEPT !.list = FALSE, !.members = all]
<1>2. Alone(c) /\ req'[c] = r
  <2>1. req' = [req EXCEPT ![c] = r]
    BY DEF ListDir
  <2>. QED
    BY <2>1, StepTo DEF ListDir
<1>3. /\ r.pc = "rows" /\ r.name = req[c].name /\ r.depth = req[c].depth /\ r.asks = req[c].asks
      /\ r.members = all /\ r.list = FALSE /\ r.rows = req[c].rows
      /\ DOMAIN r = {"pc", "name", "asks", "depth", "members", "list", "rows"}
  BY <1>1 DEF Fields
<1>. HIDE DEF r
<1>4. Fields(r)
  BY <1>1, <1>3 DEF Fields
<1>5. RowsOK(r)
  BY <1>1, <1>3 DEF RowsOK
<1>6. RowsShow(req[c])'
  <2>1. \A p : Stat(p)' = Stat(p)
    BY <1>2, StatKept
  <2>. QED
    BY <1>1, <1>2, <1>3, <2>1 DEF RowsShow
<1>8. MembersOK(req[c])'
  <2>1. Members(req[c].name)' = Members(req[c].name)
    BY <1>2, <1>3, StatKept
  <2>2. req[c].name \notin Members(req[c].name)
    BY DriverAssumption DEF Members, IInv, TypeInv, DirInv
  <2>3. req[c].depth = "one" /\ req[c].members \subseteq {req[c].name}
    BY <1>1 DEF Fields
  <2>. QED
    BY <1>2, <1>3, <2>1, <2>2, <2>3 DEF MembersOK
<1>. QED
  BY <1>1, <1>2, <1>3, <1>4, <1>5, <1>6, <1>8, RowsGoes
     DEF ListDir, Holds, Served, Sending

\* A step that writes a row, new or not.
LEMMA RowGoes ==
    ASSUME IInv, NEW c \in Client, req[c].pc = "rows",
           NEW p \in req[c].members, NEW row,
           req' = [req EXCEPT ![c] = [req[c] EXCEPT !.rows = WithRow(c, p, row)]],
           UNCHANGED << dir, seek, fsmu, handles, opener, capacity >>,
           RowOK(row),
           row.shows \in {Shows(Stat(p)), Failed}
    PROVE  Goes(c)
<1>1. /\ Fields(req[c]) /\ MembersOK(req[c])
      /\ RowsOK(req[c]) /\ RowsShow(req[c])
      /\ Holds(c)
  BY RowsIs
<1>. DEFINE rows == WithRow(c, p, row)
<1>. DEFINE r == [req[c] EXCEPT !.rows = rows]
<1>2. Alone(c) /\ req'[c] = r
  BY StepTo
<1>3. /\ DOMAIN rows = DOMAIN req[c].rows \cup {p}
      /\ rows[p] = row
      /\ \A q \in DOMAIN req[c].rows : q # p => rows[q] = req[c].rows[q]
  BY DEF WithRow
<1>. HIDE DEF rows
<1>4. /\ r.pc = "rows" /\ r.name = req[c].name /\ r.depth = req[c].depth /\ r.asks = req[c].asks
      /\ r.members = req[c].members /\ r.list = req[c].list /\ r.rows = rows
     
      /\ DOMAIN r = {"pc", "name", "asks", "depth", "members", "list", "rows"}
  BY <1>1 DEF Fields
<1>. HIDE DEF r
<1>5. Fields(r)
  BY <1>1, <1>3, <1>4 DEF Fields
<1>6. RowsOK(r)
  BY <1>1, <1>3, <1>4 DEF RowsOK
<1>7. RowsShow(req[c])'
  <2>1. \A q : Stat(q)' = Stat(q)
    BY <1>2, StatKept
  <2>. QED
    BY <1>1, <1>2, <1>3, <1>4, <2>1 DEF RowsShow
<1>9. MembersOK(req[c])'
  <2>1. Members(req[c].name)' = Members(req[c].name)
    BY <1>2, <1>4, StatKept
  <2>. QED
    BY <1>1, <1>2, <1>4, <2>1 DEF MembersOK
<1>. QED
  BY <1>1, <1>2, <1>4, <1>5, <1>6, <1>7, <1>9, RowsGoes DEF Holds, Served, Sending

LEMMA RespondGoes ==
    ASSUME IInv, NEW c \in Client, Respond(c)
    PROVE  Goes(c)
<1>. DEFINE shows(p) == Shows(Stat(p))
<1>. DEFINE todo(p) == IF req[c].asks \in {"allprop", "quota"} /\ shows(p)[1] = "dir"
                          /\ QuotaNames(c, shows(p)) # {}
                       THEN Quota ELSE << >>
<1>. DEFINE row(p) == Row(shows(p), QuotaNames(c, shows(p)), todo(p))
<1>1. PICK p \in Unlisted(c) : req' = [req EXCEPT ![c].rows = WithRow(c, p, row(p))]
  BY DEF Respond
<1>2. req[c].pc = "rows" /\ p \in req[c].members
  BY DEF Respond, At, Unlisted
<1>3. req' = [req EXCEPT ![c] = [req[c] EXCEPT !.rows = WithRow(c, p, row(p))]]
  BY <1>1
<1>4. /\ DOMAIN row(p) = {"shows", "names", "given", "todo"} /\ row(p).shows = shows(p)
      /\ row(p).names = QuotaNames(c, shows(p)) /\ row(p).given = {} /\ row(p).todo = todo(p)
  BY DEF Row
<1>. HIDE DEF row, todo, shows
<1>8. RowOK(row(p))
  BY <1>4 DEF RowOK
<1>9. row(p).shows \in {Shows(Stat(p)), Failed}
  BY <1>4 DEF shows
<1>. QED
  BY <1>2, <1>3, <1>8, <1>9, RowGoes DEF Respond

LEMMA RespondFailedGoes ==
    ASSUME IInv, NEW c \in Client, RespondFailed(c)
    PROVE  Goes(c)
<1>. DEFINE row == Row(Failed, {}, << >>)
<1>1. PICK p \in Unlisted(c) : req' = [req EXCEPT ![c].rows = WithRow(c, p, row)]
  BY DEF RespondFailed
<1>2. req[c].pc = "rows" /\ p \in req[c].members
  BY DEF RespondFailed, At, Unlisted
<1>3. req' = [req EXCEPT ![c] = [req[c] EXCEPT !.rows = WithRow(c, p, row)]]
  BY <1>1
<1>4. /\ DOMAIN row = {"shows", "names", "given", "todo"} /\ row.shows = Failed
      /\ row.names = {} /\ row.given = {} /\ row.todo = << >>
  BY DEF Row
<1>. HIDE DEF row
<1>5. RowOK(row)
  BY <1>4 DEF RowOK
<1>. QED
  BY <1>2, <1>3, <1>4, <1>5, RowGoes DEF RespondFailed

\* What PropValue makes of a row.
Valued(row) ==
    [row EXCEPT !.todo = Tail(row.todo),
                !.given = IF capacity THEN @ \cup {Head(row.todo)} ELSE @]

LEMMA PropValueGoes ==
    ASSUME IInv, NEW c \in Client, PropValue(c)
    PROVE  Goes(c)
<1>1. /\ Fields(req[c]) /\ RowsOK(req[c]) /\ RowsShow(req[c])
      /\ req[c].pc = "rows"
  BY RowsIs DEF PropValue, At
<1>2. PICK p \in Due(c) : req' = [req EXCEPT ![c].rows = WithRow(c, p, Valued(req[c].rows[p]))]
  BY DEF PropValue, Valued
<1>3. p \in DOMAIN req[c].rows /\ p \in req[c].members
  BY <1>1 DEF Due, Fields
<1>. DEFINE old == req[c].rows[p]
<1>. DEFINE row == Valued(old)
<1>4. DOMAIN old = {"shows", "names", "given", "todo"}
  BY <1>1, <1>3 DEF Due, RowsOK, RowOK
<1>5. /\ DOMAIN row = {"shows", "names", "given", "todo"} /\ row.shows = old.shows
  BY <1>4 DEF Valued
<1>6. req' = [req EXCEPT ![c] = [req[c] EXCEPT !.rows = WithRow(c, p, row)]]
  BY <1>2
<1>. HIDE DEF row
<1>7. RowOK(row)
  BY <1>5 DEF RowOK
<1>8. row.shows \in {Shows(Stat(p)), Failed}
  BY <1>1, <1>3, <1>5 DEF RowsShow
<1>. QED
  BY <1>1, <1>3, <1>6, <1>7, <1>8, RowGoes DEF PropValue

LEMMA WriteRowsGoes ==
    ASSUME IInv, NEW c \in Client, WriteRows(c)
    PROVE  Goes(c)
<1>1. /\ Fields(req[c]) /\ MembersOK(req[c]) /\ RowsOK(req[c]) /\ RowsShow(req[c])
      /\ Holds(c) /\ req[c].pc = "rows" /\ ~req[c].list
  BY RowsIs DEF WriteRows, At
<1>. DEFINE r == [req[c] EXCEPT !.pc = "reply"]
<1>2. Alone(c) /\ req'[c] = r
  BY StepTo DEF WriteRows, Go
<1>3. /\ r.pc = "reply" /\ r.name = req[c].name /\ r.depth = req[c].depth /\ r.asks = req[c].asks
      /\ r.members = req[c].members /\ r.list = req[c].list /\ r.rows = req[c].rows
     
      /\ DOMAIN r = {"pc", "name", "asks", "depth", "members", "list", "rows"}
  BY <1>1 DEF Fields
<1>. HIDE DEF r
<1>4. r.members = DOMAIN r.rows
  BY <1>1, <1>3 DEF WriteRows, Listed, Unlisted, Fields
<1>5. ListOK(r)
  <2>1. r.pc \in Rowing /\ r.pc # "propfind"
    BY <1>3 DEF Rowing
  <2>2. \A p \in DOMAIN r.rows : RowOK(r.rows[p])
    BY <1>1, <1>3 DEF RowsOK
  <2>. QED
    BY <1>1, <1>3, <1>4, <2>1, <2>2 DEF ListOK, Fields
<1>6. MutexStep(c)
  BY <1>1, <1>2, <1>3 DEF MutexStep, WriteRows, Holding
<1>7. HandleStep(c)
  BY <1>1, <1>2, <1>3 DEF HandleStep, WriteRows, Served, Sending
<1>8. ListView(req[c])'
  <2>1. \A p : Stat(p)' = Stat(p)
    BY <1>2, StatKept
  <2>2. Members(req[c].name)' = Members(req[c].name)
    BY <1>2, <1>3, StatKept
  <2>. QED
    BY <1>1, <1>2, <1>3, <2>1, <2>2 DEF ListView, MembersOK, RowsShow
<1>9. View(c)'
  BY <1>2, <1>3, <1>8 DEF View, At, Sending
<1>. QED
  BY <1>2, <1>5, <1>6, <1>7, <1>9 DEF Goes, WriteRows, RequestOK

-----------------------------------------------------------------------------
(* What writers do, and the capacity function.  Nobody has fsmu then, but   *)
(* for the capacity.                                                        *)

LEMMA MarkedWritten ==
    ASSUME IInv, NEW c \in Client, req[c].pc \in Sending, req[c].pc # "reading",
           opener' = opener, req'[c] = [req[c] EXCEPT !.written = TRUE]
    PROVE  RequestOK(req'[c]) /\ View(c)' /\ req'[c].pc = req[c].pc
<1>1. SendOK(req[c]) /\ SendView(req[c])
  BY Shapes DEF View
<1>. DEFINE r == [req[c] EXCEPT !.written = TRUE]
<1>2. /\ r.pc = req[c].pc /\ r.name = req[c].name /\ r.tag = req[c].tag /\ r.host = req[c].host
      /\ r.opened = req[c].opened /\ r.from = req[c].from /\ r.to = req[c].to
      /\ r.body = req[c].body /\ r.written = TRUE
      /\ DOMAIN r = {"pc", "name", "tag", "host", "opened", "from", "to", "body", "written"}
  BY <1>1 DEF SendOK
<1>3. req'[c] = r
  OBVIOUS
<1>. HIDE DEF r
<1>4. SendOK(r)
  BY <1>1, <1>2 DEF SendOK
<1>5. SendView(req[c])'
  BY <1>1, <1>2, <1>3 DEF SendView
<1>6. View(c)'
  BY <1>2, <1>3, <1>5 DEF View, At, Sending
<1>. QED
  BY <1>2, <1>3, <1>4, <1>6 DEF RequestOK

LEMMA BecomesKeeps ==
    ASSUME IInv, NEW new, Becomes(new), DOMAIN new \subseteq Name,
           \A n \in DOMAIN new : new[n] \in {Folder} \cup {Version(v) : v \in DOMAIN Size}
    PROVE  IInv'
<1>1. /\ dir' = new /\ UNCHANGED << seek, fsmu, handles, opener, capacity >>
      /\ DOMAIN req' = Client /\ fsmu = Nobody
  BY DEF Becomes, FsFree
<1>2. ASSUME NEW c \in Client
      PROVE  RequestOK(req'[c]) /\ View(c)' /\ req'[c].pc = req[c].pc
  <2>1. req[c].pc \notin Holding
    BY <1>1, Shapes, ClientIsSomebody DEF Holds
  <2>2. HasOpen(c) <=> req[c].pc \in Sending
    BY HasOpenIs DEF IInv
  <2>. DEFINE rewritten == req[c].name \notin DOMAIN new \/ new[req[c].name] # Stat(req[c].name)
  <2>3. CASE HasOpen(c) /\ rewritten
    <3>1. req'[c] = [req[c] EXCEPT !.written = TRUE]
      BY <2>3 DEF Becomes
    <3>2. req[c].pc \in Sending /\ req[c].pc # "reading"
      BY <2>1, <2>2, <2>3 DEF Holding
    <3>. QED
      BY <1>1, <3>1, <3>2, MarkedWritten
  <2>4. CASE HasOpen(c) /\ ~rewritten
    <3>1. req'[c] = req[c]
      BY <2>4 DEF Becomes
    <3>2. Stat(req[c].name)' = Stat(req[c].name)
      <4>1. req[c].name # Root
        BY <2>4, DriverAssumption
      <4>. QED
        BY <1>1, <2>4, <3>1, <4>1 DEF Stat
    <3>3. SendView(req[c])'
      <4>1. SendView(req[c])
        BY <2>2, <2>4, Shapes DEF View
      <4>. QED
        BY <1>1, <3>1, <3>2, <4>1 DEF SendView
    <3>4. View(c)'
      BY <2>1, <3>1, <3>3 DEF View, At, Holding
    <3>. QED
      BY <3>1, <3>4, Shapes
  <2>5. CASE ~HasOpen(c)
    <3>1. req'[c] = req[c]
      BY <2>5 DEF Becomes
    <3>2. View(c)'
      BY <2>1, <2>2, <2>5, <3>1, Unseen
    <3>. QED
      BY <3>1, <3>2, Shapes
  <2>. QED
    BY <2>3, <2>4, <2>5
<1>3. TypeInv'
  BY <1>1, <1>2 DEF TypeInv, DirInv, IInv
<1>4. MutexInv'
  BY <1>1, <1>2 DEF MutexInv, IInv
<1>5. HandlesInv'
  BY <1>1, <1>2 DEF HandlesInv, IInv
<1>. QED
  BY <1>2, <1>3, <1>4, <1>5 DEF IInv

LEMMA WriteKeeps ==
    ASSUME IInv, Write
    PROVE  IInv'
<1>. DEFINE entries == {Folder} \cup {Version(v) : v \in DOMAIN Size}
<1>1. DOMAIN dir \subseteq Name /\ \A n \in DOMAIN dir : dir[n] \in entries
  BY DEF IInv, TypeInv, DirInv
<1>2. ASSUME NEW n \in Name, NEW v \in DOMAIN Size, Becomes(With(n, Version(v)))
      PROVE  IInv'
  <2>1. DOMAIN With(n, Version(v)) \subseteq Name
    BY <1>1 DEF With
  <2>2. \A m \in DOMAIN With(n, Version(v)) : With(n, Version(v))[m] \in entries
    BY <1>1 DEF With
  <2>. QED
    BY <1>2, <2>1, <2>2, BecomesKeeps
<1>3. ASSUME NEW n \in Name, Becomes(With(n, Folder))
      PROVE  IInv'
  <2>1. DOMAIN With(n, Folder) \subseteq Name
    BY <1>1 DEF With
  <2>2. \A m \in DOMAIN With(n, Folder) : With(n, Folder)[m] \in entries
    BY <1>1 DEF With
  <2>. QED
    BY <1>3, <2>1, <2>2, BecomesKeeps
<1>4. ASSUME NEW n \in Name, Becomes(Restrict(dir, DOMAIN dir \ {n}))
      PROVE  IInv'
  <2>. DEFINE new == Restrict(dir, DOMAIN dir \ {n})
  <2>1. DOMAIN new \subseteq Name
    BY <1>1 DEF Restrict
  <2>2. \A m \in DOMAIN new : new[m] \in entries
    BY <1>1 DEF Restrict
  <2>. QED
    BY <1>4, <2>1, <2>2, BecomesKeeps
<1>. QED
  BY <1>2, <1>3, <1>4 DEF Write, PutFile, MakeDir, Remove

LEMMA CapacityKeeps ==
    ASSUME IInv, CapacityChanges
    PROVE  IInv'
<1>1. UNCHANGED << dir, seek, fsmu, handles, opener, req >> /\ capacity' = ~capacity
  BY DEF CapacityChanges
<1>2. \A p : Stat(p)' = Stat(p) /\ Members(p)' = Members(p)
  BY <1>1 DEF Stat, Members
<1>3. ASSUME NEW c \in Client PROVE View(c)'
  <2>1. View(c)
    BY Shapes
  <2>2. ASSUME req[c].pc \in Sending PROVE SendView(req[c])'
    BY <1>1, <1>2, <2>1, <2>2 DEF View, SendView
  <2>3. ASSUME req[c].pc \in {"rows", "reply"} PROVE ListView(req[c])'
    BY <1>1, <1>2, <2>1, <2>3 DEF View, ListView
  <2>4. (At(c, "open") => req[c].tag = ETag(req[c].name, Stat(req[c].name).bytes))'
    BY <1>1, <1>2, <2>1 DEF View, At
  <2>5. (At(c, "reading") => opener /\ seek = << req[c].name, Offset(c) >>)'
    BY <1>1, <2>1 DEF View, At, Offset
  <2>. QED
    BY <1>1, <2>2, <2>3, <2>4, <2>5 DEF View
<1>. QED
  BY <1>1, <1>3 DEF IInv, TypeInv, DirInv, MutexInv, HandlesInv

-----------------------------------------------------------------------------
(* The theorems.                                                            *)

LEMMA IInvInit ==
    ASSUME Init
    PROVE  IInv
<1>1. DirInv
  BY DEF Init, DirInv
<1>2. \A c \in Client : req[c].pc = "idle" /\ DOMAIN req[c] = {"pc"}
  BY DEF Init, Idle
<1>3. \A c \in Client : RequestOK(req[c])
  BY <1>2 DEF RequestOK
<1>4. TypeInv
  BY <1>1, <1>3 DEF Init, TypeInv
<1>5. MutexInv
  BY <1>2, ClientIsSomebody DEF Init, MutexInv, Holding
<1>6. HandlesInv
  BY <1>2 DEF Init, HandlesInv, Served, Sending
<1>7. \A c \in Client : View(c)
  BY <1>2 DEF View, At, Sending
<1>. QED
  BY <1>4, <1>5, <1>6, <1>7 DEF IInv

LEMMA IInvStep ==
    ASSUME IInv, [Next]_vars
    PROVE  IInv'
<1>1. ASSUME NEW c \in Client, Ask(c) PROVE IInv'
  BY <1>1, AskGoes, GoesIsEnough
<1>2. ASSUME NEW c \in Client, Await(c) PROVE IInv'
  BY <1>2, ClientTakesGoes, ClientLeavesGoes, IdleGoes, GoesIsEnough DEF Await
<1>3. ASSUME NEW c \in Client, GetSteps(c) PROVE IInv'
  BY <1>3, InfoGoes, AnswerGoes, OpenGoes, ServeContentGoes, ReadAtGoes, ReadGoes,
     CloseGoes, GoesIsEnough DEF GetSteps
<1>4. ASSUME NEW c \in Client, ListSteps(c) PROVE IInv'
  BY <1>4, SelfGoes, AnswerGoes, IndexGoes, ListDirGoes, RespondGoes, RespondFailedGoes,
     PropValueGoes, WriteRowsGoes, GoesIsEnough DEF ListSteps
<1>5. ASSUME NEW c \in Client, Deliver(c) PROVE IInv'
  BY <1>5, IdleGoes, GoesIsEnough
<1>6. CASE UNCHANGED vars
  <2>1. /\ dir' = dir /\ seek' = seek /\ fsmu' = fsmu /\ handles' = handles
        /\ opener' = opener /\ capacity' = capacity /\ req' = req
    BY <1>6 DEF vars
  <2>. QED
    BY <2>1 DEF IInv, TypeInv, DirInv, MutexInv, HandlesInv, View, At, SendView, ListView,
                Offset, Stat, Members
<1>. QED
  BY <1>1, <1>2, <1>3, <1>4, <1>5, <1>6, WriteKeeps, CapacityKeeps DEF Next, Serve

\* Every state that readers, writers and the capacity function can reach keeps
\* the invariant (get.go:23-176,
\* propfind.go:147-211).
THEOREM Inductive == Spec => []IInv
<1>1. Init => IInv
  BY IInvInit
<1>2. IInv /\ [Next]_vars => IInv'
  BY IInvStep
<1>. QED
  BY <1>1, <1>2, PTL DEF Spec

\* The types, and the mutex: fsmu is held exactly between the look-up and the
\* opening of a file, during a read of the driver, and from the first row of a
\* listing until its client has taken it (get.go:24-42, 119-123,
\* propfind.go:172-210).
THEOREM TypeCorrect == Spec => []TypeOK
<1>1. IInv => TypeOK
  <2>. SUFFICES ASSUME IInv PROVE TypeOK
    OBVIOUS
  <2>1. DOMAIN dir \subseteq Name
        /\ \A n \in DOMAIN dir : dir[n] \in {Folder} \cup {Version(v) : v \in DOMAIN Size}
    BY DEF IInv, TypeInv, DirInv
  <2>2. handles \subseteq Client
    BY DEF IInv, HandlesInv
  <2>3. ASSUME NEW c \in Client PROVE req[c].pc \in PCs
    BY Shapes DEF RequestOK, SendOK, ListOK, Sending, Rowing, PCs
  <2>4. ASSUME NEW c \in Client PROVE Holds(c) <=> req[c].pc \in {"open", "reading", "rows", "reply"}
    BY Shapes DEF Holding
  <2>. QED
    BY <2>1, <2>2, <2>3, <2>4 DEF TypeOK
<1>. QED
  BY <1>1, Inductive, PTL

\* What lies in a sequence from a place on, element by element, is a piece of it.
LiesIn(b, s, m) == \A i \in 1..Len(b) : b[i] = s[m + i]

LEMMA Piece ==
    ASSUME NEW S, NEW s \in Seq(S), NEW b \in Seq(S), NEW m \in Nat, NEW k, k = m + 1,
           NEW n, n = m + Len(b),
           n <= Len(s), LiesIn(b, s, m)
    PROVE  b = SubSeq(s, k, n)
<1>1. k \in Nat /\ n \in Nat /\ Len(s) \in Nat /\ Len(b) \in Nat
  OBVIOUS
<1>. DEFINE t == SubSeq(s, k, n)
<1>2. \A i \in k..n : s[i] \in S
  BY <1>1
<1>3. /\ t \in Seq(S)
      /\ Len(t) = IF k <= n THEN n - k + 1 ELSE 0
      /\ \A i \in 1..(n - k + 1) : t[i] = s[k + i - 1]
  BY <1>1, <1>2, SubSeqProperties
<1>4. Len(t) = Len(b)
  BY <1>1, <1>3
<1>5. ASSUME NEW i \in 1..Len(b) PROVE b[i] = t[i]
  <2>1. i \in 1..(n - k + 1) /\ k + i - 1 = m + i
    BY <1>1
  <2>. QED
    BY <1>3, <2>1 DEF LiesIn
<1>. HIDE DEF t
<1>6. b = t
  BY <1>3, <1>4, <1>5, SeqEqual
<1>. QED
  BY <1>6 DEF t

\* For any number of readers of any versions: what a body holds, while nobody
\* wrote the file, or of a copy whoever wrote, is a piece without a gap of the
\* version that was opened (get.go:37-62, server.go:95-99).
THEOREM BodiesOfOneVersion == Spec => []OneVersion
<1>1. IInv => OneVersion
  <2>. SUFFICES ASSUME IInv, NEW c \in Client, HasOpen(c)
                PROVE  /\ Len(req[c].body) <= Wanted(c)
                       /\ ~req[c].written \/ ~opener =>
                             req[c].body = SubSeq(req[c].opened, req[c].from + 1, Offset(c))
    BY DEF OneVersion
  <2>1. SendOK(req[c]) /\ SendView(req[c])
    BY HasOpenIs, Shapes DEF IInv, View
  <2>2. /\ req[c].opened \in Seq(Byte) /\ req[c].body \in Seq(Byte)
        /\ req[c].from \in Nat /\ req[c].to \in Nat
        /\ req[c].to <= Len(req[c].opened) /\ Len(req[c].body) <= req[c].to - req[c].from
    BY <2>1 DEF SendOK
  <2>3. Offset(c) = req[c].from + Len(req[c].body) /\ Offset(c) <= Len(req[c].opened)
    <3>1. Offset(c) = req[c].from + Len(req[c].body)
      BY DEF Offset
    <3>. QED
      BY <2>2, <3>1
  <2>4. ASSUME ~req[c].written \/ ~opener
        PROVE  req[c].body = SubSeq(req[c].opened, req[c].from + 1, Offset(c))
    <3>1. LiesIn(req[c].body, req[c].opened, req[c].from)
      BY <2>1, <2>4 DEF SendView, LiesIn
    <3>2. PICK k : k = req[c].from + 1
      OBVIOUS
    <3>3. PICK n : n = Offset(c)
      OBVIOUS
    <3>4. n = req[c].from + Len(req[c].body) /\ n <= Len(req[c].opened)
      BY <2>3, <3>3
    <3>5. req[c].opened \in Seq(Byte) /\ req[c].body \in Seq(Byte) /\ req[c].from \in Nat
      BY <2>2
    <3>6. req[c].body = SubSeq(req[c].opened, k, n)
      BY <3>1, <3>2, <3>4, <3>5, Piece
    <3>. QED
      BY <3>2, <3>3, <3>6
  <2>. QED
    BY <2>2, <2>4 DEF Wanted
<1>. QED
  BY <1>1, Inductive, PTL

\* The entity tag a body is sent under is the tag of the version that was
\* opened (get.go:24-42).
THEOREM TagsFit == Spec => []TagOfTheBody
<1>1. IInv => TagOfTheBody
  BY HasOpenIs, Shapes DEF IInv, TagOfTheBody, SendOK
<1>. QED
  BY <1>1, Inductive, PTL

\* Every file that is opened is closed, and closed once: the driver has it open
\* exactly from its opening to its closer (get.go:47, 97-99).
THEOREM EveryFileCloses == Spec => []HandlesClosed
<1>1. IInv => HandlesClosed
  <2>. SUFFICES ASSUME IInv PROVE HandlesClosed
    OBVIOUS
  <2>1. \A c \in Client : req[c].pc \in Served <=> HasOpen(c) \/ At(c, "close") \/ At(c, "closing")
    BY HasOpenIs DEF IInv, Served, At
  <2>. QED
    BY <2>1 DEF IInv, HandlesInv, HandlesClosed
<1>. QED
  BY <1>1, Inductive, PTL

\* The rows a client is sent are the directory of one moment, whoever writes
\* while they are made or sent (propfind.go:172-210, get.go:127-176).
THEOREM ListingsOfOneMoment == Spec => []RowsOfOneMoment
<1>1. IInv => RowsOfOneMoment
  <2>. SUFFICES ASSUME IInv, NEW c \in Client, At(c, "reply")
                PROVE  /\ DOMAIN req[c].rows \ {req[c].name} =
                             IF req[c].depth = "one" THEN Members(req[c].name) ELSE {}
                       /\ \A p \in DOMAIN req[c].rows :
                             req[c].rows[p].shows \in {Shows(Stat(p)), Failed}
    BY DEF RowsOfOneMoment
  <2>1. ListOK(req[c]) /\ ListView(req[c]) /\ req[c].pc = "reply"
    BY Shapes DEF At, Rowing, View
  <2>2. ~req[c].list /\ req[c].members = DOMAIN req[c].rows
    BY <2>1 DEF ListOK
  <2>. QED
    BY <2>1, <2>2 DEF ListView
<1>. QED
  BY <1>1, Inductive, PTL

=============================================================================
