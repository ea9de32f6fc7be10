------------------------------ MODULE ReadFile ------------------------------
(***************************************************************************)
(* GET and HEAD of a file (get.go:23-123).  The file is looked up and      *)
(* opened under one hold of fsmu; its bytes are sent at the client's pace  *)
(* with nothing held, every read of the driver taking fsmu for itself, and *)
(* the file is closed at the end with nothing held either.  Bytes read     *)
(* from the host, or from a copy in memory, do not go through the driver.  *)
(* One read brings one byte, the refill of a buffer.                       *)
(***************************************************************************)
EXTENDS Driver

\* Read through the driver's one file, rather than a host file or a copy.
ByDriver(c) == opener /\ ~req[c].host

Wanted(c)  == req[c].to - req[c].from
Offset(c)  == req[c].from + Len(req[c].body)
BodyDone(c) == Len(req[c].body) = Wanted(c)

\* etagFor, of a driver that reports no times.
ETag(p, bytes) == << p, Len(bytes) >>

Get(c, p) ==
    /\ At(c, "idle")
    /\ req' = [req EXCEPT ![c] = [pc |-> "get", name |-> p]]
    /\ UNCHANGED << dir, seek, fsmu, handles, opener, capacity >>

\* Mutant of Info: fsmu is released between Stat and OpenFile.
InfoReleasing(c) ==
    /\ At(c, "get") /\ FsFree
    /\ Stat(req[c].name).kind = "file"
    /\ req' = [req EXCEPT ![c] = [pc |-> "open", name |-> req[c].name,
                                  tag |-> ETag(req[c].name, Stat(req[c].name).bytes)]]
    /\ UNCHANGED << dir, seek, fsmu, handles, opener, capacity >>

Info(c) ==
    /\ At(c, "get") /\ FsFree
    /\ Stat(req[c].name).kind = "file"
    /\ req' = [req EXCEPT ![c] = [pc |-> "open", name |-> req[c].name,
                                  tag |-> ETag(req[c].name, Stat(req[c].name).bytes)]]
    /\ Take(c)
    /\ UNCHANGED << dir, seek, handles, opener, capacity >>

\* Not there, or Stat fails, or returns nothing.
InfoRefused(c) ==
    /\ At(c, "get") /\ FsFree
    /\ Answer(c)
    /\ UNCHANGED << dir, seek, fsmu, handles, opener, capacity >>

\* OpenFile, or ReadFile of the whole file: of the file as it is now.
Opened(c, host) ==
    [pc |-> "serve", name |-> req[c].name, tag |-> req[c].tag, host |-> host,
     opened |-> Stat(req[c].name).bytes, from |-> 0, to |-> 0, body |-> << >>,
     written |-> FALSE]

\* Mutant of Open: the file is opened, and served with fsmu held.
OpenHolding(c) ==
    /\ At(c, "open")
    /\ Stat(req[c].name).kind = "file"
    /\ \E host \in IF opener THEN BOOLEAN ELSE {FALSE} :
          req' = [req EXCEPT ![c] = Opened(c, host)]
    /\ handles' = IF opener THEN handles \cup {c} ELSE handles
    /\ UNCHANGED << dir, seek, fsmu, opener, capacity >>

Open(c) ==
    /\ At(c, "open")
    /\ Stat(req[c].name).kind = "file"
    /\ \E host \in IF opener THEN BOOLEAN ELSE {FALSE} :
          req' = [req EXCEPT ![c] = Opened(c, host)]
    /\ handles' = IF opener THEN handles \cup {c} ELSE handles
    /\ Give
    /\ UNCHANGED << dir, seek, opener, capacity >>

\* Mutant of OpenFails: the error returns before the Unlock.
OpenFailsHolding(c) ==
    /\ At(c, "open")
    /\ Answer(c)
    /\ UNCHANGED << dir, seek, fsmu, handles, opener, capacity >>

\* An error, or no file and no error.
OpenFails(c) ==
    /\ At(c, "open")
    /\ Answer(c)
    /\ Give
    /\ UNCHANGED << dir, seek, handles, opener, capacity >>

\* ServeContent is done with the file, which the closer has still to close.
Finish(c) == req' = [req EXCEPT ![c] = [pc |-> "close", host |-> req[c].host]]

\* ServeContent: the bytes the client is to have, none for HEAD, for 304 and
\* for 416.
ServeContent(c) ==
    /\ At(c, "serve")
    /\ \E from \in 0..Len(req[c].opened) : \E to \in from..Len(req[c].opened) :
          IF from = to THEN Finish(c)
          ELSE req' = [req EXCEPT ![c].pc = "read", ![c].from = from, ![c].to = to]
    /\ UNCHANGED << dir, seek, fsmu, handles, opener, capacity >>

-----------------------------------------------------------------------------
(* A read of the driver positions its file and reads there: two steps.     *)

\* Mutant of ReadAt: the driver is entered without its mutex.
ReadAtUnlocked(c) ==
    /\ At(c, "read") /\ ByDriver(c)
    /\ seek' = << req[c].name, Offset(c) >>
    /\ Go(c, "reading")
    /\ UNCHANGED << dir, fsmu, handles, opener, capacity >>

ReadAt(c) ==
    /\ At(c, "read") /\ ByDriver(c) /\ FsFree
    /\ seek' = << req[c].name, Offset(c) >>
    /\ Go(c, "reading")
    /\ Take(c)
    /\ UNCHANGED << dir, handles, opener, capacity >>

\* Where a call leaves the file tells nothing: every call positions it first.
Left == << Root, 0 >>

\* What a file holds at an offset; the end of the file, or its absence, ends
\* the body.
Got(c, bytes, at) ==
    req' = [req EXCEPT ![c] =
              IF at < Len(bytes)
              THEN [req[c] EXCEPT !.pc = "send", !.body = Append(req[c].body, bytes[at + 1])]
              ELSE [pc |-> "close", host |-> req[c].host]]

\* An open file may follow its name to what was written there since, or not:
\* drivers differ.
ReadDone(c) ==
    /\ At(c, "reading")
    /\ \E bytes \in {Stat(seek[1]).bytes, req[c].opened} : Got(c, bytes, seek[2])
    /\ seek' = Left
    /\ Give
    /\ UNCHANGED << dir, handles, opener, capacity >>

ReadFails(c) ==
    /\ At(c, "reading")
    /\ Finish(c)
    /\ seek' = Left
    /\ Give
    /\ UNCHANGED << dir, handles, opener, capacity >>

\* A read that is not the driver's: of the copy, or of a host file, which the
\* host may have replaced by another or written in place.
ReadElsewhere(c) ==
    /\ At(c, "read") /\ ~ByDriver(c)
    /\ \/ Got(c, req[c].opened, Offset(c))
       \/ req[c].host /\ Got(c, Stat(req[c].name).bytes, Offset(c))
    /\ UNCHANGED << dir, seek, fsmu, handles, opener, capacity >>

\* The client takes what was sent, in its own time.
ClientTakes(c) ==
    /\ At(c, "send")
    /\ IF BodyDone(c) THEN Finish(c) ELSE Go(c, "read")
    /\ UNCHANGED << dir, seek, fsmu, handles, opener, capacity >>

\* Mutant of ClientLeaves: only a body that was sent whole closes its file.
ClientLeavesOpen(c) ==
    /\ At(c, "send")
    /\ Answer(c)
    /\ UNCHANGED << dir, seek, fsmu, handles, opener, capacity >>

ClientLeaves(c) ==
    /\ At(c, "send")
    /\ Finish(c)
    /\ UNCHANGED << dir, seek, fsmu, handles, opener, capacity >>

\* closer(): File.Close, without fsmu.
Close(c) ==
    /\ At(c, "close")
    /\ IF ByDriver(c) THEN Go(c, "closing") /\ UNCHANGED handles
                      ELSE Answer(c) /\ handles' = handles \ {c}
    /\ UNCHANGED << dir, seek, fsmu, opener, capacity >>

CloseDone(c) ==
    /\ At(c, "closing")
    /\ Answer(c)
    /\ handles' = handles \ {c}
    /\ UNCHANGED << dir, seek, fsmu, opener, capacity >>

GetSteps(c) ==
    \/ Info(c) \/ InfoRefused(c) \/ Open(c) \/ OpenFails(c) \/ ServeContent(c)
    \/ ReadAt(c) \/ ReadDone(c) \/ ReadFails(c) \/ ReadElsewhere(c)
    \/ Close(c) \/ CloseDone(c)

-----------------------------------------------------------------------------
\* A body sent while nobody wrote the file is a piece, without a gap, of the
\* version that was opened: the driver's seeks are not interleaved
\* (server.go:95-99), though fsmu is given back after every read.  A copy in
\* memory is a piece of it whoever writes.
OneVersion ==
    \A c \in Client : HasOpen(c) =>
        /\ Len(req[c].body) <= Wanted(c)
        /\ ~req[c].written \/ ~opener =>
              req[c].body = SubSeq(req[c].opened, req[c].from + 1, Offset(c))

\* The entity tag a body is sent under is the tag of the version that was
\* opened: Stat and OpenFile see one file (get.go:24-42).
TagOfTheBody ==
    \A c \in Client : HasOpen(c) => req[c].tag = ETag(req[c].name, req[c].opened)

\* The driver has a file open exactly for the requests that opened it and
\* have not been through their closer, however their body ended.
HandlesClosed == handles = {c \in Client : opener /\ (HasOpen(c) \/ At(c, "close") \/ At(c, "closing"))}

=============================================================================
