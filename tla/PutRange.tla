------------------------------ MODULE PutRange ------------------------------
(***************************************************************************)
(* PUT with a Content-Range (putrange.go) on one file: range requests of   *)
(* several clients at once, plain PUTs that replace the file, the death of *)
(* the process and a power cut.  A request reads the file's size under     *)
(* fsmu, waits for its body with nothing held but the open file, and       *)
(* writes under fsmu again: the size it goes by may be stale by then.      *)
(*                                                                         *)
(* A byte is the name of who sent it.  Grown bytes that nobody sent are    *)
(* Zero.  Locks are left to WebDAVServer: the clients here hold the        *)
(* resource's token, or nobody locked it.                                  *)
(***************************************************************************)
EXTENDS Integers, Sequences

CONSTANTS
    Client,
    Headers,     \* the Content-Range headers clients send
    Plain,       \* the lengths of the files plain PUTs send
    InitSize,    \* the length of the file at the start
    MaxBody,     \* WithMaxBody
    MaxInt       \* the largest int64, a power of two less one

\* A plain PUT is bounded by MaxBody too.
ASSUME PutRangeAssumption ==
    /\ InitSize \in Nat /\ MaxBody \in Nat /\ MaxInt \in Nat
    /\ Plain \subseteq 0..MaxBody
    /\ InitSize < MaxInt /\ MaxBody < MaxInt

VARIABLES
    file,        \* the bytes every handle reads and writes
    disk,        \* the bytes a power cut leaves
    fsmu,        \* who holds Handler.fsmu across steps, or Nobody
    handles,     \* the clients for whose request the driver has the file open
    req,         \* the request each client has in flight
    disturbed    \* something happened that excuses bytes nobody sent

vars == << file, disk, fsmu, handles, req, disturbed >>

Nobody == "nobody"
Old    == "old"
Sent   == "plain PUT"
Zero   == "zero"
Bytes  == Client \cup {Old, Sent, Zero}

ASSUME ClientAssumption == Client \cap {Nobody, Old, Sent, Zero} = {}

\* What the name of a request stands for.
Kinds == {"file", "missing", "collection", "unwritable"}
Idle  == [pc |-> "idle"]

At(c, pc) == req[c].pc = pc
First(c)  == req[c].start
Last(c)   == req[c].end
FsFree    == fsmu = Nobody
Owns(c)   == fsmu = c

\* int64 arithmetic.
Wrap(n) == ((n + MaxInt + 1) % (2 * (MaxInt + 1))) - MaxInt - 1

\* length(): both ends are included.
Length(c) == Wrap(Last(c) - First(c) + 1)

\* parseContentRange, after the numbers are read.  Star is the total "*".
Star == MaxInt + 1

\* strconv.ParseInt yields an int64.
ASSUME HeadersAssumption ==
    Headers \subseteq [start : -MaxInt - 1..MaxInt, end : -MaxInt - 1..MaxInt,
                       total : -MaxInt - 1..Star]

WellFormed(h) ==
    /\ h.start >= 0
    /\ h.end >= h.start
    /\ h.total = Star \/ h.total > h.end

\* Truncate and WriteAt of the driver's File.  What lies between the end and
\* the place written is Zero.
Resize(f, n) == [i \in 1..n |-> IF i <= Len(f) THEN f[i] ELSE Zero]

WriteAt(f, at, n, byte) ==
    [i \in 1..(IF at + n > Len(f) THEN at + n ELSE Len(f)) |->
        IF i \in at + 1..at + n THEN byte
        ELSE IF i <= Len(f) THEN f[i] ELSE Zero]

-----------------------------------------------------------------------------
Answered(c, status) ==
    req' = [req EXCEPT ![c].pc = "answered", ![c].status = status]

Arrived(c, h, kind, pc, status) ==
    req' = [req EXCEPT ![c] =
        [pc |-> pc, status |-> status, kind |-> kind, start |-> h.start,
         end |-> h.end, size |-> 0, appending |-> FALSE, touched |-> FALSE]]

Receive(c, h, kind) ==
    /\ At(c, "idle")
    /\ WellFormed(h)
    /\ Arrived(c, h, kind, "open", 0)
    /\ UNCHANGED << file, disk, fsmu, handles, disturbed >>

Malformed(c, h) ==
    /\ At(c, "idle")
    /\ ~WellFormed(h)
    /\ Arrived(c, h, "file", "answered", 400)
    /\ UNCHANGED << file, disk, fsmu, handles, disturbed >>

\* Not there, a collection, or a driver that cannot write at an offset.
OpenRefused(c) ==
    /\ At(c, "open") /\ FsFree
    /\ \/ req[c].kind = "missing"    /\ Answered(c, 409)
       \/ req[c].kind = "collection" /\ Answered(c, 405)
       \/ req[c].kind = "unwritable" /\ Answered(c, 501)
       \/ Answered(c, 500)
    /\ UNCHANGED << file, disk, fsmu, handles, disturbed >>

\* A range must end inside the file, or start exactly where the file ends.
Satisfiable(c) == Last(c) < Len(file) \/ First(c) = Len(file)

\* Mutant of OpenFile: an append grows the file before it has its body.
OpenGrown(c) ==
    /\ At(c, "open") /\ FsFree /\ req[c].kind = "file"
    /\ Satisfiable(c)
    /\ handles' = handles \cup {c}
    /\ req' = [req EXCEPT ![c].pc = "body", ![c].size = Len(file),
                          ![c].appending = First(c) = Len(file),
                          ![c].touched = First(c) = Len(file)]
    /\ file' = IF First(c) = Len(file) THEN Append(file, Zero) ELSE file
    /\ UNCHANGED << disk, fsmu, disturbed >>

OpenFile(c) ==
    /\ At(c, "open") /\ FsFree /\ req[c].kind = "file"
    /\ Satisfiable(c)
    /\ handles' = handles \cup {c}
    /\ req' = [req EXCEPT ![c].pc = "body", ![c].size = Len(file),
                          ![c].appending = First(c) = Len(file)]
    /\ UNCHANGED << file, disk, fsmu, disturbed >>

OpenBeyondEnd(c) ==
    /\ At(c, "open") /\ FsFree /\ req[c].kind = "file"
    /\ ~Satisfiable(c)
    /\ handles' = handles \cup {c}
    /\ req' = [req EXCEPT ![c].pc = "close", ![c].status = 416]
    /\ UNCHANGED << file, disk, fsmu, disturbed >>

\* The refusals that follow the opening close the file under fsmu.
CloseFile(c) ==
    /\ At(c, "close") /\ FsFree
    /\ handles' = handles \ {c}
    /\ req' = [req EXCEPT ![c].pc = "answered"]
    /\ UNCHANGED << file, disk, fsmu, disturbed >>

-----------------------------------------------------------------------------
(* The body: as much as the range declares, and no more than MaxBody. *)

\* Mutant of BodyWhole: the body is read without MaxBytesReader.
BodyUnbounded(c) ==
    /\ At(c, "body")
    /\ Length(c) > 0
    /\ req' = [req EXCEPT ![c].pc = "write"]
    /\ UNCHANGED << file, disk, fsmu, handles, disturbed >>

BodyWhole(c) ==
    /\ At(c, "body")
    /\ Length(c) \in 0..MaxBody
    /\ req' = [req EXCEPT ![c].pc = "write"]
    /\ UNCHANGED << file, disk, fsmu, handles, disturbed >>

BodyTooLarge(c) ==
    /\ At(c, "body")
    /\ Length(c) > MaxBody
    /\ req' = [req EXCEPT ![c].pc = "close", ![c].status = 413]
    /\ UNCHANGED << file, disk, fsmu, handles, disturbed >>

\* Mutant of BodyShort: answered without closing the file.
BodyShortLeaks(c) ==
    /\ At(c, "body")
    /\ Answered(c, 400)
    /\ UNCHANGED << file, disk, fsmu, handles, disturbed >>

\* Cut off, or shorter than the range.
BodyShort(c) ==
    /\ At(c, "body")
    /\ req' = [req EXCEPT ![c].pc = "close", ![c].status = 400]
    /\ UNCHANGED << file, disk, fsmu, handles, disturbed >>

-----------------------------------------------------------------------------
(* The write, under one hold of fsmu: grow when appending, write, sync. *)

\* The file is no longer as long as when the request looked at it.
Overtaken(c) == Len(file) # req[c].size

\* The end of the section: the file is closed, fsmu released.
Finish(c, status) ==
    /\ handles' = handles \ {c}
    /\ fsmu' = Nobody
    /\ req' = [req EXCEPT ![c].pc = "answered", ![c].status = status,
                          ![c].touched = TRUE]

\* No driver resizes a file to less than nothing.
Grow(c) ==
    /\ At(c, "write") /\ FsFree /\ req[c].appending
    /\ Wrap(Last(c) + 1) >= 0
    /\ file' = Resize(file, Wrap(Last(c) + 1))
    /\ disturbed' = (disturbed \/ Overtaken(c))
    /\ fsmu' = c
    /\ req' = [req EXCEPT ![c].pc = "fill", ![c].touched = TRUE]
    /\ UNCHANGED << disk, handles >>

GrowFails(c) ==
    /\ At(c, "write") /\ FsFree /\ req[c].appending
    /\ Finish(c, 500)
    /\ UNCHANGED << file, disk, disturbed >>

\* Ready to call WriteAt.
MayFill(c) ==
    \/ At(c, "fill") /\ Owns(c)
    \/ At(c, "write") /\ FsFree /\ ~req[c].appending

\* A write in place that was overtaken may land past the end.
Late(c) == ~req[c].appending /\ Overtaken(c)

Fill(c) ==
    /\ MayFill(c)
    /\ file' = WriteAt(file, First(c), Length(c), c)
    /\ disturbed' = (disturbed \/ Late(c))
    /\ fsmu' = c
    /\ req' = [req EXCEPT ![c].pc = "sync", ![c].touched = TRUE]
    /\ UNCHANGED << disk, handles >>

\* Mutant of FillFails: the file that was grown is not shrunk back.
FillFailsGrown(c) ==
    /\ MayFill(c)
    /\ \E n \in 0..Length(c) - 1 :
          file' = IF n = 0 THEN file ELSE WriteAt(file, First(c), n, c)
    /\ disturbed' = (disturbed \/ Late(c))
    /\ Finish(c, 500)
    /\ UNCHANGED disk

\* WriteAt may have written some of the bytes.  A file that was grown is
\* shrunk back, and nobody looks whether that works.
FillFails(c) ==
    /\ MayFill(c)
    /\ \E n \in 0..Length(c) - 1 :
          LET partial == IF n = 0 THEN file ELSE WriteAt(file, First(c), n, c)
          IN  \/ /\ file' = IF req[c].appending THEN Resize(partial, req[c].size)
                                                ELSE partial
                 /\ disturbed' = (disturbed \/ Late(c))
              \/ /\ req[c].appending
                 /\ file' = partial
                 /\ disturbed' = TRUE
    /\ Finish(c, 500)
    /\ UNCHANGED disk

\* Mutant of SyncAndClose: the answer does not wait for Sync.
CloseUnsynced(c) ==
    /\ At(c, "sync") /\ Owns(c)
    /\ Finish(c, 204)
    /\ UNCHANGED << file, disk, disturbed >>

SyncAndClose(c) ==
    /\ At(c, "sync") /\ Owns(c)
    /\ disk' = file
    /\ Finish(c, 204)
    /\ UNCHANGED << file, disturbed >>

\* Sync fails, or Close after it.
SyncFails(c) ==
    /\ At(c, "sync") /\ Owns(c)
    /\ disk' \in {disk, file}
    /\ Finish(c, 500)
    /\ UNCHANGED << file, disturbed >>

Deliver(c) ==
    /\ At(c, "answered")
    /\ req' = [req EXCEPT ![c] = Idle]
    /\ UNCHANGED << file, disk, fsmu, handles, disturbed >>

-----------------------------------------------------------------------------
\* A plain PUT of n bytes: WriteFile, which nothing syncs.
PlainPut(n) ==
    /\ FsFree
    /\ file' = [i \in 1..n |-> Sent]
    /\ UNCHANGED << disk, fsmu, handles, req, disturbed >>

\* The process dies, its handles and requests with it.  Half an append stays
\* half an append.
Die ==
    /\ fsmu' = Nobody
    /\ handles' = {}
    /\ req' = [c \in Client |-> Idle]
    /\ UNCHANGED disk

Crash ==
    /\ Die
    /\ disturbed' = (disturbed \/ ~FsFree)
    /\ UNCHANGED file

\* Only what was synced is still there.
PowerCut ==
    /\ Die
    /\ file' = disk
    /\ UNCHANGED disturbed

Init ==
    /\ file = [i \in 1..InitSize |-> Old]
    /\ disk = file
    /\ fsmu = Nobody
    /\ handles = {}
    /\ req = [c \in Client |-> Idle]
    /\ disturbed = FALSE

Serve(c) ==
    \/ OpenRefused(c) \/ OpenFile(c) \/ OpenBeyondEnd(c) \/ CloseFile(c)
    \/ BodyWhole(c) \/ BodyTooLarge(c) \/ BodyShort(c)
    \/ Grow(c) \/ GrowFails(c) \/ Fill(c) \/ FillFails(c)
    \/ SyncAndClose(c) \/ SyncFails(c) \/ Deliver(c)

Next ==
    \/ \E c \in Client, h \in Headers :
          Malformed(c, h) \/ \E kind \in Kinds : Receive(c, h, kind)
    \/ \E c \in Client : Serve(c)
    \/ \E n \in Plain : PlainPut(n)
    \/ Crash
    \/ PowerCut

Spec == Init /\ [][Next]_vars

-----------------------------------------------------------------------------
PCs == {"idle", "open", "body", "write", "fill", "sync", "close", "answered"}

\* The types.  A request that has its body holds no more of it than MaxBody,
\* and the range it is about to write has the length it says, the int64 that
\* length computes included.
TypeOK ==
    /\ file \in Seq(Bytes) /\ disk \in Seq(Bytes)
    /\ Len(file) <= MaxInt
    /\ fsmu \in Client \cup {Nobody}
    /\ handles \subseteq Client
    /\ disturbed \in BOOLEAN
    /\ \A c \in Client :
          /\ req[c].pc \in PCs
          /\ At(c, "write") => /\ Last(c) - First(c) + 1 = Length(c)
                               /\ Length(c) \in 1..MaxBody

\* The driver has the file open exactly for the requests that are between
\* their opening and their closing: no refusal, failure or success answers
\* without having closed it (putrange.go:166, 177, 189, 214).
HandlesClosed ==
    handles = {c \in Client : req[c].pc \in {"body", "write", "fill", "sync", "close"}}

\* A request the handler refuses has not changed the file: the body is read
\* whole, and found whole, before the first byte is written.
RefusalsChangeNothing ==
    \A c \in Client :
        At(c, "answered") /\ req[c].status \in {400, 405, 409, 413, 416, 501}
        => ~req[c].touched

\* A 204 is not taken back by a power cut: as long as the file shows a byte
\* an answered request wrote, the disk has it too (putrange.go:210-212).
AcknowledgedIsDurable ==
    \A c \in Client :
        At(c, "answered") /\ req[c].status = 204
        => \A i \in First(c) + 1..Last(c) + 1 :
              i <= Len(file) /\ file[i] = c => i <= Len(disk) /\ disk[i] = c

\* The file holds bytes that nobody sent only while an append is between its
\* two halves, or after a crash in between, a failure to shrink back, or a
\* write that went by a stale size (putrange.go:197-207).
NoUnsentBytes ==
    (\E i \in 1..Len(file) : file[i] = Zero)
        => disturbed \/ \E c \in Client : At(c, "fill")

\* A range PUT replaces its interval and leaves the rest untouched
\* (putrange.go:98-99), whatever bytes somebody sent are there.  An append that
\* goes by a stale size does not: it truncates the file to the end of its own
\* range.
LeavesTheRest ==
    [][\A c \in Client :
          At(c, "write") \/ At(c, "fill") =>
              \/ req'[c] = req[c] \/ req'[c] = Idle
              \/ \A i \in 1..Len(file) :
                    file[i] # Zero /\ (i - 1 < First(c) \/ i - 1 > Last(c))
                    => i <= Len(file') /\ file'[i] = file[i]]_vars

=============================================================================
