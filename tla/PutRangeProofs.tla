--------------------------- MODULE PutRangeProofs ---------------------------
(***************************************************************************)
(* What range PUTs keep, for any number of clients, any headers an int64   *)
(* can hold, any sizes and any driver: the inductive invariant of PutRange *)
(* and the properties that follow from it.                                 *)
(***************************************************************************)
EXTENDS PutRange, TLAPS

\* int64 arithmetic is plain arithmetic where it does not overflow.
LEMMA WrapIs ==
    ASSUME NEW n \in 0..MaxInt + 1
    PROVE  /\ n <= MaxInt => Wrap(n) = n
           /\ n = MaxInt + 1 => Wrap(n) = -MaxInt - 1
<1> DEFINE m == 2 * (MaxInt + 1)
<1>1. MaxInt \in Nat /\ n \in Int
  BY PutRangeAssumption
<1>2. ASSUME NEW a \in 0..m - 1 PROVE a % m = a
  BY <1>1, <1>2
<1>3. m % m = 0
  BY <1>1
<1>. QED
  BY <1>1, <1>2, <1>3 DEF Wrap

-----------------------------------------------------------------------------
(* The driver's file. *)

LEMMA ResizeIs ==
    ASSUME NEW f, NEW n, NEW g, g = Resize(f, n), f \in Seq(Bytes), n \in Nat
    PROVE  /\ g \in Seq(Bytes) /\ Len(g) = n
           /\ \A i \in 1..n : g[i] = IF i <= Len(f) THEN f[i] ELSE Zero
<1>1. \A i \in 1..n : (IF i <= Len(f) THEN f[i] ELSE Zero) \in Bytes
  BY DEF Bytes
<1>. QED
  BY <1>1 DEF Resize

\* The byte at place i of what WriteAt leaves.
Written(f, at, n, byte, i) ==
    IF i \in at + 1..at + n THEN byte ELSE IF i <= Len(f) THEN f[i] ELSE Zero

\* It ends with the bytes written, or where the file ended.
LEMMA WriteAtIs ==
    ASSUME NEW f, NEW at, NEW n, NEW byte, NEW g, g = WriteAt(f, at, n, byte),
           f \in Seq(Bytes), at \in Nat, n \in Nat, byte \in Bytes
    PROVE  /\ g \in Seq(Bytes)
           /\ Len(g) >= at + n /\ Len(g) >= Len(f)
           /\ Len(g) <= at + n \/ Len(g) <= Len(f)
           /\ \A i \in 1..Len(g) : g[i] = Written(f, at, n, byte, i)
<1> DEFINE len == IF at + n > Len(f) THEN at + n ELSE Len(f)
<1>1. len \in Nat /\ len >= at + n /\ len >= Len(f) /\ (len <= at + n \/ len <= Len(f))
  OBVIOUS
<1>2. \A i \in 1..len : Written(f, at, n, byte, i) \in Bytes
  BY DEF Bytes, Written
<1>3. g = [i \in 1..len |-> Written(f, at, n, byte, i)]
  BY DEF WriteAt, Written
<1>. HIDE DEF len
<1>4. g \in Seq(Bytes) /\ Len(g) = len
  BY <1>1, <1>2, <1>3
<1>5. \A i \in 1..len : g[i] = Written(f, at, n, byte, i)
  BY <1>3
<1>. QED
  BY <1>1, <1>4, <1>5

-----------------------------------------------------------------------------
(* The types. *)

Flight(r) ==
    r = [pc |-> r.pc, status |-> r.status, kind |-> r.kind, start |-> r.start,
         end |-> r.end, size |-> r.size, appending |-> r.appending,
         touched |-> r.touched]

Refusals == {400, 405, 409, 413, 416, 501}
Opened   == {"body", "write", "fill", "sync", "close"}
Writing  == {"fill", "sync"}

\* A request: its range is one int64 can hold unless it is refused, and once
\* it has its body, as long as its body.  What it decided by the size it saw
\* holds of that size.
RequestOK(r) ==
    \/ r = Idle
    \/ /\ Flight(r)
       /\ r.pc \in PCs \ {"idle"}
       /\ r.pc # "answered" \/ r.status = 204 =>
             r.start \in Nat /\ r.end \in r.start..MaxInt
       /\ r.pc \in {"body", "write", "fill"} =>
             /\ r.size \in 0..MaxInt
             /\ r.appending \in BOOLEAN
             /\ IF r.appending THEN r.size = r.start ELSE r.end < r.size
       /\ r.pc \in {"write", "fill", "sync"} => r.end - r.start + 1 <= MaxBody
       /\ r.pc = "fill" => r.appending /\ r.end < MaxInt
       /\ r.pc \in {"open", "body", "write", "close"} => ~r.touched
       /\ r.pc = "close" => r.status \in {400, 413, 416}
       /\ r.pc = "answered" /\ r.status \in Refusals => ~r.touched

TypeInv ==
    /\ file \in Seq(Bytes) /\ Len(file) <= MaxInt
    /\ disk \in Seq(Bytes) /\ Len(disk) <= MaxInt
    /\ disturbed \in BOOLEAN
    /\ req = [c \in Client |-> req[c]]
    /\ \A c \in Client : RequestOK(req[c])

LEMMA InFlightIs ==
    ASSUME TypeInv, NEW c \in Client, req[c].pc # "idle"
    PROVE  /\ Flight(req[c]) /\ RequestOK(req[c]) /\ req[c].pc \in PCs
           /\ req[c].pc # "answered" => First(c) \in Nat /\ Last(c) \in First(c)..MaxInt
<1>1. RequestOK(req[c]) /\ req[c] # Idle
  BY DEF TypeInv, Idle
<1>. QED
  BY <1>1 DEF RequestOK, First, Last

\* A length that fits MaxBody has not overflowed.
LEMMA LengthIs ==
    ASSUME NEW c, First(c) \in Nat, Last(c) \in First(c)..MaxInt
    PROVE  /\ Length(c) \in 0..MaxBody => Last(c) - First(c) + 1 <= MaxBody
           /\ Last(c) - First(c) + 1 <= MaxBody =>
                 Length(c) = Last(c) - First(c) + 1 /\ Length(c) \in 1..MaxBody
<1> DEFINE n == Last(c) - First(c) + 1
<1>1. n \in 1..MaxInt + 1 /\ MaxInt \in Nat /\ MaxBody \in Nat /\ MaxBody < MaxInt
  BY PutRangeAssumption
<1>2. /\ n <= MaxInt => Length(c) = n
      /\ n = MaxInt + 1 => Length(c) = -MaxInt - 1
  BY <1>1, WrapIs DEF Length
<1>. QED
  BY <1>1, <1>2

-----------------------------------------------------------------------------
(* How a step moves the request it serves. *)

\* Only the request of c changes.
Moves(c) ==
    /\ req' = [d \in Client |-> req'[d]]
    /\ \A d \in Client \ {c} : req'[d] = req[d]

HandleStep(c) ==
    handles' = IF req'[c].pc \in Opened THEN handles \cup {c} ELSE handles \ {c}

FsmuStep(c) ==
    \/ req[c].pc \notin Writing /\ req'[c].pc \notin Writing /\ fsmu' = fsmu
    \/ req[c].pc \in Writing /\ req'[c].pc \in Writing /\ fsmu = c /\ fsmu' = c
    \/ req[c].pc \notin Writing /\ req'[c].pc \in Writing /\ fsmu = Nobody /\ fsmu' = c
    \/ req[c].pc \in Writing /\ req'[c].pc \notin Writing /\ fsmu = c /\ fsmu' = Nobody

Served(c) == Moves(c) /\ RequestOK(req'[c]) /\ HandleStep(c) /\ FsmuStep(c)

\* What a step leaves of the request it serves.
Carries(c) ==
    /\ Flight(req'[c])
    /\ req'[c].kind = req[c].kind /\ req'[c].start = req[c].start /\ req'[c].end = req[c].end

LEMMA AnsweredIs ==
    ASSUME TypeInv, NEW c \in Client, Flight(req[c]), NEW status, Answered(c, status)
    PROVE  /\ Moves(c) /\ Carries(c)
           /\ req'[c].pc = "answered" /\ req'[c].status = status
           /\ req'[c].touched = req[c].touched
  BY DEF TypeInv, Answered, Moves, Carries, Flight

LEMMA ClosingIs ==
    ASSUME TypeInv, NEW c \in Client, Flight(req[c]), NEW status,
           req' = [req EXCEPT ![c].pc = "close", ![c].status = status]
    PROVE  /\ Moves(c) /\ Carries(c)
           /\ req'[c].pc = "close" /\ req'[c].status = status
           /\ req'[c].touched = req[c].touched
  BY DEF TypeInv, Moves, Carries, Flight

LEMMA FinishIs ==
    ASSUME TypeInv, NEW c \in Client, Flight(req[c]), NEW status, Finish(c, status)
    PROVE  /\ Moves(c) /\ Carries(c)
           /\ req'[c].pc = "answered" /\ req'[c].status = status
           /\ handles' = handles \ {c} /\ fsmu' = Nobody
  BY DEF TypeInv, Finish, Moves, Carries, Flight

\* A 204 or a 500 closes the section of a write.
LEMMA FinishServed ==
    ASSUME TypeInv, NEW c \in Client, req[c].pc \notin {"idle", "answered"},
           NEW status \in {204, 500},
           Finish(c, status),
           IF req[c].pc \in Writing THEN fsmu = c ELSE fsmu = Nobody
    PROVE  Served(c)
<1>1. /\ Flight(req[c])
      /\ req[c].start \in Nat /\ req[c].end \in req[c].start..MaxInt
  BY InFlightIs DEF First, Last
<1>2. /\ Moves(c) /\ Carries(c)
      /\ req'[c].pc = "answered" /\ req'[c].status = status
      /\ handles' = handles \ {c} /\ fsmu' = Nobody
  BY <1>1, FinishIs
<1>3. RequestOK(req'[c])
  BY <1>1, <1>2 DEF Carries, RequestOK, Refusals, PCs
<1>. QED
  BY <1>2, <1>3 DEF Served, HandleStep, FsmuStep, Opened, Writing

LEMMA ServeServed ==
    ASSUME TypeInv, HandlesClosed, NEW c \in Client, Serve(c)
    PROVE  Served(c)
<1>1. CASE req[c].pc = "idle"
  BY <1>1 DEF Serve, OpenRefused, OpenFile, OpenBeyondEnd, CloseFile, BodyWhole,
     BodyTooLarge, BodyShort, Grow, GrowFails, Fill, FillFails, MayFill, SyncAndClose,
     SyncFails, Deliver, At
<1>. SUFFICES ASSUME req[c].pc # "idle" PROVE Served(c)
  BY <1>1
<1>2. /\ Flight(req[c]) /\ RequestOK(req[c]) /\ req[c] # Idle
      /\ req[c].pc # "answered" => First(c) \in Nat /\ Last(c) \in First(c)..MaxInt
      /\ DOMAIN req = Client
  BY InFlightIs DEF Idle, TypeInv
<1>3. c \in handles <=> req[c].pc \in Opened
  BY DEF HandlesClosed, Opened
<1>4. Len(file) \in 0..MaxInt
  BY PutRangeAssumption DEF TypeInv
<1>5. CASE OpenRefused(c)
  <2>1. PICK status \in {405, 409, 500, 501} : Answered(c, status)
    BY <1>5 DEF OpenRefused
  <2>2. /\ Moves(c) /\ Carries(c)
        /\ req'[c].pc = "answered" /\ req'[c].status = status
        /\ req'[c].touched = req[c].touched
    BY <1>2, <2>1, AnsweredIs
  <2>3. req[c].pc = "open" /\ handles' = handles /\ fsmu' = fsmu
    BY <1>5 DEF OpenRefused, At
  <2>4. RequestOK(req'[c])
    BY <1>2, <2>2, <2>3 DEF Carries, RequestOK, PCs
  <2>. QED
    BY <1>3, <2>2, <2>3, <2>4 DEF Served, HandleStep, FsmuStep, Opened, Writing
<1>6. CASE OpenFile(c)
  <2>1. /\ req[c].pc = "open" /\ handles' = handles \cup {c} /\ fsmu' = fsmu
        /\ Last(c) < Len(file) \/ First(c) = Len(file)
    BY <1>6 DEF OpenFile, At, Satisfiable
  <2>2. /\ Moves(c) /\ Carries(c)
        /\ req'[c].pc = "body" /\ req'[c].touched = req[c].touched
        /\ req'[c].size = Len(file) /\ req'[c].appending = (First(c) = Len(file))
    BY <1>2, <1>6 DEF OpenFile, Moves, Carries, Flight
  <2>3. /\ req[c].start \in Nat /\ req[c].end \in req[c].start..MaxInt
        /\ ~req[c].touched
    BY <1>2, <2>1 DEF RequestOK, First, Last
  <2>4. req'[c].size \in 0..MaxInt /\ req'[c].appending \in BOOLEAN
    BY <1>4, <2>2
  <2>5. IF req'[c].appending THEN req'[c].size = req'[c].start
                            ELSE req'[c].end < req'[c].size
    BY <2>1, <2>2 DEF Carries, First, Last
  <2>6. RequestOK(req'[c])
    BY <2>2, <2>3, <2>4, <2>5 DEF Carries, RequestOK, PCs
  <2>. QED
    BY <2>1, <2>2, <2>6 DEF Served, HandleStep, FsmuStep, Opened, Writing
<1>7. CASE OpenBeyondEnd(c)
  <2>1. req[c].pc = "open" /\ handles' = handles \cup {c} /\ fsmu' = fsmu
    BY <1>7 DEF OpenBeyondEnd, At
  <2>2. /\ Moves(c) /\ Carries(c)
        /\ req'[c].pc = "close" /\ req'[c].touched = req[c].touched
        /\ req'[c].status \in {416}
    <3>1. req' = [req EXCEPT ![c].pc = "close", ![c].status = 416]
      BY <1>7 DEF OpenBeyondEnd
    <3>2. Flight(req[c])
      BY <1>2
    <3>3. /\ Moves(c) /\ Carries(c)
          /\ req'[c].pc = "close" /\ req'[c].status = 416
          /\ req'[c].touched = req[c].touched
      BY <3>1, <3>2, ClosingIs
    <3>. QED
      BY <3>3
  <2>3. RequestOK(req'[c])
    BY <1>2, <2>1, <2>2 DEF Carries, RequestOK, PCs
  <2>. QED
    BY <2>1, <2>2, <2>3 DEF Served, HandleStep, FsmuStep, Opened, Writing
<1>8. CASE CloseFile(c)
  <2>1. req[c].pc = "close" /\ handles' = handles \ {c} /\ fsmu' = fsmu
    BY <1>8 DEF CloseFile, At
  <2>2. /\ Moves(c) /\ Carries(c)
        /\ req'[c].pc = "answered" /\ req'[c].touched = req[c].touched
        /\ req'[c].status = req[c].status
    BY <1>2, <1>8 DEF CloseFile, Moves, Carries, Flight
  <2>3. RequestOK(req'[c])
    BY <1>2, <2>1, <2>2 DEF Carries, RequestOK, PCs
  <2>. QED
    BY <2>1, <2>2, <2>3 DEF Served, HandleStep, FsmuStep, Opened, Writing
<1>9. CASE BodyWhole(c)
  <2>1. /\ req[c].pc = "body" /\ handles' = handles /\ fsmu' = fsmu
        /\ Last(c) - First(c) + 1 <= MaxBody
    BY <1>2, <1>9, LengthIs DEF BodyWhole, At
  <2>2. /\ Moves(c) /\ Carries(c)
        /\ req'[c].pc = "write" /\ req'[c].touched = req[c].touched
        /\ req'[c].size = req[c].size /\ req'[c].appending = req[c].appending
    BY <1>2, <1>9 DEF BodyWhole, Moves, Carries, Flight
  <2>3. RequestOK(req'[c])
    BY <1>2, <2>1, <2>2 DEF Carries, RequestOK, PCs, First, Last
  <2>. QED
    BY <1>3, <2>1, <2>2, <2>3 DEF Served, HandleStep, FsmuStep, Opened, Writing
<1>10. CASE BodyTooLarge(c) \/ BodyShort(c)
  <2>1. req[c].pc = "body" /\ handles' = handles /\ fsmu' = fsmu
    BY <1>10 DEF BodyTooLarge, BodyShort, At
  <2>2. /\ Moves(c) /\ Carries(c)
        /\ req'[c].pc = "close" /\ req'[c].touched = req[c].touched
        /\ req'[c].status \in {400, 413}
    BY <1>2, <1>10, ClosingIs DEF BodyTooLarge, BodyShort
  <2>3. RequestOK(req'[c])
    BY <1>2, <2>1, <2>2 DEF Carries, RequestOK, PCs
  <2>. QED
    BY <1>3, <2>1, <2>2, <2>3 DEF Served, HandleStep, FsmuStep, Opened, Writing
<1>11. CASE Grow(c)
  <2>1. /\ req[c].pc = "write" /\ req[c].appending /\ Wrap(Last(c) + 1) >= 0
        /\ handles' = handles /\ fsmu = Nobody /\ fsmu' = c
    BY <1>11 DEF Grow, At, FsFree
  <2>2. /\ Moves(c) /\ Carries(c) /\ req'[c].pc = "fill"
        /\ req'[c].size = req[c].size /\ req'[c].appending = req[c].appending
    BY <1>2, <1>11 DEF Grow, Moves, Carries, Flight
  <2>3. Last(c) < MaxInt
    BY <1>2, <2>1, WrapIs, PutRangeAssumption
  <2>4. RequestOK(req'[c])
    BY <1>2, <2>1, <2>2, <2>3 DEF Carries, RequestOK, PCs, First, Last
  <2>. QED
    BY <1>3, <2>1, <2>2, <2>4 DEF Served, HandleStep, FsmuStep, Opened, Writing
<1>12. CASE GrowFails(c)
  BY <1>12, FinishServed DEF GrowFails, At, FsFree, Writing
<1>13. CASE Fill(c)
  <2>1. /\ \/ req[c].pc = "fill" /\ fsmu = c
           \/ req[c].pc = "write" /\ fsmu = Nobody
        /\ handles' = handles /\ fsmu' = c
    BY <1>13 DEF Fill, MayFill, At, FsFree, Owns
  <2>2. /\ Moves(c) /\ Carries(c) /\ req'[c].pc = "sync"
    BY <1>2, <1>13 DEF Fill, Moves, Carries, Flight
  <2>3. RequestOK(req'[c])
    BY <1>2, <2>1, <2>2 DEF Carries, RequestOK, PCs
  <2>. QED
    BY <1>3, <2>1, <2>2, <2>3 DEF Served, HandleStep, FsmuStep, Opened, Writing
<1>14. CASE FillFails(c)
  BY <1>14, FinishServed DEF FillFails, MayFill, At, FsFree, Owns, Writing
<1>15. CASE SyncAndClose(c) \/ SyncFails(c)
  BY <1>15, FinishServed DEF SyncAndClose, SyncFails, At, Owns, Writing
<1>16. CASE Deliver(c)
  <2>1. req[c].pc = "answered" /\ handles' = handles /\ fsmu' = fsmu
    BY <1>16 DEF Deliver, At
  <2>2. Moves(c) /\ req'[c] = Idle
    BY <1>2, <1>16 DEF Deliver, Moves
  <2>. QED
    BY <1>3, <2>1, <2>2 DEF Served, RequestOK, Idle, HandleStep, FsmuStep, Opened, Writing
<1>. QED
  BY <1>5, <1>6, <1>7, <1>8, <1>9, <1>10, <1>11, <1>12, <1>13, <1>14, <1>15, <1>16 DEF Serve

LEMMA ArrivalServed ==
    ASSUME TypeInv, HandlesClosed, NEW c \in Client, NEW h \in Headers,
           Malformed(c, h) \/ \E kind \in Kinds : Receive(c, h, kind)
    PROVE  Served(c) /\ (req'[c].pc = "open" \/ req'[c].status = 400)
<1>1. req[c].pc = "idle" /\ handles' = handles /\ fsmu' = fsmu /\ c \notin handles
  BY DEF Malformed, Receive, At, HandlesClosed
<1>2. h.start \in Int /\ h.end \in Int /\ h.end <= MaxInt /\ MaxInt \in Nat
  BY HeadersAssumption, PutRangeAssumption
<1>3. PICK kind \in Kinds, pc \in {"open", "answered"}, status \in {0, 400} :
         /\ Arrived(c, h, kind, pc, status)
         /\ pc = "open" => WellFormed(h)
         /\ pc = "answered" => status = 400
  <2>1. CASE Malformed(c, h)
    BY <2>1 DEF Malformed, Kinds
  <2>2. CASE \E kind \in Kinds : Receive(c, h, kind)
    BY <2>2 DEF Receive
  <2>. QED
    BY <2>1, <2>2
<1>4. /\ Moves(c) /\ Flight(req'[c]) /\ req'[c].pc = pc /\ req'[c].status = status
      /\ req'[c].start = h.start /\ req'[c].end = h.end /\ req'[c].touched = FALSE
  BY <1>3 DEF Arrived, TypeInv, Moves, Flight
<1>5. RequestOK(req'[c])
  BY <1>2, <1>3, <1>4 DEF RequestOK, WellFormed, PCs
<1>. QED
  BY <1>1, <1>3, <1>4, <1>5 DEF Served, HandleStep, FsmuStep, Opened, Writing

-----------------------------------------------------------------------------
(* The steps, by what they change. *)

\* The process died, or the power went.
Restarts ==
    /\ req' = [c \in Client |-> Idle]
    /\ fsmu' = Nobody /\ handles' = {} /\ disk' = disk
    /\ file' \in {file, disk}

\* The request of c moves and the files stay as they are.
Quiet(c) ==
    /\ req[c].pc # "fill" /\ req'[c].pc # "fill"
    /\ file' = file /\ disk' = disk /\ disturbed' = disturbed

LEMMA QuietIs ==
    ASSUME TypeInv, HandlesClosed, NEW c \in Client, Serve(c)
    PROVE  Quiet(c) \/ Grow(c) \/ GrowFails(c) \/ Fill(c) \/ FillFails(c)
           \/ SyncAndClose(c) \/ SyncFails(c)
<1>1. CASE req[c].pc = "idle"
  BY <1>1 DEF Serve, OpenRefused, OpenFile, OpenBeyondEnd, CloseFile, BodyWhole,
     BodyTooLarge, BodyShort, Grow, GrowFails, Fill, FillFails, MayFill, SyncAndClose,
     SyncFails, Deliver, At
<1>2. SUFFICES ASSUME req[c].pc # "idle" PROVE Quiet(c) \/ Grow(c) \/ GrowFails(c)
           \/ Fill(c) \/ FillFails(c) \/ SyncAndClose(c) \/ SyncFails(c)
  BY <1>1
<1>3. Flight(req[c]) /\ DOMAIN req = Client
  BY <1>2, InFlightIs DEF TypeInv
<1>4. CASE OpenRefused(c)
  BY <1>3, <1>4 DEF OpenRefused, Answered, At, Flight, Quiet
<1>5. CASE OpenFile(c) \/ OpenBeyondEnd(c) \/ CloseFile(c)
  BY <1>3, <1>5 DEF OpenFile, OpenBeyondEnd, CloseFile, At, Flight, Quiet
<1>6. CASE BodyWhole(c) \/ BodyTooLarge(c) \/ BodyShort(c)
  BY <1>3, <1>6 DEF BodyWhole, BodyTooLarge, BodyShort, At, Flight, Quiet
<1>7. CASE Deliver(c)
  BY <1>3, <1>7 DEF Deliver, At, Idle, Quiet
<1>. QED
  BY <1>4, <1>5, <1>6, <1>7 DEF Serve

\* Every step serves one request, replaces the file or restarts.
LEMMA NextRequest ==
    ASSUME TypeInv, HandlesClosed, [Next]_vars
    PROVE  \/ \E c \in Client : Served(c)
           \/ UNCHANGED << req, fsmu, handles >>
           \/ Restarts
<1>1. CASE \E c \in Client, h \in Headers :
              Malformed(c, h) \/ \E kind \in Kinds : Receive(c, h, kind)
  BY <1>1, ArrivalServed
<1>2. CASE \E c \in Client : Serve(c)
  BY <1>2, ServeServed
<1>3. CASE \E n \in Plain : PlainPut(n)
  BY <1>3 DEF PlainPut
<1>4. CASE Crash \/ PowerCut
  BY <1>4 DEF Crash, PowerCut, Die, Restarts
<1>5. CASE UNCHANGED vars
  BY <1>5 DEF vars
<1>. QED
  BY <1>1, <1>2, <1>3, <1>4, <1>5 DEF Next

-----------------------------------------------------------------------------
(* The bytes of a step. *)

\* Ready to write, a request writes in place into the file it saw, or the file
\* was grown for it.
LEMMA MayFillIs ==
    ASSUME TypeInv, NEW c \in Client, MayFill(c)
    PROVE  /\ First(c) \in Nat /\ Last(c) \in First(c)..MaxInt /\ Last(c) < MaxInt
           /\ Length(c) = Last(c) - First(c) + 1 /\ Length(c) \in Nat \ {0}
           /\ req[c].size \in 0..MaxInt /\ req[c].appending \in BOOLEAN
           /\ IF req[c].appending THEN req[c].size = First(c) ELSE Last(c) < req[c].size
           /\ req[c].pc \in {"write", "fill"}
           /\ req[c].appending <=> req[c].pc = "fill"
<1>1. /\ req[c].pc \in {"write", "fill"}
      /\ req[c].pc = "write" => ~req[c].appending
  BY DEF MayFill, At
<1>2. RequestOK(req[c]) /\ req[c] # Idle
  BY <1>1, InFlightIs DEF Idle
<1>3. /\ First(c) \in Nat /\ Last(c) \in First(c)..MaxInt
      /\ req[c].size \in 0..MaxInt /\ req[c].appending \in BOOLEAN
      /\ IF req[c].appending THEN req[c].size = First(c) ELSE Last(c) < req[c].size
      /\ Last(c) - First(c) + 1 <= MaxBody
      /\ req[c].pc = "fill" => req[c].appending /\ Last(c) < MaxInt
  BY <1>1, <1>2 DEF RequestOK, First, Last
<1>4. Length(c) = Last(c) - First(c) + 1 /\ Length(c) \in 1..MaxBody
  BY <1>3, LengthIs
<1>5. Last(c) < MaxInt
  BY <1>1, <1>3, PutRangeAssumption
<1>. QED
  BY <1>1, <1>3, <1>4, <1>5, PutRangeAssumption

\* What WriteAt leaves when it writes n bytes of the range.
Partial(c, n) == IF n = 0 THEN file ELSE WriteAt(file, First(c), n, c)

LEMMA PartialIs ==
    ASSUME TypeInv, NEW c \in Client, MayFill(c), NEW n \in 0..Length(c),
           NEW g, g = Partial(c, n)
    PROVE  /\ g \in Seq(Bytes) /\ Len(g) <= MaxInt
           /\ n # 0 => Len(g) >= First(c) + n
           /\ Len(g) >= Len(file)
           /\ (n # 0 /\ Len(g) <= First(c) + n) \/ Len(g) <= Len(file)
           /\ \A i \in 1..Len(g) : g[i] = Written(file, First(c), n, c, i)
<1>1. file \in Seq(Bytes) /\ Len(file) <= MaxInt /\ MaxInt \in Nat
  BY PutRangeAssumption DEF TypeInv
<1>2. First(c) \in Nat /\ n \in Nat /\ First(c) + n <= MaxInt
  BY MayFillIs, <1>1
<1>3. CASE n = 0
  BY <1>1, <1>2, <1>3 DEF Partial, Written
<1>4. CASE n # 0
  <2>1. c \in Bytes
    BY DEF Bytes
  <2>2. g = WriteAt(file, First(c), n, c)
    BY <1>4 DEF Partial
  <2>3. /\ g \in Seq(Bytes)
        /\ Len(g) >= First(c) + n /\ Len(g) >= Len(file)
        /\ Len(g) <= First(c) + n \/ Len(g) <= Len(file)
        /\ \A i \in 1..Len(g) : g[i] = Written(file, First(c), n, c, i)
    BY <1>1, <1>2, <2>1, <2>2, WriteAtIs
  <2>. QED
    BY <1>1, <1>2, <1>4, <2>3
<1>. QED
  BY <1>3, <1>4

LEMMA FillIsPartial ==
    ASSUME TypeInv, NEW c \in Client, Fill(c)
    PROVE  MayFill(c) /\ Length(c) # 0 /\ file' = Partial(c, Length(c))
<1>1. MayFill(c) /\ file' = WriteAt(file, First(c), Length(c), c)
  BY DEF Fill
<1>2. Length(c) # 0
  BY <1>1, MayFillIs
<1>. QED
  BY <1>1, <1>2 DEF Partial

LEMMA FillFailsIs ==
    ASSUME TypeInv, NEW c \in Client, FillFails(c)
    PROVE  /\ MayFill(c) /\ disk' = disk
           /\ \E n \in 0..Length(c) - 1 :
                 \/ /\ file' = IF req[c].appending
                               THEN Resize(Partial(c, n), req[c].size) ELSE Partial(c, n)
                    /\ disturbed' = (disturbed \/ Late(c))
                 \/ req[c].appending /\ file' = Partial(c, n) /\ disturbed' = TRUE
  BY DEF FillFails, Partial

FileTyped ==
    /\ file' \in Seq(Bytes) /\ Len(file') <= MaxInt
    /\ disk' \in Seq(Bytes) /\ Len(disk') <= MaxInt
    /\ disturbed' \in BOOLEAN

LEMMA NextFiles ==
    ASSUME TypeInv, HandlesClosed, [Next]_vars
    PROVE  FileTyped
<1>1. /\ file \in Seq(Bytes) /\ Len(file) <= MaxInt
      /\ disk \in Seq(Bytes) /\ Len(disk) <= MaxInt
      /\ disturbed \in BOOLEAN /\ MaxInt \in Nat
  BY PutRangeAssumption DEF TypeInv
<1>2. ASSUME NEW c \in Client, Serve(c) PROVE FileTyped
  <2>1. CASE Quiet(c)
    BY <1>1, <2>1 DEF Quiet, FileTyped
  <2>2. CASE Grow(c)
    <3>1. Wrap(Last(c) + 1) >= 0 /\ file' = Resize(file, Wrap(Last(c) + 1))
      BY <2>2 DEF Grow
    <3>2. First(c) \in Nat /\ Last(c) \in First(c)..MaxInt
      BY <2>2, InFlightIs DEF Grow, At
    <3>3. Wrap(Last(c) + 1) = Last(c) + 1 /\ Last(c) + 1 \in 0..MaxInt
      BY <1>1, <3>1, <3>2, WrapIs
    <3>4. file' \in Seq(Bytes) /\ Len(file') = Last(c) + 1
      BY <1>1, <3>1, <3>3, ResizeIs
    <3>5. disturbed' \in BOOLEAN /\ disk' = disk
      BY <2>2 DEF Grow
    <3>. QED
      BY <1>1, <3>3, <3>4, <3>5 DEF FileTyped
  <2>3. CASE GrowFails(c)
    BY <1>1, <2>3 DEF GrowFails, FileTyped
  <2>4. CASE Fill(c)
    <3>1. MayFill(c) /\ file' = Partial(c, Length(c)) /\ Length(c) \in 0..Length(c)
      BY <2>4, FillIsPartial, MayFillIs
    <3>2. file' \in Seq(Bytes) /\ Len(file') <= MaxInt
      BY <3>1, PartialIs
    <3>3. disturbed' \in BOOLEAN /\ disk' = disk
      BY <2>4 DEF Fill
    <3>. QED
      BY <1>1, <3>2, <3>3 DEF FileTyped
  <2>5. CASE FillFails(c)
    <3>1. MayFill(c) /\ disk' = disk /\ disturbed' \in BOOLEAN
      BY <2>5, FillFailsIs
    <3>2. PICK n \in 0..Length(c) - 1 :
             \/ file' = Partial(c, n)
             \/ req[c].appending /\ file' = Resize(Partial(c, n), req[c].size)
      BY <2>5, FillFailsIs
    <3>3. n \in 0..Length(c) /\ req[c].size \in Nat /\ req[c].size <= MaxInt
      BY <1>1, <3>1, MayFillIs
    <3>4. Partial(c, n) \in Seq(Bytes) /\ Len(Partial(c, n)) <= MaxInt
      BY <3>1, <3>3, PartialIs
    <3>5. /\ Resize(Partial(c, n), req[c].size) \in Seq(Bytes)
          /\ Len(Resize(Partial(c, n), req[c].size)) <= MaxInt
      BY <3>3, <3>4, ResizeIs
    <3>. QED
      BY <1>1, <3>1, <3>2, <3>4, <3>5 DEF FileTyped
  <2>6. CASE SyncAndClose(c) \/ SyncFails(c)
    BY <1>1, <2>6 DEF SyncAndClose, SyncFails, FileTyped
  <2>. QED
    BY <1>2, <2>1, <2>2, <2>3, <2>4, <2>5, <2>6, QuietIs
<1>3. ASSUME NEW n \in Plain, PlainPut(n) PROVE FileTyped
  <2>1. n \in Nat /\ n <= MaxInt
    BY PutRangeAssumption
  <2>2. Sent \in Bytes
    BY DEF Bytes
  <2>3. file' \in Seq(Bytes) /\ Len(file') = n
    BY <1>3, <2>1, <2>2 DEF PlainPut
  <2>4. disk' = disk /\ disturbed' = disturbed
    BY <1>3 DEF PlainPut
  <2>. QED
    BY <1>1, <2>1, <2>3, <2>4 DEF FileTyped
<1>4. CASE \E c \in Client, h \in Headers :
              Malformed(c, h) \/ \E kind \in Kinds : Receive(c, h, kind)
  BY <1>1, <1>4 DEF Malformed, Receive, FileTyped
<1>5. CASE Crash \/ PowerCut
  BY <1>1, <1>5 DEF Crash, PowerCut, Die, FileTyped
<1>6. CASE UNCHANGED vars
  BY <1>1, <1>6 DEF vars, FileTyped
<1>. QED
  BY <1>2, <1>3, <1>4, <1>5, <1>6 DEF Next

-----------------------------------------------------------------------------
(* The types, the open files and the one writer. *)

LEMMA TypeInvStep ==
    ASSUME TypeInv, HandlesClosed, [Next]_vars
    PROVE  TypeInv'
<1>1. FileTyped
  BY NextFiles
<1>2. req' = [c \in Client |-> req'[c]] /\ \A c \in Client : RequestOK(req'[c])
  <2>1. CASE \E c \in Client : Served(c)
    BY <2>1 DEF Served, Moves, TypeInv
  <2>2. CASE UNCHANGED req
    BY <2>2 DEF TypeInv
  <2>3. CASE Restarts
    BY <2>3 DEF Restarts, RequestOK
  <2>. QED
    BY <2>1, <2>2, <2>3, NextRequest
<1>. QED
  BY <1>1, <1>2 DEF FileTyped, TypeInv, RequestOK, Flight

LEMMA HandlesStep ==
    ASSUME TypeInv, HandlesClosed, [Next]_vars
    PROVE  HandlesClosed'
<1>1. handles = {c \in Client : req[c].pc \in Opened}
  BY DEF HandlesClosed, Opened
<1>2. handles' = {c \in Client : req'[c].pc \in Opened}
  <2>1. CASE \E c \in Client : Served(c)
    BY <1>1, <2>1 DEF Served, Moves, HandleStep
  <2>2. CASE UNCHANGED << req, handles >>
    BY <1>1, <2>2
  <2>3. CASE Restarts
    BY <2>3 DEF Restarts, Idle, Opened
  <2>. QED
    BY <2>1, <2>2, <2>3, NextRequest
<1>. QED
  BY <1>2 DEF HandlesClosed, Opened

\* Who holds fsmu between two steps is the one request that is writing.
MutexInv ==
    /\ fsmu \in Client \cup {Nobody}
    /\ \A c \in Client : req[c].pc \in Writing <=> fsmu = c

LEMMA MutexStep ==
    ASSUME TypeInv, HandlesClosed, MutexInv, [Next]_vars
    PROVE  MutexInv'
<1>1. Nobody \notin Client
  BY ClientAssumption
<1>2. CASE \E c \in Client : Served(c)
  BY <1>1, <1>2 DEF MutexInv, Served, Moves, FsmuStep
<1>3. CASE UNCHANGED << req, fsmu >>
  BY <1>3 DEF MutexInv
<1>4. CASE Restarts
  BY <1>1, <1>4 DEF MutexInv, Restarts, Idle, Writing
<1>. QED
  BY <1>2, <1>3, <1>4, NextRequest

\* A step that takes fsmu, or the one that holds it, finds nobody else writing.
LEMMA NoneFills ==
    ASSUME MutexInv, NEW c, fsmu = c \/ FsFree, NEW d \in Client, d # c
    PROVE  req[d].pc \notin Writing
  BY ClientAssumption DEF MutexInv, FsFree

LEMMA WriterIs ==
    ASSUME NEW c \in Client, Grow(c) \/ GrowFails(c) \/ Fill(c) \/ FillFails(c)
                             \/ SyncAndClose(c) \/ SyncFails(c)
    PROVE  /\ fsmu = c \/ FsFree
           /\ req[c].pc \in {"write", "fill", "sync"}
           /\ req[c].pc \in Writing => fsmu = c
  BY DEF Grow, GrowFails, Fill, FillFails, MayFill, SyncAndClose, SyncFails, At, Owns,
     FsFree, Writing

\* A step of c brings the file no bytes but its own and Zero.
LEMMA OthersBytes ==
    ASSUME TypeInv, HandlesClosed, NEW c \in Client, Serve(c),
           NEW d \in Client, d # c, NEW i \in 1..Len(file'), file'[i] = d
    PROVE  i \in 1..Len(file) /\ file[i] = d
<1>1. file \in Seq(Bytes) /\ d # Zero
  BY ClientAssumption DEF TypeInv
<1>2. CASE file' = file
  BY <1>2
<1>3. CASE Grow(c)
  <2>1. First(c) \in Nat /\ Last(c) \in First(c)..MaxInt /\ MaxInt \in Nat
    BY <1>3, InFlightIs, PutRangeAssumption DEF Grow, At
  <2>2. /\ Wrap(Last(c) + 1) \in Nat /\ file' = Resize(file, Wrap(Last(c) + 1))
    BY <1>3, <2>1, WrapIs DEF Grow
  <2>3. /\ Len(file') = Wrap(Last(c) + 1)
        /\ \A j \in 1..Wrap(Last(c) + 1) :
              file'[j] = IF j <= Len(file) THEN file[j] ELSE Zero
    BY <1>1, <2>2, ResizeIs
  <2>. QED
    BY <1>1, <2>3
<1>4. ASSUME NEW n \in 0..Length(c), NEW g, g = Partial(c, n), MayFill(c),
             NEW j \in 1..Len(g), g[j] = d
      PROVE  j \in 1..Len(file) /\ file[j] = d
  <2>1. g[j] = Written(file, First(c), n, c, j)
    BY <1>4, PartialIs
  <2>. QED
    BY <1>1, <1>4, <2>1 DEF Written
<1>5. CASE Fill(c)
  <2>1. MayFill(c) /\ file' = Partial(c, Length(c)) /\ Length(c) \in 0..Length(c)
    BY <1>5, FillIsPartial, MayFillIs
  <2>. QED
    BY <1>4, <2>1
<1>6. CASE FillFails(c)
  <2>1. MayFill(c)
    BY <1>6, FillFailsIs
  <2>2. PICK n \in 0..Length(c) - 1 :
           \/ file' = Partial(c, n)
           \/ req[c].appending /\ file' = Resize(Partial(c, n), req[c].size)
    BY <1>6, FillFailsIs
  <2>3. n \in 0..Length(c) /\ req[c].size \in Nat
    BY <2>1, MayFillIs
  <2>. DEFINE g == Partial(c, n)
  <2>4. g \in Seq(Bytes) /\ \A j \in 1..Len(g) : g[j] = d => j \in 1..Len(file) /\ file[j] = d
    BY <1>4, <2>1, <2>3, PartialIs
  <2>5. CASE file' = g
    BY <2>4, <2>5
  <2>6. CASE file' = Resize(g, req[c].size)
    <3>. HIDE DEF g
    <3>1. /\ Len(file') = req[c].size
          /\ \A j \in 1..req[c].size : file'[j] = IF j <= Len(g) THEN g[j] ELSE Zero
      BY <2>3, <2>4, <2>6, ResizeIs
    <3>. QED
      BY <1>1, <2>4, <3>1
  <2>. QED
    BY <2>2, <2>5, <2>6
<1>. QED
  <2>1. CASE Quiet(c) \/ GrowFails(c) \/ SyncAndClose(c) \/ SyncFails(c)
    BY <1>2, <2>1 DEF Quiet, GrowFails, SyncAndClose, SyncFails
  <2>. QED
    BY <1>3, <1>5, <1>6, <2>1, QuietIs

-----------------------------------------------------------------------------
(* What a 204 promised. *)

\* As long as the file shows a byte of an answered 204, the disk has it.
AckInv ==
    \A c \in Client :
        req[c].pc = "answered" /\ req[c].status = 204
        => \A i \in 1..Len(file) : file[i] = c => i <= Len(disk) /\ disk[i] = c

\* Only a sync answers 204.
LEMMA AckIsSynced ==
    ASSUME TypeInv, HandlesClosed, NEW c \in Client, Serve(c),
           req'[c].pc = "answered", req'[c].status = 204
    PROVE  disk' = file /\ file' = file
<1>1. CASE SyncAndClose(c)
  BY <1>1 DEF SyncAndClose
<1>2. CASE GrowFails(c) \/ FillFails(c) \/ SyncFails(c)
  <2>1. Finish(c, 500) /\ Flight(req[c])
    BY <1>2, InFlightIs DEF GrowFails, FillFails, MayFill, SyncFails, At
  <2>. QED
    BY <2>1, FinishIs
<1>3. CASE OpenRefused(c)
  <2>1. PICK status \in {405, 409, 500, 501} : Answered(c, status)
    BY <1>3 DEF OpenRefused
  <2>2. Flight(req[c])
    BY <1>3, InFlightIs DEF OpenRefused, At
  <2>. QED
    BY <2>1, <2>2, AnsweredIs
<1>4. CASE CloseFile(c)
  <2>1. req[c].pc = "close" /\ Flight(req[c]) /\ RequestOK(req[c]) /\ req[c] # Idle
    BY <1>4, InFlightIs DEF CloseFile, At, Idle
  <2>2. req[c].status \in {400, 413, 416}
    BY <2>1 DEF RequestOK
  <2>3. req'[c].status = req[c].status
    BY <1>4, <2>1 DEF CloseFile, TypeInv, Flight
  <2>. QED
    BY <2>2, <2>3
<1>5. CASE OpenFile(c) \/ OpenBeyondEnd(c) \/ BodyWhole(c) \/ BodyTooLarge(c) \/ BodyShort(c)
           \/ Grow(c) \/ Fill(c) \/ Deliver(c)
  <2>1. DOMAIN req = Client /\ req[c].pc # "idle" /\ Flight(req[c])
    BY <1>5, InFlightIs DEF TypeInv, OpenFile, OpenBeyondEnd, BodyWhole, BodyTooLarge,
       BodyShort, Grow, Fill, MayFill, Deliver, At
  <2>2. req'[c].pc # "answered"
    BY <1>5, <2>1 DEF OpenFile, OpenBeyondEnd, BodyWhole, BodyTooLarge, BodyShort, Grow,
       Fill, Deliver, Idle, Flight
  <2>. QED
    BY <2>2
<1>. QED
  BY <1>1, <1>2, <1>3, <1>4, <1>5 DEF Serve

\* No step writes to the disk but a sync, which makes it what the file is.
LEMMA DiskIs ==
    ASSUME TypeInv, HandlesClosed, NEW c \in Client, Serve(c)
    PROVE  disk' = disk \/ (disk' = file /\ file' = file)
<1>1. CASE Quiet(c) \/ Grow(c) \/ GrowFails(c) \/ Fill(c) \/ FillFails(c)
  BY <1>1 DEF Quiet, Grow, GrowFails, Fill, FillFails
<1>2. CASE SyncAndClose(c) \/ SyncFails(c)
  BY <1>2 DEF SyncAndClose, SyncFails
<1>. QED
  BY <1>1, <1>2, QuietIs

LEMMA AckStep ==
    ASSUME TypeInv, HandlesClosed, AckInv, [Next]_vars
    PROVE  AckInv'
<1>. SUFFICES ASSUME NEW d \in Client, req'[d].pc = "answered", req'[d].status = 204,
                     NEW i \in 1..Len(file'), file'[i] = d
              PROVE  i <= Len(disk') /\ disk'[i] = d
  BY DEF AckInv
<1>1. file \in Seq(Bytes) /\ d \notin {Sent, Zero}
  BY ClientAssumption DEF TypeInv
<1>2. ASSUME NEW c \in Client, Serve(c)
      PROVE  i <= Len(disk') /\ disk'[i] = d
  <2>1. CASE c = d
    <3>1. disk' = file /\ file' = file
      BY <1>2, <2>1, AckIsSynced
    <3>. QED
      BY <3>1
  <2>2. CASE c # d
    <3>1. req'[d] = req[d]
      BY <1>2, <2>2, ServeServed DEF Served, Moves
    <3>2. i \in 1..Len(file) /\ file[i] = d
      BY <1>2, <2>2, OthersBytes
    <3>3. i <= Len(disk) /\ disk[i] = d
      BY <3>1, <3>2 DEF AckInv
    <3>4. disk' = disk \/ disk' = file
      BY <1>2, DiskIs
    <3>. QED
      BY <3>2, <3>3, <3>4
  <2>. QED
    BY <2>1, <2>2
<1>3. ASSUME NEW c \in Client, NEW h \in Headers,
             Malformed(c, h) \/ \E kind \in Kinds : Receive(c, h, kind)
      PROVE  i <= Len(disk') /\ disk'[i] = d
  <2>1. Moves(c) /\ (req'[c].pc = "open" \/ req'[c].status = 400)
    BY <1>3, ArrivalServed DEF Served
  <2>2. req'[d] = req[d] /\ file' = file /\ disk' = disk
    BY <1>3, <2>1 DEF Moves, Malformed, Receive
  <2>. QED
    BY <2>2 DEF AckInv
<1>4. ASSUME NEW n \in Plain, PlainPut(n) PROVE FALSE
  <2>1. file' = [j \in 1..n |-> Sent] /\ n \in Nat
    BY <1>4, PutRangeAssumption DEF PlainPut
  <2>2. Len(file') = n
    BY <2>1
  <2>. QED
    BY <1>1, <2>1, <2>2
<1>5. CASE Crash \/ PowerCut
  BY <1>5 DEF Crash, PowerCut, Die, Idle
<1>6. CASE UNCHANGED vars
  BY <1>6 DEF vars, AckInv
<1>. QED
  BY <1>2, <1>3, <1>4, <1>5, <1>6 DEF Next

-----------------------------------------------------------------------------
(* The bytes nobody sent. *)

ZeroFree(f) == \A i \in 1..Len(f) : f[i] # Zero

\* A request between the halves of an append has the file its append made.  While
\* nothing excuses bytes nobody sent, such bytes lie where that request is
\* about to write, and none has reached the disk.
ByteInv ==
    /\ \A c \in Client : req[c].pc = "fill" => Len(file) = Last(c) + 1
    /\ ~disturbed =>
          /\ ZeroFree(disk)
          /\ \A i \in 1..Len(file) : file[i] = Zero
                => \E c \in Client : req[c].pc = "fill" /\ First(c) < i

LEMMA FillBytes ==
    ASSUME TypeInv, MutexInv, ByteInv, NEW c \in Client, MayFill(c), ~disturbed, ~Late(c),
           NEW n \in 0..Length(c), NEW g, g = Partial(c, n),
           NEW i \in 1..Len(g), g[i] = Zero
    PROVE  req[c].appending /\ First(c) + n < i
<1>1. /\ First(c) \in Nat /\ Last(c) \in First(c)..MaxInt /\ Last(c) < MaxInt
      /\ Length(c) = Last(c) - First(c) + 1 /\ Length(c) \in Nat \ {0}
      /\ req[c].size \in 0..MaxInt /\ req[c].appending \in BOOLEAN
      /\ IF req[c].appending THEN req[c].size = First(c) ELSE Last(c) < req[c].size
      /\ req[c].appending <=> req[c].pc = "fill"
  BY MayFillIs
<1>2. /\ g \in Seq(Bytes) /\ Len(g) >= Len(file)
      /\ (n # 0 /\ Len(g) <= First(c) + n) \/ Len(g) <= Len(file)
      /\ g[i] = Written(file, First(c), n, c, i)
  BY PartialIs
<1>3. c # Zero /\ file \in Seq(Bytes) /\ n \in Nat
  BY <1>1, ClientAssumption DEF TypeInv
<1>4. i \notin First(c) + 1..First(c) + n
  BY <1>2, <1>3 DEF Written
<1>5. Last(c) < Len(file)
  BY <1>1, <1>3 DEF Late, Overtaken, ByteInv
<1>6. i <= Len(file)
  BY <1>1, <1>2, <1>3, <1>4, <1>5
<1>7. file[i] = Zero
  BY <1>2, <1>3, <1>4, <1>6 DEF Written
<1>8. PICK d \in Client : req[d].pc = "fill" /\ First(d) < i
  BY <1>6, <1>7 DEF ByteInv
<1>9. d = c
  BY <1>8, NoneFills DEF MayFill, Owns, Writing
<1>. QED
  BY <1>1, <1>3, <1>4, <1>8, <1>9

\* A step of the one request that may write: what it leaves is for it alone to
\* explain.
LEMMA ByteServed ==
    ASSUME NEW c \in Client, Moves(c),
           \A d \in Client \ {c} : req[d].pc \notin Writing,
           req'[c].pc = "fill" => Len(file') = req'[c].end + 1,
           ~disturbed' =>
              /\ ZeroFree(disk')
              /\ \A i \in 1..Len(file') : file'[i] = Zero
                    => req'[c].pc = "fill" /\ req'[c].start < i
    PROVE  ByteInv'
<1>1. \A d \in Client : req'[d].pc = "fill" => d = c
  BY DEF Moves, Writing
<1>. QED
  BY <1>1 DEF ByteInv, ZeroFree, First, Last

\* Nobody between the halves of an append: every byte was sent.
LEMMA NoneFillsBytes ==
    ASSUME MutexInv, ByteInv, NEW c, fsmu = c \/ FsFree, ~disturbed,
           c \in Client => req[c].pc # "fill"
    PROVE  ZeroFree(file) /\ ZeroFree(disk)
<1>1. \A d \in Client : req[d].pc # "fill"
  BY NoneFills DEF Writing
<1>. QED
  BY <1>1 DEF ByteInv, ZeroFree

LEMMA GrowBytes ==
    ASSUME TypeInv, HandlesClosed, MutexInv, ByteInv, NEW c \in Client, Grow(c)
    PROVE  ByteInv'
<1>1. /\ req[c].pc = "write" /\ req[c].appending /\ FsFree
      /\ disturbed' = (disturbed \/ Overtaken(c)) /\ disk' = disk
  BY DEF Grow, At
<1>2. /\ First(c) \in Nat /\ Last(c) \in First(c)..MaxInt /\ MaxInt \in Nat
      /\ Flight(req[c]) /\ RequestOK(req[c]) /\ req[c] # Idle
  BY <1>1, InFlightIs, PutRangeAssumption DEF Idle
<1>3. req[c].size = First(c)
  BY <1>1, <1>2 DEF RequestOK, First
<1>4. /\ req' = [req EXCEPT ![c].pc = "fill", ![c].touched = TRUE]
      /\ file' = Resize(file, Wrap(Last(c) + 1)) /\ Wrap(Last(c) + 1) >= 0
  BY DEF Grow
<1>5. Moves(c) /\ req'[c].start = First(c) /\ req'[c].end = Last(c) /\ req'[c].pc = "fill"
  BY <1>2, <1>4 DEF TypeInv, Moves, Flight, First, Last
<1>6. Wrap(Last(c) + 1) = Last(c) + 1
  BY <1>2, <1>4, WrapIs
<1>7. file \in Seq(Bytes)
  BY DEF TypeInv
<1>8. /\ Len(file') = Last(c) + 1
      /\ \A i \in 1..Last(c) + 1 : file'[i] = IF i <= Len(file) THEN file[i] ELSE Zero
  BY <1>2, <1>4, <1>6, <1>7, ResizeIs
<1>9. \A d \in Client \ {c} : req[d].pc \notin Writing
  BY <1>1, NoneFills
<1>10. ASSUME ~disturbed' PROVE ZeroFree(disk') /\ ZeroFree(file) /\ Len(file) = First(c)
  BY <1>1, <1>3, <1>10, NoneFillsBytes DEF Overtaken
<1>11. ASSUME ~disturbed', NEW i \in 1..Len(file'), file'[i] = Zero
       PROVE  First(c) < i
  <2>1. ZeroFree(file) /\ Len(file) = First(c)
    BY <1>10, <1>11
  <2>2. i \in 1..Last(c) + 1 /\ i \in Nat
    BY <1>2, <1>8, <1>11
  <2>3. CASE i <= Len(file)
    BY <1>7, <1>8, <1>11, <2>1, <2>2, <2>3 DEF ZeroFree
  <2>. QED
    BY <1>2, <2>1, <2>2, <2>3
<1>. QED
  BY <1>5, <1>8, <1>9, <1>10, <1>11, ByteServed

LEMMA FillFailsBytes ==
    ASSUME TypeInv, MutexInv, ByteInv, NEW c \in Client, FillFails(c), ~disturbed'
    PROVE  ZeroFree(file')
<1>1. PICK n \in 0..Length(c) - 1 :
         \/ /\ file' = IF req[c].appending
                       THEN Resize(Partial(c, n), req[c].size) ELSE Partial(c, n)
            /\ disturbed' = (disturbed \/ Late(c))
         \/ req[c].appending /\ file' = Partial(c, n) /\ disturbed' = TRUE
  BY FillFailsIs
<1>2. ~disturbed /\ ~Late(c) /\ MayFill(c)
  BY <1>1, FillFailsIs
<1>3. /\ n \in 0..Length(c) /\ n \in Nat /\ First(c) \in Nat
      /\ req[c].size \in Nat /\ req[c].appending \in BOOLEAN
      /\ req[c].appending => req[c].size = First(c)
  BY <1>2, MayFillIs
<1>. DEFINE g == Partial(c, n)
<1>4. file' = IF req[c].appending THEN Resize(g, req[c].size) ELSE g
  BY <1>1
<1>5. g \in Seq(Bytes)
  BY <1>2, <1>3, PartialIs
<1>6. \A i \in 1..Len(g) : g[i] = Zero => req[c].appending /\ First(c) + n < i
  BY <1>2, <1>3, FillBytes
<1>. HIDE DEF g
<1>7. CASE req[c].appending
  <2>1. /\ Len(file') = First(c)
        /\ \A i \in 1..First(c) : file'[i] = IF i <= Len(g) THEN g[i] ELSE Zero
    BY <1>3, <1>4, <1>5, <1>7, ResizeIs
  <2>2. ASSUME ~(First(c) <= Len(g)) PROVE FALSE
    <3>1. Len(g) >= Len(file) /\ file \in Seq(Bytes)
      BY <1>2, <1>3, PartialIs DEF g, TypeInv
    <3>2. req[c].pc = "fill" /\ Last(c) \in First(c)..MaxInt
      BY <1>2, <1>7, MayFillIs
    <3>3. Len(file) = Last(c) + 1
      BY <3>2 DEF ByteInv
    <3>. QED
      BY <1>3, <1>5, <2>2, <3>1, <3>2, <3>3, PutRangeAssumption
  <2>3. ASSUME NEW i \in 1..First(c), file'[i] = Zero PROVE FALSE
    <3>1. i \in 1..Len(g) /\ i \in Nat
      BY <1>3, <1>5, <2>2, <2>3
    <3>2. g[i] = Zero
      BY <1>3, <2>1, <2>3, <3>1
    <3>3. First(c) + n < i
      BY <1>6, <3>1, <3>2
    <3>. QED
      BY <1>3, <2>3, <3>3
  <2>. QED
    BY <2>1, <2>3 DEF ZeroFree
<1>8. CASE ~req[c].appending
  BY <1>4, <1>6, <1>8 DEF ZeroFree
<1>. QED
  BY <1>7, <1>8

LEMMA FillLeavesNone ==
    ASSUME TypeInv, MutexInv, ByteInv, NEW c \in Client, Fill(c), ~disturbed'
    PROVE  ZeroFree(file')
<1>1. /\ MayFill(c) /\ file' = Partial(c, Length(c)) /\ ~disturbed /\ ~Late(c)
  BY FillIsPartial DEF Fill
<1>2. /\ First(c) \in Nat /\ Last(c) \in First(c)..MaxInt /\ MaxInt \in Nat
      /\ Length(c) = Last(c) - First(c) + 1 /\ Length(c) \in Nat
      /\ req[c].appending => req[c].pc = "fill"
  BY <1>1, MayFillIs, PutRangeAssumption
<1>3. /\ file' \in Seq(Bytes)
      /\ Len(file') <= First(c) + Length(c) \/ Len(file') <= Len(file)
  BY <1>1, <1>2, PartialIs
<1>. SUFFICES ASSUME NEW i \in 1..Len(file'), file'[i] = Zero PROVE FALSE
  BY DEF ZeroFree
<1>4. Length(c) \in 0..Length(c)
  BY <1>2
<1>5. req[c].appending /\ First(c) + Length(c) < i
  BY <1>1, <1>4, FillBytes
<1>6. Len(file) = Last(c) + 1
  BY <1>2, <1>5 DEF ByteInv
<1>. QED
  BY <1>2, <1>3, <1>5, <1>6

LEMMA ByteStep ==
    ASSUME TypeInv, HandlesClosed, MutexInv, ByteInv, [Next]_vars
    PROVE  ByteInv'
<1>1. ASSUME NEW c \in Client, Moves(c), Quiet(c) PROVE ByteInv'
  BY <1>1 DEF Moves, Quiet, ByteInv, First, Last
<1>2. ASSUME NEW c \in Client, Serve(c) PROVE ByteInv'
  <2>1. Moves(c)
    BY <1>2, ServeServed DEF Served
  <2>2. CASE Quiet(c)
    BY <1>1, <2>1, <2>2
  <2>3. CASE Grow(c)
    BY <2>3, GrowBytes
  <2>4. CASE GrowFails(c) \/ Fill(c) \/ FillFails(c) \/ SyncAndClose(c) \/ SyncFails(c)
    <3>1. /\ fsmu = c \/ FsFree
          /\ req[c].pc \in {"write", "fill", "sync"}
      BY <2>4, WriterIs
    <3>2. \A d \in Client \ {c} : req[d].pc \notin Writing
      BY <3>1, NoneFills
    <3>3. req'[c].pc # "fill"
      <4>1. DOMAIN req = Client /\ Flight(req[c])
        BY <3>1, InFlightIs DEF TypeInv
      <4>. QED
        BY <2>4, <4>1 DEF GrowFails, Fill, FillFails, SyncAndClose, SyncFails, Finish, Flight
    <3>4. ASSUME ~disturbed' PROVE ZeroFree(file') /\ ZeroFree(disk')
      <4>1. CASE Fill(c) \/ FillFails(c)
        <5>1. disk' = disk /\ ~disturbed
          BY <3>4, <4>1, FillFailsIs DEF Fill
        <5>2. ZeroFree(disk)
          BY <5>1 DEF ByteInv
        <5>. QED
          BY <3>4, <4>1, <5>1, <5>2, FillLeavesNone, FillFailsBytes
      <4>2. CASE GrowFails(c) \/ SyncAndClose(c) \/ SyncFails(c)
        <5>1. /\ file' = file /\ disk' \in {file, disk} /\ disturbed' = disturbed
              /\ req[c].pc # "fill"
          BY <4>2 DEF GrowFails, SyncAndClose, SyncFails, At
        <5>2. ZeroFree(file) /\ ZeroFree(disk)
          BY <3>1, <3>4, <5>1, NoneFillsBytes
        <5>. QED
          BY <5>1, <5>2
      <4>. QED
        BY <2>4, <4>1, <4>2
    <3>. QED
      BY <2>1, <3>2, <3>3, <3>4, ByteServed DEF ZeroFree
  <2>. QED
    BY <1>2, <2>2, <2>3, <2>4, QuietIs
<1>3. ASSUME NEW c \in Client, NEW h \in Headers,
             Malformed(c, h) \/ \E kind \in Kinds : Receive(c, h, kind)
      PROVE  ByteInv'
  <2>1. Served(c) /\ (req'[c].pc = "open" \/ req'[c].status = 400)
    BY <1>3, ArrivalServed
  <2>2. /\ file' = file /\ disk' = disk /\ disturbed' = disturbed /\ fsmu' = fsmu
        /\ req[c].pc = "idle"
    BY <1>3 DEF Malformed, Receive, At
  <2>3. req'[c].pc # "fill"
    <3>1. fsmu # c
      BY <2>2 DEF MutexInv, Writing
    <3>. QED
      BY <2>1, <2>2, <3>1, ClientAssumption DEF Served, FsmuStep, Writing
  <2>. QED
    BY <1>1, <2>1, <2>2, <2>3 DEF Served, Quiet
<1>4. ASSUME NEW n \in Plain, PlainPut(n) PROVE ByteInv'
  <2>1. /\ FsFree /\ file' = [i \in 1..n |-> Sent] /\ n \in Nat
        /\ req' = req /\ disk' = disk /\ disturbed' = disturbed
    BY <1>4, PutRangeAssumption DEF PlainPut
  <2>2. \A d \in Client : req[d].pc # "fill"
    BY <2>1, ClientAssumption DEF FsFree, MutexInv, Writing
  <2>3. ~disturbed' => ZeroFree(disk')
    BY <2>1 DEF ByteInv
  <2>4. Sent # Zero
    BY DEF Sent, Zero
  <2>5. ZeroFree(file')
    BY <2>1, <2>4 DEF ZeroFree
  <2>. QED
    BY <2>1, <2>2, <2>3, <2>5 DEF ByteInv, ZeroFree
<1>5. CASE Crash \/ PowerCut
  <2>1. \A d \in Client : req'[d].pc # "fill"
    BY <1>5 DEF Crash, PowerCut, Die, Idle
  <2>2. CASE Crash
    <3>1. /\ file' = file /\ disk' = disk
          /\ disturbed' = (disturbed \/ ~FsFree)
      BY <2>2 DEF Crash, Die
    <3>2. ASSUME ~disturbed' PROVE ZeroFree(file) /\ ZeroFree(disk)
      <4>1. FsFree /\ ~disturbed
        BY <3>1, <3>2
      <4>2. \A d \in Client : req[d].pc # "fill"
        BY <4>1, ClientAssumption DEF FsFree, MutexInv, Writing
      <4>. QED
        BY <4>1, <4>2 DEF ByteInv, ZeroFree
    <3>. QED
      BY <2>1, <3>1, <3>2 DEF ByteInv, ZeroFree
  <2>3. CASE PowerCut
    BY <2>1, <2>3 DEF PowerCut, Die, ByteInv, ZeroFree
  <2>. QED
    BY <1>5, <2>2, <2>3
<1>6. CASE UNCHANGED vars
  BY <1>6 DEF vars, ByteInv, ZeroFree, First, Last
<1>. QED
  BY <1>2, <1>3, <1>4, <1>5, <1>6 DEF Next

-----------------------------------------------------------------------------
(* The inductive invariant. *)

IInv == TypeInv /\ HandlesClosed /\ MutexInv /\ AckInv /\ ByteInv

LEMMA IInvInit ==
    ASSUME Init
    PROVE  IInv
<1>1. /\ file = [i \in 1..InitSize |-> Old] /\ disk = file /\ disturbed = FALSE
      /\ fsmu = Nobody /\ handles = {} /\ req = [c \in Client |-> Idle]
  BY DEF Init
<1>2. InitSize \in Nat /\ InitSize <= MaxInt /\ Old \in Bytes /\ Old # Zero
  BY PutRangeAssumption DEF Bytes, Old, Zero
<1>3. file \in Seq(Bytes) /\ Len(file) = InitSize /\ ZeroFree(file)
  BY <1>1, <1>2 DEF ZeroFree
<1>4. TypeInv
  BY <1>1, <1>2, <1>3 DEF TypeInv, RequestOK
<1>5. HandlesClosed /\ MutexInv /\ AckInv
  BY <1>1, ClientAssumption DEF HandlesClosed, MutexInv, AckInv, Idle, Writing
<1>6. ByteInv
  BY <1>1, <1>3 DEF ByteInv, ZeroFree, Idle
<1>. QED
  BY <1>4, <1>5, <1>6 DEF IInv

LEMMA IInvStep ==
    ASSUME IInv, [Next]_vars
    PROVE  IInv'
  BY TypeInvStep, HandlesStep, MutexStep, AckStep, ByteStep DEF IInv

\* Every state the handler, the driver, a crash or a power cut can reach keeps
\* the invariant (putrange.go:100-217).
THEOREM Inductive == Spec => []IInv
<1>1. Init => IInv
  BY IInvInit
<1>2. IInv /\ [Next]_vars => IInv'
  BY IInvStep
<1>. QED
  BY <1>1, <1>2, PTL DEF Spec

\* The types; a request that has its body holds at most MaxBody of it, and the
\* length of its range has not overflowed (putrange.go:87-89, 171-191).
THEOREM TypeCorrect == Spec => []TypeOK
<1>1. IInv => TypeOK
  <2>. SUFFICES ASSUME IInv PROVE TypeOK
    OBVIOUS
  <2>1. /\ file \in Seq(Bytes) /\ disk \in Seq(Bytes) /\ Len(file) <= MaxInt
        /\ fsmu \in Client \cup {Nobody} /\ disturbed \in BOOLEAN
    BY DEF IInv, TypeInv, MutexInv
  <2>2. handles \subseteq Client
    BY DEF IInv, HandlesClosed
  <2>3. ASSUME NEW c \in Client PROVE req[c].pc \in PCs
    BY InFlightIs DEF IInv, PCs
  <2>4. ASSUME NEW c \in Client, At(c, "write")
        PROVE  Last(c) - First(c) + 1 = Length(c) /\ Length(c) \in 1..MaxBody
    <3>1. RequestOK(req[c]) /\ req[c] # Idle /\ req[c].pc = "write"
      BY <2>4, InFlightIs DEF IInv, At, Idle
    <3>2. /\ First(c) \in Nat /\ Last(c) \in First(c)..MaxInt
          /\ Last(c) - First(c) + 1 <= MaxBody
      BY <3>1 DEF RequestOK, First, Last
    <3>. QED
      BY <3>2, LengthIs
  <2>. QED
    BY <2>1, <2>2, <2>3, <2>4 DEF TypeOK
<1>. QED
  BY <1>1, Inductive, PTL

\* The driver has the file open exactly for the requests between their opening
\* and their closing, whatever fails (putrange.go:166, 177, 189, 214).
THEOREM EveryHandleCloses == Spec => []HandlesClosed
<1>1. IInv => HandlesClosed
  BY DEF IInv
<1>. QED
  BY <1>1, Inductive, PTL

\* A refusal comes before the first byte is written (putrange.go:145-191).
THEOREM RefusalsAreClean == Spec => []RefusalsChangeNothing
<1>1. IInv => RefusalsChangeNothing
  <2>. SUFFICES ASSUME IInv, NEW c \in Client, At(c, "answered"),
                       req[c].status \in {400, 405, 409, 413, 416, 501}
                PROVE  ~req[c].touched
    BY DEF RefusalsChangeNothing
  <2>1. RequestOK(req[c]) /\ req[c] # Idle /\ req[c].pc = "answered"
    BY InFlightIs DEF IInv, At, Idle
  <2>. QED
    BY <2>1 DEF RequestOK, Refusals
<1>. QED
  BY <1>1, Inductive, PTL

\* No power cut takes back what a 204 acknowledged and the file still shows
\* (putrange.go:210-212).
THEOREM AckSurvives == Spec => []AcknowledgedIsDurable
<1>1. IInv => AcknowledgedIsDurable
  <2>. SUFFICES ASSUME IInv, NEW c \in Client, At(c, "answered"), req[c].status = 204,
                       NEW i \in First(c) + 1..Last(c) + 1, i <= Len(file), file[i] = c
                PROVE  i <= Len(disk) /\ disk[i] = c
    BY DEF AcknowledgedIsDurable
  <2>1. RequestOK(req[c]) /\ req[c] # Idle /\ req[c].pc = "answered"
    BY InFlightIs DEF IInv, At, Idle
  <2>2. First(c) \in Nat /\ Last(c) \in Nat
    BY <2>1, PutRangeAssumption DEF RequestOK, First, Last
  <2>3. file \in Seq(Bytes)
    BY DEF IInv, TypeInv
  <2>4. i \in 1..Len(file)
    BY <2>2, <2>3
  <2>. QED
    BY <2>1, <2>4 DEF IInv, AckInv
<1>. QED
  BY <1>1, Inductive, PTL

\* A byte nobody sent is there only while an append is between its halves, or
\* something disturbed one (putrange.go:197-207).
THEOREM UnsentExplained == Spec => []NoUnsentBytes
<1>1. IInv => NoUnsentBytes
  BY DEF IInv, ByteInv, NoUnsentBytes, At
<1>. QED
  BY <1>1, Inductive, PTL

=============================================================================
