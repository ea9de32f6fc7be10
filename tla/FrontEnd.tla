------------------------------ MODULE FrontEnd ------------------------------
(***************************************************************************)
(* What a Handler does with a request before it asks a lock or the driver: *)
(* authorise it, find the resource it names, dispatch it, and read the     *)
(* headers and the body its method goes by (server.go:287-457).  What is   *)
(* left is what the handlers of WebDAVServer, ReadFile and Listing are     *)
(* called with.                                                            *)
(***************************************************************************)
EXTENDS UrlPaths, Headers, Bodies

CONSTANTS
    Exchanges    \* a sequence of sets of requests, each with the Handler it is sent to

\* The options of a Handler, whose prefix WithPrefix accepts only clean
\* (server.go:129).
Conf == [ro : BOOLEAN, prefix : Seq(STRING \ (Ignored \cup {Up})), basic : BOOLEAN,
         bearer : BOOLEAN, insecure : BOOLEAN]

\* What a request can bring; parts is what its If header was written from, if
\* it was written from anything.
Call ==
    {c \in [method : STRING, url : Seq(STRING), link : STRING, cred : STRING \X STRING,
            depth : STRING, overwrite : STRING, dest : [host : STRING, path : Seq(STRING)],
            ifs : Seq(Seq(STRING)),
            parts : Seq(IfPart),
            timeout : Seq({<< "" >>, << "Infinite" >>} \cup ({"Second"} \X Int)),
            doc : [elems : Seq([at : Nat, name : STRING]), open : Nat],
            lockToken : BOOLEAN] :
        WellFormed(c.doc) /\ (c.parts # << >> => c.ifs = Header(c.parts))}

ASSUME ExchangesAssumption ==
    \A i \in DOMAIN Exchanges : \A e \in Exchanges[i] : e.conf \in Conf /\ e.call \in Call

VARIABLES
    conf,        \* the Handler's options
    call,        \* the request
    pc,          \* how far it is
    asked,       \* the credentials a verifier was called with
    handed,      \* what the handler was given
    reply        \* the status, if the request was refused, and Allow

vars == << conf, call, pc, asked, handed, reply >>

Reads  == {"OPTIONS", "GET", "HEAD", "PROPFIND"}
Writes == {"PUT", "DELETE", "MKCOL", "COPY", "MOVE", "PROPPATCH", "LOCK", "UNLOCK"}

\* What a 403, a 405 and OPTIONS advertise.
Methods == IF conf.ro THEN Reads ELSE Reads \cup Writes

NoReply     == [status |-> 0, allow |-> {}]
Status(n)   == [status |-> n, allow |-> {}]
Allowing(n) == [status |-> n, allow |-> Methods]

Refuse(answer) ==
    /\ reply' = answer
    /\ pc' = "done"
    /\ UNCHANGED << conf, call, asked, handed >>

Proceed(to) ==
    /\ pc' = to
    /\ UNCHANGED << conf, call, asked, handed, reply >>

-----------------------------------------------------------------------------
(* authorise *)

Protected == conf.basic \/ conf.bearer

\* An address that cannot be parsed is not vouched for.
Confidential == conf.insecure \/ call.link \in {"tls", "loopback"}

\* The verifiers, one after the other, each for the scheme it knows.  A
\* credential is << scheme, what the verifier says of it >>.
Shown ==
    {c \in {call.cred} : \/ conf.basic /\ c[1] = "Basic"
                         \/ conf.bearer /\ c[1] = "Bearer"}
CredentialsOK == \E c \in Shown : c[2] = "accepted"

Authorise ==
    /\ pc = "authorise"
    /\ ~Protected
    /\ Proceed("resource")

\* Mutant of RefuseCleartext: the credentials are tried before the link.
VerifyThenRefuse ==
    /\ pc = "authorise"
    /\ Protected /\ ~Confidential
    /\ asked' = asked \cup Shown
    /\ reply' = Status(426)
    /\ pc' = "done"
    /\ UNCHANGED << conf, call, handed >>

RefuseCleartext ==
    /\ pc = "authorise"
    /\ Protected /\ ~Confidential
    /\ Refuse(Status(426))

Verify ==
    /\ pc = "authorise"
    /\ Protected /\ Confidential
    /\ asked' = asked \cup Shown
    /\ IF CredentialsOK THEN pc' = "resource" /\ UNCHANGED reply
                        ELSE pc' = "done" /\ reply' = Status(401)
    /\ UNCHANGED << conf, call, handed >>

-----------------------------------------------------------------------------
(* resource, and the switch on the method *)

Here == Resource(conf.prefix, call.url)
Dest == Destination(conf.prefix, call.dest)

Find ==
    /\ pc = "resource"
    /\ IF Here.ok THEN Proceed("dispatch") ELSE Refuse(Status(400))

\* Mutant of Dispatch: mutate is not told of one of the methods.
DispatchForgetful ==
    /\ pc = "dispatch"
    /\ CASE call.method = "OPTIONS" -> Refuse(Allowing(200))
         [] call.method \in Writes \ {"MKCOL"} /\ conf.ro -> Refuse(Allowing(403))
         [] call.method \notin Reads \cup Writes -> Refuse(Allowing(405))
         [] OTHER -> Proceed("read")

Dispatch ==
    /\ pc = "dispatch"
    /\ CASE call.method = "OPTIONS" -> Refuse(Allowing(200))
         [] call.method \in Writes /\ conf.ro -> Refuse(Allowing(403))
         [] call.method \notin Reads \cup Writes -> Refuse(Allowing(405))
         [] OTHER -> Proceed("read")

-----------------------------------------------------------------------------
(* The headers and the body, in the order each handler asks for them. *)

Depth  == ParseDepth(call.depth)
AtRoot == Here.path = Root

\* Mutant of LockRefusal: a LOCK takes the Depth it is sent.
LockRefusalAnyDepth == IF ParseLock(call.doc).bad THEN 422 ELSE 0

\* No lock on a collection and its members but not theirs.
LockRefusal == IF Depth \in {"bad", "one"} THEN 400
               ELSE IF ParseLock(call.doc).bad THEN 422 ELSE 0

\* The status a handler refuses with before it does anything.  0 is none.
Refusal ==
    CASE call.method = "PROPFIND" ->
            CASE Depth = "bad" -> 400 [] Depth = "infinity" -> 403
              [] OTHER -> IF ParsePropfind(call.doc).bad THEN 422 ELSE 0
      [] call.method = "PROPPATCH" -> IF ParseProppatch(call.doc).bad THEN 422 ELSE 0
      [] call.method = "PUT"    -> IF AtRoot THEN 405 ELSE 0
      [] call.method = "DELETE" -> IF AtRoot THEN 403 ELSE 0
      [] call.method = "MOVE"   -> IF Dest.status # 0 THEN Dest.status ELSE IF AtRoot THEN 403 ELSE 0
      [] call.method = "COPY"   -> IF Dest.status # 0 THEN Dest.status
                                   ELSE IF Depth \in {"bad", "one"} THEN 400 ELSE 0
      [] call.method = "LOCK"   -> LockRefusal
      [] call.method = "UNLOCK" -> IF call.lockToken THEN 0 ELSE 400
      [] OTHER -> 0

RefuseCall ==
    /\ pc = "read"
    /\ Refusal # 0
    /\ Refuse(Status(Refusal))

Parsed ==
    CASE call.method = "PROPFIND"  -> ParsePropfind(call.doc)
      [] call.method = "PROPPATCH" -> ParseProppatch(call.doc)
      [] call.method = "LOCK"      -> ParseLock(call.doc)
      [] OTHER                     -> Nothing

HandOn ==
    /\ pc = "read"
    /\ Refusal = 0
    /\ handed' = << [method |-> call.method, path |-> Here.path, dst |-> Dest.path,
                     depth |-> Depth, overwrite |-> Overwrite(call.overwrite),
                     tokens |-> SubmittedTokens(call.ifs),
                     timeout |-> ParseTimeout(call.timeout), body |-> Parsed] >>
    /\ pc' = "done"
    /\ UNCHANGED << conf, call, asked, reply >>

Init ==
    /\ \E i \in DOMAIN Exchanges : \E e \in Exchanges[i] : conf = e.conf /\ call = e.call
    /\ pc = "authorise"
    /\ asked = {}
    /\ handed = << >>
    /\ reply = NoReply

Next ==
    \/ Authorise \/ RefuseCleartext \/ Verify \/ Find \/ Dispatch
    \/ RefuseCall \/ HandOn

Spec == Init /\ [][Next]_vars

-----------------------------------------------------------------------------
Given == handed[1]
Done  == handed # << >>
Whole == call.doc.open = 0

\* The types.  What is handed on is what the other modules take for granted of
\* a call: a COPY or LOCK of depth zero or infinity, a PROPFIND of zero or one,
\* a root that is neither written nor removed, a body that was read to its end.
TypeOK ==
    /\ pc \in {"authorise", "resource", "dispatch", "read", "done"}
    /\ pc = "done" => (Done <=> reply.status = 0)
    /\ Done =>
          /\ Given.method \in Methods \ {"OPTIONS"}
          /\ Given.method \in {"COPY", "LOCK"} => Given.depth \in {"zero", "infinity"}
          /\ Given.method = "PROPFIND" => Given.depth \in {"zero", "one"}
          /\ Given.method \in {"PUT", "DELETE", "MOVE"} => Given.path # Root
          /\ Given.method \in {"PROPFIND", "PROPPATCH", "LOCK"} => Whole

\* Nothing is found, dispatched or read for a client that a verifier has not
\* accepted, and no verifier ever sees a credential that came in the clear
\* (server.go:394-397), whichever of the two schemes are configured.
OnlyTheAuthorised ==
    /\ asked # {} => Confidential
    /\ Protected /\ (Done \/ pc \in {"resource", "dispatch", "read"}) =>
          \E c \in asked : /\ c[2] = "accepted"
                          /\ IF c[1] = "Basic" THEN conf.basic ELSE conf.bearer

\* A client's own check agrees with the server's (server.go:111-113): a method
\* is served when Allow names it, and is not named when it is refused with one.
AllowTellsTheTruth ==
    /\ Done => call.method \in Methods
    /\ reply.allow # {} => (call.method \in reply.allow <=> call.method = "OPTIONS")

\* The part of a URL path below the prefix, if it is below it.
Below(url) == IF conf.prefix = << >> THEN url
              ELSE SubSeq(url, Len(Mount(conf.prefix)) + 1, Len(url))
InExport(url) == conf.prefix # << >> => Under(Mount(conf.prefix), url)

\* A path a handler is given is made of the names of the URL that no ".."
\* takes away, in their order: it cannot leave the export, spell "." or ".."
\* or come from beside the prefix, be it the request's or a Destination's
\* (path.go:18-29, write.go:269-272).
PathsAreClean ==
    Done =>
        /\ InExport(call.url) /\ Given.path = Staying(Below(call.url))
        /\ Given.method \in {"COPY", "MOVE"} =>
              InExport(call.dest.path) /\ Given.dst = Staying(Below(call.dest.path))

\* The href a response quotes for a resource leads back to it, with or without
\* the slash of a collection, wherever the export is mounted (path.go:95-104).
HrefsComeBack ==
    Done => \A collection \in BOOLEAN :
        Resource(conf.prefix, Href(conf.prefix, Given.path, collection))
            = [ok |-> TRUE, path |-> Given.path]

\* Of an If header of tags and lists a handler gets only tokens that a list
\* states, never one it negates (lock.go:364-366), and all of them, whatever
\* resource the list is tagged with; a tag's own URL is taken for a token too
\* (lock.go:372-384).  The Not before an entity tag is taken for the URL that
\* follows it, which is then lost.
TokensAsStated ==
    Done /\ call.parts # << >> =>
        LET submitted == ToSet(Given.tokens)
            written   == Stated(call.parts) \cup Tags(call.parts)
        IN  /\ submitted \subseteq written
            /\ NegatedEntityTag(call.parts) \/ submitted = written

\* The properties of a PROPFIND or PROPPATCH are the elements directly in a
\* prop that is where a prop belongs, in the order asked; an element in one of
\* them contributes nothing (propfind.go:73-78).  A set or a remove is only
\* descended into (propfind.go:418-420), so a prop belongs in any nest of them.
Nests(doc) == SeqOf({"set", "remove"}, Len(doc.elems))
PropPlaces(doc, root) ==
    IF root = "propfind" THEN {<< "prop", root >>}
    ELSE {<< "prop" >> \o nest \o << root >> : nest \in Nests(doc)}

BodiesAsWritten ==
    Done =>
        /\ Given.method = "PROPFIND" =>
              /\ Given.body.names = NamesIn(call.doc, PropPlaces(call.doc, "propfind"))
              /\ Given.body.include = NamesIn(call.doc, {<< "include", "propfind" >>})
              /\ Given.body.allprop <=> \/ call.doc.elems = << >>
                                        \/ Contains(NamesIn(call.doc, {<< "propfind" >>}), "allprop")
        /\ Given.method = "PROPPATCH" =>
              Given.body.names = NamesIn(call.doc, PropPlaces(call.doc, "propertyupdate"))
        /\ Given.method = "LOCK" =>
              /\ Given.body.seenRoot <=> call.doc.elems # << >>
              /\ Given.body.owners > 0 <=> Contains(NamesIn(call.doc, {<< "lockinfo" >>}), "owner")

\* What the Timeout header asks for, in the time.Duration the first readable
\* alternative would have if none could overflow.
AskedFor ==
    LET i == SelectInSeq(call.timeout, Readable)
    IN  IF i = 0 THEN DefaultTimeout
        ELSE IF call.timeout[i][1] = "Infinite" THEN MaxTimeout
        ELSE call.timeout[i][2] * Second

Capped == IF AskedFor > MaxTimeout THEN MaxTimeout ELSE AskedFor

\* No lock is granted for longer than maxLockTimeout (lock.go:71-75), whatever
\* alternatives the header offers, and one that asks for less gets it, as long
\* as the seconds it asks for are a time.Duration at all.
TimeoutsAreCapped ==
    Done => /\ Given.timeout <= MaxTimeout
            /\ AskedFor <= MaxInt => Given.timeout = Capped

\* parseTimeout reads the Timeout header, clamped to maxLockTimeout
\* (lock.go:430): a client that asks for more gets an hour.
LockTimeoutAsAsked == Done => Given.timeout = Capped

=============================================================================
