------------------------------- MODULE Bodies -------------------------------
(***************************************************************************)
(* The request bodies of PROPFIND, PROPPATCH and LOCK, read one XML token  *)
(* at a time (propfind.go:70-140, 390-437, lock.go:474-554).  A document   *)
(* is the list of its elements in order, each with its depth, and the      *)
(* number of elements left open where it breaks off.  An element of the    *)
(* namespace DAV: has its local name; an element of another namespace has  *)
(* another.                                                                *)
(***************************************************************************)
EXTENDS Integers, SequencesExt

\* One root, and every other element in one that was open before it.
WellFormed(doc) ==
    LET e == doc.elems
        n == Len(e)
    IN  /\ \A i \in 1..n : IF i = 1 THEN e[i].at = 0 ELSE e[i].at \in 1..e[i - 1].at + 1
        /\ doc.open \in IF n = 0 THEN {0} ELSE 0..e[n].at + 1

\* The last element at depth d among the first i.
Enclosing(elems, i, d) ==
    elems[CHOOSE j \in 1..i : elems[j].at = d /\ \A k \in j + 1..i : elems[k].at # d].name

\* What Decoder.Token returns, one after the other.  Ends of the elements
\* that close between element i and the next, which is at depth d.
Ends(elems, i, d) ==
    [k \in 1..elems[i].at - d + 1 |-> << "end", Enclosing(elems, i, elems[i].at - k + 1) >>]

Tokens(doc) ==
    LET e == doc.elems
    IN  FlattenSeq([i \in 1..Len(e) |->
            << << "start", e[i].name >> >> \o
            Ends(e, i, IF i < Len(e) THEN e[i + 1].at ELSE doc.open)])
        \o (IF doc.open > 0 THEN << << "error" >> >> ELSE << >>)

Skip(s)      == [s EXCEPT !.skip = 1]
RootIs(s, n, root) == IF n = root THEN [s EXCEPT !.seenRoot = TRUE] ELSE [s EXCEPT !.bad = TRUE]

Nothing == [seenRoot |-> FALSE, bad |-> FALSE, skip |-> 0, inProp |-> FALSE,
            inInclude |-> FALSE, allprop |-> FALSE, propname |-> FALSE,
            names |-> << >>, include |-> << >>, owners |-> 0]

\* Mutant of EnterPropfind: the elements in a property are read as well.
EnterPropfindDeep(s, n) ==
    CASE ~s.seenRoot -> RootIs(s, n, "propfind")
      [] s.seenRoot /\ s.inProp -> [s EXCEPT !.names = Append(@, n)]
      [] s.seenRoot /\ ~s.inProp /\ s.inInclude -> Skip([s EXCEPT !.include = Append(@, n)])
      [] OTHER ->
            CASE n = "prop"     -> [s EXCEPT !.inProp = TRUE]
              [] n = "include"  -> [s EXCEPT !.inInclude = TRUE]
              [] n = "allprop"  -> Skip([s EXCEPT !.allprop = TRUE])
              [] n = "propname" -> Skip([s EXCEPT !.propname = TRUE])
              [] OTHER          -> Skip(s)

EnterPropfind(s, n) ==
    CASE ~s.seenRoot -> RootIs(s, n, "propfind")
      [] s.seenRoot /\ s.inProp -> Skip([s EXCEPT !.names = Append(@, n)])
      [] s.seenRoot /\ ~s.inProp /\ s.inInclude -> Skip([s EXCEPT !.include = Append(@, n)])
      [] OTHER ->
            CASE n = "prop"     -> [s EXCEPT !.inProp = TRUE]
              [] n = "include"  -> [s EXCEPT !.inInclude = TRUE]
              [] n = "allprop"  -> Skip([s EXCEPT !.allprop = TRUE])
              [] n = "propname" -> Skip([s EXCEPT !.propname = TRUE])
              [] OTHER          -> Skip(s)

LeavePropfind(s, n) ==
    CASE n = "prop"    -> [s EXCEPT !.inProp = FALSE]
      [] n = "include" -> [s EXCEPT !.inInclude = FALSE]
      [] OTHER         -> s

EnterProppatch(s, n) ==
    CASE ~s.seenRoot -> RootIs(s, n, "propertyupdate")
      [] s.seenRoot /\ s.inProp -> Skip([s EXCEPT !.names = Append(@, n)])
      [] OTHER ->
            CASE n = "prop"              -> [s EXCEPT !.inProp = TRUE]
              [] n \in {"set", "remove"} -> s
              [] OTHER                   -> Skip(s)

LeaveProppatch(s, n) == IF n = "prop" THEN [s EXCEPT !.inProp = FALSE] ELSE s

\* The owner is re-encoded, the scope and the type skipped: of an owner the
\* model keeps that it is there.
EnterLock(s, n) ==
    CASE ~s.seenRoot -> RootIs(s, n, "lockinfo")
      [] s.seenRoot /\ n = "owner" -> Skip([s EXCEPT !.owners = @ + 1])
      [] OTHER -> Skip(s)

Enter(method, s, n) ==
    CASE method = "PROPFIND"  -> EnterPropfind(s, n)
      [] method = "PROPPATCH" -> EnterProppatch(s, n)
      [] method = "LOCK"      -> EnterLock(s, n)

Leave(method, s, n) ==
    CASE method = "PROPFIND"  -> LeavePropfind(s, n)
      [] method = "PROPPATCH" -> LeaveProppatch(s, n)
      [] method = "LOCK"      -> s

\* A turn of the loop over the tokens.  skip counts the elements open in a Skip.
Turn(method, s, t) ==
    IF s.bad THEN s
    ELSE CASE t[1] = "error" -> [s EXCEPT !.bad = TRUE]
           [] t[1] = "start" /\ s.skip > 0 -> [s EXCEPT !.skip = @ + 1]
           [] t[1] = "end"   /\ s.skip > 0 -> [s EXCEPT !.skip = @ - 1]
           [] t[1] = "start" /\ s.skip = 0 -> Enter(method, s, t[2])
           [] t[1] = "end"   /\ s.skip = 0 -> Leave(method, s, t[2])

Walk(method, doc) == FoldLeft(LAMBDA s, t : Turn(method, s, t), Nothing, Tokens(doc))

\* No body at all asks for everything; a root with no request type is refused.
ParsePropfind(doc) ==
    LET s == Walk("PROPFIND", doc)
    IN  [s EXCEPT !.allprop = @ \/ ~s.seenRoot,
                  !.bad = @ \/ (s.seenRoot /\ ~s.allprop /\ ~s.propname /\ s.names = << >>)]

ParseProppatch(doc) ==
    LET s == Walk("PROPPATCH", doc)
    IN  [s EXCEPT !.bad = @ \/ ~s.seenRoot]

\* Without a root it is a refresh.
ParseLock(doc) == Walk("LOCK", doc)

-----------------------------------------------------------------------------
(* Definitions to compare with, on the tree rather than the tokens. *)

Elements(doc) == 1..Len(doc.elems)
Named(doc, i) == doc.elems[i].name
\* The elements above i, the nearest first.
Above(doc, i) ==
    [k \in 1..doc.elems[i].at |-> Enclosing(doc.elems, i, doc.elems[i].at - k)]

\* The names of the elements that lie exactly in such places, in order.
NamesIn(doc, places) ==
    LET at == {i \in Elements(doc) : Above(doc, i) \in places}
    IN  [n \in 1..Cardinality(at) |->
            Named(doc, CHOOSE i \in at : Cardinality({j \in at : j <= i}) = n)]

=============================================================================
