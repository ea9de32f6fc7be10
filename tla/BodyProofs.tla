----------------------------- MODULE BodyProofs -----------------------------
(***************************************************************************)
(* Theorems about the bodies of PROPFIND, PROPPATCH and LOCK.  What a      *)
(* parser does with a token depends on the path of the elements that are   *)
(* open and on nothing else it has read; so the flags and the counter it   *)
(* keeps stand for that path, and what it has gathered after each element  *)
(* is what the tree has so far in the places its method reads.             *)
(***************************************************************************)
EXTENDS FrontEndProofs

-----------------------------------------------------------------------------
(* What a body's parser does in a turn of its loop.  A parser descends     *)
(* into the elements of Nested, and takes the names that lie directly in   *)
(* one of Listed; what is in any other element it skips.                   *)

Bodied == {"PROPFIND", "PROPPATCH", "LOCK"}

Top(m) == CASE m = "PROPFIND"  -> "propfind"
            [] m = "PROPPATCH" -> "propertyupdate"
            [] m = "LOCK"      -> "lockinfo"

Nested(m) == IF m = "PROPPATCH" THEN {"set", "remove"} ELSE {}

Listed(m) == CASE m = "PROPFIND"  -> {"prop", "include"}
               [] m = "PROPPATCH" -> {"prop"}
               [] m = "LOCK"      -> {}

Tag    == ({"start", "end"} \X STRING) \cup {<< "error" >>}
Reader == [seenRoot : BOOLEAN, bad : BOOLEAN, skip : Nat, inProp : BOOLEAN,
           inInclude : BOOLEAN, allprop : BOOLEAN, propname : BOOLEAN,
           names : Seq(STRING), include : Seq(STRING), owners : Nat]

\* What a parser starts with.
LEMMA NothingIs ==
    /\ Nothing \in Reader
    /\ ~Nothing.seenRoot /\ ~Nothing.bad
    /\ Nothing.skip = 0 /\ ~Nothing.inProp /\ ~Nothing.inInclude
    /\ Nothing.names = << >> /\ Nothing.include = << >>
    /\ ~Nothing.allprop /\ Nothing.owners = 0
<1>1. << >> \in Seq(STRING)
  OBVIOUS
<1>. QED
  BY <1>1 DEF Nothing, Reader

\* The elements a parser reads within the root, one that lists names first.
LEMMA EnterListed ==
    ASSUME NEW m \in Bodied, NEW s \in Reader, s.seenRoot, NEW n \in STRING,
           s.inProp \/ s.inInclude,
           m # "PROPFIND" => ~s.inInclude, m = "LOCK" => ~s.inProp
    PROVE  LET u == Enter(m, s, n)
           IN  /\ u \in Reader /\ u.seenRoot /\ u.bad = s.bad
               /\ u.skip = 1 /\ u.inProp = s.inProp /\ u.inInclude = s.inInclude
               /\ u.names = IF s.inProp THEN Append(s.names, n) ELSE s.names
               /\ u.include = IF s.inProp THEN s.include ELSE Append(s.include, n)
               /\ u.allprop = s.allprop /\ u.owners = s.owners
<1>1. PICK u : u = Enter(m, s, n)
  OBVIOUS
<1>2. PICK a \in Seq(STRING) : a = Append(s.names, n)
  BY AppendProperties DEF Reader
<1>3. PICK b \in Seq(STRING) : b = Append(s.include, n)
  BY AppendProperties DEF Reader
<1>4. CASE s.inProp
  <2>1. m # "LOCK"
    BY <1>4
  <2>2. u = [s EXCEPT !.names = a, !.skip = 1]
    <3>1. Skip([s EXCEPT !.names = Append(@, n)]) = [s EXCEPT !.names = a, !.skip = 1]
      BY <1>2 DEF Skip, Reader
    <3>2. CASE m = "PROPFIND"
      BY <1>1, <1>4, <3>1, <3>2 DEF Enter, EnterPropfind
    <3>3. CASE m = "PROPPATCH"
      BY <1>1, <1>4, <3>1, <3>3 DEF Enter, EnterProppatch
    <3>. QED
      BY <2>1, <3>2, <3>3 DEF Bodied
  <2>3. u \in Reader
    BY <1>2, <2>2 DEF Reader
  <2>4. /\ u.names = a /\ u.skip = 1 /\ u.inProp = s.inProp /\ u.inInclude = s.inInclude
        /\ u.include = s.include /\ u.owners = s.owners
    BY <2>2 DEF Reader
  <2>5. u.seenRoot = s.seenRoot /\ u.bad = s.bad /\ u.allprop = s.allprop
    BY <2>2 DEF Reader
  <2>. QED
    BY <1>1, <1>2, <1>4, <2>3, <2>4, <2>5
<1>5. CASE ~s.inProp
  <2>1. m = "PROPFIND" /\ s.inInclude
    BY <1>5
  <2>2. u = [s EXCEPT !.include = b, !.skip = 1]
    <3>1. Skip([s EXCEPT !.include = Append(@, n)]) = [s EXCEPT !.include = b, !.skip = 1]
      BY <1>3 DEF Skip, Reader
    <3>. QED
      BY <1>1, <1>5, <2>1, <3>1 DEF Enter, EnterPropfind
  <2>3. u \in Reader
    BY <1>3, <2>2 DEF Reader
  <2>4. /\ u.include = b /\ u.skip = 1 /\ u.inProp = s.inProp /\ u.inInclude = s.inInclude
        /\ u.names = s.names /\ u.owners = s.owners
    BY <2>2 DEF Reader
  <2>5. u.seenRoot = s.seenRoot /\ u.bad = s.bad /\ u.allprop = s.allprop
    BY <2>2 DEF Reader
  <2>. QED
    BY <1>1, <1>3, <1>5, <2>3, <2>4, <2>5
<1>. QED
  BY <1>4, <1>5

\* One within the root that is not in an element that lists names.
LEMMA EnterOther ==
    ASSUME NEW m \in Bodied, NEW s \in Reader, s.seenRoot, NEW n \in STRING,
           ~s.inProp, ~s.inInclude
    PROVE  LET u == Enter(m, s, n)
           IN  /\ u \in Reader /\ u.seenRoot /\ u.bad = s.bad
               /\ u.skip = IF n \in Nested(m) \cup Listed(m) THEN s.skip ELSE 1
               /\ u.inProp <=> n \in Listed(m) /\ n = "prop"
               /\ u.inInclude <=> n \in Listed(m) /\ n = "include"
               /\ u.names = s.names /\ u.include = s.include
               /\ u.allprop <=> s.allprop \/ (m = "PROPFIND" /\ n = "allprop")
               /\ u.owners = IF m = "LOCK" /\ n = "owner" THEN s.owners + 1 ELSE s.owners
<1>1. PICK u : u = Enter(m, s, n)
  OBVIOUS
<1>2. CASE m = "PROPFIND"
  <2>1. u = CASE n = "prop"     -> [s EXCEPT !.inProp = TRUE]
              [] n = "include"  -> [s EXCEPT !.inInclude = TRUE]
              [] n = "allprop"  -> Skip([s EXCEPT !.allprop = TRUE])
              [] n = "propname" -> Skip([s EXCEPT !.propname = TRUE])
              [] OTHER          -> Skip(s)
    BY <1>1, <1>2 DEF Enter, EnterPropfind
  <2>2. CASE n = "prop"
    <3>1. u = [s EXCEPT !.inProp = TRUE]
      BY <2>1, <2>2
    <3>2. u \in Reader
      BY <3>1 DEF Reader
    <3>. QED
      BY <1>1, <1>2, <2>2, <3>1, <3>2 DEF Reader, Nested, Listed
  <2>3. CASE n = "include"
    <3>1. u = [s EXCEPT !.inInclude = TRUE]
      BY <2>1, <2>3
    <3>2. u \in Reader
      BY <3>1 DEF Reader
    <3>. QED
      BY <1>1, <1>2, <2>3, <3>1, <3>2 DEF Reader, Nested, Listed
  <2>4. CASE n = "allprop"
    <3>1. u = [s EXCEPT !.allprop = TRUE, !.skip = 1]
      BY <2>1, <2>4 DEF Skip, Reader
    <3>2. u \in Reader
      BY <3>1 DEF Reader
    <3>. QED
      BY <1>1, <1>2, <2>4, <3>1, <3>2 DEF Reader, Nested, Listed
  <2>5. CASE n = "propname"
    <3>1. u = [s EXCEPT !.propname = TRUE, !.skip = 1]
      BY <2>1, <2>5 DEF Skip, Reader
    <3>2. u \in Reader
      BY <3>1 DEF Reader
    <3>. QED
      BY <1>1, <1>2, <2>5, <3>1, <3>2 DEF Reader, Nested, Listed
  <2>6. CASE n \notin {"prop", "include", "allprop", "propname"}
    <3>1. u = Skip(s)
      BY <2>1, <2>6
    <3>. QED
      BY <1>1, <1>2, <2>6, <3>1 DEF Reader, Nested, Listed, Skip
  <2>. QED
    BY <2>2, <2>4, <2>5, <2>6, <2>3
<1>3. CASE m = "PROPPATCH"
  <2>1. u = CASE n = "prop"              -> [s EXCEPT !.inProp = TRUE]
              [] n \in {"set", "remove"} -> s
              [] OTHER                   -> Skip(s)
    BY <1>1, <1>3 DEF Enter, EnterProppatch
  <2>2. CASE n = "prop"
    <3>1. u = [s EXCEPT !.inProp = TRUE]
      BY <2>1, <2>2
    <3>2. u \in Reader
      BY <3>1 DEF Reader
    <3>. QED
      BY <1>1, <1>3, <2>2, <3>1, <3>2 DEF Reader, Nested, Listed
  <2>3. CASE n \in {"set", "remove"}
    <3>1. u = s
      BY <2>1, <2>3
    <3>. QED
      BY <1>1, <1>3, <2>3, <3>1 DEF Reader, Nested, Listed
  <2>4. CASE n \notin {"prop", "set", "remove"}
    <3>1. u = Skip(s)
      BY <2>1, <2>4
    <3>. QED
      BY <1>1, <1>3, <2>4, <3>1 DEF Reader, Nested, Listed, Skip
  <2>. QED
    BY <2>2, <2>3, <2>4
<1>4. CASE m = "LOCK"
  <2>1. u = IF n = "owner" THEN Skip([s EXCEPT !.owners = @ + 1]) ELSE Skip(s)
    BY <1>1, <1>4 DEF Enter, EnterLock
  <2>2. CASE n = "owner"
    <3>1. PICK k \in Nat : k = s.owners + 1
      BY DEF Reader
    <3>2. u = [s EXCEPT !.owners = k, !.skip = 1]
      BY <2>1, <2>2, <3>1 DEF Skip, Reader
    <3>3. u \in Reader
      BY <3>2 DEF Reader
    <3>. QED
      BY <1>1, <1>4, <2>2, <3>1, <3>2, <3>3 DEF Reader, Nested, Listed
  <2>3. CASE n # "owner"
    BY <1>1, <1>4, <2>1, <2>3 DEF Reader, Nested, Listed, Skip
  <2>. QED
    BY <2>2, <2>3
<1>. QED
  BY <1>2, <1>3, <1>4 DEF Bodied

\* The first element is the root, or the body is refused.
LEMMA EnterRoot ==
    ASSUME NEW m \in Bodied, NEW s \in Reader, ~s.seenRoot, NEW n \in STRING
    PROVE  Enter(m, s, n) = IF n = Top(m) THEN [s EXCEPT !.seenRoot = TRUE]
                                          ELSE [s EXCEPT !.bad = TRUE]
<1>1. CASE m = "PROPFIND"
  BY <1>1 DEF Enter, EnterPropfind, RootIs, Top
<1>2. CASE m = "PROPPATCH"
  BY <1>2 DEF Enter, EnterProppatch, RootIs, Top
<1>3. CASE m = "LOCK"
  BY <1>3 DEF Enter, EnterLock, RootIs, Top
<1>. QED
  BY <1>1, <1>2, <1>3 DEF Bodied

\* The end of an element that is not skipped closes a prop or an include.
LEMMA LeaveIs ==
    ASSUME NEW m \in Bodied, NEW s \in Reader, NEW n \in STRING
    PROVE  LET u == Leave(m, s, n)
           IN  /\ u \in Reader /\ u.seenRoot = s.seenRoot /\ u.bad = s.bad /\ u.skip = s.skip
               /\ u.names = s.names /\ u.include = s.include
               /\ u.allprop = s.allprop /\ u.owners = s.owners
               /\ u.inProp <=> s.inProp /\ ~(n \in Listed(m) /\ n = "prop")
               /\ u.inInclude <=> s.inInclude /\ ~(n \in Listed(m) /\ n = "include")
<1>1. PICK u : u = Leave(m, s, n)
  OBVIOUS
<1>2. CASE m = "PROPFIND"
  <2>1. u = CASE n = "prop"    -> [s EXCEPT !.inProp = FALSE]
              [] n = "include" -> [s EXCEPT !.inInclude = FALSE]
              [] OTHER         -> s
    BY <1>1, <1>2 DEF Leave, LeavePropfind
  <2>2. CASE n = "prop"
    <3>1. u = [s EXCEPT !.inProp = FALSE]
      BY <2>1, <2>2
    <3>2. u \in Reader
      BY <3>1 DEF Reader
    <3>. QED
      BY <1>1, <1>2, <2>2, <3>1, <3>2 DEF Reader, Listed
  <2>3. CASE n = "include"
    <3>1. u = [s EXCEPT !.inInclude = FALSE]
      BY <2>1, <2>3
    <3>2. u \in Reader
      BY <3>1 DEF Reader
    <3>. QED
      BY <1>1, <1>2, <2>3, <3>1, <3>2 DEF Reader, Listed
  <2>4. CASE n \notin {"prop", "include"}
    <3>1. u = s
      BY <2>1, <2>4
    <3>. QED
      BY <1>1, <1>2, <2>4, <3>1 DEF Reader, Listed
  <2>. QED
    BY <2>2, <2>3, <2>4
<1>3. CASE m = "PROPPATCH"
  <2>1. u = IF n = "prop" THEN [s EXCEPT !.inProp = FALSE] ELSE s
    BY <1>1, <1>3 DEF Leave, LeaveProppatch
  <2>2. CASE n = "prop"
    <3>1. u = [s EXCEPT !.inProp = FALSE]
      BY <2>1, <2>2
    <3>2. u \in Reader
      BY <3>1 DEF Reader
    <3>. QED
      BY <1>1, <1>3, <2>2, <3>1, <3>2 DEF Reader, Listed
  <2>3. CASE n # "prop"
    <3>1. u = s
      BY <2>1, <2>3
    <3>. QED
      BY <1>1, <1>3, <2>3, <3>1 DEF Reader, Listed
  <2>. QED
    BY <2>2, <2>3
<1>4. CASE m = "LOCK"
  <2>1. u = s
    BY <1>1, <1>4 DEF Leave
  <2>. QED
    BY <1>1, <1>4, <2>1 DEF Reader, Listed
<1>. QED
  BY <1>2, <1>3, <1>4 DEF Bodied

-----------------------------------------------------------------------------
(* A turn of the loop, on the path O of the D elements that are open.      *)

\* What the state says of the path: every open element is descended into; or
\* one is listed, and what is open in it is skipped; or one is neither.
Descends(m, O, p) == \A x \in 2..p : O[x] \in Nested(m)

Free(s) == s.skip = 0 /\ ~s.inProp /\ ~s.inInclude
Lists(m, s, O, D, p) ==
    /\ Descends(m, O, p - 1) /\ O[p] \in Listed(m)
    /\ s.skip = D - p
    /\ s.inProp <=> O[p] = "prop"
    /\ s.inInclude <=> O[p] = "include"
Skips(m, s, O, D, p) ==
    /\ Descends(m, O, p - 1) /\ O[p] \notin Nested(m) \cup Listed(m)
    /\ s.skip = D - p + 1
    /\ ~s.inProp /\ ~s.inInclude

Stands(m, s, O, D) ==
    \/ Descends(m, O, D) /\ Free(s)
    \/ \E p \in 2..D : Lists(m, s, O, D, p) \/ Skips(m, s, O, D, p)

\* The next element is directly in one called w that is listed.
Directly(m, O, D, w) ==
    D >= 2 /\ Descends(m, O, D - 1) /\ O[D] = w /\ w \in Listed(m)

\* No element is both descended into and listed.
LEMMA Apart ==
    ASSUME NEW m \in Bodied
    PROVE  /\ Nested(m) \cap Listed(m) = {}
           /\ Listed(m) \subseteq {"prop", "include"}
           /\ "include" \in Listed(m) => m = "PROPFIND"
           /\ m = "LOCK" => Listed(m) = {}
           /\ Top(m) \notin {"prop", "include"}
           /\ Top(m) \notin Nested(m)
           /\ m # "PROPPATCH" => Nested(m) = {}
  BY DEF Bodied, Nested, Listed, Top

\* One more element that is descended into, or one less.
LEMMA DescendsMore ==
    ASSUME NEW m, NEW O, NEW D \in Nat \ {0}
    PROVE  /\ Descends(m, O, D + 1) <=> Descends(m, O, D) /\ O[D + 1] \in Nested(m)
           /\ \A p \in 0..D : Descends(m, O, D) => Descends(m, O, p)
<1>1. \A x : x \in 2..D + 1 <=> x \in 2..D \/ x = D + 1
  OBVIOUS
<1>2. \A p \in 0..D : \A x \in 2..p : x \in 2..D
  OBVIOUS
<1>. QED
  BY <1>1, <1>2 DEF Descends

\* A start and an end, by the elements a Skip has open (propfind.go:73-78).
LEMMA TurnIs ==
    ASSUME NEW m \in Bodied, NEW s \in Reader, ~s.bad, NEW n \in STRING
    PROVE  /\ Turn(m, s, << "start", n >>)
                = IF s.skip > 0 THEN [s EXCEPT !.skip = @ + 1] ELSE Enter(m, s, n)
           /\ Turn(m, s, << "end", n >>)
                = IF s.skip > 0 THEN [s EXCEPT !.skip = @ - 1] ELSE Leave(m, s, n)
<1>1. s.skip \in Nat
  BY DEF Reader
<1>2. PICK t : t = << "start", n >>
  OBVIOUS
<1>3. PICK e : e = << "end", n >>
  OBVIOUS
<1>4. t[1] = "start" /\ t[2] = n /\ e[1] = "end" /\ e[2] = n
  BY <1>2, <1>3
<1>5. Turn(m, s, t) = IF s.skip > 0 THEN [s EXCEPT !.skip = @ + 1] ELSE Enter(m, s, n)
  <2>1. CASE s.skip > 0
    BY <1>1, <1>4, <2>1 DEF Turn
  <2>2. CASE s.skip = 0
    BY <1>1, <1>4, <2>2 DEF Turn
  <2>. QED
    BY <1>1, <2>1, <2>2
<1>6. Turn(m, s, e) = IF s.skip > 0 THEN [s EXCEPT !.skip = @ - 1] ELSE Leave(m, s, n)
  <2>1. CASE s.skip > 0
    BY <1>1, <1>4, <2>1 DEF Turn
  <2>2. CASE s.skip = 0
    BY <1>1, <1>4, <2>2 DEF Turn
  <2>. QED
    BY <1>1, <2>1, <2>2
<1>. QED
  BY <1>2, <1>3, <1>5, <1>6

\* A body that breaks off is refused.
LEMMA TurnFails ==
    ASSUME NEW m, NEW s \in Reader, ~s.bad
    PROVE  Turn(m, s, << "error" >>) = [s EXCEPT !.bad = TRUE]
<1>1. PICK t : t = << "error" >>
  OBVIOUS
<1>2. t[1] = "error"
  BY <1>1
<1>. QED
  BY <1>1, <1>2 DEF Turn

\* What is refused stays refused.
LEMMA BadStays ==
    ASSUME NEW m, NEW s \in Reader, s.bad, NEW t
    PROVE  Turn(m, s, t) = s
  BY DEF Turn

\* In a Skip only the counter moves.
LEMMA TurnSkips ==
    ASSUME NEW s \in Reader, s.skip > 0, NEW k \in Nat
    PROVE  LET u == [s EXCEPT !.skip = k]
           IN  /\ u \in Reader /\ u.seenRoot = s.seenRoot /\ u.bad = s.bad /\ u.skip = k
               /\ u.inProp = s.inProp /\ u.inInclude = s.inInclude
               /\ u.names = s.names /\ u.include = s.include
               /\ u.allprop = s.allprop /\ u.owners = s.owners
  BY DEF Reader

\* No parser but PROPFIND's knows include, and LOCK's knows no prop either.
Readers(m) == {s \in Reader : (m # "PROPFIND" => ~s.inInclude) /\ (m = "LOCK" => ~s.inProp)}

\* No parser sets a flag of another method.
LEMMA TurnReads ==
    ASSUME NEW m \in Bodied, NEW s \in Readers(m), NEW t \in Tag
    PROVE  Turn(m, s, t) \in Readers(m)
<1>1. s \in Reader /\ (m # "PROPFIND" => ~s.inInclude) /\ (m = "LOCK" => ~s.inProp)
  BY DEF Readers
<1>2. CASE s.bad
  BY <1>1, <1>2, BadStays
<1>3. CASE ~s.bad /\ t = << "error" >>
  <2>1. PICK u : u = [s EXCEPT !.bad = TRUE]
    OBVIOUS
  <2>2. u \in Reader /\ u.inProp = s.inProp /\ u.inInclude = s.inInclude
    BY <1>1, <2>1 DEF Reader
  <2>3. u \in Readers(m)
    BY <1>1, <2>2 DEF Readers
  <2>4. Turn(m, s, << "error" >>) = u
    BY <1>1, <1>3, <2>1, TurnFails
  <2>. QED
    BY <1>3, <2>3, <2>4
<1>4. CASE ~s.bad /\ t # << "error" >>
  <2>1. PICK n \in STRING : t = << "start", n >> \/ t = << "end", n >>
    <3>1. t \in {"start", "end"} \X STRING
      BY <1>4 DEF Tag
    <3>2. t[1] \in {"start", "end"} /\ t[2] \in STRING /\ t = << t[1], t[2] >>
      BY <3>1
    <3>3. t = << "start", t[2] >> \/ t = << "end", t[2] >>
      BY <3>2
    <3>. QED
      BY <3>2, <3>3
  <2>2. CASE s.skip > 0
    <3>1. s.skip \in Nat /\ s.skip + 1 \in Nat /\ s.skip - 1 \in Nat
      BY <1>1, <2>2 DEF Reader
    <3>2. PICK k \in Nat : Turn(m, s, t) = [s EXCEPT !.skip = k]
      <4>1. CASE t = << "start", n >>
        <5>1. Turn(m, s, t) = [s EXCEPT !.skip = s.skip + 1]
          BY <1>1, <1>4, <2>2, <4>1, TurnIs
        <5>. QED
          BY <3>1, <5>1
      <4>2. CASE t = << "end", n >>
        <5>1. Turn(m, s, t) = [s EXCEPT !.skip = s.skip - 1]
          BY <1>1, <1>4, <2>2, <4>2, TurnIs
        <5>. QED
          BY <3>1, <5>1
      <4>. QED
        BY <2>1, <4>1, <4>2
    <3>. QED
      BY <1>1, <2>2, <3>2, TurnSkips DEF Readers
  <2>3. CASE ~(s.skip > 0)
    <3>1. CASE t = << "end", n >>
      <4>1. Turn(m, s, t) = Leave(m, s, n)
        BY <1>1, <1>4, <2>3, <3>1, TurnIs
      <4>. QED
        BY <1>1, <4>1, LeaveIs DEF Readers
    <3>2. CASE t = << "start", n >>
      <4>1. PICK u : u = Turn(m, s, t) /\ u = Enter(m, s, n)
        BY <1>1, <1>4, <2>3, <3>2, TurnIs
      <4>2. CASE ~s.seenRoot
        <5>1. u = [s EXCEPT !.seenRoot = TRUE] \/ u = [s EXCEPT !.bad = TRUE]
          BY <1>1, <4>1, <4>2, EnterRoot
        <5>2. u \in Reader /\ u.inProp = s.inProp /\ u.inInclude = s.inInclude
          BY <1>1, <5>1 DEF Reader
        <5>. QED
          BY <1>1, <4>1, <5>2 DEF Readers
      <4>3. CASE s.seenRoot /\ (s.inProp \/ s.inInclude)
        BY <1>1, <4>1, <4>3, EnterListed DEF Readers
      <4>4. CASE s.seenRoot /\ ~s.inProp /\ ~s.inInclude
        <5>1. /\ u \in Reader
              /\ u.inProp <=> n \in Listed(m) /\ n = "prop"
              /\ u.inInclude <=> n \in Listed(m) /\ n = "include"
          BY <1>1, <4>1, <4>4, EnterOther
        <5>. QED
          BY <4>1, <5>1, Apart DEF Readers
      <4>. QED
        BY <4>2, <4>3, <4>4
    <3>. QED
      BY <2>1, <3>1, <3>2
  <2>. QED
    BY <2>2, <2>3
<1>. QED
  BY <1>2, <1>3, <1>4

\* Nothing is directly in an element that is beneath one not descended into.
LEMMA NotInside ==
    ASSUME NEW m \in Bodied, NEW O, NEW D \in Nat, NEW w, NEW p \in 2..D,
           O[p] \notin Nested(m), p < D
    PROVE  ~Directly(m, O, D, w)
<1>1. p \in 2..D - 1
  OBVIOUS
<1>. QED
  BY <1>1 DEF Directly, Descends

\* An element starts.
LEMMA StandsPush ==
    ASSUME NEW m \in Bodied, NEW s \in Readers(m), ~s.bad, s.seenRoot,
           NEW D \in Nat \ {0}, NEW O, Stands(m, s, O, D), NEW n \in STRING,
           NEW Q, \A x \in 1..D : Q[x] = O[x], Q[D + 1] = n
    PROVE  LET u == Turn(m, s, << "start", n >>)
           IN  /\ ~u.bad /\ u.seenRoot
               /\ Stands(m, u, Q, D + 1)
               /\ u.names = IF Directly(m, O, D, "prop") THEN Append(s.names, n) ELSE s.names
               /\ u.include = IF Directly(m, O, D, "include") THEN Append(s.include, n) ELSE s.include
               /\ u.allprop <=> s.allprop \/ (m = "PROPFIND" /\ D = 1 /\ n = "allprop")
               /\ u.owners > 0 <=> s.owners > 0 \/ (m = "LOCK" /\ D = 1 /\ n = "owner")
<1>0. s \in Reader /\ (m # "PROPFIND" => ~s.inInclude) /\ (m = "LOCK" => ~s.inProp)
  BY DEF Readers
<1>1. PICK u : u = Turn(m, s, << "start", n >>)
  OBVIOUS
<1>2. \A p \in 0..D : Descends(m, Q, p) <=> Descends(m, O, p)
  <2>1. \A p \in 0..D : \A x \in 2..p : Q[x] = O[x]
    OBVIOUS
  <2>. QED
    BY <2>1 DEF Descends
<1>3. s.skip \in Nat /\ s.owners \in Nat
  BY <1>0 DEF Reader
<1>4. ~s.bad /\ s.seenRoot
  OBVIOUS
<1>5. CASE Descends(m, O, D) /\ Free(s)
  <2>1. s.skip = 0 /\ ~(s.skip > 0) /\ ~s.inProp /\ ~s.inInclude
    BY <1>5 DEF Free
  <2>2. u = Enter(m, s, n)
    BY <1>0, <1>1, <1>4, <2>1, TurnIs
  <2>3. /\ ~u.bad /\ u.seenRoot
        /\ u.skip = IF n \in Nested(m) \cup Listed(m) THEN 0 ELSE 1
        /\ u.inProp <=> n \in Listed(m) /\ n = "prop"
        /\ u.inInclude <=> n \in Listed(m) /\ n = "include"
        /\ u.names = s.names /\ u.include = s.include
        /\ u.allprop <=> s.allprop \/ (m = "PROPFIND" /\ n = "allprop")
        /\ u.owners = IF m = "LOCK" /\ n = "owner" THEN s.owners + 1 ELSE s.owners
    BY <1>0, <1>4, <2>1, <2>2, EnterOther
  <2>4. ASSUME NEW w PROVE ~Directly(m, O, D, w)
    <3>1. D >= 2 => O[D] \in Nested(m)
      <4>1. D >= 2 => D \in 2..D
        OBVIOUS
      <4>. QED
        BY <1>5, <4>1 DEF Descends
    <3>. QED
      BY <3>1, Apart DEF Directly
  <2>5. m # "PROPPATCH" => D = 1
    <3>1. D # 1 => 2 \in 2..D
      OBVIOUS
    <3>. QED
      BY <1>5, <3>1, Apart DEF Descends
  <2>6. Stands(m, u, Q, D + 1)
    <3>1. Descends(m, Q, D) /\ D + 1 \in 2..D + 1 /\ (D + 1) - 1 = D /\ (D + 1) - (D + 1) = 0
      BY <1>2, <1>5
    <3>2. CASE n \in Nested(m)
      <4>1. n \notin Listed(m)
        BY <3>2, Apart
      <4>2. Free(u)
        BY <2>3, <3>2, <4>1 DEF Free
      <4>3. Descends(m, Q, D + 1)
        BY <3>1, <3>2, DescendsMore
      <4>. QED
        BY <4>2, <4>3 DEF Stands
    <3>3. CASE n \in Listed(m)
      <4>1. Lists(m, u, Q, D + 1, D + 1)
        BY <2>3, <3>1, <3>3 DEF Lists
      <4>. QED
        BY <3>1, <4>1 DEF Stands
    <3>4. CASE n \notin Nested(m) \cup Listed(m)
      <4>1. Skips(m, u, Q, D + 1, D + 1)
        BY <2>3, <3>1, <3>4 DEF Skips
      <4>. QED
        BY <3>1, <4>1 DEF Stands
    <3>. QED
      BY <3>2, <3>3, <3>4
  <2>7. u.owners > 0 <=> s.owners > 0 \/ (m = "LOCK" /\ D = 1 /\ n = "owner")
    BY <1>3, <2>3, <2>5
  <2>8. u.allprop <=> s.allprop \/ (m = "PROPFIND" /\ D = 1 /\ n = "allprop")
    BY <2>3, <2>5
  <2>. QED
    BY <1>1, <2>3, <2>4, <2>6, <2>7, <2>8
<1>6. ASSUME NEW p \in 2..D, s.skip > 0,
             \A k \in Nat : k = s.skip + 1 =>
                \A v \in Reader : v.skip = k /\ v.inProp = s.inProp /\ v.inInclude = s.inInclude
                   => Stands(m, v, Q, D + 1),
             ~Directly(m, O, D, "prop"), ~Directly(m, O, D, "include")
      PROVE  /\ ~u.bad /\ u.seenRoot
             /\ Stands(m, u, Q, D + 1)
             /\ u.names = s.names /\ u.include = s.include
             /\ u.allprop = s.allprop /\ u.owners = s.owners
  <2>1. PICK k \in Nat : k = s.skip + 1
    BY <1>3
  <2>2. u = [s EXCEPT !.skip = s.skip + 1]
    BY <1>0, <1>1, <1>4, <1>6, TurnIs
  <2>3. u = [s EXCEPT !.skip = k]
    BY <2>1, <2>2
  <2>4. /\ u \in Reader /\ u.seenRoot = s.seenRoot /\ u.bad = s.bad /\ u.skip = k
        /\ u.inProp = s.inProp /\ u.inInclude = s.inInclude
        /\ u.names = s.names /\ u.include = s.include
        /\ u.allprop = s.allprop /\ u.owners = s.owners
    BY <1>0, <1>6, <2>3, TurnSkips
  <2>5. Stands(m, u, Q, D + 1)
    BY <1>6, <2>1, <2>4
  <2>. QED
    BY <1>4, <2>4, <2>5
<1>7. ASSUME NEW p \in 2..D, Lists(m, s, O, D, p) \/ Skips(m, s, O, D, p) PROVE D # 1
  OBVIOUS
<1>8. ASSUME NEW p \in 2..D
      PROVE  /\ p \in 2..D + 1 /\ p - 1 \in 0..D /\ p \in 1..D /\ p \in 1..D + 1
             /\ p \in Nat /\ Q[p] = O[p]
  OBVIOUS
<1>9. CASE \E p \in 2..D : Lists(m, s, O, D, p)
  <2>1. PICK p \in 2..D : Lists(m, s, O, D, p)
    BY <1>9
  <2>2. /\ Descends(m, O, p - 1) /\ O[p] \in Listed(m)
        /\ s.skip = D - p
        /\ s.inProp <=> O[p] = "prop"
        /\ s.inInclude <=> O[p] = "include"
    BY <2>1 DEF Lists
  <2>3. Descends(m, Q, p - 1) /\ Q[p] \in Listed(m)
    BY <1>2, <1>8, <2>2
  <2>4. O[p] \notin Nested(m) /\ (O[p] = "prop" \/ O[p] = "include")
    BY <2>2, Apart
  <2>5. ASSUME NEW v, v.skip = D + 1 - p, v.inProp = s.inProp, v.inInclude = s.inInclude
        PROVE  Stands(m, v, Q, D + 1)
    <3>1. Lists(m, v, Q, D + 1, p)
      BY <1>8, <2>2, <2>3, <2>5 DEF Lists
    <3>. QED
      BY <1>8, <3>1 DEF Stands
  <2>6. CASE p = D
    <3>1. ~(s.skip > 0)
      BY <2>2, <2>6
    <3>2. u = Enter(m, s, n)
      BY <1>0, <1>1, <1>4, <3>1, TurnIs
    <3>3. /\ u.seenRoot /\ u.bad = s.bad
          /\ u.skip = 1 /\ u.inProp = s.inProp /\ u.inInclude = s.inInclude
          /\ u.names = IF s.inProp THEN Append(s.names, n) ELSE s.names
          /\ u.include = IF s.inProp THEN s.include ELSE Append(s.include, n)
          /\ u.allprop = s.allprop /\ u.owners = s.owners
      <4>1. s.inProp \/ s.inInclude
        BY <2>2, <2>4
      <4>. QED
        BY <1>0, <1>4, <3>2, <4>1, EnterListed
    <3>4. Stands(m, u, Q, D + 1)
      <4>1. u.skip = D + 1 - p
        BY <2>6, <3>3
      <4>. QED
        BY <2>5, <3>3, <4>1
    <3>5. /\ Directly(m, O, D, "prop") <=> s.inProp
          /\ Directly(m, O, D, "include") <=> ~s.inProp
      BY <2>2, <2>4, <2>6 DEF Directly
    <3>6. D # 1
      BY <2>6
    <3>7. /\ u.names = IF Directly(m, O, D, "prop") THEN Append(s.names, n) ELSE s.names
          /\ u.include = IF Directly(m, O, D, "include") THEN Append(s.include, n) ELSE s.include
      BY <3>3, <3>5
    <3>. QED
      BY <1>1, <1>4, <3>3, <3>4, <3>6, <3>7
  <2>7. CASE p # D
    <3>1. p < D /\ s.skip > 0 /\ s.skip + 1 = D + 1 - p /\ D # 1
      BY <2>2, <2>7
    <3>2. ~Directly(m, O, D, "prop") /\ ~Directly(m, O, D, "include")
      BY <2>4, <3>1, NotInside
    <3>3. /\ ~u.bad /\ u.seenRoot
          /\ Stands(m, u, Q, D + 1)
          /\ u.names = s.names /\ u.include = s.include
          /\ u.allprop = s.allprop /\ u.owners = s.owners
      BY <1>6, <2>5, <3>1, <3>2
    <3>. QED
      BY <1>1, <3>1, <3>2, <3>3
  <2>. QED
    BY <2>6, <2>7
<1>10. CASE \E p \in 2..D : Skips(m, s, O, D, p)
  <2>1. PICK p \in 2..D : Skips(m, s, O, D, p)
    BY <1>10
  <2>2. /\ Descends(m, O, p - 1) /\ O[p] \notin Nested(m) \cup Listed(m)
        /\ s.skip = D - p + 1
        /\ ~s.inProp /\ ~s.inInclude
    BY <2>1 DEF Skips
  <2>3. Descends(m, Q, p - 1) /\ Q[p] \notin Nested(m) \cup Listed(m)
    BY <1>2, <1>8, <2>2
  <2>5. ASSUME NEW v, v.skip = s.skip + 1, v.inProp = s.inProp, v.inInclude = s.inInclude
        PROVE  Stands(m, v, Q, D + 1)
    <3>1. v.skip = D + 1 - p + 1
      BY <2>2, <2>5
    <3>2. Skips(m, v, Q, D + 1, p)
      BY <1>8, <2>2, <2>3, <2>5, <3>1 DEF Skips
    <3>. QED
      BY <1>8, <3>2 DEF Stands
  <2>6. ASSUME NEW w PROVE ~Directly(m, O, D, w)
    <3>1. CASE p = D
      BY <2>2, <3>1 DEF Directly
    <3>2. CASE p # D
      <4>1. p < D /\ O[p] \notin Nested(m)
        BY <2>2, <3>2
      <4>. QED
        BY <4>1, NotInside
    <3>. QED
      BY <3>1, <3>2
  <2>7. s.skip > 0 /\ D # 1
    BY <2>2
  <2>8. /\ ~u.bad /\ u.seenRoot
        /\ Stands(m, u, Q, D + 1)
        /\ u.names = s.names /\ u.include = s.include
        /\ u.allprop = s.allprop /\ u.owners = s.owners
    BY <1>6, <2>5, <2>6, <2>7
  <2>. QED
    BY <1>1, <2>6, <2>7, <2>8
<1>. QED
  BY <1>5, <1>9, <1>10 DEF Stands

\* An element ends.
LEMMA StandsPop ==
    ASSUME NEW m \in Bodied, NEW s \in Readers(m), ~s.bad,
           NEW D \in Nat \ {0}, NEW O, Stands(m, s, O, D), NEW n \in STRING, O[D] = n
    PROVE  LET u == Turn(m, s, << "end", n >>)
           IN  /\ ~u.bad /\ u.seenRoot = s.seenRoot
               /\ Stands(m, u, O, D - 1)
               /\ u.names = s.names /\ u.include = s.include
               /\ u.allprop = s.allprop /\ u.owners = s.owners
<1>0. s \in Reader /\ ~s.bad
  BY DEF Readers
<1>1. PICK u : u = Turn(m, s, << "end", n >>)
  OBVIOUS
<1>2. s.skip \in Nat
  BY <1>0 DEF Reader
<1>3. Descends(m, O, D) => Descends(m, O, D - 1)
  <2>1. D - 1 \in 0..D
    OBVIOUS
  <2>. QED
    BY <2>1, DescendsMore
<1>4. ASSUME ~(s.skip > 0), Descends(m, O, D - 1),
             s.inProp => n \in Listed(m) /\ n = "prop",
             s.inInclude => n \in Listed(m) /\ n = "include"
      PROVE  /\ ~u.bad /\ u.seenRoot = s.seenRoot
             /\ Stands(m, u, O, D - 1)
             /\ u.names = s.names /\ u.include = s.include
             /\ u.allprop = s.allprop /\ u.owners = s.owners
  <2>1. u = Leave(m, s, n)
    BY <1>0, <1>1, <1>4, TurnIs
  <2>2. /\ u.seenRoot = s.seenRoot /\ u.bad = s.bad /\ u.skip = s.skip
        /\ u.names = s.names /\ u.include = s.include
        /\ u.allprop = s.allprop /\ u.owners = s.owners
        /\ u.inProp <=> s.inProp /\ ~(n \in Listed(m) /\ n = "prop")
        /\ u.inInclude <=> s.inInclude /\ ~(n \in Listed(m) /\ n = "include")
    BY <1>0, <2>1, LeaveIs
  <2>3. u.skip = 0
    BY <1>2, <1>4, <2>2
  <2>4. ~u.inProp /\ ~u.inInclude
    BY <1>4, <2>2
  <2>5. Stands(m, u, O, D - 1)
    BY <1>4, <2>3, <2>4 DEF Stands, Free
  <2>. QED
    BY <1>0, <2>2, <2>5
<1>5. ASSUME s.skip > 0,
             \A v : v.skip = s.skip - 1 /\ v.inProp = s.inProp /\ v.inInclude = s.inInclude
                => Stands(m, v, O, D - 1)
      PROVE  /\ ~u.bad /\ u.seenRoot = s.seenRoot
             /\ Stands(m, u, O, D - 1)
             /\ u.names = s.names /\ u.include = s.include
             /\ u.allprop = s.allprop /\ u.owners = s.owners
  <2>1. PICK k \in Nat : k = s.skip - 1
    BY <1>2, <1>5
  <2>2. u = [s EXCEPT !.skip = s.skip - 1]
    BY <1>0, <1>1, <1>5, TurnIs
  <2>3. u = [s EXCEPT !.skip = k]
    BY <2>1, <2>2
  <2>4. /\ u.seenRoot = s.seenRoot /\ u.bad = s.bad /\ u.skip = k
        /\ u.inProp = s.inProp /\ u.inInclude = s.inInclude
        /\ u.names = s.names /\ u.include = s.include
        /\ u.allprop = s.allprop /\ u.owners = s.owners
    BY <1>0, <1>5, <2>3, TurnSkips
  <2>5. Stands(m, u, O, D - 1)
    BY <1>5, <2>1, <2>4
  <2>. QED
    BY <1>0, <2>4, <2>5
<1>6. CASE Descends(m, O, D) /\ Free(s)
  <2>1. ~(s.skip > 0) /\ ~s.inProp /\ ~s.inInclude
    BY <1>6 DEF Free
  <2>. QED
    BY <1>1, <1>3, <1>4, <1>6, <2>1
<1>7. CASE \E p \in 2..D : Lists(m, s, O, D, p)
  <2>1. PICK p \in 2..D : Lists(m, s, O, D, p)
    BY <1>7
  <2>2. /\ Descends(m, O, p - 1) /\ O[p] \in Listed(m)
        /\ s.skip = D - p
        /\ s.inProp <=> O[p] = "prop"
        /\ s.inInclude <=> O[p] = "include"
    BY <2>1 DEF Lists
  <2>3. CASE p = D
    <3>1. ~(s.skip > 0) /\ Descends(m, O, D - 1)
      BY <2>2, <2>3
    <3>2. n \in Listed(m) /\ (s.inProp <=> n = "prop") /\ (s.inInclude <=> n = "include")
      BY <2>2, <2>3
    <3>. QED
      BY <1>1, <1>4, <3>1, <3>2
  <2>4. CASE p # D
    <3>1. p \in 2..D - 1 /\ s.skip > 0 /\ s.skip - 1 = D - 1 - p
      BY <2>2, <2>4
    <3>2. ASSUME NEW v, v.skip = s.skip - 1, v.inProp = s.inProp, v.inInclude = s.inInclude
          PROVE  Stands(m, v, O, D - 1)
      <4>1. v.skip = D - 1 - p
        BY <3>1, <3>2
      <4>2. Lists(m, v, O, D - 1, p)
        BY <2>2, <3>2, <4>1 DEF Lists
      <4>. QED
        BY <3>1, <4>2 DEF Stands
    <3>. QED
      BY <1>1, <1>5, <3>1, <3>2
  <2>. QED
    BY <2>3, <2>4
<1>8. CASE \E p \in 2..D : Skips(m, s, O, D, p)
  <2>1. PICK p \in 2..D : Skips(m, s, O, D, p)
    BY <1>8
  <2>2. /\ Descends(m, O, p - 1) /\ O[p] \notin Nested(m) \cup Listed(m)
        /\ s.skip = D - p + 1
        /\ ~s.inProp /\ ~s.inInclude
    BY <2>1 DEF Skips
  <2>3. s.skip > 0
    BY <2>2
  <2>4. ASSUME NEW v, v.skip = s.skip - 1, v.inProp = s.inProp, v.inInclude = s.inInclude
        PROVE  Stands(m, v, O, D - 1)
    <3>1. CASE p = D
      <4>1. v.skip = 0 /\ ~v.inProp /\ ~v.inInclude
        BY <2>2, <2>4, <3>1
      <4>2. Descends(m, O, D - 1)
        BY <2>2, <3>1
      <4>. QED
        BY <4>1, <4>2 DEF Stands, Free
    <3>2. CASE p # D
      <4>1. p \in 2..D - 1 /\ v.skip = (D - 1) - p + 1
        BY <2>2, <2>4, <3>2
      <4>2. Skips(m, v, O, D - 1, p)
        BY <2>2, <2>4, <4>1 DEF Skips
      <4>. QED
        BY <4>1, <4>2 DEF Stands
    <3>. QED
      BY <3>1, <3>2
  <2>. QED
    BY <1>1, <1>5, <2>3, <2>4
<1>. QED
  BY <1>6, <1>7, <1>8 DEF Stands

-----------------------------------------------------------------------------
(* The tree of a document: the elements open above and at element i.       *)

Elem     == [at : Nat, name : STRING]
Document == [elems : Seq(Elem), open : Nat]

\* Element j is the last at depth d among the first i.
LastAt(e, i, d, j) ==
    j \in 1..i /\ e[j].at = d /\ \A k \in j + 1..i : e[k].at # d

\* O[x] is the name of the element open at depth x - 1 once element i has begun.
OpenAt(e, i) == [x \in Nat |-> Enclosing(e, i, x - 1)]

\* What a well-formed document is made of, element by element.
LEMMA ShapeIs ==
    ASSUME NEW doc \in Document, WellFormed(doc), NEW e, e = doc.elems
    PROVE  /\ e \in Seq(Elem) /\ Len(e) \in Nat
           /\ \A i \in 1..Len(e) : e[i] \in Elem /\ e[i].at \in Nat /\ e[i].name \in STRING
           /\ \A i \in 1..Len(e) : IF i = 1 THEN e[i].at = 0 ELSE e[i].at \in 1..e[i - 1].at + 1
           /\ doc.open \in Nat
           /\ Len(e) = 0 => doc.open = 0
           /\ Len(e) # 0 => doc.open \in 0..e[Len(e)].at + 1
<1>1. e \in Seq(Elem) /\ doc.open \in Nat
  BY DEF Document
<1>2. Len(e) \in Nat /\ \A i \in 1..Len(e) : e[i] \in Elem
  BY <1>1, LenProperties, ElementOfSeq
<1>3. \A i \in 1..Len(e) : e[i].at \in Nat /\ e[i].name \in STRING
  BY <1>2 DEF Elem
<1>. QED
  BY <1>1, <1>2, <1>3 DEF WellFormed

\* The last element at a depth is the one CHOOSE finds.
LEMMA EnclosingLast ==
    ASSUME NEW e, NEW i \in Nat, NEW d, NEW j, LastAt(e, i, d, j)
    PROVE  Enclosing(e, i, d) = e[j].name
<1>1. \A k : LastAt(e, i, d, k) => k = j
  <2> SUFFICES ASSUME NEW k, LastAt(e, i, d, k), k # j PROVE FALSE
    OBVIOUS
  <2>1. k \in 1..i /\ j \in 1..i
    BY DEF LastAt
  <2>2. k \in j + 1..i \/ j \in k + 1..i
    BY <2>1
  <2>. QED
    BY <2>2 DEF LastAt
<1>2. (CHOOSE k \in 1..i : e[k].at = d /\ \A l \in k + 1..i : e[l].at # d) = j
  BY <1>1 DEF LastAt
<1>. QED
  BY <1>2 DEF Enclosing

\* Every depth down to element i's has an element open, each but its own one
\* that was open before.
LEMMA EnclosingIs ==
    ASSUME NEW doc \in Document, WellFormed(doc), NEW e, e = doc.elems, NEW i \in 1..Len(e)
    PROVE  /\ \A d \in 0..e[i].at : \E j : LastAt(e, i, d, j)
           /\ i > 1 => \A d \in 0..e[i].at - 1 :
                          \E j : LastAt(e, i, d, j) /\ LastAt(e, i - 1, d, j)
           /\ LastAt(e, i, e[i].at, i)
<1> DEFINE T == {0} \cup {k \in 1..Len(e) : \A d \in 0..e[k].at : \E j : LastAt(e, k, d, j)}
<1>1. /\ Len(e) \in Nat
      /\ \A k \in 1..Len(e) : e[k].at \in Nat
      /\ \A k \in 1..Len(e) : IF k = 1 THEN e[k].at = 0 ELSE e[k].at \in 1..e[k - 1].at + 1
  BY ShapeIs
<1>2. ASSUME NEW k \in 1..Len(e) PROVE LastAt(e, k, e[k].at, k)
  BY DEF LastAt
<1>3. ASSUME NEW k \in 2..Len(e), k - 1 \in T, NEW d \in 0..e[k].at - 1
      PROVE  \E j : LastAt(e, k, d, j) /\ LastAt(e, k - 1, d, j)
  <2>1. k \in 1..Len(e) /\ k # 1 /\ k - 1 \in 1..Len(e) /\ k - 1 # 0
    OBVIOUS
  <2>2. e[k].at \in 1..e[k - 1].at + 1 /\ e[k - 1].at \in Nat /\ e[k].at \in Nat
    BY <1>1, <2>1
  <2>3. d \in 0..e[k - 1].at /\ d # e[k].at
    BY <2>2
  <2>4. PICK j : LastAt(e, k - 1, d, j)
    BY <1>3, <2>1, <2>3
  <2>5. LastAt(e, k, d, j)
    <3>1. j \in 1..k - 1 /\ e[j].at = d /\ \A l \in j + 1..k - 1 : e[l].at # d
      BY <2>4 DEF LastAt
    <3>2. \A l \in j + 1..k : l \in j + 1..k - 1 \/ l = k
      BY <3>1
    <3>. QED
      BY <2>3, <3>1, <3>2 DEF LastAt
  <2>. QED
    BY <2>4, <2>5
<1>4. ASSUME NEW k \in 1..Len(e), k - 1 \in T PROVE k \in T
  <2> SUFFICES ASSUME NEW d \in 0..e[k].at PROVE \E j : LastAt(e, k, d, j)
    OBVIOUS
  <2>1. CASE d = e[k].at
    BY <1>2, <2>1
  <2>2. CASE d # e[k].at
    <3>1. e[k].at \in Nat
      BY <1>1
    <3>2. k # 1
      BY <1>1, <2>2
    <3>3. k \in 2..Len(e) /\ d \in 0..e[k].at - 1
      BY <2>2, <3>1, <3>2
    <3>. QED
      BY <1>3, <1>4, <3>3
  <2>. QED
    BY <2>1, <2>2
<1>5. 0..Len(e) \subseteq T
  <2>1. 0 \in T
    OBVIOUS
  <2>. HIDE DEF T
  <2>. QED
    BY <1>1, <1>4, <2>1, EveryTurn
<1>6. i \in T /\ i - 1 \in T
  <2>1. i \in 0..Len(e) /\ i - 1 \in 0..Len(e)
    BY <1>1
  <2>. HIDE DEF T
  <2>. QED
    BY <1>5, <2>1
<1>7. i \in 1..Len(e) /\ i # 0
  OBVIOUS
<1>8. \A d \in 0..e[i].at : \E j : LastAt(e, i, d, j)
  BY <1>6, <1>7
<1>9. i > 1 => i \in 2..Len(e)
  OBVIOUS
<1>. QED
  BY <1>2, <1>3, <1>6, <1>7, <1>8, <1>9

\* An element goes on the path of those open above it, and the root is at its top.
LEMMA OpenAtIs ==
    ASSUME NEW doc \in Document, WellFormed(doc), NEW e, e = doc.elems, NEW i \in 1..Len(e)
    PROVE  /\ \A x \in 1..e[i].at + 1 : OpenAt(e, i)[x] \in STRING
           /\ OpenAt(e, i)[e[i].at + 1] = e[i].name
           /\ i > 1 => \A x \in 1..e[i].at : OpenAt(e, i)[x] = OpenAt(e, i - 1)[x]
           /\ OpenAt(e, i)[1] = e[1].name
<1>1. /\ Len(e) \in Nat
      /\ \A k \in 1..Len(e) : e[k].at \in Nat /\ e[k].name \in STRING
      /\ \A k \in 1..Len(e) : IF k = 1 THEN e[k].at = 0 ELSE e[k].at \in 1..e[k - 1].at + 1
  BY ShapeIs
<1>2. i \in Nat /\ e[i].at \in Nat /\ i - 1 \in Nat
  BY <1>1
<1>3. \A x \in Nat : /\ OpenAt(e, i)[x] = Enclosing(e, i, x - 1)
                     /\ OpenAt(e, i - 1)[x] = Enclosing(e, i - 1, x - 1)
  BY DEF OpenAt
<1>4. ASSUME NEW x \in 1..e[i].at + 1 PROVE OpenAt(e, i)[x] \in STRING
  <2>1. x - 1 \in 0..e[i].at /\ x \in Nat
    BY <1>2
  <2>2. PICK j : LastAt(e, i, x - 1, j)
    BY <2>1, EnclosingIs
  <2>3. Enclosing(e, i, x - 1) = e[j].name
    BY <1>2, <2>2, EnclosingLast
  <2>4. j \in 1..Len(e)
    BY <2>2 DEF LastAt
  <2>. QED
    BY <1>1, <1>3, <2>1, <2>3, <2>4
<1>5. OpenAt(e, i)[e[i].at + 1] = e[i].name
  <2>1. e[i].at + 1 \in Nat /\ (e[i].at + 1) - 1 = e[i].at
    BY <1>2
  <2>2. LastAt(e, i, e[i].at, i)
    BY EnclosingIs
  <2>3. Enclosing(e, i, e[i].at) = e[i].name
    BY <1>2, <2>2, EnclosingLast
  <2>. QED
    BY <1>3, <2>1, <2>3
<1>6. ASSUME i > 1, NEW x \in 1..e[i].at PROVE OpenAt(e, i)[x] = OpenAt(e, i - 1)[x]
  <2>1. x - 1 \in 0..e[i].at - 1 /\ x \in Nat
    BY <1>2
  <2>2. PICK j : LastAt(e, i, x - 1, j) /\ LastAt(e, i - 1, x - 1, j)
    BY <1>6, <2>1, EnclosingIs
  <2>3. Enclosing(e, i, x - 1) = e[j].name
    BY <1>2, <2>2, EnclosingLast
  <2>4. Enclosing(e, i - 1, x - 1) = e[j].name
    BY <1>2, <2>2, EnclosingLast
  <2>. QED
    BY <1>3, <2>1, <2>3, <2>4
<1>7. OpenAt(e, i)[1] = e[1].name
  <2>1. 0 \in 0..e[i].at
    BY <1>2
  <2>2. PICK j : LastAt(e, i, 0, j)
    BY <2>1, EnclosingIs
  <2>3. j \in 1..Len(e) /\ e[j].at = 0
    BY <2>2 DEF LastAt
  <2>4. j = 1
    BY <1>1, <2>3
  <2>5. Enclosing(e, i, 0) = e[j].name
    BY <1>2, <2>2, EnclosingLast
  <2>6. OpenAt(e, i)[1] = Enclosing(e, i, 0)
    BY <1>3
  <2>. QED
    BY <2>4, <2>5, <2>6
<1>. QED
  BY <1>4, <1>5, <1>6, <1>7

-----------------------------------------------------------------------------
(* The names of some elements, in their order. *)

Lined(f, e, at, names) ==
    /\ f \in Seq(Nat) /\ names \in Seq(STRING) /\ Len(f) = Len(names)
    /\ \A x, y \in 1..Len(f) : x < y => f[x] < f[y]
    /\ \A x \in 1..Len(f) : f[x] \in at /\ names[x] = e[f[x]].name
    /\ \A i \in at : \E x \in 1..Len(f) : f[x] = i

NamesOf(e, at, names) == \E f : Lined(f, e, at, names)

\* No elements, no names.
LEMMA NoNames ==
    ASSUME NEW e
    PROVE  NamesOf(e, {}, << >>)
<1>1. << >> \in Seq(Nat) /\ << >> \in Seq(STRING) /\ Len(<< >>) = 0
  OBVIOUS
<1>2. Lined(<< >>, e, {}, << >>)
  BY <1>1 DEF Lined
<1>. QED
  BY <1>2 DEF NamesOf

\* One element more, behind the others, is one name more at the end.
LEMMA OneName ==
    ASSUME NEW e, NEW i \in Nat \ {0}, NEW at \in SUBSET (1..i - 1), NEW names,
           NamesOf(e, at, names), e[i].name \in STRING
    PROVE  NamesOf(e, at \cup {i}, Append(names, e[i].name))
<1>1. PICK f : Lined(f, e, at, names)
  BY DEF NamesOf
<1>2. /\ f \in Seq(Nat) /\ names \in Seq(STRING) /\ Len(f) = Len(names)
      /\ \A x, y \in 1..Len(f) : x < y => f[x] < f[y]
      /\ \A x \in 1..Len(f) : f[x] \in at /\ names[x] = e[f[x]].name
      /\ \A k \in at : \E x \in 1..Len(f) : f[x] = k
  BY <1>1 DEF Lined
<1>3. PICK n \in Nat : n = Len(f)
  BY <1>2, LenProperties
<1>4. PICK g : g = Append(f, i)
  OBVIOUS
<1>5. PICK o : o = Append(names, e[i].name)
  OBVIOUS
<1>6. /\ g \in Seq(Nat) /\ Len(g) = n + 1 /\ g[n + 1] = i
      /\ \A x \in 1..n : g[x] = f[x]
  BY <1>2, <1>3, <1>4, AppendProperties
<1>7. /\ o \in Seq(STRING) /\ Len(o) = n + 1 /\ o[n + 1] = e[i].name
      /\ \A x \in 1..n : o[x] = names[x]
  BY <1>2, <1>3, <1>5, AppendProperties
<1>8. \A x : x \in 1..n + 1 <=> x \in 1..n \/ x = n + 1
  BY <1>3
<1>9. \A x \in 1..n : f[x] \in Nat /\ f[x] < i
  <2> SUFFICES ASSUME NEW x \in 1..n PROVE f[x] \in Nat /\ f[x] < i
    OBVIOUS
  <2>1. f[x] \in 1..i - 1
    BY <1>2, <1>3
  <2>. QED
    BY <2>1
<1>10. ASSUME NEW x \in 1..n + 1, NEW y \in 1..n + 1, x < y PROVE g[x] < g[y]
  <2>1. x \in 1..n
    BY <1>3, <1>10
  <2>2. CASE y = n + 1
    BY <1>6, <1>9, <2>1, <2>2
  <2>3. CASE y \in 1..n
    BY <1>2, <1>3, <1>6, <1>10, <2>1, <2>3
  <2>. QED
    BY <1>8, <2>2, <2>3
<1>11. ASSUME NEW x \in 1..n + 1 PROVE g[x] \in at \cup {i} /\ o[x] = e[g[x]].name
  <2>1. CASE x = n + 1
    BY <1>6, <1>7, <2>1
  <2>2. CASE x \in 1..n
    BY <1>2, <1>3, <1>6, <1>7, <2>2
  <2>. QED
    BY <1>8, <2>1, <2>2
<1>12. ASSUME NEW k \in at \cup {i} PROVE \E x \in 1..n + 1 : g[x] = k
  <2>1. CASE k = i
    BY <1>6, <1>8, <2>1
  <2>2. CASE k \in at
    <3>1. PICK x \in 1..n : f[x] = k
      BY <1>2, <1>3, <2>2
    <3>. QED
      BY <1>6, <1>8, <3>1
  <2>. QED
    BY <2>1, <2>2
<1>13. Lined(g, e, at \cup {i}, o)
  BY <1>6, <1>7, <1>10, <1>11, <1>12 DEF Lined
<1>. QED
  BY <1>5, <1>13 DEF NamesOf

\* Any elements have names that list them.
LEMMA SomeNames ==
    ASSUME NEW doc \in Document, WellFormed(doc), NEW at \in SUBSET (1..Len(doc.elems))
    PROVE  \E names : NamesOf(doc.elems, at, names)
<1>0. PICK e : e = doc.elems
  OBVIOUS
<1>1. PICK n \in Nat : n = Len(e) /\ \A i \in 1..n : e[i].name \in STRING
  BY <1>0, ShapeIs
<1> DEFINE T == {k \in 0..n : \E names : NamesOf(e, at \cap (1..k), names)}
<1>2. 0 \in T
  <2>1. at \cap (1..0) = {}
    OBVIOUS
  <2>2. NamesOf(e, at \cap (1..0), << >>)
    BY <2>1, NoNames
  <2>. QED
    BY <1>1, <2>2
<1>3. ASSUME NEW k \in 1..n, k - 1 \in T PROVE k \in T
  <2>1. PICK names : NamesOf(e, at \cap (1..k - 1), names)
    BY <1>3
  <2>2. k \in Nat \ {0} /\ k \in 0..n /\ at \cap (1..k - 1) \in SUBSET (1..k - 1)
    BY <1>1
  <2>3. CASE k \notin at
    <3>1. at \cap (1..k) = at \cap (1..k - 1)
      BY <2>3
    <3>. QED
      BY <2>1, <2>2, <3>1
  <2>4. CASE k \in at
    <3>1. at \cap (1..k) = (at \cap (1..k - 1)) \cup {k}
      BY <2>4
    <3>2. e[k].name \in STRING
      BY <1>1
    <3>3. NamesOf(e, (at \cap (1..k - 1)) \cup {k}, Append(names, e[k].name))
      BY <2>1, <2>2, <3>2, OneName
    <3>. QED
      BY <2>2, <3>1, <3>3
  <2>. QED
    BY <2>3, <2>4
<1>4. 0..n \subseteq T
  <2>. HIDE DEF T
  <2>. QED
    BY <1>1, <1>2, <1>3, EveryTurn
<1>5. n \in 0..n /\ at \cap (1..n) = at
  <2>1. \A i \in at : i \in 1..n
    BY <1>0, <1>1
  <2>2. n \in 0..n
    OBVIOUS
  <2>. QED
    BY <2>1, <2>2
<1>6. n \in T
  <2>. HIDE DEF T
  <2>. QED
    BY <1>4, <1>5
<1>. QED
  BY <1>0, <1>5, <1>6

\* NamesIn counts the same elements out.
LEMMA NamesInIs ==
    ASSUME NEW doc \in Document, NEW places, NEW at, NEW names,
           at = {i \in 1..Len(doc.elems) : Above(doc, i) \in places},
           NamesOf(doc.elems, at, names)
    PROVE  NamesIn(doc, places) = names
<1>0. PICK e : e = doc.elems
  OBVIOUS
<1>1. PICK f : Lined(f, e, at, names)
  BY <1>0 DEF NamesOf
<1>2. /\ f \in Seq(Nat) /\ names \in Seq(STRING) /\ Len(f) = Len(names)
      /\ \A x, y \in 1..Len(f) : x < y => f[x] < f[y]
      /\ \A x \in 1..Len(f) : f[x] \in at /\ names[x] = e[f[x]].name
      /\ \A k \in at : \E x \in 1..Len(f) : f[x] = k
  BY <1>1 DEF Lined
<1>3. PICK n \in Nat : n = Len(f)
  BY <1>2, LenProperties
<1>4. at = {f[x] : x \in 1..n}
  BY <1>2, <1>3
<1>5. /\ Cardinality(at) = n
      /\ \A x \in 1..n : Ranked(at, x) = f[x]
  <2>1. /\ n \in Nat /\ f \in Seq(Nat) /\ Len(f) = n
        /\ \A x, y \in 1..n : x < y => f[x] < f[y]
    BY <1>2, <1>3
  <2>2. PICK all : all = at
    OBVIOUS
  <2>3. all = {f[x] : x \in 1..n}
    BY <1>4, <2>2
  <2>4. /\ Cardinality(all) = n
        /\ \A x \in 1..n : Ranked(all, x) = f[x]
    BY <2>1, <2>3, Ranks
  <2>. QED
    BY <2>2, <2>4
<1>6. NamesIn(doc, places) = [x \in 1..Cardinality(at) |-> e[Ranked(at, x)].name]
  BY <1>0 DEF NamesIn, Elements, Named, Ranked
<1>7. NamesIn(doc, places) = [x \in 1..n |-> names[x]]
  <2>1. NamesIn(doc, places) = [x \in 1..n |-> e[Ranked(at, x)].name]
    BY <1>5, <1>6
  <2>2. \A x \in 1..n : e[Ranked(at, x)].name = names[x]
    BY <1>2, <1>3, <1>5
  <2>. QED
    BY <2>1, <2>2
<1>8. names = [x \in 1..n |-> names[x]]
  <2>1. names \in [1..n -> STRING]
    BY <1>2, <1>3, LenProperties
  <2>. QED
    BY <2>1
<1>. QED
  BY <1>7, <1>8

\* Whether a name is among those in such places.
LEMMA NamesInContains ==
    ASSUME NEW doc \in Document, WellFormed(doc), NEW places, NEW w
    PROVE  Contains(NamesIn(doc, places), w) <=>
               \E i \in 1..Len(doc.elems) : Above(doc, i) \in places /\ doc.elems[i].name = w
<1>1. PICK at : at = {i \in 1..Len(doc.elems) : Above(doc, i) \in places}
  OBVIOUS
<1>2. at \in SUBSET (1..Len(doc.elems))
  BY <1>1
<1>3. PICK names : NamesOf(doc.elems, at, names)
  BY <1>2, SomeNames
<1>4. NamesIn(doc, places) = names
  BY <1>1, <1>3, NamesInIs
<1>5. PICK f : Lined(f, doc.elems, at, names)
  BY <1>3 DEF NamesOf
<1>6. /\ Len(f) = Len(names) /\ names \in Seq(STRING)
      /\ \A x \in 1..Len(f) : f[x] \in at /\ names[x] = doc.elems[f[x]].name
      /\ \A k \in at : \E x \in 1..Len(f) : f[x] = k
  BY <1>5 DEF Lined
<1>7. DOMAIN names = 1..Len(names)
  BY <1>6, LenProperties
<1>8. Contains(names, w) <=> \E x \in 1..Len(names) : names[x] = w
  BY DEF Contains
<1>9. ASSUME NEW x \in 1..Len(names), names[x] = w
      PROVE  \E i \in at : doc.elems[i].name = w
  BY <1>6, <1>9
<1>10. ASSUME NEW i \in at, doc.elems[i].name = w
       PROVE  \E x \in 1..Len(names) : names[x] = w
  BY <1>6, <1>10
<1>11. Contains(names, w) <=> \E i \in at : doc.elems[i].name = w
  BY <1>8, <1>9, <1>10
<1>. QED
  BY <1>1, <1>4, <1>11

-----------------------------------------------------------------------------
(* What has been read when element i has begun and D elements are open. *)

\* The elements so far that are directly in a w that is listed.
Within(m, e, i, w) == {j \in 1..i : Directly(m, OpenAt(e, j), e[j].at, w)}
Request(e, i, w)   == \E j \in 1..i : e[j].at = 1 /\ e[j].name = w

Gathered(m, e, i, s) ==
    /\ NamesOf(e, Within(m, e, i, "prop"), s.names)
    /\ NamesOf(e, Within(m, e, i, "include"), s.include)
    /\ s.allprop <=> m = "PROPFIND" /\ Request(e, i, "allprop")
    /\ s.owners > 0 <=> m = "LOCK" /\ Request(e, i, "owner")

Track(m, e, i, D, s) ==
    /\ s \in Readers(m)
    /\ \/ s.bad
       \/ /\ s.seenRoot /\ e[1].name = Top(m)
          /\ Stands(m, s, OpenAt(e, i), D)
          /\ Gathered(m, e, i, s)

\* What element i adds to the elements that are read.
LEMMA WithinNext ==
    ASSUME NEW m, NEW e, NEW i \in Nat \ {0}, NEW w
    PROVE  /\ Directly(m, OpenAt(e, i), e[i].at, w) =>
                  Within(m, e, i, w) = Within(m, e, i - 1, w) \cup {i}
           /\ ~Directly(m, OpenAt(e, i), e[i].at, w) =>
                  Within(m, e, i, w) = Within(m, e, i - 1, w)
           /\ Within(m, e, i - 1, w) \in SUBSET (1..i - 1)
           /\ Request(e, i, w) <=> Request(e, i - 1, w) \/ (e[i].at = 1 /\ e[i].name = w)
<1>1. \A j : j \in 1..i <=> j \in 1..i - 1 \/ j = i
  OBVIOUS
<1>. QED
  BY <1>1 DEF Within, Request

\* What element i adds to their names.
LEMMA NamesNext ==
    ASSUME NEW m, NEW e, NEW i \in Nat \ {0}, NEW w, NEW names,
           NamesOf(e, Within(m, e, i - 1, w), names), e[i].name \in STRING
    PROVE  NamesOf(e, Within(m, e, i, w),
                   IF Directly(m, OpenAt(e, i), e[i].at, w) THEN Append(names, e[i].name) ELSE names)
<1>1. Within(m, e, i - 1, w) \in SUBSET (1..i - 1)
  BY WithinNext
<1>2. CASE Directly(m, OpenAt(e, i), e[i].at, w)
  <2>1. PICK at \in SUBSET (1..i - 1) : at = Within(m, e, i - 1, w)
    BY <1>1
  <2>2. NamesOf(e, at, names)
    BY <2>1
  <2>3. NamesOf(e, at \cup {i}, Append(names, e[i].name))
    BY <2>2, OneName
  <2>4. Within(m, e, i, w) = at \cup {i}
    BY <1>2, <2>1, WithinNext
  <2>. QED
    BY <1>2, <2>3, <2>4
<1>3. CASE ~Directly(m, OpenAt(e, i), e[i].at, w)
  BY <1>3, WithinNext
<1>. QED
  BY <1>2, <1>3

LEMMA TagIs ==
    ASSUME NEW n \in STRING
    PROVE  << "start", n >> \in Tag /\ << "end", n >> \in Tag
  BY DEF Tag

\* The first start is the root's.
LEMMA TrackRoot ==
    ASSUME NEW m \in Bodied, NEW e, e[1].at = 0, e[1].name \in STRING
    PROVE  Track(m, e, 1, 1, Turn(m, Nothing, << "start", e[1].name >>))
<1>1. PICK u : u = Turn(m, Nothing, << "start", e[1].name >>)
  OBVIOUS
<1>2. Nothing \in Readers(m) /\ Nothing \in Reader
  BY NothingIs DEF Readers
<1>3. u \in Readers(m)
  BY <1>1, <1>2, TagIs, TurnReads
<1>4. u = Enter(m, Nothing, e[1].name)
  <2>1. ~(Nothing.skip > 0) /\ ~Nothing.bad
    BY NothingIs
  <2>. QED
    BY <1>1, <1>2, <2>1, TurnIs
<1>5. u = IF e[1].name = Top(m) THEN [Nothing EXCEPT !.seenRoot = TRUE]
                                ELSE [Nothing EXCEPT !.bad = TRUE]
  BY <1>2, <1>4, NothingIs, EnterRoot
<1>6. CASE e[1].name # Top(m)
  <2>1. u.bad
    BY <1>2, <1>5, <1>6 DEF Reader
  <2>. QED
    BY <1>1, <1>3, <2>1 DEF Track
<1>7. CASE e[1].name = Top(m)
  <2>1. /\ u.seenRoot
        /\ u.skip = Nothing.skip /\ u.inProp = Nothing.inProp /\ u.inInclude = Nothing.inInclude
        /\ u.names = Nothing.names /\ u.include = Nothing.include
        /\ u.allprop = Nothing.allprop /\ u.owners = Nothing.owners
    BY <1>2, <1>5, <1>7 DEF Reader
  <2>2. Stands(m, u, OpenAt(e, 1), 1)
    <3>1. Descends(m, OpenAt(e, 1), 1)
      BY DEF Descends
    <3>2. Free(u)
      BY <2>1, NothingIs DEF Free
    <3>. QED
      BY <3>1, <3>2 DEF Stands
  <2>3. ASSUME NEW w PROVE Within(m, e, 1, w) = {}
    <3>1. ~Directly(m, OpenAt(e, 1), e[1].at, w)
      BY DEF Directly
    <3>2. \A j \in 1..1 : j = 1
      OBVIOUS
    <3>. QED
      BY <3>1, <3>2 DEF Within
  <2>4. ASSUME NEW w PROVE ~Request(e, 1, w)
    <3>1. \A j \in 1..1 : e[j].at # 1
      OBVIOUS
    <3>. QED
      BY <3>1 DEF Request
  <2>5. NamesOf(e, {}, u.names) /\ NamesOf(e, {}, u.include)
    BY <2>1, NoNames, NothingIs
  <2>6. Gathered(m, e, 1, u)
    <3>1. NamesOf(e, Within(m, e, 1, "prop"), u.names) /\ NamesOf(e, Within(m, e, 1, "include"), u.include)
      BY <2>3, <2>5
    <3>2. ~u.allprop /\ u.owners = 0
      BY <2>1, NothingIs
    <3>3. ~Request(e, 1, "allprop") /\ ~Request(e, 1, "owner")
      BY <2>4
    <3>. QED
      BY <3>1, <3>2, <3>3 DEF Gathered
  <2>. QED
    BY <1>1, <1>3, <1>7, <2>1, <2>2, <2>6 DEF Track
<1>. QED
  BY <1>6, <1>7

\* The start of an element keeps the parser on the track of the tree.
LEMMA TrackStart ==
    ASSUME NEW m \in Bodied, NEW doc \in Document, WellFormed(doc), NEW e, e = doc.elems,
           NEW i \in 2..Len(e), NEW s, Track(m, e, i - 1, e[i].at, s)
    PROVE  Track(m, e, i, e[i].at + 1, Turn(m, s, << "start", e[i].name >>))
<1>1. /\ Len(e) \in Nat /\ i \in 1..Len(e) /\ i \in Nat \ {0} /\ i # 1
      /\ e[i].at \in Nat /\ e[i].name \in STRING /\ e[i].at \in 1..e[i - 1].at + 1
  <2>1. Len(e) \in Nat
    BY ShapeIs
  <2>2. i \in 1..Len(e) /\ i \in Nat \ {0} /\ i # 1
    BY <2>1
  <2>. QED
    BY <2>1, <2>2, ShapeIs
<1>2. PICK D \in Nat \ {0} : D = e[i].at
  BY <1>1
<1>3. PICK n \in STRING : n = e[i].name
  BY <1>1
<1>4. PICK u : u = Turn(m, s, << "start", n >>)
  OBVIOUS
<1>5. PICK O : O = OpenAt(e, i - 1)
  OBVIOUS
<1>6. PICK Q : Q = OpenAt(e, i)
  OBVIOUS
<1>7. s \in Readers(m) /\ s \in Reader
  BY DEF Track, Readers
<1>8. u \in Readers(m)
  BY <1>4, <1>7, TagIs, TurnReads
<1>9. CASE s.bad
  <2>1. u = s
    BY <1>4, <1>7, <1>9, BadStays
  <2>. QED
    BY <1>3, <1>4, <1>7, <1>9, <2>1 DEF Track
<1>10. CASE ~s.bad
  <2>1. s.seenRoot /\ e[1].name = Top(m) /\ Stands(m, s, O, D) /\ Gathered(m, e, i - 1, s)
    BY <1>2, <1>5, <1>10 DEF Track
  <2>2. (\A x \in 1..D : Q[x] = O[x]) /\ Q[D + 1] = n
    BY <1>1, <1>2, <1>3, <1>5, <1>6, OpenAtIs
  <2>3. /\ ~u.bad /\ u.seenRoot
        /\ Stands(m, u, Q, D + 1)
        /\ u.names = IF Directly(m, O, D, "prop") THEN Append(s.names, n) ELSE s.names
        /\ u.include = IF Directly(m, O, D, "include") THEN Append(s.include, n) ELSE s.include
        /\ u.allprop <=> s.allprop \/ (m = "PROPFIND" /\ D = 1 /\ n = "allprop")
        /\ u.owners > 0 <=> s.owners > 0 \/ (m = "LOCK" /\ D = 1 /\ n = "owner")
    BY <1>4, <1>7, <1>10, <2>1, <2>2, StandsPush
  <2>4. ASSUME NEW w PROVE Directly(m, O, D, w) <=> Directly(m, Q, D, w)
    <3>1. \A x \in 2..D - 1 : Q[x] = O[x]
      BY <2>2
    <3>2. Q[D] = O[D]
      BY <2>2
    <3>. QED
      BY <3>1, <3>2 DEF Directly, Descends
  <2>5. ASSUME NEW w, NEW names, NamesOf(e, Within(m, e, i - 1, w), names)
        PROVE  NamesOf(e, Within(m, e, i, w),
                       IF Directly(m, O, D, w) THEN Append(names, n) ELSE names)
    <3>1. Directly(m, O, D, w) <=> Directly(m, OpenAt(e, i), e[i].at, w)
      BY <1>2, <1>6, <2>4
    <3>2. i \in Nat \ {0} /\ e[i].name \in STRING
      BY <1>1
    <3>3. NamesOf(e, Within(m, e, i, w),
                  IF Directly(m, OpenAt(e, i), e[i].at, w) THEN Append(names, e[i].name) ELSE names)
      BY <2>5, <3>2, NamesNext
    <3>. QED
      BY <1>3, <3>1, <3>3
  <2>6. NamesOf(e, Within(m, e, i, "prop"), u.names)
    BY <2>1, <2>3, <2>5 DEF Gathered
  <2>7. NamesOf(e, Within(m, e, i, "include"), u.include)
    BY <2>1, <2>3, <2>5 DEF Gathered
  <2>8. ASSUME NEW w PROVE Request(e, i, w) <=> Request(e, i - 1, w) \/ (D = 1 /\ n = w)
    BY <1>1, <1>2, <1>3, WithinNext
  <2>9. Gathered(m, e, i, u)
    <3>1. u.allprop <=> m = "PROPFIND" /\ Request(e, i, "allprop")
      BY <2>1, <2>3, <2>8 DEF Gathered
    <3>2. u.owners > 0 <=> m = "LOCK" /\ Request(e, i, "owner")
      BY <2>1, <2>3, <2>8 DEF Gathered
    <3>. QED
      BY <2>6, <2>7, <3>1, <3>2 DEF Gathered
  <2>. QED
    BY <1>2, <1>3, <1>4, <1>6, <1>8, <2>1, <2>3, <2>9 DEF Track
<1>. QED
  BY <1>9, <1>10

\* The end of the last element open keeps it there.
LEMMA TrackEnd ==
    ASSUME NEW m \in Bodied, NEW e, NEW i, NEW D \in Nat \ {0}, NEW s, Track(m, e, i, D, s),
           NEW n \in STRING, OpenAt(e, i)[D] = n
    PROVE  Track(m, e, i, D - 1, Turn(m, s, << "end", n >>))
<1>1. PICK u : u = Turn(m, s, << "end", n >>)
  OBVIOUS
<1>2. s \in Readers(m) /\ s \in Reader
  BY DEF Track, Readers
<1>3. u \in Readers(m)
  BY <1>1, <1>2, TagIs, TurnReads
<1>4. CASE s.bad
  <2>1. u = s
    BY <1>1, <1>2, <1>4, BadStays
  <2>. QED
    BY <1>1, <1>2, <1>4, <2>1 DEF Track
<1>5. CASE ~s.bad
  <2>1. s.seenRoot /\ e[1].name = Top(m) /\ Stands(m, s, OpenAt(e, i), D) /\ Gathered(m, e, i, s)
    BY <1>5 DEF Track
  <2>2. /\ ~u.bad /\ u.seenRoot = s.seenRoot
        /\ Stands(m, u, OpenAt(e, i), D - 1)
        /\ u.names = s.names /\ u.include = s.include
        /\ u.allprop = s.allprop /\ u.owners = s.owners
    <3>1. PICK O : O = OpenAt(e, i)
      OBVIOUS
    <3>2. O[D] = n /\ Stands(m, s, O, D)
      BY <2>1, <3>1
    <3>3. /\ ~u.bad /\ u.seenRoot = s.seenRoot
          /\ Stands(m, u, O, D - 1)
          /\ u.names = s.names /\ u.include = s.include
          /\ u.allprop = s.allprop /\ u.owners = s.owners
      BY <1>1, <1>2, <1>5, <3>2, StandsPop
    <3>. QED
      BY <3>1, <3>3
  <2>3. Gathered(m, e, i, u)
    BY <2>1, <2>2 DEF Gathered
  <2>. QED
    BY <1>1, <1>3, <2>1, <2>2, <2>3 DEF Track
<1>. QED
  BY <1>4, <1>5

-----------------------------------------------------------------------------
(* The tokens of a document, and the walk over them. *)

\* How many elements are open when those that end after element i have ended.
After(doc, i) == IF i < Len(doc.elems) THEN doc.elems[i + 1].at ELSE doc.open

Block(doc, i) ==
    << << "start", doc.elems[i].name >> >> \o Ends(doc.elems, i, After(doc, i))

\* Where a document's tokens are: those of element i behind the first h[i - 1].
Layout(T, h, doc) ==
    LET e == doc.elems
        n == Len(e)
    IN  /\ h \in [0..n -> Nat] /\ h[0] = 0
        /\ \A i \in 1..n : /\ T[h[i - 1] + 1] = << "start", e[i].name >>
                           /\ h[i] = h[i - 1] + 1 + (e[i].at + 1 - After(doc, i))
                           /\ \A k \in 1..e[i].at + 1 - After(doc, i) :
                                 T[h[i - 1] + 1 + k] = << "end", OpenAt(e, i)[e[i].at + 2 - k] >>
        /\ IF doc.open > 0 THEN Len(T) = h[n] + 1 /\ T[Len(T)] = << "error" >>
                           ELSE Len(T) = h[n]

\* No more elements are open after element i than it and those above it.
LEMMA AfterIs ==
    ASSUME NEW doc \in Document, WellFormed(doc), NEW i \in 1..Len(doc.elems)
    PROVE  After(doc, i) \in 0..doc.elems[i].at + 1
<1>1. PICK e : e = doc.elems
  OBVIOUS
<1>2. /\ Len(e) \in Nat /\ doc.open \in Nat
      /\ \A k \in 1..Len(e) : e[k].at \in Nat
      /\ \A k \in 1..Len(e) : IF k = 1 THEN e[k].at = 0 ELSE e[k].at \in 1..e[k - 1].at + 1
      /\ Len(e) # 0 => doc.open \in 0..e[Len(e)].at + 1
  BY <1>1, ShapeIs
<1>3. i \in 1..Len(e)
  BY <1>1
<1>4. CASE i < Len(e)
  <2>1. i + 1 \in 1..Len(e) /\ i + 1 # 1 /\ (i + 1) - 1 = i
    BY <1>2, <1>3, <1>4
  <2>2. e[i + 1].at \in 1..e[i].at + 1
    BY <1>2, <2>1
  <2>. QED
    BY <1>1, <1>2, <1>3, <1>4, <2>2 DEF After
<1>5. CASE ~(i < Len(e))
  <2>1. i = Len(e) /\ Len(e) # 0
    BY <1>2, <1>3, <1>5
  <2>. QED
    BY <1>1, <1>2, <1>5, <2>1 DEF After
<1>. QED
  BY <1>4, <1>5

\* The tokens of element i: its start, then the ends from the innermost out.
LEMMA BlockIs ==
    ASSUME NEW doc \in Document, WellFormed(doc), NEW e, e = doc.elems, NEW i \in 1..Len(e)
    PROVE  /\ Block(doc, i) \in Seq(Tag)
           /\ Len(Block(doc, i)) = 1 + (e[i].at + 1 - After(doc, i))
           /\ Block(doc, i)[1] = << "start", e[i].name >>
           /\ \A k \in 1..e[i].at + 1 - After(doc, i) :
                 Block(doc, i)[1 + k] = << "end", OpenAt(e, i)[e[i].at + 2 - k] >>
<1>1. e[i].at \in Nat /\ e[i].name \in STRING
  BY ShapeIs
<1>2. PICK d \in Nat : d = After(doc, i) /\ d \in 0..e[i].at + 1
  BY <1>1, AfterIs
<1>3. PICK c \in Nat : c = e[i].at + 1 - d /\ c = e[i].at - d + 1 /\ c = e[i].at + 1 - After(doc, i)
  <2>1. \A a, b \in Nat : b \in 0..a + 1 => a + 1 - b \in Nat /\ a + 1 - b = a - b + 1
    OBVIOUS
  <2>. QED
    BY <1>1, <1>2, <2>1
<1>4. PICK E : E = Ends(e, i, d)
  OBVIOUS
<1>5. E = [k \in 1..c |-> << "end", Enclosing(e, i, e[i].at - k + 1) >>]
  BY <1>3, <1>4 DEF Ends
<1>6. ASSUME NEW k \in 1..c
      PROVE  /\ E[k] = << "end", OpenAt(e, i)[e[i].at + 2 - k] >>
             /\ E[k] \in Tag
  <2>1. PICK x \in Nat : x = e[i].at + 2 - k /\ x - 1 = e[i].at - k + 1 /\ x \in 1..e[i].at + 1
    <3>1. k \in 1..e[i].at + 1
      BY <1>1, <1>2, <1>3
    <3>2. \A a \in Nat : \A y \in 1..a + 1 :
             a + 2 - y \in Nat /\ (a + 2 - y) - 1 = a - y + 1 /\ a + 2 - y \in 1..a + 1
      OBVIOUS
    <3>. QED
      BY <1>1, <3>1, <3>2
  <2>2. OpenAt(e, i)[x] = Enclosing(e, i, e[i].at - k + 1)
    BY <2>1 DEF OpenAt
  <2>3. PICK n \in STRING : n = OpenAt(e, i)[x]
    BY <2>1, OpenAtIs
  <2>4. E[k] = << "end", n >>
    BY <1>5, <2>2, <2>3
  <2>. QED
    BY <2>1, <2>3, <2>4, TagIs
<1>7. PICK t \in Tag : t = << "start", e[i].name >>
  BY <1>1, TagIs
<1>8. E \in Seq(Tag) /\ Len(E) = c
  <2>1. E = [k \in 1..c |-> E[k]]
    BY <1>5
  <2>. QED
    BY <1>6, <2>1
<1>9. << t >> \in Seq(Tag) /\ Len(<< t >>) = 1 /\ << t >>[1] = t
  OBVIOUS
<1>10. PICK B : B = << t >> \o E
  OBVIOUS
<1>11. /\ B \in Seq(Tag) /\ Len(B) = 1 + c
       /\ B[1] = t /\ \A k \in 1..c : B[1 + k] = E[k]
  BY <1>8, <1>9, <1>10, ConcatProperties
<1>12. Block(doc, i) = B
  BY <1>2, <1>4, <1>7, <1>10 DEF Block
<1>. QED
  BY <1>3, <1>6, <1>7, <1>11, <1>12

\* The tokens of a document are those blocks, one behind the other.
LEMMA TokensIs ==
    ASSUME NEW doc \in Document, WellFormed(doc)
    PROVE  Tokens(doc) \in Seq(Tag) /\ \E h : Layout(Tokens(doc), h, doc)
<1>0. PICK e : e = doc.elems
  OBVIOUS
<1>1. PICK n \in Nat : n = Len(e)
  BY <1>0, ShapeIs
<1>2. PICK ss : ss = [i \in 1..n |-> Block(doc, i)]
  OBVIOUS
<1>3. ASSUME NEW i \in 1..n
      PROVE  /\ ss[i] \in Seq(Tag)
             /\ Len(ss[i]) = 1 + (e[i].at + 1 - After(doc, i))
             /\ ss[i][1] = << "start", e[i].name >>
             /\ \A k \in 1..e[i].at + 1 - After(doc, i) :
                   ss[i][1 + k] = << "end", OpenAt(e, i)[e[i].at + 2 - k] >>
  <2>1. i \in 1..Len(e) /\ ss[i] = Block(doc, i)
    BY <1>1, <1>2
  <2>. QED
    BY <1>0, <2>1, BlockIs
<1>4. ss \in Seq(Seq(Tag)) /\ Len(ss) = n
  BY <1>2, <1>3
<1>5. PICK F : F = FlattenSeq(ss)
  OBVIOUS
<1>6. F \in Seq(Tag)
  BY <1>4, <1>5, FlattenBlocks
<1>7. PICK h : Blocks(h, ss, F)
  BY <1>4, <1>5, FlattenBlocks
<1>8. PICK tail : tail = IF doc.open > 0 THEN << << "error" >> >> ELSE << >>
  OBVIOUS
<1>9. tail \in Seq(Tag) /\ Len(tail) = (IF doc.open > 0 THEN 1 ELSE 0)
      /\ (doc.open > 0 => tail[1] = << "error" >>)
  <2>1. << "error" >> \in Tag
    BY DEF Tag
  <2>2. PICK t \in Tag : t = << "error" >>
    BY <2>1
  <2>3. << t >> \in Seq(Tag) /\ Len(<< t >>) = 1 /\ << t >>[1] = t
    OBVIOUS
  <2>4. << >> \in Seq(Tag) /\ Len(<< >>) = 0
    OBVIOUS
  <2>. QED
    BY <1>8, <2>2, <2>3, <2>4
<1>10. PICK T : T = F \o tail
  OBVIOUS
<1>11. Tokens(doc) = T
  <2>1. [i \in 1..n |-> << << "start", e[i].name >> >> \o
             Ends(e, i, IF i < n THEN e[i + 1].at ELSE doc.open)] = ss
    BY <1>0, <1>1, <1>2 DEF Block, After
  <2>. QED
    BY <1>0, <1>1, <1>5, <1>8, <1>10, <2>1 DEF Tokens
<1>12. /\ T \in Seq(Tag) /\ Len(T) = Len(F) + Len(tail) /\ Len(F) \in Nat
       /\ \A x \in 1..Len(F) : T[x] = F[x]
       /\ doc.open > 0 => T[Len(F) + 1] = << "error" >>
  <2>1. Len(F) \in Nat /\ Len(tail) \in Nat
    BY <1>6, <1>9
  <2>2. /\ T \in Seq(Tag) /\ Len(T) = Len(F) + Len(tail)
        /\ \A x \in 1..Len(F) + Len(tail) : T[x] = IF x <= Len(F) THEN F[x] ELSE tail[x - Len(F)]
    BY <1>6, <1>9, <1>10, ConcatProperties
  <2>3. \A x \in 1..Len(F) : T[x] = F[x]
    BY <2>1, <2>2
  <2>4. ASSUME doc.open > 0 PROVE T[Len(F) + 1] = << "error" >>
    <3>1. /\ Len(F) + 1 \in 1..Len(F) + Len(tail)
          /\ ~(Len(F) + 1 <= Len(F)) /\ (Len(F) + 1) - Len(F) = 1
      BY <1>9, <2>1, <2>4
    <3>. QED
      BY <1>9, <2>2, <2>4, <3>1
  <2>. QED
    BY <2>1, <2>2, <2>3, <2>4
<1>13. /\ h \in [0..n -> Nat] /\ h[0] = 0 /\ Len(F) = h[n]
       /\ \A i \in 1..n : h[i] = h[i - 1] + Len(ss[i]) /\ h[i] <= Len(F)
       /\ \A i \in 1..n : \A x \in 1..Len(ss[i]) : F[h[i - 1] + x] = ss[i][x]
  BY <1>4, <1>7 DEF Blocks
<1>14. ASSUME NEW i \in 1..n
       PROVE  /\ T[h[i - 1] + 1] = << "start", e[i].name >>
              /\ h[i] = h[i - 1] + 1 + (e[i].at + 1 - After(doc, i))
              /\ \A k \in 1..e[i].at + 1 - After(doc, i) :
                    T[h[i - 1] + 1 + k] = << "end", OpenAt(e, i)[e[i].at + 2 - k] >>
  <2>1. PICK c \in Nat : c = e[i].at + 1 - After(doc, i)
    <3>1. After(doc, i) \in 0..e[i].at + 1 /\ e[i].at \in Nat
      BY <1>0, <1>1, AfterIs, ShapeIs
    <3>. QED
      BY <3>1
  <2>2. h[i - 1] \in Nat /\ h[i] \in Nat /\ h[i] = h[i - 1] + Len(ss[i]) /\ h[i] <= Len(F)
    BY <1>13
  <2>3. Len(ss[i]) = 1 + c
    BY <1>3, <2>1
  <2>4. ASSUME NEW x \in 1..1 + c PROVE T[h[i - 1] + x] = ss[i][x]
    <3>1. h[i - 1] + x \in 1..Len(F)
      BY <1>12, <2>2, <2>3
    <3>2. F[h[i - 1] + x] = ss[i][x]
      BY <1>13, <2>3
    <3>. QED
      BY <1>12, <3>1, <3>2
  <2>5. T[h[i - 1] + 1] = << "start", e[i].name >>
    <3>1. 1 \in 1..1 + c
      OBVIOUS
    <3>. QED
      BY <1>3, <2>4, <3>1
  <2>6. ASSUME NEW k \in 1..c
        PROVE  T[h[i - 1] + 1 + k] = << "end", OpenAt(e, i)[e[i].at + 2 - k] >>
    <3>1. 1 + k \in 1..1 + c /\ h[i - 1] + (1 + k) = h[i - 1] + 1 + k
      BY <2>2
    <3>2. T[h[i - 1] + 1 + k] = ss[i][1 + k]
      BY <2>4, <3>1
    <3>. QED
      BY <1>3, <2>1, <3>2
  <2>7. h[i] = h[i - 1] + 1 + c
    BY <2>2, <2>3
  <2>. QED
    BY <2>1, <2>5, <2>6, <2>7
<1>15. IF doc.open > 0 THEN Len(T) = h[n] + 1 /\ T[Len(T)] = << "error" >>
                       ELSE Len(T) = h[n]
  <2>1. doc.open > 0 => Len(T) = h[n] + 1
    BY <1>9, <1>12, <1>13
  <2>2. ~(doc.open > 0) => Len(T) = h[n]
    BY <1>9, <1>12, <1>13
  <2>. QED
    BY <1>12, <1>13, <2>1, <2>2
<1>16. Layout(T, h, doc)
  BY <1>0, <1>1, <1>13, <1>14, <1>15 DEF Layout
<1>. QED
  BY <1>11, <1>12, <1>16

WalkRun(g, m, T) ==
    /\ g \in [0..Len(T) -> Readers(m)]
    /\ g[0] = Nothing
    /\ \A k \in 1..Len(T) : g[k] = Turn(m, g[k - 1], T[k])

\* The loop has a run, and ends with what the last turn left.
LEMMA WalkRuns ==
    ASSUME NEW m \in Bodied, NEW doc, NEW p \in Seq(Tag), p = Tokens(doc)
    PROVE  \E h : WalkRun(h, m, p) /\ Walk(m, doc) = h[Len(p)]
<1>0. PICK n \in Nat : n = Len(p)
  BY LenProperties
<1> DEFINE Is(f) == f = [s \in SUBSET DOMAIN p |->
                 IF s = {} THEN Nothing ELSE Turn(m, f[s \ {Max(s)}], p[Max(s)])]
<1>1. n \in Nat /\ DOMAIN p = 1..n /\ \A k \in 1..n : p[k] \in Tag
  BY <1>0, LenProperties
<1>2. [yk \in Readers(m) \X (1..n) |-> Turn(m, yk[1], p[yk[2]])] \in [Readers(m) \X (1..n) -> Readers(m)]
  BY <1>1, TurnReads
<1>3. PICK F \in [Readers(m) \X (1..n) -> Readers(m)] :
         \A y \in Readers(m), k \in 1..n : F[<< y, k >>] = Turn(m, y, p[k])
  BY <1>2
<1>4. Nothing \in Readers(m) /\ Loop(F, Readers(m), n)
  BY NothingIs DEF Loop, Readers
<1>5. \E f : Is(f)
  <2>1. PICK f : Folds(f, Readers(m), Nothing, F, n)
    BY <1>4, FoldExists
  <2>2. f \in [SUBSET (1..n) -> Readers(m)]
    BY <2>1 DEF Folds
  <2>3. ASSUME NEW s \in SUBSET (1..n)
        PROVE  f[s] = IF s = {} THEN Nothing ELSE Turn(m, f[s \ {Max(s)}], p[Max(s)])
    <3>1. CASE s = {}
      BY <2>1, <3>1 DEF Folds
    <3>2. CASE s # {}
      <4>1. Max(s) \in 1..n
        BY <1>1, <3>2, Greatest
      <4>2. f[s \ {Max(s)}] \in Readers(m)
        BY <2>2
      <4>3. f[s] = F[<< f[s \ {Max(s)}], Max(s) >>]
        BY <2>1, <3>2 DEF Folds
      <4>. QED
        BY <1>3, <3>2, <4>1, <4>2, <4>3
    <3>. QED
      BY <3>1, <3>2
  <2>. QED
    BY <1>1, <2>2, <2>3
<1>6. Walk(m, doc) = (CHOOSE f : Is(f))[1..n]
  BY <1>1 DEF Walk, FoldLeft, MapThenFoldSet
<1>7. PICK g : Is(g) /\ Walk(m, doc) = g[1..n]
  BY <1>5, <1>6
<1>8. \A s \in SUBSET (1..n) :
         g[s] = IF s = {} THEN Nothing ELSE Turn(m, g[s \ {Max(s)}], p[Max(s)])
  BY <1>1, <1>7
<1>. HIDE DEF Is
<1>9. g[{}] = Nothing
  BY <1>8
<1>10. \A k \in 1..n : 1..k # {} /\ 1..k \in SUBSET (1..n)
  BY <1>1, FirstOnes
<1>11. \A k \in 1..n : g[1..k - 1] \in Readers(m) => g[1..k] = F[<< g[1..k - 1], k >>]
  <2> SUFFICES ASSUME NEW k \in 1..n, g[1..k - 1] \in Readers(m)
               PROVE  g[1..k] = F[<< g[1..k - 1], k >>]
    OBVIOUS
  <2>1. Max(1..k) = k /\ (1..k) \ {k} = 1..k - 1
    BY GreatestOfAll
  <2>2. 1..k # {} /\ 1..k \in SUBSET (1..n)
    BY <1>10
  <2>3. g[1..k] = Turn(m, g[1..k - 1], p[k])
    BY <1>8, <2>1, <2>2
  <2>. QED
    BY <1>3, <2>3
<1>12. PICK h : Runs(h, Readers(m), Nothing, F, n) /\ h[n] = g[1..n]
  <2>1. Follows(g, Readers(m), Nothing, F, n)
    BY <1>9, <1>11 DEF Follows
  <2>. QED
    BY <1>4, <2>1, FoldRuns
<1>13. WalkRun(h, m, p)
  <2>1. h \in [0..n -> Readers(m)] /\ h[0] = Nothing
    BY <1>12 DEF Runs
  <2>2. ASSUME NEW k \in 1..n PROVE h[k] = Turn(m, h[k - 1], p[k])
    <3>1. h[k - 1] \in Readers(m)
      BY <1>1, <2>1
    <3>. QED
      BY <1>3, <1>12, <3>1 DEF Runs
  <2>. QED
    BY <1>0, <2>1, <2>2 DEF WalkRun
<1>. QED
  BY <1>0, <1>7, <1>12, <1>13

\* An element's tokens leave open the elements that are open before the next.
LEMMA BlockTracked ==
    ASSUME NEW m \in Bodied, NEW doc \in Document, WellFormed(doc), NEW e, e = doc.elems,
           NEW T, NEW h, Layout(T, h, doc), NEW g, WalkRun(g, m, T), Len(T) \in Nat,
           NEW i \in 1..Len(e), h[i] <= Len(T),
           Track(m, e, i, e[i].at + 1, g[h[i - 1] + 1])
    PROVE  Track(m, e, i, After(doc, i), g[h[i]])
<1>1. PICK n \in Nat : n = Len(e) /\ i \in 1..n
  BY ShapeIs
<1>2. /\ h \in [0..n -> Nat] /\ h[0] = 0
      /\ \A j \in 1..n : /\ T[h[j - 1] + 1] = << "start", e[j].name >>
                         /\ h[j] = h[j - 1] + 1 + (e[j].at + 1 - After(doc, j))
                         /\ \A k \in 1..e[j].at + 1 - After(doc, j) :
                               T[h[j - 1] + 1 + k] = << "end", OpenAt(e, j)[e[j].at + 2 - k] >>
  BY <1>1 DEF Layout
<1>3. PICK a \in Nat : a = e[i].at
  BY ShapeIs
<1>4. PICK d \in 0..a + 1 : d = After(doc, i)
  BY <1>3, AfterIs
<1>5. PICK c \in Nat : c = a + 1 - d
  BY <1>3, <1>4
<1>6. PICK b \in Nat : b = h[i - 1] + 1
  <2>1. i - 1 \in 0..n
    BY <1>1
  <2>2. h \in [0..n -> Nat]
    BY <1>2
  <2>. QED
    BY <2>1, <2>2
<1>7. h[i] = b + c /\ b + c <= Len(T) /\ b # 0
  <2>1. h[i] = h[i - 1] + 1 + (e[i].at + 1 - After(doc, i))
    BY <1>1, <1>2
  <2>2. h[i - 1] \in Nat
    <3>1. i - 1 \in 0..n
      BY <1>1
    <3>. QED
      BY <1>2, <3>1
  <2>. QED
    BY <1>3, <1>4, <1>5, <1>6, <2>1, <2>2
<1>8. \A k \in 1..c : T[b + k] = << "end", OpenAt(e, i)[a + 2 - k] >>
  BY <1>1, <1>2, <1>3, <1>4, <1>5, <1>6
<1> DEFINE S == {k \in 0..c : Track(m, e, i, a + 1 - k, g[b + k])}
<1>9. 0 \in S
  <2>1. a + 1 - 0 = e[i].at + 1 /\ b + 0 = h[i - 1] + 1
    BY <1>3, <1>6
  <2>. QED
    BY <2>1
<1>10. ASSUME NEW k \in 1..c, k - 1 \in S PROVE k \in S
  <2>1. PICK D \in Nat \ {0} : /\ D = a + 1 - (k - 1) /\ D = a + 2 - k /\ D - 1 = a + 1 - k
                               /\ D \in 1..a + 1
    <3>1. k \in 1..a + 1
      BY <1>4, <1>5
    <3>2. \A y \in 1..a + 1 : /\ a + 2 - y \in 1..a + 1
                              /\ a + 2 - y = a + 1 - (y - 1) /\ (a + 2 - y) - 1 = a + 1 - y
      OBVIOUS
    <3>. QED
      BY <3>1, <3>2
  <2>2. PICK s : s = g[b + (k - 1)]
    OBVIOUS
  <2>3. Track(m, e, i, D, s)
    BY <1>10, <2>1, <2>2
  <2>4. PICK name \in STRING : name = OpenAt(e, i)[D]
    BY <1>3, <2>1, OpenAtIs
  <2>5. T[b + k] = << "end", name >>
    BY <1>8, <2>1, <2>4
  <2>6. g[b + k] = Turn(m, s, << "end", name >>)
    <3>1. b + k \in 1..Len(T) /\ (b + k) - 1 = b + (k - 1)
      BY <1>7
    <3>2. g[b + k] = Turn(m, g[(b + k) - 1], T[b + k])
      BY <3>1 DEF WalkRun
    <3>. QED
      BY <2>2, <2>5, <3>1, <3>2
  <2>7. Track(m, e, i, D - 1, g[b + k])
    BY <2>3, <2>4, <2>6, TrackEnd
  <2>. QED
    BY <2>1, <2>7
<1>11. c \in S
  <2>. HIDE DEF S
  <2>1. 0..c \subseteq S
    BY <1>9, <1>10, EveryTurn
  <2>. QED
    BY <2>1
<1>12. a + 1 - c = d
  BY <1>4, <1>5
<1>. QED
  BY <1>4, <1>7, <1>11, <1>12

\* What a parser has at the end of a document.
LEMMA WalkIs ==
    ASSUME NEW m \in Bodied, NEW doc \in Document, WellFormed(doc),
           NEW e, e = doc.elems, NEW s, s = Walk(m, doc)
    PROVE  /\ s \in Readers(m)
           /\ doc.open > 0 => s.bad
           /\ ~s.bad /\ Len(e) = 0 => s = Nothing
           /\ ~s.bad /\ Len(e) # 0 =>
                 s.seenRoot /\ e[1].name = Top(m) /\ Gathered(m, e, Len(e), s)
<1>1. PICK T \in Seq(Tag) : T = Tokens(doc)
  BY TokensIs
<1>2. PICK h : Layout(T, h, doc)
  BY <1>1, TokensIs
<1>3. PICK g : WalkRun(g, m, T) /\ Walk(m, doc) = g[Len(T)]
  BY <1>1, WalkRuns
<1>4. PICK l \in Nat : l = Len(T)
  BY LenProperties
<1>5. PICK n \in Nat : n = Len(e)
  BY ShapeIs
<1>6. /\ g \in [0..l -> Readers(m)] /\ g[0] = Nothing
      /\ \A k \in 1..l : g[k] = Turn(m, g[k - 1], T[k])
  BY <1>3, <1>4 DEF WalkRun
<1>7. /\ h \in [0..n -> Nat] /\ h[0] = 0
      /\ \A i \in 1..n : T[h[i - 1] + 1] = << "start", e[i].name >>
      /\ \A i \in 1..n : h[i] = h[i - 1] + 1 + (e[i].at + 1 - After(doc, i))
  BY <1>2, <1>5 DEF Layout
<1>8. \A i \in 1..n : /\ e[i].at \in Nat /\ e[i].name \in STRING
                      /\ After(doc, i) \in 0..e[i].at + 1
                      /\ h[i] \in Nat /\ h[i - 1] \in Nat /\ h[i - 1] + 1 <= h[i]
  <2> SUFFICES ASSUME NEW i \in 1..n
               PROVE  /\ e[i].at \in Nat /\ e[i].name \in STRING
                      /\ After(doc, i) \in 0..e[i].at + 1
                      /\ h[i] \in Nat /\ h[i - 1] \in Nat /\ h[i - 1] + 1 <= h[i]
    OBVIOUS
  <2>1. e[i].at \in Nat /\ e[i].name \in STRING /\ After(doc, i) \in 0..e[i].at + 1
    BY <1>5, ShapeIs, AfterIs
  <2>2. h[i] \in Nat /\ h[i - 1] \in Nat
    BY <1>7
  <2>3. h[i] = h[i - 1] + 1 + (e[i].at + 1 - After(doc, i))
    BY <1>7
  <2>4. PICK c \in Nat : c = e[i].at + 1 - After(doc, i)
    BY <2>1
  <2>. QED
    BY <2>1, <2>2, <2>3, <2>4
<1>9. h[n] <= l /\ (doc.open > 0 => l = h[n] + 1 /\ T[l] = << "error" >>)
      /\ (~(doc.open > 0) => l = h[n])
  <2>1. h[n] \in Nat
    BY <1>7
  <2>2. IF doc.open > 0 THEN Len(T) = h[n] + 1 /\ T[Len(T)] = << "error" >> ELSE Len(T) = h[n]
    BY <1>2, <1>5 DEF Layout
  <2>. QED
    BY <1>4, <2>1, <2>2
<1>10. \A i \in 1..n : h[i] <= l
  <2> DEFINE S == {k \in 0..n : h[n - k] <= l}
  <2>1. 0 \in S
    BY <1>9
  <2>2. ASSUME NEW k \in 1..n, k - 1 \in S PROVE k \in S
    <3>1. PICK i \in 1..n : i = n - (k - 1) /\ i - 1 = n - k
      <4>1. n - (k - 1) \in 1..n /\ (n - (k - 1)) - 1 = n - k
        OBVIOUS
      <4>. QED
        BY <4>1
    <3>2. h[i] <= l
      BY <2>2, <3>1
    <3>3. h[i - 1] <= l
      BY <1>8, <3>2
    <3>. QED
      BY <3>1, <3>3
  <2>3. 0..n \subseteq S
    <3>. HIDE DEF S
    <3>. QED
      BY <2>1, <2>2, EveryTurn
  <2> SUFFICES ASSUME NEW i \in 1..n PROVE h[i] <= l
    OBVIOUS
  <2>4. n - i \in 0..n /\ n - (n - i) = i
    OBVIOUS
  <2>5. n - i \in S
    <3>. HIDE DEF S
    <3>. QED
      BY <2>3, <2>4
  <2>. QED
    BY <2>4, <2>5
<1> DEFINE S == {i \in 0..n : i = 0 \/ Track(m, e, i, After(doc, i), g[h[i]])}
<1>11. 0 \in S
  OBVIOUS
<1>12. ASSUME NEW i \in 1..n, i - 1 \in S PROVE i \in S
  <2>1. PICK b \in 1..l : b = h[i - 1] + 1 /\ b - 1 = h[i - 1]
    <3>1. h[i] \in Nat /\ h[i - 1] \in Nat /\ h[i - 1] + 1 <= h[i] /\ h[i] <= l
      BY <1>8, <1>10
    <3>2. h[i - 1] + 1 \in 1..l
      BY <3>1
    <3>. QED
      BY <3>1, <3>2
  <2>2. g[b] = Turn(m, g[h[i - 1]], << "start", e[i].name >>)
    BY <1>6, <1>7, <2>1
  <2>3. Track(m, e, i, e[i].at + 1, g[b])
    <3>1. CASE i = 1
      <4>1. g[h[i - 1]] = Nothing
        BY <1>6, <1>7, <3>1
      <4>2. e[1].at = 0 /\ e[1].name \in STRING
        <5>1. 1 \in 1..Len(e)
          BY <1>5, <3>1
        <5>. QED
          BY <5>1, ShapeIs
      <4>3. Track(m, e, 1, 1, g[b])
        BY <2>2, <3>1, <4>1, <4>2, TrackRoot
      <4>. QED
        BY <3>1, <4>2, <4>3
    <3>2. CASE i # 1
      <4>1. i \in 2..Len(e) /\ i - 1 \in 1..n /\ i - 1 # 0 /\ i - 1 < Len(e) /\ (i - 1) + 1 = i
        BY <1>5, <3>2
      <4>2. After(doc, i - 1) = e[i].at
        BY <4>1 DEF After
      <4>3. PICK r : r = g[h[i - 1]]
        OBVIOUS
      <4>4. Track(m, e, i - 1, e[i].at, r)
        BY <1>12, <4>1, <4>2, <4>3
      <4>5. Track(m, e, i, e[i].at + 1, Turn(m, r, << "start", e[i].name >>))
        BY <4>1, <4>4, TrackStart
      <4>. QED
        BY <2>2, <4>3, <4>5
    <3>. QED
      BY <3>1, <3>2
  <2>4. Track(m, e, i, After(doc, i), g[h[i]])
    <3>1. i \in 1..Len(e) /\ h[i] <= Len(T) /\ Len(T) \in Nat
      BY <1>4, <1>5, <1>10
    <3>2. Track(m, e, i, e[i].at + 1, g[h[i - 1] + 1])
      BY <2>1, <2>3
    <3>. QED
      BY <1>2, <1>3, <3>1, <3>2, BlockTracked
  <2>. QED
    BY <2>4
<1>13. n \in S
  <2>. HIDE DEF S
  <2>1. 0..n \subseteq S
    BY <1>11, <1>12, EveryTurn
  <2>. QED
    BY <2>1
<1>14. s = g[l] /\ s \in Readers(m)
  BY <1>3, <1>4, <1>6
<1>15. ASSUME doc.open > 0 PROVE s.bad
  <2>1. l \in 1..l /\ l - 1 \in 0..l
    BY <1>7, <1>9, <1>15
  <2>2. PICK r \in Reader : r = g[l - 1]
    BY <1>6, <2>1 DEF Readers
  <2>3. s = Turn(m, r, << "error" >>)
    BY <1>6, <1>9, <1>14, <1>15, <2>1, <2>2
  <2>4. CASE r.bad
    BY <2>3, <2>4, BadStays
  <2>5. CASE ~r.bad
    <3>1. s = [r EXCEPT !.bad = TRUE]
      BY <2>3, <2>5, TurnFails
    <3>. QED
      BY <3>1 DEF Reader
  <2>. QED
    BY <2>4, <2>5
<1>16. ASSUME ~s.bad PROVE s = g[h[n]]
  BY <1>9, <1>14, <1>15, <1>16
<1>17. ASSUME ~s.bad, n = 0 PROVE s = Nothing
  BY <1>6, <1>7, <1>16, <1>17
<1>18. ASSUME ~s.bad, n # 0 PROVE s.seenRoot /\ e[1].name = Top(m) /\ Gathered(m, e, n, s)
  <2>1. Track(m, e, n, After(doc, n), s)
    BY <1>13, <1>16, <1>18
  <2>. QED
    BY <1>18, <2>1 DEF Track
<1>. QED
  BY <1>5, <1>14, <1>15, <1>17, <1>18

-----------------------------------------------------------------------------
(* The places a body's elements are read in, on the tree. *)

\* The elements above i are the path open at i, read from its end.
LEMMA AboveIs ==
    ASSUME NEW doc \in Document, WellFormed(doc), NEW e, e = doc.elems, NEW i \in 1..Len(e),
           NEW a, a = Above(doc, i), NEW D, D = e[i].at, NEW O, O = OpenAt(e, i)
    PROVE  /\ D \in Nat /\ a \in Seq(STRING) /\ Len(a) = D
           /\ \A k \in 1..D : a[k] = O[D - k + 1]
           /\ \A x \in 1..D : O[x] = a[D - x + 1]
           /\ \A x \in 1..D + 1 : O[x] \in STRING
           /\ O[1] = e[1].name
<1>1. D \in Nat
  BY ShapeIs
<1>2. \A k \in 1..D : /\ D - k + 1 \in 1..D /\ D - k + 1 \in 1..D + 1
                       /\ (D - k + 1) - 1 = D - k /\ D - (D - k + 1) + 1 = k
  <2>1. \A y \in Nat : \A k \in 1..y :
           /\ y - k + 1 \in 1..y /\ y - k + 1 \in 1..y + 1
           /\ (y - k + 1) - 1 = y - k /\ y - (y - k + 1) + 1 = k
    OBVIOUS
  <2>. QED
    BY <1>1, <2>1
<1>3. a = [k \in 1..D |-> Enclosing(e, i, D - k)]
  BY DEF Above
<1>4. \A k \in 1..D : a[k] = O[D - k + 1]
  <2> SUFFICES ASSUME NEW k \in 1..D PROVE a[k] = O[D - k + 1]
    OBVIOUS
  <2>1. PICK x \in Nat : x = D - k + 1 /\ x - 1 = D - k
    <3>1. D - k + 1 \in 1..D /\ (D - k + 1) - 1 = D - k
      BY <1>2
    <3>. QED
      BY <1>1, <3>1
  <2>2. O[x] = Enclosing(e, i, D - k)
    BY <2>1 DEF OpenAt
  <2>. QED
    BY <1>3, <2>1, <2>2
<1>5. (\A x \in 1..D + 1 : O[x] \in STRING) /\ O[1] = e[1].name
  BY OpenAtIs
<1>6. \A k \in 1..D : a[k] \in STRING
  <2> SUFFICES ASSUME NEW k \in 1..D PROVE a[k] \in STRING
    OBVIOUS
  <2>1. PICK x \in 1..D + 1 : x = D - k + 1
    BY <1>2
  <2>. QED
    BY <1>4, <1>5, <2>1
<1>7. a = [k \in 1..D |-> a[k]]
  BY <1>3
<1>8. a \in Seq(STRING) /\ Len(a) = D
  <2>1. PICK n \in Nat : n = D
    BY <1>1
  <2>2. PICK b : b = a
    OBVIOUS
  <2>3. b = [k \in 1..n |-> b[k]] /\ \A k \in 1..n : b[k] \in STRING
    BY <1>6, <1>7, <2>1, <2>2
  <2>4. b \in Seq(STRING) /\ Len(b) = n
    BY <2>3
  <2>. QED
    BY <2>1, <2>2, <2>4
<1>9. \A x \in 1..D : O[x] = a[D - x + 1]
  <2> SUFFICES ASSUME NEW x \in 1..D PROVE O[x] = a[D - x + 1]
    OBVIOUS
  <2>1. PICK k \in 1..D : k = D - x + 1 /\ D - k + 1 = x
    BY <1>2
  <2>. QED
    BY <1>4, <2>1
<1>. QED
  BY <1>1, <1>4, <1>5, <1>8, <1>9

\* Directly in the root.
LEMMA InRoot ==
    ASSUME NEW doc \in Document, WellFormed(doc), NEW e, e = doc.elems, NEW i \in 1..Len(e)
    PROVE  Above(doc, i) \in {<< e[1].name >>} <=> e[i].at = 1
<1>1. PICK D : D = e[i].at
  OBVIOUS
<1>2. PICK O : O = OpenAt(e, i)
  OBVIOUS
<1>3. PICK a : a = Above(doc, i)
  OBVIOUS
<1>4. /\ D \in Nat /\ a \in Seq(STRING) /\ Len(a) = D
      /\ \A k \in 1..D : a[k] = O[D - k + 1]
      /\ O[1] = e[1].name /\ O[1] \in STRING
  <2>1. /\ D \in Nat /\ a \in Seq(STRING) /\ Len(a) = D
        /\ \A k \in 1..D : a[k] = O[D - k + 1]
        /\ \A x \in 1..D + 1 : O[x] \in STRING
        /\ O[1] = e[1].name
    BY <1>1, <1>2, <1>3, AboveIs
  <2>. QED
    BY <2>1
<1>5. PICK r \in STRING : r = e[1].name
  BY <1>4
<1>6. << r >> \in Seq(STRING) /\ Len(<< r >>) = 1 /\ << r >>[1] = r
  OBVIOUS
<1>7. ASSUME D = 1 PROVE a = << r >>
  <2>1. a[1] = r
    BY <1>4, <1>5, <1>7
  <2>2. Len(a) = 1
    BY <1>4, <1>7
  <2>. QED
    BY <1>4, <1>6, <2>1, <2>2, SeqEqual
<1>8. ASSUME a = << r >> PROVE D = 1
  BY <1>4, <1>6, <1>8
<1>. QED
  BY <1>1, <1>3, <1>5, <1>7, <1>8

\* In a listed element that is directly in the root: where a PROPFIND is read.
LEMMA InPropfind ==
    ASSUME NEW doc \in Document, WellFormed(doc), NEW e, e = doc.elems, NEW i \in 1..Len(e),
           e[1].name = "propfind", NEW w \in {"prop", "include"}
    PROVE  Above(doc, i) \in {<< w, "propfind" >>} <=>
               Directly("PROPFIND", OpenAt(e, i), e[i].at, w)
<1>1. PICK D : D = e[i].at
  OBVIOUS
<1>2. PICK O : O = OpenAt(e, i)
  OBVIOUS
<1>3. PICK a : a = Above(doc, i)
  OBVIOUS
<1>4. /\ D \in Nat /\ a \in Seq(STRING) /\ Len(a) = D
      /\ \A k \in 1..D : a[k] = O[D - k + 1]
      /\ O[1] = "propfind"
  <2>1. O[1] = e[1].name
    BY <1>1, <1>2, <1>3, AboveIs
  <2>2. /\ D \in Nat /\ a \in Seq(STRING) /\ Len(a) = D
        /\ \A k \in 1..D : a[k] = O[D - k + 1]
    BY <1>1, <1>2, <1>3, AboveIs
  <2>. QED
    BY <2>1, <2>2
<1>5. PICK q : q = << w, "propfind" >>
  OBVIOUS
<1>6. PICK S : S = STRING \cup {w, "propfind"}
  OBVIOUS
<1>7. /\ q \in Seq(S) /\ Len(q) = 2 /\ q[1] = w /\ q[2] = "propfind"
       /\ a \in Seq(S)
  <2>1. PICK v \in S, p \in S : v = w /\ p = "propfind"
    BY <1>6
  <2>2. q = << v, p >>
    BY <1>5, <2>1
  <2>3. STRING \subseteq S
    BY <1>6
  <2>4. a \in Seq(S)
    BY <1>4, <2>3, SeqMonotonic
  <2>. QED
    BY <2>1, <2>2, <2>4
<1>8. Nested("PROPFIND") = {} /\ w \in Listed("PROPFIND")
  BY DEF Nested, Listed
<1>9. Descends("PROPFIND", O, D - 1) <=> D <= 2
  <2>1. ASSUME D <= 2 PROVE 2..D - 1 = {}
    BY <1>4, <2>1
  <2>2. ASSUME D > 2 PROVE 2 \in 2..D - 1
    BY <1>4, <2>2
  <2>3. Descends("PROPFIND", O, D - 1) <=> \A x \in 2..D - 1 : FALSE
    BY <1>8 DEF Descends
  <2>. QED
    BY <1>4, <2>1, <2>2, <2>3
<1>10. Directly("PROPFIND", O, D, w) <=> D = 2 /\ O[2] = w
  <2>1. Directly("PROPFIND", O, D, w) <=> D >= 2 /\ D <= 2 /\ O[D] = w
    BY <1>8, <1>9 DEF Directly
  <2>. QED
    BY <1>4, <2>1
<1>11. ASSUME D = 2, O[2] = w PROVE a = q
  <2>1. a[1] = q[1] /\ a[2] = q[2]
    <3>1. a[1] = O[2 - 1 + 1] /\ a[2] = O[2 - 2 + 1]
      BY <1>4, <1>11
    <3>. QED
      BY <1>4, <1>11, <1>7, <3>1
  <2>2. Len(a) = 2 /\ \A k \in 1..2 : a[k] = q[k]
    BY <1>4, <1>11, <2>1
  <2>. QED
    BY <1>7, <2>2, SeqEqual
<1>12. ASSUME a = q PROVE D = 2 /\ O[2] = w
  <2>1. D = 2
    BY <1>4, <1>12, <1>7
  <2>2. a[1] = O[2 - 1 + 1]
    BY <1>4, <2>1
  <2>. QED
    BY <1>12, <1>7, <2>1, <2>2
<1>. QED
  BY <1>1, <1>2, <1>3, <1>5, <1>10, <1>11, <1>12

\* No element is deeper than there are elements.
LEMMA AtBound ==
    ASSUME NEW doc \in Document, WellFormed(doc), NEW e, e = doc.elems, NEW i \in 1..Len(e)
    PROVE  e[i].at \in 0..Len(e)
<1> DEFINE T == {k \in 0..Len(e) : k = 0 \/ e[k].at <= k - 1}
<1>1. /\ Len(e) \in Nat
      /\ \A k \in 1..Len(e) : e[k].at \in Nat
      /\ \A k \in 1..Len(e) : IF k = 1 THEN e[k].at = 0 ELSE e[k].at \in 1..e[k - 1].at + 1
  BY ShapeIs
<1>2. ASSUME NEW k \in 1..Len(e), k - 1 \in T PROVE k \in T
  <2>1. CASE k = 1
    BY <1>1, <2>1
  <2>2. CASE k # 1
    <3>1. k - 1 \in 1..Len(e) /\ k - 1 # 0 /\ k \in 0..Len(e)
      BY <1>1, <2>2
    <3>2. e[k - 1].at <= k - 1 - 1 /\ e[k - 1].at \in Nat /\ e[k].at \in 1..e[k - 1].at + 1
      BY <1>1, <1>2, <2>2, <3>1
    <3>3. e[k].at <= k - 1
      BY <3>2
    <3>. QED
      BY <3>1, <3>3
  <2>. QED
    BY <2>1, <2>2
<1>3. 0..Len(e) \subseteq T
  <2>1. 0 \in T
    BY <1>1
  <2>. HIDE DEF T
  <2>. QED
    BY <1>1, <1>2, <2>1, EveryTurn
<1>4. i \in T /\ i # 0
  <2>1. i \in 0..Len(e) /\ i # 0
    BY <1>1
  <2>. HIDE DEF T
  <2>. QED
    BY <1>3, <2>1
<1>. QED
  BY <1>1, <1>4

\* A path of a prop, a nest and the root, place by place.
LEMMA Joined ==
    ASSUME NEW S, NEW p \in S, NEW r \in S, NEW nest \in Seq(S), NEW c \in Nat, c = Len(nest),
           NEW q, q = << p >> \o nest \o << r >>
    PROVE  /\ q \in Seq(S) /\ Len(q) = c + 2
           /\ q[1] = p /\ q[c + 2] = r
           /\ \A k \in 1..c : q[k + 1] = nest[k]
<1>1. << p >> \in Seq(S) /\ Len(<< p >>) = 1 /\ << p >>[1] = p
  OBVIOUS
<1>2. << r >> \in Seq(S) /\ Len(<< r >>) = 1 /\ << r >>[1] = r
  OBVIOUS
<1>3. PICK f : f = << p >> \o nest
  OBVIOUS
<1>4. /\ f \in Seq(S) /\ Len(f) = 1 + c
      /\ f[1] = p /\ \A k \in 1..c : f[k + 1] = nest[k]
  BY <1>1, <1>3, ConcatProperties
<1>5. q = f \o << r >>
  BY <1>3
<1>6. /\ q \in Seq(S) /\ Len(q) = 1 + c + 1
      /\ \A k \in 1..1 + c + 1 : q[k] = IF k <= 1 + c THEN f[k] ELSE << r >>[k - (1 + c)]
  BY <1>2, <1>4, <1>5, ConcatProperties
<1>7. q[1] = f[1] /\ \A k \in 1..c : q[k + 1] = f[k + 1]
  BY <1>6
<1>8. q[c + 2] = r
  <2>1. c + 2 \in 1..1 + c + 1 /\ ~(c + 2 <= 1 + c) /\ (c + 2) - (1 + c) = 1
    OBVIOUS
  <2>. QED
    BY <1>2, <1>6, <2>1
<1>. QED
  BY <1>4, <1>6, <1>7, <1>8

\* In a prop that is in any nest of sets and removes: where a PROPPATCH is read.
LEMMA InProppatch ==
    ASSUME NEW doc \in Document, WellFormed(doc), NEW e, e = doc.elems, NEW i \in 1..Len(e),
           e[1].name = "propertyupdate"
    PROVE  Above(doc, i) \in PropPlaces(doc, "propertyupdate") <=>
               Directly("PROPPATCH", OpenAt(e, i), e[i].at, "prop")
<1>1. PICK D : D = e[i].at
  OBVIOUS
<1>2. PICK O : O = OpenAt(e, i)
  OBVIOUS
<1>3. PICK a : a = Above(doc, i)
  OBVIOUS
<1>4. /\ D \in Nat /\ a \in Seq(STRING) /\ Len(a) = D
      /\ \A k \in 1..D : a[k] = O[D - k + 1]
      /\ \A x \in 1..D : O[x] = a[D - x + 1]
      /\ O[1] = "propertyupdate"
  BY <1>1, <1>2, <1>3, AboveIs
<1>5. PICK N : N = {"set", "remove"}
  OBVIOUS
<1>6. PICK S : S = STRING \cup N \cup {"prop", "propertyupdate"}
  OBVIOUS
<1>7. N \subseteq S /\ a \in Seq(S)
  <2>1. STRING \subseteq S
    BY <1>6
  <2>. QED
    BY <1>4, <1>6, <2>1, SeqMonotonic
<1>8. PICK p \in S, r \in S : p = "prop" /\ r = "propertyupdate"
  BY <1>6
<1>9. PICK l \in Nat : l = Len(e)
  BY ShapeIs
<1>10. Nests(doc) = UNION {[1..c -> N] : c \in 0..l}
  BY <1>5, <1>9 DEF Nests, SeqOf
<1>11. a \in PropPlaces(doc, "propertyupdate") <=>
          \E nest \in Nests(doc) : a = << p >> \o nest \o << r >>
  BY <1>8 DEF PropPlaces
<1>12. Nested("PROPPATCH") = N /\ p \in Listed("PROPPATCH")
  BY <1>5, <1>8 DEF Nested, Listed
<1>13. Directly("PROPPATCH", O, D, p) <=>
          D >= 2 /\ O[D] = p /\ \A x \in 2..D - 1 : O[x] \in N
  BY <1>12 DEF Directly, Descends
<1>14. ASSUME NEW nest \in Nests(doc), a = << p >> \o nest \o << r >>
       PROVE  Directly("PROPPATCH", O, D, p)
  <2>1. PICK c \in 0..l : nest \in [1..c -> N]
    BY <1>10
  <2>2. nest \in Seq(S) /\ Len(nest) = c /\ \A k \in 1..c : nest[k] \in N
    <3>1. \A k \in 1..c : nest[k] \in N /\ nest[k] \in S
      BY <1>7, <2>1
    <3>2. nest = [k \in 1..c |-> nest[k]]
      BY <2>1
    <3>. QED
      BY <2>1, <3>1, <3>2
  <2>3. /\ Len(a) = c + 2 /\ a[1] = p
        /\ \A k \in 1..c : a[k + 1] = nest[k]
    BY <1>8, <1>14, <2>2, Joined
  <2>4. D = c + 2
    BY <1>4, <2>3
  <2>5. O[D] = p
    <3>1. D \in 1..D /\ D - D + 1 = 1
      BY <1>4, <2>4
    <3>. QED
      BY <1>4, <2>3, <3>1
  <2>6. ASSUME NEW x \in 2..D - 1 PROVE O[x] \in N
    <3>1. PICK k \in 1..c : k = D - x /\ D - x + 1 = k + 1 /\ x \in 1..D
      <4>1. D - x \in 1..c /\ x \in 1..D
        BY <2>4
      <4>. QED
        BY <4>1
    <3>2. O[x] = a[k + 1]
      BY <1>4, <3>1
    <3>. QED
      BY <2>2, <2>3, <3>2
  <2>. QED
    BY <1>13, <2>4, <2>5, <2>6
<1>15. ASSUME Directly("PROPPATCH", O, D, p)
       PROVE  \E nest \in Nests(doc) : a = << p >> \o nest \o << r >>
  <2>1. D >= 2 /\ O[D] = p /\ \A x \in 2..D - 1 : O[x] \in N
    BY <1>13, <1>15
  <2>2. PICK c \in Nat : c = D - 2 /\ D = c + 2
    BY <1>4, <2>1
  <2>3. \A k \in 1..c : a[k + 1] \in N
    <3> SUFFICES ASSUME NEW k \in 1..c PROVE a[k + 1] \in N
      OBVIOUS
    <3>1. PICK x \in 2..D - 1 : x = D - k /\ D - (k + 1) + 1 = x /\ k + 1 \in 1..D
      <4>1. D - k \in 2..D - 1 /\ D - (k + 1) + 1 = D - k /\ k + 1 \in 1..D
        BY <2>2
      <4>. QED
        BY <4>1
    <3>2. a[k + 1] = O[x]
      BY <1>4, <3>1
    <3>. QED
      BY <2>1, <3>2
  <2>4. PICK nest : nest = [k \in 1..c |-> a[k + 1]]
    OBVIOUS
  <2>5. nest \in [1..c -> N]
    BY <2>3, <2>4
  <2>6. c \in 0..l
    <3>1. D \in 0..Len(e)
      BY <1>1, AtBound
    <3>. QED
      BY <1>9, <2>2, <3>1
  <2>7. nest \in Nests(doc)
    BY <1>10, <2>5, <2>6
  <2>8. nest \in Seq(S) /\ Len(nest) = c
    <3>1. \A k \in 1..c : a[k + 1] \in S
      BY <1>7, <2>3
    <3>. QED
      BY <2>4, <3>1
  <2>9. PICK q : q = << p >> \o nest \o << r >>
    OBVIOUS
  <2>10. /\ q \in Seq(S) /\ Len(q) = c + 2 /\ q[1] = p /\ q[c + 2] = r
         /\ \A k \in 1..c : q[k + 1] = nest[k]
    BY <1>8, <2>8, <2>9, Joined
  <2>11. a[1] = p /\ a[c + 2] = r
    <3>1. 1 \in 1..D /\ D - 1 + 1 = D /\ D \in 1..D /\ D - D + 1 = 1
      BY <1>4, <2>1
    <3>. QED
      BY <1>4, <1>8, <2>1, <2>2, <3>1
  <2>12. ASSUME NEW x \in 1..c + 2 PROVE a[x] = q[x]
    <3>1. CASE x = 1
      BY <2>10, <2>11, <3>1
    <3>2. CASE x = c + 2
      BY <2>10, <2>11, <3>2
    <3>3. CASE x # 1 /\ x # c + 2
      <4>1. PICK k \in 1..c : x = k + 1
        <5>1. x - 1 \in 1..c /\ x = (x - 1) + 1
          BY <3>3
        <5>. QED
          BY <5>1
      <4>. QED
        BY <2>4, <2>10, <4>1
    <3>. QED
      BY <3>1, <3>2, <3>3
  <2>13. a = q
    <3>1. Len(a) = c + 2
      BY <1>4, <2>2
    <3>. QED
      BY <1>7, <2>10, <2>12, <3>1, SeqEqual
  <2>. QED
    BY <2>7, <2>9, <2>13
<1>. QED
  BY <1>1, <1>2, <1>3, <1>8, <1>11, <1>14, <1>15

\* The places for the elements the parser of m lists from a w.
Fits(m, doc, places, w) ==
    \A i \in 1..Len(doc.elems) :
        doc.elems[1].name = Top(m) =>
            (Above(doc, i) \in places <=>
                Directly(m, OpenAt(doc.elems, i), doc.elems[i].at, w))

\* What a parser has at the end of a document it did not refuse, on the tree.
LEMMA WalkNames ==
    ASSUME NEW m \in Bodied, NEW doc \in Document, WellFormed(doc), NEW e, e = doc.elems,
           NEW s, s = Walk(m, doc), ~s.bad, NEW w, NEW names,
           (w = "prop" /\ names = s.names) \/ (w = "include" /\ names = s.include),
           NEW places, Fits(m, doc, places, w)
    PROVE  names = NamesIn(doc, places)
<1>1. /\ Len(e) \in Nat
      /\ Len(e) = 0 => s = Nothing
      /\ Len(e) # 0 => e[1].name = Top(m) /\ Gathered(m, e, Len(e), s)
  BY WalkIs, ShapeIs
<1>2. PICK at : at = {i \in 1..Len(e) : Above(doc, i) \in places}
  OBVIOUS
<1>3. NamesOf(e, at, names)
  <2>1. CASE Len(e) = 0
    <3>1. at = {}
      <4>1. 1..Len(e) = {}
        BY <2>1
      <4>. QED
        BY <1>2, <4>1
    <3>2. names = << >>
      BY <1>1, <2>1, NothingIs
    <3>. QED
      BY <3>1, <3>2, NoNames
  <2>2. CASE Len(e) # 0
    <3>1. at = Within(m, e, Len(e), w)
      BY <1>1, <1>2, <2>2 DEF Within, Fits
    <3>2. NamesOf(e, Within(m, e, Len(e), w), names)
      BY <1>1, <2>2 DEF Gathered
    <3>. QED
      BY <3>1, <3>2
  <2>. QED
    BY <2>1, <2>2
<1>4. at = {i \in 1..Len(doc.elems) : Above(doc, i) \in places}
  BY <1>2
<1>. QED
  BY <1>3, <1>4, NamesInIs

\* An element that is asked for in the root by its name.
LEMMA WalkRequest ==
    ASSUME NEW m \in Bodied, NEW doc \in Document, WellFormed(doc), NEW e, e = doc.elems,
           NEW s, s = Walk(m, doc), ~s.bad, NEW w
    PROVE  Contains(NamesIn(doc, {<< Top(m) >>}), w) <=> Request(e, Len(e), w)
<1>1. /\ Len(e) \in Nat
      /\ Len(e) # 0 => e[1].name = Top(m)
  BY WalkIs, ShapeIs
<1>2. Contains(NamesIn(doc, {<< Top(m) >>}), w) <=>
          \E i \in 1..Len(e) : Above(doc, i) \in {<< Top(m) >>} /\ e[i].name = w
  BY NamesInContains
<1>3. ASSUME NEW i \in 1..Len(e)
      PROVE  Above(doc, i) \in {<< Top(m) >>} <=> e[i].at = 1
  <2>1. e[1].name = Top(m)
    BY <1>1
  <2>. QED
    BY <2>1, InRoot
<1>. QED
  BY <1>2, <1>3 DEF Request

\* What a PROPFIND body that is not refused asks for.
LEMMA PropfindIs ==
    ASSUME NEW doc \in Document, WellFormed(doc), NEW b, b = ParsePropfind(doc), ~b.bad
    PROVE  /\ b.names = NamesIn(doc, PropPlaces(doc, "propfind"))
           /\ b.include = NamesIn(doc, {<< "include", "propfind" >>})
           /\ b.allprop <=> \/ doc.elems = << >>
                            \/ Contains(NamesIn(doc, {<< "propfind" >>}), "allprop")
           /\ doc.open = 0
<1>1. PICK s : s = Walk("PROPFIND", doc)
  OBVIOUS
<1>2. PICK e : e = doc.elems
  OBVIOUS
<1>3. "PROPFIND" \in Bodied /\ Top("PROPFIND") = "propfind"
  BY DEF Bodied, Top
<1>4. /\ s \in Reader
      /\ doc.open > 0 => s.bad
      /\ ~s.bad /\ Len(e) = 0 => s = Nothing
      /\ ~s.bad /\ Len(e) # 0 => s.seenRoot /\ Gathered("PROPFIND", e, Len(e), s)
  BY <1>1, <1>2, <1>3, WalkIs DEF Readers
<1>5. b = [s EXCEPT !.allprop = @ \/ ~s.seenRoot,
                    !.bad = @ \/ (s.seenRoot /\ ~s.allprop /\ ~s.propname /\ s.names = << >>)]
  BY <1>1 DEF ParsePropfind
<1>6. /\ b.names = s.names /\ b.include = s.include
      /\ b.allprop <=> s.allprop \/ ~s.seenRoot
      /\ s.bad => b.bad
  BY <1>4, <1>5 DEF Reader
<1>7. ~s.bad
  BY <1>6
<1>8. s.names = NamesIn(doc, PropPlaces(doc, "propfind"))
  <2>1. Fits("PROPFIND", doc, {<< "prop", "propfind" >>}, "prop")
    BY <1>3, InPropfind DEF Fits
  <2>2. s.names = NamesIn(doc, {<< "prop", "propfind" >>})
    BY <1>1, <1>2, <1>3, <1>7, <2>1, WalkNames
  <2>. QED
    BY <2>2 DEF PropPlaces
<1>9. s.include = NamesIn(doc, {<< "include", "propfind" >>})
  <2>1. Fits("PROPFIND", doc, {<< "include", "propfind" >>}, "include")
    BY <1>3, InPropfind DEF Fits
  <2>. QED
    BY <1>1, <1>2, <1>3, <1>7, <2>1, WalkNames
<1>10. Contains(NamesIn(doc, {<< "propfind" >>}), "allprop") <=> Request(e, Len(e), "allprop")
  BY <1>1, <1>2, <1>3, <1>7, WalkRequest
<1>11. /\ e \in Seq(Elem) /\ Len(e) \in Nat /\ doc.open \in Nat
  BY <1>2, ShapeIs
<1>12. CASE Len(e) = 0
  <2>1. e = << >>
    BY <1>11, <1>12, EmptySeq
  <2>2. ~s.seenRoot
    BY <1>4, <1>7, <1>12, NothingIs
  <2>. QED
    BY <1>2, <1>4, <1>6, <1>7, <1>8, <1>9, <1>11, <2>1, <2>2
<1>13. CASE Len(e) # 0
  <2>1. e # << >>
    BY <1>13
  <2>2. s.seenRoot /\ (s.allprop <=> Request(e, Len(e), "allprop"))
    BY <1>4, <1>7, <1>13 DEF Gathered
  <2>. QED
    BY <1>2, <1>4, <1>6, <1>7, <1>8, <1>9, <1>10, <1>11, <2>1, <2>2
<1>. QED
  BY <1>11, <1>12, <1>13

\* What a PROPPATCH body that is not refused sets and removes.
LEMMA ProppatchIs ==
    ASSUME NEW doc \in Document, WellFormed(doc), NEW b, b = ParseProppatch(doc), ~b.bad
    PROVE  /\ b.names = NamesIn(doc, PropPlaces(doc, "propertyupdate"))
           /\ doc.open = 0
<1>1. PICK s : s = Walk("PROPPATCH", doc)
  OBVIOUS
<1>2. PICK e : e = doc.elems
  OBVIOUS
<1>3. "PROPPATCH" \in Bodied /\ Top("PROPPATCH") = "propertyupdate"
  BY DEF Bodied, Top
<1>4. s \in Reader /\ (doc.open > 0 => s.bad)
  BY <1>1, <1>2, <1>3, WalkIs DEF Readers
<1>5. b = [s EXCEPT !.bad = @ \/ ~s.seenRoot]
  BY <1>1 DEF ParseProppatch
<1>6. b.names = s.names /\ ~s.bad
  BY <1>4, <1>5 DEF Reader
<1>7. Fits("PROPPATCH", doc, PropPlaces(doc, "propertyupdate"), "prop")
  BY <1>3, InProppatch DEF Fits
<1>8. s.names = NamesIn(doc, PropPlaces(doc, "propertyupdate"))
  BY <1>1, <1>2, <1>3, <1>6, <1>7, WalkNames
<1>. QED
  BY <1>4, <1>6, <1>8, ShapeIs

\* What a LOCK body that is not refused says.
LEMMA LockIs ==
    ASSUME NEW doc \in Document, WellFormed(doc), NEW b, b = ParseLock(doc), ~b.bad
    PROVE  /\ b.seenRoot <=> doc.elems # << >>
           /\ b.owners > 0 <=> Contains(NamesIn(doc, {<< "lockinfo" >>}), "owner")
           /\ doc.open = 0
<1>1. b = Walk("LOCK", doc)
  BY DEF ParseLock
<1>2. PICK e : e = doc.elems
  OBVIOUS
<1>3. "LOCK" \in Bodied /\ Top("LOCK") = "lockinfo"
  BY DEF Bodied, Top
<1>4. /\ doc.open > 0 => b.bad
      /\ Len(e) = 0 => b = Nothing
      /\ Len(e) # 0 => b.seenRoot /\ Gathered("LOCK", e, Len(e), b)
  BY <1>1, <1>2, <1>3, WalkIs
<1>5. Contains(NamesIn(doc, {<< "lockinfo" >>}), "owner") <=> Request(e, Len(e), "owner")
  BY <1>1, <1>2, <1>3, WalkRequest
<1>6. /\ e \in Seq(Elem) /\ Len(e) \in Nat /\ doc.open \in Nat
  BY <1>2, ShapeIs
<1>7. CASE Len(e) = 0
  <2>1. e = << >>
    BY <1>6, <1>7, EmptySeq
  <2>2. ~b.seenRoot /\ b.owners = 0
    BY <1>4, <1>7, NothingIs
  <2>3. ~Request(e, Len(e), "owner")
    BY <1>7 DEF Request
  <2>. QED
    BY <1>2, <1>4, <1>5, <1>6, <2>1, <2>2, <2>3
<1>8. CASE Len(e) # 0
  <2>1. e # << >>
    BY <1>8
  <2>2. b.owners > 0 <=> Request(e, Len(e), "owner")
    BY <1>4, <1>8 DEF Gathered
  <2>. QED
    BY <1>2, <1>4, <1>5, <1>6, <1>8, <2>1, <2>2
<1>. QED
  BY <1>6, <1>7, <1>8

\* A call that was handed on had a body its method could read.
LEMMA BodyRead ==
    ASSUME IInv, Done
    PROVE  /\ Given.method = call.method /\ Given.body = Parsed
           /\ call.doc \in Document /\ WellFormed(call.doc)
           /\ call.method = "PROPFIND" =>
                 ~ParsePropfind(call.doc).bad /\ Depth \in {"zero", "one"}
           /\ call.method = "PROPPATCH" => ~ParseProppatch(call.doc).bad
           /\ call.method = "LOCK" => ~ParseLock(call.doc).bad /\ Depth \in {"zero", "infinity"}
           /\ call.method = "COPY" => Depth \in {"zero", "infinity"}
           /\ call.method \in {"PUT", "DELETE", "MOVE"} => ~AtRoot
<1>1. Given = Handed[1] /\ Refusal = 0
  BY GivenIs
<1>2. Given.method = call.method /\ Given.body = Parsed
  BY <1>1 DEF Handed
<1>3. call.doc \in Document /\ WellFormed(call.doc)
  BY DEF IInv, Call, Document, Elem
<1>4. Depth \in {"zero", "one", "infinity", "bad"}
  BY DEF Depth, ParseDepth
<1>5. call.method = "PROPFIND" =>
          ~ParsePropfind(call.doc).bad /\ Depth \in {"zero", "one"}
  BY <1>1, <1>4 DEF Refusal
<1>6. call.method = "PROPPATCH" => ~ParseProppatch(call.doc).bad
  BY <1>1 DEF Refusal
<1>7. call.method = "LOCK" => ~ParseLock(call.doc).bad /\ Depth \in {"zero", "infinity"}
  BY <1>1, <1>4 DEF Refusal, LockRefusal
<1>8. call.method = "COPY" => Depth \in {"zero", "infinity"}
  BY <1>1, <1>4 DEF Refusal
<1>9. call.method \in {"PUT", "DELETE", "MOVE"} => ~AtRoot
  BY <1>1 DEF Refusal
<1>. QED
  BY <1>2, <1>3, <1>5, <1>6, <1>7, <1>8, <1>9

\* However a PROPFIND, PROPPATCH or LOCK body nests its elements, what its
\* parser gathers is what the tree has in the places RFC 4918 gives them
\* (propfind.go:70-140, 390-437, lock.go:474-554).
THEOREM BodiesAlwaysAsWritten == Spec => []BodiesAsWritten
<1>1. IInv => BodiesAsWritten
  <2> SUFFICES ASSUME IInv, Done PROVE BodiesAsWritten
    BY DEF BodiesAsWritten
  <2>1. CASE call.method = "PROPFIND"
    <3>1. Given.body = ParsePropfind(call.doc) /\ ~ParsePropfind(call.doc).bad
      BY <2>1, BodyRead DEF Parsed
    <3>. QED
      BY <2>1, <3>1, BodyRead, PropfindIs DEF BodiesAsWritten
  <2>2. CASE call.method = "PROPPATCH"
    <3>1. Given.body = ParseProppatch(call.doc) /\ ~ParseProppatch(call.doc).bad
      BY <2>2, BodyRead DEF Parsed
    <3>. QED
      BY <2>2, <3>1, BodyRead, ProppatchIs DEF BodiesAsWritten
  <2>3. CASE call.method = "LOCK"
    <3>1. Given.body = ParseLock(call.doc) /\ ~ParseLock(call.doc).bad
      BY <2>3, BodyRead DEF Parsed
    <3>. QED
      BY <2>3, <3>1, BodyRead, LockIs DEF BodiesAsWritten
  <2>4. CASE call.method \notin {"PROPFIND", "PROPPATCH", "LOCK"}
    BY <2>4, BodyRead DEF BodiesAsWritten
  <2>. QED
    BY <2>1, <2>2, <2>3, <2>4
<1>. QED
  BY InitInv, NextInv, <1>1, PTL DEF Spec

\* What a handler is called with is what it takes for granted: a depth it
\* accepts, a root it may write, a body that was read to its end
\* (server.go:303-363, propfind.go:31-62, lock.go:188-239).
THEOREM TypeCorrect == Spec => []TypeOK
<1>1. IInv => TypeOK
  <2> SUFFICES ASSUME IInv PROVE TypeOK
    OBVIOUS
  <2>1. pc \in {"authorise", "resource", "dispatch", "read", "done"}
    BY DEF IInv, Far
  <2>2. pc = "done" => (Done <=> reply.status = 0)
    <3>1. Done <=> handed # << >>
      BY DEF Done
    <3>2. Handed # << >>
      BY DEF Handed
    <3>3. NoReply.status = 0
      BY DEF NoReply
    <3>. QED
      BY <3>1, <3>2, <3>3 DEF IInv, Far
  <2>3. ASSUME Done
        PROVE  /\ Given.method \in Methods \ {"OPTIONS"}
               /\ Given.method \in {"COPY", "LOCK"} => Given.depth \in {"zero", "infinity"}
               /\ Given.method = "PROPFIND" => Given.depth \in {"zero", "one"}
               /\ Given.method \in {"PUT", "DELETE", "MOVE"} => Given.path # Root
    <3>1. Given = Handed[1] /\ call.method \in Served
      BY <2>3, GivenIs
    <3>2. Given.depth = Depth /\ Given.path = Here.path /\ Given.method = call.method
      BY <3>1 DEF Handed
    <3>3. call.method \in Methods \ {"OPTIONS"}
      BY <3>1 DEF Served, Methods
    <3>. QED
      BY <2>3, <3>2, <3>3, BodyRead DEF AtRoot
  <2>4. ASSUME Done, Given.method \in {"PROPFIND", "PROPPATCH", "LOCK"} PROVE Whole
    BY <2>4, BodyRead, PropfindIs, ProppatchIs, LockIs DEF Whole
  <2>. QED
    BY <2>1, <2>2, <2>3, <2>4 DEF TypeOK
<1>. QED
  BY InitInv, NextInv, <1>1, PTL DEF Spec

=============================================================================
