------------------------------ MODULE Headers ------------------------------
(***************************************************************************)
(* The Depth, Overwrite, Timeout and If headers (propfind.go:34-47,        *)
(* write.go:293-302, lock.go:367-455).                                     *)
(***************************************************************************)
EXTENDS Integers, SequencesExt

CONSTANTS
    Second,          \* time.Second, as a time.Duration
    MaxTimeout,      \* maxLockTimeout
    DefaultTimeout,  \* defaultLockTimeout
    MaxInt           \* the largest int64, a power of two less one

ASSUME TimesAssumption ==
    /\ Second \in Nat \ {0}
    /\ MaxInt \in Nat
    /\ MaxTimeout \in 0..MaxInt
    /\ DefaultTimeout \in 0..MaxTimeout

\* A Depth in the words it is spelt with; no header is infinity.
ParseDepth(v) ==
    CASE v \in {"", "infinity"} -> "infinity"
      [] v = "0" -> "zero"
      [] v = "1" -> "one"
      [] OTHER -> "bad"

Overwrite(v) ==
    CASE v \in {"", "T"} -> "yes"
      [] v = "F" -> "no"
      [] OTHER -> "bad"

-----------------------------------------------------------------------------
(* Timeout: alternatives, each << "Infinite" >>, << "Second", n >> or      *)
(* something else.  The first that can be read is granted.                 *)

Wrap(n) == ((n + MaxInt + 1) % (2 * (MaxInt + 1))) - MaxInt - 1

\* Atoi fails on a number that does not fit.
Readable(part) ==
    \/ part[1] = "Infinite"
    \/ part[1] = "Second" /\ part[2] \in 1..MaxInt

Duration(part) == Wrap(part[2] * Second)

\* Mutant of ParseTimeout: the second of two alternatives is not capped.
ParseTimeoutUncapped(v) ==
    LET i == SelectInSeq(v, Readable)
    IN  IF i = 0 THEN DefaultTimeout
        ELSE IF v[i][1] = "Infinite" \/ (i = 1 /\ Duration(v[i]) >= MaxTimeout) THEN MaxTimeout
        ELSE Duration(v[i])

ParseTimeout(v) ==
    LET i == SelectInSeq(v, Readable)
    IN  IF i = 0 THEN DefaultTimeout
        ELSE IF v[i][1] = "Infinite" \/ Duration(v[i]) >= MaxTimeout THEN MaxTimeout
        ELSE Duration(v[i])

-----------------------------------------------------------------------------
(* If: a header is the sequence of what submittedTokens meets in it, a     *)
(* coded URL << "<>", t >>, Not, an entity tag, a bracket that is not      *)
(* closed, and the rest.                                                   *)

Reading(out, not, stopped) == [out |-> out, not |-> not, stopped |-> stopped]

\* Mutant of Meet: an entity tag ends a Not, a token does not.
MeetNotLasting(s, item) ==
    IF s.stopped THEN s
    ELSE CASE item[1] = "<>"  -> Reading(IF s.not THEN s.out ELSE Append(s.out, item[2]), s.not, FALSE)
           [] item[1] = "Not" -> Reading(s.out, TRUE, FALSE)
           [] item[1] = "cut" -> Reading(s.out, s.not, TRUE)
           [] OTHER           -> s

Meet(s, item) ==
    IF s.stopped THEN s
    ELSE CASE item[1] = "<>"  -> Reading(IF s.not THEN s.out ELSE Append(s.out, item[2]), FALSE, FALSE)
           [] item[1] = "Not" -> Reading(s.out, TRUE, FALSE)
           [] item[1] = "cut" -> Reading(s.out, s.not, TRUE)
           [] OTHER           -> s

SubmittedTokens(header) == FoldLeft(Meet, Reading(<< >>, FALSE, FALSE), header).out

(* The grammar of RFC 4918, section 10.4, to compare with: lists of        *)
(* conditions, and before a list the Resource-Tag of what it is about.     *)

Cond == [not : BOOLEAN, kind : {"<>", "[]"}, value : STRING]
IfPart == [kind : {"tag"}, url : STRING] \cup [kind : {"list"}, conds : Seq(Cond)]

\* A tag has blanks around it.
Written(part) ==
    IF part.kind = "tag" THEN << << "blank" >>, << "<>", part.url >>, << "blank" >> >>
    ELSE << << "(" >> >> \o
         FlattenSeq([i \in 1..Len(part.conds) |->
             (IF part.conds[i].not THEN << << "Not" >> >> ELSE << >>)
             \o << << part.conds[i].kind, part.conds[i].value >> >>])
         \o << << ")" >> >>

Header(parts) == FlattenSeq([i \in 1..Len(parts) |-> Written(parts[i])])

OfKind(parts, kind) == {p \in ToSet(parts) : p.kind = kind}
Conditions(parts)   == UNION {ToSet(l.conds) : l \in OfKind(parts, "list")}
Tags(parts)         == {t.url : t \in OfKind(parts, "tag")}
Stated(parts)       == {c.value : c \in {d \in Conditions(parts) : d.kind = "<>" /\ ~d.not}}
NegatedEntityTag(parts) == \E c \in Conditions(parts) : c.kind = "[]" /\ c.not

=============================================================================
