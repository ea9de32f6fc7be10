------------------------------ MODULE UrlPaths ------------------------------
(***************************************************************************)
(* From a URL path to a path of the export, and back (path.go:13-111,      *)
(* write.go:265-290).  A URL path is the sequence of the parts between its *)
(* slashes, after net/url has decoded them: "/a/" is << "", "a", "" >>.    *)
(***************************************************************************)
EXTENDS Paths, SequencesExt

CONSTANTS
    MaxPath,     \* maxPath, the longest path, in bytes
    Nul          \* a part with a NUL in it

\* What is between two slashes in a row, and at the ends.
Empty   == ""
Ignored == {Empty, "."}
Up      == ".."

ASSUME NulAssumption == Nul \in STRING \ (Ignored \cup {Up})

\* Mutant of CleanPath: one ".." leads nowhere, two in a row do not.
CleanPathUnclamped(p) ==
    FoldLeft(LAMBDA out, part :
                CASE part \in Ignored -> out
                  [] part = Up /\ out # Root /\ Last(out) # Up -> Front(out)
                  [] OTHER -> Append(out, part), Root, p)

\* The loop over the parts, with what it has kept.
Resolve(out, part) ==
    CASE part \in Ignored -> out
      [] part = Up -> IF out = Root THEN Root ELSE Front(out)
      [] OTHER -> Append(out, part)

CleanPath(p) == FoldLeft(Resolve, Root, p)

\* The bytes of a path whose components have one letter each.
PathLength(path) == IF path = Root THEN 1 ELSE 2 * Len(path)

Mount(prefix) == << Empty >> \o prefix

\* Mutant of Resource: a path outside the prefix is served from the root.
ResourceUnmounted(prefix, p) ==
    LET inside == IF Under(Mount(prefix), p) THEN SubSeq(p, Len(Mount(prefix)) + 1, Len(p)) ELSE p
        path   == CleanPath(inside)
    IN  [ok |-> Nul \notin ToSet(p) /\ PathLength(path) <= MaxPath, path |-> path]

Resource(prefix, p) ==
    LET inside == SubSeq(p, Len(Mount(prefix)) + 1, Len(p))
        path   == CleanPath(IF prefix = << >> THEN p ELSE inside)
    IN  [ok   |-> /\ Nul \notin ToSet(p)
                  /\ prefix # << >> => Under(Mount(prefix), p)
                  /\ PathLength(path) <= MaxPath,
         path |-> path]

\* Mutant of Href: the prefix is left to the client.
HrefUnprefixed(prefix, path, collection) ==
    << Empty >> \o path \o (IF collection \/ path = Root THEN << Empty >> ELSE << >>)

Href(prefix, path, collection) ==
    Mount(prefix) \o path \o (IF collection \/ path = Root THEN << Empty >> ELSE << >>)

\* The Destination header: a URL with or without a host, or no URL.
Destination(prefix, d) ==
    LET r == Resource(prefix, d.path)
    IN  [path   |-> r.path,
         status |-> IF d.host \in {"missing", "unparsed"} THEN 400
                    ELSE IF d.host = "other" \/ ~r.ok THEN 502 ELSE 0]

-----------------------------------------------------------------------------
(* Definitions to compare with. *)

Count(p, i, j, parts) == Cardinality({k \in i..j : p[k] \in parts})

\* A name stays in a path when no ".." that follows takes it away: whatever
\* comes after it pushes at least as much as it pops.
Stays(p, i) ==
    /\ p[i] \notin Ignored \cup {Up}
    /\ \A j \in i + 1..Len(p) :
          Count(p, i + 1, j, {Up}) <= (j - i) - Count(p, i + 1, j, {Up} \cup Ignored)

\* The names that stay, in their order.
Staying(p) ==
    LET at == {i \in 1..Len(p) : Stays(p, i)}
    IN  [n \in 1..Cardinality(at) |->
            p[CHOOSE i \in at : Cardinality({j \in at : j <= i}) = n]]

=============================================================================
