# A verification of the WebDAV server

This directory models `github.com/go-filesystems/webdav` in TLA+: its locks, its
writing and reading methods as they interleave, and what it reads out of a
request before any of them runs. TLC checks the models on small
instances; TLAPS proves, for instances of every size, the lock table, the writing
methods, the range PUTs, the reading methods and most of what is read out of a
request.

## The system

One `Handler` (server.go) exports one driver filesystem. `net/http` runs each
request in a goroutine of its own; the requests meet in three places.

| State | Kept by | Guarded by |
|---|---|---|
| the tree of directories and files, and its open files | the driver | `Handler.fsmu` |
| the lock table, `byToken` and `byPath` | `lockSystem` (lock.go) | `ls.mu` |
| the tokens, bodies and patience | the clients | nothing |

A handler's life alternates between sections under one of the mutexes and
waiting for its client with neither. The nesting is always of `ls.mu` in `fsmu`:
`releaseTree` takes it with `fsmu` held (DELETE, MOVE, an overwrite), and so does
`find` for the `lockdiscovery` of a listing. Nothing under `ls.mu` calls the driver
or takes `fsmu`. In the models a section under `ls.mu` is one action and `ls.mu` is no
variable, so that a section which took them the other way round would deadlock
cannot be seen in them; it is a matter of reading lock.go 140-306.

### Components

| Component | State and operations | What makes it correct | Model |
|---|---|---|---|
| Lock table (lock.go 108-306) | two maps, a clock; `create`, `refresh`, `unlock`, `releaseTree`, `confirm`, `find`, lazy `sweep` | locks exclude each other; the maps agree; the table is bounded; nobody can tell expiry is lazy | `LockSystem`, `LockTable`, `WriteLocks` |
| Write methods (write.go) | PUT, MKCOL, DELETE, MOVE, COPY: check the locks, act on the tree | no act against a lock that was there first; refusals change nothing; failures keep the tree a tree and the locks of what is left; what is removed takes its locks along | `WebDAVServer` |
| LOCK and UNLOCK (lock.go 355-642) | create the missing resource, then the lock; the If, Timeout and body parsers | a refused LOCK leaves nothing; a lock goes by its token; tokens after `Not` are not submitted; no timeout is over an hour | `WebDAVServer`, `Headers`, `Bodies` |
| Partial PUT (putrange.go) | size, body, grow, write, shrink back, sync | bytes outside the range stay; no bytes nobody sent; a 204 is durable; files get closed | `PutRange` |
| Paths (path.go) | `under`, `parentOf`; `cleanPath`, `resource`, `href`, and `destination` (write.go) | containment, the root included; nothing outside the export can be named; hrefs come back | `Paths`, `UrlPaths` |
| GET, HEAD, index (get.go) | Stat and OpenFile under one hold of `fsmu`, reads with a hold each, the closing with none | all driver calls serialised; one version per answer, under its own tag; files get closed; a slow client holds nobody up | `Driver`, `ReadFile`, `Listing` |
| PROPFIND, PROPPATCH (propfind.go), properties (props.go) | a listing under one hold of `fsmu`, the capacity asked inside it; two body parsers | rows of one moment; every property named has its value (not so: see the runs); names only from where they belong | `Listing`, `Bodies` |
| Dispatch, read-only, authentication (server.go) | one decision per request, no state | nothing runs before it; Allow tells the truth | `FrontEnd`; the goroutines in `WebDAVServer`, `Reading` |
| Status mapping (status.go), FAT32 demo | no state | | not modelled: wording and I/O |
| Driver (external) | tree and files; every operation can fail | | operators of `WebDAVServer`, `PutRange`, `Driver` |

### What is hard here

- A lock is checked before the body is read and before `fsmu` is obtained.
- Expired locks stay in the table, in two maps, until some call sweeps them.
- `confirm` looks at one lock; that is enough only while locks exclude each
  other.
- A recursive DELETE, a COPY or an overwrite can fail half way.
- LOCK changes the tree first and asks the lock table second.
- An appending range PUT goes by a size that is as old as its upload is slow.
- Process death between any two steps; a power cut before a sync.
- A client that never finishes its upload, or never takes its download.
- A driver with one seek position under many readers, and `fsmu` given back
  between two reads of one body.
- A listing that asks a callback for the capacity, more than once, while it runs.
- Flags over a token stream: `Not`, `<prop>`, and documents that break off.

PROJECT.json lists each hazard with its line and the properties aimed at it.

## The modules

`Paths` — path.go's containment questions over paths as sequences of
components (`"/"` is `<< >>`), and where a MOVE takes a member to (`Rebase`).

`LockSystem` — the lock table as a value: a record of `byToken` (token to lock)
and `byPath` (path to token; in the code both maps hold the same pointer), and
one operator per thing a method computes: `Sweep`, `Conflict`, `Insert`,
`Refreshable`, `Extend`, `Unlock`, `ReleaseTree`, `Confirms`. `Conflict`
returns the set of locks the Go function may return, since a map's order is
not determined.

`LockTable` — the table as a state machine: one action for each outcome of each
method, every method whole under `ls.mu`; plus `Tick` and `Restart`. The
variable `answer` records the last call and what it returned; `issued` the
tokens ever minted, which clients may submit long after.

`WriteLocks` — the abstract specification: a set of held locks, each gone the
moment its time is up, and the answer every call must give. `LockTable`
implements it with `held <- Held`, the locks a sweep would keep.

`PathProofs`, `LockSystemProofs` — lemmas about paths and about the lock table as a
value. `LockTableProofs` — the table's theorems.
`WebDAVServerProofs` — what the driver calls do to a tree, and the writing
methods' theorems. `PutRangeProofs`, `ReadingProofs` — the theorems of `PutRange` and
`Reading`. `FrontEndProofs` — the theorems of `FrontEnd`, with what it takes to
reason about folds; `BodyProofs` — those that need the parsers of `Bodies`.

`WebDAVServer` — concurrent requests over one tree and one lock table. A
request is a record with a program counter; a section under one mutex is one
action. `fsmu` is a variable because DELETE, MOVE and COPY hold it while they
take `ls.mu`.

| Handler | Steps |
|---|---|
| PUT | `CheckPasses`, `PutStat`, `BodyArrives`, `PutWrite` |
| MKCOL | `CheckPasses`, `MkcolNoBody`, `Mkcol` |
| DELETE | `CheckPasses`, `DeleteAll` or `DeletePartly`, `ReleaseSource` |
| MOVE | `CheckPasses` twice, `PrepareFresh` or `PrepareOverwrite` and `ReleaseDestination`, `Rename`, `ReleaseSource` |
| COPY | `CheckPasses`, the same preparation, `Copy` or `CopyPartly` |
| LOCK | `LockStat`, `LockGranted` |
| refresh, UNLOCK | `RefreshLock`, `UnlockLock` |

The tokens of the If header are a subset of those the client has been told.
Driver errors that are passed on are all 500. The set `Unreliable` says where
the driver may fail; a recursive removal or copy then fails on any subset of
those members (`Stuck`), with what the code leaves behind: removal keeps a
member and the directories above it, a copy stops beneath what failed, and a
file may be left half copied (`left`, a part of `Uncopied`).

A 207 carries `rows`, the members it names: `Unremoved` follows removeTree's
recursion, `Survivors` says in closed form what it leaves, and
`RowsTellWhatIsLeft` compares the two.

`PutRange` — one file and its range PUTs. A byte is the name of its sender, so
the model tells sent bytes from grown ones (`Zero`). The section after the body
is three steps under `fsmu` (`Grow`, `Fill`, `SyncAndClose`) because the process
may die between them. `disk` is what a power cut leaves, changed by `Sync`
only: the weakest disk there is. Numbers wrap at `MaxInt` as int64 does.
Deleting a file while it is open depends on the driver and is left out.

`Driver` — what the reading methods share: one exported directory, the driver's
one seek position, `fsmu`, the open files, the capacity, and the writers as
single sections under `fsmu`. A byte is its version and its place in it.

`ReadFile` — GET of a file: `Info` and `Open` under one hold of `fsmu`, then
`ServeContent` picks any interval, HEAD and 304 the empty one; each byte is a
`ReadAt` and a `ReadDone` under `fsmu` and a `ClientTakes` without; `Close`, a
step of its own because nothing is held. Without `Opener` the bytes are a copy;
a host file is read past the driver, and may have been replaced or written in
place.

`Listing` — PROPFIND and the index, row by row: `Self`, `Respond`, `PropValue`
for each quota value, `ListDir`, then `WriteRows` and `ClientTakesRows` with
`fsmu` still held. PROPPATCH is one look at the resource.

`Reading` — the two together, with writers: `Init`, `Next`, the fairness and the
properties that speak of both.

`UrlPaths`, `Headers`, `Bodies` — pure functions, each beside a definition to
compare it with. A URL path is the parts between its slashes; `Staying` says,
without a stack, which of them no `..` takes away. An If header is the sequence
of what `submittedTokens` meets; `Stated` and `Tags`
read the tokens and the tags off the grammar, lists of conditions with or without a
Resource-Tag before them. A
document is its elements in order with their depths; the parsers are folds over
the tokens `xml.Decoder` would return, `NamesIn` looks names up in the tree.

`FrontEnd` — one request to one Handler: `Authorise`, `RefuseCleartext` or
`Verify`, `Find`, `Dispatch`, then `RefuseCall` or `HandOn`. `handed` is what the
handlers of the other modules are called with, and its `TypeOK` is what they take
for granted. Of a timeout nothing is granted but that it is an integer: it may be
negative, and `LockTable` and `WebDAVServer` take any. Lock checks, which some handlers make between two of these
questions, are WebDAVServer's.

`MCLockTable`, `MCWebDAVServer`, `MCPutRange`, `MCReading`, `MCFrontEnd` — the
instances.

## The runs

| Run | Instance | Shows |
|---|---|---|
| `locks` | `/`, `/a`, `/a/b`; 3 tokens; 2 locks at most; timeouts -1, 0 and 1; clock to 1 | `TypeOK`, `IndexesAgree`, `Exclusive`, `Bounded`, `ImplementsWriteLocks` |
| `server` | 2 clients, 2 tokens; PUT `/a/b`, DELETE `/a`, deep LOCK `/a`, LOCK `/c`, UNLOCK and refresh of `/a`, MOVE `/a` to `/c`; the driver may fail on `/a/b`; locks of no time, clock to 1 | `TypeOK`, `ActsWithinLocks`, `ReleasedOnlyWhenGone`, `LocksGoWithTheirResource` |
| `tree` | 2 clients, no locks; PUT `/` and `/a/b`, MKCOL `/a/b`, DELETE `/a`, COPY `/a` to `/c` and `/a/b` to `/a` and `/c`, MOVE `/a/b` to `/a` and `/a` to `/c`; the driver may fail on `/a`, `/a/b` and `/c` | `RefusalsChangeNothing`, `RowsTellWhatIsLeft`, `StalledUploadsBlockNobody` |
| `put_range` | 2 clients; a file of 1 byte; ranges 0-1 and 1-1, two malformed ones (1-0, 0-1/1), and two that end at the largest integer (7 here), from 0, where the length overflows, and from 1; bodies up to 2; plain PUTs of 0 and 1 bytes | `TypeOK`, `HandlesClosed`, `RefusalsChangeNothing`, `AcknowledgedIsDurable`, `NoUnsentBytes` |
| `reading` | 2 clients; one name, two versions of 2 and 1 bytes; both kinds of driver; GET, allprop and index, depth 0 and 1; writers and the capacity at any time | `TypeOK`, `OneVersion`, `TagOfTheBody`, `HandlesClosed`, `RowsOfOneMoment`, `StalledBodiesBlockNobody` |
| `front_end` | see below | `TypeOK`, `OnlyTheAuthorised`, `AllowTellsTheTruth`, `PathsAreClean`, `HrefsComeBack`, `TokensAsStated`, `BodiesAsWritten`, `TimeoutsAreCapped` |
| `lock_writes_beneath` | 2 clients, 2 tokens; LOCK and DELETE `/a/b`, deep LOCK and DELETE `/a`; reliable driver | violates `DeepLocksBlockNewMembers` |
| `delete_takes_locks` | the same | violates `LocksGoOnlyByToken` |
| `range_truncates` | as `put_range`, ranges 0-0 and 0-1 | violates `LeavesTheRest` |
| `close_unserialised` | as `reading`, no fairness | violates `DriverCallsSerialised` |
| `timeout_overflow` | as `front_end` | violates `LockTimeoutAsAsked` |
| `names_without_values` | as `reading`, 1 client, no fairness | violates `NamedPropertiesHaveValues` |

Why the bounds are enough. The lock table compares at most two locks with one
request; the paths of `locks` are a path, its parent and its grandparent, so
every chain `conflict` can ask about occurs; paths that have nothing to do with
each other are in `server` (`/a` and `/c`). A third token lets a lock be replaced
after it expired. A tick is enough for a lock to expire,
timeouts 0 and 1 for one to outlive another, and -1 for one that has expired when
it is granted, which is what an overflow in `parseTimeout` grants
(`timeout_overflow`). `server` has the timeout 0 only; its theorems hold for every
integer. Two clients are enough for every
pair of sections to interleave; each may send any number of requests, one
after the other. In `put_range` two requests and the plain PUTs make the file
longer and shorter than either request saw it. In `reading` a body of two bytes
has a moment between its reads, and a writer can replace, shorten or remove the
file in it; the two versions differ in every byte; `Asks` is `allprop`, the one
request that names and then asks, and the index, which does neither.

`front_end` varies one part of a request at a time, the others plain: every
method, link and credential under all 32 configurations; every path of up to
four parts from `""`, `.`, `..`, two names and a part with a NUL, as the request's
and as the Destination's, with and without a prefix; every spelling of Depth and
Overwrite; two timeouts of any number of seconds up to the largest integer (31,
with a second of 4, so a product wraps round four times); If headers of one or two
lists and up to three conditions in a list, untagged, under one tag or under two,
and broken ones; documents of up to four
elements, in a PROPPATCH five, with the names a parser knows and one it does not,
whole or cut off. A
`..` needs two names before it to be told from a reset, `Not` needs two conditions
after it, and a property beneath two containers of a PROPPATCH is the fifth
element.
It stops after one exchange, so deadlock is not checked. The bounds are `MaxTime`, the
finite `Token` (a run ends up with no token to mint, where the CSPRNG never
does) and `MaxLocks`; the theorems hold for all of them.
Two clients' requests are symmetric where no liveness is checked.

### What the failing runs show

- `DeepLocksBlockNewMembers` (lock.go:46-47). A holds `/a` to infinity. B sends
  LOCK for the missing `/a/b`: `serveLock` writes the file, then asks, and
  answers 423. The file stays.
- `LocksGoOnlyByToken` (README.md:195-196). A holds `/a/b`. B sends `DELETE /a`
  with no token: the check looks at `/a` and above, the removal and
  `releaseTree` at everything beneath. A's file and lock are gone.
- `LeavesTheRest` (putrange.go:98-99, README.md:184). Two appends see the file
  empty. One writes two bytes. The other, one byte long, then truncates the
  file to one byte. The same happens to a client that sends a piece again
  after a timeout when the first copy is still on its way: the pieces that
  followed are cut off.

- `DriverCallsSerialised` (server.go:93). A GET is at its end and calls its
  closer with nothing held (get.go:47), while another request is inside the
  driver under `fsmu`. A partial PUT closes its file under `fsmu`.
- `LockTimeoutAsAsked` (lock.go:430). `Second-9223372037` and more overflow
  `time.Duration` before the comparison with the cap. Often the product is
  negative, and the lock that was granted has expired.
- `NamedPropertiesHaveValues` (propfind.go:260-263, "a branch in this loop that no
  request could reach"; server.go:158-159, "once per collection"). `propNames` asks
  the capacity and names both quota properties; `WithCapacityFunc`'s function then
  answers 0, "unknown"; `propValue` has no value for them, which `allProps` does not
  look at. The row has two properties without a name in its body.

Other differences between the code and its documents, on which no run is spent:

- README.md:198 says a request for a shared lock is refused; `parseLock` skips
  `lockscope` (lock.go:505-510) and `serveLock` grants an exclusive lock. `Bodies`
  has it; one request shows it.
- The capacity function runs three times per collection, with `fsmu` held
  (propfind.go:248, 330), where server.go:158-159 says once and outside the lock.
- `PROPFIND` and the index write to their client with `fsmu` held
  (`StalledBodiesBlockNobody` makes the exception).
- `Not` before an entity tag swallows the token after it, and the Resource-Tag of
  a tagged list is collected like a token (`TokensAsStated` states both). The list's
  tokens count for whatever the request names, not for what the tag names.
- The comment at putrange.go:118-123 says a range PUT never extends the file; the
  code appends (putrange.go:161, 193-199), and README.md:166 says so.

## Fairness

`tree` and `reading` check liveness, each under its `FairSpec`: strong fairness of
each request's server-side steps (`Serve`). It is what `sync.Mutex` gives: a waiter
of more than a millisecond is handed the mutex, so a section that is possible
again and again is entered. Nothing is assumed of clients (`Await`): a body may
never come. `StalledUploadsBlockNobody` says that every request is then either
answered or waiting for its own client's body. In `tree` the delivery of a response is under fairness too: those responses are
taken to fit into the connection's buffers. In `reading` bodies and listings are
not: `ClientTakes` and `ClientTakesRows` are the client's, and
`StalledBodiesBlockNobody` says that a request is answered, or waits for its own
client, or for the client of a listing.

## What is proved

The theorems hold for every value of the constants that the named ASSUMEs allow;
TLC evaluates those on the instances.

### The lock table

For every `Name`, `Token`, set `Timeouts` of integers, `MaxTime`, `MaxLocks` and every set of
resources that is closed under `ParentOf` (`LockSystem`'s and `LockTable`'s four
ASSUMEs):

| Theorem of `LockTableProofs` | States |
|---|---|
| `TypeCorrect` | `Spec => []TypeOK` |
| `IndexesAlwaysAgree` | `Spec => []IndexesAgree` |
| `AlwaysExclusive` | `Spec => []Exclusive` |
| `AlwaysBounded` | `Spec => []Bounded` |
| `Implementation` | `Spec => ImplementsWriteLocks` |

The inductive invariant is the conjunction of typing, agreement of the maps,
exclusion, the bound and the finiteness of the table. None of them is inductive
alone: `sweep` deletes from `byPath` by the path a lock names, which removes
the right entry only if the maps agree; a new lock keeps exclusion only
because `conflict`, which reads `byPath`, sees every lock of `byToken`; and the
bound is about `byToken`, from which entries go by way of `byPath`. The proof
groups the calls: one that only removes locks leaves a part of the table
(`SweepIsPart`, `UnlockIsPart`, `ReleaseIsPart`, `PartSound`); one that adds a
lock needs `NoConflict` (`InsertSound`); a refresh changes no path
(`ExtendSound`).

`Implementation` rests on two facts. Comparable ancestors with exclusive locks
mean that at most one lock covers a path (`OneLockCovers`), so `confirm`'s look
at the one lock that `conflict` finds is exact (`ConfirmExact`). And the locks
of a swept table are the locks in force (`HeldIsSwept`), so a step that sweeps
and does nothing else is a stutter on them.

### The writing methods

For any number of clients, any calls (`RequestsAssumption`: where the paths are
bounded, what a MOVE or COPY moves has to have a place among them), any tree the
server is started on (`InitTreeAssumption`: of whatever size, with a deepest
member) and any set of paths on which the
driver may fail, with crashes and expiring locks:

| Theorem of `WebDAVServerProofs` | States |
|---|---|
| `TypeCorrect` | `Spec => []TypeOK`, the tree's shape with it |
| `WithinLocks` | `Spec => []ActsWithinLocks` |
| `RefusalsAreClean` | `Spec => []RefusalsChangeNothing` |
| `ReleaseIsRight` | `Spec => ReleasedOnlyWhenGone` |
| `LocksFollow` | `Spec => LocksGoWithTheirResource` |
| `RowsAreRight` | `Spec => RowsTellWhatIsLeft` |
| `Inductive` | `Spec => []IInv` |

`IInv` is `TypeInv /\ MutexInv /\ TreeInv /\ DepthInv /\ GuardInv`. `TypeInv` has the lock
table's soundness in it: a check confirms what `conflict` finds, which is every
lock that covers the target only in a sound table. `MutexInv` says between which
steps a request has `fsmu`; without it another request could put a resource
back between its removal and the release of its locks. `TreeInv` is the tree's
shape, with two facts about requests that have `fsmu`: what is about to be
released is gone, and a destination is free, in a directory and not beneath its
source when something is about to be moved there. `GuardInv` says of each request
what its checks established: every lock that covers a resource they asked about,
and was granted before the request arrived (`since`), has its token submitted. It
stays true because a lock can only go or be extended (`CoveringShrinks`), and it
needs the two checks of a MOVE kept apart (`Guarded`). The lemmas about the driver's
calls show that a removal and a copy, whatever fails in them, leave a tree:
survivors keep the directories above them, and copies come with theirs.

`RowsAreRight` is about a recursion, removeTree's. Its answer is given in closed
form (`Named`: a collection that could not be listed, or what failed with no
failure beneath it, and neither beneath a collection that could not be listed).
`FailuresExist` and `FailuresAreNamed` show that this is a solution of `Unremoved`'s
recursion and the only one: where another differed there would be a lowest
member where it does, and it agrees on that one's children. That is the
induction, by the least-number principle (`LeastNumber`, `Longest`), and it is why
`DepthInv` is there: every tree the server makes has some greatest depth.
`RemovalTells` then compares `Named` with `Survivors`, and `CopyTells` finds above
anything not copied the topmost failure.

### Range PUTs

For any clients, any Content-Range an int64 can spell (`HeadersAssumption`), any
initial size and `MaxBody` below `MaxInt` (`PutRangeAssumption`), with crashes and
power cuts:

| Theorem of `PutRangeProofs` | States |
|---|---|
| `TypeCorrect` | `Spec => []TypeOK`, no length overflows past its check |
| `EveryHandleCloses` | `Spec => []HandlesClosed` |
| `RefusalsAreClean` | `Spec => []RefusalsChangeNothing` |
| `AckSurvives` | `Spec => []AcknowledgedIsDurable` |
| `UnsentExplained` | `Spec => []NoUnsentBytes` |
| `Inductive` | `Spec => []IInv` |

`IInv` is `TypeInv /\ HandlesClosed /\ MutexInv /\ AckInv /\ ByteInv`. `AckInv`
says of every request that was answered 204: where the file still shows its
bytes, the disk does. Only a sync answers 204, and nobody writes bytes of an
answered request. `ByteInv` says that an append between its two halves finds the
file it made, that, until something excuses them (`disturbed`), unsent bytes lie
only where such an append is about to write, and that none has reached the disk;
`MutexInv` keeps other writers from between the halves.

### The reading methods

For any number of clients and names, versions of any length (`DriverAssumption`),
with and without `Opener` and host files:

| Theorem of `ReadingProofs` | States |
|---|---|
| `TypeCorrect` | `Spec => []TypeOK`, who has `fsmu` at every step |
| `BodiesOfOneVersion` | `Spec => []OneVersion` |
| `TagsFit` | `Spec => []TagOfTheBody` |
| `EveryFileCloses` | `Spec => []HandlesClosed` |
| `ListingsOfOneMoment` | `Spec => []RowsOfOneMoment` |
| `Inductive` | `Spec => []IInv` |

`IInv` is `TypeInv /\ MutexInv /\ HandlesInv` and, for every client, `View`: what its
request has taken from the tree is still so. A request that has opened its file
has that file's tag; one inside a read has the driver's seek position where it
put it (`MutexInv` keeps the others out); the bytes sent are bytes opened, place
by place, as long as nobody wrote; the rows of a listing are of the directory as
it is now. The proof
has one step lemma per action (`Goes`: the others and the directory stay, this
request's own view holds again), and two for what readers do not do themselves
(`BecomesKeeps`, `CapacityKeeps`).

### What is read out of a request

For every set of requests (`ExchangesAssumption`: the options `New` accepts, and
what `net/http` delivers), whatever a second, the cap and the largest integer are
(`TimesAssumption`), for a longest path of any length (`NulAssumption`: a part
with a NUL is none of `""`, `.` and `..`):

| Theorem of `FrontEndProofs` or `BodyProofs` | States |
|---|---|
| `OnlyForTheAuthorised` | `Spec => []OnlyTheAuthorised` |
| `AllowIsTrue` | `Spec => []AllowTellsTheTruth` |
| `TimeoutsAlwaysCapped` | `Spec => []TimeoutsAreCapped` |
| `HrefsAlwaysComeBack` | `Spec => []HrefsComeBack` |
| `PathsAlwaysClean` | `Spec => []PathsAreClean` |
| `TokensAlwaysAsStated` | `Spec => []TokensAsStated` |
| `BodiesAlwaysAsWritten` | `Spec => []BodiesAsWritten` |
| `TypeCorrect` | `Spec => []TypeOK` |

A request and its Handler's options never change. `IInv` says what an exchange
has got through at each of its steps (`Far`), that a verifier was only asked over
a link that keeps a secret, and that `Allow` is honest; the rest is about
functions. `cleanPath` is a fold, and a fold is the end of a run, what the loop
has after each of its turns (`FoldRuns`, `FoldExists`): what holds at the start and
is kept by a turn holds at the end (`EveryTurn`). For `PathsAlwaysClean` it is that what the
loop has after turn k are the names that stay among the first k parts, each kept
at its rank (`CleanShadow`, `Ranks`): a `..` takes away the last of them, which is
the one that has as many pushes as pops after it. For `TokensAlwaysAsStated` it is that
a header spells each tag and each condition at a place of its own, with a `Not`
before it or without (`HeaderSpells`; a tag is to the parser a token that is not
negated, `Coded`), and that the tokens met so far are of those, all of them if no
negated entity tag is about (`Known`).

`BodiesAlwaysAsWritten` relates a loop over tokens to a tree. The parser has two
flags and a counter; `Stands` says what they tell of the path of the elements that
are open: each is descended into, or one is listed and the rest skipped, or one is
skipped with all in it. A start keeps this when its element joins the path
(`StandsPush`), an end when one leaves it (`StandsPop`). `Layout` says where the tokens
of each element lie among all of them, its start and then the ends up to the next
one. So the proof goes from element to element: after each, what the parser has
gathered are the names of the elements so far that are directly where its method
reads (`Gathered`, `WalkIs`), which are the places of `BodiesAsWritten` (`InPropfind`,
`InProppatch`), and a counted set of places lists its names in one order only
(`NamesInIs`). A document that breaks off ends in an error the parser keeps, which
`TypeCorrect` needs for a body being read to its end.

### Only model-checked

Liveness (`StalledUploadsBlockNobody`, `StalledBodiesBlockNobody`): fairness is beyond
the provers. Every invariant and action property of a passing run is a theorem.

## Not modelled

- `status.go`: which status a driver's error text maps to. Driver errors are
  one answer in the models, and no property depends on which.
- XML, HTML and percent-encoding of responses; the DAV and WWW-Authenticate
  headers; media types; times, since no driver reports any.
- A crash in the middle of `removeTree` or `copyTree`: a process dies before or
  after one. What it would leave is what a partial failure leaves (`DeletePartly`,
  `CopyPartly`), with no lock table.
- The properties of an allprop other than the quota names: their values are of the
  same `Stat` the names are of.
- A second root element of a body, which `xml.Decoder` goes on to read.
- `net/http`: `ServeContent`'s ranges and preconditions (any interval here), and
  its buffering.
- What a listing says of locks: `lockdiscovery` is `LockTable`'s `Find`, asked under
  `ls.mu` while `fsmu` is held. A lock's owner, and the unsynchronised read of its
  timeout in `activeLockXML` (lock.go:332).
- A driver that panics, and the deletion of a file while a partial PUT has it
  open.
- `fat32demo`: sequential I/O around a Handler.

## The plan

1. Done: the models, and the theorems above.
2. Next: `lockdiscovery` in a listing, against LOCK and refresh.
