--------------------------- MODULE FrontEndProofs ---------------------------
(***************************************************************************)
(* Theorems about what a Handler does with a request before a method runs. *)
(* The request and the options never change, so that each theorem is two   *)
(* things: what is known when a step of the exchange is reached, and what  *)
(* the functions of the headers, paths and bodies then give.               *)
(***************************************************************************)
EXTENDS FrontEnd, PathProofs, FiniteSetTheorems

-----------------------------------------------------------------------------
(* What is known at each step. *)

Handed == << [method |-> call.method, path |-> Here.path, dst |-> Dest.path,
              depth |-> Depth, overwrite |-> Overwrite(call.overwrite),
              tokens |-> SubmittedTokens(call.ifs),
              timeout |-> ParseTimeout(call.timeout), body |-> Parsed] >>

Served == Methods \ {"OPTIONS"}

Authorised ==
    Protected => \E c \in asked : /\ c[2] = "accepted"
                                  /\ IF c[1] = "Basic" THEN conf.basic ELSE conf.bearer

\* How far the exchange is, and what it has got through.
Undecided == handed = << >> /\ reply = NoReply
Far ==
    \/ pc = "authorise" /\ Undecided /\ asked = {}
    \/ pc = "resource" /\ Undecided /\ Authorised
    \/ pc = "dispatch" /\ Undecided /\ Authorised /\ Here.ok
    \/ pc = "read" /\ Undecided /\ Authorised /\ Here.ok /\ call.method \in Served
    \/ pc = "done" /\ handed = << >> /\ reply.status # 0
    \/ pc = "done" /\ handed = Handed /\ reply = NoReply /\ Authorised /\ Here.ok
       /\ call.method \in Served /\ Refusal = 0

Honest == reply.allow # {} => (call.method \in reply.allow <=> call.method = "OPTIONS")

IInv ==
    /\ conf \in Conf
    /\ call \in Call
    /\ asked # {} => Confidential
    /\ Far
    /\ Honest

LEMMA InitInv == Init => IInv
<1> SUFFICES ASSUME Init PROVE IInv
  OBVIOUS
<1>1. conf \in Conf /\ call \in Call
  BY ExchangesAssumption DEF Init
<1>2. Far
  BY DEF Init, Far, Undecided
<1>3. Honest
  BY DEF Init, Honest, NoReply
<1>. QED
  BY <1>1, <1>2, <1>3 DEF IInv, Init

\* Nothing the steps go by changes.
LEMMA Still ==
    ASSUME conf' = conf, call' = call
    PROVE  /\ Here' = Here /\ Dest' = Dest /\ Methods' = Methods /\ Served' = Served
           /\ (Confidential <=> Confidential') /\ (Protected <=> Protected')
           /\ Shown' = Shown /\ (CredentialsOK <=> CredentialsOK')
           /\ Refusal' = Refusal /\ Handed' = Handed
<1>1. Here' = Here /\ Dest' = Dest /\ Methods' = Methods /\ Served' = Served
  BY DEF Here, Dest, Methods, Served
<1>2. (Confidential <=> Confidential') /\ (Protected <=> Protected')
  BY DEF Confidential, Protected
<1>3. Shown' = Shown /\ (CredentialsOK <=> CredentialsOK')
  BY DEF Shown, CredentialsOK
<1>4. Depth' = Depth /\ Parsed' = Parsed /\ (AtRoot <=> AtRoot')
  BY <1>1 DEF Depth, Parsed, AtRoot
<1>5. LockRefusal' = LockRefusal
  BY <1>4 DEF LockRefusal
<1>6. Refusal' = Refusal
  BY <1>1, <1>4, <1>5 DEF Refusal
<1>7. Handed' = Handed
  BY <1>1, <1>4 DEF Handed
<1>. QED
  BY <1>1, <1>2, <1>3, <1>6, <1>7

\* Who is still authorised, as long as no verifier forgets whom it was asked about.
LEMMA StillAuthorised ==
    ASSUME conf' = conf, call' = call, asked' = asked, Authorised
    PROVE  Authorised'
  BY DEF Authorised, Protected

LEMMA HandedIsSome == Handed # << >>
<1>1. Len(Handed) = 1
  BY DEF Handed
<1>. QED
  BY <1>1, EmptySeq

LEMMA Refused ==
    ASSUME NEW n, n # 0
    PROVE  Status(n).status # 0 /\ Status(n).allow = {} /\ Allowing(n).status # 0
           /\ Allowing(n).allow = Methods
  BY DEF Status, Allowing

LEMMA NextInv == IInv /\ [Next]_vars => IInv'
<1> SUFFICES ASSUME IInv, [Next]_vars PROVE IInv'
  OBVIOUS
<1>1. conf' = conf /\ call' = call
  BY DEF Next, vars, Authorise, RefuseCleartext, Verify, Find, Dispatch, RefuseCall, HandOn,
         Refuse, Proceed
<1>2. conf' \in Conf /\ call' \in Call
  BY <1>1 DEF IInv
<1>. USE <1>1
<1>3. CASE Authorise
  <2>1. Far'
    BY <1>3 DEF IInv, Far, Authorise, Proceed, Undecided, Authorised, Protected
  <2>. QED
    BY <1>2, <1>3, <2>1, Still DEF IInv, Honest, Authorise, Proceed
<1>4. CASE RefuseCleartext
  <2>1. reply' = Status(426) /\ pc' = "done" /\ asked' = asked /\ handed' = handed
    BY <1>4 DEF RefuseCleartext, Refuse
  <2>2. pc = "authorise"
    BY <1>4 DEF RefuseCleartext
  <2>3. handed = << >>
    BY <2>2 DEF IInv, Far, Undecided
  <2>4. Far'
    BY <2>1, <2>3, Refused DEF Far
  <2>. QED
    BY <1>2, <2>1, <2>4, Still, Refused DEF IInv, Honest
<1>5. CASE Verify
  <2>1. /\ Confidential /\ asked' = asked \cup Shown /\ handed' = handed
        /\ handed = << >> /\ reply = NoReply
    BY <1>5 DEF IInv, Verify, Far, Undecided
  <2>2. CASE CredentialsOK
    <3>1. pc' = "resource" /\ reply' = reply
      BY <1>5, <2>2 DEF Verify
    <3>2. Authorised'
      BY <2>1, <2>2 DEF Authorised, CredentialsOK, Shown, Protected
    <3>3. Far'
      BY <2>1, <3>1, <3>2 DEF Far, Undecided
    <3>. QED
      BY <1>2, <2>1, <3>1, <3>3, Still DEF IInv, Honest, NoReply
  <2>3. CASE ~CredentialsOK
    <3>1. pc' = "done" /\ reply' = Status(401)
      BY <1>5, <2>3 DEF Verify
    <3>2. Far'
      BY <2>1, <3>1, Refused DEF Far
    <3>. QED
      BY <1>2, <2>1, <3>1, <3>2, Still, Refused DEF IInv, Honest
  <2>. QED
    BY <2>2, <2>3
<1>6. CASE Find
  <2>1. pc = "resource" /\ handed = << >> /\ reply = NoReply /\ Authorised
    BY <1>6 DEF IInv, Find, Far, Undecided
  <2>2. asked' = asked /\ handed' = handed /\ Authorised'
    BY <1>6, <2>1, StillAuthorised DEF Find, Refuse, Proceed
  <2>3. CASE Here.ok
    <3>1. pc' = "dispatch" /\ reply' = reply
      BY <1>6, <2>3 DEF Find, Proceed
    <3>2. Far'
      BY <2>1, <2>2, <2>3, <3>1, Still DEF Far, Undecided
    <3>. QED
      BY <1>2, <2>1, <2>2, <3>1, <3>2, Still DEF IInv, Honest, NoReply
  <2>4. CASE ~Here.ok
    <3>1. pc' = "done" /\ reply' = Status(400)
      BY <1>6, <2>4 DEF Find, Refuse
    <3>2. Far'
      BY <2>1, <2>2, <3>1, Refused DEF Far
    <3>. QED
      BY <1>2, <2>2, <3>1, <3>2, Still, Refused DEF IInv, Honest
  <2>. QED
    BY <2>3, <2>4
<1>7. CASE Dispatch
  <2>1. pc = "dispatch" /\ handed = << >> /\ reply = NoReply /\ Authorised /\ Here.ok
    BY <1>7 DEF IInv, Dispatch, Far, Undecided
  <2>2. asked' = asked /\ handed' = handed /\ Authorised'
    BY <1>7, <2>1, StillAuthorised DEF Dispatch, Refuse, Proceed
  <2>3. CASE pc' = "done" /\ \E n \in {200, 403, 405} : reply' = Allowing(n)
    <3>1. PICK n \in {200, 403, 405} : reply' = Allowing(n)
      BY <2>3
    <3>2. reply'.status # 0 /\ reply'.allow = Methods
      BY <3>1, Refused
    <3>3. Far'
      BY <2>1, <2>2, <2>3, <3>2 DEF Far
    <3>4. call.method \in Methods <=> call.method = "OPTIONS"
      <4>1. CASE call.method = "OPTIONS"
        BY <4>1 DEF Methods, Reads
      <4>2. CASE call.method # "OPTIONS" /\ call.method \in Writes /\ conf.ro
        BY <4>2 DEF Methods, Reads, Writes
      <4>3. CASE call.method # "OPTIONS" /\ call.method \notin Reads \cup Writes
        BY <4>3 DEF Methods
      <4>4. CASE /\ call.method # "OPTIONS" /\ ~(call.method \in Writes /\ conf.ro)
                 /\ call.method \in Reads \cup Writes
        BY <1>7, <2>3, <4>4 DEF Dispatch, Proceed
      <4>. QED
        BY <4>1, <4>2, <4>3, <4>4
    <3>. QED
      BY <1>2, <2>2, <3>2, <3>3, <3>4, Still DEF IInv, Honest
  <2>4. CASE pc' = "read" /\ reply' = reply
    <3>1. call.method \in Served
      BY <1>7, <2>4 DEF Dispatch, Refuse, Served, Methods
    <3>2. Far'
      BY <2>1, <2>2, <2>4, <3>1, Still DEF Far, Undecided
    <3>. QED
      BY <1>2, <2>1, <2>2, <2>4, <3>2, Still DEF IInv, Honest, NoReply
  <2>. QED
    BY <1>7, <2>3, <2>4 DEF Dispatch, Refuse, Proceed
<1>8. CASE RefuseCall
  <2>1. /\ reply' = Status(Refusal) /\ pc' = "done" /\ asked' = asked /\ handed' = handed
        /\ Refusal # 0
    BY <1>8 DEF RefuseCall, Refuse
  <2>2. handed = << >>
    BY <1>8 DEF IInv, RefuseCall, Far, Undecided
  <2>3. Far'
    BY <2>1, <2>2, Refused DEF Far
  <2>. QED
    BY <1>2, <2>1, <2>3, Still, Refused DEF IInv, Honest
<1>9. CASE HandOn
  <2>1. /\ reply = NoReply /\ Authorised /\ Here.ok /\ call.method \in Served /\ Refusal = 0
    BY <1>9 DEF IInv, HandOn, Far, Undecided
  <2>2. handed' = Handed /\ pc' = "done" /\ asked' = asked /\ reply' = reply
    BY <1>9 DEF HandOn, Handed
  <2>3. Far'
    BY <2>1, <2>2, Still, StillAuthorised DEF Far
  <2>. QED
    BY <1>2, <2>1, <2>2, <2>3, Still DEF IInv, Honest, NoReply
<1>10. CASE UNCHANGED vars
  <2>1. pc' = pc /\ asked' = asked /\ handed' = handed /\ reply' = reply
    BY <1>10 DEF vars
  <2>2. Authorised => Authorised'
    BY <2>1, StillAuthorised
  <2>3. Far'
    BY <2>1, <2>2, Still DEF IInv, Far, Undecided
  <2>. QED
    BY <1>2, <2>1, <2>3, Still DEF IInv, Honest
<1>. QED
  BY <1>3, <1>4, <1>5, <1>6, <1>7, <1>8, <1>9, <1>10 DEF Next

\* What a handler is given, if it is given anything.
LEMMA GivenIs ==
    ASSUME IInv, Done
    PROVE  /\ Given = Handed[1] /\ Here.ok /\ call.method \in Served /\ Refusal = 0
           /\ Authorised /\ pc = "done" /\ reply = NoReply
  BY DEF IInv, Far, Undecided, Done, Given

\* Nothing runs before a verifier has accepted, and none hears in the clear
\* (server.go:385-411).
THEOREM OnlyForTheAuthorised == Spec => []OnlyTheAuthorised
<1>1. IInv => OnlyTheAuthorised
  BY GivenIs DEF IInv, Far, OnlyTheAuthorised, Authorised
<1>. QED
  BY InitInv, NextInv, <1>1, PTL DEF Spec

\* Allow names what is served, and nothing that was refused with it
\* (server.go:111-113, 303-363).
THEOREM AllowIsTrue == Spec => []AllowTellsTheTruth
<1>1. IInv => AllowTellsTheTruth
  BY GivenIs DEF IInv, Honest, AllowTellsTheTruth, Served
<1>. QED
  BY InitInv, NextInv, <1>1, PTL DEF Spec
-----------------------------------------------------------------------------
(* The Timeout header. *)

Alternatives == {<< "" >>, << "Infinite" >>} \cup ({"Second"} \X Int)

\* The alternative that is granted can be read, if there is one.
LEMMA FirstReadable ==
    ASSUME NEW v \in Seq(Alternatives)
    PROVE  LET i == SelectInSeq(v, Readable)
           IN  \/ i = 0
               \/ i \in 1..Len(v) /\ Readable(v[i]) /\ v[i] \in Alternatives
<1> DEFINE I == {i \in 1..Len(v) : Readable(v[i])}
<1>1. CASE I = {}
  BY <1>1 DEF SelectInSeq
<1>2. CASE I # {}
  <2>1. I \subseteq Nat
    BY LenProperties
  <2>2. \E m \in I : \A k \in I : m <= k
    BY <1>2, <2>1, LeastNumber
  <2>3. Min(I) \in I
    BY <2>2 DEF Min
  <2>4. SelectInSeq(v, Readable) = Min(I)
    BY <1>2 DEF SelectInSeq
  <2>. QED
    BY <2>3, <2>4, ElementOfSeq
<1>. QED
  BY <1>1, <1>2

\* A number that fits wraps to itself, and one that does not to one that does.
LEMMA WrapFits ==
    ASSUME NEW n \in Int
    PROVE  Wrap(n) \in Int /\ (n \in 0..MaxInt => Wrap(n) = n)
<1> DEFINE m == 2 * (MaxInt + 1)
           k == n + MaxInt + 1
<1>1. m \in Nat \ {0} /\ k \in Int
  BY TimesAssumption
<1>2. k % m \in 0..m - 1
  BY <1>1
<1>3. ASSUME n \in 0..MaxInt PROVE k % m = k
  <2>1. k \in 0..m - 1
    BY <1>3, TimesAssumption
  <2>. HIDE DEF k, m
  <2>. QED
    BY <1>1, <2>1
<1>4. Wrap(n) = (k % m) - MaxInt - 1
  BY DEF Wrap
<1>. QED
  BY <1>1, <1>2, <1>3, <1>4, TimesAssumption

LEMMA DurationIs ==
    ASSUME NEW part \in Alternatives, part[1] # "Infinite", Readable(part)
    PROVE  /\ part[2] * Second \in Nat
           /\ Duration(part) \in Int
           /\ part[2] * Second <= MaxInt => Duration(part) = part[2] * Second
<1>1. part[2] \in Nat
  <2>1. part[1] = "Second" /\ part[2] \in 1..MaxInt
    BY DEF Readable
  <2>. QED
    BY <2>1
<1>2. part[2] * Second \in Nat
  BY <1>1, TimesAssumption
<1>. QED
  BY <1>2, WrapFits DEF Duration

LEMMA TimeoutGiven ==
    ASSUME NEW v \in Seq(Alternatives)
    PROVE  LET i     == SelectInSeq(v, Readable)
               wanted == IF i = 0 THEN DefaultTimeout
                         ELSE IF v[i][1] = "Infinite" THEN MaxTimeout ELSE v[i][2] * Second
           IN  /\ ParseTimeout(v) <= MaxTimeout
               /\ wanted <= MaxInt =>
                     ParseTimeout(v) = IF wanted > MaxTimeout THEN MaxTimeout ELSE wanted
<1>1. PICK i : i = SelectInSeq(v, Readable)
  OBVIOUS
<1>2. i = 0 \/ (Readable(v[i]) /\ v[i] \in Alternatives)
  BY <1>1, FirstReadable
<1>3. DefaultTimeout \in Nat /\ MaxTimeout \in Nat /\ DefaultTimeout <= MaxTimeout
      /\ MaxInt \in Nat
  BY TimesAssumption
<1>4. CASE i = 0
  BY <1>1, <1>3, <1>4 DEF ParseTimeout
<1>5. CASE i # 0 /\ v[i][1] = "Infinite"
  BY <1>1, <1>3, <1>5 DEF ParseTimeout
<1>6. CASE i # 0 /\ v[i][1] # "Infinite"
  <2>1. PICK n, d : n = v[i][2] * Second /\ d = Duration(v[i])
    OBVIOUS
  <2>2. n \in Nat /\ d \in Int /\ (n <= MaxInt => d = n)
    BY <1>2, <1>6, <2>1, DurationIs
  <2>3. ParseTimeout(v) = IF d >= MaxTimeout THEN MaxTimeout ELSE d
    BY <1>1, <1>6, <2>1 DEF ParseTimeout
  <2>. QED
    BY <1>1, <1>3, <1>6, <2>1, <2>2, <2>3
<1>. QED
  BY <1>4, <1>5, <1>6

\* No lock lasts longer than maxLockTimeout, and a shorter one lasts as long as
\* was asked: for every header, whatever a second and an int64 are
\* (lock.go:71-75, 430-455).
THEOREM TimeoutsAlwaysCapped == Spec => []TimeoutsAreCapped
<1>1. IInv => TimeoutsAreCapped
  <2> SUFFICES ASSUME IInv, Done PROVE TimeoutsAreCapped
    BY DEF TimeoutsAreCapped
  <2>1. Given.timeout = ParseTimeout(call.timeout)
    BY GivenIs DEF Handed
  <2>2. call.timeout \in Seq(Alternatives)
    BY DEF IInv, Call, Alternatives
  <2>. QED
    BY <2>1, <2>2, TimeoutGiven DEF TimeoutsAreCapped, AskedFor, Capped
<1>. QED
  BY InitInv, NextInv, <1>1, PTL DEF Spec

-----------------------------------------------------------------------------
(* Folds.  A fold over a sequence is the end of a run, what the loop has   *)
(* after each of its turns: what holds of every step of a run then holds   *)
(* of the fold, by induction over the turns.                               *)

LEMMA Greatest ==
    ASSUME NEW n \in Nat, NEW T, T \subseteq 1..n, T # {}
    PROVE  Max(T) \in T /\ \A k \in T : k <= Max(T)
<1> DEFINE slack == {n - k : k \in T}
<1>1. slack \subseteq Nat /\ slack # {}
  <2>1. \A k \in T : n - k \in Nat
    OBVIOUS
  <2>2. slack \subseteq Nat
    BY <2>1
  <2>. QED
    BY <2>2
<1>. HIDE DEF slack
<1>2. PICK m \in slack : \A k \in slack : m <= k
  BY <1>1, LeastNumber
<1>3. PICK x \in T : m = n - x
  BY DEF slack
<1>4. \A k \in T : x >= k
  <2> SUFFICES ASSUME NEW k \in T PROVE x >= k
    OBVIOUS
  <2>1. n - k \in slack
    BY DEF slack
  <2>2. m <= n - k
    BY <1>2, <2>1
  <2>3. x \in Int /\ k \in Int
    OBVIOUS
  <2>. QED
    BY <1>3, <2>2, <2>3
<1>5. Max(T) \in T /\ \A k \in T : Max(T) >= k
  BY <1>3, <1>4 DEF Max
<1>. QED
  BY <1>5

LEMMA GreatestOfAll ==
    ASSUME NEW n \in Nat \ {0}
    PROVE  Max(1..n) = n /\ (1..n) \ {n} = 1..n - 1
<1>1. Max(1..n) \in 1..n /\ \A k \in 1..n : k <= Max(1..n)
  BY Greatest
<1>. QED
  BY <1>1

LEMMA FirstOnes ==
    ASSUME NEW n \in Nat, NEW k \in 1..n
    PROVE  1..k # {} /\ 1..k \in SUBSET (1..n)
<1>1. 1 \in 1..k
  OBVIOUS
<1>. QED
  BY <1>1

\* A turn of a loop takes what it has, in V, and the number of the turn.
Loop(F, V, n) == F \in [V \X (1..n) -> V]

\* The function a fold is defined by, over a loop whose turn k takes y to F[<<y, k>>].
Folds(f, V, base, F, n) ==
    /\ f \in [SUBSET (1..n) -> V]
    /\ \A s \in SUBSET (1..n) :
          f[s] = IF s = {} THEN base ELSE F[<< f[s \ {Max(s)}], Max(s) >>]

LEMMA FoldStep ==
    ASSUME NEW V, NEW base \in V, NEW N \in Nat, NEW F, Loop(F, V, N),
           NEW n \in 1..N, NEW f, Folds(f, V, base, F, n - 1)
    PROVE  \E g : Folds(g, V, base, F, n)
<1> DEFINE g == [s \in SUBSET (1..n) |-> IF n \in s THEN F[<< f[s \ {n}], n >>] ELSE f[s]]
<1>1. f \in [SUBSET (1..n - 1) -> V]
  BY DEF Folds
<1>2. \A s \in SUBSET (1..n) : s \ {n} \in SUBSET (1..n - 1)
  OBVIOUS
<1>3. \A s \in SUBSET (1..n) : n \notin s => s \in SUBSET (1..n - 1)
  OBVIOUS
<1>4. g \in [SUBSET (1..n) -> V]
  <2> SUFFICES ASSUME NEW s \in SUBSET (1..n)
               PROVE  (IF n \in s THEN F[<< f[s \ {n}], n >>] ELSE f[s]) \in V
    OBVIOUS
  <2>. QED
    BY <1>1, <1>2, <1>3 DEF Loop
<1>5. \A s \in SUBSET (1..n) : g[s] = IF n \in s THEN F[<< f[s \ {n}], n >>] ELSE f[s]
  OBVIOUS
<1> HIDE DEF g
<1>6. ASSUME NEW s \in SUBSET (1..n)
      PROVE  g[s] = IF s = {} THEN base ELSE F[<< g[s \ {Max(s)}], Max(s) >>]
  <2>1. CASE s = {}
    BY <1>3, <1>5, <2>1 DEF Folds
  <2>2. CASE n \in s
    <3>1. n \in Nat /\ s \subseteq 1..n
      OBVIOUS
    <3>2. Max(s) \in s /\ \A k \in s : k <= Max(s)
      BY <2>2, <3>1, Greatest
    <3>3. Max(s) = n
      <4>1. Max(s) \in 1..n /\ n <= Max(s)
        BY <2>2, <3>2
      <4>. QED
        BY <4>1
    <3>4. g[s \ {n}] = f[s \ {n}]
      BY <1>5
    <3>. QED
      BY <1>5, <2>2, <3>3, <3>4
  <2>3. CASE s # {} /\ n \notin s
    <3>1. Max(s) \in s
      <4>1. n \in Nat /\ s \subseteq 1..n /\ s # {}
        BY <2>3
      <4>. QED
        BY <4>1, Greatest
    <3>2. s \ {Max(s)} \in SUBSET (1..n) /\ n \notin s \ {Max(s)} /\ s \in SUBSET (1..n - 1)
      BY <1>3, <2>3
    <3>3. g[s] = f[s] /\ g[s \ {Max(s)}] = f[s \ {Max(s)}]
      BY <1>5, <2>3, <3>2
    <3>4. f[s] = F[<< f[s \ {Max(s)}], Max(s) >>]
      BY <2>3, <3>2 DEF Folds
    <3>. QED
      BY <2>3, <3>3, <3>4
  <2>. QED
    BY <2>1, <2>2, <2>3
<1>. QED
  BY <1>4, <1>6 DEF Folds

LEMMA FoldExists ==
    ASSUME NEW V, NEW base \in V, NEW N \in Nat, NEW F, Loop(F, V, N)
    PROVE  \E f : Folds(f, V, base, F, N)
<1> DEFINE bad == {n \in 0..N : ~\E f : Folds(f, V, base, F, n)}
<1>1. SUFFICES ASSUME bad # {} PROVE FALSE
  OBVIOUS
<1>2. PICK n \in bad : \A k \in bad : n <= k
  <2>1. bad \subseteq Nat
    OBVIOUS
  <2>. HIDE DEF bad
  <2>. QED
    BY <1>1, <2>1, LeastNumber
<1>3. CASE n = 0
  <2> DEFINE f == [s \in SUBSET (1..0) |-> base]
  <2>1. \A s \in SUBSET (1..0) : s = {}
    OBVIOUS
  <2>2. Folds(f, V, base, F, 0)
    BY <2>1 DEF Folds
  <2>. QED
    BY <1>3, <2>2
<1>4. CASE n \in 1..N
  <2>1. n - 1 \in 0..N /\ n - 1 \notin bad
    BY <1>2, <1>4
  <2>. QED
    BY <1>4, <2>1, FoldStep
<1>. QED
  BY <1>3, <1>4

\* h is the run of a loop of n turns.
Runs(h, V, base, F, n) ==
    /\ h \in [0..n -> V]
    /\ h[0] = base
    /\ \A k \in 1..n : h[k] = F[<< h[k - 1], k >>]

\* As g does on the first elements, if what it has is in V.
Follows(g, V, base, F, n) ==
    /\ g[{}] = base
    /\ \A k \in 1..n : g[1..k - 1] \in V => g[1..k] = F[<< g[1..k - 1], k >>]

\* Whatever function a fold picks, what it has at the whole sequence is the
\* end of the run.
LEMMA FoldRuns ==
    ASSUME NEW V, NEW base \in V, NEW n \in Nat, NEW F, Loop(F, V, n),
           NEW g, Follows(g, V, base, F, n)
    PROVE  \E h : Runs(h, V, base, F, n) /\ h[n] = g[1..n]
<1> DEFINE h == [k \in 0..n |-> g[1..k]]
           bad == {k \in 0..n : g[1..k] \notin V}
<1>1. g[1..0] = base
  <2>1. 1..0 = {}
    OBVIOUS
  <2>. QED
    BY <2>1 DEF Follows
<1>2. bad = {}
  <2>1. SUFFICES ASSUME bad # {} PROVE FALSE
    OBVIOUS
  <2>2. PICK m \in bad : \A k \in bad : m <= k
    <3>1. bad \subseteq Nat
      OBVIOUS
    <3>. HIDE DEF bad
    <3>. QED
      BY <2>1, <3>1, LeastNumber
  <2>3. m # 0
    BY <1>1
  <2>4. m \in 1..n /\ m - 1 \in 0..n /\ m - 1 \notin bad
    BY <2>2, <2>3
  <2>5. g[1..m] = F[<< g[1..m - 1], m >>] /\ g[1..m - 1] \in V
    BY <2>4 DEF Follows
  <2>. QED
    BY <2>4, <2>5 DEF Loop
<1>3. h \in [0..n -> V]
  BY <1>2
<1>4. \A k \in 1..n : h[k] = F[<< h[k - 1], k >>]
  BY <1>2 DEF Follows
<1>5. h[0] = base /\ h[n] = g[1..n]
  BY <1>1
<1>. HIDE DEF h
<1>. QED
  BY <1>3, <1>4, <1>5 DEF Runs

\* Every loop has a run.
LEMMA RunExists ==
    ASSUME NEW V, NEW base \in V, NEW n \in Nat, NEW F, Loop(F, V, n)
    PROVE  \E h : Runs(h, V, base, F, n)
<1>1. PICK f : Folds(f, V, base, F, n)
  BY FoldExists
<1>2. f[{}] = base
  BY <1>1 DEF Folds
<1>3. ASSUME NEW k \in 1..n PROVE f[1..k] = F[<< f[1..k - 1], k >>]
  <2>1. Max(1..k) = k /\ (1..k) \ {k} = 1..k - 1 /\ 1..k # {} /\ 1..k \in SUBSET (1..n)
    BY GreatestOfAll
  <2>. QED
    BY <1>1, <2>1 DEF Folds
<1>4. Follows(f, V, base, F, n)
  BY <1>2, <1>3 DEF Follows
<1>. QED
  BY <1>4, FoldRuns

-----------------------------------------------------------------------------
(* cleanPath. *)

\* What a slash can be followed by.
Part  == STRING \cup {Empty}
Parts == Seq(Part)

CleanRun(h, p) ==
    /\ h \in [0..Len(p) -> Parts]
    /\ h[0] = Root
    /\ \A k \in 1..Len(p) : h[k] = Resolve(h[k - 1], p[k])

LEMMA UpMeansUp == Up \notin Ignored
  BY DEF Up, Ignored, Empty

LEMMA ResolveParts ==
    ASSUME NEW out \in Parts, NEW part \in Part
    PROVE  Resolve(out, part) \in Parts
<1>1. CASE part \in Ignored
  BY <1>1, UpMeansUp DEF Resolve
<1>2. CASE part \notin Ignored /\ part = Up
  <2>1. CASE out = Root
    BY <1>2, <2>1 DEF Resolve
  <2>2. CASE out # Root
    <3>1. Len(out) - 1 \in 0..Len(out)
      BY <2>2, EmptySeq DEF Root, Parts
    <3>2. Front(out) \in Parts
      BY <3>1, Prefix DEF Front, Parts
    <3>. QED
      BY <1>2, <2>2, <3>2 DEF Resolve
  <2>. QED
    BY <2>1, <2>2
<1>3. CASE part \notin Ignored /\ part # Up
  BY <1>3, AppendProperties DEF Resolve, Parts
<1>. QED
  BY <1>1, <1>2, <1>3

LEMMA CleanRuns ==
    ASSUME NEW p \in Parts
    PROVE  \E h : CleanRun(h, p) /\ CleanPath(p) = h[Len(p)]
<1>0. PICK n \in Nat : n = Len(p)
  BY LenProperties DEF Parts
<1> DEFINE Is(f) == f = [s \in SUBSET DOMAIN p |->
                 IF s = {} THEN Root ELSE Resolve(f[s \ {Max(s)}], p[Max(s)])]
<1>1. n \in Nat /\ DOMAIN p = 1..n /\ \A k \in 1..n : p[k] \in Part
  BY <1>0, LenProperties DEF Parts
<1>2. [yk \in Parts \X (1..n) |-> Resolve(yk[1], p[yk[2]])] \in [Parts \X (1..n) -> Parts]
  BY <1>1, ResolveParts
<1>3. PICK F \in [Parts \X (1..n) -> Parts] :
         \A y \in Parts, k \in 1..n : F[<< y, k >>] = Resolve(y, p[k])
  BY <1>2
<1>4. Root \in Parts /\ Loop(F, Parts, n)
  BY EmptySeq DEF Root, Parts, Loop
<1>5. \E f : Is(f)
  <2>1. PICK f : Folds(f, Parts, Root, F, n)
    BY <1>4, FoldExists
  <2>2. f \in [SUBSET (1..n) -> Parts]
    BY <2>1 DEF Folds
  <2>3. ASSUME NEW s \in SUBSET (1..n)
        PROVE  f[s] = IF s = {} THEN Root ELSE Resolve(f[s \ {Max(s)}], p[Max(s)])
    <3>1. CASE s = {}
      BY <2>1, <3>1 DEF Folds
    <3>2. CASE s # {}
      <4>1. Max(s) \in 1..n
        BY <1>1, <3>2, Greatest
      <4>2. f[s \ {Max(s)}] \in Parts
        BY <2>2
      <4>3. f[s] = F[<< f[s \ {Max(s)}], Max(s) >>]
        BY <2>1, <3>2 DEF Folds
      <4>. QED
        BY <1>3, <3>2, <4>1, <4>2, <4>3
    <3>. QED
      BY <3>1, <3>2
  <2>. QED
    BY <1>1, <2>2, <2>3
<1>6. CleanPath(p) = (CHOOSE f : Is(f))[1..n]
  BY <1>1 DEF CleanPath, FoldLeft, MapThenFoldSet
<1>7. PICK g : Is(g) /\ CleanPath(p) = g[1..n]
  BY <1>5, <1>6
<1>8. \A s \in SUBSET (1..n) :
         g[s] = IF s = {} THEN Root ELSE Resolve(g[s \ {Max(s)}], p[Max(s)])
  BY <1>1, <1>7
<1>. HIDE DEF Is
<1>9. g[{}] = Root
  BY <1>8
<1>10. \A k \in 1..n : 1..k # {} /\ 1..k \in SUBSET (1..n)
  BY <1>1, FirstOnes
<1>11. \A k \in 1..n : g[1..k - 1] \in Parts => g[1..k] = F[<< g[1..k - 1], k >>]
  <2> SUFFICES ASSUME NEW k \in 1..n, g[1..k - 1] \in Parts
               PROVE  g[1..k] = F[<< g[1..k - 1], k >>]
    OBVIOUS
  <2>1. Max(1..k) = k /\ (1..k) \ {k} = 1..k - 1
    BY GreatestOfAll
  <2>2. 1..k # {} /\ 1..k \in SUBSET (1..n)
    BY <1>10
  <2>3. g[1..k] = Resolve(g[1..k - 1], p[k])
    BY <1>8, <2>1, <2>2
  <2>. QED
    BY <1>3, <2>3
<1>12. PICK h : Runs(h, Parts, Root, F, n) /\ h[n] = g[1..n]
  <2>1. Follows(g, Parts, Root, F, n)
    BY <1>9, <1>11 DEF Follows
  <2>. QED
    BY <1>4, <2>1, FoldRuns
<1>13. CleanRun(h, p)
  <2>1. h \in [0..n -> Parts] /\ h[0] = Root
    BY <1>12 DEF Runs
  <2>2. ASSUME NEW k \in 1..n PROVE h[k] = Resolve(h[k - 1], p[k])
    <3>1. h[k - 1] \in Parts
      BY <1>1, <2>1
    <3>. QED
      BY <1>3, <1>12, <3>1 DEF Runs
  <2>. QED
    BY <1>0, <2>1, <2>2 DEF CleanRun
<1>. QED
  BY <1>0, <1>7, <1>12, <1>13

\* The names of a path: what is neither skipped nor a step up.
Names(p) == {p[i] : i \in 1..Len(p)} \ (Ignored \cup {Up})

LEMMA ResolveSkips ==
    ASSUME NEW out, NEW part \in Ignored
    PROVE  Resolve(out, part) = out
  BY UpMeansUp DEF Resolve

LEMMA ResolveKeeps ==
    ASSUME NEW out, NEW part, part \notin Ignored \cup {Up}
    PROVE  Resolve(out, part) = Append(out, part)
  BY DEF Resolve

LEMMA ResolveStaysUp == Resolve(Root, Up) = Root
  BY UpMeansUp DEF Resolve

LEMMA ResolveUp ==
    ASSUME NEW S, NEW out \in Seq(S), out # Root
    PROVE  /\ Len(out) \in Nat \ {0}
           /\ Resolve(out, Up) = SubSeq(out, 1, Len(out) - 1)
           /\ Resolve(out, Up) \in Seq(S)
           /\ Len(Resolve(out, Up)) = Len(out) - 1
           /\ \A i \in 1..Len(out) - 1 : Resolve(out, Up)[i] = out[i]
<1>1. Resolve(out, Up) = SubSeq(out, 1, Len(out) - 1)
  BY UpMeansUp DEF Resolve, Front
<1>2. Len(out) \in Nat \ {0}
  BY EmptySeq DEF Root
<1>3. PICK n \in 0..Len(out) : n = Len(out) - 1
  <2>1. Len(out) - 1 \in 0..Len(out)
    BY <1>2
  <2>. QED
    BY <2>1
<1>4. PICK up : up = SubSeq(out, 1, n)
  OBVIOUS
<1>5. up \in Seq(S) /\ Len(up) = n /\ \A i \in 1..n : up[i] = out[i]
  BY <1>4, Prefix
<1>6. Resolve(out, Up) = up
  BY <1>1, <1>3, <1>4
<1>. QED
  BY <1>2, <1>3, <1>4, <1>5, <1>6

\* Induction over the turns.
LEMMA EveryTurn ==
    ASSUME NEW n \in Nat, NEW T, 0 \in T, \A k \in 1..n : k - 1 \in T => k \in T
    PROVE  0..n \subseteq T
<1> DEFINE bad == (0..n) \ T
<1>1. SUFFICES ASSUME bad # {} PROVE FALSE
  OBVIOUS
<1>2. PICK m \in bad : \A k \in bad : m <= k
  <2>1. bad \subseteq Nat
    OBVIOUS
  <2>. HIDE DEF bad
  <2>. QED
    BY <1>1, <2>1, LeastNumber
<1>3. m \in 1..n /\ m - 1 \in 0..n /\ m - 1 \notin bad
  BY <1>2
<1>. QED
  BY <1>2, <1>3

LEMMA CleanNames ==
    ASSUME NEW p \in Parts
    PROVE  CleanPath(p) \in Seq(Names(p))
<1>1. PICK h : CleanRun(h, p) /\ CleanPath(p) = h[Len(p)]
  BY CleanRuns
<1> DEFINE T == {k \in 0..Len(p) : h[k] \in Seq(Names(p))}
<1>2. Len(p) \in Nat
  BY LenProperties DEF Parts
<1>3. 0 \in T
  <2>1. << >> \in Seq(Names(p))
    BY EmptySeq
  <2>2. h[0] = << >>
    BY <1>1 DEF CleanRun, Root
  <2>3. h[0] \in Seq(Names(p)) /\ 0 \in 0..Len(p)
    BY <1>2, <2>1, <2>2
  <2>. QED
    BY <2>3
<1>4. ASSUME NEW k \in 1..Len(p), k - 1 \in T PROVE k \in T
  <2>1. h[k - 1] \in Seq(Names(p)) /\ h[k] = Resolve(h[k - 1], p[k]) /\ k \in 0..Len(p)
    BY <1>1, <1>2, <1>4 DEF CleanRun
  <2>2. CASE p[k] \in Ignored
    BY <2>1, <2>2, ResolveSkips
  <2>3. CASE p[k] = Up
    BY <2>1, <2>3, ResolveUp, ResolveStaysUp
  <2>4. CASE p[k] \notin Ignored \cup {Up}
    <3>1. p[k] \in Names(p)
      BY <2>4 DEF Names
    <3>2. h[k] = Append(h[k - 1], p[k])
      BY <2>1, <2>4, ResolveKeeps
    <3>3. Append(h[k - 1], p[k]) \in Seq(Names(p))
      BY <2>1, <3>1, AppendProperties
    <3>. QED
      BY <2>1, <3>2, <3>3
  <2>. QED
    BY <2>2, <2>3, <2>4
<1>5. Len(p) \in T
  <2>. HIDE DEF T
  <2>1. 0..Len(p) \subseteq T
    BY <1>2, <1>3, <1>4, EveryTurn
  <2>. QED
    BY <1>2, <2>1
<1>. QED
  BY <1>1, <1>5

\* A path that is clean already, somewhere in a path with nothing else in it.
LEMMA CleanAlready ==
    ASSUME NEW p \in Parts, NEW c \in Seq(STRING \ (Ignored \cup {Up})),
           NEW a \in Nat, a + Len(c) <= Len(p),
           \A i \in 1..Len(c) : p[a + i] = c[i],
           \A i \in 1..Len(p) : i \notin a + 1..a + Len(c) => p[i] \in Ignored
    PROVE  CleanPath(p) = c
<1>1. PICK h : CleanRun(h, p) /\ CleanPath(p) = h[Len(p)]
  BY CleanRuns
<1> DEFINE m(k) == IF k <= a THEN 0 ELSE IF k <= a + Len(c) THEN k - a ELSE Len(c)
           T == {k \in 0..Len(p) : h[k] = SubSeq(c, 1, m(k))}
<1>2. Len(p) \in Nat /\ Len(c) \in Nat
  BY LenProperties DEF Parts
<1>3. 0 \in T
  <2>1. m(0) = 0 /\ SubSeq(c, 1, 0) = << >>
    BY <1>2, SubSeqEmpty
  <2>2. h[0] = << >> /\ 0 \in 0..Len(p)
    BY <1>1, <1>2 DEF CleanRun, Root
  <2>. HIDE DEF m
  <2>. QED
    BY <2>1, <2>2
<1>4. ASSUME NEW k \in 1..Len(p), k - 1 \in T PROVE k \in T
  <2>1. h[k - 1] = SubSeq(c, 1, m(k - 1)) /\ h[k] = Resolve(h[k - 1], p[k]) /\ k \in 0..Len(p)
    BY <1>1, <1>2, <1>4 DEF CleanRun
  <2>2. m(k - 1) \in 0..Len(c)
    BY <1>2
  <2>3. h[k - 1] \in Seq(STRING \ (Ignored \cup {Up}))
    BY <2>1, <2>2, Prefix
  <2>4. CASE k \notin a + 1..a + Len(c)
    <3>1. m(k) = m(k - 1)
      BY <1>2, <2>4
    <3>2. p[k] \in Ignored
      BY <2>4
    <3>. HIDE DEF m
    <3>. QED
      BY <2>1, <2>3, <3>1, <3>2, ResolveSkips
  <2>5. CASE k \in a + 1..a + Len(c)
    <3>1. PICK i \in 1..Len(c) : i = k - a
      BY <1>2, <2>5
    <3>2. m(k) = i /\ m(k - 1) = i - 1 /\ k = a + i
      BY <1>2, <3>1, <2>5
    <3>. HIDE DEF m
    <3>3. p[k] = c[i] /\ c[i] \in STRING \ (Ignored \cup {Up})
      BY <3>2, ElementOfSeq
    <3>4. h[k] = Append(SubSeq(c, 1, i - 1), c[i])
      <4>1. h[k] = Resolve(h[k - 1], c[i]) /\ h[k - 1] = SubSeq(c, 1, i - 1)
        BY <2>1, <3>2, <3>3
      <4>2. c[i] \notin Ignored \cup {Up}
        BY <3>3
      <4>3. Resolve(h[k - 1], c[i]) = Append(h[k - 1], c[i])
        BY <4>2, ResolveKeeps
      <4>. QED
        BY <4>1, <4>3
    <3>5. SubSeq(c, 1, i) = SubSeq(c, 1, i - 1) \o << c[i] >>
      BY <1>2, SubSeqRecursiveSecond
    <3>6. Append(SubSeq(c, 1, i - 1), c[i]) = SubSeq(c, 1, i - 1) \o << c[i] >>
      BY <2>1, <2>3, <3>2, <3>3, AppendIsConcat
    <3>. QED
      BY <2>1, <3>2, <3>4, <3>5, <3>6
  <2>. QED
    BY <2>4, <2>5
<1>5. Len(p) \in T
  <2>. HIDE DEF T
  <2>1. 0..Len(p) \subseteq T
    BY <1>2, <1>3, <1>4, EveryTurn
  <2>. QED
    BY <1>2, <2>1
<1>6. m(Len(p)) = Len(c)
  BY <1>2
<1>. QED
  BY <1>1, <1>5, <1>6, SubSeqFull

-----------------------------------------------------------------------------
(* resource and href. *)

Clean == STRING \ (Ignored \cup {Up})

\* What resource cleans.
Inside(prefix, p) ==
    IF prefix = << >> THEN p ELSE SubSeq(p, Len(Mount(prefix)) + 1, Len(p))

LEMMA ResourceIs ==
    ASSUME NEW prefix, NEW p
    PROVE  /\ Resource(prefix, p).path = CleanPath(Inside(prefix, p))
           /\ Resource(prefix, p).ok <=>
                 /\ Nul \notin ToSet(p)
                 /\ prefix # << >> => Under(Mount(prefix), p)
                 /\ PathLength(CleanPath(Inside(prefix, p))) <= MaxPath
           /\ Resource(prefix, p) = [ok |-> Resource(prefix, p).ok, path |-> Resource(prefix, p).path]
  BY DEF Resource, Inside

LEMMA SlashIs ==
    << Empty >> \in Parts /\ Len(<< Empty >>) = 1 /\ << Empty >>[1] = Empty
<1>1. Empty \in Part
  BY DEF Part
<1>. QED
  BY <1>1 DEF Parts

LEMMA MountIs ==
    ASSUME NEW prefix \in Seq(Clean)
    PROVE  /\ Mount(prefix) \in Parts
           /\ Len(Mount(prefix)) = Len(prefix) + 1
           /\ Len(prefix) \in Nat
           /\ Mount(prefix)[1] = Empty
           /\ \A i \in 1..Len(prefix) : Mount(prefix)[i + 1] = prefix[i]
<1>1. prefix \in Parts
  BY SeqMonotonic DEF Parts, Part, Clean
<1>2. PICK slash \in Parts : slash = << Empty >> /\ Len(slash) = 1 /\ slash[1] = Empty
  BY SlashIs
<1>3. Mount(prefix) = slash \o prefix
  BY <1>2 DEF Mount
<1>4. Len(prefix) \in Nat
  BY LenProperties
<1>5. /\ Mount(prefix) \in Parts
      /\ Len(Mount(prefix)) = 1 + Len(prefix)
      /\ \A i \in 1..1 + Len(prefix) :
            Mount(prefix)[i] = IF i <= 1 THEN slash[i] ELSE prefix[i - 1]
  BY <1>1, <1>2, <1>3, ConcatProperties DEF Parts
<1>6. Mount(prefix)[1] = Empty
  BY <1>2, <1>4, <1>5
<1>7. \A i \in 1..Len(prefix) : Mount(prefix)[i + 1] = prefix[i]
  BY <1>4, <1>5
<1>. QED
  BY <1>4, <1>5, <1>6, <1>7

\* What is below the prefix is parts of the path.
LEMMA InsideIs ==
    ASSUME NEW prefix \in Seq(Clean), NEW p \in Parts
    PROVE  /\ Inside(prefix, p) \in Parts
           /\ \A i \in 1..Len(Inside(prefix, p)) : Inside(prefix, p)[i] \in ToSet(p)
           /\ prefix # << >> =>
                 /\ Len(prefix) + 2 <= Len(p) =>
                       Len(Inside(prefix, p)) = Len(p) - Len(prefix) - 1
                 /\ Len(p) <= Len(prefix) + 1 => Len(Inside(prefix, p)) = 0
                 /\ \A i \in 1..Len(Inside(prefix, p)) :
                       Inside(prefix, p)[i] = p[Len(prefix) + 1 + i]
<1>1. Len(p) \in Nat /\ DOMAIN p = 1..Len(p)
  BY LenProperties DEF Parts
<1>2. \A i \in 1..Len(p) : p[i] \in Part /\ p[i] \in ToSet(p)
  BY <1>1, ElementOfSeq DEF Parts, ToSet
<1>3. CASE prefix = << >>
  BY <1>2, <1>3 DEF Inside
<1>4. CASE prefix # << >>
  <2>0. Len(prefix) \in Nat /\ Len(Mount(prefix)) = Len(prefix) + 1
    BY MountIs
  <2>1. PICK m \in Nat : m = Len(prefix) + 2
    BY <2>0
  <2>2. Inside(prefix, p) = SubSeq(p, m, Len(p))
    <3>1. Len(Mount(prefix)) + 1 = m
      BY <2>0, <2>1
    <3>. QED
      BY <1>4, <3>1 DEF Inside
  <2>3. \A i \in m..Len(p) : p[i] \in Part
    BY <1>1, <1>2, <2>0, <2>1
  <2>4. /\ Inside(prefix, p) \in Parts
        /\ Len(Inside(prefix, p)) = IF m <= Len(p) THEN Len(p) - m + 1 ELSE 0
        /\ \A i \in 1..Len(p) - m + 1 : Inside(prefix, p)[i] = p[m + i - 1]
    BY <1>1, <2>2, <2>3, SubSeqProperties DEF Parts
  <2>5. /\ Len(prefix) + 2 <= Len(p) => Len(Inside(prefix, p)) = Len(p) - Len(prefix) - 1
        /\ Len(p) <= Len(prefix) + 1 => Len(Inside(prefix, p)) = 0
    <3>1. Len(prefix) + 2 <= Len(p) => Len(Inside(prefix, p)) = Len(p) - (Len(prefix) + 2) + 1
      BY <2>1, <2>4
    <3>2. Len(p) <= Len(prefix) + 1 => ~(m <= Len(p))
      BY <1>1, <2>0, <2>1
    <3>3. Len(p) - (Len(prefix) + 2) + 1 = Len(p) - Len(prefix) - 1
      BY <1>1, <2>0
    <3>4. ~(m <= Len(p)) => Len(Inside(prefix, p)) = 0
      BY <2>4
    <3>. QED
      BY <3>1, <3>2, <3>3, <3>4
  <2>6. ASSUME NEW i \in 1..Len(Inside(prefix, p))
        PROVE  /\ Inside(prefix, p)[i] = p[Len(prefix) + 1 + i]
               /\ Len(prefix) + 1 + i \in 1..Len(p)
    <3>1. i \in 1..Len(p) - m + 1
      BY <1>1, <2>4
    <3>2. m + i - 1 = Len(prefix) + 1 + i
      BY <2>0, <2>1
    <3>3. Inside(prefix, p)[i] = p[m + i - 1]
      BY <2>4, <3>1
    <3>4. m + i - 1 \in 1..Len(p)
      BY <1>1, <2>0, <2>1, <3>1
    <3>. QED
      BY <3>2, <3>3, <3>4
  <2>. QED
    BY <1>2, <2>4, <2>5, <2>6
<1>. QED
  BY <1>3, <1>4

\* The names of the path that resource returns are names of the URL.
LEMMA ResourceNames ==
    ASSUME NEW prefix \in Seq(Clean), NEW p \in Parts
    PROVE  Resource(prefix, p).path \in Seq(Clean \cap ToSet(p))
<1>1. Inside(prefix, p) \in Parts
  BY InsideIs
<1>2. \A i \in 1..Len(Inside(prefix, p)) : Inside(prefix, p)[i] \in Part \cap ToSet(p)
  BY <1>1, InsideIs, ElementOfSeq DEF Parts
<1>3. Names(Inside(prefix, p)) \subseteq Clean \cap ToSet(p)
  BY <1>2 DEF Names, Clean, Part, Ignored
<1>. QED
  BY <1>1, <1>3, CleanNames, ResourceIs, SeqMonotonic

LEMMA CleanParts ==
    ASSUME NEW c \in Seq(Clean)
    PROVE  c \in Parts /\ Len(c) \in Nat
  BY SeqMonotonic, LenProperties DEF Parts, Part, Clean

\* The parts of a href: the mount, the path, and nothing.
LEMMA HrefIs ==
    ASSUME NEW prefix \in Seq(Clean), NEW c \in Seq(Clean), NEW collection \in BOOLEAN
    PROVE  LET u == Href(prefix, c, collection)
               m == Len(prefix) + 1
           IN  /\ u \in Parts
               /\ m + Len(c) <= Len(u)
               /\ \A i \in 1..m : u[i] = Mount(prefix)[i]
               /\ \A i \in 1..Len(c) : u[m + i] = c[i]
               /\ \A i \in 1..Len(u) : i > m + Len(c) => u[i] = Empty
<1> DEFINE u == Href(prefix, c, collection)
<1>1. PICK tail \in Parts : /\ u = Mount(prefix) \o c \o tail
                           /\ Len(tail) \in Nat
                           /\ \A i \in 1..Len(tail) : tail[i] = Empty
  <2>1. CASE collection \/ c = Root
    <3>1. u = Mount(prefix) \o c \o << Empty >>
      BY <2>1 DEF Href
    <3>2. PICK tail \in Parts : tail = << Empty >> /\ Len(tail) = 1 /\ tail[1] = Empty
      BY SlashIs
    <3>3. \A i \in 1..Len(tail) : tail[i] = Empty
      BY <3>2
    <3>. QED
      BY <3>1, <3>2, <3>3
  <2>2. CASE ~(collection \/ c = Root)
    <3>1. u = Mount(prefix) \o c \o << >>
      BY <2>2 DEF Href
    <3>2. << >> \in Parts /\ Len(<< >>) = 0
      BY EmptySeq DEF Parts
    <3>3. \A i \in 1..Len(<< >>) : << >>[i] = Empty
      BY <3>2
    <3>. QED
      BY <3>1, <3>2, <3>3
  <2>. QED
    BY <2>1, <2>2
<1>2. PICK m \in Nat : m = Len(prefix) + 1 /\ Len(Mount(prefix)) = m
  BY MountIs
<1>3. Mount(prefix) \in Parts /\ c \in Parts /\ Len(c) \in Nat
  BY MountIs, CleanParts
<1>4. PICK s \in Parts : s = Mount(prefix) \o c
  BY <1>3, ConcatProperties DEF Parts
<1>5. /\ Len(s) = m + Len(c)
      /\ \A i \in 1..m + Len(c) : s[i] = IF i <= m THEN Mount(prefix)[i] ELSE c[i - m]
  <2>1. PICK b \in Parts : b = Mount(prefix) /\ Len(b) = m
    BY <1>2, <1>3
  <2>2. s = b \o c
    BY <1>4, <2>1
  <2>3. /\ Len(s) = Len(b) + Len(c)
        /\ \A i \in 1..Len(b) + Len(c) : s[i] = IF i <= Len(b) THEN b[i] ELSE c[i - Len(b)]
    BY <1>3, <2>1, <2>2, ConcatProperties DEF Parts
  <2>. QED
    BY <2>1, <2>3
<1>6. /\ u \in Parts
      /\ Len(u) = Len(s) + Len(tail)
      /\ \A i \in 1..Len(s) + Len(tail) : u[i] = IF i <= Len(s) THEN s[i] ELSE tail[i - Len(s)]
  BY <1>1, <1>4, ConcatProperties DEF Parts
<1>. HIDE DEF u
<1>7. m + Len(c) <= Len(u)
  BY <1>1, <1>3, <1>5, <1>6
<1>8. \A i \in 1..m : u[i] = Mount(prefix)[i]
  BY <1>1, <1>3, <1>5, <1>6
<1>9. \A i \in 1..Len(c) : u[m + i] = c[i]
  <2> SUFFICES ASSUME NEW i \in 1..Len(c) PROVE u[m + i] = c[i]
    OBVIOUS
  <2>1. m + i \in 1..m + Len(c) /\ ~(m + i <= m) /\ (m + i) - m = i
    BY <1>3
  <2>2. s[m + i] = c[i]
    BY <1>5, <2>1
  <2>3. m + i \in 1..Len(s) + Len(tail) /\ m + i <= Len(s)
    BY <1>1, <1>3, <1>5
  <2>. QED
    BY <1>6, <2>2, <2>3
<1>10. ASSUME NEW i \in 1..Len(u), i > m + Len(c) PROVE u[i] = Empty
  <2>1. ~(i <= Len(s)) /\ i - Len(s) \in 1..Len(tail) /\ i \in 1..Len(s) + Len(tail)
    BY <1>1, <1>3, <1>5, <1>6, <1>10
  <2>. QED
    BY <1>1, <1>6, <2>1
<1>11. u \in Parts
  BY <1>6
<1>. QED
  BY <1>2, <1>7, <1>8, <1>9, <1>10, <1>11 DEF u

\* A clean path below a mount comes back from its href.
LEMMA HrefBack ==
    ASSUME NEW prefix \in Seq(Clean), NEW c \in Seq(Clean), NEW collection \in BOOLEAN,
           \A i \in 1..Len(prefix) : prefix[i] # Nul,
           \A i \in 1..Len(c) : c[i] # Nul,
           PathLength(c) <= MaxPath
    PROVE  Resource(prefix, Href(prefix, c, collection)) = [ok |-> TRUE, path |-> c]
<1>0. PICK m \in Nat : m = Len(prefix) + 1
  BY MountIs
<1>1. PICK u \in Parts :
         /\ u = Href(prefix, c, collection)
         /\ m + Len(c) <= Len(u)
         /\ \A i \in 1..m : u[i] = Mount(prefix)[i]
         /\ \A i \in 1..Len(c) : u[m + i] = c[i]
         /\ \A i \in 1..Len(u) : i > m + Len(c) => u[i] = Empty
  <2>1. PICK u : u = Href(prefix, c, collection)
    OBVIOUS
  <2>2. /\ u \in Parts
        /\ Len(prefix) + 1 + Len(c) <= Len(u)
        /\ \A i \in 1..Len(prefix) + 1 : u[i] = Mount(prefix)[i]
        /\ \A i \in 1..Len(c) : u[Len(prefix) + 1 + i] = c[i]
        /\ \A i \in 1..Len(u) : i > Len(prefix) + 1 + Len(c) => u[i] = Empty
    BY <2>1, HrefIs
  <2>. QED
    BY <1>0, <2>1, <2>2
<1>2. /\ Len(prefix) \in Nat /\ Len(Mount(prefix)) = m /\ Mount(prefix)[1] = Empty
      /\ \A i \in 1..Len(prefix) : Mount(prefix)[i + 1] = prefix[i]
      /\ Len(c) \in Nat
      /\ Len(u) \in Nat /\ DOMAIN u = 1..Len(u)
  BY <1>0, MountIs, CleanParts, LenProperties DEF Parts
<1>3. Empty \in Ignored /\ Empty # Nul
  BY NulAssumption DEF Ignored
<1>4. Nul \notin ToSet(u)
  <2> SUFFICES ASSUME NEW i \in 1..Len(u) PROVE u[i] # Nul
    BY <1>2 DEF ToSet
  <2>1. CASE i = 1
    BY <1>1, <1>2, <1>3, <2>1
  <2>2. CASE i \in 2..m
    <3>1. PICK j \in 1..Len(prefix) : i = j + 1 /\ i \in 1..m
      BY <1>0, <1>2, <2>2
    <3>2. Mount(prefix)[i] = prefix[j]
      BY <1>2, <3>1
    <3>. QED
      BY <1>1, <3>1, <3>2
  <2>3. CASE i \in m + 1..m + Len(c)
    <3>1. PICK j \in 1..Len(c) : i = m + j
      <4>1. \A a, b \in Nat : \A y \in a + 1..a + b : y - a \in 1..b /\ y = a + (y - a)
        OBVIOUS
      <4>. QED
        BY <1>2, <2>3, <4>1
    <3>2. u[i] = c[j]
      BY <1>1, <3>1
    <3>. QED
      BY <3>1, <3>2
  <2>4. CASE i > m + Len(c)
    BY <1>1, <1>3, <2>4
  <2>. QED
    BY <1>2, <2>1, <2>2, <2>3, <2>4
<1>5. Under(Mount(prefix), u)
  BY <1>1, <1>2 DEF Under
<1>6. CleanPath(Inside(prefix, u)) = c
  <2>1. CASE prefix = << >>
    <3>1. m = 1 /\ Inside(prefix, u) = u
      BY <1>0, <2>1, EmptySeq DEF Inside
    <3>2. ASSUME NEW i \in 1..Len(u), i \notin 1 + 1..1 + Len(c) PROVE u[i] \in Ignored
      <4>1. CASE i = 1
        BY <1>1, <1>2, <1>3, <3>1, <4>1
      <4>2. CASE i > m + Len(c)
        BY <1>1, <1>3, <4>2
      <4>. QED
        BY <1>2, <3>1, <3>2, <4>1, <4>2
    <3>3. 1 + Len(c) <= Len(u) /\ \A i \in 1..Len(c) : u[1 + i] = c[i]
      BY <1>1, <3>1
    <3>. QED
      BY <3>1, <3>2, <3>3, CleanAlready DEF Clean
  <2>2. CASE prefix # << >>
    <3>1. PICK v \in Parts :
             /\ v = Inside(prefix, u)
             /\ m + 1 <= Len(u) => Len(v) = Len(u) - m
             /\ Len(u) <= m => Len(v) = 0
             /\ \A i \in 1..Len(v) : v[i] = u[m + i]
      <4>1. PICK v \in Parts :
               /\ v = Inside(prefix, u)
               /\ Len(prefix) + 2 <= Len(u) => Len(v) = Len(u) - Len(prefix) - 1
               /\ Len(u) <= Len(prefix) + 1 => Len(v) = 0
               /\ \A i \in 1..Len(v) : v[i] = u[Len(prefix) + 1 + i]
        BY <2>2, InsideIs
      <4>2. Len(prefix) + 2 = m + 1 /\ Len(u) - Len(prefix) - 1 = Len(u) - m
        BY <1>0, <1>2
      <4>. QED
        BY <1>0, <4>1, <4>2
    <3>2. Len(v) = Len(u) - m /\ Len(v) \in Nat
      <4>1. m <= Len(u)
        BY <1>1, <1>2
      <4>2. Len(u) \in Nat
        BY <1>2
      <4>3. m + 1 <= Len(u) \/ Len(u) = m
        BY <4>1, <4>2
      <4>4. Len(u) = m => Len(u) <= m /\ Len(u) - m = 0
        BY <4>2
      <4>5. Len(u) - m \in Nat
        BY <4>1, <4>2
      <4>6. Len(v) = Len(u) - m
        BY <3>1, <4>3, <4>4
      <4>. QED
        BY <4>5, <4>6
    <3>3. 0 + Len(c) <= Len(v)
      BY <1>1, <1>2, <3>2
    <3>4. \A i \in 1..Len(c) : v[0 + i] = c[i]
      <4> SUFFICES ASSUME NEW i \in 1..Len(c) PROVE v[i] = c[i]
        OBVIOUS
      <4>1. i \in 1..Len(v)
        BY <1>2, <3>2, <3>3
      <4>. QED
        BY <1>1, <3>1, <4>1
    <3>5. ASSUME NEW i \in 1..Len(v), i \notin 0 + 1..0 + Len(c) PROVE v[i] \in Ignored
      <4>1. m + i \in 1..Len(u) /\ m + i > m + Len(c)
        BY <1>2, <3>2, <3>5
      <4>. QED
        BY <1>1, <1>3, <3>1, <4>1
    <3>. QED
      BY <3>1, <3>3, <3>4, <3>5, CleanAlready DEF Clean
  <2>. QED
    BY <2>1, <2>2
<1>. QED
  BY <1>1, <1>4, <1>5, <1>6, ResourceIs

\* A Handler that answered with the path of a request has a prefix in which
\* there is no NUL, and so has the path.
LEMMA ResourceFits ==
    ASSUME NEW prefix \in Seq(Clean), NEW p \in Parts, Resource(prefix, p).ok
    PROVE  LET c == Resource(prefix, p).path
           IN  /\ c \in Seq(Clean)
               /\ \A i \in 1..Len(prefix) : prefix[i] # Nul
               /\ \A i \in 1..Len(c) : c[i] # Nul
               /\ PathLength(c) <= MaxPath
<1>1. PICK c : c = Resource(prefix, p).path
  OBVIOUS
<1>2. c \in Seq(Clean \cap ToSet(p))
  BY <1>1, ResourceNames
<1>3. Nul \notin ToSet(p) /\ PathLength(c) <= MaxPath
  BY <1>1, ResourceIs
<1>4. \A i \in 1..Len(c) : c[i] # Nul
  BY <1>2, <1>3, ElementOfSeq
<1>5. c \in Seq(Clean)
  BY <1>2, SeqMonotonic
<1>6. ASSUME NEW i \in 1..Len(prefix) PROVE prefix[i] # Nul
  <2>1. prefix # << >>
    BY <1>6, EmptySeq
  <2>2. Under(Mount(prefix), p)
    BY <2>1, ResourceIs
  <2>3. Mount(prefix)[i + 1] = prefix[i]
    BY MountIs
  <2>4. i + 1 \in 1..Len(Mount(prefix)) /\ Len(Mount(prefix)) <= Len(p)
    BY <2>2, MountIs DEF Under
  <2>5. p[i + 1] = prefix[i]
    BY <2>2, <2>3, <2>4 DEF Under
  <2>6. i + 1 \in DOMAIN p
    BY <2>4, MountIs, LenProperties DEF Parts
  <2>. QED
    BY <1>3, <2>5, <2>6 DEF ToSet
<1>. QED
  BY <1>1, <1>3, <1>4, <1>5, <1>6

LEMMA RequestTypes ==
    ASSUME IInv
    PROVE  conf.prefix \in Seq(Clean) /\ call.url \in Parts /\ call.dest.path \in Parts
<1>1. conf.prefix \in Seq(Clean) /\ call.url \in Seq(STRING) /\ call.dest.path \in Seq(STRING)
  BY DEF IInv, Conf, Call, Clean
<1>. QED
  BY <1>1, SeqMonotonic DEF Parts, Part

\* The href of whatever a Handler serves leads back to it, for every prefix
\* and every URL (path.go:74-111).
THEOREM HrefsAlwaysComeBack == Spec => []HrefsComeBack
<1>1. IInv => HrefsComeBack
  <2> SUFFICES ASSUME IInv, Done, NEW collection \in BOOLEAN
               PROVE  Resource(conf.prefix, Href(conf.prefix, Given.path, collection))
                          = [ok |-> TRUE, path |-> Given.path]
    BY DEF HrefsComeBack
  <2>1. PICK c : c = Resource(conf.prefix, call.url).path
    OBVIOUS
  <2>2. Given.path = c /\ Resource(conf.prefix, call.url).ok
    BY <2>1, GivenIs DEF Handed, Here
  <2>3. /\ c \in Seq(Clean)
        /\ \A i \in 1..Len(conf.prefix) : conf.prefix[i] # Nul
        /\ \A i \in 1..Len(c) : c[i] # Nul
        /\ PathLength(c) <= MaxPath
    BY <2>1, <2>2, RequestTypes, ResourceFits
  <2>4. conf.prefix \in Seq(Clean)
    BY RequestTypes
  <2>. QED
    BY <2>2, <2>3, <2>4, HrefBack
<1>. QED
  BY InitInv, NextInv, <1>1, PTL DEF Spec

-----------------------------------------------------------------------------
(* cleanPath keeps the names that stay.  The run of cleanPath has a shadow, *)
(* the places in the path of the names it holds; how far the names that    *)
(* follow a place are ahead of the steps up is what decides.               *)

Name(p, i) == p[i] \notin Ignored \cup {Up}

\* How many more names than steps up there are after place i, up to place j.
Lead(p, i, j) == (j - i) - Count(p, i + 1, j, {Up} \cup Ignored) - Count(p, i + 1, j, {Up})

LEMMA CountNext ==
    ASSUME NEW p, NEW i \in Int, NEW j \in Int, i <= j + 1, NEW parts
    PROVE  /\ Count(p, i, j, parts) \in Nat
           /\ p[j + 1] \in parts => Count(p, i, j + 1, parts) = Count(p, i, j, parts) + 1
           /\ p[j + 1] \notin parts => Count(p, i, j + 1, parts) = Count(p, i, j, parts)
<1> DEFINE C(n) == {k \in i..n : p[k] \in parts}
<1>1. IsFiniteSet(i..j)
  BY FS_Interval
<1>2. IsFiniteSet(C(j))
  BY <1>1, FS_Subset
<1>3. Cardinality(C(j)) \in Nat /\ j + 1 \notin C(j)
  BY <1>2, FS_CardinalityType
<1>4. p[j + 1] \in parts => C(j + 1) = C(j) \cup {j + 1}
  OBVIOUS
<1>5. p[j + 1] \notin parts => C(j + 1) = C(j)
  OBVIOUS
<1>6. Cardinality(C(j) \cup {j + 1}) = Cardinality(C(j)) + 1
  BY <1>2, <1>3, FS_AddElement
<1>. QED
  BY <1>3, <1>4, <1>5, <1>6 DEF Count

LEMMA CountNone ==
    ASSUME NEW p, NEW i \in Int, NEW parts
    PROVE  Count(p, i + 1, i, parts) = 0
<1>1. {k \in i + 1..i : p[k] \in parts} = {}
  OBVIOUS
<1>. QED
  BY <1>1, FS_EmptySet DEF Count

LEMMA LeadNext ==
    ASSUME NEW p, NEW i \in Nat, NEW k \in Nat, i < k
    PROVE  /\ Lead(p, i, i) = 0
           /\ Lead(p, i, k - 1) \in Int
           /\ p[k] \in Ignored => Lead(p, i, k) = Lead(p, i, k - 1)
           /\ p[k] = Up => Lead(p, i, k) = Lead(p, i, k - 1) - 1
           /\ Name(p, k) => Lead(p, i, k) = Lead(p, i, k - 1) + 1
<1>1. Lead(p, i, i) = 0
  BY CountNone DEF Lead
<1>2. PICK j \in Int : j = k - 1 /\ j + 1 = k /\ i + 1 <= j + 1
  OBVIOUS
<1>3. ASSUME NEW parts
      PROVE  /\ Count(p, i + 1, j, parts) \in Nat
             /\ p[k] \in parts => Count(p, i + 1, k, parts) = Count(p, i + 1, j, parts) + 1
             /\ p[k] \notin parts => Count(p, i + 1, k, parts) = Count(p, i + 1, j, parts)
  BY <1>2, CountNext
<1>4. PICK a \in Nat : a = Count(p, i + 1, j, {Up} \cup Ignored)
  BY <1>3
<1>5. PICK b \in Nat : b = Count(p, i + 1, j, {Up})
  BY <1>3
<1>6. Lead(p, i, k - 1) = (j - i) - a - b
  BY <1>2, <1>4, <1>5 DEF Lead
<1>7. ASSUME p[k] \in Ignored PROVE Lead(p, i, k) = (k - i) - (a + 1) - b
  BY <1>3, <1>4, <1>5, <1>7, UpMeansUp DEF Lead
<1>8. ASSUME p[k] = Up PROVE Lead(p, i, k) = (k - i) - (a + 1) - (b + 1)
  BY <1>3, <1>4, <1>5, <1>8 DEF Lead
<1>9. ASSUME Name(p, k) PROVE Lead(p, i, k) = (k - i) - a - b
  BY <1>3, <1>4, <1>5, <1>9 DEF Lead, Name
<1>. QED
  BY <1>1, <1>2, <1>6, <1>7, <1>8, <1>9

LEMMA StaysIs ==
    ASSUME NEW p \in Parts, NEW i \in 1..Len(p)
    PROVE  Stays(p, i) <=> Name(p, i) /\ \A j \in i..Len(p) : Lead(p, i, j) >= 0
<1>1. Len(p) \in Nat /\ i \in Nat
  BY LenProperties DEF Parts
<1>2. \A j \in i..Len(p) : j = i \/ j \in i + 1..Len(p)
  BY <1>1
<1>3. Lead(p, i, i) = 0
  BY <1>1, LeadNext
<1>4. ASSUME NEW j \in i + 1..Len(p)
      PROVE  Lead(p, i, j) >= 0 <=>
                Count(p, i + 1, j, {Up}) <= (j - i) - Count(p, i + 1, j, {Up} \cup Ignored)
  <2>1. \A parts : Count(p, i + 1, j, parts) \in Nat
    BY <1>1, CountNext
  <2>2. PICK a \in Nat, b \in Nat : /\ a = Count(p, i + 1, j, {Up} \cup Ignored)
                                   /\ b = Count(p, i + 1, j, {Up})
    BY <2>1
  <2>. QED
    BY <1>1, <2>2 DEF Lead
<1>5. \A j \in i + 1..Len(p) : j \in i..Len(p)
  BY <1>1
<1> DEFINE Ahead(j) == Lead(p, i, j) >= 0
           Even(j) == Count(p, i + 1, j, {Up}) <= (j - i) - Count(p, i + 1, j, {Up} \cup Ignored)
<1>6. Ahead(i)
  BY <1>3
<1>7. \A j \in i + 1..Len(p) : Ahead(j) <=> Even(j)
  BY <1>4
<1>8. Stays(p, i) <=> Name(p, i) /\ \A j \in i + 1..Len(p) : Even(j)
  BY DEF Stays, Name
<1>. HIDE DEF Ahead, Even
<1>9. (\A j \in i..Len(p) : Ahead(j)) <=> \A j \in i + 1..Len(p) : Even(j)
  BY <1>2, <1>5, <1>6, <1>7
<1>. QED
  BY <1>8, <1>9 DEF Ahead

\* Place i has not been taken away by place k.
Holds(p, i, k) == Name(p, i) /\ \A j \in i..k : Lead(p, i, j) >= 0

LEMMA HoldsNext ==
    ASSUME NEW p, NEW i \in Nat, NEW k \in Nat, i < k
    PROVE  Holds(p, i, k) <=> Holds(p, i, k - 1) /\ Lead(p, i, k) >= 0
<1>1. \A j : j \in i..k <=> j \in i..k - 1 \/ j = k
  OBVIOUS
<1>. QED
  BY <1>1 DEF Holds

LEMMA OneOn ==
    ASSUME NEW p, NEW k \in Nat \ {0}, NEW i \in 1..k - 1
    PROVE  /\ Lead(p, i, k - 1) \in Int
           /\ p[k] \in Ignored => Lead(p, i, k) = Lead(p, i, k - 1)
           /\ p[k] = Up => Lead(p, i, k) = Lead(p, i, k - 1) - 1
           /\ Name(p, k) => Lead(p, i, k) = Lead(p, i, k - 1) + 1
           /\ Holds(p, i, k) <=> Holds(p, i, k - 1) /\ Lead(p, i, k) >= 0
<1>1. i \in Nat /\ k \in Nat /\ i < k
  OBVIOUS
<1>. QED
  BY <1>1, LeadNext, HoldsNext

LEMMA HoldsFirst ==
    ASSUME NEW p, NEW k \in Nat
    PROVE  /\ Holds(p, k, k) <=> Name(p, k)
           /\ Lead(p, k, k) = 0
<1>1. Lead(p, k, k) = 0
  BY CountNone DEF Lead
<1>2. \A j : j \in k..k <=> j = k
  OBVIOUS
<1>. QED
  BY <1>1, <1>2 DEF Holds

\* e is where the n names of out are among the first k parts of p: those that
\* hold, in their order, each as far ahead as there are names after it.
Shadows(e, n, out, p, k) ==
    /\ n \in Nat /\ e \in Seq(Nat) /\ Len(e) = n /\ Len(out) = n
    /\ \A x \in 1..n : /\ e[x] \in 1..k
                       /\ Holds(p, e[x], k)
                       /\ Lead(p, e[x], k) = n - x
                       /\ out[x] = p[e[x]]
    /\ \A x, y \in 1..n : x < y => e[x] < e[y]
    /\ \A i \in 1..k : Holds(p, i, k) => \E x \in 1..n : e[x] = i

LEMMA ShadowSkips ==
    ASSUME NEW p, NEW k \in Nat \ {0}, NEW e, NEW n \in Nat, NEW out, Shadows(e, n, out, p, k - 1),
           p[k] \in Ignored
    PROVE  Shadows(e, n, out, p, k)
<1>1. \A i \in 1..k - 1 : /\ Lead(p, i, k) = Lead(p, i, k - 1) /\ Lead(p, i, k - 1) \in Int
                          /\ Holds(p, i, k) <=> Holds(p, i, k - 1) /\ Lead(p, i, k) >= 0
  BY OneOn
<1>2. n \in Nat /\ e \in Seq(Nat) /\ Len(e) = n /\ Len(out) = n
  BY DEF Shadows
<1>3. ASSUME NEW x \in 1..n
      PROVE  /\ e[x] \in 1..k
             /\ Holds(p, e[x], k)
             /\ Lead(p, e[x], k) = n - x
             /\ out[x] = p[e[x]]
  <2>1. /\ e[x] \in 1..k - 1 /\ Holds(p, e[x], k - 1)
        /\ Lead(p, e[x], k - 1) = n - x /\ out[x] = p[e[x]]
    BY DEF Shadows
  <2>2. Lead(p, e[x], k) = n - x /\ n - x >= 0 /\ e[x] \in 1..k
    BY <1>1, <1>2, <2>1
  <2>. QED
    BY <1>1, <2>1, <2>2
<1>4. ASSUME NEW i \in 1..k, Holds(p, i, k) PROVE \E x \in 1..n : e[x] = i
  <2>1. i # k
    BY <1>4 DEF Holds, Name
  <2>2. i \in 1..k - 1
    BY <2>1
  <2>. QED
    BY <1>1, <1>4, <2>2 DEF Shadows
<1>5. \A x, y \in 1..n : x < y => e[x] < e[y]
  BY DEF Shadows
<1>. QED
  BY <1>2, <1>3, <1>4, <1>5 DEF Shadows

LEMMA ShadowKeeps ==
    ASSUME NEW p, NEW k \in Nat \ {0}, NEW e, NEW n \in Nat, NEW out \in Parts,
           Shadows(e, n, out, p, k - 1), Name(p, k), p[k] \in Part
    PROVE  Shadows(Append(e, k), n + 1, Append(out, p[k]), p, k)
<1>1. \A i \in 1..k - 1 : /\ Lead(p, i, k) = Lead(p, i, k - 1) + 1 /\ Lead(p, i, k - 1) \in Int
                          /\ Holds(p, i, k) <=> Holds(p, i, k - 1) /\ Lead(p, i, k) >= 0
  BY OneOn
<1>2. n \in Nat /\ e \in Seq(Nat) /\ Len(e) = n /\ Len(out) = n
  BY DEF Shadows
<1>3. PICK f : f = Append(e, k)
  OBVIOUS
<1>4. PICK o : o = Append(out, p[k])
  OBVIOUS
<1>6. /\ f \in Seq(Nat) /\ Len(f) = n + 1 /\ f[n + 1] = k
      /\ \A x \in 1..n : f[x] = e[x]
  BY <1>2, <1>3, AppendProperties
<1>7. /\ Len(o) = n + 1 /\ o[n + 1] = p[k]
      /\ \A x \in 1..n : o[x] = out[x]
  BY <1>2, <1>4, AppendProperties DEF Parts
<1>8. ASSUME NEW x \in 1..n + 1
      PROVE  /\ f[x] \in 1..k
             /\ Holds(p, f[x], k)
             /\ Lead(p, f[x], k) = n + 1 - x
             /\ o[x] = p[f[x]]
  <2>1. CASE x \in 1..n
    <3>1. /\ f[x] = e[x] /\ o[x] = out[x] /\ e[x] \in 1..k - 1 /\ Holds(p, e[x], k - 1)
          /\ Lead(p, e[x], k - 1) = n - x /\ out[x] = p[e[x]]
      BY <1>6, <1>7, <2>1 DEF Shadows
    <3>2. Lead(p, e[x], k) = n - x + 1 /\ n - x + 1 >= 0 /\ e[x] \in 1..k
      BY <1>1, <2>1, <3>1
    <3>3. n - x + 1 = n + 1 - x
      BY <2>1
    <3>. QED
      BY <1>1, <3>1, <3>2, <3>3
  <2>2. CASE x = n + 1
    <3>1. f[x] = k /\ o[x] = p[k] /\ n + 1 - x = 0 /\ k \in 1..k
      BY <1>6, <1>7, <2>2
    <3>. QED
      BY <3>1, HoldsFirst
  <2>. QED
    BY <2>1, <2>2
<1>9. ASSUME NEW i \in 1..k, Holds(p, i, k) PROVE \E x \in 1..n + 1 : f[x] = i
  <2>1. CASE i = k
    BY <1>6, <2>1
  <2>2. CASE i \in 1..k - 1
    <3>1. PICK x \in 1..n : e[x] = i
      BY <1>1, <1>9, <2>2 DEF Shadows
    <3>. QED
      BY <1>6, <3>1
  <2>. QED
    BY <2>1, <2>2
<1>10. ASSUME NEW x \in 1..n + 1, NEW y \in 1..n + 1, x < y PROVE f[x] < f[y]
  <2>1. x \in 1..n /\ f[x] = e[x] /\ e[x] \in 1..k - 1
    <3>1. x \in 1..n
      BY <1>10
    <3>. QED
      BY <1>6, <3>1 DEF Shadows
  <2>2. CASE y \in 1..n
    BY <1>6, <1>10, <2>1, <2>2 DEF Shadows
  <2>3. CASE y = n + 1
    BY <1>6, <2>1, <2>3
  <2>. QED
    BY <2>2, <2>3
<1>11. n + 1 \in Nat
  OBVIOUS
<1>12. Shadows(f, n + 1, o, p, k)
  BY <1>6, <1>7, <1>8, <1>9, <1>10, <1>11 DEF Shadows
<1>. QED
  BY <1>3, <1>4, <1>12

LEMMA ShadowUp ==
    ASSUME NEW p, NEW k \in Nat \ {0}, NEW e, NEW n \in Nat, NEW out \in Parts,
           Shadows(e, n, out, p, k - 1), p[k] = Up
    PROVE  \E f, m : Shadows(f, m, Resolve(out, Up), p, k)
<1>1. \A i \in 1..k - 1 : /\ Lead(p, i, k) = Lead(p, i, k - 1) - 1 /\ Lead(p, i, k - 1) \in Int
                          /\ Holds(p, i, k) <=> Holds(p, i, k - 1) /\ Lead(p, i, k) >= 0
  BY OneOn
<1>2. n \in Nat /\ e \in Seq(Nat) /\ Len(e) = n /\ Len(out) = n
  BY DEF Shadows
<1>3. ~Holds(p, k, k)
  BY DEF Holds, Name
<1>4. CASE out = Root
  <2>1. n = 0 /\ Resolve(out, Up) = out
    BY <1>2, <1>4, ResolveStaysUp, EmptySeq DEF Root
  <2>2. ASSUME NEW i \in 1..k, Holds(p, i, k) PROVE FALSE
    <3>1. i \in 1..k - 1
      BY <1>3, <2>2
    <3>2. \E x \in 1..n : e[x] = i
      BY <1>1, <2>2, <3>1 DEF Shadows
    <3>. QED
      BY <2>1, <3>2
  <2>3. \A x \in 1..n : FALSE
    BY <2>1
  <2>4. Shadows(e, n, out, p, k)
    BY <1>2, <2>2, <2>3 DEF Shadows
  <2>. QED
    BY <2>1, <2>4
<1>5. CASE out # Root
  <2>1. PICK o : o = Resolve(out, Up)
    OBVIOUS
  <2>2. /\ Len(out) \in Nat \ {0} /\ Len(o) = Len(out) - 1
        /\ \A x \in 1..Len(out) - 1 : o[x] = out[x]
    BY <1>5, <2>1, ResolveUp DEF Parts
  <2>3. PICK m \in Nat : m = n - 1 /\ m + 1 = n /\ m \in 0..n
    <3>1. n \in Nat \ {0}
      BY <1>2, <2>2
    <3>. QED
      BY <3>1
  <2>4. PICK f \in Seq(Nat) : Len(f) = m /\ \A x \in 1..m : f[x] = e[x]
    <3>1. m \in 0..Len(e) /\ e \in Seq(Nat)
      BY <1>2, <2>3
    <3>. QED
      <4>1. PICK f : f = SubSeq(e, 1, m)
        OBVIOUS
      <4>2. f \in Seq(Nat) /\ Len(f) = m /\ \A x \in 1..m : f[x] = e[x]
        BY <3>1, <4>1, Prefix
      <4>. QED
        BY <4>2
  <2>5. ASSUME NEW x \in 1..m
        PROVE  /\ f[x] \in 1..k
               /\ Holds(p, f[x], k)
               /\ Lead(p, f[x], k) = m - x
               /\ o[x] = p[f[x]]
    <3>1. x \in 1..n /\ f[x] = e[x] /\ o[x] = out[x]
      <4>1. x \in 1..Len(out) - 1 /\ x \in 1..n
        BY <1>2, <2>3
      <4>. QED
        BY <2>2, <2>4, <4>1
    <3>2. /\ e[x] \in 1..k - 1 /\ Holds(p, e[x], k - 1)
          /\ Lead(p, e[x], k - 1) = m + 1 - x /\ out[x] = p[e[x]]
      <4>1. /\ e[x] \in 1..k - 1 /\ Holds(p, e[x], k - 1)
            /\ Lead(p, e[x], k - 1) = n - x /\ out[x] = p[e[x]]
        BY <3>1 DEF Shadows
      <4>. QED
        BY <2>3, <4>1
    <3>3. /\ Lead(p, e[x], k) = Lead(p, e[x], k - 1) - 1
          /\ Holds(p, e[x], k) <=> Holds(p, e[x], k - 1) /\ Lead(p, e[x], k) >= 0
      BY <1>1, <3>2
    <3>4. Lead(p, e[x], k) = m - x /\ m - x >= 0 /\ e[x] \in 1..k
      BY <3>2, <3>3
    <3>. QED
      BY <3>1, <3>2, <3>3, <3>4
  <2>6. ASSUME NEW i \in 1..k, Holds(p, i, k) PROVE \E x \in 1..m : f[x] = i
    <3>1. i \in 1..k - 1
      BY <1>3, <2>6
    <3>2. PICK x \in 1..n : e[x] = i
      BY <1>1, <2>6, <3>1 DEF Shadows
    <3>3. Lead(p, i, k - 1) = m + 1 - x
      BY <2>3, <3>2 DEF Shadows
    <3>4. Lead(p, i, k) >= 0 /\ Lead(p, i, k) = m - x
      BY <1>1, <2>3, <2>6, <3>1, <3>3
    <3>5. x \in 1..m
      BY <2>3, <3>4
    <3>. QED
      BY <2>4, <3>2, <3>5
  <2>7. ASSUME NEW x \in 1..m, NEW y \in 1..m, x < y PROVE f[x] < f[y]
    <3>1. x \in 1..n /\ y \in 1..n
      BY <2>3
    <3>. QED
      BY <2>4, <2>7, <3>1 DEF Shadows
  <2>8. Len(o) = m
    BY <1>2, <2>2, <2>3
  <2>9. Shadows(f, m, o, p, k)
    BY <2>4, <2>5, <2>6, <2>7, <2>8 DEF Shadows
  <2>. QED
    BY <2>1, <2>9
<1>. QED
  BY <1>4, <1>5

LEMMA CleanShadow ==
    ASSUME NEW p \in Parts
    PROVE  \E e, n : Shadows(e, n, CleanPath(p), p, Len(p))
<1>1. PICK h : CleanRun(h, p) /\ CleanPath(p) = h[Len(p)]
  BY CleanRuns
<1> DEFINE T == {k \in 0..Len(p) : \E e, n : Shadows(e, n, h[k], p, k)}
<1>2. Len(p) \in Nat
  BY LenProperties DEF Parts
<1>3. 0 \in T
  <2>1. PICK e \in Seq(Nat) : e = << >> /\ Len(e) = 0
    BY EmptySeq
  <2>2. Len(h[0]) = 0 /\ h[0] = Root
    BY <1>1, EmptySeq DEF CleanRun, Root
  <2>3. (\A x \in 1..0 : FALSE) /\ 0 \in Nat
    OBVIOUS
  <2>4. Shadows(e, 0, h[0], p, 0)
    BY <2>1, <2>2, <2>3 DEF Shadows
  <2>. QED
    BY <1>2, <2>4
<1>4. ASSUME NEW k \in 1..Len(p), k - 1 \in T PROVE k \in T
  <2>1. /\ h[k] = Resolve(h[k - 1], p[k]) /\ h[k - 1] \in Parts /\ k \in 0..Len(p)
        /\ k \in Nat \ {0}
    BY <1>1, <1>2 DEF CleanRun
  <2>2. PICK e, n : Shadows(e, n, h[k - 1], p, k - 1)
    BY <1>4
  <2>3. n \in Nat
    BY <2>2 DEF Shadows
  <2>4. p[k] \in Part
    BY ElementOfSeq DEF Parts
  <2>5. \E f, m : Shadows(f, m, h[k], p, k)
    <3>1. CASE p[k] \in Ignored
      <4>1. Shadows(e, n, h[k - 1], p, k)
        BY <2>1, <2>2, <2>3, <3>1, ShadowSkips
      <4>. QED
        BY <2>1, <3>1, <4>1, ResolveSkips
    <3>2. CASE p[k] = Up
      BY <2>1, <2>2, <2>3, <3>2, ShadowUp
    <3>3. CASE Name(p, k)
      <4>1. Shadows(Append(e, k), n + 1, Append(h[k - 1], p[k]), p, k)
        BY <2>1, <2>2, <2>3, <2>4, <3>3, ShadowKeeps
      <4>. QED
        BY <2>1, <3>3, <4>1, ResolveKeeps DEF Name
    <3>. QED
      BY <3>1, <3>2, <3>3 DEF Name
  <2>. QED
    BY <2>1, <2>5
<1>5. Len(p) \in T
  <2>. HIDE DEF T
  <2>1. 0..Len(p) \subseteq T
    BY <1>2, <1>3, <1>4, EveryTurn
  <2>. QED
    BY <1>2, <2>1
<1>. QED
  BY <1>1, <1>5

Ranked(at, x) == CHOOSE i \in at : Cardinality({j \in at : j <= i}) = x

\* The number of an element of an increasing sequence is its rank.
LEMMA Ranks ==
    ASSUME NEW n \in Nat, NEW e \in Seq(Nat), Len(e) = n,
           \A x, y \in 1..n : x < y => e[x] < e[y],
           NEW at, at = {e[x] : x \in 1..n}
    PROVE  /\ Cardinality(at) = n
           /\ \A x \in 1..n : Ranked(at, x) = e[x]
<1>1. \A x \in 1..n : e[x] \in Nat
  BY ElementOfSeq
<1>2. ASSUME NEW x \in 0..n PROVE Cardinality({e[y] : y \in 1..x}) = x
  <2> DEFINE S == {e[y] : y \in 1..x}
             b == [y \in 1..x |-> e[y]]
  <2>1. b \in [1..x -> S]
    OBVIOUS
  <2>2. \A y, z \in 1..x : b[y] = b[z] => y = z
    <3> SUFFICES ASSUME NEW y \in 1..x, NEW z \in 1..x, e[y] = e[z] PROVE y = z
      OBVIOUS
    <3>1. y \in 1..n /\ z \in 1..n
      OBVIOUS
    <3>2. ~(y < z) /\ ~(z < y)
      BY <1>1, <3>1
    <3>. QED
      BY <3>1, <3>2
  <2>3. \A t \in S : \E y \in 1..x : b[y] = t
    OBVIOUS
  <2>. HIDE DEF S, b
  <2>4. b \in Bijection(1..x, S)
    BY <2>1, <2>2, <2>3 DEF Bijection, Injection, IsInjective, Surjection
  <2>5. ExistsBijection(1..x, S) /\ x \in Nat
    BY <2>4 DEF ExistsBijection
  <2>6. Cardinality(S) = x
    BY <2>5, FS_CountingElements
  <2>. QED
    BY <2>6 DEF S
<1>3. Cardinality(at) = n
  BY <1>2
<1>4. ASSUME NEW x \in 1..n PROVE Cardinality({j \in at : j <= e[x]}) = x
  <2>1. ASSUME NEW y \in 1..n PROVE e[y] <= e[x] <=> y \in 1..x
    <3>1. CASE y < x
      BY <1>1, <3>1
    <3>2. CASE y = x
      BY <1>1, <3>2
    <3>3. CASE x < y
      BY <1>1, <3>3
    <3>. QED
      BY <3>1, <3>2, <3>3
  <2>2. \A y \in 1..x : y \in 1..n
    OBVIOUS
  <2>3. {j \in at : j <= e[x]} = {e[y] : y \in 1..x}
    BY <2>1, <2>2
  <2>4. x \in 0..n
    OBVIOUS
  <2>. QED
    BY <1>2, <2>3, <2>4
<1>5. ASSUME NEW x \in 1..n
      PROVE  (CHOOSE i \in at : Cardinality({j \in at : j <= i}) = x) = e[x]
  <2> DEFINE R(i) == Cardinality({j \in at : j <= i})
             c == CHOOSE i \in at : R(i) = x
  <2>1. e[x] \in at /\ R(e[x]) = x
    BY <1>4
  <2>2. \A y \in 1..n : R(e[y]) = y
    BY <1>4
  <2>. HIDE DEF R
  <2>3. c \in at /\ R(c) = x
    BY <2>1
  <2>4. PICK y \in 1..n : c = e[y]
    BY <2>3
  <2>5. y = x
    BY <2>2, <2>3, <2>4
  <2>. QED
    BY <2>4, <2>5 DEF R
<1>. QED
  BY <1>3, <1>5 DEF Ranked

\* cleanPath gives the names of a path that stay, and nothing else.
LEMMA CleanIsStaying ==
    ASSUME NEW p \in Parts
    PROVE  CleanPath(p) = Staying(p)
<1>1. PICK e, n : Shadows(e, n, CleanPath(p), p, Len(p))
  BY CleanShadow
<1> DEFINE at == {i \in 1..Len(p) : Stays(p, i)}
<1>2. /\ n \in Nat /\ e \in Seq(Nat) /\ Len(e) = n /\ Len(CleanPath(p)) = n
      /\ \A x, y \in 1..n : x < y => e[x] < e[y]
      /\ \A x \in 1..n : CleanPath(p)[x] = p[e[x]]
  BY <1>1 DEF Shadows
<1>3. at = {e[x] : x \in 1..n}
  <2>1. \A i \in 1..Len(p) : Stays(p, i) <=> Holds(p, i, Len(p))
    BY StaysIs DEF Holds
  <2>2. \A x \in 1..n : e[x] \in 1..Len(p) /\ Holds(p, e[x], Len(p))
    BY <1>1 DEF Shadows
  <2>3. \A i \in 1..Len(p) : Holds(p, i, Len(p)) => \E x \in 1..n : e[x] = i
    BY <1>1 DEF Shadows
  <2>. QED
    BY <2>1, <2>2, <2>3
<1>4. PICK places : places = at
  OBVIOUS
<1>5. /\ Cardinality(places) = n
      /\ \A x \in 1..n : Ranked(places, x) = e[x]
  <2>1. places = {e[x] : x \in 1..n}
    BY <1>3, <1>4
  <2>. QED
    BY <1>2, <2>1, Ranks
<1>6. Staying(p) = [x \in 1..Cardinality(places) |-> p[Ranked(places, x)]]
  BY <1>4 DEF Staying, Ranked
<1>7. Staying(p) = [x \in 1..n |-> p[e[x]]]
  BY <1>5, <1>6
<1>8. CleanPath(p) = [x \in 1..n |-> CleanPath(p)[x]]
  <2>1. CleanPath(p) \in Seq(Names(p))
    BY CleanNames
  <2>2. CleanPath(p) \in [1..Len(CleanPath(p)) -> Names(p)]
    BY <2>1, LenProperties
  <2>. QED
    BY <1>2, <2>2
<1>. QED
  BY <1>2, <1>7, <1>8

\* The containment guarantee: whatever a URL or a Destination spells, the path
\* that is handed on is made of the names below the prefix that no ".." takes
\* away (path.go:18-29).
THEOREM PathsAlwaysClean == Spec => []PathsAreClean
<1>1. IInv => PathsAreClean
  <2> SUFFICES ASSUME IInv, Done PROVE PathsAreClean
    BY DEF PathsAreClean
  <2>1. /\ Given.path = Resource(conf.prefix, call.url).path
        /\ Given.dst = Resource(conf.prefix, call.dest.path).path
        /\ Given.method = call.method
        /\ Resource(conf.prefix, call.url).ok /\ Refusal = 0
    BY GivenIs DEF Handed, Here, Dest, Destination
  <2>2. \A url : Below(url) = Inside(conf.prefix, url)
    BY DEF Below, Inside
  <2>3. ASSUME NEW url \in Parts, Resource(conf.prefix, url).ok
        PROVE  InExport(url) /\ Resource(conf.prefix, url).path = Staying(Below(url))
    <3>1. InExport(url)
      BY <2>3, ResourceIs DEF InExport
    <3>2. Inside(conf.prefix, url) \in Parts
      BY RequestTypes, InsideIs
    <3>. QED
      BY <2>2, <3>1, <3>2, ResourceIs, CleanIsStaying
  <2>4. ASSUME call.method \in {"COPY", "MOVE"}
        PROVE  Resource(conf.prefix, call.dest.path).ok
    <3>1. Dest.status = 0
      BY <2>1, <2>4 DEF Refusal
    <3>. QED
      BY <3>1 DEF Dest, Destination
  <2>. QED
    BY <2>1, <2>3, <2>4, RequestTypes DEF PathsAreClean
<1>. QED
  BY InitInv, NextInv, <1>1, PTL DEF Spec

-----------------------------------------------------------------------------
(* Sequences of sequences, one after the other: block i of ss lies in its  *)
(* flattening behind the first h[i - 1] elements.                          *)

Blocks(h, ss, flat) ==
    /\ Len(ss) \in Nat /\ \A i \in 1..Len(ss) : Len(ss[i]) \in Nat
    /\ h \in [0..Len(ss) -> Nat]
    /\ h[0] = 0
    /\ \A i \in 1..Len(ss) : h[i] = h[i - 1] + Len(ss[i])
    /\ Len(flat) = h[Len(ss)]
    /\ \A i \in 1..Len(ss) : h[i] <= Len(flat)
    /\ \A i \in 1..Len(ss) : \A j \in 1..Len(ss[i]) : flat[h[i - 1] + j] = ss[i][j]

\* The prefixes of a flattening.
Flat(f, V, ss, n) ==
    /\ f \in [0..n -> Seq(V)]
    /\ f[0] = << >>
    /\ \A i \in 1..n : f[i] = f[i - 1] \o ss[i]

LEMMA FlatExists ==
    ASSUME NEW V, NEW n \in Nat, NEW ss \in Seq(Seq(V)), n = Len(ss)
    PROVE  \E f : Flat(f, V, ss, n)
<1>1. \A i \in 1..n : ss[i] \in Seq(V)
  BY ElementOfSeq
<1>2. [yk \in Seq(V) \X (1..n) |-> yk[1] \o ss[yk[2]]] \in [Seq(V) \X (1..n) -> Seq(V)]
  <2> SUFFICES ASSUME NEW yk \in Seq(V) \X (1..n) PROVE yk[1] \o ss[yk[2]] \in Seq(V)
    OBVIOUS
  <2>. QED
    BY <1>1, ConcatProperties
<1>3. PICK F \in [Seq(V) \X (1..n) -> Seq(V)] :
         \A y \in Seq(V), k \in 1..n : F[<< y, k >>] = y \o ss[k]
  BY <1>2
<1>4. << >> \in Seq(V) /\ Loop(F, Seq(V), n)
  BY EmptySeq DEF Loop
<1>5. PICK h : Runs(h, Seq(V), << >>, F, n)
  BY <1>4, RunExists
<1>6. ASSUME NEW k \in 1..n PROVE h[k] = h[k - 1] \o ss[k]
  <2>1. h[k - 1] \in Seq(V)
    <3>1. h \in [0..n -> Seq(V)]
      BY <1>5 DEF Runs
    <3>2. k - 1 \in 0..n
      OBVIOUS
    <3>. QED
      BY <3>1, <3>2
  <2>. QED
    BY <1>3, <1>5, <2>1 DEF Runs
<1>. QED
  BY <1>5, <1>6 DEF Runs, Flat

LEMMA FlattenIs ==
    ASSUME NEW V, NEW n \in Nat, NEW ss \in Seq(Seq(V)), n = Len(ss)
    PROVE  \E f : Flat(f, V, ss, n) /\ FlattenSeq(ss) = f[n]
<1> DEFINE Is(g) == g = [i \in 1..n |-> IF i = 1 THEN ss[i] ELSE g[i - 1] \o ss[i]]
<1>1. PICK f : Flat(f, V, ss, n)
  BY FlatExists
<1>0. ASSUME n # 0 PROVE f[1] = ss[1]
  <2>1. 1 \in 1..n
    BY <1>0
  <2>2. ss[1] \in Seq(V)
    BY <2>1, ElementOfSeq
  <2>3. f[1] = f[0] \o ss[1]
    <3>1. f[1] = f[1 - 1] \o ss[1]
      BY <1>1, <2>1 DEF Flat
    <3>. QED
      BY <3>1
  <2>4. f[1] = << >> \o ss[1]
    BY <1>1, <2>3 DEF Flat
  <2>. QED
    BY <2>2, <2>4, ConcatEmptySeq
<1>2. CASE n = 0
  <2>1. FlattenSeq(ss) = << >>
    BY <1>2, EmptySeq DEF FlattenSeq
  <2>. QED
    BY <1>1, <1>2, <2>1 DEF Flat
<1>3. CASE n # 0
  <2>1. FlattenSeq(ss) = (CHOOSE g : Is(g))[n]
    BY <1>3 DEF FlattenSeq
  <2>2. \E g : Is(g)
    <3> DEFINE g == [i \in 1..n |-> f[i]]
    <3>2. \A i \in 1..n : f[i] = f[i - 1] \o ss[i]
      BY <1>1 DEF Flat
    <3>3. ASSUME NEW i \in 1..n PROVE g[i] = IF i = 1 THEN ss[i] ELSE g[i - 1] \o ss[i]
      <4>1. CASE i = 1
        BY <1>0, <1>3, <4>1
      <4>2. CASE i # 1
        <5>1. i - 1 \in 1..n /\ g[i] = f[i]
          BY <4>2
        <5>2. g[i - 1] = f[i - 1]
          BY <5>1
        <5>. QED
          BY <3>2, <4>2, <5>1, <5>2
      <4>. QED
        BY <4>1, <4>2
    <3>4. Is(g)
      BY <3>3
    <3>. QED
      BY <3>4
  <2>3. PICK g : Is(g) /\ FlattenSeq(ss) = g[n]
    BY <2>1, <2>2
  <2>4. \A i \in 1..n : g[i] = IF i = 1 THEN ss[i] ELSE g[i - 1] \o ss[i]
    BY <2>3
  <2> DEFINE T == {k \in 0..n : k = 0 \/ g[k] = f[k]}
  <2>. HIDE DEF Is
  <2>5. ASSUME NEW k \in 1..n, k - 1 \in T PROVE k \in T
    <3>1. CASE k = 1
      BY <1>0, <1>3, <2>4, <3>1
    <3>2. CASE k # 1
      <4>1. g[k - 1] = f[k - 1]
        BY <2>5, <3>2
      <4>2. g[k] = g[k - 1] \o ss[k] /\ f[k] = f[k - 1] \o ss[k]
        BY <1>1, <2>4, <3>2 DEF Flat
      <4>3. g[k] = f[k]
        BY <4>1, <4>2
      <4>. QED
        BY <4>3
    <3>. QED
      BY <3>1, <3>2
  <2>6. 0 \in T
    OBVIOUS
  <2>7. n \in T
    <3>. HIDE DEF T
    <3>1. 0..n \subseteq T
      BY <2>5, <2>6, EveryTurn
    <3>. QED
      BY <3>1
  <2>. QED
    BY <1>1, <1>3, <2>3, <2>7
<1>. QED
  BY <1>2, <1>3

\* Where the blocks are.
LEMMA FlattenBlocks ==
    ASSUME NEW V, NEW n \in Nat, NEW ss \in Seq(Seq(V)), n = Len(ss)
    PROVE  FlattenSeq(ss) \in Seq(V) /\ \E h : Blocks(h, ss, FlattenSeq(ss))
<1>1. PICK f : Flat(f, V, ss, n) /\ FlattenSeq(ss) = f[n]
  BY FlattenIs
<1>2. f \in [0..n -> Seq(V)] /\ f[0] = << >> /\ \A i \in 1..n : f[i] = f[i - 1] \o ss[i]
  BY <1>1 DEF Flat
<1> DEFINE h == [i \in 0..n |-> Len(f[i])]
<1>3. h \in [0..n -> Nat] /\ h[0] = 0
  <2>1. \A i \in 0..n : Len(f[i]) \in Nat
    BY <1>2, LenProperties
  <2>. QED
    BY <1>2, <2>1, EmptySeq
<1>4. ASSUME NEW i \in 1..n
      PROVE  /\ f[i - 1] \in Seq(V) /\ ss[i] \in Seq(V)
             /\ Len(f[i]) = Len(f[i - 1]) + Len(ss[i])
             /\ \A x \in 1..Len(f[i - 1]) : f[i][x] = f[i - 1][x]
             /\ \A x \in 1..Len(ss[i]) : f[i][Len(f[i - 1]) + x] = ss[i][x]
             /\ Len(f[i - 1]) \in Nat /\ Len(ss[i]) \in Nat
  <2>1. i - 1 \in 0..n
    OBVIOUS
  <2>2. f[i - 1] \in Seq(V) /\ ss[i] \in Seq(V) /\ f[i] = f[i - 1] \o ss[i]
    BY <1>2, <2>1, ElementOfSeq
  <2>3. Len(f[i - 1]) \in Nat /\ Len(ss[i]) \in Nat
    BY <2>2, LenProperties
  <2>4. PICK s, t : s = f[i - 1] /\ t = ss[i]
    OBVIOUS
  <2>5. PICK r : r = s \o t
    OBVIOUS
  <2>6. /\ Len(r) = Len(s) + Len(t)
        /\ \A x \in 1..Len(s) + Len(t) : r[x] = IF x <= Len(s) THEN s[x] ELSE t[x - Len(s)]
    BY <2>2, <2>4, <2>5, ConcatProperties
  <2>7. Len(s) \in Nat /\ Len(t) \in Nat
    BY <2>3, <2>4
  <2>8. \A x \in 1..Len(s) : r[x] = s[x]
    BY <2>6, <2>7
  <2>9. ASSUME NEW x \in 1..Len(t) PROVE r[Len(s) + x] = t[x]
    <3>1. Len(s) + x \in 1..Len(s) + Len(t) /\ ~(Len(s) + x <= Len(s)) /\ Len(s) + x - Len(s) = x
      BY <2>7
    <3>. QED
      BY <2>6, <3>1
  <2>10. f[i] = r
    BY <2>2, <2>4, <2>5
  <2>. QED
    BY <2>2, <2>3, <2>4, <2>6, <2>8, <2>9, <2>10
\* What is behind the first h[m] elements in f[m] is there in every later one.
<1> DEFINE Kept(k) == \A m \in 0..k : \A x \in 1..Len(f[m]) : f[k][x] = f[m][x]
           Grows(k) == \A m \in 0..k : Len(f[m]) <= Len(f[k])
           T == {k \in 0..n : Kept(k) /\ Grows(k)}
<1>5. 0 \in T
  BY <1>2
<1>6. ASSUME NEW k \in 1..n, k - 1 \in T PROVE k \in T
  <2>1. Kept(k - 1) /\ Grows(k - 1)
    BY <1>6
  <2>2. Grows(k)
    <3> SUFFICES ASSUME NEW m \in 0..k PROVE Len(f[m]) <= Len(f[k])
      OBVIOUS
    <3>0. Len(f[k]) \in Nat
      BY <1>3
    <3>1. CASE m = k
      BY <3>0, <3>1
    <3>2. CASE m \in 0..k - 1
      <4>1. Len(f[m]) <= Len(f[k - 1]) /\ Len(f[m]) \in Nat
        BY <1>3, <2>1, <3>2
      <4>2. Len(f[k]) = Len(f[k - 1]) + Len(ss[k]) /\ Len(f[k - 1]) \in Nat /\ Len(ss[k]) \in Nat
        BY <1>4
      <4>3. \A a, b, c \in Nat : a <= b => a <= b + c
        OBVIOUS
      <4>. QED
        BY <4>1, <4>2, <4>3
    <3>. QED
      BY <3>1, <3>2
  <2>3. Kept(k)
    <3> SUFFICES ASSUME NEW m \in 0..k, NEW x \in 1..Len(f[m]) PROVE f[k][x] = f[m][x]
      OBVIOUS
    <3>1. CASE m = k
      BY <3>1
    <3>2. CASE m \in 0..k - 1
      <4>1. f[k - 1][x] = f[m][x] /\ Len(f[m]) <= Len(f[k - 1]) /\ Len(f[m]) \in Nat
        BY <1>3, <2>1, <3>2
      <4>2. x \in 1..Len(f[k - 1])
        BY <1>4, <4>1
      <4>3. f[k][x] = f[k - 1][x]
        BY <1>4, <4>2
      <4>. QED
        BY <4>1, <4>3
    <3>. QED
      BY <3>1, <3>2
  <2>. QED
    BY <2>2, <2>3
<1>7. n \in T
  <2>. HIDE DEF T
  <2>1. 0..n \subseteq T
    BY <1>5, <1>6, EveryTurn
  <2>. QED
    BY <2>1
<1>8. \A i \in 0..n : Len(f[i]) <= Len(f[n])
  BY <1>7
<1>9. ASSUME NEW i \in 1..n, NEW x \in 1..Len(ss[i])
      PROVE  f[n][Len(f[i - 1]) + x] = ss[i][x]
  <2>0. \A y \in 1..Len(f[i]) : f[n][y] = f[i][y]
    BY <1>7
  <2>1. f[i][Len(f[i - 1]) + x] = ss[i][x]
    BY <1>4
  <2>2. Len(f[i - 1]) + x \in 1..Len(f[i])
    <3>1. Len(f[i]) = Len(f[i - 1]) + Len(ss[i]) /\ Len(f[i - 1]) \in Nat /\ Len(ss[i]) \in Nat
      BY <1>4
    <3>2. \A a, b \in Nat : \A y \in 1..b : a + y \in 1..a + b
      OBVIOUS
    <3>. QED
      BY <3>1, <3>2
  <2>. QED
    BY <2>0, <2>1, <2>2
<1>10. Blocks(h, ss, f[n])
  <2>1. \A i \in 0..n : h[i] = Len(f[i])
    OBVIOUS
  <2>. HIDE DEF h, T
  <2>2. \A i \in 1..n : h[i] = Len(f[i]) /\ h[i - 1] = Len(f[i - 1]) /\ i \in 0..n
    BY <2>1
  <2>3. \A i \in 1..n : h[i] = h[i - 1] + Len(ss[i])
    BY <1>4, <2>2
  <2>4. \A i \in 1..n : h[i] <= Len(f[n])
    BY <1>8, <2>2
  <2>5. ASSUME NEW i \in 1..n, NEW x \in 1..Len(ss[i]) PROVE f[n][h[i - 1] + x] = ss[i][x]
    <3>1. h[i - 1] = Len(f[i - 1])
      BY <2>2
    <3>. QED
      BY <1>9, <3>1
  <2>. QED
    BY <1>3, <1>4, <2>1, <2>3, <2>4, <2>5 DEF Blocks
<1>. QED
  BY <1>1, <1>2, <1>10

\* Every element is in some block.
LEMMA BlockOf ==
    ASSUME NEW ss, NEW flat, NEW h, Blocks(h, ss, flat),
           NEW k \in 1..Len(flat)
    PROVE  \E i \in 1..Len(ss) : \E x \in 1..Len(ss[i]) :
              k = h[i - 1] + x /\ flat[k] = ss[i][x]
<1> DEFINE reached == {i \in 0..Len(ss) : k <= h[i]}
<1>1. Len(ss) \in Nat
  BY DEF Blocks
<1>2. Len(ss) \in reached
  BY <1>1 DEF Blocks
<1>3. PICK i \in reached : \A m \in reached : i <= m
  <2>1. reached \subseteq Nat
    OBVIOUS
  <2>. HIDE DEF reached
  <2>. QED
    BY <1>2, <2>1, LeastNumber
<1>4. i # 0
  BY DEF Blocks
<1>5. i \in 1..Len(ss) /\ i - 1 \in 0..Len(ss) /\ i - 1 \notin reached
  BY <1>1, <1>3, <1>4
<1>6. h[i - 1] \in Nat /\ h[i] \in Nat /\ h[i - 1] < k /\ k <= h[i] /\ h[i] = h[i - 1] + Len(ss[i])
  <2>1. h[i - 1] \in Nat /\ h[i] \in Nat
    BY <1>5 DEF Blocks
  <2>. QED
    BY <1>5, <2>1 DEF Blocks
<1>7. Len(ss[i]) \in Nat
  BY <1>5 DEF Blocks
<1>8. PICK x \in 1..Len(ss[i]) : x = k - h[i - 1]
  BY <1>6, <1>7
<1>9. k = h[i - 1] + x
  BY <1>6, <1>8
<1>. QED
  BY <1>5, <1>8, <1>9 DEF Blocks

-----------------------------------------------------------------------------
(* submittedTokens. *)

Item == ({"<>", "[]"} \X STRING) \cup {<< "(" >>, << ")" >>, << "Not" >>, << "blank" >>}

\* A condition as it is written in a list.
Cell(c) == (IF c.not THEN << << "Not" >> >> ELSE << >>) \o << << c.kind, c.value >> >>

LEMMA CellIs ==
    ASSUME NEW c \in Cond
    PROVE  /\ Cell(c) \in Seq(Item)
           /\ Len(Cell(c)) = IF c.not THEN 2 ELSE 1
           /\ Cell(c)[Len(Cell(c))] = << c.kind, c.value >>
           /\ c.not => Cell(c)[1] = << "Not" >>
<1>1. PICK it \in Item : it = << c.kind, c.value >>
  BY DEF Cond, Item
<1>2. PICK no \in Item : no = << "Not" >>
  BY DEF Item
<1>3. << it >> \in Seq(Item)
  OBVIOUS
<1>4. CASE c.not
  <2>1. Cell(c) = << no >> \o << it >>
    BY <1>1, <1>2, <1>4 DEF Cell
  <2>2. << no >> \in Seq(Item) /\ Len(<< no >>) = 1 /\ Len(<< it >>) = 1
    OBVIOUS
  <2>3. /\ Cell(c) \in Seq(Item) /\ Len(Cell(c)) = 1 + 1
        /\ \A i \in 1..1 + 1 : Cell(c)[i] = IF i <= 1 THEN << no >>[i] ELSE << it >>[i - 1]
    BY <1>3, <2>1, <2>2, ConcatProperties
  <2>4. Cell(c)[1] = no /\ Cell(c)[2] = it
    BY <2>3
  <2>. QED
    BY <1>1, <1>2, <1>4, <2>3, <2>4
<1>5. CASE ~c.not
  <2>1. Cell(c) = << >> \o << it >>
    BY <1>1, <1>5 DEF Cell
  <2>2. << >> \o << it >> = << it >>
    BY <1>3, ConcatEmptySeq
  <2>. QED
    BY <1>1, <1>3, <1>5, <2>1, <2>2
<1>. QED
  BY <1>4, <1>5 DEF Cond

\* Condition c is at place k of a header, with the Not it has or without.
At(H, k, c) ==
    /\ H[k] = << c.kind, c.value >>
    /\ c.not <=> k > 1 /\ H[k - 1][1] = "Not"

\* A header, or a list in it, is what some conditions are written as.
Spells(H, cs) ==
    /\ \A k \in 1..Len(H) : H[k][1] \in {"<>", "[]"} => \E c \in cs : At(H, k, c)
    /\ \A k \in 1..Len(H) : H[k][1] = "Not" =>
          k + 1 \in 1..Len(H) /\ \E c \in cs : c.not /\ H[k + 1] = << c.kind, c.value >>
    /\ \A c \in cs : \E k \in 1..Len(H) : At(H, k, c)

\* The last place of block i.
LEMMA LastOfBlock ==
    ASSUME NEW ss, NEW flat, NEW h, Blocks(h, ss, flat),
           NEW i \in 1..Len(ss), Len(ss[i]) # 0
    PROVE  h[i] \in 1..Len(flat) /\ flat[h[i]] = ss[i][Len(ss[i])]
<1>1. Len(ss) \in Nat
  BY DEF Blocks
<1>3. Len(ss[i]) \in Nat \ {0}
  BY DEF Blocks
<1>4. h[i - 1] \in Nat /\ h[i] \in Nat /\ h[Len(ss)] \in Nat
  <2>1. i - 1 \in 0..Len(ss) /\ i \in 0..Len(ss) /\ Len(ss) \in 0..Len(ss)
    BY <1>1
  <2>. QED
    BY <2>1 DEF Blocks
<1>5. h[i] = h[i - 1] + Len(ss[i]) /\ h[i] <= Len(flat) /\ Len(flat) \in Nat
  BY <1>4 DEF Blocks
<1>6. Len(ss[i]) \in 1..Len(ss[i])
  BY <1>3
<1>7. flat[h[i - 1] + Len(ss[i])] = ss[i][Len(ss[i])]
  BY <1>6 DEF Blocks
<1>. QED
  BY <1>3, <1>4, <1>5, <1>7

\* The conditions of one list, without its brackets.
Inner(list) == FlattenSeq([i \in 1..Len(list) |-> Cell(list[i])])

LEMMA InnerIs ==
    ASSUME NEW list \in Seq(Cond)
    PROVE  /\ Inner(list) \in Seq(Item)
           /\ Spells(Inner(list), ToSet(list))
<1>1. PICK n \in Nat : n = Len(list)
  BY LenProperties
<1>2. PICK ss : ss = [i \in 1..n |-> Cell(list[i])]
  OBVIOUS
<1>3. \A i \in 1..n : list[i] \in Cond /\ ss[i] = Cell(list[i])
  BY <1>1, <1>2, ElementOfSeq
<1>4. ss \in Seq(Seq(Item)) /\ Len(ss) = n
  BY <1>2, <1>3, CellIs
<1>5. PICK F : F = FlattenSeq(ss)
  OBVIOUS
<1>6. F \in Seq(Item)
  BY <1>4, <1>5, FlattenBlocks
<1>7. PICK h : Blocks(h, ss, F)
  BY <1>4, <1>5, FlattenBlocks
<1>8. Inner(list) = F
  BY <1>1, <1>2, <1>5 DEF Inner
<1>9. \A c : c \in ToSet(list) <=> \E i \in 1..n : c = list[i]
  BY <1>1, LenProperties DEF ToSet
<1>10. ASSUME NEW i \in 1..n
       PROVE  /\ h[i] \in 1..Len(F) /\ F[h[i]] = << list[i].kind, list[i].value >>
              /\ h[i] = h[i - 1] + (IF list[i].not THEN 2 ELSE 1)
              /\ h[i] \in Nat /\ h[i - 1] \in Nat
              /\ list[i].not => h[i - 1] + 1 \in 1..Len(F) /\ F[h[i - 1] + 1][1] = "Not"
  <2>1. /\ Len(ss[i]) = IF list[i].not THEN 2 ELSE 1
        /\ ss[i][Len(ss[i])] = << list[i].kind, list[i].value >>
        /\ list[i].not => ss[i][1] = << "Not" >>
    BY <1>3, CellIs
  <2>2. h[i] \in 1..Len(F) /\ F[h[i]] = << list[i].kind, list[i].value >>
    <3>1. i \in 1..Len(ss) /\ Len(ss[i]) # 0
      BY <1>4, <2>1
    <3>2. h[i] \in 1..Len(F) /\ F[h[i]] = ss[i][Len(ss[i])]
      BY <1>7, <3>1, LastOfBlock
    <3>. QED
      BY <2>1, <3>2
  <2>3. h[i - 1] \in Nat /\ h[i] \in Nat
    BY <1>4, <1>7 DEF Blocks
  <2>4. h[i] = h[i - 1] + (IF list[i].not THEN 2 ELSE 1)
    <3>1. \A j \in 1..Len(ss) : h[j] = h[j - 1] + Len(ss[j])
      BY <1>7 DEF Blocks
    <3>2. h[i] = h[i - 1] + Len(ss[i])
      BY <1>4, <3>1
    <3>. QED
      BY <2>1, <3>2
  <2>5. ASSUME list[i].not PROVE h[i - 1] + 1 \in 1..Len(F) /\ F[h[i - 1] + 1][1] = "Not"
    <3>1. 1 \in 1..Len(ss[i])
      BY <2>1, <2>5
    <3>2. F[h[i - 1] + 1] = << "Not" >>
      BY <1>4, <1>7, <2>1, <2>5, <3>1 DEF Blocks
    <3>. QED
      BY <2>2, <2>3, <2>4, <2>5, <3>2
  <2>. QED
    BY <2>2, <2>3, <2>4, <2>5
<1>11. ASSUME NEW i \in 1..n PROVE At(F, h[i], list[i])
  <2>1. CASE list[i].not
    <3>1. h[i] > 1 /\ h[i] - 1 = h[i - 1] + 1
      BY <1>10, <2>1
    <3>. QED
      BY <1>10, <2>1, <3>1 DEF At
  <2>2. CASE ~list[i].not
    <3>1. h[i] - 1 = h[i - 1]
      <4>1. h[i] = h[i - 1] + 1 /\ h[i - 1] \in Nat
        BY <1>10, <2>2
      <4>. QED
        BY <4>1
    <3>2. CASE i = 1
      <4>1. h[i] = 1
        <5>1. h[0] = 0
          BY <1>7 DEF Blocks
        <5>2. h[i - 1] = 0
          BY <3>2, <5>1
        <5>. QED
          BY <1>10, <2>2, <5>2
      <4>. QED
        BY <1>10, <2>2, <4>1 DEF At
    <3>3. CASE i # 1
      <4>1. PICK j \in 1..n : j = i - 1
        BY <3>3
      <4>2. F[h[i] - 1] = << list[j].kind, list[j].value >> /\ list[j] \in Cond
        BY <1>3, <1>10, <3>1, <4>1
      <4>3. F[h[i] - 1][1] # "Not"
        BY <4>2 DEF Cond
      <4>. QED
        BY <1>10, <2>2, <4>3 DEF At
    <3>. QED
      BY <3>2, <3>3
  <2>. QED
    BY <1>3, <2>1, <2>2 DEF Cond
\* Where a place of the flattening is.
<1>12. ASSUME NEW k \in 1..Len(F)
       PROVE  \E i \in 1..n : \/ k = h[i]
                              \/ list[i].not /\ k + 1 = h[i] /\ F[k][1] = "Not"
  <2>1. PICK i \in 1..Len(ss) : \E x \in 1..Len(ss[i]) : k = h[i - 1] + x /\ F[k] = ss[i][x]
    BY <1>7, BlockOf
  <2>2. PICK x \in 1..Len(ss[i]) : k = h[i - 1] + x
    BY <2>1
  <2>3. i \in 1..n /\ Len(ss[i]) = IF list[i].not THEN 2 ELSE 1
    BY <1>3, <1>4, CellIs
  <2>4. CASE list[i].not /\ x = 1
    BY <1>10, <2>2, <2>3, <2>4
  <2>5. CASE ~(list[i].not /\ x = 1)
    <3>1. x = Len(ss[i])
      BY <2>2, <2>3, <2>5
    <3>. QED
      BY <1>10, <2>2, <2>3, <3>1
  <2>. QED
    BY <2>4, <2>5
<1>13. ASSUME NEW k \in 1..Len(F), F[k][1] \in {"<>", "[]"}
       PROVE  \E c \in ToSet(list) : At(F, k, c)
  <2>1. PICK i \in 1..n : k = h[i]
    BY <1>12, <1>13
  <2>. QED
    BY <1>9, <1>11, <2>1
<1>14. ASSUME NEW k \in 1..Len(F), F[k][1] = "Not"
       PROVE  /\ k + 1 \in 1..Len(F)
              /\ \E c \in ToSet(list) : c.not /\ F[k + 1] = << c.kind, c.value >>
  <2>1. PICK i \in 1..n : k = h[i] \/ (list[i].not /\ k + 1 = h[i])
    BY <1>12
  <2>2. k # h[i]
    <3>1. F[h[i]] = << list[i].kind, list[i].value >> /\ list[i] \in Cond
      BY <1>3, <1>10
    <3>2. F[h[i]][1] # "Not"
      BY <3>1 DEF Cond
    <3>. QED
      BY <1>14, <3>2
  <2>3. k + 1 = h[i] /\ list[i].not
    BY <2>1, <2>2
  <2>4. h[i] \in 1..Len(F) /\ F[h[i]] = << list[i].kind, list[i].value >> /\ list[i] \in ToSet(list)
    BY <1>9, <1>10
  <2>. QED
    BY <2>3, <2>4
<1>15. \A c \in ToSet(list) : \E k \in 1..Len(F) : At(F, k, c)
  BY <1>9, <1>10, <1>11
<1>. QED
  BY <1>6, <1>8, <1>13, <1>14, <1>15 DEF Spells

\* What is between brackets or blanks, which are neither conditions nor Nots.
Bracketed(W) ==
    /\ Len(W) \in Nat /\ Len(W) >= 2
    /\ W[1][1] \notin {"<>", "[]", "Not"} /\ W[Len(W)][1] \notin {"<>", "[]", "Not"}

\* The conditions submittedTokens cannot tell a part from: to it, a tag is a
\* token that is not negated.
Untold(url) == [not |-> FALSE, kind |-> "<>", value |-> url]
Coded(part) == IF part.kind = "tag" THEN {Untold(part.url)} ELSE ToSet(part.conds)

LEMMA TagWritten ==
    ASSUME NEW part \in IfPart, part.kind = "tag"
    PROVE  /\ Written(part) \in Seq(Item)
           /\ Bracketed(Written(part))
           /\ Spells(Written(part), Coded(part))
<1>1. PICK u \in STRING : u = part.url
  BY DEF IfPart
<1>2. PICK a \in Item : a = << "blank" >>
  BY DEF Item
<1>3. PICK e \in Item : e = << "<>", u >>
  BY DEF Item
<1>4. PICK W : W = << a, e, a >>
  OBVIOUS
<1>5. Written(part) = W
  BY <1>1, <1>2, <1>3, <1>4 DEF Written
<1>6. W \in Seq(Item) /\ Len(W) = 3 /\ W[1] = a /\ W[2] = e /\ W[3] = a
  BY <1>4
<1>7. Bracketed(W)
  BY <1>2, <1>6 DEF Bracketed
<1>8. PICK c : c = Untold(u) /\ Coded(part) = {c}
  BY <1>1 DEF Coded
<1>9. c.kind = "<>" /\ c.value = u /\ ~c.not
  BY <1>8 DEF Untold
<1>10. At(W, 2, c)
  <2>1. W[2 - 1][1] # "Not"
    BY <1>2, <1>6
  <2>. QED
    BY <1>3, <1>6, <1>9, <2>1 DEF At
<1>11. ASSUME NEW k \in 1..Len(W), W[k][1] \in {"<>", "[]", "Not"} PROVE k = 2
  BY <1>2, <1>6, <1>11
<1>12. W[2][1] # "Not" /\ 2 \in 1..Len(W)
  BY <1>3, <1>6
<1>. QED
  BY <1>5, <1>6, <1>7, <1>8, <1>10, <1>11, <1>12 DEF Spells

LEMMA ListWritten ==
    ASSUME NEW part \in IfPart, part.kind = "list"
    PROVE  /\ Written(part) \in Seq(Item)
           /\ Bracketed(Written(part))
           /\ Spells(Written(part), Coded(part))
<1>0. PICK list \in Seq(Cond) : list = part.conds /\ Coded(part) = ToSet(list)
  BY DEF IfPart, Coded
<1>1. PICK F \in Seq(Item) : F = Inner(list) /\ Spells(F, ToSet(list))
  BY InnerIs
<1>2. PICK m \in Nat : m = Len(F)
  BY LenProperties
<1>3. PICK a \in Item : a = << "(" >>
  BY DEF Item
<1>4. PICK b \in Item : b = << ")" >>
  BY DEF Item
<1>5. PICK W : W = << a >> \o F \o << b >>
  OBVIOUS
<1>6. Written(part) = W
  BY <1>0, <1>1, <1>3, <1>4, <1>5 DEF Written, Inner, Cell
<1>7. << a >> \in Seq(Item) /\ Len(<< a >>) = 1 /\ << b >> \in Seq(Item) /\ Len(<< b >>) = 1
  OBVIOUS
<1>8. PICK aF : aF = << a >> \o F
  OBVIOUS
<1>9. /\ aF \in Seq(Item) /\ Len(aF) = 1 + m
      /\ \A i \in 1..1 + m : aF[i] = IF i <= 1 THEN << a >>[i] ELSE F[i - 1]
  BY <1>2, <1>7, <1>8, ConcatProperties
<1>10. /\ W \in Seq(Item) /\ Len(W) = 1 + m + 1
       /\ \A i \in 1..1 + m + 1 : W[i] = IF i <= 1 + m THEN aF[i] ELSE << b >>[i - (1 + m)]
  BY <1>5, <1>7, <1>8, <1>9, ConcatProperties
<1>11. W[1] = a
  <2>1. 1 \in 1..1 + m + 1 /\ 1 <= 1 + m /\ 1 \in 1..1 + m
    OBVIOUS
  <2>. QED
    BY <1>9, <1>10, <2>1
<1>12. W[m + 2] = b
  <2>1. m + 2 \in 1..1 + m + 1 /\ ~(m + 2 <= 1 + m) /\ m + 2 - (1 + m) = 1
    OBVIOUS
  <2>. QED
    BY <1>10, <2>1
<1>13. ASSUME NEW q \in 1..m PROVE W[q + 1] = F[q]
  <2>1. q + 1 \in 1..1 + m + 1 /\ q + 1 <= 1 + m /\ q + 1 \in 1..1 + m /\ ~(q + 1 <= 1) /\ q + 1 - 1 = q
    OBVIOUS
  <2>. QED
    BY <1>9, <1>10, <2>1
<1>14. Bracketed(W)
  BY <1>3, <1>4, <1>10, <1>11, <1>12 DEF Bracketed
<1>15. ASSUME NEW k \in 1..Len(W), W[k][1] \in {"<>", "[]", "Not"}
       PROVE  \E q \in 1..m : k = q + 1
  <2>1. k # 1 /\ k # m + 2
    BY <1>3, <1>4, <1>11, <1>12, <1>15
  <2>2. k - 1 \in 1..m
    BY <1>10, <2>1
  <2>. QED
    BY <2>2
<1>16. ASSUME NEW q \in 1..m, NEW c, At(F, q, c) PROVE At(W, q + 1, c)
  <2>1. W[q + 1] = F[q]
    BY <1>13
  <2>2. CASE q = 1
    <3>1. W[q + 1 - 1][1] # "Not"
      BY <1>3, <1>11, <2>2
    <3>. QED
      BY <1>16, <2>1, <2>2, <3>1 DEF At
  <2>3. CASE q # 1
    <3>1. PICK r \in 1..m : r = q - 1 /\ r + 1 = q
      BY <2>3
    <3>2. W[q + 1 - 1] = F[q - 1]
      BY <1>13, <3>1
    <3>. QED
      BY <1>16, <2>1, <2>3, <3>2 DEF At
  <2>. QED
    BY <2>2, <2>3
<1>17. ASSUME NEW k \in 1..Len(W), W[k][1] \in {"<>", "[]"}
       PROVE  \E c \in ToSet(list) : At(W, k, c)
  <2>1. PICK q \in 1..m : k = q + 1
    BY <1>15, <1>17
  <2>2. PICK c \in ToSet(list) : At(F, q, c)
    BY <1>1, <1>2, <1>13, <1>17, <2>1 DEF Spells
  <2>. QED
    BY <1>16, <2>1, <2>2
<1>18. ASSUME NEW k \in 1..Len(W), W[k][1] = "Not"
       PROVE  /\ k + 1 \in 1..Len(W)
              /\ \E c \in ToSet(list) : c.not /\ W[k + 1] = << c.kind, c.value >>
  <2>1. PICK q \in 1..m : k = q + 1
    BY <1>15, <1>18
  <2>2. q + 1 \in 1..m /\ \E c \in ToSet(list) : c.not /\ F[q + 1] = << c.kind, c.value >>
    BY <1>1, <1>2, <1>13, <1>18, <2>1 DEF Spells
  <2>3. W[q + 1 + 1] = F[q + 1]
    BY <1>13, <2>2
  <2>. QED
    BY <1>10, <2>1, <2>2, <2>3
<1>19. ASSUME NEW c \in ToSet(list) PROVE \E k \in 1..Len(W) : At(W, k, c)
  <2>1. PICK q \in 1..m : At(F, q, c)
    BY <1>1, <1>2 DEF Spells
  <2>2. q + 1 \in 1..Len(W)
    BY <1>10
  <2>. QED
    BY <1>16, <2>1, <2>2
<1>. QED
  BY <1>0, <1>6, <1>10, <1>14, <1>17, <1>18, <1>19 DEF Spells

LEMMA WrittenIs ==
    ASSUME NEW part \in IfPart
    PROVE  /\ Written(part) \in Seq(Item)
           /\ Bracketed(Written(part))
           /\ Spells(Written(part), Coded(part))
<1>1. part.kind \in {"tag", "list"}
  BY DEF IfPart
<1>. QED
  BY <1>1, TagWritten, ListWritten

AllCoded(parts) == UNION {Coded(parts[i]) : i \in 1..Len(parts)}

LEMMA CodedIs ==
    ASSUME NEW part \in IfPart
    PROVE  Coded(part) \in SUBSET Cond
<1>1. CASE part.kind = "tag"
  BY <1>1 DEF Coded, Untold, IfPart, Cond
<1>2. CASE part.kind = "list"
  <2>1. PICK list \in Seq(Cond) : list = part.conds /\ Coded(part) = ToSet(list)
    BY <1>2 DEF IfPart, Coded
  <2>2. \A x \in DOMAIN list : list[x] \in Cond
    OBVIOUS
  <2>. QED
    BY <2>1, <2>2 DEF ToSet
<1>. QED
  BY <1>1, <1>2 DEF IfPart

LEMMA HeaderSpells ==
    ASSUME NEW parts \in Seq(IfPart)
    PROVE  Header(parts) \in Seq(Item) /\ Spells(Header(parts), AllCoded(parts))
<1>1. PICK n \in Nat : n = Len(parts)
  BY LenProperties
<1>2. PICK ss : ss = [i \in 1..n |-> Written(parts[i])]
  OBVIOUS
<1>3. \A i \in 1..n : parts[i] \in IfPart /\ ss[i] = Written(parts[i])
  BY <1>1, <1>2, ElementOfSeq
<1>4. ASSUME NEW i \in 1..n
      PROVE  ss[i] \in Seq(Item) /\ Bracketed(ss[i]) /\ Spells(ss[i], Coded(parts[i]))
  BY <1>3, WrittenIs
<1>5. ss \in Seq(Seq(Item)) /\ Len(ss) = n
  BY <1>2, <1>3, <1>4
<1>6. PICK H : H = FlattenSeq(ss)
  OBVIOUS
<1>7. Header(parts) = H
  BY <1>1, <1>2, <1>6 DEF Header
<1>8. H \in Seq(Item)
  BY <1>5, <1>6, FlattenBlocks
<1>9. PICK h : Blocks(h, ss, H)
  BY <1>5, <1>6, FlattenBlocks
<1>10. \A c : c \in AllCoded(parts) <=> \E i \in 1..n : c \in Coded(parts[i])
  BY <1>1 DEF AllCoded
\* Block i, place by place.
<1>11. ASSUME NEW i \in 1..n, NEW x \in 1..Len(ss[i])
       PROVE  /\ h[i - 1] \in Nat /\ Len(ss[i]) \in Nat
              /\ h[i - 1] + x \in 1..Len(H) /\ H[h[i - 1] + x] = ss[i][x]
  <2>1. /\ h[i - 1] \in Nat /\ Len(ss[i]) \in Nat
        /\ h[i] = h[i - 1] + Len(ss[i]) /\ h[i] <= Len(H)
        /\ H[h[i - 1] + x] = ss[i][x]
    BY <1>5, <1>9 DEF Blocks
  <2>2. Len(H) \in Nat
    BY <1>8, LenProperties
  <2>. QED
    BY <2>1, <2>2
<1>12. ASSUME NEW i \in 1..n, NEW x \in 1..Len(ss[i]), NEW c, At(ss[i], x, c), c.kind \in {"<>", "[]"}
       PROVE  At(H, h[i - 1] + x, c)
  <2>1. Len(ss[i]) \in Nat /\ ss[i][1][1] \notin {"<>", "[]", "Not"}
    BY <1>4 DEF Bracketed
  <2>2. x # 1
    BY <1>12, <2>1 DEF At
  <2>3. PICK y \in 1..Len(ss[i]) : y = x - 1
    BY <2>1, <2>2
  <2>4. H[h[i - 1] + y] = ss[i][y] /\ H[h[i - 1] + x] = ss[i][x] /\ h[i - 1] \in Nat
    BY <1>11
  <2>5. PICK k \in Nat : k = h[i - 1] + x /\ k > 1 /\ k - 1 = h[i - 1] + y /\ x > 1 /\ x - 1 = y
    <3>1. PICK z \in Nat : z = h[i - 1]
      BY <2>4
    <3>2. x \in Nat /\ x > 1 /\ x - 1 = y /\ y \in Nat
      BY <2>1, <2>2, <2>3
    <3>3. z + x \in Nat /\ z + x > 1 /\ (z + x) - 1 = z + y
      BY <3>2
    <3>. QED
      BY <3>1, <3>2, <3>3
  <2>6. ss[i][x] = << c.kind, c.value >> /\ (c.not <=> ss[i][y][1] = "Not")
    BY <1>12, <2>5 DEF At
  <2>7. H[k] = << c.kind, c.value >> /\ (c.not <=> H[k - 1][1] = "Not")
    BY <2>4, <2>5, <2>6
  <2>8. At(H, k, c)
    BY <2>5, <2>7 DEF At
  <2>. QED
    BY <2>5, <2>8
<1>13. ASSUME NEW k \in 1..Len(H)
       PROVE  \E i \in 1..n : \E x \in 1..Len(ss[i]) : k = h[i - 1] + x /\ H[k] = ss[i][x]
  <2>1. \E i \in 1..Len(ss) : \E x \in 1..Len(ss[i]) : k = h[i - 1] + x /\ H[k] = ss[i][x]
    BY <1>9, BlockOf
  <2>. QED
    BY <1>5, <2>1
<1>14. ASSUME NEW i \in 1..n, NEW c \in Coded(parts[i]) PROVE c.kind \in {"<>", "[]"}
  <2>1. c \in Cond
    BY <1>3, CodedIs
  <2>. QED
    BY <2>1 DEF Cond
<1>15. ASSUME NEW k \in 1..Len(H), H[k][1] \in {"<>", "[]"}
       PROVE  \E c \in AllCoded(parts) : At(H, k, c)
  <2>1. PICK i \in 1..n : \E x \in 1..Len(ss[i]) : k = h[i - 1] + x /\ H[k] = ss[i][x]
    BY <1>13
  <2>2. PICK x \in 1..Len(ss[i]) : k = h[i - 1] + x /\ H[k] = ss[i][x]
    BY <2>1
  <2>3. PICK c \in Coded(parts[i]) : At(ss[i], x, c)
    BY <1>4, <1>15, <2>2 DEF Spells
  <2>. QED
    BY <1>10, <1>12, <1>14, <2>2, <2>3
<1>16. ASSUME NEW k \in 1..Len(H), H[k][1] = "Not"
       PROVE  /\ k + 1 \in 1..Len(H)
              /\ \E c \in AllCoded(parts) : c.not /\ H[k + 1] = << c.kind, c.value >>
  <2>1. PICK i \in 1..n : \E x \in 1..Len(ss[i]) : k = h[i - 1] + x /\ H[k] = ss[i][x]
    BY <1>13
  <2>2. PICK x \in 1..Len(ss[i]) : k = h[i - 1] + x /\ H[k] = ss[i][x]
    BY <2>1
  <2>3. PICK y \in 1..Len(ss[i]) : y = x + 1
    BY <1>4, <1>16, <2>2 DEF Spells
  <2>4. PICK c \in Coded(parts[i]) : c.not /\ ss[i][y] = << c.kind, c.value >>
    BY <1>4, <1>16, <2>2, <2>3 DEF Spells
  <2>5. h[i - 1] + y \in 1..Len(H) /\ H[h[i - 1] + y] = ss[i][y] /\ h[i - 1] \in Nat
    BY <1>11
  <2>6. k + 1 = h[i - 1] + y
    BY <2>2, <2>3, <2>5
  <2>. QED
    BY <1>10, <2>4, <2>5, <2>6
<1>17. ASSUME NEW c \in AllCoded(parts) PROVE \E k \in 1..Len(H) : At(H, k, c)
  <2>1. PICK i \in 1..n : c \in Coded(parts[i])
    BY <1>10
  <2>2. PICK x \in 1..Len(ss[i]) : At(ss[i], x, c)
    BY <1>4, <2>1 DEF Spells
  <2>. QED
    BY <1>11, <1>12, <1>14, <2>1, <2>2
<1>. QED
  BY <1>7, <1>8, <1>15, <1>16, <1>17 DEF Spells

\* What submittedTokens has after each item.
Scan  == [out : Seq(STRING), not : BOOLEAN, stopped : BOOLEAN]
Fresh == Reading(<< >>, FALSE, FALSE)

MeetRun(h, p) ==
    /\ h \in [0..Len(p) -> Scan]
    /\ h[0] = Fresh
    /\ \A k \in 1..Len(p) : h[k] = Meet(h[k - 1], p[k])

LEMMA FreshIs == Fresh \in Scan /\ Fresh.out = << >> /\ ~Fresh.not /\ ~Fresh.stopped
<1>1. << >> \in Seq(STRING)
  BY EmptySeq
<1>. QED
  BY <1>1 DEF Fresh, Reading, Scan

LEMMA MeetIs ==
    ASSUME NEW s \in Scan, NEW item \in Item
    PROVE  /\ Meet(s, item) \in Scan
           /\ ~s.stopped =>
                 /\ item[1] = "<>" =>
                       item[2] \in STRING /\
                       Meet(s, item) = Reading(IF s.not THEN s.out ELSE Append(s.out, item[2]), FALSE, FALSE)
                 /\ item[1] = "Not" => Meet(s, item) = Reading(s.out, TRUE, FALSE)
                 /\ item[1] \notin {"<>", "Not"} => Meet(s, item) = s
<1>1. CASE s.stopped
  <2>1. Meet(s, item) = s
    BY <1>1 DEF Meet
  <2>. QED
    BY <1>1, <2>1
<1>2. CASE ~s.stopped /\ item[1] = "<>"
  <2>1. item[2] \in STRING
    BY <1>2 DEF Item
  <2>2. s.out \in Seq(STRING) /\ s.not \in BOOLEAN
    BY DEF Scan
  <2>3. Append(s.out, item[2]) \in Seq(STRING)
    BY <2>1, <2>2, AppendProperties
  <2>4. Meet(s, item) = Reading(IF s.not THEN s.out ELSE Append(s.out, item[2]), FALSE, FALSE)
    BY <1>2 DEF Meet, Reading
  <2>5. (IF s.not THEN s.out ELSE Append(s.out, item[2])) \in Seq(STRING)
    BY <2>2, <2>3
  <2>6. Meet(s, item) \in Scan
    BY <2>4, <2>5 DEF Reading, Scan
  <2>. QED
    BY <1>2, <2>1, <2>4, <2>6
<1>3. CASE ~s.stopped /\ item[1] = "Not"
  BY <1>3 DEF Meet, Reading, Scan
<1>4. CASE ~s.stopped /\ item[1] \notin {"<>", "Not"}
  <2>1. item[1] # "cut"
    BY DEF Item
  <2>. QED
    BY <1>4, <2>1 DEF Meet
<1>. QED
  BY <1>1, <1>2, <1>3, <1>4 DEF Scan

LEMMA MeetRuns ==
    ASSUME NEW p \in Seq(Item)
    PROVE  \E h : MeetRun(h, p) /\ SubmittedTokens(p) = h[Len(p)].out
<1>0. PICK n \in Nat : n = Len(p)
  BY LenProperties
<1> DEFINE Is(f) == f = [s \in SUBSET DOMAIN p |->
                 IF s = {} THEN Fresh ELSE Meet(f[s \ {Max(s)}], p[Max(s)])]
<1>1. n \in Nat /\ DOMAIN p = 1..n /\ \A k \in 1..n : p[k] \in Item
  BY <1>0, LenProperties
<1>2. [yk \in Scan \X (1..n) |-> Meet(yk[1], p[yk[2]])] \in [Scan \X (1..n) -> Scan]
  BY <1>1, MeetIs
<1>3. PICK F \in [Scan \X (1..n) -> Scan] :
         \A y \in Scan, k \in 1..n : F[<< y, k >>] = Meet(y, p[k])
  BY <1>2
<1>4. Fresh \in Scan /\ Loop(F, Scan, n)
  BY FreshIs DEF Loop
<1>5. \E f : Is(f)
  <2>1. PICK f : Folds(f, Scan, Fresh, F, n)
    BY <1>4, FoldExists
  <2>2. f \in [SUBSET (1..n) -> Scan]
    BY <2>1 DEF Folds
  <2>3. ASSUME NEW s \in SUBSET (1..n)
        PROVE  f[s] = IF s = {} THEN Fresh ELSE Meet(f[s \ {Max(s)}], p[Max(s)])
    <3>1. CASE s = {}
      BY <2>1, <3>1 DEF Folds
    <3>2. CASE s # {}
      <4>1. Max(s) \in 1..n
        BY <1>1, <3>2, Greatest
      <4>2. f[s \ {Max(s)}] \in Scan
        BY <2>2
      <4>3. f[s] = F[<< f[s \ {Max(s)}], Max(s) >>]
        BY <2>1, <3>2 DEF Folds
      <4>. QED
        BY <1>3, <3>2, <4>1, <4>2, <4>3
    <3>. QED
      BY <3>1, <3>2
  <2>. QED
    BY <1>1, <2>2, <2>3
<1>6. SubmittedTokens(p) = (CHOOSE f : Is(f))[1..n].out
  BY <1>1 DEF SubmittedTokens, Fresh, FoldLeft, MapThenFoldSet
<1>7. PICK g : Is(g) /\ SubmittedTokens(p) = g[1..n].out
  BY <1>5, <1>6
<1>8. \A s \in SUBSET (1..n) :
         g[s] = IF s = {} THEN Fresh ELSE Meet(g[s \ {Max(s)}], p[Max(s)])
  BY <1>1, <1>7
<1>. HIDE DEF Is
<1>9. g[{}] = Fresh
  BY <1>8
<1>10. \A k \in 1..n : 1..k # {} /\ 1..k \in SUBSET (1..n)
  BY <1>1, FirstOnes
<1>11. \A k \in 1..n : g[1..k - 1] \in Scan => g[1..k] = F[<< g[1..k - 1], k >>]
  <2> SUFFICES ASSUME NEW k \in 1..n, g[1..k - 1] \in Scan
               PROVE  g[1..k] = F[<< g[1..k - 1], k >>]
    OBVIOUS
  <2>1. Max(1..k) = k /\ (1..k) \ {k} = 1..k - 1
    BY GreatestOfAll
  <2>2. 1..k # {} /\ 1..k \in SUBSET (1..n)
    BY <1>10
  <2>3. g[1..k] = Meet(g[1..k - 1], p[k])
    BY <1>8, <2>1, <2>2
  <2>. QED
    BY <1>3, <2>3
<1>12. PICK h : Runs(h, Scan, Fresh, F, n) /\ h[n] = g[1..n]
  <2>1. Follows(g, Scan, Fresh, F, n)
    BY <1>9, <1>11 DEF Follows
  <2>. QED
    BY <1>4, <2>1, FoldRuns
<1>13. MeetRun(h, p)
  <2>1. h \in [0..n -> Scan] /\ h[0] = Fresh
    BY <1>12 DEF Runs
  <2>2. ASSUME NEW k \in 1..n PROVE h[k] = Meet(h[k - 1], p[k])
    <3>1. h[k - 1] \in Scan
      BY <1>1, <2>1
    <3>. QED
      BY <1>3, <1>12, <3>1 DEF Runs
  <2>. QED
    BY <1>0, <2>1, <2>2 DEF MeetRun
<1>. QED
  BY <1>0, <1>7, <1>12, <1>13

LEMMA AppendSet ==
    ASSUME NEW S, NEW s \in Seq(S), NEW e \in S
    PROVE  ToSet(Append(s, e)) = ToSet(s) \cup {e}
<1>1. PICK n \in Nat : n = Len(s) /\ DOMAIN s = 1..n
  BY LenProperties
<1>2. PICK a : a = Append(s, e)
  OBVIOUS
<1>3. a \in Seq(S) /\ Len(a) = n + 1 /\ (\A i \in 1..n : a[i] = s[i]) /\ a[n + 1] = e
  BY <1>1, <1>2, AppendProperties
<1>4. DOMAIN a = 1..n + 1
  BY <1>3, LenProperties
<1>5. \A i : i \in 1..n + 1 <=> i \in 1..n \/ i = n + 1
  OBVIOUS
<1>. QED
  BY <1>1, <1>2, <1>3, <1>4, <1>5 DEF ToSet

\* What is known after k items of a header that spells cs.
Known(H, cs, s, k) ==
    LET told == {c \in cs : c.kind = "<>" /\ ~c.not}
        nots == \E c \in cs : c.kind = "[]" /\ c.not
    IN  /\ ~s.stopped
        /\ k > 0 /\ H[k][1] = "Not" => s.not
        /\ ToSet(s.out) \subseteq {c.value : c \in told}
        /\ ~nots /\ s.not => k > 0 /\ H[k][1] = "Not"
        /\ ~nots => \A j \in 1..k : \A c \in told : At(H, j, c) => c.value \in ToSet(s.out)

LEMMA KnownNext ==
    ASSUME NEW H \in Seq(Item), NEW cs \in SUBSET Cond, Spells(H, cs),
           NEW k \in 1..Len(H), NEW s \in Scan, Known(H, cs, s, k - 1)
    PROVE  Known(H, cs, Meet(s, H[k]), k)
<1> DEFINE told == {c \in cs : c.kind = "<>" /\ ~c.not}
           nots == \E c \in cs : c.kind = "[]" /\ c.not
<1>1. H[k] \in Item /\ k \in Nat /\ k > 0 /\ Len(H) \in Nat
  BY ElementOfSeq, LenProperties
<1>2. s.out \in Seq(STRING) /\ s.not \in BOOLEAN /\ ~s.stopped
  BY DEF Scan, Known
<1>3. ToSet(s.out) \subseteq {c.value : c \in told}
  BY DEF Known
<1>4. ASSUME ~nots, NEW j \in 1..k - 1, NEW c \in told, At(H, j, c)
      PROVE  c.value \in ToSet(s.out)
  BY <1>4 DEF Known
<1>5. CASE H[k][1] = "<>"
  <2>1. PICK r \in Scan : r = Meet(s, H[k])
    BY <1>1, MeetIs
  <2>2. PICK v \in STRING : v = H[k][2]
    BY <1>1, <1>2, <1>5, MeetIs
  <2>3. r = Reading(IF s.not THEN s.out ELSE Append(s.out, v), FALSE, FALSE)
    BY <1>1, <1>2, <1>5, <2>1, <2>2, MeetIs
  <2>4. r.out = (IF s.not THEN s.out ELSE Append(s.out, v)) /\ ~r.not /\ ~r.stopped
    BY <2>3 DEF Reading
  <2>5. PICK c \in cs : At(H, k, c)
    BY <1>5 DEF Spells
  <2>6. c.value = v /\ c.kind = "<>" /\ c \in Cond
    BY <1>5, <2>2, <2>5 DEF At
  <2>7. ToSet(r.out) = IF s.not THEN ToSet(s.out) ELSE ToSet(s.out) \cup {v}
    <3>1. ToSet(Append(s.out, v)) = ToSet(s.out) \cup {v}
      BY <1>2, AppendSet
    <3>. QED
      BY <1>2, <2>4, <3>1
  <2>8. ~s.not => c \in told
    <3> SUFFICES ASSUME ~s.not PROVE ~c.not
      BY <2>6
    <3>1. ~(k - 1 > 0 /\ H[k - 1][1] = "Not")
      BY DEF Known
    <3>2. ~(k > 1 /\ H[k - 1][1] = "Not")
      BY <1>1, <3>1
    <3>. QED
      BY <2>5, <3>2 DEF At
  <2>9. ToSet(r.out) \subseteq {d.value : d \in told}
    BY <1>3, <2>6, <2>7, <2>8
  <2>10. ASSUME ~nots, NEW j \in 1..k, NEW d \in told, At(H, j, d)
         PROVE  d.value \in ToSet(r.out)
    <3>1. CASE j \in 1..k - 1
      BY <1>4, <2>7, <2>10, <3>1
    <3>2. CASE j = k
      <4>1. d.value = v /\ ~(k > 1 /\ H[k - 1][1] = "Not")
        BY <2>2, <2>10, <3>2 DEF At
      <4>2. ~(k - 1 > 0 /\ H[k - 1][1] = "Not")
        BY <1>1, <4>1
      <4>3. ~s.not
        BY <2>10, <4>2 DEF Known
      <4>. QED
        BY <2>7, <4>1, <4>3
    <3>. QED
      BY <1>1, <3>1, <3>2
  <2>11. Known(H, cs, r, k)
    BY <1>5, <2>4, <2>9, <2>10 DEF Known
  <2>. QED
    BY <2>1, <2>11
<1>6. CASE H[k][1] = "Not"
  <2>1. PICK r \in Scan : r = Meet(s, H[k])
    BY <1>1, MeetIs
  <2>2. r = Reading(s.out, TRUE, FALSE)
    BY <1>1, <1>2, <1>6, <2>1, MeetIs
  <2>3. r.out = s.out /\ r.not /\ ~r.stopped
    BY <2>2 DEF Reading
  <2>4. ASSUME ~nots, NEW j \in 1..k, NEW d \in told, At(H, j, d)
        PROVE  d.value \in ToSet(r.out)
    <3>1. j # k
      <4>1. H[j][1] = "<>"
        BY <2>4 DEF At
      <4>. QED
        BY <1>6, <4>1
    <3>. QED
      BY <1>1, <1>4, <2>3, <2>4, <3>1
  <2>5. Known(H, cs, r, k)
    BY <1>1, <1>3, <1>6, <2>3, <2>4 DEF Known
  <2>. QED
    BY <2>1, <2>5
<1>7. CASE H[k][1] \notin {"<>", "Not"}
  <2>1. Meet(s, H[k]) = s
    BY <1>1, <1>2, <1>7, MeetIs
  <2>2. ASSUME ~nots, NEW j \in 1..k, NEW d \in told, At(H, j, d)
        PROVE  d.value \in ToSet(s.out)
    <3>1. j # k
      <4>1. H[j][1] = "<>"
        BY <2>2 DEF At
      <4>. QED
        BY <1>7, <4>1
    <3>. QED
      BY <1>1, <1>4, <2>2, <3>1
  <2>3. ASSUME ~nots, s.not PROVE FALSE
    <3>1. k - 1 > 0 /\ H[k - 1][1] = "Not"
      BY <2>3 DEF Known
    <3>2. PICK j \in 1..Len(H) : j = k - 1 /\ j + 1 = k
      BY <1>1, <3>1
    <3>3. PICK c \in cs : c.not /\ H[k] = << c.kind, c.value >>
      BY <3>1, <3>2 DEF Spells
    <3>4. c.kind = "[]"
      <4>1. c \in Cond /\ c.kind = H[k][1]
        BY <3>3
      <4>. QED
        BY <1>7, <4>1 DEF Cond
    <3>. QED
      BY <2>3, <3>3, <3>4
  <2>4. Known(H, cs, s, k)
    BY <1>2, <1>3, <1>7, <2>2, <2>3 DEF Known
  <2>. QED
    BY <2>1, <2>4
<1>. QED
  BY <1>5, <1>6, <1>7

\* The conditions a header is written from, tags taken for tokens.
LEMMA AllCodedIs ==
    ASSUME NEW parts \in Seq(IfPart)
    PROVE  /\ AllCoded(parts) \in SUBSET Cond
           /\ {c.value : c \in {d \in AllCoded(parts) : d.kind = "<>" /\ ~d.not}}
                 = Stated(parts) \cup Tags(parts)
           /\ NegatedEntityTag(parts) <=> \E c \in AllCoded(parts) : c.kind = "[]" /\ c.not
<1>1. \A i \in 1..Len(parts) : parts[i] \in IfPart /\ parts[i].kind \in {"tag", "list"}
  BY ElementOfSeq DEF IfPart
<1>2. \A p : p \in ToSet(parts) <=> \E i \in 1..Len(parts) : p = parts[i]
  BY LenProperties DEF ToSet
<1>3. \A c : c \in Conditions(parts)
             <=> \E i \in 1..Len(parts) : parts[i].kind = "list" /\ c \in ToSet(parts[i].conds)
  BY <1>2 DEF Conditions, OfKind
<1>4. \A u : u \in Tags(parts)
             <=> \E i \in 1..Len(parts) : parts[i].kind = "tag" /\ u = parts[i].url
  BY <1>2 DEF Tags, OfKind
<1>5. \A c : c \in AllCoded(parts)
             <=> \/ c \in Conditions(parts)
                 \/ \E u \in Tags(parts) : c = Untold(u)
  <2>1. \A c : c \in AllCoded(parts) <=> \E i \in 1..Len(parts) : c \in Coded(parts[i])
    BY DEF AllCoded
  <2>2. ASSUME NEW c, NEW i \in 1..Len(parts)
        PROVE  c \in Coded(parts[i])
                 <=> \/ parts[i].kind = "list" /\ c \in ToSet(parts[i].conds)
                     \/ parts[i].kind = "tag" /\ c = Untold(parts[i].url)
    BY <1>1 DEF Coded
  <2>3. ASSUME NEW c \in AllCoded(parts)
        PROVE  c \in Conditions(parts) \/ \E u \in Tags(parts) : c = Untold(u)
    <3>1. PICK i \in 1..Len(parts) : c \in Coded(parts[i])
      BY <2>1
    <3>2. CASE parts[i].kind = "list"
      <4>1. c \in ToSet(parts[i].conds)
        BY <2>2, <3>1, <3>2
      <4>. QED
        BY <1>3, <3>2, <4>1
    <3>3. CASE parts[i].kind = "tag"
      <4>1. c = Untold(parts[i].url)
        BY <2>2, <3>1, <3>3
      <4>2. parts[i].url \in Tags(parts)
        BY <1>4, <3>3
      <4>. QED
        BY <4>1, <4>2
    <3>. QED
      BY <1>1, <3>2, <3>3
  <2>4. ASSUME NEW c \in Conditions(parts) PROVE c \in AllCoded(parts)
    BY <1>3, <2>1, <2>2
  <2>5. ASSUME NEW u \in Tags(parts) PROVE Untold(u) \in AllCoded(parts)
    BY <1>4, <2>1, <2>2
  <2>. QED
    BY <2>3, <2>4, <2>5
<1>6. \A u : Untold(u).kind = "<>" /\ Untold(u).value = u /\ ~Untold(u).not
  BY DEF Untold
<1>7. AllCoded(parts) \in SUBSET Cond
  BY <1>1, CodedIs DEF AllCoded
<1>8. ASSUME NEW v
      PROVE  v \in {c.value : c \in {d \in AllCoded(parts) : d.kind = "<>" /\ ~d.not}}
               <=> v \in Stated(parts) \cup Tags(parts)
  BY <1>5, <1>6 DEF Stated
<1>9. NegatedEntityTag(parts) <=> \E c \in AllCoded(parts) : c.kind = "[]" /\ c.not
  BY <1>5, <1>6 DEF NegatedEntityTag
<1>. QED
  BY <1>7, <1>8, <1>9

\* Of a header written from tags and lists, what is submitted.
LEMMA Submitted ==
    ASSUME NEW parts \in Seq(IfPart)
    PROVE  LET submitted == ToSet(SubmittedTokens(Header(parts)))
               written   == Stated(parts) \cup Tags(parts)
           IN  /\ submitted \subseteq written
               /\ NegatedEntityTag(parts) \/ submitted = written
<1> DEFINE written == Stated(parts) \cup Tags(parts)
<1>0. PICK cs : cs = AllCoded(parts)
  OBVIOUS
<1>1. PICK H \in Seq(Item) : H = Header(parts) /\ Spells(H, cs)
  BY <1>0, HeaderSpells
<1>2. cs \in SUBSET Cond
  BY <1>0, AllCodedIs
<1>3. PICK h : MeetRun(h, H) /\ SubmittedTokens(H) = h[Len(H)].out
  BY MeetRuns
<1>4. PICK n \in Nat : n = Len(H)
  BY LenProperties
<1> DEFINE T == {k \in 0..n : Known(H, cs, h[k], k)}
<1>5. 0 \in T
  <2>1. h[0].out = << >> /\ ~h[0].not /\ ~h[0].stopped
    BY <1>3, FreshIs DEF MeetRun
  <2>2. ToSet(<< >>) = {}
    BY DEF ToSet
  <2>3. Known(H, cs, h[0], 0)
    BY <2>1, <2>2 DEF Known
  <2>. QED
    BY <2>3
<1>6. ASSUME NEW k \in 1..n, k - 1 \in T PROVE k \in T
  <2>1. h[k - 1] \in Scan /\ h[k] = Meet(h[k - 1], H[k]) /\ k \in 1..Len(H)
    BY <1>3, <1>4 DEF MeetRun
  <2>2. Known(H, cs, h[k], k)
    BY <1>1, <1>2, <1>6, <2>1, KnownNext
  <2>. QED
    BY <2>2
<1>7. Known(H, cs, h[n], n)
  <2>. HIDE DEF T
  <2>1. 0..n \subseteq T
    BY <1>5, <1>6, EveryTurn
  <2>2. n \in T
    BY <2>1
  <2>. QED
    BY <2>2 DEF T
<1>8. written = {c.value : c \in {d \in cs : d.kind = "<>" /\ ~d.not}}
  BY <1>0, AllCodedIs
<1>9. NegatedEntityTag(parts) <=> \E c \in cs : c.kind = "[]" /\ c.not
  BY <1>0, AllCodedIs
<1>. HIDE DEF written
<1>10. ToSet(h[n].out) \subseteq written
  BY <1>7, <1>8 DEF Known
<1>11. ASSUME ~NegatedEntityTag(parts) PROVE written \subseteq ToSet(h[n].out)
  <2> SUFFICES ASSUME NEW c \in cs, c.kind = "<>", ~c.not PROVE c.value \in ToSet(h[n].out)
    BY <1>8
  <2>1. PICK k \in 1..n : At(H, k, c)
    BY <1>1, <1>4 DEF Spells
  <2>. QED
    BY <1>7, <1>9, <1>11, <2>1 DEF Known
<1>. QED
  BY <1>1, <1>3, <1>4, <1>10, <1>11 DEF written

\* A handler gets of an If header of any tags and lists, and of any conditions
\* in them, the tokens the lists state and the URLs of the tags, and none that
\* is negated; all of them if no entity tag is negated (lock.go:355-428).
THEOREM TokensAlwaysAsStated == Spec => []TokensAsStated
<1>1. IInv => TokensAsStated
  <2> SUFFICES ASSUME IInv, Done, call.parts # << >> PROVE TokensAsStated
    BY DEF TokensAsStated
  <2>1. Given.tokens = SubmittedTokens(call.ifs)
    BY GivenIs DEF Handed
  <2>2. call.ifs = Header(call.parts) /\ call.parts \in Seq(IfPart)
    BY DEF IInv, Call
  <2>. QED
    BY <2>1, <2>2, Submitted DEF TokensAsStated
<1>. QED
  BY InitInv, NextInv, <1>1, PTL DEF Spec

=============================================================================
