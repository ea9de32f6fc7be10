----------------------------- MODULE MCFrontEnd -----------------------------
(* Every path of up to 5 parts; every body of up to 4 elements, and of 5 for *)
(* a PROPPATCH of one kind of container; every If header of one or two short *)
(* lists, tagged or not; the rest of a request varies where the others are   *)
(* plain, under every configuration.                                         *)
EXTENDS FrontEnd

MCConf(ro, prefix, basic, bearer, insecure) ==
    [ro |-> ro, prefix |-> prefix, basic |-> basic, bearer |-> bearer, insecure |-> insecure]
Open  == MCConf(FALSE, << >>, FALSE, FALSE, FALSE)
Confs == [ro : BOOLEAN, prefix : {<< >>, << "files" >>}, basic : BOOLEAN,
          bearer : BOOLEAN, insecure : BOOLEAN]

NoDoc == [elems |-> << >>, open |-> 0]
Plain == [method |-> "GET", url |-> << "", "files", "a" >>, link |-> "loopback",
          cred |-> << "none", "" >>, depth |-> "0", overwrite |-> "",
          dest |-> [host |-> "none", path |-> << "", "files", "b" >>],
          ifs |-> << >>, parts |-> << >>, timeout |-> << << "" >> >>,
          doc |-> NoDoc, lockToken |-> TRUE]

\* Every method to every configuration, over every link, with every credential.
Creds == {<< "none", "" >>} \cup ({"Basic", "Bearer"} \X {"accepted", "rejected"})
Doors(S) == {[conf |-> c, call |-> [Plain EXCEPT !.method = m, !.link = l, !.cred = k]] :
            c \in Confs, m \in Reads \cup Writes \cup {"BREW"},
            l \in {"tls", "loopback", "remote", "unparsed"}, k \in Creds}

\* Paths, as the request's and as the Destination's.
Parts == {"", ".", "..", "a", "files", "nul"}
Urls  == {<< "" >> \o p : p \in SeqOf(Parts, 4)} \cup {<< "*" >>}
Places(S) ==
    {[conf |-> [Open EXCEPT !.prefix = x], call |-> [Plain EXCEPT !.url = u, !.method = m]] :
        x \in {<< >>, << "files" >>}, u \in Urls, m \in {"GET"}}
    \cup
    {[conf |-> [Open EXCEPT !.prefix = x],
      call |-> [Plain EXCEPT !.method = "MOVE", !.dest.path = u]] :
        x \in {<< >>, << "files" >>}, u \in Urls}
    \cup
    {[conf |-> Open, call |-> [Plain EXCEPT !.method = m, !.url = u, !.dest.host = h]] :
        m \in Writes, u \in {<< "" >>, << "", "a" >>},
        h \in {"same", "other", "missing", "unparsed"}}

Spellings(S) ==
    {[conf |-> Open, call |-> [Plain EXCEPT !.method = m, !.depth = d, !.overwrite = o, !.lockToken = t]] :
        m \in {"PROPFIND", "COPY", "LOCK", "UNLOCK"}, d \in {"", "0", "1", "infinity", "2"},
        o \in {"", "T", "F", "X"}, t \in BOOLEAN}

\* The seconds at which one second times n reaches the cap, overflows, comes
\* to nothing and comes to a positive number again.
Alternatives == {<< "" >>, << "Infinite" >>} \cup ({"Second"} \X ({-1, 0, MaxInt + 1} \cup 1..MaxInt))
Timeouts(S) ==
    {[conf |-> Open, call |-> [Plain EXCEPT !.method = "LOCK", !.timeout = t]] :
        t \in SeqOf(Alternatives, 2) \ {<< >>}}

\* Two tokens, an entity tag, and headers that are cut off.
Condition == [not : BOOLEAN, kind : {"<>"}, value : {"t1", "t2"}]
             \cup [not : BOOLEAN, kind : {"[]"}, value : {"e"}]
Lists(n) == {[kind |-> "list", conds |-> s] : s \in SeqOf(Condition, n) \ {<< >>}}
About(u) == [kind |-> "tag", url |-> u]
Untagged == {<< l >> : l \in Lists(3)} \cup (Lists(1) \X Lists(3))
Tagged   == {<< About("/a"), l >> : l \in Lists(3)} \cup
            {<< About("/a"), k, l >> : k \in Lists(1), l \in Lists(2)} \cup
            {<< About("/a"), k, About("/b"), l >> : k \in Lists(1), l \in Lists(2)}
Ifs(S) ==
    {[conf |-> Open, call |-> [Plain EXCEPT !.method = "PUT", !.parts = p, !.ifs = Header(p)]] :
        p \in Untagged \cup Tagged}
    \cup
    {[conf |-> Open, call |-> [Plain EXCEPT !.method = "PUT", !.ifs = h]] :
        h \in SeqOf({<< "<>", "t1" >>, << "Not" >>, << "cut" >>}, 3)}

\* Documents with one root and the given names, whole or cut off at the end.
Depths(n) == {d \in [1..n -> 0..n - 1] : d[1] = 0 /\ \A i \in 2..n : d[i] \in 1..d[i - 1] + 1}
Docs(roots, names, most) ==
    {NoDoc} \cup
    UNION {UNION {
        {[elems |-> [i \in 1..n |-> [at |-> d[i], name |-> w[i]]], open |-> o] :
            w \in {<< r >> \o v : r \in roots, v \in [1..n - 1 -> names]},
            o \in {0, d[n] + 1}} : d \in Depths(n)} : n \in 1..most}
Documents(m, docs) ==
    {[conf |-> Open, call |-> [Plain EXCEPT !.method = m, !.doc = d]] : d \in docs}

MCExchanges ==
    << Doors({}), Places({}), Spellings({}), Timeouts({}), Ifs({}),
       Documents("PROPFIND", Docs({"propfind", "x"}, {"prop", "include", "allprop", "propname", "x"}, 4)),
       Documents("PROPPATCH", Docs({"propertyupdate", "x"}, {"prop", "set", "remove", "x"}, 4)),
       Documents("PROPPATCH", Docs({"propertyupdate"}, {"prop", "set", "x"}, 5)),
       Documents("LOCK", Docs({"lockinfo", "x"}, {"lockscope", "shared", "owner"}, 4)) >>
=============================================================================
