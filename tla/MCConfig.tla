------------------------------ MODULE MCConfig ------------------------------
(***************************************************************************)
(* Files for module Config: some written from what they mean, and others   *)
(* put together from tokens in any order.                                  *)
(***************************************************************************)
EXTENDS Config

MCWidth == 1073741824

\* Words that are not after listen or client_max_body_size are no numbers.
Word(t) == t \notin {"8080", "81", "h:81", "10M", "2K", "7"}

Tokenset ==
    {"8080", "81", "h:81", "10M", "2K", "7", "server", "{", "}", ";", "listen",
     "server_name", "root", "index", "client_max_body_size", "error_page", "location",
     "methods", "autoindex", "return", "upload_dir", "cgi", "word", "v"}

MCAddress ==
    [t \in Tokenset |->
        CASE t = "h:81" -> [host |-> "h", port |-> "81"]
          [] Word(t)    -> [host |-> NoHost, port |-> "0"]
          [] OTHER      -> [host |-> NoHost, port |-> t]]

MCBytes ==
    [t \in Tokenset |->
        CASE t = "10M" -> [number |-> 10, unit |-> "M"]
          [] t = "2K"  -> [number |-> 2, unit |-> "K"]
          [] t = "7"   -> [number |-> 7, unit |-> "none"]
          [] OTHER     -> [number |-> 0, unit |-> "none"]]

-----------------------------------------------------------------------------
(* What is written.  A field "" is not written.                            *)

Row(name, value) == IF value = "" THEN <<>> ELSE <<name, value, ";">>
Rows(name, values) == IF values = <<>> THEN <<>> ELSE <<name>> \o values \o <<";">>

LocationText(l) ==
    <<"location", l.path, "{">> \o Row("root", l.root) \o Row("index", l.index)
      \o Rows("methods", l.methods) \o Row("client_max_body_size", l.size) \o l.extra \o <<"}">>

Directives(s) ==
    Row("listen", s.listen) \o Rows("server_name", s.names) \o Row("root", s.root)
      \o Row("index", s.index) \o Row("client_max_body_size", s.size)
Locations(s) == FlattenSeq([k \in DOMAIN s.locations |-> LocationText(s.locations[k])])

ServerText(s) == <<"server", "{">> \o Directives(s) \o Locations(s) \o <<"}">>
ServerTextLate(s) == <<"server", "{">> \o Locations(s) \o Directives(s) \o <<"}">>

-----------------------------------------------------------------------------
(* What it means.                                                          *)

Or(value, default) == IF value = "" THEN default ELSE value
SizeMeant(t, default) ==
    CASE t = "" -> default [] t = "10M" -> 10485760 [] t = "2K" -> 2048 [] t = "7" -> 7

LocationMeant(l, s) ==
    [path |-> l.path, root |-> Or(l.root, Or(s.root, "www")),
     index |-> IF l.index = "''" THEN "" ELSE Or(l.index, Or(s.index, "index.html")),
     methods |-> IF l.methods = <<>> THEN <<"GET", "POST", "DELETE">> ELSE l.methods,
     autoindex |-> l.autoindex, code |-> l.code, redirect |-> l.redirect, upload |-> l.upload,
     cgi |-> l.cgi, limit |-> SizeMeant(l.size, SizeMeant(s.size, 1048576))]

NoExtra == [extra |-> <<>>, autoindex |-> FALSE, code |-> "0", redirect |-> "", upload |-> "", cgi |-> {}]
Bare == [path |-> "/", root |-> "", index |-> "", methods |-> <<>>, size |-> ""] @@ NoExtra

ServerMeant(s) ==
    [host |-> IF s.listen = "h:81" THEN "h" ELSE "0.0.0.0",
     port |-> IF s.listen = "h:81" THEN "81" ELSE Or(s.listen, "8080"),
     limit |-> SizeMeant(s.size, 1048576), root |-> Or(s.root, "www"),
     index |-> Or(s.index, "index.html"), names |-> s.names, pages |-> {},
     locations |-> IF s.locations = <<>> THEN <<LocationMeant(Bare, s)>>
                   ELSE [k \in DOMAIN s.locations |-> LocationMeant(s.locations[k], s)]]

Extras == {
    NoExtra,
    [NoExtra EXCEPT !.extra = <<"autoindex", "on", ";", "upload_dir", "v", ";", "word", "v", ";">>,
                    !.autoindex = TRUE, !.upload = "v"],
    [NoExtra EXCEPT !.extra = <<"return", "301", "v", ";", "cgi", ".py", "v", ";",
                                "cgi", ".py", "word", ";">>,
                    !.code = "301", !.redirect = "v", !.cgi = {<<".py", "word">>}]}

LocationsMeant ==
    {[path |-> p, root |-> r, index |-> n, methods |-> m, size |-> z] @@ NoExtra :
        p \in {"/", "/v"}, r \in {"", "w"}, n \in {"", "x", "''"},
        m \in {<<>>, <<"GET", "v">>}, z \in {"", "7"}}
      \cup {x @@ Bare : x \in Extras}

Plain(listen, names) ==
    [listen |-> listen, names |-> names, root |-> "", index |-> "", size |-> "", locations |-> <<>>]

ServersMeant ==
    {[listen |-> a, names |-> <<"word", "v">>, root |-> r, index |-> n, size |-> z, locations |-> l] :
        a \in {"", "81", "h:81"}, r \in {"", "w"}, n \in {"", "y"}, z \in {"", "10M", "2K"},
        l \in {<<>>} \cup {<<x>> : x \in LocationsMeant} \cup {<<Bare, x>> : x \in LocationsMeant}}

Says(s) == [tokens |-> ServerText(s), means |-> <<ServerMeant(s)>>]
SaysTwo(s, t) ==
    [tokens |-> ServerText(s) \o ServerText(t), means |-> <<ServerMeant(s), ServerMeant(t)>>]

Pairs == {SaysTwo(Plain("81", <<"v">>), Plain(a, <<"word">>)) : a \in {"81", "h:81", ""}}
           \cup {SaysTwo(Plain("81", <<"v">>), Plain("81", <<>>))}

-----------------------------------------------------------------------------
(* Tokens in any order, with nothing said of what they mean.               *)

Anything(tokens) == [tokens |-> tokens, means |-> <<>>]
Upto(n, alphabet) == UNION {[1..k -> alphabet] : k \in 0..n}

Scrambled ==
    {Anything(s) : s \in Upto(4, {"server", "{", "}", ";", "v"})}
      \cup {Anything(<<"server", "{">> \o s) :
               s \in Upto(3, {"server", "{", "}", ";", "listen", "server_name", "root",
                              "client_max_body_size", "error_page", "location", "word"})}
      \cup {Anything(<<"server", "{", "location", "/", "{">> \o s) :
               s \in Upto(3, {"{", "}", ";", "root", "index", "methods", "autoindex", "return",
                              "upload_dir", "cgi", "client_max_body_size", "word"})}

Two(a, b, m, n) ==
    Anything(ServerText(Plain(a, m)) \o ServerText(Plain(b, n)))

Same ==
    {Two(a, b, m, n) : a, b \in {"", "8080", "h:81"}, m, n \in Upto(2, {"v", "word", "root"})}

MCFiles == {Says(s) : s \in ServersMeant} \cup Pairs \cup Scrambled \cup Same

-----------------------------------------------------------------------------
(* For the run that shows where the code departs from its comments.        *)

\* A location inherits the root of its server, here one that comes after it.
RootAfterLocation ==
    LET s == [Plain("", <<>>) EXCEPT !.root = "w", !.locations = <<Bare>>]
    IN  [tokens |-> ServerTextLate(s), means |-> <<ServerMeant(s)>>]
=============================================================================
