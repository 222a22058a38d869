----------------------------- MODULE MCResponse -----------------------------
(***************************************************************************)
(* Module Response for TLC: a configuration shaped like conf/default.conf, *)
(* one without a location for "/", a small disk, and requests for it.      *)
(***************************************************************************)
EXTENDS Response

Location(path, root, methods) ==
    [path |-> path, root |-> root, index |-> <<"i">>, methods |-> methods, autoindex |-> FALSE,
     redirect |-> <<>>, redirectCode |-> 0, uploadDir |-> <<>>, cgi |-> {}]

W == <<"w">>
Up == <<"w", "/", "u">>
Home == <<"/">>

\* Upload is reached under two locations, as www/upload is in default.conf;
\* "/u" is a beginning of "/u/l/" and of "/up", and "/u/l/" none of "/u/l".
Upload == [Location(<<"/", "u">>, Up, {"GET", "POST", "DELETE"}) EXCEPT !.uploadDir = Up]
DeleteTest == Location(<<"/", "d">>, Up, {"GET", "DELETE"})
Root == Location(Home, W, {"GET", "POST"})
Scripts == [Location(<<"/", "c">>, <<"w", "/", "c">>, {"GET", "POST", "PUT"}) EXCEPT !.cgi = {<<".py">>}]
Lists == [Location(<<"/", "u", "/", "l", "/">>, <<"w", "/", "l", "/">>, {"GET", "DELETE"})
            EXCEPT !.autoindex = TRUE, !.index = <<>>]
NoRoom == [Location(<<"/", "f">>, <<"w", "/", "f">>, {"GET", "POST"})
             EXCEPT !.uploadDir = <<"w", "/", "f">>]
Moved == [Location(<<"/", "r">>, W, {"GET"}) EXCEPT !.redirect = Home, !.redirectCode = 302]
PostOnly == [Location(<<"/", "u", "p">>, W, {"POST"}) EXCEPT !.uploadDir = <<"w", "/", "none">>]

MCSites == {
    <<Root, Lists, Upload, Scripts, Moved, DeleteTest, PostOnly>>,
    <<Upload, [Lists EXCEPT !.index = <<"i">>], [Scripts EXCEPT !.index = <<"s", ".py">>],
      [Moved EXCEPT !.redirectCode = 0]>>,
    <<NoRoom>>}

File(dir, name) == dir \o <<"/", name>>

MCDisks == {
    [p \in {W, Up, <<"w", "/", "c">>, <<"w", "/", "l">>, <<"w", "/", "f">>,
           <<"w", "/", "u", "/", "e">>} |-> Dir] @@
    [p \in {File(W, "i"), File(Up, "a"), <<"w", "/", "c", "/", "s", ".py">>,
            <<"w", "/", "l", "/", "b">>} |-> "old"]}

MCReadOnly == {<<"w", "/", "l">>}
MCFull == {<<"w", "/", "f">>}

Paths == {
    Home, <<"/", "u">>, <<"/", "u", "/">>, <<"/", "u", "/", "a">>, <<"/", "u", "/", "b">>,
    <<"/", "u", "/", "a", "/">>, <<"/", "u", "/", "e">>, <<"/", "u", "/", "e", "/">>,
    <<"/", "d", "/", "a">>, <<"/", "d", "/", "upload_", "0">>, <<"/", "u", "p">>,
    <<"/", "u", "/", "l">>, <<"/", "u", "/", "l", "/">>, <<"/", "u", "/", "l", "/", "b">>,
    <<"/", "c">>, <<"/", "c", "/">>, <<"/", "c", "/", "s", ".py">>, <<"/", "c", "/", "t", ".py">>,
    <<"/", "f">>, <<"/", "r">>}

Get(path) == [NoRequest EXCEPT !.method = "GET", !.path = path]

Part(name, content) == [name |-> name, content |-> content]
PartLists == {
    <<>>, <<Part(<<>>, "field"), Part(<<"a">>, "new")>>,
    <<Part(<<"b">>, "old"), Part(<<"a">>, "old"), Part(<<"b">>, "new")>>,
    <<Part(<<"b">>, "new"), Part(<<"e">>, "new"), Part(<<"a">>, "new")>>,
    <<Part(<<"n", "/", "b">>, "new")>>}

Post(path, type, parts) ==
    [Get(path) EXCEPT !.method = "POST", !.type = type, !.parts = parts, !.content = "raw"]

MCRequests ==
    {As(Get(p), m) : p \in Paths, m \in {"GET", "HEAD", "DELETE", "PUT", "BREW"}}
      \cup {Post(p, "raw", <<>>) : p \in Paths}
      \cup {Post(p, "form", f) : p \in {<<"/", "u">>, <<"/", "u", "p">>}, f \in PartLists}
      \cup {Post(<<"/", "f">>, "form", <<Part(<<"a">>, "new"), Part(<<"b">>, "new")>>)}
      \cup {Post(<<"/", "u">>, "form without boundary", <<>>)}
      \cup {[As(Get(Home), m) EXCEPT !.error = 400] : m \in {"GET", "HEAD"}}

MCOutputs == {[empty |-> e, status |-> s] : e \in BOOLEAN, s \in {0, 404}}

=============================================================================
