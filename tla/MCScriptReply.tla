---------------------------- MODULE MCScriptReply ----------------------------
(***************************************************************************)
(* Scripts for module ScriptReply.                                         *)
(***************************************************************************)
EXTENDS ScriptReply

H(name, lower, value) == [is |-> "header", name |-> name, lower |-> lower, value |-> value]
X == [is |-> "text"]
Type == H("Content-Type", "content-type", "text/plain")
Other == H("X-A", "x-a", "1")
Another == H("X-A", "x-a", "2")
Status(name, code) == H(name, "status", code)

MCGarbage == {"0", "200", "7"}

Html == {<<"Content-Type", "text/html">>}

\* Headers, each with the end of line eol, a blank line, the body.
Printed(texts, eol, data, codes, headers) ==
    [lines   |-> texts,
     eol     |-> eol,
     data    |-> data,
     bytes   |-> FlattenSeq([k \in DOMAIN texts |-> <<texts[k]>> \o eol]) \o eol \o data,
     codes   |-> codes,
     headers |-> headers,
     body    |-> data]

Bodies == {<<>>, <<X>>, <<X, LF, X>>, <<LF, X>>, <<X, LF, LF, X>>, <<CR, LF, X>>, <<Other, LF, X>>}

TypePair == <<"Content-Type", "text/plain">>
OtherPair == <<"X-A", "1">>
AnotherPair == <<"X-A", "2">>

WithEol(eol, datas) ==
    UNION {{Printed(<<Type>>, eol, d, {"200"}, {TypePair}),
            Printed(<<Status("Status", "404"), Type>>, eol, d, {"404"}, {TypePair}),
            Printed(<<Other, Status("status", "302")>>, eol, d, {"302"}, {OtherPair} \cup Html),
            Printed(<<Status("Status", NoNumber), Type>>, eol, d, MCGarbage, {TypePair}),
            Printed(<<Type, X, Other>>, eol, d, {"200"}, {TypePair, OtherPair}),
            Printed(<<Other, Type, Another>>, eol, d, {"200"}, {TypePair, AnotherPair}),
            Printed(<<Status("Status", "302"), Other, Status("status", "404")>>, eol, d,
                    {"404"}, {OtherPair} \cup Html)} : d \in datas}

NoHeaders ==
    {[lines |-> <<>>, eol |-> <<>>, data |-> d,
      bytes |-> d, codes |-> {"200"}, headers |-> Html, body |-> d] :
        d \in {<<X>>, <<X, LF, X>>, <<X, CR, LF, X>>}}

Nothing == [lines |-> <<>>, eol |-> <<>>, data |-> <<>>,
            bytes |-> <<>>, codes |-> {"500"}, headers |-> Html, body |-> ErrorPage]

MCPrints ==
    WithEol(<<LF>>, Bodies) \cup WithEol(<<CR, LF>>, Bodies) \cup NoHeaders \cup {Nothing}

\* A script that ends its lines with CRLF, as it stands in Response.cpp:133.
CrlfPrint == Printed(<<Type>>, <<CR, LF>>, <<X>>, {"200"}, {TypePair})

=============================================================================
