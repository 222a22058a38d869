---------------------------- MODULE MCConnection ----------------------------
(***************************************************************************)
(* Conversations for module Connection, with what each request deserves,   *)
(* written by encoders that know nothing of the parser.                    *)
(***************************************************************************)
EXTENDS Connection

B(is) == [is |-> is, n |-> 0]
N(is, n) == [is |-> is, n |-> n]
S(is, text) == [is |-> is, text |-> text]
Crlf == <<B("cr"), B("lf")>>
Rows(texts) == FlattenSeq([k \in DOMAIN texts |-> <<texts[k]>> \o Crlf])
Top(version, uri) == [is |-> "line", n |-> 0, version |-> version, uri |-> uri]

\* The first two servers have a name in common, the third has no name.
MCServers == <<
    [names |-> {"a", "both"}, limit |-> 3],
    [names |-> {"b", "both"}, limit |-> 5],
    [names |-> {}, limit |-> 1]>>

Owner == [a |-> 1, both |-> 1, b |-> 2, unknown |-> 1]

Short == <<B("x")>>
Blank == <<B("cr"), B("lf")>>
Middle == Blank \o Blank \o Short
Long == Blank \o Middle

\* Bytes that mean nothing and bytes that look like the end of a line or like
\* the last chunk.
Data == {<<>>, <<B("x")>>, <<B("x"), B("y")>>, Crlf, <<B("lf"), B("cr")>>, <<N("size", 0)>> \o Crlf}

Get(version, host, connection, uri) ==
    [bytes  |-> Rows(<<Top(version, uri), S("host", host), S("connection", connection)>>) \o Crlf,
     body   |-> <<>>,
     code   |-> 0,
     server |-> Owner[host],
     uri    |-> uri,
     keep   |-> (version = "1.1" /\ connection # "close") \/ connection = "keep-alive"]

Hostless(version) ==
    [Get(version, "a", "keep-alive", "page") EXCEPT
        !.bytes = Rows(<<Top(version, "page"), S("connection", "keep-alive")>>) \o Crlf]

\* A body that the limit of its own virtual host does not allow is refused.
Judge(n, host) == IF n > MCServers[Owner[host]].limit THEN 413 ELSE 0

Post(host, connection, uri, data) ==
    [Get("1.1", host, connection, uri) EXCEPT
        !.bytes = Rows(<<Top("1.1", uri), S("host", host), S("connection", connection),
                         N("length", 7), N("length", Len(data))>>) \o Crlf \o data,
        !.body = data,
        !.code = Judge(Len(data), host)]

Chunk(data) == Rows(<<N("size", Len(data))>>) \o data \o Crlf
ChunksTop(host, connection, uri) ==
    Rows(<<Top("1.1", uri), S("host", host), S("connection", connection),
           N("length", 1), B("chunked")>>) \o Crlf
ZeroChunk == Rows(<<N("size", 0)>>)

\* Chunked, with a Content-Length that does not count.
Chunks(host, connection, uri, data1, data2) ==
    [Get("1.1", host, connection, uri) EXCEPT
        !.bytes = ChunksTop(host, connection, uri) \o Chunk(data1) \o Chunk(data2)
                    \o ZeroChunk \o Crlf,
        !.body = data1 \o data2,
        !.code = Judge(Len(data1 \o data2), host)]

Wrong(text, code) ==
    [Get("1.0", "a", "", "page") EXCEPT !.bytes = Rows(<<text>>) \o Crlf, !.code = code]

\* One request, of every shape, and then one that is not sent.  (Middle is too
\* long for the first server and not for the second.)
Alone == {<<m, Get("1.1", "a", "close", "page")>> : m \in
    {Post("a", "close", "script", d) : d \in Data \cup {Middle}}
      \cup {Post("b", "close", "script", d) : d \in Data \cup {Long}}
      \cup {Chunks("a", "close", "script", d, e) : d, e \in Data \ {<<>>}}
      \cup {Wrong(Top("2.0", "page"), 505), Wrong(B("empty line"), 400)}}

Kept == {Get("1.1", "b", "", "page"), Get("1.0", "both", "keep-alive", "script"),
         Get("1.1", "unknown", "", "script"), Post("a", "", "script", Blank),
         Post("b", "", "page", Short), Chunks("b", "", "script", Short, Blank)}
Final == {Get("1.0", "b", "", "script"), Get("1.1", "a", "close", "page"),
         Post("both", "close", "script", Long)}

\* Three requests; what follows one that ends the connection is never sent.
Talks ==
    {<<x, y, z>> : x \in Kept, y \in Kept, z \in Kept \cup Final}
      \cup {<<x, y, z>> : x \in Kept, y \in Final, z \in Final}
      \cup {<<Hostless("1.0"), x, Hostless("1.0")>> :
                x \in {Post("a", "", "script", Blank), Get("1.1", "unknown", "", "page")}}

MCConversations == Alone \cup Talks

-----------------------------------------------------------------------------
(* For the run that shows where the code departs from its comments.  The   *)
(* second request names no host, after one that did; the third has a body  *)
(* that its host does not allow and the host of the one before does; and   *)
(* of the fourth the CRLF after the last chunk may come late.              *)

OddTalk == <<
    Get("1.0", "b", "keep-alive", "page"),
    Hostless("1.0"),
    Post("a", "", "page", Middle),
    Chunks("b", "", "page", Short, Short),
    Get("1.1", "b", "close", "page")>>

-----------------------------------------------------------------------------
(* What the theorems assume of the conversations.                          *)

\* A message has at most so many lines and chunks.
MaxSteps == 10

Run(bytes, limit) ==
    LET after[n \in 0..MaxSteps] ==
            IF n = 0 THEN <<Parser!Feed(Parser!NewRequest(limit), bytes)>>
            ELSE LET run == after[n - 1]
                 IN  IF Parser!Quiet(Last(run)) THEN run ELSE Append(run, Parser!Parse(Last(run)))
    IN  after[MaxSteps]

\* ByTheRules, with the runs that there are.
HasRuns(c) ==
    \A k \in DOMAIN c : (\A j \in 1..(k - 1) : c[j].keep) =>
        \A before \in Visited(c) :
            ByItself(c[k], before, Run(c[k].bytes, Servers[before].limit), Visited(c))

Messages == UNION {Range(c) : c \in Conversations}
=============================================================================
