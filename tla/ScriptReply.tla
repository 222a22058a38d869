----------------------------- MODULE ScriptReply -----------------------------
(***************************************************************************)
(* What a script prints, collected piece by piece, and the reply made of   *)
(* it when its output ends.                                                *)
(*                                                                         *)
(* CR and LF are bytes; [is |-> "header", name, lower, value] stands for   *)
(* the text of a header line, lower being its name in lower case, and      *)
(* [is |-> "text", ...] for text without a colon.                          *)
(***************************************************************************)
EXTENDS Integers, Sequences, SequencesExt

CONSTANTS
    Prints,  \* what scripts print: [lines, eol, data, bytes, codes, headers, body]
    Garbage  \* what an int that is not initialised may hold

VARIABLES
    print, \* what the script prints
    read,  \* how many of its bytes have been read
    output, \* _cgiOutput
    ended, \* the output has ended and the reply is made
    reply  \* _statusCode, _headers and _body

vars == <<print, read, output, ended, reply>>

CR == [is |-> "cr"]
LF == [is |-> "lf"]

\* The positions in s at which t begins, and the first of them, 0 for none.
Found(s, t) == {k \in 1..(Len(s) - Len(t) + 1) : SubSeq(s, k, k + Len(t) - 1) = t}
Find(s, t) ==
    IF Found(s, t) = {} THEN 0 ELSE CHOOSE k \in Found(s, t) : \A j \in Found(s, t) : k <= j

HeaderEnd(out) ==
    LET crlf == Find(out, <<CR, LF, CR, LF>>)
    IN  IF crlf # 0 THEN crlf ELSE Find(out, <<LF, LF>>)

\* Mutant: the separator is taken to have four bytes.
BodyStartOfCrlf(out) == HeaderEnd(out) + 4

\* bodyStart looks at the second byte of the separator.
BodyStart(out) == HeaderEnd(out) + (IF out[HeaderEnd(out) + 1] = LF THEN 2 ELSE 4)

Body(out) == IF HeaderEnd(out) = 0 THEN out ELSE SubSeq(out, BodyStart(out), Len(out))

\* The lines that std::getline() makes of s, each with the place it begins
\* after, and without a CR at its end.
Cuts(s) == {0, Len(s) + 1} \cup {k \in DOMAIN s : s[k] = LF}
Uncut(line) == IF line # <<>> /\ Last(line) = CR THEN Front(line) ELSE line
Lines(s) ==
    {<<c[1], Uncut(SubSeq(s, c[1] + 1, c[2] - 1))>> : c \in
        {d \in Cuts(s) \X Cuts(s) : d[1] < d[2] /\ \A k \in Cuts(s) : k <= d[1] \/ d[2] <= k}}

HeaderBlock(out) == IF HeaderEnd(out) = 0 THEN <<>> ELSE SubSeq(out, 1, HeaderEnd(out) - 1)
Headers(out) ==
    {<<line[1], line[2][1]>> : line \in
        {l \in Lines(HeaderBlock(out)) : l[2] # <<>> /\ l[2][1].is = "header"}}

Statuses(headers) == {h \in headers : h[2].lower = "status"}

\* Lines set one value after another, and the value of the last one stays.
Latest(headers) == {h \in headers : \A g \in headers : g[1] <= h[1]}
Standing(headers) ==
    {h \in headers : h \in Latest({g \in headers : g[2].name = h[2].name})}
Entries(headers) == {<<h[2].name, h[2].value>> : h \in Standing(headers)}

\* toInt() of a status line: the number it begins with; of nothing at all, an
\* int that was never set.
NoNumber == "none"
ToInt(value) == IF value = NoNumber THEN Garbage ELSE {value}

Codes(out) ==
    LET given == Statuses(Headers(out))
    IN  IF given = {} THEN {"200"} ELSE UNION {ToInt(h[2].value) : h \in Latest(given)}

\* _headers is searched for the name as it is written.
WithType(headers) ==
    IF \E h \in headers : h[1] = "Content-Type" THEN headers
    ELSE headers \cup {<<"Content-Type", "text/html">>}

\* The entries that the script's headers make in _headers.
Given(out) == Entries(Headers(out) \ Statuses(Headers(out)))

ErrorPage == <<[is |-> "error page"]>>

\* setCGIResponse.
SetCGIResponse(out) ==
    IF out = <<>>
    THEN reply' = [code |-> "500", headers |-> WithType({}), body |-> ErrorPage]
    ELSE \E code \in Codes(out) :
            reply' = [code |-> code, headers |-> WithType(Given(out)), body |-> Body(out)]

-----------------------------------------------------------------------------

Init ==
    /\ print \in Prints
    /\ read = 0
    /\ output = <<>>
    /\ ended = FALSE
    /\ reply = [code |-> "0", headers |-> {}, body |-> <<>>]

\* _handleCGIRead: read() > 0.
HandleCGIRead(n) ==
    /\ ~ended
    /\ read' = read + n
    /\ output' = output \o SubSeq(print.bytes, read + 1, read + n)
    /\ UNCHANGED <<print, ended, reply>>

\* _handleCGIRead: read() = 0.
EndOfFile ==
    /\ ~ended
    /\ read = Len(print.bytes)
    /\ ended' = TRUE
    /\ SetCGIResponse(output)
    /\ UNCHANGED <<print, read, output>>

Next ==
    \/ \E n \in 1..(Len(print.bytes) - read) : HandleCGIRead(n)
    \/ EndOfFile
    \/ ended /\ UNCHANGED vars

Spec == Init /\ [][Next]_vars

-----------------------------------------------------------------------------
(* A script's print says what reply it gets: codes, headers and body.      *)

BlankLines == {<<CR, LF, CR, LF>>, <<LF, LF>>}

\* Nothing is printed.
PrintsNothing(p) ==
    /\ p.bytes = <<>>
    /\ "500" \in p.codes /\ p.headers = WithType({}) /\ p.body = ErrorPage

\* No line of what is printed is blank.
PrintsBody(p) ==
    /\ p.bytes # <<>> /\ \A blank \in BlankLines : Found(p.bytes, blank) = {}
    /\ "200" \in p.codes /\ p.headers = WithType({}) /\ p.body = p.bytes

\* Lines with eol at their ends, a blank line, and data.
LaidOut(p) ==
    LET size == 1 + Len(p.eol)
        head == Len(p.lines) * size
    IN  /\ Len(p.bytes) = head + Len(p.eol) + Len(p.data)
        /\ \A n \in DOMAIN p.lines :
              /\ p.bytes[(n - 1) * size + 1] = p.lines[n]
              /\ \A k \in DOMAIN p.eol : p.bytes[(n - 1) * size + 1 + k] = p.eol[k]
        /\ \A k \in DOMAIN p.eol : p.bytes[head + k] = p.eol[k]
        /\ \A k \in DOMAIN p.data : p.bytes[head + Len(p.eol) + k] = p.data[k]

\* The code is that of the last line with Status, and the headers are the
\* others, of one name the last.  A script that ends its lines with LF prints no
\* blank line with CRLF after them, and one that states its Content-Type spells
\* it so.
PrintsHeaders(p) ==
    /\ p.lines # <<>> /\ p.eol \in {<<LF>>, <<CR, LF>>} /\ LaidOut(p)
    /\ \A n \in DOMAIN p.lines : p.lines[n] \notin {CR, LF}
    /\ p.eol = <<LF>> => Found(p.data, <<CR, LF, CR, LF>>) = {}
    /\ LET headers == {<<n, p.lines[n]>> : n \in {m \in DOMAIN p.lines : p.lines[m].is = "header"}}
           statuses == Statuses(headers)
       IN  /\ \A h \in headers : h[2].lower = "content-type" => h[2].name = "Content-Type"
           /\ IF statuses = {} THEN "200" \in p.codes
              ELSE \A h \in Latest(statuses) : ToInt(h[2].value) \subseteq p.codes
           /\ p.headers = WithType(Entries(headers \ statuses))
    /\ p.body = p.data

ByTheRules(p) ==
    /\ \A s \in {p.bytes, p.lines, p.data} : s \in Seq(Range(s))
    /\ PrintsNothing(p) \/ PrintsBody(p) \/ PrintsHeaders(p)

BodyAsPrinted == reply.body = print.body
HeadAsPrinted == reply.code \in print.codes /\ reply.headers = print.headers

\* The code of the reply is the one of the script's last Status, however that
\* is spelt, without one 200, and 500 for a script that printed nothing; its
\* headers are the script's, and a Content-Type.  The body is what the script
\* printed after its blank line, to the byte, or all of it if it printed no
\* headers: this is said of scripts that end their lines with LF or print no
\* headers, since to the others the code adds bytes (module AsCommented).  Where
\* the output was cut into reads does not matter (Response.cpp:119-172).
ReplyAsPrinted == ended => HeadAsPrinted /\ (print.eol # <<CR, LF>> => BodyAsPrinted)
=============================================================================
