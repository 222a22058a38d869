------------------------------- MODULE Request -------------------------------
(***************************************************************************)
(* Request.cpp: the parser, fed with whatever recv() returned, as a record *)
(* and the functions that change it.                                       *)
(*                                                                         *)
(* A byte is a record [is, n] or [is, text].  What the parser tells apart  *)
(* inside a line is one "byte" here: the text of a request line, which     *)
(* also has a version and a uri, of a header line, or of a chunk size.  CR *)
(* and LF are two, so a fragment may end between them.                     *)
(*                                                                         *)
(* feed() is Append and then Parse, which is one stage it runs through or  *)
(* one iteration of a loop it makes, until the request is Quiet: that is   *)
(* when feed() has returned.                                               *)
(***************************************************************************)
EXTENDS Integers, Sequences, SequencesExt

CONSTANT
    SizeWidth \* size_t is the numbers modulo this

Byte(is) == [is |-> is, n |-> 0]
Number(is, n) == [is |-> is, n |-> n]
Text(is, text) == [is |-> is, text |-> text]
RequestLine(version, uri) == [is |-> "line", n |-> 0, version |-> version, uri |-> uri]
CR == Byte("cr")
LF == Byte("lf")

LongUri == "longer than 8192"
NoLine == [version |-> "", uri |-> ""]
NoHeaders == [chunked |-> FALSE, length |-> "absent", value |-> 0, host |-> "", connection |-> ""]

\* Request::Request() and setMaxBodySize(limit)
NewRequest(limit) ==
    [state |-> "REQUEST_LINE",   \* _state
     raw |-> <<>>,               \* _raw
     line |-> NoLine,            \* _version and _uri
     headers |-> NoHeaders,      \* _headers: for the body, the virtual host and keep-alive
     body |-> <<>>,              \* _body
     contentLength |-> 0,        \* _contentLength
     maxBodySize |-> limit,      \* _maxBodySize
     errorCode |-> 0]            \* _errorCode

\* Every arithmetic on sizes wraps.
Size(n) == n % SizeWidth

\* substr(0, n) and substr(n): as much as there is.
Take(s, n) == SubSeq(s, 1, IF n < Len(s) THEN n ELSE Len(s))
Drop(s, n) == SubSeq(s, n + 1, Len(s))

-----------------------------------------------------------------------------
(* _raw.find("\r\n") and what is before and after it.                      *)

Ends(s) == {k \in 1..(Len(s) - 1) : s[k] = CR /\ s[k + 1] = LF}
HasLine(r) == Ends(r.raw) # {}
Eol(r) == CHOOSE k \in Ends(r.raw) : \A j \in Ends(r.raw) : k <= j

Line(r) == SubSeq(r.raw, 1, Eol(r) - 1)
AfterLine(r) == Drop(r.raw, Eol(r) + 1)

\* What the line says, if anything in it means something to the parser.
LineIs(r) == IF Line(r) = <<>> THEN Byte("empty") ELSE Head(Line(r))

-----------------------------------------------------------------------------

\* The checks of _parseRequestLine, in their order.
LineError(b) ==
    CASE b.is # "line"                                       -> 400
      [] b.is = "line" /\ b.version \notin {"1.0", "1.1"}     -> 505
      [] b.is = "line" /\ b.version \in {"1.0", "1.1"}        -> IF b.uri = LongUri THEN 414 ELSE 0

ParseRequestLine(r) ==
    LET error == LineError(LineIs(r))
    IN  [r EXCEPT !.raw = AfterLine(r),
                  !.line = IF LineIs(r).is = "line"
                           THEN [version |-> LineIs(r).version, uri |-> LineIs(r).uri] ELSE NoLine,
                  !.state = IF error = 0 THEN "HEADERS" ELSE "ERROR",
                  !.errorCode = error]

\* A header line; a second header of the same name replaces the first.
Kept(headers, b) ==
    CASE b.is = "chunked"    -> [headers EXCEPT !.chunked = TRUE]
      [] b.is = "length"     -> [headers EXCEPT !.length = "present", !.value = b.n]
      [] b.is = "host"       -> [headers EXCEPT !.host = b.text]
      [] b.is = "connection" -> [headers EXCEPT !.connection = b.text]
      [] OTHER               -> headers

\* One iteration of the loop of _parseHeaders that keeps a header line.
ParseHeader(r) == [r EXCEPT !.raw = AfterLine(r), !.headers = Kept(@, LineIs(r))]

\* The blank line: how will the body arrive?
EndOfHeaders(r) ==
    LET length == Size(r.headers.value)
    IN  IF r.headers.chunked
        THEN [r EXCEPT !.raw = AfterLine(r), !.state = "CHUNKED"]
        ELSE IF r.headers.length = "absent"
        THEN [r EXCEPT !.raw = AfterLine(r), !.state = "COMPLETE"]
        ELSE IF r.maxBodySize > 0 /\ length > r.maxBodySize
        THEN [r EXCEPT !.raw = AfterLine(r), !.contentLength = length,
                       !.state = "ERROR", !.errorCode = 413]
        ELSE [r EXCEPT !.raw = AfterLine(r), !.contentLength = length, !.state = "BODY"]

BodyArrived(r) == Len(r.raw) >= r.contentLength

ParseBody(r) ==
    [r EXCEPT !.body = Take(r.raw, r.contentLength),
              !.raw = Drop(r.raw, r.contentLength),
              !.state = "COMPLETE"]

\* strtol() of a line without a number is 0.
ChunkSize(r) == IF LineIs(r).is = "size" THEN Size(LineIs(r).n) ELSE 0

\* pos + 2 + chunkSize + 2, where pos is Eol - 1.
ChunkEnd(r) == Size(Eol(r) - 1 + 2 + ChunkSize(r) + 2)

\* Mutant: the CRLF after the data of a chunk is not waited for.
ChunkArrivedEarly(r) == Len(r.raw) >= Size(Eol(r) + 1 + ChunkSize(r))

ChunkArrived(r) == Len(r.raw) >= ChunkEnd(r)

TooLarge(r, new) == r.maxBodySize > 0 /\ Len(new) > r.maxBodySize

\* One iteration of the loop of _parseChunked.
ParseChunk(r) ==
    LET new == r.body \o Take(AfterLine(r), ChunkSize(r))
    IN  [r EXCEPT !.body = new,
                  !.raw = Drop(r.raw, ChunkEnd(r)),
                  !.state = IF TooLarge(r, new) THEN "ERROR" ELSE @,
                  !.errorCode = IF TooLarge(r, new) THEN 413 ELSE @]

\* A chunk of size 0 ends the body.  The CRLF after it is skipped if it is
\* there, and not waited for.
LastChunk(r) ==
    [r EXCEPT !.raw = IF Len(AfterLine(r)) >= 2 THEN Drop(AfterLine(r), 2) ELSE AfterLine(r),
              !.contentLength = Len(r.body),
              !.state = "COMPLETE"]

-----------------------------------------------------------------------------
(* feed()                                                                  *)

Feed(r, bytes) == [r EXCEPT !.raw = @ \o bytes]

AtLine(r, state) == r.state = state /\ HasLine(r)

AtRequestLine(r) == AtLine(r, "REQUEST_LINE")
AtHeader(r) == AtLine(r, "HEADERS") /\ Line(r) # <<>>
AtBlankLine(r) == AtLine(r, "HEADERS") /\ Line(r) = <<>>
AtBody(r) == r.state = "BODY" /\ BodyArrived(r)
AtChunk(r) == AtLine(r, "CHUNKED") /\ ChunkSize(r) # 0 /\ ChunkArrived(r)
AtLastChunk(r) == AtLine(r, "CHUNKED") /\ ChunkSize(r) = 0

Parse(r) ==
    CASE AtRequestLine(r) -> ParseRequestLine(r)
      [] AtHeader(r)      -> ParseHeader(r)
      [] AtBlankLine(r)   -> EndOfHeaders(r)
      [] AtBody(r)        -> ParseBody(r)
      [] AtChunk(r)       -> ParseChunk(r)
      [] AtLastChunk(r)   -> LastChunk(r)

\* feed() has returned.
Quiet(r) ==
    ~(\/ AtRequestLine(r) \/ AtHeader(r) \/ AtBlankLine(r)
      \/ AtBody(r) \/ AtChunk(r) \/ AtLastChunk(r))

Done(r) == r.state \in {"COMPLETE", "ERROR"}
=============================================================================
