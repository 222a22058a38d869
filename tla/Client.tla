------------------------------- MODULE Client -------------------------------
(***************************************************************************)
(* The per-connection object of Client.cpp, as a record, and the functions *)
(* that change several of its fields at once.                              *)
(*                                                                         *)
(* Data is abstracted: the request is the kind of answer it calls for, the *)
(* response and the body are counts of pieces still to be transferred, and *)
(* the two time stamps are the ages that (now - stamp) yields, counted in  *)
(* ticks and saturating one above the timeout.                             *)
(***************************************************************************)
EXTENDS Integers

CONSTANTS
    Requests,   \* kinds of complete request: "page", "script", "scriptBody"
    RespSize,   \* pieces in a response, at most one full send() each
    BodySize,   \* pieces in the body of a "scriptBody" request
    Timeout,    \* TIMEOUT_SEC, in ticks
    None        \* no process, no connection: pid -1

ASSUME SizesAreNatural == RespSize \in Nat \ {0} /\ BodySize \in Nat \ {0} /\ Timeout \in Nat
ASSUME RequestKinds == Requests \subseteq {"page", "script", "scriptBody"}

NoFd == -1

\* What a response was built from.
Answers == {"none", "page", "output", "500", "504"}

\* Client::Client(fd, config, listenFd)
NewClient ==
    [req |-> "partial",        \* _request: "partial" until isComplete() or hasError()
     keepAlive |-> FALSE,      \* shouldKeepAlive(), known once the request is complete
     responseReady |-> FALSE,
     unsent |-> 0,             \* _sendBuffer.size() - _bytesSent
     answer |-> "none",        \* what _sendBuffer holds
     cgiRunning |-> FALSE,
     cgiPid |-> None,
     cgiFd |-> NoFd,
     cgiOutput |-> FALSE,      \* _cgiOutput is not empty
     cgiWriteFd |-> NoFd,
     bodyLeft |-> 0,           \* _cgiWriteBuffer.size() - _cgiWriteOffset
     idle |-> 0,               \* now - _lastActivity
     cgiAge |-> 0]             \* now - _cgiStartTime, counted while the script runs

\* Mutant: reset() does not clear the buffer of the script's output.
ResetKeepsOutput(c) == [NewClient EXCEPT !.cgiOutput = c.cgiOutput]

\* Client::reset().  It leaves _cgiStartTime alone, but nothing reads that
\* before the next launch sets it; here it goes back to 0.
Reset(c) == NewClient

\* setSendBuffer(...) and setResponseReady(true)
Respond(c, what) ==
    [c EXCEPT !.responseReady = TRUE, !.unsent = RespSize, !.answer = what]

\* The fields _processRequest sets once CGI::execute returned 0.
Launched(c, pid, rd, wr) ==
    [c EXCEPT !.cgiRunning = TRUE, !.cgiPid = pid, !.cgiFd = rd, !.cgiAge = 0,
              !.cgiWriteFd = IF c.req = "scriptBody" THEN wr ELSE NoFd,
              !.bodyLeft   = IF c.req = "scriptBody" THEN BodySize ELSE @]

\* Mutant: what send() returned is counted twice.
SentTwice(c, n) == [c EXCEPT !.unsent = @ - 2 * n, !.idle = 0]

\* addBytesSent(n) and updateActivity()
Sent(c, n) == [c EXCEPT !.unsent = @ - n, !.idle = 0]

\* Mutant: the descriptor of the body pipe is closed but not forgotten.
BodyDoneKeepsFd(c) == [c EXCEPT !.bodyLeft = 0]

\* The body pipe is closed; what is left in _cgiWriteBuffer is never read again.
BodyDone(c) == [c EXCEPT !.cgiWriteFd = NoFd, !.bodyLeft = 0]

\* Mutant: setCGIRunning(false) is missing after waitpid().
FinishedStillRunning(c) ==
    Respond([c EXCEPT !.cgiFd = NoFd], IF c.cgiOutput THEN "output" ELSE "500")

\* The fields _handleCGIRead sets at end of file, after waitpid() returned.
\* setCGIResponse answers 500 for a script that printed nothing.
Finished(c) ==
    Respond([c EXCEPT !.cgiRunning = FALSE, !.cgiFd = NoFd],
            IF c.cgiOutput THEN "output" ELSE "500")

\* Mutant: the script is killed but still counts as running.
GivenUpStillRunning(c) ==
    Respond([c EXCEPT !.cgiFd = NoFd, !.cgiWriteFd = NoFd], "504")

\* The fields _checkTimeouts sets for a script that ran too long.
GivenUp(c) ==
    Respond([c EXCEPT !.cgiRunning = FALSE, !.cgiFd = NoFd, !.cgiWriteFd = NoFd], "504")

\* Mutant: the age of a running script is not looked at.
ScriptNeverTooOld(c) == FALSE

ScriptTooOld(c) == c.cgiRunning /\ c.cgiAge > Timeout

HasTimedOut(c) == ~c.cgiRunning /\ c.idle > Timeout

\* A second goes by.
Older(c) ==
    LET next(age) == IF age > Timeout THEN age ELSE age + 1
    IN  [c EXCEPT !.idle = next(@), !.cgiAge = IF c.cgiRunning THEN next(@) ELSE @]

=============================================================================
