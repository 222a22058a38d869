----------------------------- MODULE Connection -----------------------------
(***************************************************************************)
(* One connection from accept() to close(): the parser of module Request,  *)
(* the choice of a virtual host, the limit on bodies, the reply, and what  *)
(* is left for the next request of the connection.                         *)
(*                                                                         *)
(* The peer sends the requests of a conversation, each when the one before *)
(* it is answered.  Module Server has what this one leaves out: other      *)
(* connections, descriptors, timeouts, peers that go away, and replies     *)
(* that are sent in several pieces.                                        *)
(***************************************************************************)
EXTENDS Integers, Sequences, SequencesExt

CONSTANTS
    Conversations, \* sequences of requests: [bytes, body, code, server, uri, keep]
    Servers,       \* _fdToConfigs[_listenFd]: a sequence of [names, limit]
    SizeWidth      \* of module Request

\* What is assumed of them.
LimitsAreSizes ==
    /\ SizeWidth \in Nat \ {0}
    /\ Servers # <<>>
    /\ \A k \in DOMAIN Servers : Servers[k].limit \in 0..(SizeWidth - 1)

VARIABLES
    talk,    \* the conversation
    coming,  \* what the peer has sent, or may send, that has not been received
    request, \* _request
    feeding, \* _handleRead has received bytes and not returned
    stage,   \* what the loop is waiting for on behalf of this client
    config,  \* _config, as an index of Servers
    replies, \* what has been sent back
    inputs,  \* for each request, the body and CONTENT_LENGTH of every script launched for it
    late     \* a request was taken for complete before the CRLF after its last chunk came

vars == <<talk, coming, request, feeding, stage, config, replies, inputs, late>>

Parser == INSTANCE Request

\* The bytes of the request after the first n, if there is one.
Due(n) == IF n < Len(talk) THEN talk[n + 1].bytes ELSE <<>>

-----------------------------------------------------------------------------

\* Utils::setNonBlocking, _acceptConnection and the constructor of Client.
Init ==
    /\ talk \in Conversations
    /\ coming = Due(0)
    /\ request = Parser!NewRequest(Servers[1].limit)
    /\ feeding = FALSE
    /\ stage = "reading"
    /\ config = 1
    /\ replies = <<>>
    /\ inputs = [k \in 1..(Len(talk) + 1) |-> <<>>]
    /\ late = FALSE

\* _handleRead up to feed().  A client is watched for input while its script
\* works too, not while it is answered.
Receive(n) ==
    /\ stage \in {"reading", "working"}
    /\ ~feeding
    /\ request' = Parser!Feed(request, SubSeq(coming, 1, n))
    /\ coming' = Parser!Drop(coming, n)
    /\ feeding' = TRUE
    /\ UNCHANGED <<talk, stage, config, replies, inputs, late>>

\* The last chunk is all that has come of a request of which there is more.
ComesLate ==
    /\ Parser!AtLastChunk(request)
    /\ Len(Parser!AfterLine(request)) < 2
    /\ coming # <<>>

\* A step of feed(); late is only remembered for the properties.
Parse ==
    /\ feeding
    /\ ~Parser!Quiet(request)
    /\ request' = Parser!Parse(request)
    /\ late' = (late \/ ComesLate)
    /\ UNCHANGED <<talk, coming, feeding, stage, config, replies, inputs>>

FeedReturned == feeding /\ Parser!Quiet(request)

AwaitMore ==
    /\ FeedReturned
    /\ ~Parser!Done(request)
    /\ feeding' = FALSE
    /\ UNCHANGED <<talk, coming, request, stage, config, replies, inputs, late>>

ResolveConfig(host) ==
    LET named == {k \in DOMAIN Servers : host \in Servers[k].names}
    IN  IF named = {} THEN 1 ELSE CHOOSE k \in named : \A j \in named : k <= j

\* The virtual host of request r, for a client that had another one.
ConfigFor(r, before) == IF r.headers.host = "" THEN before ELSE ResolveConfig(r.headers.host)

\* build() finds that the request is for a script.  A location and its script
\* are the same in all servers here, and a script can always be started.
NeedsCGI(r) == r.errorCode = 0 /\ r.line.uri = "script"

Launch == inputs' = [inputs EXCEPT ![Len(replies) + 1] =
                         Append(@, <<request.body, request.contentLength>>)]

\* The rest of _handleRead: the virtual host, and _processRequest.
Respond ==
    /\ FeedReturned
    /\ Parser!Done(request)
    /\ feeding' = FALSE
    /\ config' = ConfigFor(request, config)
    /\ request' = IF config' # config THEN [request EXCEPT !.maxBodySize = Servers[config'].limit]
                  ELSE request
    /\ IF NeedsCGI(request)
       THEN stage' = "working" /\ Launch
       ELSE stage' = "answering" /\ UNCHANGED inputs
    /\ UNCHANGED <<talk, coming, replies, late>>

\* _handleCGIRead at the end of the script's output.
ScriptEnds ==
    /\ stage = "working"
    /\ ~feeding
    /\ stage' = "answering"
    /\ UNCHANGED <<talk, coming, request, feeding, config, replies, inputs, late>>

ShouldKeepAlive(r) ==
    IF r.line.version = "1.1" THEN r.headers.connection # "close"
                              ELSE r.headers.connection = "keep-alive"

Reply == [code |-> request.errorCode, server |-> config, uri |-> request.line.uri,
          body |-> request.body]

\* Mutants: reset() forgets the body, or the headers, or comes before
\* shouldKeepAlive().
HandleWriteWith(fresh, keep) ==
    /\ stage = "answering"
    /\ replies' = Append(replies, Reply)
    /\ request' = IF keep THEN fresh ELSE request
    /\ stage' = IF keep THEN "reading" ELSE "closed"
    /\ coming' = IF keep THEN coming \o Due(Len(replies')) ELSE coming
    /\ UNCHANGED <<talk, feeding, config, inputs, late>>

Fresh == Parser!NewRequest(Servers[config].limit)
HandleWriteKeepingBody ==
    HandleWriteWith([Fresh EXCEPT !.body = request.body], ShouldKeepAlive(request))
HandleWriteKeepingHeaders ==
    HandleWriteWith([Fresh EXCEPT !.headers = request.headers], ShouldKeepAlive(request))
HandleWriteResetFirst == HandleWriteWith(Fresh, ShouldKeepAlive(Fresh))

\* _handleWrite, when it sends the last of the reply; and reset(), with which
\* the virtual host stays.  The peer sends its next request.
HandleWrite ==
    /\ stage = "answering"
    /\ replies' = Append(replies, Reply)
    /\ IF ShouldKeepAlive(request)
       THEN /\ stage' = "reading"
            /\ request' = Parser!NewRequest(Servers[config].limit)
            /\ coming' = coming \o Due(Len(replies'))
       ELSE /\ stage' = "closed"
            /\ UNCHANGED <<request, coming>>
    /\ UNCHANGED <<talk, feeding, config, inputs, late>>

\* The peer has got everything it asked for, or nothing more will come.
Over == stage = "closed" \/ (stage = "reading" /\ ~feeding /\ coming = <<>>)

Step ==
    \/ \E n \in 1..Len(coming) : Receive(n)
    \/ Parse \/ AwaitMore \/ Respond \/ ScriptEnds \/ HandleWrite

Next == Step \/ (Over /\ UNCHANGED vars)

Spec == Init /\ [][Next]_vars /\ WF_vars(Step)

-----------------------------------------------------------------------------
(* A conversation by the rules.  Each of its requests deserves what it     *)
(* gets if it is alone and comes whole, whichever request of the           *)
(* conversation came before it.                                            *)

\* No size is near the end of size_t.
WellFormed(r) ==
    /\ r.state = "BODY" => r.contentLength \in Nat
    /\ Parser!AtLine(r, "CHUNKED") /\ Parser!ChunkSize(r) # 0 =>
          /\ Parser!LineIs(r).n \in Nat
          /\ Parser!Eol(r) + Parser!LineIs(r).n + 3 < SizeWidth

\* What one feed() does with the whole request, from a fresh one to a done one.
IsRun(run, bytes, limit) ==
    /\ Len(run) \in Nat \ {0}
    /\ run[1] = Parser!Feed(Parser!NewRequest(limit), bytes)
    /\ \A n \in 1..(Len(run) - 1) :
          WellFormed(run[n]) /\ ~Parser!Quiet(run[n]) /\ run[n + 1] = Parser!Parse(run[n])
    /\ Parser!Done(run[Len(run)])

ForScript(m) == m.code = 0 /\ m.uri = "script"

\* The request m deserves what r, which it has become, gets from the virtual
\* host next.  Bytes may be left if they are not read any more.
Deserves(m, r, next) ==
    /\ m.code = r.errorCode
    /\ m.keep = ShouldKeepAlive(r)
    /\ m.code = 0 => m.server = next /\ m.uri = r.line.uri /\ m.body = r.body
    /\ ForScript(m) => r.contentLength = Len(m.body)
    /\ m.keep \/ ForScript(m) => r.raw = <<>>

\* The virtual hosts that the client may have in the course of c.
Visited(c) == {1} \cup {c[k].server : k \in DOMAIN c}

\* The request m by itself, for a client that has the virtual host before.
ByItself(m, before, run, visited) ==
    LET r == run[Len(run)]
    IN  /\ IsRun(run, m.bytes, Servers[before].limit)
        /\ Deserves(m, r, ConfigFor(r, before))
        /\ ConfigFor(r, before) \in visited

\* What a request deserves does not depend on the virtual host of the one
\* before it.  What comes after a request that ends the connection is not read.
ByTheRules ==
    \A c \in Conversations : \A k \in DOMAIN c :
        (\A j \in 1..(k - 1) : c[j].keep) =>
            \A before \in Visited(c) : \E run : ByItself(c[k], before, run, Visited(c))

\* The conversations are sequences of messages, and those have bytes.
MadeOf(messages, bytes) ==
    /\ Conversations \subseteq Seq(messages)
    /\ \A m \in messages : m.bytes \in Seq(bytes)

-----------------------------------------------------------------------------
(* Properties.  A request says what it deserves: an error code or, if that *)
(* is 0, the virtual host, the target and the body of the reply; and       *)
(* whether the connection is kept after it.  The properties say nothing of *)
(* a connection on which the CRLF after a last chunk came late (module     *)
(* AsCommented has such a one).                                            *)

\* The k-th reply answers the k-th request, with its own target and body, from
\* its own virtual host; there is never a reply that nobody asked for.  A
\* request may come in any number of pieces (Request.cpp:6-8).
EachMatches ==
    \A k \in DOMAIN replies :
        /\ k \in DOMAIN talk
        /\ replies[k].code = talk[k].code
        /\ talk[k].code = 0 => /\ replies[k].server = talk[k].server
                               /\ replies[k].uri = talk[k].uri
                               /\ replies[k].body = talk[k].body

\* So it is unless the CRLF after a last chunk comes late.
RepliesMatch == ~late => EachMatches

\* Each request for a script launches it once, with the body of that request
\* and its length, before it is answered; no other request launches one.  So it
\* is unless the CRLF after a last chunk comes late.
LaunchedOnce ==
    ~late => \A k \in DOMAIN inputs :
        LET once == k \in DOMAIN talk /\ inputs[k] = << <<talk[k].body, Len(talk[k].body)>> >>
        IN  \/ inputs[k] = <<>> /\ (k \in DOMAIN replies => ~ForScript(talk[k]))
            \/ once /\ ForScript(talk[k]) /\ k <= Len(replies) + 1

\* A connection is closed after a request that said so, and only then, unless
\* the CRLF after a last chunk comes late.
ClosedWhenAsked ==
    ~late =>
        /\ stage = "closed" => ~talk[Len(replies)].keep
        /\ stage # "closed" => \A k \in DOMAIN replies : talk[k].keep

\* A connection whose peer keeps sending comes to an end with every request
\* answered up to the first that ends the connection, unless the CRLF after a
\* last chunk comes late.
AllAnswered ==
    <>(\/ late
       \/ Len(replies) = Len(talk)
       \/ stage = "closed" /\ ~talk[Len(replies)].keep)
=============================================================================
