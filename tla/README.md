# webserv in TLA+

These modules specify `webserv`, a single-threaded HTTP/1.1 server in C++98: one
`poll()` loop, non-blocking sockets, CGI scripts in child processes. TLC checks
the modules on small instances; the TLA+ proof system (TLAPS) proves theorems
about them for every size: of the event loop and its pipes, of what scripts
inherit, of conversations cut into fragments, of the response builder, of stored
forms and of the names in a configuration.

Source paths in `PROJECT.json` begin with `src/`, the root of the repository; the
code is in `srcs/*.cpp` and `includes/*.hpp`.

## 1. The system

| part | state it keeps | operations | correct when |
|---|---|---|---|
| event loop, `Server.cpp` | `_pollfds` (vector), `_clients` (fd -> `Client*`), listening sockets; implicitly the descriptor table and the child processes | `run`, `_acceptConnection`, `_handleRead`, `_processRequest`, `_handleCGIRead`, `_handleCGIWrite`, `_handleWrite`, `_removeClient`, `_checkTimeouts`, `_resolveConfig`, destructor | vector, clients, descriptors and children agree at every step; every request is answered or its connection closed; nothing blocks the loop |
| poll set, `_addPollFd`, `_removePollFd`, five search loops | order of the entries | append, `erase`, change of `events` | no descriptor twice, none of them closed; an `erase` in the middle of the pass starves nobody |
| connection, `Client.cpp` | request and response, virtual host, send buffer and counter, script pid and its two pipes, body buffer, two time stamps | `reset`, `setConfig`, `shouldKeepAlive`, setters, `hasTimedOut` | one exchange leaves nothing behind for the next |
| CGI launcher, `CGI.cpp` | none of its own | `execute`: two pipes, `fork`, `execve` | all its failures leave the process as it was; the child has what it needs and its end is seen |
| request parser, `Request.cpp` | `_state`, `_raw`, headers, `_body`, `_contentLength`, `_errorCode` | `feed` and its stages, `_parseUri` | the result does not depend on where the fragments end; the body limit holds; the path is clean |
| response builder, `Response.cpp` | reply, and the files below the roots | `build`, `_handleGet/Post/Delete`, `setCGIResponse` | routing is by longest prefix; uploads, deletions and redirections agree with later requests; a form's files and a script's output arrive as they were sent |
| configuration, `Config.cpp` | tokens, servers | `parse` and the parsers of the two blocks | a file comes to mean what it says, and each name leads to its server |
| helpers, `Utils.cpp`; entry, `main.cpp` | none | strings, dates, MIME types; argument and signal handling | - |

**Interaction.** Everything is called from the loop. `poll()` fills `revents`;
the pass walks `_pollfds` by index and calls one handler per ready entry; a
handler may append entries (accept, a script's pipes), erase entries (a client
or pipe that is gone) and change what an entry waits for. `_handleRead` feeds
`Request`, and with a complete request `_processRequest` calls `Response::build`;
that either has the reply ready or names a script, which `CGI::execute` starts.
The script's stdout and, with a body, its stdin become entries of `_pollfds` of
their own. After each pass `_checkTimeouts` kills scripts and drops clients.

**What is hard.** Nothing runs concurrently inside the process, but peers and
scripts act between any two steps, and the vector changes under the index of the
loop that walks it: `revents` describe the descriptors as they were before the
pass, descriptor numbers and pids are used again as soon as they are free, one
erasure makes the loop skip an entry. Two calls can block: `poll()` and the
`waitpid()` that follows a script's end of file. Scripts inherit everything that
is open. Messages arrive in fragments, and what is left of one is read as the
next. Descriptors run out. The list of hazards, each at its line and with the
properties that cover it, is `PROJECT.json` (`hazards`).

## 2. The modules

| module | what it is |
|---|---|
| `PollSet` | operations on the vector `_pollfds` |
| `Client` | the `Client` object as a record, and the assignments that handlers make to several of its fields |
| `Server` | the event loop: one action per handler; peers, scripts and time around it |
| `ServerProperties` | what the loop promises |
| `Exchange` | abstract: what each browser is promised, without descriptors, pipes and processes |
| `ServerExchange` | the refinement mapping from `Server` to `Exchange` |
| `MCServer` | `Server` for TLC: symmetry of peers and pids |
| `Inheritance` | all processes, and who has which descriptor open, over `fork`, kill, stop and start |
| `Request` | the parser as a record, and `feed` and each of its stages as a function on it |
| `Connection`, `MCConnection` | one connection from accept to close, with the parser, the virtual hosts, the body limit and keep-alive; conversations for it |
| `Response`, `MCResponse` | `build`, its handlers and their effect on the disk; a site shaped like `conf/default.conf` |
| `Form`, `MCForm` | the loop over the parts of a `multipart/form-data` body |
| `ScriptReply`, `MCScriptReply` | what a script prints, read in pieces, and the reply `setCGIResponse` makes of it |
| `Uri`, `MCUri` | `_parseUri` with `urlDecode` and `split` |
| `Tokenizer`, `MCTokenizer` | from the text of a configuration file to its tokens |
| `Config`, `MCConfig` | from the tokens to the servers, a step for each directive |
| `Parts`, `MCParts` | the last six, each a behaviour of its own, in one specification; their inputs |
| `Beside` | `Connection` and `Inheritance`, each a behaviour of its own, in one specification |
| `AsCommented` | inputs of which the code does not make what its comments say, one after the other |
| `ServerProofs`, `ScriptProofs`, `PipeProofs` | theorems about the loop: its tables, its scripts, its pipes; each extends the one before |
| `RefinementProofs` | that `Server` implements `Exchange` |
| `InheritanceProofs`, `ConnectionProofs`, `ResponseProofs`, `PartsProofs` | theorems about these modules |

`Server` extends `Client` and `PollSet`; `Connection` has an instance of `Request`
and the parser's record in its variable `request`. To the loop a request is the kind of answer it calls for (a
page, a script, a script with a body) and a response is a count of pieces; to
`Connection` there are no other connections and no descriptors. So the two meet in
the fields of `Client` that both have: `_request`, `_responseReady`, `cgiRunning`
and keep-alive. The definitions are listed with the lines they stand for in
`PROJECT.json` (`map`).

### Server

A step of the server is the dispatch of one ready entry with the whole handler
it calls, or one of the blocking calls. `pc` says where the loop is: in `poll()`,
at entry `i` of the pass, in `waitpid()`, at the call of `_checkTimeouts`, in
its two removal loops, or stopped. `GoOn(s)` is the end of every handler of the
pass: `pollfds` becomes `s` and the next entry with `revents` is sought from
`i + 1` on. Because handlers erase from `pollfds` and then go on with `i + 1`,
the model skips an entry exactly when the code does. `fdt` is the descriptor
table: what every number refers to; new descriptors get the lowest free number,
so that numbers are reused as early as in the kernel.

| code | action |
|---|---|
| `poll()` and the head of the loop | `Poll` |
| `_acceptConnection` | `AcceptFails`, `TurnAway`, `AcceptConnection` |
| POLLERR, POLLHUP, POLLNVAL on a socket | `HangUp` |
| an entry without a client | `IgnoreOrphan` |
| `_handleRead`, `_processRequest`, `CGI::execute` | `ReadClosed`, `ReadPart`, `ProcessStatic`, `LaunchFails`, `Launch` |
| `_handleCGIRead` | `HandleCGIRead`, `CGIEndOfFile`, `WaitpidReturns` |
| `_handleCGIWrite` | `HandleCGIWrite`, `BodyRefused` |
| `_handleWrite` | `WritePart`, `WriteLast`, `WriteFails`, `WriteLastAndClose` |
| `_removeClient` | `RemoveClient`, part of `HangUp`, `ReadClosed`, `WriteFails`, `WriteLastAndClose`, `DropIdle` |
| `_checkTimeouts` | `CheckTimeouts`, `GatewayTimeout`, `DropIdle` |
| SIGINT and the destructor | `Stop` |

What is abstracted, and why nothing is lost by it:

- The pass and `_checkTimeouts` take no time; time passes in `poll()` and in
  `waitpid()`. `time(NULL)` counts seconds and the handlers do not block. Ages
  are counted in ticks and saturate above the timeout. The two timeouts of the
  code are both `TIMEOUT_SEC`.
- `recv()` takes all that the peer has sent; a fragment of a request may be any
  of it. `send()` takes a piece or all of the rest, and a partial `send()` means
  that the socket's buffer is full until the peer reads.
- `read()` on a script's stdout takes all of its output. The output matters only
  as present or absent, because `setCGIResponse` answers 500 when there is none.
- A script may write, read, close its stdin, close its stdout (only where
  `EarlyClose` says so) and exit, at any time or never. A peer may send, shut
  down its side, reset, and stop reading, at any time. It sends while its answer
  is due only where `SendAhead` says so.
- POLLHUP and POLLERR on a socket have one name, because the code treats them
  alike; on a pipe they are told apart.
- A pid is free as soon as its process has been reaped and may be given again;
  `kill(SIGKILL)` followed by `waitpid()` returns at once.
- A peer whose connection was closed may connect again; it stands for any number
  of browsers that come one after the other.

### Exchange

Each peer has a phase (`away`, `queued`, `receiving`, `working`, `answering`), a
reply and the number of its pieces that are left. A step changes one peer's;
only a shutdown changes all. `ServerExchange` computes the three from the peer's
state and the fields of its `Client`. That `Server` implements it says at once
that handlers, which find their client by descriptor, touch no other connection;
that a connection is turned away only when `MAX_CLIENTS` are served; that a reply
is of a kind the request calls for and is sent from its first piece to its last;
and that the next request is not read before that. `Moves` adds that no
connection stays queued, working or answering.

### Inheritance

`Server` has the descriptors of one process. Here `listen`, `sock`, `input` and
`output` say which processes have the listening socket, a client's socket and the
two write ends of its script's pipes open: `LaunchScript` copies what the server has and
closes what the child and the parent close (`CGI.cpp:59-66`, `Server.cpp:297`); a
process that ends closes everything. A script may close its stdout before it ends
(`ClosesStdout`), and end at any time or, if it is one of `Hanging`, never by itself,
as `www/cgi-bin/infinite.py`. At end of file on its output the server is in
`waitpid()` until it ends (status `awaited`, `Serving` is false, `InWaitpid`), for
ever if it hangs. A stopped server leaves its scripts running, and a start fails
while one of them has the listening socket.

### Request and Connection

`feed` appends to `_raw` (`Feed`) and then runs the stages. `Parse` is one stage or
one iteration of a loop, and each is a step of `Connection`, so that a loop that
does not end shows as a behaviour that does not end (`AllAnswered`). What the
parser tells apart within a line is one symbol; CR and LF are two, so fragments
end between them too. `size_t` arithmetic is modulo `SizeWidth`. `Connection` hands
the parser what `recv()` returned, asks whether it is done, resolves the virtual
host, launches or answers, and resets; the peer sends a request when the one
before it has been answered, and `coming` is what it has sent, or may yet send, of
it. `Receive` takes any beginning of that. One cut goes wrong (section 4): between
the size line of a last chunk and the CRLF after it. The variable `late` remembers
that it has happened on this connection, `ComesLate`, and the properties are about
connections on which it has not.

Each request of a conversation says what it deserves, written by encoders that
know nothing of the parser. What the theorems assume of it is the second part of
the module: `ByTheRules` says that the parser, given each request alone and whole,
comes to what the request says (`IsRun`, `Deserves`), leaves no bytes that would be
read as the next, and meets no size near the end of `size_t` (`WellFormed`). So the
rules speak of one `feed()` with everything in it, and the properties of every
order of fragments, launches, replies and requests. A request deserves the same
whichever virtual host the connection had before it (`Visited`), and TLC evaluates
the rules for each of them and for every conversation of the run, by `HasRuns`,
which runs the parser; requests of which that is not true are in section 4.

### The parts without waiting

`Response`: operators, from a request, a configuration and a disk to an
`Outcome`, run as a service over the whole site. Paths are sequences of symbols and
prefixes are compared as strings, as the code does. A directory in `Full` has room
for names and none for data: a write there fails, and the code does not notice.
`Form` is the loop of
`_handlePost` that `Response` takes for one step: `find` and `substr` over the
bytes; `ByTheRules` says how the bytes of a form are laid out, for the theorem.
`ScriptReply` has the bytes a script prints; a header line is one symbol, and lines
have places, since of two with one name the last stays (`Standing`) and of two with
`Status` too (`Latest`). Its `ByTheRules` says how they are laid out and what they
promise.
`Uri` has characters, with the two digits after `%` decoded by a table. `Tokenizer`
has characters; `Config` has tokens, and what a token means as an address or as a
number is given by `Address` and `Bytes`; the multiplication by K or M is modulo
`SizeWidth`. Each file, form and print comes with what it should become.

## 3. The runs

| run | instance | what it shows |
|---|---|---|
| `static_and_scripts` | 2 peers, 1 pid, 8 descriptors, pages and scripts, replies in 2 pieces | `PollSetSound`, `ModeMatches`, `NoOverwrite`, `EveryScriptOwned`, `SocketBeforePipes`, `KeepsPlace`, `StartsAfresh`, `ImplementsSteps` |
| `bodies` | 2 peers, 1 pid, 9 descriptors, scripts with a body of 2 pieces | `CgiPipesOwned`, `NothingOpenUnwatched`: whichever end of whichever pipe breaks first |
| `few_descriptors` | 2 listening sockets, 7 descriptors, `MAX_CLIENTS` 1, peers that send ahead | `TypeOK`, `ClientsBounded`, `KillsOwnScript`, `OnlyPipesAreLost` while `accept`, `pipe` and `fork` fail in every way they can |
| `pages_offered` | 2 peers, pages, no assumption on time | liveness: `Offered`, `QueuedServed` |
| `script_answered` | 1 peer, a script with a body, time passes | liveness: `Answered`, `OrphansReclaimed` |
| `exchanges` | 2 peers, 1 place, pages and scripts | the refinement with liveness: `Implements` |
| `beside` | every conversation of `MCConnection` in every fragmentation | `RepliesMatch`, `LaunchedOnce`, `ClosedWhenAsked`; liveness: `AllAnswered` |
| | 3 clients, one with a script that never ends, stop and start | `TypeOK`, `OutputEndsWithScript`, `NoCircularWait`; liveness: `ScriptsEnd`, `PortFreed` |
| `parts` | the values of six `MC` modules | twelve properties of the six parts |
| `late_504` | 2 peers, 1 script | finding: the 504 for a hung script may be dropped unsent |
| `closes_stdout_early` | a script that closes stdout and runs on | finding: the server blocks in `waitpid()` |
| `launched_twice` | a peer that sends while its script runs | finding: a second script is started and the first never reaped |
| `as_commented` | one odd input for each of five parts, and a restart | findings: eight comments, none of which is kept |

The properties of `parts`: `WordsOfFile` (a file is cut into its words, comments
out), `MeansWhatItSays` (what a configuration becomes, and that parsing ends),
`NamesResolve` (a name of an accepted server leads to it), `PathIsClean`,
`LongestPrefix`, `AllowedAnswered`, `HeadLikeGet`, `RedirectSettles`,
`GoneAfterDelete`, `Stored` and `StoredAsSent` (uploads), `ReplyAsPrinted`. Every
input of a passing run is given with what it ought to become, never with what the
code makes of it where that is something else; such inputs are in `as_commented`,
or excluded by a rule that section 4 names.

**Bounds.** Two clients are the least with which the removal of one moves the
other's entry, and with which the numbers of one are reused for the other; each
may have three entries, its socket and two pipes, and forgotten pipes add to
them, so an erased entry has neighbours of every kind. One pid suffices for
reuse, two for a forgotten script. Responses and bodies of two pieces have a
first, a partial and a last transfer; with a `RespSize` of 3 a miscounted partial
transfer goes below zero. `Timeout` 0 lets timeouts strike at the first tick, so
they meet every other event; in `script_answered` it is 1, so that ages really
count. Descriptors are plenty in all runs but `few_descriptors` and
`pages_offered`. In `exchanges` two peers and one place make one of them wait or
be turned away. Three scripts are the least of which one can wait for a second
and that for a third; one that never ends is enough to stop the server, or to keep
its port.

Bodies have up to five symbols and come in one piece or two chunks, with data
that looks like the end of a line or like a last chunk; the limits 3 and 5 are
such that two chunks exceed them together only, and that the default server's is
below another's. Conversations have up to three requests: one can leave something
behind for the next, and that for a third. `MaxClock` 1 gives two seconds, and so
two raw uploads with one name and with two. The locations of `MCResponse` have a
prefix that is one of a longer name ("/u" of "/up"), two for one directory, one with
and one without a slash at its end, and, in a site of its own, a full disk. Texts of `Tokenizer` have up to 5
characters of 6 kinds, targets of `Uri` up to 5 of 6 kinds and longer ones with
every escape of `.`, `/`, `%` and `?`. Scrambled configurations have up to 4 tokens
at the top and 3 in each block, so every directive meets every neighbour and the
end of the file. Forms have up to 3 parts. The symmetry of peers and pids is used
in runs without liveness only.

**Fairness.** `Server!Spec` assumes weak fairness of `Loop`, the server's own
steps: the process runs and `poll()` returns when something is ready. It also
assumes strong fairness of `Tick`: time does not stop, and a `poll()` lasts a
second at most (`srcs/Server.cpp:150`), so the loop comes back to it again and
again. Nothing is assumed of peers and scripts: they may hang for ever. `Untimed`
drops `Tick`'s fairness, to show that a ready response does not need a timeout to
be sent. `Exchange` states its liveness as `Moves`, not as fairness, because which
of several steps ends a wait depends on what it hides. `Connection` assumes weak
fairness of all its steps: its peer does send what it owes; `Server` has the peers
that do not. `Inheritance` assumes two things. A script that has read its input
to the end, and is none of `Hanging`, ends: weak fairness of what the script does,
which nothing in the server can give it. And a script that can again and again be
timed out, is: strong fairness of `TimeOut`, because every pass ends with
`_checkTimeouts` and time goes on in `waitpid()` too. `ScriptsEnd` says of itself what
that is not enough for: a server that stays in `waitpid()` for ever, and one that
was stopped while a script ran that never ends (`Abandoned`); `PortFreed` excludes
the latter. `Parts` assumes that a parser that can go on does.

**Deadlock** is checked everywhere: a stopped server stutters by `Terminated`, and
the modules that come to an end have a step for being over.

Each property has a mutant in `PROJECT.json`: a plausible mistake in one
definition under which TLC finds that property violated.

## 4. What the findings say

Four runs end in a violation of something the code says of itself. Three are of
the event loop:

- `late_504` (`Server.cpp:482`): `_checkTimeouts` prepares the 504 but leaves
  `_lastActivity` alone. If the next pass skips the client's entry, because an
  entry before it was erased, the next check drops the client as idle.
- `closes_stdout_early` (`Server.cpp:357`): end of file on stdout is taken for the
  end of the script; `waitpid()` without `WNOHANG` stops every connection.
- `launched_twice` (`Server.cpp:257`): the socket is still read while the script
  runs, and any byte makes `_processRequest` run again for the same request.

`as_commented` takes inputs through the other parts, one after the other, and its
property `SomeCommentKept` says that at the end one at least of eight comments is
right about them. TLC finds a behaviour in which none is; with the conjuncts named
in the table, each false in its last state:

| comment | code | what happens |
|---|---|---|
| `FallsBack` (`Server.cpp:116`) | `Server.cpp:259` | a request without `Host` gets the virtual host of the one before it |
| `HasItsLimit` (`Client.cpp:87`) | `Client.cpp:91` | a body is measured by the limit of that host |
| `ReadInFragments` (`Request.cpp:6`) | `Request.cpp:264` | the CRLF after a last chunk that comes late is read as a request and answered 400; if a script works for the request, it is launched again |
| `BindsAtOnce` (`Server.cpp:77`) | `Server.cpp:46` | a script of the stopped server keeps its port, `infinite.py` for ever |
| `InheritsRoot` (`Config.cpp:341`) | `Config.cpp:343` | a location does not inherit a root that follows it |
| `NamedByHeaders` (`Response.cpp:357`) | `Response.cpp:358` | a form's text field that says `filename="` becomes a file |
| `SupportsBoth` (`Response.cpp:132`) | `Response.cpp:140` | the body of a script that ends lines with CRLF begins with the blank line |
| `NoBodyToHead` (`Response.cpp:98`) | `Response.cpp:99` | a script's output is sent to HEAD, body and all |

The properties of the passing runs are stated so that they do not claim what these
runs refute, and say so: `~late` in those of `Connection`; one and the same desert
for every virtual host before, in its `ByTheRules`; `eol # CRLF` in `ReplyAsPrinted`;
the name before the blank line in `Form!ByTheRules`; files whose servers have their
directives before their locations; the two exceptions in `HeadLikeGet`. So do they
exclude these, which have no run:

| excluded | by | what happens |
|---|---|---|
| the body of a request refused for its length, the headers after a refused request line, on a connection that is kept (`Client.cpp:130`) | `Connection!Deserves`, no bytes left | they are read as the next request |
| CRLFCRLF in the body of a script that uses LF (`Response.cpp:133`) | `ScriptReply!PrintsHeaders` | is taken for the end of the headers |
| a `content-type` in lower case (`Response.cpp:168`) | `ScriptReply!PrintsHeaders` | gets a second one beside it |
| a data write that fails (`Response.cpp:378`, `403`) | `Full`, in `Stored` | 201 and an empty file |
| a script that hangs after it closed its output, or when the server stops | `ScriptsEnd`, `PortFreed` | the server stays in `waitpid()`; the port is not free again |

and the runs have no file that ends in the middle of a block with an expectation
(`Config.cpp:240`: the end of the file closes every block) nor a limit whose bytes
wrap to 0 (`Config.cpp:212`: that is no limit). Of two headers of one name that a
script prints, `Set-Cookie` for one, only the last is sent (`Response.cpp:162`):
`ReplyAsPrinted` states it so.

`Inheritance` shows what scripts keep open: a script may have to wait for another
to end before its input does (`CGI.cpp:59`), though never in a circle.

`Server.cpp:187` reads `_pollfds[i]` once more after `_handleRead` may have erased
that entry. The model has the pass go on instead: an entry is erased there only
with its client, and the `_clients.find(fd)` that follows the read fails then,
whatever was read.

Met while modelling and not stated by a property: a request that arrives in the
same `recv()` as the one before it is lost with `_raw` (`Client.cpp:128`); the
`client_max_body_size` of a location is parsed and never read (`Config.cpp:322`);
the reply to the last request of a connection is announced as keep-alive
(`Response.cpp:474-476`); of two raw uploads in one second the second replaces the
first, and both are answered 201 (`Response.cpp:398-399`).

## 5. What is proved

Every theorem is for all values of the constants. Nothing is assumed but what the
modules assume of them: limits are naturals, the listening sockets fit the
descriptor table, `None` is nobody, a peer is no process id. What a theorem needs
beyond that is a named hypothesis of its own, given here with the reason.

**The loop** (`ServerProofs`), for any number of peers, pids, descriptors and
listening sockets, any limits, and both switches:

- `PollSetAgrees`: `Spec => []PollSetSound`. No descriptor is watched twice, no
  closed one is watched, and the clients are exactly the sockets, all watched.
- `TypeCorrect`: `Spec => []TypeOK`.
- `ClientsStayBounded`: `Spec => []ClientsBounded`.

None of the three is inductive. `IInv` is, and has these parts:

- `Place`, `Vector`: the pass is at an entry that exists and is ready. A listening
  socket with `revents` still to be visited has a connection in its backlog;
  without that, `AcceptConnection` would take one from an empty queue. It
  survives because nobody but the loop takes connections, and a listening socket
  is in the vector once.
- `Objects`, `World`: types. `Tables`: `PollSetSound`, and that listening sockets
  stay open.
- `Pipes`: the pipes that clients remember are open, of the right kind, and no
  other client's. Without it a `_removeClient` could close the socket of another
  client, or unwatch one that stays open. A client in `waitpid()` is the
  exception: its output pipe is closed.
- `Memory`: what `waitpid()` and the removal loops refer to exists still, and no
  client is in both lists of `_checkTimeouts`.

The proof has one lemma per action. Most rest on two: `ScanKeeps`, for the way a
handler goes on with the pass, and `ClosingKeeps`, for steps that close a set of
descriptors and unwatch the same set. The first section says what `erase`, append
and the change of an event do to a vector of any length.

**The scripts** (`ScriptProofs`):

- `KillsItsOwn`: `Spec => []KillsOwnScript`, with no further assumption. With
  `IInv` it is inductive: a step either starts no script and reaps none that is
  remembered (`NoneBegins`), or is `Launch`, which takes a pid that is free.
- `RepliesAreNotOverwritten` and `ScriptsAreOwned`: `Spec => []NoOverwrite` and
  `Spec => []EveryScriptOwned`, for `SendAhead = FALSE`; `launched_twice` shows that
  the second is false otherwise. They need to know that a handler that reads is
  called for a request that is not complete: a peer that waits for its answer has
  nothing in its socket (`Patient`), because it sends only while its request is
  due. That in turn needs each client's socket to belong to one peer and to no
  other client's (`Visitors`), and that a peer in a backlog is there once and
  nowhere else (`Queues`). `SInv` is the conjunction of all these with `IInv`.
- `BuffersStartEmpty`: `Spec => StartsAfresh`, an action property, also for
  `SendAhead = FALSE`. With `SInv`, `AllFresh` is inductive: a client whose request
  is not complete has an empty buffer.

**The pipes** (`PipeProofs`), for every value of both switches. `Follows` says what
a step does to the vector, the pipes and the clients together: entries that stay
keep their order and move forward only, what leaves the vector is closed, what is
opened enters it, a pipe keeps its script or loses it, and a client keeps script
and pipes or gives them up together. `NextFollows` proves it of every action, and
the theorems need nothing else:

- `PipesAreOwned`: `Spec => []CgiPipesOwned`. `PInv` is inductive: `IInv`,
  `KillsOwnScript`, and for each client `Owned`, that its pipes are those of the
  script whose pid it remembers, watched, and behind its socket in the vector.
- `SocketsComeFirst`: `Spec => []SocketBeforePipes`, from `Owned`. It holds because
  a pipe is appended after the client it belongs to, and no step turns the order
  of two entries round.
- `ModesMatch`: `Spec => []ModeMatches`. `EntriesKeepPlace`: `Spec => KeepsPlace`.
- `OnlyFailedPipesAreLost`: `Spec => []OnlyPipesAreLost`, what is open and unwatched
  is a pipe of no script. `NothingIsLost`: `Spec /\ [][~LeakPipe]_vars =>
  []NothingOpenUnwatched`. The hypothesis is what the code needs: `CGI::execute`
  leaves the first pipe open when the second `pipe()` fails, so the stronger
  statement holds of behaviours in which that does not happen. The run `bodies`
  has descriptors enough for it never to happen.

**The refinement** (`RefinementProofs`): `LoopKeepsItsPromise`, `Spec =>
ImplementsSteps` for `SendAhead = FALSE`. `View(p)` is the triple that
`ServerExchange` computes for the peer `p`. By `Visitors` it is a function of one
client record (`ViewAt`), so a handler that changes one client and no connection
changes one view (`OneSeen`), and one that changes neither changes none
(`NothingSeen`); what is left is to compute the view of the record each handler
makes, and to look at the steps that open and close connections. Of the
invariant it needs `Exchanges`, for the phase a step begins in; two more parts
are added: `ClientsBounded`, and `Attended`, that every open connection has its
client. From them the connections served are as many as the clients
(`AsManyServed`, by a bijection), so `TurnAway` turns away only when all places
are taken. The liveness of `Exchange` is not part of the theorem.

**Inheritance** (`InheritanceProofs`), for any set of clients, whichever scripts
hang or close their output, as long as the server is none of them
(`MainIsNoScript`): `Typed`, `OutputEnds_Script` and `NoCircle`. `TypeOK /\
OutputEndsWithScript` is inductive; its point is that the write end of an output
pipe is never open in the server while it forks. It does not say that a script
whose output has ended has ended too: that is false, and `closes_stdout_early` shows
what comes of it. `NoCircularWait` is inductive with `TypeOK`: a script that is
launched is added to the holders of others' pipes only where the server is one,
and its own pipe is new, so the youngest of a group waits for none of it.

**Connections** (`ConnectionProofs`), for any set of conversations, servers and
limits: `RepliesAreDeserved`, `ScriptsAreLaunchedOnce`, `ClosesAreAskedFor`. The
hypotheses are `ByTheRules`, `LimitsAreSizes` and `MadeOf` (conversations are
sequences of messages and messages of bytes). The theorems are about the
connections on which no CRLF after a last chunk comes late; what happens on the
others is in section 4, and no hypothesis is about fragments. The argument is that fragments do not matter. The parser
that has received a part is compared with the one that received all: they are
equal but for `_raw`, which is behind by what is still to come (`Ahead`). A stage
that goes on with the part goes on with the whole, to states that are again so
related (`ParseJoined`, a lemma for each stage: what has been found in a beginning
is found at the same place in the whole). So at each step the parser stands at
some state of the run that `ByTheRules` gives for the request (`Reading`), and when
it is done, it is where that run ends (`Became`). The stage of the last chunk is
the one that does not go on alike with the part and with the whole, and only where
`ComesLate`; that is when `late` becomes true. So `late \/ Good` is inductive
(`GoodUnlessLate`), where the rest of `Good` counts replies and launches:
`AnsweredSoFar`, `LaunchedSoFar`, `Decided`.

**The response builder** (`ResponseProofs`), for any site, disk and history of
requests:

- `LongestIsChosen`: `LongestPrefix`. The loop of `_matchLocation` is a fold; the
  proof follows it as a function of the number of iterations.
- `AllowIsHonest`: `AllowedAnswered`.
- `HeadIsGet`: `HeadLikeGet`. HEAD changes nothing on the disk, so what `build` would
  answer again is what it answered (`HeadReplied`), or the script has answered since.
- `DeletedIsGone`: `GoneAfterDelete`. With what was removed or stored last, and that
  the directories of the first disk are there still.
- `CreatedIsStored`: `Stored`, for forms with any number of files, several of one
  name among them, and for raw uploads named by the second, on disks with room and
  without.
- `RedirectsEnd`: `RedirectSettles`. A location that does not redirect answers a path
  with a slash in place (`RouteLocates`); one that does, and is chosen for the path
  with the slash, would have been chosen without it (`SlashChangesNothing`, which
  also needs that of locations of one length the loop keeps the first).

The hypotheses: `InputsTyped`; for `AllowIsHonest` also `HeadNeedsGet`, because
`_isMethodAllowed` takes GET for HEAD, so a location that lists HEAD without GET
answers 405 with `Allow: HEAD` and refuses HEAD; for `DeletedIsGone`
`RedirectsElsewhere`, because `return 200` answers 200 to any GET, a deleted file's
too; for `RedirectsEnd` `RedirectsAway`, because a configuration may redirect in a
circle: a location that redirects has a path without a slash at its end, and
does not redirect to below itself. TLC evaluates all four for the site of the run
(`ResponseInputs`).

**Names** (`PartsProofs`): `NamesLeadHome`, `PartsSpec => []NamesResolve`, for any
configuration file. `Listed` is inductive: of the servers of an accepted file no
two share an address and a name; so the first server that has the name, where
`_resolveConfig` stops, is the one it was written for.

**Words** (`PartsProofs`): `FilesAreCutIntoWords`, `PartsSpec => []WordsOfFile`, for
any set of files over any characters (`TextInputs`). `ContentKept` is about `parse()`, which removes
comments line by line: what it hands on has the characters that are in no comment,
each at a place that `Kept` gives, and a line feed at its end. `Cutting` is
inductive: with the file read to some place, the tokens are those that end before
it, and what is being built is the file from where a word begins to here (`Open`).
A word cannot go on across a comment, because the line feed behind a comment stays
(`Gap`).

**Forms** (`PartsProofs`): `FormsAreStored`, `PartsSpec => []StoredAsSent`, for forms
of any number of parts with any bytes. The hypotheses say how a form is laid out
(`ByTheRules`): its boundaries enclose its parts and occur nowhere else; the first
`filename="` of a part stands among its headers, with its name and a quote after it,
or there is none; after its first blank line come the data and one CRLF. TLC evaluates them
for the forms of the run (`FormInputs`). The code looks for the name in the data
too, so a field that mentions a file is not by these rules: `FieldAboutFile` of
`as_commented`. `Passed` is inductive: the loop stands at the n-th boundary, and
the disk holds the files before it. The step is that `find` comes to the boundary,
the quote and the blank line of the part, whatever is in its data (`NextIs`,
`PartIs`), and that one CRLF is trimmed even if the data ends with more of them
(`TrimmedIs`).

**Paths** (`PartsProofs`): `CleanAlways`, `PartsSpec => []PathIsClean`, for any set of
targets over any bytes. The hypothesis `TargetsOf` says that the bytes of a target
are bytes and that two digits stand for one; TLC evaluates it for the targets of
the run (`UriInputs`). `Walking` is inductive. It gives each name on the stack its
place among the segments (`Holds`): the places are those that stay, in order, and
each is one deeper than the one before. The depths are what makes ".." right: it
leads one up, so the names that no longer stay are those as deep as it began, and
that is the one on top (`HoldsUp`). Then the path is followed back: `Rebuilt` lays the
names behind slashes (`Rests`), so `split` takes them apart as they were
(`SplitRests`), and `urlDecode` leaves a text alone that has nothing to decode
(`DecodedIsSame`). The recursions of both are functions on the positions of the
text (`RecursionExists`, by the distance to its end), so induction over positions
is enough.

**Script replies** (`PartsProofs`): `RepliesAreAsPrinted`, `PartsSpec =>
[](ByTheRules(print) => ReplyAsPrinted)`, for scripts that print nothing, no blank
line, or any number of lines with one line ending, a blank line and any data,
however `read()` cuts that. The code and the headers are the script's: of several
lines with `Status` the last one's, and of several with one name the last. The body
is the data to the byte, for scripts that end lines with LF or print no headers; of
the others nothing is claimed of the body, and `as_commented` shows what they get.
TLC evaluates `ByTheRules` for every print of the run (`ScriptInputs`).
`Collecting` is inductive, and simple: what was read is a beginning of what is
printed. The work is in what `setCGIResponse` finds in it: the first blank line is
the one after the lines, for either ending and whatever the data are (`LfRead`,
`CrRead`), `getline` gives the lines back with their places (`LinesAre`,
`HeadersAre`), and places and numbers of lines choose the same last ones
(`LatestIs`, `NumberedAre`).

## 6. What is only model-checked

- Liveness, and whatever depends on ENABLED, is beyond the prover: `Offered`,
  `QueuedServed`, `Answered`, `OrphansReclaimed`, `AllAnswered`, `ScriptsEnd`,
  `PortFreed`, and the `Moves` of the refinement.
- `MeansWhatItSays`: it compares what the code makes of a file with an expectation
  that is given with the file, and has liveness in it.

## 7. What is not modelled

- Formatting: headers, dates, MIME types, status texts, page texts and directory
  listings, logging; of the environment of a script everything but the body and
  `CONTENT_LENGTH`.
- What `atoi`, `strtol` and `strtoul` make of text: numbers are given. Malformed
  and negative chunk sizes.
- A peer that sends its next request before its answer: `Connection` has none.
- `chdir` and `execve` failing in the child: to the server that is a script that
  exits. `fork` succeeding and `fcntl` failing.
- A half-closed connection is dropped with its script (`Server.cpp:243`): that is
  modelled, but nothing in the code says what should happen.
- Copying of `Client`, `Request` and `Config` objects; the arguments of `main`.
- The files under `www/`, `cgi-bin/` and `conf/`: data.

## 8. Plan

1. Proofs: what `parse()` makes of a file, `MeansWhatItSays` without its liveness,
   for files laid out by the rules.
2. Pipelined requests in `Connection`, with a statement of which are lost.
