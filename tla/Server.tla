------------------------------- MODULE Server -------------------------------
(***************************************************************************)
(* Server.cpp and the part of CGI.cpp that the server process executes:    *)
(* one thread, one poll() loop, connections and CGI pipes in one vector of *)
(* descriptors.  Around it run the peers (the browsers) and the scripts,   *)
(* which may act between any two steps of the server.                      *)
(*                                                                         *)
(* A step of the server is one iteration of the pass over _pollfds: the    *)
(* dispatch of one ready entry and the whole handler it calls.  Two calls  *)
(* block and are steps of their own: poll(), and the waitpid() that        *)
(* follows a script's end of file.                                         *)
(***************************************************************************)
EXTENDS Client, PollSet, FiniteSets

CONSTANTS
    Peer,        \* the browsers
    Pid,         \* process ids fork() can give
    NListen,     \* listening sockets; they have the descriptors 1..NListen
    MaxFd,       \* the process may have the descriptors 1..MaxFd open
    MaxClients,  \* MAX_CLIENTS
    SendAhead,   \* TRUE: peers may send while the answer to a request is due
    EarlyClose   \* TRUE: a script may close its stdout long before it exits

ASSUME LimitsAreNatural ==
    NListen \in Nat \ {0} /\ MaxFd \in Nat /\ MaxClients \in Nat /\ NListen <= MaxFd
ASSUME SwitchesAreBoolean == SendAhead \in BOOLEAN /\ EarlyClose \in BOOLEAN
ASSUME NoneIsNobody == None \notin Peer \cup Pid
ASSUME PeersAreNoPids == Peer \cap Pid = {}

VARIABLES
    pc,        \* where the loop is: see Places
    i,         \* index in pollfds of the entry about to be dispatched
    pollfds,   \* _pollfds
    clients,   \* _clients, a function from descriptors to Client records
    fdt,       \* the descriptor table of the process: what each one refers to
    proc,      \* the scripts, and the two pipes each was started with
    peer,      \* the peers and their side of the connection
    backlog,   \* per listening socket, the connections accept() will return
    cur,       \* the client whose script waitpid() is waiting for
    hung,      \* cgiTimeout of _checkTimeouts
    stale      \* toRemove of _checkTimeouts

world == <<proc, peer, backlog>>
server == <<pc, i, pollfds, clients, fdt, cur, hung, stale>>
vars == <<pc, i, pollfds, clients, fdt, proc, peer, backlog, cur, hung, stale>>

Places == {"poll",      \* blocked in poll(), or about to call it
           "pass",      \* at entry i of the pass
           "waitpid",   \* blocked in waitpid() inside _handleCGIRead
           "timeouts",  \* at the call of _checkTimeouts
           "purge",     \* in the two removal loops of _checkTimeouts
           "stopped"}   \* after the destructor

Fd == 1..MaxFd
ListenFds == 1..NListen

-----------------------------------------------------------------------------
(* Descriptors.                                                            *)

Kinds == {"free", "listen", "sock", "rd", "wr"}
Closed == [kind |-> "free", of |-> None]
Free == {f \in Fd : fdt[f].kind = "free"}

\* The kernel hands out the lowest free descriptor.
Least(f, S) == f \in S /\ \A g \in S : f <= g

Close(t, S) == [f \in Fd |-> IF f \in S THEN Closed ELSE t[f]]

\* When a script is reaped its ends of the pipes are long gone, and what is
\* left of the server's ends refers to nobody: the pipe is broken.
Bury(t, S) == [f \in Fd |-> IF t[f].of \in S THEN [t[f] EXCEPT !.of = None] ELSE t[f]]

-----------------------------------------------------------------------------
(* Scripts and peers.                                                      *)

\* stdout, stdin: the script still has its end of that pipe open;
\* output: unread bytes in the stdout pipe; room: the stdin pipe has room.
NoScript == [st |-> "free", stdout |-> FALSE, stdin |-> FALSE, output |-> FALSE, room |-> TRUE]
NewScript == [NoScript EXCEPT !.st = "run", !.stdout = TRUE, !.stdin = TRUE]
Reaped(S) == [p \in Pid |-> IF p \in S THEN NoScript ELSE proc[p]]

\* inbox: bytes the server has not received yet; fin: how the peer ended its
\* side, if it did; room: the socket's send buffer has room.
Away == [st |-> "away", inbox |-> FALSE, fin |-> "no", room |-> TRUE]
Left(S) == [p \in Peer |-> IF p \in S THEN Away ELSE peer[p]]

-----------------------------------------------------------------------------
(* poll()                                                                  *)

SockEvents(p, events) ==
    (IF events = "IN" /\ (p.inbox \/ p.fin # "no") THEN {"IN"} ELSE {})
      \cup (IF events = "OUT" /\ p.room THEN {"OUT"} ELSE {})
      \cup (IF p.fin = "rst" THEN {"HUP"} ELSE {})

ReadEvents(of) ==
    IF of = None THEN {"HUP"}
    ELSE (IF proc[of].output THEN {"IN"} ELSE {})
           \cup (IF proc[of].stdout THEN {} ELSE {"HUP"})

WriteEvents(of) ==
    IF of = None THEN {"OUT", "ERR"}
    ELSE (IF proc[of].room THEN {"OUT"} ELSE {})
           \cup (IF proc[of].stdin THEN {} ELSE {"ERR"})

Revents(e) ==
    LET d == fdt[e.fd]
    IN  CASE d.kind = "listen" -> IF backlog[e.fd] = <<>> THEN {} ELSE {"IN"}
          [] d.kind = "sock"   -> SockEvents(peer[d.of], e.events)
          [] d.kind = "rd"     -> ReadEvents(d.of)
          [] d.kind = "wr"     -> WriteEvents(d.of)
          [] d.kind = "free"   -> {"NVAL"}

Polled == [k \in DOMAIN pollfds |-> [pollfds[k] EXCEPT !.revents = Revents(pollfds[k])]]

\* The pass goes on with the first entry of s, from k on, that has revents;
\* without one the loop is done.  revents that no later iteration of the pass
\* reads are forgotten.
ForgetBefore(j, s) ==
    [k \in DOMAIN s |-> IF k < j THEN [s[k] EXCEPT !.revents = {}] ELSE s[k]]

ScanFrom(k, s) ==
    \/ \E j \in k..Len(s) :
          /\ s[j].revents # {}
          /\ \A l \in k..(j - 1) : s[l].revents = {}
          /\ pc' = "pass"
          /\ i' = j
          /\ pollfds' = ForgetBefore(j, s)
    \/ /\ \A l \in k..Len(s) : s[l].revents = {}
       /\ pc' = "timeouts"
       /\ i' = 0
       /\ pollfds' = ForgetBefore(Len(s) + 1, s)

GoOn(s) == ScanFrom(i + 1, s)

\* The entry calls for nothing.
PassOver == GoOn(pollfds) /\ UNCHANGED <<clients, world, fdt, cur, hung, stale>>

\* Mutant: the pass begins with the second entry.
PollFromSecond ==
    /\ pc = "poll"
    /\ ScanFrom(2, Polled)
    /\ UNCHANGED <<clients, world, fdt, cur, hung, stale>>

Poll ==
    /\ pc = "poll"
    /\ ScanFrom(1, Polled)
    /\ UNCHANGED <<clients, world, fdt, cur, hung, stale>>

-----------------------------------------------------------------------------
(* The dispatch in run(): which client an entry that is no listening       *)
(* socket is about.                                                        *)

CgiWriteOwners(fd) == {c \in DOMAIN clients : clients[c].cgiWriteFd = fd}
CgiOwners(fd) == {c \in DOMAIN clients : clients[c].cgiRunning /\ clients[c].cgiFd = fd}

Entry == pollfds[i]

AtListener == pc = "pass" /\ Entry.fd \in ListenFds
AtBodyPipe(c) == pc = "pass" /\ Entry.fd \notin ListenFds /\ Least(c, CgiWriteOwners(Entry.fd))
AtOutputPipe(c) ==
    /\ pc = "pass"
    /\ Entry.fd \notin ListenFds
    /\ CgiWriteOwners(Entry.fd) = {}
    /\ Least(c, CgiOwners(Entry.fd))
AtSocket ==
    /\ pc = "pass"
    /\ Entry.fd \notin ListenFds
    /\ CgiWriteOwners(Entry.fd) = {}
    /\ CgiOwners(Entry.fd) = {}

\* Mutant: POLLERR is not looked at.
DeadOnHangUpOnly(revents) == revents \cap {"HUP", "NVAL"} # {}

Dead(revents) == revents \cap {"ERR", "HUP", "NVAL"} # {}

-----------------------------------------------------------------------------
(* _acceptConnection                                                       *)

WithClient(fd, c) == [g \in DOMAIN clients \cup {fd} |-> IF g = fd THEN c ELSE clients[g]]
WithoutClient(fd) == [g \in DOMAIN clients \ {fd} |-> clients[g]]

\* Mutant: one client too many.
TooManyClientsOffByOne == Cardinality(DOMAIN clients) > MaxClients

\* Mutant: the last place is never given.
TooManyClientsEarly == Cardinality(DOMAIN clients) >= MaxClients - 1

TooManyClients == Cardinality(DOMAIN clients) >= MaxClients

\* No descriptor is left: accept() fails and the connection stays queued.
AcceptFails == AtListener /\ Free = {} /\ PassOver

\* MAX_CLIENTS are connected: the connection is accepted and closed.
TurnAway ==
    /\ AtListener
    /\ Free # {}
    /\ TooManyClients
    /\ backlog' = [backlog EXCEPT ![Entry.fd] = Tail(@)]
    /\ peer' = Left({Head(backlog[Entry.fd])})
    /\ GoOn(pollfds)
    /\ UNCHANGED <<clients, fdt, proc, cur, hung, stale>>

AcceptConnection ==
    /\ AtListener
    /\ ~TooManyClients
    /\ LET p == Head(backlog[Entry.fd]) IN
       \E fd \in Free :
          /\ Least(fd, Free)
          /\ backlog' = [backlog EXCEPT ![Entry.fd] = Tail(@)]
          /\ peer' = [peer EXCEPT ![p].st = "open"]
          /\ fdt' = [fdt EXCEPT ![fd] = [kind |-> "sock", of |-> p]]
          /\ clients' = WithClient(fd, NewClient)
          /\ GoOn(AddPollFd(pollfds, fd, "IN"))
    /\ UNCHANGED <<proc, cur, hung, stale>>

-----------------------------------------------------------------------------
(* _removeClient                                                           *)

\* Mutant: the script of a client that leaves is not killed.
RunningOfNobody(fd) == {}

RunningOf(fd) ==
    IF fd \in DOMAIN clients /\ clients[fd].cgiRunning THEN {clients[fd].cgiPid} ELSE {}

CgiFdOf(fd) ==
    IF fd \in DOMAIN clients /\ clients[fd].cgiRunning THEN clients[fd].cgiFd ELSE NoFd

CgiWriteFdOf(fd) == IF fd \in DOMAIN clients THEN clients[fd].cgiWriteFd ELSE NoFd

PeersAt(fd) == {fdt[fd].of} \cap Peer

\* Mutant: the client's own socket is not closed.
DescriptorsButSocket(fd) == {CgiFdOf(fd), CgiWriteFdOf(fd)}

\* Mutant: the output pipe is killed with its script but not closed.
DescriptorsButOutput(fd) == {fd, CgiWriteFdOf(fd)}

Descriptors(fd) == {fd, CgiFdOf(fd), CgiWriteFdOf(fd)}

\* Mutant: the entry of the script's output pipe stays behind.
UnwatchSocketOnly(fd) == RemovePollFd(RemovePollFd(pollfds, CgiWriteFdOf(fd)), fd)

UnwatchAll(fd) ==
    RemovePollFd(RemovePollFd(RemovePollFd(pollfds, CgiFdOf(fd)), CgiWriteFdOf(fd)), fd)

\* Everything _removeClient(fd) does except for _pollfds, which becomes
\* UnwatchAll(fd).  fd may also be the descriptor of a pipe that no client
\* remembers: then it is only unwatched and closed.
RemoveClient(fd) ==
    /\ clients' = WithoutClient(fd)
    /\ fdt' = Bury(Close(fdt, Descriptors(fd)), RunningOf(fd))
    /\ proc' = Reaped(RunningOf(fd))
    /\ peer' = Left(PeersAt(fd))
    /\ UNCHANGED <<backlog, cur, hung>>

\* _removeClient called in the pass.
RemoveInPass(fd) == RemoveClient(fd) /\ GoOn(UnwatchAll(fd)) /\ UNCHANGED stale

\* POLLERR, POLLHUP or POLLNVAL on what run() takes for a client's socket.
HangUp == AtSocket /\ Dead(Entry.revents) /\ RemoveInPass(Entry.fd)

\* A pipe that no client remembers is ready: _handleRead and _handleWrite
\* find no client and return.
IgnoreOrphan ==
    AtSocket /\ ~Dead(Entry.revents) /\ Entry.fd \notin DOMAIN clients /\ PassOver

-----------------------------------------------------------------------------
(* _handleRead, _processRequest and CGI::execute                           *)

Readable(fd) ==
    /\ AtSocket
    /\ ~Dead(Entry.revents)
    /\ "IN" \in Entry.revents
    /\ fd = Entry.fd
    /\ fd \in DOMAIN clients

HasData(p) == p.inbox /\ p.fin # "rst"

\* recv() returned 0 or -1.
ReadClosed(fd) == Readable(fd) /\ ~HasData(peer[fdt[fd].of]) /\ RemoveInPass(fd)

\* recv() took everything the peer had sent.
Receive(fd) ==
    /\ Readable(fd)
    /\ HasData(peer[fdt[fd].of])
    /\ peer' = [peer EXCEPT ![fdt[fd].of].inbox = FALSE]
    /\ UNCHANGED <<backlog, cur, hung, stale>>

\* updateActivity(), and what feed() can make of the request.
Refreshed(c) == [c EXCEPT !.idle = 0]
Complete(c, r, k) == [c EXCEPT !.idle = 0, !.req = r, !.keepAlive = k]

\* The client after feed(): the request may now be complete.  A request that
\* was complete stays as it is, whatever arrives after it.
Fed(c) ==
    {Refreshed(c)} \cup
    (IF c.req = "partial" THEN {Complete(c, r, k) : r \in Requests, k \in BOOLEAN} ELSE {})

NeedsCGI(c) == c.req \in {"script", "scriptBody"}

\* More of the request is missing.
ReadPart(fd) ==
    /\ Receive(fd)
    /\ \E c \in Fed(clients[fd]) :
          c.req = "partial" /\ clients' = [clients EXCEPT ![fd] = c]
    /\ GoOn(pollfds)
    /\ UNCHANGED <<fdt, proc>>

\* A static answer, or the error page of a request that does not parse.
ProcessStatic(fd) ==
    /\ Receive(fd)
    /\ \E c \in Fed(clients[fd]) :
          c.req = "page" /\ clients' = [clients EXCEPT ![fd] = Respond(c, "page")]
    /\ GoOn(SetEvents(pollfds, fd, "OUT"))
    /\ UNCHANGED <<fdt, proc>>

\* The second pipe() failed: the two descriptors of the first stay open.
LeakPipe ==
    /\ Cardinality(Free) \in {2, 3}
    /\ \E a, b \in Free :
          /\ Least(a, Free)
          /\ Least(b, Free \ {a})
          /\ fdt' = [fdt EXCEPT ![a] = [kind |-> "rd", of |-> None],
                                ![b] = [kind |-> "wr", of |-> None]]

\* CGI::execute returned -1: the first or the second pipe(), or fork() failed.
LaunchFails(fd) ==
    /\ Receive(fd)
    /\ \E c \in Fed(clients[fd]) :
          NeedsCGI(c) /\ clients' = [clients EXCEPT ![fd] = Respond(c, "500")]
    /\ \/ Cardinality(Free) < 2 /\ UNCHANGED fdt
       \/ LeakPipe
       \/ Cardinality(Free) >= 4 /\ (\A p \in Pid : proc[p].st # "free") /\ UNCHANGED fdt
    /\ GoOn(SetEvents(pollfds, fd, "OUT"))
    /\ UNCHANGED proc

\* The descriptors that remain of the two pipes: a is pipeIn[0] and is closed
\* at once, wr is pipeIn[1], rd is pipeOut[0]; pipeOut[1] is closed at once.
PipeEnds(rd, wr) ==
    /\ Cardinality(Free) >= 4
    /\ \E a \in Free :
          /\ Least(a, Free)
          /\ Least(wr, Free \ {a})
          /\ Least(rd, Free \ {a, wr})

\* The end of _processRequest: a client with an answer waits to write it.
Answering(c, fd, s) == IF c.responseReady THEN SetEvents(s, fd, "OUT") ELSE s

\* The script runs: its stdout is watched, and its stdin too if there is a
\* body to feed it; otherwise that pipe is closed.
Launch(fd) ==
    /\ Receive(fd)
    /\ \E c \in Fed(clients[fd]), pid \in Pid, rd, wr \in Free :
          /\ NeedsCGI(c)
          /\ proc[pid].st = "free"
          /\ PipeEnds(rd, wr)
          /\ proc' = [proc EXCEPT ![pid] = NewScript]
          /\ LET launched == Launched(c, pid, rd, wr)
                 reading  == [fdt EXCEPT ![rd] = [kind |-> "rd", of |-> pid]]
                 watched  == AddPollFd(pollfds, rd, "IN")
             IN  /\ clients' = [clients EXCEPT ![fd] = launched]
                 /\ IF c.req = "scriptBody"
                    THEN /\ fdt' = [reading EXCEPT ![wr] = [kind |-> "wr", of |-> pid]]
                         /\ GoOn(Answering(launched, fd, AddPollFd(watched, wr, "OUT")))
                    ELSE /\ fdt' = reading
                         /\ GoOn(Answering(launched, fd, watched))

-----------------------------------------------------------------------------
(* _handleCGIRead                                                          *)

ScriptAt(fd) == {fdt[fd].of} \cap Pid

\* read() > 0: the output is appended to what came before.
HandleCGIRead(c) ==
    /\ AtOutputPipe(c)
    /\ Entry.revents \cap {"IN", "HUP"} # {}
    /\ \E p \in ScriptAt(Entry.fd) :
          /\ proc[p].output
          /\ proc' = [proc EXCEPT ![p].output = FALSE]
    /\ clients' = [clients EXCEPT ![c].cgiOutput = TRUE]
    /\ GoOn(pollfds)
    /\ UNCHANGED <<fdt, peer, backlog, cur, hung, stale>>

\* read() = 0: the script has closed its stdout and everything was read.
\* The pipe is closed and waitpid() called.
CGIEndOfFile(c) ==
    /\ AtOutputPipe(c)
    /\ Entry.revents \cap {"IN", "HUP"} # {}
    /\ \A p \in ScriptAt(Entry.fd) : ~proc[p].output /\ ~proc[p].stdout
    /\ pollfds' = RemovePollFd(pollfds, Entry.fd)
    /\ fdt' = Close(fdt, {Entry.fd})
    /\ cur' = c
    /\ pc' = "waitpid"
    /\ UNCHANGED <<i, clients, proc, peer, backlog, hung, stale>>

\* The script has exited and waitpid() returns: the answer is ready.
WaitpidReturns ==
    /\ pc = "waitpid"
    /\ proc[clients[cur].cgiPid].st = "zombie"
    /\ proc' = Reaped({clients[cur].cgiPid})
    /\ fdt' = Bury(fdt, {clients[cur].cgiPid})
    /\ clients' = [clients EXCEPT ![cur] = Finished(@)]
    /\ cur' = NoFd
    /\ GoOn(SetEvents(pollfds, cur, "OUT"))
    /\ UNCHANGED <<peer, backlog, hung, stale>>

-----------------------------------------------------------------------------
(* _handleCGIWrite                                                         *)

BodyPipeReady(c) == AtBodyPipe(c) /\ Entry.revents \cap {"OUT", "ERR", "HUP"} # {}

CloseBodyPipe(c) ==
    /\ clients' = [clients EXCEPT ![c] = BodyDone(@)]
    /\ fdt' = Close(fdt, {Entry.fd})
    /\ GoOn(RemovePollFd(pollfds, Entry.fd))

\* write() <= 0: the script no longer reads its stdin.
BodyRefused(c) ==
    /\ BodyPipeReady(c)
    /\ \A p \in ScriptAt(Entry.fd) : ~proc[p].stdin
    /\ CloseBodyPipe(c)
    /\ UNCHANGED <<proc, peer, backlog, cur, hung, stale>>

\* write() took the rest of the body, or only a part because the pipe is full.
HandleCGIWrite(c) ==
    /\ BodyPipeReady(c)
    /\ \E p \in ScriptAt(Entry.fd) :
          /\ proc[p].stdin
          /\ \/ /\ CloseBodyPipe(c)
                /\ UNCHANGED proc
             \/ \E n \in 1..(clients[c].bodyLeft - 1) :
                   /\ clients' = [clients EXCEPT ![c].bodyLeft = @ - n]
                   /\ proc' = [proc EXCEPT ![p].room = FALSE]
                   /\ GoOn(pollfds)
                   /\ UNCHANGED fdt
    /\ UNCHANGED <<peer, backlog, cur, hung, stale>>

-----------------------------------------------------------------------------
(* _handleWrite                                                            *)

Writable(fd) ==
    /\ AtSocket
    /\ ~Dead(Entry.revents)
    /\ "OUT" \in Entry.revents
    /\ fd = Entry.fd
    /\ fd \in DOMAIN clients
    /\ clients[fd].responseReady

\* send() <= 0.
WriteFails(fd) == Writable(fd) /\ peer[fdt[fd].of].fin = "rst" /\ RemoveInPass(fd)

Send(fd) == Writable(fd) /\ peer[fdt[fd].of].fin # "rst"

\* send() took a part: the send buffer of the socket is full.
WritePart(fd) ==
    /\ Send(fd)
    /\ \E n \in 1..(clients[fd].unsent - 1) :
          clients' = [clients EXCEPT ![fd] = Sent(@, n)]
    /\ peer' = [peer EXCEPT ![fdt[fd].of].room = FALSE]
    /\ GoOn(pollfds)
    /\ UNCHANGED <<fdt, proc, backlog, cur, hung, stale>>

\* send() took the rest and the connection waits for its next request ...
WriteLast(fd) ==
    /\ Send(fd)
    /\ clients[fd].keepAlive
    /\ clients' = [clients EXCEPT ![fd] = Reset(@)]
    /\ GoOn(SetEvents(pollfds, fd, "IN"))
    /\ UNCHANGED <<fdt, world, cur, hung, stale>>

\* ... or is closed.
WriteLastAndClose(fd) == Send(fd) /\ ~clients[fd].keepAlive /\ RemoveInPass(fd)

-----------------------------------------------------------------------------
(* _checkTimeouts                                                          *)

TooOld == {fd \in DOMAIN clients : ScriptTooOld(clients[fd])}
TimedOut == {fd \in DOMAIN clients : HasTimedOut(clients[fd])}

\* The first loop: who has timed out.
CheckTimeouts ==
    /\ pc = "timeouts"
    /\ hung' = TooOld
    /\ stale' = TimedOut
    /\ pc' = IF TooOld \cup TimedOut = {} THEN "poll" ELSE "purge"
    /\ UNCHANGED <<i, pollfds, clients, fdt, proc, peer, backlog, cur>>

\* One iteration of the loop over cgiTimeout: kill the script, answer 504.
GatewayTimeout(fd) ==
    /\ pc = "purge"
    /\ Least(fd, hung)
    /\ LET c == clients[fd] IN
          /\ proc' = Reaped({c.cgiPid})
          /\ fdt' = Bury(Close(fdt, {c.cgiFd, c.cgiWriteFd}), {c.cgiPid})
          /\ pollfds' = SetEvents(RemovePollFd(RemovePollFd(pollfds, c.cgiFd), c.cgiWriteFd),
                                  fd, "OUT")
          /\ clients' = [clients EXCEPT ![fd] = GivenUp(c)]
    /\ hung' = hung \ {fd}
    /\ pc' = IF hung' \cup stale = {} THEN "poll" ELSE "purge"
    /\ UNCHANGED <<i, peer, backlog, cur, stale>>

\* One iteration of the loop over toRemove.
DropIdle(fd) ==
    /\ pc = "purge"
    /\ hung = {}
    /\ Least(fd, stale)
    /\ RemoveClient(fd)
    /\ pollfds' = UnwatchAll(fd)
    /\ stale' = stale \ {fd}
    /\ pc' = IF stale' = {} THEN "poll" ELSE "purge"
    /\ UNCHANGED i

-----------------------------------------------------------------------------
(* Shutdown: SIGINT makes run() return and the destructor closes the       *)
(* listening sockets and the clients'.  It knows no script and no pipe.    *)

Stop ==
    /\ pc = "poll"
    /\ pc' = "stopped"
    /\ fdt' = Close(fdt, ListenFds \cup DOMAIN clients)
    /\ clients' = <<>>
    /\ pollfds' = <<>>
    /\ peer' = [p \in Peer |-> Away]
    /\ backlog' = [l \in ListenFds |-> <<>>]
    /\ UNCHANGED <<i, proc, cur, hung, stale>>

Terminated == pc = "stopped" /\ UNCHANGED vars

-----------------------------------------------------------------------------
(* The peers.                                                              *)

RequestDue(p) ==
    \A fd \in DOMAIN clients : fdt[fd].of = p => clients[fd].req = "partial"

PeerConnect(p) ==
    /\ peer[p].st = "away"
    /\ peer' = [peer EXCEPT ![p].st = "queued"]
    /\ \E l \in ListenFds : backlog' = [backlog EXCEPT ![l] = Append(@, p)]

\* Some bytes arrive, be it a fragment of a request or all of it.
PeerSend(p) ==
    /\ peer[p].st # "away"
    /\ peer[p].fin = "no"
    /\ SendAhead \/ RequestDue(p)
    /\ peer' = [peer EXCEPT ![p].inbox = TRUE]

PeerFin(p) ==
    /\ peer[p].st # "away"
    /\ peer[p].fin = "no"
    /\ peer' = [peer EXCEPT ![p].fin = "fin"]

PeerReset(p) ==
    /\ peer[p].st # "away"
    /\ peer' = [peer EXCEPT ![p].fin = "rst", ![p].inbox = FALSE]

PeerDrain(p) == peer' = [peer EXCEPT ![p].room = TRUE]

PeerStep ==
    /\ \E p \in Peer :
          \/ PeerConnect(p)
          \/ (PeerSend(p) \/ PeerFin(p) \/ PeerReset(p) \/ PeerDrain(p)) /\ UNCHANGED backlog
    /\ UNCHANGED proc

-----------------------------------------------------------------------------
(* The scripts.                                                            *)

ScriptWrite(p) ==
    /\ proc[p].stdout
    /\ proc' = [proc EXCEPT ![p].output = TRUE]

ScriptRead(p) ==
    /\ proc[p].stdin
    /\ proc' = [proc EXCEPT ![p].room = TRUE]

ScriptCloseStdin(p) ==
    proc' = [proc EXCEPT ![p].stdin = FALSE]

ScriptCloseStdout(p) ==
    /\ EarlyClose
    /\ proc' = [proc EXCEPT ![p].stdout = FALSE]

\* exit() closes what is still open.
ScriptExit(p) ==
    proc' = [proc EXCEPT ![p].st = "zombie", ![p].stdout = FALSE, ![p].stdin = FALSE]

ScriptStep ==
    /\ \E p \in Pid :
          /\ proc[p].st = "run"
          /\ \/ ScriptWrite(p) \/ ScriptRead(p) \/ ScriptCloseStdin(p)
             \/ ScriptCloseStdout(p) \/ ScriptExit(p)
    /\ UNCHANGED <<peer, backlog>>

-----------------------------------------------------------------------------
(* Time passes while the server is blocked.  The pass itself takes no      *)
(* time: time(NULL) has a resolution of a second.                          *)
Tick ==
    /\ pc \in {"poll", "waitpid"}
    /\ clients' = [fd \in DOMAIN clients |-> Older(clients[fd])]
    /\ UNCHANGED <<pc, i, pollfds, fdt, proc, peer, backlog, cur, hung, stale>>

-----------------------------------------------------------------------------

\* _setupSockets has opened and watched the listening sockets.
Init ==
    /\ pc = "poll"
    /\ i = 0
    /\ pollfds = [l \in ListenFds |-> [fd |-> l, events |-> "IN", revents |-> {}]]
    /\ clients = <<>>
    /\ fdt = [f \in Fd |-> IF f \in ListenFds THEN [kind |-> "listen", of |-> None] ELSE Closed]
    /\ proc = [p \in Pid |-> NoScript]
    /\ peer = [p \in Peer |-> Away]
    /\ backlog = [l \in ListenFds |-> <<>>]
    /\ cur = NoFd
    /\ hung = {}
    /\ stale = {}

HandleClient(fd) ==
    \/ ReadClosed(fd) \/ ReadPart(fd) \/ ProcessStatic(fd) \/ LaunchFails(fd) \/ Launch(fd)
    \/ WriteFails(fd) \/ WritePart(fd) \/ WriteLast(fd) \/ WriteLastAndClose(fd)

HandlePipe(c) ==
    HandleCGIRead(c) \/ CGIEndOfFile(c) \/ BodyRefused(c) \/ HandleCGIWrite(c)

\* What the server does by itself.
Loop ==
    \/ Poll
    \/ AcceptFails \/ TurnAway \/ AcceptConnection
    \/ HangUp \/ IgnoreOrphan
    \/ \E fd \in DOMAIN clients : HandleClient(fd) \/ HandlePipe(fd)
    \/ WaitpidReturns
    \/ CheckTimeouts
    \/ \E fd \in Fd : GatewayTimeout(fd) \/ DropIdle(fd)

Environment ==
    /\ pc # "stopped"
    /\ PeerStep \/ ScriptStep
    /\ UNCHANGED server

Next == Loop \/ Stop \/ Environment \/ Tick \/ Terminated

\* The server runs, and time does not stop: a poll() lasts a second at most.
\* Nothing is assumed of the peers and of the scripts.
Fairness == WF_vars(Loop) /\ SF_vars(Tick)

Spec == Init /\ [][Next]_vars /\ Fairness

\* The same without the assumption that time passes: no timeout need strike.
Untimed == Init /\ [][Next]_vars /\ WF_vars(Loop)
=============================================================================
