-------------------------- MODULE ServerProperties --------------------------
(***************************************************************************)
(* What the server promises, stated over the variables of module Server.   *)
(***************************************************************************)
EXTENDS Server

Ages == 0..(Timeout + 1)

ClientType ==
    [req : Requests \cup {"partial"}, keepAlive : BOOLEAN,
     responseReady : BOOLEAN, unsent : 0..RespSize, answer : Answers,
     cgiRunning : BOOLEAN, cgiPid : Pid \cup {None}, cgiFd : Fd \cup {NoFd},
     cgiOutput : BOOLEAN, cgiWriteFd : Fd \cup {NoFd}, bodyLeft : 0..BodySize,
     idle : Ages, cgiAge : Ages]

EntryType == [fd : Fd, events : {"IN", "OUT"}, revents : SUBSET Bits]

DescriptorType == [kind : Kinds, of : Peer \cup Pid \cup {None}]

ScriptType ==
    [st : {"free", "run", "zombie"}, stdout : BOOLEAN, stdin : BOOLEAN,
     output : BOOLEAN, room : BOOLEAN]

PeerType ==
    [st : {"away", "queued", "open"}, inbox : BOOLEAN,
     fin : {"no", "fin", "rst"}, room : BOOLEAN]

\* Every variable has its type: the type invariant.
TypeOK ==
    /\ pc \in Places
    /\ i \in Nat
    /\ pollfds \in Seq(EntryType)
    /\ DOMAIN clients \subseteq Fd
    /\ clients \in [DOMAIN clients -> ClientType]
    /\ fdt \in [Fd -> DescriptorType]
    /\ proc \in [Pid -> ScriptType]
    /\ peer \in [Peer -> PeerType]
    /\ backlog \in [ListenFds -> Seq(Peer)]
    /\ cur \in Fd \cup {NoFd}
    /\ hung \subseteq Fd
    /\ stale \subseteq Fd

-----------------------------------------------------------------------------
(* Safety.                                                                 *)

\* _pollfds, _clients and the open descriptors agree although handlers close,
\* reuse and unwatch descriptors while the pass runs over the vector: no
\* descriptor is in it twice, none of its descriptors is closed, and the
\* clients are exactly the watched sockets.  A closed descriptor left in the
\* vector would come back as POLLNVAL, and _removeClient would close whatever
\* has been opened under that number since.
PollSetSound ==
    /\ Distinct(pollfds)
    /\ \A fd \in Watched(pollfds) : fdt[fd].kind # "free"
    /\ \A fd \in Fd : fd \in DOMAIN clients <=> fdt[fd].kind = "sock"
    /\ DOMAIN clients \subseteq Watched(pollfds)

\* A client waits for POLLOUT exactly when its response is ready.  In the
\* other mode the answer would never be sent, or poll() would spin.
ModeMatches ==
    \A k \in DOMAIN pollfds :
        pollfds[k].fd \in DOMAIN clients =>
            (pollfds[k].events = "OUT" <=> clients[pollfds[k].fd].responseReady)

Running == {fd \in DOMAIN clients : clients[fd].cgiRunning}

\* The descriptors a client remembers are its own script's pipes, open and
\* watched: what is read from them is its script's output, and closing them
\* closes no other client's.  A body pipe may outlive its script.
CgiPipesOwned ==
    \A fd \in DOMAIN clients :
        LET c == clients[fd] IN
        /\ fd \in Running /\ fd # cur =>
              /\ c.cgiFd \in Watched(pollfds)
              /\ fdt[c.cgiFd] = [kind |-> "rd", of |-> c.cgiPid]
        /\ c.cgiWriteFd # NoFd =>
              /\ c.cgiWriteFd \in Watched(pollfds)
              /\ fdt[c.cgiWriteFd].kind = "wr"
              /\ fdt[c.cgiWriteFd].of = (IF fd \in Running THEN c.cgiPid ELSE None)
              /\ \A g \in DOMAIN clients \ {fd} : clients[g].cgiWriteFd # c.cgiWriteFd

\* kill() and waitpid() are called for a child that has not been reaped, and
\* for one client only: the pid is never one the system has given away since.
KillsOwnScript ==
    /\ \A fd \in Running : clients[fd].cgiPid \in Pid /\ proc[clients[fd].cgiPid].st # "free"
    /\ \A fd, g \in Running : clients[fd].cgiPid = clients[g].cgiPid => fd = g

\* While a script works on the request nothing has been prepared to send, so
\* its output cannot overwrite a half-sent response.
NoOverwrite == \A fd \in Running : ~clients[fd].responseReady

\* Every child process belongs to a client that will reap it.
EveryScriptOwned ==
    pc # "stopped" =>
        \A p \in Pid : proc[p].st # "free" => \E fd \in Running : clients[fd].cgiPid = p

\* Every open descriptor is in _pollfds, so that some later pass can close it.
NothingOpenUnwatched ==
    pc # "stopped" => \A fd \in Fd : fdt[fd].kind # "free" => fd \in Watched(pollfds)

\* The pipe() that is not followed by a second one is the only leak: a socket,
\* or the pipe of a script that is there, never leaves _pollfds unclosed.
OnlyPipesAreLost ==
    pc # "stopped" =>
        \A fd \in Fd : fdt[fd].kind # "free" /\ fd \notin Watched(pollfds) =>
            fdt[fd].kind \in {"rd", "wr"} /\ fdt[fd].of = None

\* MAX_CLIENTS is never exceeded.
ClientsBounded == Cardinality(DOMAIN clients) <= MaxClients

\* The server never blocks: waitpid() is only called for a script that exited.
NeverBlocks == pc = "waitpid" => proc[clients[cur].cgiPid].st = "zombie"

\* The socket of a client comes before the pipes of its script.  So the pass
\* that finds a script's end of file never goes on to read from the client
\* whose answer it has just prepared.
SocketBeforePipes ==
    \A fd \in Running \ {cur} :
        IndexOf(pollfds, fd) < IndexOf(pollfds, clients[fd].cgiFd)

-----------------------------------------------------------------------------
(* What a step may not do.                                                 *)

\* An entry of _pollfds never moves away from the front.  The erase() in the
\* middle of a pass makes the loop skip an entry; because entries only move
\* forward, each can be skipped a bounded number of times.
KeepsPlace ==
    [][\A fd \in Watched(pollfds) \cap Watched(pollfds') :
          IndexOf(pollfds', fd) <= IndexOf(pollfds, fd)]_vars

\* A script that starts finds no output of an earlier script in the buffer
\* of its client.
StartsAfresh ==
    [][\A fd \in DOMAIN clients' :
          /\ clients'[fd].cgiRunning
          /\ fd \in DOMAIN clients => clients'[fd].cgiPid # clients[fd].cgiPid
          => ~clients'[fd].cgiOutput]_vars

\* The peer is there and its window is open.
CouldTake(p) == peer[p].st = "open" /\ peer[p].fin = "no" /\ peer[p].room

\* No step drops a client with such an answer, unsent, while the peer could
\* take it.
NeverDropped(what) ==
    \A fd \in DOMAIN clients \ DOMAIN clients' :
        ~ /\ clients[fd].responseReady
          /\ clients[fd].answer = what
          /\ clients[fd].unsent = RespSize
          /\ CouldTake(fdt[fd].of)
          /\ pc = "purge"

\* The 504 that answers a hung script is offered to its client.
GatewayTimeoutSent == [][NeverDropped("504")]_vars

-----------------------------------------------------------------------------
(* Liveness.                                                               *)

Pending(p) == \E fd \in DOMAIN clients : fdt[fd].of = p /\ clients[fd].req # "partial"

\* Every complete request is answered in full, or its connection is closed: a
\* script that hangs or a peer that stops reading delays that, but the
\* timeouts put an end to it.
Answered == \A p \in Peer : Pending(p) ~> ~Pending(p)

\* A connection does not stay in the backlog.
QueuedServed == \A p \in Peer : peer[p].st = "queued" ~> peer[p].st # "queued"

Offerable(p) ==
    CouldTake(p) /\ \E fd \in DOMAIN clients : fdt[fd].of = p /\ clients[fd].responseReady

\* A ready response is sent whenever the peer takes it, however other peers
\* come and go and move the entries of _pollfds.  No timeout is needed for it.
Offered == \A p \in Peer : Offerable(p) ~> ~Offerable(p)

Orphans ==
    {fd \in Fd : fdt[fd].kind \in {"rd", "wr"} /\ CgiWriteOwners(fd) = {} /\ CgiOwners(fd) = {}}

\* A pipe that no client remembers any more is closed in the end: the script
\* is gone, so poll() reports it and run() takes it for a dead client.
OrphansReclaimed == (pc # "stopped" /\ Orphans # {}) ~> (pc = "stopped" \/ Orphans = {})

=============================================================================
