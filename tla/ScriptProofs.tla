---------------------------- MODULE ScriptProofs ----------------------------
(***************************************************************************)
(* Theorems about the scripts of the event loop: whom kill() and waitpid() *)
(* are called for; and, for peers that wait for their answers, that no     *)
(* script is forgotten and no reply overwritten.                           *)
(***************************************************************************)
EXTENDS ServerProofs

-----------------------------------------------------------------------------
(* The invariant.                                                          *)

\* A client's socket belongs to one peer and to no other client; no other
\* descriptor belongs to a peer.
Visitors ==
    /\ \A f \in DOMAIN clients : fdt[f].of \in Peer /\ peer[fdt[f].of].st = "open"
    /\ \A f, g \in DOMAIN clients : fdt[f].of = fdt[g].of => f = g
    /\ \A f \in Fd \ DOMAIN clients : fdt[f].of \notin Peer

\* A peer in a backlog is waiting there, and in one place.
Queues ==
    /\ \A l \in ListenFds : \A k \in DOMAIN backlog[l] : peer[backlog[l][k]].st = "queued"
    /\ \A l, m \in ListenFds : \A k \in DOMAIN backlog[l], j \in DOMAIN backlog[m] :
          backlog[l][k] = backlog[m][j] => l = m /\ k = j

\* A client whose request is not complete has no script and no reply; a script
\* and a reply exclude each other.
Alternates(c) ==
    /\ c.req = "partial" => ~c.cgiRunning /\ ~c.responseReady
    /\ c.cgiRunning => ~c.responseReady

\* A peer that has sent its request sends nothing more.
Patient(c, p) == c.req # "partial" => ~p.inbox

Exchanges ==
    \A f \in DOMAIN clients : Alternates(clients[f]) /\ Patient(clients[f], peer[fdt[f].of])

SInv == IInv /\ KillsOwnScript /\ Visitors /\ Queues /\ Exchanges /\ EveryScriptOwned

-----------------------------------------------------------------------------
(* The operations on a client.                                             *)

Alike(c, d) ==
    /\ d.cgiRunning = c.cgiRunning /\ d.cgiPid = c.cgiPid
    /\ d.req = c.req /\ d.responseReady = c.responseReady

LEMMA NewClientIdle ==
    NewClient.req = "partial" /\ ~NewClient.cgiRunning /\ ~NewClient.responseReady
  BY DEF NewClient

LEMMA RespondReady ==
    ASSUME NEW c \in ClientType, NEW what
    PROVE  LET d == Respond(c, what)
           IN  /\ d.cgiRunning = c.cgiRunning /\ d.cgiPid = c.cgiPid /\ d.req = c.req
               /\ d.responseReady
  BY DEF Respond, ClientType

LEMMA FedAlike ==
    ASSUME NEW c \in ClientType, NEW d \in Fed(c)
    PROVE  /\ d.cgiRunning = c.cgiRunning /\ d.cgiPid = c.cgiPid
           /\ d.responseReady = c.responseReady
           /\ c.req = "partial" \/ Alike(c, d)
<1>1. CASE d = Refreshed(c)
  BY <1>1 DEF Refreshed, ClientType, Alike
<1>2. ASSUME c.req = "partial", NEW r \in Requests, NEW k \in BOOLEAN, d = Complete(c, r, k)
      PROVE  /\ d.cgiRunning = c.cgiRunning /\ d.cgiPid = c.cgiPid
             /\ d.responseReady = c.responseReady
  BY <1>2 DEF Complete, ClientType
<1>3. \/ d = Refreshed(c)
      \/ c.req = "partial" /\ \E r \in Requests, k \in BOOLEAN : d = Complete(c, r, k)
  BY DEF Fed
<1> QED
  BY <1>1, <1>2, <1>3 DEF Alike

LEMMA LaunchedRuns ==
    ASSUME NEW c \in ClientType, NEW pid, NEW rd, NEW wr
    PROVE  LET d == Launched(c, pid, rd, wr)
           IN  /\ d.cgiRunning /\ d.cgiPid = pid /\ d.req = c.req
               /\ d.responseReady = c.responseReady
  BY DEF Launched, ClientType

LEMMA SentAlike ==
    ASSUME NEW c \in ClientType, NEW n
    PROVE  /\ Alike(c, Sent(c, n))
           /\ Alike(c, [c EXCEPT !.bodyLeft = @ - n])
           /\ Alike(c, [c EXCEPT !.cgiOutput = TRUE])
           /\ Alike(c, BodyDone(c))
  BY DEF Sent, BodyDone, ClientType, Alike

LEMMA OlderAlike ==
    ASSUME NEW c \in ClientType
    PROVE  Alike(c, Older(c))
<1> DEFINE a == IF c.idle > Timeout THEN c.idle ELSE c.idle + 1
           b == IF c.cgiRunning
                THEN IF c.cgiAge > Timeout THEN c.cgiAge ELSE c.cgiAge + 1 ELSE c.cgiAge
<1>1. Older(c) = [c EXCEPT !.idle = a, !.cgiAge = b]
  BY DEF Older
<1> HIDE DEF a, b
<1> QED
  BY <1>1 DEF ClientType, Alike

LEMMA FinishedReady ==
    ASSUME NEW c \in ClientType
    PROVE  /\ ~Finished(c).cgiRunning /\ Finished(c).responseReady /\ Finished(c).req = c.req
           /\ ~GivenUp(c).cgiRunning /\ GivenUp(c).responseReady /\ GivenUp(c).req = c.req
  BY DEF Finished, GivenUp, Respond, ClientType

-----------------------------------------------------------------------------
(* Whom kill() and waitpid() are called for.                               *)

\* No script starts, and none that a client remembers is reaped.
NoneBegins ==
    \A f \in DOMAIN clients' :
        clients'[f].cgiRunning =>
            /\ f \in Running
            /\ clients'[f].cgiPid = clients[f].cgiPid
            /\ proc'[clients[f].cgiPid].st # "free"

LEMMA NoneBeginsKeeps ==
    ASSUME KillsOwnScript, NoneBegins
    PROVE  KillsOwnScript'
  BY DEF KillsOwnScript, NoneBegins, Running

\* The state of the processes that are there, of a set of them as before.
Untouched(S) == \A p \in S : proc[p].st # "free" => proc'[p].st # "free"

LEMMA ClientsStay ==
    ASSUME KillsOwnScript, UNCHANGED clients, Untouched(Pid)
    PROVE  NoneBegins
  BY DEF KillsOwnScript, NoneBegins, Running, Untouched

LEMMA OneClientChanges ==
    ASSUME KillsOwnScript, Untouched(Pid), NEW fd \in DOMAIN clients, NEW c,
           clients' = [clients EXCEPT ![fd] = c],
           c.cgiRunning => clients[fd].cgiRunning /\ c.cgiPid = clients[fd].cgiPid
    PROVE  NoneBegins
  BY DEF KillsOwnScript, NoneBegins, Running, Untouched

\* A script is reaped, and its client goes or knows.
LEMMA ReapedScript ==
    ASSUME KillsOwnScript, NEW fd, proc' = Reaped(RunningOf(fd)),
           \A f \in DOMAIN clients' : f # fd => f \in DOMAIN clients /\ clients'[f] = clients[f],
           fd \in DOMAIN clients' => ~clients'[fd].cgiRunning
    PROVE  NoneBegins
  BY DEF KillsOwnScript, NoneBegins, Running, Reaped, RunningOf

LEMMA SocketStepBegins ==
    ASSUME IInv, KillsOwnScript, NEW fd \in DOMAIN clients, HandleClient(fd), ~Launch(fd)
    PROVE  NoneBegins
<1>1. clients[fd] \in ClientType
  BY ClientAt
<1>2. CASE ReadClosed(fd) \/ WriteFails(fd) \/ WriteLastAndClose(fd)
  <2>1. clients' = WithoutClient(fd) /\ proc' = Reaped(RunningOf(fd))
    BY <1>2 DEF ReadClosed, WriteFails, WriteLastAndClose, RemoveInPass, RemoveClient
  <2>2. /\ \A f \in DOMAIN clients' : f \in DOMAIN clients /\ clients'[f] = clients[f]
        /\ fd \notin DOMAIN clients'
    BY <2>1 DEF WithoutClient
  <2> QED
    BY <2>1, <2>2, ReapedScript
<1>3. CASE ReadPart(fd)
  <2>1. PICK c \in Fed(clients[fd]) : clients' = [clients EXCEPT ![fd] = c]
    BY <1>3 DEF ReadPart
  <2> QED
    BY <1>1, <1>3, <2>1, FedAlike, OneClientChanges DEF ReadPart, Untouched
<1>4. CASE ProcessStatic(fd) \/ LaunchFails(fd)
  <2>1. PICK c \in Fed(clients[fd]), what \in {"page", "500"} :
           clients' = [clients EXCEPT ![fd] = Respond(c, what)]
    BY <1>4 DEF ProcessStatic, LaunchFails
  <2>2. Untouched(Pid)
    BY <1>4 DEF ProcessStatic, LaunchFails, Untouched
  <2>3. /\ c \in ClientType
        /\ c.cgiRunning = clients[fd].cgiRunning /\ c.cgiPid = clients[fd].cgiPid
    BY <1>1, FedAlike, FedType
  <2>4. /\ Respond(c, what).cgiRunning = c.cgiRunning
        /\ Respond(c, what).cgiPid = c.cgiPid
    BY <2>3, RespondReady
  <2> QED
    BY <2>1, <2>2, <2>3, <2>4, OneClientChanges
<1>5. CASE WritePart(fd)
  <2>1. PICK n : clients' = [clients EXCEPT ![fd] = Sent(@, n)]
    BY <1>5 DEF WritePart
  <2>2. Alike(clients[fd], Sent(clients[fd], n))
    BY <1>1, SentAlike
  <2>3. Untouched(Pid)
    BY <1>5 DEF WritePart, Untouched
  <2> QED
    BY <2>1, <2>2, <2>3, OneClientChanges DEF Alike
<1>6. CASE WriteLast(fd)
  <2>1. clients' = [clients EXCEPT ![fd] = NewClient]
    BY <1>6, ResetType DEF WriteLast
  <2>2. Untouched(Pid)
    BY <1>6 DEF WriteLast, world, Untouched
  <2> QED
    BY <2>1, <2>2, NewClientIdle, OneClientChanges
<1> QED
  BY <1>2, <1>3, <1>4, <1>5, <1>6 DEF HandleClient

LEMMA PipeStepBegins ==
    ASSUME IInv, KillsOwnScript, NEW c \in DOMAIN clients, HandlePipe(c)
    PROVE  NoneBegins
<1>1. clients[c] \in ClientType
  BY ClientAt
<1>2. proc \in [Pid -> ScriptType]
  BY DEF IInv, World
<1>3. CASE HandleCGIRead(c)
  <2>1. clients' = [clients EXCEPT ![c].cgiOutput = TRUE]
    BY <1>3 DEF HandleCGIRead
  <2>2. PICK p : proc' = [proc EXCEPT ![p].output = FALSE]
    BY <1>3 DEF HandleCGIRead
  <2>3. Untouched(Pid)
    BY <1>2, <2>2 DEF Untouched, ScriptType
  <2>4. Alike(clients[c], [clients[c] EXCEPT !.cgiOutput = TRUE])
    BY <1>1, SentAlike
  <2> QED
    BY <2>1, <2>3, <2>4, OneClientChanges DEF Alike
<1>4. CASE CGIEndOfFile(c)
  BY <1>4, ClientsStay DEF CGIEndOfFile, Untouched
<1>5. ASSUME CloseBodyPipe(c), UNCHANGED proc PROVE NoneBegins
  <2>1. clients' = [clients EXCEPT ![c] = BodyDone(@)]
    BY <1>5 DEF CloseBodyPipe
  <2>2. Alike(clients[c], BodyDone(clients[c]))
    BY <1>1, SentAlike
  <2> QED
    BY <1>5, <2>1, <2>2, OneClientChanges DEF Alike, Untouched
<1>6. ASSUME NEW p, NEW n, clients' = [clients EXCEPT ![c].bodyLeft = @ - n],
             proc' = [proc EXCEPT ![p].room = FALSE]
      PROVE  NoneBegins
  <2>1. Untouched(Pid)
    BY <1>2, <1>6 DEF Untouched, ScriptType
  <2>2. Alike(clients[c], [clients[c] EXCEPT !.bodyLeft = @ - n])
    BY <1>1, SentAlike
  <2> QED
    BY <1>6, <2>1, <2>2, OneClientChanges DEF Alike
<1>7. CASE BodyRefused(c)
  BY <1>5, <1>7 DEF BodyRefused
<1>8. CASE HandleCGIWrite(c)
  BY <1>5, <1>6, <1>8 DEF HandleCGIWrite
<1> QED
  BY <1>3, <1>4, <1>7, <1>8 DEF HandlePipe

\* _removeClient, wherever it is called.
LEMMA RemovalBegins ==
    ASSUME KillsOwnScript, NEW fd, RemoveClient(fd)
    PROVE  NoneBegins
<1>1. clients' = WithoutClient(fd) /\ proc' = Reaped(RunningOf(fd))
  BY DEF RemoveClient
<1>2. /\ \A f \in DOMAIN clients' : f \in DOMAIN clients /\ clients'[f] = clients[f]
      /\ fd \notin DOMAIN clients'
  BY <1>1 DEF WithoutClient
<1> QED
  BY <1>1, <1>2, ReapedScript

LEMMA WaitpidBegins ==
    ASSUME IInv, KillsOwnScript, WaitpidReturns
    PROVE  NoneBegins
<1>1. /\ clients' = [clients EXCEPT ![cur] = Finished(@)]
      /\ proc' = Reaped({clients[cur].cgiPid})
      /\ pc = "waitpid"
  BY DEF WaitpidReturns
<1>2. cur \in DOMAIN clients /\ clients[cur].cgiRunning
  BY <1>1 DEF IInv, Memory, Running
<1>3. ~Finished(clients[cur]).cgiRunning
  BY <1>2, ClientAt, FinishedReady
<1>4. RunningOf(cur) = {clients[cur].cgiPid}
  BY <1>2 DEF RunningOf
<1> QED
  BY <1>1, <1>2, <1>3, <1>4, ReapedScript

LEMMA GatewayTimeoutBegins ==
    ASSUME IInv, KillsOwnScript, NEW fd, GatewayTimeout(fd)
    PROVE  NoneBegins
<1>1. /\ clients' = [clients EXCEPT ![fd] = GivenUp(clients[fd])]
      /\ proc' = Reaped({clients[fd].cgiPid})
      /\ fd \in hung
  BY DEF GatewayTimeout, Least
<1>2. fd \in DOMAIN clients /\ clients[fd].cgiRunning
  BY <1>1 DEF IInv, Memory, Running
<1>3. ~GivenUp(clients[fd]).cgiRunning
  BY <1>2, ClientAt, FinishedReady
<1>4. RunningOf(fd) = {clients[fd].cgiPid}
  BY <1>2 DEF RunningOf
<1> QED
  BY <1>1, <1>2, <1>3, <1>4, ReapedScript

LEMMA EnvironmentBegins ==
    ASSUME IInv, KillsOwnScript, Environment
    PROVE  NoneBegins
<1>1. UNCHANGED clients
  BY DEF Environment, server
<1>2. proc \in [Pid -> ScriptType]
  BY DEF IInv, World
<1>3. Untouched(Pid)
  <2>1. CASE PeerStep
    BY <2>1 DEF PeerStep, Untouched
  <2>2. CASE ScriptStep
    <3>1. PICK p \in Pid :
             ScriptWrite(p) \/ ScriptRead(p) \/ ScriptCloseStdin(p)
               \/ ScriptCloseStdout(p) \/ ScriptExit(p)
      BY <2>2 DEF ScriptStep
    <3> QED
      BY <1>2, <3>1
      DEF ScriptWrite, ScriptRead, ScriptCloseStdin, ScriptCloseStdout, ScriptExit,
          Untouched, ScriptType
  <2> QED
    BY <2>1, <2>2 DEF Environment
<1> QED
  BY <1>1, <1>3, ClientsStay

\* What Launch does to all but the vector.
LEMMA LaunchFacts ==
    ASSUME NEW fd, Launch(fd)
    PROVE  \E c \in Fed(clients[fd]), pid \in Pid, rd \in Free, wr \in Free :
              /\ NeedsCGI(c)
              /\ proc[pid].st = "free"
              /\ proc' = [proc EXCEPT ![pid] = NewScript]
              /\ clients' = [clients EXCEPT ![fd] = Launched(c, pid, rd, wr)]
              /\ \/ fdt' = [fdt EXCEPT ![rd] = [kind |-> "rd", of |-> pid]]
                 \/ fdt' = [[fdt EXCEPT ![rd] = [kind |-> "rd", of |-> pid]] EXCEPT
                               ![wr] = [kind |-> "wr", of |-> pid]]
<1>1. PICK c \in Fed(clients[fd]), pid \in Pid, rd \in Free, wr \in Free :
          /\ NeedsCGI(c)
          /\ proc[pid].st = "free"
          /\ proc' = [proc EXCEPT ![pid] = NewScript]
          /\ LET launched == Launched(c, pid, rd, wr)
                 reading  == [fdt EXCEPT ![rd] = [kind |-> "rd", of |-> pid]]
                 watched  == AddPollFd(pollfds, rd, "IN")
             IN  /\ clients' = [clients EXCEPT ![fd] = launched]
                 /\ IF c.req = "scriptBody"
                    THEN /\ fdt' = [reading EXCEPT ![wr] = [kind |-> "wr", of |-> pid]]
                         /\ GoOn(Answering(launched, fd, AddPollFd(watched, wr, "OUT")))
                    ELSE /\ fdt' = reading
                         /\ GoOn(Answering(launched, fd, watched))
  BY ZenonT(40) DEF Launch
<1> QED
  BY <1>1

LEMMA LaunchKeepsKills ==
    ASSUME IInv, KillsOwnScript, NEW fd \in DOMAIN clients, Launch(fd)
    PROVE  KillsOwnScript'
<1>1. PICK c \in Fed(clients[fd]), pid \in Pid, rd \in Free, wr \in Free :
         /\ proc[pid].st = "free"
         /\ proc' = [proc EXCEPT ![pid] = NewScript]
         /\ clients' = [clients EXCEPT ![fd] = Launched(c, pid, rd, wr)]
  BY LaunchFacts
<1> DEFINE d == Launched(c, pid, rd, wr)
<1>2. d.cgiRunning /\ d.cgiPid = pid
  BY ClientAt, FedType, LaunchedRuns
<1>3. NewScript.st = "run" /\ proc \in [Pid -> ScriptType]
  BY DEF NewScript, NoScript, IInv, World
<1> HIDE DEF d
<1> QED
  BY <1>1, <1>2, <1>3 DEF KillsOwnScript, Running, d

LEMMA KillsNext ==
    ASSUME IInv, KillsOwnScript, [Next]_vars
    PROVE  KillsOwnScript'
<1>1. CASE Poll \/ AcceptFails \/ TurnAway \/ IgnoreOrphan \/ CheckTimeouts \/ UNCHANGED vars
  <2>1. UNCHANGED clients /\ Untouched(Pid)
    BY <1>1
    DEF Poll, AcceptFails, TurnAway, IgnoreOrphan, CheckTimeouts, PassOver, world, vars,
        Untouched
  <2> QED
    BY <2>1, ClientsStay, NoneBeginsKeeps
<1>2. CASE AcceptConnection
  <2>1. PICK fd : clients' = WithClient(fd, NewClient)
    BY <1>2 DEF AcceptConnection
  <2>2. UNCHANGED proc
    BY <1>2 DEF AcceptConnection
  <2> QED
    BY <2>1, <2>2, NewClientIdle DEF KillsOwnScript, Running, WithClient
<1>3. CASE HangUp
  BY <1>3, RemovalBegins, NoneBeginsKeeps DEF HangUp, RemoveInPass
<1>4. ASSUME NEW fd \in DOMAIN clients, HandleClient(fd) PROVE KillsOwnScript'
  BY <1>4, SocketStepBegins, LaunchKeepsKills, NoneBeginsKeeps
<1>5. ASSUME NEW c \in DOMAIN clients, HandlePipe(c) PROVE KillsOwnScript'
  BY <1>5, PipeStepBegins, NoneBeginsKeeps
<1>6. CASE WaitpidReturns
  BY <1>6, WaitpidBegins, NoneBeginsKeeps
<1>7. ASSUME NEW fd \in Fd, GatewayTimeout(fd) \/ DropIdle(fd) PROVE KillsOwnScript'
  BY <1>7, GatewayTimeoutBegins, RemovalBegins, NoneBeginsKeeps DEF DropIdle
<1>8. CASE Stop
  BY <1>8 DEF Stop, KillsOwnScript, Running
<1>9. CASE Environment
  BY <1>9, EnvironmentBegins, NoneBeginsKeeps
<1>10. CASE Tick
  <2>1. clients' = [f \in DOMAIN clients |-> Older(clients[f])] /\ UNCHANGED proc
    BY <1>10 DEF Tick
  <2>2. \A f \in DOMAIN clients : Alike(clients[f], Older(clients[f]))
    BY ClientAt, OlderAlike
  <2> QED
    BY <2>1, <2>2 DEF KillsOwnScript, Running, Alike
<1> QED
  BY <1>1, <1>2, <1>3, <1>4, <1>5, <1>6, <1>7, <1>8, <1>9, <1>10 DEF Next, Loop, Terminated

\* kill() and waitpid() are only called for a child of the server that has not
\* been reaped, and for one client each, although pids are given again as soon
\* as they are free: in _removeClient, in _checkTimeouts and in _handleCGIRead,
\* whatever peers and scripts do.
THEOREM KillsItsOwn == Spec => []KillsOwnScript
<1>1. Init => KillsOwnScript
  BY DEF Init, KillsOwnScript, Running
<1>2. IInv /\ KillsOwnScript /\ [Next]_vars => KillsOwnScript'
  BY KillsNext
<1> QED
  BY <1>1, <1>2, InvariantHolds, PTL DEF Spec

-----------------------------------------------------------------------------
(* What the steps do to the connections and their exchanges.               *)

\* All of SInv but the parts that other lemmas establish.
Rest == Visitors /\ Queues /\ Exchanges /\ EveryScriptOwned

\* No connection comes or goes.
SameVisitors ==
    /\ DOMAIN clients' = DOMAIN clients
    /\ \A f \in Fd :
          fdt'[f].of = fdt[f].of \/ (fdt[f].of \notin Peer /\ fdt'[f].of \notin Peer)
    /\ \A p \in Peer : peer'[p].st = peer[p].st
    /\ UNCHANGED backlog

\* Nothing arrives.
NothingArrives == \A p \in Peer : peer'[p].inbox => peer[p].inbox

LEMMA SameVisitorsKeep ==
    ASSUME IInv, Visitors, Queues, SameVisitors
    PROVE  /\ Visitors' /\ Queues'
           /\ \A f \in DOMAIN clients : fdt'[f].of = fdt[f].of
<1>1. DOMAIN clients \subseteq Fd
  BY DEF IInv, Objects
<1>2. \A f \in DOMAIN clients : fdt'[f].of = fdt[f].of
  BY <1>1 DEF Visitors, SameVisitors
<1>3. Visitors'
  BY <1>1, <1>2 DEF Visitors, SameVisitors
<1>4. \A l \in ListenFds : \A k \in DOMAIN backlog[l] : backlog[l][k] \in Peer
  BY DEF IInv, World
<1>5. Queues'
  BY <1>4 DEF Queues, SameVisitors
<1> QED
  BY <1>2, <1>3, <1>5

\* A step that changes one client, and a script of no other.
LEMMA ClientChanges ==
    ASSUME SInv, pc # "stopped", SameVisitors, NothingArrives,
           NEW fd \in DOMAIN clients, NEW c,
           clients' = [clients EXCEPT ![fd] = c],
           Alternates(c), Patient(c, peer'[fdt[fd].of]),
           \A p \in Pid : proc'[p].st # "free" =>
              \/ c.cgiRunning /\ c.cgiPid = p
              \/ /\ proc[p].st # "free"
                 /\ ~(clients[fd].cgiRunning /\ clients[fd].cgiPid = p)
    PROVE  Rest'
<1>1. /\ Visitors' /\ Queues'
      /\ \A f \in DOMAIN clients : fdt'[f].of = fdt[f].of
  BY SameVisitorsKeep DEF SInv
<1>2. DOMAIN clients' = DOMAIN clients /\ clients'[fd] = c
  OBVIOUS
<1>3. \A f \in DOMAIN clients \ {fd} : clients'[f] = clients[f]
  OBVIOUS
<1>4. Exchanges'
  <2> SUFFICES ASSUME NEW f \in DOMAIN clients
               PROVE  Alternates(clients'[f]) /\ Patient(clients'[f], peer'[fdt'[f].of])
    BY <1>2 DEF Exchanges
  <2>1. CASE f = fd
    BY <2>1, <1>1, <1>2
  <2>2. CASE f # fd
    BY <2>2, <1>1, <1>3 DEF SInv, Exchanges, Visitors, Patient, NothingArrives
  <2> QED
    BY <2>1, <2>2
<1>5. EveryScriptOwned'
  <2> SUFFICES ASSUME NEW p \in Pid, proc'[p].st # "free"
               PROVE  \E f \in DOMAIN clients : clients'[f].cgiRunning /\ clients'[f].cgiPid = p
    BY <1>2 DEF EveryScriptOwned, Running
  <2>1. CASE c.cgiRunning /\ c.cgiPid = p
    BY <2>1, <1>2
  <2>2. CASE /\ proc[p].st # "free"
             /\ ~(clients[fd].cgiRunning /\ clients[fd].cgiPid = p)
    <3>1. PICK f \in DOMAIN clients : clients[f].cgiRunning /\ clients[f].cgiPid = p
      BY <2>2 DEF SInv, EveryScriptOwned, Running
    <3> QED
      BY <2>2, <3>1, <1>3
  <2> QED
    BY <2>1, <2>2
<1> QED
  BY <1>1, <1>4, <1>5 DEF Rest

\* A step that changes no client.
LEMMA NoClientChanges ==
    ASSUME SInv, pc # "stopped" \/ UNCHANGED pc, SameVisitors, NothingArrives, UNCHANGED clients,
           \A p \in Pid : proc'[p].st # "free" => proc[p].st # "free"
    PROVE  Rest'
<1>1. /\ Visitors' /\ Queues'
      /\ \A f \in DOMAIN clients : fdt'[f].of = fdt[f].of
  BY SameVisitorsKeep DEF SInv
<1>2. Exchanges'
  BY <1>1 DEF SInv, Exchanges, Visitors, Patient, NothingArrives
<1>3. EveryScriptOwned'
  BY DEF SInv, EveryScriptOwned, Running
<1> QED
  BY <1>1, <1>2, <1>3 DEF Rest

-----------------------------------------------------------------------------
(* Descriptors that are closed or buried belong to no peer.                *)

LEMMA CloseBury ==
    ASSUME IInv, Visitors, NEW D, NEW S \in SUBSET Pid, D \cap DOMAIN clients = {}
    PROVE  \A f \in Fd : LET of == Bury(Close(fdt, D), S)[f].of
                         IN  of = fdt[f].of \/ (fdt[f].of \notin Peer /\ of \notin Peer)
<1> DEFINE t == Close(fdt, D)
           u == Bury(t, S)
<1> SUFFICES ASSUME NEW f \in Fd
             PROVE  u[f].of = fdt[f].of \/ (fdt[f].of \notin Peer /\ u[f].of \notin Peer)
  OBVIOUS
<1>1. None \notin Peer /\ S \cap Peer = {}
  BY NoneIsNobody, PeersAreNoPids
<1>2. t[f] = IF f \in D THEN Closed ELSE fdt[f]
  BY DEF Close
<1>3. Closed.of = None
  BY DEF Closed
<1>4. f \in D => fdt[f].of \notin Peer
  BY DEF Visitors
<1>5. fdt \in [Fd -> DescriptorType] /\ t \in [Fd -> DescriptorType]
  BY CloseType DEF IInv, Objects
<1> HIDE DEF t
<1>6. u[f] = IF t[f].of \in S THEN [t[f] EXCEPT !.of = None] ELSE t[f]
  BY DEF Bury
<1>7. [t[f] EXCEPT !.of = None].of = None
  <2>1. t[f] \in DescriptorType
    BY <1>5
  <2> QED
    BY <2>1 DEF DescriptorType
<1> HIDE DEF u
<1> QED
  BY <1>1, <1>2, <1>3, <1>4, <1>6, <1>7

-----------------------------------------------------------------------------
(* _removeClient.                                                          *)

LEMMA RemovalRest ==
    ASSUME SInv, pc \in {"pass", "purge"}, NEW fd, Removable(fd), RemoveClient(fd)
    PROVE  Rest'
<1> DEFINE D == Descriptors(fd)
           S == RunningOf(fd)
<1>1. /\ clients' = WithoutClient(fd)
      /\ fdt' = Bury(Close(fdt, D), S)
      /\ proc' = Reaped(S)
      /\ peer' = Left(PeersAt(fd))
      /\ backlog' = backlog
  BY DEF RemoveClient
<1>2. /\ DOMAIN clients' = DOMAIN clients \ {fd}
      /\ \A f \in DOMAIN clients' : clients'[f] = clients[f]
  BY <1>1 DEF WithoutClient
<1>3. DOMAIN clients \ D = DOMAIN clients \ {fd} /\ fd \in D
  BY DescriptorsClosable DEF SInv, Descriptors
<1>4. S \in SUBSET Pid
  BY DEF RunningOf, SInv, KillsOwnScript, Running
<1>5. DOMAIN clients \subseteq Fd /\ peer \in [Peer -> PeerType] /\ fdt \in [Fd -> DescriptorType]
  BY DEF SInv, IInv, Objects, World
<1> HIDE DEF D, S
<1>6. \A f \in Fd : /\ f \in D => fdt'[f].of \notin Peer
                    /\ f \notin D => \/ fdt'[f].of = fdt[f].of
                                     \/ fdt[f].of \notin Peer /\ fdt'[f].of \notin Peer
  <2> DEFINE t == Close(fdt, D)
  <2>1. None \notin Peer /\ S \cap Peer = {}
    BY <1>4, NoneIsNobody, PeersAreNoPids
  <2>2. t \in [Fd -> DescriptorType] /\ \A f \in Fd : t[f] = IF f \in D THEN Closed ELSE fdt[f]
    BY <1>5, CloseType DEF Close
  <2>3. Closed.of = None
    BY DEF Closed
  <2> HIDE DEF t
  <2>4. \A f \in Fd : fdt'[f] = IF t[f].of \in S THEN [t[f] EXCEPT !.of = None] ELSE t[f]
    BY <1>1 DEF Bury, t
  <2>5. \A r \in DescriptorType : [r EXCEPT !.of = None].of = None
    BY DEF DescriptorType
  <2> HIDE DEF DescriptorType
  <2>6. \A f \in Fd : [t[f] EXCEPT !.of = None].of = None
    BY <2>2, <2>5
  <2> QED
    BY <2>1, <2>2, <2>3, <2>4, <2>6
<1>7. \A f \in DOMAIN clients' : f \in DOMAIN clients /\ f # fd /\ fdt'[f].of = fdt[f].of
  BY <1>2, <1>3, <1>5, <1>6 DEF SInv, Visitors
<1>8. ASSUME NEW f \in DOMAIN clients' PROVE peer'[fdt'[f].of] = peer[fdt[f].of]
  <2>1. fdt[f].of \in Peer
    BY <1>7 DEF SInv, Visitors
  <2>2. fdt[f].of # fdt[fd].of
    BY <1>7, <2>1 DEF SInv, Visitors, Removable
  <2> QED
    BY <1>1, <1>7, <2>1, <2>2 DEF Left, PeersAt
<1>9. Visitors'
  <2>1. \A f \in DOMAIN clients' : fdt'[f].of \in Peer /\ peer'[fdt'[f].of].st = "open"
    BY <1>7, <1>8 DEF SInv, Visitors
  <2>2. \A f, g \in DOMAIN clients' : fdt'[f].of = fdt'[g].of => f = g
    BY <1>7 DEF SInv, Visitors
  <2>3. \A f \in Fd \ DOMAIN clients' : fdt'[f].of \notin Peer
    BY <1>2, <1>3, <1>6 DEF SInv, Visitors
  <2> QED
    BY <2>1, <2>2, <2>3 DEF Visitors
<1>10. Queues'
  <2>1. ASSUME NEW l \in ListenFds, NEW k \in DOMAIN backlog[l]
        PROVE  peer'[backlog[l][k]].st = "queued"
    <3>1. backlog[l][k] \in Peer /\ peer[backlog[l][k]].st = "queued"
      BY DEF SInv, IInv, World, Queues
    <3>2. backlog[l][k] \notin PeersAt(fd)
      <4>1. CASE fd \in DOMAIN clients
        BY <4>1, <3>1 DEF SInv, Visitors, PeersAt
      <4>2. CASE fd \notin DOMAIN clients
        BY <4>2 DEF SInv, Visitors, PeersAt, Removable
      <4> QED
        BY <4>1, <4>2
    <3> QED
      BY <1>1, <3>1, <3>2 DEF Left
  <2> QED
    BY <1>1, <2>1 DEF SInv, Queues
<1>11. Exchanges'
  BY <1>2, <1>7, <1>8 DEF SInv, Exchanges
<1>12. EveryScriptOwned'
  <2> SUFFICES ASSUME NEW p \in Pid, proc'[p].st # "free"
               PROVE  \E f \in DOMAIN clients' : clients'[f].cgiRunning /\ clients'[f].cgiPid = p
    BY DEF EveryScriptOwned, Running
  <2>1. p \notin S /\ proc[p].st # "free"
    BY <1>1 DEF Reaped, NoScript
  <2>2. PICK f \in DOMAIN clients : clients[f].cgiRunning /\ clients[f].cgiPid = p
    BY <2>1 DEF SInv, EveryScriptOwned, Running
  <2>3. f # fd
    BY <2>1, <2>2 DEF RunningOf, S
  <2> QED
    BY <1>2, <2>2, <2>3
<1> QED
  BY <1>9, <1>10, <1>11, <1>12 DEF Rest

LEMMA RemoveInPassRest ==
    ASSUME SInv, NEW fd \in DOMAIN clients, pc = "pass", RemoveInPass(fd)
    PROVE  Rest'
<1>1. fd \in Fd /\ fd \notin ListenFds
  BY FdIsNatural DEF SInv, IInv, Objects, Tables
<1> QED
  BY <1>1, RemovalRest DEF Removable, RemoveInPass

LEMMA HangUpRest ==
    ASSUME SInv, HangUp
    PROVE  Rest'
<1>1. pc = "pass" /\ AtSocket /\ RemoveClient(Entry.fd)
  BY DEF HangUp, AtSocket, RemoveInPass
<1>2. Entry.fd \in Fd
  <2>1. i \in DOMAIN pollfds
    BY <1>1 DEF SInv, IInv, Place
  <2> QED
    BY <2>1, WatchedInFd DEF Entry, Watched, SInv, IInv, Vector
<1>3. Removable(Entry.fd)
  BY <1>1, <1>2 DEF AtSocket, Removable
<1> QED
  BY <1>1, <1>3, RemovalRest

-----------------------------------------------------------------------------
(* The handlers of a client's socket.                                      *)

\* A handler that reads is called for a request that is not complete.
LEMMA ReceiveStarts ==
    ASSUME SInv, NEW fd \in DOMAIN clients, Receive(fd)
    PROVE  /\ pc = "pass" /\ UNCHANGED backlog
           /\ clients[fd] \in ClientType
           /\ clients[fd].req = "partial"
           /\ ~clients[fd].cgiRunning /\ ~clients[fd].responseReady
           /\ NothingArrives
           /\ ~peer'[fdt[fd].of].inbox
           /\ \A p \in Peer : peer'[p].st = peer[p].st
<1>1. /\ pc = "pass" /\ UNCHANGED backlog
      /\ peer[fdt[fd].of].inbox
      /\ peer' = [peer EXCEPT ![fdt[fd].of].inbox = FALSE]
  BY DEF Receive, Readable, AtSocket, HasData
<1>2. clients[fd] \in ClientType
  BY ClientAt DEF SInv
<1>3. clients[fd].req = "partial"
  BY <1>1 DEF SInv, Exchanges, Patient
<1>4. ~clients[fd].cgiRunning /\ ~clients[fd].responseReady
  BY <1>3 DEF SInv, Exchanges, Alternates
<1>5. fdt[fd].of \in Peer /\ peer \in [Peer -> PeerType]
  BY DEF SInv, Visitors, IInv, World
<1>6. /\ ~peer'[fdt[fd].of].inbox
      /\ \A p \in Peer : peer'[p].st = peer[p].st /\ (peer'[p].inbox => peer[p].inbox)
  BY <1>1, <1>5 DEF PeerType
<1> QED
  BY <1>1, <1>2, <1>3, <1>4, <1>6 DEF NothingArrives

\* What is read and answered without a script.
LEMMA ReceiveRest ==
    ASSUME SInv, NEW fd \in DOMAIN clients, Receive(fd), UNCHANGED proc,
           NEW c, clients' = [clients EXCEPT ![fd] = c], Alternates(c),
           \A f \in Fd :
              fdt'[f].of = fdt[f].of \/ (fdt[f].of \notin Peer /\ fdt'[f].of \notin Peer)
    PROVE  Rest'
<1>1. SameVisitors
  BY ReceiveStarts DEF SameVisitors
<1>2. Patient(c, peer'[fdt[fd].of])
  BY ReceiveStarts DEF Patient
<1> QED
  BY <1>1, <1>2, ReceiveStarts, ClientChanges

LEMMA ReadPartRest ==
    ASSUME SInv, NEW fd \in DOMAIN clients, ReadPart(fd)
    PROVE  Rest'
<1>1. /\ Receive(fd) /\ UNCHANGED proc /\ UNCHANGED fdt
  BY DEF ReadPart
<1>2. PICK c \in Fed(clients[fd]) : c.req = "partial" /\ clients' = [clients EXCEPT ![fd] = c]
  BY DEF ReadPart
<1>3. Alternates(c)
  BY <1>1, <1>2, ReceiveStarts, FedAlike DEF Alternates
<1> QED
  BY <1>1, <1>2, <1>3, ReceiveRest

LEMMA AnsweredRest ==
    ASSUME SInv, NEW fd \in DOMAIN clients, Receive(fd), UNCHANGED proc,
           NEW c \in Fed(clients[fd]), c.req # "partial", NEW what,
           clients' = [clients EXCEPT ![fd] = Respond(c, what)],
           \A f \in Fd :
              fdt'[f].of = fdt[f].of \/ (fdt[f].of \notin Peer /\ fdt'[f].of \notin Peer)
    PROVE  Rest'
<1>1. c \in ClientType /\ ~c.cgiRunning
  BY ReceiveStarts, FedAlike, FedType
<1>2. Respond(c, what).req = c.req /\ ~Respond(c, what).cgiRunning
  BY <1>1, RespondReady
<1>3. Alternates(Respond(c, what))
  BY <1>2 DEF Alternates
<1> QED
  BY <1>3, ReceiveRest

LEMMA ProcessStaticRest ==
    ASSUME SInv, NEW fd \in DOMAIN clients, ProcessStatic(fd)
    PROVE  Rest'
<1>1. Receive(fd) /\ UNCHANGED proc /\ UNCHANGED fdt
  BY DEF ProcessStatic
<1>2. PICK c \in Fed(clients[fd]) :
         c.req = "page" /\ clients' = [clients EXCEPT ![fd] = Respond(c, "page")]
  BY DEF ProcessStatic
<1> QED
  BY <1>1, <1>2, AnsweredRest

LEMMA LaunchFailsRest ==
    ASSUME SInv, NEW fd \in DOMAIN clients, LaunchFails(fd)
    PROVE  Rest'
<1>1. Receive(fd) /\ UNCHANGED proc /\ (UNCHANGED fdt \/ LeakPipe)
  BY DEF LaunchFails
<1>2. PICK c \in Fed(clients[fd]) :
         NeedsCGI(c) /\ clients' = [clients EXCEPT ![fd] = Respond(c, "500")]
  BY DEF LaunchFails
<1>3. ASSUME LeakPipe, NEW f \in Fd
      PROVE  fdt'[f].of = fdt[f].of \/ (fdt[f].of \notin Peer /\ fdt'[f].of \notin Peer)
  <2>1. PICK a \in Free, b \in Free :
           fdt' = [fdt EXCEPT ![a] = [kind |-> "rd", of |-> None],
                              ![b] = [kind |-> "wr", of |-> None]]
    BY <1>3 DEF LeakPipe
  <2>2. a \in Fd \ DOMAIN clients /\ b \in Fd \ DOMAIN clients
    BY FreeIsUnused DEF SInv
  <2>3. fdt \in [Fd -> DescriptorType]
    BY DEF SInv, IInv, Objects
  <2>4. f \in {a, b} => fdt[f].of \notin Peer
    BY <2>2 DEF SInv, Visitors
  <2> HIDE DEF DescriptorType
  <2>5. f \in {a, b} => fdt'[f].of = None
    BY <2>1, <2>3
  <2>6. f \notin {a, b} => fdt'[f] = fdt[f]
    BY <2>1, <2>3
  <2> QED
    BY <2>4, <2>5, <2>6, NoneIsNobody
<1>4. c.req # "partial"
  BY <1>2 DEF NeedsCGI
<1> QED
  BY <1>1, <1>2, <1>3, <1>4, AnsweredRest

LEMMA LaunchRest ==
    ASSUME SInv, NEW fd \in DOMAIN clients, Launch(fd)
    PROVE  Rest'
<1>1. PICK c \in Fed(clients[fd]), pid \in Pid, rd \in Free, wr \in Free :
         /\ NeedsCGI(c)
         /\ proc[pid].st = "free"
         /\ proc' = [proc EXCEPT ![pid] = NewScript]
         /\ clients' = [clients EXCEPT ![fd] = Launched(c, pid, rd, wr)]
         /\ \/ fdt' = [fdt EXCEPT ![rd] = [kind |-> "rd", of |-> pid]]
            \/ fdt' = [[fdt EXCEPT ![rd] = [kind |-> "rd", of |-> pid]] EXCEPT
                          ![wr] = [kind |-> "wr", of |-> pid]]
  BY LaunchFacts
<1>2. Receive(fd)
  BY DEF Launch
<1> DEFINE d == Launched(c, pid, rd, wr)
<1>3. /\ d.cgiRunning /\ d.cgiPid = pid /\ d.req # "partial" /\ ~d.responseReady
  <2>1. c \in ClientType /\ ~c.responseReady /\ c.req # "partial"
    BY <1>1, <1>2, ReceiveStarts, FedAlike, FedType DEF NeedsCGI
  <2> QED
    BY <2>1, LaunchedRuns
<1>4. clients' = [clients EXCEPT ![fd] = d]
  BY <1>1
<1> HIDE DEF d
<1>5. \A f \in Fd :
         fdt'[f].of = fdt[f].of \/ (fdt[f].of \notin Peer /\ fdt'[f].of \notin Peer)
  <2> SUFFICES ASSUME NEW f \in Fd
               PROVE  fdt'[f].of = fdt[f].of \/ (fdt[f].of \notin Peer /\ fdt'[f].of \notin Peer)
    OBVIOUS
  <2>1. rd \in Fd \ DOMAIN clients /\ wr \in Fd \ DOMAIN clients
    BY FreeIsUnused DEF SInv
  <2>2. fdt \in [Fd -> DescriptorType]
    BY DEF SInv, IInv, Objects
  <2>3. f \in {rd, wr} => fdt[f].of \notin Peer
    BY <2>1 DEF SInv, Visitors
  <2> HIDE DEF DescriptorType
  <2>4. fdt'[f] = fdt[f] \/ (f \in {rd, wr} /\ fdt'[f].of = pid)
    BY <1>1, <2>2
  <2> QED
    BY <2>3, <2>4, PeersAreNoPids
<1>6. SameVisitors
  BY <1>2, <1>4, <1>5, ReceiveStarts DEF SameVisitors
<1>7. Alternates(d) /\ Patient(d, peer'[fdt[fd].of])
  BY <1>2, <1>3, ReceiveStarts DEF Alternates, Patient
<1>8. \A p \in Pid : proc'[p].st # "free" => p = pid \/ proc[p].st # "free"
  BY <1>1
<1> QED
  BY <1>2, <1>3, <1>4, <1>6, <1>7, <1>8, ReceiveStarts, ClientChanges

LEMMA WritingFacts ==
    ASSUME SInv, NEW fd \in DOMAIN clients, Writable(fd)
    PROVE  /\ pc = "pass"
           /\ clients[fd] \in ClientType
           /\ clients[fd].req # "partial" /\ ~clients[fd].cgiRunning
           /\ fdt[fd].of \in Peer /\ ~peer[fdt[fd].of].inbox
<1>1. pc = "pass" /\ clients[fd].responseReady
  BY DEF Writable, AtSocket
<1>2. clients[fd] \in ClientType
  BY ClientAt DEF SInv
<1>3. clients[fd].req # "partial" /\ ~clients[fd].cgiRunning
  BY <1>1 DEF SInv, Exchanges, Alternates
<1>4. fdt[fd].of \in Peer /\ ~peer[fdt[fd].of].inbox
  BY <1>3 DEF SInv, Visitors, Exchanges, Patient
<1> QED
  BY <1>1, <1>2, <1>3, <1>4

LEMMA WritePartRest ==
    ASSUME SInv, NEW fd \in DOMAIN clients, WritePart(fd)
    PROVE  Rest'
<1>1. Writable(fd) /\ UNCHANGED <<fdt, proc, backlog>>
  BY DEF WritePart, Send
<1>2. PICK n : clients' = [clients EXCEPT ![fd] = Sent(clients[fd], n)]
  BY DEF WritePart
<1> DEFINE d == Sent(clients[fd], n)
<1>3. Alike(clients[fd], d)
  BY <1>1, WritingFacts, SentAlike
<1>4. clients' = [clients EXCEPT ![fd] = d]
  BY <1>2
<1> HIDE DEF d
<1>5. \A p \in Peer : peer'[p].st = peer[p].st /\ peer'[p].inbox = peer[p].inbox
  <2>1. peer' = [peer EXCEPT ![fdt[fd].of].room = FALSE]
    BY DEF WritePart
  <2>2. peer \in [Peer -> PeerType]
    BY DEF SInv, IInv, World
  <2> QED
    BY <2>1, <2>2 DEF PeerType
<1>6. SameVisitors /\ NothingArrives
  BY <1>1, <1>4, <1>5 DEF SameVisitors, NothingArrives
<1>7. Alternates(d) /\ Patient(d, peer'[fdt[fd].of])
  BY <1>1, <1>3, <1>5, WritingFacts DEF Alternates, Patient, Alike
<1> QED
  BY <1>1, <1>4, <1>6, <1>7, WritingFacts, ClientChanges

LEMMA WriteLastRest ==
    ASSUME SInv, NEW fd \in DOMAIN clients, WriteLast(fd)
    PROVE  Rest'
<1>1. Writable(fd) /\ UNCHANGED <<fdt, proc, peer, backlog>>
  BY DEF WriteLast, Send, world
<1>2. clients' = [clients EXCEPT ![fd] = NewClient]
  BY ResetType DEF WriteLast
<1>3. SameVisitors /\ NothingArrives
  BY <1>1, <1>2 DEF SameVisitors, NothingArrives
<1>4. Alternates(NewClient) /\ Patient(NewClient, peer'[fdt[fd].of])
  BY NewClientIdle DEF Alternates, Patient
<1> QED
  BY <1>1, <1>2, <1>3, <1>4, WritingFacts, ClientChanges

LEMMA SocketStepRest ==
    ASSUME SInv, NEW fd \in DOMAIN clients, HandleClient(fd)
    PROVE  Rest'
<1>1. CASE ReadClosed(fd) \/ WriteFails(fd) \/ WriteLastAndClose(fd)
  <2>1. pc = "pass" /\ RemoveInPass(fd)
    BY <1>1 DEF ReadClosed, WriteFails, WriteLastAndClose, Readable, Send, Writable, AtSocket
  <2> QED
    BY <2>1, RemoveInPassRest
<1> QED
  BY <1>1, ReadPartRest, ProcessStaticRest, LaunchFailsRest, LaunchRest, WritePartRest,
     WriteLastRest
  DEF HandleClient

-----------------------------------------------------------------------------
(* The handlers of a script's pipes.                                       *)

\* A step that leaves the exchange of a client as it is.
LEMMA AlikeRest ==
    ASSUME SInv, pc # "stopped", NEW fd \in DOMAIN clients, NEW c, Alike(clients[fd], c),
           clients' = [clients EXCEPT ![fd] = c],
           SameVisitors, UNCHANGED peer,
           \A p \in Pid : proc'[p].st # "free" => proc[p].st # "free"
    PROVE  Rest'
<1>1. NothingArrives
  BY DEF NothingArrives
<1>2. Alternates(c) /\ Patient(c, peer'[fdt[fd].of])
  BY DEF SInv, Exchanges, Alternates, Patient, Alike
<1>3. \A p \in Pid : proc'[p].st # "free" =>
         \/ c.cgiRunning /\ c.cgiPid = p
         \/ proc[p].st # "free" /\ ~(clients[fd].cgiRunning /\ clients[fd].cgiPid = p)
  BY DEF Alike
<1> QED
  BY <1>1, <1>2, <1>3, ClientChanges

LEMMA ClosePipe ==
    ASSUME SInv, NEW c, AtOutputPipe(c) \/ AtBodyPipe(c), fdt' = Close(fdt, {Entry.fd}),
           DOMAIN clients' = DOMAIN clients, UNCHANGED <<peer, backlog>>
    PROVE  SameVisitors
<1>1. Entry.fd \notin DOMAIN clients
  BY PipeAt DEF SInv, IInv, Tables
<1>2. \A f \in Fd : fdt'[f].of = fdt[f].of \/ (fdt[f].of \notin Peer /\ fdt'[f].of \notin Peer)
  BY <1>1, NoneIsNobody DEF Close, Closed, SInv, Visitors
<1> QED
  BY <1>2 DEF SameVisitors

LEMMA PipeStepRest ==
    ASSUME SInv, NEW c \in DOMAIN clients, HandlePipe(c)
    PROVE  Rest'
<1>1. clients[c] \in ClientType /\ proc \in [Pid -> ScriptType]
  BY ClientAt DEF SInv, IInv, World
<1>2. CASE HandleCGIRead(c)
  <2>1. /\ clients' = [clients EXCEPT ![c] = [clients[c] EXCEPT !.cgiOutput = TRUE]]
        /\ pc # "stopped" /\ UNCHANGED <<fdt, peer, backlog>>
    BY <1>2 DEF HandleCGIRead, AtOutputPipe
  <2>2. PICK p : proc' = [proc EXCEPT ![p].output = FALSE]
    BY <1>2 DEF HandleCGIRead
  <2>3. \A q \in Pid : proc'[q].st = proc[q].st
    BY <1>1, <2>2 DEF ScriptType
  <2>4. SameVisitors
    BY <2>1 DEF SameVisitors
  <2>5. Alike(clients[c], [clients[c] EXCEPT !.cgiOutput = TRUE])
    BY <1>1, SentAlike
  <2> QED
    BY <2>1, <2>3, <2>4, <2>5, AlikeRest
<1>3. CASE CGIEndOfFile(c)
  <2>1. /\ AtOutputPipe(c) /\ fdt' = Close(fdt, {Entry.fd})
        /\ pc # "stopped" /\ UNCHANGED <<clients, proc, peer, backlog>>
    BY <1>3 DEF CGIEndOfFile, AtOutputPipe
  <2>2. SameVisitors
    BY <2>1, ClosePipe
  <2> QED
    BY <2>1, <2>2, NoClientChanges DEF NothingArrives
<1>4. ASSUME AtBodyPipe(c), CloseBodyPipe(c), UNCHANGED <<proc, peer, backlog>> PROVE Rest'
  <2>1. /\ clients' = [clients EXCEPT ![c] = BodyDone(clients[c])]
        /\ fdt' = Close(fdt, {Entry.fd})
        /\ pc # "stopped"
    BY <1>4 DEF CloseBodyPipe, AtBodyPipe
  <2>2. SameVisitors
    BY <1>4, <2>1, ClosePipe
  <2>3. Alike(clients[c], BodyDone(clients[c]))
    BY <1>1, SentAlike
  <2> QED
    BY <1>4, <2>1, <2>2, <2>3, AlikeRest
<1>5. CASE BodyRefused(c)
  BY <1>4, <1>5 DEF BodyRefused, BodyPipeReady
<1>6. ASSUME NEW p, NEW n, AtBodyPipe(c),
             clients' = [clients EXCEPT ![c] = [clients[c] EXCEPT !.bodyLeft = @ - n]],
             proc' = [proc EXCEPT ![p].room = FALSE], UNCHANGED <<fdt, peer, backlog>>
      PROVE  Rest'
  <2>1. \A q \in Pid : proc'[q].st = proc[q].st
    BY <1>1, <1>6 DEF ScriptType
  <2>2. SameVisitors /\ pc # "stopped"
    BY <1>6 DEF SameVisitors, AtBodyPipe
  <2>3. Alike(clients[c], [clients[c] EXCEPT !.bodyLeft = @ - n])
    BY <1>1, SentAlike
  <2> QED
    BY <1>6, <2>1, <2>2, <2>3, AlikeRest
<1>7. CASE HandleCGIWrite(c)
  <2>1. AtBodyPipe(c) /\ UNCHANGED <<peer, backlog>>
    BY <1>7 DEF HandleCGIWrite, BodyPipeReady
  <2>2. \/ CloseBodyPipe(c) /\ UNCHANGED proc
        \/ \E p, n : /\ clients' = [clients EXCEPT ![c].bodyLeft = @ - n]
                     /\ proc' = [proc EXCEPT ![p].room = FALSE]
                     /\ UNCHANGED fdt
    BY <1>7 DEF HandleCGIWrite
  <2> QED
    BY <1>4, <1>6, <2>1, <2>2
<1> QED
  BY <1>2, <1>3, <1>5, <1>7 DEF HandlePipe

-----------------------------------------------------------------------------
(* The ends of scripts.                                                    *)

\* A script has been reaped and its client has an answer.
LEMMA ScriptOver ==
    ASSUME SInv, pc # "stopped", NEW fd \in DOMAIN clients, clients[fd].cgiRunning,
           NEW c, clients' = [clients EXCEPT ![fd] = c],
           ~c.cgiRunning, c.req = clients[fd].req,
           proc' = Reaped({clients[fd].cgiPid}), SameVisitors, UNCHANGED peer
    PROVE  Rest'
<1>1. clients[fd].req # "partial" /\ ~peer[fdt[fd].of].inbox
  BY DEF SInv, Exchanges, Alternates, Patient
<1>2. Alternates(c) /\ Patient(c, peer'[fdt[fd].of]) /\ NothingArrives
  BY <1>1 DEF Alternates, Patient, NothingArrives
<1>3. \A p \in Pid : proc'[p].st # "free" => proc[p].st # "free" /\ p # clients[fd].cgiPid
  BY DEF Reaped, NoScript
<1> QED
  BY <1>2, <1>3, ClientChanges

LEMMA WaitpidRest ==
    ASSUME SInv, WaitpidReturns
    PROVE  Rest'
<1>1. /\ pc = "waitpid"
      /\ proc' = Reaped({clients[cur].cgiPid})
      /\ fdt' = Bury(fdt, {clients[cur].cgiPid})
      /\ clients' = [clients EXCEPT ![cur] = Finished(clients[cur])]
      /\ UNCHANGED <<peer, backlog>>
  BY DEF WaitpidReturns
<1>2. cur \in DOMAIN clients /\ clients[cur].cgiRunning
  BY <1>1 DEF SInv, IInv, Memory, Running
<1>3. clients[cur].cgiPid \in Pid
  BY <1>2 DEF SInv, KillsOwnScript, Running
<1>4. Close(fdt, {}) = fdt
  BY DEF Close, SInv, IInv, Objects
<1>5. \A f \in Fd : fdt'[f].of = fdt[f].of \/ (fdt[f].of \notin Peer /\ fdt'[f].of \notin Peer)
  BY <1>1, <1>3, <1>4, CloseBury DEF SInv
<1>6. SameVisitors
  BY <1>1, <1>5 DEF SameVisitors
<1>7. ~Finished(clients[cur]).cgiRunning /\ Finished(clients[cur]).req = clients[cur].req
  BY <1>2, ClientAt, FinishedReady DEF SInv
<1> QED
  BY <1>1, <1>2, <1>6, <1>7, ScriptOver

LEMMA GatewayTimeoutRest ==
    ASSUME SInv, NEW fd, GatewayTimeout(fd)
    PROVE  Rest'
<1> DEFINE D == {clients[fd].cgiFd, clients[fd].cgiWriteFd}
<1>1. /\ pc = "purge" /\ fd \in hung
      /\ proc' = Reaped({clients[fd].cgiPid})
      /\ fdt' = Bury(Close(fdt, D), {clients[fd].cgiPid})
      /\ clients' = [clients EXCEPT ![fd] = GivenUp(clients[fd])]
      /\ UNCHANGED <<peer, backlog>>
  BY DEF GatewayTimeout, Least
<1>2. fd \in DOMAIN clients /\ clients[fd].cgiRunning /\ cur = NoFd /\ fd # cur
  BY <1>1, FdIsNatural DEF SInv, IInv, Memory, Running, Objects
<1>3. clients[fd].cgiPid \in Pid
  BY <1>2 DEF SInv, KillsOwnScript, Running
<1>4. D \cap DOMAIN clients = {}
  BY <1>2, FdIsNatural DEF SInv, IInv, Pipes, Tables, Objects
<1> HIDE DEF D
<1>5. \A f \in Fd : fdt'[f].of = fdt[f].of \/ (fdt[f].of \notin Peer /\ fdt'[f].of \notin Peer)
  BY <1>1, <1>3, <1>4, CloseBury DEF SInv
<1>6. SameVisitors
  BY <1>1, <1>5 DEF SameVisitors
<1>7. ~GivenUp(clients[fd]).cgiRunning /\ GivenUp(clients[fd]).req = clients[fd].req
  BY <1>2, ClientAt, FinishedReady DEF SInv
<1> QED
  BY <1>1, <1>2, <1>6, <1>7, ScriptOver

LEMMA DropIdleRest ==
    ASSUME SInv, NEW fd, DropIdle(fd)
    PROVE  Rest'
<1>1. pc = "purge" /\ fd \in stale /\ RemoveClient(fd)
  BY DEF DropIdle, Least
<1>2. fd \in DOMAIN clients
  BY <1>1 DEF SInv, IInv, Memory
<1>3. Removable(fd)
  BY <1>1, <1>2, FdIsNatural DEF Removable, SInv, IInv, Tables, Objects
<1> QED
  BY <1>1, <1>3, RemovalRest

-----------------------------------------------------------------------------
(* The backlogs.                                                           *)

LEMMA TailAt ==
    ASSUME NEW S, NEW q \in Seq(S), q # <<>>, NEW k \in DOMAIN Tail(q)
    PROVE  k \in Nat /\ k + 1 # 1 /\ k + 1 \in DOMAIN q /\ Tail(q)[k] = q[k + 1]
<1>1. Len(q) \in Nat \ {0} /\ DOMAIN q = 1..Len(q)
  OBVIOUS
<1>2. DOMAIN Tail(q) = 1..(Len(q) - 1)
  BY <1>1
<1> QED
  BY <1>1, <1>2

\* accept() takes the connection that waited longest.
LEMMA QueueTaken ==
    ASSUME SInv, NEW lfd \in ListenFds, backlog[lfd] # <<>>,
           backlog' = [backlog EXCEPT ![lfd] = Tail(backlog[lfd])],
           \A q \in Peer : q # Head(backlog[lfd]) => peer'[q].st = peer[q].st
    PROVE  /\ Head(backlog[lfd]) \in Peer
           /\ peer[Head(backlog[lfd])].st = "queued"
           /\ Queues'
<1> DEFINE p == Head(backlog[lfd])
           at(l, k) == IF l = lfd THEN k + 1 ELSE k
<1>1. backlog \in [ListenFds -> Seq(Peer)]
  BY DEF SInv, IInv, World
<1>2. 1 \in DOMAIN backlog[lfd] /\ p = backlog[lfd][1]
  BY <1>1
<1>3. p \in Peer /\ peer[p].st = "queued"
  BY <1>1, <1>2 DEF SInv, Queues
<1>4. ASSUME NEW l \in ListenFds, NEW k \in DOMAIN backlog'[l]
      PROVE  /\ k \in Nat /\ at(l, k) \in DOMAIN backlog[l]
             /\ backlog'[l][k] = backlog[l][at(l, k)]
             /\ l # lfd \/ at(l, k) # 1
  <2>1. CASE l = lfd
    <3>1. backlog'[l] = Tail(backlog[l]) /\ backlog[l] \in Seq(Peer) /\ backlog[l] # <<>>
      BY <2>1, <1>1
    <3> DEFINE q == backlog[l]
    <3>2. q \in Seq(Peer) /\ q # <<>> /\ k \in DOMAIN Tail(q) /\ backlog'[l] = Tail(q)
      BY <3>1
    <3> HIDE DEF q
    <3>3. k \in Nat /\ k + 1 # 1 /\ k + 1 \in DOMAIN q /\ Tail(q)[k] = q[k + 1]
      BY <3>2, TailAt
    <3> QED
      BY <2>1, <3>2, <3>3 DEF q
  <2>2. CASE l # lfd
    <3>1. backlog'[l] = backlog[l] /\ backlog[l] \in Seq(Peer)
      BY <2>2, <1>1
    <3> QED
      BY <2>2, <3>1
  <2> QED
    BY <2>1, <2>2
<1>5. ASSUME NEW l \in ListenFds, NEW k \in DOMAIN backlog'[l]
      PROVE  peer'[backlog'[l][k]].st = "queued"
  <2>1. backlog'[l][k] # p
    BY <1>2, <1>4 DEF SInv, Queues
  <2>2. backlog'[l][k] \in Peer /\ peer[backlog'[l][k]].st = "queued"
    BY <1>1, <1>4 DEF SInv, Queues
  <2> QED
    BY <2>1, <2>2
<1>6. ASSUME NEW l \in ListenFds, NEW m \in ListenFds,
             NEW k \in DOMAIN backlog'[l], NEW j \in DOMAIN backlog'[m],
             backlog'[l][k] = backlog'[m][j]
      PROVE  l = m /\ k = j
  <2> DEFINE a == at(l, k)
             b == at(m, j)
  <2>1. /\ a \in DOMAIN backlog[l] /\ b \in DOMAIN backlog[m]
        /\ backlog[l][a] = backlog[m][b] /\ k \in Nat /\ j \in Nat
    BY <1>4, <1>6
  <2> HIDE DEF a, b
  <2>2. l = m /\ a = b
    BY <2>1 DEF SInv, Queues
  <2> QED
    BY <2>1, <2>2 DEF a, b
<1> QED
  BY <1>3, <1>5, <1>6 DEF Queues

LEMMA ListenerReady ==
    ASSUME SInv, AtListener
    PROVE  /\ Entry.fd \in ListenFds /\ backlog[Entry.fd] # <<>>
           /\ backlog \in [ListenFds -> Seq(Peer)]
<1>1. i \in DOMAIN pollfds /\ Entry = pollfds[i] /\ Entry.fd \in ListenFds /\ Entry.revents # {}
  BY DEF SInv, IInv, Place, AtListener, Entry
<1> QED
  BY <1>1 DEF SInv, IInv, World, Vector, Ready

LEMMA TurnAwayRest ==
    ASSUME SInv, TurnAway
    PROVE  Rest'
<1> DEFINE lfd == Entry.fd
           p == Head(backlog[lfd])
<1>1. /\ AtListener /\ pc = "pass"
      /\ backlog' = [backlog EXCEPT ![lfd] = Tail(backlog[lfd])]
      /\ peer' = Left({p})
      /\ UNCHANGED <<clients, fdt, proc>>
  BY DEF TurnAway, AtListener
<1>2. lfd \in ListenFds /\ backlog[lfd] # <<>>
  BY <1>1, ListenerReady
<1> HIDE DEF lfd
<1>3. \A q \in Peer : q # p => peer'[q] = peer[q]
  BY <1>1 DEF Left
<1>4. p \in Peer /\ peer[p].st = "queued" /\ Queues'
  BY <1>1, <1>2, <1>3, QueueTaken
<1>5. \A f \in DOMAIN clients : fdt[f].of \in Peer /\ fdt[f].of # p
  BY <1>4 DEF SInv, Visitors
<1>6. Visitors'
  BY <1>1, <1>3, <1>5 DEF SInv, Visitors
<1>7. Exchanges'
  BY <1>1, <1>3, <1>5 DEF SInv, Exchanges
<1>8. EveryScriptOwned'
  BY <1>1 DEF SInv, EveryScriptOwned, Running
<1> QED
  BY <1>4, <1>6, <1>7, <1>8 DEF Rest

LEMMA AcceptConnectionRest ==
    ASSUME SInv, AcceptConnection
    PROVE  Rest'
<1> DEFINE lfd == Entry.fd
           p == Head(backlog[lfd])
<1>1. PICK fd \in Free :
          /\ backlog' = [backlog EXCEPT ![lfd] = Tail(backlog[lfd])]
          /\ peer' = [peer EXCEPT ![p].st = "open"]
          /\ fdt' = [fdt EXCEPT ![fd] = [kind |-> "sock", of |-> p]]
          /\ clients' = WithClient(fd, NewClient)
  BY DEF AcceptConnection
<1>2. AtListener /\ pc = "pass" /\ UNCHANGED proc
  BY DEF AcceptConnection, AtListener
<1>3. lfd \in ListenFds /\ backlog[lfd] # <<>>
  BY <1>2, ListenerReady
<1> HIDE DEF lfd
<1>4. peer \in [Peer -> PeerType] /\ fdt \in [Fd -> DescriptorType] /\ DOMAIN clients \subseteq Fd
  BY DEF SInv, IInv, World, Objects
<1>5. \A q \in Peer : q # p => peer'[q] = peer[q]
  BY <1>1, <1>4
<1>6. p \in Peer /\ peer[p].st = "queued" /\ Queues'
  BY <1>1, <1>3, <1>5, QueueTaken
<1> HIDE DEF p
<1>7. peer'[p].st = "open"
  BY <1>1, <1>4, <1>6 DEF PeerType
<1>8. fd \in Fd /\ fd \notin DOMAIN clients
  BY FreeIsUnused DEF SInv
<1>9. fdt'[fd].of = p /\ \A f \in Fd \ {fd} : fdt'[f] = fdt[f]
  <2> HIDE DEF DescriptorType
  <2> QED
    BY <1>1, <1>4, <1>8
<1>10. /\ DOMAIN clients' = DOMAIN clients \cup {fd}
       /\ clients'[fd] = NewClient
       /\ \A f \in DOMAIN clients : clients'[f] = clients[f]
  BY <1>1, <1>8 DEF WithClient
<1>11. \A f \in DOMAIN clients : fdt'[f] = fdt[f] /\ fdt[f].of \in Peer /\ fdt[f].of # p
  BY <1>4, <1>6, <1>8, <1>9 DEF SInv, Visitors
<1>12. Visitors'
  <2>1. \A f \in DOMAIN clients' : fdt'[f].of \in Peer /\ peer'[fdt'[f].of].st = "open"
    BY <1>5, <1>6, <1>7, <1>9, <1>10, <1>11 DEF SInv, Visitors
  <2>2. \A f, g \in DOMAIN clients' : fdt'[f].of = fdt'[g].of => f = g
    BY <1>9, <1>10, <1>11 DEF SInv, Visitors
  <2>3. \A f \in Fd \ DOMAIN clients' : fdt'[f].of \notin Peer
    BY <1>9, <1>10 DEF SInv, Visitors
  <2> QED
    BY <2>1, <2>2, <2>3 DEF Visitors
<1>13. Exchanges'
  <2>1. Alternates(NewClient) /\ Patient(NewClient, peer'[fdt'[fd].of])
    BY NewClientIdle DEF Alternates, Patient
  <2> QED
    BY <1>5, <1>10, <1>11, <2>1 DEF SInv, Exchanges
<1>14. EveryScriptOwned'
  BY <1>2, <1>10 DEF SInv, EveryScriptOwned, Running
<1> QED
  BY <1>6, <1>12, <1>13, <1>14 DEF Rest

-----------------------------------------------------------------------------
(* The peers, the scripts and the clock.                                   *)

LEMMA PeerConnectRest ==
    ASSUME SInv, pc # "stopped", NEW p \in Peer, PeerConnect(p),
           UNCHANGED <<clients, fdt, proc>>
    PROVE  Rest'
<1>1. peer[p].st = "away" /\ peer' = [peer EXCEPT ![p].st = "queued"]
  BY DEF PeerConnect
<1>2. PICK n \in ListenFds : backlog' = [backlog EXCEPT ![n] = Append(@, p)]
  BY DEF PeerConnect
<1>3. peer \in [Peer -> PeerType] /\ backlog \in [ListenFds -> Seq(Peer)]
  BY DEF SInv, IInv, World
<1>4. peer'[p].st = "queued" /\ \A q \in Peer : q # p => peer'[q] = peer[q]
  BY <1>1, <1>3 DEF PeerType
<1>5. \A f \in DOMAIN clients : fdt[f].of \in Peer /\ fdt[f].of # p
  BY <1>1 DEF SInv, Visitors
<1>6. ASSUME NEW l \in ListenFds, NEW k \in DOMAIN backlog'[l]
      PROVE  \/ k \in DOMAIN backlog[l] /\ backlog'[l][k] = backlog[l][k]
             \/ l = n /\ k = Len(backlog[n]) + 1 /\ backlog'[l][k] = p
  <2>1. CASE l = n
    <3>1. backlog'[l] = Append(backlog[l], p) /\ backlog[l] \in Seq(Peer)
      BY <2>1, <1>2, <1>3
    <3> QED
      BY <2>1, <3>1
  <2>2. CASE l # n
    BY <2>2, <1>2, <1>3
  <2> QED
    BY <2>1, <2>2
<1>7. \A l \in ListenFds : \A k \in DOMAIN backlog[l] :
         backlog[l][k] \in Peer /\ backlog[l][k] # p /\ peer[backlog[l][k]].st = "queued"
  BY <1>1, <1>3 DEF SInv, Queues
<1>8. Queues'
  <2>1. \A l \in ListenFds : \A k \in DOMAIN backlog'[l] : peer'[backlog'[l][k]].st = "queued"
    BY <1>4, <1>6, <1>7
  <2>2. ASSUME NEW l \in ListenFds, NEW m \in ListenFds,
               NEW k \in DOMAIN backlog'[l], NEW j \in DOMAIN backlog'[m],
               backlog'[l][k] = backlog'[m][j]
        PROVE  l = m /\ k = j
    BY <1>6, <1>7, <2>2 DEF SInv, Queues
  <2> QED
    BY <2>1, <2>2 DEF Queues
<1>9. Visitors' /\ Exchanges'
  BY <1>4, <1>5 DEF SInv, Visitors, Exchanges
<1>10. EveryScriptOwned'
  BY DEF SInv, EveryScriptOwned, Running
<1> QED
  BY <1>8, <1>9, <1>10 DEF Rest

LEMMA PeerStepRest ==
    ASSUME SendAhead = FALSE, SInv, pc # "stopped", PeerStep, UNCHANGED server
    PROVE  Rest'
<1>1. UNCHANGED <<pc, clients, fdt, proc>>
  BY DEF PeerStep, server
<1>2. PICK p \in Peer :
         \/ PeerConnect(p)
         \/ (PeerSend(p) \/ PeerFin(p) \/ PeerReset(p) \/ PeerDrain(p)) /\ UNCHANGED backlog
  BY DEF PeerStep
<1>3. CASE PeerConnect(p)
  BY <1>1, <1>3, PeerConnectRest
<1>4. peer \in [Peer -> PeerType]
  BY DEF SInv, IInv, World
<1>5. ASSUME UNCHANGED backlog, PeerFin(p) \/ PeerReset(p) \/ PeerDrain(p)
      PROVE  Rest'
  <2>1. \A q \in Peer : peer'[q].st = peer[q].st /\ (peer'[q].inbox => peer[q].inbox)
    BY <1>4, <1>5 DEF PeerFin, PeerReset, PeerDrain, PeerType
  <2>2. SameVisitors /\ NothingArrives
    BY <1>1, <1>5, <2>1 DEF SameVisitors, NothingArrives
  <2> QED
    BY <1>1, <2>2, NoClientChanges
<1>6. ASSUME UNCHANGED backlog, PeerSend(p)
      PROVE  Rest'
  <2>1. peer' = [peer EXCEPT ![p].inbox = TRUE] /\ RequestDue(p)
    BY <1>6 DEF PeerSend
  <2>2. /\ \A q \in Peer : peer'[q].st = peer[q].st
        /\ \A q \in Peer \ {p} : peer'[q] = peer[q]
    BY <1>4, <2>1 DEF PeerType
  <2>3. SameVisitors
    BY <1>1, <1>6, <2>2 DEF SameVisitors
  <2>4. Visitors' /\ Queues'
    BY <2>3, SameVisitorsKeep DEF SInv
  <2>5. Exchanges'
    <3> SUFFICES ASSUME NEW f \in DOMAIN clients
                 PROVE  Alternates(clients[f]) /\ Patient(clients[f], peer'[fdt[f].of])
      BY <1>1 DEF Exchanges
    <3>1. CASE fdt[f].of = p
      BY <2>1, <3>1 DEF RequestDue, SInv, Exchanges, Patient
    <3>2. CASE fdt[f].of # p
      BY <2>2, <3>2 DEF SInv, Exchanges, Visitors
    <3> QED
      BY <3>1, <3>2
  <2>6. EveryScriptOwned'
    BY <1>1 DEF SInv, EveryScriptOwned, Running
  <2> QED
    BY <2>4, <2>5, <2>6 DEF Rest
<1> QED
  BY <1>2, <1>3, <1>5, <1>6

LEMMA ScriptStepRest ==
    ASSUME SInv, ScriptStep, UNCHANGED server
    PROVE  Rest'
<1>1. UNCHANGED <<pc, clients, fdt, peer, backlog>>
  BY DEF ScriptStep, server
<1>2. PICK p \in Pid :
         /\ proc[p].st = "run"
         /\ \/ ScriptWrite(p) \/ ScriptRead(p) \/ ScriptCloseStdin(p)
            \/ ScriptCloseStdout(p) \/ ScriptExit(p)
  BY DEF ScriptStep
<1>3. proc \in [Pid -> ScriptType]
  BY DEF SInv, IInv, World
<1>4. \A q \in Pid : proc'[q].st # "free" => proc[q].st # "free"
  BY <1>2, <1>3
  DEF ScriptWrite, ScriptRead, ScriptCloseStdin, ScriptCloseStdout, ScriptExit, ScriptType
<1>5. SameVisitors /\ NothingArrives
  BY <1>1 DEF SameVisitors, NothingArrives
<1> QED
  BY <1>1, <1>4, <1>5, NoClientChanges

LEMMA TickRest ==
    ASSUME SInv, Tick
    PROVE  Rest'
<1>1. /\ clients' = [f \in DOMAIN clients |-> Older(clients[f])]
      /\ pc # "stopped" /\ UNCHANGED <<fdt, proc, peer, backlog>>
  BY DEF Tick
<1>2. \A f \in DOMAIN clients : Alike(clients[f], clients'[f])
  BY <1>1, ClientAt, OlderAlike DEF SInv
<1>3. DOMAIN clients' = DOMAIN clients
  BY <1>1
<1>4. Visitors' /\ Queues'
  BY <1>1, <1>3 DEF SInv, Visitors, Queues
<1>5. Exchanges'
  BY <1>1, <1>2, <1>3 DEF SInv, Exchanges, Alternates, Patient, Alike
<1>6. EveryScriptOwned'
  BY <1>1, <1>2, <1>3 DEF SInv, EveryScriptOwned, Running, Alike
<1> QED
  BY <1>4, <1>5, <1>6 DEF Rest

LEMMA StopRest ==
    ASSUME SInv, Stop
    PROVE  Rest'
<1>1. /\ pc' = "stopped"
      /\ fdt' = Close(fdt, ListenFds \cup DOMAIN clients)
      /\ clients' = <<>>
      /\ backlog' = [l \in ListenFds |-> <<>>]
  BY DEF Stop
<1>2. DOMAIN clients' = {}
  BY <1>1
<1>3. \A f \in Fd : fdt'[f].of \notin Peer
  BY <1>1, NoneIsNobody DEF Close, Closed, SInv, Visitors
<1>4. Visitors' /\ Exchanges'
  BY <1>2, <1>3 DEF Visitors, Exchanges
<1>5. \A l \in ListenFds : DOMAIN backlog'[l] = {}
  BY <1>1
<1>6. Queues'
  BY <1>5 DEF Queues
<1>7. EveryScriptOwned'
  BY <1>1 DEF EveryScriptOwned
<1> QED
  BY <1>4, <1>6, <1>7 DEF Rest

-----------------------------------------------------------------------------
(* The theorems.                                                           *)

LEMMA SInvNext ==
    ASSUME SendAhead = FALSE, SInv, [Next]_vars
    PROVE  SInv'
<1>1. IInv' /\ KillsOwnScript'
  BY NextPreserves, KillsNext DEF SInv
<1>2. CASE Poll \/ AcceptFails \/ IgnoreOrphan \/ CheckTimeouts \/ UNCHANGED vars
  <2>1. /\ pc # "stopped" \/ UNCHANGED pc
        /\ UNCHANGED <<clients, fdt, proc, peer, backlog>>
    BY <1>2
    DEF Poll, AcceptFails, AtListener, IgnoreOrphan, AtSocket, CheckTimeouts, PassOver,
        world, vars
  <2>2. SameVisitors /\ NothingArrives
    BY <2>1 DEF SameVisitors, NothingArrives
  <2> QED
    BY <1>1, <2>1, <2>2, NoClientChanges DEF SInv, Rest
<1>3. ASSUME NEW fd \in DOMAIN clients, HandleClient(fd) \/ HandlePipe(fd) PROVE SInv'
  BY <1>1, <1>3, SocketStepRest, PipeStepRest DEF SInv, Rest
<1>4. ASSUME NEW fd \in Fd, GatewayTimeout(fd) \/ DropIdle(fd) PROVE SInv'
  BY <1>1, <1>4, GatewayTimeoutRest, DropIdleRest DEF SInv, Rest
<1>5. CASE TurnAway \/ AcceptConnection \/ HangUp
  BY <1>1, <1>5, TurnAwayRest, AcceptConnectionRest, HangUpRest DEF SInv, Rest
<1>6. CASE WaitpidReturns \/ Tick \/ Stop
  BY <1>1, <1>6, WaitpidRest, TickRest, StopRest DEF SInv, Rest
<1>7. CASE Environment
  BY <1>1, <1>7, PeerStepRest, ScriptStepRest DEF Environment, SInv, Rest
<1> QED
  BY <1>2, <1>3, <1>4, <1>5, <1>6, <1>7 DEF Next, Loop, Terminated

LEMMA SInvInit == Init => SInv
<1> SUFFICES ASSUME Init PROVE SInv
  OBVIOUS
<1>1. /\ clients = <<>> /\ DOMAIN clients = {}
      /\ proc = [p \in Pid |-> NoScript]
      /\ backlog = [l \in ListenFds |-> <<>>]
      /\ \A f \in Fd : fdt[f].of = None
  BY DEF Init, Closed
<1>2. KillsOwnScript /\ Exchanges
  BY <1>1 DEF KillsOwnScript, Running, Exchanges
<1>3. Visitors
  BY <1>1, NoneIsNobody DEF Visitors
<1>4. \A l \in ListenFds : DOMAIN backlog[l] = {}
  BY <1>1
<1>5. Queues
  BY <1>4 DEF Queues
<1>6. EveryScriptOwned
  BY <1>1 DEF EveryScriptOwned, NoScript
<1> QED
  BY <1>2, <1>3, <1>5, <1>6, InitEstablishes DEF SInv

LEMMA SInvHolds ==
    ASSUME SendAhead = FALSE
    PROVE  Spec => []SInv
<1>1. SInv /\ [Next]_vars => SInv'
  BY SInvNext
<1> QED
  BY <1>1, SInvInit, PTL DEF Spec

\* While peers wait for their answers, the server never has a reply under way
\* for a client whose script still runs: what _handleCGIRead prepares at the
\* end of file replaces no reply of which a part was sent.
THEOREM RepliesAreNotOverwritten ==
    ASSUME SendAhead = FALSE
    PROVE  Spec => []NoOverwrite
<1>1. SInv => NoOverwrite
  BY DEF SInv, Exchanges, Alternates, NoOverwrite, Running
<1> QED
  BY <1>1, SInvHolds, PTL

\* While peers wait for their answers, no child of the server is forgotten:
\* as long as it runs, every process that was forked and not reaped belongs to
\* a client that remembers its pid, so that _handleCGIRead, _removeClient or
\* _checkTimeouts will reap it.
THEOREM ScriptsAreOwned ==
    ASSUME SendAhead = FALSE
    PROVE  Spec => []EveryScriptOwned
<1>1. SInv => EveryScriptOwned
  BY DEF SInv
<1> QED
  BY <1>1, SInvHolds, PTL

-----------------------------------------------------------------------------
(* What a script finds in the output buffer of its client.                 *)

\* A connection that waits for a request holds no output of a script.
Fresh(c) == c.req = "partial" => ~c.cgiOutput

AllFresh == \A f \in DOMAIN clients : Fresh(clients[f])

LEMMA OnlyLaunchBegins ==
    ASSUME IInv, KillsOwnScript, [Next]_vars, \A fd \in DOMAIN clients : ~Launch(fd)
    PROVE  NoneBegins
<1>1. CASE Poll \/ AcceptFails \/ TurnAway \/ IgnoreOrphan \/ CheckTimeouts \/ UNCHANGED vars
  <2>1. UNCHANGED clients /\ Untouched(Pid)
    BY <1>1
    DEF Poll, AcceptFails, TurnAway, IgnoreOrphan, CheckTimeouts, PassOver, world, vars,
        Untouched
  <2> QED
    BY <2>1, ClientsStay
<1>2. CASE AcceptConnection
  <2>1. PICK fd : clients' = WithClient(fd, NewClient)
    BY <1>2 DEF AcceptConnection
  <2>2. UNCHANGED proc
    BY <1>2 DEF AcceptConnection
  <2> QED
    BY <2>1, <2>2, NewClientIdle DEF KillsOwnScript, NoneBegins, Running, WithClient
<1>3. CASE HangUp
  BY <1>3, RemovalBegins DEF HangUp, RemoveInPass
<1>4. ASSUME NEW fd \in DOMAIN clients, HandleClient(fd) \/ HandlePipe(fd) PROVE NoneBegins
  BY <1>4, SocketStepBegins, PipeStepBegins
<1>5. CASE WaitpidReturns
  BY <1>5, WaitpidBegins
<1>6. ASSUME NEW fd \in Fd, GatewayTimeout(fd) \/ DropIdle(fd) PROVE NoneBegins
  BY <1>6, GatewayTimeoutBegins, RemovalBegins DEF DropIdle
<1>7. CASE Stop
  BY <1>7 DEF Stop, NoneBegins
<1>8. CASE Environment
  BY <1>8, EnvironmentBegins
<1>9. CASE Tick
  <2>1. clients' = [f \in DOMAIN clients |-> Older(clients[f])] /\ UNCHANGED proc
    BY <1>9 DEF Tick
  <2>2. \A f \in DOMAIN clients : Alike(clients[f], Older(clients[f]))
    BY ClientAt, OlderAlike
  <2> QED
    BY <2>1, <2>2 DEF KillsOwnScript, NoneBegins, Running, Alike
<1> QED
  BY <1>1, <1>2, <1>3, <1>4, <1>5, <1>6, <1>7, <1>8, <1>9 DEF Next, Loop, Terminated

LEMMA OneStaysFresh ==
    ASSUME AllFresh, NEW fd \in DOMAIN clients, NEW c, clients' = [clients EXCEPT ![fd] = c],
           Fresh(clients[fd]) => Fresh(c)
    PROVE  AllFresh'
  BY DEF AllFresh

LEMMA RemovalStaysFresh ==
    ASSUME AllFresh, NEW fd, RemoveClient(fd)
    PROVE  AllFresh'
  BY DEF AllFresh, RemoveClient, WithoutClient

LEMMA FreshOperations ==
    ASSUME NEW c \in ClientType, NEW what, NEW n, Fresh(c)
    PROVE  /\ Fresh(Respond(c, what)) /\ Fresh(Sent(c, n)) /\ Fresh(BodyDone(c))
           /\ Fresh(Finished(c)) /\ Fresh(GivenUp(c)) /\ Fresh(Older(c))
           /\ Fresh([c EXCEPT !.bodyLeft = @ - n])
<1>1. Fresh(Older(c))
  BY DEF Fresh, Older, ClientType
<1>2. Fresh([c EXCEPT !.bodyLeft = @ - n])
  BY DEF Fresh, ClientType
<1> QED
  BY <1>1, <1>2 DEF Fresh, Respond, Sent, BodyDone, Finished, GivenUp, ClientType

\* feed() is called for a connection without output, and prints none.
LEMMA FedFresh ==
    ASSUME NEW c \in ClientType, NEW d \in Fed(c), ~c.cgiOutput
    PROVE  d \in ClientType /\ ~d.cgiOutput
<1>1. d \in ClientType
  BY FedType
<1>2. ASSUME d = Refreshed(c) PROVE d.cgiOutput = c.cgiOutput
  BY <1>2 DEF Refreshed, ClientType
<1>3. ASSUME NEW r \in Requests, NEW k \in BOOLEAN, d = Complete(c, r, k)
      PROVE  d.cgiOutput = c.cgiOutput
  BY <1>3 DEF Complete, ClientType
<1>4. d = Refreshed(c) \/ \E r \in Requests, k \in BOOLEAN : d = Complete(c, r, k)
  BY DEF Fed
<1> QED
  BY <1>1, <1>2, <1>3, <1>4

\* A script starts with an empty buffer.
LEMMA LaunchFresh ==
    ASSUME SInv, AllFresh, NEW fd \in DOMAIN clients, Launch(fd)
    PROVE  /\ DOMAIN clients' = DOMAIN clients
           /\ \A f \in DOMAIN clients \ {fd} : clients'[f] = clients[f]
           /\ ~clients'[fd].cgiOutput
<1>1. PICK c \in Fed(clients[fd]), pid \in Pid, rd \in Free, wr \in Free :
         clients' = [clients EXCEPT ![fd] = Launched(c, pid, rd, wr)]
  BY LaunchFacts
<1>2. Receive(fd)
  BY DEF Launch
<1>3. clients[fd] \in ClientType /\ ~clients[fd].cgiOutput
  BY <1>2, ReceiveStarts DEF AllFresh, Fresh
<1>4. c \in ClientType /\ ~c.cgiOutput
  BY <1>3, FedFresh
<1>5. ~Launched(c, pid, rd, wr).cgiOutput
  BY <1>4 DEF Launched, ClientType
<1> QED
  BY <1>1, <1>5

LEMMA SocketStepFresh ==
    ASSUME SInv, AllFresh, NEW fd \in DOMAIN clients, HandleClient(fd)
    PROVE  AllFresh'
<1>1. clients[fd] \in ClientType /\ Fresh(clients[fd])
  BY ClientAt DEF SInv, AllFresh
<1>2. CASE ReadClosed(fd) \/ WriteFails(fd) \/ WriteLastAndClose(fd)
  BY <1>2, RemovalStaysFresh DEF ReadClosed, WriteFails, WriteLastAndClose, RemoveInPass
<1>3. ASSUME Receive(fd), NEW c \in Fed(clients[fd]), NEW what
      PROVE  Fresh(c) /\ Fresh(Respond(c, what))
  <2>1. ~clients[fd].cgiOutput
    BY <1>1, <1>3, ReceiveStarts DEF Fresh
  <2>2. c \in ClientType /\ ~c.cgiOutput
    BY <1>1, <2>1, FedFresh
  <2>3. Fresh(c)
    BY <2>2 DEF Fresh
  <2> QED
    BY <2>2, <2>3, FreshOperations
<1>4. CASE ReadPart(fd)
  <2>1. Receive(fd) /\ \E c \in Fed(clients[fd]) : clients' = [clients EXCEPT ![fd] = c]
    BY <1>4 DEF ReadPart
  <2> QED
    BY <1>3, <2>1, OneStaysFresh
<1>5. CASE ProcessStatic(fd) \/ LaunchFails(fd)
  <2>1. /\ Receive(fd)
        /\ \E c \in Fed(clients[fd]), what \in Answers :
              clients' = [clients EXCEPT ![fd] = Respond(c, what)]
    BY <1>5 DEF ProcessStatic, LaunchFails, Answers
  <2> QED
    BY <1>3, <2>1, OneStaysFresh
<1>6. CASE Launch(fd)
  BY <1>6, LaunchFresh DEF AllFresh, Fresh
<1>7. CASE WritePart(fd)
  <2>1. PICK n \in 1..(clients[fd].unsent - 1) : clients' = [clients EXCEPT ![fd] = Sent(@, n)]
    BY <1>7 DEF WritePart
  <2>2. Fresh(Sent(clients[fd], n))
    BY <1>1, FreshOperations
  <2> QED
    BY <2>1, <2>2, OneStaysFresh
<1>8. CASE WriteLast(fd)
  <2>1. clients' = [clients EXCEPT ![fd] = NewClient]
    BY <1>8, ResetType DEF WriteLast
  <2>2. Fresh(NewClient)
    BY DEF Fresh, NewClient
  <2> QED
    BY <2>1, <2>2, OneStaysFresh
<1> QED
  BY <1>2, <1>4, <1>5, <1>6, <1>7, <1>8 DEF HandleClient

LEMMA PipeStepFresh ==
    ASSUME SInv, AllFresh, NEW c \in DOMAIN clients, HandlePipe(c)
    PROVE  AllFresh'
<1>1. clients[c] \in ClientType /\ Fresh(clients[c])
  BY ClientAt DEF SInv, AllFresh
<1>2. CASE HandleCGIRead(c)
  <2>1. clients' = [clients EXCEPT ![c].cgiOutput = TRUE] /\ clients[c].cgiRunning
    BY <1>2 DEF HandleCGIRead, AtOutputPipe, Least, CgiOwners
  <2>2. clients[c].req # "partial"
    BY <2>1 DEF SInv, Exchanges, Alternates
  <2>3. Fresh([clients[c] EXCEPT !.cgiOutput = TRUE])
    BY <1>1, <2>2 DEF Fresh, ClientType
  <2> QED
    BY <2>1, <2>3, OneStaysFresh
<1>3. CASE CGIEndOfFile(c)
  BY <1>3 DEF CGIEndOfFile, AllFresh
<1>4. ASSUME CloseBodyPipe(c) PROVE AllFresh'
  <2>1. clients' = [clients EXCEPT ![c] = BodyDone(@)]
    BY <1>4 DEF CloseBodyPipe
  <2> QED
    BY <1>1, <2>1, FreshOperations, OneStaysFresh
<1>5. ASSUME NEW n, clients' = [clients EXCEPT ![c].bodyLeft = @ - n] PROVE AllFresh'
  <2>1. Fresh([clients[c] EXCEPT !.bodyLeft = @ - n])
    BY <1>1, FreshOperations
  <2> QED
    BY <1>5, <2>1, OneStaysFresh
<1> QED
  BY <1>2, <1>3, <1>4, <1>5 DEF HandlePipe, BodyRefused, HandleCGIWrite

LEMMA FreshNext ==
    ASSUME SInv, AllFresh, [Next]_vars
    PROVE  AllFresh'
<1>1. CASE Poll \/ AcceptFails \/ TurnAway \/ IgnoreOrphan \/ CheckTimeouts \/ Environment
           \/ UNCHANGED vars
  <2>1. UNCHANGED clients
    BY <1>1
    DEF Poll, AcceptFails, TurnAway, IgnoreOrphan, CheckTimeouts, PassOver, world, vars,
        Environment, server
  <2> QED
    BY <2>1 DEF AllFresh
<1>2. CASE AcceptConnection
  <2>1. PICK fd : clients' = WithClient(fd, NewClient)
    BY <1>2 DEF AcceptConnection
  <2>2. Fresh(NewClient)
    BY DEF Fresh, NewClient
  <2> QED
    BY <2>1, <2>2 DEF AllFresh, WithClient
<1>3. CASE HangUp
  BY <1>3, RemovalStaysFresh DEF HangUp, RemoveInPass
<1>4. ASSUME NEW fd \in DOMAIN clients, HandleClient(fd) \/ HandlePipe(fd) PROVE AllFresh'
  BY <1>4, SocketStepFresh, PipeStepFresh
<1>5. CASE WaitpidReturns
  <2>1. clients' = [clients EXCEPT ![cur] = Finished(@)] /\ cur \in DOMAIN clients
    BY <1>5 DEF WaitpidReturns, SInv, IInv, Memory, Running
  <2> QED
    BY <2>1, ClientAt, FreshOperations, OneStaysFresh DEF SInv
<1>6. ASSUME NEW fd \in Fd, GatewayTimeout(fd) PROVE AllFresh'
  <2>1. clients' = [clients EXCEPT ![fd] = GivenUp(clients[fd])] /\ fd \in DOMAIN clients
    BY <1>6 DEF GatewayTimeout, Least, SInv, IInv, Memory, Running
  <2> QED
    BY <2>1, ClientAt, FreshOperations, OneStaysFresh DEF SInv
<1>7. ASSUME NEW fd \in Fd, DropIdle(fd) PROVE AllFresh'
  BY <1>7, RemovalStaysFresh DEF DropIdle
<1>8. CASE Stop
  BY <1>8 DEF Stop, AllFresh
<1>9. CASE Tick
  <2>1. clients' = [f \in DOMAIN clients |-> Older(clients[f])]
    BY <1>9 DEF Tick
  <2> QED
    BY <2>1, ClientAt, FreshOperations DEF AllFresh, SInv
<1> QED
  BY <1>1, <1>2, <1>3, <1>4, <1>5, <1>6, <1>7, <1>8, <1>9 DEF Next, Loop, Terminated

\* While peers wait for their answers, a script that CGI::execute starts finds
\* the _cgiOutput of its client empty: reset() has cleared what the script of
\* an earlier request on the connection had printed, so that no answer begins
\* with another answer's bytes.
THEOREM BuffersStartEmpty ==
    ASSUME SendAhead = FALSE
    PROVE  Spec => StartsAfresh
<1>1. Init => AllFresh
  BY DEF Init, AllFresh
<1>2. SInv /\ AllFresh /\ [Next]_vars => AllFresh'
  BY FreshNext
<1>3. ASSUME SInv, AllFresh, [Next]_vars, NEW f \in DOMAIN clients',
             clients'[f].cgiRunning,
             f \in DOMAIN clients => clients'[f].cgiPid # clients[f].cgiPid
      PROVE  ~clients'[f].cgiOutput
  <2>1. CASE \A fd \in DOMAIN clients : ~Launch(fd)
    BY <1>3, <2>1, OnlyLaunchBegins DEF SInv, NoneBegins, Running
  <2>2. ASSUME NEW fd \in DOMAIN clients, Launch(fd) PROVE ~clients'[f].cgiOutput
    BY <1>3, <2>2, LaunchFresh
  <2> QED
    BY <2>1, <2>2
<1>4. SInv /\ AllFresh /\ [Next]_vars =>
         [\A fd \in DOMAIN clients' :
             /\ clients'[fd].cgiRunning
             /\ fd \in DOMAIN clients => clients'[fd].cgiPid # clients[fd].cgiPid
             => ~clients'[fd].cgiOutput]_vars
  BY <1>3
<1> QED
  BY <1>1, <1>2, <1>4, SInvHolds, PTL DEF Spec, StartsAfresh

=============================================================================
