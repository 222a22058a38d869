-------------------------- MODULE RefinementProofs --------------------------
(***************************************************************************)
(* The event loop does to a browser what module Exchange allows: every     *)
(* step of module Server is, under the mapping of ServerExchange, a step   *)
(* of Exchange or changes nothing a browser sees.                          *)
(***************************************************************************)
EXTENDS ScriptProofs, ServerExchange

-----------------------------------------------------------------------------
(* What a browser sees of its connection.                                  *)

View(p) ==
    <<Phase(p),
      IF IsAnswered(p) THEN Some(ClientsOf(p)).answer ELSE "none",
      IF IsAnswered(p) THEN Some(ClientsOf(p)).unsent ELSE 0>>

ViewOf(c) ==
    <<PhaseOf(c), IF c.responseReady THEN c.answer ELSE "none",
      IF c.responseReady THEN c.unsent ELSE 0>>

Without(phase) == <<phase, "none", 0>>

LEMMA Stutters ==
    ASSUME \A q \in Peer : View(q)' = View(q)
    PROVE  UNCHANGED Promise!vars
  BY DEF View, Promise!vars

LEMMA Becomes ==
    ASSUME NEW p \in Peer, NEW ph, NEW what, NEW n, View(p)' = <<ph, what, n>>,
           \A q \in Peer \ {p} : View(q)' = View(q)
    PROVE  Promise!Become(p, ph, what, n)
  BY DEF View, Promise!Become

LEMMA SomeOfOne == \A c : Some({c}) = c
  BY DEF Some

LEMMA ViewAt ==
    ASSUME Visitors, NEW f \in DOMAIN clients, NEW p, fdt[f].of = p
    PROVE  View(p) = ViewOf(clients[f])
<1>1. peer[p].st = "open" /\ \A g \in DOMAIN clients : fdt[g].of = p => g = f
  BY DEF Visitors
<1>2. ClientsOf(p) = {clients[f]}
  BY <1>1 DEF ClientsOf
<1>3. Some(ClientsOf(p)) = clients[f]
  BY <1>2, SomeOfOne
<1> QED
  BY <1>1, <1>3 DEF View, ViewOf, Phase, IsAnswered

LEMMA ViewAtNext ==
    ASSUME Visitors', NEW f \in DOMAIN clients', NEW p, fdt'[f].of = p
    PROVE  View(p)' = ViewOf(clients'[f])
<1>1. peer'[p].st = "open" /\ \A g \in DOMAIN clients' : fdt'[g].of = p => g = f
  BY DEF Visitors
<1>2. ClientsOf(p)' = {clients'[f]}
  BY <1>1 DEF ClientsOf
<1>3. Some(ClientsOf(p)') = clients'[f]
  BY <1>2, SomeOfOne
<1> QED
  BY <1>1, <1>3 DEF View, ViewOf, Phase, IsAnswered

LEMMA ViewElse ==
    ASSUME NEW p
    PROVE  /\ peer[p].st # "open" => View(p) = Without(peer[p].st)
           /\ peer'[p].st # "open" => View(p)' = Without(peer'[p].st)
  BY DEF View, Without, Phase, IsAnswered

-----------------------------------------------------------------------------
(* Steps after which the connections are the same.                         *)

\* Every peer is away, waiting, or the peer of a client.
Attended ==
    \A p \in Peer :
        \/ peer[p].st \in {"away", "queued"}
        \/ peer[p].st = "open" /\ \E f \in DOMAIN clients : fdt[f].of = p

RInv == SInv /\ ClientsBounded /\ Attended

SameConnections ==
    /\ DOMAIN clients' = DOMAIN clients
    /\ \A f \in DOMAIN clients : fdt'[f].of = fdt[f].of
    /\ \A p \in Peer : peer'[p].st = peer[p].st

\* Only the connection of a client that changes can look different.
Changes(f) == ViewOf(clients'[f]) # ViewOf(clients[f])

LEMMA OthersStay ==
    ASSUME RInv, SInv', SameConnections
    PROVE  /\ Attended'
           /\ \A q \in Peer :
                 View(q)' = View(q) \/ \E f \in DOMAIN clients : fdt[f].of = q /\ Changes(f)
<1>1. Attended'
  BY DEF RInv, Attended, SameConnections
<1>2. ASSUME NEW q \in Peer, \A f \in DOMAIN clients : fdt[f].of = q => ~Changes(f)
      PROVE  View(q)' = View(q)
  <2>1. CASE peer[q].st # "open"
    BY <2>1, ViewElse DEF SameConnections
  <2>2. ASSUME NEW f \in DOMAIN clients, fdt[f].of = q PROVE View(q)' = View(q)
    <3>1. View(q) = ViewOf(clients[f])
      BY <2>2, ViewAt DEF RInv, SInv
    <3>2. View(q)' = ViewOf(clients'[f])
      BY <2>2, ViewAtNext DEF SInv, SameConnections
    <3> QED
      BY <1>2, <2>2, <3>1, <3>2 DEF Changes
  <2> QED
    BY <2>1, <2>2 DEF RInv, Attended
<1> QED
  BY <1>1, <1>2

\* No connection looks different.
LEMMA NothingSeen ==
    ASSUME RInv, SInv', SameConnections,
           \A f \in DOMAIN clients : ~Changes(f)
    PROVE  Attended' /\ UNCHANGED Promise!vars
<1>1. Attended' /\ \A q \in Peer : View(q)' = View(q)
  BY OthersStay
<1> QED
  BY <1>1, Stutters

\* One does.
LEMMA OneSeen ==
    ASSUME RInv, SInv', SameConnections, NEW f \in DOMAIN clients, NEW c,
           clients' = [clients EXCEPT ![f] = c],
           NEW ph, NEW what, NEW n, ViewOf(c) = <<ph, what, n>>
    PROVE  /\ Attended'
           /\ \E p \in Peer : View(p) = ViewOf(clients[f]) /\ Promise!Become(p, ph, what, n)
<1> PICK p : p = fdt[f].of
  OBVIOUS
<1>1. p \in Peer /\ View(p) = ViewOf(clients[f])
  BY ViewAt DEF RInv, SInv, Visitors
<1>2. View(p)' = ViewOf(c)
  <2>1. clients'[f] = c /\ fdt'[f].of = p /\ f \in DOMAIN clients'
    BY DEF SameConnections
  <2> QED
    BY <2>1, ViewAtNext DEF SInv
<1>3. Attended' /\ \A q \in Peer \ {p} : View(q)' = View(q)
  <2>1. \A g \in DOMAIN clients : g # f => ~Changes(g)
    BY DEF Changes
  <2> QED
    BY <2>1, OthersStay
<1> QED
  BY <1>1, <1>2, <1>3, Becomes

-----------------------------------------------------------------------------
(* What the operations on a client show.                                   *)

LEMMA ViewsOf ==
    ASSUME NEW c \in ClientType
    PROVE  /\ ~c.cgiRunning /\ ~c.responseReady => ViewOf(c) = Without("receiving")
           /\ c.cgiRunning /\ ~c.responseReady => ViewOf(c) = Without("working")
           /\ c.responseReady => ViewOf(c) = <<"answering", c.answer, c.unsent>>
  BY DEF ViewOf, PhaseOf, Without

LEMMA RespondView ==
    ASSUME NEW c \in ClientType, NEW what
    PROVE  ViewOf(Respond(c, what)) = <<"answering", what, RespSize>>
  BY DEF ViewOf, PhaseOf, Respond, ClientType

LEMMA NewClientView == ViewOf(NewClient) = Without("receiving")
  BY DEF NewClient, ViewOf, PhaseOf, Without

LEMMA EndedView ==
    ASSUME NEW c \in ClientType
    PROVE  /\ ViewOf(Finished(c)) =
                 <<"answering", IF c.cgiOutput THEN "output" ELSE "500", RespSize>>
           /\ ViewOf(GivenUp(c)) = <<"answering", "504", RespSize>>
  BY DEF ViewOf, PhaseOf, Finished, GivenUp, Respond, ClientType

LEMMA SentView ==
    ASSUME NEW c \in ClientType, NEW n, c.responseReady
    PROVE  ViewOf(Sent(c, n)) = <<"answering", c.answer, c.unsent - n>>
  BY DEF ViewOf, PhaseOf, Sent, ClientType

LEMMA PipeView ==
    ASSUME NEW c \in ClientType, NEW n
    PROVE  /\ ViewOf([c EXCEPT !.bodyLeft = @ - n]) = ViewOf(c)
           /\ ViewOf([c EXCEPT !.cgiOutput = TRUE]) = ViewOf(c)
           /\ ViewOf(BodyDone(c)) = ViewOf(c)
  BY DEF ViewOf, PhaseOf, BodyDone, ClientType

LEMMA OlderView ==
    ASSUME NEW c \in ClientType
    PROVE  ViewOf(Older(c)) = ViewOf(c)
<1> DEFINE a == IF c.idle > Timeout THEN c.idle ELSE c.idle + 1
           b == IF c.cgiRunning
                THEN IF c.cgiAge > Timeout THEN c.cgiAge ELSE c.cgiAge + 1 ELSE c.cgiAge
<1>1. Older(c) = [c EXCEPT !.idle = a, !.cgiAge = b]
  BY DEF Older
<1> HIDE DEF a, b
<1> QED
  BY <1>1 DEF ClientType, ViewOf, PhaseOf

-----------------------------------------------------------------------------
(* Reading.                                                                *)

Allowed == UNCHANGED Promise!vars \/ Promise!Next

\* The peers of the clients are the same unless it is shown otherwise.
LEMMA OfKept ==
    ASSUME SInv', NEW f \in DOMAIN clients',
           fdt'[f].of = fdt[f].of \/ fdt'[f].of \in Pid \cup {None}
    PROVE  fdt'[f].of = fdt[f].of
  BY NoneIsNobody, PeersAreNoPids DEF SInv, Visitors

LEMMA ReceiveSeen ==
    ASSUME RInv, SInv', NEW fd \in DOMAIN clients, Receive(fd),
           \A f \in DOMAIN clients : fdt'[f].of = fdt[f].of,
           NEW c, clients' = [clients EXCEPT ![fd] = c],
           NEW ph, NEW what, NEW n, ViewOf(c) = <<ph, what, n>>
    PROVE  /\ Attended'
           /\ \E p \in Peer : View(p) = Without("receiving") /\ Promise!Become(p, ph, what, n)
<1>1. SameConnections
  BY ReceiveStarts DEF SameConnections, RInv
<1>2. ViewOf(clients[fd]) = Without("receiving")
  BY ReceiveStarts, ViewsOf DEF RInv
<1>3. /\ Attended'
      /\ \E p \in Peer : View(p) = ViewOf(clients[fd]) /\ Promise!Become(p, ph, what, n)
  BY <1>1, OneSeen
<1> QED
  BY <1>2, <1>3

LEMMA ReadPartAllowed ==
    ASSUME RInv, SInv', NEW fd \in DOMAIN clients, ReadPart(fd)
    PROVE  Attended' /\ Allowed
<1>1. Receive(fd) /\ UNCHANGED fdt
  BY DEF ReadPart
<1>2. PICK c \in Fed(clients[fd]) : clients' = [clients EXCEPT ![fd] = c]
  BY DEF ReadPart
<1>3. ViewOf(clients[fd]) = Without("receiving") /\ ViewOf(c) = Without("receiving")
  BY <1>1, <1>2, ReceiveStarts, FedAlike, FedType, ViewsOf DEF RInv, SInv
<1>4. SameConnections
  BY <1>1, <1>2, ReceiveStarts DEF SameConnections, RInv
<1>5. \A f \in DOMAIN clients : ~Changes(f)
  BY <1>2, <1>3 DEF Changes
<1> QED
  BY <1>4, <1>5, NothingSeen DEF Allowed

LEMMA AnsweredAllowed ==
    ASSUME RInv, SInv', NEW fd \in DOMAIN clients, Receive(fd),
           \A f \in DOMAIN clients : fdt'[f].of = fdt[f].of,
           NEW c \in Fed(clients[fd]), NEW what \in {"page", "500"},
           clients' = [clients EXCEPT ![fd] = Respond(c, what)]
    PROVE  Attended' /\ Allowed
<1>1. ViewOf(Respond(c, what)) = <<"answering", what, RespSize>>
  BY ReceiveStarts, FedType, RespondView DEF RInv, SInv
<1>2. /\ Attended'
      /\ \E p \in Peer : View(p) = Without("receiving")
                         /\ Promise!Become(p, "answering", what, RespSize)
  BY <1>1, ReceiveSeen
<1>3. \E p \in Peer : Promise!AnswerAtOnce(p)
  BY <1>2 DEF Promise!AnswerAtOnce, View, Without
<1> QED
  BY <1>2, <1>3 DEF Allowed, Promise!Next

LEMMA ProcessStaticAllowed ==
    ASSUME RInv, SInv', NEW fd \in DOMAIN clients, ProcessStatic(fd)
    PROVE  Attended' /\ Allowed
<1>1. Receive(fd) /\ UNCHANGED fdt
  BY DEF ProcessStatic
<1>2. PICK c \in Fed(clients[fd]) : clients' = [clients EXCEPT ![fd] = Respond(c, "page")]
  BY DEF ProcessStatic
<1> QED
  BY <1>1, <1>2, AnsweredAllowed

LEMMA LaunchFailsAllowed ==
    ASSUME RInv, SInv', NEW fd \in DOMAIN clients, LaunchFails(fd)
    PROVE  Attended' /\ Allowed
<1>1. Receive(fd) /\ (UNCHANGED fdt \/ LeakPipe)
  BY DEF LaunchFails
<1>2. PICK c \in Fed(clients[fd]) : clients' = [clients EXCEPT ![fd] = Respond(c, "500")]
  BY DEF LaunchFails
<1>3. ASSUME LeakPipe, NEW f \in DOMAIN clients PROVE fdt'[f].of = fdt[f].of
  <2>1. PICK a \in Free, b \in Free :
           fdt' = [fdt EXCEPT ![a] = [kind |-> "rd", of |-> None],
                              ![b] = [kind |-> "wr", of |-> None]]
    BY <1>3 DEF LeakPipe
  <2>2. f \notin {a, b} /\ f \in Fd
    BY FreeIsUnused DEF RInv, SInv, IInv, Objects
  <2>3. fdt \in [Fd -> DescriptorType]
    BY DEF RInv, SInv, IInv, Objects
  <2> HIDE DEF DescriptorType
  <2> QED
    BY <2>1, <2>2, <2>3
<1> QED
  BY <1>1, <1>2, <1>3, AnsweredAllowed

LEMMA LaunchAllowed ==
    ASSUME RInv, SInv', NEW fd \in DOMAIN clients, Launch(fd)
    PROVE  Attended' /\ Allowed
<1>1. PICK c \in Fed(clients[fd]), pid \in Pid, rd \in Free, wr \in Free :
         /\ clients' = [clients EXCEPT ![fd] = Launched(c, pid, rd, wr)]
         /\ \/ fdt' = [fdt EXCEPT ![rd] = [kind |-> "rd", of |-> pid]]
            \/ fdt' = [[fdt EXCEPT ![rd] = [kind |-> "rd", of |-> pid]] EXCEPT
                          ![wr] = [kind |-> "wr", of |-> pid]]
  BY LaunchFacts
<1>2. Receive(fd)
  BY DEF Launch
<1> DEFINE d == Launched(c, pid, rd, wr)
<1>3. ViewOf(d) = Without("working")
  <2>1. c \in ClientType /\ ~c.responseReady
    BY <1>1, <1>2, ReceiveStarts, FedAlike, FedType DEF RInv, SInv
  <2>2. d.cgiRunning /\ ~d.responseReady
    BY <2>1, LaunchedRuns
  <2> QED
    BY <2>2 DEF ViewOf, PhaseOf, Without
<1>4. clients' = [clients EXCEPT ![fd] = d]
  BY <1>1
<1> HIDE DEF d
<1>5. \A f \in DOMAIN clients : fdt'[f].of = fdt[f].of
  <2>1. rd \notin DOMAIN clients /\ wr \notin DOMAIN clients
    BY FreeIsUnused DEF RInv, SInv
  <2>2. fdt \in [Fd -> DescriptorType] /\ DOMAIN clients \subseteq Fd
    BY DEF RInv, SInv, IInv, Objects
  <2> HIDE DEF DescriptorType
  <2> QED
    BY <1>1, <2>1, <2>2
<1>6. /\ Attended'
      /\ \E p \in Peer : View(p) = Without("receiving")
                         /\ Promise!Become(p, "working", "none", 0)
  BY <1>2, <1>3, <1>4, <1>5, ReceiveSeen DEF Without
<1>7. \E p \in Peer : Promise!BeginWork(p)
  BY <1>6 DEF Promise!BeginWork, View, Without
<1> QED
  BY <1>6, <1>7 DEF Allowed, Promise!Next

-----------------------------------------------------------------------------
(* Writing, and the scripts' pipes.                                        *)

LEMMA WritePartAllowed ==
    ASSUME RInv, SInv', NEW fd \in DOMAIN clients, WritePart(fd)
    PROVE  Attended' /\ Allowed
<1>1. Writable(fd) /\ UNCHANGED fdt /\ clients[fd].responseReady
  BY DEF WritePart, Send, Writable
<1>2. PICK n \in 1..(clients[fd].unsent - 1) :
         clients' = [clients EXCEPT ![fd] = Sent(clients[fd], n)]
  BY DEF WritePart
<1>3. clients[fd] \in ClientType /\ clients[fd].unsent \in Nat
  <2>1. clients[fd] \in ClientType
    BY <1>1, WritingFacts DEF RInv
  <2> QED
    BY <2>1, SizesAreNatural DEF ClientType
<1>4. ViewOf(clients[fd]) = <<"answering", clients[fd].answer, clients[fd].unsent>>
  BY <1>1, <1>3, ViewsOf
<1>5. ViewOf(Sent(clients[fd], n)) = <<"answering", clients[fd].answer, clients[fd].unsent - n>>
  BY <1>1, <1>3, SentView
<1>6. SameConnections
  <2>1. peer' = [peer EXCEPT ![fdt[fd].of].room = FALSE]
    BY DEF WritePart
  <2>2. peer \in [Peer -> PeerType]
    BY DEF RInv, SInv, IInv, World
  <2>3. \A p \in Peer : peer'[p].st = peer[p].st
    BY <2>1, <2>2 DEF PeerType
  <2> QED
    BY <1>1, <1>2, <2>3 DEF SameConnections
<1>7. /\ Attended'
      /\ \E p \in Peer :
            /\ View(p) = ViewOf(clients[fd])
            /\ Promise!Become(p, "answering", clients[fd].answer, clients[fd].unsent - n)
  BY <1>2, <1>5, <1>6, OneSeen
<1>8. clients[fd].unsent - n \in 1..(clients[fd].unsent - 1)
  BY <1>2, <1>3
<1>9. \E p \in Peer : Promise!Send(p)
  BY <1>4, <1>7, <1>8 DEF Promise!Send, View
<1> QED
  BY <1>7, <1>9 DEF Allowed, Promise!Next

LEMMA WriteLastAllowed ==
    ASSUME RInv, SInv', NEW fd \in DOMAIN clients, WriteLast(fd)
    PROVE  Attended' /\ Allowed
<1>1. Writable(fd) /\ UNCHANGED <<fdt, peer>> /\ clients[fd].responseReady
  BY DEF WriteLast, Send, Writable, world
<1>2. clients' = [clients EXCEPT ![fd] = NewClient]
  BY ResetType DEF WriteLast
<1>3. ViewOf(clients[fd]) = <<"answering", clients[fd].answer, clients[fd].unsent>>
  BY <1>1, WritingFacts, ViewsOf DEF RInv
<1>4. SameConnections
  BY <1>1, <1>2 DEF SameConnections
<1>5. ViewOf(NewClient) = <<"receiving", "none", 0>>
  BY NewClientView DEF Without
<1>6. /\ Attended'
      /\ \E p \in Peer :
            View(p) = ViewOf(clients[fd]) /\ Promise!Become(p, "receiving", "none", 0)
  BY <1>2, <1>4, <1>5, OneSeen
<1>7. \E p \in Peer : Promise!Finish(p)
  BY <1>3, <1>6 DEF Promise!Finish, View
<1> QED
  BY <1>6, <1>7 DEF Allowed, Promise!Next

LEMMA PipeStepAllowed ==
    ASSUME RInv, SInv', NEW c \in DOMAIN clients, HandlePipe(c)
    PROVE  Attended' /\ Allowed
<1>1. /\ \A f \in DOMAIN clients : fdt'[f].of = fdt[f].of
      /\ UNCHANGED peer
  <2>1. AtOutputPipe(c) \/ AtBodyPipe(c)
    BY DEF HandlePipe, HandleCGIRead, CGIEndOfFile, BodyRefused, HandleCGIWrite, BodyPipeReady
  <2>2. UNCHANGED fdt \/ fdt' = Close(fdt, {Entry.fd})
    BY DEF HandlePipe, HandleCGIRead, CGIEndOfFile, BodyRefused, HandleCGIWrite, CloseBodyPipe
  <2>3. Entry.fd \notin DOMAIN clients /\ DOMAIN clients \subseteq Fd
    BY <2>1, PipeAt DEF RInv, SInv, IInv, Tables, Objects
  <2>4. UNCHANGED peer
    BY DEF HandlePipe, HandleCGIRead, CGIEndOfFile, BodyRefused, HandleCGIWrite
  <2> QED
    BY <2>2, <2>3, <2>4 DEF Close
<1>2. \/ UNCHANGED clients
      \/ clients' = [clients EXCEPT ![c] = [clients[c] EXCEPT !.cgiOutput = TRUE]]
      \/ clients' = [clients EXCEPT ![c] = BodyDone(clients[c])]
      \/ \E n : clients' = [clients EXCEPT ![c] = [clients[c] EXCEPT !.bodyLeft = @ - n]]
  BY DEF HandlePipe, HandleCGIRead, CGIEndOfFile, BodyRefused, HandleCGIWrite, CloseBodyPipe
<1>3. clients[c] \in ClientType
  BY ClientAt DEF RInv, SInv
<1>4. UNCHANGED clients
      \/ \E d : clients' = [clients EXCEPT ![c] = d] /\ ViewOf(d) = ViewOf(clients[c])
  BY <1>2, <1>3, PipeView
<1>5. DOMAIN clients' = DOMAIN clients /\ \A f \in DOMAIN clients : ~Changes(f)
  BY <1>4 DEF Changes
<1> QED
  BY <1>1, <1>5, NothingSeen DEF SameConnections, Allowed

\* A script has ended or has been given up, and the answer is ready.
LEMMA ScriptAnswered ==
    ASSUME RInv, SInv', SameConnections, NEW fd \in DOMAIN clients, clients[fd].cgiRunning,
           NEW c, clients' = [clients EXCEPT ![fd] = c],
           NEW what \in {"output", "500", "504"}, ViewOf(c) = <<"answering", what, RespSize>>
    PROVE  Attended' /\ Allowed
<1>1. ViewOf(clients[fd]) = Without("working")
  BY ClientAt, ViewsOf DEF RInv, SInv, Exchanges, Alternates
<1>2. /\ Attended'
      /\ \E p \in Peer :
            View(p) = ViewOf(clients[fd]) /\ Promise!Become(p, "answering", what, RespSize)
  BY OneSeen
<1>3. \E p \in Peer : Promise!AnswerForScript(p)
  BY <1>1, <1>2 DEF Promise!AnswerForScript, View, Without
<1> QED
  BY <1>2, <1>3 DEF Allowed, Promise!Next

\* Closing and burying leave the sockets of the clients that stay.
LEMMA BuriedOf ==
    ASSUME RInv, SInv', NEW D, NEW S, fdt' = Bury(Close(fdt, D), S),
           NEW f \in DOMAIN clients', f \in Fd
    PROVE  fdt'[f].of = fdt[f].of
<1> DEFINE t == Close(fdt, D)
<1>1. t \in [Fd -> DescriptorType]
  BY CloseType DEF RInv, SInv, IInv, Objects
<1>2. t[f] = IF f \in D THEN Closed ELSE fdt[f]
  BY DEF Close
<1>3. fdt'[f] = IF t[f].of \in S THEN [t[f] EXCEPT !.of = None] ELSE t[f]
  BY DEF Bury
<1> HIDE DEF t
<1>4. [t[f] EXCEPT !.of = None].of = None
  <2>1. t[f] \in DescriptorType
    BY <1>1
  <2> QED
    BY <2>1 DEF DescriptorType
<1>5. Closed.of = None
  BY DEF Closed
<1>6. fdt'[f].of \in {fdt[f].of, None}
  BY <1>2, <1>3, <1>4, <1>5
<1> QED
  BY <1>6, OfKept

LEMMA WaitpidAllowed ==
    ASSUME RInv, SInv', WaitpidReturns
    PROVE  Attended' /\ Allowed
<1>1. /\ pc = "waitpid"
      /\ fdt' = Bury(fdt, {clients[cur].cgiPid})
      /\ clients' = [clients EXCEPT ![cur] = Finished(clients[cur])]
      /\ UNCHANGED peer
  BY DEF WaitpidReturns
<1>2. cur \in DOMAIN clients /\ clients[cur].cgiRunning
  BY <1>1 DEF RInv, SInv, IInv, Memory, Running
<1>3. Close(fdt, {}) = fdt /\ DOMAIN clients \subseteq Fd
  BY DEF Close, RInv, SInv, IInv, Objects
<1>4. \A f \in DOMAIN clients : fdt'[f].of = fdt[f].of
  BY <1>1, <1>3, BuriedOf
<1>5. SameConnections
  BY <1>1, <1>4 DEF SameConnections
<1>6. \E what \in {"output", "500", "504"} :
         ViewOf(Finished(clients[cur])) = <<"answering", what, RespSize>>
  BY <1>2, ClientAt, EndedView DEF RInv, SInv
<1> QED
  BY <1>1, <1>2, <1>5, <1>6, ScriptAnswered

LEMMA GatewayTimeoutAllowed ==
    ASSUME RInv, SInv', NEW fd, GatewayTimeout(fd)
    PROVE  Attended' /\ Allowed
<1>1. /\ pc = "purge" /\ fd \in hung
      /\ fdt' = Bury(Close(fdt, {clients[fd].cgiFd, clients[fd].cgiWriteFd}),
                     {clients[fd].cgiPid})
      /\ clients' = [clients EXCEPT ![fd] = GivenUp(clients[fd])]
      /\ UNCHANGED peer
  BY DEF GatewayTimeout, Least
<1>2. fd \in DOMAIN clients /\ clients[fd].cgiRunning /\ DOMAIN clients \subseteq Fd
  BY <1>1 DEF RInv, SInv, IInv, Memory, Running, Objects
<1>3. \A f \in DOMAIN clients : fdt'[f].of = fdt[f].of
  BY <1>1, <1>2, BuriedOf
<1>4. SameConnections
  BY <1>1, <1>3 DEF SameConnections
<1>5. ViewOf(GivenUp(clients[fd])) = <<"answering", "504", RespSize>>
  BY <1>2, ClientAt, EndedView DEF RInv, SInv
<1> QED
  BY <1>1, <1>2, <1>4, <1>5, ScriptAnswered

-----------------------------------------------------------------------------
(* Removals.                                                               *)

LEMMA RemovalAllowed ==
    ASSUME RInv, SInv', NEW fd \in Fd, RemoveClient(fd)
    PROVE  Attended' /\ Allowed
<1>1. /\ clients' = WithoutClient(fd)
      /\ fdt' = Bury(Close(fdt, Descriptors(fd)), RunningOf(fd))
      /\ peer' = Left(PeersAt(fd))
  BY DEF RemoveClient
<1>2. /\ DOMAIN clients' = DOMAIN clients \ {fd}
      /\ \A f \in DOMAIN clients' : clients'[f] = clients[f]
  BY <1>1 DEF WithoutClient
<1>3. DOMAIN clients \subseteq Fd
  BY DEF RInv, SInv, IInv, Objects
<1>4. \A f \in DOMAIN clients' : fdt'[f].of = fdt[f].of
  BY <1>1, <1>2, <1>3, BuriedOf
<1>5. CASE fd \notin DOMAIN clients
  <2>1. PeersAt(fd) = {}
    BY <1>5 DEF PeersAt, RInv, SInv, Visitors
  <2>2. \A q \in Peer : peer'[q] = peer[q]
    BY <1>1, <2>1 DEF Left
  <2>3. SameConnections /\ \A f \in DOMAIN clients : ~Changes(f)
    BY <1>2, <1>4, <1>5, <2>2 DEF SameConnections, Changes
  <2> QED
    BY <2>3, NothingSeen DEF Allowed
<1>6. CASE fd \in DOMAIN clients
  <2> PICK p : p = fdt[fd].of
    OBVIOUS
  <2>1. p \in Peer /\ peer[p].st = "open" /\ PeersAt(fd) = {p}
    BY <1>6 DEF PeersAt, RInv, SInv, Visitors
  <2>2. peer'[p].st = "away" /\ \A q \in Peer \ {p} : peer'[q] = peer[q]
    BY <1>1, <2>1 DEF Left, Away
  <2>3. View(p)' = Without("away")
    BY <2>2, ViewElse
  <2>4. View(p) = ViewOf(clients[fd])
    BY <1>6, ViewAt DEF RInv, SInv
  <2>5. ASSUME NEW q \in Peer \ {p}, NEW f \in DOMAIN clients, fdt[f].of = q
        PROVE  f \in DOMAIN clients' /\ View(q)' = View(q)
    <3>1. f \in DOMAIN clients' /\ fdt'[f].of = q /\ clients'[f] = clients[f]
      BY <1>2, <1>4, <2>5
    <3> QED
      BY <2>5, <3>1, ViewAt, ViewAtNext DEF RInv, SInv
  <2>6. \A q \in Peer \ {p} : peer[q].st # "open" => View(q)' = View(q)
    BY <2>2, ViewElse
  <2>7. \A q \in Peer \ {p} : View(q)' = View(q)
    BY <2>5, <2>6 DEF RInv, Attended
  <2>8. Attended'
    BY <1>4, <2>2, <2>5 DEF RInv, Attended
  <2>9. Promise!Become(p, "away", "none", 0)
    BY <2>1, <2>3, <2>7, Becomes DEF Without
  <2>10. Phase(p) \in {"receiving", "working", "answering"}
    BY <2>4 DEF View, ViewOf, PhaseOf
  <2>11. Promise!Drop(p)
    BY <2>1, <2>9, <2>10 DEF Promise!Drop, Promise!Served
  <2> QED
    BY <2>1, <2>8, <2>11 DEF Allowed, Promise!Next
<1> QED
  BY <1>5, <1>6

LEMMA SocketStepAllowed ==
    ASSUME RInv, SInv', NEW fd \in DOMAIN clients, HandleClient(fd)
    PROVE  Attended' /\ Allowed
<1>1. CASE ReadClosed(fd) \/ WriteFails(fd) \/ WriteLastAndClose(fd)
  <2>1. RemoveClient(fd)
    BY <1>1 DEF ReadClosed, WriteFails, WriteLastAndClose, RemoveInPass
  <2>2. fd \in Fd
    BY DEF RInv, SInv, IInv, Objects
  <2> QED
    BY <2>1, <2>2, RemovalAllowed
<1> QED
  BY <1>1, ReadPartAllowed, ProcessStaticAllowed, LaunchFailsAllowed, LaunchAllowed,
     WritePartAllowed, WriteLastAllowed
  DEF HandleClient

LEMMA HangUpAllowed ==
    ASSUME RInv, SInv', HangUp
    PROVE  Attended' /\ Allowed
<1>1. pc = "pass" /\ RemoveClient(Entry.fd)
  BY DEF HangUp, AtSocket, RemoveInPass
<1>2. Entry.fd \in Fd
  <2>1. i \in DOMAIN pollfds
    BY <1>1 DEF RInv, SInv, IInv, Place
  <2> QED
    BY <2>1, WatchedInFd DEF Entry, Watched, RInv, SInv, IInv, Vector
<1> QED
  BY <1>1, <1>2, RemovalAllowed

-----------------------------------------------------------------------------
(* The listening sockets.                                                  *)

LEMMA SameCardinality == \A S : Promise!Cardinality(S) = Cardinality(S)
  BY DEF Promise!Cardinality, Cardinality

\* There are as many clients as connections served.
LEMMA AsManyServed ==
    ASSUME RInv
    PROVE  Promise!Cardinality(Promise!Served) = Cardinality(DOMAIN clients)
<1> DEFINE S == DOMAIN clients
           T == Promise!Served
           b == [f \in S |-> fdt[f].of]
<1>1. ASSUME NEW p \in Peer PROVE p \in T <=> peer[p].st = "open"
  <2>1. p \in T <=> Phase(p) \in {"receiving", "working", "answering"}
    BY DEF Promise!Served
  <2>2. PhaseOf(Some(ClientsOf(p))) \in {"receiving", "working", "answering"}
    BY DEF PhaseOf
  <2>3. peer[p].st \in {"away", "queued", "open"}
    BY DEF RInv, Attended
  <2> QED
    BY <2>1, <2>2, <2>3 DEF Phase
<1>2. T \subseteq Peer
  BY DEF Promise!Served
<1>3. \A f \in S : fdt[f].of \in T
  BY <1>1 DEF RInv, SInv, Visitors
<1>4. \A p \in T : \E f \in S : fdt[f].of = p
  BY <1>1, <1>2 DEF RInv, Attended
<1>5. \A f, g \in S : fdt[f].of = fdt[g].of => f = g
  BY DEF RInv, SInv, Visitors
<1>6. IsFiniteSet(S)
  <2>1. IsFiniteSet(Fd)
    BY LimitsAreNatural, FS_Interval DEF Fd
  <2> QED
    BY <2>1, FS_Subset DEF RInv, SInv, IInv, Objects
<1> HIDE DEF S, T
<1>7. b \in [S -> T] /\ \A f \in S : b[f] = fdt[f].of
  BY <1>3
<1> HIDE DEF b
<1>8. b \in Injection(S, T)
  BY <1>5, <1>7 DEF Injection, IsInjective
<1>9. b \in Surjection(S, T)
  BY <1>4, <1>7 DEF Surjection
<1>10. ExistsBijection(S, T)
  BY <1>8, <1>9 DEF Bijection, ExistsBijection
<1> QED
  BY <1>6, <1>10, FS_Bijection, SameCardinality DEF S, T

LEMMA ClientsAreCounted ==
    ASSUME RInv
    PROVE  /\ Cardinality(DOMAIN clients) \in Nat
           /\ Cardinality(DOMAIN clients) <= MaxClients
<1>1. IsFiniteSet(Fd)
  BY LimitsAreNatural, FS_Interval DEF Fd
<1> QED
  BY <1>1, FS_Subset, FS_CardinalityType DEF RInv, SInv, IInv, Objects, ClientsBounded

LEMMA TurnAwayAllowed ==
    ASSUME RInv, SInv', TurnAway
    PROVE  Attended' /\ Allowed
<1> PICK lfd : lfd = Entry.fd
  OBVIOUS
<1> PICK p : p = Head(backlog[lfd])
  OBVIOUS
<1>1. /\ AtListener /\ TooManyClients
      /\ backlog' = [backlog EXCEPT ![lfd] = Tail(backlog[lfd])]
      /\ peer' = Left({p})
      /\ UNCHANGED <<clients, fdt>>
  BY DEF TurnAway
<1>2. lfd \in ListenFds /\ backlog[lfd] # <<>>
  BY <1>1, ListenerReady DEF RInv
<1>3. \A q \in Peer : q # p => peer'[q] = peer[q]
  BY <1>1 DEF Left
<1>4. p \in Peer /\ peer[p].st = "queued"
  BY <1>1, <1>2, <1>3, QueueTaken DEF RInv
<1>5. peer'[p].st = "away"
  BY <1>1, <1>4 DEF Left, Away
<1>6. View(p) = Without("queued") /\ View(p)' = Without("away")
  BY <1>4, <1>5, ViewElse
<1>7. \A q \in Peer \ {p} : View(q)' = View(q)
  <2> SUFFICES ASSUME NEW q \in Peer \ {p} PROVE View(q)' = View(q)
    OBVIOUS
  <2>1. peer'[q] = peer[q]
    BY <1>3
  <2> QED
    BY <1>1, <2>1 DEF View, Phase, IsAnswered, ClientsOf
<1>8. Attended'
  BY <1>1, <1>3, <1>5 DEF RInv, Attended
<1>9. Promise!Become(p, "away", "none", 0)
  BY <1>4, <1>6, <1>7, Becomes DEF Without
<1>10. Promise!Cardinality(Promise!Served) = MaxClients
  BY <1>1, AsManyServed, ClientsAreCounted, LimitsAreNatural DEF TooManyClients
<1>11. Promise!TurnAway(p)
  BY <1>4, <1>6, <1>9, <1>10 DEF Promise!TurnAway, View, Without
<1> QED
  BY <1>4, <1>8, <1>11 DEF Allowed, Promise!Next

LEMMA AcceptConnectionAllowed ==
    ASSUME RInv, SInv', AcceptConnection
    PROVE  Attended' /\ Allowed
<1> PICK lfd : lfd = Entry.fd
  OBVIOUS
<1> PICK p : p = Head(backlog[lfd])
  OBVIOUS
<1>1. PICK fd \in Free :
          /\ backlog' = [backlog EXCEPT ![lfd] = Tail(backlog[lfd])]
          /\ peer' = [peer EXCEPT ![p].st = "open"]
          /\ fdt' = [fdt EXCEPT ![fd] = [kind |-> "sock", of |-> p]]
          /\ clients' = WithClient(fd, NewClient)
  BY DEF AcceptConnection
<1>2. AtListener /\ ~TooManyClients
  BY DEF AcceptConnection
<1>3. lfd \in ListenFds /\ backlog[lfd] # <<>>
  BY <1>2, ListenerReady DEF RInv
<1>4. peer \in [Peer -> PeerType] /\ fdt \in [Fd -> DescriptorType] /\ DOMAIN clients \subseteq Fd
  BY DEF RInv, SInv, IInv, World, Objects
<1>5. \A q \in Peer : q # p => peer'[q] = peer[q]
  BY <1>1, <1>4
<1>6. p \in Peer /\ peer[p].st = "queued"
  BY <1>1, <1>3, <1>5, QueueTaken DEF RInv
<1>7. peer'[p].st = "open"
  BY <1>1, <1>4, <1>6 DEF PeerType
<1>8. fd \in Fd /\ fd \notin DOMAIN clients
  BY FreeIsUnused DEF RInv, SInv
<1>9. fdt'[fd].of = p /\ \A f \in Fd \ {fd} : fdt'[f] = fdt[f]
  <2> HIDE DEF DescriptorType
  <2> QED
    BY <1>1, <1>4, <1>8
<1>10. /\ DOMAIN clients' = DOMAIN clients \cup {fd}
       /\ clients'[fd] = NewClient
       /\ \A f \in DOMAIN clients : clients'[f] = clients[f]
  BY <1>1, <1>8 DEF WithClient
<1>11. \A f \in DOMAIN clients : fdt'[f].of = fdt[f].of
  BY <1>4, <1>8, <1>9
<1>12. View(p) = Without("queued")
  BY <1>6, ViewElse
<1>13. View(p)' = Without("receiving")
  BY <1>9, <1>10, ViewAtNext, NewClientView DEF SInv
<1>14. ASSUME NEW q \in Peer \ {p}, NEW f \in DOMAIN clients, fdt[f].of = q
       PROVE  View(q)' = View(q)
  <2>1. f \in DOMAIN clients' /\ fdt'[f].of = q /\ clients'[f] = clients[f]
    BY <1>10, <1>11, <1>14
  <2> QED
    BY <1>14, <2>1, ViewAt, ViewAtNext DEF RInv, SInv
<1>15. \A q \in Peer \ {p} : peer[q].st # "open" => View(q)' = View(q)
  BY <1>5, ViewElse
<1>16. \A q \in Peer \ {p} : View(q)' = View(q)
  BY <1>14, <1>15 DEF RInv, Attended
<1>17. Attended'
  BY <1>5, <1>7, <1>9, <1>10, <1>11 DEF RInv, Attended
<1>18. Promise!Become(p, "receiving", "none", 0)
  BY <1>6, <1>13, <1>16, Becomes DEF Without
<1>19. Promise!Cardinality(Promise!Served) < MaxClients
  BY <1>2, AsManyServed, ClientsAreCounted, LimitsAreNatural DEF TooManyClients
<1>20. Promise!Accept(p)
  BY <1>6, <1>12, <1>18, <1>19 DEF Promise!Accept, View, Without
<1> QED
  BY <1>6, <1>17, <1>20 DEF Allowed, Promise!Next

-----------------------------------------------------------------------------
(* The peers, the scripts, the clock and the end.                          *)

LEMMA PeerStepAllowed ==
    ASSUME RInv, SInv', PeerStep, UNCHANGED server
    PROVE  Attended' /\ Allowed
<1>1. UNCHANGED <<clients, fdt>>
  BY DEF server
<1>2. PICK p \in Peer :
         PeerConnect(p) \/ PeerSend(p) \/ PeerFin(p) \/ PeerReset(p) \/ PeerDrain(p)
  BY DEF PeerStep
<1>3. peer \in [Peer -> PeerType]
  BY DEF RInv, SInv, IInv, World
<1>4. CASE PeerSend(p) \/ PeerFin(p) \/ PeerReset(p) \/ PeerDrain(p)
  <2>1. \A q \in Peer : peer'[q].st = peer[q].st
    BY <1>3, <1>4 DEF PeerSend, PeerFin, PeerReset, PeerDrain, PeerType
  <2>2. SameConnections /\ \A f \in DOMAIN clients : ~Changes(f)
    BY <1>1, <2>1 DEF SameConnections, Changes
  <2> QED
    BY <2>2, NothingSeen DEF Allowed
<1>5. CASE PeerConnect(p)
  <2>1. peer[p].st = "away" /\ peer' = [peer EXCEPT ![p].st = "queued"]
    BY <1>5 DEF PeerConnect
  <2>2. peer'[p].st = "queued" /\ \A q \in Peer \ {p} : peer'[q] = peer[q]
    BY <1>3, <2>1 DEF PeerType
  <2>3. View(p) = Without("away") /\ View(p)' = Without("queued")
    BY <2>1, <2>2, ViewElse
  <2>4. \A q \in Peer \ {p} : View(q)' = View(q)
    <3> SUFFICES ASSUME NEW q \in Peer \ {p} PROVE View(q)' = View(q)
      OBVIOUS
    <3>1. peer'[q] = peer[q]
      BY <2>2
    <3> QED
      BY <1>1, <3>1 DEF View, Phase, IsAnswered, ClientsOf
  <2>5. Attended'
    BY <1>1, <2>2 DEF RInv, Attended
  <2>6. Promise!Become(p, "queued", "none", 0)
    BY <2>3, <2>4, Becomes DEF Without
  <2>7. Promise!Connect(p)
    BY <2>3, <2>6 DEF Promise!Connect, View, Without
  <2> QED
    BY <2>5, <2>7 DEF Allowed, Promise!Next
<1> QED
  BY <1>2, <1>4, <1>5

LEMMA TickAllowed ==
    ASSUME RInv, SInv', Tick
    PROVE  Attended' /\ Allowed
<1>1. clients' = [f \in DOMAIN clients |-> Older(clients[f])] /\ UNCHANGED <<fdt, peer>>
  BY DEF Tick
<1>2. \A f \in DOMAIN clients : ViewOf(Older(clients[f])) = ViewOf(clients[f])
  BY ClientAt, OlderView DEF RInv, SInv
<1>3. DOMAIN clients' = DOMAIN clients /\ \A f \in DOMAIN clients : ~Changes(f)
  BY <1>1, <1>2 DEF Changes
<1> QED
  BY <1>1, <1>3, NothingSeen DEF SameConnections, Allowed

LEMMA StopAllowed ==
    ASSUME RInv, Stop
    PROVE  Attended' /\ Allowed
<1>1. \A p \in Peer : peer'[p].st = "away"
  BY DEF Stop, Away
<1>2. \A p \in Peer : View(p)' = Without("away")
  BY <1>1, ViewElse
<1>3. Promise!Stop
  BY <1>2 DEF Promise!Stop, View, Without
<1> QED
  BY <1>1, <1>3 DEF Attended, Allowed, Promise!Next

-----------------------------------------------------------------------------
(* The theorem.                                                            *)

LEMMA NextAllowed ==
    ASSUME RInv, SInv', [Next]_vars
    PROVE  Attended' /\ Allowed
<1>1. CASE \/ Poll \/ AcceptFails \/ IgnoreOrphan \/ CheckTimeouts \/ UNCHANGED vars
           \/ ScriptStep /\ UNCHANGED server
  <2>1. UNCHANGED <<clients, fdt, peer>>
    BY <1>1
    DEF Poll, AcceptFails, IgnoreOrphan, CheckTimeouts, PassOver, ScriptStep, world, server, vars
  <2>2. SameConnections /\ \A f \in DOMAIN clients : ~Changes(f)
    BY <2>1 DEF SameConnections, Changes
  <2> QED
    BY <2>2, NothingSeen DEF Allowed
<1>2. ASSUME NEW fd \in Fd, DropIdle(fd) PROVE Attended' /\ Allowed
  BY <1>2, RemovalAllowed DEF DropIdle
<1> QED
  BY <1>1, <1>2, SocketStepAllowed, PipeStepAllowed, GatewayTimeoutAllowed, HangUpAllowed,
     TurnAwayAllowed, AcceptConnectionAllowed, WaitpidAllowed, PeerStepAllowed, TickAllowed,
     StopAllowed
  DEF Next, Loop, Environment, Terminated

LEMMA StartsAllowed == Init => Attended /\ Promise!Init
<1> SUFFICES ASSUME Init PROVE Attended /\ Promise!Init
  OBVIOUS
<1>1. \A p \in Peer : peer[p].st = "away"
  BY DEF Init, Away
<1>2. \A p \in Peer : View(p) = Without("away")
  BY <1>1, ViewElse
<1> QED
  BY <1>1, <1>2 DEF Attended, Promise!Init, View, Without

\* While peers wait for their answers, whatever the event loop does with its
\* descriptors, its pipes and its processes, each connection goes through what
\* module Exchange promises a browser, one connection at a step: accepted while
\* there is room and turned away only when there is none, its requests answered
\* one after the other, each by one reply of the kind it calls for.
THEOREM LoopKeepsItsPromise ==
    ASSUME SendAhead = FALSE
    PROVE  Spec => ImplementsSteps
<1>1. Init => Attended /\ Promise!Init
  BY StartsAllowed
<1>2. SInv /\ SInv' /\ ClientsBounded /\ Attended /\ [Next]_vars => Attended' /\ [Allowed]_vars
  BY NextAllowed DEF RInv
<1>3. Spec => []SInv /\ []ClientsBounded
  BY SInvHolds, ClientsStayBounded
<1>4. Spec => Promise!Init /\ [][Allowed]_vars
  BY <1>1, <1>2, <1>3, PTL DEF Spec
<1> QED
  BY <1>4 DEF ImplementsSteps, Allowed
=============================================================================
