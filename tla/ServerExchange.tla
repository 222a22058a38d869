--------------------------- MODULE ServerExchange ---------------------------
(***************************************************************************)
(* Module Server implements module Exchange: the refinement mapping.       *)
(***************************************************************************)
EXTENDS Server

\* The Client of a peer whose connection has been accepted.
ClientsOf(p) == {clients[fd] : fd \in {g \in DOMAIN clients : fdt[g].of = p}}
Some(S) == CHOOSE c \in S : TRUE

PhaseOf(c) ==
    IF c.responseReady THEN "answering" ELSE IF c.cgiRunning THEN "working" ELSE "receiving"

Phase(p) ==
    IF peer[p].st = "open" THEN PhaseOf(Some(ClientsOf(p))) ELSE peer[p].st

IsAnswered(p) == peer[p].st = "open" /\ Some(ClientsOf(p)).responseReady

Promise == INSTANCE Exchange WITH
    Capacity <- MaxClients,
    Size     <- RespSize,
    phase    <- [p \in Peer |-> Phase(p)],
    reply    <- [p \in Peer |-> IF IsAnswered(p) THEN Some(ClientsOf(p)).answer ELSE "none"],
    left     <- [p \in Peer |-> IF IsAnswered(p) THEN Some(ClientsOf(p)).unsent ELSE 0]

\* With its descriptors, pipes, processes and the pass over _pollfds, the
\* event loop does to each browser what module Exchange allows and nothing
\* else: no handler touches another connection than its own, nobody is turned
\* away while there is room, a reply is of the kind the request calls for and
\* is begun only once the one before it has ended.
ImplementsSteps == Promise!Init /\ [][UNCHANGED Promise!vars \/ Promise!Next]_vars

\* The same, and every connection moves on: out of the backlog, out of the
\* wait for its script and out of the sending of its reply.
Implements == Promise!Spec
=============================================================================
