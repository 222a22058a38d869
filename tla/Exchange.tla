------------------------------ MODULE Exchange ------------------------------
(***************************************************************************)
(* What the server promises each browser, without descriptors, poll sets,  *)
(* pipes or processes: a connection waits to be accepted, and then its     *)
(* requests are answered one after the other, each by one whole reply.     *)
(* A step concerns one connection; only a shutdown ends them all.          *)
(* Module ServerExchange shows that module Server implements this.         *)
(***************************************************************************)
EXTENDS Integers, FiniteSets

CONSTANTS
    Peer,       \* the browsers
    Capacity,   \* connections served at a time
    Size        \* pieces in a reply

VARIABLES
    phase,   \* where each connection is: see Phases
    reply,   \* what each connection is being answered with
    left     \* pieces of that reply still to be sent

vars == <<phase, reply, left>>

Phases == {"away", "queued", "receiving", "working", "answering"}
Served == {p \in Peer : phase[p] \in {"receiving", "working", "answering"}}

Init ==
    /\ phase = [p \in Peer |-> "away"]
    /\ reply = [p \in Peer |-> "none"]
    /\ left = [p \in Peer |-> 0]

Become(p, ph, what, n) ==
    /\ phase' = [phase EXCEPT ![p] = ph]
    /\ reply' = [reply EXCEPT ![p] = what]
    /\ left' = [left EXCEPT ![p] = n]

Connect(p) == phase[p] = "away" /\ Become(p, "queued", "none", 0)

Accept(p) ==
    /\ phase[p] = "queued"
    /\ Cardinality(Served) < Capacity
    /\ Become(p, "receiving", "none", 0)

\* Nobody is turned away while there is room.
TurnAway(p) ==
    /\ phase[p] = "queued"
    /\ Cardinality(Served) = Capacity
    /\ Become(p, "away", "none", 0)

\* A request is complete, and needs a script ...
BeginWork(p) == phase[p] = "receiving" /\ Become(p, "working", "none", 0)

\* ... or none, or the script could not be started.
AnswerAtOnce(p) ==
    /\ phase[p] = "receiving"
    /\ \E what \in {"page", "500"} : Become(p, "answering", what, Size)

\* The script has ended, or has been given up.
AnswerForScript(p) ==
    /\ phase[p] = "working"
    /\ \E what \in {"output", "500", "504"} : Become(p, "answering", what, Size)

Send(p) ==
    /\ phase[p] = "answering"
    /\ \E n \in 1..(left[p] - 1) : Become(p, "answering", reply[p], n)

\* The last piece is sent; the connection is kept or closed.
Finish(p) ==
    /\ phase[p] = "answering"
    /\ \E ph \in {"receiving", "away"} : Become(p, ph, "none", 0)

\* The browser has gone, or has been silent for too long.
Drop(p) == p \in Served /\ Become(p, "away", "none", 0)

Stop ==
    /\ phase' = [p \in Peer |-> "away"]
    /\ reply' = [p \in Peer |-> "none"]
    /\ left' = [p \in Peer |-> 0]

Next ==
    \/ \E p \in Peer :
          \/ Connect(p) \/ Accept(p) \/ TurnAway(p) \/ BeginWork(p) \/ AnswerAtOnce(p)
          \/ AnswerForScript(p) \/ Send(p) \/ Finish(p) \/ Drop(p)
    \/ Stop

\* No connection stays in the queue, no request unanswered and no reply
\* half-sent.
Moves(p) ==
    \A ph \in {"queued", "working", "answering"} : phase[p] = ph ~> phase[p] # ph

Spec == Init /\ [][Next]_vars /\ \A p \in Peer : Moves(p)
=============================================================================
