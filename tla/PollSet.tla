------------------------------ MODULE PollSet ------------------------------
(***************************************************************************)
(* The vector<struct pollfd> that Server::run hands to poll(), and the     *)
(* three things the server does to it: watch a descriptor, stop watching   *)
(* it, and change the event it waits for.  An entry is                     *)
(*     [fd |-> descriptor, events |-> "IN" or "OUT", revents |-> a set]    *)
(* because the server always asks for exactly one of POLLIN and POLLOUT.   *)
(* Each scan stops at the first match, as the loops in Server.cpp do.      *)
(***************************************************************************)
EXTENDS Integers, Sequences, SequencesExt

\* Bits of revents.  "HUP" stands for POLLHUP and POLLERR together on a
\* socket and for POLLHUP on a pipe; "ERR" is POLLERR on a pipe.
Bits == {"IN", "OUT", "HUP", "ERR", "NVAL"}

Watched(s) == {s[k].fd : k \in DOMAIN s}

IndexOf(s, fd) ==
    CHOOSE k \in DOMAIN s : s[k].fd = fd /\ \A j \in 1..(k - 1) : s[j].fd # fd

\* Mutant: a new descriptor goes to the front of the vector.
AddPollFdInFront(s, fd, events) ==
    <<[fd |-> fd, events |-> events, revents |-> {}]>> \o s

AddPollFd(s, fd, events) ==
    Append(s, [fd |-> fd, events |-> events, revents |-> {}])

\* Mutant: the last entry takes the place of the removed one.
RemovePollFdBySwap(s, fd) ==
    IF fd \in Watched(s)
    THEN [k \in 1..(Len(s) - 1) |-> IF k = IndexOf(s, fd) THEN s[Len(s)] ELSE s[k]]
    ELSE s

RemovePollFd(s, fd) ==
    IF fd \in Watched(s) THEN RemoveAt(s, IndexOf(s, fd)) ELSE s

\* Mutant: the search stops one entry short.
SetEventsButLast(s, fd, events) ==
    IF fd \in Watched(s) /\ IndexOf(s, fd) < Len(s)
    THEN [s EXCEPT ![IndexOf(s, fd)].events = events] ELSE s

\* The search-and-assign loops that switch a client between POLLIN and POLLOUT.
SetEvents(s, fd, events) ==
    IF fd \in Watched(s) THEN [s EXCEPT ![IndexOf(s, fd)].events = events] ELSE s

\* No descriptor has two entries.
Distinct(s) == \A j, k \in DOMAIN s : s[j].fd = s[k].fd => j = k

=============================================================================
