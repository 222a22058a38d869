----------------------------- MODULE PipeProofs -----------------------------
(***************************************************************************)
(* Theorems about the entries of _pollfds and the pipes of the scripts:    *)
(* which event an entry asks for, in which order the entries stand, and    *)
(* that the pipes a client remembers are those of its own script.          *)
(***************************************************************************)
EXTENDS ScriptProofs

-----------------------------------------------------------------------------
(* What every step does.                                                   *)

\* The event that a client with this reply, or none, waits for.
Mode(c) == IF c.responseReady THEN "OUT" ELSE "IN"

\* An entry that stays moves forward; it asks for what it asked for before, or
\* for what its client now waits for.
InOrder == Onward(pollfds, pollfds')

ModesFollow ==
    \A f \in DOMAIN clients', x \in {"IN", "OUT"} : Asks(pollfds', f, x) =>
        \/ /\ Asks(pollfds, f, x)
           /\ f \in DOMAIN clients
           /\ clients'[f].responseReady = clients[f].responseReady
        \/ x = Mode(clients'[f])

\* Until the shutdown, what is no longer watched is closed; and what is opened is
\* watched, but for the two descriptors of a pipe() that no second one follows.
DroppedAreClosed ==
    ~Stop => \A f \in Watched(pollfds) \ Watched(pollfds') : fdt'[f].kind = "free"

OpenedAreWatched ==
    \/ LeakPipe
    \/ \A f \in Fd : fdt[f].kind = "free" /\ fdt'[f].kind # "free" => f \in Watched(pollfds')

\* The script that is reaped in this step.
Gone(p) == p \in Pid /\ proc[p].st # "free" /\ proc'[p].st = "free"

\* A pipe that stays open stays the same, or loses its script.
PipesFollow ==
    \A f \in Fd : fdt[f].kind \in {"rd", "wr"} /\ fdt'[f].kind # "free" =>
        /\ fdt'[f].kind = fdt[f].kind
        /\ fdt'[f].of = IF Gone(fdt[f].of) THEN None ELSE fdt[f].of

\* The pipes of client f are those of its script, watched, and behind it in
\* the vector.
Owned(f) ==
    LET c == clients[f] IN
    /\ c.cgiRunning /\ f # cur =>
          /\ c.cgiFd \in Watched(pollfds)
          /\ fdt[c.cgiFd].of = c.cgiPid
          /\ \A j, k \in DOMAIN pollfds : pollfds[j].fd = f /\ pollfds[k].fd = c.cgiFd => j < k
    /\ c.cgiWriteFd # NoFd =>
          /\ c.cgiWriteFd \in Watched(pollfds)
          /\ fdt[c.cgiWriteFd].of = IF c.cgiRunning THEN c.cgiPid ELSE None

AllOwned == \A f \in DOMAIN clients : Owned(f)

\* A client keeps its pipes and its script, or gives them up together.
PipesKept(f) ==
    /\ f \in DOMAIN clients
    /\ Fewer(clients[f], clients'[f])
    /\ clients'[f].cgiRunning =>
          clients'[f].cgiPid = clients[f].cgiPid /\ ~Gone(clients[f].cgiPid)
    /\ clients'[f].cgiRunning /\ f # cur' => f # cur
    /\ clients[f].cgiRunning /\ ~clients'[f].cgiRunning => Gone(clients[f].cgiPid)

NoPipes(f) == ~clients'[f].cgiRunning /\ clients'[f].cgiWriteFd = NoFd

ClientsFollow == \A f \in DOMAIN clients' : NoPipes(f) \/ PipesKept(f) \/ Owned(f)'

Follows ==
    InOrder /\ ModesFollow /\ DroppedAreClosed /\ OpenedAreWatched /\ PipesFollow /\ ClientsFollow

PInv == IInv /\ KillsOwnScript /\ AllOwned

-----------------------------------------------------------------------------
(* The pass over the vector.                                               *)

LEMMA ForgetAsks ==
    ASSUME NEW s \in Seq(EntryType), NEW j \in Nat, Distinct(s)
    PROVE  LET t == ForgetBefore(j, s)
           IN  /\ t \in Seq(EntryType)
               /\ Onward(s, t)
               /\ Watched(t) = Watched(s)
               /\ \A g, x : Asks(t, g, x) <=> Asks(s, g, x)
<1> DEFINE t == ForgetBefore(j, s)
<1>1. /\ t \in Seq(EntryType)
      /\ DOMAIN t = DOMAIN s
      /\ Watched(t) = Watched(s)
      /\ \A k \in DOMAIN s : t[k].fd = s[k].fd
  BY ForgetKeeps
<1>2. ASSUME NEW k \in DOMAIN s PROVE t[k].events = s[k].events
  <2>1. s[k] \in EntryType
    OBVIOUS
  <2>2. [s[k] EXCEPT !.revents = {}].events = s[k].events
    BY <2>1 DEF EntryType
  <2> QED
    BY <2>2 DEF ForgetBefore
<1> HIDE DEF t
<1>3. Onward(s, t)
  BY <1>1, SamePlacesOnward
<1>4. \A g, x : Asks(t, g, x) <=> Asks(s, g, x)
  BY <1>1, <1>2 DEF Asks
<1> QED
  BY <1>1, <1>3, <1>4 DEF t

LEMMA ScanAsks ==
    ASSUME NEW k \in Nat, NEW s \in Seq(EntryType), Distinct(s), ScanFrom(k, s)
    PROVE  /\ pollfds' \in Seq(EntryType)
           /\ Onward(s, pollfds')
           /\ Watched(pollfds') = Watched(s)
           /\ \A g, x : Asks(pollfds', g, x) <=> Asks(s, g, x)
<1>1. PICK j \in Nat : pollfds' = ForgetBefore(j, s)
  <2>1. Len(s) + 1 \in Nat /\ \A j \in k..Len(s) : j \in Nat
    OBVIOUS
  <2> QED
    BY <2>1 DEF ScanFrom
<1> QED
  BY <1>1, ForgetAsks

\* The pass goes on with s.
LEMMA PassAsks ==
    ASSUME IInv, NEW s \in Seq(EntryType), Distinct(s), Onward(pollfds, s), GoOn(s)
    PROVE  /\ Onward(pollfds, pollfds')
           /\ Watched(pollfds') = Watched(s)
           /\ \A g, x : Asks(pollfds', g, x) <=> Asks(s, g, x)
<1>1. i + 1 \in Nat /\ pollfds \in Seq(EntryType)
  BY DEF IInv, Place, Vector
<1>2. /\ pollfds' \in Seq(EntryType)
      /\ Onward(s, pollfds')
      /\ Watched(pollfds') = Watched(s)
      /\ \A g, x : Asks(pollfds', g, x) <=> Asks(s, g, x)
  BY <1>1, ScanAsks DEF GoOn
<1>3. Watched(pollfds) \cap Watched(pollfds') \subseteq Watched(s)
  BY <1>2
<1> QED
  BY <1>1, <1>2, <1>3, OnwardTwice

LEMMA VectorFacts ==
    ASSUME IInv
    PROVE  /\ pollfds \in Seq(EntryType) /\ pollfds \in Seq(Entries(Fd)) /\ Distinct(pollfds)
           /\ Onward(pollfds, pollfds)
           /\ Watched(pollfds) \subseteq Fd
  BY EntryTypeIsEntries, WatchedInFd, SamePlacesOnward DEF IInv, Vector

\* A descriptor of the table is added to a vector.
LEMMA AddAsks ==
    ASSUME NEW s \in Seq(EntryType), Distinct(s),
           NEW f \in Fd, f \notin Watched(s), NEW e \in {"IN", "OUT"}
    PROVE  LET t == AddPollFd(s, f, e)
           IN  /\ t \in Seq(EntryType) /\ Distinct(t) /\ Watched(t) = Watched(s) \cup {f}
               /\ Onward(s, t)
               /\ \A g, x : Asks(t, g, x) <=> Asks(s, g, x) \/ (g = f /\ x = e)
<1>1. s \in Seq(Entries(Fd))
  BY EntryTypeIsEntries
<1>2. /\ Onward(s, AddPollFd(s, f, e))
      /\ \A g, x : Asks(AddPollFd(s, f, e), g, x) <=> Asks(s, g, x) \/ (g = f /\ x = e)
  BY <1>1, AddPollFdOnward
<1>3. /\ AddPollFd(s, f, e) \in Seq(Entries(Fd))
      /\ Watched(AddPollFd(s, f, e)) = Watched(s) \cup {f}
      /\ Distinct(AddPollFd(s, f, e))
  BY <1>1, AddPollFdWatches
<1> QED
  BY <1>2, <1>3, EntryTypeIsEntries

\* Nothing is opened or closed, and every client keeps its mode.
LEMMA SameVector ==
    ASSUME Onward(pollfds, pollfds'), Watched(pollfds') = Watched(pollfds),
           \A g, x : Asks(pollfds', g, x) <=> Asks(pollfds, g, x),
           \A f \in Fd : fdt[f].kind = "free" => fdt'[f].kind = "free",
           \A f \in DOMAIN clients' :
              f \in DOMAIN clients /\ clients'[f].responseReady = clients[f].responseReady
    PROVE  InOrder /\ ModesFollow /\ DroppedAreClosed /\ OpenedAreWatched
  BY DEF InOrder, ModesFollow, DroppedAreClosed, OpenedAreWatched

LEMMA QuietTurn ==
    ASSUME IInv, GoOn(pollfds),
           \A f \in Fd : fdt[f].kind = "free" => fdt'[f].kind = "free",
           \A f \in DOMAIN clients' :
              f \in DOMAIN clients /\ clients'[f].responseReady = clients[f].responseReady
    PROVE  InOrder /\ ModesFollow /\ DroppedAreClosed /\ OpenedAreWatched
  BY VectorFacts, PassAsks, SameVector

\* The mode of one client changes with its reply.
LEMMA ModeTurn ==
    ASSUME IInv, NEW fd \in DOMAIN clients, NEW e \in {"IN", "OUT"},
           GoOn(SetEvents(pollfds, fd, e)),
           LeakPipe \/ \A f \in Fd : fdt[f].kind = "free" => fdt'[f].kind = "free",
           \A f \in DOMAIN clients' :
              /\ f \in DOMAIN clients
              /\ f # fd => clients'[f].responseReady = clients[f].responseReady
              /\ f = fd => Mode(clients'[f]) = e
    PROVE  InOrder /\ ModesFollow /\ DroppedAreClosed /\ OpenedAreWatched
<1> DEFINE s == SetEvents(pollfds, fd, e)
<1>1. /\ pollfds \in Seq(Entries(Fd)) /\ Distinct(pollfds)
  BY VectorFacts
<1>2. /\ s \in Seq(EntryType) /\ Distinct(s) /\ Watched(s) = Watched(pollfds)
      /\ Onward(pollfds, s)
      /\ \A g, x : Asks(s, g, x) <=> IF g = fd THEN fd \in Watched(pollfds) /\ x = e
                                              ELSE Asks(pollfds, g, x)
  BY <1>1, SetEventsKeeps, SetEventsOnward, EntryTypeIsEntries
<1> HIDE DEF s
<1>3. /\ Onward(pollfds, pollfds')
      /\ Watched(pollfds') = Watched(pollfds)
      /\ \A g, x : Asks(pollfds', g, x) <=> Asks(s, g, x)
  BY <1>2, PassAsks DEF s
<1> QED
  BY <1>2, <1>3 DEF InOrder, ModesFollow, DroppedAreClosed, OpenedAreWatched

\* The entry of one descriptor is erased.
LEMMA RemoveAsks ==
    ASSUME NEW s \in Seq(EntryType), Distinct(s), NEW fd
    PROVE  LET t == RemovePollFd(s, fd)
           IN  /\ t \in Seq(EntryType) /\ Distinct(t)
               /\ Onward(s, t)
               /\ Watched(t) = Watched(s) \ {fd}
               /\ \A g, x : Asks(t, g, x) <=> Asks(s, g, x) /\ g # fd
<1>1. s \in Seq(Entries(Fd))
  BY EntryTypeIsEntries
<1> QED
  BY <1>1, RemovePollFdUnwatches, RemovePollFdOnward, EntryTypeIsEntries

\* The entries of two descriptors, one after the other.
LEMMA RemoveTwiceAsks ==
    ASSUME NEW s \in Seq(EntryType), Distinct(s), NEW fd, NEW gd
    PROVE  LET t == RemovePollFd(RemovePollFd(s, fd), gd)
           IN  /\ t \in Seq(EntryType) /\ Distinct(t)
               /\ Onward(s, t)
               /\ Watched(t) = Watched(s) \ {fd, gd}
               /\ \A g, x : Asks(t, g, x) <=> Asks(s, g, x) /\ g \notin {fd, gd}
<1> DEFINE a == RemovePollFd(s, fd)
           t == RemovePollFd(a, gd)
<1>1. /\ a \in Seq(EntryType) /\ Distinct(a)
      /\ Onward(s, a)
      /\ Watched(a) = Watched(s) \ {fd}
      /\ \A g, x : Asks(a, g, x) <=> Asks(s, g, x) /\ g # fd
  BY RemoveAsks
<1> HIDE DEF a
<1>2. /\ t \in Seq(EntryType) /\ Distinct(t)
      /\ Onward(a, t)
      /\ Watched(t) = Watched(a) \ {gd}
      /\ \A g, x : Asks(t, g, x) <=> Asks(a, g, x) /\ g # gd
  BY <1>1, RemoveAsks
<1> HIDE DEF t
<1>3. Watched(s) \cap Watched(t) \subseteq Watched(a)
  BY <1>1, <1>2
<1>4. Onward(s, t)
  BY <1>1, <1>2, <1>3, OnwardTwice
<1>5. t = RemovePollFd(RemovePollFd(s, fd), gd)
  BY DEF t, a
<1> QED
  BY <1>1, <1>2, <1>4, <1>5

LEMMA UnwatchAllAsks ==
    ASSUME IInv, NEW fd
    PROVE  LET t == UnwatchAll(fd)
           IN  /\ t \in Seq(EntryType) /\ Distinct(t)
               /\ Onward(pollfds, t)
               /\ Watched(t) = Watched(pollfds) \ Descriptors(fd)
               /\ \A g, x : Asks(t, g, x) <=> Asks(pollfds, g, x) /\ g \notin Descriptors(fd)
<1> DEFINE a == RemovePollFd(RemovePollFd(pollfds, CgiFdOf(fd)), CgiWriteFdOf(fd))
           t == RemovePollFd(a, fd)
<1>1. /\ a \in Seq(EntryType) /\ Distinct(a)
      /\ Onward(pollfds, a)
      /\ Watched(a) = Watched(pollfds) \ {CgiFdOf(fd), CgiWriteFdOf(fd)}
      /\ \A g, x : Asks(a, g, x) <=>
            Asks(pollfds, g, x) /\ g \notin {CgiFdOf(fd), CgiWriteFdOf(fd)}
  BY VectorFacts, RemoveTwiceAsks
<1> HIDE DEF a
<1>2. /\ t \in Seq(EntryType) /\ Distinct(t)
      /\ Onward(a, t)
      /\ Watched(t) = Watched(a) \ {fd}
      /\ \A g, x : Asks(t, g, x) <=> Asks(a, g, x) /\ g # fd
  BY <1>1, RemoveAsks
<1> HIDE DEF t
<1>3. Watched(pollfds) \cap Watched(t) \subseteq Watched(a)
  BY <1>1, <1>2
<1>4. Onward(pollfds, t)
  BY <1>1, <1>2, <1>3, VectorFacts, OnwardTwice
<1>5. t = UnwatchAll(fd)
  BY DEF t, a, UnwatchAll
<1> QED
  BY <1>1, <1>2, <1>4, <1>5 DEF Descriptors

\* Between two passes, and while nobody but peers and scripts acts.
LEMMA StillTurn ==
    ASSUME IInv, UNCHANGED <<pollfds, fdt>>,
           \A f \in DOMAIN clients' :
              f \in DOMAIN clients /\ clients'[f].responseReady = clients[f].responseReady
    PROVE  InOrder /\ ModesFollow /\ DroppedAreClosed /\ OpenedAreWatched
  BY VectorFacts, SameVector

-----------------------------------------------------------------------------
(* The pipes and the clients that remember them.                           *)

LEMMA NobodyGone ==
    ASSUME Untouched(Pid), NEW p
    PROVE  ~Gone(p)
  BY DEF Untouched, Gone

LEMMA PipesStay ==
    ASSUME Untouched(Pid),
           \A f \in Fd : fdt[f].kind \in {"rd", "wr"} /\ fdt'[f].kind # "free" => fdt'[f] = fdt[f]
    PROVE  PipesFollow
  BY NobodyGone DEF PipesFollow

\* Some descriptors are closed, and a script is reaped.
LEMMA PipesBuried ==
    ASSUME IInv, NEW t \in [Fd -> DescriptorType],
           \A f \in Fd : t[f] = fdt[f] \/ t[f].kind = "free",
           NEW S \in SUBSET Pid, \A p \in S : proc[p].st # "free",
           fdt' = Bury(t, S), proc' = Reaped(S)
    PROVE  PipesFollow
<1>1. ASSUME NEW p PROVE Gone(p) <=> p \in S
  BY DEF Gone, Reaped, NoScript
<1>2. \A f \in Fd : fdt'[f] = IF t[f].of \in S THEN [t[f] EXCEPT !.of = None] ELSE t[f]
  BY DEF Bury
<1>3. ASSUME NEW r \in DescriptorType
      PROVE  [r EXCEPT !.of = None].kind = r.kind /\ [r EXCEPT !.of = None].of = None
  BY DEF DescriptorType
<1>4. ASSUME NEW f \in Fd
      PROVE  /\ fdt'[f].kind = t[f].kind
             /\ fdt'[f].of = IF t[f].of \in S THEN None ELSE t[f].of
  <2>1. t[f] \in DescriptorType
    OBVIOUS
  <2> HIDE DEF DescriptorType
  <2> QED
    BY <2>1, <1>2, <1>3
<1> QED
  BY <1>1, <1>4 DEF PipesFollow

LEMMA ClosedPipes ==
    ASSUME IInv, NEW D
    PROVE  LET t == Close(fdt, D)
           IN  /\ t \in [Fd -> DescriptorType]
               /\ \A f \in Fd : t[f] = (IF f \in D THEN Closed ELSE fdt[f])
               /\ \A f \in Fd : f \in D => t[f].kind = "free"
<1>1. fdt \in [Fd -> DescriptorType]
  BY DEF IInv, Objects
<1>2. Closed.kind = "free"
  BY DEF Closed
<1> QED
  BY <1>1, <1>2, CloseType DEF Close

\* One client changes and keeps its script.
LEMMA OneClientFollows ==
    ASSUME IInv, KillsOwnScript, Untouched(Pid), pc # "waitpid" \/ cur' = cur,
           NEW fd \in DOMAIN clients, NEW c, clients' = [clients EXCEPT ![fd] = c],
           Fewer(clients[fd], c),
           c.cgiRunning = clients[fd].cgiRunning, c.cgiPid = clients[fd].cgiPid
    PROVE  ClientsFollow
<1>1. cur \in DOMAIN clients => cur' = cur
  BY FdIsNatural DEF IInv, Memory, Objects
<1>2. ASSUME NEW f \in DOMAIN clients' PROVE PipesKept(f)
  BY <1>1, NobodyGone DEF PipesKept, Fewer
<1> QED
  BY <1>2 DEF ClientsFollow

\* No client changes.
LEMMA NoClientFollows ==
    ASSUME IInv, Untouched(Pid), pc # "waitpid" \/ cur' = cur, UNCHANGED clients
    PROVE  ClientsFollow
<1>1. cur \in DOMAIN clients => cur' = cur
  BY FdIsNatural DEF IInv, Memory, Objects
<1>2. ASSUME NEW f \in DOMAIN clients' PROVE PipesKept(f)
  BY <1>1, NobodyGone DEF PipesKept, Fewer
<1> QED
  BY <1>2 DEF ClientsFollow

\* A script is reaped, and its client goes or has no script any more.
LEMMA ReapedFollows ==
    ASSUME KillsOwnScript, NEW fd, proc' = Reaped(RunningOf(fd)),
           \A f \in DOMAIN clients' : f # fd =>
              f \in DOMAIN clients /\ clients'[f] = clients[f] /\ (f # cur' => f # cur),
           fd \in DOMAIN clients' =>
              /\ fd \in Running /\ ~clients'[fd].cgiRunning
              /\ Fewer(clients[fd], clients'[fd])
    PROVE  ClientsFollow
<1>1. \A p : Gone(p) <=> p \in Pid /\ proc[p].st # "free" /\ p \in RunningOf(fd)
  BY DEF Gone, Reaped, NoScript
<1>2. ASSUME NEW f \in DOMAIN clients', f # fd PROVE PipesKept(f)
  BY <1>1, <1>2 DEF PipesKept, Fewer, KillsOwnScript, Running, RunningOf
<1>3. ASSUME fd \in DOMAIN clients' PROVE PipesKept(fd)
  BY <1>1, <1>3 DEF PipesKept, KillsOwnScript, Running, RunningOf
<1> QED
  BY <1>2, <1>3 DEF ClientsFollow

-----------------------------------------------------------------------------
(* The steps of the loop.                                                  *)

LEMMA PollFollows ==
    ASSUME IInv, KillsOwnScript, Poll
    PROVE  Follows
<1>1. pc = "poll" /\ ScanFrom(1, Polled) /\ UNCHANGED <<clients, fdt, proc, cur>>
  BY DEF Poll, world
<1>2. Polled \in Seq(EntryType) /\ Distinct(Polled) /\ Watched(Polled) = Watched(pollfds)
  BY <1>1, PolledKeeps DEF IInv
<1>3. /\ DOMAIN Polled = DOMAIN pollfds
      /\ \A k \in DOMAIN pollfds : /\ Polled[k].fd = pollfds[k].fd
                                   /\ Polled[k].events = pollfds[k].events
  <2>1. \A r \in EntryType : \A v : [r EXCEPT !.revents = v].fd = r.fd
                                  /\ [r EXCEPT !.revents = v].events = r.events
    BY DEF EntryType
  <2>2. \A k \in DOMAIN pollfds : pollfds[k] \in EntryType
    BY VectorFacts
  <2> HIDE DEF EntryType
  <2> QED
    BY <2>1, <2>2 DEF Polled
<1>4. Onward(pollfds, Polled) /\ \A g, x : Asks(Polled, g, x) <=> Asks(pollfds, g, x)
  BY <1>3, VectorFacts, SamePlacesOnward DEF Asks
<1>5. /\ pollfds' \in Seq(EntryType)
      /\ Onward(Polled, pollfds')
      /\ Watched(pollfds') = Watched(Polled)
      /\ \A g, x : Asks(pollfds', g, x) <=> Asks(Polled, g, x)
  BY <1>1, <1>2, ScanAsks
<1>6. Onward(pollfds, pollfds')
  <2>1. Watched(pollfds) \cap Watched(pollfds') \subseteq Watched(Polled)
    BY <1>2, <1>5
  <2> QED
    BY <2>1, <1>2, <1>4, <1>5, VectorFacts, OnwardTwice
<1>7. InOrder /\ ModesFollow /\ DroppedAreClosed /\ OpenedAreWatched
  BY <1>1, <1>2, <1>4, <1>5, <1>6, SameVector
<1>8. PipesFollow /\ ClientsFollow
  <2>1. Untouched(Pid)
    BY <1>1 DEF Untouched
  <2> QED
    BY <1>1, <2>1, PipesStay, NoClientFollows
<1> QED
  BY <1>7, <1>8 DEF Follows

\* Entries that call for nothing, and connections that are turned away.
LEMMA QuietFollows ==
    ASSUME IInv, KillsOwnScript, AcceptFails \/ IgnoreOrphan \/ TurnAway
    PROVE  Follows
<1>1. GoOn(pollfds) /\ UNCHANGED <<clients, fdt, proc, cur>>
  BY DEF AcceptFails, IgnoreOrphan, TurnAway, PassOver, world
<1>2. Untouched(Pid)
  BY <1>1 DEF Untouched
<1> QED
  BY <1>1, <1>2, QuietTurn, PipesStay, NoClientFollows DEF Follows

\* _checkTimeouts before the removals, peers, scripts, and the passing of time.
LEMMA StillFollows ==
    ASSUME IInv, KillsOwnScript, CheckTimeouts \/ Environment \/ Tick \/ UNCHANGED vars
    PROVE  Follows
<1>1. UNCHANGED <<pollfds, fdt, cur>>
  BY DEF CheckTimeouts, Environment, Tick, vars, server
<1>2. Untouched(Pid)
  <2>1. CASE CheckTimeouts \/ Tick \/ UNCHANGED vars
    BY <2>1 DEF CheckTimeouts, Tick, vars, Untouched
  <2>2. CASE Environment
    <3>1. CASE PeerStep
      BY <3>1 DEF PeerStep, Untouched
    <3>2. CASE ScriptStep
      <4>1. PICK p \in Pid :
               ScriptWrite(p) \/ ScriptRead(p) \/ ScriptCloseStdin(p)
                 \/ ScriptCloseStdout(p) \/ ScriptExit(p)
        BY <3>2 DEF ScriptStep
      <4>2. proc \in [Pid -> ScriptType]
        BY DEF IInv, World
      <4> QED
        BY <4>1, <4>2
        DEF ScriptWrite, ScriptRead, ScriptCloseStdin, ScriptCloseStdout, ScriptExit,
            Untouched, ScriptType
    <3> QED
      BY <2>2, <3>1, <3>2 DEF Environment
  <2> QED
    BY <2>1, <2>2
<1>3. PipesFollow
  BY <1>1, <1>2, PipesStay
<1>4. CASE UNCHANGED clients
  BY <1>1, <1>2, <1>3, <1>4, StillTurn, NoClientFollows DEF Follows
<1>5. CASE Tick
  <2>1. clients' = [f \in DOMAIN clients |-> Older(clients[f])]
    BY <1>5 DEF Tick
  <2>2. \A f \in DOMAIN clients : /\ SamePipes(clients[f], Older(clients[f]))
                                  /\ Alike(clients[f], Older(clients[f]))
    BY ClientAt, OlderType, OlderAlike
  <2>3. \A f \in DOMAIN clients' :
           f \in DOMAIN clients /\ clients'[f].responseReady = clients[f].responseReady
    BY <2>1, <2>2 DEF Alike
  <2>4. \A f \in DOMAIN clients' : PipesKept(f)
    BY <1>1, <1>2, <2>1, <2>2, NobodyGone DEF PipesKept, Fewer, SamePipes, Alike
  <2> QED
    BY <1>1, <1>3, <2>3, <2>4, StillTurn DEF Follows, ClientsFollow
<1> QED
  BY <1>4, <1>5 DEF CheckTimeouts, Environment, vars, server

LEMMA StopFollows ==
    ASSUME IInv, KillsOwnScript, Stop
    PROVE  Follows
<1>1. /\ pc' = "stopped" /\ clients' = <<>> /\ pollfds' = <<>> /\ UNCHANGED proc
      /\ fdt' = Close(fdt, ListenFds \cup DOMAIN clients)
  BY DEF Stop
<1>2. DOMAIN pollfds' = {} /\ DOMAIN clients' = {}
  BY <1>1
<1>3. InOrder /\ ModesFollow /\ DroppedAreClosed /\ ClientsFollow
  BY <1>1, <1>2 DEF InOrder, Onward, ModesFollow, DroppedAreClosed, ClientsFollow
<1> DEFINE D == ListenFds \cup DOMAIN clients
<1>4. \A f \in Fd : fdt'[f] = IF f \in D THEN Closed ELSE fdt[f]
  BY <1>1, ClosedPipes
<1>5. Closed.kind = "free"
  BY DEF Closed
<1> HIDE DEF D
<1>6. OpenedAreWatched
  BY <1>4, <1>5 DEF OpenedAreWatched
<1>7. PipesFollow
  BY <1>1, <1>4, <1>5, PipesStay DEF Untouched
<1> QED
  BY <1>3, <1>6, <1>7 DEF Follows

LEMMA AcceptFollows ==
    ASSUME IInv, KillsOwnScript, AcceptConnection
    PROVE  Follows
<1> DEFINE p == Head(backlog[Entry.fd])
<1>1. PICK fd \in Free :
          /\ fdt' = [fdt EXCEPT ![fd] = [kind |-> "sock", of |-> p]]
          /\ clients' = WithClient(fd, NewClient)
          /\ GoOn(AddPollFd(pollfds, fd, "IN"))
  BY DEF AcceptConnection
<1>2. AtListener /\ pc = "pass" /\ UNCHANGED <<proc, cur>>
  BY DEF AcceptConnection, AtListener
<1> DEFINE s == AddPollFd(pollfds, fd, "IN")
<1>3. /\ fd \in Fd /\ fdt[fd].kind = "free" /\ fd \notin Watched(pollfds) /\ fd \notin DOMAIN clients
  BY FreeIsUnused
<1>4. /\ s \in Seq(EntryType) /\ Distinct(s) /\ Watched(s) = Watched(pollfds) \cup {fd}
      /\ Onward(pollfds, s)
      /\ \A g, x : Asks(s, g, x) <=> Asks(pollfds, g, x) \/ (g = fd /\ x = "IN")
  BY <1>3, VectorFacts, AddAsks
<1> HIDE DEF s, p
<1>5. /\ Onward(pollfds, pollfds')
      /\ Watched(pollfds') = Watched(s)
      /\ \A g, x : Asks(pollfds', g, x) <=> Asks(s, g, x)
  BY <1>1, <1>4, PassAsks DEF s
<1>6. /\ DOMAIN clients' = DOMAIN clients \cup {fd}
      /\ clients'[fd] = NewClient
      /\ \A f \in DOMAIN clients : clients'[f] = clients[f]
  BY <1>1, <1>3 DEF WithClient
<1>7. \A f \in Fd \ {fd} : fdt'[f] = fdt[f]
  BY <1>1 DEF IInv, Objects
<1>8. ModesFollow
  <2>1. \A f, x : Asks(pollfds, f, x) => f \in Watched(pollfds)
    BY DEF Asks, Watched
  <2> QED
    BY <2>1, <1>3, <1>4, <1>5, <1>6, NewClientIdle DEF ModesFollow, Mode
<1>9. InOrder /\ DroppedAreClosed /\ OpenedAreWatched
  BY <1>4, <1>5, <1>7 DEF InOrder, DroppedAreClosed, OpenedAreWatched
<1>10. Untouched(Pid)
  BY <1>2 DEF Untouched
<1>11. PipesFollow
  BY <1>3, <1>7, <1>10, PipesStay
<1>12. ClientsFollow
  <2>1. cur \notin DOMAIN clients
    BY <1>2, FdIsNatural DEF IInv, Memory, Objects
  <2>2. ASSUME NEW f \in DOMAIN clients PROVE PipesKept(f)
    BY <2>1, <1>6, <1>10, NobodyGone DEF PipesKept, Fewer
  <2>3. NoPipes(fd)
    BY <1>6, NewClientType DEF NoPipes
  <2> QED
    BY <2>2, <2>3, <1>6 DEF ClientsFollow
<1> QED
  BY <1>8, <1>9, <1>11, <1>12 DEF Follows

\* _removeClient, in the pass or in _checkTimeouts: the entries it erases are
\* those of the descriptors it closes.
LEMMA RemoveClientFollows ==
    ASSUME IInv, KillsOwnScript, pc \in {"pass", "purge"}, NEW fd, Removable(fd),
           RemoveClient(fd),
           Onward(pollfds, pollfds'), Watched(pollfds') = Watched(pollfds) \ Descriptors(fd),
           \A g, x : Asks(pollfds', g, x) => Asks(pollfds, g, x)
    PROVE  Follows
<1> DEFINE D == Descriptors(fd)
           t == Close(fdt, D)
           S == RunningOf(fd)
<1>1. /\ clients' = WithoutClient(fd)
      /\ fdt' = Bury(t, S)
      /\ proc' = Reaped(S)
      /\ cur' = cur
  BY DEF RemoveClient
<1>2. /\ DOMAIN clients' = DOMAIN clients \ {fd}
      /\ \A f \in DOMAIN clients' : clients'[f] = clients[f]
  BY <1>1 DEF WithoutClient
<1>3. /\ t \in [Fd -> DescriptorType]
      /\ \A f \in Fd : t[f] = (IF f \in D THEN Closed ELSE fdt[f])
      /\ \A f \in Fd : f \in D => t[f].kind = "free"
  BY ClosedPipes
<1> HIDE DEF D, t, S
<1>4. \A f \in Fd : fdt'[f].kind = t[f].kind
  BY <1>1, <1>3, BuryType
<1>5. InOrder /\ ModesFollow /\ DroppedAreClosed /\ OpenedAreWatched
  <2>1. /\ \A f \in Fd : f \in D => fdt'[f].kind = "free"
        /\ \A f \in Fd : fdt[f].kind = "free" => fdt'[f].kind = "free"
    BY <1>3, <1>4
  <2>2. \A f \in Watched(pollfds) \ Watched(pollfds') : f \in D /\ f \in Fd
    BY VectorFacts DEF D
  <2> QED
    BY <1>2, <2>1, <2>2 DEF InOrder, ModesFollow, DroppedAreClosed, OpenedAreWatched
<1>6. PipesFollow
  <2>1. S \subseteq Pid /\ \A p \in S : proc[p].st # "free"
    BY DEF S, RunningOf, KillsOwnScript, Running
  <2>2. \A f \in Fd : t[f] = fdt[f] \/ t[f].kind = "free"
    BY <1>3
  <2> QED
    BY <1>1, <1>3, <2>1, <2>2, PipesBuried
<1>7. ClientsFollow
  BY <1>1, <1>2, ReapedFollows DEF S
<1> QED
  BY <1>5, <1>6, <1>7 DEF Follows

LEMMA RemoveInPassFollows ==
    ASSUME IInv, KillsOwnScript, pc = "pass", NEW fd, Removable(fd), RemoveInPass(fd)
    PROVE  Follows
<1> DEFINE s == UnwatchAll(fd)
<1>1. RemoveClient(fd) /\ GoOn(s)
  BY DEF RemoveInPass
<1>2. /\ s \in Seq(EntryType) /\ Distinct(s)
      /\ Onward(pollfds, s)
      /\ Watched(s) = Watched(pollfds) \ Descriptors(fd)
      /\ \A g, x : Asks(s, g, x) <=> Asks(pollfds, g, x) /\ g \notin Descriptors(fd)
  BY UnwatchAllAsks
<1> HIDE DEF s
<1>3. /\ Onward(pollfds, pollfds')
      /\ Watched(pollfds') = Watched(s)
      /\ \A g, x : Asks(pollfds', g, x) <=> Asks(s, g, x)
  BY <1>1, <1>2, PassAsks
<1>4. \A g, x : Asks(pollfds', g, x) => Asks(pollfds, g, x)
  BY <1>2, <1>3
<1> QED
  BY <1>1, <1>2, <1>3, <1>4, RemoveClientFollows

LEMMA HangUpFollows ==
    ASSUME IInv, KillsOwnScript, HangUp
    PROVE  Follows
<1>1. pc = "pass" /\ AtSocket /\ RemoveInPass(Entry.fd)
  BY DEF HangUp, AtSocket
<1>2. Entry.fd \in Fd
  <2>1. i \in DOMAIN pollfds
    BY <1>1 DEF IInv, Place
  <2> QED
    BY <2>1, WatchedInFd DEF Entry, Watched, IInv, Vector
<1>3. Removable(Entry.fd)
  BY <1>1, <1>2 DEF AtSocket, Removable
<1> QED
  BY <1>1, <1>3, RemoveInPassFollows

LEMMA DropIdleFollows ==
    ASSUME IInv, KillsOwnScript, NEW fd, DropIdle(fd)
    PROVE  Follows
<1>1. pc = "purge" /\ fd \in stale /\ RemoveClient(fd) /\ pollfds' = UnwatchAll(fd)
  BY DEF DropIdle, Least
<1>2. Removable(fd)
  BY <1>1, FdIsNatural DEF Removable, IInv, Tables, Memory, Objects
<1> QED
  BY <1>1, <1>2, UnwatchAllAsks, RemoveClientFollows

\* Handlers that only change their client and nobody's script.
LEMMA ReadPartFollows ==
    ASSUME IInv, KillsOwnScript, NEW fd \in DOMAIN clients, ReadPart(fd) \/ WritePart(fd)
    PROVE  Follows
<1>1. GoOn(pollfds) /\ UNCHANGED <<fdt, proc, cur>>
  BY DEF ReadPart, WritePart, Receive
<1>2. PICK c : /\ clients' = [clients EXCEPT ![fd] = c]
               /\ Fewer(clients[fd], c)
               /\ c.cgiRunning = clients[fd].cgiRunning /\ c.cgiPid = clients[fd].cgiPid
               /\ c.responseReady = clients[fd].responseReady
  <2>1. clients[fd] \in ClientType
    BY ClientAt
  <2>2. CASE ReadPart(fd)
    <3>1. PICK c \in Fed(clients[fd]) : clients' = [clients EXCEPT ![fd] = c]
      BY <2>2 DEF ReadPart
    <3>2. /\ SamePipes(clients[fd], c)
          /\ c.cgiRunning = clients[fd].cgiRunning /\ c.cgiPid = clients[fd].cgiPid
          /\ c.responseReady = clients[fd].responseReady
      BY <2>1, FedType, FedAlike
    <3>3. Fewer(clients[fd], c)
      BY <3>2 DEF SamePipes, Fewer
    <3> QED
      BY <3>1, <3>2, <3>3
  <2>3. CASE WritePart(fd)
    <3>1. PICK n \in 1..(clients[fd].unsent - 1) : clients' = [clients EXCEPT ![fd] = Sent(@, n)]
      BY <2>3 DEF WritePart
    <3>2. SamePipes(clients[fd], Sent(clients[fd], n)) /\ Alike(clients[fd], Sent(clients[fd], n))
      BY <2>1, SentType, SentAlike
    <3> QED
      BY <3>1, <3>2 DEF SamePipes, Fewer, Alike
  <2> QED
    BY <2>2, <2>3
<1>3. Untouched(Pid)
  BY <1>1 DEF Untouched
<1>4. \A f \in DOMAIN clients' :
         f \in DOMAIN clients /\ clients'[f].responseReady = clients[f].responseReady
  BY <1>2
<1>5. ClientsFollow
  BY <1>1, <1>2, <1>3, OneClientFollows
<1> QED
  BY <1>1, <1>3, <1>4, <1>5, QuietTurn, PipesStay DEF Follows

LEMMA LeakPipeFollows ==
    ASSUME IInv, LeakPipe, UNCHANGED proc
    PROVE  PipesFollow
<1>1. PICK a \in Free, b \in Free :
         fdt' = [fdt EXCEPT ![a] = [kind |-> "rd", of |-> None],
                            ![b] = [kind |-> "wr", of |-> None]]
  BY DEF LeakPipe
<1>2. \A f \in Fd \ {a, b} : fdt'[f] = fdt[f]
  BY <1>1 DEF IInv, Objects
<1>3. fdt[a].kind = "free" /\ fdt[b].kind = "free"
  BY FreeIsUnused
<1> QED
  BY <1>2, <1>3, PipesStay DEF Untouched

LEMMA AnswerFollows ==
    ASSUME IInv, KillsOwnScript, NEW fd \in DOMAIN clients, ProcessStatic(fd) \/ LaunchFails(fd)
    PROVE  Follows
<1>1. /\ GoOn(SetEvents(pollfds, fd, "OUT")) /\ UNCHANGED <<proc, cur>>
      /\ UNCHANGED fdt \/ LeakPipe
  BY DEF ProcessStatic, LaunchFails, Receive
<1>2. PICK c \in Fed(clients[fd]), what \in {"page", "500"} :
         clients' = [clients EXCEPT ![fd] = Respond(c, what)]
  BY DEF ProcessStatic, LaunchFails
<1> DEFINE d == Respond(c, what)
<1>3. /\ d.responseReady
      /\ Fewer(clients[fd], d)
      /\ d.cgiRunning = clients[fd].cgiRunning /\ d.cgiPid = clients[fd].cgiPid
  <2>1. /\ c \in ClientType /\ SamePipes(clients[fd], c)
        /\ c.cgiRunning = clients[fd].cgiRunning /\ c.cgiPid = clients[fd].cgiPid
    BY ClientAt, FedType, FedAlike
  <2>2. what \in Answers
    BY DEF Answers
  <2>3. /\ SamePipes(c, d) /\ d.responseReady
        /\ d.cgiRunning = c.cgiRunning /\ d.cgiPid = c.cgiPid
    BY <2>1, <2>2, RespondType, RespondReady
  <2> HIDE DEF d
  <2> QED
    BY <2>1, <2>3, SamePipesFewer
<1> HIDE DEF d
<1>4. Untouched(Pid)
  BY <1>1 DEF Untouched
<1>5. \A f \in DOMAIN clients' :
         /\ f \in DOMAIN clients
         /\ f # fd => clients'[f].responseReady = clients[f].responseReady
         /\ f = fd => Mode(clients'[f]) = "OUT"
  BY <1>2, <1>3 DEF d, Mode
<1>6. InOrder /\ ModesFollow /\ DroppedAreClosed /\ OpenedAreWatched
  BY <1>1, <1>5, ModeTurn
<1>7. PipesFollow
  BY <1>1, <1>4, PipesStay, LeakPipeFollows
<1>8. ClientsFollow
  BY <1>1, <1>2, <1>3, <1>4, OneClientFollows DEF d
<1> QED
  BY <1>6, <1>7, <1>8 DEF Follows

LEMMA WriteLastFollows ==
    ASSUME IInv, KillsOwnScript, NEW fd \in DOMAIN clients, WriteLast(fd)
    PROVE  Follows
<1>1. /\ GoOn(SetEvents(pollfds, fd, "IN")) /\ UNCHANGED <<fdt, proc, cur>>
      /\ clients' = [clients EXCEPT ![fd] = NewClient]
      /\ pc = "pass"
  BY ResetType DEF WriteLast, world, Send, Writable, AtSocket
<1>2. Untouched(Pid)
  BY <1>1 DEF Untouched
<1>3. \A f \in DOMAIN clients' :
         /\ f \in DOMAIN clients
         /\ f # fd => clients'[f].responseReady = clients[f].responseReady
         /\ f = fd => Mode(clients'[f]) = "IN"
  BY <1>1, NewClientIdle DEF Mode
<1>4. InOrder /\ ModesFollow /\ DroppedAreClosed /\ OpenedAreWatched
  BY <1>1, <1>3, ModeTurn
<1>5. ClientsFollow
  <2>1. cur \notin DOMAIN clients
    BY <1>1, FdIsNatural DEF IInv, Memory, Objects
  <2>2. ASSUME NEW f \in DOMAIN clients', f # fd PROVE PipesKept(f)
    BY <2>1, <2>2, <1>1, <1>2, NobodyGone DEF PipesKept, Fewer
  <2>3. NoPipes(fd)
    BY <1>1, NewClientType DEF NoPipes
  <2> QED
    BY <2>2, <2>3 DEF ClientsFollow
<1> QED
  BY <1>1, <1>2, <1>4, <1>5, PipesStay DEF Follows

\* The script is started: its pipes are opened and watched, behind everything
\* else in the vector.
LEMMA LaunchFollows ==
    ASSUME IInv, KillsOwnScript, NEW fd \in DOMAIN clients, Launch(fd)
    PROVE  Follows
<1>1. pc = "pass" /\ cur' = cur
  BY DEF Launch, Receive, Readable, AtSocket
<1>2. PICK c \in Fed(clients[fd]), pid \in Pid, rd \in Free, wr \in Free :
          /\ proc[pid].st = "free"
          /\ PipeEnds(rd, wr)
          /\ proc' = [proc EXCEPT ![pid] = NewScript]
          /\ LET launched == Launched(c, pid, rd, wr)
                 reading  == [fdt EXCEPT ![rd] = [kind |-> "rd", of |-> pid]]
                 watched  == AddPollFd(pollfds, rd, "IN")
             IN  /\ clients' = [clients EXCEPT ![fd] = launched]
                 /\ IF c.req = "scriptBody"
                    THEN /\ fdt' = [reading EXCEPT ![wr] = [kind |-> "wr", of |-> pid]]
                         /\ GoOn(Answering(launched, fd, AddPollFd(watched, wr, "OUT")))
                    ELSE /\ fdt' = reading
                         /\ GoOn(Answering(launched, fd, watched))
  BY ZenonT(40) DEF Launch
<1> DEFINE d == Launched(c, pid, rd, wr)
           x == AddPollFd(pollfds, rd, "IN")
           y == IF c.req = "scriptBody" THEN AddPollFd(x, wr, "OUT") ELSE x
           s == Answering(d, fd, y)
<1>3. /\ clients' = [clients EXCEPT ![fd] = d]
      /\ c.req = "scriptBody" =>
            fdt' = [[fdt EXCEPT ![rd] = [kind |-> "rd", of |-> pid]] EXCEPT
                      ![wr] = [kind |-> "wr", of |-> pid]]
      /\ c.req # "scriptBody" => fdt' = [fdt EXCEPT ![rd] = [kind |-> "rd", of |-> pid]]
      /\ GoOn(s)
  BY <1>2
<1>4. /\ d.cgiRunning /\ d.cgiFd = rd /\ d.cgiPid = pid
      /\ d.cgiWriteFd = IF c.req = "scriptBody" THEN wr ELSE NoFd
      /\ d.responseReady = clients[fd].responseReady
  <2>1. c \in ClientType /\ c.responseReady = clients[fd].responseReady
    BY ClientAt, FedType, FedAlike
  <2>2. rd \in Fd /\ wr \in Fd
    BY DEF Free
  <2> QED
    BY <2>1, <2>2, LaunchedType, LaunchedRuns
<1>5. /\ rd # wr
      /\ rd \in Fd /\ fdt[rd].kind = "free" /\ rd \notin Watched(pollfds) /\ rd \notin DOMAIN clients
      /\ wr \in Fd /\ fdt[wr].kind = "free" /\ wr \notin Watched(pollfds) /\ wr \notin DOMAIN clients
  BY <1>2, FreeIsUnused DEF PipeEnds, Least
<1>6. /\ fdt'[rd] = [kind |-> "rd", of |-> pid]
      /\ c.req = "scriptBody" => fdt'[wr] = [kind |-> "wr", of |-> pid]
      /\ c.req # "scriptBody" => fdt'[wr] = fdt[wr]
      /\ \A f \in Fd \ {rd, wr} : fdt'[f] = fdt[f]
  <2>1. fdt \in [Fd -> DescriptorType]
    BY DEF IInv, Objects
  <2> QED
    BY <2>1, <1>3, <1>5
<1> HIDE DEF d
<1>7. /\ x \in Seq(EntryType) /\ Distinct(x) /\ Watched(x) = Watched(pollfds) \cup {rd}
      /\ Onward(pollfds, x)
      /\ \A g, e : Asks(x, g, e) <=> Asks(pollfds, g, e) \/ (g = rd /\ e = "IN")
  BY <1>5, VectorFacts, AddAsks
<1> HIDE DEF x
<1>8. /\ y \in Seq(EntryType) /\ Distinct(y)
      /\ Watched(y) = Watched(pollfds) \cup {rd} \cup (IF c.req = "scriptBody" THEN {wr} ELSE {})
      /\ Onward(pollfds, y)
      /\ \A g \in DOMAIN clients : \A e : Asks(y, g, e) <=> Asks(pollfds, g, e)
  <2>1. CASE c.req # "scriptBody"
    BY <2>1, <1>5, <1>7
  <2>2. CASE c.req = "scriptBody"
    <3> DEFINE z == AddPollFd(x, wr, "OUT")
    <3>1. wr \notin Watched(x)
      BY <1>5, <1>7
    <3>2. /\ z \in Seq(EntryType) /\ Distinct(z) /\ Watched(z) = Watched(x) \cup {wr}
          /\ Onward(x, z)
          /\ \A g, e : Asks(z, g, e) <=> Asks(x, g, e) \/ (g = wr /\ e = "OUT")
      BY <3>1, <1>5, <1>7, AddAsks
    <3> HIDE DEF z
    <3>3. Watched(pollfds) \cap Watched(z) \subseteq Watched(x)
      BY <1>7
    <3>4. Onward(pollfds, z)
      BY <3>2, <3>3, <1>7, VectorFacts, OnwardTwice
    <3>5. y = z
      BY <2>2 DEF z
    <3> HIDE DEF y
    <3> QED
      BY <2>2, <3>2, <3>4, <3>5, <1>5, <1>7
  <2> QED
    BY <2>1, <2>2
<1> HIDE DEF y
<1>9. /\ s \in Seq(EntryType) /\ Distinct(s) /\ Watched(s) = Watched(y)
      /\ Onward(pollfds, s)
      /\ \A g \in DOMAIN clients : \A e :
            Asks(s, g, e) => Asks(pollfds, g, e) \/ (g = fd /\ e = Mode(d))
  <2>1. CASE ~d.responseReady
    BY <2>1, <1>8 DEF Answering
  <2>2. CASE d.responseReady
    <3> DEFINE z == SetEvents(y, fd, "OUT")
    <3>1. s = z /\ Mode(d) = "OUT"
      BY <2>2 DEF Answering, Mode
    <3>2. y \in Seq(Entries(Fd))
      BY <1>8, EntryTypeIsEntries
    <3>3. /\ z \in Seq(EntryType) /\ Distinct(z) /\ Watched(z) = Watched(y)
          /\ Onward(y, z)
          /\ \A g, e : Asks(z, g, e) <=>
                IF g = fd THEN fd \in Watched(y) /\ e = "OUT" ELSE Asks(y, g, e)
      BY <3>2, <1>8, SetEventsKeeps, SetEventsOnward, EntryTypeIsEntries
    <3> HIDE DEF z
    <3>4. Onward(pollfds, z)
      BY <3>3, <1>8, VectorFacts, OnwardTwice
    <3> HIDE DEF s
    <3> QED
      BY <3>1, <3>3, <3>4, <1>8
  <2> QED
    BY <2>1, <2>2
<1> HIDE DEF s
<1>10. /\ Onward(pollfds, pollfds')
       /\ Watched(pollfds') = Watched(s)
       /\ \A g, e : Asks(pollfds', g, e) <=> Asks(s, g, e)
  BY <1>3, <1>9, PassAsks
<1>11. /\ DOMAIN clients' = DOMAIN clients /\ clients'[fd] = d
       /\ \A f \in DOMAIN clients \ {fd} : clients'[f] = clients[f]
  BY <1>3
<1>12. InOrder
  BY <1>10 DEF InOrder
<1>13. ModesFollow
  BY <1>4, <1>9, <1>10, <1>11 DEF ModesFollow
<1>14. DroppedAreClosed
  BY <1>8, <1>9, <1>10 DEF DroppedAreClosed
<1>15. OpenedAreWatched
  BY <1>5, <1>6, <1>8, <1>9, <1>10 DEF OpenedAreWatched
<1>16. Untouched(Pid)
  <2>1. NewScript.st # "free"
    BY DEF NewScript, NoScript
  <2> QED
    BY <2>1, <1>2 DEF Untouched, IInv, World
<1>17. PipesFollow
  BY <1>5, <1>6, <1>16, PipesStay
<1>18. Owned(fd)'
  <2>1. fd \in Watched(pollfds) /\ NoFd \notin Fd
    BY FdIsNatural DEF IInv, Tables
  <2>2. \A j, k \in DOMAIN pollfds' : pollfds'[j].fd = fd /\ pollfds'[k].fd = rd => j < k
    BY <2>1, <1>5, <1>10 DEF Onward
  <2>3. clients'[fd].cgiRunning => fdt'[clients'[fd].cgiFd].of = clients'[fd].cgiPid
    BY <1>4, <1>6, <1>11
  <2>4. clients'[fd].cgiWriteFd # NoFd =>
           /\ clients'[fd].cgiWriteFd \in Watched(pollfds')
           /\ fdt'[clients'[fd].cgiWriteFd].of = clients'[fd].cgiPid
    BY <1>4, <1>6, <1>8, <1>9, <1>10, <1>11
  <2> QED
    BY <2>2, <2>3, <2>4, <1>4, <1>8, <1>9, <1>10, <1>11 DEF Owned
<1>19. ClientsFollow
  <2>1. cur \notin DOMAIN clients
    BY <1>1, FdIsNatural DEF IInv, Memory, Objects
  <2>2. ASSUME NEW f \in DOMAIN clients', f # fd PROVE PipesKept(f)
    BY <2>1, <2>2, <1>1, <1>11, <1>16, NobodyGone DEF PipesKept, Fewer
  <2> QED
    BY <2>2, <1>18 DEF ClientsFollow
<1> QED
  BY <1>12, <1>13, <1>14, <1>15, <1>17, <1>19 DEF Follows

LEMMA OutputFollows ==
    ASSUME IInv, KillsOwnScript, NEW c \in DOMAIN clients, HandleCGIRead(c)
    PROVE  Follows
<1>1. /\ GoOn(pollfds) /\ UNCHANGED <<fdt, cur>>
      /\ clients' = [clients EXCEPT ![c] = [clients[c] EXCEPT !.cgiOutput = TRUE]]
  BY DEF HandleCGIRead
<1>2. PICK p : proc' = [proc EXCEPT ![p].output = FALSE]
  BY DEF HandleCGIRead
<1>3. Untouched(Pid)
  BY <1>2 DEF Untouched, IInv, World, ScriptType
<1> DEFINE d == [clients[c] EXCEPT !.cgiOutput = TRUE]
<1>4. SamePipes(clients[c], d) /\ Alike(clients[c], d)
  BY ClientAt, OutputType, SentAlike
<1> HIDE DEF d
<1>5. Fewer(clients[c], d)
  BY <1>4 DEF SamePipes, Fewer
<1>6. \A f \in DOMAIN clients' :
         f \in DOMAIN clients /\ clients'[f].responseReady = clients[f].responseReady
  BY <1>1, <1>4 DEF Alike, d
<1>7. ClientsFollow
  BY <1>1, <1>3, <1>4, <1>5, OneClientFollows DEF Alike, d
<1> QED
  BY <1>1, <1>3, <1>6, <1>7, QuietTurn, PipesStay DEF Follows

LEMMA EndOfFileFollows ==
    ASSUME IInv, KillsOwnScript, NEW c \in DOMAIN clients, CGIEndOfFile(c)
    PROVE  Follows
<1>1. /\ AtOutputPipe(c)
      /\ pollfds' = RemovePollFd(pollfds, Entry.fd)
      /\ fdt' = Close(fdt, {Entry.fd})
      /\ cur' = c
      /\ UNCHANGED <<clients, proc>>
  BY DEF CGIEndOfFile
<1>2. pc = "pass"
  BY <1>1 DEF AtOutputPipe
<1>3. /\ Onward(pollfds, pollfds')
      /\ Watched(pollfds') = Watched(pollfds) \ {Entry.fd}
      /\ \A g, x : Asks(pollfds', g, x) <=> Asks(pollfds, g, x) /\ g # Entry.fd
  BY <1>1, VectorFacts, RemoveAsks
<1>4. \A f \in Fd : fdt'[f] = IF f = Entry.fd THEN Closed ELSE fdt[f]
  BY <1>1 DEF Close
<1>5. Closed.kind = "free"
  BY DEF Closed
<1>6. InOrder /\ ModesFollow /\ DroppedAreClosed /\ OpenedAreWatched
  BY <1>1, <1>3, <1>4, <1>5, VectorFacts
  DEF InOrder, ModesFollow, DroppedAreClosed, OpenedAreWatched
<1>7. Untouched(Pid)
  BY <1>1 DEF Untouched
<1>8. PipesFollow
  BY <1>4, <1>5, <1>7, PipesStay
<1> QED
  BY <1>1, <1>2, <1>6, <1>7, <1>8, NoClientFollows DEF Follows

LEMMA CloseBodyPipeFollows ==
    ASSUME IInv, KillsOwnScript, NEW c \in DOMAIN clients, AtBodyPipe(c), CloseBodyPipe(c),
           UNCHANGED <<proc, cur>>
    PROVE  Follows
<1> DEFINE s == RemovePollFd(pollfds, Entry.fd)
           d == BodyDone(clients[c])
<1>1. /\ clients' = [clients EXCEPT ![c] = d]
      /\ fdt' = Close(fdt, {Entry.fd})
      /\ GoOn(s)
  BY DEF CloseBodyPipe
<1>2. /\ s \in Seq(EntryType) /\ Distinct(s)
      /\ Onward(pollfds, s)
      /\ Watched(s) = Watched(pollfds) \ {Entry.fd}
      /\ \A g, x : Asks(s, g, x) <=> Asks(pollfds, g, x) /\ g # Entry.fd
  BY VectorFacts, RemoveAsks
<1> HIDE DEF s
<1>3. /\ Onward(pollfds, pollfds')
      /\ Watched(pollfds') = Watched(s)
      /\ \A g, x : Asks(pollfds', g, x) <=> Asks(s, g, x)
  BY <1>1, <1>2, PassAsks
<1>4. \A f \in Fd : fdt'[f] = IF f = Entry.fd THEN Closed ELSE fdt[f]
  BY <1>1 DEF Close
<1>5. Closed.kind = "free"
  BY DEF Closed
<1>6. Alike(clients[c], d) /\ Fewer(clients[c], d)
  BY ClientAt, SentAlike, BodyDoneType DEF Fewer
<1> HIDE DEF d
<1>7. \A f \in DOMAIN clients' :
         f \in DOMAIN clients /\ clients'[f].responseReady = clients[f].responseReady
  BY <1>1, <1>6 DEF Alike
<1>8. InOrder /\ ModesFollow /\ DroppedAreClosed /\ OpenedAreWatched
  BY <1>2, <1>3, <1>4, <1>5, <1>7, VectorFacts
  DEF InOrder, ModesFollow, DroppedAreClosed, OpenedAreWatched
<1>9. Untouched(Pid)
  BY DEF Untouched
<1>10. PipesFollow
  BY <1>4, <1>5, <1>9, PipesStay
<1>11. ClientsFollow
  BY <1>1, <1>6, <1>9, OneClientFollows DEF Alike
<1> QED
  BY <1>8, <1>10, <1>11 DEF Follows

LEMMA BodyFollows ==
    ASSUME IInv, KillsOwnScript, NEW c \in DOMAIN clients, HandleCGIWrite(c)
    PROVE  Follows
<1>1. AtBodyPipe(c) /\ cur' = cur
  BY DEF HandleCGIWrite, BodyPipeReady
<1>2. CASE CloseBodyPipe(c) /\ UNCHANGED proc
  BY <1>1, <1>2, CloseBodyPipeFollows
<1>3. ASSUME NEW p, NEW n \in 1..(clients[c].bodyLeft - 1), UNCHANGED fdt, GoOn(pollfds),
             clients' = [clients EXCEPT ![c].bodyLeft = @ - n],
             proc' = [proc EXCEPT ![p].room = FALSE]
      PROVE  Follows
  <2> DEFINE d == [clients[c] EXCEPT !.bodyLeft = @ - n]
  <2>1. clients' = [clients EXCEPT ![c] = d]
    BY <1>3
  <2>2. SamePipes(clients[c], d) /\ Alike(clients[c], d)
    <3>1. clients[c] \in ClientType
      BY ClientAt
    <3>2. SamePipes(clients[c], d)
      BY <3>1, BodyLeftType
    <3>3. Alike(clients[c], d)
      BY <3>1, SentAlike
    <3> QED
      BY <3>2, <3>3
  <2> HIDE DEF d
  <2>3. Fewer(clients[c], d)
    BY <2>2 DEF SamePipes, Fewer
  <2>4. Untouched(Pid)
    BY <1>3 DEF Untouched, IInv, World, ScriptType
  <2>5. \A f \in DOMAIN clients' :
           f \in DOMAIN clients /\ clients'[f].responseReady = clients[f].responseReady
    BY <2>1, <2>2 DEF Alike
  <2>6. ClientsFollow
    BY <1>1, <2>1, <2>2, <2>3, <2>4, OneClientFollows DEF Alike
  <2> QED
    BY <1>3, <2>4, <2>5, <2>6, QuietTurn, PipesStay DEF Follows
<1> QED
  BY <1>2, <1>3 DEF HandleCGIWrite

LEMMA WaitpidFollows ==
    ASSUME IInv, KillsOwnScript, WaitpidReturns
    PROVE  Follows
<1> DEFINE d == Finished(clients[cur])
           pid == clients[cur].cgiPid
<1>1. /\ pc = "waitpid" /\ GoOn(SetEvents(pollfds, cur, "OUT"))
      /\ proc' = Reaped({pid})
      /\ fdt' = Bury(fdt, {pid})
      /\ clients' = [clients EXCEPT ![cur] = d]
      /\ cur' = NoFd
  BY DEF WaitpidReturns
<1>2. cur \in DOMAIN clients /\ cur \in Running /\ clients[cur].cgiRunning
  BY <1>1 DEF IInv, Memory, Running
<1>3. ~d.cgiRunning /\ d.responseReady /\ Fewer(clients[cur], d)
  BY <1>2, ClientAt, FinishedType, FinishedReady DEF Fewer
<1> HIDE DEF d
<1>4. fdt \in [Fd -> DescriptorType]
  BY DEF IInv, Objects
<1>5. \A f \in Fd : fdt'[f].kind = fdt[f].kind
  BY <1>1, <1>4, BuryType
<1>6. \A f \in DOMAIN clients' :
         /\ f \in DOMAIN clients
         /\ f # cur => clients'[f].responseReady = clients[f].responseReady
         /\ f = cur => Mode(clients'[f]) = "OUT"
  BY <1>1, <1>2, <1>3 DEF Mode
<1>7. InOrder /\ ModesFollow /\ DroppedAreClosed /\ OpenedAreWatched
  BY <1>1, <1>2, <1>5, <1>6, ModeTurn
<1>8. PipesFollow
  <2>1. pid \in Pid /\ proc[pid].st # "free"
    BY <1>2 DEF KillsOwnScript
  <2> HIDE DEF pid
  <2> QED
    BY <2>1, <1>1, <1>4, PipesBuried
<1>9. ClientsFollow
  <2>1. RunningOf(cur) = {pid}
    BY <1>2 DEF RunningOf
  <2> HIDE DEF pid
  <2>2. \A f \in DOMAIN clients' : f # cur =>
           f \in DOMAIN clients /\ clients'[f] = clients[f] /\ (f # cur' => f # cur)
    BY <1>1
  <2> QED
    BY <2>1, <2>2, <1>1, <1>2, <1>3, ReapedFollows
<1> QED
  BY <1>7, <1>8, <1>9 DEF Follows

LEMMA GatewayTimeoutFollows ==
    ASSUME IInv, KillsOwnScript, NEW fd, GatewayTimeout(fd)
    PROVE  Follows
<1> DEFINE c == clients[fd]
           d == GivenUp(c)
           D == {c.cgiFd, c.cgiWriteFd}
           t == Close(fdt, D)
           a == RemovePollFd(RemovePollFd(pollfds, c.cgiFd), c.cgiWriteFd)
<1>1. /\ pc = "purge" /\ fd \in hung
      /\ proc' = Reaped({c.cgiPid})
      /\ fdt' = Bury(t, {c.cgiPid})
      /\ pollfds' = SetEvents(a, fd, "OUT")
      /\ clients' = [clients EXCEPT ![fd] = d]
      /\ cur' = cur
  BY DEF GatewayTimeout, Least
<1>2. fd \in DOMAIN clients /\ fd \in Running /\ c.cgiRunning /\ cur \notin DOMAIN clients
  BY <1>1, FdIsNatural DEF IInv, Memory, Running, Objects
<1>3. ~d.cgiRunning /\ d.responseReady /\ Fewer(c, d)
  BY <1>2, ClientAt, GivenUpType, FinishedReady DEF Fewer
<1>4. /\ t \in [Fd -> DescriptorType]
      /\ \A f \in Fd : t[f] = (IF f \in D THEN Closed ELSE fdt[f])
      /\ \A f \in Fd : f \in D => t[f].kind = "free"
  BY ClosedPipes
<1>5. /\ a \in Seq(EntryType) /\ Distinct(a)
      /\ Onward(pollfds, a)
      /\ Watched(a) = Watched(pollfds) \ D
      /\ \A g, x : Asks(a, g, x) <=> Asks(pollfds, g, x) /\ g \notin D
  BY VectorFacts, RemoveTwiceAsks
<1> HIDE DEF d, t, a
<1>6. /\ Onward(pollfds, pollfds')
      /\ Watched(pollfds') = Watched(pollfds) \ D
      /\ \A g, x : Asks(pollfds', g, x) =>
            IF g = fd THEN x = "OUT" ELSE Asks(pollfds, g, x)
  <2>1. a \in Seq(Entries(Fd))
    BY <1>5, EntryTypeIsEntries
  <2>2. /\ pollfds' \in Seq(EntryType) /\ Watched(pollfds') = Watched(a)
        /\ Onward(a, pollfds')
        /\ \A g, x : Asks(pollfds', g, x) <=>
              IF g = fd THEN fd \in Watched(a) /\ x = "OUT" ELSE Asks(a, g, x)
    BY <2>1, <1>1, <1>5, SetEventsKeeps, SetEventsOnward, EntryTypeIsEntries
  <2>3. Onward(pollfds, pollfds')
    BY <2>2, <1>5, VectorFacts, OnwardTwice
  <2> QED
    BY <2>2, <2>3, <1>5
<1>7. \A f \in Fd : fdt'[f].kind = t[f].kind
  BY <1>1, <1>4, BuryType
<1>8. /\ DOMAIN clients' = DOMAIN clients /\ clients'[fd] = d
      /\ \A f \in DOMAIN clients \ {fd} : clients'[f] = clients[f]
  BY <1>1, <1>2
<1> HIDE DEF D
<1>9. InOrder /\ ModesFollow /\ DroppedAreClosed /\ OpenedAreWatched
  <2>1. ModesFollow
    BY <1>3, <1>6, <1>8 DEF ModesFollow, Mode
  <2>2. /\ \A f \in Fd : f \in D => fdt'[f].kind = "free"
        /\ \A f \in Fd : fdt[f].kind = "free" => fdt'[f].kind = "free"
    BY <1>4, <1>7
  <2>3. \A f \in Watched(pollfds) \ Watched(pollfds') : f \in D /\ f \in Fd
    BY <1>6, VectorFacts
  <2> QED
    BY <2>1, <2>2, <2>3, <1>6 DEF InOrder, DroppedAreClosed, OpenedAreWatched
<1>10. PipesFollow
  <2> DEFINE pid == c.cgiPid
  <2>1. pid \in Pid /\ proc[pid].st # "free"
    BY <1>2 DEF KillsOwnScript
  <2>2. \A f \in Fd : t[f] = fdt[f] \/ t[f].kind = "free"
    BY <1>4
  <2>3. fdt' = Bury(t, {pid}) /\ proc' = Reaped({pid})
    BY <1>1
  <2> HIDE DEF pid
  <2> QED
    BY <2>1, <2>2, <2>3, <1>4, PipesBuried
<1>11. ClientsFollow
  <2>1. proc' = Reaped(RunningOf(fd))
    BY <1>1, <1>2 DEF RunningOf
  <2>2. \A f \in DOMAIN clients' : f # fd =>
           f \in DOMAIN clients /\ clients'[f] = clients[f] /\ (f # cur' => f # cur)
    BY <1>1, <1>8
  <2>3. /\ fd \in Running /\ ~clients'[fd].cgiRunning
        /\ Fewer(clients[fd], clients'[fd])
    BY <1>2, <1>3, <1>8
  <2> QED
    BY <2>1, <2>2, <2>3, ReapedFollows
<1> QED
  BY <1>9, <1>10, <1>11 DEF Follows

LEMMA NextFollows ==
    ASSUME IInv, KillsOwnScript, [Next]_vars
    PROVE  Follows
<1>1. CASE Poll
  BY <1>1, PollFollows
<1>2. CASE AcceptFails \/ TurnAway \/ IgnoreOrphan
  BY <1>2, QuietFollows
<1>3. CASE AcceptConnection
  BY <1>3, AcceptFollows
<1>4. CASE HangUp
  BY <1>4, HangUpFollows
<1>5. ASSUME NEW fd \in DOMAIN clients, HandleClient(fd) PROVE Follows
  <2>1. CASE ReadClosed(fd) \/ WriteFails(fd) \/ WriteLastAndClose(fd)
    <3>1. pc = "pass" /\ RemoveInPass(fd)
      BY <2>1 DEF ReadClosed, WriteFails, WriteLastAndClose, Readable, Send, Writable, AtSocket
    <3>2. fd \in Fd /\ fdt[fd].kind = "sock"
      BY DEF IInv, Objects, Tables
    <3>3. Removable(fd)
      BY <3>1, <3>2 DEF Removable, IInv, Tables
    <3> QED
      BY <3>1, <3>3, RemoveInPassFollows
  <2>2. CASE ReadPart(fd) \/ WritePart(fd)
    BY <2>2, ReadPartFollows
  <2>3. CASE ProcessStatic(fd) \/ LaunchFails(fd)
    BY <2>3, AnswerFollows
  <2>4. CASE Launch(fd)
    BY <2>4, LaunchFollows
  <2>5. CASE WriteLast(fd)
    BY <2>5, WriteLastFollows
  <2> QED
    BY <1>5, <2>1, <2>2, <2>3, <2>4, <2>5 DEF HandleClient
<1>6. ASSUME NEW c \in DOMAIN clients, HandlePipe(c) PROVE Follows
  <2>1. CASE BodyRefused(c)
    <3>1. AtBodyPipe(c) /\ CloseBodyPipe(c) /\ UNCHANGED <<proc, cur>>
      BY <2>1 DEF BodyRefused, BodyPipeReady
    <3> QED
      BY <3>1, CloseBodyPipeFollows
  <2> QED
    BY <1>6, <2>1, OutputFollows, EndOfFileFollows, BodyFollows DEF HandlePipe
<1>7. CASE WaitpidReturns
  BY <1>7, WaitpidFollows
<1>8. ASSUME NEW fd \in Fd, GatewayTimeout(fd) \/ DropIdle(fd) PROVE Follows
  BY <1>8, GatewayTimeoutFollows, DropIdleFollows
<1>9. CASE Stop
  BY <1>9, StopFollows
<1>10. CASE CheckTimeouts \/ Environment \/ Tick \/ UNCHANGED vars
  BY <1>10, StillFollows
<1> QED
  BY <1>1, <1>2, <1>3, <1>4, <1>5, <1>6, <1>7, <1>8, <1>9, <1>10 DEF Next, Loop, Terminated

-----------------------------------------------------------------------------
(* The pipes of a client are its script's.                                 *)

LEMMA OwnedFollows ==
    ASSUME PInv, Follows, IInv', ~Stop, NEW f \in DOMAIN clients'
    PROVE  Owned(f)'
<1> DEFINE c == clients[f]
           d == clients'[f]
<1>1. CASE NoPipes(f)
  BY <1>1 DEF Owned, NoPipes
<1>2. ASSUME PipesKept(f) PROVE Owned(f)'
  <2>1. /\ f \in DOMAIN clients /\ Owned(f) /\ f \in Watched(pollfds) /\ NoFd \notin Fd
        /\ d.cgiRunning => c.cgiRunning /\ d.cgiFd = c.cgiFd
        /\ d.cgiWriteFd # NoFd => d.cgiWriteFd = c.cgiWriteFd
    BY <1>2, FdIsNatural DEF PInv, AllOwned, PipesKept, Fewer, IInv, Tables
  <2>2. ASSUME NEW g \in Fd, fdt[g].kind \in {"rd", "wr"}, fdt'[g].kind # "free",
               g \in Watched(pollfds)
        PROVE  /\ g \in Watched(pollfds')
               /\ fdt'[g].of = IF Gone(fdt[g].of) THEN None ELSE fdt[g].of
    BY <2>2 DEF Follows, DroppedAreClosed, PipesFollow
  <2>3. ASSUME d.cgiRunning, f # cur'
        PROVE  /\ d.cgiFd \in Watched(pollfds')
               /\ fdt'[d.cgiFd].of = d.cgiPid
               /\ \A j, k \in DOMAIN pollfds' :
                     pollfds'[j].fd = f /\ pollfds'[k].fd = d.cgiFd => j < k
    <3>1. /\ c.cgiRunning /\ f # cur /\ d.cgiPid = c.cgiPid /\ ~Gone(c.cgiPid)
          /\ d.cgiFd = c.cgiFd
      BY <1>2, <2>1, <2>3 DEF PipesKept
    <3>2. /\ d.cgiFd \in Watched(pollfds) /\ fdt[d.cgiFd].of = d.cgiPid
          /\ \A j, k \in DOMAIN pollfds :
                pollfds[j].fd = f /\ pollfds[k].fd = d.cgiFd => j < k
      BY <2>1, <3>1 DEF Owned
    <3>3. d.cgiFd \in Fd /\ fdt[d.cgiFd].kind = "rd" /\ fdt'[d.cgiFd].kind = "rd"
      BY <2>1, <2>3, <3>1 DEF PInv, IInv, Pipes
    <3> HIDE DEF c, d
    <3>4. /\ d.cgiFd \in Watched(pollfds')
          /\ fdt'[d.cgiFd].of = d.cgiPid
      BY <2>2, <3>1, <3>2, <3>3
    <3>5. ASSUME NEW j \in DOMAIN pollfds', NEW k \in DOMAIN pollfds',
                 pollfds'[j].fd = f, pollfds'[k].fd = d.cgiFd
          PROVE  j < k
      BY <2>1, <3>2, <3>5 DEF Follows, InOrder, Onward, Watched
    <3> QED
      BY <3>4, <3>5
  <2>4. ASSUME d.cgiWriteFd # NoFd
        PROVE  /\ d.cgiWriteFd \in Watched(pollfds')
               /\ fdt'[d.cgiWriteFd].of = IF d.cgiRunning THEN d.cgiPid ELSE None
    <3>1. /\ d.cgiWriteFd \in Watched(pollfds)
          /\ fdt[d.cgiWriteFd].of = IF c.cgiRunning THEN c.cgiPid ELSE None
      BY <2>1, <2>4 DEF Owned
    <3>2. d.cgiWriteFd \in Fd /\ fdt[d.cgiWriteFd].kind = "wr" /\ fdt'[d.cgiWriteFd].kind = "wr"
      BY <2>1, <2>4 DEF PInv, IInv, Pipes
    <3>3. /\ d.cgiRunning => c.cgiRunning /\ d.cgiPid = c.cgiPid /\ ~Gone(c.cgiPid)
          /\ c.cgiRunning /\ ~d.cgiRunning => Gone(c.cgiPid)
          /\ ~Gone(None)
      BY <1>2, <2>1, NoneIsNobody DEF PipesKept, Gone
    <3> HIDE DEF c, d
    <3> QED
      BY <2>2, <3>1, <3>2, <3>3
  <2> QED
    BY <2>3, <2>4 DEF Owned
<1>3. CASE Owned(f)'
  BY <1>3
<1> QED
  BY <1>1, <1>2, <1>3 DEF Follows, ClientsFollow

LEMMA PInvHolds == Spec => []PInv
<1>1. Init => AllOwned
  BY DEF Init, AllOwned
<1>2. PInv /\ [Next]_vars /\ IInv' => AllOwned'
  <2> SUFFICES ASSUME PInv, [Next]_vars, IInv' PROVE AllOwned'
    OBVIOUS
  <2>1. Follows
    BY NextFollows DEF PInv
  <2>2. CASE Stop
    BY <2>2 DEF Stop, AllOwned
  <2>3. CASE ~Stop
    BY <2>1, <2>3, OwnedFollows DEF AllOwned
  <2> QED
    BY <2>2, <2>3
<1>3. []IInv /\ []KillsOwnScript /\ AllOwned /\ [][Next]_vars => []PInv
  BY <1>2, PTL DEF PInv
<1> QED
  BY <1>1, <1>3, InvariantHolds, KillsItsOwn, PTL DEF Spec

\* After the destructor nothing happens.
LEMMA HaltedStays ==
    ASSUME [Next]_vars, pc = "stopped"
    PROVE  UNCHANGED vars
<1>1. ~Loop
  <2>1. ~(Poll \/ AcceptFails \/ TurnAway \/ AcceptConnection \/ HangUp \/ IgnoreOrphan)
    BY DEF Poll, AcceptFails, TurnAway, AcceptConnection, HangUp, IgnoreOrphan, AtListener, AtSocket
  <2>2. ASSUME NEW fd PROVE ~HandleClient(fd)
    BY DEF HandleClient, ReadClosed, ReadPart, ProcessStatic, LaunchFails, Launch, Receive,
           WriteFails, WritePart, WriteLast, WriteLastAndClose, Send, Readable, Writable, AtSocket
  <2>3. ASSUME NEW c PROVE ~HandlePipe(c)
    BY DEF HandlePipe, HandleCGIRead, CGIEndOfFile, BodyRefused, HandleCGIWrite, BodyPipeReady,
           AtOutputPipe, AtBodyPipe
  <2>4. ASSUME NEW fd PROVE ~(GatewayTimeout(fd) \/ DropIdle(fd))
    BY DEF GatewayTimeout, DropIdle
  <2>5. ~(WaitpidReturns \/ CheckTimeouts)
    BY DEF WaitpidReturns, CheckTimeouts
  <2> QED
    BY <2>1, <2>2, <2>3, <2>4, <2>5 DEF Loop
<1>2. ~(Stop \/ Environment \/ Tick)
  BY DEF Stop, Environment, Tick
<1> QED
  BY <1>1, <1>2 DEF Next, Terminated

LEMMA FollowsAlways == Spec => [][Follows]_vars
<1>1. IInv /\ KillsOwnScript /\ [Next]_vars => [Follows]_vars
  BY NextFollows
<1> QED
  BY <1>1, InvariantHolds, KillsItsOwn, PTL DEF Spec

\* Where the entry of a watched descriptor stands.
LEMMA EntryAt ==
    ASSUME IInv, NEW f \in Watched(pollfds)
    PROVE  /\ IndexOf(pollfds, f) \in DOMAIN pollfds
           /\ pollfds[IndexOf(pollfds, f)].fd = f
           /\ IndexOf(pollfds, f) \in Nat
<1>1. pollfds \in Seq(EntryType)
  BY DEF IInv, Vector
<1>2. IndexOf(pollfds, f) \in DOMAIN pollfds /\ pollfds[IndexOf(pollfds, f)].fd = f
  BY <1>1, IndexOfWatched
<1> QED
  BY <1>1, <1>2

\* The descriptors that a Client remembers in cgiFd and cgiWriteFd are the open
\* and watched pipes of the script whose pid it remembers, and no two clients
\* share one: _handleCGIRead reads the output of the client's own script, and
\* the close() calls of _removeClient, _checkTimeouts, _handleCGIRead and
\* _handleCGIWrite close nobody else's descriptor, although the kernel gives
\* closed descriptors and reaped pids to the next script at once.
THEOREM PipesAreOwned == Spec => []CgiPipesOwned
<1>1. PInv => CgiPipesOwned
  <2> SUFFICES ASSUME PInv, NEW f \in DOMAIN clients
               PROVE  LET c == clients[f] IN
                      /\ f \in Running /\ f # cur =>
                            /\ c.cgiFd \in Watched(pollfds)
                            /\ fdt[c.cgiFd] = [kind |-> "rd", of |-> c.cgiPid]
                      /\ c.cgiWriteFd # NoFd =>
                            /\ c.cgiWriteFd \in Watched(pollfds)
                            /\ fdt[c.cgiWriteFd].kind = "wr"
                            /\ fdt[c.cgiWriteFd].of = (IF f \in Running THEN c.cgiPid ELSE None)
                            /\ \A g \in DOMAIN clients \ {f} : clients[g].cgiWriteFd # c.cgiWriteFd
    BY DEF CgiPipesOwned
  <2>1. Owned(f) /\ Pipes /\ (f \in Running <=> clients[f].cgiRunning)
    BY DEF PInv, IInv, AllOwned, Running
  <2>2. \A g \in Fd : fdt[g] = [kind |-> fdt[g].kind, of |-> fdt[g].of]
    BY DEF PInv, IInv, Objects, DescriptorType
  <2> QED
    BY <2>1, <2>2 DEF Owned, Pipes
<1> QED
  BY <1>1, PInvHolds, PTL

\* In _pollfds the socket of a client comes before the output pipe of its
\* script, whatever was erased and added since: the pass of run() in which
\* _handleCGIRead prepares an answer has visited the socket already.
THEOREM SocketsComeFirst == Spec => []SocketBeforePipes
<1>1. PInv => SocketBeforePipes
  <2> SUFFICES ASSUME PInv, NEW f \in Running \ {cur}
               PROVE  IndexOf(pollfds, f) < IndexOf(pollfds, clients[f].cgiFd)
    BY DEF SocketBeforePipes
  <2>1. /\ f \in DOMAIN clients /\ clients[f].cgiRunning /\ f # cur
        /\ Owned(f) /\ f \in Watched(pollfds) /\ IInv
    BY DEF Running, PInv, IInv, Tables, AllOwned
  <2>2. clients[f].cgiFd \in Watched(pollfds)
    BY <2>1 DEF Owned
  <2> QED
    BY <2>1, <2>2, EntryAt DEF Owned
<1> QED
  BY <1>1, PInvHolds, PTL

\* The entry of a client's socket asks for POLLOUT exactly when the client has
\* a response to send: the poll() of run() neither wakes for a socket with
\* nothing to write nor waits for one with an answer to go out.
THEOREM ModesMatch == Spec => []ModeMatches
<1>1. Init => ModeMatches
  BY DEF Init, ModeMatches
<1>2. ModeMatches /\ IInv' /\ [Follows]_vars => ModeMatches'
  <2>1. ASSUME ModeMatches, IInv', Follows PROVE ModeMatches'
    <3> SUFFICES ASSUME NEW k \in DOMAIN pollfds', pollfds'[k].fd \in DOMAIN clients'
                 PROVE  pollfds'[k].events = "OUT" <=> clients'[pollfds'[k].fd].responseReady
      BY DEF ModeMatches
    <3> DEFINE f == pollfds'[k].fd
               x == pollfds'[k].events
    <3>1. x \in {"IN", "OUT"} /\ clients'[f].responseReady \in BOOLEAN
      <4>1. pollfds'[k] \in EntryType /\ clients'[f] \in ClientType
        BY <2>1 DEF IInv, Vector, Objects
      <4> QED
        BY <4>1 DEF EntryType, ClientType
    <3>2. Asks(pollfds', f, x)
      BY DEF Asks
    <3>3. CASE x = Mode(clients'[f])
      BY <3>1, <3>3 DEF Mode
    <3>4. CASE /\ Asks(pollfds, f, x) /\ f \in DOMAIN clients
               /\ clients'[f].responseReady = clients[f].responseReady
      BY <2>1, <3>4 DEF ModeMatches, Asks
    <3> QED
      BY <2>1, <3>1, <3>2, <3>3, <3>4 DEF Follows, ModesFollow
  <2>2. ASSUME ModeMatches, UNCHANGED vars PROVE ModeMatches'
    BY <2>2 DEF ModeMatches, vars
  <2> QED
    BY <2>1, <2>2
<1> QED
  BY <1>1, <1>2, FollowsAlways, InvariantHolds, PTL DEF Spec

\* The erase() of _removePollFd moves entries towards the front of _pollfds and
\* nothing moves one back: a pass of run() skips an entry at most as often as
\* there are entries before it.
THEOREM EntriesKeepPlace == Spec => KeepsPlace
<1>1. IInv /\ IInv' /\ [Follows]_vars =>
         [\A fd \in Watched(pollfds) \cap Watched(pollfds') :
             IndexOf(pollfds', fd) <= IndexOf(pollfds, fd)]_vars
  <2>1. ASSUME IInv, IInv', Follows, NEW f \in Watched(pollfds) \cap Watched(pollfds')
        PROVE  IndexOf(pollfds', f) <= IndexOf(pollfds, f)
    <3>1. /\ IndexOf(pollfds, f) \in DOMAIN pollfds
          /\ pollfds[IndexOf(pollfds, f)].fd = f
      BY <2>1, EntryAt
    <3>2. /\ IndexOf(pollfds', f) \in DOMAIN pollfds'
          /\ pollfds'[IndexOf(pollfds', f)].fd = f
      <4>1. pollfds' \in Seq(EntryType)
        BY <2>1 DEF IInv, Vector
      <4> QED
        BY <4>1, IndexOfWatched
    <3> QED
      BY <2>1, <3>1, <3>2 DEF Follows, InOrder, Onward
  <2> QED
    BY <2>1
<1> QED
  BY <1>1, FollowsAlways, InvariantHolds, PTL DEF KeepsPlace

LEMMA WatchedAtStart ==
    ASSUME Init, NEW f \in Fd, fdt[f].kind # "free"
    PROVE  f \in Watched(pollfds)
<1>1. f \in ListenFds
  BY DEF Init, Closed
<1>2. DOMAIN pollfds = ListenFds /\ pollfds[f].fd = f
  BY <1>1 DEF Init
<1> QED
  BY <1>1, <1>2 DEF Watched

\* Whatever the server opens is in _pollfds until it is closed, and so within
\* reach of a later pass, as long as no second pipe() of CGI::execute fails:
\* neither the accept() nor the removals of run() lose a descriptor.
THEOREM NothingIsLost == Spec /\ [][~LeakPipe]_vars => []NothingOpenUnwatched
<1>1. Init => NothingOpenUnwatched
  <2> SUFFICES ASSUME Init, NEW f \in Fd, fdt[f].kind # "free" PROVE f \in Watched(pollfds)
    BY DEF NothingOpenUnwatched
  <2> QED
    BY WatchedAtStart
<1>2. /\ NothingOpenUnwatched /\ [Next]_vars
      /\ [Follows]_vars /\ [~LeakPipe]_vars
      => NothingOpenUnwatched'
  <2>1. ASSUME NothingOpenUnwatched, [Next]_vars, Follows, ~LeakPipe PROVE NothingOpenUnwatched'
    <3>1. ASSUME pc' # "stopped", NEW f \in Fd, fdt'[f].kind # "free"
          PROVE  f \in Watched(pollfds')
      <4>1. ~Stop
        BY <3>1 DEF Stop
      <4>2. pc # "stopped"
        BY <3>1, <2>1, HaltedStays DEF vars
      <4> QED
        BY <2>1, <3>1, <4>1, <4>2
        DEF Follows, OpenedAreWatched, DroppedAreClosed, NothingOpenUnwatched
    <3> QED
      BY <3>1 DEF NothingOpenUnwatched
  <2>2. ASSUME NothingOpenUnwatched, UNCHANGED vars PROVE NothingOpenUnwatched'
    BY <2>2 DEF NothingOpenUnwatched, vars
  <2> QED
    BY <2>1, <2>2
<1> QED
  BY <1>1, <1>2, FollowsAlways, PTL DEF Spec


\* CGI::execute leaves the two ends of its first pipe open when its second
\* pipe() fails.  Nothing else is ever open and unwatched, however short of
\* descriptors the server is: no listening socket, no client's socket and no
\* pipe of a script that has not been reaped.
THEOREM OnlyFailedPipesAreLost == Spec => []OnlyPipesAreLost
<1>1. Init => OnlyPipesAreLost
  <2> SUFFICES ASSUME Init, NEW f \in Fd, fdt[f].kind # "free" PROVE f \in Watched(pollfds)
    BY DEF OnlyPipesAreLost
  <2> QED
    BY WatchedAtStart
<1>2. IInv /\ OnlyPipesAreLost /\ [Next]_vars /\ [Follows]_vars => OnlyPipesAreLost'
  <2>1. ASSUME IInv, OnlyPipesAreLost, [Next]_vars, Follows PROVE OnlyPipesAreLost'
    <3> SUFFICES ASSUME pc' # "stopped", NEW f \in Fd, fdt'[f].kind # "free",
                        f \notin Watched(pollfds')
                 PROVE  fdt'[f].kind \in {"rd", "wr"} /\ fdt'[f].of = None
      BY DEF OnlyPipesAreLost
    <3>1. ~Stop /\ pc # "stopped"
      BY <2>1, HaltedStays DEF Stop, vars
    <3>2. f \notin Watched(pollfds)
      BY <2>1, <3>1 DEF Follows, DroppedAreClosed
    <3>3. CASE fdt[f].kind # "free"
      <4>1. fdt[f].kind \in {"rd", "wr"} /\ fdt[f].of = None
        BY <2>1, <3>1, <3>2, <3>3 DEF OnlyPipesAreLost
      <4>2. ~Gone(None)
        BY NoneIsNobody DEF Gone
      <4> QED
        BY <2>1, <4>1, <4>2 DEF Follows, PipesFollow
    <3>4. CASE fdt[f].kind = "free"
      <4>1. LeakPipe
        BY <2>1, <3>4 DEF Follows, OpenedAreWatched
      <4>2. PICK a \in Free, b \in Free :
               fdt' = [fdt EXCEPT ![a] = [kind |-> "rd", of |-> None],
                                  ![b] = [kind |-> "wr", of |-> None]]
        BY <4>1 DEF LeakPipe
      <4>3. DOMAIN fdt = Fd
        BY <2>1 DEF IInv, Objects
      <4> QED
        BY <3>4, <4>2, <4>3
    <3> QED
      BY <3>3, <3>4
  <2>2. ASSUME OnlyPipesAreLost, UNCHANGED vars PROVE OnlyPipesAreLost'
    BY <2>2 DEF OnlyPipesAreLost, vars
  <2> QED
    BY <2>1, <2>2
<1> QED
  BY <1>1, <1>2, FollowsAlways, InvariantHolds, PTL DEF Spec
=============================================================================
