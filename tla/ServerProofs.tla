---------------------------- MODULE ServerProofs ----------------------------
(***************************************************************************)
(* Theorems about the event loop, for any number of peers, scripts,        *)
(* descriptors and listening sockets, whatever peers and scripts do.       *)
(***************************************************************************)
EXTENDS ServerProperties, FiniteSetTheorems, SequenceTheorems, WellFoundedInduction, TLAPS

-----------------------------------------------------------------------------
(* What the operations on _pollfds do to a vector of any length: which     *)
(* descriptors are watched afterwards, and that none is watched twice.     *)

\* The entries for descriptors in F.
Entries(F) == [fd : F, events : {"IN", "OUT"}, revents : SUBSET Bits]

\* IndexOf finds a descriptor that is watched: the search loops end with it.
LEMMA IndexOfWatched ==
    ASSUME NEW E, NEW s \in Seq(E), NEW fd \in Watched(s)
    PROVE  IndexOf(s, fd) \in DOMAIN s /\ s[IndexOf(s, fd)].fd = fd
<1> DEFINE K == {k \in DOMAIN s : s[k].fd = fd}
<1>1. K # {} /\ K \subseteq Nat
  BY DEF Watched
<1> DEFINE R == {ss \in Nat \X Nat : ss[1] < ss[2]}
<1>a. IsWellFoundedOn(R, Nat)
  BY NatLessThanWellFounded, Zenon DEF OpToRel
<1>2. PICK k \in K : \A j \in K : ~(<<j, k>> \in R)
  <2> HIDE DEF K, R
  <2> QED
    BY <1>1, <1>a, WFMin
<1>3. \A j \in 1..(k - 1) : s[j].fd # fd
  <2> SUFFICES ASSUME NEW j \in 1..(k - 1), s[j].fd = fd PROVE FALSE
    OBVIOUS
  <2>1. j \in K /\ j < k /\ k \in Nat /\ j \in Nat
    BY DEF K
  <2> QED
    BY <1>2, <2>1
<1> QED
  BY <1>2, <1>3 DEF IndexOf

\* erase(begin() + k - 1): what comes after entry k moves one place forward.
LEMMA RemoveAtEntries ==
    ASSUME NEW E, NEW s \in Seq(E), NEW k \in 1..Len(s)
    PROVE  /\ RemoveAt(s, k) \in Seq(E)
           /\ Len(RemoveAt(s, k)) = Len(s) - 1
           /\ \A j \in 1..(Len(s) - 1) :
                 RemoveAt(s, k)[j] = IF j < k THEN s[j] ELSE s[j + 1]
<1> DEFINE a == SubSeq(s, 1, k - 1)
           b == SubSeq(s, k + 1, Len(s))
<1>1. RemoveAt(s, k) = a \o b
  BY DEF RemoveAt
<1>2. a \in Seq(E) /\ Len(a) = k - 1 /\ \A j \in 1..(k - 1) : a[j] = s[j]
  OBVIOUS
<1>3. b \in Seq(E) /\ Len(b) = Len(s) - k /\ \A j \in 1..(Len(s) - k) : b[j] = s[k + j]
  OBVIOUS
<1> HIDE DEF a, b
<1>4. /\ a \o b \in Seq(E)
      /\ Len(a \o b) = Len(s) - 1
      /\ \A j \in 1..(Len(s) - 1) :
            (a \o b)[j] = IF j <= k - 1 THEN a[j] ELSE b[j - (k - 1)]
  <2>1. Len(a) + Len(b) = Len(s) - 1
    BY <1>2, <1>3
  <2>2. /\ a \o b \in Seq(E)
        /\ Len(a \o b) = Len(a) + Len(b)
        /\ \A j \in 1..(Len(a) + Len(b)) :
              (a \o b)[j] = IF j <= Len(a) THEN a[j] ELSE b[j - Len(a)]
    BY <1>2, <1>3, ConcatProperties, Zenon
  <2> QED
    BY <1>2, <2>1, <2>2
<1>5. ASSUME NEW j \in 1..(Len(s) - 1)
      PROVE  (a \o b)[j] = IF j < k THEN s[j] ELSE s[j + 1]
  <2>1. CASE j < k
    BY <2>1, <1>2, <1>4
  <2>2. CASE ~(j < k)
    <3> DEFINE l == j - (k - 1)
    <3>1. l \in 1..(Len(s) - k) /\ k + l = j + 1 /\ ~(j <= k - 1)
      BY <2>2
    <3>2. (a \o b)[j] = b[l]
      BY <1>4, <3>1
    <3> HIDE DEF l
    <3>3. b[l] = s[k + l]
      BY <1>3, <3>1
    <3> QED
      BY <2>2, <3>1, <3>2, <3>3
  <2> QED
    BY <2>1, <2>2
<1> QED
  BY <1>1, <1>4, <1>5

\* A new entry makes its descriptor watched, and watched once if it was not.
LEMMA AddPollFdWatches ==
    ASSUME NEW F, NEW s \in Seq(Entries(F)), NEW fd \in F, NEW e \in {"IN", "OUT"}
    PROVE  /\ AddPollFd(s, fd, e) \in Seq(Entries(F))
           /\ Watched(AddPollFd(s, fd, e)) = Watched(s) \cup {fd}
           /\ Distinct(s) /\ fd \notin Watched(s) => Distinct(AddPollFd(s, fd, e))
           /\ Len(AddPollFd(s, fd, e)) = Len(s) + 1
           /\ \A k \in 1..Len(s) : AddPollFd(s, fd, e)[k] = s[k]
           /\ AddPollFd(s, fd, e)[Len(s) + 1].revents = {}
<1> DEFINE n == [fd |-> fd, events |-> e, revents |-> {}]
           t == AddPollFd(s, fd, e)
<1>1. n \in Entries(F)
  BY DEF Entries
<1>2. /\ t \in Seq(Entries(F))
      /\ Len(t) = Len(s) + 1
      /\ \A k \in 1..Len(s) : t[k] = s[k]
      /\ t[Len(s) + 1].fd = fd
      /\ t[Len(s) + 1].revents = {}
  BY <1>1 DEF AddPollFd
<1>3. Watched(t) = Watched(s) \cup {fd}
  BY <1>2 DEF Watched
<1>4. Distinct(s) /\ fd \notin Watched(s) => Distinct(t)
  BY <1>2 DEF Distinct, Watched
<1> QED
  BY <1>2, <1>3, <1>4

\* Removing an entry leaves the others, each still once.
LEMMA RemovePollFdUnwatches ==
    ASSUME NEW F, NEW s \in Seq(Entries(F)), NEW fd, Distinct(s)
    PROVE  /\ RemovePollFd(s, fd) \in Seq(Entries(F))
           /\ Watched(RemovePollFd(s, fd)) = Watched(s) \ {fd}
           /\ Distinct(RemovePollFd(s, fd))
           /\ \A k \in DOMAIN RemovePollFd(s, fd) :
                 \E j \in DOMAIN s : RemovePollFd(s, fd)[k] = s[j]
<1>1. CASE fd \notin Watched(s)
  BY <1>1 DEF RemovePollFd
<1>2. CASE fd \in Watched(s)
  <2> DEFINE x == IndexOf(s, fd)
             t == RemoveAt(s, x)
  <2>1. x \in 1..Len(s) /\ s[x].fd = fd
    BY <1>2, IndexOfWatched
  <2>2. RemovePollFd(s, fd) = t
    BY <1>2 DEF RemovePollFd
  <2> HIDE DEF x
  <2>3. /\ t \in Seq(Entries(F))
        /\ Len(t) = Len(s) - 1
        /\ \A j \in 1..(Len(s) - 1) : t[j] = IF j < x THEN s[j] ELSE s[j + 1]
    BY <2>1, RemoveAtEntries
  <2> HIDE DEF t
  <2>4. Watched(t) = Watched(s) \ {fd}
    <3>1. ASSUME NEW g \in Watched(t) PROVE g \in Watched(s) \ {fd}
      BY <2>1, <2>3 DEF Watched, Distinct
    <3>2. ASSUME NEW g \in Watched(s) \ {fd} PROVE g \in Watched(t)
      <4>1. PICK k \in 1..Len(s) : s[k].fd = g
        BY DEF Watched
      <4>2. CASE k < x
        BY <4>1, <4>2, <2>1, <2>3 DEF Watched
      <4>3. CASE k > x
        <5>1. k - 1 \in 1..(Len(s) - 1) /\ ~(k - 1 < x) /\ (k - 1) + 1 = k
          BY <4>3, <2>1
        <5> QED
          BY <4>1, <5>1, <2>3 DEF Watched
      <4> QED
        BY <4>1, <4>2, <4>3, <2>1
    <3> QED
      BY <3>1, <3>2
  <2>5. Distinct(t)
    BY <2>1, <2>3, SMTT(20) DEF Distinct
  <2>6. \A k \in DOMAIN t : \E j \in DOMAIN s : t[k] = s[j]
    BY <2>1, <2>3
  <2> QED
    BY <2>2, <2>3, <2>4, <2>5, <2>6
<1> QED
  BY <1>1, <1>2

LEMMA EventsOfEntry ==
    ASSUME NEW F, NEW r \in Entries(F), NEW e \in {"IN", "OUT"}
    PROVE  /\ [r EXCEPT !.events = e] \in Entries(F)
           /\ [r EXCEPT !.events = e].fd = r.fd
           /\ [r EXCEPT !.events = e].revents = r.revents
  BY DEF Entries

\* Changing the event moves nothing.
LEMMA SetEventsKeeps ==
    ASSUME NEW F, NEW s \in Seq(Entries(F)), NEW fd, NEW e \in {"IN", "OUT"}
    PROVE  /\ SetEvents(s, fd, e) \in Seq(Entries(F))
           /\ Watched(SetEvents(s, fd, e)) = Watched(s)
           /\ Distinct(s) => Distinct(SetEvents(s, fd, e))
           /\ Len(SetEvents(s, fd, e)) = Len(s)
           /\ \A k \in 1..Len(s) : /\ SetEvents(s, fd, e)[k].fd = s[k].fd
                                  /\ SetEvents(s, fd, e)[k].revents = s[k].revents
<1>1. CASE fd \notin Watched(s)
  BY <1>1 DEF SetEvents
<1>2. CASE fd \in Watched(s)
  <2> DEFINE x == IndexOf(s, fd)
             t == [s EXCEPT ![x].events = e]
  <2>1. x \in 1..Len(s)
    BY <1>2, IndexOfWatched
  <2>2. SetEvents(s, fd, e) = t
    BY <1>2 DEF SetEvents
  <2> HIDE DEF x
  <2> DEFINE r == [s[x] EXCEPT !.events = e]
  <2>3. s[x] \in Entries(F)
    BY <2>1
  <2>4. r \in Entries(F) /\ r.fd = s[x].fd /\ r.revents = s[x].revents
    BY <2>3, EventsOfEntry
  <2>a. t = [s EXCEPT ![x] = r]
    OBVIOUS
  <2> HIDE DEF r, t
  <2>5. t \in Seq(Entries(F)) /\ Len(t) = Len(s)
    BY <2>1, <2>4, <2>a, ExceptSeq
  <2>6. \A k \in 1..Len(s) : t[k].fd = s[k].fd /\ t[k].revents = s[k].revents
    BY <2>1, <2>4, <2>a
  <2> QED
    BY <2>2, <2>5, <2>6 DEF Watched, Distinct
<1> QED
  BY <1>1, <1>2

-----------------------------------------------------------------------------
(* What the vector asks poll() for, and in which order.                    *)

Asks(s, fd, e) == \E k \in DOMAIN s : s[k].fd = fd /\ s[k].events = e

\* From s to t every entry that stays moves forward or not at all, none
\* overtakes another, and those that are new come last.
Onward(s, t) ==
    /\ \A j \in DOMAIN s, k \in DOMAIN t : s[j].fd = t[k].fd => k <= j
    /\ \A j, l \in DOMAIN s, k, m \in DOMAIN t :
          s[j].fd = t[k].fd /\ s[l].fd = t[m].fd /\ j < l => k < m
    /\ \A k, m \in DOMAIN t :
          t[k].fd \in Watched(s) /\ t[m].fd \notin Watched(s) => k < m

\* With one entry per descriptor, the search for a descriptor ends at its entry.
LEMMA IndexOfEntry ==
    ASSUME NEW E, NEW s \in Seq(E), Distinct(s), NEW k \in DOMAIN s
    PROVE  IndexOf(s, s[k].fd) = k
<1>1. s[k].fd \in Watched(s)
  BY DEF Watched
<1>2. IndexOf(s, s[k].fd) \in DOMAIN s /\ s[IndexOf(s, s[k].fd)].fd = s[k].fd
  BY <1>1, IndexOfWatched
<1> QED
  BY <1>2 DEF Distinct

\* A vector with the same descriptors at the same places.
LEMMA SamePlacesOnward ==
    ASSUME NEW E, NEW s \in Seq(E), NEW t, Distinct(s),
           DOMAIN t = DOMAIN s, \A k \in DOMAIN s : t[k].fd = s[k].fd
    PROVE  Onward(s, t)
<1>1. DOMAIN s \subseteq Nat
  OBVIOUS
<1> QED
  BY <1>1 DEF Onward, Distinct, Watched

LEMMA OnwardTwice ==
    ASSUME NEW E, NEW s \in Seq(E), NEW t \in Seq(E), NEW u \in Seq(E),
           Onward(s, t), Onward(t, u),
           Watched(s) \cap Watched(u) \subseteq Watched(t)
    PROVE  Onward(s, u)
<1>1. DOMAIN s \subseteq Nat /\ DOMAIN t \subseteq Nat /\ DOMAIN u \subseteq Nat
  OBVIOUS
<1>2. ASSUME NEW j \in DOMAIN s, NEW k \in DOMAIN u, s[j].fd = u[k].fd
      PROVE  \E x \in DOMAIN t : t[x].fd = u[k].fd
  BY <1>2 DEF Watched
<1>3. ASSUME NEW j \in DOMAIN s, NEW k \in DOMAIN u, s[j].fd = u[k].fd PROVE k <= j
  <2>1. PICK x \in DOMAIN t : t[x].fd = u[k].fd
    BY <1>2, <1>3
  <2>2. x <= j /\ k <= x
    BY <1>3, <2>1 DEF Onward
  <2> QED
    BY <2>2, <1>1
<1>4. ASSUME NEW j \in DOMAIN s, NEW l \in DOMAIN s, NEW k \in DOMAIN u, NEW m \in DOMAIN u,
             s[j].fd = u[k].fd, s[l].fd = u[m].fd, j < l
      PROVE  k < m
  <2>1. PICK x \in DOMAIN t : t[x].fd = u[k].fd
    BY <1>2, <1>4
  <2>2. PICK y \in DOMAIN t : t[y].fd = u[m].fd
    BY <1>2, <1>4
  <2>3. x < y
    BY <1>4, <2>1, <2>2 DEF Onward
  <2> QED
    BY <2>1, <2>2, <2>3 DEF Onward
<1>5. ASSUME NEW k \in DOMAIN u, NEW m \in DOMAIN u,
             u[k].fd \in Watched(s), u[m].fd \notin Watched(s)
      PROVE  k < m
  <2>1. PICK x \in DOMAIN t : t[x].fd = u[k].fd
    BY <1>5 DEF Watched
  <2>2. CASE u[m].fd \in Watched(t)
    <3>1. PICK y \in DOMAIN t : t[y].fd = u[m].fd
      BY <2>2 DEF Watched
    <3>2. x < y
      BY <1>5, <2>1, <3>1 DEF Onward
    <3> QED
      BY <2>1, <3>1, <3>2 DEF Onward
  <2>3. CASE u[m].fd \notin Watched(t)
    <3>1. u[k].fd \in Watched(t)
      BY <2>1 DEF Watched
    <3> QED
      BY <2>3, <3>1 DEF Onward
  <2> QED
    BY <2>2, <2>3
<1> QED
  BY <1>3, <1>4, <1>5 DEF Onward

LEMMA AddPollFdOnward ==
    ASSUME NEW F, NEW s \in Seq(Entries(F)), NEW fd \in F, NEW e \in {"IN", "OUT"},
           Distinct(s), fd \notin Watched(s)
    PROVE  /\ Onward(s, AddPollFd(s, fd, e))
           /\ \A g, x : Asks(AddPollFd(s, fd, e), g, x) <=>
                          Asks(s, g, x) \/ (g = fd /\ x = e)
<1> DEFINE n == [fd |-> fd, events |-> e, revents |-> {}]
           t == AddPollFd(s, fd, e)
<1>1. n \in Entries(F)
  BY DEF Entries
<1>2. /\ DOMAIN t = 1..(Len(s) + 1)
      /\ DOMAIN s = 1..Len(s) /\ Len(s) \in Nat
      /\ \A k \in 1..Len(s) : t[k] = s[k]
      /\ t[Len(s) + 1] = n
  BY <1>1 DEF AddPollFd
<1>3. n.fd = fd /\ n.events = e
  OBVIOUS
<1> HIDE DEF n, t
<1>4. \A k \in DOMAIN t : k \in DOMAIN s \/ k = Len(s) + 1
  BY <1>2
<1>5. \A g, x : Asks(t, g, x) <=> Asks(s, g, x) \/ (g = fd /\ x = e)
  <2> SUFFICES ASSUME NEW g, NEW x
               PROVE  Asks(t, g, x) <=> Asks(s, g, x) \/ (g = fd /\ x = e)
    OBVIOUS
  <2>1. Len(s) + 1 \in DOMAIN t /\ \A k \in DOMAIN s : k \in DOMAIN t
    BY <1>2
  <2> QED
    BY <1>2, <1>3, <1>4, <2>1 DEF Asks
<1>6. Onward(s, t)
  BY <1>2, <1>3, <1>4 DEF Onward, Watched, Distinct
<1> QED
  BY <1>5, <1>6 DEF t

LEMMA RemovePollFdOnward ==
    ASSUME NEW F, NEW s \in Seq(Entries(F)), NEW fd, Distinct(s)
    PROVE  /\ Onward(s, RemovePollFd(s, fd))
           /\ \A g, x : Asks(RemovePollFd(s, fd), g, x) <=> Asks(s, g, x) /\ g # fd
<1>1. CASE fd \notin Watched(s)
  <2>1. Onward(s, s)
    BY SamePlacesOnward
  <2> QED
    BY <1>1, <2>1 DEF RemovePollFd, Asks, Watched
<1>2. CASE fd \in Watched(s)
  <2> DEFINE x == IndexOf(s, fd)
             t == RemoveAt(s, x)
  <2>1. x \in 1..Len(s) /\ s[x].fd = fd
    BY <1>2, IndexOfWatched
  <2>2. RemovePollFd(s, fd) = t
    BY <1>2 DEF RemovePollFd
  <2> HIDE DEF x
  <2>3. /\ DOMAIN t = 1..(Len(s) - 1) /\ DOMAIN s = 1..Len(s) /\ Len(s) \in Nat
        /\ \A j \in 1..(Len(s) - 1) : t[j] = IF j < x THEN s[j] ELSE s[j + 1]
    BY <2>1, RemoveAtEntries
  <2> HIDE DEF t
  <2> DEFINE was(k) == IF k < x THEN k ELSE k + 1
  <2>4. \A k \in DOMAIN t : was(k) \in DOMAIN s /\ was(k) # x /\ t[k] = s[was(k)]
    BY <2>1, <2>3
  <2>5. \A k \in DOMAIN t, j \in DOMAIN s : t[k].fd = s[j].fd => j = was(k)
    BY <2>4 DEF Distinct
  <2>6. Onward(s, t)
    <3>1. \A k \in DOMAIN t : t[k].fd \in Watched(s)
      BY <2>4 DEF Watched
    <3>2. \A k \in DOMAIN t, j \in DOMAIN s : s[j].fd = t[k].fd => k <= j
      BY <2>3, <2>5
    <3>3. \A j, l \in DOMAIN s, k, m \in DOMAIN t :
             s[j].fd = t[k].fd /\ s[l].fd = t[m].fd /\ j < l => k < m
      BY <2>1, <2>3, <2>5
    <3> QED
      BY <3>1, <3>2, <3>3 DEF Onward
  <2>7. ASSUME NEW g, NEW e PROVE Asks(t, g, e) <=> Asks(s, g, e) /\ g # fd
    <3>1. Asks(t, g, e) => Asks(s, g, e) /\ g # fd
      <4> SUFFICES ASSUME NEW k \in DOMAIN t, t[k].fd = g, t[k].events = e
                   PROVE  Asks(s, g, e) /\ g # fd
        BY DEF Asks
      <4>1. was(k) \in DOMAIN s /\ was(k) # x /\ t[k] = s[was(k)]
        BY <2>4
      <4> HIDE DEF was
      <4> QED
        BY <4>1, <2>1 DEF Asks, Distinct
    <3>2. ASSUME Asks(s, g, e), g # fd PROVE Asks(t, g, e)
      <4>1. PICK j \in DOMAIN s : s[j].fd = g /\ s[j].events = e
        BY <3>2 DEF Asks
      <4>2. CASE j < x
        <5>1. j \in DOMAIN t /\ t[j] = s[j]
          BY <4>2, <2>1, <2>3
        <5> QED
          BY <4>1, <5>1 DEF Asks
      <4>3. CASE j > x
        <5>1. j - 1 \in DOMAIN t /\ ~(j - 1 < x) /\ (j - 1) + 1 = j
          BY <4>3, <2>1, <2>3
        <5>2. t[j - 1] = s[j]
          BY <5>1, <2>3
        <5> QED
          BY <4>1, <5>1, <5>2 DEF Asks
      <4> QED
        BY <4>1, <4>2, <4>3, <2>1, <2>3, <3>2
    <3> QED
      BY <3>1, <3>2
  <2> QED
    BY <2>2, <2>6, <2>7
<1> QED
  BY <1>1, <1>2

LEMMA SetEventsOnward ==
    ASSUME NEW F, NEW s \in Seq(Entries(F)), NEW fd, NEW e \in {"IN", "OUT"}, Distinct(s)
    PROVE  /\ Onward(s, SetEvents(s, fd, e))
           /\ \A g, x : Asks(SetEvents(s, fd, e), g, x) <=>
                 IF g = fd THEN fd \in Watched(s) /\ x = e ELSE Asks(s, g, x)
<1>0. Onward(s, SetEvents(s, fd, e))
  <2>1. /\ SetEvents(s, fd, e) \in Seq(Entries(F))
        /\ Len(SetEvents(s, fd, e)) = Len(s)
        /\ \A k \in 1..Len(s) : SetEvents(s, fd, e)[k].fd = s[k].fd
    BY SetEventsKeeps
  <2>2. DOMAIN SetEvents(s, fd, e) = DOMAIN s /\ DOMAIN s = 1..Len(s)
    BY <2>1
  <2> QED
    BY <2>1, <2>2, SamePlacesOnward
<1>1. CASE fd \notin Watched(s)
  BY <1>0, <1>1 DEF SetEvents, Asks, Watched
<1>2. CASE fd \in Watched(s)
  <2> DEFINE x == IndexOf(s, fd)
             r == [s[x] EXCEPT !.events = e]
             t == [s EXCEPT ![x] = r]
  <2>1. x \in DOMAIN s /\ s[x].fd = fd
    BY <1>2, IndexOfWatched
  <2>2. SetEvents(s, fd, e) = t
    BY <1>2 DEF SetEvents
  <2>3. r.fd = fd /\ r.events = e
    <3>1. s[x] \in Entries(F)
      BY <2>1
    <3> HIDE DEF x
    <3> QED
      BY <2>1, <3>1 DEF Entries
  <2> HIDE DEF x, r
  <2>4. DOMAIN t = DOMAIN s /\ t[x] = r /\ \A k \in DOMAIN s \ {x} : t[k] = s[k]
    BY <2>1
  <2> HIDE DEF t
  <2>5. \A k \in DOMAIN s : s[k].fd = fd => k = x
    BY <2>1 DEF Distinct
  <2>6. ASSUME NEW g, NEW y
        PROVE  Asks(t, g, y) <=> IF g = fd THEN y = e ELSE Asks(s, g, y)
    <3>1. CASE g = fd
      BY <3>1, <2>1, <2>3, <2>4, <2>5 DEF Asks
    <3>2. CASE g # fd
      BY <3>2, <2>1, <2>3, <2>4, <2>5 DEF Asks
    <3> QED
      BY <3>1, <3>2
  <2> QED
    BY <1>0, <1>2, <2>2, <2>6
<1> QED
  BY <1>1, <1>2

-----------------------------------------------------------------------------
(* The inductive invariant.                                                *)

\* The loop is where it can be, and at an entry that exists.
Place ==
    /\ pc \in Places
    /\ i \in Nat
    /\ pc = "pass" => i \in DOMAIN pollfds /\ pollfds[i].revents # {}

\* A listening socket that the pass has still to visit has a connection
\* waiting, so accept() will return one.
Ready(s, b) ==
    \A k \in DOMAIN s : s[k].fd \in ListenFds /\ s[k].revents # {} => b[s[k].fd] # <<>>

Vector ==
    /\ pollfds \in Seq(EntryType)
    /\ Distinct(pollfds)
    /\ Ready(pollfds, backlog)

World ==
    /\ proc \in [Pid -> ScriptType]
    /\ peer \in [Peer -> PeerType]
    /\ backlog \in [ListenFds -> Seq(Peer)]

Objects ==
    /\ DOMAIN clients \subseteq Fd
    /\ clients \in [DOMAIN clients -> ClientType]
    /\ fdt \in [Fd -> DescriptorType]

\* Sockets, clients and the vector agree.
Tables ==
    /\ \A fd \in Watched(pollfds) : fdt[fd].kind # "free"
    /\ \A fd \in Fd : fd \in DOMAIN clients <=> fdt[fd].kind = "sock"
    /\ DOMAIN clients \subseteq Watched(pollfds)
    /\ pc # "stopped" => \A fd \in ListenFds : fdt[fd].kind = "listen"

\* The pipes a client remembers are open, and no other client's.  The output
\* pipe of cur is closed already.
Pipes ==
    /\ \A f \in DOMAIN clients :
          /\ clients[f].cgiRunning /\ f # cur =>
                clients[f].cgiFd \in Fd /\ fdt[clients[f].cgiFd].kind = "rd"
          /\ clients[f].cgiWriteFd # NoFd =>
                clients[f].cgiWriteFd \in Fd /\ fdt[clients[f].cgiWriteFd].kind = "wr"
    /\ \A f, g \in DOMAIN clients : f # g =>
          /\ clients[f].cgiRunning /\ clients[g].cgiRunning =>
                clients[f].cgiFd # clients[g].cgiFd
          /\ clients[f].cgiWriteFd # NoFd => clients[f].cgiWriteFd # clients[g].cgiWriteFd

\* What the loop remembers between two steps is still so.
Memory ==
    /\ pc = "waitpid" => cur \in Running
    /\ pc # "waitpid" => cur = NoFd
    /\ hung \subseteq Running
    /\ stale \subseteq DOMAIN clients
    /\ hung \cap stale = {}
    /\ pc # "purge" => hung = {} /\ stale = {}

IInv == Place /\ Vector /\ World /\ Objects /\ Tables /\ Pipes /\ Memory

-----------------------------------------------------------------------------
(* The operations on a client.                                             *)

SamePipes(c, d) ==
    /\ d.cgiRunning = c.cgiRunning
    /\ d.cgiFd = c.cgiFd
    /\ d.cgiWriteFd = c.cgiWriteFd

LEMMA Bounds ==
    /\ 0 \in 0..RespSize /\ RespSize \in 0..RespSize
    /\ 0 \in 0..BodySize /\ BodySize \in 0..BodySize
    /\ 0 \in Ages
  BY SizesAreNatural DEF Ages

LEMMA NewClientType ==
    NewClient \in ClientType /\ ~NewClient.cgiRunning /\ NewClient.cgiWriteFd = NoFd
  BY Bounds DEF NewClient, ClientType, Answers

LEMMA ResetType == \A c : Reset(c) = NewClient
  BY DEF Reset

LEMMA RespondType ==
    ASSUME NEW c \in ClientType, NEW what \in Answers
    PROVE  Respond(c, what) \in ClientType /\ SamePipes(c, Respond(c, what))
<1>1. Respond(c, what) \in ClientType
  BY Bounds DEF Respond, ClientType
<1>2. SamePipes(c, Respond(c, what))
  BY DEF Respond, ClientType, SamePipes
<1> QED
  BY <1>1, <1>2

LEMMA LaunchedType ==
    ASSUME NEW c \in ClientType, NEW pid \in Pid, NEW rd \in Fd, NEW wr \in Fd
    PROVE  LET d == Launched(c, pid, rd, wr)
           IN  /\ d \in ClientType
               /\ d.cgiRunning
               /\ d.cgiFd = rd
               /\ d.cgiWriteFd = IF c.req = "scriptBody" THEN wr ELSE NoFd
  BY Bounds DEF Launched, ClientType

LEMMA SentType ==
    ASSUME NEW c \in ClientType, NEW n \in 1..(c.unsent - 1)
    PROVE  Sent(c, n) \in ClientType /\ SamePipes(c, Sent(c, n))
<1>a. c.unsent \in 0..RespSize
  BY DEF ClientType
<1>b. RespSize \in Nat
  BY SizesAreNatural
<1>1. c.unsent - n \in 0..RespSize
  BY <1>a, <1>b
<1> QED
  BY <1>1, Bounds DEF Sent, ClientType, SamePipes

LEMMA BodyDoneType ==
    ASSUME NEW c \in ClientType
    PROVE  /\ BodyDone(c) \in ClientType
           /\ BodyDone(c).cgiRunning = c.cgiRunning
           /\ BodyDone(c).cgiFd = c.cgiFd
           /\ BodyDone(c).cgiWriteFd = NoFd
  BY Bounds DEF BodyDone, ClientType

LEMMA FinishedType ==
    ASSUME NEW c \in ClientType
    PROVE  /\ Finished(c) \in ClientType
           /\ ~Finished(c).cgiRunning
           /\ Finished(c).cgiWriteFd = c.cgiWriteFd
<1> DEFINE d == [c EXCEPT !.cgiRunning = FALSE, !.cgiFd = NoFd]
           what == IF c.cgiOutput THEN "output" ELSE "500"
<1>1. d \in ClientType /\ ~d.cgiRunning /\ d.cgiWriteFd = c.cgiWriteFd
  BY DEF ClientType
<1>2. Finished(c) = Respond(d, what) /\ what \in Answers
  BY DEF Finished, Answers
<1> HIDE DEF d, what
<1> QED
  BY <1>1, <1>2, RespondType DEF SamePipes

LEMMA GivenUpType ==
    ASSUME NEW c \in ClientType
    PROVE  /\ GivenUp(c) \in ClientType
           /\ ~GivenUp(c).cgiRunning
           /\ GivenUp(c).cgiWriteFd = NoFd
<1> DEFINE d == [c EXCEPT !.cgiRunning = FALSE, !.cgiFd = NoFd, !.cgiWriteFd = NoFd]
<1>1. d \in ClientType /\ ~d.cgiRunning /\ d.cgiWriteFd = NoFd
  BY DEF ClientType
<1>2. GivenUp(c) = Respond(d, "504") /\ "504" \in Answers
  BY DEF GivenUp, Answers
<1> HIDE DEF d
<1> QED
  BY <1>1, <1>2, RespondType DEF SamePipes

LEMMA OlderType ==
    ASSUME NEW c \in ClientType
    PROVE  Older(c) \in ClientType /\ SamePipes(c, Older(c))
<1> DEFINE a == IF c.idle > Timeout THEN c.idle ELSE c.idle + 1
           b == IF c.cgiRunning
                THEN IF c.cgiAge > Timeout THEN c.cgiAge ELSE c.cgiAge + 1 ELSE c.cgiAge
<1>1. Older(c) = [c EXCEPT !.idle = a, !.cgiAge = b]
  BY DEF Older
<1>2. a \in Ages /\ b \in Ages
  BY SizesAreNatural DEF ClientType, Ages
<1> HIDE DEF a, b
<1> QED
  BY <1>1, <1>2 DEF ClientType, SamePipes

LEMMA FedType ==
    ASSUME NEW c \in ClientType, NEW d \in Fed(c)
    PROVE  d \in ClientType /\ SamePipes(c, d)
<1>1. Refreshed(c) \in ClientType /\ SamePipes(c, Refreshed(c))
  BY Bounds DEF Refreshed, ClientType, SamePipes
<1>2. ASSUME NEW r \in Requests, NEW k \in BOOLEAN
      PROVE  Complete(c, r, k) \in ClientType /\ SamePipes(c, Complete(c, r, k))
  BY Bounds DEF Complete, ClientType, SamePipes
<1>3. \/ d = Refreshed(c)
      \/ \E r \in Requests, k \in BOOLEAN : d = Complete(c, r, k)
  BY DEF Fed
<1> QED
  BY <1>1, <1>2, <1>3

LEMMA OutputType ==
    ASSUME NEW c \in ClientType
    PROVE  /\ [c EXCEPT !.cgiOutput = TRUE] \in ClientType
           /\ SamePipes(c, [c EXCEPT !.cgiOutput = TRUE])
  BY DEF ClientType, SamePipes

LEMMA BodyLeftType ==
    ASSUME NEW c \in ClientType, NEW n \in 1..(c.bodyLeft - 1)
    PROVE  /\ [c EXCEPT !.bodyLeft = @ - n] \in ClientType
           /\ SamePipes(c, [c EXCEPT !.bodyLeft = @ - n])
<1>a. c.bodyLeft \in 0..BodySize
  BY DEF ClientType
<1>b. BodySize \in Nat
  BY SizesAreNatural
<1>1. c.bodyLeft - n \in 0..BodySize
  BY <1>a, <1>b
<1> QED
  BY <1>1 DEF ClientType, SamePipes

-----------------------------------------------------------------------------
(* Descriptors.                                                            *)

LEMMA EntryTypeIsEntries == EntryType = Entries(Fd)
  BY DEF EntryType, Entries

LEMMA FdIsNatural == Fd \subseteq Nat \ {0} /\ NoFd \notin Fd /\ ListenFds \subseteq Fd
  BY LimitsAreNatural DEF Fd, NoFd, ListenFds

LEMMA WatchedInFd ==
    ASSUME NEW s \in Seq(EntryType)
    PROVE  Watched(s) \subseteq Fd
<1>1. \A k \in DOMAIN s : s[k] \in EntryType
  OBVIOUS
<1>2. \A k \in DOMAIN s : s[k].fd \in Fd
  BY <1>1 DEF EntryType
<1> QED
  BY <1>2 DEF Watched

LEMMA CloseType ==
    ASSUME NEW t \in [Fd -> DescriptorType], NEW D
    PROVE  /\ Close(t, D) \in [Fd -> DescriptorType]
           /\ \A f \in Fd : Close(t, D)[f].kind = IF f \in D THEN "free" ELSE t[f].kind
<1>1. Closed \in DescriptorType /\ Closed.kind = "free"
  BY DEF Closed, DescriptorType, Kinds
<1>2. \A f \in Fd : t[f] \in DescriptorType
  OBVIOUS
<1> HIDE DEF DescriptorType, Closed
<1> QED
  BY <1>1, <1>2 DEF Close

LEMMA BuriedType ==
    ASSUME NEW r \in DescriptorType
    PROVE  [r EXCEPT !.of = None] \in DescriptorType /\ [r EXCEPT !.of = None].kind = r.kind
  BY DEF DescriptorType

LEMMA BuryType ==
    ASSUME NEW t \in [Fd -> DescriptorType], NEW S
    PROVE  /\ Bury(t, S) \in [Fd -> DescriptorType]
           /\ \A f \in Fd : Bury(t, S)[f].kind = t[f].kind
<1> DEFINE buried(r) == [r EXCEPT !.of = None]
           u == Bury(t, S)
<1>1. u = [f \in Fd |-> IF t[f].of \in S THEN buried(t[f]) ELSE t[f]]
  BY DEF Bury
<1>2. \A r \in DescriptorType : buried(r) \in DescriptorType /\ buried(r).kind = r.kind
  BY BuriedType
<1> HIDE DEF buried, u
<1>3. u \in [Fd -> DescriptorType] /\ \A f \in Fd : u[f].kind = t[f].kind
  <2>1. \A f \in Fd : t[f] \in DescriptorType
    OBVIOUS
  <2> HIDE DEF DescriptorType
  <2> QED
    BY <1>1, <1>2, <2>1
<1> QED
  BY <1>3 DEF u

-----------------------------------------------------------------------------
(* The pass over the vector.                                               *)

\* What ForgetBefore leaves.
LEMMA ForgetKeeps ==
    ASSUME NEW s \in Seq(EntryType), NEW j \in Nat, Distinct(s)
    PROVE  LET t == ForgetBefore(j, s)
           IN  /\ t \in Seq(EntryType)
               /\ DOMAIN t = DOMAIN s
               /\ Watched(t) = Watched(s)
               /\ Distinct(t)
               /\ \A k \in DOMAIN s : /\ t[k].fd = s[k].fd
                                      /\ k < j => t[k].revents = {}
                                      /\ k >= j => t[k] = s[k]
<1> DEFINE quiet(r) == [r EXCEPT !.revents = {}]
           t == ForgetBefore(j, s)
<1>1. t = [k \in DOMAIN s |-> IF k < j THEN quiet(s[k]) ELSE s[k]]
  BY DEF ForgetBefore
<1>2. \A r \in EntryType : quiet(r) \in EntryType /\ quiet(r).fd = r.fd /\ quiet(r).revents = {}
  BY DEF EntryType
<1>3. DOMAIN s = 1..Len(s) /\ Len(s) \in Nat /\ \A k \in DOMAIN s : s[k] \in EntryType
  OBVIOUS
<1> HIDE DEF quiet, t, EntryType
<1>4. \A k \in DOMAIN s : /\ t[k] \in EntryType
                          /\ t[k].fd = s[k].fd
                          /\ k < j => t[k].revents = {}
                          /\ k >= j => t[k] = s[k]
  BY <1>1, <1>2, <1>3
<1>5. t \in Seq(EntryType) /\ DOMAIN t = DOMAIN s
  <2>1. DOMAIN t = 1..Len(s)
    BY <1>1, <1>3
  <2>2. t \in [1..Len(s) -> EntryType]
    BY <1>1, <1>3, <1>4, <2>1
  <2> QED
    BY <2>1, <2>2, <1>3
<1>6. Watched(t) = Watched(s) /\ Distinct(t)
  <2>1. \A k \in DOMAIN s : t[k].fd = s[k].fd
    BY <1>4
  <2>2. DOMAIN t = DOMAIN s
    BY <1>5
  <2>3. Watched(t) = Watched(s)
    BY <2>1, <2>2 DEF Watched
  <2>4. Distinct(t)
    BY <2>1, <2>2 DEF Distinct
  <2> QED
    BY <2>3, <2>4
<1>7. \A k \in DOMAIN s : /\ t[k].fd = s[k].fd
                          /\ k < j => t[k].revents = {}
                          /\ k >= j => t[k] = s[k]
  BY <1>4
<1> QED
  BY <1>5, <1>6, <1>7 DEF t

\* No listening socket from entry k on is ready without a connection.
ReadyFrom(k, s, b) ==
    \A l \in DOMAIN s :
        l >= k /\ s[l].fd \in ListenFds /\ s[l].revents # {} => b[s[l].fd] # <<>>

LEMMA ScanKeeps ==
    ASSUME NEW k \in Nat \ {0}, NEW s \in Seq(EntryType), Distinct(s),
           ReadyFrom(k, s, backlog'), ScanFrom(k, s)
    PROVE  /\ Place' /\ Vector'
           /\ pc' \in {"pass", "timeouts"}
           /\ Watched(pollfds') = Watched(s)
<1>1. CASE pc' = "pass"
  <2>1. PICK j \in k..Len(s) : s[j].revents # {} /\ i' = j /\ pollfds' = ForgetBefore(j, s)
    BY <1>1 DEF ScanFrom
  <2>2. j \in Nat /\ j \in DOMAIN s /\ j >= k
    OBVIOUS
  <2>3. /\ pollfds' \in Seq(EntryType)
        /\ DOMAIN pollfds' = DOMAIN s
        /\ Watched(pollfds') = Watched(s)
        /\ Distinct(pollfds')
        /\ \A l \in DOMAIN s : /\ pollfds'[l].fd = s[l].fd
                               /\ l < j => pollfds'[l].revents = {}
                               /\ l >= j => pollfds'[l] = s[l]
    BY <2>1, <2>2, ForgetKeeps, ZenonT(40)
  <2>4. Ready(pollfds', backlog')
    <3> SUFFICES ASSUME NEW l \in DOMAIN pollfds', pollfds'[l].fd \in ListenFds,
                        pollfds'[l].revents # {}
                 PROVE  backlog'[pollfds'[l].fd] # <<>>
      BY DEF Ready
    <3>1. l \in Nat /\ l >= j
      BY <2>2, <2>3
    <3> QED
      BY <2>2, <2>3, <3>1 DEF ReadyFrom
  <2> QED
    BY <1>1, <2>1, <2>2, <2>3, <2>4 DEF Place, Places, Vector
<1>2. CASE pc' # "pass"
  <2>1. pc' = "timeouts" /\ i' = 0 /\ pollfds' = ForgetBefore(Len(s) + 1, s)
    BY <1>2 DEF ScanFrom
  <2>2. /\ pollfds' \in Seq(EntryType)
        /\ DOMAIN pollfds' = DOMAIN s
        /\ Watched(pollfds') = Watched(s)
        /\ Distinct(pollfds')
        /\ \A l \in DOMAIN s : l < Len(s) + 1 => pollfds'[l].revents = {}
    <3>1. Len(s) + 1 \in Nat
      OBVIOUS
    <3> QED
      BY <2>1, <3>1, ForgetKeeps
  <2>3. Ready(pollfds', backlog')
    BY <2>2 DEF Ready
  <2> QED
    BY <2>1, <2>2, <2>3 DEF Place, Places, Vector
<1> QED
  BY <1>1, <1>2

LEMMA GoOnKeeps ==
    ASSUME Place, NEW s \in Seq(EntryType), Distinct(s), Ready(s, backlog'), GoOn(s)
    PROVE  /\ Place' /\ Vector'
           /\ pc' \in {"pass", "timeouts"}
           /\ Watched(pollfds') = Watched(s)
<1>1. i + 1 \in Nat \ {0}
  BY DEF Place
<1>2. ReadyFrom(i + 1, s, backlog')
  BY DEF Ready, ReadyFrom
<1> QED
  BY <1>1, <1>2, ScanKeeps DEF GoOn

LEMMA ReventsType ==
    ASSUME Objects, Tables, pc # "stopped", NEW e \in EntryType
    PROVE  /\ Revents(e) \subseteq Bits
           /\ e.fd \in ListenFds /\ Revents(e) # {} => backlog[e.fd] # <<>>
<1>1. e.fd \in Fd
  BY DEF EntryType
<1>2. fdt[e.fd].kind \in {"free", "listen", "sock", "rd", "wr"}
  <2>1. fdt[e.fd] \in DescriptorType
    BY <1>1 DEF Objects
  <2> QED
    BY <2>1 DEF DescriptorType, Kinds
<1>3. e.fd \in ListenFds => fdt[e.fd].kind = "listen"
  BY DEF Tables
<1>4. CASE fdt[e.fd].kind = "listen"
  BY <1>4 DEF Revents, Bits
<1>5. CASE fdt[e.fd].kind = "sock"
  BY <1>5, <1>3 DEF Revents, Bits, SockEvents
<1>6. CASE fdt[e.fd].kind = "rd"
  BY <1>6, <1>3 DEF Revents, Bits, ReadEvents
<1>7. CASE fdt[e.fd].kind = "wr"
  BY <1>7, <1>3 DEF Revents, Bits, WriteEvents
<1>8. CASE fdt[e.fd].kind = "free"
  BY <1>8, <1>3 DEF Revents, Bits
<1> QED
  BY <1>2, <1>4, <1>5, <1>6, <1>7, <1>8

LEMMA PolledKeeps ==
    ASSUME Vector, Objects, Tables, pc # "stopped"
    PROVE  /\ Polled \in Seq(EntryType)
           /\ Distinct(Polled)
           /\ Watched(Polled) = Watched(pollfds)
           /\ Ready(Polled, backlog)
<1> DEFINE asked(r) == [r EXCEPT !.revents = Revents(r)]
           t == Polled
<1>1. t = [k \in DOMAIN pollfds |-> asked(pollfds[k])]
  BY DEF Polled
<1>2. ASSUME NEW r \in EntryType
      PROVE  /\ asked(r) \in EntryType
             /\ asked(r).fd = r.fd
             /\ r.fd \in ListenFds /\ asked(r).revents # {} => backlog[r.fd] # <<>>
  <2>1. Revents(r) \subseteq Bits
    BY ReventsType
  <2>2. asked(r) \in EntryType /\ asked(r).fd = r.fd /\ asked(r).revents = Revents(r)
    BY <2>1 DEF EntryType
  <2> QED
    BY <2>2, ReventsType
<1>3. /\ DOMAIN pollfds = 1..Len(pollfds) /\ Len(pollfds) \in Nat
      /\ \A k \in DOMAIN pollfds : pollfds[k] \in EntryType
  BY DEF Vector
<1> HIDE DEF asked, t, EntryType
<1>4. \A k \in DOMAIN pollfds : t[k] \in EntryType
  BY <1>1, <1>2, <1>3
<1>5. \A k \in DOMAIN pollfds : t[k].fd = pollfds[k].fd
  BY <1>1, <1>2, <1>3
<1>6. DOMAIN t = DOMAIN pollfds
  BY <1>1
<1>7. t \in Seq(EntryType)
  <2>1. t \in [1..Len(pollfds) -> EntryType]
    BY <1>1, <1>3, <1>4
  <2> QED
    BY <2>1, <1>3
<1>8. Watched(t) = Watched(pollfds)
  BY <1>5, <1>6 DEF Watched
<1>9. Distinct(t)
  BY <1>5, <1>6 DEF Distinct, Vector
<1>10. Ready(t, backlog)
  BY <1>1, <1>2, <1>3, <1>5, <1>6 DEF Ready
<1> QED
  BY <1>7, <1>8, <1>9, <1>10 DEF t

-----------------------------------------------------------------------------
(* The vector.                                                             *)

\* The operations on the vector keep what Vector says of it.
Sound(s, b) == s \in Seq(EntryType) /\ Distinct(s) /\ Ready(s, b)

LEMMA SetEventsSound ==
    ASSUME NEW s, NEW b, Sound(s, b), NEW fd, NEW e \in {"IN", "OUT"}
    PROVE  Sound(SetEvents(s, fd, e), b) /\ Watched(SetEvents(s, fd, e)) = Watched(s)
<1> DEFINE t == SetEvents(s, fd, e)
<1>1. s \in Seq(Entries(Fd)) /\ Distinct(s) /\ Ready(s, b)
  BY EntryTypeIsEntries DEF Sound
<1>2. /\ t \in Seq(EntryType)
      /\ Watched(t) = Watched(s)
      /\ Distinct(t)
      /\ Len(t) = Len(s)
      /\ \A k \in 1..Len(s) : t[k].fd = s[k].fd /\ t[k].revents = s[k].revents
  BY <1>1, SetEventsKeeps, EntryTypeIsEntries
<1> HIDE DEF t
<1>3. DOMAIN t = 1..Len(s) /\ DOMAIN s = 1..Len(s)
  BY <1>1, <1>2
<1>4. Ready(t, b)
  BY <1>1, <1>2, <1>3 DEF Ready
<1> QED
  BY <1>2, <1>4 DEF t, Sound

LEMMA AddPollFdSound ==
    ASSUME NEW s, NEW b, Sound(s, b), NEW fd \in Fd, fd \notin Watched(s),
           NEW e \in {"IN", "OUT"}
    PROVE  Sound(AddPollFd(s, fd, e), b) /\ Watched(AddPollFd(s, fd, e)) = Watched(s) \cup {fd}
<1> DEFINE t == AddPollFd(s, fd, e)
<1>1. s \in Seq(Entries(Fd)) /\ Distinct(s) /\ Ready(s, b)
  BY EntryTypeIsEntries DEF Sound
<1>2. /\ t \in Seq(EntryType)
      /\ Watched(t) = Watched(s) \cup {fd}
      /\ Distinct(t)
      /\ Len(t) = Len(s) + 1
      /\ \A k \in 1..Len(s) : t[k] = s[k]
      /\ t[Len(s) + 1].revents = {}
  BY <1>1, AddPollFdWatches, EntryTypeIsEntries
<1> HIDE DEF t
<1>3. DOMAIN t = 1..(Len(s) + 1) /\ DOMAIN s = 1..Len(s) /\ Len(s) \in Nat
  BY <1>1, <1>2
<1>4. ASSUME NEW k \in DOMAIN t, t[k].fd \in ListenFds, t[k].revents # {}
      PROVE  b[t[k].fd] # <<>>
  <2>1. k # Len(s) + 1
    BY <1>2, <1>4
  <2>2. k \in 1..Len(s)
    BY <2>1, <1>3
  <2> QED
    BY <2>2, <1>1, <1>2, <1>3, <1>4 DEF Ready
<1> QED
  BY <1>2, <1>4 DEF t, Sound, Ready

LEMMA RemovePollFdSound ==
    ASSUME NEW s, NEW b, Sound(s, b), NEW fd
    PROVE  Sound(RemovePollFd(s, fd), b) /\ Watched(RemovePollFd(s, fd)) = Watched(s) \ {fd}
<1> DEFINE t == RemovePollFd(s, fd)
<1>1. s \in Seq(Entries(Fd)) /\ Distinct(s) /\ Ready(s, b)
  BY EntryTypeIsEntries DEF Sound
<1>2. /\ t \in Seq(EntryType)
      /\ Watched(t) = Watched(s) \ {fd}
      /\ Distinct(t)
      /\ \A k \in DOMAIN t : \E j \in DOMAIN s : t[k] = s[j]
  BY <1>1, RemovePollFdUnwatches, EntryTypeIsEntries
<1> HIDE DEF t
<1>3. Ready(t, b)
  BY <1>1, <1>2 DEF Ready
<1> QED
  BY <1>2, <1>3 DEF t, Sound

LEMMA VectorSound ==
    ASSUME IInv, backlog' = backlog
    PROVE  Sound(pollfds, backlog')
  BY DEF IInv, Vector, Sound

-----------------------------------------------------------------------------
(* Steps that close the descriptors D, and after which no client has pipes *)
(* it did not have before.                                                 *)

\* d has no pipe that c has not.
Fewer(c, d) ==
    /\ d.cgiRunning => c.cgiRunning /\ d.cgiFd = c.cgiFd
    /\ d.cgiWriteFd # NoFd => d.cgiWriteFd = c.cgiWriteFd

Closes(D) ==
    \A f \in Fd :
        IF f \in D THEN fdt'[f].kind = "free"
        ELSE \/ fdt'[f].kind = fdt[f].kind
             \/ fdt[f].kind = "free" /\ fdt'[f].kind \in {"rd", "wr"}

LEMMA ClosingKeeps ==
    ASSUME NEW D,
           Tables, Pipes, Objects, pc # "stopped", Watched(pollfds) \subseteq Fd,
           Closes(D), D \cap ListenFds = {},
           Watched(pollfds') = Watched(pollfds) \ D,
           DOMAIN clients' = DOMAIN clients \ D,
           \A f \in DOMAIN clients' : Fewer(clients[f], clients'[f]),
           \A f \in DOMAIN clients' :
              /\ clients'[f].cgiRunning /\ f # cur' => f # cur /\ clients'[f].cgiFd \notin D
              /\ clients'[f].cgiWriteFd # NoFd => clients'[f].cgiWriteFd \notin D
    PROVE  Tables' /\ Pipes'
<1>1. DOMAIN clients \subseteq Fd
  BY DEF Objects
<1>2. Tables'
  <2>1. \A fd \in Watched(pollfds') : fdt'[fd].kind # "free"
    BY DEF Closes, Tables
  <2>2. \A fd \in Fd : fd \in DOMAIN clients' <=> fdt'[fd].kind = "sock"
    BY DEF Closes, Tables
  <2>3. DOMAIN clients' \subseteq Watched(pollfds')
    BY DEF Tables
  <2>4. \A fd \in ListenFds : fdt'[fd].kind = "listen"
    BY FdIsNatural DEF Closes, Tables
  <2> QED
    BY <2>1, <2>2, <2>3, <2>4 DEF Tables
<1>3. Pipes'
  <2>1. ASSUME NEW f \in DOMAIN clients', clients'[f].cgiRunning, f # cur'
        PROVE  clients'[f].cgiFd \in Fd /\ fdt'[clients'[f].cgiFd].kind = "rd"
    <3>1. /\ clients[f].cgiRunning
          /\ clients'[f].cgiFd = clients[f].cgiFd
          /\ f # cur
          /\ clients'[f].cgiFd \notin D
      BY <2>1 DEF Fewer
    <3>2. clients[f].cgiFd \in Fd /\ fdt[clients[f].cgiFd].kind = "rd"
      BY <3>1 DEF Pipes
    <3> QED
      BY <3>1, <3>2 DEF Closes
  <2>2. ASSUME NEW f \in DOMAIN clients', clients'[f].cgiWriteFd # NoFd
        PROVE  clients'[f].cgiWriteFd \in Fd /\ fdt'[clients'[f].cgiWriteFd].kind = "wr"
    <3>1. /\ clients'[f].cgiWriteFd = clients[f].cgiWriteFd
          /\ clients'[f].cgiWriteFd \notin D
      BY <2>2 DEF Fewer
    <3>2. clients[f].cgiWriteFd \in Fd /\ fdt[clients[f].cgiWriteFd].kind = "wr"
      BY <2>2, <3>1 DEF Pipes
    <3> QED
      BY <3>1, <3>2 DEF Closes
  <2>3. ASSUME NEW f \in DOMAIN clients', NEW g \in DOMAIN clients', f # g
        PROVE  /\ clients'[f].cgiRunning /\ clients'[g].cgiRunning =>
                     clients'[f].cgiFd # clients'[g].cgiFd
               /\ clients'[f].cgiWriteFd # NoFd =>
                     clients'[f].cgiWriteFd # clients'[g].cgiWriteFd
    BY <2>3 DEF Fewer, Pipes
  <2> QED
    BY <2>1, <2>2, <2>3 DEF Pipes
<1> QED
  BY <1>2, <1>3

\* The same inside the pass, which then goes on with the vector s.
LEMMA PassStep ==
    ASSUME IInv, pc \in {"pass", "waitpid"},
           NEW D, NEW s, Sound(s, backlog'),
           Watched(s) = Watched(pollfds) \ D, GoOn(s),
           cur' = NoFd, hung' = hung, stale' = stale,
           World', Objects', Closes(D), D \cap ListenFds = {},
           DOMAIN clients' = DOMAIN clients \ D,
           \A f \in DOMAIN clients' : Fewer(clients[f], clients'[f]),
           \A f \in DOMAIN clients' :
              /\ clients'[f].cgiRunning => f # cur /\ clients'[f].cgiFd \notin D
              /\ clients'[f].cgiWriteFd # NoFd => clients'[f].cgiWriteFd \notin D
    PROVE  IInv'
<1>1. /\ Place' /\ Vector'
      /\ pc' \in {"pass", "timeouts"}
      /\ Watched(pollfds') = Watched(s)
  BY GoOnKeeps DEF IInv, Sound
<1>2. Watched(pollfds) \subseteq Fd
  BY WatchedInFd DEF IInv, Vector
<1>3. Tables' /\ Pipes'
  BY <1>1, <1>2, ClosingKeeps DEF IInv
<1>4. Memory'
  BY <1>1 DEF IInv, Memory
<1> QED
  BY <1>1, <1>3, <1>4 DEF IInv

LEMMA FunctionUpdate ==
    ASSUME NEW S, NEW T, NEW f \in [S -> T], NEW x \in S, NEW v \in T
    PROVE  [f EXCEPT ![x] = v] \in [S -> T]
  OBVIOUS

\* A step of the pass that changes one client and opens and closes nothing.
LEMMA PassClient ==
    ASSUME IInv, pc = "pass",
           NEW fd \in DOMAIN clients, NEW c \in ClientType, Fewer(clients[fd], c),
           clients' = [clients EXCEPT ![fd] = c],
           NEW s, Sound(s, backlog'), Watched(s) = Watched(pollfds), GoOn(s),
           cur' = cur, hung' = hung, stale' = stale,
           World', fdt' \in [Fd -> DescriptorType], Closes({})
    PROVE  IInv'
<1>1. cur = NoFd /\ cur \notin Fd /\ DOMAIN clients \subseteq Fd
  BY FdIsNatural DEF IInv, Memory, Objects
<1>2. DOMAIN clients' = DOMAIN clients /\ clients' \in [DOMAIN clients' -> ClientType]
  BY FunctionUpdate DEF IInv, Objects
<1>3. Objects'
  BY <1>1, <1>2 DEF Objects
<1>4. ASSUME NEW f \in DOMAIN clients' PROVE Fewer(clients[f], clients'[f]) /\ f # cur
  <2>1. CASE f = fd
    BY <2>1, <1>1, <1>2
  <2>2. CASE f # fd
    BY <2>2, <1>1, <1>2 DEF Fewer
  <2> QED
    BY <2>1, <2>2
<1> HIDE DEF IInv, World, Objects, Closes, Fewer, GoOn, ClientType, EntryType
<1>5. Watched(s) = Watched(pollfds) \ {} /\ DOMAIN clients' = DOMAIN clients \ {}
  BY <1>2
<1> QED
  BY <1>1, <1>3, <1>4, <1>5, PassStep

LEMMA PollKeeps ==
    ASSUME IInv, Poll
    PROVE  IInv'
<1>1. pc = "poll" /\ ScanFrom(1, Polled)
  BY DEF Poll
<1>2. /\ UNCHANGED <<clients, fdt, cur, hung, stale>>
      /\ UNCHANGED <<proc, peer, backlog>>
  BY DEF Poll, world
<1>3. /\ Polled \in Seq(EntryType)
      /\ Distinct(Polled)
      /\ Watched(Polled) = Watched(pollfds)
      /\ Ready(Polled, backlog)
  BY <1>1, PolledKeeps DEF IInv
<1>4. ReadyFrom(1, Polled, backlog')
  BY <1>2, <1>3 DEF Ready, ReadyFrom
<1>5. /\ Place' /\ Vector'
      /\ pc' \in {"pass", "timeouts"}
      /\ Watched(pollfds') = Watched(Polled)
  BY <1>1, <1>3, <1>4, ScanKeeps
<1>6. World' /\ Objects' /\ Pipes' /\ Memory'
  BY <1>1, <1>2, <1>5 DEF IInv, World, Objects, Pipes, Memory
<1>7. Tables'
  BY <1>1, <1>2, <1>3, <1>5 DEF IInv, Tables
<1> QED
  BY <1>5, <1>6, <1>7 DEF IInv

LEMMA PassOverKeeps ==
    ASSUME IInv, pc = "pass", PassOver
    PROVE  IInv'
<1>1. GoOn(pollfds) /\ UNCHANGED <<clients, fdt, cur, hung, stale>> /\ UNCHANGED world
  BY DEF PassOver
<1>2. UNCHANGED <<proc, peer, backlog>>
  BY <1>1 DEF world
<1>3. pollfds \in Seq(EntryType) /\ Distinct(pollfds) /\ Ready(pollfds, backlog')
  BY <1>2 DEF IInv, Vector
<1>4. /\ Place' /\ Vector'
      /\ pc' \in {"pass", "timeouts"}
      /\ Watched(pollfds') = Watched(pollfds)
  BY <1>1, <1>3, GoOnKeeps DEF IInv
<1>5. World' /\ Objects' /\ Pipes' /\ Memory'
  BY <1>1, <1>2, <1>4 DEF IInv, World, Objects, Pipes, Memory
<1>6. Tables'
  BY <1>1, <1>2, <1>4 DEF IInv, Tables
<1> QED
  BY <1>4, <1>5, <1>6 DEF IInv

-----------------------------------------------------------------------------
(* A new connection.                                                       *)

\* The entry of a listening socket that is being dispatched has a connection.
LEMMA TakeConnection ==
    ASSUME IInv, AtListener,
           backlog' = [backlog EXCEPT ![Entry.fd] = Tail(@)]
    PROVE  /\ Head(backlog[Entry.fd]) \in Peer
           /\ backlog' \in [ListenFds -> Seq(Peer)]
           /\ \A l \in DOMAIN pollfds :
                 l >= i + 1 /\ pollfds[l].fd \in ListenFds /\ pollfds[l].revents # {} =>
                    backlog'[pollfds[l].fd] # <<>>
<1> DEFINE q == backlog[Entry.fd]
<1>1. i \in DOMAIN pollfds /\ Entry = pollfds[i] /\ Entry.fd \in ListenFds /\ Entry.revents # {}
  BY DEF IInv, Place, AtListener, Entry
<1>2. backlog \in [ListenFds -> Seq(Peer)]
  BY DEF IInv, World
<1>3. q # <<>> /\ q \in Seq(Peer)
  BY <1>1, <1>2 DEF IInv, Vector, Ready
<1>4. backlog' = [backlog EXCEPT ![Entry.fd] = Tail(q)]
  OBVIOUS
<1>5. Head(q) \in Peer /\ Tail(q) \in Seq(Peer)
  <2> HIDE DEF q
  <2> QED
    BY <1>3
<1> HIDE DEF q
<1>6. backlog' \in [ListenFds -> Seq(Peer)]
  <2> DEFINE lfd == Entry.fd
  <2>1. lfd \in ListenFds /\ backlog' = [backlog EXCEPT ![lfd] = Tail(q)]
    BY <1>1, <1>4
  <2> HIDE DEF lfd
  <2> QED
    BY <2>1, <1>2, <1>5, FunctionUpdate
<1>7. ASSUME NEW l \in DOMAIN pollfds, l >= i + 1,
             pollfds[l].fd \in ListenFds, pollfds[l].revents # {}
      PROVE  backlog'[pollfds[l].fd] # <<>>
  <2>1. l # i
    BY <1>7 DEF IInv, Place
  <2>2. pollfds[l].fd # Entry.fd
    BY <2>1, <1>1 DEF IInv, Vector, Distinct
  <2>3. backlog'[pollfds[l].fd] = backlog[pollfds[l].fd]
    BY <2>2, <1>2, <1>4, <1>7
  <2> QED
    BY <2>3, <1>7 DEF IInv, Vector, Ready
<1> QED
  BY <1>5, <1>6, <1>7 DEF q

LEMMA LeftType ==
    ASSUME peer \in [Peer -> PeerType], NEW S
    PROVE  Left(S) \in [Peer -> PeerType]
<1>1. Away \in PeerType
  BY DEF Away, PeerType
<1> HIDE DEF PeerType, Away
<1> QED
  BY <1>1 DEF Left

LEMMA ReapedType ==
    ASSUME proc \in [Pid -> ScriptType], NEW S
    PROVE  Reaped(S) \in [Pid -> ScriptType]
<1>1. NoScript \in ScriptType
  BY DEF NoScript, ScriptType
<1> HIDE DEF ScriptType, NoScript
<1> QED
  BY <1>1 DEF Reaped

LEMMA TurnAwayKeeps ==
    ASSUME IInv, TurnAway
    PROVE  IInv'
<1>1. /\ AtListener /\ pc = "pass"
      /\ backlog' = [backlog EXCEPT ![Entry.fd] = Tail(@)]
      /\ peer' = Left({Head(backlog[Entry.fd])})
      /\ ScanFrom(i + 1, pollfds)
      /\ UNCHANGED <<clients, fdt, proc, cur, hung, stale>>
  BY DEF TurnAway, AtListener, GoOn
<1>2. ReadyFrom(i + 1, pollfds, backlog') /\ backlog' \in [ListenFds -> Seq(Peer)]
  BY <1>1, TakeConnection DEF ReadyFrom
<1>3. i + 1 \in Nat \ {0} /\ pollfds \in Seq(EntryType) /\ Distinct(pollfds)
  BY DEF IInv, Place, Vector
<1>4. /\ Place' /\ Vector'
      /\ pc' \in {"pass", "timeouts"}
      /\ Watched(pollfds') = Watched(pollfds)
  BY <1>1, <1>2, <1>3, ScanKeeps
<1>5. World'
  BY <1>1, <1>2, LeftType DEF IInv, World
<1>6. Objects' /\ Pipes' /\ Memory'
  BY <1>1, <1>4 DEF IInv, Objects, Pipes, Memory
<1>7. Tables'
  BY <1>1, <1>4 DEF IInv, Tables
<1> QED
  BY <1>4, <1>5, <1>6, <1>7 DEF IInv

LEMMA AcceptConnectionKeeps ==
    ASSUME IInv, AcceptConnection
    PROVE  IInv'
<1> DEFINE p == Head(backlog[Entry.fd])
<1>1. PICK fd \in Free :
          /\ backlog' = [backlog EXCEPT ![Entry.fd] = Tail(@)]
          /\ peer' = [peer EXCEPT ![p].st = "open"]
          /\ fdt' = [fdt EXCEPT ![fd] = [kind |-> "sock", of |-> p]]
          /\ clients' = WithClient(fd, NewClient)
          /\ ScanFrom(i + 1, AddPollFd(pollfds, fd, "IN"))
  BY DEF AcceptConnection, GoOn
<1>2. AtListener /\ pc = "pass" /\ UNCHANGED <<proc, cur, hung, stale>>
  BY DEF AcceptConnection, AtListener
<1> DEFINE s == AddPollFd(pollfds, fd, "IN")
<1>3. /\ p \in Peer
      /\ backlog' \in [ListenFds -> Seq(Peer)]
      /\ \A l \in DOMAIN pollfds :
            l >= i + 1 /\ pollfds[l].fd \in ListenFds /\ pollfds[l].revents # {} =>
               backlog'[pollfds[l].fd] # <<>>
  BY <1>1, <1>2, TakeConnection
<1> HIDE DEF p
<1>4. /\ fd \in Fd /\ fdt[fd].kind = "free"
      /\ fd \notin Watched(pollfds)
      /\ fd \notin DOMAIN clients
      /\ fd \notin ListenFds
  BY <1>2, FdIsNatural DEF Free, IInv, Tables
<1>5. /\ pollfds \in Seq(Entries(Fd)) /\ Distinct(pollfds)
      /\ DOMAIN pollfds = 1..Len(pollfds) /\ Len(pollfds) \in Nat
  BY EntryTypeIsEntries DEF IInv, Vector
<1>6. /\ s \in Seq(EntryType)
      /\ Watched(s) = Watched(pollfds) \cup {fd}
      /\ Distinct(s)
      /\ Len(s) = Len(pollfds) + 1
      /\ \A k \in 1..Len(pollfds) : s[k] = pollfds[k]
      /\ s[Len(pollfds) + 1].revents = {}
  BY <1>4, <1>5, AddPollFdWatches, EntryTypeIsEntries
<1>7. ReadyFrom(i + 1, s, backlog')
  <2> SUFFICES ASSUME NEW l \in DOMAIN s, l >= i + 1, s[l].fd \in ListenFds, s[l].revents # {}
               PROVE  backlog'[s[l].fd] # <<>>
    BY DEF ReadyFrom
  <2>1. DOMAIN s = 1..(Len(pollfds) + 1)
    BY <1>6
  <2> HIDE DEF s
  <2>2. l # Len(pollfds) + 1
    BY <1>6
  <2>3. l \in 1..Len(pollfds)
    BY <2>1, <2>2, <1>5
  <2> QED
    BY <2>3, <1>3, <1>5, <1>6
<1>8. /\ Place' /\ Vector'
      /\ pc' \in {"pass", "timeouts"}
      /\ Watched(pollfds') = Watched(pollfds) \cup {fd}
  <2>1. i + 1 \in Nat \ {0}
    BY DEF IInv, Place
  <2> HIDE DEF s
  <2>2. ScanFrom(i + 1, s)
    BY <1>1 DEF s
  <2> QED
    BY <2>1, <2>2, <1>6, <1>7, ScanKeeps
<1>9. World'
  <2>1. peer \in [Peer -> PeerType] /\ proc \in [Pid -> ScriptType]
    BY DEF IInv, World
  <2>2. \A r \in PeerType : [r EXCEPT !.st = "open"] \in PeerType
    BY DEF PeerType
  <2>3. peer' \in [Peer -> PeerType]
    BY <1>1, <1>3, <2>1, <2>2
  <2> QED
    BY <1>2, <1>3, <2>1, <2>3 DEF World
<1>10. /\ DOMAIN clients' = DOMAIN clients \cup {fd}
       /\ clients'[fd] = NewClient
       /\ \A f \in DOMAIN clients : clients'[f] = clients[f]
  BY <1>1, <1>4 DEF WithClient
<1>11. /\ fdt' \in [Fd -> DescriptorType]
       /\ fdt'[fd].kind = "sock"
       /\ \A f \in Fd \ {fd} : fdt'[f] = fdt[f]
  <2>1. [kind |-> "sock", of |-> p] \in DescriptorType
    BY <1>3 DEF DescriptorType, Kinds
  <2>2. fdt \in [Fd -> DescriptorType]
    BY DEF IInv, Objects
  <2> QED
    BY <1>1, <1>4, <2>1, <2>2
<1>12. Objects'
  <2>1. NewClient \in ClientType
    BY NewClientType
  <2>2. \A f \in DOMAIN clients : clients[f] \in ClientType
    BY DEF IInv, Objects
  <2>3. \A f \in DOMAIN clients' : clients'[f] \in ClientType
    BY <1>4, <1>10, <2>1, <2>2
  <2>4. clients' \in [DOMAIN clients' -> ClientType]
    <3>1. clients' = [f \in DOMAIN clients' |-> clients'[f]]
      BY <1>1, <1>10 DEF WithClient
    <3> QED
      BY <3>1, <2>3
  <2> QED
    BY <1>4, <1>10, <1>11, <2>4 DEF IInv, Objects
<1>13. Tables'
  <2>1. Watched(pollfds) \subseteq Fd
    BY WatchedInFd DEF IInv, Vector
  <2>2. \A g \in Watched(pollfds') : fdt'[g].kind # "free"
    BY <2>1, <1>8, <1>11 DEF IInv, Tables
  <2>3. \A g \in Fd : g \in DOMAIN clients' <=> fdt'[g].kind = "sock"
    BY <1>10, <1>11 DEF IInv, Tables
  <2>4. DOMAIN clients' \subseteq Watched(pollfds')
    BY <1>8, <1>10 DEF IInv, Tables
  <2>5. \A g \in ListenFds : fdt'[g].kind = "listen"
    BY <1>2, <1>4, <1>11, FdIsNatural DEF IInv, Tables
  <2> QED
    BY <2>2, <2>3, <2>4, <2>5 DEF Tables
<1>14. Pipes'
  <2>1. ~NewClient.cgiRunning /\ NewClient.cgiWriteFd = NoFd
    BY NewClientType
  <2> HIDE DEF ClientType
  <2> QED
    BY <2>1, <1>2, <1>4, <1>10, <1>11 DEF IInv, Pipes
<1>15. Memory'
  BY <1>2, <1>8 DEF IInv, Memory
<1> QED
  BY <1>8, <1>9, <1>12, <1>13, <1>14, <1>15 DEF IInv

-----------------------------------------------------------------------------
(* _removeClient.                                                          *)

\* _removeClient may be called for a client, or for a pipe that no client
\* remembers: what it then closes belongs to nobody else.
Removable(fd) ==
    /\ fd \in Fd
    /\ fd \notin ListenFds
    /\ fd \in DOMAIN clients \/ (CgiWriteOwners(fd) = {} /\ CgiOwners(fd) = {})

LEMMA DescriptorsClosable ==
    ASSUME IInv, pc \in {"pass", "purge"}, NEW fd, Removable(fd)
    PROVE  /\ Descriptors(fd) \cap ListenFds = {}
           /\ DOMAIN clients \ Descriptors(fd) = DOMAIN clients \ {fd}
           /\ \A f \in DOMAIN clients \ {fd} :
                 /\ clients[f].cgiRunning => clients[f].cgiFd \notin Descriptors(fd)
                 /\ clients[f].cgiWriteFd # NoFd => clients[f].cgiWriteFd \notin Descriptors(fd)
<1> DEFINE rd == CgiFdOf(fd)
           wr == CgiWriteFdOf(fd)
<1>1. DOMAIN clients \subseteq Fd /\ cur = NoFd /\ NoFd \notin Fd /\ ListenFds \subseteq Fd
  BY FdIsNatural DEF IInv, Objects, Memory
<1>2. /\ \A g \in DOMAIN clients : fdt[g].kind = "sock"
      /\ \A g \in ListenFds : fdt[g].kind = "listen"
  BY <1>1 DEF IInv, Tables
<1>3. ASSUME NEW f \in DOMAIN clients
      PROVE  /\ clients[f].cgiRunning =>
                   clients[f].cgiFd \in Fd /\ fdt[clients[f].cgiFd].kind = "rd"
             /\ clients[f].cgiWriteFd # NoFd =>
                   clients[f].cgiWriteFd \in Fd /\ fdt[clients[f].cgiWriteFd].kind = "wr"
  BY <1>1 DEF IInv, Pipes
<1>4. /\ rd = NoFd \/ (/\ fd \in DOMAIN clients /\ clients[fd].cgiRunning
                       /\ rd = clients[fd].cgiFd /\ fdt[rd].kind = "rd")
      /\ wr = NoFd \/ (/\ fd \in DOMAIN clients
                       /\ wr = clients[fd].cgiWriteFd /\ fdt[wr].kind = "wr")
  BY <1>3 DEF CgiFdOf, CgiWriteFdOf
<1>5. Descriptors(fd) = {fd, rd, wr}
  BY DEF Descriptors
<1> HIDE DEF rd, wr
<1>6. Descriptors(fd) \cap ListenFds = {}
  BY <1>1, <1>2, <1>4, <1>5 DEF Removable
<1>7. DOMAIN clients \ Descriptors(fd) = DOMAIN clients \ {fd}
  BY <1>1, <1>2, <1>4, <1>5
<1>8. ASSUME NEW f \in DOMAIN clients \ {fd}, clients[f].cgiRunning
      PROVE  clients[f].cgiFd \notin Descriptors(fd)
  <2>1. clients[f].cgiFd # fd
    BY <1>2, <1>3, <1>8 DEF Removable, CgiOwners
  <2>2. clients[f].cgiFd # wr
    BY <1>1, <1>3, <1>4, <1>8
  <2>3. clients[f].cgiFd # rd
    BY <1>1, <1>3, <1>4, <1>8 DEF IInv, Pipes
  <2> QED
    BY <2>1, <2>2, <2>3, <1>5
<1>9. ASSUME NEW f \in DOMAIN clients \ {fd}, clients[f].cgiWriteFd # NoFd
      PROVE  clients[f].cgiWriteFd \notin Descriptors(fd)
  <2>1. clients[f].cgiWriteFd # fd
    BY <1>2, <1>3, <1>9 DEF Removable, CgiWriteOwners
  <2>2. clients[f].cgiWriteFd # rd
    BY <1>1, <1>3, <1>4, <1>9
  <2>3. clients[f].cgiWriteFd # wr
    BY <1>1, <1>3, <1>4, <1>9 DEF IInv, Pipes
  <2> QED
    BY <2>1, <2>2, <2>3, <1>5
<1> QED
  BY <1>6, <1>7, <1>8, <1>9

LEMMA UnwatchAllKeeps ==
    ASSUME IInv, NEW fd
    PROVE  /\ Sound(UnwatchAll(fd), backlog)
           /\ Watched(UnwatchAll(fd)) = Watched(pollfds) \ Descriptors(fd)
<1> DEFINE a == RemovePollFd(pollfds, CgiFdOf(fd))
           b == RemovePollFd(a, CgiWriteFdOf(fd))
           s == RemovePollFd(b, fd)
<1>1. Sound(pollfds, backlog)
  BY DEF IInv, Vector, Sound
<1>2. Sound(a, backlog) /\ Watched(a) = Watched(pollfds) \ {CgiFdOf(fd)}
  BY <1>1, RemovePollFdSound
<1> HIDE DEF a
<1>3. Sound(b, backlog) /\ Watched(b) = Watched(a) \ {CgiWriteFdOf(fd)}
  BY <1>2, RemovePollFdSound
<1> HIDE DEF b
<1>4. Sound(s, backlog) /\ Watched(s) = Watched(b) \ {fd}
  BY <1>3, RemovePollFdSound
<1> HIDE DEF s
<1>5. Watched(s) = Watched(pollfds) \ Descriptors(fd)
  BY <1>2, <1>3, <1>4 DEF Descriptors
<1>6. s = UnwatchAll(fd)
  BY DEF s, b, a, UnwatchAll
<1> QED
  BY <1>4, <1>5, <1>6

\* The part of a removal that the pass and the timeouts share.
LEMMA RemoveClientKeeps ==
    ASSUME IInv, pc \in {"pass", "purge"}, NEW fd, Removable(fd), RemoveClient(fd)
    PROVE  /\ World' /\ Objects'
           /\ Closes(Descriptors(fd))
           /\ DOMAIN clients' = DOMAIN clients \ {fd}
           /\ \A f \in DOMAIN clients' : clients'[f] = clients[f]
           /\ UNCHANGED <<backlog, cur, hung>>
<1>1. /\ clients' = WithoutClient(fd)
      /\ fdt' = Bury(Close(fdt, Descriptors(fd)), RunningOf(fd))
      /\ proc' = Reaped(RunningOf(fd))
      /\ peer' = Left(PeersAt(fd))
      /\ UNCHANGED <<backlog, cur, hung>>
  BY DEF RemoveClient
<1>2. World'
  BY <1>1, LeftType, ReapedType DEF IInv, World
<1>3. /\ DOMAIN clients' = DOMAIN clients \ {fd}
      /\ \A f \in DOMAIN clients' : clients'[f] = clients[f]
  BY <1>1 DEF WithoutClient
<1> DEFINE t == Close(fdt, Descriptors(fd))
<1>4. /\ t \in [Fd -> DescriptorType]
      /\ \A f \in Fd : t[f].kind = IF f \in Descriptors(fd) THEN "free" ELSE fdt[f].kind
  BY CloseType DEF IInv, Objects
<1> HIDE DEF t
<1>5. /\ fdt' \in [Fd -> DescriptorType]
      /\ \A f \in Fd : fdt'[f].kind = t[f].kind
  BY <1>1, <1>4, BuryType DEF t
<1>6. Closes(Descriptors(fd))
  BY <1>4, <1>5 DEF Closes
<1>7. Objects'
  <2>1. \A f \in DOMAIN clients : clients[f] \in ClientType
    BY DEF IInv, Objects
  <2>2. clients' = [f \in DOMAIN clients' |-> clients'[f]]
    BY <1>1, <1>3 DEF WithoutClient
  <2> HIDE DEF ClientType
  <2>3. clients' \in [DOMAIN clients' -> ClientType]
    BY <1>3, <2>1, <2>2
  <2> QED
    BY <1>3, <1>5, <2>3 DEF IInv, Objects
<1> QED
  BY <1>1, <1>2, <1>3, <1>6, <1>7

LEMMA RemoveInPassKeeps ==
    ASSUME IInv, pc = "pass", NEW fd, Removable(fd), RemoveInPass(fd)
    PROVE  IInv'
<1> DEFINE s == UnwatchAll(fd)
           D == Descriptors(fd)
<1>1. RemoveClient(fd) /\ GoOn(s) /\ UNCHANGED stale
  BY DEF RemoveInPass
<1>2. /\ World' /\ Objects'
      /\ Closes(D)
      /\ DOMAIN clients' = DOMAIN clients \ {fd}
      /\ \A f \in DOMAIN clients' : clients'[f] = clients[f]
      /\ UNCHANGED <<backlog, cur, hung>>
  BY <1>1, RemoveClientKeeps
<1>3. Sound(s, backlog') /\ Watched(s) = Watched(pollfds) \ D
  BY <1>2, UnwatchAllKeeps
<1>4. /\ D \cap ListenFds = {}
      /\ DOMAIN clients' = DOMAIN clients \ D
      /\ \A f \in DOMAIN clients \ {fd} :
            /\ clients[f].cgiRunning => clients[f].cgiFd \notin D
            /\ clients[f].cgiWriteFd # NoFd => clients[f].cgiWriteFd \notin D
  BY <1>2, DescriptorsClosable
<1> HIDE DEF s, D
<1>5. cur = NoFd /\ cur \notin DOMAIN clients
  BY FdIsNatural DEF IInv, Memory, Objects
<1>6. \A f \in DOMAIN clients' : Fewer(clients[f], clients'[f])
  BY <1>2 DEF Fewer
<1>7. \A f \in DOMAIN clients' :
         /\ clients'[f].cgiRunning => f # cur /\ clients'[f].cgiFd \notin D
         /\ clients'[f].cgiWriteFd # NoFd => clients'[f].cgiWriteFd \notin D
  BY <1>2, <1>4, <1>5
<1> QED
  BY <1>1, <1>2, <1>3, <1>4, <1>5, <1>6, <1>7, PassStep

-----------------------------------------------------------------------------
(* The handlers of a client's socket.                                      *)

LEMMA PeerUpdates ==
    ASSUME NEW r \in PeerType
    PROVE  /\ [r EXCEPT !.inbox = FALSE] \in PeerType
           /\ [r EXCEPT !.inbox = TRUE] \in PeerType
           /\ [r EXCEPT !.room = FALSE] \in PeerType
           /\ [r EXCEPT !.room = TRUE] \in PeerType
           /\ [r EXCEPT !.st = "queued"] \in PeerType
           /\ [r EXCEPT !.fin = "fin"] \in PeerType
           /\ [r EXCEPT !.fin = "rst", !.inbox = FALSE] \in PeerType
  BY DEF PeerType

LEMMA NothingCloses ==
    ASSUME UNCHANGED fdt
    PROVE  Closes({})
  BY DEF Closes

\* The client that a handler is called for.
LEMMA ClientAt ==
    ASSUME IInv, NEW fd \in DOMAIN clients
    PROVE  clients[fd] \in ClientType /\ fdt[fd].kind = "sock" /\ fd \in Fd
  BY DEF IInv, Objects, Tables

LEMMA SamePipesFewer ==
    ASSUME NEW c, NEW d, NEW e, SamePipes(c, d), SamePipes(d, e)
    PROVE  Fewer(c, d) /\ Fewer(c, e)
  BY DEF SamePipes, Fewer

LEMMA ReceiveFacts ==
    ASSUME IInv, NEW fd, Receive(fd)
    PROVE  /\ pc = "pass" /\ fd \in DOMAIN clients /\ fd = Entry.fd
           /\ peer' \in [Peer -> PeerType]
           /\ UNCHANGED <<backlog, cur, hung, stale>>
<1>1. /\ pc = "pass" /\ fd \in DOMAIN clients /\ fd = Entry.fd
      /\ peer' = [peer EXCEPT ![fdt[fd].of].inbox = FALSE]
      /\ UNCHANGED <<backlog, cur, hung, stale>>
  BY DEF Receive, Readable, AtSocket
<1> DEFINE p == fdt[fd].of
<1>2. peer \in [Peer -> PeerType] /\ peer' = [peer EXCEPT ![p].inbox = FALSE]
  BY <1>1 DEF IInv, World
<1> HIDE DEF p
<1>3. peer' \in [Peer -> PeerType]
  <2>1. \A r \in PeerType : [r EXCEPT !.inbox = FALSE] \in PeerType
    BY PeerUpdates
  <2> HIDE DEF PeerType
  <2> QED
    BY <1>2, <2>1
<1> QED
  BY <1>1, <1>3

LEMMA HangUpKeeps ==
    ASSUME IInv, HangUp
    PROVE  IInv'
<1>1. pc = "pass" /\ AtSocket /\ RemoveInPass(Entry.fd)
  BY DEF HangUp, AtSocket
<1>2. Entry.fd \in Fd
  <2>1. i \in DOMAIN pollfds
    BY <1>1 DEF IInv, Place
  <2> QED
    BY <2>1, WatchedInFd DEF Entry, Watched, IInv, Vector
<1>3. Removable(Entry.fd)
  BY <1>1, <1>2 DEF AtSocket, Removable
<1> QED
  BY <1>1, <1>3, RemoveInPassKeeps

LEMMA DropClientKeeps ==
    ASSUME IInv, NEW fd \in DOMAIN clients, pc = "pass", RemoveInPass(fd)
    PROVE  IInv'
<1>1. fd \in Fd /\ fd \notin ListenFds
  BY FdIsNatural DEF IInv, Objects, Tables
<1> QED
  BY <1>1, RemoveInPassKeeps DEF Removable

LEMMA ReadPartKeeps ==
    ASSUME IInv, NEW fd, ReadPart(fd)
    PROVE  IInv'
<1>1. /\ Receive(fd) /\ GoOn(pollfds) /\ UNCHANGED <<fdt, proc>>
  BY DEF ReadPart
<1>2. PICK c \in Fed(clients[fd]) : clients' = [clients EXCEPT ![fd] = c]
  BY DEF ReadPart
<1>3. /\ pc = "pass" /\ fd \in DOMAIN clients
      /\ peer' \in [Peer -> PeerType]
      /\ UNCHANGED <<backlog, cur, hung, stale>>
  BY <1>1, ReceiveFacts
<1>4. c \in ClientType /\ Fewer(clients[fd], c)
  BY <1>3, ClientAt, FedType DEF SamePipes, Fewer
<1>5. Sound(pollfds, backlog') /\ World' /\ fdt' \in [Fd -> DescriptorType]
  BY <1>1, <1>3 DEF IInv, Vector, Sound, World, Objects
<1> QED
  BY <1>1, <1>2, <1>3, <1>4, <1>5, NothingCloses, PassClient

LEMMA ProcessStaticKeeps ==
    ASSUME IInv, NEW fd, ProcessStatic(fd)
    PROVE  IInv'
<1> DEFINE s == SetEvents(pollfds, fd, "OUT")
<1>1. Receive(fd) /\ GoOn(s) /\ UNCHANGED <<fdt, proc>>
  BY DEF ProcessStatic
<1>2. PICK c \in Fed(clients[fd]) : clients' = [clients EXCEPT ![fd] = Respond(c, "page")]
  BY DEF ProcessStatic
<1>3. /\ pc = "pass" /\ fd \in DOMAIN clients
      /\ peer' \in [Peer -> PeerType]
      /\ UNCHANGED <<backlog, cur, hung, stale>>
  BY <1>1, ReceiveFacts
<1> DEFINE d == Respond(c, "page")
<1>4. d \in ClientType /\ Fewer(clients[fd], d)
  <2>1. c \in ClientType /\ SamePipes(clients[fd], c)
    BY <1>3, ClientAt, FedType
  <2>2. d \in ClientType /\ SamePipes(c, d)
    BY <2>1, RespondType DEF Answers
  <2> HIDE DEF d
  <2> QED
    BY <2>1, <2>2, SamePipesFewer
<1>5. Sound(s, backlog') /\ Watched(s) = Watched(pollfds)
  BY <1>3, VectorSound, SetEventsSound
<1>6. World' /\ fdt' \in [Fd -> DescriptorType]
  BY <1>1, <1>3 DEF IInv, World, Objects
<1> HIDE DEF s, d
<1>7. clients' = [clients EXCEPT ![fd] = d]
  BY <1>2 DEF d
<1> QED
  BY <1>1, <1>3, <1>4, <1>5, <1>6, <1>7, NothingCloses, PassClient

\* The descriptors that LeakPipe leaves open are nobody's.
LEMMA LeakPipeFacts ==
    ASSUME IInv, LeakPipe
    PROVE  fdt' \in [Fd -> DescriptorType] /\ Closes({})
<1>1. PICK a \in Free, b \in Free :
         /\ Least(b, Free \ {a})
         /\ fdt' = [fdt EXCEPT ![a] = [kind |-> "rd", of |-> None],
                               ![b] = [kind |-> "wr", of |-> None]]
  BY DEF LeakPipe
<1> DEFINE r == [kind |-> "rd", of |-> None]
           w == [kind |-> "wr", of |-> None]
<1>2. r \in DescriptorType /\ w \in DescriptorType /\ r.kind = "rd" /\ w.kind = "wr"
  BY DEF DescriptorType, Kinds
<1> HIDE DEF r, w
<1>3. a # b /\ a \in Fd /\ b \in Fd /\ fdt[a].kind = "free" /\ fdt[b].kind = "free"
  BY <1>1 DEF Least, Free
<1>4. fdt' = [fdt EXCEPT ![a] = r, ![b] = w]
  BY <1>1 DEF r, w
<1>5. fdt \in [Fd -> DescriptorType]
  BY DEF IInv, Objects
<1>6. fdt' \in [Fd -> DescriptorType]
  BY <1>2, <1>3, <1>4, <1>5
<1>7. fdt'[a].kind = "rd" /\ fdt'[b].kind = "wr" /\ \A f \in Fd \ {a, b} : fdt'[f] = fdt[f]
  BY <1>2, <1>3, <1>4, <1>5
<1> QED
  BY <1>3, <1>6, <1>7 DEF Closes

LEMMA LaunchFailsKeeps ==
    ASSUME IInv, NEW fd, LaunchFails(fd)
    PROVE  IInv'
<1> DEFINE s == SetEvents(pollfds, fd, "OUT")
<1>1. Receive(fd) /\ GoOn(s) /\ UNCHANGED proc /\ (UNCHANGED fdt \/ LeakPipe)
  BY DEF LaunchFails
<1>2. PICK c \in Fed(clients[fd]) : clients' = [clients EXCEPT ![fd] = Respond(c, "500")]
  BY DEF LaunchFails
<1>3. /\ pc = "pass" /\ fd \in DOMAIN clients
      /\ peer' \in [Peer -> PeerType]
      /\ UNCHANGED <<backlog, cur, hung, stale>>
  BY <1>1, ReceiveFacts
<1> DEFINE d == Respond(c, "500")
<1>4. d \in ClientType /\ Fewer(clients[fd], d)
  <2>1. c \in ClientType /\ SamePipes(clients[fd], c)
    BY <1>3, ClientAt, FedType
  <2>2. d \in ClientType /\ SamePipes(c, d)
    BY <2>1, RespondType DEF Answers
  <2> HIDE DEF d
  <2> QED
    BY <2>1, <2>2, SamePipesFewer
<1>5. Sound(s, backlog') /\ Watched(s) = Watched(pollfds)
  BY <1>3, VectorSound, SetEventsSound
<1>6. World' /\ fdt' \in [Fd -> DescriptorType] /\ Closes({})
  BY <1>1, <1>3, NothingCloses, LeakPipeFacts DEF IInv, World, Objects
<1> HIDE DEF s, d
<1>7. clients' = [clients EXCEPT ![fd] = d]
  BY <1>2 DEF d
<1> QED
  BY <1>1, <1>3, <1>4, <1>5, <1>6, <1>7, PassClient

\* The descriptors of the new pipes were free: no client remembers them.
LEMMA FreeIsUnused ==
    ASSUME IInv, NEW f \in Free
    PROVE  /\ f \in Fd /\ f # NoFd /\ fdt[f].kind = "free"
           /\ f \notin Watched(pollfds)
           /\ f \notin DOMAIN clients
  BY FdIsNatural DEF Free, IInv, Tables

\* One client gets the pipe rd to read from and, if there is a body, wr.
LEMMA PipesOpened ==
    ASSUME IInv, pc = "pass", NEW fd \in DOMAIN clients, NEW d \in ClientType,
           NEW rd \in Free, NEW wr \in Free, rd # wr,
           clients' = [clients EXCEPT ![fd] = d],
           d.cgiFd = rd,
           d.cgiWriteFd \in {wr, NoFd},
           cur' = cur,
           fdt' \in [Fd -> DescriptorType],
           fdt'[rd].kind = "rd",
           d.cgiWriteFd = wr => fdt'[wr].kind = "wr",
           \A f \in Fd \ {rd, wr} : fdt'[f] = fdt[f],
           fdt'[wr].kind \in {"free", "wr"},
           Watched(pollfds') = Watched(pollfds) \cup {rd} \cup
                                 (IF d.cgiWriteFd = wr THEN {wr} ELSE {})
    PROVE  Objects' /\ Tables' /\ Pipes'
<1>1. /\ rd \in Fd /\ rd # NoFd /\ fdt[rd].kind = "free" /\ rd \notin DOMAIN clients
      /\ wr \in Fd /\ wr # NoFd /\ fdt[wr].kind = "free" /\ wr \notin DOMAIN clients
      /\ wr \notin Watched(pollfds)
  BY FreeIsUnused
<1>2. cur = NoFd /\ cur' \notin DOMAIN clients /\ cur \notin DOMAIN clients
  BY FdIsNatural DEF IInv, Memory, Objects
<1>3. /\ DOMAIN clients' = DOMAIN clients
      /\ clients'[fd] = d
      /\ \A f \in DOMAIN clients \ {fd} : clients'[f] = clients[f]
  OBVIOUS
<1>4. Objects'
  <2>1. clients' \in [DOMAIN clients' -> ClientType]
    BY FunctionUpdate DEF IInv, Objects
  <2> QED
    BY <2>1, <1>3 DEF IInv, Objects
<1>5. Tables'
  <2>1. Watched(pollfds) \subseteq Fd
    BY WatchedInFd DEF IInv, Vector
  <2>2. \A g \in Watched(pollfds') : fdt'[g].kind # "free"
    BY <2>1, <1>1 DEF IInv, Tables
  <2>3. \A g \in Fd : g \in DOMAIN clients' <=> fdt'[g].kind = "sock"
    BY <1>1, <1>3 DEF IInv, Tables
  <2>4. DOMAIN clients' \subseteq Watched(pollfds')
    BY <1>3 DEF IInv, Tables
  <2>5. \A g \in ListenFds : fdt'[g].kind = "listen"
    BY <1>1, FdIsNatural DEF IInv, Tables
  <2> QED
    BY <2>2, <2>3, <2>4, <2>5 DEF Tables
<1>6. Pipes'
  <2>1. ASSUME NEW f \in DOMAIN clients \ {fd}
        PROVE  /\ clients[f].cgiRunning =>
                     /\ clients[f].cgiFd \in Fd \ {rd, wr}
                     /\ fdt'[clients[f].cgiFd].kind = "rd"
               /\ clients[f].cgiWriteFd # NoFd =>
                     /\ clients[f].cgiWriteFd \in Fd \ {rd, wr}
                     /\ fdt'[clients[f].cgiWriteFd].kind = "wr"
    BY <1>1, <1>2 DEF IInv, Pipes
  <2>2. ASSUME NEW f \in DOMAIN clients'
        PROVE  /\ clients'[f].cgiRunning =>
                     clients'[f].cgiFd \in Fd /\ fdt'[clients'[f].cgiFd].kind = "rd"
               /\ clients'[f].cgiWriteFd # NoFd =>
                     clients'[f].cgiWriteFd \in Fd /\ fdt'[clients'[f].cgiWriteFd].kind = "wr"
    <3>1. CASE f = fd
      BY <3>1, <1>1, <1>3
    <3>2. CASE f # fd
      BY <3>2, <2>1, <1>3
    <3> QED
      BY <3>1, <3>2
  <2>3. ASSUME NEW f \in DOMAIN clients', NEW g \in DOMAIN clients', f # g
        PROVE  /\ clients'[f].cgiRunning /\ clients'[g].cgiRunning =>
                     clients'[f].cgiFd # clients'[g].cgiFd
               /\ clients'[f].cgiWriteFd # NoFd =>
                     clients'[f].cgiWriteFd # clients'[g].cgiWriteFd
    <3>1. CASE f = fd
      BY <3>1, <2>3, <2>1, <1>1, <1>3
    <3>2. CASE g = fd
      BY <3>2, <2>3, <2>1, <1>1, <1>3
    <3>3. CASE f # fd /\ g # fd
      BY <3>3, <2>3, <1>3 DEF IInv, Pipes
    <3> QED
      BY <3>1, <3>2, <3>3
  <2> QED
    BY <2>2, <2>3 DEF Pipes
<1> QED
  BY <1>4, <1>5, <1>6

LEMMA LaunchKeeps ==
    ASSUME IInv, NEW fd, Launch(fd)
    PROVE  IInv'
<1>1. Receive(fd)
  BY DEF Launch
<1>2. /\ pc = "pass" /\ fd \in DOMAIN clients
      /\ peer' \in [Peer -> PeerType]
      /\ UNCHANGED <<backlog, cur, hung, stale>>
  BY <1>1, ReceiveFacts
<1>3. PICK c \in Fed(clients[fd]), pid \in Pid, rd \in Free, wr \in Free :
          /\ PipeEnds(rd, wr)
          /\ proc' = [proc EXCEPT ![pid] = NewScript]
          /\ LET launched == Launched(c, pid, rd, wr)
                 reading  == [fdt EXCEPT ![rd] = [kind |-> "rd", of |-> pid]]
                 watched  == AddPollFd(pollfds, rd, "IN")
             IN  /\ clients' = [clients EXCEPT ![fd] = launched]
                 /\ IF c.req = "scriptBody"
                    THEN /\ fdt' = [reading EXCEPT ![wr] = [kind |-> "wr", of |-> pid]]
                         /\ GoOn(Answering(launched, fd, AddPollFd(watched, wr, "OUT")))
                    ELSE /\ fdt' = reading
                         /\ GoOn(Answering(launched, fd, watched))
  BY ZenonT(40) DEF Launch
<1> DEFINE d == Launched(c, pid, rd, wr)
           r == [kind |-> "rd", of |-> pid]
           w == [kind |-> "wr", of |-> pid]
           x == AddPollFd(pollfds, rd, "IN")
           y == IF c.req = "scriptBody" THEN AddPollFd(x, wr, "OUT") ELSE x
           s == Answering(d, fd, y)
           added == IF c.req = "scriptBody" THEN {wr} ELSE {}
<1>4. /\ d \in ClientType /\ d.cgiRunning /\ d.cgiFd = rd
      /\ d.cgiWriteFd = IF c.req = "scriptBody" THEN wr ELSE NoFd
  <2>1. c \in ClientType
    BY <1>2, ClientAt, FedType
  <2>2. rd \in Fd /\ wr \in Fd
    BY DEF Free
  <2> QED
    BY <2>1, <2>2, LaunchedType
<1>5. r \in DescriptorType /\ w \in DescriptorType /\ r.kind = "rd" /\ w.kind = "wr"
  BY DEF DescriptorType, Kinds
<1>6. /\ clients' = [clients EXCEPT ![fd] = d]
      /\ c.req = "scriptBody" => fdt' = [fdt EXCEPT ![rd] = r, ![wr] = w]
      /\ c.req # "scriptBody" => fdt' = [fdt EXCEPT ![rd] = r]
      /\ GoOn(s)
  BY <1>3
<1>7. rd # wr
  BY <1>3 DEF PipeEnds, Least
<1>8. Sound(s, backlog') /\ Watched(s) = Watched(pollfds) \cup {rd} \cup added
  <2>1. Sound(pollfds, backlog')
    BY <1>2, VectorSound
  <2>2. /\ rd \in Fd /\ rd \notin Watched(pollfds)
        /\ wr \in Fd /\ wr \notin Watched(pollfds)
    BY FreeIsUnused
  <2>3. Sound(x, backlog') /\ Watched(x) = Watched(pollfds) \cup {rd}
    BY <2>1, <2>2, AddPollFdSound
  <2> HIDE DEF x
  <2>4. Sound(y, backlog') /\ Watched(y) = Watched(pollfds) \cup {rd} \cup added
    <3>1. Sound(AddPollFd(x, wr, "OUT"), backlog')
            /\ Watched(AddPollFd(x, wr, "OUT")) = Watched(x) \cup {wr}
      BY <2>2, <2>3, <1>7, AddPollFdSound
    <3> QED
      BY <2>3, <3>1
  <2> HIDE DEF y, d, added
  <2>5. Sound(SetEvents(y, fd, "OUT"), backlog') /\ Watched(SetEvents(y, fd, "OUT")) = Watched(y)
    BY <2>4, SetEventsSound
  <2> QED
    BY <2>4, <2>5 DEF Answering
<1> HIDE DEF d, r, w, s
<1>9. /\ rd \in Fd /\ rd # NoFd /\ fdt[rd].kind = "free"
      /\ wr \in Fd /\ wr # NoFd /\ fdt[wr].kind = "free"
  BY FreeIsUnused
<1>10. /\ fdt' \in [Fd -> DescriptorType]
       /\ fdt'[rd].kind = "rd"
       /\ c.req = "scriptBody" => fdt'[wr].kind = "wr"
       /\ fdt'[wr].kind \in {"free", "wr"}
       /\ \A f \in Fd \ {rd, wr} : fdt'[f] = fdt[f]
  <2>1. fdt \in [Fd -> DescriptorType]
    BY DEF IInv, Objects
  <2> HIDE DEF DescriptorType
  <2>2. CASE c.req = "scriptBody"
    BY <2>1, <2>2, <1>5, <1>6, <1>7, <1>9
  <2>3. CASE c.req # "scriptBody"
    BY <2>1, <2>3, <1>5, <1>6, <1>7, <1>9
  <2> QED
    BY <2>2, <2>3
<1>11. /\ Place' /\ Vector'
       /\ pc' \in {"pass", "timeouts"}
       /\ Watched(pollfds') = Watched(s)
  BY <1>6, <1>8, GoOnKeeps DEF IInv, Sound
<1>12. d.cgiWriteFd \in {wr, NoFd} /\ (d.cgiWriteFd = wr <=> c.req = "scriptBody")
  BY <1>4, <1>9
<1>13. Watched(pollfds') = Watched(pollfds) \cup {rd} \cup
                             (IF d.cgiWriteFd = wr THEN {wr} ELSE {})
  BY <1>8, <1>11, <1>12
<1>14. Objects' /\ Tables' /\ Pipes'
  <2> HIDE DEF added
  <2> QED
    BY <1>2, <1>4, <1>6, <1>7, <1>10, <1>12, <1>13, PipesOpened
<1>15. World'
  <2>1. NewScript \in ScriptType
    BY DEF NewScript, NoScript, ScriptType
  <2>2. proc \in [Pid -> ScriptType] /\ proc' = [proc EXCEPT ![pid] = NewScript]
    BY <1>3 DEF IInv, World
  <2>3. proc' \in [Pid -> ScriptType]
    BY <2>1, <2>2, FunctionUpdate
  <2> QED
    BY <2>3, <1>2 DEF IInv, World
<1>16. Memory'
  BY <1>2, <1>11 DEF IInv, Memory
<1> QED
  BY <1>11, <1>14, <1>15, <1>16 DEF IInv

LEMMA WritePartKeeps ==
    ASSUME IInv, NEW fd, WritePart(fd)
    PROVE  IInv'
<1>1. /\ pc = "pass" /\ fd \in DOMAIN clients /\ GoOn(pollfds)
      /\ peer' = [peer EXCEPT ![fdt[fd].of].room = FALSE]
      /\ UNCHANGED <<fdt, proc, backlog, cur, hung, stale>>
  BY DEF WritePart, Send, Writable, AtSocket
<1>2. PICK n \in 1..(clients[fd].unsent - 1) : clients' = [clients EXCEPT ![fd] = Sent(@, n)]
  BY DEF WritePart
<1> DEFINE d == Sent(clients[fd], n)
           p == fdt[fd].of
<1>3. clients' = [clients EXCEPT ![fd] = d]
  BY <1>1, <1>2
<1>4. d \in ClientType /\ Fewer(clients[fd], d)
  BY <1>1, ClientAt, SentType DEF SamePipes, Fewer
<1> HIDE DEF d
<1>5. peer' \in [Peer -> PeerType]
  <2>1. \A r \in PeerType : [r EXCEPT !.room = FALSE] \in PeerType
    BY PeerUpdates
  <2>2. peer \in [Peer -> PeerType] /\ peer' = [peer EXCEPT ![p].room = FALSE]
    BY <1>1 DEF IInv, World
  <2> HIDE DEF PeerType, p
  <2> QED
    BY <2>1, <2>2
<1>6. World' /\ fdt' \in [Fd -> DescriptorType] /\ Sound(pollfds, backlog')
  BY <1>1, <1>5, VectorSound DEF IInv, World, Objects
<1> QED
  BY <1>1, <1>3, <1>4, <1>6, NothingCloses, PassClient

LEMMA WriteLastKeeps ==
    ASSUME IInv, NEW fd, WriteLast(fd)
    PROVE  IInv'
<1> DEFINE s == SetEvents(pollfds, fd, "IN")
<1>1. /\ pc = "pass" /\ fd \in DOMAIN clients /\ GoOn(s)
      /\ clients' = [clients EXCEPT ![fd] = Reset(@)]
      /\ UNCHANGED <<fdt, proc, peer, backlog, cur, hung, stale>>
  BY DEF WriteLast, Send, Writable, AtSocket, world
<1>2. clients' = [clients EXCEPT ![fd] = NewClient]
  BY <1>1, ResetType
<1>3. NewClient \in ClientType /\ Fewer(clients[fd], NewClient)
  BY NewClientType DEF Fewer
<1>4. Sound(s, backlog') /\ Watched(s) = Watched(pollfds)
  BY <1>1, VectorSound, SetEventsSound
<1>5. World' /\ fdt' \in [Fd -> DescriptorType]
  BY <1>1 DEF IInv, World, Objects
<1> HIDE DEF s
<1> QED
  BY <1>1, <1>2, <1>3, <1>4, <1>5, NothingCloses, PassClient

-----------------------------------------------------------------------------
(* The handlers of a script's pipes.                                       *)

LEMMA ScriptUpdates ==
    ASSUME NEW r \in ScriptType
    PROVE  /\ [r EXCEPT !.output = FALSE] \in ScriptType
           /\ [r EXCEPT !.output = TRUE] \in ScriptType
           /\ [r EXCEPT !.room = FALSE] \in ScriptType
           /\ [r EXCEPT !.room = TRUE] \in ScriptType
           /\ [r EXCEPT !.stdin = FALSE] \in ScriptType
           /\ [r EXCEPT !.stdout = FALSE] \in ScriptType
           /\ [r EXCEPT !.st = "zombie", !.stdout = FALSE, !.stdin = FALSE] \in ScriptType
  BY DEF ScriptType

\* Which descriptor the entry of a pipe is about.
LEMMA PipeAt ==
    ASSUME IInv, NEW c, AtOutputPipe(c) \/ AtBodyPipe(c)
    PROVE  /\ pc = "pass" /\ cur = NoFd /\ c \in DOMAIN clients /\ c # cur
           /\ Entry.fd \in Fd /\ Entry.fd \notin ListenFds
           /\ AtOutputPipe(c) => /\ clients[c].cgiRunning
                                 /\ Entry.fd = clients[c].cgiFd
                                 /\ fdt[Entry.fd].kind = "rd"
           /\ AtBodyPipe(c) => /\ Entry.fd = clients[c].cgiWriteFd
                               /\ fdt[Entry.fd].kind = "wr"
<1>1. pc = "pass" /\ Entry.fd \notin ListenFds
  BY DEF AtOutputPipe, AtBodyPipe
<1>2. Entry.fd \in Fd
  <2>1. i \in DOMAIN pollfds
    BY <1>1 DEF IInv, Place
  <2> QED
    BY <2>1, WatchedInFd DEF Entry, Watched, IInv, Vector
<1>3. c \in DOMAIN clients /\ cur = NoFd /\ c # cur /\ Entry.fd # NoFd
  BY <1>1, <1>2, FdIsNatural
  DEF AtOutputPipe, AtBodyPipe, Least, CgiOwners, CgiWriteOwners, IInv, Memory, Objects
<1>4. ASSUME AtOutputPipe(c)
      PROVE  clients[c].cgiRunning /\ Entry.fd = clients[c].cgiFd /\ fdt[Entry.fd].kind = "rd"
  BY <1>3, <1>4 DEF AtOutputPipe, Least, CgiOwners, IInv, Pipes
<1>5. ASSUME AtBodyPipe(c)
      PROVE  Entry.fd = clients[c].cgiWriteFd /\ fdt[Entry.fd].kind = "wr"
  BY <1>3, <1>5 DEF AtBodyPipe, Least, CgiWriteOwners, IInv, Pipes
<1> QED
  BY <1>1, <1>2, <1>3, <1>4, <1>5

LEMMA HandleCGIReadKeeps ==
    ASSUME IInv, NEW c, HandleCGIRead(c)
    PROVE  IInv'
<1>1. /\ AtOutputPipe(c) /\ GoOn(pollfds)
      /\ clients' = [clients EXCEPT ![c].cgiOutput = TRUE]
      /\ UNCHANGED <<fdt, peer, backlog, cur, hung, stale>>
  BY DEF HandleCGIRead
<1>2. PICK p \in ScriptAt(Entry.fd) : proc' = [proc EXCEPT ![p].output = FALSE]
  BY DEF HandleCGIRead
<1>3. pc = "pass" /\ c \in DOMAIN clients
  BY <1>1, PipeAt
<1> DEFINE d == [clients[c] EXCEPT !.cgiOutput = TRUE]
<1>4. clients' = [clients EXCEPT ![c] = d]
  BY <1>1, <1>3
<1>5. d \in ClientType /\ Fewer(clients[c], d)
  BY <1>3, ClientAt, OutputType DEF SamePipes, Fewer
<1> HIDE DEF d
<1>6. proc' \in [Pid -> ScriptType]
  <2>1. \A r \in ScriptType : [r EXCEPT !.output = FALSE] \in ScriptType
    BY ScriptUpdates
  <2>2. proc \in [Pid -> ScriptType]
    BY DEF IInv, World
  <2> HIDE DEF ScriptType
  <2> QED
    BY <1>2, <2>1, <2>2
<1>7. World' /\ fdt' \in [Fd -> DescriptorType] /\ Sound(pollfds, backlog')
  BY <1>1, <1>6, VectorSound DEF IInv, World, Objects
<1> QED
  BY <1>1, <1>3, <1>4, <1>5, <1>7, NothingCloses, PassClient

LEMMA CGIEndOfFileKeeps ==
    ASSUME IInv, NEW c, CGIEndOfFile(c)
    PROVE  IInv'
<1> DEFINE D == {Entry.fd}
<1>1. /\ AtOutputPipe(c)
      /\ pollfds' = RemovePollFd(pollfds, Entry.fd)
      /\ fdt' = Close(fdt, D)
      /\ cur' = c
      /\ pc' = "waitpid"
      /\ UNCHANGED <<i, clients, proc, peer, backlog, hung, stale>>
  BY DEF CGIEndOfFile
<1>2. /\ pc = "pass" /\ cur = NoFd /\ c \in DOMAIN clients /\ cur \notin DOMAIN clients
      /\ Entry.fd \in Fd /\ Entry.fd \notin ListenFds
      /\ clients[c].cgiRunning
      /\ Entry.fd = clients[c].cgiFd
      /\ fdt[Entry.fd].kind = "rd"
  BY <1>1, PipeAt, FdIsNatural DEF IInv, Objects
<1>3. Sound(pollfds', backlog') /\ Watched(pollfds') = Watched(pollfds) \ D
  BY <1>1, VectorSound, RemovePollFdSound
<1>4. fdt' \in [Fd -> DescriptorType] /\ Closes(D)
  BY <1>1, CloseType DEF IInv, Objects, Closes
<1>5. /\ D \cap ListenFds = {}
      /\ DOMAIN clients' = DOMAIN clients \ D
      /\ Watched(pollfds) \subseteq Fd
  BY <1>1, <1>2, WatchedInFd DEF IInv, Tables, Vector
<1>6. ASSUME NEW f \in DOMAIN clients'
      PROVE  /\ Fewer(clients[f], clients'[f])
             /\ clients'[f].cgiRunning /\ f # cur' => f # cur /\ clients'[f].cgiFd \notin D
             /\ clients'[f].cgiWriteFd # NoFd => clients'[f].cgiWriteFd \notin D
  BY <1>1, <1>2 DEF Fewer, IInv, Pipes
<1>7. Tables' /\ Pipes'
  <2> HIDE DEF D, IInv, Closes, Fewer
  <2>1. Tables /\ Pipes /\ Objects
    BY DEF IInv
  <2>2. pc # "stopped"
    BY <1>2
  <2> QED
    BY <1>3, <1>4, <1>5, <1>6, <2>1, <2>2, ClosingKeeps
<1>8. Place' /\ Vector' /\ World' /\ Objects'
  BY <1>1, <1>3, <1>4 DEF IInv, Place, Places, Vector, Sound, World, Objects
<1>9. Memory'
  BY <1>1, <1>2 DEF IInv, Memory, Running
<1> QED
  BY <1>7, <1>8, <1>9 DEF IInv

LEMMA WaitpidReturnsKeeps ==
    ASSUME IInv, WaitpidReturns
    PROVE  IInv'
<1> DEFINE s == SetEvents(pollfds, cur, "OUT")
           d == Finished(clients[cur])
           pid == clients[cur].cgiPid
<1>1. /\ pc = "waitpid" /\ GoOn(s)
      /\ proc' = Reaped({pid})
      /\ fdt' = Bury(fdt, {pid})
      /\ clients' = [clients EXCEPT ![cur] = Finished(@)]
      /\ cur' = NoFd
      /\ UNCHANGED <<peer, backlog, hung, stale>>
  BY DEF WaitpidReturns
<1>2. cur \in DOMAIN clients
  BY <1>1 DEF IInv, Memory, Running
<1>3. d \in ClientType /\ ~d.cgiRunning /\ Fewer(clients[cur], d)
  BY <1>2, ClientAt, FinishedType DEF Fewer
<1>4. Sound(s, backlog') /\ Watched(s) = Watched(pollfds) \ {}
  BY <1>1, VectorSound, SetEventsSound
<1>5. fdt' \in [Fd -> DescriptorType] /\ Closes({})
  BY <1>1, BuryType DEF IInv, Objects, Closes
<1>6. World'
  BY <1>1, ReapedType DEF IInv, World
<1>7. clients' = [clients EXCEPT ![cur] = d]
  BY <1>1, <1>2
<1> HIDE DEF s, d, pid
<1>8. clients' \in [DOMAIN clients' -> ClientType] /\ DOMAIN clients' = DOMAIN clients \ {}
  BY <1>2, <1>3, <1>7, FunctionUpdate DEF IInv, Objects
<1>9. Objects'
  BY <1>5, <1>8 DEF IInv, Objects
<1>10. \A f \in DOMAIN clients' :
          Fewer(clients[f], clients'[f]) /\ (clients'[f].cgiRunning => f # cur)
  BY <1>2, <1>3, <1>7, <1>8 DEF Fewer
<1> HIDE DEF IInv, World, Objects, Closes, Fewer
<1> QED
  BY <1>1, <1>4, <1>5, <1>6, <1>8, <1>9, <1>10, PassStep

LEMMA CloseBodyPipeKeeps ==
    ASSUME IInv, NEW c, AtBodyPipe(c), CloseBodyPipe(c),
           UNCHANGED <<proc, peer, backlog, cur, hung, stale>>
    PROVE  IInv'
<1> DEFINE D == {Entry.fd}
           d == BodyDone(clients[c])
           s == RemovePollFd(pollfds, Entry.fd)
<1>1. /\ clients' = [clients EXCEPT ![c] = BodyDone(@)]
      /\ fdt' = Close(fdt, D)
      /\ GoOn(s)
  BY DEF CloseBodyPipe
<1>2. /\ pc = "pass" /\ cur = NoFd /\ c \in DOMAIN clients /\ cur \notin DOMAIN clients
      /\ Entry.fd \in Fd /\ Entry.fd \notin ListenFds
      /\ Entry.fd = clients[c].cgiWriteFd
      /\ fdt[Entry.fd].kind = "wr"
  BY PipeAt, FdIsNatural DEF IInv, Objects
<1>3. d \in ClientType /\ Fewer(clients[c], d) /\ d.cgiWriteFd = NoFd
      /\ d.cgiRunning = clients[c].cgiRunning /\ d.cgiFd = clients[c].cgiFd
  BY <1>2, ClientAt, BodyDoneType DEF Fewer
<1>4. clients' = [clients EXCEPT ![c] = d]
  BY <1>1, <1>2
<1>5. Sound(s, backlog') /\ Watched(s) = Watched(pollfds) \ D
  BY VectorSound, RemovePollFdSound
<1>6. fdt' \in [Fd -> DescriptorType] /\ Closes(D)
  BY <1>1, CloseType DEF IInv, Objects, Closes
<1> HIDE DEF d, s
<1>7. /\ DOMAIN clients' = DOMAIN clients
      /\ clients' \in [DOMAIN clients' -> ClientType]
      /\ clients'[c] = d
      /\ \A f \in DOMAIN clients \ {c} : clients'[f] = clients[f]
  BY <1>2, <1>3, <1>4, FunctionUpdate DEF IInv, Objects
<1>8. World' /\ Objects'
  BY <1>6, <1>7 DEF IInv, World, Objects
<1>9. D \cap ListenFds = {} /\ DOMAIN clients' = DOMAIN clients \ D
  BY <1>2, <1>7 DEF IInv, Tables
<1>10. ASSUME NEW f \in DOMAIN clients'
       PROVE  /\ Fewer(clients[f], clients'[f])
              /\ clients'[f].cgiRunning => f # cur /\ clients'[f].cgiFd \notin D
              /\ clients'[f].cgiWriteFd # NoFd => clients'[f].cgiWriteFd \notin D
  <2>1. CASE f = c
    BY <2>1, <1>2, <1>3, <1>7 DEF IInv, Pipes
  <2>2. CASE f # c
    BY <2>2, <1>2, <1>7 DEF Fewer, IInv, Pipes
  <2> QED
    BY <2>1, <2>2
<1>11. cur' = NoFd
  BY <1>2
<1> HIDE DEF D, IInv, World, Objects, Closes, Fewer
<1> QED
  BY <1>1, <1>2, <1>5, <1>6, <1>8, <1>9, <1>10, <1>11, PassStep

LEMMA HandleCGIWriteKeeps ==
    ASSUME IInv, NEW c, HandleCGIWrite(c)
    PROVE  IInv'
<1>1. AtBodyPipe(c) /\ UNCHANGED <<peer, backlog, cur, hung, stale>>
  BY DEF HandleCGIWrite, BodyPipeReady
<1>2. CASE CloseBodyPipe(c) /\ UNCHANGED proc
  BY <1>1, <1>2, CloseBodyPipeKeeps
<1>3. CASE /\ UNCHANGED fdt /\ GoOn(pollfds)
           /\ \E p \in ScriptAt(Entry.fd), n \in 1..(clients[c].bodyLeft - 1) :
                 /\ clients' = [clients EXCEPT ![c].bodyLeft = @ - n]
                 /\ proc' = [proc EXCEPT ![p].room = FALSE]
  <2>1. PICK p \in ScriptAt(Entry.fd), n \in 1..(clients[c].bodyLeft - 1) :
                 /\ clients' = [clients EXCEPT ![c].bodyLeft = @ - n]
                 /\ proc' = [proc EXCEPT ![p].room = FALSE]
    BY <1>3
  <2>2. pc = "pass" /\ c \in DOMAIN clients
    BY <1>1, PipeAt
  <2> DEFINE r == clients[c]
             d == [r EXCEPT !.bodyLeft = @ - n]
  <2>3. clients' = [clients EXCEPT ![c] = d]
    BY <2>1, <2>2
  <2>4. r \in ClientType
    BY <2>2, ClientAt
  <2>5. d \in ClientType /\ Fewer(r, d)
    <3> HIDE DEF r
    <3>1. n \in 1..(r.bodyLeft - 1)
      BY DEF r
    <3> QED
      BY <2>4, <3>1, BodyLeftType DEF SamePipes, Fewer
  <2> HIDE DEF d
  <2>6. proc' \in [Pid -> ScriptType]
    <3>1. \A q \in ScriptType : [q EXCEPT !.room = FALSE] \in ScriptType
      BY ScriptUpdates
    <3>2. proc \in [Pid -> ScriptType]
      BY DEF IInv, World
    <3> HIDE DEF ScriptType
    <3> QED
      BY <2>1, <3>1, <3>2
  <2>7. World' /\ fdt' \in [Fd -> DescriptorType] /\ Sound(pollfds, backlog')
    BY <1>1, <1>3, <2>6, VectorSound DEF IInv, World, Objects
  <2> QED
    BY <1>1, <1>3, <2>2, <2>3, <2>5, <2>7, NothingCloses, PassClient
<1> QED
  BY <1>2, <1>3 DEF HandleCGIWrite

-----------------------------------------------------------------------------
(* _checkTimeouts.                                                         *)

LEMMA CheckTimeoutsKeeps ==
    ASSUME IInv, CheckTimeouts
    PROVE  IInv'
<1>1. /\ pc = "timeouts"
      /\ hung' = TooOld
      /\ stale' = TimedOut
      /\ pc' = (IF TooOld \cup TimedOut = {} THEN "poll" ELSE "purge")
      /\ UNCHANGED <<i, pollfds, clients, fdt, proc, peer, backlog, cur>>
  BY DEF CheckTimeouts
<1>2. Place' /\ Vector' /\ World' /\ Objects' /\ Tables' /\ Pipes'
  BY <1>1 DEF IInv, Place, Places, Vector, World, Objects, Tables, Pipes
<1>3. Memory'
  BY <1>1 DEF IInv, Memory, TooOld, TimedOut, ScriptTooOld, HasTimedOut, Running
<1> QED
  BY <1>2, <1>3 DEF IInv

LEMMA GatewayTimeoutKeeps ==
    ASSUME IInv, NEW fd, GatewayTimeout(fd)
    PROVE  IInv'
<1> DEFINE c == clients[fd]
           d == GivenUp(c)
           D == {c.cgiFd, c.cgiWriteFd}
           a == RemovePollFd(pollfds, c.cgiFd)
           b == RemovePollFd(a, c.cgiWriteFd)
<1>1. /\ pc = "purge"
      /\ fd \in hung
      /\ proc' = Reaped({c.cgiPid})
      /\ fdt' = Bury(Close(fdt, D), {c.cgiPid})
      /\ pollfds' = SetEvents(b, fd, "OUT")
      /\ clients' = [clients EXCEPT ![fd] = d]
      /\ hung' = hung \ {fd}
      /\ pc' \in {"poll", "purge"}
      /\ pc' = "poll" => hung' \cup stale = {}
      /\ UNCHANGED <<i, peer, backlog, cur, stale>>
  BY DEF GatewayTimeout, Least
<1>2. /\ fd \in DOMAIN clients /\ c.cgiRunning
      /\ cur = NoFd /\ DOMAIN clients \subseteq Fd
      /\ cur \notin DOMAIN clients
  BY <1>1, FdIsNatural DEF IInv, Memory, Running, Objects
<1>3. /\ fdt[c.cgiFd].kind = "rd"
      /\ c.cgiWriteFd # NoFd => fdt[c.cgiWriteFd].kind = "wr"
  BY <1>2 DEF IInv, Pipes
<1>4. d \in ClientType /\ ~d.cgiRunning /\ d.cgiWriteFd = NoFd /\ Fewer(c, d)
  BY <1>2, ClientAt, GivenUpType DEF Fewer
<1>5. Sound(pollfds', backlog') /\ Watched(pollfds') = Watched(pollfds) \ D
  <2>1. Sound(pollfds, backlog')
    BY <1>1, VectorSound
  <2>2. Sound(a, backlog') /\ Watched(a) = Watched(pollfds) \ {c.cgiFd}
    BY <2>1, RemovePollFdSound
  <2> HIDE DEF a
  <2>3. Sound(b, backlog') /\ Watched(b) = Watched(a) \ {c.cgiWriteFd}
    BY <2>2, RemovePollFdSound
  <2> HIDE DEF b
  <2>4. Sound(pollfds', backlog') /\ Watched(pollfds') = Watched(b)
    BY <1>1, <2>3, SetEventsSound
  <2> QED
    BY <2>2, <2>3, <2>4
<1>6. fdt' \in [Fd -> DescriptorType] /\ Closes(D)
  <2> DEFINE t == Close(fdt, D)
  <2>1. /\ t \in [Fd -> DescriptorType]
        /\ \A f \in Fd : t[f].kind = IF f \in D THEN "free" ELSE fdt[f].kind
    BY CloseType DEF IInv, Objects
  <2> HIDE DEF t, D
  <2>2. fdt' \in [Fd -> DescriptorType] /\ \A f \in Fd : fdt'[f].kind = t[f].kind
    BY <1>1, <2>1, BuryType DEF t
  <2> QED
    BY <2>1, <2>2 DEF Closes
<1> HIDE DEF d
<1>7. /\ DOMAIN clients' = DOMAIN clients
      /\ clients' \in [DOMAIN clients' -> ClientType]
      /\ clients'[fd] = d
      /\ \A f \in DOMAIN clients \ {fd} : clients'[f] = clients[f]
  BY <1>1, <1>2, <1>4, FunctionUpdate DEF IInv, Objects
<1>8. World'
  BY <1>1, ReapedType DEF IInv, World
<1>9. Objects'
  BY <1>6, <1>7 DEF IInv, Objects
<1>10. D \cap ListenFds = {} /\ DOMAIN clients' = DOMAIN clients \ D
  <2>1. /\ \A g \in ListenFds : fdt[g].kind = "listen" /\ g # NoFd
        /\ \A g \in DOMAIN clients : fdt[g].kind = "sock" /\ g # NoFd
    BY <1>1, <1>2, FdIsNatural DEF IInv, Tables
  <2> QED
    BY <2>1, <1>3, <1>7
<1>11. ASSUME NEW f \in DOMAIN clients'
       PROVE  /\ Fewer(clients[f], clients'[f])
              /\ clients'[f].cgiRunning /\ f # cur' => f # cur /\ clients'[f].cgiFd \notin D
              /\ clients'[f].cgiWriteFd # NoFd => clients'[f].cgiWriteFd \notin D
  <2>1. CASE f = fd
    BY <2>1, <1>4, <1>7
  <2>2. CASE f # fd
    <3>1. clients'[f] = clients[f] /\ f \in DOMAIN clients /\ f # cur
      BY <2>2, <1>2, <1>7
    <3>2. Fewer(clients[f], clients'[f])
      BY <3>1 DEF Fewer
    <3>3. ASSUME clients[f].cgiRunning PROVE clients[f].cgiFd \notin D
      <4>1. clients[f].cgiFd # c.cgiFd
        BY <2>2, <3>1, <3>3, <1>2 DEF IInv, Pipes
      <4>2. clients[f].cgiFd \in Fd /\ fdt[clients[f].cgiFd].kind = "rd" /\ NoFd \notin Fd
        BY <3>1, <3>3, FdIsNatural DEF IInv, Pipes
      <4> QED
        BY <4>1, <4>2, <1>3
    <3>4. ASSUME clients[f].cgiWriteFd # NoFd PROVE clients[f].cgiWriteFd \notin D
      <4>1. clients[f].cgiWriteFd # c.cgiWriteFd
        BY <2>2, <3>1, <3>4, <1>2 DEF IInv, Pipes
      <4>2. fdt[clients[f].cgiWriteFd].kind = "wr"
        BY <3>1, <3>4 DEF IInv, Pipes
      <4> QED
        BY <4>1, <4>2, <1>3
    <3> QED
      BY <3>1, <3>2, <3>3, <3>4
  <2> QED
    BY <2>1, <2>2
<1>12. Watched(pollfds) \subseteq Fd
  BY WatchedInFd DEF IInv, Vector
<1>13. Tables' /\ Pipes'
  <2>1. Tables /\ Pipes /\ Objects /\ pc # "stopped"
    BY <1>1 DEF IInv
  <2> HIDE DEF D, c, IInv, Closes, Fewer
  <2> QED
    BY <1>5, <1>6, <1>10, <1>11, <1>12, <2>1, ClosingKeeps
<1>14. Place' /\ Vector'
  BY <1>1, <1>5 DEF IInv, Place, Places, Vector, Sound
<1>15. Memory'
  BY <1>1, <1>7 DEF IInv, Memory, Running
<1> QED
  BY <1>8, <1>9, <1>13, <1>14, <1>15 DEF IInv

LEMMA DropIdleKeeps ==
    ASSUME IInv, NEW fd, DropIdle(fd)
    PROVE  IInv'
<1> DEFINE D == Descriptors(fd)
<1>1. /\ pc = "purge" /\ hung = {} /\ fd \in stale
      /\ RemoveClient(fd)
      /\ pollfds' = UnwatchAll(fd)
      /\ stale' = stale \ {fd}
      /\ pc' \in {"poll", "purge"}
      /\ pc' = "poll" => stale' = {}
      /\ i' = i
  BY DEF DropIdle, Least
<1>2. /\ fd \in DOMAIN clients /\ cur = NoFd /\ DOMAIN clients \subseteq Fd
      /\ cur \notin DOMAIN clients
  BY <1>1, FdIsNatural DEF IInv, Memory, Objects
<1>3. Removable(fd)
  BY <1>1, <1>2, FdIsNatural DEF Removable, IInv, Tables
<1>4. /\ World' /\ Objects'
      /\ Closes(D)
      /\ DOMAIN clients' = DOMAIN clients \ {fd}
      /\ \A f \in DOMAIN clients' : clients'[f] = clients[f]
      /\ UNCHANGED <<backlog, cur, hung>>
  BY <1>1, <1>3, RemoveClientKeeps
<1>5. /\ D \cap ListenFds = {}
      /\ DOMAIN clients' = DOMAIN clients \ D
      /\ \A f \in DOMAIN clients \ {fd} :
            /\ clients[f].cgiRunning => clients[f].cgiFd \notin D
            /\ clients[f].cgiWriteFd # NoFd => clients[f].cgiWriteFd \notin D
  BY <1>1, <1>3, <1>4, DescriptorsClosable
<1>6. Sound(pollfds', backlog') /\ Watched(pollfds') = Watched(pollfds) \ D
  BY <1>1, <1>4, UnwatchAllKeeps
<1>7. Watched(pollfds) \subseteq Fd
  BY WatchedInFd DEF IInv, Vector
<1> HIDE DEF D
<1>8. ASSUME NEW f \in DOMAIN clients'
      PROVE  /\ Fewer(clients[f], clients'[f])
             /\ clients'[f].cgiRunning /\ f # cur' => f # cur /\ clients'[f].cgiFd \notin D
             /\ clients'[f].cgiWriteFd # NoFd => clients'[f].cgiWriteFd \notin D
  BY <1>2, <1>4, <1>5 DEF Fewer
<1>9. Tables' /\ Pipes'
  <2>1. Tables /\ Pipes /\ Objects /\ pc # "stopped"
    BY <1>1 DEF IInv
  <2> HIDE DEF IInv, Closes, Fewer
  <2> QED
    BY <1>4, <1>5, <1>6, <1>7, <1>8, <2>1, ClosingKeeps
<1>10. Place' /\ Vector'
  BY <1>1, <1>6 DEF IInv, Place, Places, Vector, Sound
<1>11. Memory'
  BY <1>1, <1>2, <1>4 DEF IInv, Memory
<1> QED
  BY <1>4, <1>9, <1>10, <1>11 DEF IInv

-----------------------------------------------------------------------------
(* Shutdown, the environment, and time.                                    *)

LEMMA StopKeeps ==
    ASSUME IInv, Stop
    PROVE  IInv'
<1>1. /\ pc = "poll" /\ pc' = "stopped"
      /\ fdt' = Close(fdt, ListenFds \cup DOMAIN clients)
      /\ clients' = <<>>
      /\ pollfds' = <<>>
      /\ peer' = [p \in Peer |-> Away]
      /\ backlog' = [l \in ListenFds |-> <<>>]
      /\ UNCHANGED <<i, proc, cur, hung, stale>>
  BY DEF Stop
<1>2. /\ fdt' \in [Fd -> DescriptorType]
      /\ \A f \in Fd : fdt'[f].kind = IF f \in ListenFds \cup DOMAIN clients
                                      THEN "free" ELSE fdt[f].kind
  BY <1>1, CloseType DEF IInv, Objects
<1>3. DOMAIN clients' = {} /\ Watched(pollfds') = {} /\ DOMAIN pollfds' = {}
  BY <1>1 DEF Watched
<1>4. Place' /\ Vector'
  BY <1>1, <1>3 DEF IInv, Place, Places, Vector, Distinct, Ready
<1>5. World'
  <2>1. Away \in PeerType
    BY DEF Away, PeerType
  <2> HIDE DEF PeerType, Away
  <2> QED
    BY <1>1, <2>1 DEF IInv, World
<1>6. Objects'
  <2>1. clients' \in [DOMAIN clients' -> ClientType]
    BY <1>1, <1>3
  <2> QED
    BY <1>2, <1>3, <2>1 DEF Objects
<1>9. Pipes'
  BY <1>3 DEF Pipes
<1>7. Tables'
  BY <1>1, <1>2, <1>3 DEF IInv, Tables
<1>8. Memory'
  BY <1>1, <1>3 DEF IInv, Memory, Running
<1> QED
  BY <1>4, <1>5, <1>6, <1>9, <1>7, <1>8 DEF IInv

LEMMA PeerStepKeeps ==
    ASSUME IInv, PeerStep, UNCHANGED server
    PROVE  IInv'
<1>1. UNCHANGED <<pc, i, pollfds, clients, fdt, proc, cur, hung, stale>>
  BY DEF PeerStep, server
<1>2. /\ peer \in [Peer -> PeerType]
      /\ backlog \in [ListenFds -> Seq(Peer)]
  BY DEF IInv, World
<1>3. /\ peer' \in [Peer -> PeerType]
      /\ backlog' \in [ListenFds -> Seq(Peer)]
      /\ \A l \in ListenFds : backlog[l] # <<>> => backlog'[l] # <<>>
  <2>1. PICK p \in Peer :
          \/ PeerConnect(p)
          \/ (PeerSend(p) \/ PeerFin(p) \/ PeerReset(p) \/ PeerDrain(p)) /\ UNCHANGED backlog
    BY DEF PeerStep
  <2>2. \A r \in PeerType : /\ [r EXCEPT !.inbox = TRUE] \in PeerType
                            /\ [r EXCEPT !.room = TRUE] \in PeerType
                            /\ [r EXCEPT !.st = "queued"] \in PeerType
                            /\ [r EXCEPT !.fin = "fin"] \in PeerType
                            /\ [r EXCEPT !.fin = "rst", !.inbox = FALSE] \in PeerType
    BY PeerUpdates
  <2> HIDE DEF PeerType
  <2>3. CASE PeerConnect(p)
    <3>1. PICK l \in ListenFds : backlog' = [backlog EXCEPT ![l] = Append(@, p)]
      BY <2>3 DEF PeerConnect
    <3> DEFINE q == Append(backlog[l], p)
    <3>2. q \in Seq(Peer) /\ q # <<>>
      BY <1>2
    <3>3. backlog' = [backlog EXCEPT ![l] = q]
      BY <3>1
    <3> HIDE DEF q
    <3>4. backlog' \in [ListenFds -> Seq(Peer)]
      BY <1>2, <3>2, <3>3, FunctionUpdate
    <3>5. \A m \in ListenFds : backlog[m] # <<>> => backlog'[m] # <<>>
      BY <1>2, <3>2, <3>3
    <3>6. peer' = [peer EXCEPT ![p].st = "queued"]
      BY <2>3 DEF PeerConnect
    <3>7. peer' \in [Peer -> PeerType]
      BY <1>2, <2>2, <3>6
    <3> QED
      BY <3>4, <3>5, <3>7
  <2>4. CASE PeerSend(p) /\ UNCHANGED backlog
    BY <1>2, <2>2, <2>4 DEF PeerSend
  <2>5. CASE PeerFin(p) /\ UNCHANGED backlog
    BY <1>2, <2>2, <2>5 DEF PeerFin
  <2>6. CASE PeerReset(p) /\ UNCHANGED backlog
    <3>1. \A r \in PeerType : [r EXCEPT !.fin = "rst", !.inbox = FALSE] \in PeerType
      BY <2>2
    <3>2. peer' = [peer EXCEPT ![p] = [peer[p] EXCEPT !.fin = "rst", !.inbox = FALSE]]
      BY <1>2, <2>6 DEF PeerReset
    <3> QED
      BY <1>2, <2>6, <3>1, <3>2
  <2>7. CASE PeerDrain(p) /\ UNCHANGED backlog
    BY <1>2, <2>2, <2>7 DEF PeerDrain
  <2> QED
    BY <2>1, <2>3, <2>4, <2>5, <2>6, <2>7
<1>4. Vector'
  BY <1>1, <1>3 DEF IInv, Vector, Ready
<1>5. World'
  BY <1>1, <1>3 DEF IInv, World
<1>6. Place' /\ Objects' /\ Tables' /\ Pipes' /\ Memory'
  BY <1>1 DEF IInv, Place, Objects, Tables, Pipes, Memory, Running
<1> QED
  BY <1>4, <1>5, <1>6 DEF IInv

LEMMA ScriptStepKeeps ==
    ASSUME IInv, ScriptStep, UNCHANGED server
    PROVE  IInv'
<1>1. UNCHANGED <<pc, i, pollfds, clients, fdt, peer, backlog, cur, hung, stale>>
  BY DEF ScriptStep, server
<1>2. proc \in [Pid -> ScriptType]
  BY DEF IInv, World
<1>3. proc' \in [Pid -> ScriptType]
  <2>1. PICK p \in Pid : \/ ScriptWrite(p) \/ ScriptRead(p) \/ ScriptCloseStdin(p)
                         \/ ScriptCloseStdout(p) \/ ScriptExit(p)
    BY DEF ScriptStep
  <2>2. \A r \in ScriptType : /\ [r EXCEPT !.output = TRUE] \in ScriptType
                              /\ [r EXCEPT !.room = TRUE] \in ScriptType
                              /\ [r EXCEPT !.stdin = FALSE] \in ScriptType
                              /\ [r EXCEPT !.stdout = FALSE] \in ScriptType
                              /\ [r EXCEPT !.st = "zombie", !.stdout = FALSE, !.stdin = FALSE]
                                    \in ScriptType
    BY ScriptUpdates
  <2> HIDE DEF ScriptType
  <2>3. CASE ScriptWrite(p)
    BY <1>2, <2>2, <2>3 DEF ScriptWrite
  <2>4. CASE ScriptRead(p)
    BY <1>2, <2>2, <2>4 DEF ScriptRead
  <2>5. CASE ScriptCloseStdin(p)
    BY <1>2, <2>2, <2>5 DEF ScriptCloseStdin
  <2>6. CASE ScriptCloseStdout(p)
    BY <1>2, <2>2, <2>6 DEF ScriptCloseStdout
  <2>7. CASE ScriptExit(p)
    <3>1. \A r \in ScriptType :
             [r EXCEPT !.st = "zombie", !.stdout = FALSE, !.stdin = FALSE] \in ScriptType
      BY <2>2
    <3>2. proc' = [proc EXCEPT ![p] =
                     [proc[p] EXCEPT !.st = "zombie", !.stdout = FALSE, !.stdin = FALSE]]
      BY <1>2, <2>7 DEF ScriptExit
    <3> QED
      BY <1>2, <3>1, <3>2
  <2> QED
    BY <2>1, <2>3, <2>4, <2>5, <2>6, <2>7
<1>4. Vector' /\ World'
  BY <1>1, <1>3 DEF IInv, Vector, World
<1>5. Place' /\ Objects' /\ Tables' /\ Pipes' /\ Memory'
  BY <1>1 DEF IInv, Place, Objects, Tables, Pipes, Memory, Running
<1> QED
  BY <1>4, <1>5 DEF IInv

LEMMA TickKeeps ==
    ASSUME IInv, Tick
    PROVE  IInv'
<1>1. /\ pc \in {"poll", "waitpid"}
      /\ clients' = [fd \in DOMAIN clients |-> Older(clients[fd])]
      /\ UNCHANGED <<pc, i, pollfds, fdt, proc, peer, backlog, cur, hung, stale>>
  BY DEF Tick
<1>2. ASSUME NEW f \in DOMAIN clients
      PROVE  Older(clients[f]) \in ClientType /\ SamePipes(clients[f], Older(clients[f]))
  BY ClientAt, OlderType
<1>3. /\ DOMAIN clients' = DOMAIN clients
      /\ \A f \in DOMAIN clients : /\ clients'[f] \in ClientType
                                   /\ SamePipes(clients[f], clients'[f])
  BY <1>1, <1>2
<1>4. clients' \in [DOMAIN clients' -> ClientType]
  <2> HIDE DEF ClientType
  <2> QED
    BY <1>1, <1>3
<1>5. Place' /\ Vector' /\ World' /\ Objects' /\ Tables'
  BY <1>1, <1>3, <1>4 DEF IInv, Place, Vector, World, Objects, Tables
<1>6. Pipes'
  BY <1>1, <1>3 DEF IInv, Pipes, SamePipes
<1>7. Memory'
  BY <1>1, <1>3 DEF IInv, Memory, Running, SamePipes
<1> QED
  BY <1>5, <1>6, <1>7 DEF IInv

-----------------------------------------------------------------------------
(* The invariant.                                                          *)

LEMMA InitEstablishes == Init => IInv
<1> SUFFICES ASSUME Init PROVE IInv
  OBVIOUS
<1>1. /\ pollfds \in Seq(EntryType)
      /\ DOMAIN pollfds = ListenFds
      /\ \A l \in ListenFds : pollfds[l].fd = l /\ pollfds[l].revents = {}
  <2> DEFINE e(l) == [fd |-> l, events |-> "IN", revents |-> {}]
  <2>1. pollfds = [l \in 1..NListen |-> e(l)] /\ NListen \in Nat
    BY LimitsAreNatural DEF Init, ListenFds
  <2>2. \A l \in 1..NListen : e(l) \in EntryType /\ e(l).fd = l /\ e(l).revents = {}
    BY FdIsNatural DEF EntryType, ListenFds
  <2> HIDE DEF e, EntryType
  <2>3. pollfds \in [1..NListen -> EntryType]
    BY <2>1, <2>2
  <2> QED
    BY <2>1, <2>2, <2>3 DEF ListenFds
<1>2. Watched(pollfds) = ListenFds
  BY <1>1 DEF Watched
<1>3. Place
  BY DEF Init, Place, Places
<1>4. Vector
  BY <1>1 DEF Vector, Distinct, Ready
<1>5. World
  <2>1. Away \in PeerType /\ NoScript \in ScriptType
    BY DEF Away, PeerType, NoScript, ScriptType
  <2> HIDE DEF Away, PeerType, NoScript, ScriptType
  <2> QED
    BY <2>1 DEF Init, World
<1>6. /\ fdt \in [Fd -> DescriptorType]
      /\ \A f \in Fd : fdt[f].kind = IF f \in ListenFds THEN "listen" ELSE "free"
  <2> DEFINE l == [kind |-> "listen", of |-> None]
  <2>1. /\ l \in DescriptorType /\ l.kind = "listen"
        /\ Closed \in DescriptorType /\ Closed.kind = "free"
    BY DEF DescriptorType, Kinds, Closed
  <2>2. fdt = [f \in Fd |-> IF f \in ListenFds THEN l ELSE Closed]
    BY DEF Init
  <2> HIDE DEF l, DescriptorType, Closed
  <2> QED
    BY <2>1, <2>2
<1>7. clients = <<>> /\ DOMAIN clients = {}
  BY DEF Init
<1>8. Objects
  BY <1>6, <1>7 DEF Objects
<1>9. Tables
  BY <1>2, <1>6, <1>7, FdIsNatural DEF Tables
<1>10. Pipes
  BY <1>7 DEF Pipes
<1>11. Memory
  BY DEF Init, Memory, Running
<1> QED
  BY <1>3, <1>4, <1>5, <1>8, <1>9, <1>10, <1>11 DEF IInv

LEMMA NextPreserves == IInv /\ [Next]_vars => IInv'
<1> SUFFICES ASSUME IInv, [Next]_vars PROVE IInv'
  OBVIOUS
<1>1. CASE Poll
  BY <1>1, PollKeeps
<1>2. CASE AcceptFails
  BY <1>2, PassOverKeeps DEF AcceptFails, AtListener
<1>3. CASE TurnAway
  BY <1>3, TurnAwayKeeps
<1>4. CASE AcceptConnection
  BY <1>4, AcceptConnectionKeeps
<1>5. CASE HangUp
  BY <1>5, HangUpKeeps
<1>6. CASE IgnoreOrphan
  BY <1>6, PassOverKeeps DEF IgnoreOrphan, AtSocket
<1>7. ASSUME NEW fd \in DOMAIN clients, HandleClient(fd) PROVE IInv'
  <2>1. CASE ReadClosed(fd) \/ WriteFails(fd) \/ WriteLastAndClose(fd)
    <3>1. pc = "pass" /\ RemoveInPass(fd)
      BY <2>1 DEF ReadClosed, WriteFails, WriteLastAndClose, Readable, Send, Writable, AtSocket
    <3> QED
      BY <3>1, DropClientKeeps
  <2>2. CASE ReadPart(fd)
    BY <2>2, ReadPartKeeps
  <2>3. CASE ProcessStatic(fd)
    BY <2>3, ProcessStaticKeeps
  <2>4. CASE LaunchFails(fd)
    BY <2>4, LaunchFailsKeeps
  <2>5. CASE Launch(fd)
    BY <2>5, LaunchKeeps
  <2>6. CASE WritePart(fd)
    BY <2>6, WritePartKeeps
  <2>7. CASE WriteLast(fd)
    BY <2>7, WriteLastKeeps
  <2> QED
    BY <1>7, <2>1, <2>2, <2>3, <2>4, <2>5, <2>6, <2>7 DEF HandleClient
<1>8. ASSUME NEW c \in DOMAIN clients, HandlePipe(c) PROVE IInv'
  <2>1. CASE HandleCGIRead(c)
    BY <2>1, HandleCGIReadKeeps
  <2>2. CASE CGIEndOfFile(c)
    BY <2>2, CGIEndOfFileKeeps
  <2>3. CASE BodyRefused(c)
    BY <2>3, CloseBodyPipeKeeps DEF BodyRefused, BodyPipeReady
  <2>4. CASE HandleCGIWrite(c)
    BY <2>4, HandleCGIWriteKeeps
  <2> QED
    BY <1>8, <2>1, <2>2, <2>3, <2>4 DEF HandlePipe
<1>9. CASE WaitpidReturns
  BY <1>9, WaitpidReturnsKeeps
<1>10. CASE CheckTimeouts
  BY <1>10, CheckTimeoutsKeeps
<1>11. ASSUME NEW fd \in Fd, GatewayTimeout(fd) \/ DropIdle(fd) PROVE IInv'
  BY <1>11, GatewayTimeoutKeeps, DropIdleKeeps
<1>12. CASE Stop
  BY <1>12, StopKeeps
<1>13. CASE Environment
  BY <1>13, PeerStepKeeps, ScriptStepKeeps DEF Environment
<1>14. CASE Tick
  BY <1>14, TickKeeps
<1>15. CASE UNCHANGED vars
  BY <1>15
  DEF vars, IInv, Place, Vector, World, Objects, Tables, Pipes, Memory, Running
<1> QED
  BY <1>1, <1>2, <1>3, <1>4, <1>5, <1>6, <1>7, <1>8, <1>9, <1>10, <1>11, <1>12, <1>13,
     <1>14, <1>15
  DEF Next, Loop, Terminated

LEMMA InvariantHolds == Spec => []IInv
<1> QED
  BY InitEstablishes, NextPreserves, PTL DEF Spec

\* Every variable keeps its type, whatever peers and scripts do and however
\* the handlers interleave with them.
THEOREM TypeCorrect == Spec => []TypeOK
<1>1. IInv => TypeOK
  <2> SUFFICES ASSUME IInv PROVE TypeOK
    OBVIOUS
  <2>1. cur \in Fd \cup {NoFd} /\ hung \subseteq Fd /\ stale \subseteq Fd
    BY DEF IInv, Memory, Running, Objects
  <2> QED
    BY <2>1 DEF IInv, Place, Vector, World, Objects, TypeOK
<1> QED
  BY <1>1, InvariantHolds, PTL

\* run(), its handlers and _checkTimeouts keep _pollfds, _clients and the open
\* descriptors of the process in agreement: no descriptor is watched twice, no
\* closed one is watched, and the clients are exactly the watched sockets.
THEOREM PollSetAgrees == Spec => []PollSetSound
<1>1. IInv => PollSetSound
  BY DEF IInv, Vector, Tables, PollSetSound
<1> QED
  BY <1>1, InvariantHolds, PTL

-----------------------------------------------------------------------------
(* The number of clients.                                                  *)

LEMMA SocketStepDomain ==
    ASSUME NEW fd, HandleClient(fd)
    PROVE  DOMAIN clients' \subseteq DOMAIN clients
<1>1. CASE ReadClosed(fd) \/ WriteFails(fd) \/ WriteLastAndClose(fd)
  <2>1. clients' = WithoutClient(fd)
    BY <1>1 DEF ReadClosed, WriteFails, WriteLastAndClose, RemoveInPass, RemoveClient
  <2> QED
    BY <2>1 DEF WithoutClient
<1>2. CASE ReadPart(fd)
  BY <1>2 DEF ReadPart
<1>3. CASE ProcessStatic(fd)
  BY <1>3 DEF ProcessStatic
<1>4. CASE LaunchFails(fd)
  BY <1>4 DEF LaunchFails
<1>5. CASE Launch(fd)
  BY <1>5 DEF Launch
<1>6. CASE WritePart(fd)
  BY <1>6 DEF WritePart
<1>7. CASE WriteLast(fd)
  BY <1>7 DEF WriteLast
<1> QED
  BY <1>1, <1>2, <1>3, <1>4, <1>5, <1>6, <1>7 DEF HandleClient

LEMMA PipeStepDomain ==
    ASSUME NEW c, HandlePipe(c)
    PROVE  DOMAIN clients' \subseteq DOMAIN clients
<1>1. CASE HandleCGIRead(c)
  BY <1>1 DEF HandleCGIRead
<1>2. CASE CGIEndOfFile(c)
  BY <1>2 DEF CGIEndOfFile
<1>3. CASE BodyRefused(c)
  BY <1>3 DEF BodyRefused, CloseBodyPipe
<1>4. CASE HandleCGIWrite(c)
  BY <1>4 DEF HandleCGIWrite, CloseBodyPipe
<1> QED
  BY <1>1, <1>2, <1>3, <1>4 DEF HandlePipe

\* Only _acceptConnection adds a client.
LEMMA OnlyAcceptAdds ==
    ASSUME [Next]_vars, ~AcceptConnection
    PROVE  DOMAIN clients' \subseteq DOMAIN clients
<1>1. CASE Poll \/ AcceptFails \/ TurnAway \/ IgnoreOrphan \/ CheckTimeouts
  BY <1>1 DEF Poll, AcceptFails, TurnAway, IgnoreOrphan, CheckTimeouts, PassOver
<1>2. ASSUME NEW fd, RemoveClient(fd) PROVE DOMAIN clients' \subseteq DOMAIN clients
  BY <1>2 DEF RemoveClient, WithoutClient
<1>3. CASE HangUp
  BY <1>2, <1>3 DEF HangUp, RemoveInPass
<1>4. CASE WaitpidReturns
  BY <1>4 DEF WaitpidReturns
<1>5. ASSUME NEW fd \in Fd, GatewayTimeout(fd) PROVE DOMAIN clients' \subseteq DOMAIN clients
  BY <1>5 DEF GatewayTimeout
<1>6. ASSUME NEW fd \in Fd, DropIdle(fd) PROVE DOMAIN clients' \subseteq DOMAIN clients
  BY <1>2, <1>6 DEF DropIdle
<1>7. CASE Stop
  BY <1>7 DEF Stop
<1>8. CASE Tick
  BY <1>8 DEF Tick
<1>9. CASE UNCHANGED clients
  BY <1>9
<1>10. CASE Environment \/ UNCHANGED vars
  BY <1>9, <1>10 DEF Environment, server, vars
<1> QED
  BY <1>1, <1>3, <1>4, <1>5, <1>6, <1>7, <1>8, <1>10, SocketStepDomain, PipeStepDomain
  DEF Next, Loop, Terminated

\* However many peers connect, and in whatever order they are accepted, leave
\* and time out, there are never more than MAX_CLIENTS clients.
THEOREM ClientsStayBounded == Spec => []ClientsBounded
<1>1. Init => ClientsBounded
  BY LimitsAreNatural, FS_EmptySet DEF Init, ClientsBounded
<1>2. IInv /\ ClientsBounded /\ [Next]_vars => ClientsBounded'
  <2> SUFFICES ASSUME IInv, ClientsBounded, [Next]_vars PROVE ClientsBounded'
    OBVIOUS
  <2>1. IsFiniteSet(DOMAIN clients) /\ Cardinality(DOMAIN clients) \in Nat
    <3>1. IsFiniteSet(Fd)
      BY LimitsAreNatural, FS_Interval DEF Fd
    <3> QED
      BY <3>1, FS_Subset, FS_CardinalityType DEF IInv, Objects
  <2>2. CASE AcceptConnection
    <3>1. PICK fd : clients' = WithClient(fd, NewClient)
      BY <2>2 DEF AcceptConnection
    <3>2. DOMAIN clients' = DOMAIN clients \cup {fd}
      BY <3>1 DEF WithClient
    <3>3. Cardinality(DOMAIN clients') <= Cardinality(DOMAIN clients) + 1
      <4> DEFINE S == DOMAIN clients
      <4>1. IsFiniteSet(S) /\ Cardinality(S) \in Nat
        BY <2>1
      <4> HIDE DEF S
      <4>2. Cardinality(S \cup {fd}) = IF fd \in S THEN Cardinality(S) ELSE Cardinality(S) + 1
        BY <4>1, FS_AddElement, Zenon
      <4>3. Cardinality(S \cup {fd}) <= Cardinality(S) + 1
        BY <4>1, <4>2
      <4> QED
        BY <3>2, <4>3 DEF S
    <3>4. ~(Cardinality(DOMAIN clients) >= MaxClients)
      BY <2>2 DEF AcceptConnection, TooManyClients
    <3>5. IsFiniteSet(DOMAIN clients') /\ Cardinality(DOMAIN clients') \in Nat
      BY <2>1, <3>2, FS_AddElement, FS_CardinalityType
    <3> QED
      BY <2>1, <3>3, <3>4, <3>5, LimitsAreNatural DEF ClientsBounded
  <2>3. CASE ~AcceptConnection
    <3>1. DOMAIN clients' \subseteq DOMAIN clients
      BY <2>3, OnlyAcceptAdds
    <3>2. /\ Cardinality(DOMAIN clients') <= Cardinality(DOMAIN clients)
          /\ Cardinality(DOMAIN clients') \in Nat
      BY <2>1, <3>1, FS_Subset, FS_CardinalityType
    <3> QED
      BY <2>1, <3>2, LimitsAreNatural DEF ClientsBounded
  <2> QED
    BY <2>2, <2>3
<1> QED
  BY <1>1, <1>2, InvariantHolds, PTL DEF Spec

=============================================================================
