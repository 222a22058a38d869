--------------------------- MODULE ResponseProofs ---------------------------
(***************************************************************************)
(* Theorems about module Response, for every configuration, every disk and *)
(* every sequence of requests.                                             *)
(*                                                                         *)
(* Two loops of the code are folds over a sequence: _matchLocation and the *)
(* loop over the parts of a form.  Fold turns such a fold into a function  *)
(* of the number of iterations, with the equations of the loop.            *)
(***************************************************************************)
EXTENDS Response, SequenceTheorems, WellFoundedInduction, TLAPS

-----------------------------------------------------------------------------
(* Loops.                                                                  *)

\* A set of naturals has a least element.
LEMMA First ==
    ASSUME NEW K, K \subseteq Nat, K # {}
    PROVE  \E k \in K : \A j \in K : k <= j
<1> DEFINE R == {ss \in Nat \X Nat : ss[1] < ss[2]}
<1>1. IsWellFoundedOn(R, Nat)
  BY NatLessThanWellFounded, Zenon DEF OpToRel
<1>2. PICK k \in K : \A j \in K : ~(<<j, k>> \in R)
  <2> HIDE DEF R
  <2> QED
    BY <1>1, WFMin
<1>3. ASSUME NEW j \in K PROVE k <= j
  <2>1. j \in Nat /\ k \in Nat /\ ~(<<j, k>> \in R)
    BY <1>2
  <2> QED
    BY <2>1
<1> QED
  BY <1>3

\* Induction over the iterations of a loop: S is where a claim holds.
LEMMA Induction ==
    ASSUME NEW n \in Nat, NEW S, 0 \in S, \A k \in 1..n : k - 1 \in S => k \in S
    PROVE  \A k \in 0..n : k \in S
<1> DEFINE K == (0..n) \ S
<1>1. SUFFICES ASSUME K # {} PROVE FALSE
  OBVIOUS
<1>2. K \subseteq Nat
  OBVIOUS
<1>3. PICK k \in K : \A j \in K : k <= j
  <2> HIDE DEF K
  <2> QED
    BY <1>1, <1>2, First
<1>4. k \in 1..n /\ k - 1 \in 0..n /\ ~(k <= k - 1)
  OBVIOUS
<1>5. k - 1 \notin K
  <2> HIDE DEF K
  <2> QED
    BY <1>3, <1>4
<1> QED
  BY <1>4, <1>5

\* A set of indices has a largest element.
LEMMA LargestIsOne ==
    ASSUME NEW n \in Nat, NEW s, s \subseteq 1..n, s # {}
    PROVE  Max(s) \in s
<1> DEFINE K == {m \in 0..n : \A y \in s : m >= y}
<1>1. n \in K /\ K \subseteq Nat
  OBVIOUS
<1>2. PICK k \in K : \A j \in K : k <= j
  <2> HIDE DEF K
  <2> QED
    BY <1>1, First
<1>3. k \in s
  <2>1. SUFFICES ASSUME k \notin s PROVE FALSE
    OBVIOUS
  <2>2. PICK y \in s : TRUE
    OBVIOUS
  <2>3. k >= 1
    BY <2>2
  <2>4. k - 1 \in K
    BY <2>1, <2>3
  <2> QED
    BY <1>2, <2>3, <2>4
<1>4. \E x \in s : \A y \in s : x >= y
  BY <1>3
<1> QED
  BY <1>4, Zenon DEF Max

\* The folds take the elements of a set of indices from the largest down.
LEMMA LargestOfPrefix ==
    ASSUME NEW m \in Nat, NEW s, s \subseteq 1..m, m \in s
    PROVE  Max(s) = m
<1>1. m \in s /\ \A y \in s : m >= y
  OBVIOUS
<1>2. \E x \in s : \A y \in s : x >= y
  BY <1>1
<1>3. Max(s) \in s /\ \A y \in s : Max(s) >= y
  BY <1>2, Zenon DEF Max
<1> QED
  <2>1. ASSUME NEW x \in s, \A y \in s : x >= y PROVE x = m
    <3>1. x >= m /\ x \in 1..m
      BY <2>1
    <3> QED
      BY <3>1
  <2> QED
    BY <1>3, <2>1, Zenon

\* f is what F makes of b, taking the indices in s one after the other.
IsFold(f, n, b, F) ==
    f = [s \in SUBSET (1..n) |-> IF s = {} THEN b ELSE F[<<f[s \ {Max(s)}], Max(s)>>]]

\* A function that is defined by recursion over sets of indices exists.
LEMMA FoldExists ==
    ASSUME NEW n \in Nat, NEW Y, NEW b \in Y, NEW F \in [Y \X (1..n) -> Y]
    PROVE  \E f \in [SUBSET (1..n) -> Y] : IsFold(f, n, b, F)
<1> DEFINE Solves(f, m) ==
             /\ f \in [SUBSET (1..m) -> Y]
             /\ \A s \in SUBSET (1..m) :
                   f[s] = IF s = {} THEN b ELSE F[<<f[s \ {Max(s)}], Max(s)>>]
           K == {m \in Nat : \E f : Solves(f, m)}
<1>1. \E f : Solves(f, 0)
  <2>1. SUBSET (1..0) = {{}}
    OBVIOUS
  <2>2. Solves([s \in SUBSET (1..0) |-> b], 0)
    BY <2>1
  <2> QED
    BY <2>2
<1>2. ASSUME NEW m \in 0..(n - 1), NEW f, Solves(f, m) PROVE \E g : Solves(g, m + 1)
  <2> DEFINE g == [s \in SUBSET (1..(m + 1)) |->
                      IF m + 1 \in s THEN F[<<f[s \ {m + 1}], m + 1>>] ELSE f[s]]
  <2>1. \A s \in SUBSET (1..(m + 1)) : s \ {m + 1} \in SUBSET (1..m)
    OBVIOUS
  <2>2. \A s \in SUBSET (1..(m + 1)) : m + 1 \notin s => s \in SUBSET (1..m)
    OBVIOUS
  <2>3. g \in [SUBSET (1..(m + 1)) -> Y]
    <3> SUFFICES ASSUME NEW s \in SUBSET (1..(m + 1)) PROVE g[s] \in Y
      OBVIOUS
    <3>1. CASE m + 1 \in s
      <4>1. f[s \ {m + 1}] \in Y /\ m + 1 \in 1..n
        BY <1>2, <2>1
      <4> QED
        BY <3>1, <4>1
    <3>2. CASE m + 1 \notin s
      BY <1>2, <2>2, <3>2
    <3> QED
      BY <3>1, <3>2
  <2>4. ASSUME NEW s \in SUBSET (1..(m + 1))
        PROVE  g[s] = IF s = {} THEN b ELSE F[<<g[s \ {Max(s)}], Max(s)>>]
    <3>1. CASE m + 1 \in s
      <4>1. Max(s) = m + 1
        <5>1. m + 1 \in Nat
          OBVIOUS
        <5> QED
          BY <3>1, <5>1, LargestOfPrefix
      <4>2. s \ {m + 1} \in SUBSET (1..(m + 1)) /\ m + 1 \notin s \ {m + 1}
        OBVIOUS
      <4>3. g[s \ {m + 1}] = f[s \ {m + 1}]
        BY <4>2
      <4> QED
        BY <3>1, <4>1, <4>3
    <3>2. CASE m + 1 \notin s
      <4>1. s \in SUBSET (1..m)
        BY <2>2, <3>2
      <4>2. s \ {Max(s)} \in SUBSET (1..(m + 1)) /\ m + 1 \notin s \ {Max(s)}
        BY <3>2
      <4>3. g[s] = f[s] /\ g[s \ {Max(s)}] = f[s \ {Max(s)}]
        BY <3>2, <4>2
      <4> QED
        BY <1>2, <4>1, <4>3
    <3> QED
      BY <3>1, <3>2
  <2>5. Solves(g, m + 1)
    BY <2>3, <2>4
  <2> QED
    BY <2>5
<1>3. n \in K
  <2>1. 0 \in K
    BY <1>1
  <2>2. \A k \in 1..n : k - 1 \in K => k \in K
    <3> HIDE DEF Solves
    <3> SUFFICES ASSUME NEW k \in 1..n, k - 1 \in K PROVE k \in K
      OBVIOUS
    <3>1. PICK f : Solves(f, k - 1)
      OBVIOUS
    <3>2. k - 1 \in 0..(n - 1) /\ (k - 1) + 1 = k /\ k \in Nat
      OBVIOUS
    <3> QED
      BY <1>2, <3>1, <3>2
  <2>3. \A k \in 0..n : k \in K
    <3> HIDE DEF K
    <3> QED
      BY <2>1, <2>2, Induction
  <2>4. n \in 0..n
    OBVIOUS
  <2> QED
    BY <2>3, <2>4
<1>4. PICK f : Solves(f, n)
  BY <1>3
<1> QED
  BY <1>4 DEF IsFold

-----------------------------------------------------------------------------
(* _matchLocation.                                                         *)

\* The best location after k of them.
LEMMA MatchLocationLoop ==
    ASSUME NEW locs \in Seq(LocationConfig), NEW path
    PROVE  \E best \in [0..Len(locs) -> 0..Len(locs)] :
              /\ best[0] = 0
              /\ \A k \in 1..Len(locs) :
                    best[k] = IF IsPrefix(locs[k].path, path) /\ Longer(locs, k, best[k - 1])
                              THEN k ELSE best[k - 1]
              /\ MatchLocation(path, locs) = best[Len(locs)]
<1> DEFINE n == Len(locs)
           id == [k \in DOMAIN locs |-> k]
           Step(b, k) == IF IsPrefix(locs[id[k]].path, path) /\ Longer(locs, id[k], b)
                         THEN id[k] ELSE b
           F == [c \in (0..n) \X (1..n) |-> Step(c[1], c[2])]
           Iter == CHOOSE f : f = [s \in SUBSET (DOMAIN id) |->
                                      IF s = {} THEN 0 ELSE Step(f[s \ {Max(s)}], Max(s))]
           best == [k \in 0..n |-> Iter[1..k]]
<1>1. n \in Nat /\ DOMAIN locs = 1..n /\ DOMAIN id = 1..n /\ \A k \in 1..n : id[k] = k
  OBVIOUS
<1>2. \A b \in 0..n, k \in 1..n : Step(b, k) \in 0..n /\ F[<<b, k>>] = Step(b, k)
  <2> HIDE DEF n, id
  <2> QED
    BY <1>1
<1>3. \E f : f = [s \in SUBSET (1..n) |-> IF s = {} THEN 0 ELSE Step(f[s \ {Max(s)}], Max(s))]
  <2>1. F \in [(0..n) \X (1..n) -> 0..n]
    <3> HIDE DEF n
    <3> QED
      BY <1>1
  <2>2. 0 \in 0..n
    BY <1>1
  <2>3. PICK f \in [SUBSET (1..n) -> 0..n] :
           f = [s \in SUBSET (1..n) |-> IF s = {} THEN 0 ELSE F[<<f[s \ {Max(s)}], Max(s)>>]]
    <3> DEFINE Y == 0..n
    <3>1. n \in Nat /\ 0 \in Y /\ F \in [Y \X (1..n) -> Y]
      BY <1>1, <2>1, <2>2
    <3> HIDE DEF F, n, Y, id
    <3>2. \E f \in [SUBSET (1..n) -> Y] : IsFold(f, n, 0, F)
      BY <3>1, FoldExists, Zenon
    <3> QED
      BY <3>2 DEF IsFold, Y
  <2> HIDE DEF F, n, Step, id
  <2>4. ASSUME NEW s \in SUBSET (1..n), s # {}
        PROVE  F[<<f[s \ {Max(s)}], Max(s)>>] = Step(f[s \ {Max(s)}], Max(s))
    <3>1. Max(s) \in 1..n
      BY <1>1, <2>4, LargestIsOne
    <3>2. f[s \ {Max(s)}] \in 0..n
      BY <2>3
    <3> QED
      BY <1>2, <3>1, <3>2
  <2>5. f = [s \in SUBSET (1..n) |-> IF s = {} THEN 0 ELSE Step(f[s \ {Max(s)}], Max(s))]
    BY <2>3, <2>4
  <2> QED
    BY <2>5
<1>4. Iter = [s \in SUBSET (1..n) |-> IF s = {} THEN 0 ELSE Step(Iter[s \ {Max(s)}], Max(s))]
  <2> HIDE DEF n, Step, id
  <2> QED
    BY <1>1, <1>3, Zenon
<1>5. MatchLocation(path, locs) = Iter[DOMAIN id]
  BY Zenon DEF MatchLocation, FoldLeft, MapThenFoldSet
<1> HIDE DEF n, Step, Iter, F, id
<1>6. best[0] = 0
  <2>1. 1..0 = {} /\ {} \in SUBSET (1..n) /\ 0 \in 0..n
    BY <1>1
  <2> QED
    BY <1>4, <2>1
<1>7. ASSUME NEW k \in 1..n PROVE best[k] = Step(best[k - 1], k)
  <2>1. /\ k \in Nat /\ k \in 0..n /\ k - 1 \in 0..n
        /\ 1..k \in SUBSET (1..n) /\ 1..k # {} /\ k \in 1..k /\ (1..k) \ {k} = 1..(k - 1)
    <3>1. n \in Nat /\ k \in Nat /\ k >= 1 /\ k <= n
      BY <1>1
    <3>2. \A j : j \in (1..k) \ {k} <=> j \in 1..(k - 1)
      BY <3>1
    <3>3. (1..k) \ {k} = 1..(k - 1)
      BY <3>2, Zenon
    <3>4. 1..k \in SUBSET (1..n) /\ k \in 1..k
      BY <3>1
    <3>5. k \in 0..n /\ k - 1 \in 0..n
      BY <3>1
    <3> QED
      BY <3>1, <3>3, <3>4, <3>5, Zenon
  <2>2. Max(1..k) = k
    BY <2>1, LargestOfPrefix
  <2>3. Iter[1..k] = Step(Iter[1..(k - 1)], k)
    BY <1>4, <2>1, <2>2
  <2> QED
    BY <2>1, <2>3
<1>8. best \in [0..n -> 0..n]
  <2> DEFINE S == {k \in 0..n : best[k] \in 0..n}
  <2>1. 0 \in S
    BY <1>1, <1>6
  <2>2. ASSUME NEW k \in 1..n, k - 1 \in S PROVE k \in S
    <3>1. best[k - 1] \in 0..n /\ k \in 0..n
      BY <1>1, <2>2
    <3> HIDE DEF best
    <3> QED
      BY <1>2, <1>7, <3>1
  <2>3. \A k \in 0..n : k \in S
    <3> HIDE DEF S
    <3> QED
      BY <1>1, <2>1, <2>2, Induction
  <2> QED
    BY <2>3
<1>9. MatchLocation(path, locs) = best[n]
  BY <1>1, <1>5
<1> HIDE DEF best
<1>10. ASSUME NEW k \in 1..n
       PROVE  best[k] = IF IsPrefix(locs[k].path, path) /\ Longer(locs, k, best[k - 1])
                        THEN k ELSE best[k - 1]
  BY <1>1, <1>7 DEF Step
<1> QED
  BY <1>6, <1>8, <1>9, <1>10 DEF n

\* _matchLocation returns a location that matches, if one does; none that matches
\* is longer, and none before it is as long: in any order of the locations, and
\* of any number of them.
LEMMA MatchIsLongest ==
    ASSUME NEW locs \in Seq(LocationConfig), NEW path
    PROVE  LET best == MatchLocation(path, locs)
           IN  \/ /\ best = 0
                  /\ \A j \in DOMAIN locs : ~IsPrefix(locs[j].path, path)
               \/ /\ best \in DOMAIN locs
                  /\ IsPrefix(locs[best].path, path)
                  /\ \A j \in DOMAIN locs : IsPrefix(locs[j].path, path) =>
                        /\ Len(locs[j].path) <= Len(locs[best].path)
                        /\ j < best => Len(locs[j].path) < Len(locs[best].path)
<1> DEFINE n == Len(locs)
           size(j) == Len(locs[j].path)
           fits(j) == IsPrefix(locs[j].path, path)
<1>1. n \in Nat /\ DOMAIN locs = 1..n
  OBVIOUS
<1>2. \A j \in 1..n : size(j) \in Nat /\ size(j) > 0
  <2> SUFFICES ASSUME NEW j \in 1..n PROVE size(j) \in Nat /\ size(j) > 0
    OBVIOUS
  <2>1. locs[j].path \in Seq(STRING) /\ locs[j].path # <<>>
    <3>1. locs[j] \in LocationConfig
      BY <1>1
    <3> QED
      BY <3>1 DEF LocationConfig, Path
  <2> QED
    BY <2>1, EmptySeq, LenProperties
<1>3. PICK best \in [0..n -> 0..n] :
         /\ best[0] = 0
         /\ \A k \in 1..n : best[k] = IF fits(k) /\ Longer(locs, k, best[k - 1])
                                      THEN k ELSE best[k - 1]
         /\ MatchLocation(path, locs) = best[n]
  BY MatchLocationLoop
<1>4. \A k, b \in 0..n : k # 0 => (Longer(locs, k, b) <=> b = 0 \/ size(k) > size(b))
  BY <1>2 DEF Longer
<1> DEFINE Best(k, b) ==
             \/ b = 0 /\ \A j \in 1..k : ~fits(j)
             \/ /\ b \in 1..k /\ fits(b)
                /\ \A j \in 1..k :
                      fits(j) => size(j) <= size(b) /\ (j < b => size(j) < size(b))
           S == {k \in 0..n : Best(k, best[k])}
<1> HIDE DEF n, size, fits
<1>5. 0 \in S
  BY <1>1, <1>3
<1>6. ASSUME NEW k \in 1..n, k - 1 \in S PROVE k \in S
  <2>1. /\ k - 1 \in 0..n /\ k \in 0..n /\ k # 0 /\ best[k - 1] \in 0..n
        /\ \A j \in 1..k : j = k \/ j \in 1..(k - 1)
        /\ \A j \in 1..k : j \in 1..n
    BY <1>1, <1>3
  <2>2. Best(k - 1, best[k - 1])
    BY <1>6
  <2>3. Best(k, best[k])
    <3>1. CASE fits(k) /\ Longer(locs, k, best[k - 1])
      <4>1. best[k] = k
        BY <1>3, <3>1
      <4>2. ASSUME NEW j \in 1..k, fits(j)
            PROVE  size(j) <= size(k) /\ (j < k => size(j) < size(k))
        BY <1>2, <1>4, <2>1, <2>2, <3>1, <4>2
      <4> QED
        BY <3>1, <4>1, <4>2
    <3>2. CASE ~(fits(k) /\ Longer(locs, k, best[k - 1]))
      <4>1. best[k] = best[k - 1]
        BY <1>3, <3>2
      <4>2. CASE best[k - 1] = 0
        <5>1. ~fits(k)
          BY <1>4, <2>1, <3>2, <4>2
        <5> QED
          BY <2>1, <2>2, <4>1, <4>2, <5>1
      <4>3. CASE best[k - 1] # 0
        <5>1. fits(k) => size(k) <= size(best[k - 1])
          BY <1>2, <1>4, <2>1, <2>2, <3>2, <4>3
        <5> QED
          BY <2>1, <2>2, <4>1, <4>3, <5>1
      <4> QED
        BY <4>2, <4>3
    <3> QED
      BY <3>1, <3>2
  <2> HIDE DEF Best
  <2> QED
    BY <2>1, <2>3
<1>7. n \in S
  <2>1. \A k \in 0..n : k \in S
    <3> HIDE DEF S
    <3> QED
      BY <1>1, <1>5, <1>6, Induction
  <2> QED
    BY <1>1, <2>1
<1>8. Best(n, MatchLocation(path, locs))
  BY <1>3, <1>7
<1> QED
  BY <1>1, <1>8 DEF fits, size, n

-----------------------------------------------------------------------------
(* The configuration does not change, and a request is one of Requests.    *)

Handed == site \in Sites /\ req \in Requests \cup {NoRequest}

\* What a step leaves alone, and where its request comes from.
LEMMA HandedAlways == Spec => []Handed
<1>1. Init => Handed
  BY DEF Init, Handed
<1>2. Handed /\ [Next]_vars => Handed'
  <2>1. ASSUME Handed, NEW r \in Requests, Serve(r) PROVE Handed'
    BY <2>1 DEF Serve, Handed
  <2>2. ASSUME Handed, NEW out \in Outputs, ScriptAnswers(out) PROVE Handed'
    BY <2>2 DEF ScriptAnswers, Handed
  <2>3. ASSUME Handed, Tick PROVE Handed'
    BY <2>3 DEF Tick, Handed
  <2>4. ASSUME Handed, UNCHANGED vars PROVE Handed'
    BY <2>4 DEF vars, Handed
  <2> QED
    BY <2>1, <2>2, <2>3, <2>4 DEF Next
<1> QED
  BY <1>1, <1>2, PTL DEF Spec

LEMMA SiteIsList ==
    ASSUME InputsTyped, Handed
    PROVE  site \in Seq(LocationConfig)
BY DEF InputsTyped, Handed

\* Whatever request comes, _matchLocation has chosen for it the longest of the
\* locations that match (Response.cpp:186-200).
THEOREM LongestIsChosen ==
    ASSUME InputsTyped
    PROVE  Spec => []LongestPrefix
<1>1. Handed => LongestPrefix
  <2> SUFFICES ASSUME Handed PROVE LongestPrefix
    OBVIOUS
  <2> DEFINE best == MatchLocation(req.path, site)
  <2>1. \/ /\ best = 0
           /\ \A j \in DOMAIN site : ~IsPrefix(site[j].path, req.path)
        \/ /\ best \in DOMAIN site
           /\ IsPrefix(site[best].path, req.path)
           /\ \A j \in DOMAIN site : IsPrefix(site[j].path, req.path) =>
                 Len(site[j].path) <= Len(site[best].path)
    BY SiteIsList, MatchIsLongest
  <2> HIDE DEF best
  <2> QED
    BY <2>1 DEF LongestPrefix, best
<1> QED
  BY <1>1, HandedAlways, PTL

\* The location that is chosen, if one is.
LEMMA MatchIsLocation ==
    ASSUME InputsTyped, Handed, NEW path, MatchLocation(path, site) # 0
    PROVE  MatchLocation(path, site) \in DOMAIN site
<1> DEFINE best == MatchLocation(path, site)
<1>1. \/ /\ best = 0
         /\ \A j \in DOMAIN site : ~IsPrefix(site[j].path, path)
      \/ /\ best \in DOMAIN site
         /\ IsPrefix(site[best].path, path)
         /\ \A j \in DOMAIN site : IsPrefix(site[j].path, path) =>
               Len(site[j].path) <= Len(site[best].path)
  BY SiteIsList, MatchIsLongest
<1> QED
  BY <1>1

-----------------------------------------------------------------------------
(* Replies: their codes, and which of them name methods.                   *)

Codes == {0, 200, 201, 301, 400, 403, 404, 500, 501}

ReplyOf(code, entity, bodySent, allow, location, script) ==
    [code |-> code, entity |-> entity, bodySent |-> bodySent,
     allow |-> allow, location |-> location, script |-> script]

IsReply(a) == a = ReplyOf(a.code, a.entity, a.bodySent, a.allow, a.location, a.script)

LEMMA ReplyFields ==
    ASSUME NEW c, NEW e, NEW b, NEW m, NEW l, NEW s
    PROVE  /\ IsReply(ReplyOf(c, e, b, m, l, s))
           /\ ReplyOf(c, e, b, m, l, s).code = c
           /\ ReplyOf(c, e, b, m, l, s).entity = e
           /\ ReplyOf(c, e, b, m, l, s).bodySent = b
           /\ ReplyOf(c, e, b, m, l, s).allow = m
           /\ ReplyOf(c, e, b, m, l, s).location = l
           /\ ReplyOf(c, e, b, m, l, s).script = s
BY DEF ReplyOf, IsReply

WithoutBody(a) == [a EXCEPT !.bodySent = FALSE]

LEMMA BodyTakenAway ==
    ASSUME NEW a, IsReply(a)
    PROVE  WithoutBody(a) = ReplyOf(a.code, a.entity, FALSE, a.allow, a.location, a.script)
<1> DEFINE Changed(x, y) == [x EXCEPT !.bodySent = y]
<1>1. \A c, e, b, m, l, s, x :
         Changed(ReplyOf(c, e, b, m, l, s), x) = ReplyOf(c, e, x, m, l, s)
  BY DEF ReplyOf
<1>2. PICK x : x = FALSE
  OBVIOUS
<1>3. WithoutBody(a) = Changed(a, x)
  BY <1>2, Zenon DEF WithoutBody
<1> HIDE DEF Changed
<1>4. Changed(a, x) = ReplyOf(a.code, a.entity, x, a.allow, a.location, a.script)
  BY <1>1 DEF IsReply
<1> QED
  BY <1>2, <1>3, <1>4, Zenon

\* The replies there are, field by field.
LEMMA AnswerIs ==
    ASSUME NEW c, NEW entity
    PROVE  \E b : /\ entity = Empty => b = FALSE
                  /\ Answer(c, entity) = ReplyOf(c, entity, b, {}, <<>>, NoScript)
<1> DEFINE b == entity # Empty
<1>1. Answer(c, entity) = ReplyOf(c, entity, b, {}, <<>>, NoScript)
  BY Zenon DEF Answer, ReplyOf
<1>2. entity = Empty => b = FALSE
  BY Zenon
<1> QED
  BY <1>1, <1>2, Zenon

LEMMA RedirectIs ==
    ASSUME NEW c, NEW q, c # 0
    PROVE  \E e, b : b = FALSE /\ Redirect(c, q) = ReplyOf(c, e, b, {}, q, NoScript)
<1> DEFINE Changed(x, y) == [x EXCEPT !.location = y]
<1>1. PICK b : b = FALSE /\ Answer(c, Empty) = ReplyOf(c, Empty, b, {}, <<>>, NoScript)
  BY AnswerIs
<1>2. Redirect(c, q) = Changed(Answer(c, Empty), q)
  BY Zenon DEF Redirect
<1>3. \A e, m, l, s : Changed(ReplyOf(c, e, b, m, l, s), q) = ReplyOf(c, e, b, m, q, s)
  BY DEF ReplyOf
<1> HIDE DEF Changed
<1>4. Redirect(c, q) = ReplyOf(c, Empty, b, {}, q, NoScript)
  BY <1>1, <1>2, <1>3
<1> QED
  BY <1>1, <1>4

LEMMA RunScriptIs ==
    ASSUME NEW q
    PROVE  \E z, e, b : /\ z = 0 /\ b = FALSE
                        /\ RunScript(q) = ReplyOf(z, e, b, {}, <<>>, q)
<1> DEFINE Changed(x, y) == [x EXCEPT !.script = y]
           z == 0
<1>1. RunScript(q) = Changed(Answer(z, Empty), q)
  BY Zenon DEF RunScript
<1> HIDE DEF z
<1>2. PICK b : b = FALSE /\ Answer(z, Empty) = ReplyOf(z, Empty, b, {}, <<>>, NoScript)
  BY AnswerIs
<1>3. \A e, m, l, s : Changed(ReplyOf(z, e, b, m, l, s), q) = ReplyOf(z, e, b, m, l, q)
  BY DEF ReplyOf
<1> HIDE DEF Changed
<1>4. RunScript(q) = ReplyOf(z, Empty, b, {}, <<>>, q)
  BY <1>1, <1>2, <1>3
<1> QED
  BY <1>2, <1>4 DEF z

\* What a handler answers: it refuses no method and names none, and no body
\* is sent while a script runs.
Handled(a) ==
    /\ IsReply(a) /\ a.code \in Codes /\ a.allow = {}
    /\ a.script = NoScript \/ a.bodySent = FALSE

LEMMA ReplyHandled ==
    ASSUME NEW c \in Codes, NEW e, NEW b, NEW l, NEW s, s = NoScript \/ b = FALSE
    PROVE  Handled(ReplyOf(c, e, b, {}, l, s))
BY ReplyFields DEF Handled

LEMMA AnswersHandled ==
    ASSUME NEW code \in Codes, NEW entity
    PROVE  Handled(Answer(code, entity))
<1>1. PICK b : Answer(code, entity) = ReplyOf(code, entity, b, {}, <<>>, NoScript)
  BY AnswerIs
<1> QED
  BY <1>1, ReplyHandled, Zenon

LEMMA OthersHandled ==
    ASSUME NEW q
    PROVE  Handled(RunScript(q)) /\ Handled(Redirect(301, q))
<1>1. Handled(RunScript(q))
  <2>1. PICK z, e, b : z = 0 /\ b = FALSE /\ RunScript(q) = ReplyOf(z, e, b, {}, <<>>, q)
    BY RunScriptIs
  <2>2. z \in Codes
    BY <2>1 DEF Codes
  <2> QED
    BY <2>1, <2>2, ReplyHandled, Zenon
<1>2. Handled(Redirect(301, q))
  <2> DEFINE z == 301
  <2>1. z \in Codes /\ z # 0
    BY DEF Codes
  <2> HIDE DEF z
  <2>2. PICK e, b : Redirect(z, q) = ReplyOf(z, e, b, {}, q, NoScript)
    BY <2>1, RedirectIs
  <2>3. Handled(Redirect(z, q))
    BY <2>1, <2>2, ReplyHandled, Zenon
  <2> QED
    BY <2>3 DEF z
<1> QED
  BY <1>1, <1>2

LEMMA GetHandled ==
    ASSUME NEW r, NEW d, NEW loc
    PROVE  Handled(HandleGET(r, d, loc))
<1> DEFINE p == FullPath(r.path, loc)
<1>1. ASSUME NEW code \in Codes PROVE Handled(ErrorReply(code))
  BY AnswersHandled DEF ErrorReply
<1>2. ASSUME NEW q PROVE Handled(RunScript(q))
  BY OthersHandled
<1>3. ASSUME NEW q PROVE Handled(Redirect(301, q))
  BY OthersHandled
<1>4. ASSUME NEW q PROVE Handled(Listing(q))
  BY AnswersHandled DEF Listing, Codes
<1>5. ASSUME NEW q PROVE Handled(ServeFile(d, q, loc))
  BY <1>2, AnswersHandled DEF ServeFile, Codes
<1>6. Handled(ServeDirectory(r, d, loc))
  <2>1. 403 \in Codes
    BY DEF Codes
  <2> QED
    BY <1>1, <1>4, <1>5, <2>1 DEF ServeDirectory
<1>7. 404 \in Codes
  BY DEF Codes
<1> QED
  BY <1>1, <1>3, <1>5, <1>6, <1>7 DEF HandleGET, FileExists, NeedsSlash

LEMMA PostHandled ==
    ASSUME NEW r, NEW d, NEW loc, NEW now
    PROVE  Handled(HandlePOST(r, d, loc, now).reply)
<1>1. \A a, e : Outcome(a, e).reply = a
  BY DEF Outcome
<1>2. /\ Handled(ErrorReply(400)) /\ Handled(ErrorReply(500))
      /\ Handled(Page) /\ Handled(Created)
  BY AnswersHandled DEF ErrorReply, Page, Created, Codes
<1>3. ASSUME NEW q PROVE Handled(RunScript(q))
  BY OthersHandled
<1>4. Handled(UploadForm(r, d, loc).reply)
  <2> DEFINE s == Store(Slashed(loc.uploadDir), d, r.parts)
  <2>1. UploadForm(r, d, loc) = IF r.type = "form without boundary"
                                THEN Outcome(ErrorReply(400), d)
                                ELSE Outcome(IF s.failed THEN ErrorReply(500) ELSE Created, s.disk)
    BY Zenon DEF UploadForm
  <2> HIDE DEF s
  <2>2. \/ UploadForm(r, d, loc) = Outcome(ErrorReply(400), d)
        \/ UploadForm(r, d, loc) = Outcome(ErrorReply(500), s.disk)
        \/ UploadForm(r, d, loc) = Outcome(Created, s.disk)
    BY <2>1, Zenon
  <2> QED
    BY <1>1, <1>2, <2>2
<1>5. Handled(UploadRaw(r, d, loc, now).reply)
  BY <1>1, <1>2 DEF UploadRaw
<1> QED
  BY <1>1, <1>2, <1>3, <1>4, <1>5 DEF HandlePOST

LEMMA DispatchHandled ==
    ASSUME NEW r, NEW d, NEW loc, NEW now
    PROVE  Handled(Dispatch(r, d, loc, now).reply)
<1>1. \A a, e : Outcome(a, e).reply = a
  BY DEF Outcome
<1>2. /\ Handled(ErrorReply(403)) /\ Handled(ErrorReply(404))
      /\ Handled(ErrorReply(500)) /\ Handled(ErrorReply(501)) /\ Handled(Page)
  BY AnswersHandled DEF ErrorReply, Page, Codes
<1>3. Handled(HandleDELETE(r, d, loc).reply)
  BY <1>1, <1>2 DEF HandleDELETE
<1> QED
  BY <1>1, <1>2, <1>3, GetHandled, PostHandled DEF Dispatch

\* An outcome is a reply and a disk, and the reply is what a handler answers.
LEMMA DispatchIsOutcome ==
    ASSUME NEW r, NEW d, NEW loc, NEW now
    PROVE  Dispatch(r, d, loc, now) =
              Outcome(Dispatch(r, d, loc, now).reply, Dispatch(r, d, loc, now).disk)
<1>1. \A a, e : Outcome(a, e) = Outcome(Outcome(a, e).reply, Outcome(a, e).disk)
  BY DEF Outcome
<1>2. \E a, e : Dispatch(r, d, loc, now) = Outcome(a, e)
  <2>1. \E a, e : UploadForm(r, d, loc) = Outcome(a, e)
    BY DEF UploadForm
  <2>2. \E a, e : UploadRaw(r, d, loc, now) = Outcome(a, e)
    BY DEF UploadRaw
  <2>3. \E a, e : HandlePOST(r, d, loc, now) = Outcome(a, e)
    BY <2>1, <2>2 DEF HandlePOST
  <2>4. \E a, e : HandleDELETE(r, d, loc) = Outcome(a, e)
    BY DEF HandleDELETE
  <2> QED
    BY <2>3, <2>4 DEF Dispatch
<1> QED
  BY <1>1, <1>2

\* The reply to a HEAD request is the one of its handler without its body,
\* unless it is to be a script's.
LEMMA StrippedReply ==
    ASSUME NEW r, NEW a, IsReply(a), NEW e
    PROVE  /\ Stripped(r, Outcome(a, e)).disk = e
           /\ IF r.method = "HEAD" /\ a.script = NoScript
              THEN Stripped(r, Outcome(a, e)).reply = WithoutBody(a)
              ELSE Stripped(r, Outcome(a, e)).reply = a
<1> DEFINE o == Outcome(a, e)
           b == WithoutBody(a)
<1>1. o.reply = a /\ o.disk = e /\ Outcome(b, e).reply = b /\ Outcome(b, e).disk = e
  BY DEF Outcome
<1>2. [o EXCEPT !.reply.bodySent = FALSE] = [o EXCEPT !.reply = b]
  BY <1>1, Zenon DEF WithoutBody
<1>3. [o EXCEPT !.reply = b] = Outcome(b, e)
  <2> HIDE DEF b
  <2>1. PICK A, E : a \in A /\ e \in E /\ b \in A
    <3>1. a \in {a, b} /\ b \in {a, b} /\ e \in {e}
      OBVIOUS
    <3> QED
      BY <3>1, Zenon
  <2>2. o \in [reply : A, disk : E]
    BY <2>1 DEF Outcome
  <2>3. ASSUME NEW x \in [reply : A, disk : E]
        PROVE  [x EXCEPT !.reply = b] = Outcome(b, x.disk)
    BY <2>1 DEF Outcome
  <2> QED
    BY <1>1, <2>2, <2>3
<1> QED
  BY <1>1, <1>2, <1>3, Zenon DEF Stripped, WithoutBody

\* What _handle... answers is neither a refusal of the method nor names methods.
LEMMA RouteHandled ==
    ASSUME NEW r, NEW d, NEW loc, NEW now, loc.redirect = <<>>, r.method \in Methods,
           IsMethodAllowed(r.method, loc)
    PROVE  /\ Route(r, d, loc, now).disk = Dispatch(r, d, loc, now).disk
           /\ Handled(Route(r, d, loc, now).reply)
           /\ LET a == Dispatch(r, d, loc, now).reply
              IN  IF r.method = "HEAD" /\ a.script = NoScript
                  THEN Route(r, d, loc, now).reply = WithoutBody(a)
                  ELSE Route(r, d, loc, now).reply = a
<1> DEFINE a == Dispatch(r, d, loc, now).reply
           e == Dispatch(r, d, loc, now).disk
<1>1. Route(r, d, loc, now) = Stripped(r, Outcome(a, e))
  BY DispatchIsOutcome DEF Route
<1>2. Handled(a)
  BY DispatchHandled
<1> HIDE DEF a, e
<1>3. /\ Route(r, d, loc, now).disk = e
      /\ IF r.method = "HEAD" /\ a.script = NoScript
         THEN Route(r, d, loc, now).reply = WithoutBody(a)
         ELSE Route(r, d, loc, now).reply = a
  BY <1>1, <1>2, StrippedReply DEF Handled
<1>4. Handled(WithoutBody(a))
  <2>1. WithoutBody(a) = ReplyOf(a.code, a.entity, FALSE, {}, a.location, a.script)
    BY <1>2, BodyTakenAway DEF Handled
  <2>2. a.code \in Codes
    BY <1>2 DEF Handled
  <2> QED
    BY <2>1, <2>2, ReplyHandled, Zenon
<1> QED
  BY <1>2, <1>3, <1>4 DEF a, e

-----------------------------------------------------------------------------
(* The Allow header.                                                       *)

\* Methods are only named in the reply to a request that was refused, and they
\* are those of the location that refused it.
AllowIsOfLocation ==
    reply.allow # {} =>
        LET k == MatchLocation(req.path, site)
        IN  /\ req \in Requests /\ req.error = 0
            /\ k \in DOMAIN site
            /\ site[k].redirect = <<>>
            /\ reply.allow = site[k].methods

LEMMA RouteAllows ==
    ASSUME NEW r, NEW d, NEW loc, NEW now
    PROVE  LET a == Route(r, d, loc, now).reply
           IN  a.allow = {} \/ (loc.redirect = <<>> /\ a.allow = loc.methods)
<1>1. \A x, y : Outcome(x, y).reply = x
  BY DEF Outcome
<1>2. Redirect(loc.redirectCode, loc.redirect).allow = {}
  BY DEF Redirect, Answer
<1>3. ErrorReply(501).allow = {}
  BY DEF ErrorReply, Answer
<1>4. NotAllowed(loc).allow = loc.methods
  BY DEF NotAllowed, ErrorReply, Answer, Allow
<1>5. CASE loc.redirect # <<>>
  BY <1>1, <1>2, <1>5 DEF Route
<1>6. CASE loc.redirect = <<>> /\ r.method \notin Methods
  BY <1>1, <1>3, <1>6 DEF Route
<1>7. CASE loc.redirect = <<>> /\ r.method \in Methods /\ ~IsMethodAllowed(r.method, loc)
  BY <1>1, <1>4, <1>7 DEF Route
<1>8. CASE loc.redirect = <<>> /\ r.method \in Methods /\ IsMethodAllowed(r.method, loc)
  BY <1>8, RouteHandled DEF Handled
<1> QED
  BY <1>5, <1>6, <1>7, <1>8

\* The same request with another method.
LEMMA RequestAs ==
    ASSUME InputsTyped, NEW r \in Requests, NEW m
    PROVE  /\ As(r, m).method = m
           /\ As(r, m).path = r.path /\ As(r, m).error = r.error
           /\ As(r, m).parts = r.parts /\ As(r, m).content = r.content
           /\ As(r, m).type = r.type
<1>1. ASSUME NEW A, NEW B, NEW C, NEW D, NEW E, NEW F,
             NEW x \in [method : A, path : B, error : C, type : D, parts : E, content : F]
      PROVE  /\ As(x, m).method = m
             /\ As(x, m).path = x.path /\ As(x, m).error = x.error
             /\ As(x, m).parts = x.parts /\ As(x, m).content = x.content
             /\ As(x, m).type = x.type
  BY DEF As
<1> DEFINE A == STRING
           C == {0} \cup 400..599
           D == {"raw", "form", "form without boundary"}
           E == Seq([name : Path, content : STRING])
<1>2. r \in [method : A, path : Path, error : C, type : D, parts : E, content : A]
  BY DEF InputsTyped, Request
<1> HIDE DEF A, C, D, E
<1> QED
  BY <1>1, <1>2

\* A reply of build() that names methods refuses a request to a location.
LEMMA BuildAllows ==
    ASSUME InputsTyped, Handed, NEW r, NEW d, NEW now,
           Build(r, d, now).reply.allow # {}
    PROVE  /\ r.error = 0
           /\ MatchLocation(r.path, site) \in DOMAIN site
           /\ site[MatchLocation(r.path, site)].redirect = <<>>
           /\ Build(r, d, now).reply.allow = site[MatchLocation(r.path, site)].methods
<1> DEFINE k == MatchLocation(r.path, site)
<1>1. \A x, y : Outcome(x, y).reply = x
  BY DEF Outcome
<1>2. \A c : ErrorReply(c).allow = {}
  BY DEF ErrorReply, Answer
<1>3. r.error = 0
  BY <1>1, <1>2 DEF Build
<1>4. k # 0
  BY <1>1, <1>2, <1>3 DEF Build
<1>5. k \in DOMAIN site
  BY <1>4, MatchIsLocation
<1>6. Build(r, d, now) = Route(r, d, site[k], now)
  BY <1>3, <1>4, Zenon DEF Build
<1> HIDE DEF k
<1>7. \/ Route(r, d, site[k], now).reply.allow = {}
      \/ /\ site[k].redirect = <<>>
         /\ Route(r, d, site[k], now).reply.allow = site[k].methods
  BY RouteAllows
<1> QED
  BY <1>3, <1>5, <1>6, <1>7 DEF k

LEMMA AllowAlways ==
    ASSUME InputsTyped
    PROVE  Spec => []AllowIsOfLocation
<1>1. Init => AllowIsOfLocation
  BY DEF Init, AllowIsOfLocation, Answer
<1>2. ASSUME Handed, AllowIsOfLocation, [Next]_vars PROVE AllowIsOfLocation'
  <2>1. ASSUME NEW r \in Requests, Serve(r) PROVE AllowIsOfLocation'
    <3>1. reply' = Build(r, disk, clock).reply /\ req' = r /\ site' = site
      BY <2>1 DEF Serve
    <3>2. ASSUME Build(r, disk, clock).reply.allow # {}
          PROVE  /\ r.error = 0
                 /\ MatchLocation(r.path, site) \in DOMAIN site
                 /\ site[MatchLocation(r.path, site)].redirect = <<>>
                 /\ Build(r, disk, clock).reply.allow = site[MatchLocation(r.path, site)].methods
      BY <1>2, <3>2, BuildAllows
    <3> QED
      BY <3>1, <3>2 DEF AllowIsOfLocation
  <2>2. ASSUME NEW out \in Outputs, ScriptAnswers(out) PROVE AllowIsOfLocation'
    <3>1. reply'.allow = {}
      BY <2>2 DEF ScriptAnswers, CgiResponse, ErrorReply, Answer
    <3> QED
      BY <3>1 DEF AllowIsOfLocation
  <2>3. ASSUME UNCHANGED <<site, req, reply>> PROVE AllowIsOfLocation'
    BY <1>2, <2>3 DEF AllowIsOfLocation
  <2> QED
    BY <1>2, <2>1, <2>2, <2>3 DEF Next, Tick, vars
<1> QED
  BY <1>1, <1>2, HandedAlways, PTL DEF Spec

\* The Allow header of a 405 tells the truth, for every configuration and every
\* request: a method it lists reaches a handler or is answered 501, whatever has
\* become of the disk (Response.cpp, _isMethodAllowed and _handleNotAllowed).
\* HeadNeedsGet is what the code needs for it: HEAD is allowed where GET is, so
\* that a location that lists HEAD alone offers it and refuses it.
THEOREM AllowIsHonest ==
    ASSUME InputsTyped, HeadNeedsGet
    PROVE  Spec => []AllowedAnswered
<1>1. Handed /\ AllowIsOfLocation => AllowedAnswered
  <2> SUFFICES ASSUME Handed, AllowIsOfLocation, NEW m \in reply.allow
               PROVE  Again(As(req, m)).code # 405
    BY DEF AllowedAnswered
  <2> DEFINE k == MatchLocation(req.path, site)
             r == As(req, m)
  <2>1. /\ req \in Requests /\ req.error = 0
        /\ k \in DOMAIN site
        /\ site[k].redirect = <<>>
        /\ m \in site[k].methods
    BY DEF AllowIsOfLocation
  <2>2. r.method = m /\ r.path = req.path /\ r.error = 0
    BY <2>1, RequestAs
  <2>3. k # 0
    BY <2>1, SiteIsList
  <2>4. Build(r, disk, clock) = Route(r, disk, site[k], clock)
    BY <2>2, <2>3, Zenon DEF Build
  <2>5. Again(r).code = Route(r, disk, site[k], clock).reply.code
    BY <2>4 DEF Again
  <2> HIDE DEF r, k
  <2>6. ASSUME m \notin Methods
        PROVE  Route(r, disk, site[k], clock).reply.code = 501
    BY <2>1, <2>2, <2>6 DEF Route, Outcome, ErrorReply, Answer
  <2>7. ASSUME m \in Methods
        PROVE  Route(r, disk, site[k], clock).reply.code \in Codes
    <3>1. IsMethodAllowed(r.method, site[k])
      BY <2>1, <2>2 DEF IsMethodAllowed, HeadNeedsGet, Handed
    <3> QED
      BY <2>1, <2>2, <2>7, <3>1, RouteHandled DEF Handled
  <2> QED
    BY <2>5, <2>6, <2>7 DEF Codes, r
<1> QED
  BY <1>1, HandedAlways, AllowAlways, PTL

-----------------------------------------------------------------------------
(* HEAD and GET.                                                           *)

\* What a request that no handler has is answered, whatever its method.
LEMMA ErrorsHaveBodies ==
    ASSUME NEW c
    PROVE  /\ IsReply(ErrorReply(c)) /\ ErrorReply(c).bodySent = TRUE
           /\ ErrorReply(c).entity = <<"error", c>> /\ ErrorReply(c).script = NoScript
<1> DEFINE e == <<"error", c>>
<1>1. ErrorReply(c) = ReplyOf(c, e, e # Empty, {}, <<>>, NoScript)
  BY Zenon DEF ErrorReply, Answer, ReplyOf
<1>2. (e # Empty) = TRUE
  BY DEF Empty
<1> HIDE DEF e
<1>3. PICK b : b = (e # Empty)
  OBVIOUS
<1>4. ErrorReply(c) = ReplyOf(c, e, b, {}, <<>>, NoScript)
  BY <1>1, <1>3, Zenon
<1>5. /\ IsReply(ErrorReply(c)) /\ ErrorReply(c).bodySent = b /\ ErrorReply(c).entity = e
      /\ ErrorReply(c).script = NoScript
  BY <1>4, ReplyFields
<1> QED
  BY <1>2, <1>3, <1>5 DEF e

LEMMA RefusalsHaveBodies ==
    ASSUME NEW loc
    PROVE  IsReply(NotAllowed(loc)) /\ NotAllowed(loc).bodySent = TRUE
<1> DEFINE Changed(x, y) == [x EXCEPT !.allow = y]
           c == 405
           a == ErrorReply(c)
           m == loc.methods
<1>1. NotAllowed(loc) = Changed(a, m)
  BY Zenon DEF NotAllowed, Allow
<1> HIDE DEF c
<1>2. IsReply(a) /\ a.bodySent = TRUE
  BY ErrorsHaveBodies
<1>3. \A d, e, b, k, l, s :
         Changed(ReplyOf(d, e, b, k, l, s), m) = ReplyOf(d, e, b, m, l, s)
  BY DEF ReplyOf
<1> HIDE DEF Changed, m, a
<1>4. NotAllowed(loc) = ReplyOf(a.code, a.entity, a.bodySent, m, a.location, a.script)
  BY <1>1, <1>2, <1>3 DEF IsReply
<1>5. IsReply(NotAllowed(loc)) /\ NotAllowed(loc).bodySent = a.bodySent
  BY <1>4, ReplyFields
<1> QED
  BY <1>2, <1>5

LEMMA RedirectsHaveNone ==
    ASSUME NEW c, NEW q
    PROVE  IsReply(Redirect(c, q)) /\ Redirect(c, q).bodySent = FALSE
<1> DEFINE Changed(x, y) == [x EXCEPT !.location = y]
<1>1. PICK d : d = IF c = 0 THEN 301 ELSE c
  OBVIOUS
<1>2. Redirect(c, q) = Changed(Answer(d, Empty), q)
  BY <1>1, Zenon DEF Redirect
<1>3. PICK b : b = FALSE /\ Answer(d, Empty) = ReplyOf(d, Empty, b, {}, <<>>, NoScript)
  BY AnswerIs
<1>4. \A e, m, l, s : Changed(ReplyOf(d, e, b, m, l, s), q) = ReplyOf(d, e, b, m, q, s)
  BY DEF ReplyOf
<1> HIDE DEF Changed
<1>5. Redirect(c, q) = ReplyOf(d, Empty, b, {}, q, NoScript)
  BY <1>2, <1>3, <1>4
<1> QED
  BY <1>3, <1>5, ReplyFields

\* A reply with its own bodySent is itself, and one without its body is another
\* reply.
LEMMA SameBody ==
    ASSUME NEW a, IsReply(a)
    PROVE  a = [a EXCEPT !.bodySent = a.bodySent]
<1>1. ASSUME NEW c, NEW e, NEW b, NEW m, NEW l, NEW s
      PROVE  [ReplyOf(c, e, b, m, l, s) EXCEPT !.bodySent = b] = ReplyOf(c, e, b, m, l, s)
  BY DEF ReplyOf
<1> QED
  BY <1>1 DEF IsReply

LEMMA NoBody ==
    ASSUME NEW a, IsReply(a)
    PROVE  WithoutBody(a).bodySent = FALSE
<1>1. PICK b : b = FALSE
  OBVIOUS
<1>2. WithoutBody(a) = ReplyOf(a.code, a.entity, b, a.allow, a.location, a.script)
  BY <1>1, BodyTakenAway, Zenon
<1> QED
  BY <1>1, <1>2, ReplyFields

\* How a HEAD request is answered, as long as no script has.
LEMMA HeadBuilt ==
    ASSUME InputsTyped, Handed, req.method = "HEAD"
    PROVE  LET h == Again(req)
               g == Again(As(req, "GET"))
           IN  /\ h = [g EXCEPT !.bodySent = h.bodySent]
               /\ h.bodySent <=> FailsEarly(req)
<1> DEFINE h == Again(req)
           r == As(req, "GET")
           g == Again(r)
           k == MatchLocation(req.path, site)
           Alike == h = [g EXCEPT !.bodySent = h.bodySent]
           Fails == \/ req.error # 0
                    \/ k = 0
                    \/ site[k].redirect = <<>> /\ ~IsMethodAllowed(req.method, site[k])
<1> SUFFICES Alike /\ (h.bodySent <=> Fails)
  BY Zenon DEF FailsEarly
<1>1. req \in Requests
  <2>1. NoRequest.method # "HEAD"
    BY DEF NoRequest
  <2> QED
    BY <2>1 DEF Handed
<1>2. r.method = "GET" /\ r.path = req.path /\ r.error = req.error
  BY <1>1, RequestAs
<1>3. \A x, y : Outcome(x, y).reply = x
  BY DEF Outcome
<1> HIDE DEF r, k
<1>4. ASSUME NEW a, IsReply(a), a.bodySent = Fails, h = a, g = a
      PROVE  Alike /\ (h.bodySent <=> Fails)
  BY <1>4, SameBody
<1>5. ASSUME req.error # 0
      PROVE  Alike /\ (h.bodySent <=> Fails)
  <2>1. h = ErrorReply(req.error) /\ g = ErrorReply(req.error)
    BY <1>2, <1>3, <1>5 DEF Again, Build
  <2> QED
    BY <1>5, <2>1, <1>4, ErrorsHaveBodies
<1>6. ASSUME req.error = 0, k = 0
      PROVE  Alike /\ (h.bodySent <=> Fails)
  <2>1. h = ErrorReply(404) /\ g = ErrorReply(404)
    BY <1>2, <1>3, <1>6 DEF Again, Build, k
  <2> QED
    BY <1>6, <2>1, <1>4, ErrorsHaveBodies, ZenonT(40)
<1>7. ASSUME req.error = 0, k # 0
      PROVE  Alike /\ (h.bodySent <=> Fails)
  <2> DEFINE loc == site[k]
  <2>1. /\ Build(req, disk, clock) = Route(req, disk, loc, clock)
        /\ Build(r, disk, clock) = Route(r, disk, loc, clock)
    BY <1>2, <1>7, Zenon DEF Build, k
  <2>2. /\ h = Route(req, disk, loc, clock).reply
        /\ g = Route(r, disk, loc, clock).reply
    BY <2>1, Zenon DEF Again
  <2> HIDE DEF loc, h, g
  <2>3. ASSUME loc.redirect # <<>>
        PROVE  Alike /\ (h.bodySent <=> Fails)
    <3>1. h = Redirect(loc.redirectCode, loc.redirect) /\ g = h
      BY <1>3, <2>2, <2>3, Zenon DEF Route
    <3> QED
      BY <1>4, <1>7, <2>3, <3>1, RedirectsHaveNone DEF loc
  <2>4. ASSUME loc.redirect = <<>>, ~IsMethodAllowed("HEAD", loc)
        PROVE  Alike /\ (h.bodySent <=> Fails)
    <3>1. "HEAD" \in Methods /\ "GET" \in Methods /\ ~IsMethodAllowed("GET", loc)
      BY <2>4 DEF Methods, IsMethodAllowed
    <3>2. h = NotAllowed(loc) /\ g = h
      BY <1>2, <1>3, <2>2, <2>4, <3>1, Zenon DEF Route
    <3> QED
      BY <1>4, <1>7, <2>4, <3>2, RefusalsHaveBodies DEF loc
  <2>5. ASSUME loc.redirect = <<>>, IsMethodAllowed("HEAD", loc)
        PROVE  Alike /\ (h.bodySent <=> Fails)
    <3>1. "HEAD" \in Methods /\ "GET" \in Methods /\ IsMethodAllowed("GET", loc)
      BY <2>5 DEF Methods, IsMethodAllowed
    <3> DEFINE a == HandleGET(req, disk, loc)
    <3>2. HandleGET(r, disk, loc) = a
      BY <1>2, Zenon DEF HandleGET, ServeDirectory
    <3>3. Dispatch(req, disk, loc, clock).reply = a /\ Dispatch(r, disk, loc, clock).reply = a
      BY <1>2, <1>3, <3>2 DEF Dispatch
    <3>4. Handled(a)
      BY GetHandled
    <3> HIDE DEF a
    <3>5. g = a
      BY <1>2, <2>2, <2>5, <3>1, <3>3, RouteHandled
    <3>6. h = IF a.script = NoScript THEN WithoutBody(a) ELSE a
      BY <2>2, <2>5, <3>1, <3>3, RouteHandled
    <3>7. ~Fails
      BY <1>7, <2>5 DEF loc
    <3>8. ASSUME a.script = NoScript PROVE Alike /\ h.bodySent = FALSE
      <4>1. h = WithoutBody(a) /\ h.bodySent = FALSE
        BY <3>4, <3>6, <3>8, NoBody DEF Handled
      <4> QED
        BY <3>5, <4>1, Zenon DEF WithoutBody
    <3>9. ASSUME a.script # NoScript PROVE Alike /\ h.bodySent = FALSE
      BY <3>4, <3>5, <3>6, <3>9, SameBody DEF Handled
    <3> QED
      BY <3>7, <3>8, <3>9
  <2> QED
    BY <2>3, <2>4, <2>5
<1> QED
  BY <1>5, <1>6, <1>7

\* It changes nothing, and does not depend on the time.
LEMMA HeadChangesNothing ==
    ASSUME NEW r, r.method = "HEAD", NEW d, NEW now, NEW later
    PROVE  Build(r, d, now).disk = d /\ Build(r, d, later) = Build(r, d, now)
<1>1. \A x, y : Outcome(x, y).disk = y
  BY DEF Outcome
<1>2. ASSUME NEW loc
      PROVE  /\ Dispatch(r, d, loc, now) = Outcome(HandleGET(r, d, loc), d)
             /\ Dispatch(r, d, loc, later) = Outcome(HandleGET(r, d, loc), d)
  BY DEF Dispatch
<1>3. ASSUME NEW loc
      PROVE  Route(r, d, loc, now).disk = d /\ Route(r, d, loc, later) = Route(r, d, loc, now)
  <2> DEFINE a == HandleGET(r, d, loc)
  <2>1. Handled(a)
    BY GetHandled
  <2> HIDE DEF a
  <2>2. Stripped(r, Outcome(a, d)).disk = d
    BY <2>1, StrippedReply DEF Handled
  <2> QED
    BY <1>1, <1>2, <2>2 DEF Route, a
<1> QED
  BY <1>1, <1>3 DEF Build

\* A script's answer has a body.
LEMMA ScriptsHaveBodies ==
    ASSUME NEW out
    PROVE  CgiResponse(out).bodySent = TRUE /\ CgiResponse(out).script = NoScript
<1>1. ErrorReply(500).bodySent = TRUE /\ ErrorReply(500).script = NoScript
  BY ErrorsHaveBodies
<1>2. ASSUME NEW c PROVE Answer(c, <<"output">>).bodySent = TRUE /\ Answer(c, <<"output">>).script = NoScript
  <2> DEFINE e == <<"output">>
  <2>1. Answer(c, e) = ReplyOf(c, e, e # Empty, {}, <<>>, NoScript)
    BY Zenon DEF Answer, ReplyOf
  <2>2. (e # Empty) = TRUE
    BY DEF Empty
  <2> HIDE DEF e
  <2>3. PICK b : b = (e # Empty)
    OBVIOUS
  <2>4. Answer(c, e) = ReplyOf(c, e, b, {}, <<>>, NoScript)
    BY <2>1, <2>3, Zenon
  <2>5. Answer(c, e).bodySent = b /\ Answer(c, e).script = NoScript
    BY <2>4, ReplyFields
  <2> QED
    BY <2>2, <2>3, <2>5 DEF e
<1> QED
  BY <1>1, <1>2 DEF CgiResponse

\* The reply to HEAD is the one that build() made, or the one of the script
\* that build() asked for.
HeadReplied ==
    req.method = "HEAD" =>
        \/ reply = Again(req)
        \/ Again(req).script # NoScript /\ reply.script = NoScript /\ reply.bodySent = TRUE

LEMMA HeadRepliedAlways == Spec => []HeadReplied
<1>1. Init => HeadReplied
  <2>1. NoRequest.method # "HEAD"
    BY DEF NoRequest
  <2> QED
    BY <2>1 DEF Init, HeadReplied
<1>2. ASSUME HeadReplied, [Next]_vars PROVE HeadReplied'
  <2>1. ASSUME NEW r \in Requests, Serve(r) PROVE HeadReplied'
    <3> SUFFICES ASSUME r.method = "HEAD" PROVE reply' = Again(req)'
      BY <2>1 DEF HeadReplied, Serve
    <3>1. /\ reply' = Build(r, disk, clock).reply /\ req' = r
          /\ disk' = disk /\ site' = site /\ clock' = clock
      BY <2>1, HeadChangesNothing DEF Serve
    <3> QED
      BY <3>1 DEF Again, Build
  <2>2. ASSUME NEW out \in Outputs, ScriptAnswers(out) PROVE HeadReplied'
    <3> SUFFICES ASSUME req.method = "HEAD" PROVE HeadReplied'
      BY <2>2 DEF HeadReplied, ScriptAnswers
    <3>1. reply.script # NoScript /\ reply' = CgiResponse(out)
          /\ UNCHANGED <<site, disk, clock, req>>
      BY <2>2 DEF ScriptAnswers
    <3>2. Again(req).script # NoScript
      BY <1>2, <3>1 DEF HeadReplied
    <3>3. Again(req)' = Again(req)
      BY <3>1 DEF Again, Build
    <3> QED
      BY <3>1, <3>2, <3>3, ScriptsHaveBodies DEF HeadReplied
  <2>3. ASSUME UNCHANGED <<site, disk, req, reply>> PROVE HeadReplied'
    <3> SUFFICES ASSUME req.method = "HEAD" PROVE HeadReplied'
      BY <2>3 DEF HeadReplied
    <3>1. Again(req)' = Build(req, disk, clock').reply
      BY <2>3 DEF Again, Build
    <3>2. Build(req, disk, clock') = Build(req, disk, clock)
      BY HeadChangesNothing
    <3>3. Again(req)' = Again(req)
      BY <3>1, <3>2 DEF Again
    <3> QED
      BY <1>2, <2>3, <3>3 DEF HeadReplied
  <2> QED
    BY <1>2, <2>1, <2>2, <2>3 DEF Next, Tick, vars
<1> QED
  BY <1>1, <1>2, PTL DEF Spec

\* HEAD is answered with the status and the headers of GET, or by the script
\* that GET runs, whatever the configuration, the disk and the path; and a body
\* follows the finished headers exactly if no handler has had the request or a
\* script has answered it (Response.cpp:98-102, step 6 of build(), and 119-172).
THEOREM HeadIsGet ==
    ASSUME InputsTyped
    PROVE  Spec => []HeadLikeGet
<1>1. Handed /\ HeadReplied => HeadLikeGet
  <2> SUFFICES ASSUME Handed, HeadReplied, req.method = "HEAD" PROVE HeadLikeGet
    BY DEF HeadLikeGet
  <2> DEFINE h == Again(req)
             g == Again(As(req, "GET"))
  <2>1. h = [g EXCEPT !.bodySent = h.bodySent] /\ (h.bodySent <=> FailsEarly(req))
    BY HeadBuilt
  <2> HIDE DEF h, g
  <2>2. reply = h \/ (h.script # NoScript /\ reply.script = NoScript /\ reply.bodySent = TRUE)
    BY DEF HeadReplied, h
  <2>3. ASSUME reply.script = NoScript
        PROVE  reply.bodySent <=> FailsEarly(req) \/ h.script # NoScript
    BY <2>1, <2>2, <2>3, Zenon
  <2> QED
    BY <2>1, <2>3 DEF HeadLikeGet, h, g
<1> QED
  BY <1>1, HandedAlways, HeadRepliedAlways, PTL

-----------------------------------------------------------------------------
(* The loop over the parts of a form.                                      *)

StoreState(D) == [disk : D, failed : {TRUE, FALSE}]

StoreStep(dir, s, part) ==
    IF s.failed \/ part.name = <<>> THEN s
    ELSE IF CanWrite(s.disk, dir \o part.name)
         THEN [s EXCEPT !.disk = Write(@, dir \o part.name, part.content)]
         ELSE [s EXCEPT !.failed = TRUE]

\* What one turn of the loop does: nothing, a file is written, or it has failed.
Turn(dir, s, t, part) ==
    \/ /\ s.failed = TRUE \/ part.name = <<>>
       /\ t.disk = s.disk /\ t.failed = s.failed
    \/ /\ s.failed = FALSE /\ part.name # <<>> /\ CanWrite(s.disk, dir \o part.name)
       /\ t.disk = Write(s.disk, dir \o part.name, part.content) /\ t.failed = FALSE
    \/ /\ s.failed = FALSE /\ part.name # <<>> /\ ~CanWrite(s.disk, dir \o part.name)
       /\ t.disk = s.disk /\ t.failed = TRUE

LEMMA StoreStepTurns ==
    ASSUME NEW D, NEW s \in StoreState(D), NEW dir, NEW part,
           Write(s.disk, dir \o part.name, part.content) \in D
    PROVE  /\ StoreStep(dir, s, part) \in StoreState(D)
           /\ Turn(dir, s, StoreStep(dir, s, part), part)
<1> DEFINE w == Write(s.disk, dir \o part.name, part.content)
<1>1. StoreStep(dir, s, part) =
         IF s.failed \/ part.name = <<>> THEN s
         ELSE IF CanWrite(s.disk, dir \o part.name) THEN [s EXCEPT !.disk = w]
              ELSE [s EXCEPT !.failed = TRUE]
  BY Zenon DEF StoreStep
<1> HIDE DEF w
<1>2. ASSUME NEW x \in D
      PROVE  /\ [s EXCEPT !.disk = x] \in StoreState(D)
             /\ [s EXCEPT !.disk = x].disk = x /\ [s EXCEPT !.disk = x].failed = s.failed
  BY DEF StoreState
<1>3. /\ [s EXCEPT !.failed = TRUE] \in StoreState(D)
      /\ [s EXCEPT !.failed = TRUE].disk = s.disk
      /\ [s EXCEPT !.failed = TRUE].failed = TRUE
  BY DEF StoreState
<1>4. s.failed \in {TRUE, FALSE}
  BY DEF StoreState
<1>5. w \in D
  BY DEF w
<1> DEFINE v == [s EXCEPT !.disk = w]
           u == [s EXCEPT !.failed = TRUE]
<1>6. /\ v \in StoreState(D) /\ v.disk = w /\ v.failed = s.failed
      /\ u \in StoreState(D) /\ u.disk = s.disk /\ u.failed = TRUE
  BY <1>2, <1>3, <1>5
<1>7. StoreStep(dir, s, part) =
         IF s.failed \/ part.name = <<>> THEN s
         ELSE IF CanWrite(s.disk, dir \o part.name) THEN v ELSE u
  BY <1>1
<1> HIDE DEF v, u
<1>8. ASSUME s.failed = TRUE \/ part.name = <<>>
      PROVE  StoreStep(dir, s, part) = s
  BY <1>7, <1>8
<1>9. ASSUME s.failed = FALSE, part.name # <<>>, CanWrite(s.disk, dir \o part.name)
      PROVE  StoreStep(dir, s, part) = v
  BY <1>7, <1>9
<1>10. ASSUME s.failed = FALSE, part.name # <<>>, ~CanWrite(s.disk, dir \o part.name)
       PROVE  StoreStep(dir, s, part) = u
  BY <1>7, <1>10
<1> QED
  BY <1>4, <1>6, <1>8, <1>9, <1>10 DEF Turn, w

\* s[k] is the state of the loop after k parts.
IsStoring(s, n, parts, dir, d) ==
    /\ s[0].disk = d /\ s[0].failed = FALSE
    /\ \A k \in 1..n : Turn(dir, s[k - 1], s[k], parts[k])
    /\ Store(dir, d, parts) = s[n]

LEMMA StoreLoop ==
    ASSUME NEW n \in Nat, NEW parts, DOMAIN parts = 1..n, NEW dir, NEW d
    PROVE  \E s : IsStoring(s, n, parts, dir, d)
<1> DEFINE P == DOMAIN d \cup {dir \o parts[k].name : k \in 1..n}
           V == {d[q] : q \in DOMAIN d} \cup {parts[k].content : k \in 1..n} \cup {""}
           D == {d} \cup UNION {[X -> V] : X \in SUBSET P}
           Y == StoreState(D)
           b == [disk |-> d, failed |-> FALSE]
           Step(s, k) == StoreStep(dir, s, parts[k])
           F == [c \in Y \X (1..n) |-> Step(c[1], c[2])]
           Iter == CHOOSE f : f = [s \in SUBSET (DOMAIN parts) |->
                                      IF s = {} THEN b ELSE Step(f[s \ {Max(s)}], Max(s))]
           it == [k \in 0..n |-> Iter[1..k]]
<1>1. b \in Y /\ b.disk = d /\ b.failed = FALSE
  BY DEF StoreState
<1>2. \A s \in Y, k \in 1..n : Step(s, k) \in Y /\ Turn(dir, s, Step(s, k), parts[k])
  <2> SUFFICES ASSUME NEW s \in Y, NEW k \in 1..n
               PROVE  Step(s, k) \in Y /\ Turn(dir, s, Step(s, k), parts[k])
    OBVIOUS
  <2>1. s.disk \in D
    <3> HIDE DEF D
    <3> QED
      BY DEF StoreState
  <2> DEFINE e == s.disk
             p == dir \o parts[k].name
             c == parts[k].content
  <2>2. DOMAIN e \subseteq P /\ \A q \in DOMAIN e : e[q] \in V
    <3>1. DOMAIN d \subseteq P /\ \A q \in DOMAIN d : d[q] \in V
      OBVIOUS
    <3>2. e = d \/ \E X \in SUBSET P : e \in [X -> V]
      BY <2>1
    <3> HIDE DEF V, P, e
    <3> QED
      BY <3>1, <3>2
  <2>3. p \in P /\ Contents(p, c) \in V
    BY DEF Contents
  <2>4. Write(e, p, c) \in D
    <3> HIDE DEF e, p, c, P, V
    <3>1. Write(e, p, c) \in [DOMAIN e \cup {p} -> V]
      BY <2>2, <2>3 DEF Write
    <3>2. DOMAIN e \cup {p} \in SUBSET P
      BY <2>2, <2>3
    <3> QED
      BY <3>1, <3>2
  <2> HIDE DEF D
  <2> QED
    BY <2>4, StoreStepTurns
<1> HIDE DEF P, V, D, b, Y
<1>3. \E f : f = [s \in SUBSET (1..n) |-> IF s = {} THEN b ELSE Step(f[s \ {Max(s)}], Max(s))]
  <2>1. F \in [Y \X (1..n) -> Y]
    <3> HIDE DEF Step
    <3> QED
      BY <1>2
  <2>2. \A s \in Y, k \in 1..n : F[<<s, k>>] = Step(s, k)
    OBVIOUS
  <2> HIDE DEF F
  <2>3. \E f \in [SUBSET (1..n) -> Y] : IsFold(f, n, b, F)
    BY <1>1, <2>1, FoldExists
  <2>4. PICK f \in [SUBSET (1..n) -> Y] :
           f = [s \in SUBSET (1..n) |-> IF s = {} THEN b ELSE F[<<f[s \ {Max(s)}], Max(s)>>]]
    BY <2>3 DEF IsFold
  <2> HIDE DEF Step
  <2>5. ASSUME NEW s \in SUBSET (1..n), s # {}
        PROVE  F[<<f[s \ {Max(s)}], Max(s)>>] = Step(f[s \ {Max(s)}], Max(s))
    <3>1. Max(s) \in 1..n
      BY <2>5, LargestIsOne
    <3>2. f[s \ {Max(s)}] \in Y
      BY <2>4
    <3> QED
      BY <2>2, <3>1, <3>2
  <2>6. f = [s \in SUBSET (1..n) |-> IF s = {} THEN b ELSE Step(f[s \ {Max(s)}], Max(s))]
    BY <2>4, <2>5
  <2> QED
    BY <2>6
<1>4. Iter = [s \in SUBSET (1..n) |-> IF s = {} THEN b ELSE Step(Iter[s \ {Max(s)}], Max(s))]
  <2> HIDE DEF Step
  <2> QED
    BY <1>3, Zenon
<1>5. Store(dir, d, parts) = Iter[DOMAIN parts]
  BY Zenon DEF Store, FoldLeft, MapThenFoldSet, StoreStep, b
<1> HIDE DEF Step, Iter, F
<1>6. it[0] = b
  <2>1. 1..0 = {} /\ {} \in SUBSET (1..n) /\ 0 \in 0..n
    OBVIOUS
  <2> QED
    BY <1>4, <2>1
<1>7. ASSUME NEW k \in 1..n PROVE it[k] = Step(it[k - 1], k)
  <2>1. /\ k \in Nat /\ k \in 0..n /\ k - 1 \in 0..n
        /\ 1..k \in SUBSET (1..n) /\ 1..k # {} /\ k \in 1..k /\ (1..k) \ {k} = 1..(k - 1)
    <3>1. k \in Nat /\ k >= 1 /\ k <= n
      OBVIOUS
    <3>2. \A j : j \in (1..k) \ {k} <=> j \in 1..(k - 1)
      BY <3>1
    <3>3. (1..k) \ {k} = 1..(k - 1)
      BY <3>2, Zenon
    <3>4. 1..k \in SUBSET (1..n) /\ k \in 1..k
      BY <3>1
    <3>5. k \in 0..n /\ k - 1 \in 0..n
      BY <3>1
    <3> QED
      BY <3>1, <3>3, <3>4, <3>5, Zenon
  <2>2. Max(1..k) = k
    BY <2>1, LargestOfPrefix
  <2>3. Iter[1..k] = Step(Iter[1..(k - 1)], k)
    BY <1>4, <2>1, <2>2
  <2> QED
    BY <2>1, <2>3
<1>8. \A k \in 0..n : it[k] \in Y
  <2> DEFINE S == {k \in 0..n : it[k] \in Y}
  <2> HIDE DEF it
  <2>1. 0 \in S
    BY <1>1, <1>6
  <2>2. ASSUME NEW k \in 1..n, k - 1 \in S PROVE k \in S
    <3>1. it[k - 1] \in Y /\ k \in 0..n
      BY <2>2
    <3> QED
      BY <1>2, <1>7, <3>1
  <2>3. \A k \in 0..n : k \in S
    <3> HIDE DEF S
    <3> QED
      BY <2>1, <2>2, Induction
  <2> QED
    BY <2>3
<1>9. Store(dir, d, parts) = it[n]
  BY <1>5
<1> HIDE DEF it
<1>10. ASSUME NEW k \in 1..n PROVE Turn(dir, it[k - 1], it[k], parts[k])
  <2>1. k - 1 \in 0..n
    OBVIOUS
  <2> QED
    BY <1>2, <1>7, <1>8, <2>1
<1>11. it[0].disk = d /\ it[0].failed = FALSE
  BY <1>1, <1>6 DEF b
<1> QED
  BY <1>9, <1>10, <1>11 DEF IsStoring

-----------------------------------------------------------------------------
(* What a request does to the disk.                                        *)

\* No file is called "name/", and the directories of a disk are still there.
Named(d) == \A p \in DOMAIN d : ~EndsInSlash(p)
Keeps(d, e) == \A p \in DOMAIN d : d[p] = Dir => p \in DOMAIN e /\ e[p] = Dir

\* A file takes the place of no directory.
LEMMA WriteKeeps ==
    ASSUME NEW d, NEW e, Named(e), Keeps(d, e), NEW p, NEW c, CanWrite(e, p)
    PROVE  Named(Write(e, p, c)) /\ Keeps(d, Write(e, p, c))
<1>1. ~EndsInSlash(p) /\ ~(p \in DOMAIN e /\ e[p] = Dir)
  BY DEF CanWrite, IsDirectory, Bare
<1>2. DOMAIN Write(e, p, c) = DOMAIN e \cup {p}
  BY DEF Write
<1>3. \A q \in DOMAIN e : q # p => Write(e, p, c)[q] = e[q]
  BY DEF Write
<1> QED
  BY <1>1, <1>2, <1>3 DEF Named, Keeps

LEMMA StoreKeeps ==
    ASSUME NEW n \in Nat, NEW parts, DOMAIN parts = 1..n, NEW dir, NEW d, Named(d)
    PROVE  Named(Store(dir, d, parts).disk) /\ Keeps(d, Store(dir, d, parts).disk)
<1> PICK s : IsStoring(s, n, parts, dir, d)
  BY StoreLoop
<1>1. /\ s[0].disk = d /\ s[0].failed = FALSE
      /\ \A k \in 1..n : Turn(dir, s[k - 1], s[k], parts[k])
      /\ Store(dir, d, parts) = s[n]
  BY DEF IsStoring
<1> DEFINE S == {k \in 0..n : Named(s[k].disk) /\ Keeps(d, s[k].disk)}
<1>2. 0 \in S
  BY <1>1 DEF Keeps
<1>3. ASSUME NEW k \in 1..n, k - 1 \in S PROVE k \in S
  <2>1. \/ s[k].disk = s[k - 1].disk
        \/ /\ CanWrite(s[k - 1].disk, dir \o parts[k].name)
           /\ s[k].disk = Write(s[k - 1].disk, dir \o parts[k].name, parts[k].content)
    BY <1>1 DEF Turn
  <2>2. Named(s[k - 1].disk) /\ Keeps(d, s[k - 1].disk) /\ k \in 0..n
    BY <1>3
  <2> QED
    BY <2>1, <2>2, WriteKeeps
<1>4. \A k \in 0..n : k \in S
  <2> HIDE DEF S
  <2> QED
    BY <1>2, <1>3, Induction
<1>5. n \in 0..n
  OBVIOUS
<1> QED
  BY <1>1, <1>4, <1>5

LEMMA RemoveKeeps ==
    ASSUME NEW d, Named(d), NEW p, ~IsDirectory(d, p)
    PROVE  Named(WithoutFile(d, p)) /\ Keeps(d, WithoutFile(d, p))
<1>1. DOMAIN WithoutFile(d, p) = DOMAIN d \ {Bare(p)}
  BY DEF WithoutFile
<1>2. \A q \in DOMAIN d : q # Bare(p) => WithoutFile(d, p)[q] = d[q]
  BY DEF WithoutFile
<1> QED
  BY <1>1, <1>2 DEF Named, Keeps, IsDirectory

LEMMA DispatchKeeps ==
    ASSUME NEW r, NEW n \in Nat, DOMAIN r.parts = 1..n, NEW d, Named(d), NEW loc, NEW now
    PROVE  /\ Named(Dispatch(r, d, loc, now).disk)
           /\ Keeps(d, Dispatch(r, d, loc, now).disk)
<1> DEFINE Good(e) == Named(e) /\ Keeps(d, e)
<1>1. \A a, e : Outcome(a, e).disk = e
  BY DEF Outcome
<1>2. Good(d)
  BY DEF Keeps
<1>3. Good(UploadForm(r, d, loc).disk)
  <2> DEFINE s == Store(Slashed(loc.uploadDir), d, r.parts)
  <2>1. \E a : \/ UploadForm(r, d, loc) = Outcome(a, d)
               \/ UploadForm(r, d, loc) = Outcome(a, s.disk)
    BY DEF UploadForm
  <2>2. Good(s.disk)
    BY StoreKeeps
  <2> HIDE DEF s, Good
  <2> QED
    BY <1>1, <1>2, <2>1, <2>2
<1>4. Good(UploadRaw(r, d, loc, now).disk)
  <2> DEFINE p == Slashed(loc.uploadDir) \o <<"upload_", ToString(now)>>
             w == Write(d, p, r.content)
  <2>1. UploadRaw(r, d, loc, now) =
           IF CanWrite(d, p) THEN Outcome(Created, w) ELSE Outcome(ErrorReply(500), d)
    BY DEF UploadRaw
  <2>2. CanWrite(d, p) => Good(w)
    <3> HIDE DEF p
    <3> QED
      BY <1>2, WriteKeeps
  <2> HIDE DEF p, w, Good
  <2> QED
    BY <1>1, <1>2, <2>1, <2>2
<1>5. Good(HandleDELETE(r, d, loc).disk)
  <2> DEFINE p == FullPath(r.path, loc)
             e == WithoutFile(d, p)
  <2>1. \/ \E a : HandleDELETE(r, d, loc) = Outcome(a, d)
        \/ ~IsDirectory(d, p) /\ HandleDELETE(r, d, loc) = Outcome(Page, e)
    BY DEF HandleDELETE, Protected
  <2>2. ~IsDirectory(d, p) => Good(e)
    <3> HIDE DEF p
    <3> QED
      BY RemoveKeeps
  <2> HIDE DEF p, e, Good
  <2> QED
    BY <1>1, <1>2, <2>1, <2>2
<1>6. Good(HandlePOST(r, d, loc, now).disk)
  <2>1. \/ \E a : HandlePOST(r, d, loc, now) = Outcome(a, d)
        \/ HandlePOST(r, d, loc, now) = UploadRaw(r, d, loc, now)
        \/ HandlePOST(r, d, loc, now) = UploadForm(r, d, loc)
    BY DEF HandlePOST
  <2> HIDE DEF Good
  <2> QED
    BY <1>1, <1>2, <1>3, <1>4, <2>1
<1>7. \/ \E a : Dispatch(r, d, loc, now) = Outcome(a, d)
      \/ Dispatch(r, d, loc, now) = HandlePOST(r, d, loc, now)
      \/ Dispatch(r, d, loc, now) = HandleDELETE(r, d, loc)
  BY DEF Dispatch
<1>8. Good(Dispatch(r, d, loc, now).disk)
  <2> HIDE DEF Good
  <2> QED
    BY <1>1, <1>2, <1>5, <1>6, <1>7
<1> QED
  BY <1>8

\* What has been routed to a location is answered without its handlers or by one.
LEMMA RouteIsAnswered ==
    ASSUME NEW r, NEW d, NEW loc, NEW now
    PROVE  \/ /\ loc.redirect # <<>>
              /\ Route(r, d, loc, now) = Outcome(Redirect(loc.redirectCode, loc.redirect), d)
           \/ /\ r.method \notin Methods
              /\ Route(r, d, loc, now) = Outcome(ErrorReply(501), d)
           \/ /\ ~IsMethodAllowed(r.method, loc)
              /\ Route(r, d, loc, now) = Outcome(NotAllowed(loc), d)
           \/ /\ loc.redirect = <<>> /\ r.method \in Methods /\ IsMethodAllowed(r.method, loc)
              /\ Route(r, d, loc, now).disk = Dispatch(r, d, loc, now).disk
              /\ r.method # "HEAD" =>
                    Route(r, d, loc, now).reply = Dispatch(r, d, loc, now).reply
<1>1. CASE loc.redirect # <<>>
  BY <1>1, Zenon DEF Route
<1>2. CASE loc.redirect = <<>> /\ r.method \notin Methods
  BY <1>2, Zenon DEF Route
<1>3. CASE loc.redirect = <<>> /\ r.method \in Methods /\ ~IsMethodAllowed(r.method, loc)
  BY <1>3, Zenon DEF Route
<1>4. CASE loc.redirect = <<>> /\ r.method \in Methods /\ IsMethodAllowed(r.method, loc)
  BY <1>4, RouteHandled
<1> QED
  BY <1>1, <1>2, <1>3, <1>4

LEMMA BuildKeeps ==
    ASSUME InputsTyped, NEW r \in Requests, NEW d, Named(d), NEW now
    PROVE  Named(Build(r, d, now).disk) /\ Keeps(d, Build(r, d, now).disk)
<1> DEFINE k == MatchLocation(r.path, site)
<1>1. \A a, e : Outcome(a, e).disk = e
  BY DEF Outcome
<1>2. Named(d) /\ Keeps(d, d)
  BY DEF Keeps
<1>3. PICK n \in Nat : DOMAIN r.parts = 1..n
  <2>1. r.parts \in Seq([name : Path, content : STRING])
    BY DEF InputsTyped, Request
  <2> DEFINE A == [name : Path, content : STRING]
  <2>2. r.parts \in Seq(A)
    BY <2>1
  <2> HIDE DEF A
  <2>3. Len(r.parts) \in Nat /\ DOMAIN r.parts = 1..Len(r.parts)
    BY <2>2, LenProperties
  <2> QED
    BY <2>3
<1>4. \/ \E a : Build(r, d, now) = Outcome(a, d)
      \/ Build(r, d, now) = Route(r, d, site[k], now)
  BY DEF Build
<1> HIDE DEF k
<1>5. Named(Dispatch(r, d, site[k], now).disk) /\ Keeps(d, Dispatch(r, d, site[k], now).disk)
  BY <1>3, DispatchKeeps
<1>6. Route(r, d, site[k], now).disk \in {d, Dispatch(r, d, site[k], now).disk}
  BY <1>1, RouteIsAnswered
<1> QED
  BY <1>1, <1>2, <1>4, <1>5, <1>6

\* The disk as it is between two requests.
DiskKept == Named(disk) /\ \E d \in Disks : Keeps(d, disk)

LEMMA DiskAlwaysKept ==
    ASSUME InputsTyped
    PROVE  Spec => []DiskKept
<1>1. Init => DiskKept
  BY DEF Init, DiskKept, Named, Keeps, InputsTyped
<1>2. ASSUME DiskKept, [Next]_vars PROVE DiskKept'
  <2>1. ASSUME NEW r \in Requests, Serve(r) PROVE DiskKept'
    <3>1. disk' = Build(r, disk, clock).disk
      BY <2>1 DEF Serve
    <3>2. PICK d \in Disks : Named(disk) /\ Keeps(d, disk)
      BY <1>2 DEF DiskKept
    <3>3. Named(disk') /\ Keeps(disk, disk')
      BY <3>1, <3>2, BuildKeeps
    <3>4. Keeps(d, disk')
      BY <3>2, <3>3 DEF Keeps
    <3> QED
      BY <3>3, <3>4 DEF DiskKept
  <2>2. ASSUME UNCHANGED disk PROVE DiskKept'
    BY <1>2, <2>2 DEF DiskKept
  <2> QED
    BY <1>2, <2>1, <2>2 DEF Next, ScriptAnswers, Tick, vars
<1> QED
  BY <1>1, <1>2, PTL DEF Spec

-----------------------------------------------------------------------------
(* Deletions.                                                              *)

\* A code is answered by an error, by a redirection or by a handler.
LEMMA CodeOf ==
    ASSUME NEW c
    PROVE  /\ ErrorReply(c).code = c /\ ErrorReply(c).script = NoScript
           /\ Page.code = 200 /\ Page.script = NoScript
           /\ \A loc : NotAllowed(loc).code = 405 /\ NotAllowed(loc).script = NoScript
<1>1. ErrorReply(c).code = c /\ ErrorReply(c).script = NoScript
  BY DEF ErrorReply, Answer
<1>2. Page.code = 200 /\ Page.script = NoScript
  BY DEF Page, Answer
<1>3. ASSUME NEW loc
      PROVE  NotAllowed(loc).code = 405 /\ NotAllowed(loc).script = NoScript
  BY DEF NotAllowed, ErrorReply, Answer
<1> QED
  BY <1>1, <1>2, <1>3

LEMMA RedirectIsNot200 ==
    ASSUME NEW c, NEW q, c # 200
    PROVE  Redirect(c, q).script = NoScript /\ Redirect(c, q).code # 200
<1>1. PICK d : d = IF c = 0 THEN 301 ELSE c
  OBVIOUS
<1>2. Redirect(c, q) = [Answer(d, Empty) EXCEPT !.location = q]
  BY <1>1, Zenon DEF Redirect
<1>3. Redirect(c, q).code = d /\ Redirect(c, q).script = NoScript
  BY <1>2 DEF Answer
<1>4. d # 200
  BY <1>1
<1> QED
  BY <1>3, <1>4

LEMMA ErrorIsNot200 ==
    ASSUME InputsTyped, NEW r \in Requests
    PROVE  r.error # 200
<1> DEFINE A == STRING
           C == {0} \cup 400..599
           D == {"raw", "form", "form without boundary"}
           E == Seq([name : Path, content : STRING])
<1>1. r \in [method : A, path : Path, error : C, type : D, parts : E, content : A]
  BY DEF InputsTyped, Request
<1>2. 200 \notin C
  OBVIOUS
<1> HIDE DEF A, C, D, E
<1> QED
  BY <1>1, <1>2

\* What DELETE does: it runs no script, and a 200 says that the file the path
\* stands for is not on disk any more.
LEMMA DeleteRemoves ==
    ASSUME InputsTyped, RedirectsElsewhere, Handed,
           NEW r \in Requests, r.method = "DELETE", NEW d, Named(d), NEW now
    PROVE  /\ Build(r, d, now).reply.script = NoScript
           /\ Build(r, d, now).reply.code = 200 =>
                 /\ ~EndsInSlash(Target(r.path))
                 /\ Target(r.path) \notin DOMAIN Build(r, d, now).disk
<1> DEFINE k == MatchLocation(r.path, site)
           loc == site[k]
           p == FullPath(r.path, loc)
           o == Build(r, d, now)
           Good == /\ o.reply.script = NoScript
                   /\ o.reply.code = 200 =>
                         ~EndsInSlash(Target(r.path)) /\ Target(r.path) \notin DOMAIN o.disk
<1>1. \A a, e : Outcome(a, e).reply = a /\ Outcome(a, e).disk = e
  BY DEF Outcome
<1> SUFFICES Good
  OBVIOUS
<1>2. ASSUME NEW a, o.reply = a, a.script = NoScript, a.code # 200 PROVE Good
  BY <1>2
<1>3. ASSUME r.error # 0 PROVE Good
  <2>1. o.reply = ErrorReply(r.error)
    BY <1>1, <1>3 DEF Build
  <2> QED
    BY <2>1, <1>2, CodeOf, ErrorIsNot200
<1>4. ASSUME r.error = 0, k = 0 PROVE Good
  <2>1. o.reply = ErrorReply(404)
    BY <1>1, <1>4 DEF Build
  <2> QED
    BY <2>1, <1>2, CodeOf
<1>5. ASSUME r.error = 0, k # 0 PROVE Good
  <2>1. o = Route(r, d, loc, now)
    BY <1>5, Zenon DEF Build
  <2>2. Target(r.path) = p
    BY <1>5 DEF Target
  <2>3. k \in DOMAIN site
    BY <1>5, MatchIsLocation
  <2>4. loc.redirectCode # 200
    BY <2>3 DEF RedirectsElsewhere, Handed
  <2> HIDE DEF loc, k, p
  <2>5. ASSUME o = Outcome(Redirect(loc.redirectCode, loc.redirect), d) PROVE Good
    BY <1>1, <1>2, <2>4, <2>5, RedirectIsNot200
  <2>6. ASSUME o = Outcome(ErrorReply(501), d) PROVE Good
    BY <1>1, <1>2, <2>6, CodeOf
  <2>7. ASSUME o = Outcome(NotAllowed(loc), d) PROVE Good
    BY <1>1, <1>2, <2>7, CodeOf
  <2>8. ASSUME o.reply = Dispatch(r, d, loc, now).reply,
               o.disk = Dispatch(r, d, loc, now).disk
        PROVE  Good
    <3>1. Dispatch(r, d, loc, now) = HandleDELETE(r, d, loc)
      BY DEF Dispatch
    <3>2. \/ \E c : c # 200 /\ HandleDELETE(r, d, loc) = Outcome(ErrorReply(c), d)
          \/ /\ FileExists(d, p) /\ ~IsDirectory(d, p)
             /\ HandleDELETE(r, d, loc) = Outcome(Page, WithoutFile(d, p))
      BY DEF HandleDELETE, Protected, p
    <3>3. ASSUME NEW c, c # 200, HandleDELETE(r, d, loc) = Outcome(ErrorReply(c), d) PROVE Good
      BY <1>1, <1>2, <2>8, <3>1, <3>3, CodeOf
    <3>4. ASSUME FileExists(d, p), ~IsDirectory(d, p),
                 HandleDELETE(r, d, loc) = Outcome(Page, WithoutFile(d, p))
          PROVE  Good
      <4>1. p \in DOMAIN d /\ ~EndsInSlash(p) /\ Bare(p) = p
        BY <3>4 DEF FileExists, Named, Bare
      <4>2. p \notin DOMAIN WithoutFile(d, p)
        BY <4>1 DEF WithoutFile
      <4>3. o.disk = WithoutFile(d, p) /\ o.reply.script = NoScript
        BY <1>1, <2>8, <3>1, <3>4, CodeOf
      <4> QED
        BY <2>2, <4>1, <4>2, <4>3
    <3> QED
      BY <3>2, <3>3, <3>4
  <2> HIDE DEF o, Good
  <2> QED
    BY <1>1, <2>1, <2>5, <2>6, <2>7, <2>8, RouteIsAnswered DEF Methods
<1> QED
  BY <1>3, <1>4, <1>5

\* What the theorem needs of the steps: the reply to a DELETE is final, and once
\* it is a 200 the file is not on disk.
Removed ==
    req.method = "DELETE" =>
        /\ reply.script = NoScript
        /\ reply.code = 200 => /\ ~EndsInSlash(Target(req.path))
                               /\ Target(req.path) \notin DOMAIN disk

LEMMA RemovedAlways ==
    ASSUME InputsTyped, RedirectsElsewhere
    PROVE  Spec => []Removed
<1>1. Init => Removed
  <2>1. NoRequest.method # "DELETE"
    BY DEF NoRequest
  <2> QED
    BY <2>1 DEF Init, Removed
<1>2. ASSUME Handed, DiskKept, Removed, [Next]_vars PROVE Removed'
  <2>1. ASSUME NEW r \in Requests, Serve(r) PROVE Removed'
    <3>1. /\ req' = r /\ site' = site
          /\ reply' = Build(r, disk, clock).reply /\ disk' = Build(r, disk, clock).disk
      BY <2>1 DEF Serve
    <3>2. \A path : Target(path)' = Target(path)
      BY <3>1 DEF Target
    <3>3. Named(disk)
      BY <1>2 DEF DiskKept
    <3> QED
      BY <1>2, <3>1, <3>2, <3>3, DeleteRemoves DEF Removed
  <2>2. ASSUME NEW out \in Outputs, ScriptAnswers(out) PROVE Removed'
    BY <1>2, <2>2 DEF ScriptAnswers, Removed
  <2>3. ASSUME UNCHANGED <<site, disk, req, reply>> PROVE Removed'
    BY <1>2, <2>3 DEF Removed, Target
  <2> QED
    BY <1>2, <2>1, <2>2, <2>3 DEF Next, Tick, vars
<1> QED
  BY <1>1, <1>2, HandedAlways, DiskAlwaysKept, PTL DEF Spec

\* GET of a path that stands for nothing on disk is not answered 200.
LEMMA GetOfNothing ==
    ASSUME InputsTyped, RedirectsElsewhere, Handed, NEW r \in Requests, r.method = "GET",
           ~EndsInSlash(Target(r.path)), Target(r.path) \notin DOMAIN disk
    PROVE  Again(r).code # 200
<1> DEFINE k == MatchLocation(r.path, site)
           loc == site[k]
           p == FullPath(r.path, loc)
<1>1. \A a, e : Outcome(a, e).reply = a
  BY DEF Outcome
<1>2. ASSUME r.error # 0 PROVE Again(r).code # 200
  <2>1. Again(r) = ErrorReply(r.error)
    BY <1>1, <1>2 DEF Again, Build
  <2> QED
    BY <2>1, CodeOf, ErrorIsNot200
<1>3. ASSUME r.error = 0, k = 0 PROVE Again(r).code # 200
  <2>1. Again(r) = ErrorReply(404)
    BY <1>1, <1>3 DEF Again, Build
  <2> QED
    BY <2>1, CodeOf
<1>4. ASSUME r.error = 0, k # 0 PROVE Again(r).code # 200
  <2>1. Build(r, disk, clock) = Route(r, disk, loc, clock)
    BY <1>4, Zenon DEF Build
  <2>2. Again(r) = Route(r, disk, loc, clock).reply
    BY <2>1, Zenon DEF Again
  <2>3. Target(r.path) = p
    BY <1>4 DEF Target
  <2>4. loc.redirectCode # 200
    BY <1>4, MatchIsLocation DEF RedirectsElsewhere, Handed
  <2>5. HandleGET(r, disk, loc) = ErrorReply(404)
    <3>1. ~IsDirectory(disk, p) /\ ~FileExists(disk, p)
      BY <2>3 DEF IsDirectory, FileExists, Bare
    <3> HIDE DEF loc
    <3> QED
      BY <3>1, Zenon DEF HandleGET
  <2>6. Dispatch(r, disk, loc, clock).reply = ErrorReply(404)
    BY <1>1, <2>5 DEF Dispatch
  <2> HIDE DEF loc, k, p
  <2>7. \/ Again(r) = Redirect(loc.redirectCode, loc.redirect)
        \/ Again(r) = ErrorReply(501)
        \/ Again(r) = NotAllowed(loc)
        \/ Again(r) = ErrorReply(404)
    BY <1>1, <2>2, <2>6, RouteIsAnswered
  <2> QED
    BY <2>4, <2>7, CodeOf, RedirectIsNot200
<1> QED
  BY <1>2, <1>3, <1>4

\* A file whose deletion was reported is gone under every path that led to it,
\* and the directories the server began with are there whatever was uploaded or
\* deleted: for every configuration (locations may share a root, or lie in each
\* other), disk and history of requests (Response.cpp:428-462, _handleDELETE).
\* RedirectsElsewhere leaves out "return 200", which answers 200 to anything.
THEOREM DeletedIsGone ==
    ASSUME InputsTyped, RedirectsElsewhere
    PROVE  Spec => []GoneAfterDelete
<1>1. Handed /\ DiskKept /\ Removed => GoneAfterDelete
  <2> SUFFICES ASSUME Handed, DiskKept, Removed PROVE GoneAfterDelete
    OBVIOUS
  <2>1. ASSUME req.method = "DELETE", reply.code = 200,
               NEW r \in Requests, r.method = "GET", Target(r.path) = Target(req.path)
        PROVE  Again(r).code # 200
    BY <2>1, GetOfNothing DEF Removed
  <2>2. \E d \in Disks :
           \A p \in DOMAIN d : d[p] = Dir => p \in DOMAIN disk /\ disk[p] = Dir
    BY DEF DiskKept, Keeps
  <2> QED
    BY <2>1, <2>2 DEF GoneAfterDelete
<1> QED
  BY <1>1, HandedAlways, DiskAlwaysKept, RemovedAlways, PTL

-----------------------------------------------------------------------------
(* Uploads.                                                                *)

\* A path has one rest below a directory.
LEMMA RestIsOne ==
    ASSUME NEW T, NEW dir \in Seq(T), NEW a \in Seq(T), NEW b \in Seq(T), dir \o a = dir \o b
    PROVE  a = b
<1>1. Len(dir \o a) = Len(dir) + Len(a) /\ Len(dir \o b) = Len(dir) + Len(b)
  BY ConcatProperties
<1>2. Len(a) \in Nat /\ Len(b) \in Nat /\ Len(dir) \in Nat
  BY LenProperties
<1>3. Len(a) = Len(b)
  BY <1>1, <1>2
<1>4. ASSUME NEW i \in 1..Len(a) PROVE a[i] = b[i]
  <2>1. /\ Len(dir) + i \in 1..(Len(dir) + Len(a)) /\ ~(Len(dir) + i <= Len(dir))
        /\ (Len(dir) + i) - Len(dir) = i
    BY <1>2
  <2>2. (dir \o a)[Len(dir) + i] = a[i] /\ (dir \o b)[Len(dir) + i] = b[i]
    BY <1>3, <2>1, ConcatProperties
  <2> QED
    BY <2>2
<1> QED
  BY <1>3, <1>4, SeqEqual

\* What a write leaves on the disk.
LEMMA WriteHolds ==
    ASSUME NEW d, NEW p, NEW c
    PROVE  /\ HasFile(Write(d, p, c), p, c)
           /\ \A q, e : q # p /\ HasFile(d, q, e) => HasFile(Write(d, p, c), q, e)
  BY DEF HasFile, Write, Contents

AllWritten(n, parts, dir, d) ==
    \A i \in 1..n : parts[i].name # <<>> =>
       \E j \in i..n :
          /\ parts[j].name = parts[i].name
          /\ HasFile(d, dir \o parts[j].name, parts[j].content)
          /\ \A l \in (j + 1)..n : parts[l].name # parts[i].name

\* When no part has failed, every file the parts name is on disk with the content
\* of the last part of that name.
LEMMA StoreWrites ==
    ASSUME NEW n \in Nat, NEW parts, DOMAIN parts = 1..n, NEW dir, NEW d,
           \A i, j \in 1..n : dir \o parts[i].name = dir \o parts[j].name =>
                                 parts[i].name = parts[j].name,
           Store(dir, d, parts).failed # TRUE
    PROVE  AllWritten(n, parts, dir, Store(dir, d, parts).disk)
<1> PICK s : IsStoring(s, n, parts, dir, d)
  BY StoreLoop
<1>1. /\ \A k \in 1..n : Turn(dir, s[k - 1], s[k], parts[k])
      /\ Store(dir, d, parts) = s[n]
  BY DEF IsStoring
<1> DEFINE name(k) == parts[k].name
           file(k) == dir \o name(k)
           content(k) == parts[k].content
           empty == <<>>
           Written(k, i) ==
              \E j \in i..k : /\ name(j) = name(i)
                              /\ HasFile(s[k].disk, file(j), content(j))
                              /\ \A l \in (j + 1)..k : name(l) # name(i)
           Claim(k) == s[k].failed # TRUE =>
                          \A i \in 1..k : name(i) # empty => Written(k, i)
           S == {k \in 0..n : Claim(k)}
<1>2. \A i, j \in 1..n : file(i) = file(j) => name(i) = name(j)
  OBVIOUS
<1>3. 0 \in S
  <2>1. 1..0 = {} /\ 0 \in 0..n
    OBVIOUS
  <2> HIDE DEF Written, name, empty
  <2> QED
    BY <2>1
<1>4. ASSUME NEW k \in 1..n, s[k].failed # TRUE
      PROVE  \/ name(k) = empty /\ s[k].disk = s[k - 1].disk /\ s[k - 1].failed # TRUE
             \/ /\ name(k) # empty /\ s[k - 1].failed # TRUE
                /\ s[k].disk = Write(s[k - 1].disk, file(k), content(k))
  BY <1>1, <1>4 DEF Turn
<1>5. ASSUME NEW k \in 1..n, k - 1 \in S, s[k].failed # TRUE,
             NEW i \in 1..k, name(i) # empty
      PROVE  Written(k, i)
  <2>1. /\ i \in 1..(k - 1) \/ i = k
        /\ \A j \in i..(k - 1) : j \in i..k /\ j \in 1..n
        /\ \A j \in i..(k - 1) : \A l \in (j + 1)..k : l \in (j + 1)..(k - 1) \/ l = k
        /\ k \in i..k /\ (k + 1)..k = {}
    OBVIOUS
  <2>2. i \in 1..(k - 1) => Written(k - 1, i)
    BY <1>4, <1>5
  <2> HIDE DEF name, file, content, empty, S
  <2>3. ASSUME name(k) = empty, s[k].disk = s[k - 1].disk
        PROVE  Written(k, i)
    <3>1. i \in 1..(k - 1)
      BY <1>5, <2>1, <2>3
    <3>2. PICK j \in i..(k - 1) : /\ name(j) = name(i)
                                  /\ HasFile(s[k - 1].disk, file(j), content(j))
                                  /\ \A l \in (j + 1)..(k - 1) : name(l) # name(i)
      BY <2>2, <3>1
    <3>3. \A l \in (j + 1)..k : name(l) # name(i)
      BY <1>5, <2>1, <2>3, <3>2
    <3> QED
      BY <2>1, <2>3, <3>2, <3>3
  <2>4. ASSUME s[k].disk = Write(s[k - 1].disk, file(k), content(k)) PROVE Written(k, i)
    <3>1. /\ HasFile(s[k].disk, file(k), content(k))
          /\ \A q, c : q # file(k) /\ HasFile(s[k - 1].disk, q, c) => HasFile(s[k].disk, q, c)
      BY <2>4, WriteHolds
    <3>2. ASSUME name(i) = name(k) PROVE Written(k, i)
      BY <2>1, <3>1, <3>2
    <3>3. ASSUME name(i) # name(k) PROVE Written(k, i)
      <4>1. i \in 1..(k - 1)
        BY <2>1, <3>3
      <4>2. PICK j \in i..(k - 1) : /\ name(j) = name(i)
                                    /\ HasFile(s[k - 1].disk, file(j), content(j))
                                    /\ \A l \in (j + 1)..(k - 1) : name(l) # name(i)
        BY <2>2, <4>1
      <4>3. file(j) # file(k)
        BY <1>2, <2>1, <3>3, <4>2
      <4>4. \A l \in (j + 1)..k : name(l) # name(i)
        BY <2>1, <3>3, <4>2
      <4> QED
        BY <2>1, <3>1, <4>2, <4>3, <4>4
    <3> QED
      BY <3>2, <3>3
  <2> QED
    BY <1>4, <1>5, <2>3, <2>4
<1>6. \A k \in 1..n : k - 1 \in S => k \in S
  <2> HIDE DEF name, file, content, empty, Written
  <2> SUFFICES ASSUME NEW k \in 1..n, k - 1 \in S PROVE k \in S
    OBVIOUS
  <2>1. Claim(k)
    BY <1>5
  <2>2. k \in 0..n
    OBVIOUS
  <2> HIDE DEF Claim
  <2> QED
    BY <2>1, <2>2
<1>7. Claim(n)
  <2> HIDE DEF Claim
  <2>1. \A k \in 0..n : k \in S
    <3> HIDE DEF S
    <3> QED
      BY <1>3, <1>6, Induction
  <2>2. n \in 0..n
    OBVIOUS
  <2> QED
    BY <2>1, <2>2
<1> QED
  BY <1>1, <1>7 DEF AllWritten

\* Only an upload that was kept is answered with the page of a 201.
LEMMA GetCreatesNothing ==
    ASSUME NEW r, NEW d, NEW loc
    PROVE  HandleGET(r, d, loc).code # 201
<1>1. ASSUME NEW c, NEW e, c # 201 PROVE Answer(c, e).code # 201
  BY <1>1 DEF Answer
<1>2. ASSUME NEW c, c # 201 PROVE ErrorReply(c).code # 201
  BY <1>1, <1>2 DEF ErrorReply
<1>3. ASSUME NEW q PROVE RunScript(q).code # 201
  BY DEF RunScript, Answer
<1>4. ASSUME NEW q PROVE Redirect(301, q).code # 201
  BY DEF Redirect, Answer
<1>5. ASSUME NEW q PROVE Listing(q).code # 201
  BY <1>1 DEF Listing
<1>6. ASSUME NEW q PROVE ServeFile(d, q, loc).code # 201
  BY <1>1, <1>3 DEF ServeFile
<1>7. ServeDirectory(r, d, loc).code # 201
  BY <1>2, <1>5, <1>6 DEF ServeDirectory
<1> QED
  BY <1>2, <1>4, <1>6, <1>7 DEF HandleGET, FileExists, NeedsSlash

\* The replies whose entity is another page.
LEMMA OtherPages ==
    /\ \A c : ErrorReply(c) # Created
    /\ \A c, q : Redirect(c, q) # Created
    /\ \A loc : NotAllowed(loc) # Created
    /\ \A q : RunScript(q) # Created
    /\ Page # Created
    /\ \A out : CgiResponse(out) # Created
<1>1. Created.code = 201 /\ Created.entity = <<"page">>
  BY DEF Created, Answer
<1>2. ASSUME NEW c PROVE ErrorReply(c) # Created
  <2>1. ErrorReply(c).entity = <<"error", c>> /\ <<"error", c>> # <<"page">>
    BY ErrorsHaveBodies
  <2> QED
    BY <1>1, <2>1
<1>3. ASSUME NEW c, NEW q PROVE Redirect(c, q) # Created
  <2>1. PICK d : d = IF c = 0 THEN 301 ELSE c
    OBVIOUS
  <2>2. Redirect(c, q) = [Answer(d, Empty) EXCEPT !.location = q]
    BY <2>1, Zenon DEF Redirect
  <2>3. Redirect(c, q).entity = Empty
    BY <2>2 DEF Answer
  <2> QED
    BY <1>1, <2>3 DEF Empty
<1>4. ASSUME NEW loc PROVE NotAllowed(loc) # Created
  <2>1. NotAllowed(loc).code = 405
    BY CodeOf
  <2> QED
    BY <1>1, <2>1
<1>5. ASSUME NEW q PROVE RunScript(q) # Created
  <2>1. RunScript(q).code = 0
    BY DEF RunScript, Answer
  <2> QED
    BY <1>1, <2>1
<1>6. Page # Created
  BY <1>1, CodeOf
<1>7. ASSUME NEW out PROVE CgiResponse(out) # Created
  <2>1. \A c : Answer(c, <<"output">>).entity = <<"output">>
    BY DEF Answer
  <2>2. \/ CgiResponse(out) = ErrorReply(500)
        \/ \E c : CgiResponse(out) = Answer(c, <<"output">>)
    BY DEF CgiResponse
  <2>3. <<"output">> # <<"page">>
    OBVIOUS
  <2> QED
    BY <1>1, <1>2, <2>1, <2>2, <2>3
<1> QED
  BY <1>2, <1>3, <1>4, <1>5, <1>6, <1>7

\* Where a 201 comes from.
LEMMA CreatedByUpload ==
    ASSUME InputsTyped, Handed, NEW r \in Requests, NEW d, NEW now,
           Build(r, d, now).reply = Created
    PROVE  LET k == MatchLocation(r.path, site)
           IN  /\ k \in DOMAIN site
               /\ \/ r.type = "raw" /\ Build(r, d, now) = UploadRaw(r, d, site[k], now)
                  \/ r.type # "raw" /\ Build(r, d, now) = UploadForm(r, d, site[k])
<1> DEFINE k == MatchLocation(r.path, site)
           loc == site[k]
           o == Build(r, d, now)
<1>1. \A a, e : Outcome(a, e).reply = a
  BY DEF Outcome
<1>2. r.error = 0 /\ k # 0
  BY <1>1, OtherPages DEF Build
<1>3. o = Route(r, d, loc, now)
  BY <1>2, Zenon DEF Build
<1>4. k \in DOMAIN site
  BY <1>2, MatchIsLocation
<1> HIDE DEF k, loc
<1>5. /\ loc.redirect = <<>> /\ r.method \in Methods /\ IsMethodAllowed(r.method, loc)
  BY <1>1, <1>3, OtherPages, RouteIsAnswered
<1>6. r.method \notin {"GET", "HEAD"}
  <2> SUFFICES ASSUME r.method \in {"GET", "HEAD"} PROVE FALSE
    OBVIOUS
  <2> DEFINE a == HandleGET(r, d, loc)
  <2>1. Dispatch(r, d, loc, now).reply = a
    BY <1>1 DEF Dispatch
  <2>2. Handled(a) /\ a.code # 201
    BY GetHandled, GetCreatesNothing
  <2> HIDE DEF a
  <2>3. o.reply = a \/ o.reply = WithoutBody(a)
    BY <1>3, <1>5, <2>1, RouteHandled
  <2>4. WithoutBody(a).code = a.code
    <3>1. PICK b : b = FALSE
      OBVIOUS
    <3>2. WithoutBody(a) = ReplyOf(a.code, a.entity, b, a.allow, a.location, a.script)
      BY <2>2, <3>1, BodyTakenAway, Zenon DEF Handled
    <3> QED
      BY <3>2, ReplyFields
  <2>5. Created.code = 201
    BY DEF Created, Answer
  <2> QED
    BY <2>2, <2>3, <2>4, <2>5
<1>7. o = Dispatch(r, d, loc, now)
  BY <1>3, <1>5, <1>6, Zenon DEF Route, Stripped
<1>8. r.method # "DELETE"
  <2>1. r.method = "DELETE" => Dispatch(r, d, loc, now) = HandleDELETE(r, d, loc)
    BY DEF Dispatch
  <2>2. HandleDELETE(r, d, loc).reply # Created
    BY <1>1, OtherPages DEF HandleDELETE
  <2> QED
    BY <1>7, <2>1, <2>2
<1>9. r.method = "POST"
  <2>1. r.method \in {"GET", "HEAD", "POST", "DELETE"} \/
        Dispatch(r, d, loc, now) = Outcome(ErrorReply(501), d)
    BY Zenon DEF Dispatch
  <2> QED
    BY <1>1, <1>6, <1>7, <1>8, <2>1, OtherPages
<1>10. o = HandlePOST(r, d, loc, now)
  BY <1>7, <1>9 DEF Dispatch
<1>11. \/ r.type = "raw" /\ o = UploadRaw(r, d, loc, now)
       \/ r.type # "raw" /\ o = UploadForm(r, d, loc)
  BY <1>1, <1>10, OtherPages DEF HandlePOST
<1> QED
  BY <1>4, <1>11 DEF k, loc

\* The names of a form lead to one file each.
LEMMA FormNames ==
    ASSUME InputsTyped, Handed, NEW r \in Requests, NEW k \in DOMAIN site
    PROVE  /\ Len(r.parts) \in Nat /\ DOMAIN r.parts = 1..Len(r.parts)
           /\ \A i, j \in DOMAIN r.parts :
                 Slashed(site[k].uploadDir) \o r.parts[i].name =
                 Slashed(site[k].uploadDir) \o r.parts[j].name =>
                    r.parts[i].name = r.parts[j].name
<1> DEFINE T == STRING \cup {"/"}
           A == [name : Path, content : STRING]
           dir == Slashed(site[k].uploadDir)
<1>1. r.parts \in Seq(A)
  BY DEF InputsTyped, Request
<1>2. \A x \in A : x.name \in Seq(T)
  <2>1. \A x \in A : x.name \in Seq(STRING)
    BY DEF Path
  <2>2. Seq(STRING) \subseteq Seq(T)
    OBVIOUS
  <2> QED
    BY <2>1, <2>2
<1>3. dir \in Seq(T)
  <2>1. site[k].uploadDir \in Seq(STRING)
    <3>1. site[k] \in LocationConfig
      BY SiteIsList
    <3> QED
      BY <3>1 DEF LocationConfig, Path
  <2>2. site[k].uploadDir \in Seq(T) /\ "/" \in T
    BY <2>1
  <2> DEFINE u == site[k].uploadDir
  <2>3. Append(u, "/") \in Seq(T)
    <3> HIDE DEF u, T
    <3> QED
      BY <2>2 DEF u
  <2>4. Slashed(u) = u \/ Slashed(u) = Append(u, "/")
    BY DEF Slashed
  <2> QED
    BY <2>2, <2>3, <2>4
<1> HIDE DEF A, T, dir
<1>4. Len(r.parts) \in Nat /\ DOMAIN r.parts = 1..Len(r.parts)
  BY <1>1, LenProperties
<1>5. \A i \in DOMAIN r.parts : r.parts[i].name \in Seq(T)
  BY <1>1, <1>2, <1>4
<1> QED
  BY <1>3, <1>4, <1>5, RestIsOne DEF dir

\* A 201 tells the truth: every file that the form names is on disk, with the
\* content of the last part of that name, or the body of a raw upload under a
\* second that has been, for every form, disk and configuration, and until the
\* next request (Response.cpp:311-426, _handlePOST and the two uploads).
THEOREM CreatedIsStored ==
    ASSUME InputsTyped
    PROVE  Spec => []Stored
<1> DEFINE Inv == clock \in Nat /\ Stored
<1>1. Init => Inv
  <2>1. ASSUME Init PROVE reply # Created
    <3>1. Answer(0, Empty).code = 0 /\ Created.code = 201
      BY DEF Created, Answer
    <3> QED
      BY <2>1, <3>1 DEF Init
  <2> QED
    BY <2>1 DEF Init, Stored
<1>2. ASSUME Handed, clock \in Nat, Stored, [Next]_vars PROVE Inv'
  <2>1. ASSUME NEW r \in Requests, Serve(r) PROVE clock' \in Nat /\ Stored'
    <3> DEFINE k == MatchLocation(r.path, site)
               loc == site[k]
               dir == Slashed(loc.uploadDir)
               o == Build(r, disk, clock)
    <3>1. /\ reply' = o.reply /\ disk' = o.disk /\ req' = r
          /\ site' = site /\ clock' = clock
      BY <2>1 DEF Serve
    <3>2. ASSUME o.reply = Created
          PROVE  /\ k \in DOMAIN site
                 /\ \/ r.type = "raw" /\ o = UploadRaw(r, disk, loc, clock)
                    \/ r.type # "raw" /\ o = UploadForm(r, disk, loc)
      BY <1>2, <3>2, CreatedByUpload
    <3>3. \A a, e : Outcome(a, e).reply = a /\ Outcome(a, e).disk = e
      BY DEF Outcome
    <3>4. ASSUME o.reply = Created, r.type = "raw"
          PROVE  \E t \in 0..clock :
                    HasFile(disk', dir \o <<"upload_", ToString(t)>>, r.content)
      <4> DEFINE p == dir \o <<"upload_", ToString(clock)>>
      <4>1. o = UploadRaw(r, disk, loc, clock)
        BY <3>2, <3>4
      <4>2. o = Outcome(Created, Write(disk, p, r.content)) \/ o.reply = ErrorReply(500)
        BY <3>3, <4>1 DEF UploadRaw
      <4>3. disk' = Write(disk, p, r.content)
        BY <3>1, <3>3, <3>4, <4>2, OtherPages
      <4>4. HasFile(disk', p, r.content)
        <5> HIDE DEF p
        <5> QED
          BY <4>3, WriteHolds
      <4> QED
        BY <1>2, <4>4
    <3>5. ASSUME o.reply = Created, r.type # "raw"
          PROVE  \A i \in DOMAIN r.parts : r.parts[i].name # <<>> =>
                    \E j \in i..Len(r.parts) :
                       /\ r.parts[j].name = r.parts[i].name
                       /\ HasFile(disk', dir \o r.parts[j].name, r.parts[j].content)
                       /\ \A l \in (j + 1)..Len(r.parts) :
                             r.parts[l].name # r.parts[i].name
      <4> DEFINE s == Store(dir, disk, r.parts)
                 n == Len(r.parts)
                 parts == r.parts
      <4>1. k \in DOMAIN site /\ o = UploadForm(r, disk, loc)
        BY <3>2, <3>5
      <4>2. \/ o.reply = ErrorReply(400)
            \/ o.reply = ErrorReply(500)
            \/ s.failed # TRUE /\ o.disk = s.disk
        <5>1. o = IF r.type = "form without boundary" THEN Outcome(ErrorReply(400), disk)
                  ELSE Outcome(IF s.failed THEN ErrorReply(500) ELSE Created, s.disk)
          BY <4>1, Zenon DEF UploadForm
        <5> HIDE DEF s
        <5>2. \/ o = Outcome(ErrorReply(400), disk)
              \/ o = Outcome(ErrorReply(500), s.disk)
              \/ ~s.failed /\ o = Outcome(Created, s.disk)
          BY <5>1, Zenon
        <5>3. ~s.failed => s.failed # TRUE
          BY Zenon
        <5> HIDE DEF o
        <5>4. ASSUME NEW a, NEW e, o = Outcome(a, e) PROVE o.reply = a /\ o.disk = e
          BY <3>3, <5>4
        <5>5. o = Outcome(ErrorReply(400), disk) => o.reply = ErrorReply(400)
          BY <5>4, Zenon
        <5>6. o = Outcome(ErrorReply(500), s.disk) => o.reply = ErrorReply(500)
          BY <5>4, Zenon
        <5>7. o = Outcome(Created, s.disk) => o.disk = s.disk
          BY <5>4, Zenon
        <5> QED
          BY <5>2, <5>3, <5>5, <5>6, <5>7, Zenon
      <4>3. s.failed # TRUE /\ disk' = s.disk
        BY <3>1, <3>5, <4>2, OtherPages
      <4>4. /\ n \in Nat /\ DOMAIN parts = 1..n
            /\ \A i, j \in 1..n : dir \o parts[i].name = dir \o parts[j].name =>
                                     parts[i].name = parts[j].name
        BY <1>2, <4>1, FormNames, ZenonT(30)
      <4>5. Store(dir, disk, parts).failed # TRUE /\ disk' = Store(dir, disk, parts).disk
        BY <4>3
      <4> HIDE DEF s, dir, n, parts
      <4>6. AllWritten(n, parts, dir, disk')
        BY <4>4, <4>5, StoreWrites
      <4> QED
        BY <4>4, <4>6 DEF parts, n, AllWritten
    <3> HIDE DEF o
    <3> QED
      BY <1>2, <3>1, <3>4, <3>5 DEF Stored
  <2>2. ASSUME NEW out \in Outputs, ScriptAnswers(out) PROVE clock' \in Nat /\ Stored'
    BY <1>2, <2>2, OtherPages DEF ScriptAnswers, Stored
  <2>3. ASSUME Tick PROVE clock' \in Nat /\ Stored'
    <3>1. clock' = clock + 1 /\ site' = site /\ disk' = disk /\ req' = req /\ reply' = reply
      BY <2>3 DEF Tick
    <3>2. clock' \in Nat /\ \A t \in 0..clock : t \in 0..clock'
      BY <1>2, <3>1
    <3> QED
      BY <1>2, <3>1, <3>2 DEF Stored
  <2>4. ASSUME UNCHANGED vars PROVE clock' \in Nat /\ Stored'
    BY <1>2, <2>4 DEF vars, Stored
  <2> QED
    BY <1>2, <2>1, <2>2, <2>3, <2>4 DEF Next
<1>3. Handed /\ Inv /\ [Next]_vars => Inv'
  BY <1>2
<1>4. Inv => Stored
  OBVIOUS
<1> HIDE DEF Inv
<1> QED
  BY <1>1, <1>3, <1>4, HandedAlways, PTL DEF Spec

-----------------------------------------------------------------------------
(* Redirections.                                                           *)

\* A reply that sends the client elsewhere is that of a location that has
\* moved, or that of a directory to a path without its slash.
RedirectIsOfRequest ==
    reply.location # <<>> =>
        LET k == MatchLocation(req.path, site)
        IN  /\ req \in Requests /\ req.error = 0
            /\ k \in DOMAIN site
            /\ \/ site[k].redirect # <<>> /\ reply.location = site[k].redirect
               \/ site[k].redirect = <<>> /\ ~EndsInSlash(req.path)

LEMMA PlainReplies ==
    /\ \A c : ErrorReply(c).location = <<>>
    /\ \A q : RunScript(q).location = <<>> /\ Listing(q).location = <<>>
    /\ Page.location = <<>> /\ Created.location = <<>>
    /\ \A c, e : Answer(c, e).location = <<>>
BY DEF ErrorReply, RunScript, Listing, Page, Created, Answer

LEMMA GetLocates ==
    ASSUME NEW r, NEW d, NEW loc, EndsInSlash(r.path)
    PROVE  HandleGET(r, d, loc).location = <<>>
<1>1. ASSUME NEW q PROVE ServeFile(d, q, loc).location = <<>>
  BY PlainReplies DEF ServeFile
<1>2. ServeDirectory(r, d, loc).location = <<>>
  BY <1>1, PlainReplies DEF ServeDirectory
<1> QED
  BY <1>1, <1>2, PlainReplies DEF HandleGET, NeedsSlash, FileExists

LEMMA OthersLocate ==
    ASSUME NEW r, NEW d, NEW loc, NEW now
    PROVE  /\ HandlePOST(r, d, loc, now).reply.location = <<>>
           /\ HandleDELETE(r, d, loc).reply.location = <<>>
<1>1. \A a, e : Outcome(a, e).reply = a
  BY DEF Outcome
<1>2. UploadForm(r, d, loc).reply.location = <<>>
  <2> DEFINE s == Store(Slashed(loc.uploadDir), d, r.parts)
  <2>1. UploadForm(r, d, loc) = IF r.type = "form without boundary"
                                THEN Outcome(ErrorReply(400), d)
                                ELSE Outcome(IF s.failed THEN ErrorReply(500) ELSE Created, s.disk)
    BY Zenon DEF UploadForm
  <2> HIDE DEF s
  <2>2. \/ UploadForm(r, d, loc) = Outcome(ErrorReply(400), d)
        \/ UploadForm(r, d, loc) = Outcome(ErrorReply(500), s.disk)
        \/ UploadForm(r, d, loc) = Outcome(Created, s.disk)
    BY <2>1, Zenon
  <2> QED
    BY <1>1, <2>2, PlainReplies
<1>3. UploadRaw(r, d, loc, now).reply.location = <<>>
  BY <1>1, PlainReplies DEF UploadRaw
<1>4. HandlePOST(r, d, loc, now).reply.location = <<>>
  BY <1>1, <1>2, <1>3, PlainReplies DEF HandlePOST
<1>5. HandleDELETE(r, d, loc).reply.location = <<>>
  BY <1>1, PlainReplies DEF HandleDELETE
<1> QED
  BY <1>4, <1>5

\* A location that has not moved redirects nothing that ends in a slash.
LEMMA RouteLocates ==
    ASSUME NEW r, NEW d, NEW loc, NEW now, loc.redirect = <<>>, EndsInSlash(r.path)
    PROVE  Route(r, d, loc, now).reply.location = <<>>
<1>1. \A a, e : Outcome(a, e).reply = a
  BY DEF Outcome
<1>2. NotAllowed(loc).location = <<>>
  BY DEF NotAllowed, ErrorReply, Answer
<1>3. ASSUME r.method \notin Methods PROVE Route(r, d, loc, now).reply.location = <<>>
  BY <1>1, <1>3, PlainReplies DEF Route
<1>4. ASSUME r.method \in Methods, ~IsMethodAllowed(r.method, loc)
      PROVE  Route(r, d, loc, now).reply.location = <<>>
  BY <1>1, <1>2, <1>4 DEF Route
<1>5. ASSUME r.method \in Methods, IsMethodAllowed(r.method, loc)
      PROVE  Route(r, d, loc, now).reply.location = <<>>
  <2> DEFINE a == Dispatch(r, d, loc, now).reply
             b == Route(r, d, loc, now).reply
  <2>1. a.location = <<>>
    BY <1>1, GetLocates, OthersLocate, PlainReplies DEF Dispatch
  <2>2. Handled(a)
    BY DispatchHandled
  <2>3. b = a \/ b = WithoutBody(a)
    BY <1>5, RouteHandled
  <2> HIDE DEF a, b
  <2>4. WithoutBody(a).location = a.location
    <3>1. PICK x : x = FALSE
      OBVIOUS
    <3>2. WithoutBody(a) = ReplyOf(a.code, a.entity, x, a.allow, a.location, a.script)
      BY <2>2, <3>1, BodyTakenAway, Zenon DEF Handled
    <3> QED
      BY <3>2, ReplyFields
  <2>5. b.location = <<>>
    BY <2>1, <2>3, <2>4
  <2> QED
    BY <2>5 DEF b
<1> QED
  BY <1>3, <1>4, <1>5

\* A reply of build() that sends the client elsewhere.
LEMMA BuildRedirects ==
    ASSUME InputsTyped, Handed, NEW r, NEW d, NEW now,
           Build(r, d, now).reply.location # <<>>
    PROVE  /\ r.error = 0
           /\ MatchLocation(r.path, site) \in DOMAIN site
           /\ \/ /\ site[MatchLocation(r.path, site)].redirect # <<>>
                 /\ Build(r, d, now).reply.location = site[MatchLocation(r.path, site)].redirect
              \/ /\ site[MatchLocation(r.path, site)].redirect = <<>>
                 /\ ~EndsInSlash(r.path)
<1> DEFINE k == MatchLocation(r.path, site)
<1>1. \A x, y : Outcome(x, y).reply = x
  BY DEF Outcome
<1>2. r.error = 0
  BY <1>1, PlainReplies DEF Build
<1>3. k # 0
  BY <1>1, <1>2, PlainReplies DEF Build
<1>4. k \in DOMAIN site
  BY <1>3, MatchIsLocation
<1>5. Build(r, d, now) = Route(r, d, site[k], now)
  BY <1>2, <1>3, Zenon DEF Build
<1> HIDE DEF k
<1>6. ASSUME site[k].redirect # <<>>
      PROVE  Build(r, d, now).reply.location = site[k].redirect
  <2>1. Build(r, d, now).reply = Redirect(site[k].redirectCode, site[k].redirect)
    BY <1>1, <1>5, <1>6 DEF Route
  <2>2. \A c, q : Redirect(c, q).location = q
    BY DEF Redirect, Answer
  <2> QED
    BY <2>1, <2>2
<1>7. ASSUME site[k].redirect = <<>> PROVE ~EndsInSlash(r.path)
  BY <1>5, <1>7, RouteLocates
<1> QED
  BY <1>2, <1>4, <1>6, <1>7 DEF k

LEMMA RedirectAlways ==
    ASSUME InputsTyped
    PROVE  Spec => []RedirectIsOfRequest
<1>1. Init => RedirectIsOfRequest
  BY DEF Init, RedirectIsOfRequest, Answer
<1>2. ASSUME Handed, RedirectIsOfRequest, [Next]_vars PROVE RedirectIsOfRequest'
  <2>1. ASSUME NEW r \in Requests, Serve(r) PROVE RedirectIsOfRequest'
    <3>1. reply' = Build(r, disk, clock).reply /\ req' = r /\ site' = site
      BY <2>1 DEF Serve
    <3> DEFINE k == MatchLocation(r.path, site)
               a == Build(r, disk, clock).reply
    <3>2. ASSUME a.location # <<>>
          PROVE  /\ r.error = 0 /\ k \in DOMAIN site
                 /\ \/ site[k].redirect # <<>> /\ a.location = site[k].redirect
                    \/ site[k].redirect = <<>> /\ ~EndsInSlash(r.path)
      BY <1>2, <3>2, BuildRedirects
    <3> QED
      BY <3>1, <3>2 DEF RedirectIsOfRequest
  <2>2. ASSUME NEW out \in Outputs, ScriptAnswers(out) PROVE RedirectIsOfRequest'
    <3>1. reply'.location = <<>>
      BY <2>2, PlainReplies DEF ScriptAnswers, CgiResponse
    <3> QED
      BY <3>1 DEF RedirectIsOfRequest
  <2>3. ASSUME UNCHANGED <<site, req, reply>> PROVE RedirectIsOfRequest'
    BY <1>2, <2>3 DEF RedirectIsOfRequest
  <2> QED
    BY <1>2, <2>1, <2>2, <2>3 DEF Next, Tick, vars
<1> QED
  BY <1>1, <1>2, HandedAlways, PTL DEF Spec

\* What the browser asks for next: the same request with another path.
LEMMA RequestAt ==
    ASSUME InputsTyped, NEW r \in Requests, NEW p
    PROVE  /\ r.path \in Path
           /\ [r EXCEPT !.path = p].path = p
           /\ [r EXCEPT !.path = p].error = r.error
<1>1. ASSUME NEW A, NEW B, NEW C, NEW D, NEW E, NEW F,
             NEW x \in [method : A, path : B, error : C, type : D, parts : E, content : F]
      PROVE  /\ x.path \in B
             /\ [x EXCEPT !.path = p].path = p /\ [x EXCEPT !.path = p].error = x.error
  OBVIOUS
<1> DEFINE A == STRING
           C == {0} \cup 400..599
           D == {"raw", "form", "form without boundary"}
           E == Seq([name : Path, content : STRING])
<1>2. r \in [method : A, path : Path, error : C, type : D, parts : E, content : A]
  BY DEF InputsTyped, Request
<1> HIDE DEF A, C, D, E
<1> QED
  BY <1>1, <1>2

\* Of two locations that are the longest for a path, that do not end in a slash
\* and one of which is chosen with a slash added, both are one.
LEMMA SlashChangesNothing ==
    ASSUME NEW locs \in Seq(LocationConfig), NEW p \in Path,
           MatchLocation(Append(p, "/"), locs) # 0,
           ~EndsInSlash(locs[MatchLocation(Append(p, "/"), locs)].path)
    PROVE  MatchLocation(p, locs) = MatchLocation(Append(p, "/"), locs)
<1> DEFINE q == Append(p, "/")
           j == MatchLocation(p, locs)
           k == MatchLocation(q, locs)
           Fits(l, x) == IsPrefix(locs[l].path, x)
           size(l) == Len(locs[l].path)
<1>1. \/ j = 0 /\ \A l \in DOMAIN locs : ~Fits(l, p)
      \/ /\ j \in DOMAIN locs /\ Fits(j, p)
         /\ \A l \in DOMAIN locs : Fits(l, p) => size(l) <= size(j) /\ (l < j => size(l) < size(j))
  BY MatchIsLongest
<1>2. /\ k \in DOMAIN locs /\ Fits(k, q)
      /\ \A l \in DOMAIN locs : Fits(l, q) => size(l) <= size(k) /\ (l < k => size(l) < size(k))
  BY MatchIsLongest
<1>3. \A l \in DOMAIN locs : locs[l].path \in Seq(STRING) /\ size(l) \in Nat /\ locs[l].path # <<>>
  <2> SUFFICES ASSUME NEW l \in DOMAIN locs
               PROVE  locs[l].path \in Seq(STRING) /\ locs[l].path # <<>>
    BY LenProperties
  <2>1. locs[l] \in LocationConfig
    OBVIOUS
  <2> QED
    BY <2>1 DEF LocationConfig, Path
<1>4. PICK Z : p \in Seq(Z) /\ q \in Seq(Z) /\ Len(q) = Len(p) + 1 /\ q[Len(q)] = "/"
  <2> DEFINE Z == STRING \cup {"/"}
  <2>1. p \in Seq(STRING)
    BY DEF Path
  <2>2. \A l \in 1..Len(p) : p[l] \in Z
    BY <2>1
  <2>3. p \in Seq(Z)
    BY <2>1, <2>2
  <2> QED
    BY <2>3
<1> DEFINE x == locs[k].path
<1>5. ~EndsInSlash(x)
  OBVIOUS
<1>6. \A l \in DOMAIN locs : Fits(l, p) => Fits(l, q)
  BY <1>3, <1>4 DEF IsPrefix
<1>7. Fits(k, p)
  BY <1>2, <1>3, <1>4, <1>5 DEF IsPrefix, EndsInSlash, Last
<1> HIDE DEF Fits, size, j, k
<1>8. j \in DOMAIN locs /\ size(k) <= size(j) /\ size(j) <= size(k) /\ ~(j < k) /\ ~(k < j)
  BY <1>1, <1>2, <1>3, <1>6, <1>7
<1>9. j = k
  <2>1. j \in Int /\ k \in Int
    BY <1>2, <1>8
  <2> QED
    BY <1>8, <2>1
<1> QED
  BY <1>9 DEF j, k

\* The redirection of a directory ends there, for every disk and in whatever
\* order the locations stand, whatever has happened to the disk in between
\* (Response.cpp, _handleGet and step 2 of build()).  RedirectsAway is what the
\* site has to see to: a location "/d/" that moves back to "/d" goes round.
THEOREM RedirectsEnd ==
    ASSUME InputsTyped, RedirectsAway
    PROVE  Spec => []RedirectSettles
<1>1. Handed /\ RedirectIsOfRequest => RedirectSettles
  <2> DEFINE q == Append(req.path, "/")
             r == [req EXCEPT !.path = q]
  <2> SUFFICES ASSUME Handed, RedirectIsOfRequest, reply.location = q
               PROVE  Again(r).location = <<>>
    BY DEF RedirectSettles
  <2> DEFINE j == MatchLocation(req.path, site)
             k == MatchLocation(q, site)
  <2>1. req.path \in Seq(STRING)
    <3>1. ASSUME req \in Requests PROVE req.path \in Seq(STRING)
      BY <3>1, RequestAt DEF Path
    <3>2. NoRequest.path \in Seq(STRING)
      BY DEF NoRequest
    <3> QED
      BY <3>1, <3>2 DEF Handed
  <2>2. q # <<>> /\ EndsInSlash(q)
    BY <2>1 DEF EndsInSlash, Last
  <2>3. /\ req \in Requests /\ req.error = 0
        /\ j \in DOMAIN site
        /\ site[j].redirect # <<>> => reply.location = site[j].redirect
    BY <2>2 DEF RedirectIsOfRequest
  <2>4. r.path = q /\ r.error = 0
    BY <2>3, RequestAt
  <2> SUFFICES ASSUME Again(r).location # <<>> PROVE FALSE
    OBVIOUS
  <2> HIDE DEF r
  <2>5. k \in DOMAIN site /\ site[k].redirect # <<>>
    BY <2>2, <2>4, BuildRedirects DEF Again
  <2>6. ~EndsInSlash(site[k].path) /\ ~IsPrefix(site[k].path, site[k].redirect)
    BY <2>5 DEF RedirectsAway, Handed
  <2>7. j = k
    <3>1. k # 0
      BY <2>5, SiteIsList
    <3>2. site \in Seq(LocationConfig) /\ req.path \in Path
      BY <2>1, SiteIsList DEF Path
    <3> QED
      BY <2>6, <3>1, <3>2, SlashChangesNothing
  <2>8. IsPrefix(site[k].path, q)
    BY <2>5, SiteIsList, MatchIsLongest
  <2> QED
    BY <2>3, <2>5, <2>6, <2>7, <2>8
<1> QED
  BY <1>1, HandedAlways, RedirectAlways, PTL

=============================================================================
