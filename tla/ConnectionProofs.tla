-------------------------- MODULE ConnectionProofs --------------------------
(***************************************************************************)
(* Theorems about module Connection, for every conversation by the rules   *)
(* and every way to cut it into fragments.                                 *)
(*                                                                         *)
(* The parser that is fed with fragments is compared with one that is fed  *)
(* with the whole request: Joined says that they would agree if the first  *)
(* were given what is still coming, and a step of the first is a step of   *)
(* the second (ParseJoined).                                               *)
(***************************************************************************)
EXTENDS Connection, SequenceTheorems, WellFoundedInduction, TLAPS

-----------------------------------------------------------------------------
(* Sequences.                                                              *)

\* A set of naturals has a least element.
LEMMA First ==
    ASSUME NEW K, K \subseteq Nat, K # {}
    PROVE  \E k \in K : \A j \in K : k <= j
<1> DEFINE R == {ss \in Nat \X Nat : ss[1] < ss[2]}
<1>1. IsWellFoundedOn(R, Nat)
  BY NatLessThanWellFounded, Zenon DEF OpToRel
<1>2. PICK k \in K : \A j \in K : ~(<<j, k>> \in R)
  <2> HIDE DEF R
  <2> QED
    BY <1>1, WFMin
<1>3. ASSUME NEW j \in K PROVE k <= j
  <2>1. j \in Nat /\ k \in Nat /\ ~(<<j, k>> \in R)
    BY <1>2
  <2> QED
    BY <2>1
<1> QED
  BY <1>3

\* substr() of a sequence.
LEMMA Substr ==
    ASSUME NEW B, NEW q \in Seq(B), NEW m \in Nat, NEW n \in Nat, m >= 1, n <= Len(q)
    PROVE  /\ SubSeq(q, m, n) \in Seq(B)
           /\ Len(SubSeq(q, m, n)) = IF m <= n THEN n - m + 1 ELSE 0
           /\ \A i \in 1..(n - m + 1) : SubSeq(q, m, n)[i] = q[m + i - 1]
  OBVIOUS

LEMMA DropIs ==
    ASSUME NEW B, NEW q \in Seq(B), NEW n \in 0..Len(q)
    PROVE  /\ Parser!Drop(q, n) \in Seq(B)
           /\ Len(Parser!Drop(q, n)) = Len(q) - n
           /\ \A i \in 1..(Len(q) - n) : Parser!Drop(q, n)[i] = q[n + i]
<1>1. n + 1 \in Nat /\ Len(q) \in Nat
  OBVIOUS
<1> QED
  BY <1>1, Substr DEF Parser!Drop

LEMMA Concat ==
    ASSUME NEW B, NEW q \in Seq(B), NEW s \in Seq(B)
    PROVE  /\ q \o s \in Seq(B)
           /\ Len(q \o s) = Len(q) + Len(s)
           /\ \A i \in 1..Len(q) : (q \o s)[i] = q[i]
           /\ \A i \in (Len(q) + 1)..(Len(q) + Len(s)) : (q \o s)[i] = s[i - Len(q)]
  OBVIOUS

\* The beginning of two pieces, and what is after it.
LEMMA FrontOfBoth ==
    ASSUME NEW B, NEW q \in Seq(B), NEW s \in Seq(B), NEW m \in Nat, NEW n \in Nat, m >= 1,
           n <= Len(q)
    PROVE  SubSeq(q \o s, m, n) = SubSeq(q, m, n)
<1>1. q \o s \in Seq(B) /\ n <= Len(q \o s)
  OBVIOUS
<1>2. \A i \in 1..(n - m + 1) : (q \o s)[m + i - 1] = q[m + i - 1]
  OBVIOUS
<1> QED
  BY <1>1, <1>2, Substr, SeqEqual

LEMMA RestOfBoth ==
    ASSUME NEW B, NEW q \in Seq(B), NEW s \in Seq(B), NEW n \in 0..Len(q)
    PROVE  Parser!Drop(q \o s, n) = Parser!Drop(q, n) \o s
<1> DEFINE both == q \o s
           a == Parser!Drop(both, n)
           d == Parser!Drop(q, n)
           b == d \o s
<1>1. both \in Seq(B) /\ n \in 0..Len(both) /\ Len(both) = Len(q) + Len(s)
  OBVIOUS
<1>2. a \in Seq(B) /\ Len(a) = Len(both) - n /\ \A i \in 1..(Len(both) - n) : a[i] = both[n + i]
  <2> HIDE DEF both
  <2> QED
    BY <1>1, DropIs
<1>3. d \in Seq(B) /\ Len(d) = Len(q) - n /\ \A i \in 1..(Len(q) - n) : d[i] = q[n + i]
  BY DropIs
<1>4. b \in Seq(B) /\ Len(b) = Len(q) - n + Len(s)
  <2> HIDE DEF d
  <2> QED
    BY <1>3, Concat
<1>5. ASSUME NEW i \in 1..Len(b) PROVE a[i] = b[i]
  <2> HIDE DEF a, d
  <2>1. i \in 1..(Len(q) + Len(s) - n) /\ a[i] = both[n + i]
    BY <1>1, <1>2, <1>4
  <2>2. CASE i <= Len(q) - n
    <3>1. i \in 1..Len(d) /\ n + i \in 1..Len(q)
      BY <1>3, <2>1, <2>2
    <3>2. b[i] = d[i]
      BY <1>3, <3>1, Concat
    <3> QED
      BY <1>3, <2>1, <3>1, <3>2
  <2>3. CASE i > Len(q) - n
    <3>1. b[i] = s[i - (Len(q) - n)]
      BY <1>3, <1>4, <2>3
    <3>2. both[n + i] = s[n + i - Len(q)]
      BY <2>1, <2>3
    <3>3. i - (Len(q) - n) = n + i - Len(q)
      OBVIOUS
    <3> QED
      BY <2>1, <3>1, <3>2, <3>3
  <2> QED
    BY <2>2, <2>3
<1>6. Len(a) = Len(b)
  BY <1>1, <1>2, <1>4
<1>7. a = b
  <2> HIDE DEF a, b
  <2> QED
    BY <1>2, <1>4, <1>5, <1>6, SeqEqual
<1> QED
  BY <1>7

\* \o as an operator that the provers do not look into.
Cat(q, s) == q \o s

LEMMA CatAssociative ==
    ASSUME NEW B, NEW q \in Seq(B), NEW f \in Seq(B), NEW d \in Seq(B)
    PROVE  Cat(Cat(q, f), d) = Cat(q, Cat(f, d))
  BY ConcatAssociative DEF Cat

LEMMA ThreePieces ==
    ASSUME NEW B, NEW q \in Seq(B), NEW f \in Seq(B), NEW d \in Seq(B), NEW s, Cat(f, d) = s
    PROVE  Cat(Cat(q, f), d) = Cat(q, s)
  BY CatAssociative

-----------------------------------------------------------------------------
(* The parser that is fed with fragments, and the one fed with all of it.  *)

Fields == {"state", "raw", "line", "headers", "body", "contentLength", "maxBodySize", "errorCode"}
IsRequest(r) == DOMAIN r = Fields

\* They agree on everything but what they have not looked at yet.
Agree(r, w) ==
    /\ w.state = r.state /\ w.line = r.line /\ w.headers = r.headers /\ w.body = r.body
    /\ w.contentLength = r.contentLength /\ w.maxBodySize = r.maxBodySize
    /\ w.errorCode = r.errorCode

\* The second has already got what the first has still to get.
Joined(r, later, w) == Agree(r, w) /\ w.raw = r.raw \o later

\* The first line of r is the first line of w too, which has got s as well.
SameLine(B, r, s, w) ==
    /\ Parser!Eol(r) \in 1..(Len(r.raw) - 1)
    /\ r.raw[Parser!Eol(r)] = Parser!CR /\ r.raw[Parser!Eol(r) + 1] = Parser!LF
    /\ Parser!HasLine(w) /\ Parser!Eol(w) = Parser!Eol(r)
    /\ Parser!Line(w) = Parser!Line(r) /\ Parser!LineIs(w) = Parser!LineIs(r)
    /\ Parser!AfterLine(w) = Parser!AfterLine(r) \o s
    /\ Parser!AfterLine(r) \in Seq(B)
    /\ Len(Parser!AfterLine(r)) = Len(r.raw) - Parser!Eol(r) - 1
    /\ \A j \in Parser!Ends(w.raw) : Parser!Eol(r) <= j

LEMMA FirstLine ==
    ASSUME NEW B, NEW s \in Seq(B), NEW r, r.raw \in Seq(B), Parser!HasLine(r),
           NEW w, w.raw = r.raw \o s
    PROVE  SameLine(B, r, s, w)
<1> DEFINE E == Parser!Ends(r.raw)
           F == Parser!Ends(w.raw)
<1>1. E \subseteq Nat /\ E \subseteq 1..(Len(r.raw) - 1) /\ E # {}
  BY DEF Parser!Ends, Parser!HasLine
<1>2. PICK e \in E : \A j \in E : e <= j
  <2> HIDE DEF E
  <2> QED
    BY <1>1, First
<1>3. \A d \in E : (\A j \in E : d <= j) => d = e
  <2> SUFFICES ASSUME NEW d \in E, \A j \in E : d <= j PROVE d = e
    OBVIOUS
  <2>1. d <= e /\ e <= d /\ d \in Nat /\ e \in Nat
    BY <1>1, <1>2
  <2> QED
    BY <2>1
<1>4. Parser!Eol(r) = e
  <2>1. Parser!Eol(r) = CHOOSE k \in E : \A j \in E : k <= j
    BY DEF Parser!Eol
  <2> HIDE DEF E
  <2> QED
    BY <1>2, <1>3, <2>1
<1>5. \A j \in 1..Len(r.raw) : w.raw[j] = r.raw[j]
  BY Concat
<1>6. w.raw \in Seq(B) /\ Len(w.raw) = Len(r.raw) + Len(s)
  BY Concat
<1>7. E \subseteq F
  BY <1>5, <1>6 DEF Parser!Ends
<1>8. ASSUME NEW j \in F PROVE e <= j
  <2>1. j \in 1..(Len(w.raw) - 1) /\ w.raw[j] = Parser!CR /\ w.raw[j + 1] = Parser!LF
    BY DEF Parser!Ends
  <2>2. e \in 1..(Len(r.raw) - 1)
    BY <1>1, <1>2
  <2>3. SUFFICES ASSUME j < e PROVE FALSE
    BY <1>6, <2>1, <2>2
  <2>4. j \in 1..(Len(r.raw) - 1) /\ j + 1 \in 1..Len(r.raw) /\ j \in 1..Len(r.raw)
    BY <1>6, <2>1, <2>2, <2>3
  <2>5. j \in E
    BY <1>5, <2>1, <2>4 DEF Parser!Ends
  <2> QED
    BY <1>2, <2>2, <2>3, <2>4, <2>5
<1>9. \A d \in F : (\A j \in F : d <= j) => d = e
  <2> SUFFICES ASSUME NEW d \in F, \A j \in F : d <= j PROVE d = e
    OBVIOUS
  <2>0. Len(w.raw) \in Nat
    BY <1>6
  <2>3. F \subseteq 1..(Len(w.raw) - 1)
    BY DEF Parser!Ends
  <2>1. e \in F /\ F \subseteq Nat
    <3> HIDE DEF E, F
    <3> QED
      BY <1>2, <1>7, <2>0, <2>3
  <2>2. d <= e /\ e <= d /\ d \in Nat /\ e \in Nat
    <3> HIDE DEF F
    <3> QED
      BY <1>8, <2>1
  <2> QED
    BY <2>2
<1>10. Parser!Eol(w) = e
  <2>1. Parser!Eol(w) = CHOOSE k \in F : \A j \in F : k <= j
    BY DEF Parser!Eol
  <2>2. e \in F /\ \A j \in F : e <= j
    BY <1>2, <1>7, <1>8
  <2> HIDE DEF F
  <2> QED
    BY <1>9, <2>1, <2>2
<1>11. Parser!HasLine(w)
  BY <1>2, <1>7 DEF Parser!HasLine
<1>12. e \in 1..(Len(r.raw) - 1) /\ e - 1 \in Nat /\ e - 1 <= Len(r.raw) /\ e + 1 \in 0..Len(r.raw)
  BY <1>1, <1>2
<1>13. Parser!Line(w) = Parser!Line(r)
  BY <1>4, <1>10, <1>12, FrontOfBoth DEF Parser!Line
<1>14. Parser!LineIs(w) = Parser!LineIs(r)
  BY <1>13 DEF Parser!LineIs
<1>15. /\ Parser!AfterLine(w) = Parser!AfterLine(r) \o s
       /\ Parser!AfterLine(r) \in Seq(B)
       /\ Len(Parser!AfterLine(r)) = Len(r.raw) - e - 1
  <2> DEFINE m == e + 1
  <2>1. m \in 0..Len(r.raw) /\ Len(r.raw) - m = Len(r.raw) - e - 1
    BY <1>12
  <2>2. Parser!AfterLine(w) = Parser!Drop(r.raw \o s, m) /\ Parser!AfterLine(r) = Parser!Drop(r.raw, m)
    BY <1>4, <1>10 DEF Parser!AfterLine
  <2> HIDE DEF m
  <2>3. Parser!Drop(r.raw \o s, m) = Parser!Drop(r.raw, m) \o s
    BY <2>1, RestOfBoth
  <2>4. Parser!Drop(r.raw, m) \in Seq(B) /\ Len(Parser!Drop(r.raw, m)) = Len(r.raw) - m
    BY <2>1, DropIs
  <2> QED
    BY <2>1, <2>2, <2>3, <2>4, Zenon
<1>16. r.raw[e] = Parser!CR /\ r.raw[e + 1] = Parser!LF
  BY <1>2 DEF Parser!Ends
<1> QED
  BY <1>4, <1>8, <1>10, <1>11, <1>12, <1>13, <1>14, <1>15, <1>16 DEF SameLine

-----------------------------------------------------------------------------
(* A step of the one is a step of the other.                               *)

\* Which step it is.
LEMMA ParseIs ==
    ASSUME NEW r
    PROVE  /\ Parser!AtRequestLine(r) => Parser!Parse(r) = Parser!ParseRequestLine(r)
           /\ Parser!AtHeader(r) => Parser!Parse(r) = Parser!ParseHeader(r)
           /\ Parser!AtBlankLine(r) => Parser!Parse(r) = Parser!EndOfHeaders(r)
           /\ Parser!AtBody(r) => Parser!Parse(r) = Parser!ParseBody(r)
           /\ Parser!AtChunk(r) => Parser!Parse(r) = Parser!ParseChunk(r)
           /\ Parser!AtLastChunk(r) => Parser!Parse(r) = Parser!LastChunk(r)
  BY DEF Parser!Parse, Parser!AtRequestLine, Parser!AtHeader, Parser!AtBlankLine, Parser!AtBody,
         Parser!AtChunk, Parser!AtLastChunk, Parser!AtLine

\* What is parsed is cut off at the front of what has arrived.
LEMMA CutOff ==
    ASSUME NEW B, NEW q \in Seq(B), NEW s \in Seq(B), NEW m \in 0..Len(q)
    PROVE  /\ Parser!Drop(q, m) \in Seq(B)
           /\ Parser!Drop(q \o s, m) = Parser!Drop(q, m) \o s
<1>1. Parser!Drop(q, m) \in Seq(B)
  BY DropIs
<1>2. Parser!Drop(q \o s, m) = Parser!Drop(q, m) \o s
  BY RestOfBoth
<1> QED
  BY <1>1, <1>2

\* Both after a step: they agree again.
Ahead(B, rr, s, ww) ==
    /\ IsRequest(rr) /\ IsRequest(ww) /\ Joined(rr, s, ww)
    /\ rr.raw \in Seq(B)

\* The steps that take a line and look at nothing else of what has arrived.
LEMMA LineTaken ==
    ASSUME NEW B, NEW s \in Seq(B), NEW r, r.raw \in Seq(B), NEW w, w.raw = r.raw \o s,
           Parser!HasLine(r), NEW rr, NEW ww, IsRequest(rr), IsRequest(ww),
           rr.raw = Parser!AfterLine(r), ww.raw = Parser!AfterLine(w), Agree(rr, ww)
    PROVE  Ahead(B, rr, s, ww)
<1> DEFINE m == Parser!Eol(r) + 1
           q == r.raw
<1>1. SameLine(B, r, s, w)
  BY FirstLine
<1>2. q \in Seq(B) /\ m \in 0..Len(q)
  BY <1>1 DEF SameLine
<1>3. rr.raw = Parser!Drop(q, m) /\ ww.raw = Parser!Drop(q \o s, m)
  BY <1>1 DEF SameLine, Parser!AfterLine
<1>4. /\ Parser!Drop(q, m) \in Seq(B)
      /\ Parser!Drop(q \o s, m) = Parser!Drop(q, m) \o s
  <2> HIDE DEF q, m
  <2> QED
    BY <1>2, CutOff
<1>5. rr.raw \in Seq(B) /\ ww.raw = rr.raw \o s
  BY <1>3, <1>4
<1> QED
  BY <1>5 DEF Ahead, Joined

LEMMA RequestLineJoined ==
    ASSUME NEW B, NEW s \in Seq(B), NEW r, NEW w, IsRequest(r), IsRequest(w), r.raw \in Seq(B),
           Joined(r, s, w), Parser!AtRequestLine(r)
    PROVE  Parser!AtRequestLine(w) /\ Ahead(B, Parser!Parse(r), s, Parser!Parse(w))
<1> DEFINE rr == Parser!ParseRequestLine(r)
           ww == Parser!ParseRequestLine(w)
<1>1. /\ Parser!HasLine(r) /\ r.state = "REQUEST_LINE"
      /\ Parser!HasLine(w) /\ Parser!LineIs(w) = Parser!LineIs(r)
      /\ w.raw = r.raw \o s /\ Agree(r, w)
  <2>1. Parser!HasLine(r) /\ r.state = "REQUEST_LINE" /\ w.raw = r.raw \o s /\ Agree(r, w)
    BY DEF Parser!AtRequestLine, Parser!AtLine, Joined
  <2>2. SameLine(B, r, s, w)
    BY <2>1, FirstLine
  <2> QED
    BY <2>1, <2>2 DEF SameLine
<1>2. Parser!AtRequestLine(w)
  BY <1>1 DEF Parser!AtRequestLine, Parser!AtLine, Agree
<1>3. IsRequest(rr) /\ IsRequest(ww)
  BY DEF IsRequest, Fields, Parser!ParseRequestLine
<1>4. rr.raw = Parser!AfterLine(r) /\ ww.raw = Parser!AfterLine(w)
  BY DEF IsRequest, Fields, Parser!ParseRequestLine
<1>5. Agree(rr, ww)
  BY <1>1 DEF IsRequest, Fields, Parser!ParseRequestLine, Agree
<1>6. Ahead(B, rr, s, ww)
  <2> HIDE DEF rr, ww
  <2> QED
    BY <1>1, <1>3, <1>4, <1>5, LineTaken
<1> QED
  BY <1>2, <1>6, ParseIs

LEMMA HeaderJoined ==
    ASSUME NEW B, NEW s \in Seq(B), NEW r, NEW w, IsRequest(r), IsRequest(w), r.raw \in Seq(B),
           Joined(r, s, w), Parser!AtHeader(r)
    PROVE  Parser!AtHeader(w) /\ Ahead(B, Parser!Parse(r), s, Parser!Parse(w))
<1> DEFINE rr == Parser!ParseHeader(r)
           ww == Parser!ParseHeader(w)
<1>1. /\ Parser!HasLine(r) /\ r.state = "HEADERS" /\ Parser!Line(r) # <<>>
      /\ Parser!HasLine(w) /\ Parser!LineIs(w) = Parser!LineIs(r) /\ Parser!Line(w) = Parser!Line(r)
      /\ w.raw = r.raw \o s /\ Agree(r, w)
  <2>1. /\ Parser!HasLine(r) /\ r.state = "HEADERS" /\ Parser!Line(r) # <<>>
        /\ w.raw = r.raw \o s /\ Agree(r, w)
    BY DEF Parser!AtHeader, Parser!AtLine, Joined
  <2>2. SameLine(B, r, s, w)
    BY <2>1, FirstLine
  <2> QED
    BY <2>1, <2>2 DEF SameLine
<1>2. Parser!AtHeader(w)
  BY <1>1 DEF Parser!AtHeader, Parser!AtLine, Agree
<1>3. IsRequest(rr) /\ IsRequest(ww)
  BY DEF IsRequest, Fields, Parser!ParseHeader
<1>4. rr.raw = Parser!AfterLine(r) /\ ww.raw = Parser!AfterLine(w)
  BY DEF IsRequest, Fields, Parser!ParseHeader
<1>5. Agree(rr, ww)
  BY <1>1 DEF IsRequest, Fields, Parser!ParseHeader, Agree
<1>6. Ahead(B, rr, s, ww)
  <2> HIDE DEF rr, ww
  <2> QED
    BY <1>1, <1>3, <1>4, <1>5, LineTaken
<1> QED
  BY <1>2, <1>6, ParseIs

LEMMA BlankLineJoined ==
    ASSUME NEW B, NEW s \in Seq(B), NEW r, NEW w, IsRequest(r), IsRequest(w), r.raw \in Seq(B),
           Joined(r, s, w), Parser!AtBlankLine(r)
    PROVE  Parser!AtBlankLine(w) /\ Ahead(B, Parser!Parse(r), s, Parser!Parse(w))
<1> DEFINE rr == Parser!EndOfHeaders(r)
           ww == Parser!EndOfHeaders(w)
<1>1. /\ Parser!HasLine(r) /\ r.state = "HEADERS" /\ Parser!Line(r) = <<>>
      /\ Parser!HasLine(w) /\ Parser!LineIs(w) = Parser!LineIs(r) /\ Parser!Line(w) = Parser!Line(r)
      /\ w.raw = r.raw \o s /\ Agree(r, w)
  <2>1. /\ Parser!HasLine(r) /\ r.state = "HEADERS" /\ Parser!Line(r) = <<>>
        /\ w.raw = r.raw \o s /\ Agree(r, w)
    BY DEF Parser!AtBlankLine, Parser!AtLine, Joined
  <2>2. SameLine(B, r, s, w)
    BY <2>1, FirstLine
  <2> QED
    BY <2>1, <2>2 DEF SameLine
<1>2. Parser!AtBlankLine(w)
  BY <1>1 DEF Parser!AtBlankLine, Parser!AtLine, Agree
<1>3. IsRequest(rr) /\ IsRequest(ww)
  BY DEF IsRequest, Fields, Parser!EndOfHeaders
<1>4. rr.raw = Parser!AfterLine(r) /\ ww.raw = Parser!AfterLine(w)
  BY DEF IsRequest, Fields, Parser!EndOfHeaders
<1>5. Agree(rr, ww)
  BY <1>1 DEF IsRequest, Fields, Parser!EndOfHeaders, Agree
<1>6. Ahead(B, rr, s, ww)
  <2> HIDE DEF rr, ww
  <2> QED
    BY <1>1, <1>3, <1>4, <1>5, LineTaken
<1> QED
  BY <1>2, <1>6, ParseIs

\* A body of a given length.
LEMMA BodyJoined ==
    ASSUME NEW B, NEW s \in Seq(B), NEW r, NEW w, IsRequest(r), IsRequest(w), r.raw \in Seq(B),
           Joined(r, s, w), WellFormed(w), Parser!AtBody(r)
    PROVE  Parser!AtBody(w) /\ Ahead(B, Parser!Parse(r), s, Parser!Parse(w))
<1> DEFINE rr == Parser!ParseBody(r)
           ww == Parser!ParseBody(w)
           n == r.contentLength
<1>1. /\ r.state = "BODY" /\ Len(r.raw) >= n /\ w.raw = r.raw \o s /\ Agree(r, w)
      /\ w.state = "BODY" /\ w.contentLength = n /\ n \in Nat
  BY DEF Parser!AtBody, Parser!BodyArrived, Joined, Agree, WellFormed
<1>2. Len(w.raw) = Len(r.raw) + Len(s) /\ Len(r.raw) \in Nat /\ Len(s) \in Nat
  BY <1>1, Concat
<1>3. Parser!AtBody(w)
  BY <1>1, <1>2 DEF Parser!AtBody, Parser!BodyArrived
<1>4. IsRequest(rr) /\ IsRequest(ww)
  BY DEF IsRequest, Fields, Parser!ParseBody
<1>5. rr.raw = Parser!Drop(r.raw, n) /\ ww.raw = Parser!Drop(w.raw, n)
  BY <1>1 DEF IsRequest, Fields, Parser!ParseBody
<1>6. Parser!Take(r.raw, n) = SubSeq(r.raw, 1, n) /\ Parser!Take(w.raw, n) = SubSeq(w.raw, 1, n)
  BY <1>1, <1>2 DEF Parser!Take
<1>7. Parser!Take(w.raw, n) = Parser!Take(r.raw, n)
  <2> HIDE DEF n
  <2> QED
    BY <1>1, <1>6, FrontOfBoth
<1>8. Agree(rr, ww)
  BY <1>1, <1>7 DEF IsRequest, Fields, Parser!ParseBody, Agree
<1>9. rr.raw \in Seq(B) /\ ww.raw = rr.raw \o s
  <2> DEFINE q == r.raw
  <2>1. q \in Seq(B) /\ n \in 0..Len(q)
    BY <1>1, <1>2
  <2>2. /\ Parser!Drop(q, n) \in Seq(B)
        /\ Parser!Drop(q \o s, n) = Parser!Drop(q, n) \o s
    <3> HIDE DEF q, n
    <3> QED
      BY <2>1, CutOff
  <2> HIDE DEF rr, ww
  <2> QED
    BY <1>1, <1>5, <2>2
<1>10. Ahead(B, rr, s, ww)
  <2> HIDE DEF rr, ww
  <2> QED
    BY <1>4, <1>8, <1>9 DEF Ahead, Joined
<1> QED
  BY <1>3, <1>10, ParseIs

\* Sizes that are not near the end of size_t do not wrap.
LEMMA Unwrapped ==
    ASSUME NEW n \in Nat, n < SizeWidth, LimitsAreSizes
    PROVE  Parser!Size(n) = n
  BY DEF LimitsAreSizes, Parser!Size

\* A chunk with data.
LEMMA ChunkJoined ==
    ASSUME NEW B, NEW s \in Seq(B), NEW r, NEW w, IsRequest(r), IsRequest(w), r.raw \in Seq(B),
           Joined(r, s, w), WellFormed(w), Parser!AtChunk(r), LimitsAreSizes
    PROVE  Parser!AtChunk(w) /\ Ahead(B, Parser!Parse(r), s, Parser!Parse(w))
<1> DEFINE rr == Parser!ParseChunk(r)
           ww == Parser!ParseChunk(w)
           n == Parser!LineIs(r).n
           m == Parser!Eol(r) + n + 3
           q == r.raw
           a == Parser!AfterLine(r)
<1>1. /\ Parser!HasLine(r) /\ r.state = "CHUNKED" /\ w.raw = q \o s /\ Agree(r, w)
      /\ Parser!ChunkSize(r) # 0 /\ Parser!ChunkArrived(r)
  BY DEF Parser!AtChunk, Parser!AtLine, Joined
<1>2. SameLine(B, r, s, w)
  BY <1>1, FirstLine
<1>3. Parser!AtLine(w, "CHUNKED") /\ Parser!ChunkSize(w) = Parser!ChunkSize(r)
  BY <1>1, <1>2 DEF Parser!AtLine, Parser!ChunkSize, SameLine, Agree
<1>4. n \in Nat /\ m < SizeWidth
  BY <1>1, <1>2, <1>3 DEF WellFormed, SameLine
<1>5. q \in Seq(B) /\ Parser!Eol(r) \in 1..(Len(q) - 1) /\ Len(q) \in Nat /\ Len(s) \in Nat
  BY <1>2 DEF SameLine
<1>6. Parser!ChunkSize(r) = n /\ Parser!ChunkSize(w) = n
  <2>1. Parser!ChunkSize(r) = Parser!Size(n)
    BY <1>1 DEF Parser!ChunkSize
  <2>2. n < SizeWidth
    BY <1>4, <1>5 DEF LimitsAreSizes
  <2> HIDE DEF n
  <2> QED
    BY <1>3, <1>4, <2>1, <2>2, Unwrapped
<1>7. Parser!ChunkEnd(r) = m /\ Parser!ChunkEnd(w) = m
  <2>1. m \in Nat /\ Parser!Eol(r) - 1 + 2 + n + 2 = m
    BY <1>4, <1>5
  <2>2. Parser!Size(m) = m
    <3> HIDE DEF m
    <3> QED
      BY <1>4, <2>1, Unwrapped
  <2>3. Parser!ChunkEnd(r) = Parser!Size(m)
    BY <1>6, <2>1 DEF Parser!ChunkEnd
  <2>4. Parser!ChunkEnd(w) = Parser!Size(m)
    BY <1>2, <1>6, <2>1 DEF Parser!ChunkEnd, SameLine
  <2> QED
    BY <2>2, <2>3, <2>4
<1>8. m \in 0..Len(q) /\ Len(w.raw) = Len(q) + Len(s)
  <2>1. Len(q) >= m
    BY <1>1, <1>7 DEF Parser!ChunkArrived
  <2>2. w.raw = q \o s /\ m \in Nat
    BY <1>1, <1>4, <1>5
  <2>3. Len(w.raw) = Len(q) + Len(s)
    <3> HIDE DEF q
    <3> QED
      BY <1>5, <2>2, Concat
  <2> QED
    BY <1>5, <2>1, <2>2, <2>3
<1>9. Parser!AtChunk(w)
  <2>1. Len(w.raw) >= m
    BY <1>4, <1>5, <1>8
  <2> QED
    BY <1>1, <1>3, <1>7, <2>1 DEF Parser!AtChunk, Parser!ChunkArrived
<1>10. IsRequest(rr) /\ IsRequest(ww)
  BY DEF IsRequest, Fields, Parser!ParseChunk
<1>11. Parser!Take(Parser!AfterLine(w), n) = Parser!Take(a, n)
  <2>1. a \in Seq(B) /\ Len(a) >= n /\ Len(a) \in Nat /\ Parser!AfterLine(w) = a \o s
    BY <1>2, <1>4, <1>5, <1>8, SMTT(20) DEF SameLine
  <2> HIDE DEF a, n
  <2>2. Len(a \o s) = Len(a) + Len(s)
    BY <2>1, Concat
  <2>3. Parser!Take(a, n) = SubSeq(a, 1, n)
    BY <1>4, <2>1 DEF Parser!Take
  <2>4. Parser!Take(a \o s, n) = SubSeq(a \o s, 1, n)
    BY <1>4, <1>5, <2>1, <2>2, SMTT(20) DEF Parser!Take
  <2>5. SubSeq(a \o s, 1, n) = SubSeq(a, 1, n)
    BY <1>4, <2>1, FrontOfBoth
  <2> QED
    BY <2>1, <2>3, <2>4, <2>5
<1>12. Agree(rr, ww)
  BY <1>1, <1>3, <1>6, <1>11 DEF IsRequest, Fields, Parser!ParseChunk, Parser!TooLarge, Agree
<1>13. rr.raw = Parser!Drop(q, m) /\ ww.raw = Parser!Drop(q \o s, m)
  BY <1>1, <1>7 DEF IsRequest, Fields, Parser!ParseChunk
<1>14. /\ Parser!Drop(q, m) \in Seq(B)
       /\ Parser!Drop(q \o s, m) = Parser!Drop(q, m) \o s
  <2> HIDE DEF q, m
  <2> QED
    BY <1>5, <1>8, CutOff
<1>15. Ahead(B, rr, s, ww)
  <2> HIDE DEF rr, ww
  <2> QED
    BY <1>10, <1>12, <1>13, <1>14 DEF Ahead, Joined
<1> QED
  BY <1>9, <1>15, ParseIs

\* The last chunk, if the CRLF after it has come or is not to come.
LEMMA LastChunkJoined ==
    ASSUME NEW B, NEW s \in Seq(B), NEW r, NEW w, IsRequest(r), IsRequest(w), r.raw \in Seq(B),
           Joined(r, s, w), Parser!AtLastChunk(r), Len(Parser!AfterLine(r)) >= 2 \/ s = <<>>
    PROVE  Parser!AtLastChunk(w) /\ Ahead(B, Parser!Parse(r), s, Parser!Parse(w))
<1> DEFINE rr == Parser!LastChunk(r)
           ww == Parser!LastChunk(w)
           q == r.raw
           a == Parser!AfterLine(r)
           b == a \o s
           e == Parser!Eol(r)
<1>1. /\ Parser!HasLine(r) /\ r.state = "CHUNKED" /\ w.raw = q \o s /\ Agree(r, w)
      /\ Parser!ChunkSize(r) = 0
  BY DEF Parser!AtLastChunk, Parser!AtLine, Joined
<1>2. SameLine(B, r, s, w)
  BY <1>1, FirstLine
<1>3. Parser!AtLastChunk(w)
  BY <1>1, <1>2 DEF Parser!AtLastChunk, Parser!AtLine, Parser!ChunkSize, SameLine, Agree
<1>4. /\ a \in Seq(B) /\ Len(a) = Len(q) - e - 1 /\ Parser!AfterLine(w) = b
      /\ q \in Seq(B) /\ e \in 1..(Len(q) - 1) /\ Len(q) \in Nat /\ Len(s) \in Nat
      /\ Len(a) \in Nat
  BY <1>2 DEF SameLine
<1>5. b \in Seq(B) /\ Len(b) = Len(a) + Len(s)
  <2> HIDE DEF a
  <2> QED
    BY <1>4, Concat
<1>6. /\ rr.raw = IF Len(a) >= 2 THEN Parser!Drop(a, 2) ELSE a
      /\ ww.raw = IF Len(b) >= 2 THEN Parser!Drop(b, 2) ELSE b
      /\ rr.state = "COMPLETE"
  BY <1>4 DEF IsRequest, Fields, Parser!LastChunk
<1>7. IsRequest(rr) /\ IsRequest(ww) /\ Agree(rr, ww)
  BY <1>1 DEF IsRequest, Fields, Parser!LastChunk, Agree
<1>8. ASSUME Len(a) >= 2 PROVE rr.raw \in Seq(B) /\ ww.raw = rr.raw \o s
  <2> DEFINE two == 2
  <2>1. two \in 0..Len(a) /\ Len(b) >= 2
    BY <1>4, <1>5, <1>8
  <2> HIDE DEF a
  <2>2. Parser!Drop(a, two) \in Seq(B) /\ Parser!Drop(a \o s, two) = Parser!Drop(a, two) \o s
    <3> HIDE DEF two
    <3> QED
      BY <1>4, <2>1, CutOff, SMTT(20)
  <2> HIDE DEF rr, ww
  <2> QED
    BY <1>6, <1>8, <2>1, <2>2
<1>9. ASSUME s = <<>> PROVE rr.raw \in Seq(B) /\ ww.raw = rr.raw \o s
  <2>1. b = a /\ ww.raw = rr.raw
    BY <1>4, <1>6, <1>9
  <2>2. rr.raw \in Seq(B)
    <3>1. CASE Len(a) >= 2
      BY <1>8, <3>1
    <3>2. CASE ~(Len(a) >= 2)
      BY <1>4, <1>6, <3>2
    <3> QED
      BY <3>1, <3>2
  <2> HIDE DEF rr, ww, a
  <2> QED
    BY <1>9, <2>1, <2>2
<1>11. rr.raw \in Seq(B) /\ ww.raw = rr.raw \o s
  BY <1>8, <1>9
<1>12. Ahead(B, rr, s, ww)
  <2> HIDE DEF rr, ww
  <2> QED
    BY <1>6, <1>7, <1>11 DEF Ahead, Joined, Parser!Done
<1> QED
  BY <1>3, <1>12, ParseIs

LEMMA DoneIsQuiet ==
    ASSUME NEW r, Parser!Done(r)
    PROVE  Parser!Quiet(r)
  BY DEF Parser!Done, Parser!Quiet, Parser!AtLine, Parser!AtRequestLine, Parser!AtHeader,
         Parser!AtBlankLine, Parser!AtBody, Parser!AtChunk, Parser!AtLastChunk

\* Whatever the one has to do, the other has to do too, with the same outcome.
LEMMA ParseJoined ==
    ASSUME NEW B, NEW s \in Seq(B), NEW r, NEW w, IsRequest(r), IsRequest(w), r.raw \in Seq(B),
           Joined(r, s, w), WellFormed(w), ~Parser!Quiet(r), LimitsAreSizes,
           Parser!AtLastChunk(r) => Len(Parser!AfterLine(r)) >= 2 \/ s = <<>>
    PROVE  ~Parser!Quiet(w) /\ Ahead(B, Parser!Parse(r), s, Parser!Parse(w))
<1>1. CASE Parser!AtRequestLine(r)
  BY <1>1, RequestLineJoined DEF Parser!Quiet
<1>2. CASE Parser!AtHeader(r)
  BY <1>2, HeaderJoined DEF Parser!Quiet
<1>3. CASE Parser!AtBlankLine(r)
  BY <1>3, BlankLineJoined DEF Parser!Quiet
<1>4. CASE Parser!AtBody(r)
  BY <1>4, BodyJoined DEF Parser!Quiet
<1>5. CASE Parser!AtChunk(r)
  BY <1>5, ChunkJoined DEF Parser!Quiet
<1>6. CASE Parser!AtLastChunk(r)
  BY <1>6, LastChunkJoined DEF Parser!Quiet
<1> QED
  BY <1>1, <1>2, <1>3, <1>4, <1>5, <1>6 DEF Parser!Quiet

-----------------------------------------------------------------------------
(* The inductive invariant, with the requests of the conversation by       *)
(* themselves.                                                             *)

\* The request that is being read or answered.
Turn == Len(replies) + 1

Shape(B) ==
    /\ talk \in Conversations /\ Len(talk) \in Nat
    /\ coming \in Seq(B)
    /\ stage \in {"reading", "working", "answering", "closed"}
    /\ feeding => stage = "reading"
    /\ \E S : replies \in Seq(S)
    /\ Len(replies) \in Nat /\ Len(replies) <= Len(talk)

\* What was sent back is what was deserved.
Matches(reply, m) ==
    /\ reply.code = m.code
    /\ m.code = 0 => reply.server = m.server /\ reply.uri = m.uri /\ reply.body = m.body

AnsweredSoFar ==
    /\ \A k \in 1..Len(replies) :
          /\ Matches(replies[k], talk[k])
          /\ ~talk[k].keep => k = Len(replies) /\ stage = "closed"
    /\ stage = "closed" => Len(replies) > 0 /\ ~talk[Len(replies)].keep

\* The requests whose script has been launched.
Launched(k) ==
    /\ k \in 1..Len(talk) /\ ForScript(talk[k])
    /\ k <= Len(replies) \/ (k = Turn /\ stage \in {"working", "answering"})

LaunchedSoFar ==
    /\ DOMAIN inputs = 1..(Len(talk) + 1)
    /\ \A k \in 1..(Len(talk) + 1) :
          inputs[k] = IF Launched(k) THEN << <<talk[k].body, Len(talk[k].body)>> >> ELSE <<>>

\* While it is read, a request is on the way that it takes by itself.
OnTheWay(B, run) ==
    /\ IsRequest(request) /\ request.raw \in Seq(B)
    /\ \E n \in 1..Len(run) : IsRequest(run[n]) /\ Joined(request, coming, run[n])

\* For the virtual host that the client has, whichever it is.
Reading(B) ==
    stage = "reading" =>
        \/ /\ Turn <= Len(talk)
           /\ \E run : ByItself(talk[Turn], config, run, Visited(talk)) /\ OnTheWay(B, run)
        \/ Turn = Len(talk) + 1 /\ coming = <<>> /\ ~feeding

\* Once it is read, it is what it becomes by itself.
Became(r) ==
    /\ request.line = r.line /\ request.headers = r.headers /\ request.body = r.body
    /\ request.errorCode = r.errorCode

Decided ==
    stage \in {"working", "answering"} =>
        /\ Turn <= Len(talk) /\ config \in Visited(talk)
        /\ \E w : Deserves(talk[Turn], w, config) /\ Became(w)
        /\ talk[Turn].keep => coming = <<>>
        /\ stage = "working" => coming = <<>>

Good(B) == Shape(B) /\ AnsweredSoFar /\ LaunchedSoFar /\ Reading(B) /\ Decided

\* What is assumed.
Given(B, M) == LimitsAreSizes /\ MadeOf(M, B) /\ ByTheRules

\* The request whose turn it is, by itself.
LEMMA ItsTurn ==
    ASSUME ByTheRules, talk \in Conversations, NEW S, talk \in Seq(S), NEW k \in 1..Len(talk),
           \A j \in 1..(k - 1) : talk[j].keep, NEW before \in Visited(talk)
    PROVE  \E run : ByItself(talk[k], before, run, Visited(talk))
<1>1. k \in DOMAIN talk
  OBVIOUS
<1> QED
  BY <1>1 DEF ByTheRules

\* A peer that has another request sends it.
LEMMA Begins ==
    ASSUME NEW B, NEW run, NEW bytes \in Seq(B), NEW limit, IsRun(run, bytes, limit)
    PROVE  LET r == Parser!NewRequest(limit)
           IN  /\ IsRequest(r) /\ r.raw \in Seq(B)
               /\ 1 \in 1..Len(run) /\ IsRequest(run[1]) /\ Joined(r, bytes, run[1])
<1> DEFINE r == Parser!NewRequest(limit)
<1>1. r.raw = <<>> /\ IsRequest(r)
  BY DEF IsRequest, Fields, Parser!NewRequest
<1>2. r.raw \in Seq(B) /\ r.raw \o bytes = bytes
  BY <1>1
<1>4. 1 \in 1..Len(run) /\ run[1] = Parser!Feed(r, bytes)
  BY DEF IsRun
<1>5. /\ IsRequest(Parser!Feed(r, bytes)) /\ Agree(r, Parser!Feed(r, bytes))
      /\ Parser!Feed(r, bytes).raw = r.raw \o bytes
  <2> HIDE DEF r
  <2> QED
    BY <1>1 DEF IsRequest, Fields, Agree, Parser!Feed
<1> QED
  BY <1>1, <1>2, <1>4, <1>5 DEF Joined

LEMMA TalkIs ==
    ASSUME NEW B, NEW M, MadeOf(M, B), talk \in Conversations
    PROVE  /\ talk \in Seq(M) /\ Len(talk) \in Nat /\ DOMAIN talk = 1..Len(talk)
           /\ \A k \in 1..Len(talk) : talk[k].bytes \in Seq(B)
  BY DEF MadeOf

LEMMA InitGood ==
    ASSUME NEW B, NEW M, Given(B, M), Init
    PROVE  Good(B)
<1>1. /\ talk \in Conversations /\ coming = Due(0) /\ stage = "reading" /\ config = 1 /\ ~feeding
      /\ replies = <<>> /\ inputs = [k \in 1..(Len(talk) + 1) |-> <<>>]
      /\ request = Parser!NewRequest(Servers[1].limit)
  BY DEF Init
<1>2. /\ talk \in Seq(M) /\ Len(talk) \in Nat
      /\ \A k \in 1..Len(talk) : talk[k].bytes \in Seq(B)
  BY <1>1, TalkIs DEF Given
<1>3. Len(replies) = 0 /\ Turn = 1
  BY <1>1 DEF Turn
<1>4. ASSUME Len(talk) > 0
      PROVE  /\ coming \in Seq(B)
             /\ \E run : ByItself(talk[Turn], config, run, Visited(talk)) /\ OnTheWay(B, run)
  <2> DEFINE k == 1
  <2>1. k \in 1..Len(talk) /\ \A j \in 1..(k - 1) : talk[j].keep
    BY <1>2, <1>4
  <2>2. config \in Visited(talk)
    BY <1>1 DEF Visited
  <2>3. PICK run : ByItself(talk[k], config, run, Visited(talk))
    <3> HIDE DEF k
    <3> QED
      BY <1>1, <1>2, <2>1, <2>2, ItsTurn DEF Given
  <2>4. IsRun(run, talk[k].bytes, Servers[1].limit)
    BY <1>1, <2>3 DEF ByItself
  <2>5. coming = talk[k].bytes /\ coming \in Seq(B)
    BY <1>1, <1>2, <1>4, <2>1 DEF Due
  <2> DEFINE r == Parser!NewRequest(Servers[1].limit)
  <2>6. /\ IsRequest(r) /\ r.raw \in Seq(B)
        /\ 1 \in 1..Len(run) /\ IsRequest(run[1]) /\ Joined(r, coming, run[1])
    BY <2>4, <2>5, Begins
  <2>7. OnTheWay(B, run)
    BY <1>1, <2>6 DEF OnTheWay
  <2>8. talk[k] = talk[Turn]
    BY <1>3
  <2> HIDE DEF k
  <2> QED
    BY <2>3, <2>5, <2>7, <2>8
<1>5. ASSUME ~(Len(talk) > 0) PROVE coming = <<>> /\ Len(talk) = 0
  BY <1>1, <1>2, <1>5 DEF Due
<1>6. Shape(B)
  <2>1. replies \in Seq({})
    BY <1>1
  <2>2. coming \in Seq(B)
    <3>1. CASE Len(talk) > 0
      BY <1>4, <3>1
    <3>2. CASE ~(Len(talk) > 0)
      <4>1. coming = <<>>
        BY <1>5, <3>2
      <4> QED
        BY <4>1
    <3> QED
      BY <3>1, <3>2
  <2> QED
    BY <1>1, <1>2, <1>3, <2>1, <2>2 DEF Shape
<1>7. AnsweredSoFar
  BY <1>1, <1>3 DEF AnsweredSoFar
<1>8. LaunchedSoFar
  BY <1>1, <1>3 DEF LaunchedSoFar, Launched
<1>9. Reading(B)
  BY <1>1, <1>2, <1>3, <1>4, <1>5 DEF Reading
<1>10. Decided
  BY <1>1 DEF Decided
<1> QED
  BY <1>6, <1>7, <1>8, <1>9, <1>10 DEF Good

\* What the steps of the parser leave alone.
LEMMA OnlyReading ==
    ASSUME NEW B, Good(B), coming' \in Seq(B), stage = "reading",
           UNCHANGED <<talk, stage, config, replies, inputs>>, Reading(B)'
    PROVE  Good(B)'
<1>1. Shape(B)'
  BY DEF Good, Shape
<1>2. AnsweredSoFar'
  BY DEF Good, AnsweredSoFar, Matches
<1>3. LaunchedSoFar'
  BY DEF Good, LaunchedSoFar, Launched, ForScript, Turn
<1>4. Decided'
  BY DEF Decided
<1> QED
  BY <1>1, <1>2, <1>3, <1>4 DEF Good

\* A fragment arrives.
LEMMA ReceiveJoined ==
    ASSUME NEW B, NEW s \in Seq(B), NEW n \in 1..Len(s), NEW r, NEW w, IsRequest(r),
           r.raw \in Seq(B), Joined(r, s, w)
    PROVE  LET rr == Parser!Feed(r, SubSeq(s, 1, n))
           IN  IsRequest(rr) /\ rr.raw \in Seq(B) /\ Joined(rr, Parser!Drop(s, n), w)
<1> DEFINE rr == Parser!Feed(r, SubSeq(s, 1, n))
           f == SubSeq(s, 1, n)
           d == Parser!Drop(s, n)
           q == r.raw
<1>1. f \in Seq(B) /\ d \in Seq(B)
  <2>1. n \in 0..Len(s)
    OBVIOUS
  <2>2. d \in Seq(B)
    BY <2>1, DropIs
  <2> QED
    BY <2>2
<1>2. f \o d = s
  <2>1. Len(f) = n /\ \A i \in 1..n : f[i] = s[i]
    OBVIOUS
  <2>2. n \in 0..Len(s)
    OBVIOUS
  <2>3. Len(d) = Len(s) - n /\ \A i \in 1..(Len(s) - n) : d[i] = s[n + i]
    BY <2>2, DropIs
  <2> HIDE DEF f, d
  <2>4. /\ f \o d \in Seq(B) /\ Len(f \o d) = Len(f) + Len(d)
        /\ \A i \in 1..Len(f) : (f \o d)[i] = f[i]
        /\ \A i \in (Len(f) + 1)..(Len(f) + Len(d)) : (f \o d)[i] = d[i - Len(f)]
    BY <1>1, Concat
  <2>6. Len(f \o d) = Len(s)
    BY <2>1, <2>3, <2>4
  <2>5. ASSUME NEW i \in 1..Len(s) PROVE (f \o d)[i] = s[i]
    <3>1. CASE i <= n
      BY <2>1, <2>4, <3>1
    <3>2. CASE i > n
      <4>1. i \in (Len(f) + 1)..(Len(f) + Len(d)) /\ i - n \in 1..(Len(s) - n) /\ n + (i - n) = i
        BY <2>1, <2>3, <3>2
      <4>2. d[i - n] = s[n + (i - n)]
        BY <2>3, <4>1
      <4> QED
        BY <2>1, <2>4, <4>1, <4>2
    <3>3. i <= n \/ i > n
      OBVIOUS
    <3> QED
      BY <3>1, <3>2, <3>3, Zenon
  <2> QED
    BY <2>4, <2>5, <2>6, SeqEqual
<1>3. IsRequest(rr) /\ rr.raw = q \o f /\ Agree(rr, w)
  BY DEF IsRequest, Fields, Agree, Joined, Parser!Feed
<1>4. q \in Seq(B) /\ w.raw = q \o s
  BY DEF Joined
<1>5. q \o f \in Seq(B)
  <2> HIDE DEF f, q
  <2> QED
    BY <1>1, <1>4, Concat
<1>6. w.raw = rr.raw \o d
  <2> HIDE DEF f, d, q, rr
  <2>1. Cat(f, d) = s
    BY <1>2 DEF Cat
  <2>2. Cat(Cat(q, f), d) = Cat(q, s)
    BY <1>1, <1>4, <2>1, ThreePieces
  <2> QED
    BY <1>3, <1>4, <2>2 DEF Cat
<1> QED
  BY <1>3, <1>5, <1>6 DEF Joined

LEMMA ReceiveGood ==
    ASSUME NEW B, Good(B), NEW n \in 1..Len(coming), Receive(n)
    PROVE  Good(B)'
<1>1. /\ stage \in {"reading", "working"} /\ feeding' = TRUE
      /\ request' = Parser!Feed(request, SubSeq(coming, 1, n))
      /\ coming' = Parser!Drop(coming, n)
      /\ talk' = talk /\ stage' = stage /\ config' = config /\ replies' = replies /\ inputs' = inputs
  BY DEF Receive
<1>2. coming \in Seq(B) /\ coming # <<>>
  BY DEF Good, Shape
<1>3. stage = "reading" /\ Turn <= Len(talk)
  BY <1>1, <1>2 DEF Good, Reading, Decided
<1> PICK run : ByItself(talk[Turn], config, run, Visited(talk)) /\ OnTheWay(B, run)
  BY <1>1, <1>2, <1>3 DEF Good, Reading
<1>4. Turn' = Turn
  BY <1>1 DEF Turn
<1>5. PICK k \in 1..Len(run) : IsRequest(run[k]) /\ Joined(request, coming, run[k])
  BY DEF OnTheWay
<1>6. IsRequest(request') /\ request'.raw \in Seq(B) /\ Joined(request', coming', run[k])
  <2>1. IsRequest(request) /\ request.raw \in Seq(B)
    BY DEF OnTheWay
  <2> QED
    BY <1>1, <1>2, <1>5, <2>1, ReceiveJoined
<1>7. OnTheWay(B, run)'
  BY <1>5, <1>6 DEF OnTheWay
<1>8. Reading(B)'
  BY <1>1, <1>3, <1>4, <1>7 DEF Reading
<1>9. coming' \in Seq(B)
  <2>1. n \in 0..Len(coming)
    BY <1>2
  <2> QED
    BY <1>1, <1>2, <2>1, DropIs
<1> QED
  BY <1>1, <1>3, <1>8, <1>9, OnlyReading

\* The step by itself that the parser is at, while it is read.
LEMMA AtStep ==
    ASSUME NEW B, NEW M, Given(B, M), Good(B), feeding
    PROVE  /\ stage = "reading" /\ Turn \in 1..Len(talk)
           /\ Len(talk) \in Nat /\ Len(replies) \in Nat /\ Len(replies) = Turn - 1
           /\ \E run : ByItself(talk[Turn], config, run, Visited(talk)) /\ OnTheWay(B, run)
<1>1. stage = "reading" /\ talk \in Conversations /\ Len(replies) \in Nat
  BY DEF Good, Shape
<1>2. talk \in Seq(M) /\ Len(talk) \in Nat
  BY <1>1, TalkIs DEF Given
<1>3. /\ Turn <= Len(talk)
      /\ \E run : ByItself(talk[Turn], config, run, Visited(talk)) /\ OnTheWay(B, run)
  BY <1>1 DEF Good, Reading
<1>4. Turn \in 1..Len(talk) /\ Len(replies) = Turn - 1
  BY <1>1, <1>2, <1>3 DEF Turn
<1> QED
  BY <1>1, <1>2, <1>3, <1>4

LEMMA ParseGood ==
    ASSUME NEW B, NEW M, Given(B, M), Good(B), Parse, ~late'
    PROVE  Good(B)'
<1>1. /\ feeding /\ ~Parser!Quiet(request) /\ request' = Parser!Parse(request)
      /\ feeding' = feeding /\ coming' = coming /\ ~ComesLate
      /\ talk' = talk /\ stage' = stage /\ config' = config /\ replies' = replies /\ inputs' = inputs
  BY DEF Parse
<1>2. stage = "reading" /\ Turn \in 1..Len(talk) /\ Len(talk) \in Nat
  BY <1>1, AtStep
<1> PICK run : ByItself(talk[Turn], config, run, Visited(talk)) /\ OnTheWay(B, run)
  BY <1>1, AtStep
<1>3. coming \in Seq(B) /\ Turn' = Turn
  BY <1>1 DEF Good, Shape, Turn
<1>4. PICK k \in 1..Len(run) : IsRequest(run[k]) /\ Joined(request, coming, run[k])
  BY DEF OnTheWay
<1>5. IsRequest(request) /\ request.raw \in Seq(B)
  BY DEF OnTheWay
<1>6. ~Parser!Done(request)
  BY <1>1, DoneIsQuiet
<1>7. ~Parser!Done(run[k])
  BY <1>4, <1>6 DEF Joined, Agree, Parser!Done
<1>8. /\ k \in 1..(Len(run) - 1) /\ k + 1 \in 1..Len(run)
      /\ WellFormed(run[k]) /\ run[k + 1] = Parser!Parse(run[k])
  <2>1. Len(run) \in Nat \ {0} /\ Parser!Done(run[Len(run)])
    BY DEF ByItself, IsRun
  <2>2. k # Len(run)
    BY <1>7, <2>1
  <2>3. k \in 1..(Len(run) - 1) /\ k + 1 \in 1..Len(run)
    BY <2>1, <2>2
  <2> QED
    BY <2>3 DEF ByItself, IsRun
<1>9. Parser!AtLastChunk(request) => Len(Parser!AfterLine(request)) >= 2 \/ coming = <<>>
  <2>1. Parser!AtLastChunk(request) => Len(Parser!AfterLine(request)) \in Nat
    <3> SUFFICES ASSUME Parser!AtLastChunk(request) PROVE Len(Parser!AfterLine(request)) \in Nat
      OBVIOUS
    <3>1. Parser!HasLine(request)
      BY DEF Parser!AtLastChunk, Parser!AtLine
    <3>2. SameLine(B, request, coming, run[k])
      BY <1>3, <1>4, <1>5, <3>1, FirstLine DEF Joined
    <3>3. Parser!AfterLine(request) \in Seq(B)
      BY <3>2 DEF SameLine
    <3> QED
      BY <3>3
  <2> QED
    BY <1>1, <2>1 DEF ComesLate
<1>10. Ahead(B, request', coming, run[k + 1])
  BY <1>1, <1>3, <1>4, <1>5, <1>8, <1>9, ParseJoined DEF Given
<1>11. OnTheWay(B, run)'
  BY <1>1, <1>8, <1>10 DEF OnTheWay, Ahead
<1>12. Reading(B)'
  BY <1>1, <1>2, <1>3, <1>11 DEF Reading
<1> QED
  BY <1>1, <1>2, <1>3, <1>12, OnlyReading

LEMMA AwaitMoreGood ==
    ASSUME NEW B, Good(B), AwaitMore
    PROVE  Good(B)'
<1>1. /\ feeding /\ feeding' = FALSE /\ request' = request /\ coming' = coming
      /\ talk' = talk /\ stage' = stage /\ config' = config /\ replies' = replies /\ inputs' = inputs
  BY DEF AwaitMore, FeedReturned
<1>2. stage = "reading" /\ coming \in Seq(B) /\ Turn' = Turn
  BY <1>1 DEF Good, Shape, Turn
<1>3. \A run : OnTheWay(B, run) => OnTheWay(B, run)'
  BY <1>1 DEF OnTheWay
<1>4. Reading(B)'
  BY <1>1, <1>2, <1>3 DEF Good, Reading
<1> QED
  BY <1>1, <1>2, <1>4, OnlyReading

LEMMA NothingLeft ==
    ASSUME NEW B, NEW q \in Seq(B), NEW s \in Seq(B), q \o s = <<>>
    PROVE  s = <<>>
<1>1. Len(q \o s) = Len(q) + Len(s)
  BY Concat
<1>2. Len(q) \in Nat /\ Len(s) \in Nat /\ Len(q) + Len(s) = 0
  BY <1>1
<1> QED
  BY <1>2

\* _processRequest launches the script if the request deserves it.
LEMMA RespondGood ==
    ASSUME NEW B, NEW M, Given(B, M), Good(B), Respond
    PROVE  Good(B)'
<1>1. /\ feeding /\ Parser!Done(request) /\ feeding' = FALSE
      /\ config' = ConfigFor(request, config)
      /\ request' = IF config' # config THEN [request EXCEPT !.maxBodySize = Servers[config'].limit]
                    ELSE request
      /\ talk' = talk /\ coming' = coming /\ replies' = replies
  BY DEF Respond, FeedReturned
<1> PICK run : ByItself(talk[Turn], config, run, Visited(talk)) /\ OnTheWay(B, run)
  BY <1>1, AtStep
<1> DEFINE w == run[Len(run)]
           m == talk[Turn]
<1>2. /\ stage = "reading" /\ Turn \in 1..Len(talk) /\ Len(talk) \in Nat
      /\ Len(replies) \in Nat /\ Len(replies) = Turn - 1
      /\ Deserves(m, w, ConfigFor(w, config)) /\ ConfigFor(w, config) \in Visited(talk)
  <2>1. Deserves(m, w, ConfigFor(w, config)) /\ ConfigFor(w, config) \in Visited(talk)
    BY DEF ByItself
  <2> QED
    BY <1>1, <2>1, AtStep
<1>3. coming \in Seq(B) /\ Turn' = Turn /\ request.raw \in Seq(B) /\ IsRequest(request)
  BY <1>1, <1>2 DEF Good, Shape, Turn, OnTheWay
<1>4. Joined(request, coming, w)
  <2>1. PICK k \in 1..Len(run) : IsRequest(run[k]) /\ Joined(request, coming, run[k])
    BY DEF OnTheWay
  <2>2. Parser!Done(run[k])
    BY <1>1, <2>1 DEF Joined, Agree, Parser!Done
  <2>3. Len(run) \in Nat \ {0} /\ \A j \in 1..(Len(run) - 1) : ~Parser!Quiet(run[j])
    BY DEF ByItself, IsRun
  <2>4. ~(k \in 1..(Len(run) - 1))
    BY <2>2, <2>3, DoneIsQuiet
  <2>5. k = Len(run)
    BY <2>3, <2>4
  <2> QED
    BY <2>1, <2>5
<1>5. /\ request.line = w.line /\ request.headers = w.headers /\ request.body = w.body
      /\ request.errorCode = w.errorCode /\ request.contentLength = w.contentLength
      /\ w.raw = request.raw \o coming
  BY <1>4 DEF Joined, Agree
<1>6. Became(w)'
  <2>1. Became(w)
    BY <1>5 DEF Became
  <2>2. /\ request'.line = request.line /\ request'.headers = request.headers
        /\ request'.body = request.body /\ request'.errorCode = request.errorCode
    BY <1>1, <1>3 DEF IsRequest, Fields
  <2> HIDE DEF w
  <2> QED
    BY <2>1, <2>2 DEF Became
<1>7. config' = ConfigFor(w, config)
  BY <1>1, <1>5 DEF ConfigFor
<1>8. w.raw = <<>> => coming = <<>>
  <2> HIDE DEF w
  <2> DEFINE q == request.raw
  <2>1. w.raw = q \o coming /\ q \in Seq(B)
    BY <1>3, <1>5
  <2> HIDE DEF q
  <2> QED
    BY <1>3, <2>1, NothingLeft
<1>9. m.keep \/ ForScript(m) => coming = <<>>
  BY <1>2, <1>8 DEF Deserves
<1>10. NeedsCGI(request) <=> ForScript(m)
  BY <1>2, <1>5 DEF Deserves, NeedsCGI, ForScript
<1>11. /\ stage' = IF ForScript(m) THEN "working" ELSE "answering"
       /\ ForScript(m) => Launch
       /\ ~ForScript(m) => inputs' = inputs
  BY <1>10 DEF Respond
<1>12. ForScript(m) => <<request.body, request.contentLength>> = <<m.body, Len(m.body)>>
  BY <1>2, <1>5 DEF Deserves, ForScript
<1>13. Shape(B)'
  BY <1>1, <1>11 DEF Good, Shape
<1>14. AnsweredSoFar'
  BY <1>1, <1>2, <1>11 DEF Good, AnsweredSoFar, Matches
<1>15. LaunchedSoFar'
  <2>1. /\ DOMAIN inputs = 1..(Len(talk) + 1)
        /\ \A k \in 1..(Len(talk) + 1) :
              inputs[k] = IF Launched(k) THEN << <<talk[k].body, Len(talk[k].body)>> >> ELSE <<>>
    BY DEF Good, LaunchedSoFar
  <2>2. Turn \in DOMAIN inputs /\ inputs[Turn] = <<>>
    <3>1. Turn \in 1..(Len(talk) + 1) /\ ~(Turn <= Len(replies))
      BY <1>2
    <3>2. ~Launched(Turn)
      BY <1>2, <3>1 DEF Launched
    <3> QED
      BY <2>1, <3>1, <3>2
  <2>3. \A k \in 1..(Len(talk) + 1) : k # Turn => (Launched(k)' <=> Launched(k))
    BY <1>1, <1>2, <1>3, <1>11 DEF Launched, ForScript
  <2>4. \A k : k = Turn => (Launched(k)' <=> ForScript(m))
    BY <1>1, <1>2, <1>3, <1>11 DEF Launched, ForScript
  <2>5. inputs'[Turn] = IF ForScript(m) THEN << <<m.body, Len(m.body)>> >> ELSE <<>>
    <3>1. ASSUME ForScript(m) PROVE inputs'[Turn] = << <<m.body, Len(m.body)>> >>
      <4>1. inputs' = [inputs EXCEPT ![Turn] = Append(@, <<request.body, request.contentLength>>)]
        BY <1>11, <3>1 DEF Launch, Turn
      <4>2. inputs'[Turn] = Append(<<>>, <<request.body, request.contentLength>>)
        BY <2>2, <4>1
      <4> QED
        BY <1>12, <3>1, <4>2
    <3> QED
      BY <1>11, <2>2, <3>1
  <2>6. /\ DOMAIN inputs' = DOMAIN inputs
        /\ \A k \in DOMAIN inputs : k # Turn => inputs'[k] = inputs[k]
    <3>1. CASE ForScript(m)
      BY <1>11, <3>1 DEF Launch, Turn
    <3>2. CASE ~ForScript(m)
      BY <1>11, <3>2
    <3> QED
      BY <3>1, <3>2
  <2>7. ASSUME NEW k \in 1..(Len(talk) + 1)
        PROVE  inputs'[k] = IF Launched(k)' THEN << <<talk[k].body, Len(talk[k].body)>> >> ELSE <<>>
    <3>1. CASE k = Turn
      BY <2>4, <2>5, <3>1
    <3>2. CASE k # Turn
      <4>1. inputs'[k] = inputs[k] /\ (Launched(k)' <=> Launched(k))
        BY <2>1, <2>3, <2>6, <3>2
      <4> QED
        BY <2>1, <4>1
    <3> QED
      BY <3>1, <3>2
  <2> QED
    BY <1>1, <2>1, <2>6, <2>7 DEF LaunchedSoFar
<1>16. Reading(B)'
  BY <1>11 DEF Reading
<1>17. Decided'
  <2>1. talk'[Turn'].keep => coming' = <<>>
    BY <1>1, <1>3, <1>9
  <2>2. stage' = "working" => coming' = <<>>
    BY <1>1, <1>9, <1>11
  <2>3. Turn' <= Len(talk') /\ config' \in Visited(talk)'
    BY <1>1, <1>2, <1>3, <1>7 DEF Visited
  <2>4. Deserves(talk'[Turn'], w, config')
    BY <1>1, <1>2, <1>3, <1>7
  <2> HIDE DEF w
  <2> QED
    BY <1>6, <2>1, <2>2, <2>3, <2>4 DEF Decided
<1> QED
  BY <1>13, <1>14, <1>15, <1>16, <1>17 DEF Good

LEMMA ScriptEndsGood ==
    ASSUME NEW B, Good(B), ScriptEnds
    PROVE  Good(B)'
<1>1. /\ stage = "working" /\ stage' = "answering" /\ feeding' = feeding /\ ~feeding
      /\ talk' = talk /\ coming' = coming /\ request' = request /\ config' = config
      /\ replies' = replies /\ inputs' = inputs
  BY DEF ScriptEnds
<1>2. Turn' = Turn
  BY <1>1 DEF Turn
<1>3. Shape(B)'
  BY <1>1 DEF Good, Shape
<1>4. AnsweredSoFar'
  BY <1>1 DEF Good, AnsweredSoFar, Matches
<1>5. LaunchedSoFar'
  <2>1. \A k : Launched(k)' <=> Launched(k)
    BY <1>1, <1>2 DEF Launched, ForScript
  <2> QED
    BY <1>1, <2>1 DEF Good, LaunchedSoFar
<1>6. Reading(B)'
  BY <1>1 DEF Reading
<1>7. Decided'
  BY <1>1, <1>2 DEF Good, Decided, Became, Visited
<1> QED
  BY <1>3, <1>4, <1>5, <1>6, <1>7 DEF Good

\* The reply is what was deserved, and the next request begins afresh.
LEMMA HandleWriteGood ==
    ASSUME NEW B, NEW M, Given(B, M), Good(B),
           HandleWrite
    PROVE  Good(B)'
<1> DEFINE m == talk[Turn]
           next == Turn + 1
<1>1. /\ stage = "answering" /\ replies' = Append(replies, Reply) /\ talk' = talk
      /\ feeding' = feeding /\ config' = config /\ inputs' = inputs
      /\ ShouldKeepAlive(request) =>
            /\ stage' = "reading" /\ request' = Parser!NewRequest(Servers[config].limit)
            /\ coming' = coming \o Due(Len(replies'))
      /\ ~ShouldKeepAlive(request) => stage' = "closed" /\ coming' = coming
  BY DEF HandleWrite
<1> PICK w : Deserves(m, w, config) /\ Became(w)
  BY <1>1 DEF Good, Decided
<1>2. /\ Turn <= Len(talk) /\ config \in Visited(talk)
      /\ m.keep => coming = <<>>
      /\ coming \in Seq(B) /\ ~feeding /\ talk \in Conversations /\ Len(replies) \in Nat
  BY <1>1 DEF Good, Decided, Shape
<1>3. /\ talk \in Seq(M) /\ Len(talk) \in Nat
      /\ \A k \in 1..Len(talk) : talk[k].bytes \in Seq(B)
  BY <1>2, TalkIs DEF Given
<1>4. Turn \in 1..Len(talk) /\ Len(replies) = Turn - 1
  BY <1>2, <1>3 DEF Turn
<1>5. \A j \in 1..(Turn - 1) : talk[j].keep
  BY <1>1, <1>4 DEF Good, AnsweredSoFar
<1>7. PICK S : replies \in Seq(S)
  BY DEF Good, Shape
<1>8. /\ Len(replies') = Turn /\ replies'[Turn] = Reply
      /\ \A j \in 1..(Turn - 1) : replies'[j] = replies[j]
      /\ replies' \in Seq(S \cup {Reply})
  <2>1. replies \in Seq(S \cup {Reply}) /\ Turn = Len(replies) + 1
    BY <1>7 DEF Turn
  <2> HIDE DEF Turn
  <2> QED
    BY <1>1, <1>4, <2>1
<1>9. Turn' = next
  BY <1>8 DEF Turn
<1>10. Matches(Reply, m)
  BY DEF Matches, Reply, Became, Deserves
<1>11. ShouldKeepAlive(request) = ShouldKeepAlive(w) /\ m.keep = ShouldKeepAlive(w)
  <2>1. ShouldKeepAlive(request) = ShouldKeepAlive(w)
    BY DEF Became, ShouldKeepAlive
  <2>2. m.keep = ShouldKeepAlive(w)
    BY DEF Deserves
  <2> QED
    BY <2>1, <2>2
<1>12. ShouldKeepAlive(request) = m.keep
  BY <1>11
<1>13. ASSUME m.keep, next <= Len(talk)
       PROVE  /\ coming' \in Seq(B)
              /\ \E run : ByItself(talk[next], config, run, Visited(talk)) /\ OnTheWay(B, run)'
  <2>1. coming' = Due(Turn) /\ request' = Parser!NewRequest(Servers[config].limit)
    <3>1. coming' = <<>> \o Due(Turn) /\ request' = Parser!NewRequest(Servers[config].limit)
      BY <1>1, <1>2, <1>8, <1>12, <1>13
    <3>2. Due(Turn) = talk[next].bytes /\ Due(Turn) \in Seq(B)
      BY <1>3, <1>4, <1>13 DEF Due
    <3>3. <<>> \o Due(Turn) = Due(Turn)
      BY <3>2
    <3> QED
      BY <3>1, <3>3
  <2>2. next \in 1..Len(talk) /\ \A j \in 1..(next - 1) : talk[j].keep
    <3>1. next \in 1..Len(talk) /\ \A j \in 1..(next - 1) : j \in 1..(Turn - 1) \/ j = Turn
      BY <1>3, <1>4, <1>13
    <3> QED
      BY <1>5, <1>13, <3>1
  <2>3. coming' = talk[next].bytes /\ coming' \in Seq(B)
    BY <1>3, <1>4, <1>13, <2>1, <2>2 DEF Due
  <2>4. PICK run : ByItself(talk[next], config, run, Visited(talk))
    <3> HIDE DEF next
    <3> QED
      BY <1>2, <1>3, <2>2, ItsTurn DEF Given
  <2>5. IsRun(run, talk[next].bytes, Servers[config].limit)
    BY <2>4 DEF ByItself
  <2> DEFINE r == Parser!NewRequest(Servers[config].limit)
             bytes == talk[next].bytes
  <2>6. /\ IsRequest(r) /\ r.raw \in Seq(B)
        /\ 1 \in 1..Len(run) /\ IsRequest(run[1]) /\ Joined(r, bytes, run[1])
    BY <2>3, <2>5, Begins
  <2>7. request' = r /\ coming' = bytes
    BY <2>1, <2>3
  <2>8. OnTheWay(B, run)'
    <3> HIDE DEF r, bytes
    <3> QED
      BY <2>6, <2>7 DEF OnTheWay
  <2> QED
    BY <2>3, <2>4, <2>8
<1>14. ASSUME m.keep, ~(next <= Len(talk)) PROVE next = Len(talk) + 1 /\ coming' = <<>>
  <2>1. next = Len(talk) + 1
    BY <1>3, <1>4, <1>14
  <2>2. Due(Turn) = <<>>
    BY <1>3, <1>4, <1>14 DEF Due
  <2>3. coming' = <<>> \o <<>>
    BY <1>1, <1>2, <1>8, <1>12, <1>14, <2>2
  <2> QED
    BY <2>1, <2>3
<1>15. coming' \in Seq(B)
  <2>1. CASE ~m.keep
    BY <1>1, <1>2, <1>12, <2>1
  <2>2. CASE m.keep /\ next <= Len(talk)
    BY <1>13, <2>2
  <2>3. CASE m.keep /\ ~(next <= Len(talk))
    <3>1. coming' = <<>>
      BY <1>14, <2>3
    <3> QED
      BY <3>1
  <2> QED
    BY <2>1, <2>2, <2>3
<1>16. stage' = IF m.keep THEN "reading" ELSE "closed"
  BY <1>1, <1>12
<1>17. Shape(B)'
  <2>1. Len(replies') \in Nat /\ Len(replies') <= Len(talk')
    BY <1>1, <1>3, <1>4, <1>8
  <2>2. stage' \in {"reading", "working", "answering", "closed"} /\ ~feeding'
    BY <1>1, <1>2, <1>16
  <2>3. \E Q : replies' \in Seq(Q)
    BY <1>8
  <2> QED
    BY <1>1, <1>2, <1>3, <1>15, <2>1, <2>2, <2>3 DEF Shape
<1>18. AnsweredSoFar'
  <2>1. ASSUME NEW k \in 1..Len(replies')
        PROVE  /\ Matches(replies'[k], talk[k])
               /\ ~talk[k].keep => k = Len(replies') /\ stage' = "closed"
    <3>1. CASE k = Turn
      BY <1>8, <1>10, <1>16, <3>1
    <3>2. CASE k # Turn
      <4>1. k \in 1..(Turn - 1) /\ k \in 1..Len(replies)
        BY <1>4, <1>8, <3>2
      <4>2. Matches(replies[k], talk[k])
        BY <4>1 DEF Good, AnsweredSoFar
      <4> QED
        BY <1>5, <1>8, <4>1, <4>2
    <3> QED
      BY <3>1, <3>2
  <2>2. stage' = "closed" => Len(replies') > 0 /\ ~talk[Len(replies')].keep
    BY <1>4, <1>8, <1>16
  <2> QED
    BY <1>1, <2>1, <2>2 DEF AnsweredSoFar, Matches
<1>19. LaunchedSoFar'
  <2>1. \A k : Launched(k)' <=> Launched(k)
    BY <1>1, <1>3, <1>4, <1>8, <1>9, <1>16 DEF Launched, ForScript
  <2> QED
    BY <1>1, <2>1 DEF Good, LaunchedSoFar
<1>20. Reading(B)'
  <2>1. CASE ~m.keep
    BY <1>16, <2>1 DEF Reading
  <2>2. CASE m.keep /\ next <= Len(talk)
    BY <1>1, <1>9, <1>13, <2>2 DEF Reading, Visited
  <2>3. CASE m.keep /\ ~(next <= Len(talk))
    BY <1>1, <1>2, <1>9, <1>14, <2>3 DEF Reading
  <2> QED
    BY <2>1, <2>2, <2>3
<1>21. Decided'
  BY <1>16 DEF Decided
<1> QED
  BY <1>17, <1>18, <1>19, <1>20, <1>21 DEF Good

-----------------------------------------------------------------------------
(* Theorems.                                                               *)

\* It holds as long as no CRLF after a last chunk comes late.
GoodUnlessLate(B) == late \/ Good(B)

LEMMA AlwaysGood ==
    ASSUME NEW M, NEW B, Given(B, M)
    PROVE  Spec => []GoodUnlessLate(B)
<1>1. Init => GoodUnlessLate(B)
  BY InitGood DEF GoodUnlessLate
<1>2. GoodUnlessLate(B) /\ [Next]_vars => GoodUnlessLate(B)'
  <2> SUFFICES ASSUME GoodUnlessLate(B), [Next]_vars, ~late' PROVE Good(B)'
    BY DEF GoodUnlessLate
  <2>1. ~late
    BY DEF Next, Step, vars, Receive, Parse, AwaitMore, Respond, ScriptEnds, HandleWrite
  <2>2. Good(B)
    BY <2>1 DEF GoodUnlessLate
  <2>3. ASSUME NEW n \in 1..Len(coming), Receive(n) PROVE Good(B)'
    BY <2>2, <2>3, ReceiveGood
  <2>4. CASE Parse
    BY <2>2, <2>4, ParseGood
  <2>5. CASE AwaitMore
    BY <2>2, <2>5, AwaitMoreGood
  <2>6. CASE Respond
    BY <2>2, <2>6, RespondGood
  <2>7. CASE ScriptEnds
    BY <2>2, <2>7, ScriptEndsGood
  <2>8. CASE HandleWrite
    BY <2>2, <2>8, HandleWriteGood
  <2>9. CASE UNCHANGED vars
    <3>1. Turn' = Turn
      BY <2>9 DEF vars, Turn
    <3>2. Shape(B)' /\ AnsweredSoFar'
      BY <2>2, <2>9 DEF vars, Good, Shape, AnsweredSoFar, Matches
    <3>3. \A k : Launched(k)' <=> Launched(k)
      BY <2>9, <3>1 DEF vars, Launched, ForScript
    <3>4. LaunchedSoFar'
      BY <2>2, <2>9, <3>3 DEF vars, Good, LaunchedSoFar
    <3>5. \A run : OnTheWay(B, run) => OnTheWay(B, run)'
      BY <2>9 DEF vars, OnTheWay
    <3>6. Reading(B)'
      BY <2>2, <2>9, <3>1, <3>5 DEF vars, Good, Reading
    <3>7. Decided'
      BY <2>2, <2>9, <3>1 DEF vars, Good, Decided, Became
    <3> QED
      BY <3>2, <3>4, <3>6, <3>7 DEF Good
  <2> QED
    BY <2>3, <2>4, <2>5, <2>6, <2>7, <2>8, <2>9 DEF Next, Step
<1> DEFINE Inv == GoodUnlessLate(B)
<1>3. Init => Inv
  BY <1>1
<1>4. Inv /\ [Next]_vars => Inv'
  BY <1>2
<1> HIDE DEF Inv
<1>5. Spec => []Inv
  BY <1>3, <1>4, PTL DEF Spec
<1> QED
  BY <1>5 DEF Inv

\* Replies come in the order of the requests, each with what its request
\* deserves by itself, however the bytes were cut on their way to recv(), unless
\* a cut made the CRLF after a last chunk come late.
THEOREM RepliesAreDeserved ==
    ASSUME NEW M, NEW B, LimitsAreSizes, MadeOf(M, B), ByTheRules
    PROVE  Spec => []RepliesMatch
<1>1. GoodUnlessLate(B) => RepliesMatch
  <2> SUFFICES ASSUME GoodUnlessLate(B), ~late PROVE RepliesMatch
    BY DEF RepliesMatch
  <2>1. Good(B)
    BY DEF GoodUnlessLate
  <2>2. PICK S : replies \in Seq(S)
    BY <2>1 DEF Good, Shape
  <2>3. talk \in Seq(M) /\ Len(talk) \in Nat /\ Len(replies) \in Nat /\ Len(replies) <= Len(talk)
    BY <2>1, TalkIs DEF Good, Shape
  <2>4. DOMAIN replies = 1..Len(replies) /\ DOMAIN talk = 1..Len(talk)
    BY <2>2, <2>3
  <2>5. \A k \in 1..Len(replies) : Matches(replies[k], talk[k])
    BY <2>1 DEF Good, AnsweredSoFar
  <2>6. \A k \in 1..Len(replies) : k \in DOMAIN talk
    BY <2>3, <2>4
  <2> QED
    BY <2>4, <2>5, <2>6 DEF RepliesMatch, EachMatches, Matches
<1>2. Spec => []GoodUnlessLate(B)
  BY AlwaysGood DEF Given
<1> DEFINE Inv == GoodUnlessLate(B)
<1>3. (Inv => RepliesMatch) /\ (Spec => []Inv)
  BY <1>1, <1>2
<1> HIDE DEF Inv
<1> QED
  BY <1>3, PTL

\* Each request for a script launches it once, with its own whole body, before
\* it is answered; fragments launch nothing, unless the CRLF after a last chunk
\* comes late.
THEOREM ScriptsAreLaunchedOnce ==
    ASSUME NEW M, NEW B, LimitsAreSizes, MadeOf(M, B), ByTheRules
    PROVE  Spec => []LaunchedOnce
<1>1. GoodUnlessLate(B) => LaunchedOnce
  <2> SUFFICES ASSUME GoodUnlessLate(B), ~late PROVE LaunchedOnce
    BY DEF LaunchedOnce
  <2>1. Good(B)
    BY DEF GoodUnlessLate
  <2>2. PICK S : replies \in Seq(S)
    BY <2>1 DEF Good, Shape
  <2>3. talk \in Seq(M) /\ Len(talk) \in Nat /\ Len(replies) \in Nat /\ Len(replies) <= Len(talk)
    BY <2>1, TalkIs DEF Good, Shape
  <2>4. /\ DOMAIN replies = 1..Len(replies) /\ DOMAIN talk = 1..Len(talk)
        /\ DOMAIN inputs = 1..(Len(talk) + 1)
    BY <2>1, <2>2, <2>3 DEF Good, LaunchedSoFar
  <2>5. ASSUME NEW k \in DOMAIN inputs
        PROVE  \/ inputs[k] = <<>> /\ (k \in DOMAIN replies => ~ForScript(talk[k]))
               \/ /\ k \in DOMAIN talk /\ inputs[k] = << <<talk[k].body, Len(talk[k].body)>> >>
                  /\ ForScript(talk[k]) /\ k <= Len(replies) + 1
    <3>1. k \in 1..(Len(talk) + 1)
      BY <2>4
    <3>2. inputs[k] = IF Launched(k) THEN << <<talk[k].body, Len(talk[k].body)>> >> ELSE <<>>
      BY <2>1, <3>1 DEF Good, LaunchedSoFar
    <3>3. CASE Launched(k)
      BY <2>3, <2>4, <3>1, <3>2, <3>3 DEF Launched, Turn
    <3>4. CASE ~Launched(k)
      BY <2>3, <2>4, <3>1, <3>2, <3>4 DEF Launched
    <3> QED
      BY <3>3, <3>4
  <2> QED
    BY <2>5 DEF LaunchedOnce
<1>2. Spec => []GoodUnlessLate(B)
  BY AlwaysGood DEF Given
<1> DEFINE Inv == GoodUnlessLate(B)
<1>3. (Inv => LaunchedOnce) /\ (Spec => []Inv)
  BY <1>1, <1>2
<1> HIDE DEF Inv
<1> QED
  BY <1>3, PTL

\* The connection is closed after the request that asked for it, and no other,
\* unless the CRLF after a last chunk comes late.
THEOREM ClosesAreAskedFor ==
    ASSUME NEW M, NEW B, LimitsAreSizes, MadeOf(M, B), ByTheRules
    PROVE  Spec => []ClosedWhenAsked
<1>1. GoodUnlessLate(B) => ClosedWhenAsked
  <2> SUFFICES ASSUME GoodUnlessLate(B), ~late PROVE ClosedWhenAsked
    BY DEF ClosedWhenAsked
  <2>1. Good(B)
    BY DEF GoodUnlessLate
  <2>2. PICK S : replies \in Seq(S)
    BY <2>1 DEF Good, Shape
  <2>3. DOMAIN replies = 1..Len(replies)
    BY <2>2
  <2> QED
    BY <2>1, <2>3 DEF Good, AnsweredSoFar, ClosedWhenAsked
<1>2. Spec => []GoodUnlessLate(B)
  BY AlwaysGood DEF Given
<1> DEFINE Inv == GoodUnlessLate(B)
<1>3. (Inv => ClosedWhenAsked) /\ (Spec => []Inv)
  BY <1>1, <1>2
<1> HIDE DEF Inv
<1> QED
  BY <1>3, PTL

=============================================================================
