---------------------------- MODULE PartsProofs ----------------------------
(***************************************************************************)
(* Theorems about the other parts of module Parts, for every input.        *)
(***************************************************************************)
EXTENDS Parts, ResponseProofs, FiniteSetTheorems

-----------------------------------------------------------------------------
(* The servers of a configuration file.                                    *)

\* The servers are a list, and in an accepted one no two are the same.
Listed ==
    part = "Config" =>
        /\ \E S : servers \in Seq(S)
        /\ block = "accepted" =>
              \A a, b \in DOMAIN servers : a < b => ~K!Duplicate(servers[a], servers[b])

LEMMA AppendListed ==
    ASSUME NEW q, \E S : q \in Seq(S), NEW e
    PROVE  \E S : Append(q, e) \in Seq(S)
<1>1. PICK S : q \in Seq(S)
  OBVIOUS
<1>2. q \in Seq(S \cup {e}) /\ e \in S \cup {e}
  BY <1>1
<1>3. Append(q, e) \in Seq(S \cup {e})
  BY <1>2
<1> QED
  BY <1>3

\* Only Validate accepts, and only the end of a server block adds a server.
LEMMA ParseKeepsListed ==
    ASSUME Listed, part = "Config", K!Parse, UNCHANGED part
    PROVE  Listed'
<1>1. ASSUME block' # "accepted", UNCHANGED servers PROVE Listed'
  BY <1>1 DEF Listed
<1>2. CASE K!Validate
  BY <1>2 DEF K!Validate, Listed, K!Duplicate, K!SameAddress
<1>3. CASE K!ServerEnds
  <2>1. \E e : servers' = Append(servers, e)
    BY <1>3 DEF K!ServerEnds
  <2>2. \E S : servers' \in Seq(S)
    BY <2>1, AppendListed DEF Listed
  <2>3. block' = "top"
    BY <1>3 DEF K!ServerEnds
  <2> QED
    BY <2>2, <2>3 DEF Listed
<1>4. CASE K!ServerBlock \/ K!ListenNothing \/ K!LocationBlock \/ K!LocationEnds
  <2>1. block' # "accepted" /\ UNCHANGED servers
    BY <1>4 DEF K!ServerBlock, K!ListenNothing, K!LocationBlock, K!LocationEnds,
                K!Directive, K!Ends
  <2> QED
    BY <1>1, <2>1
<1>5. ASSUME NEW s, NEW k, block = "server", K!InServer(s, k) PROVE Listed'
  BY <1>1, <1>5 DEF K!InServer
<1>6. ASSUME NEW l, NEW k, block = "location", K!InLocation(l, k) PROVE Listed'
  BY <1>1, <1>6 DEF K!InLocation
<1>7. CASE \/ K!Listen \/ K!ServerName \/ K!ServerRoot \/ K!ServerIndex \/ K!ServerLimit
           \/ K!ErrorPage \/ K!UnknownInServer
  BY <1>5, <1>7 DEF K!Listen, K!ServerName, K!ServerRoot, K!ServerIndex, K!ServerLimit,
                    K!ErrorPage, K!UnknownInServer, K!Directive
<1>8. CASE \/ K!LocationRoot \/ K!LocationIndex \/ K!LocationMethods \/ K!Autoindex
           \/ K!Return \/ K!UploadDir \/ K!Cgi \/ K!LocationLimit \/ K!UnknownInLocation
  BY <1>6, <1>8 DEF K!LocationRoot, K!LocationIndex, K!LocationMethods, K!Autoindex, K!Return,
                    K!UploadDir, K!Cgi, K!LocationLimit, K!UnknownInLocation, K!Directive
<1> QED
  BY <1>2, <1>3, <1>4, <1>7, <1>8 DEF K!Parse

LEMMA ListedAlways == PartsSpec => []Listed
<1>1. PartsInit => Listed
  <2>1. <<>> \in Seq({})
    OBVIOUS
  <2> QED
    BY <2>1 DEF PartsInit, K!Init, Listed
<1>2. ASSUME Listed, [PartsNext]_partsVars PROVE Listed'
  <2>1. CASE UNCHANGED <<part, servers, block>>
    BY <1>2, <2>1 DEF Listed, K!Duplicate, K!SameAddress
  <2>2. CASE part = "Config" /\ K!Next /\ NotConfig
    <3>1. CASE K!Parse
      BY <1>2, <2>2, <3>1, ParseKeepsListed DEF NotConfig
    <3>2. CASE UNCHANGED K!vars
      BY <2>1, <2>2, <3>2 DEF K!vars, NotConfig
    <3> QED
      BY <2>2, <3>1, <3>2 DEF K!Next
  <2>3. CASE NotTokenizer \/ NotUri \/ NotResponse \/ NotForm \/ NotScript
    BY <2>1, <2>3 DEF NotTokenizer, NotUri, NotResponse, NotForm, NotScript, config
  <2> QED
    BY <1>2, <2>1, <2>2, <2>3 DEF PartsNext, partsVars, config
<1> QED
  BY <1>1, <1>2, PTL DEF PartsSpec

\* However many servers share an address, and whatever names they have: in an
\* accepted configuration _resolveConfig, which takes the first that has the
\* name, comes to the server the name was written for (Server.cpp:119-141).
THEOREM NamesLeadHome == PartsSpec => []NamesResolve
<1>1. ASSUME Listed PROVE NamesResolve
  <2> SUFFICES ASSUME part = "Config", block = "accepted", NEW s \in K!Range(servers),
                      NEW name \in K!Range(s.names)
               PROVE  K!ResolveConfig(K!SocketOf(s), name) = s
    BY DEF NamesResolve, K!NamesResolve
  <2> DEFINE named == {k \in K!SocketOf(s) : name \in K!Range(servers[k].names)}
             Least(k) == k \in named /\ \A j \in named : k <= j
  <2>1. PICK S : servers \in Seq(S)
    BY <1>1 DEF Listed
  <2>2. PICK a \in DOMAIN servers : servers[a] = s
    BY DEF K!Range
  <2>3. a \in named
    BY <2>2 DEF K!SocketOf, K!SameAddress
  <2>4. named \subseteq Nat /\ named \subseteq DOMAIN servers
    BY <2>1 DEF K!SocketOf
  <2>5. \E k \in named : \A j \in named : k <= j
    <3> HIDE DEF named
    <3> QED
      BY <2>3, <2>4, First
  <2>6. ASSUME NEW k, Least(k) PROVE servers[k] = s
    <3>1. k <= a /\ k \in DOMAIN servers /\ k \in Nat /\ a \in Nat
      BY <2>3, <2>4, <2>6
    <3>2. K!Duplicate(servers[k], servers[a])
      <4>1. K!SameAddress(servers[k], servers[a])
        BY <2>2, <2>6 DEF K!SocketOf, K!SameAddress
      <4>2. \E m \in DOMAIN servers[k].names, n \in DOMAIN servers[a].names :
               servers[k].names[m] = servers[a].names[n]
        BY <2>2, <2>6 DEF K!Range
      <4> QED
        BY <4>1, <4>2 DEF K!Duplicate
    <3>3. ~(k < a)
      BY <1>1, <2>2, <3>1, <3>2 DEF Listed
    <3> QED
      BY <2>2, <3>1, <3>3
  <2>7. K!ResolveConfig(K!SocketOf(s), name) = servers[CHOOSE k \in named : \A j \in named : k <= j]
    BY <2>3 DEF K!ResolveConfig, K!FirstOf
  <2> QED
    BY <2>5, <2>6, <2>7
<1> QED
  BY <1>1, ListedAlways, PTL

-----------------------------------------------------------------------------
(* The files of a form.                                                    *)

\* t begins at position k of s.
Begins(s, t, k) ==
    /\ k + Len(t) - 1 <= Len(s)
    /\ \A j \in 1..Len(t) : s[k + j - 1] = t[j]

LEMMA BeginsAt ==
    ASSUME NEW B, NEW s \in Seq(B), NEW t \in Seq(B), NEW k \in Nat \ {0}
    PROVE  k \in F!Found(s, t, k) <=> Begins(s, t, k)
<1> DEFINE m == k + Len(t) - 1
           piece == SubSeq(s, k, m)
<1>1. k \in F!Found(s, t, k) <=> m <= Len(s) /\ piece = t
  BY DEF F!Found
<1>2. ASSUME m <= Len(s)
      PROVE  /\ piece \in Seq(B) /\ Len(piece) = Len(t)
             /\ \A j \in 1..Len(t) : piece[j] = s[k + j - 1]
  BY <1>2
<1> HIDE DEF piece
<1>3. ASSUME m <= Len(s) PROVE piece = t <=> \A j \in 1..Len(t) : s[k + j - 1] = t[j]
  <2>1. ASSUME \A j \in 1..Len(t) : s[k + j - 1] = t[j] PROVE piece = t
    BY <1>2, <1>3, <2>1, SeqEqual
  <2> QED
    BY <1>2, <1>3, <2>1
<1> QED
  BY <1>1, <1>3 DEF Begins

LEMMA FoundFrom ==
    ASSUME NEW s, NEW t, NEW k \in Nat, NEW j \in Nat
    PROVE  j \in F!Found(s, t, k) <=> k <= j /\ j \in F!Found(s, t, j)
  BY DEF F!Found

\* find() comes to the first place at which the text begins.
LEMMA FindIs ==
    ASSUME NEW s, NEW t, NEW k \in Nat, NEW j \in F!Found(s, t, k),
           \A l \in F!Found(s, t, k) : j <= l, Len(s) \in Nat, Len(t) \in Nat
    PROVE  F!Find(s, t, k) = j
<1>1. F!Found(s, t, k) \subseteq Nat
  BY DEF F!Found
<1>2. \A x \in F!Found(s, t, k) : (\A l \in F!Found(s, t, k) : x <= l) => x = j
  BY <1>1
<1>3. F!Found(s, t, k) # {}
  OBVIOUS
<1> HIDE DEF F!Found
<1> QED
  BY <1>2, <1>3 DEF F!Find

LEMMA FindNone ==
    ASSUME NEW s, NEW t, NEW k, F!Found(s, t, k) = {}
    PROVE  F!Find(s, t, k) = 0
  BY DEF F!Find

\* A text of one byte.
LEMMA ByteAt ==
    ASSUME NEW B, NEW s \in Seq(B), NEW b \in B, NEW k \in Nat \ {0}
    PROVE  F!Found(s, <<b>>, k) = {j \in k..Len(s) : s[j] = b}
<1> DEFINE t == <<b>>
<1>1. t \in Seq(B) /\ Len(t) = 1 /\ t[1] = b
  OBVIOUS
<1> HIDE DEF t
<1>2. ASSUME NEW j \in Nat PROVE j \in F!Found(s, t, k) <=> j \in k..Len(s) /\ s[j] = b
  <2>1. CASE j >= k
    <3>1. j \in F!Found(s, t, j) <=> Begins(s, t, j)
      <4>1. j \in Nat \ {0}
        BY <2>1
      <4> QED
        BY <4>1, <1>1, BeginsAt
    <3>2. Begins(s, t, j) <=> j <= Len(s) /\ s[j] = b
      BY <1>1 DEF Begins
    <3> QED
      BY <2>1, <3>1, <3>2, FoundFrom
  <2>2. CASE j < k
    BY <2>2, FoundFrom
  <2> QED
    BY <2>1, <2>2
<1>3. F!Found(s, t, k) \subseteq Nat
  <2>1. Len(s) \in Nat /\ Len(t) \in Nat
    BY <1>1
  <2> QED
    BY <2>1 DEF F!Found
<1>4. {j \in k..Len(s) : s[j] = b} \subseteq Nat
  OBVIOUS
<1> QED
  BY <1>2, <1>3, <1>4 DEF t

LEMMA NameIs ==
    ASSUME NEW B, F!Filename \in B, F!Quote \in B,
           NEW piece \in Seq(B), NEW name \in Seq(B), F!NamedIn(piece, name)
    PROVE  F!NameOf(piece) = name
<1> DEFINE files == F!Found(piece, <<F!Filename>>, 1)
           start == F!Find(piece, <<F!Filename>>, 1)
           end == F!Find(piece, <<F!Quote>>, start + 1)
           first == 1
<1>1. files = {j \in 1..Len(piece) : piece[j] = F!Filename}
  <2> HIDE DEF first
  <2>1. F!Found(piece, <<F!Filename>>, first) = {j \in first..Len(piece) : piece[j] = F!Filename}
    BY ByteAt, first \in Nat \ {0} DEF first
  <2> QED
    BY <2>1 DEF first
<1>2. F!NameOf(piece) = IF start = 0 THEN <<>>
                       ELSE SubSeq(piece, start + 1, IF end = 0 THEN Len(piece) ELSE end - 1)
  BY DEF F!NameOf
<1>3. ASSUME name = <<>>, \A k \in DOMAIN piece : piece[k] # F!Filename
      PROVE  F!NameOf(piece) = name
  <2>1. files = {}
    BY <1>1, <1>3
  <2>2. start = 0
    BY <2>1, FindNone
  <2> QED
    BY <1>2, <1>3, <2>2
<1>4. ASSUME NEW s \in 1..(Len(piece) - Len(name) - 1),
             piece[s] = F!Filename, \A k \in 1..(s - 1) : piece[k] # F!Filename,
             SubSeq(piece, s + 1, s + Len(name)) = name,
             piece[s + Len(name) + 1] = F!Quote, \A k \in DOMAIN name : name[k] # F!Quote
      PROVE  F!NameOf(piece) = name
  <2> DEFINE e == s + Len(name) + 1
             after == s + 1
  <2>1. Len(piece) \in Nat /\ Len(name) \in Nat /\ s \in Nat
    OBVIOUS
  <2>2. s \in files /\ \A j \in files : s <= j
    <3>1. s \in 1..Len(piece)
      BY <1>4, <2>1
    <3>2. ASSUME NEW j \in files PROVE ~(j < s)
      <4>1. j \in Nat /\ j >= 1 /\ piece[j] = F!Filename
        BY <1>1, <2>1
      <4>2. j < s => j \in 1..(s - 1)
        BY <2>1, <4>1
      <4> QED
        BY <1>4, <4>1, <4>2, Zenon
    <3> HIDE DEF files
    <3>3. \A j \in files : s <= j
      BY <1>1, <2>1, <3>2
    <3> QED
      BY <1>1, <1>4, <3>1, <3>3
  <2>3. start = s
    <3>1. Len(<<F!Filename>>) \in Nat
      OBVIOUS
    <3> HIDE DEF first
    <3>2. s \in F!Found(piece, <<F!Filename>>, first)
          /\ \A j \in F!Found(piece, <<F!Filename>>, first) : s <= j
      BY <2>2 DEF first
    <3>3. F!Find(piece, <<F!Filename>>, first) = s
      BY <2>1, <3>1, <3>2, FindIs, first \in Nat DEF first
    <3> QED
      BY <3>3 DEF first
  <2>4. F!Found(piece, <<F!Quote>>, after) = {j \in after..Len(piece) : piece[j] = F!Quote}
    <3>1. after \in Nat \ {0}
      BY <2>1
    <3> HIDE DEF after
    <3> QED
      BY <3>1, ByteAt
  <2>5. ASSUME NEW j \in (s + 1)..(s + Len(name)) PROVE piece[j] # F!Quote
    <3>1. j - s \in 1..Len(name) /\ j - s \in DOMAIN name
      BY <2>1
    <3>2. SubSeq(piece, s + 1, s + Len(name))[j - s] = piece[j]
      BY <2>1, <3>1
    <3> QED
      BY <1>4, <3>1, <3>2
  <2>6. e \in F!Found(piece, <<F!Quote>>, after)
        /\ \A j \in F!Found(piece, <<F!Quote>>, after) : e <= j
    <3>1. e \in after..Len(piece) /\ e \in Nat
      BY <1>4, <2>1
    <3>2. ASSUME NEW j \in after..Len(piece), piece[j] = F!Quote PROVE e <= j
      BY <2>1, <2>5, <3>2
    <3> QED
      BY <1>4, <2>4, <3>1, <3>2
  <2>7. F!Find(piece, <<F!Quote>>, after) = e
    <3>1. Len(<<F!Quote>>) \in Nat /\ after \in Nat
      BY <2>1
    <3> HIDE DEF e, after
    <3> QED
      BY <2>1, <2>6, <3>1, FindIs
  <2>8. e # 0 /\ e - 1 = s + Len(name) /\ s # 0
    BY <2>1
  <2>9. F!NameOf(piece) = SubSeq(piece, s + 1, e - 1)
    <3> HIDE DEF start, e
    <3> QED
      BY <1>2, <2>3, <2>7, <2>8
  <2> QED
    BY <1>4, <2>8, <2>9
<1> QED
  BY <1>3, <1>4 DEF F!NamedIn

\* Exactly one CRLF is trimmed, whatever the data ends with.
LEMMA TrimmedIs ==
    ASSUME NEW B, F!CR \in B, F!LF \in B, NEW data \in Seq(B)
    PROVE  F!Trimmed(data \o <<F!CR, F!LF>>) = data
<1> DEFINE eol == <<F!CR, F!LF>>
           d == data \o eol
           n == Len(data)
<1>1. eol \in Seq(B) /\ Len(eol) = 2 /\ n \in Nat
  OBVIOUS
<1>2. d \in Seq(B) /\ Len(d) = n + 2
      /\ (\A j \in 1..n : d[j] = data[j]) /\ d[n + 1] = eol[1] /\ d[n + 2] = eol[2]
  <2> HIDE DEF eol
  <2>1. /\ d \in Seq(B) /\ Len(d) = Len(data) + Len(eol)
        /\ \A j \in 1..(Len(data) + Len(eol)) :
              d[j] = IF j <= Len(data) THEN data[j] ELSE eol[j - Len(data)]
    BY <1>1, ConcatProperties, Zenon
  <2> HIDE DEF d
  <2>2. \A j \in 1..(n + 2) : d[j] = IF j <= n THEN data[j] ELSE eol[j - n]
    BY <1>1, <2>1
  <2>3. /\ \A j \in 1..n : j \in 1..(n + 2) /\ j <= n
        /\ n + 1 \in 1..(n + 2) /\ ~(n + 1 <= n) /\ (n + 1) - n = 1
        /\ n + 2 \in 1..(n + 2) /\ ~(n + 2 <= n) /\ (n + 2) - n = 2
    BY <1>1
  <2> QED
    BY <1>1, <2>1, <2>2, <2>3
<1> HIDE DEF d
<1>3. SubSeq(d, Len(d) - 1, Len(d)) = eol
  <2> DEFINE p == SubSeq(d, n + 1, n + 2)
  <2>1. p \in Seq(B) /\ Len(p) = 2 /\ p[1] = d[n + 1] /\ p[2] = d[n + 2]
    BY <1>1, <1>2
  <2> HIDE DEF p
  <2>2. p = eol
    BY <1>1, <1>2, <2>1, SeqEqual
  <2> QED
    BY <1>1, <1>2, <2>2 DEF p
<1>4. SubSeq(d, 1, Len(d) - 2) = data
  <2> DEFINE p == SubSeq(d, 1, n)
  <2>1. p \in Seq(B) /\ Len(p) = n /\ \A j \in 1..n : p[j] = d[j]
    BY <1>1, <1>2
  <2> HIDE DEF p
  <2>2. p = data
    BY <1>1, <1>2, <2>1, SeqEqual
  <2> QED
    BY <1>1, <1>2, <2>2 DEF p
<1>5. F!Trimmed(d) = data
  BY <1>1, <1>2, <1>3, <1>4 DEF F!Trimmed
<1> QED
  BY <1>5 DEF d

LEMMA ContentIs ==
    ASSUME NEW B, F!CR \in B, F!LF \in B,
           NEW piece \in Seq(B), NEW data \in Seq(B), F!HasData(piece, data)
    PROVE  F!HasContent(piece) /\ F!ContentOf(piece) = data
<1> DEFINE first == 1
<1>1. PICK h \in 0..(Len(piece) - 4) :
          /\ h + 1 \in F!Found(piece, F!Blank, first)
          /\ \A k \in F!Found(piece, F!Blank, first) : h < k
          /\ SubSeq(piece, h + 5, Len(piece)) = data \o <<F!CR, F!LF>>
  BY DEF F!HasData
<1>2. Len(piece) \in Nat /\ h \in Nat /\ Len(F!Blank) \in Nat
  BY DEF F!Blank
<1>3. F!Found(piece, F!Blank, first) \subseteq Nat
  BY <1>2 DEF F!Found
<1>4. F!Find(piece, F!Blank, first) = h + 1
  <2> DEFINE j == h + 1
  <2>1. j \in F!Found(piece, F!Blank, first) /\ \A k \in F!Found(piece, F!Blank, first) : j <= k
    BY <1>1, <1>2, <1>3
  <2>2. first \in Nat
    OBVIOUS
  <2> HIDE DEF j, first
  <2>3. F!Find(piece, F!Blank, first) = j
    BY <1>2, <2>1, <2>2, FindIs
  <2> QED
    BY <2>3 DEF j
<1> QED
  <2>1. h + 1 # 0 /\ (h + 1) + 4 = h + 5
    BY <1>2
  <2>2. F!ContentOf(piece) = F!Trimmed(data \o <<F!CR, F!LF>>)
    BY <1>1, <1>4, <2>1 DEF F!ContentOf
  <2>3. F!HasContent(piece)
    BY <1>4, <2>1 DEF F!HasContent
  <2> QED
    BY <2>2, <2>3, TrimmedIs

LEMMA NoEntries ==
    ASSUME NEW f, f = [x \in {} |-> f[x]]
    PROVE  f = <<>>
  OBVIOUS

\* What the next part adds to the files.
LEMMA FilesNone == F!FilesOf(0) = <<>>
<1>1. F!Uploads(0) = {}
  BY DEF F!Uploads
<1>2. {form.parts[k].name : k \in F!Uploads(0)} = {}
  BY <1>1
<1>3. DOMAIN F!FilesOf(0) = {}
  BY <1>2 DEF F!FilesOf
<1>4. F!FilesOf(0) = [name \in {} |-> F!FilesOf(0)[name]]
  BY <1>2, <1>3 DEF F!FilesOf
<1> QED
  BY <1>4, NoEntries

LEMMA FilesSame ==
    ASSUME NEW n \in Nat \ {0}, form.parts[n].name = <<>>
    PROVE  F!Uploads(n) = F!Uploads(n - 1) /\ F!FilesOf(n) = F!FilesOf(n - 1)
<1>1. F!Uploads(n) = F!Uploads(n - 1)
  BY DEF F!Uploads
<1>2. \A name : F!Latest(n, name) = F!Latest(n - 1, name)
  BY <1>1 DEF F!Latest
<1> DEFINE last(m, name) == CHOOSE k \in F!Latest(m, name) : TRUE
           f(m) == [name \in {form.parts[k].name : k \in F!Uploads(n - 1)} |->
                        form.parts[last(m, name)].data]
<1>3. F!FilesOf(n) = f(n) /\ F!FilesOf(n - 1) = f(n - 1)
  BY <1>1, Zenon DEF F!FilesOf
<1>4. f(n) = f(n - 1)
  <2>1. ASSUME NEW name PROVE last(n, name) = last(n - 1, name)
    <3>1. F!Latest(n, name) = F!Latest(n - 1, name)
      BY <1>2
    <3> QED
      BY <3>1, Zenon
  <2> HIDE DEF last
  <2> QED
    BY <2>1
<1> QED
  BY <1>1, <1>3, <1>4

LEMMA FilesMore ==
    ASSUME NEW n \in Nat \ {0}, form.parts[n].name # <<>>
    PROVE  /\ F!Uploads(n) = F!Uploads(n - 1) \cup {n}
           /\ F!FilesOf(n) =
                [name \in DOMAIN F!FilesOf(n - 1) \cup {form.parts[n].name} |->
                    IF name = form.parts[n].name THEN form.parts[n].data
                    ELSE F!FilesOf(n - 1)[name]]
<1> DEFINE p == form.parts
           u == F!Uploads(n - 1)
           v == F!Uploads(n)
<1>1. v = u \cup {n} /\ u \subseteq 1..(n - 1)
  BY DEF F!Uploads
<1>2. /\ F!FilesOf(n) = [name \in {p[k].name : k \in v} |->
                            p[CHOOSE k \in F!Latest(n, name) : TRUE].data]
      /\ F!FilesOf(n - 1) = [name \in {p[k].name : k \in u} |->
                            p[CHOOSE k \in F!Latest(n - 1, name) : TRUE].data]
  BY Zenon DEF F!FilesOf
<1>3. {p[k].name : k \in v} = {p[k].name : k \in u} \cup {p[n].name}
  BY <1>1
<1>4. F!Latest(n, p[n].name) = {n}
  <2>1. F!Latest(n, p[n].name) =
          {k \in v : p[k].name = p[n].name /\ \A j \in v : p[j].name = p[n].name => j <= k}
    BY DEF F!Latest
  <2>2. n \in v /\ \A k \in v : k \in Nat /\ k <= n
    BY <1>1
  <2> HIDE DEF v, p
  <2>3. n \in F!Latest(n, p[n].name)
    BY <2>1, <2>2
  <2>4. ASSUME NEW k \in F!Latest(n, p[n].name) PROVE k = n
    <3>1. k \in Nat /\ k <= n /\ n <= k
      BY <2>1, <2>2, <2>4
    <3> QED
      BY <3>1
  <2> QED
    BY <2>3, <2>4
<1>5. ASSUME NEW name, name # p[n].name PROVE F!Latest(n, name) = F!Latest(n - 1, name)
  <2>1. F!Latest(n, name) =
          {k \in v : p[k].name = name /\ \A j \in v : p[j].name = name => j <= k}
    BY DEF F!Latest
  <2>2. F!Latest(n - 1, name) =
          {k \in u : p[k].name = name /\ \A j \in u : p[j].name = name => j <= k}
    BY DEF F!Latest
  <2> HIDE DEF u, v, p
  <2> QED
    BY <1>1, <1>5, <2>1, <2>2
<1>6. (CHOOSE k \in F!Latest(n, p[n].name) : TRUE) = n
  BY <1>4
<1>7. DOMAIN F!FilesOf(n - 1) = {p[k].name : k \in u}
  BY <1>2
<1> DEFINE g == [name \in {p[k].name : k \in u} \cup {p[n].name} |->
                    IF name = p[n].name THEN p[n].data ELSE F!FilesOf(n - 1)[name]]
<1>8. ASSUME NEW name \in {p[k].name : k \in v} PROVE F!FilesOf(n)[name] = g[name]
  <2>1. F!FilesOf(n)[name] = p[CHOOSE k \in F!Latest(n, name) : TRUE].data
    BY <1>2, Zenon
  <2>2. ASSUME name = p[n].name PROVE F!FilesOf(n)[name] = g[name]
    BY <1>6, <2>1, <2>2
  <2>3. ASSUME name # p[n].name PROVE F!FilesOf(n)[name] = g[name]
    <3>1. name \in {p[k].name : k \in u}
      BY <1>3, <2>3
    <3>2. F!FilesOf(n - 1)[name] = p[CHOOSE k \in F!Latest(n - 1, name) : TRUE].data
      BY <1>2, <3>1, Zenon
    <3>3. F!FilesOf(n)[name] = F!FilesOf(n - 1)[name]
      <4>1. F!Latest(n, name) = F!Latest(n - 1, name)
        BY <1>5, <2>3
      <4> QED
        BY <2>1, <3>2, <4>1, Zenon
    <3>4. g[name] = F!FilesOf(n - 1)[name]
      BY <2>3, <3>1
    <3> QED
      BY <3>3, <3>4
  <2> QED
    BY <2>2, <2>3
<1>9. F!FilesOf(n) = g
  <2>1. F!FilesOf(n) = [name \in {p[k].name : k \in v} |-> F!FilesOf(n)[name]]
    BY <1>2, Zenon
  <2>2. g = [name \in {p[k].name : k \in v} |-> g[name]]
    BY <1>3
  <2> HIDE DEF g, v, p
  <2> QED
    BY <1>8, <2>1, <2>2
<1> QED
  BY <1>1, <1>7, <1>9

\* What the loop has done before the n-th part: marks are its boundaries.
Passed(marks, n) ==
    /\ F!LaidOut(form, marks)
    /\ n \in 1..(Len(form.parts) + 1)
    /\ pos = marks[n]
    /\ F!AllOpened(n - 1)
    /\ formDisk = F!FilesOf(n - 1)
    /\ code = 201 => n = Len(form.parts) + 1
    /\ code = 500 => n \in F!Uploads(Len(form.parts)) /\ form.parts[n].name \in Unopened

FormSound ==
    part = "Form" => form \in Forms /\ \E marks \in Seq(Nat), n \in Nat : Passed(marks, n)

\* The bytes that a form may have, and those that the loop looks for.
WithMarks(B) == B \cup {F!Boundary, F!Filename, F!Quote, F!CR, F!LF}

\* The boundaries from a position on.
Onward(f, marks, k, j) ==
    j \in Nat /\ j >= k /\ \E n \in 1..(Len(f.parts) + 1) : j = marks[n]

LEMMA BoundariesFrom ==
    ASSUME NEW B, F!Boundary \in B, NEW f, f.bytes \in Seq(B), Len(f.parts) \in Nat,
           NEW marks \in Seq(Nat), F!LaidOut(f, marks), NEW k \in Nat \ {0}
    PROVE  \A j : j \in F!Found(f.bytes, <<F!Boundary>>, k) <=> Onward(f, marks, k, j)
<1>1. F!Found(f.bytes, <<F!Boundary>>, k) = {j \in k..Len(f.bytes) : f.bytes[j] = F!Boundary}
  BY ByteAt
<1>2. {j \in DOMAIN f.bytes : f.bytes[j] = F!Boundary} = {marks[n] : n \in DOMAIN marks}
  BY DEF F!LaidOut
<1>3. DOMAIN marks = 1..(Len(f.parts) + 1)
  BY DEF F!LaidOut
<1>4. DOMAIN f.bytes = 1..Len(f.bytes) /\ Len(f.bytes) \in Nat
  OBVIOUS
<1>5. ASSUME NEW j \in Nat, j >= k
      PROVE  j \in F!Found(f.bytes, <<F!Boundary>>, k) <=>
                \E n \in 1..(Len(f.parts) + 1) : j = marks[n]
  <2>1. j \in F!Found(f.bytes, <<F!Boundary>>, k) <=> j \in DOMAIN f.bytes /\ f.bytes[j] = F!Boundary
    BY <1>1, <1>4, <1>5
  <2>2. j \in F!Found(f.bytes, <<F!Boundary>>, k) <=> j \in {marks[n] : n \in DOMAIN marks}
    BY <1>2, <2>1, Zenon
  <2> QED
    BY <1>3, <2>2
<1>6. \A j \in F!Found(f.bytes, <<F!Boundary>>, k) : j \in Nat /\ j >= k
  BY <1>1, <1>4
<1> QED
  BY <1>5, <1>6 DEF Onward

\* nextPos is the boundary after the part, and npos after the last one.
LEMMA NextIs ==
    ASSUME NEW B, F!Boundary \in B, form.bytes \in Seq(B), Len(form.parts) \in Nat,
           NEW marks \in Seq(Nat), NEW n \in Nat, Passed(marks, n)
    PROVE  /\ pos \in Nat \ {0}
           /\ F!NextPos = IF n <= Len(form.parts) THEN marks[n + 1] ELSE 0
           /\ n <= Len(form.parts) => marks[n + 1] \in Nat /\ marks[n + 1] # 0
<1> DEFINE size == Len(form.parts)
           after == pos + 1
           found == F!Found(form.bytes, <<F!Boundary>>, after)
<1>1. /\ DOMAIN marks = 1..(size + 1) /\ \A m \in 1..(size + 1) : marks[m] \in Nat
      /\ \A m, l \in 1..(size + 1) : m < l => marks[m] < marks[l]
      /\ n \in 1..(size + 1) /\ pos = marks[n]
  <2>1. F!LaidOut(form, marks) /\ n \in 1..(size + 1) /\ pos = marks[n]
    BY DEF Passed
  <2>2. DOMAIN marks = 1..(size + 1) /\ Len(marks) = size + 1
    BY <2>1 DEF F!LaidOut
  <2> HIDE DEF size
  <2>3. \A m \in 1..(size + 1) : marks[m] \in Nat
    BY <2>2
  <2>4. \A m, l \in 1..(size + 1) : m < l => marks[m] < marks[l]
    BY <2>1, <2>2, Zenon DEF F!LaidOut
  <2> QED
    BY <2>1, <2>2, <2>3, <2>4
<1>2. pos # 0
  <2>1. marks[n] \in {marks[m] : m \in DOMAIN marks}
    BY <1>1
  <2>2. marks[n] \in DOMAIN form.bytes
    BY <2>1 DEF Passed, F!LaidOut
  <2>3. 0 \notin DOMAIN form.bytes
    OBVIOUS
  <2> QED
    BY <1>1, <2>2, <2>3
<1>3. after \in Nat \ {0} /\ pos \in Nat
  BY <1>1
<1>4. \A j : j \in found <=> Onward(form, marks, after, j)
  <2>1. F!LaidOut(form, marks)
    BY DEF Passed
  <2> HIDE DEF after
  <2> QED
    BY <1>3, <2>1, BoundariesFrom
<1>5. F!NextPos = F!Find(form.bytes, <<F!Boundary>>, after)
  BY DEF F!NextPos
<1>6. ASSUME n <= size
      PROVE  F!NextPos = marks[n + 1] /\ marks[n + 1] \in Nat /\ marks[n + 1] # 0
  <2> DEFINE next == marks[n + 1]
  <2>1. n + 1 \in 1..(size + 1) /\ next \in Nat /\ pos < next
    BY <1>1, <1>6
  <2>2. next \in found
    BY <1>3, <1>4, <2>1 DEF Onward
  <2>3. ASSUME NEW j \in found PROVE next <= j
    <3>1. PICK m \in 1..(size + 1) : j = marks[m] /\ j >= after /\ j \in Nat
      BY <1>4 DEF Onward
    <3>2. ~(m < n) /\ m # n
      BY <1>1, <1>3, <3>1
    <3>3. m = n + 1 \/ n + 1 < m
      BY <1>1, <3>2
    <3> QED
      BY <1>1, <2>1, <3>1, <3>3
  <2>4. Len(form.bytes) \in Nat /\ Len(<<F!Boundary>>) \in Nat /\ after \in Nat
    BY <1>3
  <2> HIDE DEF next, after
  <2>5. F!Find(form.bytes, <<F!Boundary>>, after) = next
    BY <2>2, <2>3, <2>4, FindIs
  <2> QED
    BY <1>5, <2>1, <2>5, <1>3 DEF next
<1>7. ASSUME ~(n <= size) PROVE F!NextPos = 0
  <2>1. n = size + 1
    BY <1>1, <1>7
  <2>2. ASSUME NEW j \in found PROVE FALSE
    <3>1. PICK m \in 1..(size + 1) : j = marks[m] /\ j >= after /\ j \in Nat
      BY <1>4 DEF Onward
    <3>2. m < n \/ m = n
      BY <2>1
    <3> QED
      BY <1>1, <1>3, <3>1, <3>2
  <2>3. found = {}
    BY <2>2
  <2> QED
    BY <1>5, <2>3, FindNone
<1> QED
  BY <1>2, <1>3, <1>6, <1>7

\* The part that an iteration takes is the one that was sent.
LEMMA PartIs ==
    ASSUME NEW B, B = WithMarks(B), form.bytes \in Seq(B), Len(form.parts) \in Nat,
           NEW marks \in Seq(Nat), NEW n \in Nat, Passed(marks, n), n <= Len(form.parts),
           n \in DOMAIN form.parts,
           form.parts[n].name \in Seq(B), form.parts[n].data \in Seq(B)
    PROVE  /\ F!NameOf(F!Part) = form.parts[n].name
           /\ F!HasContent(F!Part)
           /\ F!ContentOf(F!Part) = form.parts[n].data
<1>1. /\ F!Boundary \in B /\ F!Filename \in B /\ F!Quote \in B /\ F!CR \in B /\ F!LF \in B
  BY DEF WithMarks
<1>2. pos \in Nat \ {0} /\ F!NextPos = marks[n + 1] /\ marks[n + 1] \in Nat /\ marks[n + 1] # 0
  BY <1>1, NextIs
<1>3. pos = marks[n] /\ F!LaidOut(form, marks)
  BY DEF Passed
<1>4. F!NextPos <= Len(form.bytes)
  <2>1. n + 1 \in DOMAIN marks
    BY <1>3 DEF F!LaidOut
  <2>2. marks[n + 1] \in {marks[m] : m \in DOMAIN marks}
    BY <2>1
  <2>3. marks[n + 1] \in DOMAIN form.bytes
    BY <1>3, <2>2 DEF F!LaidOut
  <2> QED
    BY <1>2, <2>3
<1>5. F!Part = SubSeq(form.bytes, marks[n] + 1, marks[n + 1] - 1)
  BY <1>2, <1>3 DEF F!Part
<1>6. F!NamedIn(F!Part, form.parts[n].name) /\ F!HasData(F!Part, form.parts[n].data)
  BY <1>3, <1>5, Zenon DEF F!LaidOut
<1>7. F!Part \in Seq(B)
  <2> DEFINE a == pos + 1
             b == F!NextPos - 1
  <2>1. a \in Nat /\ a >= 1 /\ b \in Nat /\ b <= Len(form.bytes)
    BY <1>2, <1>4
  <2>2. F!Part = SubSeq(form.bytes, a, b)
    BY DEF F!Part
  <2> HIDE DEF a, b
  <2>3. SubSeq(form.bytes, a, b) \in Seq(B)
    BY <2>1
  <2> QED
    BY <2>2, <2>3
<1> HIDE DEF F!Part
<1> QED
  BY <1>1, <1>6, <1>7, NameIs, ContentIs

\* What is said of the form does not depend on the step.
LEMMA FormStays ==
    ASSUME UNCHANGED form, NEW n
    PROVE  /\ F!FilesOf(n)' = F!FilesOf(n)
           /\ F!AllOpened(n)' <=> F!AllOpened(n)
           /\ F!Uploads(n)' = F!Uploads(n)
<1> DEFINE u(f) == {k \in 1..n : f.parts[k].name # <<>>}
           l(f, name) == {k \in u(f) : /\ f.parts[k].name = name
                                      /\ \A j \in u(f) : f.parts[j].name = name => j <= k}
           g(f) == [name \in {f.parts[k].name : k \in u(f)} |->
                       f.parts[CHOOSE k \in l(f, name) : TRUE].data]
           o(f) == \A k \in u(f) : f.parts[k].name \notin Unopened
<1>1. F!Uploads(n) = u(form) /\ F!Uploads(n)' = u(form')
  BY Zenon DEF F!Uploads
<1>2. F!FilesOf(n) = g(form) /\ F!FilesOf(n)' = g(form')
  BY Zenon DEF F!FilesOf, F!Latest, F!Uploads
<1>3. (F!AllOpened(n) <=> o(form)) /\ (F!AllOpened(n)' <=> o(form'))
  BY Zenon DEF F!AllOpened, F!Uploads
<1> HIDE DEF u, g, o
<1>4. form' = form
  OBVIOUS
<1> QED
  BY <1>1, <1>2, <1>3, <1>4, Zenon

LEMMA PartPasses ==
    ASSUME NEW B, B = WithMarks(B), form.bytes \in Seq(B), Len(form.parts) \in Nat,
           NEW marks \in Seq(Nat), NEW n \in Nat, Passed(marks, n), n <= Len(form.parts),
           n \in DOMAIN form.parts,
           form.parts[n].name \in Seq(B), form.parts[n].data \in Seq(B),
           F!WriteFile \/ F!SkipPart
    PROVE  Passed(marks, n + 1)'
<1>1. UNCHANGED <<form, code>> /\ code = 0 /\ pos' = F!NextPos
  BY DEF F!WriteFile, F!SkipPart, F!Another
<1>2. F!NextPos = marks[n + 1]
  BY NextIs DEF WithMarks
<1>3. /\ F!NameOf(F!Part) = form.parts[n].name
      /\ F!HasContent(F!Part)
      /\ F!ContentOf(F!Part) = form.parts[n].data
  BY PartIs
<1>4. n + 1 \in 1..(Len(form.parts) + 1) /\ (n + 1) - 1 = n /\ n \in Nat \ {0}
  BY DEF Passed
<1>5. F!AllOpened(n - 1) /\ formDisk = F!FilesOf(n - 1) /\ F!LaidOut(form, marks)
  BY DEF Passed
<1>6. formDisk' = F!FilesOf(n) /\ F!AllOpened(n)
  <2>1. CASE F!WriteFile
    <3>1. form.parts[n].name # <<>> /\ form.parts[n].name \notin Unopened
      BY <1>3, <2>1 DEF F!WriteFile, F!IsFile
    <3>2. formDisk' = [m \in DOMAIN formDisk \cup {form.parts[n].name} |->
                          IF m = form.parts[n].name THEN form.parts[n].data ELSE formDisk[m]]
      BY <1>3, <2>1, Zenon DEF F!WriteFile
    <3>3. formDisk' = F!FilesOf(n)
      BY <1>4, <1>5, <3>1, <3>2, FilesMore, Zenon
    <3>4. F!Uploads(n) = F!Uploads(n - 1) \cup {n}
      BY <1>4, <3>1, FilesMore
    <3> QED
      BY <1>5, <3>1, <3>3, <3>4 DEF F!AllOpened
  <2>2. CASE F!SkipPart
    <3>1. form.parts[n].name = <<>> /\ UNCHANGED formDisk
      BY <1>3, <2>2 DEF F!SkipPart, F!IsFile
    <3>2. F!Uploads(n) = F!Uploads(n - 1) /\ F!FilesOf(n) = F!FilesOf(n - 1)
      BY <1>4, <3>1, FilesSame
    <3> QED
      BY <1>5, <3>1, <3>2 DEF F!AllOpened
  <2> QED
    BY <2>1, <2>2
<1>7. F!FilesOf(n)' = F!FilesOf(n) /\ (F!AllOpened(n)' <=> F!AllOpened(n))
  BY <1>1, FormStays
<1>8. F!LaidOut(form, marks)'
  BY <1>1, <1>5, Zenon
<1>9. formDisk' = F!FilesOf((n + 1) - 1)' /\ F!AllOpened((n + 1) - 1)'
  BY <1>4, <1>6, <1>7, Zenon
<1> QED
  BY <1>1, <1>2, <1>4, <1>8, <1>9 DEF Passed

LEMMA WiderSeq ==
    ASSUME NEW A, NEW C, A \subseteq C, NEW s \in Seq(A)
    PROVE  s \in Seq(C)
<1>1. Len(s) \in Nat /\ s = [j \in 1..Len(s) |-> s[j]] /\ \A j \in 1..Len(s) : s[j] \in C
  OBVIOUS
<1> QED
  BY <1>1

\* Each part of a form is one of the parts that forms are made of.
LEMMA FormIsMade ==
    ASSUME NEW B, NEW Fields, F!MadeOf(B, Fields), form \in Forms
    PROVE  /\ WithMarks(WithMarks(B)) = WithMarks(B)
           /\ form.bytes \in Seq(WithMarks(B)) /\ Len(form.parts) \in Nat
           /\ \A n \in 1..Len(form.parts) :
                 /\ n \in DOMAIN form.parts
                 /\ form.parts[n].name \in Seq(WithMarks(B))
                 /\ form.parts[n].data \in Seq(WithMarks(B))
<1>1. B \subseteq WithMarks(B) /\ WithMarks(WithMarks(B)) = WithMarks(B)
  BY DEF WithMarks
<1>2. form.bytes \in Seq(B) /\ form.parts \in Seq(Fields)
  BY DEF F!MadeOf
<1>3. \A p \in Fields : p.name \in Seq(B) /\ p.data \in Seq(B)
  BY DEF F!MadeOf
<1>4. \A s \in Seq(B) : s \in Seq(WithMarks(B))
  BY <1>1, WiderSeq
<1>5. Len(form.parts) \in Nat /\ DOMAIN form.parts = 1..Len(form.parts)
      /\ \A n \in 1..Len(form.parts) : form.parts[n] \in Fields
  BY <1>2
<1> HIDE DEF WithMarks
<1> QED
  BY <1>1, <1>2, <1>3, <1>4, <1>5

\* The loop ends at the file that cannot be opened, or after the last part.
LEMMA FormStep ==
    ASSUME NEW B, NEW Fields, F!MadeOf(B, Fields), form \in Forms,
           NEW marks \in Seq(Nat), NEW n \in Nat, Passed(marks, n), F!Next
    PROVE  form' \in Forms /\ (Passed(marks, n)' \/ Passed(marks, n + 1)')
<1> DEFINE C == WithMarks(B)
           size == Len(form.parts)
<1>1. /\ C = WithMarks(C) /\ form.bytes \in Seq(C) /\ size \in Nat
      /\ n \in 1..size =>
            /\ n \in DOMAIN form.parts
            /\ form.parts[n].name \in Seq(C) /\ form.parts[n].data \in Seq(C)
      /\ F!Boundary \in C
  BY FormIsMade DEF WithMarks
<1>2. /\ n \in 1..(size + 1) /\ F!LaidOut(form, marks) /\ pos = marks[n]
      /\ F!AllOpened(n - 1) /\ formDisk = F!FilesOf(n - 1)
      /\ code = 201 => n = size + 1
      /\ code = 500 => n \in F!Uploads(size) /\ form.parts[n].name \in Unopened
  BY DEF Passed
<1> HIDE DEF C
<1>3. pos # 0 /\ (F!NextPos # 0 <=> n <= size)
  BY <1>1, <1>2, NextIs
<1>4. UNCHANGED form
  BY DEF F!Next, F!WriteFile, F!SkipPart, F!CannotOpen, F!Created, F!vars
<1>5. ASSUME UNCHANGED <<pos, formDisk>>,
             code' = 201 => n = size + 1,
             code' = 500 => n \in F!Uploads(size) /\ form.parts[n].name \in Unopened
      PROVE  Passed(marks, n)'
  <2>1. /\ F!FilesOf(n - 1)' = F!FilesOf(n - 1)
        /\ F!AllOpened(n - 1)' <=> F!AllOpened(n - 1)
        /\ F!Uploads(size)' = F!Uploads(size)
    BY <1>4, FormStays
  <2>2. F!LaidOut(form, marks)'
    BY <1>2, <1>4, Zenon
  <2>3. formDisk' = F!FilesOf(n - 1)' /\ F!AllOpened(n - 1)'
    BY <1>2, <1>5, <2>1, Zenon
  <2>4. pos' = marks[n]
    BY <1>2, <1>5
  <2>5. code' = 500 => n \in F!Uploads(Len(form.parts))' /\ form'.parts[n].name \in Unopened
    BY <1>4, <1>5, <2>1, Zenon
  <2>6. n \in 1..(Len(form'.parts) + 1) /\ (code' = 201 => n = Len(form'.parts) + 1)
    BY <1>2, <1>4, <1>5
  <2> QED
    BY <2>2, <2>3, <2>4, <2>5, <2>6 DEF Passed
<1>6. ASSUME F!WriteFile \/ F!SkipPart PROVE Passed(marks, n + 1)'
  <2>1. n <= size /\ n \in 1..size
    BY <1>2, <1>3, <1>6 DEF F!WriteFile, F!SkipPart, F!Another
  <2> QED
    BY <1>1, <1>6, <2>1, PartPasses
<1>7. ASSUME F!CannotOpen PROVE Passed(marks, n)'
  <2>1. n <= size /\ n \in 1..size
    BY <1>2, <1>3, <1>7 DEF F!CannotOpen, F!Another
  <2>2. F!NameOf(F!Part) = form.parts[n].name
    BY <1>1, <2>1, PartIs
  <2>3. form.parts[n].name # <<>> /\ form.parts[n].name \in Unopened
    BY <1>7, <2>2 DEF F!CannotOpen, F!IsFile
  <2>4. n \in F!Uploads(size)
    BY <2>1, <2>3 DEF F!Uploads
  <2>5. code' = 500 /\ UNCHANGED <<pos, formDisk>>
    BY <1>7 DEF F!CannotOpen
  <2> QED
    BY <1>5, <2>3, <2>4, <2>5
<1>8. ASSUME F!Created PROVE Passed(marks, n)'
  <2>1. code' = 201 /\ UNCHANGED <<pos, formDisk>> /\ ~(n <= size)
    BY <1>3, <1>8 DEF F!Created, F!Another
  <2> QED
    BY <1>1, <1>2, <1>5, <2>1
<1>9. ASSUME UNCHANGED F!vars PROVE Passed(marks, n)'
  BY <1>2, <1>5, <1>9 DEF F!vars
<1> QED
  BY <1>4, <1>6, <1>7, <1>8, <1>9 DEF F!Next

LEMMA FormStarts ==
    ASSUME NEW B, NEW Fields, F!MadeOf(B, Fields), F!Init,
           NEW marks \in Seq(Nat), F!LaidOut(form, marks)
    PROVE  Passed(marks, 1)
<1> DEFINE C == WithMarks(B)
           size == Len(form.parts)
           first == 1
           found == F!Found(form.bytes, <<F!Boundary>>, first)
<1>1. form.bytes \in Seq(C) /\ size \in Nat /\ F!Boundary \in C
  <2>1. form \in Forms
    BY DEF F!Init
  <2> QED
    BY <2>1, FormIsMade DEF WithMarks
<1>2. /\ DOMAIN marks = 1..(size + 1) /\ \A m \in 1..(size + 1) : marks[m] \in Nat
      /\ \A m, l \in 1..(size + 1) : m < l => marks[m] < marks[l]
  BY <1>1 DEF F!LaidOut
<1> HIDE DEF C
<1>3. first \in Nat \ {0}
  OBVIOUS
<1>4. \A j : j \in found <=> Onward(form, marks, first, j)
  <2> HIDE DEF first
  <2> QED
    BY <1>1, <1>3, BoundariesFrom
<1>5. marks[1] # 0
  <2>1. marks[1] \in {marks[m] : m \in DOMAIN marks}
    BY <1>1, <1>2
  <2>2. marks[1] \in DOMAIN form.bytes
    BY <2>1 DEF F!LaidOut
  <2>3. 0 \notin DOMAIN form.bytes
    BY <1>1
  <2> QED
    BY <2>2, <2>3
<1>6. marks[1] \in Nat /\ marks[1] >= 1 /\ 1 \in 1..(size + 1)
  BY <1>1, <1>2, <1>5
<1>7. marks[1] \in found
  BY <1>4, <1>6 DEF Onward
<1>8. ASSUME NEW j \in found PROVE marks[1] <= j
  <2>1. PICK m \in 1..(size + 1) : j = marks[m]
    BY <1>4 DEF Onward
  <2>2. m = 1 \/ 1 < m
    BY <1>1
  <2> QED
    BY <1>1, <1>2, <1>6, <2>1, <2>2
<1>9. F!Find(form.bytes, <<F!Boundary>>, first) = marks[1]
  <2> DEFINE j == marks[1]
  <2>1. j \in found /\ \A l \in found : j <= l
    BY <1>7, <1>8
  <2>2. Len(form.bytes) \in Nat /\ Len(<<F!Boundary>>) \in Nat
    BY <1>1
  <2> HIDE DEF j, first
  <2>3. F!Find(form.bytes, <<F!Boundary>>, first) = j
    BY <1>3, <2>1, <2>2, FindIs
  <2> QED
    BY <2>3 DEF j
<1>10. pos = marks[1] /\ formDisk = <<>> /\ code = 0
  BY <1>9 DEF F!Init
<1>11. F!FilesOf(1 - 1) = <<>> /\ F!AllOpened(1 - 1)
  <2>1. 1 - 1 = 0
    OBVIOUS
  <2>2. F!AllOpened(0)
    BY DEF F!AllOpened, F!Uploads
  <2> QED
    BY <2>1, <2>2, FilesNone
<1> QED
  BY <1>6, <1>10, <1>11 DEF Passed

LEMMA FormSoundAlways ==
    ASSUME NEW B, NEW Fields, F!MadeOf(B, Fields), F!ByTheRules
    PROVE  PartsSpec => []FormSound
<1>1. PartsInit => FormSound
  <2> SUFFICES ASSUME F!Init PROVE form \in Forms /\ \E marks \in Seq(Nat), n \in Nat : Passed(marks, n)
    BY DEF PartsInit, FormSound
  <2>1. form \in Forms
    BY DEF F!Init
  <2>2. PICK marks \in Seq(Nat) : F!LaidOut(form, marks)
    BY <2>1 DEF F!ByTheRules
  <2>3. Passed(marks, 1)
    BY <2>2, FormStarts
  <2> QED
    BY <2>1, <2>3
<1>2. ASSUME FormSound, [PartsNext]_partsVars PROVE FormSound'
  <2>1. CASE UNCHANGED <<part, upload>>
    <3>1. UNCHANGED <<form, pos, formDisk, code>>
      BY <2>1 DEF upload
    <3>2. \A marks, n : Passed(marks, n)' <=> Passed(marks, n)
      <4> SUFFICES ASSUME NEW marks, NEW n PROVE Passed(marks, n)' <=> Passed(marks, n)
        OBVIOUS
      <4>1. /\ F!FilesOf(n - 1)' = F!FilesOf(n - 1)
            /\ F!AllOpened(n - 1)' <=> F!AllOpened(n - 1)
        BY <3>1, FormStays
      <4>2. F!Uploads(Len(form.parts))' = F!Uploads(Len(form.parts))
        <5> DEFINE size == Len(form.parts)
        <5>1. F!Uploads(size)' = F!Uploads(size)
          BY <3>1, Zenon DEF F!Uploads
        <5> QED
          BY <5>1
      <4>3. F!LaidOut(form, marks)' <=> F!LaidOut(form, marks)
        BY <3>1, Zenon
      <4> QED
        BY <3>1, <4>1, <4>2, <4>3, Zenon DEF Passed
    <3> QED
      BY <1>2, <2>1, <3>1, <3>2 DEF FormSound
  <2>2. CASE part = "Form" /\ F!Next /\ NotForm
    <3>1. form \in Forms
      BY <1>2, <2>2 DEF FormSound
    <3>2. PICK marks \in Seq(Nat), n \in Nat : Passed(marks, n)
      BY <1>2, <2>2 DEF FormSound
    <3>3. form' \in Forms /\ (Passed(marks, n)' \/ Passed(marks, n + 1)')
      BY <2>2, <3>1, <3>2, FormStep
    <3>4. n + 1 \in Nat
      OBVIOUS
    <3> QED
      BY <3>2, <3>3, <3>4 DEF FormSound
  <2>3. CASE NotTokenizer \/ NotConfig \/ NotUri \/ NotResponse \/ NotScript
    BY <2>1, <2>3 DEF NotTokenizer, NotConfig, NotUri, NotResponse, NotScript
  <2> QED
    BY <1>2, <2>1, <2>2, <2>3 DEF PartsNext, partsVars
<1> QED
  BY <1>1, <1>2, PTL DEF PartsSpec

\* A form that follows the rules, of any parts and any bytes, is answered 201
\* only when each of its files is on the disk as it was sent, the last of a
\* name if there are several, and nothing else; when one cannot be opened, 500
\* leaves exactly those before it (Response.cpp:340-394).
THEOREM FormsAreStored ==
    ASSUME NEW B, NEW Fields, F!MadeOf(B, Fields), F!ByTheRules
    PROVE  PartsSpec => []StoredAsSent
<1>1. ASSUME FormSound PROVE StoredAsSent
  <2> SUFFICES ASSUME part = "Form" PROVE F!StoredAsSent
    BY DEF StoredAsSent
  <2> DEFINE size == Len(form.parts)
  <2>1. PICK marks \in Seq(Nat), n \in Nat : Passed(marks, n)
    BY <1>1 DEF FormSound
  <2>2. ASSUME code = 201 PROVE F!AllOpened(size) /\ formDisk = F!FilesOf(size)
    <3>1. size \in Nat
      BY <1>1, FormIsMade DEF FormSound
    <3>2. n - 1 = size
      BY <2>1, <2>2, <3>1 DEF Passed
    <3> QED
      BY <2>1, <3>2, Zenon DEF Passed
  <2>3. ASSUME code = 500
        PROVE  /\ n \in F!Uploads(size) /\ form.parts[n].name \in Unopened
               /\ F!AllOpened(n - 1) /\ formDisk = F!FilesOf(n - 1)
    BY <2>1, <2>3 DEF Passed
  <2> QED
    BY <2>2, <2>3 DEF F!StoredAsSent
<1>2. PartsSpec => []FormSound
  BY FormSoundAlways
<1> QED
  BY <1>1, <1>2, PTL

-----------------------------------------------------------------------------
(* Recursion.                                                              *)

\* f is given at the places in base by b, and elsewhere made by G of what f is
\* at another place.
IsRecursion(f, D, base, b, next, G) ==
    f = [k \in D |-> IF k \in base THEN b[k] ELSE G[<<k, f[next[k]]>>]]

\* Such a function exists if the other place is nearer to base.
LEMMA RecursionExists ==
    ASSUME NEW D, NEW Y, NEW base \in SUBSET D, NEW b \in [base -> Y],
           NEW next \in [D \ base -> D], NEW G \in [(D \ base) \X Y -> Y],
           NEW n \in Nat, NEW rank \in [D -> 0..n],
           \A k \in D \ base : rank[next[k]] < rank[k]
    PROVE  \E f \in [D -> Y] : IsRecursion(f, D, base, b, next, G)
<1> DEFINE Near(m) == {k \in D : rank[k] < m}
           Solves(f, m) ==
             /\ f \in [Near(m) -> Y]
             /\ \A k \in Near(m) : f[k] = IF k \in base THEN b[k] ELSE G[<<k, f[next[k]]>>]
           J == {m \in Nat : \E f : Solves(f, m)}
<1>1. \E f : Solves(f, 0)
  <2>1. Near(0) = {}
    OBVIOUS
  <2>2. Solves([k \in Near(0) |-> b[k]], 0)
    BY <2>1
  <2> QED
    BY <2>2
<1>2. ASSUME NEW m \in Nat, NEW f, Solves(f, m) PROVE \E g : Solves(g, m + 1)
  <2> DEFINE g == [k \in Near(m + 1) |->
                      IF k \in Near(m) THEN f[k]
                      ELSE IF k \in base THEN b[k] ELSE G[<<k, f[next[k]]>>]]
  <2>1. \A k \in Near(m + 1) \ base : next[k] \in Near(m) /\ next[k] \in Near(m + 1)
    OBVIOUS
  <2>2. Near(m) \subseteq Near(m + 1)
    OBVIOUS
  <2> HIDE DEF Near
  <2>3. \A k \in Near(m + 1) : k \in D
    BY DEF Near
  <2>4. ASSUME NEW k \in Near(m + 1) PROVE g[k] \in Y
    <3>1. ASSUME k \notin base PROVE f[next[k]] \in Y /\ G[<<k, f[next[k]]>>] \in Y
      BY <1>2, <2>1, <2>3, <3>1
    <3> QED
      BY <1>2, <3>1
  <2>5. ASSUME NEW k \in Near(m + 1)
        PROVE  g[k] = IF k \in base THEN b[k] ELSE G[<<k, g[next[k]]>>]
    <3>1. ASSUME k \notin base PROVE g[next[k]] = f[next[k]]
      BY <2>1, <3>1
    <3>2. CASE k \in Near(m)
      BY <1>2, <3>1, <3>2
    <3>3. CASE k \notin Near(m)
      BY <3>1, <3>3
    <3> QED
      BY <3>2, <3>3
  <2>6. g \in [Near(m + 1) -> Y]
    BY <2>4
  <2> HIDE DEF g
  <2>7. Solves(g, m + 1)
    BY <2>5, <2>6
  <2> QED
    BY <2>7
<1>3. n + 1 \in J
  <2>1. 0 \in J
    BY <1>1
  <2>2. \A k \in 1..(n + 1) : k - 1 \in J => k \in J
    <3> HIDE DEF Solves
    <3> SUFFICES ASSUME NEW k \in 1..(n + 1), k - 1 \in J PROVE k \in J
      OBVIOUS
    <3>1. PICK f : Solves(f, k - 1)
      OBVIOUS
    <3>2. k - 1 \in Nat /\ (k - 1) + 1 = k /\ k \in Nat
      OBVIOUS
    <3> QED
      BY <1>2, <3>1, <3>2
  <2>3. \A k \in 0..(n + 1) : k \in J
    <3> HIDE DEF J
    <3>1. n + 1 \in Nat
      OBVIOUS
    <3> QED
      BY <2>1, <2>2, <3>1, Induction
  <2>4. n + 1 \in 0..(n + 1)
    OBVIOUS
  <2> QED
    BY <2>3, <2>4
<1>4. PICK f : Solves(f, n + 1)
  BY <1>3
<1>5. Near(n + 1) = D
  OBVIOUS
<1> HIDE DEF Near
<1>6. f \in [D -> Y] /\ \A k \in D : f[k] = IF k \in base THEN b[k] ELSE G[<<k, f[next[k]]>>]
  BY <1>4, <1>5
<1>7. f = [k \in D |-> IF k \in base THEN b[k] ELSE G[<<k, f[next[k]]>>]]
  BY <1>6
<1> QED
  BY <1>6, <1>7 DEF IsRecursion

-----------------------------------------------------------------------------
(* urlDecode.                                                              *)

\* f is what urlDecode makes of s from each byte on.
Decodes(f, s) ==
    f = [k \in 1..(Len(s) + 3) |->
            IF k > Len(s) THEN <<>> ELSE <<U!Decoded(s, k)>> \o f[U!Following(s, k)]]

LEMMA DecodedByte ==
    ASSUME NEW B, \A x, y \in B : Hex[<<x, y>>] \in B, U!Space \in B, NEW s \in Seq(B),
           NEW k \in 1..Len(s)
    PROVE  /\ U!Decoded(s, k) \in B
           /\ U!Following(s, k) \in (k + 1)..(Len(s) + 3)
<1>1. Len(s) \in Nat
  OBVIOUS
<1>2. U!Escape(s, k) => s[k + 1] \in B /\ s[k + 2] \in B
  BY <1>1 DEF U!Escape
<1> QED
  BY <1>1, <1>2 DEF U!Decoded, U!Following

LEMMA DecodeLoop ==
    ASSUME NEW B, \A x, y \in B : Hex[<<x, y>>] \in B, U!Space \in B, NEW s \in Seq(B)
    PROVE  \E f : Decodes(f, s) /\ U!UrlDecode(s) = f[1]
<1> DEFINE n == Len(s)
           D == 1..(n + 3)
           base == (n + 1)..(n + 3)
           b == [k \in base |-> <<>>]
           next == [k \in D \ base |-> U!Following(s, k)]
           Y == Seq(B)
           G == [x \in (D \ base) \X Y |-> <<U!Decoded(s, x[1])>> \o x[2]]
           rank == [k \in D |-> n + 3 - k]
<1>1. n \in Nat /\ n + 3 \in Nat /\ base \in SUBSET D /\ D \ base = 1..n /\ b \in [base -> Y]
  OBVIOUS
<1>2. \A k \in 1..n : U!Decoded(s, k) \in B /\ U!Following(s, k) \in (k + 1)..(n + 3)
  BY DecodedByte
<1>3. next \in [D \ base -> D] /\ rank \in [D -> 0..(n + 3)]
      /\ \A k \in D \ base : rank[next[k]] < rank[k]
  BY <1>1, <1>2
<1>4. G \in [(D \ base) \X Y -> Y]
  <2> SUFFICES ASSUME NEW x \in (D \ base) \X Y PROVE <<U!Decoded(s, x[1])>> \o x[2] \in Y
    OBVIOUS
  <2>1. <<U!Decoded(s, x[1])>> \in Seq(B) /\ x[2] \in Seq(B)
    BY <1>1, <1>2
  <2> QED
    BY <2>1
<1>5. \E f \in [D -> Y] : IsRecursion(f, D, base, b, next, G)
  <2> HIDE DEF n, D, base, b, next, Y, G, rank
  <2> QED
    BY <1>1, <1>3, <1>4, RecursionExists
<1>6. PICK f \in [D -> Y] : IsRecursion(f, D, base, b, next, G)
  BY <1>5
<1>7. Decodes(f, s)
  <2>1. ASSUME NEW k \in D
        PROVE  f[k] = IF k > n THEN <<>> ELSE <<U!Decoded(s, k)>> \o f[U!Following(s, k)]
    <3>1. f[k] = IF k \in base THEN b[k] ELSE G[<<k, f[next[k]]>>]
      <4> HIDE DEF D, base, b, next, G
      <4> QED
        BY <1>6 DEF IsRecursion
    <3>2. CASE k > n
      BY <1>1, <3>1, <3>2
    <3>3. CASE ~(k > n)
      <4>1. k \in D \ base /\ k \in 1..n
        BY <1>1, <3>3
      <4>2. next[k] = U!Following(s, k) /\ next[k] \in D
        BY <1>3, <4>1
      <4>3. f[next[k]] \in Y
        BY <1>6, <4>2
      <4>4. G[<<k, f[next[k]]>>] = <<U!Decoded(s, k)>> \o f[next[k]]
        <5> HIDE DEF D, base, next, Y
        <5> QED
          BY <4>1, <4>3
      <4> QED
        BY <3>1, <3>3, <4>1, <4>2, <4>4
    <3> QED
      BY <3>2, <3>3
  <2>2. f = [k \in D |-> f[k]]
    BY <1>6
  <2> QED
    BY <2>1, <2>2 DEF Decodes
<1>8. U!UrlDecode(s) = (CHOOSE g : Decodes(g, s))[1]
  BY DEF U!UrlDecode, Decodes
<1> QED
  BY <1>7, <1>8

\* What holds at a place if it holds nearer to the base holds everywhere.
LEMMA RankInduction ==
    ASSUME NEW D, NEW S, NEW n \in Nat, NEW rank \in [D -> 0..n],
           \A k \in D : (\A j \in D : rank[j] < rank[k] => j \in S) => k \in S
    PROVE  D \subseteq S
<1> DEFINE J == {rank[k] : k \in D \ S}
<1>1. SUFFICES ASSUME J # {} PROVE FALSE
  OBVIOUS
<1>2. J \subseteq Nat
  OBVIOUS
<1>3. PICK m \in J : \A l \in J : m <= l
  <2> HIDE DEF J
  <2> QED
    BY <1>1, <1>2, First
<1>4. PICK k \in D \ S : m = rank[k]
  OBVIOUS
<1>5. \A j \in D : rank[j] < rank[k] => j \in S
  BY ONLY <1>3, <1>4, rank \in [D -> 0..n]
<1> QED
  BY <1>4, <1>5

\* A sequence from a position on, with what is at the position in front.
LEMMA FromHere ==
    ASSUME NEW B, NEW s \in Seq(B), NEW k \in 1..Len(s)
    PROVE  <<s[k]>> \o SubSeq(s, k + 1, Len(s)) = SubSeq(s, k, Len(s))
<1> DEFINE one == <<s[k]>>
           q == SubSeq(s, k + 1, Len(s))
           r == SubSeq(s, k, Len(s))
           n == Len(s)
<1>1. one \in Seq(B) /\ Len(one) = 1 /\ one[1] = s[k] /\ n \in Nat
  OBVIOUS
<1>2. q \in Seq(B) /\ Len(q) = n - k /\ \A j \in 1..(n - k) : q[j] = s[k + j]
  BY <1>1
<1>3. r \in Seq(B) /\ Len(r) = n - k + 1 /\ \A j \in 1..(n - k + 1) : r[j] = s[k + j - 1]
  BY <1>1
<1> HIDE DEF one, q, r
<1>4. /\ one \o q \in Seq(B) /\ Len(one \o q) = Len(one) + Len(q)
      /\ \A j \in 1..(Len(one) + Len(q)) :
            (one \o q)[j] = IF j <= Len(one) THEN one[j] ELSE q[j - Len(one)]
  BY <1>1, <1>2, ConcatProperties, Zenon
<1> DEFINE c == one \o q
<1> HIDE DEF c, n
<1>5. c \in Seq(B) /\ Len(c) = n - k + 1
      /\ \A j \in 1..(n - k + 1) : c[j] = IF j <= 1 THEN one[j] ELSE q[j - 1]
  BY <1>1, <1>2, <1>4 DEF c
<1>6. ASSUME NEW j \in 1..(n - k + 1) PROVE c[j] = r[j]
  <2>1. CASE j = 1
    BY <1>1, <1>3, <1>5, <2>1 DEF n
  <2>2. CASE j # 1
    <3>1. j - 1 \in 1..(n - k) /\ k + (j - 1) = k + j - 1 /\ ~(j <= 1)
      BY <1>1, <2>2 DEF n
    <3> QED
      BY <1>2, <1>3, <1>5, <3>1
  <2> QED
    BY <2>1, <2>2
<1>7. c = r
  BY <1>3, <1>5, <1>6, SeqEqual
<1> QED
  BY <1>7 DEF c, one, q, r

LEMMA DecodedIs ==
    ASSUME NEW B, \A x, y \in B : Hex[<<x, y>>] \in B, U!Space \in B, NEW s \in Seq(B)
    PROVE  U!UrlDecode(s) \in Seq(B)
<1> DEFINE n == Len(s)
           D == 1..(n + 3)
           rank == [k \in D |-> n + 3 - k]
<1>1. PICK f : Decodes(f, s) /\ U!UrlDecode(s) = f[1]
  BY DecodeLoop
<1> DEFINE S == {k \in D : f[k] \in Seq(B)}
<1>2. n \in Nat /\ n + 3 \in Nat /\ rank \in [D -> 0..(n + 3)] /\ 1 \in D
  OBVIOUS
<1>3. ASSUME NEW k \in D, \A j \in D : rank[j] < rank[k] => j \in S
      PROVE  k \in S
  <2>1. f[k] = IF k > n THEN <<>> ELSE <<U!Decoded(s, k)>> \o f[U!Following(s, k)]
    BY <1>1 DEF Decodes
  <2>2. CASE k > n
    <3>1. <<>> \in Seq(B)
      OBVIOUS
    <3>2. f[k] \in Seq(B)
      BY <2>1, <2>2, <3>1, Zenon
    <3> QED
      BY <3>2
  <2>3. CASE ~(k > n)
    <3>1. k \in 1..n
      BY <1>2, <2>3
    <3>2. U!Decoded(s, k) \in B /\ U!Following(s, k) \in (k + 1)..(n + 3)
      BY <3>1, DecodedByte
    <3>3. U!Following(s, k) \in S
      <4>1. U!Following(s, k) \in D /\ rank[U!Following(s, k)] < rank[k]
        BY <1>2, <3>1, <3>2
      <4> QED
        BY <1>3, <4>1
    <3>4. f[k] \in Seq(B)
      <4>1. <<U!Decoded(s, k)>> \in Seq(B) /\ f[U!Following(s, k)] \in Seq(B)
        BY <3>2, <3>3
      <4> QED
        BY <2>1, <2>3, <4>1
    <3> QED
      BY <3>4
  <2> QED
    BY <2>2, <2>3
<1>4. D \subseteq S
  <2> HIDE DEF S, D, rank, n
  <2> QED
    BY <1>2, <1>3, RankInduction
<1> QED
  BY <1>1, <1>2, <1>4

\* A text without escapes is what it is.
LEMMA DecodedIsSame ==
    ASSUME NEW B, \A x, y \in B : Hex[<<x, y>>] \in B, U!Space \in B, NEW s \in Seq(B),
           \A k \in DOMAIN s : s[k] # "%" /\ s[k] # "+"
    PROVE  U!UrlDecode(s) = s
<1> DEFINE n == Len(s)
           D == 1..(n + 1)
           rank == [k \in D |-> n + 1 - k]
<1>1. PICK f : Decodes(f, s) /\ U!UrlDecode(s) = f[1]
  BY DecodeLoop
<1> DEFINE S == {k \in D : f[k] = SubSeq(s, k, n)}
<1>2. n \in Nat /\ n + 1 \in Nat /\ rank \in [D -> 0..(n + 1)] /\ 1 \in D
  OBVIOUS
<1>3. ASSUME NEW k \in D, \A j \in D : rank[j] < rank[k] => j \in S
      PROVE  k \in S
  <2>1. f[k] = IF k > n THEN <<>> ELSE <<U!Decoded(s, k)>> \o f[U!Following(s, k)]
    <3>1. k \in 1..(n + 3)
      BY <1>2
    <3> QED
      BY <1>1, <3>1 DEF Decodes
  <2>2. CASE k > n
    <3>1. SubSeq(s, k, n) = <<>>
      BY <1>2, <2>2
    <3> QED
      BY <2>1, <2>2, <3>1
  <2>3. CASE ~(k > n)
    <3>1. k \in 1..n /\ k \in DOMAIN s
      BY <1>2, <2>3
    <3>2. U!Decoded(s, k) = s[k] /\ U!Following(s, k) = k + 1
      BY <3>1 DEF U!Decoded, U!Following, U!Escape
    <3>3. k + 1 \in S
      <4>1. k + 1 \in D /\ rank[k + 1] < rank[k]
        BY <1>2, <3>1
      <4> QED
        BY <1>3, <4>1
    <3>4. f[k] = <<s[k]>> \o SubSeq(s, k + 1, n)
      BY <2>1, <2>3, <3>2, <3>3
    <3> QED
      BY <3>1, <3>4, FromHere
  <2> QED
    BY <2>2, <2>3
<1>4. D \subseteq S
  <2> HIDE DEF S, D, rank, n
  <2> QED
    BY <1>2, <1>3, RankInduction
<1>5. f[1] = SubSeq(s, 1, n)
  BY <1>2, <1>4
<1> QED
  BY <1>1, <1>5

-----------------------------------------------------------------------------
(* split.                                                                  *)

IsFirst(s, b, k, e) ==
    /\ e \in k..(Len(s) + 1)
    /\ e <= Len(s) => s[e] = b
    /\ \A j \in k..(e - 1) : s[j] # b

LEMMA FirstFromIs ==
    ASSUME NEW B, NEW s \in Seq(B), NEW b, NEW k \in 1..(Len(s) + 1)
    PROVE  /\ IsFirst(s, b, k, U!FirstFrom(s, b, k))
           /\ \A e : IsFirst(s, b, k, e) => U!FirstFrom(s, b, k) = e
<1> DEFINE n == Len(s)
           J == {e \in k..n : s[e] = b} \cup {n + 1}
<1>1. n \in Nat /\ J \subseteq Nat /\ J # {}
  OBVIOUS
<1>2. PICK e \in J : \A j \in J : e <= j
  <2> HIDE DEF J
  <2> QED
    BY <1>1, First
<1>3. IsFirst(s, b, k, e)
  <2>1. ASSUME NEW j \in k..(e - 1) PROVE s[j] # b
    <3>1. j \notin J
      BY <1>1, <1>2, <2>1
    <3>2. j \in k..n
      BY <1>1, <1>2, <2>1
    <3> QED
      BY <3>1, <3>2
  <2>2. e \in k..(n + 1) /\ (e <= n => s[e] = b)
    BY <1>1, <1>2
  <2> QED
    BY <2>1, <2>2 DEF IsFirst
<1>4. ASSUME NEW d, IsFirst(s, b, k, d) PROVE d = e
  <2>1. d \in Nat /\ e \in Nat /\ d \in k..(n + 1) /\ e \in k..(n + 1)
    BY <1>3, <1>4 DEF IsFirst
  <2>2. ~(d < e)
    BY <1>1, <1>3, <1>4, <2>1 DEF IsFirst
  <2>3. ~(e < d)
    BY <1>1, <1>3, <1>4, <2>1 DEF IsFirst
  <2> QED
    BY <2>1, <2>2, <2>3
<1>5. U!FirstFrom(s, b, k) = CHOOSE d \in k..(Len(s) + 1) :
                                /\ d <= Len(s) => s[d] = b
                                /\ \A j \in k..(d - 1) : s[j] # b
  BY DEF U!FirstFrom
<1>6. U!FirstFrom(s, b, k) = CHOOSE d : IsFirst(s, b, k, d)
  BY <1>5, Zenon DEF IsFirst
<1> QED
  BY <1>3, <1>4, <1>6

\* What split can return pieces of: they are not empty, and have no slash.
PiecesOf(B) == {p \in Seq(B) : p # <<>> /\ \A k \in 1..Len(p) : p[k] # U!Slash}

\* f is what split makes of s from each byte on.
Splits(f, s) ==
    f = [k \in 1..(Len(s) + 2) |->
            IF k > Len(s) THEN <<>>
            ELSE LET end == U!FirstFrom(s, U!Slash, k)
                 IN  (IF end = k THEN <<>> ELSE <<SubSeq(s, k, end - 1)>>) \o f[end + 1]]

\* The piece from k on, if it is one.
PieceAt(s, k) ==
    IF U!FirstFrom(s, U!Slash, k) = k THEN <<>>
    ELSE <<SubSeq(s, k, U!FirstFrom(s, U!Slash, k) - 1)>>

LEMMA PieceIs ==
    ASSUME NEW B, NEW s \in Seq(B), NEW k \in 1..Len(s)
    PROVE  /\ PieceAt(s, k) \in Seq(PiecesOf(B))
           /\ U!FirstFrom(s, U!Slash, k) + 1 \in (k + 1)..(Len(s) + 2)
<1> DEFINE e == U!FirstFrom(s, U!Slash, k)
<1>1. k \in 1..(Len(s) + 1) /\ Len(s) \in Nat
  OBVIOUS
<1>2. IsFirst(s, U!Slash, k, e)
  BY <1>1, FirstFromIs
<1>3. e \in k..(Len(s) + 1) /\ \A j \in k..(e - 1) : s[j] # U!Slash
  BY <1>2 DEF IsFirst
<1> HIDE DEF e
<1>4. ASSUME e # k PROVE SubSeq(s, k, e - 1) \in PiecesOf(B)
  <2> DEFINE p == SubSeq(s, k, e - 1)
  <2>1. p \in Seq(B) /\ Len(p) = e - k /\ \A j \in 1..(e - k) : p[j] = s[k + j - 1]
    BY <1>1, <1>3
  <2>2. Len(p) # 0
    BY <1>1, <1>3, <1>4, <2>1
  <2>3. \A j \in 1..Len(p) : k + j - 1 \in k..(e - 1)
    BY <1>1, <1>3, <2>1
  <2> HIDE DEF p
  <2>4. p # <<>>
    BY <2>2
  <2>5. \A j \in 1..Len(p) : p[j] # U!Slash
    BY <1>3, <2>1, <2>3
  <2>6. p \in PiecesOf(B)
    BY <2>1, <2>4, <2>5 DEF PiecesOf
  <2> QED
    BY <2>6 DEF p
<1>5. PieceAt(s, k) = IF e = k THEN <<>> ELSE <<SubSeq(s, k, e - 1)>>
  BY DEF PieceAt, e
<1>6. PieceAt(s, k) \in Seq(PiecesOf(B))
  <2>1. CASE e = k
    <3>1. <<>> \in Seq(PiecesOf(B))
      OBVIOUS
    <3> QED
      BY <1>5, <2>1, <3>1
  <2>2. CASE e # k
    <3> DEFINE p == SubSeq(s, k, e - 1)
    <3>1. p \in PiecesOf(B)
      BY <1>4, <2>2
    <3> HIDE DEF p
    <3>2. <<p>> \in Seq(PiecesOf(B))
      BY <3>1
    <3> QED
      BY <1>5, <2>2, <3>2 DEF p
  <2> QED
    BY <2>1, <2>2
<1> QED
  BY <1>1, <1>3, <1>6 DEF e

LEMMA SplitLoop ==
    ASSUME NEW B, NEW s \in Seq(B)
    PROVE  \E f : Splits(f, s) /\ U!Split(s) = f[1]
<1> DEFINE n == Len(s)
           D == 1..(n + 2)
           base == (n + 1)..(n + 2)
           b == [k \in base |-> <<>>]
           next == [k \in D \ base |-> U!FirstFrom(s, U!Slash, k) + 1]
           Y == Seq(PiecesOf(B))
           G == [x \in (D \ base) \X Y |-> PieceAt(s, x[1]) \o x[2]]
           rank == [k \in D |-> n + 2 - k]
<1>1. n \in Nat /\ n + 2 \in Nat /\ base \in SUBSET D /\ D \ base = 1..n
  OBVIOUS
<1>2. b \in [base -> Y]
  <2>1. <<>> \in Y
    OBVIOUS
  <2> QED
    BY <2>1
<1>3. \A k \in 1..n : /\ PieceAt(s, k) \in Y
                      /\ U!FirstFrom(s, U!Slash, k) + 1 \in (k + 1)..(n + 2)
  BY PieceIs
<1>4. next \in [D \ base -> D] /\ rank \in [D -> 0..(n + 2)]
      /\ \A k \in D \ base : rank[next[k]] < rank[k]
  BY <1>1, <1>3
<1>5. G \in [(D \ base) \X Y -> Y]
  <2> SUFFICES ASSUME NEW x \in (D \ base) \X Y PROVE PieceAt(s, x[1]) \o x[2] \in Y
    OBVIOUS
  <2>1. PieceAt(s, x[1]) \in Seq(PiecesOf(B)) /\ x[2] \in Seq(PiecesOf(B))
    BY <1>1, <1>3
  <2> QED
    BY <2>1
<1>6. PICK f \in [D -> Y] : IsRecursion(f, D, base, b, next, G)
  <2> HIDE DEF n, D, base, b, next, Y, G, rank
  <2> QED
    BY <1>1, <1>2, <1>4, <1>5, RecursionExists
<1>7. Splits(f, s)
  <2>1. ASSUME NEW k \in D
        PROVE  f[k] = IF k > n THEN <<>>
                      ELSE PieceAt(s, k) \o f[U!FirstFrom(s, U!Slash, k) + 1]
    <3>1. f[k] = IF k \in base THEN b[k] ELSE G[<<k, f[next[k]]>>]
      <4> HIDE DEF D, base, b, next, G
      <4> QED
        BY <1>6 DEF IsRecursion
    <3>2. CASE k > n
      BY <1>1, <3>1, <3>2
    <3>3. CASE ~(k > n)
      <4>1. k \in D \ base /\ k \in 1..n
        BY <1>1, <3>3
      <4>2. next[k] = U!FirstFrom(s, U!Slash, k) + 1 /\ next[k] \in D
        BY <1>4, <4>1
      <4>3. f[next[k]] \in Y
        BY <1>6, <4>2
      <4>4. G[<<k, f[next[k]]>>] = PieceAt(s, k) \o f[next[k]]
        <5> HIDE DEF D, base, next, Y
        <5> QED
          BY <4>1, <4>3
      <4> QED
        BY <3>1, <3>3, <4>1, <4>2, <4>4
    <3> QED
      BY <3>2, <3>3
  <2>2. f = [k \in D |-> f[k]]
    BY <1>6
  <2>3. f = [k \in D |-> IF k > n THEN <<>>
                         ELSE PieceAt(s, k) \o f[U!FirstFrom(s, U!Slash, k) + 1]]
    BY <2>1, <2>2
  <2> QED
    BY <2>3 DEF Splits, PieceAt
<1>8. U!Split(s) = (CHOOSE g : Splits(g, s))[1]
  BY DEF U!Split, Splits
<1> QED
  BY <1>7, <1>8

LEMMA SplitIs ==
    ASSUME NEW B, NEW s \in Seq(B)
    PROVE  U!Split(s) \in Seq(PiecesOf(B))
<1> DEFINE n == Len(s)
           D == 1..(n + 2)
           rank == [k \in D |-> n + 2 - k]
           Y == Seq(PiecesOf(B))
<1>1. PICK f : Splits(f, s) /\ U!Split(s) = f[1]
  BY SplitLoop
<1> DEFINE S == {k \in D : f[k] \in Y}
<1>2. n \in Nat /\ n + 2 \in Nat /\ rank \in [D -> 0..(n + 2)] /\ 1 \in D
  OBVIOUS
<1>3. ASSUME NEW k \in D, \A j \in D : rank[j] < rank[k] => j \in S
      PROVE  k \in S
  <2> DEFINE next == U!FirstFrom(s, U!Slash, k) + 1
  <2>1. f[k] = IF k > n THEN <<>> ELSE PieceAt(s, k) \o f[next]
    BY <1>1 DEF Splits, PieceAt
  <2>2. CASE k > n
    <3>1. <<>> \in Y
      OBVIOUS
    <3>2. f[k] \in Y
      BY <2>1, <2>2, <3>1, Zenon
    <3> QED
      BY <3>2
  <2>3. CASE ~(k > n)
    <3>1. k \in 1..n
      BY <1>2, <2>3
    <3>2. PieceAt(s, k) \in Y /\ next \in (k + 1)..(n + 2)
      BY <3>1, PieceIs
    <3> HIDE DEF next
    <3>3. next \in S
      <4>1. next \in D /\ rank[next] < rank[k]
        BY <1>2, <3>1, <3>2
      <4> QED
        BY <1>3, <4>1
    <3>4. f[k] \in Y
      <4>1. PieceAt(s, k) \in Seq(PiecesOf(B)) /\ f[next] \in Seq(PiecesOf(B))
        BY <3>2, <3>3
      <4> QED
        BY <2>1, <2>3, <4>1
    <3> QED
      BY <3>4
  <2> QED
    BY <2>2, <2>3
<1>4. D \subseteq S
  <2> HIDE DEF S, D, rank, n
  <2> QED
    BY <1>2, <1>3, RankInduction
<1> QED
  BY <1>1, <1>2, <1>4

-----------------------------------------------------------------------------
(* The path that is put together.                                          *)

LEMMA EmptyConcat ==
    ASSUME NEW B, NEW s \in Seq(B)
    PROVE  <<>> \o s = s /\ s \o <<>> = s
  OBVIOUS

LEMMA FlattenLoop ==
    ASSUME NEW B, NEW q \in Seq(Seq(B))
    PROVE  \E g : /\ g[0] = <<>> /\ \A k \in 1..Len(q) : g[k] = g[k - 1] \o q[k]
                  /\ \A k \in 0..Len(q) : g[k] \in Seq(B)
                  /\ U!FlattenSeq(q) = g[Len(q)]
<1> DEFINE n == Len(q)
           Flattens(f) == f = [k \in 1..n |-> IF k = 1 THEN q[k] ELSE f[k - 1] \o q[k]]
           D == 1..n
           base == {1}
           b == [k \in base |-> q[1]]
           next == [k \in D \ base |-> k - 1]
           Y == Seq(B)
           G == [x \in (D \ base) \X Y |-> x[2] \o q[x[1]]]
           rank == [k \in D |-> k]
<1>1. n \in Nat /\ \A k \in 1..n : q[k] \in Seq(B)
  OBVIOUS
<1>2. ASSUME n # 0 PROVE \E f : Flattens(f)
  <2>1. base \in SUBSET D /\ D \ base = 2..n /\ b \in [base -> Y]
    BY <1>1, <1>2
  <2>2. /\ next \in [D \ base -> D] /\ rank \in [D -> 0..n]
        /\ \A k \in D \ base : rank[next[k]] < rank[k]
    BY <1>1, <1>2
  <2>3. G \in [(D \ base) \X Y -> Y]
    <3> SUFFICES ASSUME NEW x \in (D \ base) \X Y PROVE x[2] \o q[x[1]] \in Y
      OBVIOUS
    <3>1. x[2] \in Seq(B) /\ q[x[1]] \in Seq(B)
      BY <1>1
    <3> QED
      BY <3>1
  <2>4. PICK f \in [D -> Y] : IsRecursion(f, D, base, b, next, G)
    <3> HIDE DEF n, D, base, b, next, Y, G, rank
    <3> QED
      BY <1>1, <2>1, <2>2, <2>3, RecursionExists
  <2>5. ASSUME NEW k \in D PROVE f[k] = IF k = 1 THEN q[k] ELSE f[k - 1] \o q[k]
    <3>1. f[k] = IF k \in base THEN b[k] ELSE G[<<k, f[next[k]]>>]
      <4> HIDE DEF D, base, b, next, G
      <4> QED
        BY <2>4 DEF IsRecursion
    <3>2. CASE k = 1
      BY <3>1, <3>2
    <3>3. CASE k # 1
      <4>1. k \in D \ base /\ next[k] = k - 1 /\ next[k] \in D
        BY <2>2, <3>3
      <4>2. G[<<k, f[next[k]]>>] = f[next[k]] \o q[k]
        <5>1. f[next[k]] \in Y
          BY <2>4, <4>1
        <5> HIDE DEF D, base, next, Y
        <5> QED
          BY <4>1, <5>1
      <4> QED
        BY <3>1, <3>3, <4>1, <4>2
    <3> QED
      BY <3>2, <3>3
  <2>6. f = [k \in D |-> f[k]]
    BY <2>4
  <2> QED
    BY <2>5, <2>6
<1>3. CASE n = 0
  <2> DEFINE g == [k \in 0..0 |-> <<>>]
  <2>1. q = <<>> /\ U!FlattenSeq(q) = q
    BY <1>3 DEF U!FlattenSeq
  <2>2. <<>> \in Seq(B)
    OBVIOUS
  <2>3. g[0] = <<>> /\ \A k \in 0..n : g[k] \in Seq(B)
    BY <1>3, <2>2
  <2> HIDE DEF g
  <2> QED
    BY <1>3, <2>1, <2>3
<1>4. CASE n # 0
  <2> DEFINE f == CHOOSE f : Flattens(f)
             g == [k \in 0..n |-> IF k = 0 THEN <<>> ELSE f[k]]
  <2>1. Flattens(f)
    BY <1>2, <1>4
  <2>2. U!FlattenSeq(q) = f[n]
    BY <1>4 DEF U!FlattenSeq
  <2> HIDE DEF f
  <2>3. \A k \in 1..n : f[k] = IF k = 1 THEN q[k] ELSE f[k - 1] \o q[k]
    BY <2>1
  <2>4. ASSUME NEW k \in 1..n PROVE g[k] = g[k - 1] \o q[k]
    <3>1. k \in 0..n /\ k - 1 \in 0..n /\ k # 0 /\ (k - 1 = 0 <=> k = 1)
      BY <1>1
    <3>2. g[k] = f[k] /\ g[k - 1] = IF k = 1 THEN <<>> ELSE f[k - 1]
      BY <3>1
    <3>3. <<>> \o q[k] = q[k]
      BY <1>1, EmptyConcat
    <3> HIDE DEF g
    <3> QED
      BY <2>3, <3>2, <3>3
  <2>5. \A k \in 0..n : g[k] \in Seq(B)
    <3> DEFINE S == {k \in 0..n : g[k] \in Seq(B)}
    <3>1. 0 \in S
      <4>1. <<>> \in Seq(B)
        OBVIOUS
      <4> QED
        BY <1>1, <4>1
    <3>2. ASSUME NEW k \in 1..n, k - 1 \in S PROVE k \in S
      <4>1. g[k - 1] \in Seq(B) /\ q[k] \in Seq(B) /\ k \in 0..n
        BY <1>1, <3>2
      <4>2. g[k] = g[k - 1] \o q[k]
        BY <2>4
      <4> HIDE DEF g
      <4>3. g[k] \in Seq(B)
        BY <4>1, <4>2
      <4> QED
        BY <4>1, <4>3
    <3>3. \A k \in 0..n : k \in S
      <4> HIDE DEF S, n
      <4> QED
        BY <1>1, <3>1, <3>2, Induction
    <3> QED
      BY <3>3
  <2>6. g[0] = <<>> /\ g[n] = f[n]
    BY <1>1, <1>4
  <2> HIDE DEF g
  <2> QED
    BY <2>2, <2>4, <2>5, <2>6
<1> QED
  BY <1>3, <1>4

\* A path with a further segment.
LEMMA Joined ==
    ASSUME NEW B, U!Slash \in B, NEW q \in Seq(B), NEW p \in Seq(B), NEW r,
           r = q \o (<<U!Slash>> \o p)
    PROVE  /\ r \in Seq(B) /\ Len(r) = Len(q) + 1 + Len(p)
           /\ \A k \in 1..Len(q) : r[k] = q[k]
           /\ r[Len(q) + 1] = U!Slash
           /\ \A k \in 1..Len(p) : r[Len(q) + 1 + k] = p[k]
<1> DEFINE one == <<U!Slash>>
           t == one \o p
<1>1. one \in Seq(B) /\ Len(one) = 1 /\ one[1] = U!Slash /\ Len(q) \in Nat /\ Len(p) \in Nat
  OBVIOUS
<1> HIDE DEF one
<1>2. t \in Seq(B) /\ Len(t) = 1 + Len(p)
      /\ \A k \in 1..(Len(one) + Len(p)) : t[k] = IF k <= Len(one) THEN one[k] ELSE p[k - Len(one)]
  BY <1>1, ConcatProperties, Zenon
<1>3. t[1] = U!Slash /\ \A k \in 1..Len(p) : t[1 + k] = p[k]
  <2> HIDE DEF t
  <2>1. \A k \in 1..Len(p) : 1 + k \in 1..(1 + Len(p)) /\ ~(1 + k <= 1) /\ (1 + k) - 1 = k
    BY <1>1
  <2>2. 1 \in 1..(1 + Len(p)) /\ 1 <= 1
    BY <1>1
  <2> QED
    BY <1>1, <1>2, <2>1, <2>2
<1>4. r = q \o t
  BY DEF one
<1> HIDE DEF t
<1>5. r \in Seq(B) /\ Len(r) = Len(q) + Len(t)
      /\ \A k \in 1..(Len(q) + Len(t)) : r[k] = IF k <= Len(q) THEN q[k] ELSE t[k - Len(q)]
  <2>1. t \in Seq(B)
    BY <1>2
  <2>2. /\ q \o t \in Seq(B) /\ Len(q \o t) = Len(q) + Len(t)
        /\ \A k \in 1..(Len(q) + Len(t)) :
              (q \o t)[k] = IF k <= Len(q) THEN q[k] ELSE t[k - Len(q)]
    BY <2>1, ConcatProperties, Zenon
  <2> QED
    BY <1>4, <2>2, Zenon
<1>6. Len(t) = 1 + Len(p)
  BY <1>2
<1>7. \A k \in 1..Len(q) : k \in 1..(Len(q) + Len(t)) /\ k <= Len(q)
  BY <1>1, <1>6
<1>8. \A k \in 1..Len(t) : /\ Len(q) + k \in 1..(Len(q) + Len(t)) /\ ~(Len(q) + k <= Len(q))
                           /\ (Len(q) + k) - Len(q) = k
  BY <1>1, <1>6
<1>9. \A k \in 1..Len(t) : r[Len(q) + k] = t[k]
  BY <1>5, <1>8
<1>10. 1 \in 1..Len(t) /\ \A k \in 1..Len(p) : 1 + k \in 1..Len(t) /\ Len(q) + (1 + k) = Len(q) + 1 + k
  BY <1>1, <1>6
<1> QED
  BY <1>1, <1>3, <1>5, <1>6, <1>7, <1>9, <1>10

\* The segments of w are in s with a slash before each: a[k] is where the k-th
\* ends.  At the end of s is a slash, or none.
Rests(w, tail, s, a) ==
    /\ a[0] = 0 /\ \A k \in 0..Len(w) : a[k] \in Nat
    /\ \A k \in 1..Len(w) : a[k] = a[k - 1] + 1 + Len(w[k])
    /\ \A k \in 1..Len(w) :
          /\ s[a[k - 1] + 1] = U!Slash
          /\ \A j \in 1..Len(w[k]) : s[a[k - 1] + 1 + j] = w[k][j]
    /\ Len(s) = a[Len(w)] + (IF tail THEN 1 ELSE 0)
    /\ tail => s[Len(s)] = U!Slash

LEMMA RebuiltIs ==
    ASSUME NEW B, U!Slash \in B, NEW w \in Seq(PiecesOf(B)), NEW trailing
    PROVE  /\ U!Rebuilt(w, trailing) \in Seq(B)
           /\ \E a : Rests(w, trailing \/ w = <<>>, U!Rebuilt(w, trailing), a)
<1> DEFINE n == Len(w)
           q == [k \in DOMAIN w |-> <<U!Slash>> \o w[k]]
           tail == trailing \/ w = <<>>
           end == IF tail THEN <<U!Slash>> ELSE <<>>
<1>1. n \in Nat /\ DOMAIN w = 1..n /\ \A k \in 1..n : w[k] \in Seq(B) /\ Len(w[k]) \in Nat
  BY DEF PiecesOf
<1>2. q \in Seq(Seq(B)) /\ Len(q) = n
  <2>1. \A k \in 1..n : <<U!Slash>> \o w[k] \in Seq(B)
    <3> SUFFICES ASSUME NEW k \in 1..n PROVE <<U!Slash>> \o w[k] \in Seq(B)
      OBVIOUS
    <3>1. <<U!Slash>> \in Seq(B) /\ w[k] \in Seq(B)
      BY <1>1
    <3> QED
      BY <3>1
  <2>2. q = [k \in 1..n |-> <<U!Slash>> \o w[k]]
    BY <1>1
  <2>3. q \in [1..n -> Seq(B)]
    BY <2>1, <2>2
  <2> QED
    BY <1>1, <2>3
<1>3. PICK g : /\ g[0] = <<>> /\ \A k \in 1..Len(q) : g[k] = g[k - 1] \o q[k]
               /\ \A k \in 0..Len(q) : g[k] \in Seq(B)
               /\ U!FlattenSeq(q) = g[Len(q)]
  <2> HIDE DEF q
  <2> QED
    BY <1>2, FlattenLoop
<1>4. \A k \in 1..n : q[k] = <<U!Slash>> \o w[k]
  BY <1>1
<1>5. U!Rebuilt(w, trailing) = U!FlattenSeq(q) \o end
  BY DEF U!Rebuilt
<1> HIDE DEF q, end, tail
<1> DEFINE a == [k \in 0..n |-> Len(g[k])]
<1>6. \A k \in 0..n : g[k] \in Seq(B) /\ Len(g[k]) \in Nat /\ a[k] = Len(g[k])
  BY <1>2, <1>3
<1>7. ASSUME NEW k \in 1..n
      PROVE  /\ Len(g[k]) = Len(g[k - 1]) + 1 + Len(w[k])
             /\ \A j \in 1..Len(g[k - 1]) : g[k][j] = g[k - 1][j]
             /\ g[k][Len(g[k - 1]) + 1] = U!Slash
             /\ \A j \in 1..Len(w[k]) : g[k][Len(g[k - 1]) + 1 + j] = w[k][j]
  <2>1. g[k] = g[k - 1] \o (<<U!Slash>> \o w[k])
    BY <1>2, <1>3, <1>4
  <2>2. k - 1 \in 0..n
    BY <1>1
  <2>3. g[k - 1] \in Seq(B) /\ w[k] \in Seq(B)
    BY <1>1, <1>6, <2>2
  <2> DEFINE u == g[k - 1]
             p == w[k]
             r == g[k]
  <2> HIDE DEF u, p, r
  <2>4. u \in Seq(B) /\ p \in Seq(B) /\ r = u \o (<<U!Slash>> \o p)
    BY <2>1, <2>3 DEF u, p, r
  <2>5. /\ Len(r) = Len(u) + 1 + Len(p)
        /\ \A j \in 1..Len(u) : r[j] = u[j]
        /\ r[Len(u) + 1] = U!Slash
        /\ \A j \in 1..Len(p) : r[Len(u) + 1 + j] = p[j]
    BY <2>4, Joined
  <2> QED
    BY <2>5 DEF u, p, r
<1> DEFINE In(m, k) ==
             /\ g[m][a[k - 1] + 1] = U!Slash
             /\ \A j \in 1..Len(w[k]) : g[m][a[k - 1] + 1 + j] = w[k][j]
           S == {m \in 0..n : \A k \in 1..m : a[k] <= a[m] /\ In(m, k)}
<1>8. n \in S
  <2>1. 0 \in S
    BY <1>1
  <2>2. ASSUME NEW m \in 1..n, m - 1 \in S PROVE m \in S
    <3>1. m \in 0..n /\ m - 1 \in 0..n /\ a[m] = a[m - 1] + 1 + Len(w[m])
          /\ a[m - 1] = Len(g[m - 1]) /\ a[m - 1] \in Nat /\ a[m] \in Nat
      BY <1>1, <1>6, <1>7
    <3>2. ASSUME NEW k \in 1..(m - 1) PROVE a[k] <= a[m] /\ In(m, k)
      <4>1. a[k] <= a[m - 1] /\ In(m - 1, k)
        BY <2>2
      <4>2. k \in 1..n /\ k \in 0..n /\ k - 1 \in 0..n
        BY <1>1
      <4>3. a[k] = a[k - 1] + 1 + Len(w[k]) /\ a[k - 1] \in Nat /\ Len(w[k]) \in Nat /\ a[k] \in Nat
        BY <1>1, <1>6, <1>7, <4>2
      <4>4. a[k - 1] + 1 \in 1..Len(g[m - 1])
        BY <3>1, <4>1, <4>3
      <4>5. \A j \in 1..Len(w[k]) : a[k - 1] + 1 + j \in 1..Len(g[m - 1])
        BY <3>1, <4>1, <4>3, SMTT(30)
      <4>6. \A j \in 1..Len(g[m - 1]) : g[m][j] = g[m - 1][j]
        BY <1>7
      <4>7. a[k] <= a[m]
        BY <1>1, <3>1, <4>1, <4>3
      <4> HIDE DEF a
      <4> QED
        BY <4>1, <4>4, <4>5, <4>6, <4>7
    <3>3. In(m, m) /\ a[m] <= a[m]
      <4>1. /\ g[m][Len(g[m - 1]) + 1] = U!Slash
            /\ \A j \in 1..Len(w[m]) : g[m][Len(g[m - 1]) + 1 + j] = w[m][j]
        BY <1>7
      <4> HIDE DEF a
      <4> QED
        BY <3>1, <4>1
    <3>4. \A k \in 1..m : k = m \/ k \in 1..(m - 1)
      BY <1>1
    <3> HIDE DEF In, a
    <3> QED
      BY <3>1, <3>2, <3>3, <3>4
  <2>3. \A k \in 0..n : k \in S
    <3> HIDE DEF S, n
    <3> QED
      BY <1>1, <2>1, <2>2, Induction
  <2>4. n \in 0..n
    BY <1>1
  <2> HIDE DEF S
  <2> QED
    BY <2>3, <2>4
<1> DEFINE s == g[n] \o end
<1>9. /\ s \in Seq(B) /\ Len(s) = a[n] + (IF tail THEN 1 ELSE 0)
      /\ \A j \in 1..a[n] : s[j] = g[n][j]
      /\ tail => s[Len(s)] = U!Slash
  <2>1. g[n] \in Seq(B) /\ Len(g[n]) = a[n] /\ a[n] \in Nat
    BY <1>1, <1>6
  <2>2. end \in Seq(B) /\ Len(end) = (IF tail THEN 1 ELSE 0) /\ (tail => end[1] = U!Slash)
    <3>1. CASE tail
      BY <3>1 DEF end
    <3>2. CASE ~tail
      BY <3>2 DEF end
    <3> QED
      BY <3>1, <3>2
  <2> DEFINE u == g[n]
  <2> HIDE DEF u, a
  <2>3. u \in Seq(B) /\ end \in Seq(B) /\ Len(u) = a[n]
    BY <2>1, <2>2 DEF u
  <2>4. /\ u \o end \in Seq(B) /\ Len(u \o end) = Len(u) + Len(end)
        /\ \A k \in 1..(Len(u) + Len(end)) :
              (u \o end)[k] = IF k <= Len(u) THEN u[k] ELSE end[k - Len(u)]
    BY <2>3, ConcatProperties, Zenon
  <2>5. s = u \o end
    BY DEF u
  <2> HIDE DEF s
  <2>6. s \in Seq(B) /\ Len(s) = a[n] + Len(end)
        /\ \A k \in 1..(a[n] + Len(end)) : s[k] = IF k <= a[n] THEN u[k] ELSE end[k - a[n]]
    BY <2>3, <2>4, <2>5
  <2>7. \A j \in 1..a[n] : s[j] = u[j]
    BY <2>1, <2>2, <2>6
  <2>8. ASSUME tail PROVE s[Len(s)] = U!Slash
    <3>1. Len(end) = 1 /\ Len(s) = a[n] + 1 /\ a[n] + 1 \in 1..(a[n] + 1)
          /\ ~(a[n] + 1 <= a[n]) /\ (a[n] + 1) - a[n] = 1
      BY <2>1, <2>2, <2>6, <2>8
    <3> QED
      BY <2>2, <2>6, <2>8, <3>1
  <2> QED
    BY <2>2, <2>6, <2>7, <2>8 DEF u
<1>10. Rests(w, tail, s, a)
  <2>1. a[0] = 0 /\ \A k \in 0..n : a[k] \in Nat
    BY <1>1, <1>3, <1>6
  <2>2. ASSUME NEW k \in 1..n
        PROVE  /\ a[k] = a[k - 1] + 1 + Len(w[k]) /\ s[a[k - 1] + 1] = U!Slash
               /\ \A j \in 1..Len(w[k]) : s[a[k - 1] + 1 + j] = w[k][j]
    <3>1. k \in 0..n /\ k - 1 \in 0..n /\ n \in 0..n
      BY <1>1
    <3>2. a[k] = a[k - 1] + 1 + Len(w[k]) /\ a[k - 1] \in Nat /\ Len(w[k]) \in Nat
          /\ a[n] \in Nat
      BY <1>1, <1>6, <1>7, <3>1
    <3>3. a[k] <= a[n] /\ In(n, k)
      BY <1>8
    <3>4. a[k - 1] + 1 \in 1..a[n] /\ \A j \in 1..Len(w[k]) : a[k - 1] + 1 + j \in 1..a[n]
      BY <3>2, <3>3
    <3> HIDE DEF s, a
    <3> QED
      BY <1>9, <3>2, <3>3, <3>4
  <2> HIDE DEF s, a
  <2> QED
    BY <1>9, <2>1, <2>2 DEF Rests
<1>11. U!Rebuilt(w, trailing) = s
  BY <1>2, <1>3, <1>5
<1> QED
  BY <1>9, <1>10, <1>11 DEF tail

\* What a piece is, and where it is in a path.
LEMMA RestsAt ==
    ASSUME NEW B, NEW w \in Seq(PiecesOf(B)), NEW tail, NEW s, NEW a, Rests(w, tail, s, a),
           NEW k \in 1..Len(w)
    PROVE  /\ w[k] \in Seq(B) /\ Len(w[k]) \in Nat /\ Len(w[k]) # 0
           /\ \A j \in 1..Len(w[k]) : w[k][j] # U!Slash
           /\ k \in 0..Len(w) /\ k - 1 \in 0..Len(w)
           /\ a[k] \in Nat /\ a[k - 1] \in Nat /\ a[k] = a[k - 1] + 1 + Len(w[k])
           /\ s[a[k - 1] + 1] = U!Slash
           /\ \A j \in 1..Len(w[k]) : s[a[k - 1] + 1 + j] = w[k][j]
<1>1. w[k] \in PiecesOf(B) /\ Len(w) \in Nat
  OBVIOUS
<1>2. w[k] \in Seq(B) /\ w[k] # <<>> /\ \A j \in 1..Len(w[k]) : w[k][j] # U!Slash
  BY <1>1 DEF PiecesOf
<1>3. Len(w[k]) \in Nat /\ Len(w[k]) # 0
  BY <1>2
<1>4. k \in 0..Len(w) /\ k - 1 \in 0..Len(w)
  BY <1>1
<1> QED
  BY <1>2, <1>3, <1>4 DEF Rests

\* How far the path goes.
LEMMA RestsTo ==
    ASSUME NEW w, NEW tail, NEW s, NEW a, Rests(w, tail, s, a), Len(w) \in Nat
    PROVE  /\ a[0] = 0 /\ \A k \in 0..Len(w) : a[k] \in Nat
           /\ a[Len(w)] <= Len(s) /\ Len(s) <= a[Len(w)] + 1 /\ Len(s) \in Nat
           /\ tail <=> Len(s) = a[Len(w)] + 1
           /\ Len(s) = a[Len(w)] + 1 => s[Len(s)] = U!Slash
<1>1. a[0] = 0 /\ (\A k \in 0..Len(w) : a[k] \in Nat) /\ a[Len(w)] \in Nat
  BY DEF Rests
<1>2. ASSUME tail PROVE Len(s) = a[Len(w)] + 1 /\ s[Len(s)] = U!Slash
  <2>1. Len(s) = a[Len(w)] + (IF tail THEN 1 ELSE 0) /\ s[Len(s)] = U!Slash
    BY <1>2, Zenon DEF Rests
  <2>2. (IF tail THEN 1 ELSE 0) = 1
    BY <1>2, Zenon
  <2> QED
    BY <2>1, <2>2
<1>3. ASSUME ~tail PROVE Len(s) = a[Len(w)]
  <2>1. Len(s) = a[Len(w)] + (IF tail THEN 1 ELSE 0)
    BY Zenon DEF Rests
  <2>2. (IF tail THEN 1 ELSE 0) = 0
    BY <1>3, Zenon
  <2> QED
    BY <1>1, <2>1, <2>2
<1> DEFINE full == Len(s) = a[Len(w)] + 1
<1>4. a[Len(w)] <= Len(s) /\ Len(s) <= a[Len(w)] + 1 /\ Len(s) \in Nat
  <2>1. CASE tail
    BY <1>1, <1>2, <2>1
  <2>2. CASE ~tail
    BY <1>1, <1>3, <2>2
  <2> QED
    BY <2>1, <2>2, Zenon
<1>5. tail => full
  BY <1>2, Zenon
<1>6. ~tail => ~full
  <2>1. Len(s) = a[Len(w)] => ~full
    BY <1>1
  <2> QED
    BY <1>3, <2>1, Zenon
<1>7. full => s[Len(s)] = U!Slash
  BY <1>2, <1>6, Zenon
<1> QED
  BY <1>1, <1>4, <1>5, <1>6, <1>7, Zenon

\* The ends of the segments are in their order.
LEMMA EndsInOrder ==
    ASSUME NEW B, NEW w \in Seq(PiecesOf(B)), NEW tail, NEW s, NEW a, Rests(w, tail, s, a)
    PROVE  \A k \in 0..Len(w) : a[k] <= a[Len(w)]
<1> DEFINE n == Len(w)
           S == {m \in 0..n : \A k \in 0..m : a[k] <= a[m]}
<1>1. n \in Nat /\ \A k \in 0..n : a[k] \in Nat
  BY DEF Rests
<1>2. 0 \in S
  BY <1>1
<1>3. ASSUME NEW m \in 1..n, m - 1 \in S PROVE m \in S
  <2>1. a[m] = a[m - 1] + 1 + Len(w[m]) /\ Len(w[m]) \in Nat /\ m \in 0..n
        /\ a[m] \in Nat /\ a[m - 1] \in Nat
    BY RestsAt
  <2>2. ASSUME NEW k \in 0..m PROVE a[k] <= a[m]
    <3>1. CASE k = m
      BY <2>1, <3>1
    <3>2. CASE k # m
      <4>1. k \in 0..(m - 1) /\ k \in 0..n
        BY <1>1, <3>2
      <4>2. a[k] <= a[m - 1] /\ a[k] \in Nat
        BY <1>1, <1>3, <4>1
      <4> QED
        BY <2>1, <4>2
    <3> QED
      BY <3>1, <3>2
  <2> QED
    BY <2>1, <2>2
<1>4. \A k \in 0..n : k \in S
  <2> HIDE DEF S, n
  <2> QED
    BY <1>1, <1>2, <1>3, Induction
<1>5. n \in S
  <2>1. n \in 0..n
    BY <1>1
  <2> HIDE DEF S
  <2> QED
    BY <1>4, <2>1
<1> QED
  BY <1>5

\* Each place of the path, but for the slash at its end, is in a segment or the
\* slash before one.
LEMMA Located ==
    ASSUME NEW B, NEW w \in Seq(PiecesOf(B)), NEW tail, NEW s, NEW a, Rests(w, tail, s, a),
           NEW l \in 1..a[Len(w)]
    PROVE  \E k \in 1..Len(w) : a[k - 1] < l /\ l <= a[k]
<1> DEFINE n == Len(w)
           S == {m \in 0..n : l <= a[m] => \E k \in 1..m : a[k - 1] < l /\ l <= a[k]}
<1>1. n \in Nat /\ a[0] = 0 /\ \A k \in 0..n : a[k] \in Nat
  BY DEF Rests
<1>2. 0 \in S
  BY <1>1
<1>3. ASSUME NEW m \in 1..n, m - 1 \in S PROVE m \in S
  <2>1. m \in 0..n /\ m - 1 \in 0..n /\ a[m] \in Nat /\ a[m - 1] \in Nat
    BY <1>1
  <2>2. CASE l <= a[m - 1]
    <3>1. PICK k \in 1..(m - 1) : a[k - 1] < l /\ l <= a[k]
      BY <1>3, <2>2
    <3>2. k \in 1..m
      BY <2>1
    <3> QED
      BY <2>1, <3>1, <3>2
  <2>3. CASE ~(l <= a[m - 1])
    <3>1. a[m - 1] < l /\ m \in 1..m
      BY <2>1, <2>3
    <3> QED
      BY <2>1, <3>1
  <2> QED
    BY <2>2, <2>3
<1>4. \A k \in 0..n : k \in S
  <2> HIDE DEF S, n
  <2> QED
    BY <1>1, <1>2, <1>3, Induction
<1>5. n \in S
  <2>1. n \in 0..n
    BY <1>1
  <2> HIDE DEF S
  <2> QED
    BY <1>4, <2>1
<1> QED
  BY <1>1, <1>5

\* What split takes from a place where a piece begins.
LEMMA PieceHere ==
    ASSUME NEW B, NEW s \in Seq(B), NEW p \in PiecesOf(B), NEW from \in Nat, NEW to \in Nat,
           from # 0, to = from + Len(p), to <= Len(s) + 1,
           \A j \in 1..Len(p) : s[from - 1 + j] = p[j],
           to <= Len(s) => s[to] = U!Slash
    PROVE  U!FirstFrom(s, U!Slash, from) = to /\ PieceAt(s, from) = <<p>>
<1>1. p \in Seq(B) /\ Len(p) \in Nat /\ Len(s) \in Nat
  BY DEF PiecesOf
<1>2. Len(p) # 0 /\ \A j \in 1..Len(p) : p[j] # U!Slash
  BY <1>1 DEF PiecesOf
<1>3. from \in 1..(Len(s) + 1) /\ to \in from..(Len(s) + 1) /\ from # to
  BY <1>1, <1>2
<1>4. ASSUME NEW j \in from..(to - 1) PROVE s[j] # U!Slash
  <2>1. j - from + 1 \in 1..Len(p) /\ from - 1 + (j - from + 1) = j
    BY <1>1
  <2> QED
    BY <1>2, <2>1
<1>5. U!FirstFrom(s, U!Slash, from) = to
  <2>1. IsFirst(s, U!Slash, from, to)
    BY <1>3, <1>4 DEF IsFirst
  <2> QED
    BY <1>3, <2>1, FirstFromIs
<1> DEFINE q == SubSeq(s, from, to - 1)
<1>6. q \in Seq(B) /\ Len(q) = Len(p) /\ \A j \in 1..Len(p) : q[j] = s[from + j - 1]
  BY <1>1, <1>3
<1>7. \A j \in 1..Len(p) : from + j - 1 = from - 1 + j
  BY <1>1
<1>8. q = p
  <2> HIDE DEF q
  <2> QED
    BY <1>1, <1>6, <1>7, SeqEqual
<1> QED
  BY <1>3, <1>5, <1>8 DEF PieceAt

\* split takes a path apart into the segments it was put together from.
LEMMA SplitRests ==
    ASSUME NEW B, U!Slash \in B, NEW s \in Seq(B), NEW w \in Seq(PiecesOf(B)),
           NEW tail, NEW a, Rests(w, tail, s, a), w = <<>> => tail
    PROVE  U!Split(s) = w
<1> DEFINE n == Len(w)
           size == Len(s)
<1>1. /\ n \in Nat /\ size \in Nat /\ a[0] = 0 /\ \A k \in 0..n : a[k] \in Nat
      /\ a[n] <= size /\ size <= a[n] + 1
      /\ size = a[n] + 1 => s[size] = U!Slash
      /\ w = <<>> => size = a[n] + 1
  <2>1. n \in Nat /\ size \in Nat
    OBVIOUS
  <2>2. /\ a[0] = 0 /\ \A k \in 0..n : a[k] \in Nat
        /\ a[n] <= size /\ size <= a[n] + 1
        /\ tail <=> size = a[n] + 1
        /\ size = a[n] + 1 => s[size] = U!Slash
    <3> HIDE DEF n, size
    <3>1. Len(w) \in Nat
      BY <2>1 DEF n
    <3> QED
      BY <3>1, RestsTo, SMT DEF n, size
  <2>3. w = <<>> => size = a[n] + 1
    BY <2>2, Zenon
  <2> QED
    BY <2>1, <2>2, <2>3, Zenon
<1>2. PICK f : Splits(f, s) /\ U!Split(s) = f[1]
  BY SplitLoop
<1>3. \A k \in 1..(size + 2) :
         f[k] = IF k > size THEN <<>> ELSE PieceAt(s, k) \o f[U!FirstFrom(s, U!Slash, k) + 1]
  BY <1>2 DEF Splits, PieceAt
<1>4. \A k \in 0..n : a[k] <= a[n]
  BY EndsInOrder
<1>5. ASSUME NEW k \in 1..n PROVE f[a[k - 1] + 2] = <<w[k]>> \o f[a[k] + 2]
  <2> DEFINE from == a[k - 1] + 2
             to == a[k] + 1
  <2>1. /\ w[k] \in Seq(B) /\ Len(w[k]) \in Nat /\ Len(w[k]) # 0
        /\ \A j \in 1..Len(w[k]) : w[k][j] # U!Slash
        /\ a[k] \in Nat /\ a[k - 1] \in Nat /\ a[k] = a[k - 1] + 1 + Len(w[k])
        /\ \A j \in 1..Len(w[k]) : s[a[k - 1] + 1 + j] = w[k][j]
    BY RestsAt
  <2>2. a[k] <= a[n] /\ a[n] \in Nat
    BY <1>1, <1>4
  <2>3. from \in Nat /\ to \in Nat /\ from # 0 /\ to = from + Len(w[k]) /\ to <= size + 1
        /\ from \in 1..(size + 2) /\ ~(from > size)
    <3>1. size \in Nat /\ a[n] <= size
      BY <1>1
    <3>2. Len(w[k]) >= 1 /\ a[k] <= size
      BY <2>1, <2>2, <3>1
    <3> HIDE DEF n, size
    <3>3. from \in Nat /\ to \in Nat /\ from # 0 /\ to = from + Len(w[k])
      <4> DEFINE x == a[k - 1]
                 y == a[k]
                 l == Len(w[k])
      <4>1. x \in Nat /\ y \in Nat /\ l \in Nat /\ y = x + 1 + l
        BY <2>1, Zenon
      <4> HIDE DEF x, y, l
      <4>2. x + 2 \in Nat /\ y + 1 \in Nat /\ x + 2 # 0 /\ y + 1 = x + 2 + l
        BY <4>1
      <4> QED
        BY <4>2, Zenon DEF x, y, l
    <3>4. to <= size + 1 /\ from <= size
      BY <2>1, <3>1, <3>2, SMTT(30)
    <3> HIDE DEF from, to
    <3> QED
      BY <3>1, <3>3, <3>4
  <2>4. \A j \in 1..Len(w[k]) : s[from - 1 + j] = w[k][j]
    <3>1. from - 1 = a[k - 1] + 1
      BY <2>1
    <3> HIDE DEF from
    <3> QED
      BY <2>1, <3>1
  <2>5. to <= size => s[to] = U!Slash
    <3> SUFFICES ASSUME to <= size PROVE s[to] = U!Slash
      OBVIOUS
    <3>1. CASE k = n
      BY <1>1, <2>1, <3>1
    <3>2. CASE k # n
      <4>1. k + 1 \in 1..n /\ (k + 1) - 1 = k
        BY <1>1, <3>2
      <4>2. s[a[(k + 1) - 1] + 1] = U!Slash
        BY <4>1, RestsAt
      <4> QED
        BY <4>1, <4>2
    <3> QED
      BY <3>1, <3>2
  <2>6. w[k] \in PiecesOf(B)
    OBVIOUS
  <2>7. U!FirstFrom(s, U!Slash, from) = to /\ PieceAt(s, from) = <<w[k]>>
    <3> HIDE DEF from, to
    <3> QED
      BY <2>3, <2>4, <2>5, <2>6, PieceHere
  <2>10. f[from] = PieceAt(s, from) \o f[to + 1]
    <3> HIDE DEF from, to
    <3> QED
      BY <1>3, <2>3, <2>7
  <2>11. to + 1 = a[k] + 2
    BY <2>1
  <2> QED
    BY <2>7, <2>10, <2>11
<1>6. f[a[n] + 2] = <<>>
  <2>1. a[n] \in Nat
    BY <1>1
  <2>2. a[n] + 2 \in 1..(size + 2) /\ a[n] + 2 > size
    BY <1>1, <2>1
  <2> QED
    BY <1>3, <2>2
<1> DEFINE S == {m \in 0..n : f[a[n - m] + 2] = SubSeq(w, n - m + 1, n)}
<1>7. 0 \in S
  <2>1. SubSeq(w, n + 1, n) = <<>> /\ n - 0 = n /\ 0 \in 0..n
    BY <1>1
  <2> HIDE DEF n
  <2> QED
    BY <1>6, <2>1
<1>8. ASSUME NEW m \in 1..n, m - 1 \in S PROVE m \in S
  <2> DEFINE k == n - m + 1
  <2>1. k \in 1..n /\ k - 1 = n - m /\ n - (m - 1) = k /\ n - (m - 1) + 1 = k + 1 /\ m \in 0..n
    BY <1>1
  <2>2. f[a[k] + 2] = SubSeq(w, k + 1, n)
    BY <1>8, <2>1
  <2>3. f[a[k - 1] + 2] = <<w[k]>> \o SubSeq(w, k + 1, n)
    <3> HIDE DEF k
    <3> QED
      BY <1>5, <2>1, <2>2
  <2>4. <<w[k]>> \o SubSeq(w, k + 1, n) = SubSeq(w, k, n)
    <3> HIDE DEF k
    <3> QED
      BY <2>1, FromHere
  <2>5. f[a[n - m] + 2] = SubSeq(w, n - m + 1, n)
    <3> HIDE DEF S
    <3> QED
      BY <2>1, <2>3, <2>4
  <2> QED
    BY <2>1, <2>5
<1>9. f[2] = w
  <2>1. \A k \in 0..n : k \in S
    <3> HIDE DEF S, n
    <3> QED
      BY <1>1, <1>7, <1>8, Induction
  <2>2. n \in 0..n /\ n - n = 0 /\ n - n + 1 = 1 /\ a[n - n] + 2 = 2
    BY <1>1
  <2>3. f[a[n - n] + 2] = SubSeq(w, n - n + 1, n)
    BY <2>1, <2>2
  <2>4. SubSeq(w, 1, n) = w
    OBVIOUS
  <2> HIDE DEF n
  <2> QED
    BY <2>2, <2>3, <2>4
<1>10. size >= 1 /\ s[1] = U!Slash
  <2>1. CASE n = 0
    <3>1. w = <<>>
      BY <2>1
    <3> QED
      BY <1>1, <2>1, <3>1
  <2>2. CASE n # 0
    <3>1. 1 \in 1..n /\ 1 - 1 = 0
      BY <1>1, <2>2
    <3>2. s[a[1 - 1] + 1] = U!Slash /\ a[1] = a[1 - 1] + 1 + Len(w[1]) /\ Len(w[1]) \in Nat
          /\ a[1] \in Nat
      BY <3>1, RestsAt
    <3>3. a[1] <= a[n] /\ a[n] \in Nat
      BY <1>1, <1>4, <3>1
    <3> QED
      BY <1>1, <3>1, <3>2, <3>3
  <2> QED
    BY <2>1, <2>2
<1>11. U!FirstFrom(s, U!Slash, 1) = 1
  <2> DEFINE first == 1
  <2>1. IsFirst(s, U!Slash, first, first)
    BY <1>1, <1>10 DEF IsFirst
  <2>2. first \in 1..(Len(s) + 1)
    BY <1>1
  <2> HIDE DEF first
  <2>3. U!FirstFrom(s, U!Slash, first) = first
    BY <2>1, <2>2, FirstFromIs
  <2> QED
    BY <2>3 DEF first
<1>12. f[1] = <<>> \o f[2]
  <2>1. PieceAt(s, 1) = <<>>
    BY <1>11 DEF PieceAt
  <2>2. 1 \in 1..(size + 2) /\ ~(1 > size) /\ 1 + 1 = 2
    BY <1>1, <1>10
  <2>3. f[1] = PieceAt(s, 1) \o f[U!FirstFrom(s, U!Slash, 1) + 1]
    BY <1>3, <2>2
  <2> QED
    BY <1>11, <2>1, <2>2, <2>3
<1>13. <<>> \o w = w
  BY EmptyConcat
<1> QED
  BY <1>2, <1>9, <1>12, <1>13

\* In a path a slash is followed by no other.
LEMMA OneSlash ==
    ASSUME NEW B, NEW w \in Seq(PiecesOf(B)), NEW tail, NEW s, NEW a, Rests(w, tail, s, a),
           NEW l \in 1..(Len(s) - 1), s[l] = U!Slash
    PROVE  s[l + 1] # U!Slash
<1>1. Len(w) \in Nat
  OBVIOUS
<1>2. a[Len(w)] \in Nat /\ Len(s) \in Nat /\ Len(s) <= a[Len(w)] + 1
  <2>1. Len(w) \in 0..Len(w)
    BY <1>1
  <2> QED
    BY <1>1, <2>1, RestsTo, SMT
<1>3. l \in 1..a[Len(w)]
  BY <1>2
<1>4. PICK k \in 1..Len(w) : a[k - 1] < l /\ l <= a[k]
  BY <1>3, Located
<1> DEFINE x == a[k - 1]
           y == a[k]
           p == w[k]
<1>5. /\ Len(p) \in Nat /\ Len(p) # 0 /\ \A j \in 1..Len(p) : p[j] # U!Slash
      /\ x \in Nat /\ y \in Nat /\ y = x + 1 + Len(p)
      /\ \A j \in 1..Len(p) : s[x + 1 + j] = p[j]
  BY RestsAt
<1>6. x < l /\ l <= y
  BY <1>4
<1> HIDE DEF x, y, p
<1>7. CASE l = x + 1
  <2>1. 1 \in 1..Len(p) /\ l + 1 = x + 1 + 1
    BY <1>5, <1>7
  <2> QED
    BY <1>5, <2>1
<1>8. CASE l # x + 1
  <2>1. l - x - 1 \in 1..Len(p) /\ x + 1 + (l - x - 1) = l
    BY <1>3, <1>5, <1>6, <1>8
  <2> QED
    BY <1>5, <2>1
<1> QED
  BY <1>7, <1>8

\* A path of no segment is the slash alone; one with segments is longer, and
\* ends with the last of them unless it ends with a slash.
LEMMA EndOf ==
    ASSUME NEW B, NEW w \in Seq(PiecesOf(B)), NEW tail \in BOOLEAN, NEW s, NEW a,
           Rests(w, tail, s, a), w = <<>> => tail
    PROVE  /\ Len(s) \in Nat \ {0} /\ s[1] = U!Slash
           /\ Len(s) = 1 <=> w = <<>>
           /\ s[Len(s)] = U!Slash <=> tail
<1>1. /\ Len(w) \in Nat /\ a[0] = 0 /\ a[Len(w)] \in Nat /\ Len(s) \in Nat
      /\ Len(s) = a[Len(w)] + (IF tail THEN 1 ELSE 0)
      /\ tail => s[Len(s)] = U!Slash
  <2>1. Len(w) \in Nat /\ Len(w) \in 0..Len(w)
    OBVIOUS
  <2> QED
    BY <2>1, SMT DEF Rests
<1>2. CASE w = <<>>
  BY <1>1, <1>2
<1>3. CASE w # <<>>
  <2> DEFINE n == Len(w)
             x == a[n - 1]
             y == a[n]
             p == w[n]
  <2>1. n \in 1..n /\ 1 \in 1..n /\ 1 - 1 = 0
    BY <1>1, <1>3
  <2>2. /\ Len(p) \in Nat /\ Len(p) # 0 /\ \A j \in 1..Len(p) : p[j] # U!Slash
        /\ x \in Nat /\ y \in Nat /\ y = x + 1 + Len(p)
        /\ \A j \in 1..Len(p) : s[x + 1 + j] = p[j]
    BY <2>1, RestsAt
  <2>3. s[a[1 - 1] + 1] = U!Slash
    <3> HIDE DEF n, x, y, p
    <3> DEFINE first == 1
    <3>1. first \in 1..Len(w)
      BY <2>1 DEF n
    <3> HIDE DEF first
    <3>2. s[a[first - 1] + 1] = U!Slash
      BY <3>1, RestsAt
    <3> QED
      BY <3>2 DEF first
  <2>4. s[1] = U!Slash
    BY <1>1, <2>1, <2>3
  <2>5. Len(s) = y + (IF tail THEN 1 ELSE 0)
    BY <1>1
  <2> HIDE DEF n, x, y, p
  <2>6. Len(p) \in 1..Len(p) /\ x + 1 + Len(p) = y /\ y >= 2
    BY <2>2
  <2>7. s[y] # U!Slash
    BY <2>2, <2>6
  <2>8. CASE tail
    BY <1>1, <1>3, <2>2, <2>4, <2>5, <2>6, <2>8
  <2>9. CASE ~tail
    BY <1>1, <1>3, <2>2, <2>4, <2>5, <2>6, <2>7, <2>9
  <2> QED
    BY <2>8, <2>9
<1> QED
  BY <1>2, <1>3

\* What is in front of the query is all of a path without "?".
LEMMA NoQuery ==
    ASSUME NEW B, NEW s \in Seq(B), \A k \in 1..Len(s) : s[k] # "?"
    PROVE  U!BeforeQuery(s) = s
<1> DEFINE first == 1
           q == "?"
           e == Len(s) + 1
<1>1. first \in 1..(Len(s) + 1) /\ e \in first..(Len(s) + 1) /\ ~(e <= Len(s)) /\ e - 1 = Len(s)
  OBVIOUS
<1>2. \A k \in first..(e - 1) : s[k] # q
  BY <1>1
<1> HIDE DEF q, first, e
<1>3. IsFirst(s, q, first, e)
  BY <1>1, <1>2 DEF IsFirst
<1>4. U!FirstFrom(s, q, first) = e
  BY <1>1, <1>3, FirstFromIs
<1>5. SubSeq(s, 1, Len(s)) = s
  OBVIOUS
<1> QED
  BY <1>1, <1>4, <1>5 DEF U!BeforeQuery, q, first

\* The path of names is clean and is what decoding and cleaning make of it.
LEMMA CleanWhenRebuilt ==
    ASSUME NEW B, \A x, y \in B : Hex[<<x, y>>] \in B, U!Space \in B, U!Slash \in B,
           NEW w \in Seq(PiecesOf(B)), \A j \in DOMAIN w : U!IsName(w[j]), slash \in BOOLEAN,
           path = U!Rebuilt(w, slash)
    PROVE  U!CleanPath /\ U!CleanPathStays
<1> DEFINE tail == slash \/ w = <<>>
<1>1. tail \in BOOLEAN /\ (w = <<>> => tail)
  OBVIOUS
<1>2. path \in Seq(B) /\ \E a : Rests(w, tail, path, a)
  BY RebuiltIs
<1> HIDE DEF tail
<1>3. PICK a : Rests(w, tail, path, a)
  BY <1>2
<1>4. /\ Len(path) \in Nat \ {0} /\ path[1] = U!Slash
      /\ Len(path) = 1 <=> w = <<>>
      /\ path[Len(path)] = U!Slash <=> tail
  BY <1>1, <1>3, EndOf
<1>5. \A l \in 1..(Len(path) - 1) : path[l] = U!Slash => path[l + 1] # U!Slash
  BY <1>3, OneSlash
<1>6. U!Split(path) = w
  BY <1>1, <1>2, <1>3, SplitRests
<1> DEFINE end == path[Len(path)]
<1>7. Head(path) = U!Slash /\ U!Last(path) = end /\ \A l \in 1..Len(path) : path[l] \in U!Range(path)
  BY <1>2, <1>4 DEF U!Last, U!Range
<1>8. U!Last(path) = U!Slash <=> slash \/ Len(path) = 1
  BY <1>4, <1>7 DEF tail
<1>9. U!CleanPath
  BY <1>5, <1>6, <1>7, <1>8, Zenon DEF U!CleanPath
<1>10. ASSUME "%" \notin U!Range(path), "+" \notin U!Range(path), "?" \notin U!Range(path)
       PROVE  U!UrlDecode(U!BeforeQuery(path)) = path
  <2>1. \A l \in 1..Len(path) : path[l] # "?"
    BY <1>7, <1>10
  <2>2. \A l \in DOMAIN path : path[l] # "%" /\ path[l] # "+"
    BY <1>2, <1>7, <1>10
  <2>3. U!BeforeQuery(path) = path
    BY <1>2, <2>1, NoQuery
  <2>4. U!UrlDecode(path) = path
    BY <1>2, <2>2, DecodedIsSame
  <2> QED
    BY <2>3, <2>4
<1> DEFINE again == U!Last(path) = U!Slash /\ Len(path) > 1
<1>11. U!Rebuilt(w, again) = path
  <2>1. again \/ w = <<>> <=> slash \/ w = <<>>
    <3>1. CASE w = <<>>
      BY <3>1
    <3>2. CASE w # <<>>
      <4>1. Len(path) > 1 /\ Len(path) # 1
        <5> DEFINE size == Len(path)
        <5>1. size \in Nat \ {0} /\ size # 1
          BY <1>4, <3>2
        <5> HIDE DEF size
        <5>2. size > 1 /\ size # 1
          BY <5>1
        <5> QED
          BY <5>2 DEF size
      <4> QED
        BY <1>8, <3>2, <4>1
    <3> QED
      BY <3>1, <3>2
  <2> HIDE DEF again
  <2>2. U!Rebuilt(w, again) = U!Rebuilt(w, slash)
    <3>1. (IF again \/ w = <<>> THEN <<U!Slash>> ELSE <<>>) = (IF slash \/ w = <<>> THEN <<U!Slash>> ELSE <<>>)
      BY <2>1, Zenon
    <3> QED
      BY <3>1, Zenon DEF U!Rebuilt
  <2> QED
    BY <2>2
<1>12. U!CleanPathStays
  BY <1>6, <1>10, <1>11, Zenon DEF U!CleanPathStays
<1> QED
  BY <1>9, <1>12

-----------------------------------------------------------------------------
(* The walk over the segments.                                             *)

LEMMA SameCount == ASSUME NEW S PROVE U!Cardinality(S) = Cardinality(S)
  BY Zenon DEF U!Cardinality, Cardinality

\* A set of numbers up to k has one more than those before k if k is in it.
LEMMA CountStep ==
    ASSUME NEW k \in Nat \ {0}, NEW S, NEW N, N \subseteq 1..k,
           \A l : l \in S <=> l \in N /\ l # k
    PROVE  /\ U!Cardinality(S) \in Nat
           /\ U!Cardinality(N) = IF k \in N THEN U!Cardinality(S) + 1 ELSE U!Cardinality(S)
<1>1. IsFiniteSet(1..k)
  BY FS_Interval
<1>2. IsFiniteSet(N)
  BY <1>1, FS_Subset
<1>3. S = N \ {k}
  BY Zenon
<1>4. IsFiniteSet(S) /\ Cardinality(S) \in Nat /\ Cardinality(N) \in Nat
      /\ Cardinality(S) = IF k \in N THEN Cardinality(N) - 1 ELSE Cardinality(N)
  BY <1>2, <1>3, FS_RemoveElement, FS_CardinalityType
<1> QED
  BY <1>4, SameCount

LEMMA StayIsNotUp == U!Stay # U!Up
  BY DEF U!Stay, U!Up

\* How a segment changes the depth.
LEMMA DepthStep ==
    ASSUME NEW A, NEW w \in Seq(A), NEW k \in 1..Len(w)
    PROVE  /\ U!Depth(w, k - 1) \in Int /\ U!Depth(w, k) \in Int
           /\ U!IsName(w[k]) => U!Depth(w, k) = U!Depth(w, k - 1) + 1
           /\ w[k] = U!Stay => U!Depth(w, k) = U!Depth(w, k - 1)
           /\ w[k] = U!Up => U!Depth(w, k) = U!Depth(w, k - 1) - 1
<1> DEFINE Names(l) == {n \in 1..l : U!IsName(w[n])}
           Ups(l) == {n \in 1..l : w[n] = U!Up}
           x == U!Cardinality(Names(k - 1))
           y == U!Cardinality(Ups(k - 1))
<1>1. k \in Nat \ {0} /\ \A n : n \in 1..(k - 1) <=> n \in 1..k /\ n # k
  OBVIOUS
<1>2. \A n : n \in Names(k - 1) <=> n \in Names(k) /\ n # k
  BY <1>1
<1>3. \A n : n \in Ups(k - 1) <=> n \in Ups(k) /\ n # k
  BY <1>1
<1>4. Names(k) \subseteq 1..k /\ Ups(k) \subseteq 1..k
  OBVIOUS
<1>5. /\ k \in Names(k) <=> U!IsName(w[k])
      /\ k \in Ups(k) <=> w[k] = U!Up
  BY <1>1
<1>6. U!Depth(w, k) = U!Cardinality(Names(k)) - U!Cardinality(Ups(k))
  BY DEF U!Depth
<1>7. U!Depth(w, k - 1) = x - y
  BY DEF U!Depth
<1> HIDE DEF Names, Ups
<1>8. x \in Nat /\ U!Cardinality(Names(k)) = IF U!IsName(w[k]) THEN x + 1 ELSE x
  BY <1>1, <1>2, <1>4, <1>5, CountStep
<1>9. y \in Nat /\ U!Cardinality(Ups(k)) = IF w[k] = U!Up THEN y + 1 ELSE y
  BY <1>1, <1>3, <1>4, <1>5, CountStep
<1> HIDE DEF x, y
<1>10. (U!IsName(w[k]) => w[k] # U!Up) /\ (w[k] = U!Stay => ~U!IsName(w[k]) /\ w[k] # U!Up)
       /\ (w[k] = U!Up => ~U!IsName(w[k]))
  BY StayIsNotUp, Zenon DEF U!IsName
<1> QED
  BY <1>6, <1>7, <1>8, <1>9, <1>10

\* The depth after k segments has nothing to do with those that follow.
LEMMA DepthOfPart ==
    ASSUME NEW A, NEW w \in Seq(A), NEW m \in 0..Len(w), NEW k \in 0..m
    PROVE  U!Depth(SubSeq(w, 1, m), k) = U!Depth(w, k)
<1> DEFINE v == SubSeq(w, 1, m)
<1>1. \A n \in 1..k : v[n] = w[n]
  OBVIOUS
<1> HIDE DEF v
<1>2. {n \in 1..k : U!IsName(v[n])} = {n \in 1..k : U!IsName(w[n])}
      /\ {n \in 1..k : v[n] = U!Up} = {n \in 1..k : w[n] = U!Up}
  BY <1>1
<1>3. U!Depth(v, k) = U!Depth(w, k)
  BY <1>2, Zenon DEF U!Depth
<1> QED
  BY <1>3 DEF v

\* The places of the names that stay of the first m segments.
StayingTo(w, m) ==
    {j \in 1..m : U!IsName(w[j]) /\ \A k \in j..m : U!Depth(w, k) >= U!Depth(w, j)}

LEMMA StayingIs ==
    ASSUME NEW A, NEW w \in Seq(A), NEW m \in 0..Len(w)
    PROVE  U!Staying(SubSeq(w, 1, m)) = StayingTo(w, m)
<1> DEFINE v == SubSeq(w, 1, m)
<1>1. Len(v) = m /\ DOMAIN v = 1..m /\ \A n \in 1..m : v[n] = w[n]
  OBVIOUS
<1>2. \A k \in 0..m : U!Depth(v, k) = U!Depth(w, k)
  BY DepthOfPart
<1> HIDE DEF v
<1>3. ASSUME NEW j \in 1..m
      PROVE  /\ U!IsName(v[j]) <=> U!IsName(w[j])
             /\ (\A k \in j..Len(v) : U!Depth(v, k) >= U!Depth(v, j))
                  <=> (\A k \in j..m : U!Depth(w, k) >= U!Depth(w, j))
  <2>1. j \in 0..m /\ \A k \in j..m : k \in 0..m
    OBVIOUS
  <2> QED
    BY <1>1, <1>2, <2>1
<1>4. U!Staying(v) = {j \in 1..m : U!IsName(v[j])
                         /\ \A k \in j..Len(v) : U!Depth(v, k) >= U!Depth(v, j)}
  BY <1>1 DEF U!Staying
<1>5. U!Staying(v) = StayingTo(w, m)
  BY <1>3, <1>4 DEF StayingTo
<1> QED
  BY <1>5 DEF v

\* A further segment takes out the names that are deeper than it leads, and is
\* one that stays, so far, if it is a name.
LEMMA StayingStep ==
    ASSUME NEW A, NEW w \in Seq(A), NEW m \in Nat, m + 1 <= Len(w)
    PROVE  /\ \A j \in 1..m : j \in StayingTo(w, m + 1)
                 <=> j \in StayingTo(w, m) /\ U!Depth(w, m + 1) >= U!Depth(w, j)
           /\ m + 1 \in StayingTo(w, m + 1) <=> U!IsName(w[m + 1])
           /\ StayingTo(w, m + 1) \subseteq 1..(m + 1) /\ StayingTo(w, m) \subseteq 1..m
<1> DEFINE n == m + 1
<1>1. n \in 1..n /\ n \in 1..Len(w) /\ n \in Nat
  OBVIOUS
<1>2. U!Depth(w, n) \in Int
  BY <1>1, DepthStep
<1>3. ASSUME NEW j \in 1..m
      PROVE  j \in StayingTo(w, n) <=> j \in StayingTo(w, m) /\ U!Depth(w, n) >= U!Depth(w, j)
  <2>1. j \in 1..n /\ \A k : k \in j..n <=> k \in j..m \/ k = n
    OBVIOUS
  <2> HIDE DEF n
  <2> QED
    BY <2>1, Zenon DEF StayingTo
<1>4. n \in StayingTo(w, n) <=> U!IsName(w[n])
  <2>1. \A k \in n..n : k = n
    BY <1>1
  <2>2. U!Depth(w, n) >= U!Depth(w, n)
    BY <1>2
  <2> HIDE DEF n
  <2> QED
    BY <1>1, <2>1, <2>2, Zenon DEF StayingTo
<1> QED
  BY <1>3, <1>4 DEF StayingTo

\* The stack s has the names at the places q, and those are the ones that stay
\* of the first m segments; each is one deeper than the one before it.
Holds(w, m, s, q) ==
    /\ q \in Seq(Nat) /\ Len(s) = Len(q)
    /\ \A k \in 1..Len(q) : q[k] \in 1..m /\ s[k] = w[q[k]] /\ U!IsName(s[k])
    /\ \A k \in 1..Len(q) : U!Depth(w, q[k]) = U!Depth(w, m) - Len(q) + k
    /\ \A j, k \in 1..Len(q) : j < k => q[j] < q[k]
    /\ \A j : j \in StayingTo(w, m) <=> \E k \in 1..Len(q) : q[k] = j

LEMMA HoldsAtFirst ==
    ASSUME NEW A, NEW w \in Seq(A)
    PROVE  Holds(w, 0, <<>>, <<>>)
<1>1. StayingTo(w, 0) = {}
  BY DEF StayingTo
<1>2. <<>> \in Seq(Nat) /\ Len(<<>>) = 0
  OBVIOUS
<1> QED
  BY <1>1, <1>2 DEF Holds

\* A name goes on top.
LEMMA HoldsDown ==
    ASSUME NEW A, NEW w \in Seq(A), NEW m \in Nat, m + 1 <= Len(w), NEW s \in Seq(A), NEW q,
           Holds(w, m, s, q), U!IsName(w[m + 1])
    PROVE  Holds(w, m + 1, Append(s, w[m + 1]), Append(q, m + 1))
<1> DEFINE n == m + 1
           t == Append(s, w[n])
           r == Append(q, n)
<1>1. /\ n \in Nat /\ n = m + 1 /\ n \in 1..Len(w) /\ w[n] \in A /\ n - 1 = m
      /\ q \in Seq(Nat) /\ Len(q) \in Nat /\ Len(s) = Len(q)
  BY DEF Holds
<1>2. /\ r \in Seq(Nat) /\ Len(r) = Len(q) + 1 /\ Len(t) = Len(r)
      /\ \A k \in 1..Len(q) : r[k] = q[k] /\ t[k] = s[k]
      /\ r[Len(q) + 1] = n /\ t[Len(q) + 1] = w[n]
  BY <1>1
<1>3. U!Depth(w, m) \in Int /\ U!Depth(w, n) = U!Depth(w, m) + 1
  BY <1>1, DepthStep
<1>4. /\ \A j \in 1..m : j \in StayingTo(w, n)
             <=> j \in StayingTo(w, m) /\ U!Depth(w, n) >= U!Depth(w, j)
      /\ n \in StayingTo(w, n) /\ StayingTo(w, n) \subseteq 1..n /\ StayingTo(w, m) \subseteq 1..m
  BY StayingStep
<1> DEFINE l == Len(q)
<1>5. /\ \A k \in 1..l : q[k] \in 1..m /\ s[k] = w[q[k]] /\ U!IsName(s[k])
      /\ \A k \in 1..l : U!Depth(w, q[k]) = U!Depth(w, m) - l + k
      /\ \A j, k \in 1..l : j < k => q[j] < q[k]
      /\ \A j : j \in StayingTo(w, m) <=> \E k \in 1..l : q[k] = j
  BY DEF Holds
<1>6. U!IsName(w[n])
  OBVIOUS
<1> HIDE DEF n, t, r, l
<1>7. l \in Nat /\ Len(r) = l + 1 /\ r[l + 1] = n /\ t[l + 1] = w[n]
      /\ \A k \in 1..l : r[k] = q[k] /\ t[k] = s[k]
  BY <1>1, <1>2 DEF l
<1>8. ASSUME NEW k \in 1..(l + 1)
      PROVE  /\ r[k] \in 1..n /\ t[k] = w[r[k]] /\ U!IsName(t[k])
             /\ U!Depth(w, r[k]) = U!Depth(w, n) - (l + 1) + k
             /\ r[k] \in StayingTo(w, n)
             /\ \A j \in 1..(l + 1) : j < k => r[j] < r[k]
  <2>1. CASE k = l + 1
    <3>1. \A j \in 1..(l + 1) : j < k => j \in 1..l
      BY <1>7, <2>1
    <3>2. \A j \in 1..l : r[j] \in 1..m
      BY <1>5, <1>7
    <3>3. r[k] = n /\ t[k] = w[n] /\ n \in 1..n
      BY <1>1, <1>7, <2>1
    <3>4. \A j \in 1..(l + 1) : j < k => r[j] < r[k]
      BY <1>1, <3>1, <3>2, <3>3
    <3>5. U!Depth(w, n) \in Int /\ U!Depth(w, n) = U!Depth(w, n) - (l + 1) + k
      BY <1>3, <1>7, <2>1
    <3> QED
      BY <1>4, <1>6, <3>3, <3>4, <3>5
  <2>2. CASE k # l + 1
    <3>1. k \in 1..l
      BY <1>7, <2>2
    <3>2. r[k] = q[k] /\ t[k] = s[k]
      BY <1>7, <3>1
    <3>3. q[k] \in 1..m /\ s[k] = w[q[k]] /\ U!IsName(s[k]) /\ q[k] \in StayingTo(w, m)
          /\ U!Depth(w, q[k]) = U!Depth(w, m) - l + k
      BY <1>5, <3>1
    <3>4. q[k] \in 1..n
      BY <1>1, <3>3
    <3>5. U!Depth(w, q[k]) = U!Depth(w, n) - (l + 1) + k /\ U!Depth(w, n) >= U!Depth(w, q[k])
      BY <1>3, <1>7, <3>1, <3>3
    <3>6. q[k] \in StayingTo(w, n)
      BY <1>4, <3>3, <3>5
    <3>7. ASSUME NEW j \in 1..(l + 1), j < k PROVE r[j] < r[k]
      <4>1. j \in 1..l
        BY <1>7, <3>1, <3>7
      <4> QED
        BY <1>5, <1>7, <3>1, <3>7, <4>1
    <3> QED
      BY <3>2, <3>3, <3>4, <3>5, <3>6, <3>7
  <2> QED
    BY <2>1, <2>2
<1>9. ASSUME NEW j \in StayingTo(w, n) PROVE \E k \in 1..(l + 1) : r[k] = j
  <2>1. CASE j = n
    BY <1>7, <2>1
  <2>2. CASE j # n
    <3>1. j \in 1..m
      BY <1>1, <1>4, <2>2
    <3>2. PICK k \in 1..l : q[k] = j
      BY <1>4, <1>5, <3>1
    <3>3. k \in 1..(l + 1) /\ r[k] = j
      BY <1>7, <3>2
    <3> QED
      BY <3>3
  <2> QED
    BY <2>1, <2>2
<1>10. Len(r) = l + 1 /\ Len(t) = Len(r) /\ r \in Seq(Nat)
  BY <1>2, <1>7
<1>11. Holds(w, n, t, r)
  BY <1>8, <1>9, <1>10, Zenon DEF Holds
<1> QED
  BY <1>11 DEF n, t, r

\* "." changes nothing.
LEMMA HoldsStay ==
    ASSUME NEW A, NEW w \in Seq(A), NEW m \in Nat, m + 1 <= Len(w), NEW s, NEW q,
           Holds(w, m, s, q), w[m + 1] = U!Stay
    PROVE  Holds(w, m + 1, s, q)
<1> DEFINE n == m + 1
           l == Len(q)
<1>1. n \in Nat /\ n = m + 1 /\ n \in 1..Len(w) /\ n - 1 = m /\ l \in Nat
  BY DEF Holds
<1>2. ~U!IsName(w[n])
  BY DEF U!IsName
<1>3. U!Depth(w, m) \in Int /\ U!Depth(w, n) = U!Depth(w, m)
  BY <1>1, DepthStep
<1>4. /\ \A j \in 1..m : j \in StayingTo(w, n)
             <=> j \in StayingTo(w, m) /\ U!Depth(w, n) >= U!Depth(w, j)
      /\ n \notin StayingTo(w, n) /\ StayingTo(w, n) \subseteq 1..n /\ StayingTo(w, m) \subseteq 1..m
  BY <1>2, StayingStep
<1>5. /\ \A k \in 1..l : q[k] \in 1..m /\ s[k] = w[q[k]] /\ U!IsName(s[k])
      /\ \A k \in 1..l : U!Depth(w, q[k]) = U!Depth(w, m) - l + k
      /\ \A j, k \in 1..l : j < k => q[j] < q[k]
      /\ \A j : j \in StayingTo(w, m) <=> \E k \in 1..l : q[k] = j
      /\ q \in Seq(Nat) /\ Len(s) = l
  BY DEF Holds
<1> HIDE DEF n, l
<1>6. ASSUME NEW k \in 1..l
      PROVE  q[k] \in 1..n /\ U!Depth(w, q[k]) = U!Depth(w, n) - l + k /\ q[k] \in StayingTo(w, n)
  <2>1. q[k] \in 1..m /\ q[k] \in StayingTo(w, m) /\ U!Depth(w, q[k]) = U!Depth(w, m) - l + k
    BY <1>5
  <2>2. U!Depth(w, n) >= U!Depth(w, q[k])
    BY <1>1, <1>3, <2>1
  <2> QED
    BY <1>1, <1>3, <1>4, <2>1, <2>2
<1>7. ASSUME NEW j \in StayingTo(w, n) PROVE \E k \in 1..l : q[k] = j
  <2>1. j \in 1..m
    BY <1>1, <1>4
  <2> QED
    BY <1>4, <1>5, <2>1
<1>8. Holds(w, n, s, q)
  BY <1>5, <1>6, <1>7, Zenon DEF Holds, l
<1> QED
  BY <1>8 DEF n

\* ".." takes the top away.
LEMMA HoldsUp ==
    ASSUME NEW A, NEW w \in Seq(A), NEW m \in Nat, m + 1 <= Len(w), NEW s \in Seq(A), NEW q,
           Holds(w, m, s, q), w[m + 1] = U!Up
    PROVE  \E r : Holds(w, m + 1, IF s = <<>> THEN <<>> ELSE U!Front(s), r)
<1> DEFINE n == m + 1
           l == Len(q)
<1>1. n \in Nat /\ n = m + 1 /\ n \in 1..Len(w) /\ n - 1 = m /\ l \in Nat
  BY DEF Holds
<1>2. ~U!IsName(w[n])
  BY DEF U!IsName
<1>3. U!Depth(w, m) \in Int /\ U!Depth(w, n) = U!Depth(w, m) - 1
  BY <1>1, DepthStep
<1>4. /\ \A j \in 1..m : j \in StayingTo(w, n)
             <=> j \in StayingTo(w, m) /\ U!Depth(w, n) >= U!Depth(w, j)
      /\ n \notin StayingTo(w, n) /\ StayingTo(w, n) \subseteq 1..n /\ StayingTo(w, m) \subseteq 1..m
  BY <1>2, StayingStep
<1>5. /\ \A k \in 1..l : q[k] \in 1..m /\ s[k] = w[q[k]] /\ U!IsName(s[k])
      /\ \A k \in 1..l : U!Depth(w, q[k]) = U!Depth(w, m) - l + k
      /\ \A j, k \in 1..l : j < k => q[j] < q[k]
      /\ \A j : j \in StayingTo(w, m) <=> \E k \in 1..l : q[k] = j
      /\ q \in Seq(Nat) /\ Len(s) = l
  BY DEF Holds
<1> HIDE DEF n
<1>6. CASE s = <<>>
  <2>1. q = <<>> /\ l = 0
    BY <1>5, <1>6
  <2>2. StayingTo(w, n) = {}
    <3> SUFFICES ASSUME NEW j \in StayingTo(w, n) PROVE FALSE
      OBVIOUS
    <3>1. j \in 1..m
      BY <1>1, <1>4
    <3> QED
      BY <1>4, <1>5, <2>1, <3>1
  <2>3. Holds(w, n, <<>>, <<>>)
    BY <2>2 DEF Holds
  <2> QED
    BY <1>6, <2>3 DEF n
<1>7. CASE s # <<>>
  <2> DEFINE t == U!Front(s)
             r == SubSeq(q, 1, l - 1)
             h == l - 1
  <2>1. l # 0
    BY <1>5, <1>7
  <2>2. /\ h \in Nat /\ h + 1 = l /\ r \in Seq(Nat) /\ Len(r) = h /\ Len(t) = h
        /\ \A k \in 1..h : r[k] = q[k] /\ t[k] = s[k]
    BY <1>1, <1>5, <2>1 DEF U!Front
  <2> HIDE DEF r, t, l, h
  <2>3. ASSUME NEW k \in 1..h
        PROVE  /\ r[k] \in 1..n /\ t[k] = w[r[k]] /\ U!IsName(t[k])
               /\ U!Depth(w, r[k]) = U!Depth(w, n) - h + k
               /\ r[k] \in StayingTo(w, n)
               /\ \A j \in 1..h : j < k => r[j] < r[k]
    <3>1. k \in 1..l /\ \A j \in 1..h : j \in 1..l
      BY <2>2
    <3>2. /\ q[k] \in 1..m /\ s[k] = w[q[k]] /\ U!IsName(s[k]) /\ q[k] \in StayingTo(w, m)
          /\ U!Depth(w, q[k]) = U!Depth(w, m) - l + k
      BY <1>5, <3>1
    <3>3. U!Depth(w, q[k]) = U!Depth(w, n) - h + k /\ U!Depth(w, n) >= U!Depth(w, q[k])
      <4> DEFINE x == U!Depth(w, q[k])
                 y == U!Depth(w, m)
                 z == U!Depth(w, n)
      <4>1. y \in Int /\ z = y - 1 /\ x = y - l + k
        BY <1>3, <3>2, Zenon
      <4> HIDE DEF x, y, z
      <4>2. h \in Nat /\ l = h + 1 /\ k \in Nat /\ k <= h
        BY <2>2
      <4>3. x = z - h + k /\ z >= x
        BY <4>1, <4>2
      <4> QED
        BY <4>3, Zenon DEF x, y, z
    <3>4. q[k] \in 1..n /\ q[k] \in StayingTo(w, n)
      BY <1>1, <1>4, <3>2, <3>3
    <3>5. \A j \in 1..h : j < k => r[j] < r[k]
      BY <1>5, <2>2, <3>1
    <3> QED
      BY <2>2, <3>2, <3>3, <3>4, <3>5
  <2>4. ASSUME NEW j \in StayingTo(w, n) PROVE \E k \in 1..h : r[k] = j
    <3>1. j \in 1..m
      BY <1>1, <1>4
    <3>2. j \in StayingTo(w, m) /\ U!Depth(w, n) >= U!Depth(w, j)
      BY <1>4, <3>1
    <3>3. PICK k \in 1..l : q[k] = j
      BY <1>5, <3>2
    <3>4. U!Depth(w, j) = U!Depth(w, m) - l + k
      BY <1>5, <3>3
    <3>5. k # l
      BY <1>1, <1>3, <2>2, <3>2, <3>4
    <3>6. k \in 1..h
      BY <2>2, <3>5
    <3> QED
      BY <2>2, <3>3, <3>6
  <2>5. Holds(w, n, t, r)
    BY <2>2, <2>3, <2>4, Zenon DEF Holds
  <2> QED
    BY <1>7, <2>5 DEF n, t
<1> QED
  BY <1>6, <1>7

\* So the stack is as long as there are names that stay, and each of them is in
\* it at its place.
LEMMA HoldsPlaces ==
    ASSUME NEW A, NEW w \in Seq(A), NEW m \in Nat, m <= Len(w), NEW s, NEW q, Holds(w, m, s, q)
    PROVE  /\ Len(s) = U!Cardinality(StayingTo(w, m))
           /\ \A j \in StayingTo(w, m) :
                 s[U!Cardinality({k \in StayingTo(w, m) : k <= j})] = w[j]
<1> DEFINE l == Len(q)
           UpTo(h) == {q[k] : k \in 1..h}
           S == {h \in 0..l : IsFiniteSet(UpTo(h)) /\ Cardinality(UpTo(h)) = h}
<1>1. /\ l \in Nat /\ Len(s) = l
      /\ \A k \in 1..l : q[k] \in 1..m /\ s[k] = w[q[k]]
      /\ \A j, k \in 1..l : j < k => q[j] < q[k]
      /\ \A j : j \in StayingTo(w, m) <=> \E k \in 1..l : q[k] = j
  <2>1. q \in Seq(Nat)
    BY Zenon DEF Holds
  <2>2. l \in Nat
    BY <2>1
  <2> QED
    BY <2>2, Zenon DEF Holds
<1> HIDE DEF l
<1>2. \A j, k \in 1..l : q[j] \in Nat /\ (q[j] <= q[k] <=> j <= k) /\ (q[j] = q[k] => j = k)
  BY <1>1
<1>3. \A h \in 0..l : h \in S
  <2>1. 0 \in S
    <3>1. UpTo(0) = {} /\ 0 \in 0..l
      BY <1>1
    <3> HIDE DEF UpTo
    <3> QED
      BY <1>1, <3>1, FS_EmptySet
  <2>2. ASSUME NEW h \in 1..l, h - 1 \in S PROVE h \in S
    <3>1. UpTo(h) = UpTo(h - 1) \cup {q[h]}
      <4>1. \A k : k \in 1..h <=> k \in 1..(h - 1) \/ k = h
        OBVIOUS
      <4> QED
        BY <4>1
    <3>2. q[h] \notin UpTo(h - 1)
      BY <1>1, <1>2
    <3>3. IsFiniteSet(UpTo(h - 1)) /\ Cardinality(UpTo(h - 1)) = h - 1 /\ h \in 0..l
      BY <1>1, <2>2
    <3> HIDE DEF UpTo, S
    <3>4. IsFiniteSet(UpTo(h)) /\ Cardinality(UpTo(h)) = (h - 1) + 1
      <4> DEFINE u == UpTo(h - 1)
                 x == q[h]
      <4>1. IsFiniteSet(u) /\ x \notin u
        BY <3>2, <3>3, Zenon
      <4> HIDE DEF u, x
      <4>2. IsFiniteSet(u \cup {x}) /\ Cardinality(u \cup {x}) = Cardinality(u) + 1
        BY <4>1, FS_AddElement
      <4>3. UpTo(h) = u \cup {x} /\ Cardinality(u) = h - 1
        BY <3>1, <3>3, Zenon DEF u, x
      <4> QED
        BY <4>2, <4>3, Zenon
    <3>5. (h - 1) + 1 = h
      OBVIOUS
    <3> QED
      BY <3>3, <3>4, <3>5, Zenon DEF S
  <2> HIDE DEF S
  <2> QED
    BY <1>1, <2>1, <2>2, Induction
<1>4. \A h \in 0..l : U!Cardinality(UpTo(h)) = h
  BY <1>3, SameCount
<1>5. Len(s) = U!Cardinality(StayingTo(w, m))
  <2>1. StayingTo(w, m) = UpTo(l)
    BY <1>1
  <2>2. l \in 0..l
    BY <1>1
  <2> HIDE DEF UpTo
  <2> QED
    BY <1>1, <1>4, <2>1, <2>2
<1>6. ASSUME NEW j \in StayingTo(w, m)
      PROVE  s[U!Cardinality({k \in StayingTo(w, m) : k <= j})] = w[j]
  <2>1. PICK h \in 1..l : q[h] = j
    BY <1>1
  <2>2. {k \in StayingTo(w, m) : k <= j} = UpTo(h)
    <3>1. ASSUME NEW k, k \in StayingTo(w, m), k <= j PROVE k \in UpTo(h)
      <4>1. PICK g \in 1..l : q[g] = k
        BY <1>1, <3>1
      <4>2. g \in 1..h
        BY <1>2, <2>1, <3>1, <4>1
      <4> QED
        BY <4>1, <4>2
    <3>2. ASSUME NEW g \in 1..h PROVE q[g] \in StayingTo(w, m) /\ q[g] <= j
      <4>1. g \in 1..l /\ g <= h
        BY <1>1, <2>1
      <4> QED
        BY <1>1, <1>2, <2>1, <4>1
    <3> QED
      BY <3>1, <3>2
  <2>3. h \in 0..l
    OBVIOUS
  <2>4. U!Cardinality({k \in StayingTo(w, m) : k <= j}) = h
    <3> HIDE DEF UpTo
    <3> QED
      BY <1>4, <2>2, <2>3
  <2> QED
    BY <1>1, <2>1, <2>4
<1> QED
  BY <1>5, <1>6

-----------------------------------------------------------------------------
(* The path of every request is clean.                                     *)

\* The segments of the target that are left of A, the names on the stack and,
\* once it is put together, the path.
Walking(A) ==
    part = "Uri" =>
        /\ U!Segments \in Seq(A) /\ stack \in Seq(A) /\ slash \in BOOLEAN
        /\ \E m \in 0..Len(U!Segments) :
              /\ parts = SubSeq(U!Segments, m + 1, Len(U!Segments))
              /\ \E q : Holds(U!Segments, m, stack, q)
        /\ path # U!NoPath => parts = <<>> /\ path = U!Rebuilt(stack, slash)

LEMMA SegmentsAre ==
    ASSUME NEW B, U!TargetsOf(B), uri \in Uris
    PROVE  U!Segments \in Seq(PiecesOf(B))
<1>1. uri \in Seq(B) /\ U!Space \in B /\ \A x, y \in B : Hex[<<x, y>>] \in B
  BY DEF U!TargetsOf
<1>2. U!BeforeQuery(uri) \in Seq(B)
  <2> DEFINE first == 1
             q == "?"
  <2>1. first \in 1..(Len(uri) + 1)
    BY <1>1
  <2> HIDE DEF q, first
  <2>2. U!FirstFrom(uri, q, first) \in first..(Len(uri) + 1)
    BY <1>1, <2>1, FirstFromIs DEF IsFirst
  <2> DEFINE e == U!FirstFrom(uri, q, first)
  <2>3. e \in 1..(Len(uri) + 1)
    BY <2>2 DEF first
  <2> HIDE DEF e
  <2>4. SubSeq(uri, 1, e - 1) \in Seq(B)
    BY <1>1, <2>3
  <2> QED
    BY <2>4 DEF U!BeforeQuery, e, q, first
<1>3. U!UrlDecode(U!BeforeQuery(uri)) \in Seq(B)
  BY <1>1, <1>2, DecodedIs
<1> QED
  BY <1>3, SplitIs DEF U!Segments

LEMMA WalkingAtFirst ==
    ASSUME NEW B, U!TargetsOf(B), PartsInit
    PROVE  Walking(PiecesOf(B))
<1> SUFFICES ASSUME part = "Uri", U!Init PROVE Walking(PiecesOf(B))
  BY DEF PartsInit, Walking
<1> DEFINE w == U!Segments
           A == PiecesOf(B)
<1>1. w \in Seq(A)
  BY SegmentsAre DEF U!Init
<1>2. stack = <<>> /\ path = U!NoPath /\ parts = w /\ slash \in BOOLEAN
  BY DEF U!Init, U!Segments
<1> HIDE DEF w, A
<1>3. 0 \in 0..Len(w) /\ SubSeq(w, 0 + 1, Len(w)) = w /\ <<>> \in Seq(A)
  BY <1>1
<1>4. Holds(w, 0, <<>>, <<>>)
  BY <1>1, HoldsAtFirst
<1> QED
  BY <1>1, <1>2, <1>3, <1>4 DEF Walking, w, A

LEMMA WalkingOn ==
    ASSUME NEW B, Walking(PiecesOf(B)), part = "Uri", part' = part, U!Next
    PROVE  Walking(PiecesOf(B))'
<1> DEFINE w == U!Segments
           A == PiecesOf(B)
<1>1. w \in Seq(A) /\ stack \in Seq(A) /\ slash \in BOOLEAN
  BY DEF Walking
<1>2. PICK m \in 0..Len(w) : parts = SubSeq(w, m + 1, Len(w)) /\ \E q : Holds(w, m, stack, q)
  BY DEF Walking
<1> PICK q : Holds(w, m, stack, q)
  BY <1>2
<1>3. path # U!NoPath => parts = <<>> /\ path = U!Rebuilt(stack, slash)
  BY DEF Walking
<1>4. uri' = uri /\ slash' = slash
  BY DEF U!Next, U!GoUp, U!GoDown, U!Rebuild, U!vars
<1>5. U!Segments' = w
  BY <1>4 DEF U!Segments
<1>6. ASSUME parts # <<>>
      PROVE  /\ m \in Nat /\ m + 1 <= Len(w) /\ m + 1 \in 0..Len(w) /\ w[m + 1] \in A
             /\ Head(parts) = w[m + 1] /\ Tail(parts) = SubSeq(w, (m + 1) + 1, Len(w))
  <2> HIDE DEF w, A
  <2>1. m \in Nat /\ Len(w) \in Nat /\ m + 1 <= Len(w)
    BY <1>1, <1>2, <1>6
  <2> QED
    BY <1>1, <1>2, <2>1
<1>7. ASSUME parts # <<>>, stack' \in Seq(A), \E r : Holds(w, m + 1, stack', r),
             parts' = Tail(parts), path' = path
      PROVE  Walking(PiecesOf(B))'
  <2>1. path' = U!NoPath
    BY <1>3, <1>7
  <2>2. PICK r : Holds(w, m + 1, stack', r)
    BY <1>7
  <2>3. m + 1 \in 0..Len(w) /\ parts' = SubSeq(w, (m + 1) + 1, Len(w))
    BY <1>6, <1>7
  <2> DEFINE n == m + 1
  <2> HIDE DEF n, w
  <2> QED
    BY <1>1, <1>4, <1>5, <1>7, <2>1, <2>2, <2>3 DEF Walking, n
<1>8. CASE U!GoUp
  <2>1. /\ parts # <<>> /\ w[m + 1] = U!Up /\ parts' = Tail(parts) /\ path' = path
        /\ stack' = IF stack = <<>> THEN <<>> ELSE U!Front(stack)
    BY <1>6, <1>8 DEF U!GoUp
  <2>2. stack' \in Seq(A)
    <3> HIDE DEF A
    <3> QED
      BY <1>1, <2>1 DEF U!Front
  <2>3. \E r : Holds(w, m + 1, stack', r)
    <3> HIDE DEF A, w
    <3> QED
      BY <1>1, <1>2, <1>6, <2>1, HoldsUp
  <2> QED
    BY <1>7, <2>1, <2>2, <2>3
<1>9. CASE U!GoDown
  <2>1. /\ parts # <<>> /\ w[m + 1] # U!Up /\ parts' = Tail(parts) /\ path' = path
        /\ stack' = IF w[m + 1] \in {U!Stay, <<>>} THEN stack ELSE Append(stack, w[m + 1])
    BY <1>6, <1>9 DEF U!GoDown
  <2>2. w[m + 1] # <<>>
    BY <1>6, <2>1 DEF PiecesOf
  <2>3. CASE w[m + 1] = U!Stay
    <3>1. stack' = stack
      BY <2>1, <2>3
    <3>2. Holds(w, m + 1, stack, q)
      <4> HIDE DEF A, w
      <4> QED
        BY <1>1, <1>2, <1>6, <2>1, <2>3, HoldsStay
    <3> QED
      BY <1>1, <1>7, <2>1, <3>1, <3>2
  <2>4. CASE w[m + 1] # U!Stay
    <3>1. stack' = Append(stack, w[m + 1]) /\ U!IsName(w[m + 1])
      BY <2>1, <2>2, <2>4 DEF U!IsName
    <3>2. Holds(w, m + 1, Append(stack, w[m + 1]), Append(q, m + 1))
      <4> HIDE DEF A, w
      <4> QED
        BY <1>1, <1>2, <1>6, <2>1, <3>1, HoldsDown
    <3>3. stack' \in Seq(A)
      <4> HIDE DEF A, w
      <4> QED
        BY <1>1, <1>6, <2>1, <3>1
    <3> QED
      BY <1>7, <2>1, <3>1, <3>2, <3>3
  <2> QED
    BY <2>3, <2>4
<1>10. CASE U!Rebuild
  <2>1. /\ parts = <<>> /\ parts' = parts /\ stack' = stack
        /\ path' = U!Rebuilt(stack, slash)
    BY <1>10 DEF U!Rebuild
  <2> HIDE DEF w, A
  <2> QED
    BY <1>1, <1>2, <1>4, <1>5, <2>1 DEF Walking, w, A
<1>11. CASE UNCHANGED U!vars
  <2> HIDE DEF w, A
  <2> QED
    BY <1>1, <1>2, <1>3, <1>5, <1>11 DEF Walking, U!vars, w, A
<1> QED
  BY <1>8, <1>9, <1>10, <1>11 DEF U!Next

LEMMA WalkingAlways == ASSUME NEW B, U!TargetsOf(B) PROVE PartsSpec => []Walking(PiecesOf(B))
<1> DEFINE A == PiecesOf(B)
           Inv == Walking(A)
<1>1. PartsInit => Inv
  BY WalkingAtFirst
<1>2. ASSUME Inv, [PartsNext]_partsVars PROVE Inv'
  <2>1. CASE UNCHANGED <<part, target>>
    BY <1>2, <2>1 DEF Walking, target, U!Segments
  <2>2. CASE part = "Uri" /\ U!Next /\ NotUri
    BY <1>2, <2>2, WalkingOn DEF NotUri
  <2>3. CASE NotTokenizer \/ NotConfig \/ NotResponse \/ NotForm \/ NotScript
    BY <2>1, <2>3 DEF NotTokenizer, NotConfig, NotResponse, NotForm, NotScript
  <2> QED
    BY <1>2, <2>1, <2>2, <2>3 DEF PartsNext, partsVars
<1> QED
  BY <1>1, <1>2, PTL DEF PartsSpec

\* Whatever the target: the stack holds the names no ".." goes up from, in
\* their order, and the path made of it is absolute, has no empty segment and
\* none that is "." or "..", has a slash at its end if the target had one, and
\* means itself when it comes back as a target (Request.cpp:145-177).
THEOREM CleanAlways ==
    ASSUME NEW B, U!TargetsOf(B)
    PROVE  PartsSpec => []PathIsClean
<1> DEFINE Inv == Walking(PiecesOf(B))
<1>1. ASSUME Inv PROVE PathIsClean
  <2> SUFFICES ASSUME part = "Uri" PROVE U!StackHoldsNames /\ U!CleanPath /\ U!CleanPathStays
    BY DEF PathIsClean, U!PathIsClean
  <2> DEFINE w == U!Segments
             A == PiecesOf(B)
  <2>1. w \in Seq(A) /\ stack \in Seq(A) /\ slash \in BOOLEAN
    BY <1>1 DEF Walking
  <2>2. PICK m \in 0..Len(w) : parts = SubSeq(w, m + 1, Len(w)) /\ \E q : Holds(w, m, stack, q)
    BY <1>1 DEF Walking
  <2> PICK q : Holds(w, m, stack, q)
    BY <2>2
  <2>3. path # U!NoPath => path = U!Rebuilt(stack, slash)
    BY <1>1 DEF Walking
  <2>4. U!StackHoldsNames
    <3> HIDE DEF A, w
    <3>1. m \in Nat /\ Len(w) \in Nat /\ m <= Len(w) /\ Len(w) - Len(parts) = m
      BY <2>1, <2>2
    <3> DEFINE v == SubSeq(w, 1, m)
    <3>2. U!Walked = v
      BY <3>1 DEF U!Walked, w
    <3>3. U!Staying(v) = StayingTo(w, m)
      BY <2>1, StayingIs
    <3>4. /\ Len(stack) = U!Cardinality(StayingTo(w, m))
          /\ \A j \in StayingTo(w, m) :
                stack[U!Cardinality({k \in StayingTo(w, m) : k <= j})] = w[j]
      BY <2>1, <2>2, <3>1, HoldsPlaces
    <3>5. \A j \in StayingTo(w, m) : v[j] = w[j]
      BY <2>1, <3>1 DEF StayingTo
    <3> HIDE DEF v
    <3> QED
      BY <3>2, <3>3, <3>4, <3>5 DEF U!StackHoldsNames
  <2>5. CASE path = U!NoPath
    BY <2>4, <2>5 DEF U!CleanPath, U!CleanPathStays
  <2>6. CASE path # U!NoPath
    <3>1. \A j \in DOMAIN stack : U!IsName(stack[j])
      <4>1. \A k \in 1..Len(q) : U!IsName(stack[k])
        BY <2>2, Zenon DEF Holds
      <4>2. Len(stack) = Len(q)
        BY <2>2, Zenon DEF Holds
      <4> QED
        BY <2>1, <4>1, <4>2
    <3>2. U!Space \in B /\ U!Slash \in B /\ \A x, y \in B : Hex[<<x, y>>] \in B
      BY DEF U!TargetsOf
    <3>3. U!CleanPath /\ U!CleanPathStays
      BY <2>1, <2>3, <2>6, <3>1, <3>2, CleanWhenRebuilt
    <3> QED
      BY <2>4, <3>3
  <2> QED
    BY <2>5, <2>6
<1>2. PartsSpec => []Inv
  BY WalkingAlways
<1> QED
  BY <1>1, <1>2, PTL

-----------------------------------------------------------------------------
(* What a script printed.                                                  *)

Crlf2 == <<P!CR, P!LF, P!CR, P!LF>>
Lf2 == <<P!LF, P!LF>>

LEMMA CrIsNotLf == P!CR # P!LF
  BY DEF P!CR, P!LF

\* Where a blank line begins.
LEMMA CrlfFound ==
    ASSUME NEW B, P!CR \in B, P!LF \in B, NEW s \in Seq(B), NEW k \in Nat \ {0}
    PROVE  k \in P!Found(s, Crlf2)
             <=> /\ k + 3 <= Len(s)
                 /\ s[k] = P!CR /\ s[k + 1] = P!LF /\ s[k + 2] = P!CR /\ s[k + 3] = P!LF
<1> DEFINE t == Crlf2
           m == k + 3
           piece == SubSeq(s, k, m)
<1>1. /\ t \in Seq(B) /\ Len(t) = 4
      /\ t[1] = P!CR /\ t[2] = P!LF /\ t[3] = P!CR /\ t[4] = P!LF
  BY DEF Crlf2
<1>2. k \in P!Found(s, t) <=> m <= Len(s) /\ piece = t
  BY <1>1 DEF P!Found
<1>3. ASSUME m <= Len(s)
      PROVE  piece \in Seq(B) /\ Len(piece) = 4
             /\ piece[1] = s[k] /\ piece[2] = s[k + 1] /\ piece[3] = s[k + 2] /\ piece[4] = s[k + 3]
  BY <1>3
<1> HIDE DEF piece, t
<1>4. ASSUME m <= Len(s), \A j \in 1..4 : piece[j] = t[j] PROVE piece = t
  BY <1>1, <1>3, <1>4, SeqEqual
<1>5. \A j \in 1..4 : j = 1 \/ j = 2 \/ j = 3 \/ j = 4
  OBVIOUS
<1> QED
  BY <1>1, <1>2, <1>3, <1>4, <1>5 DEF t

LEMMA LfFound ==
    ASSUME NEW B, P!LF \in B, NEW s \in Seq(B), NEW k \in Nat \ {0}
    PROVE  k \in P!Found(s, Lf2) <=> k + 1 <= Len(s) /\ s[k] = P!LF /\ s[k + 1] = P!LF
<1> DEFINE t == Lf2
           m == k + 1
           piece == SubSeq(s, k, m)
<1>1. t \in Seq(B) /\ Len(t) = 2 /\ t[1] = P!LF /\ t[2] = P!LF
  BY DEF Lf2
<1>2. k \in P!Found(s, t) <=> m <= Len(s) /\ piece = t
  BY <1>1 DEF P!Found
<1>3. ASSUME m <= Len(s)
      PROVE  piece \in Seq(B) /\ Len(piece) = 2 /\ piece[1] = s[k] /\ piece[2] = s[k + 1]
  BY <1>3
<1> HIDE DEF piece, t
<1>4. ASSUME m <= Len(s), \A j \in 1..2 : piece[j] = t[j] PROVE piece = t
  BY <1>1, <1>3, <1>4, SeqEqual
<1>5. \A j \in 1..2 : j = 1 \/ j = 2
  OBVIOUS
<1> QED
  BY <1>1, <1>2, <1>3, <1>4, <1>5 DEF t

\* find() comes to the first.
LEMMA FindsFirst ==
    ASSUME NEW s, NEW t, NEW k \in P!Found(s, t), \A j \in P!Found(s, t) : k <= j
    PROVE  P!Find(s, t) = k
<1>1. P!Found(s, t) \subseteq Int
  BY DEF P!Found
<1>2. \A x \in P!Found(s, t) : (\A l \in P!Found(s, t) : x <= l) => x = k
  BY <1>1
<1>3. P!Found(s, t) # {}
  OBVIOUS
<1> HIDE DEF P!Found
<1> QED
  BY <1>2, <1>3 DEF P!Find

LEMMA FindsNone == ASSUME NEW s, NEW t, P!Found(s, t) = {} PROVE P!Find(s, t) = 0
  BY DEF P!Find

\* The n lines of s are between the places c.
CutAt(s, n, c) ==
    /\ c[0] = 0 /\ c[n] = Len(s) + 1
    /\ \A k \in 0..n : c[k] \in Nat
    /\ \A j, k \in 0..n : j < k => c[j] < c[k]
    /\ \A l \in 1..Len(s) : s[l] = P!LF <=> \E k \in 1..(n - 1) : c[k] = l

LEMMA LinesAre ==
    ASSUME NEW B, NEW s \in Seq(B), NEW n \in Nat, NEW c, CutAt(s, n, c)
    PROVE  \A line : line \in P!Lines(s)
              <=> \E k \in 1..n : line = <<c[k - 1], P!Uncut(SubSeq(s, c[k - 1] + 1, c[k] - 1))>>
<1> USE DEF CutAt
<1> DEFINE C == P!Cuts(s)
           Next2(d, e) == d \in C /\ e \in C /\ d < e /\ \A k \in C : k <= d \/ e <= k
<1>1. \A l : l \in C <=> \E k \in 0..n : c[k] = l
  <2>1. ASSUME NEW l \in C PROVE \E k \in 0..n : c[k] = l
    <3>1. l = 0 \/ l = Len(s) + 1 \/ (l \in 1..Len(s) /\ s[l] = P!LF)
      BY <2>1 DEF P!Cuts
    <3>2. 0 \in 0..n /\ n \in 0..n /\ \A k \in 1..(n - 1) : k \in 0..n
      OBVIOUS
    <3> QED
      BY <3>1, <3>2
  <2>2. ASSUME NEW k \in 0..n PROVE c[k] \in C
    <3>1. CASE k = 0 \/ k = n
      BY <3>1 DEF P!Cuts
    <3>2. CASE k # 0 /\ k # n
      <4>1. k \in 1..(n - 1) /\ 0 < k /\ k < n /\ 0 \in 0..n /\ n \in 0..n
        BY <3>2
      <4>2. c[k] \in 1..Len(s)
        BY <4>1
      <4>3. s[c[k]] = P!LF
        BY <4>1, <4>2
      <4> QED
        BY <4>2, <4>3 DEF P!Cuts
    <3> QED
      BY <3>1, <3>2
  <2> HIDE DEF C
  <2> QED
    BY <2>1, <2>2
<1>2. \A line : line \in P!Lines(s)
         <=> \E d, e : Next2(d, e) /\ line = <<d, P!Uncut(SubSeq(s, d + 1, e - 1))>>
  <2> DEFINE Q == {d \in C \X C : d[1] < d[2] /\ \A k \in C : k <= d[1] \/ d[2] <= k}
             G(d) == <<d[1], P!Uncut(SubSeq(s, d[1] + 1, d[2] - 1))>>
  <2>1. P!Lines(s) = {G(d) : d \in Q}
    BY DEF P!Lines
  <2>2. ASSUME NEW d \in Q PROVE Next2(d[1], d[2])
    <3> HIDE DEF C
    <3> QED
      OBVIOUS
  <2>3. ASSUME NEW d, NEW e, Next2(d, e)
        PROVE  <<d, e>> \in Q /\ G(<<d, e>>) = <<d, P!Uncut(SubSeq(s, d + 1, e - 1))>>
    <3> HIDE DEF C
    <3> QED
      BY <2>3
  <2>4. ASSUME NEW line \in P!Lines(s)
        PROVE  \E d, e : Next2(d, e) /\ line = <<d, P!Uncut(SubSeq(s, d + 1, e - 1))>>
    <3>1. PICK d \in Q : line = G(d)
      BY <2>1
    <3> HIDE DEF Next2, Q
    <3> QED
      BY <2>2, <3>1
  <2>5. ASSUME NEW d, NEW e, Next2(d, e) PROVE <<d, P!Uncut(SubSeq(s, d + 1, e - 1))>> \in P!Lines(s)
    <3> HIDE DEF Next2, Q, G
    <3> QED
      BY <2>1, <2>3, <2>5
  <2> HIDE DEF Next2
  <2> QED
    BY <2>4, <2>5
<1> HIDE DEF C
<1>3. ASSUME NEW d, NEW e, Next2(d, e) PROVE \E k \in 1..n : d = c[k - 1] /\ e = c[k]
  <2>1. PICK i1 \in 0..n : c[i1] = d
    BY <1>1, <1>3
  <2>2. PICK i2 \in 0..n : c[i2] = e
    BY <1>1, <1>3
  <2>3. i1 < i2
    BY <1>3, <2>1, <2>2
  <2>4. i1 + 1 \in 0..n /\ i1 < i1 + 1 /\ i1 + 1 <= i2
    BY <2>3
  <2>5. c[i1 + 1] \in C
    BY <1>1, <2>4
  <2>6. c[i1 + 1] <= d \/ e <= c[i1 + 1]
    BY <1>3, <2>5
  <2>7. i2 = i1 + 1
    BY <2>1, <2>2, <2>4, <2>6
  <2>8. i2 \in 1..n /\ i2 - 1 = i1
    BY <2>3, <2>7
  <2> QED
    BY <2>1, <2>2, <2>8
<1>4. ASSUME NEW k \in 1..n PROVE Next2(c[k - 1], c[k])
  <2>1. k \in 0..n /\ k - 1 \in 0..n /\ k - 1 < k
    OBVIOUS
  <2>2. c[k - 1] \in C /\ c[k] \in C /\ c[k - 1] < c[k]
    BY <1>1, <2>1
  <2>3. ASSUME NEW l \in C PROVE l <= c[k - 1] \/ c[k] <= l
    <3>1. PICK j \in 0..n : c[j] = l
      BY <1>1
    <3>2. j < k - 1 \/ j = k - 1 \/ j = k \/ k < j
      OBVIOUS
    <3>3. c[j] < c[k - 1] \/ c[j] = c[k - 1] \/ c[j] = c[k] \/ c[k] < c[j]
      BY <2>1, <3>2
    <3>4. c[j] \in Nat /\ c[k - 1] \in Nat /\ c[k] \in Nat
      BY <2>1
    <3> QED
      BY <3>1, <3>3, <3>4
  <2> QED
    BY <2>2, <2>3
<1> HIDE DEF Next2
<1>5. ASSUME NEW line \in P!Lines(s)
      PROVE  \E k \in 1..n : line = <<c[k - 1], P!Uncut(SubSeq(s, c[k - 1] + 1, c[k] - 1))>>
  <2>1. PICK d, e : Next2(d, e) /\ line = <<d, P!Uncut(SubSeq(s, d + 1, e - 1))>>
    BY <1>2, Zenon
  <2>2. PICK k \in 1..n : d = c[k - 1] /\ e = c[k]
    BY <1>3, <2>1
  <2> QED
    BY <2>1, <2>2, Zenon
<1>6. ASSUME NEW k \in 1..n PROVE <<c[k - 1], P!Uncut(SubSeq(s, c[k - 1] + 1, c[k] - 1))>> \in P!Lines(s)
  BY <1>2, <1>4, Zenon
<1> QED
  BY <1>5, <1>6, Zenon

\* A text of lines with LF, a blank line and data.
LfLaid(out, lines, data) ==
    LET n == Len(lines)
    IN  /\ Len(out) = 2 * n + 1 + Len(data)
        /\ \A k \in 1..n : out[2 * k - 1] = lines[k] /\ out[2 * k] = P!LF
        /\ out[2 * n + 1] = P!LF
        /\ \A k \in 1..Len(data) : out[2 * n + 1 + k] = data[k]

\* The same with CRLF.
CrLaid(out, lines, data) ==
    LET n == Len(lines)
    IN  /\ Len(out) = 3 * n + 2 + Len(data)
        /\ \A k \in 1..n : out[3 * k - 2] = lines[k] /\ out[3 * k - 1] = P!CR /\ out[3 * k] = P!LF
        /\ out[3 * n + 1] = P!CR /\ out[3 * n + 2] = P!LF
        /\ \A k \in 1..Len(data) : out[3 * n + 2 + k] = data[k]

LEMMA LaidOutLf ==
    ASSUME NEW p, P!LaidOut(p), p.eol = <<P!LF>>, NEW B, p.lines \in Seq(B), p.data \in Seq(B)
    PROVE  LfLaid(p.bytes, p.lines, p.data)
<1> DEFINE eol == p.eol
           lines == p.lines
           data == p.data
           out == p.bytes
           n == Len(lines)
           size == 1 + Len(eol)
           head == n * size
<1>1. Len(eol) = 1 /\ DOMAIN eol = 1..1 /\ eol[1] = P!LF /\ 1 \in 1..1
  OBVIOUS
<1>2. n \in Nat /\ DOMAIN lines = 1..n /\ DOMAIN data = 1..Len(data) /\ Len(data) \in Nat
  OBVIOUS
<1>3. /\ Len(out) = head + Len(eol) + Len(data)
      /\ \A k \in DOMAIN lines :
            /\ out[(k - 1) * size + 1] = lines[k]
            /\ \A j \in DOMAIN eol : out[(k - 1) * size + 1 + j] = eol[j]
      /\ \A j \in DOMAIN eol : out[head + j] = eol[j]
      /\ \A j \in DOMAIN data : out[head + Len(eol) + j] = data[j]
  BY DEF P!LaidOut
<1>4. size = 2 /\ head = 2 * n /\ \A k \in 1..n : (k - 1) * size + 1 = 2 * k - 1
  BY <1>1, <1>2
<1> HIDE DEF eol, lines, data, out, n, head, size
<1>5. ASSUME NEW k \in 1..n PROVE out[2 * k - 1] = lines[k] /\ out[(2 * k - 1) + 1] = P!LF
  <2> DEFINE at == (k - 1) * size + 1
  <2>1. k \in DOMAIN lines /\ 1 \in DOMAIN eol /\ at = 2 * k - 1
    BY <1>1, <1>2, <1>4
  <2>2. out[at] = lines[k] /\ out[at + 1] = eol[1]
    BY <1>3, <2>1
  <2> HIDE DEF at
  <2> QED
    BY <1>1, <2>1, <2>2
<1>6. \A k \in 1..n : (2 * k - 1) + 1 = 2 * k
  BY <1>2
<1>7. out[2 * n + 1] = P!LF /\ Len(out) = 2 * n + 1 + Len(data)
      /\ \A j \in 1..Len(data) : out[2 * n + 1 + j] = data[j]
  BY <1>1, <1>2, <1>3, <1>4
<1>8. \A k \in 1..n : out[2 * k] = P!LF
  BY <1>5, <1>6
<1> QED
  BY <1>5, <1>7, <1>8, Zenon DEF LfLaid, n, out, lines, data

LEMMA LaidOutCr ==
    ASSUME NEW p, P!LaidOut(p), p.eol = <<P!CR, P!LF>>, NEW B, p.lines \in Seq(B),
           p.data \in Seq(B)
    PROVE  CrLaid(p.bytes, p.lines, p.data)
<1> DEFINE eol == p.eol
           lines == p.lines
           data == p.data
           out == p.bytes
           n == Len(lines)
           size == 1 + Len(eol)
           head == n * size
<1>1. Len(eol) = 2 /\ DOMAIN eol = 1..2 /\ eol[1] = P!CR /\ eol[2] = P!LF /\ 1 \in 1..2 /\ 2 \in 1..2
  OBVIOUS
<1>2. n \in Nat /\ DOMAIN lines = 1..n /\ DOMAIN data = 1..Len(data) /\ Len(data) \in Nat
  OBVIOUS
<1>3. /\ Len(out) = head + Len(eol) + Len(data)
      /\ \A k \in DOMAIN lines :
            /\ out[(k - 1) * size + 1] = lines[k]
            /\ \A j \in DOMAIN eol : out[(k - 1) * size + 1 + j] = eol[j]
      /\ \A j \in DOMAIN eol : out[head + j] = eol[j]
      /\ \A j \in DOMAIN data : out[head + Len(eol) + j] = data[j]
  BY DEF P!LaidOut
<1>4. size = 3 /\ head = 3 * n /\ \A k \in 1..n : (k - 1) * size + 1 = 3 * k - 2
  BY <1>1, <1>2
<1> HIDE DEF eol, lines, data, out, n, head, size
<1>5. ASSUME NEW k \in 1..n
      PROVE  /\ out[3 * k - 2] = lines[k]
             /\ out[(3 * k - 2) + 1] = P!CR /\ out[(3 * k - 2) + 2] = P!LF
  <2> DEFINE at == (k - 1) * size + 1
  <2>1. k \in DOMAIN lines /\ 1 \in DOMAIN eol /\ 2 \in DOMAIN eol /\ at = 3 * k - 2
    BY <1>1, <1>2, <1>4
  <2>2. out[at] = lines[k] /\ out[at + 1] = eol[1] /\ out[at + 2] = eol[2]
    BY <1>3, <2>1
  <2> HIDE DEF at
  <2> QED
    BY <1>1, <2>1, <2>2
<1>6. \A k \in 1..n : (3 * k - 2) + 1 = 3 * k - 1 /\ (3 * k - 2) + 2 = 3 * k
  BY <1>2
<1>7. /\ out[3 * n + 1] = P!CR /\ out[3 * n + 2] = P!LF /\ Len(out) = 3 * n + 2 + Len(data)
      /\ \A j \in 1..Len(data) : out[3 * n + 2 + j] = data[j]
  BY <1>1, <1>2, <1>3, <1>4
<1>8. \A k \in 1..n : out[3 * k - 1] = P!CR /\ out[3 * k] = P!LF
  BY <1>5, <1>6
<1> QED
  BY <1>5, <1>7, <1>8, Zenon DEF CrLaid, n, out, lines, data

\* A line of one symbol, with or without a CR.
LEMMA UncutIs ==
    ASSUME NEW B, P!CR \in B, NEW h \in B, h # P!CR
    PROVE  P!Uncut(<<h>>) = <<h>> /\ P!Uncut(<<h, P!CR>>) = <<h>>
<1>1. <<h>> # <<>> /\ P!Last(<<h>>) = h
  BY DEF P!Last
<1>2. <<h, P!CR>> # <<>> /\ P!Last(<<h, P!CR>>) = P!CR /\ P!Front(<<h, P!CR>>) = <<h>>
  <2> DEFINE q == SubSeq(<<h, P!CR>>, 1, 1)
             r == <<h>>
  <2>1. q \in Seq(B) /\ Len(q) = 1 /\ q[1] = h /\ r \in Seq(B) /\ Len(r) = 1 /\ r[1] = h
    OBVIOUS
  <2>2. \A k \in 1..1 : k = 1
    OBVIOUS
  <2> HIDE DEF q, r
  <2>3. q = r
    BY <2>1, <2>2, SeqEqual
  <2>4. Len(<<h, P!CR>>) - 1 = 1 /\ <<h, P!CR>>[2] = P!CR /\ Len(<<h, P!CR>>) = 2
    OBVIOUS
  <2> QED
    BY <2>3, <2>4 DEF P!Last, P!Front, q, r
<1> QED
  BY <1>1, <1>2 DEF P!Uncut

LEMMA Halves == \A n \in Nat : \A k \in 1..(2 * n) : \E j \in 1..n : k = 2 * j - 1 \/ k = 2 * j
<1> SUFFICES ASSUME NEW n \in Nat, NEW k \in 1..(2 * n)
             PROVE  \E j \in 1..n : k = 2 * j - 1 \/ k = 2 * j
  OBVIOUS
<1> DEFINE j == (k + 1) \div 2
<1>1. j \in 1..n /\ (k = 2 * j - 1 \/ k = 2 * j)
  OBVIOUS
<1> QED
  BY <1>1

LEMMA Thirds ==
    \A n \in Nat : \A k \in 1..(3 * n) :
        \E j \in 1..n : k = 3 * j - 2 \/ k = 3 * j - 1 \/ k = 3 * j
<1> SUFFICES ASSUME NEW n \in Nat, NEW k \in 1..(3 * n)
             PROVE  \E j \in 1..n : k = 3 * j - 2 \/ k = 3 * j - 1 \/ k = 3 * j
  OBVIOUS
<1> DEFINE j == (k + 2) \div 3
<1>1. j \in 1..n /\ (k = 3 * j - 2 \/ k = 3 * j - 1 \/ k = 3 * j)
  OBVIOUS
<1> QED
  BY <1>1

\* Where the headers end, their lines, and the body.
LEMMA LfRead ==
    ASSUME NEW B, P!CR \in B, P!LF \in B, NEW out \in Seq(B), NEW lines \in Seq(B),
           NEW data \in Seq(B), lines # <<>>, \A k \in 1..Len(lines) : lines[k] \notin {P!CR, P!LF},
           LfLaid(out, lines, data), P!Found(data, Crlf2) = {}
    PROVE  /\ P!HeaderEnd(out) # 0 /\ P!Body(out) = data
           /\ \A line : line \in P!Lines(P!HeaderBlock(out))
                           <=> \E k \in 1..Len(lines) : line = <<2 * (k - 1), <<lines[k]>>>>
<1> DEFINE n == Len(lines)
           e == 2 * n
<1>1. /\ n \in Nat \ {0} /\ Len(out) \in Nat /\ Len(data) \in Nat
      /\ Len(out) = e + 1 + Len(data) /\ e \in Nat
      /\ \A k \in 1..n : out[2 * k - 1] = lines[k] /\ out[2 * k] = P!LF
      /\ out[e + 1] = P!LF
      /\ \A k \in 1..Len(data) : out[e + 1 + k] = data[k]
  BY DEF LfLaid
<1> HIDE DEF n
<1>2. \A k \in 1..e : \E j \in 1..n : k = 2 * j - 1 \/ k = 2 * j
  BY <1>1, Halves
<1>3. \A k \in 1..n : lines[k] # P!CR /\ lines[k] # P!LF
  BY DEF n
<1>4. P!Found(out, Crlf2) = {}
  <2> SUFFICES ASSUME NEW k \in P!Found(out, Crlf2) PROVE FALSE
    OBVIOUS
  <2>1. k \in Nat \ {0}
    BY <1>1 DEF P!Found, Crlf2
  <2>2. /\ k + 3 <= Len(out)
        /\ out[k] = P!CR /\ out[k + 1] = P!LF /\ out[k + 2] = P!CR /\ out[k + 3] = P!LF
    BY <2>1, CrlfFound
  <2>3. k > e
    <3> SUFFICES ASSUME k \in 1..e PROVE FALSE
      BY <1>1, <2>1
    <3>1. PICK j \in 1..n : k = 2 * j - 1 \/ k = 2 * j
      BY <1>2
    <3>2. out[k] = lines[j] \/ out[k] = P!LF
      BY <1>1, <3>1
    <3> QED
      BY <1>3, <2>2, <3>2, CrIsNotLf
  <2>4. k # e + 1
    BY <1>1, <2>2, CrIsNotLf
  <2> DEFINE j == k - (e + 1)
  <2>5. j \in Nat \ {0} /\ j + 3 <= Len(data) /\ k = e + 1 + j
    BY <1>1, <2>1, <2>2, <2>3, <2>4
  <2> HIDE DEF j, e
  <2>6. j \in 1..Len(data) /\ j + 1 \in 1..Len(data) /\ j + 2 \in 1..Len(data) /\ j + 3 \in 1..Len(data)
        /\ k + 1 = e + 1 + (j + 1) /\ k + 2 = e + 1 + (j + 2) /\ k + 3 = e + 1 + (j + 3)
    BY <1>1, <2>5
  <2>7. data[j] = P!CR /\ data[j + 1] = P!LF /\ data[j + 2] = P!CR /\ data[j + 3] = P!LF
    BY <1>1, <2>2, <2>5, <2>6
  <2>8. j \in P!Found(data, Crlf2)
    BY <2>5, <2>7, CrlfFound
  <2> QED
    BY <2>8
<1>5. P!HeaderEnd(out) = e
  <2>1. e \in Nat \ {0} /\ e + 1 <= Len(out) /\ out[e] = P!LF
    <3>1. n \in 1..n
      BY <1>1
    <3>2. out[2 * n] = P!LF
      BY <1>1, <3>1
    <3> QED
      BY <1>1, <3>2
  <2>2. e \in P!Found(out, Lf2)
    BY <1>1, <2>1, LfFound
  <2>3. ASSUME NEW k \in P!Found(out, Lf2) PROVE e <= k
    <3>1. k \in Nat \ {0}
      BY <1>1 DEF P!Found, Lf2
    <3>2. k + 1 <= Len(out) /\ out[k] = P!LF /\ out[k + 1] = P!LF
      BY <3>1, LfFound
    <3> SUFFICES ASSUME k \in 1..(e - 1) PROVE FALSE
      BY <1>1, <3>1
    <3>3. k \in 1..e
      BY <1>1
    <3>4. PICK j \in 1..n : k = 2 * j - 1 \/ k = 2 * j
      BY <1>2, <3>3
    <3>5. CASE k = 2 * j - 1
      BY <1>1, <1>3, <3>2, <3>5
    <3>6. CASE k = 2 * j
      <4>1. j + 1 \in 1..n /\ 2 * (j + 1) - 1 = k + 1
        BY <1>1, <3>6
      <4>2. out[2 * (j + 1) - 1] = lines[j + 1]
        BY <1>1, <4>1
      <4> QED
        BY <1>3, <3>2, <4>1, <4>2
    <3> QED
      BY <3>4, <3>5, <3>6
  <2>4. P!Find(out, Lf2) = e
    <3> HIDE DEF e
    <3> QED
      BY <2>2, <2>3, FindsFirst
  <2>5. P!Find(out, Crlf2) = 0
    BY <1>4, FindsNone
  <2> QED
    BY <2>4, <2>5 DEF P!HeaderEnd, Crlf2, Lf2
<1>6. P!Body(out) = data
  <2> DEFINE q == SubSeq(out, e + 2, Len(out))
  <2>1. q \in Seq(B) /\ Len(q) = Len(data) /\ \A k \in 1..Len(data) : q[k] = out[e + 2 + k - 1]
    BY <1>1
  <2>2. \A k \in 1..Len(data) : e + 2 + k - 1 = e + 1 + k
    BY <1>1
  <2>3. q = data
    <3> HIDE DEF q, e
    <3>1. \A k \in 1..Len(data) : q[k] = data[k]
      BY <1>1, <2>1, <2>2
    <3> QED
      BY <2>1, <3>1, SeqEqual
  <2>4. P!BodyStart(out) = e + 2 /\ e # 0
    BY <1>1, <1>5 DEF P!BodyStart
  <2> HIDE DEF e
  <2> QED
    BY <1>5, <2>3, <2>4 DEF P!Body, q
<1> DEFINE hb == P!HeaderBlock(out)
           c == [k \in 0..n |-> 2 * k]
<1>7. hb \in Seq(B) /\ Len(hb) = e - 1 /\ \A k \in 1..(e - 1) : hb[k] = out[k]
  <2>1. hb = SubSeq(out, 1, e - 1)
    <3>1. e # 0
      BY <1>1
    <3> HIDE DEF e
    <3> QED
      BY <1>5, <3>1 DEF P!HeaderBlock
  <2>2. e - 1 <= Len(out) /\ e - 1 \in Nat
    BY <1>1
  <2> HIDE DEF hb, e
  <2> QED
    BY <2>1, <2>2
<1> HIDE DEF hb
<1>8. /\ c[0] = 0 /\ c[n] = Len(hb) + 1 /\ \A k \in 0..n : c[k] \in Nat
      /\ \A j, k \in 0..n : j < k => c[j] < c[k]
  BY <1>1, <1>7
<1>9. ASSUME NEW l \in 1..Len(hb) PROVE hb[l] = P!LF <=> \E k \in 1..(n - 1) : c[k] = l
  <2>1. l \in 1..(e - 1) /\ l \in 1..e
    BY <1>1, <1>7
  <2>2. PICK j \in 1..n : l = 2 * j - 1 \/ l = 2 * j
    BY <1>2, <2>1
  <2>3. CASE l = 2 * j - 1
    <3>1. hb[l] # P!LF
      BY <1>1, <1>3, <1>7, <2>1, <2>3
    <3>2. \A k \in 1..(n - 1) : c[k] # l
      BY <1>1, <2>3
    <3> QED
      BY <3>1, <3>2
  <2>4. CASE l = 2 * j
    <3>1. hb[l] = P!LF
      BY <1>1, <1>7, <2>1, <2>4
    <3>2. j \in 1..(n - 1) /\ c[j] = l
      BY <1>1, <2>1, <2>4
    <3> QED
      BY <3>1, <3>2
  <2> QED
    BY <2>2, <2>3, <2>4
<1>10. ASSUME NEW k \in 1..n PROVE P!Uncut(SubSeq(hb, c[k - 1] + 1, c[k] - 1)) = <<lines[k]>>
  <2> DEFINE q == SubSeq(hb, c[k - 1] + 1, c[k] - 1)
             r == <<lines[k]>>
  <2>1. c[k - 1] + 1 = 2 * k - 1 /\ c[k] - 1 = 2 * k - 1 /\ 2 * k - 1 \in 1..(e - 1)
    BY <1>1
  <2>2. q \in Seq(B) /\ Len(q) = 1 /\ q[1] = hb[2 * k - 1]
    <3> DEFINE m == 2 * k - 1
               p == SubSeq(hb, m, m)
    <3>1. m \in 1..Len(hb) /\ Len(hb) \in Nat /\ q = p
      BY <1>1, <1>7, <2>1
    <3> HIDE DEF m, q
    <3>2. p \in Seq(B) /\ Len(p) = 1 /\ p[1] = hb[m]
      BY <1>7, <3>1
    <3> QED
      BY <3>1, <3>2 DEF m
  <2>3. hb[2 * k - 1] = lines[k] /\ lines[k] \in B
    BY <1>1, <1>7, <2>1 DEF n
  <2>4. r \in Seq(B) /\ Len(r) = 1 /\ r[1] = lines[k] /\ \A j \in 1..1 : j = 1
    BY <2>3
  <2> HIDE DEF q, r
  <2>5. q = r
    BY <2>2, <2>3, <2>4, SeqEqual
  <2> QED
    BY <1>3, <2>3, <2>5, UncutIs DEF q, r
<1>14. \A k \in 1..n : c[k - 1] = 2 * (k - 1)
  BY <1>1
<1> HIDE DEF c, e
<1>11. \A line : line \in P!Lines(hb)
           <=> \E k \in 1..n : line = <<c[k - 1], P!Uncut(SubSeq(hb, c[k - 1] + 1, c[k] - 1))>>
  <2>1. CutAt(hb, n, c)
    BY <1>8, <1>9, Zenon DEF CutAt
  <2> QED
    BY <1>1, <1>7, <2>1, LinesAre
<1>12. \A line : line \in P!Lines(hb) <=> \E k \in 1..n : line = <<2 * (k - 1), <<lines[k]>>>>
  BY <1>10, <1>11, <1>14
<1>13. e # 0
  BY <1>1 DEF e
<1> QED
  BY <1>5, <1>6, <1>12, <1>13 DEF hb, n

LEMMA CrRead ==
    ASSUME NEW B, P!CR \in B, P!LF \in B, NEW out \in Seq(B), NEW lines \in Seq(B),
           NEW data \in Seq(B), lines # <<>>, \A k \in 1..Len(lines) : lines[k] \notin {P!CR, P!LF},
           CrLaid(out, lines, data)
    PROVE  /\ P!HeaderEnd(out) # 0
           /\ \A line : line \in P!Lines(P!HeaderBlock(out))
                           <=> \E k \in 1..Len(lines) : line = <<3 * (k - 1), <<lines[k]>>>>
<1> DEFINE n == Len(lines)
           e == 3 * n - 1
<1>1. /\ n \in Nat \ {0} /\ Len(out) \in Nat /\ Len(data) \in Nat
      /\ Len(out) = e + 3 + Len(data) /\ e \in Nat
      /\ \A k \in 1..n : out[3 * k - 2] = lines[k] /\ out[3 * k - 1] = P!CR /\ out[3 * k] = P!LF
      /\ out[e + 2] = P!CR /\ out[e + 3] = P!LF
      /\ \A k \in 1..Len(data) : out[e + 3 + k] = data[k]
  <2>1. n \in Nat \ {0} /\ Len(out) \in Nat /\ Len(data) \in Nat
    OBVIOUS
  <2>2. /\ Len(out) = 3 * n + 2 + Len(data)
        /\ \A k \in 1..n : out[3 * k - 2] = lines[k] /\ out[3 * k - 1] = P!CR /\ out[3 * k] = P!LF
        /\ out[3 * n + 1] = P!CR /\ out[3 * n + 2] = P!LF
        /\ \A k \in 1..Len(data) : out[3 * n + 2 + k] = data[k]
    BY Zenon DEF CrLaid
  <2> HIDE DEF n
  <2>3. e \in Nat /\ e + 2 = 3 * n + 1 /\ e + 3 = 3 * n + 2
    BY <2>1
  <2> HIDE DEF e
  <2> QED
    BY <2>1, <2>2, <2>3
<1> HIDE DEF n
<1>2. \A k \in 1..(3 * n) : \E j \in 1..n : k = 3 * j - 2 \/ k = 3 * j - 1 \/ k = 3 * j
  BY <1>1, Thirds
<1>3. \A k \in 1..n : lines[k] # P!CR /\ lines[k] # P!LF
  BY DEF n
<1>4. P!HeaderEnd(out) = e
  <2>1. e \in Nat \ {0} /\ e + 3 <= Len(out) /\ out[e] = P!CR /\ out[e + 1] = P!LF
    <3>1. n \in 1..n /\ e + 1 = 3 * n /\ e \in Nat \ {0} /\ e + 3 <= Len(out)
      BY <1>1
    <3>2. out[3 * n - 1] = P!CR /\ out[3 * n] = P!LF
      BY <1>1, <3>1
    <3> QED
      BY <3>1, <3>2
  <2>2. e \in P!Found(out, Crlf2)
    <3> HIDE DEF e
    <3> QED
      BY <1>1, <2>1, CrlfFound
  <2>3. ASSUME NEW k \in P!Found(out, Crlf2) PROVE e <= k
    <3>1. k \in Nat \ {0}
      BY <1>1 DEF P!Found, Crlf2
    <3>2. out[k] = P!CR /\ out[k + 2] = P!CR
      BY <3>1, CrlfFound
    <3> SUFFICES ASSUME k \in 1..(e - 1) PROVE FALSE
      BY <1>1, <3>1
    <3>3. k \in 1..(3 * n)
      BY <1>1
    <3>4. PICK j \in 1..n : k = 3 * j - 2 \/ k = 3 * j - 1 \/ k = 3 * j
      BY <1>2, <3>3
    <3>5. out[3 * j - 2] = lines[j] /\ out[3 * j] = P!LF
      BY <1>1
    <3>6. k = 3 * j - 1
      BY <1>3, <3>2, <3>4, <3>5, CrIsNotLf
    <3>7. j + 1 \in 1..n /\ 3 * (j + 1) - 2 = k + 2
      BY <1>1, <3>6
    <3>8. out[3 * (j + 1) - 2] = lines[j + 1]
      BY <1>1, <3>7
    <3> QED
      BY <1>3, <3>2, <3>7, <3>8
  <2>4. P!Find(out, Crlf2) = e
    <3> HIDE DEF e
    <3> QED
      BY <2>2, <2>3, FindsFirst
  <2>5. e # 0
    BY <2>1
  <2> HIDE DEF e
  <2> QED
    BY <2>4, <2>5 DEF P!HeaderEnd, Crlf2
<1>5. e # 0
  BY <1>1
<1> DEFINE hb == P!HeaderBlock(out)
           c == [k \in 0..n |-> IF k = n THEN e ELSE 3 * k]
<1>7. hb \in Seq(B) /\ Len(hb) = e - 1 /\ \A k \in 1..(e - 1) : hb[k] = out[k]
  <2>1. hb = SubSeq(out, 1, e - 1)
    <3> HIDE DEF e
    <3> QED
      BY <1>4, <1>5 DEF P!HeaderBlock
  <2>2. e - 1 <= Len(out) /\ e - 1 \in Nat
    BY <1>1
  <2> HIDE DEF hb, e
  <2> QED
    BY <2>1, <2>2
<1> HIDE DEF hb
<1>8. /\ c[0] = 0 /\ c[n] = Len(hb) + 1 /\ \A k \in 0..n : c[k] \in Nat
      /\ \A j, k \in 0..n : j < k => c[j] < c[k]
  BY <1>1, <1>7
<1>9. ASSUME NEW l \in 1..Len(hb) PROVE hb[l] = P!LF <=> \E k \in 1..(n - 1) : c[k] = l
  <2>1. l \in 1..(e - 1) /\ l \in 1..(3 * n)
    BY <1>1, <1>7
  <2>2. PICK j \in 1..n : l = 3 * j - 2 \/ l = 3 * j - 1 \/ l = 3 * j
    BY <1>2, <2>1
  <2>3. out[3 * j - 2] = lines[j] /\ out[3 * j - 1] = P!CR /\ out[3 * j] = P!LF /\ hb[l] = out[l]
    BY <1>1, <1>7, <2>1
  <2>4. CASE l # 3 * j
    <3>1. hb[l] # P!LF
      BY <1>3, <2>2, <2>3, <2>4, CrIsNotLf
    <3>2. \A k \in 1..(n - 1) : c[k] = 3 * k
      BY <1>1
    <3>3. \A k \in 1..(n - 1) : 3 * k # l
      <4> HIDE DEF c, e
      <4> QED
        BY <1>1, <2>2, <2>4
    <3>4. \A k \in 1..(n - 1) : c[k] # l
      <4> HIDE DEF c
      <4> QED
        BY <3>2, <3>3
    <3> QED
      BY <3>1, <3>4
  <2>5. CASE l = 3 * j
    <3>1. hb[l] = P!LF
      BY <2>3, <2>5
    <3>2. j \in 1..(n - 1) /\ c[j] = l
      BY <1>1, <2>1, <2>5
    <3> QED
      BY <3>1, <3>2
  <2> QED
    BY <2>4, <2>5
<1>10. ASSUME NEW k \in 1..n PROVE P!Uncut(SubSeq(hb, c[k - 1] + 1, c[k] - 1)) = <<lines[k]>>
  <2> DEFINE m == 3 * k - 2
             q == SubSeq(hb, c[k - 1] + 1, c[k] - 1)
             h == lines[k]
  <2>1. c[k - 1] + 1 = m /\ c[k] - 1 = (IF k = n THEN m ELSE m + 1) /\ m \in 1..(e - 1)
        /\ (k # n => m + 1 \in 1..(e - 1) /\ m + 1 = 3 * k - 1)
    <3>1. k - 1 \in 0..n /\ k - 1 # n /\ k \in 0..n
      BY <1>1
    <3>2. c[k - 1] = 3 * (k - 1) /\ c[k] = IF k = n THEN e ELSE 3 * k
      BY <3>1
    <3> HIDE DEF c
    <3>3. c[k - 1] + 1 = m /\ m \in 1..(e - 1)
      BY <1>1, <3>2
    <3>4. CASE k = n
      <4>1. c[k] - 1 = m
        BY <1>1, <3>2, <3>4
      <4> QED
        BY <3>3, <3>4, <4>1
    <3>5. CASE k # n
      <4>1. c[k] - 1 = m + 1 /\ m + 1 \in 1..(e - 1) /\ m + 1 = 3 * k - 1
        BY <1>1, <3>2, <3>5
      <4> QED
        BY <3>3, <3>5, <4>1
    <3> QED
      BY <3>4, <3>5
  <2>2. hb[m] = h /\ h \in B /\ (k # n => hb[m + 1] = P!CR)
    BY <1>1, <1>7, <2>1 DEF n
  <2>3. h # P!CR /\ <<h>> \in Seq(B) /\ Len(<<h>>) = 1 /\ <<h>>[1] = h
    BY <1>3, <2>2
  <2>4. <<h, P!CR>> \in Seq(B) /\ Len(<<h, P!CR>>) = 2 /\ <<h, P!CR>>[1] = h /\ <<h, P!CR>>[2] = P!CR
    BY <2>2
  <2>5. CASE k = n
    <3>1. q = SubSeq(hb, m, m)
      BY <2>1, <2>5
    <3> DEFINE r == <<h>>
    <3> HIDE DEF m, q, c, e, h
    <3>2. q \in Seq(B) /\ Len(q) = 1 /\ q[1] = hb[m]
      BY <1>7, <2>1, <3>1
    <3>3. r \in Seq(B) /\ Len(r) = 1 /\ r[1] = h /\ \A j \in 1..1 : j = 1
      BY <2>3
    <3> HIDE DEF r
    <3>4. q = r
      BY <2>2, <3>2, <3>3, SeqEqual
    <3> QED
      BY <2>2, <2>3, <3>4, UncutIs DEF r, q, h
  <2>6. CASE k # n
    <3>1. q = SubSeq(hb, m, m + 1)
      BY <2>1, <2>6
    <3> DEFINE r == <<h, P!CR>>
    <3>2. m \in 1..(e - 1) /\ m + 1 \in 1..(e - 1) /\ hb[m] = h /\ hb[m + 1] = P!CR
      BY <2>1, <2>2, <2>6
    <3> HIDE DEF m, q, c, e, h
    <3>3. q \in Seq(B) /\ Len(q) = 2 /\ q[1] = hb[m] /\ q[2] = hb[m + 1]
      BY <1>7, <3>1, <3>2
    <3>4. r \in Seq(B) /\ Len(r) = 2 /\ r[1] = h /\ r[2] = P!CR /\ \A j \in 1..2 : j = 1 \/ j = 2
      BY <2>4
    <3> HIDE DEF r
    <3>5. q = r
      BY <3>2, <3>3, <3>4, SeqEqual
    <3> QED
      BY <2>2, <2>3, <3>5, UncutIs DEF r, q, h
  <2> QED
    BY <2>5, <2>6
<1>13. \A k \in 1..n : c[k - 1] = 3 * (k - 1)
  BY <1>1
<1> HIDE DEF c, e
<1>11. \A line : line \in P!Lines(hb)
           <=> \E k \in 1..n : line = <<c[k - 1], P!Uncut(SubSeq(hb, c[k - 1] + 1, c[k] - 1))>>
  <2>1. CutAt(hb, n, c)
    BY <1>8, <1>9, Zenon DEF CutAt
  <2> QED
    BY <1>1, <1>7, <2>1, LinesAre
<1>12. \A line : line \in P!Lines(hb) <=> \E k \in 1..n : line = <<3 * (k - 1), <<lines[k]>>>>
  BY <1>10, <1>11, <1>13
<1> QED
  BY <1>4, <1>5, <1>12 DEF hb, n

\* The lines of the header block, the k-th of which begins after at[k].
LinesAt(out, n, lines, at) ==
    \A line : line \in P!Lines(P!HeaderBlock(out))
                <=> \E k \in 1..n : line = <<at[k], <<lines[k]>>>>

\* The headers of a text with these lines.
LEMMA HeadersAre ==
    ASSUME NEW out, NEW n \in Nat, NEW lines, NEW at, LinesAt(out, n, lines, at)
    PROVE  \A h : h \in P!Headers(out)
                     <=> \E k \in 1..n : lines[k].is = "header" /\ h = <<at[k], lines[k]>>
<1> DEFINE L == P!Lines(P!HeaderBlock(out))
<1>1. P!Headers(out) = {<<line[1], line[2][1]>> : line \in {l \in L : l[2] # <<>> /\ l[2][1].is = "header"}}
  BY DEF P!Headers
<1>2. ASSUME NEW a, NEW b
      PROVE  /\ <<a, <<b>>>>[1] = a /\ <<a, <<b>>>>[2] = <<b>> /\ <<a, <<b>>>>[2][1] = b
             /\ <<b>> # <<>>
  OBVIOUS
<1> HIDE DEF L
<1>3. ASSUME NEW h \in P!Headers(out)
      PROVE  \E k \in 1..n : lines[k].is = "header" /\ h = <<at[k], lines[k]>>
  <2>1. PICK l \in L : l[2] # <<>> /\ l[2][1].is = "header" /\ h = <<l[1], l[2][1]>>
    BY <1>1, <1>3, Zenon
  <2>2. PICK k \in 1..n : l = <<at[k], <<lines[k]>>>>
    BY DEF L, LinesAt
  <2>3. l[1] = at[k] /\ l[2][1] = lines[k]
    BY <1>2, <2>2
  <2> QED
    BY <2>1, <2>3
<1>4. ASSUME NEW k \in 1..n, lines[k].is = "header" PROVE <<at[k], lines[k]>> \in P!Headers(out)
  <2> DEFINE l == <<at[k], <<lines[k]>>>>
  <2>1. l \in L
    BY DEF L, LinesAt
  <2>2. l[1] = at[k] /\ l[2] # <<>> /\ l[2][1] = lines[k]
    BY <1>2
  <2> HIDE DEF l
  <2> QED
    BY <1>1, <1>4, <2>1, <2>2
<1> QED
  BY <1>3, <1>4

\* Of headers in the order of their numbers, the latest.
LEMMA LatestIs ==
    ASSUME NEW n \in Nat, NEW lines, NEW at, NEW J \in SUBSET (1..n),
           \A j, k \in 1..n : at[j] <= at[k] <=> j <= k,
           NEW S, \A h : h \in S <=> \E k \in J : h = <<at[k], lines[k]>>
    PROVE  \A k \in J : <<at[k], lines[k]>> \in P!Latest(S) <=> \A j \in J : j <= k
<1> SUFFICES ASSUME NEW k \in J
             PROVE  <<at[k], lines[k]>> \in P!Latest(S) <=> \A j \in J : j <= k
  OBVIOUS
<1>1. ASSUME NEW a, NEW b PROVE <<a, b>>[1] = a /\ <<a, b>>[2] = b
  OBVIOUS
<1> DEFINE h == <<at[k], lines[k]>>
<1>2. h \in S /\ h[1] = at[k]
  BY <1>1
<1>3. (\A g \in S : g[1] <= h[1]) <=> \A j \in J : at[j] <= at[k]
  <2> HIDE DEF h
  <2>1. \A g \in S : \E j \in J : g[1] = at[j]
    BY <1>1
  <2>2. ASSUME NEW j \in J PROVE \E g \in S : g[1] = at[j]
    <3> DEFINE g == <<at[j], lines[j]>>
    <3>1. g \in S /\ g[1] = at[j]
      BY <1>1
    <3> QED
      BY <3>1, Zenon
  <2>3. ASSUME \A g \in S : g[1] <= h[1], NEW j \in J PROVE at[j] <= at[k]
    BY <1>2, <2>2, <2>3, Zenon
  <2>4. ASSUME \A j \in J : at[j] <= at[k], NEW g \in S PROVE g[1] <= h[1]
    BY <1>2, <2>1, <2>4, Zenon
  <2> QED
    BY <2>3, <2>4, Zenon
<1>4. (\A j \in J : at[j] <= at[k]) <=> \A j \in J : j <= k
  OBVIOUS
<1> HIDE DEF h
<1>5. h \in P!Latest(S) <=> \A g \in S : g[1] <= h[1]
  BY <1>2 DEF P!Latest
<1> QED
  BY <1>3, <1>4, <1>5 DEF h

\* The headers among the lines: those with Status, and the others.
StatusLines(lines, n) == {k \in 1..n : lines[k].is = "header" /\ lines[k].lower = "status"}
OtherLines(lines, n) == {k \in 1..n : lines[k].is = "header" /\ lines[k].lower # "status"}
SameName(J, lines, k) == {j \in J : lines[j].name = lines[k].name}
Lasts(J, lines) == {k \in J : \A j \in SameName(J, lines, k) : j <= k}

\* Headers numbered in the order of their lines, and what stays of them.
Numbered(G, n, lines, at) ==
    /\ \A j, k \in 1..n : at[j] <= at[k] <=> j <= k
    /\ \A h : h \in G <=> \E k \in 1..n : lines[k].is = "header" /\ h = <<at[k], lines[k]>>
Stays(G, n, lines) ==
    /\ P!Statuses(G) = {} <=> StatusLines(lines, n) = {}
    /\ {h[2].value : h \in P!Latest(P!Statuses(G))}
         = {lines[k].value : k \in {l \in StatusLines(lines, n) :
                                        \A j \in StatusLines(lines, n) : j <= l}}
    /\ P!Entries(G \ P!Statuses(G))
         = {<<lines[k].name, lines[k].value>> : k \in Lasts(OtherLines(lines, n), lines)}

\* It does not depend on the numbers.
LEMMA NumberedAre ==
    ASSUME NEW n \in Nat, NEW lines, NEW at, NEW G, Numbered(G, n, lines, at)
    PROVE  Stays(G, n, lines)
<1> USE DEF Numbered
<1>1. ASSUME NEW a, NEW b PROVE <<a, b>>[1] = a /\ <<a, b>>[2] = b
  OBVIOUS
<1> DEFINE St == StatusLines(lines, n)
           Ot == OtherLines(lines, n)
           S == P!Statuses(G)
           O == G \ S
<1>2. St \in SUBSET (1..n) /\ Ot \in SUBSET (1..n)
  BY DEF StatusLines, OtherLines
<1>3. /\ \A h : h \in S <=> \E k \in St : h = <<at[k], lines[k]>>
      /\ \A h : h \in O <=> \E k \in Ot : h = <<at[k], lines[k]>>
  BY <1>1 DEF P!Statuses, StatusLines, OtherLines
<1> HIDE DEF St, Ot, S, O
<1>4. S = {} <=> St = {}
  BY <1>3
<1>5. {h[2].value : h \in P!Latest(S)}
        = {lines[k].value : k \in {l \in St : \A j \in St : j <= l}}
  <2> DEFINE L == P!Latest(S)
             J == {l \in St : \A j \in St : j <= l}
  <2>1. \A k \in St : <<at[k], lines[k]>> \in L <=> k \in J
    BY <1>2, <1>3, LatestIs
  <2>2. L \subseteq S /\ J \subseteq St
    BY DEF P!Latest
  <2> HIDE DEF L, J
  <2>3. ASSUME NEW h \in L PROVE \E k \in J : h[2].value = lines[k].value
    <3>1. PICK k \in St : h = <<at[k], lines[k]>>
      BY <1>3, <2>2
    <3> QED
      BY <1>1, <2>1, <3>1
  <2>4. ASSUME NEW k \in J PROVE \E h \in L : h[2].value = lines[k].value
    BY <1>1, <2>1, <2>2
  <2>5. {h[2].value : h \in L} = {lines[k].value : k \in J}
    BY <2>3, <2>4
  <2> QED
    BY <2>5 DEF L, J
<1>6. P!Entries(O) = {<<lines[k].name, lines[k].value>> : k \in Lasts(Ot, lines)}
  <2> DEFINE L == P!Standing(O)
             J == Lasts(Ot, lines)
  <2>1. ASSUME NEW k \in Ot PROVE <<at[k], lines[k]>> \in L <=> k \in J
    <3> DEFINE N == SameName(Ot, lines, k)
               h == <<at[k], lines[k]>>
               T2 == {g \in O : g[2].name = h[2].name}
    <3>1. N \in SUBSET (1..n) /\ k \in N
      BY <1>2 DEF SameName
    <3>2. \A g : g \in T2 <=> \E j \in N : g = <<at[j], lines[j]>>
      BY <1>1, <1>3 DEF SameName
    <3> HIDE DEF N, T2
    <3>3. h \in P!Latest(T2) <=> \A j \in N : j <= k
      BY <3>1, <3>2, LatestIs
    <3>4. h \in O
      BY <1>3
    <3> HIDE DEF h
    <3>5. h \in L <=> h \in P!Latest(T2)
      BY <3>4 DEF P!Standing, T2
    <3> QED
      BY <3>3, <3>5 DEF Lasts, N, h
  <2>2. L \subseteq O /\ J \subseteq Ot
    BY DEF P!Standing, Lasts
  <2> HIDE DEF L, J
  <2>3. ASSUME NEW h \in L
        PROVE  \E k \in J : <<h[2].name, h[2].value>> = <<lines[k].name, lines[k].value>>
    <3>1. PICK k \in Ot : h = <<at[k], lines[k]>>
      BY <1>3, <2>2
    <3> QED
      BY <1>1, <2>1, <3>1
  <2>4. ASSUME NEW k \in J
        PROVE  \E h \in L : <<h[2].name, h[2].value>> = <<lines[k].name, lines[k].value>>
    <3> DEFINE h == <<at[k], lines[k]>>
    <3>1. h \in L /\ h[2] = lines[k]
      BY <1>1, <2>1, <2>2
    <3> QED
      BY <3>1, Zenon
  <2>5. {<<h[2].name, h[2].value>> : h \in L} = {<<lines[k].name, lines[k].value>> : k \in J}
    <3> DEFINE F1(h) == <<h[2].name, h[2].value>>
               F2(k) == <<lines[k].name, lines[k].value>>
    <3>1. /\ \A h \in L : \E k \in J : F1(h) = F2(k)
          /\ \A k \in J : \E h \in L : F1(h) = F2(k)
      BY <2>3, <2>4
    <3> HIDE DEF F1, F2
    <3>2. {F1(h) : h \in L} = {F2(k) : k \in J}
      BY <3>1
    <3> QED
      BY <3>2 DEF F1, F2
  <2> QED
    BY <2>5 DEF L, J, P!Entries
<1> QED
  BY <1>4, <1>5, <1>6 DEF St, Ot, S, O, Stays

\* Nothing is one line, and an empty one.
LEMMA EmptyLine ==
    ASSUME NEW B, NEW s \in Seq(B), Len(s) = 0
    PROVE  \A line \in P!Lines(s) : line[2] = <<>>
<1>1. P!Cuts(s) = {0, 1}
  BY DEF P!Cuts
<1>2. SubSeq(s, 1, 0) = <<>>
  OBVIOUS
<1>3. P!Uncut(<<>>) = <<>>
  BY DEF P!Uncut
<1>4. ASSUME NEW line \in P!Lines(s) PROVE line[2] = <<>>
  <2>1. PICK d \in {0, 1} \X {0, 1} :
           d[1] < d[2] /\ line = <<d[1], P!Uncut(SubSeq(s, d[1] + 1, d[2] - 1))>>
    BY <1>1, <1>4 DEF P!Lines
  <2>2. d[1] + 1 = 1 /\ d[2] - 1 = 0
    BY <2>1
  <2> QED
    BY <1>2, <1>3, <2>1, <2>2
<1> QED
  BY <1>4

\* What is printed without a blank line has no headers.
LEMMA BodyRead ==
    ASSUME NEW out, P!Found(out, Crlf2) = {}, P!Found(out, Lf2) = {}
    PROVE  P!Body(out) = out /\ P!Headers(out) = {}
<1>1. P!HeaderEnd(out) = 0
  BY FindsNone DEF P!HeaderEnd, Crlf2, Lf2
<1>2. P!Body(out) = out /\ P!HeaderBlock(out) = <<>>
  BY <1>1 DEF P!Body, P!HeaderBlock
<1> DEFINE none == <<>>
           E == {0}
<1>3. none \in Seq(E) /\ Len(none) = 0
  OBVIOUS
<1> HIDE DEF none, E
<1>4. \A line \in P!Lines(none) : line[2] = <<>>
  BY <1>3, EmptyLine
<1>5. P!Headers(out) = {}
  BY <1>2, <1>4 DEF P!Headers, none
<1> QED
  BY <1>2, <1>5

\* The reply that print promises.
Promised ==
    /\ print.eol # <<P!CR, P!LF>> => scriptReply.body = print.body
    /\ scriptReply.code \in print.codes /\ scriptReply.headers = print.headers

LEMMA ReplyIsPromised ==
    ASSUME P!ByTheRules(print), output = print.bytes, P!SetCGIResponse(output), print' = print
    PROVE  Promised'
<1> DEFINE out == print.bytes
           Lines == print.lines
           D == print.data
           B == P!Range(out) \cup P!Range(Lines) \cup P!Range(D) \cup {P!CR, P!LF}
<1>1. out \in Seq(B) /\ Lines \in Seq(B) /\ D \in Seq(B) /\ P!CR \in B /\ P!LF \in B
  <2>1. out \in Seq(P!Range(out)) /\ Lines \in Seq(P!Range(Lines)) /\ D \in Seq(P!Range(D))
    BY DEF P!ByTheRules
  <2>2. P!Range(out) \subseteq B /\ P!Range(Lines) \subseteq B /\ P!Range(D) \subseteq B
        /\ P!CR \in B /\ P!LF \in B
    OBVIOUS
  <2> HIDE DEF B, out, Lines, D
  <2>3. ASSUME NEW S, NEW q \in Seq(S), S \subseteq B PROVE q \in Seq(B)
    BY <2>3
  <2> QED
    BY <2>1, <2>2, <2>3
<1> HIDE DEF B
<1>2. CASE P!PrintsNothing(print)
  BY <1>2 DEF P!PrintsNothing, P!SetCGIResponse, Promised
<1>3. ASSUME out # <<>>
      PROVE  \E answer \in P!Codes(out) :
                scriptReply' = [code |-> answer, headers |-> P!WithType(P!Given(out)),
                                body |-> P!Body(out)]
  BY <1>3 DEF P!SetCGIResponse
<1>4. CASE P!PrintsBody(print)
  <2>1. out # <<>> /\ P!Found(out, Crlf2) = {} /\ P!Found(out, Lf2) = {}
        /\ "200" \in print.codes /\ print.headers = P!WithType({}) /\ print.body = out
    BY <1>4 DEF P!PrintsBody, P!BlankLines, Crlf2, Lf2
  <2>2. P!Body(out) = out /\ P!Headers(out) = {}
    BY <2>1, BodyRead
  <2>3. P!Codes(out) = {"200"} /\ P!Given(out) = {}
    BY <2>2 DEF P!Codes, P!Given, P!Entries, P!Standing, P!Statuses
  <2> HIDE DEF out
  <2> QED
    BY <1>3, <2>1, <2>2, <2>3 DEF Promised, out
<1>5. CASE P!PrintsHeaders(print)
  <2> DEFINE H == {<<k, Lines[k]>> : k \in {l \in DOMAIN Lines : Lines[l].is = "header"}}
             St == P!Statuses(H)
  <2>1. /\ Lines # <<>> /\ P!LaidOut(print)
        /\ print.eol = <<P!LF>> \/ print.eol = <<P!CR, P!LF>>
        /\ \A k \in 1..Len(Lines) : Lines[k] \notin {P!CR, P!LF}
        /\ print.eol = <<P!LF>> => P!Found(D, Crlf2) = {}
        /\ St = {} => "200" \in print.codes
        /\ St # {} => \A h \in P!Latest(St) : P!ToInt(h[2].value) \subseteq print.codes
        /\ print.headers = P!WithType(P!Entries(H \ St))
        /\ print.body = D
    <3>1. /\ Lines # <<>> /\ P!LaidOut(print)
          /\ print.eol = <<P!LF>> \/ print.eol = <<P!CR, P!LF>>
      BY <1>5 DEF P!PrintsHeaders
    <3>2. \A k \in 1..Len(Lines) : Lines[k] \notin {P!CR, P!LF}
      <4>1. \A k \in DOMAIN Lines : Lines[k] \notin {P!CR, P!LF}
        BY <1>5 DEF P!PrintsHeaders
      <4> QED
        BY <1>1, <4>1
    <3>3. print.eol = <<P!LF>> => P!Found(D, Crlf2) = {}
      BY <1>5 DEF P!PrintsHeaders, Crlf2
    <3>4. /\ St = {} => "200" \in print.codes
          /\ St # {} => \A h \in P!Latest(St) : P!ToInt(h[2].value) \subseteq print.codes
          /\ print.headers = P!WithType(P!Entries(H \ St))
      BY <1>5, Zenon DEF P!PrintsHeaders
    <3>5. print.body = D
      BY <1>5 DEF P!PrintsHeaders
    <3> QED
      BY <3>1, <3>2, <3>3, <3>4, <3>5
  <2> DEFINE at == [k \in 1..Len(Lines) |-> (IF print.eol = <<P!LF>> THEN 2 ELSE 3) * (k - 1)]
  <2>2. /\ P!HeaderEnd(out) # 0
        /\ print.eol # <<P!CR, P!LF>> => P!Body(out) = print.body
        /\ \A line : line \in P!Lines(P!HeaderBlock(out))
                        <=> \E k \in 1..Len(Lines) : line = <<at[k], <<Lines[k]>>>>
    <3>1. CASE print.eol = <<P!LF>>
      <4>1. LfLaid(out, Lines, D)
        BY <1>1, <2>1, <3>1, LaidOutLf
      <4>2. P!Found(D, Crlf2) = {} /\ print.body = D
        BY <2>1, <3>1
      <4>3. Lines # <<>> /\ \A k \in 1..Len(Lines) : Lines[k] \notin {P!CR, P!LF}
        BY <2>1
      <4>5. \A k \in 1..Len(Lines) : at[k] = 2 * (k - 1)
        BY <3>1
      <4> HIDE DEF out, Lines, D, at
      <4>4. /\ P!HeaderEnd(out) # 0 /\ P!Body(out) = D
            /\ \A line : line \in P!Lines(P!HeaderBlock(out))
                            <=> \E k \in 1..Len(Lines) : line = <<2 * (k - 1), <<Lines[k]>>>>
        BY <1>1, <4>1, <4>2, <4>3, LfRead
      <4> QED
        BY <4>2, <4>4, <4>5
    <3>2. CASE print.eol = <<P!CR, P!LF>>
      <4>1. CrLaid(out, Lines, D)
        BY <1>1, <2>1, <3>2, LaidOutCr
      <4>2. print.eol # <<P!LF>>
        <5>1. Len(<<P!LF>>) = 1 /\ Len(<<P!CR, P!LF>>) = 2
          OBVIOUS
        <5> QED
          BY <3>2, <5>1
      <4>3. Lines # <<>> /\ \A k \in 1..Len(Lines) : Lines[k] \notin {P!CR, P!LF}
        BY <2>1
      <4>5. \A k \in 1..Len(Lines) : at[k] = 3 * (k - 1)
        BY <4>2
      <4> HIDE DEF out, Lines, D, at
      <4>4. /\ P!HeaderEnd(out) # 0
            /\ \A line : line \in P!Lines(P!HeaderBlock(out))
                            <=> \E k \in 1..Len(Lines) : line = <<3 * (k - 1), <<Lines[k]>>>>
        BY <1>1, <4>1, <4>3, CrRead
      <4> QED
        BY <3>2, <4>4, <4>5
    <3> QED
      BY <2>1, <3>1, <3>2
  <2>3. /\ P!Statuses(P!Headers(out)) = {} <=> St = {}
        /\ {h[2].value : h \in P!Latest(P!Statuses(P!Headers(out)))} = {h[2].value : h \in P!Latest(St)}
        /\ P!Given(out) = P!Entries(H \ St)
    <3> DEFINE G == P!Headers(out)
               n == Len(Lines)
    <3>1. n \in Nat /\ DOMAIN Lines = 1..n
      BY <1>1
    <3>2. \A j, k \in 1..n : at[j] <= at[k] <=> j <= k
      BY <3>1
    <3> DEFINE id == [k \in 1..n |-> k]
    <3>3. \A j, k \in 1..n : id[j] <= id[k] <=> j <= k
      OBVIOUS
    <3>4. \A h : h \in G <=> \E k \in 1..n : Lines[k].is = "header" /\ h = <<at[k], Lines[k]>>
      <4> HIDE DEF out, Lines, at
      <4>1. LinesAt(out, n, Lines, at)
        BY <2>2 DEF LinesAt
      <4> HIDE DEF n
      <4> QED
        BY <3>1, <4>1, HeadersAre
    <3>5. \A h : h \in H <=> \E k \in 1..n : Lines[k].is = "header" /\ h = <<id[k], Lines[k]>>
      BY <3>1
    <3> HIDE DEF H, n, at, Lines, out, G, id
    <3>6. Stays(G, n, Lines)
      <4>1. Numbered(G, n, Lines, at)
        BY <3>2, <3>4 DEF Numbered
      <4> QED
        BY <3>1, <4>1, NumberedAre
    <3>7. Stays(H, n, Lines)
      <4>1. Numbered(H, n, Lines, id)
        BY <3>3, <3>5 DEF Numbered
      <4> QED
        BY <3>1, <4>1, NumberedAre
    <3> QED
      BY <3>6, <3>7, Zenon DEF P!Given, G, Stays
  <2>4. out # <<>>
    <3>1. CASE print.eol = <<P!LF>>
      <4>1. LfLaid(out, Lines, D)
        BY <1>1, <2>1, <3>1, LaidOutLf
      <4> HIDE DEF out, Lines, D
      <4>2. Len(Lines) \in Nat /\ Len(D) \in Nat /\ Len(out) > 0
        BY <1>1, <4>1 DEF LfLaid
      <4> QED
        BY <1>1, <4>2
    <3>2. CASE print.eol = <<P!CR, P!LF>>
      <4>1. CrLaid(out, Lines, D)
        BY <1>1, <2>1, <3>2, LaidOutCr
      <4> HIDE DEF out, Lines, D
      <4>2. Len(Lines) \in Nat /\ Len(D) \in Nat /\ Len(out) > 0
        BY <1>1, <4>1 DEF CrLaid
      <4> QED
        BY <1>1, <4>2
    <3> QED
      BY <2>1, <3>1, <3>2
  <2>5. P!Codes(out) \subseteq print.codes
    <3> DEFINE given == P!Statuses(P!Headers(out))
    <3>1. P!Codes(out) = IF given = {} THEN {"200"}
                         ELSE UNION {P!ToInt(h[2].value) : h \in P!Latest(given)}
      BY DEF P!Codes
    <3> HIDE DEF St, out
    <3>2. ASSUME NEW h \in P!Latest(given), given # {} PROVE P!ToInt(h[2].value) \subseteq print.codes
      <4>1. PICK g \in P!Latest(St) : g[2].value = h[2].value
        BY <2>3
      <4> QED
        BY <2>1, <2>3, <3>2, <4>1
    <3> HIDE DEF given
    <3>3. given = {} => "200" \in print.codes
      BY <2>1, <2>3 DEF given
    <3> QED
      BY <3>1, <3>2, <3>3
  <2>6. P!WithType(P!Given(out)) = print.headers
    BY <2>1, <2>3
  <2> HIDE DEF out
  <2> QED
    BY <1>3, <2>2, <2>4, <2>5, <2>6 DEF Promised, out
<1> QED
  BY <1>2, <1>4, <1>5 DEF P!ByTheRules

\* What has been read is a beginning of what is printed, and at its end comes
\* the reply.
Collecting ==
    part = "ScriptReply" /\ P!ByTheRules(print) =>
        /\ read \in 0..Len(print.bytes) /\ output = SubSeq(print.bytes, 1, read)
        /\ ended \in BOOLEAN /\ (ended => Promised)

LEMMA CollectingAlways == PartsSpec => []Collecting
<1>1. PartsInit => Collecting
  <2> SUFFICES ASSUME part = "ScriptReply", P!Init, P!ByTheRules(print) PROVE Collecting
    BY DEF PartsInit, Collecting
  <2>1. print.bytes \in Seq(P!Range(print.bytes))
    BY DEF P!ByTheRules
  <2>2. read = 0 /\ output = <<>> /\ ended = FALSE
    BY DEF P!Init
  <2> DEFINE out == print.bytes
             A == P!Range(out)
  <2>3. out \in Seq(A)
    BY <2>1
  <2> HIDE DEF out, A
  <2>4. 0 \in 0..Len(out) /\ SubSeq(out, 1, 0) = <<>>
    BY <2>3
  <2> QED
    BY <2>2, <2>4 DEF Collecting, out
<1>2. ASSUME Collecting, [PartsNext]_partsVars PROVE Collecting'
  <2>1. CASE UNCHANGED <<part, script>>
    BY <1>2, <2>1 DEF Collecting, Promised, script
  <2>2. CASE part = "ScriptReply" /\ P!Next /\ NotScript
    <3> SUFFICES ASSUME P!ByTheRules(print), print' = print, part' = part PROVE Collecting'
      BY <2>2 DEF Collecting, NotScript, P!Next, P!HandleCGIRead, P!EndOfFile, P!vars
    <3> DEFINE out == print.bytes
    <3>1. out \in Seq(P!Range(out))
      BY DEF P!ByTheRules
    <3>2. read \in 0..Len(out) /\ output = SubSeq(out, 1, read) /\ ended \in BOOLEAN
          /\ (ended => Promised)
      BY <1>2, <2>2 DEF Collecting
    <3>3. ASSUME NEW n \in 1..(Len(out) - read), P!HandleCGIRead(n) PROVE Collecting'
      <4>1. ~ended /\ ended' = ended /\ read' = read + n
            /\ output' = output \o SubSeq(out, read + 1, read + n)
        BY <3>3 DEF P!HandleCGIRead
      <4>2. read' \in 0..Len(out) /\ output' = SubSeq(out, 1, read')
        <5> DEFINE A == P!Range(out)
        <5> HIDE DEF out, A
        <5>1. read + n \in 0..Len(out) /\ read \in Nat /\ n \in Nat /\ Len(out) \in Nat
              /\ out \in Seq(A)
          BY <3>1, <3>2, <3>3 DEF A
        <5>2. SubSeq(out, 1, read) \o SubSeq(out, read + 1, read + n) = SubSeq(out, 1, read + n)
          BY <5>1
        <5> QED
          BY <3>2, <4>1, <5>1, <5>2
      <4> HIDE DEF out
      <4> QED
        BY <3>2, <4>1, <4>2 DEF Collecting, out
    <3>4. ASSUME P!EndOfFile PROVE Collecting'
      <4>1. /\ read = Len(out) /\ ended' = TRUE /\ P!SetCGIResponse(output)
            /\ read' = read /\ output' = output
        BY <3>4 DEF P!EndOfFile
      <4>2. output = out
        BY <3>1, <3>2, <4>1
      <4>3. Promised'
        BY <4>1, <4>2, ReplyIsPromised
      <4> HIDE DEF out
      <4> QED
        BY <3>2, <4>1, <4>3 DEF Collecting, out
    <3>5. ASSUME UNCHANGED P!vars PROVE Collecting'
      BY <1>2, <3>5, <2>2 DEF Collecting, Promised, P!vars
    <3> QED
      BY <2>2, <3>3, <3>4, <3>5 DEF P!Next
  <2>3. CASE NotTokenizer \/ NotConfig \/ NotUri \/ NotResponse \/ NotForm
    BY <2>1, <2>3 DEF NotTokenizer, NotConfig, NotUri, NotResponse, NotForm
  <2> QED
    BY <1>2, <2>1, <2>2, <2>3 DEF PartsNext, partsVars
<1> QED
  BY <1>1, <1>2, PTL DEF PartsSpec

\* However many headers a script prints, whatever bytes follow them and
\* wherever its output is cut into reads: if it prints by the rules, the reply
\* has its code, its headers, and its body to the byte (Response.cpp:119-172).
THEOREM RepliesAreAsPrinted == PartsSpec => [](P!ByTheRules(print) => ReplyAsPrinted)
<1>1. Collecting => (P!ByTheRules(print) => ReplyAsPrinted)
  BY DEF Collecting, Promised, ReplyAsPrinted, P!ReplyAsPrinted, P!HeadAsPrinted, P!BodyAsPrinted
<1> QED
  BY <1>1, CollectingAlways, PTL

-----------------------------------------------------------------------------
(* What _tokenize is given.                                                *)

LEMMA SameFirst ==
    ASSUME NEW s, NEW c, NEW k PROVE T!FirstFrom(s, c, k) = U!FirstFrom(s, c, k)
  BY Zenon DEF T!FirstFrom, U!FirstFrom

\* f is what parse() makes of s from each position on.
Reads(f, s) ==
    f = [k \in 1..(Len(s) + 2) |->
            IF k > Len(s) THEN <<>>
            ELSE LET end == T!FirstFrom(s, "\n", k)
                 IN  Append(T!Uncommented(SubSeq(s, k, end - 1)), "\n") \o f[end + 1]]

\* What it makes of the line that begins at k.
LineAt(s, k) == Append(T!Uncommented(SubSeq(s, k, T!FirstFrom(s, "\n", k) - 1)), "\n")

\* It ends at e, and its comment begins at h, or it has none.
IsLine(s, k, e, h) ==
    /\ e \in k..(Len(s) + 1) /\ (e <= Len(s) => s[e] = "\n")
    /\ \A j \in k..(e - 1) : s[j] # "\n"
    /\ h \in k..e /\ (h < e => s[h] = "#")
    /\ \A j \in k..(h - 1) : s[j] # "#"

LEMMA LineIs ==
    ASSUME NEW B, "\n" \in B, NEW s \in Seq(B), NEW k \in 1..Len(s)
    PROVE  \E h : /\ IsLine(s, k, T!FirstFrom(s, "\n", k), h)
                  /\ LineAt(s, k) \in Seq(B) /\ Len(LineAt(s, k)) = h - k + 1
                  /\ \A j \in 1..(h - k) : LineAt(s, k)[j] = s[k + j - 1]
                  /\ LineAt(s, k)[h - k + 1] = "\n"
<1> DEFINE e == T!FirstFrom(s, "\n", k)
           q == SubSeq(s, k, e - 1)
           g == T!FirstFrom(q, "#", 1)
           h == k + g - 1
           r == SubSeq(q, 1, g - 1)
           d == Append(r, "\n")
<1>1. /\ e \in k..(Len(s) + 1) /\ (e <= Len(s) => s[e] = "\n")
      /\ \A j \in k..(e - 1) : s[j] # "\n"
  <2>1. IsFirst(s, "\n", k, e)
    <3>1. k \in 1..(Len(s) + 1)
      OBVIOUS
    <3> QED
      BY <3>1, FirstFromIs, SameFirst
  <2> HIDE DEF e
  <2> QED
    BY <2>1 DEF IsFirst
<1>2. q \in Seq(B) /\ Len(q) = e - k /\ \A j \in 1..(e - k) : q[j] = s[k + j - 1]
  <2> HIDE DEF e
  <2> QED
    BY <1>1
<1>3. /\ g \in 1..(Len(q) + 1) /\ (g <= Len(q) => q[g] = "#")
      /\ \A j \in 1..(g - 1) : q[j] # "#"
  <2> HIDE DEF e, q
  <2>1. IsFirst(q, "#", 1, g)
    <3>1. 1 \in 1..(Len(q) + 1)
      BY <1>2
    <3> DEFINE one == 1
    <3> HIDE DEF one
    <3>2. T!FirstFrom(q, "#", one) = U!FirstFrom(q, "#", one) /\ IsFirst(q, "#", one, U!FirstFrom(q, "#", one))
      BY <1>2, <3>1, FirstFromIs, SameFirst DEF one
    <3> QED
      BY <3>2 DEF one
  <2> HIDE DEF g
  <2> QED
    BY <2>1 DEF IsFirst
<1> HIDE DEF e, q, g
<1>4. r \in Seq(B) /\ Len(r) = g - 1 /\ \A j \in 1..(g - 1) : r[j] = q[j]
  BY <1>1, <1>2, <1>3
<1>5. LineAt(s, k) = d
  BY DEF LineAt, T!Uncommented, e, q, g
<1>6. h \in k..e /\ h - k = g - 1 /\ h - k + 1 = g
  BY <1>1, <1>2, <1>3
<1>7. h < e => s[h] = "#"
  <2> SUFFICES ASSUME h < e PROVE s[h] = "#"
    OBVIOUS
  <2>1. g \in 1..(e - k) /\ k + g - 1 = h
    BY <1>1, <1>2, <1>3
  <2> QED
    BY <1>2, <1>3, <2>1
<1>8. \A j \in k..(h - 1) : s[j] # "#"
  <2> SUFFICES ASSUME NEW j \in k..(h - 1) PROVE s[j] # "#"
    OBVIOUS
  <2> DEFINE l == j - k + 1
  <2>1. l \in 1..(g - 1) /\ l \in 1..(e - k) /\ k + l - 1 = j
    BY <1>1, <1>2, <1>3
  <2> HIDE DEF l
  <2> QED
    BY <1>2, <1>3, <2>1
<1>9. d \in Seq(B) /\ Len(d) = g /\ (\A j \in 1..(g - 1) : d[j] = r[j]) /\ d[g] = "\n"
  <2> HIDE DEF r
  <2> QED
    BY <1>3, <1>4
<1> HIDE DEF r, d, h
<1>10. \A j \in 1..(h - k) : d[j] = s[k + j - 1]
  <2> SUFFICES ASSUME NEW j \in 1..(h - k) PROVE d[j] = s[k + j - 1]
    OBVIOUS
  <2>1. j \in 1..(g - 1) /\ j \in 1..(e - k)
    BY <1>1, <1>2, <1>3, <1>6
  <2> QED
    BY <1>2, <1>4, <1>9, <2>1
<1>11. IsLine(s, k, e, h)
  BY <1>1, <1>6, <1>7, <1>8 DEF IsLine
<1> QED
  BY <1>5, <1>6, <1>9, <1>10, <1>11 DEF e

LEMMA ReadLoop ==
    ASSUME NEW B, "\n" \in B, NEW s \in Seq(B)
    PROVE  \E f : Reads(f, s) /\ T!Content(s) = f[1]
<1> DEFINE n == Len(s)
           D == 1..(n + 2)
           base == (n + 1)..(n + 2)
           b == [k \in base |-> <<>>]
           next == [k \in D \ base |-> T!FirstFrom(s, "\n", k) + 1]
           Y == Seq(B)
           G == [x \in (D \ base) \X Y |-> LineAt(s, x[1]) \o x[2]]
           rank == [k \in D |-> n + 2 - k]
<1>1. n \in Nat /\ n + 2 \in Nat /\ base \in SUBSET D /\ D \ base = 1..n
  OBVIOUS
<1>2. b \in [base -> Y]
  OBVIOUS
<1>3. \A k \in 1..n : LineAt(s, k) \in Seq(B) /\ T!FirstFrom(s, "\n", k) + 1 \in (k + 1)..(n + 2)
  <2> SUFFICES ASSUME NEW k \in 1..n
               PROVE  LineAt(s, k) \in Seq(B) /\ T!FirstFrom(s, "\n", k) + 1 \in (k + 1)..(n + 2)
    OBVIOUS
  <2> DEFINE e == T!FirstFrom(s, "\n", k)
  <2>1. LineAt(s, k) \in Seq(B) /\ \E h : IsLine(s, k, e, h)
    BY LineIs
  <2> HIDE DEF e
  <2>2. e \in k..(n + 1)
    BY <2>1 DEF IsLine
  <2>3. e + 1 \in (k + 1)..(n + 2)
    BY <1>1, <2>2
  <2> QED
    BY <2>1, <2>3 DEF e
<1>4. next \in [D \ base -> D] /\ rank \in [D -> 0..(n + 2)]
      /\ \A k \in D \ base : rank[next[k]] < rank[k]
  BY <1>1, <1>3
<1>5. G \in [(D \ base) \X Y -> Y]
  <2> SUFFICES ASSUME NEW x \in (D \ base) \X Y PROVE LineAt(s, x[1]) \o x[2] \in Y
    OBVIOUS
  <2>1. LineAt(s, x[1]) \in Seq(B) /\ x[2] \in Seq(B)
    BY <1>1, <1>3
  <2> QED
    BY <2>1
<1>6. \E f \in [D -> Y] : IsRecursion(f, D, base, b, next, G)
  <2> HIDE DEF n, D, base, b, next, Y, G, rank
  <2> QED
    BY <1>1, <1>2, <1>4, <1>5, RecursionExists
<1>7. PICK f \in [D -> Y] : IsRecursion(f, D, base, b, next, G)
  BY <1>6
<1>8. Reads(f, s)
  <2>1. ASSUME NEW k \in D
        PROVE  f[k] = IF k > n THEN <<>> ELSE LineAt(s, k) \o f[T!FirstFrom(s, "\n", k) + 1]
    <3>1. f[k] = IF k \in base THEN b[k] ELSE G[<<k, f[next[k]]>>]
      <4> HIDE DEF D, base, b, next, G
      <4> QED
        BY <1>7 DEF IsRecursion
    <3>2. CASE k > n
      BY <1>1, <3>1, <3>2
    <3>3. CASE ~(k > n)
      <4>1. k \in D \ base /\ k \in 1..n
        BY <1>1, <3>3
      <4>2. next[k] = T!FirstFrom(s, "\n", k) + 1 /\ next[k] \in D
        BY <1>4, <4>1
      <4>3. f[next[k]] \in Y
        BY <1>7, <4>2
      <4>4. G[<<k, f[next[k]]>>] = LineAt(s, k) \o f[next[k]]
        <5> HIDE DEF D, base, next, Y
        <5> QED
          BY <4>1, <4>3
      <4> QED
        BY <3>1, <3>3, <4>1, <4>2, <4>4
    <3> QED
      BY <3>2, <3>3
  <2>2. f = [k \in D |-> f[k]]
    BY <1>7
  <2>3. f = [k \in D |-> IF k > n THEN <<>>
                         ELSE LineAt(s, k) \o f[T!FirstFrom(s, "\n", k) + 1]]
    BY <2>1, <2>2
  <2> QED
    BY <2>3 DEF Reads, LineAt
<1>9. T!Content(s) = (CHOOSE g : Reads(g, s))[1]
  BY DEF T!Content, Reads
<1> QED
  BY <1>8, <1>9

\* The position l of s is in a comment.
Hidden(s, l) == \E j \in 1..l : s[j] = "#" /\ \A x \in j..l : s[x] # "\n"

\* d has what is not in a comment from the position k of s on, each at the
\* place that m gives, and a line feed at its end.
Kept(s, k, d, m) ==
    /\ \A n \in 1..Len(d) : /\ m[n] \in k..(Len(s) + 1)
                            /\ d[n] = IF m[n] <= Len(s) THEN s[m[n]] ELSE "\n"
    /\ \A j, n \in 1..Len(d) : j < n => m[j] < m[n]
    /\ \A l \in k..Len(s) : (\E n \in 1..Len(d) : m[n] = l) <=> ~Hidden(s, l)
    /\ Len(d) # 0 => d[Len(d)] = "\n"

LEMMA LinesFeedKept ==
    ASSUME NEW B, NEW s \in Seq(B), NEW k \in 1..Len(s), k = 1 \/ s[k - 1] = "\n",
           NEW e, NEW h, IsLine(s, k, e, h),
           NEW line \in Seq(B), Len(line) = h - k + 1,
           \A j \in 1..(h - k) : line[j] = s[k + j - 1], line[h - k + 1] = "\n",
           NEW d \in Seq(B), NEW m, Kept(s, e + 1, d, m)
    PROVE  \E w : Kept(s, k, line \o d, w)
<1> DEFINE a == h - k + 1
           t == line \o d
           w == [n \in 1..(a + Len(d)) |-> IF n < a THEN k + n - 1 ELSE IF n = a THEN e ELSE m[n - a]]
<1>1. /\ e \in k..(Len(s) + 1) /\ (e <= Len(s) => s[e] = "\n")
      /\ \A j \in k..(e - 1) : s[j] # "\n"
      /\ h \in k..e /\ (h < e => s[h] = "#")
      /\ \A j \in k..(h - 1) : s[j] # "#"
  BY DEF IsLine
<1>2. Len(s) \in Nat /\ Len(d) \in Nat /\ a \in Nat \ {0} /\ Len(line) = a
      /\ a = h - k + 1 /\ e \in Nat /\ h \in Nat /\ k \in Nat \ {0}
  BY <1>1
<1>3. /\ \A n \in 1..Len(d) : /\ m[n] \in (e + 1)..(Len(s) + 1)
                              /\ d[n] = IF m[n] <= Len(s) THEN s[m[n]] ELSE "\n"
      /\ \A j, n \in 1..Len(d) : j < n => m[j] < m[n]
      /\ \A l \in (e + 1)..Len(s) : (\E n \in 1..Len(d) : m[n] = l) <=> ~Hidden(s, l)
      /\ Len(d) # 0 => d[Len(d)] = "\n"
  BY DEF Kept
<1>4. /\ t \in Seq(B) /\ Len(t) = a + Len(d)
      /\ \A n \in 1..(a + Len(d)) : t[n] = IF n <= a THEN line[n] ELSE d[n - a]
  <2>1. line \in Seq(B) /\ d \in Seq(B)
    OBVIOUS
  <2>2. /\ line \o d \in Seq(B) /\ Len(line \o d) = Len(line) + Len(d)
        /\ \A n \in 1..(Len(line) + Len(d)) :
              (line \o d)[n] = IF n <= Len(line) THEN line[n] ELSE d[n - Len(line)]
    BY <2>1, ConcatProperties, Zenon
  <2> HIDE DEF a
  <2> QED
    BY <1>2, <2>2
<1>5. \A n \in 1..(a + Len(d)) : w[n] = IF n < a THEN k + n - 1 ELSE IF n = a THEN e ELSE m[n - a]
  OBVIOUS
<1> HIDE DEF a, t, w
<1>6. ASSUME NEW n \in 1..(a + Len(d))
      PROVE  /\ n < a => w[n] \in k..(h - 1) /\ w[n] = k + n - 1
             /\ n = a => w[n] = e
             /\ n > a => n - a \in 1..Len(d) /\ w[n] = m[n - a] /\ w[n] \in (e + 1)..(Len(s) + 1)
  <2>1. CASE n < a
    <3>1. w[n] = k + n - 1 /\ n \in Nat \ {0}
      BY <1>5, <2>1
    <3> QED
      BY <1>2, <2>1, <3>1
  <2>2. CASE n = a
    BY <1>2, <1>5, <2>2
  <2>3. CASE n > a
    <3>1. n - a \in 1..Len(d) /\ w[n] = m[n - a]
      BY <1>2, <1>5, <2>3
    <3> QED
      BY <1>2, <1>3, <2>3, <3>1
  <2> QED
    BY <1>2, <2>1, <2>2, <2>3
<1>7. ASSUME NEW n \in 1..(a + Len(d))
      PROVE  w[n] \in k..(Len(s) + 1) /\ t[n] = IF w[n] <= Len(s) THEN s[w[n]] ELSE "\n"
  <2>1. CASE n < a
    <3> DEFINE x == w[n]
    <3>1. n \in 1..(h - k) /\ n <= a /\ x \in k..(h - 1) /\ x = k + n - 1
      BY <1>2, <1>6, <2>1
    <3>2. t[n] = s[x]
      BY <1>4, <3>1
    <3> HIDE DEF x
    <3>3. x \in k..(Len(s) + 1) /\ x <= Len(s)
      BY <1>1, <1>2, <3>1
    <3> QED
      BY <3>2, <3>3 DEF x
  <2>2. CASE n = a
    <3>1. w[n] = e /\ t[n] = "\n"
      BY <1>2, <1>4, <1>6, <2>2
    <3> QED
      BY <1>1, <1>2, <3>1
  <2>3. CASE n > a
    <3> DEFINE x == w[n]
               y == n - a
    <3>1. y \in 1..Len(d) /\ x = m[y] /\ x \in (e + 1)..(Len(s) + 1) /\ ~(n <= a)
      BY <1>2, <1>6, <2>3
    <3>2. t[n] = d[y]
      BY <1>4, <3>1
    <3> HIDE DEF x, y
    <3>3. d[y] = IF x <= Len(s) THEN s[x] ELSE "\n"
      BY <1>3, <3>1
    <3>4. x \in k..(Len(s) + 1)
      BY <1>1, <1>2, <3>1
    <3> QED
      BY <3>2, <3>3, <3>4 DEF x
  <2> QED
    BY <1>2, <2>1, <2>2, <2>3
<1>8. ASSUME NEW j \in 1..(a + Len(d)), NEW n \in 1..(a + Len(d)), j < n PROVE w[j] < w[n]
  <2> DEFINE x == w[j]
             y == w[n]
  <2>1. /\ j < a => x \in k..(h - 1) /\ x = k + j - 1
        /\ j = a => x = e
        /\ j > a => j - a \in 1..Len(d) /\ x = m[j - a] /\ x \in (e + 1)..(Len(s) + 1)
    BY <1>6
  <2>2. /\ n < a => y \in k..(h - 1) /\ y = k + n - 1
        /\ n = a => y = e
        /\ n > a => n - a \in 1..Len(d) /\ y = m[n - a] /\ y \in (e + 1)..(Len(s) + 1)
    BY <1>6
  <2>3. ASSUME j > a PROVE m[j - a] < m[n - a]
    <3>1. n > a /\ j - a < n - a
      BY <1>2, <1>8, <2>3
    <3> QED
      BY <1>3, <2>1, <2>2, <2>3, <3>1
  <2> HIDE DEF x, y
  <2>4. CASE j > a
    <3>1. n > a
      BY <1>2, <1>8, <2>4
    <3> QED
      BY <2>1, <2>2, <2>3, <2>4, <3>1 DEF x, y
  <2>5. CASE j <= a
    <3>1. x < y
      BY <1>1, <1>2, <1>8, <2>1, <2>2, <2>5
    <3> QED
      BY <3>1 DEF x, y
  <2> QED
    BY <1>2, <2>4, <2>5
<1>9. ASSUME NEW l \in k..Len(s) PROVE (\E n \in 1..(a + Len(d)) : w[n] = l) <=> ~Hidden(s, l)
  <2>1. CASE l < h
    <3> DEFINE n == l - k + 1
    <3>1. n \in 1..(a + Len(d)) /\ n < a /\ k + n - 1 = l
      BY <1>2, <1>9, <2>1
    <3>2. w[n] = l
      BY <1>6, <3>1
    <3>3. ASSUME NEW j \in 1..l, s[j] = "#", \A x \in j..l : s[x] # "\n" PROVE FALSE
      <4>1. ~(j < k)
        <5> SUFFICES ASSUME j < k PROVE FALSE
          OBVIOUS
        <5>1. k # 1 /\ k - 1 \in j..l
          BY <1>2, <1>9, <3>3
        <5> QED
          BY <3>3, <5>1
      <4>2. j \in k..(h - 1)
        BY <1>2, <1>9, <2>1, <3>3, <4>1
      <4> QED
        BY <1>1, <3>3, <4>2
    <3>4. ~Hidden(s, l)
      BY <3>3 DEF Hidden
    <3> HIDE DEF n
    <3> QED
      BY <3>1, <3>2, <3>4
  <2>2. CASE h <= l /\ l < e
    <3>1. h \in 1..l /\ s[h] = "#"
      BY <1>1, <1>2, <1>9, <2>2
    <3>2. \A x \in h..l : x \in k..(e - 1)
      BY <1>1, <1>2, <1>9, <2>2
    <3>3. Hidden(s, l)
      BY <1>1, <3>1, <3>2 DEF Hidden
    <3>4. ASSUME NEW n \in 1..(a + Len(d)) PROVE w[n] # l
      <4> DEFINE x == w[n]
      <4>1. /\ n < a => x \in k..(h - 1)
            /\ n = a => x = e
            /\ n > a => x \in (e + 1)..(Len(s) + 1)
        BY <1>6
      <4> HIDE DEF x
      <4>2. x # l
        BY <1>1, <1>2, <2>2, <4>1
      <4> QED
        BY <4>2 DEF x
    <3> QED
      BY <3>3, <3>4
  <2>3. CASE l = e
    <3>1. a \in 1..(a + Len(d)) /\ w[a] = e
      BY <1>2, <1>6
    <3>2. s[l] = "\n" /\ l \in Nat
      BY <1>1, <1>2, <1>9, <2>3
    <3>3. ~Hidden(s, l)
      <4>1. \A j \in 1..l : l \in j..l
        BY <3>2
      <4> QED
        BY <3>2, <4>1 DEF Hidden
    <3> QED
      BY <2>3, <3>1, <3>3
  <2>4. CASE l > e
    <3>1. l \in (e + 1)..Len(s)
      BY <1>2, <1>9, <2>4
    <3>2. (\E n \in 1..Len(d) : m[n] = l) <=> ~Hidden(s, l)
      BY <1>3, <3>1
    <3>3. ASSUME NEW n \in 1..Len(d), m[n] = l PROVE \E x \in 1..(a + Len(d)) : w[x] = l
      <4> DEFINE x == a + n
      <4>1. x \in 1..(a + Len(d)) /\ x > a /\ x - a = n
        BY <1>2
      <4> HIDE DEF x
      <4>2. w[x] = m[n]
        BY <1>6, <4>1
      <4> QED
        BY <3>3, <4>1, <4>2
    <3>4. ASSUME NEW n \in 1..(a + Len(d)), w[n] = l PROVE \E x \in 1..Len(d) : m[x] = l
      <4> DEFINE x == w[n]
      <4>1. /\ n < a => x \in k..(h - 1)
            /\ n = a => x = e
            /\ n > a => n - a \in 1..Len(d) /\ x = m[n - a]
        BY <1>6
      <4> HIDE DEF x
      <4>2. n > a
        BY <1>1, <1>2, <2>4, <3>4, <4>1 DEF x
      <4> QED
        BY <3>4, <4>1, <4>2 DEF x
    <3> QED
      BY <3>2, <3>3, <3>4
  <2> QED
    BY <1>1, <1>2, <1>9, <2>1, <2>2, <2>3, <2>4
<1>10. t[a + Len(d)] = "\n"
  <2>1. CASE Len(d) = 0
    BY <1>2, <1>4, <2>1
  <2>2. CASE Len(d) # 0
    <3> DEFINE n == a + Len(d)
    <3>1. n \in 1..(a + Len(d)) /\ ~(n <= a) /\ n - a = Len(d)
      BY <1>2, <2>2
    <3>2. t[n] = d[n - a]
      BY <1>4, <3>1
    <3> QED
      BY <1>3, <2>2, <3>1, <3>2
  <2> QED
    BY <2>1, <2>2
<1>11. Kept(s, k, t, w)
  BY <1>4, <1>7, <1>8, <1>9, <1>10 DEF Kept
<1> QED
  BY <1>11 DEF t

LEMMA ContentKept ==
    ASSUME NEW B, "\n" \in B, NEW s \in Seq(B)
    PROVE  T!Content(s) \in Seq(B) /\ \E m : Kept(s, 1, T!Content(s), m)
<1> DEFINE n == Len(s)
           D == 1..(n + 2)
           rank == [k \in D |-> n + 2 - k]
<1>1. PICK f : Reads(f, s) /\ T!Content(s) = f[1]
  BY ReadLoop
<1> DEFINE Begun(k) == k = 1 \/ k > n \/ s[k - 1] = "\n"
           S == {k \in D : f[k] \in Seq(B) /\ (Begun(k) => \E m : Kept(s, k, f[k], m))}
<1>2. n \in Nat /\ n + 2 \in Nat /\ rank \in [D -> 0..(n + 2)] /\ 1 \in D
  OBVIOUS
<1>3. ASSUME NEW k \in D, \A j \in D : rank[j] < rank[k] => j \in S
      PROVE  k \in S
  <2>1. f[k] = IF k > n THEN <<>>
               ELSE LineAt(s, k) \o f[T!FirstFrom(s, "\n", k) + 1]
    BY <1>1 DEF Reads, LineAt
  <2>2. CASE k > n
    <3> DEFINE none == <<>>
               m == <<>>
    <3>1. none \in Seq(B) /\ Len(none) = 0
      OBVIOUS
    <3>2. f[k] = none
      BY <2>1, <2>2
    <3> HIDE DEF none, m
    <3>3. Kept(s, k, none, m)
      <4>1. \A l \in k..Len(s) : FALSE
        BY <1>2, <2>2
      <4> QED
        BY <3>1, <4>1 DEF Kept
    <3>4. \E v : Kept(s, k, f[k], v)
      BY <3>2, <3>3
    <3> QED
      BY <3>1, <3>2, <3>4
  <2>3. CASE ~(k > n)
    <3> DEFINE e == T!FirstFrom(s, "\n", k)
               line == LineAt(s, k)
               d == f[e + 1]
    <3>1. k \in 1..n
      BY <1>2, <2>3
    <3>2. PICK h : /\ IsLine(s, k, e, h) /\ line \in Seq(B) /\ Len(line) = h - k + 1
                   /\ \A j \in 1..(h - k) : line[j] = s[k + j - 1]
                   /\ line[h - k + 1] = "\n"
      BY <3>1, LineIs
    <3> HIDE DEF e, line
    <3>3. e \in k..(n + 1) /\ (e <= n => s[e] = "\n")
      BY <3>2 DEF IsLine
    <3>4. e + 1 \in S
      <4>1. e + 1 \in D /\ rank[e + 1] < rank[k]
        BY <1>2, <3>1, <3>3
      <4> QED
        BY <1>3, <4>1
    <3>5. Begun(e + 1)
      <4>1. CASE e <= n
        <5>1. (e + 1) - 1 = e
          BY <1>2, <3>3
        <5> QED
          BY <3>3, <4>1, <5>1
      <4>2. CASE ~(e <= n)
        BY <1>2, <3>3, <4>2
      <4> QED
        BY <4>1, <4>2
    <3>6. d \in Seq(B) /\ \E m : Kept(s, e + 1, d, m)
      <4> HIDE DEF Begun, D
      <4> QED
        BY <3>4, <3>5
    <3>7. f[k] = line \o d
      BY <2>1, <2>3 DEF e, line
    <3> HIDE DEF d
    <3>8. f[k] \in Seq(B)
      BY <3>2, <3>6, <3>7
    <3>9. ASSUME Begun(k) PROVE \E m : Kept(s, k, f[k], m)
      <4>1. PICK m : Kept(s, e + 1, d, m)
        BY <3>6
      <4>2. k = 1 \/ s[k - 1] = "\n"
        BY <3>1, <3>9, <1>2
      <4>3. \E w : Kept(s, k, line \o d, w)
        BY <3>1, <3>2, <3>6, <4>1, <4>2, LinesFeedKept
      <4> QED
        BY <3>7, <4>3
    <3> QED
      BY <3>8, <3>9
  <2> QED
    BY <2>2, <2>3
<1>4. D \subseteq S
  <2> HIDE DEF S, D, rank, n
  <2> QED
    BY <1>2, <1>3, RankInduction
<1>5. f[1] \in Seq(B) /\ (Begun(1) => \E m : Kept(s, 1, f[1], m))
  <2> HIDE DEF Begun, D
  <2> QED
    BY <1>2, <1>4
<1> QED
  BY <1>1, <1>5

-----------------------------------------------------------------------------
(* What _tokenize has done.                                                *)

\* The tokens that begin up to the position c of the file.
StartsTo(c) == {k \in T!Starts : k <= c}

\* ts are those.
ListedTo(ts, c) ==
    /\ Len(ts) = Cardinality(StartsTo(c))
    /\ \A k \in StartsTo(c) : ts[Cardinality(StartsTo(k))] = T!TokenAt(k)

LEMMA StartsCount ==
    ASSUME NEW B, text \in Seq(B), NEW c \in Nat
    PROVE  /\ Cardinality(StartsTo(c)) \in Nat
           /\ c # 0 => Cardinality(StartsTo(c)) = IF c \in T!Starts
                                                  THEN Cardinality(StartsTo(c - 1)) + 1
                                                  ELSE Cardinality(StartsTo(c - 1))
<1>1. \A k : k \in T!Starts => k \in Nat \ {0}
  BY DEF T!Starts
<1>2. StartsTo(c) \subseteq 1..c
  BY <1>1 DEF StartsTo
<1>3. Cardinality(StartsTo(c)) \in Nat
  <2>1. IsFiniteSet(1..c)
    BY FS_Interval
  <2>2. IsFiniteSet(StartsTo(c))
    BY <1>2, <2>1, FS_Subset
  <2> QED
    BY <2>2, FS_CardinalityType
<1>4. ASSUME c # 0
      PROVE  Cardinality(StartsTo(c)) = IF c \in T!Starts THEN Cardinality(StartsTo(c - 1)) + 1
                                        ELSE Cardinality(StartsTo(c - 1))
  <2>1. \A l : l \in StartsTo(c - 1) <=> l \in StartsTo(c) /\ l # c
    BY <1>1 DEF StartsTo
  <2>2. c \in StartsTo(c) <=> c \in T!Starts
    BY DEF StartsTo
  <2>3. c \in Nat \ {0}
    BY <1>4
  <2> DEFINE S == StartsTo(c - 1)
             N == StartsTo(c)
  <2> HIDE DEF S, N
  <2>4. U!Cardinality(N) = IF c \in N THEN U!Cardinality(S) + 1 ELSE U!Cardinality(S)
    BY <1>2, <2>1, <2>3, CountStep DEF S, N
  <2> QED
    BY <2>2, <2>4, SameCount DEF S, N
<1> QED
  BY <1>3, <1>4

LEMMA StartsRank ==
    ASSUME NEW B, text \in Seq(B), NEW c \in Nat, NEW k \in StartsTo(c)
    PROVE  Cardinality(StartsTo(k)) \in 1..Cardinality(StartsTo(c))
<1>1. \A l : l \in T!Starts => l \in Nat \ {0}
  BY DEF T!Starts
<1>2. k \in Nat \ {0} /\ k <= c /\ k \in T!Starts /\ k - 1 \in Nat
  BY <1>1 DEF StartsTo
<1>3. StartsTo(k) \subseteq StartsTo(c) /\ StartsTo(c) \subseteq 1..c
  BY <1>1, <1>2 DEF StartsTo
<1>4. Cardinality(StartsTo(k)) <= Cardinality(StartsTo(c))
  <2>1. IsFiniteSet(1..c)
    BY FS_Interval
  <2>2. IsFiniteSet(StartsTo(c))
    BY <1>3, <2>1, FS_Subset
  <2> QED
    BY <1>3, <2>2, FS_Subset
<1>5. /\ Cardinality(StartsTo(c)) \in Nat /\ Cardinality(StartsTo(k - 1)) \in Nat
      /\ Cardinality(StartsTo(k)) = Cardinality(StartsTo(k - 1)) + 1
  BY <1>2, StartsCount
<1> DEFINE x == Cardinality(StartsTo(k - 1))
           y == Cardinality(StartsTo(k))
           z == Cardinality(StartsTo(c))
<1> HIDE DEF x, y, z
<1>6. x \in Nat /\ y = x + 1 /\ z \in Nat /\ y <= z
  BY <1>4, <1>5 DEF x, y, z
<1>7. y \in 1..z
  BY <1>6
<1> QED
  BY <1>7 DEF y, z

\* None begins between.
LEMMA ListedFurther ==
    ASSUME NEW B, text \in Seq(B), NEW ts, NEW c \in Nat, NEW e \in Nat, c <= e, ListedTo(ts, c),
           \A k \in (c + 1)..e : k \notin T!Starts
    PROVE  ListedTo(ts, e)
<1>1. \A k : k \in T!Starts => k \in Int
  BY DEF T!Starts
<1>2. StartsTo(c) = StartsTo(e)
  BY <1>1 DEF StartsTo
<1> QED
  BY <1>2 DEF ListedTo

LEMMA ListedMore ==
    ASSUME NEW B, text \in Seq(B), NEW Y, NEW ts \in Seq(Y), NEW b \in T!Starts,
           ListedTo(ts, b - 1), T!TokenAt(b) \in Y
    PROVE  ListedTo(Append(ts, T!TokenAt(b)), b)
<1> DEFINE w == T!TokenAt(b)
           t == Append(ts, w)
           n == Len(ts)
<1>1. b \in Nat \ {0} /\ b - 1 \in Nat
  BY DEF T!Starts
<1>2. Cardinality(StartsTo(b)) = n + 1 /\ n = Cardinality(StartsTo(b - 1)) /\ n \in Nat
  BY <1>1, StartsCount DEF ListedTo
<1> HIDE DEF w
<1>3. Len(t) = n + 1 /\ t[n + 1] = w /\ \A x \in 1..n : t[x] = ts[x]
  BY DEF w
<1> HIDE DEF t, n
<1>4. ASSUME NEW k \in StartsTo(b) PROVE t[Cardinality(StartsTo(k))] = T!TokenAt(k)
  <2>1. CASE k = b
    BY <1>2, <1>3, <2>1 DEF w
  <2>2. CASE k # b
    <3>1. k \in StartsTo(b - 1)
      BY <1>1, <2>2 DEF StartsTo, T!Starts
    <3>2. Cardinality(StartsTo(k)) \in 1..n
      BY <1>1, <1>2, <3>1, StartsRank
    <3>3. ts[Cardinality(StartsTo(k))] = T!TokenAt(k)
      BY <3>1 DEF ListedTo
    <3> QED
      BY <1>3, <3>2, <3>3
  <2> QED
    BY <2>1, <2>2
<1>5. ListedTo(t, b)
  BY <1>2, <1>3, <1>4 DEF ListedTo
<1> QED
  BY <1>5 DEF t, w

\* Between b and c is a word, to its end.
LEMMA WordIs ==
    ASSUME NEW B, text \in Seq(B), NEW c \in Nat, NEW b \in 1..c,
           \A j \in b..c : T!InWord(j), ~T!InWord(c + 1)
    PROVE  T!TokenAt(b) = SubSeq(text, b, c)
<1>1. b \in b..c /\ c \in b..c /\ b \in Nat
  OBVIOUS
<1>2. T!InWord(b) /\ T!InWord(c)
  BY <1>1
<1>3. text[b] \notin T!Structural /\ c \in 1..Len(text) /\ Len(text) \in Nat
  BY <1>2 DEF T!InWord
<1> DEFINE S == {e \in b..Len(text) : \A j \in b..e : T!InWord(j)}
<1>4. c \in S
  BY <1>1, <1>3
<1>5. ASSUME NEW e \in S PROVE e <= c /\ e \in Nat
  <2> SUFFICES ASSUME c < e PROVE FALSE
    BY <1>1
  <2>1. c + 1 \in b..e
    BY <1>1
  <2> QED
    BY <2>1
<1> HIDE DEF S
<1>6. T!Max(S) = c
  <2>1. \A y \in S : c >= y
    BY <1>1, <1>5
  <2>2. ASSUME NEW x \in S, \A y \in S : x >= y PROVE x = c
    <3>1. x >= c /\ x <= c /\ x \in Nat
      BY <1>4, <1>5, <2>2
    <3> QED
      BY <1>1, <3>1
  <2>3. T!Max(S) = CHOOSE x \in S : \A y \in S : x >= y
    BY Zenon DEF T!Max
  <2> QED
    BY <1>4, <2>1, <2>2, <2>3, Zenon
<1>7. T!TokenAt(b) = SubSeq(text, b, T!Max(S))
  BY <1>3, Zenon DEF T!TokenAt, S
<1> QED
  BY <1>6, <1>7

\* With the file read to c, ts are the tokens and w the one that began at b and
\* goes on, or nothing.
Open(B, w, ts, b, c) ==
    /\ b \in 1..(c + 1)
    /\ \A j \in b..c : T!InWord(j)
    /\ b <= c => T!Begins(b)
    /\ b = c + 1 => ~T!InWord(c)
    /\ w \in Seq(B) /\ Len(w) = c - b + 1 /\ \A j \in 1..Len(w) : w[j] = text[b + j - 1]
    /\ ts \in Seq(Seq(B)) /\ ListedTo(ts, b - 1)

Push(w, ts) == IF w = <<>> THEN ts ELSE Append(ts, w)

LEMMA PushLists ==
    ASSUME NEW B, text \in Seq(B), NEW c \in Nat, NEW w, NEW ts, NEW b, Open(B, w, ts, b, c),
           ~T!InWord(c + 1)
    PROVE  Push(w, ts) \in Seq(Seq(B)) /\ ListedTo(Push(w, ts), c)
<1>1. /\ b \in 1..(c + 1) /\ \A j \in b..c : T!InWord(j)
      /\ b <= c => T!Begins(b)
      /\ w \in Seq(B) /\ Len(w) = c - b + 1 /\ \A j \in 1..Len(w) : w[j] = text[b + j - 1]
      /\ ts \in Seq(Seq(B)) /\ ListedTo(ts, b - 1)
  BY DEF Open
<1>2. CASE b = c + 1
  <2>1. w = <<>> /\ b - 1 = c
    BY <1>1, <1>2
  <2> QED
    BY <1>1, <2>1 DEF Push
<1>3. CASE b # c + 1
  <2>1. b \in 1..c /\ b \in b..c /\ b \in Nat
    BY <1>1, <1>3
  <2>2. T!TokenAt(b) = SubSeq(text, b, c)
    BY <1>1, <2>1, WordIs
  <2>3. b \in T!Starts /\ c \in 1..Len(text)
    <3>1. T!InWord(b) /\ T!InWord(c) /\ T!Begins(b)
      BY <1>1, <2>1
    <3> QED
      BY <3>1 DEF T!Starts, T!InWord
  <2>4. w = T!TokenAt(b)
    <3> DEFINE v == SubSeq(text, b, c)
    <3>1. v \in Seq(B) /\ Len(v) = c - b + 1 /\ \A j \in 1..Len(v) : v[j] = text[b + j - 1]
      BY <2>1, <2>3
    <3> HIDE DEF v
    <3>2. w = v
      BY <1>1, <3>1, SeqEqual
    <3> QED
      BY <2>2, <3>2 DEF v
  <2>5. w # <<>>
    BY <1>1, <2>1
  <2> DEFINE t == Append(ts, w)
  <2>6. t \in Seq(Seq(B)) /\ ListedTo(t, b)
    <3>1. t \in Seq(Seq(B))
      BY <1>1
    <3>2. ListedTo(Append(ts, T!TokenAt(b)), b)
      <4> DEFINE Y == Seq(B)
      <4>1. T!TokenAt(b) \in Y /\ ts \in Seq(Y)
        BY <1>1, <2>4
      <4> HIDE DEF Y
      <4> QED
        BY <1>1, <2>3, <4>1, ListedMore
    <3> QED
      BY <2>4, <3>1, <3>2
  <2>7. ASSUME NEW k \in (b + 1)..c PROVE k \notin T!Starts
    <3>1. k \in b..c /\ k - 1 \in b..c
      BY <2>1
    <3>2. T!InWord(k) /\ T!InWord(k - 1)
      BY <1>1, <3>1
    <3> QED
      BY <3>2 DEF T!Starts, T!Begins, T!InWord
  <2> HIDE DEF t
  <2>8. ListedTo(t, c)
    BY <2>1, <2>6, <2>7, ListedFurther
  <2> QED
    BY <2>5, <2>6, <2>8 DEF Push, t
<1> QED
  BY <1>2, <1>3

\* c comes at the position e of the file, or is the last line feed, and what is
\* between the position before it and e is in comments.
Gap(last, e, c) ==
    /\ last \in Nat /\ e \in (last + 1)..(Len(text) + 1)
    /\ \A k \in (last + 1)..(e - 1) : Hidden(text, k)
    /\ e <= Len(text) => text[e] = c /\ ~Hidden(text, e)
    /\ e > Len(text) => c = "\n"
    /\ c # "\n" => e = last + 1

LEMMA KeptGap ==
    ASSUME NEW B, text \in Seq(B), NEW d \in Seq(B), NEW m, Kept(text, 1, d, m), NEW n \in 1..Len(d)
    PROVE  Gap(IF n = 1 THEN 0 ELSE m[n - 1], m[n], d[n])
<1> DEFINE last == IF n = 1 THEN 0 ELSE m[n - 1]
           e == m[n]
           size == Len(text)
<1>1. /\ \A x \in 1..Len(d) : /\ m[x] \in 1..(size + 1)
                              /\ d[x] = IF m[x] <= size THEN text[m[x]] ELSE "\n"
      /\ \A j, x \in 1..Len(d) : j < x => m[j] < m[x]
      /\ \A l \in 1..size : (\E x \in 1..Len(d) : m[x] = l) <=> ~Hidden(text, l)
  BY DEF Kept
<1>2. size \in Nat /\ n \in Nat \ {0} /\ Len(d) \in Nat
      /\ (n # 1 => n - 1 \in 1..Len(d) /\ n - 1 < n)
  OBVIOUS
<1>3. last \in 0..(size + 1) /\ e \in 1..(size + 1) /\ last < e
  <2>1. CASE n = 1
    BY <1>1, <1>2, <2>1
  <2>2. CASE n # 1
    BY <1>1, <1>2, <2>2
  <2> QED
    BY <2>1, <2>2
<1>4. d[n] = (IF e <= size THEN text[e] ELSE "\n") /\ (e <= size => ~Hidden(text, e))
  BY <1>1
<1>5. ASSUME NEW k \in (last + 1)..(e - 1) PROVE Hidden(text, k)
  <2>1. ASSUME NEW x \in 1..Len(d) PROVE m[x] # k
    <3>1. CASE x >= n
      <4>1. m[x] >= m[n]
        <5>1. CASE x = n
          BY <1>1, <5>1
        <5>2. CASE x # n
          <6>1. n < x
            BY <3>1, <5>2
          <6>2. m[n] < m[x] /\ m[n] \in Int /\ m[x] \in Int
            BY <1>1, <6>1
          <6> QED
            BY <6>2
        <5> QED
          BY <5>1, <5>2
      <4> DEFINE y == m[x]
      <4>2. y \in Int /\ y >= e
        BY <1>1, <4>1
      <4> HIDE DEF y, e, last
      <4>3. y # k
        BY <1>3, <1>5, <4>2
      <4> QED
        BY <4>3 DEF y
    <3>2. CASE x < n
      <4>1. n # 1 /\ last = m[n - 1]
        BY <3>2
      <4>2. m[x] <= m[n - 1]
        <5>1. CASE x = n - 1
          BY <1>1, <5>1
        <5>2. CASE x # n - 1
          <6>1. x < n - 1
            BY <3>2, <5>2
          <6>2. m[x] < m[n - 1] /\ m[n - 1] \in Int /\ m[x] \in Int
            BY <1>1, <1>2, <4>1, <6>1
          <6> QED
            BY <6>2
        <5> QED
          BY <5>1, <5>2
      <4> DEFINE y == m[x]
      <4>3. y \in Int /\ y <= last
        BY <1>1, <4>1, <4>2
      <4> HIDE DEF y, e, last
      <4>4. y # k
        BY <1>3, <1>5, <4>3
      <4> QED
        BY <4>4 DEF y
    <3> QED
      BY <3>1, <3>2
  <2>2. k \in 1..size
    <3> HIDE DEF last, e, size
    <3> QED
      BY <1>2, <1>3, <1>5
  <2> QED
    BY <1>1, <2>1, <2>2
<1> HIDE DEF last, e, size
<1>6. ASSUME d[n] # "\n" PROVE e = last + 1
  <2> SUFFICES ASSUME e # last + 1 PROVE FALSE
    OBVIOUS
  <2>1. e <= size /\ text[e] # "\n" /\ ~Hidden(text, e)
    BY <1>2, <1>3, <1>4, <1>6
  <2>2. e - 1 \in (last + 1)..(e - 1) /\ e \in Nat
    BY <1>3
  <2>3. PICK j \in 1..(e - 1) : text[j] = "#" /\ \A x \in j..(e - 1) : text[x] # "\n"
    BY <1>5, <2>2 DEF Hidden
  <2>4. j \in 1..e /\ \A x \in j..e : x \in j..(e - 1) \/ x = e
    BY <2>2
  <2> QED
    BY <2>1, <2>3, <2>4 DEF Hidden
<1>7. Gap(last, e, d[n])
  <2>1. last \in Nat /\ e \in (last + 1)..(size + 1)
    BY <1>2, <1>3
  <2>2. e > size => d[n] = "\n"
    BY <1>2, <1>3, <1>4
  <2> QED
    BY <1>4, <1>5, <1>6, <2>1, <2>2 DEF Gap, size
<1> QED
  BY <1>7 DEF last, e

LEMMA Characters ==
    /\ "\n" \in T!White /\ "\n" \notin T!Structural
    /\ \A c : ~(c \in T!White /\ c \in T!Structural)
  BY DEF T!White, T!Structural

LEMMA CommentIs ==
    \A k : T!InComment(k) <=> Hidden(text, k)
  BY DEF T!InComment, Hidden

\* No token begins in a comment, and none goes on.
LEMMA NoneInGap ==
    ASSUME NEW last, NEW e, NEW c, Gap(last, e, c)
    PROVE  \A k \in (last + 1)..(e - 1) : k \notin T!Starts /\ ~T!InWord(k)
  BY CommentIs DEF Gap, T!Starts, T!Begins, T!InWord

\* A word ends where there is a structural or a blank character next.
LEMMA WordEnds ==
    ASSUME NEW B, text \in Seq(B), NEW last, NEW e, NEW c, Gap(last, e, c),
           c \in T!Structural \/ c \in T!White
    PROVE  ~T!InWord(e) /\ ~T!InWord(last + 1)
<1>1. /\ last \in Nat /\ e \in (last + 1)..(Len(text) + 1)
      /\ e <= Len(text) => text[e] = c
  BY DEF Gap
<1>2. ~T!InWord(e)
  BY <1>1 DEF T!InWord
<1>3. last + 1 = e \/ last + 1 \in (last + 1)..(e - 1)
  BY <1>1
<1> QED
  BY <1>2, <1>3, NoneInGap

LEMMA StructuralCuts ==
    ASSUME NEW B, text \in Seq(B), NEW last, NEW e, NEW c \in B, Gap(last, e, c),
           c \in T!Structural, NEW w, NEW ts, NEW b, Open(B, w, ts, b, last)
    PROVE  Open(B, <<>>, Append(Push(w, ts), <<c>>), e + 1, e)
<1> DEFINE us == Push(w, ts)
           vs == Append(us, <<c>>)
<1>1. /\ last \in Nat /\ e \in (last + 1)..(Len(text) + 1) /\ Len(text) \in Nat
      /\ e <= Len(text) => text[e] = c /\ ~Hidden(text, e)
      /\ e > Len(text) => c = "\n"
  BY DEF Gap
<1>2. e \in 1..Len(text) /\ text[e] = c /\ e \in Nat \ {0} /\ last <= e - 1 /\ e - 1 \in Nat
  BY <1>1, Characters
<1>3. ~T!InWord(e) /\ ~T!InWord(last + 1)
  BY WordEnds
<1>4. us \in Seq(Seq(B)) /\ ListedTo(us, last)
  BY <1>1, <1>3, PushLists
<1> HIDE DEF us
<1>5. e \in T!Starts /\ T!TokenAt(e) = <<c>>
  BY <1>1, <1>2, CommentIs DEF T!Starts, T!Begins, T!TokenAt
<1>6. ListedTo(us, e - 1)
  <2>1. \A k \in (last + 1)..(e - 1) : k \notin T!Starts
    BY NoneInGap
  <2> QED
    BY <1>1, <1>2, <1>4, <2>1, ListedFurther
<1>7. vs \in Seq(Seq(B)) /\ ListedTo(vs, e)
  <2> DEFINE Y == Seq(B)
  <2>1. <<c>> \in Y
    OBVIOUS
  <2>2. us \in Seq(Y)
    BY <1>4
  <2> HIDE DEF Y
  <2>3. ListedTo(Append(us, T!TokenAt(e)), e)
    BY <1>5, <1>6, <2>1, <2>2, ListedMore
  <2>4. vs \in Seq(Y)
    BY <2>1, <2>2
  <2> QED
    BY <1>5, <2>3, <2>4 DEF Y
<1> DEFINE none == <<>>
<1>8. none \in Seq(B) /\ Len(none) = 0
  OBVIOUS
<1> HIDE DEF vs, none
<1>9. Open(B, none, vs, e + 1, e)
  <2>1. /\ e + 1 \in 1..(e + 1) /\ (e + 1) - 1 = e /\ ~(e + 1 <= e) /\ Len(none) = e - (e + 1) + 1
        /\ \A j \in (e + 1)..e : FALSE
        /\ \A j \in 1..0 : FALSE
    BY <1>2, <1>8
  <2> QED
    BY <1>3, <1>7, <1>8, <2>1 DEF Open
<1> QED
  BY <1>9 DEF vs, us, none

LEMMA WhiteCuts ==
    ASSUME NEW B, text \in Seq(B), NEW last, NEW e, NEW c \in B, Gap(last, e, c),
           c \in T!White, NEW w, NEW ts, NEW b, Open(B, w, ts, b, last)
    PROVE  Open(B, <<>>, Push(w, ts), e + 1, e)
<1> DEFINE us == Push(w, ts)
<1>1. /\ last \in Nat /\ e \in (last + 1)..(Len(text) + 1) /\ Len(text) \in Nat
      /\ e <= Len(text) => text[e] = c /\ ~Hidden(text, e)
  BY DEF Gap
<1>2. e \in Nat \ {0} /\ last <= e
  BY <1>1
<1>3. ~T!InWord(e) /\ ~T!InWord(last + 1)
  BY WordEnds
<1>4. us \in Seq(Seq(B)) /\ ListedTo(us, last)
  BY <1>1, <1>3, PushLists
<1> HIDE DEF us
<1>5. e \notin T!Starts
  <2>1. CASE e <= Len(text)
    BY <1>1, <1>3, <2>1, Characters DEF T!Starts, T!Begins
  <2>2. CASE ~(e <= Len(text))
    BY <1>1, <2>2 DEF T!Starts
  <2> QED
    BY <2>1, <2>2
<1>6. ListedTo(us, e)
  <2>1. \A k \in (last + 1)..e : k \in (last + 1)..(e - 1) \/ k = e
    BY <1>1
  <2>2. \A k \in (last + 1)..e : k \notin T!Starts
    BY <1>5, <2>1, NoneInGap
  <2> QED
    BY <1>1, <1>2, <1>4, <2>2, ListedFurther
<1> DEFINE none == <<>>
<1>7. none \in Seq(B) /\ Len(none) = 0
  OBVIOUS
<1> HIDE DEF none
<1>8. Open(B, none, us, e + 1, e)
  <2>1. /\ e + 1 \in 1..(e + 1) /\ (e + 1) - 1 = e /\ ~(e + 1 <= e) /\ Len(none) = e - (e + 1) + 1
        /\ \A j \in (e + 1)..e : FALSE
        /\ \A j \in 1..0 : FALSE
    BY <1>2, <1>7
  <2> QED
    BY <1>3, <1>4, <1>6, <1>7, <2>1 DEF Open
<1> QED
  BY <1>8 DEF us, none

LEMMA OtherGoesOn ==
    ASSUME NEW B, text \in Seq(B), NEW last, NEW e, NEW c \in B, Gap(last, e, c),
           c \notin T!Structural, c \notin T!White, NEW w, NEW ts, NEW b, Open(B, w, ts, b, last)
    PROVE  Open(B, Append(w, c), ts, b, e)
<1> DEFINE v == Append(w, c)
<1>1. /\ last \in Nat /\ Len(text) \in Nat /\ e = last + 1 /\ e \in 1..Len(text)
      /\ text[e] = c /\ ~Hidden(text, e)
  BY Characters DEF Gap
<1>2. /\ b \in 1..(last + 1) /\ \A j \in b..last : T!InWord(j)
      /\ b <= last => T!Begins(b)
      /\ b = last + 1 => ~T!InWord(last)
      /\ w \in Seq(B) /\ Len(w) = last - b + 1 /\ \A j \in 1..Len(w) : w[j] = text[b + j - 1]
      /\ ts \in Seq(Seq(B)) /\ ListedTo(ts, b - 1)
  BY DEF Open
<1>3. T!InWord(e)
  BY <1>1, <1>2, CommentIs DEF T!InWord
<1>4. \A j \in b..e : T!InWord(j)
  <2>1. \A j \in b..e : j \in b..last \/ j = e
    BY <1>1, <1>2
  <2> QED
    BY <1>2, <1>3, <2>1
<1>5. T!Begins(b)
  <2>1. CASE b <= last
    BY <1>2, <2>1
  <2>2. CASE ~(b <= last)
    <3>1. b = e /\ b = last + 1 /\ e - 1 = last
      BY <1>1, <1>2, <2>2
    <3> QED
      BY <1>1, <1>2, <1>3, <3>1, CommentIs DEF T!Begins
  <2> QED
    BY <2>1, <2>2
<1>6. v \in Seq(B) /\ Len(v) = e - b + 1 /\ \A j \in 1..Len(v) : v[j] = text[b + j - 1]
  <2> DEFINE n == Len(w)
  <2>1. n \in Nat /\ n = last - b + 1 /\ b \in Nat
    BY <1>1, <1>2
  <2>2. v \in Seq(B) /\ Len(v) = n + 1 /\ v[n + 1] = c /\ \A j \in 1..n : v[j] = w[j]
    BY <1>2
  <2> HIDE DEF v
  <2>3. Len(v) = e - b + 1 /\ b + (n + 1) - 1 = e
    BY <1>1, <2>1, <2>2
  <2>4. ASSUME NEW j \in 1..(n + 1) PROVE v[j] = text[b + j - 1]
    <3>1. CASE j = n + 1
      BY <1>1, <2>2, <2>3, <3>1
    <3>2. CASE j # n + 1
      <4>1. j \in 1..n
        BY <2>1, <3>2
      <4> QED
        BY <1>2, <2>2, <4>1
    <3> QED
      BY <3>1, <3>2
  <2> QED
    BY <2>2, <2>3, <2>4
<1>7. b \in 1..(e + 1) /\ b # e + 1
  BY <1>1, <1>2
<1> HIDE DEF v
<1>8. Open(B, v, ts, b, e)
  BY <1>2, <1>4, <1>5, <1>6, <1>7 DEF Open
<1> QED
  BY <1>8 DEF v

\* The file is cut up to the n-th of the characters it is cut for, which comes
\* at its position m[n], and the word that goes on began at b.
Reached(B, m, n, b) ==
    LET d == T!Content(text)
    IN  /\ n \in 0..Len(d) /\ content = SubSeq(d, n + 1, Len(d)) /\ Kept(text, 1, d, m)
        /\ Open(B, token, tokens, b, IF n = 0 THEN 0 ELSE m[n])

Cutting(B) == part = "Tokenizer" => text \in Seq(B) /\ \E m, n, b : Reached(B, m, n, b)

LEMMA CuttingAtFirst ==
    ASSUME NEW B, "\n" \in B, Texts \subseteq Seq(B), PartsInit
    PROVE  Cutting(B)
<1> SUFFICES ASSUME part = "Tokenizer", T!Init PROVE Cutting(B)
  BY DEF PartsInit, Cutting
<1> DEFINE d == T!Content(text)
           none == <<>>
<1>1. text \in Seq(B) /\ content = d /\ token = none /\ tokens = none
  BY DEF T!Init
<1>2. d \in Seq(B)
  BY <1>1, ContentKept
<1>3. PICK m : Kept(text, 1, d, m)
  BY <1>1, ContentKept
<1> HIDE DEF d
<1>4. 0 \in 0..Len(d) /\ SubSeq(d, 0 + 1, Len(d)) = d
  BY <1>2
<1>5. none \in Seq(B) /\ Len(none) = 0 /\ none \in Seq(Seq(B))
  OBVIOUS
<1>6. ~T!InWord(0)
  BY <1>1 DEF T!InWord
<1>7. ListedTo(none, 0)
  <2>1. StartsTo(0) = {}
    BY <1>1 DEF StartsTo, T!Starts
  <2>2. Cardinality({}) = 0
    BY FS_EmptySet
  <2> QED
    BY <1>5, <2>1, <2>2 DEF ListedTo
<1> HIDE DEF none
<1>8. Open(B, none, none, 1, 0)
  <2>1. /\ 1 \in 1..(0 + 1) /\ ~(1 <= 0) /\ 0 - 1 + 1 = 0 /\ 1 - 1 = 0 /\ 0 + 1 = 1
        /\ \A j \in 1..0 : FALSE
    OBVIOUS
  <2> QED
    BY <1>5, <1>6, <1>7, <2>1 DEF Open
<1>9. Reached(B, m, 0, 1)
  BY <1>1, <1>3, <1>4, <1>8 DEF Reached, d
<1> QED
  BY <1>1, <1>9 DEF Cutting

\* What is said of a file does not change while it is not another.
LEMMA SameFile ==
    ASSUME NEW B, text \in Seq(B), text' = text
    PROVE  /\ T!Content(text)' = T!Content(text)
           /\ \A w, ts, b, c : Open(B, w, ts, b, c)' <=> Open(B, w, ts, b, c)
<1>1. \A k : T!InComment(k)' <=> T!InComment(k)
  BY DEF T!InComment
<1>2. \A k : T!InWord(k)' <=> T!InWord(k)
  BY <1>1 DEF T!InWord
<1>3. \A k : T!Begins(k)' <=> T!Begins(k)
  BY <1>1, <1>2 DEF T!Begins
<1>4. T!Starts' = T!Starts
  BY <1>3 DEF T!Starts
<1>5. \A c : StartsTo(c)' = StartsTo(c)
  BY <1>4 DEF StartsTo
<1>6. \A k : T!TokenAt(k)' = T!TokenAt(k)
  <2> SUFFICES ASSUME NEW k PROVE T!TokenAt(k)' = T!TokenAt(k)
    OBVIOUS
  <2> DEFINE S == {e \in k..Len(text) : \A j \in k..e : T!InWord(j)}
  <2>1. S' = S
    BY <1>2
  <2>2. /\ T!TokenAt(k) = IF text[k] \in T!Structural THEN <<text[k]>>
                          ELSE SubSeq(text, k, T!Max(S))
        /\ T!TokenAt(k)' = IF text'[k] \in T!Structural THEN <<text'[k]>>
                           ELSE SubSeq(text', k, T!Max(S'))
    BY Zenon DEF T!TokenAt
  <2> HIDE DEF S
  <2>3. T!Max(S') = T!Max(S)
    BY <2>1, Zenon
  <2> QED
    BY <2>2, <2>3, text' = text
<1>7. \A ts, c : ListedTo(ts, c)' <=> ListedTo(ts, c)
  BY <1>5, <1>6 DEF ListedTo
<1>8. \A w, ts, b, c : Open(B, w, ts, b, c)' <=> Open(B, w, ts, b, c)
  BY <1>2, <1>3, <1>7 DEF Open
<1> QED
  BY <1>8

LEMMA OpenThen ==
    ASSUME NEW B, text \in Seq(B), text' = text, NEW b, NEW c, Open(B, token', tokens', b, c)
    PROVE  Open(B, token, tokens, b, c)'
<1>1. PICK v, us : v = token' /\ us = tokens'
  OBVIOUS
<1>2. Open(B, v, us, b, c)
  BY <1>1
<1>3. Open(B, v, us, b, c)'
  BY <1>2, SameFile
<1> QED
  BY <1>1, <1>3 DEF Open, ListedTo

LEMMA CuttingOn ==
    ASSUME NEW B, "\n" \in B, Cutting(B), part = "Tokenizer", part' = part,
           T!Step \/ UNCHANGED T!vars
    PROVE  Cutting(B)'
<1> DEFINE d == T!Content(text)
<1>1. text \in Seq(B)
  BY DEF Cutting
<1>2. PICK m, n, b : Reached(B, m, n, b)
  BY DEF Cutting
<1> DEFINE last == IF n = 0 THEN 0 ELSE m[n]
<1>3. n \in 0..Len(d) /\ content = SubSeq(d, n + 1, Len(d)) /\ Kept(text, 1, d, m)
      /\ Open(B, token, tokens, b, last)
  BY <1>2 DEF Reached
<1>4. text' = text
  BY DEF T!Step, T!vars
<1>5. d \in Seq(B) /\ d' = d
  BY <1>1, <1>4, ContentKept, SameFile
<1>6. CASE T!Step
  <2> DEFINE k == n + 1
             c == d[k]
             e == m[k]
  <2>1. n \in Nat /\ k \in 1..Len(d) /\ Head(content) = c /\ c \in B
        /\ Tail(content) = SubSeq(d, k + 1, Len(d)) /\ content' = Tail(content)
    <3>1. content # <<>> /\ content' = Tail(content)
      BY <1>6 DEF T!Step
    <3> HIDE DEF d
    <3> QED
      BY <1>3, <1>5, <3>1
  <2>2. Gap(last, e, c)
    <3>1. Gap(IF k = 1 THEN 0 ELSE m[k - 1], m[k], d[k])
      <4> HIDE DEF d, k
      <4> QED
        BY <1>1, <1>3, <1>5, <2>1, KeptGap
    <3>2. (k = 1 <=> n = 0) /\ k - 1 = n
      BY <2>1
    <3>3. (IF k = 1 THEN 0 ELSE m[k - 1]) = last
      BY <3>2
    <3> HIDE DEF k, d, last
    <3> QED
      BY <3>1, <3>3
  <2> HIDE DEF c, e, d, last
  <2>3. \E a : Open(B, token', tokens', a, e)
    <3>1. /\ c \in T!Structural => /\ tokens' = Append(Push(token, tokens), <<c>>)
                                   /\ token' = <<>>
          /\ c \in T!White => tokens' = Push(token, tokens) /\ token' = <<>>
          /\ c \notin T!Structural /\ c \notin T!White =>
                token' = Append(token, c) /\ tokens' = tokens
      BY <1>6, <2>1, Characters DEF T!Step, T!Pushed, Push
    <3>2. CASE c \in T!Structural
      <4>1. Open(B, <<>>, Append(Push(token, tokens), <<c>>), e + 1, e)
        BY <1>1, <1>3, <2>1, <2>2, <3>2, StructuralCuts
      <4> QED
        BY <3>1, <3>2, <4>1
    <3>3. CASE c \in T!White
      <4>1. Open(B, <<>>, Push(token, tokens), e + 1, e)
        BY <1>1, <1>3, <2>1, <2>2, <3>3, WhiteCuts
      <4> QED
        BY <3>1, <3>3, <4>1
    <3>4. CASE c \notin T!Structural /\ c \notin T!White
      <4>1. Open(B, Append(token, c), tokens, b, e)
        BY <1>1, <1>3, <2>1, <2>2, <3>4, OtherGoesOn
      <4> QED
        BY <3>1, <3>4, <4>1
    <3> QED
      BY <3>2, <3>3, <3>4
  <2>4. PICK a : Open(B, token', tokens', a, e)
    BY <2>3
  <2>5. Open(B, token, tokens, a, e)'
    BY <1>1, <1>4, <2>4, OpenThen
  <2>6. Reached(B, m, k, a)'
    <3>1. k \in 0..Len(d) /\ e = IF k = 0 THEN 0 ELSE m[k]
      BY <2>1 DEF e
    <3>2. Open(B, token, tokens, a, IF k = 0 THEN 0 ELSE m[k])'
      BY <2>5, <3>1
    <3>3. content' = SubSeq(d', k + 1, Len(d')) /\ Kept(text', 1, d', m) /\ k \in 0..Len(d')
      BY <1>3, <1>4, <1>5, <2>1, <3>1
    <3> HIDE DEF k
    <3> QED
      BY <3>2, <3>3 DEF Reached, d
  <2> QED
    BY <1>1, <1>4, <2>6 DEF Cutting
<1>7. CASE UNCHANGED T!vars
  <2>1. content' = content /\ token' = token /\ tokens' = tokens
    BY <1>7 DEF T!vars
  <2> HIDE DEF d, last
  <2>2. Open(B, token, tokens, b, last)'
    BY <1>1, <1>3, <1>4, <2>1, OpenThen
  <2>3. n \in 0..Len(d') /\ content' = SubSeq(d', n + 1, Len(d')) /\ Kept(text', 1, d', m)
    BY <1>3, <1>4, <1>5, <2>1
  <2>4. Reached(B, m, n, b)'
    BY <2>2, <2>3 DEF Reached, d, last
  <2> QED
    BY <1>1, <1>4, <2>4 DEF Cutting
<1> QED
  BY <1>6, <1>7

\* The characters of the files, and the one that parse() adds.
WithFeed(A) == A \cup {"\n"}

LEMMA Widened ==
    ASSUME NEW A, Texts \subseteq Seq(A)
    PROVE  Texts \subseteq Seq(WithFeed(A)) /\ "\n" \in WithFeed(A)
<1>1. A \subseteq WithFeed(A) /\ "\n" \in WithFeed(A)
  BY DEF WithFeed
<1> QED
  BY <1>1, WiderSeq

LEMMA CuttingAlways ==
    ASSUME NEW A, Texts \subseteq Seq(A)
    PROVE  PartsSpec => []Cutting(WithFeed(A))
<1> DEFINE B == WithFeed(A)
           Inv == Cutting(B)
<1>0. Texts \subseteq Seq(B) /\ "\n" \in B
  BY Widened
<1> HIDE DEF B
<1>1. PartsInit => Inv
  BY <1>0, CuttingAtFirst
<1>2. ASSUME Inv, [PartsNext]_partsVars PROVE Inv'
  <2>1. CASE UNCHANGED <<part, tokenizer>>
    <3> SUFFICES ASSUME part = "Tokenizer", part' = part, UNCHANGED T!vars PROVE Cutting(B)'
      BY <2>1 DEF Cutting, tokenizer, T!vars
    <3>1. Cutting(B)
      BY <1>2
    <3> QED
      BY <1>0, <3>1, CuttingOn
  <2>2. CASE part = "Tokenizer" /\ T!Next /\ NotTokenizer
    <3>1. Cutting(B) /\ part' = part
      BY <1>2, <2>2 DEF NotTokenizer
    <3> QED
      BY <1>0, <2>2, <3>1, CuttingOn DEF T!Next
  <2>3. CASE NotConfig \/ NotUri \/ NotResponse \/ NotForm \/ NotScript
    BY <2>1, <2>3 DEF NotConfig, NotUri, NotResponse, NotForm, NotScript
  <2> QED
    BY <1>2, <2>1, <2>2, <2>3 DEF PartsNext, partsVars
<1> QED
  BY <1>1, <1>2, PTL DEF PartsSpec, B

\* Whatever the file: its tokens are its words and structural characters, all of
\* them, in their order and whole, with nothing of a comment
\* (Config.cpp:63-70, 126-150).
THEOREM FilesAreCutIntoWords ==
    ASSUME NEW A, Texts \subseteq Seq(A)
    PROVE  PartsSpec => []WordsOfFile
<1> DEFINE B == WithFeed(A)
           Inv == Cutting(B)
<1>1. Texts \subseteq Seq(B) /\ "\n" \in B
  BY Widened
<1>2. ASSUME Inv PROVE WordsOfFile
  <2> SUFFICES ASSUME part = "Tokenizer", T!Over
               PROVE  /\ token = <<>> /\ Len(tokens) = T!Cardinality(T!Starts)
                      /\ \A k \in T!Starts :
                            tokens[T!Cardinality({j \in T!Starts : j <= k})] = T!TokenAt(k)
    BY DEF WordsOfFile, T!WordsOfFile
  <2> DEFINE d == T!Content(text)
  <2>1. text \in Seq(B)
    BY <1>2 DEF Cutting
  <2>2. PICK m, n, b : Reached(B, m, n, b)
    BY <1>2 DEF Cutting
  <2> DEFINE last == IF n = 0 THEN 0 ELSE m[n]
  <2>3. n \in 0..Len(d) /\ content = SubSeq(d, n + 1, Len(d)) /\ Kept(text, 1, d, m)
        /\ Open(B, token, tokens, b, last)
    BY <2>2 DEF Reached
  <2>4. d \in Seq(B)
    BY <1>1, <2>1, ContentKept
  <2> HIDE DEF d, last, B
  <2>5. n = Len(d) /\ n \in Nat
    <3>1. content = <<>> /\ n \in Nat /\ Len(d) \in Nat /\ n <= Len(d)
      BY <2>3, <2>4 DEF T!Over
    <3>2. n < Len(d) => Len(SubSeq(d, n + 1, Len(d))) = Len(d) - n
      BY <2>4, <3>1
    <3> QED
      BY <2>3, <3>1, <3>2
  <2>6. /\ \A x \in 1..n : /\ m[x] \in 1..(Len(text) + 1)
                           /\ d[x] = IF m[x] <= Len(text) THEN text[m[x]] ELSE "\n"
        /\ \A j, x \in 1..n : j < x => m[j] < m[x]
        /\ \A l \in 1..Len(text) : (\E x \in 1..n : m[x] = l) <=> ~Hidden(text, l)
        /\ n # 0 => d[n] = "\n"
    BY <2>3, <2>5 DEF Kept
  <2>7. last \in Nat
    BY <2>5, <2>6 DEF last
  <2>8. ~T!InWord(last)
    <3>1. CASE n = 0
      BY <2>1, <3>1 DEF T!InWord, last
    <3>2. CASE n # 0
      <4>1. n \in 1..n /\ last = m[n] /\ d[n] = "\n"
        BY <2>5, <2>6, <3>2 DEF last
      <4>2. last <= Len(text) => text[last] = "\n"
        BY <2>6, <4>1
      <4> QED
        BY <2>1, <4>2, Characters DEF T!InWord
    <3> QED
      BY <3>1, <3>2
  <2>9. b = last + 1 /\ Len(token) = 0 /\ token \in Seq(B) /\ ListedTo(tokens, last)
    <3>1. /\ b \in 1..(last + 1) /\ \A j \in b..last : T!InWord(j)
          /\ token \in Seq(B) /\ Len(token) = last - b + 1 /\ ListedTo(tokens, b - 1)
      BY <2>3 DEF Open
    <3>2. b = last + 1
      <4> SUFFICES ASSUME b # last + 1 PROVE FALSE
        OBVIOUS
      <4>1. last \in b..last
        BY <2>7, <3>1
      <4> QED
        BY <2>8, <3>1, <4>1
    <3>3. b - 1 = last /\ last - b + 1 = 0
      BY <2>7, <3>2
    <3> QED
      BY <3>1, <3>2, <3>3
  <2>10. \A k \in T!Starts : k \in Nat /\ k <= last
    <3> SUFFICES ASSUME NEW k \in T!Starts PROVE k \in Nat /\ k <= last
      OBVIOUS
    <3>1. k \in 1..Len(text) /\ ~Hidden(text, k)
      BY <2>1, CommentIs DEF T!Starts, T!Begins
    <3>2. PICK x \in 1..n : m[x] = k
      BY <2>6, <3>1
    <3>3. n # 0 /\ n \in 1..n /\ last = m[n]
      BY <2>5, <3>2 DEF last
    <3>4. CASE x = n
      BY <2>7, <3>2, <3>3, <3>4
    <3>5. CASE x # n
      <4>1. x < n
        BY <2>5, <3>5
      <4>2. m[x] < m[n]
        BY <2>6, <3>3, <4>1
      <4> QED
        BY <2>7, <3>1, <3>2, <3>3, <4>2
    <3> QED
      BY <3>4, <3>5
  <2>11. StartsTo(last) = T!Starts
    BY <2>10 DEF StartsTo
  <2>12. \A S : T!Cardinality(S) = Cardinality(S)
    BY Zenon DEF T!Cardinality, Cardinality
  <2>13. token = <<>>
    BY <2>9
  <2>14. ASSUME NEW k \in T!Starts
         PROVE  tokens[T!Cardinality({j \in T!Starts : j <= k})] = T!TokenAt(k)
    <3>1. tokens[Cardinality(StartsTo(k))] = T!TokenAt(k)
      BY <2>9, <2>11 DEF ListedTo
    <3> QED
      BY <2>12, <3>1, Zenon DEF StartsTo
  <2> QED
    BY <2>9, <2>11, <2>12, <2>13, <2>14 DEF ListedTo
<1>3. PartsSpec => []Inv
  BY CuttingAlways
<1> QED
  BY <1>2, <1>3, PTL

=============================================================================
