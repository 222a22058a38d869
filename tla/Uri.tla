--------------------------------- MODULE Uri ---------------------------------
(***************************************************************************)
(* _parseUri: from the target of a request line to the path that locations *)
(* are matched with and the query that scripts get.  The path is decoded,  *)
(* split into segments and put together again without those that "." and   *)
(* ".." take out, a step for each.                                         *)
(*                                                                         *)
(* A byte is a string; "%" and the two hexadecimal digits after it are     *)
(* three, and Hex says which byte two digits stand for.                    *)
(***************************************************************************)
EXTENDS Integers, Sequences, SequencesExt, FiniteSets

CONSTANTS
    Uris, \* the targets
    Hex   \* strtol() with base 16, a function from pairs of bytes

VARIABLES
    uri,   \* _uri
    query, \* _query
    slash, \* hasTrailingSlash
    parts, \* the segments that are left
    stack, \* stack
    path   \* _path, when it is put together

vars == <<uri, query, slash, parts, stack, path>>

Slash == "/"
Dot == "."
Space == " "

\* B has the bytes of every target, and any two of them in an escape stand for
\* one (strtol() does without those that are no hexadecimal digits).
TargetsOf(B) ==
    /\ {Slash, Space} \subseteq B
    /\ Uris \subseteq Seq(B)
    /\ \A x, y \in B : Hex[<<x, y>>] \in B

\* i + 2 < str.size().
Escape(s, k) == s[k] = "%" /\ k + 2 <= Len(s)

\* The position after what is decoded at k, and the byte it decodes to.
Following(s, k) == IF Escape(s, k) THEN k + 3 ELSE k + 1
Decoded(s, k) ==
    IF Escape(s, k) THEN Hex[<<s[k + 1], s[k + 2]>>] ELSE IF s[k] = "+" THEN Space ELSE s[k]

\* Utils::urlDecode.
UrlDecode(s) ==
    LET from[k \in 1..(Len(s) + 3)] ==
            IF k > Len(s) THEN <<>> ELSE <<Decoded(s, k)>> \o from[Following(s, k)]
    IN  from[1]

\* The first b from k on, or the end of s.
FirstFrom(s, b, k) ==
    CHOOSE e \in k..(Len(s) + 1) :
        /\ e <= Len(s) => s[e] = b
        /\ \A j \in k..(e - 1) : s[j] # b

\* Utils::split: std::getline() up to each slash, and nothing of an empty piece.
Split(s) ==
    LET from[k \in 1..(Len(s) + 2)] ==
            IF k > Len(s) THEN <<>>
            ELSE LET end == FirstFrom(s, Slash, k)
                 IN  (IF end = k THEN <<>> ELSE <<SubSeq(s, k, end - 1)>>) \o from[end + 1]
    IN  from[1]

BeforeQuery(s) == SubSeq(s, 1, FirstFrom(s, "?", 1) - 1)
Query(s) == SubSeq(s, FirstFrom(s, "?", 1) + 1, Len(s))

Stay == <<Dot>>
Up == <<Dot, Dot>>

-----------------------------------------------------------------------------

NoPath == <<>>

\* _parseUri up to the walk, without its first test for "?": that is Query.
Init ==
    /\ uri \in Uris
    /\ query = Query(uri)
    /\ LET decoded == UrlDecode(BeforeQuery(uri))
       IN  /\ slash = (Len(decoded) > 1 /\ Last(decoded) = Slash)
           /\ parts = Split(decoded)
    /\ stack = <<>>
    /\ path = NoPath

\* Mutant: a segment ".." at the root is kept.
GoUpKeeping ==
    /\ parts # <<>>
    /\ Head(parts) = Up
    /\ stack' = IF stack = <<>> THEN <<Up>> ELSE Front(stack)
    /\ parts' = Tail(parts)
    /\ UNCHANGED <<uri, query, slash, path>>

\* An iteration for a segment "..".
GoUp ==
    /\ parts # <<>>
    /\ Head(parts) = Up
    /\ stack' = IF stack = <<>> THEN <<>> ELSE Front(stack)
    /\ parts' = Tail(parts)
    /\ UNCHANGED <<uri, query, slash, path>>

\* An iteration for another segment.
GoDown ==
    /\ parts # <<>>
    /\ Head(parts) # Up
    /\ stack' = IF Head(parts) \in {Stay, <<>>} THEN stack ELSE Append(stack, Head(parts))
    /\ parts' = Tail(parts)
    /\ UNCHANGED <<uri, query, slash, path>>

\* The path of the segments in s, with a trailing slash if there was one.
Rebuilt(s, trailing) ==
    FlattenSeq([j \in DOMAIN s |-> <<Slash>> \o s[j]])
      \o (IF trailing \/ s = <<>> THEN <<Slash>> ELSE <<>>)

\* After the walk.
Rebuild ==
    /\ parts = <<>>
    /\ path = NoPath
    /\ path' = Rebuilt(stack, slash)
    /\ UNCHANGED <<uri, query, slash, parts, stack>>

Next == GoUp \/ GoDown \/ Rebuild \/ (path # NoPath /\ UNCHANGED vars)

Spec == Init /\ [][Next]_vars

-----------------------------------------------------------------------------

Segments == Split(UrlDecode(BeforeQuery(uri)))
Walked == SubSeq(Segments, 1, Len(Segments) - Len(parts))
IsName(piece) == piece \notin {Stay, Up}

\* How far below the root one would be after k segments, were there a way up
\* from it.
Depth(w, k) ==
    Cardinality({n \in 1..k : IsName(w[n])}) - Cardinality({n \in 1..k : w[n] = Up})

\* A name stays unless some later ".." goes up from it, as brackets match.
Staying(w) ==
    {j \in DOMAIN w : IsName(w[j]) /\ \A k \in j..Len(w) : Depth(w, k) >= Depth(w, j)}

\* The stack holds the names that stay, in their order.
StackHoldsNames ==
    LET staying == Staying(Walked)
    IN  /\ Len(stack) = Cardinality(staying)
        /\ \A j \in staying : stack[Cardinality({k \in staying : k <= j})] = Walked[j]

\* The path begins with a slash, has no empty segment and none that is "." or
\* "..", and ends with a slash exactly if the target did or it is the root.
CleanPath ==
    path # NoPath =>
        /\ Head(path) = Slash
        /\ \A k \in 1..(Len(path) - 1) : path[k] = Slash => path[k + 1] # Slash
        /\ \A j \in DOMAIN Split(path) : IsName(Split(path)[j])
        /\ Last(path) = Slash <=> slash \/ Len(path) = 1

\* What decoding and cleaning give for a path that needs neither is the path
\* itself: the links of a listing and the Location of a redirect to the same
\* path with a slash lead where they say.
CleanPathStays ==
    path # NoPath /\ "%" \notin Range(path) /\ "+" \notin Range(path) /\ "?" \notin Range(path)
        => /\ UrlDecode(BeforeQuery(path)) = path
           /\ Rebuilt(Split(path), Last(path) = Slash /\ Len(path) > 1) = path

\* Locations are matched with, and files looked for under, what is left of the
\* target when it is decoded once and no segment goes up or stays: it never
\* leaves the root, and a path the server itself made means itself.
PathIsClean == StackHoldsNames /\ CleanPath /\ CleanPathStays
=============================================================================
