------------------------------ MODULE Tokenizer ------------------------------
(***************************************************************************)
(* The first half of Config.cpp: a file without its comments is cut into   *)
(* the tokens that module Config begins with, a step for each character.   *)
(***************************************************************************)
EXTENDS Integers, Sequences, SequencesExt

CONSTANT Texts \* the files, sequences of characters

VARIABLES
    text,    \* the file
    content, \* what is left of content
    token,   \* token
    tokens   \* _tokens

vars == <<text, content, token, tokens>>

Structural == {"{", "}", ";"}
White == {" ", "\t", "\n", "\r"}

\* The first c from k on, or the end of s.
FirstFrom(s, c, k) ==
    CHOOSE e \in k..(Len(s) + 1) :
        /\ e <= Len(s) => s[e] = c
        /\ \A j \in k..(e - 1) : s[j] # c

\* Mutant: a line with a comment is dropped.
UncommentedOnly(line) == IF FirstFrom(line, "#", 1) > Len(line) THEN line ELSE <<>>

Uncommented(line) == SubSeq(line, 1, FirstFrom(line, "#", 1) - 1)

\* The first loop of parse(): each line of std::getline(), without its comment,
\* and a line feed.  A line feed at the end of s begins no line.
Content(s) ==
    LET from[k \in 1..(Len(s) + 2)] ==
            IF k > Len(s) THEN <<>>
            ELSE LET end == FirstFrom(s, "\n", k)
                 IN  Append(Uncommented(SubSeq(s, k, end - 1)), "\n") \o from[end + 1]
    IN  from[1]

Pushed == IF token = <<>> THEN tokens ELSE Append(tokens, token)

-----------------------------------------------------------------------------

Init ==
    /\ text \in Texts
    /\ content = Content(text)
    /\ token = <<>>
    /\ tokens = <<>>

\* One iteration of the loop of _tokenize.
Step ==
    /\ content # <<>>
    /\ content' = Tail(content)
    /\ LET c == Head(content)
       IN  \/ /\ c \in Structural
              /\ tokens' = Append(Pushed, <<c>>)
              /\ token' = <<>>
           \/ /\ c \in White
              /\ tokens' = Pushed
              /\ token' = <<>>
           \/ /\ c \notin Structural \cup White
              /\ token' = Append(token, c)
              /\ UNCHANGED tokens
    /\ UNCHANGED text

Over == content = <<>>

Next == Step \/ (Over /\ UNCHANGED vars)

Spec == Init /\ [][Next]_vars

-----------------------------------------------------------------------------

InComment(k) == \E j \in 1..k : text[j] = "#" /\ \A l \in j..k : text[l] # "\n"
InWord(k) == k \in DOMAIN text /\ ~InComment(k) /\ text[k] \notin Structural \cup White

\* The positions at which a token begins, and the token.
Begins(k) == ~InComment(k) /\ (text[k] \in Structural \/ (InWord(k) /\ ~InWord(k - 1)))
TokenAt(k) ==
    IF text[k] \in Structural THEN <<text[k]>>
    ELSE SubSeq(text, k, Max({e \in k..Len(text) : \A j \in k..e : InWord(j)}))

Starts == {k \in DOMAIN text : Begins(k)}

\* The tokens are the words and structural characters of the file in their
\* order, with nothing of a comment: no comment, blank or end of line joins or
\* breaks a word.  Content ends with a line feed, so that the last word is a
\* token too, without the test after the loop of _tokenize.
WordsOfFile ==
    Over => /\ token = <<>>
            /\ Len(tokens) = Cardinality(Starts)
            /\ \A k \in Starts : tokens[Cardinality({j \in Starts : j <= k})] = TokenAt(k)
=============================================================================
