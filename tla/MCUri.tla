------------------------------- MODULE MCUri -------------------------------
(***************************************************************************)
(* Targets for module Uri: every sequence of bytes up to a length, and     *)
(* longer ones with escapes.                                               *)
(***************************************************************************)
EXTENDS Uri

Symbols == {"/", ".", "a", "%", "2", "?"}
Longer == {"/", ".", "a"}

AllBytes == Symbols \cup {"e", "f", "5", "3", "+", " ", "other"}

\* %2E, %2F, %25 and %3F; other pairs are some byte.
MCHex ==
    [p \in AllBytes \X AllBytes |->
        CASE p = <<"2", "e">> -> "."
          [] p = <<"2", "f">> -> "/"
          [] p = <<"2", "5">> -> "%"
          [] p = <<"3", "f">> -> "?"
          [] OTHER            -> "other"]

Escapes == {<<"%", "2", "e">>, <<"%", "2", "f">>, <<"%", "2", "5">>, <<"%", "3", "f">>,
            <<".">>, <<"/">>, <<"+">>}

MCUris ==
    UNION {[1..n -> Symbols] : n \in 1..5}
      \cup {Append(s, "a") : s \in [1..6 -> Longer]}
      \cup {<<"/", "a", "/">> \o FlattenSeq(s) : s \in [1..4 -> Escapes]}
=============================================================================
