------------------------------- MODULE MCForm -------------------------------
(***************************************************************************)
(* Forms for module Form, written as a browser writes them.                *)
(***************************************************************************)
EXTENDS Form

Crlf == <<CR, LF>>

\* One part: its headers, a blank line, its data and the CRLF that belongs to
\* the boundary after it.
Written(p) ==
    <<Boundary>> \o Crlf \o <<"disposition">>
      \o (IF p.file THEN <<Filename>> \o p.name \o <<Quote>> ELSE <<>>)
      \o Blank \o p.data \o Crlf

Sent(parts) ==
    [bytes |-> FlattenSeq([k \in DOMAIN parts |-> Written(parts[k])])
                 \o <<Boundary, "--">> \o Crlf,
     parts |-> [k \in DOMAIN parts |-> [name |-> parts[k].name, data |-> parts[k].data]]]

\* Data with everything that the loop looks for but a boundary.
Datas == {<<>>, <<"x">>, Crlf, <<"x">> \o Blank \o <<"x">>, <<"x", Quote, LF>>}

Uploaded == {[file |-> TRUE, name |-> n, data |-> d] : n \in {<<"a">>, <<"b">>}, d \in Datas}
              \cup {[file |-> TRUE, name |-> <<"c">>, data |-> <<Filename, "a", Quote>>]}
\* A field, and a file that was not chosen.
Fields == {[file |-> f, name |-> <<>>, data |-> <<"x">>] : f \in BOOLEAN}

MCForms == {Sent(s) : s \in UNION {[1..n -> Uploaded \cup Fields] : n \in 0..3}}

\* A field whose text is about a file.
FieldAboutFile ==
    Sent(<<[file |-> FALSE, name |-> <<>>, data |-> <<"x", Filename, "a", Quote, "x">>]>>)

MCUnopened == {<<"c">>}

\* Where the boundaries are, for the theorem about forms.
Marks(f) == SetToSortSeq({k \in DOMAIN f.bytes : f.bytes[k] = Boundary}, LAMBDA a, b : a < b)
=============================================================================
