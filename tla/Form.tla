-------------------------------- MODULE Form --------------------------------
(***************************************************************************)
(* The files of a multipart/form-data body, the loop of _handlePOST that   *)
(* module Response takes for one step.  An iteration takes what is between *)
(* two boundaries and may write a file; a file that cannot be opened ends  *)
(* the loop, with the files before it written.                             *)
(*                                                                         *)
(* A byte is a string.  The boundary with its dashes is one byte, so is    *)
(* the text filename=" up to its quote, and a name without the quote.      *)
(***************************************************************************)
EXTENDS Integers, Sequences, SequencesExt

CONSTANTS
    Forms,   \* bodies: [bytes, parts]
    Unopened \* the names under which no file can be opened

VARIABLES
    form, \* the body
    pos,  \* pos, 0 for npos
    disk, \* the files written, a function from names
    code  \* 0 until the reply is made

vars == <<form, pos, disk, code>>

CR == "cr"
LF == "lf"
Quote == "quote"
Boundary == "boundary"
Filename == "filename="
Blank == <<CR, LF, CR, LF>>

\* The first position from k on at which t begins in s, 0 for none.
Found(s, t, k) == {j \in k..(Len(s) - Len(t) + 1) : SubSeq(s, j, j + Len(t) - 1) = t}
Find(s, t, k) ==
    IF Found(s, t, k) = {} THEN 0
    ELSE CHOOSE j \in Found(s, t, k) : \A l \in Found(s, t, k) : j <= l

NextPos == Find(form.bytes, <<Boundary>>, pos + 1)
Part == SubSeq(form.bytes, pos + 1, NextPos - 1)

\* What is between the quotes of the first filename, and no name without one.
NameOf(part) ==
    LET start == Find(part, <<Filename>>, 1)
        end   == Find(part, <<Quote>>, start + 1)
    IN  IF start = 0 THEN <<>>
        ELSE SubSeq(part, start + 1, IF end = 0 THEN Len(part) ELSE end - 1)

\* Mutant: every CRLF at the end is trimmed, those of the file too.
TrimmedAll(data) ==
    LET n == CHOOSE k \in 0..Len(data) :
                /\ \A j \in (k + 1)..Len(data) : data[j] \in {CR, LF}
                /\ k > 0 => data[k] \notin {CR, LF}
    IN  SubSeq(data, 1, n)

\* Without the CRLF before the boundary.
Trimmed(data) ==
    IF Len(data) >= 2 /\ SubSeq(data, Len(data) - 1, Len(data)) = <<CR, LF>>
    THEN SubSeq(data, 1, Len(data) - 2)
    ELSE data

HasContent(part) == Find(part, Blank, 1) # 0
ContentOf(part) == Trimmed(SubSeq(part, Find(part, Blank, 1) + 4, Len(part)))

IsFile(part) == NameOf(part) # <<>> /\ HasContent(part)

-----------------------------------------------------------------------------

Init ==
    /\ form \in Forms
    /\ pos = Find(form.bytes, <<Boundary>>, 1)
    /\ disk = <<>>
    /\ code = 0

Another == code = 0 /\ pos # 0 /\ NextPos # 0

\* An iteration that writes a file.
WriteFile ==
    /\ Another
    /\ IsFile(Part)
    /\ NameOf(Part) \notin Unopened
    /\ disk' = [n \in DOMAIN disk \cup {NameOf(Part)} |->
                    IF n = NameOf(Part) THEN ContentOf(Part) ELSE disk[n]]
    /\ pos' = NextPos
    /\ UNCHANGED <<form, code>>

\* An iteration that does not.
SkipPart ==
    /\ Another
    /\ ~IsFile(Part)
    /\ pos' = NextPos
    /\ UNCHANGED <<form, disk, code>>

\* An iteration that fails.
CannotOpen ==
    /\ Another
    /\ IsFile(Part)
    /\ NameOf(Part) \in Unopened
    /\ code' = 500
    /\ UNCHANGED <<form, pos, disk>>

\* After the loop.
Created ==
    /\ code = 0
    /\ ~Another
    /\ code' = 201
    /\ UNCHANGED <<form, pos, disk>>

Next ==
    \/ WriteFile \/ SkipPart \/ CannotOpen \/ Created
    \/ code # 0 /\ UNCHANGED vars

Spec == Init /\ [][Next]_vars

-----------------------------------------------------------------------------
(* A form by the rules.  Its parts are [name, data], with the name <<>> for *)
(* a field that is no file.                                                *)

\* The first filename=" is the one before the name, among the headers, and the
\* quote after the name is the first after that.  A field has no filename=",
\* neither among its headers nor in its text.
NamedIn(part, name) ==
    \/ name = <<>> /\ \A k \in DOMAIN part : part[k] # Filename
    \/ \E s \in 1..(Len(part) - Len(name) - 1) :
          /\ part[s] = Filename /\ \A k \in 1..(s - 1) : part[k] # Filename
          /\ \A h \in Found(part, Blank, 1) : s < h
          /\ SubSeq(part, s + 1, s + Len(name)) = name
          /\ part[s + Len(name) + 1] = Quote /\ \A k \in DOMAIN name : name[k] # Quote

\* After the first blank line there is the data, and the CRLF that belongs to
\* the next boundary.
HasData(part, data) ==
    \E h \in 0..(Len(part) - 4) :
        /\ h + 1 \in Found(part, Blank, 1) /\ \A k \in Found(part, Blank, 1) : h < k
        /\ SubSeq(part, h + 5, Len(part)) = data \o <<CR, LF>>

\* The parts are between the boundaries, and no part has a boundary in it.
LaidOut(f, marks) ==
    /\ Len(marks) = Len(f.parts) + 1
    /\ \A m, n \in DOMAIN marks : m < n => marks[m] < marks[n]
    /\ {k \in DOMAIN f.bytes : f.bytes[k] = Boundary} = {marks[n] : n \in DOMAIN marks}
    /\ \A n \in DOMAIN f.parts :
          LET part == SubSeq(f.bytes, marks[n] + 1, marks[n + 1] - 1)
          IN  NamedIn(part, f.parts[n].name) /\ HasData(part, f.parts[n].data)

ByTheRules == \A f \in Forms : \E marks \in Seq(Nat) : LaidOut(f, marks)

\* The bodies are sequences of bytes, and so are the names and the data.
MadeOf(bytes, parts) ==
    /\ \A f \in Forms : f.bytes \in Seq(bytes) /\ f.parts \in Seq(parts)
    /\ \A p \in parts : p.name \in Seq(bytes) /\ p.data \in Seq(bytes)

-----------------------------------------------------------------------------
(* Properties.                                                             *)

\* Those of the first n parts that are files.
Uploads(n) == {k \in 1..n : form.parts[k].name # <<>>}

\* The one of them, if any, that is written under a name last.
Latest(n, name) ==
    {k \in Uploads(n) : /\ form.parts[k].name = name
                        /\ \A j \in Uploads(n) : form.parts[j].name = name => j <= k}

\* The files that writing them leaves.
FilesOf(n) ==
    [name \in {form.parts[k].name : k \in Uploads(n)} |->
        form.parts[CHOOSE k \in Latest(n, name) : TRUE].data]

AllOpened(n) == \A k \in Uploads(n) : form.parts[k].name \notin Unopened

\* A form answered 201 has left each of its files as it was sent, to the byte,
\* and nothing else; one answered 500 has left the files before the first that
\* could not be opened, and none after it (Response.cpp:340-392).  The disk has
\* room for them here; module Response has disks that have none.
StoredAsSent ==
    /\ code = 201 => AllOpened(Len(form.parts)) /\ disk = FilesOf(Len(form.parts))
    /\ code = 500 => \E n \in Uploads(Len(form.parts)) :
                        /\ form.parts[n].name \in Unopened
                        /\ AllOpened(n - 1)
                        /\ disk = FilesOf(n - 1)
=============================================================================
