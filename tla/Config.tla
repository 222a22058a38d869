------------------------------- MODULE Config -------------------------------
(***************************************************************************)
(* Config.cpp: from the tokens of a configuration file to the servers it   *)
(* describes, a step for each directive.                                   *)
(*                                                                         *)
(* A token is a string.  What the tokens after listen and                  *)
(* client_max_body_size mean as numbers is given by Address and Bytes;     *)
(* codes are left as they are written.                                     *)
(***************************************************************************)
EXTENDS Integers, Sequences, SequencesExt

CONSTANTS
    Files,    \* the files: [tokens, means], means is <<>> if nothing is said
    Address,  \* of a token after listen, [host, port]; host NoHost without ":"
    Bytes,    \* of a token after client_max_body_size, [number, unit]
    SizeWidth \* size_t is the numbers modulo this

VARIABLES
    file,    \* the file
    i,       \* the index of the next token
    block,   \* where parse() is: "top", "server", "location"; or how it ended
    server,  \* the ServerConfig being filled
    loc,     \* the LocationConfig being filled
    servers  \* _servers

vars == <<file, i, block, server, loc, servers>>

NoHost == "no host"

Mega == 1048576
DefaultMethods == <<"GET", "POST", "DELETE">>

DefaultServer ==
    [host |-> "0.0.0.0", port |-> "8080", limit |-> Mega % SizeWidth, root |-> "www",
     index |-> "index.html", names |-> <<>>, pages |-> {}, locations |-> <<>>]

\* A location begins with what it inherits.
NewLocation(path, s) ==
    [path |-> path, root |-> "", index |-> s.index, methods |-> <<>>, autoindex |-> FALSE,
     code |-> "0", redirect |-> "", upload |-> "", cgi |-> {}, limit |-> s.limit]

DefaultLocation(s) == [NewLocation("/", s) EXCEPT !.root = s.root, !.methods = DefaultMethods]

-----------------------------------------------------------------------------
(* Tokens.                                                                 *)

Tokens == file.tokens
There(k) == k <= Len(Tokens)
Is(k, t) == There(k) /\ Tokens[k] = t

\* One further, if the token at k is there, and if it is a semicolon.
Past(k) == IF There(k) THEN k + 1 ELSE k
PastSemicolon(k) == IF Is(k, ";") THEN k + 1 ELSE k

\* The first semicolon from k on, or the end of the file.
Semicolon(k) ==
    CHOOSE e \in k..(Len(Tokens) + 1) :
        /\ There(e) => Tokens[e] = ";"
        /\ \A j \in k..(e - 1) : Tokens[j] # ";"

\* The values of a list that ends with a semicolon, and where it ends.
List == SubSeq(Tokens, i + 1, Semicolon(i + 1) - 1)
AfterList == Past(Semicolon(i + 1))

Unit == [M |-> 1048576, K |-> 1024, none |-> 1]
SizeOf(t) == (Bytes[t].number * Unit[Bytes[t].unit]) % SizeWidth

\* A function or record with another value, if there is a token with it.
Set(r, field, value) == IF There(i + 1) THEN [r EXCEPT ![field] = value] ELSE r

\* The value of a directive that takes one.
Value == Tokens[i + 1]
AfterValue == PastSemicolon(Past(i + 1))

-----------------------------------------------------------------------------
(* parse()                                                                 *)

Init ==
    /\ file \in Files
    /\ i = 1
    /\ block = "top"
    /\ server = DefaultServer
    /\ loc = NewLocation("/", DefaultServer)
    /\ servers = <<>>

\* "server {", or what the file is refused for.
ServerBlock ==
    /\ block = "top"
    /\ There(i)
    /\ IF Is(i, "server") /\ Is(i + 1, "{")
       THEN block' = "server" /\ i' = i + 2 /\ server' = DefaultServer
       ELSE block' = "refused" /\ UNCHANGED <<i, server>>
    /\ UNCHANGED <<file, loc, servers>>

SameAddress(s, t) == s.host = t.host /\ s.port = t.port

\* Mutant: names are only compared in the same place of their lists.
DuplicateFirst(s, t) ==
    /\ SameAddress(s, t)
    /\ \/ s.names = <<>> /\ t.names = <<>>
       \/ \E k \in DOMAIN s.names \cap DOMAIN t.names : s.names[k] = t.names[k]

Duplicate(s, t) ==
    /\ SameAddress(s, t)
    /\ \/ s.names = <<>> /\ t.names = <<>>
       \/ \E j \in DOMAIN s.names, k \in DOMAIN t.names : s.names[j] = t.names[k]

\* The end of the file: there must be a server, and no two that are the same.
Validate ==
    /\ block = "top"
    /\ ~There(i)
    /\ block' = IF servers = <<>> \/ \E a, b \in DOMAIN servers :
                                         a < b /\ Duplicate(servers[a], servers[b])
                THEN "refused" ELSE "accepted"
    /\ UNCHANGED <<file, i, server, loc, servers>>

-----------------------------------------------------------------------------
(* _parseServer                                                            *)

\* A directive d in block b.
Directive(b, d) == block = b /\ Is(i, d)

InServer(s, k) ==
    /\ server' = s
    /\ i' = k
    /\ UNCHANGED <<file, block, loc, servers>>

\* _parseListen.
Listen ==
    /\ Directive("server", "listen")
    /\ There(i + 1)
    /\ InServer([server EXCEPT !.host = IF Address[Value].host = NoHost THEN @
                                        ELSE Address[Value].host,
                               !.port = Address[Value].port], AfterValue)

ListenNothing ==
    /\ Directive("server", "listen")
    /\ ~There(i + 1)
    /\ block' = "refused"
    /\ UNCHANGED <<file, i, server, loc, servers>>

ServerName ==
    Directive("server", "server_name") /\ InServer([server EXCEPT !.names = @ \o List], AfterList)

ServerRoot == Directive("server", "root") /\ InServer(Set(server, "root", Value), AfterValue)
ServerIndex == Directive("server", "index") /\ InServer(Set(server, "index", Value), AfterValue)
ServerLimit ==
    /\ Directive("server", "client_max_body_size")
    /\ InServer(Set(server, "limit", SizeOf(Value)), AfterValue)

\* A later page for the same code replaces an earlier one.
ErrorPage ==
    /\ Directive("server", "error_page")
    /\ LET code == IF There(i + 1) THEN Value ELSE "0"
           page == IF There(i + 2) THEN Tokens[i + 2] ELSE ""
       IN  InServer([server EXCEPT !.pages = {p \in @ : p[1] # code} \cup {<<code, page>>}],
                    PastSemicolon(Past(Past(i + 1))))

\* "location /path {", with or without the path; without "{" only the words
\* are skipped.
LocationBlock ==
    /\ Directive("server", "location")
    /\ LET named == There(i + 1) /\ ~Is(i + 1, "{")
           next  == IF named THEN i + 2 ELSE i + 1
       IN  IF Is(next, "{")
           THEN /\ block' = "location"
                /\ loc' = NewLocation(IF named THEN Value ELSE "/", server)
                /\ i' = next + 1
           ELSE i' = next /\ UNCHANGED <<block, loc>>
    /\ UNCHANGED <<file, server, servers>>

ServerDirectives == {"listen", "server_name", "root", "index", "client_max_body_size",
                     "error_page", "location"}

\* Mutant: a directive is skipped up to its semicolon, not past it.
UnknownInServerStays ==
    /\ block = "server"
    /\ There(i)
    /\ Tokens[i] \notin ServerDirectives \cup {"}"}
    /\ InServer(server, Semicolon(i))

UnknownInServer ==
    /\ block = "server"
    /\ There(i)
    /\ Tokens[i] \notin ServerDirectives \cup {"}"}
    /\ InServer(server, AfterList)

Ends(b) == block = b /\ (There(i) => Tokens[i] = "}")

\* "}" or the end of the file.
ServerEnds ==
    /\ Ends("server")
    /\ servers' = Append(servers, IF server.locations # <<>> THEN server
                                  ELSE [server EXCEPT !.locations = <<DefaultLocation(server)>>])
    /\ block' = "top"
    /\ i' = Past(i)
    /\ UNCHANGED <<file, server, loc>>

-----------------------------------------------------------------------------
(* _parseLocation                                                          *)

InLocation(l, k) ==
    /\ loc' = l
    /\ i' = k
    /\ UNCHANGED <<file, block, server, servers>>

LocationRoot == Directive("location", "root") /\ InLocation(Set(loc, "root", Value), AfterValue)

\* An index of two quotes is no index.
LocationIndex ==
    /\ Directive("location", "index")
    /\ InLocation(Set(loc, "index", IF Value \in {"\"\"", "''"} THEN "" ELSE Value), AfterValue)

LocationMethods ==
    /\ \E d \in {"methods", "allow_methods", "limit_except"} : Directive("location", d)
    /\ InLocation([loc EXCEPT !.methods = List], AfterList)

Autoindex ==
    /\ Directive("location", "autoindex")
    /\ InLocation(Set(loc, "autoindex", Value = "on"), AfterValue)

\* A code and a target, either of which may be missing.
Return ==
    /\ Directive("location", "return")
    /\ LET coded    == Set(loc, "code", Value)
           targeted == There(i + 2) /\ ~Is(i + 2, ";")
       IN  IF targeted
           THEN InLocation([coded EXCEPT !.redirect = Tokens[i + 2]], PastSemicolon(i + 3))
           ELSE InLocation(coded, AfterValue)

UploadDir ==
    /\ \E d \in {"upload_dir", "upload_store"} : Directive("location", d)
    /\ InLocation(Set(loc, "upload", Value), AfterValue)

\* A later interpreter for the same extension replaces an earlier one.
Cgi ==
    /\ Directive("location", "cgi")
    /\ LET ext  == IF There(i + 1) THEN Value ELSE ""
           path == IF There(i + 2) THEN Tokens[i + 2] ELSE ""
       IN  InLocation([loc EXCEPT !.cgi = {c \in @ : c[1] # ext} \cup {<<ext, path>>}],
                      PastSemicolon(Past(Past(i + 1))))

LocationLimit ==
    /\ Directive("location", "client_max_body_size")
    /\ InLocation(Set(loc, "limit", SizeOf(Value)), AfterValue)

LocationDirectives == {"root", "index", "methods", "allow_methods", "limit_except", "autoindex",
                       "return", "upload_dir", "upload_store", "cgi", "client_max_body_size"}

UnknownInLocation ==
    /\ block = "location"
    /\ There(i)
    /\ Tokens[i] \notin LocationDirectives \cup {"}"}
    /\ InLocation(loc, AfterList)

\* What the block did not say is filled in.
Filled(l) ==
    [l EXCEPT !.methods = IF @ = <<>> THEN DefaultMethods ELSE @,
              !.root = IF @ = "" THEN server.root ELSE @]

\* "}" or the end of the file.
LocationEnds ==
    /\ Ends("location")
    /\ server' = [server EXCEPT !.locations = Append(@, Filled(loc))]
    /\ block' = "server"
    /\ i' = Past(i)
    /\ UNCHANGED <<file, loc, servers>>

-----------------------------------------------------------------------------

Parse ==
    \/ ServerBlock \/ Validate
    \/ Listen \/ ListenNothing \/ ServerName \/ ServerRoot \/ ServerIndex \/ ServerLimit
    \/ ErrorPage \/ LocationBlock \/ UnknownInServer \/ ServerEnds
    \/ LocationRoot \/ LocationIndex \/ LocationMethods \/ Autoindex \/ Return
    \/ UploadDir \/ Cgi \/ LocationLimit \/ UnknownInLocation \/ LocationEnds

Parsed == block \in {"accepted", "refused"}

Next == Parse \/ (Parsed /\ UNCHANGED vars)

Spec == Init /\ [][Next]_vars /\ WF_vars(Parse)

-----------------------------------------------------------------------------

\* Whatever the file is, parse() comes to its end; and a file that says
\* something of one or more different servers is accepted, and they are what it
\* says: with what a location inherits and with what neither says
\* (Config.cpp:76-346).
MeansWhatItSays ==
    <>(Parsed /\ (file.means # <<>> => block = "accepted" /\ servers = file.means))

\* The first of some servers, given by their indices.
FirstOf(K) == servers[CHOOSE k \in K : \A j \in K : k <= j]

\* _setupSockets: the servers that share the socket of s; and _resolveConfig,
\* of the name that Host gives before a colon.
SocketOf(s) == {k \in DOMAIN servers : SameAddress(s, servers[k])}
ResolveConfig(group, name) ==
    LET named == {k \in group : name \in Range(servers[k].names)}
    IN  IF named = {} THEN FirstOf(group) ELSE FirstOf(named)

\* Whatever the file is, a server that is accepted answers to each of its
\* names: _resolveConfig, which takes the first match, never prefers another.
NamesResolve ==
    block = "accepted" =>
        \A s \in Range(servers) : \A name \in Range(s.names) :
            ResolveConfig(SocketOf(s), name) = s
=============================================================================
