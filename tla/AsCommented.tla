----------------------------- MODULE AsCommented -----------------------------
(***************************************************************************)
(* Inputs of which the code does not make what its comments say.  One      *)
(* connection, one restart, one configuration file, one form, one script's *)
(* output and one request go through their parts, each part after the one  *)
(* before it, and at the end every comment is held against what has become *)
(* of them.                                                                *)
(***************************************************************************)
EXTENDS MCResponse

CONSTANTS
    Conversations, Servers, BufferWidth,                        \* Connection
    Client, Main, Hanging,                                      \* Inheritance
    Files, Address, Bytes, SizeWidth,                           \* Config
    Forms, Unopened,                                            \* Form
    Prints, Garbage                                             \* ScriptReply

VARIABLES
    part,                                       \* whose turn it is
    talk, coming, request, feeding, stage, virtualHost, replies, inputs, late, \* Connection
    up, status, listen, sock, input, scriptOutput,              \* Inheritance
    file, i, block, server, loc, servers,       \* Config
    form, pos, formDisk, code,                  \* Form
    print, read, output, ended, scriptReply     \* ScriptReply

C == INSTANCE MCConnection WITH config <- virtualHost, SizeWidth <- BufferWidth
H == INSTANCE Inheritance WITH server <- up, output <- scriptOutput
K == INSTANCE MCConfig
F == INSTANCE MCForm WITH disk <- formDisk
P == INSTANCE MCScriptReply WITH reply <- scriptReply

connection == <<talk, coming, request, feeding, stage, virtualHost, replies, inputs, late>>
inheritance == <<up, status, listen, sock, input, scriptOutput>>
config == <<file, i, block, server, loc, servers>>
upload == <<form, pos, formDisk, code>>
script == <<print, read, output, ended, scriptReply>>
response == vars
oddVars == <<part, connection, inheritance, config, upload, script, response>>

\* The values of the constants, which depend on none of them.
ConnectionValues == INSTANCE MCConnection WITH
    Conversations <- {}, Servers <- <<>>, SizeWidth <- 1, config <- virtualHost
ConfigValues == INSTANCE MCConfig WITH Files <- {}, Address <- <<>>, Bytes <- <<>>, SizeWidth <- 1
FormValues == INSTANCE MCForm WITH Forms <- {}, Unopened <- {}, disk <- formDisk
ScriptValues == INSTANCE MCScriptReply WITH Prints <- {}, Garbage <- {}, reply <- scriptReply

OddConversations == {ConnectionValues!OddTalk}
AllServers == ConnectionValues!MCServers
OddFiles == {ConfigValues!RootAfterLocation}
AllAddress == ConfigValues!MCAddress
AllBytes == ConfigValues!MCBytes
Width == ConfigValues!MCWidth
OddForms == {FormValues!FieldAboutFile}
OddPrints == {ScriptValues!CrlfPrint}
AllGarbage == ScriptValues!MCGarbage
OneSite == {<<Root, Scripts>>}
HeadOfScript == {As(Get(<<"/", "c", "/", "s", ".py">>), "HEAD")}

-----------------------------------------------------------------------------

OddInit ==
    /\ part = "Connection"
    /\ C!Init /\ H!InheritanceInit /\ K!Init /\ F!Init /\ P!Init /\ Init

\* The reply to the one request is complete.
Served == req # NoRequest /\ reply.script = NoScript

\* The server was stopped, and its next start has failed or cannot fail.
Restarted == up # "up" /\ (listen = {} \/ up = "cannot bind")

\* A step of the part whose turn it is, or the turn of the next.
OddNext ==
    \/ /\ part = "Connection" /\ UNCHANGED <<inheritance, config, upload, script, response>>
       /\ IF C!Over THEN part' = "Inheritance" /\ UNCHANGED connection
                    ELSE C!Step /\ UNCHANGED part
    \/ /\ part = "Inheritance" /\ UNCHANGED <<connection, config, upload, script, response>>
       /\ IF Restarted THEN part' = "Config" /\ UNCHANGED inheritance
                       ELSE H!InheritanceNext /\ UNCHANGED part
    \/ /\ part = "Config" /\ UNCHANGED <<connection, inheritance, upload, script, response>>
       /\ IF K!Parsed THEN part' = "Form" /\ UNCHANGED config
                      ELSE K!Parse /\ UNCHANGED part
    \/ /\ part = "Form" /\ UNCHANGED <<connection, inheritance, config, script, response>>
       /\ IF code # 0 THEN part' = "ScriptReply" /\ UNCHANGED upload
                      ELSE F!Next /\ UNCHANGED part
    \/ /\ part = "ScriptReply" /\ UNCHANGED <<connection, inheritance, config, upload, response>>
       /\ IF ended THEN part' = "Response" /\ UNCHANGED script
                   ELSE P!Next /\ UNCHANGED part
    \/ /\ part = "Response" /\ UNCHANGED <<connection, inheritance, config, upload, script>>
       /\ IF Served THEN part' = "over" /\ UNCHANGED response
                    ELSE Next /\ UNCHANGED part
    \/ part = "over" /\ UNCHANGED oddVars

OddSpec == OddInit /\ [][OddNext]_oddVars

-----------------------------------------------------------------------------
(* What the comments say of these inputs.                                  *)

\* "If no server_name matches, fall back to the first config on that socket."
\* (Server.cpp:116): so it should be for a request that names no host.
FallsBack == replies[2].server = 1

\* "Also update the body-size limit to match the new config." (Client.cpp:87):
\* the body of a request for one host, after one for another, has the limit of
\* its own.
HasItsLimit == replies[3].code = 413

\* "Data can arrive in fragments" (Request.cpp:6): what has been sent in pieces
\* is read as what it is.
ReadInFragments == \A k \in DOMAIN replies : k > 3 => replies[k].code = talk[k].code

\* "Allow immediate reuse of the port after a restart" (Server.cpp:77)
BindsAtOnce == up # "cannot bind"

\* "If the location didn't set its own root, inherit the server's."
\* (Config.cpp:341)
InheritsRoot == servers = file.means

\* "Extract the filename from this part's headers." (Response.cpp:357): a
\* field whose text has such a thing in it is no file.
NamedByHeaders == F!StoredAsSent

\* "Support both \r\n\r\n and \n\n separators." (Response.cpp:132): the body is
\* what comes after either.
SupportsBoth == P!BodyAsPrinted

\* "A HEAD request wants the same headers as GET but NO body"
\* (Response.cpp:98).
NoBodyToHead == ~reply.bodySent

\* When all six parts are done, one at least of the comments has been kept:
\* the run shows a behaviour in which none is.
SomeCommentKept ==
    part = "over" =>
        \/ FallsBack \/ HasItsLimit \/ ReadInFragments \/ BindsAtOnce
        \/ InheritsRoot \/ NamedByHeaders \/ SupportsBoth \/ NoBodyToHead
=============================================================================
