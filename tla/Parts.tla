-------------------------------- MODULE Parts --------------------------------
(***************************************************************************)
(* The parts of the program that work by themselves, on one input and      *)
(* without waiting for anything, checked together: each behaviour is one   *)
(* of one part.  The variables of the other parts are "off"; those of the  *)
(* response builder, which this module extends, are idle.                  *)
(***************************************************************************)
EXTENDS Response

CONSTANTS
    Texts,                                                      \* Tokenizer
    Files, Address, Bytes, SizeWidth,                           \* Config
    Uris, Hex,                                                  \* Uri
    Forms, Unopened,                                            \* Form
    Prints, Garbage                                             \* ScriptReply

ASSUME SizesAndClock == SizeWidth \in Nat \ {0} /\ MaxClock \in Nat

VARIABLES
    part,                                       \* whose behaviour this is
    text, content, token, tokens,               \* Tokenizer
    file, i, block, server, loc, servers,       \* Config
    uri, query, slash, parts, stack, path,      \* Uri
    form, pos, formDisk, code,                  \* Form
    print, read, output, ended, scriptReply     \* ScriptReply

T == INSTANCE Tokenizer
K == INSTANCE Config
U == INSTANCE Uri
F == INSTANCE Form WITH disk <- formDisk
P == INSTANCE ScriptReply WITH reply <- scriptReply

tokenizer == <<text, content, token, tokens>>
config == <<file, i, block, server, loc, servers>>
target == <<uri, query, slash, parts, stack, path>>
response == vars
upload == <<form, pos, formDisk, code>>
script == <<print, read, output, ended, scriptReply>>
partsVars == <<part, tokenizer, config, target, response, upload, script>>

-----------------------------------------------------------------------------

NotTokenizer == UNCHANGED <<part, config, target, response, upload, script>>
NotConfig    == UNCHANGED <<part, tokenizer, target, response, upload, script>>
NotUri       == UNCHANGED <<part, tokenizer, config, response, upload, script>>
NotResponse  == UNCHANGED <<part, tokenizer, config, target, upload, script>>
NotForm      == UNCHANGED <<part, tokenizer, config, target, response, script>>
NotScript    == UNCHANGED <<part, tokenizer, config, target, response, upload>>

NoTokenizer == text = "off" /\ content = "off" /\ token = "off" /\ tokens = "off"
NoConfig == /\ file = "off" /\ i = "off" /\ block = "off"
            /\ server = "off" /\ loc = "off" /\ servers = "off"
NoUri == /\ uri = "off" /\ query = "off" /\ slash = "off"
         /\ parts = "off" /\ stack = "off" /\ path = "off"
NoResponse == /\ site = <<>> /\ disk = (CHOOSE d \in Disks : TRUE) /\ clock = 0
              /\ req = NoRequest /\ reply = Answer(0, Empty)
NoForm == form = "off" /\ pos = "off" /\ formDisk = "off" /\ code = "off"
NoPrint == /\ print = "off" /\ read = "off" /\ output = "off"
           /\ ended = "off" /\ scriptReply = "off"

PartsInit ==
    \/ part = "Tokenizer" /\ T!Init /\ NoConfig /\ NoUri /\ NoResponse /\ NoForm /\ NoPrint
    \/ part = "Config" /\ K!Init /\ NoTokenizer /\ NoUri /\ NoResponse /\ NoForm /\ NoPrint
    \/ part = "Uri" /\ U!Init /\ NoTokenizer /\ NoConfig /\ NoResponse /\ NoForm /\ NoPrint
    \/ part = "Response" /\ Init /\ NoTokenizer /\ NoConfig /\ NoUri /\ NoForm /\ NoPrint
    \/ part = "Form" /\ F!Init /\ NoTokenizer /\ NoConfig /\ NoUri /\ NoResponse /\ NoPrint
    \/ part = "ScriptReply" /\ P!Init /\ NoTokenizer /\ NoConfig /\ NoUri /\ NoResponse /\ NoForm

PartsNext ==
    \/ part = "Tokenizer" /\ T!Next /\ NotTokenizer
    \/ part = "Config" /\ K!Next /\ NotConfig
    \/ part = "Uri" /\ U!Next /\ NotUri
    \/ part = "Response" /\ Next /\ NotResponse
    \/ part = "Form" /\ F!Next /\ NotForm
    \/ part = "ScriptReply" /\ P!Next /\ NotScript

ParseConfig == part = "Config" /\ K!Parse /\ NotConfig

PartsSpec == PartsInit /\ [][PartsNext]_partsVars /\ WF_partsVars(ParseConfig)

-----------------------------------------------------------------------------
(* The properties of the parts, each of the behaviours of its part.  Those *)
(* of the response builder are those of module Response.                   *)

\* A configuration file is cut into its words, without the comments
\* (Config.cpp:63-70, 126-150).
WordsOfFile == part = "Tokenizer" => T!WordsOfFile

\* A configuration file comes to mean what it says (Config.cpp:76-346).
MeansWhatItSays == part = "Config" => K!MeansWhatItSays

\* Every name of an accepted server leads to that server (Config.cpp:99-116).
NamesResolve == part = "Config" => K!NamesResolve

\* The path of a request is decoded and clean (Request.cpp:145-177).
PathIsClean == part = "Uri" => U!PathIsClean

\* A form leaves its files as they were sent (Response.cpp:340-394).
StoredAsSent == part = "Form" => F!StoredAsSent

\* A script's reply is what it printed (Response.cpp:119-172).
ReplyAsPrinted == part = "ScriptReply" => P!ReplyAsPrinted
=============================================================================
