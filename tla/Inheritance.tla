---------------------------- MODULE Inheritance ----------------------------
(***************************************************************************)
(* Who has what open.  fork() gives a script every descriptor of the       *)
(* server, and no descriptor is closed on exec: besides its own two pipes  *)
(* a script has the listening sockets, the sockets of the clients of that  *)
(* moment, and the ends of other scripts' pipes that the server keeps.     *)
(*                                                                         *)
(* A script may end at any time, and does when it has read its input, or   *)
(* it may never end, like www/cgi-bin/infinite.py; it may close its output *)
(* before it ends.  The peer of a client may go away; the server may be    *)
(* stopped and started again while scripts run.  Module Server has the one *)
(* process that poll() runs in; this one has all of them and of the server *)
(* only what opens and closes, and its wait for a script.                  *)
(***************************************************************************)
CONSTANTS
    Client,  \* the clients; each has at most one script, which has its name
    Main,    \* the process of the server
    Hanging  \* the clients whose scripts never end by themselves

\* What is assumed of them.
MainIsNoScript == Main \notin Client

VARIABLES
    server,  \* "up", "stopped", or "cannot bind" after a start that failed
    status,  \* of each client and its script
    listen,  \* the processes that have the listening socket open,
    sock,    \* for each client its socket,
    input,   \* for its script the write end of the pipe to its stdin,
    output   \* and the write end of the pipe from its stdout

inheritance == <<server, status, listen, sock, input, output>>

\* The script of c has not ended; "awaited": the server is in waitpid() for it.
Running(c) == status[c] \in {"running", "awaited"}

\* The server is in its loop.
Serving == server = "up" /\ \A c \in Client : status[c] # "awaited"

\* Nothing of client c is open any more.
Unused(c) == sock[c] = {} /\ input[c] = {} /\ output[c] = {}

\* Each of holders, after fork() of c and after exit of p.
Copied(holders, c) == IF Main \in holders THEN holders \cup {c} ELSE holders
AllCopied(h, c) == [d \in Client |-> Copied(h[d], c)]
AllWithout(h, p) == [d \in Client |-> h[d] \ {p}]
Exit(p) ==
    /\ listen' = listen \ {p}
    /\ sock' = AllWithout(sock, p)
    /\ input' = AllWithout(input, p)
    /\ output' = AllWithout(output, p)

-----------------------------------------------------------------------------

InheritanceInit ==
    /\ server = "up"
    /\ status = [c \in Client |-> "away"]
    /\ listen = {Main}
    /\ sock = [c \in Client |-> {}]
    /\ input = [c \in Client |-> {}]
    /\ output = [c \in Client |-> {}]

\* _acceptConnection.
Accept(c) ==
    /\ Serving
    /\ status[c] = "away"
    /\ Unused(c)
    /\ status' = [status EXCEPT ![c] = "connected"]
    /\ sock' = [sock EXCEPT ![c] = {Main}]
    /\ UNCHANGED <<server, listen, input, output>>

\* Mutant: the child keeps the write end of its own input.
LaunchScriptKeepingInput(c) ==
    /\ Serving
    /\ status[c] = "connected"
    /\ status' = [status EXCEPT ![c] = "running"]
    /\ listen' = Copied(listen, c)
    /\ sock' = AllCopied(sock, c)
    /\ \E withBody \in BOOLEAN :
          input' = [AllCopied(input, c) EXCEPT ![c] = IF withBody THEN {Main, c} ELSE {c}]
    /\ output' = [AllCopied(output, c) EXCEPT ![c] = {c}]
    /\ UNCHANGED server

\* Mutant: the parent keeps the write end of the output.
LaunchScriptKeepingOutput(c) ==
    /\ Serving
    /\ status[c] = "connected"
    /\ status' = [status EXCEPT ![c] = "running"]
    /\ listen' = Copied(listen, c)
    /\ sock' = AllCopied(sock, c)
    /\ \E withBody \in BOOLEAN :
          input' = [AllCopied(input, c) EXCEPT ![c] = IF withBody THEN {Main} ELSE {}]
    /\ output' = [AllCopied(output, c) EXCEPT ![c] = {Main, c}]
    /\ UNCHANGED server

\* CGI::execute and the branch of _processRequest after it: of its own pipes
\* the child closes pipeIn[1] and pipeOut[0] and the parent the other ends,
\* and pipeIn[1] too if there is no body.
LaunchScript(c) ==
    /\ Serving
    /\ status[c] = "connected"
    /\ status' = [status EXCEPT ![c] = "running"]
    /\ listen' = Copied(listen, c)
    /\ sock' = AllCopied(sock, c)
    /\ \E withBody \in BOOLEAN :
          input' = [AllCopied(input, c) EXCEPT ![c] = IF withBody THEN {Main} ELSE {}]
    /\ output' = [AllCopied(output, c) EXCEPT ![c] = {c}]
    /\ UNCHANGED server

\* _handleCGIWrite, at the end of the body or of the script's interest in it.
BodyWritten(c) ==
    /\ Serving
    /\ Main \in input[c]
    /\ input' = [input EXCEPT ![c] = @ \ {Main}]
    /\ UNCHANGED <<server, status, listen, sock, output>>

\* read() of its input returns 0 to the script.
SeesEof(c) == input[c] = {}

\* The script closes its stdout and goes on.
ClosesStdout(c) ==
    /\ status[c] = "running"
    /\ c \in output[c]
    /\ output' = [output EXCEPT ![c] = @ \ {c}]
    /\ UNCHANGED <<server, status, listen, sock, input>>

\* The script exits; if the server is in waitpid() for it, an answer is due.
ScriptExits(c) ==
    /\ Running(c)
    /\ c \notin Hanging
    /\ status' = [status EXCEPT ![c] = IF server # "up" THEN "away"
                                        ELSE IF @ = "awaited" THEN "connected" ELSE "exited"]
    /\ Exit(c)
    /\ UNCHANGED server

\* _handleCGIRead reads 0 and calls waitpid(), which returns if the script has
\* exited: an answer is due.
OutputEnds(c) ==
    /\ Serving
    /\ status[c] \in {"running", "exited"}
    /\ output[c] = {}
    /\ status' = [status EXCEPT ![c] = IF @ = "exited" THEN "connected" ELSE "awaited"]
    /\ UNCHANGED <<server, listen, sock, input, output>>

\* The server is in waitpid(), maybe for ever.
InWaitpid == server = "up" /\ ~Serving /\ UNCHANGED inheritance

\* Mutant: the script is not killed.
RemoveClientOnly(c) ==
    /\ Serving
    /\ status[c] # "away"
    /\ status' = [status EXCEPT ![c] = "away"]
    /\ sock' = [sock EXCEPT ![c] = @ \ {Main}]
    /\ input' = [input EXCEPT ![c] = @ \ {Main}]
    /\ UNCHANGED <<server, listen, output>>

\* _removeClient: a script that runs is killed.
RemoveClient(c) ==
    /\ Serving
    /\ status[c] # "away"
    /\ status' = [status EXCEPT ![c] = "away"]
    /\ listen' = listen \ {c}
    /\ sock' = [AllWithout(sock, c) EXCEPT ![c] = @ \ {Main}]
    /\ input' = [AllWithout(input, c) EXCEPT ![c] = @ \ {Main}]
    /\ output' = AllWithout(output, c)
    /\ UNCHANGED server

\* _checkTimeouts kills the script; the answer is 504.
TimeOut(c) ==
    /\ Serving
    /\ status[c] \in {"running", "exited"}
    /\ status' = [status EXCEPT ![c] = "connected"]
    /\ listen' = listen \ {c}
    /\ sock' = AllWithout(sock, c)
    /\ input' = [AllWithout(input, c) EXCEPT ![c] = @ \ {Main}]
    /\ output' = AllWithout(output, c)
    /\ UNCHANGED server

\* run() returns and main() ends: the scripts go on.
Stop ==
    /\ Serving
    /\ server' = "stopped"
    /\ status' = [c \in Client |-> IF status[c] = "running" THEN "running" ELSE "away"]
    /\ Exit(Main)

\* _setupSockets in the next start.
Start ==
    /\ server # "up"
    /\ listen = {}
    /\ server' = "up"
    /\ listen' = {Main}
    /\ UNCHANGED <<status, sock, input, output>>

\* bind() fails: SO_REUSEADDR does not let two sockets listen at one address,
\* and a script may still have the socket of the server that started it.
StartFails ==
    /\ server # "up"
    /\ listen # {}
    /\ server' = "cannot bind"
    /\ UNCHANGED <<status, listen, sock, input, output>>

InheritanceNext ==
    \/ \E c \in Client :
          \/ Accept(c) \/ LaunchScript(c) \/ BodyWritten(c) \/ ClosesStdout(c) \/ ScriptExits(c)
          \/ OutputEnds(c) \/ RemoveClient(c) \/ TimeOut(c)
    \/ InWaitpid \/ Stop \/ Start \/ StartFails

\* Every pass of the loop ends with _checkTimeouts, and time goes on while the
\* server is in waitpid().  A script that does not hang ends when it has read
\* its input.
Fairness ==
    \A c \in Client : SF_inheritance(TimeOut(c)) /\ WF_inheritance(SeesEof(c) /\ ScriptExits(c))

InheritanceSpec == InheritanceInit /\ [][InheritanceNext]_inheritance /\ Fairness

-----------------------------------------------------------------------------

\* The processes there are.
Alive == {c \in Client : Running(c)} \cup (IF server = "up" THEN {Main} ELSE {})

\* The variables have their types, and nothing is open in a process that was
\* killed, has exited or was never started.
TypeOK ==
    /\ server \in {"up", "stopped", "cannot bind"}
    /\ status \in [Client -> {"away", "connected", "running", "awaited", "exited"}]
    /\ listen \in SUBSET Alive
    /\ sock \in [Client -> SUBSET Alive]
    /\ input \in [Client -> SUBSET Alive]
    /\ output \in [Client -> SUBSET Alive]

\* The output of a script ends with the script at the latest: nobody but the
\* script itself ever has it open, so the read() in _handleCGIRead never waits
\* for a copy in another process.
OutputEndsWithScript == \A c \in Client : output[c] \subseteq IF Running(c) THEN {c} ELSE {}

\* A script that waits for the end of its input waits for the processes that
\* have its pipe open.  Scripts never wait for each other in a circle: in any
\* group of them there is one that waits for none of the group.
NoCircularWait ==
    \A group \in (SUBSET Client) \ {{}} : \E c \in group : input[c] \cap group = {}

\* The server has been stopped while a script ran that never ends.
Abandoned == server # "up" /\ \E c \in Hanging : Running(c)

\* Every script comes to its end, by itself or killed, whichever others have its
\* pipe open, unless the server stays in waitpid() or was stopped while a script
\* ran that never ends.
ScriptsEnd ==
    \A c \in Client :
        []<>(server = "up" => Serving) /\ []<>~Abandoned => (Running(c) ~> ~Running(c))

\* Once the server is stopped, its port is free some day, unless a script ran
\* that never ends.
PortFreed == server # "up" /\ ~Abandoned ~> listen = {}
=============================================================================
