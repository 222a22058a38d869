-------------------------- MODULE InheritanceProofs --------------------------
(***************************************************************************)
(* The safety properties of module Inheritance, for any set of clients.    *)
(***************************************************************************)
EXTENDS Inheritance, TLAPS

IInv == TypeOK /\ OutputEndsWithScript

\* Nothing is open, and nobody runs, before the first client comes.
LEMMA InitIInv == InheritanceInit => IInv
BY DEF InheritanceInit, IInv, TypeOK, OutputEndsWithScript, Alive, Running

-----------------------------------------------------------------------------

\* A script that is launched has its own output open, and nobody else has.
LEMMA LaunchIInv ==
    ASSUME IInv, MainIsNoScript, NEW c \in Client, LaunchScript(c)
    PROVE  IInv'
<1>1. Alive \subseteq Alive' /\ c \in Alive' /\ Main \in Alive'
  BY DEF IInv, TypeOK, LaunchScript, Alive, Running, Serving
<1>2. \A h \in SUBSET Alive : Copied(h, c) \in SUBSET Alive'
  BY <1>1 DEF Copied
<1>3. \A h \in [Client -> SUBSET Alive] : AllCopied(h, c) \in [Client -> SUBSET Alive']
  BY <1>2 DEF AllCopied
<1>4. TypeOK'
  <2>1. server' \in {"up", "stopped", "cannot bind"}
    BY DEF IInv, TypeOK, LaunchScript, Serving
  <2>2. status' \in [Client -> {"away", "connected", "running", "awaited", "exited"}]
    BY DEF IInv, TypeOK, LaunchScript
  <2>3. listen' \in SUBSET Alive'
    BY <1>2 DEF IInv, TypeOK, LaunchScript
  <2>4. sock' \in [Client -> SUBSET Alive']
    BY <1>3 DEF IInv, TypeOK, LaunchScript
  <2>5. input' \in [Client -> SUBSET Alive']
    <3>1. AllCopied(input, c) \in [Client -> SUBSET Alive']
      BY <1>3 DEF IInv, TypeOK
    <3>2. PICK withBody \in BOOLEAN :
             input' = [AllCopied(input, c) EXCEPT ![c] = IF withBody THEN {Main} ELSE {}]
      BY DEF LaunchScript
    <3> QED BY <1>1, <3>1, <3>2
  <2>6. output' \in [Client -> SUBSET Alive']
    <3>1. AllCopied(output, c) \in [Client -> SUBSET Alive']
      BY <1>3 DEF IInv, TypeOK
    <3> QED BY <1>1, <3>1 DEF LaunchScript
  <2> QED BY <2>1, <2>2, <2>3, <2>4, <2>5, <2>6 DEF TypeOK
<1>5. ASSUME NEW d \in Client
      PROVE  output'[d] \subseteq IF Running(d)' THEN {d} ELSE {}
  <2>1. output[d] \subseteq IF Running(d) THEN {d} ELSE {}
    BY DEF IInv, OutputEndsWithScript
  <2>2. CASE d = c
    BY <2>2 DEF IInv, TypeOK, LaunchScript, AllCopied, Running
  <2>3. CASE d # c
    <3>1. output'[d] = Copied(output[d], c)
      BY <2>3 DEF LaunchScript, AllCopied
    <3>2. status'[d] = status[d]
      BY <2>3 DEF IInv, TypeOK, LaunchScript
    <3> QED BY <2>1, <3>1, <3>2 DEF Copied, MainIsNoScript, Running
  <2> QED BY <2>2, <2>3
<1> QED BY <1>4, <1>5 DEF IInv, OutputEndsWithScript

\* A step that opens nothing, and closes all that a process has which ends.
LEMMA CloseIInv ==
    ASSUME IInv,
           server' \in {"up", "stopped", "cannot bind"},
           status' \in [Client -> {"away", "connected", "running", "awaited", "exited"}],
           listen' \in SUBSET Alive', sock' \in [Client -> SUBSET Alive'],
           input' \in [Client -> SUBSET Alive'],
           output' \in [Client -> SUBSET Alive'],
           MainIsNoScript, \A d \in Client : output'[d] \subseteq output[d]
    PROVE  IInv'
<1>1. TypeOK'
  BY DEF TypeOK
<1>2. ASSUME NEW d \in Client
      PROVE  output'[d] \subseteq IF Running(d)' THEN {d} ELSE {}
  <2>1. output'[d] \subseteq {d}
    BY DEF IInv, OutputEndsWithScript
  <2>2. CASE Running(d)'
    BY <2>1, <2>2
  <2>3. CASE ~Running(d)'
    <3>1. d \notin Alive'
      BY <2>3 DEF Alive, MainIsNoScript
    <3> QED BY <2>1, <2>3, <3>1
  <2> QED BY <2>2, <2>3
<1> QED BY <1>1, <1>2 DEF IInv, OutputEndsWithScript

\* When c's script ends, by itself or killed, everybody else stays.
LEMMA ScriptGone ==
    ASSUME IInv, MainIsNoScript, NEW c \in Client, NEW st \in {"away", "connected", "exited"},
           status' = [status EXCEPT ![c] = st],
           UNCHANGED server,
           listen' = listen \ {c},
           \/ sock' = AllWithout(sock, c)
           \/ sock' = [AllWithout(sock, c) EXCEPT ![c] = @ \ {Main}],
           \/ input' = AllWithout(input, c)
           \/ input' = [AllWithout(input, c) EXCEPT ![c] = @ \ {Main}],
           output' = AllWithout(output, c)
    PROVE  IInv'
<1>1. Alive' = Alive \ {c}
  BY DEF IInv, TypeOK, Alive, Running, MainIsNoScript
<1>2. status' \in [Client -> {"away", "connected", "running", "awaited", "exited"}]
  BY DEF IInv, TypeOK
<1>3. \A h \in [Client -> SUBSET Alive] :
         /\ AllWithout(h, c) \in [Client -> SUBSET Alive']
         /\ [AllWithout(h, c) EXCEPT ![c] = @ \ {Main}] \in [Client -> SUBSET Alive']
  BY <1>1 DEF AllWithout
<1>4. listen' \in SUBSET Alive' /\ sock' \in [Client -> SUBSET Alive']
  BY <1>1, <1>3 DEF IInv, TypeOK
<1>5. input' \in [Client -> SUBSET Alive'] /\ output' \in [Client -> SUBSET Alive']
  BY <1>3 DEF IInv, TypeOK
<1>7. \A d \in Client : output'[d] \subseteq output[d]
  BY DEF AllWithout
<1>8. server' \in {"up", "stopped", "cannot bind"}
  BY DEF IInv, TypeOK
<1> QED BY <1>2, <1>4, <1>5, <1>7, <1>8, CloseIInv

\* When the server ends, the scripts stay.
LEMMA StopIInv ==
    ASSUME IInv, MainIsNoScript, Stop
    PROVE  IInv'
<1>1. Alive' = Alive \ {Main}
  BY DEF IInv, TypeOK, Alive, Stop, Running, Serving, MainIsNoScript
<1>2. \A h \in [Client -> SUBSET Alive] : AllWithout(h, Main) \in [Client -> SUBSET Alive']
  BY <1>1 DEF AllWithout
<1>3. listen' \in SUBSET Alive'
  BY <1>1 DEF IInv, TypeOK, Stop, Exit
<1>4. /\ sock' \in [Client -> SUBSET Alive']
      /\ input' \in [Client -> SUBSET Alive']
      /\ output' \in [Client -> SUBSET Alive']
  BY <1>2 DEF IInv, TypeOK, Stop, Exit
<1>5. server' = "stopped" /\ status' \in [Client -> {"away", "connected", "running", "awaited", "exited"}]
  BY DEF Stop
<1>7. \A d \in Client : output'[d] \subseteq output[d]
  BY DEF Stop, Exit, AllWithout
<1> QED BY <1>3, <1>4, <1>5, <1>7, CloseIInv

\* A start that finds the port free opens the listening socket once more.
LEMMA StartIInv ==
    ASSUME IInv, Start
    PROVE  IInv'
<1>1. Alive \subseteq Alive'
  BY DEF Alive, Start, Running
<1>2. listen' \in SUBSET Alive'
  BY DEF Start, Alive
<1> QED BY <1>1, <1>2 DEF IInv, TypeOK, OutputEndsWithScript, Start, Running

\* One step per action.
LEMMA NextIInv ==
    ASSUME MainIsNoScript
    PROVE  IInv /\ [InheritanceNext]_inheritance => IInv'
<1> SUFFICES ASSUME IInv, [InheritanceNext]_inheritance PROVE IInv'
  OBVIOUS
<1>1. ASSUME NEW c \in Client, Accept(c) PROVE IInv'
  BY <1>1 DEF IInv, TypeOK, OutputEndsWithScript, Alive, Accept, Running, Serving
<1>2. ASSUME NEW c \in Client, LaunchScript(c) PROVE IInv'
  BY <1>2, LaunchIInv
<1>3. ASSUME NEW c \in Client, BodyWritten(c) PROVE IInv'
  BY <1>3 DEF IInv, TypeOK, OutputEndsWithScript, Alive, BodyWritten, Running, Serving
<1>4. ASSUME NEW c \in Client, ScriptExits(c) PROVE IInv'
  <2>1. PICK st \in {"away", "connected", "exited"} : status' = [status EXCEPT ![c] = st]
    BY <1>4 DEF ScriptExits
  <2> QED BY <1>4, <2>1, ScriptGone DEF ScriptExits, Exit
<1>5. ASSUME NEW c \in Client, OutputEnds(c) PROVE IInv'
  <2>1. \A d \in Client : Running(d)' <=> Running(d)
    BY <1>5 DEF IInv, TypeOK, OutputEnds, Running
  <2>2. Alive' = Alive
    BY <1>5, <2>1 DEF Alive, OutputEnds
  <2>3. status' \in [Client -> {"away", "connected", "running", "awaited", "exited"}]
    BY <1>5 DEF IInv, TypeOK, OutputEnds
  <2> QED BY <1>5, <2>1, <2>2, <2>3 DEF IInv, TypeOK, OutputEndsWithScript, OutputEnds
<1>6. ASSUME NEW c \in Client, RemoveClient(c) PROVE IInv'
  BY <1>6, ScriptGone DEF RemoveClient
<1>7. ASSUME NEW c \in Client, TimeOut(c) PROVE IInv'
  BY <1>7, ScriptGone DEF TimeOut
<1>8. CASE Stop
  BY <1>8, StopIInv
<1>12. ASSUME NEW c \in Client, ClosesStdout(c) PROVE IInv'
  <2>1. output' \in [Client -> SUBSET Alive] /\ \A d \in Client : output'[d] \subseteq output[d]
    BY <1>12 DEF IInv, TypeOK, ClosesStdout
  <2>2. Alive' = Alive /\ \A d \in Client : Running(d)' <=> Running(d)
    BY <1>12 DEF ClosesStdout, Alive, Running
  <2> QED BY <1>12, <2>1, <2>2 DEF IInv, TypeOK, OutputEndsWithScript, ClosesStdout
<1>9. CASE Start
  BY <1>9, StartIInv
<1>10. CASE StartFails
  BY <1>10 DEF StartFails, IInv, TypeOK, OutputEndsWithScript, Alive, Running
<1>11. CASE InWaitpid \/ UNCHANGED inheritance
  <2>1. UNCHANGED inheritance
    BY <1>11 DEF InWaitpid
  <2> QED BY <2>1 DEF inheritance, IInv, TypeOK, OutputEndsWithScript, Alive, Running
<1> QED
  BY <1>1, <1>2, <1>3, <1>4, <1>5, <1>6, <1>7, <1>8, <1>9, <1>10, <1>11, <1>12 DEF InheritanceNext

\* The types, and that only processes that run have anything open.
THEOREM Typed ==
    ASSUME MainIsNoScript
    PROVE  InheritanceSpec => []TypeOK
<1>1. InheritanceInit => IInv
  BY InitIInv
<1>2. IInv /\ [InheritanceNext]_inheritance => IInv'
  BY NextIInv
<1>3. IInv => TypeOK
  BY DEF IInv
<1> QED BY <1>1, <1>2, <1>3, PTL DEF InheritanceSpec

\* Nobody but the script itself holds its output, and nobody does when it has
\* ended: its end of file never waits for another process.
THEOREM OutputEnds_Script ==
    ASSUME MainIsNoScript
    PROVE  InheritanceSpec => []OutputEndsWithScript
<1>1. InheritanceInit => IInv
  BY InitIInv
<1>2. IInv /\ [InheritanceNext]_inheritance => IInv'
  BY NextIInv
<1>3. IInv => OutputEndsWithScript
  BY DEF IInv
<1> QED BY <1>1, <1>2, <1>3, PTL DEF InheritanceSpec

-----------------------------------------------------------------------------

\* Closing descriptors makes nobody wait.
LEMMA CloseNoCircle ==
    ASSUME NoCircularWait, \A d \in Client : input'[d] \subseteq input[d]
    PROVE  NoCircularWait'
<1> SUFFICES ASSUME NEW group \in (SUBSET Client) \ {{}}
             PROVE  \E d \in group : input'[d] \cap group = {}
  BY DEF NoCircularWait
<1>1. PICK d \in group : input[d] \cap group = {}
  BY DEF NoCircularWait
<1> QED BY <1>1

\* A script that is launched waits for the server only, so that a group with
\* it has a member, the new script, that waits for none of the group; and a
\* group without it is as it was.
LEMMA LaunchNoCircle ==
    ASSUME NoCircularWait, TypeOK, MainIsNoScript, NEW c \in Client, LaunchScript(c)
    PROVE  NoCircularWait'
<1> SUFFICES ASSUME NEW group \in (SUBSET Client) \ {{}}
             PROVE  \E d \in group : input'[d] \cap group = {}
  BY DEF NoCircularWait
<1>1. CASE c \in group
  <2>1. input'[c] \subseteq {Main}
    BY DEF LaunchScript, AllCopied
  <2> QED BY <1>1, <2>1 DEF MainIsNoScript
<1>2. CASE c \notin group
  <2>1. PICK d \in group : input[d] \cap group = {}
    BY DEF NoCircularWait
  <2>2. input'[d] \subseteq input[d] \cup {c}
    BY <1>2, <2>1 DEF LaunchScript, AllCopied, Copied
  <2> QED BY <1>2, <2>1, <2>2
<1> QED BY <1>1, <1>2

\* One step for the action that opens pipes, one for those that close them.
LEMMA NextNoCircle ==
    ASSUME MainIsNoScript
    PROVE  TypeOK /\ NoCircularWait /\ [InheritanceNext]_inheritance => NoCircularWait'
<1> SUFFICES ASSUME TypeOK, NoCircularWait, [InheritanceNext]_inheritance PROVE NoCircularWait'
  OBVIOUS
<1>1. ASSUME NEW c \in Client, LaunchScript(c) PROVE NoCircularWait'
  BY <1>1, LaunchNoCircle
<1>2. ASSUME NEW c \in Client,
             BodyWritten(c) \/ ScriptExits(c) \/ RemoveClient(c) \/ TimeOut(c)
      PROVE  NoCircularWait'
  <2>1. \A d \in Client : input'[d] \subseteq input[d]
    BY <1>2, ZenonT(40) DEF TypeOK, BodyWritten, ScriptExits, RemoveClient, TimeOut, Exit, AllWithout
  <2> QED BY <2>1, CloseNoCircle
<1>3. CASE Stop
  <2>1. \A d \in Client : input'[d] \subseteq input[d]
    BY <1>3 DEF Stop, Exit, AllWithout
  <2> QED BY <2>1, CloseNoCircle
<1>4. ASSUME UNCHANGED input PROVE NoCircularWait'
  BY <1>4 DEF NoCircularWait
<1>5. ASSUME NEW c \in Client, Accept(c) \/ OutputEnds(c) \/ ClosesStdout(c)
      PROVE  NoCircularWait'
  BY <1>4, <1>5 DEF Accept, OutputEnds, ClosesStdout
<1>6. CASE Start \/ StartFails \/ InWaitpid \/ UNCHANGED inheritance
  BY <1>4, <1>6 DEF Start, StartFails, InWaitpid, inheritance
<1> QED BY <1>1, <1>2, <1>3, <1>5, <1>6 DEF InheritanceNext

\* No scripts wait for each other in a circle, however many there are.
THEOREM NoCircle ==
    ASSUME MainIsNoScript
    PROVE  InheritanceSpec => []NoCircularWait
<1>1. InheritanceInit => NoCircularWait
  BY DEF InheritanceInit, NoCircularWait
<1>2. TypeOK /\ NoCircularWait /\ [InheritanceNext]_inheritance => NoCircularWait'
  BY NextNoCircle
<1> QED BY <1>1, <1>2, Typed, PTL DEF InheritanceSpec
=============================================================================
