------------------------------- MODULE Beside -------------------------------
(***************************************************************************)
(* Modules Connection and Inheritance, for TLC to check together.  They    *)
(* have no state in common: each behaviour is one of one of the two, and   *)
(* the variables of the other are idle.                                    *)
(***************************************************************************)
EXTENDS MCConnection, Inheritance

VARIABLE part  \* whose behaviour this is

connection == vars
besideVars == <<part, connection, inheritance>>

\* What the theorems about a connection assume: the rules, for the runs that
\* HasRuns builds.
ASSUME ConversationInputs ==
    /\ LimitsAreSizes
    /\ \A c \in Conversations : HasRuns(c)
    /\ MadeOf(Messages, UNION {Range(m.bytes) : m \in Messages})

\* What the theorems about descriptors assume.
ASSUME ServerIsNoScript == MainIsNoScript

-----------------------------------------------------------------------------

NoConnection ==
    /\ talk = <<>> /\ coming = <<>> /\ request = "off" /\ feeding = FALSE /\ stage = "off"
    /\ config = 1 /\ replies = <<>> /\ inputs = <<>> /\ late = FALSE
NoInheritance == InheritanceInit

BesideInit ==
    \/ part = "Connection" /\ Init /\ NoInheritance
    \/ part = "Inheritance" /\ InheritanceInit /\ NoConnection

NotConnection == UNCHANGED <<part, inheritance>>
NotInheritance == UNCHANGED <<part, connection>>

BesideNext ==
    \/ part = "Connection" /\ Next /\ NotConnection
    \/ part = "Inheritance" /\ InheritanceNext /\ NotInheritance

\* The fairness of each.
BesideFairness ==
    /\ WF_besideVars(part = "Connection" /\ Step /\ NotConnection)
    /\ \A c \in Client :
          /\ SF_besideVars(part = "Inheritance" /\ TimeOut(c) /\ NotInheritance)
          /\ WF_besideVars(part = "Inheritance" /\ SeesEof(c) /\ ScriptExits(c)
                             /\ NotInheritance)

BesideSpec == BesideInit /\ [][BesideNext]_besideVars /\ BesideFairness
=============================================================================
