------------------------------ MODULE MCServer ------------------------------
(***************************************************************************)
(* Module Server for TLC: symmetry and the properties in the form that the *)
(* configurations use.                                                     *)
(***************************************************************************)
EXTENDS ServerProperties, ServerExchange, TLC

\* Peers and process ids are interchangeable.
Symmetry == Permutations(Peer) \cup Permutations(Pid)

=============================================================================
