----------------------------- MODULE MCTokenizer -----------------------------
(***************************************************************************)
(* Texts for module Tokenizer: every one up to a length.                   *)
(***************************************************************************)
EXTENDS Tokenizer

Characters == {"{", ";", " ", "\n", "#", "a"}

MCTexts == UNION {[1..n -> Characters] : n \in 0..5}
=============================================================================
