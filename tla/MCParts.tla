------------------------------- MODULE MCParts -------------------------------
(***************************************************************************)
(* Module Parts for TLC: the inputs of each part.                          *)
(***************************************************************************)
EXTENDS Parts, MCResponse

\* The values of the constants, which depend on none of them.
TokenizerValues == INSTANCE MCTokenizer WITH Texts <- {}
ConfigValues == INSTANCE MCConfig WITH Files <- {}, Address <- <<>>, Bytes <- <<>>, SizeWidth <- 1
UriValues == INSTANCE MCUri WITH Uris <- {}, Hex <- <<>>
FormValues == INSTANCE MCForm WITH Forms <- {}, Unopened <- {}, disk <- formDisk
ScriptValues == INSTANCE MCScriptReply WITH Prints <- {}, Garbage <- {}, reply <- scriptReply

AllTexts == TokenizerValues!MCTexts
AllFiles == ConfigValues!MCFiles
AllAddress == ConfigValues!MCAddress
AllBytes == ConfigValues!MCBytes
Width == ConfigValues!MCWidth
AllUris == UriValues!MCUris
AllHex == UriValues!MCHex
AllForms == FormValues!MCForms
AllUnopened == FormValues!MCUnopened
AllPrints == ScriptValues!MCPrints
AllGarbage == ScriptValues!MCGarbage

\* What the theorems about the response builder assume of its inputs.
ASSUME ResponseInputs == InputsTyped /\ HeadNeedsGet /\ RedirectsElsewhere /\ RedirectsAway

\* What the theorem about words assumes of the files.
ASSUME TextInputs == \A s \in Texts : s \in Seq(TokenizerValues!Characters)

\* What the theorem about forms assumes of them.
Within(sequences) == UNION {Range(s) : s \in sequences}
ASSUME FormInputs ==
    LET fields == Within({f.parts : f \in Forms})
        bytes == Within({f.bytes : f \in Forms} \cup UNION {{p.name, p.data} : p \in fields})
    IN  F!MadeOf(bytes, fields) /\ \A f \in Forms : F!LaidOut(f, FormValues!Marks(f))

\* What the theorem about paths assumes of the targets.
ASSUME UriInputs == U!TargetsOf(UriValues!AllBytes)

\* What the theorem about scripts is about.
ASSUME ScriptInputs == \A p \in Prints : P!ByTheRules(p)
=============================================================================
