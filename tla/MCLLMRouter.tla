------------------------------ MODULE MCLLMRouter -----------------------------
(* Small instances of LLMRouter for TLC. *)
EXTENDS LLMRouter, SequencesExt

\* Every order of at most two entries and every list of at most two rules,
\* two rules for one reason and repeated aliases included.
Orders == SeqOf(Aliases, 2)
Rules == [when : Reasons, use : SeqOf(Aliases, 2) \ {<<>>}]
MCConfigs == [order : Orders, rules : SeqOf(Rules, 2)]

\* Orders without rules.
PlainConfigs == [order : Orders, rules : {<<>>}]
=============================================================================
