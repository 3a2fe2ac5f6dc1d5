--------------------------------- MODULE Lists ---------------------------------
(***************************************************************************)
(* [x for x in s if x in S], a loop that several parts of the code have.   *)
(***************************************************************************)
EXTENDS Naturals, Sequences

KeepIf(S, kept, x) == IF x \in S THEN Append(kept, x) ELSE kept

Filter == INSTANCE Loop WITH Body <- KeepIf

\* The elements of s that are in S, in their order.
Keep(s, S) == Filter!Loop(S, <<>>, s)
================================================================================
