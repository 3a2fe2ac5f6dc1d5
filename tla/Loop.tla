---------------------------------- MODULE Loop ---------------------------------
(***************************************************************************)
(* A for loop over a list: acc = body(c, acc, x) for each x in turn.  The  *)
(* folds of the community modules go over sets of indices; this one goes   *)
(* over the list in its order, one step at a time, as the loops of the     *)
(* code do, and Loop_proofs proves about it by induction.                  *)
(***************************************************************************)
EXTENDS Naturals, Sequences

CONSTANT Body(_, _, _)

\* What the loop has computed after its first n steps.
After(c, base, xs, n) ==
  LET acc[i \in 0..n] == IF i = 0 THEN base ELSE Body(c, acc[i - 1], xs[i])
  IN  acc[n]

Loop(c, base, xs) == After(c, base, xs, Len(xs))
================================================================================
