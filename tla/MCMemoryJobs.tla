----------------------------- MODULE MCMemoryJobs -----------------------------
(* Small instances of MemoryJobs for TLC. *)
EXTENDS MemoryJobs, TLC

\* Turns and scopes are interchangeable, and so are workers.
Symmetry == Permutations(Turns) \cup Permutations(Scopes) \cup Permutations(Workers)
=============================================================================
