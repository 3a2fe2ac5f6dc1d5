------------------------------ MODULE MCDebugApp ------------------------------
(* Small instances of DebugApp for TLC. *)
EXTENDS DebugApp
CONSTANTS here, there, ann, bob, biology, cells, asked1, asked2

MCRoots == [l \in {"users", "traces"} |-> IF l = "users" THEN {ann, bob} ELSE {asked1, asked2}]
MCChildren == [n \in {ann, biology} |-> IF n = ann THEN {biology} ELSE {cells}]

\* "2", "10", "1a" and NULL; the first two also as numbers.
Two == [num |-> 2, text |-> 3]
Ten == [num |-> 10, text |-> 1]
Text == [num |-> None, text |-> 2]
\* The page is used in a session that nobody touches, and the session is
\* followed for longer with a page that nobody uses.
OneAtATime == pageMoves > 0 => moves = 1

MCTables == {<<Ten, Two, None>>, <<Two, Ten, Text>>}
===============================================================================
