------------------------------ MODULE UndoHistory ------------------------------
(***************************************************************************)
(* What the undo button of the whiteboard promises: every change of the    *)
(* drawing keeps exactly the drawing before it, undo brings back the       *)
(* newest one, and clearing the canvas forgets them all.  Nothing is       *)
(* promised any more once the drawing was changed in the middle of a       *)
(* gesture that holds a part of it.                                        *)
(***************************************************************************)
EXTENDS Integers, Sequences

CONSTANT Blank  \* the empty canvas

VARIABLES drawing, past, torn

Init == drawing = Blank /\ past = <<>> /\ torn = FALSE

\* Any drawing may follow, and the one before it is kept.
Change == past' = Append(past, drawing)

Undo ==
  /\ past # <<>>
  /\ drawing' = past[Len(past)]
  /\ past' = SubSeq(past, 1, Len(past) - 1)

Clear == drawing' = Blank /\ past' = <<>>

Next == torn' = TRUE \/ (torn' = FALSE /\ (Change \/ Undo \/ Clear))

Spec == Init /\ [][Next]_<<drawing, past, torn>>
================================================================================
