------------------------------ MODULE Whiteboard ------------------------------
(***************************************************************************)
(* The whiteboard page: pages/WhiteboardPage.tsx with its canvas and       *)
(* toolbar (WhiteboardCanvas.tsx, WhiteboardToolbar.tsx) and the geometry  *)
(* of lib/whiteboard.ts.                                                   *)
(*                                                                         *)
(* The canvas listens to pointer events and to the keyboard; a gesture     *)
(* lasts over several of them and is held in refs, one for each kind, that *)
(* no other handler clears.  A second finger, a key or a button of the     *)
(* toolbar may come in between.                                            *)
(*                                                                         *)
(* The plane is one axis: an element is the span it covers, since the code *)
(* treats the other axis the same way.  A pen, a line, an arrow, a         *)
(* rectangle and an ellipse differ in how a drag makes the span.  Elements *)
(* are only ever added on top, so an element is its number and a drawing   *)
(* maps the numbers of its elements, in their order, to their spans.       *)
(***************************************************************************)
EXTENDS Integers, Sequences

CONSTANTS
  MaxPos,       \* bound: pointer positions of the canvas
  MaxElements,  \* bound: elements made
  MaxStrokes,   \* bound: pointer and keyboard events since the page opened
  None

Points == 0..MaxPos
Tools == {"select", "pen", "shape", "text", "eraser"}

VARIABLE board  \* the state and the refs of the page and its canvas

Least(S) == CHOOSE x \in S : \A y \in S : x <= y
Greatest(S) == CHOOSE x \in S : \A y \in S : x >= y

-----------------------------------------------------------------------------
(* Geometry.                                                               *)

Blank == [i \in {} |-> None]

\* pointInElement, and the last element under the pointer.
PointInElement(p, span) == span.lo <= p /\ p <= span.hi

HitTest(p, els) ==
  LET under == {i \in DOMAIN els : PointInElement(p, els[i])}
  IN  IF under = {} THEN {} ELSE {Greatest(under)}

TranslateElement(span, d) == [lo |-> span.lo + d, hi |-> span.hi + d]

\* Scaled about an anchor by num/den, to the grid.
ScaleElement(span, anchor, num, den) ==
  LET scaled(v) == anchor + ((v - anchor) * num) \div den
  IN  [lo |-> scaled(span.lo), hi |-> scaled(span.hi)]

\* unionBounds of these elements.
UnionBounds(els, ids) ==
  [lo |-> Least({els[i].lo : i \in ids}), hi |-> Greatest({els[i].hi : i \in ids})]

Intersects(box, span) == box.lo < span.hi /\ box.hi > span.lo

\* resizeScale: the pointer's distance from the anchor over the width, kept
\* above zero; a box without width is not scaled.
ResizeScale(b, handle, p) ==
  IF b.hi > b.lo
  THEN <<Greatest({1, IF handle = "e" THEN p - b.lo ELSE b.hi - p}), b.hi - b.lo>>
  ELSE <<1, 1>>

-----------------------------------------------------------------------------
(* The drawing and its history.                                            *)

\* The page as it opens.
Fresh == [tool |-> "pen", elements |-> Blank, history |-> <<>>, canUndo |-> FALSE,
          selected |-> {}, draft |-> None, text |-> None, lasso |-> None,
          moving |-> None, moved |-> FALSE, resizing |-> None,
          made |-> 0, strokes |-> 0, torn |-> FALSE]

\* Selected elements that are still there: what the selection box is around.
Present == board.selected \cap DOMAIN board.elements

\* Elements are held by a gesture until the pointer is up.
Held == board.moving # None \/ board.resizing # None

PushHistory(b, snapshot) == [b EXCEPT !.history = Append(@, snapshot)]

\* setElements and the effect that follows it: only a new list of elements
\* tells the toolbar whether there is something to undo.
SetElements(b, els) == [b EXCEPT !.elements = els, !.canUndo = b.history # <<>>]

\* The drawing is edited at once; the history is torn if a gesture holds
\* elements meanwhile.
Edited(b, els) ==
  [SetElements(PushHistory(b, b.elements), els) EXCEPT !.torn = @ \/ Held]

\* addElement, and what the end of a drawing gesture does.
AddElement(b, span) ==
  LET n == b.made + 1
      els == [i \in DOMAIN b.elements \cup {n} |-> IF i = n THEN span ELSE b.elements[i]]
  IN  [Edited(b, els) EXCEPT !.made = n]

Without(ids) == [i \in DOMAIN board.elements \ ids |-> board.elements[i]]

EraseAt(p) ==
  LET hit == HitTest(p, board.elements)
  IN  IF hit = {} THEN board ELSE Edited(board, Without(hit))

\* One event reaches the page.
Becomes(b) ==
  /\ board.strokes < MaxStrokes
  /\ board' = [b EXCEPT !.strokes = board.strokes + 1]

-----------------------------------------------------------------------------
(* The pointer.                                                            *)

\* A drawing tool begins a draft, unless a draft or a text is open.
Begin(p) ==
  LET draft == [pen |-> board.tool = "pen", from |-> p, lo |-> p, hi |-> p]
  IN  [board EXCEPT !.draft = draft]

\* The select tool takes a handle of the selection box, an element or the
\* inside of the box, or begins a lasso.  A gesture freezes the drawing.
Grab(p) ==
  LET box == UnionBounds(board.elements, Present)
      handles == {h \in {"w", "e"} : p = IF h = "w" THEN box.lo ELSE box.hi}
      hit == HitTest(p, board.elements)
      inside == Present # {} /\ PointInElement(p, box)
      ids == IF hit \subseteq board.selected /\ (hit # {} \/ inside) THEN board.selected ELSE hit
      now == board.elements
      torn == board.torn \/ Held
  IN  IF Present # {} /\ handles # {}
      THEN {[board EXCEPT !.torn = torn, !.resizing =
               [handle |-> h, box |-> box, ids |-> board.selected, prev |-> now]] : h \in handles}
      ELSE IF hit # {} \/ inside
      THEN {[board EXCEPT !.torn = torn, !.selected = ids, !.moving =
               [ids |-> ids, start |-> p, prev |-> now], !.moved = FALSE]}
      ELSE {[board EXCEPT !.selected = {}, !.lasso = [lo |-> p, hi |-> p, start |-> p]]}

\* handleMouseDown.
Down(p) ==
  /\ board.text = None /\ board.draft = None
  /\ \/ /\ board.tool \in {"pen", "shape"} /\ board.made < MaxElements
        /\ Becomes(Begin(p))
     \/ /\ board.tool = "text" /\ board.made < MaxElements
        /\ Becomes([board EXCEPT !.text = p])
     \/ board.tool = "eraser" /\ Becomes(EraseAt(p))
     \/ board.tool = "select" /\ \E b \in Grab(p) : Becomes(b)

\* A pen covers every point it passed, a shape what is between its two ends.
Stretched(draft, p) ==
  LET ends == IF draft.pen THEN {draft.lo, draft.hi, p} ELSE {draft.from, p}
  IN  [pen |-> draft.pen, from |-> draft.from, lo |-> Least(ends), hi |-> Greatest(ends)]

\* A held element as it was frozen, or as it is where it was not there yet.
Original(gesture, i) ==
  IF i \in DOMAIN gesture.prev THEN gesture.prev[i] ELSE board.elements[i]

\* Every held element that is still there is made anew from its original.
Resized(r, p) ==
  LET anchor == IF r.handle = "e" THEN r.box.lo ELSE r.box.hi
      s == ResizeScale(r.box, r.handle, p)
      els == [i \in DOMAIN board.elements |->
                IF i \notin r.ids THEN board.elements[i]
                ELSE ScaleElement(Original(r, i), anchor, s[1], s[2])]
  IN  SetElements(board, els)

Moved(m, p) ==
  LET d == p - m.start
      els == [i \in DOMAIN board.elements |->
                IF i \notin m.ids THEN board.elements[i]
                ELSE TranslateElement(Original(m, i), d)]
  IN  [SetElements(board, els) EXCEPT !.moved = @ \/ d # 0]

\* handleMouseMove: a draft first, whatever the tool is by now.
MoveTo(p) ==
  Becomes(IF board.draft # None THEN [board EXCEPT !.draft = Stretched(@, p)]
          ELSE IF board.tool = "select" THEN
            IF board.resizing # None THEN Resized(board.resizing, p)
            ELSE IF board.moving # None THEN Moved(board.moving, p)
            ELSE IF board.lasso # None THEN
              [board EXCEPT !.lasso.lo = Least({board.lasso.start, p}),
                            !.lasso.hi = Greatest({board.lasso.start, p})]
            ELSE board
          ELSE IF board.tool = "eraser" THEN EraseAt(p) ELSE board)

\* Mutant: the end of a move remembers the drawing it made.
LetGoForgetsPrev(b) ==
  [(IF b.moved THEN PushHistory(b, b.elements) ELSE b) EXCEPT !.moving = None, !.moved = FALSE]

\* The end of a move: the drawing before it is remembered if it moved anything.
LetGo(b) ==
  [(IF b.moved THEN PushHistory(b, b.moving.prev) ELSE b) EXCEPT !.moving = None, !.moved = FALSE]

\* The end of a lasso: what it crosses is selected.
Lassoed(b) ==
  LET crossed == {i \in DOMAIN b.elements : Intersects(b.lasso, b.elements[i])}
  IN  [b EXCEPT !.selected = IF b.lasso.hi = b.lasso.lo THEN {} ELSE crossed, !.lasso = None]

\* The end of a drawing gesture: a draft without size is dropped.
Drawn(b) ==
  LET closed == [b EXCEPT !.draft = None]
  IN  IF b.draft = None THEN b
      ELSE IF b.draft.lo = b.draft.hi THEN closed
           ELSE AddElement(closed, [lo |-> b.draft.lo, hi |-> b.draft.hi])

\* handleMouseUp, for a pointer that is up, cancelled or gone.  A resize ends
\* alone, always remembered.
Up ==
  IF board.resizing # None
  THEN Becomes([PushHistory(board, board.resizing.prev) EXCEPT !.resizing = None])
  ELSE Becomes(Drawn(IF board.moving # None THEN LetGo(board)
                     ELSE IF board.lasso # None THEN Lassoed(board) ELSE board))

-----------------------------------------------------------------------------
(* The keyboard, the text and the toolbar.                                 *)

\* commitText: by Enter, by Escape, whose blur commits first, or by any click
\* that takes the focus away.
CommitText(typed) ==
  /\ board.text # None
  /\ LET closed == [board EXCEPT !.text = None]
     IN  Becomes(IF typed THEN AddElement(closed, [lo |-> board.text, hi |-> board.text + 1])
                 ELSE closed)

\* Delete or Backspace outside an input.
DeleteSelected ==
  /\ board.selected # {} /\ board.text = None
  /\ Becomes([(IF Present = {} THEN board ELSE Edited(board, Without(Present)))
               EXCEPT !.selected = {}])

\* The undo button: no gesture is ended by it.
Undo ==
  /\ board.canUndo /\ board.text = None
  /\ LET n == Len(board.history)
         popped == [board EXCEPT !.history = SubSeq(@, 1, n - 1), !.selected = {},
                                 !.torn = @ \/ Held]
     IN  Becomes(IF n = 0 THEN board ELSE SetElements(popped, board.history[n]))

\* Mutant: a gesture outlives the drawing it holds.
ClearKeepsGesture ==
  Becomes([Fresh EXCEPT !.tool = board.tool, !.made = board.made, !.torn = board.torn,
             !.moving = board.moving, !.moved = board.moved, !.resizing = board.resizing])

\* The clear button: only the tool stays.
Clear == Becomes([Fresh EXCEPT !.tool = board.tool, !.made = board.made, !.torn = board.torn])

ChooseTool(t) == board.tool # t /\ board' = [board EXCEPT !.tool = t]

\* Back to the chat, with the drawing attached or without: nothing is kept.
Leave == board.strokes > 0 /\ board' = Fresh

-----------------------------------------------------------------------------
Init == board = Fresh

Next ==
  \/ \E p \in Points : Down(p) \/ MoveTo(p)
  \/ Up
  \/ \E typed \in BOOLEAN : CommitText(typed)
  \/ DeleteSelected \/ Undo \/ Clear \/ Leave
  \/ \E t \in Tools : ChooseTool(t)

Spec == Init /\ [][Next]_board

-----------------------------------------------------------------------------
(* Properties.                                                             *)

Spans == [lo : Int, hi : Int]

IsDrawing(els) ==
  DOMAIN els \subseteq 1..MaxElements /\ \A i \in DOMAIN els : els[i] \in Spans

TypeOK ==
  /\ board.tool \in Tools
  /\ IsDrawing(board.elements)
  /\ \A n \in DOMAIN board.history : IsDrawing(board.history[n])
  /\ board.selected \subseteq 1..MaxElements
  /\ board.text \in Points \cup {None}
  /\ board.made \in 0..MaxElements /\ board.strokes \in 0..MaxStrokes
  /\ {board.canUndo, board.moved, board.torn} \subseteq BOOLEAN

\* The drawing as the history sees it: while elements are held, the one from
\* before the gesture.
Settled ==
  IF board.resizing # None THEN board.resizing.prev
  ELSE IF board.moving # None THEN board.moving.prev ELSE board.elements

\* Gestures of many events, erasing, deleting and typing implement a history
\* of whole drawings: undo brings back exactly the drawing before the last of
\* them, until the drawing is edited while a gesture holds a part of it.
\* (pushHistory with the frozen snapshot, handleMouseUp, undo)
History == INSTANCE UndoHistory WITH
  drawing <- Settled, past <- board.history, torn <- board.torn

UndoIsExact == History!Spec

\* The undo button is lit exactly when there is something to undo, although
\* the end of a gesture adds to the history without telling the toolbar.
\* (the effect on userElements, which calls onChange)
UndoIsOffered == board.torn \/ (board.canUndo <=> board.history # <<>>)
================================================================================
