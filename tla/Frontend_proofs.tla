----------------------------- MODULE Frontend_proofs -----------------------------
(***************************************************************************)
(* Proofs about Frontend, for any canvas, names and models, and any number *)
(* of events, calls and saves.  The whiteboard: its gestures implement     *)
(* UndoHistory, and the undo button is lit when it should be.  The         *)
(* sidebar: at rest it shows the names the server keeps.  The settings: at *)
(* rest they show what is stored, and a mask never takes the place of a    *)
(* key.  At the end, that every page keeps to its types.                   *)
(***************************************************************************)
EXTENDS Frontend, FiniteSetTheorems, WellFoundedInduction, SequenceTheorems,
        TLAPS

-----------------------------------------------------------------------------
(* The least and the greatest of finitely many numbers.                    *)

\* Of the cuts {y \in S : y < x} of S one is minimal.
LEMMA HasLeast ==
  ASSUME NEW S, S \subseteq Int, S # {}, IsFiniteSet(S)
  PROVE  \E x \in S : \A y \in S : x <= y
<1> DEFINE below(x) == {y \in S : y < x}
           cuts == {below(x) : x \in S}
<1>1. cuts \subseteq FiniteSubsetsOf(S) /\ cuts # {}
  <2>1. \A x : below(x) \in SUBSET S /\ IsFiniteSet(below(x))
    <3>1. \A x : below(x) \subseteq S
      OBVIOUS
    <3> QED BY <3>1, FS_Subset
  <2>2. PICK x : x \in S
    OBVIOUS
  <2>3. below(x) \in cuts
    BY <2>2
  <2> HIDE DEF below
  <2> QED BY <2>1, <2>3 DEF FiniteSubsetsOf
<1>2. PICK c \in cuts : \A d \in cuts : <<d, c>> \notin StrictSubsetOrdering(S)
  <2> HIDE DEF cuts
  <2> QED BY <1>1, FS_StrictSubsetOrderingWellFounded, WFMin
<1>3. PICK x \in S : c = below(x)
  BY <1>2
<1>4. ASSUME NEW y \in S, y < x PROVE FALSE
  <2>1. x \in Int /\ y \in Int /\ \A z \in S : z \in Int
    OBVIOUS
  <2>2. \A z \in S : z < y => z < x
    BY <2>1, <1>4
  <2>3. below(y) \subseteq below(x)
    BY <2>2
  <2>4. y \in below(x)
    BY <1>4
  <2>5. y \notin below(y)
    BY <2>1
  <2>6. below(y) \in cuts /\ below(y) \in SUBSET S /\ below(x) \in SUBSET S
    OBVIOUS
  <2> HIDE DEF below, cuts
  <2> QED BY <2>3, <2>4, <2>5, <2>6, <1>2, <1>3 DEF StrictSubsetOrdering
<1>5. \A y \in S : x <= y
  <2>1. x \in Int /\ \A z \in S : z \in Int
    OBVIOUS
  <2> QED BY <2>1, <1>4
<1> QED BY <1>5

LEMMA LeastIn ==
  ASSUME NEW S, S \subseteq Int, S # {}, IsFiniteSet(S)
  PROVE  Least(S) \in S
BY HasLeast DEF Least

LEMMA ImageIsFinite ==
  ASSUME NEW S, IsFiniteSet(S), NEW f, f = [x \in S |-> f[x]]
  PROVE  IsFiniteSet({f[x] : x \in S})
<1> DEFINE T == {f[x] : x \in S}
<1>1. f \in [S -> T] /\ \A t \in T : \E x \in S : f[x] = t
  OBVIOUS
<1>2. f \in Surjection(S, T)
  BY <1>1 DEF Surjection
<1> QED BY <1>2, FS_Surjection

\* The least of the negated numbers.
LEMMA HasGreatest ==
  ASSUME NEW S, S \subseteq Int, S # {}, IsFiniteSet(S)
  PROVE  \E x \in S : \A y \in S : y <= x
<1> DEFINE T == {-x : x \in S}
<1>1. T \subseteq Int /\ T # {}
  <2>1. \A x \in S : -x \in Int
    OBVIOUS
  <2>2. PICK x \in S : TRUE
    OBVIOUS
  <2>3. -x \in T
    OBVIOUS
  <2> QED BY <2>1, <2>3
<1>2. IsFiniteSet(T)
  <2> DEFINE f == [x \in S |-> -x]
  <2>1. IsFiniteSet({f[x] : x \in S})
    <3>1. f = [x \in S |-> f[x]]
      OBVIOUS
    <3> HIDE DEF f
    <3> QED BY <3>1, ImageIsFinite
  <2>2. T = {f[x] : x \in S}
    OBVIOUS
  <2> QED BY <2>1, <2>2
<1>3. PICK y \in T : \A z \in T : y <= z
  <2> HIDE DEF T
  <2> QED BY <1>1, <1>2, HasLeast
<1>4. PICK x \in S : y = -x
  BY <1>3
<1>5. ASSUME NEW z \in S PROVE z <= x
  <2>1. -z \in T
    OBVIOUS
  <2>2. x \in Int /\ z \in Int /\ -x <= -z
    BY <2>1, <1>3, <1>4
  <2> QED BY <2>2
<1> QED BY <1>5

LEMMA GreatestIn ==
  ASSUME NEW S, S \subseteq Int, S # {}, IsFiniteSet(S)
  PROVE  Greatest(S) \in S
<1>1. PICK x \in S : \A y \in S : y <= x
  BY HasGreatest
<1>2. \A y \in S : x >= y
  BY <1>1
<1> QED BY <1>2 DEF Greatest

\* Of two or three numbers.
LEMMA PairIn ==
  ASSUME NEW a \in Int, NEW b \in Int
  PROVE  Least({a, b}) \in Int /\ Greatest({a, b}) \in Int
<1>1. IsFiniteSet({a, b})
  <2>1. IsFiniteSet({}) BY FS_EmptySet
  <2>2. IsFiniteSet({} \cup {a}) BY <2>1, FS_AddElement
  <2>3. IsFiniteSet(({} \cup {a}) \cup {b}) BY <2>2, FS_AddElement
  <2>4. ({} \cup {a}) \cup {b} = {a, b} OBVIOUS
  <2> QED BY <2>3, <2>4
<1> QED BY <1>1, LeastIn, GreatestIn

LEMMA TripleIn ==
  ASSUME NEW a \in Int, NEW b \in Int, NEW c \in Int
  PROVE  Least({a, b, c}) \in Int /\ Greatest({a, b, c}) \in Int
<1>1. IsFiniteSet({a, b, c})
  <2>1. IsFiniteSet({}) BY FS_EmptySet
  <2>2. IsFiniteSet({} \cup {a}) BY <2>1, FS_AddElement
  <2>3. IsFiniteSet(({} \cup {a}) \cup {b}) BY <2>2, FS_AddElement
  <2>4. IsFiniteSet((({} \cup {a}) \cup {b}) \cup {c}) BY <2>3, FS_AddElement
  <2>5. (({} \cup {a}) \cup {b}) \cup {c} = {a, b, c} OBVIOUS
  <2> QED BY <2>4, <2>5
<1> QED BY <1>1, LeastIn, GreatestIn

-----------------------------------------------------------------------------
(* Drawings.                                                               *)

\* Drawings of the first n elements made.
Drawings(n) == UNION {[ids -> Spans] : ids \in SUBSET (1..n)}

LEMMA DrawingIs ==
  ASSUME NEW n \in Nat, NEW els \in Drawings(n)
  PROVE  /\ DOMAIN els \subseteq 1..n
         /\ els = [i \in DOMAIN els |-> els[i]]
         /\ \A i \in DOMAIN els : els[i] \in Spans
BY DEF Drawings

LEMMA IsADrawing ==
  ASSUME NEW n \in Nat, NEW ids \in SUBSET (1..n), NEW els \in [ids -> Spans]
  PROVE  els \in Drawings(n)
BY DEF Drawings

LEMMA MoreDrawings ==
  ASSUME NEW n \in Nat
  PROVE  Drawings(n) \subseteq Drawings(n + 1)
<1>1. 1..n \subseteq 1..(n + 1)
  OBVIOUS
<1> QED BY <1>1 DEF Drawings

LEMMA BlankHasNone == DOMAIN Blank = {}
BY DEF Blank

LEMMA BlankIs == \A n \in Nat : Blank \in Drawings(n)
<1> SUFFICES ASSUME NEW n \in Nat PROVE Blank \in Drawings(n)
  OBVIOUS
<1>1. Blank \in [{} -> Spans] /\ {} \in SUBSET (1..n)
  BY DEF Blank
<1> QED BY <1>1 DEF Drawings

\* The box around some elements.
LEMMA BoxIs ==
  ASSUME NEW n \in Nat, NEW els \in Drawings(n), NEW ids \in SUBSET DOMAIN els, ids # {}
  PROVE  UnionBounds(els, ids) \in Spans
<1>1. ids \subseteq 1..n /\ \A i \in ids : els[i].lo \in Int /\ els[i].hi \in Int
  BY DrawingIs DEF Spans
<1>2. IsFiniteSet(ids)
  <2>1. IsFiniteSet(1..n)
    BY FS_Interval
  <2> QED BY <1>1, <2>1, FS_Subset
<1> DEFINE los == [i \in ids |-> els[i].lo]
           his == [i \in ids |-> els[i].hi]
           Los == {los[i] : i \in ids}
           His == {his[i] : i \in ids}
<1>3. los = [i \in ids |-> los[i]] /\ his = [i \in ids |-> his[i]]
  OBVIOUS
<1>4. IsFiniteSet(Los) /\ IsFiniteSet(His)
  <2> HIDE DEF los, his
  <2> QED BY <1>2, <1>3, ImageIsFinite
<1>5. Los \subseteq Int /\ His \subseteq Int /\ Los # {} /\ His # {}
  <2>1. PICK i \in ids : TRUE
    OBVIOUS
  <2>2. los[i] \in Los /\ his[i] \in His
    OBVIOUS
  <2>3. \A j \in ids : los[j] \in Int /\ his[j] \in Int
    BY <1>1
  <2> QED BY <2>2, <2>3
<1>6. Los = {els[i].lo : i \in ids} /\ His = {els[i].hi : i \in ids}
  OBVIOUS
<1> HIDE DEF los, his, Los, His
<1>7. Least(Los) \in Int /\ Greatest(His) \in Int
  BY <1>4, <1>5, LeastIn, GreatestIn
<1> QED BY <1>6, <1>7 DEF UnionBounds, Spans

LEMMA TranslatedIs ==
  ASSUME NEW span \in Spans, NEW d \in Int
  PROVE  /\ TranslateElement(span, d) \in Spans
         /\ d = 0 => TranslateElement(span, d) = span
<1>1. span = [lo |-> span.lo, hi |-> span.hi] /\ span.lo \in Int /\ span.hi \in Int
  BY DEF Spans
<1>2. d = 0 => span.lo + d = span.lo /\ span.hi + d = span.hi
  BY <1>1
<1>3. span.lo + d \in Int /\ span.hi + d \in Int
  BY <1>1
<1> QED BY <1>1, <1>2, <1>3 DEF TranslateElement, Spans

LEMMA ScaledIs ==
  ASSUME NEW span \in Spans, NEW box \in Spans, NEW p \in Int, NEW handle, NEW anchor \in Int
  PROVE  LET s == ResizeScale(box, handle, p)
         IN  ScaleElement(span, anchor, s[1], s[2]) \in Spans
<1> DEFINE far == IF handle = "e" THEN p - box.lo ELSE box.hi - p
           s == ResizeScale(box, handle, p)
<1>1. far \in Int /\ box.lo \in Int /\ box.hi \in Int /\ span.lo \in Int /\ span.hi \in Int
  BY DEF Spans
<1>2. s[1] \in Int /\ s[2] \in Int /\ s[2] > 0
  <2>1. CASE box.hi > box.lo
    <3>1. s = <<Greatest({1, far}), box.hi - box.lo>>
      BY <2>1 DEF ResizeScale
    <3>2. Greatest({1, far}) \in Int
      <4>1. \A a, b \in Int : Greatest({a, b}) \in Int
        BY PairIn
      <4>2. 1 \in Int
        OBVIOUS
      <4> HIDE DEF far
      <4> QED BY <1>1, <4>1, <4>2, Zenon
    <3> QED BY <3>1, <3>2, <2>1, <1>1
  <2>2. CASE ~(box.hi > box.lo)
    BY <2>2 DEF ResizeScale
  <2> QED BY <2>1, <2>2
<1> HIDE DEF s, far
<1>3. \A v \in Int : anchor + ((v - anchor) * s[1]) \div s[2] \in Int
  <2> SUFFICES ASSUME NEW v \in Int PROVE anchor + ((v - anchor) * s[1]) \div s[2] \in Int
    OBVIOUS
  <2>1. (v - anchor) * s[1] \in Int
    BY <1>2
  <2> QED BY <2>1, <1>2
<1>4. ScaleElement(span, anchor, s[1], s[2]) \in Spans
  BY <1>1, <1>3 DEF ScaleElement, Spans
<1> QED BY <1>4 DEF s
-----------------------------------------------------------------------------
(* Boards.                                                                 *)

IsBoard(b) ==
  b \in [tool : {b.tool}, elements : {b.elements}, history : {b.history}, canUndo : {b.canUndo},
         selected : {b.selected}, draft : {b.draft}, text : {b.text}, lasso : {b.lasso},
         moving : {b.moving}, moved : {b.moved}, resizing : {b.resizing},
         made : {b.made}, strokes : {b.strokes}, torn : {b.torn}]

\* The numbers and drawings of a board.
Typed(b) ==
  /\ IsBoard(b)
  /\ b.made \in Nat /\ {b.torn, b.moved, b.canUndo} \subseteq BOOLEAN
  /\ b.elements \in Drawings(b.made)
  /\ b.history \in Seq(Drawings(b.made))
  /\ b.text # None => b.text \in Int
  /\ b.draft # None => {b.draft.from, b.draft.lo, b.draft.hi} \subseteq Int
  /\ b.moving # None => b.moving.start \in Int /\ b.moving.prev \in Drawings(b.made)
  /\ b.resizing # None => b.resizing.box \in Spans /\ b.resizing.prev \in Drawings(b.made)

\* The drawing as the history sees it.
SettledOn(b) ==
  IF b.resizing # None THEN b.resizing.prev
  ELSE IF b.moving # None THEN b.moving.prev ELSE b.elements

\* The toolbar knows whether there is a history.
Lit(b) == b.canUndo \in BOOLEAN /\ (b.canUndo <=> b.history # <<>>)

\* Until the history is torn one gesture at most holds elements, and a move
\* that has moved nothing has left the drawing as it was.  The toolbar knows
\* whether there is a history, which starts from the empty canvas; without one
\* there is nothing that a gesture could hold.
Firm(b) ==
  ~b.torn =>
    /\ b.moving = None \/ b.resizing = None
    /\ b.moving # None /\ ~b.moved => b.elements = b.moving.prev
    /\ Lit(b)
    /\ IF b.history = <<>>
       THEN SettledOn(b) = Blank /\ b.moving = None /\ b.resizing = None
       ELSE b.history[1] = Blank

BoardInv == Typed(board) /\ Firm(board)

Follows(c) ==
  \/ c.torn = TRUE
  \/ /\ c.torn = FALSE
     /\ \/ c.history = Append(board.history, SettledOn(board))
        \/ /\ board.history # <<>>
           /\ SettledOn(c) = board.history[Len(board.history)]
           /\ c.history = SubSeq(board.history, 1, Len(board.history) - 1)
        \/ SettledOn(c) = Blank /\ c.history = <<>>
        \/ /\ SettledOn(c) = SettledOn(board) /\ c.history = board.history
           /\ board.torn = FALSE

Good(c) == Typed(c) /\ Firm(c) /\ Follows(c)

\* What a handler makes of the board is what the board becomes.
LEMMA BecomesGood ==
  ASSUME NEW c, Good(c), Becomes(c)
  PROVE  BoardInv' /\ Follows(board')
<1>1. board' = [c EXCEPT !.strokes = board.strokes + 1]
  BY DEF Becomes
<1>2. IsBoard(c)
  BY DEF Good, Typed
<1>3. IsBoard(board')
  BY <1>1, <1>2 DEF IsBoard
<1>4. /\ board'.elements = c.elements /\ board'.history = c.history /\ board'.draft = c.draft
      /\ board'.text = c.text /\ board'.moving = c.moving /\ board'.moved = c.moved
      /\ board'.resizing = c.resizing /\ board'.made = c.made /\ board'.torn = c.torn
      /\ board'.canUndo = c.canUndo
  BY <1>1, <1>2 DEF IsBoard
<1>5. SettledOn(board') = SettledOn(c)
  BY <1>4 DEF SettledOn
<1>6. Typed(board') /\ Firm(board')
  BY <1>3, <1>4, <1>5 DEF Good, Typed, Firm, Lit
<1>7. Follows(board')
  BY <1>4, <1>5 DEF Good, Follows
<1> QED BY <1>6, <1>7 DEF BoardInv, Typed, Firm, IsBoard

-----------------------------------------------------------------------------
(* Kinds of steps.                                                         *)

\* Nothing the history sees is touched.
LEMMA QuietGood ==
  ASSUME BoardInv, NEW c, IsBoard(c),
         c.elements = board.elements, c.history = board.history,
         c.moving = board.moving, c.moved = board.moved, c.resizing = board.resizing,
         c.made = board.made, c.torn = board.torn, c.canUndo = board.canUndo,
         c.text # None => c.text \in Int,
         c.draft # None => {c.draft.from, c.draft.lo, c.draft.hi} \subseteq Int
  PROVE  Good(c)
<1>1. SettledOn(c) = SettledOn(board)
  BY DEF SettledOn
<1>2. Typed(c) /\ Firm(c)
  BY <1>1 DEF BoardInv, Typed, Firm, Lit
<1>3. Follows(c)
  BY <1>1 DEF Follows, BoardInv, Typed
<1> QED BY <1>2, <1>3 DEF Good

\* A history that gets longer starts from the same drawing.
LEMMA FirstStays ==
  ASSUME NEW S, NEW s \in Seq(S), NEW x
  PROVE  /\ Append(s, x) # <<>>
         /\ Append(s, x)[1] = IF s = <<>> THEN x ELSE s[1]
<1> DEFINE T == S \cup {x}
<1>1. s \in Seq(T) /\ x \in T
  BY SeqMonotonic
<1>2. Append(s, x) # <<>> /\ Append(s, x)[Len(s) + 1] = x
      /\ \A i \in 1..Len(s) : Append(s, x)[i] = s[i]
  BY <1>1, AppendProperties
<1>3. CASE s = <<>>
  BY <1>2, <1>3
<1>4. CASE s # <<>>
  <2>1. 1 \in 1..Len(s)
    BY <1>1, <1>4, EmptySeq, LenProperties
  <2> QED BY <1>2, <1>4, <2>1
<1> QED BY <1>3, <1>4

\* The drawing is edited: b is the board with other fields set before.
LEMMA EditGood ==
  ASSUME BoardInv, NEW b, Typed(b), b.torn = board.torn,
         \/ Held
         \/ /\ b.moving = None /\ b.resizing = None
            /\ b.elements = board.elements /\ b.history = board.history,
         NEW c, IsBoard(c), c.made \in Nat, Drawings(b.made) \subseteq Drawings(c.made),
         c.elements \in Drawings(c.made), c.history = Append(b.history, b.elements),
         c.torn = (b.torn \/ Held), Lit(c), c.draft = b.draft, c.text = b.text,
         c.moving = b.moving, c.moved = b.moved, c.resizing = b.resizing
  PROVE  Good(c)
<1>1. c.torn \in BOOLEAN
  BY DEF Held
<1>2. c.history \in Seq(Drawings(c.made))
  <2>1. b.history \in Seq(Drawings(c.made)) /\ b.elements \in Drawings(c.made)
    BY SeqMonotonic DEF Typed
  <2> QED BY <2>1, AppendProperties
<1>0. c.canUndo \in BOOLEAN
  BY DEF Lit
<1>3. Typed(c)
  BY <1>0, <1>1, <1>2 DEF Typed
<1>4. CASE Held
  <2>1. c.torn = TRUE
    BY <1>4
  <2> QED BY <1>3, <2>1 DEF Good, Firm, Follows
<1>5. CASE ~Held
  <2>1. c.moving = None /\ c.resizing = None /\ c.history = Append(board.history, board.elements)
    BY <1>5
  <2>2. SettledOn(board) = board.elements
    BY <1>5 DEF SettledOn, Held
  <2>3. c.torn = board.torn
    BY <1>5 DEF BoardInv, Typed
  <2>4. Firm(c)
    <3>1. c.history # <<>>
          /\ c.history[1] = IF board.history = <<>> THEN board.elements ELSE board.history[1]
      BY <2>1, FirstStays DEF BoardInv, Typed
    <3> QED BY <2>1, <2>2, <2>3, <3>1 DEF Firm, BoardInv
  <2>5. Follows(c)
    BY <1>1, <2>1, <2>2 DEF Follows
  <2> QED BY <1>3, <2>4, <2>5 DEF Good
<1> QED BY <1>4, <1>5

\* The fields of a board with another drawing.
LEMMA SetElementsIs ==
  ASSUME NEW b, IsBoard(b), NEW els
  PROVE  LET c == SetElements(b, els)
         IN  /\ IsBoard(c) /\ c.elements = els
             /\ c.tool = b.tool /\ c.selected = b.selected
             /\ c.history = b.history /\ c.draft = b.draft /\ c.text = b.text
             /\ c.moving = b.moving /\ c.moved = b.moved /\ c.resizing = b.resizing
             /\ c.made = b.made /\ c.torn = b.torn /\ Lit(c)
<1>1. PICK lit : lit = (b.history # <<>>)
  OBVIOUS
<1>2. SetElements(b, els) = [b EXCEPT !.elements = els, !.canUndo = lit]
  BY <1>1, Zenon DEF SetElements
<1> DEFINE c == SetElements(b, els)
<1>3. /\ IsBoard(c) /\ c.elements = els /\ c.canUndo = lit
      /\ c.tool = b.tool /\ c.selected = b.selected
      /\ c.history = b.history /\ c.draft = b.draft /\ c.text = b.text
      /\ c.moving = b.moving /\ c.moved = b.moved /\ c.resizing = b.resizing
      /\ c.made = b.made /\ c.torn = b.torn
  BY <1>2 DEF IsBoard
<1> HIDE DEF c
<1>4. Lit(c)
  BY <1>1, <1>3, Zenon DEF Lit
<1> QED BY <1>3, <1>4 DEF c

LEMMA EditedIs ==
  ASSUME NEW b, IsBoard(b), NEW els
  PROVE  LET e == Edited(b, els)
         IN  /\ IsBoard(e)
             /\ e.elements = els /\ e.history = Append(b.history, b.elements)
             /\ e.torn = (b.torn \/ Held)
             /\ e.tool = b.tool /\ e.selected = b.selected
             /\ e.draft = b.draft /\ e.text = b.text /\ e.moving = b.moving
             /\ e.moved = b.moved /\ e.resizing = b.resizing /\ e.made = b.made
             /\ Lit(e)
<1> DEFINE c == PushHistory(b, b.elements)
           d == SetElements(c, els)
<1>1. /\ IsBoard(c) /\ c.history = Append(b.history, b.elements)
      /\ c.tool = b.tool /\ c.selected = b.selected
      /\ c.draft = b.draft /\ c.text = b.text /\ c.moving = b.moving
      /\ c.moved = b.moved /\ c.resizing = b.resizing /\ c.made = b.made /\ c.torn = b.torn
  BY DEF PushHistory, IsBoard
<1>2. PICK torn : torn = (d.torn \/ Held)
  OBVIOUS
<1>3. Edited(b, els) = [d EXCEPT !.torn = torn]
  BY <1>2, Zenon DEF Edited
<1> HIDE DEF c
<1>4. /\ IsBoard(d) /\ Lit(d) /\ d.elements = els /\ d.history = Append(b.history, b.elements)
      /\ d.tool = b.tool /\ d.selected = b.selected
      /\ d.draft = b.draft /\ d.text = b.text /\ d.moving = b.moving
      /\ d.moved = b.moved /\ d.resizing = b.resizing /\ d.made = b.made /\ d.torn = b.torn
  BY <1>1, SetElementsIs
<1> HIDE DEF d
<1>5. torn = (b.torn \/ Held)
  BY <1>2, <1>4, Zenon
<1> DEFINE e == Edited(b, els)
<1>6. /\ IsBoard(e) /\ e.canUndo = d.canUndo /\ e.torn = torn
      /\ e.elements = els /\ e.history = Append(b.history, b.elements)
      /\ e.tool = b.tool /\ e.selected = b.selected
      /\ e.draft = b.draft /\ e.text = b.text /\ e.moving = b.moving
      /\ e.moved = b.moved /\ e.resizing = b.resizing /\ e.made = b.made
  BY <1>3, <1>4 DEF IsBoard
<1> HIDE DEF e
<1>7. Lit(e)
  BY <1>4, <1>6 DEF Lit
<1> QED BY <1>5, <1>6, <1>7 DEF e

LEMMA WithoutIs ==
  ASSUME Typed(board), NEW ids
  PROVE  Without(ids) \in Drawings(board.made)
<1> DEFINE left == DOMAIN board.elements \ ids
<1>1. left \in SUBSET (1..board.made) /\ Without(ids) \in [left -> Spans]
  BY DrawingIs DEF Typed, Without
<1> QED BY <1>1, IsADrawing DEF Typed

LEMMA EraseGood ==
  ASSUME BoardInv, NEW p
  PROVE  Good(EraseAt(p))
<1>1. CASE EraseAt(p) = board
  BY <1>1, QuietGood DEF BoardInv, Typed
<1>2. ASSUME NEW hit, EraseAt(p) = Edited(board, Without(hit)) PROVE Good(EraseAt(p))
  <2>1. Typed(board) /\ IsBoard(board)
    BY DEF BoardInv, Typed
  <2>2. Without(hit) \in Drawings(board.made)
    BY <2>1, WithoutIs
  <2>3. Held \/ (board.moving = None /\ board.resizing = None)
    BY DEF Held
  <2> DEFINE c == Edited(board, Without(hit))
  <2>4. /\ IsBoard(c)
        /\ c.elements = Without(hit) /\ c.history = Append(board.history, board.elements)
        /\ c.torn = (board.torn \/ Held)
        /\ c.draft = board.draft /\ c.text = board.text /\ c.moving = board.moving
        /\ c.moved = board.moved /\ c.resizing = board.resizing /\ c.made = board.made
        /\ Lit(c)
    BY <2>1, EditedIs
  <2> HIDE DEF c
  <2>5. c.made \in Nat /\ Drawings(board.made) \subseteq Drawings(c.made)
        /\ c.elements \in Drawings(c.made)
    BY <2>1, <2>2, <2>4 DEF Typed
  <2>6. Good(c)
    BY <2>1, <2>3, <2>4, <2>5, EditGood
  <2> QED BY <1>2, <2>6 DEF c
<1> QED BY <1>1, <1>2 DEF EraseAt

LEMMA AddGood ==
  ASSUME BoardInv, NEW b, Typed(b), b.torn = board.torn,
         \/ Held
         \/ /\ b.moving = None /\ b.resizing = None
            /\ b.elements = board.elements /\ b.history = board.history,
         NEW span \in Spans
  PROVE  Good(AddElement(b, span))
<1> DEFINE n == b.made + 1
           els == [i \in DOMAIN b.elements \cup {n} |-> IF i = n THEN span ELSE b.elements[i]]
           e == Edited(b, els)
           c == AddElement(b, span)
<1>1. els \in Drawings(n) /\ n \in Nat /\ Drawings(b.made) \subseteq Drawings(n)
  <2>1. DOMAIN b.elements \subseteq 1..b.made /\ \A i \in DOMAIN b.elements : b.elements[i] \in Spans
    BY DrawingIs DEF Typed
  <2>2. DOMAIN b.elements \cup {n} \in SUBSET (1..n) /\ n \in Nat
    BY <2>1 DEF Typed
  <2>3. els \in [DOMAIN b.elements \cup {n} -> Spans]
    BY <2>1
  <2> QED BY <2>2, <2>3, IsADrawing, MoreDrawings DEF Typed
<1>2. /\ IsBoard(e)
      /\ e.elements = els /\ e.history = Append(b.history, b.elements)
      /\ e.torn = (b.torn \/ Held)
      /\ e.draft = b.draft /\ e.text = b.text /\ e.moving = b.moving
      /\ e.moved = b.moved /\ e.resizing = b.resizing /\ e.made = b.made
      /\ Lit(e)
  <2> HIDE DEF els
  <2> QED BY EditedIs DEF Typed
<1>3. c = [e EXCEPT !.made = n]
  BY DEF AddElement
<1> HIDE DEF e, els, c
<1>4. /\ IsBoard(c) /\ c.made = n
      /\ c.elements = els /\ c.history = Append(b.history, b.elements)
      /\ c.torn = (b.torn \/ Held)
      /\ c.draft = b.draft /\ c.text = b.text /\ c.moving = b.moving
      /\ c.moved = b.moved /\ c.resizing = b.resizing /\ c.canUndo = e.canUndo
  BY <1>2, <1>3 DEF IsBoard
<1>5. Lit(c)
  BY <1>2, <1>4 DEF Lit
<1>6. Good(c)
  <2> HIDE DEF n
  <2> QED BY <1>1, <1>4, <1>5, EditGood
<1> QED BY <1>6 DEF c

-----------------------------------------------------------------------------
(* The pointer.                                                            *)

LEMMA BoardIs ==
  ASSUME BoardInv
  PROVE  /\ IsBoard(board) /\ Typed(board) /\ Firm(board)
         /\ board.torn \in BOOLEAN /\ board.made \in Nat
         /\ ~Held => board.moving = None /\ board.resizing = None
BY DEF BoardInv, Typed, Held

\* Elements are grabbed: the gesture freezes the drawing.
LEMMA GrabGood ==
  ASSUME BoardInv, NEW p \in Points, NEW c \in Grab(p)
  PROVE  Good(c)
<1> DEFINE box == UnionBounds(board.elements, Present)
<1>p. p \in Int
  BY DEF Points
<1>b. IsBoard(board) /\ Typed(board) /\ Firm(board)
  BY BoardIs
<1>t. PICK torn : torn = (board.torn \/ Held)
  OBVIOUS
<1>1. ASSUME Present # {}, NEW h,
             c = [board EXCEPT !.torn = torn, !.resizing =
                    [handle |-> h, box |-> box, ids |-> board.selected, prev |-> board.elements]]
      PROVE  Good(c)
  <2> DEFINE r == [handle |-> h, box |-> box, ids |-> board.selected, prev |-> board.elements]
  <2>1. box \in Spans
    BY <1>1, <1>b, BoxIs DEF Present, Typed
  <2>2. r.box = box /\ r.prev = board.elements
    OBVIOUS
  <2> HIDE DEF r, box
  <2>3. /\ IsBoard(c) /\ c.resizing = r /\ c.torn = torn
        /\ c.elements = board.elements /\ c.history = board.history
        /\ c.draft = board.draft /\ c.text = board.text /\ c.moving = board.moving
        /\ c.moved = board.moved /\ c.made = board.made /\ c.canUndo = board.canUndo
    BY <1>1, <1>b DEF IsBoard, r
  <2>4. torn \in BOOLEAN
    BY <1>t, <1>b DEF Typed, Held
  <2>5. Typed(c)
    BY <2>1, <2>2, <2>3, <2>4, <1>b DEF Typed
  <2>6. CASE torn
    BY <2>3, <2>4, <2>5, <2>6 DEF Good, Firm, Follows
  <2>7. CASE ~torn
    <3>1. board.torn = FALSE /\ board.moving = None /\ board.resizing = None
      BY <2>7, <1>t, <1>b DEF Held, Typed
    <3>3. SettledOn(c) = SettledOn(board) /\ SettledOn(board) = board.elements
      BY <3>1, <2>2, <2>3 DEF SettledOn
    <3>2. Firm(c)
      <4>1. board.history # <<>>
        BY <3>1, <3>3, <1>1, <1>b, BlankHasNone DEF Firm, Present
      <4> QED BY <3>1, <3>3, <4>1, <2>3, <1>b DEF Firm, Lit
    <3>4. Follows(c)
      BY <3>1, <3>3, <2>3, <2>4, <2>7 DEF Follows
    <3> QED BY <3>2, <3>4, <2>5 DEF Good
  <2> QED BY <2>6, <2>7
<1>2. ASSUME DOMAIN board.elements # {}, NEW ids,
             c = [board EXCEPT !.torn = torn, !.selected = ids, !.moving =
                    [ids |-> ids, start |-> p, prev |-> board.elements], !.moved = FALSE]
      PROVE  Good(c)
  <2> DEFINE m == [ids |-> ids, start |-> p, prev |-> board.elements]
  <2>2. m.start = p /\ m.prev = board.elements
    OBVIOUS
  <2> HIDE DEF m
  <2>3. /\ IsBoard(c) /\ c.moving = m /\ c.torn = torn /\ c.moved = FALSE
        /\ c.elements = board.elements /\ c.history = board.history
        /\ c.draft = board.draft /\ c.text = board.text
        /\ c.resizing = board.resizing /\ c.made = board.made /\ c.canUndo = board.canUndo
    BY <1>2, <1>b DEF IsBoard, m
  <2>4. torn \in BOOLEAN
    BY <1>t, <1>b DEF Typed, Held
  <2>5. Typed(c)
    BY <2>2, <2>3, <2>4, <1>b, <1>p DEF Typed
  <2>6. CASE torn
    BY <2>3, <2>4, <2>5, <2>6 DEF Good, Firm, Follows
  <2>7. CASE ~torn
    <3>1. board.torn = FALSE /\ board.moving = None /\ board.resizing = None
      BY <2>7, <1>t, <1>b DEF Held, Typed
    <3>3. SettledOn(c) = SettledOn(board) /\ SettledOn(board) = board.elements
      BY <3>1, <2>2, <2>3 DEF SettledOn
    <3>2. Firm(c)
      <4>1. board.history # <<>>
        BY <3>1, <3>3, <1>2, <1>b, BlankHasNone DEF Firm
      <4> QED BY <3>1, <3>3, <4>1, <2>2, <2>3, <1>b DEF Firm, Lit
    <3>4. Follows(c)
      BY <3>1, <3>3, <2>3, <2>4, <2>7 DEF Follows
    <3> QED BY <3>2, <3>4, <2>5 DEF Good
  <2> QED BY <2>6, <2>7
<1>3. ASSUME NEW lasso, c = [board EXCEPT !.selected = {}, !.lasso = lasso] PROVE Good(c)
  <2>1. /\ IsBoard(c)
        /\ c.elements = board.elements /\ c.history = board.history
        /\ c.draft = board.draft /\ c.text = board.text /\ c.moving = board.moving
        /\ c.moved = board.moved /\ c.made = board.made /\ c.resizing = board.resizing
        /\ c.torn = board.torn /\ c.canUndo = board.canUndo
    BY <1>3, <1>b DEF IsBoard
  <2> QED BY <2>1, <1>b, QuietGood DEF Typed
<1> HIDE DEF box
<1>4. \/ /\ Present # {}
         /\ \E h : c = [board EXCEPT !.torn = torn, !.resizing =
                       [handle |-> h, box |-> box, ids |-> board.selected, prev |-> board.elements]]
      \/ /\ HitTest(p, board.elements) # {} \/ Present # {}
         /\ \E ids : c = [board EXCEPT !.torn = torn, !.selected = ids, !.moving =
                       [ids |-> ids, start |-> p, prev |-> board.elements], !.moved = FALSE]
      \/ \E lasso : c = [board EXCEPT !.selected = {}, !.lasso = lasso]
  BY <1>t, Zenon DEF Grab, box
<1>5. HitTest(p, board.elements) # {} \/ Present # {} => DOMAIN board.elements # {}
  BY DEF HitTest, Present
<1> QED BY <1>1, <1>2, <1>3, <1>4, <1>5

LEMMA DownKeeps ==
  ASSUME BoardInv, NEW p \in Points, Down(p)
  PROVE  BoardInv' /\ Follows(board')
<1>p. p \in Int
  BY DEF Points
<1>b. IsBoard(board) /\ Typed(board)
  BY BoardIs
<1>1. CASE Becomes(Begin(p))
  <2> DEFINE d == [pen |-> board.tool = "pen", from |-> p, lo |-> p, hi |-> p]
             c == [board EXCEPT !.draft = d]
  <2>1. {d.from, d.lo, d.hi} \subseteq Int
    BY <1>p
  <2> HIDE DEF d
  <2>2. /\ IsBoard(c) /\ c.draft = d
        /\ c.elements = board.elements /\ c.history = board.history
        /\ c.text = board.text /\ c.moving = board.moving
        /\ c.moved = board.moved /\ c.made = board.made /\ c.resizing = board.resizing
        /\ c.torn = board.torn /\ c.canUndo = board.canUndo
    BY <1>b DEF IsBoard
  <2>3. Begin(p) = c
    BY DEF Begin, d
  <2> HIDE DEF c
  <2>4. Good(c)
    BY <2>1, <2>2, <1>b, QuietGood DEF Typed
  <2> QED BY <1>1, <2>3, <2>4, BecomesGood
<1>2. CASE Becomes([board EXCEPT !.text = p])
  <2> DEFINE c == [board EXCEPT !.text = p]
  <2>1. /\ IsBoard(c) /\ c.text = p
        /\ c.elements = board.elements /\ c.history = board.history
        /\ c.draft = board.draft /\ c.moving = board.moving
        /\ c.moved = board.moved /\ c.made = board.made /\ c.resizing = board.resizing
        /\ c.torn = board.torn /\ c.canUndo = board.canUndo
    BY <1>b DEF IsBoard
  <2> HIDE DEF c
  <2>2. Good(c)
    BY <2>1, <1>b, <1>p, QuietGood DEF Typed
  <2> QED BY <1>2, <2>2, BecomesGood DEF c
<1>3. CASE Becomes(EraseAt(p))
  BY <1>3, EraseGood, BecomesGood
<1>4. CASE \E c \in Grab(p) : Becomes(c)
  BY <1>4, GrabGood, BecomesGood
<1>5. \/ Becomes(Begin(p)) \/ Becomes([board EXCEPT !.text = p])
      \/ Becomes(EraseAt(p)) \/ \E c \in Grab(p) : Becomes(c)
  BY Zenon DEF Down
<1> QED BY <1>1, <1>2, <1>3, <1>4, <1>5

\* A board that differs from a good one only in what the history does not see.
LEMMA SameGood ==
  ASSUME NEW b, Good(b), NEW c, IsBoard(c),
         c.elements = b.elements, c.history = b.history,
         c.moving = b.moving, c.moved = b.moved, c.resizing = b.resizing,
         c.made = b.made, c.torn = b.torn, c.canUndo = b.canUndo,
         c.text # None => c.text \in Int,
         c.draft # None => {c.draft.from, c.draft.lo, c.draft.hi} \subseteq Int
  PROVE  Good(c)
<1>1. SettledOn(c) = SettledOn(b)
  BY DEF SettledOn
<1>2. Typed(c) /\ Firm(c)
  BY <1>1 DEF Good, Typed, Firm, Lit
<1>3. Follows(c)
  BY <1>1 DEF Follows, Good
<1> QED BY <1>2, <1>3 DEF Good

\* A gesture goes on: the history keeps the drawing from before it.
LEMMA GestureGood ==
  ASSUME BoardInv, NEW c, IsBoard(c), board.resizing # None \/ board.moving # None,
         c.elements \in Drawings(board.made), c.history = board.history,
         c.moving = board.moving, c.resizing = board.resizing,
         c.made = board.made, c.torn = board.torn, Lit(c),
         c.text = board.text, c.draft = board.draft, c.moved \in BOOLEAN,
         board.resizing = None /\ ~c.moved => ~board.moved /\ c.elements = board.elements
  PROVE  Good(c)
<1>0. c.canUndo \in BOOLEAN
  BY DEF Lit
<1>1. Typed(c)
  BY <1>0 DEF BoardInv, Typed
<1>3. SettledOn(c) = SettledOn(board)
  BY DEF SettledOn
<1>2. Firm(c)
  BY <1>3 DEF BoardInv, Firm
<1>4. Follows(c)
  BY <1>3 DEF Follows, BoardInv, Typed
<1> QED BY <1>1, <1>2, <1>4 DEF Good

LEMMA ResizedGood ==
  ASSUME BoardInv, NEW p \in Int, board.resizing # None
  PROVE  Good(Resized(board.resizing, p))
<1> DEFINE r == board.resizing
           anchor == IF r.handle = "e" THEN r.box.lo ELSE r.box.hi
           s == ResizeScale(r.box, r.handle, p)
           from(i) == IF i \in DOMAIN r.prev THEN r.prev[i] ELSE board.elements[i]
           made(i) == IF i \notin r.ids THEN board.elements[i]
                      ELSE ScaleElement(from(i), anchor, s[1], s[2])
           els == [i \in DOMAIN board.elements |-> made(i)]
           c == SetElements(board, els)
<1>1. IsBoard(board) /\ Typed(board) /\ r.box \in Spans /\ r.prev \in Drawings(board.made)
  BY BoardIs DEF Typed
<1>2. Resized(r, p) = c
  BY Zenon DEF Resized, Original
<1>3. anchor \in Int
  BY <1>1 DEF Spans
<1>4. \A i \in DOMAIN board.elements : board.elements[i] \in Spans
  BY <1>1, DrawingIs DEF Typed
<1>5. \A i \in DOMAIN board.elements : from(i) \in Spans
  BY <1>1, <1>4, DrawingIs DEF Typed
<1>6. \A i \in DOMAIN board.elements : made(i) \in Spans
  <2> HIDE DEF from, anchor
  <2>1. \A span \in Spans : ScaleElement(span, anchor, s[1], s[2]) \in Spans
    BY <1>1, <1>3, ScaledIs
  <2> HIDE DEF s
  <2> QED BY <1>4, <1>5, <2>1
<1>7. els \in Drawings(board.made)
  <2> HIDE DEF made
  <2>1. els \in [DOMAIN board.elements -> Spans]
    BY <1>6
  <2>2. DOMAIN board.elements \in SUBSET (1..board.made) /\ board.made \in Nat
    BY <1>1, DrawingIs DEF Typed
  <2> QED BY <2>1, <2>2, IsADrawing
<1> HIDE DEF els
<1>8. /\ IsBoard(c) /\ c.elements = els
      /\ c.history = board.history /\ c.draft = board.draft /\ c.text = board.text
      /\ c.moving = board.moving /\ c.moved = board.moved /\ c.resizing = board.resizing
      /\ c.made = board.made /\ c.torn = board.torn /\ Lit(c)
  BY <1>1, SetElementsIs
<1> HIDE DEF c
<1>9. Good(c)
  BY <1>1, <1>7, <1>8, GestureGood DEF Typed
<1> QED BY <1>2, <1>9

LEMMA MovedGood ==
  ASSUME BoardInv, NEW p \in Int, board.resizing = None, board.moving # None
  PROVE  Good(Moved(board.moving, p))
<1> DEFINE m == board.moving
           d == p - m.start
           from(i) == IF i \in DOMAIN m.prev THEN m.prev[i] ELSE board.elements[i]
           made(i) == IF i \notin m.ids THEN board.elements[i] ELSE TranslateElement(from(i), d)
           els == [i \in DOMAIN board.elements |-> made(i)]
           e == SetElements(board, els)
<1>1. IsBoard(board) /\ Typed(board) /\ m.start \in Int /\ m.prev \in Drawings(board.made)
  BY BoardIs DEF Typed
<1>2. PICK moved : moved = (e.moved \/ d # 0)
  OBVIOUS
<1>3. Moved(m, p) = [e EXCEPT !.moved = moved]
  BY <1>2, Zenon DEF Moved, Original
<1>4. \A i \in DOMAIN board.elements : board.elements[i] \in Spans
  BY <1>1, DrawingIs DEF Typed
<1>5. \A i \in DOMAIN board.elements : from(i) \in Spans
  BY <1>1, <1>4, DrawingIs DEF Typed
<1>6. d \in Int
  BY <1>1
<1>7. \A i \in DOMAIN board.elements : made(i) \in Spans
  <2> HIDE DEF from, d
  <2> QED BY <1>4, <1>5, <1>6, TranslatedIs
<1>8. els \in Drawings(board.made)
  <2> HIDE DEF made
  <2>1. els \in [DOMAIN board.elements -> Spans]
    BY <1>7
  <2>2. DOMAIN board.elements \in SUBSET (1..board.made) /\ board.made \in Nat
    BY <1>1, DrawingIs DEF Typed
  <2> QED BY <2>1, <2>2, IsADrawing
\* A move by nothing puts every element where it was.
<1>9. d = 0 /\ board.elements = m.prev => els = board.elements
  <2> SUFFICES ASSUME d = 0, board.elements = m.prev PROVE els = board.elements
    OBVIOUS
  <2>1. \A i \in DOMAIN board.elements : from(i) = board.elements[i]
    OBVIOUS
  <2>2. \A i \in DOMAIN board.elements : made(i) = board.elements[i]
    <3> HIDE DEF from, d
    <3> QED BY <2>1, <1>4, <1>6, TranslatedIs
  <2>3. board.elements = [i \in DOMAIN board.elements |-> board.elements[i]]
    BY <1>1, DrawingIs DEF Typed
  <2> HIDE DEF made
  <2> QED BY <2>2, <2>3
<1> HIDE DEF els
<1>10. /\ IsBoard(e) /\ e.elements = els
       /\ e.history = board.history /\ e.draft = board.draft /\ e.text = board.text
       /\ e.moving = board.moving /\ e.moved = board.moved /\ e.resizing = board.resizing
       /\ e.made = board.made /\ e.torn = board.torn /\ Lit(e)
  BY <1>1, SetElementsIs
<1> HIDE DEF e
<1> DEFINE c == [e EXCEPT !.moved = moved]
<1>11. /\ IsBoard(c) /\ c.elements = els /\ c.moved = moved
       /\ c.history = board.history /\ c.draft = board.draft /\ c.text = board.text
       /\ c.moving = board.moving /\ c.resizing = board.resizing
       /\ c.made = board.made /\ c.torn = board.torn /\ c.canUndo = e.canUndo
  BY <1>10 DEF IsBoard
<1> HIDE DEF c
<1>12. moved = (board.moved \/ d # 0)
  BY <1>2, <1>10, Zenon
<1>13. Lit(c)
  BY <1>10, <1>11 DEF Lit
<1>14. Good(c)
  <2> HIDE DEF d
  <2>1. CASE board.torn
    <3>1. c.torn = TRUE /\ moved \in BOOLEAN
      BY <2>1, <1>1, <1>11, <1>12 DEF Typed
    <3>2. Typed(c)
      BY <3>1, <1>1, <1>8, <1>11, <1>13 DEF Typed, Lit
    <3> QED BY <3>1, <3>2 DEF Good, Firm, Follows
  <2>2. CASE ~board.torn
    <3>1. ~board.moved => board.elements = m.prev
      BY <2>2, BoardIs DEF Firm
    <3>2. moved \in BOOLEAN /\ (~moved => ~board.moved /\ els = board.elements)
      BY <3>1, <1>9, <1>12, <1>1 DEF Typed
    <3> QED BY <3>2, <1>8, <1>11, <1>13, GestureGood
  <2> QED BY <2>1, <2>2
<1> QED BY <1>3, <1>14 DEF c

LEMMA MoveKeeps ==
  ASSUME BoardInv, NEW p \in Points, MoveTo(p)
  PROVE  BoardInv' /\ Follows(board')
<1>p. p \in Int
  BY DEF Points
<1>b. IsBoard(board) /\ Typed(board)
  BY BoardIs
<1>1. CASE board.draft # None /\ Becomes([board EXCEPT !.draft = Stretched(board.draft, p)])
  <2> DEFINE d == Stretched(board.draft, p)
             c == [board EXCEPT !.draft = d]
  <2>1. {board.draft.from, board.draft.lo, board.draft.hi} \subseteq Int
    BY <1>1, <1>b DEF Typed
  <2>2. {d.from, d.lo, d.hi} \subseteq Int
    <3> DEFINE e == board.draft
    <3>1. PICK lo, hi : /\ lo \in Int /\ hi \in Int
                        /\ d = [pen |-> e.pen, from |-> e.from, lo |-> lo, hi |-> hi]
      <4>1. e.from \in Int /\ e.lo \in Int /\ e.hi \in Int
        BY <2>1
      <4>2. CASE e.pen
        <5>1. d = [pen |-> e.pen, from |-> e.from, lo |-> Least({e.lo, e.hi, p}),
                   hi |-> Greatest({e.lo, e.hi, p})]
          BY <4>2 DEF Stretched
        <5> QED BY <4>1, <5>1, <1>p, TripleIn
      <4>3. CASE ~e.pen
        <5>1. d = [pen |-> e.pen, from |-> e.from, lo |-> Least({e.from, p}),
                   hi |-> Greatest({e.from, p})]
          BY <4>3 DEF Stretched
        <5> QED BY <4>1, <5>1, <1>p, PairIn
      <4> QED BY <4>2, <4>3
    <3> QED BY <2>1, <3>1
  <2> HIDE DEF d
  <2>3. /\ IsBoard(c) /\ c.draft = d
        /\ c.elements = board.elements /\ c.history = board.history
        /\ c.text = board.text /\ c.moving = board.moving
        /\ c.moved = board.moved /\ c.made = board.made /\ c.resizing = board.resizing
        /\ c.torn = board.torn /\ c.canUndo = board.canUndo
    BY <1>b DEF IsBoard
  <2> HIDE DEF c
  <2>4. Good(c)
    BY <2>2, <2>3, <1>b, QuietGood DEF Typed
  <2> QED BY <1>1, <2>4, BecomesGood DEF c, d
<1>2. CASE board.resizing # None /\ Becomes(Resized(board.resizing, p))
  BY <1>2, <1>p, ResizedGood, BecomesGood
<1>3. CASE board.resizing = None /\ board.moving # None /\ Becomes(Moved(board.moving, p))
  BY <1>3, <1>p, MovedGood, BecomesGood
<1>4. CASE \E lo, hi : Becomes([board EXCEPT !.lasso.lo = lo, !.lasso.hi = hi])
  <2>1. PICK lo, hi : Becomes([board EXCEPT !.lasso.lo = lo, !.lasso.hi = hi])
    BY <1>4
  <2> DEFINE c == [board EXCEPT !.lasso.lo = lo, !.lasso.hi = hi]
  <2>2. /\ IsBoard(c) /\ c.draft = board.draft
        /\ c.elements = board.elements /\ c.history = board.history
        /\ c.text = board.text /\ c.moving = board.moving
        /\ c.moved = board.moved /\ c.made = board.made /\ c.resizing = board.resizing
        /\ c.torn = board.torn /\ c.canUndo = board.canUndo
    BY <1>b DEF IsBoard
  <2> HIDE DEF c
  <2>3. Good(c)
    BY <2>2, <1>b, QuietGood DEF Typed
  <2> QED BY <2>1, <2>3, BecomesGood DEF c
<1>5. CASE Becomes(board)
  <2>1. Good(board)
    BY <1>b, QuietGood DEF Typed
  <2> QED BY <1>5, <2>1, BecomesGood
<1>6. CASE Becomes(EraseAt(p))
  BY <1>6, EraseGood, BecomesGood
<1>7. \/ board.draft # None /\ Becomes([board EXCEPT !.draft = Stretched(board.draft, p)])
      \/ board.resizing # None /\ Becomes(Resized(board.resizing, p))
      \/ board.resizing = None /\ board.moving # None /\ Becomes(Moved(board.moving, p))
      \/ \E lo, hi : Becomes([board EXCEPT !.lasso.lo = lo, !.lasso.hi = hi])
      \/ Becomes(board)
      \/ Becomes(EraseAt(p))
  BY Zenon DEF MoveTo
<1> QED BY <1>1, <1>2, <1>3, <1>4, <1>5, <1>6, <1>7

\* The end of a move, of a lasso or of nothing.
Ended(b) ==
  /\ Good(b) /\ b.torn = board.torn
  /\ \/ Held
     \/ /\ b.moving = None /\ b.resizing = None
        /\ b.elements = board.elements /\ b.history = board.history

LEMMA LetGoEnds ==
  ASSUME BoardInv, board.resizing = None, board.moving # None
  PROVE  Ended(LetGo(board))
<1> DEFINE b == IF board.moved THEN PushHistory(board, board.moving.prev) ELSE board
           c == [b EXCEPT !.moving = None, !.moved = FALSE]
<1>b. IsBoard(board) /\ Typed(board) /\ Firm(board)
  BY BoardIs
<1>1. /\ IsBoard(b)
      /\ b.history = IF board.moved THEN Append(board.history, board.moving.prev)
                     ELSE board.history
      /\ b.elements = board.elements /\ b.draft = board.draft /\ b.text = board.text
      /\ b.resizing = board.resizing /\ b.made = board.made /\ b.torn = board.torn
      /\ b.canUndo = board.canUndo
  BY <1>b DEF IsBoard, PushHistory
<1>2. LetGo(board) = c
  BY DEF LetGo
<1> HIDE DEF b
<1>3. /\ IsBoard(c) /\ c.moving = None /\ c.moved = FALSE
      /\ c.history = IF board.moved THEN Append(board.history, board.moving.prev)
                     ELSE board.history
      /\ c.elements = board.elements /\ c.draft = board.draft /\ c.text = board.text
      /\ c.resizing = board.resizing /\ c.made = board.made /\ c.torn = board.torn
      /\ c.canUndo = board.canUndo
  BY <1>1 DEF IsBoard
<1> HIDE DEF c
<1>4. Typed(c)
  <2>1. c.history \in Seq(Drawings(board.made))
    BY <1>3, <1>b, AppendProperties DEF Typed
  <2> QED BY <2>1, <1>3, <1>b DEF Typed
<1>5. SettledOn(board) = board.moving.prev /\ SettledOn(c) = board.elements
  BY <1>3 DEF SettledOn
<1>6. Firm(c)
  <2>1. board.moved => c.history # <<>> /\ (board.history # <<>> => c.history[1] = board.history[1])
    BY <1>3, <1>b, FirstStays DEF Typed
  <2> QED BY <1>3, <1>5, <1>b, <2>1 DEF Firm, Lit
<1>7. Follows(c)
  BY <1>3, <1>5, <1>b DEF Follows, Firm, Typed
<1> QED BY <1>2, <1>3, <1>4, <1>6, <1>7 DEF Ended, Good, Held

LEMMA LassoedEnds ==
  ASSUME BoardInv
  PROVE  Ended(Lassoed(board))
<1>b. IsBoard(board) /\ Typed(board)
  BY BoardIs
<1>1. PICK ids : Lassoed(board) = [board EXCEPT !.selected = ids, !.lasso = None]
  BY Zenon DEF Lassoed
<1> DEFINE c == [board EXCEPT !.selected = ids, !.lasso = None]
<1>2. /\ IsBoard(c) /\ c.draft = board.draft
      /\ c.elements = board.elements /\ c.history = board.history
      /\ c.text = board.text /\ c.moving = board.moving
      /\ c.moved = board.moved /\ c.made = board.made /\ c.resizing = board.resizing
      /\ c.torn = board.torn /\ c.canUndo = board.canUndo
  BY <1>b DEF IsBoard
<1> HIDE DEF c
<1>3. Good(c)
  BY <1>2, <1>b, QuietGood DEF Typed
<1> QED BY <1>1, <1>2, <1>3 DEF Ended, Held, c

LEMMA BoardEnds ==
  ASSUME BoardInv
  PROVE  Ended(board)
BY BoardIs, QuietGood DEF Typed, Ended, Held

\* The draft becomes an element, if it has a size.
LEMMA DrawnGood ==
  ASSUME BoardInv, NEW b, Ended(b)
  PROVE  Good(Drawn(b))
<1> DEFINE c == [b EXCEPT !.draft = None]
<1>b. IsBoard(b) /\ Typed(b) /\ Good(b)
  BY DEF Ended, Good, Typed
<1>1. /\ IsBoard(c) /\ c.draft = None
      /\ c.elements = b.elements /\ c.history = b.history
      /\ c.text = b.text /\ c.moving = b.moving
      /\ c.moved = b.moved /\ c.made = b.made /\ c.resizing = b.resizing
      /\ c.torn = b.torn /\ c.canUndo = b.canUndo
  BY <1>b DEF IsBoard
<1>2. CASE b.draft = None
  BY <1>2, <1>b DEF Drawn
<1> HIDE DEF c
<1>3. Good(c)
  BY <1>1, <1>b, SameGood DEF Typed
<1>4. CASE b.draft # None /\ b.draft.lo = b.draft.hi
  BY <1>3, <1>4 DEF Drawn, c
<1>5. CASE b.draft # None /\ b.draft.lo # b.draft.hi
  <2> DEFINE span == [lo |-> b.draft.lo, hi |-> b.draft.hi]
  <2>1. span \in Spans
    BY <1>5, <1>b DEF Typed, Spans
  <2>2. Drawn(b) = AddElement(c, span)
    BY <1>5 DEF Drawn, c
  <2> HIDE DEF span
  <2>3. Typed(c) /\ c.torn = board.torn
    BY <1>1, <1>3 DEF Good, Ended
  <2>4. Held \/ (/\ c.moving = None /\ c.resizing = None
                 /\ c.elements = board.elements /\ c.history = board.history)
    BY <1>1 DEF Ended
  <2> QED BY <2>1, <2>2, <2>3, <2>4, AddGood
<1> QED BY <1>2, <1>4, <1>5

LEMMA UpKeeps ==
  ASSUME BoardInv, Up
  PROVE  BoardInv' /\ Follows(board')
<1>b. IsBoard(board) /\ Typed(board) /\ Firm(board)
  BY BoardIs
<1>1. CASE board.resizing # None
  <2> DEFINE b == PushHistory(board, board.resizing.prev)
             c == [b EXCEPT !.resizing = None]
  <2>1. /\ IsBoard(b) /\ b.history = Append(board.history, board.resizing.prev)
        /\ b.elements = board.elements /\ b.draft = board.draft /\ b.text = board.text
        /\ b.moving = board.moving /\ b.moved = board.moved /\ b.made = board.made
        /\ b.torn = board.torn /\ b.canUndo = board.canUndo
    BY <1>b DEF IsBoard, PushHistory
  <2>2. Becomes(c)
    BY <1>1 DEF Up
  <2> HIDE DEF b
  <2>3. /\ IsBoard(c) /\ c.history = Append(board.history, board.resizing.prev)
        /\ c.elements = board.elements /\ c.draft = board.draft /\ c.text = board.text
        /\ c.moving = board.moving /\ c.moved = board.moved /\ c.made = board.made
        /\ c.torn = board.torn /\ c.canUndo = board.canUndo /\ c.resizing = None
    BY <2>1 DEF IsBoard
  <2> HIDE DEF c
  <2>4. c.history \in Seq(Drawings(board.made))
    BY <1>1, <1>b, <2>3, AppendProperties DEF Typed
  <2>5. Typed(c)
    BY <2>3, <2>4, <1>b DEF Typed
  <2>6. Firm(c)
    <3>1. c.history # <<>> /\ (board.history # <<>> => c.history[1] = board.history[1])
      BY <1>1, <1>b, <2>3, FirstStays DEF Typed
    <3> QED BY <1>1, <2>3, <1>b, <3>1 DEF Firm, Lit
  <2>7. SettledOn(board) = board.resizing.prev
    BY <1>1 DEF SettledOn
  <2>8. Follows(c)
    BY <2>3, <2>7, <1>b DEF Follows, Typed
  <2> QED BY <2>2, <2>5, <2>6, <2>8, BecomesGood DEF Good
<1>2. CASE board.resizing = None
  <2>1. \/ board.moving # None /\ Becomes(Drawn(LetGo(board)))
        \/ Becomes(Drawn(Lassoed(board)))
        \/ Becomes(Drawn(board))
    BY <1>2, Zenon DEF Up
  <2> QED BY <1>2, <2>1, LetGoEnds, LassoedEnds, BoardEnds, DrawnGood, BecomesGood
<1> QED BY <1>1, <1>2

-----------------------------------------------------------------------------
(* The keyboard, the text and the toolbar.                                 *)

LEMMA CommitTextKeeps ==
  ASSUME BoardInv, NEW typed \in BOOLEAN, CommitText(typed)
  PROVE  BoardInv' /\ Follows(board')
<1>b. IsBoard(board) /\ Typed(board)
  BY BoardIs
<1> DEFINE c == [board EXCEPT !.text = None]
           span == [lo |-> board.text, hi |-> board.text + 1]
<1>1. /\ IsBoard(c) /\ c.text = None /\ c.draft = board.draft
      /\ c.elements = board.elements /\ c.history = board.history
      /\ c.moving = board.moving
      /\ c.moved = board.moved /\ c.made = board.made /\ c.resizing = board.resizing
      /\ c.torn = board.torn /\ c.canUndo = board.canUndo
  BY <1>b DEF IsBoard
<1>2. Becomes(AddElement(c, span)) \/ Becomes(c)
  BY Zenon DEF CommitText
<1>3. span \in Spans
  BY <1>b DEF CommitText, Typed, Spans
<1> HIDE DEF c, span
<1>4. Good(c)
  BY <1>1, <1>b, QuietGood DEF Typed
<1>5. Good(AddElement(c, span))
  <2>1. Typed(c)
    BY <1>4 DEF Good
  <2>2. Held \/ (c.moving = None /\ c.resizing = None)
    BY <1>1 DEF Held
  <2> QED BY <1>1, <1>3, <2>1, <2>2, AddGood
<1> QED BY <1>2, <1>4, <1>5, BecomesGood

LEMMA DeleteKeeps ==
  ASSUME BoardInv, DeleteSelected
  PROVE  BoardInv' /\ Follows(board')
<1>b. IsBoard(board) /\ Typed(board)
  BY BoardIs
<1> DEFINE e == Edited(board, Without(Present))
<1>1. \/ Becomes([board EXCEPT !.selected = {}])
      \/ Becomes([e EXCEPT !.selected = {}])
  BY Zenon DEF DeleteSelected
<1>2. CASE Becomes([board EXCEPT !.selected = {}])
  <2> DEFINE c == [board EXCEPT !.selected = {}]
  <2>1. /\ IsBoard(c) /\ c.draft = board.draft
        /\ c.elements = board.elements /\ c.history = board.history
        /\ c.text = board.text /\ c.moving = board.moving
        /\ c.moved = board.moved /\ c.made = board.made /\ c.resizing = board.resizing
        /\ c.torn = board.torn /\ c.canUndo = board.canUndo
    BY <1>b DEF IsBoard
  <2> HIDE DEF c
  <2>2. Good(c)
    BY <2>1, <1>b, QuietGood DEF Typed
  <2> QED BY <1>2, <2>2, BecomesGood DEF c
<1>3. CASE Becomes([e EXCEPT !.selected = {}])
  <2> DEFINE c == [e EXCEPT !.selected = {}]
  <2>1. /\ IsBoard(e)
        /\ e.elements = Without(Present) /\ e.history = Append(board.history, board.elements)
        /\ e.torn = (board.torn \/ Held)
        /\ e.draft = board.draft /\ e.text = board.text /\ e.moving = board.moving
        /\ e.moved = board.moved /\ e.resizing = board.resizing /\ e.made = board.made
        /\ Lit(e)
    BY <1>b, EditedIs
  <2> HIDE DEF e
  <2>2. /\ IsBoard(c)
        /\ c.elements = Without(Present) /\ c.history = Append(board.history, board.elements)
        /\ c.torn = (board.torn \/ Held)
        /\ c.draft = board.draft /\ c.text = board.text /\ c.moving = board.moving
        /\ c.moved = board.moved /\ c.resizing = board.resizing /\ c.made = board.made
        /\ Lit(c)
    BY <2>1 DEF IsBoard, Lit
  <2> HIDE DEF c
  <2>3. Held \/ (board.moving = None /\ board.resizing = None)
    BY DEF Held
  <2>4. c.made \in Nat /\ Drawings(board.made) \subseteq Drawings(c.made)
        /\ c.elements \in Drawings(c.made)
    BY <1>b, <2>2, WithoutIs DEF Typed
  <2>5. Good(c)
    BY <1>b, <2>2, <2>3, <2>4, EditGood
  <2> QED BY <1>3, <2>5, BecomesGood DEF c
<1> QED BY <1>1, <1>2, <1>3

LEMMA UndoKeeps ==
  ASSUME BoardInv, Undo
  PROVE  BoardInv' /\ Follows(board')
<1>b. IsBoard(board) /\ Typed(board) /\ Firm(board)
  BY BoardIs
<1> DEFINE n == Len(board.history)
           rest == SubSeq(board.history, 1, n - 1)
           last == board.history[n]
<1>t. PICK torn : torn = (board.torn \/ Held)
  OBVIOUS
<1> DEFINE b == [board EXCEPT !.history = rest, !.selected = {}, !.torn = torn]
           c == SetElements(b, last)
<1>1. \/ board.history = <<>> /\ Becomes(board)
      \/ board.history # <<>> /\ Becomes(c)
  <2>1. board.history \in Seq(Drawings(board.made))
    BY <1>b DEF Typed
  <2>2. n = 0 <=> board.history = <<>>
    BY <2>1, EmptySeq
  <2>3. (n = 0 /\ Becomes(board)) \/ (n # 0 /\ Becomes(c))
    BY <1>t, Zenon DEF Undo
  <2> QED BY <2>2, <2>3
<1>2. CASE board.history = <<>> /\ Becomes(board)
  BY <1>2, BoardEnds, BecomesGood DEF Ended
<1>3. CASE board.history # <<>> /\ Becomes(c)
  <2>1. /\ IsBoard(b) /\ b.history = rest /\ b.torn = torn
        /\ b.draft = board.draft /\ b.text = board.text /\ b.moving = board.moving
        /\ b.moved = board.moved /\ b.resizing = board.resizing /\ b.made = board.made
    <3> HIDE DEF rest
    <3> QED BY <1>b DEF IsBoard
  <2>2. rest \in Seq(Drawings(board.made)) /\ last \in Drawings(board.made)
    <3>1. board.history \in Seq(Drawings(board.made))
      BY <1>b DEF Typed
    <3>2. n \in Nat /\ n # 0
      BY <3>1, <1>3, EmptySeq, LenProperties
    <3>3. last \in Drawings(board.made)
      BY <3>1, <3>2, ElementOfSeq
    <3>4. rest \in Seq(Drawings(board.made))
      BY <3>1, <3>2
    <3> QED BY <3>3, <3>4
  <2> HIDE DEF b, rest, last
  <2>3. /\ IsBoard(c) /\ c.elements = last /\ c.history = rest /\ c.torn = torn
        /\ c.draft = board.draft /\ c.text = board.text /\ c.moving = board.moving
        /\ c.moved = board.moved /\ c.resizing = board.resizing /\ c.made = board.made
        /\ Lit(c)
    BY <2>1, SetElementsIs DEF Lit
  <2> HIDE DEF c
  <2>4. torn \in BOOLEAN
    BY <1>t DEF Held
  <2>5. Typed(c)
    BY <1>b, <2>2, <2>3, <2>4 DEF Typed, Lit
  <2>6. ASSUME torn PROVE Good(c)
    BY <2>3, <2>4, <2>5, <2>6 DEF Good, Firm, Follows
  <2>7. ASSUME ~torn PROVE Good(c)
    <3>1. board.moving = None /\ board.resizing = None
      BY <2>7, <1>t DEF Held
    <3>2. SettledOn(c) = last
      BY <3>1, <2>3 DEF SettledOn
    <3>4. board.torn = FALSE
      BY <2>7, <1>t, <1>b DEF Typed
    <3>5. Firm(c)
      <4>1. IF rest = <<>> THEN last = board.history[1] ELSE rest[1] = board.history[1]
        <5> DEFINE h == board.history
                   size == Len(h)
        <5>1. h \in Seq(Drawings(board.made)) /\ h # <<>>
          BY <1>b, <1>3 DEF Typed
        <5>2. size \in Nat /\ size # 0
          BY <5>1, EmptySeq, LenProperties
        <5>3. \A i \in 1..size-1 : h[i] \in Drawings(board.made)
          BY <5>1, <5>2, ElementOfSeq
        <5>4. rest = SubSeq(h, 1, size - 1) /\ last = h[size]
          BY DEF rest, last
        <5> HIDE DEF h, size, rest, last
        <5>5. Len(rest) = size - 1 /\ \A i \in 1..size-1 : rest[i] = h[i]
          <6>1. /\ Len(SubSeq(h,1,size-1)) = IF 1 <= size-1 THEN (size-1)-1+1 ELSE 0
                /\ \A i \in 1..(size-1)-1+1 : SubSeq(h,1,size-1)[i] = h[1+i-1]
            BY <5>2, <5>3, SubSeqProperties
          <6> QED BY <6>1, <5>2, <5>4
        <5>6. CASE size = 1
          <6>1. rest = <<>>
            BY <5>6, <5>4, <5>2, SubSeqEmpty
          <6> QED BY <6>1, <5>4, <5>6 DEF h
        <5>7. CASE size > 1
          <6>1. 1 \in 1..size-1
            BY <5>7, <5>2
          <6>2. rest # <<>>
            BY <5>5, <5>7, <5>2
          <6> QED BY <6>1, <6>2, <5>5 DEF h
        <5> QED BY <5>2, <5>6, <5>7
      <4>2. board.history[1] = Blank
        BY <3>4, <1>3, <1>b DEF Firm
      <4> QED BY <3>1, <3>2, <4>1, <4>2, <2>3 DEF Firm
    <3>3. Follows(c)
      BY <3>2, <2>3, <2>4, <2>7, <1>3 DEF Follows, last, rest
    <3> QED BY <2>5, <3>3, <3>5 DEF Good
  <2>8. Good(c)
    BY <2>6, <2>7
  <2> QED BY <1>3, <2>8, BecomesGood
<1> QED BY <1>1, <1>2, <1>3

LEMMA FreshGood ==
  ASSUME NEW c, IsBoard(c), c.elements = Blank, c.history = <<>>, c.draft = None,
         c.text = None, c.moving = None, c.moved = FALSE, c.resizing = None, c.canUndo = FALSE,
         c.made \in Nat, c.torn \in {TRUE, FALSE}
  PROVE  Good(c)
<1>1. Typed(c)
  BY BlankIs, EmptySeq DEF Typed
<1>2. Firm(c) /\ SettledOn(c) = Blank
  BY DEF Firm, Lit, SettledOn
<1> QED BY <1>1, <1>2 DEF Good, Follows

LEMMA ClearKeeps ==
  ASSUME BoardInv, Clear
  PROVE  BoardInv' /\ Follows(board')
<1>b. Typed(board)
  BY BoardIs
<1> DEFINE c == [Fresh EXCEPT !.tool = board.tool, !.made = board.made, !.torn = board.torn]
<1>1. /\ IsBoard(c) /\ c.elements = Blank /\ c.history = <<>> /\ c.draft = None
      /\ c.text = None /\ c.moving = None /\ c.moved = FALSE /\ c.resizing = None
      /\ c.made = board.made /\ c.torn = board.torn /\ c.canUndo = FALSE
  BY DEF Fresh, IsBoard
<1>2. Becomes(c)
  BY DEF Clear
<1> HIDE DEF c
<1>3. Good(c)
  BY <1>1, <1>b, FreshGood DEF Typed
<1> QED BY <1>2, <1>3, BecomesGood

LEMMA FreshIs ==
  /\ IsBoard(Fresh) /\ Fresh.elements = Blank /\ Fresh.history = <<>> /\ Fresh.draft = None
  /\ Fresh.text = None /\ Fresh.moving = None /\ Fresh.moved = FALSE /\ Fresh.resizing = None
  /\ Fresh.made \in Nat /\ Fresh.torn = FALSE /\ Fresh.canUndo = FALSE
BY DEF Fresh, IsBoard

LEMMA FreshIsGood == Good(Fresh)
<1> DEFINE c == Fresh
<1>1. /\ IsBoard(c) /\ c.elements = Blank /\ c.history = <<>> /\ c.draft = None
      /\ c.text = None /\ c.moving = None /\ c.moved = FALSE /\ c.resizing = None
      /\ c.made \in Nat /\ c.torn = FALSE /\ c.canUndo = FALSE
  BY FreshIs
<1> HIDE DEF c
<1>2. Good(c)
  BY <1>1, FreshGood
<1> QED BY <1>2 DEF c

LEMMA LeaveKeeps ==
  ASSUME Leave
  PROVE  BoardInv' /\ Follows(board')
<1>1. Good(Fresh)
  BY FreshIsGood
<1>2. board' = Fresh
  BY DEF Leave
<1> QED BY <1>1, <1>2 DEF Good, BoardInv, Typed, Firm, IsBoard

LEMMA ChooseToolKeeps ==
  ASSUME BoardInv, NEW t \in Tools, ChooseTool(t)
  PROVE  BoardInv' /\ Follows(board')
<1>b. IsBoard(board) /\ Typed(board)
  BY BoardIs
<1> DEFINE c == [board EXCEPT !.tool = t]
<1>1. /\ IsBoard(c) /\ c.draft = board.draft
      /\ c.elements = board.elements /\ c.history = board.history
      /\ c.text = board.text /\ c.moving = board.moving
      /\ c.moved = board.moved /\ c.made = board.made /\ c.resizing = board.resizing
      /\ c.torn = board.torn /\ c.canUndo = board.canUndo
  BY <1>b DEF IsBoard
<1>2. board' = c
  BY DEF ChooseTool
<1> HIDE DEF c
<1>3. Good(c)
  BY <1>1, <1>b, QuietGood DEF Typed
<1> QED BY <1>2, <1>3 DEF Good, BoardInv, Typed, Firm, IsBoard

-----------------------------------------------------------------------------
(* Every step.                                                             *)

LEMMA StepKeeps ==
  ASSUME BoardInv, Next
  PROVE  BoardInv' /\ Follows(board')
<1>1. CASE \E p \in Points : Down(p) \/ MoveTo(p)
  BY <1>1, DownKeeps, MoveKeeps
<1>2. CASE Up
  BY <1>2, UpKeeps
<1>3. CASE \E typed \in BOOLEAN : CommitText(typed)
  BY <1>3, CommitTextKeeps
<1>4. CASE DeleteSelected \/ Undo \/ Clear \/ Leave
  BY <1>4, DeleteKeeps, UndoKeeps, ClearKeeps, LeaveKeeps
<1>5. CASE \E t \in Tools : ChooseTool(t)
  BY <1>5, ChooseToolKeeps
<1> QED BY <1>1, <1>2, <1>3, <1>4, <1>5 DEF Next

\* A gesture changes what the history sees only when it ends.
LEMMA StepFollows ==
  ASSUME BoardInv, [Next]_board
  PROVE  [History!Next]_<<Settled, board.history, board.torn>>
<1>1. SettledOn(board) = Settled
  BY DEF SettledOn, Settled
<1>2. SettledOn(board') = Settled'
  BY DEF SettledOn, Settled
<1>3. CASE Next
  <2>1. Follows(board')
    BY <1>3, StepKeeps
  <2> QED BY <1>1, <1>2, <2>1
          DEF Follows, History!Next, History!Change, History!Undo, History!Clear
<1>4. CASE UNCHANGED board
  BY <1>4 DEF Settled
<1> QED BY <1>3, <1>4

LEMMA BoardInvHolds == Spec => []BoardInv
<1>1. Init => BoardInv
  <2>1. Good(Fresh)
    BY FreshIsGood
  <2> QED BY <2>1 DEF Init, BoardInv, Good
<1>2. BoardInv /\ [Next]_board => BoardInv'
  <2>1. BoardInv /\ Next => BoardInv'
    BY StepKeeps
  <2>2. BoardInv /\ UNCHANGED board => BoardInv'
    BY DEF BoardInv, Typed, Firm, IsBoard
  <2> QED BY <2>1, <2>2
<1> QED BY <1>1, <1>2, PTL DEF Spec

\* The page implements the history that undo promises, whatever the gestures,
\* the tools and the keys, and on a canvas of any size: erasing, moving,
\* resizing, drawing, typing, deleting and clearing each keep exactly the
\* drawing before them, until the drawing is edited under a gesture.
THEOREM UndoImplemented == Spec => UndoIsExact
<1>1. Init => History!Init
  BY FreshIs DEF Init, History!Init, Settled
<1>2. BoardInv /\ [Next]_board => [History!Next]_<<Settled, board.history, board.torn>>
  BY StepFollows
<1>3. Spec => []BoardInv
  BY BoardInvHolds
<1> QED BY <1>1, <1>2, <1>3, PTL DEF Spec, UndoIsExact, History!Spec

\* The undo button is lit exactly when there is something to undo: the end of
\* a gesture adds to the history without telling the toolbar, but a gesture
\* holds elements, and there are none before the history has begun.
THEOREM UndoOffered == Spec => []UndoIsOffered
<1>1. BoardInv => UndoIsOffered
  BY DEF BoardInv, Firm, Lit, UndoIsOffered
<1> QED BY <1>1, BoardInvHolds, PTL

-----------------------------------------------------------------------------
(* The whiteboard as one page of several: the others leave it alone.       *)

\* Seen from its canvas, the application is the whiteboard page.
LEMMA ImplementsWhiteboard == AppSpec => Spec
<1>1. AppInit => Init
  BY DEF AppInit
<1>2. [AppNext]_appVars => [Next]_board
  BY DEF AppNext, OnWhiteboard, OnSettings, OnChat, appVars
<1> QED BY <1>1, <1>2, PTL DEF AppSpec, Spec

\* In the application, too, undo brings back exactly the drawing before the
\* last gesture, erasure, deletion or text.
THEOREM AppUndoIsExact == AppSpec => UndoIsExact
BY ImplementsWhiteboard, UndoImplemented, PTL

\* And the button says whether there is one.
THEOREM AppUndoIsOffered == AppSpec => []UndoIsOffered
BY ImplementsWhiteboard, UndoOffered, PTL

-----------------------------------------------------------------------------
(* A list without one of its elements.                                     *)

Less(s, n) == SubSeq(s, 1, n - 1) \o SubSeq(s, n + 1, Len(s))

\* Where the k-th element of what is left was.
Was(n, k) == IF k < n THEN k ELSE k + 1

LEMMA LessIs ==
  ASSUME NEW S, NEW s \in Seq(S), NEW n \in DOMAIN s
  PROVE  /\ Less(s, n) \in Seq(S) /\ Len(Less(s, n)) = Len(s) - 1
         /\ \A k \in DOMAIN Less(s, n) : /\ Was(n, k) \in DOMAIN s \ {n}
                                         /\ Less(s, n)[k] = s[Was(n, k)]
         /\ \A k, l \in DOMAIN Less(s, n) : k # l => Was(n, k) # Was(n, l)
         /\ \A m \in DOMAIN s \ {n} : \E k \in DOMAIN Less(s, n) : Was(n, k) = m
<1> DEFINE a == SubSeq(s, 1, n - 1)
           b == SubSeq(s, n + 1, Len(s))
<1>1. n \in 1..Len(s) /\ Len(s) \in Nat /\ DOMAIN s = 1..Len(s)
  OBVIOUS
<1>2. a \in Seq(S) /\ Len(a) = n - 1 /\ \A k \in 1..(n - 1) : a[k] = s[k]
  BY <1>1
<1>3. b \in Seq(S) /\ Len(b) = Len(s) - n /\ \A k \in 1..(Len(s) - n) : b[k] = s[n + k]
  BY <1>1
<1>4. Less(s, n) = a \o b
  BY DEF Less
<1> HIDE DEF a, b
<1>5. Less(s, n) \in Seq(S) /\ Len(Less(s, n)) = Len(s) - 1
  <2>1. a \o b \in Seq(S) /\ Len(a \o b) = Len(a) + Len(b)
    BY <1>2, <1>3, ConcatProperties
  <2> QED BY <1>1, <1>2, <1>3, <1>4, <2>1
<1>6. \A k \in 1..(Len(s) - 1) : (a \o b)[k] = s[Was(n, k)]
  BY <1>1, <1>2, <1>3, SMTT(40) DEF Was
<1>7. DOMAIN Less(s, n) = 1..(Len(s) - 1)
  BY <1>5
<1>8. \A k \in 1..(Len(s) - 1) : Was(n, k) \in DOMAIN s \ {n}
  BY <1>1 DEF Was
<1>9. \A k, l \in 1..(Len(s) - 1) : k # l => Was(n, k) # Was(n, l)
  BY <1>1 DEF Was
<1>10. ASSUME NEW m \in DOMAIN s \ {n} PROVE \E k \in 1..(Len(s) - 1) : Was(n, k) = m
  <2>1. CASE m < n
    <3>1. m \in 1..(Len(s) - 1) /\ Was(n, m) = m
      BY <2>1, <1>1 DEF Was
    <3> QED BY <3>1
  <2>2. CASE ~(m < n)
    <3>1. m - 1 \in 1..(Len(s) - 1) /\ Was(n, m - 1) = m
      BY <2>2, <1>1 DEF Was
    <3> QED BY <3>1
  <2> QED BY <2>1, <2>2
<1> QED BY <1>4, <1>5, <1>6, <1>7, <1>8, <1>9, <1>10

-----------------------------------------------------------------------------
Keeping == INSTANCE Loop_proofs WITH Body <- Side!KeepIf

\* What is kept of a list is a list of its elements.
LEMMA SideKeeps ==
  ASSUME NEW R, NEW s \in Seq(R), NEW S
  PROVE  Side!Keep(s, S) \in Seq(R)
<1> DEFINE Inv == Seq(R)
<1>1. <<>> \in Inv /\ Len(s) \in Nat
  OBVIOUS
<1>2. ASSUME NEW i \in 1..Len(s), NEW acc \in Inv PROVE Side!KeepIf(S, acc, s[i]) \in Inv
  <2>1. s[i] \in R
    OBVIOUS
  <2> QED BY <2>1 DEF Side!KeepIf
<1> HIDE DEF Inv
<1>3. Keeping!After(S, <<>>, s, Len(s)) \in Inv
  BY <1>1, <1>2, Keeping!AfterKeeps
<1>4. Side!Keep(s, S) = Keeping!After(S, <<>>, s, Len(s))
  BY Zenon DEF Side!Keep, Side!Filter!Loop, Side!Filter!After, Keeping!After
<1> QED BY <1>3, <1>4 DEF Inv

-----------------------------------------------------------------------------
(* The sidebar: its calls.                                                 *)

CallType ==
  [kind : {"load", "list", "create", "rename", "name", "event"},
   item : Subjects \cup Chats \cup {None}, value : Names \cup {EmptyTitle, None},
   at : {"sent", "asked", "done", "refused", "failed"},
   list : Side!Lists \cup {None}, heard : BOOLEAN]

\* Every call says enough for what is made of its answer.
CallOK(call) ==
  /\ call.kind = "list" => call.item \in Subjects
  /\ call.kind \notin {"load", "list"} => call.item \in Subjects \cup Chats
  /\ call.kind \in {"create", "rename"} => call.value \in Names
  /\ call.kind = "event" => call.value \in Names \cup {EmptyTitle}
  /\ call.kind \in {"load", "list"} /\ call.at = "done" => call.list \in Side!Lists

CallsOut == {call \in CallType : CallOK(call)}

ShownType == [Subjects \cup Chats -> Names \cup {EmptyTitle, None}]

SideType ==
  [loading : BOOLEAN, shown : ShownType, editing : Subjects \cup Chats \cup {None},
   dialog : BOOLEAN, mixed : SUBSET (Subjects \cup Chats), moves : 0..MaxMoves]

SideTyped ==
  /\ names \in Side!Lists /\ side \in SideType /\ calls \in Seq(CallsOut)

LEMMA SideTypedIsOK == SideTyped => Side!TypeOK
<1> SUFFICES ASSUME SideTyped PROVE Side!TypeOK
  OBVIOUS
<1>1. calls \in Seq(CallType)
  BY SeqMonotonic, CallsOut \subseteq CallType DEF SideTyped, CallsOut
<1> QED BY <1>1 DEF Side!TypeOK, SideTyped, SideType, ShownType, CallType, Side!Items

LEMMA ListIsShown == Side!Lists \subseteq ShownType
<1> SUFFICES ASSUME NEW list \in Side!Lists PROVE list \in ShownType
  OBVIOUS
<1> QED BY DEF Side!Lists, ShownType, Side!Items

LEMMA SideAbout ==
  ASSUME NEW call \in CallsOut
  PROVE  Side!About(call) \subseteq Subjects \cup Chats
BY DEF CallsOut, CallType, CallOK, Side!About, Side!Items

\* A new call.
LEMMA SideCall ==
  ASSUME NEW kind \in {"load", "list", "create", "rename", "name", "event"},
         NEW item \in Subjects \cup Chats \cup {None}, NEW value \in Names \cup {EmptyTitle, None},
         kind = "list" => item \in Subjects,
         kind \notin {"load", "list"} => item \in Subjects \cup Chats,
         kind \in {"create", "rename"} => value \in Names,
         kind = "event" => value \in Names \cup {EmptyTitle}
  PROVE  Side!Call(kind, item, value) \in CallsOut
BY DEF Side!Call, CallsOut, CallType, CallOK

LEMMA SideAsked ==
  ASSUME NEW page \in SideType, NEW out \in Seq(CallsOut), NEW call \in CallsOut
  PROVE  Side!Asked(page, out, call) \in SideType
<1>1. \A n \in DOMAIN out : out[n] \in CallsOut
  OBVIOUS
<1> DEFINE more == UNION {Side!About(call) \cap Side!About(out[n]) : n \in DOMAIN out}
<1>2. more \subseteq Subjects \cup Chats
  BY <1>1, SideAbout
<1>3. Side!Asked(page, out, call) = [page EXCEPT !.mixed = @ \cup more]
  BY DEF Side!Asked
<1> HIDE DEF more
<1> QED BY <1>2, <1>3 DEF SideType

LEMMA SideAsks ==
  ASSUME SideTyped, NEW page \in SideType, NEW call \in CallsOut,
         Side!Ask(page, call)
  PROVE  side' \in SideType /\ calls' \in Seq(CallsOut)
BY SideAsked DEF Side!Ask, SideTyped

\* A call that is over.
LEMMA SideLess ==
  ASSUME SideTyped, NEW n \in DOMAIN calls
  PROVE  Side!RemoveAt(calls, n) = Less(calls, n) /\ Less(calls, n) \in Seq(CallsOut)
BY LessIs DEF Side!RemoveAt, Less, SideTyped

\* A call that is answered.
LEMMA SideAnswered ==
  ASSUME SideTyped, NEW n \in DOMAIN calls,
         NEW at \in {"asked", "done", "refused", "failed"}, NEW list \in Side!Lists \cup {None},
         calls[n].kind \in {"load", "list"} /\ at = "done" => list \in Side!Lists,
         Side!Answer(n, at, list)
  PROVE  calls' \in Seq(CallsOut)
<1>1. CASE calls[n].heard
  <2> DEFINE new == [calls[n] EXCEPT !.at = at, !.list = list]
  <2>1. calls[n] \in CallsOut
    BY DEF SideTyped
  <2>2. new \in CallsOut
    BY <2>1 DEF CallsOut, CallType, CallOK
  <2>3. calls' = [calls EXCEPT ![n] = new]
    BY <1>1, <2>1 DEF Side!Answer, SideTyped
  <2> HIDE DEF new
  <2> QED BY <2>2, <2>3 DEF SideTyped
<1>2. CASE ~calls[n].heard
  BY <1>2, SideLess DEF Side!Answer
<1> QED BY <1>1, <1>2

LEMMA SideInitTyped == Side!Init => SideTyped
<1> SUFFICES ASSUME Side!Init PROVE SideTyped
  OBVIOUS
<1>1. Side!Call("load", None, None) \in CallsOut
  BY SideCall
<1>2. side \in SideType
  BY FrontendAssumption DEF Side!Init, Side!Opened, SideType, ShownType, Side!Items
<1>3. names \in Side!Lists
  BY FrontendAssumption DEF Side!Init, Side!Lists, Side!Items
<1> QED BY <1>1, <1>2, <1>3 DEF Side!Init, SideTyped

LEMMA SideServesTyped ==
  ASSUME SideTyped, NEW n \in DOMAIN calls, Side!Serves(n)
  PROVE  SideTyped'
<1>1. /\ names \in Side!Lists /\ side \in SideType /\ calls \in Seq(CallsOut)
      /\ calls[n] \in CallsOut /\ calls[n] \in CallType /\ CallOK(calls[n])
  BY DEF SideTyped, CallsOut
<1> USE DEF SideTyped
<1>2. CASE Side!ServeList(n)
  BY <1>1, <1>2, SideAnswered DEF Side!ServeList
<1>3. CASE Side!ServeCreate(n)
  <2>1. calls' \in Seq(CallsOut)
    BY <1>1, <1>3, SideAnswered DEF Side!ServeCreate, Side!Sent
  <2>2. names' \in Side!Lists
    BY <1>1, <1>3 DEF Side!ServeCreate, Side!Sent, CallOK, Side!Lists, Side!Items
  <2> QED BY <1>1, <1>3, <2>1, <2>2 DEF Side!ServeCreate
<1>4. CASE Side!ServeRename(n)
  <2>1. calls' \in Seq(CallsOut)
    BY <1>1, <1>4, SideAnswered DEF Side!ServeRename, Side!Sent
  <2>2. names' \in Side!Lists
    BY <1>1, <1>4 DEF Side!ServeRename, Side!Sent, CallOK, Side!Lists, Side!Items
  <2> QED BY <1>1, <1>4, <2>1, <2>2 DEF Side!ServeRename
<1>5. CASE Side!Fail(n)
  <2>1. calls' \in Seq(CallsOut)
    BY <1>1, <1>5, SideAnswered DEF Side!Fail
  <2> DEFINE more == IF calls[n].at = "done" THEN Side!About(calls[n]) ELSE {}
  <2>2. more \subseteq Subjects \cup Chats
    BY <1>1, SideAbout
  <2>3. side' = [side EXCEPT !.mixed = @ \cup more] /\ names' = names
    BY <1>5 DEF Side!Fail
  <2> HIDE DEF more
  <2>4. side' \in SideType
    BY <1>1, <2>2, <2>3 DEF SideType
  <2> QED BY <1>1, <2>1, <2>3, <2>4
<1>6. CASE Side!CheckName(n)
  <2> DEFINE asked == [calls[n] EXCEPT !.at = "asked"]
  <2>1. calls' \in {[calls EXCEPT ![n] = asked], Side!RemoveAt(calls, n)}
    BY <1>1, <1>6 DEF Side!CheckName
  <2>2. asked \in CallsOut
    BY <1>1, <1>6 DEF CallsOut, CallType, CallOK, Side!CheckName, Side!Sent
  <2>3. Side!RemoveAt(calls, n) \in Seq(CallsOut)
    BY SideLess
  <2> HIDE DEF asked
  <2>4. calls' \in Seq(CallsOut)
    BY <1>1, <2>1, <2>2, <2>3
  <2> QED BY <1>1, <1>6, <2>4 DEF Side!CheckName
<1>7. CASE Side!FindName(n)
  <2> DEFINE item == calls[n].item
             less == Side!RemoveAt(calls, n)
  <2>1. PICK v, kept :
           /\ v \in Names \cup {EmptyTitle} /\ kept \in {names[item], Cut[v]}
           /\ kept # names[item] => v \in Names
           /\ names' = [names EXCEPT ![item] = kept]
           /\ calls' \in {[calls EXCEPT ![n] = Side!Call("event", item, v)], less}
           /\ \/ side' = side
              \/ side' = [side EXCEPT !.mixed = @ \cup {item}]
    <3>1. PICK v \in Names \cup {EmptyTitle} :
             LET kept == IF v = EmptyTitle \/ Side!Taken(item, Cut[v], names) THEN names[item] ELSE Cut[v]
             IN  /\ names' = [names EXCEPT ![item] = kept]
                 /\ IF calls[n].heard
                    THEN /\ calls' = [calls EXCEPT ![n] = Side!Call("event", item, v)]
                         /\ side' = [side EXCEPT !.mixed = @ \cup IF kept = v THEN {} ELSE {item}]
                    ELSE calls' = less /\ UNCHANGED side
      BY <1>7 DEF Side!FindName
    <3> DEFINE kept == IF v = EmptyTitle \/ Side!Taken(item, Cut[v], names) THEN names[item] ELSE Cut[v]
    <3>2. kept \in {names[item], Cut[v]} /\ (kept # names[item] => v \in Names)
      OBVIOUS
    <3>3. [side EXCEPT !.mixed = @ \cup {}] = side
      BY <1>1 DEF SideType
    <3>4. names' = [names EXCEPT ![item] = kept]
      BY <3>1
    <3>5. calls' \in {[calls EXCEPT ![n] = Side!Call("event", item, v)], less}
      BY <3>1
    <3>6. side' = side \/ side' = [side EXCEPT !.mixed = @ \cup {item}]
      BY <3>1, <3>3
    <3> HIDE DEF kept, item, less
    <3> QED BY <3>2, <3>4, <3>5, <3>6
  <2>2. item \in Subjects \cup Chats
    BY <1>1, <1>7 DEF Side!FindName, CallOK
  <2>3. Side!Call("event", item, v) \in CallsOut
    <3> HIDE DEF item
    <3> QED BY <2>1, <2>2, SideCall
  <2>4. less \in Seq(CallsOut)
    BY SideLess
  <2>5. kept \in Names \cup {None}
    <3>1. names[item] \in Names \cup {None}
      BY <1>1, <2>2 DEF Side!Lists, Side!Items
    <3>2. v \in Names => Cut[v] \in Names
      BY FrontendAssumption
    <3> QED BY <2>1, <3>1, <3>2
  <2> HIDE DEF item, less
  <2>6. calls' \in Seq(CallsOut)
    BY <1>1, <2>1, <2>3, <2>4
  <2>7. names' \in Side!Lists
    BY <1>1, <2>1, <2>2, <2>5 DEF Side!Lists, Side!Items
  <2>8. side' \in SideType
    BY <1>1, <2>1, <2>2 DEF SideType
  <2> QED BY <2>6, <2>7, <2>8
<1>8. CASE Side!LoseName(n)
  <2> DEFINE item == calls[n].item
             unheard == [calls[n] EXCEPT !.heard = FALSE]
  <2>1. /\ calls' \in {Side!RemoveAt(calls, n), [calls EXCEPT ![n] = unheard]}
        /\ side' = side \/ side' = [side EXCEPT !.mixed = @ \cup {item}]
        /\ names' = names /\ calls[n].kind \in {"name", "event"}
    BY <1>1, <1>8 DEF Side!LoseName
  <2>2. unheard \in CallsOut
    BY <1>1 DEF CallsOut, CallType, CallOK
  <2>3. Side!RemoveAt(calls, n) \in Seq(CallsOut)
    BY SideLess
  <2>4. item \in Subjects \cup Chats
    BY <1>1, <2>1 DEF CallOK
  <2> HIDE DEF item, unheard
  <2>5. calls' \in Seq(CallsOut)
    BY <1>1, <2>1, <2>2, <2>3
  <2>6. side' \in SideType
    BY <1>1, <2>1, <2>4 DEF SideType
  <2> QED BY <1>1, <2>1, <2>5, <2>6
<1> QED BY <1>2, <1>3, <1>4, <1>5, <1>6, <1>7, <1>8 DEF Side!Serves

LEMMA SideHearsTyped ==
  ASSUME SideTyped, NEW n \in DOMAIN calls, Side!Hears(n)
  PROVE  SideTyped'
<1>1. /\ names \in Side!Lists /\ side \in SideType /\ calls \in Seq(CallsOut)
      /\ calls[n] \in CallsOut /\ calls[n] \in CallType /\ CallOK(calls[n])
  BY DEF SideTyped, CallsOut
<1>2. Side!Over(n) => calls' \in Seq(CallsOut) /\ names' \in Side!Lists
  BY <1>1, SideLess DEF Side!Over
<1>3. CASE Side!Loaded(n)
  <2>1. side' \in SideType
    BY <1>1, <1>3, ListIsShown DEF Side!Loaded, SideType, CallOK
  <2> QED BY <1>2, <1>3, <2>1 DEF Side!Loaded, SideTyped
<1>4. CASE Side!Listed(n)
  <2> DEFINE new == [i \in Side!Items |-> IF i \in Side!About(calls[n]) THEN calls[n].list[i] ELSE side.shown[i]]
  <2>1. calls[n].at = "done" => calls[n].list \in Side!Lists
    BY <1>1, <1>4 DEF Side!Listed, CallOK
  <2>2. side.shown \in ShownType
    BY <1>1 DEF SideType
  <2>3. calls[n].at = "done" => new \in ShownType
    BY <2>1, <2>2 DEF Side!Lists, Side!Items, ShownType
  <2>4. side' = IF calls[n].at = "failed" THEN side ELSE [side EXCEPT !.shown = new]
    BY <1>1, <1>4 DEF Side!Listed, SideType
  <2> HIDE DEF new
  <2>5. side' \in SideType
    BY <1>1, <1>4, <2>3, <2>4 DEF Side!Listed, SideType
  <2> QED BY <1>2, <1>4, <2>5 DEF Side!Listed, SideTyped
<1>5. CASE Side!Created(n)
  <2>1. calls[n].item \in Subjects \cup Chats /\ calls[n].value \in Names
    BY <1>1, <1>5 DEF Side!Created, CallOK
  <2>2. Side!RemoveAt(calls, n) \in Seq(CallsOut)
    BY SideLess
  <2>3. CASE calls[n].at = "failed"
    BY <1>1, <1>5, <2>2, <2>3 DEF Side!Created, SideTyped
  <2>4. CASE calls[n].at # "failed" /\ calls[n].item \in Subjects
    <3> DEFINE new == [side.shown EXCEPT ![calls[n].item] = calls[n].value]
    <3>1. new \in ShownType
      BY <1>1, <2>1 DEF SideType, ShownType
    <3>2. side' = [side EXCEPT !.dialog = FALSE, !.shown = new]
      BY <1>1, <1>5, <2>4 DEF Side!Created, SideType
    <3> HIDE DEF new
    <3>3. side' \in SideType
      BY <1>1, <3>1, <3>2 DEF SideType
    <3> QED BY <1>1, <1>5, <2>2, <2>4, <3>3 DEF Side!Created, SideTyped
  <2>5. CASE calls[n].at # "failed" /\ calls[n].item \notin Subjects
    <3> DEFINE list == Side!Call("list", Home[calls[n].item], None)
               closed == [side EXCEPT !.dialog = FALSE]
    <3>1. Home[calls[n].item] \in Subjects
      BY <2>1, <2>5, FrontendAssumption
    <3>2. list \in CallsOut
      BY <3>1, SideCall
    <3>3. closed \in SideType
      BY <1>1 DEF SideType
    <3>4. /\ side' = Side!Asked(closed, Side!RemoveAt(calls, n), list) /\ names' = names
          /\ calls' = Append(Side!RemoveAt(calls, n), list)
      BY <1>5, <2>5 DEF Side!Created
    <3> HIDE DEF list, closed
    <3>5. side' \in SideType /\ calls' \in Seq(CallsOut)
      BY <2>2, <3>2, <3>3, <3>4, SideAsked
    <3> QED BY <1>1, <3>4, <3>5 DEF SideTyped
  <2> QED BY <2>3, <2>4, <2>5
<1>6. CASE Side!Renamed(n)
  <2>1. calls[n].item \in Subjects \cup Chats /\ calls[n].value \in Names
    BY <1>1, <1>6 DEF Side!Renamed, CallOK
  <2>2. side' \in SideType
    BY <1>1, <1>6, <2>1 DEF Side!Renamed, SideType, ShownType
  <2> QED BY <1>2, <1>6, <2>2 DEF Side!Renamed, SideTyped
<1>7. CASE Side!Titled(n)
  <2>1. calls[n].item \in Subjects \cup Chats /\ calls[n].value \in Names \cup {EmptyTitle}
    BY <1>1, <1>7 DEF Side!Titled, CallOK
  <2>2. side' \in SideType
    BY <1>1, <1>7, <2>1 DEF Side!Titled, SideType, ShownType
  <2> QED BY <1>2, <1>7, <2>2 DEF Side!Titled, SideTyped
<1> QED BY <1>3, <1>4, <1>5, <1>6, <1>7 DEF Side!Hears

\* A move of the user, which changes the page by more than its count.
LEMMA SideMovesTyped ==
  ASSUME SideTyped, NEW page \in SideType, page.moves = side.moves, side.moves < MaxMoves,
         NEW next, next = [page EXCEPT !.moves = @ + 1]
  PROVE  next \in SideType
<1>1. side.moves \in Nat /\ MaxMoves \in Nat /\ side.moves + 1 \in 0..MaxMoves
  BY FrontendAssumption DEF SideTyped, SideType
<1> QED BY <1>1 DEF SideType

LEMMA SideMoveTyped ==
  ASSUME SideTyped, NEW page \in SideType, page.moves = side.moves, Side!Move(page)
  PROVE  SideTyped'
<1>1. side' \in SideType
  BY SideMovesTyped DEF Side!Move
<1> QED BY <1>1 DEF Side!Move, SideTyped

LEMMA SideMoveAskingTyped ==
  ASSUME SideTyped, NEW call \in CallsOut, Side!MoveAsking(side, call)
  PROVE  SideTyped'
<1> DEFINE next == [side EXCEPT !.moves = @ + 1]
<1>1. next \in SideType
  BY SideMovesTyped DEF Side!MoveAsking, SideTyped
<1>2. Side!Ask(next, call) /\ names' = names
  BY DEF Side!MoveAsking
<1> HIDE DEF next
<1> QED BY <1>1, <1>2, SideAsks DEF SideTyped

LEMMA SideRevisits ==
  ASSUME SideTyped, Side!Revisit
  PROVE  \E out \in Seq(CallsOut) :
           LET load == Side!Call("load", None, None)
           IN  /\ side' = [Side!Asked(Side!Opened, out, load) EXCEPT !.moves = side.moves + 1]
               /\ calls' = Append([n \in DOMAIN out |-> [out[n] EXCEPT !.heard = FALSE]], load)
               /\ names' = names /\ side.moves < MaxMoves
<1>1. PICK kept : 
           LET load == Side!Call("load", None, None)
               out == Side!Keep(calls, kept)
           IN  /\ side' = [Side!Asked(Side!Opened, out, load) EXCEPT !.moves = side.moves + 1]
               /\ calls' = Append([n \in DOMAIN out |-> [out[n] EXCEPT !.heard = FALSE]], load)
               /\ names' = names /\ side.moves < MaxMoves
  BY DEF Side!Revisit
<1>2. Side!Keep(calls, kept) \in Seq(CallsOut)
  BY SideKeeps DEF SideTyped
<1> QED BY <1>1, <1>2

LEMMA SideRevisitTyped ==
  ASSUME SideTyped, Side!Revisit
  PROVE  SideTyped'
<1> DEFINE load == Side!Call("load", None, None)
<1>1. PICK out \in Seq(CallsOut) :
           /\ side' = [Side!Asked(Side!Opened, out, load) EXCEPT !.moves = side.moves + 1]
           /\ calls' = Append([n \in DOMAIN out |-> [out[n] EXCEPT !.heard = FALSE]], load)
           /\ names' = names /\ side.moves < MaxMoves
  BY SideRevisits
<1>2. load \in CallsOut
  BY SideCall
<1>3. Side!Opened \in SideType
  BY FrontendAssumption DEF Side!Opened, SideType, ShownType, Side!Items
<1> DEFINE page == Side!Asked(Side!Opened, out, load)
<1>4. page \in SideType
  BY <1>2, <1>3, SideAsked
<1> HIDE DEF load, page
<1>5. side.moves \in Nat /\ MaxMoves \in Nat /\ side.moves + 1 \in 0..MaxMoves
  BY <1>1, FrontendAssumption, SMTT(40) DEF SideTyped, SideType
<1>6. side' \in SideType
  BY <1>1, <1>4, <1>5 DEF SideType, page
<1>7. \A n \in DOMAIN out : [out[n] EXCEPT !.heard = FALSE] \in CallsOut
  <2> TAKE n \in DOMAIN out
  <2>1. out[n] \in CallsOut
    OBVIOUS
  <2> QED BY <2>1 DEF CallsOut, CallType, CallOK
<1>8. [n \in DOMAIN out |-> [out[n] EXCEPT !.heard = FALSE]] \in Seq(CallsOut)
  BY <1>7, IsASeq
<1>9. calls' \in Seq(CallsOut)
  BY <1>1, <1>2, <1>8
<1> QED BY <1>1, <1>6, <1>9 DEF SideTyped

LEMMA SideUsesTyped ==
  ASSUME SideTyped, Side!Uses
  PROVE  SideTyped'
<1>1. names \in Side!Lists /\ side \in SideType /\ calls \in Seq(CallsOut)
  BY DEF SideTyped
<1>2. ASSUME NEW i \in Subjects \cup Chats, Side!StartEdit(i) PROVE SideTyped'
  <2>1. [side EXCEPT !.editing = i] \in SideType
    BY <1>1 DEF SideType
  <2>2. [side EXCEPT !.editing = i].moves = side.moves
    BY <1>1 DEF SideType
  <2> QED BY <1>2, <2>1, <2>2, SideMoveTyped DEF Side!StartEdit
<1>3. ASSUME NEW i \in Subjects \cup Chats, NEW v \in Names, Side!Create(i, v) PROVE SideTyped'
  <2>1. Side!Call("create", i, v) \in CallsOut
    BY SideCall
  <2> QED BY <1>3, <2>1, SideMoveAskingTyped DEF Side!Create
<1>4. CASE Side!CancelEdit \/ Side!OpenDialog \/ Side!CloseDialog
  <2> DEFINE nexts == {[side EXCEPT !.editing = None], [side EXCEPT !.dialog = TRUE],
                       [side EXCEPT !.dialog = FALSE]}
  <2>1. PICK next \in nexts : Side!Move(next)
    BY <1>4 DEF Side!CancelEdit, Side!OpenDialog, Side!CloseDialog
  <2>2. next \in SideType /\ next.moves = side.moves
    BY <1>1 DEF SideType
  <2> QED BY <2>1, <2>2, SideMoveTyped
<1>5. ASSUME NEW v \in Names, Side!SaveEdit(v) PROVE SideTyped'
  <2>1. side.editing \in Subjects \cup Chats
    BY <1>1, <1>5 DEF Side!SaveEdit, SideType
  <2>2. Side!Call("rename", side.editing, v) \in CallsOut
    BY <2>1, SideCall
  <2> QED BY <1>5, <2>2, SideMoveAskingTyped DEF Side!SaveEdit
<1>6. ASSUME NEW c \in Chats, Side!Question(c) PROVE SideTyped'
  <2>1. Side!Call("name", c, None) \in CallsOut
    BY SideCall
  <2> QED BY <1>6, <2>1, SideMoveAskingTyped DEF Side!Question
<1> QED BY <1>2, <1>3, <1>4, <1>5, <1>6, SideRevisitTyped DEF Side!Uses, Side!Items

LEMMA SideStepTyped ==
  ASSUME SideTyped, Side!Next \/ UNCHANGED sideVars
  PROVE  SideTyped'
<1>1. CASE Side!Next
  BY <1>1, SideUsesTyped, SideServesTyped, SideHearsTyped DEF Side!Next
<1>2. CASE UNCHANGED sideVars
  BY <1>2 DEF sideVars, SideTyped
<1> QED BY <1>1, <1>2

-----------------------------------------------------------------------------
(* What is on its way about an item that is not mixed.                     *)

Ok(shown, name) == shown \in {None, name}

Tells(call, i) == i \in Side!About(call)

\* What the one call about an item says: a done call, and a title that was
\* found, has the name the server keeps; any other says nothing new.
Word(call, i, shown, name) ==
  /\ call.kind \in {"load", "list"} /\ call.at = "done" => call.list[i] = name
  /\ call.kind \in {"create", "rename"} /\ call.at = "done" => call.value = name
  /\ call.kind = "event" => call.value = name
  /\ call.kind # "event" /\ ~(call.kind = "rename" /\ call.at = "done") => Ok(shown, name)

OthersSilent(out, n, i) == \A m \in DOMAIN out \ {n} : ~Tells(out[m], i)

Fine(i, out, shown, name) ==
  /\ (\A n \in DOMAIN out : ~Tells(out[n], i)) => Ok(shown, name)
  /\ \A n \in DOMAIN out : Tells(out[n], i) =>
       out[n].heard /\ OthersSilent(out, n, i) /\ Word(out[n], i, shown, name)

NamesInv ==
  SideTyped /\ \A i \in Side!Items \ side.mixed : Fine(i, calls, side.shown[i], names[i])

\* A call about something else is over.
LEMMA FineLess ==
  ASSUME NEW out \in Seq(CallsOut), NEW n \in DOMAIN out, NEW i, NEW s, NEW v,
         Fine(i, out, s, v), ~Tells(out[n], i)
  PROVE  Fine(i, Less(out, n), s, v)
<1> DEFINE less == Less(out, n)
<1>1. \A k \in DOMAIN less : Was(n, k) \in DOMAIN out \ {n} /\ less[k] = out[Was(n, k)]
  BY LessIs
<1>2. \A k, l \in DOMAIN less : k # l => Was(n, k) # Was(n, l)
  BY LessIs
<1>3. \A m \in DOMAIN out \ {n} : \E k \in DOMAIN less : Was(n, k) = m
  BY LessIs
<1> HIDE DEF less
<1>4. (\A k \in DOMAIN less : ~Tells(less[k], i)) => Ok(s, v)
  BY <1>1, <1>3 DEF Fine
<1>5. ASSUME NEW k \in DOMAIN less, Tells(less[k], i)
      PROVE  less[k].heard /\ OthersSilent(less, k, i) /\ Word(less[k], i, s, v)
  <2>1. /\ Was(n, k) \in DOMAIN out \ {n} /\ less[k] = out[Was(n, k)]
        /\ OthersSilent(out, Was(n, k), i) /\ out[Was(n, k)].heard /\ Word(out[Was(n, k)], i, s, v)
    BY <1>1, <1>5 DEF Fine
  <2>2. OthersSilent(less, k, i)
    BY <1>1, <1>2, <2>1 DEF OthersSilent
  <2> QED BY <2>1, <2>2
<1> QED BY <1>4, <1>5 DEF Fine, less

\* The call about the item is over.
LEMMA FineOver ==
  ASSUME NEW out \in Seq(CallsOut), NEW n \in DOMAIN out, NEW i, NEW t, NEW w,
         OthersSilent(out, n, i), Ok(t, w)
  PROVE  Fine(i, Less(out, n), t, w)
<1>1. \A k \in DOMAIN Less(out, n) :
        Was(n, k) \in DOMAIN out \ {n} /\ Less(out, n)[k] = out[Was(n, k)]
  BY LessIs
<1>2. \A k \in DOMAIN Less(out, n) : ~Tells(Less(out, n)[k], i)
  BY <1>1 DEF OthersSilent
<1> QED BY <1>2 DEF Fine

\* A call is answered, or changed otherwise where it stands.
LEMMA FineChanged ==
  ASSUME NEW out \in Seq(CallsOut), NEW n \in DOMAIN out, NEW call,
         NEW i, NEW s, NEW v, NEW t, NEW w, Fine(i, out, s, v),
         Tells(call, i) <=> Tells(out[n], i),
         \/ ~Tells(out[n], i) /\ t = s /\ w = v
         \/ Tells(out[n], i) /\ call.heard /\ Word(call, i, t, w)
  PROVE  Fine(i, [out EXCEPT ![n] = call], t, w)
<1> DEFINE new == [out EXCEPT ![n] = call]
<1>1. DOMAIN new = DOMAIN out /\ new[n] = call /\ \A m \in DOMAIN out \ {n} : new[m] = out[m]
  OBVIOUS
<1> HIDE DEF new
<1>2. \A m \in DOMAIN out : Tells(new[m], i) <=> Tells(out[m], i)
  BY <1>1
<1>3. \A m \in DOMAIN out : OthersSilent(new, m, i) <=> OthersSilent(out, m, i)
  BY <1>1, <1>2 DEF OthersSilent
<1>4. CASE ~Tells(out[n], i) /\ t = s /\ w = v
  <2>1. \A m \in DOMAIN out : Tells(new[m], i) => new[m] = out[m]
    BY <1>1, <1>2, <1>4
  <2>2. (\A m \in DOMAIN new : ~Tells(new[m], i)) => Ok(t, w)
    BY <1>1, <1>2, <1>4 DEF Fine
  <2>3. \A m \in DOMAIN new : Tells(new[m], i) =>
          new[m].heard /\ OthersSilent(new, m, i) /\ Word(new[m], i, t, w)
    BY <1>1, <1>2, <1>3, <1>4, <2>1 DEF Fine
  <2> QED BY <2>2, <2>3 DEF Fine, new
<1>5. CASE Tells(out[n], i) /\ call.heard /\ Word(call, i, t, w)
  <2>1. OthersSilent(out, n, i)
    BY <1>5 DEF Fine
  <2>2. \A m \in DOMAIN new : Tells(new[m], i) => m = n
    BY <1>1, <1>2, <2>1 DEF OthersSilent
  <2>3. OthersSilent(new, n, i)
    BY <1>3, <2>1
  <2>4. Tells(new[n], i)
    BY <1>2, <1>5
  <2> QED BY <1>1, <1>5, <2>2, <2>3, <2>4 DEF Fine, new
<1> QED BY <1>4, <1>5

\* A new call, alone about what it is about.
LEMMA FineAppend ==
  ASSUME NEW out \in Seq(CallsOut), NEW call, NEW i, NEW s, NEW v, Fine(i, out, s, v),
         Tells(call, i) => /\ \A m \in DOMAIN out : ~Tells(out[m], i)
                           /\ call.heard /\ Word(call, i, s, v)
  PROVE  Fine(i, Append(out, call), s, v)
<1> DEFINE new == Append(out, call)
           n == Len(out) + 1
<1>1. /\ DOMAIN new = DOMAIN out \cup {n} /\ new[n] = call /\ n \notin DOMAIN out
      /\ \A m \in DOMAIN out : new[m] = out[m]
  <2>1. Len(out) \in Nat /\ DOMAIN out = 1..Len(out)
    OBVIOUS
  <2>2. DOMAIN new = 1..n /\ new[n] = call /\ \A m \in 1..Len(out) : new[m] = out[m]
    OBVIOUS
  <2>3. 1..n = 1..Len(out) \cup {n} /\ n \notin 1..Len(out)
    BY <2>1
  <2> HIDE DEF new, n
  <2> QED BY <2>1, <2>2, <2>3
<1> HIDE DEF new, n
<1>2. CASE ~Tells(call, i)
  <2>1. \A m \in DOMAIN new : Tells(new[m], i) => m \in DOMAIN out /\ new[m] = out[m]
    BY <1>1, <1>2
  <2>2. \A m \in DOMAIN out : OthersSilent(out, m, i) => OthersSilent(new, m, i)
    BY <1>1, <2>1 DEF OthersSilent
  <2>3. (\A m \in DOMAIN new : ~Tells(new[m], i)) => Ok(s, v)
    BY <1>1 DEF Fine
  <2>4. \A m \in DOMAIN new : Tells(new[m], i) =>
          new[m].heard /\ OthersSilent(new, m, i) /\ Word(new[m], i, s, v)
    BY <2>1, <2>2 DEF Fine
  <2> QED BY <2>3, <2>4 DEF Fine, new
<1>3. CASE Tells(call, i)
  <2>1. \A m \in DOMAIN new : Tells(new[m], i) <=> m = n
    BY <1>1, <1>3
  <2>2. OthersSilent(new, n, i)
    BY <2>1 DEF OthersSilent
  <2> QED BY <1>1, <1>3, <2>1, <2>2 DEF Fine, new
<1> QED BY <1>2, <1>3

\* A call that is asked while an item stays unmixed is the only one about it.
LEMMA FineAsked ==
  ASSUME NEW page \in SideType, NEW out \in Seq(CallsOut), NEW i, NEW s, NEW v,
         NEW kind \in {"load", "list", "create", "rename", "name"}, NEW item, NEW value,
         i \notin Side!Asked(page, out, Side!Call(kind, item, value)).mixed,
         Fine(i, out, s, v)
  PROVE  Fine(i, Append(out, Side!Call(kind, item, value)), s, v) /\ i \notin page.mixed
<1> DEFINE call == Side!Call(kind, item, value)
<1>1. call.heard /\ call.kind = kind /\ call.at = "sent"
  BY DEF Side!Call
<1>2. i \notin page.mixed /\ \A n \in DOMAIN out : i \notin Side!About(call) \cap Side!About(out[n])
  BY DEF Side!Asked, SideType
<1> HIDE DEF call
<1>3. Tells(call, i) => \A m \in DOMAIN out : ~Tells(out[m], i)
  BY <1>2 DEF Tells
<1>4. Tells(call, i) => Word(call, i, s, v)
  BY <1>1, <1>3 DEF Fine, Word
<1>5. Fine(i, Append(out, call), s, v)
  BY <1>1, <1>3, <1>4, FineAppend
<1> QED BY <1>2, <1>5 DEF call

\* Whom a call tells something about.
LEMMA TellsOne ==
  ASSUME NEW call, NEW i, call.kind \notin {"load", "list"}
  PROVE  Tells(call, i) <=> i = call.item
BY DEF Tells, Side!About

\* The answer of a call.
LEMMA FineAnswer ==
  ASSUME SideTyped, NEW n \in DOMAIN calls, NEW i, NEW s, NEW v, NEW w, NEW at, NEW list,
         Fine(i, calls, s, v), Side!Answer(n, at, list),
         \/ ~Tells(calls[n], i) /\ w = v
         \/ Tells(calls[n], i) /\ Word([calls[n] EXCEPT !.at = at, !.list = list], i, s, w)
  PROVE  Fine(i, calls', s, w)
<1> DEFINE new == [calls[n] EXCEPT !.at = at, !.list = list]
<1>1. calls[n] \in CallType /\ calls \in Seq(CallsOut)
  BY DEF SideTyped, CallsOut
<1>2. /\ new.kind = calls[n].kind /\ new.item = calls[n].item /\ new.heard = calls[n].heard
      /\ new.at = at
  BY <1>1 DEF CallType
<1>3. Tells(new, i) <=> Tells(calls[n], i)
  BY <1>2 DEF Side!About, Tells
<1>4. CASE calls[n].heard
  <2>1. calls' = [calls EXCEPT ![n] = new]
    BY <1>1, <1>4 DEF Side!Answer
  <2> HIDE DEF new
  <2>2. Fine(i, [calls EXCEPT ![n] = new], s, w)
    BY <1>1, <1>2, <1>3, <1>4, FineChanged DEF new
  <2> QED BY <2>1, <2>2
<1>5. CASE ~calls[n].heard
  <2>1. ~Tells(calls[n], i) /\ w = v
    BY <1>5 DEF Fine
  <2>2. calls' = Less(calls, n)
    BY <1>5, SideLess DEF Side!Answer
  <2> QED BY <1>1, <2>1, <2>2, FineLess
<1> QED BY <1>4, <1>5

LEMMA SideInitNames == Side!Init => NamesInv
<1> SUFFICES ASSUME Side!Init PROVE NamesInv
  OBVIOUS
<1> DEFINE load == Side!Call("load", None, None)
<1>1. load.heard /\ load.kind = "load" /\ load.at = "sent"
  BY DEF Side!Call
<1>2. calls = <<load>> /\ side = Side!Opened
  BY DEF Side!Init
<1> HIDE DEF load
<1>3. ASSUME NEW i \in Side!Items PROVE Fine(i, calls, side.shown[i], names[i])
  <2>1. side.shown[i] = None
    BY <1>2 DEF Side!Opened
  <2>2. Ok(None, names[i])
    BY DEF Ok
  <2>3. Word(load, i, None, names[i])
    BY <1>1, <2>2 DEF Word
  <2>4. DOMAIN calls = {1} /\ calls[1] = load
    BY <1>2
  <2>5. OthersSilent(calls, 1, i)
    BY <2>4 DEF OthersSilent
  <2> QED BY <1>1, <2>1, <2>2, <2>3, <2>4, <2>5 DEF Fine
<1> QED BY <1>3, SideInitTyped DEF NamesInv

LEMMA SideServesNames ==
  ASSUME NamesInv, NEW n \in DOMAIN calls, Side!Serves(n),
         NEW i \in Side!Items \ side'.mixed
  PROVE  Fine(i, calls', side'.shown[i], names'[i])
<1> DEFINE s == side.shown[i]
           v == names[i]
<1>1. /\ SideTyped /\ names \in Side!Lists /\ side \in SideType /\ calls \in Seq(CallsOut)
      /\ calls[n] \in CallType /\ CallOK(calls[n])
  BY DEF NamesInv, SideTyped, CallsOut
<1>2. i \notin side.mixed => Fine(i, calls, s, v)
  BY DEF NamesInv
<1>3. ASSUME i \notin side.mixed, Tells(calls[n], i)
      PROVE  calls[n].heard /\ OthersSilent(calls, n, i) /\ Word(calls[n], i, s, v)
  BY <1>2, <1>3 DEF Fine
<1>4. calls[n].kind \notin {"load", "list"} => (Tells(calls[n], i) <=> i = calls[n].item)
  BY TellsOne
<1>5. \A at, list : LET c == [calls[n] EXCEPT !.at = at, !.list = list]
                    IN  c.kind = calls[n].kind /\ c.value = calls[n].value /\ c.at = at /\ c.list = list
  BY <1>1 DEF CallType
<1>6. CASE Side!ServeList(n)
  <2>1. Side!Answer(n, "done", names) /\ side' = side /\ names' = names
    BY <1>6 DEF Side!ServeList
  <2>2. calls[n].kind \in {"load", "list"}
    BY <1>6 DEF Side!ServeList, Side!Sent
  <2> DEFINE c == [calls[n] EXCEPT !.at = "done", !.list = names]
  <2>3. Tells(calls[n], i) => Word(c, i, s, v)
    BY <1>3, <1>5, <2>1, <2>2 DEF Word
  <2> HIDE DEF s, v
  <2>4. Fine(i, calls', s, v)
    BY <1>1, <1>2, <2>1, <2>2, <2>3, FineAnswer
  <2> QED BY <2>1, <2>4 DEF s, v
<1>7. CASE Side!ServeCreate(n)
  <2>1. /\ Side!Answer(n, "done", None) /\ side' = side
        /\ names' = [names EXCEPT ![calls[n].item] = calls[n].value] /\ names[calls[n].item] = None
    BY <1>7 DEF Side!ServeCreate, Side!Exists
  <2>2. calls[n].kind = "create"
    BY <1>7 DEF Side!ServeCreate, Side!Sent
  <2> DEFINE c == [calls[n] EXCEPT !.at = "done", !.list = None]
  <2>3. ~Tells(calls[n], i) => names'[i] = v
    BY <1>1, <1>4, <2>1, <2>2 DEF Side!Lists
  <2>4. Tells(calls[n], i) => Word(c, i, s, names'[i])
    <3> HAVE Tells(calls[n], i)
    <3>1. i = calls[n].item /\ names'[i] = calls[n].value
      BY <1>1, <1>4, <2>1, <2>2 DEF Side!Lists
    <3>2. Ok(s, None)
      BY <1>3, <2>1, <2>2, <3>1 DEF Word
    <3> QED BY <1>5, <2>2, <3>1, <3>2 DEF Word, Ok
  <2> DEFINE w == names'[i]
  <2> HIDE DEF s, v, w
  <2>5. Fine(i, calls', s, w)
    BY <1>1, <1>2, <2>1, <2>2, <2>3, <2>4, FineAnswer DEF w
  <2> QED BY <2>1, <2>5 DEF s, v, w
<1>8. CASE Side!ServeRename(n)
  <2>1. side' = side /\ calls[n].kind = "rename" /\ calls[n].at = "sent"
    BY <1>8 DEF Side!ServeRename, Side!Sent
  <2> DEFINE w == names'[i]
  <2>2. CASE Side!Taken(calls[n].item, calls[n].value, names)
    <3>1. Side!Answer(n, "refused", None) /\ names' = names
      BY <1>8, <2>2 DEF Side!ServeRename
    <3> DEFINE c == [calls[n] EXCEPT !.at = "refused", !.list = None]
    <3>2. Tells(calls[n], i) => Word(c, i, s, v)
      BY <1>3, <1>5, <2>1 DEF Word
    <3> HIDE DEF s, v
    <3>3. Fine(i, calls', s, v)
      BY <1>1, <1>2, <2>1, <3>1, <3>2, FineAnswer
    <3> QED BY <2>1, <3>1, <3>3 DEF s, v
  <2>3. CASE ~Side!Taken(calls[n].item, calls[n].value, names)
    <3>1. /\ Side!Answer(n, "done", None)
          /\ names' = [names EXCEPT ![calls[n].item] = calls[n].value]
      BY <1>8, <2>3 DEF Side!ServeRename
    <3> DEFINE c == [calls[n] EXCEPT !.at = "done", !.list = None]
    <3>2. ~Tells(calls[n], i) => names'[i] = v
      BY <1>1, <1>4, <2>1, <3>1 DEF Side!Lists
    <3>3. Tells(calls[n], i) => Word(c, i, s, names'[i])
      BY <1>1, <1>4, <1>5, <2>1, <3>1 DEF Word, Side!Lists
    <3> HIDE DEF s, v, w
    <3>4. Fine(i, calls', s, w)
      BY <1>1, <1>2, <2>1, <3>1, <3>2, <3>3, FineAnswer DEF w
    <3> QED BY <2>1, <3>4 DEF s, v, w
  <2> QED BY <2>2, <2>3
<1>9. CASE Side!Fail(n)
  <2>1. /\ Side!Answer(n, "failed", None) /\ names' = names
        /\ calls[n].kind \in {"load", "list", "create", "rename"} /\ calls[n].at \in {"sent", "done"}
        /\ side' = [side EXCEPT !.mixed = @ \cup
                      IF calls[n].at = "done" THEN Side!About(calls[n]) ELSE {}]
    BY <1>9 DEF Side!Fail
  <2>2. i \notin side.mixed /\ side'.shown = side.shown
    BY <1>1, <2>1 DEF SideType
  <2>3. Tells(calls[n], i) => calls[n].at = "sent"
    BY <1>1, <2>1 DEF SideType, Tells
  <2> DEFINE c == [calls[n] EXCEPT !.at = "failed", !.list = None]
  <2>4. Tells(calls[n], i) => Word(c, i, s, v)
    BY <1>3, <1>5, <2>1, <2>2, <2>3 DEF Word
  <2> HIDE DEF s, v
  <2>5. Fine(i, calls', s, v)
    BY <1>1, <1>2, <2>1, <2>2, <2>4, FineAnswer
  <2> QED BY <2>1, <2>2, <2>5 DEF s, v
<1>10. CASE Side!CheckName(n)
  <2>1. side' = side /\ names' = names /\ calls[n].kind = "name"
    BY <1>10 DEF Side!CheckName, Side!Sent
  <2>2. CASE names[calls[n].item] = NewChat
    <3> DEFINE c == [calls[n] EXCEPT !.at = "asked"]
    <3>1. calls' = [calls EXCEPT ![n] = c]
      BY <1>1, <1>10, <2>2 DEF Side!CheckName
    <3>2. /\ c.kind = "name" /\ c.item = calls[n].item /\ c.heard = calls[n].heard
          /\ Tells(c, i) <=> Tells(calls[n], i)
      BY <1>1, <2>1 DEF Tells, Side!About, CallType
    <3>3. Tells(calls[n], i) => c.heard /\ Word(c, i, s, v)
      BY <1>3, <2>1, <3>2 DEF Word
    <3> HIDE DEF s, v, c
    <3>4. Fine(i, [calls EXCEPT ![n] = c], s, v)
      BY <1>1, <1>2, <2>1, <3>2, <3>3, FineChanged
    <3>5. Fine(i, calls', s, v)
      BY <3>1, <3>4
    <3> QED BY <2>1, <3>5 DEF s, v
  <2>3. CASE names[calls[n].item] # NewChat
    <3>1. calls' = Less(calls, n)
      BY <1>1, <1>10, <2>3, SideLess DEF Side!CheckName
    <3>2. Tells(calls[n], i) => Ok(s, v) /\ OthersSilent(calls, n, i)
      BY <1>3, <2>1 DEF Word
    <3> HIDE DEF s, v
    <3>3. Fine(i, Less(calls, n), s, v)
      BY <1>1, <1>2, <2>1, <3>2, FineLess, FineOver
    <3> QED BY <2>1, <3>1, <3>3 DEF s, v
  <2> QED BY <2>2, <2>3
<1>11. CASE Side!FindName(n)
  <2> DEFINE item == calls[n].item
             w == names'[i]
  <2>1. PICK x \in Names \cup {EmptyTitle} :
           LET kept == IF x = EmptyTitle \/ Side!Taken(item, Cut[x], names) THEN names[item] ELSE Cut[x]
           IN  /\ names' = [names EXCEPT ![item] = kept]
               /\ IF calls[n].heard
                  THEN /\ calls' = [calls EXCEPT ![n] = Side!Call("event", item, x)]
                       /\ side' = [side EXCEPT !.mixed = @ \cup IF kept = x THEN {} ELSE {item}]
                  ELSE calls' = Side!RemoveAt(calls, n) /\ UNCHANGED side
    BY <1>11 DEF Side!FindName
  <2> DEFINE kept == IF x = EmptyTitle \/ Side!Taken(item, Cut[x], names) THEN names[item] ELSE Cut[x]
             e == Side!Call("event", item, x)
  <2>2. /\ names' = [names EXCEPT ![item] = kept]
        /\ calls[n].heard => /\ calls' = [calls EXCEPT ![n] = e]
                             /\ side' = [side EXCEPT !.mixed = @ \cup IF kept = x THEN {} ELSE {item}]
        /\ ~calls[n].heard => calls' = Less(calls, n) /\ side' = side
    BY <1>1, <2>1, SideLess
  <2> HIDE DEF kept
  <2>3. i \notin side.mixed /\ side'.shown = side.shown
    BY <1>1, <2>2 DEF SideType
  <2>4. Tells(calls[n], i) <=> i = item
    BY <1>4, <1>11 DEF Side!FindName
  <2>5. ~Tells(calls[n], i) => w = v
    BY <1>1, <2>2, <2>4 DEF Side!Lists
  <2>6. CASE calls[n].heard
    <3>1. e.heard /\ e.kind = "event" /\ e.value = x /\ (Tells(e, i) <=> i = item)
      BY DEF Side!Call, Tells, Side!About
    <3>2. Tells(calls[n], i) => Word(e, i, s, w)
      <4> HAVE Tells(calls[n], i)
      <4>1. kept = x
        BY <1>1, <2>2, <2>4, <2>6 DEF SideType
      <4>2. w = kept
        BY <1>1, <2>2, <2>4 DEF Side!Lists
      <4> QED BY <3>1, <4>1, <4>2 DEF Word
    <3> HIDE DEF s, v, w, e, item
    <3>3. Fine(i, [calls EXCEPT ![n] = e], s, w)
      BY <1>1, <1>2, <2>3, <2>4, <2>5, <3>1, <3>2, FineChanged
    <3> QED BY <2>2, <2>3, <2>6, <3>3 DEF s, w
  <2>7. CASE ~calls[n].heard
    <3>1. ~Tells(calls[n], i)
      BY <1>3, <2>3, <2>7
    <3> HIDE DEF s, v, w
    <3>2. Fine(i, Less(calls, n), s, v)
      BY <1>1, <1>2, <2>3, <3>1, FineLess
    <3> QED BY <2>2, <2>3, <2>5, <2>7, <3>1, <3>2 DEF s, w
  <2> QED BY <2>6, <2>7
<1>12. CASE Side!LoseName(n)
  <2> DEFINE unheard == [calls[n] EXCEPT !.heard = FALSE]
  <2>1. /\ calls[n].kind \in {"name", "event"} /\ names' = names
        /\ \/ calls' = Less(calls, n) /\ calls[n].kind = "name" /\ side' = side
           \/ /\ calls' \in {Less(calls, n), [calls EXCEPT ![n] = unheard]}
              /\ side' = [side EXCEPT !.mixed = @ \cup {calls[n].item}]
    BY <1>1, <1>12, SideLess DEF Side!LoseName
  <2>2. i \notin side.mixed /\ side'.shown = side.shown
    BY <1>1, <2>1 DEF SideType
  <2>3. CASE calls' = Less(calls, n) /\ calls[n].kind = "name"
    <3>1. Tells(calls[n], i) => Ok(s, v) /\ OthersSilent(calls, n, i)
      BY <1>3, <2>2, <2>3 DEF Word
    <3> HIDE DEF s, v
    <3>2. Fine(i, Less(calls, n), s, v)
      BY <1>1, <1>2, <2>2, <3>1, FineLess, FineOver
    <3> QED BY <2>1, <2>2, <2>3, <3>2 DEF s, v
  <2>4. CASE /\ calls' \in {Less(calls, n), [calls EXCEPT ![n] = unheard]}
             /\ side' = [side EXCEPT !.mixed = @ \cup {calls[n].item}]
    <3>1. ~Tells(calls[n], i)
      BY <1>1, <1>4, <2>1, <2>4 DEF SideType
    <3>2. Tells(unheard, i) <=> Tells(calls[n], i)
      BY <1>1 DEF Tells, Side!About, CallType
    <3> HIDE DEF s, v, unheard
    <3>3. Fine(i, Less(calls, n), s, v)
      BY <1>1, <1>2, <2>2, <3>1, FineLess
    <3>4. Fine(i, [calls EXCEPT ![n] = unheard], s, v)
      BY <1>1, <1>2, <2>2, <3>1, <3>2, FineChanged
    <3> QED BY <2>1, <2>2, <2>4, <3>3, <3>4 DEF s, v
  <2> QED BY <2>1, <2>3, <2>4
<1> QED BY <1>6, <1>7, <1>8, <1>9, <1>10, <1>11, <1>12 DEF Side!Serves

LEMMA SideHearsNames ==
  ASSUME NamesInv, NEW n \in DOMAIN calls, Side!Hears(n),
         NEW i \in Side!Items \ side'.mixed
  PROVE  Fine(i, calls', side'.shown[i], names'[i])
<1> DEFINE s == side.shown[i]
           v == names[i]
           t == side'.shown[i]
<1>1. /\ SideTyped /\ names \in Side!Lists /\ side \in SideType /\ calls \in Seq(CallsOut)
      /\ calls[n] \in CallType /\ CallOK(calls[n])
  BY DEF NamesInv, SideTyped, CallsOut
<1>2. i \notin side.mixed => Fine(i, calls, s, v)
  BY DEF NamesInv
<1>3. ASSUME i \notin side.mixed, Tells(calls[n], i)
      PROVE  calls[n].heard /\ OthersSilent(calls, n, i) /\ Word(calls[n], i, s, v)
  BY <1>2, <1>3 DEF Fine
<1>4. calls[n].kind \notin {"load", "list"} => (Tells(calls[n], i) <=> i = calls[n].item)
  BY TellsOne
<1>5. ASSUME i \notin side.mixed, calls' = Less(calls, n), names' = names,
             ~Tells(calls[n], i) => t = s, Tells(calls[n], i) => Ok(t, v)
      PROVE  Fine(i, calls', side'.shown[i], names'[i])
  <2>1. Tells(calls[n], i) => OthersSilent(calls, n, i)
    BY <1>3, <1>5
  <2> HIDE DEF s, v, t
  <2>2. Fine(i, Less(calls, n), t, v)
    BY <1>1, <1>2, <1>5, <2>1, FineLess, FineOver
  <2> QED BY <1>5, <2>2 DEF t, v
<1>6. Side!Over(n) => calls' = Less(calls, n) /\ names' = names
  BY <1>1, SideLess DEF Side!Over
<1>7. side.shown \in ShownType
  BY <1>1 DEF SideType
<1>8. CASE Side!Loaded(n)
  <2>1. /\ calls[n].kind = "load" /\ Side!Over(n)
        /\ side' = [side EXCEPT !.loading = FALSE,
                      !.shown = IF calls[n].at = "done" THEN calls[n].list ELSE @]
    BY <1>8 DEF Side!Loaded
  <2>2. i \notin side.mixed
        /\ side'.shown = IF calls[n].at = "done" THEN calls[n].list ELSE side.shown
    BY <1>1, <2>1 DEF SideType
  <2>3. Tells(calls[n], i)
    BY <2>1 DEF Tells, Side!About
  <2>4. Ok(t, v)
    BY <1>3, <2>1, <2>2, <2>3 DEF Word, Ok
  <2> QED BY <1>5, <1>6, <2>1, <2>2, <2>3, <2>4
<1>9. CASE Side!Listed(n)
  <2>1. /\ calls[n].kind = "list" /\ Side!Over(n) /\ calls[n].at \in {"done", "failed"}
        /\ side' = IF calls[n].at = "failed" THEN side
             ELSE [side EXCEPT !.shown =
                     [j \in Side!Items |-> IF j \in Side!About(calls[n]) THEN calls[n].list[j] ELSE @[j]]]
    BY <1>9 DEF Side!Listed
  <2>2. i \notin side.mixed
        /\ t = IF calls[n].at = "failed" \/ ~Tells(calls[n], i) THEN s ELSE calls[n].list[i]
    BY <1>1, <2>1 DEF SideType, Tells
  <2>3. Tells(calls[n], i) => Ok(t, v)
    BY <1>3, <2>1, <2>2 DEF Word, Ok
  <2> QED BY <1>5, <1>6, <2>1, <2>2, <2>3
<1>10. CASE Side!Created(n)
  <2> DEFINE call == calls[n]
             rest == Side!RemoveAt(calls, n)
  <2>1. /\ call.kind = "create" /\ call.at \in {"done", "failed"} /\ names' = names
        /\ rest = Less(calls, n) /\ rest \in Seq(CallsOut)
    BY <1>1, <1>10, SideLess DEF Side!Created
  <2>2. CASE call.at = "failed"
    <3>1. side' = side /\ calls' = rest
      BY <1>10, <2>2 DEF Side!Created
    <3>2. Tells(call, i) => Ok(t, v)
      BY <1>3, <2>1, <2>2, <3>1 DEF Word
    <3> QED BY <1>5, <2>1, <3>1, <3>2
  <2>3. CASE call.at # "failed" /\ call.item \in Subjects
    <3>1. /\ side' = [side EXCEPT !.dialog = FALSE, !.shown[call.item] = call.value]
          /\ calls' = rest
      BY <1>10, <2>3 DEF Side!Created
    <3>2. i \notin side.mixed /\ t = IF i = call.item THEN call.value ELSE s
      BY <1>1, <1>7, <3>1 DEF SideType, ShownType, Side!Items
    <3>3. Tells(call, i) => Ok(t, v)
      BY <1>3, <1>4, <2>1, <2>3, <3>2 DEF Word, Ok
    <3>4. ~Tells(call, i) => t = s
      BY <1>4, <2>1, <3>2
    <3> QED BY <1>5, <2>1, <3>1, <3>2, <3>3, <3>4
  <2>4. CASE call.at # "failed" /\ call.item \notin Subjects
    <3> DEFINE list == Side!Call("list", Home[call.item], None)
               closed == [side EXCEPT !.dialog = FALSE]
    <3>1. /\ side' = Side!Asked(closed, rest, list) /\ calls' = Append(rest, list)
      BY <1>10, <2>4 DEF Side!Created
    <3>2. closed \in SideType /\ closed.mixed = side.mixed /\ closed.shown = side.shown
      BY <1>1 DEF SideType
    <3>3. side'.shown = closed.shown
      BY <3>1, <3>2 DEF Side!Asked, SideType
    <3> HIDE DEF closed
    <3>4. i \notin side.mixed
      BY <3>1, <3>2 DEF Side!Asked, SideType
    <3>5. Tells(call, i) => Ok(s, v) /\ OthersSilent(calls, n, i)
      BY <1>3, <2>1, <3>4 DEF Word
    <3> HIDE DEF s, v, rest
    <3>6. Fine(i, Less(calls, n), s, v)
      BY <1>1, <1>2, <3>4, <3>5, FineLess, FineOver
    <3>7. Fine(i, Append(rest, list), s, v)
      BY <2>1, <3>1, <3>2, <3>6, FineAsked
    <3> QED BY <2>1, <3>1, <3>2, <3>3, <3>7 DEF s, v
  <2> QED BY <2>2, <2>3, <2>4
<1>11. CASE Side!Renamed(n)
  <2> DEFINE call == calls[n]
  <2>1. /\ call.kind = "rename" /\ call.at \in {"done", "refused", "failed"} /\ Side!Over(n)
        /\ side' = IF call.at # "done" THEN side
                 ELSE [side EXCEPT !.editing = None,
                         !.shown[call.item] = IF @ = None THEN None ELSE call.value]
    BY <1>11 DEF Side!Renamed
  <2>2. i \notin side.mixed
    BY <1>1, <2>1 DEF SideType
  <2>3. t = IF call.at = "done" /\ i = call.item /\ s # None THEN call.value ELSE s
    BY <1>1, <1>7, <2>1 DEF SideType, ShownType, Side!Items
  <2>4. Tells(call, i) => Ok(t, v)
    BY <1>3, <1>4, <2>1, <2>2, <2>3 DEF Word, Ok
  <2>5. ~Tells(call, i) => t = s
    BY <1>4, <2>1, <2>3
  <2> QED BY <1>5, <1>6, <2>1, <2>2, <2>4, <2>5
<1>12. CASE Side!Titled(n)
  <2> DEFINE call == calls[n]
  <2>1. /\ call.kind = "event" /\ calls' = Less(calls, n) /\ names' = names
        /\ side' = [side EXCEPT !.shown[call.item] = IF @ = None THEN None ELSE call.value]
    BY <1>6, <1>12 DEF Side!Titled
  <2>2. i \notin side.mixed
    BY <1>1, <2>1 DEF SideType
  <2>3. t = IF i = call.item /\ s # None THEN call.value ELSE s
    BY <1>1, <1>7, <2>1 DEF SideType, ShownType, Side!Items
  <2>4. Tells(call, i) => Ok(t, v)
    BY <1>3, <1>4, <2>1, <2>2, <2>3 DEF Word, Ok
  <2>5. ~Tells(call, i) => t = s
    BY <1>4, <2>1, <2>3
  <2> QED BY <1>5, <2>1, <2>2, <2>4, <2>5
<1> QED BY <1>8, <1>9, <1>10, <1>11, <1>12 DEF Side!Hears

LEMMA SideMoveAskingNames ==
  ASSUME NamesInv, NEW i \in Side!Items \ side'.mixed,
         NEW kind \in {"load", "list", "create", "rename", "name"}, NEW item, NEW value,
         Side!MoveAsking(side, Side!Call(kind, item, value))
  PROVE  Fine(i, calls', side'.shown[i], names'[i])
<1> DEFINE call == Side!Call(kind, item, value)
           next == [side EXCEPT !.moves = @ + 1]
           s == side.shown[i]
           v == names[i]
<1>1. /\ SideTyped /\ side \in SideType /\ calls \in Seq(CallsOut)
  BY DEF NamesInv, SideTyped
<1>2. /\ side' = Side!Asked(next, calls, call) /\ calls' = Append(calls, call)
      /\ names' = names /\ side.moves < MaxMoves
  BY DEF Side!MoveAsking, Side!Ask
<1>3. next \in SideType /\ next.mixed = side.mixed /\ next.shown = side.shown
  <2>1. next \in SideType
    BY <1>1, <1>2, SideMovesTyped
  <2> QED BY <1>1, <2>1 DEF SideType
<1> HIDE DEF next
<1>4. side'.shown = next.shown /\ i \notin side.mixed
  BY <1>2, <1>3 DEF Side!Asked, SideType
<1>5. Fine(i, calls, s, v)
  BY <1>4 DEF NamesInv
<1> HIDE DEF s, v
<1>6. Fine(i, Append(calls, call), s, v)
  BY <1>1, <1>2, <1>3, <1>5, FineAsked
<1> QED BY <1>2, <1>3, <1>4, <1>6 DEF s, v

LEMMA SideRevisitNames ==
  ASSUME NamesInv, Side!Revisit, NEW i \in Side!Items \ side'.mixed
  PROVE  Fine(i, calls', side'.shown[i], names'[i])
<1> DEFINE load == Side!Call("load", None, None)
<1>1. SideTyped
  BY DEF NamesInv
<1>2. PICK out \in Seq(CallsOut) :
           /\ side' = [Side!Asked(Side!Opened, out, load) EXCEPT !.moves = side.moves + 1]
           /\ calls' = Append([n \in DOMAIN out |-> [out[n] EXCEPT !.heard = FALSE]], load)
           /\ names' = names
  BY <1>1, SideRevisits
<1>3. load \in CallsOut /\ load.heard /\ load.kind = "load" /\ load.at = "sent"
  <2>1. load \in CallsOut
    BY SideCall
  <2> QED BY <2>1 DEF Side!Call
<1>4. Side!About(load) = Side!Items
  BY <1>3 DEF Side!About
<1> DEFINE page == Side!Asked(Side!Opened, out, load)
<1>5. /\ side'.shown[i] = None
      /\ side'.mixed = UNION {Side!About(load) \cap Side!About(out[n]) : n \in DOMAIN out}
  BY <1>2 DEF Side!Asked, Side!Opened
<1>6. \A n \in DOMAIN out : ~Tells(out[n], i)
  BY <1>4, <1>5 DEF Tells
<1> DEFINE left == [n \in DOMAIN out |-> [out[n] EXCEPT !.heard = FALSE]]
<1>7. ASSUME NEW n \in DOMAIN out
      PROVE  left[n] \in CallsOut /\ Side!About(left[n]) = Side!About(out[n])
  <2>1. out[n] \in CallsOut
    OBVIOUS
  <2> DEFINE c == [out[n] EXCEPT !.heard = FALSE]
  <2>2. c \in CallsOut /\ c.kind = out[n].kind /\ c.item = out[n].item
    BY <2>1 DEF CallsOut, CallType, CallOK
  <2>3. Side!About(c) = Side!About(out[n])
    BY <2>2 DEF Side!About
  <2> QED BY <2>2, <2>3
<1>8. left \in Seq(CallsOut)
  BY <1>7, IsASeq
<1>9. \A n \in DOMAIN left : ~Tells(left[n], i)
  BY <1>6, <1>7 DEF Tells
<1> HIDE DEF left, load, page
<1>10. Ok(None, names[i])
  BY DEF Ok
<1>11. Fine(i, left, None, names[i])
  BY <1>9, <1>10 DEF Fine
<1>12. Word(load, i, None, names[i])
  BY <1>3, <1>10 DEF Word
<1>13. Fine(i, Append(left, load), None, names[i])
  BY <1>3, <1>8, <1>9, <1>11, <1>12, FineAppend
<1> QED BY <1>2, <1>5, <1>13 DEF left

LEMMA SideUsesNames ==
  ASSUME NamesInv, Side!Uses, NEW i \in Side!Items \ side'.mixed
  PROVE  Fine(i, calls', side'.shown[i], names'[i])
<1>1. side \in SideType
  BY DEF NamesInv, SideTyped
<1>2. ASSUME NEW page \in SideType, page.mixed = side.mixed, page.shown = side.shown,
             Side!Move(page)
      PROVE  Fine(i, calls', side'.shown[i], names'[i])
  <2>1. side'.mixed = side.mixed /\ side'.shown = side.shown /\ calls' = calls /\ names' = names
    BY <1>2 DEF Side!Move, SideType
  <2> QED BY <2>1 DEF NamesInv
<1>3. ASSUME NEW j \in Side!Items, Side!StartEdit(j)
      PROVE  Fine(i, calls', side'.shown[i], names'[i])
  <2> DEFINE page == [side EXCEPT !.editing = j]
  <2>1. page \in SideType /\ page.mixed = side.mixed /\ page.shown = side.shown
    BY <1>1 DEF SideType, Side!Items
  <2> QED BY <1>2, <1>3, <2>1 DEF Side!StartEdit
<1>4. CASE Side!CancelEdit \/ Side!OpenDialog \/ Side!CloseDialog
  <2> DEFINE nexts == {[side EXCEPT !.editing = None], [side EXCEPT !.dialog = TRUE],
                       [side EXCEPT !.dialog = FALSE]}
  <2>1. PICK page \in nexts : Side!Move(page)
    BY <1>4 DEF Side!CancelEdit, Side!OpenDialog, Side!CloseDialog
  <2>2. page \in SideType /\ page.mixed = side.mixed /\ page.shown = side.shown
    BY <1>1 DEF SideType
  <2> QED BY <1>2, <2>1, <2>2
<1>5. ASSUME NEW j \in Side!Items, NEW v \in Names, Side!Create(j, v)
      PROVE  Fine(i, calls', side'.shown[i], names'[i])
  BY <1>5, SideMoveAskingNames DEF Side!Create
<1>6. ASSUME NEW v \in Names, Side!SaveEdit(v)
      PROVE  Fine(i, calls', side'.shown[i], names'[i])
  BY <1>6, SideMoveAskingNames DEF Side!SaveEdit
<1>7. ASSUME NEW c \in Chats, Side!Question(c)
      PROVE  Fine(i, calls', side'.shown[i], names'[i])
  BY <1>7, SideMoveAskingNames DEF Side!Question
<1>8. CASE Side!Revisit
  BY <1>8, SideRevisitNames
<1> QED BY <1>3, <1>4, <1>5, <1>6, <1>7, <1>8 DEF Side!Uses

LEMMA SideStepNames ==
  ASSUME NamesInv, Side!Next \/ UNCHANGED sideVars
  PROVE  NamesInv'
<1>1. SideTyped'
  BY SideStepTyped DEF NamesInv
<1>2. CASE Side!Next
  <2>1. ASSUME NEW i \in Side!Items \ side'.mixed
        PROVE  Fine(i, calls', side'.shown[i], names'[i])
    <3>1. CASE Side!Uses
      BY <3>1, SideUsesNames
    <3>2. ASSUME NEW n \in DOMAIN calls, Side!Serves(n) \/ Side!Hears(n)
          PROVE  Fine(i, calls', side'.shown[i], names'[i])
      BY <3>2, SideServesNames, SideHearsNames
    <3> QED BY <1>2, <3>1, <3>2 DEF Side!Next
  <2> QED BY <1>1, <2>1 DEF NamesInv
<1>3. CASE UNCHANGED sideVars
  BY <1>1, <1>3 DEF sideVars, NamesInv
<1> QED BY <1>2, <1>3

LEMMA NamesInvHolds == AppSpec => []NamesInv
<1>1. AppInit => NamesInv
  BY SideInitNames DEF AppInit
<1>2. NamesInv /\ [AppNext]_appVars => NamesInv'
  <2>1. [AppNext]_appVars => Side!Next \/ UNCHANGED sideVars
    BY DEF AppNext, OnWhiteboard, OnSettings, OnChat, appVars
  <2> QED BY <2>1, SideStepNames
<1> QED BY <1>1, <1>2, PTL DEF AppSpec

\* At rest the sidebar shows the names the server keeps, of any subjects and
\* chats, unless calls about an item crossed or an answer was lost: what is on
\* its way about an item is one call, which will say what the server keeps.
\* (onTitle, onChatUpdated)
THEOREM NamesAreShown == AppSpec => []NamesShown
<1>1. NamesInv => NamesShown
  <2> SUFFICES ASSUME NamesInv, calls = <<>>, NEW i \in Side!Items \ side.mixed
               PROVE  side.shown[i] \in {None, names[i]}
    BY DEF NamesShown, Side!NamesShown
  <2>1. Fine(i, calls, side.shown[i], names[i])
    BY DEF NamesInv
  <2>2. DOMAIN calls = {}
    OBVIOUS
  <2> QED BY <2>1, <2>2 DEF Fine, Ok
<1> QED BY <1>1, NamesInvHolds, PTL

-----------------------------------------------------------------------------
(* The settings page: its configurations.                                  *)

KeyType == [of : Keys \cup {None}, masked : BOOLEAN]
ModelType == [alias : Aliases, key : KeyType]
Ordered == Form!ToSet(Sections)

RulesType == [Ordered -> [Reasons -> (SUBSET Aliases) \cup {None}]]
OrderType == [Ordered -> Seq(Aliases)]

ConfigType ==
  {config \in [models : Seq(ModelType), order : OrderType, rules : RulesType] :
     Len(config.models) <= MaxModels}

LEMMA ConfigIs ==
  ASSUME NEW config \in ConfigType
  PROVE  config \in Form!Configs
BY DEF ConfigType, Form!Configs, ModelType, KeyType, OrderType, RulesType, Ordered

LEMMA FormBounds ==
  MaxModels \in Nat /\ MaxEdits \in Nat /\ MaxSaves \in Nat /\ MaxVisits \in Nat
BY FrontendAssumption

LEMMA KeyIs ==
  /\ Form!NoKey \in KeyType
  /\ \A k \in Keys \cup {None}, m \in BOOLEAN : Form!Key(k, m) \in KeyType
  /\ \A key \in KeyType : /\ Form!Mask(key) \in KeyType
                          /\ Form!Mask(Form!Mask(key)) = Form!Mask(key)
                          /\ Form!Mask(key) # Form!NoKey <=> key # Form!NoKey
                          /\ key.masked => Form!Mask(key) = key /\ key # Form!NoKey
                          /\ Form!Mask(key) # Form!NoKey => Form!Mask(key).masked
<1>1. /\ Form!NoKey \in KeyType
      /\ \A k \in Keys \cup {None}, m \in BOOLEAN : Form!Key(k, m) \in KeyType
  BY DEF Form!NoKey, Form!Key, KeyType
<1>2. ASSUME NEW key \in KeyType
      PROVE  /\ Form!Mask(key) \in KeyType
             /\ Form!Mask(Form!Mask(key)) = Form!Mask(key)
             /\ Form!Mask(key) # Form!NoKey <=> key # Form!NoKey
             /\ key.masked => Form!Mask(key) = key /\ key # Form!NoKey
             /\ Form!Mask(key) # Form!NoKey => Form!Mask(key).masked
  <2> DEFINE none == Form!NoKey
             over == [key EXCEPT !.masked = TRUE]
  <2>1. none = [of |-> None, masked |-> FALSE]
    BY DEF Form!NoKey, Form!Key
  <2>2. over \in KeyType /\ over.masked = TRUE
    BY DEF KeyType
  <2>3. key.masked => over = key
    BY DEF KeyType
  <2>4. none.masked = FALSE
    BY <2>1
  <2>5. over # none
    BY <2>2, <2>4
  <2>6. \A c : Form!Mask(c) = IF c = none THEN none ELSE [c EXCEPT !.masked = TRUE]
    BY DEF Form!Mask
  <2>7. [over EXCEPT !.masked = TRUE] = over
    BY DEF KeyType
  <2>8. Form!Mask(key) = IF key = none THEN none ELSE over
    BY <2>6
  <2>9. Form!Mask(none) = none /\ Form!Mask(over) = over
    BY <2>5, <2>6, <2>7
  <2> HIDE DEF none, over
  <2>10. key.masked => key # none
    BY <2>4
  <2> QED BY <1>1, <2>2, <2>3, <2>5, <2>8, <2>9, <2>10 DEF none
<1> QED BY <1>1, <1>2

\* apply_incoming: a key is the one that came, or one that is kept under the
\* alias and has the mask that came, or that nothing came for.
LEMMA KeptOrNewIs ==
  ASSUME NEW model \in ModelType, NEW config \in ConfigType
  PROVE  LET new == Form!KeptOrNew(model, config)
             kept(j) == /\ config.models[j].alias = model.alias
                        /\ model.key \in {Form!NoKey, Form!Mask(config.models[j].key)}
         IN  /\ new \in KeyType
             /\ \/ /\ new = model.key
                   /\ \A j \in DOMAIN config.models : ~kept(j)
                \/ \E j \in DOMAIN config.models : kept(j) /\ new = config.models[j].key
<1> DEFINE same == {config.models[i].key : i \in Form!ModelsOf(model.alias, config)}
           keys == {key \in same : model.key \in {Form!NoKey, Form!Mask(key)}}
           new == Form!KeptOrNew(model, config)
           kept(j) == /\ config.models[j].alias = model.alias
                      /\ model.key \in {Form!NoKey, Form!Mask(config.models[j].key)}
<1>1. \A j \in DOMAIN config.models : config.models[j] \in ModelType /\ config.models[j].key \in KeyType
  <2>1. config.models \in Seq(ModelType)
    BY DEF ConfigType
  <2>2. \A j \in DOMAIN config.models : config.models[j] \in ModelType
    BY <2>1
  <2> QED BY <2>2 DEF ModelType
<1>2. keys = {config.models[j].key : j \in {i \in DOMAIN config.models : kept(i)}}
  BY DEF Form!ModelsOf
<1>3. new = IF keys # {} THEN CHOOSE key \in keys : TRUE ELSE model.key
  BY DEF Form!KeptOrNew
<1> HIDE DEF keys
<1>4. CASE keys # {}
  <2>1. new \in keys
    BY <1>3, <1>4
  <2> HIDE DEF new
  <2>2. PICK j \in DOMAIN config.models : kept(j) /\ new = config.models[j].key
    BY <1>2, <2>1
  <2> QED BY <1>1, <2>2 DEF new
<1>5. CASE keys = {}
  <2>1. new = model.key /\ model.key \in KeyType
    BY <1>3, <1>5 DEF ModelType
  <2> HIDE DEF new
  <2>2. \A j \in DOMAIN config.models : ~kept(j)
    BY <1>2, <1>5
  <2> QED BY <2>1, <2>2 DEF new
<1> QED BY <1>4, <1>5

LEMMA ConfigModels ==
  ASSUME NEW config \in ConfigType, NEW ms \in Seq(ModelType), Len(ms) <= MaxModels
  PROVE  [config EXCEPT !.models = ms] \in ConfigType
BY DEF ConfigType

LEMMA ModelsMapped ==
  ASSUME NEW config \in ConfigType, NEW ms \in [DOMAIN config.models -> ModelType]
  PROVE  [config EXCEPT !.models = ms] \in ConfigType
<1>1. config.models \in Seq(ModelType) /\ Len(config.models) <= MaxModels
  BY DEF ConfigType
<1>2. ms \in Seq(ModelType) /\ Len(ms) = Len(config.models)
  <2>1. DOMAIN config.models = 1..Len(config.models) /\ Len(config.models) \in Nat
    BY <1>1
  <2>2. ms \in [1..Len(config.models) -> ModelType]
    BY <2>1
  <2> QED BY <2>1, <2>2, IsASeq
<1> QED BY <1>1, <1>2, ConfigModels

LEMMA AppliedIs ==
  ASSUME NEW config \in ConfigType, NEW current \in ConfigType
  PROVE  LET new == Form!ApplyIncoming(config, current)
         IN  /\ new \in ConfigType /\ new.order = config.order /\ new.rules = config.rules
             /\ DOMAIN new.models = DOMAIN config.models /\ Len(new.models) = Len(config.models)
             /\ \A i \in DOMAIN config.models :
                  /\ new.models[i].alias = config.models[i].alias
                  /\ new.models[i].key = Form!KeptOrNew(config.models[i], current)
<1> DEFINE F(i) == [config.models[i] EXCEPT !.key = Form!KeptOrNew(config.models[i], current)]
           new == Form!ApplyIncoming(config, current)
<1>1. \A i \in DOMAIN config.models : config.models[i] \in ModelType
  BY DEF ConfigType
<1>2. ASSUME NEW i \in DOMAIN config.models
      PROVE  F(i) \in ModelType /\ F(i).alias = config.models[i].alias
             /\ F(i).key = Form!KeptOrNew(config.models[i], current)
  <2>1. Form!KeptOrNew(config.models[i], current) \in KeyType
    BY <1>1, KeptOrNewIs
  <2> QED BY <1>1, <2>1 DEF ModelType
<1>3. new = [config EXCEPT !.models = [i \in DOMAIN config.models |-> F(i)]]
  BY DEF Form!ApplyIncoming
<1> HIDE DEF F, new
<1>4. new \in ConfigType
  <2> DEFINE ms == [i \in DOMAIN config.models |-> F(i)]
  <2>1. ms \in [DOMAIN config.models -> ModelType] /\ new = [config EXCEPT !.models = ms]
    BY <1>2, <1>3
  <2> HIDE DEF ms
  <2> QED BY <2>1, ModelsMapped
<1>5. /\ new.order = config.order /\ new.rules = config.rules
      /\ new.models = [i \in DOMAIN config.models |-> F(i)]
  BY <1>3 DEF ConfigType
<1>6. new.models \in Seq(ModelType) /\ config.models \in Seq(ModelType)
  BY <1>4 DEF ConfigType
<1>7. DOMAIN new.models = DOMAIN config.models
  BY <1>5
<1>8. Len(new.models) = Len(config.models)
  BY <1>6, <1>7
<1> QED BY <1>2, <1>4, <1>5, <1>7, <1>8 DEF new

LEMMA ToUiIs ==
  ASSUME NEW config \in ConfigType
  PROVE  LET new == Form!ToUi(config)
         IN  /\ new \in ConfigType /\ new.order = config.order /\ new.rules = config.rules
             /\ DOMAIN new.models = DOMAIN config.models /\ Len(new.models) = Len(config.models)
             /\ \A i \in DOMAIN config.models :
                  /\ new.models[i].alias = config.models[i].alias
                  /\ new.models[i].key = Form!Mask(config.models[i].key)
<1> DEFINE F(i) == [config.models[i] EXCEPT !.key = Form!Mask(config.models[i].key)]
           new == Form!ToUi(config)
<1>1. \A i \in DOMAIN config.models : config.models[i] \in ModelType
  BY DEF ConfigType
<1>2. ASSUME NEW i \in DOMAIN config.models
      PROVE  F(i) \in ModelType /\ F(i).alias = config.models[i].alias
             /\ F(i).key = Form!Mask(config.models[i].key)
  BY <1>1, KeyIs DEF ModelType
<1>3. new = [config EXCEPT !.models = [i \in DOMAIN config.models |-> F(i)]]
  BY DEF Form!ToUi
<1> HIDE DEF F, new
<1>4. new \in ConfigType
  <2> DEFINE ms == [i \in DOMAIN config.models |-> F(i)]
  <2>1. ms \in [DOMAIN config.models -> ModelType] /\ new = [config EXCEPT !.models = ms]
    BY <1>2, <1>3
  <2> HIDE DEF ms
  <2> QED BY <2>1, ModelsMapped
<1>5. /\ new.order = config.order /\ new.rules = config.rules
      /\ new.models = [i \in DOMAIN config.models |-> F(i)]
  BY <1>3 DEF ConfigType
<1>6. new.models \in Seq(ModelType) /\ config.models \in Seq(ModelType)
  BY <1>4 DEF ConfigType
<1>7. DOMAIN new.models = DOMAIN config.models
  BY <1>5
<1>8. Len(new.models) = Len(config.models)
  BY <1>6, <1>7
<1> QED BY <1>2, <1>4, <1>5, <1>7, <1>8 DEF new

\* The configurations the program makes itself.
LEMMA EmptyIs == Form!Empty \in ConfigType /\ Form!Empty.models = <<>>
<1>1. Form!Empty.models = <<>>
  BY DEF Form!Empty
<1> QED BY <1>1, FormBounds DEF Form!Empty, ConfigType, OrderType, RulesType, Ordered

LEMMA ConfiguredIs ==
  ASSUME NEW q \in Seq(Aliases), Len(q) <= MaxModels, NEW key \in KeyType
  PROVE  /\ Form!Configured(q, key) \in ConfigType
         /\ Len(Form!Configured(q, key).models) = Len(q)
         /\ \A i \in DOMAIN Form!Configured(q, key).models :
              Form!Configured(q, key).models[i].key = key
<1> DEFINE ms == [i \in DOMAIN q |-> Form!Model(q[i], key)]
           new == Form!Configured(q, key)
<1>1. DOMAIN q = 1..Len(q) /\ Len(q) \in Nat
  OBVIOUS
<1>2. ms \in Seq(ModelType) /\ Len(ms) = Len(q)
  <2>1. \A i \in DOMAIN q : Form!Model(q[i], key) \in ModelType
    BY DEF Form!Model, ModelType
  <2>2. ms \in [1..Len(q) -> ModelType]
    BY <1>1, <2>1
  <2> QED BY <1>1, <2>2, IsASeq
<1>3. \A i \in DOMAIN ms : ms[i].key = key
  BY DEF Form!Model
<1>4. new = [Form!Empty EXCEPT !.models = ms, !.order = [s \in Ordered |-> q]]
  BY DEF Form!Configured, Ordered
<1> HIDE DEF ms, new
<1>5. new.models = ms
  BY <1>4 DEF Form!Empty
<1>6. new \in ConfigType
  BY <1>2, <1>4, EmptyIs DEF ConfigType, OrderType
<1> QED BY <1>2, <1>3, <1>5, <1>6 DEF new

LEMMA AliasesListed ==
  Form!SetToSeq(Aliases) \in Seq(Aliases) /\ Len(Form!SetToSeq(Aliases)) <= MaxModels
<1> DEFINE n == Cardinality(Aliases)
<1>1. n \in Nat /\ n <= MaxModels /\ ExistsBijection(1..n, Aliases)
  BY FS_CardinalityType, FrontendAssumption
<1> HIDE DEF n
<1>2. \E f \in [1..n -> Aliases] : Form!IsInjective(f)
  BY <1>1 DEF ExistsBijection, Bijection, Injection, IsInjective, Form!IsInjective
<1>3. Form!SetToSeq(Aliases) \in [1..n -> Aliases]
  <2>1. Form!Cardinality(Aliases) = n
    BY Zenon DEF Form!Cardinality, Cardinality, n
  <2>2. Form!SetToSeq(Aliases) = CHOOSE f \in [1..n -> Aliases] : Form!IsInjective(f)
    BY <2>1 DEF Form!SetToSeq
  <2> QED BY <1>2, <2>2
<1> QED BY <1>1, <1>3, IsASeq

-----------------------------------------------------------------------------
(* The configurations a user can make.                                     *)

FormKeeping == INSTANCE Loop_proofs WITH Body <- Form!KeepIf

LEMMA FormKeeps ==
  ASSUME NEW R, NEW s \in Seq(R), NEW S
  PROVE  Form!Keep(s, S) \in Seq(R)
<1> DEFINE Inv == Seq(R)
<1>1. <<>> \in Inv /\ Len(s) \in Nat
  OBVIOUS
<1>2. ASSUME NEW i \in 1..Len(s), NEW acc \in Inv PROVE Form!KeepIf(S, acc, s[i]) \in Inv
  <2>1. s[i] \in R
    OBVIOUS
  <2> QED BY <2>1 DEF Form!KeepIf
<1> HIDE DEF Inv
<1>3. FormKeeping!After(S, <<>>, s, Len(s)) \in Inv
  BY <1>1, <1>2, FormKeeping!AfterKeeps
<1>4. Form!Keep(s, S) = FormKeeping!After(S, <<>>, s, Len(s))
  BY Zenon DEF Form!Keep, Form!Filter!Loop, Form!Filter!After, FormKeeping!After
<1> QED BY <1>3, <1>4 DEF Inv

LEMMA RenamedIs ==
  ASSUME NEW config \in ConfigType, NEW old \in Aliases, NEW new \in Aliases
  PROVE  Form!Renamed(config, old, new) \in ConfigType
         /\ Form!Renamed(config, old, new).models = config.models
<1> DEFINE name(a) == IF a = old THEN new ELSE a
           order == [s \in Ordered |-> [i \in DOMAIN config.order[s] |-> name(config.order[s][i])]]
           rules == [s \in Ordered |-> [r \in Reasons |->
                        IF config.rules[s][r] = None THEN None
                        ELSE {name(a) : a \in config.rules[s][r]}]]
<1>1. config.order \in OrderType /\ config.rules \in RulesType
  BY DEF ConfigType
<1>2. order \in OrderType
  <2>1. ASSUME NEW s \in Ordered
        PROVE  [i \in DOMAIN config.order[s] |-> name(config.order[s][i])] \in Seq(Aliases)
    <3>1. config.order[s] \in Seq(Aliases)
      BY <1>1 DEF OrderType
    <3> DEFINE q == config.order[s]
               p == [i \in DOMAIN q |-> name(q[i])]
    <3>2. DOMAIN q = 1..Len(q) /\ Len(q) \in Nat /\ \A i \in DOMAIN q : q[i] \in Aliases
      BY <3>1
    <3> HIDE DEF q
    <3>3. p \in [1..Len(q) -> Aliases]
      BY <3>2
    <3> HIDE DEF p
    <3>4. p \in Seq(Aliases)
      BY <3>2, <3>3, IsASeq
    <3> QED BY <3>4 DEF p, q
  <2> QED BY <2>1 DEF OrderType
<1>3. rules \in RulesType
  <2>1. ASSUME NEW s \in Ordered, NEW r \in Reasons
        PROVE  rules[s][r] \in (SUBSET Aliases) \cup {None}
    <3>1. config.rules[s][r] \in (SUBSET Aliases) \cup {None}
      BY <1>1 DEF RulesType
    <3> QED BY <3>1
  <2> QED BY <2>1 DEF RulesType
<1>4. Form!Renamed(config, old, new) = [config EXCEPT !.order = order, !.rules = rules]
  BY DEF Form!Renamed, Ordered
<1> HIDE DEF order, rules
<1> DEFINE next == [config EXCEPT !.order = order, !.rules = rules]
<1>5. next \in ConfigType /\ next.models = config.models
  BY <1>2, <1>3 DEF ConfigType
<1> HIDE DEF next
<1> QED BY <1>4, <1>5 DEF next

LEMMA StrippedIs ==
  ASSUME NEW config \in ConfigType, NEW alias
  PROVE  Form!Stripped(config, alias) \in ConfigType
         /\ Form!Stripped(config, alias).models = config.models
<1> DEFINE order == [s \in Ordered |-> Form!Keep(config.order[s], Aliases \ {alias})]
           rules == [s \in Ordered |-> [r \in Reasons |->
                        IF config.rules[s][r] = None THEN None
                        ELSE config.rules[s][r] \ {alias}]]
<1>1. config.order \in OrderType /\ config.rules \in RulesType
  BY DEF ConfigType
<1>2. order \in OrderType
  BY <1>1, FormKeeps DEF OrderType
<1>3. rules \in RulesType
  <2>1. ASSUME NEW s \in Ordered, NEW r \in Reasons
        PROVE  rules[s][r] \in (SUBSET Aliases) \cup {None}
    <3>1. config.rules[s][r] \in (SUBSET Aliases) \cup {None}
      BY <1>1 DEF RulesType
    <3> QED BY <3>1
  <2> QED BY <2>1 DEF RulesType
<1>4. Form!Stripped(config, alias) = [config EXCEPT !.order = order, !.rules = rules]
  BY DEF Form!Stripped, Ordered
<1> HIDE DEF order, rules
<1> DEFINE next == [config EXCEPT !.order = order, !.rules = rules]
<1>5. next \in ConfigType /\ next.models = config.models
  BY <1>2, <1>3 DEF ConfigType
<1> HIDE DEF next
<1> QED BY <1>4, <1>5 DEF next

LEMMA OrderSet ==
  ASSUME NEW config \in ConfigType, NEW s \in Ordered, NEW q \in Seq(Aliases)
  PROVE  /\ [config EXCEPT !.order[s] = q] \in ConfigType
         /\ [config EXCEPT !.order[s] = q].models = config.models
<1> DEFINE order == [config.order EXCEPT ![s] = q]
<1>1. order \in OrderType
  BY DEF ConfigType, OrderType
<1>2. [config EXCEPT !.order[s] = q] = [config EXCEPT !.order = order]
  BY DEF ConfigType
<1> HIDE DEF order
<1> QED BY <1>1, <1>2 DEF ConfigType

WithRule(config, s, r, use) == [config EXCEPT !.rules[s][r] = use]

LEMMA RuleSet ==
  ASSUME NEW config \in ConfigType, NEW s \in Ordered, NEW r \in Reasons, NEW use \in SUBSET Aliases
  PROVE  /\ WithRule(config, s, r, use) \in ConfigType
         /\ WithRule(config, s, r, use).models = config.models
<1> DEFINE row == [config.rules[s] EXCEPT ![r] = use]
           rules == [config.rules EXCEPT ![s] = row]
<1>1. config.rules \in RulesType
  BY DEF ConfigType
<1>2. row \in [Reasons -> (SUBSET Aliases) \cup {None}]
  BY <1>1 DEF RulesType
<1>3. WithRule(config, s, r, use) = [config EXCEPT !.rules = rules]
  BY <1>1 DEF ConfigType, WithRule
<1> HIDE DEF row
<1>4. rules \in RulesType
  BY <1>1, <1>2 DEF RulesType
<1> HIDE DEF rules
<1> QED BY <1>3, <1>4 DEF ConfigType

\* submitDialog: what the page has after it.
Submitted(config, i, alias, key) ==
  LET old == config.models[i]
      new == Form!Model(alias, IF key = Form!NoKey THEN old.key ELSE key)
  IN  IF i = 0 THEN [config EXCEPT !.models = Append(@, Form!Model(alias, key))]
      ELSE [Form!Renamed(config, old.alias, alias) EXCEPT !.models[i] = new]

LEMMA SubmittedIs ==
  ASSUME NEW config \in ConfigType, NEW i \in DOMAIN config.models \cup {0},
         NEW alias \in Aliases, NEW key \in KeyType,
         i = 0 => Len(config.models) < MaxModels
  PROVE  LET next == Submitted(config, i, alias, key)
             old == config.models[i]
         IN  /\ next \in ConfigType
             /\ i = 0 => next.models = Append(config.models, Form!Model(alias, key))
             /\ i # 0 => next.models = [config.models EXCEPT ![i] =
                           Form!Model(alias, IF key = Form!NoKey THEN old.key ELSE key)]
<1>1. config.models \in Seq(ModelType) /\ Len(config.models) <= MaxModels
  BY DEF ConfigType
<1>2. CASE i = 0
  <2> DEFINE ms == Append(config.models, Form!Model(alias, key))
  <2>1. Form!Model(alias, key) \in ModelType
    BY DEF Form!Model, ModelType
  <2>2. ms \in Seq(ModelType) /\ Len(ms) = Len(config.models) + 1
    BY <1>1, <2>1
  <2>3. Len(ms) <= MaxModels
    <3>1. Len(config.models) \in Nat /\ MaxModels \in Nat
      BY <1>1, FormBounds
    <3> HIDE DEF ms
    <3> QED BY <1>2, <2>2, <3>1
  <2>4. Submitted(config, i, alias, key) = [config EXCEPT !.models = ms]
    BY <1>2 DEF Submitted
  <2> HIDE DEF ms
  <2>5. [config EXCEPT !.models = ms].models = ms
    BY DEF ConfigType
  <2> QED BY <1>2, <2>2, <2>3, <2>4, <2>5, ConfigModels DEF ms
<1>3. CASE i # 0
  <2> DEFINE old == config.models[i]
             new == Form!Model(alias, IF key = Form!NoKey THEN old.key ELSE key)
             named == Form!Renamed(config, old.alias, alias)
             ms == [config.models EXCEPT ![i] = new]
  <2>1. i \in DOMAIN config.models /\ old \in ModelType
    BY <1>1, <1>3
  <2>2. new \in ModelType
    BY <2>1 DEF Form!Model, ModelType
  <2>3. named \in ConfigType /\ named.models = config.models
    <3>1. old.alias \in Aliases
      BY <2>1 DEF ModelType
    <3> HIDE DEF old
    <3> QED BY <3>1, RenamedIs
  <2>4. Submitted(config, i, alias, key) = [named EXCEPT !.models[i] = new]
    BY <1>3 DEF Submitted
  <2> HIDE DEF new, named
  <2>5. [named EXCEPT !.models[i] = new] = [named EXCEPT !.models = ms]
    BY <2>3 DEF ConfigType
  <2>6. ms \in Seq(ModelType) /\ Len(ms) = Len(config.models)
    BY <1>1, <2>1, <2>2
  <2> HIDE DEF ms
  <2>7. [named EXCEPT !.models = ms] \in ConfigType
    BY <1>1, <2>3, <2>6, ConfigModels
  <2>8. [named EXCEPT !.models = ms].models = ms
    BY <2>3 DEF ConfigType
  <2> QED BY <1>3, <2>4, <2>5, <2>7, <2>8 DEF ms, new
<1> QED BY <1>2, <1>3

\* removeTriplet.
LEMMA RemovedIs ==
  ASSUME NEW config \in ConfigType, NEW i \in DOMAIN config.models
  PROVE  LET next == [Form!Stripped(config, config.models[i].alias) EXCEPT
                        !.models = Form!RemoveAt(@, i)]
         IN  next \in ConfigType /\ next.models = Less(config.models, i)
<1> DEFINE mid == Form!Stripped(config, config.models[i].alias)
           ms == Less(config.models, i)
<1>1. config.models \in Seq(ModelType) /\ Len(config.models) <= MaxModels
  BY DEF ConfigType
<1>2. ms \in Seq(ModelType) /\ Len(ms) = Len(config.models) - 1
  BY <1>1, LessIs
<1>3. Len(ms) <= MaxModels
  <2>1. Len(config.models) \in Nat /\ MaxModels \in Nat
    BY <1>1, FormBounds
  <2> HIDE DEF ms
  <2> QED BY <1>1, <1>2, <2>1
<1>4. mid \in ConfigType /\ mid.models = config.models
  BY StrippedIs
<1>5. Form!RemoveAt(config.models, i) = ms
  BY DEF Form!RemoveAt, Less
<1> HIDE DEF mid, ms
<1>6. [mid EXCEPT !.models = Form!RemoveAt(@, i)] = [mid EXCEPT !.models = ms]
  BY <1>4, <1>5 DEF ConfigType
<1>7. [mid EXCEPT !.models = ms] \in ConfigType
  BY <1>2, <1>3, <1>4, ConfigModels
<1>8. [mid EXCEPT !.models = ms].models = ms
  BY <1>4 DEF ConfigType
<1> QED BY <1>6, <1>7, <1>8 DEF mid, ms

-----------------------------------------------------------------------------
(* The settings page: types.                                               *)

FormType ==
  [visit : 1..MaxVisits, config : ConfigType, lastSaved : ConfigType \cup {None},
   load : {"asked", "served", "shown", "failed"}, answer : ConfigType \cup {None},
   state : {"idle", "saving", "saved", "error"}, timer : BOOLEAN,
   dialog : 0..MaxModels \cup {None}, importing : BOOLEAN, step : 0..(Len(Sections) + 1),
   kept : ConfigType \cup {None}, raced : BOOLEAN, tainted : BOOLEAN]

\* The dialog that adds a model is open only while there is room for one.
DialogOK(page) ==
  /\ page.load \in {"asked", "served"} => page.dialog = None
  /\ page.dialog = 0 /\ page.dialog # None => Len(page.config.models) < MaxModels

SaveType ==
  [visit : 1..MaxVisits, kind : {"auto", "test"}, body : ConfigType,
   at : {"sent", "stored", "refused"}, heard : BOOLEAN]

UsedType == [edits : 0..MaxEdits, served : 0..MaxVisits]

FormTyped ==
  /\ form \in FormType /\ DialogOK(form) /\ used \in UsedType
  /\ saves \in Seq(SaveType) /\ stored \in ConfigType

LEMMA FormTypedIsOK == FormTyped => Form!TypeOK
<1> SUFFICES ASSUME FormTyped PROVE Form!TypeOK
  OBVIOUS
<1> DEFINE Saves == [visit : 1..MaxVisits, kind : {"auto", "test"}, body : Form!Configs,
                     at : {"sent", "stored", "refused"}, heard : BOOLEAN]
<1>1. /\ form.config \in Form!Configs /\ form.lastSaved \in Form!Configs \cup {None}
      /\ {form.answer, form.kept} \subseteq Form!Configs \cup {None}
      /\ stored \in Form!Configs
  BY ConfigIs DEF FormTyped, FormType
<1>2. saves \in Seq(Saves)
  <2>1. ConfigType \subseteq Form!Configs
    BY ConfigIs
  <2>2. SaveType \subseteq Saves
    BY <2>1 DEF SaveType
  <2> QED BY <2>2, SeqMonotonic DEF FormTyped
<1> QED BY <1>1, <1>2 DEF Form!TypeOK, FormTyped, FormType, UsedType, Form!LastStep

\* Two pages that differ in what editing changes at most.
Alike(next, page) ==
  /\ next.visit = page.visit /\ next.load = page.load /\ next.answer = page.answer
  /\ next.dialog = page.dialog /\ next.importing = page.importing /\ next.step = page.step
  /\ next.kept = page.kept /\ next.lastSaved = page.lastSaved /\ next.tainted = page.tainted

\* What editing makes of the page.
LEMMA FormEditedIs ==
  ASSUME FormTyped, NEW config \in ConfigType
  PROVE  LET next == Form!Edited(config)
             back == form.lastSaved \in {None, config}
         IN  /\ next \in FormType /\ Alike(next, form) /\ next.config = config
             /\ next.timer <=> ~back
             /\ next.state = IF back THEN form.state ELSE "saving"
             /\ next.raced <=> form.raced \/ Form!TakenBack(config)
<1> DEFINE next == Form!Edited(config)
           race == form.raced \/ Form!TakenBack(config)
           calm == [form EXCEPT !.config = config, !.timer = FALSE, !.raced = race]
           busy == [form EXCEPT !.config = config, !.timer = TRUE, !.state = "saving"]
<1>1. form \in FormType
  BY DEF FormTyped
<1>2. race \in BOOLEAN
  BY <1>1 DEF FormType
<1>3. /\ busy \in FormType /\ Alike(busy, form) /\ busy.config = config
      /\ busy.timer = TRUE /\ busy.state = "saving" /\ busy.raced = form.raced
  BY <1>1 DEF FormType, Alike
<1>4. CASE form.lastSaved \in {None, config}
  <2>1. next = calm
    BY <1>4 DEF Form!Edited
  <2>2. race <=> form.raced \/ Form!TakenBack(config)
    OBVIOUS
  <2> HIDE DEF race
  <2>3. /\ calm \in FormType /\ Alike(calm, form) /\ calm.config = config
        /\ calm.timer = FALSE /\ calm.state = form.state /\ calm.raced = race
    BY <1>1, <1>2 DEF FormType, Alike
  <2> HIDE DEF calm, next
  <2> QED BY <1>4, <2>1, <2>2, <2>3 DEF next
<1>5. CASE form.lastSaved \notin {None, config}
  <2>1. next = busy
    BY <1>5 DEF Form!Edited
  <2>2. ~Form!TakenBack(config)
    BY <1>5 DEF Form!TakenBack
  <2> HIDE DEF busy, next
  <2> QED BY <1>3, <1>5, <2>1, <2>2 DEF next
<1> QED BY <1>4, <1>5

-----------------------------------------------------------------------------
(* The settings page: what its invariants rest on.                         *)

Out(i) == saves[i].at = "sent"
Stored(i) == saves[i].at = "stored"
MineStored(i) == Form!Mine(i) /\ Stored(i)

\* No save that was sent after this one was stored.
Ahead(i) == \A j \in DOMAIN saves : j > i => ~Stored(j)

\* A save that may still be stored without being late.
Free(i) == Out(i) /\ Ahead(i) /\ used.served <= saves[i].visit

\* Every masked key of a configuration is there in another one, or is the mask
\* of a key that is stored under the same alias.
Carries(other, config) ==
  \A j \in DOMAIN config.models : config.models[j].key.masked =>
    \E i \in DOMAIN other.models : /\ other.models[i].alias = config.models[j].alias
                                   /\ other.models[i].key = config.models[j].key

Backed(config, store) ==
  \A j \in DOMAIN config.models : config.models[j].key.masked =>
    \E i \in DOMAIN store.models : /\ store.models[i].alias = config.models[j].alias
                                   /\ Form!Mask(store.models[i].key) = config.models[j].key

Unmasked(store) == \A j \in DOMAIN store.models : ~store.models[j].key.masked

\* A page has no masks before its load is shown, and has only fewer while it is
\* edited: whichever save arrives, the keys of the masks that the page and its
\* later saves still have are stored after it, too.
MaskInv ==
  ~form.tainted =>
    /\ Unmasked(stored)
    /\ form.load = "served" => Backed(form.answer, stored)
    /\ form.load = "shown" => Backed(form.config, stored)
    /\ form.load # "shown" => Unmasked(form.config)
    /\ \A i \in DOMAIN saves : Free(i) => Backed(saves[i].body, stored)
    /\ \A i \in DOMAIN saves : saves[i].visit > used.served => Unmasked(saves[i].body)
    /\ \A i \in DOMAIN saves : Form!Mine(i) => Carries(saves[i].body, form.config)
    /\ \A i, j \in DOMAIN saves : i < j /\ saves[i].visit = saves[j].visit =>
         Carries(saves[i].body, saves[j].body)

\* The order of visits, and what a page has before its load is shown.
Visits ==
  /\ \A i \in DOMAIN saves : saves[i].visit <= form.visit
  /\ \A i, j \in DOMAIN saves : i < j => saves[i].visit <= saves[j].visit
  /\ used.served <= form.visit
  /\ form.load \in {"served", "shown"} => used.served = form.visit
  /\ form.load \in {"asked", "served"} =>
       ~form.timer /\ ~form.importing /\ \A i \in DOMAIN saves : ~Form!Mine(i)
  /\ form.load = "served" => form.answer # None /\ form.kept = form.answer
  /\ form.load = "shown" => form.lastSaved # None

\* What the server keeps is what the page's load found, or the last of its
\* saves that was stored.
Known ==
  /\ Form!Agree(form.kept, stored)
  /\ \A i \in DOMAIN saves :
       MineStored(i) /\ (\A j \in DOMAIN saves : j > i => ~MineStored(j))
         => form.kept = saves[i].body

AtRest ==
  /\ form.config = form.kept
  /\ \A i \in DOMAIN saves : Form!Mine(i) /\ Out(i) => saves[i].body = form.config

\* From the last save of the timer on, what was sent is what the page shows.
Saving(l) ==
  /\ Form!Mine(l) /\ saves[l].kind = "auto"
  /\ \A i \in DOMAIN saves : Form!Mine(i) /\ i >= l => saves[i].body = form.config
  /\ \/ ~saves[l].heard \/ form.state = "error"
     \/ \E i \in DOMAIN saves : i >= l /\ MineStored(i)

SaveInv ==
  ~form.raced =>
    /\ form.load \in {"served", "shown"} => Known
    /\ form.load = "shown" => form.timer \/ AtRest \/ \E l \in DOMAIN saves : Saving(l)

FormInv == FormTyped /\ Visits /\ MaskInv /\ SaveInv

LEMMA ModelsTyped ==
  ASSUME NEW config \in ConfigType, NEW i \in DOMAIN config.models
  PROVE  config.models[i] \in ModelType /\ config.models[i].key \in KeyType
<1>1. config.models \in Seq(ModelType)
  BY DEF ConfigType
<1>2. config.models[i] \in ModelType
  BY <1>1
<1> QED BY <1>2 DEF ModelType

LEMMA CarriesUnmasked ==
  ASSUME NEW a, NEW b, Carries(a, b), Unmasked(a)
  PROVE  Unmasked(b)
BY DEF Carries, Unmasked

LEMMA UnmaskedBacked ==
  ASSUME NEW a, NEW b, Unmasked(a)
  PROVE  Backed(a, b) /\ Carries(b, a)
BY DEF Carries, Backed, Unmasked

LEMMA CarriesTrans ==
  ASSUME NEW a, NEW b, NEW c, Carries(a, b), Carries(b, c)
  PROVE  Carries(a, c)
<1> SUFFICES ASSUME NEW j \in DOMAIN c.models, c.models[j].key.masked
             PROVE  \E i \in DOMAIN a.models : /\ a.models[i].alias = c.models[j].alias
                                               /\ a.models[i].key = c.models[j].key
  BY DEF Carries
<1>1. PICK i \in DOMAIN b.models : /\ b.models[i].alias = c.models[j].alias
                                   /\ b.models[i].key = c.models[j].key
  BY DEF Carries
<1>2. b.models[i].key.masked
  BY <1>1
<1>3. PICK k \in DOMAIN a.models : /\ a.models[k].alias = b.models[i].alias
                                   /\ a.models[k].key = b.models[i].key
  BY <1>2 DEF Carries
<1> QED BY <1>1, <1>3

LEMMA CarriesBacked ==
  ASSUME NEW a, NEW b, NEW store, Carries(a, b), Backed(a, store)
  PROVE  Backed(b, store)
<1> SUFFICES ASSUME NEW j \in DOMAIN b.models, b.models[j].key.masked
             PROVE  \E i \in DOMAIN store.models : /\ store.models[i].alias = b.models[j].alias
                                                   /\ Form!Mask(store.models[i].key) = b.models[j].key
  BY DEF Backed
<1>1. PICK i \in DOMAIN a.models : /\ a.models[i].alias = b.models[j].alias
                                   /\ a.models[i].key = b.models[j].key
  BY DEF Carries
<1>2. a.models[i].key.masked
  BY <1>1
<1>3. PICK k \in DOMAIN store.models : /\ store.models[k].alias = a.models[i].alias
                                       /\ Form!Mask(store.models[k].key) = a.models[i].key
  BY <1>2 DEF Backed
<1> QED BY <1>1, <1>3

LEMMA CarriesItself == \A c : Carries(c, c)
BY DEF Carries

\* put_config of what is backed.
LEMMA AppliedBacked ==
  ASSUME NEW config \in ConfigType, NEW current \in ConfigType,
         Backed(config, current), Unmasked(current)
  PROVE  LET new == Form!ApplyIncoming(config, current)
         IN  Unmasked(new) /\ Backed(config, new)
<1> DEFINE new == Form!ApplyIncoming(config, current)
<1>1. /\ DOMAIN new.models = DOMAIN config.models
      /\ \A i \in DOMAIN config.models :
           /\ new.models[i].alias = config.models[i].alias
           /\ new.models[i].key = Form!KeptOrNew(config.models[i], current)
  BY AppliedIs
<1> HIDE DEF new
<1>2. ASSUME NEW i \in DOMAIN config.models
      PROVE  /\ ~new.models[i].key.masked
             /\ config.models[i].key.masked => Form!Mask(new.models[i].key) = config.models[i].key
  <2> DEFINE model == config.models[i]
             key == new.models[i].key
             kept(j) == /\ current.models[j].alias = model.alias
                        /\ model.key \in {Form!NoKey, Form!Mask(current.models[j].key)}
  <2>1. model \in ModelType /\ model.key \in KeyType
    BY ModelsTyped
  <2>2. key = Form!KeptOrNew(model, current)
    BY <1>1
  <2>3. \/ key = model.key /\ \A j \in DOMAIN current.models : ~kept(j)
        \/ \E j \in DOMAIN current.models : kept(j) /\ key = current.models[j].key
    <3> HIDE DEF model, key
    <3> QED BY <2>1, <2>2, KeptOrNewIs
  <2>4. model.key.masked => \E j \in DOMAIN current.models : kept(j)
    BY DEF Backed
  <2>5. CASE key = model.key /\ \A j \in DOMAIN current.models : ~kept(j)
    BY <2>4, <2>5
  <2>6. ASSUME NEW j \in DOMAIN current.models, kept(j), key = current.models[j].key
        PROVE  ~key.masked /\ (model.key.masked => Form!Mask(key) = model.key)
    <3>1. ~key.masked
      BY <2>6 DEF Unmasked
    <3>2. model.key.masked => model.key # Form!NoKey
      BY <2>1, KeyIs
    <3>3. model.key \in {Form!NoKey, Form!Mask(key)}
      BY <2>6
    <3> QED BY <3>1, <3>2, <3>3
  <2> QED BY <2>3, <2>5, <2>6
<1>3. Unmasked(new)
  BY <1>1, <1>2 DEF Unmasked
<1>4. Backed(config, new)
  BY <1>1, <1>2 DEF Backed
<1> QED BY <1>3, <1>4 DEF new

LEMMA ToUiBacked ==
  ASSUME NEW config \in ConfigType
  PROVE  Backed(Form!ToUi(config), config) /\ Form!Agree(Form!ToUi(config), config)
<1> DEFINE new == Form!ToUi(config)
<1>1. /\ DOMAIN new.models = DOMAIN config.models /\ Len(new.models) = Len(config.models)
      /\ new.order = config.order /\ new.rules = config.rules
      /\ \A i \in DOMAIN config.models :
           /\ new.models[i].alias = config.models[i].alias
           /\ new.models[i].key = Form!Mask(config.models[i].key)
  BY ToUiIs
<1> HIDE DEF new
<1>2. \A i \in DOMAIN config.models : config.models[i].key \in KeyType
  BY ModelsTyped
<1>3. Backed(new, config)
  BY <1>1 DEF Backed
<1>4. Form!Agree(new, config)
  BY <1>1, <1>2, KeyIs DEF Form!Agree
<1> QED BY <1>3, <1>4 DEF new

\* What is stored agrees with what was saved.
LEMMA AppliedAgrees ==
  ASSUME NEW config \in ConfigType, NEW current \in ConfigType
  PROVE  Form!Agree(config, Form!ApplyIncoming(config, current))
<1> DEFINE new == Form!ApplyIncoming(config, current)
<1>1. /\ DOMAIN new.models = DOMAIN config.models /\ Len(new.models) = Len(config.models)
      /\ new.order = config.order /\ new.rules = config.rules
      /\ \A i \in DOMAIN config.models :
           /\ new.models[i].alias = config.models[i].alias
           /\ new.models[i].key = Form!KeptOrNew(config.models[i], current)
  BY AppliedIs
<1> HIDE DEF new
<1>2. ASSUME NEW i \in DOMAIN config.models, config.models[i].key # Form!NoKey
      PROVE  Form!Mask(config.models[i].key) = Form!Mask(new.models[i].key)
  <2> DEFINE model == config.models[i]
             key == new.models[i].key
             kept(j) == /\ current.models[j].alias = model.alias
                        /\ model.key \in {Form!NoKey, Form!Mask(current.models[j].key)}
  <2>1. model \in ModelType /\ model.key \in KeyType
    BY ModelsTyped
  <2>2. key = Form!KeptOrNew(model, current)
    BY <1>1
  <2>3. key \in KeyType
        /\ \/ key = model.key
           \/ \E j \in DOMAIN current.models : kept(j) /\ key = current.models[j].key
    <3> HIDE DEF model, key
    <3> QED BY <2>1, <2>2, KeptOrNewIs
  <2>4. key = model.key \/ model.key = Form!Mask(key)
    BY <1>2, <2>3
  <2> QED BY <2>3, <2>4, KeyIs
<1> QED BY <1>1, <1>2 DEF Form!Agree, new

-----------------------------------------------------------------------------
(* The settings page: the kinds of steps.                                  *)

LEMMA FormFacts ==
  ASSUME FormTyped
  PROVE  /\ form \in FormType /\ form.config \in ConfigType /\ form.lastSaved \in ConfigType \cup {None}
         /\ form.visit \in Nat /\ DialogOK(form) /\ used \in UsedType /\ used.served \in Nat
         /\ saves \in Seq(SaveType) /\ stored \in ConfigType
         /\ form.answer \in ConfigType \cup {None} /\ form.kept \in ConfigType \cup {None}
         /\ \A i \in DOMAIN saves :
              /\ saves[i] \in SaveType /\ saves[i].body \in ConfigType /\ saves[i].visit \in Nat
              /\ i \in Nat
<1>1. \A i \in DOMAIN saves : saves[i] \in SaveType
  BY DEF FormTyped
<1> QED BY <1>1 DEF FormTyped, FormType, SaveType, UsedType

LEMMA NoneIsNone == None \notin ConfigType
BY ConfigIs, NoneIsNoConfiguration

\* The page is looked at, not edited.
Looked ==
  /\ form'.visit = form.visit /\ form'.config = form.config /\ form'.lastSaved = form.lastSaved
  /\ form'.load = form.load /\ form'.answer = form.answer /\ form'.kept = form.kept
  /\ form'.timer = form.timer /\ form'.state = form.state
  /\ form'.raced = form.raced /\ form'.tainted = form.tainted
  /\ used'.served = used.served
  /\ UNCHANGED <<saves, stored>>

LEMMA LookKeeps ==
  ASSUME FormInv, Looked, FormTyped', form'.load \in {"asked", "served"} => ~form'.importing
  PROVE  FormInv'
<1>1. saves' = saves
  BY DEF Looked
<1>2. \A i \in DOMAIN saves : /\ Free(i)' <=> Free(i)
                              /\ Form!Mine(i)' <=> Form!Mine(i)
                              /\ MineStored(i)' <=> MineStored(i)
                              /\ Out(i)' <=> Out(i)
                              /\ Saving(i)' <=> Saving(i)
  BY DEF Looked, Free, Ahead, Out, Stored, MineStored, Form!Mine, Saving
<1>3. MaskInv'
  BY <1>1, <1>2 DEF FormInv, Looked, MaskInv
<1>4. Visits'
  BY <1>1, <1>2 DEF FormInv, Looked, Visits
<1>5. (Known <=> Known') /\ (AtRest <=> AtRest')
  BY <1>1, <1>2 DEF Looked, Known, AtRest
<1> QED BY <1>1, <1>2, <1>3, <1>4, <1>5 DEF FormInv, SaveInv, Looked

\* The page is edited.
LEMMA EditKeeps ==
  ASSUME FormInv, FormTyped', NEW config \in ConfigType, form.load \in {"shown", "failed"},
         LET next == Form!Edited(config)
         IN  /\ form'.visit = next.visit /\ form'.config = next.config /\ form'.load = next.load
             /\ form'.lastSaved = next.lastSaved /\ form'.timer = next.timer
             /\ form'.kept = next.kept
             /\ form'.state = next.state /\ form'.raced = next.raced
             /\ next.tainted => form'.tainted,
         ~form'.tainted => Carries(form.config, config),
         used'.served = used.served, UNCHANGED <<saves, stored>>
  PROVE  FormInv'
<1> DEFINE next == Form!Edited(config)
           back == form.lastSaved \in {None, config}
           race == Form!TakenBack(config)
<1>1. /\ next \in FormType /\ Alike(next, form) /\ next.config = config
      /\ next.timer <=> ~back
      /\ next.state = IF back THEN form.state ELSE "saving"
      /\ next.raced <=> form.raced \/ race
  BY FormEditedIs DEF FormInv
<1>2. /\ form'.visit = next.visit /\ form'.config = next.config /\ form'.load = next.load
      /\ form'.lastSaved = next.lastSaved /\ form'.timer = next.timer /\ form'.kept = next.kept
      /\ form'.state = next.state /\ form'.raced = next.raced
      /\ next.tainted => form'.tainted
      /\ saves' = saves /\ stored' = stored /\ used'.served = used.served
  OBVIOUS
<1> HIDE DEF next
<1>3. /\ form'.visit = form.visit /\ form'.config = config /\ form'.load = form.load
      /\ form'.lastSaved = form.lastSaved /\ (form'.timer <=> ~back) /\ form'.kept = form.kept
      /\ form'.state = IF back THEN form.state ELSE "saving"
      /\ form'.raced <=> form.raced \/ race
      /\ form.tainted => form'.tainted
  BY <1>1, <1>2 DEF Alike
<1>4. \A i \in DOMAIN saves : /\ Free(i)' <=> Free(i)
                              /\ Form!Mine(i)' <=> Form!Mine(i)
                              /\ MineStored(i)' <=> MineStored(i)
                              /\ Out(i)' <=> Out(i)
  BY <1>2, <1>3 DEF Free, Ahead, Out, Stored, MineStored, Form!Mine
<1> HIDE DEF race, back
<1>5. MaskInv'
  <2> SUFFICES ASSUME ~form'.tainted PROVE MaskInv'
    BY DEF MaskInv
  <2>1. ~form.tainted /\ Carries(form.config, config)
    BY <1>3
  <2>2. form.load = "shown" => Backed(config, stored)
    BY <2>1, CarriesBacked DEF FormInv, MaskInv
  <2>3. form.load # "shown" => Unmasked(config)
    BY <2>1, CarriesUnmasked DEF FormInv, MaskInv
  <2>4. \A i \in DOMAIN saves : Form!Mine(i) => Carries(saves[i].body, config)
    BY <2>1, CarriesTrans DEF FormInv, MaskInv
  <2>5. /\ Unmasked(stored)
        /\ \A i \in DOMAIN saves : Free(i) => Backed(saves[i].body, stored)
        /\ \A i \in DOMAIN saves : saves[i].visit > used.served => Unmasked(saves[i].body)
        /\ \A i, j \in DOMAIN saves : i < j /\ saves[i].visit = saves[j].visit =>
             Carries(saves[i].body, saves[j].body)
    BY <2>1 DEF FormInv, MaskInv
  <2>6. form'.load # "served"
    BY <1>3
  <2> QED BY <1>2, <1>3, <1>4, <2>2, <2>3, <2>4, <2>5, <2>6 DEF MaskInv
<1>6. Visits'
  BY <1>2, <1>3, <1>4 DEF FormInv, Visits
<1>7. ASSUME form'.load = "shown", ~form'.raced
      PROVE  Known' /\ (form'.timer \/ AtRest')
  <2>1. ~form.raced /\ ~race /\ form.load = "shown"
    BY <1>3, <1>7
  <2>2. Known
    BY <2>1 DEF FormInv, SaveInv
  <2>3. Known'
    BY <1>2, <1>3, <1>4, <2>2 DEF Known
  <2>4. ~form'.timer => form.lastSaved = config
    BY <1>3, <2>1 DEF FormInv, Visits, back
  <2>5. ~form'.timer => /\ form.kept = config
                        /\ \A i \in DOMAIN saves : Form!Mine(i) /\ Out(i) => saves[i].body = config
    BY <2>1, <2>4 DEF race, Form!TakenBack, Out
  <2>6. ~form'.timer => AtRest'
    BY <1>2, <1>3, <1>4, <2>5 DEF AtRest
  <2> QED BY <2>3, <2>6
<1>8. SaveInv'
  BY <1>3, <1>7 DEF SaveInv
<1> QED BY <1>5, <1>6, <1>8 DEF FormInv

\* What is on the page is sent.
LEMMA SendKeeps ==
  ASSUME FormInv, FormTyped', form.load \in {"shown", "failed"}, NEW kind, NEW timer \in BOOLEAN,
         timer # form.timer => kind = "auto",
         saves' = Append(saves, [visit |-> form.visit, kind |-> kind, body |-> form.config,
                                 at |-> "sent", heard |-> FALSE]),
         stored' = stored, used' = used,
         /\ form'.visit = form.visit /\ form'.config = form.config /\ form'.load = form.load
         /\ form'.lastSaved = form.lastSaved /\ form'.timer = timer /\ form'.state = form.state
         /\ form'.kept = form.kept /\ form'.raced = form.raced /\ form'.tainted = form.tainted
  PROVE  FormInv'
<1> DEFINE new == [visit |-> form.visit, kind |-> kind, body |-> form.config, at |-> "sent",
                   heard |-> FALSE]
<1> PICK n : n = Len(saves) + 1
  OBVIOUS
<1>1. /\ DOMAIN saves' = DOMAIN saves \cup {n} /\ saves'[n] = new /\ n \notin DOMAIN saves
      /\ \A m \in DOMAIN saves : saves'[m] = saves[m] /\ m \in Nat /\ m < n
      /\ n \in Nat
  <2>1. saves \in Seq(SaveType)
    BY FormFacts DEF FormInv
  <2>2. Len(saves) \in Nat /\ DOMAIN saves = 1..Len(saves)
    BY <2>1
  <2>3. DOMAIN saves' = 1..n /\ saves'[n] = new /\ \A m \in 1..Len(saves) : saves'[m] = saves[m]
    BY <2>1
  <2>4. 1..n = 1..Len(saves) \cup {n} /\ n \notin 1..Len(saves) /\ n \in Nat
        /\ \A m \in 1..Len(saves) : m \in Nat /\ m < n
    BY <2>2
  <2> HIDE DEF new
  <2> QED BY <2>2, <2>3, <2>4
<1>2. /\ new.visit = form.visit /\ new.kind = kind /\ new.body = form.config /\ new.at = "sent"
      /\ ~new.heard
  OBVIOUS
<1> HIDE DEF new
<1>3. /\ Out(n)' /\ ~Stored(n)' /\ Form!Mine(n)' /\ ~MineStored(n)'
      /\ \A i \in DOMAIN saves : /\ Out(i)' <=> Out(i)
                                 /\ Stored(i)' <=> Stored(i)
                                 /\ Form!Mine(i)' <=> Form!Mine(i)
                                 /\ MineStored(i)' <=> MineStored(i)
  BY <1>1, <1>2 DEF Out, Stored, MineStored, Form!Mine
<1>4. \A i \in DOMAIN saves : Free(i)' => Free(i)
  BY <1>1, <1>3 DEF Free, Ahead
<1>5. form.visit \in Nat /\ used.served \in Nat /\ \A i \in DOMAIN saves : saves[i].visit \in Nat
  BY FormFacts DEF FormInv
<1>6. MaskInv'
  <2> SUFFICES ASSUME ~form'.tainted PROVE MaskInv'
    BY DEF MaskInv
  <2>1. /\ Unmasked(stored)
        /\ form.load = "shown" => Backed(form.config, stored)
        /\ form.load # "shown" => Unmasked(form.config)
        /\ \A i \in DOMAIN saves : Free(i) => Backed(saves[i].body, stored)
        /\ \A i \in DOMAIN saves : saves[i].visit > used.served => Unmasked(saves[i].body)
        /\ \A i \in DOMAIN saves : Form!Mine(i) => Carries(saves[i].body, form.config)
        /\ \A i, j \in DOMAIN saves : i < j /\ saves[i].visit = saves[j].visit =>
             Carries(saves[i].body, saves[j].body)
    BY DEF FormInv, MaskInv
  <2>2. Backed(form.config, stored)
    BY <2>1, UnmaskedBacked
  <2>3. form.visit > used.served => Unmasked(form.config)
    BY <1>5, <2>1 DEF FormInv, Visits
  <2>4. \A i \in DOMAIN saves' : Free(i)' => Backed(saves'[i].body, stored)
    BY <1>1, <1>2, <1>4, <2>1, <2>2
  <2>5. \A i \in DOMAIN saves' : saves'[i].visit > used.served => Unmasked(saves'[i].body)
    BY <1>1, <1>2, <2>1, <2>3
  <2>6. \A i \in DOMAIN saves' : Form!Mine(i)' => Carries(saves'[i].body, form.config)
    BY <1>1, <1>2, <1>3, <2>1, CarriesItself
  <2>7. \A i, j \in DOMAIN saves' : i < j /\ saves'[i].visit = saves'[j].visit =>
             Carries(saves'[i].body, saves'[j].body)
    <3> SUFFICES ASSUME NEW i \in DOMAIN saves', NEW j \in DOMAIN saves', i < j,
                        saves'[i].visit = saves'[j].visit
                 PROVE  Carries(saves'[i].body, saves'[j].body)
      OBVIOUS
    <3>1. i \in DOMAIN saves
      BY <1>1
    <3>2. CASE j \in DOMAIN saves
      BY <1>1, <2>1, <3>1, <3>2
    <3>3. CASE j = n
      <4>1. Form!Mine(i)
        BY <1>1, <1>2, <3>1, <3>3 DEF Form!Mine
      <4> QED BY <1>1, <1>2, <2>1, <3>1, <3>3, <4>1
    <3> QED BY <1>1, <3>2, <3>3
  <2> QED BY <2>1, <2>4, <2>5, <2>6, <2>7 DEF MaskInv
<1>7. Visits'
  BY <1>1, <1>2, <1>3, <1>5 DEF FormInv, Visits
<1>8. ASSUME form'.load = "shown", ~form'.raced
      PROVE  Known' /\ (form'.timer \/ AtRest' \/ \E l \in DOMAIN saves' : Saving(l)')
  <2>1. Known /\ (form.timer \/ AtRest \/ \E l \in DOMAIN saves : Saving(l))
    BY <1>8 DEF FormInv, SaveInv
  <2>2. Known'
    BY <1>1, <1>3, <2>1 DEF Known
  <2>3. CASE timer # form.timer
    <3>1. Saving(n)'
      BY <1>1, <1>2, <1>3, <2>3 DEF Saving
    <3> QED BY <1>1, <2>2, <3>1
  <2>4. CASE timer = form.timer /\ AtRest
    <3>1. AtRest'
      BY <1>1, <1>2, <1>3, <2>4 DEF AtRest
    <3> QED BY <2>2, <3>1
  <2>5. ASSUME NEW l \in DOMAIN saves, Saving(l) PROVE Saving(l)'
    BY <1>1, <1>2, <1>3, <2>5 DEF Saving
  <2> QED BY <1>1, <2>1, <2>2, <2>3, <2>4, <2>5
<1>9. SaveInv'
  BY <1>8 DEF SaveInv
<1> QED BY <1>6, <1>7, <1>9 DEF FormInv

\* What becomes of a save where it stands.
LEMMA SaveChanged ==
  ASSUME FormTyped, NEW i \in DOMAIN saves,
         NEW at \in {"sent", "stored", "refused"}, NEW heard \in BOOLEAN,
         saves' = [saves EXCEPT ![i] = [saves[i] EXCEPT !.at = at, !.heard = heard]]
  PROVE  /\ saves' \in Seq(SaveType) /\ DOMAIN saves' = DOMAIN saves
         /\ saves'[i].at = at /\ saves'[i].heard = heard
         /\ \A k \in DOMAIN saves : /\ saves'[k].visit = saves[k].visit
                                    /\ saves'[k].kind = saves[k].kind /\ saves'[k].body = saves[k].body
                                    /\ k # i => saves'[k] = saves[k]
<1>1. /\ saves \in Seq(SaveType) /\ \A k \in DOMAIN saves : saves[k] \in SaveType
  BY FormFacts
<1> DEFINE new == [saves[i] EXCEPT !.at = at, !.heard = heard]
<1>2. /\ new \in SaveType /\ new.visit = saves[i].visit /\ new.kind = saves[i].kind
      /\ new.body = saves[i].body /\ new.at = at /\ new.heard = heard
  BY <1>1 DEF SaveType
<1>3. saves' = [saves EXCEPT ![i] = new]
  OBVIOUS
<1> HIDE DEF new
<1>4. /\ saves' \in Seq(SaveType) /\ DOMAIN saves' = DOMAIN saves /\ saves'[i] = new
      /\ \A k \in DOMAIN saves : k # i => saves'[k] = saves[k]
  BY <1>1, <1>2, <1>3
<1> QED BY <1>2, <1>4

\* A save is refused, or lost on its way.
LEMMA RefusedKeeps ==
  ASSUME FormInv, NEW i \in DOMAIN saves, saves[i].at = "sent",
         saves' = [saves EXCEPT ![i].at = "refused"], UNCHANGED <<form, used, stored>>
  PROVE  FormInv'
<1>1. /\ saves \in Seq(SaveType) /\ saves[i] \in SaveType
  BY FormFacts DEF FormInv
<1> DEFINE heard == saves[i].heard
<1>2. heard \in BOOLEAN
      /\ saves' = [saves EXCEPT ![i] = [saves[i] EXCEPT !.at = "refused", !.heard = heard]]
  BY <1>1 DEF SaveType
<1> HIDE DEF heard
<1>3. /\ saves' \in Seq(SaveType) /\ DOMAIN saves' = DOMAIN saves
      /\ saves'[i].at = "refused" /\ saves'[i].heard = heard
      /\ \A k \in DOMAIN saves : /\ saves'[k].visit = saves[k].visit
                                 /\ saves'[k].kind = saves[k].kind /\ saves'[k].body = saves[k].body
                                 /\ k # i => saves'[k] = saves[k]
  BY <1>2, SaveChanged DEF FormInv
<1>4. \A k \in DOMAIN saves : /\ Out(k)' => Out(k)
                              /\ Stored(k)' <=> Stored(k)
                              /\ Form!Mine(k)' <=> Form!Mine(k)
                              /\ MineStored(k)' <=> MineStored(k)
                              /\ saves'[k].heard = saves[k].heard
  BY <1>3 DEF Out, Stored, MineStored, Form!Mine, heard
<1>5. \A k \in DOMAIN saves : Free(k)' => Free(k)
  BY <1>3, <1>4 DEF Free, Ahead
<1>6. FormTyped'
  BY <1>3 DEF FormInv, FormTyped, DialogOK
<1>7. MaskInv'
  BY <1>3, <1>4, <1>5 DEF FormInv, MaskInv
<1>8. Visits'
  BY <1>3, <1>4 DEF FormInv, Visits
<1>9. (Known => Known') /\ (AtRest => AtRest') /\ \A l \in DOMAIN saves : Saving(l) => Saving(l)'
  BY <1>3, <1>4 DEF Known, AtRest, Saving
<1> QED BY <1>3, <1>6, <1>7, <1>8, <1>9 DEF FormInv, SaveInv

\* put_config of a valid configuration.
LEMMA PutKeeps ==
  ASSUME FormInv, NEW i \in DOMAIN saves, Form!Put(i), Form!Valid(saves[i].body)
  PROVE  FormInv'
<1> DEFINE mine == Form!Mine(i)
           overtaken == \E j \in Form!After(i) : saves[j].at = "stored"
           race == form.raced \/ IF mine THEN overtaken ELSE form.load # "asked"
           taint == form.tainted \/ overtaken \/ used.served > saves[i].visit
           kept == IF mine THEN saves[i].body ELSE form.kept
           heard == saves[i].heard
<1>1. /\ saves \in Seq(SaveType) /\ saves[i] \in SaveType /\ form \in FormType /\ DialogOK(form)
      /\ saves[i].body \in ConfigType /\ stored \in ConfigType /\ form.visit \in Nat
      /\ used.served \in Nat /\ \A k \in DOMAIN saves : saves[k].visit \in Nat /\ k \in Nat
      /\ form.kept \in ConfigType \cup {None}
  BY FormFacts DEF FormInv
<1>2. /\ saves[i].at = "sent" /\ stored' = Form!ApplyIncoming(saves[i].body, stored)
      /\ saves' = [saves EXCEPT ![i].at = "stored"] /\ used' = used
      /\ form' = [form EXCEPT !.kept = kept, !.raced = race, !.tainted = taint]
  BY DEF Form!Put
<1>3. overtaken <=> ~Ahead(i)
  BY DEF Form!After, Ahead, Stored
<1>4. /\ race \in BOOLEAN /\ taint \in BOOLEAN /\ kept \in ConfigType \cup {None}
      /\ race <=> form.raced \/ IF mine THEN ~Ahead(i) ELSE form.load # "asked"
      /\ taint <=> form.tainted \/ ~Ahead(i) \/ used.served > saves[i].visit
      /\ kept = IF mine THEN saves[i].body ELSE form.kept
  BY <1>1, <1>3 DEF FormType
<1>5. heard \in BOOLEAN
      /\ saves' = [saves EXCEPT ![i] = [saves[i] EXCEPT !.at = "stored", !.heard = heard]]
  BY <1>1, <1>2 DEF SaveType
<1> HIDE DEF race, taint, kept, heard, overtaken
<1>6. /\ form' \in FormType /\ form'.visit = form.visit /\ form'.config = form.config
      /\ form'.load = form.load /\ form'.answer = form.answer /\ form'.lastSaved = form.lastSaved
      /\ form'.state = form.state /\ form'.timer = form.timer /\ form'.dialog = form.dialog
      /\ form'.importing = form.importing /\ form'.kept = kept
      /\ form'.raced = race /\ form'.tainted = taint
  <2>1. race \in BOOLEAN /\ taint \in BOOLEAN /\ kept \in ConfigType \cup {None}
    BY <1>4
  <2> QED BY <1>1, <1>2, <2>1 DEF FormType
<1>7. /\ saves' \in Seq(SaveType) /\ DOMAIN saves' = DOMAIN saves
      /\ saves'[i].at = "stored" /\ saves'[i].heard = heard
      /\ \A k \in DOMAIN saves : /\ saves'[k].visit = saves[k].visit
                                 /\ saves'[k].kind = saves[k].kind /\ saves'[k].body = saves[k].body
                                 /\ k # i => saves'[k] = saves[k]
  BY <1>5, SaveChanged DEF FormInv
<1>8. /\ \A k \in DOMAIN saves : /\ Out(k)' <=> Out(k) /\ k # i
                                 /\ Stored(k)' <=> Stored(k) \/ k = i
                                 /\ Form!Mine(k)' <=> Form!Mine(k)
                                 /\ MineStored(k)' <=> MineStored(k) \/ (k = i /\ mine)
                                 /\ saves'[k].heard = saves[k].heard
      /\ Out(i)
  BY <1>2, <1>6, <1>7 DEF Out, Stored, MineStored, Form!Mine, heard
<1>9. \A k \in DOMAIN saves : Free(k)' => Free(k) /\ k > i
  BY <1>1, <1>2, <1>7, <1>8 DEF Free, Ahead
<1>10. stored' \in ConfigType /\ Form!Agree(saves[i].body, stored')
  BY <1>1, <1>2, AppliedIs, AppliedAgrees
<1>11. FormTyped'
  BY <1>2, <1>6, <1>7, <1>10 DEF FormInv, FormTyped, DialogOK
<1>12. Visits'
  <2>1. form.load = "served" => kept = form.kept
    BY <1>4 DEF FormInv, Visits
  <2> QED BY <1>2, <1>6, <1>7, <1>8, <2>1 DEF FormInv, Visits
<1>13. MaskInv'
  <2> SUFFICES ASSUME ~form'.tainted PROVE MaskInv'
    BY DEF MaskInv
  <2>1. ~form.tainted /\ Ahead(i) /\ used.served <= saves[i].visit
    BY <1>1, <1>4, <1>6
  <2>2. Free(i)
    BY <1>8, <2>1 DEF Free
  <2>3. /\ Unmasked(stored)
        /\ form.load # "shown" => Unmasked(form.config)
        /\ Backed(saves[i].body, stored)
        /\ \A k \in DOMAIN saves : saves[k].visit > used.served => Unmasked(saves[k].body)
        /\ \A k \in DOMAIN saves : Form!Mine(k) => Carries(saves[k].body, form.config)
        /\ \A k, j \in DOMAIN saves : k < j /\ saves[k].visit = saves[j].visit =>
             Carries(saves[k].body, saves[j].body)
    BY <2>1, <2>2 DEF FormInv, MaskInv
  <2>4. Unmasked(stored') /\ Backed(saves[i].body, stored')
    BY <1>1, <1>2, <2>3, AppliedBacked
  <2>5. form.load \in {"served", "shown"} => mine
    BY <1>1, <2>1 DEF FormInv, Visits, Form!Mine
  <2>6. form.load # "served"
    BY <2>5 DEF FormInv, Visits
  <2>7. form.load = "shown" => Backed(form.config, stored')
    BY <2>3, <2>4, <2>5, CarriesBacked
  <2>8. ASSUME NEW k \in DOMAIN saves, Free(k)' PROVE Backed(saves[k].body, stored')
    <3>1. k > i /\ saves[i].visit <= saves[k].visit
      BY <1>1, <1>9, <2>8 DEF FormInv, Visits
    <3>2. CASE saves[i].visit = saves[k].visit
      <4>1. Carries(saves[i].body, saves[k].body)
        BY <1>1, <2>3, <3>1, <3>2
      <4> QED BY <2>4, <4>1, CarriesBacked
    <3>3. CASE saves[i].visit # saves[k].visit
      <4>1. Unmasked(saves[k].body)
        BY <1>1, <2>1, <2>3, <3>1, <3>3
      <4> QED BY <4>1, UnmaskedBacked
    <3> QED BY <3>2, <3>3
  <2> QED BY <1>2, <1>6, <1>7, <1>8, <2>3, <2>4, <2>6, <2>7, <2>8 DEF MaskInv
<1>14. ASSUME ~form'.raced PROVE SaveInv'
  <2>1. ~form.raced /\ IF mine THEN Ahead(i) ELSE form.load = "asked"
    BY <1>4, <1>6, <1>14
  <2>2. CASE ~mine
    BY <1>6, <2>1, <2>2 DEF SaveInv
  <2>3. CASE mine
    <3>1. kept = saves[i].body
      BY <1>4, <2>3
    <3>2. ASSUME NEW k \in DOMAIN saves, MineStored(k)',
                 \A j \in DOMAIN saves : j > k => ~MineStored(j)'
          PROVE  saves[k].body = kept
      <4>1. MineStored(i)'
        BY <1>8, <2>3
      <4>2. ~(i > k)
        BY <3>2, <4>1
      <4>3. k > i => ~Stored(k)
        BY <2>1, <2>3 DEF Ahead
      <4>4. k = i
        BY <1>1, <1>8, <3>2, <4>2, <4>3 DEF MineStored
      <4> QED BY <3>1, <4>4
    <3>3. Known'
      <4>1. Form!Agree(kept, stored')
        BY <1>10, <3>1
      <4> QED BY <1>6, <1>7, <3>2, <4>1 DEF Known
    <3>4. form.load = "shown" => form.timer \/ AtRest \/ \E l \in DOMAIN saves : Saving(l)
      BY <2>1 DEF FormInv, SaveInv
    <3>5. AtRest => AtRest'
      BY <1>6, <1>7, <1>8, <2>3, <3>1 DEF AtRest
    <3>6. ASSUME NEW l \in DOMAIN saves, Saving(l) PROVE Saving(l)'
      <4>1. /\ Form!Mine(l)' /\ saves'[l].kind = "auto"
            /\ \A k \in DOMAIN saves' : Form!Mine(k)' /\ k >= l => saves'[k].body = form'.config
        BY <1>6, <1>7, <1>8, <3>6 DEF Saving
      <4>2. CASE ~saves[l].heard \/ form.state = "error"
        BY <1>6, <1>8, <4>1, <4>2 DEF Saving
      <4>3. ASSUME NEW k \in DOMAIN saves, k >= l, MineStored(k) PROVE Saving(l)'
        BY <1>7, <1>8, <4>1, <4>3 DEF Saving
      <4> QED BY <3>6, <4>2, <4>3 DEF Saving
    <3> QED BY <1>6, <1>7, <3>3, <3>4, <3>5, <3>6 DEF SaveInv
  <2> QED BY <2>2, <2>3
<1>15. SaveInv'
  BY <1>14 DEF SaveInv
<1> QED BY <1>11, <1>12, <1>13, <1>15 DEF FormInv

\* The answer of a save, or its loss.
LEMMA HearsKeeps ==
  ASSUME FormInv, NEW i \in DOMAIN saves, NEW good, Form!Hears(i, good),
         good \in BOOLEAN, good => Stored(i)
  PROVE  FormInv'
<1> DEFINE late == \E j \in Form!After(i) : Form!Mine(j) /\ saves[j].heard
           race == form.raced \/ late
           lastSaved == IF good THEN saves[i].body ELSE form.lastSaved
           state == IF good THEN "saved" ELSE IF saves[i].kind = "auto" THEN "error" ELSE form.state
           at == saves[i].at
<1>1. /\ saves \in Seq(SaveType) /\ saves[i] \in SaveType /\ form \in FormType /\ DialogOK(form)
      /\ saves[i].body \in ConfigType /\ form.lastSaved \in ConfigType \cup {None}
      /\ \A k \in DOMAIN saves : k \in Nat
  BY FormFacts DEF FormInv
<1>2. /\ Form!Mine(i) /\ ~saves[i].heard /\ saves' = [saves EXCEPT ![i].heard = TRUE]
      /\ form' = [form EXCEPT !.lastSaved = lastSaved, !.state = state, !.raced = race]
      /\ stored' = stored /\ used' = used
  BY DEF Form!Hears
<1>3. late <=> \E j \in DOMAIN saves : j > i /\ Form!Mine(j) /\ saves[j].heard
  BY DEF Form!After
<1>4. /\ race \in BOOLEAN /\ lastSaved \in ConfigType \cup {None}
      /\ state \in {"idle", "saving", "saved", "error"}
      /\ race <=> form.raced \/ late
      /\ lastSaved = IF good THEN saves[i].body ELSE form.lastSaved
      /\ state = IF good THEN "saved" ELSE IF saves[i].kind = "auto" THEN "error" ELSE form.state
  BY <1>1 DEF FormType
<1>5. /\ at \in {"sent", "stored", "refused"}
      /\ saves' = [saves EXCEPT ![i] = [saves[i] EXCEPT !.at = at, !.heard = TRUE]]
  BY <1>1, <1>2 DEF SaveType
<1> HIDE DEF late, race, lastSaved, state, at
<1>6. /\ form' \in FormType /\ form'.visit = form.visit /\ form'.config = form.config
      /\ form'.load = form.load /\ form'.answer = form.answer /\ form'.lastSaved = lastSaved
      /\ form'.state = state /\ form'.timer = form.timer /\ form'.dialog = form.dialog
      /\ form'.importing = form.importing /\ form'.kept = form.kept
      /\ form'.raced = race /\ form'.tainted = form.tainted
  <2>1. race \in BOOLEAN /\ lastSaved \in ConfigType \cup {None}
        /\ state \in {"idle", "saving", "saved", "error"}
    BY <1>4
  <2> QED BY <1>1, <1>2, <2>1 DEF FormType
<1>7. /\ saves' \in Seq(SaveType) /\ DOMAIN saves' = DOMAIN saves
      /\ saves'[i].at = at /\ saves'[i].heard = TRUE
      /\ \A k \in DOMAIN saves : /\ saves'[k].visit = saves[k].visit
                                 /\ saves'[k].kind = saves[k].kind /\ saves'[k].body = saves[k].body
                                 /\ k # i => saves'[k] = saves[k]
  BY <1>5, SaveChanged DEF FormInv
<1>8. \A k \in DOMAIN saves : /\ Out(k)' <=> Out(k)
                              /\ Stored(k)' <=> Stored(k)
                              /\ Form!Mine(k)' <=> Form!Mine(k)
                              /\ MineStored(k)' <=> MineStored(k)
  BY <1>6, <1>7 DEF Out, Stored, MineStored, Form!Mine, at
<1>9. \A k \in DOMAIN saves : Free(k)' => Free(k)
  BY <1>2, <1>7, <1>8 DEF Free, Ahead
<1>10. FormTyped'
  BY <1>1, <1>2, <1>6, <1>7 DEF FormInv, FormTyped, DialogOK
<1>11. MaskInv'
  BY <1>2, <1>6, <1>7, <1>8, <1>9 DEF FormInv, MaskInv
<1>12. Visits'
  <2>1. form.load = "shown" => lastSaved # None
    BY <1>1, <1>4, NoneIsNone DEF FormInv, Visits
  <2> QED BY <1>2, <1>6, <1>7, <1>8, <2>1 DEF FormInv, Visits
<1>13. (Known => Known') /\ (AtRest => AtRest')
  BY <1>2, <1>6, <1>7, <1>8 DEF Known, AtRest
<1>14. ASSUME ~form'.raced, NEW l \in DOMAIN saves, Saving(l) PROVE Saving(l)'
  <2>1. ~late
    BY <1>4, <1>6, <1>14
  <2>2. /\ Form!Mine(l)' /\ saves'[l].kind = "auto"
        /\ \A k \in DOMAIN saves' : Form!Mine(k)' /\ k >= l => saves'[k].body = form'.config
    BY <1>6, <1>7, <1>8, <1>14 DEF Saving
  <2>3. ASSUME NEW k \in DOMAIN saves, k >= l, MineStored(k) PROVE Saving(l)'
    BY <1>7, <1>8, <2>2, <2>3 DEF Saving
  <2>4. CASE ~saves[l].heard /\ l # i
    BY <1>7, <2>2, <2>4 DEF Saving
  <2>5. CASE l = i /\ good
    <3>1. MineStored(i)
      BY <1>2, <2>5 DEF MineStored
    <3> QED BY <1>1, <2>3, <2>5, <3>1
  <2>6. CASE l = i /\ ~good
    <3>1. state = "error"
      BY <1>4, <1>14, <2>6 DEF Saving
    <3> QED BY <1>6, <2>2, <3>1 DEF Saving
  <2>7. CASE saves[l].heard /\ form.state = "error"
    <3>1. l # i /\ ~(l > i)
      BY <1>2, <1>3, <1>14, <2>1, <2>7 DEF Saving
    <3>2. i >= l
      BY <1>1, <3>1
    <3>3. CASE good
      <4>1. MineStored(i)
        BY <1>2, <3>3 DEF MineStored
      <4> QED BY <2>3, <3>2, <4>1
    <3>4. CASE ~good
      <4>1. state = "error"
        BY <1>4, <2>7, <3>4
      <4> QED BY <1>6, <2>2, <4>1 DEF Saving
    <3> QED BY <3>3, <3>4
  <2> QED BY <1>14, <2>3, <2>4, <2>5, <2>6, <2>7 DEF Saving
<1>15. form.raced => form'.raced
  BY <1>4, <1>6
<1>16. SaveInv'
  BY <1>6, <1>7, <1>13, <1>14, <1>15 DEF FormInv, SaveInv
<1> QED BY <1>10, <1>11, <1>12, <1>16 DEF FormInv

LEMMA AnsweredKeeps ==
  ASSUME FormInv, NEW i \in DOMAIN saves, Form!Answered(i) \/ Form!AnswerLost(i)
  PROVE  FormInv'
<1>1. CASE Form!Answered(i)
  <2>1. Form!Hears(i, Stored(i))
    BY <1>1 DEF Form!Answered, Stored
  <2>2. Stored(i) \in BOOLEAN
    BY DEF Stored
  <2> QED BY <2>1, <2>2, HearsKeeps
<1>2. CASE Form!AnswerLost(i)
  BY <1>2, HearsKeeps DEF Form!AnswerLost
<1> QED BY <1>1, <1>2

\* get_config.
LEMMA ServeKeeps ==
  ASSUME FormInv, Form!Serve
  PROVE  FormInv'
<1> DEFINE ui == Form!ToUi(stored)
<1>1. /\ saves \in Seq(SaveType) /\ form \in FormType /\ stored \in ConfigType /\ DialogOK(form)
      /\ used \in UsedType /\ form.visit \in Nat /\ used.served \in Nat
      /\ \A k \in DOMAIN saves : saves[k].visit \in Nat
  BY FormFacts DEF FormInv
<1>2. /\ form.load = "asked" /\ used' = [used EXCEPT !.served = form.visit]
      /\ form' = [form EXCEPT !.load = "served", !.answer = ui, !.kept = ui]
      /\ saves' = saves /\ stored' = stored
  BY DEF Form!Serve
<1>3. ui \in ConfigType /\ Backed(ui, stored) /\ Form!Agree(ui, stored) /\ ui # None
  BY <1>1, ToUiIs, ToUiBacked, NoneIsNone
<1> HIDE DEF ui
<1>4. /\ form' \in FormType /\ form'.load = "served" /\ form'.visit = form.visit
      /\ form'.answer = ui /\ form'.kept = ui /\ form'.timer = form.timer
      /\ form'.importing = form.importing /\ form'.raced = form.raced
      /\ form'.dialog = form.dialog /\ form'.config = form.config /\ form'.tainted = form.tainted
  BY <1>1, <1>2, <1>3 DEF FormType
<1>5. used' \in UsedType /\ used'.served = form.visit /\ used.served <= form.visit
  BY <1>1, <1>2 DEF UsedType, FormType, FormInv, Visits
<1>6. FormTyped'
  BY <1>1, <1>2, <1>4, <1>5 DEF FormInv, FormTyped, DialogOK
<1>7. \A k \in DOMAIN saves : /\ Free(k)' => Free(k)
                              /\ ~Form!Mine(k)' /\ ~MineStored(k)'
  BY <1>1, <1>2, <1>4, <1>5 DEF Free, Ahead, Out, Stored, MineStored, Form!Mine, FormInv, Visits
<1>8. MaskInv'
  <2> SUFFICES ASSUME ~form.tainted PROVE MaskInv'
    BY <1>4 DEF MaskInv
  <2>1. /\ Unmasked(stored) /\ Unmasked(form.config)
        /\ \A i \in DOMAIN saves : Free(i) => Backed(saves[i].body, stored)
        /\ \A i, j \in DOMAIN saves : i < j /\ saves[i].visit = saves[j].visit =>
             Carries(saves[i].body, saves[j].body)
    BY <1>2 DEF FormInv, MaskInv
  <2>2. \A i \in DOMAIN saves : ~(saves[i].visit > form.visit)
    BY <1>1 DEF FormInv, Visits
  <2> QED BY <1>2, <1>3, <1>4, <1>5, <1>7, <2>1, <2>2 DEF MaskInv
<1>9. Visits'
  BY <1>1, <1>2, <1>3, <1>4, <1>5, <1>7 DEF FormInv, Visits
<1>10. Known'
  BY <1>2, <1>3, <1>4, <1>7 DEF Known
<1> QED BY <1>4, <1>6, <1>8, <1>9, <1>10 DEF FormInv, SaveInv

\* Both answers of the effect that loads.
LEMMA LoadKeeps ==
  ASSUME FormInv, Form!Load
  PROVE  FormInv'
<1>1. /\ saves \in Seq(SaveType) /\ form \in FormType /\ stored \in ConfigType /\ DialogOK(form)
      /\ form.answer \in ConfigType \cup {None}
  BY FormFacts DEF FormInv
<1>2. saves' = saves /\ used' = used /\ stored' = stored /\ form.load \in {"asked", "served"}
  BY DEF Form!Load
<1>3. /\ form.dialog = None /\ ~form.timer /\ \A i \in DOMAIN saves : ~Form!Mine(i)
  BY <1>1, <1>2 DEF FormInv, Visits, DialogOK
<1>4. CASE form' = [form EXCEPT !.load = "failed", !.answer = None]
  <2>1. /\ form' \in FormType /\ form'.load = "failed" /\ form'.visit = form.visit
        /\ form'.dialog = form.dialog /\ form'.config = form.config /\ form'.tainted = form.tainted
    BY <1>1, <1>4 DEF FormType
  <2>2. FormTyped'
    BY <1>1, <1>2, <1>3, <2>1 DEF FormInv, FormTyped, DialogOK
  <2>3. \A i \in DOMAIN saves : (Free(i)' <=> Free(i)) /\ ~Form!Mine(i)'
    BY <1>2, <1>3, <2>1 DEF Free, Ahead, Out, Stored, Form!Mine
  <2>4. MaskInv'
    BY <1>2, <2>1, <2>3 DEF FormInv, MaskInv
  <2>5. Visits'
    BY <1>2, <2>1 DEF FormInv, Visits
  <2> QED BY <2>1, <2>2, <2>4, <2>5 DEF FormInv, SaveInv
<1>5. CASE /\ form.load = "served"
           /\ form' = [form EXCEPT !.load = "shown", !.answer = None,
                                   !.config = form.answer, !.lastSaved = form.answer]
  <2>1. form.answer \in ConfigType /\ form.answer # None /\ form.kept = form.answer
    BY <1>1, <1>5 DEF FormInv, Visits
  <2>2. /\ form' \in FormType /\ form'.config = form.answer /\ form'.lastSaved = form.answer
        /\ form'.load = "shown" /\ form'.kept = form.kept /\ form'.raced = form.raced
        /\ form'.visit = form.visit /\ form'.dialog = form.dialog /\ form'.tainted = form.tainted
    BY <1>1, <1>5, <2>1 DEF FormType
  <2>3. FormTyped'
    BY <1>1, <1>2, <1>3, <2>2 DEF FormInv, FormTyped, DialogOK
  <2>4. \A i \in DOMAIN saves : (Free(i)' <=> Free(i)) /\ ~Form!Mine(i)' /\ ~MineStored(i)'
    BY <1>2, <1>3, <2>2 DEF Free, Ahead, Out, Stored, Form!Mine, MineStored
  <2>5. MaskInv'
    BY <1>2, <1>5, <2>2, <2>4 DEF FormInv, MaskInv
  <2>6. Visits'
    BY <1>2, <1>5, <2>1, <2>2 DEF FormInv, Visits
  <2>7. ASSUME ~form'.raced PROVE Known' /\ AtRest'
    <3>1. Form!Agree(form.kept, stored)
      BY <1>5, <2>2, <2>7 DEF FormInv, SaveInv, Known
    <3> QED BY <1>2, <2>1, <2>2, <2>4, <3>1 DEF Known, AtRest
  <2> QED BY <2>3, <2>5, <2>6, <2>7 DEF FormInv, SaveInv
<1> QED BY <1>4, <1>5 DEF Form!Load

\* The page as it opens.
LEMMA OpenedIs ==
  ASSUME NEW visit \in 1..MaxVisits, NEW tainted \in BOOLEAN
  PROVE  LET page == Form!Opened(visit, tainted)
         IN  /\ page \in FormType /\ DialogOK(page) /\ page.visit = visit /\ page.tainted = tainted
             /\ page.load = "asked" /\ ~page.timer /\ ~page.importing
             /\ page.config = Form!Empty
<1> DEFINE page == Form!Opened(visit, tainted)
<1>1. page = [visit |-> visit, config |-> Form!Empty, lastSaved |-> None, load |-> "asked",
              answer |-> None, state |-> "idle", timer |-> FALSE, dialog |-> None,
              importing |-> FALSE, step |-> 0, kept |-> None, raced |-> FALSE, tainted |-> tainted]
  BY DEF Form!Opened
<1>2. 0 \in 0..(Len(Sections) + 1)
  BY FrontendAssumption
<1> DEFINE empty == Form!Empty
<1>3. empty \in ConfigType
  BY EmptyIs
<1> HIDE DEF page, empty
<1>4. page \in FormType
  BY <1>1, <1>2, <1>3 DEF FormType, empty
<1>5. /\ page.visit = visit /\ page.tainted = tainted /\ page.dialog = None
      /\ page.load = "asked" /\ ~page.timer /\ ~page.importing
      /\ page.config = Form!Empty
  BY <1>1
<1>6. DialogOK(page)
  BY <1>5 DEF DialogOK
<1> QED BY <1>4, <1>5, <1>6 DEF page

LEMMA EmptyUnmasked == Unmasked(Form!Empty)
<1>1. DOMAIN Form!Empty.models = {}
  BY EmptyIs
<1> QED BY <1>1 DEF Unmasked

LEMMA RevisitKeeps ==
  ASSUME FormInv, Form!Revisit
  PROVE  FormInv'
<1>1. /\ saves \in Seq(SaveType) /\ form \in FormType /\ form.visit \in Nat /\ used.served \in Nat
      /\ \A i \in DOMAIN saves : saves[i].visit \in Nat
  BY FormFacts DEF FormInv
<1>2. /\ form.visit < MaxVisits /\ form' = Form!Opened(form.visit + 1, form.tainted)
      /\ saves' = saves /\ used' = used /\ stored' = stored
  BY DEF Form!Revisit
<1>3. form.visit + 1 \in 1..MaxVisits /\ form.tainted \in BOOLEAN
  BY <1>1, <1>2, FormBounds DEF FormType
<1> DEFINE v == form.visit + 1
           t == form.tainted
<1>4. v \in 1..MaxVisits /\ t \in BOOLEAN /\ form' = Form!Opened(v, t) /\ v > form.visit /\ v \in Nat
  BY <1>1, <1>2, <1>3
<1> HIDE DEF v, t
<1>5. /\ form' \in FormType /\ DialogOK(form') /\ form'.visit = v /\ form'.tainted = t
      /\ form'.load = "asked" /\ ~form'.timer /\ ~form'.importing /\ form'.config = Form!Empty
  BY <1>4, OpenedIs
<1>6. FormTyped'
  BY <1>2, <1>5 DEF FormInv, FormTyped
<1>7. \A i \in DOMAIN saves : saves[i].visit <= v /\ ~Form!Mine(i)' /\ (Free(i)' <=> Free(i))
  <2>1. \A i \in DOMAIN saves : saves[i].visit <= form.visit
    BY DEF FormInv, Visits
  <2>2. \A i \in DOMAIN saves : saves[i].visit <= v /\ saves[i].visit # v
    BY <1>1, <1>4, <2>1
  <2> QED BY <1>2, <1>5, <2>2 DEF Form!Mine, Free, Ahead, Out, Stored
<1>8. MaskInv'
  BY <1>2, <1>5, <1>7, EmptyUnmasked DEF FormInv, MaskInv, t
<1>9. Visits'
  <2>1. used.served <= v
    BY <1>1, <1>4 DEF FormInv, Visits
  <2> QED BY <1>2, <1>5, <1>7, <2>1 DEF FormInv, Visits
<1> QED BY <1>5, <1>6, <1>8, <1>9 DEF FormInv, SaveInv

LEMMA FormInitKeeps == Form!Init => FormInv
<1> SUFFICES ASSUME Form!Init PROVE FormInv
  OBVIOUS
<1>1. /\ form = Form!Opened(1, FALSE) /\ saves = <<>> /\ used = [edits |-> 0, served |-> 0]
  BY DEF Form!Init
<1>2. PICK key \in Keys : stored \in {Form!Empty, Form!Configured(Form!SetToSeq(Aliases), Form!Key(key, FALSE))}
  BY DEF Form!Init
<1>3. stored \in ConfigType /\ Unmasked(stored)
  <2>1. CASE stored = Form!Empty
    <3>1. DOMAIN Form!Empty.models = {}
      BY EmptyIs
    <3> QED BY <2>1, <3>1, EmptyIs DEF Unmasked
  <2>2. CASE stored = Form!Configured(Form!SetToSeq(Aliases), Form!Key(key, FALSE))
    <3> DEFINE q == Form!SetToSeq(Aliases)
               k == Form!Key(key, FALSE)
    <3>1. q \in Seq(Aliases) /\ Len(q) <= MaxModels
      BY AliasesListed
    <3>2. k \in KeyType /\ ~k.masked
      <4>1. k \in KeyType
        BY KeyIs
      <4> QED BY <4>1 DEF Form!Key
    <3> HIDE DEF q, k
    <3>3. /\ Form!Configured(q, k) \in ConfigType
          /\ \A i \in DOMAIN Form!Configured(q, k).models : Form!Configured(q, k).models[i].key = k
      BY <3>1, <3>2, ConfiguredIs
    <3>4. stored = Form!Configured(q, k)
      BY <2>2 DEF q, k
    <3> QED BY <3>2, <3>3, <3>4 DEF Unmasked
  <2> QED BY <1>2, <2>1, <2>2
<1>4. 1 \in 1..MaxVisits
  BY FrontendAssumption
<1>5. /\ form \in FormType /\ DialogOK(form) /\ form.visit = 1 /\ form.load = "asked"
      /\ ~form.timer /\ ~form.importing /\ form.config = Form!Empty
  BY <1>1, <1>4, OpenedIs
<1>6. saves \in Seq(SaveType) /\ DOMAIN saves = {}
  BY <1>1
<1>7. used \in UsedType
  BY <1>1, FormBounds DEF UsedType
<1>8. FormTyped
  BY <1>3, <1>5, <1>6, <1>7 DEF FormTyped
<1>9. MaskInv
  BY <1>3, <1>5, <1>6, EmptyUnmasked DEF MaskInv
<1>10. SaveInv
  BY <1>5 DEF SaveInv
<1>11. Visits
  <2>1. used = [edits |-> 0, served |-> 0]
    BY <1>1
  <2>2. used.served = 0
    BY <2>1
  <2>3. used.served <= form.visit
    BY <1>5, <2>2
  <2> QED BY <1>5, <1>6, <2>3 DEF Visits
<1> QED BY <1>8, <1>9, <1>10, <1>11 DEF FormInv

-----------------------------------------------------------------------------
(* The settings page: its actions.                                         *)

LEMMA EditsCounted ==
  ASSUME FormTyped, Form!MayEdit
  PROVE  used' \in UsedType /\ used'.served = used.served
<1>1. used \in UsedType /\ used.edits < MaxEdits /\ used' = [used EXCEPT !.edits = @ + 1]
  BY DEF FormTyped, Form!MayEdit
<1>2. used.edits \in Nat /\ used.edits + 1 \in 0..MaxEdits
  BY <1>1, FormBounds DEF UsedType
<1> QED BY <1>1, <1>2 DEF UsedType

LEMMA EditStep ==
  ASSUME FormInv, NEW config \in ConfigType, Form!Usable, Form!Edit(config),
         Carries(form.config, config)
  PROVE  FormInv'
<1> DEFINE next == Form!Edited(config)
<1>1. /\ form' = next /\ saves' = saves /\ stored' = stored /\ Form!MayEdit
      /\ form.load \in {"shown", "failed"} /\ form.dialog = None
  BY DEF Form!Edit, Form!Usable
<1>2. next \in FormType /\ Alike(next, form)
  BY FormEditedIs DEF FormInv
<1> HIDE DEF next
<1>3. FormTyped'
  BY <1>1, <1>2, EditsCounted DEF FormInv, FormTyped, Alike, DialogOK
<1>4. /\ form'.visit = next.visit /\ form'.config = next.config /\ form'.load = next.load
      /\ form'.lastSaved = next.lastSaved /\ form'.timer = next.timer
      /\ form'.kept = next.kept /\ form'.state = next.state /\ form'.raced = next.raced
      /\ next.tainted => form'.tainted
  BY <1>1
<1>5. used'.served = used.served
  BY <1>1, EditsCounted DEF FormInv
<1> QED BY <1>1, <1>3, <1>4, <1>5, EditKeeps DEF next

\* An edit that leaves the models alone.
LEMMA SameModelsStep ==
  ASSUME FormInv, NEW config \in ConfigType, Form!Usable, Form!Edit(config),
         config.models = form.config.models
  PROVE  FormInv'
<1>1. Carries(form.config, config)
  BY DEF Carries
<1> QED BY <1>1, EditStep

LEMMA OpenDialogKeeps ==
  ASSUME FormInv, NEW i \in 0..Len(form.config.models), Form!OpenDialog(i)
  PROVE  FormInv'
<1>1. form \in FormType /\ DialogOK(form) /\ form.config \in ConfigType
  BY FormFacts DEF FormInv
<1>2. /\ form' = [form EXCEPT !.dialog = i] /\ saves' = saves /\ stored' = stored
      /\ form.load \in {"shown", "failed"} /\ Form!MayEdit /\ (i = 0 => Len(form.config.models) < MaxModels)
  BY DEF Form!OpenDialog, Form!Usable
<1>3. i \in 0..MaxModels
  <2>1. form.config.models \in Seq(ModelType) /\ Len(form.config.models) <= MaxModels
    BY <1>1 DEF ConfigType
  <2>2. Len(form.config.models) \in Nat /\ MaxModels \in Nat
    BY <2>1, FormBounds
  <2> QED BY <2>1, <2>2
<1>4. form' \in FormType
  BY <1>1, <1>2, <1>3 DEF FormType
<1>5. /\ form'.dialog = i /\ form'.load = form.load /\ form'.config = form.config /\ Looked
  <2>1. used'.served = used.served
    BY <1>2, EditsCounted DEF FormInv
  <2> QED BY <1>1, <1>2, <2>1 DEF FormType, Looked
<1>6. FormTyped'
  BY <1>2, <1>4, <1>5, EditsCounted DEF FormInv, FormTyped, DialogOK
<1> QED BY <1>2, <1>5, <1>6, LookKeeps

LEMMA LooksKeep ==
  ASSUME FormInv,
         \/ Form!CloseDialog \/ Form!Import \/ \E n \in 0..Form!LastStep : Form!SelectStep(n)
         \/ form' = [form EXCEPT !.importing = FALSE] /\ UNCHANGED <<saves, used, stored>>
  PROVE  FormInv'
<1>1. form \in FormType /\ DialogOK(form) /\ used \in UsedType
  BY FormFacts DEF FormInv
<1> DEFINE Looks == /\ form' \in FormType /\ form'.dialog \in {form.dialog, None}
                    /\ form'.load = form.load /\ form'.config = form.config /\ Looked
                    /\ form'.importing => form.importing \/ form.load \in {"shown", "failed"}
                    /\ used' \in UsedType
<1>2. Looks
  <2>1. ASSUME Form!CloseDialog PROVE Looks
    BY <1>1, <2>1 DEF Form!CloseDialog, FormType, Looked
  <2>2. ASSUME Form!Import PROVE Looks
    <3>1. used' \in UsedType /\ used'.served = used.served
      BY <2>2, EditsCounted DEF Form!Import, FormInv
    <3> QED BY <1>1, <2>2, <3>1 DEF Form!Import, Form!Usable, FormType, Looked
  <2>3. ASSUME NEW n \in 0..Form!LastStep, Form!SelectStep(n) PROVE Looks
    BY <1>1, <2>3 DEF Form!SelectStep, Form!Usable, FormType, Looked, Form!LastStep
  <2>4. ASSUME form' = [form EXCEPT !.importing = FALSE], UNCHANGED <<saves, used, stored>> PROVE Looks
    BY <1>1, <2>4 DEF FormType, Looked
  <2> HIDE DEF Looks
  <2> QED BY <2>1, <2>2, <2>3, <2>4
<1>3. form'.load \in {"asked", "served"} => ~form'.importing
  BY <1>2 DEF FormInv, Visits
<1>4. FormTyped'
  BY <1>1, <1>2 DEF FormInv, FormTyped, DialogOK, Looked
<1> QED BY <1>2, <1>3, <1>4, LookKeeps

LEMMA SubmitKeeps ==
  ASSUME FormInv, NEW alias \in Aliases, NEW k \in Keys \cup {None},
         Form!SubmitDialog(alias, Form!Key(k, FALSE))
  PROVE  FormInv'
<1> DEFINE key == Form!Key(k, FALSE)
           i == form.dialog
           config == form.config
           old == config.models[i]
           given == IF key = Form!NoKey THEN old.key ELSE key
           next == Submitted(config, i, alias, key)
           edited == Form!Edited(next)
           worse == i # 0 /\ given.masked /\ alias # old.alias
<1>1. /\ form \in FormType /\ DialogOK(form) /\ config \in ConfigType
  BY FormFacts DEF FormInv
<1>2. /\ i # None /\ i \in DOMAIN config.models \cup {0} /\ (i = 0 => key # Form!NoKey)
      /\ saves' = saves /\ stored' = stored /\ used' = used
      /\ form' = [edited EXCEPT !.dialog = None, !.tainted = @ \/ worse]
  BY DEF Form!SubmitDialog, Submitted, Form!Model
<1>3. key \in KeyType /\ key.masked = FALSE
  <2>1. key \in KeyType
    BY KeyIs
  <2> QED BY <2>1 DEF Form!Key
<1>4. form.load \in {"shown", "failed"} /\ (i = 0 => Len(config.models) < MaxModels)
  BY <1>1, <1>2 DEF DialogOK, FormType
<1> HIDE DEF key, i, config, next, edited
<1>5. /\ next \in ConfigType
      /\ i = 0 => next.models = Append(config.models, Form!Model(alias, key))
      /\ i # 0 => next.models = [config.models EXCEPT ![i] = Form!Model(alias, given)]
  BY <1>1, <1>2, <1>3, <1>4, SubmittedIs DEF next
<1>6. edited \in FormType /\ Alike(edited, form) /\ edited.config = next
  BY <1>5, FormEditedIs DEF FormInv, edited
<1> DEFINE t == edited.tainted \/ worse
<1>7. t \in BOOLEAN /\ (t <=> edited.tainted \/ worse) /\ form' = [edited EXCEPT !.dialog = None, !.tainted = t]
  BY <1>2
<1> HIDE DEF t
<1>8. /\ form' \in FormType /\ form'.dialog = None /\ form'.tainted = t
      /\ form'.visit = edited.visit /\ form'.config = edited.config /\ form'.load = edited.load
      /\ form'.lastSaved = edited.lastSaved /\ form'.timer = edited.timer
      /\ form'.kept = edited.kept /\ form'.state = edited.state /\ form'.raced = edited.raced
  BY <1>6, <1>7 DEF FormType
<1>9. FormTyped'
  BY <1>2, <1>8 DEF FormInv, FormTyped, DialogOK
<1>10. ASSUME ~t PROVE Carries(config, next)
  <2>1. config.models \in Seq(ModelType)
    BY <1>1 DEF ConfigType
  <2>2. CASE i = 0
    <3> DEFINE new == Form!Model(alias, key)
    <3>1. ~new.key.masked
      BY <1>3 DEF Form!Model
    <3> HIDE DEF new
    <3>2. \A j \in DOMAIN next.models : next.models[j] = new \/ (j \in DOMAIN config.models /\ next.models[j] = config.models[j])
      <4>1. next.models = Append(config.models, new)
        BY <1>5, <2>2 DEF new
      <4> QED BY <2>1, <4>1
    <3> QED BY <3>1, <3>2 DEF Carries
  <2>3. CASE i # 0
    <3> DEFINE new == Form!Model(alias, given)
    <3>1. new.alias = alias /\ new.key = given
      BY DEF Form!Model
    <3>2. i \in DOMAIN config.models
      BY <1>2, <2>3
    <3>3. new.key.masked => alias = old.alias /\ given = old.key
      BY <1>3, <1>7, <1>10, <2>3, <3>1
    <3> HIDE DEF new
    <3>4. next.models = [config.models EXCEPT ![i] = new]
      BY <1>5, <2>3 DEF new
    <3>5. \A j \in DOMAIN next.models : j \in DOMAIN config.models /\ next.models[j] = IF j = i THEN new ELSE config.models[j]
      BY <2>1, <3>2, <3>4
    <3> QED BY <3>1, <3>2, <3>3, <3>5 DEF Carries
  <2> QED BY <2>2, <2>3
<1>11. edited.tainted => form'.tainted
  BY <1>7, <1>8
<1> QED BY <1>2, <1>4, <1>5, <1>8, <1>9, <1>10, <1>11, EditKeeps DEF edited, config

LEMMA RemoveModelKeeps ==
  ASSUME FormInv, NEW i \in DOMAIN form.config.models, Form!RemoveModel(i)
  PROVE  FormInv'
<1> DEFINE next == [Form!Stripped(form.config, form.config.models[i].alias) EXCEPT
                       !.models = Form!RemoveAt(@, i)]
<1>1. form.config \in ConfigType
  BY FormFacts DEF FormInv
<1>2. Form!Usable /\ Form!Edit(next)
  BY DEF Form!RemoveModel
<1>3. next \in ConfigType /\ next.models = Less(form.config.models, i)
  BY <1>1, RemovedIs
<1> HIDE DEF next
<1>4. form.config.models \in Seq(ModelType)
  BY <1>1 DEF ConfigType
<1>5. \A j \in DOMAIN next.models : Was(i, j) \in DOMAIN form.config.models
                                    /\ next.models[j] = form.config.models[Was(i, j)]
  BY <1>3, <1>4, LessIs
<1>6. Carries(form.config, next)
  BY <1>5 DEF Carries
<1> QED BY <1>2, <1>3, <1>6, EditStep

LEMMA OrderKeeps ==
  ASSUME FormInv, NEW s \in Ordered, NEW a \in Aliases,
         Form!AddToOrder(s, a) \/ Form!RemoveFromOrder(s, a)
  PROVE  FormInv'
<1>1. form.config \in ConfigType
  BY FormFacts DEF FormInv
<1>2. form.config.order[s] \in Seq(Aliases)
  BY <1>1 DEF ConfigType, OrderType
<1>3. ASSUME NEW q \in Seq(Aliases), Form!Usable, Form!Edit([form.config EXCEPT !.order[s] = q])
      PROVE  FormInv'
  <2> DEFINE next == [form.config EXCEPT !.order[s] = q]
  <2>1. next \in ConfigType /\ next.models = form.config.models
    BY <1>1, OrderSet
  <2> HIDE DEF next
  <2> QED BY <1>3, <2>1, SameModelsStep DEF next
<1>4. CASE Form!AddToOrder(s, a)
  <2> DEFINE q == Append(form.config.order[s], a)
  <2>1. q \in Seq(Aliases)
    BY <1>2
  <2>2. Form!Usable /\ Form!Edit([form.config EXCEPT !.order[s] = q])
    BY <1>4 DEF Form!AddToOrder
  <2> HIDE DEF q
  <2> QED BY <1>3, <2>1, <2>2
<1>5. CASE Form!RemoveFromOrder(s, a)
  <2> DEFINE q == Form!Keep(form.config.order[s], Aliases \ {a})
  <2>1. q \in Seq(Aliases)
    BY <1>2, FormKeeps
  <2>2. Form!Usable /\ Form!Edit([form.config EXCEPT !.order[s] = q])
    BY <1>5 DEF Form!RemoveFromOrder
  <2> HIDE DEF q
  <2> QED BY <1>3, <2>1, <2>2
<1> QED BY <1>4, <1>5

LEMMA MoveInOrderKeeps ==
  ASSUME FormInv, NEW s \in Ordered, NEW i, Form!MoveInOrder(s, i)
  PROVE  FormInv'
<1> DEFINE order == form.config.order[s]
           q == [order EXCEPT ![i] = order[i + 1], ![i + 1] = order[i]]
<1>1. form.config \in ConfigType
  BY FormFacts DEF FormInv
<1>2. order \in Seq(Aliases)
  BY <1>1 DEF ConfigType, OrderType
<1>3. i \in 1..(Len(order) - 1)
  BY DEF Form!MoveInOrder
<1>4. q \in Seq(Aliases)
  <2> HIDE DEF order
  <2>1. i \in 1..Len(order) /\ i + 1 \in 1..Len(order)
    BY <1>2, <1>3
  <2> QED BY <1>2, <2>1
<1>5. Form!Usable /\ Form!Edit([form.config EXCEPT !.order[s] = q])
  BY DEF Form!MoveInOrder
<1> HIDE DEF q
<1> DEFINE next == [form.config EXCEPT !.order[s] = q]
<1>6. next \in ConfigType /\ next.models = form.config.models
  BY <1>1, <1>4, OrderSet
<1> HIDE DEF next
<1> QED BY <1>5, <1>6, SameModelsStep DEF next

LEMMA ToggleRuleKeeps ==
  ASSUME FormInv, NEW s \in Ordered, NEW r \in Reasons, NEW a \in Aliases, Form!ToggleRule(s, r, a)
  PROVE  FormInv'
<1> DEFINE use == form.config.rules[s][r]
           new == IF use = None THEN {a} ELSE IF a \in use THEN use \ {a} ELSE use \cup {a}
<1>1. form.config \in ConfigType
  BY FormFacts DEF FormInv
<1>2. use \in (SUBSET Aliases) \cup {None}
  BY <1>1 DEF ConfigType, RulesType
<1>3. new \in SUBSET Aliases
  <2> HIDE DEF use
  <2> QED BY <1>2
<1>4. Form!Usable /\ Form!Edit(WithRule(form.config, s, r, new))
  BY DEF Form!ToggleRule, WithRule
<1> HIDE DEF use, new
<1> DEFINE next == WithRule(form.config, s, r, new)
<1>5. next \in ConfigType /\ next.models = form.config.models
  BY <1>1, <1>3, RuleSet
<1> HIDE DEF next
<1> QED BY <1>4, <1>5, SameModelsStep DEF next

LEMMA ImportedKeeps ==
  ASSUME FormInv, Form!Imported
  PROVE  FormInv'
<1>1. /\ form \in FormType /\ DialogOK(form) /\ form.config \in ConfigType
  BY FormFacts DEF FormInv
<1>2. form.load \in {"shown", "failed"}
  BY <1>1 DEF FormInv, Visits, Form!Imported, FormType
<1>3. CASE form' = [form EXCEPT !.importing = FALSE]
  BY <1>3, LooksKeep DEF Form!Imported
<1>4. ASSUME NEW a \in Aliases,
             form' = [Form!Edited(Form!Configured(<<a>>, Form!NoKey)) EXCEPT !.importing = FALSE]
      PROVE  FormInv'
  <2> DEFINE q == <<a>>
             config == Form!Configured(q, Form!NoKey)
             edited == Form!Edited(config)
  <2>1. q \in Seq(Aliases) /\ Len(q) = 1
    OBVIOUS
  <2>2. 1 <= MaxModels /\ 1 < MaxModels
    BY FrontendAssumption, FormBounds
  <2> HIDE DEF q
  <2>3. /\ config \in ConfigType /\ Len(config.models) = 1
        /\ \A i \in DOMAIN config.models : config.models[i].key = Form!NoKey
    BY <2>1, <2>2, KeyIs, ConfiguredIs
  <2> HIDE DEF config
  <2>4. edited \in FormType /\ Alike(edited, form) /\ edited.config = config
    BY <2>3, FormEditedIs DEF FormInv
  <2>5. form' = [edited EXCEPT !.importing = FALSE] /\ saves' = saves /\ stored' = stored /\ used' = used
    BY <1>4 DEF Form!Imported, q, config
  <2> HIDE DEF edited
  <2>6. /\ form' \in FormType /\ form'.dialog = edited.dialog /\ form'.tainted = edited.tainted
        /\ form'.visit = edited.visit /\ form'.config = edited.config /\ form'.load = edited.load
        /\ form'.lastSaved = edited.lastSaved /\ form'.timer = edited.timer
        /\ form'.kept = edited.kept /\ form'.state = edited.state /\ form'.raced = edited.raced
    BY <2>4, <2>5 DEF FormType
  <2>7. FormTyped'
    BY <1>1, <1>2, <2>2, <2>3, <2>4, <2>5, <2>6 DEF FormInv, FormTyped, DialogOK, Alike
  <2>8. ~Form!NoKey.masked
    BY DEF Form!NoKey, Form!Key
  <2>9. Carries(form.config, config)
    BY <2>3, <2>8 DEF Carries
  <2> QED BY <1>2, <2>3, <2>5, <2>6, <2>7, <2>9, EditKeeps DEF edited
<1> QED BY <1>3, <1>4 DEF Form!Imported

LEMMA SendStep ==
  ASSUME FormInv, form.load \in {"shown", "failed"}, NEW kind \in {"auto", "test"},
         NEW timer \in BOOLEAN, timer # form.timer => kind = "auto",
         Form!Send(kind), stored' = stored, used' = used,
         form' = [form EXCEPT !.timer = timer]
  PROVE  FormInv'
<1>1. /\ form \in FormType /\ DialogOK(form) /\ form.config \in ConfigType /\ used \in UsedType
      /\ saves \in Seq(SaveType)
  BY FormFacts DEF FormInv
<1> DEFINE new == [visit |-> form.visit, kind |-> kind, body |-> form.config, at |-> "sent",
                   heard |-> FALSE]
<1>2. saves' = Append(saves, new)
  BY DEF Form!Send
<1>3. new \in SaveType
  BY <1>1 DEF FormType, SaveType
<1> HIDE DEF new
<1>4. /\ form' \in FormType /\ form'.visit = form.visit /\ form'.config = form.config
      /\ form'.load = form.load /\ form'.lastSaved = form.lastSaved /\ form'.timer = timer
      /\ form'.state = form.state /\ form'.kept = form.kept /\ form'.raced = form.raced
      /\ form'.tainted = form.tainted /\ form'.dialog = form.dialog
  BY <1>1 DEF FormType
<1>5. FormTyped'
  BY <1>1, <1>2, <1>3, <1>4 DEF FormInv, FormTyped, DialogOK
<1> QED BY <1>2, <1>4, <1>5, SendKeeps DEF new

LEMMA SendsKeep ==
  ASSUME FormInv, Form!AutoSave \/ Form!Test
  PROVE  FormInv'
<1>1. form \in FormType /\ form.timer \in BOOLEAN
  BY DEF FormInv, FormTyped, FormType
<1>2. CASE Form!AutoSave
  <2>1. /\ Form!Send("auto") /\ stored' = stored /\ used' = used
        /\ form' = [form EXCEPT !.timer = FALSE] /\ form.timer
    BY <1>2 DEF Form!AutoSave
  <2>2. form.load \in {"shown", "failed"}
    BY <1>1, <2>1 DEF FormInv, Visits, FormType
  <2> QED BY <2>1, <2>2, SendStep
<1>3. CASE Form!Test
  <2>1. /\ form.load \in {"shown", "failed"} /\ Form!Send("test") /\ stored' = stored
        /\ used' = used /\ form' = form
    BY <1>3 DEF Form!Test, Form!Usable
  <2>2. [form EXCEPT !.timer = form.timer] = form
    BY <1>1 DEF FormType
  <2> QED BY <1>1, <2>1, <2>2, SendStep
<1> QED BY <1>2, <1>3

LEMMA FormStepKeeps ==
  ASSUME FormInv, Form!Next \/ UNCHANGED formVars
  PROVE  FormInv'
<1>1. CASE Form!Edits
  BY <1>1, OpenDialogKeeps, SubmitKeeps, LooksKeep, RemoveModelKeeps, OrderKeeps,
     MoveInOrderKeeps, ToggleRuleKeeps, RevisitKeeps DEF Form!Edits, Ordered
<1>2. CASE Form!Serve \/ Form!Load \/ Form!AutoSave \/ Form!Test \/ Form!Imported
  BY <1>2, ServeKeeps, LoadKeeps, SendsKeep, ImportedKeeps
<1>3. ASSUME NEW i \in DOMAIN saves,
             Form!Put(i) \/ Form!SaveFails(i) \/ Form!Answered(i) \/ Form!AnswerLost(i)
      PROVE  FormInv'
  <2>1. CASE Form!Put(i) /\ Form!Valid(saves[i].body)
    BY <2>1, PutKeeps
  <2>2. CASE Form!Put(i) /\ ~Form!Valid(saves[i].body)
    BY <2>2, RefusedKeeps DEF Form!Put
  <2>3. CASE Form!SaveFails(i)
    BY <2>3, RefusedKeeps DEF Form!SaveFails
  <2> QED BY <1>3, <2>1, <2>2, <2>3, AnsweredKeeps
<1>4. CASE UNCHANGED formVars
  <2>1. /\ form' = form /\ saves' = saves /\ used' = used /\ stored' = stored
    BY <1>4 DEF formVars
  <2>2. FormTyped'
    BY <2>1 DEF FormInv, FormTyped
  <2>3. Looked
    BY <2>1 DEF Looked
  <2>4. form'.load \in {"asked", "served"} => ~form'.importing
    BY <2>1 DEF FormInv, Visits
  <2> QED BY <2>2, <2>3, <2>4, LookKeeps
<1> QED BY <1>1, <1>2, <1>3, <1>4 DEF Form!Next, Form!Arrivals

LEMMA FormInvHolds == AppSpec => []FormInv
<1>1. AppInit => FormInv
  BY FormInitKeeps DEF AppInit
<1>2. FormInv /\ [AppNext]_appVars => FormInv'
  <2>1. [AppNext]_appVars => Form!Next \/ UNCHANGED formVars
    BY DEF AppNext, OnWhiteboard, OnSettings, OnChat, appVars
  <2> QED BY <2>1, FormStepKeeps
<1> QED BY <1>1, <1>2, PTL DEF AppSpec

\* The mask of a key takes the place of the key only after a rename, or when a
\* save was stored after one sent later or after the load of a later visit was
\* served: a masked key of the page, of the answer of its load, or of a save
\* that may still come, stands for a key that is kept under the same alias.
\* (apply_incoming, submitDialog)
THEOREM MasksAreNotStored == AppSpec => []MaskNeverStored
<1>1. FormInv => MaskNeverStored
  BY DEF FormInv, MaskInv, Unmasked, MaskNeverStored, Form!MaskNeverStored
<1> QED BY <1>1, FormInvHolds, PTL

\* Of the page's saves that were stored, one was sent last.
LEMMA LastStored ==
  ASSUME FormTyped, NEW l \in DOMAIN saves, MineStored(l)
  PROVE  \E i \in DOMAIN saves : /\ i >= l /\ MineStored(i)
                                 /\ \A j \in DOMAIN saves : j > i => ~MineStored(j)
<1> DEFINE S == {i \in DOMAIN saves : MineStored(i)}
<1>1. DOMAIN saves = 1..Len(saves) /\ Len(saves) \in Nat
  BY DEF FormTyped
<1>2. S \subseteq Int /\ IsFiniteSet(S) /\ l \in S
  <2>1. IsFiniteSet(DOMAIN saves)
    BY <1>1, FS_Interval
  <2>2. S \subseteq DOMAIN saves
    OBVIOUS
  <2> QED BY <1>1, <2>1, <2>2, FS_Subset
<1>3. \A j \in S : j \in Int
  BY <1>2
<1>4. \A i \in S : i \in DOMAIN saves /\ MineStored(i)
  OBVIOUS
<1>5. \A j \in DOMAIN saves : j \in Int /\ (MineStored(j) => j \in S)
  BY <1>1
<1> HIDE DEF S
<1>6. PICK i \in S : \A j \in S : j <= i
  BY <1>2, HasGreatest
<1>7. i >= l /\ i \in Int
  BY <1>2, <1>3, <1>6
<1>8. \A j \in DOMAIN saves : j > i => ~MineStored(j)
  BY <1>5, <1>6, <1>7
<1> QED BY <1>4, <1>7, <1>8

\* At rest the settings show what the server keeps, for any models and any
\* number of edits, visits and saves, also when answers are lost, unless saves
\* or answers overtook one another, an edit led back to what was taken for
\* saved, or an error is reported.  (the effect on config, saveLlmConfig)
THEOREM SavedIsStored == AppSpec => []SavedMeansStored
<1>1. FormInv => SavedMeansStored
  <2> SUFFICES ASSUME FormInv, Form!Quiet, ~form.raced, form.state # "error"
               PROVE  Form!Agree(form.config, stored)
    BY DEF SavedMeansStored, Form!SavedMeansStored
  <2>1. Known /\ (AtRest \/ \E l \in DOMAIN saves : Saving(l))
    BY DEF FormInv, SaveInv, Form!Quiet
  <2>2. CASE AtRest
    BY <2>1, <2>2 DEF Known, AtRest
  <2>3. ASSUME NEW l \in DOMAIN saves, Saving(l) PROVE Form!Agree(form.config, stored)
    <3>1. PICK m \in DOMAIN saves : m >= l /\ MineStored(m)
      BY <2>3 DEF Saving, Form!Quiet
    <3>2. PICK i \in DOMAIN saves : /\ i >= m /\ MineStored(i)
                                    /\ \A j \in DOMAIN saves : j > i => ~MineStored(j)
      BY <3>1, LastStored DEF FormInv
    <3>3. form.kept = saves[i].body
      BY <2>1, <3>2 DEF Known
    <3>4. i >= l
      <4>1. i \in Nat /\ l \in Nat /\ m \in Nat
        BY FormFacts DEF FormInv
      <4> QED BY <3>1, <3>2, <4>1
    <3>5. saves[i].body = form.config
      BY <2>3, <3>2, <3>4 DEF Saving, MineStored
    <3> QED BY <2>1, <3>3, <3>5 DEF Known
  <2> QED BY <2>1, <2>2, <2>3
<1> QED BY <1>1, FormInvHolds, PTL

-----------------------------------------------------------------------------
(* The bounds of a board: what is drawn or typed still has room to be added. *)

Room(b) ==
  /\ b.tool \in Tools /\ b.selected \subseteq 1..MaxElements
  /\ b.text \in Points \cup {None} /\ (b.draft = None \/ b.text = None)
  /\ b.made \in 0..MaxElements
  /\ b.draft # None \/ b.text # None => b.made < MaxElements

BoardRoom == Room(board) /\ board.strokes \in 0..MaxStrokes

LEMMA BoardBounds == MaxElements \in Nat /\ MaxStrokes \in Nat
BY FrontendAssumption

LEMMA BecomesRoom ==
  ASSUME BoardRoom, NEW c, IsBoard(c), Room(c), Becomes(c)
  PROVE  BoardRoom'
<1>1. board' = [c EXCEPT !.strokes = board.strokes + 1] /\ board.strokes < MaxStrokes
  BY DEF Becomes
<1>2. board.strokes + 1 \in 0..MaxStrokes
  BY <1>1, BoardBounds DEF BoardRoom
<1>3. /\ board'.tool = c.tool /\ board'.selected = c.selected /\ board'.text = c.text
      /\ board'.draft = c.draft /\ board'.made = c.made /\ board'.strokes = board.strokes + 1
  BY <1>1 DEF IsBoard
<1> QED BY <1>2, <1>3 DEF BoardRoom, Room

\* What is selected is something that was made.
LEMMA MadeAreFew ==
  ASSUME BoardInv, BoardRoom
  PROVE  DOMAIN board.elements \subseteq 1..MaxElements
<1>1. DOMAIN board.elements \subseteq 1..board.made /\ board.made \in Nat
  BY DrawingIs DEF BoardInv, Typed
<1> QED BY <1>1, BoardBounds DEF BoardRoom, Room

\* A board that differs from one with room in none of its bounds.
LEMMA SameRoom ==
  ASSUME NEW b, Room(b), NEW c, c.tool = b.tool, c.selected \subseteq 1..MaxElements,
         c.text = b.text, c.draft = b.draft, c.made = b.made
  PROVE  Room(c)
BY DEF Room

LEMMA EraseRoom ==
  ASSUME BoardInv, BoardRoom, NEW p
  PROVE  IsBoard(EraseAt(p)) /\ Room(EraseAt(p))
<1>1. PICK hit : EraseAt(p) = board \/ EraseAt(p) = Edited(board, Without(hit))
  BY DEF EraseAt
<1> DEFINE e == Edited(board, Without(hit))
<1>2. IsBoard(e) /\ Room(e)
  <2>1. IsBoard(board)
    BY BoardIs
  <2>2. /\ IsBoard(e) /\ e.tool = board.tool /\ e.selected = board.selected
        /\ e.draft = board.draft /\ e.text = board.text /\ e.made = board.made
    BY <2>1, EditedIs
  <2> HIDE DEF e
  <2> QED BY <2>2 DEF BoardRoom, Room
<1> QED BY <1>1, <1>2, BoardIs DEF BoardRoom

LEMMA AddRoom ==
  ASSUME NEW b, IsBoard(b), Room(b), b.draft = None, b.text = None, b.made < MaxElements, NEW span
  PROVE  IsBoard(AddElement(b, span)) /\ Room(AddElement(b, span))
<1> DEFINE n == b.made + 1
           els == [i \in DOMAIN b.elements \cup {n} |-> IF i = n THEN span ELSE b.elements[i]]
           e == Edited(b, els)
           c == [e EXCEPT !.made = n]
<1>1. AddElement(b, span) = c
  BY DEF AddElement
<1>2. n \in 0..MaxElements
  BY BoardBounds DEF Room
<1> HIDE DEF els, n
<1>3. /\ IsBoard(e) /\ e.tool = b.tool /\ e.selected = b.selected
      /\ e.draft = b.draft /\ e.text = b.text
  BY EditedIs
<1> HIDE DEF e
<1>4. /\ IsBoard(c) /\ c.tool = b.tool /\ c.selected = b.selected
      /\ c.draft = b.draft /\ c.text = b.text /\ c.made = n
  BY <1>3 DEF IsBoard
<1> HIDE DEF c
<1>5. Room(c)
  BY <1>2, <1>4 DEF Room
<1> QED BY <1>1, <1>4, <1>5

LEMMA GrabRoom ==
  ASSUME BoardInv, BoardRoom, NEW p \in Points, NEW c \in Grab(p)
  PROVE  IsBoard(c) /\ Room(c)
<1>b. IsBoard(board)
  BY BoardIs
<1> DEFINE some == SUBSET (1..MaxElements)
<1>1. HitTest(p, board.elements) \in some /\ board.selected \in some
  <2>1. HitTest(p, board.elements) \subseteq DOMAIN board.elements
    <3> DEFINE under == {i \in DOMAIN board.elements : PointInElement(p, board.elements[i])}
    <3>1. CASE under = {}
      BY <3>1 DEF HitTest
    <3>2. CASE under # {}
      <4>1. DOMAIN board.elements \subseteq 1..board.made /\ board.made \in Nat
        BY DrawingIs DEF BoardInv, Typed
      <4>2. IsFiniteSet(1..board.made)
        BY <4>1, FS_Interval
      <4>3. under \subseteq 1..board.made
        BY <4>1
      <4>4. IsFiniteSet(under) /\ under \subseteq Int
        BY <4>1, <4>2, <4>3, FS_Subset
      <4>5. Greatest(under) \in under
        BY <3>2, <4>4, GreatestIn
      <4> QED BY <4>5 DEF HitTest
    <3> QED BY <3>1, <3>2
  <2> QED BY <2>1, MadeAreFew DEF BoardRoom, Room
<1>2. \/ \E torn, r : c = [board EXCEPT !.torn = torn, !.resizing = r]
      \/ \E torn, m : \E ids \in some :
           c = [board EXCEPT !.torn = torn, !.selected = ids, !.moving = m, !.moved = FALSE]
      \/ \E lasso : c = [board EXCEPT !.selected = {}, !.lasso = lasso]
  BY <1>1, Zenon DEF Grab
<1>3. /\ IsBoard(c) /\ c.tool = board.tool /\ c.selected \in some
      /\ c.draft = board.draft /\ c.text = board.text /\ c.made = board.made
  BY <1>1, <1>2, <1>b DEF IsBoard
<1> QED BY <1>3 DEF BoardRoom, Room

LEMMA DownRoom ==
  ASSUME BoardInv, BoardRoom, NEW p \in Points, Down(p)
  PROVE  BoardRoom'
<1>b. IsBoard(board) /\ Room(board) /\ board.text = None /\ board.draft = None
  BY BoardIs DEF BoardRoom, Down
<1>1. ASSUME board.made < MaxElements, Becomes(Begin(p)) PROVE BoardRoom'
  <2> DEFINE d == [pen |-> board.tool = "pen", from |-> p, lo |-> p, hi |-> p]
             c == [board EXCEPT !.draft = d]
  <2>1. Begin(p) = c
    BY DEF Begin
  <2> HIDE DEF d
  <2>2. /\ IsBoard(c) /\ c.tool = board.tool /\ c.selected = board.selected
        /\ c.draft = d /\ c.text = board.text /\ c.made = board.made
    BY <1>b DEF IsBoard
  <2> HIDE DEF c
  <2>3. Room(c)
    BY <1>1, <1>b, <2>2 DEF Room
  <2> QED BY <1>1, <2>1, <2>2, <2>3, BecomesRoom
<1>2. ASSUME board.made < MaxElements, Becomes([board EXCEPT !.text = p]) PROVE BoardRoom'
  <2> DEFINE c == [board EXCEPT !.text = p]
  <2>1. /\ IsBoard(c) /\ c.tool = board.tool /\ c.selected = board.selected
        /\ c.draft = board.draft /\ c.text = p /\ c.made = board.made
    BY <1>b DEF IsBoard
  <2> HIDE DEF c
  <2>2. Room(c)
    BY <1>2, <1>b, <2>1 DEF Room
  <2> QED BY <1>2, <2>1, <2>2, BecomesRoom DEF c
<1>3. \/ board.made < MaxElements /\ Becomes(Begin(p))
      \/ board.made < MaxElements /\ Becomes([board EXCEPT !.text = p])
      \/ Becomes(EraseAt(p)) \/ \E c \in Grab(p) : Becomes(c)
  BY Zenon DEF Down
<1> QED BY <1>1, <1>2, <1>3, EraseRoom, GrabRoom, BecomesRoom

LEMMA MoveRoom ==
  ASSUME BoardInv, BoardRoom, NEW p \in Points, MoveTo(p)
  PROVE  BoardRoom'
<1>b. IsBoard(board) /\ Room(board)
  BY BoardIs DEF BoardRoom
<1>1. ASSUME board.draft # None, NEW d, Becomes([board EXCEPT !.draft = d]) PROVE BoardRoom'
  <2> DEFINE c == [board EXCEPT !.draft = d]
  <2>1. /\ IsBoard(c) /\ c.tool = board.tool /\ c.selected = board.selected
        /\ c.draft = d /\ c.text = board.text /\ c.made = board.made
    BY <1>b DEF IsBoard
  <2> HIDE DEF c
  <2>2. Room(c)
    BY <1>1, <1>b, <2>1 DEF Room
  <2> QED BY <1>1, <2>1, <2>2, BecomesRoom DEF c
<1>2. ASSUME NEW els, NEW c, c = SetElements(board, els), NEW moved,
             Becomes(c) \/ Becomes([c EXCEPT !.moved = moved])
      PROVE  BoardRoom'
  <2>1. /\ IsBoard(c) /\ c.tool = board.tool /\ c.selected = board.selected
        /\ c.draft = board.draft /\ c.text = board.text /\ c.made = board.made
    BY <1>2, <1>b, SetElementsIs
  <2> DEFINE e == [c EXCEPT !.moved = moved]
  <2>2. /\ IsBoard(e) /\ e.tool = c.tool /\ e.selected = c.selected
        /\ e.draft = c.draft /\ e.text = c.text /\ e.made = c.made
    BY <2>1 DEF IsBoard
  <2>3. Becomes(c) \/ Becomes(e)
    BY <1>2
  <2> HIDE DEF e
  <2>4. Room(c) /\ Room(e)
    BY <1>b, <2>1, <2>2 DEF Room
  <2> QED BY <2>1, <2>2, <2>3, <2>4, BecomesRoom
<1>3. ASSUME NEW lo, NEW hi, Becomes([board EXCEPT !.lasso.lo = lo, !.lasso.hi = hi]) PROVE BoardRoom'
  <2> DEFINE c == [board EXCEPT !.lasso.lo = lo, !.lasso.hi = hi]
  <2>1. /\ IsBoard(c) /\ c.tool = board.tool /\ c.selected = board.selected
        /\ c.draft = board.draft /\ c.text = board.text /\ c.made = board.made
    BY <1>b DEF IsBoard
  <2> HIDE DEF c
  <2>2. Room(c)
    BY <1>b, <2>1 DEF Room
  <2> QED BY <1>3, <2>1, <2>2, BecomesRoom DEF c
<1>4. ASSUME NEW m, Becomes(Moved(m, p)) PROVE BoardRoom'
  <2>1. PICK els : \E moved : Moved(m, p) = [SetElements(board, els) EXCEPT !.moved = moved]
    BY Zenon DEF Moved
  <2> QED BY <1>2, <1>4, <2>1
<1>5. ASSUME NEW r, Becomes(Resized(r, p)) PROVE BoardRoom'
  <2>1. PICK els : Resized(r, p) = SetElements(board, els)
    BY Zenon DEF Resized
  <2> QED BY <1>2, <1>5, <2>1
<1>6. \/ board.draft # None /\ \E d : Becomes([board EXCEPT !.draft = d])
      \/ \E r : Becomes(Resized(r, p))
      \/ \E m : Becomes(Moved(m, p))
      \/ \E lo, hi : Becomes([board EXCEPT !.lasso.lo = lo, !.lasso.hi = hi])
      \/ Becomes(board)
      \/ Becomes(EraseAt(p))
  BY Zenon DEF MoveTo
<1> QED BY <1>b, <1>1, <1>3, <1>4, <1>5, <1>6, EraseRoom, BecomesRoom

LEMMA UpRoom ==
  ASSUME BoardInv, BoardRoom, Up
  PROVE  BoardRoom'
<1>b. IsBoard(board) /\ Room(board)
  BY BoardIs DEF BoardRoom
<1> DEFINE Kept(b) == /\ IsBoard(b) /\ b.tool = board.tool /\ b.selected \subseteq 1..MaxElements
                      /\ b.draft = board.draft /\ b.text = board.text /\ b.made = board.made
<1>1. ASSUME NEW s PROVE Kept(PushHistory(board, s))
  BY <1>b DEF PushHistory, IsBoard, Room
<1>2. Kept(board)
  BY <1>b DEF Room
<1>3. Kept(LetGo(board))
  <2> DEFINE b == IF board.moved THEN PushHistory(board, board.moving.prev) ELSE board
  <2>1. Kept(b)
    BY <1>1, <1>2
  <2>2. LetGo(board) = [b EXCEPT !.moving = None, !.moved = FALSE]
    BY DEF LetGo
  <2> HIDE DEF b
  <2> QED BY <2>1, <2>2 DEF IsBoard
<1>4. Kept(Lassoed(board))
  <2> DEFINE crossed == {i \in DOMAIN board.elements : Intersects(board.lasso, board.elements[i])}
             ids == IF board.lasso.hi = board.lasso.lo THEN {} ELSE crossed
  <2>1. Lassoed(board) = [board EXCEPT !.selected = ids, !.lasso = None]
    BY DEF Lassoed
  <2>2. ids \subseteq 1..MaxElements
    BY MadeAreFew
  <2> HIDE DEF ids
  <2> QED BY <1>b, <2>1, <2>2 DEF IsBoard
<1>5. ASSUME NEW b, Kept(b) PROVE IsBoard(Drawn(b)) /\ Room(Drawn(b))
  <2> DEFINE c == [b EXCEPT !.draft = None]
  <2>1. /\ IsBoard(c) /\ c.tool = b.tool /\ c.selected = b.selected
        /\ c.draft = None /\ c.text = b.text /\ c.made = b.made
    BY <1>5 DEF IsBoard
  <2>2. \/ Drawn(b) = b \/ Drawn(b) = c
        \/ b.draft # None /\ Drawn(b) = AddElement(c, [lo |-> b.draft.lo, hi |-> b.draft.hi])
    BY DEF Drawn
  <2> HIDE DEF c
  <2>3. Room(b) /\ Room(c)
    BY <1>b, <1>5, <2>1 DEF Room
  <2>4. b.draft # None => c.text = None /\ c.made < MaxElements
    BY <2>1, <2>3 DEF Room
  <2> QED BY <1>5, <2>1, <2>2, <2>3, <2>4, AddRoom
<1>6. ASSUME Becomes([PushHistory(board, board.resizing.prev) EXCEPT !.resizing = None])
      PROVE  BoardRoom'
  <2> DEFINE b == PushHistory(board, board.resizing.prev)
             c == [b EXCEPT !.resizing = None]
  <2>1. Kept(b)
    BY <1>1
  <2> HIDE DEF b
  <2>2. Kept(c)
    BY <2>1 DEF IsBoard
  <2> HIDE DEF c
  <2>3. Room(c)
    BY <1>b, <2>2 DEF Room
  <2> QED BY <1>6, <2>2, <2>3, BecomesRoom DEF b, c
<1>7. \/ Becomes([PushHistory(board, board.resizing.prev) EXCEPT !.resizing = None])
      \/ Becomes(Drawn(LetGo(board)))
      \/ Becomes(Drawn(Lassoed(board)))
      \/ Becomes(Drawn(board))
  BY Zenon DEF Up
<1> HIDE DEF Kept
<1> QED BY <1>2, <1>3, <1>4, <1>5, <1>6, <1>7, BecomesRoom

LEMMA CommitTextRoom ==
  ASSUME BoardInv, BoardRoom, NEW typed \in BOOLEAN, CommitText(typed)
  PROVE  BoardRoom'
<1>b. IsBoard(board) /\ Room(board) /\ board.text # None
  BY BoardIs DEF BoardRoom, CommitText
<1> DEFINE c == [board EXCEPT !.text = None]
           span == [lo |-> board.text, hi |-> board.text + 1]
<1>1. /\ IsBoard(c) /\ c.tool = board.tool /\ c.selected = board.selected
      /\ c.draft = board.draft /\ c.text = None /\ c.made = board.made
  BY <1>b DEF IsBoard
<1>2. Becomes(AddElement(c, span)) \/ Becomes(c)
  BY Zenon DEF CommitText
<1> HIDE DEF c, span
<1>3. Room(c) /\ c.draft = None /\ c.made < MaxElements
  BY <1>b, <1>1 DEF Room
<1> QED BY <1>1, <1>2, <1>3, AddRoom, BecomesRoom

LEMMA DeleteRoom ==
  ASSUME BoardInv, BoardRoom, DeleteSelected
  PROVE  BoardRoom'
<1>b. IsBoard(board) /\ Room(board)
  BY BoardIs DEF BoardRoom
<1>1. PICK b : /\ b = board \/ b = Edited(board, Without(Present))
               /\ Becomes([b EXCEPT !.selected = {}])
  BY Zenon DEF DeleteSelected
<1>2. /\ IsBoard(b) /\ b.tool = board.tool
      /\ b.draft = board.draft /\ b.text = board.text /\ b.made = board.made
  BY <1>b, <1>1, EditedIs
<1> DEFINE c == [b EXCEPT !.selected = {}]
<1>3. /\ IsBoard(c) /\ c.tool = b.tool /\ c.selected = {}
      /\ c.draft = b.draft /\ c.text = b.text /\ c.made = b.made
  BY <1>2 DEF IsBoard
<1> HIDE DEF c
<1>4. Room(c)
  BY <1>b, <1>2, <1>3 DEF Room
<1> QED BY <1>1, <1>3, <1>4, BecomesRoom DEF c

LEMMA UndoRoom ==
  ASSUME BoardInv, BoardRoom, Undo
  PROVE  BoardRoom'
<1>b. IsBoard(board) /\ Room(board)
  BY BoardIs DEF BoardRoom
<1>1. PICK past, torn, els :
        Becomes(board) \/
        Becomes(SetElements([board EXCEPT !.history = past, !.selected = {}, !.torn = torn], els))
  BY Zenon DEF Undo
<1> DEFINE b == [board EXCEPT !.history = past, !.selected = {}, !.torn = torn]
           c == SetElements(b, els)
<1>2. /\ IsBoard(b) /\ b.tool = board.tool /\ b.selected = {}
      /\ b.draft = board.draft /\ b.text = board.text /\ b.made = board.made
  BY <1>b DEF IsBoard
<1>3. Becomes(board) \/ Becomes(c)
  BY <1>1
<1> HIDE DEF b
<1>4. /\ IsBoard(c) /\ c.tool = b.tool /\ c.selected = b.selected
      /\ c.draft = b.draft /\ c.text = b.text /\ c.made = b.made
  BY <1>2, SetElementsIs
<1> HIDE DEF c
<1>5. Room(c)
  BY <1>b, <1>2, <1>4 DEF Room
<1> QED BY <1>b, <1>3, <1>4, <1>5, BecomesRoom

LEMMA FreshRoom == Room(Fresh) /\ Fresh.strokes \in 0..MaxStrokes
<1>1. /\ Fresh.tool \in Tools /\ Fresh.selected = {} /\ Fresh.text = None /\ Fresh.draft = None
      /\ Fresh.made = 0 /\ Fresh.strokes = 0
  BY DEF Fresh, Tools
<1> QED BY <1>1, BoardBounds DEF Room

LEMMA ClearRoom ==
  ASSUME BoardInv, BoardRoom, Clear
  PROVE  BoardRoom'
<1> DEFINE c == [Fresh EXCEPT !.tool = board.tool, !.made = board.made, !.torn = board.torn]
<1>1. /\ IsBoard(c) /\ c.tool = board.tool /\ c.selected = {}
      /\ c.draft = None /\ c.text = None /\ c.made = board.made
  BY DEF Fresh, IsBoard
<1>2. Becomes(c)
  BY DEF Clear
<1> HIDE DEF c
<1>3. Room(c)
  BY <1>1 DEF BoardRoom, Room
<1> QED BY <1>1, <1>2, <1>3, BecomesRoom

LEMMA RoomKept ==
  ASSUME BoardInv, BoardRoom, Next
  PROVE  BoardRoom'
<1>1. CASE \E p \in Points : Down(p) \/ MoveTo(p)
  BY <1>1, DownRoom, MoveRoom
<1>2. CASE Up \/ DeleteSelected \/ Undo \/ Clear
  BY <1>2, UpRoom, DeleteRoom, UndoRoom, ClearRoom
<1>3. CASE \E typed \in BOOLEAN : CommitText(typed)
  BY <1>3, CommitTextRoom
<1>4. CASE Leave
  <2>1. board' = Fresh
    BY <1>4 DEF Leave
  <2> QED BY <2>1, FreshRoom DEF BoardRoom, Room
<1>5. ASSUME NEW t \in Tools, ChooseTool(t) PROVE BoardRoom'
  <2>1. board' = [board EXCEPT !.tool = t] /\ IsBoard(board)
    BY <1>5, BoardIs DEF ChooseTool
  <2>2. /\ board'.tool = t /\ board'.selected = board.selected /\ board'.draft = board.draft
        /\ board'.text = board.text /\ board'.made = board.made /\ board'.strokes = board.strokes
    BY <2>1 DEF IsBoard
  <2> QED BY <2>2 DEF BoardRoom, Room
<1> QED BY <1>1, <1>2, <1>3, <1>4, <1>5 DEF Next

LEMMA BoardRoomHolds == Spec => [](BoardInv /\ BoardRoom)
<1>1. Init => BoardRoom
  BY FreshRoom DEF Init, BoardRoom, Room
<1>2. BoardInv /\ BoardRoom /\ [Next]_board => BoardRoom'
  BY RoomKept DEF BoardRoom, Room
<1>3. Spec => []BoardInv
  BY BoardInvHolds
<1> QED BY <1>1, <1>2, <1>3, PTL DEF Spec

LEMMA BoardTyped ==
  ASSUME BoardInv, BoardRoom
  PROVE  TypeOK
<1>1. /\ board.made \in 0..MaxElements /\ board.elements \in Drawings(board.made)
      /\ board.history \in Seq(Drawings(board.made)) /\ board.made \in Nat
      /\ {board.torn, board.moved, board.canUndo} \subseteq BOOLEAN
  BY DEF BoardInv, Typed, BoardRoom, Room
<1>2. ASSUME NEW els \in Drawings(board.made) PROVE IsDrawing(els)
  <2>1. /\ DOMAIN els \subseteq 1..board.made /\ \A i \in DOMAIN els : els[i] \in Spans
    BY <1>1, DrawingIs
  <2>2. 1..board.made \subseteq 1..MaxElements
    BY <1>1, BoardBounds
  <2> QED BY <2>1, <2>2 DEF IsDrawing
<1>3. \A n \in DOMAIN board.history : board.history[n] \in Drawings(board.made)
  BY <1>1
<1> QED BY <1>1, <1>2, <1>3 DEF TypeOK, BoardRoom, Room

\* Every page of the application keeps to its types and bounds: a draft or an
\* open text has room on the canvas, a dialog that adds a model has room in
\* the list, and every list and name is one the server has.
THEOREM PagesTyped == AppSpec => []AppTypeOK
<1>1. BoardInv /\ BoardRoom => TypeOK
  BY BoardTyped
<1>2. NamesInv => Side!TypeOK
  BY SideTypedIsOK DEF NamesInv
<1>3. FormInv => Form!TypeOK
  BY FormTypedIsOK DEF FormInv
<1>4. BoardInv /\ BoardRoom /\ NamesInv /\ FormInv => AppTypeOK
  BY <1>1, <1>2, <1>3 DEF AppTypeOK
<1> QED BY <1>4, ImplementsWhiteboard, BoardRoomHolds, NamesInvHolds, FormInvHolds, PTL
================================================================================
